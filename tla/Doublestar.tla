----------------------------- MODULE Doublestar -----------------------------
(***************************************************************************)
(* The doublestar-style glob of the pattern selector (spec.md 4.2 and the  *)
(* repo1/** scenario of section 8).  A name is a sequence of characters    *)
(* with "/" between segments; a pattern is a sequence of tokens: a         *)
(* character stands for itself, "*" for any run of characters inside one   *)
(* segment and "**" for any run of characters across segments.  So        *)
(* repo1/** matches repo1/ubuntu and not the bare repo1.                   *)
(***************************************************************************)
EXTENDS Naturals, Sequences

Sep == "/"

\* The rest of s after its first k characters.
Drop(s, k) == SubSeq(s, k + 1, Len(s))

\* The matcher: the first token consumes a prefix of the name that it
\* accepts, the rest of the pattern the rest of the name.
RECURSIVE Match(_, _)
Match(p, s) ==
    IF p = <<>> THEN s = <<>>
    ELSE CASE Head(p) = "**" ->
                \E k \in 0..Len(s) : Match(Tail(p), Drop(s, k))
           [] Head(p) = "*" ->
                \E k \in 0..Len(s) :
                    /\ \A i \in 1..k : s[i] # Sep
                    /\ Match(Tail(p), Drop(s, k))
           [] OTHER ->
                s # <<>> /\ Head(s) = Head(p) /\ Match(Tail(p), Tail(s))

=============================================================================
