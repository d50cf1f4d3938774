---------------------------- MODULE ImmutablePush ----------------------------
(***************************************************************************)
(* Manifest pushes through the immutable middleware                        *)
(* (server/middleware/immutable/pushmf.go).  Before a PUT of a manifest    *)
(* by tag reaches the registry, handlePush looks up the artifact the tag   *)
(* points to, with the immutable status of its tags, and refuses the push  *)
(* (412) when the pushed tag is among them and immutable.  A failed        *)
(* lookup (including "not found") lets the push through.  The lookup and   *)
(* the write are two steps: pushers interleave between them.               *)
(*                                                                         *)
(* The repository is a map from tag to the digest of the artifact it       *)
(* points to; the tags of an artifact are the tags mapped to its digest.   *)
(* The immutable rules are represented by the set of tag names they        *)
(* match, which is what WithImmutableStatus computes per tag.              *)
(***************************************************************************)
EXTENDS Naturals

CONSTANTS
    Pushers,        \* clients pushing concurrently
    Tags,           \* tag names of the repository
    Digests,        \* manifest digests that may be pushed
    None,           \* a tag that points to nothing
    InitialRepo,    \* [Tags -> Digests \cup {None}], the repository at start
    ImmutableTags,  \* tags matched by an immutable rule
    LookupMayFail,  \* whether GetByReference may fail for reasons other than "not found"
    MaxPushes       \* pushes issued by each pusher

ASSUME /\ None \notin Digests
       /\ InitialRepo \in [Tags -> Digests \cup {None}]
       /\ ImmutableTags \subseteq Tags
       /\ MaxPushes \in Nat \ {0}

VARIABLES
    repo,       \* [Tags -> Digests \cup {None}]
    pc,         \* [Pushers -> "idle", "allowed", "rejected", "failed"]
    req,        \* [Pushers -> the tag and digest of the push in progress]
    pushes      \* [Pushers -> pushes issued so far]

vars == <<repo, pc, req, pushes>>

\* af.Tags: the tags of the artifact a tag points to.
TagsOf(r, d) == {tg \in Tags : r[tg] = d}

Init ==
    /\ repo = InitialRepo
    /\ pc = [p \in Pushers |-> "idle"]
    /\ req = [p \in Pushers |-> [tag |-> CHOOSE t \in Tags : TRUE,
                                 digest |-> CHOOSE d \in Digests : TRUE]]
    /\ pushes = [p \in Pushers |-> 0]

\* artifact.Ctl.GetByReference(art.Repository, art.Tag, WithTag,
\* WithImmutableStatus): NotFound when the tag points to nothing.
Lookup(p, t, d) ==
    IF repo[t] # None
    THEN [found |-> TRUE, tags |-> TagsOf(repo, repo[t])]
    ELSE [found |-> FALSE, tags |-> {}]

\* The loop over af.Tags: the pushed tag is among them and immutable.
PushesImmutableTag(af, t) ==
    af.found /\ \E tg \in af.tags : tg = t /\ tg \in ImmutableTags

\* Middleware + handlePush for a PUT of digest d by tag t.  The request
\* either lacks the artifact info (500), or the lookup fails and the push
\* goes on, or some tag of the artifact is the pushed one and immutable
\* (412), or the push goes on.
HandlePush(p) ==
    /\ pc[p] = "idle"
    /\ pushes[p] < MaxPushes
    /\ \E t \in Tags, d \in Digests :
         /\ req' = [req EXCEPT ![p] = [tag |-> t, digest |-> d]]
         /\ \/ pc' = [pc EXCEPT ![p] = "failed"]          \* no artifact info: 500
            \/ LookupMayFail /\ pc' = [pc EXCEPT ![p] = "allowed"]
            \/ pc' = [pc EXCEPT ![p] = IF PushesImmutableTag(Lookup(p, t, d), t)
                                       THEN "rejected" ELSE "allowed"]
    /\ pushes' = [pushes EXCEPT ![p] = @ + 1]
    /\ UNCHANGED repo

\* next.ServeHTTP: the registry stores the manifest and points the tag at it.
PutManifest(p) ==
    /\ pc[p] = "allowed"
    /\ repo' = [repo EXCEPT ![req[p].tag] = req[p].digest]
    /\ pc' = [pc EXCEPT ![p] = "idle"]
    /\ UNCHANGED <<req, pushes>>

\* The error response (412 or 500) has been sent.
Respond(p) ==
    /\ pc[p] \in {"rejected", "failed"}
    /\ pc' = [pc EXCEPT ![p] = "idle"]
    /\ UNCHANGED <<repo, req, pushes>>

\* Every pusher has issued its pushes and got its answers.
Finished ==
    /\ \A p \in Pushers : pc[p] = "idle" /\ pushes[p] = MaxPushes
    /\ UNCHANGED vars

Next ==
    \/ \E p \in Pushers : HandlePush(p) \/ PutManifest(p) \/ Respond(p)
    \/ Finished

Spec == Init /\ [][Next]_vars

(***************************************************************************)
(* Properties.                                                             *)
(***************************************************************************)
\* Pushes never move an existing tag that an immutable rule matches: once
\* such a tag points to an artifact, no PUT re-points it.
ImmutableTagNeverOverwritten ==
    [][\A t \in ImmutableTags : repo[t] # None => repo'[t] = repo[t]]_repo
=============================================================================
