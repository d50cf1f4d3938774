--------------------------- MODULE MCImmutablePush ---------------------------
(***************************************************************************)
(* Three tags, two of them on one artifact so that a lookup returns more   *)
(* than one tag, one immutable tag already pushed and one not yet pushed   *)
(* whose name an immutable rule also matches.                              *)
(***************************************************************************)
EXTENDS ImmutablePush, TLC

CONSTANTS p1, p2, t1, t2, t3, d1, d2, none

MCInitialRepo == (t1 :> d1) @@ (t2 :> d1) @@ (t3 :> none)

=============================================================================
