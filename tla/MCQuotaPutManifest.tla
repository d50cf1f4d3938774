------------------------- MODULE MCQuotaPutManifest -------------------------
(***************************************************************************)
(* Two manifests sharing layer b2, one of them also referencing a          *)
(* foreign layer; all sizes equal so that a wrong count is not hidden by   *)
(* distinct sizes.                                                         *)
(***************************************************************************)
EXTENDS QuotaPutManifest, TLC

CONSTANTS q1, q2, q3, m1, m2, b1, b2, b3

MCRefs == (m1 :> {b1, b2}) @@ (m2 :> {b2, b3})
MCSize == [x \in {m1, m2, b1, b2, b3} |-> 1]
=============================================================================
