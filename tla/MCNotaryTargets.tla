--------------------------- MODULE MCNotaryTargets ---------------------------
(***************************************************************************)
(* Callers of GetTargets for one repository that is deleted and pushed     *)
(* again up to twice (MaxGen = 3).  MCNotaryTargets.cfg has one caller     *)
(* whose listing may fail after the root is cached; MCNotaryConcurrent.cfg *)
(* has two callers whose listings succeed once the root is fetched, so     *)
(* that only their interleaving can leave a stale root.                    *)
(***************************************************************************)
EXTENDS NotaryTargets

CONSTANTS u1, u2
=============================================================================
