----------------------- MODULE MCTransactionMiddleware -----------------------
(***************************************************************************)
(* Two concurrent requests, so that one request's MustCommit could reach   *)
(* the other's transaction if the flag were shared.                        *)
(***************************************************************************)
EXTENDS TransactionMiddleware

CONSTANTS r1, r2
=============================================================================
