------------------------ MODULE ReplicationFetchSpec ------------------------
(***************************************************************************)
(* What FetchArtifacts of the Harbor 1.x replication adapter promises to   *)
(* its caller, the replication flow: the call returns, once, either the    *)
(* resources of every repository with artifacts in listing order or an     *)
(* error with no resources.  How the work is split over projects and       *)
(* concurrent tasks is not visible at this level.                          *)
(***************************************************************************)
CONSTANT Expected   \* the resources of a fetch in which no call fails

VARIABLES
    aphase,     \* "running", "done" or "failed"
    aresult     \* what the call has returned

avars == <<aphase, aresult>>

AInit ==
    /\ aphase = "running"
    /\ aresult = <<>>

\* The call returns its result, or an error and nothing.
AReturn ==
    /\ aphase = "running"
    /\ \/ aphase' = "done" /\ aresult' = Expected
       \/ aphase' = "failed" /\ aresult' = <<>>

\* The replication flow waits for the call: it does return.
ASpec == AInit /\ [][AReturn]_avars /\ WF_avars(AReturn)
=============================================================================
