------------------------- MODULE MCReplicationFetch -------------------------
(***************************************************************************)
(* Three projects: one with three repositories of which two have           *)
(* artifacts, one without repositories, one with three repositories of     *)
(* which two have artifacts.                                               *)
(* Two runner slots, so that tasks of one project finish out of order      *)
(* and one waits for a slot.                                               *)
(***************************************************************************)
EXTENDS ReplicationFetch

CONSTANTS ra, rb, rc, rd, re, rf, nil

MCProjectRepos == <<<<ra, rb, rc>>, <<>>, <<rd, re, rf>>>>
=============================================================================
