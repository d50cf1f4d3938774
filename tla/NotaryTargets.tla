---------------------------- MODULE NotaryTargets ----------------------------
(***************************************************************************)
(* Signature lookups against the internal notary                           *)
(* (pkg/signature/notary/helper.go).  GetTargets opens a file-cached       *)
(* notary repository under one process-wide cache directory, lists the     *)
(* targets, then removes the cached root.json "such that when remote       *)
(* repository is removed the local cache can't be reused"; a failed        *)
(* removal is only logged.  The notary client trusts the root it finds     *)
(* in the cache: a root cached from an earlier incarnation of the remote   *)
(* repository makes the listing fail (the "signature status maybe          *)
(* incorrect" of the warning).  The client writes a downloaded root to     *)
(* the cache before it fetches the rest of the metadata, and every error   *)
(* of the listing returns before the removal.  Meanwhile the remote        *)
(* repository may be deleted and pushed again with a new root (a new       *)
(* generation).                                                            *)
(***************************************************************************)
EXTENDS Naturals

CONSTANTS
    Callers,        \* concurrent API requests asking for the signatures of one repository
    MaxGen,         \* bound on the generations of the remote repository
    RemoveMayFail,  \* whether os.Remove of the cached root.json may fail
    FailAfterRoot   \* whether the listing may fail after the root was cached

ASSUME MaxGen \in Nat \ {0}

NoRoot == 0     \* no root.json in the cache; generations start at 1

VARIABLES
    remoteGen,  \* generation of the remote repository, 0 while it does not exist
    lastGen,    \* the last generation created
    cacheRoot,  \* generation of the cached root.json, or NoRoot
    pc,         \* [Callers -> "idle", "opened", "listed", "returned"]
    outcome     \* [Callers -> "none", "targets", "empty", "error", "stale"]

vars == <<remoteGen, lastGen, cacheRoot, pc, outcome>>

Init ==
    /\ remoteGen = 1 /\ lastGen = 1
    /\ cacheRoot = NoRoot
    /\ pc = [c \in Callers |-> "idle"]
    /\ outcome = [c \in Callers |-> "none"]

\* GetInternalTargets and the start of GetTargets: reading the external
\* endpoint, making the token or opening the cached repository may fail.
Open(c) ==
    /\ pc[c] = "idle"
    /\ \/ pc' = [pc EXCEPT ![c] = "opened"] /\ UNCHANGED outcome
       \/ /\ pc' = [pc EXCEPT ![c] = "returned"]
          /\ outcome' = [outcome EXCEPT ![c] = "error"]
    /\ UNCHANGED <<remoteGen, lastGen, cacheRoot>>

\* GetTargets returns with outcome o before the removal of root.json.
Return(c, o) ==
    /\ pc' = [pc EXCEPT ![c] = "returned"]
    /\ outcome' = [outcome EXCEPT ![c] = o]

\* ListTargets and the error returns after it (helper.go:92-98).  An error
\* before the root is fetched (the server is unreachable) leaves the cache
\* alone; a repository that does not exist gives an empty list and no
\* error.  Otherwise the client takes the cached root, or downloads the
\* remote one into the cache, and fails when the cached root belongs to
\* another generation.  After the root it fetches the rest of the
\* metadata, which can still fail (a timeout, or the repository deleted
\* meanwhile) and leaves the downloaded root in the cache.
ListTargets(c) ==
    /\ pc[c] = "opened"
    /\ \/ Return(c, "error") /\ UNCHANGED cacheRoot
       \/ remoteGen = 0 /\ Return(c, "empty") /\ UNCHANGED cacheRoot
       \/ /\ remoteGen # 0
          /\ cacheRoot \notin {NoRoot, remoteGen}
          /\ Return(c, "stale") /\ UNCHANGED cacheRoot
       \/ /\ remoteGen # 0
          /\ cacheRoot \in {NoRoot, remoteGen}
          /\ cacheRoot' = remoteGen
          /\ \/ /\ pc' = [pc EXCEPT ![c] = "listed"]
                /\ outcome' = [outcome EXCEPT ![c] = "targets"]
             \/ FailAfterRoot /\ Return(c, "error")
    /\ UNCHANGED <<remoteGen, lastGen>>

\* os.Remove of the cached root.json; its error is only logged, and the
\* targets are returned either way.
ClearCache(c) ==
    /\ pc[c] = "listed"
    /\ \/ cacheRoot' = NoRoot
       \/ RemoveMayFail /\ UNCHANGED cacheRoot
    /\ pc' = [pc EXCEPT ![c] = "returned"]
    /\ UNCHANGED <<remoteGen, lastGen, outcome>>

\* The caller issues another request.
Again(c) ==
    /\ pc[c] = "returned"
    /\ pc' = [pc EXCEPT ![c] = "idle"]
    /\ outcome' = [outcome EXCEPT ![c] = "none"]
    /\ UNCHANGED <<remoteGen, lastGen, cacheRoot>>

\* The repository is removed from notary.
DeleteRemote ==
    /\ remoteGen # 0
    /\ remoteGen' = 0
    /\ UNCHANGED <<lastGen, cacheRoot, pc, outcome>>

\* Signed images are pushed again: a new repository with a new root.
RecreateRemote ==
    /\ remoteGen = 0
    /\ lastGen < MaxGen
    /\ remoteGen' = lastGen + 1
    /\ lastGen' = lastGen + 1
    /\ UNCHANGED <<cacheRoot, pc, outcome>>

Next ==
    \/ \E c \in Callers : Open(c) \/ ListTargets(c) \/ ClearCache(c) \/ Again(c)
    \/ DeleteRemote \/ RecreateRemote

Spec == Init /\ [][Next]_vars

(***************************************************************************)
(* Properties.                                                             *)
(***************************************************************************)
\* The signature status of a repository never rests on a root cached from
\* an earlier incarnation of it: removing root.json after every listing
\* keeps a deleted and re-pushed repository from failing the lookup.
NoStaleRootUsed == \A c \in Callers : outcome[c] # "stale"
=============================================================================
