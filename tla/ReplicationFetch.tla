-------------------------- MODULE ReplicationFetch --------------------------
(***************************************************************************)
(* FetchArtifacts of the Harbor 1.x replication adapter                    *)
(* (pkg/reg/adapter/harbor/v1/adapter.go).  For each project in turn it    *)
(* lists the repositories, then runs one listArtifacts task per            *)
(* repository on a runner of at most MaxConcurrency goroutines; each       *)
(* task writes its own slot of rawResources.  The task closure copies      *)
(* index and repository but reads the range variable project, for the     *)
(* resource's metadata, only when it runs.  After runner.Wait the          *)
(* non-nil slots are appended in repository order.  Any listing error      *)
(* ends the fetch with an error and no resources.                          *)
(***************************************************************************)
EXTENDS Naturals, Sequences, SequencesExt, FiniteSets

CONSTANTS
    ProjectRepos,   \* sequence: per project, its (filtered) repositories in listing order
    NonEmpty,       \* repositories whose filtered artifact list is not empty
    MaxConcurrency, \* adp.MaxConcurrency, the runner's bound
    Nil             \* an empty slot of rawResources

ASSUME MaxConcurrency \in Nat \ {0}

VARIABLES
    phase,      \* "projects", "repos", "tasks", "done", "failed"
    pidx,       \* index of the project being fetched: the range variable project
    repos,      \* the repositories of that project
    raw,        \* rawResources: [1..Len(repos) -> Resource or Nil]
    task,       \* [1..Len(repos) -> "queued", "running", "ok", "err"]
    resources   \* the resources collected so far

vars == <<phase, pidx, repos, raw, task, resources>>

\* listRepositories: the project's repositories as the client lists them,
\* through the repository filters.
RepositoriesOf(p) == ProjectRepos[p]

\* listArtifacts: the repository's artifacts through the artifact filters
\* are not empty.
HasArtifacts(r) == r \in NonEmpty

\* The model.Resource of repository r carrying the metadata of project p.
Resource(p, r) == <<p, r>>

\* The result FetchArtifacts should return when no call fails: project by
\* project, the resources of its repositories that have artifacts.
ProjectResources(p) ==
    LET rs == SelectSeq(RepositoriesOf(p), HasArtifacts)
    IN  [k \in DOMAIN rs |-> Resource(p, rs[k])]

ExpectedResources ==
    FoldLeftDomain(LAMBDA acc, p : acc \o ProjectResources(p), <<>>, ProjectRepos)

Init ==
    /\ phase = "projects"
    /\ pidx = 0
    /\ repos = <<>>
    /\ raw = <<>>
    /\ task = <<>>
    /\ resources = <<>>

Fail ==
    /\ phase' = "failed"
    /\ resources' = <<>>

\* ListProjects: its error is returned.
ListProjects ==
    /\ phase = "projects"
    /\ \/ Fail /\ UNCHANGED pidx
       \/ phase' = "repos" /\ pidx' = 1 /\ UNCHANGED resources
    /\ UNCHANGED <<repos, raw, task>>

\* Next project: listRepositories, then one task per repository into a
\* fresh rawResources; a project without repositories is skipped.  After
\* the last project the fetch returns its resources.
ListRepositories ==
    /\ phase = "repos"
    /\ IF pidx > Len(ProjectRepos)
       THEN phase' = "done" /\ UNCHANGED <<pidx, repos, raw, task, resources>>
       ELSE \/ Fail /\ UNCHANGED <<pidx, repos, raw, task>>
            \/ /\ RepositoriesOf(pidx) = <<>>
               /\ pidx' = pidx + 1
               /\ UNCHANGED <<phase, repos, raw, task, resources>>
            \/ /\ RepositoriesOf(pidx) # <<>>
               /\ repos' = RepositoriesOf(pidx)
               /\ raw' = [i \in DOMAIN RepositoriesOf(pidx) |-> Nil]
               /\ task' = [i \in DOMAIN RepositoriesOf(pidx) |-> "queued"]
               /\ phase' = "tasks"
               /\ UNCHANGED <<pidx, resources>>

Running == {i \in DOMAIN task : task[i] = "running"}

\* The runner starts a queued task when a slot is free.
StartTask(i) ==
    /\ phase = "tasks"
    /\ task[i] = "queued"
    /\ Cardinality(Running) < MaxConcurrency
    /\ task' = [task EXCEPT ![i] = "running"]
    /\ UNCHANGED <<phase, pidx, repos, raw, resources>>

\* Mutant: a task appends its resource itself, in completion order.
RunTaskAppending(i) ==
    /\ task[i] = "running"
    /\ \/ task' = [task EXCEPT ![i] = "err"] /\ UNCHANGED resources
       \/ /\ task' = [task EXCEPT ![i] = "ok"]
          /\ resources' = IF HasArtifacts(repos[i])
                          THEN Append(resources, Resource(pidx, repos[i]))
                          ELSE resources
    /\ UNCHANGED <<phase, pidx, repos, raw>>

\* Mutant: the runner queues a failed task again.
RunTaskRetrying(i) ==
    /\ task[i] = "running"
    /\ \/ task' = [task EXCEPT ![i] = "queued"] /\ UNCHANGED raw
       \/ /\ task' = [task EXCEPT ![i] = "ok"]
          /\ raw' = [raw EXCEPT ![i] = IF HasArtifacts(repos[i])
                                        THEN Resource(pidx, repos[i]) ELSE Nil]
    /\ UNCHANGED <<phase, pidx, repos, resources>>

\* The task body: listArtifacts fails, or fills slot index with the
\* repository's resource, with the metadata of project as it is when the
\* task runs, or with nil when the repository has no artifacts.
RunTask(i) ==
    /\ task[i] = "running"
    /\ \/ task' = [task EXCEPT ![i] = "err"] /\ UNCHANGED raw
       \/ /\ task' = [task EXCEPT ![i] = "ok"]
          /\ raw' = [raw EXCEPT ![i] = IF HasArtifacts(repos[i])
                                        THEN Resource(pidx, repos[i]) ELSE Nil]
    /\ UNCHANGED <<phase, pidx, repos, resources>>

\* runner.Wait returns once every task has ended, with an error if one
\* failed; else the non-nil slots are appended in index order.
Wait ==
    /\ phase = "tasks"
    /\ \A i \in DOMAIN task : task[i] \in {"ok", "err"}
    /\ IF \E i \in DOMAIN task : task[i] = "err"
       THEN Fail /\ UNCHANGED pidx
       ELSE /\ resources' = resources \o SelectSeq(raw, LAMBDA r : r # Nil)
            /\ pidx' = pidx + 1
            /\ phase' = "repos"
    /\ UNCHANGED <<repos, raw, task>>

\* FetchArtifacts has returned.
Returned ==
    /\ phase \in {"done", "failed"}
    /\ UNCHANGED vars

Next ==
    \/ ListProjects \/ ListRepositories
    \/ \E i \in DOMAIN task : StartTask(i) \/ RunTask(i)
    \/ Wait
    \/ Returned

\* FetchArtifacts and the runner's goroutines never wait on anything but
\* each other, and every client call returns (or fails).
Progress ==
    \/ ListProjects \/ ListRepositories
    \/ \E i \in DOMAIN task : StartTask(i) \/ RunTask(i)
    \/ Wait

Spec == Init /\ [][Next]_vars /\ WF_vars(Progress)

\* The view of the fetch its caller has.
FetchSpec == INSTANCE ReplicationFetchSpec WITH
    Expected <- ExpectedResources,
    aphase   <- IF phase \in {"done", "failed"} THEN phase ELSE "running",
    aresult  <- IF phase \in {"done", "failed"} THEN resources ELSE <<>>

(***************************************************************************)
(* Properties.                                                             *)
(***************************************************************************)
\* Whatever order the concurrent tasks finish in, a fetch without errors
\* returns every repository that has artifacts exactly once, project by
\* project in listing order, and a fetch with an error returns nothing.
FetchResultInListingOrder ==
    /\ phase = "done" => resources = ExpectedResources
    /\ phase = "failed" => resources = <<>>

\* FetchArtifacts implements what it promises the replication flow: it
\* returns, once, the listed resources or an error, however the runner
\* schedules and whatever calls fail.
RefinesFetchSpec == FetchSpec!ASpec
=============================================================================
