-------------------------- MODULE QuotaPutManifest --------------------------
(***************************************************************************)
(* Storage quota charged for manifest pushes of one project                *)
(* (server/middleware/quota/put_manifest.go).  putManifestResources        *)
(* computes what a PUT of a manifest adds to the project's storage:        *)
(* nothing when the manifest blob is already associated with the           *)
(* project, else its own size plus the sizes of the referenced blobs the   *)
(* project is missing, foreign layers excepted.  The request middleware    *)
(* that applies the amount lives outside this repository: here it adds     *)
(* the amount to the usage when the push succeeds and the registry then    *)
(* associates the manifest and its blobs with the project.                 *)
(***************************************************************************)
EXTENDS Naturals, FiniteSets, FiniteSetsExt

CONSTANTS
    Requests,       \* manifest PUTs of the project, possibly concurrent
    Manifests,      \* manifest digests
    Layers,         \* layer blob digests
    Refs,           \* [Manifests -> SUBSET Layers], manifest.References()
    Size,           \* [Manifests \cup Layers -> Nat], descriptor / blob sizes
    Foreign         \* layers that are foreign (IsForeignLayer)

ASSUME /\ Refs \in [Manifests -> SUBSET Layers]
       /\ Size \in [Manifests \cup Layers -> Nat]
       /\ Foreign \subseteq Layers

VARIABLES
    assoc,      \* blobs associated with the project
    usage,      \* the project's storage usage as charged
    pc,         \* [Requests -> "start", "computed", "done"]
    manifest,   \* [Requests -> the manifest the request pushes]
    amount,     \* [Requests -> the storage amount computed for it]
    overlapped  \* ghost: a request computed its amount while another
                \* request's amount was computed but not yet applied

vars == <<assoc, usage, pc, manifest, amount, overlapped>>

\* Storage of a set of blobs as the quota counts it.
Stored(B) == MapThenSumSet(LAMBDA b : Size[b], B \ Foreign)

Init ==
    /\ assoc = {}
    /\ usage = 0
    /\ pc = [r \in Requests |-> "start"]
    /\ manifest \in [Requests -> Manifests]
    /\ amount = [r \in Requests |-> 0]
    /\ overlapped = FALSE

\* Mutant: foreign layers are charged like any other missing blob.
ResourcesCountingForeign(m, A) ==
    IF m \in A THEN 0
    ELSE Size[m] + MapThenSumSet(LAMBDA b : Size[b], Refs[m] \ A)

\* putManifestResources: Exist for the manifest blob, then
\* FindMissingAssociationsForProject for its references.
PutManifestResources(m, A) ==
    IF m \in A THEN 0
    ELSE Size[m] + MapThenSumSet(LAMBDA b : Size[b], (Refs[m] \ A) \ Foreign)

\* The request middleware computes the resources: the unmarshal, the
\* Exist query or the missing-association query may fail, and the push
\* is answered with the error.
Request(r) ==
    /\ pc[r] = "start"
    /\ \/ /\ amount' = [amount EXCEPT ![r] = PutManifestResources(manifest[r], assoc)]
          /\ pc' = [pc EXCEPT ![r] = "computed"]
          /\ overlapped' = (overlapped \/ \E q \in Requests : pc[q] = "computed")
       \/ pc' = [pc EXCEPT ![r] = "done"] /\ UNCHANGED <<amount, overlapped>>
    /\ UNCHANGED <<assoc, usage, manifest>>

\* The handler stores the manifest: the amount is charged and the manifest
\* and its blobs are associated with the project; or it fails and nothing
\* is charged.
Push(r) ==
    /\ pc[r] = "computed"
    /\ \/ /\ usage' = usage + amount[r]
          /\ assoc' = assoc \cup {manifest[r]} \cup Refs[manifest[r]]
       \/ UNCHANGED <<usage, assoc>>
    /\ pc' = [pc EXCEPT ![r] = "done"]
    /\ UNCHANGED <<manifest, amount, overlapped>>

Finished ==
    /\ \A r \in Requests : pc[r] = "done"
    /\ UNCHANGED vars

Next ==
    \/ \E r \in Requests : Request(r) \/ Push(r)
    \/ Finished

Spec == Init /\ [][Next]_vars

(***************************************************************************)
(* Properties.                                                             *)
(***************************************************************************)
\* The project is never charged less than the storage of the blobs
\* associated with it, and, as long as no push computed its amount while
\* another push was still in flight, exactly that: a manifest pushed
\* again, a layer two manifests share and a foreign layer are then never
\* charged twice or at all.  Concurrent pushes of the same new blobs each
\* read the associations before either stores, and both pay for them.
UsageMatchesStorage ==
    /\ usage >= Stored(assoc)
    /\ ~overlapped => usage = Stored(assoc)
=============================================================================
