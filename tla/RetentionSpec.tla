---------------------------- MODULE RetentionSpec ----------------------------
(***************************************************************************)
(* What one retention run promises (spec.md 4.6, 4.5, 7): a policy that    *)
(* does not resolve is rejected before any candidate is touched; one that  *)
(* does is decided in a single step (the union of what its rules retain),  *)
(* and then every candidate it removes is settled on its own: deleted or   *)
(* failed in a real run, recorded in a dry run.                            *)
(***************************************************************************)
EXTENDS RetentionRules

CONSTANTS Policies     \* the policies a run may be started with

VARIABLES
    policy,     \* the policy of this run
    dryRun,     \* the isDryRun flag of Build
    status,     \* "pending", "rejected", "decided" or "done"
    kept,       \* the retained candidates, once decided
    store,      \* candidates still present in the artifact store
    deleted,    \* candidates removed by the real performer
    failed,     \* candidates whose removal failed, reported back
    recorded    \* candidates a dry run reports as "would be removed"

avars == <<policy, dryRun, status, kept, store, deleted, failed, recorded>>

Settled == deleted \cup failed \cup recorded

AInit ==
    /\ policy \in Policies
    /\ dryRun \in BOOLEAN
    /\ status = "pending"
    /\ kept = {}
    /\ store = Universe
    /\ deleted = {} /\ failed = {} /\ recorded = {}

Reject ==
    /\ status = "pending"
    /\ ~Resolvable(policy)
    /\ status' = "rejected"
    /\ UNCHANGED <<policy, dryRun, kept, store, deleted, failed, recorded>>

Decide ==
    /\ status = "pending"
    /\ Resolvable(policy)
    /\ status' = "decided"
    /\ kept' = Decision(policy)
    /\ UNCHANGED <<policy, dryRun, store, deleted, failed, recorded>>

SettleOne ==
    /\ status = "decided"
    /\ \E c \in ToRemove(policy) \ Settled :
         IF dryRun
         THEN /\ recorded' = recorded \cup {c}
              /\ UNCHANGED <<store, deleted, failed>>
         ELSE \/ /\ store' = store \ {c}
                 /\ deleted' = deleted \cup {c}
                 /\ UNCHANGED <<failed, recorded>>
              \/ /\ failed' = failed \cup {c}
                 /\ UNCHANGED <<store, deleted, recorded>>
    /\ UNCHANGED <<policy, dryRun, status, kept>>

Complete ==
    /\ status = "decided"
    /\ Settled = ToRemove(policy)
    /\ status' = "done"
    /\ UNCHANGED <<policy, dryRun, kept, store, deleted, failed, recorded>>

ANext == Reject \/ Decide \/ SettleOne \/ Complete

ASpec == AInit /\ [][ANext]_avars /\ WF_avars(ANext)
=============================================================================
