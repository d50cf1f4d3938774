--------------------------- MODULE RetentionEngine ---------------------------
(***************************************************************************)
(* One retention run: Build (pkg/retention/policy/builder.go) turns the    *)
(* policy into a processor, then the "or" processor (spec.md 4.6)          *)
(* evaluates every rule, in whatever order its workers finish, unions      *)
(* what they retain and hands the rest to the performer (spec.md 4.5),     *)
(* which issues one removal call per candidate, at most MaxInflight at a   *)
(* time; a failed call is collected and its siblings carry on.             *)
(***************************************************************************)
EXTENDS RetentionRules

CONSTANTS
    Policies,       \* the policies a run may be started with
    MaxInflight     \* bound on concurrent removal calls of the performer

ASSUME MaxInflight \in Nat \ {0}

VARIABLES
    policy,     \* the *lwp.Metadata handed to Build
    dryRun,     \* the isDryRun argument of Build
    phase,      \* "build", "ready", "rejected", "performing", "done"
    params,     \* the []*alg.Parameter Build assembled
    evaluated,  \* indexes of the rules the processor has evaluated
    retained,   \* union of what the evaluated rules retain
    pending,    \* candidates handed to the performer, call not yet issued
    inflight,   \* candidates whose removal call is in flight
    store,      \* candidates still present in the artifact store
    deleted,    \* candidates the real performer removed
    failed,     \* candidates whose removal call failed, collected for the report
    recorded    \* candidates the dry-run performer reports as "would be removed"

vars == <<policy, dryRun, phase, params, evaluated, retained,
          pending, inflight, store, deleted, failed, recorded>>

Settled == deleted \cup failed \cup recorded

Init ==
    /\ policy \in Policies
    /\ dryRun \in BOOLEAN
    /\ phase = "build"
    /\ params = <<>>
    /\ evaluated = {} /\ retained = {}
    /\ pending = {} /\ inflight = {}
    /\ store = Universe
    /\ deleted = {} /\ failed = {} /\ recorded = {}

(***************************************************************************)
(* Build.  The parameter of a rule binds its evaluator, its selectors and  *)
(* a performer constructed with the full universe and isDryRun.            *)
(***************************************************************************)
\* Mutant: only the first rule's performer is resolved with isDryRun; the
\* later ones are built for a real run.
ResolveParamsIgnoringDryRun(pol, isDryRun) ==
    [i \in DOMAIN pol.rules |->
        [template |-> pol.rules[i].template, param |-> pol.rules[i].param,
         selectors |-> pol.rules[i].selectors, action |-> pol.rules[i].action,
         performerDryRun |-> i = 1 /\ isDryRun]]

ResolveParams(pol, isDryRun) ==
    [i \in DOMAIN pol.rules |->
        [template |-> pol.rules[i].template, param |-> pol.rules[i].param,
         selectors |-> pol.rules[i].selectors, action |-> pol.rules[i].action,
         performerDryRun |-> isDryRun]]

\* Build returns an error: nil policy, or the first unresolvable name.
BuildRejected ==
    /\ phase = "build"
    /\ ~Resolvable(policy)
    /\ phase' = "rejected"
    /\ UNCHANGED <<policy, dryRun, params, evaluated, retained,
                   pending, inflight, store, deleted, failed, recorded>>

\* Mutant: an unresolvable selector is skipped (continue) instead of failing Build.
BuildSkippingBadSelectors ==
    /\ phase = "build"
    /\ policy # NilPolicy
    /\ policy.algorithm \in Algorithms
    /\ \A i \in DOMAIN policy.rules :
          policy.rules[i].template \in Templates /\ policy.rules[i].action \in Actions
    /\ params' = [i \in DOMAIN policy.rules |->
                    [ResolveParams(policy, dryRun)[i] EXCEPT
                        !.selectors = SelectSeq(@, SelectorResolves)]]
    /\ phase' = "ready"
    /\ UNCHANGED <<policy, dryRun, evaluated, retained,
                   pending, inflight, store, deleted, failed, recorded>>

\* Build returns the processor for the policy's algorithm.
BuildSucceeded ==
    /\ phase = "build"
    /\ Resolvable(policy)
    /\ params' = ResolveParams(policy, dryRun)
    /\ phase' = "ready"
    /\ UNCHANGED <<policy, dryRun, evaluated, retained,
                   pending, inflight, store, deleted, failed, recorded>>

(***************************************************************************)
(* Process of the "or" processor.                                          *)
(***************************************************************************)
EvaluateRule(i) ==
    /\ phase = "ready"
    /\ i \notin evaluated
    /\ evaluated' = evaluated \cup {i}
    /\ retained' = retained \cup
         Evaluate(params[i].template, params[i].param,
                  SelectChain(params[i].selectors, Universe))
    /\ UNCHANGED <<policy, dryRun, phase, params,
                   pending, inflight, store, deleted, failed, recorded>>

\* Mutant: the performer is started before every rule has been evaluated.
CombineEarly ==
    /\ phase = "ready"
    /\ pending' = IF params = <<>> THEN {} ELSE Universe \ retained
    /\ phase' = "performing"
    /\ UNCHANGED <<policy, dryRun, params, evaluated, retained,
                   inflight, store, deleted, failed, recorded>>

\* Once every rule is in, the complement of the union goes to the performer.
Combine ==
    /\ phase = "ready"
    /\ evaluated = DOMAIN params
    /\ pending' = IF params = <<>> THEN {} ELSE Universe \ retained
    /\ phase' = "performing"
    /\ UNCHANGED <<policy, dryRun, params, evaluated, retained,
                   inflight, store, deleted, failed, recorded>>

\* The dry-run flag the performer of rule i was built with.
PerformerDryRun(i) == params[i].performerDryRun

\* Mutant: removal calls are dispatched without the concurrency bound.
DispatchUnbounded(c) ==
    /\ phase = "performing"
    /\ c \in pending
    /\ pending' = pending \ {c}
    /\ inflight' = inflight \cup {c}
    /\ UNCHANGED <<policy, dryRun, phase, params, evaluated, retained,
                   store, deleted, failed, recorded>>

Dispatch(c) ==
    /\ phase = "performing"
    /\ c \in pending
    /\ Cardinality(inflight) < MaxInflight
    /\ pending' = pending \ {c}
    /\ inflight' = inflight \cup {c}
    /\ UNCHANGED <<policy, dryRun, phase, params, evaluated, retained,
                   store, deleted, failed, recorded>>

\* The call returns: the real performer has removed c, the dry-run one
\* records it.  The removal set is handed to each rule's performer, so the
\* call may come from the performer of any rule.
RemoveCandidate(c) ==
    /\ c \in inflight
    /\ inflight' = inflight \ {c}
    /\ \E i \in DOMAIN params :
       IF PerformerDryRun(i)
       THEN /\ recorded' = recorded \cup {c}
            /\ UNCHANGED <<store, deleted>>
       ELSE /\ store' = store \ {c}
            /\ deleted' = deleted \cup {c}
            /\ UNCHANGED recorded
    /\ UNCHANGED <<policy, dryRun, phase, params, evaluated, retained,
                   pending, failed>>

\* Mutant: a failed removal cancels the calls not yet issued.
RemoveFailedCancelling(c) ==
    /\ c \in inflight
    /\ \E i \in DOMAIN params : ~PerformerDryRun(i)
    /\ inflight' = inflight \ {c}
    /\ failed' = failed \cup {c}
    /\ pending' = {}
    /\ UNCHANGED <<policy, dryRun, phase, params, evaluated, retained,
                   store, deleted, recorded>>

\* The store refuses the removal of c; the failure is collected.
RemoveFailed(c) ==
    /\ c \in inflight
    /\ \E i \in DOMAIN params : ~PerformerDryRun(i)
    /\ inflight' = inflight \ {c}
    /\ failed' = failed \cup {c}
    /\ UNCHANGED <<policy, dryRun, phase, params, evaluated, retained,
                   pending, store, deleted, recorded>>

Finish ==
    /\ phase = "performing"
    /\ pending = {} /\ inflight = {}
    /\ phase' = "done"
    /\ UNCHANGED <<policy, dryRun, params, evaluated, retained,
                   pending, inflight, store, deleted, failed, recorded>>

\* The run has returned; nothing changes any more.
Terminated ==
    /\ phase \in {"rejected", "done"}
    /\ UNCHANGED vars

Next ==
    \/ BuildRejected \/ BuildSucceeded
    \/ \E i \in DOMAIN params : EvaluateRule(i)
    \/ Combine
    \/ \E c \in Universe : Dispatch(c) \/ RemoveCandidate(c) \/ RemoveFailed(c)
    \/ Finish
    \/ Terminated

\* Process is a synchronous call: once started it runs to its end.
Spec == Init /\ [][Next]_vars /\ WF_vars(Next)

(***************************************************************************)
(* Properties.                                                             *)
(***************************************************************************)
TypeOK ==
    /\ phase \in {"build", "ready", "rejected", "performing", "done"}
    /\ evaluated \subseteq DOMAIN params
    /\ retained \subseteq Universe
    /\ pending \cup inflight \cup Settled \subseteq Universe
    /\ Cardinality(inflight) <= MaxInflight
    /\ store \subseteq Universe

\* No candidate that some rule of the policy retains is ever removed from
\* the store, whatever order the rules are evaluated and the removals run in.
RetainedNeverDeleted ==
    policy # NilPolicy => \A c \in Universe \ store : c \notin Decision(policy)

\* Build fails fast: a candidate is removed only under a policy every name of
\* which resolved, never on a rule set from which a rule or selector was dropped.
NoDecisionOnIncompleteRules ==
    Settled # {} => Resolvable(policy)

\* Build hands isDryRun to the performer of every rule: a dry run never
\* touches the store, whichever rule's performer issues a removal call.
DryRunHasNoSideEffects ==
    dryRun => (store = Universe /\ deleted = {} /\ failed = {})

\* The run implements RetentionSpec: the decision is the union of the rules,
\* independent of evaluation order and of dry-run mode, and every removed
\* candidate is settled (deleted, failed or recorded) before the run ends.
Abstract == INSTANCE RetentionSpec WITH
    status <- CASE phase \in {"build", "ready"} -> "pending"
                [] phase = "rejected"            -> "rejected"
                [] phase = "performing"          -> "decided"
                [] phase = "done"                -> "done",
    kept <- IF phase \in {"performing", "done"} THEN retained ELSE {}

RefinesRetentionSpec == Abstract!ASpec
=============================================================================
