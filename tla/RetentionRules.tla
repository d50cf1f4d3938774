--------------------------- MODULE RetentionRules ---------------------------
(***************************************************************************)
(* The pure part of the retention engine: tag selectors, retention         *)
(* templates, name resolution as done by the builder, and the decision     *)
(* the "or" algorithm promises.  Selectors, templates and the algorithm    *)
(* are not in src/ and follow spec.md sections 4.2, 4.4 and 4.6; name      *)
(* resolution follows pkg/retention/policy/builder.go.                     *)
(***************************************************************************)
EXTENDS Naturals, FiniteSets, Sequences, SequencesExt, Doublestar

CONSTANTS
    Universe,       \* the candidates handed to NewBuilder (all tags of the project)
    Pushed,         \* [Universe -> Nat]: push time of every candidate
    Now,            \* the time the run evaluates "n days since push" against
    TagName,        \* [Universe -> name]: the tag of every candidate as a character sequence
    CandLabels,     \* [Universe -> SUBSET label ids] attached to every candidate
    RequiredLabels, \* [pattern -> SUBSET label ids]: the parsed label-selector pattern
    Templates,      \* template names registered in the rule index
    Actions,        \* action names registered in the action index
    Decorations,    \* [registered selector kind -> decorations it supports]
    Algorithms,     \* algorithm names registered in the algorithm index
    NilPolicy       \* stands for a nil *lwp.Metadata

ASSUME Pushed \in [Universe -> Nat]
ASSUME Now \in Nat

(***************************************************************************)
(* Selectors (spec 4.2).  A selector is [kind, decoration, pattern].       *)
(***************************************************************************)
Select(sel, S) ==
    CASE sel.decoration = "matches"  -> {c \in S : Match(sel.pattern, TagName[c])}
      [] sel.decoration = "excludes" -> {c \in S : ~Match(sel.pattern, TagName[c])}
      [] sel.decoration = "withLabels" ->
            IF RequiredLabels[sel.pattern] = {} THEN S
            ELSE {c \in S : CandLabels[c] \cap RequiredLabels[sel.pattern] # {}}
      [] sel.decoration = "withoutLabels" ->
            IF RequiredLabels[sel.pattern] = {} THEN S
            ELSE {c \in S : CandLabels[c] \cap RequiredLabels[sel.pattern] = {}}

\* The selectors of one rule applied in their order, each narrowing the last.
SelectChain(sels, S) == FoldLeft(LAMBDA acc, sel : Select(sel, acc), S, sels)

(***************************************************************************)
(* Templates (spec 4.4).                                                   *)
(***************************************************************************)
Evaluate(template, param, S) ==
    CASE template = "latestPushedK" ->
            {c \in S : Cardinality({d \in S : Pushed[d] > Pushed[c]}) < param}
      [] template = "nDaysSinceLastPush" -> {c \in S : Pushed[c] + param >= Now}
      [] template = "always"  -> S
      [] template = "nothing" -> {}

\* What one rule retains: its selectors on the universe, then its template.
RuleRetains(rule) ==
    Evaluate(rule.template, rule.param, SelectChain(rule.selectors, Universe))

(***************************************************************************)
(* Name resolution as Build performs it (builder.go).                      *)
(***************************************************************************)
SelectorResolves(s) ==
    s.kind \in DOMAIN Decorations /\ s.decoration \in Decorations[s.kind]

\* The error the resolution of one rule stops at, in the order Build tries them.
RuleError(r) ==
    CASE r.template \notin Templates                            -> "template"
      [] r.action \notin Actions                                -> "action"
      [] \E i \in DOMAIN r.selectors : ~SelectorResolves(r.selectors[i]) -> "selector"
      [] OTHER                                                  -> "none"

\* The error Build returns for a policy, or "none".
BuildError(policy) ==
    IF policy = NilPolicy THEN "nil policy"
    ELSE LET bad == {i \in DOMAIN policy.rules : RuleError(policy.rules[i]) # "none"}
         IN  IF bad # {} THEN RuleError(policy.rules[Min(bad)])
             ELSE IF policy.algorithm \notin Algorithms THEN "algorithm"
             ELSE "none"

Resolvable(policy) == BuildError(policy) = "none"

(***************************************************************************)
(* The decision of the "or" algorithm (spec 4.6): a candidate is retained  *)
(* if any rule retains it; the rest is removed by the performers, of       *)
(* which a policy without rules has none.                                  *)
(***************************************************************************)
Decision(policy) == UNION {RuleRetains(policy.rules[i]) : i \in DOMAIN policy.rules}

ToRemove(policy) ==
    IF policy.rules = <<>> THEN {} ELSE Universe \ Decision(policy)
=============================================================================
