----------------------------- MODULE MCRetention -----------------------------
(***************************************************************************)
(* Three candidates pushed at times 1, 2, 3; one doublestar pattern,       *)
(* "a" then a star, matching the first and last; one label on the          *)
(* middle one.  Policies are every sequence of at most two rules built     *)
(* from the registered templates and selectors, plus one rule of each      *)
(* unresolvable kind, a nil policy and an unregistered algorithm.          *)
(***************************************************************************)
EXTENDS RetentionEngine, TLC

CONSTANTS c1, c2, c3, nilPolicy

MCUniverse == {c1, c2, c3}
MCPushed == (c1 :> 1) @@ (c2 :> 2) @@ (c3 :> 3)
MCTagName == (c1 :> <<"a", "b">>) @@ (c2 :> <<"b", "a">>) @@ (c3 :> <<"a">>)
MCPattern == <<"a", "*">>  \* matches c1 and c3
MCCandLabels == (c1 :> {}) @@ (c2 :> {"l1"}) @@ (c3 :> {})
MCRequiredLabels == ("l1" :> {"l1"}) @@ ("" :> {})
MCDecorations == ("doublestar" :> {"matches", "excludes"})
                 @@ ("label" :> {"withLabels", "withoutLabels"})

MCSelectors ==
    {<<>>,
     <<[kind |-> "doublestar", decoration |-> "matches",  pattern |-> MCPattern]>>,
     <<[kind |-> "doublestar", decoration |-> "excludes", pattern |-> MCPattern]>>,
     <<[kind |-> "label", decoration |-> "withLabels", pattern |-> "l1"]>>,
     <<[kind |-> "label", decoration |-> "withoutLabels", pattern |-> "l1"]>>,
     <<[kind |-> "label", decoration |-> "withLabels", pattern |-> ""]>>}

GoodRules ==
    {[template |-> t[1], param |-> t[2], action |-> "retain", selectors |-> s] :
        t \in {<<"latestPushedK", 1>>, <<"nDaysSinceLastPush", 1>>,
              <<"always", 0>>, <<"nothing", 0>>},
        s \in MCSelectors}

BadRules ==
    {[template |-> "latestPulledX", param |-> 1, action |-> "retain", selectors |-> <<>>],
     [template |-> "always", param |-> 0, action |-> "purge", selectors |-> <<>>],
     [template |-> "latestPushedK", param |-> 1, action |-> "retain",
      selectors |-> <<[kind |-> "regex", decoration |-> "matches", pattern |-> MCPattern]>>]}

MCPolicies ==
    {nilPolicy}
    \cup {[algorithm |-> a, rules |-> <<>>] : a \in {"or", "and"}}
    \cup {[algorithm |-> a, rules |-> <<r>>] : a \in {"or", "and"}, r \in GoodRules \cup BadRules}
    \cup {[algorithm |-> "or", rules |-> <<r1, r2>>] :
            r1 \in GoodRules \cup BadRules, r2 \in GoodRules}
=============================================================================
