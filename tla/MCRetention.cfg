CONSTANTS
    c1 = c1
    c2 = c2
    c3 = c3
    nilPolicy = nilPolicy
    Universe <- MCUniverse
    Pushed <- MCPushed
    Now = 3
    TagName <- MCTagName
    CandLabels <- MCCandLabels
    RequiredLabels <- MCRequiredLabels
    Templates = {"latestPushedK", "nDaysSinceLastPush", "always", "nothing"}
    Actions = {"retain"}
    Decorations <- MCDecorations
    Algorithms = {"or"}
    NilPolicy <- nilPolicy
    Policies <- MCPolicies
    MaxInflight = 2
SPECIFICATION Spec
INVARIANTS
    TypeOK
    RetainedNeverDeleted
    NoDecisionOnIncompleteRules
    DryRunHasNoSideEffects
PROPERTIES
    RefinesRetentionSpec
