CONSTANTS
    u1 = u1  u2 = u2
    Callers = {u1}
    MaxGen = 3
    RemoveMayFail = FALSE
    FailAfterRoot = TRUE
SPECIFICATION Spec
INVARIANTS
    NoStaleRootUsed
