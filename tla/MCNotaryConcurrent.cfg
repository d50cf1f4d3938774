CONSTANTS
    u1 = u1  u2 = u2
    Callers = {u1, u2}
    MaxGen = 3
    RemoveMayFail = FALSE
    FailAfterRoot = FALSE
SPECIFICATION Spec
INVARIANTS
    NoStaleRootUsed
