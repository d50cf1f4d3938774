CONSTANTS
    p1 = p1  p2 = p2  t1 = t1  t2 = t2  t3 = t3  d1 = d1  d2 = d2  none = none
    Pushers = {p1}
    Tags = {t1, t2, t3}
    Digests = {d1, d2}
    None = none
    InitialRepo <- MCInitialRepo
    ImmutableTags = {t2, t3}
    LookupMayFail = TRUE
    MaxPushes = 2
SPECIFICATION Spec
PROPERTIES
    ImmutableTagNeverOverwritten
