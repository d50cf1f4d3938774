CONSTANTS
    q1 = q1  q2 = q2  q3 = q3  m1 = m1  m2 = m2  b1 = b1  b2 = b2  b3 = b3
    Requests = {q1, q2, q3}
    Manifests = {m1, m2}
    Layers = {b1, b2, b3}
    Refs <- MCRefs
    Size <- MCSize
    Foreign = {b3}
SPECIFICATION Spec
INVARIANTS
    UsageMatchesStorage
