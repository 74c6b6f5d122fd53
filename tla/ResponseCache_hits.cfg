\* Three requests for two URIs.
SPECIFICATION CacheSpec
CONSTANTS
    q1 = q1  q2 = q2  q3 = q3
    k1 = k1  k2 = k2
    None = None
    Garbage = Garbage
    Requests = {q1, q2, q3}
    Keys = {k1, k2}
    MaxVersion = 1
INVARIANTS
    HitIsGenuine
SYMMETRY Symmetry
CHECK_DEADLOCK FALSE
