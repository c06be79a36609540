SPECIFICATION Spec
CONSTANTS
    d1 = d1
    d2 = d2
    r1 = r1
    r2 = r2
    p1 = p1
    p2 = p2
    k1 = k1
    k2 = k2
    w1 = w1
    w2 = w2
    NULL = NULL
    Delivery = {d1, d2}
    Revision = {r1, r2}
    Path = {p1, p2}
    Key = {k1, k2}
    Worker = {w1}
    MaxCrashes = 0
    Worlds <- SameFileWorlds
CHECK_DEADLOCK FALSE
INVARIANT
    AcceptedIsScheduled
