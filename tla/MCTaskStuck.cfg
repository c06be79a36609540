SPECIFICATION Spec
CONSTANTS
    t1 = t1
    t2 = t2
    w1 = w1
    w2 = w2
    NULL = NULL
    Task = {t1}
    Worker = {w1}
    Loadings = {"main"}
    MaxCrashes = 0
CHECK_DEADLOCK FALSE
PROPERTY
    HandleEnds
