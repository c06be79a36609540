SPECIFICATION Spec
CONSTANTS
    a = a
    b = b
    c = c
    f1 = f1
    f2 = f2
    NULL = NULL
    Content <- MCContent
    Injected <- MCInjected
    Episodic <- MCEpisodic
    Refused <- MCRefused
    Key <- MCKey
    Trees <- MCTrees
    Files <- MCFiles
    Source = {"git", "agent", "ci"}
    ApiSource = {"agent", "ci"}
    MaxRows = 3
    MaxClock = 5
CHECK_DEADLOCK FALSE
INVARIANTS
    TypeOK
    NeverRefused
    TrustIsEarned
    OneRowPerContent
    SupersessionIsContiguous

    
