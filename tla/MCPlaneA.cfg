SPECIFICATION Spec
CONSTANTS
    a = a
    b = b
    c = c
    f1 = f1
    f2 = f2
    NULL = NULL
    Content <- MCContent
    Injected <- MCInjected
    Episodic <- MCEpisodic
    Refused <- MCRefused
    Key <- MCKey
    Trees <- MCOneFileTrees
    Files <- MCFiles
    Source = {"git", "agent", "ci"}
    ApiSource = {}
    MaxRows = 3
    MaxClock = 4
CHECK_DEADLOCK FALSE
PROPERTY
    PlaneAIsServed
