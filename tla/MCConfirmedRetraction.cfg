\* A retraction, the question, the answer and the retry.
SPECIFICATION ServingSpec
CONSTANTS
    ruleOld = ruleOld   ruleNew = ruleNew   adr = adr   twin = twin   note = note
    why = why   relates = relates   acme = acme   globex = globex
    ours = ours   other = other   ann = ann   guest = guest
    Tenant = {acme, globex}   Project = {ours, other}   Principal = {ann, guest}
    Conn = {p}   Memory = {adr, note}   Key = {why}
    Scopes <- Callers   Grant <- Clearance   Stored <- Classified
    Levels = {1, 2}   MaxTime = 1   Months = 1
    Known = {ruleOld, ruleNew, adr, twin, note}   Tables <- Found
    KeyOf <- Keys   SectionOf <- Sections   Words <- Evident   Linked = {note}
    Score <- Scores   Rrf <- Fused   Ident <- Idents   Cross <- Crossed
    Similarity <- Similar   Cost <- Costs   Cap <- Caps
    Clause = {why, relates}   Terms <- Meaning   Marker <- Cited   Relational = {relates}
    TopK = 2   Hits = 2
    Thread = {p, q}   Limit = 1   MaxTracked = 1   Quota = 1   Second = 2
    MaxTick = 3   MaxRequests = 4
    Replica = {p, q}   Ref = {adr, twin}   Evidence = {note}   Calls <- Asking
    AnswerTime = 1   MaxMinute = 2   MaxRestarts = 1   MaxQuestions = 2
    Kid = {k1, k2}   Registered = {ours}   Unknown = other   CacheTime = 1
    MinRefresh = 1   MaxTurn = 2   MaxRefreshes = 2   MaxDenials = 1
    Scenes = {"confirmation"}
    NULL = NULL
INVARIANT RetractedIsRetired
CHECK_DEADLOCK FALSE
