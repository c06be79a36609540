\* Two months in which nobody edits .memory; no trouble of any kind.
SPECIFICATION UnattendedSpec
CONSTANTS
    adr = adr   note = note   redis = redis   kafka = kafka   ledger = ledger
    url = url   a = a   b = b   c = c   s = s   q = q   k = k
    d1 = d1   d2 = d2   x = x   y = y
    acme = acme   globex = globex   ours = ours   other = other   far = far
    src = src   side = side   lib = lib   k1 = k1   k2 = k2
    Org = {acme, globex}   Project = {ours, other, far}   OrgOf <- Owners
    Repo = {src, side, lib}   Form = {"https", "ssh"}
    Token = {k1, k2}   Reach <- Reaching
    Thread = {"one", "two"}   Worker = {w1}   Requests <- Registrations
    Process = {api}   Memory = {adr, note}   Reviewer = {ann}
    Dictionary = {redis, kafka}   Glossary = {ledger}   Subjects <- Texts
    Infers <- Prose   Declares <- Frontmatter   Trusted = {adr}
    Supersedes <- Replacing   Labels = {"negation"}   MaxAborts = 1
    Entity = {redis, ledger}   Name = {concept, url}   Specific = {url}
    Curator = {ann, bob}
    Candidate = {plain, flagged, ungrounded}   WellFormed = {plain, flagged, ungrounded}
    Grounded = {plain, flagged}   Flagged = {flagged}   MaxCandidates = 1
    DisableDepth = 1   SustainedDays = 2   MaxDay = 3   MaxReviews = 1
    Content = {a, b, c, s, q}   Injected = {c, q}   Episodic = {a, b, c}   Refused = {}
    Key = {k}   Source = {"git", "tool", "ci", "consolidation"}
    ApiSource = {"tool", "ci"}   SummaryOf <- Summary
    MinGroup = 2   MaxRows = 3   MaxClock = 5
    Task = {t1, t2}   Handler = {w1, w2}   Loadings = {"import", "main"}   MaxCrashes = 2
    Episode = {note}   Sweeper = {"loop", "api"}   Ahead = 1   MaxEdits = 2
    MaxMonth = 2   MaxPacks = 1   MaxTrouble = 0
    Action = {build, test}   Session = {s1, s2}   Minimum = 2   MaxCaptures = 4   MaxRuns = 2
    Files <- Sorted   Text = {x, y}   Root <- FirstTree   MaxCommits = 2   MaxPasses = 2
    Writer = {"loop", "api", "jobs"}   Calls <- Asked   MaxStarts = 4
    Scenes = {"scheduler"}
    NULL = NULL
INVARIANT PartitionsAreAhead
CHECK_DEADLOCK FALSE
