\* Three calls of every method of the token store, that abort at any moment,
\* and three issues; four operations of the billing, on a clock of four ticks
\* where the server's plan is shorter than a subscription; two report
\* repositories of one file with two calls of either plan, on every file they
\* can meet; three calls to the workspace, with one version and one job for the
\* free plan and two for the other; two submissions of a web page that is left
\* twice.
SPECIFICATION ClientsSpec
CONSTANTS
    Calls = {c1, c2, c3}
    Loads <- Mixes
    MaxIssues = 3
    MaxAttempts = 2
    Nothing = Nothing
    MaxTime = 3
    Period = 2
    PlanTtl = 1
    MaxIdentity = 2
    MaxOps = 4
    Reports = {a, b}
    Repos = {d1, d2}
    Caps = {1, 2}
    TempFiles = {f}
    MaxCalls = 2
    MaxKills = 1
    FreeVersions = 1
    ProVersions = 2
    FreeJobs = 1
    ProJobs = 2
    MaxSnapshots = 2
    MaxIds = 6
    MaxAskings = 3
    Submissions = {s1, s2}
    MaxEdits = 2
    MaxTokens = 2
    MaxLeaves = 2
SYMMETRY Symmetry
INVARIANTS TokensSound ProNeedsActivePlan FilesSound FormUsable
PROPERTIES InvalidatesOnlyItsToken PurchaseActivates NothingLost CapsHeld OlderAnswersSilent
CHECK_DEADLOCK FALSE
