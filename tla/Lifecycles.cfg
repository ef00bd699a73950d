\* Four mounts of a provider: two that overlap, one after a chain that was
\* forgotten, one after a close that failed.  Three things that are created at
\* any moment in any store while Delete All runs.  Two verifications of a plan
\* that race two changes and the redelivery of their webhooks.  Two
\* repositories of one file of reports with two calls; four presses on a history
\* of four reports in pages of one; an analysis beside a verification of the
\* plan.
SPECIFICATION LifecyclesSpec
CONSTANTS
    MaxMounts = 4
    MaxItems = 3
    Users = {u1}
    Verifiers = {v1, v2}
    MaxVersion = 2
    MaxGeneration = 2
    MaxTime = 1
    Nothing = Nothing
    Reports = {a}
    Repos = {r1, r2}
    Caps = {1}
    TempFiles = {f}
    MaxCalls = 2
    MaxKills = 1
    MaxReport = 4
    PageSize = 1
    Window = 2
    MaxPresses = 4
    Analyses = {a1}
    Verifications = {p1}
    MaxToken = 2
INVARIANTS LifecyclesTypeOK OneOwner JournalHonest HistoryHonest CacheFresh ToldTruth
PROPERTIES MountsDecide ClaimErased AnswersInOrder OutdatedPlansGo LoadingEnds NothingSentUnwanted EverybodyAnswered
CHECK_DEADLOCK FALSE
