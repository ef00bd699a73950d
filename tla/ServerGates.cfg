\* Two AI calls, two request ids, one installation and one account that may
\* be linked at any moment, and the end of a month; three requests of two
\* phones in the windows of two minutes of a day, one lost reply a counter; two
\* workers at a bucket of three tokens; three handlers of two requests.
SPECIFICATION GatesSpec
CONSTANTS
    free = free
    pro = pro
    Installations = {i1}
    Accounts = {a1}
    Requests = {r1, r2}
    Calls = {p1, p2}
    Linkers = {l1}
    Plans = {free}
    AllowanceLimit <- Limits
    MaxCounter = 4
    MaxGeneration = 1
    MaxMembers = 4
    MaxMonth = 1
    MonthEndStraddle = FALSE
    Phones = {r1, r2}
    Checks = {c1, c2, c3}
    Maximum <- WindowLimits
    MinutesPerDay = 2
    MaxMinute = 1
    MaxLost = 1
    Workers = {w1, w2}
    Rate = 2
    Burst = 3
    Ttl = 2
    MaxTime = 4
    StaleClock = FALSE
    LeaseKeys = {k1, k2}
    Handlers = {h1, h2, h3}
    Nothing = Nothing
SYMMETRY GatesSymmetry
INVARIANTS RatesBound OneAtATime
PROPERTIES ChargedOnce WithinLimit
CHECK_DEADLOCK FALSE
