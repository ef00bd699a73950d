\* Two installations and two accounts linked in every order by two workers,
\* with two AI calls of either plan on one request id, within one month.
SPECIFICATION LinksSpec
CONSTANTS
    free = free
    pro = pro
    Installations = {i1, i2}
    Accounts = {a1, a2}
    Requests = {r1}
    Calls = {p1, p2}
    Linkers = {l1, l2}
    Plans = {free, pro}
    AllowanceLimit <- Limits
    MaxCounter = 4
    MaxGeneration = 3
    MaxMembers = 3
    MaxMonth = 0
    MonthEndStraddle = FALSE
    Nothing = Nothing
SYMMETRY Symmetry
INVARIANTS TypeOK GroupsConsistent UsageSound MarkersKept
PROPERTIES ImplementsLedger
CHECK_DEADLOCK FALSE
