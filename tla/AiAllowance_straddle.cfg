\* A link reads the clock before midnight and commits after it.
SPECIFICATION Spec
CONSTANTS
    free = free
    pro = pro
    Installations = {i1}
    Accounts = {a1}
    Requests = {r1, r2}
    Calls = {p1, p2}
    Linkers = {l1}
    Plans = {free}
    AllowanceLimit <- Limits
    MaxCounter = 4
    MaxGeneration = 1
    MaxMembers = 4
    MaxMonth = 1
    MonthEndStraddle = TRUE
    Nothing = Nothing
SYMMETRY Symmetry
PROPERTIES WithinLimit
CHECK_DEADLOCK FALSE
