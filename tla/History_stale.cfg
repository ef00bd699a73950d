\* Older reports are asked for while Delete All runs.
SPECIFICATION Spec
CONSTANTS
    MaxReport = 4
    PageSize = 2
    Window = 4
    PagesDuringDeletes = TRUE
    Unknown = Unknown
    MaxCalls = 2
INVARIANT DeletedStaysOut
CHECK_DEADLOCK FALSE
