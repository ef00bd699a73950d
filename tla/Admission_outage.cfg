\* One text request that asks for AI while Redis fails.
SPECIFICATION Spec
CONSTANTS
    Processes = {w1}
    Requests = {q1}
    Loads <- OneText
    ProviderLimit = 1
    PdfLimit = 2
    ProcessPdfs = 2
    ProcessBytes = 3
    EmergencyRate = 2
    MaxSecond = 1
    StaleSecond = FALSE
    Nothing = Nothing
SYMMETRY Symmetry
INVARIANTS OutageDegrades
CHECK_DEADLOCK FALSE
