\* Three loads on two processes.
SPECIFICATION Spec
CONSTANTS
    Processes = {w1, w2}
    Requests = {q1, q2, q3}
    Loads <- ThreeLoads
    ProviderLimit = 1
    PdfLimit = 2
    ProcessPdfs = 2
    ProcessBytes = 3
    EmergencyRate = 2
    MaxSecond = 1
    StaleSecond = FALSE
    Nothing = Nothing
SYMMETRY Symmetry
INVARIANTS PdfsBound ProvidersBound NothingLeaks
CHECK_DEADLOCK FALSE
