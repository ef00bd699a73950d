\* Four commands about two PDFs, with two analyses in progress at most; two
\* callers of the registry that may draw the same request id; and two result
\* screens with two PDFs.
SPECIFICATION CustodySpec
CONSTANTS
    Pdfs = {p1, p2}
    Activations = {x1, x2}
    Reviews = {TRUE, FALSE}
    Reliable = FALSE
    None = None
    MaxCommands = 4
    Callers = {c1, c2}
    Requests = {r1, r2}
    MaxAsks = 2
    MaxSweeps = 2
    MaxRestarts = 1
    Screens = {s1, s2}
    MaxPrints = 2
    MaxQueue = 3
    MaxKills = 1
SYMMETRY CustodySymmetry
INVARIANTS PdfsHaveAnEnd CopiesKept PdfAccounted
PROPERTIES UploadsCurrent SweepHonest SheetIsWanted
CHECK_DEADLOCK FALSE
