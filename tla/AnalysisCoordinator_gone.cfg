\* The copy of the PDF that is shown is deleted while another failure blocks
\* privacy; privacy is recovered, and what is shown still is analysed.
SPECIFICATION Spec
CONSTANTS
    Pdfs = {p1, p2}
    Activations = {x1}
    Reviews = {FALSE}
    Reliable = FALSE
    None = None
    MaxCommands = 5
SYMMETRY Symmetry
PROPERTIES DeletedNeverSent
CHECK_DEADLOCK FALSE
