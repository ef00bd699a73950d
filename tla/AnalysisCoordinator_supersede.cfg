\* Texts are selected, one after the other, in place of a PDF.
SPECIFICATION Spec
CONSTANTS
    Pdfs = {p1, p2}
    Activations = {x1, x2}
    Reviews = {TRUE}
    Reliable = TRUE
    None = None
    MaxCommands = 4
SYMMETRY Symmetry
PROPERTIES LatestSelectionCommits
CHECK_DEADLOCK FALSE
