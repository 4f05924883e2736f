\* One call at a time on the queues, two rebuilds beside it, failures anywhere.
SPECIFICATION Spec
CONSTANTS
    Ids = {n1, n2}
    Projects = {p1, p2}
    Reviews = {v1, v2}
    Rebuilds = {x1, x2}
    None = None
    Overlap = 1
SYMMETRY Symmetry
INVARIANTS
    NoNoteLost
    DecidedIsGone
    ApprovedIsFound
    RowsMatchTexts
CHECK_DEADLOCK FALSE
