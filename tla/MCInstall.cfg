\* Three commands, one at a time, each cut short or failing anywhere.
SPECIFICATION Spec
CONSTANTS
    Commands = {p1, p2, p3}
    Pins = {v1, v2}
    None = None
    Partial = Partial
    Overlap = 1
    MaxCuts = 2
SYMMETRY Symmetry
INVARIANTS
    TypeOK
    DestIsProbed
    Recoverable
    Restored
PROPERTY ImplementsReplacement
CHECK_DEADLOCK FALSE
