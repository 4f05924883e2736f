\* Appends and prunes that overlap, and writes that stop half way.
SPECIFICATION Spec
CONSTANTS
    Writers = {w1, w2, w3, w4}
    Pruners = {p1}
    Keys = {goal, next}
    None = None
    Garbage = Garbage
    Overlap = 3
    MaxTears = 2
SYMMETRY Symmetry
INVARIANTS
    LossBounded
    DamageBounded
PROPERTY ImplementsLedgerLog
CHECK_DEADLOCK FALSE
