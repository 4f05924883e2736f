\* An engine that never answers: Close never returns.
SPECIFICATION FairSpec
CONSTANTS
    Callers = {c1, c2}
    Closers = {k1}
    None = None
    Refused = Refused
    MaxId = 3
    MaxNoise = 0
PROPERTIES
    CloseReturns
CHECK_DEADLOCK FALSE
