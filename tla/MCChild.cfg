\* Overlapping calls and closes, timeouts, crashes and noise, with an engine
\* that answers what it has read.
SPECIFICATION AnsweringSpec
CONSTANTS
    Callers = {c1, c2}
    Closers = {k1, k2}
    None = None
    Refused = Refused
    MaxId = 3
    MaxNoise = 1
INVARIANTS
    OwnAnswer
PROPERTIES
    ImplementsSerialEngine
    EveryCallEnds
    CloseReturns
CHECK_DEADLOCK FALSE
