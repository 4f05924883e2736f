\* One install that finds a binary, with one failing rename: what the documents promise.
SPECIFICATION Spec
CONSTANTS
    Commands = {p1}
    Pins = {v1, v2}
    None = None
    Partial = Partial
    Overlap = 1
    MaxCuts = 1
PROPERTY FailureKeepsImage
CHECK_DEADLOCK FALSE
