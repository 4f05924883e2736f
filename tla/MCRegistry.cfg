SPECIFICATION Spec
CONSTANTS
    a = a
    b = b
    c1 = c1
    s1 = s1
    Projects = {a, b}
    Place <- MCPlace
    Git <- MCGit
    Procs = {c1, s1}
    Sessions = {s1}
    Hits <- MCHits
    Limits = {0, 1}
    MaxTree = 2
    MaxRuns = 3
    MaxCuts = 1
    None = None
    Files = Files
    Empty = Empty
    Torn = Torn
INVARIANTS
    AckedStays
    RecordedIsCovered
    SyncConverges
    FleetTruthful
PROPERTIES
    CleanIsSearchable
    AnswerIsCurrent
CHECK_DEADLOCK FALSE
