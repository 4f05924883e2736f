\* Liveness of the resident and of its callers: every request, quiesce and call ends.
SPECIFICATION ServerFairSpec
CONSTANTS
    Readers = {r1, r2}
    Installers = {k1}
    Engines = {e1}
    MaxOpen = 3
    None = None
    Residents = {s1, s2}
    Detachers = {d1}
    Clients = {c1}
    Nobody = Nobody
PROPERTIES
    RequestAnswered
    QuiesceAnswered
    CallsEnd
CHECK_DEADLOCK FALSE
