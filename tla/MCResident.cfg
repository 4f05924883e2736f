\* Safety of the resident and of its address: two installs and two readers around an engine
\* swap and a stop; three starts, stops and kills at one address.
SPECIFICATION ServerSpec
CONSTANTS
    Readers = {r1, r2}
    Installers = {k1, k2}
    Engines = {e1, e2}
    MaxOpen = 2
    None = None
    Residents = {s1, s2, s3}
    Detachers = {d1}
    Clients = {c1}
    Nobody = Nobody
SYMMETRY Symmetry
INVARIANTS
    ServingHasEngine
    SwapWindow
    NoEngineLost
    AddressTypeOK
    ServingIsAddressed
PROPERTIES
    EachEngineSerial
    StaleIsTakenOver
CHECK_DEADLOCK FALSE
