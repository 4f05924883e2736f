SPECIFICATION Spec
CONSTANTS
    p1 = p1
    p2 = p2
    p3 = p3
    k1 = k1
    k2 = k2
    i1 = i1
    i2 = i2
    i3 = i3
    Procs = {p1, p2, p3}
    Keys = {k1, k2}
    Plain = {"plain"}
    Secrets = {"secret"}
    Ids = {i1, i2, i3}
    MaxNow = 1
    None = None
SYMMETRY Symmetry
INVARIANTS
    SecretsApproved
PROPERTIES
    ImplementsFactStore
