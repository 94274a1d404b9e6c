SPECIFICATION Spec
CONSTANTS
    Procs = {p1, p2}
    Writers = {w1}
    Gens = {g1, g2, g3}
    NoGen = NoGen
    MaxRevision = 1
    TTL = 1
    Attempts = 2
SYMMETRY Symmetry
INVARIANTS
    TypeOK
    LoadFresh
PROPERTY
    ImplementsView
CHECK_DEADLOCK FALSE
