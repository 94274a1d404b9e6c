SPECIFICATION FairSpec
CONSTANTS
    Procs = {p1}
    Writers = {w1}
    Gens = {g1, g2, g3}
    NoGen = NoGen
    MaxRevision = 2
    TTL = 2
    Attempts = 2
PROPERTY
    Converges
CHECK_DEADLOCK FALSE
