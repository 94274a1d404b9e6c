CONSTANTS
    Users = {u1, u2}
    Runs = {r1, r2}
    Keys = {jwt, refresh}
    MaxEdits = 1
    MaxLoads = 1
SPECIFICATION Spec
SYMMETRY Symmetry
INVARIANTS
    TypeOK
    RerunChangesNothing
    StaleCleared
    SecondSuperNeedsOverlap
    SecretsOrStopped
    SecretsKept
CHECK_DEADLOCK FALSE
