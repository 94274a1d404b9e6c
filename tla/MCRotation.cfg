SPECIFICATION Spec
CONSTANTS
    Users = {u1}
    Requests = {r1, r2}
    Writes = {w1}
    Ids = {i1, i2, i3}
    NoId = NoId
    MaxVersion = 2
    Kinds = {"disable", "enable", "reset"}
SYMMETRY Symmetry
INVARIANTS
    TypeOK
    OneSuccessor
    RevokedHasNoSuccessor
    RotationStillCurrent
    SupersededRefused
CHECK_DEADLOCK FALSE
