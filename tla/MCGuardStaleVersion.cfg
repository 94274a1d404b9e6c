SPECIFICATION Spec
CONSTANTS
    Users = {u1}
    Requests = {r1, r2}
    Writes = {w1}
    Ids = {i1, i2}
    NoId = NoId
    MaxVersion = 2
    Kinds = {"reset", "disable", "enable", "delete"}
    Ops = {"login", "refresh", "access"}
SYMMETRY Symmetry
INVARIANT
    OldJwtRejected
CHECK_DEADLOCK FALSE
