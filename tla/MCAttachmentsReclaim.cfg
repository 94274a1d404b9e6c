SPECIFICATION FairSpec
CONSTANTS
    Users = {u1}
    Requests = {r1}
    Cleaners = {c1}
    MaxId = 1
PROPERTY
    Reclaimed
CHECK_DEADLOCK FALSE
