CONSTANTS
    Users = {u1}
    Callers = {s1, s2}
    None = None
    MaxRetry = 2
    MaxWrites = 1
    Namespaces = {chat}
SPECIFICATION FairSpec
INVARIANTS
    HolderKeepsLock
    StaleNeedsOvertaking
    ListedSockets
    OnlineAgrees
PROPERTIES
    HandshakesEnd
CHECK_DEADLOCK FALSE
