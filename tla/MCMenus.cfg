SPECIFICATION MenusSpec
CONSTANTS
    Ids <- TheIds
    Names <- TheNames
    Creates <- TheCreates
    Patches <- ThePatches
    MaxRows = 2
CONSTRAINT Explored
INVARIANTS
    RowsFitType
    EditsStayPossible
    RoutesComplete
    ListsExact
CHECK_DEADLOCK FALSE
