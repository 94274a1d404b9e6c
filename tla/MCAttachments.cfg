SPECIFICATION Spec
CONSTANTS
    Users = {u1}
    Requests = {r1}
    Cleaners = {c1}
    MaxId = 2
INVARIANTS
    TypeOK
    ReferencedReadable
    AvatarAgrees
    DeletedHasNoFile
    DownloadFinds
PROPERTY
    ImplementsShelf
CHECK_DEADLOCK FALSE
