SPECIFICATION Spec
CONSTANTS
    Clients = {c1, c2}
    Requests <- AllRequests
    Inodes = {i1, i2, i3}
    LastPath = 2
    BufferSize = 2
    MaxBody = 2
SYMMETRY Sym
INVARIANTS
    TypeOK
    StoredInOrder
    AcknowledgedIsComplete
    PostsApart
    WithinLimit
CHECK_DEADLOCK FALSE
