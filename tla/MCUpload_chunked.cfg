SPECIFICATION Spec
CONSTANTS
    Clients = {c1, c2}
    Requests <- Chunked
    Inodes = {i1, i2, i3}
    LastPath = 2
    BufferSize = 2
    MaxBody = 2
INVARIANTS
    ChunkedDecoded
CHECK_DEADLOCK FALSE
