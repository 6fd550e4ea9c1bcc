SPECIFICATION FairSpec
CONSTANTS
    Clients = {c1, c2}
    Requests <- Posts
    Inodes = {i1, i2, i3}
    LastPath = 1
    BufferSize = 2
    MaxBody = 2
PROPERTIES
    StoreSpec
    UploadAnswered
CHECK_DEADLOCK FALSE
