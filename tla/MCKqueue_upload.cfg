SPECIFICATION FairSpec
CONSTANTS
    Fds = {f1}
    Conns = {c1, c2}
    MaxConnections = 2
    MaxIn = 1
    MaxWork = 1
PROPERTIES
    UploadEnds
