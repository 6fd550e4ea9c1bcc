SPECIFICATION Spec
CONSTANTS
    Fds = {f1, f2}
    Conns = {c1, c2, c3}
    MaxConnections = 3
    MaxIn = 1
    MaxWork = 1
SYMMETRY Sym
INVARIANTS
    TypeOK
    MapMatchesSockets
    OneFilterPerClient
    FreshEvents
    RestingStates
