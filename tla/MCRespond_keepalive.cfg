SPECIFICATION Spec
CONSTANTS
    Requests <- MCRequests
    Sizes = {0, 2, 3}
    ListingSize = 1
    BufferSize = 2
    MaxRequests = 1
INVARIANTS
    KeepAliveHonoured
