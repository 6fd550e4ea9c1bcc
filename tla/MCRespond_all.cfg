SPECIFICATION FairSpec
CONSTANTS
    Requests <- MCRequests
    Sizes = {0, 2, 3}
    ListingSize = 1
    BufferSize = 2
    MaxRequests = 1
INVARIANTS
    TypeOK
    OneAnswer
    FramedWhenKept
    KeptAsAnnounced
    DeletedAsTold
PROPERTIES
    GetFinishes
