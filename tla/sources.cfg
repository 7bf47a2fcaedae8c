SPECIFICATION FairSpec
CONSTANTS
    u1 = u1
    u2 = u2
    Uploads = {u1, u2}
    Links = {l1}
    NameOf <- DistinctNames
    None = None
    MaxAtOnce = 2
    MaxEvents = 3
INVARIANTS
    ListingsHold
PROPERTIES
    RebuildIsComplete
    ListedComesBack

CHECK_DEADLOCK FALSE
