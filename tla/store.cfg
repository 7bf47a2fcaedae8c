SPECIFICATION ApartSpec
CONSTANTS
    t1 = t1
    t2 = t2
    t3 = t3
    t4 = t4
    p1 = p1
    p2 = p2
    a1 = a1
    NoThread = NoThread
    Threads = {t1, t2, t3, t4}
    Processes = {p1, p2}
    ProcessOf <- TwoWorkers
    ArtifactIds = {a1}
    Calls <- AllCalls
    StoreFaults = {"save", "crash", "free"}
INVARIANT BlobsMatchRecords
PROPERTY ShownArtifactsStay
PROPERTY ImplementsAtomicSession
SYMMETRY Interchangeable
CHECK_DEADLOCK FALSE
