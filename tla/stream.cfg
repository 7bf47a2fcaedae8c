SPECIFICATION FairSpec
CONSTANTS
    MaxCallbacks = 2
    MaxPhases = 1
    Artifacts = {a1}
    Faults <- IOFaults
INVARIANTS
    OneEnding
    NothingLost
    OneTurn
    FinalIsSaved
    WorkerToldToStop
PROPERTIES
    ImplementsContract
    SilentAfterLeaving
    StreamCloses
CHECK_DEADLOCK FALSE
