SPECIFICATION FairSpec
CONSTANTS
    Metrics = {m1}
    None = None
    MaxJobs = 2
    MaxEdits = 1
    MaxClears = 1
    MaxCrashes = 1
INVARIANTS
    VersionsAreHonest
    HitsAreReal
PROPERTIES
    EndedForGood
    OperationsEnd
CHECK_DEADLOCK FALSE
