SPECIFICATION BatchSpec
CONSTANTS
    NCalls = 3
    Names <- MCNames
    ParallelSafe <- MCParallelSafe
    Shapes <- MCShapes
    None = None
INVARIANTS
    ArtifactsOnce
    ProgressIsHonest
    StoredOrTold
CHECK_DEADLOCK FALSE
