SPECIFICATION Spec
CONSTANTS
    MaxIterations = 3
    MaxToolsPerCycle = 2
    MaxCalls = 3
    Keys = {k1, k2}
INVARIANTS
    PromptsWellFormed
    NoFourthRepeat
    OutcomeIsHonest
CHECK_DEADLOCK FALSE
