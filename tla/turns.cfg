SPECIFICATION FairSpec
CONSTANTS
    r1 = r1
    r2 = r2
    r3 = r3
    NoRequest = NoRequest
    Requests = {r1, r2}
    Kinds = {"query", "evaluate", "stream"}
    Keep = 1
    MaxCuts = 1
    Departures = {"awaiting", "yielding"}
INVARIANTS
    NoLostMemory
    TurnsWhole
PROPERTIES
    AnswersFollowTheirHistory
    WorkIsRecorded
    LeaseReturned
CHECK_DEADLOCK FALSE
