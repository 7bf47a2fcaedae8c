SPECIFICATION TablesSpec
CONSTANTS
    Cfos <- MCCfos
    CfoKey <- MCCfoKey
    Labels <- MCLabels
    Normal <- MCNormal
    Code <- MCCode
    Dictionary <- MCDictionary
    Score <- MCScore
    NoKey = ""
    Periods <- MCPeriods
    NoDate = 0
    Plans <- MCPlans
    Facts <- MCFacts
    CfoMaps <- MCCfoMaps
    ArticleMaps <- MCArticleMaps
    Modes <- MCModes
INVARIANTS
    SumsConserved
    LineageExact
    MatchesAreJoined
    MappedCfosJoin
CHECK_DEADLOCK FALSE
