SPECIFICATION ServicesSpec
CONSTANTS
    Forks = 2
    Starts = 2
    Polls = 1
    Sessions <- MCSessions
    Terms = {"kp", "ki"}
    MaxSets = 2
    Fine = {1}
    Pr59Sessions <- MCPr59Sessions
    DataStarts = 2
    TxRuns = 2
    SequenceMod = 3
    SensorSessions <- MCSensorSessions
    TiccStarts = 2
    TiccFiles = 3
    TiccLines = 2
    LineBuffer = 2
INVARIANTS ServicesIInv StopKnowsTheScript TypeFollowsScript DataKept GainsKept
PROPERTIES StopReturns ServicesGoOn
