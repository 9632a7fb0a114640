SPECIFICATION Spec
CONSTANTS
    Forks = 2
    Starts = 2
    Polls = 1
    Sessions <- MCSessions
INVARIANT KillsOnlyTheScript
