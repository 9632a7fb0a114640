SPECIFICATION FairSpec
CONSTANTS
    t1 = t1
    Thread = {t1}
    NumAuto = 2
    CURRENT_CAP = 1000
    Draw = 800
    MaxRefused = 1
    Degrees = {10, 25}
    Invalid = Invalid
    Measured = {0}
    Commanded = {2}
    Ranges <- MCRange
    DefaultRange <- MCDefaultRange
PROPERTIES ColdHeated StopEnds
