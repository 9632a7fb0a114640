SPECIFICATION FairSpec
CONSTANTS
    t1 = t1
    Thread = {t1}
    NumAuto = 1
    CURRENT_CAP = 1000
    Draw = 800
    MaxRefused = 0
    Degrees <- MCDegrees
    Invalid = Invalid
    Measured = {0}
    Commanded = {0}
    Ranges <- MCRange
    DefaultRange <- MCDefaultRange
PROPERTY OffTurnsOff
