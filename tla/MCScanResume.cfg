SPECIFICATION FairSpec
CONSTANTS
    Sessions <- MCResume
    Ranges <- MCUpDown
    Angles = {5}
    Tol = 1
    HalfLen = 1
    Offset = 1
    MINEL = 0
    MAXEL = 4
    Bottom <- MCFarBelow
    Top = 7
    MaxScans = 3
PROPERTY DitherRuns
