SPECIFICATION FairSpec
CONSTANTS
    Sessions <- MCSessions
    Ranges <- MCUpDown
    Angles = {2}
    Tol = 0
    HalfLen = 1
    Offset = 1
    MINEL = 0
    MAXEL = 3
    Bottom <- MCBelow
    Top = 4
    MaxScans = 3
INVARIANTS IInv DitherInRange OnOffLegs
PROPERTY SweepsAreWhole
PROPERTY DitherEnds
