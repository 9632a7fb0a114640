SPECIFICATION FairSpec
CONSTANTS
    Remote = {}
    Configured <- MCMotorAndHousekeeping
    LabJackFails = FALSE
PROPERTY ShutdownEnds
