SPECIFICATION CamerasSpec
CONSTANTS
    MaxImages = 3
    Sizes = {1, 2}
    ChunkCost = 2
    SmallCost = 1
    MaxBps = 4
    SendCanFail = TRUE
    MaxFocus = 4
    StartFocus = 1
    EndFocus = 3
    DefaultFocus = 2
    PhotosPerFocus = 2
    Positions <- MCPositions
    CameraSessions <- MCCameraSessions
INVARIANTS CamerasTypeOK BufferLive OneImagePerTransmission PendingIsPromoted
           SearchIsSafe FocusObeyed
PROPERTY CamerasGoOn
CHECK_DEADLOCK FALSE
