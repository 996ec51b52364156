SPECIFICATION FairSpec
CONSTANTS
    MaxPoint = 2
    AxisLast = 2
    Frames <- MCFramesSmall
    XResolution <- MCXLive
    YResolution <- MCYLive
    DtHasSize = TRUE
    MaxFaults = 1
PROPERTY
    StalledChipRecovers
CHECK_DEADLOCK FALSE
