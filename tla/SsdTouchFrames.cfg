SPECIFICATION Spec
CONSTANTS
    MaxPoint = 2
    AxisLast = 2
    Frames <- MCFrames
    XResolution <- MCXLive
    YResolution <- MCYLive
    DtHasSize = TRUE
    MaxFaults = 1
INVARIANT
    TypeOK
PROPERTY
    ContactsFollowReport
CHECK_DEADLOCK FALSE
