SPECIFICATION FairSpec
CONSTANTS
    MaxPoint = 2
    AxisLast = 2
    Frames <- MCFramesSmall
    XResolution <- MCXAny
    YResolution <- MCYAny
    DtHasSize = FALSE
    MaxFaults = 1
INVARIANT
    AbsRangeUsable
PROPERTY
    ReportConsumed
CHECK_DEADLOCK FALSE
