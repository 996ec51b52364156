SPECIFICATION FairSpec
CONSTANTS
    r0 = r0
    r1 = r1
    c0 = c0
    c1 = c1
    P0 <- Row0
    P1 <- Column0
    GpioLines <- NoLines
    IrqLines <- RowAndColumn
    GetLines <- Row0
    ResetRegs <- MCReset
    HasIrq = TRUE
    MaxFaults = 1
INVARIANT
    MaskReachesChip
    NothingLost
PROPERTY
    EventsAlternate
    ChangeSampled
CHECK_DEADLOCK FALSE
