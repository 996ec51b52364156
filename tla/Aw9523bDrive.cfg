SPECIFICATION Spec
CONSTANTS
    r0 = r0
    r1 = r1
    c0 = c0
    c1 = c1
    P0 <- Row0
    P1 <- Columns
    GpioLines <- Columns
    IrqLines <- NoLines
    GetLines <- NoLines
    ResetRegs <- MCReset
    HasIrq = FALSE
    MaxFaults = 2
INVARIANT
    TypeOK
PROPERTIES
    DriveAsAsked
    SuccessTakesEffect
CHECK_DEADLOCK FALSE
