SPECIFICATION Spec
CONSTANTS
    r0 = r0
    r1 = r1
    c0 = c0
    c1 = c1
    P0 <- Row0
    P1 <- Column0
    GpioLines <- NoLines
    IrqLines <- Row0
    GetLines <- Row0
    ResetRegs <- MCReset
    HasIrq = TRUE
    MaxFaults = 0
INVARIANT
    BothReported
CHECK_DEADLOCK FALSE
