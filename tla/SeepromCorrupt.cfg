SPECIFICATION Spec
CONSTANTS
    sys = sys
    cfg = cfg
    fw = fw
    junk = junk
    null = null
    NULL = null
    Junk = junk
    Bad = Bad
    Contents <- MCContents
    Checksum <- MCChecksum
    Length <- MCLength
    Addr <- MCAddr
    Image <- MCImage
    Old <- MCOld
    Calls <- CorruptBins
    WriteMax = 2
    Sector = 8
    Retries = 3
    MaxFaults = 0
INVARIANT
    SuccessMeansFlashed
