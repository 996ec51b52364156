SPECIFICATION FairSpec
CONSTANTS
    sys = sys
    cfg = cfg
    fw = fw
    junk = junk
    null = null
    NULL = null
    Junk = junk
    Bad = Bad
    Contents <- MCContents
    Checksum <- MCChecksum
    Length <- MCLength
    Addr <- MCAddr
    Image <- MCImage
    Old <- MCOld
    Calls <- Updates
    WriteMax = 2
    Sector = 8
    Retries = 3
    MaxFaults = 3
INVARIANTS
    TypeOK
    FailureNeedsFaults
    ProtectRestored
PROPERTIES
    ImplementsFlashUpdate
    EveryUpdateEnds
    AttemptsRunOut
