SPECIFICATION FairSpec
CONSTANTS
    absent = absent
    Absent = absent
    Factory = 9
    Unwritten = 7
    Flashes <- MCFlashes
    FileSets <- MCFileSets
    MaxCrashes = 2
    MaxFaults = 2
INVARIANTS
    TypeOK
    NoDowngrade
    OneWriter
PROPERTY
    ComesUp
CHECK_DEADLOCK FALSE
