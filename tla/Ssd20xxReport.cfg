SPECIFICATION FairSpec
CONSTANTS
    Ids <- MCIds
    Keys <- MCKeys
    es_version = "ES1"
    MaxFrames = 3
    MaxFaults = 1
    MaxCalls = 1
INVARIANTS
    TypeOK
    NoGhostContact
    RestartReleases
PROPERTIES
    IntAnswered
    Recovers
CHECK_DEADLOCK FALSE
