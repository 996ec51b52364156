SPECIFICATION FairSpec
CONSTANTS
    Frags <- MCFrags
    Unusable <- SecondFile
    DlmLen = 1
    UpLen = 2
    DnLen = 2
    MaxFaults = 3
INVARIANT
    TypeOK
    PoweredInOrder
    PassIsAnswered
    NoBlindFragments
PROPERTY
    FailureEndsPush
    GateTerminates
    GateRunsOut
CHECK_DEADLOCK FALSE
