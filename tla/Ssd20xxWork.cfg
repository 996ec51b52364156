SPECIFICATION FairSpec
CONSTANTS
    app = app
    tool = tool
    Procs = {app, tool}
    Kinds <- MCKinds
    QueueSize = 2
    MaxCalls = 3
    MaxFrames = 2
    MaxFaults = 1
    SkipFrames = 2
INVARIANTS
    TypeOK
    WorkReturned
    FlashAlone
    HandlerOwnsWord
    NoTornFrame
PROPERTIES
    EveryCallReturns
    IntAnswered
CHECK_DEADLOCK FALSE
