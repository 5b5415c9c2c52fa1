SPECIFICATION FairSpec
CONSTANTS
    MaxLoads = 3
    MaxSends = 3
    MaxCap = 2
    IdxModulus = 3
INVARIANTS
    TypeOK
    OwnMemoryOnly
    HandlerOnLiveInstance
    ReadyIsOwn
PROPERTIES
    ProgrammedThenRun
    ImplementsLoadCycle
    StopFinishes
CHECK_DEADLOCK FALSE
