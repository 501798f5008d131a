CONSTANTS
    Requests = {r1, r2, r3}
    Threads = 1
    MaxQueue = 1
SPECIFICATION Spec
INVARIANTS
    TypeOK
    MemoryOutlivesTask
    AnsweredOnce
PROPERTY EveryWalkEnds
CHECK_DEADLOCK FALSE
