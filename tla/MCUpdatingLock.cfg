CONSTANTS
    Requests = {r1, r2, r3}
    CacheLock = TRUE
    UseStale = TRUE
    MaxTime = 1
SPECIFICATION Spec
INVARIANTS
    TypeOK
    FlagHasOwner
    SingleRefresh
PROPERTY NoStall
