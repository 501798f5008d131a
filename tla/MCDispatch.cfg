CONSTANTS
    z1 = z1
    var = var
    h = h
    g = g
    Unset = Unset
    None = None
    Zones = {z1}
    MaxEntries = 2
    Protocols <- MCProtocols
    Default <- MCDefault
    Trees <- MCTrees
    Requests <- MCRequests
SPECIFICATION Spec
INVARIANTS
    TypeOK
    PurgeReachesItsCache
    OneHeaderList
    CountedOnce
    ReportsWhatItDid
    NothingWhenDeclined
    OrdinaryRequests
CHECK_DEADLOCK FALSE
