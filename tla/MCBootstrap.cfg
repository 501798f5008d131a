CONSTANTS
    z1 = z1
    z2 = z2
    h = h
    g = g
    w1 = w1
    w2 = w2
    Off = Off
    Zones = {z1, z2}
    Headers = {h, g}
    Configs <- Indexing
    Workers <- OneThenTwo
    Single = FALSE
    MaxErrors = 1
    MaxCrashes = 1
SPECIFICATION Spec
INVARIANTS
    TypeOK
    ReadyOnlyWhenWarm
    NoZoneLeftBehind
PROPERTIES
    PollThenPurge
    EveryZoneReady
CHECK_DEADLOCK FALSE
