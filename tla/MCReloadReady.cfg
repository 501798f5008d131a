CONSTANTS
    z1 = z1
    z2 = z2
    h = h
    g = g
    w1 = w1
    w2 = w2
    Off = Off
    Zones = {z1}
    Headers = {h, g}
    Configs <- Changing
    Workers <- OneEach
    Single = FALSE
    MaxErrors = 0
    MaxCrashes = 0
SPECIFICATION Spec
INVARIANT ReadyIsCurrent
CHECK_DEADLOCK FALSE
