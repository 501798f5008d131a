CONSTANTS
    a = a
    b = b
    k = k
    m = m
    t = t
    u = u
    x = x
    NoPath = NoPath
    Paths = {a, b}
    Keys = {k, m}
    Tags = {t, u}
    IndexMatch <- MCIndexMatch
    WalkMatch <- MCWalkMatch
    Workers = {w1, w2}
    KeyOf <- OwnKeys
    TagsFor <- SameTags
    Purges <- OneTag
    Ready = TRUE
    MaxVersion = 2
    Faults = {}
    HitsLogged = FALSE
    Uncached = FALSE
SPECIFICATION Spec
INVARIANTS
    TagPurgeComplete
