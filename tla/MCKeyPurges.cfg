CONSTANTS
    a = a
    b = b
    k = k
    m = m
    t = t
    u = u
    x = x
    NoPath = NoPath
    Paths = {a, b}
    Keys = {k, m}
    Tags = {t, u}
    IndexMatch <- MCIndexMatch
    WalkMatch <- MCWalkMatch
    Workers = {w1}
    KeyOf <- MCKeyOf
    TagsFor <- SameTags
    Purges <- Every
    Ready = TRUE
    MaxVersion = 3
    Faults = {"header", "alloc", "fanout", "evict"}
    HitsLogged = TRUE
    Uncached = TRUE
SPECIFICATION FairSpec
INVARIANTS
    ExactFanoutComplete
    FreshnessAgrees
    WildPurgeComplete
PROPERTY HandlersFinish
