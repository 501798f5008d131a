CONSTANTS
    a = a
    b = b
    k = k
    m = m
    t = t
    u = u
    x = x
    NoPath = NoPath
    Paths = {a, b}
    Keys = {k, m}
    Tags = {t, u}
    IndexMatch <- MCIndexMatch
    WalkMatch <- MCWalkMatch
    Workers = {w1}
    KeyOf <- OwnKeys
    TagsFor <- SameTags
    Purges <- TagsAndOthers
    Ready = FALSE
    MaxVersion = 3
    Faults = {"unlink", "header", "read", "alloc", "collect", "crash", "evict"}
    HitsLogged = TRUE
    Uncached = FALSE
SPECIFICATION Spec
INVARIANTS
    TypeOK
    TagPurgeComplete
    IndexCovers
