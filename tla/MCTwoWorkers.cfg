CONSTANTS
    a = a
    b = b
    k = k
    m = m
    t = t
    u = u
    x = x
    NoPath = NoPath
    Paths = {a, b}
    Keys = {k, m}
    Tags = {t, u}
    IndexMatch <- MCIndexMatch
    WalkMatch <- MCWalkMatch
    Workers = {w1, w2}
    KeyOf <- OwnKeys
    TagsFor <- SameTags
    Purges <- OneOfEach
    Ready = TRUE
    MaxVersion = 2
    Faults = {"collect", "evict"}
    HitsLogged = FALSE
    Uncached = FALSE
SYMMETRY Alike
SPECIFICATION Spec
INVARIANTS
    CollectedGone
    CountsEntries
