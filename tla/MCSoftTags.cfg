CONSTANTS
    a = a
    b = b
    k = k
    m = m
    t = t
    u = u
    x = x
    NoPath = NoPath
    Paths = {a, b}
    Keys = {k, m}
    Tags = {t, u}
    IndexMatch <- MCIndexMatch
    WalkMatch <- MCWalkMatch
    Workers = {w1}
    KeyOf <- MCKeyOf
    TagsFor <- SameTags
    Purges <- OneExactSoft
    Ready = TRUE
    MaxVersion = 1
    Faults = {}
    HitsLogged = FALSE
    Uncached = FALSE
SPECIFICATION Spec
INVARIANTS
    IndexCovers
