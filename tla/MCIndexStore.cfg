CONSTANTS
    p1 = p1
    p2 = p2
    k1 = k1
    k2 = k2
    t1 = t1
    t2 = t2
    x1 = x1
    x2 = x2
    NoKey = NoKey
    Paths = {p1, p2}
    Keys = {k1, k2}
    Tags = {t1, t2}
    TagLists <- MCTagLists
    Prefixes <- MCPrefixes
    KeysWithPrefix <- MCKeysWithPrefix
    Times = {1, 2}
    MaxFailures = 2
SPECIFICATION Spec
INVARIANTS
    TypeOK
    Consistent
    CollectExact
    OrphanTagsCounted
    ReaderStateSane
PROPERTY ImplementsMap
