SPECIFICATION MCSpec
CONSTANTS
    Thread = {c1, c2, c3}
    Node = {m1, m2, m3, m4}
    Clus = {k1, k2, k3}
    MaxFree = 1
    MaxModi = 2
    None = None
    File = {"a", "b"}
    Secs = 3
    SecLen = 5
    MaxFat = 1
    Bpc = 2
    Chains <- MCChains
    Used <- MCUsed
    Seeks = {3}
    Lens = {2}
    MaxSz = 5
    End = 100
    Under = {2}
    Data <- MCData
    Walker = {e1, e2}
    Root = Root
    EntNode = {Root, n1, n2, n3, n4}
    Kids <- MCKids
    Top = "/"
    Slot = {s1}
    MaxFreeEnt = 1
    NoEnt = NoEnt
SYMMETRY Symmetry
INVARIANTS Types CacheShared CacheBounded FatCoherent AllocOnce EntryLive
CHECK_DEADLOCK FALSE
