SPECIFICATION SharedSpec
CONSTANTS
    l1 = l1
    l2 = l2
    l3 = l3
    Lists = {l1, l2, l3}
    Blocks = {b1, b2, b3}
    Instances = {x1, x2, x3, x4}
    Values = {v, w}
    ElemSize = 2048
    MaxLen = 3
    NoBlock = NoBlock
    NoList = NoList
    NoValue = NoValue
    Uninit = Uninit
    Threads = {t1, t2}
    NoThread = NoThread
    PushLists = {l1, l2}
    GetLists = {l3}
    EqPairs <- InOrder
    TypedEqPairs <- NoPairs
CONSTRAINT FewHeld
SYMMETRY Symmetry
INVARIANTS SharedTypeOK HandlesKeepAlive AliveIffReferenced NoLockCycle
PROPERTIES ImplementsRawList ConcatAppends
CHECK_DEADLOCK FALSE
