SPECIFICATION SharedSpec
CONSTANTS
    l1 = l1
    l2 = l2
    l3 = l3
    Lists = {l1, l2, l3}
    Blocks = {b1, b2, b3}
    Instances = {x1, x2, x3}
    Values = {v}
    ElemSize = 2048
    MaxLen = 2
    NoBlock = NoBlock
    NoList = NoList
    NoValue = NoValue
    Uninit = Uninit
    Threads = {t1, t2}
    NoThread = NoThread
    PushLists = {l1}
    GetLists = {l1}
    EqPairs <- NoPairs
    TypedEqPairs <- NoPairs
CONSTRAINT FewHeld
SYMMETRY Symmetry
INVARIANT PointerValid
CHECK_DEADLOCK FALSE
