SPECIFICATION Spec
CONSTANTS
    Lists = {l1, l2}
    Blocks = {b1, b2, b3}
    Instances = {x1, x2, x3, x4, x5, x6}
    Values = {u, v}
    ElemSize = 2048
    MaxLen = 5
    NoBlock = NoBlock
    NoList = NoList
    NoValue = NoValue
    Uninit = Uninit
SYMMETRY Symmetry
CONSTRAINT FewHeld
INVARIANTS TypeOK FitsAllocation BlocksOwned ElementsOwned NothingLeaks
PROPERTY ImplementsRotoList
