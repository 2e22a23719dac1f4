SPECIFICATION Spec
CONSTANTS
    Header = 2
    Page = 8
    FloatOne = 16
    p1 = p1
    p2 = p2
    o1 = o1
    o2 = o2
    Pool <- TwoPools
    Block <- Addresses
    BaseOf <- MCBaseOf
    Sizes <- JustThree
    Lengths <- NoStrings
    NativeAligns <- Word
    BigAligns <- None
    BlockSizes <- OneBlockSize
    MinCapacities <- Minima
    Obj <- TwoObjects
    ObjSize = 2
    MaxBufs = 2
    Null = Null
SYMMETRY Symmetry
INVARIANTS ObjectsDieOnce ParentsDieFirst OneOwner
