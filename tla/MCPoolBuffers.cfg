SPECIFICATION Spec
CONSTANTS
    Header = 2
    Page = 8
    FloatOne = 16
    p1 = p1
    p2 = p2
    o1 = o1
    o2 = o2
    Pool <- OnePool
    Block <- Addresses
    BaseOf <- MCBaseOf
    Sizes <- SmallAndLarge
    Lengths <- EmptyOrOne
    NativeAligns <- ByteAndWord
    BigAligns <- FourAndThree
    BlockSizes <- PoolBlockSizes
    MinCapacities <- Minima
    Obj <- NoObjects
    ObjSize = 2
    MaxBufs = 3
    Null = Null
INVARIANTS TypeOK OneOwner BuffersInUse BuffersDisjoint BuffersAligned
PROPERTIES ShrinkKeepsEnough GrowthSuffices
