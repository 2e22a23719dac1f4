SPECIFICATION Spec
CONSTANTS
    Name <- Names
    t1 = t1
    t2 = t2
    o1 = o1
    o2 = o2
    Decl <- TheDecl
    Class <- TheClasses
    Dynamic <- Registered
    Thread = {t1, t2}
    Obj = {o1, o2}
    MetaSize = 2
    Word = 64
    MaxSlots = 3
SYMMETRY Symmetry
INVARIANTS
    TypeOK
    SlotsDisjoint
    AccessorsAgree
    DefinedIfUsedRight
    ReuseIsClean
    NothingLeaks
CHECK_DEADLOCK FALSE
