------------------------- MODULE DynamicStructUseProofs ------------------------
(***************************************************************************)
(* The objects of a schema, for any fields, classes, threads and objects:  *)
(* the reuse pool gives away nothing that is in use or has been used, and  *)
(* the destructor of every field is called by the struct or by the memory  *)
(* pool, once; and nothing that is done with them is undefined behaviour   *)
(* as long as the schema is used as it is meant to be.                     *)
(***************************************************************************)
EXTENDS DynamicStructProofs

\* A field is destroyed by the struct, or by the memory pool, unless it has no
\* destructor or was rebuilt from metadata.
Own(d) == ~d.trivDtor /\ d.arena = "void"
ByPool(d, how) == ~d.trivDtor /\ d.arena # "void" /\ ~(how = "rebuilt" /\ d.meta)

\* destroy_all() calls the destructors of the fields that are not in a pool.
DtorInv ==
    /\ schema.trivDtor \in BOOLEAN
    /\ \A i \in 1..Len(schema.slots) :
         /\ schema.slots[i].off \in schema.dtors <=> Own(DeclOf(schema.slots[i]))
         /\ schema.trivDtor => DeclOf(schema.slots[i]).trivDtor
    /\ \A x \in schema.dtors : \E i \in 1..Len(schema.slots) : schema.slots[i].off = x

\* The objects in the vector of the reuse pool are its own, those in use are the
\* first use_num, and the others are clean.
Reusable == {"reuse", "rebuilt"}
ReuseInv ==
    /\ DOMAIN reuse = {"st", "pool", "vec", "use_num"} /\ meta.size \in Nat
    /\ reuse.vec \in Seq(Obj) /\ reuse.use_num \in 0..Len(reuse.vec)
    /\ reuse.st # "live" => reuse.vec = << >>
    /\ reuse.st # "none" => reuse.pool \in {"serial", "arena"}
    /\ \A i, j \in 1..Len(reuse.vec) : reuse.vec[i] = reuse.vec[j] => i = j
    /\ \A o \in held : \E i \in 1..reuse.use_num : reuse.vec[i] = o
    /\ \A i \in 1..Len(reuse.vec) :
         /\ obj[reuse.vec[i]].st = "live" /\ obj[reuse.vec[i]].how \in Reusable
         /\ obj[reuse.vec[i]].pool = reuse.pool
         /\ i > reuse.use_num => AllClean(obj[reuse.vec[i]].mem)

\* What a memory pool is to destroy of object o, and whether ~ReuseDynamicStructPool
\* has been there.
OffsIn(K, o) == {c[2] : c \in {d \in K : d[1] = o}}
Ended(o, r, vec) == r.how \in Reusable /\ \A i \in 1..Len(vec) : vec[i] # o

\* Slot s of an object with memory st: the pool knows whether it has to destroy it,
\* and it has not been destroyed yet, except by ~ReuseDynamicStructPool if it is the
\* struct's own.
Kept(s, st, how, C, ended) ==
    /\ how = "heap" => DeclOf(s).trivial \/ DeclOf(s).arena = "void"
    /\ s.off \in C <=> (how # "heap" /\ ByPool(DeclOf(s), how))
    /\ st \in IF ended /\ Own(DeclOf(s)) THEN {"dead"} ELSE {"clean", "dirty"}
Alive(slots, r, C, ended) ==
    /\ DOMAIN r.mem \subseteq 1..Len(slots)
    /\ r.how \in {"heap", "pool", "reuse", "rebuilt"}
    /\ r.how = "heap" <=> r.pool = "null"
    /\ r.how = "heap" => C = {}
    /\ Whole \in C <=> r.how = "pool"
    /\ \A i \in DOMAIN r.mem : Kept(slots[i], r.mem[i], r.how, C, ended)

ObjParts == {"st", "how", "pool", "mem", "cap"}
ObjOK(o) ==
    /\ DOMAIN obj[o] = ObjParts /\ obj[o].st \in {"none", "live"}
    /\ obj[o].st = "none" => OffsIn(cleaners, o) = {}
    /\ obj[o].st = "live" =>
         Alive(schema.slots, obj[o], OffsIn(cleaners, o), Ended(o, obj[o], reuse.vec))
ObjInv == /\ cleaners \subseteq Obj \X Int /\ DOMAIN obj = Obj
          /\ \A o \in Obj : ObjOK(o)

UsedRight == NothingLeaks /\ (proc \notin {"aborted", "undefined"} => ReuseInv /\ ObjInv)
UseInv == LayoutInv /\ DtorInv /\ UsedRight
--------------------------------------------------------------------------------
\* Registrations have places of their own, so that an offset tells which it is.
PlacesDiffer(slots) ==
    /\ slots \in Seq(Slot) /\ Len(slots) \in Nat
    /\ DOMAIN slots = 1..Len(slots)
    /\ \A i \in 1..Len(slots) : slots[i].off \in Nat /\ slots[i].name \in Name
    /\ \A i, j \in 1..Len(slots) : slots[i].off = slots[j].off => i = j
LEMMA OffsetsDiffer == LayoutInv => PlacesDiffer(schema.slots)
  <1> SUFFICES ASSUME LayoutInv PROVE PlacesDiffer(schema.slots)
      OBVIOUS
  <1>1. /\ schema.slots \in Seq(Slot)
        /\ \A i, j \in 1..Len(schema.slots) : i # j => Apart(schema.slots[i], schema.slots[j])
        BY DEF LayoutInv, SchemaInv
  <1>2. \A i \in 1..Len(schema.slots) : schema.slots[i] \in Slot
        BY <1>1
  <1>3. \A i \in 1..Len(schema.slots) : /\ schema.slots[i].off \in Nat
                                        /\ schema.slots[i].name \in Name
        BY <1>2 DEF Slot
  <1>4. \A i \in 1..Len(schema.slots) : /\ End(schema.slots[i]) \in Nat
                                        /\ schema.slots[i].off < End(schema.slots[i])
        BY <1>3, Ends
  <1>5. ASSUME NEW i \in 1..Len(schema.slots), NEW j \in 1..Len(schema.slots), i # j
        PROVE  schema.slots[i].off # schema.slots[j].off
        BY <1>1, <1>3, <1>4, <1>5 DEF Apart
  <1> QED
      BY <1>1, <1>3, <1>5 DEF PlacesDiffer

\* Nothing is registered, and there are no objects.
LEMMA UseInit == Init => UseInv
  <1> SUFFICES ASSUME Init PROVE UseInv
      OBVIOUS
  <1>1. LayoutInv
        BY InitLayout
  <1>2. schema.slots = << >> /\ schema.dtors = {} /\ schema.trivDtor = TRUE
        BY DEF Init, EmptySchema
  <1>3. DtorInv
    <2>1. schema.trivDtor \in BOOLEAN
          BY <1>2, Zenon
    <2>2. \A i \in 1..Len(schema.slots) : FALSE
          BY <1>2
    <2> QED
        BY <1>2, <2>1, <2>2 DEF DtorInv
  <1>4. /\ reuse.st = "none" /\ reuse.vec = << >> /\ reuse.use_num = 0
        /\ DOMAIN reuse = {"st", "pool", "vec", "use_num"} /\ held = {} /\ meta.size = 0
        BY DEF Init, NoReuse, NoMeta
  <1>5. ReuseInv
        BY <1>4 DEF ReuseInv
  <1>6. \A o \in Obj : DOMAIN obj[o] = ObjParts /\ obj[o].st = "none"
        BY DEF Init, NoObj, ObjParts
  <1>7. \A o \in Obj : OffsIn(cleaners, o) = {}
        BY DEF Init, OffsIn
  <1>8. ObjInv
        BY <1>6, <1>7 DEF Init, ObjInv, ObjOK
  <1> QED
      BY <1>1, <1>3, <1>5, <1>8 DEF UseInv, UsedRight, NothingLeaks, Init

\* What is known of an object does not depend on fields that are registered later.
LEMMA AliveGrows ==
    ASSUME NEW slots, NEW more, NEW r, NEW C, NEW e, Alive(slots, r, C, e),
           Len(slots) \in Nat, Len(more) \in Nat, Len(slots) <= Len(more),
           \A i \in 1..Len(slots) : more[i] = slots[i]
    PROVE  Alive(more, r, C, e)
  <1>1. DOMAIN r.mem \subseteq 1..Len(slots) /\ DOMAIN r.mem \subseteq 1..Len(more)
        BY DEF Alive
  <1>2. \A i \in DOMAIN r.mem : Kept(more[i], r.mem[i], r.how, C, e)
        BY <1>1 DEF Alive
  <1> QED
      BY <1>1, <1>2 DEF Alive
LEMMA Grows ==
    ASSUME ReuseInv, ObjInv, UNCHANGED <<obj, cleaners, reuse, held, meta>>, Len(schema.slots) \in Nat,
           Len(schema'.slots) \in Nat, Len(schema.slots) <= Len(schema'.slots),
           \A i \in 1..Len(schema.slots) : schema'.slots[i] = schema.slots[i]
    PROVE  ReuseInv' /\ ObjInv'
  <1>1. ReuseInv'
        BY DEF ReuseInv
  <1>2. ASSUME NEW o \in Obj, ObjOK(o) PROVE ObjOK(o)'
        BY <1>2, AliveGrows DEF ObjOK
  <1>3. ObjInv'
        BY <1>2 DEF ObjInv
  <1> QED
      BY <1>1, <1>3

\* A field with a destructor is added to the destructors of the struct, unless it
\* is in a pool; and the flag is lost.
LEMMA DtorHooks ==
    ASSUME LayoutInv, DtorInv, PlacesDiffer(schema'.slots), NEW n \in Name, NEW off \in Nat,
           DOMAIN schema' = Parts,
           schema'.slots = WithHooks(schema, n, off).slots,
           schema'.dtors = WithHooks(schema, n, off).dtors,
           schema'.trivDtor = WithHooks(schema, n, off).trivDtor
    PROVE  /\ DtorInv' /\ Len(schema'.slots) = Len(schema.slots) + 1
           /\ \A i \in 1..Len(schema.slots) : schema'.slots[i] = schema.slots[i]
  <1>0. DOMAIN schema = Parts /\ schema.slots \in Seq(Slot) /\ Len(schema.slots) \in Nat
        BY DEF LayoutInv, SchemaInv
  <1> PICK k : k = Len(schema.slots) + 1
      OBVIOUS
  <1>1. /\ schema'.slots = Append(schema.slots, [name |-> n, off |-> off])
        /\ schema'.dtors = IF Own(Decl[n]) THEN schema.dtors \cup {off} ELSE schema.dtors
        /\ schema'.trivDtor = (schema.trivDtor /\ Decl[n].trivDtor)
        BY <1>0 DEF WithHooks, Parts, Own
  <1>2. /\ Len(schema'.slots) = k
        /\ \A i \in 1..Len(schema.slots) : schema'.slots[i] = schema.slots[i]
        /\ schema'.slots[k] = [name |-> n, off |-> off]
        BY <1>0, <1>1
  <1>3. /\ schema'.slots[k].name = n /\ schema'.slots[k].off = off /\ k \in Nat /\ k \in 1..k
        /\ \A i \in 1..k : i = k \/ i \in 1..Len(schema.slots)
        /\ \A i \in 1..Len(schema.slots) : i \in 1..k /\ i # k
        BY <1>0, <1>2
  <1>4. DeclOf(schema'.slots[k]) = Decl[n]
        BY <1>3 DEF DeclOf
  <1>5. \A i \in 1..Len(schema.slots) : schema.slots[i].off # off
        BY <1>2, <1>3 DEF PlacesDiffer
  <1>6. Decl[n].trivDtor \in BOOLEAN
        BY DeclAssumption DEF Declaration
  <1>7. schema'.trivDtor \in BOOLEAN
        BY <1>1
  <1>8. ASSUME NEW i \in 1..k
        PROVE  /\ schema'.slots[i].off \in schema'.dtors <=> Own(DeclOf(schema'.slots[i]))
               /\ schema'.trivDtor => DeclOf(schema'.slots[i]).trivDtor
    <2>1. CASE i = k
      <3>1. off \notin schema.dtors
            BY <1>5 DEF DtorInv
      <3> QED
          BY <1>1, <1>3, <1>4, <2>1, <3>1
    <2>2. CASE i \in 1..Len(schema.slots)
      <3>1. /\ schema.slots[i].off \in schema.dtors <=> Own(DeclOf(schema.slots[i]))
            /\ schema.trivDtor => DeclOf(schema.slots[i]).trivDtor
            BY <2>2 DEF DtorInv
      <3> QED
          BY <1>1, <1>2, <1>5, <2>2, <3>1
    <2> QED
        BY <1>3, <1>8, <2>1, <2>2
  <1>9. ASSUME NEW x \in schema'.dtors
        PROVE  \E i \in 1..k : schema'.slots[i].off = x
    <2>1. CASE x = off
          BY <1>3, <2>1
    <2>2. CASE x \in schema.dtors
      <3>1. PICK i \in 1..Len(schema.slots) : schema.slots[i].off = x
            BY <2>2 DEF DtorInv
      <3> QED
          BY <1>2, <1>3, <3>1
    <2> QED
        BY <1>1, <1>9, <2>1, <2>2
  <1> QED
      BY <1>2, <1>7, <1>8, <1>9 DEF DtorInv

\* A process that is over has a schema without destructors.
LEMMA StopUses ==
    ASSUME NEW end \in {"aborted", "undefined"}, Stop(end), NothingLeaks
    PROVE  DtorInv' /\ UsedRight'
  <1>1. proc' \in {"aborted", "undefined"} /\ leaked' = leaked /\ schema' = EmptySchema
        BY DEF Stop
  <1>2. schema'.slots = << >> /\ schema'.dtors = {} /\ schema'.trivDtor = TRUE
        BY <1>1 DEF EmptySchema
  <1>3. schema'.trivDtor \in BOOLEAN
        BY <1>2, Zenon
  <1>4. \A i \in 1..Len(schema'.slots) : FALSE
        BY <1>2
  <1> QED
      BY <1>1, <1>2, <1>3, <1>4 DEF DtorInv, UsedRight, NothingLeaks

\* Registration of fields: what it adds to the schema comes after what objects use.
LEMMA SchemaSteps ==
    ASSUME UseInv, LayoutInv',
           RegisterMember \/ MemberEnd \/ (\E t \in Thread : RegisterField(t))
    PROVE  DtorInv' /\ UsedRight'
  <1>1. /\ LayoutInv /\ DtorInv /\ UsedRight /\ PlacesDiffer(schema.slots)
        /\ DOMAIN schema = Parts /\ DOMAIN schema' = Parts
        BY OffsetsDiffer DEF UseInv, LayoutInv, SchemaInv
  <1>2. PlacesDiffer(schema'.slots)
    <2>1. LayoutInv' => PlacesDiffer(schema.slots)'
          BY OffsetsDiffer, PTL
    <2> QED
        BY <2>1
  <1>3. ASSUME UNCHANGED useVars, schema'.slots = schema.slots \/
                  (/\ Len(schema'.slots) = Len(schema.slots) + 1
                   /\ \A i \in 1..Len(schema.slots) : schema'.slots[i] = schema.slots[i]),
               proc \in {"static", "up"}
        PROVE  UsedRight'
    <2>1. NothingLeaks'
          BY <1>1, <1>3 DEF UsedRight, NothingLeaks, useVars
    <2>2. ReuseInv /\ ObjInv /\ UNCHANGED <<obj, cleaners, reuse, held, meta>>
          BY <1>1, <1>3 DEF UsedRight, useVars
    <2>3. Len(schema.slots) \in Nat /\ Len(schema'.slots) \in Nat
          BY <1>1, <1>2 DEF PlacesDiffer
    <2>4. /\ Len(schema.slots) <= Len(schema'.slots)
          /\ \A i \in 1..Len(schema.slots) : schema'.slots[i] = schema.slots[i]
          BY <1>3, <2>3
    <2> QED
        BY <2>1, <2>2, <2>3, <2>4, Grows DEF UsedRight
  <1>4. ASSUME schema'.slots = schema.slots, schema'.dtors = schema.dtors,
               schema'.trivDtor = schema.trivDtor
        PROVE  DtorInv'
        BY <1>1, <1>4 DEF DtorInv
  <1>5. CASE RegisterMember
    <2> PICK m : m = cls.members[Len(schema.slots) + 1]
        OBVIOUS
    <2>1. /\ proc = "static" /\ schema' = Member(schema, m.name, m.off) /\ UNCHANGED useVars
          /\ Len(schema.slots) < Len(cls.members)
          BY <1>5 DEF RegisterMember
    <2>2. m \in Slot
      <3>1. cls \in [members : Seq([name : Name, off : Nat]), size : Nat, align : Nat \ {0}]
            BY <1>1, ClassAssumption DEF LayoutInv, SchemaInv
      <3>2. cls.members \in Seq(Slot)
            BY <3>1 DEF Slot
      <3>3. Len(schema.slots) + 1 \in DOMAIN cls.members
            BY <1>1, <2>1, <3>2 DEF PlacesDiffer
      <3> QED
          BY <3>2, <3>3
    <2>3. m.name \in Name /\ m.off \in Nat
          BY <2>2 DEF Slot
    <2>4. CASE m.name \in DOMAIN schema.map
      <3>1. schema' = schema
            BY <2>1, <2>4 DEF Member
      <3> QED
          BY <1>3, <1>4, <2>1, <3>1
    <2>5. CASE m.name \notin DOMAIN schema.map
      <3> PICK T : T = WithHooks(schema, m.name, m.off)
          OBVIOUS
      <3>1. schema' = Emplaced(T, m.name, m.off)
            BY <2>1, <2>5 DEF Member
      <3>2. DOMAIN T = Parts
            BY <1>1 DEF WithHooks
      <3>3. schema'.slots = T.slots /\ schema'.dtors = T.dtors /\ schema'.trivDtor = T.trivDtor
            BY <3>1, <3>2 DEF Emplaced, Parts
      <3>4. /\ DtorInv' /\ Len(schema'.slots) = Len(schema.slots) + 1
            /\ \A i \in 1..Len(schema.slots) : schema'.slots[i] = schema.slots[i]
            BY <1>1, <1>2, <2>3, <3>3, DtorHooks
      <3> QED
          BY <1>3, <2>1, <3>4
    <2> QED
        BY <2>4, <2>5
  <1>6. CASE MemberEnd
    <2>1. /\ proc = "static" /\ UNCHANGED useVars /\ schema' = SetSizeAndAlign(schema, cls.size, cls.align)
          BY <1>6 DEF MemberEnd
    <2>2. /\ schema'.slots = schema.slots /\ schema'.dtors = schema.dtors
          /\ schema'.trivDtor = schema.trivDtor
          BY <1>1, <2>1 DEF SetSizeAndAlign, Parts
    <2> QED
        BY <1>3, <1>4, <2>1, <2>2
  <1>7. ASSUME NEW t \in Thread, RegisterField(t) PROVE DtorInv' /\ UsedRight'
    <2>1. CASE \E n \in Dynamic : Find(t, n)
      <3>1. proc = "up" /\ UNCHANGED useVars /\ schema' = schema
            BY <2>1 DEF Find
      <3> QED
          BY <1>3, <1>4, <3>1
    <2>2. CASE FindRace(t)
      <3>1. Crash
            BY <2>2 DEF FindRace
      <3> QED
          BY <1>1, <3>1, StopUses DEF Crash, UsedRight
    <2>3. CASE Layout(t)
      <3>1. proc = "up" /\ UNCHANGED useVars /\ schema' = WithSpace(schema, reg[t].name)
            BY <2>3 DEF Layout
      <3>2. /\ schema'.slots = schema.slots /\ schema'.dtors = schema.dtors
            /\ schema'.trivDtor = schema.trivDtor
            BY <1>1, <3>1 DEF WithSpace, Parts
      <3> QED
          BY <1>3, <1>4, <3>1, <3>2
    <2>4. CASE Hooks(t)
      <3> PICK n, off : n = reg[t].name /\ off = reg[t].off
          OBVIOUS
      <3>1. proc = "up" /\ UNCHANGED useVars /\ schema' = WithHooks(schema, n, off)
            BY <2>4 DEF Hooks
      <3>2. n \in Name /\ off \in Nat
            BY <1>1, <2>4 DEF Hooks, LayoutInv, RegInv
      <3>3. /\ DtorInv' /\ Len(schema'.slots) = Len(schema.slots) + 1
            /\ \A i \in 1..Len(schema.slots) : schema'.slots[i] = schema.slots[i]
            BY <1>1, <1>2, <3>1, <3>2, DtorHooks
      <3> QED
          BY <1>3, <3>1, <3>3
    <2>5. CASE Emplace(t)
      <3>1. proc = "up" /\ UNCHANGED useVars /\ schema' = Emplaced(schema, reg[t].name, reg[t].off)
            BY <2>5 DEF Emplace
      <3>2. /\ schema'.slots = schema.slots /\ schema'.dtors = schema.dtors
            /\ schema'.trivDtor = schema.trivDtor
            BY <1>1, <3>1 DEF Emplaced, Parts
      <3> QED
          BY <1>3, <1>4, <3>1, <3>2
    <2> QED
        BY <1>7, <2>1, <2>2, <2>3, <2>4, <2>5 DEF RegisterField
  <1> QED
      BY <1>5, <1>6, <1>7

\* Cleaners that are added or called.
Added(K, os, X) == K \cup (os \X X)
LEMMA OffsAdded ==
    ASSUME NEW K, NEW os, NEW X, NEW o
    PROVE  /\ o \notin os => OffsIn(Added(K, os, X), o) = OffsIn(K, o)
           /\ o \in os /\ OffsIn(K, o) = {} => OffsIn(Added(K, os, X), o) = X
  <1> PICK K2 : K2 = Added(K, os, X)
      OBVIOUS
  <1>1. K2 = K \cup (os \X X)
        BY DEF Added
  <1>2. \A x \in OffsIn(K, o) : x \in OffsIn(K2, o)
        BY <1>1 DEF OffsIn
  <1>3. o \in os => \A x \in X : x \in OffsIn(K2, o)
    <2> SUFFICES ASSUME o \in os, NEW x \in X PROVE x \in OffsIn(K2, o)
        OBVIOUS
    <2>1. <<o, x>> \in K2 /\ <<o, x>>[1] = o /\ <<o, x>>[2] = x
          BY <1>1
    <2> QED
        BY <2>1 DEF OffsIn
  <1>4. ASSUME NEW x \in OffsIn(K2, o)
        PROVE  x \in OffsIn(K, o) \/ (o \in os /\ x \in X)
    <2>1. PICK c \in K \cup (os \X X) : c[1] = o /\ c[2] = x
          BY <1>1, <1>4 DEF OffsIn
    <2>2. CASE c \in K
          BY <2>1, <2>2 DEF OffsIn
    <2>3. CASE c \in os \X X
          BY <2>1, <2>3
    <2> QED
        BY <2>1, <2>2, <2>3
  <1> QED
      BY <1>2, <1>3, <1>4

LEMMA OffsDropped ==
    ASSUME NEW K, NEW os, NEW o
    PROVE  OffsIn({c \in K : c[1] \notin os}, o) = IF o \in os THEN {} ELSE OffsIn(K, o)
  BY DEF OffsIn

\* The pool is told of the fields that are its to destroy.
LEMMA InPoolOffs ==
    ASSUME LayoutInv, NEW how
    PROVE  /\ InPool(schema, how) \subseteq Nat
           /\ \A i \in 1..Len(schema.slots) :
                schema.slots[i].off \in InPool(schema, how) <=> ByPool(DeclOf(schema.slots[i]), how)
  <1>1. PlacesDiffer(schema.slots)
        BY OffsetsDiffer
  <1>2. InPool(schema, how) =
           {schema.slots[i].off : i \in {j \in DOMAIN schema.slots : ByPool(DeclOf(schema.slots[j]), how)}}
        BY DEF InPool, ByPool, DeclOf
  <1> QED
      BY <1>1, <1>2 DEF PlacesDiffer

\* A new object that was made well.
LEMMA NewAlive ==
    ASSUME LayoutInv, NEW how \in {"heap", "pool", "reuse", "rebuilt"}, NEW pool, NEW C,
           ~WrongPool(schema, pool), AllClean(ConstructAll(schema)),
           how = "heap" <=> pool = "null",
           C = IF how = "heap" THEN {} ELSE InPool(schema, how) \cup (IF how = "pool" THEN {Whole} ELSE {})
    PROVE  Alive(schema.slots, Made(how, pool), C, FALSE) /\ DOMAIN Made(how, pool) = ObjParts
  <1> PICK r : r = Made(how, pool)
      OBVIOUS
  <1>1. /\ r.how = how /\ r.pool = pool /\ r.mem = ConstructAll(schema)
        /\ DOMAIN r = ObjParts
        BY DEF Made, ObjParts
  <1>2. DOMAIN r.mem = 1..Len(schema.slots) /\ PlacesDiffer(schema.slots)
        BY <1>1, OffsetsDiffer DEF ConstructAll, PlacesDiffer
  <1>3. \A i \in DOMAIN r.mem : r.mem[i] = "clean"
        BY <1>1 DEF AllClean
  <1>4. /\ InPool(schema, how) \subseteq Nat
        /\ \A i \in 1..Len(schema.slots) :
             schema.slots[i].off \in InPool(schema, how) <=> ByPool(DeclOf(schema.slots[i]), how)
        BY InPoolOffs
  <1>5. Whole \in C <=> how = "pool"
        BY <1>4 DEF Whole
  <1>6. ASSUME NEW i \in 1..Len(schema.slots)
        PROVE  Kept(schema.slots[i], r.mem[i], how, C, FALSE)
    <2>1. how = "heap" => DeclOf(schema.slots[i]).trivial \/ DeclOf(schema.slots[i]).arena = "void"
      <3>1. DeclOf(schema.slots[i]).arena \in {"void", "serial", "arena"}
            BY <1>2, DeclAssumption DEF PlacesDiffer, Declaration, DeclOf
      <3>2. how = "heap" => pool = "null"
            OBVIOUS
      <3> QED
          BY <1>2, <3>1, <3>2 DEF WrongPool, DeclOf, PlacesDiffer
    <2>2. schema.slots[i].off \in C <=> (how # "heap" /\ ByPool(DeclOf(schema.slots[i]), how))
      <3>1. schema.slots[i].off # Whole
            BY <1>2 DEF PlacesDiffer, Whole
      <3> QED
          BY <1>4, <3>1
    <2> QED
        BY <1>2, <1>3, <2>1, <2>2 DEF Kept
  <1> QED
      BY <1>1, <1>2, <1>5, <1>6 DEF Alive

\* An object that a step leaves alone, and one that a step has made.
LEMMA ObjSame ==
    ASSUME NEW o \in Obj, ObjOK(o), obj'[o] = obj[o], schema'.slots = schema.slots,
           OffsIn(cleaners', o) = OffsIn(cleaners, o),
           Ended(o, obj[o], reuse'.vec) <=> Ended(o, obj[o], reuse.vec)
    PROVE  ObjOK(o)'
  <1>1. Ended(o, obj[o], reuse'.vec) = Ended(o, obj[o], reuse.vec)
        BY DEF Ended
  <1> QED
      BY <1>1 DEF ObjOK

LEMMA ObjNew ==
    ASSUME LayoutInv, NEW o \in Obj, NEW how \in {"heap", "pool", "reuse", "rebuilt"}, NEW pool,
           ~WrongPool(schema, pool), AllClean(ConstructAll(schema)),
           how = "heap" <=> pool = "null",
           obj'[o] = Made(how, pool), schema' = schema,
           OffsIn(cleaners', o) = IF how = "heap" THEN {}
              ELSE InPool(schema, how) \cup (IF how = "pool" THEN {Whole} ELSE {}),
           how \in Reusable => \E i \in 1..Len(reuse'.vec) : reuse'.vec[i] = o
    PROVE  ObjOK(o)' /\ obj'[o].st = "live" /\ obj'[o].how = how /\ obj'[o].pool = pool
           /\ AllClean(obj'[o].mem)
  <1>1. /\ Alive(schema.slots, Made(how, pool), OffsIn(cleaners', o), FALSE)
        /\ DOMAIN Made(how, pool) = ObjParts
        BY NewAlive
  <1>2. /\ Made(how, pool).st = "live" /\ Made(how, pool).how = how
        /\ Made(how, pool).pool = pool /\ Made(how, pool).mem = ConstructAll(schema)
        BY DEF Made
  <1>3. Ended(o, obj'[o], reuse'.vec) = FALSE
        BY <1>2 DEF Ended
  <1> QED
      BY <1>1, <1>2, <1>3 DEF ObjOK

\* What steps of the application start from.
LEMMA Before ==
    ASSUME UseInv, proc = "up"
    PROVE  /\ LayoutInv /\ DtorInv /\ NothingLeaks /\ ReuseInv /\ ObjInv
           /\ PlacesDiffer(schema.slots) /\ DOMAIN obj = Obj /\ cleaners \subseteq Obj \X Int
           /\ \A o \in Obj : ObjOK(o)
  BY OffsetsDiffer DEF UseInv, UsedRight, ObjInv

\* An object is made outside of the reuse pool.
LEMMA MakeUses ==
    ASSUME UseInv, NEW o \in Obj,
           Create(o) \/ \E pool \in {"serial", "arena"} : CreateWithPool(o, pool)
    PROVE  UsedRight'
  <1>1. PICK how \in {"heap", "pool"}, pool \in {"null", "serial", "arena"} :
           /\ Make(o, how, pool) /\ UNCHANGED <<reuse, held>>
           /\ how = "heap" <=> pool = "null"
           /\ cleaners' = IF how = "heap" THEN cleaners
                          ELSE cleaners \cup ({o} \X (InPool(schema, how) \cup {Whole}))
    <2>1. CASE Create(o)
          BY <2>1 DEF Create
    <2>2. ASSUME NEW p \in {"serial", "arena"}, CreateWithPool(o, p)
          PROVE  /\ Make(o, "pool", p) /\ UNCHANGED <<reuse, held>>
                 /\ cleaners' = cleaners \cup ({o} \X (InPool(schema, "pool") \cup {Whole}))
          BY <2>2 DEF CreateWithPool
    <2> QED
        BY <2>1, <2>2
  <1>2. /\ proc = "up" /\ obj[o].st = "none" /\ obj' = [obj EXCEPT ![o] = Made(how, pool)]
        /\ schema' = schema /\ meta' = meta /\ leaked' = leaked
        /\ proc' # "undefined" => ~WrongPool(schema, pool) /\ AllClean(ConstructAll(schema))
        BY <1>1 DEF Make, WellMade, schemaVars
  <1>3. /\ LayoutInv /\ NothingLeaks /\ ReuseInv /\ ObjInv /\ DOMAIN obj = Obj
        /\ cleaners \subseteq Obj \X Int /\ \A p \in Obj : ObjOK(p)
        BY <1>2, Before
  <1>4. NothingLeaks'
        BY <1>2, <1>3 DEF NothingLeaks
  <1> SUFFICES ASSUME proc' # "undefined" PROVE ReuseInv' /\ ObjInv'
      BY <1>4 DEF UsedRight
  <1>5. /\ obj'[o] = Made(how, pool) /\ DOMAIN obj' = Obj
        /\ \A p \in Obj : p # o => obj'[p] = obj[p]
        BY <1>2, <1>3
  <1>6. OffsIn(cleaners, o) = {}
        BY <1>2, <1>3 DEF ObjOK
  <1> PICK X : X = InPool(schema, how) \cup {Whole}
      OBVIOUS
  <1>7. X \subseteq Int
        BY <1>3, InPoolOffs DEF Whole
  <1>8. /\ cleaners' \subseteq Obj \X Int
        /\ \A p \in Obj : p # o => OffsIn(cleaners', p) = OffsIn(cleaners, p)
        /\ OffsIn(cleaners', o) = IF how = "heap" THEN {} ELSE X
    <2>1. CASE how = "heap"
          BY <1>1, <1>3, <1>6, <2>1
    <2>2. CASE how # "heap"
      <3>1. cleaners' = cleaners \cup ({o} \X X) /\ {o} \subseteq Obj
            BY <1>1, <2>2
      <3>2. cleaners' = Added(cleaners, {o}, X)
            BY <3>1 DEF Added
      <3>3. /\ \A p \in Obj : p # o => OffsIn(cleaners', p) = OffsIn(cleaners, p)
            /\ OffsIn(cleaners', o) = X
            BY <1>6, <3>2, OffsAdded
      <3>4. cleaners' \subseteq Obj \X Int
            BY <1>3, <1>7, <3>1
      <3> QED
          BY <2>2, <3>3, <3>4
    <2> QED
        BY <2>1, <2>2
  <1>9. ObjOK(o)'
    <2>1. OffsIn(cleaners', o) = IF how = "heap" THEN {}
              ELSE InPool(schema, how) \cup (IF how = "pool" THEN {Whole} ELSE {})
          BY <1>8
    <2>2. how \notin Reusable
          BY DEF Reusable
    <2> QED
        BY ZenonT(40), <1>1, <1>2, <1>3, <1>5, <2>1, <2>2, ObjNew
  <1>10. \A p \in Obj : p # o => ObjOK(p)'
         BY <1>1, <1>2, <1>3, <1>5, <1>8, ObjSame
  <1>11. \A i \in 1..Len(reuse.vec) : reuse.vec[i] # o /\ reuse.vec[i] \in Obj
         BY <1>2, <1>3 DEF ReuseInv
  <1>12. ReuseInv'
         BY SMTT(20), <1>1, <1>2, <1>3, <1>5, <1>11 DEF ReuseInv
  <1> QED
      BY <1>5, <1>8, <1>9, <1>10, <1>12 DEF ObjInv

\* get() of the reuse pool makes a new object.
LEMMA GetNewUses == ASSUME UseInv, NEW o \in Obj, GetNew(o) PROVE UsedRight'
  <1> PICK pool, k : pool = reuse.pool /\ k = Len(reuse.vec) + 1
      OBVIOUS
  <1>1. /\ proc = "up" /\ obj[o].st = "none" /\ obj' = [obj EXCEPT ![o] = Made("reuse", pool)]
        /\ schema' = schema /\ meta' = meta /\ leaked' = leaked
        /\ proc' # "undefined" => ~WrongPool(schema, pool) /\ AllClean(ConstructAll(schema))
        BY DEF GetNew, Make, WellMade, schemaVars
  <1>2. /\ reuse.st = "live" /\ reuse.use_num = Len(reuse.vec) /\ held' = held \cup {o}
        /\ reuse' = [reuse EXCEPT !.vec = Append(@, o), !.use_num = @ + 1]
        /\ cleaners' = cleaners \cup ({o} \X InPool(schema, "reuse"))
        BY DEF GetNew
  <1>3. /\ LayoutInv /\ NothingLeaks /\ ReuseInv /\ ObjInv /\ DOMAIN obj = Obj
        /\ cleaners \subseteq Obj \X Int /\ \A p \in Obj : ObjOK(p)
        BY <1>1, Before
  <1>4. NothingLeaks'
        BY <1>1, <1>3 DEF NothingLeaks
  <1> SUFFICES ASSUME proc' # "undefined" PROVE ReuseInv' /\ ObjInv'
      BY <1>4 DEF UsedRight
  <1>5. /\ obj'[o] = Made("reuse", pool) /\ DOMAIN obj' = Obj
        /\ \A p \in Obj : p # o => obj'[p] = obj[p]
        BY <1>1, <1>3
  <1>6. OffsIn(cleaners, o) = {} /\ pool \in {"serial", "arena"} /\ DOMAIN reuse = {"st", "pool", "vec", "use_num"}
        BY <1>1, <1>2, <1>3 DEF ObjOK, ReuseInv
  <1>7. /\ reuse'.vec = Append(reuse.vec, o) /\ reuse'.use_num = k /\ reuse'.st = "live"
        /\ reuse'.pool = pool /\ DOMAIN reuse' = {"st", "pool", "vec", "use_num"}
        BY <1>2, <1>6
  <1>8. /\ reuse.vec \in Seq(Obj) /\ reuse'.vec \in Seq(Obj) /\ k \in Nat /\ Len(reuse'.vec) = k
        /\ reuse'.vec[k] = o /\ \A i \in 1..(k - 1) : reuse'.vec[i] = reuse.vec[i]
        /\ Len(reuse.vec) = k - 1
        /\ \A i \in 1..k : i = k \/ i \in 1..(k - 1)
        /\ \A i \in 1..(k - 1) : i # k /\ i \in 1..k
        /\ k \in 1..k
        BY <1>3, <1>7 DEF ReuseInv
  <1>9. \A i \in 1..(k - 1) : reuse.vec[i] # o /\ reuse.vec[i] \in Obj
        BY <1>1, <1>3, <1>8 DEF ReuseInv
  <1>x. PICK X : X = InPool(schema, "reuse")
        OBVIOUS
  <1>10. X \subseteq Nat
         BY <1>3, <1>x, InPoolOffs
  <1>11. cleaners' = Added(cleaners, {o}, X)
         BY <1>2, <1>x DEF Added
  <1>12. /\ cleaners' \subseteq Obj \X Int /\ OffsIn(cleaners', o) = X
         /\ \A p \in Obj : p # o => OffsIn(cleaners', p) = OffsIn(cleaners, p)
    <2>1. OffsIn(cleaners', o) = X
          BY <1>6, <1>11, OffsAdded
    <2>2. \A p \in Obj : p # o => OffsIn(cleaners', p) = OffsIn(cleaners, p)
          BY <1>11, OffsAdded
    <2>3. cleaners' \subseteq Obj \X Int
          BY <1>2, <1>3, <1>x, <1>10
    <2> QED
        BY <2>1, <2>2, <2>3
  <1>13. /\ ObjOK(o)' /\ obj'[o].st = "live" /\ obj'[o].how = "reuse" /\ obj'[o].pool = pool
         /\ AllClean(obj'[o].mem)
    <2>1. OffsIn(cleaners', o) = IF "reuse" = "heap" THEN {}
              ELSE InPool(schema, "reuse") \cup (IF "reuse" = "pool" THEN {Whole} ELSE {})
          BY <1>x, <1>12
    <2>2. "reuse" = "heap" <=> pool = "null"
          BY <1>6
    <2>3. \E i \in 1..Len(reuse'.vec) : reuse'.vec[i] = o
          BY <1>8
    <2> QED
        BY <1>1, <1>3, <1>5, <2>1, <2>2, <2>3, ObjNew
  <1>14. ASSUME NEW p \in Obj, p # o PROVE ObjOK(p)'
    <2>1. Ended(p, obj[p], reuse'.vec) <=> Ended(p, obj[p], reuse.vec)
          BY <1>8, <1>14 DEF Ended
    <2> QED
        BY <1>1, <1>3, <1>5, <1>12, <1>14, <2>1, ObjSame
  <1>15. \A i, j \in 1..k : reuse'.vec[i] = reuse'.vec[j] => i = j
         BY <1>3, <1>8, <1>9 DEF ReuseInv
  <1>16. \A p \in held' : \E i \in 1..k : reuse'.vec[i] = p
         BY <1>2, <1>3, <1>8 DEF ReuseInv
  <1>17. ASSUME NEW i \in 1..k
         PROVE  /\ obj'[reuse'.vec[i]].st = "live" /\ obj'[reuse'.vec[i]].how \in Reusable
                /\ obj'[reuse'.vec[i]].pool = pool
    <2>1. CASE i = k
          BY <1>8, <1>13, <2>1 DEF Reusable
    <2>2. CASE i \in 1..(k - 1)
          BY <1>3, <1>5, <1>8, <1>9, <2>2 DEF ReuseInv
    <2> QED
        BY <1>8, <1>17, <2>1, <2>2
  <1>18. \A i \in 1..k : ~(i > k)
         BY <1>8
  <1>19. ReuseInv'
    <2>1. k \in 0..Len(reuse'.vec) /\ meta'.size \in Nat
          BY <1>1, <1>3, <1>8 DEF ReuseInv
    <2> QED
        BY <1>6, <1>7, <1>8, <1>15, <1>16, <1>17, <1>18, <2>1 DEF ReuseInv
  <1> QED
      BY <1>5, <1>12, <1>13, <1>14, <1>19 DEF ObjInv

\* The reuse pool is made, or gives away an object it has, or the metadata change:
\* the objects stay as they are.
LEMMA PoolUses ==
    ASSUME UseInv, GetOld \/ UpdateMetadata \/ \E pool \in {"serial", "arena"} : NewReuse(pool)
    PROVE  UsedRight'
  <1>1. /\ proc = "up" /\ leaked' = leaked /\ schema' = schema /\ obj' = obj /\ cleaners' = cleaners
        BY DEF GetOld, UpdateMetadata, NewReuse, schemaVars
  <1>2. /\ NothingLeaks /\ ReuseInv /\ ObjInv
        BY <1>1, Before
  <1>3. NothingLeaks'
        BY <1>1, <1>2 DEF NothingLeaks
  <1>4. /\ reuse.vec \in Seq(Obj) /\ Len(reuse.vec) \in Nat /\ reuse.use_num \in 0..Len(reuse.vec)
        /\ DOMAIN reuse = {"st", "pool", "vec", "use_num"}
        BY <1>2 DEF ReuseInv
  <1>5. ReuseInv' /\ reuse'.vec = reuse.vec
    <2>1. CASE GetOld
      <3> PICK k : k = reuse.use_num + 1
          OBVIOUS
      <3>1. /\ reuse'.vec = reuse.vec /\ reuse'.use_num = k /\ reuse'.st = reuse.st
            /\ reuse'.pool = reuse.pool /\ DOMAIN reuse' = {"st", "pool", "vec", "use_num"}
            /\ held' = held \cup {reuse.vec[k]} /\ meta' = meta
            BY <1>4, <2>1 DEF GetOld
      <3>2. /\ k \in 1..Len(reuse.vec) /\ k \in 0..Len(reuse.vec) /\ k \in 1..k
            /\ \A i \in 1..reuse.use_num : i \in 1..k
            /\ \A i \in 1..Len(reuse.vec) : i > k => i > reuse.use_num
            BY <1>4, <2>1 DEF GetOld
      <3>3. \A p \in held' : \E i \in 1..k : reuse.vec[i] = p
            BY <1>2, <3>1, <3>2 DEF ReuseInv
      <3> QED
          BY <1>1, <1>2, <3>1, <3>2, <3>3 DEF ReuseInv
    <2>2. CASE UpdateMetadata
      <3>1. meta'.size = Len(reuse.vec) /\ reuse' = reuse /\ held' = held
            BY <2>2 DEF UpdateMetadata
      <3> QED
          BY <1>1, <1>2, <1>4, <3>1 DEF ReuseInv
    <2>3. ASSUME NEW pool \in {"serial", "arena"}, NewReuse(pool)
          PROVE  ReuseInv' /\ reuse'.vec = reuse.vec
      <3>1. /\ reuse'.vec = << >> /\ reuse'.use_num = 0 /\ reuse'.st = "live"
            /\ reuse'.pool = pool /\ DOMAIN reuse' = {"st", "pool", "vec", "use_num"}
            /\ held' = held /\ meta' = meta /\ reuse.st = "none"
            BY <2>3 DEF NewReuse, NoReuse
      <3>2. reuse.vec = << >> /\ reuse.use_num = 0
            BY <1>2, <3>1 DEF ReuseInv
      <3>3. held = {}
            BY <1>2, <3>2 DEF ReuseInv
      <3> QED
          BY <1>2, <3>1, <3>2, <3>3 DEF ReuseInv
    <2> QED
        BY <2>1, <2>2, <2>3
  <1>6. ObjInv'
    <2>1. \A o \in Obj : ObjOK(o)'
          BY <1>1, <1>2, <1>5, ObjSame DEF ObjInv
    <2> QED
        BY <1>1, <1>2, <2>1 DEF ObjInv
  <1> QED
      BY <1>3, <1>5, <1>6 DEF UsedRight

\* The memory of an object changes: its fields stay constructed.
LEMMA AliveChanged ==
    ASSUME NEW slots, NEW r, NEW C, NEW e \in BOOLEAN, NEW m, Alive(slots, r, C, e),
           DOMAIN r = ObjParts, DOMAIN m = DOMAIN r.mem,
           \A i \in DOMAIN m : m[i] \in {"clean", "dirty"},
           ~e \/ AllClean(r.mem)
    PROVE  /\ Alive(slots, [r EXCEPT !.mem = m], C, e)
           /\ DOMAIN [r EXCEPT !.mem = m] = ObjParts /\ [r EXCEPT !.mem = m].mem = m
           /\ \A x \in {"st", "how", "pool"} : [r EXCEPT !.mem = m][x] = r[x]
  <1> PICK q : q = [r EXCEPT !.mem = m]
      OBVIOUS
  <1>1. /\ q.mem = m /\ q.how = r.how /\ q.pool = r.pool /\ q.st = r.st
        /\ DOMAIN q = ObjParts
        BY DEF ObjParts
  <1>2. ASSUME NEW i \in DOMAIN m
        PROVE  Kept(slots[i], m[i], r.how, C, e)
    <2>1. Kept(slots[i], r.mem[i], r.how, C, e)
          BY DEF Alive
    <2>2. ~(e /\ Own(DeclOf(slots[i])))
          BY <2>1 DEF Kept, AllClean
    <2> QED
        BY <2>1, <2>2 DEF Kept
  <1> QED
      BY <1>1, <1>2 DEF Alive

LEMMA ObjChanged ==
    ASSUME NEW o \in Obj, ObjOK(o), NEW m, obj[o].st = "live",
           obj'[o] = [obj[o] EXCEPT !.mem = m], schema' = schema,
           cleaners' = cleaners, reuse'.vec = reuse.vec,
           DOMAIN m = DOMAIN obj[o].mem, \A i \in DOMAIN m : m[i] \in {"clean", "dirty"},
           ~Ended(o, obj[o], reuse.vec) \/ AllClean(obj[o].mem)
    PROVE  /\ ObjOK(o)' /\ obj'[o].st = "live" /\ obj'[o].how = obj[o].how
           /\ obj'[o].pool = obj[o].pool /\ obj'[o].mem = m
  <1> PICK r, C, e, slots : r = obj[o] /\ C = OffsIn(cleaners, o) /\ e = Ended(o, obj[o], reuse.vec)
                            /\ slots = schema.slots
      OBVIOUS
  <1>1. Alive(slots, r, C, e) /\ DOMAIN r = ObjParts /\ e \in BOOLEAN
        BY DEF ObjOK, Ended
  <1>2. /\ Alive(slots, [r EXCEPT !.mem = m], C, e)
        /\ DOMAIN [r EXCEPT !.mem = m] = ObjParts /\ [r EXCEPT !.mem = m].mem = m
        /\ \A x \in {"st", "how", "pool"} : [r EXCEPT !.mem = m][x] = r[x]
        BY <1>1, AliveChanged
  <1>3. /\ obj'[o].st = "live" /\ obj'[o].how = obj[o].how
        /\ obj'[o].pool = obj[o].pool /\ obj'[o].mem = m /\ DOMAIN obj'[o] = ObjParts
        BY <1>2
  <1>4. Ended(o, obj'[o], reuse'.vec) = e
        BY <1>3 DEF Ended
  <1>5. Alive(schema'.slots, obj'[o], OffsIn(cleaners', o), Ended(o, obj'[o], reuse'.vec))
        BY <1>2, <1>4
  <1> QED
      BY <1>3, <1>5 DEF ObjOK

\* An object that somebody uses is not one that the reuse pool may give away.
LEMMA InUseApart ==
    ASSUME ReuseInv, NEW o \in Obj, InUse(o)
    PROVE  /\ obj[o].st = "live" /\ ~Ended(o, obj[o], reuse.vec)
           /\ \A i \in 1..Len(reuse.vec) : i > reuse.use_num => reuse.vec[i] # o
  <1>1. obj[o].st = "live"
        BY DEF InUse
  <1>2. CASE obj[o].how \in {"heap", "pool"}
        BY <1>1, <1>2 DEF ReuseInv, Reusable, Ended
  <1>3. CASE o \in held
    <2>1. PICK i \in 1..reuse.use_num : reuse.vec[i] = o
          BY <1>3 DEF ReuseInv
    <2>2. i \in 1..Len(reuse.vec) /\ i \in Nat /\ ~(i > reuse.use_num)
          BY <2>1 DEF ReuseInv
    <2> QED
        BY <1>1, <2>1, <2>2 DEF ReuseInv, Ended
  <1> QED
      BY <1>2, <1>3 DEF InUse

\* A field is used, or an object is cleared: only objects in use change.
LEMMA ChangeUses ==
    ASSUME UseInv, NEW o \in Obj, Clear(o) \/ \E f \in acc : Use(o, f)
    PROVE  UsedRight'
  <1>1. /\ proc = "up" /\ InUse(o) /\ leaked' = leaked /\ schema' = schema /\ meta' = meta
        /\ cleaners' = cleaners /\ reuse' = reuse /\ held' = held
        BY DEF Clear, Use, schemaVars
  <1>2. /\ NothingLeaks /\ ReuseInv /\ ObjInv /\ DOMAIN obj = Obj
        /\ cleaners \subseteq Obj \X Int /\ \A p \in Obj : ObjOK(p)
        BY <1>1, Before
  <1>3. NothingLeaks'
        BY <1>1, <1>2 DEF NothingLeaks
  <1> SUFFICES ASSUME proc' # "undefined" PROVE ReuseInv' /\ ObjInv'
      BY <1>3 DEF UsedRight
  <1>4. /\ obj[o].st = "live" /\ ~Ended(o, obj[o], reuse.vec) /\ DOMAIN obj[o] = ObjParts
        /\ \A i \in 1..Len(reuse.vec) : i > reuse.use_num => reuse.vec[i] # o
        BY <1>1, <1>2, InUseApart DEF ObjOK
  <1>5. \E m : /\ DOMAIN m = DOMAIN obj[o].mem /\ \A i \in DOMAIN m : m[i] \in {"clean", "dirty"}
               /\ obj'[o] = [obj[o] EXCEPT !.mem = m] /\ DOMAIN obj' = Obj
               /\ \A p \in Obj : p # o => obj'[p] = obj[p]
    <2>1. CASE Clear(o)
      <3> PICK m : m = ClearAll(schema, obj[o].mem)
          OBVIOUS
      <3> PICK cleared : cleared = [x \in {o} |-> ClearAll(schema, obj[x].mem)]
          OBVIOUS
      <3>1. Outcome(\A x \in {o} : /\ AllClean(cleared[x]) /\ Fits(schema, obj[x].cap)
                                   /\ ~WrongPool(schema, "null"), WithMem(cleared))
            BY <2>1 DEF Clear, ClearObjects
      <3>2. AllClean(cleared[o]) /\ obj' = WithMem(cleared)
            BY <3>1 DEF Outcome
      <3>3. cleared[o] = m /\ DOMAIN cleared = {o}
            OBVIOUS
      <3>4. /\ DOMAIN obj' = Obj /\ obj'[o] = [obj[o] EXCEPT !.mem = m]
            /\ \A p \in Obj : p # o => obj'[p] = obj[p]
            BY <3>2, <3>3 DEF WithMem
      <3>5. DOMAIN m = DOMAIN obj[o].mem /\ \A i \in DOMAIN m : m[i] \in {"clean", "dirty"}
            BY <3>2, <3>3 DEF ClearAll, AllClean
      <3> QED
          BY <3>4, <3>5
    <2>2. ASSUME NEW f \in acc, Use(o, f)
          PROVE  \E m : /\ DOMAIN m = DOMAIN obj[o].mem /\ \A i \in DOMAIN m : m[i] \in {"clean", "dirty"}
                       /\ obj'[o] = [obj[o] EXCEPT !.mem = m] /\ DOMAIN obj' = Obj
                       /\ \A p \in Obj : p # o => obj'[p] = obj[p]
      <3> PICK at, mem : at = {i \in DOMAIN obj[o].mem : schema.slots[i].off = f.off} /\ mem = obj[o].mem
          OBVIOUS
      <3> PICK m : m = [i \in DOMAIN mem |-> IF i \in at THEN "dirty" ELSE mem[i]]
          OBVIOUS
      <3>1. /\ AllClean(mem)
            /\ obj' = [obj EXCEPT ![o].mem = [i \in DOMAIN @ |-> IF i \in at THEN "dirty" ELSE @[i]]]
            BY <2>2 DEF Use, Outcome
      <3>2. obj'[o] = [obj[o] EXCEPT !.mem = m] /\ DOMAIN obj' = Obj
            BY <1>2, <3>1
      <3>3. \A p \in Obj : p # o => obj'[p] = obj[p]
            BY <1>2, <3>1
      <3>4. DOMAIN m = DOMAIN obj[o].mem /\ \A i \in DOMAIN m : m[i] \in {"clean", "dirty"}
            BY <3>1 DEF AllClean
      <3> QED
          BY <3>2, <3>3, <3>4
    <2> QED
        BY <2>1, <2>2
  <1>6. PICK m : /\ DOMAIN m = DOMAIN obj[o].mem /\ \A i \in DOMAIN m : m[i] \in {"clean", "dirty"}
                 /\ obj'[o] = [obj[o] EXCEPT !.mem = m] /\ DOMAIN obj' = Obj
                 /\ \A p \in Obj : p # o => obj'[p] = obj[p]
        BY <1>5
  <1>7. /\ ObjOK(o)' /\ obj'[o].st = "live" /\ obj'[o].how = obj[o].how
        /\ obj'[o].pool = obj[o].pool
        BY <1>1, <1>2, <1>4, <1>6, ObjChanged
  <1>8. \A p \in Obj : p # o => ObjOK(p)'
        BY <1>1, <1>2, <1>6, ObjSame
  <1>9. ObjInv'
        BY <1>1, <1>2, <1>6, <1>7, <1>8 DEF ObjInv
  <1>10. \A i \in 1..Len(reuse.vec) : reuse.vec[i] \in Obj
         BY <1>2 DEF ReuseInv
  <1>11. ASSUME NEW i \in 1..Len(reuse.vec)
         PROVE  /\ obj'[reuse.vec[i]].st = "live" /\ obj'[reuse.vec[i]].how \in Reusable
                /\ obj'[reuse.vec[i]].pool = reuse.pool
                /\ i > reuse.use_num => AllClean(obj'[reuse.vec[i]].mem)
    <2>1. /\ obj[reuse.vec[i]].st = "live" /\ obj[reuse.vec[i]].how \in Reusable
          /\ obj[reuse.vec[i]].pool = reuse.pool
          /\ i > reuse.use_num => AllClean(obj[reuse.vec[i]].mem)
          BY <1>2 DEF ReuseInv
    <2> QED
        BY <1>4, <1>6, <1>7, <1>10, <2>1
  <1>12. ReuseInv'
         BY <1>1, <1>2, <1>11 DEF ReuseInv
  <1> QED
      BY <1>9, <1>12

\* reconstruct(): the objects that were given away are clean again, the others
\* still are.
LEMMA ReconstructUses == ASSUME UseInv, Reconstruct PROVE UsedRight'
  <1> PICK os : os = {reuse.vec[i] : i \in 1..reuse.use_num}
      OBVIOUS
  <1> PICK cleared : cleared = [o \in os |-> ClearAll(schema, obj[o].mem)]
      OBVIOUS
  <1>1. /\ proc = "up" /\ leaked' = leaked /\ schema' = schema /\ meta' = meta
        /\ cleaners' = cleaners /\ held' = {} /\ reuse' = [reuse EXCEPT !.use_num = 0]
        BY DEF Reconstruct, schemaVars
  <1>2. /\ NothingLeaks /\ ReuseInv /\ ObjInv /\ DOMAIN obj = Obj
        /\ cleaners \subseteq Obj \X Int /\ \A p \in Obj : ObjOK(p)
        BY <1>1, Before
  <1>3. NothingLeaks'
        BY <1>1, <1>2 DEF NothingLeaks
  <1> SUFFICES ASSUME proc' # "undefined" PROVE ReuseInv' /\ ObjInv'
      BY <1>3 DEF UsedRight
  <1>4. /\ DOMAIN reuse = {"st", "pool", "vec", "use_num"} /\ Len(reuse.vec) \in Nat
        /\ reuse.use_num \in 0..Len(reuse.vec)
        /\ \A i \in 1..Len(reuse.vec) : reuse.vec[i] \in Obj
        BY <1>2 DEF ReuseInv
  <1>5. /\ reuse'.vec = reuse.vec /\ reuse'.use_num = 0 /\ reuse'.st = reuse.st
        /\ reuse'.pool = reuse.pool /\ DOMAIN reuse' = {"st", "pool", "vec", "use_num"}
        BY <1>1, <1>4
  <1>6. /\ \A o \in os : AllClean(cleared[o])
        /\ obj' = WithMem(cleared)
    <2>1. Outcome(\A o \in os : /\ AllClean(cleared[o]) /\ Fits(schema, obj[o].cap)
                                /\ ~WrongPool(schema, reuse.pool), WithMem(cleared))
          BY DEF Reconstruct, ClearObjects
    <2> QED
        BY <2>1 DEF Outcome
  <1>7. DOMAIN obj' = Obj /\ \A o \in Obj : o \notin os => obj'[o] = obj[o]
        BY <1>6 DEF WithMem
  <1>8. ASSUME NEW o \in Obj, o \in os
        PROVE  /\ ObjOK(o)' /\ obj'[o].st = obj[o].st /\ obj'[o].how = obj[o].how
               /\ obj'[o].pool = obj[o].pool /\ AllClean(obj'[o].mem)
    <2> PICK m : m = cleared[o]
        OBVIOUS
    <2>1. PICK i \in 1..reuse.use_num : reuse.vec[i] = o
          BY <1>8
    <2>2. i \in 1..Len(reuse.vec)
          BY <1>4
    <2>3. obj[o].st = "live" /\ ~Ended(o, obj[o], reuse.vec)
          BY <1>2, <2>1, <2>2 DEF ReuseInv, Ended
    <2>4. obj'[o] = [obj[o] EXCEPT !.mem = m] /\ m = ClearAll(schema, obj[o].mem)
          BY <1>6, <1>8 DEF WithMem
    <2>5. AllClean(m) /\ DOMAIN m = DOMAIN obj[o].mem
          BY <1>6, <1>8, <2>4 DEF ClearAll
    <2>6. \A j \in DOMAIN m : m[j] \in {"clean", "dirty"}
          BY <2>5 DEF AllClean
    <2>7. /\ ObjOK(o)' /\ obj'[o].st = "live" /\ obj'[o].how = obj[o].how
          /\ obj'[o].pool = obj[o].pool /\ obj'[o].mem = m
          BY ZenonT(40), <1>1, <1>2, <1>5, <2>3, <2>4, <2>5, <2>6, ObjChanged
    <2> QED
        BY <2>3, <2>5, <2>7
  <1>9. \A o \in Obj : o \notin os => ObjOK(o)'
        BY <1>1, <1>2, <1>5, <1>7, ObjSame
  <1>10. ObjInv'
         BY <1>1, <1>2, <1>7, <1>8, <1>9 DEF ObjInv
  <1>11. ASSUME NEW i \in 1..Len(reuse.vec)
         PROVE  /\ obj'[reuse.vec[i]].st = "live" /\ obj'[reuse.vec[i]].how \in Reusable
                /\ obj'[reuse.vec[i]].pool = reuse.pool /\ AllClean(obj'[reuse.vec[i]].mem)
    <2>1. /\ obj[reuse.vec[i]].st = "live" /\ obj[reuse.vec[i]].how \in Reusable
          /\ obj[reuse.vec[i]].pool = reuse.pool
          /\ i > reuse.use_num => AllClean(obj[reuse.vec[i]].mem)
          BY <1>2 DEF ReuseInv
    <2>2. CASE reuse.vec[i] \in os
          BY <1>4, <1>8, <2>1, <2>2
    <2>3. CASE reuse.vec[i] \notin os
      <3>1. i > reuse.use_num
            BY <1>4, <2>3
      <3> QED
          BY <1>4, <1>7, <2>1, <2>3, <3>1
    <2> QED
        BY <2>2, <2>3
  <1>12. ReuseInv'
         BY <1>1, <1>2, <1>5, <1>11 DEF ReuseInv
  <1> QED
      BY <1>10, <1>12

\* ~ReuseDynamicStructPool destroys the struct's own fields of its objects, or there
\* are none.
LEMMA DestroyedOwn ==
    ASSUME NEW slots, NEW r, NEW q, NEW C, Alive(slots, r, C, FALSE),
           q.how = r.how, q.pool = r.pool, DOMAIN q.mem = DOMAIN r.mem,
           \A i \in DOMAIN r.mem : q.mem[i] = IF Own(DeclOf(slots[i])) THEN "dead" ELSE r.mem[i]
    PROVE  Alive(slots, q, C, TRUE)
  <1>1. ASSUME NEW i \in DOMAIN r.mem
        PROVE  Kept(slots[i], q.mem[i], q.how, C, TRUE)
    <2>1. Kept(slots[i], r.mem[i], r.how, C, FALSE)
          BY DEF Alive
    <2> QED
        BY <2>1 DEF Kept
  <1> QED
      BY <1>1 DEF Alive

LEMMA EndReuseUses == ASSUME UseInv, EndReuse PROVE UsedRight'
  <1>1. /\ proc = "up" /\ leaked' = leaked /\ schema' = schema /\ meta' = meta
        /\ cleaners' = cleaners /\ held' = {} /\ reuse.st = "live"
        /\ reuse' = [reuse EXCEPT !.st = "gone", !.vec = << >>, !.use_num = 0]
        BY DEF EndReuse, schemaVars
  <1>2. /\ NothingLeaks /\ DtorInv /\ ReuseInv /\ ObjInv /\ DOMAIN obj = Obj
        /\ cleaners \subseteq Obj \X Int /\ \A p \in Obj : ObjOK(p)
        BY <1>1, Before
  <1>3. NothingLeaks'
        BY <1>1, <1>2 DEF NothingLeaks
  <1> SUFFICES ASSUME proc' # "undefined" PROVE ReuseInv' /\ ObjInv'
      BY <1>3 DEF UsedRight
  <1>4. /\ DOMAIN reuse = {"st", "pool", "vec", "use_num"} /\ reuse.vec \in Seq(Obj)
        /\ reuse.pool \in {"serial", "arena"}
        BY <1>1, <1>2 DEF ReuseInv
  <1>5. /\ reuse'.vec = << >> /\ reuse'.use_num = 0 /\ reuse'.st = "gone"
        /\ reuse'.pool = reuse.pool /\ DOMAIN reuse' = {"st", "pool", "vec", "use_num"}
        BY <1>1, <1>4
  <1>6. ReuseInv'
        BY <1>1, <1>2, <1>4, <1>5 DEF ReuseInv
  <1> PICK os : os = IF schema.trivDtor THEN {} ELSE ToSet(reuse.vec)
      OBVIOUS
  <1> PICK mem : mem = [o \in os |-> Destroy(schema, obj[o].mem, schema.dtors)]
      OBVIOUS
  <1>7. obj' = WithMem(mem)
    <2>1. Outcome(\A o \in os : WellDestroyed(mem[o], o), WithMem(mem))
          BY DEF EndReuse
    <2> QED
        BY <2>1 DEF Outcome
  <1>8. /\ DOMAIN obj' = Obj /\ DOMAIN mem = os
        /\ \A o \in Obj : obj'[o] = IF o \in os THEN [obj[o] EXCEPT !.mem = mem[o]] ELSE obj[o]
        BY <1>7 DEF WithMem
  <1>9. ASSUME NEW o \in Obj, NEW i \in 1..Len(reuse.vec), reuse.vec[i] = o
        PROVE  ObjOK(o)'
    <2> PICK r, C, slots : r = obj[o] /\ C = OffsIn(cleaners, o) /\ slots = schema.slots
        OBVIOUS
    <2>1. r.st = "live" /\ r.how \in Reusable /\ ~Ended(o, r, reuse.vec)
          BY <1>2, <1>9 DEF ReuseInv, Ended
    <2>2. Alive(slots, r, C, FALSE) /\ DOMAIN r = ObjParts
      <3>1. Ended(o, r, reuse.vec) = FALSE
            BY <2>1
      <3> QED
          BY <1>2, <2>1, <3>1 DEF ObjOK
    <2>3. DOMAIN r.mem \subseteq 1..Len(slots)
          BY <2>2 DEF Alive
    <2> PICK q : q = obj'[o]
        OBVIOUS
    <2>4. /\ DOMAIN q = ObjParts /\ q.st = r.st /\ q.how = r.how /\ q.pool = r.pool
          /\ DOMAIN q.mem = DOMAIN r.mem
          /\ \A j \in DOMAIN r.mem : q.mem[j] = IF Own(DeclOf(slots[j])) THEN "dead" ELSE r.mem[j]
      <3>1. CASE schema.trivDtor
        <4>1. q = r
              BY <1>8, <3>1
        <4>2. \A j \in DOMAIN r.mem : ~Own(DeclOf(slots[j]))
              BY <1>2, <2>3, <3>1 DEF DtorInv, Own
        <4> QED
            BY <2>2, <4>1, <4>2
      <3>2. CASE ~schema.trivDtor
        <4>1. o \in os
              BY <1>4, <1>9, <3>2 DEF ToSet
        <4> PICK m : m = mem[o]
            OBVIOUS
        <4>2. m = Destroy(schema, r.mem, schema.dtors) /\ q = [r EXCEPT !.mem = m]
              BY <1>8, <4>1
        <4>3. ASSUME NEW j \in DOMAIN r.mem
              PROVE  m[j] = IF Own(DeclOf(slots[j])) THEN "dead" ELSE r.mem[j]
          <5>1. slots[j].off \in schema.dtors <=> Own(DeclOf(slots[j]))
                BY <1>2, <2>3 DEF DtorInv
          <5>2. r.mem[j] \in {"clean", "dirty"}
                BY <2>2 DEF Alive, Kept
          <5> QED
              BY <4>2, <5>1, <5>2 DEF Destroy
        <4>4. DOMAIN m = DOMAIN r.mem
              BY <4>2 DEF Destroy
        <4>5. /\ DOMAIN q = ObjParts /\ q.st = r.st /\ q.how = r.how /\ q.pool = r.pool
              /\ q.mem = m
              BY <2>2, <4>2 DEF ObjParts
        <4> QED
            BY <4>3, <4>4, <4>5
      <3> QED
          BY <3>1, <3>2
    <2>5. Alive(slots, q, C, TRUE)
          BY <2>2, <2>4, DestroyedOwn
    <2>6. DOMAIN obj'[o] = ObjParts /\ obj'[o].st = "live" /\ obj'[o].how \in Reusable
          BY <2>1, <2>4, <2>5
    <2>7. Ended(o, obj'[o], reuse'.vec) = TRUE
          BY <1>5, <2>6 DEF Ended
    <2>8. Alive(schema'.slots, obj'[o], OffsIn(cleaners', o), Ended(o, obj'[o], reuse'.vec))
          BY <1>1, <2>5, <2>7
    <2> QED
        BY <2>6, <2>8 DEF ObjOK
  <1>10. ASSUME NEW o \in Obj, \A i \in 1..Len(reuse.vec) : reuse.vec[i] # o
         PROVE  ObjOK(o)'
    <2>1. o \notin os
          BY <1>4, <1>10 DEF ToSet
    <2>2. Ended(o, obj[o], reuse'.vec) <=> Ended(o, obj[o], reuse.vec)
          BY <1>5, <1>10 DEF Ended
    <2> QED
        BY <1>1, <1>2, <1>8, <2>1, <2>2, ObjSame
  <1> QED
      BY <1>1, <1>2, <1>6, <1>8, <1>9, <1>10 DEF ObjInv

\* Fields of an object that is no more and that nobody has destroyed.
LEMMA WhoLeaves ==
    ASSUME NEW os, NEW mem, NEW x \in Leaves(os, mem)
    PROVE  \E o \in os : \E j \in DOMAIN mem[o] :
             /\ x = <<obj[o].how, schema.slots[j].name>> /\ mem[o][j] # "dead"
             /\ ~DeclOf(schema.slots[j]).trivDtor
  BY DEF Leaves, DeclOf

\* Objects that are no more, with what the memory pool knew of them.
LEMMA Gone ==
    ASSUME UseInv, proc = "up", NEW os, os \subseteq Obj, obj' = Without(os), schema' = schema,
           UNCHANGED <<reuse, held, meta>>,
           \A i \in 1..Len(reuse.vec) : reuse.vec[i] \notin os,
           cleaners' \subseteq cleaners,
           \A o \in Obj : OffsIn(cleaners', o) = IF o \in os THEN {} ELSE OffsIn(cleaners, o)
    PROVE  ReuseInv' /\ ObjInv'
  <1>1. /\ ReuseInv /\ ObjInv /\ DOMAIN obj = Obj
        /\ cleaners \subseteq Obj \X Int /\ \A p \in Obj : ObjOK(p)
        BY Before
  <1>2. /\ DOMAIN obj' = Obj /\ \A o \in Obj : o \notin os => obj'[o] = obj[o]
        /\ \A o \in os : DOMAIN obj'[o] = ObjParts /\ obj'[o].st = "none"
        BY DEF Without, NoObj, ObjParts
  <1>3. \A o \in os : ObjOK(o)'
        BY <1>2 DEF ObjOK
  <1>4. \A o \in Obj : o \notin os => ObjOK(o)'
        BY <1>1, <1>2, ObjSame
  <1>5. \A i \in 1..Len(reuse.vec) : reuse.vec[i] \in Obj /\ obj'[reuse.vec[i]] = obj[reuse.vec[i]]
        BY <1>1, <1>2 DEF ReuseInv
  <1>6. ReuseInv'
        BY <1>1, <1>5 DEF ReuseInv
  <1> QED
      BY <1>1, <1>2, <1>3, <1>4, <1>6 DEF ObjInv

\* Destruction on the heap: fields in a memory pool cannot be there.
LEMMA DeleteUses == ASSUME UseInv, NEW o \in Obj, Delete(o) PROVE UsedRight'
  <1> PICK m, r, slots : m = Destroy(schema, obj[o].mem, schema.dtors) /\ r = obj[o]
                         /\ slots = schema.slots
      OBVIOUS
  <1>1. /\ proc = "up" /\ r.st = "live" /\ r.how = "heap" /\ schema' = schema
        /\ UNCHANGED <<cleaners, reuse, held, meta>>
        /\ leaked' = leaked \cup Leaves({o}, [x \in {o} |-> m])
        /\ proc' # "undefined" => obj' = Without({o})
        BY DEF Delete, schemaVars, Outcome
  <1>2. /\ NothingLeaks /\ DtorInv /\ ReuseInv /\ ObjOK(o) /\ PlacesDiffer(slots)
        BY <1>1, Before
  <1>3. ~Ended(o, r, reuse.vec) /\ Ended(o, r, reuse.vec) = FALSE
        BY <1>1 DEF Ended, Reusable
  <1>4. Alive(slots, r, OffsIn(cleaners, o), FALSE)
        BY <1>1, <1>2, <1>3 DEF ObjOK
  <1>5. DOMAIN m = DOMAIN r.mem /\ DOMAIN r.mem \subseteq 1..Len(slots)
        BY <1>4 DEF Destroy, Alive
  <1>6. ASSUME NEW j \in DOMAIN m, ~DeclOf(slots[j]).trivDtor PROVE m[j] = "dead"
    <2>1. /\ DeclOf(slots[j]).trivial \/ DeclOf(slots[j]).arena = "void"
          /\ r.mem[j] \in {"clean", "dirty"}
          BY <1>1, <1>4, <1>5 DEF Alive, Kept
    <2>2. DeclOf(slots[j]).trivial => DeclOf(slots[j]).trivDtor
          BY <1>2, <1>5, TypesAssumption DEF PlacesDiffer, DeclOf
    <2>3. slots[j].off \in schema.dtors
          BY <1>2, <1>5, <1>6, <2>1, <2>2 DEF DtorInv, Own
    <2> QED
        BY <1>5, <2>1, <2>3 DEF Destroy
  <1>7. Leaves({o}, [x \in {o} |-> m]) = {}
    <2> SUFFICES ASSUME NEW x \in Leaves({o}, [y \in {o} |-> m]) PROVE FALSE
        OBVIOUS
    <2>1. PICK p \in {o} : \E j \in DOMAIN [y \in {o} |-> m][p] :
             /\ [y \in {o} |-> m][p][j] # "dead" /\ ~DeclOf(slots[j]).trivDtor
          BY WhoLeaves
    <2>2. [y \in {o} |-> m][p] = m
          OBVIOUS
    <2> QED
        BY <1>6, <2>1, <2>2
  <1>8. NothingLeaks'
        BY <1>1, <1>2, <1>7 DEF NothingLeaks
  <1>9. ASSUME proc' # "undefined" PROVE ReuseInv' /\ ObjInv'
    <2>1. OffsIn(cleaners, o) = {}
          BY <1>1, <1>4 DEF Alive
    <2>2. \A i \in 1..Len(reuse.vec) : reuse.vec[i] \notin {o}
          BY <1>1, <1>2 DEF ReuseInv, Reusable
    <2>3. \A p \in Obj : OffsIn(cleaners', p) = IF p \in {o} THEN {} ELSE OffsIn(cleaners, p)
          BY <1>1, <2>1
    <2> QED
        BY <1>1, <1>9, <2>2, <2>3, Gone
  <1> QED
      BY <1>8, <1>9 DEF UsedRight

\* The end of a memory pool: its cleaners destroy what is in the pool, ~DynamicStruct
\* or ~ReuseDynamicStructPool the rest, except for what was rebuilt from metadata.
LEMMA LeftInPool ==
    ASSUME UseInv, proc = "up", NEW pool \in {"serial", "arena"}, NEW o \in Obj,
           obj[o].st = "live", obj[o].pool = pool, ~(reuse.st = "live" /\ reuse.pool = pool),
           NEW m, NEW w,
           m = Destroy(schema, obj[o].mem, OffsIn(cleaners, o)),
           w = IF Whole \in OffsIn(cleaners, o) THEN Destroy(schema, m, schema.dtors) ELSE m,
           NEW j \in DOMAIN w, w[j] # "dead", ~DeclOf(schema.slots[j]).trivDtor
    PROVE  obj[o].how = "rebuilt" /\ DeclOf(schema.slots[j]).meta
  <1> PICK r, C, slots, e : r = obj[o] /\ C = OffsIn(cleaners, o) /\ slots = schema.slots
                            /\ e = Ended(o, obj[o], reuse.vec)
      OBVIOUS
  <1>1. DtorInv /\ ReuseInv /\ Alive(slots, r, C, e)
        BY Before DEF ObjOK
  <1>2. /\ DOMAIN m = DOMAIN r.mem /\ DOMAIN w = DOMAIN r.mem /\ DOMAIN r.mem \subseteq 1..Len(slots)
        BY <1>1 DEF Destroy, Alive
  <1> PICK d, st, s : d = DeclOf(slots[j]) /\ st = r.mem[j] /\ s = slots[j]
      OBVIOUS
  <1>3. r.how \in {"pool", "reuse", "rebuilt"} /\ (Whole \in C <=> r.how = "pool")
        BY <1>1 DEF Alive
  <1>4. r.how \in Reusable => e = TRUE
    <2>1. \A i \in 1..Len(reuse.vec) : reuse.vec[i] # o
      <3>1. SUFFICES ASSUME NEW i \in 1..Len(reuse.vec), reuse.vec[i] = o PROVE FALSE
            OBVIOUS
      <3>2. reuse.vec # << >>
            BY <3>1
      <3> QED
          BY <1>1, <3>1, <3>2 DEF ReuseInv
    <2> QED
        BY <2>1 DEF Ended
  <1>5. r.how \notin Reusable => e = FALSE
        BY DEF Ended
  <1>6. /\ s.off \in C <=> ByPool(d, r.how)
        /\ st \in IF e /\ Own(d) THEN {"dead"} ELSE {"clean", "dirty"}
        BY <1>1, <1>2, <1>3 DEF Alive, Kept
  <1>7. s.off \in schema.dtors <=> Own(d)
        BY <1>1, <1>2 DEF DtorInv
  <1>8. /\ m[j] = IF s.off \notin C THEN st ELSE IF st \in {"clean", "dirty"} THEN "dead" ELSE "torn"
        /\ w[j] = IF Whole \in C
                    THEN IF s.off \notin schema.dtors THEN m[j]
                         ELSE IF m[j] \in {"clean", "dirty"} THEN "dead" ELSE "torn"
                    ELSE m[j]
        BY <1>2 DEF Destroy
  <1>9. ~ByPool(d, r.how)
        BY <1>6, <1>7, <1>8 DEF ByPool, Own
  <1>10. ~Own(d)
         BY <1>3, <1>4, <1>5, <1>6, <1>7, <1>8, <1>9 DEF Reusable
  <1> QED
      BY <1>9, <1>10 DEF ByPool, Own

LEMMA EndOfPoolUses ==
    ASSUME UseInv, NEW pool \in {"serial", "arena"}, EndOfPool(pool) PROVE UsedRight'
  <1> PICK os : os = {o \in Obj : obj[o].st = "live" /\ obj[o].pool = pool}
      OBVIOUS
  <1> PICK mem : mem = [o \in os |->
                  LET m == Destroy(schema, obj[o].mem, OffsIn(cleaners, o)) IN
                    IF Whole \in OffsIn(cleaners, o) THEN Destroy(schema, m, schema.dtors) ELSE m]
      OBVIOUS
  <1>1. /\ proc = "up" /\ schema' = schema /\ UNCHANGED <<reuse, held, meta>>
        /\ ~(reuse.st = "live" /\ reuse.pool = pool)
        /\ leaked' = leaked \cup Leaves(os, mem)
        /\ cleaners' = {c \in cleaners : c[1] \notin os}
        /\ proc' # "undefined" => obj' = Without(os)
        BY DEF EndOfPool, schemaVars, Outcome, OffsIn
  <1>2. NothingLeaks /\ ReuseInv
        BY <1>1, Before
  <1>3. ASSUME NEW x \in Leaves(os, mem) PROVE x[1] = "rebuilt" /\ Decl[x[2]].meta
    <2>1. PICK o \in os : \E j \in DOMAIN mem[o] :
             /\ x = <<obj[o].how, schema.slots[j].name>> /\ mem[o][j] # "dead"
             /\ ~DeclOf(schema.slots[j]).trivDtor
          BY <1>3, WhoLeaves
    <2>2. PICK j \in DOMAIN mem[o] :
             /\ x = <<obj[o].how, schema.slots[j].name>> /\ mem[o][j] # "dead"
             /\ ~DeclOf(schema.slots[j]).trivDtor
          BY <2>1
    <2>3. o \in Obj /\ obj[o].st = "live" /\ obj[o].pool = pool
          OBVIOUS
    <2> PICK m, w : m = Destroy(schema, obj[o].mem, OffsIn(cleaners, o)) /\ w = mem[o]
        OBVIOUS
    <2>4. w = IF Whole \in OffsIn(cleaners, o) THEN Destroy(schema, m, schema.dtors) ELSE m
          OBVIOUS
    <2>5. obj[o].how = "rebuilt" /\ DeclOf(schema.slots[j]).meta
          BY <1>1, <2>2, <2>3, <2>4, LeftInPool
    <2> QED
        BY <2>2, <2>5 DEF DeclOf
  <1>4. NothingLeaks'
        BY <1>1, <1>2, <1>3 DEF NothingLeaks
  <1>5. ASSUME proc' # "undefined" PROVE ReuseInv' /\ ObjInv'
    <2>1. \A i \in 1..Len(reuse.vec) : reuse.vec[i] \notin os
      <3> SUFFICES ASSUME NEW i \in 1..Len(reuse.vec), reuse.vec[i] \in os PROVE FALSE
          OBVIOUS
      <3>1. reuse.vec # << >>
            OBVIOUS
      <3> QED
          BY <1>1, <1>2, <3>1 DEF ReuseInv
    <2>2. \A o \in Obj : OffsIn(cleaners', o) = IF o \in os THEN {} ELSE OffsIn(cleaners, o)
          BY <1>1, OffsDropped
    <2>3. cleaners' \subseteq cleaners /\ os \subseteq Obj
          BY <1>1
    <2> QED
        BY <1>1, <1>5, <2>1, <2>2, <2>3, Gone
  <1> QED
      BY <1>4, <1>5 DEF UsedRight

\* A reuse pool is built from metadata.
LEMMA RebuildUses == ASSUME UseInv, Rebuild PROVE UsedRight'
  <1>p. PICK pool : pool = reuse.pool
        OBVIOUS
  <1>1. /\ proc = "up" /\ leaked' = leaked /\ schema' = schema /\ meta' = meta
        /\ held' = held /\ reuse.st = "gone"
        BY DEF Rebuild, schemaVars
  <1>2. PICK vec \in [1..meta.size -> {o \in Obj : obj[o].st = "none"}] :
          /\ IsInjective(vec)
          /\ obj' = [o \in Obj |-> IF o \in ToSet(vec) THEN Made("rebuilt", pool) ELSE obj[o]]
          /\ cleaners' = cleaners \cup (ToSet(vec) \X InPool(schema, "rebuilt"))
          /\ reuse' = [st |-> "live", pool |-> pool, vec |-> vec, use_num |-> 0]
          /\ \E base \in Bases(pool) :
               proc' = IF ToSet(vec) = {} \/ (WellMade(pool, base) /\ MetadataFound(schema, meta.n))
                         THEN "up" ELSE "undefined"
        BY <1>p DEF Rebuild
  <1>3. /\ LayoutInv /\ NothingLeaks /\ ReuseInv /\ ObjInv /\ DOMAIN obj = Obj
        /\ cleaners \subseteq Obj \X Int /\ \A p \in Obj : ObjOK(p)
        BY <1>1, Before
  <1>4. NothingLeaks'
        BY <1>1, <1>3 DEF NothingLeaks
  <1> SUFFICES ASSUME proc' # "undefined" PROVE ReuseInv' /\ ObjInv'
      BY <1>4 DEF UsedRight
  <1>5. /\ meta.size \in Nat /\ pool \in {"serial", "arena"} /\ reuse.vec = << >> /\ reuse.use_num = 0
        BY <1>1, <1>3, <1>p DEF ReuseInv
  <1>6. held = {}
        BY <1>3, <1>5 DEF ReuseInv
  <1>7. /\ vec \in Seq(Obj) /\ Len(vec) = meta.size /\ DOMAIN vec = 1..meta.size
        /\ \A i \in 1..meta.size : vec[i] \in Obj /\ obj[vec[i]].st = "none"
        BY <1>2, <1>5
  <1>8. \A i, j \in 1..meta.size : vec[i] = vec[j] => i = j
        BY <1>2, <1>7 DEF IsInjective
  <1>9. /\ reuse'.st = "live" /\ reuse'.pool = pool /\ reuse'.vec = vec /\ reuse'.use_num = 0
        /\ DOMAIN reuse' = {"st", "pool", "vec", "use_num"}
        BY <1>2
  <1>o. PICK os : os = ToSet(vec)
        OBVIOUS
  <1>10. /\ os \subseteq Obj /\ \A o \in os : obj[o].st = "none"
         /\ \A o : o \in os <=> \E i \in 1..Len(vec) : vec[i] = o
         BY <1>7, <1>o DEF ToSet
  <1>11. os # {} => ~WrongPool(schema, pool) /\ AllClean(ConstructAll(schema))
         BY <1>2, <1>o DEF WellMade
  <1>x. PICK X : X = InPool(schema, "rebuilt")
        OBVIOUS
  <1>12. X \subseteq Nat
         BY <1>3, <1>x, InPoolOffs
  <1>13. cleaners' = Added(cleaners, os, X) /\ cleaners' \subseteq Obj \X Int
    <2>1. cleaners' = cleaners \cup (os \X X)
          BY <1>2, <1>o, <1>x
    <2>2. cleaners' \subseteq Obj \X Int
      <3>1. \A o \in os, x \in X : o \in Obj /\ x \in Int
            BY <1>10, <1>12
      <3>2. os \X X \subseteq Obj \X Int
            BY <3>1
      <3> QED
          BY <1>3, <2>1, <3>2
    <2> QED
        BY <2>1, <2>2 DEF Added
  <1>14. /\ DOMAIN obj' = Obj
         /\ \A o \in os : obj'[o] = Made("rebuilt", pool)
         /\ \A o \in Obj : o \notin os => obj'[o] = obj[o]
         BY <1>2, <1>o, <1>10
  <1>15. ASSUME NEW o \in os
         PROVE  /\ ObjOK(o)' /\ obj'[o].st = "live" /\ obj'[o].how = "rebuilt" /\ obj'[o].pool = pool
                /\ AllClean(obj'[o].mem)
    <2>1. o \in Obj /\ OffsIn(cleaners, o) = {}
          BY <1>3, <1>10 DEF ObjOK
    <2>2. OffsIn(cleaners', o) = X
          BY <1>13, <2>1, OffsAdded
    <2>3. OffsIn(cleaners', o) = IF "rebuilt" = "heap" THEN {}
              ELSE InPool(schema, "rebuilt") \cup (IF "rebuilt" = "pool" THEN {Whole} ELSE {})
          BY <1>x, <2>2
    <2>4. "rebuilt" = "heap" <=> pool = "null"
          BY <1>5
    <2>5. \E i \in 1..Len(reuse'.vec) : reuse'.vec[i] = o
          BY <1>9, <1>10
    <2>6. ~WrongPool(schema, pool) /\ AllClean(ConstructAll(schema)) /\ obj'[o] = Made("rebuilt", pool)
          BY <1>11, <1>14, <1>15
    <2> QED
        BY <1>1, <1>3, <2>1, <2>3, <2>4, <2>5, <2>6, ObjNew
  <1>16. ASSUME NEW o \in Obj, o \notin os PROVE ObjOK(o)'
    <2>1. OffsIn(cleaners', o) = OffsIn(cleaners, o)
          BY <1>13, <1>16, OffsAdded
    <2>2. Ended(o, obj[o], reuse'.vec) <=> Ended(o, obj[o], reuse.vec)
          BY <1>5, <1>9, <1>10, <1>16 DEF Ended
    <2> QED
        BY <1>1, <1>3, <1>14, <1>16, <2>1, <2>2, ObjSame
  <1>17. ObjInv'
         BY <1>13, <1>14, <1>15, <1>16 DEF ObjInv
  <1>18. \A i \in 1..Len(vec) :
           /\ obj'[vec[i]].st = "live" /\ obj'[vec[i]].how \in Reusable
           /\ obj'[vec[i]].pool = pool /\ AllClean(obj'[vec[i]].mem)
         BY <1>10, <1>15 DEF Reusable
  <1>19. ReuseInv'
         BY <1>1, <1>5, <1>6, <1>7, <1>8, <1>9, <1>18 DEF ReuseInv
  <1> QED
      BY <1>17, <1>19

LEMMA UseNext == UseInv /\ [Next]_vars => UseInv'
  <1> SUFFICES ASSUME UseInv, [Next]_vars PROVE UseInv'
      OBVIOUS
  <1>1. LayoutInv'
        BY NextKeeps DEF UseInv
  <1>2. CASE RegisterMember \/ MemberEnd \/ \E t \in Thread : RegisterField(t)
        BY <1>1, <1>2, SchemaSteps DEF UseInv
  <1>3. CASE Application
    <2>1. CASE AppRace
      <3>1. Crash
            BY <2>1 DEF AppRace
      <3> QED
          BY <1>1, <3>1, StopUses DEF Crash, UseInv, UsedRight
    <2>2. CASE ~AppRace
      <3>1. UsedRight'
            BY <1>3, <2>2, MakeUses, GetNewUses, PoolUses, ChangeUses, ReconstructUses,
               EndReuseUses, DeleteUses, EndOfPoolUses, RebuildUses DEF Application
      <3>2. schema' = schema
        <4> USE DEF schemaVars, Outcome, ClearObjects
        <4>1. CASE GetOld \/ UpdateMetadata \/ EndReuse \/ Reconstruct
              BY <4>1 DEF GetOld, UpdateMetadata, EndReuse, Reconstruct
        <4>2. CASE Rebuild
              BY <4>2 DEF Rebuild
        <4>3. CASE \E o \in Obj : Create(o) \/ GetNew(o)
              BY <4>3 DEF Create, GetNew, Make
        <4>4. CASE \E o \in Obj : Clear(o) \/ Delete(o) \/ (\E f \in acc : Use(o, f))
              BY <4>4 DEF Clear, Delete, Use
        <4>5. CASE \E pool \in {"serial", "arena"} :
                     NewReuse(pool) \/ EndOfPool(pool) \/ (\E o \in Obj : CreateWithPool(o, pool))
              BY <4>5 DEF NewReuse, EndOfPool, CreateWithPool, Make
        <4> QED
            BY <1>3, <2>2, <4>1, <4>2, <4>3, <4>4, <4>5 DEF Application
      <3>3. DtorInv'
            BY <3>2 DEF UseInv, DtorInv
      <3> QED
          BY <1>1, <3>1, <3>3 DEF UseInv
    <2> QED
        BY <2>1, <2>2
  <1>4. CASE UNCHANGED vars
    <2> USE <1>4 DEF vars, schemaVars, useVars
    <2>1. DtorInv' /\ NothingLeaks'
          BY DEF UseInv, UsedRight, DtorInv, NothingLeaks
    <2>2. ReuseInv' = ReuseInv
          BY DEF ReuseInv
    <2>3. ObjInv' = ObjInv
          BY DEF ObjInv, ObjOK
    <2> QED
        BY <1>1, <2>1, <2>2, <2>3 DEF UseInv, UsedRight
  <1>5. ASSUME NEW n \in Name, GetField(n), ~ UNCHANGED vars PROVE UseInv'
    <2>1. CASE n \in DOMAIN schema.map
      <3>1. proc = "up" /\ UNCHANGED <<proc, schema, useVars>>
            BY <1>5, <2>1 DEF GetField
      <3>2. DtorInv' /\ NothingLeaks'
            BY <3>1 DEF UseInv, UsedRight, DtorInv, NothingLeaks, useVars
      <3>3. ReuseInv' = ReuseInv
            BY <3>1 DEF ReuseInv, useVars
      <3>4. ObjInv' = ObjInv
            BY <3>1 DEF ObjInv, ObjOK, useVars
      <3> QED
          BY <1>1, <3>1, <3>2, <3>3, <3>4 DEF UseInv, UsedRight
    <2>2. CASE n \notin DOMAIN schema.map
      <3>1. Stop("aborted")
            BY <1>5, <2>2 DEF GetField
      <3> QED
          BY <1>1, <3>1, StopUses DEF UseInv, UsedRight
    <2> QED
        BY <2>1, <2>2
  <1> QED
      BY <1>2, <1>3, <1>4, <1>5 DEF Next

LEMMA UseInvHolds == Spec => []UseInv
  BY UseInit, UseNext, PTL DEF Spec
--------------------------------------------------------------------------------
\* get() of the reuse pool gives away neither an object that somebody has nor one
\* with traces of its last user, for any number of objects and whatever fields are
\* registered in between (get, reconstruct).
THEOREM ReuseClean == Spec => []ReuseIsClean
  <1>1. ASSUME UseInv PROVE ReuseIsClean
    <2> SUFFICES ASSUME proc = "up", reuse.st = "live"
                 PROVE  /\ IsInjective(reuse.vec)
                        /\ \A i \in (reuse.use_num + 1)..Len(reuse.vec) :
                             reuse.vec[i] \notin held /\ AllClean(obj[reuse.vec[i]].mem)
        BY DEF ReuseIsClean
    <2>1. ReuseInv
          BY <1>1 DEF UseInv, UsedRight
    <2>2. /\ DOMAIN reuse.vec = 1..Len(reuse.vec) /\ Len(reuse.vec) \in Nat
          /\ reuse.use_num \in 0..Len(reuse.vec)
          BY <2>1 DEF ReuseInv
    <2>3. IsInjective(reuse.vec)
          BY <2>1, <2>2 DEF ReuseInv, IsInjective
    <2>4. ASSUME NEW i \in (reuse.use_num + 1)..Len(reuse.vec)
          PROVE  reuse.vec[i] \notin held /\ AllClean(obj[reuse.vec[i]].mem)
      <3>1. i \in 1..Len(reuse.vec) /\ i > reuse.use_num /\ i \notin 1..reuse.use_num
            BY <2>2
      <3>2. \A j \in 1..reuse.use_num : j \in 1..Len(reuse.vec)
            BY <2>2
      <3> QED
          BY <2>1, <3>1, <3>2 DEF ReuseInv
    <2> QED
        BY <2>3, <2>4
  <1> QED
      BY <1>1, UseInvHolds, PTL

\* Every field is destroyed with its object, by ~DynamicStruct, by the reuse pool or
\* by the memory pool, for any types, pools and orders of registration and use;
\* except for fields that were rebuilt from metadata.
THEOREM AllDestroyed == Spec => []NothingLeaks
  <1>1. UseInv => NothingLeaks
        BY DEF UseInv, UsedRight
  <1> QED
      BY <1>1, UseInvHolds, PTL
--------------------------------------------------------------------------------
(* What the hooks of an orderly schema do to the memory of an object. *)

\* A schema whose fields are registered in the order in which they lie, and that is
\* smaller than what a size_t can count.
LayoutFits == schema.size <= Word
Orderly == LayoutInv /\ FieldInv /\ proc # "static" /\ ~Disordered /\ LayoutFits

LEMMA Slots ==
    ASSUME LayoutInv, NEW i \in 1..Len(schema.slots)
    PROVE  /\ schema.slots[i].off \in Nat /\ schema.slots[i].name \in Name
           /\ End(schema.slots[i]) \in Nat /\ schema.slots[i].off < End(schema.slots[i])
  <1>1. schema.slots[i] \in Slot
        BY DEF LayoutInv, SchemaInv
  <1>2. schema.slots[i].off \in Nat /\ schema.slots[i].name \in Name
        BY <1>1 DEF Slot
  <1> QED
      BY <1>2, Ends

LEMMA Sorted ==
    ASSUME Orderly, NEW i \in 1..Len(schema.slots), NEW j \in 1..Len(schema.slots), i < j
    PROVE  End(schema.slots[i]) <= schema.slots[j].off
  <1>1. PICK s, r : s = schema.slots[i] /\ r = schema.slots[j]
        OBVIOUS
  <1>2. /\ s.off \in Nat /\ End(s) \in Nat /\ s.off < End(s)
        /\ r.off \in Nat /\ End(r) \in Nat /\ r.off < End(r)
        BY <1>1, Slots DEF Orderly
  <1>3. Apart(s, r)
        BY <1>1 DEF Orderly, LayoutInv, SchemaInv
  <1>4. ~(r.off < s.off)
    <2>1. DOMAIN schema.slots = 1..Len(schema.slots)
          BY DEF Orderly, LayoutInv, SchemaInv
    <2> QED
        BY <1>1, <2>1 DEF Orderly, Disordered
  <1> QED
      BY <1>1, <1>2, <1>3, <1>4 DEF Apart

\* Hook k covers its slots, and ends where the last of them ends.
Reaches(h, i, j) ==
    /\ i \in 1..Len(schema.slots) /\ j \in 1..Len(schema.slots) /\ i <= j
    /\ h.off = schema.slots[i].off /\ h.off \in Nat /\ h.size \in Nat /\ h.zero \in BOOLEAN
    /\ h.off + h.size = End(schema.slots[j])
    /\ h.zero => \A l \in i..j : DeclOf(schema.slots[l]).trivial
    /\ ~h.zero => i = j
LEMMA HookReaches ==
    ASSUME Orderly, NEW first, Spans(schema.slots, schema.hooks, first), NEW k \in 1..Len(schema.hooks)
    PROVE  Reaches(schema.hooks[k], first[k], first[k + 1] - 1)
  <1>1. PICK h, i, j, K, N : /\ h = schema.hooks[k] /\ i = first[k] /\ j = first[k + 1] - 1
                             /\ K = Len(schema.hooks) /\ N = Len(schema.slots)
        OBVIOUS
  <1>2. K \in Nat /\ N \in Nat /\ h \in Hook
        BY <1>1 DEF Orderly, LayoutInv, SchemaInv, FieldInv, HooksOK
  <1>3. i \in 1..N /\ j \in 1..N /\ i <= j
        BY <1>1, <1>2, DividedIn DEF Spans
  <1>4. Hooked(schema.slots, h, i, j)
        BY <1>1 DEF Spans
  <1>5. PICK s, r : s = schema.slots[i] /\ r = schema.slots[j]
        OBVIOUS
  <1>6. /\ s.off \in Nat /\ End(s) \in Nat /\ s.off < End(s)
        /\ r.off \in Nat /\ End(r) \in Nat /\ r.off < End(r)
        BY <1>1, <1>3, <1>5, Slots DEF Orderly
  <1>7. s.off <= r.off
    <2>1. i < j => End(s) <= r.off
          BY <1>1, <1>3, <1>5, Sorted
    <2> QED
        BY <1>3, <1>5, <1>6, <2>1
  <1>8. End(r) - s.off \in Nat /\ End(r) - s.off < Word
    <2>1. End(r) + MetaSize <= schema.unaligned /\ schema.unaligned <= schema.size
          BY <1>1, <1>3, <1>5 DEF Orderly, LayoutInv, SchemaInv
    <2>2. /\ schema.unaligned \in Nat /\ schema.size \in Nat /\ schema.size <= Word
          /\ MetaSize \in Nat \ {0} /\ Word \in Nat
          BY MetaAssumption, WordAssumption DEF Orderly, LayoutInv, SchemaInv, LayoutFits
    <2>3. PICK e, x : e = End(r) /\ x = s.off
          OBVIOUS
    <2>4. e \in Nat /\ x \in Nat /\ x < e
          BY <1>6, <1>7, <2>3
    <2>5. e < Word
          BY <2>1, <2>2, <2>3, <2>4
    <2>6. e - x \in Nat /\ e - x < Word
          BY <2>2, <2>4, <2>5
    <2> QED
        BY <2>3, <2>6
  <1>9. h.size = End(r) - s.off
    <2>1. Word \in Nat \ {0}
          BY WordAssumption
    <2>2. h.size = (End(r) - s.off) % Word
          BY <1>4, <1>5 DEF Hooked
    <2> QED
        BY <1>8, <2>1, <2>2, ModSmall
  <1>10. h.off = s.off /\ h.off \in Nat /\ h.size \in Nat /\ h.zero \in BOOLEAN
         BY <1>2, <1>4, <1>5, <1>6, <1>8, <1>9 DEF Hooked, Hook
  <1>11. h.off + h.size = End(r)
         BY <1>6, <1>9, <1>10
  <1>12. Reaches(h, i, j)
         BY <1>1, <1>3, <1>4, <1>5, <1>10, <1>11 DEF Reaches, Hooked
  <1> QED
      BY <1>1, <1>12

\* It does nothing to the other slots ...
LEMMA LeavesOthers ==
    ASSUME Orderly, NEW h, NEW i, NEW j, Reaches(h, i, j),
           NEW l \in 1..Len(schema.slots), l < i \/ j < l, NEW st
    PROVE  ConstructSlot(h, schema.slots[l], st) = st /\ ReconstructSlot(h, schema.slots[l], st) = st
  <1>1. PICK s : s = schema.slots[l]
        OBVIOUS
  <1>2. s.off \in Nat /\ End(s) \in Nat /\ s.off < End(s)
        BY <1>1, Slots DEF Orderly
  <1>3. PICK a, b : a = schema.slots[i] /\ b = schema.slots[j]
        OBVIOUS
  <1>4. /\ a.off \in Nat /\ End(a) \in Nat /\ a.off < End(a)
        /\ b.off \in Nat /\ End(b) \in Nat /\ b.off < End(b)
        BY <1>3, Slots DEF Orderly, Reaches
  <1>5. End(s) <= h.off \/ h.off + h.size <= s.off
    <2>1. CASE l < i
      <3>1. End(s) <= a.off
            BY <1>1, <1>3, <2>1, Sorted DEF Reaches
      <3> QED
          BY <1>3, <3>1 DEF Reaches
    <2>2. CASE j < l
      <3>1. End(b) <= s.off
            BY <1>1, <1>3, <2>2, Sorted DEF Reaches
      <3> QED
          BY <1>3, <3>1 DEF Reaches
    <2> QED
        BY <2>1, <2>2
  <1>6. ~Meets(h, s)
    <2>1. h.off \in Nat /\ h.size \in Nat
          BY DEF Reaches
    <2>2. ~(h.off < End(s) /\ s.off < h.off + h.size)
          BY <1>2, <1>5, <2>1
    <2> QED
        BY <2>2 DEF Meets, End
  <1>7. h.off # s.off
    <2>1. CASE l < i
      <3>1. End(s) <= a.off
            BY <1>1, <1>3, <2>1, Sorted DEF Reaches
      <3> QED
          BY <1>2, <1>3, <1>4, <3>1 DEF Reaches
    <2>2. CASE j < l
      <3>1. End(b) <= s.off
            BY <1>1, <1>3, <2>2, Sorted DEF Reaches
      <3>2. a.off <= b.off
        <4>1. i < j => End(a) <= b.off
              BY <1>3, Sorted DEF Reaches
        <4>2. i < j \/ i = j
              BY DEF Reaches
        <4> QED
            BY <1>3, <1>4, <4>1, <4>2
      <3> QED
          BY <1>2, <1>3, <1>4, <3>1, <3>2 DEF Reaches
    <2> QED
        BY <2>1, <2>2
  <1>8. FillWithZero(h, s, st) = st
        BY <1>6 DEF FillWithZero
  <1> QED
      BY <1>1, <1>7, <1>8 DEF ConstructSlot, ReconstructSlot

\* ... and makes its own clean.
LEMMA CleansOwn ==
    ASSUME Orderly, NEW h, NEW i, NEW j, Reaches(h, i, j), NEW l \in i..j
    PROVE  /\ ConstructSlot(h, schema.slots[l], "raw") = "clean"
           /\ \A st \in {"clean", "dirty"} : ReconstructSlot(h, schema.slots[l], st) = "clean"
  <1>1. PICK s : s = schema.slots[l]
        OBVIOUS
  <1>0. l \in 1..Len(schema.slots)
    <2>1. i \in 1..Len(schema.slots) /\ j \in 1..Len(schema.slots)
          BY DEF Reaches
    <2> QED
        BY <2>1
  <1>2. s.off \in Nat /\ End(s) \in Nat /\ s.off < End(s)
        BY <1>0, <1>1, Slots DEF Orderly
  <1>3. PICK a, b : a = schema.slots[i] /\ b = schema.slots[j]
        OBVIOUS
  <1>4. /\ a.off \in Nat /\ End(a) \in Nat /\ a.off < End(a)
        /\ b.off \in Nat /\ End(b) \in Nat /\ b.off < End(b)
        BY <1>3, Slots DEF Orderly, Reaches
  <1>5. /\ i \in 1..Len(schema.slots) /\ j \in 1..Len(schema.slots)
        /\ h.off = a.off /\ h.off + h.size = End(b) /\ h.size \in Nat /\ h.zero \in BOOLEAN
        BY <1>3 DEF Reaches
  <1>6. CASE h.zero
    <2>1. Decl[s.name].trivial
          BY <1>1, <1>6 DEF Reaches, DeclOf
    <2>2. a.off <= s.off
      <3>1. i < l => End(a) <= s.off
            BY <1>0, <1>1, <1>3, <1>5, Sorted
      <3>2. i < l \/ i = l
            BY <1>5
      <3> QED
          BY <1>1, <1>2, <1>3, <1>4, <3>1, <3>2
    <2>3. End(s) <= End(b)
      <3>1. l < j => End(s) <= b.off
            BY <1>0, <1>1, <1>3, <1>5, Sorted
      <3>2. l < j \/ l = j
            BY <1>5
      <3> QED
          BY <1>1, <1>2, <1>3, <1>4, <3>1, <3>2
    <2>4. Meets(h, s) /\ Covers(h, s)
      <3>1. h.off < End(s) /\ s.off < h.off + h.size
            BY <1>2, <1>4, <1>5, <2>2, <2>3
      <3>2. h.off <= s.off /\ End(s) <= h.off + h.size
            BY <1>2, <1>4, <1>5, <2>2, <2>3
      <3> QED
          BY <3>1, <3>2 DEF Meets, Covers, End
    <2>5. \A st : FillWithZero(h, s, st) = "clean"
          BY <2>1, <2>4 DEF FillWithZero
    <2> QED
        BY <1>1, <1>6, <2>5 DEF ConstructSlot, ReconstructSlot
  <1>7. CASE ~h.zero
    <2>1. i = l /\ h.off = s.off
      <3>1. i = j
            BY <1>7 DEF Reaches
      <3> QED
          BY <1>1, <1>3, <1>5, <3>1
    <2> QED
        BY <1>1, <1>7, <2>1 DEF ConstructSlot, ReconstructSlot
  <1> QED
      BY <1>5, <1>6, <1>7

\* So all the hooks together construct and clear every slot.
LEMMA TurnsClean ==
    ASSUME Orderly, NEW l \in 1..Len(schema.slots)
    PROVE  /\ InTurn(Constructors(schema, schema.slots[l]), "raw") = "clean"
           /\ \A st \in {"clean", "dirty"} : InTurn(Cleaners(schema, schema.slots[l]), st) = "clean"
  <1>1. PICK s, hooks, K : s = schema.slots[l] /\ hooks = schema.hooks /\ K = Len(schema.hooks)
        OBVIOUS
  <1>2. PICK first : Spans(schema.slots, hooks, first)
        BY <1>1 DEF Orderly, FieldInv, HooksOK
  <1>3. K \in Nat /\ DOMAIN hooks = 1..K /\ Len(schema.slots) \in Nat
        BY <1>1 DEF Orderly, FieldInv, HooksOK, LayoutInv, SchemaInv
  <1>4. PICK p \in 1..K : first[p] <= l /\ l < first[p + 1]
        BY <1>1, <1>2 DEF Spans, Divided
  <1>5. \A k \in 1..K : Reaches(hooks[k], first[k], first[k + 1] - 1)
        BY <1>1, <1>2, HookReaches
  <1>6. \A k \in 1..(K + 1) : first[k] \in Nat
        BY <1>1, <1>2 DEF Spans, Divided
  <1>7. ASSUME NEW k \in 1..K, k # p, NEW st
        PROVE  ConstructSlot(hooks[k], s, st) = st /\ ReconstructSlot(hooks[k], s, st) = st
    <2>1. PICK h, i, j : h = hooks[k] /\ i = first[k] /\ j = first[k + 1] - 1
          OBVIOUS
    <2>2. \A q, m \in 1..(K + 1) : q < m => first[q] < first[m]
          BY <1>1, <1>2 DEF Spans, Divided
    <2>3. l < i \/ j < l
      <3>1. k \in 1..(K + 1) /\ p \in 1..(K + 1) /\ k + 1 \in 1..(K + 1) /\ p + 1 \in 1..(K + 1)
            BY <1>3
      <3>2. CASE k < p
        <4>1. k + 1 = p \/ k + 1 < p
              BY <3>2
        <4>2. first[k + 1] <= first[p]
              BY <1>6, <2>2, <3>1, <4>1
        <4> QED
            BY <1>4, <1>6, <2>1, <3>1, <4>2
      <3>3. CASE p < k
        <4>1. p + 1 = k \/ p + 1 < k
              BY <3>3
        <4>2. first[p + 1] <= first[k]
              BY <1>6, <2>2, <3>1, <4>1
        <4> QED
            BY <1>4, <1>6, <2>1, <3>1, <4>2
      <3> QED
          BY <1>7, <3>2, <3>3
    <2>4. Reaches(h, i, j)
          BY <1>5, <2>1
    <2>5. ConstructSlot(h, schema.slots[l], st) = st /\ ReconstructSlot(h, schema.slots[l], st) = st
          BY <2>3, <2>4, LeavesOthers, SMTT(30)
    <2> QED
        BY <1>1, <2>1, <2>5
  <1>8. /\ ConstructSlot(hooks[p], s, "raw") = "clean"
        /\ \A st \in {"clean", "dirty"} : ReconstructSlot(hooks[p], s, st) = "clean"
    <2>1. PICK h, i, j : h = hooks[p] /\ i = first[p] /\ j = first[p + 1] - 1
          OBVIOUS
    <2>2. l \in i..j
      <3>1. p \in 1..(K + 1) /\ p + 1 \in 1..(K + 1)
            BY <1>3
      <3>2. first[p] \in Nat /\ first[p + 1] \in Nat
            BY <1>6, <3>1
      <3> QED
          BY <1>4, <2>1, <3>2
    <2>3. Reaches(h, i, j)
          BY <1>5, <2>1
    <2>4. /\ ConstructSlot(h, schema.slots[l], "raw") = "clean"
          /\ \A st \in {"clean", "dirty"} : ReconstructSlot(h, schema.slots[l], st) = "clean"
          BY <2>2, <2>3, CleansOwn
    <2> QED
        BY <1>1, <2>1, <2>4
  <1>9. InTurn(Constructors(schema, s), "raw") = "clean"
    <2>1. PICK F : F = Constructors(schema, s)
          OBVIOUS
    <2>2. F = [k \in 1..K |-> [st \in SlotState |-> ConstructSlot(hooks[k], s, st)]]
          BY <1>1, <1>3, <2>1 DEF Constructors
    <2>3. Len(F) = K
          BY <1>3, <2>2
    <2>4. \A k \in 1..K : \A st \in SlotState : F[k][st] = ConstructSlot(hooks[k], s, st)
          BY <2>2
    <2>5. F[p]["raw"] = "clean" /\ \A k \in 1..K : k # p => F[k]["raw"] = "raw" /\ F[k]["clean"] = "clean"
          BY <1>7, <1>8, <2>4 DEF SlotState
    <2>6. PICK st, x : st = "raw" /\ x = "clean"
          OBVIOUS
    <2>7. F[p][st] = x /\ \A k \in 1..K : k # p => F[k][st] = st /\ F[k][x] = x
          BY <2>5, <2>6
    <2>8. InTurn(F, st) = x
      <3>1. Len(F) \in Nat /\ p \in 1..Len(F) /\ F[p][st] = x
            BY <1>3, <2>3, <2>7
      <3>2. \A k \in 1..Len(F) : k < p => F[k][st] = st
            BY <2>3, <2>7
      <3>3. \A k \in 1..Len(F) : k > p => F[k][x] = x
            BY <2>3, <2>7
      <3> QED
          BY <3>1, <3>2, <3>3, InTurnOne, SMTT(20)
    <2> QED
        BY <2>1, <2>6, <2>8
  <1>10. ASSUME NEW st \in {"clean", "dirty"} PROVE InTurn(Cleaners(schema, s), st) = "clean"
    <2>1. PICK F : F = Cleaners(schema, s)
          OBVIOUS
    <2>2. F = [k \in 1..K |-> [x \in SlotState |-> ReconstructSlot(hooks[k], s, x)]]
          BY <1>1, <1>3, <2>1 DEF Cleaners
    <2>3. Len(F) = K
          BY <1>3, <2>2
    <2>4. \A k \in 1..K : \A x \in SlotState : F[k][x] = ReconstructSlot(hooks[k], s, x)
          BY <2>2
    <2>5. F[p][st] = "clean" /\ \A k \in 1..K : k # p => F[k][st] = st /\ F[k]["clean"] = "clean"
          BY <1>7, <1>8, <2>4 DEF SlotState
    <2>6. InTurn(F, st) = "clean"
          BY <1>3, <2>3, <2>5, InTurnOne
    <2> QED
        BY <2>1, <2>6
  <1> QED
      BY <1>1, <1>9, <1>10

LEMMA AllMade == Orderly => AllClean(ConstructAll(schema))
  <1>1. ASSUME Orderly, NEW i \in DOMAIN schema.slots
        PROVE  InTurn(Constructors(schema, schema.slots[i]), "raw") = "clean"
    <2>1. DOMAIN schema.slots = 1..Len(schema.slots)
          BY <1>1 DEF Orderly, LayoutInv, SchemaInv
    <2> QED
        BY <1>1, <2>1, TurnsClean
  <1> QED
      BY <1>1 DEF ConstructAll, AllClean

LEMMA AllCleared ==
    ASSUME Orderly, NEW mem, DOMAIN mem \subseteq 1..Len(schema.slots),
           \A i \in DOMAIN mem : mem[i] \in {"clean", "dirty"}
    PROVE  AllClean(ClearAll(schema, mem))
  <1>1. ASSUME NEW i \in DOMAIN mem
        PROVE  InTurn(Cleaners(schema, schema.slots[i]), mem[i]) = "clean"
    <2>1. PICK st \in {"clean", "dirty"} : st = mem[i]
          OBVIOUS
    <2>2. InTurn(Cleaners(schema, schema.slots[i]), st) = "clean"
          BY TurnsClean
    <2> QED
        BY <2>1, <2>2
  <1> QED
      BY <1>1 DEF ClearAll, AllClean

LEMMA AllFit == Orderly => Fits(schema, schema.size)
  <1> SUFFICES ASSUME Orderly PROVE Fits(schema, schema.size)
      OBVIOUS
  <1>1. PICK first : Spans(schema.slots, schema.hooks, first)
        BY DEF Orderly, FieldInv, HooksOK
  <1>2. DOMAIN schema.hooks = 1..Len(schema.hooks)
        BY DEF Orderly, FieldInv, HooksOK
  <1>3. ASSUME NEW k \in 1..Len(schema.hooks)
        PROVE  schema.hooks[k].off + schema.hooks[k].size <= schema.size - MetaSize
    <2>1. PICK h, j, i : h = schema.hooks[k] /\ i = first[k] /\ j = first[k + 1] - 1
          OBVIOUS
    <2>2. Reaches(h, i, j)
          BY <1>1, <2>1, HookReaches
    <2>3. h.off + h.size = End(schema.slots[j]) /\ j \in 1..Len(schema.slots)
          BY <2>2 DEF Reaches
    <2>4. End(schema.slots[j]) + MetaSize <= schema.unaligned /\ schema.unaligned <= schema.size
          BY <2>3 DEF Orderly, LayoutInv, SchemaInv
    <2>5. schema.unaligned \in Nat /\ schema.size \in Nat /\ MetaSize \in Nat /\ End(schema.slots[j]) \in Nat
          BY <2>3, Slots, MetaAssumption DEF Orderly, LayoutInv, SchemaInv
    <2>6. h.off + h.size <= schema.size - MetaSize
          BY <2>3, <2>4, <2>5
    <2> QED
        BY <2>1, <2>6
  <1> QED
      BY <1>2, <1>3 DEF Fits

\* A type that is not aligned at such an address needs more than a pointer.
LEMMA NotAligned ==
    ASSUME LayoutInv, FieldInv, NEW pool, NEW base \in Bases(pool), ~Aligned(schema, base)
    PROVE  \E i \in DOMAIN schema.slots :
             /\ Decl[schema.slots[i].name].align > MetaSize
             /\ i <= Len(cls.members) \/ pool = "arena"
  <1>1. DOMAIN schema.slots = 1..Len(schema.slots)
        BY DEF LayoutInv, SchemaInv
  <1>2. PICK i \in 1..Len(schema.slots) :
           (base + MetaSize + schema.slots[i].off) % Decl[schema.slots[i].name].align # 0
        BY <1>1 DEF Aligned
  <1>3. PICK s, a : s = schema.slots[i] /\ a = Decl[s.name].align
        OBVIOUS
  <1>4. /\ s.off \in Nat /\ s.name \in Name /\ a \in Nat \ {0} /\ MetaSize \in Nat \ {0}
        /\ (base + MetaSize + s.off) % a # 0
        BY <1>2, <1>3, Slots, DeclAssumption, MetaAssumption DEF Declaration
  <1>5. Aimed(s, i)
        BY <1>3 DEF FieldInv, AlignInv
  <1>6. (base = 0 \/ (base = MetaSize /\ pool = "arena")) /\ base \in Nat
        BY <1>4 DEF Bases
  <1>7. a > MetaSize
    <2> SUFFICES ASSUME a <= MetaSize PROVE FALSE
        BY <1>4
    <2>1. MetaSize % a = 0
          BY <1>3, <1>4, AlignAssumption
    <2>2. (MetaSize + s.off) % a = 0
      <3>1. CASE i <= Len(cls.members)
        <4>1. s.off % a = 0
              BY <1>3, <1>5, <3>1 DEF Aimed, DeclOf
        <4> QED
            BY <1>4, <2>1, <4>1, AddMod
      <3>2. CASE ~(i <= Len(cls.members))
            BY <1>3, <1>5, <3>2 DEF Aimed, DeclOf
      <3> QED
          BY <3>1, <3>2
    <2>3. CASE base = 0
      <3>1. base + MetaSize + s.off = MetaSize + s.off
            BY <1>4, <2>3
      <3> QED
          BY <1>4, <2>2, <3>1
    <2>4. CASE base = MetaSize
      <3>1. PICK x : x = MetaSize + s.off
            OBVIOUS
      <3>2. x \in Nat
            BY <1>4, <3>1
      <3>3. x % a = 0
            BY <2>2, <3>1, Zenon
      <3>4. base + MetaSize + s.off = MetaSize + x
            BY <1>4, <2>4, <3>1
      <3>5. (MetaSize + x) % a = 0
            BY <1>4, <2>1, <3>2, <3>3, AddMod
      <3>6. (base + MetaSize + s.off) % a = 0
            BY <3>4, <3>5, Zenon
      <3> QED
          BY <1>4, <3>6
    <2> QED
        BY <1>6, <2>3, <2>4
  <1>8. i <= Len(cls.members) \/ pool = "arena"
    <2> SUFFICES ASSUME ~(i <= Len(cls.members)), base = 0 PROVE FALSE
        BY <1>6
    <2>1. (MetaSize + s.off) % a = 0
          BY <1>3, <1>5 DEF Aimed, DeclOf
    <2>2. base + MetaSize + s.off = MetaSize + s.off
          BY <1>4
    <2> QED
        BY <1>4, <2>1, <2>2
  <1> QED
      BY <1>1, <1>3, <1>7, <1>8

\* Metadata that are out of step with the constructors are so behind merged fields.
LEMMA FoundOrMerged ==
    ASSUME LayoutInv, FieldInv, NEW n \in Nat, Len(schema.slots) <= n, ~MetadataFound(schema, n)
    PROVE  MergedBefore
  <1>1. PICK slots, hooks, K, N : /\ slots = schema.slots /\ hooks = schema.hooks
                                  /\ K = Len(hooks) /\ N = Len(slots)
        OBVIOUS
  <1>2. PICK first : Spans(slots, hooks, first)
        BY <1>1 DEF FieldInv, HooksOK
  <1>0. PlacesDiffer(slots)
    <2>1. PlacesDiffer(schema.slots)
          BY OffsetsDiffer
    <2> QED
        BY <1>1, <2>1
  <1>3. K \in Nat /\ N \in Nat /\ DOMAIN hooks = 1..K /\ DOMAIN slots = 1..N
    <2>1. N \in Nat /\ DOMAIN slots = 1..N
          BY <1>0, <1>1 DEF PlacesDiffer
    <2>2. schema.hooks \in Seq(Hook)
          BY DEF FieldInv, HooksOK
    <2> QED
        BY <1>1, <2>1, <2>2
  <1>4. Divided(first, K, N) /\ \A k \in 1..K : Hooked(slots, hooks[k], first[k], first[k + 1] - 1)
        BY <1>1, <1>2 DEF Spans
  <1>5. K <= n
    <2>1. K + 1 \in 1..(K + 1) /\ K + 1 <= first[K + 1] /\ first[K + 1] = N + 1
          BY <1>3, <1>4 DEF Divided
    <2> QED
        BY <1>1, <1>3, <2>1
  <1>6. PICK j \in 1..K, i \in MetaSlots(schema) :
           slots[i].off = hooks[j].off /\ Decl[slots[j].name] # Decl[slots[i].name]
        BY <1>1, <1>3, <1>5 DEF MetadataFound
  <1>7. i \in 1..N /\ DeclOf(slots[i]).meta
        BY <1>1, <1>3 DEF MetaSlots, DeclOf
  <1>8. first[j] = i
    <2>1. first[j] \in 1..N
          BY <1>3, <1>4, DividedIn
    <2>2. slots[first[j]].off = slots[i].off
          BY <1>4, <1>6 DEF Hooked
    <2>3. PICK f : f = first[j]
          OBVIOUS
    <2>4. \A p, q \in 1..N : slots[p].off = slots[q].off => p = q
          BY <1>0, <1>1 DEF PlacesDiffer
    <2>5. f = i
          BY <1>7, <2>1, <2>2, <2>3, <2>4, Zenon
    <2> QED
        BY <2>3, <2>5
  <1>9. j # i
        BY <1>6
  <1>10. PICK m \in 1..(j - 1) : first[m] + 1 < first[m + 1]
    <2>1. j \in 1..(K + 1)
          BY <1>3
    <2> QED
        BY <1>4, <1>8, <1>9, <2>1 DEF Divided
  <1>11. m \in 1..K /\ m + 1 \in 1..(K + 1) /\ m + 1 <= j /\ j \in 1..(K + 1)
         BY <1>3
  <1>12. PICK f, g : f = first[m] /\ g = first[m + 1]
         OBVIOUS
  <1>13. f \in 1..N /\ g \in Nat /\ f + 1 < g /\ g - 1 \in 1..N
         BY <1>3, <1>4, <1>10, <1>11, <1>12, DividedIn
  <1>14. g <= i
    <2>1. m + 1 = j \/ first[m + 1] < first[j]
      <3>1. \A q, r \in 1..(K + 1) : q < r => first[q] < first[r]
            BY <1>4 DEF Divided
      <3>2. m + 1 = j \/ m + 1 < j
            BY <1>11
      <3> QED
          BY <1>11, <3>1, <3>2
    <2> QED
        BY <1>7, <1>8, <1>12, <1>13, <2>1
  <1>15. Hooked(slots, hooks[m], f, g - 1)
         BY <1>4, <1>11, <1>12
  <1>16. DeclOf(slots[f]).trivial /\ DeclOf(slots[f + 1]).trivial
    <2>1. f # g - 1 /\ f \in f..(g - 1) /\ f + 1 \in f..(g - 1)
          BY <1>13
    <2> QED
        BY <1>15, <2>1 DEF Hooked
  <1>17. f + 1 \in 2..(i - 1) /\ (f + 1) - 1 = f
         BY <1>7, <1>13, <1>14
  <1> QED
      BY <1>1, <1>6, <1>16, <1>17 DEF MergedBefore, DeclOf

--------------------------------------------------------------------------------
(* Types *)

\* What there is of an object, of the pools and of the locks, also after undefined
\* behaviour.
MemOK(o) ==
    /\ obj[o].st \in {"none", "live"} /\ obj[o].cap \in Nat
    /\ obj[o].mem \in Seq(SlotState) /\ Len(obj[o].mem) <= Len(schema.slots)
MemInv == DOMAIN obj = Obj /\ \A o \in Obj : MemOK(o)
VecInv ==
    /\ cleaners \subseteq Obj \X Int /\ held \subseteq Obj
    /\ reuse.vec \in Seq(Obj) /\ reuse.use_num \in 0..Len(reuse.vec)
EnvInv ==
    /\ proc \in {"static", "up", "aborted", "undefined"} /\ way \in Ways
    /\ \A t \in mutex : t \in Thread /\ reg[t].pc \in {"hooks", "emplace"}
    /\ meta.n \in Nat
DataInv == MemInv /\ VecInv /\ EnvInv

LEMMA TypesFollow == LayoutInv /\ FieldInv /\ DataInv => TypeOK
  <1> SUFFICES ASSUME LayoutInv, FieldInv, DataInv PROVE TypeOK
      OBVIOUS
  <1>1. /\ proc \in {"static", "up", "aborted", "undefined"} /\ cls \in Class /\ way \in Ways
        /\ schema.align \in Nat /\ schema.size \in Nat /\ schema.unaligned \in Nat
        BY DEF LayoutInv, SchemaInv, DataInv, EnvInv
  <1>2. DOMAIN schema.map \subseteq Name
        BY DEF FieldInv, MapInv
  <1>3. \A i \in DOMAIN schema.slots : schema.slots[i].name \in Name /\ schema.slots[i].off \in Nat
        BY OffsetsDiffer DEF PlacesDiffer
  <1>4. \A i \in DOMAIN schema.hooks : schema.hooks[i].size \in 0..(Word - 1)
    <2>1. schema.hooks \in Seq(Hook)
          BY DEF FieldInv, HooksOK
    <2>2. \A i \in DOMAIN schema.hooks : schema.hooks[i] \in Hook
          BY <2>1
    <2> QED
        BY <2>2 DEF Hook
  <1>5. \A t \in Thread : reg[t].pc \in {"idle", "lock", "hooks", "emplace"}
        BY DEF LayoutInv, RegInv
  <1>6. \A t \in Thread : t \in mutex <=> reg[t].pc \in {"hooks", "emplace"}
    <2>1. \A t \in Thread : reg[t].pc \in {"hooks", "emplace"} => mutex = {t}
          BY DEF LayoutInv, RegInv
    <2> QED
        BY <2>1 DEF DataInv, EnvInv
  <1>7. \A o \in Obj : /\ obj[o].st \in {"none", "live"} /\ obj[o].cap \in Nat
                       /\ obj[o].mem \in Seq(SlotState) /\ Len(obj[o].mem) <= Len(schema.slots)
        BY DEF DataInv, MemInv, MemOK
  <1>8. /\ cleaners \subseteq Obj \X Int
        /\ reuse.vec \in Seq(Obj) /\ reuse.use_num \in 0..Len(reuse.vec)
        /\ held \subseteq Obj
        BY DEF DataInv, VecInv
  <1> QED
      BY <1>1, <1>2, <1>3, <1>4, <1>5, <1>6, <1>7, <1>8 DEF TypeOK

\* Nothing is there at the start, nor when the process is over.
NoneLeft ==
    /\ obj = [o \in Obj |-> NoObj] /\ cleaners = {} /\ reuse = NoReuse /\ held = {} /\ mutex = {}
    /\ meta = NoMeta /\ Len(schema.slots) \in Nat
    /\ proc \in {"static", "aborted", "undefined"} /\ way \in Ways
LEMMA NoData == NoneLeft => DataInv
  <1> SUFFICES ASSUME NoneLeft PROVE DataInv
      OBVIOUS
  <1> USE DEF NoneLeft
  <1>1. NoObj.mem = << >> /\ NoObj.st = "none" /\ NoObj.cap = 0
        BY DEF NoObj
  <1>0. << >> \in Seq(SlotState) /\ Len(<< >>) <= Len(schema.slots)
        OBVIOUS
  <1>2. MemInv
    <2>1. \A o \in Obj : obj[o].mem = << >> /\ obj[o].st = "none" /\ obj[o].cap = 0
          BY <1>1
    <2>2. ASSUME NEW o \in Obj PROVE MemOK(o)
      <3>1. PICK mem, st, cap : mem = obj[o].mem /\ st = obj[o].st /\ cap = obj[o].cap
            OBVIOUS
      <3>2. mem = << >> /\ st = "none" /\ cap = 0
            BY <2>1, <3>1, Zenon
      <3>3. mem \in Seq(SlotState) /\ Len(mem) <= Len(schema.slots)
            BY <1>0, <3>2, Zenon
      <3>4. st \in {"none", "live"} /\ cap \in Nat
            BY <3>2
      <3> QED
          BY <3>1, <3>3, <3>4, Zenon DEF MemOK
    <2> QED
        BY <2>2 DEF MemInv
  <1>3. NoReuse.vec = << >> /\ NoReuse.use_num = 0
        BY DEF NoReuse
  <1>4. VecInv
        BY <1>3 DEF VecInv
  <1>5. meta.n \in Nat
        BY DEF NoMeta
  <1> QED
      BY <1>2, <1>4, <1>5 DEF DataInv, EnvInv

\* What an object is made of.
LEMMA MadeOK ==
    ASSUME LayoutInv, FieldInv, NEW how, NEW pool
    PROVE  /\ Made(how, pool).st = "live" /\ Made(how, pool).cap = schema.size
           /\ Made(how, pool).cap \in Nat
           /\ Made(how, pool).mem \in Seq(SlotState) /\ Len(Made(how, pool).mem) = Len(schema.slots)
           /\ Made(how, pool).pool = pool
  <1>1. PICK r : r = Made(how, pool)
        OBVIOUS
  <1>2. /\ r.st = "live" /\ r.cap = schema.size /\ r.mem = ConstructAll(schema) /\ r.pool = pool
        BY <1>1 DEF Made
  <1>3. DOMAIN schema.slots = 1..Len(schema.slots) /\ Len(schema.slots) \in Nat /\ schema.size \in Nat
        BY DEF LayoutInv, SchemaInv
  <1>4. ASSUME NEW i \in 1..Len(schema.slots)
        PROVE  InTurn(Constructors(schema, schema.slots[i]), "raw") \in SlotState
    <2>1. PICK F : F = Constructors(schema, schema.slots[i])
          OBVIOUS
    <2>2. schema.hooks \in Seq(Hook)
          BY DEF FieldInv, HooksOK
    <2>3. Len(F) = Len(schema.hooks) /\ Len(F) \in Nat
          BY <2>1, <2>2 DEF Constructors
    <2>4. \A k \in 1..Len(F) : \A x \in SlotState : F[k][x] = ConstructSlot(schema.hooks[k], schema.slots[i], x)
          BY <2>1, <2>2, <2>3 DEF Constructors
    <2>5. \A h, s : \A x \in SlotState : ConstructSlot(h, s, x) \in SlotState
          BY DEF ConstructSlot, FillWithZero, SlotState
    <2>6. \A k \in 1..Len(F) : \A x \in SlotState : F[k][x] \in SlotState
          BY <2>4, <2>5
    <2>7. PICK st \in SlotState : st = "raw"
          BY DEF SlotState
    <2>8. InTurn(F, st) \in SlotState
          BY <2>3, <2>6, InTurnIn
    <2> QED
        BY <2>1, <2>7, <2>8
  <1>5. ConstructAll(schema) \in [1..Len(schema.slots) -> SlotState]
        BY <1>3, <1>4 DEF ConstructAll
  <1>6. r.mem \in Seq(SlotState) /\ Len(r.mem) = Len(schema.slots)
        BY <1>2, <1>3, <1>5
  <1> QED
      BY <1>1, <1>2, <1>3, <1>6

\* What becomes of an object in a step.
Becomes(r, q) ==
    \/ q = r
    \/ q = NoObj
    \/ \E how, pool : q = Made(how, pool)
    \/ \E m \in [DOMAIN r.mem -> SlotState] : q = [r EXCEPT !.mem = m]
LEMMA BecomesOK ==
    ASSUME LayoutInv, FieldInv, UNCHANGED schema, NEW o \in Obj, MemOK(o),
           DOMAIN obj[o] = ObjParts, Becomes(obj[o], obj'[o])
    PROVE  MemOK(o)'
  <1>1. PICK r, q : r = obj[o] /\ q = obj'[o]
        OBVIOUS
  <1>2. /\ r.st \in {"none", "live"} /\ r.cap \in Nat /\ r.mem \in Seq(SlotState)
        /\ Len(r.mem) <= Len(schema.slots) /\ DOMAIN r = ObjParts
        BY <1>1 DEF MemOK
  <1>3. Len(schema.slots) \in Nat
        BY DEF LayoutInv, SchemaInv
  <1>4. /\ q.st \in {"none", "live"} /\ q.cap \in Nat
        /\ q.mem \in Seq(SlotState) /\ Len(q.mem) <= Len(schema.slots)
    <2>1. CASE q = r
          BY <1>2, <2>1
    <2>2. CASE q = NoObj
      <3>1. q.mem = << >> /\ q.st = "none" /\ q.cap = 0
            BY <2>2 DEF NoObj
      <3> QED
          BY <1>3, <3>1
    <2>3. ASSUME NEW how, NEW pool, q = Made(how, pool)
          PROVE  /\ q.st \in {"none", "live"} /\ q.cap \in Nat
                 /\ q.mem \in Seq(SlotState) /\ Len(q.mem) <= Len(schema.slots)
      <3>1. q.st = "live" /\ q.cap \in Nat /\ q.mem \in Seq(SlotState) /\ Len(q.mem) = Len(schema.slots)
            BY <2>3, MadeOK
      <3> QED
          BY <1>3, <3>1
    <2>4. ASSUME NEW m \in [DOMAIN r.mem -> SlotState], q = [r EXCEPT !.mem = m]
          PROVE  /\ q.st \in {"none", "live"} /\ q.cap \in Nat
                 /\ q.mem \in Seq(SlotState) /\ Len(q.mem) <= Len(schema.slots)
      <3>1. q.mem = m /\ q.st = r.st /\ q.cap = r.cap
            BY <1>2, <2>4 DEF ObjParts
      <3>2. m \in [1..Len(r.mem) -> SlotState]
            BY <1>2, <2>4
      <3>3. m \in Seq(SlotState) /\ Len(m) = Len(r.mem)
            BY <1>2, <3>2
      <3> QED
          BY <1>2, <3>1, <3>3
    <2> QED
        BY <1>1, <2>1, <2>2, <2>3, <2>4 DEF Becomes
  <1> QED
      BY <1>1, <1>4 DEF MemOK

\* The memory that destructors have been at.
LEMMA DestroyIn ==
    ASSUME NEW S, NEW mem, NEW offs, \A i \in DOMAIN mem : mem[i] \in SlotState
    PROVE  Destroy(S, mem, offs) \in [DOMAIN mem -> SlotState]
  BY DEF Destroy, SlotState

\* clear(), and reconstruct().
LEMMA ClearedBecome ==
    ASSUME DOMAIN obj = Obj, NEW os, NEW pool, ClearObjects(os, pool)
    PROVE  DOMAIN obj' = Obj /\ \A o \in Obj : Becomes(obj[o], obj'[o])
  <1>1. PICK cleared : cleared = [o \in os |-> ClearAll(schema, obj[o].mem)]
        OBVIOUS
  <1>2. Outcome(\A o \in os : /\ AllClean(cleared[o]) /\ Fits(schema, obj[o].cap)
                              /\ ~WrongPool(schema, pool), WithMem(cleared))
        BY <1>1 DEF ClearObjects
  <1>3. CASE obj' = obj
        BY <1>3 DEF Becomes
  <1>4. CASE obj' # obj
    <2>1. /\ \A o \in os : AllClean(cleared[o])
          /\ obj' = WithMem(cleared)
          BY <1>2, <1>4 DEF Outcome
    <2>2. DOMAIN cleared = os /\ DOMAIN obj' = Obj
          BY <1>1, <2>1 DEF WithMem
    <2>3. ASSUME NEW o \in Obj, o \in os PROVE Becomes(obj[o], obj'[o])
      <3>1. PICK m : m = cleared[o]
            OBVIOUS
      <3>2. obj'[o] = [obj[o] EXCEPT !.mem = m]
            BY <2>1, <2>2, <2>3, <3>1 DEF WithMem
      <3>3. m = ClearAll(schema, obj[o].mem) /\ AllClean(m)
            BY <1>1, <2>1, <2>3, <3>1
      <3>4. m \in [DOMAIN obj[o].mem -> SlotState]
            BY <3>3 DEF ClearAll, AllClean, SlotState
      <3> QED
          BY <3>2, <3>4 DEF Becomes
    <2>4. ASSUME NEW o \in Obj, o \notin os PROVE Becomes(obj[o], obj'[o])
      <3>1. obj'[o] = obj[o]
            BY <2>1, <2>2, <2>4 DEF WithMem
      <3> QED
          BY <3>1 DEF Becomes
    <2> QED
        BY <2>2, <2>3, <2>4
  <1> QED
      BY <1>3, <1>4

\* What the steps of the application do to the objects.
LEMMA ObjectsBecome ==
    ASSUME MemInv, Application, ~AppRace
    PROVE  DOMAIN obj' = Obj /\ \A o \in Obj : Becomes(obj[o], obj'[o])
  <1>0. DOMAIN obj = Obj /\ \A o \in Obj : Becomes(obj[o], obj[o])
        BY DEF MemInv, Becomes
  <1>s. \A o \in Obj : \A i \in DOMAIN obj[o].mem : obj[o].mem[i] \in SlotState
        BY DEF MemInv, MemOK
  <1>1. ASSUME obj' = obj PROVE DOMAIN obj' = Obj /\ \A o \in Obj : Becomes(obj[o], obj'[o])
        BY <1>0, <1>1
  <1>2. CASE GetOld \/ UpdateMetadata \/ \E pool \in {"serial", "arena"} : NewReuse(pool)
        BY <1>1, <1>2 DEF GetOld, UpdateMetadata, NewReuse
  <1>3. CASE Reconstruct
        BY <1>0, <1>3, ClearedBecome DEF Reconstruct
  <1>4. ASSUME NEW o \in Obj, Clear(o)
        PROVE  DOMAIN obj' = Obj /\ \A p \in Obj : Becomes(obj[p], obj'[p])
        BY <1>0, <1>4, ClearedBecome DEF Clear
  <1>5. ASSUME NEW o \in Obj, NEW how, NEW pool, Make(o, how, pool)
        PROVE  DOMAIN obj' = Obj /\ \A p \in Obj : Becomes(obj[p], obj'[p])
    <2>1. obj' = [obj EXCEPT ![o] = Made(how, pool)]
          BY <1>5 DEF Make
    <2>2. obj'[o] = Made(how, pool) /\ DOMAIN obj' = Obj /\ \A p \in Obj : p # o => obj'[p] = obj[p]
          BY <1>0, <2>1
    <2> QED
        BY <1>0, <2>2 DEF Becomes
  <1>6. ASSUME NEW o \in Obj, NEW f, Use(o, f)
        PROVE  DOMAIN obj' = Obj /\ \A p \in Obj : Becomes(obj[p], obj'[p])
    <2>1. PICK at, mem : at = {i \in DOMAIN obj[o].mem : schema.slots[i].off = f.off} /\ mem = obj[o].mem
          OBVIOUS
    <2>2. PICK m : m = [i \in DOMAIN mem |-> IF i \in at THEN "dirty" ELSE mem[i]]
          OBVIOUS
    <2>3. obj' = obj \/ obj' = [obj EXCEPT ![o].mem = [i \in DOMAIN @ |-> IF i \in at THEN "dirty" ELSE @[i]]]
          BY <1>6, <2>1 DEF Use, Outcome
    <2>4. CASE obj' # obj
      <3>1. obj'[o] = [obj[o] EXCEPT !.mem = m] /\ DOMAIN obj' = Obj
            BY <1>0, <2>1, <2>2, <2>3, <2>4
      <3>2. \A p \in Obj : p # o => obj'[p] = obj[p]
            BY <1>0, <2>3, <2>4
      <3>3. m \in [DOMAIN obj[o].mem -> SlotState]
            BY <1>s, <2>1, <2>2 DEF SlotState
      <3> QED
          BY <1>0, <3>1, <3>2, <3>3 DEF Becomes
    <2> QED
        BY <1>1, <2>4
  <1>7. ASSUME NEW os, obj' = Without(os)
        PROVE  DOMAIN obj' = Obj /\ \A p \in Obj : Becomes(obj[p], obj'[p])
    <2>1. DOMAIN obj' = Obj /\ \A p \in Obj : obj'[p] = NoObj \/ obj'[p] = obj[p]
          BY <1>7 DEF Without
    <2> QED
        BY <2>1 DEF Becomes
  <1>8. ASSUME NEW o \in Obj, Delete(o)
        PROVE  DOMAIN obj' = Obj /\ \A p \in Obj : Becomes(obj[p], obj'[p])
    <2>1. obj' = obj \/ obj' = Without({o})
          BY <1>8 DEF Delete, Outcome
    <2> QED
        BY <1>1, <1>7, <2>1
  <1>9. ASSUME NEW pool, EndOfPool(pool)
        PROVE  DOMAIN obj' = Obj /\ \A p \in Obj : Becomes(obj[p], obj'[p])
    <2>1. obj' = obj \/ obj' = Without({o \in Obj : obj[o].st = "live" /\ obj[o].pool = pool})
          BY <1>9 DEF EndOfPool, Outcome
    <2> QED
        BY <1>1, <1>7, <2>1
  <1>10. CASE EndReuse
    <2>1. PICK os : os = IF schema.trivDtor THEN {} ELSE ToSet(reuse.vec)
          OBVIOUS
    <2>2. PICK mem : mem = [o \in os |-> Destroy(schema, obj[o].mem, schema.dtors)]
          OBVIOUS
    <2>3. obj' = obj \/ obj' = WithMem(mem)
          BY <1>10, <2>1, <2>2 DEF EndReuse, Outcome
    <2>4. CASE obj' = WithMem(mem)
      <3>1. DOMAIN obj' = Obj /\ DOMAIN mem = os
            BY <2>2, <2>4 DEF WithMem
      <3>2. ASSUME NEW o \in Obj, o \in os PROVE Becomes(obj[o], obj'[o])
        <4>1. PICK m : m = mem[o]
              OBVIOUS
        <4>2. obj'[o] = [obj[o] EXCEPT !.mem = m]
              BY <2>4, <3>1, <3>2, <4>1 DEF WithMem
        <4>3. m \in [DOMAIN obj[o].mem -> SlotState]
              BY <1>s, <2>2, <3>2, <4>1, DestroyIn
        <4> QED
            BY <4>2, <4>3 DEF Becomes
      <3>3. ASSUME NEW o \in Obj, o \notin os PROVE Becomes(obj[o], obj'[o])
        <4>1. obj'[o] = obj[o]
              BY <2>4, <3>1, <3>3 DEF WithMem
        <4> QED
            BY <4>1 DEF Becomes
      <3> QED
          BY <3>1, <3>2, <3>3
    <2> QED
        BY <1>1, <2>3, <2>4
  <1>11. CASE Rebuild
    <2>1. PICK os : obj' = [o \in Obj |-> IF o \in os THEN Made("rebuilt", reuse.pool) ELSE obj[o]]
          BY <1>11 DEF Rebuild
    <2>2. \A o \in Obj : obj'[o] = obj[o] \/ obj'[o] = Made("rebuilt", reuse.pool)
          BY <2>1
    <2> QED
        BY <2>1, <2>2 DEF Becomes
  <1>12. CASE \E o \in Obj : Create(o) \/ GetNew(o)
        BY <1>5, <1>12 DEF Create, GetNew
  <1>13. CASE \E pool \in {"serial", "arena"} : \E o \in Obj : CreateWithPool(o, pool)
        BY <1>5, <1>13 DEF CreateWithPool
  <1> QED
      BY <1>2, <1>3, <1>4, <1>6, <1>8, <1>9, <1>10, <1>11, <1>12, <1>13 DEF Application

LEMMA CleanersIn ==
    ASSUME LayoutInv, NEW os, os \subseteq Obj, NEW how, VecInv
    PROVE  /\ cleaners \cup (os \X InPool(schema, how)) \subseteq Obj \X Int
           /\ cleaners \cup (os \X (InPool(schema, how) \cup {Whole})) \subseteq Obj \X Int
  <1>1. PICK X : X = InPool(schema, how)
        OBVIOUS
  <1>2. X \subseteq Nat
        BY <1>1, InPoolOffs
  <1>3. ASSUME NEW Y, Y \subseteq Int PROVE os \X Y \subseteq Obj \X Int
        BY <1>3
  <1>4. X \subseteq Int /\ X \cup {Whole} \subseteq Int
        BY <1>2 DEF Whole
  <1>5. os \X X \subseteq Obj \X Int /\ os \X (X \cup {Whole}) \subseteq Obj \X Int
        BY <1>3, <1>4
  <1> QED
      BY <1>1, <1>5 DEF VecInv

\* What the steps of the application do to the pools.
LEMMA VecSteps ==
    ASSUME UseInv, VecInv, Application, ~AppRace
    PROVE  VecInv'
  <1>0. proc = "up" /\ LayoutInv
        BY ApplicationFrame DEF UseInv
  <1>1. /\ cleaners \subseteq Obj \X Int /\ held \subseteq Obj /\ reuse.vec \in Seq(Obj)
        /\ Len(reuse.vec) \in Nat /\ reuse.use_num \in 0..Len(reuse.vec)
        /\ DOMAIN reuse = {"st", "pool", "vec", "use_num"} /\ meta.size \in Nat
        BY <1>0, Before DEF VecInv, ReuseInv
  <1>2. CASE GetOld
    <2>1. PICK k : k = reuse.use_num + 1
          OBVIOUS
    <2>2. /\ reuse'.vec = reuse.vec /\ reuse'.use_num = k
          /\ held' = held \cup {reuse.vec[k]} /\ cleaners' = cleaners
          BY <1>1, <1>2, <2>1 DEF GetOld
    <2>3. k \in 1..Len(reuse.vec) /\ k \in 0..Len(reuse.vec)
          BY <1>1, <1>2, <2>1 DEF GetOld
    <2>4. reuse.vec[k] \in Obj
          BY <1>1, <2>3
    <2> QED
        BY <1>1, <2>2, <2>3, <2>4 DEF VecInv
  <1>3. ASSUME NEW o \in Obj, GetNew(o) PROVE VecInv'
    <2>1. PICK k : k = Len(reuse.vec) + 1
          OBVIOUS
    <2>2. /\ reuse.use_num = Len(reuse.vec) /\ held' = held \cup {o}
          /\ reuse' = [reuse EXCEPT !.vec = Append(@, o), !.use_num = @ + 1]
          /\ cleaners' = cleaners \cup ({o} \X InPool(schema, "reuse"))
          BY <1>3 DEF GetNew
    <2>3. reuse'.vec = Append(reuse.vec, o) /\ reuse'.use_num = k
          BY <1>1, <2>1, <2>2
    <2>4. reuse'.vec \in Seq(Obj) /\ Len(reuse'.vec) = k /\ k \in 0..k
          BY <1>1, <2>1, <2>3
    <2>5. cleaners' \subseteq Obj \X Int
      <3>1. {o} \subseteq Obj
            OBVIOUS
      <3> QED
          BY <1>0, <2>2, <3>1, CleanersIn
    <2> QED
        BY <1>1, <2>2, <2>3, <2>4, <2>5 DEF VecInv
  <1>4. CASE Rebuild
    <2>1. PICK vec \in [1..meta.size -> {o \in Obj : obj[o].st = "none"}] :
            /\ cleaners' = cleaners \cup (ToSet(vec) \X InPool(schema, "rebuilt"))
            /\ reuse' = [st |-> "live", pool |-> reuse.pool, vec |-> vec, use_num |-> 0]
            /\ held' = held
          BY <1>4 DEF Rebuild
    <2>2. reuse'.vec = vec /\ reuse'.use_num = 0
          BY <2>1
    <2>a. PICK n \in Nat : n = meta.size
          BY <1>1
    <2>b. vec \in [1..n -> Obj]
          BY <2>1, <2>a
    <2>c. vec \in Seq(Obj) /\ Len(vec) = n /\ 0 \in 0..n
          BY <2>a, <2>b
    <2>3. vec \in Seq(Obj) /\ Len(vec) = meta.size /\ 0 \in 0..meta.size
          BY <2>a, <2>c
    <2>4. ToSet(vec) \subseteq Obj
          BY <1>1, <2>1 DEF ToSet
    <2>5. cleaners' \subseteq Obj \X Int
          BY <1>0, <2>1, <2>4, CleanersIn
    <2> QED
        BY <1>1, <2>1, <2>2, <2>3, <2>5 DEF VecInv
  <1>5. CASE \E pool \in {"serial", "arena"} : \E o \in Obj : CreateWithPool(o, pool)
    <2>1. PICK o \in Obj : /\ cleaners' = cleaners \cup ({o} \X (InPool(schema, "pool") \cup {Whole}))
                           /\ UNCHANGED <<reuse, held>>
          BY <1>5 DEF CreateWithPool
    <2>2. {o} \subseteq Obj
          OBVIOUS
    <2>3. cleaners' \subseteq Obj \X Int
          BY <1>0, <2>1, <2>2, CleanersIn
    <2> QED
        BY <2>1, <2>3 DEF VecInv
  <1>6. CASE \E pool \in {"serial", "arena"} : NewReuse(pool)
    <2>1. reuse'.vec = << >> /\ reuse'.use_num = 0 /\ cleaners' = cleaners /\ held' = held
          BY <1>6 DEF NewReuse, NoReuse
    <2> QED
        BY <1>1, <2>1 DEF VecInv
  <1>7. CASE EndReuse
    <2>1. reuse'.vec = << >> /\ reuse'.use_num = 0 /\ cleaners' = cleaners /\ held' = {}
          BY <1>1, <1>7 DEF EndReuse
    <2> QED
        BY <1>1, <2>1 DEF VecInv
  <1>8. CASE Reconstruct
    <2>1. reuse'.vec = reuse.vec /\ reuse'.use_num = 0 /\ cleaners' = cleaners /\ held' = {}
          BY <1>1, <1>8 DEF Reconstruct
    <2> QED
        BY <1>1, <2>1 DEF VecInv
  <1>9. CASE \E pool \in {"serial", "arena"} : EndOfPool(pool)
    <2>1. UNCHANGED <<reuse, held>> /\ cleaners' \subseteq cleaners
          BY <1>9 DEF EndOfPool
    <2> QED
        BY <1>1, <2>1 DEF VecInv
  <1>10. CASE UpdateMetadata \/ \E o \in Obj : Create(o) \/ Clear(o) \/ Delete(o) \/ \E f \in acc : Use(o, f)
    <2>1. UNCHANGED <<reuse, held, cleaners>>
          BY <1>10 DEF UpdateMetadata, Create, Clear, Delete, Use
    <2> QED
        BY <2>1 DEF VecInv
  <1> QED
      BY <1>2, <1>3, <1>4, <1>5, <1>6, <1>7, <1>8, <1>9, <1>10 DEF Application

LEMMA ProcSteps ==
    ASSUME Application, ~AppRace
    PROVE  proc' \in {"up", "undefined"} /\ (meta' = meta \/ UpdateMetadata)
  <1>2. CASE GetOld \/ UpdateMetadata \/ EndReuse \/ Reconstruct
        BY <1>2 DEF GetOld, UpdateMetadata, EndReuse, Reconstruct, Outcome, ClearObjects
  <1>3. CASE Rebuild
        BY <1>3 DEF Rebuild
  <1>4. CASE \E o \in Obj : Create(o) \/ GetNew(o)
        BY <1>4 DEF Create, GetNew, Make
  <1>5. CASE \E o \in Obj : Clear(o) \/ Delete(o) \/ (\E f \in acc : Use(o, f))
        BY <1>5 DEF Clear, Delete, Use, Outcome, ClearObjects
  <1>6. CASE \E pool \in {"serial", "arena"} :
               NewReuse(pool) \/ EndOfPool(pool) \/ (\E o \in Obj : CreateWithPool(o, pool))
        BY <1>6 DEF NewReuse, EndOfPool, CreateWithPool, Make, Outcome
  <1> QED
      BY <1>2, <1>3, <1>4, <1>5, <1>6 DEF Application

\* Registration leaves the objects and the pools alone, and keeps what is registered.
LEMMA DataFrame ==
    ASSUME DataInv, UNCHANGED <<obj, cleaners, reuse, held, meta, way>>, EnvInv',
           Len(schema.slots) \in Nat, Len(schema'.slots) \in Nat, Len(schema.slots) <= Len(schema'.slots)
    PROVE  DataInv'
  <1>1. VecInv'
        BY DEF DataInv, VecInv
  <1>2. ASSUME NEW o \in Obj PROVE MemOK(o)'
    <2>1. /\ obj[o].st \in {"none", "live"} /\ obj[o].cap \in Nat
          /\ obj[o].mem \in Seq(SlotState) /\ Len(obj[o].mem) <= Len(schema.slots)
          BY DEF DataInv, MemInv, MemOK
    <2>2. Len(obj[o].mem) <= Len(schema'.slots)
      <3>1. Len(obj[o].mem) \in Nat
            BY <2>1
      <3> QED
          BY <2>1, <3>1
    <2> QED
        BY <2>1, <2>2 DEF MemOK
  <1>3. MemInv'
        BY <1>2 DEF DataInv, MemInv
  <1> QED
      BY <1>1, <1>3 DEF DataInv

LEMMA StopData ==
    ASSUME DataInv, NEW end \in {"aborted", "undefined"}, Stop(end) PROVE DataInv'
  <1>1. schema'.slots = << >> /\ Len(schema'.slots) \in Nat
        BY DEF Stop, EmptySchema
  <1>2. NoneLeft'
        BY <1>1 DEF Stop, DataInv, EnvInv, NoneLeft
  <1>3. NoneLeft' => DataInv'
        BY NoData, PTL
  <1> QED
      BY <1>2, <1>3

\* How many registrations there are after a step of the schema.
LEMMA MoreSlots ==
    ASSUME LayoutInv, LayoutInv', RegisterMember \/ MemberEnd \/ \E t \in Thread :
             (\E n \in Dynamic : Find(t, n)) \/ Layout(t) \/ Hooks(t) \/ Emplace(t)
    PROVE  /\ Len(schema.slots) \in Nat /\ Len(schema'.slots) \in Nat
           /\ Len(schema.slots) <= Len(schema'.slots)
  <1>1. schema.slots \in Seq(Slot) /\ schema'.slots \in Seq(Slot) /\ DOMAIN schema = Parts
        BY DEF LayoutInv, SchemaInv
  <1>2. PICK slots, more : slots = schema.slots /\ more = schema'.slots
        OBVIOUS
  <1>3. more = slots \/ \E s : more = Append(slots, s)
    <2>1. CASE RegisterMember
      <3>1. PICK n, off : schema' = Member(schema, n, off)
            BY <2>1 DEF RegisterMember
      <3>2. PICK T : T = WithHooks(schema, n, off)
            OBVIOUS
      <3>3. DOMAIN T = Parts /\ T.slots = Append(schema.slots, [name |-> n, off |-> off])
            BY <1>1, <3>2 DEF WithHooks, Parts
      <3>4. Emplaced(T, n, off).slots = T.slots
            BY <3>3 DEF Emplaced, Parts
      <3>5. schema' = schema \/ schema' = Emplaced(T, n, off)
            BY <3>1, <3>2 DEF Member
      <3> QED
          BY <1>2, <3>3, <3>4, <3>5
    <2>2. CASE MemberEnd
          BY <1>1, <1>2, <2>2 DEF MemberEnd, SetSizeAndAlign, Parts
    <2>3. ASSUME NEW t \in Thread, NEW n, Find(t, n) PROVE more = slots
          BY <1>2, <2>3 DEF Find
    <2>4. ASSUME NEW t \in Thread, Layout(t) PROVE more = slots
          BY <1>1, <1>2, <2>4 DEF Layout, WithSpace, Parts
    <2>5. ASSUME NEW t \in Thread, Hooks(t) PROVE \E s : more = Append(slots, s)
          BY <1>1, <1>2, <2>5 DEF Hooks, WithHooks, Parts
    <2>6. ASSUME NEW t \in Thread, Emplace(t) PROVE more = slots
          BY <1>1, <1>2, <2>6 DEF Emplace, Emplaced, Parts
    <2> QED
        BY <2>1, <2>2, <2>3, <2>4, <2>5, <2>6
  <1>4. Len(slots) \in Nat /\ Len(more) \in Nat /\ slots \in Seq(Slot) /\ more \in Seq(Slot)
        BY <1>1, <1>2
  <1>5. Len(slots) <= Len(more)
    <2>1. CASE more = slots
          BY <1>4, <2>1
    <2>2. ASSUME NEW s, more = Append(slots, s) PROVE Len(slots) <= Len(more)
      <3>1. Len(more) = Len(slots) + 1
            BY <1>4, <2>2
      <3> QED
          BY <1>4, <3>1
    <2> QED
        BY <1>3, <2>1, <2>2
  <1> QED
      BY <1>2, <1>4, <1>5

\* The lock is with a thread that is at it.
LEMMA EnvSteps ==
    ASSUME LayoutInv, EnvInv, RegisterMember \/ MemberEnd \/ \E t \in Thread :
             (\E n \in Dynamic : Find(t, n)) \/ Layout(t) \/ Hooks(t) \/ Emplace(t)
    PROVE  EnvInv' /\ UNCHANGED <<obj, cleaners, reuse, held, meta, way>>
  <1> USE DEF useVars
  <1>0. /\ DOMAIN reg = Thread /\ \A t \in mutex : t \in Thread /\ reg[t].pc \in {"hooks", "emplace"}
        /\ way \in Ways /\ meta.n \in Nat /\ \A t \in Thread : reg[t].pc \in {"hooks", "emplace"} => mutex = {t}
        /\ \A t \in Thread : DOMAIN reg[t] = {"pc", "name", "off"}
        BY DEF LayoutInv, RegInv, EnvInv
  <1>1. CASE RegisterMember
        BY <1>0, <1>1 DEF RegisterMember, EnvInv
  <1>2. CASE MemberEnd
        BY <1>0, <1>2 DEF MemberEnd, EnvInv, regVars
  <1>3. ASSUME NEW t \in Thread, NEW n, Find(t, n)
        PROVE  EnvInv' /\ UNCHANGED <<obj, cleaners, reuse, held, meta, way>>
    <2>1. /\ proc' = "up" /\ mutex' = mutex /\ way' = way /\ UNCHANGED <<obj, cleaners, reuse, held, meta>>
          /\ reg[t].pc = "idle"
          /\ reg' = reg \/ reg' = [reg EXCEPT ![t] = [pc |-> "lock", name |-> n, off |-> 0]]
          BY <1>3 DEF Find
    <2>2. \A u \in mutex : u \in Thread /\ reg'[u] = reg[u]
          BY <1>0, <2>1
    <2> QED
        BY <1>0, <2>1, <2>2 DEF EnvInv
  <1>4. ASSUME NEW t \in Thread, Layout(t)
        PROVE  EnvInv' /\ UNCHANGED <<obj, cleaners, reuse, held, meta, way>>
    <2>1. /\ proc' = "up" /\ mutex' = {t} /\ way' = way /\ UNCHANGED <<obj, cleaners, reuse, held, meta>>
          /\ reg' = [reg EXCEPT ![t].pc = "hooks", ![t].off = OffsetFor(schema, reg[t].name)]
          BY <1>4 DEF Layout
    <2>2. reg'[t].pc = "hooks"
          BY <1>0, <2>1
    <2> QED
        BY <1>0, <2>1, <2>2 DEF EnvInv
  <1>5. ASSUME NEW t \in Thread, Hooks(t)
        PROVE  EnvInv' /\ UNCHANGED <<obj, cleaners, reuse, held, meta, way>>
    <2>1. /\ proc' = "up" /\ mutex' = mutex /\ way' = way /\ UNCHANGED <<obj, cleaners, reuse, held, meta>>
          /\ reg' = [reg EXCEPT ![t].pc = "emplace"] /\ reg[t].pc = "hooks"
          BY <1>5 DEF Hooks
    <2>2. reg'[t].pc = "emplace" /\ mutex = {t}
          BY <1>0, <2>1
    <2> QED
        BY <1>0, <2>1, <2>2 DEF EnvInv
  <1>6. ASSUME NEW t \in Thread, Emplace(t)
        PROVE  EnvInv' /\ UNCHANGED <<obj, cleaners, reuse, held, meta, way>>
    <2>1. /\ proc' = "up" /\ mutex' = mutex \ {t} /\ way' = way /\ UNCHANGED <<obj, cleaners, reuse, held, meta>>
          /\ reg[t].pc = "emplace"
          BY <1>6 DEF Emplace
    <2>2. mutex' = {}
          BY <1>0, <2>1
    <2> QED
        BY <1>0, <2>1, <2>2 DEF EnvInv
  <1> QED
      BY <1>1, <1>2, <1>3, <1>4, <1>5, <1>6

LEMMA DataNext == UseInv /\ FieldInv /\ DataInv /\ [Next]_vars => DataInv'
  <1> SUFFICES ASSUME UseInv, FieldInv, DataInv, [Next]_vars PROVE DataInv'
      OBVIOUS
  <1>1. LayoutInv /\ LayoutInv'
        BY NextKeeps DEF UseInv
  <1>2. CASE RegisterMember \/ MemberEnd \/ \E t \in Thread :
               (\E n \in Dynamic : Find(t, n)) \/ Layout(t) \/ Hooks(t) \/ Emplace(t)
    <2>1. EnvInv' /\ UNCHANGED <<obj, cleaners, reuse, held, meta, way>>
          BY <1>1, <1>2, EnvSteps DEF DataInv
    <2>2. /\ Len(schema.slots) \in Nat /\ Len(schema'.slots) \in Nat
          /\ Len(schema.slots) <= Len(schema'.slots)
          BY <1>1, <1>2, MoreSlots
    <2> QED
        BY <2>1, <2>2, DataFrame
  <1>3. CASE AppRace \/ \E t \in Thread : FindRace(t)
        BY <1>3, StopData DEF AppRace, FindRace, Crash
  <1>4. CASE Application /\ ~AppRace
    <2>1. UNCHANGED schemaVars /\ proc = "up" /\ proc' \in {"up", "undefined"}
          BY <1>4, ApplicationFrame, ProcSteps
    <2>2. VecInv'
          BY <1>4, VecSteps DEF DataInv
    <2>3. MemInv'
      <3>1. DOMAIN obj' = Obj /\ \A o \in Obj : Becomes(obj[o], obj'[o])
            BY <1>4, ObjectsBecome DEF DataInv
      <3>2. \A o \in Obj : MemOK(o) /\ DOMAIN obj[o] = ObjParts
            BY <2>1, Before DEF ObjOK, DataInv, MemInv
      <3>3. schema' = schema
            BY <2>1 DEF schemaVars
      <3>4. \A o \in Obj : MemOK(o)'
            BY <1>1, <3>1, <3>2, <3>3, BecomesOK
      <3> QED
          BY <3>1, <3>4 DEF MemInv
    <2>4. EnvInv'
      <3>1. meta'.n \in Nat
        <4>1. meta.n \in Nat /\ Len(schema.slots) \in Nat
              BY <1>1 DEF DataInv, EnvInv, LayoutInv, SchemaInv
        <4>2. CASE UpdateMetadata
              BY <4>1, <4>2 DEF UpdateMetadata
        <4>3. CASE meta' = meta
              BY <4>1, <4>3
        <4> QED
            BY <1>4, <4>2, <4>3, ProcSteps
      <3> QED
          BY <2>1, <3>1 DEF DataInv, EnvInv, schemaVars, regVars
    <2> QED
        BY <2>2, <2>3, <2>4 DEF DataInv
  <1>5. CASE UNCHANGED vars
    <2> USE <1>5 DEF vars, schemaVars, regVars, useVars
    <2>1. MemInv' = MemInv
          BY DEF MemInv, MemOK
    <2>2. VecInv' = VecInv
          BY DEF VecInv
    <2>3. EnvInv' = EnvInv
          BY DEF EnvInv
    <2> QED
        BY <2>1, <2>2, <2>3 DEF DataInv
  <1>6. ASSUME NEW n \in Name, GetField(n), ~ UNCHANGED vars PROVE DataInv'
    <2>1. CASE n \in DOMAIN schema.map
      <3> USE <1>6, <2>1 DEF GetField, useVars
      <3>1. MemInv' = MemInv
            BY DEF MemInv, MemOK
      <3>2. VecInv' = VecInv
            BY DEF VecInv
      <3>3. EnvInv' = EnvInv
            BY DEF EnvInv
      <3> QED
          BY <3>1, <3>2, <3>3 DEF DataInv
    <2>2. CASE n \notin DOMAIN schema.map
          BY <1>6, <2>2, StopData DEF GetField
    <2> QED
        BY <2>1, <2>2
  <1> QED
      BY <1>2, <1>3, <1>4, <1>5, <1>6 DEF Next, RegisterField

LEMMA DataInit == Init => DataInv
  <1> SUFFICES ASSUME Init PROVE DataInv
      OBVIOUS
  <1>1. Len(schema.slots) \in Nat
        BY InitLayout DEF LayoutInv, SchemaInv
  <1>2. NoneLeft
        BY <1>1 DEF Init, NoneLeft
  <1> QED
      BY <1>2, NoData

LEMMA DataInvHolds == Spec => [](UseInv /\ FieldInv /\ DataInv)
  <1>1. Init => UseInv /\ FieldInv /\ DataInv
        BY UseInit, FieldInit, DataInit
  <1>2. (UseInv /\ FieldInv /\ DataInv) /\ [Next]_vars => (UseInv /\ FieldInv /\ DataInv)'
        BY UseNext, FieldNext, DataNext DEF UseInv
  <1> QED
      BY <1>1, <1>2, PTL DEF Spec

\* The variables stay in their ranges, also after undefined behaviour: an object
\* has memory for the fields there were when it was made and never for more, the
\* lock of register_field is with the thread in the critical section, and what the
\* reuse pool has given away is in its vector.
THEOREM Types == Spec => []TypeOK
  <1>1. UseInv /\ FieldInv /\ DataInv => TypeOK
        BY TypesFollow DEF UseInv
  <1> QED
      BY <1>1, DataInvHolds, PTL

--------------------------------------------------------------------------------
(* Defined behaviour *)

\* What a step of the application starts from, if the schema has been kept right.
Ready == UseInv /\ FieldInv /\ DataInv /\ proc = "up" /\ LayoutFits /\ ~Disordered
Excused == raced \/ misused \/ Disordered \/ Outgrown \/ Overaligned \/ MergedBefore

LEMMA ReadyFor ==
    ASSUME Ready
    PROVE  /\ Orderly /\ LayoutInv /\ DtorInv /\ ReuseInv /\ FieldInv /\ PlacesDiffer(schema.slots)
           /\ DOMAIN obj = Obj /\ Len(schema.slots) \in Nat /\ meta.n \in Nat
           /\ DOMAIN schema.slots = 1..Len(schema.slots)
           /\ \A o \in Obj : ObjOK(o) /\ MemOK(o)
  <1>1. /\ LayoutInv /\ DtorInv /\ ReuseInv /\ PlacesDiffer(schema.slots) /\ DOMAIN obj = Obj
        /\ \A o \in Obj : ObjOK(o)
        BY Before DEF Ready
  <1>2. Orderly /\ FieldInv
        BY <1>1 DEF Ready, Orderly
  <1>3. meta.n \in Nat /\ \A o \in Obj : MemOK(o)
        BY DEF Ready, DataInv, MemInv, EnvInv
  <1> QED
      BY <1>1, <1>2, <1>3 DEF PlacesDiffer

\* A live object that has memory for every registration there is.
LEMMA NotOutgrown ==
    ASSUME Ready, NEW o \in Obj, obj[o].st = "live", ~Outgrown
    PROVE  obj[o].cap = schema.size /\ DOMAIN obj[o].mem = 1..Len(schema.slots)
  <1>1. PICK mem : mem = obj[o].mem
        OBVIOUS
  <1>2. ~(Len(mem) < Len(schema.slots)) /\ obj[o].cap = schema.size
        BY <1>1 DEF Outgrown
  <1>3. mem \in Seq(SlotState) /\ Len(mem) <= Len(schema.slots) /\ Len(schema.slots) \in Nat
        BY <1>1, ReadyFor DEF MemOK
  <1>4. Len(mem) = Len(schema.slots)
        BY <1>2, <1>3
  <1> QED
      BY <1>1, <1>2, <1>3, <1>4

\* What an object of an orderly schema needs to be made well is the right pool, and
\* fields that are not over-aligned.
LEMMA MakesWell ==
    ASSUME Ready, NEW pool, NEW base \in Bases(pool), ~WellMade(pool, base), ~WrongPool(schema, pool)
    PROVE  \E i \in DOMAIN schema.slots :
             /\ Decl[schema.slots[i].name].align > MetaSize
             /\ i <= Len(cls.members) \/ pool = "arena"
  <1>1. AllClean(ConstructAll(schema)) /\ Fits(schema, schema.size)
        BY ReadyFor, AllMade, AllFit
  <1>2. ~Aligned(schema, base)
        BY <1>1 DEF WellMade
  <1> QED
      BY <1>2, ReadyFor, NotAligned

LEMMA MakeExcused ==
    ASSUME Ready, NEW o \in Obj, NEW how, NEW pool, Make(o, how, pool), proc' = "undefined"
    PROVE  Excused'
  <1>1. PICK base \in Bases(pool) : ~WellMade(pool, base)
        BY DEF Make
  <1>2. CASE WrongPool(schema, pool)
        BY <1>2 DEF Make, Excused
  <1>3. CASE ~WrongPool(schema, pool)
    <2>1. PICK i \in DOMAIN schema.slots :
             /\ Decl[schema.slots[i].name].align > MetaSize
             /\ i <= Len(cls.members) \/ pool = "arena"
          BY <1>1, <1>3, MakesWell
    <2>2. obj' = [obj EXCEPT ![o] = Made(how, pool)] /\ schema' = schema /\ cls' = cls
          BY DEF Make, schemaVars
    <2>3. obj'[o].st = "live" /\ obj'[o].pool = pool
      <3>1. obj'[o] = Made(how, pool)
            BY <2>2, ReadyFor
      <3> QED
          BY <3>1 DEF Made
    <2>4. Overaligned'
          BY <2>1, <2>2, <2>3 DEF Overaligned
    <2> QED
        BY <2>4 DEF Excused
  <1> QED
      BY <1>2, <1>3

\* A field is used that was registered before the object was made.
LEMMA UseExcused ==
    ASSUME Ready, NEW o \in Obj, NEW f, Use(o, f), proc' = "undefined"
    PROVE  Excused'
  <1>1. PICK mem : mem = obj[o].mem
        OBVIOUS
  <1>2. /\ obj' = obj /\ schema' = schema /\ meta' = meta /\ obj[o].st = "live" /\ f \in acc
        /\ {i \in DOMAIN mem : schema.slots[i].off = f.off} = {}
        BY <1>1 DEF Use, Outcome, InUse, Ready, schemaVars
  <1>3. PICK i \in 1..Len(schema.slots) : schema.slots[i].off = f.off
    <2>1. f.name \in DOMAIN schema.map /\ f = schema.map[f.name]
          BY <1>2, ReadyFor DEF LayoutInv, AccInv
    <2>2. Placed(schema.map[f.name].off)
          BY <2>1, ReadyFor DEF FieldInv, MapInv
    <2> QED
        BY <2>1, <2>2 DEF Placed
  <1>4. i \notin DOMAIN mem
        BY <1>2, <1>3
  <1>5. Outgrown
        BY <1>1, <1>2, <1>4, NotOutgrown
  <1>6. Outgrown'
        BY <1>2, <1>5 DEF Outgrown
  <1> QED
      BY <1>6 DEF Excused

\* An object that has not been destroyed is cleared.
LEMMA ClearsWell ==
    ASSUME Ready, NEW o \in Obj, obj[o].st = "live", ~Ended(o, obj[o], reuse.vec), ~Outgrown
    PROVE  AllClean(ClearAll(schema, obj[o].mem)) /\ Fits(schema, obj[o].cap)
  <1>1. PICK mem, r, C : mem = obj[o].mem /\ r = obj[o] /\ C = OffsIn(cleaners, o)
        OBVIOUS
  <1>2. DOMAIN mem = 1..Len(schema.slots) /\ obj[o].cap = schema.size
        BY <1>1, NotOutgrown
  <1>3. Alive(schema.slots, r, C, FALSE)
    <2>1. Ended(o, r, reuse.vec) = FALSE
          BY <1>1 DEF Ended
    <2> QED
        BY <1>1, <2>1, ReadyFor DEF ObjOK
  <1>4. \A i \in DOMAIN mem : mem[i] \in {"clean", "dirty"}
        BY <1>1, <1>3 DEF Alive, Kept
  <1>5. AllClean(ClearAll(schema, mem))
        BY <1>2, <1>4, ReadyFor, AllCleared
  <1> QED
      BY <1>1, <1>2, <1>5, ReadyFor, AllFit

LEMMA ClearExcused ==
    ASSUME Ready, NEW os, os \subseteq Obj, NEW pool, ClearObjects(os, pool), proc' = "undefined",
           \A o \in os : obj[o].st = "live" /\ ~Ended(o, obj[o], reuse.vec),
           schema' = schema, meta' = meta
    PROVE  Excused'
  <1>1. PICK cleared : cleared = [o \in os |-> ClearAll(schema, obj[o].mem)]
        OBVIOUS
  <1>2. /\ Outcome(\A o \in os : /\ AllClean(cleared[o]) /\ Fits(schema, obj[o].cap)
                                 /\ ~WrongPool(schema, pool), WithMem(cleared))
        /\ misused' = (misused \/ (os # {} /\ WrongPool(schema, pool)))
        BY <1>1 DEF ClearObjects
  <1>3. obj' = obj
        BY <1>2 DEF Outcome, Ready
  <1>4. PICK o \in os : ~(/\ AllClean(cleared[o]) /\ Fits(schema, obj[o].cap)
                          /\ ~WrongPool(schema, pool))
        BY <1>2 DEF Outcome, Ready
  <1>5. CASE WrongPool(schema, pool)
        BY <1>2, <1>4, <1>5 DEF Excused
  <1>6. CASE ~WrongPool(schema, pool)
    <2>1. ~(AllClean(ClearAll(schema, obj[o].mem)) /\ Fits(schema, obj[o].cap))
          BY <1>1, <1>4, <1>6
    <2>2. Outgrown
          BY <2>1, ClearsWell
    <2>3. Outgrown'
          BY <1>3, <2>2 DEF Outgrown
    <2> QED
        BY <2>3 DEF Excused
  <1> QED
      BY <1>5, <1>6

LEMMA ReclearExcused ==
    ASSUME Ready, Reconstruct \/ \E o \in Obj : Clear(o), proc' = "undefined"
    PROVE  Excused'
  <1>0. ReuseInv
        BY ReadyFor
  <1>1. CASE Reconstruct
    <2>1. PICK os : os = {reuse.vec[i] : i \in 1..reuse.use_num}
          OBVIOUS
    <2>2. ClearObjects(os, reuse.pool) /\ schema' = schema /\ meta' = meta
          BY <1>1, <2>1 DEF Reconstruct, schemaVars
    <2>3. ASSUME NEW o \in os PROVE o \in Obj /\ obj[o].st = "live" /\ ~Ended(o, obj[o], reuse.vec)
      <3>1. PICK i \in 1..reuse.use_num : reuse.vec[i] = o
            BY <2>1
      <3>2. i \in 1..Len(reuse.vec)
            BY <1>0 DEF ReuseInv
      <3> QED
          BY <1>0, <3>1, <3>2 DEF ReuseInv, Ended
    <2>4. os \subseteq Obj
          BY <2>3
    <2>5. \A o \in os : obj[o].st = "live" /\ ~Ended(o, obj[o], reuse.vec)
          BY <2>3
    <2> QED
        BY <2>2, <2>4, <2>5, ClearExcused
  <1>2. ASSUME NEW o \in Obj, Clear(o) PROVE Excused'
    <2>1. ClearObjects({o}, "null") /\ schema' = schema /\ meta' = meta /\ InUse(o)
          BY <1>2 DEF Clear, schemaVars
    <2>2. obj[o].st = "live" /\ ~Ended(o, obj[o], reuse.vec)
          BY <1>0, <2>1, InUseApart
    <2>3. {o} \subseteq Obj
          OBVIOUS
    <2>4. \A p \in {o} : obj[p].st = "live" /\ ~Ended(p, obj[p], reuse.vec)
          BY <2>2
    <2> QED
        BY <2>1, <2>3, <2>4, ClearExcused
  <1> QED
      BY <1>1, <1>2

\* All fields of an object are there to be destroyed ...
LEMMA DtorsThere ==
    ASSUME Ready, NEW o \in Obj, obj[o].st = "live", ~Outgrown
    PROVE  schema.dtors \subseteq OffsetsOf(schema, obj[o].mem)
  <1>1. PICK mem : mem = obj[o].mem
        OBVIOUS
  <1>2. DOMAIN mem = 1..Len(schema.slots)
        BY <1>1, NotOutgrown
  <1>3. ASSUME NEW x \in schema.dtors PROVE \E i \in DOMAIN mem : schema.slots[i].off = x
        BY <1>2, ReadyFor DEF DtorInv
  <1> QED
      BY <1>1, <1>3 DEF OffsetsOf

\* ... and none has been before, as long as the object is in use or in the pool.
LEMMA DestroysWell ==
    ASSUME Ready, NEW o \in Obj, obj[o].st = "live", ~Ended(o, obj[o], reuse.vec), ~Outgrown
    PROVE  WellDestroyed(Destroy(schema, obj[o].mem, schema.dtors), o)
  <1>1. PICK r, mem, C : mem = obj[o].mem /\ r = obj[o] /\ C = OffsIn(cleaners, o)
        OBVIOUS
  <1>2. Alive(schema.slots, r, C, FALSE)
    <2>1. Ended(o, r, reuse.vec) = FALSE
          BY <1>1 DEF Ended
    <2> QED
        BY <1>1, <2>1, ReadyFor DEF ObjOK
  <1>3. \A i \in DOMAIN mem : mem[i] \in {"clean", "dirty"}
        BY <1>1, <1>2 DEF Alive, Kept
  <1>4. PICK m : m = Destroy(schema, mem, schema.dtors)
        OBVIOUS
  <1>5. \A i \in DOMAIN m : m[i] # "torn"
        BY <1>3, <1>4 DEF Destroy
  <1> QED
      BY <1>1, <1>4, <1>5, DtorsThere DEF WellDestroyed

LEMMA DeleteExcused ==
    ASSUME Ready, NEW o \in Obj, Delete(o), proc' = "undefined"
    PROVE  Excused'
  <1>1. PICK m : m = Destroy(schema, obj[o].mem, schema.dtors)
        OBVIOUS
  <1>2. /\ obj[o].st = "live" /\ obj[o].how = "heap" /\ schema' = schema /\ meta' = meta /\ obj' = obj
        /\ ~WellDestroyed(m, o) \/ obj[o].cap # schema.size
        BY <1>1 DEF Delete, schemaVars, Outcome, Ready
  <1>3. ~Ended(o, obj[o], reuse.vec)
        BY <1>2 DEF Ended, Reusable
  <1>4. Outgrown
        BY <1>1, <1>2, <1>3, DestroysWell, NotOutgrown
  <1>5. Outgrown'
        BY <1>2, <1>4 DEF Outgrown
  <1> QED
      BY <1>5 DEF Excused

LEMMA EndReuseExcused ==
    ASSUME Ready, EndReuse, proc' = "undefined"
    PROVE  Excused'
  <1>1. PICK os : os = IF schema.trivDtor THEN {} ELSE ToSet(reuse.vec)
        OBVIOUS
  <1>2. PICK mem : mem = [o \in os |-> Destroy(schema, obj[o].mem, schema.dtors)]
        OBVIOUS
  <1>3. schema' = schema /\ meta' = meta /\ Outcome(\A o \in os : WellDestroyed(mem[o], o), WithMem(mem))
        BY <1>1, <1>2 DEF EndReuse, schemaVars
  <1>4. obj' = obj
        BY <1>3 DEF Outcome, Ready
  <1>5. PICK o \in os : ~WellDestroyed(mem[o], o)
        BY <1>3 DEF Outcome, Ready
  <1>6. o \in Obj /\ obj[o].st = "live" /\ ~Ended(o, obj[o], reuse.vec)
    <2>1. ReuseInv
          BY ReadyFor
    <2>2. o \in ToSet(reuse.vec) /\ reuse.vec \in Seq(Obj)
          BY <1>1, <1>5, <2>1 DEF ReuseInv
    <2>3. PICK i \in 1..Len(reuse.vec) : reuse.vec[i] = o
          BY <2>2 DEF ToSet
    <2> QED
        BY <2>1, <2>2, <2>3 DEF ReuseInv, Ended
  <1>7. ~WellDestroyed(Destroy(schema, obj[o].mem, schema.dtors), o)
        BY <1>2, <1>5
  <1>8. Outgrown
        BY <1>6, <1>7, DestroysWell
  <1>9. Outgrown'
        BY <1>3, <1>4, <1>8 DEF Outgrown
  <1> QED
      BY <1>9 DEF Excused

\* The cleaners of the pool and ~DynamicStruct destroy each field once.
LEMMA OnceInPool ==
    ASSUME Ready, NEW pool \in {"serial", "arena"}, NEW o \in Obj,
           obj[o].st = "live", obj[o].pool = pool, NEW m, NEW w,
           m = Destroy(schema, obj[o].mem, OffsIn(cleaners, o)),
           w = IF Whole \in OffsIn(cleaners, o) THEN Destroy(schema, m, schema.dtors) ELSE m,
           NEW j \in DOMAIN w
    PROVE  w[j] # "torn"
  <1> PICK r, C, slots, e : r = obj[o] /\ C = OffsIn(cleaners, o) /\ slots = schema.slots
                            /\ e = Ended(o, obj[o], reuse.vec)
      OBVIOUS
  <1>1. DtorInv /\ Alive(slots, r, C, e)
        BY ReadyFor DEF ObjOK
  <1>2. /\ DOMAIN m = DOMAIN r.mem /\ DOMAIN w = DOMAIN r.mem /\ DOMAIN r.mem \subseteq 1..Len(slots)
        BY <1>1 DEF Destroy, Alive
  <1> PICK d, st, s : d = DeclOf(slots[j]) /\ st = r.mem[j] /\ s = slots[j]
      OBVIOUS
  <1>3. r.how \in {"pool", "reuse", "rebuilt"} /\ (Whole \in C <=> r.how = "pool")
        BY <1>1 DEF Alive
  <1>4. r.how = "pool" => e = FALSE
        BY DEF Ended, Reusable
  <1>5. /\ s.off \in C <=> ByPool(d, r.how)
        /\ st \in IF e /\ Own(d) THEN {"dead"} ELSE {"clean", "dirty"}
        BY <1>1, <1>2, <1>3 DEF Alive, Kept
  <1>6. s.off \in schema.dtors <=> Own(d)
        BY <1>1, <1>2 DEF DtorInv
  <1>7. /\ m[j] = IF s.off \notin C THEN st ELSE IF st \in {"clean", "dirty"} THEN "dead" ELSE "torn"
        /\ w[j] = IF Whole \in C
                    THEN IF s.off \notin schema.dtors THEN m[j]
                         ELSE IF m[j] \in {"clean", "dirty"} THEN "dead" ELSE "torn"
                    ELSE m[j]
        BY <1>2 DEF Destroy
  <1>8. ~(ByPool(d, r.how) /\ Own(d))
        BY DEF ByPool, Own
  <1> QED
      BY <1>3, <1>4, <1>5, <1>6, <1>7, <1>8

LEMMA EndOfPoolExcused ==
    ASSUME Ready, NEW pool \in {"serial", "arena"}, EndOfPool(pool), proc' = "undefined"
    PROVE  Excused'
  <1>1. PICK os : os = {o \in Obj : obj[o].st = "live" /\ obj[o].pool = pool}
        OBVIOUS
  <1>2. PICK mem : mem = [o \in os |->
                  LET m == Destroy(schema, obj[o].mem, OffsIn(cleaners, o)) IN
                    IF Whole \in OffsIn(cleaners, o) THEN Destroy(schema, m, schema.dtors) ELSE m]
        OBVIOUS
  <1>3. schema' = schema /\ meta' = meta
        BY DEF EndOfPool, schemaVars
  <1>4. obj' = obj
        BY DEF EndOfPool, Outcome, Ready
  <1>d. PICK D : D = (\A o \in os : /\ \A i \in DOMAIN mem[o] : mem[o][i] # "torn"
                                    /\ Whole \in OffsIn(cleaners, o) => WellDestroyed(mem[o], o))
        OBVIOUS
  <1>e. ~D
        BY <1>1, <1>2, <1>d DEF EndOfPool, Outcome, Ready, OffsIn
  <1>5. PICK o \in os : \/ \E i \in DOMAIN mem[o] : mem[o][i] = "torn"
                        \/ Whole \in OffsIn(cleaners, o) /\ ~WellDestroyed(mem[o], o)
        BY <1>d, <1>e
  <1>6. o \in Obj /\ obj[o].st = "live" /\ obj[o].pool = pool
        BY <1>1
  <1>7. PICK m, w : m = Destroy(schema, obj[o].mem, OffsIn(cleaners, o)) /\ w = mem[o]
        OBVIOUS
  <1>8. w = IF Whole \in OffsIn(cleaners, o) THEN Destroy(schema, m, schema.dtors) ELSE m
        BY <1>2, <1>7
  <1>9. \A i \in DOMAIN w : w[i] # "torn"
        BY <1>6, <1>7, <1>8, OnceInPool
  <1>10. ~(schema.dtors \subseteq OffsetsOf(schema, obj[o].mem))
         BY <1>5, <1>7, <1>9 DEF WellDestroyed
  <1>11. Outgrown
         BY <1>6, <1>10, DtorsThere
  <1>12. Outgrown'
         BY <1>3, <1>4, <1>11 DEF Outgrown
  <1> QED
      BY <1>12 DEF Excused

\* Every object finds an entry for each of its fields.
LEMMA UpdateExcused ==
    ASSUME Ready, UpdateMetadata, proc' = "undefined"
    PROVE  Excused'
  <1>1. PICK n : n = IF meta.set THEN meta.n ELSE Len(schema.slots)
        OBVIOUS
  <1>2. /\ schema' = schema /\ obj' = obj /\ meta'.set = TRUE /\ meta'.n = n
        /\ ~(\A o \in ToSet(reuse.vec) : EntriesFound(o, n))
        BY <1>1 DEF UpdateMetadata, schemaVars
  <1>3. PICK o \in ToSet(reuse.vec), i \in MetaSlots(schema) : ~(i <= n /\ i \in DOMAIN obj[o].mem)
        BY <1>2 DEF EntriesFound
  <1>4. o \in Obj /\ obj[o].st = "live"
    <2>1. ReuseInv
          BY ReadyFor
    <2>2. PICK k \in 1..Len(reuse.vec) : reuse.vec[k] = o
          BY <1>3, <2>1 DEF ToSet, ReuseInv
    <2> QED
        BY <2>1, <2>2 DEF ReuseInv
  <1>5. i \in 1..Len(schema.slots) /\ Len(schema.slots) \in Nat /\ meta.n \in Nat
        BY <1>3, ReadyFor DEF MetaSlots
  <1>6. CASE i \notin DOMAIN obj[o].mem
    <2>1. obj[o].cap # schema.size \/ DOMAIN obj[o].mem # 1..Len(schema.slots)
          BY <1>5, <1>6
    <2>2. PICK mem : mem = obj[o].mem
          OBVIOUS
    <2>3. mem \in Seq(SlotState) /\ Len(mem) <= Len(schema.slots)
          BY <1>4, <2>2, ReadyFor DEF MemOK
    <2>4. Len(mem) < Len(schema.slots)
          BY <1>5, <1>6, <2>2, <2>3
    <2>5. Outgrown'
          BY <1>2, <1>4, <2>2, <2>4 DEF Outgrown
    <2> QED
        BY <2>5 DEF Excused
  <1>7. CASE ~(i <= n)
    <2>1. n < Len(schema.slots)
          BY <1>1, <1>5, <1>7
    <2>2. Outgrown'
          BY <1>2, <2>1 DEF Outgrown
    <2> QED
        BY <2>2 DEF Excused
  <1> QED
      BY <1>3, <1>6, <1>7

\* The metadata are those of the schema.
LEMMA RebuildExcused ==
    ASSUME Ready, Rebuild, proc' = "undefined"
    PROVE  Excused'
  <1>1. PICK pool : pool = reuse.pool
        OBVIOUS
  <1>v. PICK vec \in [1..meta.size -> {o \in Obj : obj[o].st = "none"}] :
          /\ misused' = (misused \/ (ToSet(vec) # {} /\ WrongPool(schema, pool)))
          /\ reuse' = [st |-> "live", pool |-> pool, vec |-> vec, use_num |-> 0]
          /\ \E base \in Bases(pool) :
               proc' = IF ToSet(vec) = {} \/ (WellMade(pool, base) /\ MetadataFound(schema, meta.n))
                         THEN "up" ELSE "undefined"
        BY <1>1 DEF Rebuild
  <1>2. PICK base \in Bases(pool) :
          ~(ToSet(vec) = {} \/ (WellMade(pool, base) /\ MetadataFound(schema, meta.n)))
        BY <1>v
  <1>3. schema' = schema /\ cls' = cls /\ meta' = meta /\ meta.set
        BY DEF Rebuild, schemaVars
  <1>4. CASE WrongPool(schema, pool)
        BY <1>v, <1>2, <1>4 DEF Excused
  <1>5. CASE ~WellMade(pool, base) /\ ~WrongPool(schema, pool)
    <2>1. PICK i \in DOMAIN schema.slots :
             /\ Decl[schema.slots[i].name].align > MetaSize
             /\ i <= Len(cls.members) \/ pool = "arena"
          BY <1>5, MakesWell
    <2>2. reuse'.pool = pool
          BY <1>v
    <2>3. Overaligned'
          BY <1>3, <2>1, <2>2 DEF Overaligned
    <2> QED
        BY <2>3 DEF Excused
  <1>6. CASE ~MetadataFound(schema, meta.n)
    <2>1. LayoutInv /\ FieldInv /\ meta.n \in Nat /\ Len(schema.slots) \in Nat
          BY ReadyFor
    <2>2. CASE meta.n < Len(schema.slots)
      <3>1. Outgrown'
            BY <1>3, <2>2 DEF Outgrown
      <3> QED
          BY <3>1 DEF Excused
    <2>3. CASE Len(schema.slots) <= meta.n
      <3>1. MergedBefore
            BY <1>6, <2>1, <2>3, FoundOrMerged
      <3>2. MergedBefore'
            BY <1>3, <3>1 DEF MergedBefore, MetaSlots
      <3> QED
          BY <3>2 DEF Excused
    <2> QED
        BY <2>1, <2>2, <2>3
  <1> QED
      BY <1>2, <1>4, <1>5, <1>6

LEMMA DefinedNext ==
    UseInv /\ FieldInv /\ DataInv /\ (LayoutFits => DefinedIfUsedRight) /\ [Next]_vars
      => (LayoutFits => DefinedIfUsedRight)'
  <1> SUFFICES ASSUME UseInv, FieldInv, DataInv, LayoutFits => DefinedIfUsedRight, [Next]_vars,
                      LayoutFits', proc' = "undefined"
               PROVE  Excused'
      BY DEF DefinedIfUsedRight, Excused
  <1>1. CASE RegisterMember \/ MemberEnd \/ \E t \in Thread :
               (\E n \in Dynamic : Find(t, n)) \/ Layout(t) \/ Hooks(t) \/ Emplace(t)
        BY <1>1 DEF RegisterMember, MemberEnd, Find, Layout, Hooks, Emplace
  <1>2. CASE AppRace \/ \E t \in Thread : FindRace(t)
        BY <1>2 DEF AppRace, FindRace, Crash, Stop, Excused
  <1>3. CASE Application /\ ~AppRace
    <2>1. proc = "up" /\ schema' = schema
          BY <1>3, ApplicationFrame DEF schemaVars
    <2>2. LayoutFits
          BY <2>1 DEF LayoutFits
    <2>3. CASE Disordered
      <3>1. Disordered'
            BY <2>1, <2>3 DEF Disordered
      <3> QED
          BY <3>1 DEF Excused
    <2>4. CASE ~Disordered
      <3>1. Ready
            BY <2>1, <2>2, <2>4 DEF Ready
      <3>2. CASE GetOld \/ \E pool \in {"serial", "arena"} : NewReuse(pool)
            BY <3>2 DEF GetOld, NewReuse
      <3>3. CASE \E o \in Obj : Create(o) \/ GetNew(o) \/ \E pool \in {"serial", "arena"} : CreateWithPool(o, pool)
            BY <3>1, <3>3, MakeExcused DEF Create, GetNew, CreateWithPool
      <3>4. CASE Reconstruct \/ \E o \in Obj : Clear(o)
            BY <3>1, <3>4, ReclearExcused
      <3>5. CASE \E o \in Obj : Delete(o) \/ \E f \in acc : Use(o, f)
            BY <3>1, <3>5, DeleteExcused, UseExcused
      <3>6. CASE EndReuse \/ UpdateMetadata \/ Rebuild
            BY <3>1, <3>6, EndReuseExcused, UpdateExcused, RebuildExcused
      <3>7. CASE \E pool \in {"serial", "arena"} : EndOfPool(pool)
            BY <3>1, <3>7, EndOfPoolExcused
      <3> QED
          BY <1>3, <3>2, <3>3, <3>4, <3>5, <3>6, <3>7 DEF Application
    <2> QED
        BY <2>3, <2>4
  <1>4. CASE UNCHANGED vars
    <2> USE <1>4 DEF vars, schemaVars, regVars, useVars
    <2>1. LayoutFits /\ proc = "undefined"
          BY DEF LayoutFits
    <2>2. Excused
          BY <2>1 DEF DefinedIfUsedRight, Excused
    <2>3. Disordered' = Disordered /\ Outgrown' = Outgrown
          BY DEF Disordered, Outgrown
    <2>4. Overaligned' = Overaligned
          BY DEF Overaligned
    <2>5. MergedBefore' = MergedBefore
          BY DEF MergedBefore, MetaSlots
    <2> QED
        BY <2>2, <2>3, <2>4, <2>5 DEF Excused
  <1>5. CASE \E n \in Name : GetField(n)
        BY <1>4, <1>5 DEF GetField, Stop
  <1> QED
      BY <1>1, <1>2, <1>3, <1>4, <1>5 DEF Next, RegisterField

\* Constructions, uses, clearings, rebuildings and destructions of objects are
\* defined behaviour unless one of the conditions that DefinedIfUsedRight names is
\* broken, for any classes, declarations, threads and objects, as long as the size
\* of the schema is one that a size_t holds: where the fields of a hook are merged
\* its length would wrap around otherwise.
THEOREM Defined == Spec => [](LayoutFits => DefinedIfUsedRight)
  <1>1. Init => (LayoutFits => DefinedIfUsedRight)
        BY DEF Init, DefinedIfUsedRight
  <1>2. /\ UseInv /\ FieldInv /\ DataInv /\ (LayoutFits => DefinedIfUsedRight) /\ [Next]_vars
        => (LayoutFits => DefinedIfUsedRight)'
        BY DefinedNext
  <1> QED
      BY <1>1, <1>2, DataInvHolds, PTL DEF Spec
================================================================================
