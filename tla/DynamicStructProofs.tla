-------------------------- MODULE DynamicStructProofs --------------------------
(***************************************************************************)
(* For any fields, classes, threads and objects: registrations do not      *)
(* overlap, and all threads use the same memory for a name.                *)
(***************************************************************************)
EXTENDS DynamicStruct, TLAPS, WellFoundedInduction

\* The record BaseSchema, a registration, and the end of its memory.
Parts == {"align", "size", "unaligned", "trivDtor", "map", "slots", "hooks", "dtors"}
Slot == [name : Name, off : Nat]
End(s) == s.off + Decl[s.name].size
Apart(s, r) == End(s) <= r.off \/ End(r) <= s.off

\* What is known of the schema whatever thread is at work on it: registrations
\* are apart and end before unaligned, where the next one is put, once the members
\* of the class, which have their own places, are all there.
SchemaInv ==
    /\ DOMAIN schema = Parts /\ cls \in Class
    /\ schema.align \in Nat \ {0} /\ schema.size \in Nat
    /\ schema.unaligned \in Nat /\ MetaSize <= schema.unaligned /\ schema.unaligned <= schema.size
    /\ schema.slots \in Seq(Slot)
    /\ \A i, j \in 1..Len(schema.slots) : i # j => Apart(schema.slots[i], schema.slots[j])
    /\ proc # "static" => \A i \in 1..Len(schema.slots) : End(schema.slots[i]) + MetaSize <= schema.unaligned
StaticInv ==
    proc = "static" =>
        /\ schema.unaligned = MetaSize /\ Len(schema.slots) <= Len(cls.members)
        /\ \A i \in 1..Len(schema.slots) : schema.slots[i] = cls.members[i]

\* A thread in the critical section is alone there, and what it has laid out is
\* its own.
RegInv ==
    /\ reg \in [Thread -> [pc : {"idle", "lock", "hooks", "emplace"},
                           name : Name \cup {Nobody}, off : Nat]]
    /\ \A t \in Thread : reg[t].pc # "idle" => proc # "static" /\ reg[t].name \in Name
    /\ \A t \in Thread : reg[t].pc \in {"hooks", "emplace"} => mutex = {t}
    /\ \A t \in Thread : reg[t].pc = "hooks" =>
          /\ End(reg[t]) + MetaSize <= schema.unaligned
          /\ \A i \in 1..Len(schema.slots) : End(schema.slots[i]) <= reg[t].off

\* Fields are in the map under their names, and accessors are those in the map.
AccInv ==
    /\ \A n \in DOMAIN schema.map : schema.map[n].name = n
    /\ \A f \in acc : f.name \in DOMAIN schema.map /\ f = schema.map[f.name]

LayoutInv == SchemaInv /\ StaticInv /\ RegInv /\ AccInv
--------------------------------------------------------------------------------
LEMMA AlignUpUp == ASSUME NEW x \in Int, NEW a \in Nat \ {0}
                   PROVE  AlignUp(x, a) \in Int /\ AlignUp(x, a) >= x
  BY DEF AlignUp

LEMMA LargerNat == ASSUME NEW x \in Nat \ {0}, NEW y \in Nat \ {0}
                   PROVE  Larger(x, y) \in Nat \ {0}
  BY DEF Larger

LEMMA SpaceParts ==
    ASSUME NEW S, DOMAIN S = Parts, NEW n \in Name, S.unaligned \in Nat, S.align \in Nat \ {0}
    PROVE  /\ DOMAIN WithSpace(S, n) = Parts
           /\ WithSpace(S, n).slots = S.slots
           /\ WithSpace(S, n).map = S.map
           /\ WithSpace(S, n).align \in Nat \ {0}
           /\ WithSpace(S, n).unaligned \in Nat
           /\ WithSpace(S, n).size \in Nat
           /\ OffsetFor(S, n) \in Int /\ S.unaligned <= OffsetFor(S, n) + MetaSize
           /\ WithSpace(S, n).unaligned = OffsetFor(S, n) + MetaSize + Decl[n].size
           /\ WithSpace(S, n).unaligned <= WithSpace(S, n).size
  <1> DEFINE end == AlignUp(S.unaligned, Decl[n].align) + Decl[n].size
             al == Larger(S.align, Decl[n].align)
             T == WithSpace(S, n)
  <1>1. Decl[n].size \in Nat \ {0} /\ Decl[n].align \in Nat \ {0}
        BY DeclAssumption DEF Declaration
  <1>2. AlignUp(S.unaligned, Decl[n].align) \in Int /\ AlignUp(S.unaligned, Decl[n].align) >= S.unaligned
        BY <1>1, AlignUpUp
  <1>3. end \in Nat /\ al \in Nat \ {0}
        BY <1>1, <1>2, LargerNat
  <1>4. AlignUp(end, al) \in Int /\ AlignUp(end, al) >= end
        BY <1>3, AlignUpUp
  <1>5. /\ DOMAIN T = Parts /\ T.slots = S.slots /\ T.map = S.map
        /\ T.unaligned = end /\ T.align = al /\ T.size = AlignUp(end, al)
        BY DEF WithSpace, Parts
  <1>6. OffsetFor(S, n) = AlignUp(S.unaligned, Decl[n].align) - MetaSize
        BY DEF OffsetFor
  <1> HIDE DEF end, al, T
  <1>7. end = AlignUp(S.unaligned, Decl[n].align) + Decl[n].size
        BY DEF end
  <1>8. MetaSize \in Nat
        BY MetaAssumption
  <1> QED BY <1>1, <1>2, <1>3, <1>4, <1>5, <1>6, <1>7, <1>8 DEF T

LEMMA Ends == ASSUME NEW s, s.name \in Name, s.off \in Nat
              PROVE  End(s) \in Nat /\ s.off < End(s)
  <1>1. Decl[s.name].size \in Nat \ {0}
        BY DeclAssumption DEF Declaration
  <1> QED BY <1>1 DEF End

LEMMA HookParts ==
    ASSUME NEW S, DOMAIN S = Parts, NEW n \in Name, NEW off \in Nat, S.slots \in Seq(Slot)
    PROVE  /\ DOMAIN WithHooks(S, n, off) = Parts /\ WithHooks(S, n, off).map = S.map
           /\ WithHooks(S, n, off).align = S.align
           /\ WithHooks(S, n, off).unaligned = S.unaligned
           /\ WithHooks(S, n, off).size = S.size
           /\ WithHooks(S, n, off).slots = Append(S.slots, [name |-> n, off |-> off])
  BY DEF WithHooks, Parts

LEMMA EmplaceParts ==
    ASSUME NEW S, DOMAIN S = Parts, NEW n \in Name, NEW off \in Nat,
           \A k \in DOMAIN S.map : S.map[k].name = k
    PROVE  /\ DOMAIN Emplaced(S, n, off) = Parts /\ Emplaced(S, n, off).slots = S.slots
           /\ Emplaced(S, n, off).align = S.align
           /\ Emplaced(S, n, off).unaligned = S.unaligned
           /\ Emplaced(S, n, off).size = S.size
           /\ DOMAIN Emplaced(S, n, off).map = DOMAIN S.map \cup {n}
           /\ \A k \in DOMAIN S.map : Emplaced(S, n, off).map[k] = S.map[k]
           /\ Emplaced(S, n, off).map[n].name = n
  BY DEF Emplaced, Parts, Field

LEMMA InitLayout == Init => LayoutInv
  <1> SUFFICES ASSUME Init PROVE LayoutInv
      OBVIOUS
  <1>1. /\ DOMAIN schema = Parts /\ schema.align = MetaSize /\ schema.size = MetaSize
        /\ schema.unaligned = MetaSize /\ schema.map = << >> /\ schema.slots = << >>
        BY DEF Init, EmptySchema, Parts
  <1>2. SchemaInv
        BY <1>1, MetaAssumption DEF Init, SchemaInv
  <1>3. Len(cls.members) \in Nat
        BY ClassAssumption DEF Init
  <1>4. StaticInv
        BY <1>1, <1>3 DEF StaticInv
  <1>5. RegInv
        BY DEF RegInv, Init, Idle
  <1>6. AccInv
        BY <1>1 DEF AccInv, Init
  <1> QED BY <1>2, <1>4, <1>5, <1>6 DEF LayoutInv

LEMMA SizeParts ==
    ASSUME NEW S, DOMAIN S = Parts, S.align \in Nat \ {0}, S.unaligned \in Nat,
           NEW size \in Nat, NEW align \in Nat \ {0}
    PROVE  /\ DOMAIN SetSizeAndAlign(S, size, align) = Parts
           /\ SetSizeAndAlign(S, size, align).slots = S.slots
           /\ SetSizeAndAlign(S, size, align).map = S.map
           /\ SetSizeAndAlign(S, size, align).align \in Nat \ {0}
           /\ SetSizeAndAlign(S, size, align).size \in Nat
           /\ SetSizeAndAlign(S, size, align).unaligned = S.unaligned + size
           /\ SetSizeAndAlign(S, size, align).unaligned <= SetSizeAndAlign(S, size, align).size
  <1> DEFINE T == SetSizeAndAlign(S, size, align)
             al == Larger(S.align, align)
  <1>1. al \in Nat \ {0}
        BY LargerNat
  <1>2. AlignUp(S.unaligned + size, al) \in Int /\ AlignUp(S.unaligned + size, al) >= S.unaligned + size
        BY SMTT(20), <1>1, AlignUpUp
  <1>3. /\ DOMAIN T = Parts /\ T.slots = S.slots /\ T.map = S.map
        /\ T.unaligned = S.unaligned + size /\ T.align = al /\ T.size = AlignUp(S.unaligned + size, al)
        BY DEF SetSizeAndAlign, Parts
  <1> HIDE DEF T, al
  <1> QED BY <1>1, <1>2, <1>3 DEF T

\* One more registration that is apart from the others.
LEMMA OneMore ==
    ASSUME NEW q \in Seq(Slot), NEW s \in Slot,
           \A i, j \in 1..Len(q) : i # j => Apart(q[i], q[j]),
           \A i \in 1..Len(q) : Apart(q[i], s)
    PROVE  /\ Append(q, s) \in Seq(Slot) /\ Len(Append(q, s)) = Len(q) + 1
           /\ \A i \in 1..Len(q) : Append(q, s)[i] = q[i]
           /\ Append(q, s)[Len(q) + 1] = s
           /\ \A i, j \in 1..(Len(q) + 1) : i # j => Apart(Append(q, s)[i], Append(q, s)[j])
  <1>1. /\ Append(q, s) \in Seq(Slot) /\ Len(Append(q, s)) = Len(q) + 1 /\ Len(q) \in Nat
        /\ \A i \in 1..Len(q) : Append(q, s)[i] = q[i]
        /\ Append(q, s)[Len(q) + 1] = s
        OBVIOUS
  <1>2. \A i \in 1..(Len(q) + 1) : i \in 1..Len(q) \/ i = Len(q) + 1
        BY <1>1
  <1>3. \A i \in 1..Len(q) : Apart(s, q[i])
        BY DEF Apart
  <1> QED BY <1>1, <1>2, <1>3

\* A MEMBER line.
LEMMA MemberKeeps == LayoutInv /\ RegisterMember => LayoutInv'
  <1> SUFFICES ASSUME LayoutInv, RegisterMember PROVE LayoutInv'
      OBVIOUS
  <1> DEFINE k == Len(schema.slots)
             m == cls.members[k + 1]
  <1>a. /\ SchemaInv /\ StaticInv /\ RegInv /\ AccInv
        /\ proc = "static" /\ proc' = "static" /\ cls' = cls /\ mutex' = mutex /\ reg' = reg
        /\ k < Len(cls.members) /\ schema' = Member(schema, m.name, m.off)
        /\ acc' = acc \cup {schema'.map[m.name]}
        BY DEF RegisterMember, LayoutInv
  <1>s. /\ DOMAIN schema = Parts /\ schema.slots \in Seq(Slot) /\ cls \in Class
        /\ \A i, j \in 1..Len(schema.slots) : i # j => Apart(schema.slots[i], schema.slots[j])
        BY <1>a DEF SchemaInv
  <1>b. /\ cls.members \in Seq([name : Name, off : Nat]) /\ k \in Nat
        /\ k + 1 \in DOMAIN cls.members /\ m \in Slot
    <2>1. cls.members \in Seq([name : Name, off : Nat]) /\ k \in Nat
      <3>1. cls \in [members : Seq([name : Name, off : Nat]), size : Nat, align : Nat \ {0}]
            BY <1>s, ClassAssumption
      <3>2. Len(schema.slots) \in Nat
            BY <1>s
      <3> QED BY <3>1, <3>2
    <2>2. k + 1 \in DOMAIN cls.members
      <3>1. PICK s, n : s = cls.members /\ n = k
            OBVIOUS
      <3>2. s \in Seq([name : Name, off : Nat]) /\ n \in Nat /\ n < Len(s)
            BY <1>a, <2>1, <3>1, Zenon
      <3>3. n + 1 \in DOMAIN s
            BY <3>2
      <3> QED BY <3>1, <3>3, Zenon
    <2>3. m \in [name : Name, off : Nat]
      <3>1. cls.members \in Seq(Slot)
            BY <2>1 DEF Slot
      <3>2. \A i \in DOMAIN cls.members : cls.members[i] \in Slot
            BY <3>1
      <3> QED BY <2>2, <3>2 DEF Slot
    <2> QED BY <2>1, <2>2, <2>3 DEF Slot
  <1>c. m.name \in Name /\ m.off \in Nat /\ m = [name |-> m.name, off |-> m.off]
        BY <1>b DEF Slot
  <1>d. k = Len(schema.slots) /\ m = cls.members[k + 1]
        OBVIOUS
  <1> HIDE DEF k, m
  <1>1. CASE m.name \in DOMAIN schema.map
    <2>1. schema' = schema
          BY <1>1, <1>a DEF Member
    <2>2. SchemaInv' /\ StaticInv' /\ RegInv'
          BY <1>a, <2>1 DEF SchemaInv, StaticInv, RegInv
    <2>3. AccInv'
          BY <1>1, <1>a, <2>1 DEF AccInv
    <2> QED BY <2>2, <2>3 DEF LayoutInv
  <1>2. CASE m.name \notin DOMAIN schema.map
    <2> DEFINE T == WithHooks(schema, m.name, m.off)
    <2>1. schema' = Emplaced(T, m.name, m.off)
          BY <1>2, <1>a DEF Member
    <2>2. /\ DOMAIN T = Parts /\ T.map = schema.map
          /\ T.align = schema.align /\ T.unaligned = schema.unaligned /\ T.size = schema.size
          /\ T.slots = Append(schema.slots, m)
          BY <1>s, <1>c, HookParts
    <2> HIDE DEF T
    <2>3. \A n \in DOMAIN T.map : T.map[n].name = n
          BY <1>a, <2>2 DEF AccInv
    <2>4. /\ DOMAIN schema' = Parts /\ schema'.slots = Append(schema.slots, m)
          /\ schema'.align = schema.align /\ schema'.unaligned = schema.unaligned
          /\ schema'.size = schema.size
          /\ DOMAIN schema'.map = DOMAIN schema.map \cup {m.name}
          /\ \A n \in DOMAIN schema.map : schema'.map[n] = schema.map[n]
          /\ schema'.map[m.name].name = m.name
          BY <1>c, <2>1, <2>2, <2>3, EmplaceParts
    <2>5. \A i \in 1..k : Apart(schema.slots[i], m)
      <3>1. SUFFICES ASSUME NEW i \in 1..k PROVE Apart(schema.slots[i], m)
            OBVIOUS
      <3>2. schema.slots[i] = cls.members[i] /\ i \in DOMAIN cls.members /\ i # k + 1
        <4>1. DOMAIN cls.members = 1..Len(cls.members) /\ Len(cls.members) \in Nat
              BY <1>b
        <4>2. schema.slots[i] = cls.members[i]
              BY <1>a, <1>d DEF StaticInv
        <4> QED BY <1>a, <1>b, <4>1, <4>2
      <3> QED BY <1>b, <1>d, <1>s, <3>2, MembersAssumption DEF Apart, End
    <2>6. /\ schema'.slots \in Seq(Slot) /\ Len(schema'.slots) = k + 1
          /\ \A i \in 1..k : schema'.slots[i] = schema.slots[i]
          /\ schema'.slots[k + 1] = m
          /\ \A i, j \in 1..(k + 1) : i # j => Apart(schema'.slots[i], schema'.slots[j])
      <3>1. \A i \in 1..Len(schema.slots) : Apart(schema.slots[i], m)
            BY <1>d, <2>5
      <3>2. m \in Slot
            BY <1>b
      <3>3. /\ Append(schema.slots, m) \in Seq(Slot)
            /\ Len(Append(schema.slots, m)) = Len(schema.slots) + 1
            /\ \A i \in 1..Len(schema.slots) : Append(schema.slots, m)[i] = schema.slots[i]
            /\ Append(schema.slots, m)[Len(schema.slots) + 1] = m
            /\ \A i, j \in 1..(Len(schema.slots) + 1) :
                 i # j => Apart(Append(schema.slots, m)[i], Append(schema.slots, m)[j])
            BY <1>s, <3>1, <3>2, OneMore
      <3> QED BY <1>d, <2>4, <3>3
    <2>7. SchemaInv'
          BY <1>a, <2>4, <2>6 DEF SchemaInv
    <2>8. StaticInv'
      <3>1. k + 1 <= Len(cls.members) /\ \A i \in 1..(k + 1) : i \in 1..k \/ i = k + 1
            BY <1>a, <1>b
      <3>2. schema'.unaligned = MetaSize /\ \A i \in 1..k : schema.slots[i] = cls.members[i]
            BY <1>a, <1>d, <2>4 DEF StaticInv
      <3>3. \A i \in 1..(k + 1) : schema'.slots[i] = cls.members[i]
            BY <1>d, <2>6, <3>1, <3>2
      <3> QED BY <1>a, <2>6, <3>1, <3>2, <3>3 DEF StaticInv
    <2>9. RegInv'
          BY <1>a DEF RegInv
    <2>10. AccInv'
           BY <1>a, <2>4 DEF AccInv
    <2> QED BY <2>7, <2>8, <2>9, <2>10 DEF LayoutInv
  <1> QED BY <1>1, <1>2

\* MEMBER_END.
LEMMA MemberEndKeeps == LayoutInv /\ MemberEnd => LayoutInv'
  <1> SUFFICES ASSUME LayoutInv, MemberEnd PROVE LayoutInv'
      OBVIOUS
  <1>a. /\ SchemaInv /\ StaticInv /\ RegInv /\ AccInv
        /\ proc = "static" /\ proc' = "up" /\ cls' = cls /\ mutex' = mutex /\ reg' = reg /\ acc' = acc
        /\ Len(schema.slots) = Len(cls.members)
        /\ schema' = SetSizeAndAlign(schema, cls.size, cls.align)
        BY DEF MemberEnd, LayoutInv, regVars
  <1>b. cls \in Class /\ cls.size \in Nat /\ cls.align \in Nat \ {0} /\ MetaSize \in Nat
        BY <1>a, ClassAssumption, MetaAssumption DEF SchemaInv
  <1>c. /\ DOMAIN schema' = Parts /\ schema'.slots = schema.slots /\ schema'.map = schema.map
        /\ schema'.align \in Nat \ {0} /\ schema'.size \in Nat
        /\ schema'.unaligned = MetaSize + cls.size /\ schema'.unaligned <= schema'.size
    <2>1. /\ DOMAIN schema = Parts /\ schema.align \in Nat \ {0}
          /\ schema.unaligned \in Nat
          BY <1>a DEF SchemaInv
    <2>2. /\ DOMAIN SetSizeAndAlign(schema, cls.size, cls.align) = Parts
          /\ SetSizeAndAlign(schema, cls.size, cls.align).slots = schema.slots
          /\ SetSizeAndAlign(schema, cls.size, cls.align).map = schema.map
          /\ SetSizeAndAlign(schema, cls.size, cls.align).align \in Nat \ {0}
          /\ SetSizeAndAlign(schema, cls.size, cls.align).size \in Nat
          /\ SetSizeAndAlign(schema, cls.size, cls.align).unaligned = schema.unaligned + cls.size
          /\ SetSizeAndAlign(schema, cls.size, cls.align).unaligned
               <= SetSizeAndAlign(schema, cls.size, cls.align).size
      <3>1. cls.size \in Nat /\ cls.align \in Nat \ {0}
            BY <1>b
      <3> QED BY <2>1, <3>1, SizeParts
    <2>3. schema.unaligned = MetaSize
          BY <1>a DEF StaticInv
    <2> QED BY <1>a, <2>2, <2>3
  <1>1. \A i \in 1..Len(schema.slots) : End(schema.slots[i]) + MetaSize <= MetaSize + cls.size
    <2>1. SUFFICES ASSUME NEW i \in 1..Len(schema.slots)
                   PROVE  End(schema.slots[i]) + MetaSize <= MetaSize + cls.size
          OBVIOUS
    <2>2. schema.slots[i] = cls.members[i] /\ i \in DOMAIN cls.members /\ schema.slots[i] \in Slot
          BY <1>a, ClassAssumption DEF SchemaInv, StaticInv
    <2>3. End(schema.slots[i]) <= cls.size
          BY <1>b, <2>2, MembersAssumption DEF End
    <2>4. End(schema.slots[i]) \in Nat
          BY <2>2, Ends DEF Slot
    <2> QED BY <1>b, <2>3, <2>4
  <1>2. SchemaInv'
    <2>1. MetaSize <= schema'.unaligned /\ schema'.unaligned \in Nat
          BY <1>b, <1>c
    <2> QED BY <1>a, <1>b, <1>c, <1>1, <2>1 DEF SchemaInv
  <1>3. StaticInv' /\ AccInv'
        BY <1>a, <1>c DEF StaticInv, AccInv
  <1>4. RegInv'
        BY <1>a DEF RegInv
  <1> QED BY <1>2, <1>3, <1>4 DEF LayoutInv

\* What concerns neither the schema nor its registration.
LEMMA Frame ==
    LayoutInv /\ UNCHANGED schemaVars /\ proc # "static" /\ proc' # "static" => LayoutInv'
  <1> SUFFICES ASSUME LayoutInv, UNCHANGED schemaVars, proc # "static", proc' # "static" PROVE LayoutInv'
      OBVIOUS
  <1> USE DEF schemaVars, regVars, LayoutInv
  <1>1. SchemaInv'
        BY DEF SchemaInv
  <1>2. StaticInv' /\ AccInv'
        BY DEF StaticInv, AccInv
  <1>3. RegInv'
        BY DEF RegInv
  <1> QED BY <1>1, <1>2, <1>3

\* After a data race or abort() there is nothing left to be kept.
LEMMA StopKeeps == \A end \in {"aborted", "undefined"} : LayoutInv /\ Stop(end) => LayoutInv'
  <1> SUFFICES ASSUME NEW end \in {"aborted", "undefined"}, LayoutInv, Stop(end) PROVE LayoutInv'
      OBVIOUS
  <1>1. /\ DOMAIN schema' = Parts /\ schema'.align = MetaSize /\ schema'.size = MetaSize
        /\ schema'.unaligned = MetaSize /\ schema'.map = << >> /\ schema'.slots = << >>
        /\ proc' # "static" /\ cls' = cls /\ acc' = {} /\ reg' = [t \in Thread |-> Idle]
        BY DEF Stop, EmptySchema, Parts
  <1>2. SchemaInv'
        BY <1>1, MetaAssumption DEF SchemaInv, LayoutInv
  <1>3. StaticInv' /\ AccInv'
        BY <1>1 DEF StaticInv, AccInv
  <1>4. RegInv'
        BY <1>1 DEF RegInv, Idle
  <1> QED BY <1>2, <1>3, <1>4 DEF LayoutInv

LEMMA CrashKeeps == LayoutInv /\ Crash => LayoutInv'
  BY StopKeeps DEF Crash

\* get_field() finds the name, or does not.
LEMMA GetFieldKeeps == \A n \in Name : LayoutInv /\ GetField(n) => LayoutInv'
  <1> SUFFICES ASSUME NEW n \in Name, LayoutInv, GetField(n) PROVE LayoutInv'
      OBVIOUS
  <1>1. CASE Stop("aborted")
        BY <1>1, StopKeeps
  <1>2. CASE UNCHANGED vars
        BY <1>2, Frame DEF GetField, vars
  <1>3. CASE n \in DOMAIN schema.map
    <2>1. /\ SchemaInv /\ StaticInv /\ RegInv /\ AccInv
          /\ proc' = proc /\ schema' = schema /\ cls' = cls /\ mutex' = mutex /\ reg' = reg
          /\ acc' = acc \cup {schema.map[n]}
          BY <1>3 DEF GetField, LayoutInv
    <2>2. SchemaInv' /\ StaticInv' /\ RegInv'
          BY <2>1 DEF SchemaInv, StaticInv, RegInv
    <2>3. AccInv'
          BY <1>3, <2>1 DEF AccInv
    <2> QED BY <2>2, <2>3 DEF LayoutInv
  <1> QED BY <1>1, <1>2, <1>3 DEF GetField

\* register_field() finds the name, or sets out to register it.
LEMMA FindKeeps == \A t \in Thread, n \in Dynamic : LayoutInv /\ Find(t, n) => LayoutInv'
  <1> SUFFICES ASSUME NEW t \in Thread, NEW n \in Dynamic, LayoutInv, Find(t, n) PROVE LayoutInv'
      OBVIOUS
  <1>a. /\ SchemaInv /\ StaticInv /\ RegInv /\ AccInv
        /\ proc = "up" /\ proc' = proc /\ schema' = schema /\ cls' = cls /\ mutex' = mutex
        /\ n \in Name /\ reg[t].pc = "idle"
        BY ClassAssumption DEF Find, LayoutInv
  <1>1. SchemaInv' /\ StaticInv'
        BY <1>a DEF SchemaInv, StaticInv
  <1>2. CASE n \in DOMAIN schema.map
    <2>1. acc' = acc \cup {schema.map[n]} /\ reg' = reg
          BY <1>2 DEF Find
    <2>2. AccInv'
          BY <1>a, <1>2, <2>1 DEF AccInv
    <2>3. RegInv'
          BY <1>a, <2>1 DEF RegInv
    <2> QED BY <1>1, <2>2, <2>3 DEF LayoutInv
  <1>3. CASE n \notin DOMAIN schema.map
    <2>1. acc' = acc /\ reg' = [reg EXCEPT ![t] = [pc |-> "lock", name |-> n, off |-> 0]]
          BY <1>3 DEF Find
    <2>2. AccInv'
          BY <1>a, <2>1 DEF AccInv
    <2>3. RegInv'
          BY <1>a, <2>1 DEF RegInv
    <2> QED BY <1>1, <2>2, <2>3 DEF LayoutInv
  <1> QED BY <1>2, <1>3

\* add_field_and_caculate_size(), with the lock.
LEMMA LayoutKeeps == \A t \in Thread : LayoutInv /\ Layout(t) => LayoutInv'
  <1> SUFFICES ASSUME NEW t \in Thread, LayoutInv, Layout(t) PROVE LayoutInv'
      OBVIOUS
  <1> DEFINE n == reg[t].name
             off == OffsetFor(schema, n)
  <1>a. /\ SchemaInv /\ StaticInv /\ RegInv /\ AccInv
        /\ proc = "up" /\ proc' = proc /\ cls' = cls /\ acc' = acc /\ mutex = {} /\ mutex' = {t}
        /\ reg[t].pc = "lock" /\ schema' = WithSpace(schema, n)
        /\ reg' = [reg EXCEPT ![t].pc = "hooks", ![t].off = off]
        BY DEF Layout, LayoutInv
  <1>b. /\ DOMAIN schema = Parts /\ schema.unaligned \in Nat /\ schema.align \in Nat \ {0}
        /\ MetaSize <= schema.unaligned /\ n \in Name /\ MetaSize \in Nat
        /\ schema.slots \in Seq(Slot)
        /\ Decl[n].size \in Nat \ {0}
        BY <1>a, MetaAssumption, DeclAssumption DEF SchemaInv, RegInv, Declaration
  <1>c. /\ DOMAIN schema' = Parts /\ schema'.slots = schema.slots /\ schema'.map = schema.map
        /\ schema'.align \in Nat \ {0} /\ schema'.unaligned \in Nat /\ schema'.size \in Nat
        /\ off \in Int /\ schema.unaligned <= off + MetaSize
        /\ schema'.unaligned = off + MetaSize + Decl[n].size
        /\ schema'.unaligned <= schema'.size
    <2> HIDE DEF n
    <2> QED BY <1>a, <1>b, SpaceParts
  <1> HIDE DEF off
  <1>d. off \in Nat /\ schema.unaligned <= schema'.unaligned
        BY SMTT(20), <1>b, <1>c
  <1>e. \A i \in 1..Len(schema.slots) :
           /\ End(schema.slots[i]) \in Nat
           /\ End(schema.slots[i]) + MetaSize <= schema.unaligned
    <2>1. \A i \in 1..Len(schema.slots) : schema.slots[i] \in Slot
          BY <1>b
    <2>2. \A i \in 1..Len(schema.slots) : End(schema.slots[i]) \in Nat
          BY <2>1, Ends DEF Slot
    <2> QED BY <1>a, <2>2 DEF SchemaInv
  <1>1. SchemaInv'
    <2>1. \A i \in 1..Len(schema.slots) : End(schema.slots[i]) + MetaSize <= schema'.unaligned
          BY <1>b, <1>c, <1>d, <1>e
    <2>2. MetaSize <= schema'.unaligned
          BY <1>b, <1>c, <1>d
    <2> QED BY <1>a, <1>c, <2>1, <2>2 DEF SchemaInv
  <1>2. StaticInv' /\ AccInv'
        BY <1>a, <1>c DEF StaticInv, AccInv
  <1>3. RegInv'
    <2>1. /\ \A u \in Thread \ {t} : reg'[u] = reg[u] /\ reg[u].pc \notin {"hooks", "emplace"}
          /\ reg'[t].pc = "hooks" /\ reg'[t].name = n /\ reg'[t].off = off
          BY <1>a DEF RegInv
    <2>2. reg' \in [Thread -> [pc : {"idle", "lock", "hooks", "emplace"},
                              name : Name \cup {Nobody}, off : Nat]]
          BY <1>a, <1>d DEF RegInv
    <2>3. End(reg'[t]) + MetaSize <= schema'.unaligned
          BY SMTT(20), <1>b, <1>c, <1>d, <2>1 DEF End
    <2>4. \A i \in 1..Len(schema'.slots) : End(schema'.slots[i]) <= off
      <3>1. schema'.slots = schema.slots /\ MetaSize \in Nat /\ off \in Nat
            /\ schema.unaligned \in Nat /\ schema.unaligned <= off + MetaSize
            BY <1>b, <1>c, <1>d
      <3>2. SUFFICES ASSUME NEW i \in 1..Len(schema.slots) PROVE End(schema.slots[i]) <= off
            BY <3>1
      <3>3. PICK e : e = End(schema.slots[i])
            OBVIOUS
      <3>4. e \in Nat /\ e + MetaSize <= schema.unaligned
            BY <1>e, <3>2, <3>3
      <3>5. e <= off
            BY <3>1, <3>4
      <3> QED BY <3>3, <3>5
    <2> QED BY <1>a, <1>b, <2>1, <2>2, <2>3, <2>4 DEF RegInv
  <1> QED BY <1>1, <1>2, <1>3 DEF LayoutInv

\* The functions of the new field.
LEMMA HooksKeeps == \A t \in Thread : LayoutInv /\ Hooks(t) => LayoutInv'
  <1> SUFFICES ASSUME NEW t \in Thread, LayoutInv, Hooks(t) PROVE LayoutInv'
      OBVIOUS
  <1> DEFINE n == reg[t].name
             off == reg[t].off
             m == [name |-> n, off |-> off]
  <1>a. /\ SchemaInv /\ StaticInv /\ RegInv /\ AccInv
        /\ proc = "up" /\ proc' = proc /\ cls' = cls /\ acc' = acc /\ mutex' = mutex
        /\ reg[t].pc = "hooks" /\ schema' = WithHooks(schema, n, off)
        /\ reg' = [reg EXCEPT ![t].pc = "emplace"]
        BY DEF Hooks, LayoutInv
  <1>b. /\ DOMAIN schema = Parts /\ schema.slots \in Seq(Slot)
        /\ \A i, j \in 1..Len(schema.slots) : i # j => Apart(schema.slots[i], schema.slots[j])
        BY <1>a DEF SchemaInv
  <1>c. n \in Name /\ off \in Nat /\ m \in Slot
        BY <1>a DEF RegInv, Slot
  <1>d. /\ End(m) + MetaSize <= schema.unaligned
        /\ \A i \in 1..Len(schema.slots) : End(schema.slots[i]) <= m.off
        BY <1>a DEF RegInv, End
  <1>e. /\ DOMAIN schema' = Parts /\ schema'.map = schema.map
        /\ schema'.align = schema.align /\ schema'.unaligned = schema.unaligned
        /\ schema'.size = schema.size
        /\ schema'.slots = Append(schema.slots, m)
    <2> HIDE DEF n, off
    <2> QED BY <1>a, <1>b, <1>c, HookParts
  <1> HIDE DEF m
  <1>f. /\ Append(schema.slots, m) \in Seq(Slot)
        /\ Len(Append(schema.slots, m)) = Len(schema.slots) + 1
        /\ \A i \in 1..Len(schema.slots) : Append(schema.slots, m)[i] = schema.slots[i]
        /\ Append(schema.slots, m)[Len(schema.slots) + 1] = m
        /\ \A i, j \in 1..(Len(schema.slots) + 1) :
             i # j => Apart(Append(schema.slots, m)[i], Append(schema.slots, m)[j])
    <2>1. m \in Slot /\ \A i \in 1..Len(schema.slots) : Apart(schema.slots[i], m)
          BY <1>c, <1>d DEF Apart
    <2> QED BY <1>b, <2>1, OneMore
  <1>1. SchemaInv'
    <2>1. \A i \in 1..(Len(schema.slots) + 1) : i \in 1..Len(schema.slots) \/ i = Len(schema.slots) + 1
          BY <1>b
    <2>2. \A i \in 1..Len(schema.slots) : End(schema.slots[i]) + MetaSize <= schema.unaligned
          BY <1>a DEF SchemaInv
    <2>3. \A i \in 1..Len(schema'.slots) : End(schema'.slots[i]) + MetaSize <= schema'.unaligned
          BY <1>d, <1>e, <1>f, <2>1, <2>2
    <2>4. \A i, j \in 1..Len(schema'.slots) : i # j => Apart(schema'.slots[i], schema'.slots[j])
          BY <1>e, <1>f
    <2>5. schema'.slots \in Seq(Slot)
          BY <1>e, <1>f
    <2> QED BY <1>a, <1>e, <2>3, <2>4, <2>5 DEF SchemaInv
  <1>2. StaticInv' /\ AccInv'
        BY <1>a, <1>e DEF StaticInv, AccInv
  <1>3. RegInv'
    <2>1. /\ \A u \in Thread \ {t} : reg'[u] = reg[u] /\ reg[u].pc \notin {"hooks", "emplace"}
          /\ reg'[t].pc = "emplace" /\ reg'[t].name = n
          BY <1>a DEF RegInv
    <2>2. reg' \in [Thread -> [pc : {"idle", "lock", "hooks", "emplace"},
                              name : Name \cup {Nobody}, off : Nat]]
          BY <1>a DEF RegInv
    <2> QED BY <1>a, <1>c, <2>1, <2>2 DEF RegInv
  <1> QED BY <1>1, <1>2, <1>3 DEF LayoutInv

\* emplace(), and the lock is given back.
LEMMA EmplaceKeeps == \A t \in Thread : LayoutInv /\ Emplace(t) => LayoutInv'
  <1> SUFFICES ASSUME NEW t \in Thread, LayoutInv, Emplace(t) PROVE LayoutInv'
      OBVIOUS
  <1> DEFINE n == reg[t].name
             off == reg[t].off
  <1>a. /\ SchemaInv /\ StaticInv /\ RegInv /\ AccInv
        /\ proc = "up" /\ proc' = proc /\ cls' = cls
        /\ acc' = acc \cup {schema'.map[n]} /\ mutex' = mutex \ {t}
        /\ reg[t].pc = "emplace" /\ schema' = Emplaced(schema, n, off)
        /\ reg' = [reg EXCEPT ![t] = Idle]
        BY DEF Emplace, LayoutInv
  <1>b. /\ DOMAIN schema = Parts /\ n \in Name /\ off \in Nat
        /\ \A k \in DOMAIN schema.map : schema.map[k].name = k
        BY <1>a DEF SchemaInv, RegInv, AccInv
  <1>c. /\ DOMAIN schema' = Parts /\ schema'.slots = schema.slots
        /\ schema'.align = schema.align /\ schema'.unaligned = schema.unaligned
        /\ schema'.size = schema.size
        /\ DOMAIN schema'.map = DOMAIN schema.map \cup {n}
        /\ \A k \in DOMAIN schema.map : schema'.map[k] = schema.map[k]
        /\ schema'.map[n].name = n
    <2> HIDE DEF n, off
    <2> QED BY <1>a, <1>b, EmplaceParts
  <1>1. SchemaInv' /\ StaticInv'
        BY <1>a, <1>c DEF SchemaInv, StaticInv
  <1>2. AccInv'
    <2>1. PICK e, k : e = schema'.map[n] /\ k = n
          OBVIOUS
    <2>2. e.name \in DOMAIN schema'.map /\ e = schema'.map[e.name]
          BY <1>c, <2>1
    <2>3. \A f \in acc : f.name \in DOMAIN schema'.map /\ f = schema'.map[f.name]
          BY <1>a, <1>c DEF AccInv
    <2>4. acc' = acc \cup {e}
          BY <1>a, <2>1
    <2>5. \A x \in DOMAIN schema'.map : schema'.map[x].name = x
          BY <1>b, <1>c
    <2> QED
        BY <2>2, <2>3, <2>4, <2>5 DEF AccInv
  <1>3. RegInv'
    <2>1. /\ \A u \in Thread \ {t} : reg'[u] = reg[u] /\ reg[u].pc \notin {"hooks", "emplace"}
          /\ reg'[t].pc = "idle"
          BY <1>a DEF RegInv, Idle
    <2>2. reg' \in [Thread -> [pc : {"idle", "lock", "hooks", "emplace"},
                              name : Name \cup {Nobody}, off : Nat]]
          BY <1>a DEF RegInv, Idle
    <2> QED BY <1>a, <2>1, <2>2 DEF RegInv
  <1> QED BY <1>1, <1>2, <1>3 DEF LayoutInv
--------------------------------------------------------------------------------
\* The application leaves the schema alone, apart from data races.
LEMMA ApplicationFrame ==
    Application /\ ~AppRace => UNCHANGED schemaVars /\ proc = "up" /\ proc' # "static"
  <1> SUFFICES ASSUME Application, ~AppRace
               PROVE  UNCHANGED schemaVars /\ proc = "up" /\ proc' # "static"
      OBVIOUS
  <1> USE DEF Outcome, ClearObjects
  <1>1. CASE GetOld \/ UpdateMetadata \/ EndReuse \/ Reconstruct
        BY <1>1 DEF GetOld, UpdateMetadata, EndReuse, Reconstruct
  <1>2. CASE Rebuild
        BY <1>2 DEF Rebuild
  <1>3. CASE \E o \in Obj : Create(o) \/ GetNew(o)
        BY <1>3 DEF Create, GetNew, Make
  <1>4. CASE \E o \in Obj : Clear(o) \/ Delete(o) \/ (\E f \in acc : Use(o, f))
        BY <1>4 DEF Clear, Delete, Use
  <1>5. CASE \E pool \in {"serial", "arena"} :
               NewReuse(pool) \/ EndOfPool(pool) \/ (\E o \in Obj : CreateWithPool(o, pool))
        BY <1>5 DEF NewReuse, EndOfPool, CreateWithPool, Make
  <1> QED
      BY <1>1, <1>2, <1>3, <1>4, <1>5 DEF Application

LEMMA ApplicationKeeps == LayoutInv /\ Application => LayoutInv'
  BY CrashKeeps, ApplicationFrame, Frame DEF AppRace

LEMMA NextKeeps == LayoutInv /\ [Next]_vars => LayoutInv'
  <1> SUFFICES ASSUME LayoutInv, [Next]_vars PROVE LayoutInv'
      OBVIOUS
  <1>1. CASE RegisterMember \/ MemberEnd
        BY <1>1, MemberKeeps, MemberEndKeeps
  <1>2. CASE \E t \in Thread : RegisterField(t)
        BY <1>2, FindKeeps, CrashKeeps, LayoutKeeps, HooksKeeps, EmplaceKeeps
        DEF RegisterField, FindRace
  <1>3. CASE Application
        BY <1>3, ApplicationKeeps
  <1>4. CASE UNCHANGED vars
    <2> USE <1>4 DEF vars, schemaVars, regVars
    <2>1. SchemaInv' = SchemaInv /\ StaticInv' = StaticInv
          BY DEF SchemaInv, StaticInv
    <2>2. RegInv' = RegInv /\ AccInv' = AccInv
          BY DEF RegInv, AccInv
    <2> QED BY <2>1, <2>2 DEF LayoutInv
  <1>5. CASE \E n \in Name : GetField(n)
        BY <1>5, GetFieldKeeps
  <1> QED BY <1>1, <1>2, <1>3, <1>4, <1>5 DEF Next

LEMMA LayoutInvHolds == Spec => []LayoutInv
  BY InitLayout, NextKeeps, PTL DEF Spec

\* No two registrations share memory and all lie within the struct, for any types,
\* classes and orders of registration (add_field_and_caculate_size).
THEOREM FieldsApart == Spec => []SlotsDisjoint
  <1>1. ASSUME LayoutInv PROVE SlotsDisjoint
    <2>1. SchemaInv
          BY <1>1 DEF LayoutInv
    <2>2. DOMAIN schema.slots = 1..Len(schema.slots) /\ MetaSize \in Nat
          BY <2>1, MetaAssumption DEF SchemaInv
    <2>3. \A i \in 1..Len(schema.slots) : End(schema.slots[i]) \in Nat
      <3>1. \A i \in 1..Len(schema.slots) : schema.slots[i] \in Slot
            BY <2>1 DEF SchemaInv
      <3> QED BY <3>1, Ends DEF Slot
    <2>4. proc # "static" => \A i \in 1..Len(schema.slots) : End(schema.slots[i]) + MetaSize <= schema.size
          BY <2>1, <2>2, <2>3 DEF SchemaInv
    <2> QED BY <2>1, <2>2, <2>4 DEF SchemaInv, SlotsDisjoint, Apart, End
  <1> QED BY <1>1, LayoutInvHolds, PTL

\* All threads that register a name, and get_field(), use the same memory for it,
\* for any number of threads (register_field).
THEOREM ThreadsAgree == Spec => []AccessorsAgree
  <1>1. LayoutInv => AccessorsAgree
        BY DEF LayoutInv, AccInv, AccessorsAgree
  <1> QED BY <1>1, LayoutInvHolds, PTL
--------------------------------------------------------------------------------
(* Functions that are called in turn. *)

\* Nat is well-founded: a set of numbers that has an element has a least one.
LEMMA Least == ASSUME NEW S, S \subseteq Nat, S # {} PROVE \E x \in S : \A y \in S : x <= y
  <1>1. IsWellFoundedOn(OpToRel(<, Nat), Nat)
        BY NatLessThanWellFounded
  <1>2. PICK x \in S : \A y \in S : ~(<<y, x>> \in OpToRel(<, Nat))
        BY <1>1, WFMin
  <1>3. \A y \in S : ~(y < x)
    <2> SUFFICES ASSUME NEW y \in S, y < x PROVE FALSE
        OBVIOUS
    <2>1. <<y, x>> \in OpToRel(<, Nat)
          BY DEF OpToRel
    <2> QED
        BY <1>2, <2>1
  <1> QED
      BY <1>3

\* f is what the first n functions of F make of st.
Turns(F, st, n, f) == f = [k \in 0..n |-> IF k = 0 THEN st ELSE F[k][f[k - 1]]]
Stepwise(F, st, n, f) == f[0] = st /\ \A k \in 1..n : f[k] = F[k][f[k - 1]]

LEMMA TurnsAt ==
    ASSUME NEW F, NEW st, NEW n, n \in Nat, NEW f, Turns(F, st, n, f)
    PROVE  Stepwise(F, st, n, f)
  <1>1. PICK g : g = f
        OBVIOUS
  <1>2. f = [k \in 0..n |-> IF k = 0 THEN st ELSE F[k][g[k - 1]]]
        BY <1>1 DEF Turns
  <1>3. \A k \in 0..n : f[k] = IF k = 0 THEN st ELSE F[k][g[k - 1]]
        BY <1>2
  <1>4. ASSUME NEW k \in 1..n PROVE f[k] = F[k][g[k - 1]]
    <2>1. k \in 0..n /\ k # 0
          OBVIOUS
    <2> QED
        BY <1>3, <2>1
  <1>5. f[0] = st
        BY <1>3
  <1> QED
      BY <1>1, <1>4, <1>5 DEF Stepwise

LEMMA TurnsAre ==
    ASSUME NEW F, NEW st, NEW n \in Nat, NEW f, f[0] = st, \A k \in 1..n : f[k] = F[k][f[k - 1]],
           f = [k \in 0..n |-> f[k]]
    PROVE  Turns(F, st, n, f)
  <1>1. PICK g : g = f
        OBVIOUS
  <1>2. ASSUME NEW k \in 0..n PROVE f[k] = IF k = 0 THEN st ELSE F[k][g[k - 1]]
    <2>1. k = 0 \/ k \in 1..n
          OBVIOUS
    <2> QED
        BY <1>1, <2>1
  <1>3. [k \in 0..n |-> f[k]] = [k \in 0..n |-> IF k = 0 THEN st ELSE F[k][g[k - 1]]]
        BY <1>2, Zenon
  <1> QED
      BY <1>1, <1>3 DEF Turns

LEMMA TurnsStart == ASSUME NEW F, NEW st PROVE \A n \in Nat : \E f : Turns(F, st, n, f)
  <1> DEFINE S == {n \in Nat : ~\E f : Turns(F, st, n, f)}
  <1> SUFFICES ASSUME S # {} PROVE FALSE
      OBVIOUS
  <1>1. PICK n \in S : \A y \in S : n <= y
        BY Least
  <1>2. n \in Nat /\ ~\E f : Turns(F, st, n, f)
        OBVIOUS
  <1>3. CASE n = 0
    <2>1. PICK f : f = [k \in 0..0 |-> st]
          OBVIOUS
    <2>2. f[0] = st /\ f = [k \in 0..0 |-> f[k]] /\ \A k \in 1..0 : FALSE
          BY <2>1
    <2>3. Turns(F, st, 0, f)
          BY <2>2, TurnsAre
    <2> QED
        BY <1>2, <1>3, <2>3
  <1>4. CASE n # 0
    <2>1. n - 1 \in Nat /\ n - 1 \notin S
          BY <1>1, <1>2, <1>4
    <2>2. PICK m : m = n - 1
          OBVIOUS
    <2>a. m \in Nat /\ m \notin S
          BY <2>1, <2>2
    <2>b. PICK g : Turns(F, st, m, g)
          BY <2>a
    <2>c. Stepwise(F, st, m, g)
          BY <2>a, <2>b, TurnsAt, Zenon
    <2>3. g[0] = st /\ \A k \in 1..(n - 1) : g[k] = F[k][g[k - 1]]
          BY <2>2, <2>c DEF Stepwise
    <2>4. PICK f : f = [k \in 0..n |-> IF k < n THEN g[k] ELSE F[n][g[n - 1]]]
          OBVIOUS
    <2>5. f = [k \in 0..n |-> f[k]]
          BY <2>4
    <2>6. \A k \in 0..n : f[k] = IF k < n THEN g[k] ELSE F[n][g[n - 1]]
          BY <2>4
    <2>7. f[0] = st
          BY <1>2, <1>4, <2>3, <2>6
    <2>8. ASSUME NEW k \in 1..n PROVE f[k] = F[k][f[k - 1]]
      <3>1. k - 1 \in 0..n /\ k - 1 < n /\ k \in 0..n /\ (k = n \/ (k < n /\ k \in 1..(n - 1)))
            BY <1>2, <2>1
      <3>2. f[k - 1] = g[k - 1]
            BY <2>6, <3>1
      <3>3. CASE k = n
            BY <2>6, <3>1, <3>2, <3>3
      <3>4. CASE k < n /\ k \in 1..(n - 1)
            BY <2>3, <2>6, <3>1, <3>2, <3>4
      <3> QED
          BY <3>1, <3>3, <3>4
    <2>9. Turns(F, st, n, f)
          BY <1>2, <2>5, <2>7, <2>8, TurnsAre
    <2> QED
        BY <1>2, <2>9
  <1> QED
      BY <1>3, <1>4

\* InTurn is the one solution.
LEMMA InTurnAt ==
    ASSUME NEW F, Len(F) \in Nat, NEW st
    PROVE  \E f : Turns(F, st, Len(F), f) /\ InTurn(F, st) = f[Len(F)]
  <1>1. \E f : Turns(F, st, Len(F), f)
        BY TurnsStart
  <1>2. PICK f : f = CHOOSE after : Turns(F, st, Len(F), after)
        OBVIOUS
  <1>3. Turns(F, st, Len(F), f)
        BY <1>1, <1>2
  <1>4. InTurn(F, st) = f[Len(F)]
        BY <1>2 DEF InTurn, Turns
  <1> QED
      BY <1>3, <1>4

LEMMA InTurnIn ==
    ASSUME NEW F, Len(F) \in Nat, NEW T, NEW st \in T,
           \A k \in 1..Len(F) : \A x \in T : F[k][x] \in T
    PROVE  InTurn(F, st) \in T
  <1>1. PICK n : n = Len(F)
        OBVIOUS
  <1>2. PICK f : Turns(F, st, n, f) /\ InTurn(F, st) = f[n]
        BY <1>1, InTurnAt
  <1>3. f[0] = st /\ \A k \in 1..n : f[k] = F[k][f[k - 1]]
    <2>1. n \in Nat
          BY <1>1
    <2>2. Stepwise(F, st, n, f)
        BY <1>2, <2>1, TurnsAt, Zenon
    <2> QED
        BY <2>2 DEF Stepwise
  <1> DEFINE S == {k \in 0..n : f[k] \notin T}
  <1>4. ASSUME S # {} PROVE FALSE
    <2>1. PICK k \in S : \A y \in S : k <= y
      <3>1. S \subseteq Nat
            BY <1>1
      <3> HIDE DEF S
      <3> QED
          BY <1>4, <3>1, Least
    <2>2. k \in 0..n /\ f[k] \notin T
          OBVIOUS
    <2>3. k # 0
          BY <1>3, <2>2
    <2>4. k \in 1..n /\ k - 1 \in 0..n /\ ~(k <= k - 1)
          BY <1>1, <2>2, <2>3
    <2>5. f[k - 1] \in T
          BY <2>1, <2>4
    <2> QED
        BY <1>1, <1>3, <2>2, <2>4, <2>5
  <1>5. n \in 0..n
        BY <1>1
  <1> QED
      BY <1>2, <1>4, <1>5

\* If only the function at p does something, then InTurn does what that one does.
LEMMA InTurnOne ==
    ASSUME NEW F, Len(F) \in Nat, NEW p \in 1..Len(F), NEW st, NEW x, F[p][st] = x,
           \A k \in 1..Len(F) : k < p => F[k][st] = st,
           \A k \in 1..Len(F) : k > p => F[k][x] = x
    PROVE  InTurn(F, st) = x
  <1>1. PICK n : n = Len(F)
        OBVIOUS
  <1>2. PICK f : Turns(F, st, n, f) /\ InTurn(F, st) = f[n]
        BY <1>1, InTurnAt
  <1>3. f[0] = st /\ \A k \in 1..n : f[k] = F[k][f[k - 1]]
    <2>1. n \in Nat
          BY <1>1
    <2>2. Stepwise(F, st, n, f)
        BY <1>2, <2>1, TurnsAt, Zenon
    <2> QED
        BY <2>2 DEF Stepwise
  <1> DEFINE S == {k \in 0..n : f[k] # IF k < p THEN st ELSE x}
  <1>4. ASSUME S # {} PROVE FALSE
    <2>1. PICK k \in S : \A y \in S : k <= y
      <3>1. S \subseteq Nat
            BY <1>1
      <3> HIDE DEF S
      <3> QED
          BY <1>4, <3>1, Least
    <2>2. k \in 0..n /\ f[k] # IF k < p THEN st ELSE x
          OBVIOUS
    <2>3. k # 0
          BY <1>1, <1>3, <2>2
    <2>4. k \in 1..n /\ k - 1 \in 0..n /\ ~(k <= k - 1)
          BY <1>1, <2>2, <2>3
    <2>5. f[k - 1] = IF k - 1 < p THEN st ELSE x
          BY <2>1, <2>4
    <2>6. f[k] = F[k][f[k - 1]]
          BY <1>3, <2>4
    <2>7. CASE k < p
          BY <1>1, <2>2, <2>4, <2>5, <2>6, <2>7
    <2>8. CASE k = p
          BY <1>1, <2>2, <2>4, <2>5, <2>6, <2>8
    <2>9. CASE k > p
          BY <1>1, <2>2, <2>4, <2>5, <2>6, <2>9
    <2> QED
        BY <1>1, <2>4, <2>7, <2>8, <2>9
  <1>5. n \in 0..n /\ ~(n < p)
        BY <1>1
  <1> QED
      BY <1>2, <1>4, <1>5
--------------------------------------------------------------------------------
(* Remainders *)

LEMMA MulMod == ASSUME NEW k \in Int, NEW a \in Nat \ {0} PROVE (k * a) % a = 0
  OBVIOUS
LEMMA AddMod == ASSUME NEW x \in Nat, NEW y \in Nat, NEW a \in Nat \ {0}, x % a = 0, y % a = 0
                PROVE  (x + y) % a = 0
  <1>1. PICK k \in Nat : x = k * a
    <2>1. x \div a \in Nat /\ x = (x \div a) * a
          OBVIOUS
    <2> QED
        BY <2>1
  <1>2. PICK l \in Nat : y = l * a
    <2>1. y \div a \in Nat /\ y = (y \div a) * a
          OBVIOUS
    <2> QED
        BY <2>1
  <1>3. k + l \in Nat /\ x + y = (k + l) * a
    <2>1. (k + l) * a = k * a + l * a
          OBVIOUS
    <2> QED
        BY <1>1, <1>2, <2>1
  <1> QED
      BY <1>3, MulMod

\* What is rounded up is a multiple.
LEMMA AlignUpAligns == ASSUME NEW x \in Nat, NEW a \in Nat \ {0} PROVE AlignUp(x, a) % a = 0
  <1>1. PICK r : r = (-x) % a
        OBVIOUS
  <1>2. PICK q : q = (-x) \div a
        OBVIOUS
  <1>3. q \in Int /\ r \in Int /\ -x = q * a + r
        BY <1>1, <1>2
  <1>4. -q \in Int /\ x + r = (-q) * a
        BY <1>3
  <1>5. ((-q) * a) % a = 0
        BY <1>4, MulMod
  <1> QED
      BY <1>1, <1>4, <1>5 DEF AlignUp

LEMMA ModSmall == ASSUME NEW x \in Nat, NEW w \in Nat \ {0}, x < w PROVE x % w = x
  OBVIOUS
LEMMA ModIn == ASSUME NEW x \in Int, NEW w \in Nat \ {0} PROVE x % w \in 0..(w - 1)
  OBVIOUS
--------------------------------------------------------------------------------
(* What the hooks reach *)

DeclOf(s) == Decl[s.name]
Hook == [off : Nat, size : 0..(Word - 1), zero : BOOLEAN]

\* N slots are divided among K hooks: hook k has the slots from first[k] to before
\* first[k + 1].  If it is not slot k that it begins with, a hook before it has two.
Divided(first, K, N) ==
    /\ first \in [1..(K + 1) -> Nat] /\ first[1] = 1 /\ first[K + 1] = N + 1
    /\ \A k, m \in 1..(K + 1) : k < m => first[k] < first[m]
    /\ \A k \in 1..(K + 1) : k <= first[k]
    /\ \A k \in 1..(K + 1) : first[k] = k \/ \E m \in 1..(k - 1) : first[m] + 1 < first[m + 1]
    /\ \A i \in 1..N : \E k \in 1..K : first[k] <= i /\ i < first[k + 1]

\* Hook h goes from slot i to slot j.
Hooked(slots, h, i, j) ==
    /\ h.off = slots[i].off /\ h.size = (End(slots[j]) - slots[i].off) % Word
    /\ h.zero => \A k \in i..j : DeclOf(slots[k]).trivial
    /\ ~h.zero => i = j

Spans(slots, hooks, first) ==
    /\ Divided(first, Len(hooks), Len(slots))
    /\ \A k \in 1..Len(hooks) : Hooked(slots, hooks[k], first[k], first[k + 1] - 1)
HooksOK(S) == S.hooks \in Seq(Hook) /\ \E first : Spans(S.slots, S.hooks, first)

LEMMA DividedIn ==
    ASSUME NEW K \in Nat, NEW N \in Nat, NEW first, Divided(first, K, N), NEW k \in 1..K
    PROVE  /\ first[k] \in 1..N /\ first[k + 1] - 1 \in 1..N /\ first[k] <= first[k + 1] - 1
           /\ first[k + 1] \in Nat /\ first[k] \in Nat
  <1>1. k \in 1..(K + 1) /\ k + 1 \in 1..(K + 1) /\ K + 1 \in 1..(K + 1)
        OBVIOUS
  <1>2. first[k] \in Nat /\ first[k + 1] \in Nat /\ first[k] < first[k + 1] /\ k <= first[k]
        BY <1>1 DEF Divided
  <1>3. first[k + 1] <= N + 1
    <2>1. k + 1 = K + 1 \/ k + 1 < K + 1
          OBVIOUS
    <2>2. first[K + 1] = N + 1
          BY DEF Divided
    <2>3. k + 1 < K + 1 => first[k + 1] < first[K + 1]
          BY <1>1 DEF Divided
    <2> QED
        BY <1>2, <2>1, <2>2, <2>3
  <1> QED
      BY <1>2, <1>3

LEMMA DividedWider ==
    ASSUME NEW K \in Nat \ {0}, NEW N \in Nat, NEW first, Divided(first, K, N)
    PROVE  Divided([first EXCEPT ![K + 1] = N + 2], K, N + 1)
  <1>1. PICK g : g = [first EXCEPT ![K + 1] = N + 2]
        OBVIOUS
  <1>2. /\ first \in [1..(K + 1) -> Nat] /\ first[1] = 1 /\ first[K + 1] = N + 1
        /\ \A k \in 1..(K + 1) : k <= first[k]
        /\ K \in 1..(K + 1) /\ K + 1 \in 1..(K + 1) /\ 1 \in 1..(K + 1) /\ K + 1 # 1
        BY DEF Divided
  <1>3. /\ g \in [1..(K + 1) -> Nat] /\ g[K + 1] = N + 2
        /\ \A k \in 1..(K + 1) : k # K + 1 => g[k] = first[k]
        BY <1>1, <1>2
  <1>4. g[1] = 1
        BY <1>2, <1>3
  <1>5. first[K] < first[K + 1]
        BY <1>2 DEF Divided
  <1>6. ASSUME NEW k \in 1..(K + 1), NEW m \in 1..(K + 1), k < m PROVE g[k] < g[m]
    <2>1. first[k] < first[m] /\ k # K + 1 /\ first[k] \in Nat
          BY <1>2, <1>6 DEF Divided
    <2>2. CASE m = K + 1
          BY <1>2, <1>3, <2>1, <2>2
    <2>3. CASE m # K + 1
          BY <1>3, <2>1, <2>3
    <2> QED
        BY <2>2, <2>3
  <1>7. \A k \in 1..(K + 1) : k <= g[k]
    <2>1. K + 1 <= N + 1
          BY <1>2
    <2> QED
        BY <1>2, <1>3, <2>1
  <1>8. ASSUME NEW k \in 1..(K + 1) PROVE g[k] = k \/ \E m \in 1..(k - 1) : g[m] + 1 < g[m + 1]
    <2>1. CASE k = K + 1
      <3>1. K \in 1..(k - 1) /\ first[K] \in Nat /\ g[K] = first[K]
            BY <1>2, <1>3, <2>1
      <3>2. g[K] + 1 < g[K + 1]
            BY <1>2, <1>3, <1>5, <3>1
      <3> QED
          BY <3>1, <3>2
    <2>2. CASE k # K + 1
      <3>1. CASE first[k] = k
            BY <1>3, <2>2, <3>1
      <3>2. ASSUME NEW m \in 1..(k - 1), first[m] + 1 < first[m + 1]
            PROVE  g[m] + 1 < g[m + 1]
        <4>1. m \in 1..(K + 1) /\ m # K + 1 /\ m + 1 \in 1..(K + 1) /\ m + 1 # K + 1
              BY <2>2
        <4> QED
            BY <1>3, <3>2, <4>1
      <3> QED
          BY <3>1, <3>2 DEF Divided
    <2> QED
        BY <2>1, <2>2
  <1>9. ASSUME NEW i \in 1..(N + 1) PROVE \E k \in 1..K : g[k] <= i /\ i < g[k + 1]
    <2>1. CASE i = N + 1
      <3>1. K \in 1..K /\ g[K] = first[K] /\ first[K] \in Nat /\ first[K] < N + 1
            BY <1>2, <1>3, <1>5
      <3>2. g[K] <= i /\ i < g[K + 1]
            BY <1>3, <2>1, <3>1
      <3> QED
          BY <3>1, <3>2
    <2>2. CASE i \in 1..N
      <3>1. PICK k \in 1..K : first[k] <= i /\ i < first[k + 1]
            BY <2>2 DEF Divided
      <3>2. g[k] = first[k]
            BY <1>3, <3>1
      <3>3. i < g[k + 1]
        <4>1. CASE k = K
              BY <1>3, <2>2, <4>1
        <4>2. CASE k # K
          <5>1. k + 1 \in 1..(K + 1) /\ k + 1 # K + 1
                BY <4>2
          <5> QED
              BY <1>3, <3>1, <5>1
        <4> QED
            BY <4>1, <4>2
      <3> QED
          BY <3>1, <3>2, <3>3
    <2> QED
        BY <2>1, <2>2
  <1>10. g[K + 1] = (N + 1) + 1
         BY <1>3
  <1>11. Divided(g, K, N + 1)
         BY <1>3, <1>4, <1>6, <1>7, <1>8, <1>9, <1>10 DEF Divided
  <1> QED
      BY <1>1, <1>11

LEMMA DividedMore ==
    ASSUME NEW K \in Nat, NEW N \in Nat, NEW first, Divided(first, K, N)
    PROVE  Divided([k \in 1..(K + 2) |-> IF k <= K + 1 THEN first[k] ELSE N + 2], K + 1, N + 1)
  <1>1. PICK g : g = [k \in 1..(K + 2) |-> IF k <= K + 1 THEN first[k] ELSE N + 2]
        OBVIOUS
  <1>2. /\ first \in [1..(K + 1) -> Nat] /\ first[1] = 1 /\ first[K + 1] = N + 1
        /\ \A k \in 1..(K + 1) : k <= first[k]
        /\ K + 1 \in 1..(K + 1) /\ 1 \in 1..(K + 1)
        BY DEF Divided
  <1>3. /\ \A k \in 1..(K + 1) : g[k] = first[k]
        /\ g[K + 2] = N + 2 /\ \A k \in 1..(K + 2) : k \in 1..(K + 1) \/ k = K + 2
        /\ g \in [1..(K + 2) -> Nat]
        BY <1>1, <1>2
  <1>4. g[1] = 1
        BY <1>2, <1>3
  <1>6. ASSUME NEW k \in 1..(K + 2), NEW m \in 1..(K + 2), k < m PROVE g[k] < g[m]
    <2>0. k \in 1..(K + 1)
          BY <1>6
    <2>1. first[k] \in Nat /\ first[k] <= N + 1
      <3>1. k = K + 1 \/ k < K + 1
            BY <2>0
      <3>2. k < K + 1 => first[k] < first[K + 1]
            BY <1>2, <2>0 DEF Divided
      <3> QED
          BY <1>2, <2>0, <3>1, <3>2
    <2>2. CASE m = K + 2
          BY <1>3, <2>0, <2>1, <2>2
    <2>3. CASE m \in 1..(K + 1)
      <3>1. first[k] < first[m]
            BY <1>6, <2>0, <2>3 DEF Divided
      <3> QED
          BY <1>3, <2>0, <2>3, <3>1
    <2> QED
        BY <1>3, <2>2, <2>3
  <1>7. \A k \in 1..(K + 2) : k <= g[k]
    <2>1. K + 2 <= N + 2
          BY <1>2
    <2>2. \A k \in 1..(K + 1) : k <= g[k]
          BY <1>2, <1>3
    <2>3. K + 2 <= g[K + 2]
          BY <1>3, <2>1
    <2> QED
        BY <1>3, <2>2, <2>3
  <1>8. ASSUME NEW k \in 1..(K + 2) PROVE g[k] = k \/ \E m \in 1..(k - 1) : g[m] + 1 < g[m + 1]
    <2>1. PICK l \in 1..(K + 1) : l = k \/ (k = K + 2 /\ l = K + 1)
          BY <1>2, <1>3
    <2>2. CASE first[l] = l
      <3>1. CASE l = k
            BY <1>3, <2>2, <3>1
      <3>2. CASE k = K + 2 /\ l = K + 1
            BY <1>2, <1>3, <2>2, <3>2
      <3> QED
          BY <2>1, <3>1, <3>2
    <2>3. ASSUME NEW m \in 1..(l - 1), first[m] + 1 < first[m + 1]
          PROVE  \E j \in 1..(k - 1) : g[j] + 1 < g[j + 1]
      <3>1. m \in 1..(k - 1) /\ m \in 1..(K + 1) /\ m + 1 \in 1..(K + 1)
            BY <2>1
      <3>2. g[m] + 1 < g[m + 1]
            BY <1>3, <2>3, <3>1
      <3> QED
          BY <3>1, <3>2
    <2> QED
        BY <2>2, <2>3 DEF Divided
  <1>9. ASSUME NEW i \in 1..(N + 1) PROVE \E k \in 1..(K + 1) : g[k] <= i /\ i < g[k + 1]
    <2>1. CASE i = N + 1
      <3>1. g[K + 1] = N + 1 /\ (K + 1) + 1 = K + 2
            BY <1>2, <1>3
      <3>2. g[K + 1] <= i /\ i < g[(K + 1) + 1]
            BY <1>3, <2>1, <3>1
      <3> QED
          BY <1>2, <3>2
    <2>2. CASE i \in 1..N
      <3>1. PICK k \in 1..K : first[k] <= i /\ i < first[k + 1]
            BY <2>2 DEF Divided
      <3>2. k \in 1..(K + 1) /\ k + 1 \in 1..(K + 1)
            OBVIOUS
      <3>3. g[k] <= i /\ i < g[k + 1]
            BY <1>3, <3>1, <3>2
      <3> QED
          BY <3>2, <3>3
    <2> QED
        BY <2>1, <2>2
  <1>10. /\ g \in [1..((K + 1) + 1) -> Nat] /\ g[(K + 1) + 1] = (N + 1) + 1
         /\ 1..((K + 1) + 1) = 1..(K + 2)
         BY <1>3
  <1>11. Divided(g, K + 1, N + 1)
         BY <1>4, <1>6, <1>7, <1>8, <1>9, <1>10 DEF Divided
  <1> QED
      BY <1>1, <1>11

\* Hooks of the slots there were do not depend on one that is added.
LEMMA HookedMore ==
    ASSUME NEW slots, NEW more, NEW N \in Nat, \A k \in 1..N : more[k] = slots[k],
           NEW h, NEW i \in 1..N, NEW j \in 1..N, Hooked(slots, h, i, j)
    PROVE  Hooked(more, h, i, j)
  <1>1. /\ more[i] = slots[i] /\ more[j] = slots[j]
        /\ \A k \in i..j : more[k] = slots[k]
        OBVIOUS
  <1> QED
      BY <1>1 DEF Hooked

\* add_constructor() and the like: neighbours that are zeroed stay together.
LEMMA HooksGrow ==
    ASSUME NEW S, S.slots \in Seq(Slot), HooksOK(S), NEW n \in Name, NEW off \in Nat,
           NEW T, T.slots = Append(S.slots, [name |-> n, off |-> off]), T.hooks = AddHook(S.hooks, n, off)
    PROVE  HooksOK(T)
  <1>1. PICK slots, hooks, s, more : /\ slots = S.slots /\ hooks = S.hooks
                                     /\ s = [name |-> n, off |-> off] /\ more = T.slots
        OBVIOUS
  <1>2. PICK N, K : N = Len(slots) /\ K = Len(hooks)
        OBVIOUS
  <1>3. PICK first : Spans(slots, hooks, first)
        BY <1>1 DEF HooksOK
  <1>4. /\ slots \in Seq(Slot) /\ hooks \in Seq(Hook) /\ N \in Nat /\ K \in Nat /\ s \in Slot
        /\ DOMAIN hooks = 1..K
        BY <1>1, <1>2 DEF HooksOK, Slot
  <1>5. /\ Len(more) = N + 1 /\ more[N + 1] = s
        /\ \A k \in 1..N : more[k] = slots[k]
        /\ \A k \in 1..(N + 1) : k \in 1..N \/ k = N + 1
    <2>1. more = Append(slots, s)
          BY <1>1
    <2> QED
        BY <1>2, <1>4, <2>1
  <1>6. /\ Divided(first, K, N) /\ first[K + 1] = N + 1
        /\ \A k \in 1..K : Hooked(slots, hooks[k], first[k], first[k + 1] - 1)
        BY <1>2, <1>3 DEF Spans, Divided
  <1>7. ASSUME NEW k \in 1..K
        PROVE  /\ first[k] \in 1..N /\ first[k + 1] - 1 \in 1..N
               /\ Hooked(more, hooks[k], first[k], first[k + 1] - 1)
    <2>1. first[k] \in 1..N /\ first[k + 1] - 1 \in 1..N
          BY <1>4, <1>6, <1>7, DividedIn
    <2>2. Hooked(slots, hooks[k], first[k], first[k + 1] - 1)
          BY <1>6, <1>7
    <2>3. PICK h, i, j : h = hooks[k] /\ i = first[k] /\ j = first[k + 1] - 1
          OBVIOUS
    <2>4. Hooked(more, h, i, j)
          BY <1>4, <1>5, <2>1, <2>2, <2>3, HookedMore
    <2> QED
        BY <2>1, <2>3, <2>4
  <1>8. PICK d, grown : d = Decl[n] /\ grown = T.hooks
        OBVIOUS
  <1>9. d.size \in Nat \ {0} /\ d.trivial \in BOOLEAN /\ d.size < Word /\ Word \in Nat \ {0}
        BY <1>8, DeclAssumption, SizeAssumption, WordAssumption DEF Declaration
  <1>10. End(s) = off + d.size /\ DeclOf(s) = d /\ s.off = off
         BY <1>1, <1>8 DEF End, DeclOf
  <1>11. CASE d.trivial /\ hooks # << >> /\ hooks[K].zero
    <2>1. PICK size, last : size = (off - hooks[K].off + d.size) % Word /\ last = hooks[K]
          OBVIOUS
    <2>2. K \in 1..K /\ K \in Nat \ {0} /\ last \in Hook
          BY <1>2, <1>4, <1>11, <2>1
    <2>3. last.off \in Nat /\ last.zero
          BY <1>11, <2>1, <2>2 DEF Hook
    <2>4. size \in 0..(Word - 1)
      <3>1. off - last.off + d.size \in Int
            BY <1>9, <2>3
      <3> QED
          BY <1>9, <2>1, <3>1, ModIn
    <2>5. grown = [hooks EXCEPT ![K].size = size]
          BY <1>1, <1>2, <1>8, <1>11, <2>1 DEF AddHook
    <2>6. /\ grown \in Seq(Hook) /\ Len(grown) = K
          /\ \A k \in 1..K : k # K => grown[k] = hooks[k]
          /\ grown[K].off = last.off /\ grown[K].size = size /\ grown[K].zero = last.zero
      <3>1. PICK h : h = [last EXCEPT !.size = size]
            OBVIOUS
      <3>2. h \in Hook /\ h.off = last.off /\ h.size = size /\ h.zero = last.zero
            BY <2>2, <2>4, <3>1 DEF Hook
      <3>3. grown = [hooks EXCEPT ![K] = h]
            BY <2>1, <2>5, <3>1
      <3> QED
          BY <1>2, <1>4, <2>2, <3>2, <3>3
    <2>7. PICK g : g = [first EXCEPT ![K + 1] = N + 2]
          OBVIOUS
    <2>8. Divided(g, K, N + 1)
          BY <1>4, <1>6, <2>2, <2>7, DividedWider
    <2>9. g[K + 1] = N + 2 /\ \A k \in 1..K : g[k] = first[k]
          BY <1>4, <1>6, <2>7 DEF Divided
    <2>10. ASSUME NEW k \in 1..K PROVE Hooked(more, grown[k], g[k], g[k + 1] - 1)
      <3>1. CASE k # K
        <4>1. g[k] = first[k] /\ g[k + 1] = first[k + 1] /\ grown[k] = hooks[k]
              BY <1>4, <2>6, <2>9, <3>1
        <4> QED
            BY <1>7, <4>1
      <3>2. CASE k = K
        <4>1. PICK i : i = first[K]
              OBVIOUS
        <4>2. /\ i \in 1..N /\ Hooked(more, last, i, N) /\ g[k] = i /\ g[k + 1] - 1 = N + 1
          <5>1. first[K] \in 1..N /\ Hooked(more, hooks[K], first[K], first[K + 1] - 1)
                BY <1>7, <2>2
          <5>2. first[K + 1] - 1 = N /\ (N + 2) - 1 = N + 1
                BY <1>4, <1>6
          <5> QED
              BY <2>1, <2>2, <2>9, <3>2, <4>1, <5>1, <5>2
        <4>3. last.off = more[i].off /\ \A l \in i..N : DeclOf(more[l]).trivial
              BY <2>3, <4>2 DEF Hooked
        <4>4. size = (End(more[N + 1]) - more[i].off) % Word
          <5>1. off - last.off + d.size = End(s) - last.off
                BY <1>9, <1>10, <2>3
          <5> QED
              BY <1>5, <2>1, <4>3, <5>1
        <4>5. \A l \in i..(N + 1) : DeclOf(more[l]).trivial
          <5>1. \A l \in i..(N + 1) : l \in i..N \/ l = N + 1
                BY <1>4, <4>2
          <5> QED
              BY <1>5, <1>10, <1>11, <4>3, <5>1
        <4>6. Hooked(more, grown[K], i, N + 1)
              BY <2>3, <2>6, <4>3, <4>4, <4>5 DEF Hooked
        <4> QED
            BY <3>2, <4>2, <4>6
      <3> QED
          BY <3>1, <3>2
    <2>11. Spans(more, grown, g)
           BY <1>5, <2>6, <2>8, <2>10 DEF Spans
    <2> QED
        BY <1>1, <1>8, <2>6, <2>11 DEF HooksOK
  <1>12. CASE ~(d.trivial /\ hooks # << >> /\ hooks[K].zero)
    <2>1. PICK h : h = [off |-> off, size |-> d.size, zero |-> d.trivial]
          OBVIOUS
    <2>2. grown = Append(hooks, h)
          BY <1>1, <1>2, <1>8, <1>12, <2>1 DEF AddHook
    <2>3. h \in Hook
          BY <1>9, <2>1 DEF Hook
    <2>4. /\ grown \in Seq(Hook) /\ Len(grown) = K + 1 /\ grown[K + 1] = h
          /\ \A k \in 1..K : grown[k] = hooks[k]
          /\ \A k \in 1..(K + 1) : k \in 1..K \/ k = K + 1
          BY <1>2, <1>4, <2>2, <2>3
    <2>5. PICK g : g = [k \in 1..(K + 2) |-> IF k <= K + 1 THEN first[k] ELSE N + 2]
          OBVIOUS
    <2>6. Divided(g, K + 1, N + 1)
          BY <1>4, <1>6, <2>5, DividedMore
    <2>7. g[K + 2] = N + 2 /\ \A k \in 1..(K + 1) : g[k] = first[k]
          BY <1>4, <2>5
    <2>8. ASSUME NEW k \in 1..(K + 1) PROVE Hooked(more, grown[k], g[k], g[k + 1] - 1)
      <3>1. CASE k \in 1..K
        <4>1. g[k] = first[k] /\ g[k + 1] = first[k + 1] /\ grown[k] = hooks[k]
              BY <1>4, <2>4, <2>7, <3>1
        <4> QED
            BY <1>7, <3>1, <4>1
      <3>2. CASE k = K + 1
        <4>1. g[k] = N + 1 /\ g[k + 1] - 1 = N + 1 /\ grown[k] = h
          <5>1. k + 1 = K + 2 /\ (N + 2) - 1 = N + 1 /\ K + 1 \in 1..(K + 1)
                BY <1>4, <3>2
          <5> QED
              BY <1>6, <2>4, <2>7, <3>2, <5>1
        <4>2. d.size = (End(more[N + 1]) - more[N + 1].off) % Word
          <5>1. (off + d.size) - off = d.size
                BY <1>9
          <5>2. d.size % Word = d.size
                BY <1>9, ModSmall
          <5> QED
              BY <1>5, <1>10, <5>1, <5>2
        <4>3. h.off = more[N + 1].off /\ h.size = d.size /\ h.zero = d.trivial
              BY <1>5, <1>10, <2>1
        <4>4. d.trivial => \A l \in (N + 1)..(N + 1) : DeclOf(more[l]).trivial
          <5>1. \A l \in (N + 1)..(N + 1) : l = N + 1
                BY <1>4
          <5> QED
              BY <1>5, <1>10, <5>1
        <4>5. Hooked(more, h, N + 1, N + 1)
              BY <4>2, <4>3, <4>4 DEF Hooked
        <4> QED
            BY <4>1, <4>5
      <3> QED
          BY <2>4, <3>1, <3>2
    <2>9. Spans(more, grown, g)
          BY <1>5, <2>4, <2>6, <2>8 DEF Spans
    <2> QED
        BY <1>1, <1>8, <2>4, <2>9 DEF HooksOK
  <1> QED
      BY <1>11, <1>12
--------------------------------------------------------------------------------
(* Fields *)

\* The members of a class have offsets in it, other fields behind the Meta.
Aimed(s, i) ==
    (IF i <= Len(cls.members) THEN s.off ELSE MetaSize + s.off) % DeclOf(s).align = 0
AlignInv ==
    /\ proc = "up" => Len(cls.members) <= Len(schema.slots)
    /\ \A i \in 1..Len(schema.slots) : Aimed(schema.slots[i], i)
    /\ \A t \in Thread : reg[t].pc = "hooks" => (MetaSize + reg[t].off) % Decl[reg[t].name].align = 0

\* The memory of a field in the map is that of a registration.
Placed(off) == \E i \in 1..Len(schema.slots) : schema.slots[i].off = off
MapInv ==
    /\ \A n \in DOMAIN schema.map : n \in Name /\ Placed(schema.map[n].off)
    /\ \A t \in Thread : reg[t].pc = "emplace" => Placed(reg[t].off)

FieldInv == HooksOK(schema) /\ AlignInv /\ MapInv

LEMMA NoHooks == HooksOK(EmptySchema) /\ EmptySchema.slots = << >> /\ EmptySchema.map = << >>
  <1>1. PICK S : S = EmptySchema
        OBVIOUS
  <1>2. S.slots = << >> /\ S.hooks = << >> /\ S.map = << >>
        BY <1>1 DEF EmptySchema
  <1>3. PICK first : first = [k \in 1..1 |-> 1]
        OBVIOUS
  <1>4. Divided(first, 0, 0)
        BY <1>3 DEF Divided
  <1>5. Len(S.slots) = 0 /\ Len(S.hooks) = 0 /\ S.hooks \in Seq(Hook)
        BY <1>2
  <1>6. Spans(S.slots, S.hooks, first)
        BY <1>4, <1>5 DEF Spans
  <1> QED
      BY <1>1, <1>2, <1>5, <1>6 DEF HooksOK

LEMMA Nothing == schema = EmptySchema /\ reg = [t \in Thread |-> Idle] /\ proc # "up" => FieldInv
  <1> SUFFICES ASSUME schema = EmptySchema, reg = [t \in Thread |-> Idle], proc # "up" PROVE FieldInv
      OBVIOUS
  <1>1. schema.slots = << >> /\ schema.map = << >> /\ HooksOK(schema)
        BY NoHooks
  <1>2. AlignInv
        BY <1>1 DEF AlignInv, Idle
  <1>3. MapInv
        BY <1>1 DEF MapInv, Idle
  <1> QED
      BY <1>1, <1>2, <1>3 DEF FieldInv

LEMMA FieldInit == Init => FieldInv
  BY Nothing DEF Init

\* What a step leaves alone.
LEMMA FieldFrame ==
    ASSUME FieldInv, schema'.slots = schema.slots, schema'.hooks = schema.hooks, cls' = cls,
           schema'.map = schema.map, reg' = reg,
           proc' = "up" => proc = "up" \/ Len(cls.members) <= Len(schema.slots)
    PROVE  FieldInv'
  <1>1. HooksOK(schema')
        BY DEF FieldInv, HooksOK
  <1>2. AlignInv'
        BY DEF FieldInv, AlignInv, Aimed
  <1>3. MapInv'
        BY DEF FieldInv, MapInv, Placed
  <1> QED
      BY <1>1, <1>2, <1>3 DEF FieldInv

LEMMA HookFuns ==
    ASSUME NEW S, DOMAIN S = Parts, NEW n, NEW off
    PROVE  /\ WithHooks(S, n, off).hooks = AddHook(S.hooks, n, off)
           /\ WithSpace(S, n).hooks = S.hooks /\ Emplaced(S, n, off).hooks = S.hooks
           /\ \A size, align : SetSizeAndAlign(S, size, align).hooks = S.hooks
  BY DEF WithHooks, WithSpace, Emplaced, SetSizeAndAlign, Parts

LEMMA EmplacedOffs ==
    ASSUME NEW S, DOMAIN S = Parts, NEW n, NEW off
    PROVE  \A k \in DOMAIN Emplaced(S, n, off).map :
             \/ k \in DOMAIN S.map /\ Emplaced(S, n, off).map[k] = S.map[k]
             \/ k = n /\ Emplaced(S, n, off).map[k].off = off
  BY DEF Emplaced, Parts, Field

\* A slot is added to the schema.
LEMMA FieldGrows ==
    ASSUME LayoutInv, FieldInv, NEW n \in Name, NEW off \in Nat, cls' = cls,
           schema'.slots = Append(schema.slots, [name |-> n, off |-> off]),
           schema'.hooks = AddHook(schema.hooks, n, off),
           Aimed([name |-> n, off |-> off], Len(schema.slots) + 1),
           proc' = proc
    PROVE  /\ HooksOK(schema') /\ \A i \in 1..Len(schema'.slots) : Aimed(schema.slots[i], i)'
           /\ proc' = "up" => Len(cls'.members) <= Len(schema'.slots)
           /\ Placed(off)' /\ \A x : Placed(x) => Placed(x)'
  <1>1. PICK slots, more, s, N : /\ slots = schema.slots /\ more = schema'.slots
                                 /\ s = [name |-> n, off |-> off] /\ N = Len(schema.slots)
        OBVIOUS
  <1>2. slots \in Seq(Slot) /\ N \in Nat /\ HooksOK(schema)
        BY <1>1 DEF LayoutInv, SchemaInv, FieldInv
  <1>3. /\ Len(more) = N + 1 /\ more[N + 1] = s /\ \A i \in 1..N : more[i] = slots[i]
        /\ \A i \in 1..(N + 1) : i \in 1..N \/ i = N + 1
        /\ \A i \in 1..N : i \in 1..(N + 1)
        /\ N + 1 \in 1..(N + 1)
        BY <1>1, <1>2
  <1>4. HooksOK(schema')
        BY <1>1, <1>2, HooksGrow
  <1>5. ASSUME NEW i \in 1..(N + 1) PROVE Aimed(more[i], i)
    <2>1. \A j \in 1..N : Aimed(slots[j], j)
          BY <1>1 DEF FieldInv, AlignInv
    <2>2. Aimed(s, N + 1)
          BY <1>1
    <2> QED
        BY <1>3, <2>1, <2>2
  <1>6. proc' = "up" => Len(cls'.members) <= Len(schema'.slots)
    <2>1. Len(cls.members) \in Nat
          BY ClassAssumption DEF LayoutInv, SchemaInv
    <2>2. proc = "up" => Len(cls.members) <= N
          BY <1>1 DEF FieldInv, AlignInv
    <2> QED
        BY <1>1, <1>2, <1>3, <2>1, <2>2
  <1>7. Placed(off)'
    <2>1. more[N + 1].off = off
          BY <1>1, <1>3
    <2> QED
        BY <1>1, <1>3, <2>1 DEF Placed
  <1>8. ASSUME NEW x, Placed(x) PROVE Placed(x)'
    <2>1. PICK i \in 1..N : slots[i].off = x
          BY <1>1, <1>8 DEF Placed
    <2> QED
        BY <1>1, <1>3, <2>1 DEF Placed
  <1>9. ASSUME NEW i \in 1..Len(schema'.slots) PROVE Aimed(schema.slots[i], i)'
    <2>1. PICK r : r = schema'.slots[i]
          OBVIOUS
    <2>2. Aimed(r, i)
          BY <1>1, <1>3, <1>5, <2>1
    <2>3. (IF i <= Len(cls'.members) THEN r.off ELSE MetaSize + r.off) % DeclOf(r).align = 0
          BY <2>2 DEF Aimed
    <2> QED
        BY <2>1, <2>3 DEF Aimed
  <1> QED
      BY <1>4, <1>6, <1>7, <1>8, <1>9

\* A MEMBER line: the offset is that of a member.
LEMMA MemberAims ==
    ASSUME LayoutInv, FieldInv, RegisterMember PROVE FieldInv'
  <1>1. PICK k, m : k = Len(schema.slots) /\ m = cls.members[Len(schema.slots) + 1]
        OBVIOUS
  <1>2. /\ proc = "static" /\ proc' = "static" /\ cls' = cls /\ reg' = reg
        /\ k < Len(cls.members) /\ schema' = Member(schema, m.name, m.off)
        /\ DOMAIN schema = Parts /\ cls \in Class /\ schema.slots \in Seq(Slot)
        BY <1>1 DEF RegisterMember, LayoutInv, SchemaInv
  <1>3. cls.members \in Seq(Slot)
        BY <1>2, ClassAssumption DEF Slot
  <1>4. k + 1 \in DOMAIN cls.members /\ m \in Slot /\ m = cls.members[k + 1]
    <2>1. PICK s : s = cls.members
          OBVIOUS
    <2>2. s \in Seq(Slot) /\ k \in Nat /\ k < Len(s) /\ m = s[k + 1]
          BY <1>1, <1>2, <1>3, <2>1
    <2>3. k + 1 \in DOMAIN s /\ s[k + 1] \in Slot
          BY <2>2
    <2> QED
        BY <2>1, <2>2, <2>3
  <1>5. m.name \in Name /\ m.off \in Nat /\ m = [name |-> m.name, off |-> m.off]
        BY <1>4 DEF Slot
  <1>6. m.off % Decl[m.name].align = 0
        BY <1>2, <1>4, MembersAssumption
  <1>7. Aimed(m, k + 1)
    <2>1. k + 1 <= Len(cls.members)
          BY <1>3, <1>4
    <2> QED
        BY <1>6, <2>1 DEF Aimed, DeclOf
  <1>8. CASE m.name \in DOMAIN schema.map
    <2>1. schema' = schema
          BY <1>2, <1>8 DEF Member
    <2> QED
        BY <1>2, <2>1, FieldFrame
  <1>9. CASE m.name \notin DOMAIN schema.map
    <2>1. PICK T, n, off : T = WithHooks(schema, m.name, m.off) /\ n = m.name /\ off = m.off
          OBVIOUS
    <2>2. schema' = Emplaced(T, n, off) /\ n \in Name /\ off \in Nat
          BY <1>2, <1>5, <1>9, <2>1 DEF Member
    <2>3. /\ DOMAIN T = Parts /\ T.map = schema.map
          /\ T.slots = Append(schema.slots, [name |-> n, off |-> off])
          /\ T.hooks = AddHook(schema.hooks, n, off)
          BY <1>2, <2>1, <2>2, HookParts, HookFuns
    <2>4. /\ schema'.slots = T.slots /\ schema'.hooks = T.hooks
          /\ DOMAIN schema'.map = DOMAIN schema.map \cup {n}
          BY <2>2, <2>3 DEF Emplaced, Parts
    <2>5. \A l \in DOMAIN schema'.map :
             \/ l \in DOMAIN schema.map /\ schema'.map[l] = schema.map[l]
             \/ l = n /\ schema'.map[l].off = off
          BY <2>2, <2>3, EmplacedOffs
    <2>6. Aimed([name |-> n, off |-> off], Len(schema.slots) + 1)
          BY <1>1, <1>5, <1>7, <2>1
    <2>7. /\ HooksOK(schema') /\ \A i \in 1..Len(schema'.slots) : Aimed(schema.slots[i], i)'
          /\ Placed(off)' /\ \A x : Placed(x) => Placed(x)'
          BY <1>2, <2>2, <2>3, <2>4, <2>6, FieldGrows
    <2>8. \A t \in Thread : reg[t].pc = "idle"
          BY <1>2 DEF LayoutInv, RegInv
    <2>9. AlignInv'
          BY <1>2, <2>7, <2>8 DEF AlignInv
    <2>10. MapInv'
      <3>1. \A l \in DOMAIN schema.map : l \in Name /\ Placed(schema.map[l].off)
            BY DEF FieldInv, MapInv
      <3>2. ASSUME NEW l \in DOMAIN schema'.map PROVE l \in Name /\ Placed(schema.map[l].off)'
        <4>1. PICK x : x = schema'.map[l].off
              OBVIOUS
        <4>2. Placed(x)' /\ l \in Name
              BY <2>2, <2>5, <2>7, <3>1, <4>1
        <4> QED
            BY <4>1, <4>2 DEF Placed
      <3> QED
          BY <1>2, <2>8, <3>2 DEF MapInv
    <2> QED
        BY <2>7, <2>9, <2>10 DEF FieldInv
  <1> QED
      BY <1>8, <1>9

LEMMA LayoutAims ==
    ASSUME LayoutInv, FieldInv, NEW t \in Thread, Layout(t) PROVE FieldInv'
  <1>1. PICK n, off, a : n = reg[t].name /\ off = OffsetFor(schema, n) /\ a = Decl[n].align
        OBVIOUS
  <1>2. /\ proc = "up" /\ proc' = proc /\ cls' = cls /\ schema' = WithSpace(schema, n)
        /\ reg[t].pc = "lock" /\ reg' = [reg EXCEPT ![t].pc = "hooks", ![t].off = off]
        /\ DOMAIN schema = Parts /\ schema.unaligned \in Nat /\ n \in Name
        BY <1>1 DEF Layout, LayoutInv, SchemaInv, RegInv
  <1>3. /\ schema'.slots = schema.slots /\ schema'.hooks = schema.hooks /\ schema'.map = schema.map
        BY <1>2, HookFuns DEF WithSpace, Parts
  <1>4. (MetaSize + off) % a = 0
    <2>1. a \in Nat \ {0} /\ MetaSize \in Nat
          BY <1>1, <1>2, DeclAssumption, MetaAssumption DEF Declaration
    <2>2. PICK x : x = AlignUp(schema.unaligned, a)
          OBVIOUS
    <2>3. x % a = 0 /\ x \in Int
          BY <1>2, <2>1, <2>2, AlignUpAligns, AlignUpUp
    <2>4. off = x - MetaSize
          BY <1>1, <2>2 DEF OffsetFor
    <2>5. MetaSize + off = x
          BY <2>1, <2>3, <2>4
    <2> QED
        BY <2>3, <2>5
  <1>5. /\ reg'[t].off = off /\ reg'[t].name = n /\ reg'[t].pc = "hooks"
        /\ \A u \in Thread : u # t => reg'[u] = reg[u]
        BY <1>1, <1>2 DEF LayoutInv, RegInv
  <1>6. HooksOK(schema')
        BY <1>3 DEF FieldInv, HooksOK
  <1>7. AlignInv'
    <2>1. \A i \in 1..Len(schema'.slots) : Aimed(schema.slots[i], i)'
          BY <1>2, <1>3 DEF FieldInv, AlignInv, Aimed
    <2>2. ASSUME NEW u \in Thread, reg'[u].pc = "hooks"
          PROVE  (MetaSize + reg'[u].off) % Decl[reg'[u].name].align = 0
      <3>1. CASE u = t
            BY <1>1, <1>4, <1>5, <3>1
      <3>2. CASE u # t
            BY <1>5, <2>2, <3>2 DEF FieldInv, AlignInv
      <3> QED
          BY <3>1, <3>2
    <2> QED
        BY <1>2, <1>3, <2>1, <2>2 DEF FieldInv, AlignInv
  <1>8. MapInv'
    <2>1. \A x : Placed(x) => Placed(x)'
          BY <1>3 DEF Placed
    <2>2. \A l \in DOMAIN schema'.map : l \in Name /\ Placed(schema.map[l].off)'
          BY <1>3 DEF FieldInv, MapInv, Placed
    <2>3. ASSUME NEW u \in Thread, reg'[u].pc = "emplace" PROVE Placed(reg[u].off)'
      <3>1. u # t /\ reg'[u] = reg[u]
            BY <1>5, <2>3
      <3>2. Placed(reg[u].off)
            BY <2>3, <3>1 DEF FieldInv, MapInv
      <3> QED
          BY <1>3, <3>1, <3>2 DEF Placed
    <2> QED
        BY <2>2, <2>3 DEF MapInv
  <1> QED
      BY <1>6, <1>7, <1>8 DEF FieldInv

LEMMA HooksAim ==
    ASSUME LayoutInv, FieldInv, NEW t \in Thread, Hooks(t) PROVE FieldInv'
  <1>1. PICK n, off : n = reg[t].name /\ off = reg[t].off
        OBVIOUS
  <1>2. /\ proc = "up" /\ proc' = proc /\ cls' = cls /\ schema' = WithHooks(schema, n, off)
        /\ reg[t].pc = "hooks" /\ reg' = [reg EXCEPT ![t].pc = "emplace"]
        /\ DOMAIN schema = Parts /\ n \in Name /\ off \in Nat /\ schema.slots \in Seq(Slot)
        BY <1>1 DEF Hooks, LayoutInv, SchemaInv, RegInv
  <1>3. /\ schema'.slots = Append(schema.slots, [name |-> n, off |-> off])
        /\ schema'.hooks = AddHook(schema.hooks, n, off) /\ schema'.map = schema.map
        BY <1>2, HookParts, HookFuns
  <1>4. Aimed([name |-> n, off |-> off], Len(schema.slots) + 1)
    <2>1. (MetaSize + off) % Decl[n].align = 0 /\ Len(cls.members) <= Len(schema.slots)
          BY <1>1, <1>2 DEF FieldInv, AlignInv
    <2>2. ~(Len(schema.slots) + 1 <= Len(cls.members))
      <3>1. Len(schema.slots) \in Nat /\ Len(cls.members) \in Nat
            BY <1>2, ClassAssumption DEF LayoutInv, SchemaInv
      <3> QED
          BY <2>1, <3>1
    <2> QED
        BY <2>1, <2>2 DEF Aimed, DeclOf
  <1>5. /\ HooksOK(schema') /\ \A i \in 1..Len(schema'.slots) : Aimed(schema.slots[i], i)'
        /\ proc' = "up" => Len(cls'.members) <= Len(schema'.slots)
        /\ Placed(off)' /\ \A x : Placed(x) => Placed(x)'
        BY <1>2, <1>3, <1>4, FieldGrows
  <1>6. /\ reg'[t].off = off /\ reg'[t].pc = "emplace"
        /\ \A u \in Thread : u # t => reg'[u] = reg[u]
        BY <1>1, <1>2 DEF LayoutInv, RegInv
  <1>7. AlignInv'
    <2>1. ASSUME NEW u \in Thread, reg'[u].pc = "hooks"
          PROVE  (MetaSize + reg'[u].off) % Decl[reg'[u].name].align = 0
          BY <1>6, <2>1 DEF FieldInv, AlignInv
    <2> QED
        BY <1>5, <2>1 DEF AlignInv
  <1>8. MapInv'
    <2>1. \A l \in DOMAIN schema.map : l \in Name /\ Placed(schema.map[l].off)
          BY DEF FieldInv, MapInv
    <2>2. ASSUME NEW l \in DOMAIN schema'.map PROVE l \in Name /\ Placed(schema.map[l].off)'
      <3>1. PICK x : x = schema.map[l].off
            OBVIOUS
      <3>2. l \in Name /\ Placed(x)'
            BY <1>3, <1>5, <2>1, <3>1
      <3> QED
          BY <1>3, <3>1, <3>2 DEF Placed
    <2>3. ASSUME NEW u \in Thread, reg'[u].pc = "emplace" PROVE Placed(reg[u].off)'
      <3>1. PICK x : x = reg'[u].off
            OBVIOUS
      <3>2. CASE u = t
            BY <1>5, <1>6, <3>1, <3>2 DEF Placed
      <3>3. CASE u # t
        <4>1. reg'[u] = reg[u] /\ Placed(x)
              BY <1>6, <2>3, <3>1, <3>3 DEF FieldInv, MapInv
        <4>2. Placed(x)'
              BY <1>5, <4>1
        <4> QED
            BY <3>1, <4>1, <4>2 DEF Placed
      <3> QED
          BY <3>2, <3>3
    <2> QED
        BY <2>2, <2>3 DEF MapInv
  <1> QED
      BY <1>5, <1>7, <1>8 DEF FieldInv

LEMMA EmplaceAims ==
    ASSUME LayoutInv, FieldInv, NEW t \in Thread, Emplace(t) PROVE FieldInv'
  <1>1. PICK n, off : n = reg[t].name /\ off = reg[t].off
        OBVIOUS
  <1>2. /\ proc = "up" /\ proc' = proc /\ cls' = cls /\ schema' = Emplaced(schema, n, off)
        /\ reg[t].pc = "emplace" /\ reg' = [reg EXCEPT ![t] = Idle]
        /\ DOMAIN schema = Parts /\ n \in Name
        BY <1>1 DEF Emplace, LayoutInv, SchemaInv, RegInv
  <1>3. /\ schema'.slots = schema.slots /\ schema'.hooks = schema.hooks
        BY <1>2 DEF Emplaced, Parts
  <1>4. \A l \in DOMAIN schema'.map :
           \/ l \in DOMAIN schema.map /\ schema'.map[l] = schema.map[l]
           \/ l = n /\ schema'.map[l].off = off
        BY <1>2, EmplacedOffs
  <1>5. /\ reg'[t].pc = "idle" /\ \A u \in Thread : u # t => reg'[u] = reg[u]
        BY <1>2 DEF LayoutInv, RegInv, Idle
  <1>6. HooksOK(schema')
        BY <1>3 DEF FieldInv, HooksOK
  <1>7. AlignInv'
    <2>1. \A i \in 1..Len(schema'.slots) : Aimed(schema.slots[i], i)'
          BY <1>2, <1>3 DEF FieldInv, AlignInv, Aimed
    <2>2. ASSUME NEW u \in Thread, reg'[u].pc = "hooks"
          PROVE  (MetaSize + reg'[u].off) % Decl[reg'[u].name].align = 0
          BY <1>5, <2>2 DEF FieldInv, AlignInv
    <2> QED
        BY <1>2, <1>3, <2>1, <2>2 DEF FieldInv, AlignInv
  <1>8. MapInv'
    <2>1. /\ \A l \in DOMAIN schema.map : l \in Name /\ Placed(schema.map[l].off)
          /\ Placed(off)
          BY <1>1, <1>2 DEF FieldInv, MapInv
    <2>2. ASSUME NEW l \in DOMAIN schema'.map PROVE l \in Name /\ Placed(schema.map[l].off)'
      <3>1. PICK x : x = schema'.map[l].off
            OBVIOUS
      <3>2. l \in Name /\ Placed(x)
            BY <1>2, <1>4, <2>1, <3>1
      <3> QED
          BY <1>3, <3>1, <3>2 DEF Placed
    <2>3. ASSUME NEW u \in Thread, reg'[u].pc = "emplace" PROVE Placed(reg[u].off)'
      <3>1. reg'[u] = reg[u] /\ Placed(reg[u].off)
            BY <1>5, <2>3 DEF FieldInv, MapInv
      <3> QED
          BY <1>3, <3>1 DEF Placed
    <2> QED
        BY <2>2, <2>3 DEF MapInv
  <1> QED
      BY <1>6, <1>7, <1>8 DEF FieldInv

LEMMA FieldNext == LayoutInv /\ FieldInv /\ [Next]_vars => FieldInv'
  <1> SUFFICES ASSUME LayoutInv, FieldInv, [Next]_vars PROVE FieldInv'
      OBVIOUS
  <1>1. CASE RegisterMember
        BY <1>1, MemberAims
  <1>2. CASE MemberEnd
    <2>1. /\ schema' = SetSizeAndAlign(schema, cls.size, cls.align) /\ DOMAIN schema = Parts
          /\ cls' = cls /\ reg' = reg /\ Len(schema.slots) = Len(cls.members)
          BY <1>2 DEF MemberEnd, LayoutInv, SchemaInv, regVars
    <2>2. schema'.slots = schema.slots /\ schema'.hooks = schema.hooks /\ schema'.map = schema.map
          BY <2>1 DEF SetSizeAndAlign, Parts
    <2>3. Len(cls.members) <= Len(schema.slots)
      <3>1. Len(cls.members) \in Nat
            BY ClassAssumption DEF LayoutInv, SchemaInv
      <3> QED
          BY <2>1, <3>1
    <2> QED
        BY <2>1, <2>2, <2>3, FieldFrame
  <1>s. ASSUME NEW end \in {"aborted", "undefined"}, Stop(end) PROVE FieldInv'
    <2>1. (schema = EmptySchema /\ reg = [t \in Thread |-> Idle] /\ proc # "up")'
          BY <1>s DEF Stop
    <2> QED
        BY <2>1, Nothing, PTL
  <1>c. CASE Crash
        BY <1>c, <1>s DEF Crash
  <1>g. CASE \E n \in Name : GetField(n)
    <2>1. CASE Stop("aborted")
          BY <2>1, <1>s
    <2>2. CASE ~Stop("aborted")
      <3>1. schema' = schema /\ cls' = cls /\ reg' = reg /\ proc' = proc
            BY <1>g, <2>2 DEF GetField, vars, schemaVars, regVars
      <3> QED
          BY <3>1, FieldFrame
    <2> QED
        BY <2>1, <2>2
  <1>3. ASSUME NEW t \in Thread, RegisterField(t) PROVE FieldInv'
    <2>1. CASE \E n \in Dynamic : Find(t, n)
      <3>1. PICK n \in Dynamic : Find(t, n)
            BY <2>1
      <3>2. /\ schema' = schema /\ cls' = cls /\ proc' = proc
            /\ \A u \in Thread : reg'[u] = reg[u] \/ reg'[u].pc = "lock"
        <4>1. reg' = reg \/ reg' = [reg EXCEPT ![t] = [pc |-> "lock", name |-> n, off |-> 0]]
              BY <3>1 DEF Find
        <4>2. DOMAIN reg = Thread
              BY DEF LayoutInv, RegInv
        <4> QED
            BY <3>1, <4>1, <4>2 DEF Find
      <3>3. HooksOK(schema')
            BY <3>2 DEF FieldInv
      <3>4. AlignInv'
        <4>1. \A i \in 1..Len(schema'.slots) : Aimed(schema.slots[i], i)'
              BY <3>2 DEF FieldInv, AlignInv, Aimed
        <4>2. \A u \in Thread : reg'[u].pc = "hooks" => (MetaSize + reg'[u].off) % Decl[reg'[u].name].align = 0
              BY <3>2 DEF FieldInv, AlignInv
        <4> QED
            BY <3>2, <4>1, <4>2 DEF FieldInv, AlignInv
      <3>5. MapInv'
        <4>1. \A l \in DOMAIN schema'.map : l \in Name /\ Placed(schema.map[l].off)'
              BY <3>2 DEF FieldInv, MapInv, Placed
        <4>2. ASSUME NEW u \in Thread, reg'[u].pc = "emplace" PROVE Placed(reg[u].off)'
          <5>1. reg'[u] = reg[u]
                BY <3>2, <4>2
          <5> QED
              BY <3>2, <4>2, <5>1 DEF FieldInv, MapInv, Placed
        <4> QED
            BY <4>1, <4>2 DEF MapInv
      <3> QED
          BY <3>3, <3>4, <3>5 DEF FieldInv
    <2> QED
        BY <1>3, <1>c, <2>1, LayoutAims, HooksAim, EmplaceAims DEF RegisterField, FindRace
  <1>4. CASE Application
    <2>1. CASE AppRace
          BY <1>c, <2>1 DEF AppRace
    <2>2. CASE ~AppRace
      <3>1. UNCHANGED schemaVars /\ proc = "up"
            BY <1>4, <2>2, ApplicationFrame
      <3>2. schema' = schema /\ cls' = cls /\ reg' = reg
            BY <3>1 DEF schemaVars, regVars
      <3> QED
          BY <3>1, <3>2, FieldFrame
    <2> QED
        BY <2>1, <2>2
  <1>5. CASE UNCHANGED vars
    <2>1. schema' = schema /\ cls' = cls /\ reg' = reg /\ proc' = proc
          BY <1>5 DEF vars, schemaVars, regVars
    <2> QED
        BY <2>1, FieldFrame
  <1> QED
      BY <1>1, <1>2, <1>3, <1>4, <1>5, <1>g DEF Next

LEMMA FieldInvHolds == Spec => [](LayoutInv /\ FieldInv)
  <1>1. Init => LayoutInv /\ FieldInv
        BY InitLayout, FieldInit
  <1>2. (LayoutInv /\ FieldInv) /\ [Next]_vars => (LayoutInv /\ FieldInv)'
        BY NextKeeps, FieldNext
  <1> QED
      BY <1>1, <1>2, PTL DEF Spec
================================================================================
