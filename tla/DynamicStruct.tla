----------------------------- MODULE DynamicStruct -----------------------------
(***************************************************************************)
(* DynamicStruct and ReuseDynamicStructPool of                             *)
(* example/brpc/dynamic_struct.{h,hpp}: threads register fields with a     *)
(* schema, and an application makes objects of it on the heap, in a memory *)
(* pool or through a pool of reusable objects, also rebuilt from the       *)
(* metadata of another one.                                                *)
(*                                                                         *)
(* The memory of a field is "raw", "clean" (zero or constructed), "dirty"  *)
(* (used), "dead" (destroyed) or "torn" (anything else: partly             *)
(* overwritten, constructed or destroyed out of turn).                     *)
(***************************************************************************)
EXTENDS FieldLayout, SequencesExt

CONSTANTS Thread,     \* threads that register fields
          Dynamic,    \* names they register
          Class,      \* the classes with MEMBER lists: members, size, align
          Obj,        \* the objects ever made
          MaxSlots    \* bound: registrations

ASSUME ClassAssumption ==
    /\ Dynamic \subseteq Name /\ MaxSlots \in Nat
    /\ Class \subseteq [members : Seq([name : Name, off : Nat]), size : Nat, align : Nat \ {0}]

\* The members of a class lie in it, side by side and aligned.
ASSUME MembersAssumption ==
    \A c \in Class : \A i, j \in DOMAIN c.members :
        LET m == c.members[i]
            k == c.members[j] IN
        /\ m.off + Decl[m.name].size <= c.size /\ m.off % Decl[m.name].align = 0
        /\ i # j => \/ m.off + Decl[m.name].size <= k.off
                    \/ k.off + Decl[k.name].size <= m.off

VARIABLES
    proc,     \* "static" initialisation; "up"; "aborted"; "undefined" after
              \* undefined behaviour
    cls,      \* the class whose schema this is; one without members for a plain Schema
    way,      \* how the application makes its objects, and in which kind of pool
    schema,
    mutex,    \* the threads in the critical section of register_field
    reg,      \* where register_field is, in each thread: [pc, name, off]
    acc,      \* the FieldAccessors that were returned
    obj,      \* the objects there are: [st, how, pool, mem, cap]
    cleaners, \* destructors registered with the memory pools: <<object, offset>>,
              \* or <<object, Whole>> for ~DynamicStruct
    reuse,    \* the ReuseDynamicStructPool: [st, pool, vec, use_num]
    held,     \* the objects its user has from get(), since the last reconstruct()
    meta,     \* its AllocationMetadata: [set, n, size], n entries in metadatas
    leaked,   \* history: fields that were not destroyed with their object: <<how, name>>
    raced,    \* history: the schema was read while a thread was writing it
    misused   \* history: a field met another memory pool than its own, or none
regVars == <<mutex, reg, acc>>
schemaVars == <<cls, way, schema, regVars>>
useVars == <<obj, cleaners, reuse, held, meta, leaked>>
vars == <<proc, schemaVars, useVars, raced, misused>>

\* Bound: an application uses one of these ways.
Ways == {[how |-> "heap", pool |-> "null"]}
          \cup [how : {"pool", "reuse"}, pool : {"serial", "arena"}]
Nobody == "nobody"
Whole == -1
Idle == [pc |-> "idle", name |-> Nobody, off |-> 0]
NoObj == [st |-> "none", how |-> "none", pool |-> "null", mem |-> << >>, cap |-> 0]
NoReuse == [st |-> "none", pool |-> "null", vec |-> << >>, use_num |-> 0]
NoMeta == [set |-> FALSE, n |-> 0, size |-> 0]

Init == /\ proc = "static" /\ cls \in Class /\ way \in Ways /\ schema = EmptySchema
        /\ mutex = {} /\ reg = [t \in Thread |-> Idle] /\ acc = {}
        /\ obj = [o \in Obj |-> NoObj] /\ cleaners = {}
        /\ reuse = NoReuse /\ held = {} /\ meta = NoMeta /\ leaked = {}
        /\ raced = FALSE /\ misused = FALSE
--------------------------------------------------------------------------------
(* Static initialisation: the members of the class in the order of their      *)
(* MEMBER lines, then MEMBER_END.                                             *)

RegisterMember ==
    /\ proc = "static" /\ Len(schema.slots) < Len(cls.members)
    /\ LET m == cls.members[Len(schema.slots) + 1] IN
         /\ schema' = Member(schema, m.name, m.off)
         /\ acc' = acc \cup {schema'.map[m.name]}
    /\ UNCHANGED <<proc, cls, way, mutex, reg, useVars, raced, misused>>

MemberEnd ==
    /\ proc = "static" /\ Len(schema.slots) = Len(cls.members)
    /\ schema' = SetSizeAndAlign(schema, cls.size, cls.align)
    /\ proc' = "up"
    /\ UNCHANGED <<cls, way, regVars, useVars, raced, misused>>
--------------------------------------------------------------------------------
(* register_field(name) in a thread.  The first look into the map is outside  *)
(* the lock and is not repeated inside it.  Bound: two threads are at it only *)
(* before the first object is made.                                           *)

Busy == {t \in Thread : reg[t].pc # "idle"}
Writing(t) == \E u \in Thread \ {t} : reg[u].pc = "emplace"

Find(t, n) ==
    /\ proc = "up" /\ reg[t].pc = "idle"
    /\ IF n \in DOMAIN schema.map
         THEN acc' = acc \cup {schema.map[n]} /\ UNCHANGED reg
         ELSE /\ Len(schema.slots) + Cardinality(Busy) < MaxSlots
              /\ Busy = {} \/ \A o \in Obj : obj[o].st = "none"
              /\ reg' = [reg EXCEPT ![t] = [pc |-> "lock", name |-> n, off |-> 0]]
              /\ UNCHANGED acc
    /\ UNCHANGED <<proc, cls, way, schema, mutex, useVars, raced, misused>>

\* The process is over.
Stop(end) ==
    /\ proc' = end
    /\ schema' = EmptySchema
    /\ mutex' = {} /\ reg' = [t \in Thread |-> Idle] /\ acc' = {}
    /\ obj' = [o \in Obj |-> NoObj] /\ cleaners' = {}
    /\ reuse' = NoReuse /\ held' = {} /\ meta' = NoMeta
    /\ UNCHANGED <<cls, way, leaked, misused>>

\* get_field(): without the name one form ends in abort(), and the other sets err and
\* returns the accessor of a Field(), which nobody uses.
GetField(n) ==
    /\ proc = "up"
    /\ IF n \in DOMAIN schema.map
         THEN /\ acc' = acc \cup {schema.map[n]}
              /\ UNCHANGED <<proc, cls, way, schema, mutex, reg, useVars, raced, misused>>
         ELSE \/ Stop("aborted") /\ UNCHANGED raced
              \/ UNCHANGED vars

\* A look-up while another thread is in emplace(): a data race, which may end the
\* process.
Crash == Stop("undefined") /\ raced' = TRUE
FindRace(t) == proc = "up" /\ reg[t].pc = "idle" /\ Writing(t) /\ Crash

Layout(t) ==
    /\ proc = "up" /\ reg[t].pc = "lock" /\ mutex = {}
    /\ mutex' = {t}
    /\ reg' = [reg EXCEPT ![t].pc = "hooks", ![t].off = OffsetFor(schema, reg[t].name)]
    /\ schema' = WithSpace(schema, reg[t].name)
    /\ UNCHANGED <<proc, cls, way, acc, useVars, raced, misused>>

Hooks(t) ==
    /\ proc = "up" /\ reg[t].pc = "hooks"
    /\ schema' = WithHooks(schema, reg[t].name, reg[t].off)
    /\ reg' = [reg EXCEPT ![t].pc = "emplace"]
    /\ UNCHANGED <<proc, cls, way, mutex, acc, useVars, raced, misused>>

\* Mutant: lock() without unlock().
EmplaceKeepsLock(t) ==
    /\ proc = "up" /\ reg[t].pc = "emplace"
    /\ schema' = Emplaced(schema, reg[t].name, reg[t].off)
    /\ acc' = acc \cup {schema'.map[reg[t].name]}
    /\ reg' = [reg EXCEPT ![t] = Idle]
    /\ UNCHANGED <<proc, cls, way, mutex, useVars, raced, misused>>

\* Mutant: the accessor of the field that was made, not of the one in the map.
EmplaceOwn(t) ==
    /\ proc = "up" /\ reg[t].pc = "emplace"
    /\ schema' = Emplaced(schema, reg[t].name, reg[t].off)
    /\ acc' = acc \cup {Field(reg[t].name, reg[t].off)}
    /\ mutex' = mutex \ {t}
    /\ reg' = [reg EXCEPT ![t] = Idle]
    /\ UNCHANGED <<proc, cls, way, useVars, raced, misused>>

\* emplace(), and the guard unlocks.  If another thread was faster, what this
\* one has laid out stays behind, without a name.
Emplace(t) ==
    /\ proc = "up" /\ reg[t].pc = "emplace"
    /\ schema' = Emplaced(schema, reg[t].name, reg[t].off)
    /\ acc' = acc \cup {schema'.map[reg[t].name]}
    /\ mutex' = mutex \ {t}
    /\ reg' = [reg EXCEPT ![t] = Idle]
    /\ UNCHANGED <<proc, cls, way, useVars, raced, misused>>

RegisterField(t) ==
    (\E n \in Dynamic : Find(t, n)) \/ FindRace(t) \/ Layout(t) \/ Hooks(t) \/ Emplace(t)
--------------------------------------------------------------------------------
(* What the functions in hooks do to the memory of a slot in state st.        *)

SlotState == {"raw", "clean", "dirty", "dead", "torn"}

Meets(h, s) == h.off < s.off + Decl[s.name].size /\ s.off < h.off + h.size
Covers(h, s) == h.off <= s.off /\ s.off + Decl[s.name].size <= h.off + h.size

FillWithZero(h, s, st) ==
    CASE ~Meets(h, s) -> st
      [] Meets(h, s) /\ Decl[s.name].trivial -> IF Covers(h, s) THEN "clean" ELSE "torn"
      [] OTHER -> IF st = "raw" THEN "raw" ELSE "torn"

\* construct, construct_with_pool, construct_with_metadata.
ConstructSlot(h, s, st) ==
    IF h.zero THEN FillWithZero(h, s, st)
    ELSE IF h.off # s.off THEN st
    ELSE IF st = "raw" THEN "clean" ELSE "torn"

\* reconstruct: clear(), or destruction and construction.
ReconstructSlot(h, s, st) ==
    IF h.zero THEN FillWithZero(h, s, st)
    ELSE IF h.off # s.off THEN st
    ELSE IF st \in {"clean", "dirty"} THEN "clean" ELSE "torn"

\* What functions F make of state st, one after the other.
InTurn(F, st) ==
    LET after[k \in 0..Len(F)] == IF k = 0 THEN st ELSE F[k][after[k - 1]]
    IN after[Len(F)]

\* The vectors _constructors and _cleaners, as slot s sees them.
Constructors(S, s) ==
    [k \in DOMAIN S.hooks |-> [st \in SlotState |-> ConstructSlot(S.hooks[k], s, st)]]
Cleaners(S, s) ==
    [k \in DOMAIN S.hooks |-> [st \in SlotState |-> ReconstructSlot(S.hooks[k], s, st)]]

ConstructAll(S) == [i \in DOMAIN S.slots |-> InTurn(Constructors(S, S.slots[i]), "raw")]
ClearAll(S, mem) == [i \in DOMAIN mem |-> InTurn(Cleaners(S, S.slots[i]), mem[i])]
\* The fields at these offsets are destroyed.
Destroy(S, mem, offs) ==
    [i \in DOMAIN mem |->
       IF S.slots[i].off \notin offs THEN mem[i]
       ELSE IF mem[i] \in {"clean", "dirty"} THEN "dead" ELSE "torn"]

OffsetsOf(S, mem) == {S.slots[i].off : i \in DOMAIN mem}
AllClean(mem) == \A i \in DOMAIN mem : mem[i] = "clean"
\* The functions in hooks write only to the data of an object of size cap.
Fits(S, cap) == \A i \in DOMAIN S.hooks : S.hooks[i].off + S.hooks[i].size <= cap - MetaSize
\* The data begin behind the Meta of an object at address base.
Aligned(S, base) ==
    \A i \in DOMAIN S.slots : (base + MetaSize + S.slots[i].off) % Decl[S.slots[i].name].align = 0

\* A field that uses a memory pool is given one of another type, or nullptr.
WrongPool(S, pool) ==
    \E i \in DOMAIN S.slots : LET d == Decl[S.slots[i].name] IN
                                ~d.trivial /\ d.arena \notin {"void", pool}
\* The offsets of the fields whose destructors the memory pool will call:
\* construct_with_pool registers them, a construction with metadata does not.
InPool(S, how) ==
    {S.slots[i].off : i \in {j \in DOMAIN S.slots :
        LET d == Decl[S.slots[j].name] IN
          ~d.trivDtor /\ d.arena # "void" /\ ~(how = "rebuilt" /\ d.meta)}}
--------------------------------------------------------------------------------
(* The application.  It uses the schema without its mutex.                    *)

\* Memory pools align a block as asked; Arena::CreateArray<char> for a pointer.
Bases(pool) == IF pool = "arena" THEN {0, MetaSize} ELSE {0}

AppRace ==
    /\ proc = "up"
    /\ \E t \in Thread : reg[t].pc \in {"hooks", "emplace"}
    /\ Crash

\* The objects become objs if that is defined behaviour.
Outcome(defined, objs) == IF defined THEN obj' = objs /\ UNCHANGED proc
                                     ELSE proc' = "undefined" /\ UNCHANGED obj

\* What making an object of the schema comes to, and whether it goes well.
Made(how, pool) ==
    [st |-> "live", how |-> how, pool |-> pool, mem |-> ConstructAll(schema), cap |-> schema.size]
WellMade(pool, base) ==
    /\ ~WrongPool(schema, pool)
    /\ AllClean(ConstructAll(schema)) /\ Fits(schema, schema.size) /\ Aligned(schema, base)

Make(o, how, pool) ==
    /\ way = [how |-> how, pool |-> pool]
    /\ proc = "up" /\ obj[o].st = "none" /\ Cardinality(Busy) <= 1
    /\ obj' = [obj EXCEPT ![o] = Made(how, pool)]
    /\ \E base \in Bases(pool) : proc' = IF WellMade(pool, base) THEN "up" ELSE "undefined"
    /\ misused' = (misused \/ WrongPool(schema, pool))
    /\ UNCHANGED <<schemaVars, meta, leaked, raced>>

\* create()
Create(o) == Make(o, "heap", "null") /\ UNCHANGED <<cleaners, reuse, held>>

\* create_with_pool(schema, A*): ~DynamicStruct is registered with the pool too.
CreateWithPool(o, pool) ==
    /\ Make(o, "pool", pool)
    /\ cleaners' = cleaners \cup ({o} \X (InPool(schema, "pool") \cup {Whole}))
    /\ UNCHANGED <<reuse, held>>

InUse(o) == /\ obj[o].st = "live"
            /\ obj[o].how \in {"heap", "pool"} \/ o \in held

\* get(field) or get_or_create(field), and the field is used.  Bound: one field
\* of an object at a time, since no function treats a field by the state of others.
Use(o, f) ==
    /\ proc = "up" /\ InUse(o) /\ f \in acc /\ AllClean(obj[o].mem)
    /\ LET at == {i \in DOMAIN obj[o].mem : schema.slots[i].off = f.off} IN
         Outcome(at # {}, [obj EXCEPT ![o].mem = [i \in DOMAIN @ |-> IF i \in at THEN "dirty" ELSE @[i]]])
    /\ UNCHANGED <<schemaVars, cleaners, reuse, held, meta, leaked, raced, misused>>

WithMem(mem) ==
    [o \in Obj |-> IF o \in DOMAIN mem THEN [obj[o] EXCEPT !.mem = mem[o]] ELSE obj[o]]
\* Every field that is destroyed is one that was constructed.
WellDestroyed(mem, o) == /\ schema.dtors \subseteq OffsetsOf(schema, obj[o].mem)
                         /\ \A i \in DOMAIN mem : mem[i] # "torn"

\* clear() of objects os, with a pool.
ClearObjects(os, pool) ==
    LET cleared == [o \in os |-> ClearAll(schema, obj[o].mem)] IN
    /\ Outcome(\A o \in os : /\ AllClean(cleared[o]) /\ Fits(schema, obj[o].cap)
                             /\ ~WrongPool(schema, pool),
               WithMem(cleared))
    /\ misused' = (misused \/ (os # {} /\ WrongPool(schema, pool)))

\* clear(): reconstruct gets a null pool.
Clear(o) ==
    /\ proc = "up" /\ InUse(o)
    /\ ClearObjects({o}, "null")
    /\ UNCHANGED <<schemaVars, cleaners, reuse, held, meta, leaked, raced>>

\* Objects os have become mem and are no more.
Leaves(os, mem) ==
    UNION {{<<obj[o].how, schema.slots[i].name>> : i \in
             {j \in DOMAIN mem[o] : /\ mem[o][j] # "dead"
                                    /\ ~Decl[schema.slots[j].name].trivDtor}} : o \in os}
Without(os) == [o \in Obj |-> IF o \in os THEN NoObj ELSE obj[o]]

\* Destruction of a unique_ptr: destroy_all(), and operator delete with the size
\* that the schema has now, which not every build looks at.
Delete(o) ==
    /\ proc = "up" /\ obj[o].st = "live" /\ obj[o].how = "heap"
    /\ LET mem == Destroy(schema, obj[o].mem, schema.dtors) IN
         \E sized \in BOOLEAN :
           /\ Outcome(WellDestroyed(mem, o) /\ (sized => obj[o].cap = schema.size), Without({o}))
           /\ leaked' = leaked \cup Leaves({o}, [x \in {o} |-> mem])
    /\ UNCHANGED <<schemaVars, cleaners, reuse, held, meta, raced, misused>>

\* A memory pool ends, after the reuse pool in it: it calls the destructors that
\* were registered and takes the memory of the objects back.
EndOfPool(pool) ==
    LET os == {o \in Obj : obj[o].st = "live" /\ obj[o].pool = pool}
        offs(o) == {c[2] : c \in {d \in cleaners : d[1] = o}}
        mem == [o \in os |->
                  LET m == Destroy(schema, obj[o].mem, offs(o)) IN
                    IF Whole \in offs(o) THEN Destroy(schema, m, schema.dtors) ELSE m]
    IN /\ proc = "up" /\ os # {}
       /\ ~(reuse.st = "live" /\ reuse.pool = pool)
       /\ Outcome(\A o \in os : /\ \A i \in DOMAIN mem[o] : mem[o][i] # "torn"
                                /\ Whole \in offs(o) => WellDestroyed(mem[o], o),
                  Without(os))
       /\ leaked' = leaked \cup Leaves(os, mem)
       /\ cleaners' = {c \in cleaners : c[1] \notin os}
       /\ UNCHANGED <<schemaVars, reuse, held, meta, raced, misused>>
--------------------------------------------------------------------------------
(* ReuseDynamicStructPool *)

NewReuse(pool) ==
    /\ proc = "up" /\ reuse.st = "none" /\ way = [how |-> "reuse", pool |-> pool]
    /\ reuse' = [NoReuse EXCEPT !.st = "live", !.pool = pool]
    /\ UNCHANGED <<proc, schemaVars, obj, cleaners, held, meta, leaked, raced, misused>>

\* Mutant: ++use_num is missing on the second path.
GetAgainAndAgain ==
    /\ proc = "up" /\ reuse.st = "live" /\ reuse.use_num < Len(reuse.vec)
    /\ held' = held \cup {reuse.vec[reuse.use_num + 1]}
    /\ UNCHANGED <<proc, schemaVars, obj, cleaners, reuse, meta, leaked, raced, misused>>

\* get(), when there is an object that is not in use ...
GetOld ==
    /\ proc = "up" /\ reuse.st = "live" /\ reuse.use_num < Len(reuse.vec)
    /\ held' = held \cup {reuse.vec[reuse.use_num + 1]}
    /\ reuse' = [reuse EXCEPT !.use_num = @ + 1]
    /\ UNCHANGED <<proc, schemaVars, obj, cleaners, meta, leaked, raced, misused>>

\* ... and when there is none.
GetNew(o) ==
    /\ reuse.st = "live" /\ reuse.use_num = Len(reuse.vec)
    /\ Make(o, "reuse", reuse.pool)
    /\ cleaners' = cleaners \cup ({o} \X InPool(schema, "reuse"))
    /\ reuse' = [reuse EXCEPT !.vec = Append(@, o), !.use_num = @ + 1]
    /\ held' = held \cup {o}

\* reconstruct(): the user gives all objects back.
Reconstruct ==
    /\ proc = "up" /\ reuse.st = "live"
    /\ ClearObjects({reuse.vec[i] : i \in 1..reuse.use_num}, reuse.pool)
    /\ reuse' = [reuse EXCEPT !.use_num = 0]
    /\ held' = {}
    /\ UNCHANGED <<schemaVars, cleaners, meta, leaked, raced>>

\* ~ReuseDynamicStructPool
EndReuse ==
    /\ proc = "up" /\ reuse.st = "live"
    /\ LET os == IF schema.trivDtor THEN {} ELSE ToSet(reuse.vec)
           mem == [o \in os |-> Destroy(schema, obj[o].mem, schema.dtors)] IN
         Outcome(\A o \in os : WellDestroyed(mem[o], o), WithMem(mem))
    /\ reuse' = [reuse EXCEPT !.st = "gone", !.vec = << >>, !.use_num = 0]
    /\ held' = {}
    /\ UNCHANGED <<schemaVars, cleaners, meta, leaked, raced, misused>>

MetaSlots(S) == {i \in DOMAIN S.slots : Decl[S.slots[i].name].meta}

\* update_metadata() of an object finds the entries of its fields among n.
EntriesFound(o, n) == \A i \in MetaSlots(schema) : i <= n /\ i \in DOMAIN obj[o].mem

\* update_allocation_metadata(): one entry per field of the schema as it was at
\* the first call; then every object updates the entries of its fields.
UpdateMetadata ==
    /\ proc = "up" /\ reuse.st = "live"
    /\ LET n == IF meta.set THEN meta.n ELSE Len(schema.slots) IN
         /\ meta' = [set |-> TRUE, n |-> n, size |-> Len(reuse.vec)]
         /\ proc' = IF \A o \in ToSet(reuse.vec) : EntriesFound(o, n) THEN "up" ELSE "undefined"
    /\ UNCHANGED <<schemaVars, obj, cleaners, reuse, held, leaked, raced, misused>>

\* construct_with_metadata_all(): the function at position j of hooks is given
\* entry j of metadatas, which has n entries; it must be one of its type.
MetadataFound(S, n) ==
    /\ Len(S.hooks) <= n
    /\ \A j \in DOMAIN S.hooks : \A i \in MetaSlots(S) :
         S.slots[i].off = S.hooks[j].off => Decl[S.slots[j].name] = Decl[S.slots[i].name]

\* A reuse pool is built anew from the metadata of one that has ended.
Rebuild ==
    /\ proc = "up" /\ reuse.st = "gone" /\ meta.set
    /\ \E vec \in [1..meta.size -> {o \in Obj : obj[o].st = "none"}] :
       LET pool == reuse.pool
           os == ToSet(vec) IN
         /\ IsInjective(vec)
         /\ obj' = [o \in Obj |-> IF o \in os THEN Made("rebuilt", pool) ELSE obj[o]]
         /\ cleaners' = cleaners \cup (os \X InPool(schema, "rebuilt"))
         /\ reuse' = [st |-> "live", pool |-> pool, vec |-> vec, use_num |-> 0]
         /\ \E base \in Bases(pool) :
              proc' = IF os = {} \/ (WellMade(pool, base) /\ MetadataFound(schema, meta.n))
                        THEN "up" ELSE "undefined"
         /\ misused' = (misused \/ (os # {} /\ WrongPool(schema, pool)))
    /\ UNCHANGED <<schemaVars, held, meta, leaked, raced>>
--------------------------------------------------------------------------------
Application ==
    \/ AppRace \/ GetOld \/ Reconstruct \/ EndReuse \/ UpdateMetadata \/ Rebuild
    \/ \E o \in Obj : Create(o) \/ GetNew(o) \/ Clear(o) \/ Delete(o) \/ (\E f \in acc : Use(o, f))
    \/ \E pool \in {"serial", "arena"} :
         NewReuse(pool) \/ EndOfPool(pool) \/ (\E o \in Obj : CreateWithPool(o, pool))

Next == RegisterMember \/ MemberEnd \/ (\E t \in Thread : RegisterField(t))
        \/ (\E n \in Name : GetField(n)) \/ Application

Spec == Init /\ [][Next]_vars
--------------------------------------------------------------------------------
(* Properties *)

TypeOK ==
    /\ proc \in {"static", "up", "aborted", "undefined"} /\ cls \in Class /\ way \in Ways
    /\ schema.align \in Nat /\ schema.size \in Nat /\ schema.unaligned \in Nat
    /\ DOMAIN schema.map \subseteq Name
    /\ \A i \in DOMAIN schema.slots : schema.slots[i].name \in Name /\ schema.slots[i].off \in Nat
    /\ \A i \in DOMAIN schema.hooks : schema.hooks[i].size \in 0..(Word - 1)
    /\ \A t \in Thread : reg[t].pc \in {"idle", "lock", "hooks", "emplace"}
    /\ \A t \in Thread : t \in mutex <=> reg[t].pc \in {"hooks", "emplace"}
    /\ \A o \in Obj : /\ obj[o].st \in {"none", "live"} /\ obj[o].cap \in Nat
                      /\ obj[o].mem \in Seq(SlotState) /\ Len(obj[o].mem) <= Len(schema.slots)
    /\ cleaners \subseteq Obj \X Int
    /\ reuse.vec \in Seq(Obj) /\ reuse.use_num \in 0..Len(reuse.vec)
    /\ held \subseteq Obj

\* Two registrations never share memory, whatever alignments came before and
\* whichever thread lost the race for a name (add_field_and_caculate_size), also
\* behind the members of a class; and they lie within the size of the schema.
SlotsDisjoint ==
    LET end(s) == s.off + Decl[s.name].size IN
    \A i, j \in DOMAIN schema.slots :
        LET s == schema.slots[i]
            r == schema.slots[j] IN
        /\ i # j => end(s) <= r.off \/ end(r) <= s.off
        /\ proc # "static" => end(s) + MetaSize <= schema.size

\* All threads that register a name use the same memory for it, although the
\* test for the name is outside the lock (register_field), and get_field() agrees
\* with them.
AccessorsAgree ==
    \A f \in acc : f.name \in DOMAIN schema.map /\ f = schema.map[f.name]

\* MEMBER lines in another order than the members.
Disordered == \E i, j \in DOMAIN schema.slots : i < j /\ schema.slots[j].off < schema.slots[i].off
\* A field was registered after objects or metadata were made.
Outgrown ==
    \/ \E o \in Obj : /\ obj[o].st = "live"
                      /\ Len(obj[o].mem) < Len(schema.slots) \/ obj[o].cap # schema.size
    \/ meta.set /\ meta.n < Len(schema.slots)
\* A type needs more alignment than the block behind a pointer has.
Overaligned ==
    \E i \in DOMAIN schema.slots :
        /\ Decl[schema.slots[i].name].align > MetaSize
        /\ i <= Len(cls.members) \/ reuse.pool = "arena"
             \/ \E o \in Obj : obj[o].st = "live" /\ obj[o].pool = "arena"
\* A field with metadata comes after two that are zeroed together.
MergedBefore ==
    \E i \in MetaSlots(schema) : \E j \in 2..(i - 1) :
        Decl[schema.slots[j].name].trivial /\ Decl[schema.slots[j - 1].name].trivial

\* Every construction, use, clearing, rebuilding and destruction of an object is
\* defined behaviour as long as the schema is complete before it is used, nobody
\* reads it while it is written, fields get the memory pool they were declared
\* with (clear() has none), MEMBER lines are in order, alignments are at most
\* that of a pointer where the code assumes so, and the metadata are in step with
\* the constructors.
DefinedIfUsedRight ==
    proc = "undefined" => raced \/ misused \/ Disordered \/ Outgrown \/ Overaligned \/ MergedBefore

\* get() never gives away an object that somebody has, nor one with what its last
\* user left in it (reconstruct() clears use_num objects and no more).
ReuseIsClean ==
    (proc = "up" /\ reuse.st = "live") =>
        /\ IsInjective(reuse.vec)
        /\ \A i \in (reuse.use_num + 1)..Len(reuse.vec) :
             reuse.vec[i] \notin held /\ AllClean(obj[reuse.vec[i]].mem)

\* Every field is destroyed with its object, on the heap by ~DynamicStruct and in
\* a memory pool by ~DynamicStruct or by the pool; only fields that were rebuilt
\* from metadata are left to the memory pool.
NothingLeaks ==
    \A x \in leaked : x[1] = "rebuilt" /\ Decl[x[2]].meta
================================================================================
