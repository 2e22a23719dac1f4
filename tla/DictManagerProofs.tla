--------------------------- MODULE DictManagerProofs ---------------------------
(***************************************************************************)
(* Start-up of the dictionaries, for any number of dictionaries, readers   *)
(* and files: the types, and that a parallel_sync_load() which returns 0   *)
(* has joined every loader, so that load_args outlives them.               *)
(***************************************************************************)
EXTENDS DictManager, TLAPS

\* Only a dictionary that has a file is loaded, checked or served; the threads
\* that work on a dictionary know which one.
PathInv ==
    /\ \A d \in Dict : ~HasPath(d) =>
         ldr[d].pc = "none" /\ \A i \in 0..1 : dicts[d][i] = Null
    /\ ck.pc \in {"stamp", "open", "reading", "spinning", "assign", "switch"} =>
         ck.d \in Dict /\ HasPath(ck.d) /\ ck.k <= Len(Handers)
    /\ ck.pc \in {"open", "reading", "spinning", "assign", "switch"} => ck.o \in Obj
    /\ main.pc = "store" => main.k <= Len(Handers) /\ HasPath(Handers[main.k])
    /\ \A r \in Reader : rd[r].pc # "idle" => rd[r].d \in Dict

TypeInv == TypeOK /\ PathInv

\* The constants, in the form the steps use them.
LEMMA Constants ==
    /\ Len(Handers) \in Nat
    /\ \A k \in 1..Len(Handers) : Handers[k] \in Dict
    /\ MaxWrite \in Nat /\ Jitter \in Nat /\ Deltas \subseteq Nat
    /\ Period \in Nat /\ Retain \in Nat /\ GetWindow \in Nat
    /\ \A d \in Dict : HasPath(d) => PathOf[d] \in Path
  BY HandersAssumption, BoundsAssumption, DeltasAssumption, ClockAssumption,
     PathAssumption DEF HasPath

\* What the shared expressions yield in a well-typed state.
LEMMA Values ==
    ASSUME TypeInv, NEW d \in Dict, HasPath(d)
    PROVE  /\ FileOf(d) \in FileRec
           /\ FileOf(d).ver \in 1..(MaxWrite + 1)
           /\ Mtimes(d) \subseteq Nat
           /\ CanAllocate(d) => Fresh(d) \in Obj
  <1>1. FileOf(d) \in FileRec
        BY Constants DEF TypeInv, TypeOK, FileOf
  <1>2. FileOf(d).mtime \in Nat /\ FileOf(d).ver \in 1..(MaxWrite + 1)
        BY <1>1 DEF FileRec
  <1>3. Mtimes(d) \subseteq Nat
        BY <1>2, Constants DEF Mtimes
  <1>4. CanAllocate(d) => Fresh(d) \in Obj
        BY DEF CanAllocate, Fresh
  <1> QED
      BY <1>1, <1>2, <1>3, <1>4

\* The served slot holds an object or nothing; only a dictionary with a file has one.
LEMMA CurType ==
    ASSUME TypeInv, NEW d \in Dict
    PROVE  Cur(d) \in Obj \cup {Null} /\ (Cur(d) # Null => HasPath(d))
  BY DEF TypeInv, TypeOK, SlotType, PathInv, Cur

\* Fresh objects and positions of the checker are well typed.
LEMMA RecTypes == /\ NewObj \in ObjRec
                  /\ Idle \in RdRec
                  /\ \A k \in 1..Len(Handers) : CkOff(k + 1) \in CkRec
                  /\ CkOff(1) \in CkRec
  BY Constants DEF NewObj, Idle, CkOff, ObjRec, RdRec, CkRec, Mixed

\* The constructors of dicts.cpp and the start of main() are well typed.
LEMMA TypeInit == Init => TypeInv
  <1> SUFFICES ASSUME Init PROVE TypeInv
      OBVIOUS
  <1>1. file \in [Path -> FileRec]
        BY Constants, KindsAssumption DEF Init, FileRec
  <1>2. SlotType
        BY Constants DEF Init, SlotType
  <1>a. MainType
    <2>1. main \in [pc : {"spawn", "store", "join", "check", "serving"},
                    k : 1..(Len(Handers) + 1)]
          BY Constants DEF Init
    <2> QED
        BY <2>1 DEF Init, MainType
  <1>b. proc \in {"up", "exited", "terminated", "undefined"} /\ nap \in 0..Period
        BY Constants DEF Init
  <1>3. obj \in [Dict -> [Obj -> ObjRec]] /\ rd \in [Reader -> RdRec]
        BY RecTypes DEF Init
  <1>4. ldr \in [Dict -> LdrRec] /\ ck \in CkRec
        BY Constants DEF Init, LdrRec, CkRec
  <1>5. TypeOK
        BY <1>1, <1>2, <1>a, <1>b, <1>3, <1>4 DEF TypeOK
  <1>6. PathInv
        BY DEF Init, PathInv, Idle
  <1> QED
      BY <1>5, <1>6 DEF TypeInv

\* The environment changes the files and the clocks only.
LEMMA TypeEnv == TypeInv /\ (Tick \/ \E p \in Path : Write(p)) => TypeInv'
  <1> SUFFICES ASSUME TypeInv, Tick \/ \E p \in Path : Write(p) PROVE TypeInv'
      OBVIOUS
  <1>0. TypeOK /\ PathInv
        BY DEF TypeInv
  <1>1. ASSUME NEW p \in Path, Write(p) PROVE TypeInv'
    <2>1. PICK x \in Kinds, t \in Deltas :
            file' = [file EXCEPT ![p] = [kind |-> x, ver |-> @.ver + 1, mtime |-> @.mtime + t]]
          BY <1>1 DEF Write
    <2>2. file[p] \in FileRec /\ file[p].ver <= MaxWrite
          BY <1>0, <1>1 DEF TypeOK, Write
    <2>3. [kind |-> x, ver |-> file[p].ver + 1, mtime |-> file[p].mtime + t] \in FileRec
          BY <2>2, Constants, KindsAssumption DEF FileRec
    <2>4. file' \in [Path -> FileRec]
          BY <1>0, <2>1, <2>3 DEF TypeOK
    <2>5. TypeOK'
          BY <1>0, <1>1, <2>4
          DEF Write, TypeOK, SlotType, MainType, dictVars, startVars, argVars
    <2>6. PathInv'
          BY <1>0, <1>1 DEF Write, PathInv, dictVars, startVars, HasPath
    <2> QED
        BY <2>5, <2>6 DEF TypeInv
  <1>2. CASE Tick
    <2>1. nap' \in 0..Period /\ age' \in [Dict -> 0..(Retain + 1)]
          BY <1>0, <1>2, Constants DEF Tick, TypeOK, SlotType
    <2>2. \A r \in Reader : rd[r].pc = "copy" => [rd[r] EXCEPT !.age = @ + 1] \in RdRec
      <3>1. TAKE r \in Reader
      <3>2. HAVE rd[r].pc = "copy"
      <3>3. rd[r] \in RdRec /\ rd[r].age < GetWindow
            BY <1>0, <1>2, <3>2 DEF Tick, TypeOK
      <3>4. rd[r].age + 1 \in 0..GetWindow
            BY <3>3, Constants DEF RdRec
      <3> QED
          BY <3>3, <3>4 DEF RdRec
    <2>3. rd' \in [Reader -> RdRec]
          BY <1>0, <1>2, <2>2 DEF Tick, TypeOK
    <2>4. TypeOK'
          BY <1>0, <1>2, <2>1, <2>3 DEF Tick, TypeOK, SlotType, MainType, startVars, argVars
    <2>5. \A r \in Reader : rd'[r].pc = rd[r].pc /\ rd'[r].d = rd[r].d
          BY <1>0, <1>2 DEF Tick, TypeOK, RdRec
    <2>6. PathInv'
          BY <1>0, <1>2, <2>5 DEF Tick, PathInv, startVars, HasPath
    <2> QED
        BY <2>4, <2>6 DEF TypeInv
  <1> QED
      BY <1>1, <1>2

\* main() fills slots, starts loaders and walks over dict_hander_vect.
LEMMA TypeMain == TypeInv /\ MainStep => TypeInv'
  <1> SUFFICES ASSUME TypeInv, MainStep PROVE TypeInv'
      OBVIOUS
  <1>0. TypeOK /\ PathInv /\ main.k \in 1..(Len(Handers) + 1)
        BY DEF TypeInv, TypeOK, MainType
  <1> USE DEF dictVars, startVars, argVars
  <1>1. CASE MainSpawn
    <2> DEFINE d == Handers[main.k]
    <2>0. d \in Dict /\ main.k \in 1..Len(Handers) /\ main.k + 1 \in 1..(Len(Handers) + 1)
          BY <1>0, <1>1, Constants DEF MainSpawn
    <2>1. MainType'
          BY <1>0, <1>1, <2>0 DEF MainSpawn, TypeOK, MainType
    <2>2. CASE ~HasPath(d)
      <3>1. UNCHANGED <<dicts, obj, started, ldr>> /\ main'.pc # "store"
            BY <1>0, <1>1, <2>2 DEF MainSpawn, TypeOK, MainType
      <3>2. TypeOK'
            BY <1>0, <1>1, <2>1, <3>1 DEF MainSpawn, TypeOK, SlotType
      <3>3. PathInv'
            BY <1>0, <1>1, <3>1 DEF MainSpawn, PathInv, HasPath
      <3> QED
          BY <3>2, <3>3 DEF TypeInv
    <2>3. CASE HasPath(d)
      <3>1. /\ CanAllocate(d)
            /\ dicts' = [dicts EXCEPT ![d][cur_index[d]] = Fresh(d)]
            /\ obj' = [obj EXCEPT ![d][Fresh(d)] = NewObj]
            /\ ldr' = [ldr EXCEPT ![d].pc = "ready"] \/ ldr' = ldr
            /\ main' = [main EXCEPT !.pc = "store"]
            /\ UNCHANGED <<file, cur_index, modify_time, age, proc, ck, nap, rd>>
            BY <1>1, <2>3 DEF MainSpawn
      <3>2. Fresh(d) \in Obj
            BY <2>0, <2>3, <3>1, Values
      <3>3. SlotType'
            BY <1>0, <2>0, <3>1, <3>2 DEF TypeOK, SlotType
      <3>4. obj' \in [Dict -> [Obj -> ObjRec]]
            BY <1>0, <2>0, <3>1, <3>2, RecTypes DEF TypeOK
      <3>5. ldr' \in [Dict -> LdrRec]
        <4>1. [ldr[d] EXCEPT !.pc = "ready"] \in LdrRec
              BY <1>0, <2>0 DEF TypeOK, LdrRec
        <4> QED
            BY <1>0, <2>0, <3>1, <4>1 DEF TypeOK
      <3>6. TypeOK'
            BY <1>0, <2>1, <3>1, <3>3, <3>4, <3>5 DEF TypeOK
      <3>7. \A e \in Dict \ {d} : ldr'[e] = ldr[e] /\ dicts'[e] = dicts[e]
            BY <1>0, <2>0, <3>1 DEF TypeOK, SlotType
      <3>8. main'.pc = "store" /\ main'.k = main.k
            BY <1>0, <3>1 DEF TypeOK, MainType
      <3>9. PathInv'
            BY <1>0, <2>0, <2>3, <3>1, <3>7, <3>8 DEF PathInv, HasPath
      <3> QED
          BY <3>6, <3>9 DEF TypeInv
    <2> QED
        BY <2>2, <2>3
  <1>2. CASE MainStore
    <2>1. main.k <= Len(Handers) /\ main.k + 1 \in 1..(Len(Handers) + 1)
          BY <1>0, <1>2, Constants DEF MainStore, PathInv
    <2>2. MainType'
          BY <1>0, <1>2, <2>1 DEF MainStore, TypeOK, MainType
    <2>3. TypeOK'
          BY <1>0, <1>2, <2>2 DEF MainStore, TypeOK, SlotType
    <2>4. PathInv'
          BY <1>0, <1>2 DEF MainStore, PathInv, HasPath
    <2> QED
        BY <2>3, <2>4 DEF TypeInv
  <1>3. CASE MainSpawned
    <2>1. MainType'
          BY <1>0, <1>3, Constants DEF MainSpawned, TypeOK, MainType
    <2>2. TypeOK'
          BY <1>0, <1>3, <2>1 DEF MainSpawned, TypeOK, SlotType
    <2>3. PathInv'
          BY <1>0, <1>3 DEF MainSpawned, PathInv, HasPath
    <2> QED
        BY <2>2, <2>3 DEF TypeInv
  <1>4. CASE MainJoin
    <2>1. main.k + 1 \in 1..(Len(Handers) + 1)
          BY <1>0, <1>4, Constants DEF MainJoin
    <2>2. MainType' /\ main'.pc # "store"
          BY <1>0, <1>4, <2>1 DEF MainJoin, TypeOK, MainType
    <2>3. TypeOK'
          BY <1>0, <1>4, <2>2 DEF MainJoin, TypeOK, SlotType
    <2>4. PathInv'
          BY <1>0, <1>4, <2>2 DEF MainJoin, PathInv, HasPath
    <2> QED
        BY <2>3, <2>4 DEF TypeInv
  <1>5. CASE MainJoined
    <2>1. MainType' /\ main'.pc # "store"
          BY <1>0, <1>5 DEF MainJoined, TypeOK, MainType
    <2>2. TypeOK'
          BY <1>0, <1>5, <2>1 DEF MainJoined, TypeOK, SlotType
    <2>3. PathInv'
          BY <1>0, <1>5, <2>1 DEF MainJoined, PathInv, HasPath
    <2> QED
        BY <2>2, <2>3 DEF TypeInv
  <1>6. CASE MainStartCheck
    <2>1. MainType' /\ main'.pc # "store"
          BY <1>0, <1>6 DEF MainStartCheck, TypeOK, MainType
    <2>2. ck' \in CkRec /\ (ck'.pc = "visit" \/ ck' = ck)
          BY <1>0, <1>6 DEF MainStartCheck, TypeOK, CkRec
    <2>3. TypeOK'
          BY <1>0, <1>6, <2>1, <2>2 DEF MainStartCheck, TypeOK, SlotType
    <2>4. PathInv'
          BY <1>0, <1>6, <2>1, <2>2 DEF MainStartCheck, PathInv, HasPath
    <2> QED
        BY <2>3, <2>4 DEF TypeInv
  <1> QED
      BY <1>1, <1>2, <1>3, <1>4, <1>5, <1>6 DEF MainStep

\* Writing an object keeps the heap well typed.
LEMMA ObjUpdate ==
    ASSUME NEW f \in [Dict -> [Obj -> ObjRec]], NEW d \in Dict, NEW o, NEW e \in ObjRec
    PROVE  [f EXCEPT ![d][o] = e] \in [Dict -> [Obj -> ObjRec]]
  OBVIOUS

\* A loader changes its own record, its object, modify_time and the verdict.
LEMMA TypeLoader == \A d \in Dict : TypeInv /\ LoaderStep(d) => TypeInv'
  <1> SUFFICES ASSUME NEW d \in Dict, TypeInv, LoaderStep(d) PROVE TypeInv'
      OBVIOUS
  <1>0. TypeOK /\ PathInv
        BY DEF TypeInv
  <1> USE DEF dictVars, startVars, argVars
  <1>a. HasPath(d)
        BY <1>0 DEF LoaderStep, LoaderBegin, LoaderStamp, LoaderOpen, LoaderRead,
                    LoaderReport, PathInv
  <1>b. FileOf(d).ver \in 0..(MaxWrite + 1) /\ Mtimes(d) \subseteq Nat
        BY <1>a, Values, Constants
  <1>c. ldr[d] \in LdrRec /\ ldr \in [Dict -> LdrRec]
        BY <1>0 DEF TypeOK
  <1>d. SUFFICES /\ ldr' \in [Dict -> LdrRec]
                 /\ \A e \in Dict \ {d} : ldr'[e] = ldr[e]
                 /\ obj' \in [Dict -> [Obj -> ObjRec]]
                 /\ modify_time' \in [Dict -> Nat]
                 /\ ret' \in [Dict -> {-1, 0, 1}]
                 /\ strayWrite' \in BOOLEAN
                 /\ proc' \in {"up", "terminated", "undefined"}
                 /\ UNCHANGED <<file, dicts, cur_index, age, main, started, syncRet,
                                argsLive, ck, nap, rd>>
    <2>1. TypeOK'
          BY <1>0, <1>d DEF TypeOK, SlotType, MainType
    <2>2. PathInv'
          BY <1>0, <1>a, <1>d DEF PathInv, HasPath
    <2> QED
        BY <2>1, <2>2 DEF TypeInv
  <1>e. /\ obj \in [Dict -> [Obj -> ObjRec]] /\ modify_time \in [Dict -> Nat]
        /\ ret \in [Dict -> {-1, 0, 1}] /\ strayWrite \in BOOLEAN
        BY <1>0 DEF TypeOK, SlotType, MainType
  <1>1. CASE LoaderBegin(d)
    <2>1. Cur(d) \in Obj \cup {Null}
          BY CurType
    <2>2. /\ [ldr[d] EXCEPT !.pc = "failed"] \in LdrRec
          /\ [ldr[d] EXCEPT !.pc = "stamp", !.o = Cur(d),
                            !.seen = FileOf(d).kind # "absent"] \in LdrRec
          BY <1>c, <2>1 DEF LdrRec
    <2>3. \/ ldr' = ldr
          \/ ldr' = [ldr EXCEPT ![d] = [ldr[d] EXCEPT !.pc = "failed"]]
          \/ ldr' = [ldr EXCEPT ![d] = [ldr[d] EXCEPT !.pc = "stamp", !.o = Cur(d),
                                           !.seen = FileOf(d).kind # "absent"]]
          BY <1>1 DEF LoaderBegin, Terminate
    <2>4. ldr' \in [Dict -> LdrRec] /\ \A e \in Dict \ {d} : ldr'[e] = ldr[e]
          BY <1>c, <2>2, <2>3
    <2>5. proc' \in {"up", "terminated", "undefined"}
          BY <1>1 DEF LoaderBegin, Terminate
    <2> QED
        BY <1>1, <1>e, <2>4, <2>5 DEF LoaderBegin
  <1>2. CASE LoaderStamp(d)
    <2>1. [ldr[d] EXCEPT !.pc = "open"] \in LdrRec
          BY <1>c DEF LdrRec
    <2>2. /\ ldr' = ldr \/ ldr' = [ldr EXCEPT ![d] = [ldr[d] EXCEPT !.pc = "open"]]
          /\ modify_time' \in [Dict -> Nat]
          /\ proc' \in {"up", "terminated", "undefined"}
          BY <1>2, <1>b, <1>e DEF LoaderStamp, Terminate
    <2> QED
        BY <1>2, <1>c, <1>e, <2>1, <2>2 DEF LoaderStamp
  <1>3. CASE LoaderOpen(d)
    <2>1. /\ [ldr[d] EXCEPT !.pc = "failed"] \in LdrRec
          /\ \A x \in {"reading", "spinning"} :
               [ldr[d] EXCEPT !.pc = x, !.ver = FileOf(d).ver] \in LdrRec
          BY <1>b, <1>c DEF LdrRec
    <2>2. \A o \in Obj : /\ [obj[d][o] EXCEPT !.st = "failed"] \in ObjRec
                         /\ [obj[d][o] EXCEPT !.st = "loading"] \in ObjRec
          BY <1>e DEF ObjRec
    <2>3. \/ obj' = obj
          \/ obj' = [obj EXCEPT ![d][ldr[d].o] = [obj[d][ldr[d].o] EXCEPT !.st = "failed"]]
          \/ obj' = [obj EXCEPT ![d][ldr[d].o] = [obj[d][ldr[d].o] EXCEPT !.st = "loading"]]
          BY <1>3 DEF LoaderOpen, Terminate
    <2>4. obj' \in [Dict -> [Obj -> ObjRec]]
          BY <1>e, <2>2, <2>3
    <2>5. \/ ldr' = ldr
          \/ ldr' = [ldr EXCEPT ![d] = [ldr[d] EXCEPT !.pc = "failed"]]
          \/ \E x \in {"reading", "spinning"} :
               ldr' = [ldr EXCEPT ![d] = [ldr[d] EXCEPT !.pc = x, !.ver = FileOf(d).ver]]
          BY <1>3 DEF LoaderOpen, Terminate
    <2>6. ldr' \in [Dict -> LdrRec]
          BY <1>c, <2>1, <2>5
    <2>7. \A e \in Dict \ {d} : ldr'[e] = ldr[e]
          BY <1>c, <2>5
    <2>8. proc' \in {"up", "terminated", "undefined"}
          BY <1>3 DEF LoaderOpen, Terminate
    <2> QED
        BY <1>3, <1>e, <2>4, <2>6, <2>7, <2>8 DEF LoaderOpen
  <1>4. CASE LoaderRead(d)
    <2>1. \A x \in {"loaded", "spinning"} : [ldr[d] EXCEPT !.pc = x] \in LdrRec
          BY <1>c DEF LdrRec
    <2>2. \A v \in Contents(d, ldr[d].ver) : v \in 0..(MaxWrite + 1)
          BY <1>b, <1>c, Constants DEF Contents, LdrRec, Mixed
    <2>3. \A v \in 0..(MaxWrite + 1) : [st |-> "loaded", ver |-> v] \in ObjRec
          BY DEF ObjRec
    <2>4. ASSUME obj' # obj PROVE obj' \in [Dict -> [Obj -> ObjRec]]
      <3>1. PICK v \in Contents(d, ldr[d].ver) :
              obj' = [obj EXCEPT ![d][ldr[d].o] =
                        [st |-> "loaded",
                         ver |-> IF @.ver \in {Mixed, v} THEN v ELSE Mixed]]
            BY <1>4, <2>4 DEF LoaderRead, Terminate
      <3> DEFINE w == IF obj[d][ldr[d].o].ver \in {Mixed, v} THEN v ELSE Mixed
      <3>2. w \in 0..(MaxWrite + 1)
            BY <2>2, Constants DEF Mixed
      <3>3. obj' = [obj EXCEPT ![d][ldr[d].o] = [st |-> "loaded", ver |-> w]]
            BY <3>1
      <3> HIDE DEF w
      <3> QED
          BY <1>e, <2>3, <3>2, <3>3, ObjUpdate
    <2>5. obj' \in [Dict -> [Obj -> ObjRec]]
          BY <1>e, <2>4
    <2>6. \/ ldr' = ldr
          \/ \E x \in {"loaded", "spinning"} : ldr' = [ldr EXCEPT ![d] = [ldr[d] EXCEPT !.pc = x]]
          BY <1>4 DEF LoaderRead, Terminate
    <2> QED
      <3>1. /\ ldr' \in [Dict -> LdrRec]
            /\ \A e \in Dict \ {d} : ldr'[e] = ldr[e]
            BY <1>c, <2>1, <2>6
      <3>2. /\ proc' \in {"up", "terminated", "undefined"}
            /\ UNCHANGED <<file, dictVars, startVars, argVars, ck, nap, rd>>
            BY <1>4 DEF LoaderRead, Terminate
      <3> QED
          BY <1>e, <2>5, <3>1, <3>2
  <1>5. CASE LoaderReport(d)
    <2>1. [pc |-> "done", o |-> Null, seen |-> FALSE, ver |-> 0] \in LdrRec
          BY Constants DEF LdrRec
    <2> QED
        BY <1>5, <1>c, <1>e, <2>1 DEF LoaderReport
  <1> QED
      BY <1>1, <1>2, <1>3, <1>4, <1>5 DEF LoaderStep

\* Readers change nothing but their own records.
LEMMA TypeReader == \A r \in Reader : TypeInv /\ ReaderStep(r) => TypeInv'
  <1> SUFFICES ASSUME NEW r \in Reader, TypeInv, ReaderStep(r) PROVE TypeInv'
      OBVIOUS
  <1>0. TypeOK /\ PathInv /\ rd[r] \in RdRec /\ rd \in [Reader -> RdRec]
        BY DEF TypeInv, TypeOK
  <1>1. SUFFICES ASSUME NEW e \in RdRec, rd' = [rd EXCEPT ![r] = e],
                        e.pc # "idle" => e.d \in Dict
                 PROVE  TypeInv'
    <2>1. CASE GetIndex(r)
      <3>1. PICK d \in Dict : rd' = [rd EXCEPT ![r] =
              [pc |-> "copy", d |-> d, o |-> Null, idx |-> cur_index[d], age |-> 0]]
            BY <2>1 DEF GetIndex
      <3>2. [pc |-> "copy", d |-> d, o |-> Null, idx |-> cur_index[d], age |-> 0] \in RdRec
            BY <1>0, Constants DEF TypeOK, SlotType, RdRec
      <3> QED
          BY <1>1, <3>1, <3>2
    <2>2. CASE GetCopy(r)
      <3> DEFINE o == dicts[rd[r].d][rd[r].idx]
      <3>1. rd[r].d \in Dict /\ rd[r].idx \in 0..1 /\ o \in Obj \cup {Null}
        <4>1. rd[r].pc = "copy"
              BY <2>2 DEF GetCopy
        <4>2. rd[r].d \in Dict
              BY <1>0, <4>1 DEF PathInv
        <4>3. rd[r].idx \in 0..1
              BY <1>0 DEF RdRec
        <4> QED
            BY <1>0, <4>2, <4>3 DEF TypeOK, SlotType
      <3>2. [rd[r] EXCEPT !.pc = "lookup", !.o = o, !.age = 0] \in RdRec
        <4>1. 0 \in 0..GetWindow
              BY Constants
        <4> HIDE DEF o
        <4> QED
            BY <1>0, <3>1, <4>1 DEF RdRec
      <3>3. \/ rd' = [rd EXCEPT ![r] = Idle]
            \/ rd' = [rd EXCEPT ![r] = [rd[r] EXCEPT !.pc = "lookup", !.o = o, !.age = 0]]
            BY <1>0, <2>2 DEF GetCopy
      <3>4. [rd[r] EXCEPT !.pc = "lookup", !.o = o, !.age = 0].d \in Dict
            BY <1>0, <3>1 DEF RdRec
      <3>5. Idle.pc = "idle"
            BY DEF Idle
      <3> QED
          BY <1>1, <3>2, <3>3, <3>4, <3>5, RecTypes
    <2>3. CASE Lookup(r)
      <3>1. rd' = [rd EXCEPT ![r] = Idle] /\ Idle.pc = "idle"
            BY <2>3 DEF Lookup, Idle
      <3> QED
          BY <1>1, <3>1, RecTypes
    <2> QED
        BY <2>1, <2>2, <2>3 DEF ReaderStep
  <1>2. UNCHANGED <<file, dictVars, obj, proc, startVars, argVars, ldr, ck, nap>>
        BY DEF ReaderStep, GetIndex, GetCopy, Lookup
  <1>3. TypeOK'
        BY <1>0, <1>1, <1>2
        DEF TypeOK, SlotType, MainType, dictVars, startVars, argVars
  <1>4. PathInv'
        BY <1>0, <1>1, <1>2 DEF PathInv, HasPath, dictVars, startVars
  <1> QED
      BY <1>3, <1>4 DEF TypeInv

\* The checker changes its record, the slots, and what goes with them.
LEMMA TypeCheck == TypeInv /\ CheckStep => TypeInv'
  <1> SUFFICES ASSUME TypeInv, CheckStep PROVE TypeInv'
      OBVIOUS
  <1>0. TypeOK /\ PathInv /\ ck \in CkRec
        BY DEF TypeInv, TypeOK
  <1>a. ck.k \in 1..(Len(Handers) + 1) /\ ck.bg \in 0..1 /\ ck.new_mtime \in Nat
        BY <1>0 DEF CkRec
  <1>b. /\ obj \in [Dict -> [Obj -> ObjRec]] /\ SlotType
        /\ dicts \in [Dict -> [0..1 -> Obj \cup {Null}]]
        BY <1>0 DEF TypeOK, SlotType
  <1> USE DEF dictVars, startVars, argVars
  <1> DEFINE Good ==
        /\ ck' \in CkRec
        /\ ck'.pc \in {"stamp", "open", "reading", "spinning", "assign", "switch"} =>
             ck'.d \in Dict /\ HasPath(ck'.d) /\ ck'.k <= Len(Handers)
        /\ ck'.pc \in {"open", "reading", "spinning", "assign", "switch"} => ck'.o \in Obj
  <1> DEFINE Slots ==
        /\ SlotType'
        /\ \A e \in Dict, i \in 0..1 :
             dicts'[e][i] = Null \/ HasPath(e) \/ dicts'[e][i] = dicts[e][i]
  <1> DEFINE Rest ==
        /\ obj' \in [Dict -> [Obj -> ObjRec]]
        /\ proc' \in {"up", "terminated"} /\ nap' \in 0..Period
        /\ UNCHANGED <<file, main, started, syncRet, argVars, ldr, rd>>
  <1>1. Good /\ Slots /\ Rest
    <2>a. \A k \in 1..Len(Handers) : ck' = CkOff(k + 1) => Good
          BY RecTypes DEF CkOff
    <2>b. ck' = CkOff(1) => Good
          BY RecTypes DEF CkOff
    <2>c. ck' = ck => Good
          BY <1>0 DEF PathInv
    <2>d. \A d \in Dict, i \in 0..1, o \in Obj \cup {Null} :
             [dicts EXCEPT ![d][i] = o] \in [Dict -> [0..1 -> Obj \cup {Null}]]
          BY <1>b
    <2>f. ASSUME NEW d \in Dict, NEW i \in 0..1,
                 dicts' = dicts \/ dicts' = [dicts EXCEPT ![d][i] = Null]
          PROVE  /\ dicts' \in [Dict -> [0..1 -> Obj \cup {Null}]]
                 /\ \A e \in Dict, j \in 0..1 :
                      dicts'[e][j] = Null \/ dicts'[e][j] = dicts[e][j]
      <3>1. CASE dicts' = dicts
            BY <1>b, <3>1
      <3>2. CASE dicts' = [dicts EXCEPT ![d][i] = Null]
        <4>1. dicts' \in [Dict -> [0..1 -> Obj \cup {Null}]]
              BY <2>d, <3>2
        <4>2. ASSUME NEW e \in Dict, NEW j \in 0..1
              PROVE  dicts'[e][j] = Null \/ dicts'[e][j] = dicts[e][j]
              BY <1>b, <3>2
        <4> QED
            BY <4>1, <4>2
      <3> QED
          BY <2>f, <3>1, <3>2
    <2>e. /\ proc \in {"up", "exited", "terminated", "undefined"} /\ nap \in 0..Period
          BY <1>0 DEF TypeOK
    <2>1. CASE CheckVisit
      <3> DEFINE d == Handers[ck.k]
                 bg == 1 - cur_index[d]
      <3>0. d \in Dict /\ ck.k \in 1..Len(Handers)
            BY <1>a, <2>1, Constants DEF CheckVisit
      <3>1. d \in Dict /\ ck.k \in 1..Len(Handers) /\ bg \in 0..1
        <4>1. cur_index[d] \in 0..1
              BY <1>b, <3>0 DEF SlotType
        <4>2. \A i \in 0..1 : 1 - i \in 0..1
              OBVIOUS
        <4> QED
            BY <3>0, <4>1, <4>2
      <3>2. [ck EXCEPT !.pc = "stamp", !.d = d, !.bg = bg,
                       !.seen = FileOf(d).kind # "absent"] \in CkRec
            BY <1>0, <3>1 DEF CkRec
      <3>3. Cur(d) # Null => HasPath(d)
            BY <3>1, CurType
      <3>4. Good
        <4>1. CASE Cur(d) = Null
              BY <2>1, <2>a, <3>1, <4>1 DEF CheckVisit
        <4>2. CASE Cur(d) # Null
          <5>1. CASE ck' = ck
                BY <2>c, <5>1
          <5>2. CASE ck' = [ck EXCEPT !.pc = "stamp", !.d = d, !.bg = bg,
                                      !.seen = FileOf(d).kind # "absent"]
            <6>1. ck'.pc = "stamp" /\ ck'.d = d /\ ck'.k = ck.k
                  BY <1>0, <5>2 DEF CkRec
            <6> QED
                BY <3>1, <3>2, <3>3, <4>2, <5>2, <6>1
          <5> QED
              BY <2>1, <4>2, <5>1, <5>2 DEF CheckVisit, AskExists, Terminate
        <4> QED
            BY <4>1, <4>2
      <3>5. dicts' = dicts \/ dicts' = [dicts EXCEPT ![d][bg] = Null]
            BY <2>1 DEF CheckVisit
      <3>6. /\ UNCHANGED <<file, cur_index, modify_time, age, obj, startVars,
                            argVars, ldr, nap, rd>>
            /\ proc' \in {"up", "terminated"}
            BY <2>1 DEF CheckVisit, AskExists, Terminate
      <3>7. SlotType'
            BY <1>b, <2>f, <3>1, <3>5, <3>6 DEF SlotType
      <3>8. \A e \in Dict, i \in 0..1 : dicts'[e][i] = Null \/ dicts'[e][i] = dicts[e][i]
            BY <2>f, <3>1, <3>5
      <3> HIDE DEF d, bg
      <3> QED
          BY <1>b, <2>e, <3>4, <3>6, <3>7, <3>8
    <2>2. CASE CheckStamp
      <3>1. ck.d \in Dict /\ HasPath(ck.d) /\ ck.k \in 1..Len(Handers)
            BY <1>0, <1>a, <2>2, Constants DEF CheckStamp, PathInv
      <3>2. Mtimes(ck.d) \subseteq Nat /\ (CanAllocate(ck.d) => Fresh(ck.d) \in Obj)
            BY <3>1, Values
      <3>3. /\ UNCHANGED <<file, cur_index, modify_time, age, startVars, argVars, ldr,
                            nap, rd>>
            /\ proc' \in {"up", "terminated"}
            BY <2>2 DEF CheckStamp, Terminate
      <3>4. \/ UNCHANGED <<dicts, obj, ck>>
            \/ \E m \in Nat : CompareMtime(ck.d, m)
            BY <2>2, <3>2 DEF CheckStamp, Terminate
      <3>5. ASSUME NEW m \in Nat, CompareMtime(ck.d, m)
            PROVE  /\ Good
                   /\ dicts' = dicts \/ dicts' = [dicts EXCEPT ![ck.d][ck.bg] = Null]
                   /\ obj' \in [Dict -> [Obj -> ObjRec]]
        <4>1. CASE ck' = CkOff(ck.k + 1) /\ obj' = obj
              BY <1>b, <2>a, <3>1, <3>5, <4>1 DEF CompareMtime
        <4>2. CASE ~(ck' = CkOff(ck.k + 1) /\ obj' = obj)
          <5>1. /\ CanAllocate(ck.d)
                /\ obj' = [obj EXCEPT ![ck.d][Fresh(ck.d)] = NewObj]
                /\ ck' = [ck EXCEPT !.pc = "open", !.o = Fresh(ck.d), !.new_mtime = m]
                /\ dicts' = [dicts EXCEPT ![ck.d][ck.bg] = Null]
                BY <3>5, <4>2 DEF CompareMtime
          <5>2. Fresh(ck.d) \in Obj
                BY <3>2, <5>1
          <5>3. ck' \in CkRec /\ ck'.d = ck.d /\ ck'.k = ck.k /\ ck'.o = Fresh(ck.d)
                BY <1>0, <5>1, <5>2 DEF CkRec
          <5>4. obj' \in [Dict -> [Obj -> ObjRec]]
                BY <1>b, <3>1, <5>1, RecTypes, ObjUpdate
          <5>5. ck.k <= Len(Handers)
                BY <3>1, Constants
          <5> QED
              BY <3>1, <5>1, <5>2, <5>3, <5>4, <5>5
        <4> QED
            BY <4>1, <4>2
      <3>6. /\ Good
            /\ dicts' = dicts \/ dicts' = [dicts EXCEPT ![ck.d][ck.bg] = Null]
            /\ obj' \in [Dict -> [Obj -> ObjRec]]
            BY <1>b, <2>c, <3>4, <3>5
      <3>7. SlotType'
            BY <1>a, <1>b, <2>f, <3>1, <3>3, <3>6 DEF SlotType
      <3>8. \A e \in Dict, i \in 0..1 : dicts'[e][i] = Null \/ dicts'[e][i] = dicts[e][i]
            BY <1>a, <2>f, <3>1, <3>6
      <3> QED
          BY <2>e, <3>3, <3>6, <3>7, <3>8
    <2>3. CASE CheckOpen
      <3>1. /\ ck.d \in Dict /\ HasPath(ck.d) /\ ck.k \in 1..Len(Handers)
            /\ ck.o \in Obj
            BY <1>0, <1>a, <2>3, Constants DEF CheckOpen, PathInv
      <3>2. FileOf(ck.d).ver \in 0..(MaxWrite + 1)
            BY <3>1, Values, Constants
      <3>3. /\ UNCHANGED <<file, dictVars, startVars, argVars, ldr, nap, rd>>
            /\ proc' \in {"up", "terminated"}
            BY <2>3 DEF CheckOpen, Terminate
      <3>4. /\ \A x \in {"reading", "spinning"} :
                 [ck EXCEPT !.pc = x, !.ver = FileOf(ck.d).ver] \in CkRec
            /\ [obj[ck.d][ck.o] EXCEPT !.st = "loading"] \in ObjRec
        <4>1. obj[ck.d][ck.o] \in ObjRec
              BY <1>b, <3>1
        <4>2. [obj[ck.d][ck.o] EXCEPT !.st = "loading"] \in ObjRec
              BY <4>1 DEF ObjRec
        <4>3. \A x \in {"reading", "spinning"} :
                [ck EXCEPT !.pc = x, !.ver = FileOf(ck.d).ver] \in CkRec
              BY <1>0, <3>2 DEF CkRec
        <4> QED
            BY <4>2, <4>3
      <3>5. CASE ck' = CkOff(ck.k + 1) /\ obj' = obj
            BY <1>b, <2>a, <2>e, <3>1, <3>3, <3>5 DEF SlotType
      <3>6. CASE ck' = ck /\ obj' = obj
            BY <1>b, <2>c, <2>e, <3>3, <3>6 DEF SlotType
      <3>7. CASE /\ obj' = [obj EXCEPT ![ck.d][ck.o] = [obj[ck.d][ck.o] EXCEPT !.st = "loading"]]
                 /\ \E x \in {"reading", "spinning"} :
                      ck' = [ck EXCEPT !.pc = x, !.ver = FileOf(ck.d).ver]
        <4>1. ck'.d = ck.d /\ ck'.k = ck.k /\ ck'.o = ck.o /\ ck' \in CkRec
              BY <1>0, <3>4, <3>7 DEF CkRec
        <4>2. obj' \in [Dict -> [Obj -> ObjRec]]
              BY <1>b, <3>1, <3>4, <3>7, ObjUpdate
        <4>3. ck.k <= Len(Handers)
              BY <3>1, Constants
        <4>4. SlotType'
              BY <1>b, <3>3 DEF SlotType
        <4> QED
            BY <2>e, <3>1, <3>3, <4>1, <4>2, <4>3, <4>4
      <3> QED
          BY <2>3, <3>5, <3>6, <3>7 DEF CheckOpen, Terminate
    <2>4. CASE CheckRead
      <3>1. /\ ck.d \in Dict /\ HasPath(ck.d) /\ ck.k \in 1..Len(Handers)
            /\ ck.o \in Obj /\ ck.ver \in 0..(MaxWrite + 1)
            BY <1>0, <1>a, <2>4, Constants DEF CheckRead, PathInv, CkRec
      <3>2. Contents(ck.d, ck.ver) \subseteq 0..(MaxWrite + 1)
            BY <3>1, Constants DEF Contents, Mixed
      <3>3. /\ UNCHANGED <<file, dictVars, startVars, argVars, ldr, nap, rd>>
            /\ proc' \in {"up", "terminated"}
            BY <2>4 DEF CheckRead, Terminate
      <3>4. \A x \in {"assign", "spinning"} : [ck EXCEPT !.pc = x] \in CkRec
            BY <1>0 DEF CkRec
      <3>5. CASE ck' = ck /\ obj' = obj
            BY <1>b, <2>c, <2>e, <3>3, <3>5 DEF SlotType
      <3>7. CASE ck' = [ck EXCEPT !.pc = "spinning"] /\ obj' = obj
        <4>1. ck'.d = ck.d /\ ck'.k = ck.k /\ ck'.o = ck.o /\ ck' \in CkRec
              BY <1>0, <3>4, <3>7 DEF CkRec
        <4>2. ck.k <= Len(Handers)
              BY <3>1, Constants
        <4>3. SlotType'
              BY <1>b, <3>3 DEF SlotType
        <4> QED
            BY <1>b, <2>e, <3>1, <3>3, <3>7, <4>1, <4>2, <4>3
      <3>6. CASE \E v \in Contents(ck.d, ck.ver) :
                   /\ obj' = [obj EXCEPT ![ck.d][ck.o] = [st |-> "loaded", ver |-> v]]
                   /\ ck' = [ck EXCEPT !.pc = "assign"]
        <4>1. PICK v \in 0..(MaxWrite + 1) :
                obj' = [obj EXCEPT ![ck.d][ck.o] = [st |-> "loaded", ver |-> v]]
              BY <3>2, <3>6
        <4>2. [st |-> "loaded", ver |-> v] \in ObjRec
              BY DEF ObjRec
        <4>3. obj' \in [Dict -> [Obj -> ObjRec]]
              BY <1>b, <3>1, <4>1, <4>2, ObjUpdate
        <4>4. ck'.d = ck.d /\ ck'.k = ck.k /\ ck'.o = ck.o /\ ck' \in CkRec
              BY <1>0, <3>4, <3>6 DEF CkRec
        <4>5. ck.k <= Len(Handers)
              BY <3>1, Constants
        <4>6. SlotType'
              BY <1>b, <3>3 DEF SlotType
        <4> QED
            BY <2>e, <3>1, <3>3, <4>3, <4>4, <4>5, <4>6
      <3> QED
          BY <2>4, <3>5, <3>6, <3>7 DEF CheckRead, Terminate
    <2>5. CASE CheckAssign
      <3>1. /\ ck.d \in Dict /\ HasPath(ck.d) /\ ck.k \in 1..Len(Handers)
            /\ ck.o \in Obj
            BY <1>0, <1>a, <2>5, Constants DEF CheckAssign, PathInv
      <3>2. /\ UNCHANGED <<file, cur_index, obj, proc, startVars, argVars, ldr, nap, rd>>
            /\ proc = "up"
            BY <2>5 DEF CheckAssign
      <3>3. /\ dicts' = [dicts EXCEPT ![ck.d][ck.bg] = ck.o]
            /\ modify_time' = [modify_time EXCEPT ![ck.d] = ck.new_mtime]
            /\ age' = [age EXCEPT ![ck.d] = 0]
            /\ ck' = [ck EXCEPT !.pc = "switch"]
            BY <2>5 DEF CheckAssign
      <3>4. ck'.d = ck.d /\ ck'.k = ck.k /\ ck'.o = ck.o /\ ck' \in CkRec
            BY <1>0, <3>3 DEF CkRec
      <3>5. dicts' \in [Dict -> [0..1 -> Obj \cup {Null}]]
            BY <1>a, <2>d, <3>1, <3>3
      <3>6. modify_time' \in [Dict -> Nat] /\ age' \in [Dict -> 0..(Retain + 1)]
            BY <1>a, <1>b, <3>1, <3>3, Constants DEF SlotType
      <3>7. SlotType'
            BY <1>b, <3>2, <3>5, <3>6 DEF SlotType
      <3>8. \A e \in Dict, i \in 0..1 : dicts'[e][i] = dicts[e][i] \/ e = ck.d
            BY <1>b, <3>1, <3>3
      <3>9. ck.k <= Len(Handers)
            BY <3>1, Constants
      <3> QED
          BY <1>b, <2>e, <3>1, <3>2, <3>4, <3>7, <3>8, <3>9
    <2>6. CASE CheckSwitch
      <3>1. ck.d \in Dict /\ ck.k \in 1..Len(Handers)
            BY <1>0, <1>a, <2>6, Constants DEF CheckSwitch, PathInv
      <3>2. Good
            BY <2>6, <2>a, <3>1 DEF CheckSwitch
      <3>3. Slots
            BY <1>a, <1>b, <2>6, <3>1 DEF CheckSwitch, SlotType
      <3>4. Rest
            BY <1>b, <2>6, <2>e DEF CheckSwitch
      <3> QED
          BY <3>2, <3>3, <3>4
    <2>7. CASE CheckSleep
      <3>1. [ck EXCEPT !.pc = "asleep"] \in CkRec /\ [ck EXCEPT !.pc = "asleep"].pc = "asleep"
            BY <1>0 DEF CkRec
      <3>2. Good
            BY <2>7, <2>b, <3>1 DEF CheckSleep
      <3>3. Slots
            BY <1>b, <2>7 DEF CheckSleep, SlotType
      <3>4. Rest
            BY <1>b, <2>7, <2>e, Constants DEF CheckSleep
      <3> QED
          BY <3>2, <3>3, <3>4
    <2> QED
        BY <2>1, <2>2, <2>3, <2>4, <2>5, <2>6, <2>7 DEF CheckStep
  <1>2. TypeOK'
        BY <1>0, <1>1 DEF TypeOK, MainType
  <1>3. PathInv'
        BY <1>0, <1>1, <1>b DEF PathInv, HasPath
  <1> QED
      BY <1>2, <1>3 DEF TypeInv

\* Nothing that TypeInv speaks of changes in a stuttering step.
LEMMA TypeStutter == TypeInv /\ UNCHANGED vars => TypeInv'
  BY DEF TypeInv, TypeOK, SlotType, MainType, PathInv, HasPath, vars, dictVars,
         startVars, argVars

\* Every step of every thread keeps the types.
LEMMA TypeNext == TypeInv /\ [Next]_vars => TypeInv'
  BY TypeEnv, TypeMain, TypeLoader, TypeCheck, TypeReader, TypeStutter DEF Next

\* The types and PathInv hold throughout.
LEMMA TypeAlways == Spec => []TypeInv
  BY TypeInit, TypeNext, PTL DEF Spec

\* Every state of the dictionaries, of main, of the loaders, of the checker and
\* of the readers is of its type: cur_index never leaves its two slots, no
\* counter leaves its range, no reader stays in GET_DICT beyond GetWindow.
THEOREM DictTypes == Spec => []TypeOK
  BY TypeAlways, PTL DEF TypeInv

--------------------------------------------------------------------------------
(* parallel_sync_load(): the loop of lines 150-156 has passed only loaders that *)
(* are not running; when it passes the last, none is.                          *)

Starting == main.pc \in {"spawn", "store", "join"}

ArgsPhase == IF Starting THEN argsLive /\ syncRet = 1 ELSE syncRet \in {-1, 0}
JoinedUpTo ==
    main.pc = "join" => \A j \in 1..(main.k - 1) : ~Running(Handers[j])
AllJoined == syncRet = 0 => \A d \in Dict : ~Running(d)
NoStrayWrite == strayWrite => syncRet = -1

JoinInv == TypeInv /\ ArgsPhase /\ JoinedUpTo /\ AllJoined /\ NoStrayWrite

\* A loader that has ended, or was not started, stays so, except for the
\* bthread that MainSpawn starts.
LEMMA LoadersEnd ==
    ASSUME TypeInv, [Next]_vars, ~MainSpawn, NEW d \in Dict, ~Running(d)
    PROVE  ~Running(d)'
  <1>1. ldr \in [Dict -> LdrRec]
        BY DEF TypeInv, TypeOK
  <1>2. ASSUME NEW e \in Dict, LoaderStep(e)
        PROVE  ldr' \in [Dict -> LdrRec] /\ (ldr'[d] = ldr[d] \/ d = e) /\ Running(e)
        BY <1>1, <1>2, TypeLoader
        DEF LoaderStep, LoaderBegin, LoaderStamp, LoaderOpen, LoaderRead,
            LoaderReport, Terminate, Running, TypeInv, TypeOK
  <1>3. CASE \E e \in Dict : LoaderStep(e)
        BY <1>2, <1>3 DEF Running
  <1>4. CASE ~ \E e \in Dict : LoaderStep(e)
    <2>1. ldr' = ldr
          BY <1>4 DEF Next, vars, Write, Tick, MainStep, MainSpawn, MainStore,
             MainSpawned, MainJoin, MainJoined, MainStartCheck, CheckStep,
             CheckVisit, CheckStamp, CheckOpen, CheckRead, CheckAssign,
             CheckSwitch, CheckSleep, ReaderStep, GetIndex, GetCopy, Lookup
    <2> QED
        BY <2>1 DEF Running
  <1> QED
      BY <1>3, <1>4

\* Whoever is not main leaves main's variables alone, and writes to freed
\* load_args only as a running loader.
LEMMA OthersLeaveMain ==
    ASSUME [Next]_vars, ~MainStep
    PROVE  /\ UNCHANGED <<main, syncRet, argsLive>>
           /\ strayWrite' # strayWrite => ~argsLive /\ \E d \in Dict : Running(d)
  <1>1. CASE \E d \in Dict : LoaderStep(d)
        BY <1>1 DEF LoaderStep, LoaderBegin, LoaderStamp, LoaderOpen, LoaderRead,
           LoaderReport, Running, startVars, argVars
  <1>2. CASE ~ \E d \in Dict : LoaderStep(d)
        BY <1>2 DEF Next, vars, Write, Tick, CheckStep, CheckVisit, CheckStamp,
           CheckOpen, CheckRead, CheckAssign, CheckSwitch, CheckSleep,
           ReaderStep, GetIndex, GetCopy, Lookup, startVars, argVars
  <1> QED
      BY <1>1, <1>2

\* Before the first bthread is started nothing is joined and nothing runs.
LEMMA JoinInit == Init => JoinInv
  BY TypeInit DEF Init, JoinInv, ArgsPhase, JoinedUpTo, AllJoined, NoStrayWrite,
     Starting

\* The loop and the other steps of main keep JoinInv.
LEMMA JoinMain == JoinInv /\ MainStep => JoinInv'
  <1> SUFFICES ASSUME JoinInv, MainStep PROVE JoinInv'
      OBVIOUS
  <1>0. /\ TypeInv /\ TypeInv'
        /\ main \in [pc : {"spawn", "store", "join", "check", "serving"},
                     k : 1..(Len(Handers) + 1)]
        BY TypeMain DEF JoinInv, TypeInv, TypeOK, MainType
  <1>a. main.k \in Nat
        BY <1>0, Constants
  <1> USE DEF JoinInv, ArgsPhase, JoinedUpTo, AllJoined, NoStrayWrite, Starting
  <1>1. CASE MainSpawn
        BY <1>0, <1>1 DEF MainSpawn, argVars
  <1>2. CASE MainStore
        BY <1>0, <1>2 DEF MainStore
  <1>3. CASE MainSpawned
    <2>1. \A j \in 1..(main'.k - 1) : FALSE
          BY <1>3 DEF MainSpawned
    <2> QED
        BY <1>0, <1>3, <2>1 DEF MainSpawned, argVars
  <1>4. CASE MainJoin
    <2>1. /\ main.k \in 1..Len(Handers) /\ Handers[main.k] \in Dict
          /\ ~Running(Handers[main.k]) /\ main.pc = "join"
          BY <1>0, <1>4, Constants DEF MainJoin, Running
    <2>2. CASE main' = [main EXCEPT !.k = @ + 1]
      <3>1. \A j \in 1..(main'.k - 1) : ~Running(Handers[j])'
        <4>1. main'.k = main.k + 1
              BY <1>0, <2>2
        <4>2. \A j \in 1..main.k : j = main.k \/ j \in 1..(main.k - 1)
              BY <1>a
        <4>3. ldr' = ldr
              BY <1>4 DEF MainJoin
        <4> QED
            BY <1>a, <2>1, <4>1, <4>2, <4>3 DEF Running
      <3>2. UNCHANGED <<syncRet, argsLive, strayWrite, ldr>> /\ main'.pc = "join"
            BY <1>0, <1>4, <2>1, <2>2 DEF MainJoin
      <3> QED
          BY <1>0, <2>1, <3>1, <3>2
    <2>3. CASE /\ syncRet' = -1 /\ main' = [main EXCEPT !.pc = "check"]
      <3>1. main'.pc = "check"
            BY <1>0, <2>3
      <3> QED
          BY <1>0, <2>3, <3>1
    <2> QED
        BY <1>4, <2>2, <2>3 DEF MainJoin
  <1>5. CASE MainJoined
    <2>1. ldr' = ldr /\ syncRet' = 0 /\ main.pc = "join" /\ strayWrite' = strayWrite
          BY <1>5 DEF MainJoined
    <2>2. main'.pc = "check"
          BY <1>0, <1>5 DEF MainJoined
    <2>3. \A k \in 1..Len(Handers) : k \in 1..(main.k - 1)
          BY <1>a, <1>5, Constants DEF MainJoined
    <2>4. \A d \in Dict : ~Running(d)'
          BY <2>1, <2>3, HandersAssumption DEF Running
    <2> QED
        BY <1>0, <2>1, <2>2, <2>4
  <1>6. CASE MainStartCheck
    <2>1. UNCHANGED <<ldr, syncRet, argsLive, strayWrite>> /\ main.pc = "check"
          BY <1>6 DEF MainStartCheck, argVars
    <2>2. main'.pc \in {"check", "serving"}
          BY <1>0, <1>6 DEF MainStartCheck
    <2> QED
        BY <1>0, <2>1, <2>2 DEF Running
  <1> QED
      BY <1>1, <1>2, <1>3, <1>4, <1>5, <1>6 DEF MainStep

\* Whoever takes a step, what main has joined stays joined.
LEMMA JoinNext == JoinInv /\ [Next]_vars => JoinInv'
  <1> SUFFICES ASSUME JoinInv, [Next]_vars, ~MainStep PROVE JoinInv'
      BY JoinMain
  <1>1. TypeInv /\ TypeInv'
        BY TypeNext DEF JoinInv
  <1>2. \A d \in Dict : ~Running(d) => ~Running(d)'
        BY <1>1, LoadersEnd DEF MainStep
  <1>3. /\ UNCHANGED <<main, syncRet, argsLive>>
        /\ strayWrite' # strayWrite => ~argsLive /\ \E d \in Dict : Running(d)
        BY OthersLeaveMain
  <1>4. main.k \in 1..(Len(Handers) + 1)
        BY <1>1 DEF TypeInv, TypeOK, MainType
  <1>5. \A j \in 1..(main.k - 1) : Handers[j] \in Dict
        BY <1>4, Constants
  <1>6. JoinedUpTo'
        BY <1>2, <1>3, <1>5 DEF JoinInv, JoinedUpTo
  <1>7. (ArgsPhase /\ AllJoined)'
        BY <1>2, <1>3 DEF JoinInv, ArgsPhase, AllJoined, Starting
  <1>8. NoStrayWrite'
        BY <1>3 DEF JoinInv, NoStrayWrite, ArgsPhase, AllJoined, Starting
  <1> QED
      BY <1>1, <1>6, <1>7, <1>8 DEF JoinInv

\* load_args is freed under a running loader, or written after it was freed,
\* only when parallel_sync_load() returned -1: by its loop invariant a return
\* of 0 means that every loader was joined (dict_manager.cpp:150-157).
THEOREM LoadersJoined == Spec => []ArgsOutliveLoaders
  <1>1. JoinInv => ArgsOutliveLoaders
        BY DEF JoinInv, ArgsPhase, AllJoined, NoStrayWrite, ArgsOutliveLoaders
  <1> QED
      BY <1>1, JoinInit, JoinNext, PTL DEF Spec

================================================================================
