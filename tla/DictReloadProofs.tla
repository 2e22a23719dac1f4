--------------------------- MODULE DictReloadProofs ----------------------------
(***************************************************************************)
(* Serving and reloading the dictionaries, for any number of dictionaries, *)
(* readers and files: the slot that a GET_DICT is about to copy is not     *)
(* written, a reader gets a dictionary that is whole, a reload never loses *)
(* or ages a dictionary, an update of the file cannot be overlooked, and a *)
(* file that has always been missing does not end the process.             *)
(***************************************************************************)
EXTENDS DictManagerProofs

--------------------------------------------------------------------------------
(* A file that has been missing all along does not end the process. *)

Deadly(p) == \/ file[p].kind \in {"malformed", "inaccessible"}
             \/ (file[p].kind = "absent" /\ file[p].ver > 1)

\* exists() has said yes only of a file that is there or that has been written
\* since the start, and the process has not ended but for a deadly one.
SeenFiles ==
    /\ \A d \in Dict : ldr[d].pc = "stamp" /\ ldr[d].seen =>
                        FileOf(d).kind # "absent" \/ FileOf(d).ver > 1
    /\ ck.pc = "stamp" /\ ck.seen =>
         FileOf(ck.d).kind # "absent" \/ FileOf(ck.d).ver > 1
DiesInv == SeenFiles /\ MissingFileIsHarmless

\* A write gives the file a version above 1, and leaves the others alone.
LEMMA SeenWrite ==
    ASSUME TypeInv, SeenFiles, NEW p \in Path, Write(p)
    PROVE  SeenFiles'
  <1>1. \A d \in Dict : HasPath(d) /\ (FileOf(d).kind # "absent" \/ FileOf(d).ver > 1)
           => (FileOf(d).kind # "absent" \/ FileOf(d).ver > 1)'
    <2>1. TAKE d \in Dict
    <2>2. HAVE HasPath(d) /\ (FileOf(d).kind # "absent" \/ FileOf(d).ver > 1)
    <2>3. FileOf(d)' = FileOf(d) \/ FileOf(d)'.ver > 1
      <3>1. PathOf[d] \in Path /\ file \in [Path -> FileRec]
            BY <2>2, Constants DEF TypeInv, TypeOK
      <3>2. file[p] \in FileRec
            BY <3>1
      <3>3. PICK x \in Kinds, t \in Deltas :
              file' = [file EXCEPT ![p] = [kind |-> x, ver |-> file[p].ver + 1,
                                           mtime |-> file[p].mtime + t]]
            BY DEF Write
      <3>4. file[p].ver + 1 > 1
            BY <3>2, Constants DEF FileRec
      <3>5. CASE PathOf[d] = p
            BY <3>1, <3>3, <3>4, <3>5 DEF FileOf
      <3>6. CASE PathOf[d] # p
            BY <3>1, <3>3, <3>6 DEF FileOf
      <3> QED
          BY <3>5, <3>6
    <2> QED
        BY <2>2, <2>3
  <1>2. \A d \in Dict : ldr[d].pc = "stamp" => HasPath(d)
        BY DEF TypeInv, PathInv
  <1>3. ck.pc = "stamp" => ck.d \in Dict /\ HasPath(ck.d)
        BY DEF TypeInv, PathInv
  <1>4. ldr' = ldr /\ ck' = ck
        BY DEF Write
  <1> QED
      BY <1>1, <1>2, <1>3, <1>4 DEF SeenFiles

\* exists() is asked in the step that leads to "stamp".
LEMMA SeenNext == TypeInv /\ SeenFiles /\ [Next]_vars => SeenFiles'
  <1> SUFFICES ASSUME TypeInv, SeenFiles, [Next]_vars PROVE SeenFiles'
      OBVIOUS
  <1> USE DEF dictVars, startVars, argVars
  <1>t. ldr \in [Dict -> LdrRec] /\ ck \in CkRec
        BY DEF TypeInv, TypeOK
  <1>1. CASE \E p \in Path : Write(p)
        BY <1>1, SeenWrite
  <1>2. CASE \E d \in Dict : LoaderStep(d)
    <2>1. PICK d \in Dict : LoaderStep(d)
          BY <1>2
    <2>2. file' = file /\ ck' = ck /\ \A e \in Dict \ {d} : ldr'[e] = ldr[e]
          BY <1>t, <2>1 DEF LoaderStep, LoaderBegin, LoaderStamp, LoaderOpen, LoaderRead,
             LoaderReport, Terminate
    <2>3. ldr'[d].pc = "stamp" /\ ldr'[d].seen => FileOf(d).kind # "absent" \/ FileOf(d).ver > 1
      <3>1. CASE LoaderBegin(d)
        <4>1. \/ ldr' = ldr
              \/ ldr' = [ldr EXCEPT ![d] = [ldr[d] EXCEPT !.pc = "failed"]]
              \/ ldr' = [ldr EXCEPT ![d] = [ldr[d] EXCEPT !.pc = "stamp", !.o = Cur(d),
                                               !.seen = FileOf(d).kind # "absent"]]
              BY <3>1 DEF LoaderBegin, Terminate
        <4>2. ldr[d].pc = "ready"
              BY <3>1 DEF LoaderBegin
        <4> QED
            BY <1>t, <4>1, <4>2 DEF LdrRec
      <3>2. CASE LoaderStamp(d) \/ LoaderOpen(d) \/ LoaderRead(d) \/ LoaderReport(d)
        <4>1. ldr' = ldr \/ ldr'[d].pc # "stamp"
              BY <1>t, <3>2 DEF LoaderStamp, LoaderOpen, LoaderRead, LoaderReport,
                 Terminate, LdrRec
        <4> QED
            BY <4>1 DEF SeenFiles
      <3> QED
          BY <2>1, <3>1, <3>2 DEF LoaderStep
    <2> QED
        BY <2>2, <2>3 DEF SeenFiles, FileOf
  <1>3. CASE CheckStep
    <2>1. file' = file /\ ldr' = ldr
          BY <1>3 DEF CheckStep, CheckVisit, CheckStamp, CheckOpen, CheckRead, CheckAssign,
             CheckSwitch, CheckSleep
    <2>2. ck'.pc = "stamp" /\ ck'.seen =>
            FileOf(ck'.d).kind # "absent" \/ FileOf(ck'.d).ver > 1
      <3>1. CASE CheckVisit
        <4> DEFINE e == Handers[ck.k]
        <4>1. /\ ck.pc = "visit"
              /\ \/ ck' = CkOff(ck.k + 1) \/ ck' = ck
                 \/ ck' = [ck EXCEPT !.pc = "stamp", !.d = e, !.bg = 1 - cur_index[e],
                                     !.seen = FileOf(e).kind # "absent"]
              BY <3>1 DEF CheckVisit, AskExists, Terminate
        <4>2. CASE ck' = CkOff(ck.k + 1) \/ ck' = ck
              BY <4>1, <4>2 DEF CkOff
        <4>3. CASE ck' = [ck EXCEPT !.pc = "stamp", !.d = e, !.bg = 1 - cur_index[e],
                                    !.seen = FileOf(e).kind # "absent"]
          <5>1. ck'.d = e /\ ck'.seen = (FileOf(e).kind # "absent")
                BY <1>t, <4>3 DEF CkRec
          <5> QED
              BY <5>1
        <4> QED
            BY <4>1, <4>2, <4>3
      <3>2. CASE CheckStamp \/ CheckOpen \/ CheckRead \/ CheckAssign \/ CheckSwitch \/ CheckSleep
        <4>4. ck' = ck \/ ck'.pc # "stamp"
          <5>0. CASE CheckStamp
            <6>1. ck' = CkOff(ck.k + 1) \/ ck' = ck
                  \/ \E m : ck' = [ck EXCEPT !.pc = "open", !.o = Fresh(ck.d), !.new_mtime = m]
                  BY <5>0 DEF CheckStamp, CompareMtime, Terminate
            <6>2. CkOff(ck.k + 1).pc = "visit"
                  BY DEF CkOff
            <6>3. \A m : [ck EXCEPT !.pc = "open", !.o = Fresh(ck.d), !.new_mtime = m].pc = "open"
                  BY <1>t DEF CkRec
            <6>4. ck' = ck \/ ck'.pc \in {"visit", "open"}
                  BY <6>1, <6>2, <6>3
            <6> QED
                BY <6>4
          <5>1. CASE CheckOpen
            <6>1. ck' = CkOff(ck.k + 1) \/ ck' = ck
                  \/ \E x \in {"reading", "spinning"} :
                       ck' = [ck EXCEPT !.pc = x, !.ver = FileOf(ck.d).ver]
                  BY <5>1 DEF CheckOpen, Terminate
            <6>2. CkOff(ck.k + 1).pc = "visit"
                  BY DEF CkOff
            <6>3. \A x \in {"reading", "spinning"} :
                    [ck EXCEPT !.pc = x, !.ver = FileOf(ck.d).ver].pc = x
                  BY <1>t DEF CkRec
            <6>4. ck' = ck \/ ck'.pc \in {"visit", "reading", "spinning"}
                  BY <6>1, <6>2, <6>3
            <6> QED
                BY <6>4
          <5>2. CASE CheckRead \/ CheckAssign
            <6>1. \/ ck' = ck
                  \/ \E x \in {"assign", "spinning", "switch"} : ck' = [ck EXCEPT !.pc = x]
                  BY <5>2 DEF CheckRead, CheckAssign, Terminate
            <6> QED
                BY <1>t, <6>1 DEF CkRec
          <5>3. CASE CheckSwitch \/ CheckSleep
            <6>1. ck' = CkOff(ck.k + 1) \/ ck' = CkOff(1) \/ ck' = [ck EXCEPT !.pc = "asleep"]
                  BY <5>3 DEF CheckSwitch, CheckSleep
            <6> QED
                BY <1>t, <6>1 DEF CkRec, CkOff
          <5> QED
              BY <3>2, <5>0, <5>1, <5>2, <5>3
        <4> QED
            BY <4>4 DEF SeenFiles
      <3> QED
          BY <1>3, <3>1, <3>2 DEF CheckStep
    <2> QED
        BY <2>1, <2>2 DEF SeenFiles, FileOf
  <1>4. CASE ~CheckStep /\ (~ \E d \in Dict : LoaderStep(d)) /\ ~ \E p \in Path : Write(p)
    <2>1. CASE MainStep
      <3>1. file' = file
            BY <2>1 DEF MainStep, MainSpawn, MainStore, MainSpawned, MainJoin, MainJoined,
               MainStartCheck
      <3>2. \A d \in Dict : ldr'[d] = ldr[d] \/ ldr'[d].pc = "ready"
            BY <1>t, <2>1 DEF MainStep, MainSpawn, MainStore, MainSpawned, MainJoin, MainJoined,
               MainStartCheck, LdrRec
      <3>3. ck' = ck \/ ck'.pc = "visit"
            BY <1>t, <2>1 DEF MainStep, MainSpawn, MainStore, MainSpawned, MainJoin, MainJoined,
               MainStartCheck, CkRec
      <3> QED
          BY <3>1, <3>2, <3>3 DEF SeenFiles, FileOf
    <2>2. CASE ~MainStep
      <3>1. file' = file /\ ldr' = ldr /\ ck' = ck
            BY <1>4, <2>2 DEF Next, vars, Tick, ReaderStep, GetIndex, GetCopy, Lookup
      <3> QED
          BY <3>1 DEF SeenFiles, FileOf
    <2> QED
        BY <2>1, <2>2
  <1> QED
      BY <1>1, <1>2, <1>3, <1>4

\* Whoever ends the process has just looked at a deadly file, and files change
\* only while the process is up.
LEMMA DiesNext ==
    TypeInv /\ DiesInv /\ [Next]_vars => DiesInv'
  <1> SUFFICES ASSUME TypeInv, DiesInv, [Next]_vars, proc' = "terminated"
               PROVE  \E p \in Path : Deadly(p)'
      BY SeenNext DEF DiesInv, MissingFileIsHarmless, Deadly
  <1> USE DEF dictVars, startVars, argVars
  <1>0. SeenFiles /\ MissingFileIsHarmless
        BY DEF DiesInv
  <1>1. ASSUME NEW d \in Dict, HasPath(d), file' = file,
               \/ FileOf(d).kind \in {"malformed", "inaccessible"}
               \/ FileOf(d).kind = "absent" /\ FileOf(d).ver > 1
        PROVE  \E p \in Path : Deadly(p)'
        BY <1>1, Constants DEF FileOf, Deadly
  <1>2. CASE proc = "terminated"
    <2>1. file' = file
          BY <1>2 DEF Next, vars, Write, Tick, MainStep, MainSpawn, MainStore,
             MainSpawned, MainJoin, MainJoined, MainStartCheck, LoaderStep,
             LoaderBegin, LoaderStamp, LoaderOpen, LoaderRead, LoaderReport,
             CheckStep, CheckVisit, CheckStamp, CheckOpen, CheckRead, CheckAssign,
             CheckSwitch, CheckSleep, ReaderStep, GetIndex, GetCopy, Lookup
    <2> QED
        BY <1>0, <1>2, <2>1 DEF MissingFileIsHarmless, Deadly
  <1>3. CASE proc # "terminated" /\ \E d \in Dict : LoaderStep(d)
    <2>1. PICK d \in Dict : LoaderStep(d)
          BY <1>3
    <2>2. HasPath(d)
          BY <2>1 DEF TypeInv, PathInv, LoaderStep, LoaderBegin, LoaderStamp,
             LoaderOpen, LoaderRead, LoaderReport
    <2>3. /\ file' = file
          /\ \/ FileOf(d).kind \in {"malformed", "inaccessible"}
             \/ ldr[d].pc = "stamp" /\ ldr[d].seen /\ FileOf(d).kind = "absent"
          BY <1>3, <2>1 DEF LoaderStep, LoaderBegin, LoaderStamp, LoaderOpen,
             LoaderRead, LoaderReport, Throws, ExistsThrows, StampThrows, Terminate
    <2> QED
        BY <1>0, <1>1, <2>2, <2>3 DEF SeenFiles
  <1>4. CASE proc # "terminated" /\ CheckStep
    <2>1. PICK d : /\ d \in Dict /\ HasPath(d) /\ file' = file
                   /\ \/ FileOf(d).kind \in {"malformed", "inaccessible"}
                      \/ ck.pc = "stamp" /\ ck.seen /\ d = ck.d /\ FileOf(d).kind = "absent"
      <3>1. CASE CheckVisit
        <4>1. Handers[ck.k] \in Dict /\ Cur(Handers[ck.k]) # Null
              /\ FileOf(Handers[ck.k]).kind = "inaccessible" /\ file' = file
              BY <1>4, <3>1, Constants DEF CheckVisit, AskExists, ExistsThrows, TypeInv,
                 TypeOK, CkRec
        <4>2. HasPath(Handers[ck.k])
              BY <4>1, CurType
        <4> QED
            BY <4>1, <4>2
      <3>2. CASE ~CheckVisit
        <4>1. /\ ck.pc \in {"stamp", "open", "reading"} /\ file' = file
              /\ \/ FileOf(ck.d).kind \in {"malformed", "inaccessible"}
                 \/ ck.pc = "stamp" /\ ck.seen /\ FileOf(ck.d).kind = "absent"
              BY <1>4, <3>2 DEF CheckStep, CheckStamp, CheckOpen, CheckRead, CheckAssign,
                 CheckSwitch, CheckSleep, Throws, StampThrows, Terminate
        <4>2. ck.d \in Dict /\ HasPath(ck.d)
              BY <4>1 DEF TypeInv, PathInv
        <4> QED
            BY <4>1, <4>2
      <3> QED
          BY <3>1, <3>2
    <2> QED
        BY <1>0, <1>1, <2>1 DEF SeenFiles
  <1>5. CASE proc # "terminated" /\ ~CheckStep /\ ~ \E d \in Dict : LoaderStep(d)
        BY <1>5 DEF Next, vars, Write, Tick, MainStep, MainSpawn, MainStore,
           MainSpawned, MainJoin, MainJoined, MainStartCheck, ReaderStep,
           GetIndex, GetCopy, Lookup
  <1> QED
      BY <1>2, <1>3, <1>4, <1>5

\* A dictionary file that is missing from the start never ends the process: one
\* has to vanish between exists() and last_write_time(), to lie where it may not
\* be looked up, or to be malformed (dict_manager.h:41, 45; load()).
THEOREM MissingFilesHarmless == Spec => []MissingFileIsHarmless
  <1>1. Init => DiesInv
        BY DEF Init, DiesInv, SeenFiles, MissingFileIsHarmless
  <1>2. DiesInv => MissingFileIsHarmless
        BY DEF DiesInv
  <1> QED
      BY <1>1, <1>2, DiesNext, TypeAlways, PTL DEF Spec

--------------------------------------------------------------------------------
(* Who is where: the checker works on one dictionary at a time, in the order   *)
(* of dict_hander_vect, and readers run only once run() has returned.          *)

Working == ck.pc \in {"stamp", "open", "reading", "spinning", "assign", "switch"}
Passed(d) == \E j \in 1..(ck.k - 1) : Handers[j] = d

BeforeServing ==
    main.pc # "serving" => ck.pc = "off" /\ \A r \in Reader : rd[r].pc = "idle"
AtWork == Working => ck.d = Handers[ck.k] /\ ck.bg = 1 - cur_index[ck.d]

\* A GET_DICT that holds the index of the slot that is not served any more took
\* it before the switch: the checker is past that dictionary, or asleep for what
\* is left of Period, which is more than the GET_DICT may still take.
StaleIndex ==
    \A r \in Reader : rd[r].pc = "copy" /\ rd[r].idx # cur_index[rd[r].d] =>
        \/ (ck.pc = "visit" \/ Working) /\ Passed(rd[r].d)
        \/ ck.pc = "asleep" /\ nap + rd[r].age >= Period

SlotInv == TypeInv /\ BeforeServing /\ AtWork /\ StaleIndex


\* Until run() has returned there is no checker and no reader.
LEMMA SlotInit == Init => SlotInv
  <1> SUFFICES ASSUME Init PROVE SlotInv
      OBVIOUS
  <1>1. ck.pc = "off" /\ \A r \in Reader : rd[r].pc = "idle"
        BY DEF Init, Idle
  <1> QED
      BY <1>1, TypeInit DEF SlotInv, BeforeServing, AtWork, Working, StaleIndex

\* Writers of files, loaders, and main leave the checker and the readers alone,
\* but for the start of the checker, before which there is no reader.
LEMMA SlotOthers ==
    SlotInv /\ (MainStep \/ (\E d \in Dict : LoaderStep(d)) \/ (\E p \in Path : Write(p)))
      => SlotInv'
  <1> SUFFICES ASSUME SlotInv,
                      MainStep \/ (\E d \in Dict : LoaderStep(d)) \/ (\E p \in Path : Write(p))
               PROVE  SlotInv'
      OBVIOUS
  <1>0. TypeInv /\ TypeInv'
        BY TypeEnv, TypeMain, TypeLoader DEF SlotInv
  <1> USE DEF SlotInv, BeforeServing, AtWork, Working, StaleIndex, Passed,
              dictVars, startVars, argVars
  <1>1. CASE MainStep
    <2>1. /\ rd' = rd /\ main.pc # "serving" /\ cur_index' = cur_index
          /\ ck' = ck \/ (ck'.pc = "visit" /\ main'.pc = "serving")
          BY <1>0, <1>1 DEF MainStep, MainSpawn, MainStore, MainSpawned, MainJoin,
             MainJoined, MainStartCheck, TypeInv, TypeOK, MainType, CkRec
    <2> QED
        BY <1>0, <2>1
  <1>2. CASE ~MainStep
    <2>1. UNCHANGED <<main, ck, nap, rd, cur_index>>
          BY <1>2 DEF LoaderStep, LoaderBegin, LoaderStamp, LoaderOpen, LoaderRead,
             LoaderReport, Write
    <2> QED
        BY <1>0, <2>1
  <1> QED
      BY <1>1, <1>2

\* What a tick takes from the nap it adds to the time a GET_DICT has taken.
LEMMA SlotTick == SlotInv /\ Tick => SlotInv'
  <1> SUFFICES ASSUME SlotInv, Tick PROVE SlotInv'
      OBVIOUS
  <1>0. TypeInv /\ TypeInv' /\ nap \in Nat /\ Period \in Nat
        BY TypeEnv, Constants DEF SlotInv, TypeInv, TypeOK
  <1>1. UNCHANGED <<main, ck, cur_index>>
        BY DEF Tick, startVars
  <1>2. ASSUME NEW r \in Reader
        PROVE  /\ rd'[r].pc = rd[r].pc /\ rd'[r].d = rd[r].d /\ rd'[r].idx = rd[r].idx
               /\ rd[r].pc = "copy" => rd'[r].age = rd[r].age + 1
        BY <1>0 DEF Tick, TypeInv, TypeOK, RdRec
  <1>3. ASSUME NEW r \in Reader, rd[r].pc = "copy", nap + rd[r].age >= Period
        PROVE  nap' + rd'[r].age >= Period
    <2>1. rd[r].age \in Nat /\ rd'[r].age = rd[r].age + 1
          BY <1>0, <1>2, <1>3, Constants DEF TypeInv, TypeOK, RdRec
    <2>2. nap' = IF nap > 0 THEN nap - 1 ELSE 0
          BY DEF Tick
    <2> QED
        BY <1>0, <1>3, <2>1, <2>2
  <1>4. BeforeServing' /\ AtWork'
        BY <1>1, <1>2 DEF SlotInv, BeforeServing, AtWork, Working
  <1>5. StaleIndex'
        BY <1>1, <1>2, <1>3 DEF SlotInv, StaleIndex, Working, Passed
  <1> QED
      BY <1>0, <1>4, <1>5 DEF SlotInv

\* A GET_DICT begins with the served slot.
LEMMA SlotReader == \A r \in Reader : SlotInv /\ ReaderStep(r) => SlotInv'
  <1> SUFFICES ASSUME NEW r \in Reader, SlotInv, ReaderStep(r) PROVE SlotInv'
      OBVIOUS
  <1>0. TypeInv /\ TypeInv'
        BY TypeReader DEF SlotInv
  <1>1. UNCHANGED <<main, ck, nap, cur_index>>
        BY DEF ReaderStep, GetIndex, GetCopy, Lookup, dictVars, startVars
  <1>2. /\ \A q \in Reader \ {r} : rd'[q] = rd[q]
        /\ rd'[r].pc = "copy" => rd'[r].idx = cur_index[rd'[r].d]
    <2>0. rd \in [Reader -> RdRec]
          BY <1>0 DEF TypeInv, TypeOK
    <2>1. CASE GetIndex(r)
      <3>1. PICK d \in Dict : rd' = [rd EXCEPT ![r] =
              [pc |-> "copy", d |-> d, o |-> Null, idx |-> cur_index[d], age |-> 0]]
            BY <2>1 DEF GetIndex
      <3> QED
          BY <2>0, <3>1
    <2>2. CASE GetCopy(r) \/ Lookup(r)
      <3>1. PICK x : /\ rd' = [rd EXCEPT ![r] = x]
                     /\ \/ x = Idle
                        \/ x = [rd[r] EXCEPT !.pc = "lookup",
                                    !.o = dicts[rd[r].d][rd[r].idx], !.age = 0]
            BY <2>2 DEF GetCopy, Lookup
      <3>2. x.pc # "copy"
        <4>1. rd[r] \in RdRec /\ Idle.pc = "idle"
              BY <2>0 DEF Idle
        <4>2. ASSUME NEW o
              PROVE  [rd[r] EXCEPT !.pc = "lookup", !.o = o, !.age = 0].pc = "lookup"
              BY <4>1 DEF RdRec
        <4> QED
            BY <3>1, <4>1, <4>2
      <3> QED
          BY <2>0, <3>1, <3>2
    <2> QED
        BY <2>1, <2>2 DEF ReaderStep
  <1>3. main.pc # "serving" => rd[r].pc = "idle" /\ FALSE
        BY DEF SlotInv, BeforeServing, ReaderStep, GetIndex, GetCopy, Lookup
  <1>4. BeforeServing' /\ AtWork'
        BY <1>1, <1>2, <1>3 DEF SlotInv, BeforeServing, AtWork, Working
  <1>5. StaleIndex'
        BY <1>1, <1>2 DEF SlotInv, StaleIndex, Working, Passed
  <1> QED
      BY <1>0, <1>4, <1>5 DEF SlotInv

\* What one step of the checker does to its position: it works on, goes on to the
\* next dictionary, ends the process, falls asleep, or wakes up.
WorksOn == /\ ck'.pc \in {"open", "reading", "spinning", "assign", "switch"} \/ ck' = ck
           /\ Working /\ ck'.k = ck.k /\ ck'.d = ck.d /\ ck'.bg = ck.bg
           /\ UNCHANGED <<cur_index, nap>>
Enters == /\ ck.pc = "visit" /\ ck.k <= Len(Handers) /\ ck'.k = ck.k
          /\ ck'.pc = "stamp" /\ ck'.d = Handers[ck.k] /\ ck'.bg = 1 - cur_index[ck'.d]
          /\ UNCHANGED <<cur_index, nap>>
GoesOn == /\ ck' = CkOff(ck.k + 1) /\ (ck.pc = "visit" \/ Working) /\ nap' = nap
          /\ \/ cur_index' = cur_index
             \/ ck.pc = "switch" /\ cur_index' = [cur_index EXCEPT ![ck.d] = ck.bg]
Stops == ck.pc = "visit" /\ ck' = ck /\ UNCHANGED <<cur_index, nap>>
FallsAsleep == ck.pc = "visit" /\ ck'.pc = "asleep" /\ nap' = Period /\ cur_index' = cur_index
WakesUp == ck.pc = "asleep" /\ nap = 0 /\ ck' = CkOff(1) /\ UNCHANGED <<cur_index, nap>>

\* Every step of the checker is one of these moves, and leaves main, the loaders and
\* the readers alone.
LEMMA CheckerMoves ==
    ASSUME TypeInv, CheckStep
    PROVE  /\ WorksOn \/ Enters \/ GoesOn \/ Stops \/ FallsAsleep \/ WakesUp
           /\ UNCHANGED <<file, main, started, syncRet, ret, argsLive, strayWrite, ldr, rd>>
           /\ ck.pc \in {"visit", "asleep"} \/ Working
           /\ proc = "up"
  <1> USE DEF dictVars, startVars, argVars
  <1>0. /\ ck \in CkRec /\ cur_index \in [Dict -> 0..1]
        BY DEF TypeInv, TypeOK, SlotType
  <1>1. CASE CheckVisit
    <2>1. Enters \/ GoesOn \/ Stops
      <3>1. /\ ck.pc = "visit" /\ ck.k <= Len(Handers) /\ UNCHANGED <<cur_index, nap>>
            /\ \/ ck' = CkOff(ck.k + 1) \/ ck' = ck
               \/ ck' = [ck EXCEPT !.pc = "stamp", !.d = Handers[ck.k],
                                   !.bg = 1 - cur_index[Handers[ck.k]],
                                   !.seen = FileOf(Handers[ck.k]).kind # "absent"]
            BY <1>1 DEF CheckVisit, AskExists, Terminate
      <3> QED
          BY ZenonT(40), <1>0, <3>1 DEF Enters, GoesOn, Stops, CkRec
    <2> QED
        BY <1>1, <2>1 DEF CheckVisit, AskExists
  <1>2. CASE CheckStamp
    <2>1. Working /\ UNCHANGED <<cur_index, nap>>
          BY <1>2 DEF CheckStamp, Working
    <2>2. \/ ck' = CkOff(ck.k + 1) \/ ck' = ck
          \/ \E m : ck' = [ck EXCEPT !.pc = "open", !.o = Fresh(ck.d), !.new_mtime = m]
          BY <1>2 DEF CheckStamp, CompareMtime, Terminate
    <2>3. WorksOn \/ GoesOn
          BY <1>0, <2>1, <2>2 DEF WorksOn, GoesOn, CkRec
    <2> QED
        BY <1>2, <2>1, <2>3 DEF CheckStamp
  <1>3. CASE CheckOpen
    <2>1. Working /\ UNCHANGED <<cur_index, nap>>
          BY <1>3 DEF CheckOpen, Working
    <2>2. \/ ck' = CkOff(ck.k + 1) \/ ck' = ck
          \/ \E x \in {"reading", "spinning"} :
               ck' = [ck EXCEPT !.pc = x, !.ver = FileOf(ck.d).ver]
          BY <1>3 DEF CheckOpen, Terminate
    <2>3. WorksOn \/ GoesOn
          BY <1>0, <2>1, <2>2 DEF WorksOn, GoesOn, CkRec
    <2> QED
        BY <1>3, <2>1, <2>3 DEF CheckOpen
  <1>4. CASE CheckRead
    <2>1. Working /\ UNCHANGED <<cur_index, nap>>
          BY <1>4 DEF CheckRead, Working
    <2>2. ck' = ck \/ \E x \in {"assign", "spinning"} : ck' = [ck EXCEPT !.pc = x]
          BY <1>4 DEF CheckRead, Terminate
    <2>3. WorksOn
          BY <1>0, <2>1, <2>2 DEF WorksOn, CkRec
    <2> QED
        BY <1>4, <2>1, <2>3 DEF CheckRead
  <1>5. CASE CheckAssign
    <2>1. Working /\ UNCHANGED <<cur_index, nap>>
          BY <1>5 DEF CheckAssign, Working
    <2>2. ck' = [ck EXCEPT !.pc = "switch"]
          BY <1>5 DEF CheckAssign
    <2>3. WorksOn
          BY <1>0, <2>1, <2>2 DEF WorksOn, CkRec
    <2> QED
        BY <1>5, <2>1, <2>3 DEF CheckAssign
  <1>6. CASE CheckSwitch
    <2>1. GoesOn
          BY <1>6 DEF CheckSwitch, GoesOn, Working
    <2> QED
        BY <1>6, <2>1 DEF CheckSwitch, Working
  <1>7. CASE CheckSleep
    <2>1. FallsAsleep \/ WakesUp
          BY <1>0, <1>7 DEF CheckSleep, FallsAsleep, WakesUp, CkRec
    <2> QED
        BY <1>7, <2>1 DEF CheckSleep
  <1> QED
      BY <1>1, <1>2, <1>3, <1>4, <1>5, <1>6, <1>7 DEF CheckStep

\* A dictionary stands once in dict_hander_vect: the checker is not at work on
\* one that it has passed.
LEMMA PassedOnce ==
    ASSUME TypeInv, AtWork, Working, NEW d \in Dict, Passed(d)
    PROVE  d # ck.d
  <1>1. ck.k \in 1..Len(Handers) /\ ck.d = Handers[ck.k]
        BY Constants DEF TypeInv, TypeOK, CkRec, PathInv, AtWork, Working
  <1>2. PICK j \in 1..(ck.k - 1) : Handers[j] = d
        BY DEF Passed
  <1>3. j \in 1..Len(Handers) /\ j # ck.k
        BY <1>1, Constants
  <1> QED
      BY <1>1, <1>2, <1>3, HandersAssumption

\* The checker's steps: only the switch makes an index stale, of a dictionary
\* that is passed from then on; and the nap outlasts every GET_DICT.
LEMMA SlotCheck == SlotInv /\ CheckStep => SlotInv'
  <1> SUFFICES ASSUME SlotInv, CheckStep PROVE SlotInv'
      OBVIOUS
  <1>0. TypeInv /\ TypeInv' /\ ck.k \in Nat /\ Len(Handers) \in Nat
        BY TypeCheck, Constants DEF SlotInv, TypeInv, TypeOK, CkRec
  <1>1. /\ WorksOn \/ Enters \/ GoesOn \/ Stops \/ FallsAsleep \/ WakesUp
        /\ UNCHANGED <<main, rd>> /\ (ck.pc \in {"visit", "asleep"} \/ Working)
        BY <1>0, CheckerMoves
  <1>2. ck.pc # "off" /\ ck'.pc # "off"
        BY <1>1 DEF WorksOn, Enters, GoesOn, Stops, FallsAsleep, WakesUp, Working, CkOff
  <1>3. BeforeServing'
        BY <1>1, <1>2 DEF SlotInv, BeforeServing
  <1>4. AtWork'
        BY <1>1 DEF SlotInv, AtWork, WorksOn, Enters, GoesOn, Stops, FallsAsleep, WakesUp,
           Working, CkOff
  <1>5. StaleIndex'
    <2> SUFFICES ASSUME NEW r \in Reader, rd[r].pc = "copy",
                        rd[r].idx # cur_index'[rd[r].d]
                 PROVE  \/ (ck'.pc = "visit" \/ Working') /\ Passed(rd[r].d)'
                        \/ ck'.pc = "asleep" /\ nap' + rd[r].age >= Period
        BY <1>1 DEF StaleIndex, Passed
    <2>0. /\ rd[r].d \in Dict /\ rd[r].age \in 0..GetWindow /\ rd[r].idx \in 0..1
          /\ cur_index \in [Dict -> 0..1]
          BY <1>0 DEF TypeInv, TypeOK, RdRec, PathInv, SlotType
    <2>1. ASSUME rd[r].idx # cur_index[rd[r].d]
          PROVE  \/ (ck.pc = "visit" \/ Working) /\ Passed(rd[r].d)
                 \/ ck.pc = "asleep" /\ nap + rd[r].age >= Period
          BY <2>1 DEF SlotInv, StaleIndex
    <2>2. CASE WorksOn
      <3>1. Passed(rd[r].d)' <=> Passed(rd[r].d)
            BY <1>1, <2>2 DEF Passed, WorksOn
      <3> QED
          BY <2>1, <2>2, <3>1 DEF WorksOn, Working
    <2>3. CASE Enters
      <3>1. Passed(rd[r].d)' <=> Passed(rd[r].d)
            BY <1>1, <2>3 DEF Passed, Enters
      <3> QED
          BY <2>1, <2>3, <3>1 DEF Enters, Working
    <2>4. CASE GoesOn
      <3>1. ck'.pc = "visit" /\ ck'.k = ck.k + 1 /\ ck.pc # "asleep"
            BY <2>4 DEF GoesOn, CkOff, Working
      <3>2. Passed(rd[r].d) => Passed(rd[r].d)'
            BY <1>0, <1>1, <3>1 DEF Passed
      <3>3. CASE rd[r].idx # cur_index[rd[r].d]
            BY <2>1, <3>1, <3>2, <3>3
      <3>4. CASE rd[r].idx = cur_index[rd[r].d]
        <4>1. ck.pc = "switch" /\ rd[r].d = ck.d
              BY <2>0, <2>4, <3>4 DEF GoesOn
        <4>2. ck.k \in 1..(ck.k + 1 - 1) /\ ck.d = Handers[ck.k]
              BY <1>0, <4>1 DEF SlotInv, AtWork, Working, TypeInv, TypeOK, CkRec
        <4>3. Passed(rd[r].d)'
              BY <1>1, <3>1, <4>1, <4>2 DEF Passed
        <4> QED
            BY <3>1, <4>3
      <3> QED
          BY <3>3, <3>4
    <2>7. CASE Stops
      <3>1. Passed(rd[r].d)' <=> Passed(rd[r].d)
            BY <1>1, <2>7 DEF Passed, Stops
      <3> QED
          BY <2>1, <2>7, <3>1 DEF Stops, Working
    <2>5. CASE FallsAsleep
      <3>1. nap' + rd[r].age >= Period
            BY <2>0, <2>5, Constants DEF FallsAsleep
      <3> QED
          BY <2>5, <3>1 DEF FallsAsleep
    <2>6. CASE WakesUp
      <3>1. nap = 0 /\ ck.pc = "asleep" /\ cur_index' = cur_index
            BY <2>6 DEF WakesUp
      <3>2. nap + rd[r].age >= Period
            BY <2>1, <3>1 DEF Working
      <3> QED
          BY <2>0, <3>1, <3>2, Constants, ClockAssumption
    <2> QED
        BY <1>1, <2>2, <2>3, <2>4, <2>5, <2>6, <2>7
  <1> QED
      BY <1>0, <1>3, <1>4, <1>5 DEF SlotInv

\* Nothing that SlotInv speaks of changes in a stuttering step.
LEMMA SlotStutter == SlotInv /\ UNCHANGED vars => SlotInv'
  BY TypeStutter DEF SlotInv, BeforeServing, AtWork, Working, StaleIndex, Passed,
     vars, dictVars, startVars, argVars

\* Every step of every thread keeps SlotInv.
LEMMA SlotNext == SlotInv /\ [Next]_vars => SlotInv'
  BY SlotOthers, SlotTick, SlotReader, SlotCheck, SlotStutter DEF Next

\* Slots are written by main, before there is a reader, and by the checker, which
\* writes the slot of its dictionary that is not served.
LEMMA SlotWrites ==
    ASSUME SlotInv, [Next]_vars, NEW d \in Dict, NEW i \in 0..1, dicts'[d][i] # dicts[d][i]
    PROVE  \/ MainSpawn
           \/ CheckVisit /\ d = Handers[ck.k] /\ i # cur_index[d] /\ ck.k <= Len(Handers)
           \/ CheckStep /\ Working /\ d = ck.d /\ i = ck.bg
  <1> USE DEF dictVars
  <1>0. /\ TypeInv /\ dicts \in [Dict -> [0..1 -> Obj \cup {Null}]]
        /\ cur_index \in [Dict -> 0..1] /\ ck \in CkRec
        BY DEF SlotInv, TypeInv, TypeOK, SlotType
  <1>1. CASE CheckStep
    <2>1. CASE CheckVisit
      <3>1. /\ Handers[ck.k] \in Dict /\ ck.k <= Len(Handers)
            /\ dicts' = dicts \/ dicts' = [dicts EXCEPT ![Handers[ck.k]][1 - cur_index[Handers[ck.k]]] = Null]
            BY <1>0, <2>1, Constants DEF CheckVisit, CkRec
      <3>2. d = Handers[ck.k] /\ i = 1 - cur_index[d]
            BY <1>0, <3>1
      <3> QED
          BY <1>0, <2>1, <3>1, <3>2
    <2>2. CASE ~CheckVisit
      <3>1. \/ dicts' = dicts
            \/ Working /\ \E o : dicts' = [dicts EXCEPT ![ck.d][ck.bg] = o]
            BY <1>1, <2>2 DEF CheckStep, CheckStamp, CompareMtime, CheckOpen, CheckRead,
               CheckAssign, CheckSwitch, CheckSleep, Terminate, Working
      <3>2. Working => ck.d \in Dict /\ ck.bg \in 0..1
            BY <1>0 DEF TypeInv, PathInv, CkRec, Working
      <3>3. Working /\ d = ck.d /\ i = ck.bg
        <4>1. Working /\ \E o : dicts' = [dicts EXCEPT ![ck.d][ck.bg] = o]
              BY <3>1
        <4>2. PICK o : dicts' = [dicts EXCEPT ![ck.d][ck.bg] = o]
              BY <4>1
        <4>3. \A e \in Dict, j \in 0..1 : (e = ck.d /\ j = ck.bg) \/ dicts'[e][j] = dicts[e][j]
              BY <1>0, <3>2, <4>1, <4>2
        <4> QED
            BY <4>1, <4>3
      <3> QED
          BY <1>1, <3>3
    <2> QED
        BY <2>1, <2>2
  <1>2. CASE ~CheckStep /\ ~MainSpawn
        BY <1>2 DEF Next, vars, Write, Tick, MainStep, MainStore, MainSpawned,
           MainJoin, MainJoined, MainStartCheck, LoaderStep, LoaderBegin,
           LoaderStamp, LoaderOpen, LoaderRead, LoaderReport, ReaderStep,
           GetIndex, GetCopy, Lookup
  <1> QED
      BY <1>1, <1>2

\* Between the load of cur_index and the copy of the shared_ptr nobody writes the
\* slot (dict_manager.h, GET_DICT; dict_manager.cpp:61-83): the sleep of an hour
\* outlasts every GET_DICT that still holds the old index.
THEOREM SlotsStable == Spec => SlotStableUnderGetDict
  <1>1. ASSUME SlotInv, [Next]_vars, NEW r \in Reader, rd[r].pc = "copy"
        PROVE  dicts'[rd[r].d][rd[r].idx] = dicts[rd[r].d][rd[r].idx]
    <2> DEFINE d == rd[r].d
               i == rd[r].idx
    <2>0. TypeInv /\ d \in Dict /\ i \in 0..1 /\ main.pc = "serving"
          BY <1>1 DEF SlotInv, TypeInv, TypeOK, RdRec, PathInv, BeforeServing, StaleIndex
    <2>1. SUFFICES ASSUME dicts'[d][i] # dicts[d][i] PROVE FALSE
          OBVIOUS
    <2>2. ck.k \in Nat /\ cur_index \in [Dict -> 0..1]
          BY <2>0, Constants DEF TypeInv, TypeOK, CkRec, SlotType
    <2>3. ~MainSpawn
          BY <2>0 DEF MainSpawn
    <2>4. CASE CheckVisit /\ d = Handers[ck.k] /\ i # cur_index[d] /\ ck.k <= Len(Handers)
      <3>1. Passed(d)
            BY <1>1, <2>4 DEF SlotInv, StaleIndex, CheckVisit
      <3>2. PICK j \in 1..(ck.k - 1) : Handers[j] = d
            BY <3>1 DEF Passed
      <3>3. j \in 1..Len(Handers) /\ j # ck.k /\ ck.k \in 1..Len(Handers)
            BY <2>2, <2>4, <3>2, Constants
      <3> QED
          BY <2>4, <3>2, <3>3, HandersAssumption
    <2>5. CASE CheckStep /\ Working /\ d = ck.d /\ i = ck.bg
      <3>1. i # cur_index[d]
            BY <1>1, <2>0, <2>2, <2>5 DEF SlotInv, AtWork
      <3>2. Passed(d)
            BY <1>1, <2>5, <3>1 DEF SlotInv, StaleIndex, Working
      <3> QED
          BY <1>1, <2>0, <2>5, <3>2, PassedOnce DEF SlotInv
    <2> QED
        BY <1>1, <2>0, <2>1, <2>3, <2>4, <2>5, SlotWrites
  <1>2. SlotInv /\ [Next]_vars => [\A r \in Reader : rd[r].pc = "copy" =>
              dicts'[rd[r].d][rd[r].idx] = dicts[rd[r].d][rd[r].idx]]_vars
        BY <1>1
  <1> QED
      BY <1>2, SlotInit, SlotNext, PTL DEF Spec, SlotStableUnderGetDict

--------------------------------------------------------------------------------
(* Whose an object is: the loader's until it is joined, then everybody's who    *)
(* reads, and the checker's until it is in a slot.                              *)

Loading(d) == ldr[d].pc \in {"stamp", "open", "reading", "loaded", "failed"}
Whole == {"loaded", "failed"}

\* main has put an object into the slot of each dictionary with a file that it
\* has come to; a loader was started for it, or the failure to start one is
\* noted, or about to be.
Reached(j) == \/ main.pc = "spawn" /\ j < main.k
              \/ main.pc = "store" /\ j <= main.k
              \/ main.pc \in {"join", "check", "serving"}
Filled == \A j \in 1..Len(Handers) :
    Reached(j) /\ HasPath(Handers[j]) => Cur(Handers[j]) # Null
Unstarted == \A j \in 1..Len(Handers) :
    /\ ~Reached(j) => ldr[Handers[j]].pc = "none"
    /\ Reached(j) /\ HasPath(Handers[j]) /\ ldr[Handers[j]].pc = "none" =>
         IF main.pc = "store" /\ j = main.k THEN started = 1 ELSE ret[Handers[j]] # 0
Joined(j) == (main.pc = "join" /\ j < main.k) \/ syncRet = 0
JoinedDone == \A j \in 1..Len(Handers) :
    Joined(j) /\ HasPath(Handers[j]) => ldr[Handers[j]].pc = "done"

\* Until the checker starts, one slot is in use, and only the loader fills it.
LoaderKeeps(d) ==
    /\ dicts[d][1 - cur_index[d]] = Null
    /\ Loading(d) => ldr[d].o = Cur(d)
    /\ ldr[d].pc = "loaded" => Served(d).st = "loaded"
    /\ ldr[d].pc = "failed" => Served(d).st = "failed"
    /\ ldr[d].pc = "done" => Served(d).st \in Whole
LoaderOwns == main.pc # "serving" => \A d \in Dict : LoaderKeeps(d)

\* After a start-up that reports success: what is in a slot or in the hands of
\* a reader is whole, and the object that the checker fills is its own.
SwitchSlot == ck.pc = "switch" => dicts[ck.d][ck.bg] = ck.o
SlotsWhole == syncRet = 0 =>
    \A d \in Dict, i \in 0..1 : dicts[d][i] # Null => obj[d][dicts[d][i]].st \in Whole
ReadersWhole == syncRet = 0 =>
    \A r \in Reader : rd[r].pc = "lookup" =>
        rd[r].o \in Obj /\ obj[rd[r].d][rd[r].o].st \in Whole
Filling == ck.pc \in {"open", "reading", "assign"}
CheckerOwns == syncRet = 0 =>
    /\ Filling =>
         /\ \A i \in 0..1 : dicts[ck.d][i] # ck.o
         /\ \A r \in Reader : rd[r].pc = "lookup" /\ rd[r].d = ck.d => rd[r].o # ck.o
    /\ ck.pc \in {"assign", "switch"} => obj[ck.d][ck.o].st = "loaded"

Boot == Filled /\ Unstarted /\ JoinedDone /\ LoaderOwns
Hold == SwitchSlot /\ SlotsWhole /\ ReadersWhole /\ CheckerOwns
OwnInv == JoinInv /\ SlotInv /\ Boot /\ Hold

\* Nothing is in a slot, and nobody holds an object.
LEMMA OwnInit == Init => OwnInv
  <1> SUFFICES ASSUME Init PROVE OwnInv
      OBVIOUS
  <1>1. JoinInv /\ SlotInv
        BY JoinInit, SlotInit
  <1>2. /\ main.pc = "spawn" /\ main.k = 1 /\ ck.pc = "off" /\ syncRet = 1
        /\ \A d \in Dict : ldr[d].pc = "none"
        /\ \A d \in Dict, i \in 0..1 : dicts[d][i] = Null
        /\ cur_index = [d \in Dict |-> 0]
        BY DEF Init
  <1>3. \A j \in 1..Len(Handers) : ~Reached(j) /\ ~Joined(j) /\ Handers[j] \in Dict
        BY <1>2, Constants DEF Reached, Joined
  <1>4. Boot
        BY <1>2, <1>3 DEF Boot, Filled, Unstarted, JoinedDone, LoaderOwns,
           LoaderKeeps, Loading
  <1>5. Hold
        BY <1>2 DEF Hold, SwitchSlot, SlotsWhole, ReadersWhole, CheckerOwns, Filling
  <1> QED
      BY <1>1, <1>4, <1>5 DEF OwnInv

\* A position of dict_hander_vect is all that is known of a dictionary, and enough.
LEMMA Positions ==
    /\ \A d \in Dict : \E j \in 1..Len(Handers) : Handers[j] = d
    /\ \A j, k \in 1..Len(Handers) : Handers[j] = Handers[k] => j = k
    /\ \A j \in 1..Len(Handers) : Handers[j] \in Dict
    /\ Len(Handers) \in Nat
  BY HandersAssumption, Constants

\* While main is not serving nobody is the checker or a reader.
LEMMA HoldBeforeServing ==
    ASSUME BeforeServing', main'.pc # "serving", SlotsWhole'
    PROVE  Hold'
  BY DEF BeforeServing, Hold, SwitchSlot, ReadersWhole, CheckerOwns, Filling

\* MainSpawn: a dictionary gets its object, and its loader or a note of failure.
LEMMA OwnSpawn == OwnInv /\ MainSpawn => Boot' /\ SlotsWhole'
  <1> SUFFICES ASSUME OwnInv, MainSpawn PROVE Boot' /\ SlotsWhole'
      OBVIOUS
  <1>k. PICK k : k = main.k
        OBVIOUS
  <1>d. PICK d : d = Handers[k]
        OBVIOUS
  <1>t. /\ TypeInv /\ cur_index \in [Dict -> 0..1] /\ ldr \in [Dict -> LdrRec]
        /\ dicts \in [Dict -> [0..1 -> Obj \cup {Null}]]
        /\ main \in [pc : {"spawn", "store", "join", "check", "serving"},
                     k : 1..(Len(Handers) + 1)]
        BY DEF OwnInv, SlotInv, TypeInv, TypeOK, MainType, SlotType
  <1>u. k \in 1..Len(Handers) /\ d \in Dict /\ main.pc = "spawn"
        BY <1>k, <1>d, <1>t, Constants DEF MainSpawn
  <1>0. /\ TypeInv /\ k \in 1..Len(Handers) /\ d \in Dict /\ main.pc = "spawn"
        /\ cur_index \in [Dict -> 0..1] /\ ldr \in [Dict -> LdrRec]
        /\ dicts \in [Dict -> [0..1 -> Obj \cup {Null}]]
        /\ main \in [pc : {"spawn", "store", "join", "check", "serving"},
                     k : 1..(Len(Handers) + 1)]
        BY <1>t, <1>u
  <1>1. UNCHANGED <<cur_index, syncRet, ret>>
        BY DEF MainSpawn, argVars
  <1>2. syncRet = 1
        BY <1>0 DEF OwnInv, JoinInv, ArgsPhase, Starting
  <1>3. CASE ~HasPath(d)
    <2>1. UNCHANGED <<dicts, obj, ldr>> /\ main'.k = k + 1 /\ main'.pc = "spawn"
          BY <1>0, <1>k, <1>d, <1>3 DEF MainSpawn
    <2>2. \A j \in 1..Len(Handers) : /\ Reached(j)' <=> Reached(j) \/ j = k
                                     /\ ~Joined(j)'
          BY <1>0, <1>k, <1>1, <1>2, <2>1 DEF Reached, Joined
    <2>3. Filled' /\ Unstarted' /\ JoinedDone'
          BY <1>0, <1>d, <1>1, <1>3, <2>1, <2>2 DEF OwnInv, Boot, Filled, Unstarted,
             JoinedDone, Cur, HasPath
    <2>4. LoaderOwns'
          BY <1>0, <1>1, <2>1 DEF OwnInv, Boot, LoaderOwns, LoaderKeeps, Loading, Cur, Served
    <2> QED
        BY <1>1, <1>2, <2>3, <2>4 DEF Boot, SlotsWhole
  <1>4. CASE HasPath(d)
    <2>1. /\ CanAllocate(d)
          /\ dicts' = [dicts EXCEPT ![d][cur_index[d]] = Fresh(d)]
          /\ obj' = [obj EXCEPT ![d][Fresh(d)] = NewObj]
          /\ \/ started' = 0 /\ ldr' = [ldr EXCEPT ![d].pc = "ready"]
             \/ started' = 1 /\ ldr' = ldr
          /\ main' = [main EXCEPT !.pc = "store"]
          BY <1>4, <1>k, <1>d DEF MainSpawn
    <2>2. Fresh(d) \in Obj
          BY <1>0, <1>4, <2>1, Values
    <2>3. main'.pc = "store" /\ main'.k = k
          BY <1>0, <1>k, <2>1
    <2>4. \A j \in 1..Len(Handers) : /\ Reached(j)' <=> Reached(j) \/ j = k
                                     /\ ~Joined(j)' /\ (j = k => ~Reached(j))
          BY <1>0, <1>k, <1>1, <1>2, <2>3 DEF Reached, Joined
    <2>5. ldr[d].pc = "none"
          BY <1>0, <1>d, <2>4 DEF OwnInv, Boot, Unstarted
    <2>6. /\ \A e \in Dict \ {d} : /\ ldr'[e] = ldr[e] /\ dicts'[e] = dicts[e]
                                   /\ obj'[e] = obj[e]
          /\ ldr'[d].pc = "ready" \/ (ldr'[d].pc = "none" /\ started' = 1)
          /\ dicts'[d][cur_index[d]] = Fresh(d)
          /\ dicts'[d][1 - cur_index[d]] = dicts[d][1 - cur_index[d]]
          BY <1>0, <2>1, <2>5, TypeMain DEF LdrRec, TypeInv, TypeOK
    <2>7. \A j \in 1..Len(Handers) : Handers[j] = d <=> j = k
          BY <1>0, <1>d, Positions
    <2>8. Filled'
      <3>1. ASSUME NEW j \in 1..Len(Handers), j # k, Reached(j), HasPath(Handers[j])
            PROVE  Cur(Handers[j])' # Null
            BY <1>1, <2>6, <2>7, <3>1, Positions DEF OwnInv, Boot, Filled, Cur
      <3>2. Cur(d)' # Null
            BY <1>1, <2>2, <2>6, ObjAssumption DEF Cur
      <3> QED
          BY <1>d, <2>4, <3>1, <3>2 DEF Filled, HasPath
    <2>9. Unstarted' /\ JoinedDone'
      <3>1. JoinedDone'
            BY <2>4 DEF JoinedDone
      <3>2. ASSUME NEW j \in 1..Len(Handers), j # k
            PROVE  /\ ldr'[Handers[j]] = ldr[Handers[j]] /\ ret'[Handers[j]] = ret[Handers[j]]
                   /\ Reached(j)' <=> Reached(j)
            BY <1>1, <2>4, <2>6, <2>7, <3>2, Positions
      <3>3. ASSUME NEW j \in 1..Len(Handers), j # k, Reached(j), HasPath(Handers[j]),
                   ldr[Handers[j]].pc = "none"
            PROVE  ret[Handers[j]] # 0
            BY <1>0, <3>3 DEF OwnInv, Boot, Unstarted
      <3>4. ASSUME NEW j \in 1..Len(Handers), j # k, ~Reached(j)
            PROVE  ldr[Handers[j]].pc = "none"
            BY <3>4 DEF OwnInv, Boot, Unstarted
      <3> QED
          BY <1>d, <2>3, <2>4, <2>6, <3>1, <3>2, <3>3, <3>4 DEF Unstarted, HasPath
    <2>10. LoaderOwns'
      <3>1. \A e \in Dict : LoaderKeeps(e)
            BY <1>0 DEF OwnInv, Boot, LoaderOwns
      <3>2. \A e \in Dict \ {d} : LoaderKeeps(e)'
            BY <1>1, <2>6, <3>1 DEF LoaderKeeps, Loading, Cur, Served
      <3>3. LoaderKeeps(d)'
            BY <1>0, <1>1, <2>6, <3>1 DEF LoaderKeeps, Loading
      <3> QED
          BY <3>2, <3>3 DEF LoaderOwns
    <2> QED
        BY <1>1, <1>2, <2>8, <2>9, <2>10 DEF Boot, SlotsWhole
  <1> QED
      BY <1>3, <1>4

\* The other steps of main leave the dictionaries and the loaders alone.
LEMMA OwnMainRest == OwnInv /\ MainStep /\ ~MainSpawn => Boot' /\ SlotsWhole'
  <1> SUFFICES ASSUME OwnInv, MainStep, ~MainSpawn PROVE Boot' /\ SlotsWhole'
      OBVIOUS
  <1> DEFINE k == main.k
  <1>0. /\ TypeInv /\ main.k \in Nat /\ Len(Handers) \in Nat
        /\ ret \in [Dict -> {-1, 0, 1}]
        /\ cur_index \in [Dict -> 0..1]
        /\ main \in [pc : {"spawn", "store", "join", "check", "serving"},
                     k : 1..(Len(Handers) + 1)]
        BY Constants DEF OwnInv, SlotInv, TypeInv, TypeOK, MainType, SlotType
  <1>1. UNCHANGED <<dicts, obj, ldr, cur_index>>
        BY DEF MainStep, MainStore, MainSpawned, MainJoin, MainJoined,
           MainStartCheck, dictVars
  <1>2. main.pc # "serving" /\ main.pc \in {"spawn", "store", "join", "check"}
        BY <1>0 DEF MainStep, MainStore, MainSpawned, MainJoin, MainJoined,
           MainStartCheck
  <1>3. LoaderOwns'
        BY <1>1, <1>2 DEF OwnInv, Boot, LoaderOwns, LoaderKeeps, Loading, Cur, Served
  <1>4. ASSUME \A j \in 1..Len(Handers) : Reached(j)' <=> Reached(j)
        PROVE  Filled'
        BY <1>1, <1>4 DEF OwnInv, Boot, Filled, Cur, HasPath
  <1>a. Starting <=> main.pc # "check"
        BY <1>2 DEF Starting
  <1>5. CASE MainStore
    <2>1. /\ k \in 1..Len(Handers) /\ main.pc = "store" /\ main'.pc = "spawn"
          /\ main'.k = k + 1 /\ syncRet' = syncRet /\ syncRet = 1
          /\ ret' = [ret EXCEPT ![Handers[k]] = started]
          BY <1>0, <1>5, <1>a DEF MainStore, OwnInv, TypeInv, PathInv, JoinInv, ArgsPhase
    <2>2. \A j \in 1..Len(Handers) : (Reached(j)' <=> Reached(j)) /\ ~Joined(j)'
          BY <1>0, <2>1 DEF Reached, Joined
    <2>3. Unstarted'
      <3>1. ASSUME NEW j \in 1..Len(Handers), Reached(j), HasPath(Handers[j]),
                   ldr[Handers[j]].pc = "none"
            PROVE  ret'[Handers[j]] # 0
        <4>1. j = k \/ ret'[Handers[j]] = ret[Handers[j]]
              BY <1>0, <2>1, Positions
        <4>2. ret'[Handers[k]] = started
              BY <1>0, <2>1, Positions
        <4>3. IF j = k THEN started = 1 ELSE ret[Handers[j]] # 0
              BY <2>1, <3>1 DEF OwnInv, Boot, Unstarted
        <4> QED
            BY <4>1, <4>2, <4>3
      <3>2. \A j \in 1..Len(Handers) : ~Reached(j) => ldr[Handers[j]].pc = "none"
            BY DEF OwnInv, Boot, Unstarted
      <3> QED
          BY <1>1, <2>1, <2>2, <3>1, <3>2 DEF Unstarted, HasPath
    <2>4. JoinedDone' /\ SlotsWhole'
          BY <2>1, <2>2 DEF JoinedDone, SlotsWhole
    <2> QED
        BY <1>3, <1>4, <2>2, <2>3, <2>4 DEF Boot
  <1>6. CASE MainSpawned
    <2>1. /\ main.pc = "spawn" /\ main.k > Len(Handers) /\ main'.pc = "join" /\ main'.k = 1
          /\ syncRet' = syncRet /\ syncRet = 1 /\ ret' = ret
          BY <1>6, <1>a DEF MainSpawned, OwnInv, JoinInv, ArgsPhase, argVars
    <2>2. \A j \in 1..Len(Handers) : Reached(j) /\ Reached(j)' /\ ~Joined(j)'
          BY <1>0, <2>1 DEF Reached, Joined
    <2>3. Unstarted'
          BY <1>1, <2>1, <2>2 DEF OwnInv, Boot, Unstarted, HasPath
    <2>4. JoinedDone' /\ SlotsWhole'
          BY <2>1, <2>2 DEF JoinedDone, SlotsWhole
    <2> QED
        BY <1>3, <1>4, <2>2, <2>3, <2>4 DEF Boot
  <1>7. CASE MainJoin \/ MainJoined \/ MainStartCheck
    <2>1. /\ main.pc \in {"join", "check"} /\ main'.pc \in {"join", "check", "serving"}
          /\ ret' = ret
          BY <1>0, <1>7 DEF MainJoin, MainJoined, MainStartCheck, argVars
    <2>2. \A j \in 1..Len(Handers) : Reached(j) /\ Reached(j)'
          BY <2>1 DEF Reached
    <2>3. Unstarted'
          BY <1>1, <2>1, <2>2 DEF OwnInv, Boot, Unstarted, HasPath
    <2>4. \A j \in 1..Len(Handers) : HasPath(Handers[j]) /\ ldr[Handers[j]].pc = "none"
                                      => ret[Handers[j]] # 0
          BY <2>1, <2>2 DEF OwnInv, Boot, Unstarted
    <2>5. JoinedDone'
      <3> SUFFICES ASSUME NEW j \in 1..Len(Handers), Joined(j)', HasPath(Handers[j])
                   PROVE  ldr[Handers[j]].pc = "done"
          BY <1>1 DEF JoinedDone, HasPath
      <3>1. CASE Joined(j)
            BY <3>1 DEF OwnInv, Boot, JoinedDone
      <3>2. CASE ~Joined(j)
        <4>1. CASE MainJoined
              BY <1>0, <3>2, <4>1 DEF MainJoined, Joined
        <4>2. CASE MainStartCheck
          <5>1. syncRet' = syncRet /\ main'.pc # "join"
                BY <1>0, <4>2 DEF MainStartCheck
          <5> QED
              BY <3>2, <5>1 DEF Joined
        <4>3. CASE MainJoin
          <5>1. /\ main.pc = "join" /\ syncRet = 1
                /\ ldr[Handers[main.k]].pc \in {"none", "done"}
                BY <4>3, <1>a DEF MainJoin, OwnInv, JoinInv, ArgsPhase
          <5>2. \/ syncRet' = -1 /\ main'.pc = "check"
                \/ /\ ret[Handers[main.k]] = 0 /\ syncRet' = 1
                   /\ main'.k = main.k + 1 /\ main'.pc = "join"
                BY <1>0, <4>3, <5>1 DEF MainJoin
          <5>3. ret[Handers[main.k]] = 0 /\ j = main.k
                BY <1>0, <3>2, <5>1, <5>2 DEF Joined
          <5> QED
              BY <2>4, <5>1, <5>3
        <4> QED
            BY <1>7, <4>1, <4>2, <4>3
      <3> QED
          BY <3>1, <3>2
    <2>6. SlotsWhole'
      <3> SUFFICES ASSUME syncRet' = 0, NEW d \in Dict, NEW i \in 0..1, dicts[d][i] # Null
                   PROVE  obj[d][dicts[d][i]].st \in Whole
          BY <1>1 DEF SlotsWhole
      <3>1. HasPath(d)
            BY <1>0 DEF TypeInv, PathInv
      <3>2. PICK j \in 1..Len(Handers) : Handers[j] = d
            BY Positions
      <3>3. ldr[d].pc = "done"
            BY <1>1, <2>5, <3>1, <3>2 DEF JoinedDone, Joined, HasPath
      <3>4. LoaderKeeps(d)
            BY <1>2 DEF OwnInv, Boot, LoaderOwns
      <3>5. i = cur_index[d] \/ i = 1 - cur_index[d]
            BY <1>0
      <3> QED
          BY <3>3, <3>4, <3>5 DEF LoaderKeeps, Served, Cur
    <2> QED
        BY <1>3, <1>4, <2>2, <2>3, <2>5, <2>6 DEF Boot
  <1> QED
      BY <1>5, <1>6, <1>7 DEF MainStep

\* main keeps OwnInv: it starts the checker with nothing in its hands.
LEMMA OwnMain == OwnInv /\ MainStep => OwnInv'
  <1> SUFFICES ASSUME OwnInv, MainStep PROVE OwnInv'
      OBVIOUS
  <1>0. TypeInv /\ JoinInv' /\ SlotInv'
        BY JoinMain, SlotOthers DEF OwnInv, SlotInv
  <1>1. Boot' /\ SlotsWhole'
        BY OwnSpawn, OwnMainRest
  <1>2. CASE main'.pc # "serving"
        BY <1>0, <1>1, <1>2, HoldBeforeServing DEF OwnInv, SlotInv
  <1>3. CASE main'.pc = "serving"
    <2>1. ck'.pc = "visit" /\ rd' = rd /\ main.pc # "serving"
          BY <1>0, <1>3 DEF MainStep, MainSpawn, MainStore, MainSpawned, MainJoin,
             MainJoined, MainStartCheck, TypeInv, TypeOK, MainType, CkRec
    <2>2. \A r \in Reader : rd'[r].pc = "idle"
          BY <2>1 DEF OwnInv, SlotInv, BeforeServing
    <2>3. Hold'
          BY <1>1, <2>1, <2>2 DEF Hold, SwitchSlot, ReadersWhole, CheckerOwns, Filling
    <2> QED
        BY <1>0, <1>1, <2>3 DEF OwnInv
  <1> QED
      BY <1>2, <1>3

\* A loader of a start-up that goes on fills the object in the slot.
LEMMA OwnLoad ==
    ASSUME OwnInv, NEW d \in Dict, LoaderStep(d), main.pc # "serving"
    PROVE  LoaderKeeps(d)'
  <1>0. /\ TypeInv /\ LoaderKeeps(d) /\ ldr[d] \in LdrRec /\ ldr \in [Dict -> LdrRec]
        /\ obj \in [Dict -> [Obj -> ObjRec]] /\ HasPath(d)
        /\ UNCHANGED <<dicts, cur_index>>
        BY DEF OwnInv, Boot, LoaderOwns, SlotInv, TypeInv, TypeOK, PathInv, LoaderStep,
           LoaderBegin, LoaderStamp, LoaderOpen, LoaderRead, LoaderReport, dictVars
  <1>1. ldr[d].pc # "none"
        BY DEF LoaderStep, LoaderBegin, LoaderStamp, LoaderOpen, LoaderRead, LoaderReport
  <1>2. Cur(d) \in Obj
    <2>1. PICK j \in 1..Len(Handers) : Handers[j] = d
          BY Positions
    <2>2. Reached(j)
          BY <1>1, <2>1 DEF OwnInv, Boot, Unstarted
    <2>3. Cur(d) # Null
          BY <1>0, <2>1, <2>2 DEF OwnInv, Boot, Filled
    <2> QED
        BY <1>0, <2>3, CurType
  <1>3. ASSUME NEW s \in {"loading", "loaded", "failed"},
               ldr'[d].o = Cur(d), obj'[d][Cur(d)].st = s,
               ldr'[d].pc \in {"reading", "spinning", s}
        PROVE  LoaderKeeps(d)'
        BY <1>0, <1>3 DEF LoaderKeeps, Loading, Served, Cur
  <1>4. CASE LoaderBegin(d)
    <2>1. /\ ldr[d].pc = "ready"
          /\ \/ ldr' = ldr
             \/ ldr' = [ldr EXCEPT ![d] = [ldr[d] EXCEPT !.pc = "stamp", !.o = Cur(d),
                                             !.seen = FileOf(d).kind # "absent"]]
          BY <1>2, <1>4, ObjAssumption DEF LoaderBegin, Terminate
    <2>2. ldr'[d].pc = "ready" \/ (ldr'[d].pc = "stamp" /\ ldr'[d].o = Cur(d))
          BY <1>0, <2>1 DEF LdrRec
    <2> QED
        BY <1>0, <2>2 DEF LoaderKeeps, Loading, Cur
  <1>5. CASE LoaderStamp(d)
    <2>1. ldr' = ldr \/ ldr' = [ldr EXCEPT ![d].pc = "open"]
          BY <1>5 DEF LoaderStamp, Terminate
    <2>2. ldr[d].pc = "stamp" /\ ldr'[d].pc \in {"stamp", "open"} /\ ldr'[d].o = ldr[d].o
          BY <1>0, <1>5, <2>1 DEF LoaderStamp, LdrRec
    <2> QED
        BY <1>0, <2>2 DEF LoaderKeeps, Loading, Cur
  <1>6. CASE LoaderOpen(d)
    <2>1. ldr[d].pc = "open" /\ ldr[d].o = Cur(d)
          BY <1>0, <1>6 DEF LoaderOpen, LoaderKeeps, Loading
    <2>2. \/ ldr' = ldr /\ obj' = obj
          \/ /\ obj' = [obj EXCEPT ![d][Cur(d)].st = "failed"]
             /\ ldr' = [ldr EXCEPT ![d].pc = "failed"]
          \/ /\ obj' = [obj EXCEPT ![d][Cur(d)].st = "loading"]
             /\ \E x \in {"reading", "spinning"} :
                  ldr' = [ldr EXCEPT ![d].pc = x, ![d].ver = FileOf(d).ver]
          BY <1>6, <2>1 DEF LoaderOpen, Terminate
    <2>3. CASE ldr' = ldr /\ obj' = obj
          BY <1>0, <2>1, <2>3 DEF LoaderKeeps, Loading, Cur
    <2>4. CASE /\ obj' = [obj EXCEPT ![d][Cur(d)].st = "failed"]
               /\ ldr' = [ldr EXCEPT ![d].pc = "failed"]
      <3>1. obj'[d][Cur(d)].st = "failed"
            BY <1>0, <1>2, <2>4 DEF ObjRec
      <3>2. ldr'[d].pc = "failed" /\ ldr'[d].o = Cur(d)
            BY <1>0, <2>1, <2>4 DEF LdrRec
      <3> QED
          BY <1>3, <3>1, <3>2
    <2>5. CASE /\ obj' = [obj EXCEPT ![d][Cur(d)].st = "loading"]
               /\ \E x \in {"reading", "spinning"} :
                    ldr' = [ldr EXCEPT ![d].pc = x, ![d].ver = FileOf(d).ver]
      <3>1. obj'[d][Cur(d)].st = "loading"
            BY <1>0, <1>2, <2>5 DEF ObjRec
      <3>2. ldr'[d].pc \in {"reading", "spinning"} /\ ldr'[d].o = Cur(d)
            BY <1>0, <2>1, <2>5 DEF LdrRec
      <3> QED
          BY <1>3, <3>1, <3>2
    <2> QED
        BY <2>2, <2>3, <2>4, <2>5
  <1>7. CASE LoaderRead(d)
    <2>1. ldr[d].pc = "reading" /\ ldr[d].o = Cur(d)
          BY <1>0, <1>7 DEF LoaderRead, LoaderKeeps, Loading
    <2>2. \/ ldr' = ldr /\ obj' = obj
          \/ /\ \E v : obj' = [obj EXCEPT ![d][Cur(d)] = [st |-> "loaded", ver |-> v]]
             /\ ldr' = [ldr EXCEPT ![d].pc = "loaded"]
          \/ ldr' = [ldr EXCEPT ![d].pc = "spinning"] /\ obj' = obj
          BY <1>7, <2>1 DEF LoaderRead, Terminate
    <2>3. CASE ldr' = ldr /\ obj' = obj
          BY <1>0, <2>1, <2>3 DEF LoaderKeeps, Loading, Cur
    <2>5. CASE ldr' = [ldr EXCEPT ![d].pc = "spinning"] /\ obj' = obj
      <3>1. ldr'[d].pc = "spinning"
            BY <1>0, <2>5 DEF LdrRec
      <3> QED
          BY <1>0, <3>1 DEF LoaderKeeps, Loading, Cur
    <2>4. CASE /\ ~(ldr' = ldr /\ obj' = obj)
               /\ ~(ldr' = [ldr EXCEPT ![d].pc = "spinning"] /\ obj' = obj)
      <3>1. PICK v : obj' = [obj EXCEPT ![d][Cur(d)] = [st |-> "loaded", ver |-> v]]
            BY <2>2, <2>4
      <3>2. obj'[d][Cur(d)].st = "loaded"
            BY <1>0, <1>2, <3>1
      <3>3. ldr'[d].pc = "loaded" /\ ldr'[d].o = Cur(d)
            BY <1>0, <2>1, <2>2, <2>4 DEF LdrRec
      <3> QED
          BY <1>3, <3>2, <3>3
    <2> QED
        BY <2>3, <2>4, <2>5
  <1>8. CASE LoaderReport(d)
    <2>1. /\ ldr[d].pc \in {"loaded", "failed"} /\ obj' = obj
          /\ ldr' = ldr \/ ldr' = [ldr EXCEPT ![d] = [pc |-> "done", o |-> Null,
                                                     seen |-> FALSE, ver |-> 0]]
          BY <1>8 DEF LoaderReport
    <2>2. ldr'[d] = ldr[d] \/ ldr'[d].pc = "done"
          BY <1>0, <2>1
    <2>3. Served(d)' = Served(d) /\ Cur(d)' = Cur(d)
          BY <1>0, <2>1 DEF Served, Cur
    <2> QED
        BY <1>0, <2>1, <2>2, <2>3 DEF LoaderKeeps, Loading, Whole
  <1> QED
      BY <1>4, <1>5, <1>6, <1>7, <1>8 DEF LoaderStep

\* A loader writes its own record, its own object and its own verdict.
LEMMA LoaderFrame ==
    ASSUME TypeInv, NEW d \in Dict, LoaderStep(d)
    PROVE  /\ UNCHANGED <<file, dicts, cur_index, age, startVars, argsLive, ck, nap, rd>>
           /\ Running(d) /\ HasPath(d)
           /\ \A e \in Dict \ {d} : /\ ldr'[e] = ldr[e] /\ obj'[e] = obj[e]
                                    /\ ret'[e] = ret[e] /\ modify_time'[e] = modify_time[e]
           /\ ldr'[d].pc # "none"
  <1> USE DEF dictVars, argVars
  <1>0. /\ ldr \in [Dict -> LdrRec] /\ obj \in [Dict -> [Obj -> ObjRec]]
        /\ ret \in [Dict -> {-1, 0, 1}] /\ modify_time \in [Dict -> Nat]
        BY DEF TypeInv, TypeOK, MainType, SlotType
  <1>1. /\ UNCHANGED <<file, dicts, cur_index, age, startVars, argsLive, ck, nap, rd>>
        /\ Running(d) /\ HasPath(d)
        BY DEF TypeInv, PathInv, LoaderStep, LoaderBegin, LoaderStamp, LoaderOpen,
           LoaderRead, LoaderReport, Running
  <1>2. PICK x : x.pc # "none" /\ ldr' = [ldr EXCEPT ![d] = x]
    <2>1. CASE LoaderBegin(d)
      <3>1. \/ ldr' = ldr /\ ldr[d].pc = "ready"
            \/ ldr' = [ldr EXCEPT ![d] = [ldr[d] EXCEPT !.pc = "failed"]]
            \/ ldr' = [ldr EXCEPT ![d] = [ldr[d] EXCEPT !.pc = "stamp", !.o = Cur(d),
                                             !.seen = FileOf(d).kind # "absent"]]
            BY <2>1 DEF LoaderBegin, Terminate
      <3>2. ldr = [ldr EXCEPT ![d] = ldr[d]]
            BY <1>0
      <3>3. ldr[d] \in LdrRec
            BY <1>0
      <3>4. [ldr[d] EXCEPT !.pc = "failed"].pc = "failed"
            BY <3>3 DEF LdrRec
      <3>5. [ldr[d] EXCEPT !.pc = "stamp", !.o = Cur(d),
                           !.seen = FileOf(d).kind # "absent"].pc = "stamp"
            BY <3>3 DEF LdrRec
      <3>6. CASE ldr' = ldr /\ ldr[d].pc = "ready"
            BY <3>2, <3>6
      <3>7. CASE ldr' = [ldr EXCEPT ![d] = [ldr[d] EXCEPT !.pc = "failed"]]
            BY <3>4, <3>7
      <3>8. CASE ldr' = [ldr EXCEPT ![d] = [ldr[d] EXCEPT !.pc = "stamp", !.o = Cur(d),
                                             !.seen = FileOf(d).kind # "absent"]]
            BY <3>5, <3>8
      <3> QED
          BY <3>1, <3>6, <3>7, <3>8
    <2>2. CASE LoaderStamp(d)
          BY <1>0, <2>2 DEF LoaderStamp, LdrRec, Terminate
    <2>3. CASE LoaderOpen(d)
          BY <1>0, <2>3 DEF LoaderOpen, LdrRec, Terminate
    <2>4. CASE LoaderRead(d)
          BY <1>0, <2>4 DEF LoaderRead, LdrRec, Terminate
    <2>5. CASE LoaderReport(d)
          BY <1>0, <2>5 DEF LoaderReport, LdrRec
    <2> QED
        BY <2>1, <2>2, <2>3, <2>4, <2>5 DEF LoaderStep
  <1>3. obj' = obj \/ \E o, y : obj' = [obj EXCEPT ![d][o] = y]
        BY DEF LoaderStep, LoaderBegin, LoaderStamp, LoaderOpen, LoaderRead,
           LoaderReport, Terminate
  <1>4. ret' = ret \/ \E y : ret' = [ret EXCEPT ![d] = y]
        BY DEF LoaderStep, LoaderBegin, LoaderStamp, LoaderOpen, LoaderRead, LoaderReport
  <1>5. modify_time' = modify_time \/ \E y : modify_time' = [modify_time EXCEPT ![d] = y]
        BY DEF LoaderStep, LoaderBegin, LoaderStamp, LoaderOpen, LoaderRead,
           LoaderReport, Terminate
  <1>6. \A e \in Dict \ {d} : obj'[e] = obj[e]
        BY <1>0, <1>3
  <1>7. \A e \in Dict \ {d} : ret'[e] = ret[e]
        BY <1>0, <1>4
  <1>8. \A e \in Dict \ {d} : modify_time'[e] = modify_time[e]
        BY <1>0, <1>5
  <1>9. (\A e \in Dict \ {d} : ldr'[e] = ldr[e]) /\ ldr'[d].pc # "none"
        BY <1>0, <1>2
  <1> QED
      BY <1>1, <1>6, <1>7, <1>8, <1>9

\* A running loader belongs to a start-up that is not over, or that has failed.
LEMMA OwnLoader == \A d \in Dict : OwnInv /\ LoaderStep(d) => OwnInv'
  <1> SUFFICES ASSUME NEW d \in Dict, OwnInv, LoaderStep(d) PROVE OwnInv'
      OBVIOUS
  <1>0. TypeInv /\ JoinInv' /\ SlotInv'
        BY JoinNext, SlotOthers DEF OwnInv, SlotInv, Next
  <1>1. /\ UNCHANGED <<dicts, cur_index, main, started, syncRet, ck, rd>>
        /\ Running(d) /\ HasPath(d)
        /\ \A e \in Dict \ {d} : ldr'[e] = ldr[e] /\ obj'[e] = obj[e] /\ ret'[e] = ret[e]
        /\ ldr'[d].pc # "none"
        BY <1>0, LoaderFrame DEF startVars
  <1>2. syncRet # 0 /\ ldr[d].pc \notin {"none", "done"}
        BY <1>1 DEF OwnInv, JoinInv, AllJoined, Running
  <1>3. \A j \in 1..Len(Handers) : (Reached(j)' <=> Reached(j)) /\ (Joined(j)' <=> Joined(j))
        BY <1>1 DEF Reached, Joined
  <1>4. Filled'
        BY <1>1, <1>3 DEF OwnInv, Boot, Filled, Cur, HasPath
  <1>5. Unstarted'
    <2>1. ASSUME NEW j \in 1..Len(Handers), Handers[j] # d
          PROVE  ldr'[Handers[j]] = ldr[Handers[j]] /\ ret'[Handers[j]] = ret[Handers[j]]
          BY <1>1, <2>1, Positions
    <2>2. ASSUME NEW j \in 1..Len(Handers), Handers[j] = d
          PROVE  Reached(j) /\ ldr'[Handers[j]].pc # "none"
          BY <1>1, <1>2, <2>2 DEF OwnInv, Boot, Unstarted
    <2> QED
        BY <1>1, <1>3, <2>1, <2>2 DEF OwnInv, Boot, Unstarted, HasPath
  <1>6. JoinedDone'
    <2>1. ASSUME NEW j \in 1..Len(Handers), Joined(j), HasPath(Handers[j])
          PROVE  ldr'[Handers[j]].pc = "done"
          BY <1>1, <1>2, <2>1, Positions DEF OwnInv, Boot, JoinedDone
    <2> QED
        BY <1>3, <2>1 DEF JoinedDone, HasPath
  <1>7. LoaderOwns'
    <2>1. ASSUME main.pc # "serving", NEW e \in Dict, e # d
          PROVE  LoaderKeeps(e)'
          BY <1>1, <2>1 DEF OwnInv, Boot, LoaderOwns, LoaderKeeps, Loading, Cur, Served
    <2> QED
        BY <1>1, <2>1, OwnLoad DEF LoaderOwns
  <1>8. Hold'
        BY <1>1, <1>2 DEF OwnInv, Hold, SwitchSlot, SlotsWhole, ReadersWhole, CheckerOwns
  <1> QED
      BY <1>0, <1>4, <1>5, <1>6, <1>7, <1>8 DEF OwnInv, Boot

\* What one step of the checker writes: slots that are not served, and objects
\* that nobody else holds.
LEMMA CheckerSlots ==
    ASSUME TypeInv, CheckStep
    PROVE  \A d \in Dict, i \in 0..1 :
             \/ dicts'[d][i] \in {dicts[d][i], Null}
             \/ CheckAssign /\ d = ck.d /\ i = ck.bg /\ dicts'[d][i] = ck.o
  <1> USE DEF dictVars
  <1>0. /\ dicts \in [Dict -> [0..1 -> Obj \cup {Null}]] /\ ck \in CkRec
        /\ cur_index \in [Dict -> 0..1]
        BY DEF TypeInv, TypeOK, SlotType
  <1>1. \/ dicts' = dicts
        \/ \E e, j : dicts' = [dicts EXCEPT ![e][j] = Null]
        \/ CheckAssign /\ dicts' = [dicts EXCEPT ![ck.d][ck.bg] = ck.o]
        BY DEF CheckStep, CheckVisit, CheckStamp, CompareMtime, CheckOpen, CheckRead,
           CheckAssign, CheckSwitch, CheckSleep, Terminate
  <1>2. ASSUME NEW e, NEW j, dicts' = [dicts EXCEPT ![e][j] = Null]
        PROVE  \A d \in Dict, i \in 0..1 : dicts'[d][i] \in {dicts[d][i], Null}
        BY <1>0, <1>2
  <1>3. ASSUME dicts' = [dicts EXCEPT ![ck.d][ck.bg] = ck.o]
        PROVE  \A d \in Dict, i \in 0..1 :
                 dicts'[d][i] = dicts[d][i] \/ (d = ck.d /\ i = ck.bg /\ dicts'[d][i] = ck.o)
        BY <1>0, <1>3
  <1> QED
      BY <1>1, <1>2, <1>3

\* What others hold is as it was.
Kept == /\ \A d \in Dict, i \in 0..1 :
             dicts[d][i] # Null => obj'[d][dicts[d][i]] = obj[d][dicts[d][i]]
        /\ \A r \in Reader : rd[r].pc = "lookup" =>
             obj'[rd[r].d][rd[r].o] = obj[rd[r].d][rd[r].o]

\* After a start-up that reports success a step of the checker writes no object
\* that is in a slot or in the hands of a reader.
LEMMA CheckerKeeps ==
    ASSUME OwnInv, syncRet = 0, CheckStep
    PROVE  Kept
  <1>0. /\ TypeInv /\ obj \in [Dict -> [Obj -> ObjRec]]
        /\ dicts \in [Dict -> [0..1 -> Obj \cup {Null}]]
        /\ \A r \in Reader : rd[r].pc = "lookup" => rd[r].d \in Dict /\ rd[r].o \in Obj
        BY DEF OwnInv, SlotInv, Hold, ReadersWhole, TypeInv, TypeOK, SlotType, PathInv
  <1>1. CASE obj' = obj
        BY <1>1 DEF Kept
  <1>2. CASE \E x : obj' = [obj EXCEPT ![ck.d][Fresh(ck.d)] = x] /\ Working /\ CanAllocate(ck.d)
    <2>1. PICK x : obj' = [obj EXCEPT ![ck.d][Fresh(ck.d)] = x] /\ Working /\ CanAllocate(ck.d)
          BY <1>2
    <2>2. PICK o : o = Fresh(ck.d)
          OBVIOUS
    <2>3. ck.d \in Dict /\ o \in Obj /\ o \notin Refs(ck.d)
          BY <1>0, <2>1, <2>2 DEF TypeInv, PathInv, Working, Fresh, CanAllocate
    <2>4. /\ \A i \in 0..1 : dicts[ck.d][i] # o
          /\ \A r \in Reader : rd[r].d = ck.d => rd[r].o # o
          BY <2>3 DEF Refs
    <2>5. \A d \in Dict, p \in Obj : obj'[d][p] = obj[d][p] \/ (d = ck.d /\ p = o)
          BY <1>0, <2>1, <2>2, <2>3
    <2> QED
        BY <1>0, <2>4, <2>5 DEF Kept
  <1>3. CASE \E x : obj' = [obj EXCEPT ![ck.d][ck.o] = x] /\ Filling
    <2>1. PICK x : obj' = [obj EXCEPT ![ck.d][ck.o] = x] /\ Filling
          BY <1>3
    <2>2. ck.d \in Dict /\ ck.o \in Obj
          BY <1>0, <2>1 DEF TypeInv, PathInv, Filling
    <2>3. /\ \A i \in 0..1 : dicts[ck.d][i] # ck.o
          /\ \A r \in Reader : rd[r].pc = "lookup" /\ rd[r].d = ck.d => rd[r].o # ck.o
          BY <2>1 DEF OwnInv, Hold, CheckerOwns
    <2>4. \A d \in Dict, p \in Obj : obj'[d][p] = obj[d][p] \/ (d = ck.d /\ p = ck.o)
          BY <1>0, <2>1, <2>2
    <2> QED
        BY <1>0, <2>3, <2>4 DEF Kept
  <1>4. \/ obj' = obj
        \/ \E x : obj' = [obj EXCEPT ![ck.d][Fresh(ck.d)] = x] /\ Working /\ CanAllocate(ck.d)
        \/ \E x : obj' = [obj EXCEPT ![ck.d][ck.o] = x] /\ Filling
    <2>1. CASE CheckVisit \/ CheckAssign \/ CheckSwitch \/ CheckSleep
          BY <2>1 DEF CheckVisit, CheckAssign, CheckSwitch, CheckSleep
    <2>2. CASE CheckStamp
          BY <2>2 DEF CheckStamp, CompareMtime, Terminate, Working
    <2>3. CASE CheckOpen
          BY <2>3 DEF CheckOpen, Terminate, Filling
    <2>4. CASE CheckRead
          BY <2>4 DEF CheckRead, Terminate, Filling
    <2> QED
        BY <2>1, <2>2, <2>3, <2>4 DEF CheckStep
  <1> QED
      BY <1>1, <1>2, <1>3, <1>4

\* The checker keeps a dictionary in every served slot.
LEMMA FilledCheck == OwnInv /\ CheckStep => Filled'
  <1> SUFFICES ASSUME OwnInv, CheckStep, NEW j \in 1..Len(Handers), Reached(j)',
                      HasPath(Handers[j])
               PROVE  Cur(Handers[j])' # Null
      BY DEF Filled, HasPath
  <1>k. PICK d \in Dict : d = Handers[j]
        BY Positions
  <1>0. /\ TypeInv /\ cur_index \in [Dict -> 0..1] /\ SlotInv /\ main' = main
        BY CheckerMoves DEF OwnInv, SlotInv, TypeInv, TypeOK, SlotType
  <1>1. Cur(d) # Null
        BY <1>0, <1>k DEF OwnInv, Boot, Filled, Reached
  <1>2. CASE cur_index'[d] = cur_index[d]
    <2>1. ASSUME dicts'[d][cur_index[d]] # dicts[d][cur_index[d]] PROVE FALSE
      <3>1. \/ CheckVisit /\ cur_index[d] # cur_index[d]
            \/ Working /\ d = ck.d /\ cur_index[d] = ck.bg
            BY <1>0, <2>1, SlotWrites DEF MainSpawn, SlotInv, BeforeServing, CheckStep,
               CheckVisit, CheckStamp, CheckOpen, CheckRead, CheckAssign, CheckSwitch,
               CheckSleep, Next
      <3> QED
          BY <1>0, <3>1 DEF SlotInv, AtWork
    <2> QED
        BY <1>1, <1>2, <1>k, <2>1 DEF Cur
  <1>3. CASE cur_index'[d] # cur_index[d]
    <2>1. ck.pc = "switch" /\ cur_index' = [cur_index EXCEPT ![ck.d] = ck.bg]
          BY <1>0, <1>3, CheckerMoves DEF WorksOn, Enters, GoesOn, Stops, FallsAsleep, WakesUp
    <2>2. d = ck.d /\ cur_index'[d] = ck.bg /\ ck.o \in Obj
          BY <1>0, <1>3, <2>1 DEF TypeInv, PathInv
    <2>3. dicts' = dicts
          BY <2>1 DEF CheckStep, CheckVisit, CheckStamp, CheckOpen, CheckRead,
             CheckAssign, CheckSwitch, CheckSleep, dictVars
    <2>4. dicts[ck.d][ck.bg] = ck.o
          BY <2>1 DEF OwnInv, Hold, SwitchSlot
    <2> QED
        BY <1>k, <2>2, <2>3, <2>4, ObjAssumption DEF Cur
  <1> QED
      BY <1>2, <1>3

\* The object in the checker's hands: new, filled, put into the slot, served.
LEMMA HandsCheck == OwnInv /\ CheckStep => SwitchSlot' /\ CheckerOwns'
  <1> SUFFICES ASSUME OwnInv, CheckStep PROVE SwitchSlot' /\ CheckerOwns'
      OBVIOUS
  <1> USE DEF dictVars
  <1>0. /\ TypeInv /\ ck \in CkRec /\ dicts \in [Dict -> [0..1 -> Obj \cup {Null}]]
        /\ obj \in [Dict -> [Obj -> ObjRec]]
        /\ UNCHANGED <<rd, syncRet>>
        BY CheckerMoves DEF OwnInv, SlotInv, TypeInv, TypeOK, SlotType
  <1>1. ASSUME ck'.pc \notin {"open", "reading", "assign", "switch"}
        PROVE  SwitchSlot' /\ CheckerOwns'
        BY <1>1 DEF SwitchSlot, CheckerOwns, Filling
  <1>2. CASE CheckVisit \/ CheckSwitch \/ CheckSleep
    <2>1. ck'.pc \notin {"open", "reading", "assign", "switch"}
      <3>1. CASE CheckSwitch
            BY <3>1 DEF CheckSwitch, CkOff
      <3>2. CASE CheckVisit \/ CheckSleep
        <4>1. ~Working
              BY <3>2 DEF CheckVisit, CheckSleep, Working
        <4> QED
            BY <1>0, <4>1, CheckerMoves DEF WorksOn, Enters, GoesOn, Stops, FallsAsleep,
               WakesUp, CkOff
      <3> QED
          BY <1>2, <3>1, <3>2
    <2> QED
        BY <1>1, <2>1
  <1>3. CASE CheckStamp
    <2>0. ck.pc = "stamp" /\ ck.d \in Dict /\ HasPath(ck.d)
          BY <1>0, <1>3 DEF CheckStamp, TypeInv, PathInv
    <2>1. \/ ck' = CkOff(ck.k + 1) \/ ck' = ck
          \/ \E m : /\ CanAllocate(ck.d) /\ dicts' = [dicts EXCEPT ![ck.d][ck.bg] = Null]
                    /\ ck' = [ck EXCEPT !.pc = "open", !.o = Fresh(ck.d), !.new_mtime = m]
          BY <1>3 DEF CheckStamp, CompareMtime, Terminate
    <2>2. CASE ck' = CkOff(ck.k + 1) \/ ck' = ck
          BY <1>1, <2>0, <2>2 DEF CkOff
    <2>3. CASE \E m : /\ CanAllocate(ck.d) /\ dicts' = [dicts EXCEPT ![ck.d][ck.bg] = Null]
                      /\ ck' = [ck EXCEPT !.pc = "open", !.o = Fresh(ck.d), !.new_mtime = m]
      <3>1. /\ ck'.pc = "open" /\ ck'.o = Fresh(ck.d) /\ ck'.d = ck.d
            /\ CanAllocate(ck.d) /\ dicts' = [dicts EXCEPT ![ck.d][ck.bg] = Null]
            BY <1>0, <2>3 DEF CkRec
      <3>2. Fresh(ck.d) \in Obj /\ Fresh(ck.d) \notin Refs(ck.d)
            BY <3>1 DEF Fresh, CanAllocate
      <3>3. /\ \A i \in 0..1 : dicts[ck.d][i] # Fresh(ck.d)
            /\ \A r \in Reader : rd[r].d = ck.d => rd[r].o # Fresh(ck.d)
            BY <3>2 DEF Refs
      <3>4. \A i \in 0..1 : dicts'[ck.d][i] = Null \/ dicts'[ck.d][i] = dicts[ck.d][i]
            BY <1>0, <2>0, <3>1
      <3>5. \A i \in 0..1 : dicts'[ck.d][i] # Fresh(ck.d)
            BY <3>2, <3>3, <3>4, ObjAssumption
      <3> QED
          BY <1>0, <3>1, <3>3, <3>5 DEF SwitchSlot, CheckerOwns, Filling
    <2> QED
        BY <2>1, <2>2, <2>3
  <1>4. CASE CheckOpen
    <2>1. /\ ck.pc = "open" /\ dicts' = dicts
          /\ \/ ck' = CkOff(ck.k + 1) \/ ck' = ck
             \/ \E x \in {"reading", "spinning"} :
                  ck' = [ck EXCEPT !.pc = x, !.ver = FileOf(ck.d).ver]
          BY <1>4 DEF CheckOpen, Terminate
    <2>2. CASE ck' = CkOff(ck.k + 1)
          BY <1>1, <2>2 DEF CkOff
    <2>3. CASE ck' # CkOff(ck.k + 1)
      <3>1. ck'.pc \in {"open", "reading", "spinning"} /\ ck'.o = ck.o /\ ck'.d = ck.d
            BY <1>0, <2>1, <2>3 DEF CkRec
      <3> QED
          BY <1>0, <2>1, <3>1 DEF OwnInv, Hold, SwitchSlot, CheckerOwns, Filling
    <2> QED
        BY <2>2, <2>3
  <1>5. CASE CheckRead
    <2>0. ck.pc = "reading" /\ dicts' = dicts /\ ck.d \in Dict /\ ck.o \in Obj
          BY <1>0, <1>5 DEF CheckRead, TypeInv, PathInv
    <2>1. \/ ck' = ck
          \/ /\ \E v : obj' = [obj EXCEPT ![ck.d][ck.o] = [st |-> "loaded", ver |-> v]]
             /\ ck' = [ck EXCEPT !.pc = "assign"]
          \/ ck' = [ck EXCEPT !.pc = "spinning"]
          BY <1>5 DEF CheckRead, Terminate
    <2>4. CASE ck' = [ck EXCEPT !.pc = "spinning"]
      <3>1. ck'.pc = "spinning"
            BY <1>0, <2>4 DEF CkRec
      <3> QED
          BY <1>1, <3>1
    <2>2. CASE ck' = ck
          BY <1>0, <2>0, <2>2 DEF OwnInv, Hold, SwitchSlot, CheckerOwns, Filling
    <2>3. CASE ck' # ck /\ ck' # [ck EXCEPT !.pc = "spinning"]
      <3>1. PICK v : obj' = [obj EXCEPT ![ck.d][ck.o] = [st |-> "loaded", ver |-> v]]
            BY <2>1, <2>3
      <3>2. obj'[ck.d][ck.o].st = "loaded"
            BY <1>0, <2>0, <3>1
      <3>3. ck'.pc = "assign" /\ ck'.o = ck.o /\ ck'.d = ck.d
            BY <1>0, <2>1, <2>3 DEF CkRec
      <3> QED
          BY <1>0, <2>0, <3>2, <3>3 DEF OwnInv, Hold, SwitchSlot, CheckerOwns, Filling
    <2> QED
        BY <2>2, <2>3, <2>4
  <1>6. CASE CheckAssign
    <2>1. /\ ck.pc = "assign" /\ ck.d \in Dict /\ ck.bg \in 0..1 /\ obj' = obj
          /\ dicts' = [dicts EXCEPT ![ck.d][ck.bg] = ck.o] /\ ck' = [ck EXCEPT !.pc = "switch"]
          BY <1>0, <1>6 DEF CheckAssign, TypeInv, PathInv, CkRec
    <2>2. ck'.pc = "switch" /\ ck'.o = ck.o /\ ck'.d = ck.d /\ ck'.bg = ck.bg
          BY <1>0, <2>1 DEF CkRec
    <2>3. dicts'[ck.d][ck.bg] = ck.o
          BY <1>0, <2>1
    <2> QED
        BY <1>0, <2>1, <2>2, <2>3 DEF OwnInv, Hold, SwitchSlot, CheckerOwns, Filling
  <1> QED
      BY <1>2, <1>3, <1>4, <1>5, <1>6 DEF CheckStep

\* The checker keeps OwnInv.
LEMMA OwnCheck == OwnInv /\ CheckStep => OwnInv'
  <1> SUFFICES ASSUME OwnInv, CheckStep PROVE OwnInv'
      OBVIOUS
  <1>0. TypeInv /\ JoinInv' /\ SlotInv'
        BY JoinNext, SlotCheck DEF OwnInv, SlotInv, Next
  <1>1. UNCHANGED <<main, started, syncRet, ret, ldr, rd>>
        BY <1>0, CheckerMoves
  <1>2. main.pc = "serving"
        BY <1>0, CheckerMoves DEF OwnInv, SlotInv, BeforeServing, Working
  <1>3. Filled' /\ SwitchSlot' /\ CheckerOwns'
        BY FilledCheck, HandsCheck
  <1>4. Unstarted' /\ JoinedDone' /\ LoaderOwns'
        BY <1>1, <1>2 DEF OwnInv, Boot, Unstarted, JoinedDone, LoaderOwns, Reached,
           Joined, HasPath
  <1>5. ReadersWhole'
        BY <1>1, CheckerKeeps DEF OwnInv, Hold, ReadersWhole, Kept
  <1>6. SlotsWhole'
    <2> SUFFICES ASSUME syncRet = 0, NEW d \in Dict, NEW i \in 0..1, dicts'[d][i] # Null
                 PROVE  obj'[d][dicts'[d][i]].st \in Whole
        BY <1>1 DEF SlotsWhole
    <2>1. CASE dicts'[d][i] = dicts[d][i]
          BY <2>1, CheckerKeeps DEF OwnInv, Hold, SlotsWhole, Kept
    <2>2. CASE CheckAssign /\ d = ck.d /\ i = ck.bg /\ dicts'[d][i] = ck.o
          BY <2>2 DEF CheckAssign, OwnInv, Hold, CheckerOwns, Whole
    <2> QED
        BY <1>0, <2>1, <2>2, CheckerSlots
  <1> QED
      BY <1>0, <1>3, <1>4, <1>5, <1>6 DEF OwnInv, Boot, Hold

\* A reader takes an object out of a slot and keeps it until it has looked.
LEMMA OwnReader == \A r \in Reader : OwnInv /\ ReaderStep(r) => OwnInv'
  <1> SUFFICES ASSUME NEW r \in Reader, OwnInv, ReaderStep(r) PROVE OwnInv'
      OBVIOUS
  <1>0. TypeInv /\ JoinInv' /\ SlotInv' /\ rd \in [Reader -> RdRec]
        BY JoinNext, SlotReader DEF OwnInv, SlotInv, Next, TypeInv, TypeOK
  <1>1. UNCHANGED <<dicts, cur_index, obj, main, started, syncRet, ret, ldr, ck>>
        BY DEF ReaderStep, GetIndex, GetCopy, Lookup, dictVars, startVars, argVars
  <1>2. \A q \in Reader : rd'[q].pc = "lookup" =>
          \/ rd'[q] = rd[q]
          \/ /\ rd'[q].d = rd[q].d /\ rd[q].d \in Dict /\ rd[q].idx \in 0..1
             /\ rd'[q].o = dicts[rd[q].d][rd[q].idx]
             /\ rd'[q].o \in Obj
    <2>1. CASE GetIndex(r)
      <3>1. PICK d \in Dict : rd' = [rd EXCEPT ![r] =
              [pc |-> "copy", d |-> d, o |-> Null, idx |-> cur_index[d], age |-> 0]]
            BY <2>1 DEF GetIndex
      <3> QED
          BY <1>0, <3>1
    <2>2. CASE GetCopy(r)
      <3>0. /\ rd[r] \in RdRec /\ rd[r].d \in Dict /\ rd[r].idx \in 0..1
            /\ dicts[rd[r].d][rd[r].idx] \in Obj \cup {Null}
            BY <1>0, <2>2 DEF GetCopy, TypeInv, TypeOK, PathInv, RdRec, SlotType
      <3>1. PICK o : o = dicts[rd[r].d][rd[r].idx]
            OBVIOUS
      <3>2. \/ rd' = [rd EXCEPT ![r] = Idle]
            \/ o \in Obj /\ rd' = [rd EXCEPT ![r] = [rd[r] EXCEPT !.pc = "lookup", !.o = o, !.age = 0]]
            BY <2>2, <3>0, <3>1 DEF GetCopy
      <3>3. /\ [rd[r] EXCEPT !.pc = "lookup", !.o = o, !.age = 0].o = o
            /\ [rd[r] EXCEPT !.pc = "lookup", !.o = o, !.age = 0].d = rd[r].d
            BY <3>0 DEF RdRec
      <3>4. CASE rd' = [rd EXCEPT ![r] = Idle]
            BY <1>0, <3>4 DEF Idle
      <3>5. CASE o \in Obj /\ rd' = [rd EXCEPT ![r] = [rd[r] EXCEPT !.pc = "lookup", !.o = o, !.age = 0]]
        <4>1. rd'[r].o = o /\ rd'[r].d = rd[r].d /\ \A q \in Reader \ {r} : rd'[q] = rd[q]
              BY <1>0, <3>3, <3>5
        <4> QED
            BY <3>0, <3>1, <3>5, <4>1
      <3> QED
          BY <3>2, <3>4, <3>5
    <2>3. CASE Lookup(r)
          BY <1>0, <2>3 DEF Lookup, Idle
    <2> QED
        BY <2>1, <2>2, <2>3 DEF ReaderStep
  <1>3. Boot'
        BY <1>1 DEF OwnInv, Boot, Filled, Unstarted, JoinedDone, LoaderOwns, LoaderKeeps,
           Reached, Joined, HasPath, Cur, Served, Loading
  <1>4. SwitchSlot' /\ SlotsWhole'
        BY <1>1 DEF OwnInv, Hold, SwitchSlot, SlotsWhole
  <1>5. ReadersWhole'
        BY <1>1, <1>2, ObjAssumption DEF OwnInv, Hold, ReadersWhole, SlotsWhole
  <1>6. CheckerOwns'
        BY <1>1, <1>2 DEF OwnInv, Hold, CheckerOwns, Filling
  <1> QED
      BY <1>0, <1>3, <1>4, <1>5, <1>6 DEF OwnInv, Hold

\* Files, time and stuttering concern no object.
LEMMA OwnEnv ==
    OwnInv /\ (Tick \/ (\E p \in Path : Write(p)) \/ UNCHANGED vars) => OwnInv'
  <1> SUFFICES ASSUME OwnInv, Tick \/ (\E p \in Path : Write(p)) \/ UNCHANGED vars
               PROVE  OwnInv'
      OBVIOUS
  <1>0. TypeInv /\ JoinInv' /\ SlotInv'
        BY JoinNext, SlotNext DEF OwnInv, SlotInv, Next
  <1>1. UNCHANGED <<dicts, cur_index, obj, main, started, syncRet, ret, ldr, ck>>
        BY DEF Tick, Write, vars, dictVars, startVars, argVars
  <1>2. \A r \in Reader : rd'[r].pc = rd[r].pc /\ rd'[r].d = rd[r].d /\ rd'[r].o = rd[r].o
    <2>1. CASE Tick
          BY <1>0, <2>1 DEF Tick, TypeInv, TypeOK, RdRec
    <2>2. CASE ~Tick
          BY <2>2 DEF Write, vars
    <2> QED
        BY <2>1, <2>2
  <1>3. Boot'
        BY <1>1 DEF OwnInv, Boot, Filled, Unstarted, JoinedDone, LoaderOwns, LoaderKeeps,
           Reached, Joined, HasPath, Cur, Served, Loading
  <1>4. Hold'
        BY <1>1, <1>2 DEF OwnInv, Hold, SwitchSlot, SlotsWhole, ReadersWhole,
           CheckerOwns, Filling
  <1> QED
      BY <1>0, <1>3, <1>4 DEF OwnInv

\* Every step of every thread keeps OwnInv.
LEMMA OwnNext == OwnInv /\ [Next]_vars => OwnInv'
  BY OwnEnv, OwnMain, OwnLoader, OwnCheck, OwnReader DEF Next

\* After a start-up that reports success no GET_DICT yields a dictionary that is
\* still to be filled or being filled (dict_manager.cpp:150-157, 73-83): a loader
\* is joined before anybody reads, the checker fills an object of its own.
THEOREM ReadersGetWholeDicts == Spec => []ReadersSeeWholeDicts
  <1>1. OwnInv => ReadersSeeWholeDicts
        BY DEF OwnInv, Hold, ReadersWhole, ReadersSeeWholeDicts, Whole
  <1> QED
      BY <1>1, OwnInit, OwnNext, PTL DEF Spec

--------------------------------------------------------------------------------
(* Versions: what is loaded is never ahead of the file, nor behind what is      *)
(* served.                                                                      *)

Within(d) == /\ \A o \in Obj : obj[d][o].ver <= FileOf(d).ver
             /\ ldr[d].ver <= FileOf(d).ver
             /\ ck.pc = "reading" /\ ck.d = d => ck.ver <= FileOf(d).ver
VersionsBounded == \A d \in Dict : HasPath(d) => Within(d)
NotOlder(v, w) == v = Mixed \/ v >= w
NewerIsLoaded == syncRet = 0 =>
    /\ ck.pc = "reading" => ck.ver >= Served(ck.d).ver
    /\ ck.pc \in {"assign", "switch"} => NotOlder(obj[ck.d][ck.o].ver, Served(ck.d).ver)
VersionInv == OwnInv /\ VersionsBounded /\ NewerIsLoaded

\* After a start-up that reports success only the checker touches dictionaries.
LEMMA OnlyChecker ==
    ASSUME OwnInv, [Next]_vars, syncRet = 0, ~CheckStep
    PROVE  /\ UNCHANGED <<dicts, cur_index, modify_time, obj, ldr, syncRet>>
           /\ ck' = ck \/ (ck'.pc = "visit" /\ ck'.d = ck.d /\ ck.pc = "off")
  <1>0. TypeInv
        BY DEF OwnInv, SlotInv
  <1>1. ~Starting /\ ~ \E e \in Dict : Running(e)
        BY DEF OwnInv, JoinInv, ArgsPhase, AllJoined
  <1>2. ~MainSpawn /\ ~MainStore /\ ~MainSpawned /\ ~MainJoin /\ ~MainJoined
        BY <1>1 DEF Starting, MainSpawn, MainStore, MainSpawned, MainJoin, MainJoined
  <1>3. ~ \E e \in Dict : LoaderStep(e)
        BY <1>0, <1>1, LoaderFrame
  <1>4. CASE MainStartCheck
    <2>1. ck' = ck \/ ck' = [ck EXCEPT !.pc = "visit"]
          BY <1>4 DEF MainStartCheck
    <2>2. ck.pc = "off"
          BY <1>4 DEF MainStartCheck, OwnInv, SlotInv, BeforeServing
    <2> QED
        BY <1>0, <1>4, <2>1, <2>2 DEF MainStartCheck, dictVars, TypeInv, TypeOK, CkRec
  <1>5. CASE ~MainStartCheck
        BY <1>2, <1>3, <1>5 DEF Next, vars, Write, Tick, MainStep, ReaderStep, GetIndex,
           GetCopy, Lookup, dictVars, startVars
  <1> QED
      BY <1>4, <1>5

\* A served dictionary is left alone by every step but the switch.
LEMMA ServedKept ==
    ASSUME OwnInv, [Next]_vars, syncRet = 0, ~CheckSwitch, NEW d \in Dict, HasPath(d)
    PROVE  Served(d)' = Served(d) /\ Cur(d)' = Cur(d) /\ Cur(d) \in Obj
  <1>0. /\ TypeInv /\ SlotInv /\ cur_index \in [Dict -> 0..1]
        BY DEF OwnInv, SlotInv, TypeInv, TypeOK, SlotType
  <1>1. main.pc \in {"check", "serving"} /\ ~MainSpawn /\ ~ \E e \in Dict : Running(e)
    <2>1. ~Starting
          BY DEF OwnInv, JoinInv, ArgsPhase
    <2> QED
        BY <1>0, <2>1 DEF Starting, TypeInv, TypeOK, MainType, MainSpawn, OwnInv,
           JoinInv, AllJoined
  <1>2. Cur(d) \in Obj
    <2>1. PICK j \in 1..Len(Handers) : Handers[j] = d
          BY Positions
    <2>2. Cur(d) # Null
          BY <1>1, <2>1 DEF OwnInv, Boot, Filled, Reached
    <2> QED
        BY <1>0, <2>2, CurType
  <1>3. CASE CheckStep
    <2>1. cur_index' = cur_index
          BY <1>3 DEF CheckStep, CheckVisit, CheckStamp, CheckOpen, CheckRead,
             CheckAssign, CheckSleep, dictVars
    <2>2. dicts'[d][cur_index[d]] = dicts[d][cur_index[d]]
      <3>1. SUFFICES ASSUME dicts'[d][cur_index[d]] # dicts[d][cur_index[d]] PROVE FALSE
            OBVIOUS
      <3>2. Working /\ d = ck.d /\ cur_index[d] = ck.bg
            BY <1>0, <1>1, <3>1, SlotWrites
      <3> QED
          BY <1>0, <3>2 DEF SlotInv, AtWork
    <2>3. Kept
          BY <1>3, CheckerKeeps
    <2> QED
        BY <1>0, <1>2, <2>1, <2>2, <2>3, ObjAssumption DEF Kept, Served, Cur
  <1>4. CASE ~CheckStep
        BY <1>2, <1>4, OnlyChecker DEF Served, Cur
  <1> QED
      BY <1>3, <1>4

\* Versions are numbers, and a file's only grows.
LEMMA VersionTypes ==
    ASSUME TypeInv, NEW d \in Dict, HasPath(d)
    PROVE  /\ FileOf(d).ver \in Nat /\ ldr[d].ver \in Nat /\ ck.ver \in Nat
           /\ \A o \in Obj : obj[d][o].ver \in Nat
  <1>1. FileOf(d).ver \in Nat
        BY Values, Constants
  <1>2. ldr[d].ver \in Nat /\ ck.ver \in Nat
        BY Constants DEF TypeInv, TypeOK, LdrRec, CkRec
  <1>3. ASSUME NEW o \in Obj PROVE obj[d][o].ver \in Nat
        BY Constants DEF TypeInv, TypeOK, ObjRec
  <1> QED
      BY <1>1, <1>2, <1>3

\* A write raises the version and the modification time of one file.
LEMMA WriteGrows ==
    ASSUME TypeInv, NEW p \in Path, Write(p), NEW d \in Dict, HasPath(d)
    PROVE  \/ FileOf(d)' = FileOf(d)
           \/ \E s \in Deltas : /\ FileOf(d)'.ver = FileOf(d).ver + 1
                                /\ FileOf(d)'.mtime = FileOf(d).mtime + s
  <1>1. PICK x \in Kinds, s \in Deltas :
          file' = [file EXCEPT ![p] = [kind |-> x, ver |-> @.ver + 1, mtime |-> @.mtime + s]]
        BY DEF Write
  <1>2. file \in [Path -> FileRec] /\ PathOf[d] \in Path
        BY Constants DEF TypeInv, TypeOK
  <1>3. PathOf[d] # p => file'[PathOf[d]] = file[PathOf[d]]
        BY <1>1, <1>2
  <1>4. file'[p].ver = file[p].ver + 1 /\ file'[p].mtime = file[p].mtime + s
        BY <1>1, <1>2
  <1> QED
      BY <1>3, <1>4 DEF FileOf

\* A load yields at most the version that was opened.
LEMMA ContentsBound ==
    ASSUME NEW d, NEW w \in Nat, NEW v \in Contents(d, w)
    PROVE  v \in Nat /\ v <= w /\ (v = w \/ v = Mixed)
  BY DEF Contents, Mixed

\* Empty at first.
LEMMA VersionInit == Init => VersionInv
  <1> SUFFICES ASSUME Init PROVE VersionInv
      OBVIOUS
  <1>1. OwnInv /\ TypeInv
        BY OwnInit, TypeInit
  <1>2. /\ ck.ver = 0 /\ syncRet = 1 /\ \A d \in Dict : ldr[d].ver = 0
        /\ \A d \in Dict, o \in Obj : obj[d][o].ver = 0
        BY DEF Init, NewObj, Mixed
  <1>3. \A d \in Dict : HasPath(d) => FileOf(d).ver \in Nat
        BY <1>1, VersionTypes
  <1> QED
      BY <1>1, <1>2, <1>3 DEF VersionInv, VersionsBounded, Within, NewerIsLoaded

\* Files grow; everything else concerns no version.
LEMMA WithinEnv ==
    ASSUME VersionInv, NEW d \in Dict, HasPath(d),
           Tick \/ (\E p \in Path : Write(p)) \/ (\E r \in Reader : ReaderStep(r))
             \/ UNCHANGED vars \/ (MainStep /\ ~MainSpawn)
    PROVE  Within(d)'
  <1>0. TypeInv /\ Within(d)
        BY DEF VersionInv, OwnInv, SlotInv, VersionsBounded
  <1>1. UNCHANGED <<obj, ldr>> /\ (ck' = ck \/ ck'.pc = "visit")
        BY <1>0 DEF Tick, Write, ReaderStep, GetIndex, GetCopy, Lookup, vars, MainStep,
           MainStore, MainSpawned, MainJoin, MainJoined, MainStartCheck, TypeInv, TypeOK, CkRec
  <1>2. FileOf(d)' = FileOf(d) \/ FileOf(d)'.ver = FileOf(d).ver + 1
    <2>1. CASE \E p \in Path : Write(p)
          BY <1>0, <2>1, WriteGrows
    <2>2. CASE ~ \E p \in Path : Write(p)
          BY <2>2 DEF Tick, ReaderStep, GetIndex, GetCopy, Lookup, vars, MainStep,
             MainStore, MainSpawned, MainJoin, MainJoined, MainStartCheck, FileOf
    <2> QED
        BY <2>1, <2>2
  <1>3. /\ FileOf(d).ver \in Nat /\ ldr[d].ver \in Nat /\ ck.ver \in Nat
        /\ \A o \in Obj : obj[d][o].ver \in Nat
        BY <1>0, VersionTypes
  <1>4. FileOf(d)'.ver \in Nat /\ FileOf(d)'.ver >= FileOf(d).ver
        BY <1>2, <1>3
  <1>5. \A x \in Nat : x <= FileOf(d).ver => x <= FileOf(d)'.ver
        BY <1>3, <1>4
  <1> HIDE DEF FileOf
  <1> QED
      BY <1>0, <1>1, <1>3, <1>5 DEF Within

\* A new object is empty.
LEMMA WithinSpawn ==
    ASSUME VersionInv, NEW d \in Dict, HasPath(d), MainSpawn
    PROVE  Within(d)'
  <1>0. /\ TypeInv /\ Within(d) /\ obj \in [Dict -> [Obj -> ObjRec]]
        /\ ldr \in [Dict -> LdrRec] /\ FileOf(d).ver \in Nat
        BY VersionTypes DEF VersionInv, OwnInv, SlotInv, VersionsBounded, TypeInv, TypeOK
  <1>1. /\ ck' = ck /\ FileOf(d)' = FileOf(d)
        /\ ldr' = ldr \/ \E e : ldr' = [ldr EXCEPT ![e].pc = "ready"]
        /\ obj' = obj \/ \E e, o : obj' = [obj EXCEPT ![e][o] = NewObj]
        BY DEF MainSpawn, FileOf
  <1>2. ldr'[d].ver = ldr[d].ver
        BY <1>0, <1>1 DEF LdrRec
  <1>3. \A o \in Obj : obj'[d][o] = obj[d][o] \/ obj'[d][o] = NewObj
        BY <1>0, <1>1
  <1>4. \A o \in Obj : obj'[d][o].ver <= FileOf(d).ver
        BY <1>0, <1>3 DEF Within, NewObj, Mixed
  <1> QED
      BY <1>0, <1>1, <1>2, <1>4 DEF Within

\* A loader opens the file as it is, and reads no later version.
LEMMA WithinLoader ==
    ASSUME VersionInv, NEW d \in Dict, HasPath(d), NEW e \in Dict, LoaderStep(e)
    PROVE  Within(d)'
  <1>0. /\ TypeInv /\ Within(d) /\ obj \in [Dict -> [Obj -> ObjRec]]
        /\ ldr \in [Dict -> LdrRec] /\ FileOf(d).ver \in Nat /\ ldr[d].ver \in Nat
        BY VersionTypes DEF VersionInv, OwnInv, SlotInv, VersionsBounded, TypeInv, TypeOK
  <1>1. /\ ck' = ck /\ FileOf(d)' = FileOf(d)
        /\ e # d => ldr'[d] = ldr[d] /\ obj'[d] = obj[d]
        BY <1>0, LoaderFrame DEF FileOf
  <1>2. CASE e # d
        BY <1>0, <1>1, <1>2 DEF Within
  <1>3. CASE e = d
    <2>1. ldr'[d].ver \in {ldr[d].ver, 0, FileOf(d).ver}
      <3>1. CASE LoaderBegin(d)
        <4>1. \/ ldr' = ldr
              \/ ldr' = [ldr EXCEPT ![d] = [ldr[d] EXCEPT !.pc = "failed"]]
              \/ ldr' = [ldr EXCEPT ![d] = [ldr[d] EXCEPT !.pc = "stamp", !.o = Cur(d),
                                               !.seen = FileOf(d).kind # "absent"]]
              BY <3>1 DEF LoaderBegin, Terminate
        <4> QED
            BY <1>0, <4>1 DEF LdrRec
      <3>2. CASE LoaderStamp(d)
            BY <1>0, <3>2 DEF LoaderStamp, LdrRec, Terminate
      <3>3. CASE LoaderOpen(d)
            BY <1>0, <3>3 DEF LoaderOpen, LdrRec, Terminate
      <3>4. CASE LoaderRead(d)
            BY <1>0, <3>4 DEF LoaderRead, LdrRec, Terminate
      <3>5. CASE LoaderReport(d)
            BY <1>0, <3>5 DEF LoaderReport, LdrRec
      <3> QED
          BY <1>3, <3>1, <3>2, <3>3, <3>4, <3>5 DEF LoaderStep
    <2>2. \A o \in Obj : obj'[d][o].ver <= FileOf(d).ver
      <3>1. CASE LoaderBegin(d) \/ LoaderStamp(d) \/ LoaderReport(d)
            BY <1>0, <3>1 DEF LoaderBegin, LoaderStamp, LoaderReport, Within
      <3>2. CASE LoaderOpen(d)
        <4>1. obj' = obj \/ \E s : obj' = [obj EXCEPT ![d][ldr[d].o].st = s]
              BY <3>2 DEF LoaderOpen, Terminate
        <4>2. CASE obj' = obj
              BY <1>0, <4>2 DEF Within
        <4>3. CASE obj' # obj
          <5>1. PICK s : obj' = [obj EXCEPT ![d][ldr[d].o].st = s]
                BY <4>1, <4>3
          <5>2. \A o \in Obj : obj'[d][o].ver = obj[d][o].ver
                BY <1>0, <5>1 DEF ObjRec
          <5> QED
              BY <1>0, <5>2 DEF Within
        <4> QED
            BY <4>2, <4>3
      <3>3. CASE LoaderRead(d)
        <4>1. \/ obj' = obj
              \/ \E v \in Contents(d, ldr[d].ver) : \E w : /\ w \in {v, Mixed}
                                                           /\ obj' = [obj EXCEPT ![d][ldr[d].o] = [st |-> "loaded", ver |-> w]]
              BY <3>3 DEF LoaderRead, Terminate
        <4>2. CASE obj' = obj
              BY <1>0, <4>2 DEF Within
        <4>3. CASE obj' # obj
          <5>0. PICK v \in Contents(d, ldr[d].ver) : \E w : /\ w \in {v, Mixed}
                   /\ obj' = [obj EXCEPT ![d][ldr[d].o] = [st |-> "loaded", ver |-> w]]
                BY <4>1, <4>3
          <5>1. PICK w : /\ w \in {v, Mixed}
                         /\ obj' = [obj EXCEPT ![d][ldr[d].o] = [st |-> "loaded", ver |-> w]]
                BY <5>0
          <5>2. w \in Nat /\ w <= FileOf(d).ver
            <6>1. v \in Nat /\ v <= ldr[d].ver /\ ldr[d].ver <= FileOf(d).ver
                  BY <1>0, ContentsBound DEF Within
            <6> QED
                BY <1>0, <5>1, <6>1 DEF Mixed
          <5>3. \A o \in Obj : obj'[d][o] = obj[d][o] \/ obj'[d][o].ver = w
                BY <1>0, <5>1
          <5> QED
              BY <1>0, <5>2, <5>3 DEF Within
        <4> QED
            BY <4>2, <4>3
      <3> QED
          BY <1>3, <3>1, <3>2, <3>3 DEF LoaderStep
    <2> QED
        BY <1>0, <1>1, <2>1, <2>2 DEF Within
  <1> QED
      BY <1>2, <1>3

\* The checker gets to read by opening the file.
LEMMA ReadingFrom ==
    ASSUME TypeInv, CheckStep, ck'.pc = "reading", ck' # ck
    PROVE  /\ CheckOpen /\ ck.pc = "open" /\ ~CannotOpen(ck.d)
           /\ ck'.d = ck.d /\ ck'.o = ck.o /\ ck'.new_mtime = ck.new_mtime
           /\ ck'.ver = FileOf(ck.d).ver
  <1>0. ck \in CkRec
        BY DEF TypeInv, TypeOK
  <1>1. ~CheckVisit /\ ~CheckSwitch /\ ~CheckSleep
    <2>1. ~CheckSwitch
          BY DEF CheckSwitch, CkOff
    <2>2. ASSUME CheckVisit \/ CheckSleep PROVE FALSE
      <3>1. ~Working
            BY <2>2 DEF CheckVisit, CheckSleep, Working
      <3> QED
          BY <3>1, CheckerMoves DEF WorksOn, Enters, GoesOn, Stops, FallsAsleep, WakesUp, CkOff
    <2> QED
        BY <2>1, <2>2
  <1>2. ~CheckRead /\ ~CheckAssign
        BY <1>0 DEF CheckRead, CheckAssign, Terminate, CkRec
  <1>3. ~CheckStamp
    <2>1. SUFFICES ASSUME CheckStamp PROVE FALSE
          OBVIOUS
    <2>2. \/ ck' = CkOff(ck.k + 1) \/ ck' = ck
          \/ \E m : ck' = [ck EXCEPT !.pc = "open", !.o = Fresh(ck.d), !.new_mtime = m]
          BY <2>1 DEF CheckStamp, CompareMtime, Terminate
    <2>3. ck'.pc # "reading" \/ ck' = ck
      <3>1. CkOff(ck.k + 1).pc = "visit"
            BY DEF CkOff
      <3>2. \A m : [ck EXCEPT !.pc = "open", !.o = Fresh(ck.d), !.new_mtime = m].pc = "open"
            BY <1>0 DEF CkRec
      <3> QED
          BY <2>2, <3>1, <3>2
    <2> QED
        BY <2>3
  <1>4. CheckOpen
        BY <1>1, <1>2, <1>3 DEF CheckStep
  <1>5. ck' # CkOff(ck.k + 1)
        BY DEF CkOff
  <1>6. /\ ck.pc = "open" /\ ~CannotOpen(ck.d)
        /\ ck' = [ck EXCEPT !.pc = "reading", !.ver = FileOf(ck.d).ver]
        BY <1>4, <1>5 DEF CheckOpen, Terminate
  <1>7. /\ ck'.d = ck.d /\ ck'.o = ck.o /\ ck'.new_mtime = ck.new_mtime
        /\ ck'.ver = FileOf(ck.d).ver
        BY <1>0, <1>6 DEF CkRec
  <1> QED
      BY <1>4, <1>6, <1>7

\* So does the checker.
LEMMA WithinCheck ==
    ASSUME VersionInv, NEW d \in Dict, HasPath(d), CheckStep
    PROVE  Within(d)'
  <1> USE DEF dictVars, startVars, argVars
  <1>0. /\ TypeInv /\ Within(d) /\ obj \in [Dict -> [Obj -> ObjRec]] /\ ck \in CkRec
        /\ FileOf(d).ver \in Nat /\ ck.ver \in Nat
        BY VersionTypes DEF VersionInv, OwnInv, SlotInv, VersionsBounded, TypeInv, TypeOK
  <1>1. UNCHANGED <<file, ldr>> /\ FileOf(d)' = FileOf(d)
        BY <1>0, CheckerMoves DEF FileOf
  <1>2. \A o \in Obj : obj'[d][o].ver <= FileOf(d).ver
    <2>1. CASE obj' = obj
          BY <1>0, <2>1 DEF Within
    <2>2. CASE \E s : obj' = [obj EXCEPT ![ck.d][ck.o].st = s]
      <3>1. \A o \in Obj : obj'[d][o].ver = obj[d][o].ver
            BY <1>0, <2>2 DEF ObjRec
      <3> QED
          BY <1>0, <3>1 DEF Within
    <2>3. CASE obj' = [obj EXCEPT ![ck.d][Fresh(ck.d)] = NewObj]
      <3>1. \A o \in Obj : obj'[d][o] = obj[d][o] \/ obj'[d][o] = NewObj
            BY <1>0, <2>3
      <3> QED
          BY <1>0, <3>1 DEF Within, NewObj, Mixed
    <2>4. CASE ck.pc = "reading" /\ \E v \in Contents(ck.d, ck.ver) :
                 obj' = [obj EXCEPT ![ck.d][ck.o] = [st |-> "loaded", ver |-> v]]
      <3>1. PICK v \in Contents(ck.d, ck.ver) :
              obj' = [obj EXCEPT ![ck.d][ck.o] = [st |-> "loaded", ver |-> v]]
            BY <2>4
      <3>2. v \in Nat /\ v <= ck.ver
            BY <1>0, ContentsBound
      <3>3. \A o \in Obj : obj'[d][o] = obj[d][o] \/ (d = ck.d /\ obj'[d][o].ver = v)
            BY <1>0, <3>1
      <3>4. ck.d = d => v <= FileOf(d).ver
            BY <1>0, <2>4, <3>2 DEF Within
      <3> QED
          BY <1>0, <3>3, <3>4 DEF Within
    <2> QED
        BY <2>1, <2>2, <2>3, <2>4 DEF CheckStep, CheckVisit, CheckStamp, CompareMtime,
           CheckOpen, CheckRead, CheckAssign, CheckSwitch, CheckSleep, Terminate
  <1>3. ASSUME ck'.pc = "reading", ck'.d = d PROVE ck'.ver <= FileOf(d).ver
    <2>1. CASE ck' = ck
          BY <1>0, <1>3, <2>1 DEF Within
    <2>2. CASE ck' # ck
      <3>1. CheckOpen
            BY <1>0, <1>3, <2>2, ReadingFrom
      <3>2. ck'.d = ck.d /\ ck'.ver = FileOf(ck.d).ver
            BY <1>0, <1>3, <2>2, ReadingFrom
      <3> QED
          BY <1>0, <1>3, <3>2
    <2> QED
        BY <2>1, <2>2
  <1> QED
      BY <1>0, <1>1, <1>2, <1>3 DEF Within

\* It gets to assign by reading, and to switch by assigning.
LEMMA HandsOver ==
    ASSUME TypeInv, CheckStep, ck'.pc \in {"assign", "switch"}
    PROVE  /\ (CheckRead /\ ck'.pc = "assign") \/ (CheckAssign /\ ck'.pc = "switch")
           /\ ck'.d = ck.d /\ ck'.o = ck.o /\ ck'.bg = ck.bg
           /\ ck'.new_mtime = ck.new_mtime /\ ck'.ver = ck.ver
  <1>0. ck \in CkRec
        BY DEF TypeInv, TypeOK
  <1>1. ~CheckVisit /\ ~CheckSwitch /\ ~CheckSleep
    <2>1. ~CheckSwitch
          BY DEF CheckSwitch, CkOff
    <2>2. ASSUME CheckVisit \/ CheckSleep PROVE FALSE
      <3>1. ~Working
            BY <2>2 DEF CheckVisit, CheckSleep, Working
      <3> QED
          BY <3>1, CheckerMoves DEF WorksOn, Enters, GoesOn, Stops, FallsAsleep, WakesUp, CkOff
    <2> QED
        BY <2>1, <2>2
  <1>2. ~CheckStamp
    <2>1. SUFFICES ASSUME CheckStamp PROVE FALSE
          OBVIOUS
    <2>2. \/ ck' = CkOff(ck.k + 1) \/ ck' = ck
          \/ \E m : ck' = [ck EXCEPT !.pc = "open", !.o = Fresh(ck.d), !.new_mtime = m]
          BY <2>1 DEF CheckStamp, CompareMtime, Terminate
    <2>3. CkOff(ck.k + 1).pc = "visit" /\ ck.pc = "stamp"
          BY <2>1 DEF CkOff, CheckStamp
    <2>4. \A m : [ck EXCEPT !.pc = "open", !.o = Fresh(ck.d), !.new_mtime = m].pc = "open"
          BY <1>0 DEF CkRec
    <2> QED
        BY <2>2, <2>3, <2>4
  <1>3. ~CheckOpen
    <2>1. SUFFICES ASSUME CheckOpen PROVE FALSE
          OBVIOUS
    <2>2. \/ ck' = CkOff(ck.k + 1) \/ ck' = ck
          \/ ck' = [ck EXCEPT !.pc = "reading", !.ver = FileOf(ck.d).ver]
          BY <2>1 DEF CheckOpen, Terminate
    <2>3. CkOff(ck.k + 1).pc = "visit" /\ ck.pc = "open"
          BY <2>1 DEF CkOff, CheckOpen
    <2>4. [ck EXCEPT !.pc = "reading", !.ver = FileOf(ck.d).ver].pc = "reading"
          BY <1>0 DEF CkRec
    <2> QED
        BY <2>2, <2>3, <2>4
  <1>4. CASE CheckRead
    <2>1. ck.pc = "reading" /\ (ck' = ck \/ ck' = [ck EXCEPT !.pc = "assign"])
          BY <1>4 DEF CheckRead, Terminate
    <2> QED
        BY <1>0, <1>4, <2>1 DEF CkRec
  <1>5. CASE CheckAssign
    <2>1. ck' = [ck EXCEPT !.pc = "switch"]
          BY <1>5 DEF CheckAssign
    <2> QED
        BY <1>0, <1>5, <2>1 DEF CkRec
  <1> QED
      BY <1>1, <1>2, <1>3, <1>4, <1>5 DEF CheckStep

\* What the checker puts in place is not behind what it replaces.
LEMMA NewerNext ==
    ASSUME VersionInv, [Next]_vars
    PROVE  NewerIsLoaded'
  <1>0. /\ OwnInv /\ TypeInv /\ ck \in CkRec /\ obj \in [Dict -> [Obj -> ObjRec]]
        BY DEF VersionInv, OwnInv, SlotInv, TypeInv, TypeOK
  <1>1. SUFFICES ASSUME syncRet' = 0, NEW e, e = ck'.d,
                        ck'.pc \in {"reading", "assign", "switch"}
                 PROVE  /\ ck'.pc = "reading" => ck'.ver >= Served(e)'.ver
                        /\ ck'.pc \in {"assign", "switch"} =>
                             NotOlder(obj'[e][ck'.o].ver, Served(e)'.ver)
        BY DEF NewerIsLoaded, Served, Cur
  <1>2. CASE syncRet # 0
    <2>1. MainStep
          BY <1>1, <1>2, OthersLeaveMain
    <2>2. /\ main.pc # "serving"
          /\ ck' = ck \/ ck'.pc = "visit"
          BY <1>0, <2>1 DEF MainStep, MainSpawn, MainStore, MainSpawned, MainJoin,
             MainJoined, MainStartCheck, CkRec
    <2> QED
        BY <1>0, <1>1, <2>2 DEF OwnInv, SlotInv, BeforeServing
  <1>3. CASE syncRet = 0
    <2>0. PICK d : d = ck.d
          OBVIOUS
    <2>1. ASSUME ck.pc \in {"open", "reading", "assign", "switch"}, ~CheckSwitch
          PROVE  /\ d \in Dict /\ HasPath(d) /\ ck.o \in Obj
                 /\ Served(d)' = Served(d) /\ Served(d).ver \in Nat
                 /\ Served(d).ver <= FileOf(d).ver /\ FileOf(d).ver \in Nat
                 /\ ck.ver \in Nat
      <3>1. d \in Dict /\ HasPath(d) /\ ck.o \in Obj
            BY <1>0, <2>0, <2>1 DEF TypeInv, PathInv
      <3>2. Served(d)' = Served(d) /\ Cur(d) \in Obj
            BY <1>0, <1>3, <2>1, <3>1, ServedKept
      <3>3. /\ FileOf(d).ver \in Nat /\ ck.ver \in Nat
            /\ \A o \in Obj : obj[d][o].ver \in Nat
            BY <1>0, <3>1, VersionTypes
      <3>4. \A o \in Obj : obj[d][o].ver <= FileOf(d).ver
            BY <3>1 DEF VersionInv, VersionsBounded, Within
      <3> QED
          BY <3>1, <3>2, <3>3, <3>4 DEF Served
    <2>2. CASE ~CheckStep
      <3>1. ck' = ck /\ obj' = obj /\ ~CheckSwitch
            BY <1>0, <1>1, <1>3, <2>2, OnlyChecker DEF CheckStep
      <3>2. Served(d)' = Served(d)
            BY <1>1, <2>1, <3>1
      <3> QED
          BY <1>1, <1>3, <2>0, <3>1, <3>2 DEF VersionInv, NewerIsLoaded
    <2>3. CASE CheckStep /\ ck'.pc = "reading"
      <3>1. ~CheckSwitch
            BY <2>3 DEF CheckSwitch, CkOff
      <3>2. CASE ck' = ck
        <4>1. Served(d)' = Served(d)
              BY <2>1, <2>3, <3>1, <3>2
        <4> QED
            BY <1>1, <1>3, <2>0, <2>3, <3>2, <4>1 DEF VersionInv, NewerIsLoaded
      <3>3. CASE ck' # ck
        <4>1. ck.pc = "open" /\ ck'.d = d /\ ck'.ver = FileOf(d).ver
              BY <1>0, <2>0, <2>3, <3>3, ReadingFrom
        <4>2. /\ Served(d)' = Served(d) /\ Served(d).ver \in Nat
              /\ Served(d).ver <= FileOf(d).ver /\ FileOf(d).ver \in Nat
              BY <2>1, <3>1, <4>1
        <4> QED
            BY <1>1, <2>3, <4>1, <4>2
      <3> QED
          BY <3>2, <3>3
    <2>4. CASE CheckStep /\ ck'.pc \in {"assign", "switch"}
      <3>1. /\ (CheckRead /\ ck'.pc = "assign") \/ (CheckAssign /\ ck'.pc = "switch")
            /\ ck'.d = d /\ ck'.o = ck.o
            BY <1>0, <2>0, <2>4, HandsOver
      <3>2. ck.pc \in {"reading", "assign"} /\ ~CheckSwitch
            BY <3>1 DEF CheckRead, CheckAssign, CheckSwitch
      <3>3. /\ d \in Dict /\ ck.o \in Obj
            /\ Served(d)' = Served(d) /\ Served(d).ver \in Nat /\ ck.ver \in Nat
            BY <2>1, <3>2
      <3>4. CASE CheckRead /\ ck'.pc = "assign"
        <4>1. ck.pc = "reading" /\ ck' # ck /\ ck'.pc = "assign" /\ ck \in CkRec
              BY <1>0, <3>4 DEF CheckRead, TypeInv, TypeOK, VersionInv, OwnInv, SlotInv
        <4>2. PICK v \in Contents(d, ck.ver) :
                obj' = [obj EXCEPT ![d][ck.o] = [st |-> "loaded", ver |-> v]]
              BY <2>0, <3>4, <4>1 DEF CheckRead, Terminate, CkRec
        <4>3. obj'[d][ck.o].ver = v
              BY <1>0, <3>3, <4>2
        <4>4. v = Mixed \/ v = ck.ver
              BY <3>3, ContentsBound
        <4>5. ck.ver >= Served(d).ver
              BY <1>3, <2>0, <4>1 DEF VersionInv, NewerIsLoaded
        <4> QED
            BY <1>1, <3>1, <3>3, <3>4, <4>3, <4>4, <4>5 DEF NotOlder
      <3>5. CASE CheckAssign /\ ck'.pc = "switch"
        <4>1. obj' = obj /\ ck.pc = "assign"
              BY <3>5 DEF CheckAssign
        <4>2. NotOlder(obj[d][ck.o].ver, Served(d).ver)
              BY <1>3, <2>0, <4>1 DEF VersionInv, NewerIsLoaded
        <4> QED
            BY <1>1, <3>1, <3>3, <3>5, <4>1, <4>2
      <3> QED
          BY <3>1, <3>4, <3>5
    <2> QED
        BY <1>1, <2>2, <2>3, <2>4
  <1> QED
      BY <1>2, <1>3

\* Every step of every thread keeps VersionInv.
LEMMA VersionNext == VersionInv /\ [Next]_vars => VersionInv'
  <1> SUFFICES ASSUME VersionInv, [Next]_vars PROVE VersionInv'
      OBVIOUS
  <1>1. OwnInv'
        BY OwnNext DEF VersionInv
  <1>2. ASSUME NEW d \in Dict, HasPath(d) PROVE Within(d)'
        BY <1>2, WithinEnv, WithinSpawn, WithinLoader, WithinCheck DEF Next
  <1>3. VersionsBounded'
        BY <1>2 DEF VersionsBounded, HasPath
  <1> QED
      BY <1>1, <1>3, NewerNext DEF VersionInv

\* A dictionary that is served stays loaded, and no older version of the file
\* replaces a newer one, whatever fails while it is reloaded
\* (dict_manager.cpp:66-83).
THEOREM ServedNeverAges == Spec => ServedNeverRegresses
  <1>1. ASSUME VersionInv, [Next]_vars, NEW d \in Dict, syncRet = 0, Cur(d) # Null,
               Served(d).st = "loaded"
        PROVE  /\ Served(d)'.st = "loaded"
               /\ Served(d)'.ver # Mixed => Served(d)'.ver >= Served(d).ver
    <2>0. /\ OwnInv /\ TypeInv /\ HasPath(d) /\ Cur(d) \in Obj
          /\ obj \in [Dict -> [Obj -> ObjRec]] /\ cur_index \in [Dict -> 0..1]
          BY <1>1, CurType DEF VersionInv, OwnInv, SlotInv, TypeInv, TypeOK, SlotType
    <2>1. Served(d).ver \in Nat
          BY <2>0, VersionTypes DEF Served
    <2>2. CASE Served(d)' = Served(d)
          BY <1>1, <2>1, <2>2
    <2>3. CASE Served(d)' # Served(d)
      <3>1. CheckSwitch
            BY <1>1, <2>0, <2>3, ServedKept
      <3>2. /\ ck.pc = "switch" /\ UNCHANGED <<dicts, obj>>
            /\ cur_index' = [cur_index EXCEPT ![ck.d] = ck.bg]
            BY <3>1 DEF CheckSwitch
      <3>3. d = ck.d /\ cur_index'[d] = ck.bg
            BY <2>0, <2>3, <3>2 DEF Served, Cur
      <3>4. Served(d)' = obj[d][ck.o]
            BY <2>0, <3>2, <3>3 DEF Served, Cur, OwnInv, Hold, SwitchSlot
      <3>5. /\ obj[d][ck.o].st = "loaded"
            /\ NotOlder(obj[d][ck.o].ver, Served(d).ver)
            BY <1>1, <2>0, <3>2, <3>3 DEF OwnInv, Hold, CheckerOwns, VersionInv,
               NewerIsLoaded
      <3> QED
          BY <3>4, <3>5 DEF NotOlder
    <2> QED
        BY <2>2, <2>3
  <1>2. VersionInv /\ [Next]_vars =>
          [\A d \in Dict : syncRet = 0 /\ Cur(d) # Null /\ Served(d).st = "loaded" =>
             /\ Served(d)'.st = "loaded"
             /\ Served(d)'.ver # Mixed => Served(d)'.ver >= Served(d).ver]_vars
        BY <1>1
  <1> QED
      BY <1>2, VersionInit, VersionNext, PTL DEF Spec, ServedNeverRegresses

--------------------------------------------------------------------------------
(* Modification times: modify_time is taken before the load, so a stamp that is *)
(* not older than the file belongs to what was read of it.                      *)

\* Two writes of one file are further apart than get_file_last_mtime is off.
Distinguishable == \A s \in Deltas : s > Jitter

Bounded(d, m) == m <= FileOf(d).mtime + Jitter
Current(d, m, v) == m < FileOf(d).mtime \/ v = FileOf(d).ver \/ FileOf(d).kind # "ok"

StampWithin(d) == /\ FileOf(d).mtime > 0
                  /\ Bounded(d, modify_time[d])
                  /\ Filling /\ ck.d = d => Bounded(d, ck.new_mtime)
StampsBounded == \A d \in Dict : HasPath(d) => StampWithin(d)

LoadStamped(d) ==
    /\ ldr[d].pc \in {"ready", "stamp", "open", "reading"} => Served(d).ver = Mixed
    /\ ldr[d].pc = "reading" => Current(d, modify_time[d], ldr[d].ver)
    /\ ldr[d].pc \in {"loaded", "failed", "done"} =>
         Current(d, modify_time[d], Served(d).ver)
LoadersStamped == main.pc # "serving" => \A d \in Dict : HasPath(d) => LoadStamped(d)
CheckerStamped == syncRet = 0 =>
    /\ ck.pc = "reading" => Current(ck.d, ck.new_mtime, ck.ver)
    /\ ck.pc = "assign" => Current(ck.d, ck.new_mtime, obj[ck.d][ck.o].ver)
    /\ ck.pc = "switch" => Current(ck.d, modify_time[ck.d], obj[ck.d][ck.o].ver)
Switching(d) == ck.pc = "switch" /\ ck.d = d
ServedStamped == syncRet = 0 => \A d \in Dict :
    HasPath(d) /\ ~Switching(d) => Current(d, modify_time[d], Served(d).ver)

StampInv == /\ VersionInv /\ StampsBounded
            /\ LoadersStamped /\ CheckerStamped /\ ServedStamped

\* Stamps and modification times are numbers.
LEMMA StampTypes ==
    ASSUME TypeInv, NEW d \in Dict, HasPath(d)
    PROVE  /\ FileOf(d).mtime \in Nat /\ modify_time[d] \in Nat /\ ck.new_mtime \in Nat
           /\ FileOf(d).ver \in Nat \ {Mixed} /\ Jitter \in Nat
  <1>1. FileOf(d).mtime \in Nat /\ FileOf(d).ver \in 1..(MaxWrite + 1)
        BY Values DEF FileRec
  <1>2. modify_time[d] \in Nat /\ ck.new_mtime \in Nat
        BY DEF TypeInv, TypeOK, SlotType, CkRec
  <1> QED
      BY <1>1, <1>2, Constants DEF Mixed

\* A write makes every stamp of the file older than the file.
LEMMA WriteOutdates ==
    ASSUME Distinguishable, TypeInv, NEW p \in Path, Write(p), NEW d \in Dict, HasPath(d),
           NEW m \in Nat, Bounded(d, m), FileOf(d)' # FileOf(d)
    PROVE  Bounded(d, m)' /\ m < FileOf(d)'.mtime /\ FileOf(d)'.mtime > 0
  <1>1. PICK s \in Deltas : FileOf(d)'.mtime = FileOf(d).mtime + s
        BY WriteGrows
  <1>2. FileOf(d).mtime \in Nat /\ Jitter \in Nat /\ s \in Nat /\ s > Jitter
        BY StampTypes, Constants DEF Distinguishable
  <1>3. m <= FileOf(d).mtime + Jitter
        BY DEF Bounded
  <1> HIDE DEF FileOf
  <1> QED
      BY <1>1, <1>2, <1>3 DEF Bounded

\* Time passes, files are written, readers read.
EnvStep == Tick \/ (\E p \in Path : Write(p)) \/ (\E r \in Reader : ReaderStep(r))
             \/ UNCHANGED vars

\* None of this touches the dictionaries or the threads that load them.
LEMMA EnvFrame ==
    ASSUME EnvStep
    PROVE  UNCHANGED <<dicts, cur_index, modify_time, obj, ldr, ck, main, syncRet>>
  BY DEF EnvStep, Tick, Write, ReaderStep, GetIndex, GetCopy, Lookup, vars, dictVars,
     startVars

\* What is true of a stamp stays true.
LEMMA StampKept ==
    ASSUME Distinguishable, TypeInv, EnvStep, NEW d \in Dict, HasPath(d),
           NEW m \in Nat, Bounded(d, m), FileOf(d).mtime > 0
    PROVE  /\ Bounded(d, m)' /\ FileOf(d)'.mtime > 0
           /\ \A v : Current(d, m, v) => Current(d, m, v)'
  <1>1. CASE FileOf(d)' = FileOf(d)
        BY <1>1 DEF Bounded, Current
  <1>2. CASE FileOf(d)' # FileOf(d)
    <2>1. PICK p \in Path : Write(p)
          BY <1>2 DEF EnvStep, Tick, ReaderStep, GetIndex, GetCopy, Lookup, vars, FileOf
    <2>2. Bounded(d, m)' /\ m < FileOf(d)'.mtime /\ FileOf(d)'.mtime > 0
          BY <1>2, <2>1, WriteOutdates
    <2> QED
        BY <2>2 DEF Current
  <1> QED
      BY <1>1, <1>2

\* Reading what was opened is as current as having opened it.
LEMMA CurrentRead ==
    ASSUME NEW d, NEW m, NEW w, Current(d, m, w), NEW v \in Contents(d, w)
    PROVE  Current(d, m, v)
  BY DEF Current, Contents

\* No dictionary is loaded yet.
LEMMA StampInit == Init => StampInv
  <1> SUFFICES ASSUME Init PROVE StampInv
      OBVIOUS
  <1>1. VersionInv /\ TypeInv
        BY VersionInit, TypeInit
  <1>2. /\ ck.pc = "off" /\ syncRet = 1 /\ \A d \in Dict : ldr[d].pc = "none"
        /\ \A d \in Dict : modify_time[d] = 0
        BY DEF Init
  <1>3. ASSUME NEW d \in Dict, HasPath(d) PROVE StampWithin(d)
    <2>1. FileOf(d).mtime = 1
          BY <1>3, Constants DEF Init, FileOf
    <2> QED
        BY <1>2, <2>1, Constants DEF StampWithin, Bounded, Filling
  <1> QED
      BY <1>1, <1>2, <1>3 DEF StampInv, StampsBounded, LoadersStamped, LoadStamped,
         CheckerStamped, ServedStamped

\* The environment and the readers keep StampInv.
LEMMA StampEnv ==
    ASSUME Distinguishable, StampInv, EnvStep
    PROVE  StampInv'
  <1>0. /\ TypeInv /\ VersionInv'
        /\ UNCHANGED <<dicts, cur_index, modify_time, obj, ldr, ck, main, syncRet>>
        BY EnvFrame, VersionNext DEF StampInv, VersionInv, OwnInv, SlotInv, EnvStep, Next
  <1>1. ASSUME NEW d \in Dict, HasPath(d)
        PROVE  /\ modify_time[d] \in Nat /\ ck.new_mtime \in Nat
               /\ Bounded(d, modify_time[d]) /\ FileOf(d).mtime > 0
               /\ Filling /\ ck.d = d => Bounded(d, ck.new_mtime)
        BY <1>0, <1>1, StampTypes DEF StampInv, StampsBounded, StampWithin
  <1>2. ASSUME NEW d \in Dict, HasPath(d), NEW m \in Nat, Bounded(d, m)
        PROVE  /\ Bounded(d, m)' /\ FileOf(d)'.mtime > 0
               /\ \A v : Current(d, m, v) => Current(d, m, v)'
        BY <1>0, <1>1, <1>2, StampKept
  <1>3. StampsBounded'
    <2>1. ASSUME NEW d \in Dict, HasPath(d) PROVE StampWithin(d)'
      <3>1. PICK m \in Nat : m = modify_time[d] /\ Bounded(d, m)
            BY <1>1, <2>1
      <3>2. Bounded(d, m)' /\ FileOf(d)'.mtime > 0
            BY <1>2, <2>1, <3>1
      <3>3. ASSUME Filling, ck.d = d PROVE Bounded(d, ck.new_mtime)'
        <4>1. PICK n \in Nat : n = ck.new_mtime /\ Bounded(d, n)
              BY <1>1, <2>1, <3>3
        <4>2. Bounded(d, n)'
              BY <1>2, <2>1, <4>1
        <4> QED
            BY <1>0, <4>1, <4>2 DEF Bounded
      <3> QED
          BY <1>0, <3>1, <3>2, <3>3 DEF StampWithin, Filling, Bounded
    <2> QED
        BY <2>1 DEF StampsBounded, HasPath
  <1>4. LoadersStamped'
    <2> SUFFICES ASSUME main.pc # "serving", NEW d \in Dict, HasPath(d)
                 PROVE  LoadStamped(d)'
        BY <1>0 DEF LoadersStamped, HasPath
    <2>1. LoadStamped(d)
          BY DEF StampInv, LoadersStamped
    <2>2. PICK m \in Nat : m = modify_time[d] /\ Bounded(d, m)
          BY <1>1
    <2>3. \A v : Current(d, m, v) => Current(d, m, v)'
          BY <1>2, <2>2
    <2>4. PICK x, y : x = ldr[d].ver /\ y = Served(d).ver
          OBVIOUS
    <2>5. Served(d)' = Served(d)
          BY <1>0 DEF Served, Cur
    <2> QED
        BY <1>0, <2>1, <2>2, <2>3, <2>4, <2>5 DEF LoadStamped, Current
  <1>5. CheckerStamped'
    <2> SUFFICES ASSUME syncRet = 0, ck.pc \in {"reading", "assign", "switch"}
                 PROVE  CheckerStamped'
        BY <1>0 DEF CheckerStamped
    <2>1. PICK d \in Dict : d = ck.d /\ HasPath(d)
          BY <1>0 DEF TypeInv, PathInv
    <2>2. PICK v : v = IF ck.pc = "reading" THEN ck.ver ELSE obj[d][ck.o].ver
          OBVIOUS
    <2>3. PICK m \in Nat : /\ m = IF ck.pc = "switch" THEN modify_time[d] ELSE ck.new_mtime
                           /\ Bounded(d, m)
          BY <1>1, <2>1 DEF Filling
    <2>4. Current(d, m, v)
          BY <2>1, <2>2, <2>3 DEF StampInv, CheckerStamped
    <2>5. Current(d, m, v)'
          BY <1>2, <2>1, <2>3, <2>4
    <2> QED
        BY <1>0, <2>1, <2>2, <2>3, <2>5 DEF CheckerStamped, Current
  <1>6. ServedStamped'
    <2> SUFFICES ASSUME syncRet = 0, NEW d \in Dict, HasPath(d), ~Switching(d)
                 PROVE  Current(d, modify_time[d], Served(d).ver)'
        BY <1>0 DEF ServedStamped, Switching, HasPath
    <2>1. PICK m, v : m \in Nat /\ m = modify_time[d] /\ Bounded(d, m) /\ v = Served(d).ver
          BY <1>1
    <2>2. Current(d, m, v)'
          BY <1>2, <2>1 DEF StampInv, ServedStamped
    <2>3. Served(d)' = Served(d)
          BY <1>0 DEF Served, Cur
    <2> QED
        BY <1>0, <2>1, <2>2, <2>3 DEF Current
  <1> QED
      BY <1>0, <1>3, <1>4, <1>5, <1>6 DEF StampInv

\* MainSpawn puts an empty object in the slot, and starts the loader that fills it.
LEMMA StampSpawn ==
    ASSUME StampInv, MainSpawn
    PROVE  LoadersStamped'
  <1>k. PICK k, d : k = main.k /\ d = Handers[k]
        OBVIOUS
  <1>0. /\ TypeInv /\ cur_index \in [Dict -> 0..1] /\ ldr \in [Dict -> LdrRec]
        /\ dicts \in [Dict -> [0..1 -> Obj \cup {Null}]]
        /\ obj \in [Dict -> [Obj -> ObjRec]]
        /\ main \in [pc : {"spawn", "store", "join", "check", "serving"},
                     k : 1..(Len(Handers) + 1)]
        BY DEF StampInv, VersionInv, OwnInv, SlotInv, TypeInv, TypeOK, MainType, SlotType
  <1>1. /\ k \in 1..Len(Handers) /\ d \in Dict /\ main.pc = "spawn"
        /\ UNCHANGED <<file, cur_index, modify_time>>
        BY <1>0, <1>k, Constants DEF MainSpawn
  <1>2. \A e \in Dict : HasPath(e) => LoadStamped(e)
        BY <1>1 DEF StampInv, LoadersStamped
  <1>3. CASE ~HasPath(d)
    <2>1. UNCHANGED <<dicts, obj, ldr>>
          BY <1>k, <1>3 DEF MainSpawn
    <2> QED
        BY <1>1, <1>2, <2>1 DEF LoadersStamped, LoadStamped, Current, FileOf, Served, Cur,
           HasPath
  <1>4. CASE HasPath(d)
    <2>1. /\ CanAllocate(d)
          /\ dicts' = [dicts EXCEPT ![d][cur_index[d]] = Fresh(d)]
          /\ obj' = [obj EXCEPT ![d][Fresh(d)] = NewObj]
          /\ ldr' = [ldr EXCEPT ![d].pc = "ready"] \/ ldr' = ldr
          BY <1>4, <1>k DEF MainSpawn
    <2>2. Fresh(d) \in Obj
          BY <1>0, <1>1, <1>4, <2>1, Values
    <2>3. ldr[d].pc = "none"
      <3>1. ~Reached(k)
            BY <1>1, <1>k DEF Reached
      <3> QED
          BY <1>1, <1>k, <3>1 DEF StampInv, VersionInv, OwnInv, Boot, Unstarted
    <2>4. /\ \A e \in Dict \ {d} : /\ ldr'[e] = ldr[e] /\ dicts'[e] = dicts[e]
                                   /\ obj'[e] = obj[e]
          /\ ldr'[d].pc \in {"ready", "none"}
          /\ dicts'[d][cur_index[d]] = Fresh(d)
          BY <1>0, <1>1, <2>1, <2>3 DEF LdrRec
    <2>5. Served(d)'.ver = Mixed
      <3>1. Cur(d)' = Fresh(d)
            BY <1>1, <2>4 DEF Cur
      <3>2. obj'[d][Fresh(d)] = NewObj
            BY <1>0, <1>1, <2>1, <2>2
      <3> QED
          BY <3>1, <3>2 DEF Served, NewObj
    <2>6. LoadStamped(d)'
          BY <2>4, <2>5 DEF LoadStamped
    <2>7. ASSUME NEW e \in Dict \ {d}, HasPath(e) PROVE LoadStamped(e)'
          BY <1>1, <1>2, <2>4, <2>7 DEF LoadStamped, Current, FileOf, Served, Cur
    <2> QED
        BY <2>6, <2>7 DEF LoadersStamped, HasPath
  <1> QED
      BY <1>3, <1>4

\* main stamps nothing; what it has joined was stamped by its loader.
LEMMA StampMain ==
    ASSUME StampInv, MainStep
    PROVE  StampInv'
  <1>0. /\ TypeInv /\ VersionInv' /\ OwnInv' /\ ck \in CkRec
        BY VersionNext DEF StampInv, VersionInv, OwnInv, SlotInv, Next, TypeInv, TypeOK
  <1>1. /\ UNCHANGED <<file, cur_index, modify_time>>
        /\ main.pc # "serving" /\ ck.pc = "off"
        /\ ck' = ck \/ ck'.pc = "visit"
    <2>1. /\ UNCHANGED <<file, cur_index, modify_time>> /\ main.pc # "serving"
          /\ ck' = ck \/ ck' = [ck EXCEPT !.pc = "visit"]
          BY DEF MainStep, MainSpawn, MainStore, MainSpawned, MainJoin, MainJoined,
             MainStartCheck, dictVars
    <2> QED
        BY <1>0, <2>1 DEF StampInv, VersionInv, OwnInv, SlotInv, BeforeServing, CkRec
  <1>2. ck'.pc \in {"off", "visit"}
        BY <1>1
  <1>3. StampsBounded'
        BY <1>1, <1>2 DEF StampInv, StampsBounded, StampWithin, Bounded, FileOf, Filling,
           HasPath
  <1>4. CheckerStamped'
        BY <1>2 DEF CheckerStamped
  <1>5. \A d \in Dict : HasPath(d) => LoadStamped(d)'
    <2>1. CASE MainSpawn
      <3>1. main'.pc # "serving"
            BY <2>1, <1>0 DEF MainSpawn, TypeInv, TypeOK, MainType
      <3> QED
          BY <2>1, <3>1, StampSpawn DEF LoadersStamped, HasPath
    <2>2. CASE ~MainSpawn
      <3>1. UNCHANGED <<dicts, obj, ldr>>
            BY <2>2 DEF MainStep, MainStore, MainSpawned, MainJoin, MainJoined,
               MainStartCheck, dictVars
      <3> QED
          BY <1>1, <3>1 DEF StampInv, LoadersStamped, LoadStamped, Current, FileOf,
             Served, Cur
    <2> QED
        BY <2>1, <2>2
  <1>6. ServedStamped'
    <2> SUFFICES ASSUME syncRet' = 0, NEW d \in Dict, HasPath(d)
                 PROVE  Current(d, modify_time[d], Served(d).ver)'
        BY DEF ServedStamped, HasPath
    <2>1. PICK j \in 1..Len(Handers) : Handers[j] = d
          BY Positions
    <2>2. ldr'[d].pc = "done"
          BY <1>0, <2>1 DEF OwnInv, Boot, JoinedDone, Joined, HasPath
    <2> QED
        BY <1>5, <2>2 DEF LoadStamped
  <1> QED
      BY <1>0, <1>3, <1>4, <1>5, <1>6 DEF StampInv, LoadersStamped, HasPath

\* A modification time that get_file_last_mtime returns, or 0, is bounded.
LEMMA StampTaken ==
    ASSUME TypeInv, NEW d \in Dict, HasPath(d), NEW m, m = 0 \/ m \in Mtimes(d)
    PROVE  Bounded(d, m)
  <1>1. FileOf(d).mtime \in Nat /\ Jitter \in Nat
        BY StampTypes
  <1>2. CASE m = 0
        BY <1>1, <1>2 DEF Bounded
  <1>3. CASE m \in Mtimes(d)
    <2>1. PICK j \in 0..Jitter : m = FileOf(d).mtime + j
          BY <1>3 DEF Mtimes
    <2> HIDE DEF FileOf
    <2> QED
        BY <1>1, <2>1 DEF Bounded
  <1> QED
      BY <1>2, <1>3

\* A loader takes the stamp first, and fills the empty object in the slot with
\* what it opens afterwards.
LEMMA StampLoad ==
    ASSUME StampInv, NEW d \in Dict, LoaderStep(d), main.pc # "serving"
    PROVE  LoadStamped(d)'
  <1>0. /\ TypeInv /\ LoaderKeeps(d) /\ ldr[d] \in LdrRec /\ ldr \in [Dict -> LdrRec]
        /\ obj \in [Dict -> [Obj -> ObjRec]] /\ HasPath(d) /\ LoadStamped(d)
        /\ modify_time \in [Dict -> Nat]
        BY LoaderFrame DEF StampInv, VersionInv, OwnInv, Boot, LoaderOwns, LoadersStamped,
           SlotInv, TypeInv, TypeOK, SlotType
  <1>1. UNCHANGED <<file, dicts, cur_index>> /\ ldr[d].pc # "none"
        BY <1>0, LoaderFrame DEF Running
  <1>2. Cur(d) \in Obj /\ Cur(d)' = Cur(d) /\ FileOf(d)' = FileOf(d)
    <2>1. PICK j \in 1..Len(Handers) : Handers[j] = d
          BY Positions
    <2>2. Reached(j)
          BY <1>1, <2>1 DEF StampInv, VersionInv, OwnInv, Boot, Unstarted
    <2>3. Cur(d) # Null
          BY <1>0, <2>1, <2>2 DEF StampInv, VersionInv, OwnInv, Boot, Filled
    <2> QED
        BY <1>0, <1>1, <2>3, CurType DEF Cur, FileOf
  <1>3. CASE UNCHANGED <<ldr, obj, modify_time>>
        BY <1>0, <1>1, <1>3 DEF LoadStamped, Current, FileOf, Served, Cur
  <1>4. CASE LoaderBegin(d)
    <2>1. /\ \/ ldr' = ldr
             \/ ldr' = [ldr EXCEPT ![d] = [ldr[d] EXCEPT !.pc = "stamp", !.o = Cur(d),
                                             !.seen = FileOf(d).kind # "absent"]]
          /\ obj' = obj /\ ldr[d].pc = "ready"
          BY <1>2, <1>4, ObjAssumption DEF LoaderBegin, Terminate
    <2>2. ldr'[d].pc \in {"ready", "stamp"}
      <3>1. [ldr[d] EXCEPT !.pc = "stamp", !.o = Cur(d),
                           !.seen = FileOf(d).kind # "absent"].pc = "stamp"
            BY <1>0 DEF LdrRec
      <3> QED
          BY <1>0, <2>1, <3>1
    <2> QED
        BY <1>0, <1>2, <2>1, <2>2 DEF LoadStamped, Served
  <1>5. CASE LoaderStamp(d) /\ ldr' # ldr
    <2>1. ldr' = [ldr EXCEPT ![d].pc = "open"] /\ obj' = obj /\ ldr[d].pc = "stamp"
          BY <1>5 DEF LoaderStamp, Terminate
    <2>2. ldr'[d].pc = "open"
          BY <1>0, <2>1 DEF LdrRec
    <2> QED
        BY <1>0, <1>2, <2>1, <2>2 DEF LoadStamped, Served
  <1>6. CASE LoaderOpen(d) /\ ldr' # ldr
    <2>1. /\ ldr[d].pc = "open" /\ ldr[d].o = Cur(d) /\ modify_time' = modify_time
          /\ Served(d).ver = Mixed
          BY <1>0, <1>6 DEF LoaderOpen, LoaderKeeps, Loading, LoadStamped, dictVars
    <2>2. \/ /\ FileOf(d).kind # "ok"
             /\ obj' = [obj EXCEPT ![d][Cur(d)].st = "failed"]
             /\ ldr' = [ldr EXCEPT ![d].pc = "failed"]
          \/ /\ obj' = [obj EXCEPT ![d][Cur(d)].st = "loading"]
             /\ \E x \in {"reading", "spinning"} :
                  ldr' = [ldr EXCEPT ![d].pc = x, ![d].ver = FileOf(d).ver]
          BY <1>6, <2>1 DEF LoaderOpen, Terminate, CannotOpen
    <2>3. Served(d)'.ver = Mixed
      <3>1. obj'[d][Cur(d)].ver = obj[d][Cur(d)].ver
        <4>1. \E x \in {"failed", "loading"} : obj' = [obj EXCEPT ![d][Cur(d)].st = x]
              BY <2>2
        <4> QED
            BY <1>0, <1>2, <4>1 DEF ObjRec
      <3> QED
          BY <1>2, <2>1, <3>1 DEF Served
    <2>4. CASE FileOf(d).kind # "ok" /\ ldr' = [ldr EXCEPT ![d].pc = "failed"]
      <3>1. ldr'[d].pc = "failed"
            BY <1>0, <2>4 DEF LdrRec
      <3> QED
          BY <1>2, <2>4, <3>1 DEF LoadStamped, Current
    <2>5. CASE \E x \in {"reading", "spinning"} :
                 ldr' = [ldr EXCEPT ![d].pc = x, ![d].ver = FileOf(d).ver]
      <3>1. ldr'[d].pc \in {"reading", "spinning"} /\ ldr'[d].ver = FileOf(d).ver
            BY <1>0, <2>5 DEF LdrRec
      <3> QED
          BY <1>2, <2>3, <3>1 DEF LoadStamped, Current
    <2> QED
        BY <2>2, <2>4, <2>5
  <1>7. CASE LoaderRead(d) /\ ldr' # ldr
    <2>1. /\ ldr[d].pc = "reading" /\ ldr[d].o = Cur(d) /\ modify_time' = modify_time
          /\ obj[d][Cur(d)].ver = Mixed /\ Current(d, modify_time[d], ldr[d].ver)
          BY <1>0, <1>7 DEF LoaderRead, LoaderKeeps, Loading, LoadStamped, Served, dictVars
    <2>2. CASE ldr' = [ldr EXCEPT ![d].pc = "spinning"]
      <3>1. ldr'[d].pc = "spinning"
            BY <1>0, <2>2 DEF LdrRec
      <3> QED
          BY <3>1 DEF LoadStamped
    <2>3. CASE ldr' # [ldr EXCEPT ![d].pc = "spinning"]
      <3>1. PICK v \in Contents(d, ldr[d].ver) :
              obj' = [obj EXCEPT ![d][Cur(d)] =
                       [st |-> "loaded", ver |-> IF @.ver \in {Mixed, v} THEN v ELSE Mixed]]
            BY <1>7, <2>1, <2>3 DEF LoaderRead, Terminate
      <3>2. obj'[d][Cur(d)].ver = v
            BY <1>0, <1>2, <2>1, <3>1
      <3>3. ldr' = [ldr EXCEPT ![d].pc = "loaded"]
            BY <1>7, <2>3 DEF LoaderRead, Terminate
      <3>4. ldr'[d].pc = "loaded"
            BY <1>0, <3>3 DEF LdrRec
      <3>5. Current(d, modify_time[d], v)
            BY <2>1, CurrentRead
      <3> QED
          BY <1>2, <2>1, <3>2, <3>4, <3>5 DEF LoadStamped, Served, Current
    <2> QED
        BY <2>2, <2>3
  <1>8. CASE LoaderReport(d)
    <2>1. /\ ldr[d].pc \in {"loaded", "failed"} /\ UNCHANGED <<obj, modify_time>>
          /\ ldr' = ldr \/ ldr' = [ldr EXCEPT ![d] = [pc |-> "done", o |-> Null,
                                                     seen |-> FALSE, ver |-> 0]]
          BY <1>8 DEF LoaderReport, dictVars
    <2>2. ldr'[d] = ldr[d] \/ ldr'[d].pc = "done"
          BY <1>0, <2>1
    <2>3. Served(d)' = Served(d)
          BY <1>2, <2>1 DEF Served
    <2> QED
        BY <1>0, <1>2, <2>1, <2>2, <2>3 DEF LoadStamped, Current
  <1>9. \/ UNCHANGED <<ldr, obj, modify_time>> \/ LoaderBegin(d) \/ LoaderReport(d)
        \/ (LoaderStamp(d) \/ LoaderOpen(d) \/ LoaderRead(d)) /\ ldr' # ldr
    <2>1. CASE LoaderStamp(d)
      <3>1. CASE ldr' = [ldr EXCEPT ![d].pc = "open"]
        <4>1. ldr'[d].pc = "open" /\ ldr[d].pc = "stamp"
              BY <1>0, <2>1, <3>1 DEF LdrRec, LoaderStamp
        <4> QED
            BY <2>1, <4>1
      <3> QED
          BY <2>1, <3>1 DEF LoaderStamp, Terminate
    <2>2. CASE LoaderOpen(d)
      <3>1. CASE ldr' = [ldr EXCEPT ![d].pc = "failed"]
        <4>1. ldr'[d].pc = "failed" /\ ldr[d].pc = "open"
              BY <1>0, <2>2, <3>1 DEF LdrRec, LoaderOpen
        <4> QED
            BY <2>2, <4>1
      <3>2. CASE \E x \in {"reading", "spinning"} :
                   ldr' = [ldr EXCEPT ![d].pc = x, ![d].ver = FileOf(d).ver]
        <4>1. ldr'[d].pc \in {"reading", "spinning"} /\ ldr[d].pc = "open"
              BY <1>0, <2>2, <3>2 DEF LdrRec, LoaderOpen
        <4> QED
            BY <2>2, <4>1
      <3> QED
          BY <2>2, <3>1, <3>2 DEF LoaderOpen, Terminate, dictVars
    <2>3. CASE LoaderRead(d)
      <3>1. CASE ldr' = [ldr EXCEPT ![d].pc = "loaded"]
        <4>1. ldr'[d].pc = "loaded" /\ ldr[d].pc = "reading"
              BY <1>0, <2>3, <3>1 DEF LdrRec, LoaderRead
        <4> QED
            BY <2>3, <4>1
      <3> QED
          BY <2>3, <3>1 DEF LoaderRead, Terminate, dictVars
    <2> QED
        BY <2>1, <2>2, <2>3 DEF LoaderStep
  <1> QED
      BY <1>3, <1>4, <1>5, <1>6, <1>7, <1>8, <1>9

\* The loaders keep StampInv.
LEMMA StampLoader ==
    ASSUME StampInv, NEW d \in Dict, LoaderStep(d)
    PROVE  StampInv'
  <1>0. /\ TypeInv /\ VersionInv' /\ modify_time \in [Dict -> Nat]
        BY VersionNext DEF StampInv, VersionInv, OwnInv, SlotInv, Next, TypeInv, TypeOK,
           SlotType
  <1>1. /\ UNCHANGED <<file, dicts, cur_index, main, syncRet, ck>>
        /\ Running(d) /\ HasPath(d)
        /\ \A e \in Dict \ {d} : /\ ldr'[e] = ldr[e] /\ obj'[e] = obj[e]
                                 /\ modify_time'[e] = modify_time[e]
        BY <1>0, LoaderFrame DEF startVars
  <1>2. syncRet # 0
        BY <1>1 DEF StampInv, VersionInv, OwnInv, JoinInv, AllJoined
  <1>3. Bounded(d, modify_time[d])'
    <2>1. PICK m : m = modify_time'[d]
          OBVIOUS
    <2>2. m = modify_time[d] \/ m = 0 \/ m \in Mtimes(d)
      <3>1. \/ modify_time' = modify_time
            \/ \E n : (n = 0 \/ n \in Mtimes(d))
                      /\ modify_time' = [modify_time EXCEPT ![d] = n]
            BY DEF LoaderStep, LoaderBegin, LoaderStamp, LoaderOpen, LoaderRead,
               LoaderReport, Terminate, dictVars
      <3> QED
          BY <1>0, <2>1, <3>1
    <2>3. Bounded(d, modify_time[d])
          BY <1>1 DEF StampInv, StampsBounded, StampWithin
    <2>4. Bounded(d, m)
          BY <1>0, <1>1, <2>2, <2>3, StampTaken
    <2> QED
        BY <1>1, <2>1, <2>4 DEF Bounded, FileOf
  <1>4. StampsBounded'
    <2>1. ASSUME NEW e \in Dict, HasPath(e), e # d PROVE StampWithin(e)'
          BY <1>1, <2>1 DEF StampInv, StampsBounded, StampWithin, Bounded, FileOf, Filling
    <2>2. StampWithin(d)'
          BY <1>1, <1>3 DEF StampInv, StampsBounded, StampWithin, Bounded, FileOf, Filling
    <2> QED
        BY <2>1, <2>2 DEF StampsBounded, HasPath
  <1>5. LoadersStamped'
    <2> SUFFICES ASSUME main.pc # "serving", NEW e \in Dict, HasPath(e)
                 PROVE  LoadStamped(e)'
        BY <1>1 DEF LoadersStamped, HasPath
    <2>1. CASE e = d
          BY <2>1, StampLoad
    <2>2. CASE e # d
          BY <1>1, <2>2 DEF StampInv, LoadersStamped, LoadStamped, Current, FileOf,
             Served, Cur
    <2> QED
        BY <2>1, <2>2
  <1> QED
      BY <1>0, <1>1, <1>2, <1>4, <1>5 DEF StampInv, CheckerStamped, ServedStamped

\* The checker gets to open a file by looking at its modification time.
LEMMA OpeningFrom ==
    ASSUME TypeInv, CheckStep, ck'.pc = "open", ck' # ck
    PROVE  /\ CheckStamp /\ ck.pc = "stamp" /\ ck'.d = ck.d
           /\ ck'.new_mtime = 0 \/ ck'.new_mtime \in Mtimes(ck.d)
  <1>0. ck \in CkRec
        BY DEF TypeInv, TypeOK
  <1>1. ~CheckVisit /\ ~CheckSwitch /\ ~CheckSleep
    <2>1. ~CheckSwitch
          BY DEF CheckSwitch, CkOff
    <2>2. ASSUME CheckVisit \/ CheckSleep PROVE FALSE
      <3>1. ~Working
            BY <2>2 DEF CheckVisit, CheckSleep, Working
      <3> QED
          BY <3>1, CheckerMoves DEF WorksOn, Enters, GoesOn, Stops, FallsAsleep, WakesUp, CkOff
    <2> QED
        BY <2>1, <2>2
  <1>2. ~CheckRead /\ ~CheckAssign
        BY <1>0 DEF CheckRead, CheckAssign, Terminate, CkRec
  <1>3. ~CheckOpen
    <2>1. SUFFICES ASSUME CheckOpen PROVE FALSE
          OBVIOUS
    <2>2. \/ ck' = CkOff(ck.k + 1)
          \/ \E x \in {"reading", "spinning"} :
               ck' = [ck EXCEPT !.pc = x, !.ver = FileOf(ck.d).ver]
          BY <2>1 DEF CheckOpen, Terminate
    <2>3. CkOff(ck.k + 1).pc = "visit"
          BY DEF CkOff
    <2>4. \A x \in {"reading", "spinning"} :
            [ck EXCEPT !.pc = x, !.ver = FileOf(ck.d).ver].pc = x
          BY <1>0 DEF CkRec
    <2> QED
        BY <2>2, <2>3, <2>4
  <1>4. CheckStamp
        BY <1>1, <1>2, <1>3 DEF CheckStep
  <1>5. ck' # CkOff(ck.k + 1)
        BY DEF CkOff
  <1>6. PICK m : /\ m = 0 \/ m \in Mtimes(ck.d)
                 /\ ck' = [ck EXCEPT !.pc = "open", !.o = Fresh(ck.d), !.new_mtime = m]
        BY <1>4, <1>5 DEF CheckStamp, CompareMtime, Terminate
  <1>7. ck'.d = ck.d /\ ck'.new_mtime = m
        BY <1>0, <1>6 DEF CkRec
  <1> QED
      BY <1>4, <1>6, <1>7 DEF CheckStamp

\* The checker, like a loader, takes the stamp first, and assigns it together
\* with what it opened afterwards.
LEMMA StampCheck ==
    ASSUME StampInv, CheckStep
    PROVE  StampInv'
  <1>0. /\ TypeInv /\ VersionInv' /\ modify_time \in [Dict -> Nat] /\ ck \in CkRec
        /\ obj \in [Dict -> [Obj -> ObjRec]] /\ OwnInv /\ cur_index \in [Dict -> 0..1]
        BY VersionNext DEF StampInv, VersionInv, OwnInv, SlotInv, Next, TypeInv, TypeOK,
           SlotType
  <1>1. /\ UNCHANGED <<file, main, syncRet, ldr>>
        /\ ck.pc # "off"
        BY <1>0, CheckerMoves DEF Working
  <1>2. main.pc = "serving"
        BY <1>1 DEF StampInv, VersionInv, OwnInv, SlotInv, BeforeServing
  <1>3. \/ modify_time' = modify_time /\ ~CheckAssign
        \/ CheckAssign /\ modify_time' = [modify_time EXCEPT ![ck.d] = ck.new_mtime]
    <2>1. CASE CheckAssign
          BY <2>1 DEF CheckAssign
    <2>2. CASE ~CheckAssign
          BY <2>2 DEF CheckStep, CheckVisit, CheckStamp, CheckOpen, CheckRead,
             CheckSwitch, CheckSleep, dictVars
    <2> QED
        BY <2>1, <2>2
  <1>4. CheckAssign => /\ ck.pc = "assign" /\ ck.d \in Dict /\ HasPath(ck.d)
                       /\ modify_time'[ck.d] = ck.new_mtime
        BY <1>0, <1>3 DEF CheckAssign, TypeInv, PathInv
  <1>5. ASSUME NEW d \in Dict, HasPath(d) PROVE StampWithin(d)'
    <2>1. /\ StampWithin(d) /\ FileOf(d)' = FileOf(d)
          BY <1>1, <1>5 DEF StampInv, StampsBounded, FileOf
    <2>2. Bounded(d, modify_time[d])'
      <3>1. CASE modify_time'[d] = modify_time[d]
            BY <2>1, <3>1 DEF StampWithin, Bounded
      <3>2. CASE modify_time'[d] # modify_time[d]
        <4>1. d = ck.d /\ ck.pc = "assign" /\ modify_time'[d] = ck.new_mtime
              BY <1>0, <1>3, <1>4, <3>2
        <4>2. Bounded(d, ck.new_mtime)
              BY <2>1, <4>1 DEF StampWithin, Filling
        <4> QED
            BY <2>1, <4>1, <4>2 DEF Bounded
      <3> QED
          BY <3>1, <3>2
    <2>3. ASSUME ck'.pc \in {"open", "reading", "assign"}, ck'.d = d
          PROVE  Bounded(d, ck.new_mtime)'
      <3>1. CASE Filling /\ ck.d = d /\ ck'.new_mtime = ck.new_mtime
            BY <2>1, <3>1 DEF StampWithin, Bounded
      <3>2. CASE ck'.pc = "assign"
        <4>1. CheckRead /\ ck'.d = ck.d /\ ck'.new_mtime = ck.new_mtime
              BY <1>0, <3>2, HandsOver
        <4>2. ck.pc = "reading"
              BY <4>1 DEF CheckRead
        <4> QED
            BY <2>3, <3>1, <4>1, <4>2 DEF Filling
      <3>3. CASE ck' = ck
            BY <2>3, <3>1, <3>3 DEF Filling
      <3>4. CASE ck'.pc = "reading" /\ ck' # ck
            BY <1>0, <2>3, <3>1, <3>4, ReadingFrom DEF Filling
      <3>5. CASE ck'.pc = "open" /\ ck' # ck
        <4>1. PICK m : m = ck'.new_mtime
              OBVIOUS
        <4>2. ck'.d = ck.d /\ (m = 0 \/ m \in Mtimes(ck.d))
              BY <1>0, <3>5, <4>1, OpeningFrom
        <4>3. Bounded(d, m)
              BY <1>0, <1>5, <2>3, <4>2, StampTaken
        <4> QED
            BY <2>1, <4>1, <4>3 DEF Bounded
      <3> QED
          BY <2>3, <3>2, <3>3, <3>4, <3>5
    <2> QED
        BY <2>1, <2>2, <2>3 DEF StampWithin, Filling
  <1>6. ASSUME syncRet = 0 PROVE CheckerStamped'
    <2>0. PICK d, o, m : d = ck.d /\ o = ck.o /\ m = ck.new_mtime
          OBVIOUS
    <2>1. FileOf(d)' = FileOf(d)
          BY <1>1 DEF FileOf
    <2>2. CASE ck'.pc = "reading"
      <3>1. CASE ck' = ck
        <4>1. Current(d, m, ck.ver)
              BY <1>6, <2>0, <2>2, <3>1 DEF StampInv, CheckerStamped
        <4> QED
            BY <2>0, <2>1, <2>2, <3>1, <4>1 DEF CheckerStamped, Current
      <3>2. CASE ck' # ck
        <4>1. ck'.d = d /\ ck'.ver = FileOf(d).ver
              BY <1>0, <2>0, <2>2, <3>2, ReadingFrom
        <4> QED
            BY <2>1, <2>2, <4>1 DEF CheckerStamped, Current
      <3> QED
          BY <3>1, <3>2
    <2>3. CASE ck'.pc = "assign"
      <3>1. /\ CheckRead /\ ck'.d = d /\ ck'.o = o /\ ck'.new_mtime = m
            BY <1>0, <2>0, <2>3, HandsOver
      <3>2. ck.pc = "reading" /\ ck' # ck /\ ck' # [ck EXCEPT !.pc = "spinning"]
            BY <1>0, <2>3, <3>1 DEF CheckRead, CkRec
      <3>3. PICK v \in Contents(d, ck.ver) :
              obj' = [obj EXCEPT ![d][o] = [st |-> "loaded", ver |-> v]]
            BY <2>0, <3>1, <3>2 DEF CheckRead, Terminate
      <3>4. d \in Dict /\ o \in Obj
            BY <1>0, <2>0, <3>2 DEF TypeInv, PathInv
      <3>5. obj'[d][o].ver = v
            BY <1>0, <3>3, <3>4
      <3>6. Current(d, m, ck.ver)
            BY <1>6, <2>0, <3>2 DEF StampInv, CheckerStamped
      <3>7. Current(d, m, v)
            BY <3>6, CurrentRead
      <3> QED
          BY <2>1, <2>3, <3>1, <3>5, <3>7 DEF CheckerStamped, Current
    <2>4. CASE ck'.pc = "switch"
      <3>1. /\ CheckAssign /\ ck'.d = d /\ ck'.o = o
            BY <1>0, <2>0, <2>4, HandsOver
      <3>2. ck.pc = "assign" /\ obj' = obj /\ modify_time'[d] = m
            BY <1>4, <2>0, <3>1 DEF CheckAssign
      <3>3. Current(d, m, obj[d][o].ver)
            BY <1>6, <2>0, <3>2 DEF StampInv, CheckerStamped
      <3> QED
          BY <2>1, <2>4, <3>1, <3>2, <3>3 DEF CheckerStamped, Current
    <2> QED
        BY <2>2, <2>3, <2>4 DEF CheckerStamped
  <1>7. ASSUME syncRet = 0, NEW d \in Dict, HasPath(d), ~Switching(d)'
        PROVE  Current(d, modify_time[d], Served(d).ver)'
    <2>0. FileOf(d)' = FileOf(d)
          BY <1>1 DEF FileOf
    <2>1. CASE CheckSwitch
      <3>1. /\ ck.pc = "switch" /\ UNCHANGED <<dicts, obj, modify_time>>
            /\ cur_index' = [cur_index EXCEPT ![ck.d] = ck.bg]
            BY <2>1 DEF CheckSwitch
      <3>2. CASE d = ck.d
        <4>1. Served(d)' = obj[d][ck.o]
              BY <1>0, <3>1, <3>2 DEF Served, Cur, OwnInv, Hold, SwitchSlot
        <4>2. Current(d, modify_time[d], obj[d][ck.o].ver)
              BY <1>7, <3>1, <3>2 DEF StampInv, CheckerStamped
        <4> QED
            BY <2>0, <3>1, <4>1, <4>2 DEF Current
      <3>3. CASE d # ck.d
        <4>1. Served(d)' = Served(d) /\ ~Switching(d)
              BY <1>0, <3>1, <3>3 DEF Served, Cur, Switching
        <4> QED
            BY <1>7, <2>0, <3>1, <4>1 DEF Current, StampInv, ServedStamped
      <3> QED
          BY <3>2, <3>3
    <2>2. CASE ~CheckSwitch
      <3>1. Served(d)' = Served(d)
            BY <1>0, <1>7, <2>2, ServedKept DEF Next
      <3>2. ck.pc # "switch"
            BY <2>2 DEF CheckStep, CheckVisit, CheckStamp, CheckOpen, CheckRead,
               CheckAssign, CheckSleep
      <3>3. modify_time'[d] = modify_time[d]
        <4>1. SUFFICES ASSUME CheckAssign, d = ck.d PROVE FALSE
              BY <1>0, <1>3
        <4>2. ck' = [ck EXCEPT !.pc = "switch"]
              BY <4>1 DEF CheckAssign
        <4>3. ck'.pc = "switch" /\ ck'.d = d
              BY <1>0, <4>1, <4>2 DEF CkRec
        <4> QED
            BY <1>7, <4>3 DEF Switching
      <3>4. Current(d, modify_time[d], Served(d).ver)
            BY <1>7, <3>2 DEF StampInv, ServedStamped, Switching
      <3> QED
          BY <2>0, <3>1, <3>3, <3>4 DEF Current
    <2> QED
        BY <2>1, <2>2
  <1>8. CheckerStamped'
        BY <1>1, <1>6 DEF CheckerStamped
  <1> QED
      BY <1>0, <1>1, <1>2, <1>5, <1>7, <1>8 DEF StampInv, StampsBounded, LoadersStamped,
         ServedStamped, HasPath

\* Every step of every thread keeps StampInv.
LEMMA StampNext == Distinguishable /\ StampInv /\ [Next]_vars => StampInv'
  BY StampEnv, StampMain, StampLoader, StampCheck DEF EnvStep, Next

\* If two writes of one file are further apart than get_file_last_mtime is off,
\* an update cannot be overlooked: while the checker is not at work on a
\* dictionary that does not hold what its file holds, modify_time differs from
\* whatever get_file_last_mtime would return (dict_manager.cpp:66-81).
THEOREM StaleDetected == Distinguishable => (Spec => []StaleIsDetectable)
  <1> SUFFICES ASSUME Distinguishable PROVE Spec => []StaleIsDetectable
      OBVIOUS
  <1>1. StampInv => StaleIsDetectable
    <2> SUFFICES ASSUME StampInv, NEW d \in Dict, syncRet = 0, ck.d # d, HasPath(d),
                        FileOf(d).kind = "ok", Served(d).ver # FileOf(d).ver
                 PROVE  modify_time[d] \notin Mtimes(d)
        BY DEF StaleIsDetectable
    <2>1. Current(d, modify_time[d], Served(d).ver)
          BY DEF StampInv, ServedStamped, Switching
    <2>2. modify_time[d] < FileOf(d).mtime
          BY <2>1 DEF Current
    <2>3. FileOf(d).mtime \in Nat /\ modify_time[d] \in Nat /\ Jitter \in Nat
          BY StampTypes DEF StampInv, VersionInv, OwnInv, SlotInv
    <2> HIDE DEF FileOf
    <2> QED
        BY <2>2, <2>3 DEF Mtimes
  <1>2. StampInv /\ [Next]_vars => StampInv'
        BY StampNext
  <1> QED
      BY <1>1, <1>2, StampInit, PTL DEF Spec

================================================================================
