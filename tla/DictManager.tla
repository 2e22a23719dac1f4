------------------------------ MODULE DictManager ------------------------------
(***************************************************************************)
(* The dictionaries of the rank server: example/brpc/plugins/dict and the  *)
(* start-up of example/brpc/common/global.h.  main() loads every           *)
(* registered dictionary in a bthread of its own (parallel_sync_load),     *)
(* starts a detached thread that looks for newer files once an hour        *)
(* (check), and code all over the server reads a dictionary with GET_DICT. *)
(* A dictionary has two slots; cur_index says which one is served.         *)
(*                                                                         *)
(* Files are written by somebody else.  The contents of a file is a        *)
(* version number; an object that was loaded while the file was being      *)
(* rewritten may hold a mixture, written Mixed.                            *)
(***************************************************************************)
EXTENDS Integers, Sequences, FiniteSets

CONSTANTS Dict,       \* the registered dictionaries
          Handers,    \* dict_hander_vect: the dictionaries in order
          Path,       \* the dictionary files
          NoPath,     \* an empty dict_file_path
          PathOf,     \* dict_file_path of each dictionary
          InitOK,     \* what init() of each dictionary's class returns
          Obj,        \* addresses of dictionary objects
          Null,
          Reader,     \* code that uses GET_DICT
          Kinds,      \* what the environment may turn a file into
          Deltas,     \* seconds between two writes of one file
          Jitter,     \* error of get_file_last_mtime, in seconds
          MaxWrite,   \* bound: writes of each file
          Period,     \* the checker's sleep_time (3600 s)
          Retain,     \* how long an old dictionary is kept (300 s)
          GetWindow   \* longest time between the two loads of GET_DICT

\* "unreadable": stat() succeeds and open() does not; "malformed": a field is no
\* number; "failing": a read ends in an I/O error; "inaccessible": a directory on
\* the way to the file may not be searched, so that stat() itself fails.
AllKinds == {"ok", "unreadable", "malformed", "failing", "absent", "inaccessible"}
Mixed == 0

ASSUME HandersAssumption ==
    /\ Handers \in Seq(Dict)
    /\ \A d \in Dict : \E k \in 1..Len(Handers) : Handers[k] = d
    /\ \A j, k \in 1..Len(Handers) : Handers[j] = Handers[k] => j = k
ASSUME PathAssumption == NoPath \notin Path /\ PathOf \in [Dict -> Path \cup {NoPath}]
ASSUME InitAssumption == InitOK \in [Dict -> BOOLEAN]
\* operator new does not run out: two slots, loader, checker and readers.
ASSUME ObjAssumption ==
    /\ Null \notin Obj
    /\ IsFiniteSet(Obj) /\ IsFiniteSet(Reader)
    /\ Cardinality(Obj) > Cardinality(Reader) + 4
ASSUME KindsAssumption == Kinds \subseteq AllKinds
ASSUME DeltasAssumption == Deltas \subseteq Nat
ASSUME BoundsAssumption == MaxWrite \in Nat /\ Jitter \in Nat
\* 3600 s is longer than 300 s and than any delay between two loads.
ASSUME ClockAssumption ==
    /\ Period \in Nat /\ Retain \in Nat /\ GetWindow \in Nat
    /\ Retain < Period /\ GetWindow < Period

VARIABLES
    file,         \* [Path -> [kind, ver, mtime]]
    dicts,        \* DictHander::dicts, two slots per dictionary
    cur_index,    \* DictHander::cur_index
    modify_time,  \* DictHander::modify_time
    age,          \* now - load_finish_time, saturating at Retain + 1
    obj,          \* the dictionary objects: [st, ver]
    proc,         \* "up"; "exited"; "terminated" by an uncaught exception;
                  \* "undefined" after control ran off load_dict_by_thread
    main,         \* main(): [pc, k], k indexes dict_hander_vect
    started,      \* what bthread_start_background returned last: 0 or 1
    ret,          \* DictLoadArg::ret of each dictionary
    argsLive,     \* load_args exists
    strayWrite,   \* a loader has written to load_args after it was freed
    syncRet,      \* what parallel_sync_load() returned; 1 before it returns
    ldr,          \* the loader bthread of each dictionary
    ck,           \* the checker thread
    nap,          \* what is left of the checker's sleep
    rd            \* the readers

dictVars == <<dicts, cur_index, modify_time, age>>
startVars == <<main, started, syncRet>>
argVars == <<ret, argsLive, strayWrite>>
vars == <<file, dictVars, obj, proc, startVars, argVars, ldr, ck, nap, rd>>

\* Objects still reachable from a shared_ptr.
Refs(d) == {dicts[d][0], dicts[d][1], ldr[d].o}
             \cup (IF ck.d = d THEN {ck.o} ELSE {})
             \cup {rd[r].o : r \in {r \in Reader : rd[r].d = d}}

\* cfunc(): make_shared of the dictionary's class.
Fresh(d) == CHOOSE o \in Obj : o \notin Refs(d)
CanAllocate(d) == Obj \ Refs(d) # {}
NewObj == [st |-> "fresh", ver |-> Mixed]

FileOf(d) == file[PathOf[d]]
\* exists() says no only of a file that is not there; when it cannot find out it
\* throws, as last_write_time() does in both cases.  Nobody catches that.
ExistsThrows(d) == FileOf(d).kind = "inaccessible"
StampThrows(d) == FileOf(d).kind \in {"absent", "inaccessible"}
\* get_file_last_mtime of a file that exists: the two now() calls of line 49
\* do not cancel, so the second may be off.
Mtimes(d) == {FileOf(d).mtime + j : j \in 0..Jitter}

Idle == [pc |-> "idle", d |-> Null, o |-> Null, idx |-> 0, age |-> 0]

Init ==
    /\ file \in [Path -> {[kind |-> x, ver |-> 1, mtime |-> 1] : x \in Kinds}]
    /\ dicts = [d \in Dict |-> [i \in 0..1 |-> Null]]
    /\ cur_index = [d \in Dict |-> 0]
    /\ modify_time = [d \in Dict |-> 0]
    /\ age = [d \in Dict |-> Retain + 1]
    /\ obj = [d \in Dict |-> [o \in Obj |-> NewObj]]
    /\ proc = "up"
    /\ main = [pc |-> "spawn", k |-> 1]
    /\ started = 0
    /\ ret = [d \in Dict |-> 0]
    /\ argsLive = TRUE
    /\ strayWrite = FALSE
    /\ syncRet = 1
    /\ ldr = [d \in Dict |-> [pc |-> "none", o |-> Null, seen |-> FALSE, ver |-> 0]]
    /\ ck = [pc |-> "off", k |-> 1, d |-> Null, o |-> Null, bg |-> 0,
             seen |-> FALSE, ver |-> 0, new_mtime |-> 0]
    /\ nap = 0
    /\ rd = [r \in Reader |-> Idle]

--------------------------------------------------------------------------------
(* The environment: files, and time. *)

Write(p) ==
    /\ proc = "up"
    /\ file[p].ver <= MaxWrite
    /\ \E x \in Kinds, s \in Deltas :
         file' = [file EXCEPT ![p] = [kind |-> x, ver |-> @.ver + 1, mtime |-> @.mtime + s]]
    /\ UNCHANGED <<dictVars, obj, proc, startVars, argVars, ldr, ck, nap, rd>>

\* Nobody stays between the two loads of GET_DICT longer than GetWindow.
Tick ==
    /\ proc = "up"
    /\ \A r \in Reader : rd[r].pc = "copy" => rd[r].age < GetWindow
    /\ nap' = IF nap > 0 THEN nap - 1 ELSE 0
    /\ age' = [d \in Dict |-> IF age[d] <= Retain THEN age[d] + 1 ELSE age[d]]
    /\ rd' = [r \in Reader |-> IF rd[r].pc = "copy" THEN [rd[r] EXCEPT !.age = @ + 1]
                                                    ELSE rd[r]]
    /\ UNCHANGED <<file, dicts, cur_index, modify_time, obj, proc, startVars,
                   argVars, ldr, ck>>

--------------------------------------------------------------------------------
(* main(): parallel_sync_load(), run() *)

Cur(d) == dicts[d][cur_index[d]]
HasPath(d) == PathOf[d] # NoPath

\* Lines 125-143: the object is put into the slot, init()'s result is ignored,
\* and the loader is started; bthread_start_background may fail.
MainSpawn ==
    /\ proc = "up" /\ main.pc = "spawn" /\ main.k <= Len(Handers)
    /\ LET d == Handers[main.k] IN
         \/ /\ ~HasPath(d)
            /\ main' = [main EXCEPT !.k = @ + 1]
            /\ UNCHANGED <<dicts, obj, started, ldr>>
         \/ /\ HasPath(d)
            /\ CanAllocate(d)
            /\ dicts' = [dicts EXCEPT ![d][cur_index[d]] = Fresh(d)]
            /\ obj' = [obj EXCEPT ![d][Fresh(d)] = NewObj]
            /\ \/ started' = 0 /\ ldr' = [ldr EXCEPT ![d].pc = "ready"]
               \/ started' = 1 /\ UNCHANGED ldr
            /\ main' = [main EXCEPT !.pc = "store"]
    /\ UNCHANGED <<file, cur_index, modify_time, age, proc, syncRet, argVars,
                   ck, nap, rd>>

\* Lines 143-148: the assignment to args.ret happens after the loader runs.
MainStore ==
    /\ proc = "up" /\ main.pc = "store"
    /\ ret' = [ret EXCEPT ![Handers[main.k]] = started]
    /\ main' = [pc |-> "spawn", k |-> main.k + 1]
    /\ UNCHANGED <<file, dictVars, obj, proc, started, syncRet, argsLive,
                   strayWrite, ldr, ck, nap, rd>>

\* Mutant: the loop of lines 150-156 is skipped.
MainSpawnedNoJoin ==
    /\ proc = "up" /\ main.pc = "spawn" /\ main.k > Len(Handers)
    /\ main' = [pc |-> "join", k |-> Len(Handers) + 1]
    /\ UNCHANGED <<file, dictVars, obj, proc, started, syncRet, argVars, ldr,
                   ck, nap, rd>>

MainSpawned ==
    /\ proc = "up" /\ main.pc = "spawn" /\ main.k > Len(Handers)
    /\ main' = [pc |-> "join", k |-> 1]
    /\ UNCHANGED <<file, dictVars, obj, proc, started, syncRet, argVars, ldr,
                   ck, nap, rd>>

\* Mutant: line 151 is missing.
MainJoinNoWait ==
    /\ proc = "up" /\ main.pc = "join" /\ main.k <= Len(Handers)
    /\ LET d == Handers[main.k] IN
         IF ret[d] # 0
           THEN /\ syncRet' = -1
                /\ argsLive' = FALSE
                /\ main' = [main EXCEPT !.pc = "check"]
           ELSE /\ main' = [main EXCEPT !.k = @ + 1]
                /\ UNCHANGED <<syncRet, argsLive>>
    /\ UNCHANGED <<file, dictVars, obj, proc, started, ret, strayWrite, ldr,
                   ck, nap, rd>>

\* Mutant: a loader that was never started is waited for.
MainJoinNeverStarted ==
    /\ proc = "up" /\ main.pc = "join" /\ main.k <= Len(Handers)
    /\ LET d == Handers[main.k] IN
         /\ ldr[d].pc = "done"
         /\ IF ret[d] # 0
              THEN /\ syncRet' = -1
                   /\ argsLive' = FALSE
                   /\ main' = [main EXCEPT !.pc = "check"]
              ELSE /\ main' = [main EXCEPT !.k = @ + 1]
                   /\ UNCHANGED <<syncRet, argsLive>>
    /\ UNCHANGED <<file, dictVars, obj, proc, started, ret, strayWrite, ldr,
                   ck, nap, rd>>

\* Lines 150-156: a failed loader ends the loop, the others are not joined.
MainJoin ==
    /\ proc = "up" /\ main.pc = "join" /\ main.k <= Len(Handers)
    /\ LET d == Handers[main.k] IN
         /\ ldr[d].pc \in {"none", "done"}
         /\ IF ret[d] # 0
              THEN /\ syncRet' = -1
                   /\ argsLive' = FALSE
                   /\ main' = [main EXCEPT !.pc = "check"]
              ELSE /\ main' = [main EXCEPT !.k = @ + 1]
                   /\ UNCHANGED <<syncRet, argsLive>>
    /\ UNCHANGED <<file, dictVars, obj, proc, started, ret, strayWrite, ldr,
                   ck, nap, rd>>

MainJoined ==
    /\ proc = "up" /\ main.pc = "join" /\ main.k > Len(Handers)
    /\ syncRet' = 0
    /\ argsLive' = FALSE
    /\ main' = [main EXCEPT !.pc = "check"]
    /\ UNCHANGED <<file, dictVars, obj, proc, started, ret, strayWrite, ldr,
                   ck, nap, rd>>

\* Lines 34-44: the result of the load is not looked at; run() fails, and with
\* it init() and main(), only when the checker cannot be started.
MainStartCheck ==
    /\ proc = "up" /\ main.pc = "check"
    /\ \/ /\ ck' = [ck EXCEPT !.pc = "visit"]
          /\ main' = [main EXCEPT !.pc = "serving"]
          /\ UNCHANGED proc
       \/ /\ proc' = "exited"
          /\ UNCHANGED <<ck, main>>
    /\ UNCHANGED <<file, dictVars, obj, started, syncRet, argVars, ldr, nap, rd>>
--------------------------------------------------------------------------------
(* load() of CommonFileDict and OfferBidRatio: open, then read line by line.  *)
(* boost::bad_lexical_cast, thrown for a field that is no number, is not the  *)
(* std::invalid_argument that split_new_v1 catches: it ends the process.  A   *)
(* read that fails sets badbit and never eofbit: the loop goes on for ever.   *)

CannotOpen(d) == FileOf(d).kind \in {"absent", "inaccessible", "unreadable"}
Throws(d) == FileOf(d).kind = "malformed"
ReadFails(d) == FileOf(d).kind = "failing"

\* What an object may hold that was empty when a file of version v was opened:
\* the file may have been rewritten in place or replaced since.
Contents(d, v) == IF FileOf(d).ver = v THEN {v} ELSE {v, Mixed}

Terminate(pcs) == proc' = "terminated" /\ UNCHANGED pcs

--------------------------------------------------------------------------------
(* load_dict_by_thread(), the loader bthread of dictionary d *)

\* Mutant: get_file_last_mtime does not ask exists().
LoaderBeginBlind(d) ==
    /\ proc = "up" /\ ldr[d].pc = "ready"
    /\ ldr' = [ldr EXCEPT ![d] =
                 IF Cur(d) = Null THEN [@ EXCEPT !.pc = "failed"]
                 ELSE [@ EXCEPT !.pc = "stamp", !.o = Cur(d), !.seen = TRUE]]
    /\ UNCHANGED <<file, dictVars, obj, proc, startVars, argVars, ck, nap, rd>>

\* Lines 92-101: the slot is read, and exists() is asked about the file.
LoaderBegin(d) ==
    /\ proc = "up" /\ ldr[d].pc = "ready"
    /\ \/ /\ Cur(d) = Null \/ ~ExistsThrows(d)
          /\ ldr' = [ldr EXCEPT ![d] =
                       IF Cur(d) = Null THEN [@ EXCEPT !.pc = "failed"]
                       ELSE [@ EXCEPT !.pc = "stamp", !.o = Cur(d),
                                      !.seen = FileOf(d).kind # "absent"]]
          /\ UNCHANGED proc
       \/ /\ Cur(d) # Null /\ ExistsThrows(d)
          /\ Terminate(ldr)
    /\ UNCHANGED <<file, dictVars, obj, startVars, argVars, ck, nap, rd>>

\* Line 101: modify_time is set before the file is read; last_write_time
\* throws if the file has vanished since exists().
LoaderStamp(d) ==
    /\ proc = "up" /\ ldr[d].pc = "stamp"
    /\ \/ /\ ~ldr[d].seen
          /\ modify_time' = [modify_time EXCEPT ![d] = 0]
          /\ ldr' = [ldr EXCEPT ![d].pc = "open"]
          /\ UNCHANGED proc
       \/ /\ ldr[d].seen /\ ~StampThrows(d)
          /\ \E m \in Mtimes(d) : modify_time' = [modify_time EXCEPT ![d] = m]
          /\ ldr' = [ldr EXCEPT ![d].pc = "open"]
          /\ UNCHANGED proc
       \/ /\ ldr[d].seen /\ StampThrows(d)
          /\ Terminate(<<ldr, modify_time>>)
    /\ UNCHANGED <<file, dicts, cur_index, age, obj, startVars, argVars, ck,
                   nap, rd>>

LoaderOpen(d) ==
    /\ proc = "up" /\ ldr[d].pc = "open"
    /\ \/ /\ CannotOpen(d)
          /\ obj' = [obj EXCEPT ![d][ldr[d].o].st = "failed"]
          /\ ldr' = [ldr EXCEPT ![d].pc = "failed"]
          /\ UNCHANGED proc
       \/ /\ ~CannotOpen(d) /\ ~Throws(d)
          /\ obj' = [obj EXCEPT ![d][ldr[d].o].st = "loading"]
          /\ ldr' = [ldr EXCEPT ![d].pc = IF ReadFails(d) THEN "spinning" ELSE "reading",
                                ![d].ver = FileOf(d).ver]
          /\ UNCHANGED proc
       \/ /\ Throws(d)
          /\ Terminate(<<ldr, obj>>)
    /\ UNCHANGED <<file, dictVars, startVars, argVars, ck, nap, rd>>

\* An object the checker has filled in the meantime gets the new lines on top.
LoaderRead(d) ==
    /\ proc = "up" /\ ldr[d].pc = "reading"
    /\ \/ /\ \E v \in Contents(d, ldr[d].ver) :
               obj' = [obj EXCEPT ![d][ldr[d].o] =
                         [st |-> "loaded",
                          ver |-> IF @.ver \in {Mixed, v} THEN v ELSE Mixed]]
          /\ ldr' = [ldr EXCEPT ![d].pc = "loaded"]
          /\ UNCHANGED proc
       \/ /\ FileOf(d).ver # ldr[d].ver /\ ReadFails(d)
          /\ ldr' = [ldr EXCEPT ![d].pc = "spinning"]
          /\ UNCHANGED <<obj, proc>>
       \/ /\ FileOf(d).ver # ldr[d].ver /\ Throws(d)
          /\ Terminate(<<ldr, obj>>)
    /\ UNCHANGED <<file, dictVars, startVars, argVars, ck, nap, rd>>

\* Lines 97, 105-112: the verdict goes into load_args, which main may have
\* freed.  Only the path of line 99 returns; after line 105 or 110 control
\* runs off the end of a non-void function.
LoaderReport(d) ==
    /\ proc = "up" /\ ldr[d].pc \in {"loaded", "failed"}
    /\ IF argsLive
         THEN /\ ret' = [ret EXCEPT ![d] = IF ldr[d].pc = "loaded" THEN 0 ELSE -1]
              /\ UNCHANGED strayWrite
         ELSE /\ strayWrite' = TRUE
              /\ UNCHANGED ret
    /\ \/ /\ ldr' = [ldr EXCEPT ![d] = [pc |-> "done", o |-> Null,
                                        seen |-> FALSE, ver |-> 0]]
          /\ UNCHANGED proc
       \/ /\ ldr[d].o # Null
          /\ proc' = "undefined"
          /\ UNCHANGED ldr
    /\ UNCHANGED <<file, dictVars, obj, startVars, argsLive, ck, nap, rd>>

--------------------------------------------------------------------------------
(* check(), the checker thread *)

CkOff(k) == [pc |-> "visit", k |-> k, d |-> Null, o |-> Null, bg |-> 0,
             seen |-> FALSE, ver |-> 0, new_mtime |-> 0]

\* exists() is asked about the file of the dictionary d that is visited.
AskExists(d, bg) ==
    IF ExistsThrows(d) THEN Terminate(ck)
    ELSE /\ ck' = [ck EXCEPT !.pc = "stamp", !.d = d, !.bg = bg,
                             !.seen = FileOf(d).kind # "absent"]
         /\ UNCHANGED proc

\* Mutant: lines 61-65 are missing.
CheckVisitKeepsOld ==
    /\ proc = "up" /\ ck.pc = "visit" /\ ck.k <= Len(Handers)
    /\ LET d == Handers[ck.k] IN
         \/ Cur(d) = Null /\ ck' = CkOff(ck.k + 1) /\ UNCHANGED proc
         \/ Cur(d) # Null /\ AskExists(d, 1 - cur_index[d])
    /\ UNCHANGED <<file, dictVars, obj, startVars, argVars, ldr, nap, rd>>

\* Mutant: line 54 computes cur_idx + 1.
CheckVisitNextSlot ==
    /\ proc = "up" /\ ck.pc = "visit" /\ ck.k <= Len(Handers)
    /\ LET d == Handers[ck.k] IN
         \/ Cur(d) = Null /\ ck' = CkOff(ck.k + 1) /\ UNCHANGED proc
         \/ Cur(d) # Null /\ AskExists(d, cur_index[d] + 1)
    /\ UNCHANGED <<file, dictVars, obj, startVars, argVars, ldr, nap, rd>>

\* Lines 50-66: an old dictionary is dropped once it has been out of use for
\* more than Retain; exists() is asked about the file.
CheckVisit ==
    /\ proc = "up" /\ ck.pc = "visit" /\ ck.k <= Len(Handers)
    /\ LET d == Handers[ck.k]
           bg == 1 - cur_index[d] IN
         \/ /\ Cur(d) = Null
            /\ ck' = CkOff(ck.k + 1)
            /\ UNCHANGED <<dicts, proc>>
         \/ /\ Cur(d) # Null
            /\ dicts' = IF age[d] > Retain THEN [dicts EXCEPT ![d][bg] = Null] ELSE dicts
            /\ AskExists(d, bg)
    /\ UNCHANGED <<file, cur_index, modify_time, age, obj, startVars, argVars,
                   ldr, nap, rd>>

\* Lines 66-77 with the modification time m: an unchanged file is left alone;
\* otherwise the old dictionary goes, and a new one is made, and loaded only
\* if its init() returns false (== 0).
CompareMtime(d, m) ==
    \/ /\ m = modify_time[d]
       /\ ck' = CkOff(ck.k + 1)
       /\ UNCHANGED <<dicts, obj>>
    \/ /\ m # modify_time[d]
       /\ dicts' = [dicts EXCEPT ![d][ck.bg] = Null]
       /\ IF InitOK[d]
            THEN /\ ck' = CkOff(ck.k + 1)
                 /\ UNCHANGED obj
            ELSE /\ CanAllocate(d)
                 /\ obj' = [obj EXCEPT ![d][Fresh(d)] = NewObj]
                 /\ ck' = [ck EXCEPT !.pc = "open", !.o = Fresh(d), !.new_mtime = m]

CheckStamp ==
    /\ proc = "up" /\ ck.pc = "stamp"
    /\ \/ ~ck.seen /\ CompareMtime(ck.d, 0) /\ UNCHANGED proc
       \/ /\ ck.seen /\ ~StampThrows(ck.d)
          /\ \E m \in Mtimes(ck.d) : CompareMtime(ck.d, m)
          /\ UNCHANGED proc
       \/ /\ ck.seen /\ StampThrows(ck.d)
          /\ Terminate(<<dicts, obj, ck>>)
    /\ UNCHANGED <<file, cur_index, modify_time, age, startVars, argVars, ldr,
                   nap, rd>>

\* Mutant: the result of load() at line 78 is not looked at.
CheckOpenUnchecked ==
    /\ proc = "up" /\ ck.pc = "open"
    /\ \/ /\ CannotOpen(ck.d)
          /\ ck' = [ck EXCEPT !.pc = "assign"]
          /\ UNCHANGED <<obj, proc>>
       \/ /\ ~CannotOpen(ck.d) /\ ~Throws(ck.d)
          /\ obj' = [obj EXCEPT ![ck.d][ck.o].st = "loading"]
          /\ ck' = [ck EXCEPT !.pc = IF ReadFails(ck.d) THEN "spinning" ELSE "reading",
                              !.ver = FileOf(ck.d).ver]
          /\ UNCHANGED proc
       \/ Throws(ck.d) /\ Terminate(<<ck, obj>>)
    /\ UNCHANGED <<file, dictVars, startVars, argVars, ldr, nap, rd>>

\* Line 78: a dictionary that cannot be loaded is dropped.
CheckOpen ==
    /\ proc = "up" /\ ck.pc = "open"
    /\ \/ CannotOpen(ck.d) /\ ck' = CkOff(ck.k + 1) /\ UNCHANGED <<obj, proc>>
       \/ /\ ~CannotOpen(ck.d) /\ ~Throws(ck.d)
          /\ obj' = [obj EXCEPT ![ck.d][ck.o].st = "loading"]
          /\ ck' = [ck EXCEPT !.pc = IF ReadFails(ck.d) THEN "spinning" ELSE "reading",
                              !.ver = FileOf(ck.d).ver]
          /\ UNCHANGED proc
       \/ Throws(ck.d) /\ Terminate(<<ck, obj>>)
    /\ UNCHANGED <<file, dictVars, startVars, argVars, ldr, nap, rd>>

CheckRead ==
    /\ proc = "up" /\ ck.pc = "reading"
    /\ \/ /\ \E v \in Contents(ck.d, ck.ver) :
               obj' = [obj EXCEPT ![ck.d][ck.o] = [st |-> "loaded", ver |-> v]]
          /\ ck' = [ck EXCEPT !.pc = "assign"]
          /\ UNCHANGED proc
       \/ /\ FileOf(ck.d).ver # ck.ver /\ ReadFails(ck.d)
          /\ ck' = [ck EXCEPT !.pc = "spinning"]
          /\ UNCHANGED <<obj, proc>>
       \/ /\ FileOf(ck.d).ver # ck.ver /\ Throws(ck.d)
          /\ Terminate(<<ck, obj>>)
    /\ UNCHANGED <<file, dictVars, startVars, argVars, ldr, nap, rd>>

\* Mutant: line 80 asks for the modification time after the load.
CheckAssignLate ==
    /\ proc = "up" /\ ck.pc = "assign"
    /\ dicts' = [dicts EXCEPT ![ck.d][ck.bg] = ck.o]
    /\ modify_time' = [modify_time EXCEPT ![ck.d] = FileOf(ck.d).mtime]
    /\ age' = [age EXCEPT ![ck.d] = 0]
    /\ ck' = [ck EXCEPT !.pc = "switch"]
    /\ UNCHANGED <<file, cur_index, obj, proc, startVars, argVars, ldr, nap, rd>>

\* Lines 79-81.
CheckAssign ==
    /\ proc = "up" /\ ck.pc = "assign"
    /\ dicts' = [dicts EXCEPT ![ck.d][ck.bg] = ck.o]
    /\ modify_time' = [modify_time EXCEPT ![ck.d] = ck.new_mtime]
    /\ age' = [age EXCEPT ![ck.d] = 0]
    /\ ck' = [ck EXCEPT !.pc = "switch"]
    /\ UNCHANGED <<file, cur_index, obj, proc, startVars, argVars, ldr, nap, rd>>

\* Mutant: line 83 is missing.
CheckSwitchMissing ==
    /\ proc = "up" /\ ck.pc = "switch"
    /\ ck' = CkOff(ck.k + 1)
    /\ UNCHANGED <<file, dictVars, obj, proc, startVars, argVars, ldr, nap, rd>>

\* Line 83.
CheckSwitch ==
    /\ proc = "up" /\ ck.pc = "switch"
    /\ cur_index' = [cur_index EXCEPT ![ck.d] = ck.bg]
    /\ ck' = CkOff(ck.k + 1)
    /\ UNCHANGED <<file, dicts, modify_time, age, obj, proc, startVars, argVars,
                   ldr, nap, rd>>

\* Mutant: sleep_time is 0.
CheckSleepNot ==
    /\ proc = "up"
    /\ ck.pc = "visit" /\ ck.k > Len(Handers)
    /\ ck' = CkOff(1)
    /\ UNCHANGED <<file, dictVars, obj, proc, startVars, argVars, ldr, nap, rd>>

\* Lines 86, 48.
CheckSleep ==
    /\ proc = "up"
    /\ \/ /\ ck.pc = "visit" /\ ck.k > Len(Handers)
          /\ nap' = Period
          /\ ck' = [ck EXCEPT !.pc = "asleep"]
       \/ /\ ck.pc = "asleep" /\ nap = 0
          /\ ck' = CkOff(1)
          /\ UNCHANGED nap
    /\ UNCHANGED <<file, dictVars, obj, proc, startVars, argVars, ldr, rd>>

--------------------------------------------------------------------------------
(* GET_DICT, and the get_key() that follows it, from when run() has returned *)

\* dict_name##_info->cur_index.load()
GetIndex(r) ==
    /\ proc = "up" /\ main.pc = "serving" /\ rd[r].pc = "idle"
    /\ \E d \in Dict : rd' = [rd EXCEPT ![r] =
            [pc |-> "copy", d |-> d, o |-> Null, idx |-> cur_index[d], age |-> 0]]
    /\ UNCHANGED <<file, dictVars, obj, proc, startVars, argVars, ldr, ck, nap>>

\* the copy of dicts[...]; the callers of GET_DICT skip a null pointer
GetCopy(r) ==
    /\ proc = "up" /\ rd[r].pc = "copy"
    /\ LET o == dicts[rd[r].d][rd[r].idx] IN
         rd' = [rd EXCEPT ![r] = IF o = Null THEN Idle
                                 ELSE [@ EXCEPT !.pc = "lookup", !.o = o, !.age = 0]]
    /\ UNCHANGED <<file, dictVars, obj, proc, startVars, argVars, ldr, ck, nap>>

\* get_key(): a search of the object's map; then the pointer is released
Lookup(r) ==
    /\ proc = "up" /\ rd[r].pc = "lookup"
    /\ rd' = [rd EXCEPT ![r] = Idle]
    /\ UNCHANGED <<file, dictVars, obj, proc, startVars, argVars, ldr, ck, nap>>

--------------------------------------------------------------------------------
MainStep == MainSpawn \/ MainStore \/ MainSpawned \/ MainJoin \/ MainJoined
              \/ MainStartCheck
LoaderStep(d) == LoaderBegin(d) \/ LoaderStamp(d) \/ LoaderOpen(d)
                   \/ LoaderRead(d) \/ LoaderReport(d)
CheckStep == CheckVisit \/ CheckStamp \/ CheckOpen \/ CheckRead \/ CheckAssign
               \/ CheckSwitch \/ CheckSleep
ReaderStep(r) == GetIndex(r) \/ GetCopy(r) \/ Lookup(r)

Next == \/ \E p \in Path : Write(p)
        \/ Tick
        \/ MainStep
        \/ \E d \in Dict : LoaderStep(d)
        \/ CheckStep
        \/ \E r \in Reader : ReaderStep(r)

Spec == Init /\ [][Next]_vars

\* Threads and bthreads are scheduled, time passes, a call of GET_DICT that was
\* begun is finished; nobody has to write files or to call GET_DICT.
FairSpec == /\ Spec
            /\ WF_vars(Tick)
            /\ WF_vars(MainStep)
            /\ \A d \in Dict : WF_vars(LoaderStep(d))
            /\ WF_vars(CheckStep)
            /\ \A r \in Reader : WF_vars(GetCopy(r) \/ Lookup(r))
--------------------------------------------------------------------------------
(* Properties *)

FileRec == [kind : AllKinds, ver : 1..(MaxWrite + 1), mtime : Nat]
ObjRec == [st : {"fresh", "loading", "loaded", "failed"}, ver : 0..(MaxWrite + 1)]
LdrRec == [pc : {"none", "ready", "stamp", "open", "reading", "spinning",
                 "loaded", "failed", "done"},
           o : Obj \cup {Null}, seen : BOOLEAN, ver : 0..(MaxWrite + 1)]
CkRec == [pc : {"off", "visit", "stamp", "open", "reading", "spinning", "assign",
                "switch", "asleep"},
          k : 1..(Len(Handers) + 1), d : Dict \cup {Null}, o : Obj \cup {Null},
          bg : 0..1, seen : BOOLEAN, ver : 0..(MaxWrite + 1), new_mtime : Nat]
RdRec == [pc : {"idle", "copy", "lookup"}, d : Dict \cup {Null}, o : Obj \cup {Null},
          idx : 0..1, age : 0..GetWindow]

SlotType == /\ dicts \in [Dict -> [0..1 -> Obj \cup {Null}]]
            /\ cur_index \in [Dict -> 0..1]
            /\ modify_time \in [Dict -> Nat]
            /\ age \in [Dict -> 0..(Retain + 1)]
MainType == /\ main \in [pc : {"spawn", "store", "join", "check", "serving"},
                         k : 1..(Len(Handers) + 1)]
            /\ started \in {0, 1}
            /\ syncRet \in {-1, 0, 1}
            /\ ret \in [Dict -> {-1, 0, 1}]
            /\ argsLive \in BOOLEAN /\ strayWrite \in BOOLEAN

TypeOK == /\ file \in [Path -> FileRec]
          /\ SlotType
          /\ obj \in [Dict -> [Obj -> ObjRec]]
          /\ proc \in {"up", "exited", "terminated", "undefined"}
          /\ MainType
          /\ ldr \in [Dict -> LdrRec]
          /\ ck \in CkRec
          /\ nap \in 0..Period
          /\ rd \in [Reader -> RdRec]

Running(d) == ldr[d].pc \notin {"none", "done"}
\* A load that will not end, in a loader or in the checker.
LoaderSpins == \E d \in Dict : ldr[d].pc = "spinning"
CheckerSpins == ck.pc = "spinning"
Served(d) == obj[d][Cur(d)]
UpToDate(d) == Cur(d) # Null /\ Served(d).ver = FileOf(d).ver

\* load_args is freed under a running loader, or written after it was freed,
\* only when parallel_sync_load has returned early because of a failure
\* (dict_manager.cpp:154): a start-up that reports success has joined all.
ArgsOutliveLoaders ==
    (~argsLive /\ \E d \in Dict : Running(d)) \/ strayWrite => syncRet = -1

\* After a start-up that reports success no GET_DICT yields a dictionary that
\* is still to be filled, or being filled, by anybody.
ReadersSeeWholeDicts ==
    syncRet = 0 => \A r \in Reader : rd[r].pc = "lookup" =>
                        obj[rd[r].d][rd[r].o].st \in {"loaded", "failed"}

\* A file that has been missing all along never ends the process: exists() is
\* asked before last_write_time() (dict_manager.h:41, 45), so only one that has
\* gone since can.  Nor does a file that cannot be read, a bthread that does not
\* start, or a dictionary without a path, whose slot the checker finds null: what
\* else kills is a field that is no number, and a directory that is closed.
MissingFileIsHarmless ==
    proc = "terminated" =>
        \E p \in Path : \/ file[p].kind \in {"malformed", "inaccessible"}
                       \/ (file[p].kind = "absent" /\ file[p].ver > 1)

\* A dictionary that is served stays loaded, and an older version of the file
\* never replaces a newer one, whatever fails while it is reloaded.
ServedNeverRegresses ==
    [][\A d \in Dict : syncRet = 0 /\ Cur(d) # Null /\ Served(d).st = "loaded" =>
         /\ Served(d)'.st = "loaded"
         /\ Served(d)'.ver # Mixed => Served(d)'.ver >= Served(d).ver]_vars

\* While the checker is not at work on a dictionary, one that does not hold the
\* present contents of its file has a modify_time that differs from the file's:
\* the next sweep will notice, because modify_time is taken before the load.
StaleIsDetectable ==
    \A d \in Dict :
        /\ main.pc = "serving" /\ syncRet = 0 /\ ck.d # d /\ HasPath(d)
        /\ FileOf(d).kind = "ok" /\ Served(d).ver # FileOf(d).ver
        => modify_time[d] \notin Mtimes(d)

\* Nobody writes a slot between the two loads of a GET_DICT that is going to
\* copy it: the shared_ptr in the slot is not copied while it is reset.
SlotStableUnderGetDict ==
    [][\A r \in Reader : rd[r].pc = "copy" =>
         dicts'[rd[r].d][rd[r].idx] = dicts[rd[r].d][rd[r].idx]]_vars

\* Start-up ends, whichever loaders fail or do not start: no join waits for ever,
\* except for a loader whose file gives an I/O error (common_file_dict.h:42).
StartupEnds == <>(main.pc = "serving" \/ proc # "up" \/ LoaderSpins)

\* Once the files are left alone, every dictionary whose file is readable is
\* served as the file is (dict_manager.h:130: the checker looks for updates),
\* unless a load has met an I/O error: its thread reads on and does nothing else.
EventuallyFresh ==
    \A d \in Dict : HasPath(d) =>
        <>[](proc = "up" /\ ~LoaderSpins /\ ~CheckerSpins /\ FileOf(d).kind = "ok"
               => UpToDate(d))

\* dict_manager.h:130, "periodically checks by mtime whether a dictionary has
\* been updated": a readable update of a loaded dictionary is picked up.
UpdateIsPickedUp ==
    \A d \in Dict : HasPath(d) =>
        ((syncRet = 0 /\ Served(d).st = "loaded" /\ ~UpToDate(d))
            ~> (UpToDate(d) \/ FileOf(d).kind # "ok" \/ proc # "up"))

\* The dictionary that was replaced is given back, while the checker is alive.
OldDictReleased ==
    \A d \in Dict, i \in 0..1 :
        (dicts[d][i] # Null /\ cur_index[d] # i)
            ~> (dicts[d][i] = Null \/ cur_index[d] = i \/ proc # "up" \/ CheckerSpins)

\* parallel_sync_load tells its caller when a dictionary failed to load
\* (dict_manager.cpp:152-154).
FailureIsNoticed ==
    syncRet = 0 => \A d \in Dict : HasPath(d) => Served(d).st # "failed"
================================================================================
