# Verification of cpp_freshman

TLA+ models, TLC runs and TLAPS proofs for the parts of this repository that have
behaviour of their own. Every definition is translated from the code under
`src/`; `PROJECT.json` maps each to the lines it stands for.

Run from this directory:

    tlc -workers 2 -config MCDictReload.cfg MCDictManager
    tlapm DictManagerProofs.tla

## The system and its parts

The repository is a collection of programs around a rank server
(`example/brpc`), with separate data-structure studies. The parts with state:

| part | state | operations | what is hard |
|---|---|---|---|
| **DictManager** `brpc/plugins/dict`, `common/dicts.cpp`, `common/global.h` | per dictionary two slots of `shared_ptr`, `cur_index`, `modify_time`, `load_finish_time`; `load_args` during start-up | `parallel_sync_load`, `load_dict_by_thread`, `check`, `GET_DICT`, `get_key` | loader bthreads against the spawning thread, a checker thread against lock-free readers, files rewritten at any time, failures of one of several loads |
| **LockFreeQueue** `performance_units/lock_free_queue.cpp` | `head`, `tail`, `next` pointers | `input`, `output` | compare-and-swap races, a lagging tail |
| **StaticMemoryPool** `brpc/memory_pool.{h,hpp}` | a chain of blocks, a position in it, a vector of destructors | create (buffer, aligned, string, object), `register_destructor`, `clear`, `shrink_to_fit`, move, `set_block_size` | offset and alignment arithmetic, ownership of blocks through compaction and moves, objects made inside constructors |
| **GraphService** `brpc/plugins/framework`, `service`, `processor`, start-up in `common/global.h` and `brpc_server.cpp` | pools of graphs, a graph's data and closures | `init_pool`, `try_get`, `SayHello`, the executor's `run`, four `process()` | a graph used after it went back to its pool, handover of closures to bthreads |
| **DynamicStruct** `brpc/dynamic_struct.{h,hpp}` | a schema (layout, map of fields, functions to construct, clear and destroy them), objects on the heap or in memory pools, a pool of reusable objects and its metadata | `MEMBER`, `register_field`, `create`, `create_with_pool`, `get`, `clear`, destruction, `ReuseDynamicStructPool` | a look-up outside the lock, offset arithmetic, who destroys what, schemas that grow under objects |
| **AnyFlow programs** `babylon/graph_start.cpp`, `graph_condition.cpp`, `dependency/*`, `expressor/*` | a dataflow graph, its data, vertices and conditions | emit, run, get, reset, a closure callback | conditions that are settled late, a callback against `main()` and against vertices still at work |
| **smaller ones** | | | condition-variable queue (`atomic_free_lock_queue.cpp.bak`), `FreeLockQueue`, `MySharedPtr`, the full bounded queue of `babylon/concurrent`, the pacing loop of `struct_pb` |

How they interact: `main()` of `brpc_server.cpp` calls `GlobalInitializer::init()`,
which runs the DictManager's parallel load, starts its checker thread, initialises
the graph pool and then starts the server; each request of the service takes a graph,
runs it on bthreads and resets it. Processors and the start-up read dictionaries
with `GET_DICT`. The memory pool, the dynamic structs and the queues are used by
their own programs only.

What makes each correct:

* DictManager: start-up ends and does not leave loaders behind; readers never see a
  dictionary that is being filled; a served dictionary is never replaced by a
  worse one; an update is noticed and, in the end, served; the old one is freed.
* LockFreeQueue: it is a FIFO queue; nothing is lost or taken twice; calls return.
* StaticMemoryPool: every block has one owner; buffers are inside allocated blocks,
  disjoint and aligned; each destructor runs once, before its memory goes, parents first.
* GraphService: one request per graph at a time; a graph is reset only when its run is over.
* DynamicStruct: a field has one identity and one offset; fields do not overlap; a field is
  constructed before it is used and destroyed once; a reused object is clean.
* AnyFlow programs: every run yields what the program asserts, in whatever order its vertices
  run, and every program ends.

The rest (class hierarchies, library demos, benchmarks, build files, scripts) is
listed in `PROJECT.json` with the reason it is not modelled.

## Modules

| module | models |
|---|---|
| `FifoQueue` | abstract: what a queue of lines promises |
| `LockFreeQueue` | `input()` and `output()`; one step per shared load or CAS; refines `FifoQueue` |
| `LockFreeQueueProofs` | theorems about it |
| `DictManager` | start-up, loaders, checker, readers, files and time |
| `DictManagerProofs`, `DictReloadProofs` | theorems about start-up, and about serving and reloading |
| `BlockSize` | the block size functions of the memory pool |
| `StaticMemoryPool` | pools, their blocks, buffers and objects |
| `StaticMemoryPoolProofs`, `StaticMemoryPoolObjectProofs` | theorems about blocks and buffers, and about objects and types |
| `GraphService` | start-up, the graph pool, `SayHello`, the executor and the processors, composed |
| `GraphServiceProofs` | theorems about it |
| `FieldLayout` | where the fields of a schema lie and which functions it keeps for them |
| `DynamicStruct` | threads that register fields, and an application with its objects and pools |
| `DynamicStructProofs`, `DynamicStructUseProofs` | theorems about registration, and about objects |
| `AnyFlow` | the dataflow programs: seven mains and tests over five graphs |
| `MC*` | constants for TLC |

### LockFreeQueue

`head`, `tail`, `next`, `log_info` are the fields of the class; `pc`, `cur`, `mine`
are where each thread is and its local pointers. Each line of `input()` and
`output()` that touches shared memory is an action (`InputReadTail` is line 37,
`InputTestNext` 39, `InputLink` 40, `InputHelp` 45, `InputSwing` 49;
`OutputReadHead` 56, `OutputReadNext` 57, `OutputAdvance` 65). The code reads
`head`, `tail` and `next` without atomics; the loads are aligned, re-read after a
full barrier in each round, and `next` is written once, so the outcomes are those of
atomic loads. Nodes are never freed (line 67 is commented out). `linked` and `taken`
are history variables: the nodes in the order of the successful CAS of line 40, and
how many of them `head` has passed.

### DictManager

A dictionary file is a kind, a version and a modification time, and anybody may rewrite it at any time.
The kinds are `ok`; `unreadable`, which has a time and cannot be opened; `malformed`, with a field that is no number;
`failing`, which opens and whose reads end in an error; `absent`; and `inaccessible`, in a directory that may not be searched.
Of the last `exists()` throws (`dict_manager.h:41`), for the loader and for the checker; an absent file has
its time asked for only when it went after `exists()` had seen it, and throws then (line 45). The loop `while (!input.eof())`
(`common_file_dict.h:42`) does not end when a read fails: the reader of a `failing` file stays where it is. An object read while
its file was rewritten may hold a mixture. `MainSpawn` to `MainStartCheck` are
`parallel_sync_load` and `run`; the assignment of the result of
`bthread_start_background` to `args.ret` is a step of its own (`MainStore`), because the
bthread may have run before it. `Loader*` is the bthread of one dictionary, `Check*` the
detached thread, `GetIndex`, `GetCopy`, `Lookup` a reader. `load_dict_by_thread` has no
`return` on its ordinary paths; `LoaderReport` therefore may end in
`proc = "undefined"`, after which nothing is claimed. Time is counted in small units:
the facts that matter are that the checker's sleep (3600 s) exceeds the retention of an
old dictionary (300 s) and the time a reader spends between the two loads of
`GET_DICT` (`ClockAssumption`). The parsing of lines and values, and `initialize()`, which nobody
calls, are left out.

### StaticMemoryPool

A pool's chain is a sequence of block addresses, `cur` the position of
`_current_block` (0 for null). `bufs` and `obj` are what the callers hold: buffers that
are still valid and objects with their state. Every member function that changes the
pool is an action; `CreateBufferInternal`, `CompactBlock`, `Cleared` and
`CreateAlignedBuffer` are functions of the pool and the heap and follow the code's
branches. `AlignUp` clears bits, as the mask of lines 132 and 350 does, and is rounding up only for powers of two. `Grown`
(in `BlockSize`) is the product of line 393: the size is rounded to a float, half to even, multiplied by 1.1f, rounded again and
truncated; `FloatOne` says how many digits a float has. `InOwnBlock` uses it. 
`Contain` is `contain()`, and `BuffersInUse` is stated with it. The contents of buffers is not modelled. Constructors may create further objects in the same pool (`stack`),
and may throw.

### GraphService

`InitPool`, `FirstTryGet` and `StartServer` are the start: `init_pool`, the `try_get` with which
`GlobalInitializer::init()` tries the engine, and the server of `main()`. A request goes through `TryGetPop` and `TryGetReturn` (one `return` statement of
`try_get`: the pooled pointer is a temporary, so the graph is recycled and pooled again before the
caller has it), `Run` (up to `graph->run`), `LogResponse` (lines 87 to 92, which read the response before the run is
over), `Wait` and `Answer`. If the Output vertex is about to write the response while line 92 reads its `request_id`, that
is a data race, of a request with itself: `LogResponse` may end in undefined behaviour then (`ReadWhileWritten`). A vertex of a graph is started by the
executor (`StartVertex`, which may fail), emits its data one after the other (`Emit`, which
wakes the vertices that waited for it) and ends. The graph library and the object pool are not in
the repository; what the model assumes of them is what the comments say: `pop()` builds a graph when the
pool is empty, a graph that comes back to a full pool is deleted, a vertex runs when all it depends on is there,
`closure.wait()` returns when no vertex is at work, a graph that is reset at work, or a datum emitted twice, is
undefined behaviour. A datum is represented by the request it was computed from; prices and scores are left out.
`config.xml` and `expression.xml`, which `init_pool` opens, are not in the repository either. `Vertex` has the
vertices of `conf/graph/graph_config.xml`, and `Interface` the data that `ANYFLOW_INTERFACE` declares in the headers of their
processors. The headers name more than that file: the flags, and Prerank's dependence on them. Whether the library binds a datum that
the file does not name, or refuses the graph, cannot be seen here; `buildable`, a free choice of `InitPool`, covers both.

### FieldLayout and DynamicStruct

`FieldLayout` has the schema as a record. The vectors of constructors, cleaners and constructors from
metadata grow by one rule and are one sequence, `hooks`, in which neighbours that are filled with zeros are
merged; `slots` has an entry per registration, as the vectors of metadata functions do. Sizes are in
units, and a merged size is computed modulo `Word`, as `size_t` is.

In `DynamicStruct` the members of a class are registered one after the other (`RegisterMember`, `MemberEnd`),
then threads call `register_field`: `Find` is the look-up outside the lock, `Layout`, `Hooks` and
`Emplace` the critical section. A reader of the map while another thread is in
`emplace()` may run into undefined behaviour (`FindRace`, `AppRace`). The application creates objects (`Create`,
`CreateWithPool`, `GetNew`, `GetOld`, `Rebuild`), uses, clears and destroys them. The memory of a field is `raw`, `clean`,
`dirty`, `dead` or `torn`, and each function in `hooks` is modelled by what it does to it;
a step that would construct, clear or destroy memory in the wrong state, outside the object or at a wrong
alignment sets `proc` to `undefined`. `get_field()` of a name that is not registered ends the process (`abort()`, line 130) or
reports -1, according to the form that is called (`GetField`). `raced`, `misused` and `leaked` are history variables.
Memory pools are external: they align as asked (`Arena::CreateArray<char>` as for a pointer) and call what was
registered with them when they end.

### AnyFlow

Each program is a graph, a sequence of rounds (inputs, the results its assertions name, and what it asserts to be empty first)
and, in `graph_start`, a callback. A test whose assertion fails ends there (`fatal`). A vertex is activated when something it emits is asked for, decides when its conditions
and dependencies are settled, and runs on its own; the library is external. Values are those of the programs: numbers, and
strings as sequences so that `+` is concatenation.

## Runs

| run | question | bounds |
|---|---|---|
| `dict_startup` | does start-up end, and what does it leave behind | the dictionaries of `dicts.cpp` (two on one file) and one without a path; every kind of file, reads that fail and directories that are closed too; one rewrite |
| `dict_reload` | does the checker serve updates safely | one dictionary whose `init()` returns false; every kind of file, one rewrite, mtime off by up to a second |
| `dict_no_reload` (violation) | is an update picked up with the classes of the repository | as `dict_startup`, readable or unreadable files |
| `dict_lost_failure` (violation) | does start-up notice a failed load | as above |
| `queue` | is it a FIFO, do calls return | 2 producers with 2 calls, 2 consumers, 3 lines |
| `pool_buffers` | memory safety of buffers | 1 pool, 3 blocks, 3 buffers in use, a size that fits into a block and one that needs its own, which a float of 5 digits rounds; alignments 1 and 2 for small requests, 3 and 4 for others |
| `pool_objects` | life of objects and ownership | 2 pools moved into each other, 2 objects, nested or not |
| `graph_service` | is every request answered, with its own id, and what can lead to undefined behaviour | 2 requests, side by side or in turn; 2 graphs, pools of 1 and of 2 |
| `dynamic_struct` | do fields overlap, do threads agree on them, and when is the life of an object defined | 2 threads, 3 registrations, 2 objects; a byte, a string, a pooled string; 4 classes |
| `anyflow` | do the dataflow programs yield what they assert, and end | none: the programs have fixed inputs |
| `graph_shared` (violation) | is a graph reset only when its run is over | 2 requests at a time |
| `anyflow_reset` (violation) | is the graph of `graph_start` reset only when its run is over | none |

Why the bounds are enough. Two requests can share a graph, follow each other on one, or run side
by side on two; pools of one and of two graphs are both tried, so that a
graph that comes back may find the pool full. Two producers and two consumers give every race of two
equal operations and of two different ones; three lines let `tail` lag while `head` passes it.
Two dictionaries on one file, with one loader that fails and one that does not, is the smallest
case in which the early return of the join loop matters; one rewrite is
enough to make a loaded dictionary stale, and the rewrite may fall between any two
steps. Three blocks are a compaction of two into one with one left over. Headers of 2 and
pages of 8 units keep both branches of `get_block_size` (power of two, whole pages) in
play, and with `FloatOne` = 16 a request for 33 units is one that a float rounds down. Alignment 3 is
no power of two: the mask misaligns such a buffer, as the code does, and it must still lie in its block and overlap no other. `pool_objects` uses the symmetry of pools and of objects: neither is
chosen by `CHOOSE`, and it checks safety only.

`dynamic_struct`: three registrations are two that race for one name and a third behind what the loser left; they also
make two neighbours that are merged and a field with metadata after them, which is where the two numberings part. Pointers and
`Meta` take two units, so that a byte needs padding behind it; `Word` is 64, larger than any
layout, so that a negative difference is seen as the huge number it is. Two objects are what `get()` can confuse. Three bounds keep the run small: an application makes its
objects in one way (`Ways`), two threads are at `register_field` together only before the first object is made, and one field of an object
is in use at a time. No function of the code treats a field by the state of another, or an object by that of
another outside the reuse pool, so nothing is lost by the first and the last; the second leaves one registering thread beside the application.
Threads and objects are symmetric: neither is ordered or chosen by `CHOOSE`, and only safety is checked.

`CHECK_DEADLOCK FALSE` is in the dictionary runs because a process that has exited,
terminated or run into undefined behaviour takes no step, in the graph runs because the requests
end, and in `dynamic_struct` and `anyflow` because the programs do.

Fairness. Threads and bthreads are scheduled again and again (weak fairness of each);
time passes; a `GET_DICT` that was begun is finished. In `GraphService` every handler is scheduled and, for every graph,
its vertices one after another, in whatever order. Nobody is obliged to write a file,
or to call `GET_DICT`. The programs of `AnyFlow` are assumed only to go on while anything can (`WF_vars(Next)`): all
their vertices are finite. Producers go on calling `input()`, as their loops in `main()` do. `InputReturns` and `EveryLineDelivered` are about runs
with finitely many calls of `input()`: with endless ones a slow producer may lose the race for ever.

### What the violations show

* `dict_no_reload`: `check()` goes on only if `init() == 0`, and every `init()` of the
  repository returns `true`; a file update is never loaded (`dict_manager.cpp:77`).
* `dict_lost_failure`: `args.ret = bthread_start_background(...)` overwrites the -1 a fast
  loader has stored in the same field (`dict_manager.cpp:143`).
* `graph_shared`: `try_get()` returns `pop().get()` (`graph_engine.cpp:47`), so a second request is given
  the graph the first one runs on, and resets it. `AnswersAreOwn` and `EveryRequestAnswered` therefore say what
  holds as long as this has not happened (`shared`), for requests in turn and for requests
  whose graphs happen to differ. `UndefinedOnlyByKnownFaults` looks at the step that leads to undefined behaviour, and at nothing that was
  before: that step is one while two requests hold a graph, or a request uses a graph that is not there, or line 92 reads
  the response while it is written.
* `anyflow_reset`: the callback of `graph_start.cpp:133` resets the graph as soon as the datum it waited for is there; the
  comment of line 136 wants the run to be over, and the wait it asks for is what lines 137-138 leave out. `AllProcessor` may not have returned.

Seen while modelling, without a run of their own: `run()` ignores the result of the
parallel load (`dict_manager.cpp:33`); after the early return of line 154 the
server serves dictionaries that are still being filled, which is why
`ArgsOutliveLoaders` and `ReadersSeeWholeDicts` speak of a load that reported
success; `create_object` leaves the cleaner of an object whose constructor threw
(`memory_pool.hpp:192`); `size()` may exceed `capacity()`, because the position is aligned
before a buffer gets a block of its own (`memory_pool.hpp:364`); `shrink_to_fit(0)` clears
a pool in use (`memory_pool.hpp:266`), while the comment of `memory_pool.h:126` speaks of unused blocks only;
an alignment that is no power of two is not refused (`memory_pool.hpp:132`); a file in a directory that may not be searched ends the server,
at start-up or an hour later (`dict_manager.h:41`), and one whose reads fail keeps a loader, or the
checker, for ever (`common_file_dict.h:42`), which `StartupEnds`, `EventuallyFresh` and `OldDictReleased` therefore except;
`SayHello` reads `request_id` of its response before the run is over, while Output may be writing it (`ranker_service.cpp:92`,
`output.cpp:26`), which needs no second request.

Some hazards of `PROJECT.json` have no property and a note instead: the code has the fault, the properties are stated
around it, and so nothing catches it. These are the early return of the join loop (`dict_manager.cpp:154`), the
malformed field (`split_str.h:42`), the race of line 92 and the null or deleted graph of the
service, the conditions of use of `DynamicStruct` below, and the callback of `graph_start` that reads after `main()` has gone.

`DefinedIfUsedRight` names the uses of `DynamicStruct` that go wrong, each reachable in the model:
a schema that is read while it is written (`raced`); a field that meets another memory pool than it was declared with, or
none, as in `clear()`, which passes a null pool (`dynamic_struct.h:449`; `misused`); `MEMBER` lines in another order than
the members, so that the merged size wraps (`Disordered`); a field registered after objects were made, which
are destroyed and, with sized deallocation, freed by the schema as it is then (`Outgrown`); types that need more alignment than a pointer, since the data begin
behind `Meta` and an arena aligns for characters (`Overaligned`); and a field with metadata after two that were merged, since
`metadatas[i]` counts constructors and is filled by registration (`dynamic_struct.hpp:105`; `MergedBefore`). A lost race leaves a slot without
a name. Fields rebuilt from metadata register no destructor (`NothingLeaks` excepts them). Two things keep this code from being
compiled as it is: lines 74 and 76 of `dynamic_struct.hpp` pass six arguments to a constructor of `Field` that takes five, and `ReuseDynamicStructPool` is declared only in
the commented-out `protobuf/dynamic_struct.h:501-550`; the model takes the five and that declaration.

`AnyFlow`: the callback of `graph_start` reads the local `g1` of `main()` after `set_value()` has let `main()` go, and reads `G` also
when a vertex could not be started. `ResultsAsExpected` allows undefined behaviour in these cases of `graph_start`, and in the one of
`anyflow_reset`; in no other program. `depend_same.cpp:127-128` asserts that a string is empty and then that it is "10086". It is "10086", so the test always fails at
line 127 and never gets to 128; the property says so, and that no other assertion fails.

## Proofs

`LockFreeQueueProofs`, for any sets of producers, consumers and nodes and any bound on calls,
from `SentinelAssumption`, `NullAssumption`, `ThreadAssumption` and `BoundAssumption`:

* `QueueSafe`: `Spec => []QueueInv`, and with it `TypeOK`, `OneList` and
  `TailLagsAtMostOne`. The two list properties are not inductive: the CASes of lines 40, 45 and 49 are
  right because of what the thread has read before. `ProducerLocals` and
  `ConsumerLocals` say what that is. The key fact is in `ProducerLocals`: a producer whose `cur` is the last node
  saw it in `tail`, so `tail` is that node still; hence the list grows only behind an up-to-date tail.
* `QueueIsFifo`: every step of the queue is a step of `FifoQueue` or leaves it alone, where the
  abstract queue is the part of `linked` after `taken`. An `output()` that finds
  nothing is justified at its read of `next`: the node it read as `head` has no successor, so it is the last
  one and `head` still.
* `TailAdvances`: `Spec => TailNeverMovesBack`. A CAS on `tail` that succeeds found `tail` where the thread had read it, and
  puts it at the successor of that node.

`DictManagerProofs`, for any dictionaries, files, readers and bounds, from the assumptions named in
`DictManager`:

* `DictTypes`: `Spec => []TypeOK`. It needs `PathInv` as well: a loader or the checker at work
  on a dictionary has one with a path, or `FileOf` would be outside its domain.
* `LoadersJoined`: `Spec => []ArgsOutliveLoaders`. `JoinInv` says that the loop of line 150 has
  left behind only loaders that are done or were never started, and that load_args lives until the
  loop has ended.

`DictReloadProofs`, from the same assumptions. Its invariants build on one another: `SlotInv`, `OwnInv`, `VersionInv`, `StampInv`.

* `MissingFilesHarmless`: `Spec => []MissingFileIsHarmless`. Who asks for the time of a file has been told by `exists()` that it
  is there; files may go in between, so the invariant is that one which is missing then has been rewritten since the start. The run
  finds a loader that does not ask.
* `SlotsStable`: `Spec => SlotStableUnderGetDict`. `SlotInv` bounds the age of a `GET_DICT` that has read an index which is no longer
  current: the checker has gone on to later dictionaries, or sleeps, and what is left of its sleep is longer than
  the `GET_DICT` may still take. Here `ClockAssumption` is used.
* `ReadersGetWholeDicts`: `Spec => []ReadersSeeWholeDicts`. `OwnInv` says that during start-up an object that is
  being filled belongs to a loader that is not joined, and later that the checker fills one that is in no slot and that no reader has.
* `ServedNeverAges`: `Spec => ServedNeverRegresses`. What the checker is about to put in place was read of the file
  after what it replaces (`NewerIsLoaded`).
* `StaleDetected`: `Distinguishable => (Spec => []StaleIsDetectable)`. `StampInv` says that whoever has a time that is
  not older than the file's has read the file as it is, because the time is taken before the load. `Distinguishable`
  is that two writes of a file are further apart than `get_file_last_mtime` is off; if they are not, a write may leave
  the time as it was, and the code cannot know. The run `dict_reload` is an instance with two seconds against one.

`GraphServiceProofs`, for any requests, graphs and pool sizes, from `GraphAssumption` and `BoundsAssumption`:

* `PoolAccounts`: `Spec => [](TypeOK /\ PoolIsSound)`. The type of a response needs `DataReady`: a vertex at work
  has all it depends on, so that it never hands on a datum that is not there.
* `KnownFaults`: `Spec => UndefinedOnlyByKnownFaults`, whether or not graphs have been shared before. `Held` says that vertices are at work only
  on a graph that some request holds, `DataAreHeld` that a graph has a request in its data only while such a request has run it, and `RunsHaveGraphs` that a request
  whose run has begun has a graph. So the next holder of a graph finds neither data nor vertices at work, and
  only another holder of the same graph can trip it (`StepDefined`).
* `OwnAnswers`: `Spec => []AnswersAreOwn`. While nothing is shared, a graph
  has one holder (`OneHolder`), and what is in a graph comes from its holder (`OwnData`).

`DynamicStructProofs`, for any fields, classes, threads, objects and bounds, from the assumptions named in
`FieldLayout` and `DynamicStruct`: the members of a class lie in it, side by side and aligned (`MembersAssumption`); a
size is a `size_t` (`SizeAssumption`); an alignment that a pointer satisfies divides that of a pointer (`AlignAssumption`):

* `FieldsApart`: `Spec => []SlotsDisjoint`. The invariant is that registrations end before `unaligned`, where the next one will be put;
  between `Layout` and `Hooks` that place is the thread's own, because it has the lock (`RegInv`). While the members
  of a class are registered, they are a prefix of the class instead (`StaticInv`).
* `ThreadsAgree`: `Spec => []AccessorsAgree`, since entries of the map are never replaced.
* `FieldInv`, on which `Types` and `Defined` below rest: there is a division of `slots` among `hooks` (`HooksOK`), in which a hook of more than
  one slot zeroes them and reaches from the first to the end of the last, modulo `Word`; a member of the class is aligned in it, any other field
  counted from the `Meta` on (`AlignInv`); and what the map and the threads on their way to it say names a slot (`MapInv`).

`DynamicStructUseProofs`, from the same assumptions: `ReuseClean`, `Spec => []ReuseIsClean`, and `AllDestroyed`, `Spec => []NothingLeaks`.
The invariant `UseInv` has three parts. `DtorInv` ties the schema to the declarations: a destructor is in `dtors` if
and only if the field has one and is not in a memory pool. `ReuseInv`: the objects somebody has are among the first `use_num` of
the vector, and those behind are clean. `ObjInv`: a field of an object is known to its memory pool exactly when the
struct will not destroy it, and is destroyed already only if `~ReuseDynamicStructPool` has been there. After undefined behaviour
nothing is claimed of the objects.

* `Types`: `Spec => []TypeOK`. `DataInv` has the types of objects, of the vectors that name them and of the rest, and holds after undefined behaviour too: an
  object that is made while the schema grows has no more slots than the schema.
* `Defined`: `Spec => [](LayoutFits => DefinedIfUsedRight)`. A schema in order whose members do not overlap makes every hook reach
  exactly its own slots (`HookReaches`), and every slot is reached by one hook; hence constructing all makes `raw` memory `clean` and clearing all makes
  `dirty` memory `clean`, each slot once (`TurnsClean`). The states in which objects are destroyed come from `ObjInv`. Each step that could leave defined
  behaviour is then excused by one of the six causes (`DefinedNext`). `LayoutFits` says that the schema is not larger than
  a `size_t` can count (`Word`), which an object that exists implies; beyond it the sums that the code keeps would wrap.

`StaticMemoryPoolProofs`, for any pools, blocks, sizes and alignments, from `FloatAssumption` (a float has at least 5 binary digits; 24 in the code), `PoolAssumption`, `BaseAssumption` (a
block begins at a multiple of the small alignments), `SizesAssumption` (neither the header nor a page is
empty) and `NullAssumption` (no pool is `Null`). One invariant, `PoolInv`, carries all of it:

* `Owned`: every allocated block is in one pool's chain, once (`BlocksHaveOneOwner`). The steps are reduced to
  `Rechained`: an operation on a chain leaves the rest of the heap alone and takes only blocks that were the chain's or
  nobody's. `compact_block` is the hard case: the run it merges lies between two parts of the chain that stay.
* `InUse`: a buffer ends before `_pos` of the current block, or is in a block before it (`BuffersStayInUse`). This is
  more than to lie in a block of the pool, and it makes the next part inductive: `Kept` says that a request leaves the part
  in use where it is, `Fresh` that what it hands out lies beyond. `Granted` says this of
  `create_buffer_internal`, for each of its four branches.
* `NoOverlap` (`BuffersNeverOverlap`) and `AllAligned` (`BuffersStayAligned`). `create_aligned_buffer` gives back
  only padding behind the end of its buffer. Aligned is promised for powers of two only: for them clearing the bits is rounding up
  (`ClearBits`), which is shown by halving both sides (`HalfExists`). That buffers are in use and apart needs only that clearing the bits of a - 1 takes
  away at most a - 1, which holds for every alignment (`ClearBitsBounds`).
* `GrowthIsEnough`: `Spec => GrowthSuffices`. A float is at most half a unit of its last digit away from the number (`FloatBounds`), which with 5 digits and two
  roundings is less than the tenth that is added (`GrownSuffices`); and `get_block_size` returns at least its argument.
* `ShrinkLeavesEnough`: `Spec => ShrinkKeepsEnough`. The block at which the loop of line 275 stops is the last one, or the
  capacity up to it is enough; the blocks up to it stay, with their capacities (`ShrinkToFitMinKeeps`).

`StaticMemoryPoolObjectProofs`, from the same assumptions:

* `DestroyedOnce`: `Spec => []ObjectsDieOnce`, and `OuterDiesFirst`: `Spec => []ParentsDieFirst`. Neither is inductive:
  both depend on what the vectors of cleaners will do later. `ObjInv` is about them: a cleaner names
  an object that is not destroyed and lies in a block of the same pool; every object that exists and is not
  destroyed is named once, in one pool; the parent of an object that is named is named before it in the same
  vector, and the parent of one that died, died before it. A vector that grows leaves husks, which destroy nothing.
* `PoolTypes`: `HeaderNotAsked => (Spec => []TypeOK)`. `HeaderNotAsked` is that nobody calls `set_block_size()`, or
  constructs a pool, with exactly the size of a block's header: `_block_size` would be 0 then (`memory_pool.hpp:289`), and
  nothing else makes it so (`Sized`).

The library's induction theorems take an operator as a parameter and cannot be used. Where a recursive function had
to be understood (`FloorPow2`, `Destroyed`, `InTurn`), the proof considers the least argument for which the claim would
fail; there is one because the natural numbers are well-founded (`Least`). The invariants were
checked with TLC on the runs' instances before they were proved.

Only model-checked:

* All liveness (`InputReturns`, `EveryLineDelivered`, `StartupEnds`, `EventuallyFresh`, `OldDictReleased`,
  `EveryRequestAnswered`, `ProgramsEnd`), which the prover cannot express.
* `ResultsAsExpected` of `AnyFlow`. Its programs and inputs are fixed, so the run covers every behaviour; there is no
  constant to prove it for.

## Not modelled

* `DynamicStruct`: `SchemaManager`, the chains of `get_dynamic_struct()` (compositions of `get`), the contents of metadata and
  `~AllocationMetadata`. `protobuf/dynamic_struct.{h,hpp}` is commented out as a whole.
* `GraphService`: closure callbacks and the thread-pool executor, which the service does not use; the butex adapters, which belong to the library.
* `DictManager`: the parsing of lines, and `initialize()`, which nobody calls.
* `AnyFlow`: processors that no graph of the programs uses.
* `FreeLockQueue`, which has no initial state; the condition-variable queue in a `.bak` file; `MySharedPtr`, the bounded queue example and the
  benchmark's pacing loop, which run in one thread or wait for a library.
* Class hierarchies, library and language demos, I/O programs, schemas, scripts and build files: they have no state of their own, or none that changes.

## Plan

1. Done: the queue with its refinement and proofs; DictManager with proofs of types and joining;
   the memory pool; the graph service with proofs; DynamicStruct with proofs of layout; the dataflow programs.
2. Done: proofs of serving and reloading, of the memory pool, and of the objects of `DynamicStruct` and their use. Every
   safety property of the runs is proved but `ResultsAsExpected`; `StaleDetected`, `PoolTypes` and `Defined` have a hypothesis of their own,
   named above.
3. The smaller ones: `MySharedPtr` against the set of its owners, the full bounded queue, the pacing loop.
