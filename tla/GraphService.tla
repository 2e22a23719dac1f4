----------------------------- MODULE GraphService ------------------------------
(***************************************************************************)
(* The rank service: example/brpc/plugins/framework (GraphEngine and its   *)
(* pools of graphs, BthreadGraphExecutor), service/ranker_service.cpp and  *)
(* the processors.  A request takes a graph, puts itself into it, lets the *)
(* executor run one bthread per vertex as soon as what it depends on is    *)
(* there, waits, and resets the graph.                                     *)
(*                                                                         *)
(* The graph library (babylon anyflow, ObjectPool) is not in the           *)
(* repository; it is modelled by what the code and its comments use of it. *)
(* A datum is modelled by the request it was computed from.                *)
(***************************************************************************)
EXTENDS Naturals, Sequences, FiniteSets

CONSTANTS Request,
          Graph,          \* addresses of Graph objects
          Null,           \* nullptr
          PoolSizes,      \* arguments of init_pool (20 in global.h)
          MaxConcurrent   \* requests the clients have under way at a time

ASSUME GraphAssumption == Graph # {} /\ Null \notin Graph
ASSUME RequestAssumption == IsFiniteSet(Request)
ASSUME BoundsAssumption == PoolSizes \subseteq Nat \ {0} /\ MaxConcurrent \in Nat \ {0}

None == "none"     \* not emitted
Blank == "blank"   \* a default-constructed value

\* The vertices of graph_config.xml.
Vertex == {"ParseRequest", "Prerank", "Rank", "Output"}

\* The data of ANYFLOW_INTERFACE in the processors' headers, which name more than
\* graph_config.xml: the flags.  The three that ParseRequest emits one after the
\* other are one datum, and stand for IsSkipPreRank too, which the library computes
\* from them by an expression of expression.xml.
ParseRequestInterface == [depends |-> {"request"}, emits |-> <<"normalized_request", "flags">>]
PrerankInterface == [depends |-> {"normalized_request", "flags"}, emits |-> <<"prerank_info">>]
RankInterface == [depends |-> {"normalized_request", "prerank_info"}, emits |-> <<"rank_info">>]
OutputInterface == [depends |-> {"normalized_request", "prerank_info", "rank_info"},
                    emits |-> <<"response_info", "rs_response">>]
Interface == [ParseRequest |-> ParseRequestInterface, Prerank |-> PrerankInterface,
              Rank |-> RankInterface, Output |-> OutputInterface]
Data == {"request", "normalized_request", "flags", "prerank_info", "rank_info",
         "response_info", "rs_response"}

VARIABLES
    proc,      \* "boot", "pooled", "ready", "up"; "terminated"; "undefined" after
               \* undefined behaviour
    buildable, \* builder.build() yields a graph
    capacity,  \* how many graphs the pool keeps
    pool,      \* the graphs in the pool of "main_graph", next one first
    alive,     \* the graphs that exist
    data,      \* the data of each graph
    vert,      \* per graph and vertex: "idle", "waiting" for data, "starting" a
               \* bthread, "running", "done"
    emitted,   \* how many of its data a running vertex has emitted
    failed,    \* the closure of each graph's run has an error code
    target,    \* the response preset as the graph's rs_response
    req,       \* the requests: where SayHello is, and its local `graph'
    response,  \* request_id in each response
    shared     \* history: a request was given a graph that is in use, or deleted
graphVars == <<data, vert, emitted, failed, target>>
engineVars == <<buildable, capacity, pool, alive>>
vars == <<proc, engineVars, graphVars, req, response, shared>>

NoData == [x \in Data |-> None]
AllIdle == [v \in Vertex |-> "idle"]

Init == /\ proc = "boot"
        /\ buildable = FALSE
        /\ capacity = 0
        /\ pool = << >>
        /\ alive = {}
        /\ data = [g \in Graph |-> NoData]
        /\ vert = [g \in Graph |-> AllIdle]
        /\ emitted = [g \in Graph |-> [v \in Vertex |-> 0]]
        /\ failed = [g \in Graph |-> FALSE]
        /\ target = [g \in Graph |-> Null]
        /\ req = [r \in Request |-> [pc |-> "new", graph |-> Null]]
        /\ response = [r \in Request |-> Blank]
        /\ shared = FALSE

InUse(g) == \E q \in Request : req[q].graph = g /\ req[q].pc \in {"got", "log", "wait", "reset"}
Active(g) == \E v \in Vertex : vert[g][v] \in {"starting", "running"}
--------------------------------------------------------------------------------
(* GraphEngine *)

\* Mutant: the recycler leaves the data.
ResetNoData(g) ==
    /\ vert' = [vert EXCEPT ![g] = AllIdle]
    /\ emitted' = [emitted EXCEPT ![g] = [v \in Vertex |-> 0]]
    /\ failed' = [failed EXCEPT ![g] = FALSE]
    /\ target' = [target EXCEPT ![g] = Null]
    /\ proc' = IF g \notin alive \/ Active(g) THEN "undefined" ELSE proc
    /\ UNCHANGED data

\* graph.reset(): undefined while the graph's vertices are at work, or after the
\* pool has deleted the graph.
Reset(g) ==
    /\ data' = [data EXCEPT ![g] = NoData]
    /\ vert' = [vert EXCEPT ![g] = AllIdle]
    /\ emitted' = [emitted EXCEPT ![g] = [v \in Vertex |-> 0]]
    /\ failed' = [failed EXCEPT ![g] = FALSE]
    /\ target' = [target EXCEPT ![g] = Null]
    /\ proc' = IF g \notin alive \/ Active(g) THEN "undefined" ELSE proc

\* builder.build(): memory does not run out.
NewGraph == CHOOSE g \in Graph : g \notin alive

\* init_pool().  A configuration file that cannot be read throws in a noexcept
\* function; a graph that cannot be built is only logged.
InitPool ==
    /\ proc = "boot"
    /\ \/ proc' = "terminated" /\ UNCHANGED <<buildable, capacity>>
       \/ proc' = "pooled" /\ buildable' \in BOOLEAN /\ capacity' \in PoolSizes
    /\ UNCHANGED <<alive, pool, graphVars, req, response, shared>>

\* GlobalInitializer::init() tries the engine: the first graph, if there is one,
\* is left in the pool.  Its null pointer is only logged.
FirstTryGet ==
    /\ proc = "pooled" /\ proc' = "ready"
    /\ alive' = IF buildable THEN {NewGraph} ELSE {}
    /\ pool' = IF buildable THEN <<NewGraph>> ELSE << >>
    /\ UNCHANGED <<buildable, capacity, graphVars, req, response, shared>>

\* main(): AddService and Start, which may fail.
StartServer ==
    /\ proc = "ready" /\ proc' \in {"up", "terminated"}
    /\ UNCHANGED <<engineVars, graphVars, req, response, shared>>

\* A request arrives, try_get(): pop() takes a graph from the pool or builds one.
TryGetPop(r) ==
    /\ proc = "up" /\ req[r].pc = "new"
    /\ Cardinality({q \in Request : req[q].pc \notin {"new", "answered"}}) < MaxConcurrent
    /\ \/ /\ pool # << >>
          /\ req' = [req EXCEPT ![r] = [pc |-> "popped", graph |-> Head(pool)]]
          /\ pool' = Tail(pool)
          /\ UNCHANGED alive
       \/ /\ pool = << >> /\ ~buildable
          /\ req' = [req EXCEPT ![r] = [pc |-> "got", graph |-> Null]]
          /\ UNCHANGED <<pool, alive>>
       \/ /\ pool = << >> /\ buildable /\ alive # Graph
          /\ req' = [req EXCEPT ![r] = [pc |-> "popped", graph |-> NewGraph]]
          /\ alive' = alive \cup {NewGraph}
          /\ UNCHANGED pool
    /\ UNCHANGED <<proc, buildable, capacity, graphVars, response, shared>>

\* Mutant: release() instead of get().
TryGetReturnRelease(r) ==
    /\ proc = "up" /\ req[r].pc = "popped"
    /\ req' = [req EXCEPT ![r].pc = "got"]
    /\ UNCHANGED <<proc, engineVars, graphVars, response, shared>>

\* The pooled pointer ends with the return statement of try_get(): its graph is
\* recycled and goes back to the pool, or is deleted if the pool is full.
TryGetReturn(r) ==
    /\ proc = "up" /\ req[r].pc = "popped"
    /\ Reset(req[r].graph)
    /\ IF Len(pool) < capacity
         THEN pool' = Append(pool, req[r].graph) /\ UNCHANGED alive
         ELSE alive' = alive \ {req[r].graph} /\ UNCHANGED pool
    /\ req' = [req EXCEPT ![r].pc = "got"]
    /\ shared' = (shared \/ InUse(req[r].graph) \/ Len(pool) >= capacity)
    /\ UNCHANGED <<buildable, capacity, response>>
--------------------------------------------------------------------------------
(* The run of a graph *)

\* Vertices of which everything they depend on is in d.
Ready(d, v) == \A x \in Interface[v].depends : d[x] # None
Woken(vs, d) == [v \in Vertex |-> IF vs[v] = "waiting" /\ Ready(d, v) THEN "starting" ELSE vs[v]]

\* SayHello up to graph->run(): a null graph is logged and used all the same; the
\* data "request" of a graph that has one already cannot be emitted again.
Run(r) ==
    /\ proc = "up" /\ req[r].pc = "got"
    /\ LET g == req[r].graph
           d == [data[g] EXCEPT !["request"] = r] IN
         IF g \notin alive \/ data[g]["request"] # None
           THEN proc' = "undefined" /\ UNCHANGED <<data, vert, target, req>>
           ELSE /\ data' = [data EXCEPT ![g] = d]
                /\ target' = [target EXCEPT ![g] = r]
                /\ vert' = [vert EXCEPT ![g] = Woken([v \in Vertex |-> "waiting"], d)]
                /\ req' = [req EXCEPT ![r].pc = "log"]
                /\ UNCHANGED proc
    /\ UNCHANGED <<engineVars, emitted, failed, response, shared>>

\* OutputProcessor has emitted response_info and is at lines 18-28, where it writes
\* the response.
Writing(g) == vert[g]["Output"] = "running" /\ emitted[g]["Output"] = 1

\* Before closure.wait() SayHello looks at the datum, and reads request_id of the
\* response for the log: a data race with Output, which may come out well.
LogResponse(r) ==
    /\ proc = "up" /\ req[r].pc = "log"
    /\ \/ /\ req[r].graph \notin alive \/ Writing(req[r].graph)
          /\ proc' = "undefined" /\ UNCHANGED req
       \/ /\ req[r].graph \in alive
          /\ req' = [req EXCEPT ![r].pc = "wait"] /\ UNCHANGED proc
    /\ UNCHANGED <<engineVars, graphVars, response, shared>>

\* Mutant: line 52 returns 0.
StartVertexSilent(g, v) ==
    /\ proc = "up" /\ vert[g][v] = "starting"
    /\ \E ok \in BOOLEAN : vert' = [vert EXCEPT ![g][v] = IF ok THEN "running" ELSE "done"]
    /\ UNCHANGED <<proc, engineVars, data, emitted, failed, target, req, response, shared>>

\* BthreadGraphExecutor::run(): bthread_start_background may fail; then the
\* vertex closure goes back to the caller, and ends with an error.
StartVertex(g, v) ==
    /\ proc = "up" /\ vert[g][v] = "starting"
    /\ \E ok \in BOOLEAN :
         /\ vert' = [vert EXCEPT ![g][v] = IF ok THEN "running" ELSE "done"]
         /\ failed' = [failed EXCEPT ![g] = @ \/ ~ok]
    /\ UNCHANGED <<proc, engineVars, data, emitted, target, req, response, shared>>

\* What process() puts into its data: the request_id of its input;
\* PrerankProcessor leaves it out when *IsSkipPreRank.
ParseRequestProcess(d) == {d["request"]}
PrerankProcess(d) == {d["normalized_request"], Blank}
RankProcess(d) == {d["normalized_request"]}
\* Mutant: request_id is taken from prerank_info.
OutputProcessOfPrerank(d) == {d["prerank_info"]}
OutputProcess(d) == {d["normalized_request"]}
Process(v, d) ==
    CASE v = "ParseRequest" -> ParseRequestProcess(d)
      [] v = "Prerank" -> PrerankProcess(d)
      [] v = "Rank" -> RankProcess(d)
      [] v = "Output" -> OutputProcess(d)

\* The vertex emits its next datum, which wakes the vertices that wait for it.
\* rs_response was preset: the datum is the response itself.
Emit(g, v) ==
    /\ proc = "up" /\ vert[g][v] = "running"
    /\ emitted[g][v] < Len(Interface[v].emits)
    /\ LET x == Interface[v].emits[emitted[g][v] + 1] IN
         \E val \in Process(v, data[g]) :
           LET d == [data[g] EXCEPT ![x] = val] IN
             /\ data' = [data EXCEPT ![g] = d]
             /\ vert' = [vert EXCEPT ![g] = Woken(@, d)]
             /\ response' = IF x = "rs_response" THEN [response EXCEPT ![target[g]] = val]
                                                 ELSE response
    /\ emitted' = [emitted EXCEPT ![g][v] = @ + 1]
    /\ UNCHANGED <<proc, engineVars, failed, target, req, shared>>

\* execute_invoke_vertex() ends.
EndVertex(g, v) ==
    /\ proc = "up" /\ vert[g][v] = "running"
    /\ emitted[g][v] = Len(Interface[v].emits)
    /\ vert' = [vert EXCEPT ![g][v] = "done"]
    /\ UNCHANGED <<proc, engineVars, data, emitted, failed, target, req, response, shared>>

\* closure.wait(): the data asked for is there, or an error, and no vertex is at work.
Wait(r) ==
    /\ proc = "up" /\ req[r].pc = "wait"
    /\ ~Active(req[r].graph)
    /\ failed[req[r].graph] \/ data[req[r].graph]["rs_response"] # None
    /\ req' = [req EXCEPT ![r].pc = "reset"]
    /\ UNCHANGED <<proc, engineVars, graphVars, response, shared>>

\* Mutant: the graph is put back into the pool here too.
AnswerReturns(r) ==
    /\ proc = "up" /\ req[r].pc = "reset"
    /\ Reset(req[r].graph)
    /\ pool' = Append(pool, req[r].graph)
    /\ req' = [req EXCEPT ![r] = [pc |-> "answered", graph |-> Null]]
    /\ UNCHANGED <<buildable, capacity, alive, response, shared>>

\* graph->reset(), and done_guard sends the response, whatever the error code.
Answer(r) ==
    /\ proc = "up" /\ req[r].pc = "reset"
    /\ Reset(req[r].graph)
    /\ req' = [req EXCEPT ![r] = [pc |-> "answered", graph |-> Null]]
    /\ UNCHANGED <<engineVars, response, shared>>
--------------------------------------------------------------------------------
SayHello(r) == \/ TryGetPop(r) \/ TryGetReturn(r)
               \/ Run(r) \/ LogResponse(r) \/ Wait(r) \/ Answer(r)
VertexStep(g, v) == StartVertex(g, v) \/ Emit(g, v) \/ EndVertex(g, v)

Next == \/ InitPool \/ FirstTryGet \/ StartServer
        \/ \E r \in Request : SayHello(r)
        \/ \E g \in Graph, v \in Vertex : VertexStep(g, v)

Spec == Init /\ [][Next]_vars

\* Handlers and vertices are bthreads, which are scheduled: every handler, and of
\* the vertices of a graph one after the other.
FairSpec == /\ Spec
            /\ \A r \in Request : WF_vars(SayHello(r))
            /\ \A g \in Graph : WF_vars(\E v \in Vertex : VertexStep(g, v))
--------------------------------------------------------------------------------
(* Properties *)

Value == Request \cup {None, Blank}

TypeOK ==
    /\ proc \in {"boot", "pooled", "ready", "up", "terminated", "undefined"}
    /\ buildable \in BOOLEAN
    /\ capacity \in PoolSizes \cup {0}
    /\ pool \in Seq(Graph) /\ Len(pool) <= capacity
    /\ alive \subseteq Graph
    /\ data \in [Graph -> [Data -> Value]]
    /\ vert \in [Graph -> [Vertex -> {"idle", "waiting", "starting", "running", "done"}]]
    /\ emitted \in [Graph -> [Vertex -> 0..2]]
    /\ failed \in [Graph -> BOOLEAN]
    /\ target \in [Graph -> Request \cup {Null}]
    /\ req \in [Request -> [pc : {"new", "popped", "got", "log", "wait", "reset", "answered"},
                            graph : Graph \cup {Null}]]
    /\ response \in [Request -> Request \cup {Blank}]
    /\ shared \in BOOLEAN

Pooled == {pool[i] : i \in DOMAIN pool}
Popped == {req[r].graph : r \in {q \in Request : req[q].pc = "popped"}}

\* The pool and the requests that are about to give one back account for every
\* graph, and no graph is in the pool twice, or taken twice: nothing leaks,
\* whoever else still holds a pointer.
PoolIsSound ==
    /\ \A i, j \in DOMAIN pool : pool[i] = pool[j] => i = j
    /\ \A r, q \in Request :
         (req[r].pc = "popped" /\ req[q].pc = "popped" /\ req[r].graph = req[q].graph) => r = q
    /\ Pooled \cap Popped = {}
    /\ alive = Pooled \cup Popped

\* The three ways to undefined behaviour that this code has: two requests hold one
\* graph (graph_engine.cpp:47); a request uses the null pointer of line 72 of
\* ranker_service.cpp, or a graph that the pool, being full, has deleted; a request
\* reads its response while its Output vertex writes it (ranker_service.cpp:92).
TwoHolders == \E r, q \in Request :
    /\ r # q /\ req[r].graph = req[q].graph /\ req[r].graph \in Graph
    /\ req[r].pc # "answered" /\ req[q].pc # "answered"
NoGraph == \E r \in Request : req[r].pc \in {"got", "log", "reset"} /\ req[r].graph \notin alive
ReadWhileWritten == \E r \in Request : req[r].pc = "log" /\ Writing(req[r].graph)

\* There is no fourth: what the last request left in a graph, its data, its preset or
\* vertices still at work, never trips the next one, whichever requests came before
\* and however their runs went.  Who shared a graph earlier is no excuse.
UndefinedOnlyByKnownFaults ==
    [][proc = "up" /\ proc' = "undefined" => TwoHolders \/ NoGraph \/ ReadWhileWritten]_vars

\* "Before the reset the last run must have ended completely"
\* (ranker_service.cpp:96): no step, of this or of another request, resets a graph
\* while vertices are at work on it.
ResetOnlyWhenIdle ==
    [][\A g \in Graph : Active(g) => vert'[g] # AllIdle]_vars

\* A request with a graph of its own is answered with its own id or, when a
\* bthread could not be started, without one: prerank may be skipped, and the
\* graph has served others before.
AnswersAreOwn ==
    ~shared => \A r \in Request :
        /\ response[r] \in {r, Blank}
        /\ req[r].pc = "reset" /\ ~failed[req[r].graph] => response[r] = r

\* Every request is answered, the ones whose vertices could not be started too.
EveryRequestAnswered ==
    \A r \in Request : (req[r].pc = "got")
                         ~> (req[r].pc = "answered" \/ proc # "up" \/ shared)
================================================================================
