-------------------------- MODULE GraphServiceProofs ---------------------------
(***************************************************************************)
(* For any requests, graphs and pool sizes: the pool accounts for every    *)
(* graph, undefined behaviour has the three known causes only, and a       *)
(* request that shares its graph with no other gets its own answer.        *)
(***************************************************************************)
EXTENDS GraphService, SequenceTheorems, TLAPS

\* A vertex at work has what it depends on.
DataReady ==
    \A g \in Graph, v \in Vertex :
        vert[g][v] \in {"starting", "running"} => Ready(data[g], v)

Holds(r, g) == req[r].graph = g /\ req[r].pc \in {"got", "log", "wait", "reset"}

\* A request that has a graph has it for itself.
OneHolder ==
    \A g \in Graph : \A r, q \in Request : Holds(r, g) /\ Holds(q, g) => r = q

\* Vertices are at work on a graph only while a request waits for them, or will.
WorkIsWaitedFor ==
    \A g \in Graph :
        Active(g) => \E r \in Request : req[r].graph = g /\ req[r].pc \in {"log", "wait"}

\* A graph has a request in its data only while a request has run it.
DataAreHeld ==
    \A g \in Graph : data[g]["request"] # None =>
        \E r \in Request : req[r].graph = g /\ req[r].pc \in {"log", "wait", "reset"}

\* A request that has run its graph has one.
RunsHaveGraphs == \A r \in Request : req[r].pc \in {"log", "wait", "reset"} => req[r].graph \in Graph

Held == WorkIsWaitedFor /\ DataAreHeld /\ RunsHaveGraphs

\* A request that is about to run its graph has one that exists and is empty, or
\* none, if none can be built.
FreshGraph ==
    \A r \in Request : req[r].pc = "got" =>
        IF req[r].graph = Null THEN ~buildable
                               ELSE req[r].graph \in alive /\ data[req[r].graph] = NoData

\* What is in a graph comes from the request that has it.
OwnData ==
    \A r \in Request : req[r].pc \in {"log", "wait", "reset"} =>
        LET g == req[r].graph IN
        /\ g \in Graph
        /\ target[g] = r
        /\ \A x \in Data \ {"prerank_info"} : data[g][x] \in {None, r}
        /\ data[g]["rs_response"] # None => response[r] = r
        /\ req[r].pc = "reset" => ~Active(g) /\ (failed[g] \/ data[g]["rs_response"] # None)

OwnResponse == \A r \in Request : response[r] \in {r, Blank}

Unshared == OneHolder /\ FreshGraph /\ OwnData /\ OwnResponse

Accounted ==
    /\ PoolIsSound
    /\ \A r \in Request : req[r].pc = "popped" => req[r].graph \in Graph
    /\ proc \in {"boot", "pooled", "ready"} => \A r \in Request : req[r].pc = "new"
    /\ proc \in {"boot", "pooled"} => pool = << >> /\ alive = {}
    /\ proc = "pooled" => capacity \in PoolSizes

GraphInv == TypeOK /\ Accounted /\ DataReady /\ Held /\ (~shared => Unshared)
--------------------------------------------------------------------------------
\* Where the data of a vertex come from and go to.
LEMMA TheVertices ==
    /\ Vertex = {"ParseRequest", "Prerank", "Rank", "Output"}
    /\ Interface["ParseRequest"] = ParseRequestInterface
    /\ Interface["Prerank"] = PrerankInterface
    /\ Interface["Rank"] = RankInterface
    /\ Interface["Output"] = OutputInterface
  BY DEF Vertex, Interface

LEMMA Interfaces ==
    ASSUME NEW v \in Vertex
    PROVE  /\ Interface[v].depends \subseteq Data
           /\ Len(Interface[v].emits) \in 1..2
           /\ \A i \in 1..Len(Interface[v].emits) : Interface[v].emits[i] \in Data \ {"request"}
           /\ v # "Prerank" => \A i \in 1..Len(Interface[v].emits) :
                                  Interface[v].emits[i] # "prerank_info"
  <1>1. CASE v = "ParseRequest"
    <2>1. /\ Interface[v].depends = {"request"}
          /\ Interface[v].emits = <<"normalized_request", "flags">>
          BY <1>1, TheVertices DEF ParseRequestInterface
    <2> QED BY <2>1 DEF Data
  <1>2. CASE v = "Prerank"
    <2>1. /\ Interface[v].depends = {"normalized_request", "flags"}
          /\ Interface[v].emits = <<"prerank_info">>
          BY <1>2, TheVertices DEF PrerankInterface
    <2> QED BY <1>2, <2>1 DEF Data
  <1>3. CASE v = "Rank"
    <2>1. /\ Interface[v].depends = {"normalized_request", "prerank_info"}
          /\ Interface[v].emits = <<"rank_info">>
          BY <1>3, TheVertices DEF RankInterface
    <2> QED BY <2>1 DEF Data
  <1>4. CASE v = "Output"
    <2>1. /\ Interface[v].depends = {"normalized_request", "prerank_info", "rank_info"}
          /\ Interface[v].emits = <<"response_info", "rs_response">>
          BY <1>4, TheVertices DEF OutputInterface
    <2> QED BY <2>1 DEF Data
  <1> QED BY <1>1, <1>2, <1>3, <1>4, TheVertices

\* What a vertex that is ready computes is a value, and its request's if its input is.
LEMMA ProcessValue ==
    ASSUME NEW v \in Vertex, NEW d \in [Data -> Value], Ready(d, v), NEW val \in Process(v, d)
    PROVE  /\ val \in Request \cup {Blank} /\ val # None
           /\ \A r : (v # "Prerank" /\ \A x \in Data \ {"prerank_info"} : d[x] \in {None, r})
                       => val = r
  <1> USE DEF Data, Process, Ready, Value, None, Blank
  <1>1. CASE v = "ParseRequest"
    <2>1. Interface[v].depends = {"request"}
          BY <1>1, TheVertices DEF ParseRequestInterface
    <2> QED BY <1>1, <2>1 DEF ParseRequestProcess
  <1>2. CASE v = "Prerank"
    <2>1. Interface[v].depends = {"normalized_request", "flags"}
          BY <1>2, TheVertices DEF PrerankInterface
    <2> QED BY <1>2, <2>1 DEF PrerankProcess
  <1>3. CASE v = "Rank"
    <2>1. Interface[v].depends = {"normalized_request", "prerank_info"}
          BY <1>3, TheVertices DEF RankInterface
    <2> QED BY <1>3, <2>1 DEF RankProcess
  <1>4. CASE v = "Output"
    <2>1. Interface[v].depends = {"normalized_request", "prerank_info", "rank_info"}
          BY <1>4, TheVertices DEF OutputInterface
    <2> QED BY <1>4, <2>1 DEF OutputProcess
  <1> QED BY <1>1, <1>2, <1>3, <1>4, TheVertices

LEMMA InitInv == Init => GraphInv
  <1> SUFFICES ASSUME Init PROVE GraphInv
      OBVIOUS
  <1> USE DEF Init, NoData, AllIdle
  <1>1. TypeOK
    <2>1. pool \in Seq(Graph) /\ Len(pool) <= capacity
          OBVIOUS
    <2>2. data \in [Graph -> [Data -> Value]]
          BY DEF Value
    <2>3. vert \in [Graph -> [Vertex -> {"idle", "waiting", "starting", "running", "done"}]]
          OBVIOUS
    <2>4. req \in [Request -> [pc : {"new", "popped", "got", "log", "wait", "reset", "answered"},
                               graph : Graph \cup {Null}]]
          OBVIOUS
    <2>5. emitted \in [Graph -> [Vertex -> 0..2]]
          OBVIOUS
    <2>6. response \in [Request -> Request \cup {Blank}] /\ target \in [Graph -> Request \cup {Null}]
          OBVIOUS
    <2>7. failed \in [Graph -> BOOLEAN] /\ shared \in BOOLEAN /\ buildable \in BOOLEAN
          OBVIOUS
    <2> QED BY <2>1, <2>2, <2>3, <2>4, <2>5, <2>6, <2>7 DEF TypeOK
  <1>2. Accounted
        BY DEF Accounted, PoolIsSound, Pooled, Popped
  <1>3. DataReady /\ Held
    <2>1. \A g \in Graph : ~Active(g) /\ data[g]["request"] = None
          BY DEF Active, Data
    <2> QED BY <2>1 DEF DataReady, Held, WorkIsWaitedFor, DataAreHeld, RunsHaveGraphs
  <1>4. Unshared
        BY DEF Unshared, OneHolder, Holds, FreshGraph, Active, OwnData, OwnResponse
  <1> QED BY <1>1, <1>2, <1>3, <1>4 DEF GraphInv

\* Starting up.
LEMMA StartInv == GraphInv /\ (InitPool \/ FirstTryGet \/ StartServer) => GraphInv'
  <1> SUFFICES ASSUME GraphInv, InitPool \/ FirstTryGet \/ StartServer PROVE GraphInv'
      OBVIOUS
  <1> USE DEF GraphInv, graphVars, engineVars
  <1>a. \A r \in Request : req[r].pc = "new" /\ req' = req /\ response' = response
        BY DEF Accounted, InitPool, FirstTryGet, StartServer
  <1>b. data' = data /\ vert' = vert /\ shared' = shared /\ UNCHANGED graphVars /\ proc' # "undefined"
        BY DEF InitPool, FirstTryGet, StartServer
  <1>1. TypeOK' /\ Accounted'
    <2>1. CASE InitPool
      <3>1. TypeOK'
        <4>1. pool' = << >>
              BY <2>1 DEF InitPool, Accounted
        <4>2. capacity' \in PoolSizes \cup {0}
              BY <2>1 DEF InitPool, TypeOK
        <4>3. Len(pool') <= capacity'
              BY <4>1, <4>2, BoundsAssumption
        <4> QED BY <2>1, <4>1, <4>2, <4>3 DEF InitPool, TypeOK
      <3>2. Accounted'
            BY <2>1 DEF InitPool, Accounted, PoolIsSound, Pooled, Popped
      <3> QED BY <3>1, <3>2
    <2>2. CASE FirstTryGet
      <3>1. NewGraph \in Graph
            BY <2>2, GraphAssumption DEF NewGraph, FirstTryGet, Accounted
      <3>2. TypeOK'
            BY <2>2, <3>1, BoundsAssumption DEF FirstTryGet, TypeOK, Accounted
      <3>3. Accounted'
            BY <2>2, <3>1 DEF FirstTryGet, Accounted, PoolIsSound, Pooled, Popped
      <3> QED BY <3>2, <3>3
    <2>3. CASE StartServer
          BY <2>3 DEF StartServer, TypeOK, Accounted, PoolIsSound, Pooled, Popped
    <2> QED BY <2>1, <2>2, <2>3
  <1>2. DataReady' /\ Held'
        BY <1>a, <1>b DEF DataReady, Held, WorkIsWaitedFor, DataAreHeld, RunsHaveGraphs, Active
  <1>3. ~shared' => Unshared'
        BY <1>a, <1>b
        DEF Unshared, OneHolder, Holds, FreshGraph, Active, OwnData, OwnResponse
  <1> QED BY <1>1, <1>2, <1>3

\* try_get() takes a graph out of the pool, or builds one.
LEMMA PopInv == \A r \in Request : GraphInv /\ TryGetPop(r) => GraphInv'
  <1> SUFFICES ASSUME NEW r \in Request, GraphInv, TryGetPop(r) PROVE GraphInv'
      OBVIOUS
  <1> USE DEF GraphInv
  <1>a. /\ proc' = "up" /\ proc = "up" /\ shared' = shared /\ response' = response /\ buildable' = buildable
        /\ data' = data /\ vert' = vert /\ failed' = failed /\ target' = target /\ emitted' = emitted
        /\ capacity' = capacity
        BY DEF TryGetPop, graphVars
  <1>b. req[r].pc = "new" /\ req \in [Request -> [pc : {"new", "popped", "got", "log", "wait", "reset", "answered"},
                                                  graph : Graph \cup {Null}]]
        BY DEF TryGetPop, TypeOK
  <1>h. Held'
    <2>1. \A q \in Request : q = r \/ req'[q] = req[q]
          BY <1>b DEF TryGetPop
    <2>2. req'[r].pc \notin {"log", "wait", "reset"}
          BY <1>b DEF TryGetPop
    <2> QED BY <1>a, <1>b, <2>1, <2>2 DEF Held, WorkIsWaitedFor, DataAreHeld, RunsHaveGraphs, Active
  <1>1. CASE pool # << >> /\ req' = [req EXCEPT ![r] = [pc |-> "popped", graph |-> Head(pool)]]
             /\ pool' = Tail(pool) /\ alive' = alive
    <2>1. /\ Len(pool) \in Nat \ {0} /\ pool[1] = Head(pool) /\ Head(pool) \in Graph
          /\ Tail(pool) \in Seq(Graph) /\ Len(Tail(pool)) = Len(pool) - 1
          /\ \A i \in 1..(Len(pool) - 1) : Tail(pool)[i] = pool[i + 1]
          BY <1>1 DEF TypeOK
    <2>2. TypeOK'
          BY <1>1, <1>a, <2>1, BoundsAssumption DEF TypeOK
    <2>3. Accounted'
      <3>1. \A q \in Request : /\ req'[q].pc = IF q = r THEN "popped" ELSE req[q].pc
                               /\ req'[q].graph = IF q = r THEN Head(pool) ELSE req[q].graph
            BY <1>1, <1>b
      <3>2. \A i \in DOMAIN pool' : pool'[i] = pool[i + 1] /\ i + 1 \in DOMAIN pool /\ i \in Nat
            BY <1>1, <2>1 DEF TypeOK
      <3>3. \A i, j \in DOMAIN pool' : pool'[i] = pool'[j] => i = j
            BY <3>2 DEF Accounted, PoolIsSound
      <3>4. Pooled = Pooled' \cup {Head(pool)}
        <4>1. \A i \in DOMAIN pool : i = 1 \/ (i - 1 \in DOMAIN pool' /\ pool'[i - 1] = pool[i])
              BY <1>1, <2>1 DEF TypeOK
        <4>2. 1 \in DOMAIN pool
              BY <2>1 DEF TypeOK
        <4> QED BY <4>1, <4>2, <3>2, <2>1 DEF Pooled
      <3>5. Head(pool) \notin Pooled'
        <4>1. 1 \in DOMAIN pool
              BY <2>1 DEF TypeOK
        <4> QED BY <4>1, <3>2, <2>1 DEF Accounted, PoolIsSound, Pooled
      <3>6. \A q \in Request : req[q].pc = "popped" => req[q].graph # Head(pool) /\ q # r
        <4>1. Head(pool) \in Pooled
              BY <3>4
        <4> QED BY <4>1, <1>b DEF Accounted, PoolIsSound, Popped
      <3>7. Popped' = Popped \cup {Head(pool)}
            BY <3>1, <3>6, <1>b DEF Popped
      <3> HIDE DEF GraphInv
      <3>8. PoolIsSound'
        <4>1. Accounted
              BY DEF GraphInv
        <4> QED BY <4>1, <1>1, <3>1, <3>3, <3>4, <3>5, <3>6, <3>7 DEF Accounted, PoolIsSound
      <3> QED BY <1>a, <3>1, <3>8, <2>1 DEF Accounted, GraphInv
    <2>4. ~shared' => Unshared'
          BY <1>1, <1>a, <1>b
          DEF Unshared, OneHolder, Holds, FreshGraph, Active, OwnData, OwnResponse
    <2> QED BY <1>a, <1>h, <2>2, <2>3, <2>4 DEF DataReady
  <1>2. CASE pool = << >> /\ ~buildable /\ req' = [req EXCEPT ![r] = [pc |-> "got", graph |-> Null]]
             /\ pool' = pool /\ alive' = alive
    <2>1. TypeOK'
          BY <1>2, <1>a DEF TypeOK
    <2>2. Accounted'
          BY <1>2, <1>a, <1>b DEF Accounted, PoolIsSound, Pooled, Popped
    <2>3. ~shared' => Unshared'
          BY <1>2, <1>a, <1>b, GraphAssumption
          DEF Unshared, OneHolder, Holds, FreshGraph, Active, OwnData, OwnResponse
    <2> QED BY <1>a, <1>h, <2>1, <2>2, <2>3 DEF DataReady
  <1>3. CASE pool = << >> /\ buildable /\ alive # Graph
             /\ req' = [req EXCEPT ![r] = [pc |-> "popped", graph |-> NewGraph]]
             /\ alive' = alive \cup {NewGraph} /\ pool' = pool
    <2>1. NewGraph \in Graph \ alive
          BY <1>3 DEF NewGraph, TypeOK
    <2>2. TypeOK'
          BY <1>3, <1>a, <2>1 DEF TypeOK
    <2>3. Accounted'
          BY <1>3, <1>a, <1>b, <2>1 DEF Accounted, PoolIsSound, Pooled, Popped
    <2>4. ~shared' => Unshared'
          BY <1>3, <1>a, <1>b
          DEF Unshared, OneHolder, Holds, FreshGraph, Active, OwnData, OwnResponse
    <2> QED BY <1>a, <1>h, <2>2, <2>3, <2>4 DEF DataReady
  <1> QED BY <1>1, <1>2, <1>3 DEF TryGetPop

\* The graph is reset and goes back, and the request has a pointer to it.
LEMMA ReturnInv == \A r \in Request : GraphInv /\ TryGetReturn(r) => GraphInv'
  <1> SUFFICES ASSUME NEW r \in Request, GraphInv, TryGetReturn(r) PROVE GraphInv'
      OBVIOUS
  <1> DEFINE g == req[r].graph
  <1> USE DEF GraphInv
  <1>a. /\ proc = "up" /\ req[r].pc = "popped" /\ g \in Graph /\ g \in alive
        /\ proc' \in {"undefined", "up"}
        /\ req' = [req EXCEPT ![r].pc = "got"]
        /\ req \in [Request -> [pc : {"new", "popped", "got", "log", "wait", "reset", "answered"},
                                graph : Graph \cup {Null}]]
        /\ shared' = (shared \/ InUse(g) \/ Len(pool) >= capacity)
        /\ buildable' = buildable /\ capacity' = capacity /\ response' = response
        BY DEF TryGetReturn, Reset, Accounted, PoolIsSound, Popped, TypeOK
  <1>b. /\ data' = [data EXCEPT ![g] = NoData]
        /\ vert' = [vert EXCEPT ![g] = AllIdle]
        /\ emitted' = [emitted EXCEPT ![g] = [v \in Vertex |-> 0]]
        /\ failed' = [failed EXCEPT ![g] = FALSE]
        /\ target' = [target EXCEPT ![g] = Null]
        BY DEF TryGetReturn, Reset
  <1>c. \/ Len(pool) < capacity /\ pool' = Append(pool, g) /\ alive' = alive
        \/ Len(pool) >= capacity /\ alive' = alive \ {g} /\ pool' = pool
        BY BoundsAssumption DEF TryGetReturn, TypeOK
  <1>d. \A q \in Request : /\ req'[q].pc = IF q = r THEN "got" ELSE req[q].pc
                           /\ req'[q].graph = req[q].graph
        BY <1>a
  <1>1. TypeOK'
    <2>1. data' \in [Graph -> [Data -> Value]]
          BY <1>a, <1>b DEF TypeOK, NoData, Value
    <2>2. vert' \in [Graph -> [Vertex -> {"idle", "waiting", "starting", "running", "done"}]]
          BY <1>a, <1>b DEF TypeOK, AllIdle
    <2>3. emitted' \in [Graph -> [Vertex -> 0..2]]
          BY <1>a, <1>b DEF TypeOK
    <2>4. failed' \in [Graph -> BOOLEAN] /\ target' \in [Graph -> Request \cup {Null}]
          BY <1>a, <1>b DEF TypeOK
    <2>5. pool' \in Seq(Graph) /\ Len(pool') <= capacity' /\ alive' \subseteq Graph
      <3>1. pool \in Seq(Graph) /\ Len(pool) \in Nat /\ capacity \in Nat /\ Len(pool) <= capacity
            BY BoundsAssumption DEF TypeOK
      <3>2. Append(pool, g) \in Seq(Graph) /\ Len(Append(pool, g)) = Len(pool) + 1
            BY <1>a, <3>1
      <3>3. alive' \subseteq Graph
            BY <1>c DEF TypeOK
      <3> HIDE DEF GraphInv
      <3>4. pool' \in Seq(Graph) /\ Len(pool') <= capacity
            BY <1>c, <3>1, <3>2
      <3> QED BY <1>a, <3>3, <3>4
    <2>6. req' \in [Request -> [pc : {"new", "popped", "got", "log", "wait", "reset", "answered"},
                               graph : Graph \cup {Null}]]
          BY <1>a
    <2>7. shared' \in BOOLEAN
          BY <1>a
    <2> QED BY <1>a, <2>1, <2>2, <2>3, <2>4, <2>5, <2>6, <2>7 DEF TypeOK
  <1>2. Accounted'
    <2>0. Accounted
          OBVIOUS
    <2>1. g \notin Pooled
          BY <1>a, <2>0 DEF Accounted, PoolIsSound, Popped
    <2>2. /\ Popped = Popped' \cup {g}
          /\ g \notin Popped'
          BY <1>a, <1>d, <2>0 DEF Accounted, PoolIsSound, Popped
    <2>3. CASE Len(pool) < capacity /\ pool' = Append(pool, g) /\ alive' = alive
      <3>1. /\ DOMAIN pool' = DOMAIN pool \cup {Len(pool) + 1} /\ pool'[Len(pool) + 1] = g
            /\ Len(pool) + 1 \notin DOMAIN pool
            /\ \A i \in DOMAIN pool : pool'[i] = pool[i]
            BY <2>3, <1>a DEF TypeOK
      <3>2. Pooled' = Pooled \cup {g}
            BY <3>1 DEF Pooled
      <3>3. \A i, j \in DOMAIN pool' : pool'[i] = pool'[j] => i = j
            BY <3>1, <2>0, <2>1 DEF Accounted, PoolIsSound, Pooled
      <3> HIDE DEF GraphInv
      <3> QED BY <1>a, <1>d, <2>0, <2>1, <2>2, <2>3, <3>2, <3>3 DEF Accounted, PoolIsSound
    <2>4. CASE Len(pool) >= capacity /\ alive' = alive \ {g} /\ pool' = pool
      <3> HIDE DEF GraphInv
      <3>1. Pooled' = Pooled
            BY <2>4 DEF Pooled
      <3>2. PoolIsSound'
            BY <1>d, <2>0, <2>1, <2>2, <2>4, <3>1 DEF Accounted, PoolIsSound
      <3> QED BY <1>a, <1>d, <2>0, <3>2 DEF Accounted
    <2> QED BY <1>c, <2>3, <2>4
  <1>3. DataReady'
        BY <1>a, <1>b DEF DataReady, AllIdle, TypeOK
  <1>5. Held'
    <2>1. /\ \A v \in Vertex : vert'[g][v] \notin {"starting", "running"}
          /\ data'[g]["request"] = None
          BY <1>a, <1>b DEF AllIdle, NoData, Data, TypeOK
    <2>2. \A h \in Graph : h # g => vert'[h] = vert[h] /\ data'[h] = data[h]
          BY <1>b DEF TypeOK
    <2>3. \A q \in Request : req[q].pc \in {"log", "wait", "reset"} =>
                              req'[q].pc = req[q].pc /\ req'[q].graph = req[q].graph
          BY <1>a, <1>d
    <2>4. WorkIsWaitedFor'
      <3>1. \A h \in Graph : Active(h)' => h # g /\ Active(h)
            BY <2>1, <2>2 DEF Active
      <3> QED BY <2>3, <3>1 DEF Held, WorkIsWaitedFor
    <2>5. DataAreHeld'
          BY <2>1, <2>2, <2>3 DEF Held, DataAreHeld
    <2>6. RunsHaveGraphs'
          BY <1>d DEF Held, RunsHaveGraphs
    <2> QED BY <2>4, <2>5, <2>6 DEF Held
  <1>6. ASSUME ~shared' PROVE Unshared'
    <2>1. ~shared /\ ~InUse(g) /\ alive' = alive /\ Unshared
          BY <1>a, <1>c, <1>6, BoundsAssumption DEF TypeOK
    <2>2. \A q \in Request : req[q].pc \in {"got", "log", "wait", "reset"} => req[q].graph # g
          BY <2>1 DEF InUse
    <2>3. OneHolder'
          BY <1>d, <2>1, <2>2 DEF Unshared, OneHolder, Holds
    <2>5. FreshGraph'
          BY <1>a, <1>b, <1>d, <2>1, <2>2, GraphAssumption DEF Unshared, FreshGraph, TypeOK
    <2>6. OwnData'
      <3>1. SUFFICES ASSUME NEW q \in Request, req'[q].pc \in {"log", "wait", "reset"}
                     PROVE  OwnData!(q)'
            BY DEF OwnData
      <3>2. q # r /\ req[q].pc = req'[q].pc /\ req'[q].graph = req[q].graph /\ req[q].graph # g
            BY <1>d, <2>2, <3>1
      <3>3. req[q].graph \in Graph
            BY <2>1, <3>1, <3>2 DEF Unshared, OwnData
      <3>4. /\ vert'[req[q].graph] = vert[req[q].graph] /\ data'[req[q].graph] = data[req[q].graph]
            /\ target'[req[q].graph] = target[req[q].graph]
            /\ failed'[req[q].graph] = failed[req[q].graph]
            BY <1>b, <3>2, <3>3 DEF TypeOK
      <3> QED BY <1>a, <2>1, <3>1, <3>2, <3>3, <3>4 DEF Unshared, OwnData, Active
    <2>7. OwnResponse'
          BY <1>a, <2>1 DEF Unshared, OwnResponse
    <2> QED BY <2>3, <2>5, <2>6, <2>7 DEF Unshared
  <1> QED BY <1>1, <1>2, <1>3, <1>5, <1>6

\* SayHello puts the request into its graph and lets it run.
LEMMA RunInv == \A r \in Request : GraphInv /\ Run(r) => GraphInv'
  <1> SUFFICES ASSUME NEW r \in Request, GraphInv, Run(r) PROVE GraphInv'
      OBVIOUS
  <1> DEFINE g == req[r].graph
             d == [data[g] EXCEPT !["request"] = r]
  <1> USE DEF GraphInv
  <1>a. /\ proc = "up" /\ req[r].pc = "got"
        /\ buildable' = buildable /\ capacity' = capacity /\ pool' = pool /\ alive' = alive
        /\ emitted' = emitted /\ failed' = failed /\ response' = response /\ shared' = shared
        BY DEF Run, engineVars
  <1>1. CASE g \notin alive \/ data[g]["request"] # None
    <2>1. proc' = "undefined" /\ data' = data /\ vert' = vert /\ target' = target /\ req' = req
          BY <1>1 DEF Run
    <2>2. TypeOK' /\ DataReady'
          BY <1>a, <2>1 DEF TypeOK, DataReady
    <2>3. Accounted'
          BY <1>a, <2>1 DEF Accounted, PoolIsSound, Pooled, Popped
    <2>4. Held'
          BY <1>a, <2>1 DEF Held, WorkIsWaitedFor, DataAreHeld, RunsHaveGraphs, Active
    <2>5. ~shared' => Unshared'
          BY <1>a, <2>1
          DEF Unshared, OneHolder, Holds, FreshGraph, Active, OwnData, OwnResponse
    <2> QED BY <2>2, <2>3, <2>4, <2>5
  <1>2. CASE g \in alive /\ data[g]["request"] = None
    <2>a. /\ g \in Graph
          /\ data' = [data EXCEPT ![g] = d]
          /\ target' = [target EXCEPT ![g] = r]
          /\ vert' = [vert EXCEPT ![g] = Woken([v \in Vertex |-> "waiting"], d)]
          /\ req' = [req EXCEPT ![r].pc = "log"]
          /\ proc' = proc
          BY <1>2 DEF Run, TypeOK
    <2>b. \A q \in Request : /\ req'[q].pc = IF q = r THEN "log" ELSE req[q].pc
                             /\ req'[q].graph = req[q].graph
          BY <2>a DEF TypeOK
    <2>c. d \in [Data -> Value] /\ \A x \in Data : d[x] = IF x = "request" THEN r ELSE data[g][x]
          BY <2>a DEF TypeOK, Value
    <2>d. \A h \in Graph : /\ data'[h] = IF h = g THEN d ELSE data[h]
                           /\ target'[h] = IF h = g THEN r ELSE target[h]
                           /\ vert'[h] = IF h = g THEN Woken([v \in Vertex |-> "waiting"], d) ELSE vert[h]
          BY <2>a DEF TypeOK
    <2> HIDE DEF d
    <2>e. \A v \in Vertex : vert'[g][v] = IF Ready(d, v) THEN "starting" ELSE "waiting"
          BY <2>a, <2>d DEF Woken
    <2>1. TypeOK'
      <3>1. data' \in [Graph -> [Data -> Value]]
            BY <2>a, <2>c DEF TypeOK
      <3>2. vert' \in [Graph -> [Vertex -> {"idle", "waiting", "starting", "running", "done"}]]
            BY <2>a DEF TypeOK, Woken
      <3>3. req' \in [Request -> [pc : {"new", "popped", "got", "log", "wait", "reset", "answered"},
                                 graph : Graph \cup {Null}]]
        <4>1. req \in [Request -> [pc : {"new", "popped", "got", "log", "wait", "reset", "answered"},
                                   graph : Graph \cup {Null}]]
              BY DEF TypeOK
        <4> HIDE DEF GraphInv, g
        <4> QED BY <2>a, <4>1
      <3>4. target' \in [Graph -> Request \cup {Null}]
            BY <2>a DEF TypeOK
      <3> QED BY <1>a, <2>a, <3>1, <3>2, <3>3, <3>4 DEF TypeOK
    <2>2. Accounted'
      <3>1. Pooled' = Pooled /\ Popped' = Popped
            BY <1>a, <2>b DEF Pooled, Popped
      <3> QED BY <1>a, <2>a, <2>b, <3>1 DEF Accounted, PoolIsSound
    <2>3. DataReady'
          BY <2>d, <2>e DEF DataReady
    <2>4. ASSUME ~shared PROVE Unshared'
      <3>0. Unshared
            BY <2>4
      <3>1. OneHolder'
            BY <1>a, <2>b, <3>0 DEF Unshared, OneHolder, Holds
      <3>3. \A q \in Request : q # r /\ req[q].pc \in {"got", "log", "wait", "reset"} => req[q].graph # g
            BY <1>a, <2>a, <3>0 DEF Unshared, OneHolder, Holds
      <3>4. FreshGraph'
        <4>1. SUFFICES ASSUME NEW q \in Request, req'[q].pc = "got", req[q].graph # Null
                       PROVE  req[q].graph \in alive /\ data'[req[q].graph] = NoData
              BY <1>a, <2>b, <3>0 DEF Unshared, FreshGraph
        <4>2. q # r /\ req[q].pc = "got" /\ req[q].graph # g
              BY <2>b, <3>3, <4>1
        <4>3. req[q].graph \in alive /\ data[req[q].graph] = NoData /\ alive \subseteq Graph
              BY <3>0, <4>1, <4>2 DEF Unshared, FreshGraph, TypeOK
        <4> QED BY <2>d, <4>2, <4>3
      <3>5. OwnData'
        <4>1. SUFFICES ASSUME NEW q \in Request, req'[q].pc \in {"log", "wait", "reset"}
                       PROVE  OwnData!(q)'
              BY DEF OwnData
        <4>2. CASE q = r
          <5>1. data[g] = NoData
                BY <1>a, <2>a, <3>0, GraphAssumption DEF Unshared, FreshGraph
          <5>2. \A x \in Data : d[x] \in {None, r} /\ (x # "request" => d[x] = None)
                BY <2>c, <5>1 DEF NoData
          <5>3. "rs_response" \in Data
                BY DEF Data
          <5> QED BY <2>a, <2>b, <2>d, <4>2, <5>2, <5>3
        <4>3. CASE q # r
          <5>1. /\ req'[q] = req[q] /\ req[q].graph # g /\ req[q].graph \in Graph
                /\ req[q].pc \in {"log", "wait", "reset"}
                BY <2>a, <2>b, <3>0, <3>3, <4>1, <4>3 DEF Unshared, OwnData, TypeOK
          <5> QED BY <1>a, <2>d, <3>0, <4>1, <5>1 DEF Unshared, OwnData, Active
        <4> QED BY <4>2, <4>3
      <3>6. OwnResponse'
            BY <1>a, <3>0 DEF Unshared, OwnResponse
      <3> QED BY <3>1, <3>4, <3>5, <3>6 DEF Unshared
    <2>5. Held'
      <3>1. \A q \in Request : req[q].pc \in {"log", "wait", "reset"} =>
                                req'[q].pc = req[q].pc /\ req'[q].graph = req[q].graph
            BY <1>a, <2>b
      <3>2. req'[r].pc = "log" /\ req'[r].graph = g
            BY <2>b
      <3>3. WorkIsWaitedFor'
        <4>1. \A h \in Graph : Active(h)' => h = g \/ Active(h)
              BY <2>d DEF Active
        <4> QED BY <3>1, <3>2, <4>1 DEF Held, WorkIsWaitedFor
      <3>4. DataAreHeld'
            BY <2>d, <3>1, <3>2 DEF Held, DataAreHeld
      <3>5. RunsHaveGraphs'
            BY <1>a, <2>a, <2>b DEF Held, RunsHaveGraphs
      <3> QED BY <3>3, <3>4, <3>5 DEF Held
    <2> QED BY <1>a, <2>a, <2>1, <2>2, <2>3, <2>4, <2>5
  <1> QED BY <1>1, <1>2

\* SayHello reads the response for the log.
LEMMA LogInv == \A r \in Request : GraphInv /\ LogResponse(r) => GraphInv'
  <1> SUFFICES ASSUME NEW r \in Request, GraphInv, LogResponse(r) PROVE GraphInv'
      OBVIOUS
  <1> USE DEF GraphInv
  <1>a. /\ proc = "up" /\ proc' \in {"up", "undefined"} /\ req[r].pc = "log"
        /\ UNCHANGED <<engineVars, graphVars, response, shared>>
        /\ req' = req \/ req' = [req EXCEPT ![r].pc = "wait"]
        BY DEF LogResponse
  <1>c. req \in [Request -> [pc : {"new", "popped", "got", "log", "wait", "reset", "answered"},
                            graph : Graph \cup {Null}]]
        BY DEF TypeOK
  <1>b. \A q \in Request : /\ \/ req'[q].pc = req[q].pc
                              \/ req[q].pc = "log" /\ req'[q].pc = "wait"
                           /\ req'[q].graph = req[q].graph
    <2> HIDE DEF GraphInv
    <2>1. CASE req' = req
          BY <2>1
    <2>2. CASE req' = [req EXCEPT ![r].pc = "wait"]
          BY <1>a, <1>c, <2>2
    <2> QED BY <1>a, <2>1, <2>2
  <1>1. TypeOK'
    <2>1. req' \in [Request -> [pc : {"new", "popped", "got", "log", "wait", "reset", "answered"},
                               graph : Graph \cup {Null}]]
      <3> HIDE DEF GraphInv
      <3>1. CASE req' = req
            BY <1>c, <3>1
      <3>2. CASE req' = [req EXCEPT ![r].pc = "wait"]
            BY <1>a, <1>c, <3>2
      <3> QED BY <1>a, <3>1, <3>2
    <2> QED BY <1>a, <2>1 DEF TypeOK, engineVars, graphVars
  <1>2. Accounted'
    <2>1. Pooled' = Pooled /\ Popped' = Popped
          BY <1>a, <1>b DEF Pooled, Popped, engineVars
    <2> QED BY <1>a, <1>b, <2>1 DEF Accounted, PoolIsSound, engineVars
  <1>3. DataReady'
        BY <1>a DEF DataReady, graphVars
  <1>4. Held'
    <2>1. \A h \in Graph : /\ Active(h)' <=> Active(h)
                           /\ data'[h] = data[h]
          BY <1>a DEF Active, graphVars
    <2>2. WorkIsWaitedFor'
          BY <1>b, <2>1 DEF Held, WorkIsWaitedFor
    <2>3. DataAreHeld'
          BY <1>b, <2>1 DEF Held, DataAreHeld
    <2>4. RunsHaveGraphs'
          BY <1>b DEF Held, RunsHaveGraphs
    <2> QED BY <2>2, <2>3, <2>4 DEF Held
  <1>5. ASSUME ~shared PROVE Unshared'
    <2>0. Unshared
          BY <1>5
    <2>1. OneHolder' /\ OwnResponse'
          BY <1>a, <1>b, <2>0 DEF Unshared, OneHolder, Holds, OwnResponse
    <2>2. \A h \in Graph : Active(h)' <=> Active(h)
          BY <1>a DEF Active, graphVars
    <2>3. FreshGraph'
          BY <1>a, <1>b, <2>0 DEF Unshared, FreshGraph, graphVars, engineVars
    <2>4. OwnData'
          BY <1>a, <1>b, <2>0, <2>2 DEF Unshared, OwnData, graphVars
    <2> QED BY <2>1, <2>3, <2>4 DEF Unshared
  <1> QED BY <1>a, <1>1, <1>2, <1>3, <1>4, <1>5

\* A bthread is started for a vertex or not, and ends.
LEMMA VertexInv ==
    \A g \in Graph, v \in Vertex : GraphInv /\ (StartVertex(g, v) \/ EndVertex(g, v)) => GraphInv'
  <1> SUFFICES ASSUME NEW g \in Graph, NEW v \in Vertex, GraphInv, StartVertex(g, v) \/ EndVertex(g, v)
               PROVE  GraphInv'
      OBVIOUS
  <1> USE DEF GraphInv
  <1>a. /\ proc' = proc /\ UNCHANGED <<engineVars, data, emitted, target, req, response, shared>>
        /\ vert[g][v] \in {"starting", "running"}
        /\ proc = "up"
        BY DEF StartVertex, EndVertex
  <1>b. PICK w \in {"running", "done"} : vert' = [vert EXCEPT ![g][v] = w] /\ (w = "running" => vert[g][v] = "starting")
        BY DEF StartVertex, EndVertex
  <1>c. failed' \in [Graph -> BOOLEAN] /\ \A h \in Graph : failed[h] => failed'[h]
        BY DEF StartVertex, EndVertex, TypeOK
  <1>d. \A h \in Graph, u \in Vertex :
          vert'[h][u] \in {"starting", "running"} => vert[h][u] \in {"starting", "running"}
        BY <1>a, <1>b DEF TypeOK
  <1>1. TypeOK'
        BY <1>a, <1>b, <1>c DEF TypeOK, engineVars
  <1>2. Accounted'
        BY <1>a DEF Accounted, PoolIsSound, Pooled, Popped, engineVars
  <1>3. DataReady'
        BY <1>a, <1>d DEF DataReady
  <1>e. \A h \in Graph : Active(h)' => Active(h)
        BY <1>d DEF Active
  <1>4. Held'
        BY <1>a, <1>e DEF Held, WorkIsWaitedFor, DataAreHeld, RunsHaveGraphs
  <1>5. ASSUME ~shared PROVE Unshared'
    <2>0. Unshared /\ \A h \in Graph : Active(h)' => Active(h)
          BY <1>5, <1>e
    <2>1. OneHolder' /\ OwnResponse' /\ FreshGraph'
          BY <1>a, <2>0 DEF Unshared, OneHolder, Holds, OwnResponse, FreshGraph, engineVars
    <2>3. OwnData'
          BY <1>a, <1>c, <2>0 DEF Unshared, OwnData
    <2> QED BY <2>1, <2>3 DEF Unshared
  <1> QED BY <1>a, <1>1, <1>2, <1>3, <1>4, <1>5

\* A vertex emits a datum.
LEMMA EmitInv == \A g \in Graph, v \in Vertex : GraphInv /\ Emit(g, v) => GraphInv'
  <1> SUFFICES ASSUME NEW g \in Graph, NEW v \in Vertex, GraphInv, Emit(g, v) PROVE GraphInv'
      OBVIOUS
  <1> DEFINE x == Interface[v].emits[emitted[g][v] + 1]
             Written(val) == [data[g] EXCEPT ![x] = val]
  <1> USE DEF GraphInv
  <1>a. /\ proc' = proc /\ proc = "up" /\ vert[g][v] = "running"
        /\ UNCHANGED <<engineVars, failed, target, req, shared>>
        /\ emitted' = [emitted EXCEPT ![g][v] = @ + 1]
        /\ emitted[g][v] < Len(Interface[v].emits)
        BY DEF Emit
  <1>b. PICK val \in Process(v, data[g]) :
          /\ data' = [data EXCEPT ![g] = Written(val)]
          /\ vert' = [vert EXCEPT ![g] = Woken(@, Written(val))]
          /\ response' = IF x = "rs_response" THEN [response EXCEPT ![target[g]] = val] ELSE response
        BY DEF Emit
  <1>c. /\ emitted[g][v] + 1 \in 1..Len(Interface[v].emits) /\ emitted[g][v] + 1 \in 0..2
        /\ x \in Data /\ x # "request"
        /\ v # "Prerank" => x # "prerank_info"
        /\ v = "Prerank" => x = "prerank_info"
    <2>1. emitted[g][v] \in 0..2 /\ Len(Interface[v].emits) \in 1..2
          BY Interfaces DEF TypeOK
    <2>2. emitted[g][v] + 1 \in 1..Len(Interface[v].emits) /\ emitted[g][v] + 1 \in 0..2
      <3>1. emitted[g][v] < Len(Interface[v].emits)
            BY <1>a
      <3>2. ASSUME NEW e \in 0..2, NEW n \in 1..2, e < n PROVE e + 1 \in 1..n /\ e + 1 \in 0..2
            BY <3>2
      <3> QED BY <2>1, <3>1, <3>2
    <2>3. v = "Prerank" => Interface[v].emits = <<"prerank_info">>
          BY TheVertices DEF PrerankInterface
    <2>4. v = "Prerank" => x = "prerank_info"
          BY <2>2, <2>3
    <2> QED BY <2>2, <2>4, Interfaces
  <1>d. data[g] \in [Data -> Value] /\ Ready(data[g], v)
        BY <1>a DEF TypeOK, DataReady
  <1>e. /\ val \in Request \cup {Blank} /\ val # None
        /\ \A r : (v # "Prerank" /\ \A y \in Data \ {"prerank_info"} : data[g][y] \in {None, r}) => val = r
        BY <1>d, ProcessValue
  <1> HIDE DEF x
  <1>f. \A h \in Graph, y \in Data :
           data'[h][y] = IF h = g /\ y = x THEN val ELSE data[h][y]
        BY <1>b, <1>d DEF TypeOK
  <1>g. \A h \in Graph, u \in Vertex :
           vert'[h][u] = IF h = g /\ vert[g][u] = "waiting" /\ Ready(Written(val), u)
                           THEN "starting" ELSE vert[h][u]
        BY <1>b DEF TypeOK, Woken
  <1>h. data'[g] = Written(val)
        BY <1>b DEF TypeOK
  <1>1. TypeOK'
    <2>1. data' \in [Graph -> [Data -> Value]]
          BY <1>b, <1>c, <1>d, <1>e DEF TypeOK, Value
    <2>2. vert' \in [Graph -> [Vertex -> {"idle", "waiting", "starting", "running", "done"}]]
      <3>1. Woken(vert[g], Written(val)) \in [Vertex -> {"idle", "waiting", "starting", "running", "done"}]
            BY DEF Woken, TypeOK
      <3> QED BY <1>b, <3>1 DEF TypeOK
    <2>3. emitted' \in [Graph -> [Vertex -> 0..2]]
          BY <1>a, <1>c DEF TypeOK
    <2>4. response' \in [Request -> Request \cup {Blank}]
          BY <1>b, <1>e DEF TypeOK
    <2> QED BY <1>a, <2>1, <2>2, <2>3, <2>4 DEF TypeOK, engineVars
  <1>2. Accounted'
        BY <1>a DEF Accounted, PoolIsSound, Pooled, Popped, engineVars
  <1>3. DataReady'
    <2>1. SUFFICES ASSUME NEW h \in Graph, NEW u \in Vertex, vert'[h][u] \in {"starting", "running"}
                   PROVE  Ready(data'[h], u)
          BY DEF DataReady
    <2>2. CASE h = g /\ vert[g][u] = "waiting" /\ Ready(Written(val), u)
          BY <1>h, <2>2
    <2>3. CASE ~(h = g /\ vert[g][u] = "waiting" /\ Ready(Written(val), u))
      <3>1. Ready(data[h], u)
            BY <1>g, <2>1, <2>3 DEF DataReady
      <3>2. \A y \in Interface[u].depends : y \in Data
            BY Interfaces
      <3> QED BY <1>e, <1>f, <3>1, <3>2 DEF Ready
    <2> QED BY <2>2, <2>3
  <1>i. PICK q \in Request : req[q].graph = g /\ req[q].pc \in {"log", "wait"}
    <2>1. Active(g)
          BY <1>a DEF Active
    <2> QED BY <2>1 DEF Held, WorkIsWaitedFor
  <1>4. Held'
    <2>1. WorkIsWaitedFor'
      <3>1. \A h \in Graph : Active(h)' => h = g \/ Active(h)
            BY <1>g DEF Active
      <3> QED BY <1>a, <1>i, <3>1 DEF Held, WorkIsWaitedFor
    <2>2. DataAreHeld'
      <3>1. "request" \in Data
            BY DEF Data
      <3> QED BY <1>a, <1>c, <1>f, <3>1 DEF Held, DataAreHeld
    <2>3. RunsHaveGraphs'
          BY <1>a DEF Held, RunsHaveGraphs
    <2> QED BY <2>1, <2>2, <2>3 DEF Held
  <1>5. ASSUME ~shared PROVE Unshared'
    <2>0. Unshared
          BY <1>5
    <2>1. OneHolder'
          BY <1>a, <2>0 DEF Unshared, OneHolder, Holds
    <2>3. req[q].graph = g /\ req[q].pc \in {"log", "wait"}
          BY <1>i
    <2>4. \A r \in Request : r # q /\ req[r].pc \in {"got", "log", "wait", "reset"} => req[r].graph # g
          BY <2>0, <2>3 DEF Unshared, OneHolder, Holds
    <2>5. target[g] = q /\ \A y \in Data \ {"prerank_info"} : data[g][y] \in {None, q}
          BY <2>0, <2>3 DEF Unshared, OwnData
    <2>6. x # "prerank_info" => val = q
          BY <1>c, <1>e, <2>5
    <2>7. \A r \in Request : response'[r] = IF r = q /\ x = "rs_response" THEN q ELSE response[r]
          BY <1>b, <2>5, <2>6 DEF TypeOK
    <2>9. FreshGraph'
      <3>1. SUFFICES ASSUME NEW r \in Request, req[r].pc = "got", req[r].graph # Null
                     PROVE  req[r].graph \in alive /\ data'[req[r].graph] = NoData
            BY <1>a, <2>0 DEF Unshared, FreshGraph, engineVars
      <3>2. req[r].graph \in alive /\ data[req[r].graph] = NoData /\ req[r].graph # g /\ alive \subseteq Graph
            BY <2>0, <2>3, <2>4, <3>1 DEF Unshared, FreshGraph, TypeOK
      <3> QED BY <1>b, <3>2 DEF TypeOK
    <2>10. OwnData'
      <3>1. SUFFICES ASSUME NEW r \in Request, req[r].pc \in {"log", "wait", "reset"}
                     PROVE  OwnData!(r)'
            BY <1>a DEF OwnData
      <3>2. "rs_response" \in Data /\ "rs_response" # "prerank_info"
            BY DEF Data
      <3>3. CASE r = q
            BY <1>a, <1>f, <2>0, <2>3, <2>5, <2>6, <2>7, <3>2, <3>3 DEF Unshared, OwnData
      <3>4. CASE r # q
        <4>1. req[r].graph # g /\ req[r].graph \in Graph
              BY <2>0, <2>4, <3>1, <3>4 DEF Unshared, OwnData
        <4>2. data'[req[r].graph] = data[req[r].graph] /\ vert'[req[r].graph] = vert[req[r].graph]
              BY <1>b, <4>1 DEF TypeOK
        <4> QED BY <1>a, <2>0, <2>7, <3>1, <3>4, <4>1, <4>2 DEF Unshared, OwnData, Active
      <3> QED BY <3>3, <3>4
    <2>11. OwnResponse'
           BY <2>0, <2>7 DEF Unshared, OwnResponse
    <2> QED BY <2>1, <2>9, <2>10, <2>11 DEF Unshared
  <1> QED BY <1>1, <1>2, <1>3, <1>4, <1>5, <1>a

\* closure.wait() returns.
LEMMA WaitInv == \A r \in Request : GraphInv /\ Wait(r) => GraphInv'
  <1> SUFFICES ASSUME NEW r \in Request, GraphInv, Wait(r) PROVE GraphInv'
      OBVIOUS
  <1> USE DEF GraphInv
  <1>a. /\ proc = "up" /\ proc' = proc /\ req[r].pc = "wait" /\ ~Active(req[r].graph)
        /\ failed[req[r].graph] \/ data[req[r].graph]["rs_response"] # None
        /\ UNCHANGED <<engineVars, graphVars, response, shared>>
        /\ req' = [req EXCEPT ![r].pc = "reset"]
        BY DEF Wait
  <1>b. \A q \in Request : /\ req'[q].pc = IF q = r THEN "reset" ELSE req[q].pc
                           /\ req'[q].graph = req[q].graph
        BY <1>a DEF TypeOK
  <1>1. TypeOK'
    <2>1. req' \in [Request -> [pc : {"new", "popped", "got", "log", "wait", "reset", "answered"},
                               graph : Graph \cup {Null}]]
          BY <1>a DEF TypeOK
    <2> QED BY <1>a, <2>1 DEF TypeOK, engineVars, graphVars
  <1>2. Accounted'
    <2>1. Pooled' = Pooled /\ Popped' = Popped
          BY <1>a, <1>b DEF Pooled, Popped, engineVars
    <2> QED BY <1>a, <1>b, <2>1 DEF Accounted, PoolIsSound, engineVars
  <1>3. DataReady'
        BY <1>a DEF DataReady, graphVars
  <1>h. Held'
    <2>1. \A h \in Graph : Active(h)' <=> Active(h)
          BY <1>a DEF Active, graphVars
    <2>2. WorkIsWaitedFor'
          BY <1>a, <1>b, <2>1 DEF Held, WorkIsWaitedFor
    <2>3. DataAreHeld'
      <3>1. \A q \in Request : req[q].pc \in {"log", "wait", "reset"} =>
                                req'[q].pc \in {"log", "wait", "reset"}
            BY <1>b
      <3>2. data' = data
            BY <1>a DEF graphVars
      <3> QED BY <1>b, <3>1, <3>2 DEF Held, DataAreHeld
    <2>4. RunsHaveGraphs'
          BY <1>a, <1>b DEF Held, RunsHaveGraphs
    <2> QED BY <2>2, <2>3, <2>4 DEF Held
  <1>4. ASSUME ~shared PROVE Unshared'
    <2>0. Unshared
          BY <1>4
    <2>1. OneHolder' /\ OwnResponse'
          BY <1>a, <1>b, <2>0 DEF Unshared, OneHolder, Holds, OwnResponse
    <2>2. \A h \in Graph : Active(h)' <=> Active(h)
          BY <1>a DEF Active, graphVars
    <2>4. FreshGraph'
          BY <1>a, <1>b, <2>0 DEF Unshared, FreshGraph, graphVars, engineVars
    <2>5. OwnData'
          BY <1>a, <1>b, <2>0, <2>2 DEF Unshared, OwnData, graphVars
    <2> QED BY <2>1, <2>4, <2>5 DEF Unshared
  <1> QED BY <1>a, <1>1, <1>2, <1>3, <1>4, <1>h

\* SayHello resets the graph and answers.
LEMMA AnswerInv == \A r \in Request : GraphInv /\ Answer(r) => GraphInv'
  <1> SUFFICES ASSUME NEW r \in Request, GraphInv, Answer(r) PROVE GraphInv'
      OBVIOUS
  <1> DEFINE g == req[r].graph
  <1> USE DEF GraphInv
  <1>a. /\ proc = "up" /\ req[r].pc = "reset" /\ proc' \in {"undefined", "up"}
        /\ req' = [req EXCEPT ![r] = [pc |-> "answered", graph |-> Null]]
        /\ UNCHANGED <<engineVars, response, shared>>
        BY DEF Answer, Reset
  <1>b. /\ data' = [data EXCEPT ![g] = NoData]
        /\ vert' = [vert EXCEPT ![g] = AllIdle]
        /\ emitted' = [emitted EXCEPT ![g] = [v \in Vertex |-> 0]]
        /\ failed' = [failed EXCEPT ![g] = FALSE]
        /\ target' = [target EXCEPT ![g] = Null]
        BY DEF Answer, Reset
  <1>d. \A q \in Request : /\ req'[q].pc = IF q = r THEN "answered" ELSE req[q].pc
                           /\ req'[q].graph = IF q = r THEN Null ELSE req[q].graph
        BY <1>a DEF TypeOK
  <1>1. TypeOK'
    <2>1. data' \in [Graph -> [Data -> Value]]
          BY <1>b DEF TypeOK, NoData, Value
    <2>2. vert' \in [Graph -> [Vertex -> {"idle", "waiting", "starting", "running", "done"}]]
          BY <1>b DEF TypeOK, AllIdle
    <2>3. emitted' \in [Graph -> [Vertex -> 0..2]]
      <3>1. emitted \in [Graph -> [Vertex -> 0..2]] /\ [v \in Vertex |-> 0] \in [Vertex -> 0..2]
            BY DEF TypeOK
      <3> HIDE DEF GraphInv
      <3> QED BY <1>b, <3>1
    <2>4. failed' \in [Graph -> BOOLEAN] /\ target' \in [Graph -> Request \cup {Null}]
          BY <1>b DEF TypeOK
    <2>5. req' \in [Request -> [pc : {"new", "popped", "got", "log", "wait", "reset", "answered"},
                               graph : Graph \cup {Null}]]
          BY <1>a DEF TypeOK
    <2> QED BY <1>a, <2>1, <2>2, <2>3, <2>4, <2>5 DEF TypeOK, engineVars
  <1>2. Accounted'
    <2>1. Pooled' = Pooled /\ Popped' = Popped
          BY <1>a, <1>d DEF Pooled, Popped, engineVars
    <2> QED BY <1>a, <1>d, <2>1 DEF Accounted, PoolIsSound, engineVars
  <1>3. DataReady'
        BY <1>b DEF DataReady, AllIdle, TypeOK
  <1>4. Held'
    <2>0. g \in Graph
          BY <1>a DEF Held, RunsHaveGraphs
    <2>1. /\ \A v \in Vertex : vert'[g][v] \notin {"starting", "running"}
          /\ data'[g]["request"] = None
          BY <1>b, <2>0 DEF AllIdle, NoData, Data, TypeOK
    <2>2. \A h \in Graph : h # g => vert'[h] = vert[h] /\ data'[h] = data[h]
          BY <1>b DEF TypeOK
    <2>3. \A q \in Request : req[q].graph # g =>
                              req'[q].pc = req[q].pc /\ req'[q].graph = req[q].graph
          BY <1>d
    <2>4. WorkIsWaitedFor'
      <3>1. \A h \in Graph : Active(h)' => h # g /\ Active(h)
            BY <2>1, <2>2 DEF Active
      <3> QED BY <2>3, <3>1 DEF Held, WorkIsWaitedFor
    <2>5. DataAreHeld'
          BY <2>1, <2>2, <2>3 DEF Held, DataAreHeld
    <2>6. RunsHaveGraphs'
          BY <1>d DEF Held, RunsHaveGraphs
    <2> QED BY <2>4, <2>5, <2>6 DEF Held
  <1>5. ASSUME ~shared PROVE Unshared'
    <2>0. Unshared /\ g \in Graph
          BY <1>5, <1>a DEF Unshared, OwnData
    <2>1. \A q \in Request : q # r /\ req[q].pc \in {"got", "log", "wait", "reset"} => req[q].graph # g
          BY <1>a, <2>0 DEF Unshared, OneHolder, Holds
    <2>2. OneHolder' /\ OwnResponse'
          BY <1>a, <1>d, <2>0, GraphAssumption DEF Unshared, OneHolder, Holds, OwnResponse
    <2>4. FreshGraph'
      <3>1. SUFFICES ASSUME NEW q \in Request, q # r, req[q].pc = "got", req[q].graph # Null
                     PROVE  req[q].graph \in alive /\ data'[req[q].graph] = NoData
            BY <1>a, <1>d, <2>0 DEF Unshared, FreshGraph, engineVars
      <3>2. req[q].graph \in alive /\ data[req[q].graph] = NoData /\ alive \subseteq Graph
            BY <2>0, <3>1 DEF Unshared, FreshGraph, TypeOK
      <3> QED BY <1>b, <2>1, <3>1, <3>2 DEF TypeOK
    <2>5. OwnData'
      <3>1. SUFFICES ASSUME NEW q \in Request, req'[q].pc \in {"log", "wait", "reset"}
                     PROVE  OwnData!(q)'
            BY DEF OwnData
      <3>2. /\ req[q].pc = req'[q].pc /\ req'[q].graph = req[q].graph
            /\ req[q].graph # g /\ req[q].graph \in Graph
            BY <1>d, <2>0, <2>1, <3>1 DEF Unshared, OwnData
      <3>3. /\ vert'[req[q].graph] = vert[req[q].graph] /\ data'[req[q].graph] = data[req[q].graph]
            /\ target'[req[q].graph] = target[req[q].graph]
            /\ failed'[req[q].graph] = failed[req[q].graph]
            BY <1>b, <3>2 DEF TypeOK
      <3> QED BY SMTT(20), <1>a, <2>0, <3>1, <3>2, <3>3 DEF Unshared, OwnData, Active
    <2> QED BY <2>2, <2>4, <2>5 DEF Unshared
  <1> QED BY <1>a, <1>1, <1>2, <1>3, <1>4, <1>5
--------------------------------------------------------------------------------
\* Every step of the service keeps GraphInv.
LEMMA NextInv == GraphInv /\ [Next]_vars => GraphInv'
  <1> SUFFICES ASSUME GraphInv, [Next]_vars PROVE GraphInv'
      OBVIOUS
  <1>1. CASE InitPool \/ FirstTryGet \/ StartServer
        BY <1>1, StartInv
  <1>2. CASE \E r \in Request : SayHello(r)
        BY <1>2, PopInv, ReturnInv, RunInv, LogInv, WaitInv, AnswerInv DEF SayHello
  <1>3. CASE \E g \in Graph, v \in Vertex : VertexStep(g, v)
        BY <1>3, VertexInv, EmitInv DEF VertexStep
  <1>4. CASE UNCHANGED vars
    <2> USE <1>4 DEF vars, engineVars, graphVars
    <2>1. TypeOK' = TypeOK
          BY DEF TypeOK
    <2>2. Accounted' = Accounted
          BY DEF Accounted, PoolIsSound, Pooled, Popped
    <2>3. DataReady' = DataReady /\ Held' = Held
          BY DEF DataReady, Held, WorkIsWaitedFor, DataAreHeld, RunsHaveGraphs, Active
    <2>4. Unshared' = Unshared
          BY DEF Unshared, OneHolder, Holds, FreshGraph, Active, OwnData, OwnResponse
    <2> QED BY <2>1, <2>2, <2>3, <2>4 DEF GraphInv
  <1> QED BY <1>1, <1>2, <1>3, <1>4 DEF Next

LEMMA GraphInvHolds == Spec => []GraphInv
  BY InitInv, NextInv, PTL DEF Spec

\* try_get() and the pool account for every graph, for any number of requests,
\* graphs and any sizes of the pool (graph_engine.cpp).
THEOREM PoolAccounts == Spec => [](TypeOK /\ PoolIsSound)
  <1>1. GraphInv => TypeOK /\ PoolIsSound
        BY DEF GraphInv, Accounted
  <1> QED BY <1>1, GraphInvHolds, PTL

Cause == TwoHolders \/ NoGraph \/ ReadWhileWritten
Defined == proc = "up" /\ proc' = "undefined" => Cause

\* The steps that may be undefined find one of the causes: to reset a graph at work,
\* or to run one that has a request, takes another request that holds it.
LEMMA StepDefined == GraphInv /\ Next => Defined
  <1> SUFFICES ASSUME GraphInv, Next, proc = "up", proc' = "undefined" PROVE Cause
      BY DEF Defined
  <1> USE DEF GraphInv, Held
  <1>0. PICK r \in Request : TryGetReturn(r) \/ Run(r) \/ LogResponse(r) \/ Answer(r)
        BY DEF Next, SayHello, VertexStep, InitPool, FirstTryGet, StartServer, TryGetPop, Wait,
               StartVertex, Emit, EndVertex
  <1> DEFINE g == req[r].graph
  <1>1. ASSUME NEW q \in Request, q # r, req[q].graph = g, g \in Graph,
               req[q].pc # "answered", req[r].pc # "answered"
        PROVE  Cause
        BY <1>1 DEF Cause, TwoHolders
  <1>2. CASE TryGetReturn(r)
    <2>1. req[r].pc = "popped" /\ g \in Graph /\ g \in alive
          BY <1>2 DEF TryGetReturn, Accounted, PoolIsSound, Popped
    <2>2. Active(g)
          BY <1>2, <2>1 DEF TryGetReturn, Reset
    <2>3. PICK q \in Request : req[q].graph = g /\ req[q].pc \in {"log", "wait"}
          BY <2>1, <2>2 DEF WorkIsWaitedFor
    <2> QED BY <1>1, <2>1, <2>3
  <1>3. CASE Run(r)
    <2>1. req[r].pc = "got" /\ (g \notin alive \/ data[g]["request"] # None)
          BY <1>3 DEF Run
    <2>2. CASE g \notin alive
          BY <2>1, <2>2 DEF Cause, NoGraph
    <2>3. CASE g \in alive
      <3>1. g \in Graph
            BY <2>3 DEF TypeOK
      <3>2. PICK q \in Request : req[q].graph = g /\ req[q].pc \in {"log", "wait", "reset"}
            BY <2>1, <2>3, <3>1 DEF DataAreHeld
      <3> QED BY <1>1, <2>1, <3>1, <3>2
    <2> QED BY <2>2, <2>3
  <1>4. CASE LogResponse(r)
        BY <1>4 DEF LogResponse, Cause, NoGraph, ReadWhileWritten
  <1>5. CASE Answer(r)
    <2>1. req[r].pc = "reset" /\ g \in Graph
          BY <1>5 DEF Answer, RunsHaveGraphs
    <2>2. g \notin alive \/ Active(g)
          BY <1>5 DEF Answer, Reset
    <2>3. CASE g \notin alive
          BY <2>1, <2>3 DEF Cause, NoGraph
    <2>4. CASE Active(g)
      <3>1. PICK q \in Request : req[q].graph = g /\ req[q].pc \in {"log", "wait"}
            BY <2>1, <2>4 DEF WorkIsWaitedFor
      <3> QED BY <1>1, <2>1, <3>1
    <2> QED BY <2>2, <2>3, <2>4
  <1> QED BY <1>0, <1>2, <1>3, <1>4, <1>5

\* SayHello and try_get() run into undefined behaviour only from the three known
\* causes (graph_engine.cpp:47, ranker_service.cpp:72 and 92), whoever shared a graph
\* before and whatever runs failed.
THEOREM KnownFaults == Spec => UndefinedOnlyByKnownFaults
  <1>1. GraphInv /\ [Next]_vars => [Defined]_vars
        BY StepDefined DEF Defined, Cause
  <1>2. Spec => [][Defined]_vars
        BY <1>1, GraphInvHolds, PTL DEF Spec
  <1> QED BY <1>2, PTL DEF UndefinedOnlyByKnownFaults, Defined, Cause

\* A request that does not share its graph gets its own answer (OutputProcessor).
THEOREM OwnAnswers == Spec => []AnswersAreOwn
  <1>1. GraphInv => AnswersAreOwn
        BY DEF GraphInv, AnswersAreOwn, Unshared, OwnResponse, OwnData
  <1> QED BY <1>1, GraphInvHolds, PTL
================================================================================
