-------------------------------- MODULE AnyFlow --------------------------------
(***************************************************************************)
(* The programs of example/babylon that build a dataflow graph and run it: *)
(* graph_start.cpp, graph_condition.cpp, dependency/depend_condition.cpp,  *)
(* dependency/depend_same.cpp and expressor/expressor_depend.cpp.          *)
(*                                                                         *)
(* The library (babylon anyflow) is not in the repository; it is modelled  *)
(* by what the programs, their tests and their comments use of it.  Their  *)
(* vertices run in any order and side by side, on bthreads in              *)
(* graph_start, in the thread of run() in the others.                      *)
(*                                                                         *)
(* The string "10086" is a sequence of one string, so that + is \o.        *)
(***************************************************************************)
EXTENDS Integers, Sequences, FiniteSets

None == [st |-> "none"]                  \* not emitted
Empty == [st |-> "empty"]                \* emitted without a value
Val(x) == [st |-> "value", v |-> x]
Ten86 == Val(<<"10086">>)
--------------------------------------------------------------------------------
(* The processors: what process() emits, in this order, given the data it     *)
(* depends on; Empty stands for a null pointer.                               *)

PlusProcess(d) == <<<<"C", Val(d["A"].v + d["B"].v)>>>>
MultiProcess(d) == <<<<"F", Val(d["C"].v * d["E"].v)>>>>
AllProcess(d) == <<<<"G", Val(d["A"].v + d["E"].v + d["F"].v)>>>>

\* Mutant: the flag is the other way round.
StartProcessTrue(d) == <<<<"B", d["A"]>>, <<"C", d["A"]>>, <<"C2", Val(TRUE)>>>>
StartProcess(d) == <<<<"B", d["A"]>>, <<"C", d["A"]>>, <<"C2", Val(FALSE)>>>>
MiddelProcess(d) == <<<<"E", d["B"]>>, <<"F", d["C"]>>>>
EndProcess(d) == <<<<"G", Val(d["E"].v \o d["H"].v)>>>>
\* The EndProcessor of depend_same.cpp; f may be missing.
EndOptionalProcess(d) ==
    IF d["F"] # Empty /\ d["F"].v # << >> THEN <<<<"G", Val(d["E"].v \o d["F"].v)>>>>
                                          ELSE <<<<"G", d["E"]>>>>
ForwardProcess(x, d) == <<<<x, d["A"]>>>>

\* "C2 ? E: F" and "!(A > 3) || B + 1 == C * 3", with A in halves.
ChooseProcess(d) == <<<<"H", IF d["C2"].v THEN d["E"] ELSE d["F"]>>>>
CalculateProcess(d) ==
    <<<<"D", Val(~(d["A"].v > 6) \/ d["B"].v + 1 = d["C"].v * 3)>>>>
--------------------------------------------------------------------------------
(* The graphs: each vertex with its dependencies and what it emits.           *)

Always == "always"
On(x, c) == [to |-> x, on |-> c, level |-> 0]
To(x) == On(x, Always)
Optional(x, c) == [to |-> x, on |-> c, level |-> 1]
Vertex(depends, emits) == [depends |-> depends, emits |-> emits]

StartGraph ==
    [Plus |-> Vertex({To("A"), To("B")}, {"C"}),
     Multi |-> Vertex({To("C"), To("E")}, {"F"}),
     All |-> Vertex({To("A"), To("E"), To("F")}, {"G"})]
ConditionGraph ==
    [Start |-> Vertex({On("A", "C1")}, {"B", "C", "C2"}),
     Middel |-> Vertex({To("B"), To("C")}, {"E", "F"}),
     End |-> Vertex({To("E"), To("H")}, {"G"}),
     Choose |-> Vertex({To("C2"), To("E"), To("F")}, {"H"})]
DependGraph ==
    [Const1 |-> Vertex({On("A", "C1")}, {"X"}),
     Const2 |-> Vertex({On("A", "C2")}, {"Y"}),
     Mutable |-> Vertex({On("A", "C3")}, {"Z"})]
SameGraph ==
    [Start |-> Vertex({On("A", "C1")}, {"B", "C", "C2"}),
     Middel |-> Vertex({To("B"), To("C")}, {"E", "F"}),
     EndOptional |-> Vertex({To("E"), Optional("F", "C2")}, {"G"})]
ExpressionGraph ==
    [Calculate |-> Vertex({To("A"), To("B"), To("C")}, {"D"})]

Process(v, d) ==
    CASE v = "Plus" -> PlusProcess(d)
      [] v = "Multi" -> MultiProcess(d)
      [] v = "All" -> AllProcess(d)
      [] v = "Start" -> StartProcess(d)
      [] v = "Middel" -> MiddelProcess(d)
      [] v = "End" -> EndProcess(d)
      [] v = "EndOptional" -> EndOptionalProcess(d)
      [] v = "Const1" -> ForwardProcess("X", d)
      [] v = "Const2" -> ForwardProcess("Y", d)
      [] v = "Mutable" -> ForwardProcess("Z", d)
      [] v = "Choose" -> ChooseProcess(d)
      [] v = "Calculate" -> CalculateProcess(d)

Data == {"A", "B", "C", "C1", "C2", "C3", "D", "E", "F", "G", "H", "X", "Y", "Z"}
--------------------------------------------------------------------------------
(* The programs: a graph, and for every run of it what is emitted before, the *)
(* data run() is asked for, what main() or the test expects to find in them,  *)
(* and those that the test asserts to be empty before it looks at the value.  *)

Asserted(inputs, expected, empty) ==
    [inputs |-> inputs, expected |-> expected, empty |-> empty]
Round(inputs, expected) == Asserted(inputs, expected, {})

StartMain == <<Round([A |-> Val(100), B |-> Val(200), E |-> Val(2)], [G |-> Val(702)])>>
ConditionMain ==
    <<Round([A |-> Ten86, C1 |-> Val(TRUE)], [G |-> Val(<<"10086", "10086">>)])>>
Established == <<Round([A |-> Ten86, C1 |-> Val(TRUE)], [X |-> Ten86])>>
NotEstablished == <<Round([A |-> Ten86, C1 |-> Val(FALSE)], [X |-> Empty])>>
SingleMutable ==
    <<Round([A |-> Ten86, C2 |-> Val(FALSE), C3 |-> Val(TRUE)], [Y |-> Empty, Z |-> Ten86])>>
\* Line 127 asserts that G is empty, line 128 that it is "10086".
AllTrue == <<Asserted([A |-> Ten86, C1 |-> Val(TRUE)], [G |-> Ten86], {"G"})>>
Calculation ==
    <<Round([A |-> Val(7), B |-> Val(5), C |-> Val(3)], [D |-> Val(FALSE)]),
      Round([A |-> Val(5), B |-> Val(5), C |-> Val(3)], [D |-> Val(TRUE)]),
      Round([A |-> Val(7), B |-> Val(5), C |-> Val(2)], [D |-> Val(TRUE)])>>

Program ==
    [graph_start |-> [graph |-> StartGraph, rounds |-> StartMain],
     graph_condition |-> [graph |-> ConditionGraph, rounds |-> ConditionMain],
     established |-> [graph |-> DependGraph, rounds |-> Established],
     not_established |-> [graph |-> DependGraph, rounds |-> NotEstablished],
     single_mutable |-> [graph |-> DependGraph, rounds |-> SingleMutable],
     all_true |-> [graph |-> SameGraph, rounds |-> AllTrue],
     calculation |-> [graph |-> ExpressionGraph, rounds |-> Calculation]]

VARIABLES
    program,  \* which of them is run
    round,
    main,     \* where main() or the test is
    data,
    vert,     \* per vertex: "idle", "waiting" for data, "starting", "running", "done"
    emitted,  \* how many data a vertex has emitted
    failed,   \* the closure has an error code
    callback, \* of on_finish(): "none", "registered", "running", "set", "read", "done"
    result,   \* what main(), the test or the callback has found in the end
    fatal,    \* an assertion of the test has failed, which ends the test
    hurried   \* history: main() was left before the callback had read the result, or
              \* the graph was reset at work
vars == <<program, round, main, data, vert, emitted, failed, callback, result, fatal, hurried>>

Graph == Program[program].graph
Current == Program[program].rounds[round]
Asked == DOMAIN Current.expected
NoData == [x \in Data |-> None]

Init == /\ program \in DOMAIN Program /\ round = 1 /\ main = "emit"
        /\ data = NoData
        /\ vert = [v \in DOMAIN Graph |-> "idle"]
        /\ emitted = [v \in DOMAIN Graph |-> 0]
        /\ failed = FALSE /\ callback = "none" /\ result = << >> /\ fatal = FALSE
        /\ hurried = FALSE

Up == main \notin {"exited", "undefined"}
Active == \E v \in DOMAIN Graph : vert[v] \in {"starting", "running"}
Finished == failed \/ \A x \in Asked : data[x] # None
--------------------------------------------------------------------------------
(* The library *)

\* A dependency is decided, and holds, or does not.
Holds(p) == p.on # Always => data[p.on] = Val(TRUE)
Decided(p) == /\ p.on # Always => data[p.on] # None
              /\ Holds(p) => data[p.to] # None
Given(p) == Holds(p) /\ data[p.to] # Empty

\* What run() is asked for, and what the vertices at work on it wait for.
Demanded ==
    Asked \cup UNION {{p.on : p \in Graph[v].depends} \cup
                      {p.to : p \in {q \in Graph[v].depends : Holds(q)}}
                        : v \in {u \in DOMAIN Graph : vert[u] = "waiting"}}

Activate(v) ==
    /\ Up /\ main \notin {"emit", "run"} /\ vert[v] = "idle"
    /\ \E x \in Graph[v].emits \cap Demanded : data[x] = None
    /\ vert' = [vert EXCEPT ![v] = "waiting"]
    /\ UNCHANGED <<program, round, main, data, emitted, failed, callback, result, fatal, hurried>>

\* All dependencies are decided.  A vertex without what it needs is not run, and
\* its data are empty.
Decide(v) ==
    /\ Up /\ vert[v] = "waiting" /\ \A p \in Graph[v].depends : Decided(p)
    /\ LET missing == \E p \in Graph[v].depends : p.level = 0 /\ ~Given(p) IN
         /\ vert' = [vert EXCEPT ![v] = IF missing THEN "done" ELSE "starting"]
         /\ data' = [x \in Data |-> IF missing /\ x \in Graph[v].emits THEN Empty ELSE data[x]]
    /\ UNCHANGED <<program, round, main, emitted, failed, callback, result, fatal, hurried>>

\* Mutant: the closure is not given back when the bthread cannot be started.
StartVertexSilent(v) ==
    /\ Up /\ vert[v] = "starting"
    /\ vert' \in {[vert EXCEPT ![v] = st] :
                   st \in {"running"} \cup (IF program = "graph_start" THEN {"done"} ELSE {})}
    /\ UNCHANGED <<program, round, main, data, emitted, failed, callback, result, fatal, hurried>>

\* The executor runs a vertex; BthreadGraphExecutor may fail to.
StartVertex(v) ==
    /\ Up /\ vert[v] = "starting"
    /\ \/ vert' = [vert EXCEPT ![v] = "running"] /\ UNCHANGED failed
       \/ /\ program = "graph_start"
          /\ vert' = [vert EXCEPT ![v] = "done"] /\ failed' = TRUE
    /\ UNCHANGED <<program, round, main, data, emitted, callback, result, fatal, hurried>>

\* What process() sees: null for a dependency that does not hold.
Seen(v) == [x \in Data |->
              IF \E p \in Graph[v].depends : p.to = x /\ ~Holds(p) THEN Empty ELSE data[x]]

Emit(v) ==
    /\ Up /\ vert[v] = "running"
    /\ LET out == Process(v, Seen(v)) IN
         /\ emitted[v] < Len(out)
         /\ data' = [data EXCEPT ![out[emitted[v] + 1][1]] = out[emitted[v] + 1][2]]
    /\ emitted' = [emitted EXCEPT ![v] = @ + 1]
    /\ UNCHANGED <<program, round, main, vert, failed, callback, result, fatal, hurried>>

EndVertex(v) ==
    /\ Up /\ vert[v] = "running" /\ emitted[v] = Len(Process(v, Seen(v)))
    /\ vert' = [vert EXCEPT ![v] = "done"]
    /\ UNCHANGED <<program, round, main, data, emitted, failed, callback, result, fatal, hurried>>
--------------------------------------------------------------------------------
(* main() and the tests *)

Undefined == main' = "undefined" /\ UNCHANGED <<program, round, data, vert, emitted, failed, callback, result, fatal>>

\* A datum can be emitted once until reset() takes it back.
EmitInputs ==
    /\ main = "emit"
    /\ IF \E x \in DOMAIN Current.inputs : data[x] # None
       THEN Undefined /\ UNCHANGED hurried
       ELSE /\ main' = "run"
            /\ data' = [x \in Data |-> IF x \in DOMAIN Current.inputs THEN Current.inputs[x]
                                                                      ELSE data[x]]
            /\ UNCHANGED <<program, round, vert, emitted, failed, callback, result, fatal, hurried>>

Run ==
    /\ main = "run"
    /\ main' = IF program = "graph_start" THEN "on_finish" ELSE "get"
    /\ UNCHANGED <<program, round, data, vert, emitted, failed, callback, result, fatal, hurried>>

\* closure.get() returns as soon as the data are there; vertices may still be at
\* work.  A test whose ASSERT_TRUE fails returns.  A datum without a value is not
\* dereferenced unless a value is expected.
Get ==
    /\ main = "get" /\ Finished
    /\ \/ /\ \E x \in Current.empty : data[x] # Empty
          /\ main' = "wait" /\ fatal' = TRUE
          /\ UNCHANGED <<program, round, data, vert, emitted, failed, callback, result, hurried>>
       \/ /\ \A x \in Current.empty : data[x] = Empty
          /\ IF \E x \in Asked : Current.expected[x] # Empty /\ data[x].st # "value"
             THEN Undefined /\ UNCHANGED hurried
             ELSE /\ main' = "wait" /\ result' = [x \in Asked |-> data[x]]
                  /\ UNCHANGED <<program, round, data, vert, emitted, failed, callback, fatal,
                                 hurried>>

\* The destructor of the closure waits for the vertices.  It is followed by the
\* end of the program, or by reset() and the next round.
Leave ==
    /\ main = "wait" /\ ~Active /\ round = Len(Program[program].rounds)
    /\ main' = "exited"
    /\ UNCHANGED <<program, round, data, vert, emitted, failed, callback, result, fatal, hurried>>

Reset == /\ data' = NoData
         /\ vert' = [v \in DOMAIN Graph |-> "idle"] /\ emitted' = [v \in DOMAIN Graph |-> 0]
         /\ failed' = FALSE

NextRound ==
    /\ main = "wait" /\ ~Active /\ round < Len(Program[program].rounds)
    /\ Reset
    /\ main' = "emit" /\ round' = round + 1 /\ result' = << >>
    /\ UNCHANGED <<program, callback, fatal, hurried>>
--------------------------------------------------------------------------------
(* The callback of graph_start.cpp.  It owns the graph and the closure, but   *)
(* its promise and g1 are main()'s, which goes on as soon as the promise is   *)
(* set and does not wait for the callback.                                    *)

OnFinish ==
    /\ main = "on_finish" /\ main' = "future" /\ callback' = "registered"
    /\ UNCHANGED <<program, round, data, vert, emitted, failed, result, fatal, hurried>>

FutureGet ==
    /\ main = "future" /\ callback \in {"set", "read", "done"}
    /\ main' = "left"
    /\ UNCHANGED <<program, round, data, vert, emitted, failed, callback, result, fatal, hurried>>

Exit ==
    /\ main = "left" /\ main' = "exited"
    /\ UNCHANGED <<program, round, data, vert, emitted, failed, callback, result, fatal, hurried>>

\* On a bthread, or in the thread that finishes when none can be started.
RunClosure ==
    /\ Up /\ callback = "registered" /\ Finished /\ callback' = "running"
    /\ UNCHANGED <<program, round, main, data, vert, emitted, failed, result, fatal, hurried>>

SetValue ==
    /\ Up /\ callback = "running" /\ callback' = "set"
    /\ UNCHANGED <<program, round, main, data, vert, emitted, failed, result, fatal, hurried>>

ReadLast ==
    /\ Up /\ callback = "set"
    /\ hurried' = (main = "left")
    /\ IF main = "left" \/ data["G"].st # "value"
       THEN Undefined
       ELSE /\ callback' = "read" /\ result' = [x \in Asked |-> data[x]]
            /\ UNCHANGED <<program, round, main, data, vert, emitted, failed, fatal>>

\* graph->reset(): undefined while vertices are at work.
ResetGraph ==
    /\ Up /\ callback = "read" /\ callback' = "done"
    /\ Reset
    /\ hurried' = Active
    /\ main' = IF Active THEN "undefined" ELSE main
    /\ UNCHANGED <<program, round, result, fatal>>

Vertices == \E v \in DOMAIN Graph :
               Activate(v) \/ Decide(v) \/ StartVertex(v) \/ Emit(v) \/ EndVertex(v)
Main == EmitInputs \/ Run \/ Get \/ Leave \/ NextRound \/ OnFinish \/ FutureGet \/ Exit
Callback == RunClosure \/ SetValue \/ ReadLast \/ ResetGraph
Next == Main \/ Vertices \/ Callback

\* No step can be repeated for ever, so it is enough that the machine goes on.
Spec == Init /\ [][Next]_vars /\ WF_vars(Next)
--------------------------------------------------------------------------------
(* Properties *)

\* Whatever the order of the vertices, main(), the tests and the callback find
\* what they print or assert, in every round, and nothing is undefined on the
\* way: a vertex sees only data that are there, inputs are emitted to a clean
\* graph, a condition that is false leaves its dependency out and not the
\* program.  There are two exceptions.  The first assertion about G of
\* depend_same.cpp, g->empty() of line 127, always fails, because G has the value
\* that line 128 wants; it is the only one of the tests that ever does.  And
\* graph_start reads what is not there when a vertex could not be started or
\* main() is gone before the callback reads g1, or resets the graph while
\* AllProcessor has not returned.
ResultsAsExpected ==
    /\ main = "undefined" => program = "graph_start" /\ (failed \/ hurried)
    /\ result # << >> => result = Current.expected
    /\ fatal => program = "all_true" /\ data["G"] = Current.expected["G"]
    /\ main = "exited" /\ program # "graph_start" =>
         /\ fatal <=> program = "all_true"
         /\ fatal <=> result = << >>

\* "Only after closure.wait() has returned is the graph's run over, and may it be
\* destroyed or reset" (graph_start.cpp:136): nothing resets a graph on which
\* vertices are at work.
ResetOnlyWhenFinished == [][Active => \E v \in DOMAIN vert : vert'[v] # "idle"]_vars

\* Every program comes to an end: run() starts every vertex that is needed, a
\* vertex that is left out settles its data for those that wait for them, and
\* closure.get(), the promise and the destructor of the closure return.
ProgramsEnd == <>(main \in {"exited", "undefined"})
================================================================================
