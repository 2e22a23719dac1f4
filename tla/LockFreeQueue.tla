----------------------------- MODULE LockFreeQueue -----------------------------
(***************************************************************************)
(* class LockFreeQueue of example/performance_units/lock_free_queue.cpp:   *)
(* a singly linked list with a sentinel, `tail' advanced by compare-and-   *)
(* swap and allowed to lag, nodes never freed (line 67 is commented out).  *)
(* Producers loop over input() and consumers over output(), as the threads *)
(* of main() do.  Every shared load and every __sync CAS is a step of its  *)
(* own.  The plain loads of head, tail and next are aligned pointers,      *)
(* re-read after a full barrier in every loop, and next never changes once *)
(* it is set, so the build's outcomes are those of atomic loads.           *)
(***************************************************************************)
EXTENDS Naturals, Sequences

CONSTANTS Producer, Consumer,
          Node,         \* addresses operator new can return
          Sentinel,     \* the node the constructor allocates
          Null,         \* nullptr
          MaxInput      \* bound: input() calls per producer

ASSUME SentinelAssumption == Sentinel \in Node
ASSUME NullAssumption == Null \notin Node
ASSUME ThreadAssumption == Producer \cap Consumer = {}
ASSUME BoundAssumption == MaxInput \in Nat

VARIABLES head, tail,   \* LockFreeQueue::head, tail
          next,         \* ListNode::next of every allocated node
          log_info,     \* ListNode::log_info, <<producer, i>>
          used,         \* the allocated nodes
          pc,           \* where each thread is
          cur,          \* local of input(): cur; of output(): first
          mine,         \* local of input(): node; of output(): next
          count,        \* main()'s loop variable i of each producer
          linked,       \* history: the nodes in the order they were linked
          taken,        \* history: how many of them head has passed
          result        \* history: the value last returned by output()

vars == <<head, tail, next, log_info, used, pc, cur, mine, count,
          linked, taken, result>>

Thread == Producer \cup Consumer
NodeOrNull == Node \cup {Null}
Item == Producer \X (1..MaxInput)
NoItem == << >>

\* Mutant: the constructor of lines 28-29, a sentinel for each end.
InitTwoSentinels ==
    /\ head = Sentinel
    /\ tail \in Node \ {Sentinel}
    /\ next = [n \in Node |-> Null]
    /\ log_info = [n \in Node |-> NoItem]
    /\ used = {Sentinel, tail}
    /\ pc = [t \in Thread |-> "idle"]
    /\ cur = [t \in Thread |-> Null]
    /\ mine = [t \in Thread |-> Null]
    /\ count = [p \in Producer |-> 0]
    /\ linked = <<Sentinel>>
    /\ taken = 1
    /\ result = NoItem

Init == /\ head = Sentinel
        /\ tail = Sentinel
        /\ next = [n \in Node |-> Null]
        /\ log_info = [n \in Node |-> NoItem]
        /\ used = {Sentinel}
        /\ pc = [t \in Thread |-> "idle"]
        /\ cur = [t \in Thread |-> Null]
        /\ mine = [t \in Thread |-> Null]
        /\ count = [p \in Producer |-> 0]
        /\ linked = <<Sentinel>>
        /\ taken = 1
        /\ result = NoItem

--------------------------------------------------------------------------------
(* input(data), lines 33-51 *)

\* The producer loop of main() makes the next string and input() puts it
\* into a new node.
InputNew(p) ==
    /\ pc[p] = "idle"
    /\ count[p] < MaxInput
    /\ \E n \in Node \ used :
         /\ used' = used \cup {n}
         /\ log_info' = [log_info EXCEPT ![n] = <<p, count[p] + 1>>]
         /\ mine' = [mine EXCEPT ![p] = n]
    /\ count' = [count EXCEPT ![p] = @ + 1]
    /\ pc' = [pc EXCEPT ![p] = "read_tail"]
    /\ UNCHANGED <<head, tail, next, cur, linked, taken, result>>

\* Line 37.
InputReadTail(p) ==
    /\ pc[p] = "read_tail"
    /\ cur' = [cur EXCEPT ![p] = tail]
    /\ pc' = [pc EXCEPT ![p] = "test_next"]
    /\ UNCHANGED <<head, tail, next, log_info, used, mine, count,
                   linked, taken, result>>

\* Line 39.
InputTestNext(p) ==
    /\ pc[p] = "test_next"
    /\ pc' = [pc EXCEPT ![p] = IF next[cur[p]] = Null THEN "link" ELSE "help"]
    /\ UNCHANGED <<head, tail, next, log_info, used, cur, mine, count,
                   linked, taken, result>>

\* Mutant: a plain store instead of the CAS of line 40.
InputLinkStore(p) ==
    /\ pc[p] = "link"
    /\ next' = [next EXCEPT ![cur[p]] = mine[p]]
    /\ linked' = Append(linked, mine[p])
    /\ pc' = [pc EXCEPT ![p] = "swing"]
    /\ UNCHANGED <<head, tail, log_info, used, cur, mine, count, taken, result>>

\* Mutant: after a failed CAS tail is not read again.
InputLinkRetry(p) ==
    /\ pc[p] = "link"
    /\ IF next[cur[p]] = Null
         THEN /\ next' = [next EXCEPT ![cur[p]] = mine[p]]
              /\ linked' = Append(linked, mine[p])
              /\ pc' = [pc EXCEPT ![p] = "swing"]
         ELSE UNCHANGED <<next, linked, pc>>
    /\ UNCHANGED <<head, tail, log_info, used, cur, mine, count, taken, result>>

\* Line 40: the CAS on cur->next; on success the loop is left.
InputLink(p) ==
    /\ pc[p] = "link"
    /\ IF next[cur[p]] = Null
         THEN /\ next' = [next EXCEPT ![cur[p]] = mine[p]]
              /\ linked' = Append(linked, mine[p])
              /\ pc' = [pc EXCEPT ![p] = "swing"]
         ELSE /\ pc' = [pc EXCEPT ![p] = "read_tail"]
              /\ UNCHANGED <<next, linked>>
    /\ UNCHANGED <<head, tail, log_info, used, cur, mine, count,
                   taken, result>>

\* Mutant: line 45 advances whatever tail is now.
InputHelpBlind(p) ==
    /\ pc[p] = "help"
    /\ tail' = next[tail]
    /\ pc' = [pc EXCEPT ![p] = "read_tail"]
    /\ UNCHANGED <<head, next, log_info, used, cur, mine, count,
                   linked, taken, result>>

\* Mutant: a plain store instead of the CAS of line 45.
InputHelpStore(p) ==
    /\ pc[p] = "help"
    /\ tail' = next[cur[p]]
    /\ pc' = [pc EXCEPT ![p] = "read_tail"]
    /\ UNCHANGED <<head, next, log_info, used, cur, mine, count,
                   linked, taken, result>>

\* Line 45: tail lags behind, the producer helps to advance it.
InputHelp(p) ==
    /\ pc[p] = "help"
    /\ tail' = IF tail = cur[p] THEN next[cur[p]] ELSE tail
    /\ pc' = [pc EXCEPT ![p] = "read_tail"]
    /\ UNCHANGED <<head, next, log_info, used, cur, mine, count,
                   linked, taken, result>>

\* Mutant: a plain store instead of the CAS of line 49.
InputSwingStore(p) ==
    /\ pc[p] = "swing"
    /\ tail' = mine[p]
    /\ pc' = [pc EXCEPT ![p] = "idle"]
    /\ cur' = [cur EXCEPT ![p] = Null]
    /\ mine' = [mine EXCEPT ![p] = Null]
    /\ UNCHANGED <<head, next, log_info, used, count, linked, taken, result>>

\* Lines 49-50.
InputSwing(p) ==
    /\ pc[p] = "swing"
    /\ tail' = IF tail = cur[p] THEN mine[p] ELSE tail
    /\ pc' = [pc EXCEPT ![p] = "idle"]
    /\ cur' = [cur EXCEPT ![p] = Null]
    /\ mine' = [mine EXCEPT ![p] = Null]
    /\ UNCHANGED <<head, next, log_info, used, count, linked, taken, result>>

--------------------------------------------------------------------------------
(* output(), lines 52-74 *)

\* Lines 53-56: the call and the load of head.
OutputReadHead(c) ==
    /\ pc[c] \in {"idle", "read_head"}
    /\ cur' = [cur EXCEPT ![c] = head]
    /\ pc' = [pc EXCEPT ![c] = "read_next"]
    /\ UNCHANGED <<head, tail, next, log_info, used, mine, count,
                   linked, taken, result>>

\* Lines 57-62: no successor means "empty".
OutputReadNext(c) ==
    /\ pc[c] = "read_next"
    /\ \/ /\ next[cur[c]] = Null
          /\ result' = NoItem
          /\ pc' = [pc EXCEPT ![c] = "idle"]
          /\ cur' = [cur EXCEPT ![c] = Null]
          /\ UNCHANGED mine
       \/ /\ next[cur[c]] # Null
          /\ mine' = [mine EXCEPT ![c] = next[cur[c]]]
          /\ pc' = [pc EXCEPT ![c] = "advance"]
          /\ UNCHANGED <<cur, result>>
    /\ UNCHANGED <<head, tail, next, log_info, used, count, linked, taken>>

\* Mutant: the result of the CAS of line 65 is ignored.
OutputAdvanceAlways(c) ==
    /\ pc[c] = "advance"
    /\ head' = IF head = cur[c] THEN mine[c] ELSE head
    /\ taken' = IF head = cur[c] THEN taken + 1 ELSE taken
    /\ result' = <<log_info[mine[c]]>>
    /\ pc' = [pc EXCEPT ![c] = "idle"]
    /\ cur' = [cur EXCEPT ![c] = Null]
    /\ mine' = [mine EXCEPT ![c] = Null]
    /\ UNCHANGED <<tail, next, log_info, used, count, linked>>

\* Lines 65-68: the CAS on head; the winner returns next->log_info, which no
\* one writes after the node was linked; the loser starts again.
OutputAdvance(c) ==
    /\ pc[c] = "advance"
    /\ IF head = cur[c]
         THEN /\ head' = mine[c]
              /\ taken' = taken + 1
              /\ result' = <<log_info[mine[c]]>>
              /\ pc' = [pc EXCEPT ![c] = "idle"]
         ELSE /\ pc' = [pc EXCEPT ![c] = "read_head"]
              /\ UNCHANGED <<head, taken, result>>
    /\ cur' = [cur EXCEPT ![c] = Null]
    /\ mine' = [mine EXCEPT ![c] = Null]
    /\ UNCHANGED <<tail, next, log_info, used, count, linked>>

--------------------------------------------------------------------------------
InputStep(p) == \/ InputNew(p) \/ InputReadTail(p) \/ InputTestNext(p)
                \/ InputLink(p) \/ InputHelp(p) \/ InputSwing(p)

OutputStep(c) == OutputReadHead(c) \/ OutputReadNext(c) \/ OutputAdvance(c)

Next == (\E p \in Producer : InputStep(p)) \/ (\E c \in Consumer : OutputStep(c))

Spec == Init /\ [][Next]_vars

\* Every thread of main() loops for ever and the operating system schedules
\* each of them again and again.
FairSpec == /\ Spec
            /\ \A p \in Producer : WF_vars(InputStep(p))
            /\ \A c \in Consumer : WF_vars(OutputStep(c))

--------------------------------------------------------------------------------
(* Properties *)

Last == Len(linked)

TypeOK ==
    /\ head \in Node
    /\ tail \in Node
    /\ next \in [Node -> NodeOrNull]
    /\ log_info \in [Node -> Item \cup {NoItem}]
    /\ used \in SUBSET Node
    /\ pc \in [Thread -> {"idle", "read_tail", "test_next", "link", "help", "swing",
                         "read_head", "read_next", "advance"}]
    /\ cur \in [Thread -> NodeOrNull]
    /\ mine \in [Thread -> NodeOrNull]
    /\ count \in [Producer -> 0..MaxInput]
    /\ linked \in Seq(Node)
    /\ taken \in Nat
    /\ result \in {NoItem} \cup {<<x>> : x \in Item}

\* The next pointers form one list through every linked node, each once, and
\* a node that is not linked yet points nowhere: no CAS of input() (line 40)
\* can lose a node or link one twice.
OneList ==
    /\ Last >= 1
    /\ \A i, j \in 1..Last : linked[i] = linked[j] => i = j
    /\ \A i \in 1..(Last - 1) : next[linked[i]] = linked[i + 1]
    /\ next[linked[Last]] = Null
    /\ \A n \in Node : (\A i \in 1..Last : linked[i] # n) => next[n] = Null
    /\ \A i \in 1..Last : linked[i] \in used

\* tail is the last node or the one before it, whatever the producers are
\* doing between line 40 and line 49; head is the node output() reached, and
\* it may be one ahead of tail.
TailLagsAtMostOne ==
    /\ taken \in 1..Last
    /\ head = linked[taken]
    /\ \/ tail = linked[Last]
       \/ Last > 1 /\ tail = linked[Last - 1]

\* tail never moves back: the CASes of lines 45 and 49 compare with the node
\* whose successor they install, and no node is ever reused.
TailNeverMovesBack ==
    [][\A i \in 1..Len(linked) : tail = linked[i] =>
            \E j \in i..Len(linked') : tail' = linked'[j]]_vars

\* What the locals of the threads know between two steps; with TypeOK, OneList
\* and TailLagsAtMostOne this is inductive.
ProducerLocals ==
    \A p \in Producer :
        /\ pc[p] \in {"idle", "read_tail", "test_next", "link", "help", "swing"}
        /\ pc[p] = "idle" => mine[p] = Null
        /\ pc[p] \in {"read_tail", "test_next", "link", "help"} =>
             /\ mine[p] \in used
             /\ log_info[mine[p]] \in Item
             /\ \A i \in 1..Last : linked[i] # mine[p]
             /\ \A q \in Producer \ {p} : mine[q] # mine[p]
        /\ pc[p] \in {"test_next", "link"} =>
             \E i \in 1..Last :
                 /\ cur[p] = linked[i]
                 /\ i = Last => tail = linked[Last]
        /\ pc[p] = "help" => \E i \in 1..(Last - 1) : cur[p] = linked[i]
        /\ pc[p] = "swing" => \E i \in 1..(Last - 1) :
                                 cur[p] = linked[i] /\ mine[p] = linked[i + 1]

ConsumerLocals ==
    \A c \in Consumer :
        /\ pc[c] \in {"idle", "read_head", "read_next", "advance"}
        /\ pc[c] = "read_next" => \E i \in 1..taken : cur[c] = linked[i]
        /\ pc[c] = "advance" => \E i \in 1..(Last - 1) :
                i <= taken /\ cur[c] = linked[i] /\ mine[c] = linked[i + 1]

QueueInv == /\ TypeOK /\ OneList /\ TailLagsAtMostOne
            /\ ProducerLocals /\ ConsumerLocals
            /\ \A i \in 2..Last : log_info[linked[i]] \in Item

\* The queue is a FIFO: an input() takes effect at its successful CAS on next,
\* an output() at its CAS on head, and output() returns "" only when nothing
\* is queued, although it looks at next some time after it read head.
Waiting == [i \in 1..(Last - taken) |-> log_info[linked[taken + i]]]
Abstract == INSTANCE FifoQueue WITH waiting <- Waiting
ImplementsFifo == Abstract!AbsSpec

\* Lock freedom in a run of finitely many calls: every input() returns.
InputReturns == \A p \in Producer : (pc[p] = "read_tail") ~> (pc[p] = "idle")

\* Every line handed to input() is eventually returned by an output().
EveryLineDelivered ==
    \A p \in Producer, k \in 1..MaxInput :
        (count[p] >= k) ~> (\E i \in 2..taken : log_info[linked[i]] = <<p, k>>)
================================================================================
