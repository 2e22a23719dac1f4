-------------------------- MODULE LockFreeQueueProofs --------------------------
(***************************************************************************)
(* QueueInv is an inductive invariant of LockFreeQueue, for any numbers of *)
(* producers, consumers, nodes and lines; and LockFreeQueue implements     *)
(* FifoQueue.                                                              *)
(***************************************************************************)
EXTENDS LockFreeQueue, SequenceTheorems, TLAPS

USE DEF Last

\* The constructor establishes the invariant.
LEMMA InitInv == Init => QueueInv
  <1> SUFFICES ASSUME Init PROVE QueueInv
      OBVIOUS
  <1>1. TypeOK
        BY SentinelAssumption, NullAssumption, BoundAssumption
        DEF Init, TypeOK, NodeOrNull, NoItem
  <1>2. OneList
        BY SentinelAssumption DEF Init, OneList
  <1>3. TailLagsAtMostOne
        BY DEF Init, TailLagsAtMostOne
  <1>4. ProducerLocals /\ ConsumerLocals
        BY DEF Init, ProducerLocals, ConsumerLocals, Thread
  <1>5. \A i \in 2..Last : log_info[linked[i]] \in Item
        BY DEF Init
  <1> QED
      BY <1>1, <1>2, <1>3, <1>4, <1>5 DEF QueueInv

\* input() allocates a node nobody else has.
LEMMA NewInv == \A p \in Producer : QueueInv /\ InputNew(p) => QueueInv'
  <1> SUFFICES ASSUME NEW p \in Producer, QueueInv, InputNew(p)
               PROVE  QueueInv'
      OBVIOUS
  <1> USE DEF QueueInv, InputNew
  <1>0. PICK n \in Node \ used :
         /\ used' = used \cup {n}
         /\ log_info' = [log_info EXCEPT ![n] = <<p, count[p] + 1>>]
         /\ mine' = [mine EXCEPT ![p] = n]
        OBVIOUS
  <1>a. <<p, count[p] + 1>> \in Item /\ count[p] + 1 \in 0..MaxInput
        BY BoundAssumption DEF TypeOK, Item
  <1>b. \A i \in 1..Last : linked[i] # n
        BY <1>0 DEF OneList, TypeOK
  <1>c. \A q \in Producer : mine[q] # n
        BY <1>b, NullAssumption DEF ProducerLocals, OneList, TypeOK
  <1>1. TypeOK'
        BY <1>0, <1>a DEF TypeOK, Thread, NodeOrNull
  <1>2. OneList'
        BY <1>0 DEF OneList, TypeOK
  <1>3. TailLagsAtMostOne'
        BY DEF TailLagsAtMostOne
  <1>4. ProducerLocals'
    <2>1. SUFFICES ASSUME NEW q \in Producer
                   PROVE  ProducerLocals!(q)'
          BY DEF ProducerLocals
    <2>2. CASE q = p
          BY <1>0, <1>a, <1>b, <1>c, <2>2 DEF ProducerLocals, TypeOK, Thread
    <2>3. CASE q # p
          BY <1>0, <1>b, <1>c, <2>3 DEF ProducerLocals, TypeOK, Thread
    <2> QED
        BY <2>2, <2>3
  <1>5. ConsumerLocals'
        BY <1>0, ThreadAssumption DEF ConsumerLocals, TypeOK, Thread
  <1>6. (\A i \in 2..Last : log_info[linked[i]] \in Item)'
        BY <1>0, <1>b DEF TypeOK
  <1> QED
      BY <1>1, <1>2, <1>3, <1>4, <1>5, <1>6

\* Reading tail gives a node of the list (line 37).
LEMMA ReadTailInv == \A p \in Producer : QueueInv /\ InputReadTail(p) => QueueInv'
  <1> SUFFICES ASSUME NEW p \in Producer, QueueInv, InputReadTail(p)
               PROVE  QueueInv'
      OBVIOUS
  <1> USE DEF QueueInv, InputReadTail
  <1>1. TypeOK'
        BY DEF TypeOK, NodeOrNull, Thread
  <1>2. OneList' /\ TailLagsAtMostOne'
        BY DEF OneList, TailLagsAtMostOne
  <1>3. ProducerLocals'
    <2>1. SUFFICES ASSUME NEW q \in Producer
                   PROVE  ProducerLocals!(q)'
          BY DEF ProducerLocals
    <2>2. \E i \in 1..Last : tail = linked[i] /\ (i = Last => tail = linked[Last])
          BY DEF TailLagsAtMostOne, TypeOK
    <2>3. CASE q = p
          BY <2>2, <2>3 DEF ProducerLocals, TypeOK, Thread
    <2>4. CASE q # p
          BY <2>4 DEF ProducerLocals, TypeOK, Thread
    <2> QED
        BY <2>3, <2>4
  <1>4. ConsumerLocals'
        BY ThreadAssumption DEF ConsumerLocals, TypeOK, Thread
  <1> QED
      BY <1>1, <1>2, <1>3, <1>4

\* A successor seen at line 39 stays: the helper works on an inner node.
LEMMA TestNextInv == \A p \in Producer : QueueInv /\ InputTestNext(p) => QueueInv'
  <1> SUFFICES ASSUME NEW p \in Producer, QueueInv, InputTestNext(p)
               PROVE  QueueInv'
      OBVIOUS
  <1> USE DEF QueueInv, InputTestNext
  <1>1. TypeOK'
        BY DEF TypeOK, Thread
  <1>2. OneList' /\ TailLagsAtMostOne'
        BY DEF OneList, TailLagsAtMostOne
  <1>3. ProducerLocals'
    <2>1. SUFFICES ASSUME NEW q \in Producer
                   PROVE  ProducerLocals!(q)'
          BY DEF ProducerLocals
    <2>2. next[cur[p]] # Null => \E i \in 1..(Last - 1) : cur[p] = linked[i]
          BY DEF ProducerLocals, OneList, TypeOK
    <2>3. CASE q = p
          BY <2>2, <2>3 DEF ProducerLocals, TypeOK, Thread
    <2>4. CASE q # p
          BY <2>4 DEF ProducerLocals, TypeOK, Thread
    <2> QED
        BY <2>3, <2>4
  <1>4. ConsumerLocals'
        BY ThreadAssumption DEF ConsumerLocals, TypeOK, Thread
  <1> QED
      BY <1>1, <1>2, <1>3, <1>4

\* Helping moves tail to the last node (line 45).
LEMMA HelpInv == \A p \in Producer : QueueInv /\ InputHelp(p) => QueueInv'
  <1> SUFFICES ASSUME NEW p \in Producer, QueueInv, InputHelp(p)
               PROVE  QueueInv'
      OBVIOUS
  <1> USE DEF QueueInv, InputHelp
  <1>1. PICK i \in 1..(Last - 1) : cur[p] = linked[i]
        BY DEF ProducerLocals
  <1>2. tail = cur[p] => i = Last - 1
        BY <1>1 DEF TailLagsAtMostOne, OneList, TypeOK
  <1>3. next[cur[p]] = linked[i + 1] /\ linked[i + 1] \in Node
        BY <1>1 DEF OneList, TypeOK
  <1>4. tail' = tail \/ tail' = linked[Last]
        BY <1>2, <1>3 DEF TypeOK
  <1>5. TypeOK'
        BY <1>3 DEF TypeOK, Thread
  <1>6. OneList' /\ TailLagsAtMostOne'
        BY <1>4 DEF OneList, TailLagsAtMostOne
  <1>7. ProducerLocals'
    <2>1. SUFFICES ASSUME NEW q \in Producer
                   PROVE  ProducerLocals!(q)'
          BY DEF ProducerLocals
    <2>2. CASE q = p
          BY <2>2 DEF ProducerLocals, TypeOK, Thread
    <2>3. CASE q # p
          BY <1>4, <2>3 DEF ProducerLocals, TypeOK, Thread
    <2> QED
        BY <2>2, <2>3
  <1>8. ConsumerLocals'
        BY ThreadAssumption DEF ConsumerLocals, TypeOK, Thread
  <1> QED
      BY <1>5, <1>6, <1>7, <1>8

\* The CAS of line 49 moves tail to the last node or fails.
LEMMA SwingInv == \A p \in Producer : QueueInv /\ InputSwing(p) => QueueInv'
  <1> SUFFICES ASSUME NEW p \in Producer, QueueInv, InputSwing(p)
               PROVE  QueueInv'
      OBVIOUS
  <1> USE DEF QueueInv, InputSwing
  <1>1. PICK i \in 1..(Last - 1) : cur[p] = linked[i] /\ mine[p] = linked[i + 1]
        BY DEF ProducerLocals
  <1>2. tail = cur[p] => i = Last - 1
        BY <1>1 DEF TailLagsAtMostOne, OneList, TypeOK
  <1>3. tail' = tail \/ tail' = linked[Last]
        BY <1>1, <1>2 DEF TypeOK
  <1>4. TypeOK'
        BY <1>1 DEF TypeOK, Thread, NodeOrNull
  <1>5. OneList' /\ TailLagsAtMostOne'
        BY <1>3 DEF OneList, TailLagsAtMostOne
  <1>6. ProducerLocals'
    <2>1. SUFFICES ASSUME NEW q \in Producer
                   PROVE  ProducerLocals!(q)'
          BY DEF ProducerLocals
    <2>2. CASE q = p
          BY <2>2 DEF ProducerLocals, TypeOK, Thread
    <2>3. CASE q # p
      <3>1. \A r \in Producer \ {q} : mine'[r] = mine[r] \/ mine'[r] = Null
            BY DEF TypeOK, Thread
      <3>2. pc[q] \in {"read_tail", "test_next", "link", "help"} => mine[q] # Null
            BY NullAssumption DEF ProducerLocals, TypeOK
      <3> QED
          BY <1>3, <2>3, <3>1, <3>2 DEF ProducerLocals, TypeOK, Thread
    <2> QED
        BY <2>2, <2>3
  <1>7. ConsumerLocals'
        BY ThreadAssumption DEF ConsumerLocals, TypeOK, Thread
  <1> QED
      BY <1>4, <1>5, <1>6, <1>7

\* The CAS of line 40 succeeds only on the last node, and then tail is there.
LEMMA LinkInv == \A p \in Producer : QueueInv /\ InputLink(p) => QueueInv'
  <1> SUFFICES ASSUME NEW p \in Producer, QueueInv, InputLink(p)
               PROVE  QueueInv'
      OBVIOUS
  <1> USE DEF QueueInv, InputLink
  <1>1. PICK i \in 1..Last : /\ cur[p] = linked[i]
                             /\ i = Last => tail = linked[Last]
        BY DEF ProducerLocals
  <1>2. CASE next[cur[p]] # Null
    <2>1. TypeOK'
          BY <1>2 DEF TypeOK, Thread
    <2>2. OneList' /\ TailLagsAtMostOne'
          BY <1>2 DEF OneList, TailLagsAtMostOne
    <2>3. ProducerLocals'
          BY <1>2 DEF ProducerLocals, TypeOK, Thread
    <2>4. ConsumerLocals'
          BY <1>2, ThreadAssumption DEF ConsumerLocals, TypeOK, Thread
    <2> QED
        BY <1>2, <2>1, <2>2, <2>3, <2>4
  <1>3. CASE next[cur[p]] = Null
    <2>1. i = Last /\ tail = linked[Last]
      <3>1. i \in 1..(Last - 1) => next[linked[i]] = linked[i + 1]
            BY DEF OneList
      <3>2. i \in 1..(Last - 1) => linked[i + 1] \in Node
            BY DEF TypeOK
      <3>3. i = Last
            BY <1>1, <1>3, <3>1, <3>2, NullAssumption DEF TypeOK
      <3> QED
          BY <1>1, <3>3
    <2>2. mine[p] \in Node /\ mine[p] \in used /\ log_info[mine[p]] \in Item
          BY DEF ProducerLocals, TypeOK
    <2>3. \A j \in 1..Last : linked[j] # mine[p]
          BY DEF ProducerLocals
    <2>4. /\ Len(linked') = Last + 1
          /\ linked'[Last + 1] = mine[p]
          /\ \A j \in 1..Last : linked'[j] = linked[j]
          /\ linked' \in Seq(Node)
      <3>1. linked' = Append(linked, mine[p]) /\ linked \in Seq(Node)
            BY <1>3 DEF TypeOK
      <3> QED
          BY <2>2, <3>1
    <2>5. Last \in Nat /\ Last >= 1
          BY DEF TypeOK, OneList
    <2>6. TypeOK'
          BY <1>3, <2>2, <2>4 DEF TypeOK, Thread, NodeOrNull
    <2>7. OneList'
      <3>1. next' = [next EXCEPT ![linked[Last]] = mine[p]] /\ linked[Last] \in Node
            BY <1>1, <1>3, <2>1, <2>5 DEF TypeOK
      <3>2. \A j, k \in 1..Len(linked') : linked'[j] = linked'[k] => j = k
            BY <2>3, <2>4, <2>5 DEF OneList
      <3>3. \A j \in 1..(Len(linked') - 1) : next'[linked'[j]] = linked'[j + 1]
        <4>1. TAKE j \in 1..(Len(linked') - 1)
        <4>2. CASE j = Last
              BY <2>4, <2>5, <3>1, <4>2 DEF TypeOK
        <4>3. CASE j < Last
          <5>1. j \in 1..(Last - 1) /\ j + 1 \in 1..Last /\ linked[j] # linked[Last]
                BY <2>4, <2>5, <4>3 DEF OneList
          <5>2. linked[j] \in Node
                BY <5>1 DEF TypeOK
          <5> QED
              BY <2>4, <3>1, <5>1, <5>2 DEF OneList, TypeOK
        <4> QED
            BY <2>4, <2>5, <4>2, <4>3
      <3>4. next'[linked'[Last + 1]] = Null
        <4>1. mine[p] # linked[Last] /\ next[mine[p]] = Null
              BY <2>2, <2>3, <2>5 DEF OneList
        <4> QED
            BY <2>2, <2>4, <3>1, <4>1 DEF TypeOK
      <3>5. \A n \in Node : (\A j \in 1..Len(linked') : linked'[j] # n) => next'[n] = Null
            BY <2>4, <2>5, <3>1 DEF OneList, TypeOK
      <3>6. \A j \in 1..Len(linked') : linked'[j] \in used'
            BY <1>3, <2>2, <2>4, <2>5 DEF OneList
      <3> QED
          BY <2>4, <2>5, <3>2, <3>3, <3>4, <3>5, <3>6 DEF OneList
    <2>8. TailLagsAtMostOne'
          BY <1>3, <2>1, <2>4, <2>5 DEF TailLagsAtMostOne, TypeOK
    <2>9. ProducerLocals'
      <3>1. SUFFICES ASSUME NEW q \in Producer
                     PROVE  ProducerLocals!(q)'
            BY DEF ProducerLocals
      <3>2. CASE q = p
            BY <1>1, <1>3, <2>1, <2>4, <2>5, <3>2 DEF ProducerLocals, TypeOK, Thread
      <3>3. CASE q # p
        <4>0. /\ pc'[q] = pc[q] /\ cur' = cur /\ mine' = mine
              /\ used' = used /\ log_info' = log_info /\ tail' = tail
              BY <1>3, <3>3 DEF TypeOK, Thread
        <4>1. pc[q] \in {"read_tail", "test_next", "link", "help"} =>
                 \A j \in 1..(Last + 1) : linked'[j] # mine[q]
              BY <2>4, <2>5, <3>3 DEF ProducerLocals
        <4>2. pc[q] \in {"test_next", "link"} =>
                 \E j \in 1..Last : cur[q] = linked'[j]
              BY <2>4, <2>5 DEF ProducerLocals
        <4>3. pc[q] = "help" => \E j \in 1..Last : cur[q] = linked'[j]
              BY <2>4, <2>5 DEF ProducerLocals
        <4>4. pc[q] = "swing" => \E j \in 1..Last :
                 cur[q] = linked'[j] /\ mine[q] = linked'[j + 1]
          <5>1. SUFFICES ASSUME pc[q] = "swing"
                PROVE \E j \in 1..Last :
                        cur[q] = linked'[j] /\ mine[q] = linked'[j + 1]
                OBVIOUS
          <5>2. PICK j \in 1..(Last - 1) :
                  cur[q] = linked[j] /\ mine[q] = linked[j + 1]
                BY <5>1 DEF ProducerLocals
          <5>3. j \in 1..Last /\ j + 1 \in 1..Last
                BY <2>5
          <5> QED
              BY <2>4, <5>2, <5>3
        <4> QED
            BY <2>4, <2>5, <4>0, <4>1, <4>2, <4>3, <4>4 DEF ProducerLocals
      <3> QED
          BY <3>2, <3>3
    <2>10. ConsumerLocals'
      <3>1. SUFFICES ASSUME NEW c \in Consumer
                     PROVE  ConsumerLocals!(c)'
            BY DEF ConsumerLocals
      <3>2. /\ pc'[c] = pc[c] /\ cur' = cur /\ mine' = mine /\ taken' = taken
            BY <1>3, ThreadAssumption DEF TypeOK, Thread
      <3>3. taken \in 1..Last
            BY DEF TailLagsAtMostOne
      <3>4. pc[c] = "read_next" => \E j \in 1..taken : cur[c] = linked'[j]
            BY <2>4, <2>5, <3>3 DEF ConsumerLocals
      <3>5. ASSUME pc[c] = "advance"
            PROVE  \E j \in 1..Last : /\ j <= taken
                                      /\ cur[c] = linked'[j]
                                      /\ mine[c] = linked'[j + 1]
        <4>1. PICK j \in 1..(Last - 1) :
                j <= taken /\ cur[c] = linked[j] /\ mine[c] = linked[j + 1]
              BY <3>5 DEF ConsumerLocals
        <4>2. j \in 1..Last /\ j + 1 \in 1..Last
              BY <2>5
        <4> QED
            BY <2>4, <4>1, <4>2
      <3> QED
          BY <2>4, <2>5, <3>2, <3>4, <3>5 DEF ConsumerLocals
    <2>11. \A j \in 2..Len(linked') : log_info'[linked'[j]] \in Item
           BY <1>3, <2>2, <2>4, <2>5
    <2> QED
        BY <2>6, <2>7, <2>8, <2>9, <2>10, <2>11
  <1> QED
      BY <1>2, <1>3

\* Reading head gives the node at the position of head (line 56).
LEMMA ReadHeadInv == \A c \in Consumer : QueueInv /\ OutputReadHead(c) => QueueInv'
  <1> SUFFICES ASSUME NEW c \in Consumer, QueueInv, OutputReadHead(c)
               PROVE  QueueInv'
      OBVIOUS
  <1> USE DEF QueueInv, OutputReadHead
  <1>1. TypeOK'
        BY DEF TypeOK, NodeOrNull, Thread
  <1>2. OneList' /\ TailLagsAtMostOne'
        BY DEF OneList, TailLagsAtMostOne
  <1>3. ProducerLocals'
        BY ThreadAssumption DEF ProducerLocals, TypeOK, Thread
  <1>4. ConsumerLocals'
        BY DEF ConsumerLocals, TypeOK, Thread, TailLagsAtMostOne
  <1> QED
      BY <1>1, <1>2, <1>3, <1>4

\* The successor read at line 57 is the next node of the list.
LEMMA ReadNextInv == \A c \in Consumer : QueueInv /\ OutputReadNext(c) => QueueInv'
  <1> SUFFICES ASSUME NEW c \in Consumer, QueueInv, OutputReadNext(c)
               PROVE  QueueInv'
      OBVIOUS
  <1> USE DEF QueueInv, OutputReadNext
  <1>1. PICK i \in 1..taken : cur[c] = linked[i]
        BY DEF ConsumerLocals
  <1>2. i \in 1..Last /\ cur[c] \in Node
        BY <1>1 DEF TailLagsAtMostOne, TypeOK
  <1>3. next[cur[c]] # Null => i \in 1..(Last - 1) /\ next[cur[c]] = linked[i + 1]
        BY <1>1, <1>2 DEF OneList, TypeOK
  <1>4. TypeOK'
        BY <1>2 DEF TypeOK, NodeOrNull, Thread
  <1>5. OneList' /\ TailLagsAtMostOne'
        BY DEF OneList, TailLagsAtMostOne
  <1>6. ProducerLocals'
    <2>1. \A q \in Producer : mine'[q] = mine[q] /\ cur'[q] = cur[q] /\ pc'[q] = pc[q]
          BY ThreadAssumption DEF TypeOK, Thread
    <2> QED
        BY <2>1 DEF ProducerLocals
  <1>7. ConsumerLocals'
    <2>1. SUFFICES ASSUME NEW d \in Consumer
                   PROVE  ConsumerLocals!(d)'
          BY DEF ConsumerLocals
    <2>2. CASE d # c
      <3>1. mine'[d] = mine[d] /\ cur'[d] = cur[d] /\ pc'[d] = pc[d]
            BY <2>2 DEF TypeOK, Thread
      <3> QED
          BY <3>1 DEF ConsumerLocals
    <2>3. CASE d = c /\ next[cur[c]] = Null
          BY <2>3 DEF TypeOK, Thread
    <2>4. CASE d = c /\ next[cur[c]] # Null
      <3>1. pc'[c] = "advance" /\ cur'[c] = linked[i] /\ mine'[c] = linked[i + 1]
            BY <1>1, <1>3, <2>4 DEF TypeOK, Thread
      <3> QED
          BY <1>3, <2>4, <3>1 DEF TypeOK
    <2> QED
        BY <2>2, <2>3, <2>4
  <1> QED
      BY <1>4, <1>5, <1>6, <1>7

\* The CAS of line 65 moves head by exactly one node.
LEMMA AdvanceInv == \A c \in Consumer : QueueInv /\ OutputAdvance(c) => QueueInv'
  <1> SUFFICES ASSUME NEW c \in Consumer, QueueInv, OutputAdvance(c)
               PROVE  QueueInv'
      OBVIOUS
  <1> USE DEF QueueInv, OutputAdvance
  <1>1. PICK i \in 1..(Last - 1) :
          i <= taken /\ cur[c] = linked[i] /\ mine[c] = linked[i + 1]
        BY DEF ConsumerLocals
  <1>2. head = cur[c] => i = taken
    <2>1. head = linked[taken] /\ taken \in 1..Last /\ i \in 1..Last
          BY <1>1 DEF TailLagsAtMostOne, TypeOK
    <2>2. \A j, k \in 1..Last : linked[j] = linked[k] => j = k
          BY DEF OneList
    <2>3. linked[i] = linked[taken] => i = taken
          BY <2>1, <2>2
    <2> QED
        BY <1>1, <2>1, <2>3
  <1>3. mine[c] \in Node /\ log_info[mine[c]] \in Item
        BY <1>1 DEF TypeOK
  <1>4. TypeOK'
    <2>1. head' \in Node /\ taken' \in Nat
          BY <1>3 DEF TypeOK
    <2>2. result' \in {NoItem} \cup {<<x>> : x \in Item}
          BY <1>3 DEF TypeOK
    <2>3. /\ pc' = [pc EXCEPT ![c] = "idle"] \/ pc' = [pc EXCEPT ![c] = "read_head"]
          /\ cur' = [cur EXCEPT ![c] = Null]
          /\ mine' = [mine EXCEPT ![c] = Null]
          OBVIOUS
    <2> QED
        BY <2>1, <2>2, <2>3 DEF TypeOK, NodeOrNull, Thread
  <1>5. OneList'
        BY DEF OneList
  <1>6. TailLagsAtMostOne' /\ taken' >= taken
        BY <1>1, <1>2 DEF TailLagsAtMostOne, TypeOK
  <1>7. ProducerLocals'
    <2>1. SUFFICES ASSUME NEW p \in Producer
                   PROVE  ProducerLocals!(p)'
          BY DEF ProducerLocals
    <2>2. \A q \in Producer : mine'[q] = mine[q] /\ cur'[q] = cur[q] /\ pc'[q] = pc[q]
          BY ThreadAssumption DEF TypeOK, Thread
    <2> QED
        BY <2>2 DEF ProducerLocals
  <1>8. ConsumerLocals'
    <2>1. SUFFICES ASSUME NEW d \in Consumer
                   PROVE  ConsumerLocals!(d)'
          BY DEF ConsumerLocals
    <2>2. CASE d = c
          BY <2>2 DEF TypeOK, Thread
    <2>3. CASE d # c
      <3>1. mine'[d] = mine[d] /\ cur'[d] = cur[d] /\ pc'[d] = pc[d]
            BY <2>3 DEF TypeOK, Thread
      <3> QED
          BY <1>6, <3>1 DEF ConsumerLocals, TypeOK
    <2> QED
        BY <2>2, <2>3
  <1> QED
      BY <1>4, <1>5, <1>6, <1>7, <1>8

\* Stuttering changes nothing.
LEMMA StutterInv == QueueInv /\ UNCHANGED vars => QueueInv'
  BY DEF QueueInv, vars, TypeOK, OneList, TailLagsAtMostOne, ProducerLocals,
         ConsumerLocals

\* Every step of every thread keeps the invariant.
LEMMA NextInv == QueueInv /\ [Next]_vars => QueueInv'
  <1> SUFFICES ASSUME QueueInv, [Next]_vars PROVE QueueInv'
      OBVIOUS
  <1>1. ASSUME NEW p \in Producer, InputStep(p) PROVE QueueInv'
        BY <1>1, NewInv, ReadTailInv, TestNextInv, LinkInv, HelpInv, SwingInv
        DEF InputStep
  <1>2. ASSUME NEW c \in Consumer, OutputStep(c) PROVE QueueInv'
        BY <1>2, ReadHeadInv, ReadNextInv, AdvanceInv DEF OutputStep
  <1>3. CASE UNCHANGED vars
        BY <1>3, StutterInv
  <1> QED
      BY <1>1, <1>2, <1>3 DEF Next

\* However many producers and consumers race on head, tail and next, the
\* linked nodes form one list without loss or repetition, and tail is the
\* last node or the one before it.
THEOREM QueueSafe == Spec => [](TypeOK /\ OneList /\ TailLagsAtMostOne)
  <1>1. QueueInv => TypeOK /\ OneList /\ TailLagsAtMostOne
        BY DEF QueueInv
  <1> QED
      BY <1>1, InitInv, NextInv, PTL DEF Spec
--------------------------------------------------------------------------------
(* The CASes on tail. *)

\* A step that writes tail moves it from one linked node to the next; every
\* other step leaves tail and the positions of the linked nodes alone.
LEMMA TailStep ==
    ASSUME QueueInv, [Next]_vars, NEW i \in 1..Last, tail = linked[i]
    PROVE  \E j \in i..Len(linked') : tail' = linked'[j]
  <1>0. /\ linked \in Seq(Node) /\ Last \in Nat
        /\ \A k \in 1..Last : linked[k] = linked[i] => k = i
        /\ \A k \in 1..(Last - 1) : next[linked[k]] = linked[k + 1]
        BY DEF QueueInv, TypeOK, OneList
  <1>1. CASE UNCHANGED <<tail, linked>>
        BY <1>0, <1>1
  <1>2. ASSUME NEW p \in Producer, InputLink(p)
        PROVE  \E j \in i..Len(linked') : tail' = linked'[j]
    <2>1. tail' = tail /\ (linked' = linked \/ linked' = Append(linked, mine[p]))
          BY <1>2 DEF InputLink
    <2>2. CASE linked' = linked
          BY <1>1, <2>1, <2>2
    <2>3. CASE linked' = Append(linked, mine[p])
      <3>1. Len(linked') = Len(linked) + 1 /\ linked'[i] = linked[i]
            BY <1>0, <2>3
      <3>2. i \in i..Len(linked')
            BY <1>0, <3>1
      <3> QED
          BY <2>1, <3>1, <3>2
    <2> QED
        BY <2>1, <2>2, <2>3
  <1>3. ASSUME NEW k \in 1..(Last - 1), linked' = linked, tail' = tail \/
                 (tail = linked[k] /\ tail' = linked[k + 1])
        PROVE  \E j \in i..Len(linked') : tail' = linked'[j]
    <2>1. CASE tail' = tail
          BY <1>1, <1>3, <2>1
    <2>2. CASE tail = linked[k] /\ tail' = linked[k + 1]
      <3>1. k = i /\ i + 1 \in i..Len(linked')
            BY <1>0, <1>3, <2>2
      <3> QED
          BY <1>3, <2>2, <3>1
    <2> QED
        BY <1>3, <2>1, <2>2
  <1>4. ASSUME NEW p \in Producer, InputHelp(p)
        PROVE  \E j \in i..Len(linked') : tail' = linked'[j]
    <2>1. PICK k \in 1..(Last - 1) : cur[p] = linked[k]
          BY <1>4 DEF QueueInv, ProducerLocals, InputHelp
    <2>2. linked' = linked /\ (tail' = tail \/ (tail = cur[p] /\ tail' = next[cur[p]]))
          BY <1>4 DEF InputHelp
    <2> QED
        BY <1>0, <1>3, <2>1, <2>2
  <1>5. ASSUME NEW p \in Producer, InputSwing(p)
        PROVE  \E j \in i..Len(linked') : tail' = linked'[j]
    <2>1. PICK k \in 1..(Last - 1) : cur[p] = linked[k] /\ mine[p] = linked[k + 1]
          BY <1>5 DEF QueueInv, ProducerLocals, InputSwing
    <2>2. linked' = linked /\ (tail' = tail \/ (tail = cur[p] /\ tail' = mine[p]))
          BY <1>5 DEF InputSwing
    <2> QED
        BY <1>3, <2>1, <2>2
  <1>6. \/ UNCHANGED <<tail, linked>>
        \/ \E p \in Producer : InputLink(p) \/ InputHelp(p) \/ InputSwing(p)
        BY DEF Next, vars, InputStep, OutputStep, InputNew, InputReadTail, InputTestNext,
           OutputReadHead, OutputReadNext, OutputAdvance
  <1> QED
      BY <1>1, <1>2, <1>4, <1>5, <1>6

\* tail never moves back, however late the CAS of line 45 or of line 49 comes.
THEOREM TailAdvances == Spec => TailNeverMovesBack
  <1>1. QueueInv /\ [Next]_vars =>
          [\A i \in 1..Len(linked) : tail = linked[i] =>
             \E j \in i..Len(linked') : tail' = linked'[j]]_vars
        BY TailStep
  <1> QED
      BY <1>1, InitInv, NextInv, PTL DEF Spec, TailNeverMovesBack
--------------------------------------------------------------------------------
(* The refinement: every step is a step of FifoQueue or leaves it alone. *)

\* Allocating a node does not change what is queued.
LEMMA NewKeepsWaiting == \A p \in Producer :
        QueueInv /\ InputNew(p) => Waiting' = Waiting /\ result' = result
  <1> SUFFICES ASSUME NEW p \in Producer, QueueInv, InputNew(p)
               PROVE  Waiting' = Waiting /\ result' = result
      OBVIOUS
  <1>0. PICK n \in Node \ used :
         log_info' = [log_info EXCEPT ![n] = <<p, count[p] + 1>>]
        BY DEF InputNew
  <1>1. taken \in 1..Last /\ Last \in Nat /\ linked' = linked /\ taken' = taken
        BY DEF QueueInv, TailLagsAtMostOne, TypeOK, InputNew
  <1>2. \A i \in 1..Last : linked[i] \in used /\ linked[i] \in Node
        BY DEF QueueInv, OneList, TypeOK
  <1>3. \A i \in 1..Last : log_info'[linked[i]] = log_info[linked[i]]
        BY <1>0, <1>2 DEF QueueInv, TypeOK
  <1>4. \A i \in 1..(Last - taken) : taken + i \in 1..Last
        BY <1>1
  <1>5. Waiting' = [i \in 1..(Last - taken) |-> log_info'[linked[taken + i]]]
        BY <1>1 DEF Waiting
  <1>6. Waiting' = Waiting
        BY <1>3, <1>4, <1>5 DEF Waiting
  <1> QED
      BY <1>6 DEF InputNew

\* The CAS of line 40 either fails or appends the line to the queue.
LEMMA LinkPuts == \A p \in Producer : QueueInv /\ InputLink(p) =>
        (\E x \in Item : Abstract!Put(x)) \/ (Waiting' = Waiting /\ result' = result)
  <1> SUFFICES ASSUME NEW p \in Producer, QueueInv, InputLink(p)
               PROVE  \/ \E x \in Item : Abstract!Put(x)
                      \/ Waiting' = Waiting /\ result' = result
      OBVIOUS
  <1>1. CASE next[cur[p]] # Null
        BY <1>1 DEF InputLink, Waiting
  <1>2. CASE next[cur[p]] = Null
    <2>0. linked \in Seq(Node) /\ mine[p] \in Node /\ taken \in 1..Last
          BY DEF QueueInv, TypeOK, TailLagsAtMostOne, ProducerLocals, InputLink
    <2>1. /\ linked' = Append(linked, mine[p]) /\ taken' = taken
          /\ log_info' = log_info /\ result' = result
          BY <1>2 DEF InputLink
    <2>2. /\ Len(linked') = Last + 1
          /\ \A j \in 1..Last : linked'[j] = linked[j]
          /\ linked'[Last + 1] = mine[p]
          BY <2>0, <2>1
    <2> DEFINE x == log_info[mine[p]]
               m == Last - taken
    <2>3. x \in Item
          BY DEF QueueInv, ProducerLocals, InputLink
    <2>4. m \in Nat /\ Len(Waiting) = m /\ DOMAIN Waiting = 1..m
          BY <2>0 DEF Waiting
    <2>5. Waiting' = [j \in 1..(m + 1) |-> log_info[linked'[taken + j]]]
          BY <2>0, <2>1, <2>2 DEF Waiting
    <2>6. \A j \in 1..m : Waiting'[j] = Waiting[j]
      <3>1. TAKE j \in 1..m
      <3>2. taken + j \in 1..Last /\ j \in 1..(m + 1)
            BY <2>0, <2>4
      <3>3. Waiting'[j] = log_info[linked'[taken + j]]
            BY <2>5, <3>2
      <3>4. Waiting[j] = log_info[linked[taken + j]]
            BY DEF Waiting
      <3>5. linked'[taken + j] = linked[taken + j]
            BY <2>2, <3>2
      <3> QED
          BY <3>3, <3>4, <3>5
    <2>7. Waiting'[m + 1] = x
      <3>1. taken + (m + 1) = Last + 1 /\ m + 1 \in 1..(m + 1)
            BY <2>0, <2>4
      <3> QED
          BY <2>2, <2>5, <3>1
    <2>8. Waiting \in Seq(Item)
      <3>1. \A j \in 1..m : taken + j \in 2..Last
            BY <2>0, <2>4
      <3>2. \A j \in 1..m : Waiting[j] \in Item
            BY <3>1 DEF Waiting, QueueInv
      <3> QED
          BY <2>4, <3>2 DEF Waiting
    <2>9. Waiting' = Append(Waiting, x)
      <3>1. Append(Waiting, x) \in Seq(Item) /\ Len(Append(Waiting, x)) = m + 1
            BY <2>3, <2>4, <2>8
      <3>2. \A j \in 1..(m + 1) : Append(Waiting, x)[j] = Waiting'[j]
            BY <2>3, <2>4, <2>6, <2>7, <2>8
      <3>3. Waiting' \in Seq(Item) /\ Len(Waiting') = m + 1
        <4>1. \A j \in 1..(m + 1) : Waiting'[j] \in Item
              BY <2>3, <2>4, <2>6, <2>7, <2>8
        <4> QED
            BY <2>4, <2>5, <4>1
      <3> HIDE DEF m, x
      <3> QED
          BY <3>1, <3>2, <3>3, SeqEqual
    <2>10. Abstract!Put(x)
           BY <2>1, <2>9 DEF Abstract!Put
    <2> QED
        BY <2>3, <2>10
  <1> QED
      BY <1>1, <1>2

\* output() finds no successor only when nothing is queued (lines 57-61).
LEMMA ReadNextFindsEmpty == \A c \in Consumer : QueueInv /\ OutputReadNext(c) =>
        Abstract!FindEmpty \/ (Waiting' = Waiting /\ result' = result)
  <1> SUFFICES ASSUME NEW c \in Consumer, QueueInv, OutputReadNext(c)
               PROVE  Abstract!FindEmpty \/ (Waiting' = Waiting /\ result' = result)
      OBVIOUS
  <1>1. Waiting' = Waiting
        BY DEF OutputReadNext, Waiting
  <1>2. CASE next[cur[c]] # Null
        BY <1>1, <1>2 DEF OutputReadNext
  <1>3. CASE next[cur[c]] = Null
    <2>1. PICK i \in 1..taken : cur[c] = linked[i]
          BY DEF QueueInv, ConsumerLocals, OutputReadNext
    <2>2. taken \in 1..Last /\ linked \in Seq(Node)
          BY DEF QueueInv, TailLagsAtMostOne, TypeOK
    <2>3. i \in 1..(Last - 1) => linked[i + 1] \in Node
          BY <2>2
    <2>4. i \in 1..(Last - 1) => next[linked[i]] = linked[i + 1]
          BY DEF QueueInv, OneList
    <2>5. taken = Last
          BY <1>3, <2>1, <2>2, <2>3, <2>4, NullAssumption
    <2>6. Waiting = << >>
          BY <2>2, <2>5 DEF Waiting
    <2>7. result' = NoItem
          BY <1>3 DEF OutputReadNext
    <2> QED
        BY <1>1, <2>6, <2>7 DEF Abstract!FindEmpty, NoItem
  <1> QED
      BY <1>2, <1>3

\* The CAS of line 65 either fails or takes the oldest line.
LEMMA AdvanceTakes == \A c \in Consumer : QueueInv /\ OutputAdvance(c) =>
        Abstract!Take \/ (Waiting' = Waiting /\ result' = result)
  <1> SUFFICES ASSUME NEW c \in Consumer, QueueInv, OutputAdvance(c)
               PROVE  Abstract!Take \/ (Waiting' = Waiting /\ result' = result)
      OBVIOUS
  <1>1. CASE head # cur[c]
        BY <1>1 DEF OutputAdvance, Waiting
  <1>2. CASE head = cur[c]
    <2>1. PICK i \in 1..(Last - 1) : cur[c] = linked[i] /\ mine[c] = linked[i + 1]
          BY DEF QueueInv, ConsumerLocals, OutputAdvance
    <2>2. head = linked[taken] /\ taken \in 1..Last /\ linked \in Seq(Node)
          BY DEF QueueInv, TailLagsAtMostOne, TypeOK
    <2>3. \A j, k \in 1..Last : linked[j] = linked[k] => j = k
          BY DEF QueueInv, OneList
    <2>4. i = taken
          BY <1>2, <2>1, <2>2, <2>3
    <2>5. /\ taken' = taken + 1 /\ linked' = linked /\ log_info' = log_info
          /\ result' = <<log_info[linked[taken + 1]]>>
          BY <1>2, <2>1, <2>4 DEF OutputAdvance
    <2> DEFINE m == Last - taken
    <2>6. m \in Nat \ {0}
          BY <2>1, <2>2, <2>4
    <2>7. Waiting = [j \in 1..m |-> log_info[linked[taken + j]]]
          BY DEF Waiting
    <2>8. Waiting' = [j \in 1..(m - 1) |-> log_info[linked[(taken + 1) + j]]]
      <3>1. Last - (taken + 1) = m - 1
            BY <2>2
      <3> QED
          BY <2>5, <3>1 DEF Waiting
    <2>9. \A j \in 1..m : taken + j \in 2..Last
          BY <2>2
    <2>10. \A j \in 2..Last : log_info[linked[j]] \in Item
           BY DEF QueueInv
    <2>11. Waiting \in Seq(Item) /\ Len(Waiting) = m
           BY <2>6, <2>7, <2>9, <2>10
    <2>12. Waiting # << >> /\ Head(Waiting) = log_info[linked[taken + 1]]
           BY <2>6, <2>7, <2>11
    <2>13. /\ Waiting' \in Seq(Item) /\ Len(Waiting') = m - 1
           /\ \A j \in 1..(m - 1) : Waiting'[j] = Waiting[j + 1]
      <3>1. \A j \in 1..(m - 1) : /\ j + 1 \in 1..m
                                   /\ (taken + 1) + j = taken + (j + 1)
                                   /\ (taken + 1) + j \in 2..Last
            BY <2>2, <2>6
      <3>2. \A j \in 1..(m - 1) : Waiting'[j] = Waiting[j + 1] /\ Waiting'[j] \in Item
            BY <2>7, <2>8, <2>10, <3>1
      <3> QED
          BY <2>6, <2>8, <3>2
    <2>14. /\ Tail(Waiting) \in Seq(Item) /\ Len(Tail(Waiting)) = m - 1
           /\ \A j \in 1..(m - 1) : Tail(Waiting)[j] = Waiting[j + 1]
           BY <2>6, <2>11, <2>12, HeadTailProperties
    <2>15. Waiting' = Tail(Waiting)
      <3> HIDE DEF m
      <3> QED
          BY <2>13, <2>14, SeqEqual
    <2> QED
        BY <2>5, <2>12, <2>15 DEF Abstract!Take
  <1> QED
      BY <1>1, <1>2

\* Every step is a Put, a Take, a FindEmpty, or leaves the queue as it is.
LEMMA StepRefines ==
        QueueInv /\ [Next]_vars => [Abstract!AbsNext]_(Abstract!absVars)
  <1> SUFFICES ASSUME QueueInv, [Next]_vars
               PROVE  [Abstract!AbsNext]_(Abstract!absVars)
      OBVIOUS
  <1> DEFINE Same == Waiting' = Waiting /\ result' = result
  <1>0. Same => UNCHANGED Abstract!absVars
        BY DEF Abstract!absVars
  <1>1. ASSUME NEW p \in Producer, InputStep(p)
        PROVE  (\E x \in Item : Abstract!Put(x)) \/ Same
    <2>1. InputReadTail(p) \/ InputTestNext(p) \/ InputHelp(p) \/ InputSwing(p) => Same
          BY DEF InputReadTail, InputTestNext, InputHelp, InputSwing, Waiting
    <2> QED
        BY <1>1, <2>1, NewKeepsWaiting, LinkPuts DEF InputStep
  <1>2. ASSUME NEW c \in Consumer, OutputStep(c)
        PROVE  Abstract!Take \/ Abstract!FindEmpty \/ Same
    <2>1. OutputReadHead(c) => Same
          BY DEF OutputReadHead, Waiting
    <2> QED
        BY <1>2, <2>1, ReadNextFindsEmpty, AdvanceTakes DEF OutputStep
  <1>3. UNCHANGED vars => Same
        BY DEF vars, Waiting
  <1> HIDE DEF Same
  <1> QED
      BY <1>0, <1>1, <1>2, <1>3 DEF Next, Abstract!AbsNext

\* The queue is a FIFO for any number of threads: a line comes out once, in
\* the order of the successful CASes of line 40, and output() reports an empty
\* queue only when it is empty.
THEOREM QueueIsFifo == Spec => ImplementsFifo
  <1>1. Init => Abstract!AbsInit
    <2>1. Init => Waiting = << >> /\ result = << >>
          BY DEF Init, Waiting, NoItem
    <2> QED
        BY <2>1 DEF Abstract!AbsInit
  <1> QED
      BY <1>1, InitInv, NextInv, StepRefines, PTL
      DEF Spec, ImplementsFifo, Abstract!AbsSpec
================================================================================
