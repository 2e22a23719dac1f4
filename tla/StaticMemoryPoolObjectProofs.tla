---------------------- MODULE StaticMemoryPoolObjectProofs ---------------------
EXTENDS StaticMemoryPoolProofs
(***************************************************************************)
(* The life of objects, for any pools, blocks and objects.  The argument:  *)
(*                                                                         *)
(*   - of the pools only two functions matter: N[p], the objects that the  *)
(*     cleaners of p name, in order, and C[p], the blocks of p;            *)
(*   - Objects, about N and C, is inductive: a cleaner names an object     *)
(*     that stands in a block of the same pool, everything that has not    *)
(*     been destroyed is named once, and a parent is named before its      *)
(*     children, as it died before them;                                   *)
(*   - each operation then is one of few things: a name is appended, the   *)
(*     names of a pool are destroyed in order, or they move to another     *)
(*     pool together with its blocks.                                      *)
(*                                                                         *)
(* What Destroyed returns is the one solution of Loop.  The last part is   *)
(* about types: _block_size is positive (Sized).                           *)
(***************************************************************************)

\* The loop over a vector of cleaners.
Loop(cl, f) == f = [i \in 0..Len(cl) |->
                      IF i = 0 THEN << >>
                      ELSE IF cl[i].destructor THEN Append(f[i - 1], cl[i].pointer) ELSE f[i - 1]]

LEMMA LoopAt ==
    ASSUME NEW cl, Len(cl) \in Nat, NEW f, Loop(cl, f)
    PROVE  /\ f[0] = << >>
           /\ \A i \in 1..Len(cl) :
                f[i] = IF cl[i].destructor THEN Append(f[i - 1], cl[i].pointer) ELSE f[i - 1]
  <1>1. PICK g : g = f
        OBVIOUS
  <1>2. f = [i \in 0..Len(cl) |-> IF i = 0 THEN << >>
                                  ELSE IF cl[i].destructor THEN Append(g[i - 1], cl[i].pointer) ELSE g[i - 1]]
        BY <1>1 DEF Loop
  <1>3. \A i \in 0..Len(cl) : f[i] = IF i = 0 THEN << >>
                                  ELSE IF cl[i].destructor THEN Append(g[i - 1], cl[i].pointer) ELSE g[i - 1]
        BY <1>2
  <1>4. ASSUME NEW i \in 1..Len(cl)
        PROVE  f[i] = IF cl[i].destructor THEN Append(g[i - 1], cl[i].pointer) ELSE g[i - 1]
    <2>1. i \in 0..Len(cl) /\ i # 0
          OBVIOUS
    <2> QED
        BY <1>3, <2>1
  <1>5. f[0] = << >>
        BY <1>3
  <1> QED
      BY <1>1, <1>4, <1>5

\* Loop has at most one solution, so one that is known is what Destroyed returns.
LEMMA LoopEnds ==
    ASSUME NEW cl, Len(cl) \in Nat, NEW g, Loop(cl, g) PROVE Destroyed(cl) = g[Len(cl)]
  <1>1. PICK f : f = CHOOSE called : Loop(cl, called)
        OBVIOUS
  <1>2. Loop(cl, f)
        BY <1>1
  <1>3. Destroyed(cl) = f[Len(cl)]
        BY <1>1 DEF Destroyed, Loop
  <1> DEFINE S == {n \in Nat : n <= Len(cl) /\ f[n] # g[n]}
  <1>4. ASSUME S # {} PROVE FALSE
    <2>1. PICK n \in S : \A y \in S : n <= y
          BY <1>4, Least
    <2>2. n \in Nat /\ n <= Len(cl) /\ f[n] # g[n]
          OBVIOUS
    <2>3. n # 0
          BY <1>2, <2>2, LoopAt
    <2>4. n \in 1..Len(cl) /\ n - 1 \in Nat /\ n - 1 <= Len(cl) /\ n - 1 < n
          BY <2>2, <2>3
    <2>5. f[n - 1] = g[n - 1]
          BY <2>1, <2>4
    <2> QED
        BY <1>2, <2>2, <2>4, <2>5, LoopAt
  <1> QED
      BY <1>3, <1>4

\* The objects of a vector of cleaners.
Names(cl) == [i \in 1..Len(cl) |-> cl[i].pointer]

\* A vector in which every destructor is set destroys all its objects, in order.
LEMMA AllCalled ==
    ASSUME NEW cl \in Seq(CleanerRec), \A i \in 1..Len(cl) : cl[i].destructor
    PROVE  Destroyed(cl) = Names(cl) /\ Names(cl) \in Seq(Obj) /\ Len(Names(cl)) = Len(cl)
  <1>1. Len(cl) \in Nat /\ \A i \in 1..Len(cl) : cl[i].pointer \in Obj
    <2>1. Len(cl) \in Nat /\ \A i \in 1..Len(cl) : cl[i] \in CleanerRec
          OBVIOUS
    <2> QED
        BY <2>1 DEF CleanerRec
  <1>2. \A n \in 0..Len(cl) : /\ [i \in 1..n |-> cl[i].pointer] \in Seq(Obj)
                              /\ Len([i \in 1..n |-> cl[i].pointer]) = n
    <2> SUFFICES ASSUME NEW n \in 0..Len(cl)
                 PROVE  /\ [i \in 1..n |-> cl[i].pointer] \in Seq(Obj)
                        /\ Len([i \in 1..n |-> cl[i].pointer]) = n
        OBVIOUS
    <2>1. n \in Nat /\ \A i \in 1..n : cl[i].pointer \in Obj
          BY <1>1
    <2>2. [i \in 1..n |-> cl[i].pointer] \in [1..n -> Obj]
          BY <2>1
    <2> QED
        BY <2>1, <2>2
  <1>3. PICK g : g = [n \in 0..Len(cl) |-> [i \in 1..n |-> cl[i].pointer]]
        OBVIOUS
  <1>4. ASSUME NEW n \in 1..Len(cl) PROVE g[n] = Append(g[n - 1], cl[n].pointer)
    <2>1. n - 1 \in 0..Len(cl) /\ n \in 0..Len(cl) /\ n \in Nat
          BY <1>1
    <2>2. PICK s : s = g[n - 1]
          OBVIOUS
    <2>3. s \in Seq(Obj) /\ Len(s) = n - 1 /\ \A i \in 1..(n - 1) : s[i] = cl[i].pointer
          BY <1>2, <1>3, <2>1, <2>2
    <2>4. PICK t : t = g[n]
          OBVIOUS
    <2>5. t \in Seq(Obj) /\ Len(t) = n /\ \A i \in 1..n : t[i] = cl[i].pointer
          BY <1>2, <1>3, <2>1, <2>4
    <2>6. PICK x \in Obj : x = cl[n].pointer
          BY <1>1
    <2>7. t = Append(s, x)
      <3>1. Append(s, x) \in Seq(Obj) /\ Len(Append(s, x)) = n
            BY <2>1, <2>3, AppendProperties
      <3>2. \A i \in 1..n : Append(s, x)[i] = t[i]
            BY SMTT(20), <2>1, <2>3, <2>5, <2>6, AppendProperties
      <3> QED
          BY <2>5, <3>1, <3>2, SeqEqual
    <2> QED
        BY <2>2, <2>4, <2>6, <2>7
  <1>5. g[0] = << >>
    <2>1. 0 \in 0..Len(cl)
          BY <1>1
    <2>2. g[0] \in Seq(Obj) /\ Len(g[0]) = 0
          BY <1>2, <1>3, <2>1
    <2> QED
        BY <2>2, EmptySeq
  <1>6. Loop(cl, g)
    <2>1. \A n \in 0..Len(cl) : g[n] = IF n = 0 THEN << >>
            ELSE IF cl[n].destructor THEN Append(g[n - 1], cl[n].pointer) ELSE g[n - 1]
      <3> SUFFICES ASSUME NEW n \in 0..Len(cl)
                   PROVE  g[n] = IF n = 0 THEN << >>
                            ELSE IF cl[n].destructor THEN Append(g[n - 1], cl[n].pointer) ELSE g[n - 1]
          OBVIOUS
      <3>1. CASE n = 0
            BY <1>5, <3>1
      <3>2. CASE n # 0
        <4>1. n \in 1..Len(cl)
              BY <1>1, <3>2
        <4>2. cl[n].destructor /\ g[n] = Append(g[n - 1], cl[n].pointer)
              BY <1>4, <4>1
        <4> QED
            BY <3>2, <4>2
      <3> QED
          BY <3>1, <3>2
    <2>2. g = [n \in 0..Len(cl) |-> g[n]]
          BY <1>3
    <2> QED
        BY <2>1, <2>2 DEF Loop
  <1>7. Destroyed(cl) = g[Len(cl)]
        BY <1>1, <1>6, LoopEnds
  <1> QED
      BY <1>1, <1>2, <1>3, <1>7 DEF Names

\* A vector whose elements were moved from destroys nothing.
LEMMA HusksDie ==
    ASSUME NEW cl \in Seq(CleanerRec) PROVE Destroyed([i \in DOMAIN cl |-> Husk(cl[i])]) = << >>
  <1>1. PICK hs : hs = [i \in DOMAIN cl |-> Husk(cl[i])]
        OBVIOUS
  <1>2. Len(cl) \in Nat /\ DOMAIN cl = 1..Len(cl)
        OBVIOUS
  <1>3. Len(hs) = Len(cl) /\ \A i \in 1..Len(cl) : ~hs[i].destructor
        BY <1>1, <1>2 DEF Husk
  <1>4. PICK g : g = [n \in 0..Len(hs) |-> << >>]
        OBVIOUS
  <1>5. Loop(hs, g)
        BY <1>2, <1>3, <1>4 DEF Loop
  <1> QED
      BY <1>1, <1>2, <1>3, <1>4, <1>5, LoopEnds
--------------------------------------------------------------------------------
(* The objects: N[p] are the objects the cleaners of pool p name, C[p] are    *)
(* its blocks, ob, st, dd and B are obj, stack, died and bufs.                *)

ObjRec == [st : {"none", "building", "built", "failed"}, parent : Obj \cup {Null},
           buf : BufferRec \cup {Null}]

Typed(N, ob, st, dd) ==
    N \in [Pool -> Seq(Obj)] /\ ob \in [Obj -> ObjRec] /\ st \in Seq(Obj) /\ dd \in Seq(Obj)

\* An object with a cleaner exists, is not destroyed, and is in a block of the
\* pool that has the cleaner.
Stands(C, ob, dd, B, p, o) ==
    /\ ob[o].st # "none" /\ o \notin Blocks(dd)
    /\ ob[o].buf \in B /\ ob[o].buf.block \in C[p]
Standing(N, C, ob, dd, B) == \A p \in Pool : \A i \in 1..Len(N[p]) : Stands(C, ob, dd, B, p, N[p][i])

\* Whatever exists and is not destroyed has a cleaner.
Known(N, o) == \E p \in Pool : o \in Blocks(N[p])
AllKnown(N, ob, dd) == \A o \in Obj : ob[o].st # "none" /\ o \notin Blocks(dd) => Known(N, o)

Once(s) == \A i, j \in 1..Len(s) : s[i] = s[j] => i = j
\* The object in whose constructor another one was made comes before that one.
ParentsEarlier(s, ob) ==
    \A i \in 1..Len(s) : ob[s[i]].parent # Null => \E j \in 1..(i - 1) : s[j] = ob[s[i]].parent

Ordered(N, ob, dd) ==
    /\ \A p \in Pool : Once(N[p]) /\ ParentsEarlier(N[p], ob)
    /\ Once(dd) /\ ParentsEarlier(dd, ob)
Past(ob, dd) == \A i \in 1..Len(dd) : ob[dd[i]].st # "none"
Stacked(ob, st, dd) == \A i \in 1..Len(st) : ob[st[i]].st # "none" /\ st[i] \notin Blocks(dd)

Objects(N, C, ob, st, dd, B) ==
    /\ Typed(N, ob, st, dd) /\ Standing(N, C, ob, dd, B) /\ AllKnown(N, ob, dd)
    /\ Ordered(N, ob, dd) /\ Past(ob, dd) /\ Stacked(ob, st, dd)

\* No two pools have a block in common.
Apart(C) == \A p, q \in Pool : p # q => \A b \in C[p] : b \notin C[q]

LEMMA InBlocks ==
    ASSUME NEW T, NEW s \in Seq(T)
    PROVE  /\ \A x : x \in Blocks(s) <=> \E i \in 1..Len(s) : s[i] = x
           /\ Len(s) \in Nat /\ \A i \in 1..Len(s) : s[i] \in T
  BY DEF Blocks

LEMMA InCat ==
    ASSUME NEW T, NEW s \in Seq(T), NEW t \in Seq(T), NEW u, u = s \o t
    PROVE  /\ u \in Seq(T) /\ Len(u) = Len(s) + Len(t)
           /\ Len(s) \in Nat /\ Len(t) \in Nat
           /\ \A i \in 1..Len(s) : u[i] = s[i] /\ i \in 1..Len(u)
           /\ \A i \in 1..Len(t) : u[Len(s) + i] = t[i] /\ Len(s) + i \in 1..Len(u)
           /\ \A i \in 1..Len(u) : i \in 1..Len(s) \/ (i > Len(s) /\ i - Len(s) \in 1..Len(t) /\ u[i] = t[i - Len(s)])
           /\ \A x : x \in Blocks(u) <=> x \in Blocks(s) \/ x \in Blocks(t)
  <1>1. u \in Seq(T) /\ Len(u) = Len(s) + Len(t) /\ Len(s) \in Nat /\ Len(t) \in Nat
        BY ConcatProperties
  <1>2. \A i \in 1..Len(s) : u[i] = s[i] /\ i \in 1..Len(u)
        BY <1>1, ConcatProperties
  <1>3. ASSUME NEW i \in 1..Len(t) PROVE u[Len(s) + i] = t[i] /\ Len(s) + i \in 1..Len(u)
    <2>1. Len(s) + i \in 1..Len(u) /\ Len(s) + i > Len(s) /\ (Len(s) + i) - Len(s) = i
          BY <1>1
    <2> QED
        BY <1>1, <2>1, ConcatProperties
  <1>4. ASSUME NEW i \in 1..Len(u)
        PROVE  i \in 1..Len(s) \/ (i > Len(s) /\ i - Len(s) \in 1..Len(t) /\ u[i] = t[i - Len(s)])
    <2>1. CASE i <= Len(s)
          BY <1>1, <2>1
    <2>2. CASE i > Len(s)
      <3>1. i - Len(s) \in 1..Len(t)
            BY <1>1, <2>2
      <3>2. u[i] = t[i - Len(s)]
            BY <1>1, <2>2, ConcatProperties
      <3> QED
          BY <2>2, <3>1, <3>2
    <2> QED
        BY <1>1, <2>1, <2>2
  <1>5. ASSUME NEW x PROVE x \in Blocks(u) <=> x \in Blocks(s) \/ x \in Blocks(t)
    <2>1. /\ x \in Blocks(u) <=> \E i \in 1..Len(u) : u[i] = x
          /\ x \in Blocks(s) <=> \E i \in 1..Len(s) : s[i] = x
          /\ x \in Blocks(t) <=> \E i \in 1..Len(t) : t[i] = x
          BY <1>1, InBlocks
    <2> QED
        BY <1>2, <1>3, <1>4, <2>1
  <1> QED
      BY <1>1, <1>2, <1>3, <1>4, <1>5

LEMMA OnceCat ==
    ASSUME NEW s \in Seq(Obj), NEW t \in Seq(Obj), NEW u, u = s \o t, Once(s), Once(t),
           \A x \in Blocks(t) : x \notin Blocks(s)
    PROVE  Once(u)
  <1> SUFFICES ASSUME NEW i \in 1..Len(u), NEW j \in 1..Len(u), u[i] = u[j] PROVE i = j
      BY DEF Once
  <1>1. /\ Len(s) \in Nat /\ Len(t) \in Nat /\ Len(u) = Len(s) + Len(t)
        /\ \A k \in 1..Len(s) : u[k] = s[k] /\ s[k] \in Blocks(s)
        /\ \A k \in 1..Len(t) : t[k] \in Blocks(t)
        BY InCat, InBlocks
  <1>2. \A k \in 1..Len(u) : k \in 1..Len(s) \/ (k > Len(s) /\ k - Len(s) \in 1..Len(t) /\ u[k] = t[k - Len(s)])
        BY InCat
  <1>3. CASE i \in 1..Len(s) /\ j \in 1..Len(s)
        BY <1>1, <1>3 DEF Once
  <1>4. CASE i \notin 1..Len(s) /\ j \notin 1..Len(s)
    <2>1. i - Len(s) \in 1..Len(t) /\ j - Len(s) \in 1..Len(t) /\ t[i - Len(s)] = t[j - Len(s)]
          BY <1>2, <1>4
    <2>2. i - Len(s) = j - Len(s)
          BY <2>1 DEF Once
    <2> QED
        BY <1>1, <2>2
  <1>5. CASE i \in 1..Len(s) /\ j \notin 1..Len(s)
    <2>1. u[i] \in Blocks(s) /\ u[j] \in Blocks(t)
          BY <1>1, <1>2, <1>5
    <2> QED
        BY <2>1
  <1>6. CASE i \notin 1..Len(s) /\ j \in 1..Len(s)
    <2>1. u[j] \in Blocks(s) /\ u[i] \in Blocks(t)
          BY <1>1, <1>2, <1>6
    <2> QED
        BY <2>1
  <1> QED
      BY <1>3, <1>4, <1>5, <1>6

LEMMA ParentsEarlierCat ==
    ASSUME NEW ob, NEW s \in Seq(Obj), NEW t \in Seq(Obj), NEW u, u = s \o t,
           ParentsEarlier(s, ob), ParentsEarlier(t, ob)
    PROVE  ParentsEarlier(u, ob)
  <1> SUFFICES ASSUME NEW i \in 1..Len(u), ob[u[i]].parent # Null
               PROVE  \E j \in 1..(i - 1) : u[j] = ob[u[i]].parent
      BY DEF ParentsEarlier
  <1>1. /\ Len(s) \in Nat /\ Len(t) \in Nat /\ Len(u) = Len(s) + Len(t)
        /\ \A k \in 1..Len(s) : u[k] = s[k]
        /\ \A k \in 1..Len(t) : u[Len(s) + k] = t[k]
        BY InCat
  <1>2. i \in 1..Len(s) \/ (i > Len(s) /\ i - Len(s) \in 1..Len(t) /\ u[i] = t[i - Len(s)])
        BY InCat
  <1>3. CASE i \in 1..Len(s)
    <2>1. PICK j \in 1..(i - 1) : s[j] = ob[s[i]].parent
          BY <1>1, <1>3 DEF ParentsEarlier
    <2>2. j \in 1..Len(s)
          BY <1>1, <1>3
    <2> QED
        BY <1>1, <1>3, <2>1, <2>2
  <1>4. CASE i > Len(s) /\ i - Len(s) \in 1..Len(t) /\ u[i] = t[i - Len(s)]
    <2>1. PICK k \in 1..Len(t) : k = i - Len(s)
          BY <1>4
    <2>2. PICK j \in 1..(k - 1) : t[j] = ob[t[k]].parent
          BY <1>4, <2>1 DEF ParentsEarlier
    <2>3. j \in 1..Len(t) /\ Len(s) + j \in 1..(i - 1)
          BY <1>1, <2>1
    <2> QED
        BY <1>1, <1>4, <2>1, <2>2, <2>3
  <1> QED
      BY <1>2, <1>3, <1>4
\* The pools keep the blocks in which there are buffers: nothing else matters.
LEMMA ObjectsStay ==
    ASSUME NEW N, NEW C, NEW ob, NEW st, NEW dd, NEW B, Objects(N, C, ob, st, dd, B),
           NEW N2 \in [Pool -> Seq(Obj)], NEW C2, NEW B2, \A p \in Pool : N2[p] = N[p],
           \A b \in B : b \in B2 /\ \A p \in Pool : b.block \in C[p] => b.block \in C2[p]
    PROVE  Objects(N2, C2, ob, st, dd, B2)
  <1>1. \A p \in Pool : \A o : Stands(C, ob, dd, B, p, o) => Stands(C2, ob, dd, B2, p, o)
        BY DEF Stands
  <1>2. Standing(N2, C2, ob, dd, B2)
        BY <1>1 DEF Objects, Standing
  <1>3. AllKnown(N2, ob, dd) /\ Ordered(N2, ob, dd) /\ Typed(N2, ob, st, dd)
        BY DEF Objects, AllKnown, Known, Ordered, Typed
  <1> QED
      BY <1>2, <1>3 DEF Objects

\* The objects of pool p are destroyed, and its buffers end.
LEMMA ObjectsEnd ==
    ASSUME NEW N, NEW C, NEW ob, NEW st, NEW dd, NEW B, Objects(N, C, ob, st, dd, B), Apart(C),
           st = << >>, NEW p \in Pool,
           NEW N2 \in [Pool -> Seq(Obj)], NEW C2, NEW dd2, NEW B2, dd2 = dd \o N[p], N2[p] = << >>,
           \A q \in Pool : q # p => N2[q] = N[q] /\ C2[q] = C[q],
           \A b \in B : b.block \notin C[p] => b \in B2
    PROVE  Objects(N2, C2, ob, st, dd2, B2)
  <1>1. /\ N \in [Pool -> Seq(Obj)] /\ N[p] \in Seq(Obj) /\ dd \in Seq(Obj)
        /\ Once(dd) /\ Once(N[p]) /\ ParentsEarlier(dd, ob) /\ ParentsEarlier(N[p], ob)
        BY DEF Objects, Typed, Ordered
  <1>2. \A x \in Blocks(N[p]) : Stands(C, ob, dd, B, p, x)
    <2>1. \A x \in Blocks(N[p]) : \E i \in 1..Len(N[p]) : N[p][i] = x
          BY <1>1, InBlocks
    <2> QED
        BY <2>1 DEF Objects, Standing
  <1>3. dd2 \in Seq(Obj) /\ \A x : x \in Blocks(dd2) <=> x \in Blocks(dd) \/ x \in Blocks(N[p])
    <2>1. PICK n \in Seq(Obj) : n = N[p]
          BY <1>1
    <2>2. dd2 = dd \o n
          BY <2>1
    <2>3. dd2 \in Seq(Obj) /\ \A x : x \in Blocks(dd2) <=> x \in Blocks(dd) \/ x \in Blocks(n)
          BY ZenonT(40), <1>1, <2>2, InCat
    <2> QED
        BY <2>1, <2>3
  <1>4. Once(dd2) /\ ParentsEarlier(dd2, ob)
    <2>1. \A x \in Blocks(N[p]) : x \notin Blocks(dd)
          BY <1>2 DEF Stands
    <2> QED
        BY <1>1, <2>1, OnceCat, ParentsEarlierCat
  <1>5. Typed(N2, ob, st, dd2)
        BY <1>3 DEF Objects, Typed
  <1>6. Standing(N2, C2, ob, dd2, B2)
    <2> SUFFICES ASSUME NEW q \in Pool, NEW i \in 1..Len(N2[q]) PROVE Stands(C2, ob, dd2, B2, q, N2[q][i])
        BY DEF Standing
    <2>1. q # p
          OBVIOUS
    <2>2. PICK o : o = N2[q][i]
          OBVIOUS
    <2>3. Stands(C, ob, dd, B, q, o)
          BY <2>1, <2>2 DEF Objects, Standing
    <2>4. ob[o].buf.block \notin C[p]
          BY <2>1, <2>3 DEF Stands, Apart
    <2>5. o \notin Blocks(N[p])
          BY <1>2, <2>4 DEF Stands
    <2> QED
        BY <1>3, <2>1, <2>2, <2>3, <2>4, <2>5 DEF Stands
  <1>7. AllKnown(N2, ob, dd2)
    <2> SUFFICES ASSUME NEW o \in Obj, ob[o].st # "none", o \notin Blocks(dd2) PROVE Known(N2, o)
        BY DEF AllKnown
    <2>1. o \notin Blocks(dd) /\ o \notin Blocks(N[p])
          BY <1>3
    <2>2. PICK q \in Pool : o \in Blocks(N[q])
          BY <2>1 DEF Objects, AllKnown, Known
    <2> QED
        BY <2>1, <2>2 DEF Known
  <1>8. Once(<< >>) /\ ParentsEarlier(<< >>, ob)
        BY DEF Once, ParentsEarlier
  <1>9. Ordered(N2, ob, dd2)
        BY <1>4, <1>8 DEF Objects, Ordered
  <1>10. Past(ob, dd2)
    <2> SUFFICES ASSUME NEW i \in 1..Len(dd2) PROVE ob[dd2[i]].st # "none"
        BY DEF Past
    <2>1. dd2[i] \in Blocks(dd) \/ dd2[i] \in Blocks(N[p])
          BY <1>3, InBlocks
    <2>2. \A x \in Blocks(dd) : ob[x].st # "none"
          BY <1>1, InBlocks DEF Objects, Past
    <2> QED
        BY <1>2, <2>1, <2>2 DEF Stands
  <1>11. Stacked(ob, st, dd2)
         BY DEF Stacked
  <1> QED
      BY <1>5, <1>6, <1>7, <1>9, <1>10, <1>11 DEF Objects

\* Pool p, which has none, takes the objects of pool q.
Moved(N, C, p, q, N2, C2) ==
    /\ p # q /\ N[p] = << >> /\ N2[p] = N[q] /\ N2[q] = << >> /\ C2[p] = C[q]
    /\ \A r \in Pool : r # p /\ r # q => N2[r] = N[r] /\ C2[r] = C[r]

LEMMA ObjectsMove ==
    ASSUME NEW N, NEW C, NEW ob, NEW st, NEW dd, NEW B, Objects(N, C, ob, st, dd, B),
           NEW p \in Pool, NEW q \in Pool, NEW N2 \in [Pool -> Seq(Obj)], NEW C2,
           Moved(N, C, p, q, N2, C2)
    PROVE  Objects(N2, C2, ob, st, dd, B)
  <1> USE DEF Moved
  <1>1. Typed(N2, ob, st, dd)
        BY DEF Objects, Typed
  <1>2. Once(<< >>) /\ ParentsEarlier(<< >>, ob) /\ Blocks(<< >>) = {}
        BY BlocksOfNone DEF Once, ParentsEarlier
  <1>3. Ordered(N2, ob, dd)
    <2>1. \A r \in Pool : N2[r] = << >> \/ \E s \in Pool : N2[r] = N[s]
          OBVIOUS
    <2> QED
        BY <1>2, <2>1 DEF Objects, Ordered
  <1>4. Standing(N2, C2, ob, dd, B)
    <2> SUFFICES ASSUME NEW r \in Pool, NEW i \in 1..Len(N2[r]) PROVE Stands(C2, ob, dd, B, r, N2[r][i])
        BY DEF Standing
    <2>1. r # q
          OBVIOUS
    <2>2. CASE r = p
          BY <2>2 DEF Objects, Standing, Stands
    <2>3. CASE r # p
          BY <2>1, <2>3 DEF Objects, Standing, Stands
    <2> QED
        BY <2>2, <2>3
  <1>5. AllKnown(N2, ob, dd)
    <2> SUFFICES ASSUME NEW o \in Obj, Known(N, o) PROVE Known(N2, o)
        BY DEF Objects, AllKnown
    <2>1. PICK r \in Pool : o \in Blocks(N[r])
          BY DEF Known
    <2>2. r # p
          BY <1>2, <2>1
    <2>3. CASE r = q
          BY <2>1, <2>3 DEF Known
    <2>4. CASE r # q
          BY <2>1, <2>2, <2>4 DEF Known
    <2> QED
        BY <2>3, <2>4
  <1> QED
      BY <1>1, <1>3, <1>4, <1>5 DEF Objects

LEMMA OnceAppend ==
    ASSUME NEW s \in Seq(Obj), NEW o \in Obj, NEW t, t = Append(s, o), Once(s), o \notin Blocks(s)
    PROVE  Once(t)
  <1>1. <<o>> \in Seq(Obj) /\ t = s \o <<o>> /\ Blocks(<<o>>) = {o} /\ Once(<<o>>)
        BY DEF Blocks, Once
  <1> QED
      BY <1>1, OnceCat

LEMMA InAppend ==
    ASSUME NEW s \in Seq(Obj), NEW o \in Obj, NEW t, t = Append(s, o)
    PROVE  /\ t \in Seq(Obj) /\ Len(t) = Len(s) + 1 /\ Len(s) \in Nat
           /\ \A i \in 1..Len(s) : t[i] = s[i] /\ t[Len(s) + 1] = o
           /\ \A x : x \in Blocks(t) <=> x \in Blocks(s) \/ x = o
           /\ \A i \in 1..Len(t) : (i \in 1..Len(s) /\ t[i] = s[i]) \/ (i = Len(s) + 1 /\ t[i] = o)
  <1>1. /\ t \in Seq(Obj) /\ Len(t) = Len(s) + 1 /\ Len(s) \in Nat
        /\ \A i \in 1..Len(s) : t[i] = s[i] /\ t[Len(s) + 1] = o
        BY AppendProperties
  <1>2. t[Len(s) + 1] = o
        BY AppendProperties
  <1>3. \A i \in 1..Len(t) : (i \in 1..Len(s) /\ t[i] = s[i]) \/ (i = Len(s) + 1 /\ t[i] = o)
        BY <1>1, <1>2
  <1>4. ASSUME NEW x PROVE x \in Blocks(t) <=> x \in Blocks(s) \/ x = o
    <2>1. /\ x \in Blocks(t) <=> \E i \in 1..Len(t) : t[i] = x
          /\ x \in Blocks(s) <=> \E i \in 1..Len(s) : s[i] = x
          BY ZenonT(40), <1>1, InBlocks
    <2>2. Len(s) + 1 \in 1..Len(t) /\ \A i \in 1..Len(s) : i \in 1..Len(t)
          BY <1>1
    <2> QED
        BY <1>1, <1>2, <1>3, <2>1, <2>2
  <1> QED
      BY <1>1, <1>3, <1>4

LEMMA ParentsEarlierAppend ==
    ASSUME NEW s \in Seq(Obj), NEW o \in Obj, NEW t, t = Append(s, o), NEW ob, NEW ob2,
           ParentsEarlier(s, ob), \A x \in Blocks(s) : ob2[x] = ob[x],
           ob2[o].parent = Null \/ ob2[o].parent \in Blocks(s)
    PROVE  ParentsEarlier(t, ob2)
  <1> SUFFICES ASSUME NEW i \in 1..Len(t), ob2[t[i]].parent # Null
               PROVE  \E j \in 1..(i - 1) : t[j] = ob2[t[i]].parent
      BY DEF ParentsEarlier
  <1>1. /\ Len(t) = Len(s) + 1 /\ Len(s) \in Nat /\ \A k \in 1..Len(s) : t[k] = s[k]
        /\ (i \in 1..Len(s) /\ t[i] = s[i]) \/ (i = Len(s) + 1 /\ t[i] = o)
        BY InAppend
  <1>2. \A x : x \in Blocks(s) <=> \E k \in 1..Len(s) : s[k] = x
        BY InBlocks
  <1>3. CASE i \in 1..Len(s) /\ t[i] = s[i]
    <2>1. ob2[s[i]] = ob[s[i]]
          BY <1>2, <1>3
    <2>2. PICK j \in 1..(i - 1) : s[j] = ob[s[i]].parent
          BY <1>3, <2>1 DEF ParentsEarlier
    <2>3. j \in 1..Len(s)
          BY <1>1, <1>3
    <2> QED
        BY <1>1, <1>3, <2>1, <2>2, <2>3
  <1>4. CASE i = Len(s) + 1 /\ t[i] = o
    <2>1. PICK k \in 1..Len(s) : s[k] = ob2[o].parent
          BY <1>2, <1>4
    <2> QED
        BY <1>1, <1>4, <2>1
  <1> QED
      BY <1>1, <1>3, <1>4

LEMMA ParentsEarlierSame ==
    ASSUME NEW s \in Seq(Obj), NEW ob, NEW ob2, ParentsEarlier(s, ob), \A x \in Blocks(s) : ob2[x].parent = ob[x].parent
    PROVE  ParentsEarlier(s, ob2)
  <1>1. \A i \in 1..Len(s) : s[i] \in Blocks(s)
        BY InBlocks
  <1> QED
      BY <1>1 DEF ParentsEarlier

LEMMA ObjBlocks == \A s \in Seq(Obj) : \A x \in Blocks(s) : x \in Obj /\ \E i \in 1..Len(s) : s[i] = x
  BY InBlocks

LEMMA AppendBlocks ==
    \A s \in Seq(Obj), o \in Obj : \A x : x \in Blocks(Append(s, o)) <=> x \in Blocks(s) \/ x = o
  BY InAppend

\* A new object o, with a cleaner in pool p and its memory in a block of p.
LEMMA ObjectsAdd ==
    ASSUME NEW N, NEW C, NEW ob, NEW st, NEW dd, NEW B, Objects(N, C, ob, st, dd, B),
           NEW p \in Pool, NEW o \in Obj, ob[o].st = "none",
           NEW N2 \in [Pool -> Seq(Obj)], N2[p] = Append(N[p], o), \A q \in Pool : q # p => N2[q] = N[q],
           NEW x \in ObjRec, x.st # "none", x.buf \in B, x.buf.block \in C[p],
           x.parent = Null \/ x.parent \in Blocks(N[p]),
           NEW ob2, ob2 = [ob EXCEPT ![o] = x], NEW st2, st2 = st \/ st2 = Append(st, o)
    PROVE  Objects(N2, C, ob2, st2, dd, B)
  <1>1. N \in [Pool -> Seq(Obj)] /\ ob \in [Obj -> ObjRec] /\ st \in Seq(Obj) /\ dd \in Seq(Obj)
        BY DEF Objects, Typed
  <1>2. ob2 \in [Obj -> ObjRec] /\ ob2[o] = x /\ \A y \in Obj : y # o => ob2[y] = ob[y]
        BY <1>1
  <1>3. o \notin Blocks(dd) /\ \A y \in Blocks(dd) : y \in Obj /\ ob2[y] = ob[y]
    <2>1. \A y \in Blocks(dd) : y \in Obj /\ ob[y].st # "none"
          BY <1>1, InBlocks DEF Objects, Past
    <2> QED
        BY <1>2, <2>1
  <1>4. ASSUME NEW q \in Pool
        PROVE  /\ o \notin Blocks(N[q])
               /\ \A y \in Blocks(N[q]) : y \in Obj /\ ob2[y] = ob[y] /\ Stands(C, ob, dd, B, q, y)
    <2>1. N[q] \in Seq(Obj)
          BY <1>1
    <2>2. \A y \in Blocks(N[q]) : y \in Obj /\ \E i \in 1..Len(N[q]) : N[q][i] = y
          BY <2>1, ObjBlocks, Zenon
    <2>3. \A y \in Blocks(N[q]) : y \in Obj /\ Stands(C, ob, dd, B, q, y)
          BY <2>2 DEF Objects, Standing
    <2>4. o \notin Blocks(N[q])
          BY <2>3 DEF Stands
    <2> QED
        BY <1>2, <2>3, <2>4
  <1>5. N[p] \in Seq(Obj) /\ \A y : y \in Blocks(N2[p]) <=> y \in Blocks(N[p]) \/ y = o
    <2>1. N[p] \in Seq(Obj)
          BY <1>1
    <2>2. \A y : y \in Blocks(Append(N[p], o)) <=> y \in Blocks(N[p]) \/ y = o
          BY <2>1, AppendBlocks, Zenon
    <2> QED
        BY <2>1, <2>2
  <1>6. Standing(N2, C, ob2, dd, B)
    <2> SUFFICES ASSUME NEW q \in Pool, NEW y \in Blocks(N2[q]) PROVE Stands(C, ob2, dd, B, q, y)
      <3>1. \A q \in Pool : N2[q] \in Seq(Obj)
            OBVIOUS
      <3>2. \A q \in Pool : \A i \in 1..Len(N2[q]) : N2[q][i] \in Blocks(N2[q])
            BY <3>1, InBlocks
      <3> QED
          BY <3>2 DEF Standing
    <2>1. CASE y \in Blocks(N[q])
          BY <1>4, <2>1 DEF Stands
    <2>2. CASE q = p /\ y = o
          BY <1>2, <1>3, <2>2 DEF Stands
    <2> QED
        BY <1>5, <2>1, <2>2
  <1>7. AllKnown(N2, ob2, dd)
    <2> SUFFICES ASSUME NEW y \in Obj, ob2[y].st # "none", y \notin Blocks(dd) PROVE Known(N2, y)
        BY DEF AllKnown
    <2>1. CASE y = o
          BY <1>5, <2>1 DEF Known
    <2>2. CASE y # o
      <3>1. PICK q \in Pool : y \in Blocks(N[q])
            BY <1>2, <2>2 DEF Objects, AllKnown, Known
      <3> QED
          BY <1>5, <3>1 DEF Known
    <2> QED
        BY <2>1, <2>2
  <1>8. Ordered(N2, ob2, dd)
    <2>1. Once(dd) /\ ParentsEarlier(dd, ob2)
          BY <1>1, <1>3, ParentsEarlierSame DEF Objects, Ordered
    <2>2. ASSUME NEW q \in Pool PROVE Once(N2[q]) /\ ParentsEarlier(N2[q], ob2)
      <3>1. PICK n \in Seq(Obj) : n = N[q]
            BY <1>1
      <3>2. Once(n) /\ ParentsEarlier(n, ob)
            BY <3>1 DEF Objects, Ordered
      <3>3. o \notin Blocks(n) /\ \A y \in Blocks(n) : ob2[y] = ob[y]
            BY <1>4, <3>1
      <3>4. CASE q # p
        <4>1. N2[q] = n
              BY <3>1, <3>4
        <4> QED
            BY <3>1, <3>2, <3>3, <4>1, ParentsEarlierSame
      <3>5. CASE q = p
        <4>1. PICK m : m = Append(n, o)
              OBVIOUS
        <4>2. N2[q] = m /\ (ob2[o].parent = Null \/ ob2[o].parent \in Blocks(n))
              BY <1>2, <3>1, <3>5, <4>1
        <4>3. Once(m)
              BY <3>1, <3>2, <3>3, <4>1, OnceAppend
        <4>4. ParentsEarlier(m, ob2)
          <5>1. PICK f : f = ob2
                OBVIOUS
          <5>2. /\ n \in Seq(Obj) /\ ParentsEarlier(n, ob) /\ \A y \in Blocks(n) : f[y] = ob[y]
                /\ f[o].parent = Null \/ f[o].parent \in Blocks(n)
                BY <3>1, <3>2, <3>3, <4>2, <5>1
          <5>3. ParentsEarlier(m, f)
                BY <4>1, <5>2, ParentsEarlierAppend
          <5> QED
              BY <5>1, <5>3
        <4> QED
            BY <4>2, <4>3, <4>4
      <3> QED
          BY <3>4, <3>5
    <2> QED
        BY <2>1, <2>2 DEF Ordered
  <1>9. Past(ob2, dd)
    <2>1. \A i \in 1..Len(dd) : dd[i] \in Blocks(dd)
          BY <1>1, InBlocks
    <2> QED
        BY <1>3, <2>1 DEF Objects, Past
  <1>10. st2 \in Seq(Obj) /\ Stacked(ob2, st2, dd)
    <2>1. \A i \in 1..Len(st) : st[i] \in Obj /\ ob2[st[i]].st # "none" /\ st[i] \notin Blocks(dd)
      <3>1. \A i \in 1..Len(st) : st[i] \in Obj
            BY <1>1, InBlocks
      <3> QED
          BY <1>2, <3>1 DEF Objects, Stacked
    <2>2. CASE st2 = st
          BY <1>1, <2>1, <2>2 DEF Stacked
    <2>3. CASE st2 = Append(st, o)
      <3>1. \A i \in 1..Len(st2) : (i \in 1..Len(st) /\ st2[i] = st[i]) \/ (i = Len(st) + 1 /\ st2[i] = o)
            BY <1>1, <2>3, InAppend
      <3>2. st2 \in Seq(Obj)
            BY <1>1, <2>3, InAppend
      <3> QED
          BY <1>2, <1>3, <2>1, <3>1, <3>2 DEF Stacked
    <2> QED
        BY <2>2, <2>3
  <1>11. Typed(N2, ob2, st2, dd)
         BY <1>1, <1>2, <1>10 DEF Typed
  <1> QED
      BY <1>6, <1>7, <1>8, <1>9, <1>10, <1>11 DEF Objects

\* A constructor is over.
LEMMA ObjectsBuilt ==
    ASSUME NEW N, NEW C, NEW ob, NEW st, NEW dd, NEW B, Objects(N, C, ob, st, dd, B),
           NEW ob2 \in [Obj -> ObjRec], NEW st2 \in Seq(Obj),
           \A o \in Obj : /\ ob2[o].parent = ob[o].parent /\ ob2[o].buf = ob[o].buf
                          /\ ob2[o].st = "none" <=> ob[o].st = "none",
           \A o \in Blocks(st2) : o \in Blocks(st)
    PROVE  Objects(N, C, ob2, st2, dd, B)
  <1>1. N \in [Pool -> Seq(Obj)] /\ ob \in [Obj -> ObjRec] /\ st \in Seq(Obj) /\ dd \in Seq(Obj)
        BY DEF Objects, Typed
  <1>2. Typed(N, ob2, st2, dd)
        BY <1>1 DEF Typed
  <1>3. \A q \in Pool : N[q] \in Seq(Obj)
        BY <1>1
  <1>4. \A q \in Pool : \A i \in 1..Len(N[q]) : N[q][i] \in Obj
        BY <1>3, InBlocks
  <1>5. Standing(N, C, ob2, dd, B)
        BY <1>4 DEF Objects, Standing, Stands
  <1>6. AllKnown(N, ob2, dd)
        BY DEF Objects, AllKnown
  <1>7. Ordered(N, ob2, dd)
    <2>1. \A s \in Seq(Obj) : ParentsEarlier(s, ob) => ParentsEarlier(s, ob2)
      <3> SUFFICES ASSUME NEW s \in Seq(Obj), ParentsEarlier(s, ob) PROVE ParentsEarlier(s, ob2)
          OBVIOUS
      <3>1. \A x \in Blocks(s) : x \in Obj
            BY InBlocks
      <3> QED
          BY <3>1, ParentsEarlierSame
    <2> QED
        BY <1>1, <1>3, <2>1 DEF Objects, Ordered
  <1>8. Past(ob2, dd)
    <2>1. \A i \in 1..Len(dd) : dd[i] \in Obj
          BY <1>1, InBlocks
    <2> QED
        BY <2>1 DEF Objects, Past
  <1>9. Stacked(ob2, st2, dd)
    <2> SUFFICES ASSUME NEW i \in 1..Len(st2) PROVE ob2[st2[i]].st # "none" /\ st2[i] \notin Blocks(dd)
        BY DEF Stacked
    <2>1. st2[i] \in Blocks(st) /\ st2[i] \in Obj
          BY InBlocks
    <2>2. PICK j \in 1..Len(st) : st[j] = st2[i]
          BY <1>1, <2>1, InBlocks
    <2> QED
        BY <2>1, <2>2 DEF Objects, Stacked
  <1> QED
      BY <1>2, <1>5, <1>6, <1>7, <1>8, <1>9 DEF Objects
--------------------------------------------------------------------------------
(* The objects of all pools *)

NamesIn(pl) == [p \in Pool |-> IF pl[p] = Null THEN << >> ELSE Names(pl[p].cleaners)]
HeldIn(pl) == [p \in Pool |-> IF pl[p] = Null THEN {} ELSE Blocks(pl[p].chain)]
Calls(P) == \A i \in 1..Len(P.cleaners) : P.cleaners[i].destructor

Census(pl, ob, st, dd, B) ==
    /\ \A p \in Pool : pl[p] # Null => Calls(pl[p])
    /\ Objects(NamesIn(pl), HeldIn(pl), ob, st, dd, B)

ObjInv == Census(pool, obj, stack, died, bufs)

LEMMA NamesOfPool ==
    ASSUME NEW P \in PoolRec PROVE Names(P.cleaners) \in Seq(Obj) /\ Len(Names(P.cleaners)) = Len(P.cleaners)
  <1>1. PICK cl \in Seq(CleanerRec) : cl = P.cleaners
        BY Fields
  <1>2. Len(cl) \in Nat /\ \A i \in 1..Len(cl) : cl[i] \in CleanerRec
        BY <1>1
  <1>3. \A i \in 1..Len(cl) : cl[i].pointer \in Obj
        BY <1>2 DEF CleanerRec
  <1>4. Names(cl) \in [1..Len(cl) -> Obj]
        BY <1>3 DEF Names
  <1>5. Names(cl) \in Seq(Obj) /\ Len(Names(cl)) = Len(cl)
        BY <1>2, <1>4
  <1> QED
      BY <1>1, <1>5

LEMMA NamesAndBlocks ==
    ASSUME NEW pl \in [Pool -> PoolRec \cup {Null}]
    PROVE  /\ NamesIn(pl) \in [Pool -> Seq(Obj)]
           /\ \A p \in Pool : NamesIn(pl)[p] = IF pl[p] = Null THEN << >> ELSE Names(pl[p].cleaners)
           /\ \A p \in Pool : HeldIn(pl)[p] = IF pl[p] = Null THEN {} ELSE Blocks(pl[p].chain)
  <1>1. \A p \in Pool : (IF pl[p] = Null THEN << >> ELSE Names(pl[p].cleaners)) \in Seq(Obj)
    <2> SUFFICES ASSUME NEW p \in Pool, pl[p] # Null PROVE Names(pl[p].cleaners) \in Seq(Obj)
        OBVIOUS
    <2>1. pl[p] \in PoolRec
          OBVIOUS
    <2> QED
        BY <2>1, NamesOfPool
  <1> QED
      BY <1>1 DEF NamesIn, HeldIn

LEMMA AtPool ==
    ASSUME NEW pl, NEW p \in Pool
    PROVE  /\ pl[p] = Null => NamesIn(pl)[p] = << >> /\ HeldIn(pl)[p] = {}
           /\ pl[p] # Null => NamesIn(pl)[p] = Names(pl[p].cleaners) /\ HeldIn(pl)[p] = Blocks(pl[p].chain)
  BY DEF NamesIn, HeldIn

LEMMA AtSame ==
    ASSUME NEW pl, NEW pl2, NEW p \in Pool, NEW q \in Pool, pl2[p] = pl[q]
    PROVE  NamesIn(pl2)[p] = NamesIn(pl)[q] /\ HeldIn(pl2)[p] = HeldIn(pl)[q]
  BY DEF NamesIn, HeldIn

LEMMA NothingNamed == ASSUME NEW cl, cl = << >> PROVE Names(cl) = << >> /\ Len(cl) = 0
  BY DEF Names

LEMMA HeldApart ==
    ASSUME NEW pl, NEW h, Owned(pl, h) PROVE Apart(HeldIn(pl)) /\ pl \in [Pool -> PoolRec \cup {Null}]
  <1>1. pl \in [Pool -> PoolRec \cup {Null}]
        BY DEF Owned
  <1> SUFFICES ASSUME NEW p \in Pool, NEW q \in Pool, p # q, NEW b \in HeldIn(pl)[p] PROVE b \notin HeldIn(pl)[q]
      BY <1>1 DEF Apart
  <1>2. pl[p] # Null /\ b \in Blocks(pl[p].chain)
        BY AtPool
  <1>3. CASE pl[q] = Null
        BY <1>3, AtPool
  <1>4. CASE pl[q] # Null
    <2>1. b \notin Blocks(pl[q].chain)
          BY <1>2, <1>4 DEF Owned
    <2> QED
        BY <1>4, <2>1, AtPool
  <1> QED
      BY <1>3, <1>4

\* A buffer stays in the pool it is in, whatever is done to this pool alone.
LEMMA StaysIn ==
    ASSUME NEW pl, NEW h, NEW B, NEW pl2, NEW h2, NEW B2, Safe(pl, h, B), Safe(pl2, h2, B2),
           NEW p \in Pool, \A q \in Pool : q # p => pl2[q] = pl[q], NEW b \in B, b \in B2,
           NEW q \in Pool, b.block \in HeldIn(pl)[q]
    PROVE  b.block \in HeldIn(pl2)[q]
  <1>1. Owned(pl, h) /\ Owned(pl2, h2) /\ InUse(pl2, h2, B2)
        BY DEF Safe
  <1>2. pl \in [Pool -> PoolRec \cup {Null}] /\ pl2 \in [Pool -> PoolRec \cup {Null}] /\ Apart(HeldIn(pl))
        BY <1>1, HeldApart
  <1>3. ASSUME NEW r \in Pool, r # p PROVE HeldIn(pl2)[r] = HeldIn(pl)[r]
    <2>1. pl2[r] = pl[r]
          BY <1>3
    <2> QED
        BY <1>3, <2>1, AtSame
  <1>4. PICK r \in Pool : pl2[r] # Null /\ InUseBy(pl2[r], h2, b)
        BY <1>1 DEF InUse
  <1>5. PoolOK(pl2[r], h2)
        BY <1>1, <1>4 DEF Owned
  <1>6. b.block \in Blocks(pl2[r].chain)
        BY <1>4, <1>5, InUseInChain
  <1>7. b.block \in HeldIn(pl2)[r]
        BY <1>4, <1>6, AtPool
  <1>8. CASE q # p
        BY <1>3, <1>8
  <1>9. CASE q = p
    <2>1. CASE r = p
          BY <1>7, <1>9, <2>1
    <2>2. CASE r # p
      <3>1. b.block \in HeldIn(pl)[r]
            BY <1>3, <1>7, <2>2
      <3> QED
          BY <1>2, <1>9, <2>2, <3>1 DEF Apart
    <2> QED
        BY <2>1, <2>2
  <1> QED
      BY <1>8, <1>9

\* Pool p keeps its cleaners, or is new.
LEMMA CensusStay ==
    ASSUME NEW pl, NEW h, NEW B, NEW pl2, NEW h2, NEW B2, Safe(pl, h, B), Safe(pl2, h2, B2),
           NEW ob, NEW st, NEW dd, Census(pl, ob, st, dd, B),
           NEW p \in Pool, \A q \in Pool : q # p => pl2[q] = pl[q], \A b \in B : b \in B2,
           pl2[p] # Null, pl2[p].cleaners = IF pl[p] = Null THEN << >> ELSE pl[p].cleaners
    PROVE  Census(pl2, ob, st, dd, B2)
  <1>1. pl \in [Pool -> PoolRec \cup {Null}] /\ pl2 \in [Pool -> PoolRec \cup {Null}]
        BY HeldApart DEF Safe
  <1>2. Len(<< >>) = 0
        OBVIOUS
  <1>3. \A q \in Pool : NamesIn(pl2)[q] = NamesIn(pl)[q]
    <2>1. \A q \in Pool : q # p => NamesIn(pl2)[q] = NamesIn(pl)[q]
          BY AtSame
    <2>2. CASE pl[p] = Null
      <3>1. Names(pl2[p].cleaners) = << >>
            BY <2>2, NothingNamed
      <3> QED
          BY <2>1, <2>2, <3>1, AtPool
    <2>3. CASE pl[p] # Null
          BY <2>1, <2>3, AtPool
    <2> QED
        BY <2>2, <2>3
  <1>4. \A q \in Pool : pl2[q] # Null => Calls(pl2[q])
        BY <1>2 DEF Census, Calls
  <1>5. \A b \in B : b \in B2 /\ \A q \in Pool : b.block \in HeldIn(pl)[q] => b.block \in HeldIn(pl2)[q]
        BY StaysIn
  <1>6. NamesIn(pl2) \in [Pool -> Seq(Obj)]
        BY <1>1, NamesAndBlocks
  <1>7. Objects(NamesIn(pl2), HeldIn(pl2), ob, st, dd, B2)
        BY <1>3, <1>5, <1>6, ObjectsStay DEF Census
  <1> QED
      BY <1>4, <1>7 DEF Census

\* The contents of pool p ends.
LEMMA CensusEnd ==
    ASSUME NEW pl, NEW h, NEW B, Safe(pl, h, B), NEW ob, NEW st, NEW dd, Census(pl, ob, st, dd, B),
           st = << >>, NEW p \in Pool, pl[p] # Null, NEW pl2 \in [Pool -> PoolRec \cup {Null}],
           \A q \in Pool : q # p => pl2[q] = pl[q], pl2[p] # Null => pl2[p].cleaners = << >>
    PROVE  Census(pl2, ob, st, dd \o Destroyed(pl[p].cleaners), Outlive(B, pl[p].chain))
  <1>1. pl \in [Pool -> PoolRec \cup {Null}] /\ Apart(HeldIn(pl)) /\ pl[p] \in PoolRec
        BY HeldApart DEF Safe
  <1>2. Len(<< >>) = 0
        OBVIOUS
  <1>3. NamesIn(pl2)[p] = << >>
        BY NothingNamed, AtPool
  <1>4. \A q \in Pool : q # p => NamesIn(pl2)[q] = NamesIn(pl)[q] /\ HeldIn(pl2)[q] = HeldIn(pl)[q]
        BY AtSame
  <1>5. \A q \in Pool : pl2[q] # Null => Calls(pl2[q])
        BY <1>2 DEF Census, Calls
  <1>6. NamesIn(pl2) \in [Pool -> Seq(Obj)]
        BY NamesAndBlocks
  <1>7. Destroyed(pl[p].cleaners) = NamesIn(pl)[p]
    <2>1. PICK cl \in Seq(CleanerRec) : cl = pl[p].cleaners
          BY <1>1, Fields
    <2>2. \A i \in 1..Len(cl) : cl[i].destructor
          BY <2>1 DEF Census, Calls
    <2>3. Destroyed(cl) = Names(cl)
          BY <2>1, <2>2, AllCalled
    <2> QED
        BY <2>1, <2>3, AtPool
  <1>8. \A b \in B : b.block \notin HeldIn(pl)[p] => b \in Outlive(B, pl[p].chain)
        BY AtPool DEF Outlive
  <1>9. PICK N, C, N2, C2 : N = NamesIn(pl) /\ C = HeldIn(pl) /\ N2 = NamesIn(pl2) /\ C2 = HeldIn(pl2)
        OBVIOUS
  <1>10. PICK dd2, B2 : dd2 = dd \o N[p] /\ B2 = Outlive(B, pl[p].chain)
         OBVIOUS
  <1>11. /\ Objects(N, C, ob, st, dd, B) /\ Apart(C) /\ N2 \in [Pool -> Seq(Obj)] /\ N2[p] = << >>
         /\ \A q \in Pool : q # p => N2[q] = N[q] /\ C2[q] = C[q]
         /\ \A b \in B : b.block \notin C[p] => b \in B2
         /\ dd2 = dd \o N[p]
         BY <1>1, <1>3, <1>4, <1>6, <1>8, <1>9, <1>10 DEF Census
  <1>12. Objects(N2, C2, ob, st, dd2, B2)
         BY <1>11, ObjectsEnd
  <1> QED
      BY <1>5, <1>7, <1>9, <1>10, <1>12 DEF Census

\* Pool p, which has nothing, takes what q has.
LEMMA CensusMove ==
    ASSUME NEW pl \in [Pool -> PoolRec \cup {Null}], NEW ob, NEW st, NEW dd, NEW B, Census(pl, ob, st, dd, B),
           NEW p \in Pool, NEW q \in Pool, p # q, pl[p] # Null => pl[p].cleaners = << >>, pl[q] # Null,
           NEW pl2 \in [Pool -> PoolRec \cup {Null}], pl2[p] = pl[q], pl2[q] = MovedFrom(pl[q]),
           \A r \in Pool : r # p /\ r # q => pl2[r] = pl[r]
    PROVE  Census(pl2, ob, st, dd, B)
  <1>1. Len(<< >>) = 0
        OBVIOUS
  <1>2. MovedFrom(pl[q]).cleaners = << >>
        BY DEF MovedFrom, EmptyPool
  <1>3. PICK N, C, N2, C2 : N = NamesIn(pl) /\ C = HeldIn(pl) /\ N2 = NamesIn(pl2) /\ C2 = HeldIn(pl2)
        OBVIOUS
  <1>4. N[p] = << >> /\ N2[q] = << >>
        BY <1>2, <1>3, NothingNamed, AtPool
  <1>5. N2[p] = N[q] /\ C2[p] = C[q]
        BY <1>3, AtSame
  <1>6. \A r \in Pool : r # p /\ r # q => N2[r] = N[r] /\ C2[r] = C[r]
        BY <1>3, AtSame
  <1>7. Objects(NamesIn(pl2), HeldIn(pl2), ob, st, dd, B)
    <2>1. N2 \in [Pool -> Seq(Obj)] /\ Objects(N, C, ob, st, dd, B)
          BY <1>3, NamesAndBlocks DEF Census
    <2>2. Moved(N, C, p, q, N2, C2)
          BY <1>4, <1>5, <1>6 DEF Moved
    <2>3. Objects(N2, C2, ob, st, dd, B)
          BY <2>1, <2>2, ObjectsMove
    <2> QED
        BY <1>3, <2>3
  <1>8. Calls(MovedFrom(pl[q]))
        BY <1>1, <1>2 DEF Calls
  <1>9. \A r \in Pool : pl2[r] # Null => Calls(pl2[r])
        BY <1>8 DEF Census
  <1> QED
      BY <1>7, <1>9 DEF Census

LEMMA NamesAppend ==
    ASSUME NEW cl \in Seq(CleanerRec), NEW o \in Obj, NEW cl2, cl2 = Append(cl, Cleaner(o))
    PROVE  /\ Names(cl2) = Append(Names(cl), o)
           /\ (\A i \in 1..Len(cl) : cl[i].destructor) => \A i \in 1..Len(cl2) : cl2[i].destructor
  <1>1. PICK c \in CleanerRec : c = Cleaner(o) /\ c.destructor = TRUE /\ c.pointer = o
    <2>1. Cleaner(o) \in CleanerRec /\ Cleaner(o).destructor = TRUE /\ Cleaner(o).pointer = o
          BY DEF Cleaner, CleanerRec
    <2> QED
        BY <2>1
  <1>2. cl2 \in Seq(CleanerRec) /\ Len(cl2) = Len(cl) + 1 /\ Len(cl) \in Nat
        BY <1>1, AppendProperties
  <1>3. (\A i \in 1..Len(cl) : cl2[i] = cl[i]) /\ cl2[Len(cl) + 1] = c
        BY <1>1, AppendProperties
  <1>4. \A i \in 1..Len(cl2) : i \in 1..Len(cl) \/ i = Len(cl) + 1
        BY <1>2
  <1>5. \A s \in Seq(CleanerRec) : /\ Names(s) \in Seq(Obj) /\ Len(Names(s)) = Len(s) /\ Len(s) \in Nat
                                   /\ \A i \in 1..Len(s) : Names(s)[i] = s[i].pointer
    <2> SUFFICES ASSUME NEW s \in Seq(CleanerRec)
                 PROVE  /\ Names(s) \in Seq(Obj) /\ Len(Names(s)) = Len(s) /\ Len(s) \in Nat
                        /\ \A i \in 1..Len(s) : Names(s)[i] = s[i].pointer
        OBVIOUS
    <2>1. Len(s) \in Nat /\ \A i \in 1..Len(s) : s[i] \in CleanerRec
          OBVIOUS
    <2>2. \A i \in 1..Len(s) : s[i].pointer \in Obj
          BY <2>1 DEF CleanerRec
    <2>3. Names(s) \in [1..Len(s) -> Obj] /\ \A i \in 1..Len(s) : Names(s)[i] = s[i].pointer
          BY <2>2 DEF Names
    <2> QED
        BY <2>1, <2>3
  <1>6. PICK n, m : n = Names(cl) /\ m = Names(cl2)
        OBVIOUS
  <1>7. /\ n \in Seq(Obj) /\ Len(n) = Len(cl) /\ m \in Seq(Obj) /\ Len(m) = Len(cl) + 1
        /\ \A i \in 1..Len(cl) : n[i] = cl[i].pointer
        BY <1>2, <1>5, <1>6
  <1>8. \A i \in 1..Len(cl2) : m[i] = cl2[i].pointer
        BY <1>2, <1>5, <1>6
  <1>9. (\A i \in 1..Len(cl) : m[i] = n[i]) /\ m[Len(cl) + 1] = o
    <2>1. Len(cl) + 1 \in 1..Len(cl2) /\ \A i \in 1..Len(cl) : i \in 1..Len(cl2)
          BY <1>2
    <2> QED
        BY SMTT(20), <1>1, <1>3, <1>7, <1>8, <2>1
  <1>10. m = Append(n, o)
    <2>1. Append(n, o) \in Seq(Obj) /\ Len(Append(n, o)) = Len(cl) + 1
          BY <1>7, AppendProperties
    <2>2. \A i \in 1..(Len(cl) + 1) : Append(n, o)[i] = m[i]
          BY <1>2, <1>7, <1>9, AppendProperties
    <2> QED
        BY <1>7, <2>1, <2>2, SeqEqual
  <1>11. ASSUME \A i \in 1..Len(cl) : cl[i].destructor, NEW i \in 1..Len(cl2) PROVE cl2[i].destructor
    <2>1. CASE i \in 1..Len(cl)
          BY <1>3, <1>11, <2>1
    <2>2. CASE i = Len(cl) + 1
          BY <1>1, <1>3, <2>2
    <2> QED
        BY <1>4, <1>11, <2>1, <2>2
  <1> QED
      BY <1>6, <1>10, <1>11

\* Pool p gets a cleaner for a new object in one of its buffers.
LEMMA CensusAdd ==
    ASSUME NEW pl \in [Pool -> PoolRec \cup {Null}], NEW ob, NEW st, NEW dd, NEW B, Census(pl, ob, st, dd, B),
           NEW p \in Pool, pl[p] # Null, NEW o \in Obj, ob[o].st = "none",
           NEW pl2 \in [Pool -> PoolRec \cup {Null}], pl2[p] # Null,
           pl2[p].cleaners = Append(pl[p].cleaners, Cleaner(o)), pl2[p].chain = pl[p].chain,
           \A q \in Pool : q # p => pl2[q] = pl[q],
           NEW x \in ObjRec, x.st # "none", x.buf \in B, x.buf.block \in Blocks(pl[p].chain),
           x.parent = Null \/ x.parent \in Blocks(NamesIn(pl)[p]),
           NEW ob2, ob2 = [ob EXCEPT ![o] = x], NEW st2, st2 = st \/ st2 = Append(st, o)
    PROVE  Census(pl2, ob2, st2, dd, B)
  <1>1. pl[p] \in PoolRec
        OBVIOUS
  <1>2. PICK N, C, N2, C2 : N = NamesIn(pl) /\ C = HeldIn(pl) /\ N2 = NamesIn(pl2) /\ C2 = HeldIn(pl2)
        OBVIOUS
  <1>3. PICK cl \in Seq(CleanerRec) : cl = pl[p].cleaners
        BY <1>1, Fields
  <1>4. PICK cl2 : cl2 = Append(cl, Cleaner(o))
        OBVIOUS
  <1>5. /\ Names(cl2) = Append(Names(cl), o)
        /\ (\A i \in 1..Len(cl) : cl[i].destructor) => \A i \in 1..Len(cl2) : cl2[i].destructor
        BY <1>3, <1>4, NamesAppend
  <1>6. pl2[p].cleaners = cl2
        BY <1>3, <1>4
  <1>7. Calls(pl2[p])
        BY <1>3, <1>5, <1>6 DEF Census, Calls
  <1>8. \A q \in Pool : pl2[q] # Null => Calls(pl2[q])
        BY <1>7 DEF Census
  <1>9. N2[p] = Append(N[p], o)
    <2>1. N2[p] = Names(cl2)
          BY <1>2, <1>6, AtPool
    <2>2. N[p] = Names(cl)
          BY <1>2, <1>3, AtPool
    <2> QED
        BY <1>5, <2>1, <2>2
  <1>10. \A q \in Pool : q # p => N2[q] = N[q] /\ C2[q] = C[q]
    <2> SUFFICES ASSUME NEW q \in Pool, q # p PROVE N2[q] = N[q] /\ C2[q] = C[q]
        OBVIOUS
    <2>1. pl2[q] = pl[q]
          OBVIOUS
    <2>2. NamesIn(pl2)[q] = NamesIn(pl)[q] /\ HeldIn(pl2)[q] = HeldIn(pl)[q]
          BY <2>1 DEF NamesIn, HeldIn
    <2> QED
        BY <1>2, <2>2
  <1>11. C[p] = Blocks(pl[p].chain) /\ C2[p] = C[p]
    <2>1. C[p] = Blocks(pl[p].chain)
          BY <1>2, AtPool
    <2>2. C2[p] = Blocks(pl2[p].chain)
          BY <1>2, AtPool
    <2> QED
        BY <2>1, <2>2
  <1>12. N2 \in [Pool -> Seq(Obj)] /\ Objects(N, C, ob, st, dd, B)
         BY <1>2, NamesAndBlocks DEF Census
  <1>13. x.buf.block \in C[p] /\ (x.parent = Null \/ x.parent \in Blocks(N[p]))
         BY <1>2, <1>11
  <1>14. \A q \in Pool : q # p => N2[q] = N[q]
         BY <1>10
  <1>15. Objects(N2, C, ob2, st2, dd, B)
         BY ZenonT(40), <1>9, <1>12, <1>13, <1>14, ObjectsAdd
  <1>16. \A b \in B : b \in B /\ \A q \in Pool : b.block \in C[q] => b.block \in C2[q]
         BY <1>10, <1>11
  <1>17. Objects(N2, C2, ob2, st2, dd, B)
         BY <1>12, <1>15, <1>16, ObjectsStay
  <1> QED
      BY <1>2, <1>8, <1>17 DEF Census

\* What is made inside of a constructor is made in the pool of its object.
LEMMA ParentNamed ==
    ASSUME NEW pl, NEW h, NEW B, Safe(pl, h, B), NEW ob, NEW st, NEW dd, Census(pl, ob, st, dd, B),
           NEW p \in Pool, pl[p] # Null, st # << >>, ob[Last(st)].buf.block \in Blocks(pl[p].chain)
    PROVE  Last(st) \in Blocks(NamesIn(pl)[p]) /\ Last(st) \in Obj
  <1>1. PICK N, C : N = NamesIn(pl) /\ C = HeldIn(pl)
        OBVIOUS
  <1>2. Objects(N, C, ob, st, dd, B) /\ Apart(C)
        BY <1>1, HeldApart DEF Safe, Census
  <1>3. st \in Seq(Obj) /\ N \in [Pool -> Seq(Obj)]
        BY <1>2 DEF Objects, Typed
  <1>4. PICK o : o = st[Len(st)]
        OBVIOUS
  <1>5. Len(st) \in 1..Len(st) /\ Last(st) = o /\ o \in Obj
        BY <1>3, <1>4 DEF Last
  <1>6. ob[o].st # "none" /\ o \notin Blocks(dd)
        BY <1>2, <1>4, <1>5 DEF Objects, Stacked
  <1>7. PICK q \in Pool : o \in Blocks(N[q])
        BY <1>2, <1>5, <1>6 DEF Objects, AllKnown, Known
  <1>8. N[q] \in Seq(Obj)
        BY <1>3, <1>7
  <1>9. PICK i \in 1..Len(N[q]) : N[q][i] = o
        BY <1>7, <1>8, ObjBlocks
  <1>10. ob[o].buf.block \in C[q]
         BY <1>2, <1>7, <1>9 DEF Objects, Standing, Stands
  <1>11. ob[o].buf.block \in C[p]
         BY <1>1, <1>5, AtPool
  <1>12. q = p
         BY <1>2, <1>7, <1>10, <1>11 DEF Apart
  <1> QED
      BY <1>1, <1>5, <1>7, <1>12
--------------------------------------------------------------------------------
(* The objects, step by step *)

LEMMA PoolTyped == PoolInv => pool \in [Pool -> PoolRec \cup {Null}]
  BY DEF PoolInv, Safe, Owned

\* A step that changes pool p, keeps its cleaners and ends no buffer.
LEMMA StepStays ==
    ASSUME PoolInv, PoolInv', ObjInv, NEW p \in Pool, NEW Q \in PoolRec,
           Q.cleaners = IF pool[p] = Null THEN << >> ELSE pool[p].cleaners,
           pool' = [pool EXCEPT ![p] = Q], \A b \in bufs : b \in bufs', UNCHANGED <<obj, stack, died>>
    PROVE  ObjInv'
  <1>1. pool \in [Pool -> PoolRec \cup {Null}]
        BY PoolTyped
  <1>2. PICK pl, h, B : pl = pool' /\ h = heap' /\ B = bufs'
        OBVIOUS
  <1>3. pl[p] = Q /\ \A q \in Pool : q # p => pl[q] = pool[q]
        BY <1>1, <1>2
  <1>4. Safe(pool, heap, bufs) /\ Safe(pl, h, B)
        BY <1>2 DEF PoolInv
  <1>5. pl[p] # Null /\ pl[p].cleaners = IF pool[p] = Null THEN << >> ELSE pool[p].cleaners
        BY <1>3, NotNull
  <1>6. \A b \in bufs : b \in B
        BY <1>2
  <1>7. Census(pl, obj, stack, died, B)
        BY <1>3, <1>4, <1>5, <1>6, CensusStay DEF ObjInv
  <1> QED
      BY <1>2, <1>7 DEF ObjInv

\* A step that ends the contents of pool p.
LEMMA StepEnds ==
    ASSUME PoolInv, ObjInv, NEW p \in Live, stack = << >>, NEW Q,
           Q = Null \/ (Q \in PoolRec /\ Q.cleaners = << >>), pool' = [pool EXCEPT ![p] = Q],
           died' = died \o Destroyed(pool[p].cleaners), bufs' = Outlive(bufs, pool[p].chain),
           UNCHANGED <<obj, stack>>
    PROVE  ObjInv'
  <1>1. pool \in [Pool -> PoolRec \cup {Null}] /\ p \in Pool /\ pool[p] # Null
        BY PoolTyped DEF Live
  <1>2. PICK pl : pl = pool'
        OBVIOUS
  <1>3. /\ pl \in [Pool -> PoolRec \cup {Null}] /\ (pl[p] # Null => pl[p].cleaners = << >>)
        /\ \A q \in Pool : q # p => pl[q] = pool[q]
        BY <1>1, <1>2
  <1>4. Census(pl, obj, stack, died \o Destroyed(pool[p].cleaners), Outlive(bufs, pool[p].chain))
        BY <1>1, <1>3, CensusEnd DEF ObjInv, PoolInv
  <1> QED
      BY <1>2, <1>4 DEF ObjInv

LEMMA InitObjInv == Init => ObjInv
  <1> SUFFICES ASSUME Init PROVE ObjInv
      OBVIOUS
  <1>1. pool \in [Pool -> PoolRec \cup {Null}] /\ \A p \in Pool : pool[p] = Null
        BY DEF Init
  <1>2. PICK N, C : N = NamesIn(pool) /\ C = HeldIn(pool)
        OBVIOUS
  <1>3. N \in [Pool -> Seq(Obj)] /\ \A p \in Pool : N[p] = << >>
        BY <1>1, <1>2, NamesAndBlocks, AtPool
  <1>4. obj \in [Obj -> ObjRec] /\ \A o \in Obj : obj[o].st = "none"
        BY DEF Init, NoObj, ObjRec
  <1>5. stack = << >> /\ died = << >> /\ Len(<< >>) = 0
        BY DEF Init
  <1>6. Typed(N, obj, stack, died)
        BY <1>3, <1>4, <1>5 DEF Typed
  <1>7. Standing(N, C, obj, died, bufs) /\ AllKnown(N, obj, died)
        BY <1>3, <1>4 DEF Standing, AllKnown
  <1>8. Once(<< >>) /\ ParentsEarlier(<< >>, obj)
        BY DEF Once, ParentsEarlier
  <1>9. Ordered(N, obj, died)
        BY <1>3, <1>5, <1>8 DEF Ordered
  <1>10. Past(obj, died) /\ Stacked(obj, stack, died)
         BY <1>5 DEF Past, Stacked
  <1>11. Objects(N, C, obj, stack, died, bufs)
         BY <1>6, <1>7, <1>9, <1>10 DEF Objects
  <1> QED
      BY <1>1, <1>2, <1>11 DEF ObjInv, Census

LEMMA ConstructObjInv ==
    ASSUME PoolInv, PoolInv', ObjInv, NEW p \in Pool, NEW s \in BlockSizes, Construct(p, s) PROVE ObjInv'
  <1>1. PICK Q : Q = EmptyPool(BlockSizeFor(s))
        OBVIOUS
  <1>2. /\ pool' = [pool EXCEPT ![p] = Q] /\ bufs' = bufs /\ pool[p] = Null /\ UNCHANGED <<obj, stack, died>>
        BY <1>1 DEF Construct, Live
  <1>3. Q.cleaners = << >>
        BY <1>1 DEF EmptyPool
  <1>4. Q \in PoolRec
    <2>1. BlockSizeFor(s) \in Nat
          BY PoolAssumption, BlockSizeForNat
    <2> QED
        BY <1>1, <2>1, EmptyPoolOK DEF PoolOK
  <1> QED
      BY <1>2, <1>3, <1>4, StepStays

LEMMA SetBlockSizeObjInv ==
    ASSUME PoolInv, PoolInv', ObjInv, NEW p \in Pool, NEW s \in BlockSizes, SetBlockSize(p, s) PROVE ObjInv'
  <1>1. /\ p \in Live /\ bufs' = bufs /\ pool' = [pool EXCEPT ![p].bs = BlockSizeFor(s)]
        /\ UNCHANGED <<obj, stack, died>>
        BY DEF SetBlockSize, Outside
  <1>2. PICK n \in Nat : n = BlockSizeFor(s)
        BY PoolAssumption, BlockSizeForNat
  <1>3. PICK Q : Q = [pool[p] EXCEPT !.bs = n]
        OBVIOUS
  <1>4. pool[p] \in PoolRec /\ pool[p] # Null
        BY <1>1, LivePool
  <1>5. Q \in PoolRec /\ Q.cleaners = pool[p].cleaners
        BY <1>2, <1>3, <1>4 DEF PoolRec
  <1>6. pool' = [pool EXCEPT ![p] = Q]
        BY <1>1, <1>2, <1>3
  <1> QED
      BY <1>1, <1>4, <1>5, <1>6, StepStays

LEMMA GiveObjInv ==
    ASSUME PoolInv, PoolInv', ObjInv, NEW p \in Live, NEW size, NEW a, NEW r,
           Granted(pool[p], heap, r, size), Give(p, r, size, a)
    PROVE  ObjInv'
  <1>1. p \in Pool /\ pool[p] # Null
        BY LivePool
  <1>2. PICK Q \in PoolRec : Q = r.P /\ Q.cleaners = pool[p].cleaners
        BY DEF Granted, PoolOK
  <1>3. pool' = [pool EXCEPT ![p] = Q] /\ (\A b \in bufs : b \in bufs') /\ UNCHANGED <<obj, stack, died>>
        BY <1>2 DEF Give
  <1> QED
      BY <1>1, <1>2, <1>3, StepStays

LEMMA CreateBufferObjInv ==
    ASSUME PoolInv, PoolInv', ObjInv, NEW p \in Pool, NEW size \in Sizes, NEW a \in NativeAligns,
           CreateBuffer(p, size, a)
    PROVE  ObjInv'
  <1>1. PICK r : r = CreateBufferInternal(pool[p], heap, size, a)
        OBVIOUS
  <1>2. p \in Live /\ HasRoom(p) /\ Give(p, r, size, a) /\ size \in Nat
        BY <1>1, PoolAssumption DEF CreateBuffer, MayCreate
  <1>3. Granted(pool[p], heap, r, size)
        BY <1>1, <1>2, NativeGranted
  <1> QED
      BY <1>2, <1>3, GiveObjInv

LEMMA CreateBigAlignedObjInv ==
    ASSUME PoolInv, PoolInv', ObjInv, NEW p \in Pool, NEW size \in Sizes, NEW a \in BigAligns,
           CreateBigAligned(p, size, a)
    PROVE  ObjInv'
  <1>1. PICK r : r = CreateAlignedBuffer(pool[p], heap, size, a)
        OBVIOUS
  <1>2. p \in Live /\ HasRoom(p) /\ Give(p, r, size, a) /\ size \in Nat
        BY <1>1, PoolAssumption DEF CreateBigAligned, MayCreate
  <1>3. Granted(pool[p], heap, r, size)
        BY <1>1, <1>2, BigGranted
  <1> QED
      BY <1>2, <1>3, GiveObjInv

LEMMA StutterObjInv == ObjInv /\ UNCHANGED vars => ObjInv'
  BY DEF ObjInv, vars

LEMMA CreateCStringObjInv ==
    ASSUME PoolInv, PoolInv', ObjInv, NEW p \in Pool, NEW n \in Lengths, CreateCString(p, n) PROVE ObjInv'
  <1>1. p \in Live /\ HasRoom(p)
        BY DEF CreateCString, MayCreate
  <1>2. CASE UNCHANGED vars
        BY <1>2, StutterObjInv
  <1>3. CASE n # 0 /\ Give(p, CreateBufferInternal(pool[p], heap, n + 1, 1), n + 1, 1)
    <2>1. PICK size \in Nat : size = n + 1
      <3>1. n + 1 \in Nat
            BY PoolAssumption
      <3> QED
          BY <3>1
    <2>2. PICK r : r = CreateBufferInternal(pool[p], heap, size, 1)
          OBVIOUS
    <2>3. Granted(pool[p], heap, r, size)
          BY <1>1, <2>1, <2>2, LivePool, RoomIsFor, BufferGranted
    <2>4. Give(p, r, size, 1)
          BY <1>3, <2>1, <2>2
    <2> QED
        BY <1>1, <2>3, <2>4, GiveObjInv
  <1> QED
      BY <1>2, <1>3 DEF CreateCString

LEMMA EmplaceKeepsDied ==
    ASSUME NEW p, NEW P \in PoolRec, NEW o, EmplaceBack(p, P, o), died \in Seq(Obj) PROVE died' = died
  <1>1. Destroyed([i \in DOMAIN P.cleaners |-> Husk(P.cleaners[i])]) = << >>
        BY Fields, HusksDie
  <1>2. died \o << >> = died
        BY ConcatEmptySeq
  <1> QED
      BY <1>1, <1>2 DEF EmplaceBack

LEMMA CreateObjectObjInv ==
    ASSUME PoolInv, PoolInv', ObjInv, NEW p \in Pool, NEW o \in Obj, NEW a \in NativeAligns \cup BigAligns,
           CreateObject(p, o, a)
    PROVE  ObjInv'
  <1>1. PICK r : r = IF a \in NativeAligns THEN CreateBufferInternal(pool[p], heap, ObjSize, a)
                     ELSE CreateAlignedBuffer(pool[p], heap, ObjSize, a)
        OBVIOUS
  <1>2. PICK b : b = Buffer(r, ObjSize, a)
        OBVIOUS
  <1>3. PICK x : x = [st |-> "building", parent |-> IF stack = << >> THEN Null ELSE Last(stack), buf |-> b]
        OBVIOUS
  <1>4. /\ p \in Live /\ HasRoom(p) /\ bufs' = bufs \cup {b} /\ EmplaceBack(p, r.P, o) /\ obj[o].st = "none"
        /\ obj' = [obj EXCEPT ![o] = x] /\ stack' = Append(stack, o)
        /\ stack # << >> => obj[Last(stack)].buf.block \in Blocks(pool[p].chain)
        BY <1>1, <1>2, <1>3 DEF CreateObject, MayCreate
  <1>5. Granted(pool[p], heap, r, ObjSize) /\ Aligned(BaseOf[r.block] + r.lo, a)
        BY <1>1, <1>4, ObjectGranted
  <1>6. PICK P \in PoolRec : P = r.P /\ P.cleaners = pool[p].cleaners
        BY <1>5 DEF Granted, PoolOK
  <1>7. PICK pl : pl = [pool EXCEPT ![p] = P]
        OBVIOUS
  <1>8. PICK B : B = bufs'
        OBVIOUS
  <1>9. pool \in [Pool -> PoolRec \cup {Null}] /\ pool[p] # Null /\ P # Null
        BY <1>4, <1>6, PoolTyped, NotNull DEF Live
  <1>10. pl \in [Pool -> PoolRec \cup {Null}] /\ pl[p] = P /\ \A q \in Pool : q # p => pl[q] = pool[q]
         BY <1>6, <1>7, <1>9
  <1>11. Safe(pl, r.heap, B)
    <2>1. PICK size \in Nat \ {0} : size = ObjSize
          BY PoolAssumption
    <2>2. a \in Nat
          BY PoolAssumption
    <2>3. SameBlocks(r.P, P)
          BY <1>6, SameBlocksSelf
    <2>4. Granted(pool[p], heap, r, size) /\ B = bufs \cup {Buffer(r, size, a)}
          BY <1>2, <1>4, <1>5, <1>8, <2>1
    <2>5. Safe(pl, r.heap, bufs \cup {Buffer(r, size, a)})
          BY <1>5, <1>7, <1>9, <2>1, <2>2, <2>3, <2>4, SafeWithBuffer DEF PoolInv
    <2> QED
        BY <2>4, <2>5
  <1>12. Census(pl, obj, stack, died, B)
    <2>1. \A c \in bufs : c \in B
          BY <1>4, <1>8
    <2>2. pl[p] # Null /\ pl[p].cleaners = IF pool[p] = Null THEN << >> ELSE pool[p].cleaners
          BY <1>6, <1>9, <1>10
    <2>3. Safe(pool, heap, bufs) /\ Census(pool, obj, stack, died, bufs)
          BY DEF PoolInv, ObjInv
    <2>4. PICK g : g = r.heap
          OBVIOUS
    <2>5. Safe(pl, g, B)
          BY <1>11, <2>4
    <2> QED
        BY <1>10, <2>1, <2>2, <2>3, <2>5, CensusStay
  <1>13. stack # << >> => Last(stack) \in Obj /\ Last(stack) \in Blocks(NamesIn(pl)[p])
    <2> SUFFICES ASSUME stack # << >> PROVE Last(stack) \in Obj /\ Last(stack) \in Blocks(NamesIn(pl)[p])
        OBVIOUS
    <2>1. Last(stack) \in Blocks(NamesIn(pool)[p]) /\ Last(stack) \in Obj
          BY <1>4, <1>9, ParentNamed DEF PoolInv, ObjInv
    <2>2. NamesIn(pl)[p] = Names(P.cleaners)
          BY <1>9, <1>10, AtPool
    <2>3. NamesIn(pool)[p] = Names(pool[p].cleaners)
          BY <1>9, AtPool
    <2> QED
        BY <1>6, <2>1, <2>2, <2>3
  <1>14. b \in BufferRec /\ b \in B /\ b.block \in Blocks(pl[p].chain)
    <2>1. b \in B
          BY <1>4, <1>8
    <2>2. b \in BufferRec
          BY <1>11, <2>1 DEF Safe, InUse
    <2>3. b.block = r.block /\ r.block \in Blocks(r.P.chain)
          BY <1>2, <1>5, GrantedBlock DEF Buffer
    <2> QED
        BY <1>6, <1>10, <2>1, <2>2, <2>3
  <1>15. /\ x \in ObjRec /\ x.st # "none" /\ x.buf \in B /\ x.buf.block \in Blocks(pl[p].chain)
         /\ x.parent = Null \/ x.parent \in Blocks(NamesIn(pl)[p])
    <2>1. PICK m \in Obj \cup {Null} : m = IF stack = << >> THEN Null ELSE Last(stack)
          BY <1>13
    <2>2. x = [st |-> "building", parent |-> m, buf |-> b]
          BY <1>3, <2>1
    <2>3. x \in ObjRec /\ x.st = "building" /\ x.parent = m /\ x.buf = b
          BY <1>14, <2>1, <2>2 DEF ObjRec
    <2>4. m = Null \/ m \in Blocks(NamesIn(pl)[p])
          BY <1>13, <2>1
    <2>5. x.st # "none"
          BY <2>3
    <2> QED
        BY <1>14, <2>3, <2>4, <2>5
  <1>16. PICK Q : Q = [P EXCEPT !.cleaners = Append(@, Cleaner(o))]
         OBVIOUS
  <1>17. Q \in PoolRec /\ Q # Null /\ Q.chain = P.chain /\ Q.cleaners = Append(P.cleaners, Cleaner(o))
    <2>1. SameBlocks(P, Q) /\ Q.cleaners = Append(P.cleaners, Cleaner(o))
          BY <1>6, <1>16, SameBlocksCleaners
    <2> QED
        BY <2>1, NotNull DEF SameBlocks
  <1>18. PICK pl2 : pl2 = pool'
         OBVIOUS
  <1>19. pl2 = [pool EXCEPT ![p] = Q]
         BY <1>4, <1>6, <1>16, <1>18 DEF EmplaceBack
  <1>20. pl2 \in [Pool -> PoolRec \cup {Null}] /\ pl2[p] = Q /\ \A q \in Pool : q # p => pl2[q] = pl[q]
         BY <1>9, <1>10, <1>17, <1>19
  <1>21. PICK ob2, st2 : ob2 = obj' /\ st2 = stack'
         OBVIOUS
  <1>22. Census(pl2, ob2, st2, died, B)
    <2>1. pl[p] # Null /\ pl2[p] # Null /\ pl2[p].chain = pl[p].chain
          BY <1>9, <1>10, <1>17, <1>20
    <2>2. pl2[p].cleaners = Append(pl[p].cleaners, Cleaner(o))
          BY <1>10, <1>17, <1>20
    <2>3. ob2 = [obj EXCEPT ![o] = x] /\ (st2 = stack \/ st2 = Append(stack, o)) /\ obj[o].st = "none"
          BY <1>4, <1>21
    <2> QED
        BY <1>10, <1>12, <1>15, <1>20, <2>1, <2>2, <2>3, CensusAdd
  <1>23. died' = died
    <2>1. died \in Seq(Obj)
          BY DEF ObjInv, Census, Objects, Typed
    <2> QED
        BY <1>4, <1>6, <2>1, EmplaceKeepsDied
  <1> QED
      BY <1>8, <1>18, <1>21, <1>22, <1>23 DEF ObjInv

LEMMA RegisterDestructorObjInv ==
    ASSUME PoolInv, PoolInv', ObjInv, NEW p \in Pool, NEW o \in Obj, RegisterDestructor(p, o) PROVE ObjInv'
  <1>1. PICK b \in bufs : /\ b.block \in Blocks(pool[p].chain)
                          /\ obj' = [obj EXCEPT ![o] = [st |-> "built", parent |-> Null, buf |-> b]]
        BY DEF RegisterDestructor
  <1>2. PICK x : x = [st |-> "built", parent |-> Null, buf |-> b]
        OBVIOUS
  <1>3. PICK Q : Q = [pool[p] EXCEPT !.cleaners = Append(@, Cleaner(o))]
        OBVIOUS
  <1>4. /\ p \in Live /\ bufs' = bufs /\ stack' = stack /\ obj[o].st = "none" /\ EmplaceBack(p, pool[p], o)
        /\ pool' = [pool EXCEPT ![p] = Q] /\ obj' = [obj EXCEPT ![o] = x]
        BY <1>1, <1>2, <1>3 DEF RegisterDestructor, EmplaceBack
  <1>5. pool[p] \in PoolRec /\ pool[p] # Null /\ pool \in [Pool -> PoolRec \cup {Null}]
        BY <1>4, LivePool, PoolTyped
  <1>6. Q \in PoolRec /\ Q # Null /\ Q.chain = pool[p].chain /\ Q.cleaners = Append(pool[p].cleaners, Cleaner(o))
        BY <1>3, <1>5, SameBlocksCleaners, NotNull DEF SameBlocks
  <1>7. PICK pl2, ob2 : pl2 = pool' /\ ob2 = obj'
        OBVIOUS
  <1>8. pl2 \in [Pool -> PoolRec \cup {Null}] /\ pl2[p] = Q /\ \A q \in Pool : q # p => pl2[q] = pool[q]
        BY <1>4, <1>5, <1>6, <1>7
  <1>9. b \in BufferRec
        BY <1>1 DEF PoolInv, Safe, InUse
  <1>10. /\ x \in ObjRec /\ x.st # "none" /\ x.buf \in bufs /\ x.buf.block \in Blocks(pool[p].chain)
         /\ x.parent = Null
         BY <1>1, <1>2, <1>9 DEF ObjRec
  <1>11. Census(pl2, ob2, stack, died, bufs)
    <2>1. pl2[p] # Null /\ pl2[p].chain = pool[p].chain /\ pl2[p].cleaners = Append(pool[p].cleaners, Cleaner(o))
          BY <1>6, <1>8
    <2>2. ob2 = [obj EXCEPT ![o] = x] /\ obj[o].st = "none"
          BY <1>4, <1>7
    <2> QED
        BY <1>5, <1>8, <1>10, <2>1, <2>2, CensusAdd DEF ObjInv
  <1>12. died' = died
    <2>1. died \in Seq(Obj)
          BY DEF ObjInv, Census, Objects, Typed
    <2> QED
        BY <1>4, <1>5, <2>1, EmplaceKeepsDied
  <1> QED
      BY <1>4, <1>7, <1>11, <1>12 DEF ObjInv

LEMMA ConstructedObjInv ==
    ASSUME ObjInv, Constructed PROVE ObjInv'
  <1>1. PICK s \in {"built", "failed"} : obj' = [obj EXCEPT ![Last(stack)].st = s]
        BY DEF Constructed
  <1>2. /\ stack # << >> /\ stack' = SubSeq(stack, 1, Len(stack) - 1)
        /\ pool' = pool /\ bufs' = bufs /\ died' = died
        BY DEF Constructed, Front
  <1>3. Objects(NamesIn(pool), HeldIn(pool), obj, stack, died, bufs)
        BY DEF ObjInv, Census
  <1>4. obj \in [Obj -> ObjRec] /\ stack \in Seq(Obj)
        BY <1>3 DEF Objects, Typed
  <1>5. PICK o : o = Last(stack)
        OBVIOUS
  <1>6. o \in Obj /\ obj[o].st # "none"
    <2>1. Len(stack) \in 1..Len(stack) /\ o = stack[Len(stack)]
          BY <1>2, <1>4, <1>5 DEF Last
    <2> QED
        BY <1>3, <1>4, <2>1 DEF Objects, Stacked
  <1>7. PICK ob2, st2 : ob2 = obj' /\ st2 = stack'
        OBVIOUS
  <1>8. PICK x : x = [obj[o] EXCEPT !.st = s]
        OBVIOUS
  <1>9. x \in ObjRec /\ x.st # "none" /\ x.parent = obj[o].parent /\ x.buf = obj[o].buf
    <2>1. obj[o] \in ObjRec
          BY <1>4, <1>6
    <2> QED
        BY <1>1, <1>8, <2>1 DEF ObjRec
  <1>10. ob2 = [obj EXCEPT ![o] = x]
         BY <1>1, <1>5, <1>7, <1>8
  <1>11. ob2 \in [Obj -> ObjRec] /\ ob2[o] = x /\ \A y \in Obj : y # o => ob2[y] = obj[y]
         BY <1>4, <1>6, <1>9, <1>10
  <1>12. \A y \in Obj : /\ ob2[y].parent = obj[y].parent /\ ob2[y].buf = obj[y].buf
                        /\ ob2[y].st = "none" <=> obj[y].st = "none"
         BY <1>6, <1>9, <1>11
  <1>13. st2 \in Seq(Obj) /\ \A y \in Blocks(st2) : y \in Blocks(stack)
    <2>1. Len(stack) \in Nat \ {0}
          BY <1>2, <1>4
    <2>2. /\ st2 \in Seq(Obj) /\ Len(st2) = Len(stack) - 1
          /\ \A i \in 1..(Len(stack) - 1) : st2[i] = stack[i]
      <3>1. PICK n : n = Len(stack) - 1
            OBVIOUS
      <3>2. n \in Nat /\ n <= Len(stack) /\ n \in 0..Len(stack) /\ st2 = SubSeq(stack, 1, n)
            BY <1>2, <1>7, <2>1, <3>1
      <3>3. st2 \in Seq(Obj) /\ Len(st2) = n /\ \A i \in 1..n : st2[i] = stack[i]
            BY <1>4, <2>1, <3>2, SubSeqProperties
      <3> QED
          BY <3>1, <3>3
    <2>3. \A y \in Blocks(st2) : \E i \in 1..Len(st2) : st2[i] = y
          BY <2>2, ObjBlocks
    <2>4. \A i \in 1..Len(stack) : stack[i] \in Blocks(stack)
          BY <1>4, InBlocks
    <2> QED
        BY <2>1, <2>2, <2>3, <2>4
  <1>14. Objects(NamesIn(pool), HeldIn(pool), ob2, st2, died, bufs)
         BY <1>3, <1>11, <1>12, <1>13, ObjectsBuilt
  <1>15. Census(pool, ob2, st2, died, bufs)
         BY <1>14 DEF ObjInv, Census
  <1> QED
      BY <1>2, <1>7, <1>15 DEF ObjInv

LEMMA ClearObjInv ==
    ASSUME PoolInv, ObjInv, NEW p \in Pool, Clear(p) PROVE ObjInv'
  <1>1. PICK C : C = Cleared(pool[p], heap)
        OBVIOUS
  <1>2. /\ p \in Live /\ stack = << >> /\ pool' = [pool EXCEPT ![p] = C.P]
        /\ bufs' = Outlive(bufs, pool[p].chain) /\ died' = died \o Destroyed(pool[p].cleaners)
        /\ UNCHANGED <<obj, stack>>
        BY <1>1, EndedOutlive DEF Clear, Outside
  <1>3. PoolOK(pool[p], heap) /\ HeapOK(heap)
        BY <1>2, LivePool
  <1>4. PICK Q \in PoolRec : Q = C.P /\ Q.cleaners = << >>
        BY <1>1, <1>3, ClearedOK DEF PoolOK
  <1> QED
      BY <1>2, <1>4, StepEnds

LEMMA DestructObjInv ==
    ASSUME PoolInv, ObjInv, NEW p \in Pool, Destruct(p) PROVE ObjInv'
  <1>1. /\ p \in Live /\ stack = << >> /\ pool' = [pool EXCEPT ![p] = Null]
        /\ bufs' = Outlive(bufs, pool[p].chain) /\ died' = died \o Destroyed(pool[p].cleaners)
        /\ UNCHANGED <<obj, stack>>
        BY EndedOutlive DEF Destruct, Outside
  <1> QED
      BY <1>1, StepEnds

LEMMA ShrinkToFitObjInv ==
    ASSUME PoolInv, PoolInv', ObjInv, NEW p \in Pool, ShrinkToFit(p) PROVE ObjInv'
  <1>1. p \in Live /\ bufs' = bufs /\ UNCHANGED <<obj, stack, died>>
        BY DEF ShrinkToFit, Outside
  <1>2. PICK R \in PoolRec : R = pool[p] /\ R # Null
        BY <1>1, LivePool
  <1>3. PICK k : k = IF R.cur = 1 /\ R.pos = 0 THEN 0 ELSE R.cur
        OBVIOUS
  <1>4. PICK Q : Q = [R EXCEPT !.chain = SubSeq(@, 1, k), !.cur = k]
        OBVIOUS
  <1>5. pool' = [pool EXCEPT ![p] = Q]
    <2>1. pool' = [pool EXCEPT ![p].chain = SubSeq(@, 1, k), ![p].cur = k]
          BY <1>2, <1>3 DEF ShrinkToFit
    <2>2. pool \in [Pool -> PoolRec \cup {Null}]
          BY PoolTyped
    <2> QED
        BY <1>2, <1>4, <2>1, <2>2
  <1>6. Q.cleaners = R.cleaners
        BY <1>2, <1>4 DEF PoolRec
  <1>7. Q \in PoolRec
    <2>1. R.chain \in Seq(Block) /\ R.cur \in 0..Len(R.chain) /\ Len(R.chain) \in Nat
          BY <1>1, <1>2, LivePool, Fields DEF PoolOK, Shape
    <2>2. PICK j \in 0..Len(R.chain) : j = k
          BY <1>3, <2>1
    <2>3. PICK d \in Seq(Block) : d = SubSeq(R.chain, 1, k)
      <3>1. SubSeq(R.chain, 1, k) \in Seq(Block)
            BY <2>1, <2>2, SubSeqOf
      <3> QED
          BY <3>1
    <2>4. Q = [R EXCEPT !.chain = d, !.cur = j] /\ j \in Nat
          BY <1>4, <2>1, <2>2, <2>3
    <2> QED
        BY <1>2, <2>3, <2>4 DEF PoolRec
  <1> QED
      BY <1>1, <1>2, <1>5, <1>6, <1>7, StepStays

LEMMA ShrinkToFitMinObjInv ==
    ASSUME PoolInv, PoolInv', ObjInv, NEW p \in Pool, NEW m \in MinCapacities, ShrinkToFitMin(p, m)
    PROVE  ObjInv'
  <1>1. p \in Live /\ stack = << >> /\ pool[p].cur # 0 /\ UNCHANGED <<obj, stack>>
        BY DEF ShrinkToFitMin, Outside
  <1>2. PICK R \in PoolRec : R = pool[p] /\ R # Null /\ PoolOK(R, heap) /\ HeapOK(heap)
        BY <1>1, LivePool
  <1>3. CASE m = 0
    <2>1. PICK C : C = Cleared(pool[p], heap)
          OBVIOUS
    <2>2. PICK P \in PoolRec : P = C.P /\ P.cleaners = << >>
          BY <1>2, <2>1, ClearedOK DEF PoolOK
    <2>3. PICK Q : Q = [P EXCEPT !.chain = << >>, !.cur = 0]
          OBVIOUS
    <2>4. Q \in PoolRec /\ Q.cleaners = << >>
      <3>1. << >> \in Seq(Block)
            OBVIOUS
      <3> QED
          BY <2>2, <2>3, <3>1 DEF PoolRec
    <2>5. /\ pool' = [pool EXCEPT ![p] = Q] /\ bufs' = Outlive(bufs, pool[p].chain)
          /\ died' = died \o Destroyed(pool[p].cleaners)
          BY <1>3, <2>1, <2>2, <2>3, EndedOutlive DEF ShrinkToFitMin
    <2> QED
        BY <1>1, <2>4, <2>5, StepEnds
  <1>4. CASE m # 0
    <2>1. R.chain \in Seq(Block) /\ R.cur \in 0..Len(R.chain) /\ Len(R.chain) \in Nat
          BY <1>2, Fields DEF PoolOK, Shape
    <2>2. PICK k \in 0..Len(R.chain) : k = KeepUpTo(pool[p], m)
      <3>1. KeepUpTo(pool[p], m) \in pool[p].cur..Len(pool[p].chain)
            BY <1>1, KeepUpToPlace
      <3> QED
          BY <1>2, <2>1, <3>1
    <2>3. PICK d \in Seq(Block) : d = SubSeq(R.chain, 1, k)
      <3>1. SubSeq(R.chain, 1, k) \in Seq(Block)
            BY <2>1, <2>2, SubSeqOf
      <3> QED
          BY <3>1
    <2>4. PICK Q : Q = [R EXCEPT !.chain = d]
          OBVIOUS
    <2>5. Q \in PoolRec /\ Q.cleaners = R.cleaners
          BY <1>2, <2>3, <2>4 DEF PoolRec
    <2>6. pool' = [pool EXCEPT ![p] = Q] /\ bufs' = bufs /\ died' = died
      <3>1. pool' = [pool EXCEPT ![p].chain = SubSeq(@, 1, k)] /\ bufs' = bufs /\ died' = died
            BY <1>4, <2>2 DEF ShrinkToFitMin
      <3>2. pool \in [Pool -> PoolRec \cup {Null}]
            BY PoolTyped
      <3> QED
          BY <1>2, <2>3, <2>4, <3>1, <3>2
    <2> QED
        BY <1>1, <1>2, <2>5, <2>6, StepStays
  <1> QED
      BY <1>3, <1>4

LEMMA MoveConstructObjInv ==
    ASSUME PoolInv, PoolInv', ObjInv, NEW p \in Pool, NEW q \in Pool, MoveConstruct(p, q) PROVE ObjInv'
  <1>1. /\ p # q /\ pool[q] # Null /\ pool[p] = Null /\ bufs' = bufs /\ UNCHANGED <<obj, stack, died>>
        /\ pool' = [pool EXCEPT ![p] = pool[q], ![q] = MovedFrom(pool[q])]
        BY DEF MoveConstruct, Outside, Live
  <1>2. PICK pl : pl = pool'
        OBVIOUS
  <1>3. pool \in [Pool -> PoolRec \cup {Null}] /\ pl \in [Pool -> PoolRec \cup {Null}]
    <2>1. pool' \in [Pool -> PoolRec \cup {Null}]
          BY DEF PoolInv, Safe, Owned
    <2> QED
        BY <1>2, <2>1, PoolTyped
  <1>4. /\ pl[p] = pool[q] /\ pl[q] = MovedFrom(pool[q])
        /\ \A r \in Pool : r # p /\ r # q => pl[r] = pool[r]
        BY <1>1, <1>2, <1>3
  <1>5. pool[p] # Null => pool[p].cleaners = << >>
        BY <1>1
  <1>6. p # q /\ pool[q] # Null /\ Census(pool, obj, stack, died, bufs)
        BY <1>1 DEF ObjInv
  <1>7. Census(pl, obj, stack, died, bufs)
        BY <1>3, <1>4, <1>5, <1>6, CensusMove
  <1> QED
      BY <1>1, <1>2, <1>7 DEF ObjInv

LEMMA MoveAssignObjInv ==
    ASSUME PoolInv, PoolInv', ObjInv, NEW p \in Pool, NEW q \in Pool, MoveAssign(p, q) PROVE ObjInv'
  <1>1. /\ p \in Live /\ q \in Live /\ stack = << >> /\ UNCHANGED <<obj, stack>>
        /\ bufs' = Outlive(bufs, pool[p].chain) /\ died' = died \o Destroyed(pool[p].cleaners)
        /\ pool' = [r \in Pool |-> IF r = q THEN MovedFrom(pool[q]) ELSE IF r = p THEN pool[q] ELSE pool[r]]
        BY EndedOutlive DEF MoveAssign, Outside
  <1>2. /\ pool[p] \in PoolRec /\ pool[p] # Null /\ pool[q] # Null
        /\ pool \in [Pool -> PoolRec \cup {Null}]
        BY <1>1, LivePool, PoolTyped
  <1>3. PICK Q : Q = MovedFrom(pool[p])
        OBVIOUS
  <1>4. Q \in PoolRec /\ Q.cleaners = << >> /\ Q # Null
    <2>1. pool[p].bs \in Nat
          BY <1>2, Fields
    <2> QED
        BY <1>3, <2>1, EmptyPoolOK, NotNull DEF MovedFrom, PoolOK, EmptyPool
  <1>5. PICK pl : pl = [pool EXCEPT ![p] = Q]
        OBVIOUS
  <1>6. pl \in [Pool -> PoolRec \cup {Null}] /\ pl[p] = Q /\ \A r \in Pool : r # p => pl[r] = pool[r]
        BY <1>2, <1>4, <1>5
  <1>7. PICK dd, B : dd = died' /\ B = bufs'
        OBVIOUS
  <1>8. Census(pl, obj, stack, dd, B)
    <2>1. Safe(pool, heap, bufs) /\ Census(pool, obj, stack, died, bufs)
          BY DEF PoolInv, ObjInv
    <2>2. Census(pl, obj, stack, died \o Destroyed(pool[p].cleaners), Outlive(bufs, pool[p].chain))
          BY <1>1, <1>2, <1>4, <1>6, <2>1, CensusEnd
    <2> QED
        BY <1>1, <1>7, <2>2
  <1>9. PICK pl2 : pl2 = pool'
        OBVIOUS
  <1>10. pl2 \in [Pool -> PoolRec \cup {Null}]
    <2>1. pool' \in [Pool -> PoolRec \cup {Null}]
          BY DEF PoolInv, Safe, Owned
    <2> QED
        BY <1>9, <2>1
  <1>11. Census(pl2, obj, stack, dd, B)
    <2>1. CASE p = q
      <3>1. pl2 = pl
            BY <1>1, <1>2, <1>3, <1>5, <1>9, <2>1
      <3> QED
          BY <1>8, <3>1
    <2>2. CASE p # q
      <3>1. /\ pl2[p] = pl[q] /\ pl2[q] = MovedFrom(pl[q]) /\ pl[q] # Null
            /\ \A r \in Pool : r # p /\ r # q => pl2[r] = pl[r]
            BY <1>1, <1>2, <1>6, <1>9, <2>2
      <3>2. pl[p] # Null => pl[p].cleaners = << >>
            BY <1>4, <1>6
      <3> QED
          BY <1>6, <1>8, <1>10, <2>2, <3>1, <3>2, CensusMove
    <2> QED
        BY <2>1, <2>2
  <1> QED
      BY <1>1, <1>7, <1>9, <1>11 DEF ObjInv

LEMMA NextObjInv == PoolInv /\ ObjInv /\ [Next]_vars => ObjInv'
  <1> SUFFICES ASSUME PoolInv, ObjInv, [Next]_vars PROVE ObjInv'
      OBVIOUS
  <1>1. PoolInv'
        BY NextPoolInv
  <1>2. CASE UNCHANGED vars
        BY <1>2, StutterObjInv
  <1>3. CASE Constructed
        BY <1>3, ConstructedObjInv
  <1>4. ASSUME NEW p \in Pool, PoolStep(p) PROVE ObjInv'
    <2>1. CASE \E s \in BlockSizes : Construct(p, s) \/ SetBlockSize(p, s)
          BY <1>1, <2>1, ConstructObjInv, SetBlockSizeObjInv
    <2>2. CASE \E s \in Sizes, a \in NativeAligns : CreateBuffer(p, s, a)
          BY <1>1, <2>2, CreateBufferObjInv
    <2>3. CASE \E s \in Sizes, a \in BigAligns : CreateBigAligned(p, s, a)
          BY <1>1, <2>3, CreateBigAlignedObjInv
    <2>4. CASE \E n \in Lengths : CreateCString(p, n)
          BY <1>1, <2>4, CreateCStringObjInv
    <2>5. CASE \E o \in Obj, a \in NativeAligns \cup BigAligns : CreateObject(p, o, a)
          BY <1>1, <2>5, CreateObjectObjInv
    <2>6. CASE \E o \in Obj : RegisterDestructor(p, o)
          BY <1>1, <2>6, RegisterDestructorObjInv
    <2>7. CASE Clear(p)
          BY <2>7, ClearObjInv
    <2>8. CASE ShrinkToFit(p)
          BY <1>1, <2>8, ShrinkToFitObjInv
    <2>9. CASE \E m \in MinCapacities : ShrinkToFitMin(p, m)
          BY <1>1, <2>9, ShrinkToFitMinObjInv
    <2>10. CASE \E q \in Pool : MoveConstruct(p, q) \/ MoveAssign(p, q)
           BY <1>1, <2>10, MoveConstructObjInv, MoveAssignObjInv
    <2>11. CASE Destruct(p)
           BY <2>11, DestructObjInv
    <2> QED
        BY <1>4, <2>1, <2>2, <2>3, <2>4, <2>5, <2>6, <2>7, <2>8, <2>9, <2>10, <2>11 DEF PoolStep
  <1> QED
      BY <1>2, <1>3, <1>4 DEF Next

LEMMA AlwaysObjInv == Spec => []ObjInv
  BY InitPoolInv, NextPoolInv, InitObjInv, NextObjInv, PTL DEF Spec
--------------------------------------------------------------------------------
(* The theorems *)

LEMMA ObjInvOnce == ObjInv => ObjectsDieOnce
  <1> SUFFICES ASSUME ObjInv PROVE ObjectsDieOnce
      OBVIOUS
  <1>1. PICK N, C : N = NamesIn(pool) /\ C = HeldIn(pool)
        OBVIOUS
  <1>2. Objects(N, C, obj, stack, died, bufs)
        BY <1>1 DEF ObjInv, Census
  <1>3. died \in Seq(Obj) /\ N \in [Pool -> Seq(Obj)] /\ Once(died)
        BY <1>2 DEF Objects, Typed, Ordered
  <1>4. IsInjective(died)
        BY <1>3 DEF Once, IsInjective
  <1>5. ASSUME NEW o \in Obj, obj[o].st # "none", o \notin Blocks(died) PROVE obj[o].buf \in bufs
    <2>1. PICK p \in Pool : o \in Blocks(N[p])
          BY <1>2, <1>5 DEF Objects, AllKnown, Known
    <2>2. N[p] \in Seq(Obj)
          BY <1>3, <2>1
    <2>3. PICK i \in 1..Len(N[p]) : N[p][i] = o
          BY <2>1, <2>2, ObjBlocks
    <2> QED
        BY <1>2, <2>1, <2>3 DEF Objects, Standing, Stands
  <1> QED
      BY <1>4, <1>5 DEF ObjectsDieOnce

LEMMA ObjInvParents == ObjInv => ParentsDieFirst
  <1> SUFFICES ASSUME ObjInv, NEW i \in DOMAIN died, NEW j \in DOMAIN died, obj[died[i]].parent = died[j]
               PROVE  j < i
      BY DEF ParentsDieFirst
  <1>1. died \in Seq(Obj) /\ Once(died) /\ ParentsEarlier(died, obj)
        BY DEF ObjInv, Census, Objects, Typed, Ordered
  <1>2. i \in 1..Len(died) /\ j \in 1..Len(died) /\ died[j] \in Obj /\ Len(died) \in Nat
        BY <1>1
  <1>3. obj[died[i]].parent # Null
        BY <1>2, PoolAssumption
  <1>4. PICK k \in 1..(i - 1) : died[k] = died[j]
        BY <1>1, <1>2, <1>3 DEF ParentsEarlier
  <1>5. k \in 1..Len(died)
        BY <1>2, <1>4
  <1>6. k = j
        BY <1>1, <1>2, <1>4, <1>5 DEF Once
  <1> QED
      BY <1>2, <1>4, <1>6

\* No destructor runs twice, through growing and moving the vector of cleaners,
\* clear(), shrink_to_fit(0), both moves and the destructor of the pool; and what
\* has not been destroyed still has its memory (memory_pool.hpp).
THEOREM DestroyedOnce == Spec => []ObjectsDieOnce
  BY AlwaysObjInv, ObjInvOnce, PTL

\* An object is destroyed before what its constructor has made in the pool,
\* however deep constructors nest: the cleaner of the outer object is there first.
THEOREM OuterDiesFirst == Spec => []ParentsDieFirst
  BY AlwaysObjInv, ObjInvParents, PTL
--------------------------------------------------------------------------------
(* Types: _block_size is never 0, unless set_block_size() is asked for just   *)
(* the size of the header.                                                    *)

LEMMA BlockSizePositive ==
    ASSUME NEW s \in Nat, s # Header PROVE BlockSizeFor(s) \in Nat \ {0}
  <1>1. Header \in Nat \ {0}
        BY SizesAssumption
  <1>2. PICK n \in Nat \ {0} : n = IF s < Header THEN Header ELSE s - Header
        BY <1>1
  <1>3. GetBlockSize(n) \in Nat /\ GetBlockSize(n) >= n
        BY <1>2, SizeSuffices
  <1> QED
      BY <1>2, <1>3 DEF BlockSizeFor

LEMMA GrownSize == ASSUME NEW s \in Nat \ {0} PROVE GetBlockSize(Grown(s)) \in Nat \ {0}
  <1>1. PICK g : g = GetBlockSize(Grown(s))
        OBVIOUS
  <1>2. g \in Nat /\ g >= s
        BY <1>1, GrowthCovers
  <1> QED
      BY <1>1, <1>2

\* P has a _block_size, and it is n.
HasSize(P, n) == "bs" \in DOMAIN P /\ P.bs = n

\* A request leaves _block_size alone, or has it grow.
LEMMA SizeAfter ==
    ASSUME NEW P \in PoolRec, NEW h, NEW size, NEW a, NEW r, r = CreateBufferInternal(P, h, size, a)
    PROVE  HasSize(r.P, P.bs) \/ HasSize(r.P, GetBlockSize(Grown(size)))
  <1>1. HasSize(P, P.bs)
        BY DEF PoolRec, HasSize
  <1>2. PICK f : f = FirstBlock(P, h)
        OBVIOUS
  <1>3. HasSize(f.P, P.bs)
    <2>1. CASE P.cur # 0
          BY <1>1, <1>2, <2>1 DEF FirstBlock
    <2>2. CASE P.cur = 0
      <3>1. PICK Z : Z = [P EXCEPT !.chain = <<NewBlock(h)>>, !.cur = 1]
            OBVIOUS
      <3>2. f.P = Z
            BY <1>2, <2>2, <3>1 DEF FirstBlock
      <3>3. HasSize(Z, P.bs)
            BY <1>1, <3>1 DEF HasSize
      <3> QED
          BY <3>2, <3>3
    <2> QED
        BY <2>1, <2>2
  <1>4. PICK F, x : F = f.P /\ x = AlignUp(F.pos, a)
        OBVIOUS
  <1>5. PICK Q : Q = [F EXCEPT !.pos = x]
        OBVIOUS
  <1>6. HasSize(Q, P.bs)
        BY <1>3, <1>4, <1>5 DEF HasSize
  <1>7. Q = [f.P EXCEPT !.pos = AlignUp(@, a)]
        BY <1>4, <1>5
  <1>8. CASE f.heap[Q.chain[Q.cur]] >= size + Q.pos
    <2>1. PICK Z : Z = [Q EXCEPT !.pos = @ + size]
          OBVIOUS
    <2>2. r.P = Z
          BY <1>2, <1>7, <1>8, <2>1 DEF CreateBufferInternal
    <2>3. HasSize(Z, P.bs)
          BY <1>6, <2>1 DEF HasSize
    <2> QED
        BY <2>2, <2>3
  <1>9. CASE ~(f.heap[Q.chain[Q.cur]] >= size + Q.pos) /\ size <= Q.bs
    <2>1. r = InNextBlock(Q, f.heap, size)
          BY <1>2, <1>7, <1>9 DEF CreateBufferInternal
    <2>2. PICK d, n : /\ d = (IF Q.cur + 1 <= Len(Q.chain) THEN CompactBlock(f.heap, Q.chain, Q.cur + 1, Q.bs)
                              ELSE [heap |-> Create(f.heap, Q.bs),
                                    chain |-> Append(Q.chain, NewBlock(f.heap))]).chain
                      /\ n = Q.cur + 1
          OBVIOUS
    <2>3. r.P = [Q EXCEPT !.chain = d, !.cur = n, !.pos = size]
          BY <2>1, <2>2 DEF InNextBlock
    <2>4. PICK Z : Z = [Q EXCEPT !.chain = d, !.cur = n, !.pos = size]
          OBVIOUS
    <2>5. HasSize(Z, P.bs)
          BY <1>6, <2>4 DEF HasSize
    <2> QED
        BY <2>3, <2>4, <2>5
  <1>10. CASE ~(f.heap[Q.chain[Q.cur]] >= size + Q.pos) /\ ~(size <= Q.bs)
    <2>1. r = InOwnBlock(Q, f.heap, size)
          BY <1>2, <1>7, <1>10 DEF CreateBufferInternal
    <2>2. PICK G : G = GetBlockSize(Grown(size))
          OBVIOUS
    <2>3. PICK d, n : d = <<NewBlock(f.heap)>> \o Q.chain /\ n = Q.cur + 1
          OBVIOUS
    <2>4. r.P = [Q EXCEPT !.chain = d, !.cur = n, !.bs = G]
          BY <2>1, <2>2, <2>3 DEF InOwnBlock
    <2>5. PICK Z : Z = [Q EXCEPT !.chain = d, !.cur = n, !.bs = G]
          OBVIOUS
    <2>6. HasSize(Z, G)
          BY <1>6, <2>5 DEF HasSize
    <2> QED
        BY <2>2, <2>4, <2>5, <2>6
  <1> QED
      BY <1>8, <1>9, <1>10

SomeSize(Q) == Q = Null \/ ("bs" \in DOMAIN Q /\ Q.bs # 0)
Sized(pl) == \A p \in Pool : SomeSize(pl[p])

LEMMA StepSized ==
    ASSUME PoolInv, Sized(pool), NEW p \in Pool, NEW Q, SomeSize(Q), pool' = [pool EXCEPT ![p] = Q]
    PROVE  Sized(pool')
  <1>1. pool \in [Pool -> PoolRec \cup {Null}]
        BY PoolTyped
  <1>2. \A q \in Pool : pool'[q] = IF q = p THEN Q ELSE pool[q]
        BY <1>1
  <1> QED
      BY <1>2 DEF Sized

LEMMA LiveSized ==
    ASSUME PoolInv, Sized(pool), NEW p \in Live
    PROVE  pool[p] \in PoolRec /\ pool[p].bs # 0 /\ pool[p] # Null /\ p \in Pool /\ "bs" \in DOMAIN pool[p]
  <1>1. pool[p] \in PoolRec /\ pool[p] # Null /\ p \in Pool
        BY LivePool
  <1> QED
      BY <1>1 DEF Sized, SomeSize

LEMMA GrantSized ==
    ASSUME PoolInv, Sized(pool), NEW p \in Live, NEW size \in Nat \ {0}, NEW a, NEW r,
           r = CreateBufferInternal(pool[p], heap, size, a)
    PROVE  SomeSize(r.P)
  <1>1. pool[p] \in PoolRec /\ pool[p].bs # 0
        BY LiveSized
  <1>2. HasSize(r.P, pool[p].bs) \/ HasSize(r.P, GetBlockSize(Grown(size)))
        BY <1>1, SizeAfter
  <1>3. GetBlockSize(Grown(size)) # 0
        BY GrownSize
  <1> QED
      BY <1>1, <1>2, <1>3 DEF HasSize, SomeSize

LEMMA GrantAlignedSized ==
    ASSUME PoolInv, Sized(pool), NEW p \in Live, NEW size \in Nat \ {0}, NEW a \in Nat, NEW r,
           r = CreateAlignedBuffer(pool[p], heap, size, a)
    PROVE  SomeSize(r.P)
  <1>1. PICK n \in Nat \ {0} : n = size + a
    <2>1. size + a \in Nat \ {0}
          OBVIOUS
    <2> QED
        BY <2>1
  <1>2. PICK c : c = CreateBufferInternal(pool[p], heap, n, 1)
        OBVIOUS
  <1>3. pool[p] \in PoolRec /\ pool[p].bs # 0
        BY LiveSized
  <1>4. PICK k : k # 0 /\ HasSize(c.P, k)
    <2>1. HasSize(c.P, pool[p].bs) \/ HasSize(c.P, GetBlockSize(Grown(n)))
          BY <1>2, <1>3, SizeAfter
    <2>2. GetBlockSize(Grown(n)) # 0
          BY <1>1, GrownSize
    <2> QED
        BY <1>3, <2>1, <2>2
  <1>5. PICK F : F = c.P
        OBVIOUS
  <1>6. \E x : r.P = [F EXCEPT !.pos = x]
    <2>1. PICK lo, x : r = [c EXCEPT !.lo = lo, !.P.pos = x]
      <3>1. \E lo, x : r = [c EXCEPT !.lo = lo, !.P.pos = x]
            BY <1>1, <1>2 DEF CreateAlignedBuffer
      <3> QED
          BY <3>1
    <2>2. DOMAIN c = {"P", "heap", "block", "lo"}
          BY <1>2 DEF CreateBufferInternal, InNextBlock, InOwnBlock
    <2> QED
        BY <1>5, <2>1, <2>2
  <1>7. PICK x : r.P = [F EXCEPT !.pos = x]
        BY <1>6
  <1>8. PICK Z : Z = [F EXCEPT !.pos = x]
        OBVIOUS
  <1>9. "bs" \in DOMAIN Z /\ Z.bs = k
        BY <1>4, <1>5, <1>8 DEF HasSize
  <1> QED
      BY <1>4, <1>7, <1>8, <1>9 DEF SomeSize

LEMMA GiveSized ==
    ASSUME PoolInv, Sized(pool), NEW p \in Live, NEW size, NEW a, NEW r, SomeSize(r.P), Give(p, r, size, a)
    PROVE  Sized(pool')
  <1>1. pool' = [pool EXCEPT ![p] = r.P] /\ p \in Pool
        BY LiveSized DEF Give
  <1> QED
      BY <1>1, StepSized

LEMMA CleanerSized ==
    ASSUME PoolInv, Sized(pool), NEW p \in Live, NEW P, "bs" \in DOMAIN P, P.bs # 0, NEW o, EmplaceBack(p, P, o)
    PROVE  Sized(pool')
  <1>1. PICK Q : Q = [P EXCEPT !.cleaners = Append(@, Cleaner(o))]
        OBVIOUS
  <1>2. SomeSize(Q)
        BY <1>1 DEF SomeSize
  <1>3. pool' = [pool EXCEPT ![p] = Q] /\ p \in Pool
        BY <1>1, LiveSized DEF EmplaceBack
  <1> QED
      BY <1>2, <1>3, StepSized

LEMMA ClearedSized ==
    ASSUME NEW P \in PoolRec, P.bs # 0, NEW h
    PROVE  "bs" \in DOMAIN Cleared(P, h).P /\ Cleared(P, h).P.bs # 0
  <1>1. PICK C : C = Cleared(P, h)
        OBVIOUS
  <1>2. PICK d, n : C.P = [P EXCEPT !.chain = d, !.cur = n, !.pos = 0, !.cleaners = << >>]
    <2>1. PICK d, n : /\ d = (IF P.chain = << >> THEN [heap |-> h, chain |-> << >>]
                              ELSE CompactBlock(h, P.chain, 1, P.bs)).chain
                      /\ n = IF P.chain = << >> THEN P.cur ELSE 1
          OBVIOUS
    <2>2. C.P = [P EXCEPT !.chain = d, !.cur = n, !.pos = 0, !.cleaners = << >>]
          BY <1>1, <2>1 DEF Cleared
    <2> QED
        BY <2>2
  <1>3. PICK Z : Z = [P EXCEPT !.chain = d, !.cur = n, !.pos = 0, !.cleaners = << >>]
        OBVIOUS
  <1>4. "bs" \in DOMAIN Z /\ Z.bs # 0
        BY <1>3 DEF PoolRec
  <1> QED
      BY <1>1, <1>2, <1>3, <1>4

\* Nobody asks for blocks of the size of their header.
HeaderNotAsked == Header \notin BlockSizes

LEMMA PoolStepSized ==
    ASSUME HeaderNotAsked, PoolInv, Sized(pool), NEW p \in Pool, PoolStep(p) PROVE Sized(pool')
  <1>1. ASSUME NEW s \in BlockSizes, Construct(p, s) PROVE Sized(pool')
    <2>1. BlockSizeFor(s) # 0
          BY PoolAssumption, BlockSizePositive DEF HeaderNotAsked
    <2>2. PICK Q : Q = EmptyPool(BlockSizeFor(s))
          OBVIOUS
    <2>3. SomeSize(Q)
          BY <2>1, <2>2 DEF EmptyPool, SomeSize
    <2>4. pool' = [pool EXCEPT ![p] = Q]
          BY <1>1, <2>2 DEF Construct
    <2> QED
        BY <2>3, <2>4, StepSized
  <1>2. ASSUME NEW s \in BlockSizes, SetBlockSize(p, s) PROVE Sized(pool')
    <2>1. PICK n : n = BlockSizeFor(s) /\ n # 0
          BY PoolAssumption, BlockSizePositive DEF HeaderNotAsked
    <2>2. p \in Live /\ pool' = [pool EXCEPT ![p].bs = n]
          BY <1>2, <2>1 DEF SetBlockSize, Outside
    <2>3. PICK Q : Q = [pool[p] EXCEPT !.bs = n]
          OBVIOUS
    <2>4. SomeSize(Q)
          BY <2>1, <2>2, <2>3, LiveSized DEF SomeSize
    <2>5. pool' = [pool EXCEPT ![p] = Q]
          BY <2>2, <2>3
    <2> QED
        BY <2>4, <2>5, StepSized
  <1>3. ASSUME NEW s \in Sizes, NEW a \in NativeAligns, CreateBuffer(p, s, a) PROVE Sized(pool')
    <2>1. PICK r : r = CreateBufferInternal(pool[p], heap, s, a)
          OBVIOUS
    <2>2. p \in Live /\ Give(p, r, s, a) /\ s \in Nat \ {0}
          BY <1>3, <2>1, PoolAssumption DEF CreateBuffer, MayCreate
    <2> QED
        BY <2>1, <2>2, GrantSized, GiveSized
  <1>4. ASSUME NEW s \in Sizes, NEW a \in BigAligns, CreateBigAligned(p, s, a) PROVE Sized(pool')
    <2>1. PICK r : r = CreateAlignedBuffer(pool[p], heap, s, a)
          OBVIOUS
    <2>2. p \in Live /\ Give(p, r, s, a) /\ s \in Nat \ {0} /\ a \in Nat
          BY <1>4, <2>1, PoolAssumption DEF CreateBigAligned, MayCreate
    <2> QED
        BY <2>1, <2>2, GrantAlignedSized, GiveSized
  <1>5. ASSUME NEW n \in Lengths, CreateCString(p, n) PROVE Sized(pool')
    <2>1. CASE UNCHANGED vars
          BY <2>1 DEF vars
    <2>2. CASE Give(p, CreateBufferInternal(pool[p], heap, n + 1, 1), n + 1, 1)
      <3>1. PICK size \in Nat \ {0} : size = n + 1
        <4>1. n + 1 \in Nat \ {0}
              BY PoolAssumption
        <4> QED
            BY <4>1
      <3>2. PICK r : r = CreateBufferInternal(pool[p], heap, size, 1)
            OBVIOUS
      <3>3. p \in Live /\ Give(p, r, size, 1)
            BY <1>5, <2>2, <3>1, <3>2 DEF CreateCString, MayCreate
      <3> QED
          BY <3>1, <3>2, <3>3, GrantSized, GiveSized
    <2> QED
        BY <1>5, <2>1, <2>2 DEF CreateCString
  <1>6. ASSUME NEW o \in Obj, NEW a \in NativeAligns \cup BigAligns, CreateObject(p, o, a) PROVE Sized(pool')
    <2>1. PICK r : r = IF a \in NativeAligns THEN CreateBufferInternal(pool[p], heap, ObjSize, a)
                       ELSE CreateAlignedBuffer(pool[p], heap, ObjSize, a)
          OBVIOUS
    <2>2. p \in Live /\ HasRoom(p) /\ EmplaceBack(p, r.P, o)
          BY <1>6, <2>1 DEF CreateObject, MayCreate
    <2>3. ObjSize \in Nat \ {0} /\ a \in Nat
          BY PoolAssumption
    <2>4. SomeSize(r.P)
      <3>1. CASE a \in NativeAligns
            BY <2>1, <2>2, <2>3, <3>1, GrantSized
      <3>2. CASE a \notin NativeAligns
            BY <2>1, <2>2, <2>3, <3>2, GrantAlignedSized
      <3> QED
          BY <3>1, <3>2
    <2>5. r.P \in PoolRec /\ r.P # Null
          BY <2>1, <2>2, ObjectGranted, NotNull DEF Granted, PoolOK
    <2> QED
        BY <2>2, <2>4, <2>5, CleanerSized DEF SomeSize
  <1>7. ASSUME NEW o \in Obj, RegisterDestructor(p, o) PROVE Sized(pool')
    <2>1. p \in Live /\ EmplaceBack(p, pool[p], o)
          BY <1>7 DEF RegisterDestructor
    <2> QED
        BY <2>1, LiveSized, CleanerSized
  <1>8. ASSUME Clear(p) PROVE Sized(pool')
    <2>1. PICK Q : Q = Cleared(pool[p], heap).P
          OBVIOUS
    <2>2. p \in Live /\ pool' = [pool EXCEPT ![p] = Q]
          BY <1>8, <2>1 DEF Clear, Outside
    <2>3. SomeSize(Q)
          BY <2>1, <2>2, LiveSized, ClearedSized DEF SomeSize
    <2> QED
        BY <2>2, <2>3, StepSized
  <1>9. ASSUME ShrinkToFit(p) PROVE Sized(pool')
    <2>1. PICK d, k : p \in Live /\ pool' = [pool EXCEPT ![p].chain = d, ![p].cur = k]
      <3>1. \E d, k : p \in Live /\ pool' = [pool EXCEPT ![p].chain = d, ![p].cur = k]
            BY <1>9 DEF ShrinkToFit, Outside
      <3> QED
          BY <3>1
    <2>2. PICK Q : Q = [pool[p] EXCEPT !.chain = d, !.cur = k]
          OBVIOUS
    <2>3. SomeSize(Q)
          BY <2>1, <2>2, LiveSized DEF SomeSize
    <2>4. pool' = [pool EXCEPT ![p] = Q]
          BY <2>1, <2>2, PoolTyped
    <2> QED
        BY <2>3, <2>4, StepSized
  <1>10. ASSUME NEW m \in MinCapacities, ShrinkToFitMin(p, m) PROVE Sized(pool')
    <2>1. p \in Live
          BY <1>10 DEF ShrinkToFitMin, Outside
    <2>2. CASE m = 0
      <3>1. PICK F : F = Cleared(pool[p], heap).P
            OBVIOUS
      <3>2. PICK Q : Q = [F EXCEPT !.chain = << >>, !.cur = 0]
            OBVIOUS
      <3>3. "bs" \in DOMAIN F /\ F.bs # 0
            BY <2>1, <3>1, LiveSized, ClearedSized
      <3>4. SomeSize(Q)
            BY <3>2, <3>3 DEF SomeSize
      <3>5. pool' = [pool EXCEPT ![p] = Q]
            BY <1>10, <2>2, <3>1, <3>2 DEF ShrinkToFitMin
      <3> QED
          BY <3>4, <3>5, StepSized
    <2>3. CASE m # 0
      <3>1. PICK d : pool' = [pool EXCEPT ![p].chain = d]
        <4>1. \E d : pool' = [pool EXCEPT ![p].chain = d]
              BY <1>10, <2>3 DEF ShrinkToFitMin
        <4> QED
            BY <4>1
      <3>2. PICK Q : Q = [pool[p] EXCEPT !.chain = d]
            OBVIOUS
      <3>3. SomeSize(Q)
            BY <2>1, <3>2, LiveSized DEF SomeSize
      <3>4. pool' = [pool EXCEPT ![p] = Q]
            BY <3>1, <3>2
      <3> QED
          BY <3>3, <3>4, StepSized
    <2> QED
        BY <2>2, <2>3
  <1>11. ASSUME NEW P, P.bs # 0 PROVE SomeSize(MovedFrom(P))
         BY <1>11 DEF MovedFrom, EmptyPool, SomeSize
  <1>12. ASSUME NEW q \in Pool, MoveConstruct(p, q) PROVE Sized(pool')
    <2>1. q \in Live /\ pool' = [pool EXCEPT ![p] = pool[q], ![q] = MovedFrom(pool[q])]
          BY <1>12 DEF MoveConstruct, Outside
    <2>2. PICK Q : Q = MovedFrom(pool[q]) /\ SomeSize(Q)
          BY <1>11, <2>1, LiveSized
    <2>3. \A r \in Pool : pool'[r] = IF r = q THEN Q ELSE IF r = p THEN pool[q] ELSE pool[r]
          BY <2>1, <2>2, PoolTyped
    <2> QED
        BY <2>2, <2>3 DEF Sized
  <1>13. ASSUME NEW q \in Pool, MoveAssign(p, q) PROVE Sized(pool')
    <2>1. q \in Live /\ pool' = [r \in Pool |-> IF r = q THEN MovedFrom(pool[q])
                                                ELSE IF r = p THEN pool[q] ELSE pool[r]]
          BY <1>13 DEF MoveAssign, Outside
    <2>2. PICK Q : Q = MovedFrom(pool[q]) /\ SomeSize(Q)
          BY <1>11, <2>1, LiveSized
    <2>3. \A r \in Pool : pool'[r] = IF r = q THEN Q ELSE IF r = p THEN pool[q] ELSE pool[r]
          BY <2>1, <2>2
    <2> QED
        BY <2>2, <2>3 DEF Sized
  <1>14. ASSUME Destruct(p) PROVE Sized(pool')
    <2>1. pool' = [pool EXCEPT ![p] = Null]
          BY <1>14 DEF Destruct
    <2>2. SomeSize(Null)
          BY DEF SomeSize
    <2> QED
        BY <2>1, <2>2, StepSized
  <1> QED
      BY <1>1, <1>2, <1>3, <1>4, <1>5, <1>6, <1>7, <1>8, <1>9, <1>10, <1>12, <1>13, <1>14 DEF PoolStep

LEMMA NextSized == HeaderNotAsked /\ PoolInv /\ Sized(pool) /\ [Next]_vars => Sized(pool')
  <1> SUFFICES ASSUME HeaderNotAsked, PoolInv, Sized(pool), [Next]_vars PROVE Sized(pool')
      OBVIOUS
  <1>1. CASE UNCHANGED vars
        BY <1>1 DEF vars
  <1>2. CASE Constructed
        BY <1>2 DEF Constructed
  <1>3. CASE \E p \in Pool : PoolStep(p)
        BY <1>3, PoolStepSized
  <1> QED
      BY <1>1, <1>2, <1>3 DEF Next

TypeInv == Sized(pool)

LEMMA AllTyped == PoolInv /\ ObjInv /\ TypeInv => TypeOK
  <1> SUFFICES ASSUME PoolInv, ObjInv, TypeInv PROVE TypeOK
      OBVIOUS
  <1>1. HeapOK(heap) /\ InUse(pool, heap, bufs)
        BY DEF PoolInv, Safe, Owned
  <1>2. DOMAIN heap \subseteq Block /\ \A b \in DOMAIN heap : heap[b] \in Nat
        BY <1>1 DEF HeapOK
  <1>3. bufs \subseteq BufferRec
        BY <1>1 DEF InUse
  <1>4. ASSUME NEW p \in Live
        PROVE  /\ pool[p].bs \in Nat \ {0} /\ pool[p].pos \in Nat
               /\ pool[p].cur \in 0..Len(pool[p].chain)
               /\ pool[p].chain # << >> => pool[p].cur # 0
               /\ \A i \in DOMAIN pool[p].chain : pool[p].chain[i] \in Block
    <2>1. pool[p] \in PoolRec /\ Shape(pool[p])
          BY LivePool DEF PoolOK
    <2>2. pool[p].bs \in Nat /\ pool[p].pos \in Nat /\ pool[p].chain \in Seq(Block)
          BY <2>1, Fields
    <2>3. pool[p].bs # 0
          BY LiveSized DEF TypeInv
    <2> QED
        BY <2>1, <2>2, <2>3 DEF Shape
  <1>5. obj \in [Obj -> ObjRec] /\ stack \in Seq(Obj) /\ died \in Seq(Obj)
        BY DEF ObjInv, Census, Objects, Typed
  <1>6. \A o \in Obj : obj[o].st \in {"none", "building", "built", "failed"}
        BY <1>5 DEF ObjRec
  <1> QED
      BY <1>2, <1>3, <1>4, <1>5, <1>6 DEF TypeOK

\* Unless a caller asks for blocks of exactly the size of their header, which
\* makes _block_size 0, the state of every pool keeps its type: _block_size is
\* positive, and a pool that has blocks has a current one (memory_pool.hpp).
THEOREM PoolTypes == HeaderNotAsked => (Spec => []TypeOK)
  <1> SUFFICES ASSUME HeaderNotAsked PROVE Spec => []TypeOK
      OBVIOUS
  <1>1. Init => TypeInv
        BY DEF Init, TypeInv, Sized, SomeSize
  <1>2. PoolInv /\ TypeInv /\ [Next]_vars => TypeInv'
        BY NextSized DEF TypeInv
  <1> QED
      BY <1>1, <1>2, AlwaysPoolInv, AlwaysObjInv, AllTyped, PTL DEF Spec
================================================================================
