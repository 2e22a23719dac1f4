------------------------ MODULE StaticMemoryPoolProofs -------------------------
EXTENDS StaticMemoryPool, FiniteSetTheorems, SequenceTheorems, WellFoundedInduction, TLAPS
(***************************************************************************)
(* Proofs about StaticMemoryPool, for any set of pools, blocks, sizes and  *)
(* alignments.  The argument:                                              *)
(*                                                                         *)
(*   - what an operation does to one chain and the heap is a Rechained     *)
(*     step: outside of the chain nothing changes, and the new chain takes *)
(*     only blocks that were the chain's or nobody's;                      *)
(*   - what a request makes of a pool is Granted: the part in use is Kept, *)
(*     and the bytes handed out are Fresh, beyond that part;               *)
(*   - Safe lifts both to all pools: Owned (every block has one owner),    *)
(*     InUse (every buffer is in the part in use of some pool), NoOverlap, *)
(*     AllAligned.  Safe is inductive, and the properties follow.          *)
(*                                                                         *)
(* FloorPow2 and ClearBits are recursive functions that halve their        *)
(* argument: that they exist is HalfExists, and what they return is proved *)
(* by looking at the least argument for which it would fail (Least).  The  *)
(* float of line 393 is off by at most one in 2 * FloatOne (FloatBounds),  *)
(* twice, and 1.1f by less than half a unit: too little to undo a tenth.   *)
(***************************************************************************)

\* Nat is well-founded: a set of numbers that has an element has a least one.
LEMMA Least == ASSUME NEW S, S \subseteq Nat, S # {} PROVE \E x \in S : \A y \in S : x <= y
  <1>1. IsWellFoundedOn(OpToRel(<, Nat), Nat)
        BY NatLessThanWellFounded
  <1>2. PICK x \in S : \A y \in S : ~(<<y, x>> \in OpToRel(<, Nat))
        BY <1>1, WFMin
  <1>3. \A y \in S : ~(y < x)
    <2> SUFFICES ASSUME NEW y \in S, y < x PROVE FALSE
        OBVIOUS
    <2>1. <<y, x>> \in OpToRel(<, Nat)
          BY DEF OpToRel
    <2> QED
        BY <1>2, <2>1
  <1> QED
      BY <1>3

LEMMA Half == ASSUME NEW n \in Nat, n >= 1 PROVE n \div 2 \in 0..(n - 1) /\ n \div 2 \in Nat
  OBVIOUS

\* g is, up to n, the function that halves its argument: b at 0, and at m what
\* H[m] makes of its value at m \div 2.
HalfUpTo(A, b, H, n, g) ==
    /\ g \in [0..n -> A]
    /\ \A m \in 0..n : g[m] = IF m = 0 THEN b ELSE H[m][g[m \div 2]]
LEMMA HalfStarts ==
    ASSUME NEW A, NEW b \in A, NEW H \in [Nat \ {0} -> [A -> A]]
    PROVE  \A n \in Nat : \E g : HalfUpTo(A, b, H, n, g)
  <1> DEFINE S == {n \in Nat : ~\E g : HalfUpTo(A, b, H, n, g)}
  <1> SUFFICES ASSUME S # {} PROVE FALSE
      OBVIOUS
  <1>1. PICK n \in S : \A y \in S : n <= y
        BY Least
  <1>2. CASE n = 0
    <2>1. HalfUpTo(A, b, H, 0, [m \in 0..0 |-> b])
          BY DEF HalfUpTo
    <2> QED
        BY <1>2, <2>1
  <1>3. CASE n # 0
    <2>1. n - 1 \in Nat /\ n - 1 \notin S
          BY <1>1, <1>3
    <2>2. PICK g : HalfUpTo(A, b, H, n - 1, g)
          BY <2>1
    <2> DEFINE f == [m \in 0..n |-> IF m < n THEN g[m] ELSE H[n][g[n \div 2]]]
    <2>3. n \div 2 \in 0..(n - 1) /\ n \in Nat \ {0}
          BY <1>3, Half
    <2>4. g \in [0..(n - 1) -> A] /\ \A m \in 0..(n - 1) : g[m] \in A
          BY <2>2 DEF HalfUpTo
    <2>5. f \in [0..n -> A] /\ \A m \in 0..(n - 1) : f[m] = g[m]
          BY <2>3, <2>4
    <2>6. ASSUME NEW m \in 0..n PROVE f[m] = IF m = 0 THEN b ELSE H[m][f[m \div 2]]
      <3>1. CASE m < n
        <4>1. m \in 0..(n - 1) /\ (m # 0 => m \div 2 \in 0..(n - 1))
              BY <3>1, Half
        <4> QED
            BY <2>2, <2>5, <4>1 DEF HalfUpTo
      <3>2. CASE m = n
            BY <2>3, <2>5, <3>2
      <3> QED
          BY <3>1, <3>2
    <2>7. HalfUpTo(A, b, H, n, f)
          BY <2>5, <2>6 DEF HalfUpTo
    <2> QED
        BY <2>7
  <1> QED
      BY <1>2, <1>3
LEMMA HalfSame ==
    ASSUME NEW A, NEW b \in A, NEW H \in [Nat \ {0} -> [A -> A]],
           NEW k \in Nat, NEW l \in Nat, NEW g, NEW h,
           HalfUpTo(A, b, H, k, g), HalfUpTo(A, b, H, l, h)
    PROVE  \A n \in Nat : n <= k /\ n <= l => g[n] = h[n]
  <1> DEFINE S == {n \in Nat : n <= k /\ n <= l /\ g[n] # h[n]}
  <1> SUFFICES ASSUME S # {} PROVE FALSE
      OBVIOUS
  <1>1. PICK n \in S : \A y \in S : n <= y
        BY Least
  <1>2. n \in 0..k /\ n \in 0..l /\ n \in Nat /\ g[n] # h[n]
        OBVIOUS
  <1>3. n # 0
        BY <1>2 DEF HalfUpTo
  <1>4. n \div 2 \in 0..(n - 1)
        BY <1>2, <1>3, Half
  <1>5. g[n \div 2] = h[n \div 2]
        BY <1>1, <1>2, <1>4
  <1> QED
      BY <1>2, <1>3, <1>5 DEF HalfUpTo
\* Such a function exists: what FloorPow2 and ClearBits are defined by.
HalfArgs(A, b, H) == b \in A /\ H \in [Nat \ {0} -> [A -> A]]
HalfFunction(A, b, H, f) ==
    f \in [Nat -> A] /\ \A n \in Nat : f[n] = IF n = 0 THEN b ELSE H[n][f[n \div 2]]
LEMMA HalfExists ==
    ASSUME NEW A, NEW b, NEW H, HalfArgs(A, b, H) PROVE \E f : HalfFunction(A, b, H, f)
  <1> USE DEF HalfArgs
  <1> DEFINE G == [n \in Nat |-> (CHOOSE g : HalfUpTo(A, b, H, n, g))[n]]
  <1>1. \A n \in Nat : HalfUpTo(A, b, H, n, CHOOSE g : HalfUpTo(A, b, H, n, g))
        BY HalfStarts
  <1>2. G = [n \in Nat |-> G[n]]
        OBVIOUS
  <1>3. ASSUME NEW n \in Nat
        PROVE  G[n] \in A /\ G[n] = IF n = 0 THEN b ELSE H[n][G[n \div 2]]
    <2> PICK g : g = CHOOSE f : HalfUpTo(A, b, H, n, f)
        OBVIOUS
    <2>1. HalfUpTo(A, b, H, n, g) /\ G[n] = g[n]
          BY <1>1
    <2>2. g[n] \in A /\ g[n] = IF n = 0 THEN b ELSE H[n][g[n \div 2]]
      <3>1. n \in 0..n
            OBVIOUS
      <3> HIDE DEF G
      <3> QED
          BY <2>1, <3>1 DEF HalfUpTo
    <2>3. ASSUME n # 0 PROVE g[n \div 2] = G[n \div 2]
      <3>1. n \div 2 \in Nat /\ n \div 2 <= n
            BY <2>3, Half
      <3> PICK m : m = n \div 2
          OBVIOUS
      <3> PICK h : h = CHOOSE f : HalfUpTo(A, b, H, m, f)
          OBVIOUS
      <3>2. HalfUpTo(A, b, H, m, h) /\ G[m] = h[m] /\ m \in Nat /\ m <= n
            BY <1>1, <3>1
      <3> QED
          BY <2>1, <3>2, HalfSame
    <2> QED
        BY <2>1, <2>2, <2>3
  <1> HIDE DEF G
  <1>4. G \in [Nat -> A]
        BY <1>2, <1>3
  <1> QED
      BY <1>3, <1>4 DEF HalfFunction

LEMMA FloorPow2Def ==
    /\ FloorPow2 \in [Nat -> Nat]
    /\ \A n \in Nat : FloorPow2[n] = IF n <= 1 THEN 1 ELSE 2 * FloorPow2[n \div 2]
  <1> PICK H : H = [n \in Nat \ {0} |-> [v \in Nat |-> IF n = 1 THEN 1 ELSE 2 * v]]
      OBVIOUS
  <1>1. H \in [Nat \ {0} -> [Nat -> Nat]] /\ 1 \in Nat
        OBVIOUS
  <1>2. PICK f \in [Nat -> Nat] :
               \A n \in Nat : f[n] = IF n = 0 THEN 1 ELSE H[n][f[n \div 2]]
    <2>1. HalfArgs(Nat, 1, H)
          BY <1>1 DEF HalfArgs
    <2>2. \E f : HalfFunction(Nat, 1, H, f)
          BY <2>1, HalfExists
    <2> QED
        BY <2>2 DEF HalfFunction
  <1>3. ASSUME NEW n \in Nat PROVE f[n] = IF n <= 1 THEN 1 ELSE 2 * f[n \div 2]
    <2>1. CASE n = 0
          BY <1>2, <2>1
    <2>2. CASE n # 0
      <3>1. f[n \div 2] \in Nat
            BY <2>2, Half
      <3>2. f[n] = H[n][f[n \div 2]]
            BY <1>2, <2>2
      <3> QED
          BY <2>2, <3>1, <3>2
    <2> QED
        BY <2>1, <2>2
  <1>4. f = [n \in Nat |-> IF n <= 1 THEN 1 ELSE 2 * f[n \div 2]]
    <2>1. f = [n \in Nat |-> f[n]]
          OBVIOUS
    <2> QED
        BY <1>3, <2>1
  <1>5. \E g : g = [n \in Nat |-> IF n <= 1 THEN 1 ELSE 2 * g[n \div 2]]
        BY <1>4
  <1>6. FloorPow2 = [n \in Nat |-> IF n <= 1 THEN 1 ELSE 2 * FloorPow2[n \div 2]]
        BY <1>5 DEF FloorPow2
  <1>7. \A n \in Nat : FloorPow2[n] = IF n <= 1 THEN 1 ELSE 2 * FloorPow2[n \div 2]
        BY <1>6
  <1>8. \A n \in Nat : FloorPow2[n] \in Nat
    <2> DEFINE S == {n \in Nat : FloorPow2[n] \notin Nat}
    <2> SUFFICES ASSUME S # {} PROVE FALSE
        OBVIOUS
    <2>1. PICK n \in S : \A y \in S : n <= y
          BY Least
    <2>2. n > 1
          BY <1>7
    <2>3. n \div 2 \in 0..(n - 1)
          BY <2>2, Half
    <2>4. FloorPow2[n \div 2] \in Nat
          BY <2>1, <2>3
    <2> QED
        BY <1>7, <2>2, <2>4
  <1> QED
      BY <1>6, <1>7, <1>8
LEMMA PowBounds == \A n \in Nat \ {0} : FloorPow2[n] \in Nat \ {0} /\ FloorPow2[n] <= n /\ n < 2 * FloorPow2[n]
  <1> DEFINE S == {n \in Nat \ {0} : ~(FloorPow2[n] \in Nat \ {0} /\ FloorPow2[n] <= n /\ n < 2 * FloorPow2[n])}
  <1> SUFFICES ASSUME S # {} PROVE FALSE
      OBVIOUS
  <1>1. PICK n \in S : \A y \in S : n <= y
        BY Least
  <1>2. n > 1
    <2>1. FloorPow2[1] = 1
          BY FloorPow2Def
    <2> QED
        BY <2>1
  <1>3. n \div 2 \in Nat \ {0} /\ n \div 2 < n
        BY <1>2
  <1>4. FloorPow2[n \div 2] \in Nat \ {0} /\ FloorPow2[n \div 2] <= n \div 2 /\ n \div 2 < 2 * FloorPow2[n \div 2]
        BY <1>1, <1>3
  <1>5. FloorPow2[n] = 2 * FloorPow2[n \div 2]
        BY <1>2, FloorPow2Def
  <1> QED
      BY <1>2, <1>4, <1>5
LEMMA DivUp == ASSUME NEW x \in Nat, NEW a \in Nat \ {0}
               PROVE  /\ (x + a - 1) \div a \in Nat
                      /\ ((x + a - 1) \div a) * a \in Nat /\ ((x + a - 1) \div a) * a >= x
                      /\ ((x + a - 1) \div a) * a < x + a
  OBVIOUS

LEMMA SizeSuffices ==
    ASSUME NEW n \in Nat PROVE GetBlockSize(n) \in Nat /\ GetBlockSize(n) >= n
  <1> DEFINE m == Header + n
             low == FloorPow2[m]
  <1>1. m \in Nat \ {0} /\ Page \in Nat \ {0} /\ Header \in Nat
        BY SizesAssumption
  <1>2. low \in Nat /\ low <= m /\ m < 2 * low
        BY <1>1, PowBounds
  <1>3. ((m + Page - 1) \div Page) * Page \in Nat /\ ((m + Page - 1) \div Page) * Page >= m
        BY <1>1, DivUp
  <1> PICK up : up = ((m + Page - 1) \div Page) * Page
      OBVIOUS
  <1>4. GetBlockSize(n) = (IF m > Page THEN up ELSE IF low < m THEN 2 * low ELSE low) - Header
        BY DEF GetBlockSize
  <1>5. up \in Nat /\ up >= Header + n
        BY <1>3
  <1>6. low \in Nat /\ low <= Header + n /\ Header + n < 2 * low
        BY <1>2
  <1> HIDE DEF low
  <1>7. CASE m > Page
    <2>1. GetBlockSize(n) = up - Header
          BY <1>4, <1>7
    <2> QED
        BY <1>1, <1>5, <2>1
  <1>8. CASE ~(m > Page) /\ low < m
    <2>1. GetBlockSize(n) = 2 * low - Header
          BY <1>4, <1>8
    <2> QED
        BY <1>1, <1>6, <2>1
  <1>9. CASE ~(m > Page) /\ ~(low < m)
    <2>1. GetBlockSize(n) = low - Header
          BY <1>4, <1>9
    <2> QED
        BY <1>1, <1>6, <1>9, <2>1
  <1> QED
      BY <1>7, <1>8, <1>9

LEMMA BlockSizeForNat == ASSUME NEW s \in Nat PROVE BlockSizeFor(s) \in Nat
  <1>1. (IF s < Header THEN Header ELSE s - Header) \in Nat
        BY SizesAssumption
  <1> QED
      BY <1>1, SizeSuffices DEF BlockSizeFor

\* A float is off by at most half of what its digits do not show.
LEMMA FloatBounds ==
    ASSUME NEW n \in Nat
    PROVE  Float(n) \in Nat /\ (2 * FloatOne - 1) * n <= 2 * (FloatOne * Float(n))
  <1>1. FloatOne \in Nat /\ FloatOne >= 16
        BY FloatAssumption
  <1>2. CASE n < 2 * FloatOne
    <2>1. Float(n) = n
          BY <1>2 DEF Float
    <2> PICK S : S = FloatOne
        OBVIOUS
    <2>2. S \in Nat /\ (2 * S - 1) * n = 2 * (S * n) - n
          BY <1>1
    <2>3. S * n \in Nat
          BY <1>1
    <2> QED
        BY <2>1, <2>2, <2>3
  <1>3. CASE ~(n < 2 * FloatOne)
    <2> PICK S, p, u, q : S = FloatOne /\ p = FloorPow2[n] /\ u = p \div S /\ q = n % u
        OBVIOUS
    <2>1. S \in Nat /\ S >= 16 /\ n >= 2 * S
          BY <1>1, <1>3
    <2>2. p \in Nat /\ p <= n /\ n < 2 * p
      <3>1. n \in Nat \ {0}
            BY <2>1
      <3> QED
          BY <3>1, PowBounds
    <2>3. p >= S
          BY <2>1, <2>2
    <2>4. u \in Nat \ {0} /\ S * u <= p
          BY <2>1, <2>2, <2>3
    <2>5. q \in Nat /\ q < u /\ q <= n
          BY <2>4
    <2>6. S * u <= n /\ S * u \in Nat
          BY <2>1, <2>2, <2>4
    <2>7. Float(n) = n - q + u \/ (Float(n) = n - q /\ 2 * q <= u)
          BY <1>3, <2>4, <2>5 DEF Float
    <2>8. (2 * S - 1) * n = 2 * (S * n) - n /\ S * n \in Nat
          BY <2>1
    <2>9. CASE Float(n) = n - q + u
      <3>1. Float(n) \in Nat /\ Float(n) >= n
            BY <2>4, <2>5, <2>9
      <3>2. S * Float(n) >= S * n /\ S * Float(n) \in Nat
            BY <2>1, <3>1
      <3> QED
          BY <2>8, <3>1, <3>2
    <2>10. CASE Float(n) = n - q /\ 2 * q <= u
      <3>1. Float(n) \in Nat
            BY <2>5, <2>10
      <3>2. S * Float(n) = S * n - S * q /\ S * q \in Nat
            BY <2>1, <2>5, <2>10
      <3>3. 2 * (S * q) <= S * u
            BY <2>1, <2>4, <2>5, <2>10
      <3> QED
          BY <2>6, <2>8, <3>1, <3>2, <3>3
    <2> QED
        BY <2>7, <2>9, <2>10
  <1> QED
      BY <1>2, <1>3

LEMMA TimesLess ==
    ASSUME NEW k \in Nat, NEW x \in Int, NEW y \in Int, x <= y PROVE k * x <= k * y
  OBVIOUS

\* Line 393: a request that is made a float, multiplied by 1.1f, made a float and
\* truncated is at least the request.
LEMMA GrownSuffices == ASSUME NEW s \in Nat PROVE Grown(s) \in Nat /\ Grown(s) >= s
  <1> PICK S, t, F, N, G : /\ S = FloatOne /\ t = OneAndATenth /\ F = Float(s)
                           /\ N = Float(s) * OneAndATenth /\ G = Float(Float(s) * OneAndATenth)
      OBVIOUS
  <1>1. S \in Nat /\ S >= 16 /\ t \in Nat /\ 10 * t >= 11 * S - 4
        BY FloatAssumption DEF OneAndATenth
  <1>2. F \in Nat /\ (2 * S - 1) * s <= 2 * (S * F)
        BY FloatBounds
  <1>3. N = F * t /\ N \in Nat
        BY <1>1, <1>2
  <1>4. G \in Nat /\ (2 * S - 1) * N <= 2 * (S * G)
        BY <1>3, FloatBounds
  <1> PICK k : k = 2 * S - 1
      OBVIOUS
  <1>5. k \in Nat /\ S >= 16 /\ 2 * S = k + 1
        BY <1>1
  \* Ten times: 11 S - 4 of the factor, and twice a share of 2 S - 1 in 2 S.
  <1>6. F * (11 * S - 4) <= 10 * N
    <2>1. F * (11 * S - 4) <= F * (10 * t)
          BY <1>1, <1>2, TimesLess
    <2>2. F * (10 * t) = 10 * N
          BY <1>1, <1>2, <1>3
    <2> QED
        BY <2>1, <2>2
  <1>7. (k * s) * (11 * S - 4) <= 20 * (S * N)
    <2>1. k * s <= 2 * (S * F) /\ k * s \in Nat /\ S * F \in Nat /\ 11 * S - 4 \in Nat
          BY <1>1, <1>2, <1>5
    <2>2. (11 * S - 4) * (k * s) <= (11 * S - 4) * (2 * (S * F))
          BY <2>1, TimesLess
    <2>3. (11 * S - 4) * (2 * (S * F)) = (2 * S) * (F * (11 * S - 4))
          BY <1>1, <1>2
    <2>4. (2 * S) * (F * (11 * S - 4)) <= (2 * S) * (10 * N)
      <3>1. 2 * S \in Nat /\ F * (11 * S - 4) \in Int /\ 10 * N \in Int
            BY <1>1, <1>2, <1>3
      <3> QED
          BY <1>6, <3>1, TimesLess
    <2>5. (2 * S) * (10 * N) = 20 * (S * N)
          BY <1>1, <1>3
    <2>6. (11 * S - 4) * (k * s) = (k * s) * (11 * S - 4)
          BY <2>1
    <2> QED
        BY <1>1, <1>2, <1>3, <2>1, <2>2, <2>3, <2>4, <2>5, <2>6
  <1>8. k * ((k * s) * (11 * S - 4)) <= 40 * (S * (S * G))
    <2>1. k * ((k * s) * (11 * S - 4)) <= k * (20 * (S * N))
      <3>1. (k * s) * (11 * S - 4) \in Int /\ 20 * (S * N) \in Int
            BY <1>1, <1>3, <1>5
      <3> QED
          BY <1>5, <1>7, <3>1, TimesLess
    <2>2. k * (20 * (S * N)) = (20 * S) * (k * N)
          BY <1>1, <1>3, <1>5
    <2>3. (20 * S) * (k * N) <= (20 * S) * (2 * (S * G))
      <3>1. 20 * S \in Nat /\ k * N \in Int /\ 2 * (S * G) \in Int /\ k * N <= 2 * (S * G)
            BY <1>1, <1>3, <1>4, <1>5
      <3> QED
          BY <3>1, TimesLess
    <2>4. (20 * S) * (2 * (S * G)) = 40 * (S * (S * G))
          BY <1>1, <1>4
    <2> QED
        BY <1>1, <1>3, <1>4, <1>5, <2>1, <2>2, <2>3, <2>4
  \* 2 S - 1 squared times 11 S - 4 is no less than 40 S cubed, from S = 15 on.
  <1>9. 40 * (S * (S * (S * s))) <= k * ((k * s) * (11 * S - 4))
    <2> PICK c, e : c = k * (k * (11 * S - 4)) /\ e = 40 * (S * (S * S))
        OBVIOUS
    <2>1. e <= c /\ e \in Nat /\ c \in Int
      <3>1. c = 44 * (S * (S * S)) - 60 * (S * S) + 27 * S - 4
            BY <1>1
      <3>2. S * S \in Nat /\ S * (S * S) \in Nat /\ S * (S * S) >= 16 * (S * S)
        <4>1. S * S \in Nat
              BY <1>1
        <4>2. (S * S) * 16 <= (S * S) * S
              BY <1>1, <4>1, TimesLess
        <4> QED
            BY <1>1, <4>1, <4>2
      <3> QED
          BY <1>1, <3>1, <3>2
    <2>2. s * e <= s * c
          BY <2>1, TimesLess
    <2>3. s * e = 40 * (S * (S * (S * s)))
          BY <1>1
    <2>4. s * c = k * ((k * s) * (11 * S - 4))
          BY <1>1, <1>5
    <2> QED
        BY <2>2, <2>3, <2>4
  <1>10. S * s <= G
    <2> SUFFICES ASSUME G < S * s PROVE FALSE
        BY <1>1, <1>4
    <2> PICK v : v = S * s
        OBVIOUS
    <2>1. v \in Nat /\ G + 1 <= v
          BY <1>1, <1>4
    <2>2. S * S \in Nat /\ S * S > 0
          BY <1>1
    <2>3. (S * S) * (G + 1) <= (S * S) * v
          BY <1>4, <2>1, <2>2, TimesLess
    <2>4. (S * S) * (G + 1) = S * (S * G) + S * S /\ (S * S) * v = S * (S * (S * s))
          BY <1>1, <1>4
    <2>5. S * (S * G) \in Nat /\ S * (S * (S * s)) \in Nat
          BY <1>1, <1>4
    <2>6. 40 * (S * (S * (S * s))) <= 40 * (S * (S * G))
      <3>1. k * ((k * s) * (11 * S - 4)) \in Int
            BY <1>1, <1>5
      <3> QED
          BY <1>8, <1>9, <2>5, <3>1
    <2> QED
        BY <2>2, <2>3, <2>4, <2>5, <2>6
  <1>11. G \div S \in Nat /\ G \div S >= s
        BY <1>1, <1>4, <1>10
  <1> QED
      BY <1>11 DEF Grown

LEMMA GrowthCovers ==
    ASSUME NEW s \in Nat
    PROVE  GetBlockSize(Grown(s)) \in Nat /\ GetBlockSize(Grown(s)) >= s
  <1>1. \A n \in Nat : GetBlockSize(n) \in Nat /\ GetBlockSize(n) >= n
        BY SizeSuffices
  <1> PICK n : n = Grown(s)
      OBVIOUS
  <1>2. GetBlockSize(n) \in Nat /\ GetBlockSize(n) >= n /\ n \in Nat /\ n >= s
        BY <1>1, GrownSuffices
  <1> QED
      BY <1>2

LEMMA MulMod == ASSUME NEW k \in Nat, NEW a \in Nat \ {0} PROVE (k * a) % a = 0
  OBVIOUS

LEMMA AddMod == ASSUME NEW x \in Nat, NEW y \in Nat, NEW a \in Nat \ {0}, x % a = 0, y % a = 0
                PROVE  (x + y) % a = 0
  <1>1. PICK k \in Nat : x = k * a
    <2>1. x \div a \in Nat /\ x = (x \div a) * a
          OBVIOUS
    <2> QED
        BY <2>1
  <1>2. PICK l \in Nat : y = l * a
    <2>1. y \div a \in Nat /\ y = (y \div a) * a
          OBVIOUS
    <2> QED
        BY <2>1
  <1>3. k + l \in Nat /\ x + y = (k + l) * a
        BY <1>1, <1>2
  <1> QED
      BY <1>3, MulMod

\* What alignment a requires of x: the mask serves powers of two only.
Aligned(x, a) == PowerOfTwo(a) => x % a = 0
LEMMA AddAligned ==
    ASSUME NEW x \in Nat, NEW y \in Nat, NEW a \in Nat \ {0}, Aligned(x, a), Aligned(y, a)
    PROVE  Aligned(x + y, a)
  BY AddMod DEF Aligned

\* The mask of lines 132 and 350 is a recursive function too.
LEMMA ClearBitsDef ==
    \A m \in Nat : ClearBits[m] =
        [x \in Nat |-> IF m = 0 THEN x
                      ELSE 2 * ClearBits[m \div 2][x \div 2]
                             + IF m % 2 = 1 THEN 0 ELSE x % 2]
  <1> DEFINE Step(m, c) ==
               [x \in Nat |-> IF m = 0 THEN x
                             ELSE 2 * c[x \div 2] + IF m % 2 = 1 THEN 0 ELSE x % 2]
  <1> PICK A, b, H : /\ A = [Nat -> Nat] /\ b = [x \in Nat |-> x]
                     /\ H = [m \in Nat \ {0} |-> [c \in [Nat -> Nat] |-> Step(m, c)]]
      OBVIOUS
  <1>1. ASSUME NEW m \in Nat, NEW c \in A PROVE Step(m, c) \in A
    <2>1. \A x \in Nat : x \div 2 \in Nat /\ x % 2 \in Nat
          OBVIOUS
    <2>2. \A x \in Nat : 2 * c[x \div 2] \in Nat
      <3> TAKE x \in Nat
      <3>1. c[x \div 2] \in Nat
            BY <2>1
      <3> QED
          BY <3>1
    <2>3. \A x \in Nat : (IF m = 0 THEN x ELSE 2 * c[x \div 2] + IF m % 2 = 1 THEN 0 ELSE x % 2) \in Nat
          BY <2>1, <2>2
    <2> QED
        BY <2>3
  <1>2. H \in [Nat \ {0} -> [A -> A]]
    <2> HIDE DEF Step
    <2> QED
        BY <1>1
  <1>3. b \in A
        OBVIOUS
  <1>4. HalfArgs(A, b, H)
        BY <1>2, <1>3 DEF HalfArgs
  <1>5. PICK f : HalfFunction(A, b, H, f)
        BY <1>4, HalfExists
  <1>6. f \in [Nat -> A] /\ \A n \in Nat : f[n] = IF n = 0 THEN b ELSE H[n][f[n \div 2]]
        BY <1>5 DEF HalfFunction
  <1>7. ASSUME NEW m \in Nat PROVE f[m] = Step(m, f[m \div 2])
    <2>1. CASE m = 0
      <3>1. f[0] = b
            BY <1>6
      <3> QED
          BY <2>1, <3>1
    <2>2. CASE m # 0
      <3>1. f[m \div 2] \in A
        <4>1. m \div 2 \in Nat
              BY <2>2, Half
        <4> QED
            BY ONLY <1>6, <4>1
      <3>2. f[m] = H[m][f[m \div 2]]
            BY <1>6, <2>2
      <3> HIDE DEF Step
      <3> QED
          BY <2>2, <3>1, <3>2
    <2> QED
        BY <2>1, <2>2
  <1>8. f = [m \in Nat |-> Step(m, f[m \div 2])]
    <2>1. f = [m \in Nat |-> f[m]]
          BY <1>6
    <2> HIDE DEF Step
    <2> QED
        BY <1>7, <2>1
  <1>9. \E g : g = [m \in Nat |-> Step(m, g[m \div 2])]
        BY <1>8
  <1>10. ClearBits = [m \in Nat |-> Step(m, ClearBits[m \div 2])]
         BY <1>9 DEF ClearBits
  <1> QED
      BY <1>10

LEMMA HalfAndRest ==
    ASSUME NEW n \in Nat
    PROVE  \E h, q : h = n \div 2 /\ q = n % 2 /\ n = 2 * h + q /\ (q = 0 \/ q = 1) /\ h \in Nat
  <1>1. n % 2 = n - 2 * (n \div 2) /\ n \div 2 \in Nat
        BY SMTT(30)
  <1>2. n % 2 = 0 \/ n % 2 = 1
        OBVIOUS
  <1>0. PICK h, q : h = n \div 2 /\ q = n % 2
        OBVIOUS
  <1>3. q = n - 2 * h /\ h \in Nat /\ (q = 0 \/ q = 1) /\ n \in Nat
        BY <1>0, <1>1, <1>2
  <1>4. n = 2 * h + q
        BY ONLY <1>3
  <1> QED
      BY ONLY <1>0, <1>3, <1>4, Zenon
LEMMA ClearBitsAt ==
    ASSUME NEW m \in Nat, NEW x \in Nat
    PROVE  ClearBits[m][x] = IF m = 0 THEN x
                             ELSE 2 * ClearBits[m \div 2][x \div 2]
                                    + IF m % 2 = 1 THEN 0 ELSE x % 2
  BY ClearBitsDef

\* It takes away at most what it masks.
ClearsLittle(m) == \A x \in Nat : /\ ClearBits[m][x] \in Nat
                                  /\ ClearBits[m][x] <= x /\ x <= ClearBits[m][x] + m
LEMMA ClearBitsBounds == \A m \in Nat : ClearsLittle(m)
  <1> DEFINE S == {m \in Nat : ~ClearsLittle(m)}
  <1> SUFFICES ASSUME S # {} PROVE FALSE
      OBVIOUS
  <1>1. PICK m \in S : \A y \in S : m <= y
    <2> HIDE DEF S
    <2>1. S \subseteq Nat
          BY DEF S
    <2> QED
        BY <2>1, Least
  <1>2. PICK x \in Nat : ~(/\ ClearBits[m][x] \in Nat
                            /\ ClearBits[m][x] <= x /\ x <= ClearBits[m][x] + m)
        BY DEF ClearsLittle
  <1>3. ClearBits[m][x] = IF m = 0 THEN x
                          ELSE 2 * ClearBits[m \div 2][x \div 2]
                                 + IF m % 2 = 1 THEN 0 ELSE x % 2
        BY ClearBitsAt
  <1>4. m # 0
        BY <1>2, <1>3
  <1>5. m \div 2 \in Nat /\ m \div 2 \notin S
    <2>1. m \div 2 \in 0..(m - 1)
          BY <1>4, Half
    <2> QED
        BY <1>1, <2>1
  <1>0. PICK c, k, y : c = ClearBits[m \div 2][x \div 2] /\ k = m \div 2 /\ y = x \div 2
        OBVIOUS
  <1>n. m \in Nat /\ x \in Nat
        OBVIOUS
  <1>6. y \in Nat /\ c \in Nat /\ c <= y /\ y <= c + k /\ k \in Nat
    <2>1. x \div 2 \in Nat /\ ClearsLittle(m \div 2)
          BY <1>5
    <2> QED
        BY <1>0, <1>5, <2>1 DEF ClearsLittle
  <1> PICK d : d = ClearBits[m][x]
      OBVIOUS
  <1>r. PICK e, g : e = m % 2 /\ g = x % 2
        OBVIOUS
  <1>7. d = 2 * c + IF e = 1 THEN 0 ELSE g
        BY <1>0, <1>r, <1>3, <1>4
  <1>8. x = 2 * y + g /\ m = 2 * k + e /\ (g = 0 \/ g = 1) /\ (e = 0 \/ e = 1)
    <2>1. PICK h, q : h = x \div 2 /\ q = x % 2 /\ x = 2 * h + q /\ (q = 0 \/ q = 1) /\ h \in Nat
          BY <1>n, HalfAndRest
    <2>2. PICK i, r : i = m \div 2 /\ r = m % 2 /\ m = 2 * i + r /\ (r = 0 \/ r = 1) /\ i \in Nat
          BY <1>n, HalfAndRest
    <2>3. h = y /\ q = g /\ i = k /\ r = e
          BY <1>0, <1>r, <2>1, <2>2
    <2> QED
        BY ONLY <2>1, <2>2, <2>3
  <1>9. ~(d \in Nat /\ d <= x /\ x <= d + m)
        BY <1>2
  <1>10. CASE e = 1
    <2>0. d = 2 * c
          BY ONLY <1>6, <1>7, <1>10
    <2>1. m = 2 * k + 1
          BY ONLY <1>8, <1>10
    <2>2. d \in Nat /\ d <= x
          BY ONLY <1>6, <1>8, <2>0
    <2>3. x <= d + m
          BY ONLY <1>6, <1>8, <2>0, <2>1
    <2> QED
        BY <1>9, <2>2, <2>3
  <1>11. CASE e = 0
    <2>1. d = 2 * c + g
          BY <1>7, <1>11
    <2> QED
        BY ONLY <1>6, <1>8, <1>9, <1>11, <2>1
  <1> QED
      BY <1>8, <1>10, <1>11

LEMMA AlignUpBounds ==
    ASSUME NEW x \in Nat, NEW a \in Nat \ {0}
    PROVE  AlignUp(x, a) \in Nat /\ AlignUp(x, a) >= x /\ AlignUp(x, a) < x + a
  <1>1. a - 1 \in Nat /\ x + a - 1 \in Nat
        OBVIOUS
  <1> PICK m, y : m = a - 1 /\ y = x + a - 1
      OBVIOUS
  <1>2. ClearBits[m][y] \in Nat /\ ClearBits[m][y] <= y /\ y <= ClearBits[m][y] + m
        BY <1>1, ClearBitsBounds DEF ClearsLittle
  <1> QED
      BY <1>1, <1>2 DEF AlignUp

\* With a power of two the mask leaves a multiple of it.
LEMMA AlignUpAligns ==
    ASSUME NEW x \in Nat, NEW a \in Nat \ {0} PROVE Aligned(AlignUp(x, a), a)
  <1> SUFFICES ASSUME PowerOfTwo(a) PROVE AlignUp(x, a) % a = 0
      BY DEF Aligned
  <1> DEFINE Clears(b) == \A y \in Nat : \E k \in Nat : ClearBits[b - 1][y] = k * b
             S == {b \in Nat \ {0} : PowerOfTwo(b) /\ ~Clears(b)}
  <1>1. S = {}
    <2> SUFFICES ASSUME S # {} PROVE FALSE
        OBVIOUS
    <2> HIDE DEF Clears
    <2>1. PICK b \in S : \A y \in S : b <= y
      <3> HIDE DEF S
      <3>1. S \subseteq Nat
            BY DEF S
      <3> QED
          BY <3>1, Least
    <2>2. b \in Nat \ {0} /\ FloorPow2[b] = b /\ ~Clears(b)
          BY DEF PowerOfTwo
    <2>3. CASE b = 1
      <3>1. ASSUME NEW y \in Nat PROVE \E k \in Nat : ClearBits[1 - 1][y] = k * 1
        <4>1. ClearBits[0][y] = y
              BY ClearBitsAt
        <4> QED
            BY <4>1
      <3> QED
          BY <2>2, <2>3, <3>1 DEF Clears
    <2>4. CASE b # 1
      <3> PICK h : h = b \div 2
          OBVIOUS
      <3>1. b > 1 /\ h \in Nat \ {0} /\ h < b /\ FloorPow2[b] = 2 * FloorPow2[h]
            BY <2>2, <2>4, FloorPow2Def
      <3>2. FloorPow2[h] \in Nat /\ b = 2 * FloorPow2[h]
            BY <2>2, <3>1, FloorPow2Def
      <3>3. b = 2 * h /\ FloorPow2[h] = h
            BY <2>2, <3>1, <3>2
      <3>4. Clears(h)
            BY <2>1, <3>1, <3>3 DEF PowerOfTwo
      <3>5. ASSUME NEW y \in Nat PROVE \E k \in Nat : ClearBits[b - 1][y] = k * b
        <4> PICK m : m = b - 1
            OBVIOUS
        <4>1. m \in Nat /\ m # 0 /\ m % 2 = 1 /\ m \div 2 = h - 1 /\ y \div 2 \in Nat
              BY <2>2, <3>1, <3>3
        <4>2. ClearBits[m][y] = 2 * ClearBits[m \div 2][y \div 2] + 0
              BY <4>1, ClearBitsAt
        <4>3. PICK k \in Nat : ClearBits[h - 1][y \div 2] = k * h
              BY <3>4, <4>1 DEF Clears
        <4>4. ClearBits[m][y] = 2 * (k * h) + 0
              BY <4>1, <4>2, <4>3
        <4>5. 2 * (k * h) + 0 = k * b
              BY <3>1, <3>3
        <4> QED
            BY <4>4, <4>5
      <3> QED
          BY <2>2, <3>5 DEF Clears
    <2> QED
        BY <2>3, <2>4
  <1>2. PICK k \in Nat : ClearBits[a - 1][x + a - 1] = k * a
    <2>1. Clears(a)
      <3> HIDE DEF Clears
      <3> QED
          BY <1>1
    <2>2. x + a - 1 \in Nat
          OBVIOUS
    <2> QED
        BY <2>1, <2>2
  <1> QED
      BY <1>2, MulMod DEF AlignUp
--------------------------------------------------------------------------------
(* Chains and heaps *)

HeapOK(h) == DOMAIN h \subseteq Block /\ \A b \in DOMAIN h : h[b] \in Nat

Linked(h, c) == c \in Seq(Block) /\ IsInjective(c) /\ Blocks(c) \subseteq DOMAIN h

\* Chain c of heap h becomes chain c2 of heap h2: what is in neither stays as it
\* is, and c2 takes no block of it.
Rechained(h, c, h2, c2) ==
    /\ HeapOK(h2) /\ Linked(h2, c2)
    /\ \A b : b \in DOMAIN h2 <=> (b \in DOMAIN h /\ b \notin Blocks(c)) \/ b \in Blocks(c2)
    /\ \A b \in DOMAIN h : b \notin Blocks(c) => b \notin Blocks(c2) /\ h2[b] = h[b]

LEMMA BlocksOf ==
    ASSUME NEW S, NEW c \in Seq(S)
    PROVE  \A b : b \in Blocks(c) <=> \E i \in 1..Len(c) : c[i] = b
  BY LenProperties DEF Blocks

LEMMA InjectiveSeq ==
    ASSUME NEW S, NEW c \in Seq(S)
    PROVE  IsInjective(c) <=> \A i, j \in 1..Len(c) : c[i] = c[j] => i = j
  BY LenProperties DEF IsInjective

LEMMA ChainBlocks ==
    \A c \in Seq(Block) : \A b : b \in Blocks(c) <=> \E i \in 1..Len(c) : c[i] = b
  BY BlocksOf

LEMMA ChainInjective ==
    \A c \in Seq(Block) : IsInjective(c) <=> \A i, j \in 1..Len(c) : c[i] = c[j] => i = j
  BY InjectiveSeq

LEMMA BlocksOfNone == Blocks(<< >>) = {} /\ IsInjective(<< >>)
  BY DEF Blocks, IsInjective

LEMMA RechainedSame ==
    ASSUME NEW h, NEW c, HeapOK(h), Linked(h, c) PROVE Rechained(h, c, h, c)
  BY DEF Rechained, Linked

LEMMA RechainedTwice ==
    ASSUME NEW h, NEW c, NEW h2, NEW c2, NEW h3, NEW c3,
           Rechained(h, c, h2, c2), Rechained(h2, c2, h3, c3)
    PROVE  Rechained(h, c, h3, c3)
  BY DEF Rechained

LEMMA NewBlockIsFree ==
    ASSUME NEW h, NEW b \in Block, b \notin DOMAIN h
    PROVE  NewBlock(h) \in Block /\ NewBlock(h) \notin DOMAIN h
  BY DEF NewBlock

LEMMA Created ==
    ASSUME NEW h, NEW capacity \in Nat, HeapOK(h), NewBlock(h) \in Block \ DOMAIN h
    PROVE  /\ HeapOK(Create(h, capacity))
           /\ DOMAIN Create(h, capacity) = DOMAIN h \cup {NewBlock(h)}
           /\ Create(h, capacity)[NewBlock(h)] = capacity
           /\ \A b \in DOMAIN h : Create(h, capacity)[b] = h[b]
  BY DEF HeapOK, Create

LEMMA Appended ==
    ASSUME NEW h, NEW c, NEW capacity \in Nat, HeapOK(h), Linked(h, c),
           NewBlock(h) \in Block \ DOMAIN h
    PROVE  /\ Rechained(h, c, Create(h, capacity), Append(c, NewBlock(h)))
           /\ Len(Append(c, NewBlock(h))) = Len(c) + 1
           /\ \A i \in 1..Len(c) : Append(c, NewBlock(h))[i] = c[i]
           /\ Append(c, NewBlock(h))[Len(c) + 1] = NewBlock(h)
  <1> PICK n : n = NewBlock(h)
      OBVIOUS
  <1> PICK d : d = Append(c, n)
      OBVIOUS
  <1> PICK g : g = Create(h, capacity)
      OBVIOUS
  <1>1. c \in Seq(Block) /\ Len(c) \in Nat /\ IsInjective(c) /\ Blocks(c) \subseteq DOMAIN h
        BY DEF Linked
  <1>2. d \in Seq(Block) /\ Len(d) = Len(c) + 1 /\ (\A i \in 1..Len(c) : d[i] = c[i]) /\ d[Len(c) + 1] = n
        BY <1>1, AppendProperties
  <1>3. \A b : b \in Blocks(c) <=> \E i \in 1..Len(c) : c[i] = b
        BY <1>1, ChainBlocks
  <1>4. \A b : b \in Blocks(d) <=> \E i \in 1..Len(d) : d[i] = b
        BY <1>2, ChainBlocks
  <1>5. \A b : b \in Blocks(d) <=> b \in Blocks(c) \/ b = n
    <2>1. ASSUME NEW b \in Blocks(d) PROVE b \in Blocks(c) \/ b = n
      <3>1. PICK i \in 1..Len(d) : d[i] = b
            BY <1>4
      <3>2. i \in 1..Len(c) \/ i = Len(c) + 1
            BY <1>1, <1>2
      <3> QED
          BY <1>2, <1>3, <3>1, <3>2
    <2>2. ASSUME NEW b \in Blocks(c) PROVE b \in Blocks(d)
          BY <1>1, <1>2, <1>3, <1>4
    <2>3. n \in Blocks(d)
      <3>1. Len(c) + 1 \in 1..Len(d)
            BY <1>1, <1>2
      <3> QED
          BY <1>2, <1>4, <3>1
    <2> QED
        BY <2>1, <2>2, <2>3
  <1>6. IsInjective(d)
    <2> SUFFICES ASSUME NEW i \in 1..Len(d), NEW j \in 1..Len(d), d[i] = d[j] PROVE i = j
        BY <1>2, ChainInjective
    <2>1. \A k \in 1..Len(c) : c[k] # n
          BY <1>1, <1>3
    <2>2. \A k, l \in 1..Len(c) : c[k] = c[l] => k = l
          BY <1>1, ChainInjective
    <2>3. (i \in 1..Len(c) \/ i = Len(c) + 1) /\ (j \in 1..Len(c) \/ j = Len(c) + 1)
          BY <1>1, <1>2
    <2> QED
        BY <1>2, <2>1, <2>2, <2>3
  <1>7. /\ HeapOK(g) /\ DOMAIN g = DOMAIN h \cup {n} /\ \A b \in DOMAIN h : g[b] = h[b]
        BY Created
  <1>8. n \notin DOMAIN h
        OBVIOUS
  <1>9. Rechained(h, c, g, d)
        BY <1>1, <1>2, <1>5, <1>6, <1>7, <1>8 DEF Rechained, Linked
  <1> QED
      BY <1>2, <1>9

LEMMA Prepended ==
    ASSUME NEW h, NEW c, NEW capacity \in Nat, HeapOK(h), Linked(h, c),
           NewBlock(h) \in Block \ DOMAIN h
    PROVE  /\ Rechained(h, c, Create(h, capacity), <<NewBlock(h)>> \o c)
           /\ Len(<<NewBlock(h)>> \o c) = Len(c) + 1
           /\ \A i \in 1..Len(c) : (<<NewBlock(h)>> \o c)[i + 1] = c[i]
           /\ (<<NewBlock(h)>> \o c)[1] = NewBlock(h)
  <1>nn. PICK n : n = NewBlock(h)
      OBVIOUS
  <1>dd. PICK d : d = <<n>> \o c
      OBVIOUS
  <1>gg. PICK g : g = Create(h, capacity)
      OBVIOUS
  <1>1. c \in Seq(Block) /\ Len(c) \in Nat /\ IsInjective(c) /\ Blocks(c) \subseteq DOMAIN h
        BY DEF Linked
  <1>2. d \in Seq(Block) /\ Len(d) = Len(c) + 1 /\ (\A i \in 1..Len(c) : d[i + 1] = c[i]) /\ d[1] = n
    <2>1. <<n>> \in Seq(Block) /\ Len(<<n>>) = 1 /\ <<n>>[1] = n
          BY <1>nn
    <2>2. d \in Seq(Block) /\ Len(d) = 1 + Len(c)
          BY <1>1, <1>dd, <2>1, ConcatProperties
    <2>3. \A i \in 1..1 + Len(c) : d[i] = IF i <= 1 THEN <<n>>[i] ELSE c[i - 1]
          BY <1>1, <1>dd, <2>1, ConcatProperties
    <2>4. ASSUME NEW i \in 1..Len(c) PROVE d[i + 1] = c[i]
      <3>1. i + 1 \in 1..1 + Len(c) /\ ~(i + 1 <= 1) /\ (i + 1) - 1 = i
            BY <1>1
      <3> QED
          BY <2>3, <3>1
    <2>5. d[1] = n
      <3>1. 1 \in 1..1 + Len(c)
            BY <1>1
      <3> QED
          BY <2>1, <2>3, <3>1
    <2> QED
        BY <1>1, <2>2, <2>4, <2>5
  <1>8. n \notin DOMAIN h
        BY <1>nn
  <1>3. \A b : b \in Blocks(c) <=> \E i \in 1..Len(c) : c[i] = b
        BY <1>1, ChainBlocks
  <1>4. \A b : b \in Blocks(d) <=> \E i \in 1..Len(d) : d[i] = b
        BY <1>2, ChainBlocks
  <1>a. \A i \in 1..Len(d) : i # 1 => i - 1 \in 1..Len(c) /\ d[i] = c[i - 1]
    <2> SUFFICES ASSUME NEW i \in 1..Len(d), i # 1 PROVE i - 1 \in 1..Len(c) /\ d[i] = c[i - 1]
        OBVIOUS
    <2>1. i - 1 \in 1..Len(c) /\ (i - 1) + 1 = i
          BY <1>1, <1>2
    <2> QED
        BY <1>2, <2>1
  <1>5. \A b : b \in Blocks(d) <=> b \in Blocks(c) \/ b = n
    <2>1. ASSUME NEW b \in Blocks(d) PROVE b \in Blocks(c) \/ b = n
      <3>1. PICK i \in 1..Len(d) : d[i] = b
            BY <1>4
      <3> QED
          BY <1>2, <1>3, <1>a, <3>1
    <2>2. ASSUME NEW b \in Blocks(c) PROVE b \in Blocks(d)
      <3>1. PICK i \in 1..Len(c) : c[i] = b
            BY <1>3
      <3>2. i + 1 \in 1..Len(d)
            BY <1>1, <1>2
      <3> QED
          BY <1>2, <1>4, <3>1, <3>2
    <2>3. n \in Blocks(d)
      <3>1. 1 \in 1..Len(d)
            BY <1>1, <1>2
      <3> QED
          BY <1>2, <1>4, <3>1
    <2> QED
        BY <2>1, <2>2, <2>3
  <1>6. IsInjective(d)
    <2> SUFFICES ASSUME NEW i \in 1..Len(d), NEW j \in 1..Len(d), d[i] = d[j] PROVE i = j
        BY <1>2, ChainInjective
    <2>1. \A k \in 1..Len(c) : c[k] # n
          BY <1>1, <1>3, <1>8
    <2>2. \A k, l \in 1..Len(c) : c[k] = c[l] => k = l
          BY <1>1, ChainInjective
    <2>3. CASE i = 1 \/ j = 1
          BY <1>2, <1>a, <2>1, <2>3
    <2>4. CASE i # 1 /\ j # 1
      <3>1. i - 1 = j - 1
            BY <1>a, <2>2, <2>4
      <3> QED
          BY <3>1
    <2> QED
        BY <2>3, <2>4
  <1>7. /\ HeapOK(g) /\ DOMAIN g = DOMAIN h \cup {n} /\ \A b \in DOMAIN h : g[b] = h[b]
        BY <1>nn, <1>gg, Created
  <1>9. Rechained(h, c, g, d)
        BY <1>1, <1>2, <1>5, <1>6, <1>7, <1>8 DEF Rechained, Linked
  <1> QED
      BY <1>2, <1>9, <1>nn, <1>dd, <1>gg

LEMMA DestroyedRest ==
    ASSUME NEW h, NEW B, HeapOK(h)
    PROVE  /\ HeapOK(Destroy(h, B)) /\ DOMAIN Destroy(h, B) = DOMAIN h \ B
           /\ \A b \in DOMAIN h \ B : Destroy(h, B)[b] = h[b]
  BY DEF HeapOK, Destroy

LEMMA SubSeqOf ==
    ASSUME NEW S, NEW c \in Seq(S), NEW i \in Nat \ {0}, NEW j \in Nat, j <= Len(c), i <= j + 1
    PROVE  /\ SubSeq(c, i, j) \in Seq(S) /\ Len(SubSeq(c, i, j)) = j + 1 - i
           /\ \A k \in 1..(j + 1 - i) : SubSeq(c, i, j)[k] = c[k + i - 1]
           /\ \A b : b \in Blocks(SubSeq(c, i, j)) <=> \E k \in i..j : c[k] = b
  <1> PICK d : d = SubSeq(c, i, j)
      OBVIOUS
  <1>0. Len(c) \in Nat /\ \A k \in 1..Len(c) : c[k] \in S
        BY LenProperties
  <1>1. \A k \in i..j : c[k] \in S
        BY <1>0
  <1>2. /\ d \in Seq(S) /\ Len(d) = IF i <= j THEN j - i + 1 ELSE 0
        /\ \A k \in 1..j - i + 1 : d[k] = c[i + k - 1]
        BY <1>1, SubSeqProperties
  <1>3. Len(d) = j + 1 - i /\ j - i + 1 = j + 1 - i
        BY <1>2
  <1>4. \A k \in 1..(j + 1 - i) : d[k] = c[k + i - 1]
    <2> SUFFICES ASSUME NEW k \in 1..(j + 1 - i) PROVE d[k] = c[k + i - 1]
        OBVIOUS
    <2>1. i + k - 1 = k + i - 1
          OBVIOUS
    <2> QED
        BY <1>2, <1>3, <2>1
  <1>5. \A b : b \in Blocks(d) <=> \E k \in 1..Len(d) : d[k] = b
        BY <1>2, BlocksOf
  <1>6. ASSUME NEW b PROVE b \in Blocks(d) <=> \E k \in i..j : c[k] = b
    <2>1. ASSUME NEW k \in 1..Len(d), d[k] = b PROVE \E l \in i..j : c[l] = b
      <3>1. k + i - 1 \in i..j
            BY <1>3
      <3> QED
          BY <1>3, <1>4, <2>1, <3>1
    <2>2. ASSUME NEW l \in i..j, c[l] = b PROVE \E k \in 1..Len(d) : d[k] = b
      <3>1. l - i + 1 \in 1..(j + 1 - i) /\ (l - i + 1) + i - 1 = l
            OBVIOUS
      <3>2. d[l - i + 1] = b
            BY <1>4, <2>2, <3>1
      <3> QED
          BY <1>3, <3>1, <3>2
    <2> QED
        BY <1>5, <2>1, <2>2
  <1> QED
      BY <1>2, <1>3, <1>4, <1>6

\* The chain is cut off after position k and the rest is destroyed.
LEMMA CutOff ==
    ASSUME NEW h, NEW c, HeapOK(h), Linked(h, c), NEW k \in 0..Len(c)
    PROVE  /\ Rechained(h, c, Destroy(h, Blocks(SubSeq(c, k + 1, Len(c)))), SubSeq(c, 1, k))
           /\ Len(SubSeq(c, 1, k)) = k
           /\ \A i \in 1..k : /\ SubSeq(c, 1, k)[i] = c[i]
                              /\ Destroy(h, Blocks(SubSeq(c, k + 1, Len(c))))[c[i]] = h[c[i]]
  <1>dd. PICK d : d = SubSeq(c, 1, k)
      OBVIOUS
  <1>BB. PICK B : B = Blocks(SubSeq(c, k + 1, Len(c)))
      OBVIOUS
  <1>gg. PICK g : g = Destroy(h, B)
      OBVIOUS
  <1>1. c \in Seq(Block) /\ Len(c) \in Nat /\ IsInjective(c) /\ Blocks(c) \subseteq DOMAIN h
        BY DEF Linked
  <1>2. \A b : b \in B <=> \E i \in (k + 1)..Len(c) : c[i] = b
    <2>1. k + 1 \in Nat \ {0} /\ Len(c) <= Len(c) /\ k + 1 <= Len(c) + 1
          BY <1>1
    <2> PICK l : l = Len(c)
        OBVIOUS
    <2> PICK m : m = k + 1
        OBVIOUS
    <2>2. \A b : b \in Blocks(SubSeq(c, m, l)) <=> \E i \in m..l : c[i] = b
          BY <1>1, <2>1, SubSeqOf
    <2> QED
        BY <1>BB, <2>2
  <1>3. d \in Seq(Block) /\ Len(d) = k /\ \A i \in 1..k : d[i] = c[i]
    <2>1. 1 \in Nat \ {0} /\ k \in Nat /\ k <= Len(c) /\ 1 <= k + 1 /\ k + 1 - 1 = k /\ \A i \in 1..k : i + 1 - 1 = i
          BY <1>1
    <2>2. d \in Seq(Block) /\ Len(d) = k + 1 - 1 /\ \A i \in 1..(k + 1 - 1) : d[i] = c[i + 1 - 1]
          BY <1>1, <1>dd, <2>1, SubSeqOf
    <2> QED
        BY <2>1, <2>2
  <1>4. \A b : b \in Blocks(c) <=> \E i \in 1..Len(c) : c[i] = b
        BY <1>1, ChainBlocks
  <1>5. \A b : b \in Blocks(d) <=> \E i \in 1..k : c[i] = b
        BY <1>3, ChainBlocks
  <1>6. \A i, j \in 1..Len(c) : c[i] = c[j] => i = j
        BY <1>1, ChainInjective
  <1>7. IsInjective(d)
        BY <1>1, <1>3, <1>6, ChainInjective
  <1>8. \A b : b \in Blocks(d) <=> b \in Blocks(c) /\ b \notin B
    <2>1. ASSUME NEW b \in Blocks(d) PROVE b \in Blocks(c) /\ b \notin B
          BY <1>1, <1>2, <1>4, <1>5, <1>6
    <2>2. ASSUME NEW b \in Blocks(c), b \notin B PROVE b \in Blocks(d)
          BY <1>1, <1>2, <1>4, <1>5, <2>2
    <2> QED
        BY <2>1, <2>2
  <1>a. \A b : b \in B => b \in Blocks(c)
        BY <1>1, <1>2, <1>4
  <1>9. HeapOK(g) /\ DOMAIN g = DOMAIN h \ B /\ \A b \in DOMAIN h \ B : g[b] = h[b]
        BY <1>gg, DestroyedRest
  <1>10. Rechained(h, c, g, d)
        BY <1>1, <1>3, <1>7, <1>8, <1>9, <1>a DEF Rechained, Linked
  <1>11. \A i \in 1..k : g[c[i]] = h[c[i]]
        BY <1>1, <1>4, <1>5, <1>8, <1>9
  <1> QED
      BY <1>3, <1>10, <1>11, <1>BB, <1>dd, <1>gg

LEMMA Emptied ==
    ASSUME NEW h, NEW c, HeapOK(h), Linked(h, c)
    PROVE  Rechained(h, c, Destroy(h, Blocks(c)), << >>)
  <1>1. HeapOK(Destroy(h, Blocks(c))) /\ DOMAIN Destroy(h, Blocks(c)) = DOMAIN h \ Blocks(c)
        /\ \A b \in DOMAIN h \ Blocks(c) : Destroy(h, Blocks(c))[b] = h[b]
        BY DestroyedRest
  <1>2. << >> \in Seq(Block)
        OBVIOUS
  <1> QED
      BY <1>1, <1>2, BlocksOfNone DEF Rechained, Linked

LEMMA MinIn == ASSUME NEW S, S \subseteq Nat, S # {} PROVE Min(S) \in S
  <1>1. \E x \in S : \A y \in S : x <= y
        BY Least
  <1> QED
      BY <1>1 DEF Min

LEMMA ChainPart ==
    \A c \in Seq(Block), i \in Nat \ {0}, j \in Nat :
        j <= Len(c) /\ i <= j + 1 =>
          \A b : b \in Blocks(SubSeq(c, i, j)) <=> \E k \in i..j : c[k] = b
  BY SubSeqOf

\* Chain c with its blocks i..j replaced by n.
Splice(c, i, j, n) == SubSeq(c, 1, i - 1) \o <<n>> \o SubSeq(c, j + 1, Len(c))

LEMMA Spliced ==
    ASSUME NEW c \in Seq(Block), NEW i \in 1..Len(c), NEW j \in i..Len(c), NEW n \in Block
    PROVE  /\ Splice(c, i, j, n) \in Seq(Block) /\ Len(Splice(c, i, j, n)) = Len(c) + i - j
           /\ \A k \in 1..(i - 1) : Splice(c, i, j, n)[k] = c[k]
           /\ Splice(c, i, j, n)[i] = n
           /\ \A k \in (i + 1)..(Len(c) + i - j) : Splice(c, i, j, n)[k] = c[k + j - i]
  <1>d. PICK d : d = Splice(c, i, j, n)
        OBVIOUS
  <1>1. PICK l \in Nat : l = Len(c)
        BY LenProperties
  <1>2. PICK m : m = i - 1
        OBVIOUS
  <1>3. PICK u : u = j + 1
        OBVIOUS
  <1>4. m \in Nat /\ m <= l /\ 1 <= m + 1 /\ m + 1 - 1 = m /\ i = m + 1
        BY <1>1, <1>2
  <1>5. u \in Nat \ {0} /\ l <= l /\ u <= l + 1 /\ j = u - 1
        BY <1>1, <1>3
  <1>a. PICK a : a = SubSeq(c, 1, m)
        OBVIOUS
  <1>b. PICK b : b = SubSeq(c, u, l)
        OBVIOUS
  <1>e. PICK e : e = a \o <<n>>
        OBVIOUS
  <1>6. a \in Seq(Block) /\ Len(a) = m /\ \A k \in 1..m : a[k] = c[k]
    <2>1. a \in Seq(Block) /\ Len(a) = m + 1 - 1 /\ \A k \in 1..(m + 1 - 1) : a[k] = c[k + 1 - 1]
          BY <1>1, <1>4, <1>a, SubSeqOf
    <2>2. \A k \in 1..m : k + 1 - 1 = k
          BY <1>4
    <2> QED
        BY <1>4, <2>1, <2>2
  <1>7. b \in Seq(Block) /\ Len(b) = l + 1 - u /\ \A k \in 1..(l + 1 - u) : b[k] = c[k + u - 1]
        BY <1>1, <1>5, <1>b, SubSeqOf
  <1>8. <<n>> \in Seq(Block) /\ Len(<<n>>) = 1 /\ <<n>>[1] = n
        OBVIOUS
  <1>9. /\ e \in Seq(Block) /\ Len(e) = m + 1
        /\ \A k \in 1..m + 1 : e[k] = IF k <= m THEN a[k] ELSE <<n>>[k - m]
    <2>1. /\ e \in Seq(Block) /\ Len(e) = Len(a) + Len(<<n>>)
          /\ \A k \in 1..Len(a) + Len(<<n>>) : e[k] = IF k <= Len(a) THEN a[k] ELSE <<n>>[k - Len(a)]
          BY <1>6, <1>8, <1>e, ConcatProperties
    <2> QED
        BY <1>6, <1>8, <2>1
  <1>10. /\ d \in Seq(Block) /\ Len(d) = m + 1 + (l + 1 - u)
         /\ \A k \in 1..m + 1 + (l + 1 - u) : d[k] = IF k <= m + 1 THEN e[k] ELSE b[k - (m + 1)]
    <2>1. d = e \o b
          BY <1>1, <1>2, <1>3, <1>a, <1>b, <1>d, <1>e DEF Splice
    <2>2. /\ d \in Seq(Block) /\ Len(d) = Len(e) + Len(b)
          /\ \A k \in 1..Len(e) + Len(b) : d[k] = IF k <= Len(e) THEN e[k] ELSE b[k - Len(e)]
          BY <1>7, <1>9, <2>1, ConcatProperties
    <2> QED
        BY <1>7, <1>9, <2>2
  <1>11. Len(d) = l + i - j
        BY SMTT(20), <1>1, <1>4, <1>5, <1>10
  <1>12. ASSUME NEW k \in 1..(i - 1) PROVE d[k] = c[k]
    <2>1. k \in 1..m /\ k <= m + 1 /\ k \in 1..m + 1 + (l + 1 - u) /\ k \in 1..m + 1 /\ k <= m
          BY <1>2, <1>4, <1>5
    <2> QED
        BY <1>6, <1>9, <1>10, <2>1
  <1>13. d[i] = n
    <2>1. i <= m + 1 /\ i \in 1..m + 1 + (l + 1 - u) /\ i \in 1..m + 1 /\ ~(i <= m) /\ i - m = 1
          BY <1>4, <1>5
    <2>2. d[i] = e[i]
          BY <1>10, <2>1
    <2>3. e[i] = <<n>>[i - m]
          BY <1>9, <2>1
    <2> QED
        BY <1>8, <2>1, <2>2, <2>3
  <1>14. ASSUME NEW k \in (i + 1)..(Len(c) + i - j) PROVE d[k] = c[k + j - i]
    <2>1. /\ ~(k <= m + 1) /\ k \in 1..m + 1 + (l + 1 - u) /\ k - (m + 1) \in 1..(l + 1 - u)
          /\ (k - (m + 1)) + u - 1 = k + j - i
          BY <1>1, <1>4, <1>5
    <2>2. d[k] = b[k - (m + 1)]
          BY <1>10, <2>1
    <2>3. b[k - (m + 1)] = c[(k - (m + 1)) + u - 1]
          BY <1>7, <2>1
    <2> QED
        BY <2>1, <2>2, <2>3
  <1> QED
      BY <1>1, <1>d, <1>10, <1>11, <1>12, <1>13, <1>14

\* compact_block leaves a chain with the blocks before it and a large one.
LEMMA Compacted ==
    ASSUME NEW h, NEW c, HeapOK(h), Linked(h, c), NEW i \in 1..Len(c), NEW bs \in Nat, NEW r,
           r = CompactBlock(h, c, i, bs)
    PROVE  /\ Rechained(h, c, r.heap, r.chain)
           /\ i <= Len(r.chain)
           /\ \A k \in 1..(i - 1) : r.chain[k] = c[k] /\ r.heap[c[k]] = h[c[k]]
           /\ \A k \in 1..(i - 1) : r.chain[i] # c[k]
           /\ r.heap[r.chain[i]] >= bs
  <1>1. c \in Seq(Block) /\ Len(c) \in Nat /\ IsInjective(c) /\ Blocks(c) \subseteq DOMAIN h
        BY DEF Linked
  <1>2. \A k, m \in 1..Len(c) : c[k] = c[m] => k = m
        BY <1>1, ChainInjective
  <1>3. \A b : b \in Blocks(c) <=> \E k \in 1..Len(c) : c[k] = b
        BY <1>1, ChainBlocks
  <1>4. h[c[i]] \in Nat
        BY <1>1, <1>3 DEF HeapOK
  <1>5. CASE bs <= h[c[i]]
    <2>1. r.heap = h /\ r.chain = c
          BY <1>5 DEF CompactBlock
    <2>2. Rechained(h, c, h, c)
          BY RechainedSame
    <2>3. \A k \in 1..(i - 1) : k \in 1..Len(c) /\ k # i
          BY <1>1
    <2> QED
        BY <1>1, <1>2, <1>4, <1>5, <2>1, <2>2, <2>3
  <1>6. CASE ~(bs <= h[c[i]])
    <2> DEFINE S == {k \in i..Len(c) : k = Len(c) \/ CapacityOf(h, c, i, k) >= bs}
    <2>1. PICK j \in i..Len(c) : j = Min(S)
      <3>1. S \subseteq Nat /\ Len(c) \in S
            BY <1>1
      <3>2. Min(S) \in S
            BY <3>1, MinIn
      <3> QED
          BY <3>2
    <2>2. PICK B : B = Blocks(SubSeq(c, i, j))
          OBVIOUS
    <2>3. PICK g : g = Destroy(h, B)
          OBVIOUS
    <2>4. PICK n : n = NewBlock(g)
          OBVIOUS
    <2>5. PICK d : d = Splice(c, i, j, n)
          OBVIOUS
    <2>6. PICK f : f = Create(g, bs)
          OBVIOUS
    <2>7. r.heap = f /\ r.chain = d
      <3>1. r = [heap |-> f, chain |-> d]
            BY <1>6, <2>1, <2>2, <2>3, <2>4, <2>5, <2>6 DEF CompactBlock, Splice
      <3> QED
          BY <3>1
    <2> HIDE DEF S
    <2>8. \A b : b \in B <=> \E k \in i..j : c[k] = b
      <3>1. i \in Nat \ {0} /\ j \in Nat /\ j <= Len(c) /\ i <= j + 1
            BY <1>1
      <3>2. c \in Seq(Block)
            BY <1>1
      <3>3. \A b : b \in Blocks(SubSeq(c, i, j)) <=> \E k \in i..j : c[k] = b
            BY <3>1, <3>2, ChainPart, Zenon
      <3> QED
          BY <2>2, <3>3, Zenon
    <2>9. /\ HeapOK(g) /\ \A b : b \in DOMAIN g <=> b \in DOMAIN h /\ b \notin B
          /\ \A b \in DOMAIN g : g[b] = h[b]
      <3>1. HeapOK(g) /\ DOMAIN g = DOMAIN h \ B /\ \A b \in DOMAIN h \ B : g[b] = h[b]
            BY <2>3, DestroyedRest
      <3> QED
          BY <3>1
    <2>10. n \in Block \ DOMAIN g
      <3>1. c[i] \in Block /\ c[i] \in B
            BY <1>1, <2>8
      <3> QED
          BY <2>4, <2>9, <3>1, NewBlockIsFree
    <2>11. /\ HeapOK(f) /\ (\A b : b \in DOMAIN f <=> b \in DOMAIN g \/ b = n) /\ f[n] = bs
           /\ \A b \in DOMAIN g : f[b] = g[b]
      <3>1. NewBlock(g) \in Block \ DOMAIN g
            BY <2>4, <2>10
      <3>2. /\ HeapOK(Create(g, bs)) /\ DOMAIN Create(g, bs) = DOMAIN g \cup {NewBlock(g)}
            /\ Create(g, bs)[NewBlock(g)] = bs
            /\ \A b \in DOMAIN g : Create(g, bs)[b] = g[b]
            BY <2>9, <3>1, Created
      <3> QED
          BY <2>4, <2>6, <3>2
    <2>12. /\ d \in Seq(Block) /\ Len(d) = Len(c) + i - j
           /\ \A k \in 1..(i - 1) : d[k] = c[k]
           /\ d[i] = n
           /\ \A k \in (i + 1)..Len(d) : d[k] = c[k + j - i]
      <3>1. /\ d \in Seq(Block) /\ Len(d) = Len(c) + i - j
            /\ \A k \in 1..(i - 1) : d[k] = c[k]
            /\ d[i] = n
            /\ \A k \in (i + 1)..(Len(c) + i - j) : d[k] = c[k + j - i]
        <4>1. n \in Block
              BY <2>10
        <4>2. /\ Splice(c, i, j, n) \in Seq(Block) /\ Len(Splice(c, i, j, n)) = Len(c) + i - j
              /\ \A k \in 1..(i - 1) : Splice(c, i, j, n)[k] = c[k]
              /\ Splice(c, i, j, n)[i] = n
              /\ \A k \in (i + 1)..(Len(c) + i - j) : Splice(c, i, j, n)[k] = c[k + j - i]
              BY ZenonT(40), <1>1, <2>1, <4>1, Spliced
        <4> QED
            BY <2>5, <4>2, Zenon
      <3> QED
          BY <3>1
    <2>13. \A k \in 1..Len(c) : k < i \/ k > j => c[k] \in DOMAIN g /\ c[k] \notin B
      <3> SUFFICES ASSUME NEW k \in 1..Len(c), k < i \/ k > j PROVE c[k] \notin B
          BY <1>1, <1>3, <2>9
      <3> QED
          BY <1>1, <1>2, <2>8
    <2>14. Len(d) \in Nat /\ i <= Len(d)
           BY <1>1, <2>12
    <2>15. \A k \in 1..(i - 1) : k \in 1..Len(c) /\ k < i
           BY <1>1
    <2>16. \A k \in (i + 1)..Len(d) : k + j - i \in 1..Len(c) /\ k + j - i > j
           BY <1>1, <2>12, <2>14
    <2>17. \A b : b \in Blocks(d) <=> \E k \in 1..Len(d) : d[k] = b
           BY <2>12, ChainBlocks
    <2>18. \A k \in 1..Len(d) : k \in 1..(i - 1) \/ k = i \/ k \in (i + 1)..Len(d)
           BY <2>14
    <2>19. \A k \in 1..Len(d) : k # i => d[k] \in DOMAIN g /\ d[k] \in Blocks(c) /\ d[k] \notin B /\ d[k] # n
      <3> SUFFICES ASSUME NEW k \in 1..Len(d), k # i PROVE d[k] \in DOMAIN g /\ d[k] \in Blocks(c) /\ d[k] \notin B
          BY <2>10
      <3>1. CASE k \in 1..(i - 1)
            BY <1>3, <2>12, <2>13, <2>15, <3>1
      <3>2. CASE k \in (i + 1)..Len(d)
            BY <1>3, <2>12, <2>13, <2>16, <3>2
      <3> QED
          BY <2>18, <3>1, <3>2
    <2>20. IsInjective(d)
      <3> SUFFICES ASSUME NEW k \in 1..Len(d), NEW m \in 1..Len(d), d[k] = d[m] PROVE k = m
          BY <2>12, ChainInjective
      <3>1. CASE k = i \/ m = i
            BY <2>12, <2>19, <3>1
      <3>2. CASE k \in 1..(i - 1) /\ m \in 1..(i - 1)
            BY <1>2, <2>12, <2>15, <3>2
      <3>3. CASE k \in (i + 1)..Len(d) /\ m \in (i + 1)..Len(d)
        <4>1. d[k] = c[k + j - i] /\ d[m] = c[m + j - i]
              BY <2>12, <3>3
        <4>2. k + j - i \in 1..Len(c) /\ m + j - i \in 1..Len(c)
              BY <2>16, <3>3
        <4>3. k + j - i = m + j - i
              BY <1>2, <4>1, <4>2
        <4> QED
            BY <4>3
      <3>4. CASE k \in 1..(i - 1) /\ m \in (i + 1)..Len(d)
        <4>1. k = m + j - i
              BY <1>2, <2>12, <2>15, <2>16, <3>4
        <4> QED
            BY <2>15, <2>16, <3>4, <4>1
      <3>5. CASE m \in 1..(i - 1) /\ k \in (i + 1)..Len(d)
        <4>1. m = k + j - i
              BY <1>2, <2>12, <2>15, <2>16, <3>5
        <4> QED
            BY <2>15, <2>16, <3>5, <4>1
      <3> QED
          BY <2>18, <3>1, <3>2, <3>3, <3>4, <3>5
    <2>21. \A b : b \in Blocks(d) <=> b = n \/ (b \in Blocks(c) /\ b \notin B)
      <3>1. ASSUME NEW b \in Blocks(d), b # n PROVE b \in Blocks(c) /\ b \notin B
            BY <2>12, <2>17, <2>19, <3>1
      <3>2. ASSUME NEW b \in Blocks(c), b \notin B PROVE b \in Blocks(d)
        <4>1. PICK k \in 1..Len(c) : c[k] = b
              BY <1>3
        <4>2. CASE k < i
          <5>1. k \in 1..(i - 1) /\ k \in 1..Len(d)
                BY <2>14, <4>2
          <5> QED
              BY <2>12, <2>17, <4>1, <5>1
        <4>3. CASE k > j
          <5>1. /\ k - j + i \in (i + 1)..Len(d) /\ k - j + i \in 1..Len(d)
                /\ (k - j + i) + j - i = k
                BY <1>1, <2>12, <2>14, <4>3
          <5>2. d[k - j + i] = b
                BY <2>12, <4>1, <5>1
          <5> QED
              BY <2>17, <5>1, <5>2
        <4>4. k < i \/ k > j
          <5>1. k \notin i..j
                BY <2>8, <3>2, <4>1
          <5> QED
              BY <5>1
        <4> QED
            BY <4>2, <4>3, <4>4
      <3>3. n \in Blocks(d)
            BY <2>12, <2>14, <2>17
      <3> QED
          BY <3>1, <3>2, <3>3
    <2>22. \A b : b \in B => b \in Blocks(c)
           BY <1>1, <1>3, <2>8
    <2>23. Blocks(d) \subseteq DOMAIN f
           BY <1>1, <2>9, <2>11, <2>21
    <2>24. \A b : b \in DOMAIN f <=> (b \in DOMAIN h /\ b \notin Blocks(c)) \/ b \in Blocks(d)
           BY <1>1, <2>9, <2>11, <2>21, <2>22
    <2>25. \A b \in DOMAIN h : b \notin Blocks(c) => b \notin Blocks(d) /\ f[b] = h[b]
           BY <2>9, <2>10, <2>11, <2>21, <2>22
    <2>26. Rechained(h, c, f, d)
           BY <2>11, <2>12, <2>20, <2>23, <2>24, <2>25 DEF Rechained, Linked
    <2>27. \A k \in 1..(i - 1) : d[k] = c[k] /\ f[c[k]] = h[c[k]] /\ d[i] # c[k]
           BY <2>9, <2>10, <2>11, <2>12, <2>13, <2>15, <1>1, <1>3
    <2> QED
        BY <2>7, <2>11, <2>12, <2>14, <2>26, <2>27
  <1> QED
      BY <1>5, <1>6
--------------------------------------------------------------------------------
(* Buffers *)

Shape(P) == P.cur \in 0..Len(P.chain) /\ (P.chain # << >> => P.cur # 0)

PoolOK(P, h) == P \in PoolRec /\ Shape(P) /\ Linked(h, P.chain)

\* The part of P that is in use is in use in Q.
Kept(P, h, Q, g) ==
    \A i \in 1..P.cur : \E j \in 1..Q.cur :
        /\ Q.chain[j] = P.chain[i] /\ g[P.chain[i]] = h[P.chain[i]]
        /\ j = Q.cur => i = P.cur /\ P.pos <= Q.pos

\* The size bytes at lo of block are in use in Q, and were not in P.
Fresh(P, Q, g, block, lo, size) ==
    /\ lo \in Nat
    /\ \E i \in 1..Q.cur : /\ Q.chain[i] = block /\ lo + size <= g[block]
                           /\ i = Q.cur => lo + size <= Q.pos
    /\ \A i \in 1..P.cur : P.chain[i] = block => i = P.cur /\ P.pos <= lo

\* What a request of size bytes makes of pool P and heap h.
Granted(P, h, r, size) ==
    /\ PoolOK(r.P, r.heap) /\ HeapOK(r.heap) /\ r.P.cleaners = P.cleaners
    /\ Rechained(h, P.chain, r.heap, r.P.chain)
    /\ Kept(P, h, r.P, r.heap)
    /\ Fresh(P, r.P, r.heap, r.block, r.lo, size)

LEMMA Fields ==
    ASSUME NEW P \in PoolRec
    PROVE  /\ P.bs \in Nat /\ P.pos \in Nat /\ P.chain \in Seq(Block) /\ P.cur \in Nat
           /\ P.cleaners \in Seq(CleanerRec) /\ Len(P.chain) \in Nat
  BY DEF PoolRec

LEMMA WithPos ==
    ASSUME NEW P \in PoolRec, NEW x \in Nat, NEW Q, Q = [P EXCEPT !.pos = x]
    PROVE  /\ Q \in PoolRec /\ Q.pos = x /\ Q.bs = P.bs /\ Q.chain = P.chain /\ Q.cur = P.cur
           /\ Q.cleaners = P.cleaners
  BY DEF PoolRec

LEMMA LinkedAfter ==
    ASSUME NEW h, NEW c, NEW g, NEW d, Rechained(h, c, g, d)
    PROVE  HeapOK(g) /\ Linked(g, d)
  BY DEF Rechained

LEMMA FitsInCurrent ==
    ASSUME NEW P, NEW h, HeapOK(h), PoolOK(P, h), P.cur # 0, NEW size \in Nat,
           h[P.chain[P.cur]] >= size + P.pos, NEW r,
           r = [P |-> [P EXCEPT !.pos = @ + size], heap |-> h, block |-> P.chain[P.cur], lo |-> P.pos]
    PROVE  Granted(P, h, r, size)
  <1> DEFINE Q == r.P
  <1>1. /\ P \in PoolRec /\ P.pos \in Nat /\ P.cur \in 1..Len(P.chain) /\ P.cur \in Nat /\ Len(P.chain) \in Nat
        BY Fields DEF PoolOK, Shape
  <1>2. r.heap = h /\ r.block = P.chain[P.cur] /\ r.lo = P.pos /\ Q = [P EXCEPT !.pos = P.pos + size]
        OBVIOUS
  <1> HIDE DEF Q
  <1>3. /\ Q \in PoolRec /\ Q.pos = P.pos + size /\ Q.chain = P.chain /\ Q.cur = P.cur
        /\ Q.cleaners = P.cleaners
    <2>1. P.pos + size \in Nat
          BY <1>1
    <2> QED
        BY <1>1, <1>2, <2>1, WithPos
  <1>4. PoolOK(Q, h)
        BY <1>3 DEF PoolOK, Shape
  <1>5. Rechained(h, P.chain, h, Q.chain)
        BY <1>3, RechainedSame DEF PoolOK
  <1>6. Kept(P, h, Q, h)
    <2> SUFFICES ASSUME NEW i \in 1..P.cur
                 PROVE  \E j \in 1..Q.cur : /\ Q.chain[j] = P.chain[i] /\ h[P.chain[i]] = h[P.chain[i]]
                                            /\ j = Q.cur => i = P.cur /\ P.pos <= Q.pos
        BY DEF Kept
    <2> QED
        BY <1>1, <1>3
  <1>7. Fresh(P, Q, h, r.block, r.lo, size)
    <2>1. P.cur \in 1..Q.cur /\ P.pos + size <= h[r.block] /\ P.pos + size <= Q.pos
      <3>1. h[P.chain[P.cur]] \in Nat
            BY <1>1, ChainBlocks, Fields DEF PoolOK, Linked, HeapOK
      <3> QED
          BY <1>1, <1>2, <1>3, <3>1
    <2>2. \A i \in 1..P.cur : P.chain[i] = P.chain[P.cur] => i = P.cur
      <3>1. \A i, j \in 1..Len(P.chain) : P.chain[i] = P.chain[j] => i = j
            BY <1>1, Fields, ChainInjective DEF PoolOK, Linked
      <3> QED
          BY <1>1, <3>1
    <2> QED
        BY <1>1, <1>2, <1>3, <2>1, <2>2 DEF Fresh
  <1> QED
      BY <1>2, <1>3, <1>4, <1>5, <1>6, <1>7 DEF Granted, Q

\* The next block: c is the chain it is in, g the heap.
LEMMA FitsInNext ==
    ASSUME NEW P, NEW h, HeapOK(h), PoolOK(P, h), P.cur # 0, NEW size \in Nat, size <= P.bs,
           NEW c, NEW g, Rechained(h, P.chain, g, c), P.cur + 1 <= Len(c),
           \A k \in 1..P.cur : c[k] = P.chain[k] /\ g[P.chain[k]] = h[P.chain[k]] /\ c[P.cur + 1] # P.chain[k],
           g[c[P.cur + 1]] >= P.bs,
           NEW r, r = [P |-> [P EXCEPT !.chain = c, !.cur = P.cur + 1, !.pos = size],
                       heap |-> g, block |-> c[P.cur + 1], lo |-> 0]
    PROVE  Granted(P, h, r, size)
  <1> DEFINE Q == r.P
  <1>1. /\ P \in PoolRec /\ P.bs \in Nat /\ P.pos \in Nat /\ P.cur \in 1..Len(P.chain) /\ P.cur \in Nat /\ Len(P.chain) \in Nat
        BY Fields DEF PoolOK, Shape
  <1>2. r.heap = g /\ r.block = c[P.cur + 1] /\ r.lo = 0 /\ Q = [P EXCEPT !.chain = c, !.cur = P.cur + 1, !.pos = size]
        OBVIOUS
  <1> HIDE DEF Q
  <1>3. HeapOK(g) /\ Linked(g, c) /\ c \in Seq(Block) /\ Len(c) \in Nat
        BY LinkedAfter DEF Linked
  <1>4. Q \in PoolRec /\ Q.pos = size /\ Q.chain = c /\ Q.cur = P.cur + 1 /\ Q.cleaners = P.cleaners
    <2>1. P.cur + 1 \in Nat
          BY <1>1
    <2> QED
      <3>1. PICK k \in Nat : k = P.cur + 1
            BY <2>1
      <3>2. Q = [P EXCEPT !.chain = c, !.cur = k, !.pos = size]
            BY <1>2, <3>1, Zenon
      <3>3. Q \in PoolRec /\ Q.pos = size /\ Q.chain = c /\ Q.cur = k /\ Q.cleaners = P.cleaners
            BY <1>1, <1>3, <3>1, <3>2 DEF PoolRec
      <3> QED
          BY <3>1, <3>3
  <1>5. PoolOK(Q, g)
    <2>1. Q.cur \in 0..Len(Q.chain) /\ Q.cur # 0
          BY <1>1, <1>3, <1>4
    <2> QED
        BY <1>3, <1>4, <2>1 DEF PoolOK, Shape
  <1>6. Kept(P, h, Q, g)
    <2> SUFFICES ASSUME NEW i \in 1..P.cur
                 PROVE  \E j \in 1..Q.cur : /\ Q.chain[j] = P.chain[i] /\ g[P.chain[i]] = h[P.chain[i]]
                                            /\ j = Q.cur => i = P.cur /\ P.pos <= Q.pos
        BY DEF Kept
    <2>1. i \in 1..Q.cur /\ i # Q.cur
          BY <1>1, <1>4
    <2> QED
        BY <1>4, <2>1
  <1>7. Fresh(P, Q, g, r.block, 0, size)
    <2>1. Q.cur \in 1..Q.cur /\ Q.chain[Q.cur] = r.block /\ 0 + size <= Q.pos
          BY <1>1, <1>2, <1>4
    <2>2. 0 + size <= g[r.block]
      <3>1. g[r.block] \in Nat
            BY <1>1, <1>2, <1>3, ChainBlocks DEF Linked, HeapOK
      <3> QED
          BY <1>1, <1>2, <3>1
    <2> QED
        BY <1>2, <2>1, <2>2 DEF Fresh
  <1> QED
      BY <1>2, <1>3, <1>4, <1>5, <1>6, <1>7 DEF Granted, Q

LEMMA NextBlock ==
    ASSUME NEW P, NEW h, HeapOK(h), PoolOK(P, h), P.cur # 0, NEW size \in Nat, size <= P.bs,
           NewBlock(h) \in Block \ DOMAIN h
    PROVE  Granted(P, h, InNextBlock(P, h, size), size)
  <1>1. P \in PoolRec /\ P.bs \in Nat /\ P.cur \in 1..Len(P.chain) /\ P.cur \in Nat /\ Len(P.chain) \in Nat /\ Linked(h, P.chain)
        BY Fields DEF PoolOK, Shape
  <1>2. CASE P.cur + 1 <= Len(P.chain)
    <2>1. PICK c : c = CompactBlock(h, P.chain, P.cur + 1, P.bs)
          OBVIOUS
    <2>2. P.cur + 1 \in 1..Len(P.chain) /\ (P.cur + 1) - 1 = P.cur
          BY <1>1, <1>2
    <2>3. /\ Rechained(h, P.chain, c.heap, c.chain)
          /\ P.cur + 1 <= Len(c.chain)
          /\ \A k \in 1..P.cur : c.chain[k] = P.chain[k] /\ c.heap[P.chain[k]] = h[P.chain[k]]
          /\ \A k \in 1..P.cur : c.chain[P.cur + 1] # P.chain[k]
          /\ c.heap[c.chain[P.cur + 1]] >= P.bs
      <3>1. PICK i \in 1..Len(P.chain) : i = P.cur + 1
            BY <2>2
      <3>2. i - 1 = P.cur /\ c = CompactBlock(h, P.chain, i, P.bs)
            BY <2>1, <2>2, <3>1
      <3>3. /\ Rechained(h, P.chain, c.heap, c.chain)
            /\ i <= Len(c.chain)
            /\ \A k \in 1..(i - 1) : c.chain[k] = P.chain[k] /\ c.heap[P.chain[k]] = h[P.chain[k]]
            /\ \A k \in 1..(i - 1) : c.chain[i] # P.chain[k]
            /\ c.heap[c.chain[i]] >= P.bs
        <4>1. PICK d, n : d = P.chain /\ n = P.bs
              OBVIOUS
        <4>2. /\ HeapOK(h) /\ Linked(h, d) /\ i \in 1..Len(d) /\ n \in Nat
              /\ c = CompactBlock(h, d, i, n)
              BY <1>1, <3>1, <3>2, <4>1, Zenon
        <4>3. /\ Rechained(h, d, c.heap, c.chain)
              /\ i <= Len(c.chain)
              /\ \A k \in 1..(i - 1) : c.chain[k] = d[k] /\ c.heap[d[k]] = h[d[k]]
              /\ \A k \in 1..(i - 1) : c.chain[i] # d[k]
              /\ c.heap[c.chain[i]] >= n
              BY <4>2, Compacted
        <4> QED
            BY <4>1, <4>3, Zenon
      <3> QED
          BY <3>1, <3>2, <3>3
    <2>4. InNextBlock(P, h, size) = [P |-> [P EXCEPT !.chain = c.chain, !.cur = P.cur + 1, !.pos = size],
                       heap |-> c.heap, block |-> c.chain[P.cur + 1], lo |-> 0]
          BY <1>2, <2>1 DEF InNextBlock
    <2> QED
        BY ZenonT(40), <2>3, <2>4, FitsInNext
  <1>3. CASE ~(P.cur + 1 <= Len(P.chain))
    <2>1. PICK c : c = Append(P.chain, NewBlock(h))
          OBVIOUS
    <2>2. PICK g : g = Create(h, P.bs)
          OBVIOUS
    <2>3. P.cur = Len(P.chain)
          BY <1>1, <1>3
    <2>4. /\ Rechained(h, P.chain, g, c) /\ Len(c) = P.cur + 1
          /\ \A k \in 1..P.cur : c[k] = P.chain[k]
          /\ c[P.cur + 1] = NewBlock(h)
          BY <1>1, <2>1, <2>2, <2>3, Appended
    <2>5. g[NewBlock(h)] = P.bs /\ \A b \in DOMAIN h : g[b] = h[b]
          BY <1>1, <2>2, Created
    <2>6. \A k \in 1..P.cur : P.chain[k] \in DOMAIN h
          BY <1>1, <2>3, ChainBlocks, Fields DEF Linked
    <2>7. \A k \in 1..P.cur : c[k] = P.chain[k] /\ g[P.chain[k]] = h[P.chain[k]] /\ c[P.cur + 1] # P.chain[k]
          BY <2>4, <2>5, <2>6
    <2>8. InNextBlock(P, h, size) = [P |-> [P EXCEPT !.chain = c, !.cur = P.cur + 1, !.pos = size],
                       heap |-> g, block |-> c[P.cur + 1], lo |-> 0]
          BY <1>3, <2>1, <2>2 DEF InNextBlock
    <2>9. P.cur + 1 <= Len(c) /\ g[c[P.cur + 1]] >= P.bs
          BY <1>1, <2>4, <2>5
    <2> QED
        BY ZenonT(40), <2>4, <2>7, <2>8, <2>9, FitsInNext
  <1> QED
      BY <1>2, <1>3

LEMMA OwnBlock ==
    ASSUME NEW P, NEW h, HeapOK(h), PoolOK(P, h), P.cur # 0, NEW size \in Nat,
           NewBlock(h) \in Block \ DOMAIN h
    PROVE  Granted(P, h, InOwnBlock(P, h, size), size)
  <1>1. P \in PoolRec /\ P.bs \in Nat /\ P.pos \in Nat /\ P.cur \in 1..Len(P.chain) /\ P.cur \in Nat /\ Len(P.chain) \in Nat /\ Linked(h, P.chain)
        BY Fields DEF PoolOK, Shape
  <1>2. PICK n : n = NewBlock(h)
        OBVIOUS
  <1>3. PICK g : g = Create(h, size)
        OBVIOUS
  <1>4. PICK c : c = <<n>> \o P.chain
        OBVIOUS
  <1>5. PICK s : s = GetBlockSize(Grown(size))
        OBVIOUS
  <1>6. PICK r : r = InOwnBlock(P, h, size)
        OBVIOUS
  <1>7. PICK Q : Q = [P EXCEPT !.chain = c, !.cur = P.cur + 1, !.bs = s]
        OBVIOUS
  <1>8. r.P = Q /\ r.heap = g /\ r.block = n /\ r.lo = 0
    <2>1. r = [P |-> Q, heap |-> g, block |-> n, lo |-> 0]
          BY <1>2, <1>3, <1>4, <1>5, <1>6, <1>7 DEF InOwnBlock
    <2> QED
        BY <2>1
  <1>9. /\ Rechained(h, P.chain, g, c) /\ Len(c) = Len(P.chain) + 1 /\ c[1] = n
        /\ \A i \in 1..Len(P.chain) : c[i + 1] = P.chain[i]
        BY <1>1, <1>2, <1>3, <1>4, Prepended
  <1>10. g[n] = size /\ (\A b \in DOMAIN h : g[b] = h[b]) /\ n \notin DOMAIN h
        BY <1>2, <1>3, Created
  <1>11. HeapOK(g) /\ Linked(g, c) /\ c \in Seq(Block)
        BY <1>9, LinkedAfter DEF Linked
  <1>12. Q \in PoolRec /\ Q.pos = P.pos /\ Q.chain = c /\ Q.cur = P.cur + 1 /\ Q.cleaners = P.cleaners
    <2>1. P.cur + 1 \in Nat
          BY <1>1
    <2>2. s \in Nat
          BY <1>5, GrowthCovers
    <2> QED
      <3>1. PICK k \in Nat : k = P.cur + 1
            BY <2>1
      <3>2. Q = [P EXCEPT !.chain = c, !.cur = k, !.bs = s]
            BY <1>7, <3>1, Zenon
      <3>3. Q \in PoolRec /\ Q.pos = P.pos /\ Q.chain = c /\ Q.cur = k /\ Q.cleaners = P.cleaners
            BY <1>1, <1>11, <2>2, <3>1, <3>2 DEF PoolRec
      <3> QED
          BY <3>1, <3>3
  <1>13. PoolOK(Q, g)
    <2>1. Q.cur \in 0..Len(Q.chain) /\ Q.cur # 0
          BY <1>1, <1>9, <1>12
    <2> QED
        BY <1>11, <1>12, <2>1 DEF PoolOK, Shape
  <1>14. \A k \in 1..P.cur : P.chain[k] \in DOMAIN h
        BY <1>1, ChainBlocks, Fields DEF Linked
  <1>15. Kept(P, h, Q, g)
    <2> SUFFICES ASSUME NEW i \in 1..P.cur
                 PROVE  \E j \in 1..Q.cur : /\ Q.chain[j] = P.chain[i] /\ g[P.chain[i]] = h[P.chain[i]]
                                            /\ j = Q.cur => i = P.cur /\ P.pos <= Q.pos
        BY DEF Kept
    <2>1. i + 1 \in 1..Q.cur /\ i \in 1..Len(P.chain) /\ (i + 1 = Q.cur => i = P.cur) /\ P.pos <= Q.pos
          BY <1>1, <1>12
    <2>2. Q.chain[i + 1] = P.chain[i] /\ g[P.chain[i]] = h[P.chain[i]]
          BY <1>9, <1>10, <1>12, <1>14, <2>1
    <2> QED
        BY <2>1, <2>2
  <1>16. Fresh(P, Q, g, n, 0, size)
    <2>1. 1 \in 1..Q.cur /\ 1 # Q.cur /\ Q.chain[1] = n /\ 0 + size <= g[n]
          BY <1>1, <1>9, <1>10, <1>12
    <2>2. \A i \in 1..P.cur : P.chain[i] # n
          BY <1>10, <1>14
    <2> QED
        BY <2>1, <2>2 DEF Fresh
  <1>17. Granted(P, h, r, size)
        BY <1>8, <1>9, <1>11, <1>12, <1>13, <1>15, <1>16 DEF Granted
  <1> QED
      BY <1>6, <1>17

\* A pool with more of its current block in use, or with its first block, grants
\* what the pool it comes from grants.
LEMMA GrantedFrom ==
    ASSUME NEW P, NEW h, NEW Q, NEW g, NEW r, NEW size, PoolOK(P, h), PoolOK(Q, g),
           Q.cleaners = P.cleaners, Rechained(h, P.chain, g, Q.chain),
           P.cur # 0 => Q.cur = P.cur /\ Q.chain = P.chain /\ g = h /\ P.pos <= Q.pos,
           Granted(Q, g, r, size)
    PROVE  Granted(P, h, r, size)
  <1>1. Rechained(h, P.chain, r.heap, r.P.chain)
        BY RechainedTwice DEF Granted
  <1>2. P.pos \in Nat /\ Q.pos \in Nat /\ P.cur \in Nat /\ r.P.pos \in Nat /\ r.lo \in Nat
        BY Fields DEF PoolOK, Granted, Fresh
  <1>3. CASE P.cur = 0
    <2>1. \A i \in 1..P.cur : FALSE
          BY <1>3
    <2> QED
        BY <1>1, <2>1 DEF Granted, Kept, Fresh
  <1>4. CASE P.cur # 0
    <2>1. Q.cur = P.cur /\ Q.chain = P.chain /\ g = h /\ P.pos <= Q.pos
          BY <1>4
    <2>2. Kept(P, h, r.P, r.heap)
      <3> SUFFICES ASSUME NEW i \in 1..P.cur
                   PROVE  \E j \in 1..r.P.cur : /\ r.P.chain[j] = P.chain[i] /\ r.heap[P.chain[i]] = h[P.chain[i]]
                                                /\ j = r.P.cur => i = P.cur /\ P.pos <= r.P.pos
          BY DEF Kept
      <3>1. PICK j \in 1..r.P.cur : /\ r.P.chain[j] = Q.chain[i] /\ r.heap[Q.chain[i]] = g[Q.chain[i]]
                                    /\ j = r.P.cur => i = Q.cur /\ Q.pos <= r.P.pos
            BY <2>1 DEF Granted, Kept
      <3> QED
          BY <1>2, <2>1, <3>1
    <2>3. Fresh(P, r.P, r.heap, r.block, r.lo, size)
      <3>1. \A i \in 1..P.cur : P.chain[i] = r.block => i = P.cur /\ P.pos <= r.lo
            BY <1>2, <2>1 DEF Granted, Fresh
      <3> QED
          BY <3>1 DEF Granted, Fresh
    <2> QED
        BY <1>1, <2>2, <2>3 DEF Granted
  <1> QED
      BY <1>3, <1>4

\* There is room for a request.
RoomFor(P, h) ==
    \E a \in Block : /\ a \notin DOMAIN h
                     /\ P.cur = 0 => \E b \in Block : b \notin DOMAIN h /\ b # a

\* The pool with its first block and its position aligned, lines 360-365.
Ready(P, h, a) == [FirstBlock(P, h).P EXCEPT !.pos = AlignUp(@, a)]

LEMMA Prepared ==
    ASSUME NEW P, NEW h, HeapOK(h), PoolOK(P, h), RoomFor(P, h), NEW a \in Nat \ {0}, NEW f, NEW Q,
           f = FirstBlock(P, h), Q = Ready(P, h, a)
    PROVE  /\ HeapOK(f.heap) /\ PoolOK(Q, f.heap) /\ Q.cur # 0 /\ Aligned(Q.pos, a)
           /\ Q.cleaners = P.cleaners /\ Q.bs = P.bs /\ Rechained(h, P.chain, f.heap, Q.chain)
           /\ P.cur # 0 => Q.cur = P.cur /\ Q.chain = P.chain /\ f.heap = h /\ P.pos <= Q.pos
           /\ P.cur = 0 => f.heap[Q.chain[Q.cur]] = P.bs
           /\ NewBlock(f.heap) \in Block \ DOMAIN f.heap
  <1>1. P \in PoolRec /\ P.bs \in Nat /\ P.pos \in Nat /\ P.chain \in Seq(Block) /\ Linked(h, P.chain) /\ P.cur \in Nat
        BY Fields DEF PoolOK
  <1>2. AlignUp(P.pos, a) \in Nat /\ AlignUp(P.pos, a) >= P.pos /\ Aligned(AlignUp(P.pos, a), a)
        BY <1>1, AlignUpBounds, AlignUpAligns
  <1>3. PICK x \in Nat : x = AlignUp(P.pos, a)
        BY <1>2
  <1>a. Q = [f.P EXCEPT !.pos = AlignUp(f.P.pos, a)]
        BY DEF Ready
  <1>4. CASE P.cur # 0
    <2>1. f.P = P /\ f.heap = h
          BY <1>4 DEF FirstBlock
    <2>2. Q = [P EXCEPT !.pos = x]
          BY <1>3, <1>a, <2>1
    <2>3. Q \in PoolRec /\ Q.pos = x /\ Q.bs = P.bs /\ Q.chain = P.chain /\ Q.cur = P.cur /\ Q.cleaners = P.cleaners
          BY <1>1, <1>3, <2>2 DEF PoolRec
    <2>4. PoolOK(Q, h)
          BY <2>3 DEF PoolOK, Shape
    <2>5. Rechained(h, P.chain, h, P.chain)
          BY <1>1, RechainedSame
    <2>6. NewBlock(h) \in Block \ DOMAIN h
          BY NewBlockIsFree DEF RoomFor
    <2> QED
        BY <1>2, <1>3, <1>4, <2>1, <2>3, <2>4, <2>5, <2>6
  <1>5. CASE P.cur = 0
    <2>1. PICK n : n = NewBlock(h)
          OBVIOUS
    <2>2. PICK c : c = <<n>>
          OBVIOUS
    <2>3. PICK g : g = Create(h, P.bs)
          OBVIOUS
    <2>4. PICK F : F = [P EXCEPT !.chain = c, !.cur = 1]
          OBVIOUS
    <2>5. f.P = F /\ f.heap = g
      <3>1. f = [P |-> F, heap |-> g]
            BY <1>5, <2>1, <2>2, <2>3, <2>4 DEF FirstBlock
      <3> QED
          BY <3>1
    <2>6. n \in Block \ DOMAIN h
          BY <2>1, NewBlockIsFree DEF RoomFor
    <2>7. P.chain = << >>
          BY <1>5 DEF PoolOK, Shape
    <2>8. c = Append(<< >>, n) /\ Len(<< >>) = 0
          BY <2>2
    <2>9. Rechained(h, P.chain, g, c) /\ Len(c) = 1
      <3>1. Linked(h, << >>) /\ NewBlock(h) \in Block \ DOMAIN h
            BY <1>1, <2>1, <2>6, <2>7
      <3>2. Rechained(h, << >>, g, Append(<< >>, NewBlock(h)))
            BY <1>1, <2>3, <3>1, Appended
      <3> QED
          BY <2>1, <2>2, <2>7, <2>8, <3>2
    <2>10. HeapOK(g) /\ Linked(g, c) /\ c \in Seq(Block)
           BY <2>9, LinkedAfter DEF Linked
    <2>11. /\ F \in PoolRec /\ F.pos = P.pos /\ F.bs = P.bs /\ F.chain = c /\ F.cur = 1
           /\ F.cleaners = P.cleaners
           BY <1>1, <2>4, <2>10 DEF PoolRec
    <2>12. Q = [F EXCEPT !.pos = x]
           BY <1>3, <1>a, <2>5, <2>11
    <2>13. /\ Q \in PoolRec /\ Q.pos = x /\ Q.bs = P.bs /\ Q.chain = c /\ Q.cur = 1
           /\ Q.cleaners = P.cleaners
      <3>1. /\ Q \in PoolRec /\ Q.pos = x /\ Q.bs = F.bs /\ Q.chain = F.chain /\ Q.cur = F.cur
            /\ Q.cleaners = F.cleaners
            BY <1>3, <2>11, <2>12, WithPos
      <3> QED
          BY <2>11, <3>1
    <2>14. PoolOK(Q, g)
      <3>0. Len(Q.chain) = 1 /\ Q.cur = 1
            BY <2>9, <2>13
      <3>1. Q.cur \in 0..Len(Q.chain) /\ Q.cur # 0
            BY <3>0
      <3> QED
          BY <2>10, <2>13, <3>1 DEF PoolOK, Shape
    <2>15. NewBlock(g) \in Block \ DOMAIN g
      <3>1. DOMAIN g = DOMAIN h \cup {n}
            BY <1>1, <2>1, <2>3, <2>6, Created
      <3>2. PICK b \in Block : b \notin DOMAIN g
            BY <1>5, <3>1 DEF RoomFor
      <3> QED
          BY <3>2, NewBlockIsFree
    <2>16. g[Q.chain[Q.cur]] = P.bs
      <3>1. g[n] = P.bs
            BY <1>1, <2>1, <2>3, <2>6, Created
      <3> QED
          BY <2>2, <2>13, <3>1
    <2> QED
        BY <1>2, <1>3, <1>5, <2>5, <2>9, <2>10, <2>13, <2>14, <2>15, <2>16
  <1> QED
      BY <1>4, <1>5

\* create_buffer_internal grants what it is asked for, aligned.
LEMMA BufferGranted ==
    ASSUME NEW P, NEW h, HeapOK(h), PoolOK(P, h), RoomFor(P, h), NEW size \in Nat, NEW a \in Nat \ {0},
           NEW r, r = CreateBufferInternal(P, h, size, a)
    PROVE  /\ Granted(P, h, r, size) /\ Aligned(r.lo, a)
           /\ r.P.chain # P.chain => size <= r.P.bs
           /\ DOMAIN r = {"P", "heap", "block", "lo"}
  <1>1. PICK f : f = FirstBlock(P, h)
        OBVIOUS
  <1>2. PICK Q : Q = Ready(P, h, a)
        OBVIOUS
  <1>3. /\ HeapOK(f.heap) /\ PoolOK(Q, f.heap) /\ Q.cur # 0 /\ Aligned(Q.pos, a)
        /\ Q.cleaners = P.cleaners /\ Q.bs = P.bs /\ Rechained(h, P.chain, f.heap, Q.chain)
        /\ P.cur # 0 => Q.cur = P.cur /\ Q.chain = P.chain /\ f.heap = h /\ P.pos <= Q.pos
        /\ P.cur = 0 => f.heap[Q.chain[Q.cur]] = P.bs
        /\ NewBlock(f.heap) \in Block \ DOMAIN f.heap
        BY <1>1, <1>2, Prepared
  <1>4. PICK g : g = f.heap
        OBVIOUS
  <1>5. Aligned(0, a)
        BY DEF Aligned
  <1>6. CASE g[Q.chain[Q.cur]] >= size + Q.pos
    <2>1. r = [P |-> [Q EXCEPT !.pos = @ + size], heap |-> g, block |-> Q.chain[Q.cur], lo |-> Q.pos]
          BY <1>1, <1>2, <1>4, <1>6 DEF CreateBufferInternal, Ready
    <2>2. Granted(Q, g, r, size)
          BY <1>3, <1>4, <1>6, <2>1, FitsInCurrent
    <2>3. r.lo = Q.pos /\ DOMAIN r = {"P", "heap", "block", "lo"}
          BY <2>1
    <2>4. Granted(P, h, r, size)
          BY <1>3, <1>4, <2>2, GrantedFrom
    <2>5. r.P.chain # P.chain => size <= r.P.bs
      <3>1. r.P.chain = Q.chain /\ r.P.bs = Q.bs
            BY <1>3, <2>1, Fields DEF PoolOK, PoolRec
      <3>2. P.cur = 0 => size <= P.bs
            BY <1>3, <1>4, <1>6, Fields DEF PoolOK
      <3> QED
          BY <1>3, <3>1, <3>2
    <2> QED
        BY <1>3, <1>4, <2>2, <2>3, <2>4, <2>5
  <1>7. CASE ~(g[Q.chain[Q.cur]] >= size + Q.pos) /\ size <= Q.bs
    <2>1. r = InNextBlock(Q, g, size)
          BY <1>1, <1>2, <1>4, <1>7 DEF CreateBufferInternal, Ready
    <2>2. Granted(Q, g, r, size)
          BY <1>3, <1>4, <1>7, <2>1, NextBlock
    <2>3. r.lo = 0 /\ DOMAIN r = {"P", "heap", "block", "lo"}
          BY <2>1 DEF InNextBlock
    <2>4. Granted(P, h, r, size)
          BY <1>3, <1>4, <2>2, GrantedFrom
    <2>5. r.P.bs = Q.bs
      <3>1. PICK c : c = IF Q.cur + 1 <= Len(Q.chain) THEN CompactBlock(g, Q.chain, Q.cur + 1, Q.bs)
                         ELSE [heap |-> Create(g, Q.bs), chain |-> Append(Q.chain, NewBlock(g))]
            OBVIOUS
      <3>2. PICK k : k = Q.cur + 1
            OBVIOUS
      <3>3. r.P = [Q EXCEPT !.chain = c.chain, !.cur = k, !.pos = size]
            BY <2>1, <3>1, <3>2 DEF InNextBlock
      <3> QED
          BY <1>3, <3>3 DEF PoolOK, PoolRec
    <2> QED
        BY <1>5, <1>7, <2>3, <2>4, <2>5
  <1>8. CASE ~(g[Q.chain[Q.cur]] >= size + Q.pos) /\ ~(size <= Q.bs)
    <2>1. r = InOwnBlock(Q, g, size)
          BY <1>1, <1>2, <1>4, <1>8 DEF CreateBufferInternal, Ready
    <2>2. Granted(Q, g, r, size)
          BY <1>3, <1>4, <1>8, <2>1, OwnBlock
    <2>3. r.lo = 0 /\ DOMAIN r = {"P", "heap", "block", "lo"}
          BY <2>1 DEF InOwnBlock
    <2>4. Granted(P, h, r, size)
          BY <1>3, <1>4, <2>2, GrantedFrom
    <2>5. r.P.bs = GetBlockSize(Grown(size))
      <3>1. PICK s : s = GetBlockSize(Grown(size))
            OBVIOUS
      <3>2. PICK c : c = <<NewBlock(g)>> \o Q.chain
            OBVIOUS
      <3>3. PICK k : k = Q.cur + 1
            OBVIOUS
      <3>4. r.P = [Q EXCEPT !.chain = c, !.cur = k, !.bs = s]
            BY <2>1, <3>1, <3>2, <3>3 DEF InOwnBlock
      <3> QED
          BY <1>3, <3>1, <3>4 DEF PoolOK, PoolRec
    <2> QED
        BY <1>5, <2>3, <2>4, <2>5, GrowthCovers
  <1> QED
      BY <1>6, <1>7, <1>8

LEMMA Below == \A p, l, d, s, z \in Nat : p <= l /\ l + d + s <= z => p <= z
  OBVIOUS

AtPos(P, x) == [P EXCEPT !.pos = x]

\* What create_aligned_buffer(size, align) gives back is at the end of what was
\* granted; what it keeps is granted still.
LEMMA Trimmed ==
    ASSUME NEW P, NEW h, PoolOK(P, h), NEW r, NEW size \in Nat, NEW a \in Nat, NEW pad \in 0..a,
           Granted(P, h, r, size + a), NEW x, NEW q,
           q.heap = r.heap, q.block = r.block, q.lo = r.lo + pad, q.P = AtPos(r.P, x),
           x = IF r.P.chain[r.P.cur] = r.block /\ r.P.pos = r.lo + size + a
                 THEN r.P.pos - (a - pad) ELSE r.P.pos
    PROVE  Granted(P, h, q, size)
  <1>1. /\ PoolOK(r.P, r.heap) /\ HeapOK(r.heap) /\ r.P.cleaners = P.cleaners
        /\ Rechained(h, P.chain, r.heap, r.P.chain)
        /\ Kept(P, h, r.P, r.heap)
        BY DEF Granted
  <1>2. /\ r.lo \in Nat
        /\ \A i \in 1..P.cur : P.chain[i] = r.block => i = P.cur /\ P.pos <= r.lo
        BY DEF Granted, Fresh
  <1>3. PICK m \in 1..r.P.cur : /\ r.P.chain[m] = r.block /\ r.lo + (size + a) <= r.heap[r.block]
                                /\ m = r.P.cur => r.lo + (size + a) <= r.P.pos
        BY DEF Granted, Fresh
  <1>4. /\ r.P \in PoolRec /\ r.P.pos \in Nat /\ r.P.chain \in Seq(Block) /\ r.P.cur \in 0..Len(r.P.chain)
        /\ Linked(r.heap, r.P.chain) /\ Len(r.P.chain) \in Nat /\ P.pos \in Nat /\ P.cur \in Nat
        BY <1>1, Fields DEF PoolOK, Shape
  <1>5. r.heap[r.block] \in Nat
        BY <1>1, <1>3, <1>4, ChainBlocks DEF Linked, HeapOK
  <1>6. PICK y \in Nat : y = x
    <2>1. x \in Nat
      <3>1. CASE r.P.chain[r.P.cur] = r.block /\ r.P.pos = r.lo + size + a
        <4>1. x = r.P.pos - (a - pad)
              BY <3>1, Zenon
        <4>2. x = (r.lo + size + a) - (a - pad)
              BY <3>1, <4>1, Zenon
        <4> QED
            BY <1>2, <4>2
      <3>2. CASE ~(r.P.chain[r.P.cur] = r.block /\ r.P.pos = r.lo + size + a)
            BY <1>4, <3>2
      <3> QED
          BY <3>1, <3>2
    <2> QED
        BY <2>1
  <1>7. /\ q.P \in PoolRec /\ q.P.pos = x /\ q.P.chain = r.P.chain /\ q.P.cur = r.P.cur
        /\ q.P.cleaners = r.P.cleaners
    <2>1. q.P = [r.P EXCEPT !.pos = y]
          BY <1>6 DEF AtPos
    <2>2. /\ q.P \in PoolRec /\ q.P.pos = y /\ q.P.chain = r.P.chain /\ q.P.cur = r.P.cur
          /\ q.P.cleaners = r.P.cleaners
      <3>1. PICK R \in PoolRec : R = r.P
            BY <1>4
      <3>2. PICK Z : Z = q.P
            OBVIOUS
      <3>3. Z = [R EXCEPT !.pos = y]
            BY <2>1, <3>1, <3>2
      <3>4. Z \in PoolRec /\ Z.pos = y /\ Z.chain = R.chain /\ Z.cur = R.cur /\ Z.cleaners = R.cleaners
            BY <1>6, <3>1, <3>3 DEF PoolRec
      <3> QED
          BY <3>1, <3>2, <3>4
    <2> QED
        BY <1>6, <2>2
  <1>8. PoolOK(q.P, r.heap)
        BY <1>1, <1>7 DEF PoolOK, Shape
  <1>9. r.P.chain[r.P.cur] = r.block => m = r.P.cur /\ r.lo + pad + size <= x
    <2> SUFFICES ASSUME r.P.chain[r.P.cur] = r.block PROVE m = r.P.cur /\ r.lo + pad + size <= x
        OBVIOUS
    <2>1. m = r.P.cur
      <3>1. \A i, j \in 1..Len(r.P.chain) : r.P.chain[i] = r.P.chain[j] => i = j
            BY <1>4, ChainInjective DEF Linked
      <3>2. m \in 1..Len(r.P.chain) /\ r.P.cur \in 1..Len(r.P.chain)
            BY SMTT(20), <1>4
      <3> QED
          BY <1>3, <3>1, <3>2
    <2>2. r.lo + (size + a) <= r.P.pos
          BY <1>3, <2>1
    <2>3. CASE r.P.pos = r.lo + size + a
      <3>1. x = r.P.pos - (a - pad)
            BY <2>3, Zenon
      <3>2. x = (r.lo + size + a) - (a - pad)
            BY <2>3, <3>1, Zenon
      <3> QED
          BY <1>2, <2>1, <3>2
    <2>4. CASE r.P.pos # r.lo + size + a
      <3>1. x = r.P.pos
            BY <2>4
      <3> QED
          BY SMTT(20), <1>2, <1>4, <2>1, <2>2, <3>1
    <2> QED
        BY <2>3, <2>4
  <1>10. r.P.chain[r.P.cur] # r.block => x = r.P.pos
         OBVIOUS
  <1>11. Kept(P, h, q.P, q.heap)
    <2> SUFFICES ASSUME NEW i \in 1..P.cur
                 PROVE  \E j \in 1..r.P.cur : /\ r.P.chain[j] = P.chain[i] /\ r.heap[P.chain[i]] = h[P.chain[i]]
                                              /\ j = r.P.cur => i = P.cur /\ P.pos <= x
        BY ZenonT(40), <1>7 DEF Kept
    <2>1. PICK j \in 1..r.P.cur : /\ r.P.chain[j] = P.chain[i] /\ r.heap[P.chain[i]] = h[P.chain[i]]
                                  /\ j = r.P.cur => i = P.cur /\ P.pos <= r.P.pos
          BY <1>1 DEF Kept
    <2>2. j = r.P.cur => i = P.cur /\ P.pos <= x
      <3> SUFFICES ASSUME j = r.P.cur PROVE P.pos <= x
          BY <2>1
      <3>1. CASE r.P.chain[r.P.cur] # r.block
            BY <1>10, <2>1, <3>1
      <3>2. CASE r.P.chain[r.P.cur] = r.block
        <4>1. P.pos <= r.lo /\ r.lo + pad + size <= x
              BY <1>2, <1>9, <2>1, <3>2
        <4>2. x \in Nat /\ pad \in Nat /\ P.pos \in Nat /\ r.lo \in Nat
              BY <1>2, <1>4, <1>6
        <4> QED
            BY <4>1, <4>2, Below, Zenon
      <3> QED
          BY <3>1, <3>2
    <2> QED
        BY <2>1, <2>2
  <1>12. Fresh(P, q.P, q.heap, q.block, q.lo, size)
    <2>1. q.lo \in Nat /\ q.lo + size <= r.heap[r.block]
          BY <1>2, <1>3, <1>5
    <2>2. m = r.P.cur => q.lo + size <= x
          BY <1>3, <1>9
    <2>3. \A i \in 1..P.cur : P.chain[i] = r.block => i = P.cur /\ P.pos <= q.lo
          BY <1>2, <1>4
    <2> QED
        BY <1>3, <1>7, <2>1, <2>2, <2>3 DEF Fresh
  <1> QED
      BY <1>1, <1>7, <1>8, <1>11, <1>12 DEF Granted

LEMMA GrantedBlock ==
    ASSUME NEW P, NEW h, NEW r, NEW size, Granted(P, h, r, size)
    PROVE  /\ r.block \in Block /\ r.lo \in Nat /\ r.block \in Blocks(r.P.chain)
  <1>1. r.P.chain \in Seq(Block) /\ r.P.cur \in 0..Len(r.P.chain) /\ Len(r.P.chain) \in Nat
        BY Fields DEF Granted, PoolOK, Shape
  <1>2. PICK i \in 1..r.P.cur : r.P.chain[i] = r.block
        BY DEF Granted, Fresh
  <1>3. i \in 1..Len(r.P.chain)
        BY <1>1
  <1> QED
      BY <1>1, <1>2, <1>3, ChainBlocks DEF Granted, Fresh

\* create_aligned_buffer(size, align) grants size bytes at an aligned address.
LEMMA AlignedGranted ==
    ASSUME NEW P, NEW h, HeapOK(h), PoolOK(P, h), RoomFor(P, h), NEW size \in Nat, NEW a \in Nat \ {0},
           NEW q, q = CreateAlignedBuffer(P, h, size, a)
    PROVE  Granted(P, h, q, size) /\ Aligned(BaseOf[q.block] + q.lo, a)
  <1>1. PICK r : r = CreateBufferInternal(P, h, size + a, 1)
        OBVIOUS
  <1>2. Granted(P, h, r, size + a) /\ DOMAIN r = {"P", "heap", "block", "lo"}
    <2>1. size + a \in Nat /\ 1 \in Nat \ {0}
          OBVIOUS
    <2> QED
        BY <1>1, <2>1, BufferGranted
  <1>3. r.block \in Block /\ r.lo \in Nat
        BY <1>2, GrantedBlock
  <1>4. PICK base \in Nat : base = BaseOf[r.block]
        BY <1>3, PoolAssumption
  <1>5. base + r.lo \in Nat
        BY <1>3, <1>4
  <1>6. PICK up : up = AlignUp(base + r.lo, a)
        OBVIOUS
  <1>7. up \in Nat /\ up >= base + r.lo /\ up < base + r.lo + a /\ Aligned(up, a)
        BY <1>5, <1>6, AlignUpBounds, AlignUpAligns
  <1>8. PICK pad : pad = up - (base + r.lo)
        OBVIOUS
  <1>9. pad \in 0..a /\ base + (r.lo + pad) = up
        BY <1>3, <1>4, <1>7, <1>8
  <1>10. PICK x : x = IF r.P.chain[r.P.cur] = r.block /\ r.P.pos = r.lo + size + a
                        THEN r.P.pos - (a - pad) ELSE r.P.pos
         OBVIOUS
  <1>11. q = [r EXCEPT !.lo = r.lo + pad, !.P = [r.P EXCEPT !.pos = x]]
         BY <1>1, <1>2, <1>4, <1>6, <1>8, <1>10 DEF CreateAlignedBuffer
  <1>12. q.heap = r.heap /\ q.block = r.block /\ q.lo = r.lo + pad /\ q.P = AtPos(r.P, x)
         BY <1>2, <1>11 DEF AtPos
  <1>13. Granted(P, h, q, size)
         BY <1>2, <1>9, <1>10, <1>12, Trimmed
  <1>14. Aligned(BaseOf[q.block] + q.lo, a)
         BY <1>4, <1>7, <1>9, <1>12
  <1> QED
      BY <1>13, <1>14
--------------------------------------------------------------------------------
(* Who owns the blocks *)

Owned(pl, h) ==
    /\ HeapOK(h)
    /\ pl \in [Pool -> PoolRec \cup {Null}]
    /\ \A p \in Pool : pl[p] # Null => PoolOK(pl[p], h)
    /\ \A p, q \in Pool : p # q /\ pl[p] # Null /\ pl[q] # Null =>
         \A b \in Blocks(pl[p].chain) : b \notin Blocks(pl[q].chain)
    /\ \A b \in DOMAIN h : \E p \in Pool : pl[p] # Null /\ b \in Blocks(pl[p].chain)

\* Chain d of heap h has nothing of chain c and is in heap g as it was.
Untouched(h, g, c, d) == \A b \in Blocks(d) : b \notin Blocks(c) /\ b \in DOMAIN h /\ g[b] = h[b]

\* The other pools do not see that the chain of p is changed.
LEMMA OtherChains ==
    ASSUME NEW pl, NEW h, Owned(pl, h), NEW p \in Pool, pl[p] # Null, NEW g, NEW c,
           Rechained(h, pl[p].chain, g, c), NEW q \in Pool, q # p, pl[q] # Null
    PROVE  PoolOK(pl[q], g) /\ Untouched(h, g, c, pl[q].chain)
  <1>1. PoolOK(pl[q], h) /\ Linked(h, pl[q].chain)
        BY DEF Owned, PoolOK
  <1>2. \A b \in Blocks(pl[q].chain) : b \in DOMAIN h /\ b \notin Blocks(pl[p].chain)
        BY <1>1 DEF Owned, Linked
  <1>3. \A b \in Blocks(pl[q].chain) : b \notin Blocks(c) /\ b \in DOMAIN h /\ g[b] = h[b] /\ b \in DOMAIN g
        BY <1>2 DEF Rechained
  <1>4. Linked(g, pl[q].chain)
        BY <1>1, <1>3 DEF Linked
  <1> QED
      BY <1>1, <1>3, <1>4 DEF PoolOK, Untouched

\* Pool p gets another chain, or goes when its chain is empty.
LEMMA OwnedAfter ==
    ASSUME NEW pl, NEW h, Owned(pl, h), NEW p \in Pool, pl[p] # Null, NEW g, NEW c, NEW Q,
           Rechained(h, pl[p].chain, g, c), NEW pl2, pl2 = [pl EXCEPT ![p] = Q],
           Q = Null => c = << >>, Q # Null => PoolOK(Q, g) /\ Q.chain = c
    PROVE  Owned(pl2, g)
  <1>1. HeapOK(g)
        BY DEF Rechained
  <1>2. pl \in [Pool -> PoolRec \cup {Null}] /\ Q \in PoolRec \cup {Null}
        BY DEF Owned, PoolOK
  <1>3. pl2 \in [Pool -> PoolRec \cup {Null}] /\ pl2[p] = Q /\ \A q \in Pool : q # p => pl2[q] = pl[q]
        BY <1>2
  <1>4. \A q \in Pool : q # p /\ pl[q] # Null =>
          PoolOK(pl[q], g) /\ \A b \in Blocks(pl[q].chain) : b \notin Blocks(c) /\ b \in DOMAIN h
    <2> SUFFICES ASSUME NEW q \in Pool, q # p, pl[q] # Null
                 PROVE  PoolOK(pl[q], g) /\ \A b \in Blocks(pl[q].chain) : b \notin Blocks(c) /\ b \in DOMAIN h
        OBVIOUS
    <2>1. PoolOK(pl[q], g) /\ Untouched(h, g, c, pl[q].chain)
          BY OtherChains
    <2> QED
        BY <2>1 DEF Untouched
  <1>5. ASSUME NEW q \in Pool, pl2[q] # Null PROVE PoolOK(pl2[q], g)
        BY <1>3, <1>4, <1>5
  <1>6. ASSUME NEW q \in Pool, NEW r \in Pool, q # r, pl2[q] # Null, pl2[r] # Null,
               NEW b \in Blocks(pl2[q].chain)
        PROVE  b \notin Blocks(pl2[r].chain)
    <2>1. CASE q = p
          BY <1>3, <1>4, <1>6, <2>1
    <2>2. CASE r = p
          BY <1>3, <1>4, <1>6, <2>2
    <2>3. CASE q # p /\ r # p
          BY <1>3, <1>6, <2>3 DEF Owned
    <2> QED
        BY <2>1, <2>2, <2>3
  <1>7. ASSUME NEW b \in DOMAIN g PROVE \E q \in Pool : pl2[q] # Null /\ b \in Blocks(pl2[q].chain)
    <2>1. CASE b \in Blocks(c)
      <3>1. Q # Null
            BY <2>1, BlocksOfNone
      <3> QED
          BY <1>3, <2>1, <3>1
    <2>2. CASE b \notin Blocks(c)
      <3>1. b \in DOMAIN h /\ b \notin Blocks(pl[p].chain)
            BY <2>2 DEF Rechained
      <3>2. PICK q \in Pool : pl[q] # Null /\ b \in Blocks(pl[q].chain)
            BY <3>1 DEF Owned
      <3> QED
          BY <1>3, <3>1, <3>2
    <2> QED
        BY <2>1, <2>2
  <1> QED
      BY <1>1, <1>3, <1>5, <1>6, <1>7 DEF Owned

LEMMA EmptyPoolOK ==
    ASSUME NEW bs \in Nat, NEW h PROVE PoolOK(EmptyPool(bs), h) /\ EmptyPool(bs).chain = << >>
  <1>1. EmptyPool(bs) \in PoolRec
        BY DEF EmptyPool, PoolRec
  <1>2. Linked(h, << >>)
        BY BlocksOfNone DEF Linked
  <1>3. EmptyPool(bs).chain = << >> /\ EmptyPool(bs).cur = 0
        BY DEF EmptyPool
  <1> QED
      BY <1>1, <1>2, <1>3 DEF PoolOK, Shape

\* A pool is constructed.
LEMMA OwnedWithNew ==
    ASSUME NEW pl, NEW h, Owned(pl, h), NEW p \in Pool, pl[p] = Null, NEW Q, Q # Null, PoolOK(Q, h),
           Q.chain = << >>, NEW pl2, pl2 = [pl EXCEPT ![p] = Q]
    PROVE  Owned(pl2, h)
  <1>1. pl \in [Pool -> PoolRec \cup {Null}] /\ Q \in PoolRec
        BY DEF Owned, PoolOK
  <1>2. pl2 \in [Pool -> PoolRec \cup {Null}] /\ pl2[p] = Q /\ \A q \in Pool : q # p => pl2[q] = pl[q]
        BY <1>1
  <1>3. \A b : b \notin Blocks(Q.chain)
        BY BlocksOfNone
  <1>4. ASSUME NEW b \in DOMAIN h PROVE \E q \in Pool : pl2[q] # Null /\ b \in Blocks(pl2[q].chain)
    <2>1. PICK q \in Pool : pl[q] # Null /\ b \in Blocks(pl[q].chain)
          BY DEF Owned
    <2> QED
        BY <1>2, <2>1
  <1> QED
      BY SMTT(20), <1>2, <1>3, <1>4 DEF Owned

\* p takes what q has; before, p has nothing.
LEMMA OwnedMoved ==
    ASSUME NEW pl, NEW h, Owned(pl, h), NEW p \in Pool, NEW q \in Pool, p # q, pl[q] # Null,
           pl[p] # Null => pl[p].chain = << >>, NEW pl2, pl2 \in [Pool -> PoolRec \cup {Null}],
           pl2[p] = pl[q], pl2[q] = MovedFrom(pl[q]),
           \A r \in Pool : r # p /\ r # q => pl2[r] = pl[r]
    PROVE  Owned(pl2, h)
  <1>1. pl[q].bs \in Nat
        BY Fields DEF Owned, PoolOK
  <1>2. PoolOK(pl2[q], h) /\ pl2[q].chain = << >> /\ \A b : b \notin Blocks(pl2[q].chain)
        BY <1>1, EmptyPoolOK, BlocksOfNone DEF MovedFrom
  <1>3. PoolOK(pl2[p], h)
        BY DEF Owned
  <1>4. ASSUME NEW r \in Pool, pl2[r] # Null PROVE PoolOK(pl2[r], h)
        BY <1>2, <1>3, <1>4 DEF Owned
  <1>5. ASSUME NEW r \in Pool, NEW s \in Pool, r # s, pl2[r] # Null, pl2[s] # Null, NEW b \in Blocks(pl2[r].chain)
        PROVE  b \notin Blocks(pl2[s].chain)
    <2>1. CASE r = q \/ s = q
          BY <1>2, <1>5, <2>1
    <2>2. CASE r = p /\ s # q
          BY <1>5, <2>2 DEF Owned
    <2>3. CASE s = p /\ r # q
          BY <1>5, <2>3 DEF Owned
    <2>4. CASE r # p /\ r # q /\ s # p /\ s # q
          BY <1>5, <2>4 DEF Owned
    <2> QED
        BY <1>5, <2>1, <2>2, <2>3, <2>4
  <1>6. ASSUME NEW b \in DOMAIN h PROVE \E r \in Pool : pl2[r] # Null /\ b \in Blocks(pl2[r].chain)
    <2>1. PICK r \in Pool : pl[r] # Null /\ b \in Blocks(pl[r].chain)
          BY DEF Owned
    <2>2. r # p
          BY <2>1, BlocksOfNone
    <2>3. CASE r = q
          BY <2>1, <2>3
    <2>4. CASE r # q
          BY <2>1, <2>2, <2>4
    <2> QED
        BY <2>3, <2>4
  <1> QED
      BY <1>4, <1>5, <1>6 DEF Owned
--------------------------------------------------------------------------------
(* Which buffers are in use *)

\* Buffer b is in the part of pool P that is in use.
InUseBy(P, h, b) ==
    \E i \in 1..P.cur : /\ P.chain[i] = b.block /\ b.hi <= h[b.block]
                        /\ i = P.cur => b.hi <= P.pos

InUse(pl, h, B) ==
    \A b \in B : /\ b \in BufferRec /\ b.lo < b.hi
                 /\ \E p \in Pool : pl[p] # Null /\ InUseBy(pl[p], h, b)

LEMMA BufferFields ==
    ASSUME NEW b \in BufferRec PROVE b.block \in Block /\ b.lo \in Nat /\ b.hi \in Nat /\ b.align \in Nat
  BY DEF BufferRec

LEMMA InUseInChain ==
    ASSUME NEW P, NEW h, NEW b, PoolOK(P, h), InUseBy(P, h, b) PROVE b.block \in Blocks(P.chain)
  <1>1. P.chain \in Seq(Block) /\ P.cur \in 0..Len(P.chain) /\ Len(P.chain) \in Nat
        BY Fields DEF PoolOK, Shape
  <1>2. PICK i \in 1..P.cur : P.chain[i] = b.block
        BY DEF InUseBy
  <1>3. i \in 1..Len(P.chain)
        BY <1>1
  <1> QED
      BY <1>1, <1>2, <1>3, ChainBlocks

LEMMA KeptInUse ==
    ASSUME NEW P, NEW h, NEW Q, NEW g, PoolOK(P, h), PoolOK(Q, g), Kept(P, h, Q, g),
           NEW b \in BufferRec, InUseBy(P, h, b)
    PROVE  InUseBy(Q, g, b)
  <1>1. P.pos \in Nat /\ Q.pos \in Nat /\ b.hi \in Nat
        BY Fields, BufferFields DEF PoolOK
  <1>2. PICK i \in 1..P.cur : /\ P.chain[i] = b.block /\ b.hi <= h[b.block]
                              /\ i = P.cur => b.hi <= P.pos
        BY DEF InUseBy
  <1>3. PICK j \in 1..Q.cur : /\ Q.chain[j] = P.chain[i] /\ g[P.chain[i]] = h[P.chain[i]]
                              /\ j = Q.cur => i = P.cur /\ P.pos <= Q.pos
        BY DEF Kept
  <1>4. Q.chain[j] = b.block /\ b.hi <= g[b.block]
        BY <1>2, <1>3
  <1>5. j = Q.cur => b.hi <= Q.pos
    <2> SUFFICES ASSUME j = Q.cur PROVE b.hi <= Q.pos
        OBVIOUS
    <2>1. b.hi <= P.pos /\ P.pos <= Q.pos
          BY <1>2, <1>3
    <2> QED
        BY <1>1, <2>1
  <1> QED
      BY <1>4, <1>5 DEF InUseBy

LEMMA OtherInUse ==
    ASSUME NEW pl, NEW h, Owned(pl, h), NEW p \in Pool, pl[p] # Null, NEW g, NEW c,
           Rechained(h, pl[p].chain, g, c), NEW q \in Pool, q # p, pl[q] # Null,
           NEW b, InUseBy(pl[q], h, b)
    PROVE  InUseBy(pl[q], g, b)
  <1>1. b.block \in Blocks(pl[q].chain)
    <2>1. PoolOK(pl[q], h)
          BY DEF Owned
    <2> QED
        BY <2>1, InUseInChain
  <1>2. g[b.block] = h[b.block]
    <2>1. Untouched(h, g, c, pl[q].chain)
          BY OtherChains
    <2> QED
        BY <1>1, <2>1 DEF Untouched
  <1> QED
      BY <1>2 DEF InUseBy

LEMMA OthersInUse ==
    ASSUME NEW pl, NEW h, Owned(pl, h), NEW p \in Pool, pl[p] # Null, NEW g, NEW c,
           Rechained(h, pl[p].chain, g, c)
    PROVE  \A q \in Pool : \A b : q # p /\ pl[q] # Null /\ InUseBy(pl[q], h, b) => InUseBy(pl[q], g, b)
  BY OtherInUse

\* What is in use stays so while pool p keeps what it uses.
LEMMA InUseAfter ==
    ASSUME NEW pl, NEW h, Owned(pl, h), NEW p \in Pool, pl[p] # Null, NEW g, NEW Q,
           Rechained(h, pl[p].chain, g, Q.chain), PoolOK(Q, g), Kept(pl[p], h, Q, g), Q # Null,
           NEW pl2, pl2 = [pl EXCEPT ![p] = Q], NEW B, InUse(pl, h, B)
    PROVE  InUse(pl2, g, B)
  <1>1. pl2[p] = Q /\ \A q \in Pool : q # p => pl2[q] = pl[q]
        BY DEF Owned
  <1> SUFFICES ASSUME NEW b \in B
               PROVE  /\ b \in BufferRec /\ b.lo < b.hi
                      /\ \E q \in Pool : pl2[q] # Null /\ InUseBy(pl2[q], g, b)
      BY DEF InUse
  <1>2. b \in BufferRec /\ b.lo < b.hi
        BY DEF InUse
  <1>3. PICK q \in Pool : pl[q] # Null /\ InUseBy(pl[q], h, b)
        BY DEF InUse
  <1>4. CASE q = p
    <2>1. InUseBy(Q, g, b)
          BY <1>2, <1>3, <1>4, KeptInUse DEF Owned
    <2> QED
        BY <1>1, <1>2, <2>1
  <1>5. CASE q # p
    <2>1. InUseBy(pl[q], g, b)
          BY <1>3, <1>5, OtherInUse
    <2> QED
        BY <1>1, <1>2, <1>3, <1>5, <2>1
  <1> QED
      BY <1>4, <1>5

\* The buffers outside of chain c.
Outlive(B, c) == {b \in B : b.block \notin Blocks(c)}

\* The buffers of pool p end, the others stay in use.
LEMMA InUseOthers ==
    ASSUME NEW pl, NEW h, Owned(pl, h), NEW p \in Pool, pl[p] # Null, NEW g, NEW c,
           Rechained(h, pl[p].chain, g, c), NEW pl2, \A q \in Pool : q # p => pl2[q] = pl[q],
           NEW B, InUse(pl, h, B)
    PROVE  InUse(pl2, g, Outlive(B, pl[p].chain))
  <1> SUFFICES ASSUME NEW b \in B, b.block \notin Blocks(pl[p].chain)
               PROVE  /\ b \in BufferRec /\ b.lo < b.hi
                      /\ \E q \in Pool : pl2[q] # Null /\ InUseBy(pl2[q], g, b)
      BY DEF InUse, Outlive
  <1>1. b \in BufferRec /\ b.lo < b.hi
        BY DEF InUse
  <1>2. PICK q \in Pool : pl[q] # Null /\ InUseBy(pl[q], h, b)
        BY DEF InUse
  <1>3. q # p
        BY <1>2, InUseInChain DEF Owned
  <1>4. InUseBy(pl[q], g, b)
        BY <1>2, <1>3, OtherInUse
  <1> QED
      BY <1>1, <1>2, <1>3, <1>4

LEMMA InUseMoved ==
    ASSUME NEW pl, NEW h, Owned(pl, h), NEW p \in Pool, NEW q \in Pool, p # q, pl[q] # Null,
           pl[p] # Null => pl[p].chain = << >>, NEW pl2, pl2[p] = pl[q],
           \A r \in Pool : r # p /\ r # q => pl2[r] = pl[r], NEW B, InUse(pl, h, B)
    PROVE  InUse(pl2, h, B)
  <1> SUFFICES ASSUME NEW b \in B
               PROVE  /\ b \in BufferRec /\ b.lo < b.hi
                      /\ \E r \in Pool : pl2[r] # Null /\ InUseBy(pl2[r], h, b)
      BY DEF InUse
  <1>1. b \in BufferRec /\ b.lo < b.hi
        BY DEF InUse
  <1>2. PICK r \in Pool : pl[r] # Null /\ InUseBy(pl[r], h, b)
        BY DEF InUse
  <1>3. r # p
        BY <1>2, InUseInChain, BlocksOfNone DEF Owned
  <1>4. CASE r = q
        BY <1>1, <1>2, <1>4
  <1>5. CASE r # q
        BY <1>1, <1>2, <1>3, <1>5
  <1> QED
      BY <1>4, <1>5
--------------------------------------------------------------------------------
(* The operations on one pool *)

NoOverlap(B) == \A b, c \in B : b # c /\ b.block = c.block => b.hi <= c.lo \/ c.hi <= b.lo
AllAligned(B) == \A b \in B : Aligned(BaseOf[b.block] + b.lo, b.align)

Safe(pl, h, B) == Owned(pl, h) /\ InUse(pl, h, B) /\ NoOverlap(B) /\ AllAligned(B)

LEMMA NotNull == \A P \in PoolRec : P # Null
  BY NullAssumption

\* Q is P but for its cleaners and its block size.
SameBlocks(P, Q) == Q \in PoolRec /\ Q.chain = P.chain /\ Q.cur = P.cur /\ Q.pos = P.pos

LEMMA SameBlocksOK ==
    ASSUME NEW P, NEW h, PoolOK(P, h), NEW Q, SameBlocks(P, Q)
    PROVE  PoolOK(Q, h) /\ Q # Null
  BY NotNull DEF SameBlocks, PoolOK, Shape

LEMMA KeptSame ==
    ASSUME NEW P, NEW h, PoolOK(P, h), NEW Q, SameBlocks(P, Q), NEW R, NEW g, Kept(R, g, P, h)
    PROVE  Kept(R, g, Q, h)
  BY DEF SameBlocks, Kept

\* Pool p has the same blocks in use as before; heap and buffers are as they were.
LEMMA SafeWithSame ==
    ASSUME NEW pl, NEW h, NEW B, Safe(pl, h, B), NEW p \in Pool, pl[p] # Null, NEW Q, SameBlocks(pl[p], Q),
           NEW pl2, pl2 = [pl EXCEPT ![p] = Q]
    PROVE  Safe(pl2, h, B)
  <1>1. Owned(pl, h) /\ InUse(pl, h, B) /\ NoOverlap(B) /\ AllAligned(B)
        BY DEF Safe
  <1>2. PoolOK(pl[p], h) /\ HeapOK(h)
        BY <1>1 DEF Owned
  <1>3. PoolOK(Q, h) /\ Q # Null /\ Q.chain = pl[p].chain
        BY <1>2, SameBlocksOK DEF SameBlocks
  <1>4. Rechained(h, pl[p].chain, h, Q.chain)
        BY <1>2, <1>3, RechainedSame DEF PoolOK
  <1>5. Kept(pl[p], h, Q, h)
    <2> SUFFICES ASSUME NEW i \in 1..pl[p].cur
                 PROVE  \E j \in 1..Q.cur : /\ Q.chain[j] = pl[p].chain[i] /\ h[pl[p].chain[i]] = h[pl[p].chain[i]]
                                            /\ j = Q.cur => i = pl[p].cur /\ pl[p].pos <= Q.pos
        BY DEF Kept
    <2>1. pl[p].pos \in Nat
          BY <1>2, Fields DEF PoolOK
    <2> QED
        BY <2>1 DEF SameBlocks
  <1>6. InUse(pl2, h, B)
        BY <1>1, <1>3, <1>4, <1>5, InUseAfter
  <1>7. Owned(pl2, h)
        BY <1>1, <1>3, <1>4, OwnedAfter
  <1> QED
      BY <1>1, <1>6, <1>7 DEF Safe

\* A request is granted, and the buffer is given to the caller.
LEMMA SafeWithBuffer ==
    ASSUME NEW pl, NEW h, NEW B, Safe(pl, h, B), NEW p \in Pool, pl[p] # Null, NEW r, NEW size \in Nat \ {0},
           Granted(pl[p], h, r, size), NEW a \in Nat, Aligned(BaseOf[r.block] + r.lo, a),
           NEW Q, SameBlocks(r.P, Q), NEW pl2, pl2 = [pl EXCEPT ![p] = Q]
    PROVE  Safe(pl2, r.heap, B \cup {Buffer(r, size, a)})
  <1>1. Owned(pl, h) /\ InUse(pl, h, B) /\ NoOverlap(B) /\ AllAligned(B)
        BY DEF Safe
  <1>2. PICK n : n = Buffer(r, size, a)
        OBVIOUS
  <1>3. r.block \in Block /\ r.lo \in Nat /\ r.block \in Blocks(r.P.chain)
        BY GrantedBlock
  <1>4. n.block = r.block /\ n.lo = r.lo /\ n.hi = r.lo + size /\ n.align = a
        BY <1>2 DEF Buffer
  <1>5. n \in BufferRec /\ n.lo < n.hi
    <2>1. r.lo + size \in Nat
          BY <1>3
    <2> QED
        BY <1>2, <1>3, <1>4, <2>1 DEF Buffer, BufferRec
  <1>6. PoolOK(r.P, r.heap) /\ Rechained(h, pl[p].chain, r.heap, r.P.chain) /\ Kept(pl[p], h, r.P, r.heap)
        BY DEF Granted
  <1>7. /\ PoolOK(Q, r.heap) /\ Q # Null /\ Kept(pl[p], h, Q, r.heap)
        /\ Q.chain = r.P.chain /\ Q.cur = r.P.cur /\ Q.pos = r.P.pos
        BY <1>6, SameBlocksOK, KeptSame DEF SameBlocks
  <1>8. Owned(pl2, r.heap)
        BY <1>1, <1>6, <1>7, OwnedAfter
  <1>9. InUse(pl2, r.heap, B)
    <2>1. Rechained(h, pl[p].chain, r.heap, Q.chain)
          BY <1>6, <1>7
    <2> QED
        BY <1>1, <1>7, <2>1, InUseAfter
  <1>10. pl2[p] = Q
         BY <1>1 DEF Owned
  <1>11. InUseBy(Q, r.heap, n)
    <2>1. PICK i \in 1..r.P.cur : /\ r.P.chain[i] = r.block /\ r.lo + size <= r.heap[r.block]
                                  /\ i = r.P.cur => r.lo + size <= r.P.pos
          BY DEF Granted, Fresh
    <2> QED
        BY <1>4, <1>7, <2>1 DEF InUseBy
  <1>12. ASSUME NEW b \in B, b.block = n.block PROVE b.hi <= n.lo
    <2>1. b \in BufferRec
          BY <1>1 DEF InUse
    <2>2. PICK q \in Pool : pl[q] # Null /\ InUseBy(pl[q], h, b)
          BY <1>1 DEF InUse
    <2>3. q = p
      <3> SUFFICES ASSUME q # p PROVE FALSE
          OBVIOUS
      <3>1. b.block \in Blocks(pl[q].chain)
        <4>1. PoolOK(pl[q], h)
              BY <1>1, <2>2 DEF Owned
        <4> QED
            BY <2>2, <4>1, InUseInChain
      <3>2. Untouched(h, r.heap, r.P.chain, pl[q].chain)
            BY <1>1, <1>6, <2>2, OtherChains
      <3> QED
          BY <1>3, <1>4, <1>12, <3>1, <3>2 DEF Untouched
    <2>4. PICK i \in 1..pl[p].cur : pl[p].chain[i] = b.block /\ (i = pl[p].cur => b.hi <= pl[p].pos)
          BY <2>2, <2>3 DEF InUseBy
    <2>5. i = pl[p].cur /\ pl[p].pos <= r.lo
          BY <1>4, <1>12, <2>4 DEF Granted, Fresh
    <2>6. b.hi \in Nat /\ pl[p].pos \in Nat
          BY <1>1, <2>1, BufferFields, Fields DEF Owned, PoolOK
    <2> QED
        BY <1>3, <1>4, <2>4, <2>5, <2>6
  <1>13. InUse(pl2, r.heap, B \cup {n})
         BY <1>5, <1>7, <1>9, <1>10, <1>11 DEF InUse
  <1>14. NoOverlap(B \cup {n})
         BY <1>1, <1>12 DEF NoOverlap
  <1>15. AllAligned(B \cup {n})
         BY <1>1, <1>4 DEF AllAligned
  <1> QED
      BY <1>2, <1>8, <1>13, <1>14, <1>15 DEF Safe

\* The contents of pool p end; Q is what it is then.
LEMMA SafeWithout ==
    ASSUME NEW pl, NEW h, NEW B, Safe(pl, h, B), NEW p \in Pool, pl[p] # Null, NEW g, NEW c, NEW Q,
           Rechained(h, pl[p].chain, g, c), Q = Null => c = << >>,
           Q # Null => PoolOK(Q, g) /\ Q.chain = c, NEW pl2, pl2 = [pl EXCEPT ![p] = Q]
    PROVE  Safe(pl2, g, Outlive(B, pl[p].chain))
  <1>1. Owned(pl, h) /\ InUse(pl, h, B) /\ NoOverlap(B) /\ AllAligned(B)
        BY DEF Safe
  <1>2. Owned(pl2, g)
        BY <1>1, OwnedAfter
  <1>3. \A q \in Pool : q # p => pl2[q] = pl[q]
        BY <1>1 DEF Owned
  <1>4. InUse(pl2, g, Outlive(B, pl[p].chain))
        BY <1>1, <1>3, InUseOthers
  <1>5. Outlive(B, pl[p].chain) \subseteq B
        BY DEF Outlive
  <1>6. NoOverlap(Outlive(B, pl[p].chain)) /\ AllAligned(Outlive(B, pl[p].chain))
        BY <1>1, <1>5 DEF NoOverlap, AllAligned
  <1> QED
      BY <1>2, <1>4, <1>6 DEF Safe

LEMMA SafeMoved ==
    ASSUME NEW pl, NEW h, NEW B, Safe(pl, h, B), NEW p \in Pool, NEW q \in Pool, p # q, pl[q] # Null,
           pl[p] # Null => pl[p].chain = << >>, NEW pl2, pl2 \in [Pool -> PoolRec \cup {Null}],
           pl2[p] = pl[q], pl2[q] = MovedFrom(pl[q]),
           \A r \in Pool : r # p /\ r # q => pl2[r] = pl[r]
    PROVE  Safe(pl2, h, B)
  <1>1. Owned(pl2, h)
        BY OwnedMoved DEF Safe
  <1>2. InUse(pl2, h, B)
        BY InUseMoved DEF Safe
  <1> QED
      BY <1>1, <1>2 DEF Safe

\* clear(): at most the first block is replaced, and nothing is in use.
LEMMA ClearedOK ==
    ASSUME NEW P, NEW h, HeapOK(h), PoolOK(P, h), NEW C, C = Cleared(P, h)
    PROVE  /\ Rechained(h, P.chain, C.heap, C.P.chain) /\ PoolOK(C.P, C.heap)
           /\ C.P.bs = P.bs /\ C.P.pos = 0 /\ C.P.cleaners = << >>
  <1>1. P \in PoolRec /\ P.bs \in Nat /\ P.chain \in Seq(Block) /\ P.cur \in 0..Len(P.chain) /\ Len(P.chain) \in Nat
        /\ Linked(h, P.chain) /\ P.cur \in Nat
        BY Fields DEF PoolOK, Shape
  <1>2. PICK k \in Nat : k = IF P.chain = << >> THEN P.cur ELSE 1
        BY <1>1
  <1>3. PICK c : c = IF P.chain = << >> THEN [heap |-> h, chain |-> << >>] ELSE CompactBlock(h, P.chain, 1, P.bs)
        OBVIOUS
  <1>4. C.heap = c.heap /\ C.P = [P EXCEPT !.chain = c.chain, !.cur = k, !.pos = 0, !.cleaners = << >>]
    <2>1. C = [heap |-> c.heap, P |-> [P EXCEPT !.chain = c.chain, !.cur = k, !.pos = 0, !.cleaners = << >>]]
          BY <1>2, <1>3 DEF Cleared
    <2> QED
        BY <2>1
  <1>5. Rechained(h, P.chain, c.heap, c.chain) /\ k \in 0..Len(c.chain) /\ (c.chain # << >> => k # 0)
    <2>1. CASE P.chain = << >>
      <3>1. c.heap = h /\ c.chain = << >> /\ k = 0
            BY <1>1, <1>2, <1>3, <2>1
      <3> QED
          BY <1>1, <2>1, <3>1, RechainedSame
    <2>2. CASE P.chain # << >>
      <3>1. 1 \in 1..Len(P.chain)
            BY <1>1, <2>2
      <3>2. c = CompactBlock(h, P.chain, 1, P.bs) /\ k = 1
            BY <1>2, <1>3, <2>2
      <3>3. Rechained(h, P.chain, c.heap, c.chain) /\ 1 <= Len(c.chain)
            BY <1>1, <3>1, <3>2, Compacted
      <3>4. Len(c.chain) \in Nat
            BY <3>3, LinkedAfter DEF Linked
      <3> QED
          BY <3>2, <3>3, <3>4
    <2> QED
        BY <2>1, <2>2
  <1>6. HeapOK(c.heap) /\ Linked(c.heap, c.chain) /\ c.chain \in Seq(Block)
        BY <1>5, LinkedAfter DEF Linked
  <1>7. PICK d \in Seq(Block) : d = c.chain
        BY <1>6
  <1>8. << >> \in Seq(CleanerRec)
        OBVIOUS
  <1>9. /\ C.P \in PoolRec /\ C.P.chain = d /\ C.P.cur = k /\ C.P.bs = P.bs /\ C.P.pos = 0
        /\ C.P.cleaners = << >>
    <2>1. C.P = [P EXCEPT !.chain = d, !.cur = k, !.pos = 0, !.cleaners = << >>]
          BY <1>4, <1>7
    <2>2. PICK Z : Z = C.P
          OBVIOUS
    <2>3. Z = [P EXCEPT !.chain = d, !.cur = k, !.pos = 0, !.cleaners = << >>]
          BY <2>1, <2>2
    <2>4. /\ Z \in PoolRec /\ Z.chain = d /\ Z.cur = k /\ Z.bs = P.bs /\ Z.pos = 0
          /\ Z.cleaners = << >>
          BY <1>1, <1>2, <1>7, <1>8, <2>3 DEF PoolRec
    <2> QED
        BY <2>2, <2>4
  <1>10. PoolOK(C.P, C.heap)
         BY <1>4, <1>5, <1>6, <1>7, <1>9 DEF PoolOK, Shape
  <1> QED
      BY <1>4, <1>5, <1>7, <1>9, <1>10

\* What is cleared can be destroyed.
LEMMA ClearedAndDestroyed ==
    ASSUME NEW P, NEW h, HeapOK(h), PoolOK(P, h), NEW C, C = Cleared(P, h)
    PROVE  Rechained(h, P.chain, Destroy(C.heap, Blocks(C.P.chain)), << >>)
  <1>1. Rechained(h, P.chain, C.heap, C.P.chain)
        BY ClearedOK
  <1>2. HeapOK(C.heap) /\ Linked(C.heap, C.P.chain)
        BY <1>1, LinkedAfter
  <1>3. Rechained(C.heap, C.P.chain, Destroy(C.heap, Blocks(C.P.chain)), << >>)
        BY <1>2, Emptied
  <1> QED
      BY <1>1, <1>3, RechainedTwice

\* Pool p has another chain; what it had in use is in use.
LEMMA SafeWithChain ==
    ASSUME NEW pl, NEW h, NEW B, Safe(pl, h, B), NEW p \in Pool, pl[p] # Null, NEW Q, NEW g,
           Rechained(h, pl[p].chain, g, Q.chain), PoolOK(Q, g), Q # Null,
           \A b \in B : InUseBy(pl[p], h, b) => InUseBy(Q, g, b), NEW pl2, pl2 = [pl EXCEPT ![p] = Q]
    PROVE  Safe(pl2, g, B)
  <1>1. Owned(pl, h) /\ InUse(pl, h, B) /\ NoOverlap(B) /\ AllAligned(B)
        BY DEF Safe
  <1>2. \A q \in Pool : \A b : q # p /\ pl[q] # Null /\ InUseBy(pl[q], h, b) => InUseBy(pl[q], g, b)
        BY <1>1, OthersInUse
  <1>3. pl2[p] = Q /\ \A q \in Pool : q # p => pl2[q] = pl[q]
        BY <1>1 DEF Owned
  <1>4. InUse(pl2, g, B)
        BY <1>1, <1>2, <1>3 DEF InUse
  <1>5. Owned(pl2, g)
        BY <1>1, OwnedAfter
  <1> QED
      BY <1>1, <1>4, <1>5 DEF Safe

\* Pool p keeps the first k blocks of its chain: all that is in use, unless k is
\* 0, and nothing is in use then.
LEMMA SafeWithPrefix ==
    ASSUME NEW pl, NEW h, NEW B, Safe(pl, h, B), NEW p \in Pool, pl[p] # Null,
           NEW k \in 0..Len(pl[p].chain), NEW l \in 0..k,
           (l = pl[p].cur) \/ (l = 0 /\ pl[p].cur = 1 /\ pl[p].pos = 0 /\ k = 0), k # 0 => l # 0,
           NEW Q, Q \in PoolRec, Q.chain = SubSeq(pl[p].chain, 1, k), Q.cur = l, Q.pos = pl[p].pos,
           NEW g, g = Destroy(h, Blocks(SubSeq(pl[p].chain, k + 1, Len(pl[p].chain)))),
           NEW pl2, pl2 = [pl EXCEPT ![p] = Q]
    PROVE  Safe(pl2, g, B)
  <1>1. Owned(pl, h) /\ InUse(pl, h, B) /\ NoOverlap(B) /\ AllAligned(B)
        BY DEF Safe
  <1>2. PICK P : P = pl[p]
        OBVIOUS
  <1>3. PoolOK(P, h) /\ HeapOK(h) /\ Linked(h, P.chain) /\ P.pos \in Nat /\ Len(P.chain) \in Nat /\ P.cur \in Nat
        BY <1>1, <1>2, Fields DEF Owned, PoolOK
  <1>4. PICK c : c = P.chain
        OBVIOUS
  <1>5. /\ Rechained(h, c, g, SubSeq(c, 1, k)) /\ Len(SubSeq(c, 1, k)) = k
        /\ \A i \in 1..k : SubSeq(c, 1, k)[i] = c[i] /\ g[c[i]] = h[c[i]]
        BY <1>2, <1>3, <1>4, CutOff
  <1>6. Linked(g, Q.chain) /\ Len(Q.chain) = k
        BY <1>2, <1>4, <1>5, LinkedAfter
  <1>7. PoolOK(Q, g) /\ Q # Null
    <2>1. Shape(Q)
      <3>1. Q.chain # << >> => k # 0
            BY <1>6
      <3> QED
          BY <1>6, <3>1 DEF Shape
    <2> QED
        BY <1>6, <2>1, NotNull DEF PoolOK
  <1>8. ASSUME NEW b \in B, InUseBy(P, h, b) PROVE InUseBy(Q, g, b)
    <2>1. b \in BufferRec /\ b.lo < b.hi
          BY <1>1 DEF InUse
    <2>2. PICK i \in 1..P.cur : P.chain[i] = b.block /\ b.hi <= h[b.block] /\ (i = P.cur => b.hi <= P.pos)
          BY <1>8 DEF InUseBy
    <2>3. l = P.cur
      <3> SUFFICES ASSUME P.cur = 1, P.pos = 0 PROVE FALSE
          BY <1>2
      <3>1. b.hi <= 0
            BY <2>2
      <3> QED
          BY <2>1, <3>1, BufferFields
    <2>4. i \in 1..k /\ i \in 1..Q.cur
          BY <1>2, <1>3, <2>3
    <2>5. Q.chain[i] = b.block /\ g[b.block] = h[b.block]
          BY <1>2, <1>4, <1>5, <2>2, <2>4
    <2> QED
        BY <1>2, <2>2, <2>3, <2>4, <2>5 DEF InUseBy
  <1>9. Rechained(h, pl[p].chain, g, Q.chain)
        BY <1>2, <1>4, <1>5
  <1> QED
      BY <1>2, <1>7, <1>8, <1>9, SafeWithChain
--------------------------------------------------------------------------------
(* The buffers of all pools, step by step *)

PoolInv == Safe(pool, heap, bufs)

LEMMA RoomIsFor ==
    ASSUME NEW p \in Live, PoolInv, HasRoom(p) PROVE RoomFor(pool[p], heap)
  <1>1. PICK S : S = Block \ DOMAIN heap
        OBVIOUS
  <1>2. IsFiniteSet(Block) /\ S \subseteq Block
        BY <1>1, PoolAssumption
  <1>3. IsFiniteSet(S)
        BY <1>2, FS_Subset
  <1>4. Cardinality(S) >= IF pool[p].cur = 0 THEN 2 ELSE 1
        BY <1>1 DEF HasRoom
  <1>5. Cardinality(S) \in Nat
        BY <1>3, FS_CardinalityType
  <1>6. S # {}
    <2>1. Cardinality(S) # 0
          BY <1>4, <1>5
    <2> QED
        BY <1>3, <2>1, FS_EmptySet
  <1>7. PICK a : a \in S
        BY <1>6
  <1>8. ASSUME pool[p].cur = 0 PROVE \E b \in S : b # a
    <2>1. IsFiniteSet(S \ {a}) /\ Cardinality(S \ {a}) = Cardinality(S) - 1
          BY <1>3, <1>7, FS_RemoveElement
    <2>2. Cardinality(S \ {a}) # 0
          BY <1>4, <1>5, <1>8, <2>1
    <2>3. S \ {a} # {}
          BY <2>1, <2>2, FS_EmptySet
    <2> QED
        BY <2>3
  <1>9. \A x : x \in S <=> x \in Block /\ x \notin DOMAIN heap
        BY <1>1
  <1> QED
      BY <1>7, <1>8, <1>9 DEF RoomFor

LEMMA LivePool ==
    ASSUME PoolInv, NEW p \in Live
    PROVE  p \in Pool /\ pool[p] # Null /\ PoolOK(pool[p], heap) /\ HeapOK(heap) /\ pool[p] \in PoolRec
  <1>1. p \in Pool /\ pool[p] # Null
        BY DEF Live
  <1> QED
      BY <1>1 DEF PoolInv, Safe, Owned, PoolOK

LEMMA InitPoolInv == Init => PoolInv
  <1> SUFFICES ASSUME Init PROVE PoolInv
      OBVIOUS
  <1>1. HeapOK(<< >>) /\ DOMAIN << >> = {}
        BY DEF HeapOK
  <1>2. pool \in [Pool -> PoolRec \cup {Null}] /\ \A p \in Pool : pool[p] = Null
        BY DEF Init
  <1>3. Owned(pool, heap)
        BY <1>1, <1>2 DEF Init, Owned
  <1>4. InUse(pool, heap, bufs) /\ NoOverlap(bufs) /\ AllAligned(bufs)
        BY DEF Init, InUse, NoOverlap, AllAligned
  <1> QED
      BY <1>3, <1>4 DEF PoolInv, Safe

LEMMA SameBlocksSelf == \A P \in PoolRec : SameBlocks(P, P)
  BY DEF SameBlocks

LEMMA SameBlocksCleaners ==
    ASSUME NEW P \in PoolRec, NEW o \in Obj, NEW Q, Q = [P EXCEPT !.cleaners = Append(@, Cleaner(o))]
    PROVE  SameBlocks(P, Q) /\ Q.cleaners = Append(P.cleaners, Cleaner(o))
  <1>1. Cleaner(o) \in CleanerRec
        BY DEF Cleaner, CleanerRec
  <1>2. PICK s \in Seq(CleanerRec) : s = Append(P.cleaners, Cleaner(o))
    <2>1. P.cleaners \in Seq(CleanerRec)
          BY Fields
    <2> QED
        BY <1>1, <2>1, AppendProperties
  <1>3. Q = [P EXCEPT !.cleaners = s]
        BY <1>2
  <1> QED
      BY <1>2, <1>3 DEF SameBlocks, PoolRec

LEMMA NativeGranted ==
    ASSUME PoolInv, NEW p \in Live, HasRoom(p), NEW size \in Nat, NEW a \in NativeAligns, NEW r,
           r = CreateBufferInternal(pool[p], heap, size, a)
    PROVE  Granted(pool[p], heap, r, size) /\ Aligned(BaseOf[r.block] + r.lo, a)
  <1>1. a \in Nat \ {0}
        BY PoolAssumption
  <1>2. Granted(pool[p], heap, r, size) /\ Aligned(r.lo, a)
        BY <1>1, LivePool, RoomIsFor, BufferGranted
  <1>3. r.block \in Block /\ r.lo \in Nat
        BY <1>2, GrantedBlock
  <1>4. BaseOf[r.block] \in Nat /\ Aligned(BaseOf[r.block], a)
        BY <1>3, PoolAssumption, BaseAssumption DEF Aligned
  <1> QED
      BY <1>1, <1>2, <1>3, <1>4, AddAligned

LEMMA BigGranted ==
    ASSUME PoolInv, NEW p \in Live, HasRoom(p), NEW size \in Nat, NEW a \in BigAligns, NEW r,
           r = CreateAlignedBuffer(pool[p], heap, size, a)
    PROVE  Granted(pool[p], heap, r, size) /\ Aligned(BaseOf[r.block] + r.lo, a)
  <1>1. a \in Nat \ {0}
        BY PoolAssumption
  <1> QED
      BY <1>1, LivePool, RoomIsFor, AlignedGranted

LEMMA GivenPoolInv ==
    ASSUME PoolInv, NEW p \in Live, NEW size \in Nat \ {0}, NEW a \in Nat, NEW r,
           Granted(pool[p], heap, r, size), Aligned(BaseOf[r.block] + r.lo, a), NEW Q, SameBlocks(r.P, Q),
           heap' = r.heap, pool' = [pool EXCEPT ![p] = Q], bufs' = bufs \cup {Buffer(r, size, a)}
    PROVE  PoolInv'
  <1>1. Safe(pool', r.heap, bufs \cup {Buffer(r, size, a)})
        BY LivePool, SafeWithBuffer DEF PoolInv
  <1> QED
      BY <1>1 DEF PoolInv

LEMMA GivePoolInv ==
    ASSUME PoolInv, NEW p \in Live, NEW size \in Nat \ {0}, NEW a \in Nat, NEW r,
           Granted(pool[p], heap, r, size), Aligned(BaseOf[r.block] + r.lo, a), Give(p, r, size, a)
    PROVE  PoolInv'
  <1>1. heap' = r.heap /\ pool' = [pool EXCEPT ![p] = r.P] /\ bufs' = bufs \cup {Buffer(r, size, a)}
        BY DEF Give
  <1>2. SameBlocks(r.P, r.P)
        BY SameBlocksSelf DEF Granted, PoolOK
  <1> QED
      BY <1>1, <1>2, GivenPoolInv

LEMMA ConstructPoolInv ==
    ASSUME PoolInv, NEW p \in Pool, NEW s \in BlockSizes, Construct(p, s) PROVE PoolInv'
  <1>1. BlockSizeFor(s) \in Nat
        BY PoolAssumption, BlockSizeForNat
  <1>2. PICK Q : Q = EmptyPool(BlockSizeFor(s))
        OBVIOUS
  <1>3. pool' = [pool EXCEPT ![p] = Q] /\ heap' = heap /\ bufs' = bufs /\ pool[p] = Null
        BY <1>2 DEF Construct, Live
  <1>4. Owned(pool, heap) /\ InUse(pool, heap, bufs) /\ NoOverlap(bufs) /\ AllAligned(bufs)
        BY DEF PoolInv, Safe
  <1>5. PoolOK(Q, heap) /\ Q.chain = << >> /\ Q # Null
        BY <1>1, <1>2, EmptyPoolOK, NotNull DEF PoolOK
  <1>6. Owned(pool', heap)
        BY <1>3, <1>4, <1>5, OwnedWithNew
  <1>7. \A q \in Pool : pool[q] # Null => pool'[q] = pool[q]
        BY <1>3, <1>4 DEF Owned
  <1>8. InUse(pool', heap, bufs)
        BY <1>4, <1>7 DEF InUse
  <1> QED
      BY <1>3, <1>4, <1>6, <1>8 DEF PoolInv, Safe

LEMMA SetBlockSizePoolInv ==
    ASSUME PoolInv, NEW p \in Pool, NEW s \in BlockSizes, SetBlockSize(p, s) PROVE PoolInv'
  <1>1. p \in Live /\ heap' = heap /\ bufs' = bufs /\ pool' = [pool EXCEPT ![p].bs = BlockSizeFor(s)]
        BY DEF SetBlockSize, Outside
  <1>2. PICK n \in Nat : n = BlockSizeFor(s)
        BY PoolAssumption, BlockSizeForNat
  <1>3. PICK Q : Q = [pool[p] EXCEPT !.bs = n]
        OBVIOUS
  <1>4. pool[p] \in PoolRec
        BY <1>1, LivePool
  <1>5. SameBlocks(pool[p], Q)
        BY <1>3, <1>4 DEF SameBlocks, PoolRec
  <1>6. pool' = [pool EXCEPT ![p] = Q]
        BY <1>1, <1>2, <1>3
  <1>7. Safe(pool', heap, bufs)
        BY <1>1, <1>5, <1>6, LivePool, SafeWithSame DEF PoolInv
  <1> QED
      BY <1>1, <1>7 DEF PoolInv

LEMMA CreateBufferPoolInv ==
    ASSUME PoolInv, NEW p \in Pool, NEW size \in Sizes, NEW a \in NativeAligns, CreateBuffer(p, size, a)
    PROVE  PoolInv'
  <1>1. PICK r : r = CreateBufferInternal(pool[p], heap, size, a)
        OBVIOUS
  <1>2. p \in Live /\ HasRoom(p) /\ Give(p, r, size, a)
        BY <1>1 DEF CreateBuffer, MayCreate
  <1>3. size \in Nat \ {0} /\ size \in Nat /\ a \in Nat
        BY PoolAssumption
  <1> QED
      BY <1>1, <1>2, <1>3, NativeGranted, GivePoolInv

LEMMA CreateBigAlignedPoolInv ==
    ASSUME PoolInv, NEW p \in Pool, NEW size \in Sizes, NEW a \in BigAligns, CreateBigAligned(p, size, a)
    PROVE  PoolInv'
  <1>1. PICK r : r = CreateAlignedBuffer(pool[p], heap, size, a)
        OBVIOUS
  <1>2. p \in Live /\ HasRoom(p) /\ Give(p, r, size, a)
        BY <1>1 DEF CreateBigAligned, MayCreate
  <1>3. size \in Nat \ {0} /\ size \in Nat /\ a \in Nat
        BY PoolAssumption
  <1> QED
      BY <1>1, <1>2, <1>3, BigGranted, GivePoolInv

LEMMA StutterPoolInv == PoolInv /\ UNCHANGED vars => PoolInv'
  BY DEF PoolInv, vars

LEMMA CreateCStringPoolInv ==
    ASSUME PoolInv, NEW p \in Pool, NEW n \in Lengths, CreateCString(p, n) PROVE PoolInv'
  <1>1. p \in Live /\ HasRoom(p)
        BY DEF CreateCString, MayCreate
  <1>2. CASE UNCHANGED vars
        BY <1>2, StutterPoolInv
  <1>3. CASE n # 0 /\ Give(p, CreateBufferInternal(pool[p], heap, n + 1, 1), n + 1, 1)
    <2>1. PICK size \in Nat \ {0} : size = n + 1
      <3>1. n + 1 \in Nat \ {0}
            BY PoolAssumption
      <3> QED
          BY <3>1
    <2>2. PICK r : r = CreateBufferInternal(pool[p], heap, size, 1)
          OBVIOUS
    <2>3. Granted(pool[p], heap, r, size)
          BY <1>1, <2>1, <2>2, LivePool, RoomIsFor, BufferGranted
    <2>4. Aligned(BaseOf[r.block] + r.lo, 1)
      <3>1. r.block \in Block /\ r.lo \in Nat
            BY <2>3, GrantedBlock
      <3>2. BaseOf[r.block] \in Nat
            BY <3>1, PoolAssumption
      <3> QED
          BY <3>1, <3>2 DEF Aligned
    <2>5. Give(p, r, size, 1)
          BY <1>3, <2>1, <2>2
    <2> QED
        BY <1>1, <2>1, <2>3, <2>4, <2>5, GivePoolInv
  <1> QED
      BY <1>2, <1>3 DEF CreateCString

LEMMA ObjectGranted ==
    ASSUME PoolInv, NEW p \in Live, HasRoom(p), NEW a \in NativeAligns \cup BigAligns, NEW r,
           r = IF a \in NativeAligns THEN CreateBufferInternal(pool[p], heap, ObjSize, a)
               ELSE CreateAlignedBuffer(pool[p], heap, ObjSize, a)
    PROVE  Granted(pool[p], heap, r, ObjSize) /\ Aligned(BaseOf[r.block] + r.lo, a)
  <1>1. ObjSize \in Nat
        BY PoolAssumption
  <1>2. CASE a \in NativeAligns
        BY <1>1, <1>2, NativeGranted
  <1>3. CASE a \notin NativeAligns
        BY <1>1, <1>3, BigGranted
  <1> QED
      BY <1>2, <1>3

LEMMA CreateObjectPoolInv ==
    ASSUME PoolInv, NEW p \in Pool, NEW o \in Obj, NEW a \in NativeAligns \cup BigAligns, CreateObject(p, o, a)
    PROVE  PoolInv'
  <1>1. PICK r : r = IF a \in NativeAligns THEN CreateBufferInternal(pool[p], heap, ObjSize, a)
                     ELSE CreateAlignedBuffer(pool[p], heap, ObjSize, a)
        OBVIOUS
  <1>2. /\ p \in Live /\ HasRoom(p) /\ heap' = r.heap /\ bufs' = bufs \cup {Buffer(r, ObjSize, a)}
        /\ pool' = [pool EXCEPT ![p] = [r.P EXCEPT !.cleaners = Append(@, Cleaner(o))]]
        BY <1>1 DEF CreateObject, MayCreate, EmplaceBack
  <1>3. Granted(pool[p], heap, r, ObjSize) /\ Aligned(BaseOf[r.block] + r.lo, a)
        BY <1>1, <1>2, ObjectGranted
  <1>4. PICK Q : Q = [r.P EXCEPT !.cleaners = Append(@, Cleaner(o))]
        OBVIOUS
  <1>5. SameBlocks(r.P, Q)
        BY <1>3, <1>4, SameBlocksCleaners DEF Granted, PoolOK
  <1>6. pool' = [pool EXCEPT ![p] = Q]
        BY <1>2, <1>4
  <1>7. PICK size \in Nat \ {0} : size = ObjSize
        BY PoolAssumption
  <1>8. a \in Nat
        BY PoolAssumption
  <1>9. Granted(pool[p], heap, r, size) /\ bufs' = bufs \cup {Buffer(r, size, a)}
        BY <1>2, <1>3, <1>7
  <1> QED
      BY <1>2, <1>3, <1>5, <1>6, <1>7, <1>8, <1>9, GivenPoolInv

LEMMA RegisterDestructorPoolInv ==
    ASSUME PoolInv, NEW p \in Pool, NEW o \in Obj, RegisterDestructor(p, o) PROVE PoolInv'
  <1>1. PICK Q : Q = [pool[p] EXCEPT !.cleaners = Append(@, Cleaner(o))]
        OBVIOUS
  <1>2. p \in Live /\ heap' = heap /\ bufs' = bufs /\ pool' = [pool EXCEPT ![p] = Q]
        BY <1>1 DEF RegisterDestructor, EmplaceBack
  <1>3. SameBlocks(pool[p], Q)
        BY <1>1, <1>2, LivePool, SameBlocksCleaners
  <1>4. Safe(pool', heap, bufs)
        BY <1>2, <1>3, LivePool, SafeWithSame DEF PoolInv
  <1> QED
      BY <1>2, <1>4 DEF PoolInv

LEMMA EndedOutlive == \A p : bufs \ Ended(p) = Outlive(bufs, pool[p].chain)
  BY DEF Ended, Outlive

LEMMA ClearPoolInv ==
    ASSUME PoolInv, NEW p \in Pool, Clear(p) PROVE PoolInv'
  <1>1. PICK C : C = Cleared(pool[p], heap)
        OBVIOUS
  <1>2. /\ p \in Live /\ heap' = C.heap /\ pool' = [pool EXCEPT ![p] = C.P]
        /\ bufs' = Outlive(bufs, pool[p].chain)
        BY <1>1, EndedOutlive DEF Clear, Outside
  <1>3. PoolOK(pool[p], heap) /\ HeapOK(heap) /\ pool[p] # Null
        BY <1>2, LivePool
  <1>4. Rechained(heap, pool[p].chain, C.heap, C.P.chain) /\ PoolOK(C.P, C.heap) /\ C.P # Null
        BY <1>1, <1>3, ClearedOK, NotNull DEF PoolOK
  <1>5. PICK c : c = C.P.chain
        OBVIOUS
  <1>6. Safe(pool', C.heap, Outlive(bufs, pool[p].chain))
        BY <1>2, <1>3, <1>4, <1>5, SafeWithout DEF PoolInv
  <1> QED
      BY <1>2, <1>6 DEF PoolInv

LEMMA DestructPoolInv ==
    ASSUME PoolInv, NEW p \in Pool, Destruct(p) PROVE PoolInv'
  <1>1. PICK g : g = Destroy(heap, Blocks(pool[p].chain))
        OBVIOUS
  <1>2. /\ p \in Live /\ heap' = g /\ pool' = [pool EXCEPT ![p] = Null]
        /\ bufs' = Outlive(bufs, pool[p].chain)
        BY <1>1, EndedOutlive DEF Destruct, Outside
  <1>3. PoolOK(pool[p], heap) /\ HeapOK(heap) /\ pool[p] # Null
        BY <1>2, LivePool
  <1>4. Rechained(heap, pool[p].chain, g, << >>)
        BY <1>1, <1>3, Emptied DEF PoolOK
  <1>5. PICK c : c = << >>
        OBVIOUS
  <1>6. Safe(pool', g, Outlive(bufs, pool[p].chain))
        BY <1>2, <1>3, <1>4, <1>5, SafeWithout DEF PoolInv
  <1> QED
      BY <1>2, <1>6 DEF PoolInv

LEMMA ShrinkToFitPoolInv ==
    ASSUME PoolInv, NEW p \in Pool, ShrinkToFit(p) PROVE PoolInv'
  <1>1. p \in Live /\ pool[p].cur # 0 /\ bufs' = bufs
        BY DEF ShrinkToFit, Outside
  <1>2. pool[p] \in PoolRec /\ PoolOK(pool[p], heap)
        BY <1>1, LivePool
  <1>3. /\ pool[p].cur \in 0..Len(pool[p].chain) /\ pool[p].chain \in Seq(Block)
        /\ Len(pool[p].chain) \in Nat
        BY <1>2, Fields DEF PoolOK, Shape
  <1>4. PICK k \in 0..Len(pool[p].chain) :
          k = IF pool[p].cur = 1 /\ pool[p].pos = 0 THEN 0 ELSE pool[p].cur
        BY <1>3
  <1>5. PICK d \in Seq(Block) : d = SubSeq(pool[p].chain, 1, k)
    <2>1. SubSeq(pool[p].chain, 1, k) \in Seq(Block)
          BY <1>3, SubSeqOf
    <2> QED
        BY <2>1
  <1>6. PICK Q : Q = [pool[p] EXCEPT !.chain = d, !.cur = k]
        OBVIOUS
  <1>7. Q \in PoolRec /\ Q.chain = d /\ Q.cur = k /\ Q.pos = pool[p].pos
        BY <1>2, <1>3, <1>4, <1>6 DEF PoolRec
  <1>8. PICK g : g = Destroy(heap, Blocks(SubSeq(pool[p].chain, k + 1, Len(pool[p].chain))))
        OBVIOUS
  <1>9. heap' = g /\ pool' = [pool EXCEPT ![p] = Q]
    <2>1. heap' = g
          BY <1>4, <1>8 DEF ShrinkToFit
    <2>2. pool' = [pool EXCEPT ![p].chain = SubSeq(@, 1, k), ![p].cur = k]
          BY <1>4 DEF ShrinkToFit
    <2>3. pool \in [Pool -> PoolRec \cup {Null}]
          BY DEF PoolInv, Safe, Owned
    <2>4. pool' = [pool EXCEPT ![p] = Q]
          BY <1>2, <1>5, <1>6, <2>2, <2>3
    <2> QED
        BY <2>1, <2>4
  <1>10. (k = pool[p].cur) \/ (k = 0 /\ pool[p].cur = 1 /\ pool[p].pos = 0)
         BY <1>4
  <1>11. Q.chain = SubSeq(pool[p].chain, 1, k) /\ k \in 0..k
         BY <1>4, <1>5, <1>7
  <1>12. Safe(pool', g, bufs)
         BY <1>1, <1>4, <1>7, <1>8, <1>9, <1>10, <1>11, LivePool, SafeWithPrefix DEF PoolInv
  <1> QED
      BY <1>1, <1>9, <1>12 DEF PoolInv

LEMMA KeepUpToPlace ==
    ASSUME PoolInv, NEW p \in Live, pool[p].cur # 0, NEW m
    PROVE  KeepUpTo(pool[p], m) \in pool[p].cur..Len(pool[p].chain)
  <1>1. pool[p].cur \in 1..Len(pool[p].chain) /\ Len(pool[p].chain) \in Nat
        BY LivePool, Fields DEF PoolOK, Shape
  <1>2. PICK S : S = {k \in pool[p].cur..Len(pool[p].chain) :
                        k = Len(pool[p].chain) \/ CapacityOf(heap, pool[p].chain, 1, k) >= m}
        OBVIOUS
  <1>3. S \subseteq Nat /\ Len(pool[p].chain) \in S /\ S \subseteq pool[p].cur..Len(pool[p].chain)
        BY <1>1, <1>2
  <1>4. Min(S) \in S
        BY <1>3, MinIn
  <1> QED
      BY <1>2, <1>3, <1>4 DEF KeepUpTo

LEMMA ShrinkToFitMinPoolInv ==
    ASSUME PoolInv, NEW p \in Pool, NEW m \in MinCapacities, ShrinkToFitMin(p, m) PROVE PoolInv'
  <1>1. p \in Live /\ pool[p].cur # 0
        BY DEF ShrinkToFitMin, Outside
  <1>2. pool[p] \in PoolRec /\ PoolOK(pool[p], heap) /\ HeapOK(heap) /\ pool[p] # Null
        BY <1>1, LivePool
  <1>3. /\ pool[p].cur \in 0..Len(pool[p].chain) /\ pool[p].chain \in Seq(Block)
        /\ Len(pool[p].chain) \in Nat
        BY <1>2, Fields DEF PoolOK, Shape
  <1>4. CASE m = 0
    <2>1. PICK C : C = Cleared(pool[p], heap)
          OBVIOUS
    <2>2. PICK g : g = Destroy(C.heap, Blocks(C.P.chain))
          OBVIOUS
    <2>3. PICK Q : Q = [C.P EXCEPT !.chain = << >>, !.cur = 0]
          OBVIOUS
    <2>4. heap' = g /\ pool' = [pool EXCEPT ![p] = Q] /\ bufs' = Outlive(bufs, pool[p].chain)
          BY <1>4, <2>1, <2>2, <2>3, EndedOutlive DEF ShrinkToFitMin
    <2>5. Rechained(heap, pool[p].chain, g, << >>)
          BY <1>2, <2>1, <2>2, ClearedAndDestroyed
    <2>6. PICK R \in PoolRec : R = C.P
          BY <1>2, <2>1, ClearedOK DEF PoolOK
    <2>7. Q \in PoolRec /\ Q.chain = << >> /\ Q.cur = 0
      <3>1. Q = [R EXCEPT !.chain = << >>, !.cur = 0]
            BY <2>3, <2>6
      <3>2. << >> \in Seq(Block)
            OBVIOUS
      <3> QED
          BY <2>6, <3>1, <3>2 DEF PoolRec
    <2>8. PoolOK(Q, g) /\ Q # Null
      <3>1. Linked(g, << >>)
            BY <2>5, LinkedAfter
      <3> QED
          BY <2>7, <3>1, NotNull DEF PoolOK, Shape
    <2>9. PICK c : c = << >>
          OBVIOUS
    <2>10. Safe(pool', g, Outlive(bufs, pool[p].chain))
           BY <1>2, <2>4, <2>5, <2>7, <2>8, <2>9, SafeWithout DEF PoolInv
    <2> QED
        BY <2>4, <2>10 DEF PoolInv
  <1>5. CASE m # 0
    <2>1. PICK k \in 0..Len(pool[p].chain) : k = KeepUpTo(pool[p], m) /\ pool[p].cur \in 0..k
      <3>1. KeepUpTo(pool[p], m) \in pool[p].cur..Len(pool[p].chain)
            BY <1>1, KeepUpToPlace
      <3> QED
          BY <1>3, <3>1
    <2>2. PICK d \in Seq(Block) : d = SubSeq(pool[p].chain, 1, k)
      <3>1. SubSeq(pool[p].chain, 1, k) \in Seq(Block)
            BY <1>3, SubSeqOf
      <3> QED
          BY <3>1
    <2>3. PICK Q : Q = [pool[p] EXCEPT !.chain = d]
          OBVIOUS
    <2>4. Q \in PoolRec /\ Q.chain = d /\ Q.cur = pool[p].cur /\ Q.pos = pool[p].pos
          BY <1>2, <2>3 DEF PoolRec
    <2>5. PICK g : g = Destroy(heap, Blocks(SubSeq(pool[p].chain, k + 1, Len(pool[p].chain))))
          OBVIOUS
    <2>6. heap' = g /\ pool' = [pool EXCEPT ![p] = Q] /\ bufs' = bufs
      <3>1. heap' = g /\ bufs' = bufs
            BY <1>5, <2>1, <2>5 DEF ShrinkToFitMin
      <3>2. pool' = [pool EXCEPT ![p].chain = SubSeq(@, 1, k)]
            BY <1>5, <2>1 DEF ShrinkToFitMin
      <3>3. pool \in [Pool -> PoolRec \cup {Null}]
            BY DEF PoolInv, Safe, Owned
      <3>4. pool' = [pool EXCEPT ![p] = Q]
            BY <1>2, <2>2, <2>3, <3>2, <3>3
      <3> QED
          BY <3>1, <3>4
    <2>7. Q.chain = SubSeq(pool[p].chain, 1, k)
          BY <2>2, <2>4
    <2>8. PICK l \in 0..k : l = pool[p].cur
          BY <2>1
    <2>9. Safe(pool', g, bufs)
          BY <1>1, <1>2, <2>1, <2>4, <2>5, <2>6, <2>7, <2>8, SafeWithPrefix DEF PoolInv
    <2> QED
        BY <2>6, <2>9 DEF PoolInv
  <1> QED
      BY <1>4, <1>5

LEMMA MoveConstructPoolInv ==
    ASSUME PoolInv, NEW p \in Pool, NEW q \in Pool, MoveConstruct(p, q) PROVE PoolInv'
  <1>1. /\ p # q /\ pool[q] # Null /\ pool[p] = Null /\ heap' = heap /\ bufs' = bufs
        /\ pool' = [pool EXCEPT ![p] = pool[q], ![q] = MovedFrom(pool[q])]
        BY DEF MoveConstruct, Outside, Live
  <1>2. pool \in [Pool -> PoolRec \cup {Null}] /\ pool[q] \in PoolRec
        BY <1>1 DEF PoolInv, Safe, Owned, PoolOK
  <1>3. MovedFrom(pool[q]) \in PoolRec
        BY <1>2, Fields, EmptyPoolOK DEF MovedFrom, PoolOK
  <1>4. /\ pool' \in [Pool -> PoolRec \cup {Null}] /\ pool'[p] = pool[q] /\ pool'[q] = MovedFrom(pool[q])
        /\ \A r \in Pool : r # p /\ r # q => pool'[r] = pool[r]
        BY <1>1, <1>2, <1>3
  <1>5. p # q /\ pool[q] # Null /\ (pool[p] # Null => pool[p].chain = << >>) /\ Safe(pool, heap, bufs)
        BY <1>1 DEF PoolInv
  <1>6. Safe(pool', heap, bufs)
        BY <1>4, <1>5, SafeMoved, Zenon
  <1> QED
      BY <1>1, <1>6 DEF PoolInv

LEMMA MoveAssignPoolInv ==
    ASSUME PoolInv, NEW p \in Pool, NEW q \in Pool, MoveAssign(p, q) PROVE PoolInv'
  <1>1. PICK C : C = Cleared(pool[p], heap)
        OBVIOUS
  <1>2. PICK g : g = Destroy(C.heap, Blocks(C.P.chain))
        OBVIOUS
  <1>3. /\ p \in Live /\ q \in Live /\ heap' = g /\ bufs' = Outlive(bufs, pool[p].chain)
        /\ pool' = [r \in Pool |-> IF r = q THEN MovedFrom(pool[q]) ELSE IF r = p THEN pool[q] ELSE pool[r]]
        BY <1>1, <1>2, EndedOutlive DEF MoveAssign, Outside
  <1>4. /\ pool[p] \in PoolRec /\ pool[q] \in PoolRec /\ PoolOK(pool[p], heap) /\ HeapOK(heap)
        /\ pool[p] # Null /\ pool[q] # Null
        BY <1>3, LivePool
  <1>5. Rechained(heap, pool[p].chain, g, << >>)
        BY <1>1, <1>2, <1>4, ClearedAndDestroyed
  <1>6. pool \in [Pool -> PoolRec \cup {Null}]
        BY DEF PoolInv, Safe, Owned
  <1>7. \A h : \A r \in Pool : pool[r] \in PoolRec =>
          PoolOK(MovedFrom(pool[r]), h) /\ MovedFrom(pool[r]).chain = << >> /\ MovedFrom(pool[r]) # Null
        BY Fields, EmptyPoolOK, NotNull DEF MovedFrom, PoolOK
  <1>8. PICK c : c = << >>
        OBVIOUS
  <1>9. PICK Q : Q = MovedFrom(pool[p])
        OBVIOUS
  <1>10. PoolOK(Q, g) /\ Q.chain = c /\ Q # Null /\ Q \in PoolRec
         BY <1>4, <1>7, <1>8, <1>9 DEF PoolOK
  <1>11. PICK pl : pl = [pool EXCEPT ![p] = Q]
         OBVIOUS
  <1>12. Safe(pl, g, Outlive(bufs, pool[p].chain))
         BY <1>4, <1>5, <1>8, <1>10, <1>11, SafeWithout DEF PoolInv
  <1>13. CASE p = q
    <2>1. pool' = pl
          BY <1>3, <1>6, <1>9, <1>11, <1>13
    <2> QED
        BY <1>3, <1>12, <2>1 DEF PoolInv
  <1>14. CASE p # q
    <2>1. pl[p] = Q /\ \A r \in Pool : r # p => pl[r] = pool[r]
          BY <1>6, <1>11
    <2>2. MovedFrom(pool[q]) \in PoolRec
          BY <1>4, <1>7 DEF PoolOK
    <2>3. /\ pool' \in [Pool -> PoolRec \cup {Null}] /\ pool'[p] = pl[q] /\ pool'[q] = MovedFrom(pl[q])
          /\ \A r \in Pool : r # p /\ r # q => pool'[r] = pl[r]
          BY <1>3, <1>4, <1>6, <1>14, <2>1, <2>2
    <2>4. pl[q] # Null /\ (pl[p] # Null => pl[p].chain = << >>)
          BY <1>4, <1>8, <1>10, <1>14, <2>1
    <2>5. Safe(pool', g, Outlive(bufs, pool[p].chain))
          BY <1>12, <1>14, <2>3, <2>4, SafeMoved
    <2> QED
        BY <1>3, <2>5 DEF PoolInv
  <1> QED
      BY <1>13, <1>14

LEMMA ConstructedPoolInv == PoolInv /\ Constructed => PoolInv'
  BY DEF PoolInv, Constructed

LEMMA NextPoolInv == PoolInv /\ [Next]_vars => PoolInv'
  <1> SUFFICES ASSUME PoolInv, [Next]_vars PROVE PoolInv'
      OBVIOUS
  <1>1. CASE UNCHANGED vars
        BY <1>1, StutterPoolInv
  <1>2. CASE Constructed
        BY <1>2, ConstructedPoolInv
  <1>3. ASSUME NEW p \in Pool, PoolStep(p) PROVE PoolInv'
    <2>1. CASE \E s \in BlockSizes : Construct(p, s) \/ SetBlockSize(p, s)
          BY <2>1, ConstructPoolInv, SetBlockSizePoolInv
    <2>2. CASE \E s \in Sizes, a \in NativeAligns : CreateBuffer(p, s, a)
          BY <2>2, CreateBufferPoolInv
    <2>3. CASE \E s \in Sizes, a \in BigAligns : CreateBigAligned(p, s, a)
          BY <2>3, CreateBigAlignedPoolInv
    <2>4. CASE \E n \in Lengths : CreateCString(p, n)
          BY <2>4, CreateCStringPoolInv
    <2>5. CASE \E o \in Obj, a \in NativeAligns \cup BigAligns : CreateObject(p, o, a)
          BY <2>5, CreateObjectPoolInv
    <2>6. CASE \E o \in Obj : RegisterDestructor(p, o)
          BY <2>6, RegisterDestructorPoolInv
    <2>7. CASE Clear(p)
          BY <2>7, ClearPoolInv
    <2>8. CASE ShrinkToFit(p)
          BY <2>8, ShrinkToFitPoolInv
    <2>9. CASE \E m \in MinCapacities : ShrinkToFitMin(p, m)
          BY <2>9, ShrinkToFitMinPoolInv
    <2>10. CASE \E q \in Pool : MoveConstruct(p, q) \/ MoveAssign(p, q)
           BY <2>10, MoveConstructPoolInv, MoveAssignPoolInv
    <2>11. CASE Destruct(p)
           BY <2>11, DestructPoolInv
    <2> QED
        BY <1>3, <2>1, <2>2, <2>3, <2>4, <2>5, <2>6, <2>7, <2>8, <2>9, <2>10, <2>11 DEF PoolStep
  <1> QED
      BY <1>1, <1>2, <1>3 DEF Next

LEMMA AlwaysPoolInv == Spec => []PoolInv
  BY InitPoolInv, NextPoolInv, PTL DEF Spec
--------------------------------------------------------------------------------
(* The theorems *)

LEMMA PoolInvOwner == PoolInv => OneOwner
  <1> SUFFICES ASSUME PoolInv PROVE OneOwner
      OBVIOUS
  <1>1. Owned(pool, heap)
        BY DEF PoolInv, Safe
  <1>2. \A p \in Live : p \in Pool /\ pool[p] # Null /\ Linked(heap, pool[p].chain)
        BY <1>1 DEF Live, Owned, PoolOK
  <1>3. \A p \in Live : IsInjective(pool[p].chain)
        BY <1>2 DEF Linked
  <1>4. \A p, q \in Live : p # q => Blocks(pool[p].chain) \cap Blocks(pool[q].chain) = {}
        BY <1>1, <1>2 DEF Owned
  <1>5. DOMAIN heap = UNION {Blocks(pool[p].chain) : p \in Live}
    <2>1. ASSUME NEW b \in DOMAIN heap PROVE \E p \in Live : b \in Blocks(pool[p].chain)
          BY <1>1 DEF Owned, Live
    <2>2. ASSUME NEW p \in Live, NEW b \in Blocks(pool[p].chain) PROVE b \in DOMAIN heap
          BY <1>2 DEF Linked
    <2> QED
        BY <2>1, <2>2
  <1> QED
      BY <1>3, <1>4, <1>5 DEF OneOwner

LEMMA PoolInvBuffers == PoolInv => BuffersInUse
  <1> SUFFICES ASSUME PoolInv, NEW b \in bufs
               PROVE  /\ b.block \in DOMAIN heap /\ b.hi <= heap[b.block]
                      /\ \E p \in Live : /\ \E i \in 1..pool[p].cur : pool[p].chain[i] = b.block
                                         /\ b.lo < b.hi => Contain(pool[p], b.block, b.hi - 1)
      BY DEF BuffersInUse
  <1>1. Owned(pool, heap) /\ InUse(pool, heap, bufs)
        BY DEF PoolInv, Safe
  <1>2. b \in BufferRec /\ b.hi \in Nat /\ b.lo \in Nat /\ b.lo < b.hi
        BY <1>1, BufferFields DEF InUse
  <1>3. PICK p \in Pool : pool[p] # Null /\ InUseBy(pool[p], heap, b)
        BY <1>1 DEF InUse
  <1>4. p \in Live
        BY <1>3 DEF Live
  <1>5. PoolOK(pool[p], heap) /\ HeapOK(heap)
        BY <1>1, <1>3 DEF Owned
  <1>6. b.block \in DOMAIN heap
        BY <1>3, <1>5, InUseInChain DEF PoolOK, Linked
  <1>7. heap[b.block] \in Nat /\ pool[p].cur \in Nat /\ pool[p].pos \in Nat
        BY <1>5, <1>6, Fields DEF HeapOK, PoolOK
  <1>8. PICK i \in 1..pool[p].cur : /\ pool[p].chain[i] = b.block /\ b.hi <= heap[b.block]
                                    /\ i = pool[p].cur => b.hi <= pool[p].pos
        BY <1>3 DEF InUseBy
  <1>9. Contain(pool[p], b.block, b.hi - 1)
    <2>1. CASE i = pool[p].cur
          BY <1>2, <1>7, <1>8, <2>1 DEF Contain
    <2>2. CASE i # pool[p].cur
      <3>1. i \in 1..(pool[p].cur - 1) /\ b.hi - 1 < heap[b.block]
            BY <1>2, <1>7, <1>8, <2>2
      <3> QED
          BY <1>8, <3>1 DEF Contain
    <2> QED
        BY <2>1, <2>2
  <1> QED
      BY <1>4, <1>6, <1>8, <1>9

\* No block is leaked or deleted twice: every allocated block is in exactly one
\* pool's chain, once, through compact_block, clear, the two shrink_to_fit and
\* both moves (memory_pool.hpp), for any number of pools, blocks and sizes.
THEOREM BlocksHaveOneOwner == Spec => []OneOwner
  BY AlwaysPoolInv, PoolInvOwner, PTL

\* A buffer that the pool has handed out stays inside an allocated block, below
\* the position from which the pool serves later requests, until clear() or the
\* pool's end, and contain() says that it is the pool's.
THEOREM BuffersStayInUse == Spec => []BuffersInUse
  BY AlwaysPoolInv, PoolInvBuffers, PTL

\* No byte is handed out twice, whatever create_aligned_buffer() gives back.
THEOREM BuffersNeverOverlap == Spec => []BuffersDisjoint
  <1>1. PoolInv => BuffersDisjoint
        BY DEF PoolInv, Safe, NoOverlap, BuffersDisjoint
  <1> QED
      BY <1>1, AlwaysPoolInv, PTL

\* Every buffer is at an address of the alignment that was asked for, if the mask
\* can serve it (a power of two), although the pool aligns its position and not the
\* address (memory_pool.hpp:132, 350).
THEOREM BuffersStayAligned == Spec => []BuffersAligned
  <1>1. PoolInv => BuffersAligned
        BY DEF PoolInv, Safe, AllAligned, Aligned, BuffersAligned
  <1> QED
      BY <1>1, AlwaysPoolInv, PTL

\* The float product of line 393, with a size that is rounded to a float, a product
\* that is rounded and a fraction that is dropped, is enough for every size: when a
\* request has taken a block, _block_size is at least the request.
THEOREM GrowthIsEnough == Spec => GrowthSuffices
  <1>1. PoolInv /\ [Next]_vars =>
          [\A p \in Live, s \in Sizes, a \in NativeAligns :
             CreateBuffer(p, s, a) /\ pool'[p].chain # pool[p].chain => pool'[p].bs >= s]_vars
    <2> SUFFICES ASSUME PoolInv, NEW p \in Live, NEW s \in Sizes, NEW a \in NativeAligns,
                        CreateBuffer(p, s, a), pool'[p].chain # pool[p].chain
                 PROVE  pool'[p].bs >= s
        OBVIOUS
    <2>1. PICK r : r = CreateBufferInternal(pool[p], heap, s, a)
          OBVIOUS
    <2>2. HasRoom(p) /\ pool' = [pool EXCEPT ![p] = r.P]
          BY <2>1 DEF CreateBuffer, MayCreate, Give
    <2>3. s \in Nat /\ a \in Nat \ {0}
          BY PoolAssumption
    <2>4. Granted(pool[p], heap, r, s) /\ (r.P.chain # pool[p].chain => s <= r.P.bs)
          BY <2>1, <2>2, <2>3, LivePool, RoomIsFor, BufferGranted
    <2>5. pool'[p] = r.P
          BY <2>2, LivePool DEF PoolInv, Safe, Owned
    <2>6. r.P.bs \in Nat
          BY <2>4, Fields DEF Granted, PoolOK
    <2> QED
        BY <2>3, <2>4, <2>5, <2>6
  <1> QED
      BY <1>1, AlwaysPoolInv, PTL DEF Spec, GrowthSuffices

\* The capacity of a part of a chain is that of its blocks.
LEMMA SameCapacity ==
    ASSUME NEW h, NEW c, NEW g, NEW d, NEW k \in Nat,
           \A i \in 1..k : h[c[i]] = g[d[i]]
    PROVE  CapacityOf(h, c, 1, k) = CapacityOf(g, d, 1, k)
  <1>1. [i \in 1..k |-> h[c[i]]] = [i \in 1..k |-> g[d[i]]]
        OBVIOUS
  <1> QED
      BY <1>1 DEF CapacityOf

\* The block up to which the chain is kept is the last one, or the capacity up to
\* it is enough.
LEMMA KeepUpToEnough ==
    ASSUME PoolInv, NEW p \in Live, pool[p].cur # 0, NEW m
    PROVE  \/ KeepUpTo(pool[p], m) = Len(pool[p].chain)
           \/ CapacityOf(heap, pool[p].chain, 1, KeepUpTo(pool[p], m)) >= m
  <1>1. pool[p].cur \in 1..Len(pool[p].chain) /\ Len(pool[p].chain) \in Nat
        BY LivePool, Fields DEF PoolOK, Shape
  <1>2. PICK S : S = {k \in pool[p].cur..Len(pool[p].chain) :
                        k = Len(pool[p].chain) \/ CapacityOf(heap, pool[p].chain, 1, k) >= m}
        OBVIOUS
  <1>3. S \subseteq Nat /\ Len(pool[p].chain) \in S
        BY <1>1, <1>2
  <1>4. Min(S) \in S
        BY <1>3, MinIn
  <1>5. KeepUpTo(pool[p], m) = Min(S)
        BY <1>2 DEF KeepUpTo
  <1>6. PICK k : k = Min(S)
        OBVIOUS
  <1>7. k = Len(pool[p].chain) \/ CapacityOf(heap, pool[p].chain, 1, k) >= m
        BY <1>2, <1>4, <1>6, Zenon
  <1> QED
      BY <1>5, <1>6, <1>7

\* shrink_to_fit(m) keeps the blocks up to that one, and their capacities.
LEMMA ShrinkToFitMinKeeps ==
    ASSUME PoolInv, NEW p \in Live, NEW m \in MinCapacities, m # 0, ShrinkToFitMin(p, m)
    PROVE  Capacity(p)' = CapacityOf(heap, pool[p].chain, 1, KeepUpTo(pool[p], m))
  <1>1. pool[p].cur # 0 /\ p \in Pool
        BY DEF ShrinkToFitMin, Live
  <1>2. /\ pool[p] \in PoolRec /\ PoolOK(pool[p], heap) /\ HeapOK(heap)
        /\ pool \in [Pool -> PoolRec \cup {Null}]
        BY LivePool DEF PoolInv, Safe, Owned
  <1>3. PICK c \in Seq(Block), n \in Nat : c = pool[p].chain /\ n = Len(c)
    <2>1. pool[p].chain \in Seq(Block) /\ Len(pool[p].chain) \in Nat
          BY <1>2, Fields DEF PoolOK, Shape
    <2> QED
        BY <2>1
  <1>4. PICK k \in 0..n : k = KeepUpTo(pool[p], m)
    <2>1. KeepUpTo(pool[p], m) \in pool[p].cur..Len(pool[p].chain)
          BY <1>1, KeepUpToPlace
    <2>2. pool[p].cur \in 0..n
          BY <1>2, <1>3, Fields DEF PoolOK, Shape
    <2> QED
        BY <1>3, <2>1, <2>2
  <1>5. k \in Nat /\ k <= n /\ k + 1 \in Nat \ {0} /\ k + 1 <= n + 1
        BY <1>4
  <1>6. PICK d : d = SubSeq(c, 1, k)
        OBVIOUS
  <1>7. Len(d) = k /\ \A i \in 1..k : d[i] = c[i]
    <2>1. /\ Len(d) = k + 1 - 1
          /\ \A i \in 1..(k + 1 - 1) : d[i] = c[i + 1 - 1]
          BY <1>3, <1>5, <1>6, SubSeqOf
    <2> QED
        BY <1>5, <2>1
  <1>8. PICK B : B = Blocks(SubSeq(c, k + 1, n))
        OBVIOUS
  <1>9. \A b : b \in B <=> \E i \in (k + 1)..n : c[i] = b
        BY <1>3, <1>5, <1>8, SubSeqOf
  <1>10. /\ \A i, j \in 1..n : c[i] = c[j] => i = j
         /\ \A i \in 1..n : c[i] \in DOMAIN heap
    <2>1. Linked(heap, c)
          BY <1>2, <1>3 DEF PoolOK
    <2>2. IsInjective(c) /\ Blocks(c) \subseteq DOMAIN heap
          BY <2>1 DEF Linked
    <2>3. \A i, j \in 1..Len(c) : c[i] = c[j] => i = j
          BY <2>2, ChainInjective
    <2>4. \A b : b \in Blocks(c) <=> \E i \in 1..Len(c) : c[i] = b
          BY ChainBlocks
    <2> QED
        BY <1>3, <2>2, <2>3, <2>4
  <1>11. heap' = Destroy(heap, B) /\ pool'[p].chain = d
    <2>1. heap' = Destroy(heap, B)
          BY <1>3, <1>4, <1>8 DEF ShrinkToFitMin
    <2>2. pool' = [pool EXCEPT ![p].chain = SubSeq(@, 1, k)]
          BY <1>4 DEF ShrinkToFitMin
    <2>3. pool'[p] = [pool[p] EXCEPT !.chain = d]
          BY <1>1, <1>2, <1>3, <1>6, <2>2
    <2>4. pool'[p].chain = d
          BY <1>2, <2>3 DEF PoolRec
    <2> QED
        BY <2>1, <2>4
  <1>12. \A i \in 1..k : heap[c[i]] = heap'[d[i]]
    <2> SUFFICES ASSUME NEW i \in 1..k PROVE heap[c[i]] = heap'[d[i]]
        OBVIOUS
    <2>1. i \in 1..n /\ \A j \in (k + 1)..n : j \in 1..n /\ j # i
          BY <1>5
    <2>2. c[i] \notin B
          BY <1>9, <1>10, <2>1
    <2>3. c[i] \in DOMAIN heap \ B
          BY <1>10, <2>1, <2>2
    <2>4. PICK x : x = c[i]
          OBVIOUS
    <2>5. \A b \in DOMAIN heap \ B : Destroy(heap, B)[b] = heap[b]
          BY <1>2, DestroyedRest
    <2>6. Destroy(heap, B)[x] = heap[x]
          BY <2>3, <2>4, <2>5
    <2> QED
        BY <1>7, <1>11, <2>4, <2>6
  <1>13. CapacityOf(heap, c, 1, k) = CapacityOf(heap', d, 1, k)
         BY <1>5, <1>12, SameCapacity
  <1>14. Capacity(p)' = CapacityOf(heap', d, 1, k)
         BY <1>7, <1>11 DEF Capacity
  <1> QED
      BY <1>3, <1>4, <1>13, <1>14

\* shrink_to_fit(min_capacity) keeps at least min_capacity of the pool, or all
\* that there was (memory_pool.h:126), for chains of any length.
THEOREM ShrinkLeavesEnough == Spec => ShrinkKeepsEnough
  <1>1. PoolInv /\ [Next]_vars =>
          [\A p \in Live, m \in MinCapacities \ {0} :
             ShrinkToFitMin(p, m) => Capacity(p)' >= m \/ Capacity(p)' = Capacity(p)]_vars
    <2> SUFFICES ASSUME PoolInv, NEW p \in Live, NEW m \in MinCapacities \ {0}, ShrinkToFitMin(p, m)
                 PROVE  Capacity(p)' >= m \/ Capacity(p)' = Capacity(p)
        OBVIOUS
    <2>1. pool[p].cur # 0
          BY DEF ShrinkToFitMin
    <2>2. Capacity(p)' = CapacityOf(heap, pool[p].chain, 1, KeepUpTo(pool[p], m))
          BY ShrinkToFitMinKeeps
    <2>3. CASE KeepUpTo(pool[p], m) = Len(pool[p].chain)
          BY <2>2, <2>3 DEF Capacity
    <2>4. CASE CapacityOf(heap, pool[p].chain, 1, KeepUpTo(pool[p], m)) >= m
          BY <2>2, <2>4
    <2> QED
        BY <2>1, <2>3, <2>4, KeepUpToEnough
  <1> QED
      BY <1>1, AlwaysPoolInv, PTL DEF Spec, ShrinkKeepsEnough
================================================================================
