--------------------------- MODULE StaticMemoryPool ----------------------------
(***************************************************************************)
(* example/brpc/memory_pool.{h,hpp}: a pool that hands out buffers from a  *)
(* chain of memory blocks and destroys the objects created in it when it   *)
(* is cleared or destroyed.  A pool's chain is the sequence of its blocks  *)
(* from _head on, cur the position of _current_block in it, 0 for null.    *)
(*                                                                         *)
(* bufs is what the callers of the pool hold: the buffers they were given  *)
(* and that are still valid ("valid until clear or destruction", h:71).    *)
(***************************************************************************)
EXTENDS BlockSize, Sequences, FiniteSets, SequencesExt

CONSTANTS Pool,
          Block,         \* addresses of memory blocks
          BaseOf,        \* address of each block's data, modulo the alignments
          Sizes,         \* buffer sizes asked for
          Lengths,       \* lengths of strings copied in
          NativeAligns,  \* alignments of create_buffer_internal<>
          BigAligns,     \* alignments of create_aligned_buffer(size, align)
          BlockSizes,    \* arguments of the constructor and set_block_size
          MinCapacities, \* arguments of shrink_to_fit
          Obj,           \* the objects ever made
          ObjSize,
          MaxBufs,       \* bound: buffers in use at a time
          Null

ASSUME PoolAssumption ==
    /\ IsFiniteSet(Block) /\ BaseOf \in [Block -> Nat]
    /\ Sizes \subseteq Nat \ {0} /\ Lengths \subseteq Nat /\ ObjSize \in Nat \ {0}
    /\ NativeAligns \subseteq Nat \ {0} /\ BigAligns \subseteq Nat \ {0}
    /\ BlockSizes \subseteq Nat /\ MinCapacities \subseteq Nat
    /\ Null \notin Obj /\ MaxBufs \in Nat
\* operator new aligns a block, header included, for every native alignment.
ASSUME BaseAssumption == \A b \in Block, a \in NativeAligns : BaseOf[b] % a = 0

\* The members of a pool; Null is none of them.
CleanerRec == [destructor : BOOLEAN, pointer : Obj]
PoolRec == [bs : Nat, pos : Nat, chain : Seq(Block), cur : Nat, cleaners : Seq(CleanerRec)]
ASSUME NullAssumption == Null \notin PoolRec

VARIABLES heap,    \* capacity of every block that is allocated
          pool,    \* the pools that exist: _block_size, _pos, chain, cur, _cleaners
          bufs,    \* the buffers in use
          obj,     \* the objects: [st, parent, buf]
          stack,   \* the objects under construction, the outermost first
          died     \* the objects destroyed, in this order
vars == <<heap, pool, bufs, obj, stack, died>>

Live == {p \in Pool : pool[p] # Null}
EmptyPool(bs) == [bs |-> bs, pos |-> 0, chain |-> << >>, cur |-> 0, cleaners |-> << >>]
NoObj == [st |-> "none", parent |-> Null, buf |-> Null]

Init == /\ heap = << >>
        /\ pool = [p \in Pool |-> Null]
        /\ bufs = {}
        /\ obj = [o \in Obj |-> NoObj]
        /\ stack = << >>
        /\ died = << >>
--------------------------------------------------------------------------------
(* MemoryBlock::create, MemoryBlock::destroy *)

NewBlock(h) == CHOOSE b \in Block : b \notin DOMAIN h
Create(h, capacity) ==
    [b \in DOMAIN h \cup {NewBlock(h)} |-> IF b \in DOMAIN h THEN h[b] ELSE capacity]
Destroy(h, bs) == [b \in DOMAIN h \ bs |-> h[b]]
\* Memory does not run out: a buffer takes at most two new blocks, one if the
\* pool has a block; compaction frees a block before it takes one.
HasRoom(p) == Cardinality(Block \ DOMAIN heap) >= IF pool[p].cur = 0 THEN 2 ELSE 1

Blocks(chain) == {chain[i] : i \in DOMAIN chain}
CapacityOf(h, chain, i, j) == SumFunction([k \in i..j |-> h[chain[k]]])

\* Mutant: line 330 is missing.
CompactBlockForgetful(h, chain, i, bs) ==
    IF bs <= h[chain[i]] THEN [heap |-> h, chain |-> chain]
    ELSE LET j == Min({k \in i..Len(chain) :
                         k = Len(chain) \/ CapacityOf(h, chain, i, k) >= bs})
             rest == Destroy(h, {chain[i]})
         IN [heap |-> Create(rest, bs),
             chain |-> SubSeq(chain, 1, i - 1) \o <<NewBlock(rest)>>
                         \o SubSeq(chain, j + 1, Len(chain))]

\* compact_block: a block below _block_size and its successors, as many as it
\* takes, become one block of that size.
CompactBlock(h, chain, i, bs) ==
    IF bs <= h[chain[i]] THEN [heap |-> h, chain |-> chain]
    ELSE LET j == Min({k \in i..Len(chain) :
                         k = Len(chain) \/ CapacityOf(h, chain, i, k) >= bs})
             rest == Destroy(h, Blocks(SubSeq(chain, i, j)))
         IN [heap |-> Create(rest, bs),
             chain |-> SubSeq(chain, 1, i - 1) \o <<NewBlock(rest)>>
                         \o SubSeq(chain, j + 1, Len(chain))]
--------------------------------------------------------------------------------
(* create_buffer_internal: what it makes of pool P and heap h, and the block  *)
(* and position of the buffer.                                                *)

\* ClearBits[m][x] is x & ~m.
ClearBits[m \in Nat] ==
    [x \in Nat |-> IF m = 0 THEN x
                  ELSE 2 * ClearBits[m \div 2][x \div 2] + IF m % 2 = 1 THEN 0 ELSE x % 2]

\* (x + a - 1) & -a; the alignment a need not be a power of two.
AlignUp(x, a) == ClearBits[a - 1][x + a - 1]

\* Lines 360-362.
FirstBlock(P, h) ==
    IF P.cur # 0 THEN [P |-> P, heap |-> h]
    ELSE [P |-> [P EXCEPT !.chain = <<NewBlock(h)>>, !.cur = 1], heap |-> Create(h, P.bs)]

\* Mutant: compact_block is not called at line 377.
InNextBlockAsIs(P, h, size) ==
    LET next == P.cur + 1
        c == IF next <= Len(P.chain) THEN [heap |-> h, chain |-> P.chain]
             ELSE [heap |-> Create(h, P.bs), chain |-> Append(P.chain, NewBlock(h))]
    IN [P |-> [P EXCEPT !.chain = c.chain, !.cur = next, !.pos = size],
        heap |-> c.heap, block |-> c.chain[next], lo |-> 0]

\* Lines 373-386: the next block, reused or new.
InNextBlock(P, h, size) ==
    LET next == P.cur + 1
        c == IF next <= Len(P.chain) THEN CompactBlock(h, P.chain, next, P.bs)
             ELSE [heap |-> Create(h, P.bs), chain |-> Append(P.chain, NewBlock(h))]
    IN [P |-> [P EXCEPT !.chain = c.chain, !.cur = next, !.pos = size],
        heap |-> c.heap, block |-> c.chain[next], lo |-> 0]

\* Lines 389-396: a block of its own, put first; blocks are larger from now on.
InOwnBlock(P, h, size) ==
    LET n == NewBlock(h) IN
    [P |-> [P EXCEPT !.chain = <<n>> \o @, !.cur = @ + 1,
                     !.bs = GetBlockSize(Grown(size))],
     heap |-> Create(h, size), block |-> n, lo |-> 0]

CreateBufferInternal(P, h, size, align) ==
    LET f == FirstBlock(P, h)
        Q == [f.P EXCEPT !.pos = AlignUp(@, align)]
        current == Q.chain[Q.cur]
    IN IF f.heap[current] >= size + Q.pos
         THEN [P |-> [Q EXCEPT !.pos = @ + size], heap |-> f.heap,
               block |-> current, lo |-> Q.pos]
       ELSE IF size <= Q.bs THEN InNextBlock(Q, f.heap, size)
       ELSE InOwnBlock(Q, f.heap, size)

\* Mutant: line 134 gives the whole padding back.
CreateAlignedBufferGreedy(P, h, size, align) ==
    LET r == CreateBufferInternal(P, h, size + align, 1)
        address == BaseOf[r.block] + r.lo
        pad == AlignUp(address, align) - address
        last == r.P.chain[r.P.cur] = r.block /\ r.P.pos = r.lo + size + align
    IN [r EXCEPT !.lo = @ + pad, !.P.pos = IF last THEN @ - align ELSE @]

\* Mutant: line 132 aligns the position, not the address.
CreateAlignedBufferByPos(P, h, size, align) ==
    LET r == CreateBufferInternal(P, h, size + align, 1)
        pad == AlignUp(r.lo, align) - r.lo
        last == r.P.chain[r.P.cur] = r.block /\ r.P.pos = r.lo + size + align
    IN [r EXCEPT !.lo = @ + pad, !.P.pos = IF last THEN @ - (align - pad) ELSE @]

\* create_aligned_buffer(size, align): what the padding leaves over at the end
\* is given back, if the buffer is the last one of the current block.
CreateAlignedBuffer(P, h, size, align) ==
    LET r == CreateBufferInternal(P, h, size + align, 1)
        address == BaseOf[r.block] + r.lo
        pad == AlignUp(address, align) - address
        last == r.P.chain[r.P.cur] = r.block /\ r.P.pos = r.lo + size + align
    IN [r EXCEPT !.lo = @ + pad, !.P.pos = IF last THEN @ - (align - pad) ELSE @]

Buffer(r, size, align) ==
    [block |-> r.block, lo |-> r.lo, hi |-> r.lo + size, align |-> align]
--------------------------------------------------------------------------------
(* _cleaners: a vector of destructors to call *)

Cleaner(o) == [destructor |-> TRUE, pointer |-> o]
\* Mutant: lines 214-215 are missing.
HuskAsBefore(c) == c
\* What the move constructor leaves of a cleaner.
Husk(c) == [destructor |-> FALSE, pointer |-> Null]
\* Mutant: the last one is destroyed first.
DestroyedBackwards(cleaners) ==
    LET called[i \in 0..Len(cleaners)] ==
          IF i = 0 THEN << >>
          ELSE IF cleaners[i].destructor THEN <<cleaners[i].pointer>> \o called[i - 1]
          ELSE called[i - 1]
    IN called[Len(cleaners)]

\* The objects destroyed by ~Cleaner of each element, in order.
Destroyed(cleaners) ==
    LET called[i \in 0..Len(cleaners)] ==
          IF i = 0 THEN << >>
          ELSE IF cleaners[i].destructor THEN Append(called[i - 1], cleaners[i].pointer)
          ELSE called[i - 1]
    IN called[Len(cleaners)]

\* emplace_back(): when the vector is full its elements are moved to a larger
\* one and the husks are destroyed.
EmplaceBack(p, P, o) ==
    /\ pool' = [pool EXCEPT ![p] = [P EXCEPT !.cleaners = Append(@, Cleaner(o))]]
    /\ \/ died' = died
       \/ died' = died \o Destroyed([i \in DOMAIN P.cleaners |-> Husk(P.cleaners[i])])
--------------------------------------------------------------------------------
(* The operations.  While a constructor runs, it may create buffers and       *)
(* objects in the pool it was given; nothing else happens.                    *)

MayCreate(p) == /\ p \in Live /\ HasRoom(p) /\ Cardinality(bufs) < MaxBufs
                /\ stack # << >> => obj[Last(stack)].buf.block \in Blocks(pool[p].chain)
Outside(p) == p \in Live /\ stack = << >>

Construct(p, block_size) ==
    /\ p \notin Live /\ stack = << >>
    /\ pool' = [pool EXCEPT ![p] = EmptyPool(BlockSizeFor(block_size))]
    /\ UNCHANGED <<heap, bufs, obj, stack, died>>

SetBlockSize(p, block_size) ==
    /\ Outside(p)
    /\ pool' = [pool EXCEPT ![p].bs = BlockSizeFor(block_size)]
    /\ UNCHANGED <<heap, bufs, obj, stack, died>>

Give(p, r, size, align) ==
    /\ heap' = r.heap
    /\ pool' = [pool EXCEPT ![p] = r.P]
    /\ bufs' = bufs \cup {Buffer(r, size, align)}
    /\ UNCHANGED <<obj, stack, died>>

CreateBuffer(p, size, align) ==
    /\ MayCreate(p)
    /\ Give(p, CreateBufferInternal(pool[p], heap, size, align), size, align)

CreateBigAligned(p, size, align) ==
    /\ MayCreate(p)
    /\ Give(p, CreateAlignedBuffer(pool[p], heap, size, align), size, align)

\* create_cstring_buffer(), create_cstring_view(): room for the final '\0'; the
\* empty string takes nothing from the pool.
CreateCString(p, length) ==
    /\ MayCreate(p)
    /\ \/ length = 0 /\ UNCHANGED vars
       \/ /\ length # 0
          /\ Give(p, CreateBufferInternal(pool[p], heap, length + 1, 1), length + 1, 1)

\* create_object(), up to the call of the constructor: the cleaner is there
\* before the object.  (An object without destructor is only a buffer.)
CreateObject(p, o, align) ==
    /\ MayCreate(p)
    /\ obj[o].st = "none"
    /\ \E r \in {IF align \in NativeAligns
                   THEN CreateBufferInternal(pool[p], heap, ObjSize, align)
                   ELSE CreateAlignedBuffer(pool[p], heap, ObjSize, align)} :
         /\ heap' = r.heap
         /\ bufs' = bufs \cup {Buffer(r, ObjSize, align)}
         /\ EmplaceBack(p, r.P, o)
         /\ obj' = [obj EXCEPT ![o] =
              [st |-> "building", parent |-> IF stack = << >> THEN Null ELSE Last(stack),
               buf |-> Buffer(r, ObjSize, align)]]
    /\ stack' = Append(stack, o)

\* The constructor returns, or throws.
Constructed ==
    /\ stack # << >>
    /\ \E st \in {"built", "failed"} : obj' = [obj EXCEPT ![Last(stack)].st = st]
    /\ stack' = Front(stack)
    /\ UNCHANGED <<heap, pool, bufs, died>>

\* register_destructor() for an object the caller has made in a buffer.
RegisterDestructor(p, o) ==
    /\ p \in Live /\ stack = << >> /\ obj[o].st = "none"
    /\ \E b \in bufs : /\ b.block \in Blocks(pool[p].chain)
                       /\ \A q \in Obj : obj[q].buf # b
                       /\ obj' = [obj EXCEPT ![o] = [st |-> "built", parent |-> Null, buf |-> b]]
    /\ EmplaceBack(p, pool[p], o)
    /\ UNCHANGED <<heap, bufs, stack>>

\* clear(), as seen by a pool P and a heap h.
Cleared(P, h) ==
    LET c == IF P.chain = << >> THEN [heap |-> h, chain |-> << >>]
             ELSE CompactBlock(h, P.chain, 1, P.bs)
    IN [heap |-> c.heap,
        P |-> [P EXCEPT !.chain = c.chain, !.cur = IF P.chain = << >> THEN @ ELSE 1,
                        !.pos = 0, !.cleaners = << >>]]
\* The buffers that end with the contents of pool p.
Ended(p) == {b \in bufs : b.block \in Blocks(pool[p].chain)}

Clear(p) ==
    /\ Outside(p)
    /\ heap' = Cleared(pool[p], heap).heap
    /\ pool' = [pool EXCEPT ![p] = Cleared(pool[p], heap).P]
    /\ bufs' = bufs \ Ended(p)
    /\ died' = died \o Destroyed(pool[p].cleaners)
    /\ UNCHANGED <<obj, stack>>

\* Mutant: line 253 is missing.
ShrinkToFitDangling(p) ==
    /\ Outside(p)
    /\ LET P == pool[p]
           keep == IF P.cur = 1 /\ P.pos = 0 THEN 0 ELSE P.cur IN
         /\ P.cur # 0
         /\ heap' = Destroy(heap, Blocks(SubSeq(P.chain, keep + 1, Len(P.chain))))
         /\ pool' = [pool EXCEPT ![p].chain = SubSeq(@, 1, keep)]
    /\ UNCHANGED <<bufs, obj, stack, died>>

\* shrink_to_fit(): the blocks after the current one go; all, if nothing is used.
ShrinkToFit(p) ==
    /\ Outside(p)
    /\ LET P == pool[p]
           keep == IF P.cur = 1 /\ P.pos = 0 THEN 0 ELSE P.cur IN
         /\ P.cur # 0
         /\ heap' = Destroy(heap, Blocks(SubSeq(P.chain, keep + 1, Len(P.chain))))
         /\ pool' = [pool EXCEPT ![p].chain = SubSeq(@, 1, keep), ![p].cur = keep]
    /\ UNCHANGED <<bufs, obj, stack, died>>

\* Mutant: the loop of line 275 stops one block too early.
KeepUpToLess(P, min_capacity) ==
    LET k == Min({k \in P.cur..Len(P.chain) :
                    k = Len(P.chain) \/ CapacityOf(heap, P.chain, 1, k) >= min_capacity})
    IN IF k > P.cur THEN k - 1 ELSE k

\* The block up to which shrink_to_fit(min_capacity) keeps the chain.
KeepUpTo(P, min_capacity) ==
    Min({k \in P.cur..Len(P.chain) :
           k = Len(P.chain) \/ CapacityOf(heap, P.chain, 1, k) >= min_capacity})

\* shrink_to_fit(0) clears the pool and gives every block back.
ShrinkToFitMin(p, min_capacity) ==
    /\ Outside(p) /\ pool[p].cur # 0
    /\ LET P == pool[p]
           C == Cleared(P, heap)
           k == KeepUpTo(P, min_capacity) IN
         IF min_capacity = 0
           THEN /\ heap' = Destroy(C.heap, Blocks(C.P.chain))
                /\ pool' = [pool EXCEPT ![p] = [C.P EXCEPT !.chain = << >>, !.cur = 0]]
                /\ bufs' = bufs \ Ended(p)
                /\ died' = died \o Destroyed(P.cleaners)
           ELSE /\ heap' = Destroy(heap, Blocks(SubSeq(P.chain, k + 1, Len(P.chain))))
                /\ pool' = [pool EXCEPT ![p].chain = SubSeq(@, 1, k)]
                /\ UNCHANGED <<bufs, died>>
    /\ UNCHANGED <<obj, stack>>

\* Lines 72-74 and 87-89, and what moving leaves of a vector.
MovedFrom(P) == EmptyPool(P.bs)

MoveConstruct(p, q) ==
    /\ p \notin Live /\ Outside(q)
    /\ pool' = [pool EXCEPT ![p] = pool[q], ![q] = MovedFrom(pool[q])]
    /\ UNCHANGED <<heap, bufs, obj, stack, died>>

\* Mutant: line 79 is missing.
MoveAssignLeaks(p, q) ==
    /\ Outside(p) /\ Outside(q)
    /\ heap' = Cleared(pool[p], heap).heap
    /\ bufs' = bufs \ Ended(p)
    /\ died' = died \o Destroyed(pool[p].cleaners)
    /\ pool' = [r \in Pool |-> IF r = q THEN MovedFrom(pool[q])
                               ELSE IF r = p THEN pool[q] ELSE pool[r]]
    /\ UNCHANGED <<obj, stack>>

\* operator=(&&), to itself too: the blocks of p go, those of q come.
MoveAssign(p, q) ==
    /\ Outside(p) /\ Outside(q)
    /\ LET C == Cleared(pool[p], heap) IN heap' = Destroy(C.heap, Blocks(C.P.chain))
    /\ bufs' = bufs \ Ended(p)
    /\ died' = died \o Destroyed(pool[p].cleaners)
    /\ pool' = [r \in Pool |-> IF r = q THEN MovedFrom(pool[q])
                               ELSE IF r = p THEN pool[q] ELSE pool[r]]
    /\ UNCHANGED <<obj, stack>>

\* ~StaticMemoryPool()
Destruct(p) ==
    /\ Outside(p)
    /\ died' = died \o Destroyed(pool[p].cleaners)
    /\ heap' = Destroy(heap, Blocks(pool[p].chain))
    /\ bufs' = bufs \ Ended(p)
    /\ pool' = [pool EXCEPT ![p] = Null]
    /\ UNCHANGED <<obj, stack>>
--------------------------------------------------------------------------------
PoolStep(p) ==
    \/ \E s \in BlockSizes : Construct(p, s) \/ SetBlockSize(p, s)
    \/ \E s \in Sizes, a \in NativeAligns : CreateBuffer(p, s, a)
    \/ \E s \in Sizes, a \in BigAligns : CreateBigAligned(p, s, a)
    \/ \E n \in Lengths : CreateCString(p, n)
    \/ \E o \in Obj, a \in NativeAligns \cup BigAligns : CreateObject(p, o, a)
    \/ \E o \in Obj : RegisterDestructor(p, o)
    \/ Clear(p)
    \/ ShrinkToFit(p)
    \/ \E m \in MinCapacities : ShrinkToFitMin(p, m)
    \/ \E q \in Pool : MoveConstruct(p, q) \/ MoveAssign(p, q)
    \/ Destruct(p)

Next == (\E p \in Pool : PoolStep(p)) \/ Constructed

Spec == Init /\ [][Next]_vars
--------------------------------------------------------------------------------
Capacity(p) == CapacityOf(heap, pool[p].chain, 1, Len(pool[p].chain))
--------------------------------------------------------------------------------
(* Properties *)

BufferRec == [block : Block, lo : Nat, hi : Nat, align : Nat]

TypeOK ==
    /\ DOMAIN heap \subseteq Block /\ \A b \in DOMAIN heap : heap[b] \in Nat
    /\ \A p \in Live :
         /\ pool[p].bs \in Nat \ {0} /\ pool[p].pos \in Nat
         /\ pool[p].cur \in 0..Len(pool[p].chain)
         /\ pool[p].chain # << >> => pool[p].cur # 0
         /\ \A i \in DOMAIN pool[p].chain : pool[p].chain[i] \in Block
    /\ bufs \subseteq BufferRec
    /\ \A o \in Obj : obj[o].st \in {"none", "building", "built", "failed"}
    /\ stack \in Seq(Obj) /\ died \in Seq(Obj)

\* Every block that is allocated is in the chain of exactly one pool, once: no
\* leak and no double delete, through compaction, shrinking and moves.
OneOwner ==
    /\ \A p \in Live : IsInjective(pool[p].chain)
    /\ \A p, q \in Live : p # q => Blocks(pool[p].chain) \cap Blocks(pool[q].chain) = {}
    /\ DOMAIN heap = UNION {Blocks(pool[p].chain) : p \in Live}

\* contain(), of the address x bytes into block b.
Contain(P, b, x) ==
    \/ \E i \in 1..(P.cur - 1) : P.chain[i] = b /\ x < heap[b]
    \/ P.cur > 0 /\ P.chain[P.cur] = b /\ x < P.pos

\* A buffer in use lies inside an allocated block, in the part of its pool's
\* chain that later requests and shrink_to_fit() leave alone, and contain() says
\* so of its bytes.
BuffersInUse ==
    \A b \in bufs : /\ b.block \in DOMAIN heap /\ b.hi <= heap[b.block]
                    /\ \E p \in Live : /\ \E i \in 1..pool[p].cur : pool[p].chain[i] = b.block
                                       /\ b.lo < b.hi => Contain(pool[p], b.block, b.hi - 1)

\* No two buffers in use share a byte.
BuffersDisjoint ==
    \A b, c \in bufs : b # c /\ b.block = c.block => b.hi <= c.lo \/ c.hi <= b.lo

\* A buffer is aligned as it was asked for, whatever the block's address and the
\* padding given back (memory_pool.hpp:129-137); the mask can only do powers of two.
BuffersAligned ==
    \A b \in bufs : PowerOfTwo(b.align) => (BaseOf[b.block] + b.lo) % b.align = 0

\* No destructor runs twice, and an object whose destructor has not run still
\* has its memory: the pool destroys its objects before it takes their memory.
ObjectsDieOnce ==
    /\ IsInjective(died)
    /\ \A o \in Obj : obj[o].st # "none" /\ o \notin Blocks(died) => obj[o].buf \in bufs

\* An object is destroyed before the objects that its constructor has created in
\* the pool: its destructor may still use them.
ParentsDieFirst ==
    \A i, j \in DOMAIN died : obj[died[i]].parent = died[j] => j < i

\* shrink_to_fit(min_capacity) keeps at least min_capacity, if it was there
\* (memory_pool.h:126).
ShrinkKeepsEnough ==
    [][\A p \in Live, m \in MinCapacities \ {0} :
         ShrinkToFitMin(p, m) => Capacity(p)' >= m \/ Capacity(p)' = Capacity(p)]_vars

\* Whenever a request takes another block, _block_size is at least its size from
\* then on, although line 393 rounds the size to a float, rounds the product and
\* drops its fraction: a second request of that size gets no block of its own.
GrowthSuffices ==
    [][\A p \in Live, s \in Sizes, a \in NativeAligns :
         CreateBuffer(p, s, a) /\ pool'[p].chain # pool[p].chain => pool'[p].bs >= s]_vars
================================================================================
