------------------------------- MODULE BlockSize -------------------------------
(***************************************************************************)
(* The sizes of memory blocks: MemoryBlock::get_block_size() and           *)
(* StaticMemoryPool::set_block_size() of example/brpc/memory_pool.hpp.     *)
(***************************************************************************)
EXTENDS Naturals

CONSTANTS Header,   \* sizeof(MemoryBlock), 16 in the code
          Page,     \* 4 << 10 in the code
          FloatOne  \* a float has the digits of the integers below 2 * FloatOne:
                    \* 2^23 in the code

ASSUME SizesAssumption == Header \in Nat \ {0} /\ Page \in Nat \ {0}

\* The loop of lines 24-29: the greatest power of two that is at most n.
FloorPow2[n \in Nat] == IF n <= 1 THEN 1 ELSE 2 * FloorPow2[n \div 2]

PowerOfTwo(n) == FloorPow2[n] = n
ASSUME FloatAssumption == FloatOne \in Nat /\ FloatOne >= 16 /\ PowerOfTwo(FloatOne)

\* Mutant: lines 30-32 are missing.
GetBlockSizeFloor(expected_size) ==
    LET min_block_size == Header + expected_size
        block_size == IF min_block_size > Page
                        THEN ((min_block_size + Page - 1) \div Page) * Page
                        ELSE FloorPow2[min_block_size]
    IN block_size - Header

GetBlockSize(expected_size) ==
    LET min_block_size == Header + expected_size
        low == FloorPow2[min_block_size]
        block_size == IF min_block_size > Page
                        THEN ((min_block_size + Page - 1) \div Page) * Page
                        ELSE IF low < min_block_size THEN 2 * low ELSE low
    IN block_size - Header

\* set_block_size(): the argument counts the header.
BlockSizeFor(block_size) ==
    GetBlockSize(IF block_size < Header THEN Header ELSE block_size - Header)

\* n as a float: what does not fit into its digits is rounded, half to even.
Float(n) ==
    LET unit == FloorPow2[n] \div FloatOne
        rest == n % unit
        low == n - rest
        up == \/ 2 * rest > unit
              \/ 2 * rest = unit /\ (n \div unit) % 2 = 1
    IN IF n < 2 * FloatOne THEN n ELSE IF up THEN low + unit ELSE low

\* 1.1f, times FloatOne.
OneAndATenth == (11 * FloatOne + 5) \div 10

\* The size_t that line 393 makes of buffer_size * 1.1f: the size is converted,
\* the product rounded, the fraction dropped.
Grown(buffer_size) == Float(Float(buffer_size) * OneAndATenth) \div FloatOne
================================================================================
