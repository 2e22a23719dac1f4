-------------------------- MODULE MCStaticMemoryPool ---------------------------
(* Small pools: headers of 2 and pages of 8 units instead of 16 and 4096. *)
EXTENDS StaticMemoryPool

CONSTANTS p1, p2, o1, o2

\* Only blocks are chosen, never pools or objects.
Symmetry == Permutations({p1, p2}) \cup Permutations({o1, o2})

OnePool == {p1}
TwoPools == {p1, p2}
TwoObjects == {o1, o2}
NoObjects == {}
Addresses == 1..3
\* Data starts at a multiple of 2, not always of 4.
MCBaseOf == [b \in Addresses |-> IF b % 2 = 1 THEN 2 ELSE 4]
SmallAndLarge == {3, 33}
EmptyOrOne == {0, 1}
ByteAndWord == {1, 2}
JustThree == {3}
NoStrings == {}
None == {}
Word == {2}
FourAndThree == {3, 4}
PoolBlockSizes == {4, 8}
OneBlockSize == {4}
Minima == {0, 9}
================================================================================
