---------------------------- MODULE MCDynamicStruct ----------------------------
(***************************************************************************)
(* DynamicStruct with a byte, a string on the heap, a reusable string in a *)
(* memory pool and, as members of classes, a pointer and an embedded       *)
(* struct with more alignment than a pointer, which takes two units.       *)
(***************************************************************************)
EXTENDS DynamicStruct

CONSTANTS t1, t2, o1, o2

\* Neither threads nor objects are ordered.
Symmetry == Permutations({t1, t2}) \cup Permutations({o1, o2})

Type(size, trivial, reusable, arena) ==
    [size |-> size, align |-> size, trivial |-> trivial, trivDtor |-> trivial,
     meta |-> reusable, arena |-> arena, pointer |-> FALSE, structible |-> FALSE]

Names == {"byte", "pointer", "string", "pooled", "wide"}
TheDecl == [n \in Names |->
              CASE n = "byte" -> Type(1, TRUE, FALSE, "void")
                [] n = "pointer" -> [Type(2, TRUE, FALSE, "void") EXCEPT !.pointer = TRUE,
                                                                        !.structible = TRUE]
                [] n = "string" -> Type(2, FALSE, FALSE, "void")
                [] n = "pooled" -> Type(2, FALSE, TRUE, "serial")
                [] n = "wide" -> [Type(4, TRUE, FALSE, "void") EXCEPT !.structible = TRUE]]
Registered == {"byte", "string", "pooled"}

\* No class; MEMBERs in order; MEMBERs out of order; an over-aligned member.
At(n, off) == [name |-> n, off |-> off]
TheClasses ==
    {[members |-> << >>, size |-> 0, align |-> 1],
     [members |-> <<At("byte", 0), At("string", 2)>>, size |-> 4, align |-> 2],
     [members |-> <<At("pointer", 2), At("byte", 0)>>, size |-> 4, align |-> 2],
     [members |-> <<At("wide", 0)>>, size |-> 4, align |-> 4]}
================================================================================
