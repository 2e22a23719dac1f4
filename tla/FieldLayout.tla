------------------------------ MODULE FieldLayout ------------------------------
(***************************************************************************)
(* BaseSchema of example/brpc/dynamic_struct.{h,hpp}: where the fields of  *)
(* a dynamic struct lie and how they are constructed, cleared and          *)
(* destroyed.                                                              *)
(*                                                                         *)
(* The vectors _constructors, _cleaners and _with_meta_constructor grow by *)
(* the same rule at the same time and differ in the functions they call;   *)
(* they are one sequence, hooks.  slots has an entry per registration; it  *)
(* stands for _metadata_creator, _metadata_deletor and _metadata_updator,  *)
(* which do too.                                                           *)
(***************************************************************************)
EXTENDS Integers, Sequences, FiniteSets

CONSTANTS Name,      \* names of fields
          Decl,      \* the type T and the pool type A a name is registered with
          MetaSize,  \* size and alignment of Schema::Meta, a pointer
          Word       \* size_t is an integer modulo Word

\* What the templates ask of T and A: its size and alignment, is_trivial,
\* is_trivially_destructible, use_metadata(), A, and whether T is a pointer and
\* has a get_struct_schema().
Declaration ==
    [size : Nat \ {0}, align : Nat \ {0}, trivial : BOOLEAN, trivDtor : BOOLEAN,
     meta : BOOLEAN, arena : {"void", "serial", "arena"},
     pointer : BOOLEAN, structible : BOOLEAN]

ASSUME MetaAssumption == MetaSize \in Nat \ {0}
ASSUME WordAssumption == Word \in Nat \ {0}
ASSUME DeclAssumption == Decl \in [Name -> Declaration]
\* sizeof is a size_t; alignments are powers of two, that of a pointer too.
ASSUME SizeAssumption == \A n \in Name : Decl[n].size < Word
ASSUME AlignAssumption == \A n \in Name : Decl[n].align <= MetaSize => MetaSize % Decl[n].align = 0
\* A type with metadata and A = void makes construct_with_metadata ambiguous.
ASSUME TypesAssumption ==
    \A n \in Name : /\ Decl[n].trivial => Decl[n].trivDtor /\ ~Decl[n].meta
                    /\ Decl[n].meta => Decl[n].arena # "void"

\* (x + a - 1) & -a, for powers of two.
AlignUp(x, a) == x + ((-x) % a)
Larger(x, y) == IF x >= y THEN x ELSE y

EmptySchema ==
    [align |-> MetaSize, size |-> MetaSize, unaligned |-> MetaSize, trivDtor |-> TRUE,
     map |-> << >>, slots |-> << >>, hooks |-> << >>, dtors |-> {}]

FieldTypeOf(n) == IF ~Decl[n].structible THEN "OTHER"
                  ELSE IF Decl[n].pointer THEN "DYNAMIC_STRUCT_POINTER"
                  ELSE "DYNAMIC_STRUCT"

Field(n, off) == [name |-> n, off |-> off, type |-> FieldTypeOf(n)]

\* Mutant: the padding before the field is not counted.
WithSpaceUnpadded(S, n) ==
    LET end == S.unaligned + Decl[n].size
        align == Larger(S.align, Decl[n].align)
    IN [S EXCEPT !.unaligned = end, !.align = align, !.size = AlignUp(end, align)]

\* add_field_and_caculate_size(): the offset of a new field n, and what is left
\* of the schema then.
OffsetFor(S, n) == AlignUp(S.unaligned, Decl[n].align) - MetaSize
WithSpace(S, n) ==
    LET end == AlignUp(S.unaligned, Decl[n].align) + Decl[n].size
        align == Larger(S.align, Decl[n].align)
    IN [S EXCEPT !.unaligned = end, !.align = align, !.size = AlignUp(end, align)]

\* Mutant: a field is added to the one before, whether that one is zeroed or not.
AddHookToAny(hooks, n, off) ==
    LET d == Decl[n]
        last == hooks[Len(hooks)]
    IN IF d.trivial /\ hooks # << >>
         THEN [hooks EXCEPT ![Len(hooks)].size = (off - last.off + d.size) % Word]
         ELSE Append(hooks, [off |-> off, size |-> d.size, zero |-> d.trivial])

\* add_constructor(), add_cleaner(), add_contruct_with_metadata(): neighbours that
\* are filled with zeros are filled together.
AddHook(hooks, n, off) ==
    LET d == Decl[n]
        last == hooks[Len(hooks)]
    IN IF d.trivial /\ hooks # << >> /\ last.zero
         THEN [hooks EXCEPT ![Len(hooks)].size = (off - last.off + d.size) % Word]
         ELSE Append(hooks, [off |-> off, size |-> d.size, zero |-> d.trivial])

\* Mutant: add_destructor() of a type with a destructor forgets the flag.
WithHooksFlagLost(S, n, off) ==
    LET own == ~Decl[n].trivDtor /\ Decl[n].arena = "void" IN
    [S EXCEPT !.hooks = AddHook(@, n, off),
              !.dtors = IF own THEN @ \cup {off} ELSE @,
              !.trivDtor = @ /\ (own \/ Decl[n].trivDtor),
              !.slots = Append(@, [name |-> n, off |-> off])]

\* The add_ functions that register_field() calls one after the other: a field
\* in a pool is destroyed by the pool.
WithHooks(S, n, off) ==
    LET own == ~Decl[n].trivDtor /\ Decl[n].arena = "void" IN
    [S EXCEPT !.hooks = AddHook(@, n, off),
              !.dtors = IF own THEN @ \cup {off} ELSE @,
              !.trivDtor = @ /\ Decl[n].trivDtor,
              !.slots = Append(@, [name |-> n, off |-> off])]

\* _field_map.emplace() keeps what is there.
Emplaced(S, n, off) ==
    [S EXCEPT !.map = [m \in DOMAIN S.map \cup {n} |->
                         IF m \in DOMAIN S.map THEN S.map[m] ELSE Field(n, off)]]

\* MEMBER: a member of a class is registered with the offset it has there.
Member(S, n, off) ==
    IF n \in DOMAIN S.map THEN S ELSE Emplaced(WithHooks(S, n, off), n, off)

\* MEMBER_END: set_size_and_align(sizeof(cls), alignof(cls)).
SetSizeAndAlign(S, size, align) ==
    LET a == Larger(S.align, align) IN
    [S EXCEPT !.align = a, !.unaligned = @ + size, !.size = AlignUp(S.unaligned + size, a)]
================================================================================
