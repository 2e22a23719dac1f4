---------------------------- MODULE MCLockFreeQueue ----------------------------
(* LockFreeQueue with model values for threads and nodes. *)
EXTENDS LockFreeQueue

CONSTANTS p1, p2, c1, c2, n0, n1, n2, n3

MCProducer == {p1, p2}
MCConsumer == {c1, c2}
\* Memory for three lines.
MCNode == {n0, n1, n2, n3}
================================================================================
