---------------------------- MODULE MCGraphService -----------------------------
(* Requests one after the other, as example/brpc/brpc_client.cpp sends them,   *)
(* or two at a time.                                                           *)
EXTENDS GraphService

CONSTANTS r1, r2, g1, g2

TwoRequests == {r1, r2}
Graphs == {g1, g2}
OneOrTwo == {1, 2}
================================================================================
