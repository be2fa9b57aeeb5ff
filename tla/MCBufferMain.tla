---------------------------- MODULE MCBufferMain ----------------------------
(***************************************************************************)
(* BufferMain with three pools, so that an index freed by one deletion is *)
(* handed to a later pool while another is registered; two of them have  *)
(* a user goroutine whose Init races AddBufferPool's; two DMA offsets, so *)
(* a pool created after a deletion reuses traced memory.  p1's payload of *)
(* 448 bytes starts at 9 cache lines, the square of a prime.               *)
(***************************************************************************)
EXTENDS BufferMain

CONSTANTS p1, p2, p3, n1, n2, n3

MCPools == {p1, p2, p3}
MCUsers == {p1, p2}
MCPoolName == [p \in MCPools |-> CASE p = p1 -> n1 [] p = p2 -> n2 [] p = p3 -> n3]
\* Registering a second pool under a name already taken.
MCPoolNameDup == [p \in MCPools |-> CASE p = p1 -> n1 [] p = p2 -> n1 [] p = p3 -> n3]
MCPoolSize == [p \in MCPools |-> CASE p = p1 -> 448 [] p = p2 -> 64 [] p = p3 -> 1024]
MCOffsets == {0, 1}
====
