---------------------------- MODULE MCMemoryPool ----------------------------
(* The instance of MemoryPool for TLC. *)
EXTENDS MemoryPool

CONSTANTS c1, c2, c3, c4, c5

FiveChunks == {c1, c2, c3, c4, c5}
AllFaults == {"malloc chunk", "malloc node", "usleep"}
=============================================================================
