------------------------------ MODULE MCGhosts ------------------------------
(* The instance of Ghosts for TLC. *)
EXTENDS Ghosts

CONSTANTS c1, c2, c3, c4, l1, l2

FourChunks == {c1, c2, c3, c4}
TwoLoops == {l1, l2}
Clock == 0 .. MaxTime
NoFaults == {}
=============================================================================
