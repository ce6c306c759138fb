------------------------------ MODULE MCVector ------------------------------
(* An instance of Vector for TLC. *)
EXTENDS Vector

CONSTANTS a, b, junk

TwoElements == {a, b}
AllFaults == {"malloc"}
=============================================================================
