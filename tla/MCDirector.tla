----------------------------- MODULE MCDirector -----------------------------
(* Instances of Director for TLC. *)
EXTENDS Director, TLC

CONSTANTS c1, c2, c3, c4, c5, l1, l2, l3

ThreeChunks == {c1, c2, c3}
FourChunks == {c1, c2, c3, c4}
FiveChunks == {c1, c2, c3, c4, c5}
TwoLoops == {l1, l2}
ThreeLoops == {l1, l2, l3}
Clock == {0, 1}
NoFaults == {}
AllFaults == {"malloc node", "malloc vector", "malloc append",
              "pthread_create", "malloc loop"}
Symmetry == Permutations(Chunks) \cup Permutations(Loops)
=============================================================================
