---------------------------- MODULE MCFrameStore ----------------------------
(* Instances of FrameStore for TLC. *)
EXTENDS FrameStore, TLC

CONSTANTS c1, c2, c3, c4

ThreeChunks == {c1, c2, c3}
FourChunks == {c1, c2, c3, c4}
Clock == {0, 1}
NoFaults == {}
AllFaults == {"malloc node", "malloc vector"}
ChunkSymmetry == Permutations(Chunks)
=============================================================================
