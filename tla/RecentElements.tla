--------------------------- MODULE RecentElements ---------------------------
(***************************************************************************)
(* What libkghost/inc/ring.h promises: the most recently pushed elements,    *)
(* the newest at index 0, as many as the capacity.  Ring is shown to         *)
(* implement this specification.                                            *)
(***************************************************************************)
EXTENDS Naturals, Sequences

CONSTANTS Elements, Capacity

VARIABLE recent

Init == recent = <<>>

Kept == IF Len(recent) < Capacity THEN Len(recent) + 1 ELSE Capacity

Push(x) == recent' = [i \in 1 .. Kept |-> IF i = 1 THEN x ELSE recent[i - 1]]

Clear == recent' = <<>>

Next == Clear \/ \E x \in Elements : Push(x)

Spec == Init /\ [][Next]_recent
=============================================================================
