-------------------------------- MODULE Ring --------------------------------
(***************************************************************************)
(* libkghost/src/ring.c: a ring of fixed capacity that is filled from right  *)
(* to left.  Positions are counted in elements; the code's are the same      *)
(* times element_size.                                                      *)
(*                                                                          *)
(* A definition marked `Mutant' is the definition below it with a bug such   *)
(* code could have; it is not part of the model.                             *)
(***************************************************************************)
EXTENDS Integers, Sequences

CONSTANTS Elements, Capacity

ASSUME RingAssumption == Capacity \in Nat \ {0} /\ Elements # {}

VARIABLES data, count, head

vars == <<data, count, head>>

\* What malloc returns is not initialised.
Init ==
    /\ data \in [0 .. Capacity - 1 -> Elements]
    /\ count = 0
    /\ head = Capacity - 1

\* Mutant: the ring is filled from left to right.
HeadToRight == (head + 1) % Capacity
Left == IF head = 0 THEN Capacity - 1 ELSE head - 1

ring_push(x) ==
    /\ data' = [data EXCEPT ![head] = x]
    /\ head' = Left
    /\ count' = IF count < Capacity THEN count + 1 ELSE count

\* head does not go back to where it was at first.
ring_clear ==
    /\ count' = 0
    /\ head' = 0
    /\ UNCHANGED data

\* Mutant: the place of the next push is taken for the last one's.
PositionOfNext(index) == (index + head) % Capacity
(* Where ring_element finds the index-th element. *)
Position(index) == (index + 1 + head) % Capacity

Next == ring_clear \/ \E x \in Elements : ring_push(x)

Spec == Init /\ [][Next]_vars

-----------------------------------------------------------------------------
(* The values the variables range over; head never points outside the data.   *)
TypeOK ==
    /\ data \in [0 .. Capacity - 1 -> Elements]
    /\ count \in 0 .. Capacity
    /\ head \in 0 .. Capacity - 1

(* The ring implements RecentElements: whatever was pushed, wrapped and        *)
(* cleared before, ring_element(i) is the i-th most recent element, also when *)
(* the ring is full.  (ring.c:135-138 doubts it.)                             *)
Contents == INSTANCE RecentElements WITH
    recent <- [i \in 1 .. count |-> data[Position(i - 1)]]
ImplementsRecent == Contents!Spec

(* A push writes over the oldest element of a full ring and over no other:     *)
(* wherever head stands (ring.c:96), the elements that stay in the ring stay   *)
(* where they are, one index further.                                        *)
Survives(index) == /\ Position(index + 1)' = Position(index)
                   /\ data'[Position(index)] = data[Position(index)]
InPlace ==
    [][count' # 0 => \A index \in 0 .. count - 1 :
                        index + 1 < Capacity => Survives(index)]_vars
=============================================================================
