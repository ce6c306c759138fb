------------------------------- MODULE Vector -------------------------------
(***************************************************************************)
(* libkghost/src/vector.c: an array that grows, of elements that are copied  *)
(* in.  Positions and sizes are counted in elements; the code's are the same *)
(* times element_size.  Memory that malloc returned and nobody wrote to       *)
(* holds Junk.                                                              *)
(*                                                                          *)
(* A definition marked `Mutant' is the definition below it with a bug such   *)
(* code could have; it is not part of the model.                             *)
(***************************************************************************)
EXTENDS Integers, Sequences

CONSTANTS Elements, Junk,
          InitialCapacity,
          DefaultCapacity,      \* DEFAULT_VECTOR_CAPACITY
          MaxCapacity,          \* bound: capacities the instance grows to
          Faults                \* the library calls that may fail

ASSUME VectorAssumption ==
    /\ Junk \notin Elements
    /\ InitialCapacity \in Nat /\ DefaultCapacity \in Nat \ {0, 1}
    /\ MaxCapacity \in Nat
    /\ Faults \subseteq {"malloc"}

VARIABLES capacity, count, array, status

vars == <<capacity, count, array, status>>

Fresh(n) == [i \in 0 .. n - 1 |-> Junk]

\* vector_create; without a capacity there is no array yet.
Init ==
    /\ capacity = InitialCapacity
    /\ count = 0
    /\ array = Fresh(InitialCapacity)
    /\ status = "NO_ERROR"

\* Mutant: the last element is not copied.
AdjustedShort(new) ==
    [i \in 0 .. new - 1 |-> IF i < count - 1 THEN array[i] ELSE Junk]
\* _vector_adjust_capacity: the array it makes.
Adjusted(new) == [i \in 0 .. new - 1 |-> IF i < count THEN array[i] ELSE Junk]

Larger == IF capacity = 0 THEN DefaultCapacity ELSE capacity * 2

-----------------------------------------------------------------------------
\* Mutant: the array grows after the last place has been passed.
FullWhenPassed == capacity < count
(* vector_append grows the array when it would become full. *)
AlmostFull == capacity <= count + 1

AppendFits(x) ==
    /\ ~AlmostFull
    /\ array' = [array EXCEPT ![count] = x]
    /\ count' = count + 1
    /\ status' = "NO_ERROR"
    /\ UNCHANGED capacity

AppendGrows(x) ==
    /\ AlmostFull /\ Larger <= MaxCapacity
    /\ capacity' = Larger
    /\ array' = [Adjusted(Larger) EXCEPT ![count] = x]
    /\ count' = count + 1
    /\ status' = "NO_ERROR"

AppendFails ==
    /\ AlmostFull
    /\ "malloc" \in Faults
    /\ status' = "ERR_FAILED_ALLOC"
    /\ UNCHANGED <<capacity, count, array>>

vector_append(x) == AppendFits(x) \/ AppendGrows(x) \/ AppendFails

vector_pop ==
    /\ IF count > 0
       THEN count' = count - 1 /\ status' = "NO_ERROR"
       ELSE UNCHANGED count /\ status' = "ERR_EMPTY"
    /\ UNCHANGED <<capacity, array>>

vector_clear ==
    /\ count' = 0
    /\ status' = "NO_ERROR"
    /\ UNCHANGED <<capacity, array>>

\* Mutant: one element too few is moved.
MovedShort(index) ==
    [i \in 0 .. capacity - 1 |->
        IF index <= i /\ i < count - 2 THEN array[i + 1] ELSE array[i]]
(* The array after the memmove of vector_remove, whose source and destination  *)
(* overlap.                                                                   *)
Moved(index) ==
    [i \in 0 .. capacity - 1 |->
        IF index <= i /\ i < count - 1 THEN array[i + 1] ELSE array[i]]

vector_remove(index) ==
    /\ IF index >= count
       THEN UNCHANGED <<count, array>> /\ status' = "ERR_RANGE_ERROR"
       ELSE /\ array' = Moved(index)
            /\ count' = count - 1
            /\ status' = "NO_ERROR"
    /\ UNCHANGED capacity

Next == \/ vector_pop \/ vector_clear
        \/ \E x \in Elements : vector_append(x)
        \/ \E index \in 0 .. count : vector_remove(index)

Spec == Init /\ [][Next]_vars

-----------------------------------------------------------------------------
(* The values the variables range over. *)
TypeOK ==
    /\ capacity \in Nat
    /\ count \in Nat
    /\ array \in [0 .. capacity - 1 -> Elements \cup {Junk}]
    /\ status \in {"NO_ERROR", "ERR_FAILED_ALLOC", "ERR_EMPTY", "ERR_RANGE_ERROR"}

(* Every element was written and lies within the array, which never becomes    *)
(* full: the next append that does not grow has its place                     *)
(* (vector.c:93-110).                                                         *)
InBounds ==
    /\ count > 0 => count < capacity
    /\ \A i \in 0 .. count - 1 : array[i] \in Elements

(* Whatever was appended, removed, grown, and failed to grow, the array is the *)
(* sequence that ElementSequence promises: a failed append changes nothing,   *)
(* a removal keeps the order of the others.                                   *)
Promise == INSTANCE ElementSequence WITH
    contents <- [i \in 1 .. count |-> array[i - 1]]
ImplementsSequence == Promise!Spec
=============================================================================
