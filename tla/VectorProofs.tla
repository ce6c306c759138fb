---------------------------- MODULE VectorProofs ----------------------------
(***************************************************************************)
(* Theorems about Vector for all elements and capacities: it never becomes    *)
(* full and implements the sequence it promises, also when it cannot grow.    *)
(***************************************************************************)
EXTENDS Vector, TLAPS

(* What is inductive: the types need InBounds for count to stay below capacity. *)
VInv == TypeOK /\ InBounds

LEMMA Constants ==
    /\ Junk \notin Elements
    /\ InitialCapacity \in Nat /\ DefaultCapacity \in Nat \ {0, 1}
BY VectorAssumption DEF VectorAssumption

(* Growing leaves room for one more element, and for the one after it. *)
LEMMA LargerRoom ==
    ASSUME VInv
    PROVE  Larger \in Nat /\ count + 1 < Larger
<1>1. capacity \in Nat /\ count \in Nat /\ (count > 0 => count < capacity)
  BY DEF VInv, TypeOK, InBounds
<1>2. QED
  BY <1>1, Constants DEF Larger

LEMMA VectorStep == VInv /\ [Next]_vars => VInv'
<1> SUFFICES ASSUME VInv, [Next]_vars PROVE VInv'
  OBVIOUS
<1>1. /\ capacity \in Nat /\ count \in Nat
      /\ array \in [0 .. capacity - 1 -> Elements \cup {Junk}]
      /\ status \in {"NO_ERROR", "ERR_FAILED_ALLOC", "ERR_EMPTY", "ERR_RANGE_ERROR"}
      /\ count > 0 => count < capacity
      /\ \A i \in 0 .. count - 1 : array[i] \in Elements
  BY DEF VInv, TypeOK, InBounds
<1>2. ASSUME NEW x \in Elements, AppendFits(x) PROVE VInv'
  <2>1. /\ count + 1 < capacity /\ count' = count + 1 /\ capacity' = capacity
        /\ array' = [array EXCEPT ![count] = x] /\ status' = "NO_ERROR"
    BY <1>1, <1>2 DEF AppendFits, AlmostFull
  <2>2. array' \in [0 .. capacity - 1 -> Elements \cup {Junk}]
    BY <1>1, <2>1
  <2>3. \A i \in 0 .. count : array'[i] \in Elements
    BY <1>1, <2>1
  <2>4. QED
    BY <1>1, <2>1, <2>2, <2>3 DEF VInv, TypeOK, InBounds
<1>3. ASSUME NEW x \in Elements, AppendGrows(x) PROVE VInv'
  <2>1. /\ count' = count + 1 /\ capacity' = Larger /\ status' = "NO_ERROR"
        /\ array' = [Adjusted(Larger) EXCEPT ![count] = x]
    BY <1>3 DEF AppendGrows
  <2>2. Larger \in Nat /\ count + 1 < Larger
    BY LargerRoom
  <2>3. Adjusted(Larger) \in [0 .. Larger - 1 -> Elements \cup {Junk}]
          /\ \A i \in 0 .. count - 1 : Adjusted(Larger)[i] = array[i]
    BY <1>1, <2>2 DEF Adjusted
  <2>4. array' \in [0 .. Larger - 1 -> Elements \cup {Junk}]
    BY <2>1, <2>3
  <2>5. \A i \in 0 .. count : array'[i] \in Elements
    BY <1>1, <2>1, <2>2, <2>3
  <2>6. QED
    BY <1>1, <2>1, <2>2, <2>4, <2>5 DEF VInv, TypeOK, InBounds
<1>4. CASE AppendFails
  BY <1>1, <1>4 DEF AppendFails, VInv, TypeOK, InBounds
<1>5. CASE vector_pop
  BY <1>1, <1>5 DEF vector_pop, VInv, TypeOK, InBounds
<1>6. CASE vector_clear
  BY <1>1, <1>6 DEF vector_clear, VInv, TypeOK, InBounds
<1>7. ASSUME NEW index \in 0 .. count, vector_remove(index) PROVE VInv'
  <2>1. CASE index >= count
    BY <1>1, <1>7, <2>1 DEF vector_remove, VInv, TypeOK, InBounds
  <2>2. CASE ~(index >= count)
    <3>1. /\ count' = count - 1 /\ capacity' = capacity /\ status' = "NO_ERROR"
          /\ array' = Moved(index) /\ count > 0
      BY <1>1, <1>7, <2>2 DEF vector_remove
    <3>2. array' \in [0 .. capacity - 1 -> Elements \cup {Junk}]
      BY <1>1, <3>1 DEF Moved
    <3>3. \A i \in 0 .. count - 2 : array'[i] \in Elements
      BY <1>1, <3>1 DEF Moved
    <3>4. QED
      BY <1>1, <3>1, <3>2, <3>3 DEF VInv, TypeOK, InBounds
  <2>3. QED
    BY <2>1, <2>2
<1>8. CASE UNCHANGED vars
  BY <1>1, <1>8 DEF vars, VInv, TypeOK, InBounds
<1>9. QED
  BY <1>2, <1>3, <1>4, <1>5, <1>6, <1>7, <1>8 DEF Next, vector_append

(* VInv is an invariant of the vector for every element type and capacity.      *)
THEOREM VectorInvariant == Spec => []VInv
<1>1. Init => VInv
  BY Constants DEF Init, Fresh, VInv, TypeOK, InBounds
<1>2. QED
  BY <1>1, VectorStep, PTL DEF Spec

(* The variables keep their types. *)
THEOREM VectorTypeOK == Spec => []TypeOK
<1>1. VInv => TypeOK
  BY DEF VInv
<1>2. QED
  BY <1>1, VectorInvariant, PTL

(* Writes stay within the array, which never becomes full, and every element    *)
(* counted has been written (vector.c:93-110).                                *)
THEOREM VectorInBounds == Spec => []InBounds
<1>1. VInv => InBounds
  BY DEF VInv
<1>2. QED
  BY <1>1, VectorInvariant, PTL

-----------------------------------------------------------------------------
(* The sequence in the array. *)
Listed == [i \in 1 .. count |-> array[i - 1]]

LEMMA ListedSeq ==
    ASSUME VInv
    PROVE  Listed \in Seq(Elements) /\ Len(Listed) = count
<1>1. count \in Nat /\ \A i \in 0 .. count - 1 : array[i] \in Elements
  BY DEF VInv, TypeOK, InBounds
<1>2. Listed \in [1 .. count -> Elements]
  BY <1>1 DEF Listed
<1>3. QED
  BY <1>1, <1>2 DEF Listed

LEMMA AppendListed ==
    ASSUME VInv, NEW x \in Elements,
           count' = count + 1,
           \A i \in 0 .. count - 1 : array'[i] = array[i],
           array'[count] = x
    PROVE  Listed' = Append(Listed, x)
<1>1. Listed \in Seq(Elements) /\ Len(Listed) = count /\ count \in Nat
  BY ListedSeq DEF VInv, TypeOK
<1>2. Listed' = [i \in 1 .. count + 1 |-> array'[i - 1]]
  BY DEF Listed
<1>3. ASSUME NEW i \in 1 .. count + 1
      PROVE  array'[i - 1] = IF i = count + 1 THEN x ELSE Listed[i]
  BY <1>1 DEF Listed
<1> DEFINE longer == Append(Listed, x)
<1>4. /\ longer \in Seq(Elements) /\ Len(longer) = count + 1
      /\ \A i \in 1 .. count + 1 :
            longer[i] = IF i = count + 1 THEN x ELSE Listed[i]
  BY <1>1
<1> HIDE DEF longer
<1>5. longer = [i \in 1 .. count + 1 |-> longer[i]]
  BY <1>1, <1>4
<1>6. \A i \in 1 .. count + 1 : array'[i - 1] = longer[i]
  BY <1>3, <1>4
<1>7. QED
  BY <1>2, <1>5, <1>6 DEF longer

(* The vector is the sequence that vector.h promises: a failed append changes   *)
(* nothing, and a removal keeps the others in order.                           *)
THEOREM VectorImplementsSequence == Spec => ImplementsSequence
<1>1. Init => Promise!Init
  BY DEF Init, Promise!Init
<1>2. VInv /\ [Next]_vars => [Promise!Next]_(Promise!vars)
  <2> SUFFICES ASSUME VInv, [Next]_vars
               PROVE  [Promise!Next]_(Promise!vars)
    OBVIOUS
  <2>1. /\ capacity \in Nat /\ count \in Nat
        /\ array \in [0 .. capacity - 1 -> Elements \cup {Junk}]
        /\ count > 0 => count < capacity
        /\ Listed \in Seq(Elements) /\ Len(Listed) = count
    BY ListedSeq DEF VInv, TypeOK, InBounds
  <2>2. ASSUME NEW x \in Elements, AppendFits(x) PROVE Promise!AppendElement(x)
    <3>1. /\ count + 1 < capacity /\ count' = count + 1
          /\ array' = [array EXCEPT ![count] = x] /\ status' = "NO_ERROR"
      BY <2>1, <2>2 DEF AppendFits, AlmostFull
    <3>2. /\ \A i \in 0 .. count - 1 : array'[i] = array[i]
          /\ array'[count] = x
      BY <2>1, <3>1
    <3>3. Listed' = Append(Listed, x)
      BY <3>1, <3>2, AppendListed
    <3>4. QED
      BY <3>1, <3>3 DEF Promise!AppendElement, Listed
  <2>3. ASSUME NEW x \in Elements, AppendGrows(x) PROVE Promise!AppendElement(x)
    <3>1. /\ count' = count + 1 /\ status' = "NO_ERROR"
          /\ array' = [Adjusted(Larger) EXCEPT ![count] = x]
      BY <2>3 DEF AppendGrows
    <3>2. Larger \in Nat /\ count + 1 < Larger
      BY LargerRoom
    <3>3. /\ \A i \in 0 .. count - 1 : array'[i] = array[i]
          /\ array'[count] = x
      BY <2>1, <3>1, <3>2 DEF Adjusted
    <3>4. Listed' = Append(Listed, x)
      BY <3>1, <3>3, AppendListed
    <3>5. QED
      BY <3>1, <3>4 DEF Promise!AppendElement, Listed
  <2>4. CASE AppendFails
    BY <2>4 DEF AppendFails, Promise!Next, Promise!AppendFails
  <2>5. CASE vector_pop
    <3>1. CASE count > 0
      <4>1. count' = count - 1 /\ array' = array /\ status' = "NO_ERROR"
        BY <2>5, <3>1 DEF vector_pop
      <4>2. Listed' = SubSeq(Listed, 1, Len(Listed) - 1)
        <5>1. Listed' = [i \in 1 .. count - 1 |-> Listed[i]]
          BY <2>1, <3>1, <4>1 DEF Listed
        <5>2. SubSeq(Listed, 1, Len(Listed) - 1) = [i \in 1 .. count - 1 |-> Listed[i]]
          BY <2>1, <3>1
        <5>3. QED
          BY <5>1, <5>2
      <4>3. Listed # <<>>
        BY <2>1, <3>1
      <4>4. QED
        BY <4>1, <4>2, <4>3 DEF Listed, Promise!Next, Promise!Pop
    <3>2. CASE ~(count > 0)
      <4>1. count' = count /\ array' = array /\ status' = "ERR_EMPTY"
        BY <2>5, <3>2 DEF vector_pop
      <4>2. Listed = <<>> /\ Listed' = Listed
        BY <2>1, <3>2, <4>1 DEF Listed
      <4>3. QED
        BY <4>1, <4>2 DEF Listed, Promise!Next, Promise!Pop
    <3>3. QED
      BY <3>1, <3>2
  <2>6. CASE vector_clear
    <3>1. count' = 0 /\ array' = array /\ status' = "NO_ERROR"
      BY <2>6 DEF vector_clear
    <3>2. Listed' = <<>>
      BY <3>1 DEF Listed
    <3>3. QED
      BY <3>1, <3>2 DEF Listed, Promise!Next, Promise!Clear
  <2>7. ASSUME NEW index \in 0 .. count, vector_remove(index)
        PROVE  Promise!Remove(index)
    <3>1. CASE index >= count
      <4>1. count' = count /\ array' = array /\ status' = "ERR_RANGE_ERROR"
        BY <2>7, <3>1 DEF vector_remove
      <4>2. Listed' = Listed /\ index >= Len(Listed)
        BY <2>1, <3>1, <4>1 DEF Listed
      <4>3. QED
        BY <4>1, <4>2 DEF Listed, Promise!Remove
    <3>2. CASE ~(index >= count)
      <4>1. count' = count - 1 /\ array' = Moved(index) /\ status' = "NO_ERROR"
        BY <2>7, <3>2 DEF vector_remove
      <4>2. Listed' = [i \in 1 .. count - 1 |-> array'[i - 1]]
        BY <4>1 DEF Listed
      <4>3. ASSUME NEW i \in 1 .. count - 1
            PROVE  array'[i - 1] = IF i <= index THEN Listed[i] ELSE Listed[i + 1]
        BY <2>1, <3>2, <4>1 DEF Moved, Listed
      <4>4. Listed' = [i \in 1 .. Len(Listed) - 1 |->
                          IF i <= index THEN Listed[i] ELSE Listed[i + 1]]
        BY <2>1, <4>2, <4>3
      <4>5. ~(index >= Len(Listed))
        BY <2>1, <3>2
      <4>6. QED
        BY <4>1, <4>4, <4>5 DEF Listed, Promise!Remove
    <3>3. QED
      BY <3>1, <3>2
  <2>8. CASE UNCHANGED vars
    BY <2>8 DEF vars, Promise!vars
  <2>9. ASSUME NEW index \in 0 .. count, vector_remove(index)
        PROVE  Promise!Next
    <3>1. index \in 0 .. Len(Listed)
      BY <2>1
    <3>2. QED
      BY <2>7, <2>9, <3>1 DEF Listed, Promise!Next
  <2>10. QED
    BY <2>2, <2>3, <2>4, <2>5, <2>6, <2>8, <2>9
       DEF Next, vector_append, Promise!Next
<1>3. QED
  BY <1>1, <1>2, VectorInvariant, PTL DEF Spec, ImplementsSequence, Promise!Spec
=============================================================================
