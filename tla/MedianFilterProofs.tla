------------------------- MODULE MedianFilterProofs -------------------------
(***************************************************************************)
(* Theorems about the ring and about the median filter, its client, for every *)
(* capacity, shape and picture.  The ring stays within its data, holds the    *)
(* most recent elements in their order and leaves them where they are; with   *)
(* it the filter, although it overwrites the frames it reads, returns what    *)
(* the original frames make.                                                 *)
(***************************************************************************)
EXTENDS MedianFilter, FiniteSetTheorems, WellFoundedInduction, TLAPS

-----------------------------------------------------------------------------
(* Found wrap at most once. *)
LEMMA Wrapped ==
    ASSUME NEW p \in 0 .. 2 * Capacity - 1
    PROVE  p % Capacity = IF p < Capacity THEN p ELSE p - Capacity
BY RingAssumption DEF RingAssumption

LEMMA Found ==
    ASSUME TypeOK, NEW index \in 0 .. Capacity - 1
    PROVE  /\ Position(index) \in 0 .. Capacity - 1
           /\ Position(index) = IF index + 1 + head < Capacity
                                THEN index + 1 + head
                                ELSE index + 1 + head - Capacity
<1>1. /\ Capacity \in Nat \ {0} /\ head \in 0 .. Capacity - 1
      /\ index + 1 + head \in 0 .. 2 * Capacity - 1
  BY RingAssumption DEF RingAssumption, TypeOK
<1>2. (index + 1 + head) % Capacity = IF index + 1 + head < Capacity
                                      THEN index + 1 + head
                                      ELSE index + 1 + head - Capacity
  BY <1>1, Wrapped
<1>3. QED
  BY <1>1, <1>2 DEF Position

(* The next push lands on no element but the oldest of a full ring. *)
LEMMA PushAvoids ==
    ASSUME TypeOK, NEW index \in 0 .. Capacity - 2
    PROVE  Position(index) # head
<1>1. Capacity \in Nat \ {0} /\ head \in 0 .. Capacity - 1
  BY RingAssumption DEF RingAssumption, TypeOK
<1>2. QED
  BY <1>1, Found

(* It is found at the position of index 0 afterwards, and the others one       *)
(* index up.                                                                 *)
LEMMA PushMoves ==
    ASSUME TypeOK, TypeOK', head' = Left
    PROVE  /\ Position(0)' = head
           /\ \A index \in 0 .. Capacity - 2 :
                 Position(index + 1)' = Position(index)
<1>1. Capacity \in Nat \ {0} /\ head \in 0 .. Capacity - 1
  BY RingAssumption DEF RingAssumption, TypeOK
<1>2. head' = IF head = 0 THEN Capacity - 1 ELSE head - 1
  BY DEF Left
<1>3. Position(0)' = head
  <2>1. Position(0)' = (0 + 1 + head') % Capacity
    BY DEF Position
  <2>2. 0 + 1 + head' \in 0 .. 2 * Capacity - 1
    BY <1>1, <1>2
  <2>3. QED
    BY <1>1, <1>2, <2>1, <2>2, Wrapped
<1>4. ASSUME NEW index \in 0 .. Capacity - 2
      PROVE  Position(index + 1)' = Position(index)
  <2> PICK p : p = index + 1 + 1 + head'
    OBVIOUS
  <2>1. Position(index + 1)' = p % Capacity
    BY DEF Position
  <2>2. p \in 0 .. 2 * Capacity - 1
    BY <1>1, <1>2
  <2>3. p % Capacity = IF p < Capacity THEN p ELSE p - Capacity
    BY <2>2, Wrapped
  <2>4. Position(index) = IF index + 1 + head < Capacity THEN index + 1 + head
                          ELSE index + 1 + head - Capacity
    <3>1. index \in 0 .. Capacity - 1
      BY <1>1
    <3>2. QED
      BY <3>1, Found
  <2>5. QED
    BY <1>1, <1>2, <2>1, <2>3, <2>4
<1>5. QED
  BY <1>3, <1>4

-----------------------------------------------------------------------------
LEMMA RingStep == TypeOK /\ [Next]_vars => TypeOK'
<1> SUFFICES ASSUME TypeOK, [Next]_vars PROVE TypeOK'
  OBVIOUS
<1>1. Capacity \in Nat \ {0}
  BY RingAssumption DEF RingAssumption
<1>2. CASE ring_clear
  BY <1>1, <1>2 DEF ring_clear, TypeOK
<1>3. CASE \E x \in Elements : ring_push(x)
  BY <1>1, <1>3 DEF ring_push, Left, TypeOK
<1>4. CASE UNCHANGED vars
  BY <1>4 DEF vars, TypeOK
<1>5. QED
  BY <1>2, <1>3, <1>4 DEF Next

(* head and count stay within the data, so that no push writes outside it      *)
(* (ring.c:91-106).                                                           *)
THEOREM RingTypeOK == Spec => []TypeOK
<1>1. Init => TypeOK
  BY RingAssumption DEF RingAssumption, Init, TypeOK
<1>2. QED
  BY <1>1, RingStep, PTL DEF Spec

(* The pushed element is written and the survivors are not. *)
LEMMA PushData ==
    ASSUME TypeOK, TypeOK', NEW x \in Elements, ring_push(x)
    PROVE  /\ data'[Position(0)'] = x
           /\ \A index \in 0 .. Capacity - 2 :
                 /\ Position(index + 1)' = Position(index)
                 /\ data'[Position(index)] = data[Position(index)]
<1>1. /\ Capacity \in Nat \ {0} /\ head \in 0 .. Capacity - 1
      /\ data \in [0 .. Capacity - 1 -> Elements]
  BY RingAssumption DEF RingAssumption, TypeOK
<1>2. /\ Position(0)' = head
      /\ \A index \in 0 .. Capacity - 2 : Position(index + 1)' = Position(index)
  BY PushMoves DEF ring_push
<1>3. \A index \in 0 .. Capacity - 2 :
         Position(index) \in 0 .. Capacity - 1 /\ Position(index) # head
  BY <1>1, Found, PushAvoids
<1>4. data' = [data EXCEPT ![head] = x]
  BY DEF ring_push
<1>5. QED
  BY <1>1, <1>2, <1>3, <1>4

(* ring_element(i) gives the i-th most recent element, in every state the ring  *)
(* reaches.                                                                   *)
THEOREM RingImplementsRecent == Spec => ImplementsRecent
<1> DEFINE recent == [i \in 1 .. count |-> data[Position(i - 1)]]
<1>1. Init => Contents!Init
  BY DEF Init, Contents!Init
<1>2. TypeOK /\ TypeOK' /\ [Next]_vars => [Contents!Next]_recent
  <2> SUFFICES ASSUME TypeOK, TypeOK', [Next]_vars
               PROVE  [Contents!Next]_recent
    OBVIOUS
  <2>1. Capacity \in Nat \ {0} /\ count \in 0 .. Capacity /\ count' \in 0 .. Capacity
    BY RingAssumption DEF RingAssumption, TypeOK
  <2>2. CASE UNCHANGED vars
    BY <2>2 DEF vars, Position
  <2>3. CASE ring_clear
    BY <2>1, <2>3 DEF ring_clear, Contents!Next, Contents!Clear
  <2>4. ASSUME NEW x \in Elements, ring_push(x)
        PROVE  Contents!Push(x)
    <3>1. count' = IF count < Capacity THEN count + 1 ELSE Capacity
      BY <2>1, <2>4 DEF ring_push
    <3>2. recent' = [i \in 1 .. count' |-> data'[Position(i - 1)']]
      OBVIOUS
    <3>3. ASSUME NEW i \in 1 .. count'
          PROVE  data'[Position(i - 1)'] = IF i = 1 THEN x ELSE recent[i - 1]
      <4>1. CASE i = 1
        <5>1. data'[Position(0)'] = x
          BY <2>4, PushData
        <5>2. i - 1 = 0
          BY <4>1
        <5>3. QED
          BY <4>1, <5>1, <5>2
      <4>2. CASE i # 1
        <5>1. i - 2 \in 0 .. Capacity - 2 /\ (i - 2) + 1 = i - 1
                /\ i - 1 \in 1 .. count /\ (i - 1) - 1 = i - 2
          BY <2>1, <3>1, <4>2
        <5>2. /\ Position((i - 2) + 1)' = Position(i - 2)
              /\ data'[Position(i - 2)] = data[Position(i - 2)]
          BY <2>4, <5>1, PushData
        <5>3. recent[i - 1] = data[Position(i - 2)]
          BY <5>1
        <5>4. QED
          BY <4>2, <5>1, <5>2, <5>3
      <4>3. QED
        BY <4>1, <4>2
    <3>4. Len(recent) = count /\ Contents!Kept = count'
      BY <2>1, <3>1 DEF Contents!Kept
    <3>5. QED
      BY <3>2, <3>3, <3>4, Zenon DEF Contents!Push
  <2>5. QED
    BY <2>2, <2>3, <2>4 DEF Next, Contents!Next
<1>3. QED
  BY <1>1, <1>2, RingTypeOK, RingStep, PTL
     DEF Spec, ImplementsRecent, Contents!Spec

(* A push writes over the oldest element of a full ring and over no other.     *)
THEOREM RingInPlace == Spec => InPlace
<1> DEFINE Stays == count' # 0 => \A index \in 0 .. count - 1 :
                        index + 1 < Capacity => Survives(index)
<1>1. TypeOK /\ TypeOK' /\ [Next]_vars => [Stays]_vars
  <2> SUFFICES ASSUME TypeOK, TypeOK', Next PROVE Stays
    OBVIOUS
  <2>1. Capacity \in Nat \ {0} /\ count \in 0 .. Capacity
    BY RingAssumption DEF RingAssumption, TypeOK
  <2>2. CASE ring_clear
    BY <2>2 DEF ring_clear
  <2>3. ASSUME NEW x \in Elements, ring_push(x) PROVE Stays
    <3>1. ASSUME NEW index \in 0 .. count - 1, index + 1 < Capacity
          PROVE  Survives(index)
      <4>1. index \in 0 .. Capacity - 2
        BY <2>1, <3>1
      <4>2. QED
        BY <2>3, <4>1, PushData DEF Survives
    <3>2. QED
      BY <3>1
  <2>4. QED
    BY <2>2, <2>3 DEF Next
<1>2. QED
  BY <1>1, RingTypeOK, RingStep, PTL DEF Spec, InPlace

-----------------------------------------------------------------------------
(* The least value of a number over the elements of a set. *)
LEMMA Least ==
    ASSUME NEW S, S # {}, NEW size \in [S -> Nat]
    PROVE  \E s \in S : \A t \in S : size[s] <= size[t]
<1> DEFINE sizes == {size[s] : s \in S}
<1>1. sizes \subseteq Nat /\ sizes # {}
  OBVIOUS
<1>2. \E n \in sizes : \A m \in sizes : ~(<<m, n>> \in OpToRel(<, Nat))
  <2> HIDE DEF sizes
  <2>1. QED
    BY <1>1, NatLessThanWellFounded, WFMin
<1>3. PICK n \in sizes : \A m \in sizes : ~(<<m, n>> \in OpToRel(<, Nat))
  BY <1>2
<1>4. \A m \in sizes : ~(m < n)
  <2> HIDE DEF sizes
  <2>1. ASSUME NEW m \in sizes, m < n PROVE FALSE
    <3>1. <<m, n>> \in OpToRel(<, Nat)
      BY <1>1, <2>1 DEF OpToRel
    <3>2. QED
      BY <1>3, <3>1
  <2>2. QED
    BY <2>1
<1>5. PICK s \in S : n = size[s]
  OBVIOUS
<1>6. \A t \in S : size[t] \in sizes /\ size[t] \in Nat /\ n \in Nat
  BY <1>5
<1> HIDE DEF sizes
<1>7. QED
  BY <1>4, <1>5, <1>6

-----------------------------------------------------------------------------
LEMMA Sizes ==
    /\ Capacity \in Nat /\ Capacity > 1 /\ Capacity % 2 = 1
    /\ Half \in Nat \ {0} /\ Capacity = 2 * Half + 1
    /\ ShapeX \in Nat \ {0} /\ ShapeY \in Nat \ {0}
    /\ ShapeX \div 2 \in Nat /\ ShapeY \div 2 \in Nat
    /\ Width \in Nat \ {0} /\ Height \in Nat \ {0} /\ Channels \in Nat \ {0}
    /\ MaxFrames \in Nat \ {0}
    /\ RowSize \in Nat \ {0} /\ RowSize = Width * Channels
    /\ Values \subseteq Int /\ Elements = Pictures
<1>1. /\ Capacity \in Nat /\ Capacity > 1 /\ Capacity % 2 = 1
      /\ ShapeX \in Nat /\ ShapeX % 2 = 1 /\ ShapeY \in Nat /\ ShapeY % 2 = 1
      /\ Width \in Nat \ {0} /\ Height \in Nat \ {0} /\ Channels \in Nat \ {0}
      /\ MaxFrames \in Nat \ {0} /\ Values \subseteq Int /\ Elements = Pictures
  BY FilterAssumption DEF FilterAssumption
<1>2. Capacity = 2 * (Capacity \div 2) + 1 /\ Capacity \div 2 \in Nat \ {0}
  BY <1>1
<1>3. /\ ShapeX # 0 /\ ShapeY # 0
      /\ ShapeX \div 2 \in Nat /\ ShapeY \div 2 \in Nat
  BY <1>1
<1>4. Width * Channels \in Nat \ {0}
  BY <1>1
<1>5. QED
  BY <1>1, <1>2, <1>3, <1>4 DEF Half, RowSize

LEMMA TapsFinite ==
    /\ IsFiniteSet(Taps) /\ Taps # {}
    /\ Cardinality(Taps) \in Nat \ {0}
    /\ Cardinality(Taps) \div 2 \in Nat /\ Cardinality(Taps) \div 2 < Cardinality(Taps)
<1>1. IsFiniteSet(Taps)
  <2> DEFINE zs == 0 .. Capacity - 1
             ys == 0 .. ShapeY - 1
             xs == 0 .. ShapeX - 1
  <2>1. IsFiniteSet(zs) /\ IsFiniteSet(ys) /\ IsFiniteSet(xs)
    BY Sizes, FS_Interval
  <2>2. Taps = zs \X ys \X xs
    BY DEF Taps
  <2> HIDE DEF zs, ys, xs
  <2> DEFINE pairs == zs \X ys
             place == [tap \in pairs \X xs |-> <<tap[1][1], tap[1][2], tap[2]>>]
  <2>3. IsFiniteSet(pairs \X xs)
    BY <2>1, FS_Product
  <2>4. place \in Surjection(pairs \X xs, Taps)
    <3>1. place \in [pairs \X xs -> Taps]
      BY <2>2
    <3>2. ASSUME NEW tap \in Taps PROVE \E t \in pairs \X xs : place[t] = tap
      <4>1. /\ tap[1] \in zs /\ tap[2] \in ys /\ tap[3] \in xs
            /\ tap = <<tap[1], tap[2], tap[3]>>
        BY <2>2
      <4>2. <<<<tap[1], tap[2]>>, tap[3]>> \in pairs \X xs
        BY <4>1
      <4>3. place[<<<<tap[1], tap[2]>>, tap[3]>>] = tap
        BY <4>1, <4>2
      <4>4. QED
        BY <4>2, <4>3
    <3> HIDE DEF place, pairs
    <3>3. QED
      BY <3>1, <3>2 DEF Surjection
  <2>5. QED
    BY <2>3, <2>4, FS_Surjection
<1>2. <<0, 0, 0>> \in Taps
  BY Sizes DEF Taps
<1>3. Cardinality(Taps) \in Nat \ {0}
  BY <1>1, <1>2, FS_CardinalityType, FS_EmptySet
<1>4. QED
  BY <1>1, <1>2, <1>3

(* The taps whose value is below v, and those whose value is v. *)
Below(buffer, v) == {tap \in Taps : buffer[tap] < v}
Same(buffer, v) == {tap \in Taps : buffer[tap] = v}
InMiddle(buffer, v) ==
    LET middle == Cardinality(Taps) \div 2
    IN  /\ Cardinality(Below(buffer, v)) <= middle
        /\ Cardinality(Below(buffer, v)) + Cardinality(Same(buffer, v)) > middle

LEMMA MedianInMiddle ==
    ASSUME NEW buffer
    PROVE  Median(buffer) = CHOOSE v \in {buffer[tap] : tap \in Taps} : InMiddle(buffer, v)
BY DEF Median, InMiddle, Below, Same

LEMMA TapCounts ==
    ASSUME NEW buffer, NEW v
    PROVE  /\ IsFiniteSet(Below(buffer, v)) /\ IsFiniteSet(Same(buffer, v))
           /\ Cardinality(Below(buffer, v)) \in Nat
           /\ Cardinality(Same(buffer, v)) \in Nat
<1>1. Below(buffer, v) \in SUBSET Taps /\ Same(buffer, v) \in SUBSET Taps
  BY DEF Below, Same
<1>2. QED
  BY <1>1, TapsFinite, FS_Subset, FS_CardinalityType

LEMMA FewerBelow ==
    ASSUME NEW buffer \in [Taps -> Int], NEW tap \in Taps, NEW v \in Int, buffer[tap] < v
    PROVE  /\ Cardinality(Below(buffer, buffer[tap])) + Cardinality(Same(buffer, buffer[tap]))
                 <= Cardinality(Below(buffer, v))
           /\ Cardinality(Same(buffer, buffer[tap])) >= 1
<1> DEFINE w == buffer[tap]
<1>1. w \in Int /\ tap \in Same(buffer, w)
  BY DEF Same
<1>2. Cardinality(Same(buffer, w)) >= 1
  BY <1>1, TapCounts, FS_EmptySet
<1>3. Below(buffer, w) \cup Same(buffer, w) \in SUBSET Below(buffer, v)
  BY <1>1 DEF Below, Same
<1>4. Below(buffer, w) \cap Same(buffer, w) = {}
  BY <1>1 DEF Below, Same
<1> HIDE DEF w
<1>5. Cardinality(Below(buffer, w) \cup Same(buffer, w))
        = Cardinality(Below(buffer, w)) + Cardinality(Same(buffer, w))
  <2>1. Cardinality(Below(buffer, w) \cap Same(buffer, w)) = 0
    BY <1>4, FS_EmptySet
  <2>2. Cardinality(Below(buffer, w) \cup Same(buffer, w))
          = Cardinality(Below(buffer, w)) + Cardinality(Same(buffer, w))
            - Cardinality(Below(buffer, w) \cap Same(buffer, w))
    BY TapCounts, FS_Union
  <2>3. QED
    BY <2>1, <2>2, TapCounts
<1>6. Cardinality(Below(buffer, w) \cup Same(buffer, w)) <= Cardinality(Below(buffer, v))
  BY <1>3, TapCounts, FS_Subset
<1>7. QED
  BY <1>2, <1>5, <1>6 DEF w

(* The middle of the sorted buffer is one of its values. *)
LEMMA MedianExists ==
    ASSUME NEW buffer \in [Taps -> Int]
    PROVE  Median(buffer) \in {buffer[tap] : tap \in Taps}
<1> DEFINE middle == Cardinality(Taps) \div 2
           below == [tap \in Taps |-> Cardinality(Below(buffer, buffer[tap]))]
           low == {tap \in Taps : below[tap] <= middle}
<1>1. below \in [Taps -> Nat] /\ middle \in Nat /\ middle < Cardinality(Taps)
  BY TapCounts, TapsFinite
<1>2. \A tap \in Taps : below[tap] = Cardinality(Below(buffer, buffer[tap]))
  OBVIOUS
<1> HIDE DEF below, middle
<1>3. low # {}
  <2>1. PICK tap \in Taps : \A t \in Taps : below[tap] <= below[t]
    BY <1>1, TapsFinite, Least
  <2>2. Below(buffer, buffer[tap]) = {}
    <3>1. ASSUME NEW t \in Below(buffer, buffer[tap]) PROVE FALSE
      <4>1. t \in Taps /\ buffer[t] < buffer[tap] /\ buffer[tap] \in Int
        BY <3>1 DEF Below
      <4>2. below[t] < below[tap]
        BY <1>2, <4>1, FewerBelow, TapCounts
      <4>3. QED
        BY <1>1, <2>1, <4>1, <4>2
    <3>2. QED
      BY <3>1
  <2>3. below[tap] = 0
    BY <1>2, <2>2, FS_EmptySet
  <2>4. QED
    BY <1>1, <2>3
(* The tap with most others below it among those that have not too many. *)
<1>4. PICK tap \in low : \A t \in low : below[t] <= below[tap]
  <2> DEFINE left == [t \in low |-> middle - below[t]]
  <2>1. left \in [low -> Nat]
    BY <1>1
  <2>2. \E s \in low : \A t \in low : left[s] <= left[t]
    <3> HIDE DEF left, low
    <3>1. QED
      BY <1>3, <2>1, Least
  <2>3. QED
    BY <1>1, <2>2
<1>5. /\ tap \in Taps /\ buffer[tap] \in Int /\ below[tap] <= middle
      /\ below[tap] = Cardinality(Below(buffer, buffer[tap]))
  BY <1>2, <1>4
<1>6. below[tap] + Cardinality(Same(buffer, buffer[tap])) > middle
  <2>1. SUFFICES ASSUME below[tap] + Cardinality(Same(buffer, buffer[tap])) <= middle
                 PROVE  FALSE
    BY <1>1, <1>5, TapCounts
  <2> DEFINE upto == Below(buffer, buffer[tap]) \cup Same(buffer, buffer[tap])
             above == Taps \ upto
  <2>2. upto \in SUBSET Taps
    BY DEF Below, Same
  <2>3. Cardinality(upto) <= middle
    <3>1. Cardinality(upto)
            = below[tap] + Cardinality(Same(buffer, buffer[tap]))
              - Cardinality(Below(buffer, buffer[tap]) \cap Same(buffer, buffer[tap]))
      BY <1>5, TapCounts, FS_Union
    <3>2. Below(buffer, buffer[tap]) \cap Same(buffer, buffer[tap]) = {}
      BY <1>5 DEF Below, Same
    <3>3. Cardinality(Below(buffer, buffer[tap]) \cap Same(buffer, buffer[tap])) = 0
      BY <3>2, FS_EmptySet
    <3> HIDE DEF upto
    <3>4. QED
      BY <1>1, <1>5, <2>1, <3>1, <3>3, TapCounts
  <2>4. above # {}
    <3> HIDE DEF upto
    <3>1. upto # Taps
      BY <1>1, <2>3, TapsFinite
    <3>2. QED
      BY <2>2, <3>1
  <2>5. \A t \in above : t \in Taps /\ buffer[t] \in Int /\ buffer[tap] < buffer[t]
    BY <1>5 DEF Below, Same
  <2>6. \A t \in Taps : buffer[tap] < buffer[t] => t \in above
    BY <1>5 DEF Below, Same
  <2>7. PICK next \in above : \A t \in above : below[next] <= below[t]
    <3> DEFINE size == [t \in above |-> below[t]]
    <3>1. size \in [above -> Nat]
      BY <1>1
    <3>2. \E s \in above : \A t \in above : size[s] <= size[t]
      <4> HIDE DEF size, above
      <4>1. QED
        BY <2>4, <3>1, Least
    <3>3. QED
      BY <3>2
  <2> HIDE DEF above
  <2>8. Below(buffer, buffer[next]) \in SUBSET upto
    <3>1. ASSUME NEW t \in Below(buffer, buffer[next]), t \notin upto PROVE FALSE
      <4>1. t \in above /\ buffer[t] < buffer[next]
        BY <3>1 DEF Below, above
      <4>2. below[t] < below[next]
        BY <1>2, <2>5, <2>7, <4>1, FewerBelow, TapCounts
      <4>3. QED
        BY <1>1, <2>5, <2>7, <4>1, <4>2
    <3>2. QED
      BY <3>1
  <2>9. below[next] <= middle
    <3> HIDE DEF upto
    <3>1. IsFiniteSet(upto) /\ Cardinality(upto) \in Nat
      BY <2>2, TapsFinite, FS_Subset, FS_CardinalityType
    <3>2. below[next] <= Cardinality(upto)
      BY <1>2, <2>5, <2>7, <2>8, <3>1, FS_Subset
    <3>3. QED
      BY <1>1, <2>3, <2>5, <2>7, <3>1, <3>2
  <2>10. below[tap] < below[next]
    BY <1>2, <1>5, <2>5, <2>7, FewerBelow, TapCounts
  <2>11. QED
    BY <1>1, <1>4, <1>5, <2>5, <2>7, <2>9, <2>10
<1>7. InMiddle(buffer, buffer[tap])
  BY <1>5, <1>6 DEF InMiddle, middle
<1>8. \E v \in {buffer[t] : t \in Taps} : InMiddle(buffer, v)
  BY <1>5, <1>7
<1>9. QED
  BY <1>8, MedianInMiddle, Zenon

(* The ring counts from the newest frame, the coordinates from the oldest: the  *)
(* median of the taps is the same in either order.                           *)
Mirror(tap) == <<Capacity - 1 - tap[1], tap[2], tap[3]>>

LEMMA MirrorTwice ==
    ASSUME NEW tap \in Taps
    PROVE  Mirror(tap) \in Taps /\ Mirror(Mirror(tap)) = tap
<1>1. /\ tap[1] \in 0 .. Capacity - 1 /\ tap[2] \in 0 .. ShapeY - 1
      /\ tap[3] \in 0 .. ShapeX - 1 /\ tap = <<tap[1], tap[2], tap[3]>>
  BY DEF Taps
<1>2. Capacity - 1 - tap[1] \in 0 .. Capacity - 1
      /\ Capacity - 1 - (Capacity - 1 - tap[1]) = tap[1]
  BY <1>1, Sizes
<1>3. QED
  BY <1>1, <1>2 DEF Taps, Mirror

LEMMA MirrorCounts ==
    ASSUME NEW S \in SUBSET Taps
    PROVE  Cardinality({tap \in Taps : Mirror(tap) \in S}) = Cardinality(S)
<1> DEFINE T == {tap \in Taps : Mirror(tap) \in S}
           turn == [tap \in S |-> Mirror(tap)]
<1>1. IsFiniteSet(S)
  BY TapsFinite, FS_Subset
<1>2. turn \in [S -> T]
  BY MirrorTwice
<1>3. ASSUME NEW s \in S, NEW t \in S, turn[s] = turn[t] PROVE s = t
  BY <1>3, MirrorTwice
<1>4. ASSUME NEW t \in T PROVE \E s \in S : turn[s] = t
  BY <1>4, MirrorTwice
<1> HIDE DEF T, turn
<1>5. turn \in Bijection(S, T)
  BY <1>2, <1>3, <1>4 DEF Bijection, Injection, Surjection, IsInjective
<1>6. Cardinality(T) = Cardinality(S)
  BY <1>1, <1>5, FS_Bijection DEF ExistsBijection
<1>7. QED
  BY <1>6 DEF T

LEMMA MedianMirrored ==
    ASSUME NEW b, NEW c, \A tap \in Taps : c[tap] = b[Mirror(tap)]
    PROVE  Median(c) = Median(b)
<1>1. {c[tap] : tap \in Taps} = {b[tap] : tap \in Taps}
  BY MirrorTwice
<1>2. ASSUME NEW v
      PROVE  /\ Cardinality(Below(c, v)) = Cardinality(Below(b, v))
             /\ Cardinality(Same(c, v)) = Cardinality(Same(b, v))
  <2>1. /\ Below(c, v) = {tap \in Taps : Mirror(tap) \in Below(b, v)}
        /\ Same(c, v) = {tap \in Taps : Mirror(tap) \in Same(b, v)}
    BY MirrorTwice DEF Below, Same
  <2>2. Below(b, v) \in SUBSET Taps /\ Same(b, v) \in SUBSET Taps
    BY DEF Below, Same
  <2>3. QED
    BY <2>1, <2>2, MirrorCounts
<1>3. \A v : InMiddle(c, v) <=> InMiddle(b, v)
  BY <1>2 DEF InMiddle
<1>4. QED
  BY <1>1, <1>3, MedianInMiddle, Zenon

-----------------------------------------------------------------------------
(* Nearest, Row and Pos. *)
LEMMA NearestIn ==
    ASSUME NEW i \in Int, NEW low \in Int, NEW high \in Int, low <= high
    PROVE  Nearest(i, low, high) \in low .. high
BY DEF Nearest

LEMMA Rows ==
    ASSUME NEW y \in 0 .. Height - 1, NEW k \in 0 .. ShapeY - 1
    PROVE  /\ Row(y, k) = Nearest(y + k - ShapeY \div 2, 0, Height - 1)
           /\ Row(y, k) \in 0 .. Height - 1
<1> PICK half \in Nat : half = ShapeY \div 2
  BY Sizes
<1>1. y - half + k = y + k - half /\ y + k - half \in Int
  BY Sizes
<1>2. Height \in Nat \ {0}
  BY Sizes
<1>3. QED
  BY <1>1, <1>2 DEF Row, Nearest

(* n times as far is as far in elements. *)
LEMMA Stretched ==
    ASSUME NEW X \in Int, NEW c \in 0 .. Channels - 1
    PROVE  /\ X * Channels + c \in Int
           /\ X * Channels + c < 0 <=> X < 0
           /\ X * Channels + c >= RowSize <=> X >= Width
<1>1. Channels \in Nat \ {0} /\ Width \in Nat \ {0} /\ RowSize = Width * Channels
  BY Sizes
<1>2. X * Channels \in Int
  BY <1>1
<1>3. X < 0 => X * Channels <= 0 - Channels
  BY <1>1
<1>4. X >= 0 => X * Channels >= 0
  BY <1>1
<1>5. X >= Width => X * Channels >= Width * Channels
  BY <1>1
<1>6. X < Width => X * Channels <= Width * Channels - Channels
  <2>1. ASSUME X < Width PROVE X * Channels <= (Width - 1) * Channels
    BY <1>1, <2>1
  <2>2. (Width - 1) * Channels = Width * Channels - Channels
    BY <1>1
  <2>3. QED
    BY <2>1, <2>2
<1>7. Width * Channels \in Nat
  BY <1>1
<1>8. QED
  BY <1>1, <1>2, <1>3, <1>4, <1>5, <1>6, <1>7

LEMMA Columns ==
    ASSUME NEW x \in 0 .. Width - 1, NEW c \in 0 .. Channels - 1, NEW j \in 0 .. ShapeX - 1
    PROVE  /\ Pos(x, c, j)
                = Nearest(x + j - ShapeX \div 2, 0, Width - 1) * Channels + c
           /\ Pos(x, c, j) \in 0 .. RowSize - 1
<1> PICK half \in Nat : half = ShapeX \div 2
  BY Sizes
<1> PICK X \in Int : X = x - half + j
  BY Sizes
<1>1. Channels \in Nat \ {0} /\ Width \in Nat \ {0} /\ RowSize = Width * Channels
  BY Sizes
<1>2. x + j - half = X
  BY <1>1
<1>3. Pos(x, c, j) = IF X < 0 THEN c ELSE IF X >= Width THEN RowSize - Channels + c
                     ELSE X * Channels + c
  BY <1>1, Stretched DEF Pos
<1>4. Nearest(X, 0, Width - 1) = IF X < 0 THEN 0 ELSE IF X >= Width THEN Width - 1 ELSE X
  BY <1>1 DEF Nearest
<1>5. (Width - 1) * Channels = RowSize - Channels /\ 0 * Channels = 0
  BY <1>1
<1>6. Pos(x, c, j) = Nearest(X, 0, Width - 1) * Channels + c
  BY <1>3, <1>4, <1>5, Sizes
<1>7. ASSUME NEW Z \in 0 .. Width - 1 PROVE Z * Channels + c \in 0 .. RowSize - 1
  <2>1. Z \in Int /\ ~(Z < 0) /\ ~(Z >= Width) /\ RowSize \in Nat
    BY <1>1
  <2>2. Z * Channels + c \in Int
    BY <2>1, Stretched
  <2>3. ~(Z * Channels + c < 0)
    BY <2>1, Stretched
  <2>4. ~(Z * Channels + c >= RowSize)
    BY <2>1, Stretched
  <2>5. QED
    BY <2>1, <2>2, <2>3, <2>4
<1>8. Nearest(X, 0, Width - 1) \in 0 .. Width - 1
  BY <1>1, <1>4
<1>9. QED
  BY <1>2, <1>6, <1>7, <1>8

LEMMA Cells ==
    ASSUME NEW row \in 0 .. Height - 1, NEW pos \in 0 .. RowSize - 1
    PROVE  row * RowSize + pos \in Positions
<1>1. RowSize \in Nat \ {0} /\ Height \in Nat \ {0}
  BY Sizes
<1>2. row * RowSize \in Nat /\ row * RowSize <= (Height - 1) * RowSize
  BY <1>1
<1>3. (Height - 1) * RowSize = Height * RowSize - RowSize /\ Height * RowSize \in Nat
  BY <1>1
<1>4. QED
  BY <1>1, <1>2, <1>3 DEF Positions

LEMMA Quotient ==
    ASSUME NEW n \in Nat, NEW k \in Nat \ {0}
    PROVE  n \div k \in Nat /\ n % k \in 0 .. k - 1 /\ n = (n \div k) * k + (n % k)
OBVIOUS

LEMMA Remainder ==
    ASSUME NEW k \in Nat \ {0}, NEW a \in Nat, NEW b \in 0 .. k - 1
    PROVE  (a * k + b) \div k = a /\ (a * k + b) % k = b
OBVIOUS

(* A position's row, column and channel. *)
LEMMA Coordinates ==
    ASSUME NEW i \in Positions
    PROVE  /\ i \div RowSize \in 0 .. Height - 1
           /\ (i % RowSize) \div Channels \in 0 .. Width - 1
           /\ i % Channels \in 0 .. Channels - 1
           /\ (i \div Channels) % Width = (i % RowSize) \div Channels
<1>1. /\ RowSize \in Nat \ {0} /\ RowSize = Width * Channels
      /\ Channels \in Nat \ {0} /\ Width \in Nat \ {0} /\ Height \in Nat \ {0}
  BY Sizes
<1>2. i \in Nat /\ i < Height * RowSize /\ Height * RowSize \in Nat
  BY <1>1 DEF Positions
<1> PICK a \in Nat : a = i \div RowSize
  BY <1>1, <1>2, Quotient
<1> PICK r \in 0 .. RowSize - 1 : r = i % RowSize
  BY <1>1, <1>2, Quotient
<1>3. i = a * RowSize + r
  BY <1>1, <1>2, Quotient
<1>4. a <= Height - 1
  BY <1>1, <1>2, <1>3
<1>11. r \in Nat
  BY <1>1
<1> PICK x \in Nat : x = r \div Channels
  BY <1>1, <1>11, Quotient
<1> PICK c \in 0 .. Channels - 1 : c = r % Channels
  BY <1>1, <1>11, Quotient
<1>5. r = x * Channels + c
  BY <1>1, <1>11, Quotient
<1>6. x \in 0 .. Width - 1
  <2>1. ~(x * Channels + c >= RowSize)
    BY <1>1, <1>5
  <2>2. ~(x >= Width)
    BY <2>1, Stretched
  <2>3. QED
    BY <1>1, <2>2
<1> PICK column \in Nat : column = a * Width + x
  BY <1>1
<1>7. i = column * Channels + c
  <2>1. column * Channels = (a * Width) * Channels + x * Channels
    BY <1>1
  <2>2. (a * Width) * Channels = a * RowSize
    BY <1>1
  <2>3. QED
    BY <1>1, <1>3, <1>5, <2>1, <2>2
<1>8. i \div Channels = column /\ i % Channels = c
  <2>1. /\ (column * Channels + c) \div Channels = column
        /\ (column * Channels + c) % Channels = c
    BY <1>1, Remainder
  <2>2. QED
    BY <1>7, <2>1, Zenon
<1>9. column % Width = x
  BY <1>1, <1>6, Remainder
<1>10. QED
  BY <1>1, <1>4, <1>6, <1>8, <1>9

-----------------------------------------------------------------------------
(* The inductive invariant: what is pushed before the first frame is filtered,  *)
(* what is pushed next, and which frames still hold what they held before the  *)
(* call.                                                                     *)
FramesAround(z) == \A i \in 0 .. count - 1 :
                       data[Position(i)] = before[Nearest(z + Half - i, 1, Len(before))]

Filling ==
    pc = "fill" => /\ Len(frames) >= Capacity
                   /\ before = frames
                   /\ filled < Capacity /\ count = filled
                   /\ FramesAround(filled - 2 * Half)

Filtering ==
    pc = "filter" =>
        /\ Len(frames) >= Capacity
        /\ count = Capacity
        /\ FramesAround(out_z + 1)
        /\ push_pos = Nearest(out_z + Half + 1, 1, Len(frames) - 1)
        /\ \A z \in 1 .. Len(frames) :
              frames[z] = IF z <= out_z THEN Smooth(z) ELSE before[z]

FilterInv == FilterTypeOK /\ Filling /\ Filtering

(* What a push does to the window when the frame pushed is the next one.        *)
LEMMA PushAround ==
    ASSUME TypeOK, NEW x \in Elements, ring_push(x), UNCHANGED before,
           NEW z \in Int, FramesAround(z),
           x = before[Nearest(z + 1 + Half, 1, Len(before))]
    PROVE  TypeOK' /\ FramesAround(z + 1)'
<1>1. TypeOK'
  BY RingStep DEF Next
<1>2. /\ Capacity \in Nat /\ Capacity > 1 /\ Half \in Nat
      /\ count \in 0 .. Capacity
      /\ count' = IF count < Capacity THEN count + 1 ELSE count
  BY Sizes DEF TypeOK, ring_push
<1>3. ASSUME NEW i \in 0 .. count' - 1
      PROVE  data'[Position(i)'] = before[Nearest(z + 1 + Half - i, 1, Len(before))]
  <2>1. CASE i = 0
    <3>1. data'[Position(0)'] = x
      BY <1>1, PushData
    <3>2. z + 1 + Half - i = z + 1 + Half
      BY <1>2, <2>1
    <3>3. QED
      BY <2>1, <3>1, <3>2
  <2>2. CASE i # 0
    <3> PICK j \in 0 .. Capacity - 2 : i = j + 1
      BY <1>2, <2>2
    <3>1. j \in 0 .. count - 1 /\ z + Half - j = z + 1 + Half - i
      BY <1>2
    <3>2. /\ Position(j + 1)' = Position(j)
          /\ data'[Position(j)] = data[Position(j)]
      BY <1>1, PushData
    <3>3. data[Position(j)] = before[Nearest(z + Half - j, 1, Len(before))]
      BY <3>1 DEF FramesAround
    <3>4. Position(i)' = Position(j + 1)'
      OBVIOUS
    <3>5. QED
      BY <3>1, <3>2, <3>3, <3>4
  <2>3. QED
    BY <2>1, <2>2
<1>4. QED
  BY <1>1, <1>3 DEF FramesAround

-----------------------------------------------------------------------------
(* A frame that is filtered is a picture, whatever the ring holds. *)
LEMMA FilteredPicture ==
    ASSUME TypeOK
    PROVE  Filtered \in Pictures
<1>1. data \in [0 .. Capacity - 1 -> Pictures]
  BY Sizes DEF TypeOK
<1>2. ASSUME NEW i \in Positions
      PROVE  Median(_load_buffer((i % RowSize) \div Channels, i \div RowSize,
                                 i % Channels)) \in Values
  <2> PICK x \in 0 .. Width - 1 : x = (i % RowSize) \div Channels
    BY Coordinates
  <2> PICK y \in 0 .. Height - 1 : y = i \div RowSize
    BY Coordinates
  <2> PICK c \in 0 .. Channels - 1 : c = i % Channels
    BY Coordinates
  <2> DEFINE buffer == _load_buffer(x, y, c)
  <2>1. ASSUME NEW tap \in Taps PROVE buffer[tap] \in Values
    <3>1. /\ tap[1] \in 0 .. Capacity - 1 /\ tap[2] \in 0 .. ShapeY - 1
          /\ tap[3] \in 0 .. ShapeX - 1
      BY DEF Taps
    <3>2. Row(y, tap[2]) * RowSize + Pos(x, c, tap[3]) \in Positions
      BY <3>1, Rows, Columns, Cells
    <3>3. data[Position(tap[1])] \in Pictures
      BY <1>1, <3>1, Found
    <3>4. buffer[tap] = data[Position(tap[1])][Row(y, tap[2]) * RowSize + Pos(x, c, tap[3])]
      BY DEF _load_buffer
    <3>5. QED
      BY <3>2, <3>3, <3>4 DEF Pictures
  <2>2. buffer \in [Taps -> Int]
    <3>1. buffer = [tap \in Taps |-> buffer[tap]]
      BY DEF _load_buffer
    <3> HIDE DEF buffer
    <3>2. QED
      BY <2>1, <3>1, Sizes
  <2> HIDE DEF buffer
  <2>3. Median(buffer) \in {buffer[tap] : tap \in Taps}
    BY <2>2, MedianExists
  <2>4. Median(buffer) \in Values
    BY <2>1, <2>3
  <2>5. QED
    BY <2>4 DEF buffer
<1>3. QED
  BY <1>2 DEF Filtered, Pictures

(* With the original frames around it in the ring, it is what they make. *)
LEMMA FilteredSmooth ==
    ASSUME TypeOK, count = Capacity, NEW z \in Int, FramesAround(z)
    PROVE  Filtered = Smooth(z)
<1>1. ASSUME NEW i \in Positions
      PROVE  Median(_load_buffer((i % RowSize) \div Channels, i \div RowSize, i % Channels))
              = Median([tap \in Taps |-> Neighbour(z, (i \div Channels) % Width,
                                                   i \div RowSize, i % Channels, tap)])
  <2> PICK x \in 0 .. Width - 1 : /\ x = (i % RowSize) \div Channels
                                  /\ x = (i \div Channels) % Width
    BY Coordinates
  <2> PICK y \in 0 .. Height - 1 : y = i \div RowSize
    BY Coordinates
  <2> PICK c \in 0 .. Channels - 1 : c = i % Channels
    BY Coordinates
  <2> DEFINE buffer == _load_buffer(x, y, c)
             around == [tap \in Taps |-> Neighbour(z, x, y, c, tap)]
  <2>1. ASSUME NEW tap \in Taps PROVE buffer[tap] = around[Mirror(tap)]
    <3>1. /\ tap[1] \in 0 .. Capacity - 1 /\ tap[2] \in 0 .. ShapeY - 1
          /\ tap[3] \in 0 .. ShapeX - 1
      BY DEF Taps
    <3>2. /\ Mirror(tap) \in Taps
          /\ Mirror(tap)[1] = Capacity - 1 - tap[1]
          /\ Mirror(tap)[2] = tap[2] /\ Mirror(tap)[3] = tap[3]
      BY MirrorTwice DEF Mirror
    <3>3. z + Mirror(tap)[1] - Half = z + Half - tap[1]
      BY <3>1, <3>2, Sizes
    <3>4. data[Position(tap[1])] = before[Nearest(z + Half - tap[1], 1, Len(before))]
      BY <3>1 DEF FramesAround
    <3>5. buffer[tap] = data[Position(tap[1])][Row(y, tap[2]) * RowSize + Pos(x, c, tap[3])]
      BY DEF _load_buffer
    <3>6. Row(y, tap[2]) = Nearest(y + tap[2] - ShapeY \div 2, 0, Height - 1)
      BY <3>1, Rows
    <3> PICK r \in Nat : r = Row(y, tap[2]) * RowSize
      BY <3>1, Rows, Sizes
    <3> PICK near \in 0 .. Width - 1 :
            near = Nearest(x + tap[3] - ShapeX \div 2, 0, Width - 1)
      BY <3>1, Sizes DEF Nearest
    <3> PICK n \in Nat : n = near * Channels
      BY Sizes
    <3>7. Pos(x, c, tap[3]) = n + c
      BY <3>1, Columns
    <3>8. r + n + c = r + (n + c)
      OBVIOUS
    <3>9. around[Mirror(tap)]
            = before[Nearest(z + Mirror(tap)[1] - Half, 1, Len(before))][r + n + c]
      BY <3>2, <3>6 DEF Neighbour
    <3>10. QED
      BY <3>3, <3>4, <3>5, <3>7, <3>8, <3>9
  <2> HIDE DEF buffer, around
  <2>2. Median(buffer) = Median(around)
    BY <2>1, MedianMirrored
  <2>3. QED
    BY <2>2 DEF buffer, around
<1>2. QED
  BY <1>1 DEF Filtered, Smooth

-----------------------------------------------------------------------------
LEMMA FrameTypes ==
    ASSUME FilterTypeOK
    PROVE  /\ frames \in Seq(Elements) /\ Len(frames) \in Nat
           /\ \A z \in 1 .. Len(frames) : frames[z] \in Elements
           /\ before \in Seq(Elements) /\ Len(before) \in Nat
BY Sizes DEF FilterTypeOK

(* The filter is a client of the ring: every step is a step of the ring or      *)
(* leaves it alone.                                                          *)
LEMMA FillPushes ==
    ASSUME FilterTypeOK, Filling, Fill
    PROVE  /\ frames[IF filled < Half THEN 1 ELSE filled - Half + 1] \in Elements
           /\ frames[IF filled < Half THEN 1 ELSE filled - Half + 1]
                = before[Nearest(filled - 2 * Half + 1 + Half, 1, Len(before))]
<1>1. /\ before = frames /\ filled \in Nat /\ filled < Capacity
      /\ Len(frames) \in Nat /\ Len(frames) >= Capacity
      /\ Capacity = 2 * Half + 1 /\ Half \in Nat \ {0}
  BY Sizes, FrameTypes DEF Fill, Filling, FilterTypeOK
<1> DEFINE next == IF filled < Half THEN 1 ELSE filled - Half + 1
<1>2. next \in 1 .. Len(frames)
  BY <1>1
<1>3. Nearest(filled - 2 * Half + 1 + Half, 1, Len(before)) = next
  BY <1>1 DEF Nearest
<1>4. QED
  BY <1>1, <1>2, <1>3, FrameTypes

LEMMA FilterPushes ==
    ASSUME FilterTypeOK, Filtering, FilterFrame
    PROVE  /\ Len(frames') = Len(frames) /\ frames' \in Seq(Elements)
           /\ frames'[push_pos + 1] \in Elements
           /\ \A z \in 1 .. Len(frames) :
                 frames'[z] = IF z <= out_z + 1 THEN Smooth(z) ELSE before[z]
           /\ More => frames'[push_pos + 1]
                        = before[Nearest(out_z + 1 + 1 + Half, 1, Len(before))]
<1>1. /\ Len(frames) \in Nat /\ Len(frames) >= Capacity /\ Len(before) = Len(frames)
      /\ Capacity = 2 * Half + 1 /\ Half \in Nat \ {0}
      /\ out_z \in Nat /\ out_z < Len(frames)
      /\ push_pos = Nearest(out_z + Half + 1, 1, Len(frames) - 1)
      /\ TypeOK /\ count = Capacity /\ FramesAround(out_z + 1)
  BY Sizes, FrameTypes DEF FilterFrame, Filtering, FilterTypeOK
<1>2. Filtered = Smooth(out_z + 1) /\ Filtered \in Elements
  BY <1>1, FilteredSmooth, FilteredPicture, Sizes
<1>3. frames' = [frames EXCEPT ![out_z + 1] = Filtered]
  BY DEF FilterFrame
<1>4. /\ Len(frames') = Len(frames) /\ frames' \in Seq(Elements)
      /\ \A z \in 1 .. Len(frames) :
            frames'[z] = IF z = out_z + 1 THEN Filtered ELSE frames[z]
  BY <1>1, <1>2, <1>3, FrameTypes
<1>5. ASSUME NEW z \in 1 .. Len(frames)
      PROVE  frames'[z] = IF z <= out_z + 1 THEN Smooth(z) ELSE before[z]
  <2>1. frames[z] = IF z <= out_z THEN Smooth(z) ELSE before[z]
    BY DEF Filtering, FilterFrame
  <2>2. frames'[z] = IF z = out_z + 1 THEN Smooth(out_z + 1) ELSE frames[z]
    BY <1>2, <1>4
  <2>3. QED
    BY <1>1, <2>1, <2>2
<1>6. push_pos + 1 \in 1 .. Len(frames)
  BY <1>1 DEF Nearest
<1>7. frames'[push_pos + 1] \in Elements
  BY <1>4, <1>6
<1>8. ASSUME More
      PROVE  frames'[push_pos + 1] = before[Nearest(out_z + 1 + 1 + Half, 1, Len(before))]
  <2>1. /\ push_pos + 1 > out_z + 1
        /\ push_pos + 1 = Nearest(out_z + 1 + 1 + Half, 1, Len(before))
    BY <1>1, <1>8 DEF More, Nearest
  <2>2. frames'[push_pos + 1] = before[push_pos + 1]
    BY <1>1, <1>5, <1>6, <2>1
  <2>3. QED
    BY <2>1, <2>2
<1>9. QED
  BY <1>4, <1>5, <1>7, <1>8

LEMMA FilterTypeStep ==
    ASSUME FilterInv, [FilterNext]_filterVars
    PROVE  FilterTypeOK' /\ [Next]_vars
<1>1. /\ FilterTypeOK /\ Filling /\ Filtering /\ TypeOK
      /\ frames \in Seq(Pictures) /\ Len(frames) \in Nat /\ Len(frames) <= MaxFrames
      /\ before \in Seq(Pictures) /\ MaxFrames \in Nat \ {0} /\ Elements = Pictures
      /\ Capacity = 2 * Half + 1 /\ Half \in Nat \ {0}
  BY FrameTypes, Sizes DEF FilterInv, FilterTypeOK
<1>2. ASSUME NEW picture \in Inputs, median_filter_append(picture)
      PROVE  FilterTypeOK' /\ [Next]_vars
  <2>1. picture \in Pictures
    BY FilterAssumption DEF FilterAssumption
  <2>2. frames' \in Seq(Pictures) /\ Len(frames') = Len(frames) + 1
    BY <1>1, <1>2, <2>1 DEF median_filter_append
  <2>3. UNCHANGED vars
    BY <1>2 DEF median_filter_append, vars
  <2>4. TypeOK'
    BY <1>1, <2>3, RingStep
  <2>5. QED
    BY <1>1, <1>2, <2>2, <2>3, <2>4 DEF median_filter_append, FilterTypeOK
<1>3. ASSUME median_filter_clear PROVE FilterTypeOK' /\ [Next]_vars
  <2>1. ring_clear /\ frames' = <<>> /\ before' = <<>> /\ pc' = pc /\ pc = "idle"
    BY <1>3 DEF median_filter_clear
  <2>2. Next
    BY <2>1 DEF Next
  <2>3. TypeOK'
    BY <1>1, <2>2, RingStep
  <2>4. QED
    BY <1>1, <1>3, <2>1, <2>2, <2>3 DEF median_filter_clear, FilterTypeOK
<1>4. ASSUME Apply PROVE FilterTypeOK' /\ [Next]_vars
  <2>1. ring_clear /\ before' = frames /\ frames' = frames /\ pc' = "fill"
    BY <1>4 DEF Apply
  <2>2. Next
    BY <2>1 DEF Next
  <2>3. TypeOK'
    BY <1>1, <2>2, RingStep
  <2>4. QED
    BY <1>1, <1>4, <2>1, <2>2, <2>3 DEF Apply, FilterTypeOK
<1>5. ASSUME Fill PROVE FilterTypeOK' /\ [Next]_vars
  <2>1. \E x \in Elements : ring_push(x)
    BY <1>1, <1>5, FillPushes DEF Fill
  <2>2. TypeOK' /\ Next
    BY <1>1, <2>1, RingStep DEF Next
  <2>3. /\ frames' = frames /\ before' = before /\ pc = "fill"
        /\ pc' = IF filled' = Capacity THEN "filter" ELSE "fill"
        /\ filled' = filled + 1 /\ out_z' = 0 /\ push_pos' = Half + 1
    BY <1>5 DEF Fill, NextToPush
  <2>4. filled \in 0 .. Capacity /\ filled < Capacity /\ Len(frames) >= Capacity
    BY <1>1, <2>3 DEF Filling, FilterTypeOK
  <2>5. QED
    BY <1>1, <2>2, <2>3, <2>4 DEF FilterTypeOK
<1>6. ASSUME FilterFrame PROVE FilterTypeOK' /\ [Next]_vars
  <2>1. \E x \in Elements : ring_push(x)
    BY <1>1, <1>6, FilterPushes DEF FilterFrame
  <2>2. TypeOK' /\ Next
    BY <1>1, <2>1, RingStep DEF Next
  <2>3. frames' \in Seq(Pictures) /\ Len(frames') = Len(frames)
    BY <1>1, <1>6, FilterPushes
  <2>4. /\ before' = before /\ filled' = filled /\ pc = "filter"
        /\ out_z' = out_z + 1 /\ pc' = IF More THEN "filter" ELSE "idle"
        /\ push_pos' = IF push_pos + 1 >= Len(frames') THEN Len(frames') - 1
                       ELSE push_pos + 1
    BY <1>6, <2>3 DEF FilterFrame, Advanced
  <2>5. /\ out_z \in 0 .. MaxFrames /\ push_pos \in 0 .. MaxFrames - 1
        /\ out_z < Len(frames) /\ push_pos < Len(frames)
    BY <1>1, <2>4 DEF FilterTypeOK
  <2>6. /\ out_z' \in 0 .. MaxFrames /\ push_pos' \in 0 .. MaxFrames - 1
        /\ push_pos' < Len(frames')
        /\ pc' = "filter" => out_z' < Len(frames')
    BY <1>1, <2>3, <2>4, <2>5 DEF More
  <2>7. QED
    BY <1>1, <2>2, <2>3, <2>4, <2>6 DEF FilterTypeOK
<1>7. ASSUME UNCHANGED filterVars PROVE FilterTypeOK' /\ [Next]_vars
  <2>1. UNCHANGED vars
    BY <1>7 DEF filterVars, vars
  <2>2. TypeOK'
    BY <1>1, <2>1, RingStep
  <2>3. QED
    BY <1>1, <1>7, <2>1, <2>2 DEF filterVars, FilterTypeOK
<1>8. QED
  BY <1>2, <1>3, <1>4, <1>5, <1>6, <1>7 DEF FilterNext

LEMMA FilterInvInit == FilterInit => FilterInv /\ Init
<1> SUFFICES ASSUME FilterInit PROVE FilterInv /\ Init
  OBVIOUS
<1>1. Init
  BY FilterAssumption DEF FilterAssumption, FilterInit, Init
<1>2. TypeOK
  BY <1>1, Sizes DEF Init, TypeOK
<1>3. frames \in Seq(Pictures) /\ Len(frames) = 0 /\ before \in Seq(Pictures)
  BY DEF FilterInit
<1>4. FilterTypeOK
  BY <1>2, <1>3, Sizes DEF FilterInit, FilterTypeOK
<1>5. QED
  BY <1>1, <1>4 DEF FilterInit, FilterInv, Filling, Filtering

LEMMA FilterStep == FilterInv /\ [FilterNext]_filterVars => FilterInv'
<1> SUFFICES ASSUME FilterInv, [FilterNext]_filterVars PROVE FilterInv'
  OBVIOUS
<1>1. /\ FilterTypeOK /\ Filling /\ Filtering /\ TypeOK /\ FilterTypeOK'
      /\ Len(frames) \in Nat /\ Capacity = 2 * Half + 1 /\ Half \in Nat \ {0}
  BY FilterTypeStep, FrameTypes, Sizes DEF FilterInv, FilterTypeOK
<1>2. ASSUME NEW picture \in Inputs, median_filter_append(picture)
      PROVE  Filling' /\ Filtering'
  BY <1>2 DEF median_filter_append, Filling, Filtering
<1>3. ASSUME median_filter_clear PROVE Filling' /\ Filtering'
  BY <1>3 DEF median_filter_clear, Filling, Filtering
<1>4. ASSUME Apply PROVE Filling' /\ Filtering'
  <2>1. /\ pc' = "fill" /\ frames' = frames /\ before' = frames
        /\ filled' = 0 /\ count' = 0 /\ Len(frames) >= Capacity
    BY <1>4 DEF Apply, ring_clear
  <2>2. \A z \in Int : FramesAround(z)'
    BY <2>1 DEF FramesAround
  <2>3. PICK z \in Int : z = filled' - 2 * Half
    BY <1>1, <2>1
  <2>4. FramesAround(filled - 2 * Half)'
    BY <2>2, <2>3
  <2>5. QED
    BY <1>1, <2>1, <2>4 DEF Filling, Filtering
<1>5. ASSUME Fill PROVE Filling' /\ Filtering'
  <2> DEFINE x == frames[IF filled < Half THEN 1 ELSE filled - Half + 1]
  <2>1. /\ pc = "fill" /\ ring_push(x) /\ filled' = filled + 1
        /\ pc' = IF filled' = Capacity THEN "filter" ELSE "fill"
        /\ out_z' = 0 /\ push_pos' = Half + 1 /\ UNCHANGED <<frames, before>>
    BY <1>5 DEF Fill, NextToPush
  <2>2. x \in Elements
    BY <1>1, <1>5, FillPushes
  <2>3. x = before[Nearest(filled - 2 * Half + 1 + Half, 1, Len(before))]
    BY <1>1, <1>5, FillPushes
  <2> HIDE DEF x
  <2>4. /\ before = frames /\ filled \in Nat /\ filled < Capacity /\ count = filled
        /\ Len(frames) >= Capacity /\ FramesAround(filled - 2 * Half)
    BY <1>1, <2>1 DEF Filling, FilterTypeOK
  <2>5. PICK z \in Int : z = filled - 2 * Half
    BY <1>1, <2>4
  <2>6. FramesAround(z + 1)'
    BY <1>1, <2>1, <2>2, <2>3, <2>4, <2>5, PushAround
  <2>7. count' = filled'
    BY <2>1, <2>4 DEF ring_push
  <2>8. Filling'
    <3>1. z + 1 = filled' - 2 * Half
      BY <1>1, <2>1, <2>4, <2>5
    <3>2. FramesAround(filled - 2 * Half)'
      BY <2>6, <3>1
    <3>3. pc' = "fill" => filled' < Capacity
      BY <1>1, <2>1, <2>4
    <3>4. QED
      BY <2>1, <2>4, <2>7, <3>2, <3>3 DEF Filling
  <2>9. ASSUME pc' = "filter" PROVE Filtering'
    <3>1. filled' = Capacity
      BY <2>1, <2>9
    <3>2. z + 1 = out_z' + 1
      BY <1>1, <2>1, <2>4, <2>5, <3>1
    <3>3. FramesAround(out_z + 1)'
      BY <2>6, <3>2
    <3>4. push_pos' = Nearest(out_z' + Half + 1, 1, Len(frames') - 1)
      BY <1>1, <2>1, <2>4 DEF Nearest
    <3>5. \A t \in 1 .. Len(frames') :
             frames'[t] = IF t <= out_z' THEN Smooth(t)' ELSE before'[t]
      BY <1>1, <2>1, <2>4
    <3>6. QED
      BY <2>1, <2>4, <2>7, <3>1, <3>3, <3>4, <3>5 DEF Filtering
  <2>10. QED
    BY <2>8, <2>9 DEF Filtering
<1>6. ASSUME FilterFrame PROVE Filling' /\ Filtering'
  <2> DEFINE x == frames'[push_pos + 1]
  <2>1. /\ pc = "filter" /\ ring_push(x) /\ before' = before /\ filled' = filled
        /\ out_z' = out_z + 1 /\ pc' = IF More THEN "filter" ELSE "idle"
        /\ push_pos' = Advanced
    BY <1>6 DEF FilterFrame
  <2>2. /\ Len(frames') = Len(frames) /\ x \in Elements
        /\ \A z \in 1 .. Len(frames) :
              frames'[z] = IF z <= out_z + 1 THEN Smooth(z) ELSE before[z]
    BY <1>1, <1>6, FilterPushes
  <2>3. More => x = before[Nearest(out_z + 1 + 1 + Half, 1, Len(before))]
    BY <1>1, <1>6, FilterPushes
  <2>4. /\ Len(frames) >= Capacity /\ count = Capacity /\ FramesAround(out_z + 1)
        /\ push_pos = Nearest(out_z + Half + 1, 1, Len(frames) - 1)
        /\ out_z \in Nat
    BY <1>1, <2>1 DEF Filtering, FilterTypeOK
  <2> HIDE DEF x
  <2>5. ASSUME pc' = "filter" PROVE Filtering'
    <3>1. More
      BY <2>1, <2>5
    <3>2. PICK z \in Int : z = out_z + 1
      BY <2>4
    <3>3. FramesAround(z + 1)'
      BY <1>1, <2>1, <2>2, <2>3, <2>4, <3>1, <3>2, PushAround
    <3>4. FramesAround(out_z + 1)'
      BY <2>1, <3>2, <3>3
    <3>5. count' = Capacity
      BY <2>1, <2>4, <1>1 DEF ring_push
    <3>6. push_pos' = Nearest(out_z' + Half + 1, 1, Len(frames') - 1)
      <4>1. push_pos' = IF push_pos + 1 >= Len(frames) THEN Len(frames) - 1
                        ELSE push_pos + 1
        BY <1>6, <2>1, <2>2 DEF Advanced
      <4>2. QED
        BY <1>1, <2>1, <2>2, <2>4, <4>1 DEF Nearest
    <3>7. \A t \in 1 .. Len(frames') :
             frames'[t] = IF t <= out_z' THEN Smooth(t)' ELSE before'[t]
      <4>1. ASSUME NEW t PROVE Smooth(t)' = Smooth(t)
        BY <2>1 DEF Smooth, Neighbour
      <4>2. QED
        BY <2>1, <2>2, <4>1
    <3>8. QED
      BY <2>2, <2>4, <3>4, <3>5, <3>6, <3>7 DEF Filtering
  <2>6. QED
    BY <2>1, <2>5 DEF Filling, Filtering
<1>7. ASSUME UNCHANGED filterVars PROVE Filling' /\ Filtering'
  <2>1. /\ data' = data /\ count' = count /\ head' = head /\ frames' = frames
        /\ pc' = pc /\ filled' = filled /\ out_z' = out_z
        /\ push_pos' = push_pos /\ before' = before
    BY <1>7 DEF filterVars
  <2>2. Filling'
    BY <1>1, <2>1, Zenon DEF Filling, FramesAround, Position
  <2>3. Filtering'
    BY <1>1, <2>1, Zenon DEF Filtering, FramesAround, Position, Smooth, Neighbour
  <2>4. QED
    BY <2>2, <2>3
<1>8. QED
  BY <1>1, <1>2, <1>3, <1>4, <1>5, <1>6, <1>7 DEF FilterNext, FilterInv

(* While the filter fills its window and writes its results, the ring holds    *)
(* the original frames it still needs (median_filter.c:306-337).              *)
THEOREM FilterInductive == FilterSpec => []FilterInv
<1>1. FilterInit => FilterInv
  BY FilterInvInit
<1>2. QED
  BY <1>1, FilterStep, PTL DEF FilterSpec

(* The frames that are filtered and pushed were appended, and every frame that  *)
(* results is a picture: the median of the values around is one of them.      *)
THEOREM FilterStaysTyped == FilterSpec => []FilterTypeOK
<1>1. FilterInv => FilterTypeOK
  BY DEF FilterInv
<1>2. QED
  BY <1>1, FilterInductive, PTL

(* The filter uses the ring as Ring allows, so that what is said of every       *)
(* behaviour of a ring holds of the filter's.                                *)
THEOREM FilterUsesRing == FilterSpec => Spec
<1>1. FilterInit => Init
  BY FilterInvInit
<1>2. FilterInv /\ [FilterNext]_filterVars => [Next]_vars
  BY FilterTypeStep
<1>3. QED
  BY <1>1, <1>2, FilterInductive, PTL DEF FilterSpec, Spec

(* In the filter, too, ring_element(i) is the i-th most recent frame.          *)
THEOREM FilterImplementsRecent == FilterSpec => ImplementsRecent
BY FilterUsesRing, RingImplementsRecent, PTL

(* In the filter, too, a push writes over the oldest frame of its ring only.   *)
THEOREM FilterInPlace == FilterSpec => InPlace
BY FilterUsesRing, RingInPlace, PTL

(* Whenever a frame is about to be filtered the ring holds the original frames  *)
(* around it, although the ones before it have been overwritten.             *)
THEOREM FilterWindowOriginal == FilterSpec => []WindowOriginal
<1>1. FilterInv => WindowOriginal
  BY Sizes DEF FilterInv, Filtering, FramesAround, WindowOriginal
<1>2. QED
  BY <1>1, FilterInductive, PTL

(* When the call returns, every frame is what the filter makes of the original  *)
(* frames, for every number of frames, shape and size of the picture.         *)
THEOREM FilterReturnsFiltered == FilterSpec => ReturnsFiltered
<1> DEFINE Returned == pc = "filter" /\ pc' = "idle" =>
                          \A z \in 1 .. Len(frames) : frames'[z] = Smooth(z)
<1>1. FilterInv /\ [FilterNext]_filterVars => [Returned]_filterVars
  <2> SUFFICES ASSUME FilterInv, FilterNext, pc = "filter", pc' = "idle",
                      NEW z \in 1 .. Len(frames)
               PROVE  frames'[z] = Smooth(z)
    OBVIOUS
  <2>1. FilterFrame
    BY DEF FilterNext, median_filter_append, median_filter_clear, Apply, Fill
  <2>2. /\ FilterTypeOK /\ Filtering /\ Len(frames) \in Nat
    BY FrameTypes DEF FilterInv
  <2>3. ~More
    BY <2>1 DEF FilterFrame
  <2>4. z <= out_z + 1
    BY <2>2, <2>3 DEF More, FilterTypeOK
  <2>5. QED
    BY <2>1, <2>2, <2>4, FilterPushes
<1>2. QED
  BY <1>1, FilterInductive, PTL DEF FilterSpec, ReturnsFiltered
=============================================================================
