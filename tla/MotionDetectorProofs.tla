------------------------ MODULE MotionDetectorProofs ------------------------
(***************************************************************************)
(* Theorems about MotionDetector, for pictures and words of any size and any  *)
(* cutoffs: the words of bits that are used in turn measure what             *)
(* FrameDifference says, and what does not move is not valid.                *)
(***************************************************************************)
EXTENDS MotionDetector, FiniteSetTheorems, TLAPS

-----------------------------------------------------------------------------
(* Words and bits.  Every pixel has a bit of its own. *)
LEMMA Words ==
    /\ PixelCount \in Nat \ {0} /\ WordBits \in Nat \ {0}
    /\ MaskLength \in Nat \ {0}
    /\ \A p \in Pixels : /\ p \in Nat
                         /\ p \div WordBits \in 0 .. MaskLength - 1
                         /\ p % WordBits \in 0 .. WordBits - 1
                         /\ (p \div WordBits) * WordBits + (p % WordBits) = p
<1>1. PixelCount \in Nat \ {0} /\ WordBits \in Nat \ {0}
  BY DetectorAssumption DEF DetectorAssumption
<1>2. PixelCount \div WordBits \in Nat
  BY <1>1
<1>3. ASSUME NEW p \in Pixels
      PROVE  /\ p \in Nat /\ p < PixelCount
             /\ p \div WordBits \in Nat /\ p \div WordBits <= PixelCount \div WordBits
             /\ p % WordBits \in 0 .. WordBits - 1
             /\ (p \div WordBits) * WordBits + (p % WordBits) = p
  BY <1>1 DEF Pixels
<1>4. QED
  BY <1>1, <1>2, <1>3 DEF MaskLength

(* What the assumption says of the limits and of NoFrame. *)
LEMMA Limits == /\ MinMotion \in (Nat \ {0}) \X (Nat \ {0})
                /\ MinPresence \in (Nat \ {0}) \X (Nat \ {0})
                /\ \A S \in SUBSET Pixels : S # NoFrame
                /\ \A frame \in [Pixels -> Depths] \X Cutoffs : frame # NoFrame
<1> USE DEF DetectorAssumption
<1>1. MinMotion \in (Nat \ {0}) \X (Nat \ {0})
  BY DetectorAssumption
<1>2. MinPresence \in (Nat \ {0}) \X (Nat \ {0})
  BY DetectorAssumption
<1>3. \A S \in SUBSET Pixels : S # NoFrame
  BY DetectorAssumption, SMTT(30)
<1>4. \A frame \in [Pixels -> Depths] \X Cutoffs : frame # NoFrame
  BY DetectorAssumption, SMTT(30)
<1>5. QED
  BY <1>1, <1>2, <1>3, <1>4, Zenon

LEMMA BitOfPixel ==
    ASSUME NEW i \in Nat, NEW b \in 0 .. WordBits - 1
    PROVE  (i * WordBits + b) \div WordBits = i /\ (i * WordBits + b) % WordBits = b
BY Words

(* The pixels whose bits are set. *)
SetPixels(mask) == {p \in Pixels : p % WordBits \in mask[p \div WordBits]}

(* No bit is set behind the last pixel. *)
Used(mask) == \A i \in 0 .. MaskLength - 1, b \in 0 .. WordBits - 1 :
                  b \in mask[i] => i * WordBits + b \in Pixels

(* Adding up the bits of the words counts the pixels. *)
LEMMA BitsArePixels ==
    ASSUME NEW mask \in Masks, Used(mask)
    PROVE  BitCount(mask) = Cardinality(SetPixels(mask))
<1> DEFINE Bits == {bit \in (0 .. MaskLength - 1) \X (0 .. WordBits - 1) :
                        bit[2] \in mask[bit[1]]}
           place == [p \in SetPixels(mask) |-> <<p \div WordBits, p % WordBits>>]
<1>1. \A p \in SetPixels(mask) : place[p] \in Bits
  BY Words DEF SetPixels
<1>2. ASSUME NEW p \in SetPixels(mask), NEW q \in SetPixels(mask), place[p] = place[q]
      PROVE  p = q
  <2>1. /\ p \in Pixels /\ q \in Pixels
        /\ p \div WordBits = q \div WordBits /\ p % WordBits = q % WordBits
    BY <1>2 DEF SetPixels
  <2>2. /\ (p \div WordBits) * WordBits + (p % WordBits) = p
        /\ (q \div WordBits) * WordBits + (q % WordBits) = q
    BY <2>1, Words
  <2>3. QED
    BY <2>1, <2>2
<1>3. ASSUME NEW bit \in Bits
      PROVE  \E p \in SetPixels(mask) : place[p] = bit
  <2>1. /\ bit[1] \in 0 .. MaskLength - 1 /\ bit[2] \in 0 .. WordBits - 1
        /\ bit[2] \in mask[bit[1]] /\ bit = <<bit[1], bit[2]>>
    OBVIOUS
  <2> DEFINE p == bit[1] * WordBits + bit[2]
  <2>2. p \in Pixels
    BY <2>1 DEF Used
  <2>3. p \div WordBits = bit[1] /\ p % WordBits = bit[2]
    <3>1. bit[1] \in Nat
      BY <2>1, Words
    <3>2. QED
      BY <2>1, <3>1, BitOfPixel
  <2> HIDE DEF p
  <2>4. p \in SetPixels(mask)
    BY <2>1, <2>2, <2>3 DEF SetPixels
  <2>5. place[p] = bit
    BY <2>1, <2>3, <2>4
  <2>6. QED
    BY <2>4, <2>5
<1>4. IsFiniteSet(SetPixels(mask))
  <2>1. IsFiniteSet(Pixels)
    BY Words, FS_Interval DEF Pixels
  <2>2. SetPixels(mask) \in SUBSET Pixels
    BY DEF SetPixels
  <2>3. QED
    BY <2>1, <2>2, FS_Subset
<1>5. ExistsBijection(SetPixels(mask), Bits)
  <2> HIDE DEF Bits
  <2>1. place \in [SetPixels(mask) -> Bits]
    BY <1>1
  <2> HIDE DEF place
  <2>2. place \in Bijection(SetPixels(mask), Bits)
    BY <1>2, <1>3, <2>1
       DEF Bijection, Injection, Surjection, IsInjective
  <2>3. QED
    BY <2>2 DEF ExistsBijection
<1>6. Cardinality(Bits) = Cardinality(SetPixels(mask))
  <2> HIDE DEF Bits
  <2>1. QED
    BY <1>4, <1>5, FS_Bijection
<1>7. QED
  BY <1>6 DEF BitCount

-----------------------------------------------------------------------------
(* What a new mask holds. *)
LEMMA MaskOfFrame ==
    ASSUME NEW depth \in [Pixels -> Depths], NEW cutoff \in Cutoffs
    PROVE  /\ Mask(depth, cutoff) \in Masks
           /\ Used(Mask(depth, cutoff))
           /\ SetPixels(Mask(depth, cutoff)) = {p \in Pixels : Marked(depth[p], cutoff)}
<1> DEFINE m == Mask(depth, cutoff)
           In(i) == {q \in Pixels : q \div WordBits = i /\ Marked(depth[q], cutoff)}
<1>1. m = [i \in 0 .. MaskLength - 1 |-> {p % WordBits : p \in In(i)}]
  BY DEF Mask
<1> HIDE DEF m
<1>2. m \in Masks
  <2>1. ASSUME NEW i \in 0 .. MaskLength - 1
        PROVE  {p % WordBits : p \in In(i)} \in SUBSET (0 .. WordBits - 1)
    BY Words
  <2>2. QED
    BY <1>1, <2>1 DEF Masks
<1>3. ASSUME NEW i \in 0 .. MaskLength - 1, NEW b \in m[i]
      PROVE  /\ i * WordBits + b \in Pixels
             /\ Marked(depth[i * WordBits + b], cutoff)
  <2>1. b \in {p % WordBits : p \in In(i)}
    BY <1>1
  <2>2. PICK p \in In(i) : b = p % WordBits
    BY <2>1
  <2>3. /\ p \in Pixels /\ p \div WordBits = i /\ Marked(depth[p], cutoff)
        /\ (p \div WordBits) * WordBits + (p % WordBits) = p
    BY <2>2, Words
  <2>4. i * WordBits + b = p
    BY <2>2, <2>3
  <2>5. QED
    BY <2>3, <2>4
<1>4. Used(m)
  BY <1>3 DEF Used
<1>5. ASSUME NEW p \in Pixels
      PROVE  p % WordBits \in m[p \div WordBits] <=> Marked(depth[p], cutoff)
  <2>1. /\ p \div WordBits \in 0 .. MaskLength - 1
        /\ (p \div WordBits) * WordBits + (p % WordBits) = p
    BY Words
  <2>2. ASSUME p % WordBits \in m[p \div WordBits] PROVE Marked(depth[p], cutoff)
    <3>1. Marked(depth[(p \div WordBits) * WordBits + (p % WordBits)], cutoff)
      BY <2>1, <2>2, <1>3
    <3>2. QED
      BY <3>1, <2>1
  <2>3. ASSUME Marked(depth[p], cutoff) PROVE p % WordBits \in m[p \div WordBits]
    <3>1. p \in In(p \div WordBits)
      BY <2>3
    <3>2. QED
      BY <1>1, <2>1, <3>1
  <2>4. QED
    BY <2>2, <2>3
<1>6. SetPixels(m) = {p \in Pixels : Marked(depth[p], cutoff)}
  BY <1>5 DEF SetPixels
<1>7. QED
  BY <1>2, <1>4, <1>6 DEF m

(* Xor of two masks has the bits of the pixels that are in one of them only. *)
LEMMA XorOfMasks ==
    ASSUME NEW m \in Masks, NEW n \in Masks, Used(m), Used(n)
    PROVE  BitCount(Xor(m, n)) =
             Cardinality((SetPixels(m) \ SetPixels(n)) \cup (SetPixels(n) \ SetPixels(m)))
<1> DEFINE x == Xor(m, n)
<1>1. \A i \in 0 .. MaskLength - 1 : x[i] = (m[i] \ n[i]) \cup (n[i] \ m[i])
  BY DEF Xor
<1>2. x \in Masks
  BY DEF Xor, Masks
<1> HIDE DEF x
<1>3. Used(x)
  BY <1>1 DEF Used
<1>4. \A p \in Pixels : p \div WordBits \in 0 .. MaskLength - 1
  BY Words
<1>5. SetPixels(x) = (SetPixels(m) \ SetPixels(n)) \cup (SetPixels(n) \ SetPixels(m))
  BY <1>1, <1>4 DEF SetPixels
<1>6. QED
  BY <1>2, <1>3, <1>5, BitsArePixels DEF x

LEMMA XorWithItself ==
    ASSUME NEW m \in Masks, Used(m)
    PROVE  BitCount(Xor(m, m)) = 0
BY XorOfMasks, FS_EmptySet

-----------------------------------------------------------------------------
LEMMA Counts ==
    ASSUME NEW S \in SUBSET Pixels
    PROVE  Cardinality(S) \in 0 .. PixelCount
<1>1. IsFiniteSet(Pixels) /\ Cardinality(Pixels) = PixelCount
  BY Words, FS_Interval DEF Pixels
<1>2. QED
  BY <1>1, Words, FS_Subset, FS_CardinalityType

LEMMA ValidPixels ==
    ASSUME NEW depth \in [Pixels -> Depths]
    PROVE  /\ ValidCount(depth) \in 0 .. PixelCount
           /\ ValidCount(depth) = Cardinality(Difference!Valid(depth))
           /\ (SkipInvalid /\ \A p \in Pixels : depth[p] = 0) => ValidCount(depth) = 0
<1>1. Cardinality(Pixels) = PixelCount
  BY Words, FS_Interval DEF Pixels
<1>2. ValidCount(depth) = Cardinality(Difference!Valid(depth))
  BY <1>1 DEF ValidCount, Difference!Valid
<1>3. Difference!Valid(depth) \in SUBSET Pixels
  BY DEF Difference!Valid
<1>4. ASSUME SkipInvalid, \A p \in Pixels : depth[p] = 0 PROVE ValidCount(depth) = 0
  <2>1. Difference!Valid(depth) = {}
    BY <1>4 DEF Difference!Valid
  <2>2. QED
    BY <1>2, <2>1, FS_EmptySet
<1>5. QED
  BY <1>2, <1>3, <1>4, Counts

(* The mask written last is that of the last frame. *)
Compared ==
    /\ existing_frame <=> seen # NoFrame
    /\ seen # NoFrame => /\ seen \in [Pixels -> Depths] \X Cutoffs
                         /\ Last = Mask(seen[1], seen[2])

(* What one call does, by pixels: the mask that is written, the one that is    *)
(* compared with and what is returned.                                       *)
LEMMA Detection ==
    ASSUME TypeOK, NEW depth \in [Pixels -> Depths], NEW cutoff \in Cutoffs,
           motion_detector_detect(depth, cutoff)
    PROVE  /\ Last' = Mask(depth, cutoff)
           /\ Last \in Masks /\ Used(Last)
           /\ presence' = <<BitCount(Last'), ValidCount(depth)>>
           /\ existing_frame =>
                  motion' = <<BitCount(Xor(Last, Last')), ValidCount(depth)>>
           /\ ~existing_frame => motion' = <<0, 1>>
<1>1. /\ mask_a \in Masks /\ mask_b \in Masks /\ Used(mask_a) /\ Used(mask_b)
      /\ mask_flag \in BOOLEAN
  BY DEF TypeOK, Used
<1>2. Last \in Masks /\ Used(Last)
  BY <1>1 DEF Last
<1>3. Last' = Mask(depth, cutoff)
  BY <1>1, Zenon DEF motion_detector_detect, Toggled, Last
<1>4. Xor(mask_a', mask_b') = Xor(Last, Last')
  <2>1. mask_flag => mask_a' = Last' /\ mask_b' = Last
    BY <1>1, <1>3, Zenon DEF motion_detector_detect, Last
  <2>2. ~mask_flag => mask_a' = Last /\ mask_b' = Last'
    BY <1>1, <1>3, Zenon DEF motion_detector_detect, Last
  <2>3. Xor(Last', Last) = Xor(Last, Last')
    BY DEF Xor
  <2>4. QED
    BY <2>1, <2>2, <2>3
<1>5. QED
  BY <1>2, <1>3, <1>4 DEF motion_detector_detect

LEMMA TypeStep == TypeOK /\ [Next]_vars => TypeOK'
<1> SUFFICES ASSUME TypeOK, [Next]_vars PROVE TypeOK'
  OBVIOUS
<1>1. ASSUME NEW depth \in [Pixels -> Depths], NEW cutoff \in Cutoffs,
             motion_detector_detect(depth, cutoff)
      PROVE  TypeOK'
  <2> DEFINE mask == Mask(depth, cutoff)
  <2>1. mask \in Masks /\ Used(mask)
    BY MaskOfFrame
  <2> HIDE DEF mask
  <2>2. /\ mask_a' = mask \/ mask_a' = mask_a
        /\ mask_b' = mask \/ mask_b' = mask_b
        /\ mask_flag' \in BOOLEAN /\ existing_frame' \in BOOLEAN
    BY <1>1 DEF motion_detector_detect, Toggled, mask, TypeOK
  <2>3. ASSUME NEW m \in Masks, Used(m) PROVE BitCount(m) \in Nat
    <3>1. SetPixels(m) \in SUBSET Pixels
      BY DEF SetPixels
    <3>2. QED
      BY <2>3, <3>1, BitsArePixels, Counts
  <2>4. ValidCount(depth) \in 0 .. PixelCount
    BY ValidPixels
  <2>5. presence' \in Nat \X (0 .. PixelCount)
    BY <1>1, <2>1, <2>3, <2>4, Detection DEF mask
  <2>6. motion' \in Nat \X (0 .. PixelCount)
    <3>1. CASE existing_frame
      <4>1. Last \in Masks /\ Used(Last) /\ Last' \in Masks /\ Used(Last')
        BY <1>1, <2>1, Detection DEF mask
      <4>2. Xor(Last, Last') \in Masks /\ Used(Xor(Last, Last'))
        BY <4>1 DEF Xor, Masks, Used
      <4>3. QED
        BY <1>1, <2>3, <2>4, <3>1, <4>2, Detection
    <3>2. CASE ~existing_frame
      BY <1>1, <3>2, Detection, Words
    <3>3. QED
      BY <3>1, <3>2
  <2>7. QED
    BY <2>1, <2>2, <2>5, <2>6 DEF TypeOK, Used
<1>2. CASE motion_detector_reset
  <2>1. Zeroed \in Masks /\ \A i \in 0 .. MaskLength - 1 : Zeroed[i] = {}
    BY DEF Zeroed, Masks
  <2>2. QED
    BY <1>2, <2>1 DEF motion_detector_reset, TypeOK
<1>3. CASE UNCHANGED vars
  BY <1>3 DEF vars, TypeOK
<1>4. QED
  BY <1>1, <1>2, <1>3 DEF Next

LEMMA ComparedStep == TypeOK /\ Compared /\ [Next]_vars => Compared'
<1> SUFFICES ASSUME TypeOK, Compared, [Next]_vars PROVE Compared'
  OBVIOUS
<1>1. ASSUME NEW depth \in [Pixels -> Depths], NEW cutoff \in Cutoffs,
             motion_detector_detect(depth, cutoff)
      PROVE  Compared'
  <2>1. /\ <<depth, cutoff>> \in [Pixels -> Depths] \X Cutoffs
        /\ <<depth, cutoff>> # NoFrame
    BY Limits
  <2>2. seen' = <<depth, cutoff>> /\ existing_frame'
    BY <1>1 DEF motion_detector_detect
  <2>3. Last' = Mask(depth, cutoff)
    BY <1>1, Detection
  <2>4. QED
    BY <2>1, <2>2, <2>3 DEF Compared
<1>2. CASE motion_detector_reset
  BY <1>2, Zenon DEF motion_detector_reset, Compared
<1>3. CASE UNCHANGED vars
  BY <1>3 DEF vars, Compared, Last
<1>4. QED
  BY <1>1, <1>2, <1>3 DEF Next

LEMMA DetectorInit == Init => TypeOK /\ Compared
<1> SUFFICES ASSUME Init PROVE TypeOK /\ Compared
  OBVIOUS
<1>1. Zeroed \in Masks /\ \A i \in 0 .. MaskLength - 1 : Zeroed[i] = {}
  BY DEF Zeroed, Masks
<1>2. TypeOK
  <2>1. <<0, 1>> \in Nat \X (0 .. PixelCount)
    BY Words
  <2>2. mask_a = Zeroed /\ mask_b = Zeroed
    BY DEF Init
  <2>3. \A i \in 0 .. MaskLength - 1 : mask_a[i] \cup mask_b[i] = {}
    BY <1>1, <2>2
  <2>4. QED
    BY <1>1, <2>1, <2>2, <2>3 DEF Init, TypeOK
<1>3. Compared
  BY DEF Init, Compared
<1>4. QED
  BY <1>2, <1>3

(* No bit is set behind the picture in the last word of a mask, and no more     *)
(* pixels are counted as valid than there are (motion_detector.c:167-227).     *)
THEOREM DetectorTypeOK == Spec => []TypeOK
<1>1. Init => TypeOK
  BY DetectorInit
<1>2. QED
  BY <1>1, TypeStep, PTL DEF Spec

-----------------------------------------------------------------------------
LEMMA SameCardinality == \A S : Difference!Cardinality(S) = Cardinality(S)
BY Zenon DEF Difference!Cardinality, Cardinality, Difference!IsFiniteSet, IsFiniteSet

(* The masks that are used in turn, their words and their bits measure what    *)
(* FrameDifference says.                                                     *)
THEOREM DetectorImplementsDifference == Spec => ImplementsDifference
<1> DEFINE near == IF existing_frame
                   THEN {p \in Pixels : p % WordBits \in Last[p \div WordBits]} ELSE NoFrame
<1>1. Init => Difference!Init
  BY DEF Init, Difference!Init
<1>2. TypeOK /\ [Next]_vars => [Difference!Next]_(Difference!vars)
  <2> SUFFICES ASSUME TypeOK, [Next]_vars
               PROVE  Difference!Next \/ UNCHANGED Difference!vars
    OBVIOUS
  <2>1. ASSUME NEW depth \in [Pixels -> Depths], NEW cutoff \in Cutoffs,
               motion_detector_detect(depth, cutoff)
        PROVE  Difference!Measure(depth, UnsignedShort(cutoff))
    <3> DEFINE now == Difference!Near(depth, UnsignedShort(cutoff))
               mask == Mask(depth, cutoff)
    <3>1. mask \in Masks /\ Used(mask) /\ SetPixels(mask) = now
      <4>1. {p \in Pixels : Marked(depth[p], cutoff)} = now
        BY DEF Marked, Difference!Near, Difference!Valid
      <4>2. QED
        BY <4>1, MaskOfFrame
    <3> HIDE DEF mask, now
    <3>2. /\ Last' = mask /\ Last \in Masks /\ Used(Last) /\ existing_frame'
          /\ ValidCount(depth) = Cardinality(Difference!Valid(depth))
      BY <2>1, Detection, ValidPixels DEF mask, motion_detector_detect
    <3>3. near' = now
      <4>1. near' = {p \in Pixels : p % WordBits \in mask[p \div WordBits]}
        BY <3>2
      <4>2. QED
        BY <3>1, <4>1 DEF SetPixels
    <3>4. presence' = <<Cardinality(now), Cardinality(Difference!Valid(depth))>>
      BY <2>1, <3>1, <3>2, BitsArePixels, Detection
    <3>5. motion' = IF near = NoFrame THEN <<0, 1>>
                    ELSE <<Cardinality((now \ near) \cup (near \ now)),
                           Cardinality(Difference!Valid(depth))>>
      <4>1. CASE existing_frame
        <5>1. near = SetPixels(Last)
          BY <4>1 DEF SetPixels
        <5>2. near # NoFrame
          <6>1. near \in SUBSET Pixels
            BY <5>1 DEF SetPixels
          <6>2. QED
            BY <6>1, Limits
        <5>3. BitCount(Xor(Last, Last'))
                = Cardinality((near \ now) \cup (now \ near))
          BY <3>1, <3>2, <5>1, XorOfMasks
        <5>4. (near \ now) \cup (now \ near) = (now \ near) \cup (near \ now)
          OBVIOUS
        <5>5. motion' = <<BitCount(Xor(Last, Last')), ValidCount(depth)>>
          BY <2>1, <4>1, Detection
        <5> HIDE DEF near
        <5>6. QED
          BY <3>2, <5>2, <5>3, <5>4, <5>5
      <4>2. CASE ~existing_frame
        BY <2>1, <4>2, Detection
      <4>3. QED
        BY <4>1, <4>2
    <3>6. QED
      BY <3>3, <3>4, <3>5, SameCardinality DEF Difference!Measure, now
  <2>2. CASE motion_detector_reset
    BY <2>2 DEF motion_detector_reset, Difference!Next, Difference!Forget
  <2>3. CASE UNCHANGED vars
    BY <2>3, Zenon DEF vars, Difference!vars, Last
  <2>4. QED
    BY <2>1, <2>2, <2>3 DEF Next, Difference!Next
<1>3. QED
  BY <1>1, <1>2, DetectorTypeOK, PTL DEF Spec, ImplementsDifference, Difference!Spec

-----------------------------------------------------------------------------
LEMMA NoShare ==
    ASSUME NEW n \in Nat, NEW limit \in (Nat \ {0}) \X (Nat \ {0})
    PROVE  ~AtLeast(<<0, n>>, limit)
<1>1. limit[1] \in Nat \ {0} /\ limit[2] \in Nat \ {0}
  OBVIOUS
<1>2. CASE n = 0
  BY <1>2 DEF AtLeast
<1>3. CASE n # 0
  <2>1. limit[1] * n > 0 /\ 0 * limit[2] = 0
    BY <1>1, <1>3
  <2>2. QED
    BY <1>1, <1>3, <2>1 DEF AtLeast
<1>4. QED
  BY <1>2, <1>3

(* Neither a frame that is the same as the one before, nor one without a       *)
(* reading, is worth recording (director.c:477-483), for every size of the   *)
(* picture and of a word and every limit.                                    *)
THEOREM DetectorStillNotValid == Spec => StillNotValid
<1> DEFINE StillStep == (seen # NoFrame /\ seen' = seen) \/ BlankFrame(seen')
                        => ~ValidFrame'
<1>1. TypeOK /\ Compared /\ [Next]_vars => [StillStep]_vars
  <2> SUFFICES ASSUME TypeOK, Compared, Next PROVE StillStep
    BY DEF Compared
  <2>1. ASSUME NEW depth \in [Pixels -> Depths], NEW cutoff \in Cutoffs,
               motion_detector_detect(depth, cutoff)
        PROVE  StillStep
    <3> DEFINE mask == Mask(depth, cutoff)
    <3>1. mask \in Masks /\ Used(mask) /\ ValidCount(depth) \in 0 .. PixelCount
      BY MaskOfFrame, ValidPixels
    <3>2. seen' = <<depth, cutoff>> /\ Last' = mask
      BY <2>1, Detection DEF motion_detector_detect
    <3>3. ASSUME seen # NoFrame, seen' = seen PROVE ~ValidFrame'
      <4>1. existing_frame /\ Last = mask
        BY <3>2, <3>3 DEF Compared
      <4>2. motion' = <<0, ValidCount(depth)>>
        BY <2>1, <3>1, <3>2, <4>1, Detection, XorWithItself
      <4>3. ~AtLeast(motion', MinMotion)
        BY <3>1, <4>2, NoShare, Limits
      <4>4. QED
        BY <4>3 DEF ValidFrame
    <3>4. ASSUME BlankFrame(seen') PROVE ~ValidFrame'
      <4>1. SkipInvalid /\ \A p \in Pixels : depth[p] = 0
        BY <3>2, <3>4 DEF BlankFrame
      <4>2. SetPixels(mask) = {}
        BY <4>1, MaskOfFrame DEF Marked
      <4>3. BitCount(mask) = 0
        BY <3>1, <4>2, BitsArePixels, FS_EmptySet
      <4>4. presence' = <<0, ValidCount(depth)>>
        BY <2>1, <3>2, <4>3, Detection
      <4>5. ~AtLeast(presence', MinPresence)
        BY <3>1, <4>4, NoShare, Limits
      <4>6. QED
        BY <4>5 DEF ValidFrame
    <3>5. QED
      BY <3>3, <3>4
  <2>2. CASE motion_detector_reset
    BY <2>2 DEF motion_detector_reset, BlankFrame
  <2>3. QED
    BY <2>1, <2>2 DEF Next
<1>2. QED
  BY <1>1, DetectorInit, TypeStep, ComparedStep, PTL DEF Spec, StillNotValid
=============================================================================
