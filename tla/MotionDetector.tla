--------------------------- MODULE MotionDetector ---------------------------
(***************************************************************************)
(* libkghost/src/motion_detector.c, and the director's verdict over what it  *)
(* returns (director.c:476-483).  A mask is an array of words and a word the  *)
(* set of its bits that are set.  A double is a pair, numerator and           *)
(* denominator; a denominator of zero stands for NaN or infinity.            *)
(*                                                                          *)
(* A definition marked `Mutant' is the definition below it with a bug such   *)
(* code could have; it is not part of the model.                             *)
(***************************************************************************)
EXTENDS Integers, FiniteSets

CONSTANTS
    PixelCount,
    WordBits,     \* 32 in the code
    Depths,       \* 0 is `no reading'
    Cutoffs,      \* an int of any value
    SkipInvalid,
    MinMotion,    \* shares, 1/100 and 1/20 in director.c:105-106
    MinPresence,
    NoFrame

Pixels == 0 .. PixelCount - 1

ASSUME DetectorAssumption ==
    /\ PixelCount \in Nat \ {0}
    /\ WordBits \in Nat \ {0}
    /\ Depths \subseteq 0 .. 65535
    /\ Cutoffs \subseteq Int
    /\ SkipInvalid \in BOOLEAN
    /\ MinMotion \in (Nat \ {0}) \X (Nat \ {0})
    /\ MinPresence \in (Nat \ {0}) \X (Nat \ {0})
    /\ \A S \in SUBSET Pixels : S # NoFrame
    /\ \A frame \in [Pixels -> Depths] \X Cutoffs : frame # NoFrame

VARIABLES
    mask_a, mask_b,
    existing_frame,
    mask_flag,          \* the next mask goes to mask_a
    motion, presence,   \* what the last detection returned
    seen                \* history: the last frame and its cutoff

vars == <<mask_a, mask_b, existing_frame, mask_flag, motion, presence, seen>>

MaskLength == PixelCount \div WordBits + 1
Masks == [0 .. MaskLength - 1 -> SUBSET (0 .. WordBits - 1)]
Zeroed == [i \in 0 .. MaskLength - 1 |-> {}]

\* What is left of an int in an unsigned short.
UnsignedShort(i) == i % 65536

Marked(d, cutoff) == d <= UnsignedShort(cutoff) /\ ~(SkipInvalid /\ d = 0)

(* _create_mask_uint16 and _create_mask_uint16_si: pixel p is bit p % WordBits  *)
(* of word p \div WordBits.                                                  *)
Mask(depth, cutoff) ==
    [i \in 0 .. MaskLength - 1 |->
        {p % WordBits : p \in {q \in Pixels : /\ q \div WordBits = i
                                              /\ Marked(depth[q], cutoff)}}]

ValidCount(depth) ==
    IF SkipInvalid THEN Cardinality({p \in Pixels : depth[p] # 0}) ELSE PixelCount

(* The loops that add up POP_COUNT over the words.                            *)
BitCount(mask) ==
    Cardinality({bit \in (0 .. MaskLength - 1) \X (0 .. WordBits - 1) :
                     bit[2] \in mask[bit[1]]})

Xor(m, n) == [i \in 0 .. MaskLength - 1 |-> (m[i] \ n[i]) \cup (n[i] \ m[i])]

-----------------------------------------------------------------------------
(* The outputs are the caller's variables, zero before the call.               *)
Init ==
    /\ mask_a = Zeroed
    /\ mask_b = Zeroed
    /\ existing_frame = FALSE
    /\ mask_flag = TRUE
    /\ motion = <<0, 1>>
    /\ presence = <<0, 1>>
    /\ seen = NoFrame

\* Mutant: the masks are not used in turn.
SameMask == mask_flag
Toggled == ~mask_flag

motion_detector_detect(depth, cutoff) ==
    LET mask == Mask(depth, cutoff)
        valid == ValidCount(depth)
    IN  /\ mask_a' = IF mask_flag THEN mask ELSE mask_a
        /\ mask_b' = IF mask_flag THEN mask_b ELSE mask
        /\ mask_flag' = Toggled
        /\ presence' = <<BitCount(mask), valid>>
        /\ motion' = IF existing_frame
                     THEN <<BitCount(Xor(mask_a', mask_b')), valid>> ELSE <<0, 1>>
        /\ existing_frame' = TRUE
        /\ seen' = <<depth, cutoff>>

\* Mutant: the detector still believes it has a frame to compare with.
ResetMasksOnly ==
    /\ mask_a' = Zeroed
    /\ mask_b' = Zeroed
    /\ mask_flag' = TRUE
    /\ UNCHANGED <<existing_frame, motion, presence>>
    /\ seen' = NoFrame
motion_detector_reset ==
    /\ mask_a' = Zeroed
    /\ mask_b' = Zeroed
    /\ existing_frame' = FALSE
    /\ mask_flag' = TRUE
    /\ UNCHANGED <<motion, presence>>
    /\ seen' = NoFrame

Next ==
    \/ \E depth \in [Pixels -> Depths], cutoff \in Cutoffs :
           motion_detector_detect(depth, cutoff)
    \/ motion_detector_reset

Spec == Init /\ [][Next]_vars

(* share >= limit, in floating point: x/0 is infinite and 0/0 compares false.  *)
AtLeast(share, limit) == IF share[2] = 0 THEN share[1] > 0
                         ELSE share[1] * limit[2] >= limit[1] * share[2]

(* The director's valid_frame.                                                *)
ValidFrame == AtLeast(motion, MinMotion) /\ AtLeast(presence, MinPresence)

-----------------------------------------------------------------------------
(* The values the variables range over; the unused end of the last word is     *)
(* never set.                                                                *)
TypeOK ==
    /\ mask_a \in Masks /\ mask_b \in Masks
    /\ \A i \in 0 .. MaskLength - 1, b \in 0 .. WordBits - 1 :
           b \in mask_a[i] \cup mask_b[i] => i * WordBits + b \in Pixels
    /\ existing_frame \in BOOLEAN /\ mask_flag \in BOOLEAN
    /\ motion \in Nat \X (0 .. PixelCount) /\ presence \in Nat \X (0 .. PixelCount)

BlankFrame(frame) == frame # NoFrame /\ SkipInvalid /\ \A p \in Pixels : frame[1][p] = 0

(* What does not move is not recorded: neither a frame that is the same as the  *)
(* one before, whichever mask is in turn, nor one without a single reading,     *)
(* which makes presence 0/0 and motion x/0, whatever came before               *)
(* (motion_detector.c:167-196; director.c:477-483).                            *)
StillNotValid ==
    [][(seen # NoFrame /\ seen' = seen) \/ BlankFrame(seen') => ~ValidFrame']_vars

(* The masks in turn, their words and bits implement FrameDifference, for which *)
(* a cutoff is the unsigned short that is left of the argument.  The mask       *)
(* written last is the one that is not next.                                   *)
Last == IF mask_flag THEN mask_b ELSE mask_a
Difference == INSTANCE FrameDifference WITH
    Cutoffs <- {UnsignedShort(cutoff) : cutoff \in Cutoffs},
    near <- IF existing_frame
            THEN {p \in Pixels : p % WordBits \in Last[p \div WordBits]} ELSE NoFrame
ImplementsDifference == Difference!Spec
=============================================================================
