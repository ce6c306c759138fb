--------------------------- MODULE FrameDifference ---------------------------
(***************************************************************************)
(* What the motion detector measures: of the valid pixels of a frame, the    *)
(* share that is near (presence) and the share that is near now or was in    *)
(* the frame before, but not both (motion).  MotionDetector is shown to      *)
(* implement this specification.  A share is a pair: so many out of so many. *)
(***************************************************************************)
EXTENDS Integers, FiniteSets

CONSTANTS Pixels, Depths, Cutoffs, SkipInvalid, NoFrame

VARIABLES near, motion, presence

vars == <<near, motion, presence>>

Init == near = NoFrame /\ motion = <<0, 1>> /\ presence = <<0, 1>>

Valid(depth) == IF SkipInvalid THEN {p \in Pixels : depth[p] # 0} ELSE Pixels

Near(depth, cutoff) == {p \in Valid(depth) : depth[p] <= cutoff}

Measure(depth, cutoff) ==
    LET now == Near(depth, cutoff)
        valid == Cardinality(Valid(depth))
        changed == (now \ near) \cup (near \ now)
    IN  /\ near' = now
        /\ presence' = <<Cardinality(now), valid>>
        /\ motion' = IF near = NoFrame THEN <<0, 1>> ELSE <<Cardinality(changed), valid>>

Forget == near' = NoFrame /\ UNCHANGED <<motion, presence>>

Next == Forget \/ \E depth \in [Pixels -> Depths], cutoff \in Cutoffs :
                      Measure(depth, cutoff)

Spec == Init /\ [][Next]_vars
=============================================================================
