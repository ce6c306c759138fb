---------------------------- MODULE MedianFilter ----------------------------
(***************************************************************************)
(* libkghost/src/median_filter.c: every pixel of every frame appended becomes *)
(* the median of its neighbours in the picture and in time.  The frames are   *)
(* overwritten one by one; the ring keeps the originals that later frames     *)
(* still need.  The ring is the one of module Ring, its elements pictures;    *)
(* the vector of frames is a sequence, which Vector implements.               *)
(*                                                                          *)
(* A picture is the array the code has, its indexes counted in elements.      *)
(* The client appends every buffer at most once, as the one in main.c:793-810 *)
(* does, and uses no filter of depth 1: with that and a single frame,         *)
(* median_filter.c:327 would read an address behind the appended ones.        *)
(*                                                                          *)
(* A definition marked `Mutant' is the definition below it with a bug such   *)
(* code could have; it is not part of the model.                             *)
(***************************************************************************)
EXTENDS Ring, FiniteSets

CONSTANTS
    ShapeX, ShapeY,             \* filter_shape; its z is the ring's Capacity
    Width, Height, Channels,    \* input_spec
    Values,
    Inputs,                     \* bound: the pictures that are appended
    Junk,                       \* bound: what the ring's memory holds at first
    MaxFrames                   \* bound: how many pictures are appended

RowSize == Width * Channels
Positions == 0 .. Height * RowSize - 1
Pictures == [Positions -> Values]
Half == Capacity \div 2
Taps == (0 .. Capacity - 1) \X (0 .. ShapeY - 1) \X (0 .. ShapeX - 1)

ASSUME FilterAssumption ==
    /\ \A size \in {ShapeX, ShapeY, Capacity} : size \in Nat /\ size % 2 = 1
    /\ Capacity > 1
    /\ {Width, Height, Channels, MaxFrames} \subseteq Nat \ {0}
    /\ Values \subseteq Int
    /\ Elements = Pictures
    /\ Inputs \cup Junk \subseteq Pictures

VARIABLES
    frames,     \* the pictures in the appended buffers
    pc,         \* where median_filter_apply is: "idle", "fill", "filter"
    filled,     \* how many frames were pushed before the first is filtered
    out_z,
    push_pos,
    before      \* history: the frames when the call began

filterVars == <<data, count, head, frames, pc, filled, out_z, push_pos, before>>

-----------------------------------------------------------------------------
\* Mutant: above the picture is the last row.
RowWrapped(y, k) == LET row == y - ShapeY \div 2 + k
                    IN  IF row < 0 \/ row >= Height THEN Height - 1 ELSE row
Row(y, k) == LET row == y - ShapeY \div 2 + k
             IN  IF row < 0 THEN 0 ELSE IF row >= Height THEN Height - 1 ELSE row

Pos(x, c, j) ==
    LET pos == (x - ShapeX \div 2 + j) * Channels + c
    IN  IF pos < 0 THEN c
        ELSE IF pos >= RowSize THEN RowSize - Channels + c ELSE pos

_load_buffer(x, y, c) ==
    [tap \in Taps |-> data[Position(tap[1])][Row(y, tap[2]) * RowSize + Pos(x, c, tap[3])]]

(* What qsort puts in the middle of the buffer.                               *)
Median(buffer) ==
    LET Count(v) == Cardinality({tap \in Taps : buffer[tap] < v})
        middle == Cardinality(Taps) \div 2
    IN  CHOOSE v \in {buffer[tap] : tap \in Taps} :
            /\ Count(v) <= middle
            /\ Count(v) + Cardinality({tap \in Taps : buffer[tap] = v}) > middle

(* The loops over rows, columns and channels, which go through the output from *)
(* its first position to its last.                                           *)
Filtered == [i \in Positions |-> Median(_load_buffer((i % RowSize) \div Channels,
                                                     i \div RowSize,
                                                     i % Channels))]

-----------------------------------------------------------------------------
(* The ring as after ring_create.                                             *)
FilterInit ==
    /\ data \in [0 .. Capacity - 1 -> Junk] /\ count = 0 /\ head = Capacity - 1
    /\ frames = <<>>
    /\ pc = "idle"
    /\ filled = 0 /\ out_z = 0 /\ push_pos = 0
    /\ before = <<>>

median_filter_append(picture) ==
    /\ pc = "idle"
    /\ Len(frames) < MaxFrames
    /\ frames' = Append(frames, picture)
    /\ UNCHANGED <<data, count, head, pc, filled, out_z, push_pos, before>>

median_filter_clear ==
    /\ pc = "idle"
    /\ frames' = <<>>
    /\ ring_clear
    /\ before' = <<>>
    /\ UNCHANGED <<pc, filled, out_z, push_pos>>

(* median_filter_apply with enough frames.  With fewer it does nothing.        *)
Apply ==
    /\ pc = "idle"
    /\ Len(frames) >= Capacity
    /\ ring_clear
    /\ pc' = "fill"
    /\ filled' = 0
    /\ before' = frames
    /\ UNCHANGED <<frames, out_z, push_pos>>

\* Mutant: the last frame of the first window is pushed a second time.
NextToPushAgain == Half
NextToPush == Half + 1

(* The two loops that push the first frame Half times, then the first Half + 1. *)
Fill ==
    /\ pc = "fill"
    /\ ring_push(frames[IF filled < Half THEN 1 ELSE filled - Half + 1])
    /\ filled' = filled + 1
    /\ pc' = IF filled' = Capacity THEN "filter" ELSE "fill"
    /\ out_z' = 0
    /\ push_pos' = NextToPush
    /\ UNCHANGED <<frames, before>>

Advanced == IF push_pos + 1 >= Len(frames) THEN Len(frames) - 1 ELSE push_pos + 1

More == out_z + 1 < Len(frames)

(* One frame is filtered, then the next one to come is pushed.                *)
FilterFrame ==
    /\ pc = "filter"
    /\ frames' = [frames EXCEPT ![out_z + 1] = Filtered]
    /\ ring_push(frames'[push_pos + 1])
    /\ out_z' = out_z + 1
    /\ push_pos' = Advanced
    /\ pc' = IF More THEN "filter" ELSE "idle"
    /\ UNCHANGED <<filled, before>>

FilterNext ==
    \/ \E picture \in Inputs : median_filter_append(picture)
    \/ median_filter_clear
    \/ Apply
    \/ Fill
    \/ FilterFrame

FilterSpec == FilterInit /\ [][FilterNext]_filterVars

-----------------------------------------------------------------------------
(* The values the variables range over.  No frame is filtered or pushed that    *)
(* was not appended.                                                         *)
FilterTypeOK ==
    /\ TypeOK
    /\ frames \in Seq(Pictures) /\ Len(frames) <= MaxFrames
    /\ before \in Seq(Pictures) /\ (pc # "idle" => Len(before) = Len(frames))
    /\ pc \in {"idle", "fill", "filter"}
    /\ filled \in 0 .. Capacity
    /\ out_z \in 0 .. MaxFrames /\ push_pos \in 0 .. MaxFrames - 1
    /\ pc = "filter" => out_z < Len(frames) /\ push_pos < Len(frames)

\* i, or what is nearest to it in low .. high.
Nearest(i, low, high) == IF i < low THEN low ELSE IF i > high THEN high ELSE i

(* Whenever a frame is about to be filtered, the ring holds the frames around   *)
(* it as they were before the call, the first and the last repeated at the     *)
(* ends, although the frames before it have been overwritten                   *)
(* (median_filter.c:233-248, 327-336).                                        *)
WindowOriginal ==
    pc = "filter" =>
        /\ count = Capacity
        /\ \A i \in 0 .. Capacity - 1 :
               data[Position(i)] = before[Nearest(out_z + 1 + Half - i, 1, Len(before))]

(* The frames around a pixel, by coordinates.                                 *)
Neighbour(z, x, y, c, tap) ==
    before[Nearest(z + tap[1] - Half, 1, Len(before))]
          [Nearest(y + tap[2] - ShapeY \div 2, 0, Height - 1) * RowSize
             + Nearest(x + tap[3] - ShapeX \div 2, 0, Width - 1) * Channels + c]

Smooth(z) ==
    [i \in Positions |->
        Median([tap \in Taps |-> Neighbour(z, (i \div Channels) % Width, i \div RowSize,
                                           i % Channels, tap)])]

(* Overwriting the frames in place does not show in the result: when the call    *)
(* returns, every frame is what the filter makes of the original frames.       *)
ReturnsFiltered ==
    [][pc = "filter" /\ pc' = "idle" =>
           \A z \in 1 .. Len(frames) : frames'[z] = Smooth(z)]_filterVars
=============================================================================
