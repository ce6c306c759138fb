---------------------------- MODULE GhostsProofs ----------------------------
(***************************************************************************)
(* Theorems about Director and about the program Ghosts around it, for any    *)
(* instance that their assumptions allow and whatever fails.                *)
(*                                                                          *)
(* The first part is about the director alone, under its own specification.   *)
(* That it is an allowed client of the frame store comes first: what         *)
(* FrameStoreProofs says of the store's every behaviour then holds of the     *)
(* store in the director.  The end of this part is about what is in the loops: *)
(* as long as the director's own calls succeed, every loop is made of whole    *)
(* frames, and every frame the store handed out is in one place.             *)
(*                                                                          *)
(* The second part says that the program is one of the director's clients:    *)
(* whatever the camera, GLUT and the scheduler do, the director takes a step  *)
(* of its own or none.  All of the first part then holds within the program.  *)
(***************************************************************************)
EXTENDS Ghosts, FiniteSetTheorems, NaturalsInduction, SequenceTheorems,
        WellFoundedInduction, TLAPS

(***************************************************************************)
(* The director.  StoreProofs is the same store as Director's Store, with its *)
(* theorems.                                                                *)
(***************************************************************************)
StoreProofs == INSTANCE FrameStoreProofs WITH
                  Faults <- Faults \ DirectorFaults

LEMMA Assumed == StoreProofs!StoreAssumption
BY DirectorAssumption, Zenon
   DEF DirectorAssumption, Store!StoreAssumption, StoreProofs!StoreAssumption,
       IsFiniteSet, Store!IsFiniteSet, StoreProofs!IsFiniteSet,
       Store!Null, StoreProofs!Null, Store!Unset, StoreProofs!Unset

-----------------------------------------------------------------------------
(* The two instances are one store. *)
LEMMA SameNames ==
    /\ Store!Parts = StoreProofs!Parts /\ Store!Fields = StoreProofs!Fields
    /\ Store!Unset = StoreProofs!Unset /\ Store!Null = StoreProofs!Null
    /\ Store!invalid_frame_id = StoreProofs!invalid_frame_id
    /\ Store!part_bytes = StoreProofs!part_bytes
    /\ Store!frame_size = StoreProofs!frame_size
    /\ Store!current_timestamp = StoreProofs!current_timestamp
    /\ Store!Cleared = StoreProofs!Cleared
    /\ \A id : Store!Frame(id) = StoreProofs!Frame(id)
    /\ Store!Ids = StoreProofs!Ids
    /\ Store!storeAndPool = StoreProofs!storeAndPool
BY Zenon
   DEF Store!Parts, StoreProofs!Parts, Store!Fields, StoreProofs!Fields,
       Store!Unset, StoreProofs!Unset, Store!Null, StoreProofs!Null,
       Store!invalid_frame_id, StoreProofs!invalid_frame_id,
       Store!part_bytes, StoreProofs!part_bytes,
       Store!frame_size, StoreProofs!frame_size,
       Store!current_timestamp, StoreProofs!current_timestamp,
       Store!Cleared, StoreProofs!Cleared, Store!Frame, StoreProofs!Frame,
       Store!Ids, StoreProofs!Ids, Store!storeAndPool, StoreProofs!storeAndPool,
       Store!poolVars, StoreProofs!poolVars, Store!storeVars, StoreProofs!storeVars

LEMMA SameSizes ==
    \A S : /\ Store!Cardinality(S) = StoreProofs!Cardinality(S)
           /\ Store!Pool!Cardinality(S) = StoreProofs!Pool!Cardinality(S)
BY Zenon DEF Store!Cardinality, StoreProofs!Cardinality,
             Store!Pool!Cardinality, StoreProofs!Pool!Cardinality

LEMMA SameCapture ==
    ASSUME NEW part \in Store!Parts, NEW timestamp \in Timestamps,
           Store!CaptureData(part, timestamp)
    PROVE  StoreProofs!CaptureData(part, timestamp)
<1>1. Store!Count(part, timestamp) => StoreProofs!Count(part, timestamp)
  BY Zenon DEF Store!Count, StoreProofs!Count, Store!Parts, StoreProofs!Parts
<1>2. Store!StartFrame(part, timestamp) => StoreProofs!StartFrame(part, timestamp)
  BY SameNames, Zenon
     DEF Store!StartFrame, StoreProofs!StartFrame, Store!poolVars, StoreProofs!poolVars
<1>3. Store!AddToFrame(part, timestamp) => StoreProofs!AddToFrame(part, timestamp)
  BY SameNames, Zenon
     DEF Store!AddToFrame, StoreProofs!AddToFrame, Store!poolVars, StoreProofs!poolVars
<1>4. Store!Complete(part, timestamp) => StoreProofs!Complete(part, timestamp)
  BY SameNames, Zenon DEF Store!Complete, StoreProofs!Complete
<1>5. Store!StoreFails(part, timestamp) => StoreProofs!StoreFails(part, timestamp)
  BY <1>4, SameNames, Zenon
     DEF Store!StoreFails, StoreProofs!StoreFails, Store!poolVars, StoreProofs!poolVars
<1>6. Store!StoreClaimFails(part, timestamp)
          => StoreProofs!StoreClaimFails(part, timestamp)
  BY <1>4, SameNames, Zenon
     DEF Store!StoreClaimFails, StoreProofs!StoreClaimFails, Store!poolVars,
         StoreProofs!poolVars
<1>7. Store!StoreFrame(part, timestamp) => StoreProofs!StoreFrame(part, timestamp)
  BY <1>4, SameNames, Zenon
     DEF Store!StoreFrame, StoreProofs!StoreFrame, Store!Pool!Acquire,
         StoreProofs!Pool!Acquire
<1>8. QED
  BY <1>1, <1>2, <1>3, <1>5, <1>6, <1>7, Zenon
     DEF Store!CaptureData, StoreProofs!CaptureData

LEMMA SameRemove ==
    ASSUME NEW id, Store!RemoveFrame(id)
    PROVE  StoreProofs!RemoveFrame(id)
<1>1. Store!RemoveHeld(id) => StoreProofs!RemoveHeld(id)
  BY SameNames, Zenon
     DEF Store!RemoveHeld, StoreProofs!RemoveHeld, Store!Pool!Return,
         StoreProofs!Pool!Return
<1>2. Store!RemoveFails(id) => StoreProofs!RemoveFails(id)
  BY SameNames, Zenon
     DEF Store!RemoveFails, StoreProofs!RemoveFails, Store!poolVars,
         StoreProofs!poolVars
<1>3. QED
  BY <1>1, <1>2, SameNames, Zenon
     DEF Store!RemoveFrame, StoreProofs!RemoveFrame, Store!poolVars,
         StoreProofs!poolVars

LEMMA SameOthers ==
    /\ Store!Init => StoreProofs!Init
    /\ Store!ReleaseStore => StoreProofs!ReleaseStore
    /\ \A c \in Chunks : Store!Supply(c) => StoreProofs!Supply(c)
    /\ Store!Done => StoreProofs!Done
<1>1. Store!Init => StoreProofs!Init
  BY SameNames, SameSizes, Zenon
     DEF Store!Init, StoreProofs!Init, Store!StoreInit, StoreProofs!StoreInit
<1>2. Store!ReleaseStore => StoreProofs!ReleaseStore
  BY Zenon DEF Store!ReleaseStore, StoreProofs!ReleaseStore, Store!Pool!Close,
               StoreProofs!Pool!Close
<1>3. \A c \in Chunks : Store!Supply(c) => StoreProofs!Supply(c)
  BY SameSizes, Zenon
     DEF Store!Supply, StoreProofs!Supply, Store!Pool!Supply, StoreProofs!Pool!Supply,
         Store!storeVars, StoreProofs!storeVars,
         Store!Pool!Existing, StoreProofs!Pool!Existing
<1>4. Store!Done => StoreProofs!Done
  BY Zenon DEF Store!Done, StoreProofs!Done, Store!storeAndPool,
     StoreProofs!storeAndPool, Store!poolVars, StoreProofs!poolVars,
     Store!storeVars, StoreProofs!storeVars
<1>5. QED
  BY <1>1, <1>2, <1>3, <1>4

LEMMA SameNext == [Store!Next]_(Store!storeAndPool)
                     => [StoreProofs!Next]_(StoreProofs!storeAndPool)
<1>1. Store!Capture => StoreProofs!Capture
  BY SameCapture, SameNames, Zenon DEF Store!Capture, StoreProofs!Capture
<1>2. Store!Remove => StoreProofs!Remove
  BY SameRemove, SameNames, Zenon DEF Store!Remove, StoreProofs!Remove
<1>3. Store!Next => StoreProofs!Next
  BY <1>1, <1>2, SameOthers, Zenon DEF Store!Next, StoreProofs!Next
<1>4. UNCHANGED Store!storeAndPool => UNCHANGED StoreProofs!storeAndPool
  BY Zenon DEF Store!storeAndPool, StoreProofs!storeAndPool, Store!poolVars,
     StoreProofs!poolVars, Store!storeVars, StoreProofs!storeVars
<1>5. QED
  BY <1>3, <1>4, Zenon

LEMMA SameStore == Store!Spec => StoreProofs!Spec
BY SameOthers, SameNext, PTL DEF Store!Spec, StoreProofs!Spec

LEMMA StoreHolds == Store!Spec => []StoreProofs!IInv
<1>1. StoreProofs!Spec => []StoreProofs!IInv
  BY Assumed, StoreProofs!StoreInvariant DEF StoreProofs!StoreAssumption
<1>2. QED
  BY <1>1, SameStore, PTL

-----------------------------------------------------------------------------
(* The director as the store's client. *)

(* What the director knows between the calls it makes for one callback. *)
CallsInv ==
    /\ pc = "frame" => frame_id \in handed
    /\ pc = "meta" => last \in Timestamps

LEMMA CaptureReturns ==
    ASSUME NEW part, NEW timestamp, Store!CaptureData(part, timestamp)
    PROVE  /\ NewFrame => frame_id' \in handed'
           /\ last' = timestamp
<1>1. last' = timestamp
  BY DEF Store!CaptureData, Store!Count
<1>2. CASE Store!StartFrame(part, timestamp) \/ Store!AddToFrame(part, timestamp)
  BY <1>1, <1>2 DEF Store!StartFrame, Store!AddToFrame, NewFrame,
                    Store!invalid_frame_id, invalid_frame_id
<1>3. CASE Store!StoreFails(part, timestamp) \/ Store!StoreClaimFails(part, timestamp)
  BY <1>1, <1>3 DEF Store!StoreFails, Store!StoreClaimFails, NewFrame
<1>4. CASE Store!StoreFrame(part, timestamp)
  BY <1>1, <1>4 DEF Store!StoreFrame, Store!Complete
<1>5. QED
  BY <1>2, <1>3, <1>4 DEF Store!CaptureData

(* Each of the director's steps is a step of the store's client, or none. *)
LEMMA StoreSteps ==
    CallsInv /\ [Next]_vars
       => CallsInv' /\ [Store!Next]_(Store!storeAndPool)
<1> SUFFICES ASSUME CallsInv, [Next]_vars
             PROVE  CallsInv' /\ [Store!Next]_(Store!storeAndPool)
  OBVIOUS
<1>1. ASSUME UNCHANGED storeVars
      PROVE  /\ UNCHANGED Store!storeAndPool
             /\ handed' = handed /\ frame_id' = frame_id /\ last' = last
  BY <1>1, Zenon DEF storeVars, Store!storeAndPool, Store!poolVars, Store!storeVars
<1>2. ASSUME NEW part \in Store!Parts, NEW timestamp \in Timestamps,
             Store!CaptureData(part, timestamp)
      PROVE  Store!Next
  BY <1>2, Zenon DEF Store!Next, Store!Capture
<1>3. "video" \in Store!Parts /\ "depth" \in Store!Parts /\ "meta" \in Store!Parts
  BY DEF Store!Parts
<1>4. ASSUME NEW t \in Timestamps, CaptureVideo(t)
      PROVE  CallsInv' /\ Store!Next
  BY <1>2, <1>3, <1>4, CaptureReturns DEF CaptureVideo, CallsInv
<1>5. ASSUME NEW t \in Timestamps, CaptureDepth(t)
      PROVE  CallsInv' /\ Store!Next
  BY <1>2, <1>3, <1>5, CaptureReturns DEF CaptureDepth, CallsInv
<1>6. CASE CaptureMeta
  BY <1>2, <1>3, <1>6, CaptureReturns DEF CaptureMeta, CallsInv
<1>7. ASSUME NEW valid \in BOOLEAN, HandleFrame(valid)
      PROVE  CallsInv' /\ [Store!Next]_(Store!storeAndPool)
  <2>1. CallsInv' /\ frame_id \in handed
    BY <1>7 DEF HandleFrame, CallsInv
  <2>2. CASE RecordFrame(valid)
    BY <1>1, <2>1, <2>2 DEF RecordFrame
  <2>3. ASSUME Store!RemoveFrame(frame_id) PROVE Store!Next
    BY <2>1, <2>3 DEF Store!Next, Store!Remove
  <2>4. QED
    BY <1>7, <2>1, <2>2, <2>3 DEF HandleFrame, DropFrame, EndLoop
<1>8. CASE Playback
  BY <1>1, <1>8 DEF Playback, Play, CallsInv
<1>9. ASSUME NEW l \in Loops, Publish(l)
      PROVE  CallsInv' /\ UNCHANGED Store!storeAndPool
  BY <1>1, <1>9 DEF Publish, CallsInv
<1>10. ASSUME NEW c \in Chunks, Supply(c) PROVE CallsInv' /\ Store!Next
  BY <1>10 DEF Supply, Store!Supply, Store!storeVars, Store!Next, CallsInv
<1>11. CASE ReleaseFrames
  BY <1>11 DEF ReleaseFrames, Store!Next, CallsInv
<1>12. CASE ReleaseDirector
  BY <1>1, <1>12 DEF ReleaseDirector, CallsInv
<1>13. CASE UNCHANGED vars
  BY <1>1, <1>13 DEF vars, CallsInv
<1>14. QED
  BY <1>4, <1>5, <1>6, <1>7, <1>8, <1>9, <1>10, <1>11, <1>12, <1>13
     DEF Next, Capture, Handle, Handler, Generator, Release, Done

(* The director calls the store only as its contract allows, whatever fails:   *)
(* no id is removed twice or before it was handed out, and nothing is called  *)
(* after the release (director.c:305-360, 523).                              *)
THEOREM DirectorUsesStore == Spec => UsesStore
<1>1. Init => CallsInv /\ Store!Init
  BY DEF Init, CallsInv, Store!Init
<1>2. QED
  BY <1>1, StoreSteps, PTL DEF Spec, UsesStore, Store!Spec

LEMMA StoreInvariantHolds == Spec => []StoreProofs!IInv
BY DirectorUsesStore, StoreHolds, PTL DEF UsesStore

-----------------------------------------------------------------------------
(* Loops: types, owners, positions. *)

Owned ==
    /\ handlers \cup ToSet(loops) \subseteq alive
    /\ handlers \cap ToSet(loops) = {}
    /\ p_current_loop \notin handlers \cup ToSet(loops)
    /\ IsInjective(loops)

Positions ==
    /\ \A l \in Loops :
          loop[l].next_frame = 0 \/ loop[l].next_frame < loop[l].frame_count
    /\ pc # "released" =>
          /\ \A l \in handlers \cup ToSet(loops) : loop[l].frame_count >= MinFrames
          /\ ToSet(playing_loops) \subseteq ToSet(loops) \cup {Null}

DInv ==
    /\ TypeOK
    /\ is_recording => invalid_frame_count <= Patience
    /\ pc # "released" => Owned
    /\ Positions

LEMMA Constants ==
    /\ MinFrames \in Nat \ {0} /\ Patience \in Nat /\ MaxLayers \in Nat \ {0}
    /\ Null \notin Loops
BY DirectorAssumption DEF DirectorAssumption, Null, Store!Null

LEMMA Appended ==
    ASSUME NEW S, NEW s \in Seq(S), NEW x \in S
    PROVE  /\ Append(s, x) \in Seq(S)
           /\ ToSet(Append(s, x)) = ToSet(s) \cup {x}
           /\ IsInjective(s) /\ x \notin ToSet(s) => IsInjective(Append(s, x))
<1>1. /\ Append(s, x) \in Seq(S) /\ DOMAIN s = 1 .. Len(s) /\ Len(s) \in Nat
      /\ DOMAIN Append(s, x) = 1 .. Len(s) + 1
      /\ Append(s, x)[Len(s) + 1] = x
      /\ \A i \in 1 .. Len(s) : Append(s, x)[i] = s[i]
  OBVIOUS
<1>2. ToSet(Append(s, x)) = ToSet(s) \cup {x}
  BY <1>1 DEF ToSet
<1>3. ASSUME IsInjective(s), x \notin ToSet(s) PROVE IsInjective(Append(s, x))
  BY <1>1, <1>3 DEF ToSet, IsInjective
<1>4. QED
  BY <1>1, <1>2, <1>3

(* What is known of the frame being handled. *)
LEMMA FrameKnown ==
    ASSUME StoreProofs!IInv, frame_id \in handed
    PROVE  /\ frame_id \in Nat
           /\ Store!Frame(frame_id) \in Chunks
           /\ content[Store!Frame(frame_id)]["meta"] \in Timestamps
<1>1. /\ frame_id \in StoreProofs!Ids /\ frames \in Seq(Chunks \cup {StoreProofs!Null})
      /\ held \in SUBSET Chunks
      /\ content \in [Chunks -> [StoreProofs!Fields -> Timestamps \cup {StoreProofs!Unset}]]
  BY DEF StoreProofs!IInv, StoreProofs!TypeOK
<1>2. frame_id \in Nat
  BY <1>1 DEF StoreProofs!Ids
<1>3. Store!Frame(frame_id) \in Chunks
  BY <1>1 DEF StoreProofs!IInv, StoreProofs!HandedPrivate, Store!Frame, StoreProofs!Frame
<1>4. "meta" \in StoreProofs!Parts /\ "timestamp" \in StoreProofs!Fields
      /\ "meta" \in StoreProofs!Fields
  BY DEF StoreProofs!Parts, StoreProofs!Fields
<1>5. /\ content[Store!Frame(frame_id)]["meta"] = content[Store!Frame(frame_id)]["timestamp"]
      /\ content[Store!Frame(frame_id)]["timestamp"] # StoreProofs!Unset
  BY <1>4 DEF StoreProofs!IInv, StoreProofs!WholeFrames, Store!Frame, StoreProofs!Frame
<1>6. content[Store!Frame(frame_id)]["meta"] \in Timestamps \cup {StoreProofs!Unset}
  BY <1>1, <1>3, <1>4
<1>7. QED
  BY <1>2, <1>3, <1>5, <1>6

(* Appending a frame touches one loop, and not its position. *)
LEMMA Appending ==
    ASSUME TypeOK, StoreProofs!IInv, frame_id \in handed, NEW l \in Loops,
           NEW n \in 0 .. 4, Append4(l, n)
    PROVE  /\ loop' \in [Loops -> LoopType]
           /\ \A k \in Loops \ {l} : loop'[k] = loop[k]
           /\ loop'[l].next_frame = loop[l].next_frame
           /\ loop'[l].frame_count \in {loop[l].frame_count, loop[l].frame_count + 1}
           /\ ToSet(loop'[l].video_addresses)
                 \subseteq ToSet(loop[l].video_addresses) \cup {Store!Frame(frame_id)}
           /\ ToSet(loop'[l].depth_addresses)
                 \subseteq ToSet(loop[l].depth_addresses) \cup {Store!Frame(frame_id)}
<1> DEFINE grown(s, x, i) == IF i <= n THEN Append(s, x) ELSE s
           chunk == Store!Frame(frame_id)
           new == [video_addresses |-> grown(loop[l].video_addresses, chunk, 1),
                   depth_addresses |-> grown(loop[l].depth_addresses, chunk, 2),
                   cutoffs |-> grown(loop[l].cutoffs, content[chunk]["meta"], 3),
                   frame_ids |-> grown(loop[l].frame_ids, frame_id, 4),
                   next_frame |-> loop[l].next_frame,
                   frame_count |-> IF n = 4 THEN loop[l].frame_count + 1
                                   ELSE loop[l].frame_count]
<1>1. loop \in [Loops -> LoopType]
  BY DEF TypeOK
<1>2. /\ loop[l] \in LoopType
      /\ loop[l].video_addresses \in Seq(Chunks) /\ loop[l].depth_addresses \in Seq(Chunks)
      /\ loop[l].cutoffs \in Seq(Timestamps) /\ loop[l].frame_ids \in Seq(Nat)
      /\ loop[l].next_frame \in Nat /\ loop[l].frame_count \in Nat
  BY <1>1 DEF LoopType
<1>3. loop' = [loop EXCEPT ![l] = new]
  BY <1>1 DEF Append4
<1>4. /\ frame_id \in Nat /\ chunk \in Chunks
      /\ content[chunk]["meta"] \in Timestamps
  BY FrameKnown
<1>5. new \in LoopType
  BY <1>2, <1>4 DEF LoopType
<1>6. ToSet(grown(loop[l].video_addresses, chunk, 1))
          \subseteq ToSet(loop[l].video_addresses) \cup {chunk}
  BY <1>2, <1>4, Appended
<1>7. ToSet(grown(loop[l].depth_addresses, chunk, 2))
          \subseteq ToSet(loop[l].depth_addresses) \cup {chunk}
  BY <1>2, <1>4, Appended
<1>8. loop'[l] = new /\ \A k \in Loops \ {l} : loop'[k] = loop[k]
  BY <1>1, <1>3
<1>9. /\ new.video_addresses = grown(loop[l].video_addresses, chunk, 1)
      /\ new.depth_addresses = grown(loop[l].depth_addresses, chunk, 2)
      /\ new.next_frame = loop[l].next_frame
      /\ new.frame_count \in {loop[l].frame_count, loop[l].frame_count + 1}
  OBVIOUS
<1>10. loop' \in [Loops -> LoopType]
  BY <1>1, <1>3, <1>5
<1> HIDE DEF new, grown
<1>11. QED
  BY <1>6, <1>7, <1>8, <1>9, <1>10

LEMMA EmptyLoopType ==
    /\ EmptyLoop \in LoopType
    /\ EmptyLoop.next_frame = 0
    /\ ToSet(EmptyLoop.video_addresses) = {} /\ ToSet(EmptyLoop.depth_addresses) = {}
<1>1. EmptyLoop \in LoopType
  BY DEF EmptyLoop, LoopType
<1>2. QED
  BY <1>1 DEF EmptyLoop, ToSet

LEMMA DiscardedType ==
    ASSUME TypeOK, NEW l \in Loops
    PROVE  Discarded(l) \in SUBSET Nat
<1>1. loop[l].frame_ids \in Seq(Nat) /\ discarded \in SUBSET Nat
  BY DEF TypeOK, LoopType
<1>2. PICK ids : ids = loop[l].frame_ids
  OBVIOUS
<1>3. ids \in Seq(Nat) /\ \A i \in 1 .. Len(ids) : ids[i] \in Nat
  BY <1>1, <1>2
<1>4. {ids[i] : i \in 1 .. Len(ids)} \in SUBSET Nat
  BY <1>3
<1>5. QED
  BY <1>1, <1>2, <1>4 DEF Discarded

(* malloc gives the director's next loop no address that is in use. *)
LEMMA NextLoopFresh ==
    ASSUME NEW left \in SUBSET Loops, NEW base \in [Loops -> LoopType],
           NextLoop(left, base)
    PROVE  /\ alive' \in SUBSET Loops /\ left \subseteq alive'
           /\ p_current_loop' \in Loops \cup {Null} /\ p_current_loop' \notin left
           /\ alive' \subseteq left \cup {p_current_loop'}
           /\ loop' \in [Loops -> LoopType]
           /\ \A k \in left : loop'[k] = base[k]
           /\ \A k \in Loops : loop'[k] \in {base[k], EmptyLoop}
           /\ p_current_loop' \in alive' => loop'[p_current_loop'] = EmptyLoop
<1>1. ASSUME NEW l \in Loops \ left,
             alive' = left \cup {l}, p_current_loop' = l,
             loop' = [base EXCEPT ![l] = EmptyLoop]
      PROVE  /\ loop' \in [Loops -> LoopType]
             /\ \A k \in left : loop'[k] = base[k]
             /\ \A k \in Loops : loop'[k] \in {base[k], EmptyLoop}
             /\ loop'[l] = EmptyLoop
  BY <1>1, EmptyLoopType
<1>2. CASE alive' = left /\ p_current_loop' = Null /\ loop' = base
  BY <1>2, Constants
<1>3. QED
  BY <1>1, <1>2 DEF NextLoop

-----------------------------------------------------------------------------
(* Each step preserves DInv. *)

\* A step that leaves the loops alone.
LEMMA OthersDInv ==
    ASSUME DInv, UNCHANGED <<loopVars, recordVars>>,
           crashed' \in BOOLEAN,
           pc' \in {"idle", "meta", "frame", "releasing", "released"},
           pc' = "released" \/ pc # "released"
    PROVE  DInv'
<1>1. UNCHANGED <<loop, alive, p_current_loop, loops, playing_loops, handlers,
                  discarded, is_recording, invalid_frame_count>>
  BY DEF loopVars, recordVars
<1>2. TypeOK'
  BY <1>1 DEF DInv, TypeOK
<1>3. Owned => Owned'
  BY <1>1 DEF Owned
<1>4. Positions'
  BY <1>1 DEF DInv, Positions
<1>5. QED
  BY <1>1, <1>2, <1>3, <1>4 DEF DInv

(* A recorded frame goes to the end of the current loop, or nothing changes. *)
LEMMA RecordOne ==
    ASSUME TypeOK, StoreProofs!IInv, frame_id \in handed,
           NEW valid \in BOOLEAN, RecordFrame(valid)
    PROVE  /\ loop' \in [Loops -> LoopType]
           /\ crashed' \in BOOLEAN
           /\ \A k \in Loops \ {p_current_loop} : loop'[k] = loop[k]
           /\ \A k \in Loops :
                 /\ loop'[k].next_frame = loop[k].next_frame
                 /\ loop'[k].frame_count
                       \in {loop[k].frame_count, loop[k].frame_count + 1}
                 /\ ToSet(loop'[k].video_addresses) \subseteq
                       ToSet(loop[k].video_addresses) \cup {Store!Frame(frame_id)}
                 /\ ToSet(loop'[k].depth_addresses) \subseteq
                       ToSet(loop[k].depth_addresses) \cup {Store!Frame(frame_id)}
<1>1. crashed' \in BOOLEAN
  BY Zenon DEF RecordFrame, TypeOK
<1>2. CASE p_current_loop \in alive
  <2>1. PICK n \in 0 .. 4 : Append4(p_current_loop, n)
    <3>1. 4 \in 0 .. 4
      OBVIOUS
    <3>2. PICK m \in IF "malloc append" \in Faults THEN 0 .. 4 ELSE {4} :
              Append4(p_current_loop, m)
      BY <1>2, Zenon DEF RecordFrame
    <3>3. m \in 0 .. 4
      BY <3>1, <3>2, Zenon
    <3>4. QED
      BY <3>2, <3>3, Zenon
  <2>2. p_current_loop \in Loops
    BY <1>2 DEF TypeOK
  <2>3. /\ loop' \in [Loops -> LoopType]
        /\ \A k \in Loops \ {p_current_loop} : loop'[k] = loop[k]
        /\ loop'[p_current_loop].next_frame = loop[p_current_loop].next_frame
        /\ loop'[p_current_loop].frame_count
              \in {loop[p_current_loop].frame_count, loop[p_current_loop].frame_count + 1}
        /\ ToSet(loop'[p_current_loop].video_addresses) \subseteq
              ToSet(loop[p_current_loop].video_addresses) \cup {Store!Frame(frame_id)}
        /\ ToSet(loop'[p_current_loop].depth_addresses) \subseteq
              ToSet(loop[p_current_loop].depth_addresses) \cup {Store!Frame(frame_id)}
    BY <2>1, <2>2, Appending
  <2>4. ASSUME NEW k \in Loops, k # p_current_loop PROVE loop'[k] = loop[k]
    BY <2>3, <2>4
  <2>5. QED
    BY <1>1, <2>3, <2>4
<1>3. CASE p_current_loop \notin alive
  <2>1. loop' = loop
    BY <1>3 DEF RecordFrame
  <2>2. QED
    BY <1>1, <2>1 DEF TypeOK
<1>4. QED
  BY <1>2, <1>3

LEMMA RecordDInv ==
    ASSUME DInv, StoreProofs!IInv, frame_id \in handed, pc = "frame", pc' = "idle",
           NEW valid \in BOOLEAN, RecordFrame(valid)
    PROVE  DInv'
<1>1. /\ UNCHANGED <<alive, p_current_loop, loops, playing_loops, handlers, discarded>>
      /\ is_recording' = TRUE
      /\ invalid_frame_count' = IF valid THEN 0 ELSE invalid_frame_count + 1
      /\ valid \/ Patient
  BY DEF RecordFrame
<1>2. TypeOK /\ Owned /\ Positions
  BY DEF DInv
<1>3. invalid_frame_count' \in 0 .. Patience
  BY <1>1, <1>2, Constants DEF Patient, TypeOK
<1>4. /\ loop' \in [Loops -> LoopType]
      /\ crashed' \in BOOLEAN
      /\ \A k \in Loops : /\ loop'[k].next_frame = loop[k].next_frame
                          /\ loop'[k].frame_count
                                \in {loop[k].frame_count, loop[k].frame_count + 1}
  BY <1>2, RecordOne
<1>5. TypeOK'
  BY <1>1, <1>2, <1>3, <1>4, Constants DEF TypeOK
<1>6. Owned'
  BY <1>1, <1>2 DEF Owned
<1>7. Positions'
  <2>1. \A k \in Loops : loop[k].frame_count \in Nat /\ loop[k].next_frame \in Nat
    BY <1>2 DEF TypeOK, LoopType
  <2>2. handlers \cup ToSet(loops) \subseteq Loops
    BY <1>2 DEF Owned, TypeOK
  <2>3. QED
    BY <1>1, <1>2, <1>4, <2>1, <2>2, Constants DEF Positions
<1>8. QED
  BY <1>1, <1>3, <1>5, <1>6, <1>7 DEF DInv

(* What the end of a recording leaves, in each of its three outcomes. *)
EndedLoops ==
    /\ loop' \in [Loops -> LoopType]
    /\ \A k \in Loops : loop'[k] \in {loop[k], EmptyLoop}
    /\ \A k \in handlers' \cup ToSet(loops) : loop'[k] = loop[k]
    /\ \A k \in alive' : (k \in alive /\ loop'[k] = loop[k]) \/ loop'[k] = EmptyLoop
EndedOwners ==
    /\ alive' \in SUBSET Loops /\ p_current_loop' \in Loops \cup {Null}
    /\ handlers' \cup ToSet(loops) \subseteq alive'
    /\ handlers' \cap ToSet(loops) = {}
    /\ p_current_loop' \notin handlers' \cup ToSet(loops)
    /\ handlers' \subseteq handlers \cup {p_current_loop}
    /\ p_current_loop \in handlers' => loop[p_current_loop].frame_count >= MinFrames
Ended == EndedLoops /\ EndedOwners /\ discarded' \in SUBSET Nat

LEMMA EndEnds ==
    ASSUME DInv, pc = "frame", NEW valid \in BOOLEAN, EndLoop(valid)
    PROVE  Ended
<1>2. TypeOK /\ Owned
  BY DEF DInv
<1>4. /\ loop \in [Loops -> LoopType] /\ alive \in SUBSET Loops
      /\ discarded \in SUBSET Nat /\ p_current_loop \in Loops \cup {Null}
      /\ handlers \cup ToSet(loops) \subseteq alive
      /\ handlers \cap ToSet(loops) = {}
      /\ p_current_loop \notin handlers \cup ToSet(loops)
  BY <1>2 DEF TypeOK, Owned
<1>5. ASSUME p_current_loop \notin alive PROVE Ended
  <2>1. UNCHANGED <<loop, alive, p_current_loop, handlers, discarded>>
    BY <1>5 DEF EndLoop
  <2>2. EndedLoops
    BY <1>4, <2>1 DEF EndedLoops
  <2>3. EndedOwners
    BY <1>4, <2>1 DEF EndedOwners
  <2>4. discarded' \in SUBSET Nat
    BY <1>4, <2>1
  <2>5. QED
    BY <2>2, <2>3, <2>4, Zenon DEF Ended
<1>6. ASSUME p_current_loop \in alive PROVE Ended
  <2> DEFINE emptied == [loop EXCEPT ![p_current_loop] = EmptyLoop]
  <2>1. KeepLoop \/ LoseLoop \/ DiscardLoop
    BY <1>6 DEF EndLoop
  <2>2. p_current_loop \in Loops /\ Discarded(p_current_loop) \in SUBSET Nat
    BY <1>2, <1>4, <1>6, DiscardedType
  <2>3. /\ emptied \in [Loops -> LoopType]
        /\ emptied[p_current_loop] = EmptyLoop
        /\ \A k \in Loops \ {p_current_loop} : emptied[k] = loop[k]
    BY <1>4, <2>2, EmptyLoopType
  <2>4. CASE KeepLoop
    <3>1. /\ loop[p_current_loop].frame_count >= MinFrames
          /\ handlers' = handlers \cup {p_current_loop}
          /\ discarded' = discarded
          /\ NextLoop(alive, loop)
      BY <2>4 DEF KeepLoop
    <3>2. /\ alive' \in SUBSET Loops /\ alive \subseteq alive'
          /\ p_current_loop' \in Loops \cup {Null} /\ p_current_loop' \notin alive
          /\ loop' \in [Loops -> LoopType]
          /\ \A k \in alive : loop'[k] = loop[k]
          /\ \A k \in Loops : loop'[k] \in {loop[k], EmptyLoop}
          /\ alive' \subseteq alive \cup {p_current_loop'}
          /\ p_current_loop' \in alive' => loop'[p_current_loop'] = EmptyLoop
      BY <1>4, <3>1, NextLoopFresh
    <3>3. EndedLoops
      BY <1>4, <1>6, <3>1, <3>2 DEF EndedLoops
    <3>4. EndedOwners
      BY <1>4, <1>6, <3>1, <3>2 DEF EndedOwners
    <3>5. discarded' \in SUBSET Nat
      BY <1>4, <3>1
    <3>6. QED
      BY <3>3, <3>4, <3>5, Zenon DEF Ended
  <2>5. CASE LoseLoop
    <3>1. /\ alive' = alive \ {p_current_loop}
          /\ discarded' = Discarded(p_current_loop)
          /\ loop' = emptied
          /\ UNCHANGED <<handlers, p_current_loop>>
      BY <2>5 DEF LoseLoop
    <3> HIDE DEF emptied
    <3>2. EndedLoops
      BY <1>4, <2>2, <2>3, <3>1 DEF EndedLoops
    <3>3. EndedOwners
      BY <1>4, <2>2, <3>1 DEF EndedOwners
    <3>4. discarded' \in SUBSET Nat
      BY <2>2, <3>1
    <3>5. QED
      BY <3>2, <3>3, <3>4, Zenon DEF Ended
  <2>6. CASE DiscardLoop
    <3>1. /\ discarded' = Discarded(p_current_loop)
          /\ NextLoop(alive \ {p_current_loop}, emptied)
          /\ handlers' = handlers
      BY <2>6 DEF DiscardLoop
    <3> HIDE DEF emptied
    <3>2. PICK left : left = alive \ {p_current_loop}
      OBVIOUS
    <3>3. /\ alive' \in SUBSET Loops /\ left \subseteq alive'
          /\ p_current_loop' \in Loops \cup {Null} /\ p_current_loop' \notin left
          /\ loop' \in [Loops -> LoopType]
          /\ \A k \in left : loop'[k] = emptied[k]
          /\ \A k \in Loops : loop'[k] \in {emptied[k], EmptyLoop}
          /\ alive' \subseteq left \cup {p_current_loop'}
          /\ p_current_loop' \in alive' => loop'[p_current_loop'] = EmptyLoop
      BY <1>4, <2>3, <3>1, <3>2, NextLoopFresh
    <3>4. handlers' \cup ToSet(loops) \subseteq left
      BY <1>4, <3>1, <3>2
    <3>5. EndedLoops
      BY <1>4, <2>2, <2>3, <3>2, <3>3, <3>4 DEF EndedLoops
    <3>6. EndedOwners
      BY <1>4, <3>1, <3>2, <3>3, <3>4 DEF EndedOwners
    <3>7. discarded' \in SUBSET Nat
      BY <2>2, <3>1
    <3>8. QED
      BY <3>5, <3>6, <3>7, Zenon DEF Ended
  <2>7. QED
    BY <2>1, <2>4, <2>5, <2>6
<1>7. QED
  BY <1>5, <1>6, Zenon

LEMMA EndDInv ==
    ASSUME DInv, pc = "frame", pc' = "idle", NEW valid \in BOOLEAN, EndLoop(valid)
    PROVE  DInv'
<1>1. /\ UNCHANGED <<loops, playing_loops>>
      /\ is_recording' = FALSE
      /\ invalid_frame_count' = invalid_frame_count + 1
      /\ is_recording
  BY DEF EndLoop
<1>2. TypeOK /\ Owned /\ Positions
  BY DEF DInv
<1>3. invalid_frame_count' \in 0 .. Patience + 1
  BY <1>1, <1>2, Constants DEF DInv, TypeOK
<1>7. Ended
  BY EndEnds
<1>8. TypeOK'
  <2>1. crashed' \in BOOLEAN
    BY <1>2, Zenon DEF EndLoop, TypeOK
  <2>2. QED
    BY <1>1, <1>2, <1>3, <1>7, <2>1
       DEF TypeOK, Ended, EndedLoops, EndedOwners
<1>9. Owned'
  BY <1>1, <1>2, <1>7 DEF Owned, Ended, EndedOwners
<1>10. Positions'
  <2>1. handlers' \cup ToSet(loops) \subseteq Loops
    BY <1>7 DEF Ended, EndedOwners
  <2>2. \A k \in Loops : loop'[k].next_frame = 0
                         \/ loop'[k].next_frame < loop'[k].frame_count
    BY <1>2, <1>7, EmptyLoopType DEF Positions, Ended, EndedLoops
  <2>3. \A k \in handlers' \cup ToSet(loops) : loop'[k].frame_count >= MinFrames
    BY <1>2, <1>7, <2>1 DEF Positions, Ended, EndedLoops, EndedOwners
  <2>4. QED
    BY <1>1, <1>2, <2>2, <2>3 DEF Positions
<1>11. QED
  BY <1>1, <1>8, <1>9, <1>10 DEF DInv

LEMMA PublishDInv ==
    ASSUME DInv, NEW l \in Loops, Publish(l)
    PROVE  DInv'
<1>1. /\ UNCHANGED <<p_current_loop, playing_loops, is_recording,
                     invalid_frame_count, pc>>
      /\ l \in handlers /\ handlers' = handlers \ {l}
  BY DEF Publish, recordVars
<1>2. TypeOK /\ (pc # "released" => Owned) /\ Positions
  BY DEF DInv
<1>3. crashed' \in BOOLEAN
  BY <1>2, Zenon DEF Publish, TypeOK
<1>4. /\ loop \in [Loops -> LoopType] /\ loops \in Seq(Loops)
  BY <1>2 DEF TypeOK
<1>5. CASE UNCHANGED <<loop, alive, loops, discarded>>
  <2>1. TypeOK'
    BY <1>1, <1>2, <1>3, <1>5 DEF TypeOK
  <2>2. Owned => Owned'
    BY <1>1, <1>5 DEF Owned
  <2>3. Positions'
    BY <1>1, <1>2, <1>5 DEF Positions
  <2>4. QED
    BY <1>1, <1>2, <2>1, <2>2, <2>3 DEF DInv
<1>6. CASE /\ pc # "released"
           /\ loops' = Append(loops, l)
           /\ UNCHANGED <<loop, alive, discarded>>
  <2>1. Owned
    BY <1>2, <1>6
  <2>2. l \notin ToSet(loops)
    BY <1>1, <2>1 DEF Owned
  <2>3. loops' \in Seq(Loops) /\ ToSet(loops') = ToSet(loops) \cup {l}
        /\ (IsInjective(loops) => IsInjective(loops'))
    BY <1>4, <1>6, <2>2, Appended
  <2>4. TypeOK'
    BY <1>1, <1>2, <1>3, <1>6, <2>3 DEF TypeOK
  <2>5. Owned'
    BY <1>1, <1>6, <2>1, <2>3 DEF Owned
  <2>6. Positions'
    BY <1>1, <1>2, <1>6, <2>3 DEF Positions
  <2>7. QED
    BY <1>1, <1>2, <2>4, <2>5, <2>6 DEF DInv
<1>7. CASE /\ pc # "released"
           /\ alive' = alive \ {l}
           /\ discarded' = Discarded(l)
           /\ loop' = [loop EXCEPT ![l] = EmptyLoop]
           /\ UNCHANGED loops
  <2>1. Owned
    BY <1>2, <1>7
  <2>2. loop' \in [Loops -> LoopType] /\ loop'[l] = EmptyLoop
        /\ \A k \in Loops \ {l} : loop'[k] = loop[k]
    BY <1>4, <1>7, EmptyLoopType
  <2>3. discarded' \in SUBSET Nat
    BY <1>2, <1>7, DiscardedType
  <2>4. TypeOK'
    BY <1>1, <1>2, <1>3, <1>7, <2>2, <2>3 DEF TypeOK
  <2>5. Owned'
    BY <1>1, <1>7, <2>1 DEF Owned
  <2>6. Positions'
    <3>1. handlers \cup ToSet(loops) \subseteq Loops /\ l \notin ToSet(loops)
      BY <1>1, <1>2, <2>1 DEF Owned, TypeOK
    <3>2. \A k \in Loops : loop'[k].next_frame = 0
                           \/ loop'[k].next_frame < loop'[k].frame_count
      BY <1>2, <2>2, EmptyLoopType DEF Positions
    <3>3. \A k \in handlers' \cup ToSet(loops) : loop'[k].frame_count >= MinFrames
      BY <1>1, <1>2, <1>7, <2>2, <3>1 DEF Positions
    <3>4. QED
      BY <1>1, <1>2, <1>7, <3>2, <3>3 DEF Positions
  <2>7. QED
    BY <1>1, <1>2, <2>4, <2>5, <2>6 DEF DInv
<1>8. QED
  BY <1>5, <1>6, <1>7 DEF Publish

LEMMA ReleaseDirectorDInv == DInv /\ ReleaseDirector => DInv'
<1> SUFFICES ASSUME DInv, ReleaseDirector PROVE DInv'
  OBVIOUS
<1>1. /\ UNCHANGED <<loop, p_current_loop, playing_loops, handlers, discarded,
                     is_recording, invalid_frame_count>>
      /\ alive' = alive \ {p_current_loop} /\ loops' = <<>> /\ pc' = "released"
  BY DEF ReleaseDirector, recordVars
<1>2. crashed' \in BOOLEAN
  BY Zenon DEF ReleaseDirector
<1>3. TypeOK'
  BY <1>1, <1>2 DEF DInv, TypeOK
<1>4. Positions'
  BY <1>1 DEF DInv, Positions
<1>5. QED
  BY <1>1, <1>3, <1>4 DEF DInv

-----------------------------------------------------------------------------
(* Playback. *)

LEMMA Modulo ==
    ASSUME NEW a \in Nat, NEW b \in Nat \ {0}
    PROVE  a % b \in 0 .. b - 1
OBVIOUS

(* A position that is moved on stays within its loop. *)
LEMMA AdvancedWithin ==
    ASSUME DInv, pc # "released", NEW l \in ToSet(loops), NEW n \in Nat
    PROVE  Advanced(l, n) \in 0 .. loop[l].frame_count - 1
<1>1. l \in Loops /\ loop[l].frame_count >= MinFrames
  BY DEF DInv, Owned, Positions, TypeOK
<1>2. loop[l].frame_count \in Nat /\ loop[l].next_frame \in Nat
  BY <1>1 DEF DInv, TypeOK, LoopType
<1>3. PICK a : a = loop[l].next_frame + n
  OBVIOUS
<1>4. a \in Nat /\ loop[l].frame_count \in Nat \ {0}
  BY <1>1, <1>2, <1>3, Constants
<1>5. a % loop[l].frame_count \in 0 .. loop[l].frame_count - 1
  BY <1>4, Modulo
<1>6. QED
  BY <1>3, <1>5 DEF Advanced

LEMMA LayersCounted ==
    ASSUME NEW playing, NEW l
    PROVE  Cardinality(LayersOf(playing, l)) \in Nat
<1>1. IsFiniteSet(1 .. MaxLayers)
  BY Constants, FS_Interval
<1>2. LayersOf(playing, l) \in SUBSET (1 .. MaxLayers)
  BY DEF LayersOf
<1>3. QED
  BY <1>1, <1>2, FS_Subset, FS_CardinalityType

(* Playback changes nothing of a loop but its position. *)
LEMMA PlayMoves ==
    ASSUME DInv, NEW playing \in Filled, Play(playing), NEW l \in Loops
    PROVE  /\ loop'[l] = [loop[l] EXCEPT !.next_frame = loop'[l].next_frame]
           /\ loop'[l] \in LoopType
           /\ loop'[l].frame_count = loop[l].frame_count
           /\ \/ loop'[l].next_frame = loop[l].next_frame
              \/ loop'[l].next_frame < loop[l].frame_count
<1>1. loop[l] \in LoopType
  BY DEF DInv, TypeOK
<1>2. loop'[l] = IF LayersOf(playing, l) = {} THEN loop[l]
                 ELSE [loop[l] EXCEPT !.next_frame =
                          Advanced(l, Cardinality(LayersOf(playing, l)))]
  BY DEF Play
<1>3. CASE LayersOf(playing, l) = {}
  BY <1>1, <1>2, <1>3 DEF LoopType
<1>4. CASE LayersOf(playing, l) # {}
  <2>1. l \in ToSet(loops)
    BY <1>4 DEF LayersOf, Filled
  <2>2. pc # "released"
    BY DEF Play
  <2>3. PICK next : next = Advanced(l, Cardinality(LayersOf(playing, l)))
    OBVIOUS
  <2>4. next \in 0 .. loop[l].frame_count - 1
    BY <2>1, <2>2, <2>3, AdvancedWithin, LayersCounted
  <2>5. loop'[l] = [loop[l] EXCEPT !.next_frame = next]
    BY <1>2, <1>4, <2>3
  <2>6. next \in Nat /\ next < loop[l].frame_count
    BY <1>1, <2>4 DEF LoopType
  <2>7. PICK old \in LoopType : old = loop[l]
    BY <1>1
  <2>8. PICK new : new = [old EXCEPT !.next_frame = next]
    OBVIOUS
  <2>9. new \in LoopType /\ new.next_frame = next /\ new.frame_count = old.frame_count
    BY <2>6, <2>8 DEF LoopType
  <2>10. QED
    BY <2>5, <2>6, <2>7, <2>8, <2>9, Zenon
<1>5. QED
  BY <1>3, <1>4

LEMMA PlayDInv ==
    ASSUME DInv, NEW playing \in Filled, Play(playing)
    PROVE  DInv'
<1>1. /\ UNCHANGED <<alive, p_current_loop, loops, handlers, discarded,
                     is_recording, invalid_frame_count, pc, crashed>>
      /\ pc = "idle"
      /\ playing_loops' = [i \in 1 .. MaxLayers |->
            IF Advanced(playing[i], Before(playing, i) + 1) = 0
            THEN Null ELSE playing[i]]
  BY DEF Play, recordVars
<1>2. TypeOK /\ Owned /\ Positions
  BY <1>1 DEF DInv
<1>3. playing \in [1 .. MaxLayers -> ToSet(loops)]
  BY DEF Filled
<1>4. /\ playing_loops' \in [1 .. MaxLayers -> ToSet(loops) \cup {Null}]
      /\ ToSet(playing_loops') \subseteq ToSet(loops) \cup {Null}
  BY <1>1, <1>3 DEF ToSet
<1>5. handlers \cup ToSet(loops) \subseteq Loops
  BY <1>2 DEF Owned, TypeOK
<1>6. loop' \in [Loops -> LoopType]
  <2>1. loop' = [l \in Loops |-> loop'[l]]
    BY DEF Play
  <2>2. QED
    BY <2>1, PlayMoves
<1>7. TypeOK'
  BY <1>1, <1>2, <1>4, <1>5, <1>6 DEF TypeOK
<1>8. Owned'
  BY <1>1, <1>2 DEF Owned
<1>9. Positions'
  BY <1>1, <1>2, <1>4, <1>5, PlayMoves DEF Positions
<1>10. QED
  BY <1>1, <1>7, <1>8, <1>9 DEF DInv

-----------------------------------------------------------------------------
LEMMA InitDInv == Init => DInv
<1> SUFFICES ASSUME Init PROVE DInv
  OBVIOUS
<1>1. PICK l \in Loops : alive = {l} /\ p_current_loop = l
  BY DEF Init
<1>2. /\ loop = [k \in Loops |-> EmptyLoop] /\ loops = <<>>
      /\ playing_loops = [i \in 1 .. MaxLayers |-> Null]
      /\ handlers = {} /\ discarded = {}
      /\ is_recording = FALSE /\ invalid_frame_count = 0
      /\ pc = "idle" /\ crashed = FALSE
  BY DEF Init
<1>3. ToSet(loops) = {} /\ ToSet(playing_loops) \subseteq {Null} /\ IsInjective(loops)
  BY <1>2 DEF ToSet, IsInjective
<1>4. TypeOK
  <2>1. loop \in [Loops -> LoopType] /\ loops \in Seq(Loops)
    BY <1>2, EmptyLoopType
  <2>2. playing_loops \in [1 .. MaxLayers -> Loops \cup {Null}]
    BY <1>2
  <2>3. invalid_frame_count \in 0 .. Patience + 1
    BY <1>2, Constants
  <2>4. crashed \in BOOLEAN /\ is_recording \in BOOLEAN
    BY <1>2, Zenon
  <2>5. QED
    BY <1>1, <1>2, <2>1, <2>2, <2>3, <2>4 DEF TypeOK
<1>5. Owned
  BY <1>1, <1>2, <1>3 DEF Owned
<1>6. Positions
  BY <1>2, <1>3, EmptyLoopType DEF Positions
<1>7. QED
  BY <1>2, <1>4, <1>5, <1>6 DEF DInv

LEMMA DInvStep ==
    DInv /\ CallsInv /\ StoreProofs!IInv /\ [Next]_vars => DInv'
<1> SUFFICES ASSUME DInv, CallsInv, StoreProofs!IInv, [Next]_vars PROVE DInv'
  OBVIOUS
<1>1. ASSUME UNCHANGED <<loopVars, recordVars, crashed>>,
             pc' \in {"idle", "meta", "frame", "releasing", "released"},
             pc' = "released" \/ pc # "released"
      PROVE  DInv'
  <2>1. crashed' \in BOOLEAN
    BY <1>1, Zenon DEF DInv, TypeOK
  <2>2. QED
    BY <1>1, <2>1, OthersDInv
<1>2. pc \in {"idle", "meta", "frame", "releasing", "released"}
  BY DEF DInv, TypeOK
<1>3. CASE Capture
  BY <1>1, <1>3 DEF Capture, CaptureVideo, CaptureDepth, CaptureMeta, MayCapture
<1>4. ASSUME NEW valid \in BOOLEAN, HandleFrame(valid) PROVE DInv'
  <2>1. pc = "frame" /\ pc' = "idle" /\ frame_id \in handed
    BY <1>4 DEF HandleFrame, CallsInv
  <2>2. CASE RecordFrame(valid)
    BY <2>1, <2>2, RecordDInv
  <2>3. CASE DropFrame(valid)
    BY <1>1, <2>1, <2>3 DEF DropFrame
  <2>4. CASE EndLoop(valid)
    BY <2>1, <2>4, EndDInv
  <2>5. QED
    BY <1>4, <2>2, <2>3, <2>4 DEF HandleFrame
<1>5. CASE Playback
  BY <1>5, PlayDInv DEF Playback
<1>6. CASE Handler
  BY <1>6, PublishDInv DEF Handler
<1>7. CASE Generator
  BY <1>1, <1>2, <1>7 DEF Generator, Supply
<1>8. CASE ReleaseFrames
  BY <1>1, <1>8 DEF ReleaseFrames
<1>9. CASE ReleaseDirector
  BY <1>9, ReleaseDirectorDInv
<1>10. CASE UNCHANGED vars
  BY <1>1, <1>2, <1>10 DEF vars
<1>11. QED
  BY <1>3, <1>4, <1>5, <1>6, <1>7, <1>8, <1>9, <1>10 DEF Next, Handle, Release, Done

LEMMA CallsHold == Spec => []CallsInv
<1>1. Init => CallsInv
  BY DEF Init, CallsInv
<1>2. QED
  BY <1>1, StoreSteps, PTL DEF Spec

(* The director's inductive invariant, which the theorems below rest on: the    *)
(* types, who owns which loop, and where the players are, whatever fails.     *)
THEOREM DirectorInvariant == Spec => []DInv
<1>1. Init => DInv
  BY InitDInv
<1>2. QED
  BY <1>1, DInvStep, CallsHold, StoreInvariantHolds, PTL DEF Spec

(* The director's variables keep their types, whatever fails (director.c:39-72). *)
THEOREM DirectorTypeOK == Spec => []TypeOK
<1>1. DInv => TypeOK
  BY DEF DInv
<1>2. QED
  BY <1>1, DirectorInvariant, PTL

(* A layer always finds a frame at its loop's position (director.c:249-283).   *)
THEOREM DirectorPlayable == Spec => []Playable
<1>1. DInv => Playable
  <2> SUFFICES ASSUME DInv, pc # "released"
               PROVE  /\ ToSet(playing_loops) \subseteq ToSet(loops) \cup {Null}
                      /\ \A l \in ToSet(loops) :
                            /\ l \in alive
                            /\ loop[l].frame_count >= MinFrames
                            /\ loop[l].next_frame < loop[l].frame_count
    BY DEF Playable
  <2>1. ToSet(loops) \subseteq alive /\ alive \subseteq Loops
    BY DEF DInv, Owned, TypeOK
  <2>2. \A l \in Loops : loop[l].frame_count \in Nat /\ loop[l].next_frame \in Nat
    BY DEF DInv, TypeOK, LoopType
  <2>3. QED
    BY <2>1, <2>2, Constants DEF DInv, Positions
<1>2. QED
  BY <1>1, DirectorInvariant, PTL

(* What PublishedStable says of a step. *)
Stable == \A l \in ToSet(loops) \cap ToSet(loops') :
             loop'[l] = [loop[l] EXCEPT !.next_frame = loop'[l].next_frame]

(* A published loop is never changed except for its position, whatever the     *)
(* GLUT thread records and the handler threads publish (director.c:601-656).  *)
THEOREM DirectorPublishedStable == Spec => PublishedStable
<1>1. DInv /\ CallsInv /\ StoreProofs!IInv /\ [Next]_vars => [Stable]_vars
  <2> SUFFICES ASSUME DInv, CallsInv, StoreProofs!IInv, Next PROVE Stable
    OBVIOUS
  <2>1. \A r \in LoopType : r = [r EXCEPT !.next_frame = r.next_frame]
    BY DEF LoopType
  <2>2. ToSet(loops) \subseteq Loops /\ \A l \in Loops : loop[l] \in LoopType
    BY DEF DInv, TypeOK, ToSet
  <2>3. ASSUME \A l \in ToSet(loops) : loop'[l] = loop[l] PROVE Stable
    BY <2>1, <2>2, <2>3 DEF Stable
  <2>4. ASSUME UNCHANGED loop PROVE Stable
    BY <2>3, <2>4
  <2>5. CASE Capture
    BY <2>4, <2>5 DEF Capture, CaptureVideo, CaptureDepth, CaptureMeta, loopVars
  <2>6. ASSUME NEW valid \in BOOLEAN, HandleFrame(valid) PROVE Stable
    <3>1. pc = "frame" /\ frame_id \in handed /\ Owned /\ TypeOK
      BY <2>6 DEF HandleFrame, CallsInv, DInv
    <3>2. CASE RecordFrame(valid)
      <4>1. \A l \in Loops \ {p_current_loop} : loop'[l] = loop[l]
        BY <3>1, <3>2, RecordOne
      <4>2. QED
        BY <2>2, <2>3, <3>1, <4>1 DEF Owned
    <3>3. CASE DropFrame(valid)
      BY <2>4, <3>3 DEF DropFrame, loopVars
    <3>4. CASE EndLoop(valid)
      BY <2>3, <3>1, <3>4, EndEnds DEF Ended, EndedLoops
    <3>5. QED
      BY <2>6, <3>2, <3>3, <3>4 DEF HandleFrame
  <2>7. ASSUME NEW playing \in Filled, Play(playing) PROVE Stable
    BY <2>2, <2>7, PlayMoves DEF Stable
  <2>8. ASSUME NEW k \in Loops, Publish(k) PROVE Stable
    <3>1. CASE UNCHANGED loop
      BY <2>4, <3>1
    <3>2. CASE pc # "released" /\ loop' = [loop EXCEPT ![k] = EmptyLoop]
      <4>1. k \notin ToSet(loops)
        BY <2>8, <3>2 DEF Publish, DInv, Owned
      <4>2. QED
        BY <2>2, <2>3, <3>2, <4>1 DEF DInv, TypeOK
    <3>3. QED
      BY <2>8, <3>1, <3>2 DEF Publish
  <2>9. CASE Generator \/ Release \/ Done
    BY <2>4, <2>9 DEF Generator, Supply, Release, ReleaseFrames, ReleaseDirector,
                      Done, vars, loopVars
  <2>10. QED
    BY <2>5, <2>6, <2>7, <2>8, <2>9 DEF Next, Handle, Handler, Playback
<1>2. QED
  BY <1>1, DirectorInvariant, CallsHold, StoreInvariantHolds, PTL
     DEF Spec, PublishedStable, Stable

-----------------------------------------------------------------------------
(* The chunks that loops point to.  Each is still that of an id the store has  *)
(* handed out; with HandedPrivate, nobody else may write to it.               *)

Addresses(l) == ToSet(loop[l].video_addresses) \cup ToSet(loop[l].depth_addresses)
LoopsHanded ==
    open => \A l \in alive : \A a \in Addresses(l) :
                \E id \in handed \ BeingHandled : Store!Frame(id) = a

LEMMA CaptureKeeps ==
    ASSUME StoreProofs!IInv, NEW part \in Store!Parts, NEW timestamp \in Timestamps,
           Store!CaptureData(part, timestamp), open'
    PROVE  /\ open
           /\ handed \subseteq handed'
           /\ \A id \in handed : frames'[id + 1] = frames[id + 1]
           /\ NewFrame => frame_id' \notin handed
<1>1. open
  BY DEF Store!CaptureData
<1>2. handed \in SUBSET (0 .. Len(frames) - 1) /\ Len(frames) \in Nat
  BY DEF StoreProofs!IInv, StoreProofs!TypeOK, StoreProofs!Ids
<1>3. handed \subseteq handed' /\ (NewFrame => frame_id' = Len(frames))
  <2>1. CASE Store!StartFrame(part, timestamp) \/ Store!AddToFrame(part, timestamp)
    BY <2>1 DEF Store!StartFrame, Store!AddToFrame, NewFrame,
                Store!invalid_frame_id, invalid_frame_id
  <2>2. CASE Store!StoreFails(part, timestamp) \/ Store!StoreClaimFails(part, timestamp)
    BY <2>2 DEF Store!StoreFails, Store!StoreClaimFails, NewFrame
  <2>3. CASE Store!StoreFrame(part, timestamp)
    BY <2>3 DEF Store!StoreFrame, Store!Complete
  <2>4. QED
    BY <2>1, <2>2, <2>3 DEF Store!CaptureData
<1>4. StoreProofs!Capture
  BY SameCapture, SameNames, Zenon DEF StoreProofs!Capture
<1>5. StoreProofs!Kept
  BY <1>4, Assumed, StoreProofs!CaptureKept, Zenon DEF StoreProofs!StoreAssumption
<1>6. \A id \in handed : frames'[id + 1] = frames[id + 1]
  BY <1>3, <1>5 DEF StoreProofs!Kept, StoreProofs!Frame
<1>7. NewFrame => frame_id' \notin handed
  <2>1. Len(frames) \notin handed
    BY <1>2
  <2>2. QED
    BY <1>3, <2>1, Zenon
<1>8. QED
  BY <1>1, <1>3, <1>6, <1>7, Zenon

LEMMA RemoveKeeps ==
    ASSUME StoreProofs!IInv, frame_id \in handed, Store!RemoveFrame(frame_id), open'
    PROVE  /\ open
           /\ handed' = handed \ {frame_id}
           /\ \A id \in handed' : frames'[id + 1] = frames[id + 1]
<1>1. open /\ handed' = handed \ {frame_id}
  BY DEF Store!RemoveFrame
<1>2. StoreProofs!Remove
  BY SameRemove, Zenon DEF StoreProofs!Remove
<1>3. StoreProofs!Kept
  BY <1>2, Assumed, StoreProofs!RemoveKept, Zenon DEF StoreProofs!StoreAssumption
<1>4. QED
  BY <1>1, <1>3 DEF StoreProofs!Kept, StoreProofs!Frame

LEMMA HandedStep ==
    LoopsHanded /\ DInv /\ CallsInv /\ StoreProofs!IInv /\ [Next]_vars
        => LoopsHanded'
<1> SUFFICES ASSUME LoopsHanded, DInv, CallsInv, StoreProofs!IInv, [Next]_vars, open',
                    NEW l \in alive', NEW a \in Addresses(l)'
             PROVE  \E id \in (handed \ BeingHandled)' : frames'[id + 1] = a
  BY DEF LoopsHanded, Store!Frame
<1>1. ASSUME open, l \in alive, a \in Addresses(l)
      PROVE  \E id \in handed \ BeingHandled : frames[id + 1] = a
  BY <1>1 DEF LoopsHanded, Store!Frame
<1>2. ASSUME UNCHANGED <<loop, alive>>, open,
             handed \ BeingHandled \subseteq (handed \ BeingHandled)',
             \A id \in handed \ BeingHandled : frames'[id + 1] = frames[id + 1]
      PROVE  \E id \in (handed \ BeingHandled)' : frames'[id + 1] = a
  <2>1. l \in alive /\ a \in Addresses(l)
    BY <1>2 DEF Addresses
  <2>2. PICK id \in handed \ BeingHandled : frames[id + 1] = a
    BY <1>1, <1>2, <2>1
  <2>3. QED
    BY <1>2, <2>2
<1>3. ASSUME UNCHANGED <<loop, alive>>, pc \in {"idle", "meta"},
             pc' = "frame" => NewFrame,
             NEW part \in Store!Parts, NEW t \in Timestamps, Store!CaptureData(part, t)
      PROVE  \E id \in (handed \ BeingHandled)' : frames'[id + 1] = a
  <2>1. BeingHandled = {} /\ BeingHandled' \subseteq (IF NewFrame THEN {frame_id'} ELSE {})
    BY <1>3 DEF BeingHandled
  <2>2. QED
    BY <1>2, <1>3, <2>1, CaptureKeeps
<1>4. CASE Capture
  <2>1. "video" \in Store!Parts /\ "depth" \in Store!Parts /\ "meta" \in Store!Parts
    BY DEF Store!Parts
  <2>2. ASSUME NEW t \in Timestamps, CaptureVideo(t)
        PROVE  \E id \in (handed \ BeingHandled)' : frames'[id + 1] = a
    BY <1>3, <2>1, <2>2 DEF CaptureVideo, MayCapture, loopVars
  <2>3. ASSUME NEW t \in Timestamps, CaptureDepth(t)
        PROVE  \E id \in (handed \ BeingHandled)' : frames'[id + 1] = a
    BY <1>3, <2>1, <2>3 DEF CaptureDepth, MayCapture, loopVars
  <2>4. CASE CaptureMeta
    BY <1>3, <2>1, <2>4 DEF CaptureMeta, CallsInv, loopVars
  <2>5. QED
    BY <1>4, <2>2, <2>3, <2>4 DEF Capture
<1>5. ASSUME NEW valid \in BOOLEAN, HandleFrame(valid)
      PROVE  \E id \in (handed \ BeingHandled)' : frames'[id + 1] = a
  <2>1. /\ pc = "frame" /\ frame_id \in handed /\ TypeOK
        /\ BeingHandled = {frame_id} /\ BeingHandled' = {}
    BY <1>5 DEF HandleFrame, CallsInv, DInv, BeingHandled
  <2>2. CASE RecordFrame(valid)
    <3>1. /\ open' = open /\ handed' = handed /\ frames' = frames /\ alive' = alive
      BY <2>2 DEF RecordFrame, storeVars
    <3>2. l \in Loops
      BY <2>1, <3>1 DEF TypeOK
    <3>3. a \in Addresses(l) \cup {frames[frame_id + 1]}
      BY <2>1, <2>2, <3>2, RecordOne DEF Addresses, Store!Frame
    <3>4. CASE a \in Addresses(l)
      BY <1>1, <2>1, <3>1, <3>4
    <3>5. CASE a = frames[frame_id + 1]
      BY <2>1, <3>1, <3>5
    <3>6. QED
      BY <3>3, <3>4, <3>5
  <2>3. CASE DropFrame(valid)
    BY <1>2, <2>1, <2>3, RemoveKeeps DEF DropFrame, loopVars
  <2>4. CASE EndLoop(valid)
    <3>1. Store!RemoveFrame(frame_id)
      BY <2>4 DEF EndLoop
    <3>2. (l \in alive /\ loop'[l] = loop[l]) \/ loop'[l] = EmptyLoop
      BY <2>1, <2>4, EndEnds DEF Ended, EndedLoops
    <3>3. l \in alive /\ a \in Addresses(l)
      BY <3>2, EmptyLoopType DEF Addresses
    <3>4. QED
      BY <1>1, <2>1, <3>1, <3>3, RemoveKeeps
  <2>5. QED
    BY <1>5, <2>2, <2>3, <2>4 DEF HandleFrame
<1>6. ASSUME UNCHANGED storeVars, UNCHANGED pc, l \in alive, a \in Addresses(l)
      PROVE  \E id \in (handed \ BeingHandled)' : frames'[id + 1] = a
  <2>1. /\ open' = open /\ handed' = handed /\ frames' = frames
        /\ BeingHandled' = BeingHandled
    BY <1>6 DEF storeVars, BeingHandled
  <2>2. QED
    BY <1>1, <1>6, <2>1
<1>7. ASSUME NEW playing \in Filled, Play(playing)
      PROVE  \E id \in (handed \ BeingHandled)' : frames'[id + 1] = a
  <2>1. l \in alive /\ l \in Loops
    BY <1>7 DEF Play, DInv, TypeOK
  <2>2. loop[l] \in LoopType
        /\ loop'[l] = [loop[l] EXCEPT !.next_frame = loop'[l].next_frame]
    BY <1>7, <2>1, PlayMoves DEF DInv, TypeOK
  <2>3. loop'[l].video_addresses = loop[l].video_addresses
        /\ loop'[l].depth_addresses = loop[l].depth_addresses
    BY <2>2 DEF LoopType
  <2>4. a \in Addresses(l)
    BY <2>3 DEF Addresses
  <2>5. QED
    BY <1>6, <1>7, <2>1, <2>4 DEF Play
<1>8. ASSUME NEW k \in Loops, Publish(k)
      PROVE  \E id \in (handed \ BeingHandled)' : frames'[id + 1] = a
  <2>1. l \in alive /\ loop'[l] = loop[l]
    <3>1. CASE UNCHANGED <<loop, alive>>
      BY <3>1
    <3>2. CASE alive' = alive \ {k} /\ loop' = [loop EXCEPT ![k] = EmptyLoop]
      BY <3>2 DEF DInv, TypeOK
    <3>3. QED
      BY <1>8, <3>1, <3>2 DEF Publish
  <2>2. a \in Addresses(l)
    BY <2>1 DEF Addresses
  <2>3. QED
    BY <1>6, <1>8, <2>1, <2>2 DEF Publish
<1>9. ASSUME NEW c \in Chunks, Supply(c)
      PROVE  \E id \in (handed \ BeingHandled)' : frames'[id + 1] = a
  <2>1. /\ open /\ handed' = handed /\ frames' = frames /\ frame_id' = frame_id
        /\ pc' = pc /\ UNCHANGED <<loop, alive>>
    BY <1>9 DEF Supply, Store!Supply, Store!Pool!Supply, Store!storeVars, loopVars
  <2>2. BeingHandled' = BeingHandled
    BY <2>1 DEF BeingHandled
  <2>3. QED
    BY <1>2, <2>1, <2>2
<1>10. CASE ReleaseFrames
  BY <1>10 DEF ReleaseFrames, Store!ReleaseStore, Store!Pool!Close
<1>11. CASE ReleaseDirector
  <2>1. /\ UNCHANGED storeVars /\ UNCHANGED loop /\ alive' \subseteq alive
        /\ pc # "frame" /\ pc' # "frame"
    BY <1>11 DEF ReleaseDirector
  <2>2. /\ open' = open /\ handed' = handed /\ frames' = frames
        /\ BeingHandled' = {} /\ BeingHandled = {}
    BY <2>1 DEF storeVars, BeingHandled
  <2>3. l \in alive /\ a \in Addresses(l)
    BY <2>1 DEF Addresses
  <2>4. QED
    BY <1>1, <2>2, <2>3
<1>12. CASE UNCHANGED vars
  <2>1. UNCHANGED <<storeVars, pc, loop, alive>>
    BY <1>12 DEF vars, loopVars
  <2>2. l \in alive /\ a \in Addresses(l)
    BY <2>1 DEF Addresses
  <2>3. QED
    BY <1>6, <2>1, <2>2
<1>13. QED
  BY <1>4, <1>5, <1>7, <1>8, <1>9, <1>10, <1>11, <1>12
     DEF Next, Handle, Handler, Playback, Generator, Release, Done

(* While the store exists, what a loop points to is claimed, and not the chunk *)
(* the store writes to, whatever fails and however long the program runs      *)
(* (director.c:498-518).                                                      *)
THEOREM DirectorLoopFramesHeld == Spec => []LoopFramesHeld
<1>1. Init => LoopsHanded
  <2> SUFFICES ASSUME Init, NEW l \in alive PROVE Addresses(l) = {}
    BY DEF LoopsHanded
  <2>1. loop[l] = EmptyLoop
    BY DEF Init
  <2>2. QED
    BY <2>1, EmptyLoopType DEF Addresses
<1>2. LoopsHanded /\ StoreProofs!IInv => LoopFramesHeld
  BY DEF LoopsHanded, Addresses, LoopFramesHeld, StoreProofs!IInv,
         StoreProofs!HandedPrivate, StoreProofs!Frame, Store!Frame
<1>3. QED
  BY <1>1, <1>2, HandedStep, DirectorInvariant, CallsHold, StoreInvariantHolds, PTL
     DEF Spec

-----------------------------------------------------------------------------
(* Without failures of the director's own calls, every loop has one owner. *)

NoFaults == Faults \cap DirectorFaults = {}
AllOwned ==
    pc # "released" =>
        /\ crashed = FALSE
        /\ p_current_loop \in alive
        /\ alive = {p_current_loop} \cup handlers \cup ToSet(loops)

LEMMA NothingFails ==
    ASSUME NoFaults
    PROVE  /\ "malloc append" \notin Faults /\ "pthread_create" \notin Faults
           /\ "malloc loop" \notin Faults
BY DEF NoFaults, DirectorFaults

(* The end of a recording without failures: the loop that ended goes to a      *)
(* handler or is freed, and another is the current one.                       *)
LEMMA EndChanges ==
    ASSUME NoFaults, DInv, AllOwned, pc = "frame", NEW valid \in BOOLEAN,
           EndLoop(valid)
    PROVE  \E l \in Loops :
              /\ crashed' = FALSE /\ p_current_loop' = l
              /\ \/ /\ KeepLoop /\ l \notin alive
                    /\ alive' = alive \cup {l}
                    /\ loop' = [loop EXCEPT ![l] = EmptyLoop]
                 \/ /\ DiscardLoop /\ l \notin alive \ {p_current_loop}
                    /\ alive' = (alive \ {p_current_loop}) \cup {l}
                    /\ loop' = [[loop EXCEPT ![p_current_loop] = EmptyLoop]
                                     EXCEPT ![l] = EmptyLoop]
<1>1. crashed = FALSE /\ p_current_loop \in alive
  BY DEF AllOwned
<1>2. (KeepLoop \/ DiscardLoop) /\ crashed' = FALSE
  BY <1>1, NothingFails, Zenon DEF EndLoop, LoseLoop
<1>3. CASE KeepLoop
  <2>1. NextLoop(alive, loop)
    BY <1>3 DEF KeepLoop
  <2>2. QED
    BY <1>2, <1>3, <2>1, NothingFails, Zenon DEF NextLoop
<1>4. CASE DiscardLoop
  <2>1. NextLoop(alive \ {p_current_loop},
                 [loop EXCEPT ![p_current_loop] = EmptyLoop])
    BY <1>4 DEF DiscardLoop
  <2>2. QED
    BY <1>2, <1>4, <2>1, NothingFails, Zenon DEF NextLoop
<1>5. QED
  BY <1>2, <1>3, <1>4

LEMMA OwnedStep ==
    NoFaults /\ AllOwned /\ DInv /\ [Next]_vars => AllOwned'
<1> SUFFICES ASSUME NoFaults, AllOwned, DInv, [Next]_vars, pc' # "released"
             PROVE  /\ crashed' = FALSE
                    /\ p_current_loop' \in alive'
                    /\ alive' = {p_current_loop'} \cup handlers' \cup ToSet(loops')
  BY DEF AllOwned
<1> DEFINE Goal == /\ crashed' = FALSE
                   /\ p_current_loop' \in alive'
                   /\ alive' = {p_current_loop'} \cup handlers' \cup ToSet(loops')
<1>1. ASSUME pc # "released"
      PROVE  /\ crashed = FALSE /\ p_current_loop \in alive /\ Owned
             /\ alive = {p_current_loop} \cup handlers \cup ToSet(loops)
  BY <1>1 DEF AllOwned, DInv
<1>2. ASSUME UNCHANGED <<alive, p_current_loop, handlers, loops, crashed>>,
             pc # "released"
      PROVE  Goal
  BY <1>1, <1>2
<1>3. CASE Capture
  BY <1>2, <1>3 DEF Capture, CaptureVideo, CaptureDepth, CaptureMeta, MayCapture,
                    loopVars
<1>4. ASSUME NEW valid \in BOOLEAN, HandleFrame(valid) PROVE Goal
  <2>1. pc = "frame"
    BY <1>4 DEF HandleFrame
  <2>2. CASE RecordFrame(valid)
    <3>1. crashed' = crashed
      BY <1>1, <2>1, <2>2, Zenon DEF RecordFrame
    <3>2. QED
      BY <1>2, <2>1, <2>2, <3>1 DEF RecordFrame
  <2>3. CASE DropFrame(valid)
    BY <1>2, <2>1, <2>3 DEF DropFrame, loopVars
  <2>4. CASE EndLoop(valid)
    <3>1. loops' = loops
      BY <2>4 DEF EndLoop
    <3>2. QED
      BY <1>1, <2>1, <2>4, <3>1, EndChanges DEF KeepLoop, DiscardLoop, Owned
  <2>5. QED
    BY <1>4, <2>2, <2>3, <2>4 DEF HandleFrame
<1>5. ASSUME NEW playing \in Filled, Play(playing) PROVE Goal
  BY <1>2, <1>5 DEF Play
<1>6. ASSUME NEW l \in Loops, Publish(l) PROVE Goal
  <2>1. /\ pc # "released" /\ l \in handlers /\ handlers' = handlers \ {l}
        /\ p_current_loop' = p_current_loop /\ alive' = alive
        /\ loops' = Append(loops, l)
    BY <1>6, NothingFails DEF Publish
  <2>2. crashed' = crashed
    BY <1>6, <2>1, Zenon DEF Publish
  <2>3. ToSet(loops') = ToSet(loops) \cup {l}
    BY <2>1, Appended DEF DInv, TypeOK
  <2>4. QED
    BY <1>1, <2>1, <2>2, <2>3
<1>7. ASSUME NEW c \in Chunks, Supply(c) PROVE Goal
  BY <1>2, <1>7 DEF Supply, loopVars
<1>8. CASE ReleaseFrames
  BY <1>2, <1>8 DEF ReleaseFrames, loopVars
<1>9. CASE UNCHANGED vars
  BY <1>2, <1>9 DEF vars, loopVars
<1>10. QED
  BY <1>3, <1>4, <1>5, <1>6, <1>7, <1>8, <1>9
     DEF Next, Handle, Handler, Playback, Generator, Release, ReleaseDirector, Done

LEMMA OwnedInvariant == ASSUME NoFaults PROVE Spec => []AllOwned
<1>1. Init => AllOwned
  BY DEF Init, AllOwned, ToSet
<1>2. AllOwned /\ DInv /\ [Next]_vars => AllOwned'
  BY OwnedStep
<1>3. QED
  BY <1>1, <1>2, DirectorInvariant, PTL DEF Spec

(* As long as the director's own calls succeed, no two threads ever share a    *)
(* loop, and none is lost: the one being recorded is the GLUT thread's, every  *)
(* finished one its handler's or published once (director.c:527-539).         *)
THEOREM DirectorLoopOwnership ==
    ASSUME Faults \cap DirectorFaults = {}
    PROVE  Spec => []LoopOwnership
<1>1. NoFaults
  BY DEF NoFaults
<1>2. DInv /\ AllOwned => LoopOwnership
  BY DEF DInv, Owned, AllOwned, LoopOwnership
<1>3. QED
  BY <1>1, <1>2, OwnedInvariant, DirectorInvariant, PTL

-----------------------------------------------------------------------------
(* Without failures, what is in the loops. *)

(* A recorded frame is appended to all four vectors of the current loop. *)
LEMMA RecordAll ==
    ASSUME NoFaults, TypeOK, p_current_loop \in alive, NEW valid \in BOOLEAN,
           RecordFrame(valid)
    PROVE  LET l == p_current_loop
               chunk == Store!Frame(frame_id)
           IN  /\ l \in Loops
               /\ loop' = [loop EXCEPT ![l] =
                     [video_addresses |-> Append(@.video_addresses, chunk),
                      depth_addresses |-> Append(@.depth_addresses, chunk),
                      cutoffs |-> Append(@.cutoffs, content[chunk]["meta"]),
                      frame_ids |-> Append(@.frame_ids, frame_id),
                      next_frame |-> @.next_frame,
                      frame_count |-> @.frame_count + 1]]
<1>1. p_current_loop \in Loops
  BY DEF TypeOK
<1>2. Append4(p_current_loop, 4)
  BY NothingFails, Zenon DEF RecordFrame
<1>3. QED
  BY <1>1, <1>2 DEF Append4

LEMMA RecordingStep ==
    NoFaults /\ AllOwned /\ AllOwned' /\ DInv /\ DInv' /\ RecordingConsistent
        /\ [Next]_vars => RecordingConsistent'
<1> SUFFICES ASSUME NoFaults, AllOwned, AllOwned', DInv, DInv', RecordingConsistent,
                    [Next]_vars, p_current_loop' \in alive'
             PROVE  IF is_recording'
                    THEN /\ invalid_frame_count' <= Patience
                         /\ loop'[p_current_loop'].frame_count > invalid_frame_count'
                    ELSE loop'[p_current_loop'].frame_count = 0
  BY DEF RecordingConsistent
<1> DEFINE Goal == IF is_recording'
                   THEN /\ invalid_frame_count' <= Patience
                        /\ loop'[p_current_loop'].frame_count > invalid_frame_count'
                   ELSE loop'[p_current_loop'].frame_count = 0
<1>1. p_current_loop \in alive =>
          /\ p_current_loop \in Loops /\ loop[p_current_loop] \in LoopType
          /\ loop[p_current_loop].frame_count \in Nat
          /\ invalid_frame_count \in Nat
  BY DEF DInv, TypeOK, LoopType
<1>2. ASSUME UNCHANGED <<p_current_loop, recordVars>>, p_current_loop \in alive,
             loop'[p_current_loop].frame_count = loop[p_current_loop].frame_count
      PROVE  Goal
  BY <1>2 DEF RecordingConsistent, recordVars
<1>3. ASSUME UNCHANGED <<loopVars, recordVars>> PROVE Goal
  BY <1>2, <1>3 DEF loopVars
<1>4. ASSUME NEW valid \in BOOLEAN, HandleFrame(valid) PROVE Goal
  <2>1. pc = "frame" /\ p_current_loop \in alive
    BY <1>4 DEF HandleFrame, AllOwned
  <2>2. CASE RecordFrame(valid)
    <3>1. loop'[p_current_loop].frame_count = loop[p_current_loop].frame_count + 1
      BY <1>1, <2>1, <2>2, RecordAll DEF DInv, TypeOK
    <3>2. /\ is_recording' = TRUE /\ p_current_loop' = p_current_loop
          /\ invalid_frame_count' = IF valid THEN 0 ELSE invalid_frame_count + 1
          /\ valid \/ (is_recording /\ invalid_frame_count + 1 <= Patience)
      BY <2>2 DEF RecordFrame, Patient
    <3>3. is_recording => loop[p_current_loop].frame_count > invalid_frame_count
      BY <2>1 DEF RecordingConsistent
    <3>4. QED
      BY <1>1, <2>1, <3>1, <3>2, <3>3, Constants
  <2>3. CASE DropFrame(valid)
    BY <1>3, <2>3 DEF DropFrame
  <2>4. CASE EndLoop(valid)
    <3>1. is_recording' = FALSE
      BY <2>4 DEF EndLoop
    <3>2. loop'[p_current_loop'] = EmptyLoop
      <4>1. loop \in [Loops -> LoopType]
        BY DEF DInv, TypeOK
      <4>2. QED
        BY <2>1, <2>4, <4>1, EndChanges
    <3>3. QED
      BY <3>1, <3>2 DEF EmptyLoop
  <2>5. QED
    BY <1>4, <2>2, <2>3, <2>4 DEF HandleFrame
<1>5. ASSUME NEW playing \in Filled, Play(playing) PROVE Goal
  <2>1. p_current_loop \in alive /\ p_current_loop \in Loops
    BY <1>1, <1>5 DEF Play, AllOwned
  <2>2. QED
    BY <1>2, <1>5, <2>1, PlayMoves DEF Play
<1>6. ASSUME NEW l \in Loops, Publish(l) PROVE Goal
  BY <1>2, <1>6, NothingFails DEF Publish
<1>7. ASSUME Capture \/ Generator \/ ReleaseFrames \/ UNCHANGED vars PROVE Goal
  BY <1>3, <1>7 DEF Capture, CaptureVideo, CaptureDepth, CaptureMeta, MayCapture,
                    Generator, Supply, ReleaseFrames, vars
<1>8. CASE ReleaseDirector
  BY <1>8 DEF ReleaseDirector
<1>9. QED
  BY <1>4, <1>5, <1>6, <1>7, <1>8
     DEF Next, Handle, Handler, Playback, Release, Done

(* A loop that is being recorded begins with a valid frame and has at most      *)
(* Patience invalid ones at its end; none is recorded into between movements   *)
(* (director.c:476-519).                                                      *)
THEOREM DirectorRecordingConsistent ==
    ASSUME Faults \cap DirectorFaults = {}
    PROVE  Spec => []RecordingConsistent
<1>1. NoFaults
  BY DEF NoFaults
<1>2. Init => RecordingConsistent
  BY DEF Init, RecordingConsistent, EmptyLoop
<1>3. AllOwned /\ AllOwned' /\ DInv /\ DInv' /\ RecordingConsistent /\ [Next]_vars
          => RecordingConsistent'
  BY <1>1, RecordingStep
<1>4. Spec => []AllOwned
  BY <1>1, OwnedInvariant
<1>5. QED
  BY <1>2, <1>3, <1>4, DirectorInvariant, PTL DEF Spec

-----------------------------------------------------------------------------
(* What is in the loops. *)

(* The ids that have been handled and not returned to the store. *)
Stored == handed \ BeingHandled

(* n entries of four vectors, of n different frames in the store. *)
Filed(vs, ds, cs, ids, n) ==
    /\ Len(vs) = n /\ Len(ds) = n /\ Len(cs) = n /\ Len(ids) = n
    /\ \A i, j \in 1 .. n : ids[i] = ids[j] => i = j
    /\ \A i \in 1 .. n :
          /\ ids[i] \in Stored
          /\ vs[i] = frames[ids[i] + 1] /\ ds[i] = frames[ids[i] + 1]
          /\ cs[i] = content[frames[ids[i] + 1]]["timestamp"]

FiledLoop(l) == Filed(loop[l].video_addresses, loop[l].depth_addresses,
                      loop[l].cutoffs, loop[l].frame_ids, loop[l].frame_count)

Accounts ==
    open => /\ \A l \in alive : FiledLoop(l)
            /\ \A k, l \in alive : k # l => IdsOf(k) \cap IdsOf(l) = {}
            /\ \A l \in alive : IdsOf(l) \subseteq Stored \ discarded
            /\ discarded \subseteq Stored
            /\ \A id \in Stored \ discarded : \E l \in alive : id \in IdsOf(l)

(* Meta data only follows depth, so depth never completes a frame: its id,     *)
(* which the director does not look at (director.c:326-338), is never one.    *)
MetaFollows ==
    /\ copies["meta"] > 0 => copies["depth"] > 0
    /\ pc = "meta" => copies["depth"] > 0

Returned == pc \in {"releasing", "released"} => open = FALSE

LEMMA LoopTypes ==
    ASSUME TypeOK, NEW l \in Loops
    PROVE  /\ loop[l] \in LoopType
           /\ loop[l].video_addresses \in Seq(Chunks)
           /\ loop[l].depth_addresses \in Seq(Chunks)
           /\ loop[l].cutoffs \in Seq(Timestamps)
           /\ loop[l].frame_ids \in Seq(Nat)
           /\ loop[l].frame_count \in Nat
<1>1. loop[l] \in LoopType
  BY DEF TypeOK
<1>2. QED
  BY <1>1 DEF LoopType

LEMMA EmptyLoopFields ==
    /\ EmptyLoop.video_addresses = <<>> /\ EmptyLoop.depth_addresses = <<>>
    /\ EmptyLoop.cutoffs = <<>> /\ EmptyLoop.frame_ids = <<>>
    /\ EmptyLoop.frame_count = 0
BY DEF EmptyLoop

LEMMA NothingFiled ==
    ASSUME NEW l, loop'[l] = EmptyLoop
    PROVE  FiledLoop(l)' /\ IdsOf(l)' = {}
<1>1. Filed(<<>>, <<>>, <<>>, <<>>, 0)'
  BY DEF Filed
<1>2. QED
  BY <1>1, EmptyLoopFields DEF FiledLoop, IdsOf

-----------------------------------------------------------------------------
(* A step that leaves what is stored alone. *)

(* Frames that were stored are, in the same chunk with the same content. *)
Preserved == \A id \in Stored :
                /\ frames'[id + 1] = frames[id + 1]
                /\ content'[frames[id + 1]] = content[frames[id + 1]]

(* The vectors of a loop stay; its position may change. *)
Unmoved(l) ==
    /\ loop'[l].video_addresses = loop[l].video_addresses
    /\ loop'[l].depth_addresses = loop[l].depth_addresses
    /\ loop'[l].cutoffs = loop[l].cutoffs
    /\ loop'[l].frame_ids = loop[l].frame_ids
    /\ loop'[l].frame_count = loop[l].frame_count

LEMMA AppendEntries ==
    ASSUME NEW S, NEW s \in Seq(S), NEW x \in S, NEW t, t = Append(s, x)
    PROVE  /\ Len(s) \in Nat /\ Len(t) = Len(s) + 1 /\ t[Len(s) + 1] = x
           /\ \A i \in 1 .. Len(s) : t[i] = s[i]
OBVIOUS

LEMMA StaysFiled ==
    ASSUME NEW vs, NEW ds, NEW cs, NEW ids, NEW n,
           Filed(vs, ds, cs, ids, n),
           Stored \subseteq Stored', Preserved
    PROVE  Filed(vs, ds, cs, ids, n)'
BY DEF Filed, Preserved

LEMMA UnmovedFiled ==
    ASSUME NEW l, FiledLoop(l), Unmoved(l), Stored \subseteq Stored', Preserved
    PROVE  FiledLoop(l)' /\ IdsOf(l)' = IdsOf(l)
<1>1. PICK v, d, c, ids, n :
          /\ v = loop[l].video_addresses /\ d = loop[l].depth_addresses
          /\ c = loop[l].cutoffs /\ ids = loop[l].frame_ids
          /\ n = loop[l].frame_count
  OBVIOUS
<1>2. Filed(v, d, c, ids, n)
  BY <1>1 DEF FiledLoop
<1>3. Filed(v, d, c, ids, n)'
  BY <1>2, StaysFiled
<1>4. /\ v = loop'[l].video_addresses /\ d = loop'[l].depth_addresses
      /\ c = loop'[l].cutoffs /\ ids = loop'[l].frame_ids
      /\ n = loop'[l].frame_count
  BY <1>1 DEF Unmoved
<1>5. FiledLoop(l)'
  BY <1>3, <1>4, Zenon DEF FiledLoop, Filed
<1>6. QED
  BY <1>5 DEF Unmoved, IdsOf

LEMMA SameAccounts ==
    ASSUME Accounts, open, Stored' = Stored, Preserved,
           alive' = alive, discarded' = discarded,
           \A l \in alive : Unmoved(l)
    PROVE  Accounts'
<1>1. \A l \in alive : FiledLoop(l)' /\ IdsOf(l)' = IdsOf(l)
  BY UnmovedFiled DEF Accounts
<1>2. QED
  BY <1>1 DEF Accounts

(* The frame being handled joins the current loop. *)
LEMMA FrameJoins ==
    ASSUME NoFaults, DInv, StoreProofs!IInv, Accounts, open, pc = "frame",
           pc' = "idle", frame_id \in handed, p_current_loop \in alive,
           NEW valid \in BOOLEAN, RecordFrame(valid)
    PROVE  Accounts'
<1> PICK l : l = p_current_loop
  OBVIOUS
<1> PICK id : id = frame_id
  OBVIOUS
<1>1. /\ frames' = frames /\ content' = content /\ handed' = handed
      /\ alive' = alive /\ discarded' = discarded
      /\ frame_id \in handed /\ l \in alive /\ l \in Loops /\ alive \subseteq Loops
  BY DEF RecordFrame, storeVars, DInv, TypeOK
<1>2. /\ id \notin Stored /\ Stored' = Stored \cup {id}
  BY <1>1 DEF Stored, BeingHandled
<1>3. Preserved
  BY <1>1 DEF Preserved
<1>4. PICK v, d, c, ids, n :
          /\ v = loop[l].video_addresses /\ d = loop[l].depth_addresses
          /\ c = loop[l].cutoffs /\ ids = loop[l].frame_ids
          /\ n = loop[l].frame_count
  OBVIOUS
<1>5. /\ v \in Seq(Chunks) /\ d \in Seq(Chunks) /\ c \in Seq(Timestamps)
      /\ ids \in Seq(Nat) /\ n \in Nat
  BY <1>1, <1>4, LoopTypes DEF DInv
<1>6. Filed(v, d, c, ids, n)
  BY <1>1, <1>4 DEF Accounts, FiledLoop
<1>7. PICK chunk, cutoff :
          chunk = frames[id + 1] /\ cutoff = content[chunk]["timestamp"]
  OBVIOUS
<1>8. /\ id \in Nat /\ chunk \in Chunks /\ cutoff \in Timestamps
      /\ content[chunk]["meta"] = cutoff
  <2>1. id \in Nat /\ chunk \in Chunks /\ content[chunk]["meta"] \in Timestamps
    BY <1>7, FrameKnown DEF Store!Frame
  <2>2. "meta" \in StoreProofs!Parts
    BY DEF StoreProofs!Parts
  <2>3. content[chunk]["meta"] = cutoff
    BY <1>1, <1>7, <2>2 DEF StoreProofs!IInv, StoreProofs!WholeFrames, StoreProofs!Frame
  <2>4. QED
    BY <2>1, <2>3
<1>9. PICK v2, d2, c2, ids2 :
          /\ v2 = Append(v, chunk) /\ d2 = Append(d, chunk)
          /\ c2 = Append(c, cutoff) /\ ids2 = Append(ids, id)
  OBVIOUS
<1>10. /\ Len(v) = n /\ Len(d) = n /\ Len(c) = n /\ Len(ids) = n
       /\ \A i, j \in 1 .. n : ids[i] = ids[j] => i = j
       /\ \A i \in 1 .. n :
             /\ ids[i] \in Stored
             /\ v[i] = frames[ids[i] + 1] /\ d[i] = frames[ids[i] + 1]
             /\ c[i] = content[frames[ids[i] + 1]]["timestamp"]
  BY <1>6 DEF Filed
<1> PICK m : m = n + 1
  OBVIOUS
<1>11. /\ Len(v2) = m /\ v2[m] = chunk /\ \A i \in 1 .. n : v2[i] = v[i]
       /\ Len(d2) = m /\ d2[m] = chunk /\ \A i \in 1 .. n : d2[i] = d[i]
       /\ Len(c2) = m /\ c2[m] = cutoff /\ \A i \in 1 .. n : c2[i] = c[i]
  <2>1. Len(v2) = m /\ v2[m] = chunk /\ \A i \in 1 .. n : v2[i] = v[i]
    BY <1>5, <1>8, <1>9, <1>10, AppendEntries
  <2>2. Len(d2) = m /\ d2[m] = chunk /\ \A i \in 1 .. n : d2[i] = d[i]
    BY <1>5, <1>8, <1>9, <1>10, AppendEntries
  <2>3. Len(c2) = m /\ c2[m] = cutoff /\ \A i \in 1 .. n : c2[i] = c[i]
    BY <1>5, <1>8, <1>9, <1>10, AppendEntries
  <2>4. QED
    BY <2>1, <2>2, <2>3
<1>12. Len(ids2) = m /\ ids2[m] = id /\ \A i \in 1 .. n : ids2[i] = ids[i]
  <2>1. ids \in Seq(Nat) /\ id \in Nat /\ ids2 = Append(ids, id)
    BY <1>5, <1>8, <1>9
  <2>2. /\ Len(ids2) = Len(ids) + 1 /\ ids2[Len(ids) + 1] = id
        /\ \A i \in 1 .. Len(ids) : ids2[i] = ids[i]
    BY <2>1, AppendEntries
  <2>3. QED
    BY <1>10, <2>2
<1>13. \A i \in 1 .. m : i \in 1 .. n \/ i = m
  BY <1>5
<1>14. Filed(v2, d2, c2, ids2, m)'
  <2>1. \A i, j \in 1 .. m : ids2[i] = ids2[j] => i = j
    BY <1>2, <1>10, <1>12, <1>13
  <2>2. \A i \in 1 .. m :
            /\ ids2[i] \in Stored'
            /\ v2[i] = frames'[ids2[i] + 1] /\ d2[i] = frames'[ids2[i] + 1]
            /\ c2[i] = content'[frames'[ids2[i] + 1]]["timestamp"]
    BY <1>1, <1>2, <1>7, <1>10, <1>11, <1>12, <1>13
  <2>3. QED
    BY <1>11, <1>12, <2>1, <2>2, Zenon DEF Filed
<1>15. loop' = [loop EXCEPT ![l] =
           [video_addresses |-> v2, depth_addresses |-> d2, cutoffs |-> c2,
            frame_ids |-> ids2, next_frame |-> loop[l].next_frame,
            frame_count |-> m]]
  BY <1>1, <1>4, <1>7, <1>8, <1>9, RecordAll DEF DInv, TypeOK, Store!Frame
<1>16. /\ v2 = loop'[l].video_addresses /\ d2 = loop'[l].depth_addresses
       /\ c2 = loop'[l].cutoffs /\ ids2 = loop'[l].frame_ids
       /\ m = loop'[l].frame_count
       /\ \A k \in Loops \ {l} : loop'[k] = loop[k]
  BY <1>1, <1>15 DEF DInv, TypeOK
<1>17. FiledLoop(l)'
  <2>1. /\ v2 = loop'[l].video_addresses /\ d2 = loop'[l].depth_addresses
        /\ c2 = loop'[l].cutoffs /\ ids2 = loop'[l].frame_ids
        /\ m = loop'[l].frame_count
    BY <1>16
  <2>2. Filed(loop[l].video_addresses, loop[l].depth_addresses, loop[l].cutoffs,
              loop[l].frame_ids, loop[l].frame_count)'
    BY <1>14, <2>1 DEF Filed
  <2>3. QED
    BY <2>2 DEF FiledLoop
<1>18. IdsOf(l)' = IdsOf(l) \cup {id}
  <2>1. IdsOf(l) = {ids[i] : i \in 1 .. n}
    BY <1>4, <1>10 DEF IdsOf
  <2>2. IdsOf(l)' = {ids2[i] : i \in 1 .. m}
    BY <1>12, <1>16 DEF IdsOf
  <2>3. 1 .. n \subseteq 1 .. m /\ m \in 1 .. m
    BY <1>5
  <2>4. QED
    BY <1>12, <1>13, <2>1, <2>2, <2>3
<1>19. \A k \in alive \ {l} : FiledLoop(k)' /\ IdsOf(k)' = IdsOf(k)
  <2> SUFFICES ASSUME NEW k \in alive \ {l} PROVE FiledLoop(k)' /\ IdsOf(k)' = IdsOf(k)
    OBVIOUS
  <2>1. Unmoved(k) /\ FiledLoop(k)
    BY <1>1, <1>16 DEF Unmoved, Accounts
  <2>2. QED
    BY <1>2, <1>3, <2>1, UnmovedFiled
<1>20. /\ \A j, k \in alive : j # k => IdsOf(j) \cap IdsOf(k) = {}
       /\ \A k \in alive : IdsOf(k) \subseteq Stored \ discarded
       /\ discarded \subseteq Stored
       /\ \A x \in Stored \ discarded : \E k \in alive : x \in IdsOf(k)
  BY DEF Accounts
<1>21. \A j, k \in alive : j # k => IdsOf(j)' \cap IdsOf(k)' = {}
  BY <1>2, <1>18, <1>19, <1>20
<1>22. \A k \in alive : IdsOf(k)' \subseteq Stored' \ discarded
  BY <1>2, <1>18, <1>19, <1>20
<1>23. \A x \in Stored' \ discarded : \E k \in alive : x \in IdsOf(k)'
  BY <1>1, <1>2, <1>18, <1>19, <1>20
<1>24. \A k \in alive : FiledLoop(k)'
  BY <1>17, <1>19
<1>25. QED
  BY <1>1, <1>2, <1>20, <1>21, <1>22, <1>23, <1>24 DEF Accounts

(* A movement ends: its loop goes to a handler or is freed, the last frame goes *)
(* back to the store, and the next loop is empty.                             *)
LEMMA LoopEnds ==
    ASSUME NoFaults, DInv, AllOwned, StoreProofs!IInv, Accounts, open',
           pc = "frame", pc' = "idle", frame_id \in handed,
           NEW valid \in BOOLEAN, EndLoop(valid)
    PROVE  Accounts'
<1>1. /\ open /\ handed' = handed \ {frame_id} /\ content' = content
      /\ \A id \in handed' : frames'[id + 1] = frames[id + 1]
  BY RemoveKeeps DEF EndLoop, Store!RemoveFrame
<1>2. Stored' = Stored /\ Preserved
  BY <1>1 DEF Stored, BeingHandled, Preserved
<1>3. /\ \A j, k \in alive : j # k => IdsOf(j) \cap IdsOf(k) = {}
      /\ \A k \in alive : FiledLoop(k) /\ IdsOf(k) \subseteq Stored \ discarded
      /\ discarded \subseteq Stored
      /\ \A x \in Stored \ discarded : \E k \in alive : x \in IdsOf(k)
  BY <1>1 DEF Accounts
<1>4. ASSUME NEW k \in alive, loop'[k] = loop[k]
      PROVE  FiledLoop(k)' /\ IdsOf(k)' = IdsOf(k)
  BY <1>2, <1>3, <1>4, UnmovedFiled DEF Unmoved
<1>5. loop \in [Loops -> LoopType] /\ alive \subseteq Loops /\ p_current_loop \in alive
  BY DEF DInv, TypeOK, AllOwned
<1>6. PICK l \in Loops :
         \/ /\ KeepLoop /\ l \notin alive
            /\ alive' = alive \cup {l}
            /\ loop' = [loop EXCEPT ![l] = EmptyLoop]
         \/ /\ DiscardLoop /\ l \notin alive \ {p_current_loop}
            /\ alive' = (alive \ {p_current_loop}) \cup {l}
            /\ loop' = [[loop EXCEPT ![p_current_loop] = EmptyLoop]
                             EXCEPT ![l] = EmptyLoop]
  BY EndChanges
<1>7. FiledLoop(l)' /\ IdsOf(l)' = {}
  BY <1>5, <1>6, NothingFiled
<1>8. CASE KeepLoop /\ l \notin alive /\ alive' = alive \cup {l}
           /\ loop' = [loop EXCEPT ![l] = EmptyLoop]
  <2>1. discarded' = discarded
    BY <1>8 DEF KeepLoop
  <2>2. \A k \in alive : FiledLoop(k)' /\ IdsOf(k)' = IdsOf(k)
    BY <1>4, <1>5, <1>8
  <2>3. QED
    BY <1>2, <1>3, <1>7, <1>8, <2>1, <2>2 DEF Accounts
<1>9. CASE DiscardLoop /\ l \notin alive \ {p_current_loop}
           /\ alive' = (alive \ {p_current_loop}) \cup {l}
           /\ loop' = [[loop EXCEPT ![p_current_loop] = EmptyLoop]
                           EXCEPT ![l] = EmptyLoop]
  <2>1. discarded' = discarded \cup IdsOf(p_current_loop)
    BY <1>9 DEF DiscardLoop, Discarded, IdsOf
  <2>2. \A k \in alive \ {p_current_loop} :
            FiledLoop(k)' /\ IdsOf(k)' = IdsOf(k)
    BY <1>4, <1>5, <1>9
  <2>3. QED
    BY <1>2, <1>3, <1>5, <1>7, <1>9, <2>1, <2>2 DEF Accounts
<1>10. QED
  BY <1>6, <1>8, <1>9

-----------------------------------------------------------------------------
(* Captures. *)

(* What was stored stays, and what is new is a frame to be handled. *)
LEMMA CaptureStores ==
    ASSUME StoreProofs!IInv, NEW part \in Store!Parts, NEW timestamp \in Timestamps,
           Store!CaptureData(part, timestamp), open'
    PROVE  /\ open
           /\ handed' = IF NewFrame THEN handed \cup {frame_id'} ELSE handed
           /\ NewFrame => frame_id' \notin handed
           /\ \A id \in handed : /\ frames'[id + 1] = frames[id + 1]
                                 /\ content'[frames[id + 1]] = content[frames[id + 1]]
<1>1. handed' = IF NewFrame THEN handed \cup {frame_id'} ELSE handed
  <2>1. CASE Store!StartFrame(part, timestamp) \/ Store!AddToFrame(part, timestamp)
    BY <2>1 DEF Store!StartFrame, Store!AddToFrame, NewFrame,
                Store!invalid_frame_id, invalid_frame_id
  <2>2. CASE Store!StoreFails(part, timestamp) \/ Store!StoreClaimFails(part, timestamp)
    BY <2>2 DEF Store!StoreFails, Store!StoreClaimFails, NewFrame
  <2>3. CASE Store!StoreFrame(part, timestamp)
    <3>1. Len(frames) \in Nat
      BY DEF StoreProofs!IInv, StoreProofs!TypeOK
    <3>2. QED
      BY <2>3, <3>1 DEF Store!StoreFrame, Store!Complete, NewFrame, invalid_frame_id
  <2>4. QED
    BY <2>1, <2>2, <2>3 DEF Store!CaptureData
<1>2. StoreProofs!Capture
  BY SameCapture, SameNames, Zenon DEF StoreProofs!Capture
<1>3. StoreProofs!Kept
  BY <1>2, Assumed, StoreProofs!CaptureKept, Zenon DEF StoreProofs!StoreAssumption
<1>4. handed \subseteq handed'
  BY <1>1
<1>5. \A id \in handed : /\ frames'[id + 1] = frames[id + 1]
                        /\ content'[frames[id + 1]] = content[frames[id + 1]]
  BY <1>3, <1>4 DEF StoreProofs!Kept, StoreProofs!Frame
<1>6. QED
  BY <1>1, <1>5, CaptureKeeps

(* How a capture counts, in the terms of the store's proofs. *)
LEMMA CaptureCounts ==
    ASSUME StoreProofs!IInv, NEW part \in Store!Parts, NEW timestamp \in Timestamps,
           Store!CaptureData(part, timestamp)
    PROVE  /\ copies \in [StoreProofs!Parts -> 0 .. MaxRepeat] /\ MaxRepeat \in Nat
           /\ part \in StoreProofs!Parts
           /\ copies'[part] > 0
           /\ copies' = IF timestamp = last
                        THEN [copies EXCEPT ![part] = @ + 1]
                        ELSE [p \in StoreProofs!Parts |-> IF p = part THEN 1 ELSE 0]
<1>1. StoreProofs!TypeOK /\ part \in StoreProofs!Parts
  BY SameNames DEF StoreProofs!IInv
<1>2. StoreProofs!Count(part, timestamp)
  BY SameCapture, Zenon DEF StoreProofs!CaptureData
<1>3. copies'[part] > 0
  BY <1>1, <1>2, Assumed, StoreProofs!CountType, Zenon DEF StoreProofs!StoreAssumption
<1>4. MaxRepeat \in Nat
  BY Assumed DEF StoreProofs!StoreAssumption
<1>5. QED
  BY <1>1, <1>2, <1>3, <1>4 DEF StoreProofs!Count, StoreProofs!TypeOK

LEMMA DepthCompletesNothing ==
    ASSUME StoreProofs!IInv, MetaFollows, NEW timestamp \in Timestamps,
           Store!CaptureData("depth", timestamp)
    PROVE  NewFrame = FALSE
<1> SUFFICES ASSUME NewFrame PROVE FALSE
  BY DEF NewFrame
<1>1. /\ "depth" \in Store!Parts /\ "depth" \in StoreProofs!Parts
      /\ "meta" \in StoreProofs!Parts
  BY DEF Store!Parts, StoreProofs!Parts
<1>2. StoreProofs!CaptureData("depth", timestamp)
  BY <1>1, SameCapture, Zenon
<1>3. StoreProofs!Complete("depth", timestamp)
  <2>1. CASE StoreProofs!StartFrame("depth", timestamp)
             \/ StoreProofs!AddToFrame("depth", timestamp)
    BY <2>1 DEF StoreProofs!StartFrame, StoreProofs!AddToFrame, NewFrame,
                StoreProofs!invalid_frame_id, invalid_frame_id
  <2>2. QED
    BY <1>2, <2>1, Zenon DEF StoreProofs!CaptureData, StoreProofs!StoreFails,
       StoreProofs!StoreClaimFails, StoreProofs!StoreFrame
<1>4. StoreProofs!Count("depth", timestamp)
  BY <1>2, Zenon DEF StoreProofs!CaptureData
<1>5. timestamp = last /\ \A p \in StoreProofs!Parts : copies'[p] = 1
  BY <1>1, <1>3, <1>4, Assumed, StoreProofs!CompleteOnce, Zenon
     DEF StoreProofs!StoreAssumption
<1>6. copies \in [StoreProofs!Parts -> 0 .. MaxRepeat]
      /\ copies' = [copies EXCEPT !["depth"] = @ + 1]
  BY <1>1, <1>5, CaptureCounts
<1>7. copies'["depth"] = copies["depth"] + 1 /\ copies'["meta"] = copies["meta"]
      /\ copies["depth"] \in 0 .. MaxRepeat
  BY <1>1, <1>6
<1>8. QED
  BY <1>1, <1>5, <1>7 DEF MetaFollows

LEMMA MetaFollowsStep ==
    MetaFollows /\ CallsInv /\ StoreProofs!IInv /\ [Next]_vars => MetaFollows'
<1> SUFFICES ASSUME MetaFollows, CallsInv, StoreProofs!IInv, [Next]_vars
             PROVE  MetaFollows'
  OBVIOUS
<1>1. ASSUME copies' = copies, pc' # "meta" \/ pc' = pc PROVE MetaFollows'
  BY <1>1 DEF MetaFollows
<1>2. /\ "video" \in Store!Parts /\ "depth" \in Store!Parts /\ "meta" \in Store!Parts
      /\ "depth" \in StoreProofs!Parts /\ "meta" \in StoreProofs!Parts
  BY DEF Store!Parts, StoreProofs!Parts
<1>3. ASSUME NEW t \in Timestamps, CaptureVideo(t) PROVE MetaFollows'
  <2>1. /\ copies' = IF t = last THEN [copies EXCEPT !["video"] = @ + 1]
                     ELSE [p \in StoreProofs!Parts |-> IF p = "video" THEN 1 ELSE 0]
        /\ copies \in [StoreProofs!Parts -> 0 .. MaxRepeat]
        /\ pc' # "meta"
    BY <1>2, <1>3, CaptureCounts DEF CaptureVideo
  <2>2. \/ copies'["depth"] = copies["depth"] /\ copies'["meta"] = copies["meta"]
        \/ copies'["meta"] = 0
    BY <1>2, <2>1
  <2>3. QED
    BY <2>1, <2>2 DEF MetaFollows
<1>4. ASSUME NEW t \in Timestamps, CaptureDepth(t) PROVE MetaFollows'
  BY <1>2, <1>4, CaptureCounts DEF CaptureDepth, MetaFollows
<1>5. CASE CaptureMeta
  <2>1. /\ copies' = [copies EXCEPT !["meta"] = @ + 1]
        /\ copies \in [StoreProofs!Parts -> 0 .. MaxRepeat]
        /\ pc = "meta" /\ pc' # "meta"
    BY <1>2, <1>5, CaptureCounts DEF CaptureMeta, CallsInv
  <2>2. copies'["depth"] = copies["depth"]
    BY <1>2, <2>1
  <2>3. QED
    BY <2>1, <2>2 DEF MetaFollows
<1>6. ASSUME NEW valid \in BOOLEAN, HandleFrame(valid) PROVE MetaFollows'
  BY <1>1, <1>6 DEF HandleFrame, RecordFrame, DropFrame, EndLoop, storeVars,
                    Store!RemoveFrame
<1>7. CASE Playback \/ Handler \/ ReleaseDirector
  BY <1>1, <1>7 DEF Playback, Play, Handler, Publish, ReleaseDirector, storeVars
<1>8. CASE Generator \/ ReleaseFrames
  BY <1>1, <1>8 DEF Generator, Supply, Store!Supply, Store!storeVars, ReleaseFrames,
                    Store!ReleaseStore
<1>9. CASE UNCHANGED vars
  BY <1>1, <1>9 DEF vars, storeVars
<1>10. QED
  BY <1>3, <1>4, <1>5, <1>6, <1>7, <1>8, <1>9
     DEF Next, Capture, Handle, Release, Done

LEMMA ReturnedStep == Returned /\ [Next]_vars => Returned'
<1> SUFFICES ASSUME Returned, [Next]_vars, pc' \in {"releasing", "released"}
             PROVE  open' = FALSE
  BY DEF Returned
<1>1. ASSUME pc' = pc, open' = open PROVE open' = FALSE
  BY <1>1, Zenon DEF Returned
<1>2. CASE Capture \/ Handle
  BY <1>2 DEF Capture, CaptureVideo, CaptureDepth, CaptureMeta, Handle, HandleFrame
<1>3. CASE Playback \/ Handler
  BY <1>1, <1>3, Zenon DEF Playback, Play, Handler, Publish, storeVars
<1>4. CASE Generator
  BY <1>1, <1>4, Zenon DEF Generator, Supply, Store!Supply, Store!Pool!Supply
<1>5. CASE Release
  <2>1. CASE ReleaseFrames
    BY <2>1, Zenon DEF ReleaseFrames, Store!ReleaseStore, Store!Pool!Close
  <2>2. CASE ReleaseDirector
    <3>1. pc = "releasing" /\ open' = open
      BY <2>2, Zenon DEF ReleaseDirector, storeVars
    <3>2. QED
      BY <3>1, Zenon DEF Returned
  <2>3. QED
    BY <1>5, <2>1, <2>2 DEF Release
<1>6. CASE UNCHANGED vars
  BY <1>1, <1>6, Zenon DEF vars, storeVars
<1>7. QED
  BY <1>2, <1>3, <1>4, <1>5, <1>6 DEF Next, Done

LEMMA AccountsStep ==
    NoFaults /\ Accounts /\ MetaFollows /\ Returned /\ AllOwned /\ DInv /\ CallsInv
        /\ StoreProofs!IInv /\ [Next]_vars => Accounts'
<1> SUFFICES ASSUME NoFaults, Accounts, MetaFollows, Returned, AllOwned, DInv, CallsInv,
                    StoreProofs!IInv, [Next]_vars, open'
             PROVE  Accounts'
  BY DEF Accounts
<1>1. ASSUME UNCHANGED <<loop, alive, discarded>>, open, Stored' = Stored, Preserved
      PROVE  Accounts'
  BY <1>1, SameAccounts DEF Unmoved
<1>2. ASSUME UNCHANGED <<loop, alive, discarded>>, UNCHANGED storeVars, pc' = pc
      PROVE  Accounts'
  <2>1. /\ open' = open /\ handed' = handed /\ frames' = frames /\ content' = content
        /\ BeingHandled' = BeingHandled
    BY <1>2 DEF storeVars, BeingHandled
  <2>2. QED
    BY <1>1, <1>2, <2>1 DEF Stored, Preserved
<1>3. ASSUME UNCHANGED loopVars, pc \in {"idle", "meta"},
             pc' = "frame" <=> NewFrame,
             NEW part \in Store!Parts, NEW t \in Timestamps, Store!CaptureData(part, t)
      PROVE  Accounts'
  <2>1. /\ BeingHandled = {}
        /\ BeingHandled' = (IF NewFrame THEN {frame_id'} ELSE {})
    BY <1>3 DEF BeingHandled
  <2>2. /\ open
        /\ handed' = IF NewFrame THEN handed \cup {frame_id'} ELSE handed
        /\ NewFrame => frame_id' \notin handed
        /\ \A id \in handed : /\ frames'[id + 1] = frames[id + 1]
                              /\ content'[frames[id + 1]] = content[frames[id + 1]]
    BY <1>3, CaptureStores
  <2>3. Stored' = Stored /\ Preserved
    BY <2>1, <2>2 DEF Stored, Preserved
  <2>4. QED
    BY <1>1, <1>3, <2>2, <2>3 DEF loopVars
<1>4. CASE Capture
  <2>1. "video" \in Store!Parts /\ "depth" \in Store!Parts /\ "meta" \in Store!Parts
    BY DEF Store!Parts
  <2>2. ASSUME NEW t \in Timestamps, CaptureVideo(t) PROVE Accounts'
    BY <1>3, <2>1, <2>2 DEF CaptureVideo, MayCapture
  <2>3. ASSUME NEW t \in Timestamps, CaptureDepth(t) PROVE Accounts'
    <3>1. Store!CaptureData("depth", t) /\ pc' # "frame" /\ pc = "idle"
          /\ UNCHANGED loopVars
      BY <2>3 DEF CaptureDepth, MayCapture
    <3>2. NewFrame = FALSE
      BY <3>1, DepthCompletesNothing
    <3>3. QED
      BY <1>3, <2>1, <3>1, <3>2
  <2>4. CASE CaptureMeta
    BY <1>3, <2>1, <2>4 DEF CaptureMeta, CallsInv
  <2>5. QED
    BY <1>4, <2>2, <2>3, <2>4 DEF Capture
<1>5. ASSUME NEW valid \in BOOLEAN, HandleFrame(valid) PROVE Accounts'
  <2>1. pc = "frame" /\ pc' = "idle" /\ frame_id \in handed /\ p_current_loop \in alive
    BY <1>5 DEF HandleFrame, CallsInv, AllOwned
  <2>2. CASE RecordFrame(valid)
    <3>1. open
      BY <2>2 DEF RecordFrame, storeVars
    <3>2. QED
      BY <2>1, <2>2, <3>1, FrameJoins
  <2>3. CASE DropFrame(valid)
    <3>1. /\ open /\ handed' = handed \ {frame_id} /\ content' = content
          /\ \A id \in handed' : frames'[id + 1] = frames[id + 1]
      BY <2>1, <2>3, RemoveKeeps DEF DropFrame, Store!RemoveFrame
    <3>2. Stored' = Stored /\ Preserved
      BY <2>1, <3>1 DEF Stored, BeingHandled, Preserved
    <3>3. QED
      BY <1>1, <2>3, <3>1, <3>2 DEF DropFrame, loopVars
  <2>4. CASE EndLoop(valid)
    BY <2>1, <2>4, LoopEnds
  <2>5. QED
    BY <1>5, <2>2, <2>3, <2>4 DEF HandleFrame
<1>6. ASSUME NEW playing \in Filled, Play(playing) PROVE Accounts'
  <2>1. /\ open' = open /\ handed' = handed /\ frames' = frames /\ content' = content
        /\ BeingHandled' = BeingHandled /\ alive' = alive /\ discarded' = discarded
        /\ alive \subseteq Loops
    BY <1>6 DEF Play, storeVars, BeingHandled, DInv, TypeOK
  <2>2. \A l \in alive : Unmoved(l)
    <3> SUFFICES ASSUME NEW l \in alive PROVE Unmoved(l)
      OBVIOUS
    <3>1. loop[l] \in LoopType
          /\ loop'[l] = [loop[l] EXCEPT !.next_frame = loop'[l].next_frame]
      BY <1>6, <2>1, PlayMoves, LoopTypes DEF DInv
    <3>2. QED
      BY <3>1 DEF Unmoved, LoopType
  <2>3. QED
    BY <2>1, <2>2, SameAccounts DEF Stored, Preserved
<1>7. ASSUME NEW k \in Loops, Publish(k) PROVE Accounts'
  BY <1>2, <1>7, NothingFails DEF Publish
<1>8. ASSUME NEW c \in Chunks, Supply(c) PROVE Accounts'
  <2>1. /\ open /\ handed' = handed /\ frames' = frames /\ content' = content
        /\ frame_id' = frame_id /\ pc' = pc /\ UNCHANGED <<loop, alive, discarded>>
    BY <1>8 DEF Supply, Store!Supply, Store!Pool!Supply, Store!storeVars, loopVars
  <2>2. QED
    BY <1>1, <2>1 DEF Stored, Preserved, BeingHandled
<1>9. CASE Release
  <2>1. pc' \in {"releasing", "released"}
    BY <1>9 DEF Release, ReleaseFrames, ReleaseDirector
  <2>2. open' = FALSE
    BY <2>1, ReturnedStep DEF Returned
  <2>3. QED
    BY <2>2
<1>10. CASE UNCHANGED vars
  BY <1>2, <1>10 DEF vars, loopVars
<1>11. QED
  BY <1>4, <1>5, <1>6, <1>7, <1>8, <1>9, <1>10
     DEF Next, Handle, Handler, Playback, Generator, Done

LEMMA AccountsInvariant == ASSUME NoFaults PROVE Spec => []Accounts
<1>1. Init => Accounts /\ MetaFollows /\ Returned
  <2> SUFFICES ASSUME Init PROVE Accounts /\ MetaFollows /\ Returned
    OBVIOUS
  <2>1. /\ handed = {} /\ discarded = {} /\ pc = "idle"
        /\ copies["meta"] = 0
        /\ \E l \in Loops : alive = {l}
        /\ \A l \in alive : loop[l] = EmptyLoop
    BY DEF Init, Store!StoreInit, Store!Parts
  <2>2. Filed(<<>>, <<>>, <<>>, <<>>, 0)
    BY DEF Filed
  <2>3. \A l \in alive : FiledLoop(l) /\ IdsOf(l) = {}
    BY <2>1, <2>2, EmptyLoopFields DEF FiledLoop, IdsOf
  <2>4. Accounts
    BY <2>1, <2>3 DEF Accounts, Stored
  <2>5. QED
    BY <2>1, <2>4 DEF MetaFollows, Returned
<1>2. AllOwned /\ DInv /\ CallsInv /\ StoreProofs!IInv /\ [Next]_vars
          /\ Accounts /\ MetaFollows /\ Returned
          => Accounts' /\ MetaFollows' /\ Returned'
  BY AccountsStep, MetaFollowsStep, ReturnedStep
<1>3. Spec => []AllOwned
  BY OwnedInvariant
<1>4. QED
  BY <1>1, <1>2, <1>3, DirectorInvariant, CallsHold, StoreInvariantHolds, PTL DEF Spec

-----------------------------------------------------------------------------
LEMMA CountIds ==
    ASSUME NEW n \in Nat, NEW ids, \A i, j \in 1 .. n : ids[i] = ids[j] => i = j
    PROVE  Cardinality({ids[i] : i \in 1 .. n}) = n
<1> DEFINE S == {ids[i] : i \in 1 .. n}
           f == [i \in 1 .. n |-> ids[i]]
<1>1. f \in [1 .. n -> S]
  OBVIOUS
<1>2. \A i, j \in DOMAIN f : f[i] = f[j] => i = j
  OBVIOUS
<1>3. \A x \in S : \E i \in 1 .. n : f[i] = x
  OBVIOUS
<1> HIDE DEF S, f
<1>4. f \in Bijection(1 .. n, S)
  BY <1>1, <1>2, <1>3 DEF Bijection, Injection, Surjection, IsInjective
<1>5. ExistsBijection(1 .. n, S)
  BY <1>4 DEF ExistsBijection
<1>6. Cardinality(S) = n
  BY <1>5, FS_CountingElements
<1>7. QED
  BY <1>6 DEF S

(* As long as the director's own calls succeed, the entries of a loop belong    *)
(* together: each is one whole frame's, that no other entry of any loop has,   *)
(* and that the store still holds (director.c:498-518).                       *)
THEOREM DirectorLoopsWhole ==
    ASSUME Faults \cap DirectorFaults = {}
    PROVE  Spec => []LoopsWhole
<1>1. NoFaults
  BY DEF NoFaults
<1>2. DInv /\ StoreProofs!IInv /\ Accounts => LoopsWhole
  <2> SUFFICES ASSUME DInv, StoreProofs!IInv, Accounts, open, NEW l \in alive,
                      NEW n, n = loop[l].frame_count
               PROVE  /\ Len(loop[l].video_addresses) = n
                      /\ Len(loop[l].depth_addresses) = n
                      /\ Len(loop[l].cutoffs) = n /\ Len(loop[l].frame_ids) = n
                      /\ Cardinality(IdsOf(l)) = n
                      /\ \A k \in alive \ {l} : IdsOf(k) \cap IdsOf(l) = {}
                      /\ \A i \in 1 .. n :
                            LET id == loop[l].frame_ids[i]
                            IN  /\ id \in handed
                                /\ loop[l].video_addresses[i] = Store!Frame(id)
                                /\ loop[l].depth_addresses[i] = Store!Frame(id)
                                /\ \A p \in Store!Fields :
                                      content[Store!Frame(id)][p] = loop[l].cutoffs[i]
    BY DEF LoopsWhole
  <2>1. n \in Nat
    BY LoopTypes DEF DInv, TypeOK
  <2>2. Filed(loop[l].video_addresses, loop[l].depth_addresses, loop[l].cutoffs,
              loop[l].frame_ids, n)
    BY DEF Accounts, FiledLoop
  <2>3. PICK ids : ids = loop[l].frame_ids
    OBVIOUS
  <2>4. Len(ids) = n /\ \A i, j \in 1 .. n : ids[i] = ids[j] => i = j
    BY <2>2, <2>3 DEF Filed
  <2>5. Cardinality(IdsOf(l)) = n
    <3>1. IdsOf(l) = {ids[i] : i \in 1 .. n}
      BY <2>3, <2>4 DEF IdsOf
    <3>2. QED
      BY <2>1, <2>4, <3>1, CountIds
  <2>6. \A k \in alive \ {l} : IdsOf(k) \cap IdsOf(l) = {}
    BY DEF Accounts
  <2>7. ASSUME NEW i \in 1 .. n
        PROVE  /\ ids[i] \in handed
               /\ loop[l].video_addresses[i] = Store!Frame(ids[i])
               /\ loop[l].depth_addresses[i] = Store!Frame(ids[i])
               /\ loop[l].cutoffs[i] = content[Store!Frame(ids[i])]["timestamp"]
    BY <2>2, <2>3 DEF Filed, Stored, Store!Frame
  <2>8. ASSUME NEW id \in handed, NEW p \in Store!Fields
        PROVE  content[Store!Frame(id)][p] = content[Store!Frame(id)]["timestamp"]
    BY SameNames DEF StoreProofs!IInv, StoreProofs!WholeFrames, StoreProofs!Frame,
       Store!Frame, Store!Fields, Store!Parts, StoreProofs!Parts
  <2>9. QED
    BY <2>2, <2>3, <2>5, <2>6, <2>7, <2>8 DEF Filed
<1>3. Spec => []Accounts
  BY <1>1, AccountsInvariant
<1>4. QED
  BY <1>2, <1>3, DirectorInvariant, StoreInvariantHolds, PTL

(* As long as the director's own calls succeed, every frame the store handed    *)
(* out is in one loop, or being handled, or was in a loop that was freed, and  *)
(* none that a loop has goes back to the store (director.c:341-360, 496-525).  *)
THEOREM DirectorFramesAccounted ==
    ASSUME Faults \cap DirectorFaults = {}
    PROVE  Spec => []FramesAccounted
<1>1. NoFaults
  BY DEF NoFaults
<1>2. CallsInv /\ Accounts => FramesAccounted
  <2> SUFFICES ASSUME CallsInv, Accounts, open
               PROVE  /\ handed = (UNION {IdsOf(l) : l \in alive})
                                    \cup BeingHandled \cup discarded
                      /\ \A l \in alive : IdsOf(l) \cap (BeingHandled \cup discarded) = {}
    BY DEF FramesAccounted
  <2>1. BeingHandled \subseteq handed
    BY DEF BeingHandled, CallsInv
  <2>2. /\ \A l \in alive : IdsOf(l) \subseteq Stored \ discarded
        /\ discarded \subseteq Stored
        /\ \A id \in Stored \ discarded : \E l \in alive : id \in IdsOf(l)
    BY DEF Accounts
  <2> DEFINE U == UNION {IdsOf(l) : l \in alive}
  <2>3. ASSUME NEW id \in U PROVE id \in Stored \ discarded
    <3>1. PICK l \in alive : id \in IdsOf(l)
      BY <2>3, Zenon
    <3>2. QED
      BY <2>2, <3>1
  <2>4. ASSUME NEW id \in Stored \ discarded PROVE id \in U
    <3>1. PICK l \in alive : id \in IdsOf(l)
      BY <2>2, <2>4
    <3>2. QED
      BY <3>1, Zenon
  <2> HIDE DEF U
  <2>5. handed = U \cup BeingHandled \cup discarded
    BY <2>1, <2>2, <2>3, <2>4 DEF Stored
  <2>6. \A l \in alive : IdsOf(l) \cap (BeingHandled \cup discarded) = {}
    BY <2>2 DEF Stored
  <2>7. QED
    BY <2>5, <2>6 DEF U
<1>3. Spec => []Accounts
  BY <1>1, AccountsInvariant
<1>4. QED
  BY <1>2, <1>3, CallsHold, PTL

-----------------------------------------------------------------------------
(***************************************************************************)
(* The program around the director.                                         *)
(***************************************************************************)

(* Between the callbacks' steps the record timer stands at the last video, and *)
(* nobody releases the director.                                              *)
Timed == record_timestamp \in 0 .. MaxTime
Unreleased == open /\ pc \in {"idle", "meta", "frame"}

LEMMA Clock ==
    /\ MaxTime \in Nat /\ Timestamps = 0 .. MaxTime
    /\ TEXTURE_CAPACITY = MaxLayers + 1
BY GhostsAssumption DEF GhostsAssumption

(* What the program lets the director do, and what happens to the timer.      *)
Client == Capture \/ Handle \/ Playback \/ Handler \/ Generator
Later == /\ Timed'
         /\ record_timestamp' \in Timestamps /\ record_timestamp' \in Nat
         /\ record_timestamp \in Nat /\ record_timestamp <= record_timestamp'

LEMMA ClientSteps ==
    Timed /\ [GhostsNext]_ghostsVars => Later /\ [Client]_vars
<1> SUFFICES ASSUME Timed, [GhostsNext]_ghostsVars PROVE Later /\ [Client]_vars
  OBVIOUS
<1>1. ASSUME record_timestamp' = record_timestamp PROVE Later
  BY <1>1, Clock DEF Timed, Later
<1>2. ASSUME ReadTimer PROVE Later
  BY <1>2, Clock DEF Timed, ReadTimer, Later
<1>3. ASSUME UNCHANGED kinectVars PROVE Later
  BY <1>1, <1>3 DEF kinectVars
<1>4. ASSUME UNCHANGED directorVars PROVE [Client]_vars
  BY <1>4, Zenon DEF directorVars
<1>5. CASE Idle
  BY <1>1, <1>4, <1>5 DEF Idle, StartCapture
<1>6. CASE Video
  <2>1. Later /\ CaptureVideo(record_timestamp')
    BY <1>2, <1>6 DEF Video, VideoArrives
  <2>2. Capture
    BY <2>1, Zenon DEF Later, Capture
  <2>3. QED
    BY <2>1, <2>2 DEF Client
<1>7. CASE Depth
  <2>1. Later /\ CaptureDepth(record_timestamp')
    BY <1>3, <1>7 DEF Depth, DepthArrives
  <2>2. Capture
    BY <2>1, Zenon DEF Later, Capture
  <2>3. QED
    BY <2>1, <2>2 DEF Client
<1>8. CASE Proceed
  BY <1>3, <1>8, Zenon DEF Proceed, Capture, Client
<1>9. ASSUME NEW captured \in BOOLEAN, IdleEnds(captured)
      PROVE  Later /\ [Client]_vars
  BY <1>1, <1>4, <1>9 DEF IdleEnds, EndCapture
<1>10. CASE Display
  <2>1. Later
    BY <1>3, <1>10 DEF Display
  <2>2. UNCHANGED directorVars \/ Playback
    BY <1>10, Zenon DEF Display, Playback
  <2>3. QED
    BY <1>4, <2>1, <2>2 DEF Client
<1>11. CASE Cleanup
  BY <1>3, <1>4, <1>11 DEF Cleanup
<1>12. CASE Others
  BY <1>3, <1>12, Zenon DEF Others, Client
<1>13. CASE UNCHANGED ghostsVars
  BY <1>3, <1>4, <1>13 DEF ghostsVars
<1>14. QED
  BY <1>5, <1>6, <1>7, <1>8, <1>9, <1>10, <1>11, <1>12, <1>13
     DEF GhostsNext, Stopped

LEMMA ClientNext == Client => Next
BY DEF Client, Next

(* The program is the director's client, and the director's theorems hold in   *)
(* it: whatever libfreenect delivers and loses, whenever GLUT calls, and       *)
(* whenever the threads run, every call to the director is one that Director   *)
(* describes (main.c:351-396, 583-655; director.c:305-361, 543-585).           *)
THEOREM GhostsUseDirector == GhostsSpec => Spec
<1>1. GhostsInit => Timed /\ Init
  BY Clock DEF GhostsInit, KinectInit, Timed
<1>2. Timed /\ [GhostsNext]_ghostsVars => Timed' /\ [Next]_vars
  BY ClientSteps, ClientNext DEF Later
<1>3. QED
  BY <1>1, <1>2, PTL DEF GhostsSpec, Spec

LEMMA TimedHolds == GhostsSpec => []Timed
<1>1. GhostsInit => Timed
  BY Clock DEF GhostsInit, KinectInit, Timed
<1>2. Timed /\ [GhostsNext]_ghostsVars => Timed'
  BY ClientSteps DEF Later
<1>3. QED
  BY <1>1, <1>2, PTL DEF GhostsSpec

-----------------------------------------------------------------------------
(* A step of the program captures, or it leaves alone what captures are        *)
(* counted by.                                                               *)
Aside ==
    /\ record_timestamp' = record_timestamp /\ depths' = depths
    /\ open' = open /\ content' = content /\ last' = last /\ copies' = copies
    /\ Len(frames') = Len(frames)
    /\ pc' = pc \/ (pc = "frame" /\ pc' = "idle")

LEMMA NotCaptured ==
    ASSUME StoreProofs!IInv,
           Handle \/ Playback \/ Handler \/ Generator \/ UNCHANGED directorVars
    PROVE  /\ open' = open /\ content' = content /\ last' = last /\ copies' = copies
           /\ Len(frames') = Len(frames)
           /\ pc' = pc \/ (pc = "frame" /\ pc' = "idle")
<1> DEFINE Same == /\ open' = open /\ content' = content /\ last' = last
                   /\ copies' = copies /\ Len(frames') = Len(frames)
<1>1. ASSUME UNCHANGED storeVars PROVE Same
  BY <1>1 DEF storeVars
<1>2. ASSUME NEW id, Store!RemoveFrame(id) PROVE Same
  <2>1. frames \in Seq(Chunks \cup {StoreProofs!Null})
    BY DEF StoreProofs!IInv, StoreProofs!TypeOK
  <2>2. frames' = frames \/ frames' = [frames EXCEPT ![id + 1] = Store!Null]
    BY <1>2 DEF Store!RemoveFrame, Store!RemoveHeld, Store!RemoveFails
  <2>3. Len(frames') = Len(frames)
    BY <2>1, <2>2
  <2>4. open' = open /\ content' = content /\ last' = last /\ copies' = copies
    BY <1>2 DEF Store!RemoveFrame, Store!RemoveHeld, Store!RemoveFails,
                Store!Pool!Return, Store!poolVars
  <2>5. QED
    BY <2>3, <2>4
<1> HIDE DEF Same
<1>3. ASSUME NEW valid \in BOOLEAN, HandleFrame(valid)
      PROVE  Same /\ pc = "frame" /\ pc' = "idle"
  BY <1>1, <1>2, <1>3 DEF HandleFrame, RecordFrame, DropFrame, EndLoop
<1>4. ASSUME NEW c \in Chunks, Supply(c) PROVE Same /\ pc' = pc
  BY <1>4 DEF Supply, Store!Supply, Store!Pool!Supply, Store!storeVars, Same
<1>5. ASSUME Playback PROVE Same /\ pc' = pc
  BY <1>1, <1>5 DEF Playback, Play
<1>6. ASSUME NEW l \in Loops, Publish(l) PROVE Same /\ pc' = pc
  BY <1>1, <1>6 DEF Publish
<1>7. ASSUME UNCHANGED directorVars PROVE Same /\ pc' = pc
  BY <1>1, <1>7 DEF directorVars, vars
<1>8. QED
  BY <1>3, <1>4, <1>5, <1>6, <1>7 DEF Handle, Handler, Generator, Same

LEMMA ProgramParts ==
    ASSUME [GhostsNext]_ghostsVars
    PROVE  \/ Video \/ Depth
           \/ /\ CaptureMeta \/ Handle \/ Playback \/ Handler \/ Generator
                   \/ UNCHANGED directorVars
              /\ record_timestamp' = record_timestamp /\ depths' = depths
<1> DEFINE Still == record_timestamp' = record_timestamp /\ depths' = depths
<1>1. CASE Idle
  BY <1>1 DEF Idle, StartCapture
<1>2. CASE Proceed
  BY <1>2 DEF Proceed, kinectVars
<1>3. ASSUME NEW captured \in BOOLEAN, IdleEnds(captured)
      PROVE  UNCHANGED directorVars /\ Still
  BY <1>3 DEF IdleEnds, EndCapture
<1>4. CASE Display
  <2>1. Playback \/ UNCHANGED directorVars
    BY <1>4, Zenon DEF Display, Playback
  <2>2. Still
    BY <1>4 DEF Display, kinectVars
  <2>3. QED
    BY <2>1, <2>2
<1>5. CASE Cleanup
  BY <1>5 DEF Cleanup, kinectVars
<1>6. CASE Others
  BY <1>6 DEF Others, kinectVars
<1>7. CASE UNCHANGED ghostsVars
  BY <1>7 DEF ghostsVars, kinectVars
<1>8. QED
  BY <1>1, <1>2, <1>3, <1>4, <1>5, <1>6, <1>7 DEF GhostsNext, Stopped

LEMMA ProgramSteps ==
    ASSUME StoreProofs!IInv, [GhostsNext]_ghostsVars
    PROVE  \/ Video \/ Depth
           \/ CaptureMeta /\ record_timestamp' = record_timestamp /\ depths' = depths
           \/ Aside
BY ProgramParts, NotCaptured DEF Aside

(* What a capture does to the store, as far as the program's properties go.    *)
LEMMA CaptureOpen ==
    ASSUME NEW part, NEW timestamp, Store!CaptureData(part, timestamp)
    PROVE  open' = open
BY DEF Store!CaptureData, Store!StartFrame, Store!AddToFrame, Store!StoreFails,
       Store!StoreClaimFails, Store!StoreFrame, Store!Pool!Acquire, Store!poolVars

LEMMA UnreleasedStep ==
    ASSUME StoreProofs!IInv, Unreleased, [GhostsNext]_ghostsVars
    PROVE  Unreleased'
<1>1. CASE Video
  BY <1>1, CaptureOpen DEF Video, CaptureVideo, Unreleased
<1>2. CASE Depth
  BY <1>2, CaptureOpen DEF Depth, CaptureDepth, Unreleased
<1>3. CASE CaptureMeta
  BY <1>3, CaptureOpen DEF CaptureMeta, Unreleased
<1>4. CASE Aside
  BY <1>4 DEF Aside, Unreleased
<1>5. QED
  BY <1>1, <1>2, <1>3, <1>4, ProgramSteps

LEMMA UnreleasedHolds == GhostsSpec => []Unreleased
<1>1. GhostsInit => Unreleased
  BY DEF GhostsInit, Init, Store!StoreInit, Unreleased
<1>2. Unreleased /\ StoreProofs!IInv /\ [GhostsNext]_ghostsVars => Unreleased'
  BY UnreleasedStep
<1>3. GhostsSpec => []StoreProofs!IInv
  BY GhostsUseDirector, StoreInvariantHolds, PTL
<1>4. QED
  BY <1>1, <1>2, <1>3, PTL DEF GhostsSpec

-----------------------------------------------------------------------------
(* The videos in the store were captured since the first, none in the future.  *)
Recorded == \A c \in Chunks : content[c]["video"] \in {-1} \cup 1 .. record_timestamp

(* A capture writes a video's time, or leaves each video or clears it.         *)
LEMMA CapturedVideos ==
    ASSUME StoreProofs!IInv, NEW part \in Store!Parts, NEW timestamp \in Timestamps,
           Store!CaptureData(part, timestamp), NEW c \in Chunks
    PROVE  \/ content'[c]["video"] = content[c]["video"]
           \/ content'[c]["video"] = -1
           \/ part = "video" /\ content'[c]["video"] = timestamp
<1>1. /\ content \in [Chunks -> [Store!Fields -> Timestamps \cup {-1}]]
      /\ current_frame \in Chunks
      /\ "video" \in Store!Fields /\ "timestamp" \in Store!Fields
  BY SameNames DEF StoreProofs!IInv, StoreProofs!TypeOK, StoreProofs!Unset,
     Store!Fields, Store!Parts
<1>2. part # "timestamp" /\ part \in Store!Fields
  BY DEF Store!Parts, Store!Fields
<1>3. content[c] \in [Store!Fields -> Timestamps \cup {-1}]
  BY <1>1
<1>4. CASE content' = [content EXCEPT ![current_frame][part] = timestamp]
  <2>1. content'[c] = IF c = current_frame THEN [content[c] EXCEPT ![part] = timestamp]
                      ELSE content[c]
    BY <1>1, <1>4
  <2>2. QED
    BY <1>1, <1>2, <1>3, <2>1
<1>5. CASE Store!StartFrame(part, timestamp)
  <2>1. content' = [content EXCEPT ![current_frame]["timestamp"] = timestamp,
                                   ![current_frame][part] = timestamp]
    BY <1>5 DEF Store!StartFrame
  <2>2. content'[c] = IF c = current_frame
                      THEN [[content[c] EXCEPT !["timestamp"] = timestamp]
                               EXCEPT ![part] = timestamp]
                      ELSE content[c]
    BY <1>1, <2>1
  <2>3. QED
    BY <1>1, <1>2, <1>3, <2>2
<1>6. CASE Store!StoreFrame(part, timestamp)
  <2>1. PICK d \in spare : content' = [content EXCEPT ![current_frame][part] = timestamp,
                               ![d] = [Store!Cleared EXCEPT !["timestamp"] = timestamp]]
    BY <1>6, Zenon DEF Store!StoreFrame
  <2>2. PICK cleared : cleared = [Store!Cleared EXCEPT !["timestamp"] = timestamp]
    OBVIOUS
  <2>3. cleared["video"] = -1
    BY <1>1, <2>2 DEF Store!Cleared, Store!Unset
  <2>4. content'[c] = IF c = d THEN cleared
                      ELSE IF c = current_frame
                      THEN [content[c] EXCEPT ![part] = timestamp]
                      ELSE content[c]
    BY <1>1, <2>1, <2>2
  <2>5. QED
    BY <1>1, <1>2, <1>3, <2>3, <2>4
<1>7. QED
  BY <1>4, <1>5, <1>6 DEF Store!CaptureData, Store!AddToFrame, Store!StoreFails,
                          Store!StoreClaimFails

LEMMA RecordedStep ==
    ASSUME StoreProofs!IInv, CallsInv, Timed, Recorded, [GhostsNext]_ghostsVars
    PROVE  Recorded'
<1>1. Later
  BY ClientSteps
<1>2. "video" \in Store!Parts /\ "depth" \in Store!Parts /\ "meta" \in Store!Parts
  BY DEF Store!Parts
<1>3. SUFFICES ASSUME NEW c \in Chunks
               PROVE  content'[c]["video"] \in {-1} \cup 1 .. record_timestamp'
  BY DEF Recorded
<1>4. content[c]["video"] \in {-1} \cup 1 .. record_timestamp'
  BY <1>1 DEF Recorded, Later
<1>5. CASE Video
  <2>1. Store!CaptureData("video", record_timestamp') /\ record_timestamp' > 0
    BY <1>1, <1>5 DEF Video, CaptureVideo, VideoArrives, ReadTimer, Later
  <2>2. QED
    BY <1>1, <1>2, <1>4, <2>1, CapturedVideos DEF Later
<1>6. CASE Depth
  <2>1. Store!CaptureData("depth", record_timestamp')
    BY <1>6 DEF Depth, CaptureDepth
  <2>2. QED
    BY <1>1, <1>2, <1>4, <2>1, CapturedVideos DEF Later
<1>7. CASE CaptureMeta
  <2>1. Store!CaptureData("meta", last) /\ last \in Timestamps
    BY <1>7 DEF CaptureMeta, CallsInv
  <2>2. QED
    BY <1>2, <1>4, <2>1, CapturedVideos
<1>8. CASE Aside
  BY <1>4, <1>8 DEF Aside
<1>9. QED
  BY <1>5, <1>6, <1>7, <1>8, ProgramSteps

LEMMA RecordedHolds == GhostsSpec => []Recorded
<1>1. GhostsInit => Recorded
  BY DEF GhostsInit, Init, Store!StoreInit, Store!Cleared, Store!Unset, Store!Fields,
         Store!Parts, Recorded
<1>2. StoreProofs!IInv /\ CallsInv /\ Timed /\ Recorded /\ [GhostsNext]_ghostsVars
          => Recorded'
  BY RecordedStep
<1>3. GhostsSpec => []StoreProofs!IInv /\ []CallsInv
  BY GhostsUseDirector, StoreInvariantHolds, CallsHold, PTL
<1>4. QED
  BY <1>1, <1>2, <1>3, TimedHolds, PTL DEF GhostsSpec

-----------------------------------------------------------------------------
(* The display manager. *)

LEMMA LeastOf ==
    ASSUME NEW S \in SUBSET Nat, S # {}
    PROVE  \E n \in S : \A m \in S : n <= m
<1>1. \E n \in S : \A m \in S : ~(<<m, n>> \in OpToRel(<, Nat))
  BY NatLessThanWellFounded, WFMin
<1>2. PICK n \in S : \A m \in S : ~(<<m, n>> \in OpToRel(<, Nat))
  BY <1>1
<1>3. ASSUME NEW m \in S, m < n PROVE FALSE
  <2>1. <<m, n>> \in OpToRel(<, Nat)
    BY <1>3 DEF OpToRel
  <2>2. QED
    BY <1>2, <2>1
<1>4. QED
  BY <1>3

ManagerShape(manager) ==
    manager = [layer_count |-> manager.layer_count,
               textures |-> [i \in 1 .. TEXTURE_CAPACITY |-> manager.textures[i]],
               shown |-> manager.shown]

(* A display manager on which the first n layers have been set.               *)
WithLayers(manager, layers, n) ==
    [layer_count |-> n,
     textures |-> [i \in 1 .. TEXTURE_CAPACITY |->
                      IF i <= n THEN layers[i] ELSE manager.textures[i]],
     shown |-> manager.shown]

LEMMA OneMoreLayer ==
    ASSUME NEW manager, NEW layers, TEXTURE_CAPACITY \in Nat,
           NEW n \in 1 .. TEXTURE_CAPACITY
    PROVE  set_frame_layer(WithLayers(manager, layers, n - 1), layers[n])
              = WithLayers(manager, layers, n)
<1>1. PICK before : before = WithLayers(manager, layers, n - 1)
  OBVIOUS
<1>2. PICK textures : textures = [i \in 1 .. TEXTURE_CAPACITY |->
                          IF i <= n - 1 THEN layers[i] ELSE manager.textures[i]]
  OBVIOUS
<1>3. before.layer_count = n - 1 /\ before.shown = manager.shown
      /\ before.textures = textures
  BY <1>1, <1>2 DEF WithLayers
<1>4. [textures EXCEPT ![n] = layers[n]]
        = [i \in 1 .. TEXTURE_CAPACITY |->
              IF i <= n THEN layers[i] ELSE manager.textures[i]]
  BY <1>2
<1>5. ~(n - 1 >= TEXTURE_CAPACITY) /\ n - 1 + 1 = n
  OBVIOUS
<1>6. set_frame_layer(before, layers[n])
        = [layer_count |-> n - 1 + 1, textures |-> [textures EXCEPT ![n - 1 + 1] = layers[n]],
           shown |-> manager.shown]
  BY <1>3, <1>5, Zenon DEF set_frame_layer
<1>7. QED
  BY <1>1, <1>4, <1>5, <1>6, Zenon DEF WithLayers

LEMMA LayersAreSet ==
    ASSUME NEW manager, ManagerShape(manager), NEW layers,
           Len(layers) \in 0 .. TEXTURE_CAPACITY, TEXTURE_CAPACITY \in Nat
    PROVE  LayersSet(manager, layers) = WithLayers(manager, layers, Len(layers))
<1> DEFINE N == Len(layers)
           Next1(f) == [n \in 0 .. N |->
                           IF n = 0 THEN prepare_frame(manager)
                           ELSE set_frame_layer(f[n - 1], layers[n])]
           set == CHOOSE f : f = Next1(f)
           done == [n \in 0 .. N |-> WithLayers(manager, layers, n)]
<1>1. prepare_frame(manager) = WithLayers(manager, layers, 0)
  <2>1. PICK count, textures, shown :
            manager = [layer_count |-> count,
                       textures |-> [i \in 1 .. TEXTURE_CAPACITY |-> textures[i]],
                       shown |-> shown]
    BY Zenon DEF ManagerShape
  <2>2. prepare_frame(manager)
          = [layer_count |-> 0,
             textures |-> [i \in 1 .. TEXTURE_CAPACITY |-> textures[i]],
             shown |-> shown]
    BY <2>1 DEF prepare_frame
  <2>3. /\ manager.shown = shown
        /\ \A i \in 1 .. TEXTURE_CAPACITY : manager.textures[i] = textures[i]
    BY <2>1
  <2>4. [i \in 1 .. TEXTURE_CAPACITY |->
            IF i <= 0 THEN layers[i] ELSE manager.textures[i]]
          = [i \in 1 .. TEXTURE_CAPACITY |-> textures[i]]
    BY <2>3
  <2>5. QED
    BY <2>2, <2>3, <2>4 DEF WithLayers
<1>2. ASSUME NEW n \in 1 .. N
      PROVE  set_frame_layer(WithLayers(manager, layers, n - 1), layers[n])
                = WithLayers(manager, layers, n)
  BY OneMoreLayer
<1>3. done = Next1(done)
  <2>1. ASSUME NEW n \in 0 .. N
        PROVE  done[n] = IF n = 0 THEN prepare_frame(manager)
                         ELSE set_frame_layer(done[n - 1], layers[n])
    <3>1. CASE n = 0
      BY <1>1, <3>1
    <3>2. CASE n # 0
      <4>1. n \in 1 .. N /\ n - 1 \in 0 .. N
        BY <3>2
      <4>2. done[n - 1] = WithLayers(manager, layers, n - 1)
        BY <4>1
      <4>3. set_frame_layer(done[n - 1], layers[n]) = WithLayers(manager, layers, n)
        BY <1>2, <4>1, <4>2, Zenon
      <4>4. QED
        BY <3>2, <4>3
    <3>3. QED
      BY <3>1, <3>2
  <2>2. QED
    BY <2>1, Zenon
<1>4. set = Next1(set)
  <2> HIDE DEF done, Next1
  <2>1. QED
    BY <1>3, Zenon
<1>5. /\ set[0] = WithLayers(manager, layers, 0)
      /\ \A n \in 1 .. N : set[n] = set_frame_layer(set[n - 1], layers[n])
  <2> HIDE DEF set
  <2>1. QED
    BY <1>1, <1>4
<1> HIDE DEF set, done, Next1
<1>6. \A n \in 0 .. N : set[n] = WithLayers(manager, layers, n)
  <2> DEFINE wrong == {n \in 0 .. N : set[n] # WithLayers(manager, layers, n)}
  <2> SUFFICES ASSUME wrong # {} PROVE FALSE
    OBVIOUS
  <2>1. PICK n \in wrong : \A m \in wrong : n <= m
    <3>1. wrong \in SUBSET Nat
      OBVIOUS
    <3> HIDE DEF wrong
    <3>2. QED
      BY <3>1, LeastOf
  <2>2. n \in 1 .. N
    BY <1>5, <2>1
  <2>3. n - 1 \in 0 .. N /\ n - 1 \notin wrong
    BY <2>1, <2>2
  <2>4. set[n - 1] = WithLayers(manager, layers, n - 1)
    BY <2>3
  <2>5. set[n] = WithLayers(manager, layers, n)
    BY <1>2, <1>5, <2>2, <2>4, Zenon
  <2>6. QED
    BY <2>1, <2>5
<1>7. LayersSet(manager, layers) = set[N]
  BY Zenon DEF LayersSet, set, Next1
<1>8. QED
  BY <1>6, <1>7

(* The picture shows the layers that were set, and no others.                  *)
LEMMA PictureOfLayers ==
    ASSUME NEW manager, ManagerShape(manager), NEW S, NEW layers \in Seq(S),
           Len(layers) <= TEXTURE_CAPACITY, TEXTURE_CAPACITY \in Nat
    PROVE  /\ display_frame(LayersSet(manager, layers)).shown = layers
           /\ ManagerShape(display_frame(LayersSet(manager, layers)))
<1>1. PICK n : n = Len(layers)
  OBVIOUS
<1>2. n \in 0 .. TEXTURE_CAPACITY
  BY <1>1
<1>3. LayersSet(manager, layers) = WithLayers(manager, layers, n)
  BY <1>1, <1>2, LayersAreSet
<1>4. PICK textures : textures = [i \in 1 .. TEXTURE_CAPACITY |->
                          IF i <= n THEN layers[i] ELSE manager.textures[i]]
  OBVIOUS
<1>5. WithLayers(manager, layers, n)
        = [layer_count |-> n, textures |-> textures, shown |-> manager.shown]
  BY <1>4 DEF WithLayers
<1>6. display_frame(LayersSet(manager, layers))
        = [layer_count |-> n, textures |-> textures,
           shown |-> SubSeq(textures, 1, n)]
  <2>1. PICK manager2 : manager2 = [layer_count |-> n, textures |-> textures,
                                    shown |-> manager.shown]
    OBVIOUS
  <2>2. manager2.layer_count = n /\ manager2.textures = textures
    BY <2>1
  <2>3. PICK picture : picture = SubSeq(textures, 1, n)
    OBVIOUS
  <2>4. display_frame(manager2) = [manager2 EXCEPT !.shown = picture]
    BY <2>2, <2>3, Zenon DEF display_frame
  <2>5. [manager2 EXCEPT !.shown = picture]
          = [layer_count |-> n, textures |-> textures, shown |-> picture]
    BY <2>1
  <2>6. QED
    BY <1>3, <1>5, <2>1, <2>3, <2>4, <2>5, Zenon
<1>7. SubSeq(textures, 1, n) = layers
  <2>1. SubSeq(textures, 1, n) = [i \in 1 .. n |-> textures[i]]
    BY <1>2, <1>4
  <2>2. \A i \in 1 .. n : textures[i] = layers[i]
    BY <1>2, <1>4
  <2>3. layers = [i \in 1 .. n |-> layers[i]]
    BY <1>1
  <2>4. QED
    BY <2>1, <2>2, <2>3
<1>8. textures = [i \in 1 .. TEXTURE_CAPACITY |-> textures[i]]
  BY <1>4
<1>9. ASSUME NEW drawn,
             drawn = [layer_count |-> n, textures |-> textures, shown |-> layers]
      PROVE  drawn.shown = layers /\ ManagerShape(drawn)
  <2>1. drawn.layer_count = n /\ drawn.textures = textures /\ drawn.shown = layers
    BY <1>9
  <2>2. QED
    BY <1>8, <1>9, <2>1, Zenon DEF ManagerShape
<1>10. QED
  BY <1>6, <1>7, <1>9, Zenon

-----------------------------------------------------------------------------
(* Pictures. *)

LEMMA BeforeCounted ==
    ASSUME NEW playing, NEW i
    PROVE  Before(playing, i) \in Nat
<1>1. IsFiniteSet(1 .. MaxLayers)
  BY Constants, FS_Interval
<1>2. {j \in LayersOf(playing, playing[i]) : j < i} \in SUBSET (1 .. MaxLayers)
  BY DEF LayersOf
<1>3. QED
  BY <1>1, <1>2, FS_Subset, FS_CardinalityType DEF Before

(* What a layer shows is one frame of a finished loop.                        *)
LEMMA ShownOfLoop ==
    ASSUME DInv, Playable, pc = "idle", NEW playing \in Filled, NEW i \in 1 .. MaxLayers
    PROVE  \E n : LET l == playing[i] IN
              /\ l \in alive /\ l \in ToSet(loops)
              /\ n = Advanced(l, Before(playing, i)) + 1
              /\ n \in 1 .. loop[l].frame_count
              /\ Shown(playing)[i] = [video |-> loop[l].video_addresses[n],
                                      depth |-> loop[l].depth_addresses[n],
                                      cutoff |-> loop[l].cutoffs[n]]
<1>1. PICK l : l = playing[i]
  OBVIOUS
<1>2. l \in ToSet(loops)
  BY <1>1 DEF Filled
<1>3. l \in alive /\ l \in Loops
  BY <1>2 DEF Playable, DInv, TypeOK
<1>4. PICK n : n = Advanced(l, Before(playing, i)) + 1
  OBVIOUS
<1>5. Advanced(l, Before(playing, i)) \in 0 .. loop[l].frame_count - 1
  BY <1>2, BeforeCounted, AdvancedWithin
<1>6. loop[l].frame_count \in Nat
  BY <1>3, LoopTypes DEF DInv
<1>7. n \in 1 .. loop[l].frame_count
  BY <1>4, <1>5, <1>6
<1>8. Shown(playing)[i] = [video |-> loop[l].video_addresses[n],
                           depth |-> loop[l].depth_addresses[n],
                           cutoff |-> loop[l].cutoffs[n]]
  BY <1>1, <1>4, Zenon DEF Shown
<1>9. QED
  BY <1>1, <1>2, <1>3, <1>4, <1>7, <1>8, Zenon

LEMMA TexelsWhole ==
    ASSUME DInv, StoreProofs!IInv, LoopsWhole, Playable, Recorded, Timed, open,
           pc = "idle", NEW playing \in Filled, NEW i \in 1 .. MaxLayers,
           NEW texel, texel = Texels(Shown(playing)[i])
    PROVE  /\ texel.video \in 1 .. record_timestamp
           /\ texel.depth = texel.video /\ texel.cutoff = texel.video
<1>1. PICK n : /\ playing[i] \in alive
               /\ n \in 1 .. loop[playing[i]].frame_count
               /\ Shown(playing)[i] = [video |-> loop[playing[i]].video_addresses[n],
                                       depth |-> loop[playing[i]].depth_addresses[n],
                                       cutoff |-> loop[playing[i]].cutoffs[n]]
  BY ShownOfLoop, Zenon
<1>2. PICK l \in alive : l = playing[i]
  BY <1>1
<1>3. PICK id : id = loop[l].frame_ids[n]
  OBVIOUS
<1>4. PICK c : c = Store!Frame(id)
  OBVIOUS
<1>5. /\ id \in handed
      /\ loop[l].video_addresses[n] = c /\ loop[l].depth_addresses[n] = c
      /\ \A p \in Store!Fields : content[c][p] = loop[l].cutoffs[n]
  BY <1>1, <1>2, <1>3, <1>4, Zenon DEF LoopsWhole
<1>6. texel = [video |-> content[c]["video"], depth |-> content[c]["depth"],
               cutoff |-> loop[l].cutoffs[n]]
  BY <1>1, <1>2, <1>5 DEF Texels
<1>7. /\ content[c]["video"] = content[c]["timestamp"]
      /\ content[c]["depth"] = content[c]["video"]
      /\ loop[l].cutoffs[n] = content[c]["video"]
  BY <1>5 DEF Store!Fields, Store!Parts
<1>8. content[c]["timestamp"] # -1
  BY <1>4, <1>5, SameNames DEF StoreProofs!IInv, StoreProofs!WholeFrames,
     StoreProofs!Unset
<1>9. c \in Chunks
  BY <1>4, <1>5, SameNames DEF StoreProofs!IInv, StoreProofs!HandedPrivate,
     StoreProofs!TypeOK
<1>10. content[c]["video"] \in 1 .. record_timestamp
  BY <1>7, <1>8, <1>9 DEF Recorded
<1>11. QED
  BY <1>6, <1>7, <1>10

PictureInv == ManagerShape(display_manager) /\ PicturesWhole

(* What the display function draws, and what it leaves.                       *)
LEMMA DisplayDraws ==
    ASSUME ManagerShape(display_manager), Display
    PROVE  \/ ~Drawing /\ UNCHANGED directorVars /\ UNCHANGED display_manager
           \/ /\ loops = <<>> /\ UNCHANGED directorVars
              /\ ManagerShape(display_manager)' /\ display_manager'.shown = <<Live>>
           \/ /\ pc = "idle" /\ ManagerShape(display_manager)'
              /\ \E playing \in Filled :
                    /\ Drawing /\ loops # <<>> /\ Play(playing)
                    /\ display_manager'.shown
                          = Append([i \in 1 .. MaxLayers |->
                                       Texels(Shown(playing)[i])], Live)
<1>1. MaxLayers \in Nat /\ TEXTURE_CAPACITY \in Nat /\ MaxLayers + 1 = TEXTURE_CAPACITY
      /\ 1 <= TEXTURE_CAPACITY
  BY Constants, Clock
<1>2. ASSUME NEW S, NEW layers \in Seq(S), Len(layers) < TEXTURE_CAPACITY, Draw(layers)
      PROVE  /\ display_manager'.shown = Append(layers, Live)
             /\ ManagerShape(display_manager)'
  <2>1. PICK all : all = Append(layers, Live)
    OBVIOUS
  <2>2. all \in Seq(S \cup {Live}) /\ Len(all) <= TEXTURE_CAPACITY
    BY <1>1, <1>2, <2>1
  <2>3. display_manager' = display_frame(LayersSet(display_manager, all))
    BY <1>2, <2>1 DEF Draw
  <2>4. /\ display_frame(LayersSet(display_manager, all)).shown = all
        /\ ManagerShape(display_frame(LayersSet(display_manager, all)))
    BY <1>1, <2>2, PictureOfLayers
  <2>5. QED
    BY <2>1, <2>3, <2>4, Zenon DEF ManagerShape
<1>3. CASE loops = <<>> /\ Draw(<<>>) /\ UNCHANGED directorVars
  <2>1. <<>> \in Seq({}) /\ Len(<<>>) < TEXTURE_CAPACITY /\ Append(<<>>, Live) = <<Live>>
    BY <1>1
  <2>2. QED
    BY <1>2, <1>3, <2>1
<1>4. ASSUME NEW playing \in Filled, Drawing, loops # <<>>, Play(playing),
             Draw([i \in 1 .. MaxLayers |-> Texels(Shown(playing)[i])])
      PROVE  /\ pc = "idle" /\ ManagerShape(display_manager)'
             /\ \E playing2 \in Filled :
                   /\ Drawing /\ loops # <<>> /\ Play(playing2)
                   /\ display_manager'.shown
                         = Append([i \in 1 .. MaxLayers |->
                                      Texels(Shown(playing2)[i])], Live)
  <2>1. PICK layers : layers = [i \in 1 .. MaxLayers |-> Texels(Shown(playing)[i])]
    OBVIOUS
  <2>2. layers \in Seq({layers[i] : i \in 1 .. MaxLayers}) /\ Len(layers) = MaxLayers
    BY <1>1, <2>1
  <2>3. Len(layers) < TEXTURE_CAPACITY /\ Draw(layers)
    BY <1>1, <1>4, <2>1, <2>2
  <2>4. display_manager'.shown = Append(layers, Live) /\ ManagerShape(display_manager)'
    BY <1>2, <2>2, <2>3
  <2>5. pc = "idle"
    BY <1>4 DEF Play
  <2>6. QED
    BY <1>4, <2>1, <2>4, <2>5, Zenon
<1>5. QED
  BY <1>3, <1>4, Zenon DEF Display

(* The director's theorems, in the program.                                    *)
DirectorHolds ==
    /\ DInv /\ CallsInv /\ Playable /\ StoreProofs!IInv

LEMMA DirectorHoldsAlways == GhostsSpec => []DirectorHolds
BY GhostsUseDirector, DirectorInvariant, CallsHold, DirectorPlayable,
   StoreInvariantHolds, PTL DEF DirectorHolds

LEMMA PictureStep ==
    ASSUME DirectorHolds, LoopsWhole, Unreleased, Timed, Recorded,
           PictureInv, [GhostsNext]_ghostsVars
    PROVE  PictureInv'
<1>1. Later
  BY ClientSteps
<1>2. ASSUME UNCHANGED display_manager PROVE PictureInv'
  BY <1>1, <1>2 DEF PictureInv, PicturesWhole, ManagerShape, Later
<1>3. CASE Display
  <2>1. record_timestamp' = record_timestamp /\ record_timestamp \in Nat
    BY <1>1, <1>3 DEF Display, kinectVars, Later
  <2>2. CASE UNCHANGED display_manager
    BY <1>2, <2>2
  <2>3. CASE ManagerShape(display_manager)' /\ display_manager'.shown = <<Live>>
    BY <2>3 DEF PictureInv, PicturesWhole
  <2>4. ASSUME pc = "idle", ManagerShape(display_manager)', NEW playing \in Filled,
               display_manager'.shown
                  = Append([i \in 1 .. MaxLayers |-> Texels(Shown(playing)[i])], Live)
        PROVE  PictureInv'
    <3>1. PICK layers : layers = [i \in 1 .. MaxLayers |-> Texels(Shown(playing)[i])]
      OBVIOUS
    <3>2. PICK shown : shown = display_manager'.shown
      OBVIOUS
    <3>3. MaxLayers \in Nat /\ MaxLayers + 1 = TEXTURE_CAPACITY
      BY Constants, Clock
    <3>4. layers \in Seq({layers[i] : i \in 1 .. MaxLayers}) /\ Len(layers) = MaxLayers
      BY <3>1, <3>3
    <3>5. shown = Append(layers, Live)
      BY <2>4, <3>1, <3>2
    <3>6. /\ Len(shown) = TEXTURE_CAPACITY /\ shown[Len(shown)] = Live
          /\ \A i \in 1 .. Len(shown) - 1 :
                i \in 1 .. MaxLayers /\ shown[i] = layers[i]
      BY <3>3, <3>4, <3>5
    <3>7. ASSUME NEW i \in 1 .. Len(shown) - 1
          PROVE  /\ shown[i].video \in 1 .. record_timestamp
                 /\ shown[i].depth = shown[i].video
                 /\ shown[i].cutoff = shown[i].video
      <4>1. i \in 1 .. MaxLayers /\ shown[i] = Texels(Shown(playing)[i])
        BY <3>1, <3>6
      <4>2. QED
        BY <2>4, <4>1, TexelsWhole DEF DirectorHolds, Unreleased
    <3>8. QED
      BY <2>1, <2>4, <3>2, <3>6, <3>7 DEF PictureInv, PicturesWhole
  <2>5. QED
    BY <1>3, <2>2, <2>3, <2>4, DisplayDraws DEF PictureInv
<1>4. CASE Idle \/ Video \/ Depth \/ Proceed \/ Cleanup \/ Others
  BY <1>2, <1>4 DEF Idle, Video, Depth, Proceed, Cleanup, Others
<1>5. ASSUME NEW captured \in BOOLEAN, IdleEnds(captured) PROVE PictureInv'
  BY <1>2, <1>5 DEF IdleEnds
<1>6. CASE UNCHANGED ghostsVars
  BY <1>2, <1>6 DEF ghostsVars
<1>7. QED
  BY <1>3, <1>4, <1>5, <1>6 DEF GhostsNext, Stopped

LEMMA PictureHolds == ASSUME NoFaults PROVE GhostsSpec => []PictureInv
<1>1. GhostsInit => PictureInv
  <2> SUFFICES ASSUME GhostsInit PROVE PictureInv
    OBVIOUS
  <2>1. PICK textures : textures = [i \in 1 .. TEXTURE_CAPACITY |-> Blank]
    OBVIOUS
  <2>2. display_manager = [layer_count |-> 0, textures |-> textures, shown |-> <<>>]
    BY <2>1 DEF GhostsInit, display_manager_create
  <2>3. /\ display_manager.layer_count = 0 /\ display_manager.shown = <<>>
        /\ display_manager.textures = textures
    BY <2>2
  <2>4. textures = [i \in 1 .. TEXTURE_CAPACITY |-> textures[i]]
    BY <2>1
  <2>5. ManagerShape(display_manager)
    BY <2>2, <2>3, <2>4, Zenon DEF ManagerShape
  <2>6. QED
    BY <2>3, <2>5 DEF PictureInv, PicturesWhole
<1>2. DirectorHolds /\ LoopsWhole /\ Unreleased /\ Timed /\ Recorded
         /\ PictureInv /\ [GhostsNext]_ghostsVars
      => PictureInv'
  BY PictureStep
<1>3. Spec => []LoopsWhole
  BY DirectorLoopsWhole DEF NoFaults
<1>4. QED
  BY <1>1, <1>2, <1>3, GhostsUseDirector, DirectorHoldsAlways,
     UnreleasedHolds, TimedHolds, RecordedHolds, PTL DEF GhostsSpec

(* As long as the director's own calls succeed, every picture has all of the    *)
(* director's layers, or none before there is a loop, and the live picture on  *)
(* top, and the video, depth and cutoff of every ghost were captured at one    *)
(* moment after the first video (main.c:389-440).                             *)
THEOREM GhostsPicturesWhole ==
    ASSUME Faults \cap DirectorFaults = {}
    PROVE  GhostsSpec => []PicturesWhole
<1>1. NoFaults
  BY DEF NoFaults
<1>2. PictureInv => PicturesWhole
  BY DEF PictureInv
<1>3. QED
  BY <1>1, <1>2, PictureHolds, PTL


-----------------------------------------------------------------------------
(* Video and depth.  The store counts copies since the time was another; the   *)
(* program counts depths since the last video.  The two agree, and each depth *)
(* but the one being handled has been followed by its meta data.             *)
Paired ==
    LET V == copies["video"]
        D == copies["depth"]
        M == copies["meta"]
    IN  /\ depths \in 0 .. 2
        /\ last = -1 \/ last \in 0 .. record_timestamp
        /\ IF record_timestamp = 0 THEN V = 0 /\ depths = 2
           ELSE /\ last = record_timestamp
                /\ V = 1
                /\ IF depths = 2 THEN D >= 2 ELSE D = depths
        /\ IF pc = "meta" THEN D = M + 1 ELSE D = M

LEMMA PartNames ==
    /\ "video" \in Store!Parts /\ "depth" \in Store!Parts /\ "meta" \in Store!Parts
    /\ StoreProofs!Parts = {"video", "depth", "meta"}
    /\ StoreProofs!Parts = Store!Parts
BY DEF Store!Parts, StoreProofs!Parts

(* What a capture's copies come to when it completes a frame, and what it does *)
(* when it does not.                                                         *)
LEMMA CompletesOnce ==
    ASSUME StoreProofs!IInv, NEW part \in Store!Parts, NEW timestamp \in Timestamps,
           Store!CaptureData(part, timestamp)
    PROVE  \/ /\ \A p \in StoreProofs!Parts : copies'[p] = 1
              /\ timestamp = last
           \/ /\ frames' = frames /\ status' = "NO_ERROR"
              /\ frame_id' = invalid_frame_id
<1>1. StoreProofs!CaptureData(part, timestamp) /\ part \in StoreProofs!Parts
  BY SameCapture, PartNames, Zenon
<1>2. StoreProofs!Count(part, timestamp)
  BY <1>1, Zenon DEF StoreProofs!CaptureData
<1>3. CASE StoreProofs!Complete(part, timestamp)
  BY <1>1, <1>2, <1>3, Assumed, StoreProofs!CompleteOnce, Zenon
     DEF StoreProofs!StoreAssumption
<1>4. CASE ~StoreProofs!Complete(part, timestamp)
  <2>1. StoreProofs!StartFrame(part, timestamp) \/ StoreProofs!AddToFrame(part, timestamp)
    BY <1>1, <1>4, Zenon DEF StoreProofs!CaptureData, StoreProofs!StoreFails,
       StoreProofs!StoreClaimFails, StoreProofs!StoreFrame
  <2>2. QED
    BY <2>1 DEF StoreProofs!StartFrame, StoreProofs!AddToFrame,
                StoreProofs!invalid_frame_id, invalid_frame_id
<1>5. QED
  BY <1>3, <1>4

LEMMA CopiesTyped ==
    ASSUME StoreProofs!IInv
    PROVE  /\ copies["video"] \in Nat /\ copies["depth"] \in Nat
           /\ copies["meta"] \in Nat
           /\ copies \in [StoreProofs!Parts -> 0 .. MaxRepeat]
BY PartNames DEF StoreProofs!IInv, StoreProofs!TypeOK

LEMMA VideoCopies ==
    ASSUME StoreProofs!IInv, Timed, Paired, Video
    PROVE  /\ last' = record_timestamp' /\ record_timestamp' = record_timestamp + 1
           /\ record_timestamp \in Nat
           /\ copies'["video"] = 1 /\ copies'["depth"] = 0 /\ copies'["meta"] = 0
           /\ pc = "idle" /\ pc' # "meta" /\ depths' = 0 /\ frames' = frames
<1>1. /\ record_timestamp' = record_timestamp + 1
      /\ record_timestamp \in Nat /\ record_timestamp' \in Timestamps
  BY ClientSteps DEF Video, VideoArrives, ReadTimer, Later, GhostsNext
<1>2. /\ Store!CaptureData("video", record_timestamp')
      /\ pc = "idle" /\ pc' # "meta" /\ depths' = 0
  BY DEF Video, CaptureVideo, MayCapture
<1>3. last' = record_timestamp'
  BY <1>2, CaptureReturns
<1>4. record_timestamp' # last
  BY <1>1 DEF Paired
<1>5. copies' = [p \in StoreProofs!Parts |-> IF p = "video" THEN 1 ELSE 0]
  BY <1>1, <1>2, <1>4, PartNames, CaptureCounts
<1>6. copies'["video"] = 1 /\ copies'["depth"] = 0 /\ copies'["meta"] = 0
  BY <1>5, PartNames
<1>7. frames' = frames
  BY <1>1, <1>2, <1>4, PartNames, CompletesOnce
<1>8. QED
  BY <1>1, <1>2, <1>3, <1>6, <1>7

LEMMA DepthCopies ==
    ASSUME StoreProofs!IInv, Timed, Paired, Depth
    PROVE  /\ last' = record_timestamp /\ record_timestamp' = record_timestamp
           /\ record_timestamp \in Nat
           /\ IF last = record_timestamp
              THEN /\ copies'["video"] = copies["video"]
                   /\ copies'["depth"] = copies["depth"] + 1
                   /\ copies'["meta"] = copies["meta"]
              ELSE copies'["video"] = 0 /\ copies'["depth"] = 1 /\ copies'["meta"] = 0
           /\ pc = "idle" /\ pc' = "meta" /\ frames' = frames
           /\ depths' = IF depths = 0 THEN 1 ELSE 2
<1>1. /\ record_timestamp' = record_timestamp
      /\ record_timestamp \in Nat /\ record_timestamp' \in Timestamps
  BY Clock DEF Depth, DepthArrives, kinectVars, Timed
<1>2. /\ Store!CaptureData("depth", record_timestamp)
      /\ pc = "idle" /\ depths' = IF depths = 0 THEN 1 ELSE 2
      /\ status' = "NO_ERROR" => pc' = "meta"
  BY <1>1 DEF Depth, CaptureDepth, MayCapture
<1>3. last' = record_timestamp
  BY <1>2, CaptureReturns
<1>4. copies' = IF record_timestamp = last
                THEN [copies EXCEPT !["depth"] = @ + 1]
                ELSE [p \in StoreProofs!Parts |-> IF p = "depth" THEN 1 ELSE 0]
  BY <1>1, <1>2, PartNames, CaptureCounts
<1>5. IF last = record_timestamp
      THEN /\ copies'["video"] = copies["video"]
           /\ copies'["depth"] = copies["depth"] + 1
           /\ copies'["meta"] = copies["meta"]
      ELSE copies'["video"] = 0 /\ copies'["depth"] = 1 /\ copies'["meta"] = 0
  BY <1>4, PartNames, CopiesTyped
<1>6. ~\A p \in StoreProofs!Parts : copies'[p] = 1
  BY <1>2, <1>5, PartNames, CopiesTyped DEF Paired
<1>7. frames' = frames /\ status' = "NO_ERROR"
  BY <1>1, <1>2, <1>6, PartNames, CompletesOnce
<1>8. QED
  BY <1>1, <1>2, <1>3, <1>5, <1>7

LEMMA MetaCopies ==
    ASSUME StoreProofs!IInv, CallsInv, CaptureMeta
    PROVE  /\ last' = last /\ last \in Timestamps
           /\ copies' = [copies EXCEPT !["meta"] = @ + 1]
           /\ copies'["video"] = copies["video"] /\ copies'["depth"] = copies["depth"]
           /\ copies'["meta"] = copies["meta"] + 1
           /\ pc = "meta" /\ pc' # "meta"
<1>1. /\ Store!CaptureData("meta", last) /\ last \in Timestamps
      /\ pc = "meta" /\ pc' # "meta"
  BY DEF CaptureMeta, CallsInv
<1>2. last' = last
  BY <1>1, CaptureReturns
<1>3. copies' = [copies EXCEPT !["meta"] = @ + 1]
  BY <1>1, PartNames, CaptureCounts
<1>4. QED
  BY <1>1, <1>2, <1>3, PartNames, CopiesTyped

LEMMA PairedStep ==
    ASSUME StoreProofs!IInv, CallsInv, Timed, Paired, [GhostsNext]_ghostsVars
    PROVE  Paired'
<1>1. CASE Video
  BY <1>1, VideoCopies DEF Paired
<1>2. CASE Depth
  BY <1>2, DepthCopies, CopiesTyped DEF Paired
<1>3. CASE CaptureMeta /\ record_timestamp' = record_timestamp /\ depths' = depths
  BY <1>3, MetaCopies, CopiesTyped DEF Paired
<1>4. CASE Aside
  BY <1>4 DEF Aside, Paired
<1>5. QED
  BY <1>1, <1>2, <1>3, <1>4, ProgramSteps

LEMMA PairedHolds == GhostsSpec => []Paired
<1>1. GhostsInit => Paired
  BY Clock DEF GhostsInit, KinectInit, Init, Store!StoreInit, Store!Unset, Store!Parts,
               Paired
<1>2. StoreProofs!IInv /\ CallsInv /\ Timed /\ Paired /\ [GhostsNext]_ghostsVars
         => Paired'
  BY PairedStep
<1>3. GhostsSpec => []StoreProofs!IInv /\ []CallsInv
  BY GhostsUseDirector, StoreInvariantHolds, CallsHold, PTL
<1>4. QED
  BY <1>1, <1>2, <1>3, TimedHolds, PTL DEF GhostsSpec

(* The store's vector can grow. *)
VectorGrows == "malloc vector" \notin Faults

(* A frame that meta data completes is appended, or its vector cannot grow.   *)
LEMMA MetaCompletes ==
    ASSUME StoreProofs!IInv, CallsInv, CaptureMeta, VectorGrows,
           copies["video"] = 1, copies["depth"] = 1, copies["meta"] = 0
    PROVE  Len(frames') = Len(frames) + 1
<1>1. /\ Store!CaptureData("meta", last) /\ last \in Timestamps
      /\ "meta" \in StoreProofs!Parts
  BY PartNames DEF CaptureMeta, CallsInv
<1>2. StoreProofs!CaptureData("meta", last)
  BY <1>1, SameCapture, PartNames, Zenon
<1>3. /\ StoreProofs!TypeOK /\ StoreProofs!SizeCounts
      /\ StoreProofs!current_timestamp = last
  BY DEF StoreProofs!IInv, StoreProofs!SizeCounts
<1>4. StoreProofs!Count("meta", last)
  BY <1>2, Zenon DEF StoreProofs!CaptureData
<1>5. StoreProofs!Bytes(copies')
        = current_frame_stored_size + StoreProofs!part_bytes["meta"]
  BY <1>1, <1>3, <1>4, Assumed, StoreProofs!CountSame, Zenon
     DEF StoreProofs!StoreAssumption
<1>6. copies'["video"] = 1 /\ copies'["depth"] = 1 /\ copies'["meta"] = 1
  BY MetaCopies, CopiesTyped
<1>7. StoreProofs!Bytes(copies') = StoreProofs!frame_size
  <2>1. /\ VideoBytes \in Nat /\ DepthBytes \in Nat /\ MetaBytes \in Nat
        /\ TimestampBytes \in Nat
    BY Assumed DEF StoreProofs!StoreAssumption
  <2>2. QED
    BY <1>6, <2>1 DEF StoreProofs!Bytes, StoreProofs!frame_size
<1>8. /\ ~StoreProofs!StartFrame("meta", last)
      /\ ~StoreProofs!AddToFrame("meta", last)
      /\ ~StoreProofs!StoreFails("meta", last)
  <2>1. "malloc vector" \notin Faults \ DirectorFaults
    BY DEF VectorGrows
  <2>2. QED
    BY <1>3, <1>5, <1>7, <2>1, Zenon
       DEF StoreProofs!StartFrame, StoreProofs!AddToFrame, StoreProofs!StoreFails
<1>9. frames' = Append(frames, current_frame)
  BY <1>2, <1>8, Zenon DEF StoreProofs!CaptureData, StoreProofs!StoreClaimFails,
     StoreProofs!StoreFrame
<1>10. frames \in Seq(Chunks \cup {StoreProofs!Null}) /\ current_frame \in Chunks
  BY <1>3 DEF StoreProofs!TypeOK
<1>11. QED
  BY <1>9, <1>10

(* Whatever libfreenect delivers in whatever order, a video makes a frame with  *)
(* the first depth that follows it and with no other; only when the store's   *)
(* vector cannot grow is that frame lost (kinect_manager.c:464, 496;           *)
(* frame_store.c:876-900).                                                    *)
THEOREM GhostsPairUp ==
    ASSUME VectorGrows
    PROVE  GhostsSpec => PairsUp
<1> DEFINE Pairing == /\ Len(frames') > Len(frames) => depths = 1
                      /\ pc = "meta" /\ pc' # "meta" /\ depths = 1
                            => Len(frames') = Len(frames) + 1
<1>1. StoreProofs!IInv /\ CallsInv /\ Timed /\ Paired /\ [GhostsNext]_ghostsVars
         => [Pairing]_ghostsVars
  <2> SUFFICES ASSUME StoreProofs!IInv, CallsInv, Timed, Paired,
                      [GhostsNext]_ghostsVars
               PROVE  Pairing
    OBVIOUS
  <2>1. Len(frames) \in Nat
    BY DEF StoreProofs!IInv, StoreProofs!TypeOK
  <2>2. CASE Video
    BY <2>1, <2>2, VideoCopies
  <2>3. CASE Depth
    BY <2>1, <2>3, DepthCopies
  <2>4. CASE CaptureMeta
    <3>1. Len(frames') > Len(frames) => depths = 1
      <4> SUFFICES ASSUME Len(frames') > Len(frames) PROVE depths = 1
        OBVIOUS
      <4>1. Store!CaptureData("meta", last) /\ last \in Timestamps
        BY <2>4 DEF CaptureMeta, CallsInv
      <4>2. \A p \in StoreProofs!Parts : copies'[p] = 1
        BY <2>1, <4>1, PartNames, CompletesOnce
      <4>3. copies["video"] = 1 /\ copies["depth"] = 1
        BY <2>4, <4>2, PartNames, MetaCopies
      <4>4. QED
        BY <4>3 DEF Paired
    <3>2. ASSUME depths = 1 PROVE Len(frames') = Len(frames) + 1
      <4>1. copies["video"] = 1 /\ copies["depth"] = 1 /\ copies["meta"] = 0
        BY <2>4, <3>2, MetaCopies, CopiesTyped DEF Paired
      <4>2. QED
        BY <2>4, <4>1, MetaCompletes
    <3>3. QED
      BY <3>1, <3>2
  <2>5. CASE Aside
    BY <2>1, <2>5 DEF Aside
  <2>6. QED
    BY <2>2, <2>3, <2>4, <2>5, ProgramSteps
<1>2. GhostsSpec => []StoreProofs!IInv /\ []CallsInv
  BY GhostsUseDirector, StoreInvariantHolds, CallsHold, PTL
<1>3. QED
  BY <1>1, <1>2, PairedHolds, TimedHolds, PTL DEF GhostsSpec, PairsUp

-----------------------------------------------------------------------------
(* Two frames the store has handed out differ in their time.                   *)
TimeOf(id) == content[frames[id + 1]]["timestamp"]
TimesDiffer ==
    /\ \A i, j \in handed : TimeOf(i) = TimeOf(j) => i = j
    /\ \A i \in handed : TimeOf(i) = record_timestamp => copies["meta"] > 0

LEMMA HandedTimes ==
    ASSUME StoreProofs!IInv, Recorded, Timed, NEW id \in handed
    PROVE  TimeOf(id) \in 1 .. record_timestamp
<1>1. PICK c : c = frames[id + 1]
  OBVIOUS
<1>2. c \in Chunks
  BY <1>1 DEF StoreProofs!IInv, StoreProofs!HandedPrivate, StoreProofs!TypeOK,
              StoreProofs!Frame
<1>3. content[c]["timestamp"] # -1 /\ content[c]["video"] = content[c]["timestamp"]
  BY <1>1, PartNames DEF StoreProofs!IInv, StoreProofs!WholeFrames,
     StoreProofs!Unset, StoreProofs!Frame
<1>4. QED
  BY <1>1, <1>2, <1>3 DEF Recorded, TimeOf

(* A new frame has the time of the capture that completed it.                 *)
LEMMA NewFrameTimed ==
    ASSUME StoreProofs!IInv, NEW part \in Store!Parts, NEW timestamp \in Timestamps,
           Store!CaptureData(part, timestamp), NewFrame
    PROVE  content'[frames'[frame_id' + 1]]["timestamp"] = timestamp
<1>1. Store!StoreFrame(part, timestamp)
  BY DEF Store!CaptureData, Store!StartFrame, Store!AddToFrame, Store!StoreFails,
         Store!StoreClaimFails, NewFrame, Store!invalid_frame_id, invalid_frame_id
<1>2. /\ content \in [Chunks -> [Store!Fields -> Timestamps \cup {-1}]]
      /\ current_frame \in Chunks /\ current_frame \notin spare
      /\ frames \in Seq(Chunks \cup {StoreProofs!Null})
      /\ "timestamp" \in Store!Fields /\ part # "timestamp"
  BY <1>1, SameNames DEF StoreProofs!IInv, StoreProofs!TypeOK, StoreProofs!Unset,
     Store!Fields, Store!Parts, Store!StoreFrame, Store!Pool!Acquire
<1>3. /\ timestamp = content[current_frame]["timestamp"]
      /\ frame_id' = Len(frames) /\ frames' = Append(frames, current_frame)
  BY <1>1 DEF Store!StoreFrame, Store!Complete, Store!current_timestamp
<1>4. frames'[frame_id' + 1] = current_frame
  BY <1>2, <1>3
<1>5. PICK d \in spare : content' = [content EXCEPT ![current_frame][part] = timestamp,
                             ![d] = [Store!Cleared EXCEPT !["timestamp"] = timestamp]]
  BY <1>1, Zenon DEF Store!StoreFrame
<1>6. PICK cleared : cleared = [Store!Cleared EXCEPT !["timestamp"] = timestamp]
  OBVIOUS
<1>7. content'[current_frame] = [content[current_frame] EXCEPT ![part] = timestamp]
  BY <1>2, <1>5, <1>6
<1>8. content[current_frame] \in [Store!Fields -> Timestamps \cup {-1}]
  BY <1>2
<1>9. QED
  BY <1>2, <1>3, <1>4, <1>7, <1>8

(* Without a capture no frame is new, and what stays is as it was.             *)
LEMMA AsideKeeps ==
    ASSUME StoreProofs!IInv, CallsInv, Unreleased',
           Handle \/ Playback \/ Handler \/ Generator \/ UNCHANGED directorVars
    PROVE  /\ handed' \subseteq handed
           /\ \A id \in handed' : TimeOf(id)' = TimeOf(id)
<1>1. ASSUME handed' \subseteq handed, content' = content,
             \A id \in handed' : frames'[id + 1] = frames[id + 1]
      PROVE  /\ handed' \subseteq handed
             /\ \A id \in handed' : TimeOf(id)' = TimeOf(id)
  BY <1>1 DEF TimeOf
<1>2. content' = content
  BY NotCaptured
<1>3. ASSUME handed' = handed, frames' = frames
      PROVE  /\ handed' \subseteq handed
             /\ \A id \in handed' : TimeOf(id)' = TimeOf(id)
  BY <1>1, <1>2, <1>3
<1>4. ASSUME NEW valid \in BOOLEAN, HandleFrame(valid)
      PROVE  /\ handed' \subseteq handed
             /\ \A id \in handed' : TimeOf(id)' = TimeOf(id)
  <2>1. frame_id \in handed /\ open'
    BY <1>4 DEF HandleFrame, CallsInv, Unreleased
  <2>2. CASE RecordFrame(valid)
    BY <1>3, <2>2 DEF RecordFrame, storeVars
  <2>3. CASE Store!RemoveFrame(frame_id)
    BY <1>1, <1>2, <2>1, <2>3, RemoveKeeps
  <2>4. QED
    BY <1>4, <2>2, <2>3 DEF HandleFrame, DropFrame, EndLoop
<1>5. CASE Generator
  BY <1>3, <1>5 DEF Generator, Supply, Store!Supply, Store!storeVars
<1>6. CASE Playback \/ Handler \/ UNCHANGED directorVars
  BY <1>3, <1>6 DEF Playback, Play, Handler, Publish, directorVars, vars, storeVars
<1>7. QED
  BY <1>4, <1>5, <1>6 DEF Handle

LEMMA TimesStep ==
    ASSUME StoreProofs!IInv, StoreProofs!IInv', CallsInv, Timed, Recorded, Recorded',
           Unreleased', Paired, TimesDiffer, [GhostsNext]_ghostsVars
    PROVE  TimesDiffer'
<1>1. Later
  BY ClientSteps
<1>2. \A id \in handed : TimeOf(id) \in 1 .. record_timestamp
  BY HandedTimes
<1>3. open'
  BY DEF Unreleased
<1>4. ASSUME NEW part \in Store!Parts, NEW timestamp \in Timestamps,
             Store!CaptureData(part, timestamp)
      PROVE  /\ handed' = IF NewFrame THEN handed \cup {frame_id'} ELSE handed
             /\ \A id \in handed : TimeOf(id)' = TimeOf(id)
             /\ NewFrame => TimeOf(frame_id)' = timestamp
             /\ NewFrame => (\A p \in StoreProofs!Parts : copies'[p] = 1)
  BY <1>3, <1>4, CaptureStores, NewFrameTimed, CompletesOnce DEF TimeOf, NewFrame
<1>5. CASE Video
  <2>1. Store!CaptureData("video", record_timestamp') /\ record_timestamp' \in Timestamps
    BY <1>1, <1>5 DEF Video, CaptureVideo, Later
  <2>2. copies'["depth"] = 0 /\ record_timestamp' = record_timestamp + 1
    BY <1>5, VideoCopies
  <2>3. handed' = handed /\ \A id \in handed : TimeOf(id)' = TimeOf(id)
    BY <1>4, <2>1, <2>2, PartNames
  <2>4. \A id \in handed' : TimeOf(id)' # record_timestamp'
    BY <1>1, <1>2, <2>2, <2>3 DEF Later
  <2>5. QED
    BY <2>3, <2>4 DEF TimesDiffer
<1>6. CASE Depth
  <2>1. /\ Store!CaptureData("depth", record_timestamp')
        /\ record_timestamp' \in Timestamps
    BY <1>1, <1>6 DEF Depth, CaptureDepth, Later
  <2>2. /\ record_timestamp' = record_timestamp
        /\ frames' = frames /\ pc' = "meta" /\ pc = "idle"
        /\ IF last = record_timestamp THEN copies'["meta"] = copies["meta"]
                                      ELSE copies'["meta"] = 0
        /\ IF last = record_timestamp
           THEN copies'["depth"] = copies["depth"] + 1
           ELSE copies'["depth"] = 1
    BY <1>6, DepthCopies
  <2>3. ~NewFrame
    BY <2>2, <1>4, <2>1, PartNames, CopiesTyped DEF Paired
  <2>4. handed' = handed /\ \A id \in handed : TimeOf(id)' = TimeOf(id)
    BY <1>4, <2>1, <2>3, PartNames
  <2>5. last # record_timestamp => record_timestamp = 0
    BY DEF Paired
  <2>6. QED
    BY <1>1, <1>2, <2>2, <2>4, <2>5 DEF TimesDiffer, Later
<1>7. CASE CaptureMeta /\ record_timestamp' = record_timestamp
  <2>1. /\ Store!CaptureData("meta", last) /\ last \in Timestamps
    BY <1>7 DEF CaptureMeta, CallsInv
  <2>2. /\ copies'["meta"] = copies["meta"] + 1 /\ copies["meta"] \in Nat
        /\ copies'["video"] = copies["video"]
    BY <1>7, MetaCopies, CopiesTyped
  <2>3. CASE ~NewFrame
    <3>1. handed' = handed /\ \A id \in handed : TimeOf(id)' = TimeOf(id)
      BY <1>4, <2>1, <2>3, PartNames
    <3>2. QED
      BY <2>2, <3>1 DEF TimesDiffer
  <2>4. CASE NewFrame
    <3>1. /\ handed' = handed \cup {frame_id'}
          /\ \A id \in handed : TimeOf(id)' = TimeOf(id)
          /\ TimeOf(frame_id)' = last
          /\ copies'["meta"] = 1 /\ copies'["video"] = 1
      BY <1>4, <2>1, <2>4, PartNames
    <3>2. copies["meta"] = 0 /\ last = record_timestamp
      BY <2>2, <3>1 DEF Paired
    <3>3. \A id \in handed : TimeOf(id) # record_timestamp
      BY <3>2 DEF TimesDiffer
    <3>4. PICK new : new = frame_id'
      OBVIOUS
    <3>5. PICK time : time = [id \in handed' |-> TimeOf(id)']
      OBVIOUS
    <3>6. \A id \in handed' : time[id] = TimeOf(id)'
      BY <3>5
    <3>7. time[new] = last
      BY <3>1, <3>4, <3>6 DEF TimeOf
    <3>8. \A id \in handed : time[id] = TimeOf(id) /\ time[id] # last
      BY <3>1, <3>2, <3>3, <3>6
    <3>9. \A i, j \in handed' : time[i] = time[j] => i = j
      BY <3>1, <3>4, <3>7, <3>8 DEF TimesDiffer
    <3>10. QED
      BY <3>1, <3>6, <3>9 DEF TimesDiffer
  <2>5. QED
    BY <2>3, <2>4
<1>8. CASE /\ Handle \/ Playback \/ Handler \/ Generator \/ UNCHANGED directorVars
           /\ record_timestamp' = record_timestamp
  <2>1. copies' = copies
    BY <1>8, NotCaptured
  <2>2. handed' \subseteq handed /\ \A id \in handed' : TimeOf(id)' = TimeOf(id)
    BY <1>8, AsideKeeps
  <2>3. QED
    BY <1>8, <2>1, <2>2 DEF TimesDiffer
<1>9. QED
  BY <1>5, <1>6, <1>7, <1>8, ProgramParts

LEMMA TimesHold == GhostsSpec => []TimesDiffer
<1>1. GhostsInit => TimesDiffer
  BY DEF GhostsInit, Init, Store!StoreInit, TimesDiffer
<1>2. /\ StoreProofs!IInv /\ StoreProofs!IInv' /\ CallsInv /\ Timed
      /\ Recorded /\ Recorded' /\ Unreleased' /\ Paired
      /\ TimesDiffer /\ [GhostsNext]_ghostsVars
      => TimesDiffer'
  BY TimesStep
<1>3. GhostsSpec => []StoreProofs!IInv /\ []CallsInv
  BY GhostsUseDirector, StoreInvariantHolds, CallsHold, PTL
<1>4. QED
  BY <1>1, <1>2, <1>3, TimedHolds, RecordedHolds, UnreleasedHolds, PairedHolds, PTL
     DEF GhostsSpec

(* The entries of the loops are frames of different times.                     *)
Entries(l) == 1 .. loop[l].frame_count

LEMMA EntriesDiffer ==
    ASSUME StoreProofs!IInv, DInv, Accounts, open, TimesDiffer,
           NEW k \in alive, NEW l \in alive, NEW m \in Entries(k), NEW n \in Entries(l),
           loop[k].cutoffs[m] = loop[l].cutoffs[n]
    PROVE  k = l /\ m = n
<1>1. FiledLoop(k) /\ FiledLoop(l)
  BY DEF Accounts
<1>2. PICK i : i = loop[k].frame_ids[m]
  OBVIOUS
<1>3. PICK j : j = loop[l].frame_ids[n]
  OBVIOUS
<1>4. /\ i \in handed /\ loop[k].cutoffs[m] = TimeOf(i)
      /\ j \in handed /\ loop[l].cutoffs[n] = TimeOf(j)
  BY <1>1, <1>2, <1>3 DEF FiledLoop, Filed, Entries, Stored, TimeOf
<1>5. i = j
  BY <1>4 DEF TimesDiffer
<1>6. i \in IdsOf(k) /\ j \in IdsOf(l)
  BY <1>1, <1>2, <1>3 DEF FiledLoop, Filed, Entries, IdsOf
<1>7. k = l
  BY <1>5, <1>6 DEF Accounts
<1>8. QED
  BY <1>1, <1>2, <1>3, <1>5, <1>7 DEF FiledLoop, Filed, Entries

(* The set of a loop's times, with the loop's length.                          *)
LEMMA EntryTimes ==
    ASSUME DInv, Accounts, open, NEW l \in alive
    PROVE  /\ Len(loop[l].cutoffs) = loop[l].frame_count
           /\ loop[l].frame_count \in Nat
           /\ \A t : t \in ToSet(loop[l].cutoffs)
                        <=> \E n \in Entries(l) : t = loop[l].cutoffs[n]
<1>1. FiledLoop(l) /\ l \in Loops
  BY DEF Accounts, DInv, TypeOK
<1>2. Len(loop[l].cutoffs) = loop[l].frame_count /\ loop[l].frame_count \in Nat
  BY <1>1, LoopTypes DEF FiledLoop, Filed, DInv
<1>3. loop[l].cutoffs \in Seq(Timestamps)
  BY <1>1, LoopTypes DEF DInv
<1>4. PICK times : times = loop[l].cutoffs
  OBVIOUS
<1>5. \A t : t \in ToSet(times) <=> \E n \in 1 .. Len(times) : t = times[n]
  BY <1>3, <1>4 DEF ToSet
<1>6. QED
  BY <1>2, <1>4, <1>5 DEF Entries

-----------------------------------------------------------------------------
(* Counting layers, and positions modulo a loop's length. *)

LEMMA GreatestOf ==
    ASSUME NEW N \in Nat, NEW S \in SUBSET (1 .. N), S # {}
    PROVE  \E m \in S : \A k \in S : k <= m
<1> DEFINE T == {N - k : k \in S}
<1>1. T \in SUBSET Nat /\ T # {}
  <2>1. ASSUME NEW k \in S PROVE N - k \in Nat
    <3>1. k \in 1 .. N
      OBVIOUS
    <3>2. QED
      BY <3>1
  <2>2. QED
    BY <2>1
<1>2. PICK d \in T : \A e \in T : d <= e
  <2> HIDE DEF T
  <2>1. QED
    BY <1>1, LeastOf
<1>3. PICK m \in S : d = N - m
  OBVIOUS
<1>4. ASSUME NEW k \in S PROVE k <= m
  <2>1. N - k \in T
    OBVIOUS
  <2>2. d <= N - k
    BY <1>2, <2>1
  <2>3. m \in 1 .. N /\ k \in 1 .. N
    OBVIOUS
  <2>4. QED
    BY <1>3, <2>2, <2>3
<1>5. QED
  BY <1>4

LEMMA LayersBefore ==
    ASSUME NEW playing, NEW i \in 1 .. MaxLayers, NEW S,
           S = {j \in LayersOf(playing, playing[i]) : j < i}
    PROVE  /\ S \in SUBSET (1 .. MaxLayers)
           /\ IsFiniteSet(S)
           /\ Before(playing, i) = Cardinality(S)
<1>1. IsFiniteSet(1 .. MaxLayers)
  BY Constants, FS_Interval
<1>2. S \in SUBSET (1 .. MaxLayers)
  BY DEF LayersOf
<1>3. QED
  BY <1>1, <1>2, FS_Subset DEF Before

LEMMA FirstLayer ==
    ASSUME NEW playing, NEW i \in 1 .. MaxLayers,
           \A j \in LayersOf(playing, playing[i]) : ~(j < i)
    PROVE  Before(playing, i) = 0
<1>1. {j \in LayersOf(playing, playing[i]) : j < i} = {}
  OBVIOUS
<1>2. QED
  BY <1>1, FS_EmptySet DEF Before

LEMMA OneMore ==
    ASSUME NEW S, IsFiniteSet(S), NEW x, x \notin S
    PROVE  Cardinality(S \cup {x}) = Cardinality(S) + 1
BY FS_AddElement

LEMMA NextLayer ==
    ASSUME NEW playing, NEW i \in 1 .. MaxLayers,
           NEW j \in LayersOf(playing, playing[i]), j < i,
           \A k \in LayersOf(playing, playing[i]) : k < i => k <= j
    PROVE  Before(playing, i) = Before(playing, j) + 1
<1>1. MaxLayers \in Nat /\ j \in 1 .. MaxLayers /\ playing[j] = playing[i]
  BY Constants DEF LayersOf
<1>2. PICK S : S = {k \in LayersOf(playing, playing[j]) : k < j}
  OBVIOUS
<1>3. IsFiniteSet(S) /\ Before(playing, j) = Cardinality(S) /\ j \notin S
  BY <1>1, <1>2, LayersBefore
<1>4. {k \in LayersOf(playing, playing[i]) : k < i} = S \cup {j}
  BY <1>1, <1>2 DEF LayersOf
<1>5. Cardinality(S \cup {j}) = Cardinality(S) + 1
  BY <1>3, OneMore
<1>6. QED
  BY <1>3, <1>4, <1>5 DEF Before

LEMMA LastLayer ==
    ASSUME NEW playing, NEW l, NEW m \in LayersOf(playing, l),
           \A k \in LayersOf(playing, l) : k <= m
    PROVE  Cardinality(LayersOf(playing, l)) = Before(playing, m) + 1
<1>1. MaxLayers \in Nat /\ m \in 1 .. MaxLayers /\ playing[m] = l
  BY Constants DEF LayersOf
<1>2. PICK S : S = {k \in LayersOf(playing, playing[m]) : k < m}
  OBVIOUS
<1>3. IsFiniteSet(S) /\ Before(playing, m) = Cardinality(S) /\ m \notin S
  BY <1>1, <1>2, LayersBefore
<1>4. LayersOf(playing, l) = S \cup {m}
  BY <1>1, <1>2 DEF LayersOf
<1>5. Cardinality(S \cup {m}) = Cardinality(S) + 1
  BY <1>3, OneMore
<1>6. QED
  BY <1>3, <1>4, <1>5

LEMMA ModuloNext ==
    ASSUME NEW x \in Nat, NEW c \in Nat \ {0}
    PROVE  /\ (x + 1) % c = ((x % c) + 1) % c
           /\ (x % c) % c = x % c
           /\ x % c \in 0 .. c - 1
           /\ 0 % c = 0
<1>1. PICK q \in Nat : q = x \div c
  <2>1. x \div c \in Nat
    OBVIOUS
  <2>2. QED
    BY <2>1
<1>2. PICK r \in 0 .. c - 1 : r = x % c
  <2>1. x % c \in 0 .. c - 1
    BY Modulo
  <2>2. QED
    BY <2>1
<1>3. x = q * c + r
  BY <1>1, <1>2
<1>4. ASSUME NEW a \in Nat, NEW b \in 0 .. c - 1
      PROVE  (a * c + b) % c = b
  OBVIOUS
<1>5. r % c = r /\ 0 % c = 0
  OBVIOUS
<1>6. (x + 1) % c = (r + 1) % c
  <2>1. CASE r + 1 < c
    <3>1. x + 1 = q * c + (r + 1) /\ r + 1 \in 0 .. c - 1
      BY <1>3, <2>1
    <3>2. (q * c + (r + 1)) % c = r + 1
      BY <1>4, <3>1
    <3>3. (r + 1) % c = r + 1
      BY <2>1
    <3>4. QED
      BY <3>1, <3>2, <3>3
  <2>2. CASE r + 1 = c
    <3>1. x + 1 = (q + 1) * c + 0 /\ q + 1 \in Nat /\ 0 \in 0 .. c - 1
      BY <1>3, <2>2
    <3>2. ((q + 1) * c + 0) % c = 0
      BY <1>4, <3>1, Zenon
    <3>3. (r + 1) % c = 0
      BY <2>2
    <3>4. QED
      BY <3>1, <3>2, <3>3
  <2>3. QED
    BY <2>1, <2>2
<1>7. QED
  BY <1>2, <1>5, <1>6

-----------------------------------------------------------------------------
(* What has been seen of each loop.  `seen' is the times of the ghosts in the   *)
(* last picture, as GhostsOf gives them.                                     *)

\* The ghosts that are a loop's.
Mine(seen, l) ==
    {i \in DOMAIN seen : \E n \in Entries(l) : seen[i] = loop[l].cutoffs[n]}

\* A loop stands where it began, and no ghost is its, or after the frame of the
\* last ghost that is.
Follows(seen, l) ==
    \/ loop[l].next_frame = 0 /\ Mine(seen, l) = {}
    \/ \E m \in Mine(seen, l), n \in Entries(l) :
          /\ \A k \in Mine(seen, l) : k <= m
          /\ seen[m] = loop[l].cutoffs[n]
          /\ loop[l].next_frame = n % loop[l].frame_count

FollowingBy(seen) ==
    /\ \A i \in DOMAIN seen : \E l \in ToSet(loops) : i \in Mine(seen, l)
    /\ \A l \in ToSet(loops) : Follows(seen, l)
    /\ \A l \in Loops \ ToSet(loops) : loop[l].next_frame = 0
    /\ \A l \in Loops : loop[l].next_frame # 0 => l \in ToSet(playing_loops)

Following == FollowingBy(GhostsOf(display_manager.shown))

(* A step that neither shows anything nor publishes a loop.                    *)
LEMMA FollowingStays ==
    ASSUME NEW seen, FollowingBy(seen), ToSet(loops) \subseteq Loops,
           loops' = loops, playing_loops' = playing_loops,
           \A l \in ToSet(loops) : loop'[l] = loop[l],
           \A l \in Loops : loop'[l].next_frame \in {loop[l].next_frame, 0}
    PROVE  FollowingBy(seen)'
<1>1. PICK new : new = loop'
  OBVIOUS
<1>2. \A l \in ToSet(loops) : new[l] = loop[l]
  BY <1>1
<1>3. ASSUME NEW l \in ToSet(loops)
      PROVE  Mine(seen, l)' = Mine(seen, l) /\ Follows(seen, l)' = Follows(seen, l)
  <2>1. Entries(l)' = Entries(l) /\ loop'[l] = loop[l]
    BY <1>3 DEF Entries
  <2>2. Mine(seen, l)' = Mine(seen, l)
    BY <2>1 DEF Mine
  <2>3. QED
    BY <2>1, <2>2, Zenon DEF Follows
<1>4. \A i \in DOMAIN seen : \E l \in ToSet(loops) : i \in Mine(seen, l)'
  BY <1>3, Zenon DEF FollowingBy
<1>5. \A l \in ToSet(loops) : Follows(seen, l)'
  BY <1>3, Zenon DEF FollowingBy
<1>6. \A l \in Loops \ ToSet(loops) : loop'[l].next_frame = 0
  BY DEF FollowingBy
<1>7. \A l \in Loops : loop'[l].next_frame # 0 => l \in ToSet(playing_loops)
  BY DEF FollowingBy
<1>8. QED
  BY <1>4, <1>5, <1>6, <1>7, Zenon DEF FollowingBy

(* A loop that is published has not been seen: no other loop has its times.    *)
LEMMA FollowingPublished ==
    ASSUME NEW seen, FollowingBy(seen), StoreProofs!IInv, DInv, Accounts, open,
           TimesDiffer, ToSet(loops) \subseteq alive,
           NEW p \in alive, p \notin ToSet(loops),
           loops' = Append(loops, p), loop' = loop, playing_loops' = playing_loops
    PROVE  FollowingBy(seen)'
<1>1. p \in Loops /\ loops \in Seq(Loops)
  BY DEF DInv, TypeOK
<1>2. ToSet(loops') = ToSet(loops) \cup {p}
  BY <1>1 DEF ToSet
<1>3. Mine(seen, p) = {}
  <2> SUFFICES ASSUME NEW i \in Mine(seen, p) PROVE FALSE
    OBVIOUS
  <2>1. PICK n \in Entries(p) : seen[i] = loop[p].cutoffs[n]
    BY DEF Mine
  <2>2. i \in DOMAIN seen
    BY DEF Mine
  <2>3. PICK l \in ToSet(loops) : i \in Mine(seen, l)
    BY <2>2 DEF FollowingBy
  <2>4. PICK m \in Entries(l) : seen[i] = loop[l].cutoffs[m]
    BY <2>3 DEF Mine
  <2>5. l = p
    BY <2>1, <2>3, <2>4, EntriesDiffer
  <2>6. QED
    BY <2>3, <2>5
<1>4. loop[p].next_frame = 0
  BY <1>1 DEF FollowingBy
<1>5. \A l : Mine(seen, l)' = Mine(seen, l)
  BY DEF Mine, Entries
<1>6. ASSUME NEW l PROVE Follows(seen, l)' = Follows(seen, l)
  <2>1. Entries(l)' = Entries(l) /\ loop'[l] = loop[l]
    BY DEF Entries
  <2>2. Mine(seen, l)' = Mine(seen, l)
    BY <1>5
  <2>3. QED
    BY <2>1, <2>2, Zenon DEF Follows
<1>7. \A i \in DOMAIN seen : \E l \in ToSet(loops') : i \in Mine(seen, l)'
  BY <1>2, <1>5, Zenon DEF FollowingBy
<1>8. \A l \in ToSet(loops') : Follows(seen, l)'
  <2>1. Follows(seen, p)
    BY <1>3, <1>4 DEF Follows
  <2>2. QED
    BY <1>2, <1>6, <2>1, Zenon DEF FollowingBy
<1>9. \A l \in Loops \ ToSet(loops') : loop'[l].next_frame = 0
  BY <1>2 DEF FollowingBy
<1>10. \A l \in Loops : loop'[l].next_frame # 0 => l \in ToSet(playing_loops')
  BY DEF FollowingBy
<1>11. QED
  BY <1>7, <1>8, <1>9, <1>10, Zenon DEF FollowingBy

-----------------------------------------------------------------------------
(* What playback shows.  Index is the entry that layer i shows of its loop.     *)
Index(playing, i) == Advanced(playing[i], Before(playing, i)) + 1

PlayContext ==
    /\ DirectorHolds /\ LoopsWhole /\ Accounts /\ TimesDiffer
    /\ Recorded /\ Timed /\ open /\ pc = "idle"

LEMMA LoopLength ==
    ASSUME PlayContext, NEW l \in ToSet(loops)
    PROVE  /\ l \in alive /\ l \in Loops
           /\ loop[l].frame_count \in Nat \ {0} /\ loop[l].next_frame \in Nat
           /\ loop[l].next_frame < loop[l].frame_count
<1>1. l \in alive /\ l \in Loops
  BY DEF PlayContext, DirectorHolds, Playable, DInv, TypeOK
<1>2. loop[l].frame_count \in Nat /\ loop[l].next_frame \in Nat
  BY <1>1 DEF PlayContext, DirectorHolds, DInv, TypeOK, LoopType
<1>3. loop[l].next_frame < loop[l].frame_count
  BY DEF PlayContext, DirectorHolds, Playable
<1>4. QED
  BY <1>1, <1>2, <1>3

LEMMA ShownTimes ==
    ASSUME PlayContext, NEW playing \in Filled, NEW i \in 1 .. MaxLayers,
           NEW texel, texel = Texels(Shown(playing)[i])
    PROVE  /\ playing[i] \in ToSet(loops)
           /\ Index(playing, i) \in Entries(playing[i])
           /\ texel.video = loop[playing[i]].cutoffs[Index(playing, i)]
<1>1. DInv /\ StoreProofs!IInv /\ Playable
  BY DEF PlayContext, DirectorHolds
<1>2. LoopsWhole /\ Recorded /\ Timed /\ open /\ pc = "idle"
  BY DEF PlayContext
<1>3. texel.cutoff = texel.video
  BY <1>1, <1>2, TexelsWhole
<1>4. PICK n : /\ playing[i] \in ToSet(loops)
               /\ n = Index(playing, i)
               /\ n \in 1 .. loop[playing[i]].frame_count
               /\ Shown(playing)[i] = [video |-> loop[playing[i]].video_addresses[n],
                                       depth |-> loop[playing[i]].depth_addresses[n],
                                       cutoff |-> loop[playing[i]].cutoffs[n]]
  BY <1>1, <1>2, ShownOfLoop, Zenon DEF Index
<1>5. PICK time : time = loop[playing[i]].cutoffs[n]
  OBVIOUS
<1>6. Shown(playing)[i].cutoff = time
  BY <1>4, <1>5
<1>7. texel.cutoff = time
  BY <1>6 DEF Texels
<1>8. QED
  BY <1>3, <1>4, <1>5, <1>7 DEF Entries

(* The times a picture shows, and whose they are.                             *)
ShowsTimes(playing, seen) ==
    /\ DOMAIN seen = 1 .. MaxLayers
    /\ \A i \in 1 .. MaxLayers :
          /\ playing[i] \in ToSet(loops)
          /\ Index(playing, i) \in Entries(playing[i])
          /\ seen[i] = loop[playing[i]].cutoffs[Index(playing, i)]

LEMMA MineShown ==
    ASSUME PlayContext, NEW playing, NEW seen, ShowsTimes(playing, seen),
           NEW l \in ToSet(loops)
    PROVE  Mine(seen, l) = LayersOf(playing, l)
<1>1. l \in alive
  BY LoopLength
<1>2. ASSUME NEW i \in Mine(seen, l) PROVE i \in LayersOf(playing, l)
  <2>1. i \in 1 .. MaxLayers /\ \E n \in Entries(l) : seen[i] = loop[l].cutoffs[n]
    BY DEF Mine, ShowsTimes
  <2>2. PICK n \in Entries(l) : seen[i] = loop[l].cutoffs[n]
    BY <2>1
  <2>3. playing[i] \in alive
    BY <2>1, LoopLength DEF ShowsTimes
  <2>4. /\ Index(playing, i) \in Entries(playing[i])
        /\ loop[playing[i]].cutoffs[Index(playing, i)] = loop[l].cutoffs[n]
    BY <2>1, <2>2 DEF ShowsTimes
  <2>5. StoreProofs!IInv /\ DInv /\ Accounts /\ open /\ TimesDiffer
    BY DEF PlayContext, DirectorHolds
  <2>6. playing[i] = l
    BY <1>1, <2>3, <2>4, <2>5, EntriesDiffer
  <2>7. QED
    BY <2>1, <2>6 DEF LayersOf
<1>3. ASSUME NEW i \in LayersOf(playing, l) PROVE i \in Mine(seen, l)
  BY DEF LayersOf, Mine, ShowsTimes
<1>4. QED
  BY <1>2, <1>3

(* From layer to layer of one loop, and on to the loop's new position.         *)
LEMMA IndexFollows ==
    ASSUME PlayContext, NEW playing, NEW i \in 1 .. MaxLayers, playing[i] \in ToSet(loops),
           NEW j \in LayersOf(playing, playing[i]), j < i,
           \A k \in LayersOf(playing, playing[i]) : k < i => k <= j
    PROVE  Index(playing, i) = (Index(playing, j) % loop[playing[i]].frame_count) + 1
<1>1. PICK c : c = loop[playing[i]].frame_count
  OBVIOUS
<1>2. PICK x : x = loop[playing[i]].next_frame + Before(playing, j)
  OBVIOUS
<1>3. c \in Nat \ {0} /\ x \in Nat
  BY <1>1, <1>2, LoopLength, BeforeCounted
<1>4. playing[j] = playing[i] /\ j \in 1 .. MaxLayers
  BY DEF LayersOf
<1>5. Before(playing, i) = Before(playing, j) + 1
  BY NextLayer
<1>6. loop[playing[i]].next_frame + Before(playing, i) = x + 1
  BY <1>2, <1>5, LoopLength, BeforeCounted
<1>7. Index(playing, i) = ((x + 1) % c) + 1
  BY <1>1, <1>6 DEF Index, Advanced
<1>8. Index(playing, j) = (x % c) + 1
  BY <1>1, <1>2, <1>4 DEF Index, Advanced
<1>9. (x + 1) % c = ((x % c) + 1) % c
  BY <1>3, ModuloNext
<1>10. QED
  BY <1>1, <1>7, <1>8, <1>9, Zenon

LEMMA LastFollows ==
    ASSUME PlayContext, NEW playing, NEW l \in ToSet(loops),
           NEW m \in LayersOf(playing, l), \A k \in LayersOf(playing, l) : k <= m
    PROVE  /\ Advanced(l, Cardinality(LayersOf(playing, l)))
                 = Index(playing, m) % loop[l].frame_count
           /\ Advanced(l, Cardinality(LayersOf(playing, l)))
                 = Advanced(l, Before(playing, m) + 1)
<1>1. PICK c : c = loop[l].frame_count
  OBVIOUS
<1>2. PICK x : x = loop[l].next_frame + Before(playing, m)
  OBVIOUS
<1>3. c \in Nat \ {0} /\ x \in Nat
  BY <1>1, <1>2, LoopLength, BeforeCounted
<1>4. playing[m] = l
  BY DEF LayersOf
<1>5. Cardinality(LayersOf(playing, l)) = Before(playing, m) + 1
  BY LastLayer
<1>6. loop[l].next_frame + (Before(playing, m) + 1) = x + 1
  BY <1>2, LoopLength, BeforeCounted
<1>7. Advanced(l, Before(playing, m) + 1) = (x + 1) % c
  BY <1>1, <1>6 DEF Advanced
<1>8. Index(playing, m) = (x % c) + 1
  BY <1>1, <1>2, <1>4 DEF Index, Advanced
<1>9. (x + 1) % c = ((x % c) + 1) % c
  BY <1>3, ModuloNext
<1>10. QED
  BY <1>1, <1>5, <1>7, <1>8, <1>9, Zenon

(* The first layer of a loop goes on from the loop's position.                *)
LEMMA FirstFollows ==
    ASSUME PlayContext, NEW playing, NEW i \in 1 .. MaxLayers, playing[i] \in ToSet(loops),
           \A j \in LayersOf(playing, playing[i]) : ~(j < i)
    PROVE  Index(playing, i) = loop[playing[i]].next_frame + 1
<1>1. PICK c : c = loop[playing[i]].frame_count
  OBVIOUS
<1>2. PICK x : x = loop[playing[i]].next_frame
  OBVIOUS
<1>3. c \in Nat \ {0} /\ x \in 0 .. c - 1
  BY <1>1, <1>2, LoopLength
<1>4. Before(playing, i) = 0
  BY FirstLayer
<1>5. x + 0 = x /\ x % c = x
  BY <1>3
<1>6. QED
  BY <1>1, <1>2, <1>4, <1>5 DEF Index, Advanced

(* Playback: the loops that are shown stand after what was shown of them last, *)
(* and the others had not begun.                                             *)
LEMMA FollowingPlays ==
    ASSUME PlayContext, NEW old, FollowingBy(old), NEW playing \in Filled, Play(playing),
           NEW seen, ShowsTimes(playing, seen)
    PROVE  FollowingBy(seen)'
<1>1. MaxLayers \in Nat /\ Null \notin Loops /\ ToSet(loops) \subseteq Loops
      /\ playing \in [1 .. MaxLayers -> ToSet(loops)]
  BY Constants, LoopLength DEF Filled
<1>2. /\ loops' = loops
      /\ playing_loops' = [i \in 1 .. MaxLayers |->
            IF Advanced(playing[i], Before(playing, i) + 1) = 0
            THEN Null ELSE playing[i]]
      /\ \A l \in Loops :
            loop'[l] = IF LayersOf(playing, l) = {} THEN loop[l]
                       ELSE [loop[l] EXCEPT !.next_frame =
                                Advanced(l, Cardinality(LayersOf(playing, l)))]
  BY DEF Play
<1>3. ASSUME NEW l \in ToSet(loops)
      PROVE  /\ Entries(l)' = Entries(l)
             /\ loop'[l].frame_count = loop[l].frame_count
             /\ loop'[l].cutoffs = loop[l].cutoffs
  <2>1. loop'[l] = [loop[l] EXCEPT !.next_frame = loop'[l].next_frame]
        /\ loop[l] \in LoopType /\ loop'[l] \in LoopType
    BY <1>1, PlayMoves DEF PlayContext, DirectorHolds, DInv, TypeOK
  <2>2. PICK next : next = loop'[l].next_frame
    OBVIOUS
  <2>3. loop'[l] = [loop[l] EXCEPT !.next_frame = next]
    BY <2>1, <2>2, Zenon
  <2>4. /\ loop'[l].frame_count = loop[l].frame_count
        /\ loop'[l].cutoffs = loop[l].cutoffs
    BY <2>1, <2>3 DEF LoopType
  <2>5. QED
    BY <2>4 DEF Entries
<1>4. ASSUME NEW l \in ToSet(loops) PROVE Mine(seen, l)' = LayersOf(playing, l)
  <2>1. Mine(seen, l)' = Mine(seen, l)
    BY <1>3 DEF Mine
  <2>2. QED
    BY <2>1, MineShown
\* A loop that is not shown has not begun.
<1>5. ASSUME NEW l \in Loops, LayersOf(playing, l) = {}
      PROVE  loop[l].next_frame = 0 /\ loop'[l] = loop[l]
  <2>1. ASSUME l \in ToSet(playing_loops) PROVE FALSE
    <3>1. playing_loops \in [1 .. MaxLayers -> Loops \cup {Null}]
      BY DEF PlayContext, DirectorHolds, DInv, TypeOK
    <3>2. PICK i \in 1 .. MaxLayers : playing_loops[i] = l
      BY <2>1, <3>1 DEF ToSet
    <3>3. playing[i] = l
      BY <1>1, <1>5, <3>2 DEF Filled
    <3>4. QED
      BY <1>5, <3>3 DEF LayersOf
  <2>2. QED
    BY <1>2, <1>5, <2>1 DEF FollowingBy
\* A loop that is shown goes on from its last layer.
<1>6. ASSUME NEW l \in ToSet(loops), LayersOf(playing, l) # {}
      PROVE  \E m \in LayersOf(playing, l) :
                /\ \A k \in LayersOf(playing, l) : k <= m
                /\ playing[m] = l
                /\ loop'[l].next_frame = Index(playing, m) % loop[l].frame_count
                /\ loop'[l].next_frame = Advanced(l, Before(playing, m) + 1)
  <2>1. PICK m \in LayersOf(playing, l) : \A k \in LayersOf(playing, l) : k <= m
    <3>1. LayersOf(playing, l) \in SUBSET (1 .. MaxLayers)
      BY DEF LayersOf
    <3>2. QED
      BY <1>1, <1>6, <3>1, GreatestOf
  <2>2. PICK next : next = Advanced(l, Cardinality(LayersOf(playing, l)))
    OBVIOUS
  <2>3. loop[l] \in LoopType
    BY <1>1 DEF PlayContext, DirectorHolds, DInv, TypeOK
  <2>4. loop'[l] = [loop[l] EXCEPT !.next_frame = next]
    BY <1>1, <1>2, <1>6, <2>2
  <2>5. loop'[l].next_frame = next
    BY <2>3, <2>4 DEF LoopType
  <2>6. playing[m] = l
    BY <2>1 DEF LayersOf
  <2>7. QED
    BY <2>1, <2>2, <2>5, <2>6, LastFollows
<1>7. \A i \in DOMAIN seen : \E l \in ToSet(loops') : i \in Mine(seen, l)'
  <2> SUFFICES ASSUME NEW i \in DOMAIN seen
               PROVE  \E l \in ToSet(loops) : i \in Mine(seen, l)'
    BY <1>2
  <2>1. i \in 1 .. MaxLayers /\ playing[i] \in ToSet(loops)
    BY DEF ShowsTimes
  <2>2. i \in LayersOf(playing, playing[i])
    BY <2>1 DEF LayersOf
  <2>3. QED
    BY <1>4, <2>1, <2>2, Zenon
<1>8. \A l \in ToSet(loops') : Follows(seen, l)'
  <2> SUFFICES ASSUME NEW l \in ToSet(loops) PROVE Follows(seen, l)'
    BY <1>2
  <2>1. CASE LayersOf(playing, l) = {}
    BY <1>1, <1>4, <1>5, <2>1 DEF Follows
  <2>2. CASE LayersOf(playing, l) # {}
    <3>1. PICK m \in LayersOf(playing, l) :
              /\ \A k \in LayersOf(playing, l) : k <= m
              /\ playing[m] = l
              /\ loop'[l].next_frame = Index(playing, m) % loop[l].frame_count
      BY <1>6, <2>2
    <3>2. PICK n : n = Index(playing, m)
      OBVIOUS
    <3>3. n \in Entries(l) /\ seen[m] = loop[l].cutoffs[n]
      BY <3>1, <3>2 DEF ShowsTimes, LayersOf
    <3>4. /\ m \in Mine(seen, l)' /\ n \in Entries(l)'
          /\ \A k \in Mine(seen, l)' : k <= m
          /\ seen[m] = loop'[l].cutoffs[n]
          /\ loop'[l].next_frame = n % loop'[l].frame_count
      BY <1>3, <1>4, <3>1, <3>2, <3>3
    <3>5. QED
      BY <3>4, Zenon DEF Follows
  <2>3. QED
    BY <2>1, <2>2
<1>9. \A l \in Loops \ ToSet(loops') : loop'[l].next_frame = 0
  <2> SUFFICES ASSUME NEW l \in Loops, l \notin ToSet(loops)
               PROVE  loop'[l].next_frame = 0
    BY <1>2
  <2>1. LayersOf(playing, l) = {}
    BY <1>1 DEF LayersOf
  <2>2. QED
    BY <1>5, <2>1
<1>10. \A l \in Loops : loop'[l].next_frame # 0 => l \in ToSet(playing_loops')
  <2> SUFFICES ASSUME NEW l \in Loops, loop'[l].next_frame # 0
               PROVE  l \in ToSet(playing_loops')
    OBVIOUS
  <2>1. LayersOf(playing, l) # {}
    BY <1>5
  <2>2. l \in ToSet(loops)
    BY <1>1, <2>1 DEF LayersOf
  <2>3. PICK m \in LayersOf(playing, l) :
            playing[m] = l /\ loop'[l].next_frame = Advanced(l, Before(playing, m) + 1)
    BY <1>6, <2>1, <2>2
  <2>4. m \in 1 .. MaxLayers
    BY DEF LayersOf
  <2>5. playing_loops'[m] = l
    BY <1>2, <2>3, <2>4
  <2>6. DOMAIN playing_loops' = 1 .. MaxLayers /\ Len(playing_loops') = MaxLayers
    BY <1>1, <1>2
  <2>7. QED
    BY <2>4, <2>5, <2>6 DEF ToSet
<1>11. QED
  BY <1>7, <1>8, <1>9, <1>10, Zenon DEF FollowingBy

LEMMA GhostsOfLayers ==
    ASSUME NEW layers, NEW S, layers \in Seq(S), Len(layers) = MaxLayers,
           NEW shown, shown = Append(layers, Live)
    PROVE  /\ GhostsOf(shown) = [i \in 1 .. MaxLayers |-> layers[i].video]
           /\ DOMAIN GhostsOf(shown) = 1 .. MaxLayers
<1>1. Len(shown) - 1 = MaxLayers /\ \A i \in 1 .. MaxLayers : shown[i] = layers[i]
  BY Constants
<1>2. QED
  BY <1>1 DEF GhostsOf

(* The picture that playback makes shows the times of ShowsTimes.              *)
LEMMA PlayShowsTimes ==
    ASSUME PlayContext, NEW playing \in Filled, NEW shown,
           shown = Append([i \in 1 .. MaxLayers |-> Texels(Shown(playing)[i])], Live)
    PROVE  ShowsTimes(playing, GhostsOf(shown))
<1>1. PICK layers : layers = [i \in 1 .. MaxLayers |-> Texels(Shown(playing)[i])]
  OBVIOUS
<1>2. PICK S : layers \in Seq(S) /\ Len(layers) = MaxLayers
  <2>1. layers \in Seq({layers[i] : i \in 1 .. MaxLayers}) /\ Len(layers) = MaxLayers
    BY <1>1, Constants
  <2>2. QED
    BY <2>1
<1>3. /\ GhostsOf(shown) = [i \in 1 .. MaxLayers |-> layers[i].video]
      /\ DOMAIN GhostsOf(shown) = 1 .. MaxLayers
  <2>1. shown = Append(layers, Live)
    BY <1>1, Zenon
  <2>2. QED
    BY <1>2, <2>1, GhostsOfLayers, Zenon
<1>4. ASSUME NEW i \in 1 .. MaxLayers
      PROVE  /\ playing[i] \in ToSet(loops)
             /\ Index(playing, i) \in Entries(playing[i])
             /\ GhostsOf(shown)[i] = loop[playing[i]].cutoffs[Index(playing, i)]
  <2>1. layers[i] = Texels(Shown(playing)[i]) /\ GhostsOf(shown)[i] = layers[i].video
    BY <1>1, <1>3
  <2>2. QED
    BY <2>1, ShownTimes
<1>5. QED
  BY <1>3, <1>4 DEF ShowsTimes

LEMMA HandleFollows ==
    ASSUME DirectorHolds, NEW seen, FollowingBy(seen), Handle
    PROVE  FollowingBy(seen)'
<1>1. PICK valid \in BOOLEAN : HandleFrame(valid)
  BY DEF Handle
<1>2. /\ pc = "frame" /\ frame_id \in handed
      /\ DInv /\ TypeOK /\ Owned /\ StoreProofs!IInv
  BY <1>1 DEF HandleFrame, DirectorHolds, CallsInv, DInv
<1>3. ToSet(loops) \subseteq Loops
  BY <1>2 DEF Owned, TypeOK
<1>4. loops' = loops /\ playing_loops' = playing_loops
  BY <1>1 DEF HandleFrame, RecordFrame, DropFrame, EndLoop, loopVars
<1>5. CASE RecordFrame(valid)
  <2>1. /\ \A k \in Loops \ {p_current_loop} : loop'[k] = loop[k]
        /\ \A k \in Loops : loop'[k].next_frame = loop[k].next_frame
    BY <1>2, <1>5, RecordOne
  <2>2. p_current_loop \notin ToSet(loops)
    BY <1>2 DEF Owned
  <2>3. \A l \in ToSet(loops) : loop'[l] = loop[l]
    BY <1>3, <2>1, <2>2
  <2>4. QED
    BY <1>3, <1>4, <2>1, <2>3, FollowingStays
<1>6. CASE DropFrame(valid)
  <2>1. loop' = loop
    BY <1>6 DEF DropFrame, loopVars
  <2>2. QED
    BY <1>3, <1>4, <2>1, FollowingStays
<1>7. CASE EndLoop(valid)
  <2>1. EndedLoops
    BY <1>2, <1>7, EndEnds DEF Ended
  <2>2. EmptyLoop.next_frame = 0
    BY DEF EmptyLoop
  <2>3. \A k \in Loops : loop'[k].next_frame \in {loop[k].next_frame, 0}
    BY <2>1, <2>2 DEF EndedLoops
  <2>4. \A l \in ToSet(loops) : loop'[l] = loop[l]
    BY <2>1 DEF EndedLoops
  <2>5. QED
    BY <1>3, <1>4, <2>3, <2>4, FollowingStays
<1>8. QED
  BY <1>1, <1>5, <1>6, <1>7 DEF HandleFrame

LEMMA FollowingStep ==
    ASSUME NoFaults, DirectorHolds, LoopsWhole, Accounts, TimesDiffer, Recorded, Timed,
           Unreleased, ManagerShape(display_manager), Following, [GhostsNext]_ghostsVars
    PROVE  Following'
<1>1. PICK seen : seen = GhostsOf(display_manager.shown)
  OBVIOUS
<1>2. FollowingBy(seen)
  BY <1>1 DEF Following
<1>3. DInv /\ Owned /\ TypeOK /\ ToSet(loops) \subseteq Loops /\ ToSet(loops) \subseteq alive
  BY DEF DirectorHolds, DInv, Unreleased, Owned, TypeOK
<1>4. ASSUME UNCHANGED display_manager, FollowingBy(seen)' PROVE Following'
  BY <1>1, <1>4, Zenon DEF Following
<1>5. ASSUME UNCHANGED <<loop, loops, playing_loops>> PROVE FollowingBy(seen)'
  BY <1>2, <1>3, <1>5, FollowingStays
<1>6. ASSUME UNCHANGED directorVars PROVE FollowingBy(seen)'
  BY <1>5, <1>6 DEF directorVars, vars, loopVars
<1>7. CASE Idle \/ Cleanup \/ UNCHANGED ghostsVars
  BY <1>4, <1>6, <1>7 DEF Idle, Cleanup, ghostsVars
<1>8. ASSUME NEW captured \in BOOLEAN, IdleEnds(captured) PROVE Following'
  BY <1>4, <1>6, <1>8 DEF IdleEnds
<1>9. CASE Video
  BY <1>4, <1>5, <1>9 DEF Video, CaptureVideo, loopVars
<1>10. CASE Depth
  BY <1>4, <1>5, <1>10 DEF Depth, CaptureDepth, loopVars
<1>11. CASE Proceed
  <2>1. CASE CaptureMeta
    BY <1>4, <1>5, <1>11, <2>1 DEF Proceed, CaptureMeta, loopVars
  <2>2. CASE Handle
    BY <1>2, <1>4, <1>11, <2>2, HandleFollows DEF Proceed
  <2>3. QED
    BY <1>11, <2>1, <2>2 DEF Proceed
<1>12. CASE Others
  <2>1. UNCHANGED display_manager
    BY <1>12 DEF Others
  <2>2. CASE Generator
    BY <1>4, <1>5, <2>1, <2>2 DEF Generator, Supply, loopVars
  <2>3. ASSUME NEW l \in Loops, Publish(l) PROVE FollowingBy(seen)'
    <3>1. l \in alive /\ l \notin ToSet(loops)
      BY <1>3, <2>3 DEF Publish, Owned
    <3>2. loops' = Append(loops, l) /\ loop' = loop /\ playing_loops' = playing_loops
      <4>1. pc # "released"
        BY DEF Unreleased
      <4>2. QED
        BY <2>3, <4>1, NothingFails, Zenon DEF Publish
    <3>3. StoreProofs!IInv /\ open
      BY DEF DirectorHolds, Unreleased
    <3>4. QED
      BY <1>2, <1>3, <3>1, <3>2, <3>3, FollowingPublished
  <2>4. QED
    BY <1>4, <1>12, <2>1, <2>2, <2>3 DEF Others, Handler
<1>13. CASE Display
  <2>1. CASE UNCHANGED directorVars /\ UNCHANGED display_manager
    BY <1>4, <1>6, <2>1
  <2>2. CASE /\ loops = <<>> /\ UNCHANGED directorVars
             /\ display_manager'.shown = <<Live>>
    <3>1. GhostsOf(<<Live>>) = <<>> /\ DOMAIN GhostsOf(<<Live>>) = {}
      BY DEF GhostsOf
    <3>2. ToSet(loops) = {}
      BY <2>2 DEF ToSet
    <3>3. UNCHANGED <<loop, loops, playing_loops>>
      BY <2>2 DEF directorVars, vars, loopVars
    <3>4. FollowingBy(GhostsOf(<<Live>>))'
      BY <1>2, <3>1, <3>2, <3>3 DEF FollowingBy
    <3>5. QED
      BY <2>2, <3>4, Zenon DEF Following
  <2>3. ASSUME pc = "idle", NEW playing \in Filled, Play(playing),
               display_manager'.shown
                  = Append([i \in 1 .. MaxLayers |-> Texels(Shown(playing)[i])], Live)
        PROVE  Following'
    <3>1. PlayContext
      BY <2>3 DEF PlayContext, Unreleased
    <3>2. PICK shown : shown = display_manager'.shown
      OBVIOUS
    <3>3. ShowsTimes(playing, GhostsOf(shown))
      BY <2>3, <3>1, <3>2, PlayShowsTimes
    <3>4. FollowingBy(GhostsOf(shown))'
      BY <1>2, <2>3, <3>1, <3>3, FollowingPlays
    <3>5. QED
      BY <3>2, <3>4, Zenon DEF Following
  <2>4. QED
    BY <1>13, <2>1, <2>2, <2>3, DisplayDraws
<1>14. QED
  BY <1>7, <1>8, <1>9, <1>10, <1>11, <1>12, <1>13 DEF GhostsNext, Stopped

LEMMA FollowingHolds == ASSUME NoFaults PROVE GhostsSpec => []Following
<1>1. GhostsInit => Following
  <2> SUFFICES ASSUME GhostsInit PROVE Following
    OBVIOUS
  <2>1. display_manager.shown = <<>> /\ loops = <<>> /\ loop = [l \in Loops |-> EmptyLoop]
    BY DEF GhostsInit, Init, display_manager_create
  <2>2. GhostsOf(<<>>) = <<>> /\ ToSet(loops) = {}
    BY <2>1 DEF GhostsOf, ToSet
  <2>3. FollowingBy(<<>>)
    BY <2>1, <2>2 DEF FollowingBy, EmptyLoop
  <2>4. QED
    BY <2>1, <2>2, <2>3 DEF Following
<1>2. NoFaults /\ DirectorHolds /\ LoopsWhole /\ Accounts /\ TimesDiffer /\ Recorded
         /\ Timed /\ Unreleased /\ PictureInv /\ Following /\ [GhostsNext]_ghostsVars
      => Following'
  BY FollowingStep DEF PictureInv
<1>3. Spec => []LoopsWhole /\ []Accounts
  BY DirectorLoopsWhole, AccountsInvariant, PTL DEF NoFaults
<1>4. QED
  BY <1>1, <1>2, <1>3, GhostsUseDirector, DirectorHoldsAlways, UnreleasedHolds,
     TimedHolds, RecordedHolds, TimesHold, PictureHolds, PTL DEF GhostsSpec

LEMMA MaxIs ==
    ASSUME NEW S \in SUBSET Int, NEW m \in S, \A k \in S : k <= m
    PROVE  Max(S) = m
<1>1. \A k \in S : m >= k
  OBVIOUS
<1>2. Max(S) \in S /\ \A k \in S : Max(S) >= k
  BY <1>1, Zenon DEF Max
<1>3. PICK x : x = Max(S)
  OBVIOUS
<1>4. x \in S /\ x >= m
  BY <1>2, <1>3
<1>5. x \in Int /\ m \in Int /\ x <= m
  BY <1>4
<1>6. QED
  BY <1>3, <1>4, <1>5

LEMMA FollowerIs ==
    ASSUME NEW times, NEW n \in 1 .. Len(times),
           \A m \in 1 .. Len(times) : times[m] = times[n] => m = n
    PROVE  Follower(times, times[n]) = (n % Len(times)) + 1
<1>1. (CHOOSE m \in 1 .. Len(times) : times[m] = times[n]) = n
  OBVIOUS
<1>2. QED
  BY <1>1, Zenon DEF Follower

\* The ghost at i goes on where the last one of its loop stood.
FollowsFrame(all, i) ==
    \E l \in ToSet(loops) :
        LET times == loop[l].cutoffs
            earlier == {j \in 1 .. i - 1 : all[j] \in ToSet(times)}
        IN  \E n \in 1 .. Len(times) :
               /\ all[i] = times[n]
               /\ IF earlier = {} THEN n = 1
                  ELSE n = Follower(times, all[Max(earlier)])

(* One layer of one picture.                                                  *)
LEMMA LayerFollows ==
    ASSUME PlayContext, NEW S, NEW before \in Seq(S), FollowingBy(before),
           NEW T, NEW after \in Seq(T), NEW playing, ShowsTimes(playing, after),
           Len(after) = MaxLayers, NEW all, all = before \o after,
           NEW i \in Len(before) + 1 .. Len(all)
    PROVE  FollowsFrame(all, i)
<1>1. PICK b : b = Len(before)
  OBVIOUS
<1>2. PICK j : j = i - b
  OBVIOUS
<1>3. /\ b \in Nat /\ MaxLayers \in Nat /\ j \in 1 .. MaxLayers /\ i = b + j
      /\ DOMAIN before = 1 .. b /\ DOMAIN after = 1 .. MaxLayers
      /\ all[i] = after[j]
      /\ \A k \in 1 .. b : all[k] = before[k]
      /\ \A k \in 1 .. MaxLayers : all[b + k] = after[k]
  <2>1. b \in Nat /\ MaxLayers \in Nat
    BY <1>1, Constants
  <2>2. before \in Seq(S \cup T) /\ after \in Seq(S \cup T)
    OBVIOUS
  <2>3. PICK c : c = before \o after
    OBVIOUS
  <2>4. /\ Len(c) = b + MaxLayers
        /\ \A k \in 1 .. b + MaxLayers :
              c[k] = IF k <= b THEN before[k] ELSE after[k - b]
    <3>1. Len(before) + Len(after) = b + MaxLayers
      BY <1>1
    <3>2. QED
      BY <1>1, <2>2, <2>3, <3>1, ConcatProperties, Zenon
  <2>5. all = c
    BY <2>3, Zenon
  <2>6. DOMAIN before = 1 .. b /\ DOMAIN after = 1 .. MaxLayers
    BY <1>1
  <2>7. j \in 1 .. MaxLayers /\ i = b + j
    BY <1>1, <1>2, <2>1, <2>4, <2>5
  <2>8. \A k \in 1 .. b : all[k] = before[k]
    BY <2>1, <2>4, <2>5
  <2>9. \A k \in 1 .. MaxLayers : all[b + k] = after[k]
    BY <2>1, <2>4, <2>5
  <2>10. QED
    BY <2>1, <2>6, <2>7, <2>8, <2>9
<1>4. PICK l : l = playing[j]
  OBVIOUS
<1>5. l \in ToSet(loops) /\ l \in alive
  BY <1>3, <1>4, LoopLength DEF ShowsTimes
<1>6. PICK c : c = loop[l].frame_count
  OBVIOUS
<1>7. PICK times : times = loop[l].cutoffs
  OBVIOUS
<1>8. /\ Len(times) = c /\ c \in Nat
      /\ \A t : t \in ToSet(times) <=> \E n \in 1 .. c : t = times[n]
  BY <1>5, <1>6, <1>7, EntryTimes DEF PlayContext, DirectorHolds, Entries
<1>9. \A m, n \in 1 .. c : times[m] = times[n] => m = n
  BY <1>5, <1>6, <1>7, EntriesDiffer DEF PlayContext, DirectorHolds, Entries
<1>10. PICK n : n = Index(playing, j)
  OBVIOUS
<1>11. n \in 1 .. c /\ all[i] = times[n]
  BY <1>3, <1>4, <1>6, <1>7, <1>10 DEF ShowsTimes, Entries
<1>12. PICK earlier : earlier = {k \in 1 .. i - 1 : all[k] \in ToSet(times)}
  OBVIOUS
<1>13. \A k \in 1 .. b : k \in earlier <=> k \in Mine(before, l)
  <2> SUFFICES ASSUME NEW k \in 1 .. b PROVE k \in earlier <=> k \in Mine(before, l)
    OBVIOUS
  <2>1. k \in 1 .. i - 1 /\ k \in DOMAIN before
    BY <1>3
  <2>2. k \in earlier <=> all[k] \in ToSet(times)
    BY <1>12, <2>1
  <2>3. k \in Mine(before, l) <=> \E m \in 1 .. c : before[k] = times[m]
    BY <1>6, <1>7, <2>1 DEF Mine, Entries
  <2>4. all[k] = before[k]
    BY <1>3
  <2>5. QED
    BY <1>8, <2>2, <2>3, <2>4
<1>14. \A k \in 1 .. j - 1 : b + k \in earlier <=> k \in LayersOf(playing, l)
  <2>1. Mine(after, l) = LayersOf(playing, l)
    BY <1>5, MineShown
  <2>2. \A k \in 1 .. MaxLayers : k \in Mine(after, l) <=> all[b + k] \in ToSet(times)
    BY <1>3, <1>6, <1>7, <1>8 DEF Mine, Entries
  <2>3. \A k \in 1 .. j - 1 : k \in 1 .. MaxLayers /\ b + k \in 1 .. i - 1
    BY <1>3
  <2>4. QED
    BY <1>12, <2>1, <2>2, <2>3
<1>15. /\ earlier \in SUBSET Int
       /\ \A k \in earlier : k \in 1 .. b \/ (k - b \in 1 .. j - 1 /\ k = b + (k - b))
  BY <1>3, <1>12
<1>16. ASSUME NEW m \in earlier, \A k \in earlier : k <= m, NEW q \in 1 .. c,
              all[m] = times[q], n = (q % c) + 1
       PROVE  earlier # {} /\ n = Follower(times, all[Max(earlier)])
  <2>1. Max(earlier) = m
    BY <1>15, <1>16, MaxIs
  <2>2. Follower(times, times[q]) = (q % Len(times)) + 1
    BY <1>8, <1>9, <1>16, FollowerIs
  <2>3. QED
    BY <1>8, <1>16, <2>1, <2>2, Zenon
<1>17. IF earlier = {} THEN n = 1 ELSE n = Follower(times, all[Max(earlier)])
  \* Another layer of this picture showed the loop.
  <2>1. CASE \E k \in LayersOf(playing, l) : k < j
    <3>1. PICK k \in LayersOf(playing, l) :
              k < j /\ \A h \in LayersOf(playing, l) : h < j => h <= k
      <4>1. PICK L : L = {k \in LayersOf(playing, l) : k < j}
        OBVIOUS
      <4>2. L \in SUBSET (1 .. MaxLayers) /\ L # {}
        BY <2>1, <4>1 DEF LayersOf
      <4>3. PICK k \in L : \A h \in L : h <= k
        BY <1>3, <4>2, GreatestOf
      <4>4. QED
        BY <4>1, <4>3
    <3>2. n = (Index(playing, k) % c) + 1
      BY <1>3, <1>4, <1>5, <1>6, <1>10, <3>1, IndexFollows
    <3>3. k \in 1 .. MaxLayers /\ playing[k] = l /\ k \in 1 .. j - 1
      BY <1>3, <3>1 DEF LayersOf
    <3>4. Index(playing, k) \in 1 .. c /\ all[b + k] = times[Index(playing, k)]
      BY <1>3, <1>6, <1>7, <3>3 DEF ShowsTimes, Entries
    <3>5. b + k \in earlier
      BY <1>14, <3>1, <3>3
    <3>6. ASSUME NEW h \in earlier PROVE h <= b + k
      <4>1. CASE h \in 1 .. b
        BY <1>3, <3>3, <4>1
      <4>2. CASE h - b \in 1 .. j - 1 /\ h = b + (h - b)
        <5>1. h - b \in LayersOf(playing, l)
          BY <1>14, <4>2, <3>6
        <5>2. h - b <= k
          BY <1>3, <3>1, <4>2, <5>1
        <5>3. QED
          BY <1>3, <3>3, <4>2, <5>2
      <4>3. QED
        BY <1>15, <4>1, <4>2
    <3>7. QED
      BY <1>16, <3>2, <3>4, <3>5, <3>6
  \* This is the first layer that shows it.
  <2>2. CASE \A k \in LayersOf(playing, l) : ~(k < j)
    <3>1. n = loop[l].next_frame + 1
      BY <1>3, <1>4, <1>5, <1>10, <2>2, FirstFollows
    <3>2. earlier = Mine(before, l)
      <4>1. ASSUME NEW k \in earlier PROVE k \in Mine(before, l)
        <5>1. ~(k - b \in 1 .. j - 1 /\ k = b + (k - b))
          <6> SUFFICES ASSUME k - b \in 1 .. j - 1, k = b + (k - b) PROVE FALSE
            OBVIOUS
          <6>1. k - b \in LayersOf(playing, l)
            BY <1>14, <4>1
          <6>2. QED
            BY <1>3, <2>2, <6>1
        <5>2. QED
          BY <1>13, <1>15, <4>1, <5>1
      <4>2. ASSUME NEW k \in Mine(before, l) PROVE k \in earlier
        BY <1>3, <1>13 DEF Mine
      <4>3. QED
        BY <4>1, <4>2
    <3>3. CASE loop[l].next_frame = 0 /\ Mine(before, l) = {}
      BY <3>1, <3>2, <3>3
    <3>4. CASE \E m \in Mine(before, l), q \in Entries(l) :
                  /\ \A k \in Mine(before, l) : k <= m
                  /\ before[m] = loop[l].cutoffs[q]
                  /\ loop[l].next_frame = q % loop[l].frame_count
      <4>1. PICK m \in Mine(before, l), q \in Entries(l) :
                  /\ \A k \in Mine(before, l) : k <= m
                  /\ before[m] = loop[l].cutoffs[q]
                  /\ loop[l].next_frame = q % loop[l].frame_count
        BY <3>4
      <4>2. m \in 1 .. b /\ all[m] = times[q] /\ q \in 1 .. c /\ n = (q % c) + 1
        BY <1>3, <1>6, <1>7, <3>1, <4>1 DEF Mine, Entries
      <4>3. QED
        BY <1>16, <3>2, <4>1, <4>2
    <3>5. QED
      BY <1>5, <3>3, <3>4 DEF FollowingBy, Follows
  <2>3. QED
    BY <2>1, <2>2
<1>18. QED
  BY <1>5, <1>7, <1>8, <1>11, <1>12, <1>17, Zenon DEF FollowsFrame

(* A picture's ghosts are a sequence, before there is a picture too.            *)
LEMMA GhostsAreSeq ==
    ASSUME PictureInv
    PROVE  \E S : GhostsOf(display_manager.shown) \in Seq(S)
<1>1. PICK shown : shown = display_manager.shown
  OBVIOUS
<1>2. MaxLayers \in Nat /\ TEXTURE_CAPACITY = MaxLayers + 1
  BY Constants, Clock
<1>3. shown = <<>> \/ Len(shown) = 1 \/ Len(shown) = TEXTURE_CAPACITY
  BY <1>1, Zenon DEF PictureInv, PicturesWhole
<1>4. \E n \in Nat : 1 .. Len(shown) - 1 = 1 .. n
  <2>1. CASE shown = <<>>
    <3>1. 1 .. Len(shown) - 1 = 1 .. 0
      BY <2>1
    <3>2. QED
      BY <3>1
  <2>2. CASE Len(shown) = 1
    <3>1. 1 .. Len(shown) - 1 = 1 .. 0
      BY <2>2
    <3>2. QED
      BY <3>1
  <2>3. CASE Len(shown) = TEXTURE_CAPACITY
    <3>1. Len(shown) - 1 = MaxLayers
      BY <1>2, <2>3
    <3>2. QED
      BY <1>2, <3>1
  <2>4. QED
    BY <1>3, <2>1, <2>2, <2>3
<1>5. PICK n \in Nat : 1 .. Len(shown) - 1 = 1 .. n
  BY <1>4
<1>6. PICK ghosts : ghosts = [i \in 1 .. n |-> shown[i].video]
  OBVIOUS
<1>7. GhostsOf(shown) = ghosts
  BY <1>5, <1>6, Zenon DEF GhostsOf
<1>8. ghosts \in Seq({ghosts[i] : i \in 1 .. n})
  BY <1>6
<1>9. QED
  BY <1>1, <1>7, <1>8

(* Playback, as the director's thread finds the loops and as the last picture  *)
(* left them.                                                                *)
Whole == DirectorHolds /\ LoopsWhole /\ Accounts /\ TimesDiffer /\ Recorded
         /\ Timed /\ Unreleased /\ PictureInv /\ Following

(* No ghost skips, repeats or swaps a frame: from layer to layer and from      *)
(* picture to picture each loop goes on by one frame and begins again after   *)
(* its last (director.c:231-283), for any number of layers, loops and frames,  *)
(* whatever the threads publish between two pictures.  It rests on Following:  *)
(* a loop's position is that after its last ghost in the last picture, and     *)
(* a loop without one is at its beginning.  Memory must not run out while a    *)
(* loop is built.                                                             *)
THEOREM GhostsPicturesFollow ==
    ASSUME Faults \cap DirectorFaults = {}
    PROVE  GhostsSpec => PicturesFollow
<1> DEFINE Goes ==
      (Drawing /\ Display /\ loops # <<>>) =>
          LET before == GhostsOf(display_manager.shown)
              all == before \o GhostsOf(display_manager'.shown)
          IN  \A i \in Len(before) + 1 .. Len(all) : \E l \in ToSet(loops) :
                LET times == loop[l].cutoffs
                    earlier == {j \in 1 .. i - 1 : all[j] \in ToSet(times)}
                IN  \E n \in 1 .. Len(times) :
                       /\ all[i] = times[n]
                       /\ IF earlier = {} THEN n = 1
                          ELSE n = Follower(times, all[Max(earlier)])
<1>1. NoFaults
  BY DEF NoFaults
<1>2. Whole /\ [GhostsNext]_ghostsVars => [Goes]_ghostsVars
  <2> SUFFICES ASSUME Whole, Drawing, Display, loops # <<>>
               PROVE  Goes
    BY Zenon
  <2>1. ManagerShape(display_manager)
    BY DEF Whole, PictureInv
  <2>2. PICK playing \in Filled :
            /\ pc = "idle"
            /\ display_manager'.shown
                  = Append([i \in 1 .. MaxLayers |-> Texels(Shown(playing)[i])], Live)
    BY <2>1, DisplayDraws
  <2>3. PlayContext
    BY <2>2 DEF PlayContext, Whole, Unreleased
  <2>4. PICK before : before = GhostsOf(display_manager.shown)
    OBVIOUS
  <2>5. PICK S : before \in Seq(S)
    BY <2>4, GhostsAreSeq DEF Whole
  <2>6. FollowingBy(before)
    BY <2>4, Zenon DEF Whole, Following
  <2>7. PICK shown : shown = display_manager'.shown
    OBVIOUS
  <2>8. PICK after : after = GhostsOf(shown)
    OBVIOUS
  <2>9. ShowsTimes(playing, after)
    BY <2>2, <2>3, <2>7, <2>8, PlayShowsTimes, Zenon
  <2>10. MaxLayers \in Nat /\ after = [i \in 1 .. MaxLayers |-> after[i]]
    <3>1. DOMAIN after = 1 .. MaxLayers
      BY <2>9 DEF ShowsTimes
    <3>2. after = [i \in DOMAIN after |-> after[i]]
      BY <2>8 DEF GhostsOf
    <3>3. QED
      BY <3>1, <3>2, Constants
  <2>11. after \in Seq({after[i] : i \in 1 .. MaxLayers}) /\ Len(after) = MaxLayers
    BY <2>10
  <2>12. PICK T : after \in Seq(T)
    BY <2>11
  <2>13. PICK all : all = before \o after
    OBVIOUS
  <2>14. ASSUME NEW i \in Len(before) + 1 .. Len(all) PROVE FollowsFrame(all, i)
    <3>1. Len(after) = MaxLayers
      BY <2>11
    <3>2. QED
      BY <2>3, <2>5, <2>6, <2>9, <2>12, <2>13, <3>1, LayerFollows
  <2>15. all = GhostsOf(display_manager.shown) \o GhostsOf(display_manager'.shown)
    BY <2>4, <2>7, <2>8, <2>13, Zenon
  <2>16. \A i \in Len(GhostsOf(display_manager.shown)) + 1
                   .. Len(GhostsOf(display_manager.shown) \o GhostsOf(display_manager'.shown)) :
            FollowsFrame(GhostsOf(display_manager.shown) \o GhostsOf(display_manager'.shown), i)
    BY <2>4, <2>14, <2>15
  <2>17. QED
    BY <2>16, Zenon DEF FollowsFrame
<1>3. GhostsSpec => []Whole
  <2>1. Spec => []LoopsWhole /\ []Accounts
    BY <1>1, DirectorLoopsWhole, AccountsInvariant, PTL DEF NoFaults
  <2>2. GhostsSpec => []PictureInv /\ []Following
    BY <1>1, PictureHolds, FollowingHolds, PTL
  <2>3. QED
    BY <2>1, <2>2, GhostsUseDirector, DirectorHoldsAlways, UnreleasedHolds,
       TimedHolds, RecordedHolds, TimesHold, PTL DEF Whole
<1>4. QED
  BY <1>2, <1>3, PTL DEF GhostsSpec, PicturesFollow
=============================================================================
