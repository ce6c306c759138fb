------------------------------ MODULE Director ------------------------------
(***************************************************************************)
(* libkghost/src/director.c: the director passes what the camera captures   *)
(* to the frame store, looks at every frame the store completes, gathers     *)
(* the frames of a movement into the current loop, and plays back the loops  *)
(* that are finished.                                                        *)
(*                                                                          *)
(* Two kinds of thread run here.  The GLUT thread makes every call: captures, *)
(* playback and release; pc is where it is.  A finished loop is handed to a   *)
(* thread of its own, which appends it to `loops' under loops_mutex.  (A      *)
(* third, the pool's generator, is the store's Supply.)                       *)
(*                                                                          *)
(* Whether a frame shows enough movement is the motion detector's verdict,    *)
(* here any.  A use of a loop that is NULL or freed, or of the freed director,*)
(* is undefined: the model notes it in `crashed' and stops.                   *)
(*                                                                          *)
(* A definition marked `Mutant' is the definition below it with a bug such   *)
(* code could have; it is not part of the model.                             *)
(***************************************************************************)
EXTENDS Integers, Sequences, FiniteSets, SequencesExt

CONSTANTS Chunks, MaxChunks, VideoBytes, DepthBytes, MetaBytes, TimestampBytes,
          Timestamps, MaxRepeat, MaxFrames,     \* see FrameStore
          Loops,            \* the addresses malloc may return for loops
          MaxLayers,        \* max_layers
          MinFrames,        \* loop_min_frame_count
          Patience,         \* valid_frame_patience
          Faults            \* the library calls that may fail

(* DirectorFaults are the director's own: growing a loop's vector or the       *)
(* vector of loops, starting a thread, creating a loop.                        *)
DirectorFaults == {"malloc append", "pthread_create", "malloc loop"}

VARIABLES
    spare, held, strayed, open, content, frames, current_frame,
    current_frame_stored_size, frame_count, status, frame_id, handed, last,
    copies,                 \* the frame store and its pool
    loop,                   \* what is at each loop address
    alive,                  \* the loop addresses malloced and not freed
    p_current_loop,
    loops,                  \* the vector of finished loops (loops_mutex)
    playing_loops,          \* one per layer
    handlers,               \* the loops whose handler thread has yet to run
    is_recording, invalid_frame_count,
    pc, crashed,
    discarded               \* history: ids of the frames of freed loops

Store == INSTANCE FrameStore WITH
            Faults <- Faults \ DirectorFaults

ASSUME DirectorAssumption ==
    /\ Store!StoreAssumption
    /\ MaxLayers \in Nat \ {0} /\ MinFrames \in Nat \ {0} /\ Patience \in Nat
    /\ IsFiniteSet(Loops) /\ Store!Null \notin Loops

storeVars == <<spare, held, strayed, open, content, frames, current_frame,
               current_frame_stored_size, frame_count, status, frame_id, handed,
               last, copies>>
loopVars == <<loop, alive, p_current_loop, loops, playing_loops, handlers,
              discarded>>
recordVars == <<is_recording, invalid_frame_count>>
vars == <<storeVars, loopVars, recordVars, pc, crashed>>

Null == "NULL"
invalid_frame_id == -1

EmptyLoop == [video_addresses |-> <<>>, depth_addresses |-> <<>>,
              cutoffs |-> <<>>, frame_ids |-> <<>>,
              next_frame |-> 0, frame_count |-> 0]

Init ==
    /\ Store!StoreInit
    /\ \E l \in Loops : alive = {l} /\ p_current_loop = l
    /\ loop = [l \in Loops |-> EmptyLoop]
    /\ loops = <<>>
    /\ playing_loops = [i \in 1 .. MaxLayers |-> Null]
    /\ handlers = {}
    /\ is_recording = FALSE /\ invalid_frame_count = 0
    /\ pc = "idle" /\ crashed = FALSE /\ discarded = {}

\* The pool's generator.
Supply(c) ==
    /\ ~crashed
    /\ Store!Supply(c)
    /\ UNCHANGED <<loopVars, recordVars, pc, crashed>>

-----------------------------------------------------------------------------
(* Captures.  A call that may make a frame starts only while the instance has  *)
(* an id and a loop address left.                                             *)
MayCapture ==
    /\ pc = "idle" /\ ~crashed
    /\ Len(frames) < MaxFrames
    /\ alive # Loops

NewFrame == status' = "NO_ERROR" /\ frame_id' # invalid_frame_id

\* director_capture_video.
CaptureVideo(timestamp) ==
    /\ MayCapture
    /\ Store!CaptureData("video", timestamp)
    /\ pc' = IF NewFrame THEN "frame" ELSE "idle"
    /\ UNCHANGED <<loopVars, recordVars, crashed>>

\* director_capture_depth: the depth, then the cutoff as the frame's meta data
\* with the same timestamp.  The id the first call returned is overwritten.
CaptureDepth(timestamp) ==
    /\ MayCapture
    /\ timestamp = last => copies["meta"] < MaxRepeat
    /\ Store!CaptureData("depth", timestamp)
    /\ pc' = IF status' = "NO_ERROR" THEN "meta" ELSE "idle"
    /\ UNCHANGED <<loopVars, recordVars, crashed>>

CaptureMeta ==
    /\ pc = "meta" /\ ~crashed
    /\ Store!CaptureData("meta", last)
    /\ pc' = IF NewFrame THEN "frame" ELSE "idle"
    /\ UNCHANGED <<loopVars, recordVars, crashed>>

-----------------------------------------------------------------------------
(* _director_handle_new_frame, in which the motion detector finds the frame    *)
(* valid or not.                                                             *)

\* Mutant: the addresses are those of the frame the store is now filling.
Append4Current(l, n) ==
    loop' = [loop EXCEPT
        ![l].video_addresses = Append(@, current_frame),
        ![l].depth_addresses = Append(@, current_frame),
        ![l].cutoffs = Append(@, content[current_frame]["meta"]),
        ![l].frame_ids = Append(@, frame_id),
        ![l].frame_count = @ + 1]

\* The four appends to the current loop.  One that fails leaves the vectors
\* before it longer by one, and the frame in the store.
Append4(l, n) ==
    LET chunk == Store!Frame(frame_id)
        grown(s, x, i) == IF i <= n THEN Append(s, x) ELSE s
    IN  loop' = [loop EXCEPT ![l] =
            [video_addresses |-> grown(@.video_addresses, chunk, 1),
             depth_addresses |-> grown(@.depth_addresses, chunk, 2),
             cutoffs |-> grown(@.cutoffs, content[chunk]["meta"], 3),
             frame_ids |-> grown(@.frame_ids, frame_id, 4),
             next_frame |-> @.next_frame,
             frame_count |-> IF n = 4 THEN @.frame_count + 1 ELSE @.frame_count]]

\* Mutant: the count is compared before it goes up.
PatientTooLong == invalid_frame_count <= Patience
Patient == invalid_frame_count + 1 <= Patience

\* A valid frame, or one of the invalid ones a recording puts up with.
RecordFrame(valid) ==
    /\ valid \/ (is_recording /\ Patient)
    /\ is_recording' = TRUE
    /\ invalid_frame_count' = IF valid THEN 0 ELSE invalid_frame_count + 1
    /\ IF p_current_loop \in alive
       THEN /\ \E n \in IF "malloc append" \in Faults THEN 0 .. 4 ELSE {4} :
                  Append4(p_current_loop, n)
            /\ UNCHANGED crashed
       ELSE crashed' = TRUE /\ UNCHANGED loop
    /\ UNCHANGED <<storeVars, alive, p_current_loop, loops,
                   playing_loops, handlers, discarded>>

\* Mutant: the frame stays in the store.
DropNothing(valid) ==
    /\ ~valid /\ ~is_recording
    /\ UNCHANGED <<storeVars, loopVars, recordVars, crashed>>

\* Mutant: ids taken to count from one.
DropPrevious(valid) ==
    /\ ~valid /\ ~is_recording
    /\ Store!RemoveFrame(frame_id - 1)
    /\ UNCHANGED <<loopVars, recordVars, crashed>>

\* Nothing is being recorded: the frame goes back.
DropFrame(valid) ==
    /\ ~valid /\ ~is_recording
    /\ Store!RemoveFrame(frame_id)
    /\ UNCHANGED <<loopVars, recordVars, crashed>>

\* _loop_release: the memory goes, the frames stay in the store.
Discarded(l) == discarded \cup {loop[l].frame_ids[i] : i \in 1 .. Len(loop[l].frame_ids)}

\* The end of handle_new_frame after a loop has ended: another current loop.
NextLoop(left, base) ==
    \/ \E l \in Loops \ left :
          /\ alive' = left \cup {l}
          /\ p_current_loop' = l
          /\ loop' = [base EXCEPT ![l] = EmptyLoop]
    \/ /\ "malloc loop" \in Faults
       /\ alive' = left
       /\ p_current_loop' = Null
       /\ loop' = base

\* Mutant: the finished loop remains the current one.
KeepLoopCurrent ==
    /\ loop[p_current_loop].frame_count >= MinFrames
    /\ handlers' = handlers \cup {p_current_loop}
    /\ UNCHANGED <<loop, alive, p_current_loop, discarded>>

\* The loop is long enough: a thread is started to publish it.
KeepLoop ==
    /\ loop[p_current_loop].frame_count >= MinFrames
    /\ handlers' = handlers \cup {p_current_loop}
    /\ NextLoop(alive, loop)
    /\ UNCHANGED discarded

\* No thread could be started: the loop is freed, and the function returns with
\* p_current_loop still pointing to it.
LoseLoop ==
    /\ loop[p_current_loop].frame_count >= MinFrames
    /\ "pthread_create" \in Faults
    /\ alive' = alive \ {p_current_loop}
    /\ discarded' = Discarded(p_current_loop)
    /\ loop' = [loop EXCEPT ![p_current_loop] = EmptyLoop]
    /\ UNCHANGED <<handlers, p_current_loop>>

\* The loop is too short.
DiscardLoop ==
    /\ loop[p_current_loop].frame_count < MinFrames
    /\ discarded' = Discarded(p_current_loop)
    /\ NextLoop(alive \ {p_current_loop},
                [loop EXCEPT ![p_current_loop] = EmptyLoop])
    /\ UNCHANGED handlers

\* The recording's patience is at an end.
EndLoop(valid) ==
    /\ ~valid /\ is_recording /\ ~Patient
    /\ is_recording' = FALSE
    /\ invalid_frame_count' = invalid_frame_count + 1
    /\ Store!RemoveFrame(frame_id)
    /\ IF p_current_loop \in alive
       THEN (KeepLoop \/ LoseLoop \/ DiscardLoop) /\ UNCHANGED crashed
       ELSE crashed' = TRUE
            /\ UNCHANGED <<loop, alive, p_current_loop, handlers, discarded>>
    /\ UNCHANGED <<loops, playing_loops>>

HandleFrame(valid) ==
    /\ pc = "frame" /\ ~crashed
    /\ pc' = "idle"
    /\ RecordFrame(valid) \/ DropFrame(valid) \/ EndLoop(valid)

-----------------------------------------------------------------------------
(* The handler thread of one loop, _handle_new_loop. *)

\* Mutant: the thread ends without having appended the loop.
PublishNothing(l) ==
    /\ l \in handlers /\ ~crashed
    /\ handlers' = handlers \ {l}
    /\ UNCHANGED <<storeVars, loop, alive, loops, discarded, p_current_loop,
                   playing_loops, recordVars, pc, crashed>>

Publish(l) ==
    /\ l \in handlers /\ ~crashed
    /\ handlers' = handlers \ {l}
    /\ IF pc = "released"
       THEN /\ crashed' = TRUE
            /\ UNCHANGED <<loop, alive, loops, discarded>>
       ELSE /\ UNCHANGED crashed
            /\ \/ /\ loops' = Append(loops, l)
                  /\ UNCHANGED <<loop, alive, discarded>>
               \/ /\ "malloc append" \in Faults
                  /\ alive' = alive \ {l}
                  /\ discarded' = Discarded(l)
                  /\ loop' = [loop EXCEPT ![l] = EmptyLoop]
                  /\ UNCHANGED loops
    /\ UNCHANGED <<storeVars, p_current_loop, playing_loops,
                   recordVars, pc>>

-----------------------------------------------------------------------------
(* director_playback_layers, all of it under loops_mutex.  Every empty layer   *)
(* gets some finished loop; then the layers in turn show the next frame of    *)
(* their loop.  Layers that share a loop share its position: the k-th of them  *)
(* is k frames on, and the one that reaches the end leaves the loop.          *)
Filled ==
    {playing \in [1 .. MaxLayers -> ToSet(loops)] :
        \A i \in 1 .. MaxLayers :
            playing_loops[i] # Null => playing[i] = playing_loops[i]}

LayersOf(playing, l) == {i \in 1 .. MaxLayers : playing[i] = l}
\* Mutant: the loop is moved on before its frame is taken.
BeforeAndItself(playing, i) ==
    Cardinality({j \in LayersOf(playing, playing[i]) : j <= i})
Before(playing, i) ==
    Cardinality({j \in LayersOf(playing, playing[i]) : j < i})
\* Mutant: the end is passed by one.
AdvancedPastEnd(l, n) == (loop[l].next_frame + n) % (loop[l].frame_count + 1)
Advanced(l, n) == (loop[l].next_frame + n) % loop[l].frame_count

\* What the layers are given to show (director_frame_layers_t).
Shown(playing) ==
    [i \in 1 .. MaxLayers |->
        LET l == playing[i]
            n == Advanced(l, Before(playing, i)) + 1
        IN  [video |-> loop[l].video_addresses[n],
             depth |-> loop[l].depth_addresses[n],
             cutoff |-> loop[l].cutoffs[n]]]

Play(playing) ==
    /\ pc = "idle" /\ ~crashed
    /\ playing_loops' = [i \in 1 .. MaxLayers |->
          IF Advanced(playing[i], Before(playing, i) + 1) = 0
          THEN Null ELSE playing[i]]
    /\ loop' = [l \in Loops |->
          IF LayersOf(playing, l) = {} THEN loop[l]
          ELSE [loop[l] EXCEPT !.next_frame =
                       Advanced(l, Cardinality(LayersOf(playing, l)))]]
    /\ UNCHANGED <<storeVars, alive, p_current_loop, loops, handlers,
                   discarded, recordVars, pc, crashed>>

Playback == loops # <<>> /\ \E playing \in Filled : Play(playing)

-----------------------------------------------------------------------------
(* director_release.  The condition on which it would free the finished loops  *)
(* (line 184) is never true.                                                  *)
ReleaseFrames ==
    /\ pc = "idle" /\ ~crashed
    /\ Store!ReleaseStore
    /\ pc' = "releasing"
    /\ UNCHANGED <<loopVars, recordVars, crashed>>

ReleaseDirector ==
    /\ pc = "releasing" /\ ~crashed
    /\ alive' = alive \ {p_current_loop}
    /\ crashed' = (p_current_loop \notin alive \cup {Null})
    /\ loops' = <<>>
    /\ pc' = "released"
    /\ UNCHANGED <<storeVars, loop, p_current_loop, playing_loops,
                   handlers, discarded, recordVars>>

Release == ReleaseFrames \/ ReleaseDirector
Capture == (\E t \in Timestamps : CaptureVideo(t) \/ CaptureDepth(t)) \/ CaptureMeta
Handle == \E valid \in BOOLEAN : HandleFrame(valid)
Handler == \E l \in Loops : Publish(l)
Generator == \E c \in Chunks : Supply(c)
Done == (crashed \/ pc = "released") /\ UNCHANGED vars

Next == Capture \/ Handle \/ Playback \/ Handler \/ Generator \/ Release \/ Done

Spec == Init /\ [][Next]_vars

-----------------------------------------------------------------------------
(* The values the director's variables range over. *)
LoopType ==
    [video_addresses : Seq(Chunks), depth_addresses : Seq(Chunks),
     cutoffs : Seq(Timestamps), frame_ids : Seq(Nat),
     next_frame : Nat, frame_count : Nat]
TypeOK ==
    /\ loop \in [Loops -> LoopType]
    /\ alive \in SUBSET Loops
    /\ p_current_loop \in Loops \cup {Null}
    /\ loops \in Seq(Loops)
    /\ playing_loops \in [1 .. MaxLayers -> Loops \cup {Null}]
    /\ handlers \in SUBSET Loops
    /\ is_recording \in BOOLEAN
    /\ invalid_frame_count \in 0 .. Patience + 1
    /\ pc \in {"idle", "meta", "frame", "releasing", "released"}
    /\ crashed \in BOOLEAN
    /\ discarded \in SUBSET Nat

IdsOf(l) == {loop[l].frame_ids[i] : i \in 1 .. Len(loop[l].frame_ids)}
BeingHandled == IF pc = "frame" THEN {frame_id} ELSE {}

(* The pointers a loop keeps into the store stay good: while the store exists, *)
(* every address in a loop that has not been freed is of a claimed chunk that  *)
(* the store is not writing to, whatever fails, whichever thread has the loop,*)
(* and however many frames were captured since (director.c:498-518).          *)
LoopFramesHeld ==
    open => \A l \in alive :
        ToSet(loop[l].video_addresses) \cup ToSet(loop[l].depth_addresses)
            \subseteq held \ {current_frame}

(* The n-th entries of a loop's four vectors are the video, the depth, the    *)
(* cutoff and the id of one frame, and that frame is whole, is the loop's     *)
(* alone and occurs once (director.c:252-276 plays the vectors side by side). *)
LoopsWhole ==
    open => \A l \in alive :
        LET n == loop[l].frame_count IN
        /\ Len(loop[l].video_addresses) = n /\ Len(loop[l].depth_addresses) = n
        /\ Len(loop[l].cutoffs) = n /\ Len(loop[l].frame_ids) = n
        /\ Cardinality(IdsOf(l)) = n
        /\ \A k \in alive \ {l} : IdsOf(k) \cap IdsOf(l) = {}
        /\ \A i \in 1 .. n :
              LET id == loop[l].frame_ids[i]
              IN  /\ id \in handed
                  /\ loop[l].video_addresses[i] = Store!Frame(id)
                  /\ loop[l].depth_addresses[i] = Store!Frame(id)
                  /\ \A p \in Store!Fields :
                        content[Store!Frame(id)][p] = loop[l].cutoffs[i]

(* Every frame the store handed out is accounted for: it is in a loop, or     *)
(* being handled, or was in a loop that has been freed.  None goes back to    *)
(* the store while a loop has it (director.c:341-360, 496-525).               *)
FramesAccounted ==
    open => /\ handed = (UNION {IdsOf(l) : l \in alive})
                          \cup BeingHandled \cup discarded
            /\ \A l \in alive : IdsOf(l) \cap (BeingHandled \cup discarded) = {}

(* The GLUT thread and the handler threads never share a loop: the one being   *)
(* recorded is live and belongs to no handler and no player, and every        *)
(* finished loop is with its handler or published once (director.c:527-539).   *)
LoopOwnership ==
    pc # "released" =>
        /\ ~crashed
        /\ p_current_loop \in alive
        /\ alive = {p_current_loop} \cup handlers \cup ToSet(loops)
        /\ p_current_loop \notin handlers \cup ToSet(loops)
        /\ handlers \cap ToSet(loops) = {}
        /\ IsInjective(loops)

(* A layer that plays a loop finds a frame at the loop's position, although   *)
(* several layers may move it on, and another thread may append loops        *)
(* (director.c:249-283).                                                      *)
Playable ==
    pc # "released" =>
        /\ ToSet(playing_loops) \subseteq ToSet(loops) \cup {Null}
        /\ \A l \in ToSet(loops) :
              /\ l \in alive
              /\ loop[l].frame_count >= MinFrames
              /\ loop[l].next_frame < loop[l].frame_count

(* A loop begins with a valid frame, has as many frames as the movement it    *)
(* shows, and ends with at most Patience invalid ones (director.c:476-519).   *)
RecordingConsistent ==
    p_current_loop \in alive =>
        LET n == loop[p_current_loop].frame_count
        IN  IF is_recording
            THEN invalid_frame_count <= Patience /\ n > invalid_frame_count
            ELSE n = 0

(* A published loop's frames never change: only its position does. *)
PublishedStable ==
    [][\A l \in ToSet(loops) \cap ToSet(loops') :
          loop'[l] = [loop[l] EXCEPT !.next_frame = loop'[l].next_frame]]_vars

(* The director uses the frame store as the store expects: it removes only    *)
(* ids it was given and has not removed before, and makes no call after the   *)
(* store's release.                                                           *)
UsesStore == Store!Spec

(* director.h:37 has the director clean up clips by removing frames: a frame  *)
(* stays in the store only while it is being handled or a loop that still     *)
(* exists has it.                                                            *)
CleansUp ==
    open => handed \subseteq (UNION {IdsOf(l) : l \in alive}) \cup BeingHandled
=============================================================================
