----------------------------- MODULE FrameStore -----------------------------
(***************************************************************************)
(* libkghost/src/frame_store.c, the part that is compiled (lines 548-952):  *)
(* video, depth and meta data that carry one timestamp are gathered in the  *)
(* current frame, a chunk of the memory pool; a complete frame is appended  *)
(* to `frames', its index is its id for ever, and another chunk is claimed.  *)
(* That a frame is complete is concluded from the number of bytes copied.    *)
(*                                                                          *)
(* The pool is the abstract ChunkAllocator, which MemoryPool implements: the *)
(* store makes its calls one at a time, and the generator supplies chunks at *)
(* any moment.                                                              *)
(*                                                                          *)
(* A part of a frame is represented by the timestamp it was captured with.   *)
(* A definition marked `Mutant' is the definition below it with a bug such   *)
(* code could have; it is not part of the model.                             *)
(***************************************************************************)
EXTENDS Integers, Sequences, FiniteSets

CONSTANTS Chunks, MaxChunks,      \* of the memory pool
          VideoBytes, DepthBytes, MetaBytes, TimestampBytes,
          Timestamps,             \* what the callers' clock may show
          MaxRepeat,              \* bound: captures of one part in a row
          MaxFrames,              \* bound: ids ever given out
          Faults                  \* the library calls that may fail

Parts == {"video", "depth", "meta"}
Fields == Parts \cup {"timestamp"}
Null == "NULL"
(* The value a cleared frame has for a timestamp, (timestamp_t)-1; also that  *)
(* of a part that has been zeroed.                                          *)
Unset == -1
invalid_frame_id == -1

part_bytes == [p \in Parts |-> CASE p = "video" -> VideoBytes
                                 [] p = "depth" -> DepthBytes
                                 [] p = "meta"  -> MetaBytes]
frame_size == VideoBytes + DepthBytes + MetaBytes + TimestampBytes

(* Sizes are positive, no clock shows the value kept for cleared frames, and  *)
(* no other mix of up to MaxRepeat copies of each part has the size of a      *)
(* frame (640 x 480 x 3, 640 x 480 x 2 and 4 bytes in the program).          *)
ASSUME StoreAssumption ==
    /\ IsFiniteSet(Chunks) /\ MaxChunks \in Nat
    /\ VideoBytes \in Nat \ {0} /\ DepthBytes \in Nat \ {0}
    /\ MetaBytes \in Nat \ {0} /\ TimestampBytes \in Nat \ {0}
    /\ Timestamps \subseteq Int \ {Unset}
    /\ MaxRepeat \in Nat \ {0} /\ MaxFrames \in Nat
    /\ \A v, d, m \in 0 .. MaxRepeat :
          v * VideoBytes + d * DepthBytes + m * MetaBytes
             = VideoBytes + DepthBytes + MetaBytes
          => v = 1 /\ d = 1 /\ m = 1
    /\ Faults \subseteq {"malloc node", "malloc vector"}
    /\ Null \notin Chunks

VARIABLES
    spare, held, strayed, open,   \* the pool
    content,                      \* what each chunk holds
    frames,                       \* the vector of chunks, NULL once removed
    current_frame, current_frame_stored_size, frame_count,
    status, frame_id,             \* what the last call returned
    handed,     \* history: ids returned with NO_ERROR and not yet removed
    last,       \* history: the timestamp of the last capture
    copies      \* history: captures of each part since `last' was another

poolVars == <<spare, held, strayed, open>>
storeVars == <<content, frames, current_frame, current_frame_stored_size,
               frame_count, status, frame_id, handed, last, copies>>
storeAndPool == <<poolVars, storeVars>>

Pool == INSTANCE ChunkAllocator

Ids == 0 .. Len(frames) - 1
Frame(id) == frames[id + 1]
Cleared == [f \in Fields |-> Unset]

-----------------------------------------------------------------------------
(* frame_store_create: the pool, an empty vector, and a first chunk.         *)
StoreInit ==
    /\ \E c \in Chunks, more \in SUBSET Chunks :
          /\ c \notin more
          /\ Cardinality(more) < MaxChunks
          /\ spare = more
          /\ held = {c}
          /\ current_frame = c
    /\ strayed = {} /\ open = TRUE
    /\ content = [c \in Chunks |-> Cleared]
    /\ frames = <<>> /\ frame_count = 0
    /\ current_frame_stored_size = 0
    /\ status = "NO_ERROR" /\ frame_id = invalid_frame_id
    /\ handed = {} /\ last = Unset /\ copies = [p \in Parts |-> 0]

\* The generator thread of the pool.
Supply(c) == Pool!Supply(c) /\ UNCHANGED storeVars

-----------------------------------------------------------------------------
(* _frame_store_capture_data.  The caller's `data' is of the part's kind.    *)

\* Every capture counts for the history.
Count(part, timestamp) ==
    /\ last' = timestamp
    /\ copies' = IF timestamp = last
                 THEN [copies EXCEPT ![part] = @ + 1]
                 ELSE [p \in Parts |-> IF p = part THEN 1 ELSE 0]
    /\ timestamp = last => copies[part] < MaxRepeat

current_timestamp == content[current_frame]["timestamp"]

\* Mutant: the size goes on from where it was.
StartFrameAdding(part, timestamp) ==
    /\ timestamp # current_timestamp
    /\ content' = [content EXCEPT ![current_frame]["timestamp"] = timestamp,
                                  ![current_frame][part] = timestamp]
    /\ current_frame_stored_size' = current_frame_stored_size + part_bytes[part]
    /\ status' = "NO_ERROR" /\ frame_id' = invalid_frame_id
    /\ UNCHANGED <<poolVars, frames, current_frame, frame_count, handed>>

\* Another timestamp than the current frame's: the frame is started afresh.
StartFrame(part, timestamp) ==
    /\ timestamp # current_timestamp
    /\ content' = [content EXCEPT ![current_frame]["timestamp"] = timestamp,
                                  ![current_frame][part] = timestamp]
    /\ current_frame_stored_size' = part_bytes[part] + TimestampBytes
    /\ status' = "NO_ERROR" /\ frame_id' = invalid_frame_id
    /\ UNCHANGED <<poolVars, frames, current_frame, frame_count, handed>>

\* The frame's timestamp, and the frame is not (or is more than) complete.
AddToFrame(part, timestamp) ==
    /\ timestamp = current_timestamp
    /\ current_frame_stored_size + part_bytes[part] # frame_size
    /\ content' = [content EXCEPT ![current_frame][part] = timestamp]
    /\ current_frame_stored_size' = current_frame_stored_size + part_bytes[part]
    /\ status' = "NO_ERROR" /\ frame_id' = invalid_frame_id
    /\ UNCHANGED <<poolVars, frames, current_frame, frame_count, handed>>

\* The part that completes the frame: its last copy, and its id.
Complete(part, timestamp) ==
    /\ timestamp = current_timestamp
    /\ current_frame_stored_size + part_bytes[part] = frame_size
    /\ current_frame_stored_size' = frame_size
    /\ frame_id' = Len(frames)

\* vector_append cannot grow the vector.
StoreFails(part, timestamp) ==
    /\ Complete(part, timestamp)
    /\ "malloc vector" \in Faults
    /\ status' = "ERR_FAILED_ALLOC"
    /\ content' = [content EXCEPT ![current_frame][part] = timestamp]
    /\ UNCHANGED <<poolVars, frames, current_frame, frame_count, handed>>

\* The frame is appended and counted, but there is no chunk for the next one:
\* the store goes on writing to the chunk it has just appended.
StoreClaimFails(part, timestamp) ==
    /\ Complete(part, timestamp)
    /\ Len(frames) < MaxFrames
    /\ content' = [content EXCEPT ![current_frame][part] = timestamp]
    /\ frames' = Append(frames, current_frame)
    /\ frame_count' = frame_count + 1
    /\ \/ /\ spare = {}
          /\ status' = "ERR_EMPTY"
          /\ UNCHANGED poolVars
       \/ /\ "malloc node" \in Faults
          /\ \E c \in spare : /\ spare' = spare \ {c}
                              /\ strayed' = strayed \cup {c}
          /\ status' = "ERR_FAILED_ALLOC"
          /\ UNCHANGED <<held, open>>
    /\ UNCHANGED <<current_frame, handed>>

\* Mutant: the new frame keeps the timestamp it was cleared to.
StoreFrameUntimed(part, timestamp) ==
    /\ Complete(part, timestamp)
    /\ Len(frames) < MaxFrames
    /\ frames' = Append(frames, current_frame)
    /\ frame_count' = frame_count + 1
    /\ \E c \in spare :
          /\ Pool!Acquire(c)
          /\ current_frame' = c
          /\ content' = [content EXCEPT ![current_frame][part] = timestamp,
                                        ![c] = Cleared]
    /\ handed' = handed \cup {Len(frames)}
    /\ status' = "NO_ERROR"

\* Mutant: the store goes on with the frame it has handed out.
StoreFrameAgain(part, timestamp) ==
    /\ Complete(part, timestamp)
    /\ Len(frames) < MaxFrames
    /\ frames' = Append(frames, current_frame)
    /\ frame_count' = frame_count + 1
    /\ content' = [content EXCEPT ![current_frame][part] = timestamp]
    /\ UNCHANGED <<poolVars, current_frame>>
    /\ handed' = handed \cup {Len(frames)}
    /\ status' = "NO_ERROR"

\* The frame is appended and the next one starts with the same timestamp, so
\* that further captures with it are seen as surplus.
StoreFrame(part, timestamp) ==
    /\ Complete(part, timestamp)
    /\ Len(frames) < MaxFrames
    /\ frames' = Append(frames, current_frame)
    /\ frame_count' = frame_count + 1
    /\ \E c \in spare :
          /\ Pool!Acquire(c)
          /\ current_frame' = c
          /\ content' = [content EXCEPT ![current_frame][part] = timestamp,
                            ![c] = [Cleared EXCEPT !["timestamp"] = timestamp]]
    /\ handed' = handed \cup {Len(frames)}
    /\ status' = "NO_ERROR"

CaptureData(part, timestamp) ==
    /\ open
    /\ Count(part, timestamp)
    /\ \/ StartFrame(part, timestamp)
       \/ AddToFrame(part, timestamp)
       \/ StoreFails(part, timestamp)
       \/ StoreClaimFails(part, timestamp)
       \/ StoreFrame(part, timestamp)

-----------------------------------------------------------------------------
(* frame_store_remove_frame. *)

\* Mutant: the slot is emptied and the chunk not given back.
RemoveForgets(id) ==
    /\ frames' = [frames EXCEPT ![id + 1] = Null]
    /\ status' = "NO_ERROR"
    /\ UNCHANGED poolVars

\* The chunk goes back to the pool; the slot stays, so that ids keep their
\* meaning.
RemoveHeld(id) ==
    /\ Pool!Return(Frame(id))
    /\ frames' = [frames EXCEPT ![id + 1] = Null]
    /\ status' = "NO_ERROR"

\* A slot that is empty, or whose chunk is not claimed, is an error, but only
\* after the count has gone down.
RemoveFails(id) ==
    /\ Frame(id) \notin held
    /\ status' = IF Frame(id) = Null THEN "ERR_NULL_POINTER"
                                     ELSE "ERR_INVALID_ARGUMENT"
    /\ UNCHANGED <<poolVars, frames>>

RemoveFrame(id) ==
    /\ open
    /\ IF id \in Ids
       THEN /\ frame_count' = frame_count - 1
            /\ RemoveHeld(id) \/ RemoveFails(id)
       ELSE /\ status' = "ERR_RANGE_ERROR"
            /\ UNCHANGED <<poolVars, frames, frame_count>>
    /\ handed' = handed \ {id}
    /\ UNCHANGED <<content, current_frame, current_frame_stored_size, frame_id,
                   last, copies>>

\* frame_store_release: the vector and every chunk of the pool are freed.
ReleaseStore ==
    /\ Pool!Close
    /\ frames' = <<>>
    /\ handed' = {}
    /\ UNCHANGED <<content, current_frame, current_frame_stored_size,
                   frame_count, status, frame_id, last, copies>>

-----------------------------------------------------------------------------
(* The store's callers: captures of any part with any timestamp; a frame is  *)
(* removed by the id it was handed out with, at most once, or with no valid   *)
(* id at all (director.c:523; test_frame_store.cpp:231-254).                 *)
Capture == \E part \in Parts, timestamp \in Timestamps :
              CaptureData(part, timestamp)
Remove == \E id \in handed \cup {invalid_frame_id} : RemoveFrame(id)
Done == ~open /\ UNCHANGED storeAndPool

Init == StoreInit
Next == \/ Capture \/ Remove \/ ReleaseStore \/ Done
        \/ \E c \in Chunks : Supply(c)

Spec == Init /\ [][Next]_storeAndPool

-----------------------------------------------------------------------------
(* The values the variables range over. *)
TypeOK ==
    /\ spare \in SUBSET Chunks /\ held \in SUBSET Chunks
    /\ strayed \in SUBSET Chunks /\ open \in BOOLEAN
    /\ content \in [Chunks -> [Fields -> Timestamps \cup {Unset}]]
    /\ frames \in Seq(Chunks \cup {Null})
    /\ current_frame \in Chunks
    /\ current_frame_stored_size \in Nat
    /\ frame_count \in Int
    /\ status \in {"NO_ERROR", "ERR_EMPTY", "ERR_FAILED_ALLOC",
                   "ERR_RANGE_ERROR", "ERR_NULL_POINTER", "ERR_INVALID_ARGUMENT"}
    /\ frame_id \in Int
    /\ handed \in SUBSET Ids
    /\ last \in Timestamps \cup {Unset}
    /\ copies \in [Parts -> 0 .. MaxRepeat]

(* The bytes copied are those of the copies made since the timestamp changed. *)
Bytes(n) == TimestampBytes + n["video"] * VideoBytes
              + n["depth"] * DepthBytes + n["meta"] * MetaBytes
SizeCounts ==
    /\ current_timestamp = last
    /\ IF last = Unset
       THEN current_frame_stored_size = 0 /\ \A p \in Parts : copies[p] = 0
       ELSE current_frame_stored_size = Bytes(copies)

(* What the current frame holds of the timestamp being captured, until the    *)
(* frame is complete.                                                        *)
Gathering ==
    \/ \A p \in Parts : copies[p] > 0 => content[current_frame][p] = last
    \/ \A p \in Parts : copies[p] > 0

(* A frame that has been handed out is whole: its video, depth and meta data   *)
(* were all captured with the frame's own timestamp, although completeness    *)
(* was concluded from a sum of sizes, parts come in any order, several times  *)
(* or not at all, and a timestamp may come back after another                *)
(* (frame_store.c:880-900; test_frame_store.cpp:302-313, 353-364).           *)
WholeFrames ==
    \A id \in handed :
        LET frame == content[Frame(id)]
        IN  /\ frame["timestamp"] # Unset
            /\ \A p \in Parts : frame[p] = frame["timestamp"]

(* A frame that has been handed out is its owner's alone: the store writes to *)
(* a chunk that no id stands for, no two ids share a chunk, and the pool      *)
(* does not have it to give to others.  When there was no chunk for the next  *)
(* frame (frame_store.c:914-916) the store does write to a chunk in `frames', *)
(* but under an id its caller was told to forget.                            *)
HandedPrivate ==
    \A id \in handed :
        /\ Frame(id) \in held \ {current_frame}
        /\ \A other \in handed : Frame(id) = Frame(other) => id = other

(* No chunk is lost to the store: what it has claimed is the current frame    *)
(* and the frames it has handed out, also after failures                     *)
(* (frame_store.c:849-853, 914-917).                                             *)
NothingLost ==
    open => held = {current_frame} \cup {Frame(id) : id \in handed}

(* The inductive invariant behind them. *)
IInv ==
    /\ TypeOK
    /\ SizeCounts
    /\ Gathering
    /\ WholeFrames
    /\ HandedPrivate
    /\ NothingLost
    /\ spare \cap held = {}
    /\ open => current_frame \in held
    /\ \A id \in handed : Frame(id) # Null

(* A frame does not change under its owner: until the id is removed it stands *)
(* for the same chunk and the chunk's content stays, whatever is captured or  *)
(* removed meanwhile (frame_store.c:853-857).                                *)
FramesStable ==
    [][open' => \A id \in handed \cap handed' :
          /\ frames'[id + 1] = Frame(id)
          /\ content'[Frame(id)] = content[Frame(id)]]_storeAndPool

(* However often its parts are captured in a row, a timestamp makes one frame: *)
(* a frame is stored only at the first copy of its last missing part           *)
(* (frame_store.c:900-921).                                                   *)
StoredOnce ==
    [][Len(frames') > Len(frames)
          => copies' = [p \in Parts |-> 1]]_storeAndPool
=============================================================================
