-------------------------- MODULE FrameStoreProofs --------------------------
(***************************************************************************)
(* Theorems about FrameStore for any pool, any sizes that StoreAssumption   *)
(* allows, any clock and any bounds: the frames it hands out are whole,      *)
(* private and stable, and one timestamp makes one of them.                  *)
(***************************************************************************)
EXTENDS FrameStore, TLAPS

-----------------------------------------------------------------------------
(* The constants. *)

LEMMA Sizes ==
    /\ VideoBytes \in Nat \ {0} /\ DepthBytes \in Nat \ {0}
    /\ MetaBytes \in Nat \ {0} /\ TimestampBytes \in Nat \ {0}
    /\ MaxRepeat \in Nat \ {0}
    /\ Unset \notin Timestamps /\ Timestamps \subseteq Int
    /\ Null \notin Chunks
BY StoreAssumption DEF StoreAssumption

LEMMA PartBytes ==
    /\ part_bytes["video"] = VideoBytes
    /\ part_bytes["depth"] = DepthBytes
    /\ part_bytes["meta"] = MetaBytes
BY DEF part_bytes, Parts

LEMMA OneMore == ASSUME NEW a \in Nat, NEW b \in Nat PROVE (a + 1) * b = a * b + b
OBVIOUS

(* Counting one more copy adds the size of the part. *)
LEMMA BytesOneMore ==
    ASSUME NEW n \in [Parts -> Nat], NEW part \in Parts
    PROVE  /\ Bytes(n) \in Nat
           /\ Bytes([n EXCEPT ![part] = @ + 1]) = Bytes(n) + part_bytes[part]
<1> DEFINE m == [n EXCEPT ![part] = @ + 1]
<1>1. n["video"] \in Nat /\ n["depth"] \in Nat /\ n["meta"] \in Nat
  BY DEF Parts
<1>2. /\ n["video"] * VideoBytes \in Nat
      /\ n["depth"] * DepthBytes \in Nat
      /\ n["meta"] * MetaBytes \in Nat
  BY <1>1, Sizes
<1>3. /\ (n["video"] + 1) * VideoBytes = n["video"] * VideoBytes + VideoBytes
      /\ (n["depth"] + 1) * DepthBytes = n["depth"] * DepthBytes + DepthBytes
      /\ (n["meta"] + 1) * MetaBytes = n["meta"] * MetaBytes + MetaBytes
  BY <1>1, Sizes, OneMore
<1>4. CASE part = "video"
  <2>1. m["video"] = n["video"] + 1 /\ m["depth"] = n["depth"] /\ m["meta"] = n["meta"]
    BY <1>4 DEF Parts
  <2> HIDE DEF m
  <2>2. QED BY <1>2, <1>3, <1>4, <2>1, Sizes, PartBytes DEF Bytes
<1>5. CASE part = "depth"
  <2>1. m["video"] = n["video"] /\ m["depth"] = n["depth"] + 1 /\ m["meta"] = n["meta"]
    BY <1>5 DEF Parts
  <2> HIDE DEF m
  <2>2. QED BY <1>2, <1>3, <1>5, <2>1, Sizes, PartBytes DEF Bytes
<1>6. CASE part = "meta"
  <2>1. m["video"] = n["video"] /\ m["depth"] = n["depth"] /\ m["meta"] = n["meta"] + 1
    BY <1>6 DEF Parts
  <2> HIDE DEF m
  <2>2. QED BY <1>2, <1>3, <1>6, <2>1, Sizes, PartBytes DEF Bytes
<1>7. QED
  BY <1>4, <1>5, <1>6 DEF Parts

(* The first copy of a part after a change of timestamp. *)
LEMMA BytesFirst ==
    ASSUME NEW part \in Parts
    PROVE  Bytes([p \in Parts |-> IF p = part THEN 1 ELSE 0])
              = part_bytes[part] + TimestampBytes
<1>1. /\ 0 * VideoBytes = 0 /\ 0 * DepthBytes = 0 /\ 0 * MetaBytes = 0
      /\ 1 * VideoBytes = VideoBytes /\ 1 * DepthBytes = DepthBytes
      /\ 1 * MetaBytes = MetaBytes
  BY Sizes
<1>2. QED
  BY <1>1, Sizes, PartBytes DEF Bytes, Parts

(* Only one copy of each part has the size of a frame. *)
LEMMA FrameSizeOnce ==
    ASSUME NEW n \in [Parts -> 0 .. MaxRepeat], Bytes(n) = frame_size
    PROVE  \A p \in Parts : n[p] = 1
<1>1. n["video"] \in 0 .. MaxRepeat /\ n["depth"] \in 0 .. MaxRepeat
        /\ n["meta"] \in 0 .. MaxRepeat
  BY DEF Parts
<1>2. n["video"] * VideoBytes \in Int /\ n["depth"] * DepthBytes \in Int
        /\ n["meta"] * MetaBytes \in Int
  BY <1>1, Sizes
<1>3. n["video"] * VideoBytes + n["depth"] * DepthBytes + n["meta"] * MetaBytes
        = VideoBytes + DepthBytes + MetaBytes
  <2> DEFINE v == n["video"] * VideoBytes
             d == n["depth"] * DepthBytes
             m == n["meta"] * MetaBytes
  <2>1. TimestampBytes + v + d + m
          = VideoBytes + DepthBytes + MetaBytes + TimestampBytes
    BY Zenon DEF Bytes, frame_size
  <2>2. v \in Int /\ d \in Int /\ m \in Int
    BY <1>2
  <2> HIDE DEF v, d, m
  <2>3. v + d + m = VideoBytes + DepthBytes + MetaBytes
    BY <2>1, <2>2, Sizes
  <2>4. QED
    BY <2>3 DEF v, d, m
<1>4. n["video"] = 1 /\ n["depth"] = 1 /\ n["meta"] = 1
  <2>1. \A v, d, m \in 0 .. MaxRepeat :
          v * VideoBytes + d * DepthBytes + m * MetaBytes
             = VideoBytes + DepthBytes + MetaBytes
          => v = 1 /\ d = 1 /\ m = 1
    BY StoreAssumption, Zenon DEF StoreAssumption
  <2>2. n["video"] * VideoBytes + n["depth"] * DepthBytes + n["meta"] * MetaBytes
             = VideoBytes + DepthBytes + MetaBytes
          => n["video"] = 1 /\ n["depth"] = 1 /\ n["meta"] = 1
    BY <1>1, <2>1, Zenon
  <2>3. QED
    BY <1>3, <2>2, Zenon
<1>5. QED
  BY <1>4 DEF Parts

-----------------------------------------------------------------------------
(* The invariant holds initially. *)

LEMMA InitIInv == StoreInit => IInv
<1> SUFFICES ASSUME StoreInit PROVE IInv
  OBVIOUS
<1>1. PICK c \in Chunks, more \in SUBSET Chunks :
          c \notin more /\ spare = more /\ held = {c} /\ current_frame = c
  BY DEF StoreInit
<1>2. /\ strayed = {} /\ open = TRUE
      /\ content = [ch \in Chunks |-> Cleared]
      /\ frames = <<>> /\ frame_count = 0
      /\ current_frame_stored_size = 0
      /\ status = "NO_ERROR" /\ frame_id = -1
      /\ handed = {} /\ last = Unset /\ copies = [p \in Parts |-> 0]
  BY DEF StoreInit, invalid_frame_id
<1>3. Cleared \in [Fields -> Timestamps \cup {Unset}]
  BY DEF Cleared
<1>4. TypeOK
  <2>1. content \in [Chunks -> [Fields -> Timestamps \cup {Unset}]]
    BY <1>2, <1>3
  <2>2. copies \in [Parts -> 0 .. MaxRepeat]
    BY <1>2, Sizes
  <2>3. QED
    BY <1>1, <1>2, <2>1, <2>2 DEF TypeOK, Ids
<1>5. SizeCounts
  BY <1>1, <1>2 DEF SizeCounts, current_timestamp, Cleared, Fields
<1>6. Gathering
  BY <1>2 DEF Gathering
<1>7. WholeFrames /\ HandedPrivate /\ NothingLost
  BY <1>1, <1>2 DEF WholeFrames, HandedPrivate, NothingLost
<1>8. QED
  BY <1>1, <1>2, <1>4, <1>5, <1>6, <1>7 DEF IInv

-----------------------------------------------------------------------------
(* The history of captures. *)

LEMMA CountType ==
    ASSUME TypeOK, NEW part \in Parts, NEW timestamp \in Timestamps,
           Count(part, timestamp)
    PROVE  /\ last' = timestamp /\ last' # Unset
           /\ copies' \in [Parts -> 0 .. MaxRepeat]
           /\ copies'[part] > 0
<1>1. copies \in [Parts -> 0 .. MaxRepeat]
  BY DEF TypeOK
<1>2. last' = timestamp /\ last' # Unset
  BY Sizes DEF Count
<1>3. CASE timestamp = last
  <2>1. copies' = [copies EXCEPT ![part] = @ + 1] /\ copies[part] < MaxRepeat
    BY <1>3 DEF Count
  <2>2. copies[part] \in 0 .. MaxRepeat /\ copies[part] + 1 \in 0 .. MaxRepeat
    BY <1>1, <2>1, Sizes
  <2>3. QED
    BY <1>1, <1>2, <2>1, <2>2
<1>4. CASE timestamp # last
  <2>1. copies' = [p \in Parts |-> IF p = part THEN 1 ELSE 0]
    BY <1>4 DEF Count
  <2>2. QED
    BY <1>2, <2>1, Sizes
<1>5. QED
  BY <1>3, <1>4

(* A capture with the current frame's timestamp that does not change its size *)
(* otherwise keeps the size equal to the copies' bytes.                       *)
LEMMA CountSame ==
    ASSUME TypeOK, SizeCounts, NEW part \in Parts, NEW timestamp \in Timestamps,
           Count(part, timestamp), timestamp = current_timestamp
    PROVE  /\ last = timestamp
           /\ copies' = [copies EXCEPT ![part] = @ + 1]
           /\ Bytes(copies') = current_frame_stored_size + part_bytes[part]
<1>1. last = timestamp /\ last # Unset
  BY Sizes DEF SizeCounts
<1>2. copies' = [copies EXCEPT ![part] = @ + 1]
  BY <1>1 DEF Count
<1>3. current_frame_stored_size = Bytes(copies)
  BY <1>1 DEF SizeCounts
<1>4. copies \in [Parts -> Nat]
  BY DEF TypeOK
<1>5. Bytes([copies EXCEPT ![part] = @ + 1]) = Bytes(copies) + part_bytes[part]
  BY <1>4, BytesOneMore
<1>6. QED
  BY <1>1, <1>2, <1>3, <1>5

(* What completing a frame means for the copies: one of each part, and the     *)
(* other parts are in the frame already.                                      *)
LEMMA CompleteOnce ==
    ASSUME IInv, NEW part \in Parts, NEW timestamp \in Timestamps,
           Count(part, timestamp), Complete(part, timestamp)
    PROVE  /\ timestamp = last /\ timestamp = current_timestamp
           /\ \A p \in Parts : copies'[p] = 1
           /\ Bytes(copies') = frame_size
           /\ \A p \in Parts \ {part} : content[current_frame][p] = timestamp
<1>1. timestamp = current_timestamp
        /\ current_frame_stored_size + part_bytes[part] = frame_size
  BY DEF Complete
<1>2. TypeOK /\ SizeCounts /\ Gathering
  BY DEF IInv
<1>3. /\ last = timestamp
      /\ copies' = [copies EXCEPT ![part] = @ + 1]
      /\ Bytes(copies') = frame_size
  BY <1>1, <1>2, CountSame
<1>4. \A p \in Parts : copies'[p] = 1
  BY <1>2, <1>3, CountType, FrameSizeOnce
<1>5. copies \in [Parts -> Nat]
  BY <1>2 DEF TypeOK
<1>6. copies[part] = 0 /\ \A p \in Parts \ {part} : copies[p] = 1
  <2>1. copies'[part] = copies[part] + 1
    BY <1>3, <1>5
  <2>2. \A p \in Parts \ {part} : copies'[p] = copies[p]
    BY <1>3, <1>5
  <2>3. copies[part] \in Nat
    BY <1>5
  <2>4. QED
    BY <1>4, <2>1, <2>2, <2>3
<1>7. \A p \in Parts : copies[p] > 0 => content[current_frame][p] = last
  BY <1>2, <1>6 DEF Gathering
<1>8. QED
  BY <1>1, <1>3, <1>4, <1>6, <1>7

-----------------------------------------------------------------------------
(* Writing to the current frame. *)

LEMMA Written ==
    ASSUME TypeOK, NEW part \in Parts, NEW timestamp \in Timestamps,
           \/ content' = [content EXCEPT ![current_frame][part] = timestamp]
           \/ content' = [content EXCEPT ![current_frame]["timestamp"] = timestamp,
                                         ![current_frame][part] = timestamp]
    PROVE  /\ content' \in [Chunks -> [Fields -> Timestamps \cup {Unset}]]
           /\ \A c \in Chunks \ {current_frame} : content'[c] = content[c]
           /\ content'[current_frame][part] = timestamp
           /\ \A p \in Parts \ {part} :
                  content'[current_frame][p] = content[current_frame][p]
           /\ content'[current_frame]["timestamp"]
                  \in {timestamp, content[current_frame]["timestamp"]}
<1>1. /\ content \in [Chunks -> [Fields -> Timestamps \cup {Unset}]]
      /\ current_frame \in Chunks
      /\ part \in Fields /\ "timestamp" \in Fields /\ part # "timestamp"
      /\ \A p \in Parts : p \in Fields /\ p # "timestamp"
  BY DEF TypeOK, Fields, Parts
<1>2. content[current_frame] \in [Fields -> Timestamps \cup {Unset}]
  BY <1>1
<1>3. CASE content' = [content EXCEPT ![current_frame][part] = timestamp]
  BY <1>1, <1>2, <1>3
<1>4. CASE content' = [content EXCEPT ![current_frame]["timestamp"] = timestamp,
                                     ![current_frame][part] = timestamp]
  <2> DEFINE old == content[current_frame]
             new == [[old EXCEPT !["timestamp"] = timestamp]
                        EXCEPT ![part] = timestamp]
  <2>1. content' = [content EXCEPT ![current_frame] = new]
    BY <1>1, <1>2, <1>4
  <2>2. /\ new \in [Fields -> Timestamps \cup {Unset}]
        /\ new[part] = timestamp
        /\ \A p \in Parts \ {part} : new[p] = old[p]
        /\ new["timestamp"] = timestamp
    BY <1>1, <1>2
  <2> HIDE DEF new
  <2>3. QED
    BY <1>1, <2>1, <2>2
<1>5. QED
  BY <1>3, <1>4

(* Frames handed out are not the current one: they survive such a write. *)
LEMMA CurrentWritten ==
    ASSUME IInv,
           \A id \in handed : frames'[id + 1] = frames[id + 1],
           current_frame' = current_frame, handed' = handed,
           held' = held, open' = open,
           \A c \in Chunks \ {current_frame} : content'[c] = content[c]
    PROVE  /\ WholeFrames' /\ HandedPrivate' /\ NothingLost'
           /\ open' => current_frame' \in held'
           /\ \A id \in handed' : Frame(id)' # Null
<1>1. TypeOK /\ WholeFrames /\ HandedPrivate /\ NothingLost
        /\ (open => current_frame \in held)
        /\ \A id \in handed : Frame(id) # Null
  BY DEF IInv
<1>2. \A id \in handed : Frame(id)' = Frame(id)
  BY DEF Frame
<1>3. \A id \in handed : Frame(id) \in Chunks \ {current_frame}
  BY <1>1 DEF HandedPrivate, TypeOK
<1>4. \A id \in handed : content'[Frame(id)] = content[Frame(id)]
  BY <1>3
<1>5. WholeFrames'
  BY <1>1, <1>2, <1>4 DEF WholeFrames
<1>6. HandedPrivate'
  BY <1>1, <1>2 DEF HandedPrivate
<1>7. NothingLost'
  BY <1>1, <1>2 DEF NothingLost
<1>8. QED
  BY <1>1, <1>2, <1>5, <1>6, <1>7

LEMMA StartFrameIInv ==
    ASSUME IInv, open, NEW part \in Parts, NEW timestamp \in Timestamps,
           Count(part, timestamp), StartFrame(part, timestamp)
    PROVE  IInv'
<1>1. /\ timestamp # current_timestamp
      /\ current_frame_stored_size' = part_bytes[part] + TimestampBytes
      /\ status' = "NO_ERROR" /\ frame_id' = -1
      /\ spare' = spare /\ held' = held /\ strayed' = strayed /\ open' = open
      /\ frames' = frames /\ current_frame' = current_frame
      /\ frame_count' = frame_count /\ handed' = handed
      /\ content' = [content EXCEPT ![current_frame]["timestamp"] = timestamp,
                                    ![current_frame][part] = timestamp]
  BY DEF StartFrame, poolVars, invalid_frame_id
<1>2. TypeOK /\ SizeCounts
  BY DEF IInv
<1>3. /\ content' \in [Chunks -> [Fields -> Timestamps \cup {Unset}]]
      /\ \A c \in Chunks \ {current_frame} : content'[c] = content[c]
      /\ content'[current_frame][part] = timestamp
  BY <1>1, <1>2, Written
<1>4. content'[current_frame]["timestamp"] = timestamp
  <2>1. /\ content \in [Chunks -> [Fields -> Timestamps \cup {Unset}]]
        /\ current_frame \in Chunks
        /\ "timestamp" \in Fields /\ part # "timestamp" /\ part \in Fields
    BY <1>2 DEF TypeOK, Fields, Parts
  <2>2. content[current_frame] \in [Fields -> Timestamps \cup {Unset}]
    BY <2>1
  <2>3. QED
    BY <1>1, <2>1, <2>2
<1>5. /\ last' = timestamp /\ last' # Unset
      /\ copies' \in [Parts -> 0 .. MaxRepeat]
      /\ copies' = [p \in Parts |-> IF p = part THEN 1 ELSE 0]
  <2>1. timestamp # last
    BY <1>1, <1>2 DEF SizeCounts
  <2>2. QED
    BY <1>2, <2>1, CountType DEF Count
<1>6. SizeCounts'
  <2>1. current_frame_stored_size' = Bytes(copies')
    BY <1>1, <1>5, BytesFirst
  <2>2. current_timestamp' = last'
    BY <1>1, <1>4, <1>5 DEF current_timestamp
  <2>3. Bytes(copies)' = Bytes(copies')
    BY DEF Bytes
  <2>4. QED
    BY <1>5, <2>1, <2>2, <2>3 DEF SizeCounts
<1>7. Gathering'
  BY <1>1, <1>3, <1>5 DEF Gathering
<1>8. TypeOK'
  <2>1. current_frame_stored_size' \in Nat
    <3>1. part_bytes[part] \in Nat
      BY Sizes, PartBytes DEF Parts
    <3>2. QED
      BY <1>1, <3>1, Sizes
  <2>2. QED
    BY <1>1, <1>2, <1>3, <1>5, <2>1 DEF TypeOK, Ids
<1>9. /\ WholeFrames' /\ HandedPrivate' /\ NothingLost'
      /\ open' => current_frame' \in held'
      /\ \A id \in handed' : Frame(id)' # Null
  BY <1>1, <1>3, CurrentWritten
<1>10. (spare \cap held)' = {}
  BY <1>1 DEF IInv
<1>11. QED
  BY <1>6, <1>7, <1>8, <1>9, <1>10 DEF IInv

(* Writing a part leaves the frame's timestamp. *)
LEMMA TimestampKept ==
    ASSUME TypeOK, NEW part \in Parts, NEW timestamp,
           content' = [content EXCEPT ![current_frame][part] = timestamp]
    PROVE  content'[current_frame]["timestamp"] = current_timestamp
<1>1. /\ content \in [Chunks -> [Fields -> Timestamps \cup {Unset}]]
      /\ current_frame \in Chunks
      /\ part \in Fields /\ "timestamp" \in Fields /\ part # "timestamp"
  BY DEF TypeOK, Fields, Parts
<1>2. content[current_frame] \in [Fields -> Timestamps \cup {Unset}]
  BY <1>1
<1>3. QED
  BY <1>1, <1>2 DEF current_timestamp

LEMMA AddToFrameIInv ==
    ASSUME IInv, open, NEW part \in Parts, NEW timestamp \in Timestamps,
           Count(part, timestamp), AddToFrame(part, timestamp)
    PROVE  IInv'
<1>1. /\ timestamp = current_timestamp
      /\ current_frame_stored_size' = current_frame_stored_size + part_bytes[part]
      /\ status' = "NO_ERROR" /\ frame_id' = -1
      /\ spare' = spare /\ held' = held /\ strayed' = strayed /\ open' = open
      /\ frames' = frames /\ current_frame' = current_frame
      /\ frame_count' = frame_count /\ handed' = handed
      /\ content' = [content EXCEPT ![current_frame][part] = timestamp]
  BY DEF AddToFrame, poolVars, invalid_frame_id
<1>2. TypeOK /\ SizeCounts /\ Gathering
  BY DEF IInv
<1>3. /\ content' \in [Chunks -> [Fields -> Timestamps \cup {Unset}]]
      /\ \A c \in Chunks \ {current_frame} : content'[c] = content[c]
      /\ content'[current_frame][part] = timestamp
      /\ \A p \in Parts \ {part} :
             content'[current_frame][p] = content[current_frame][p]
  BY <1>1, <1>2, Written
<1>4. content'[current_frame]["timestamp"] = timestamp
  BY <1>1, <1>2, TimestampKept
<1>5. /\ last' = timestamp /\ last' # Unset
      /\ copies' \in [Parts -> 0 .. MaxRepeat] /\ copies'[part] > 0
  BY <1>2, CountType
<1>6. /\ last = timestamp
      /\ copies' = [copies EXCEPT ![part] = @ + 1]
      /\ Bytes(copies') = current_frame_stored_size + part_bytes[part]
  BY <1>1, <1>2, CountSame
<1>7. SizeCounts'
  <2>1. current_timestamp' = last'
    BY <1>1, <1>4, <1>5 DEF current_timestamp
  <2>2. Bytes(copies)' = Bytes(copies')
    BY DEF Bytes
  <2>3. QED
    BY <1>1, <1>5, <1>6, <2>1, <2>2 DEF SizeCounts
<1>8. Gathering'
  <2>1. \A p \in Parts \ {part} : copies'[p] = copies[p]
    BY <1>2, <1>6 DEF TypeOK
  <2>2. CASE \A p \in Parts : copies[p] > 0 => content[current_frame][p] = last
    <3>1. \A p \in Parts : copies'[p] > 0 => content'[current_frame][p] = last'
      BY <1>3, <1>5, <1>6, <2>1, <2>2
    <3>2. QED
      BY <1>1, <3>1 DEF Gathering
  <2>3. CASE \A p \in Parts : copies[p] > 0
    <3>1. \A p \in Parts : copies'[p] > 0
      BY <1>5, <2>1, <2>3
    <3>2. QED
      BY <3>1 DEF Gathering
  <2>4. QED
    BY <1>2, <2>2, <2>3 DEF Gathering
<1>9. TypeOK'
  <2>1. current_frame_stored_size' \in Nat
    <3>1. part_bytes[part] \in Nat
      BY Sizes, PartBytes DEF Parts
    <3>2. QED
      BY <1>1, <1>2, <3>1 DEF TypeOK
  <2>2. QED
    BY <1>1, <1>2, <1>3, <1>5, <2>1 DEF TypeOK, Ids
<1>10. /\ WholeFrames' /\ HandedPrivate' /\ NothingLost'
       /\ open' => current_frame' \in held'
       /\ \A id \in handed' : Frame(id)' # Null
  BY <1>1, <1>3, CurrentWritten
<1>11. (spare \cap held)' = {}
  BY <1>1 DEF IInv
<1>12. QED
  BY <1>7, <1>8, <1>9, <1>10, <1>11 DEF IInv

(* The last part of a frame: whatever becomes of the frame, the size still     *)
(* counts the copies.                                                         *)
LEMMA CompleteCounts ==
    ASSUME IInv, NEW part \in Parts, NEW timestamp \in Timestamps,
           Count(part, timestamp), Complete(part, timestamp),
           current_timestamp' = timestamp
    PROVE  /\ SizeCounts' /\ Gathering'
           /\ current_frame_stored_size' \in Nat /\ frame_id' \in Int
           /\ last' \in Timestamps
           /\ copies' \in [Parts -> 0 .. MaxRepeat]
<1>1. TypeOK
  BY DEF IInv
<1>2. /\ \A p \in Parts : copies'[p] = 1
      /\ Bytes(copies') = frame_size
  BY CompleteOnce
<1>3. /\ last' = timestamp /\ last' # Unset
      /\ copies' \in [Parts -> 0 .. MaxRepeat]
  BY <1>1, CountType
<1>4. current_frame_stored_size' = frame_size /\ frame_id' = Len(frames)
  BY DEF Complete
<1>5. frame_size \in Nat
  BY Sizes DEF frame_size
<1>6. Gathering'
  BY <1>2 DEF Gathering
<1>7. SizeCounts'
  <2>1. Bytes(copies)' = Bytes(copies')
    BY DEF Bytes
  <2>2. QED
    BY <1>2, <1>3, <1>4, <2>1 DEF SizeCounts
<1>8. QED
  BY <1>1, <1>3, <1>4, <1>5, <1>6, <1>7 DEF TypeOK

LEMMA StoreFailsIInv ==
    ASSUME IInv, open, NEW part \in Parts, NEW timestamp \in Timestamps,
           Count(part, timestamp), StoreFails(part, timestamp)
    PROVE  IInv'
<1>1. /\ Complete(part, timestamp)
      /\ status' = "ERR_FAILED_ALLOC"
      /\ spare' = spare /\ held' = held /\ strayed' = strayed /\ open' = open
      /\ frames' = frames /\ current_frame' = current_frame
      /\ frame_count' = frame_count /\ handed' = handed
      /\ content' = [content EXCEPT ![current_frame][part] = timestamp]
  BY DEF StoreFails, poolVars
<1>2. TypeOK
  BY DEF IInv
<1>3. /\ content' \in [Chunks -> [Fields -> Timestamps \cup {Unset}]]
      /\ \A c \in Chunks \ {current_frame} : content'[c] = content[c]
  BY <1>1, <1>2, Written
<1>4. current_timestamp' = timestamp
  <2>1. content'[current_frame]["timestamp"] = timestamp
    BY <1>1, <1>2, TimestampKept DEF Complete
  <2>2. QED
    BY <1>1, <2>1 DEF current_timestamp
<1>5. /\ SizeCounts' /\ Gathering'
      /\ current_frame_stored_size' \in Nat /\ frame_id' \in Int
      /\ last' \in Timestamps
      /\ copies' \in [Parts -> 0 .. MaxRepeat]
  BY <1>1, <1>4, CompleteCounts
<1>6. TypeOK'
  BY <1>1, <1>2, <1>3, <1>5 DEF TypeOK, Ids
<1>7. /\ WholeFrames' /\ HandedPrivate' /\ NothingLost'
      /\ open' => current_frame' \in held'
      /\ \A id \in handed' : Frame(id)' # Null
  BY <1>1, <1>3, CurrentWritten
<1>8. (spare \cap held)' = {}
  BY <1>1 DEF IInv
<1>9. QED
  BY <1>5, <1>6, <1>7, <1>8 DEF IInv

(* Appending a frame gives it the next id and moves no other. *)
LEMMA Appended ==
    ASSUME TypeOK, frames' = Append(frames, current_frame),
           NEW CONSTANT new, new = Len(frames)
    PROVE  /\ frames' \in Seq(Chunks \cup {Null})
           /\ Len(frames) \in Nat /\ Len(frames') = Len(frames) + 1
           /\ \A id \in handed : id # new /\ Frame(id)' = Frame(id)
           /\ Frame(new)' = current_frame
           /\ new \in Ids' /\ Ids \subseteq Ids'
<1>1. /\ frames \in Seq(Chunks \cup {Null}) /\ current_frame \in Chunks
      /\ handed \subseteq 0 .. Len(frames) - 1
  BY DEF TypeOK, Ids
<1>2. /\ frames' \in Seq(Chunks \cup {Null})
      /\ Len(frames) \in Nat /\ Len(frames') = Len(frames) + 1
      /\ \A i \in 1 .. Len(frames) : frames'[i] = frames[i]
      /\ frames'[Len(frames) + 1] = current_frame
  BY <1>1
<1>3. \A id \in handed : id # new /\ id + 1 \in 1 .. Len(frames)
  BY <1>1, <1>2
<1>4. /\ \A id \in handed : id # new /\ Frame(id)' = Frame(id)
      /\ Frame(new)' = current_frame
  BY <1>2, <1>3 DEF Frame
<1>5. new \in Ids' /\ Ids \subseteq Ids'
  BY <1>2 DEF Ids
<1>6. QED
  BY <1>2, <1>4, <1>5

LEMMA StoreClaimFailsIInv ==
    ASSUME IInv, open, NEW part \in Parts, NEW timestamp \in Timestamps,
           Count(part, timestamp), StoreClaimFails(part, timestamp)
    PROVE  IInv'
<1>1. /\ Complete(part, timestamp)
      /\ status' \in {"ERR_EMPTY", "ERR_FAILED_ALLOC"}
      /\ spare' \subseteq spare /\ strayed' \in SUBSET (strayed \cup spare)
      /\ held' = held /\ open' = open
      /\ frames' = Append(frames, current_frame)
      /\ frame_count' = frame_count + 1
      /\ current_frame' = current_frame /\ handed' = handed
      /\ content' = [content EXCEPT ![current_frame][part] = timestamp]
  BY DEF StoreClaimFails, poolVars
<1>2. TypeOK
  BY DEF IInv
<1>3. /\ content' \in [Chunks -> [Fields -> Timestamps \cup {Unset}]]
      /\ \A c \in Chunks \ {current_frame} : content'[c] = content[c]
  BY <1>1, <1>2, Written
<1>4. current_timestamp' = timestamp
  <2>1. content'[current_frame]["timestamp"] = timestamp
    BY <1>1, <1>2, TimestampKept DEF Complete
  <2>2. QED
    BY <1>1, <2>1 DEF current_timestamp
<1>5. /\ SizeCounts' /\ Gathering'
      /\ current_frame_stored_size' \in Nat /\ frame_id' \in Int
      /\ last' \in Timestamps
      /\ copies' \in [Parts -> 0 .. MaxRepeat]
  BY <1>1, <1>4, CompleteCounts
<1>6. /\ frames' \in Seq(Chunks \cup {Null})
      /\ \A id \in handed : Frame(id)' = Frame(id)
      /\ Ids \subseteq Ids'
  BY <1>1, <1>2, Appended
<1>7. TypeOK'
  BY <1>1, <1>2, <1>3, <1>5, <1>6 DEF TypeOK
<1>8. /\ WholeFrames' /\ HandedPrivate' /\ NothingLost'
      /\ open' => current_frame' \in held'
      /\ \A id \in handed' : Frame(id)' # Null
  <2>1. \A id \in handed : frames'[id + 1] = frames[id + 1]
    BY <1>6 DEF Frame
  <2>2. QED
    BY <1>1, <1>3, <2>1, CurrentWritten
<1>9. (spare \cap held)' = {}
  BY <1>1 DEF IInv
<1>10. QED
  BY <1>5, <1>7, <1>8, <1>9 DEF IInv

(* What storing a frame does to the contents: the stored chunk becomes whole,   *)
(* the new one gets the timestamp, and no frame handed out is touched.         *)
LEMMA Stored ==
    ASSUME IInv, open, NEW part \in Parts, NEW timestamp \in Timestamps,
           Count(part, timestamp), Complete(part, timestamp), NEW c \in spare,
           content' = [content EXCEPT ![current_frame][part] = timestamp,
                           ![c] = [Cleared EXCEPT !["timestamp"] = timestamp]]
    PROVE  /\ c # current_frame /\ \A id \in handed : Frame(id) # c
           /\ content' \in [Chunks -> [Fields -> Timestamps \cup {Unset}]]
           /\ content'[c]["timestamp"] = timestamp
           /\ content'[current_frame]["timestamp"] = timestamp
           /\ \A p \in Parts : content'[current_frame][p] = timestamp
           /\ \A id \in handed : content'[Frame(id)] = content[Frame(id)]
<1>1. /\ content \in [Chunks -> [Fields -> Timestamps \cup {Unset}]]
      /\ current_frame \in Chunks /\ c \in Chunks
      /\ part \in Fields /\ "timestamp" \in Fields /\ part # "timestamp"
      /\ \A p \in Parts : p \in Fields
  BY DEF IInv, TypeOK, Fields, Parts
<1>2. c # current_frame /\ c \notin held
  BY DEF IInv
<1>3. \A id \in handed : Frame(id) \in Chunks \ {c, current_frame}
  BY <1>1, <1>2 DEF IInv, HandedPrivate, TypeOK
<1> DEFINE old == content[current_frame]
           new == [old EXCEPT ![part] = timestamp]
           fresh == [Cleared EXCEPT !["timestamp"] = timestamp]
<1>4. /\ old \in [Fields -> Timestamps \cup {Unset}]
      /\ old["timestamp"] = timestamp
      /\ \A p \in Parts \ {part} : old[p] = timestamp
  BY <1>1, CompleteOnce DEF current_timestamp
<1>5. /\ new \in [Fields -> Timestamps \cup {Unset}]
      /\ new["timestamp"] = timestamp
      /\ \A p \in Parts : new[p] = timestamp
  BY <1>1, <1>4
<1>6. fresh \in [Fields -> Timestamps \cup {Unset}] /\ fresh["timestamp"] = timestamp
  BY <1>1 DEF Cleared
<1>7. content' = [[content EXCEPT ![current_frame] = new] EXCEPT ![c] = fresh]
  OBVIOUS
<1> HIDE DEF new, fresh
<1>8. /\ content' \in [Chunks -> [Fields -> Timestamps \cup {Unset}]]
      /\ content'[c] = fresh /\ content'[current_frame] = new
      /\ \A x \in Chunks \ {c, current_frame} : content'[x] = content[x]
  BY <1>1, <1>2, <1>5, <1>6, <1>7
<1>9. QED
  BY <1>2, <1>3, <1>5, <1>6, <1>8

LEMMA StoreFrameIInv ==
    ASSUME IInv, open, NEW part \in Parts, NEW timestamp \in Timestamps,
           Count(part, timestamp), StoreFrame(part, timestamp)
    PROVE  IInv'
<1> PICK new : new = Len(frames)
  OBVIOUS
<1>1. /\ Complete(part, timestamp)
      /\ status' = "NO_ERROR"
      /\ frames' = Append(frames, current_frame)
      /\ frame_count' = frame_count + 1
      /\ handed' = handed \cup {new}
  BY DEF StoreFrame
<1>2. PICK c \in spare :
        /\ Pool!Acquire(c) /\ current_frame' = c
        /\ content' = [content EXCEPT ![current_frame][part] = timestamp,
                           ![c] = [Cleared EXCEPT !["timestamp"] = timestamp]]
  BY DEF StoreFrame
<1>3. /\ spare' = spare \ {c} /\ held' = held \cup {c}
      /\ strayed' = strayed /\ open' = open
  BY <1>2 DEF Pool!Acquire
<1>4. /\ TypeOK /\ WholeFrames /\ HandedPrivate /\ NothingLost
      /\ spare \cap held = {} /\ current_frame \in held
      /\ \A id \in handed : Frame(id) # Null
      /\ current_frame \in Chunks /\ c \in Chunks /\ c \notin held
  BY DEF IInv, TypeOK
<1>5. /\ c # current_frame /\ \A id \in handed : Frame(id) # c
      /\ content' \in [Chunks -> [Fields -> Timestamps \cup {Unset}]]
      /\ content'[c]["timestamp"] = timestamp
      /\ content'[current_frame]["timestamp"] = timestamp
      /\ \A p \in Parts : content'[current_frame][p] = timestamp
      /\ \A id \in handed : content'[Frame(id)] = content[Frame(id)]
  BY <1>1, <1>2, Stored
<1>6. /\ frames' \in Seq(Chunks \cup {Null})
      /\ \A id \in handed : id # new /\ Frame(id)' = Frame(id)
      /\ Frame(new)' = current_frame
      /\ new \in Ids' /\ Ids \subseteq Ids'
  BY <1>1, <1>4, Appended
<1>7. /\ SizeCounts' /\ Gathering'
      /\ current_frame_stored_size' \in Nat /\ frame_id' \in Int
      /\ last' \in Timestamps
      /\ copies' \in [Parts -> 0 .. MaxRepeat]
  <2>1. current_timestamp' = timestamp
    BY <1>2, <1>5 DEF current_timestamp
  <2>2. QED
    BY <1>1, <2>1, CompleteCounts
<1>8. TypeOK'
  <2>1. /\ spare' \in SUBSET Chunks /\ held' \in SUBSET Chunks
        /\ strayed' \in SUBSET Chunks /\ open' \in BOOLEAN
        /\ current_frame' \in Chunks /\ frame_count' \in Int
        /\ handed' \in SUBSET Ids'
    BY <1>1, <1>2, <1>3, <1>4, <1>6 DEF TypeOK
  <2>2. QED
    BY <1>1, <1>5, <1>6, <1>7, <2>1 DEF TypeOK
<1>9. WholeFrames'
  <2>1. timestamp # Unset
    BY Sizes
  <2>2. ASSUME NEW id \in handed
        PROVE  /\ content'[Frame(id)']["timestamp"] # Unset
               /\ \A p \in Parts : content'[Frame(id)'][p]
                                    = content'[Frame(id)']["timestamp"]
    BY <1>4, <1>5, <1>6 DEF WholeFrames
  <2>3. /\ content'[Frame(new)']["timestamp"] # Unset
        /\ \A p \in Parts : content'[Frame(new)'][p]
                             = content'[Frame(new)']["timestamp"]
    BY <1>5, <1>6, <2>1
  <2>4. QED
    BY <1>1, <2>2, <2>3 DEF WholeFrames
<1>10. HandedPrivate'
  <2>1. \A id \in handed : Frame(id) \in held \ {current_frame}
    BY <1>4 DEF HandedPrivate
  <2>2. \A id \in handed' : Frame(id)' \in held' \ {current_frame'}
    BY <1>1, <1>2, <1>3, <1>4, <1>5, <1>6, <2>1
  <2>3. \A id, other \in handed' : Frame(id)' = Frame(other)' => id = other
    BY <1>1, <1>4, <1>6, <2>1 DEF HandedPrivate
  <2>4. QED
    BY <2>2, <2>3 DEF HandedPrivate
<1>11. NothingLost'
  <2>1. held = {current_frame} \cup {Frame(id) : id \in handed}
    BY <1>4 DEF NothingLost
  <2>2. {Frame(id)' : id \in handed'} = {current_frame} \cup {Frame(id) : id \in handed}
    BY <1>1, <1>6
  <2>3. held' = {current_frame'} \cup {Frame(id)' : id \in handed'}
    BY <1>2, <1>3, <2>1, <2>2
  <2>4. QED
    BY <2>3 DEF NothingLost
<1>12. /\ (spare \cap held)' = {} /\ current_frame' \in held'
       /\ \A id \in handed' : Frame(id)' # Null
  BY <1>1, <1>2, <1>3, <1>4, <1>6, Sizes
<1>13. QED
  BY <1>7, <1>8, <1>9, <1>10, <1>11, <1>12 DEF IInv

LEMMA CaptureIInv == IInv /\ Capture => IInv'
<1> SUFFICES ASSUME IInv, open, NEW part \in Parts, NEW timestamp \in Timestamps,
                    CaptureData(part, timestamp)
             PROVE  IInv'
  BY DEF Capture, CaptureData
<1>1. Count(part, timestamp)
  BY DEF CaptureData
<1>2. QED
  BY <1>1, StartFrameIInv, AddToFrameIInv, StoreFailsIInv,
     StoreClaimFailsIInv, StoreFrameIInv DEF CaptureData

-----------------------------------------------------------------------------
(* Removing frames, the generator and the release. *)

(* The two kinds of remove: of a frame handed out, which its owner still has,   *)
(* and with the id that is none.                                             *)
LEMMA RemoveCases ==
    ASSUME IInv, NEW id \in handed \cup {invalid_frame_id}, RemoveFrame(id)
    PROVE  /\ open' = open /\ strayed' = strayed
           /\ content' = content /\ current_frame' = current_frame
           /\ current_frame_stored_size' = current_frame_stored_size
           /\ frame_id' = frame_id /\ last' = last /\ copies' = copies
           /\ frame_count' \in Int
           /\ handed' = handed \ {id}
           /\ status' \in {"NO_ERROR", "ERR_RANGE_ERROR"}
           /\ \/ /\ id \in handed
                 /\ held' = held \ {Frame(id)} /\ spare' = spare \cup {Frame(id)}
                 /\ frames' = [frames EXCEPT ![id + 1] = Null]
              \/ /\ id \notin Ids /\ id \notin handed
                 /\ spare' = spare /\ held' = held
                 /\ frames' = frames
<1>1. TypeOK /\ HandedPrivate
  BY DEF IInv
<1>2. invalid_frame_id \notin Ids /\ handed \subseteq Ids
  BY <1>1 DEF TypeOK, Ids, invalid_frame_id
<1>3. /\ content' = content /\ current_frame' = current_frame
      /\ current_frame_stored_size' = current_frame_stored_size
      /\ frame_id' = frame_id /\ last' = last /\ copies' = copies
      /\ handed' = handed \ {id}
  BY DEF RemoveFrame
<1>4. CASE id \in handed
  <2>1. id \in Ids /\ Frame(id) \in held
    BY <1>1, <1>2, <1>4 DEF HandedPrivate
  <2>2. frame_count' = frame_count - 1 /\ RemoveHeld(id)
    BY <2>1 DEF RemoveFrame, RemoveFails
  <2>3. QED
    BY <1>1, <1>3, <1>4, <2>2 DEF RemoveHeld, Pool!Return, TypeOK
<1>5. CASE id \notin handed
  <2>1. id \notin Ids
    BY <1>2, <1>5
  <2>2. status' = "ERR_RANGE_ERROR" /\ UNCHANGED <<poolVars, frames, frame_count>>
    BY <2>1 DEF RemoveFrame
  <2>3. QED
    BY <1>1, <1>3, <1>5, <2>1, <2>2 DEF poolVars, TypeOK
<1>6. QED
  BY <1>4, <1>5

(* Emptying a slot leaves the others. *)
LEMMA Emptied ==
    ASSUME TypeOK, NEW id \in handed,
           frames' = [frames EXCEPT ![id + 1] = Null]
    PROVE  /\ frames' \in Seq(Chunks \cup {Null}) /\ Ids' = Ids
           /\ \A other \in handed \ {id} : Frame(other)' = Frame(other)
<1>1. frames \in Seq(Chunks \cup {Null}) /\ handed \subseteq 0 .. Len(frames) - 1
  BY DEF TypeOK, Ids
<1>2. /\ frames' \in Seq(Chunks \cup {Null}) /\ Len(frames') = Len(frames)
      /\ \A i \in 1 .. Len(frames) : i # id + 1 => frames'[i] = frames[i]
  BY <1>1
<1>3. \A other \in handed \ {id} :
         other + 1 \in 1 .. Len(frames) /\ other + 1 # id + 1
  BY <1>1
<1>4. QED
  BY <1>2, <1>3 DEF Ids, Frame

LEMMA RemoveIInv == IInv /\ Remove => IInv'
<1> SUFFICES ASSUME IInv, NEW id \in handed \cup {invalid_frame_id}, RemoveFrame(id)
             PROVE  IInv'
  BY DEF Remove
<1>1. /\ TypeOK /\ SizeCounts /\ Gathering
      /\ WholeFrames /\ HandedPrivate /\ NothingLost
      /\ spare \cap held = {} /\ (open => current_frame \in held)
      /\ \A other \in handed : Frame(other) # Null
  BY DEF IInv
<1>2. /\ open' = open /\ strayed' = strayed
      /\ content' = content /\ current_frame' = current_frame
      /\ current_frame_stored_size' = current_frame_stored_size
      /\ frame_id' = frame_id /\ last' = last /\ copies' = copies
      /\ frame_count' \in Int
      /\ handed' = handed \ {id}
      /\ status' \in {"NO_ERROR", "ERR_RANGE_ERROR"}
  BY RemoveCases
<1>3. SizeCounts' /\ Gathering'
  BY <1>1, <1>2 DEF SizeCounts, Gathering, Bytes, current_timestamp
<1>4. CASE id \in handed
  <2>1. /\ held' = held \ {Frame(id)} /\ spare' = spare \cup {Frame(id)}
        /\ frames' = [frames EXCEPT ![id + 1] = Null]
    BY <1>4, RemoveCases
  <2>2. /\ frames' \in Seq(Chunks \cup {Null}) /\ Ids' = Ids
        /\ \A other \in handed \ {id} : Frame(other)' = Frame(other)
    BY <1>1, <1>4, <2>1, Emptied
  <2>3. /\ Frame(id) \in held \ {current_frame}
        /\ \A other \in handed \ {id} : Frame(other) # Frame(id)
    BY <1>1, <1>4 DEF HandedPrivate
  <2>4. TypeOK'
    BY <1>1, <1>2, <2>1, <2>2, <2>3 DEF TypeOK
  <2>5. WholeFrames'
    BY <1>1, <1>2, <2>2 DEF WholeFrames
  <2>6. HandedPrivate'
    BY <1>1, <1>2, <2>1, <2>2, <2>3 DEF HandedPrivate
  <2>7. NothingLost'
    <3> SUFFICES ASSUME open'
                 PROVE  held' = {current_frame'} \cup {Frame(other)' : other \in handed'}
      BY DEF NothingLost
    <3>1. held = {current_frame} \cup {Frame(other) : other \in handed}
      BY <1>1, <1>2 DEF NothingLost
    <3>2. {Frame(other)' : other \in handed'}
             = {Frame(other) : other \in handed \ {id}}
      BY <1>2, <2>2
    <3>3. held' = {current_frame} \cup {Frame(other) : other \in handed \ {id}}
      BY <1>4, <2>1, <2>3, <3>1
    <3>4. QED
      BY <1>2, <3>2, <3>3
  <2>8. /\ (spare \cap held)' = {} /\ (open' => current_frame' \in held')
        /\ \A other \in handed' : Frame(other)' # Null
    BY <1>1, <1>2, <2>1, <2>2, <2>3
  <2>9. QED
    BY <1>3, <2>4, <2>5, <2>6, <2>7, <2>8 DEF IInv
<1>5. CASE id \notin handed
  <2>1. /\ spare' = spare /\ held' = held /\ frames' = frames /\ handed' = handed
    BY <1>2, <1>5, RemoveCases
  <2>2. TypeOK'
    BY <1>1, <1>2, <2>1 DEF TypeOK, Ids
  <2>3. /\ WholeFrames' /\ HandedPrivate' /\ NothingLost'
        /\ open' => current_frame' \in held'
        /\ \A other \in handed' : Frame(other)' # Null
    BY <1>2, <2>1, CurrentWritten
  <2>4. QED
    BY <1>1, <1>3, <2>1, <2>2, <2>3 DEF IInv
<1>6. QED
  BY <1>4, <1>5

LEMMA SupplyIInv == ASSUME NEW c \in Chunks PROVE IInv /\ Supply(c) => IInv'
<1> SUFFICES ASSUME IInv, Supply(c) PROVE IInv'
  OBVIOUS
<1>1. /\ spare' = spare \cup {c} /\ held' = held /\ strayed' = strayed
      /\ open' = open /\ c \notin held
  BY DEF Supply, Pool!Supply, Pool!Existing
<1>2. UNCHANGED <<content, frames, current_frame, current_frame_stored_size,
                  frame_count, status, frame_id, handed, last, copies>>
  BY DEF Supply, storeVars
<1>3. TypeOK'
  BY <1>1, <1>2 DEF IInv, TypeOK, Ids
<1>4. SizeCounts' /\ Gathering'
  BY <1>2 DEF IInv, SizeCounts, Gathering, Bytes, current_timestamp
<1>5. /\ WholeFrames' /\ HandedPrivate' /\ NothingLost'
      /\ open' => current_frame' \in held'
      /\ \A id \in handed' : Frame(id)' # Null
  BY <1>1, <1>2, CurrentWritten
<1>6. (spare \cap held)' = {}
  BY <1>1 DEF IInv
<1>7. QED
  BY <1>3, <1>4, <1>5, <1>6 DEF IInv

LEMMA ReleaseStoreIInv == IInv /\ ReleaseStore => IInv'
<1> SUFFICES ASSUME IInv, ReleaseStore PROVE IInv'
  OBVIOUS
<1>1. /\ spare' = {} /\ held' = {} /\ strayed' = strayed /\ open' = FALSE
      /\ frames' = <<>> /\ handed' = {}
  BY DEF ReleaseStore, Pool!Close
<1>2. UNCHANGED <<content, current_frame, current_frame_stored_size,
                  frame_count, status, frame_id, last, copies>>
  BY DEF ReleaseStore
<1>3. TypeOK'
  <2>1. frames' \in Seq(Chunks \cup {Null}) /\ handed' \in SUBSET Ids'
    BY <1>1
  <2>2. TypeOK
    BY DEF IInv
  <2>3. /\ spare' \in SUBSET Chunks /\ held' \in SUBSET Chunks
        /\ strayed' \in SUBSET Chunks /\ open' \in BOOLEAN
    BY <1>1, <2>2 DEF TypeOK
  <2>4. QED
    BY <1>2, <2>1, <2>2, <2>3 DEF TypeOK
<1>4. SizeCounts' /\ Gathering'
  BY <1>2 DEF IInv, SizeCounts, Gathering, Bytes, current_timestamp
<1>5. WholeFrames' /\ HandedPrivate' /\ NothingLost'
  BY <1>1 DEF WholeFrames, HandedPrivate, NothingLost
<1>6. QED
  BY <1>1, <1>3, <1>4, <1>5 DEF IInv

LEMMA StutterIInv == IInv /\ UNCHANGED storeAndPool => IInv'
<1> SUFFICES ASSUME IInv, UNCHANGED storeAndPool PROVE IInv'
  OBVIOUS
<1>1. UNCHANGED <<spare, held, strayed, open, content, frames, current_frame,
                  current_frame_stored_size, frame_count, status, frame_id,
                  handed, last, copies>>
  BY DEF storeAndPool, poolVars, storeVars
<1>2. TypeOK'
  BY <1>1 DEF IInv, TypeOK, Ids
<1>3. SizeCounts' /\ Gathering'
  BY <1>1 DEF IInv, SizeCounts, Gathering, Bytes, current_timestamp
<1>4. /\ WholeFrames' /\ HandedPrivate' /\ NothingLost'
      /\ open' => current_frame' \in held'
      /\ \A id \in handed' : Frame(id)' # Null
  BY <1>1, CurrentWritten
<1>5. (spare \cap held)' = {}
  BY <1>1 DEF IInv
<1>6. QED
  BY <1>2, <1>3, <1>4, <1>5 DEF IInv

-----------------------------------------------------------------------------
(* The inductive invariant holds in every state the store reaches, whatever is  *)
(* captured, removed, released or fails.                                      *)
THEOREM StoreInvariant == Spec => []IInv
<1>1. Init => IInv
  BY InitIInv DEF Init
<1>2. IInv /\ [Next]_storeAndPool => IInv'
  BY CaptureIInv, RemoveIInv, SupplyIInv, ReleaseStoreIInv, StutterIInv
     DEF Next, Done
<1>3. QED
  BY <1>1, <1>2, PTL DEF Spec

(* The variables keep their types. *)
THEOREM StoreTypeOK == Spec => []TypeOK
<1>1. IInv => TypeOK
  BY DEF IInv
<1>2. QED
  BY <1>1, StoreInvariant, PTL

(* Every frame handed out holds parts of one timestamp, its own: counting bytes *)
(* tells complete frames (frame_store.c:900-904).                             *)
THEOREM StoreWholeFrames == Spec => []WholeFrames
<1>1. IInv => WholeFrames
  BY DEF IInv
<1>2. QED
  BY <1>1, StoreInvariant, PTL

(* No two ids share a chunk, and the store writes to none that it handed out.  *)
THEOREM StoreHandedPrivate == Spec => []HandedPrivate
<1>1. IInv => HandedPrivate
  BY DEF IInv
<1>2. QED
  BY <1>1, StoreInvariant, PTL

(* The store holds no chunk but the current frame's and those handed out.      *)
THEOREM StoreNothingLost == Spec => []NothingLost
<1>1. IInv => NothingLost
  BY DEF IInv
<1>2. QED
  BY <1>1, StoreInvariant, PTL

-----------------------------------------------------------------------------
(* What one step may do to the frames handed out. *)

Kept == open' => \A id \in handed \cap handed' :
                    /\ frames'[id + 1] = Frame(id)
                    /\ content'[Frame(id)] = content[Frame(id)]

(* A step that leaves all chunks but the current one alone, and the ids. *)
LEMMA OthersKept ==
    ASSUME IInv, content' = content
                   \/ \A c \in Chunks \ {current_frame} : content'[c] = content[c],
           \A id \in handed \cap handed' : frames'[id + 1] = Frame(id)
    PROVE  Kept
<1>1. \A id \in handed : Frame(id) \in Chunks \ {current_frame}
  BY DEF IInv, HandedPrivate, TypeOK
<1>2. QED
  BY <1>1 DEF Kept

LEMMA CaptureKept == IInv /\ Capture => Kept
<1> SUFFICES ASSUME IInv, open, NEW part \in Parts, NEW timestamp \in Timestamps,
                    CaptureData(part, timestamp)
             PROVE  Kept
  BY DEF Capture, CaptureData
<1>1. TypeOK /\ Count(part, timestamp)
  BY DEF IInv, CaptureData
<1>2. CASE StartFrame(part, timestamp) \/ AddToFrame(part, timestamp)
             \/ StoreFails(part, timestamp)
  <2>1. \/ content' = [content EXCEPT ![current_frame][part] = timestamp]
        \/ content' = [content EXCEPT ![current_frame]["timestamp"] = timestamp,
                                      ![current_frame][part] = timestamp]
    BY <1>2 DEF StartFrame, AddToFrame, StoreFails
  <2>2. \A c \in Chunks \ {current_frame} : content'[c] = content[c]
    BY <1>1, <2>1, Written
  <2>3. frames' = frames
    BY <1>2 DEF StartFrame, AddToFrame, StoreFails
  <2>4. QED
    BY <2>2, <2>3, OthersKept DEF Frame
<1>3. CASE StoreClaimFails(part, timestamp)
  <2>1. /\ content' = [content EXCEPT ![current_frame][part] = timestamp]
        /\ frames' = Append(frames, current_frame)
    BY <1>3 DEF StoreClaimFails
  <2>2. \A c \in Chunks \ {current_frame} : content'[c] = content[c]
    BY <1>1, <2>1, Written
  <2>3. \A id \in handed : Frame(id)' = Frame(id)
    BY <1>1, <2>1, Appended
  <2>4. QED
    BY <2>2, <2>3, OthersKept DEF Frame
<1>4. CASE StoreFrame(part, timestamp)
  <2>1. Complete(part, timestamp) /\ frames' = Append(frames, current_frame)
    BY <1>4 DEF StoreFrame
  <2>2. PICK c \in spare :
           content' = [content EXCEPT ![current_frame][part] = timestamp,
                           ![c] = [Cleared EXCEPT !["timestamp"] = timestamp]]
    BY <1>4 DEF StoreFrame
  <2>3. \A id \in handed : content'[Frame(id)] = content[Frame(id)]
    BY <1>1, <2>1, <2>2, Stored
  <2>4. \A id \in handed : Frame(id)' = Frame(id)
    BY <1>1, <2>1, Appended
  <2>5. QED
    BY <2>3, <2>4 DEF Kept, Frame
<1>5. QED
  BY <1>2, <1>3, <1>4 DEF CaptureData

LEMMA RemoveKept == IInv /\ Remove => Kept
<1> SUFFICES ASSUME IInv, NEW id \in handed \cup {invalid_frame_id}, RemoveFrame(id)
             PROVE  Kept
  BY DEF Remove
<1>1. TypeOK /\ content' = content /\ handed' = handed \ {id}
  BY RemoveCases DEF IInv
<1>2. CASE id \in handed
  <2>1. frames' = [frames EXCEPT ![id + 1] = Null]
    BY <1>2, RemoveCases
  <2>2. \A other \in handed \ {id} : Frame(other)' = Frame(other)
    BY <1>1, <1>2, <2>1, Emptied
  <2>3. QED
    BY <1>1, <2>2, OthersKept DEF Frame
<1>3. CASE id \notin handed
  <2>1. frames' = frames
    BY <1>3, RemoveCases
  <2>2. QED
    BY <1>1, <2>1, OthersKept DEF Frame
<1>4. QED
  BY <1>2, <1>3

(* Until its owner removes it, a frame is where and what it was: captures,      *)
(* other removes and the generator leave it alone (frame_store.c:853-857).     *)
THEOREM StoreFramesStable == Spec => FramesStable
<1>1. IInv /\ [Next]_storeAndPool => [Kept]_storeAndPool
  <2> SUFFICES ASSUME IInv, Next PROVE Kept
    OBVIOUS
  <2>1. CASE Capture
    BY <2>1, CaptureKept
  <2>2. CASE Remove
    BY <2>2, RemoveKept
  <2>3. CASE ReleaseStore
    BY <2>3 DEF ReleaseStore, Pool!Close, Kept
  <2>4. CASE Done
    <3>1. content' = content /\ frames' = frames
      BY <2>4 DEF Done, storeAndPool, storeVars
    <3>2. QED
      BY <3>1, OthersKept DEF Frame
  <2>5. CASE \E c \in Chunks : Supply(c)
    <3>1. content' = content /\ frames' = frames
      BY <2>5 DEF Supply, storeVars
    <3>2. QED
      BY <3>1, OthersKept DEF Frame
  <2>6. QED
    BY <2>1, <2>2, <2>3, <2>4, <2>5 DEF Next
<1>2. QED
  BY <1>1, StoreInvariant, PTL DEF Spec, FramesStable, Kept

(* A frame is stored at the one moment its timestamp has been captured once for *)
(* each part, so a timestamp in a row makes no second one                      *)
(* (frame_store.c:900-921).                                                   *)
THEOREM StoreStoresOnce == Spec => StoredOnce
<1> DEFINE Once == Len(frames') > Len(frames) => copies' = [p \in Parts |-> 1]
<1>1. IInv /\ Capture => Once
  <2> SUFFICES ASSUME IInv, NEW part \in Parts, NEW timestamp \in Timestamps,
                      CaptureData(part, timestamp), Len(frames') > Len(frames)
               PROVE  copies' = [p \in Parts |-> 1]
    BY DEF Capture
  <2>1. TypeOK /\ Count(part, timestamp)
    BY DEF IInv, CaptureData
  <2>2. Complete(part, timestamp)
    <3>1. Len(frames) \in Nat
      BY <2>1 DEF TypeOK
    <3>2. frames' # frames
      BY <3>1
    <3>3. QED
      BY <3>2 DEF CaptureData, StartFrame, AddToFrame, StoreFails,
                  StoreClaimFails, StoreFrame
  <2>3. \A p \in Parts : copies'[p] = 1
    BY <2>1, <2>2, CompleteOnce
  <2>4. copies' \in [Parts -> 0 .. MaxRepeat]
    BY <2>1, CountType
  <2>5. QED
    BY <2>3, <2>4
<1>2. IInv /\ Next /\ ~Capture => Once
  <2> SUFFICES ASSUME IInv, Next, ~Capture PROVE ~(Len(frames') > Len(frames))
    OBVIOUS
  <2>1. frames \in Seq(Chunks \cup {Null}) /\ Len(frames) \in Nat
    BY DEF IInv, TypeOK
  <2>2. CASE Remove
    <3>1. PICK id \in handed \cup {invalid_frame_id} : RemoveFrame(id)
      BY <2>2 DEF Remove
    <3>2. frames' = frames \/ frames' = [frames EXCEPT ![id + 1] = Null]
      BY <3>1, RemoveCases
    <3>3. QED
      BY <2>1, <3>2
  <2>3. CASE ReleaseStore
    BY <2>1, <2>3 DEF ReleaseStore
  <2>4. CASE Done
    BY <2>1, <2>4 DEF Done, storeAndPool, storeVars
  <2>5. CASE \E c \in Chunks : Supply(c)
    BY <2>1, <2>5 DEF Supply, storeVars
  <2>6. QED
    BY <2>2, <2>3, <2>4, <2>5 DEF Next
<1>3. QED
  BY <1>1, <1>2, StoreInvariant, PTL DEF Spec, StoredOnce
=============================================================================
