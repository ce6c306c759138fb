# kinect-ghosts: a verification project

kinect-ghosts shows "ghosts": it records people moving in front of a Kinect,
cuts the recording into loops, and plays loops over the live picture. The C
library `libkghost` does the work and `kghost/src/main.c` connects it to GLUT.
This directory holds TLA+ models of the library, TLC configurations that check
them on small instances, and TLAPS proofs of what holds for every size.

## 1. The system

### Threads

| thread | started in | what it does |
|---|---|---|
| GLUT thread | `glut_main.c` | everything the program calls: the idle handler lets libfreenect deliver video and depth (`kinect_manager.c` 236-259, 453-499), which go to `director_capture_video` / `_depth`; the display handler asks `director_playback_layers`; at exit `_cleanup` (main.c 677-691) releases everything |
| generator | `memory_pool_create` | keeps the pool's stack of available chunks filled (`memory_pool.c` 287-385) |
| handler, one per finished loop | `_director_handle_new_loop` | appends the loop to the director's vector of loops and ends (`director.c` 601-656) |

The pool's mutex protects `available` and `kill_thread`; the director's
`loops_mutex` protects `loops`; `frame_store_mutex` is only ever taken by the GLUT
thread (and is never initialised: it works because zeroed memory happens to be a
usable mutex).

### Components, their state, operations and correctness

* **memory pool** (`memory_pool.c`, with `stack.c`). State: the stacks `available` and
  `generated`, the tree `claimed`, `generated_chunks`, `kill_thread`. Operations:
  create, claim, unclaim, release, the generator. Hard: the generator acts on a
  count it took a lock ago; unclaim leaves the chunk in two containers for a
  while; claim can fail half way. Correct when no chunk is handed out twice,
  forgotten or freed twice, the limit holds, an empty pool is refilled, and
  release returns.
* **frame store** (`frame_store.c` 548-952; the first half is `#if 0`). State: the
  current frame and how many bytes of it are filled, the vector of frames. An
  index in that vector is a frame's id. Operations: capture video, depth or meta
  data, read, remove. Hard: completeness is a sum of sizes; parts come in any
  order and repeatedly; claiming the next chunk may fail after the frame has been
  appended. Correct when every frame handed out is whole, belongs to its owner
  alone and stays as it is.
* **director** (`director.c`). State: the current loop, whether it is recording, the
  patience counter, the finished loops, what each layer plays. Hard: handler
  threads, pointers into the store that live in loops for ever, failures in the
  middle of a step, layers sharing a loop. Correct when loops hold whole frames
  that the store does not reuse, no two threads have one loop, playback finds a
  frame, finished loops get published.
* **motion detector** (`motion_detector.c`). Two bit masks, used in turn; presence and
  motion are shares of the valid pixels. Hard: no valid pixel (0/0).
* **ring**, **vector**, **red-black tree**, **median filter**: containers and a pure
  filter; correct against sequences, sets and a reference filter.
* **command interpreter** (`command.c`). State: the chain of handlers; within a call, where
  trimming is. Operations: handle a line, find a target and its value. Hard: two loops
  that move an index and a length towards each other, over whatever was typed. Correct
  when a line that asks for a value is recognised, no other is, and the call ends.
* **kinect manager** (`kinect_manager.c`). State: the last reading of the record timer,
  whether libfreenect is being called, the camera angle. Operations: capture, the two
  callbacks of libfreenect, tilt. Hard: only video has a time; depth is passed on with
  the time of the video before it. Correct when what is stored together was captured
  together, and the angle believed is the device's.
* **display manager** (`display_manager.c`). State: the textures, how many are in use.
  Operations: prepare a picture, set a layer, display. Hard: textures keep old data.
  Correct when a picture shows the layers set for it.
* **main** (`kghost/src/main.c`). State: the typed line, the cutoff, a counter of skipped
  pictures, whether GLUT was asked for one. Operations: idle, display, keyboard, arrow
  keys, the camera's callbacks, clean-up. Hard: what GLUT, the camera and the threads of
  the library do between any two of them. Correct when pictures are whole, ghosts go
  through their loops frame by frame, what was recorded is shown in the end, and the
  settings are those the user typed.
* **timer, GLUT main**: a clock, and the order in which GLUT calls main.
* OpenGL helpers, images, log, shaders: output.

They interact by calls, except where the table of threads says otherwise:
main -> kinect manager -> (callbacks) main -> director -> frame store -> memory
pool -> stack, tree; director -> motion detector, vector; main -> display manager.

`PROJECT.json` lists, under `hazards`, what is hard to test in this code, each at its
line and with the properties that would notice.

## 2. The plan

1. `ChunkAllocator`, `MemoryPool`, proofs: done.
2. `FrameStore` over `ChunkAllocator`, and its proofs: done.
3. `Director` over `FrameStore`, and its proofs: done.
4. `Ring` over `RecentElements`, `Vector` over `ElementSequence`, and their proofs: done.
5. `RbTree` over `SortedElements`, `MotionDetector` over `FrameDifference`,
   `MedianFilter` over `Ring`, and their proofs: done.
6. `KinectManager`, `DisplayManager` and `Ghosts`, which joins them and `Director` as main.c
   does, and proofs about the program: done.
7. `Command` and `Controls`, the user's side of main.c, and their proofs: done.

Every safety property of the passing runs is proved for every value of the constants; what
stays with TLC is liveness (section 5).

## 3. The modules

| module | models | state and actions |
|---|---|---|
| `ChunkAllocator` | what the pool promises | `spare`, `held`, `strayed`, `open`; `Supply`, `Acquire`, `Return`, `Stray`, `Close` |
| `MemoryPool` | `memory_pool.c`, `stack.c` | the struct's fields; `client` and `thread` are program counters. One action per critical section and per stretch between two of them: `ClaimPop`, `ClaimInsert`, `UnclaimFind`, `UnclaimPush`, `UnclaimRemove`, `ReleaseKill`, `ReleaseJoin`; `ThreadCheck`, `ThreadCount`, `ThreadGenerate`, `ThreadGenerated`, `ThreadMove`, `ThreadSleep`. `heap` is what malloc returned and nobody freed |
| `MemoryPoolProofs` | | theorems about `MemoryPool` |
| `FrameStore` | `frame_store.c` | the struct's fields, `content` of the chunks, and the pool's variables as in `ChunkAllocator`. `CaptureData` has one disjunct per outcome; `RemoveFrame`, `ReleaseStore`, and the generator's `Supply` |
| `FrameStoreProofs` | | theorems about `FrameStore` |
| `Director` | `director.c` | the director's fields, a record per loop address, `handlers` for started threads, `pc` for the GLUT thread; `Store` is an instance of `FrameStore`, whose actions it takes part in |
| | | playback, one action under `loops_mutex`: `Filled` are the ways to give the empty layers a loop, `Shown` is what the layers are given, `Play` moves the loops on. Layers that share a loop are counted (`Before`) in place of the code's loop over the layers |
| `KinectManager` | `kinect_manager.c`, callbacks and capture; `timer_mac.c` | `record_timestamp`, `capturing`; `StartCapture`, `EndCapture`, `VideoArrives`, `DepthArrives` |
| `DisplayManager` | `display_manager.c` | a record of the struct's fields and what is on the screen; `prepare_frame`, `set_frame_layer`, `display_frame` are operators on it |
| `Ghosts` | `main.c`: `_idle`, `_display`, `_video_cb`, `_depth_cb`, `_cleanup`; `glut_main.c` | extends the three: `Idle`, `Video` (manager's and director's step in one), `Depth`, `Proceed` (the rest of a callback), `IdleEnds`, `Display`, `Cleanup`, `Others` (the threads) |
| `Command` | `command.c` | the locals of `_trim`; `StartFinding`, `TrimEnd` (one round of the second loop), `TrimEnded`; the first loop, which ends, is the operator `Skipped` |
| `Controls` | `main.c`: `_keyboard`, `_special`, `_command_set`; `kinect_manager_set_camera_angle` | the command buffer and its position, the cutoff, the angle; `Type`, `EndLine`, `Trim`, `SetCutoff`, `Arrow` |
| `RecentElements`, `Ring` | what `ring.h` promises; `ring.c` | the struct's fields, positions in elements; `ring_push`, `ring_clear`, and `Position` for `ring_element` |
| `ElementSequence`, `Vector` | what `vector.h` promises; `vector.c` | the struct's fields; `vector_append` (fits, grows, or cannot grow), `vector_pop`, `vector_clear`, `vector_remove`. The reading functions are the refinement mapping |
| `SortedElements`, `RbTree` | what a red-black tree is for; `rb_tree.c` | a record of the nodes' fields; `rb_tree_insert`, `rb_tree_remove`, `rb_tree_release`. A loop of the code is a round, as a function on the loop's variables, and `Loop`, which makes as many rounds as the tree can have nodes on a path (`RbTreeProofs` shows that each loop is over by then); where the code has a left half and its mirror image, one definition has the side as a parameter. `rb_tree_find` and `rb_tree_enumerate` change nothing and are operators |
| `FrameDifference`, `MotionDetector` | what is measured; `motion_detector.c` and the verdict of `director.c` 476-483 | the struct's fields, a mask being words of bits; `motion_detector_detect`, `motion_detector_reset` |
| `MedianFilter` | `median_filter.c` | the frames, the ring it is built on (`Ring`, extended), the locals of `median_filter_apply`; `median_filter_append`, `median_filter_clear`, `Apply`, `Fill` (one push), `FilterFrame` (one round of the loop) |
| `RbTreeProofs` | | theorems about `RbTree` |
| `GhostsProofs` | | theorems about `Director`, over those of `FrameStoreProofs`, and about `Ghosts`, over those |
| `VectorProofs`, `MotionDetectorProofs`, `ControlsProofs` | | theorems about `Vector`, `MotionDetector` and `Controls` |
| `MedianFilterProofs` | | theorems about `Ring`, and about `MedianFilter` over them |
| `MC...` | | the values of the constants for TLC |

**Data.** A chunk or a loop is its address. A part of a frame is the timestamp it
was captured with: that is what wholeness is about. Bytes appear as sizes only,
because `frame_store.c` adds them up. A motion detector's verdict is any Boolean.
A typed key is a model value; a number is the sequence of its digits.

**Histories.** `handed`, `last` and `copies` in `FrameStore`, `discarded` in `Director`,
`depths` in `Ghosts` and `typed` in `Controls` are not in the code; they record what was
returned, captured, freed or typed, are never in a guard except for the bound
`MaxRepeat`, and exist to state properties. `allocated` in `RbTree` is the heap: malloc returns a
node that is not in it, and a node may be removed when it is.

**Undefined behaviour.** `Director` sets `crashed` where the code would use a loop
that is NULL or freed, or the director after its release, and stops there.

**Mutants.** A definition marked `Mutant` is not part of a model. It is the
definition below it with a bug such code could have, and the entry in
`PROJECT.json` names the property that fails when it takes the other's place.

## 4. The runs

| run | instance | what it shows |
|---|---|---|
| `pool_safety` | 5 addresses, at most 4 chunks, reserve 2..3, every fault | no chunk in two places, forgotten, or pushed to a full stack; the limit holds; `MemoryPool` implements `ChunkAllocator`; an empty pool is refilled unless a failed call has ended the generator, and release returns. An address more than the limit makes the limit the code's |
| `store_safety` | 4 addresses, at most 3 chunks, 2 clock values, 3 ids, each part up to twice in a row, every fault | frames handed out are whole, private, stable, one per timestamp; nothing is lost |
| `director_safety` | 5 chunks, 6 ids, 3 loops, 2 layers, patience 1, at least 3 frames | loops that are too short and long enough; frames accounted for; ownership of loops |
| `director_faults` | 4 chunks, 5 ids, 3 loops, 2 layers, patience 0, at least 1 frame, every fault | pointers in loops stay good, two layers that share or change loops always find a frame while other loops are published, and the director is an allowed client of `FrameStore` |
| `director_cleanup` | 3 chunks, 3 ids, 2 loops | **violation**: see section 7 |
| `program_safety` | 4 chunks, 4 ids, 4 readings of the timer, 2 loops, 2 layers and 3 textures, every second picture skipped, no fault | video and depth are paired, pictures are whole, ghosts go on frame by frame, a finished loop is seen |
| `controls_safety` | 5 keys, a buffer of 7, a target of 1 key, angles -1..1, the device may fail | the buffer is the line, the cutoff obeys the lines that set it and only those, the angle is the device's |
| `controls_hang` | as `controls_safety`, a buffer of 5 | **violation**: see section 7 |
| `vector_safety` | 2 elements, default capacity 2, growing to 8 | the vector is a sequence through growth, failed growth and removals |
| `tree_safety` | 8 nodes, two keys twice | balance, links, search and enumeration of every tree that can arise; `ImplementsSorted`: no balancing loses or moves a node |
| `motion_safety` | 4 pixels in words of 3 bits, 3 depths, 2 cutoffs, one of them beyond 16 bits, invalid pixels skipped | motion is the difference to the frame before; still and blank frames are not recorded |
| `median_safety` | filter 3x3x3, up to 3 frames of 2x2 pixels with 2 channels | filtering in place gives what filtering copies would; the ring under it, in every position of `head`, is the list of most recent elements, and a push writes over the oldest only |

**Bounds.** `MaxFrames` bounds the ids ever given out, `MaxRepeat` the captures of one part
under one timestamp, `Loops` the loop addresses in use at once (a capture starts only
while one is left). The sizes 6, 4, 1 and 2 have the property of the real ones (921600,
614400, 4, 8) that only one copy of each part adds up to a frame; `StoreAssumption`
states it. Two clock values suffice because the code only compares a timestamp with
the current one. The patience (5) and the minimum length (10) of the code are
scaled down so that loops of both kinds fit into the ids.

In `program_safety` a loop of two frames needs four chunks: two it keeps, the frame that
ends it, and the one the store fills next. Four ids and four times then suffice for that loop
and a beginning of another; every part may come twice in a row, so that depth can repeat
before and after its video. (In `director_safety` no part repeats; there the theorems,
which hold for any repetition, say the rest.) Only one loop can be published there; several, shared and
exchanged by the layers, are the matter of `director_faults`
and of the theorems `DirectorPlayable` and `GhostsPicturesFollow`. `MaxTime` is a bound of the
model only: the timer has nanoseconds.

The buffer of `controls_safety` has room for an indentation of three, a target, a delimiter and
a digit: indentations that are skipped, and one that is skipped by half. `SizeBits` is the width
of the length that the hanging loop decrements past zero. Three angles have both limits
and a step inside them.

The second cutoff of `motion_safety` is negative and becomes 2 in the cast to `unsigned short`
(motion_detector.c:238), as `FrameDifference` expects; the program passes an `unsigned short` as it
is, and how the director computes that from a float (director.c:468) is not modelled. The program
always skips invalid pixels; the theorems also cover a detector that does not.

A node of the tree has a fixed key, because a node's address is only ever compared
for equality; eight nodes make every case of both balancing loops occur, and some of
them with equal keys. Two values suffice for medians: a median of numbers
above a threshold or not is above it exactly when the median of the numbers is. The pictures of
`median_safety` are a few that differ in every row, column and channel; with three of them
the ring, whose capacity is the filter's depth, fills and wraps while it is read.

**Deadlock** is checked in every run. After the release, a crash, or the end of the program,
the models stutter.

**Fairness.** `MemoryPool.FairSpec`: the generator thread is scheduled (its period is
finite, and it holds the mutex only for a moment), and the client finishes a call it
has begun; it need not begin one. `Controls.FairSpec`: the GLUT thread goes on with the line
it is handling; it need not get another. `Ghosts.FairGhosts`: GLUT's loop goes on and callbacks
come to their end (weakly fair), a handler thread that was started runs (weakly fair), and the
device, asked again and again, delivers again and again (strongly fair: `IdleEnds(TRUE)`). The
last is what the code relies on: no picture is drawn unless libfreenect succeeds
(main.c:467-473). Nothing says what is delivered, and the generator need not run. `Director` and
`FrameStore` assume nothing.

## 5. What is proved

`MemoryPoolProofs`, for any set of addresses, any reserve and any limit that
`PoolAssumption` allows:

* `PoolInvariant`: `IInv` is inductive (TLC agrees when it is made an invariant of
  `pool_safety`). What the runs check (`OnePlace`, `Accounted`, `Bounded`, `RoomToPush`)
  is not inductive by itself: that a push finds room is a fact about numbers, so `Counted`
  says where every malloced chunk is counted, `RefillFits` that what the generator still
  wants to malloc fits its private stack and the limit although it decided so a lock ago,
  and `CallsConsistent` what each program counter knows of the chunk in flight.
  `PoolTypeOK`, `PoolOnePlace`, `PoolAccounted`, `PoolBounded`, `PoolRoomToPush` follow,
  the last one by counting (lemma `RoomByCount`), and from it `PoolGeneratorSurvives`.
* `PoolImplementsAllocator`: `Spec => Allocator!Spec`. A claim maps to `Acquire` at the pop,
  an unclaim to `Return` when the chunk leaves the tree (not at the push: until then the
  tree still has it), the generator's malloc to `Supply`; all else stutters.

`FrameStoreProofs`, for any pool, sizes, clock and bounds that `StoreAssumption` allows:

* `StoreInvariant`: `IInv` is inductive. To know that a completed frame is whole one needs
  `SizeCounts` (the bytes counted are those of the copies made since the timestamp
  changed) and `Gathering` (as long as a part is missing, every part copied carries the
  timestamp). Lemma `FrameSizeOnce` turns a full size into one copy of each part: the
  only place where the sizes matter. `StoreWholeFrames`, `StoreHandedPrivate`,
  `StoreNothingLost` and `StoreTypeOK` follow.
* `StoreFramesStable` and `StoreStoresOnce`, properties of steps, one lemma per action.

`MedianFilterProofs`, for every capacity of the ring, every shape of the filter that
`FilterAssumption` allows, and any frames:

* `RingTypeOK` (head stays within the data), `RingImplementsRecent` and `RingInPlace`. Lemma
  `PushAvoids` is the heart: the position of an element that is not the oldest of a full
  ring differs from `head`, because indexes wrap at most once (`Wrapped`).
* `FilterInductive`: `FilterInv` is inductive. While the filter writes into the frames it reads,
  the ring holds the original frames around the next one to be filtered, newest first, and the
  frames before it are already what the filter makes of the originals. `FilterWindowOriginal` and
  `FilterReturnsFiltered` follow, the latter at the step in which the call returns.
* `FilterUsesRing`: every step of the filter is one of the ring or leaves it alone, so that
  `FilterImplementsRecent` and `FilterInPlace` are the ring's theorems in the filter.

`MotionDetectorProofs`, for every number of pixels, width of a word and threshold:
`DetectorTypeOK`; `DetectorImplementsDifference`, where bits set word by word in two masks
used in turn map to the sets of near pixels of two frames (the last word may be partly
used, and a mask may be left from before a reset); and `DetectorStillNotValid`, from the
invariant `Compared`, which says whose mask the next comparison uses.

`VectorProofs`, for every capacity: `VectorInvariant` (count stays below capacity once
something was appended; `LargerRoom`: doubling suffices also from capacity 1),
`VectorTypeOK`, `VectorInBounds`, `VectorImplementsSequence`.

`RbTreeProofs`, for any nodes and any keys, equal ones too:

* `RbTreeInv`: `TreeInv` is inductive. It says that there are three ghosts over the nodes
  that make the tree `Kempt`: `sub` (the nodes below each), a position in the order of
  the keys, and `bh` (the black height). Their conditions (`Shape`, `Balanced`, the order) are
  local: each speaks of a node, its two children and its parent. A recursive definition of these
  would need induction over the tree in every step; with ghosts a rotation or a splice is shown to
  keep the conditions by giving new values at the few nodes it touches (`RotateShape`,
  `RotateHeights`, `SpliceShape`, `StandsShape`), and only one induction is left (below).
* Insertion: `Fixing` holds before each round of the loop: a red-black tree but for the
  node x, which is red and may have a red parent. Deletion: `Lacking`, a red-black tree but
  for the paths through x, which lack one black node. Both name x's subtree: it grows with each round that
  does not end the loop, so there are fewer of those than nodes, and the rounds of `Loop` suffice
  (`LoopInduction`, by induction over the rounds). The loop of a deletion runs before the
  successor takes the place of the node, in a tree the node is still part of and around a
  sentinel whose parent pointer was written for the purpose (rb_tree.c:535);
  `Spliced` and `Replace` are therefore lemmas of their own, and `DeletedIs` and `RemovedIs` put them together.
* `RbTreeTypeOK` and `RbTreeRedBlack` follow because the ghosts are what `Below` and
  `BlackHeight` compute (`BelowIs`, `HeightIs`: two functions with the same local conditions are equal,
  or else there is a lowest node where they differ). `RbTreeFinds`, `RbTreeEnumerates`: a descent
  keeps the nodes not yet excluded in the subtree it is in (`FindFinds`, `HighestIs`), and a walk to a
  neighbour those between (`SuccessorIs`, `PredecessorIs`), in positions, not in keys, because rotations
  can move equal keys to either side.
* `RbTreeImplementsSorted`: `Before`, read off the links, is the order of the ghost positions
  (`BeforeIs`); rebalancing keeps those, insertion puts the new node behind the last node with a key
  not above its own, and removal leaves the others as they are (`InsertedIs`, `RemovedIs`).

TLC cannot enumerate the ghosts that `TreeInv` speaks of. What it checks on trees of eight
nodes are the consequences: `RedBlack` states the same with heights and sets that are computed.

`GhostsProofs`, first part, about `Director` alone, for any number of loops and layers, any patience
and minimum length:

* `DirectorUsesStore`: every step of the director is one of `FrameStore` or a stutter, so
  whatever is proved of the store holds in the director, for its store (lemma
  `StoreInvariantHolds`). `CallsInv` is the invariant: what each program counter knows of the
  id it was given.
* `DirectorInvariant`: `DInv`, that is types, `Owned` (recorded, finished and published loops are
  different ones) and `Positions`, is inductive whatever fails. `DirectorTypeOK`,
  `DirectorPlayable` and `DirectorPublishedStable` follow.
* `DirectorLoopFramesHeld`: that a pointer stays good follows from the store's
  `HandedPrivate` once `LoopsHanded` is known: each id in a loop is one that was handed out
  and not removed.
* `DirectorLoopOwnership` and `DirectorRecordingConsistent` assume that none of the director's own
  calls fails (`DirectorFaults`); the store's may. `RecordAll` is what `RecordFrame`
  does in that case.

* Under the same assumption `DirectorLoopsWhole` and `DirectorFramesAccounted` follow from
  `Accounts`, which says of the ids handed out and not being handled (`Stored`) that each
  is in one entry of one loop or was discarded, and of each entry that its four vectors
  speak of the frame its id stands for. It is kept because all that moves a frame is the
  end of a recording or one append (`LoopEnds`, `FrameJoins`), and because a capture of
  depth never makes a frame whose id nobody looks at (`DepthCompletesNothing`): meta data
  only follows depth (`MetaFollows`), and a frame is complete with one copy of each part.

`GhostsProofs`, second part, for any number of layers, loops, frames and chunks, any clock and any rate of
skipped pictures:

* `GhostsUseDirector`: every step of the program is one of the director's or leaves it alone, so
  all theorems above hold in the program.
* `GhostsPairUp` (only the vector of frames must be able to grow, `VectorGrows`). The invariant
  is `Paired`: how often each part has been copied since the last new timestamp, and in
  which phase of a callback, tells how many depths have followed the last video.
* `GhostsPicturesWhole` (none of the director's own calls fails). That an entry's video and depth
  are of one moment comes from `StoreWholeFrames`; that the chunks still hold them when the
  textures are copied from `DirectorLoopsWhole`; that the moment is after the first video
  from `Recorded`; that nothing old is left on the textures from `ManagerShape` and lemma
  `PictureOfLayers`, which follows the layers one by one through `LayersSet`.
* `GhostsPicturesFollow` (same assumption). Times name frames only because no two frames the
  store has handed out have one (`TimesDiffer`, which needs that the timer goes on). With
  that `Following` is inductive: every ghost on the screen belongs to a published loop; a
  loop stands after the last of its ghosts, or at its beginning if it has none; and a loop
  that is not at its beginning is still played by some layer. The steps that could break
  it are `Play`, where layers that share a loop advance it together (lemmas `IndexFollows`,
  `FirstFollows`, `LastFollows` by the order of layers), and `Publish`, where a fresh
  loop must be at its beginning with no ghost of its times on the screen.

`ControlsProofs`, for any keys, any target and any size of the buffer: `ControlsLineBounded`
(`BufferInv`), `ControlsAngleTracks` and `ControlsCutoffObeys`. For the last one the string
functions must see in the buffer the line that was typed (`LineIsTyped`), and `FindInv` says
what each stage of `_trim` knows: if the name is compared at all, its end was not moved, or the
name is one space, because the second loop hangs after its first round otherwise. `TargetAsked`
says that what is taken for the target asks, and `AskedTarget` that a line that asks is taken
for it unless it is indented by more than one space and the target's length: the
exact bound comes from `SkipOf`, where index and length meet.

`FrameStore` uses `ChunkAllocator` in place of `MemoryPool`; that this is sound is what
`PoolImplementsAllocator` says.

Assumptions: the named `ASSUME`s on the constants, which TLC evaluates in the runs, and where
it is said that a call does not fail, a condition on the constant `Faults`, which is empty in
`program_safety`. Without it the properties are false: a failing append leaves a loop with
parts of different frames (`RecordFrame`), and when the vector of frames cannot grow a
frame is lost. `PoolTypeOK`, `StoreTypeOK`, `DirectorTypeOK` and others are proved and not in a
run: TLC has nothing to add to them.

Only model-checked: liveness (`Replenished`, `ReleaseReturns`, `GhostsAppear`), which is out of
the prover's reach.

## 6. What is not modelled

* Failures inside the create functions. They call the release functions on half-built
  objects (`memory_pool.c` 98-120 lock an uninitialised mutex at 173), and `_init` goes on
  when the display manager could not be created (main.c:329); models start after a
  successful create.
* Failing `pthread_mutex_lock`/`unlock`, and NULL handles: the program passes none.
* The content of frames, colours, OpenGL and its failures, the wording of logs.
* `kinect_manager_info`, which `_init` asks for sizes (main.c:213-285) and which changes nothing.
* What the program never does: `kinect_manager_reset_timestamp` has no caller, and an error of a command handler is not passed on by `command_handle`,
  so that main.c:504-508 is never reached.
* The clean-up after `command_destroy`: that function frees the first handler again and again
  (command.c:87-90), so `Ghosts` ends there. `Director` has its release all the same.
* All of the grammar of `%f`: signs, points and exponents. The window's keys for size and
  full screen, and `gl_screen.c`, `gl_canvas.c`, `gl_texture.c` and the rest of the OpenGL helpers, which
  keep nothing but handles.
* Misuse the program does not commit: removing an id twice, reading a removed id.
  `UsesStore` shows that the director does neither.
* A median filter of depth one that is applied to one frame: it pushes a frame after the
  last one (`median_filter.c` 327-332). `FilterAssumption` excludes that shape, which the program
  does not use.
* A failing malloc in a tree's insertion: the node is then not inserted (`MemoryPool` has
  that failure as a fault).
* `director_playback_layers`'s early returns on a failed copy: `Playable` shows that the
  position is always in range.
* The components marked `not_modelled` in `PROJECT.json`.

## 7. Findings

* `CleansUp` (run `director_cleanup`): director.h:37 (and main.c:60) says "[director] cleans up clips by removing
  frames." A loop that ends with too few frames is freed (director.c:535) without its
  frames being removed from the store (the TODO at 409). They stay claimed with nothing
  left that knows their ids, so every short movement makes the pool smaller for good.
* `LineHandled` (run `controls_hang`): command.c:169 says of `_trim`'s second loop
  "/* if "len" was passed in, adjust "len" by trimming from end */". The loop tests the same
  character again and again and only takes one from the length (173-178); for a line with a
  space before its delimiter, like "depth = 1", it never ends, and with it the GLUT thread.

Seen on the way, and stated in prose only:

* `_trim`'s first loop moves the position up and the length down and stops where they meet
  (command.c:163-167): of an indentation it skips at most half the length of the name, so a
  line that is indented by more than one space and the target's length sets nothing. `CutoffObeys`
  states what is left of the promise.
* test_motion_detector.cpp:54 expects a presence of 0.25 of a frame with 4 of 16 pixels
  behind the cutoff. motion_detector.c:222 counts what is not behind it, as the
  director needs; it is the test that is wrong, as its comment at line 43 suspects.
* When no handler thread can be started, the loop is freed and `p_current_loop` still points to it
  (director.c:527-535): `Director` has that as `LoseLoop`, and the next frame that is recorded
  as `crashed`.
