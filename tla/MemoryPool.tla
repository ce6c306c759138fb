----------------------------- MODULE MemoryPool -----------------------------
(***************************************************************************)
(* libkghost/src/memory_pool.c: a pool of equal-sized chunks.  A generator  *)
(* thread mallocs chunks into the private stack `generated' and moves them   *)
(* under the mutex to the stack `available'; the client claims chunks from   *)
(* `available' into the tree `claimed' and unclaims them back.              *)
(*                                                                          *)
(* The pool has one client at a time (the director serialises its calls), so *)
(* the client is one program counter.  Everything both threads touch         *)
(* (`available', kill_thread) is touched under the mutex, so one critical    *)
(* section is one action; what lies between two of them is an action of its  *)
(* own, because the other thread runs there.                                *)
(*                                                                          *)
(* A definition marked `Mutant' is not part of the model: it is the           *)
(* definition below it with a bug such code could have, and shows which       *)
(* property would notice.                                                    *)
(***************************************************************************)
EXTENDS Integers, Sequences, FiniteSets

CONSTANTS Chunks,       \* the addresses malloc may return
          MinReserve,   \* refill when fewer chunks than this are available
          MaxReserve,   \* refill up to this many available chunks
          MaxChunks,    \* maxBytes / chunkSize: never more chunks than this
          Faults        \* the library calls that may fail

(* The argument checks of memory_pool_create. *)
ASSUME PoolAssumption ==
    /\ IsFiniteSet(Chunks)
    /\ MinReserve \in Nat /\ MaxReserve \in Nat /\ MaxChunks \in Nat
    /\ MinReserve <= MaxReserve
    /\ 1 <= MaxReserve
    /\ MaxReserve <= MaxChunks
    /\ Faults \subseteq {"malloc chunk", "malloc node", "usleep"}

VARIABLES
    available,          \* stack shared by client and generator (mutex); its
                        \* last element is the top
    generated,          \* stack private to the generator
    claimed,            \* keys of the claimed tree, private to the client
    generated_chunks,   \* chunks malloced so far
    kill_thread,        \* set by memory_pool_release (mutex)
    client,             \* where the client is in its current call
    chunk,              \* the chunk that call is about
    result,             \* what the last finished call returned
    thread,             \* where the generator is in its loop
    chunkCount,         \* the generator's local variable of that name
    heap,               \* chunks malloced and not freed
    strayed             \* chunks popped by a claim whose tree insert failed

clientVars == <<claimed, client, chunk, result, strayed>>
threadVars == <<generated, generated_chunks, thread, chunkCount>>
vars == <<available, generated, claimed, generated_chunks, kill_thread,
          client, chunk, result, thread, chunkCount, heap, strayed>>

NoChunk == "no chunk"
Results == {"NO_ERROR", "ERR_EMPTY", "ERR_FULL", "ERR_INVALID_ARGUMENT",
            "ERR_FAILED_ALLOC"}
Elements(s) == {s[i] : i \in 1 .. Len(s)}

(* stack_push, stack_pop and stack_full on a stack of a given capacity.     *)
Full(s, capacity) == Len(s) = capacity
Pushed(s, x) == Append(s, x)
Top(s) == s[Len(s)]
\* Mutant: top is not decremented.
PoppedKeepsTop(s) == s
Popped(s) == SubSeq(s, 1, Len(s) - 1)
(* The first n elements that popping s one by one returns. *)
PopOrder(s, n) == [i \in 1 .. n |-> s[Len(s) + 1 - i]]

-----------------------------------------------------------------------------
(* memory_pool_create fills `available' up to the minimum reserve; a failed  *)
(* malloc stops the loop without failing the call.                          *)
Init ==
    /\ \E fill \in [1 .. MinReserve -> Chunks], n \in 0 .. MinReserve :
          /\ \A i, j \in 1 .. MinReserve : fill[i] = fill[j] => i = j
          /\ n < MinReserve => "malloc chunk" \in Faults
          /\ available = SubSeq(fill, 1, n)
          /\ generated_chunks = n
          /\ heap = Elements(available)
    /\ generated = <<>>
    /\ claimed = {}
    /\ strayed = {}
    /\ kill_thread = FALSE
    /\ client = "idle" /\ chunk = NoChunk /\ result = "NO_ERROR"
    /\ thread = "check" /\ chunkCount = 0

-----------------------------------------------------------------------------
(* The client. *)

\* memory_pool_claim up to the unlock: the pop under the mutex.
ClaimPop ==
    /\ client = "idle"
    /\ available # <<>>
    /\ chunk' = Top(available)
    /\ available' = Popped(available)
    /\ client' = "insert"
    /\ UNCHANGED <<generated, claimed, generated_chunks, kill_thread, result,
                   thread, chunkCount, heap, strayed>>

ClaimEmpty ==
    /\ client = "idle"
    /\ available = <<>>
    /\ result' = "ERR_EMPTY"
    /\ UNCHANGED <<available, generated, claimed, generated_chunks,
                   kill_thread, client, chunk, thread, chunkCount, heap,
                   strayed>>

\* The rest of memory_pool_claim, outside the mutex.  When the tree cannot
\* allocate its node the chunk is in no container any more.
ClaimInsert ==
    /\ client = "insert"
    /\ \/ /\ claimed' = claimed \cup {chunk}
          /\ result' = "NO_ERROR"
          /\ UNCHANGED strayed
       \/ /\ "malloc node" \in Faults
          /\ strayed' = strayed \cup {chunk}
          /\ result' = "ERR_FAILED_ALLOC"
          /\ UNCHANGED claimed
    /\ client' = "idle"
    /\ chunk' = NoChunk
    /\ UNCHANGED <<available, heap, kill_thread, threadVars>>

\* Mutant: the chunk is not looked up in the tree.
UnclaimUnfound(c) ==
    /\ client = "idle"
    /\ client' = "push" /\ chunk' = c
    /\ UNCHANGED <<available, claimed, heap, kill_thread, result, strayed,
                   threadVars>>

\* memory_pool_unclaim up to the lock.
UnclaimFind(c) ==
    /\ client = "idle"
    /\ IF c \in claimed
       THEN client' = "push" /\ chunk' = c /\ UNCHANGED result
       ELSE result' = "ERR_INVALID_ARGUMENT" /\ UNCHANGED <<client, chunk>>
    /\ UNCHANGED <<available, claimed, heap, kill_thread, strayed, threadVars>>

\* The push under the mutex: the chunk is available before it has left the
\* claimed tree.
UnclaimPush ==
    /\ client = "push"
    /\ IF Full(available, MaxChunks)
       THEN /\ client' = "idle" /\ chunk' = NoChunk /\ result' = "ERR_FULL"
            /\ UNCHANGED available
       ELSE /\ available' = Pushed(available, chunk)
            /\ client' = "remove"
            /\ UNCHANGED <<chunk, result>>
    /\ UNCHANGED <<claimed, heap, kill_thread, strayed, threadVars>>

UnclaimRemove ==
    /\ client = "remove"
    /\ claimed' = claimed \ {chunk}
    /\ client' = "idle"
    /\ chunk' = NoChunk
    /\ result' = "NO_ERROR"
    /\ UNCHANGED <<available, heap, kill_thread, strayed, threadVars>>

\* memory_pool_release sets the flag under the mutex ...
ReleaseKill ==
    /\ client = "idle"
    /\ kill_thread' = TRUE
    /\ client' = "join"
    /\ UNCHANGED <<available, claimed, chunk, heap, result, strayed, threadVars>>

\* Mutant: the claimed chunks are not freed.
ReleaseUnclaimed ==
    /\ client = "join"
    /\ thread = "exited"
    /\ heap' = heap \ (Elements(generated) \cup Elements(available))
    /\ generated' = <<>>
    /\ available' = <<>>
    /\ claimed' = {}
    /\ client' = "released"
    /\ UNCHANGED <<chunk, generated_chunks, kill_thread, result, thread,
                   chunkCount, strayed>>

\* ... joins the generator, then frees what the three containers hold.
ReleaseJoin ==
    /\ client = "join"
    /\ thread = "exited"
    /\ heap' = heap \ (Elements(generated) \cup Elements(available) \cup claimed)
    /\ generated' = <<>>
    /\ available' = <<>>
    /\ claimed' = {}
    /\ client' = "released"
    /\ UNCHANGED <<chunk, generated_chunks, kill_thread, result, thread,
                   chunkCount, strayed>>

-----------------------------------------------------------------------------
(* The generator, _memory_pool_thread. *)

\* Mutant: the flag is not looked at.
ThreadIgnoresKill ==
    /\ thread = "check"
    /\ thread' = "count"
    /\ UNCHANGED <<available, generated, generated_chunks, chunkCount, heap,
                   kill_thread, clientVars>>

\* First critical section: read kill_thread.
ThreadCheck ==
    /\ thread = "check"
    /\ thread' = IF kill_thread THEN "exited" ELSE "count"
    /\ UNCHANGED <<available, generated, generated_chunks, chunkCount, heap,
                   kill_thread, clientVars>>

\* Second critical section: count the available chunks; the decision how many
\* to generate rests on that count, which the client may change meanwhile.

\* Mutant: one chunk more than there is room for.
WantedOneTooMany(count) ==
    LET room == MaxChunks - generated_chunks + 1
        want == MaxReserve - count
    IN  IF want <= room THEN want ELSE room

Wanted(count) ==
    LET room == MaxChunks - generated_chunks
        want == MaxReserve - count
    IN  IF want <= room THEN want ELSE room

\* Mutant: the comparison the wrong way round.
ThreadCountReversed ==
    /\ thread = "count"
    /\ IF MinReserve < Len(available)
       THEN thread' = "generate" /\ chunkCount' = Wanted(Len(available))
       ELSE thread' = "move" /\ UNCHANGED chunkCount
    /\ UNCHANGED <<available, generated, generated_chunks, heap, kill_thread,
                   clientVars>>

ThreadCount ==
    /\ thread = "count"
    /\ IF MinReserve > Len(available)
       THEN thread' = "generate" /\ chunkCount' = Wanted(Len(available))
       ELSE thread' = "move" /\ UNCHANGED chunkCount
    /\ UNCHANGED <<available, generated, generated_chunks, heap, kill_thread,
                   clientVars>>

\* One _memory_pool_generate_chunk, outside the mutex.
ThreadGenerate ==
    /\ thread = "generate"
    /\ chunkCount > 0
    /\ \/ \E c \in Chunks \ heap :
             IF Full(generated, MaxReserve)
             THEN /\ thread' = "exited"
                  /\ UNCHANGED <<generated, generated_chunks, heap>>
             ELSE /\ generated' = Pushed(generated, c)
                  /\ generated_chunks' = generated_chunks + 1
                  /\ heap' = heap \cup {c}
                  /\ UNCHANGED thread
       \/ /\ "malloc chunk" \in Faults
          /\ thread' = "exited"
          /\ UNCHANGED <<generated, generated_chunks, heap>>
    /\ chunkCount' = chunkCount - 1
    /\ UNCHANGED <<available, kill_thread, clientVars>>

ThreadGenerated ==
    /\ thread = "generate"
    /\ chunkCount = 0
    /\ thread' = "move"
    /\ UNCHANGED <<available, generated, generated_chunks, chunkCount, heap,
                   kill_thread, clientVars>>

\* Third critical section: pop each generated chunk and push it to available.
\* A push that finds `available' full drops the popped chunk and ends the
\* thread.
ThreadMove ==
    /\ thread = "move"
    /\ LET room  == MaxChunks - Len(available)
           total == Len(generated)
           moved == IF total <= room THEN total ELSE room
       IN  /\ available' = available \o PopOrder(generated, moved)
           /\ generated' = SubSeq(generated, 1,
                 IF total <= room THEN 0 ELSE total - room - 1)
           /\ thread' = IF total <= room THEN "sleep" ELSE "exited"
           /\ chunkCount' = total - moved
    /\ UNCHANGED <<generated_chunks, heap, kill_thread, clientVars>>

ThreadSleep ==
    /\ thread = "sleep"
    /\ \/ thread' = "check"
       \/ "usleep" \in Faults /\ thread' = "exited"
    /\ UNCHANGED <<available, generated, generated_chunks, chunkCount, heap,
                   kill_thread, clientVars>>

-----------------------------------------------------------------------------
Claim == ClaimPop \/ ClaimEmpty \/ ClaimInsert
Unclaim == (\E c \in Chunks : UnclaimFind(c)) \/ UnclaimPush \/ UnclaimRemove
Release == ReleaseKill \/ ReleaseJoin
Client == Claim \/ Unclaim \/ Release
Thread == ThreadCheck \/ ThreadCount \/ ThreadGenerate \/ ThreadGenerated
              \/ ThreadMove \/ ThreadSleep
\* After the release nothing is left to do.
Done == client = "released" /\ UNCHANGED vars

Next == Client \/ Thread \/ Done

Spec == Init /\ [][Next]_vars

\* The scheduler runs the generator, and the client finishes a call it is in
\* (it need not start another one).
FairSpec == /\ Spec
            /\ WF_vars(Thread)
            /\ WF_vars(ClaimInsert \/ UnclaimPush \/ UnclaimRemove \/ ReleaseJoin)
-----------------------------------------------------------------------------
(* The values the variables range over. *)
TypeOK ==
    /\ available \in Seq(Chunks)
    /\ generated \in Seq(Chunks)
    /\ claimed \in SUBSET Chunks
    /\ strayed \in SUBSET Chunks
    /\ heap \in SUBSET Chunks
    /\ generated_chunks \in Nat
    /\ chunkCount \in Nat
    /\ kill_thread \in BOOLEAN
    /\ client \in {"idle", "insert", "push", "remove", "join", "released"}
    /\ chunk \in IF client \in {"insert", "push", "remove"}
                 THEN Chunks ELSE {NoChunk}
    /\ result \in Results
    /\ thread \in {"check", "count", "generate", "move", "sleep", "exited"}

\* The chunk a claim has popped and not yet entered into the tree.
InFlight == IF client = "insert" THEN {chunk} ELSE {}

Distinct(s) == \A i, j \in 1 .. Len(s) : s[i] = s[j] => i = j

(* A chunk is in one place: nothing is twice on a stack, on two stacks, or   *)
(* both available and in somebody's hands.  The one exception is the chunk    *)
(* of an unclaim between its push and its removal from the tree              *)
(* (memory_pool.c:251-257), and it must be on the available stack or popped   *)
(* by nobody.  This is what keeps memory_pool_release from freeing a chunk    *)
(* twice and memory_pool_claim from handing one out twice, whatever the       *)
(* generator does in between.                                                *)
OnePlace ==
    /\ Distinct(available)
    /\ Distinct(generated)
    /\ Elements(available) \cap Elements(generated) = {}
    /\ Elements(available) \cap claimed
          = IF client = "remove" THEN {chunk} ELSE {}
    /\ Elements(generated) \cap claimed = {}
    /\ InFlight \cap (Elements(available) \cup Elements(generated) \cup claimed)
          = {}
    /\ strayed \cap (Elements(available) \cup Elements(generated) \cup claimed
                      \cup InFlight) = {}

(* No chunk is forgotten: what malloc returned is on a stack, claimed, or on  *)
(* its way, except a chunk dropped by a failed tree insert; and after the     *)
(* release nothing else is left on the heap.                                 *)
Accounted ==
    heap = Elements(available) \cup Elements(generated) \cup claimed
             \cup InFlight \cup strayed

(* The pool never grows past the bytes it was given, although the generator   *)
(* decides how many chunks to make from a count it took a lock ago.          *)
Bounded == generated_chunks <= MaxChunks /\ Cardinality(heap) <= generated_chunks

(* No push ever finds its stack full: not the unclaim, which would then keep  *)
(* the chunk claimed for ever, not the generator, which would drop the chunk  *)
(* and exit.  memory_pool.c has no recovery for either.                      *)
RoomToPush ==
    /\ client = "push" => ~Full(available, MaxChunks)
    /\ thread = "generate" /\ chunkCount > 0 => ~Full(generated, MaxReserve)
    /\ thread = "move" => Len(available) + Len(generated) <= MaxChunks

(* Where the chunks are counted: each malloced chunk once, the chunk of an    *)
(* unclaim between push and removal twice.                                   *)
Counted ==
    client # "released" =>
        Len(available) + Len(generated) + Cardinality(claimed)
            + Cardinality(strayed) + (IF client = "insert" THEN 1 ELSE 0)
          = generated_chunks + (IF client = "remove" THEN 1 ELSE 0)

(* What the generator's earlier decision still guarantees.                   *)
RefillFits ==
    /\ thread = "generate" => /\ Len(generated) + chunkCount <= MaxReserve
                              /\ generated_chunks + chunkCount <= MaxChunks
    /\ thread \in {"check", "count", "sleep"} => generated = <<>>

CallsConsistent ==
    /\ client \in {"push", "remove"} => chunk \in claimed
    /\ client = "released" => thread = "exited"

(* The inductive invariant behind the ones above: that no push finds a full   *)
(* stack rests on counting the chunks, and on the room the generator         *)
(* reserved when it last counted.                                            *)
IInv == /\ TypeOK
        /\ OnePlace
        /\ Accounted
        /\ Bounded
        /\ Counted
        /\ RefillFits
        /\ CallsConsistent

(* The pool implements its promise to the client (ChunkAllocator): a claim    *)
(* takes effect at the pop, an unclaim at the removal from the tree.         *)
Allocator == INSTANCE ChunkAllocator WITH
    spare <- (Elements(available) \cup Elements(generated)) \ claimed,
    held  <- claimed \cup InFlight,
    open  <- client # "released"
ImplementsAllocator == Allocator!Spec

-----------------------------------------------------------------------------
(* An empty pool that may still grow has a chunk again before long, unless    *)
(* it is being released (memory_pool.c:334-372), or the generator has ended,  *)
(* which without failing calls it does not (GeneratorSurvives).              *)
Replenished ==
    (available = <<>> /\ generated_chunks < MaxChunks)
        ~> (available # <<>> \/ kill_thread \/ thread = "exited")

(* memory_pool_release returns: the generator sees the flag and exits, also   *)
(* when it was in the middle of a refill.                                    *)
ReleaseReturns == client = "join" ~> client = "released"

(* The generator survives: it leaves its loop only because it was told to.   *)
GeneratorSurvives == [][thread' = "exited" /\ thread # "exited" => kill_thread]_vars
=============================================================================
