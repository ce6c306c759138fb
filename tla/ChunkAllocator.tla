--------------------------- MODULE ChunkAllocator ---------------------------
(***************************************************************************)
(* What libkghost/src/memory_pool.c promises its one client, with no word  *)
(* about stacks, the tree, the generator thread or the mutex: chunks appear *)
(* up to a limit, a claimed chunk belongs to the client alone until it is   *)
(* handed back, and releasing the pool frees every chunk.  MemoryPool is    *)
(* shown to implement this specification.                                   *)
(***************************************************************************)
EXTENDS FiniteSets, Naturals

CONSTANTS Chunks,       \* the addresses malloc may return
          MaxChunks     \* maxBytes / chunkSize

VARIABLES spare,        \* chunks the pool has and nobody holds
          held,         \* chunks the client holds
          strayed,      \* chunks dropped by a claim that failed half way
          open          \* FALSE once the pool has been released

vars == <<spare, held, strayed, open>>

Existing == spare \cup held \cup strayed

Init == /\ spare \in SUBSET Chunks
        /\ Cardinality(spare) <= MaxChunks
        /\ held = {}
        /\ strayed = {}
        /\ open = TRUE

\* A chunk that did not exist becomes available.
Supply(c) == /\ open
             /\ c \notin Existing
             /\ Cardinality(Existing) < MaxChunks
             /\ spare' = spare \cup {c}
             /\ UNCHANGED <<held, strayed, open>>

\* The client takes a spare chunk, and nobody else has it.
Acquire(c) == /\ open
              /\ c \in spare
              /\ spare' = spare \ {c}
              /\ held' = held \cup {c}
              /\ UNCHANGED <<strayed, open>>

\* The client hands back a chunk it holds.
Return(c) == /\ open
             /\ c \in held
             /\ held' = held \ {c}
             /\ spare' = spare \cup {c}
             /\ UNCHANGED <<strayed, open>>

\* A claim takes a chunk and then fails: the chunk is nobody's any more.
Stray(c) == /\ open
            /\ c \in held
            /\ held' = held \ {c}
            /\ strayed' = strayed \cup {c}
            /\ UNCHANGED <<spare, open>>

\* Releasing the pool takes back everything but what has strayed.
Close == /\ open
         /\ open' = FALSE
         /\ spare' = {}
         /\ held' = {}
         /\ UNCHANGED strayed

Next == \/ Close
        \/ \E c \in Chunks : Supply(c) \/ Acquire(c) \/ Return(c) \/ Stray(c)

Spec == Init /\ [][Next]_vars
=============================================================================
