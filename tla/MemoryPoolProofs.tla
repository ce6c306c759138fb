-------------------------- MODULE MemoryPoolProofs --------------------------
(***************************************************************************)
(* Theorems about MemoryPool for any set of chunks and any reserve sizes:   *)
(* its type invariant, the safety invariants the runs check, and that it    *)
(* implements ChunkAllocator.                                              *)
(***************************************************************************)
EXTENDS MemoryPool, FiniteSetTheorems, SequenceTheorems, TLAPS

-----------------------------------------------------------------------------
(* What the stack operators do to the elements of a stack. *)

(* Pushing x on a stack of distinct elements without x. *)
LEMMA PushedStack ==
    ASSUME NEW S, NEW s \in Seq(S), NEW x \in S
    PROVE  /\ Pushed(s, x) \in Seq(S)
           /\ Len(Pushed(s, x)) = Len(s) + 1
           /\ Elements(Pushed(s, x)) = Elements(s) \cup {x}
           /\ Distinct(s) /\ x \notin Elements(s) => Distinct(Pushed(s, x))
BY DEF Pushed, Elements, Distinct

(* Popping a stack that is not empty. *)
LEMMA PoppedStack ==
    ASSUME NEW S, NEW s \in Seq(S), s # <<>>
    PROVE  /\ Popped(s) \in Seq(S)
           /\ Len(Popped(s)) = Len(s) - 1
           /\ Top(s) \in S
           /\ Elements(s) = Elements(Popped(s)) \cup {Top(s)}
           /\ Distinct(s) => /\ Distinct(Popped(s))
                             /\ Top(s) \notin Elements(Popped(s))
<1>1. Len(s) \in Nat /\ Len(s) > 0
  OBVIOUS
<1>2. /\ Popped(s) \in Seq(S)
      /\ Len(Popped(s)) = Len(s) - 1
      /\ \A i \in 1 .. Len(s) - 1 : Popped(s)[i] = s[i]
  <2>1. Len(s) - 1 \in Int /\ \A i \in 1 .. Len(s) - 1 : s[i] \in S
    BY <1>1
  <2> DEFINE p == SubSeq(s, 1, Len(s) - 1)
  <2>2. /\ p \in Seq(S)
        /\ Len(p) = IF 1 <= Len(s) - 1 THEN (Len(s) - 1) - 1 + 1 ELSE 0
        /\ \A i \in 1 .. (Len(s) - 1) - 1 + 1 : p[i] = s[1 + i - 1]
    BY <2>1, SubSeqProperties
  <2>3. Popped(s) = p
    BY DEF Popped
  <2> HIDE DEF p
  <2>4. QED
    BY <1>1, <2>2, <2>3
<1>3. Elements(s) = Elements(Popped(s)) \cup {Top(s)}
  BY <1>1, <1>2 DEF Elements, Top
<1>4. QED
  BY <1>1, <1>2, <1>3 DEF Elements, Distinct, Top

(* The stack t that holds s, and above it g upside down. *)
LEMMA StackedOver ==
    ASSUME NEW S, NEW s \in Seq(S), NEW g \in Seq(S), NEW t \in Seq(S),
           Len(t) = Len(s) + Len(g),
           \A i \in 1 .. Len(s) : t[i] = s[i],
           \A i \in 1 .. Len(g) : t[Len(s) + i] = g[Len(g) + 1 - i]
    PROVE  /\ Elements(t) = Elements(s) \cup Elements(g)
           /\ Distinct(s) /\ Distinct(g) /\ Elements(s) \cap Elements(g) = {}
                => Distinct(t)
<1>2. /\ t \in Seq(S)
      /\ Len(t) = Len(s) + Len(g)
      /\ Len(s) \in Nat /\ Len(g) \in Nat
      /\ \A i \in 1 .. Len(s) : t[i] = s[i]
      /\ \A i \in 1 .. Len(g) : t[Len(s) + i] = g[Len(g) + 1 - i]
  OBVIOUS
<1>3. Elements(t) = Elements(s) \cup Elements(g)
  <2>1. ASSUME NEW i \in 1 .. Len(t) PROVE t[i] \in Elements(s) \cup Elements(g)
    <3>1. CASE i <= Len(s)
      BY <1>2, <2>1, <3>1 DEF Elements
    <3>2. CASE i > Len(s)
      <4>1. PICK k \in 1 .. Len(g) : i = Len(s) + k
        <5>1. i - Len(s) \in 1 .. Len(g) /\ i = Len(s) + (i - Len(s))
          BY <1>2, <2>1, <3>2
        <5>2. QED
          BY <5>1
      <4>2. t[i] = g[Len(g) + 1 - k] /\ Len(g) + 1 - k \in 1 .. Len(g)
        BY <1>2, <4>1
      <4>3. QED
        BY <4>2 DEF Elements
    <3>3. QED
      BY <1>2, <2>1, <3>1, <3>2
  <2>2. ASSUME NEW i \in 1 .. Len(s) PROVE s[i] \in Elements(t)
    BY <1>2, <2>2 DEF Elements
  <2>3. ASSUME NEW k \in 1 .. Len(g) PROVE g[k] \in Elements(t)
    <3>1. Len(g) + 1 - k \in 1 .. Len(g)
      BY <2>3
    <3>2. t[Len(s) + (Len(g) + 1 - k)] = g[k]
      <4>1. Len(g) + 1 - (Len(g) + 1 - k) = k
        BY <2>3
      <4>2. QED
        BY <1>2, <3>1, <4>1
    <3>3. Len(s) + (Len(g) + 1 - k) \in 1 .. Len(t)
      BY <1>2, <3>1
    <3>4. QED
      BY <3>2, <3>3 DEF Elements
  <2>4. QED
    BY <2>1, <2>2, <2>3 DEF Elements
<1>4. ASSUME Distinct(s), Distinct(g), Elements(s) \cap Elements(g) = {},
             NEW i \in 1 .. Len(t), NEW j \in 1 .. Len(t), t[i] = t[j]
      PROVE  i = j
  <2>1. ASSUME NEW n \in 1 .. Len(t), n > Len(s)
        PROVE  \E k \in 1 .. Len(g) : n = Len(s) + Len(g) + 1 - k /\ t[n] = g[k]
    <3>1. PICK m \in 1 .. Len(g) : n = Len(s) + m
      <4>1. n - Len(s) \in 1 .. Len(g) /\ n = Len(s) + (n - Len(s))
        BY <1>2, <2>1
      <4>2. QED
        BY <4>1
    <3>2. t[n] = g[Len(g) + 1 - m] /\ Len(g) + 1 - m \in 1 .. Len(g)
      BY <1>2, <3>1
    <3>3. n = Len(s) + Len(g) + 1 - (Len(g) + 1 - m)
      BY <3>1
    <3>4. QED
      BY <3>2, <3>3
  <2>2. CASE i <= Len(s) /\ j <= Len(s)
    BY <1>2, <1>4, <2>2 DEF Distinct
  <2>3. CASE i <= Len(s) /\ j > Len(s)
    <3>1. t[i] \in Elements(s)
      BY <1>2, <2>3 DEF Elements
    <3>2. t[j] \in Elements(g)
      BY <2>1, <2>3 DEF Elements
    <3>3. QED
      BY <1>4, <3>1, <3>2
  <2>4. CASE i > Len(s) /\ j <= Len(s)
    <3>1. j \in 1 .. Len(s) /\ t[j] = s[j]
      BY <1>2, <2>4
    <3>2. t[i] \in Elements(g)
      BY <2>1, <2>4 DEF Elements
    <3>3. QED
      BY <1>4, <3>1, <3>2 DEF Elements
  <2>5. CASE i > Len(s) /\ j > Len(s)
    <3>1. PICK k \in 1 .. Len(g) : i = Len(s) + Len(g) + 1 - k /\ t[i] = g[k]
      BY <2>1, <2>5
    <3>2. PICK m \in 1 .. Len(g) : j = Len(s) + Len(g) + 1 - m /\ t[j] = g[m]
      BY <2>1, <2>5
    <3>3. k = m
      BY <1>4, <3>1, <3>2 DEF Distinct
    <3>4. QED
      BY <3>1, <3>2, <3>3
  <2>6. QED
    BY <1>2, <2>2, <2>3, <2>4, <2>5
<1>5. QED
  BY <1>2, <1>3, <1>4 DEF Distinct

(* Popping all of g onto s, as the generator does with its private stack. *)
LEMMA MovedStack ==
    ASSUME NEW S, NEW s \in Seq(S), NEW g \in Seq(S)
    PROVE  LET t == s \o PopOrder(g, Len(g))
           IN  /\ t \in Seq(S)
               /\ Len(t) = Len(s) + Len(g)
               /\ Elements(t) = Elements(s) \cup Elements(g)
               /\ Distinct(s) /\ Distinct(g)
                    /\ Elements(s) \cap Elements(g) = {}
                    => Distinct(t)
<1>1. PICK r \in Seq(S) : /\ r = PopOrder(g, Len(g))
                            /\ Len(r) = Len(g)
                            /\ \A i \in 1 .. Len(g) : r[i] = g[Len(g) + 1 - i]
  <2>1. /\ PopOrder(g, Len(g)) \in Seq(S)
        /\ Len(PopOrder(g, Len(g))) = Len(g)
        /\ \A i \in 1 .. Len(g) : PopOrder(g, Len(g))[i] = g[Len(g) + 1 - i]
    BY DEF PopOrder
  <2>2. QED
    BY <2>1, Zenon
<1> SUFFICES ASSUME NEW t, t = s \o r
             PROVE  /\ t \in Seq(S)
                    /\ Len(t) = Len(s) + Len(g)
                    /\ Elements(t) = Elements(s) \cup Elements(g)
                    /\ Distinct(s) /\ Distinct(g)
                         /\ Elements(s) \cap Elements(g) = {}
                         => Distinct(t)
  BY <1>1, Zenon
<1>b. /\ t \in Seq(S)
      /\ Len(t) = Len(s) + Len(r)
      /\ \A i \in 1 .. Len(s) + Len(r) :
            t[i] = IF i <= Len(s) THEN s[i] ELSE r[i - Len(s)]
  BY ConcatProperties
<1>2. /\ t \in Seq(S)
      /\ Len(t) = Len(s) + Len(g)
      /\ \A i \in 1 .. Len(s) : t[i] = s[i]
      /\ \A i \in 1 .. Len(g) : t[Len(s) + i] = g[Len(g) + 1 - i]
  <2>1. ASSUME NEW i \in 1 .. Len(s) PROVE t[i] = s[i]
    BY <1>1, <1>b
  <2>2. ASSUME NEW i \in 1 .. Len(g) PROVE t[Len(s) + i] = g[Len(g) + 1 - i]
    <3>1. Len(s) + i \in 1 .. Len(s) + Len(r) /\ ~(Len(s) + i <= Len(s))
      BY <1>1
    <3>2. t[Len(s) + i] = r[(Len(s) + i) - Len(s)]
      BY <1>b, <3>1
    <3>3. (Len(s) + i) - Len(s) = i
      OBVIOUS
    <3>4. QED
      BY <1>1, <3>2, <3>3
  <2>3. QED
    BY <1>1, <1>b, <2>1, <2>2
<1>3. QED
  BY <1>2, StackedOver

(* Sets of chunks are finite. *)
LEMMA FiniteChunks ==
    ASSUME NEW T \in SUBSET Chunks
    PROVE  IsFiniteSet(T) /\ Cardinality(T) \in Nat
BY PoolAssumption, FS_Subset, FS_CardinalityType

(* Sets of chunks are finite, and adding or removing one counts by one. *)
LEMMA ChunkSets ==
    ASSUME NEW T \in SUBSET Chunks, NEW c
    PROVE  /\ IsFiniteSet(T)
           /\ Cardinality(T) \in Nat
           /\ Cardinality(T \cup {c})
                = IF c \in T THEN Cardinality(T) ELSE Cardinality(T) + 1
           /\ Cardinality(T \ {c})
                = IF c \in T THEN Cardinality(T) - 1 ELSE Cardinality(T)
           /\ \A U \in SUBSET T : Cardinality(U) <= Cardinality(T)
<1>1. IsFiniteSet(T)
  BY PoolAssumption, FS_Subset
<1>2. QED
  BY <1>1, FS_CardinalityType, FS_AddElement, FS_RemoveElement, FS_Subset

(* The quantities that Counted adds up are natural numbers. *)
LEMMA Counts ==
    ASSUME IInv
    PROVE  /\ Len(available) \in Nat /\ Len(generated) \in Nat
           /\ Cardinality(claimed) \in Nat /\ Cardinality(strayed) \in Nat
           /\ Cardinality(heap) \in Nat /\ generated_chunks \in Nat
           /\ chunkCount \in Nat
<1>1. /\ available \in Seq(Chunks) /\ generated \in Seq(Chunks)
      /\ claimed \in SUBSET Chunks /\ strayed \in SUBSET Chunks
      /\ heap \in SUBSET Chunks
      /\ generated_chunks \in Nat /\ chunkCount \in Nat
  BY DEF IInv, TypeOK
<1>2. /\ Cardinality(claimed) \in Nat /\ Cardinality(strayed) \in Nat
      /\ Cardinality(heap) \in Nat
  BY <1>1, FiniteChunks
<1>3. QED
  BY <1>1, <1>2

-----------------------------------------------------------------------------
(* The state after memory_pool_create. *)
LEMMA InitIInv == Init => IInv
<1> SUFFICES ASSUME Init PROVE IInv
  OBVIOUS
<1>0. /\ generated = <<>> /\ claimed = {} /\ strayed = {} /\ kill_thread = FALSE
      /\ client = "idle" /\ chunk = NoChunk /\ result = "NO_ERROR"
      /\ thread = "check" /\ chunkCount = 0
  BY DEF Init
<1>1. PICK fill \in [1 .. MinReserve -> Chunks], n \in 0 .. MinReserve :
           /\ \A i, j \in 1 .. MinReserve : fill[i] = fill[j] => i = j
           /\ available = SubSeq(fill, 1, n)
           /\ generated_chunks = n
           /\ heap = Elements(available)
  BY Zenon DEF Init
<1>2. MinReserve \in Nat /\ MaxChunks \in Nat /\ n \in Nat
      /\ n <= MinReserve /\ MinReserve <= MaxChunks
  <2>1. n \in 0 .. MinReserve
    BY <1>1
  <2>2. /\ MinReserve \in Nat /\ MaxReserve \in Nat /\ MaxChunks \in Nat
        /\ MinReserve <= MaxReserve /\ MaxReserve <= MaxChunks
    BY PoolAssumption
  <2>3. QED
    BY <2>1, <2>2
<1>3. /\ available \in Seq(Chunks)
      /\ Len(available) = n
      /\ \A i \in 1 .. n : available[i] = fill[i]
  <2> DEFINE p == SubSeq(fill, 1, n)
  <2>1. \A i \in 1 .. n : fill[i] \in Chunks
    BY <1>2
  <2>2. /\ p \in Seq(Chunks)
        /\ Len(p) = IF 1 <= n THEN n - 1 + 1 ELSE 0
        /\ \A i \in 1 .. n - 1 + 1 : p[i] = fill[1 + i - 1]
    BY <1>2, <2>1, SubSeqProperties
  <2>3. available = p
    BY <1>1
  <2> HIDE DEF p
  <2>4. QED
    BY <1>2, <2>2, <2>3
<1>4. Distinct(available)
  BY <1>1, <1>2, <1>3 DEF Distinct
<1>5. heap \in SUBSET Chunks
  BY <1>1, <1>3 DEF Elements
<1>6. Cardinality(heap) <= n
  <2>1. [i \in 1 .. n |-> fill[i]] \in Surjection(1 .. n, heap)
    BY <1>1, <1>2, <1>3 DEF Surjection, Elements
  <2>2. ExistsSurjection(1 .. n, heap)
    BY <2>1 DEF ExistsSurjection
  <2>3. QED
    BY <1>2, <2>2, FS_SurjCardinalityBound
<1>7. TypeOK
  <2>1. generated \in Seq(Chunks) /\ generated_chunks \in Nat /\ chunkCount \in Nat
    BY <1>0, <1>1, <1>2
  <2>2. /\ client \in {"idle", "insert", "push", "remove", "join", "released"}
        /\ chunk \in IF client \in {"insert", "push", "remove"}
                     THEN Chunks ELSE {NoChunk}
        /\ result \in Results
        /\ thread \in {"check", "count", "generate", "move", "sleep", "exited"}
        /\ kill_thread \in BOOLEAN
    BY <1>0 DEF Results
  <2>3. QED
    BY <1>0, <1>3, <1>5, <2>1, <2>2 DEF TypeOK
<1>8. OnePlace /\ Accounted
  <2>1. Elements(generated) = {} /\ Distinct(generated) /\ InFlight = {}
    BY <1>0 DEF Elements, Distinct, InFlight
  <2>2. QED
    BY <1>0, <1>1, <1>4, <2>1 DEF OnePlace, Accounted
<1>9. Bounded
  BY <1>1, <1>2, <1>6 DEF Bounded
<1>10. Counted /\ RefillFits /\ CallsConsistent
  BY <1>0, <1>1, <1>2, <1>3, FS_EmptySet DEF Counted, RefillFits, CallsConsistent
<1>11. QED
  BY <1>7, <1>8, <1>9, <1>10 DEF IInv

-----------------------------------------------------------------------------
(* Every step of the client keeps the invariant. *)

LEMMA ClaimPopIInv == IInv /\ ClaimPop => IInv'
<1> SUFFICES ASSUME IInv, ClaimPop PROVE IInv'
  OBVIOUS
<1> USE DEF ClaimPop
<1>1. /\ available' = Popped(available) /\ chunk' = Top(available)
      /\ available \in Seq(Chunks) /\ available # <<>> /\ Distinct(available)
  BY DEF IInv, TypeOK, OnePlace
<1>2. /\ available' \in Seq(Chunks)
      /\ Len(available') = Len(available) - 1
      /\ chunk' \in Chunks
      /\ Elements(available) = Elements(available') \cup {chunk'}
      /\ Distinct(available')
      /\ chunk' \notin Elements(available')
  BY <1>1, PoppedStack
<1>3. TypeOK'
  BY <1>2 DEF IInv, TypeOK
<1>4. Elements(generated') = Elements(generated)
  OBVIOUS
<1>5. OnePlace'
  BY <1>2, <1>4 DEF IInv, OnePlace, InFlight
<1>6. Accounted'
  BY <1>2, <1>4 DEF IInv, Accounted, InFlight
<1>7. Bounded'
  BY DEF IInv, Bounded
<1>8. Counted'
  <2>1. /\ claimed' = claimed /\ strayed' = strayed /\ generated' = generated
        /\ generated_chunks' = generated_chunks
        /\ client = "idle" /\ client' = "insert"
    OBVIOUS
  <2>2. QED
    BY <1>2, <2>1, Counts DEF IInv, Counted
<1>9. RefillFits' /\ CallsConsistent'
  BY DEF IInv, RefillFits, CallsConsistent
<1>10. QED
  BY <1>3, <1>5, <1>6, <1>7, <1>8, <1>9 DEF IInv

LEMMA ClaimInsertIInv == IInv /\ ClaimInsert => IInv'
<1> SUFFICES ASSUME IInv, ClaimInsert PROVE IInv'
  OBVIOUS
<1> USE DEF threadVars
<1>1. chunk \in Chunks /\ InFlight = {chunk} /\ InFlight' = {}
  BY DEF ClaimInsert, IInv, TypeOK, InFlight
<1>2. Elements(available') = Elements(available)
      /\ Elements(generated') = Elements(generated)
  BY DEF ClaimInsert
<1>3. chunk \notin claimed /\ chunk \notin strayed
  BY <1>1 DEF IInv, OnePlace
<1>4. TypeOK'
  BY <1>1 DEF ClaimInsert, IInv, TypeOK, Results
<1>5. OnePlace'
  BY <1>1, <1>2 DEF ClaimInsert, IInv, OnePlace
<1>6. Accounted'
  BY <1>1, <1>2 DEF ClaimInsert, IInv, Accounted
<1>7. Bounded' /\ RefillFits' /\ CallsConsistent'
  BY DEF ClaimInsert, IInv, Bounded, RefillFits, CallsConsistent
<1>8. Counted'
  <2>1. /\ available' = available /\ generated' = generated
        /\ generated_chunks' = generated_chunks
        /\ client = "insert" /\ client' = "idle"
    BY DEF ClaimInsert
  <2>2. \/ /\ Cardinality(claimed') = Cardinality(claimed \cup {chunk})
           /\ Cardinality(strayed') = Cardinality(strayed)
        \/ /\ Cardinality(strayed') = Cardinality(strayed \cup {chunk})
           /\ Cardinality(claimed') = Cardinality(claimed)
    BY Zenon DEF ClaimInsert
  <2>3. /\ Cardinality(claimed \cup {chunk}) = Cardinality(claimed) + 1
        /\ Cardinality(strayed \cup {chunk}) = Cardinality(strayed) + 1
    BY <1>3, ChunkSets DEF IInv, TypeOK
  <2>4. /\ \/ /\ Cardinality(claimed') = Cardinality(claimed) + 1
              /\ Cardinality(strayed') = Cardinality(strayed)
           \/ /\ Cardinality(claimed') = Cardinality(claimed)
              /\ Cardinality(strayed') = Cardinality(strayed) + 1
        /\ Cardinality(claimed') \in Nat /\ Cardinality(strayed') \in Nat
    BY <2>2, <2>3, Counts
  <2>5. /\ Len(available') = Len(available) /\ Len(generated') = Len(generated)
        /\ Len(available') \in Nat /\ Len(generated') \in Nat
    BY <2>1, Counts
  <2>6. Len(available) + Len(generated) + Cardinality(claimed)
          + Cardinality(strayed) + 1 = generated_chunks
    BY <2>1, Counts DEF IInv, Counted
  <2>7. Len(available') + Len(generated') + Cardinality(claimed')
          + Cardinality(strayed') + 0 = generated_chunks' + 0
    BY <2>1, <2>4, <2>5, <2>6, Counts
  <2>8. QED
    BY <2>1, <2>7 DEF Counted
<1>9. QED
  BY <1>4, <1>5, <1>6, <1>7, <1>8 DEF IInv

LEMMA UnclaimFindIInv == ASSUME NEW c \in Chunks PROVE IInv /\ UnclaimFind(c) => IInv'
<1> SUFFICES ASSUME IInv, UnclaimFind(c) PROVE IInv'
  OBVIOUS
<1> USE DEF UnclaimFind, threadVars
<1>1. InFlight = {} /\ InFlight' = {}
  BY DEF InFlight
<1>2. Elements(available') = Elements(available)
      /\ Elements(generated') = Elements(generated)
  OBVIOUS
<1>3. TypeOK'
  BY DEF IInv, TypeOK, Results
<1>4. OnePlace' /\ Accounted'
  BY <1>1, <1>2 DEF IInv, OnePlace, Accounted
<1>5. Bounded' /\ Counted' /\ RefillFits' /\ CallsConsistent'
  BY DEF IInv, Bounded, Counted, RefillFits, CallsConsistent
<1>6. QED
  BY <1>3, <1>4, <1>5 DEF IInv

LEMMA UnclaimPushIInv == IInv /\ UnclaimPush => IInv'
<1> SUFFICES ASSUME IInv, UnclaimPush PROVE IInv'
  OBVIOUS
<1>1. /\ client = "push" /\ chunk \in Chunks /\ chunk \in claimed
      /\ available \in Seq(Chunks) /\ generated \in Seq(Chunks)
      /\ chunk \notin Elements(available) /\ Distinct(available)
      /\ InFlight = {}
  BY DEF UnclaimPush, IInv, TypeOK, OnePlace, CallsConsistent, InFlight
<1>2. /\ claimed' = claimed /\ heap' = heap /\ strayed' = strayed
      /\ kill_thread' = kill_thread /\ generated' = generated
      /\ generated_chunks' = generated_chunks /\ thread' = thread
      /\ chunkCount' = chunkCount
  BY DEF UnclaimPush, threadVars
<1>3. Elements(generated') = Elements(generated)
  BY <1>2
<1>4. CASE Full(available, MaxChunks)
  <2>1. /\ client' = "idle" /\ chunk' = NoChunk /\ result' = "ERR_FULL"
        /\ available' = available /\ InFlight' = {}
    BY <1>4 DEF UnclaimPush, InFlight
  <2>2. TypeOK'
    BY <1>2, <2>1 DEF IInv, TypeOK, Results
  <2>3. OnePlace' /\ Accounted'
    BY <1>1, <1>2, <1>3, <2>1 DEF IInv, OnePlace, Accounted
  <2>4. Bounded' /\ Counted' /\ RefillFits' /\ CallsConsistent'
    BY <1>1, <1>2, <2>1 DEF IInv, Bounded, Counted, RefillFits, CallsConsistent
  <2>5. QED
    BY <2>2, <2>3, <2>4 DEF IInv
<1>5. CASE ~Full(available, MaxChunks)
  <2>1. /\ client' = "remove" /\ chunk' = chunk /\ result' = result
        /\ available' = Pushed(available, chunk) /\ InFlight' = {}
    BY <1>5 DEF UnclaimPush, InFlight
  <2>2. /\ available' \in Seq(Chunks)
        /\ Len(available') = Len(available) + 1
        /\ Elements(available') = Elements(available) \cup {chunk}
        /\ Distinct(available')
    <3>1. /\ Pushed(available, chunk) \in Seq(Chunks)
          /\ Len(Pushed(available, chunk)) = Len(available) + 1
          /\ Elements(Pushed(available, chunk)) = Elements(available) \cup {chunk}
          /\ Distinct(Pushed(available, chunk))
      BY <1>1, PushedStack
    <3>2. QED
      BY <2>1, <3>1, Zenon
  <2>3. TypeOK'
    BY <1>1, <1>2, <2>1, <2>2 DEF IInv, TypeOK
  <2>4. OnePlace' /\ Accounted'
    BY <1>1, <1>2, <1>3, <2>1, <2>2 DEF IInv, OnePlace, Accounted
  <2>5. Counted'
    <3>1. Len(available) + Len(generated) + Cardinality(claimed)
            + Cardinality(strayed) = generated_chunks
      BY <1>1, Counts DEF IInv, Counted
    <3>2. Len(available') + Len(generated') + Cardinality(claimed')
            + Cardinality(strayed') + 0 = generated_chunks' + 1
      BY <1>2, <2>2, <3>1, Counts
    <3>3. QED
      BY <2>1, <3>2 DEF Counted
  <2>6. Bounded' /\ RefillFits' /\ CallsConsistent'
    BY <1>1, <1>2, <2>1 DEF IInv, Bounded, RefillFits, CallsConsistent
  <2>7. QED
    BY <2>3, <2>4, <2>5, <2>6 DEF IInv
<1>6. QED
  BY <1>4, <1>5

LEMMA UnclaimRemoveIInv == IInv /\ UnclaimRemove => IInv'
<1> SUFFICES ASSUME IInv, UnclaimRemove PROVE IInv'
  OBVIOUS
<1>1. /\ client = "remove" /\ chunk \in Chunks /\ chunk \in claimed
      /\ claimed \in SUBSET Chunks /\ InFlight = {}
      /\ Elements(available) \cap claimed = {chunk}
  BY DEF UnclaimRemove, IInv, TypeOK, OnePlace, CallsConsistent, InFlight
<1>2. /\ client' = "idle" /\ chunk' = NoChunk /\ result' = "NO_ERROR"
      /\ InFlight' = {}
      /\ heap' = heap /\ strayed' = strayed /\ available' = available
      /\ kill_thread' = kill_thread /\ generated' = generated
      /\ generated_chunks' = generated_chunks /\ thread' = thread
      /\ chunkCount' = chunkCount
  BY DEF UnclaimRemove, threadVars, InFlight
<1>3. claimed' = claimed \ {chunk}
  BY DEF UnclaimRemove
<1>4. /\ Elements(generated') = Elements(generated)
      /\ Elements(available') = Elements(available)
  BY <1>2
<1>5. TypeOK'
  BY <1>2, <1>3 DEF IInv, TypeOK, Results
<1>6. OnePlace'
  BY <1>1, <1>2, <1>3, <1>4 DEF IInv, OnePlace
<1>7. Accounted'
  BY <1>1, <1>2, <1>3, <1>4 DEF IInv, Accounted
<1>8. Counted'
  <2>1. Cardinality(claimed') = Cardinality(claimed \ {chunk})
    BY <1>3, Zenon
  <2>2. Cardinality(claimed \ {chunk}) = Cardinality(claimed) - 1
    BY <1>1, ChunkSets
  <2>3. Len(available) + Len(generated) + Cardinality(claimed)
          + Cardinality(strayed) = generated_chunks + 1
    BY <1>1, Counts DEF IInv, Counted
  <2>4. Cardinality(claimed') = Cardinality(claimed) - 1
    BY <2>1, <2>2
  <2>5. Len(available') + Len(generated') + Cardinality(claimed')
          + Cardinality(strayed') + 0 = generated_chunks' + 0
    BY <1>2, <2>3, <2>4, Counts
  <2>6. QED
    BY <1>2, <2>5 DEF Counted
<1>9. Bounded' /\ RefillFits' /\ CallsConsistent'
  BY <1>2 DEF IInv, Bounded, RefillFits, CallsConsistent
<1>10. QED
  BY <1>5, <1>6, <1>7, <1>8, <1>9 DEF IInv

LEMMA ReleaseKillIInv == IInv /\ ReleaseKill => IInv'
<1> SUFFICES ASSUME IInv, ReleaseKill PROVE IInv'
  OBVIOUS
<1>1. InFlight = {} /\ InFlight' = {}
  BY DEF InFlight, ReleaseKill
<1>2. Elements(available') = Elements(available)
      /\ Elements(generated') = Elements(generated)
  BY DEF ReleaseKill, threadVars
<1>3. TypeOK'
  BY DEF ReleaseKill, threadVars, IInv, TypeOK, Results
<1>4. OnePlace' /\ Accounted'
  BY <1>1, <1>2 DEF ReleaseKill, threadVars, IInv, OnePlace, Accounted
<1>5. Bounded' /\ Counted' /\ RefillFits' /\ CallsConsistent'
  BY DEF ReleaseKill, threadVars, IInv, Bounded, Counted, RefillFits,
         CallsConsistent
<1>6. QED
  BY <1>3, <1>4, <1>5 DEF IInv

LEMMA ReleaseJoinIInv == IInv /\ ReleaseJoin => IInv'
<1> SUFFICES ASSUME IInv, ReleaseJoin PROVE IInv'
  OBVIOUS
<1>1. /\ client = "join" /\ thread = "exited" /\ chunk = NoChunk
      /\ InFlight = {} /\ heap \in SUBSET Chunks
  BY DEF ReleaseJoin, InFlight, IInv, TypeOK
<1>2. /\ available' = <<>> /\ generated' = <<>> /\ claimed' = {}
      /\ client' = "released" /\ chunk' = chunk /\ strayed' = strayed
      /\ generated_chunks' = generated_chunks /\ kill_thread' = kill_thread
      /\ result' = result /\ thread' = thread /\ chunkCount' = chunkCount
      /\ heap' = heap \ (Elements(generated) \cup Elements(available) \cup claimed)
  BY DEF ReleaseJoin
<1>3. /\ Elements(available') = {} /\ Elements(generated') = {}
      /\ Distinct(available') /\ Distinct(generated') /\ InFlight' = {}
  BY <1>2 DEF Elements, Distinct, InFlight
<1>4. TypeOK'
  <2>1. available' \in Seq(Chunks) /\ generated' \in Seq(Chunks)
    BY <1>2
  <2>2. heap' \in SUBSET Chunks /\ claimed' \in SUBSET Chunks
    BY <1>1, <1>2
  <2>3. QED
    BY <1>1, <1>2, <2>1, <2>2 DEF IInv, TypeOK
<1>5. OnePlace'
  BY <1>2, <1>3 DEF OnePlace
<1>6. Accounted'
  BY <1>1, <1>2, <1>3 DEF IInv, Accounted, OnePlace
<1>7. Bounded'
  <2>1. heap' \in SUBSET heap /\ heap' \in SUBSET Chunks
    BY <1>1, <1>2
  <2>2. Cardinality(heap') <= Cardinality(heap) /\ Cardinality(heap') \in Nat
    BY <1>1, <2>1, ChunkSets, FiniteChunks
  <2>3. QED
    BY <1>2, <2>2, Counts DEF IInv, Bounded
<1>8. Counted' /\ RefillFits' /\ CallsConsistent'
  BY <1>1, <1>2 DEF Counted, RefillFits, CallsConsistent
<1>9. QED
  BY <1>4, <1>5, <1>6, <1>7, <1>8 DEF IInv

-----------------------------------------------------------------------------
(* Every step of the generator keeps the invariant. *)

LEMMA ThreadCheckIInv == IInv /\ ThreadCheck => IInv'
<1> SUFFICES ASSUME IInv, ThreadCheck PROVE IInv'
  OBVIOUS
<1> USE DEF ThreadCheck, clientVars
<1>1. InFlight' = InFlight
  BY DEF InFlight
<1>2. Elements(available') = Elements(available)
      /\ Elements(generated') = Elements(generated)
  OBVIOUS
<1>3. TypeOK'
  BY DEF IInv, TypeOK
<1>4. OnePlace' /\ Accounted'
  BY <1>1, <1>2 DEF IInv, OnePlace, Accounted
<1>5. Bounded' /\ Counted' /\ RefillFits' /\ CallsConsistent'
  BY DEF IInv, Bounded, Counted, RefillFits, CallsConsistent
<1>6. QED
  BY <1>3, <1>4, <1>5 DEF IInv

LEMMA ThreadSleepIInv == IInv /\ ThreadSleep => IInv'
<1> SUFFICES ASSUME IInv, ThreadSleep PROVE IInv'
  OBVIOUS
<1> USE DEF ThreadSleep, clientVars
<1>1. InFlight' = InFlight
  BY DEF InFlight
<1>2. Elements(available') = Elements(available)
      /\ Elements(generated') = Elements(generated)
  OBVIOUS
<1>3. TypeOK'
  BY DEF IInv, TypeOK
<1>4. OnePlace' /\ Accounted'
  BY <1>1, <1>2 DEF IInv, OnePlace, Accounted
<1>5. Bounded' /\ Counted' /\ RefillFits' /\ CallsConsistent'
  BY DEF IInv, Bounded, Counted, RefillFits, CallsConsistent
<1>6. QED
  BY <1>3, <1>4, <1>5 DEF IInv

LEMMA ThreadGeneratedIInv == IInv /\ ThreadGenerated => IInv'
<1> SUFFICES ASSUME IInv, ThreadGenerated PROVE IInv'
  OBVIOUS
<1> USE DEF ThreadGenerated, clientVars
<1>1. InFlight' = InFlight
  BY DEF InFlight
<1>2. Elements(available') = Elements(available)
      /\ Elements(generated') = Elements(generated)
  OBVIOUS
<1>3. TypeOK'
  BY DEF IInv, TypeOK
<1>4. OnePlace' /\ Accounted'
  BY <1>1, <1>2 DEF IInv, OnePlace, Accounted
<1>5. Bounded' /\ Counted' /\ RefillFits' /\ CallsConsistent'
  BY DEF IInv, Bounded, Counted, RefillFits, CallsConsistent
<1>6. QED
  BY <1>3, <1>4, <1>5 DEF IInv

LEMMA ThreadCountIInv == IInv /\ ThreadCount => IInv'
<1> SUFFICES ASSUME IInv, ThreadCount PROVE IInv'
  OBVIOUS
<1>1. /\ available' = available /\ generated' = generated /\ heap' = heap
      /\ generated_chunks' = generated_chunks /\ kill_thread' = kill_thread
      /\ claimed' = claimed /\ client' = client /\ chunk' = chunk
      /\ result' = result /\ strayed' = strayed /\ thread = "count"
  BY DEF ThreadCount, clientVars
<1>2. /\ Elements(available') = Elements(available)
      /\ Elements(generated') = Elements(generated)
      /\ InFlight' = InFlight
  BY <1>1 DEF InFlight
<1>3. generated = <<>> /\ Len(generated) = 0
  BY <1>1 DEF IInv, RefillFits
<1>4. CASE MinReserve > Len(available)
  <2>1. thread' = "generate" /\ chunkCount' = Wanted(Len(available))
    BY <1>4 DEF ThreadCount
  <2>2. /\ MinReserve \in Nat /\ MaxReserve \in Nat /\ MaxChunks \in Nat
        /\ MinReserve <= MaxReserve
    BY PoolAssumption
  <2>3. generated_chunks <= MaxChunks
    BY DEF IInv, Bounded
  <2>4. /\ chunkCount' \in Nat
        /\ chunkCount' <= MaxReserve
        /\ generated_chunks + chunkCount' <= MaxChunks
    BY <1>4, <2>1, <2>2, <2>3, Counts DEF Wanted
  <2>5. TypeOK'
    BY <1>1, <2>1, <2>4 DEF IInv, TypeOK
  <2>6. RefillFits'
    BY <1>1, <1>3, <2>1, <2>4, Counts DEF RefillFits
  <2>7. CallsConsistent'
    BY <1>1, <2>1 DEF IInv, CallsConsistent
  <2>8. QED
    BY <1>1, <1>2, <2>5, <2>6, <2>7 DEF IInv, OnePlace, Accounted, Bounded, Counted
<1>5. CASE ~(MinReserve > Len(available))
  <2>1. thread' = "move" /\ chunkCount' = chunkCount
    BY <1>5 DEF ThreadCount
  <2>2. TypeOK' /\ RefillFits' /\ CallsConsistent'
    BY <1>1, <2>1 DEF IInv, TypeOK, RefillFits, CallsConsistent
  <2>3. QED
    BY <1>1, <1>2, <2>2 DEF IInv, OnePlace, Accounted, Bounded, Counted
<1>6. QED
  BY <1>4, <1>5

LEMMA ThreadGenerateIInv == IInv /\ ThreadGenerate => IInv'
<1> SUFFICES ASSUME IInv, ThreadGenerate PROVE IInv'
  OBVIOUS
<1>1. /\ available' = available /\ kill_thread' = kill_thread
      /\ claimed' = claimed /\ client' = client /\ chunk' = chunk
      /\ result' = result /\ strayed' = strayed
      /\ thread = "generate" /\ chunkCount > 0 /\ chunkCount' = chunkCount - 1
      /\ InFlight' = InFlight
  BY DEF ThreadGenerate, clientVars, InFlight
<1>2. /\ chunkCount' \in Nat
      /\ Len(generated) + chunkCount <= MaxReserve
      /\ generated_chunks + chunkCount <= MaxChunks
      /\ MaxReserve \in Nat /\ MaxChunks \in Nat
      /\ client # "released"
  <2>1. chunkCount' \in Nat
    BY <1>1, Counts
  <2>2. MaxReserve \in Nat /\ MaxChunks \in Nat
    BY PoolAssumption
  <2>3. QED
    BY <1>1, <2>1, <2>2 DEF IInv, RefillFits, CallsConsistent
<1>3. ~Full(generated, MaxReserve)
  BY <1>1, <1>2, Counts DEF Full
<1>4. CASE \E c \in Chunks \ heap :
             /\ generated' = Pushed(generated, c)
             /\ generated_chunks' = generated_chunks + 1
             /\ heap' = heap \cup {c}
             /\ thread' = thread
  <2>1. PICK c \in Chunks \ heap :
             /\ generated' = Pushed(generated, c)
             /\ generated_chunks' = generated_chunks + 1
             /\ heap' = heap \cup {c}
             /\ thread' = thread
    BY <1>4
  <2>2. /\ c \notin Elements(available) /\ c \notin Elements(generated)
        /\ c \notin claimed /\ c \notin strayed /\ c \notin InFlight
    BY <2>1 DEF IInv, Accounted
  <2>3. generated \in Seq(Chunks) /\ Distinct(generated) /\ c \in Chunks
    BY DEF IInv, TypeOK, OnePlace
  <2>4. /\ generated' \in Seq(Chunks)
        /\ Len(generated') = Len(generated) + 1
        /\ Elements(generated') = Elements(generated) \cup {c}
        /\ Distinct(generated')
    BY <2>1, <2>2, <2>3, PushedStack
  <2>5. Elements(available') = Elements(available)
    BY <1>1
  <2>6. TypeOK'
    <3>1. heap' \in SUBSET Chunks /\ generated_chunks' \in Nat
      BY <2>1, Counts DEF IInv, TypeOK
    <3>2. QED
      BY <1>1, <1>2, <2>1, <2>4, <3>1 DEF IInv, TypeOK
  <2>7. OnePlace'
    <3>1. Elements(available') \cap Elements(generated') = {}
      BY <2>2, <2>4, <2>5 DEF IInv, OnePlace
    <3>2. Elements(generated') \cap claimed' = {}
      BY <1>1, <2>2, <2>4 DEF IInv, OnePlace
    <3>3. InFlight' \cap (Elements(available') \cup Elements(generated')
                             \cup claimed') = {}
      BY <1>1, <2>2, <2>4, <2>5 DEF IInv, OnePlace
    <3>4. strayed' \cap (Elements(available') \cup Elements(generated')
                            \cup claimed' \cup InFlight') = {}
      BY <1>1, <2>2, <2>4, <2>5 DEF IInv, OnePlace
    <3>5. QED
      BY <1>1, <2>4, <2>5, <3>1, <3>2, <3>3, <3>4 DEF IInv, OnePlace
  <2>8. Accounted'
    BY <1>1, <2>1, <2>4, <2>5 DEF IInv, Accounted
  <2>9. Bounded'
    <3>1. Cardinality(heap') = Cardinality(heap \cup {c})
      BY <2>1, Zenon
    <3>2. Cardinality(heap \cup {c}) = Cardinality(heap) + 1
      BY <2>1, ChunkSets DEF IInv, TypeOK
    <3>3. Cardinality(heap) <= generated_chunks
      BY DEF IInv, Bounded
    <3>4. Cardinality(heap') = Cardinality(heap) + 1
      BY <3>1, <3>2
    <3>5. Cardinality(heap') <= generated_chunks'
      BY <2>1, <3>3, <3>4, Counts
    <3>6. generated_chunks' <= MaxChunks
      BY <1>1, <1>2, <2>1, Counts
    <3>7. QED
      BY <3>5, <3>6 DEF Bounded
  <2>10. Counted'
    <3>1. Len(available) + Len(generated) + Cardinality(claimed)
            + Cardinality(strayed) + (IF client = "insert" THEN 1 ELSE 0)
          = generated_chunks + (IF client = "remove" THEN 1 ELSE 0)
      BY <1>2 DEF IInv, Counted
    <3>2. Len(available') + Len(generated') + Cardinality(claimed')
            + Cardinality(strayed') + (IF client' = "insert" THEN 1 ELSE 0)
          = generated_chunks' + (IF client' = "remove" THEN 1 ELSE 0)
      BY <1>1, <2>1, <2>4, <3>1, Counts
    <3>3. QED
      BY <3>2 DEF Counted
  <2>11. RefillFits' /\ CallsConsistent'
    BY <1>1, <1>2, <2>1, <2>4, Counts DEF IInv, RefillFits, CallsConsistent
  <2>12. QED
    BY <2>6, <2>7, <2>8, <2>9, <2>10, <2>11 DEF IInv
<1>5. CASE /\ thread' = "exited"
           /\ UNCHANGED <<generated, generated_chunks, heap>>
  <2>1. /\ Elements(available') = Elements(available)
        /\ Elements(generated') = Elements(generated)
    BY <1>1, <1>5
  <2>2. TypeOK' /\ RefillFits' /\ CallsConsistent'
    BY <1>1, <1>2, <1>5 DEF IInv, TypeOK, RefillFits, CallsConsistent
  <2>3. QED
    BY <1>1, <1>5, <2>1, <2>2 DEF IInv, OnePlace, Accounted, Bounded, Counted
<1>6. QED
  BY <1>3, <1>4, <1>5 DEF ThreadGenerate

(* A consequence of the count: moving the generated chunks to the available  *)
(* stack cannot overflow it, and neither can an unclaim.                     *)
LEMMA RoomByCount == IInv => RoomToPush
<1> SUFFICES ASSUME IInv PROVE RoomToPush
  OBVIOUS
<1>1. MaxReserve \in Nat /\ MaxChunks \in Nat
  BY PoolAssumption
<1>2. generated_chunks <= MaxChunks
  BY DEF IInv, Bounded
<1>3. client \in {"push", "remove"} => Cardinality(claimed) >= 1
  <2>1. ASSUME client \in {"push", "remove"} PROVE Cardinality(claimed) >= 1
    <3>1. chunk \in claimed /\ claimed \in SUBSET Chunks
      BY <2>1 DEF IInv, CallsConsistent, TypeOK
    <3>2. IsFiniteSet(claimed) /\ Cardinality(claimed) \in Nat
      BY <3>1, FiniteChunks
    <3>3. Cardinality(claimed) # 0
      BY <3>1, <3>2, FS_EmptySet
    <3>4. QED
      BY <3>2, <3>3
  <2>2. QED
    BY <2>1
<1>4. client = "push" => ~Full(available, MaxChunks)
  BY <1>1, <1>2, <1>3, Counts DEF IInv, Counted, Full
<1>5. thread = "generate" /\ chunkCount > 0 => ~Full(generated, MaxReserve)
  BY <1>1, Counts DEF IInv, RefillFits, Full
<1>6. thread = "move" => Len(available) + Len(generated) <= MaxChunks
  <2> SUFFICES ASSUME thread = "move"
               PROVE  Len(available) + Len(generated) <= MaxChunks
    OBVIOUS
  <2>1. client # "released"
    BY DEF IInv, CallsConsistent
  <2>2. CASE client = "remove"
    BY <1>1, <1>2, <1>3, <2>1, <2>2, Counts DEF IInv, Counted
  <2>3. CASE client # "remove"
    BY <1>1, <1>2, <2>1, <2>3, Counts DEF IInv, Counted
  <2>4. QED
    BY <2>2, <2>3
<1>7. QED
  BY <1>4, <1>5, <1>6 DEF RoomToPush

LEMMA ThreadMoveIInv == IInv /\ ThreadMove => IInv'
<1> SUFFICES ASSUME IInv, ThreadMove PROVE IInv'
  OBVIOUS
<1>1. /\ generated_chunks' = generated_chunks /\ heap' = heap
      /\ kill_thread' = kill_thread
      /\ claimed' = claimed /\ client' = client /\ chunk' = chunk
      /\ result' = result /\ strayed' = strayed
      /\ thread = "move" /\ InFlight' = InFlight
  BY DEF ThreadMove, clientVars, InFlight
<1>2. Len(generated) <= MaxChunks - Len(available) /\ MaxChunks \in Nat
  <2>1. MaxChunks \in Nat
    BY PoolAssumption
  <2>2. Len(available) + Len(generated) <= MaxChunks
    BY <1>1, RoomByCount DEF RoomToPush
  <2>3. QED
    BY <2>1, <2>2, Counts
<1>3. /\ available' = available \o PopOrder(generated, Len(generated))
      /\ generated' = SubSeq(generated, 1, 0)
      /\ thread' = "sleep"
      /\ chunkCount' = Len(generated) - Len(generated)
  BY <1>2 DEF ThreadMove
<1>4. /\ available \in Seq(Chunks) /\ generated \in Seq(Chunks)
      /\ Distinct(available) /\ Distinct(generated)
      /\ Elements(available) \cap Elements(generated) = {}
  BY DEF IInv, TypeOK, OnePlace
<1>5. /\ available' \in Seq(Chunks)
      /\ Len(available') = Len(available) + Len(generated)
      /\ Elements(available') = Elements(available) \cup Elements(generated)
      /\ Distinct(available')
  <2> DEFINE t == available \o PopOrder(generated, Len(generated))
  <2>1. /\ t \in Seq(Chunks)
        /\ Len(t) = Len(available) + Len(generated)
        /\ Elements(t) = Elements(available) \cup Elements(generated)
        /\ Distinct(t)
    BY <1>4, MovedStack, Zenon
  <2>2. QED
    BY <1>3, <2>1, Zenon
<1>6. generated' = <<>>
  BY <1>3, SubSeqEmpty
<1>7. /\ generated' \in Seq(Chunks) /\ Len(generated') = 0
      /\ Elements(generated') = {} /\ Distinct(generated')
  BY <1>6 DEF Elements, Distinct
<1>8. TypeOK'
  <2>1. chunkCount' \in Nat
    BY <1>3, Counts
  <2>2. QED
    BY <1>1, <1>3, <1>5, <1>7, <2>1 DEF IInv, TypeOK
<1>9. OnePlace'
  BY <1>1, <1>5, <1>7 DEF IInv, OnePlace
<1>10. Accounted'
  BY <1>1, <1>5, <1>7 DEF IInv, Accounted
<1>11. Counted'
  BY <1>1, <1>5, <1>7, Counts DEF IInv, Counted
<1>12. Bounded' /\ RefillFits' /\ CallsConsistent'
  BY <1>1, <1>3, <1>6 DEF IInv, Bounded, RefillFits, CallsConsistent
<1>13. QED
  BY <1>8, <1>9, <1>10, <1>11, <1>12 DEF IInv

(* A step that changes nothing. *)
LEMMA StutterIInv == IInv /\ UNCHANGED vars => IInv'
<1> SUFFICES ASSUME IInv, UNCHANGED vars PROVE IInv'
  OBVIOUS
<1> USE DEF vars
<1>1. InFlight' = InFlight
  BY DEF InFlight
<1>2. Elements(available') = Elements(available)
      /\ Elements(generated') = Elements(generated)
  OBVIOUS
<1>3. TypeOK'
  BY DEF IInv, TypeOK
<1>4. OnePlace' /\ Accounted'
  BY <1>1, <1>2 DEF IInv, OnePlace, Accounted
<1>5. Bounded' /\ Counted' /\ RefillFits' /\ CallsConsistent'
  BY DEF IInv, Bounded, Counted, RefillFits, CallsConsistent
<1>6. QED
  BY <1>3, <1>4, <1>5 DEF IInv

-----------------------------------------------------------------------------
(* IInv holds in every state, for every set of chunks, every reserve and     *)
(* every choice of failing calls: memory_pool.c as a whole.                  *)
THEOREM PoolInvariant == Spec => []IInv
<1>1. Init => IInv
  BY InitIInv
<1>2. IInv /\ [Next]_vars => IInv'
  <2> SUFFICES ASSUME IInv, [Next]_vars PROVE IInv'
    OBVIOUS
  <2>1. CASE Claim
    <3>1. CASE ClaimPop
      BY <3>1, ClaimPopIInv
    <3>2. CASE ClaimEmpty
      BY <3>2 DEF ClaimEmpty, IInv, TypeOK, OnePlace, Accounted, Bounded,
                  Counted, RefillFits, CallsConsistent, InFlight, Distinct,
                  Elements, Results
    <3>3. CASE ClaimInsert
      BY <3>3, ClaimInsertIInv
    <3>4. QED
      BY <2>1, <3>1, <3>2, <3>3 DEF Claim
  <2>2. CASE Unclaim
    BY <2>2, UnclaimFindIInv, UnclaimPushIInv, UnclaimRemoveIInv DEF Unclaim
  <2>3. CASE Release
    BY <2>3, ReleaseKillIInv, ReleaseJoinIInv DEF Release
  <2>4. CASE Thread
    BY <2>4, ThreadCheckIInv, ThreadCountIInv, ThreadGenerateIInv,
       ThreadGeneratedIInv, ThreadMoveIInv, ThreadSleepIInv DEF Thread
  <2>5. CASE Done
    BY <2>5, StutterIInv DEF Done
  <2>6. CASE UNCHANGED vars
    BY <2>6, StutterIInv
  <2>7. QED
    BY <2>1, <2>2, <2>3, <2>4, <2>5, <2>6 DEF Next, Client
<1>3. QED
  BY <1>1, <1>2, PTL DEF Spec

(* The values the variables range over. *)
THEOREM PoolTypeOK == Spec => []TypeOK
<1>1. IInv => TypeOK
  BY DEF IInv
<1>2. QED
  BY <1>1, PoolInvariant, PTL

(* No chunk is handed out twice or freed twice: memory_pool_claim,           *)
(* memory_pool_unclaim, memory_pool_release against the generator.           *)
THEOREM PoolOnePlace == Spec => []OnePlace
<1>1. IInv => OnePlace
  BY DEF IInv
<1>2. QED
  BY <1>1, PoolInvariant, PTL

(* No chunk is forgotten, and memory_pool_release frees them all.            *)
THEOREM PoolAccounted == Spec => []Accounted
<1>1. IInv => Accounted
  BY DEF IInv
<1>2. QED
  BY <1>1, PoolInvariant, PTL

(* The pool stays within maxBytes.                                           *)
THEOREM PoolBounded == Spec => []Bounded
<1>1. IInv => Bounded
  BY DEF IInv
<1>2. QED
  BY <1>1, PoolInvariant, PTL

(* No push in memory_pool.c ever meets a full stack.                         *)
THEOREM PoolRoomToPush == Spec => []RoomToPush
BY RoomByCount, PoolInvariant, PTL

(* When no library call fails, the generator exits only after the release    *)
(* asked for it: none of its own error exits can be reached.                 *)
THEOREM PoolGeneratorSurvives ==
    ASSUME Faults = {}
    PROVE  Spec => GeneratorSurvives
<1>1. IInv /\ [Next]_vars
        => [thread' = "exited" /\ thread # "exited" => kill_thread]_vars
  <2> SUFFICES ASSUME IInv, Next, thread' = "exited", thread # "exited"
               PROVE  kill_thread
    OBVIOUS
  <2>1. CASE ThreadCheck
    BY <2>1 DEF ThreadCheck
  <2>2. CASE ThreadGenerate
    BY <2>2, RoomByCount DEF ThreadGenerate, RoomToPush
  <2>3. CASE ThreadMove
    <3>1. thread = "move" /\ MaxChunks \in Nat
      BY <2>3, PoolAssumption DEF ThreadMove
    <3>2. Len(generated) <= MaxChunks - Len(available)
      BY <3>1, RoomByCount, Counts DEF RoomToPush
    <3>3. thread' = "sleep"
      BY <2>3, <3>2 DEF ThreadMove
    <3>4. QED
      BY <3>3
  <2>4. QED
    BY <2>1, <2>2, <2>3
       DEF Next, Client, Claim, Unclaim, Release, Thread, Done, vars, threadVars,
           ClaimPop, ClaimEmpty, ClaimInsert, UnclaimFind, UnclaimPush,
           UnclaimRemove, ReleaseKill, ReleaseJoin, ThreadCount,
           ThreadGenerated, ThreadSleep
<1>2. QED
  BY <1>1, PoolInvariant, PTL DEF Spec, GeneratorSurvives

-----------------------------------------------------------------------------
(* MemoryPool implements ChunkAllocator.                                     *)

Spare == (Elements(available) \cup Elements(generated)) \ claimed
Held == claimed \cup InFlight

(* A step that touches neither the stacks nor the tree nor the call is none  *)
(* to the allocator.                                                         *)
LEMMA QuietStep ==
    ASSUME Spare' = Spare, Held' = Held, strayed' = strayed,
           (client # "released")' = (client # "released")
    PROVE  UNCHANGED Allocator!vars
BY DEF Allocator!vars, Spare, Held

LEMMA ClientRefines == IInv /\ Client => [Allocator!Next]_(Allocator!vars)
<1> SUFFICES ASSUME IInv, Client PROVE [Allocator!Next]_(Allocator!vars)
  OBVIOUS
<1>1. CASE ClaimPop
  <2>1. /\ client = "idle" /\ available \in Seq(Chunks) /\ available # <<>>
        /\ Distinct(available) /\ InFlight = {}
        /\ Elements(available) \cap claimed = {}
        /\ Elements(available) \cap Elements(generated) = {}
    BY <1>1 DEF ClaimPop, IInv, TypeOK, OnePlace, InFlight
  <2>2. /\ generated' = generated /\ claimed' = claimed /\ strayed' = strayed
        /\ client' = "insert" /\ InFlight' = {chunk'}
        /\ available' = Popped(available) /\ chunk' = Top(available)
    BY <1>1 DEF ClaimPop, InFlight
  <2>3. /\ chunk' \in Chunks
        /\ Elements(available) = Elements(available') \cup {chunk'}
        /\ chunk' \notin Elements(available')
    BY <2>1, <2>2, PoppedStack
  <2>4. Elements(generated') = Elements(generated)
    BY <2>2
  <2>5. /\ chunk' \in Spare /\ Spare' = Spare \ {chunk'}
        /\ Held' = Held \cup {chunk'}
    BY <2>1, <2>2, <2>3, <2>4 DEF Spare, Held
  <2>6. Allocator!Acquire(chunk')
    BY <2>1, <2>2, <2>5 DEF Allocator!Acquire, Spare, Held
  <2>7. QED
    BY <2>3, <2>6 DEF Allocator!Next
<1>2. CASE ClaimEmpty
  BY <1>2, QuietStep DEF ClaimEmpty, Spare, Held, InFlight, Elements
<1>3. CASE ClaimInsert
  <2>1. /\ client = "insert" /\ client' = "idle" /\ chunk \in Chunks
        /\ InFlight = {chunk} /\ InFlight' = {} /\ chunk \notin claimed
        /\ chunk \notin Elements(available) /\ chunk \notin Elements(generated)
    BY <1>3 DEF ClaimInsert, IInv, TypeOK, OnePlace, InFlight
  <2>2. /\ Elements(available') = Elements(available)
        /\ Elements(generated') = Elements(generated)
    BY <1>3 DEF ClaimInsert, threadVars
  <2>3. CASE claimed' = claimed \cup {chunk} /\ strayed' = strayed
    <3>1. Spare' = Spare /\ Held' = Held
      BY <2>1, <2>2, <2>3 DEF Spare, Held
    <3>2. QED
      BY <2>1, <2>3, <3>1, QuietStep
  <2>4. CASE claimed' = claimed /\ strayed' = strayed \cup {chunk}
    <3>1. /\ chunk \in Held /\ Held' = Held \ {chunk} /\ Spare' = Spare
      BY <2>1, <2>2, <2>4 DEF Spare, Held
    <3>2. Allocator!Stray(chunk)
      BY <2>1, <2>4, <3>1 DEF Allocator!Stray, Spare, Held
    <3>3. QED
      BY <2>1, <3>2 DEF Allocator!Next
  <2>5. QED
    BY <1>3, <2>3, <2>4 DEF ClaimInsert
<1>4. ASSUME NEW c \in Chunks, UnclaimFind(c)
      PROVE  [Allocator!Next]_(Allocator!vars)
  <2>1. /\ available' = available /\ generated' = generated
        /\ claimed' = claimed /\ strayed' = strayed
        /\ client = "idle" /\ client' \in {"idle", "push"}
        /\ InFlight = {} /\ InFlight' = {}
    BY <1>4 DEF UnclaimFind, threadVars, InFlight
  <2>2. Spare' = Spare /\ Held' = Held
    BY <2>1 DEF Spare, Held
  <2>3. QED
    BY <2>1, <2>2, QuietStep
<1>5. CASE UnclaimPush
  <2>1. /\ client = "push" /\ chunk \in claimed /\ chunk \in Chunks
        /\ available \in Seq(Chunks) /\ InFlight = {}
    BY <1>5 DEF UnclaimPush, IInv, TypeOK, CallsConsistent, InFlight
  <2>2. /\ generated' = generated /\ claimed' = claimed /\ strayed' = strayed
        /\ client' \in {"idle", "remove"} /\ InFlight' = {}
        /\ available' = available \/ available' = Pushed(available, chunk)
    BY <1>5 DEF UnclaimPush, threadVars, InFlight
  <2>3. \/ Elements(available') = Elements(available)
        \/ Elements(available') = Elements(available) \cup {chunk}
    <3>1. CASE available' = available
      BY <3>1
    <3>2. CASE available' = Pushed(available, chunk)
      <4>1. Elements(Pushed(available, chunk)) = Elements(available) \cup {chunk}
        BY <2>1, PushedStack
      <4>2. QED
        BY <3>2, <4>1, Zenon
    <3>3. QED
      BY <2>2, <3>1, <3>2
  <2>4. Spare' = Spare /\ Held' = Held
    BY <2>1, <2>2, <2>3 DEF Spare, Held
  <2>5. QED
    BY <2>1, <2>2, <2>4, QuietStep
<1>6. CASE UnclaimRemove
  <2>1. /\ client = "remove" /\ chunk \in Chunks /\ chunk \in claimed
        /\ InFlight = {} /\ Elements(available) \cap claimed = {chunk}
        /\ Elements(generated) \cap claimed = {}
    BY <1>6 DEF UnclaimRemove, IInv, TypeOK, OnePlace, CallsConsistent, InFlight
  <2>2. /\ available' = available /\ generated' = generated
        /\ strayed' = strayed /\ client' = "idle" /\ InFlight' = {}
        /\ claimed' = claimed \ {chunk}
    BY <1>6 DEF UnclaimRemove, threadVars, InFlight
  <2>3. /\ Elements(available') = Elements(available)
        /\ Elements(generated') = Elements(generated)
    BY <2>2
  <2>4. /\ chunk \in Held /\ Held' = Held \ {chunk}
        /\ Spare' = Spare \cup {chunk}
    BY <2>1, <2>2, <2>3 DEF Spare, Held
  <2>5. Allocator!Return(chunk)
    BY <2>1, <2>2, <2>4 DEF Allocator!Return, Spare, Held
  <2>6. QED
    BY <2>1, <2>5 DEF Allocator!Next
<1>7. CASE ReleaseKill
  <2>1. /\ available' = available /\ generated' = generated
        /\ claimed' = claimed /\ strayed' = strayed
        /\ client = "idle" /\ client' = "join"
        /\ InFlight = {} /\ InFlight' = {}
    BY <1>7 DEF ReleaseKill, threadVars, InFlight
  <2>2. Spare' = Spare /\ Held' = Held
    BY <2>1 DEF Spare, Held
  <2>3. QED
    BY <2>1, <2>2, QuietStep
<1>8. CASE ReleaseJoin
  <2>1. /\ client = "join" /\ client' = "released" /\ strayed' = strayed
        /\ available' = <<>> /\ generated' = <<>> /\ claimed' = {}
        /\ InFlight' = {}
    BY <1>8 DEF ReleaseJoin, InFlight
  <2>2. Spare' = {} /\ Held' = {}
    BY <2>1 DEF Spare, Held, Elements
  <2>3. Allocator!Close
    BY <2>1, <2>2 DEF Allocator!Close, Spare, Held
  <2>4. QED
    BY <2>3 DEF Allocator!Next
<1>9. QED
  BY <1>1, <1>2, <1>3, <1>4, <1>5, <1>6, <1>7, <1>8
     DEF Client, Claim, Unclaim, Release

LEMMA ThreadRefines == IInv /\ Thread => [Allocator!Next]_(Allocator!vars)
<1> SUFFICES ASSUME IInv, Thread PROVE [Allocator!Next]_(Allocator!vars)
  OBVIOUS
<1>1. claimed' = claimed /\ strayed' = strayed /\ client' = client
      /\ InFlight' = InFlight
  BY DEF Thread, ThreadCheck, ThreadCount, ThreadGenerate, ThreadGenerated,
         ThreadMove, ThreadSleep, clientVars, InFlight
<1>2. Held' = Held
  BY <1>1 DEF Held
<1>3. CASE UNCHANGED <<available, generated>>
  <2>1. Spare' = Spare
    BY <1>1, <1>3 DEF Spare
  <2>2. QED
    BY <1>1, <1>2, <2>1, QuietStep
<1>4. CASE ThreadGenerate /\ ~UNCHANGED generated
  <2>1. thread = "generate" /\ chunkCount > 0 /\ available' = available
    BY <1>4 DEF ThreadGenerate
  <2>2. PICK c \in Chunks \ heap : generated' = Pushed(generated, c)
    BY <1>4 DEF ThreadGenerate
  <2>3. c \in Chunks /\ generated \in Seq(Chunks)
    BY DEF IInv, TypeOK
  <2>4. Elements(generated') = Elements(generated) \cup {c}
    BY <2>2, <2>3, PushedStack
  <2>5. Elements(available') = Elements(available)
    BY <2>1
  <2>6. heap = Spare \cup Held \cup strayed
    BY DEF IInv, Accounted, Spare, Held
  <2>7. /\ c \notin Spare \cup Held \cup strayed
        /\ Spare' = Spare \cup {c}
    BY <1>1, <2>2, <2>4, <2>5, <2>6 DEF Spare, Held
  <2>8. Cardinality(heap) < MaxChunks
    <3>1. MaxChunks \in Nat
      BY PoolAssumption
    <3>2. generated_chunks + chunkCount <= MaxChunks
      BY <2>1 DEF IInv, RefillFits
    <3>3. Cardinality(heap) <= generated_chunks
      BY DEF IInv, Bounded
    <3>4. QED
      BY <2>1, <3>1, <3>2, <3>3, Counts
  <2>9. Cardinality(Allocator!Existing) < MaxChunks
    BY <2>6, <2>8, Zenon DEF Allocator!Existing, Spare, Held
  <2>10. client # "released"
    BY <2>1 DEF IInv, CallsConsistent
  <2>11. Allocator!Supply(c)
    <3>1. c \notin Allocator!Existing
      BY <2>7 DEF Allocator!Existing, Spare, Held
    <3>2. QED
      BY <1>1, <1>2, <2>7, <2>9, <2>10, <3>1, Zenon
         DEF Allocator!Supply, Spare, Held, Cardinality, Allocator!Cardinality
  <2>12. QED
    BY <2>3, <2>11 DEF Allocator!Next
<1>5. CASE ThreadMove
  <2>1. thread = "move" /\ MaxChunks \in Nat
    BY <1>5, PoolAssumption DEF ThreadMove
  <2>2. Len(generated) <= MaxChunks - Len(available)
    BY <2>1, RoomByCount, Counts DEF RoomToPush
  <2>3. /\ available' = available \o PopOrder(generated, Len(generated))
        /\ generated' = SubSeq(generated, 1, 0)
    BY <1>5, <2>2 DEF ThreadMove
  <2>4. available \in Seq(Chunks) /\ generated \in Seq(Chunks)
    BY DEF IInv, TypeOK
  <2>5. Elements(available') = Elements(available) \cup Elements(generated)
    BY <2>3, <2>4, MovedStack, Zenon
  <2>6. Elements(generated') = {}
    BY <2>3, SubSeqEmpty DEF Elements
  <2>7. Spare' = Spare
    BY <1>1, <2>5, <2>6 DEF Spare
  <2>8. QED
    BY <1>1, <1>2, <2>7, QuietStep
<1>6. QED
  BY <1>3, <1>4, <1>5 DEF Thread, ThreadCheck, ThreadCount, ThreadGenerate,
                          ThreadGenerated, ThreadSleep

(* memory_pool.c keeps the promise of ChunkAllocator, step for step.         *)
THEOREM PoolImplementsAllocator == Spec => ImplementsAllocator
<1>1. Init => Allocator!Init
  <2> SUFFICES ASSUME Init PROVE Allocator!Init
    OBVIOUS
  <2>1. IInv
    BY InitIInv
  <2>2. claimed = {} /\ strayed = {} /\ client = "idle" /\ generated = <<>>
    BY DEF Init
  <2>3. InFlight = {} /\ Elements(generated) = {}
    BY <2>2 DEF InFlight, Elements
  <2>4. heap = Spare /\ heap \in SUBSET Chunks /\ Held = {}
    BY <2>1, <2>2, <2>3 DEF IInv, TypeOK, Accounted, Spare, Held
  <2>5. Cardinality(heap) <= MaxChunks
    <3>1. MaxChunks \in Nat
      BY PoolAssumption
    <3>2. QED
      BY <2>1, <3>1, Counts DEF IInv, Bounded
  <2>6. Cardinality(Spare) <= MaxChunks /\ Spare \in SUBSET Chunks
    BY <2>4, <2>5, Zenon
  <2>7. QED
    <3>1. client # "released"
      BY <2>2
    <3>2. QED
      BY <2>2, <2>4, <2>6, <3>1, Zenon
         DEF Allocator!Init, Spare, Held, Cardinality, Allocator!Cardinality
<1>2. IInv /\ [Next]_vars => [Allocator!Next]_(Allocator!vars)
  <2> SUFFICES ASSUME IInv, [Next]_vars PROVE [Allocator!Next]_(Allocator!vars)
    OBVIOUS
  <2>1. CASE UNCHANGED vars
    <3>1. Spare' = Spare /\ Held' = Held /\ strayed' = strayed /\ client' = client
      BY <2>1 DEF vars, Spare, Held, InFlight, Elements
    <3>2. QED
      BY <3>1, QuietStep
  <2>2. QED
    BY <2>1, ClientRefines, ThreadRefines DEF Next, Done
<1>3. QED
  BY <1>1, <1>2, PoolInvariant, PTL DEF Spec, ImplementsAllocator, Allocator!Spec
=============================================================================
