---------------------------- MODULE RbTreeProofs ----------------------------
(***************************************************************************)
(* Theorems about RbTree, for any nodes and any keys.                       *)
(*                                                                          *)
(* The argument: a red-black tree in the order of the keys is described by   *)
(* ghosts (the set below each node, its place in the order, its black        *)
(* height) and by the links around each node alone (Shape, Balanced).  Each  *)
(* loop of the code repairs one place of such a description, the place moves *)
(* up, and the subtree of it grows (Fixing, Lacking): so the loop ends with a *)
(* red-black tree.  What the operators of RbTree compute along the links is   *)
(* then read off the ghosts.                                                *)
(***************************************************************************)
EXTENDS RbTree, FiniteSetTheorems, WellFoundedInduction, TLAPS

-----------------------------------------------------------------------------
(* Loops: what holds before each round, by induction over the rounds.        *)

(* A nonempty set of numbers has a least one.                                 *)
LEMMA LeastOf ==
    ASSUME NEW S \in SUBSET Nat, S # {}
    PROVE  \E n \in S : \A m \in S : n <= m
<1>1. \E n \in S : \A m \in S : ~(<<m, n>> \in OpToRel(<, Nat))
  BY NatLessThanWellFounded, WFMin
<1>2. PICK n \in S : \A m \in S : ~(<<m, n>> \in OpToRel(<, Nat))
  BY <1>1
<1>3. ASSUME NEW m \in S, m < n PROVE FALSE
  <2>1. <<m, n>> \in OpToRel(<, Nat)
    BY <1>3 DEF OpToRel
  <2>2. QED
    BY <1>2, <2>1
<1>4. QED
  BY <1>3

\* There are more rounds than a path of nodes can have.
LEMMA RoundsType == Rounds \in Nat /\ \A S \in SUBSET Nodes : IsFiniteSet(S) /\ Cardinality(S) < Rounds
<1>1. IsFiniteSet(Addresses) /\ Rounds = Cardinality(Nodes) + 2
  <2>1. IsFiniteSet(Nodes)
    BY TreeAssumption
  <2>2. Root \notin Nodes /\ Nil \notin Nodes \cup {Root}
    BY TreeAssumption
  <2>3. /\ IsFiniteSet(Nodes \cup {Root})
        /\ Cardinality(Nodes \cup {Root}) = Cardinality(Nodes) + 1
    BY <2>1, <2>2, FS_AddElement
  <2>4. /\ IsFiniteSet((Nodes \cup {Root}) \cup {Nil})
        /\ Cardinality((Nodes \cup {Root}) \cup {Nil}) = Cardinality(Nodes) + 2
    <3>1. Cardinality(Nodes) \in Nat
      BY <2>1, FS_CardinalityType
    <3>2. /\ IsFiniteSet((Nodes \cup {Root}) \cup {Nil})
          /\ Cardinality((Nodes \cup {Root}) \cup {Nil}) = Cardinality(Nodes \cup {Root}) + 1
      BY <2>2, <2>3, FS_AddElement
    <3>3. QED
      BY <2>3, <3>1, <3>2
  <2>5. Addresses = (Nodes \cup {Root}) \cup {Nil}
    BY DEF Addresses
  <2>6. QED
    BY <2>4, <2>5 DEF Rounds
<1>2. Cardinality(Nodes) \in Nat
  BY TreeAssumption, FS_CardinalityType
<1>3. \A S \in SUBSET Nodes : IsFiniteSet(S) /\ Cardinality(S) \in Nat /\ Cardinality(S) <= Cardinality(Nodes)
  BY TreeAssumption, FS_Subset, FS_CardinalityType
<1>4. QED
  BY <1>1, <1>2, <1>3

\* What the rounds of a loop lead to, each from the one before.
RoundAfter(round, start, f) ==
    [n \in 0 .. Rounds |-> IF n = 0 THEN start ELSE round[f[n - 1]]]

(* The rounds of a loop do lead to something.                                  *)
LEMMA LoopExists ==
    ASSUME NEW round, NEW start
    PROVE  \E f : f = RoundAfter(round, start, f)
<1> DEFINE wrong == {k \in Nat :
               ~\E f : f = [n \in 0 .. k |-> IF n = 0 THEN start ELSE round[f[n - 1]]]}
<1> SUFFICES ASSUME wrong # {} PROVE FALSE
  BY RoundsType DEF RoundAfter
<1>1. PICK k \in wrong : \A m \in wrong : k <= m
  <2>1. wrong \in SUBSET Nat
    OBVIOUS
  <2> HIDE DEF wrong
  <2>2. QED
    BY <2>1, LeastOf
<1>2. CASE k = 0
  <2> DEFINE f == [n \in 0 .. 0 |-> start]
  <2>1. f = [n \in 0 .. 0 |-> IF n = 0 THEN start ELSE round[f[n - 1]]]
    OBVIOUS
  <2>2. QED
    BY <1>1, <1>2, <2>1
<1>3. CASE k # 0
  <2>1. k - 1 \in Nat \ wrong
    <3>1. k \in Nat
      BY <1>1
    <3> HIDE DEF wrong
    <3>2. QED
      BY <1>1, <1>3, <3>1
  <2>2. PICK f : f = [n \in 0 .. k - 1 |-> IF n = 0 THEN start ELSE round[f[n - 1]]]
    BY <2>1
  <2> DEFINE g == [n \in 0 .. k |-> IF n = 0 THEN start ELSE round[f[n - 1]]]
  <2>3. \A n \in 0 .. k - 1 : g[n] = f[n]
    <3>1. \A n \in 0 .. k - 1 : f[n] = IF n = 0 THEN start ELSE round[f[n - 1]]
      BY <2>2
    <3>2. QED
      BY <3>1
  <2>4. \A n \in 0 .. k : (IF n = 0 THEN start ELSE round[f[n - 1]])
                        = (IF n = 0 THEN start ELSE round[g[n - 1]])
    <3> HIDE DEF g
    <3>1. QED
      BY <2>3
  <2>5. g = [n \in 0 .. k |-> IF n = 0 THEN start ELSE round[g[n - 1]]]
    BY <2>4
  <2>6. QED
    BY <1>1, <2>5
<1>4. QED
  BY <1>2, <1>3

(* What each round of a loop leads to, all rounds together lead to.            *)
LEMMA LoopInduction ==
    ASSUME NEW round, NEW start, NEW stage,
           start \in stage[0],
           \A n \in Nat : \A at \in stage[n] : round[at] \in stage[n + 1]
    PROVE  Loop(round, start) \in stage[Rounds]
<1> DEFINE after == CHOOSE f : f = RoundAfter(round, start, f)
<1>1. after = RoundAfter(round, start, after)
  BY LoopExists, Zenon
<1> HIDE DEF after
<1>2. \A n \in 0 .. Rounds : after[n] = IF n = 0 THEN start ELSE round[after[n - 1]]
  BY <1>1 DEF RoundAfter
<1>3. \A n \in 0 .. Rounds : after[n] \in stage[n]
  <2> DEFINE wrong == {n \in 0 .. Rounds : after[n] \notin stage[n]}
  <2> SUFFICES ASSUME wrong # {} PROVE FALSE
    OBVIOUS
  <2>1. PICK n \in wrong : \A m \in wrong : n <= m
    <3>1. wrong \in SUBSET Nat
      OBVIOUS
    <3> HIDE DEF wrong
    <3>2. QED
      BY <3>1, LeastOf
  <2>2. n # 0
    BY <1>2, <2>1, RoundsType
  <2>3. n - 1 \in Nat /\ n - 1 \in 0 .. Rounds /\ n - 1 \notin wrong
    BY <2>1, <2>2, RoundsType
  <2>4. round[after[n - 1]] \in stage[(n - 1) + 1]
    BY <2>3
  <2>5. QED
    BY <1>2, <2>1, <2>2, <2>3, <2>4
<1>4. Loop(round, start) = after[Rounds]
  BY Zenon DEF Loop, after, RoundAfter
<1>5. QED
  BY <1>3, <1>4, RoundsType

-----------------------------------------------------------------------------
(* The shape of a tree.  sub[n] is the set of the nodes below n, n included, *)
(* and pos[n] the place of n in the order from left to right: two ghosts     *)
(* that no step of the code keeps, and that the lemmas about its steps       *)
(* construct.                                                                *)

\* m comes on side s of n.
On(pos, s, m, n) == IF s = "left" THEN pos[m] < pos[n] ELSE pos[n] < pos[m]

Linked(t, S, sub, pos) ==
    \A n \in S, s \in Sides :
        /\ t.child[s][n] \in S \cup {Nil}
        /\ t.child[s][n] # Nil => t.parent[t.child[s][n]] = n
        /\ \A m \in S : m \in sub[t.child[s][n]] <=> m \in sub[n] /\ On(pos, s, m, n)

Rooted(t, S, sub) ==
    /\ Top(t) \in S \cup {Nil} /\ sub[Top(t)] = S
    /\ Top(t) # Nil => t.parent[Top(t)] = Root
    /\ t.child["right"][Root] = Nil

Placed(S, sub, pos) ==
    /\ S \subseteq Nodes
    /\ sub \in [Nodes \cup {Nil} -> SUBSET S] /\ pos \in [Nodes -> Int]
    /\ sub[Nil] = {} /\ \A n \in S : n \in sub[n]
    /\ \A m, n \in S : pos[m] = pos[n] => m = n

Shape(t, S, sub, pos) ==
    t \in Trees /\ Placed(S, sub, pos) /\ Rooted(t, S, sub) /\ Linked(t, S, sub, pos)

\* Root, Nil and NULL are three values, and none is a node.
LEMMA Distinct == /\ Root # Nil /\ NULL # Nil /\ NULL # Root
                  /\ Root \notin Nodes /\ Nil \notin Nodes /\ NULL \notin Nodes
  BY TreeAssumption

\* There are two sides, each the opposite of the other.
LEMMA SidesAre == /\ \A s \in Sides : Opposite(s) \in Sides /\ Opposite(s) # s /\ Opposite(Opposite(s)) = s
                  /\ \A r, s \in Sides : r = s \/ r = Opposite(s)
                  /\ "left" \in Sides /\ "right" \in Sides /\ "left" # "right"
                  /\ Opposite("left") = "right" /\ Opposite("right") = "left"
  BY DEF Sides, Opposite

\* The nodes are in a linear order, from either side.
LEMMA Order ==
    ASSUME NEW S, NEW sub, NEW pos, Placed(S, sub, pos), NEW s \in Sides
    PROVE  /\ \A m \in S : ~On(pos, s, m, m)
           /\ \A m, n \in S : On(pos, s, m, n) => ~On(pos, s, n, m)
           /\ \A m, n \in S : On(pos, Opposite(s), m, n) <=> On(pos, s, n, m)
           /\ \A m, n \in S : m = n \/ On(pos, s, m, n) \/ On(pos, s, n, m)
           /\ \A k, m, n \in S : On(pos, s, k, m) /\ On(pos, s, m, n) => On(pos, s, k, n)
  BY DEF Placed, On, Opposite, Sides

(* A child is a node of its own, and its subtree a part of its parent's.        *)
LEMMA Child ==
    ASSUME NEW t, NEW S, NEW sub, NEW pos, Shape(t, S, sub, pos),
           NEW n \in S, NEW s \in Sides
    PROVE  LET c == t.child[s][n]
           IN  /\ sub[c] \subseteq sub[n] /\ n \notin sub[c] /\ sub[c] \subseteq S /\ sub[n] \subseteq S
               /\ c # Nil => /\ c \in S /\ c \in sub[c] /\ t.parent[c] = n /\ c # n
                             /\ On(pos, s, c, n)
                             /\ t.child[Opposite(s)][n] # c
<1> DEFINE c == t.child[s][n]
<1>1. c \in S \cup {Nil} /\ (c # Nil => t.parent[c] = n)
      /\ \A m \in S : m \in sub[c] <=> m \in sub[n] /\ On(pos, s, m, n)
  BY DEF Shape, Linked
<1>2. Placed(S, sub, pos)
  BY DEF Shape
<1>3. /\ \A m \in S : ~On(pos, s, m, m)
      /\ \A m, k \in S : On(pos, s, m, k) => ~On(pos, s, k, m)
      /\ \A m, k \in S : On(pos, Opposite(s), m, k) <=> On(pos, s, k, m)
  BY <1>2, Order
<1>4. sub[c] \in SUBSET S /\ sub[n] \in SUBSET S
  BY <1>1, <1>2 DEF Placed
<1>5. c # Nil => c \in S /\ c \in sub[c]
  BY <1>1, <1>2 DEF Placed
<1> HIDE DEF c
<1>6. sub[c] \subseteq sub[n] /\ n \notin sub[c]
  BY <1>1, <1>3, <1>4
<1>7. c # Nil => c # n /\ On(pos, s, c, n)
  BY <1>1, <1>3, <1>5
<1>8. c # Nil => t.child[Opposite(s)][n] # c
  <2> SUFFICES ASSUME c # Nil, t.child[Opposite(s)][n] = c PROVE FALSE
    OBVIOUS
  <2>1. \A m \in S : m \in sub[c] <=> m \in sub[n] /\ On(pos, Opposite(s), m, n)
    <3>1. Opposite(s) \in Sides
      BY SidesAre
    <3>2. QED
      BY <3>1 DEF Shape, Linked
  <2>2. QED
    BY <1>3, <1>5, <1>7, <2>1
<1>9. QED
  BY <1>1, <1>4, <1>5, <1>6, <1>7, <1>8 DEF c

(* A subtree is finite, has less nodes than a loop has rounds, and those of  *)
(* the children are smaller.                                                 *)
LEMMA Sizes ==
    ASSUME NEW t, NEW S, NEW sub, NEW pos, Shape(t, S, sub, pos)
    PROVE  /\ IsFiniteSet(S)
           /\ \A n \in S \cup {Nil} : Cardinality(sub[n]) \in Nat /\ Cardinality(sub[n]) < Rounds
           /\ \A n \in S : Cardinality(sub[n]) > 0
           /\ Cardinality(sub[Nil]) = 0
           /\ \A n \in S, s \in Sides :
                  Cardinality(sub[t.child[s][n]]) < Cardinality(sub[n])
<1>1. Placed(S, sub, pos)
  BY DEF Shape
<1>2. \A n \in S \cup {Nil} : sub[n] \in SUBSET S /\ sub[n] \in SUBSET Nodes
  BY <1>1 DEF Placed
<1>3. IsFiniteSet(S)
  BY <1>1, RoundsType DEF Placed
<1>4. \A n \in S \cup {Nil} : IsFiniteSet(sub[n]) /\ Cardinality(sub[n]) \in Nat /\ Cardinality(sub[n]) < Rounds
  BY <1>2, RoundsType, FS_CardinalityType
<1>5. Cardinality(sub[Nil]) = 0
  BY <1>1, FS_EmptySet DEF Placed
<1>6. ASSUME NEW n \in S, NEW s \in Sides
      PROVE  Cardinality(sub[t.child[s][n]]) < Cardinality(sub[n])
  <2>1. sub[t.child[s][n]] \subseteq sub[n] /\ n \notin sub[t.child[s][n]] /\ n \in sub[n]
    BY <1>1, Child DEF Placed
  <2>2. IsFiniteSet(sub[n])
    BY <1>4
  <2>3. PICK A, B : A = sub[t.child[s][n]] /\ B = sub[n]
    OBVIOUS
  <2>4. A \in SUBSET B /\ A # B /\ IsFiniteSet(B)
    BY <2>1, <2>2, <2>3
  <2>5. Cardinality(A) <= Cardinality(B) /\ Cardinality(A) # Cardinality(B)
    BY <2>4, FS_Subset
  <2>6. Cardinality(A) \in Nat /\ Cardinality(B) \in Nat
    BY <2>4, FS_Subset, FS_CardinalityType
  <2>7. QED
    BY <2>3, <2>5, <2>6
<1>7. \A n \in S : Cardinality(sub[n]) > 0
  <2>1. TAKE n \in S
  <2>2. t.child["left"][n] \in S \cup {Nil}
    BY SidesAre DEF Shape, Linked
  <2>3. Cardinality(sub[t.child["left"][n]]) < Cardinality(sub[n])
    BY <1>6, SidesAre
  <2>4. Cardinality(sub[t.child["left"][n]]) \in Nat
    BY <1>4, <2>2
  <2>5. Cardinality(sub[n]) \in Nat
    BY <1>4
  <2>6. QED
    BY <2>3, <2>4, <2>5
<1>8. QED
  BY <1>3, <1>4, <1>5, <1>6, <1>7

(* Of any nodes there is one without a child among them: induction along the     *)
(* tree from below.                                                          *)
LEMMA Lowest ==
    ASSUME NEW t, NEW S, NEW sub, NEW pos, Shape(t, S, sub, pos),
           NEW wrong \in SUBSET S, wrong # {}
    PROVE  \E n \in wrong : \A s \in Sides : t.child[s][n] \notin wrong
<1> DEFINE sizes == {Cardinality(sub[n]) : n \in wrong}
<1>1. sizes \in SUBSET Nat /\ sizes # {}
  BY Sizes
<1>2. PICK k \in sizes : \A j \in sizes : k <= j
  <2> HIDE DEF sizes
  <2>1. QED
    BY <1>1, LeastOf
<1>3. PICK n \in wrong : k = Cardinality(sub[n])
  BY <1>2
<1>4. \A m \in wrong : Cardinality(sub[n]) <= Cardinality(sub[m])
  BY <1>2, <1>3
<1>5. ASSUME NEW s \in Sides, t.child[s][n] \in wrong PROVE FALSE
  <2>1. Cardinality(sub[t.child[s][n]]) < Cardinality(sub[n])
    BY Sizes
  <2>2. Cardinality(sub[n]) <= Cardinality(sub[t.child[s][n]])
    BY <1>4, <1>5
  <2>3. Cardinality(sub[n]) \in Nat /\ Cardinality(sub[t.child[s][n]]) \in Nat
    BY <1>5, Sizes
  <2>4. QED
    BY <2>1, <2>2, <2>3
<1>6. QED
  BY <1>5

(* A node below another one but not it is below one of the children.            *)
LEMMA Descend ==
    ASSUME NEW t, NEW S, NEW sub, NEW pos, Shape(t, S, sub, pos),
           NEW n \in S, NEW m \in sub[n], m # n
    PROVE  \E s \in Sides : /\ On(pos, s, m, n) /\ m \in sub[t.child[s][n]]
                            /\ t.child[s][n] \in S
<1>1. Placed(S, sub, pos) /\ m \in S
  BY DEF Shape, Placed
<1>2. PICK s \in Sides : On(pos, s, m, n)
  <2>1. \A a, b \in S : /\ a = b \/ On(pos, "left", a, b) \/ On(pos, "left", b, a)
                        /\ On(pos, "right", a, b) <=> On(pos, "left", b, a)
    <3>1. Opposite("left") = "right" /\ "left" \in Sides
      BY SidesAre
    <3>2. QED
      BY <1>1, <3>1, Order
  <2>2. QED
    BY <1>1, <2>1, SidesAre
<1>3. m \in sub[t.child[s][n]] /\ t.child[s][n] \in S \cup {Nil}
  BY <1>1, <1>2 DEF Shape, Linked
<1>4. t.child[s][n] # Nil
  BY <1>1, <1>3 DEF Placed
<1>5. QED
  BY <1>2, <1>3, <1>4

(* What is below a node below n is below n.                                    *)
LEMMA Nested ==
    ASSUME NEW t, NEW S, NEW sub, NEW pos, Shape(t, S, sub, pos)
    PROVE  \A n \in S : \A m \in sub[n] : sub[m] \subseteq sub[n]
<1> DEFINE wrong == {n \in S : \E m \in sub[n] : ~(sub[m] \subseteq sub[n])}
<1> SUFFICES ASSUME wrong # {} PROVE FALSE
  OBVIOUS
<1>1. PICK n \in wrong : \A s \in Sides : t.child[s][n] \notin wrong
  <2>1. wrong \in SUBSET S
    OBVIOUS
  <2> HIDE DEF wrong
  <2>2. QED
    BY <2>1, Lowest
<1>2. PICK m \in sub[n] : ~(sub[m] \subseteq sub[n])
  BY <1>1
<1>3. n \in S /\ m # n
  BY <1>1, <1>2
<1>4. PICK s \in Sides : m \in sub[t.child[s][n]] /\ t.child[s][n] \in S
  BY <1>3, Descend
<1>5. sub[m] \subseteq sub[t.child[s][n]]
  BY <1>1, <1>4
<1>6. sub[t.child[s][n]] \subseteq sub[n]
  BY <1>3, Child
<1>7. QED
  BY <1>2, <1>5, <1>6

(* The link up from a node: to the node whose child it is.                      *)
LEMMA OneParent ==
    ASSUME NEW t, NEW S, NEW sub, NEW pos, Shape(t, S, sub, pos),
           NEW n \in S \cup {Root}, NEW s \in Sides, t.child[s][n] # Nil
    PROVE  /\ t.parent[t.child[s][n]] = n /\ SideOf(t, t.child[s][n]) = s
           /\ t.child[s][n] \in S
<1>1. CASE n \in S
  <2>1. /\ t.child[s][n] \in S /\ t.parent[t.child[s][n]] = n
        /\ t.child[Opposite(s)][n] # t.child[s][n]
    BY <1>1, Child
  <2>2. QED
    BY <2>1, SidesAre DEF SideOf
<1>2. CASE n = Root
  <2>1. s = "left" /\ t.child[s][n] = Top(t)
    BY <1>2, SidesAre DEF Shape, Rooted, Top
  <2>2. t.parent[Top(t)] = Root /\ Top(t) \in S
    BY <2>1 DEF Shape, Rooted
  <2>3. QED
    BY <1>2, <2>1, <2>2 DEF SideOf, Top
<1>3. QED
  BY <1>1, <1>2

\* The way up from a node below n stays below n until it comes to n.
LEMMA Above ==
    ASSUME NEW t, NEW S, NEW sub, NEW pos, Shape(t, S, sub, pos)
    PROVE  \A n \in S : \A m \in sub[n] :
               m # n => t.parent[m] \in sub[n] /\ t.child[SideOf(t, m)][t.parent[m]] = m
<1> DEFINE Fine(n, m) == t.parent[m] \in sub[n] /\ t.child[SideOf(t, m)][t.parent[m]] = m
           wrong == {n \in S : \E m \in sub[n] : m # n /\ ~Fine(n, m)}
<1> SUFFICES ASSUME wrong # {} PROVE FALSE
  OBVIOUS
<1>1. PICK n \in wrong : \A s \in Sides : t.child[s][n] \notin wrong
  <2>1. wrong \in SUBSET S
    OBVIOUS
  <2> HIDE DEF wrong
  <2>2. QED
    BY <2>1, Lowest
<1>2. PICK m \in sub[n] : m # n /\ ~Fine(n, m)
  BY <1>1
<1>3. n \in S
  BY <1>1
<1>4. PICK s \in Sides : m \in sub[t.child[s][n]] /\ t.child[s][n] \in S
  BY <1>2, <1>3, Descend
<1>5. m = t.child[s][n]
  <2>1. sub[t.child[s][n]] \subseteq sub[n]
    BY <1>3, Child
  <2>2. QED
    BY <1>1, <1>2, <1>4, <2>1
<1>6. t.parent[m] = n /\ SideOf(t, m) = s
  <2>1. t.child[s][n] # Nil
    BY <1>4, Distinct DEF Shape, Placed
  <2>2. QED
    BY <1>3, <1>5, <2>1, OneParent
<1>7. n \in sub[n]
  BY <1>3 DEF Shape, Placed
<1>8. QED
  BY <1>2, <1>5, <1>6, <1>7

\* A node hangs from its parent, the root of the tree from the sentinel.
LEMMA ParentOf ==
    ASSUME NEW t, NEW S, NEW sub, NEW pos, Shape(t, S, sub, pos), NEW n \in S
    PROVE  /\ t.child[SideOf(t, n)][t.parent[n]] = n /\ SideOf(t, n) \in Sides
           /\ n = Top(t) => t.parent[n] = Root /\ SideOf(t, n) = "left"
           /\ n # Top(t) => /\ t.parent[n] \in S /\ t.parent[n] # n
                            /\ n \in sub[t.parent[n]]
<1>1. SideOf(t, n) \in Sides
  BY SidesAre DEF SideOf
<1>2. CASE n = Top(t)
  <2>1. t.parent[n] = Root
    BY <1>2, Distinct DEF Shape, Rooted, Placed
  <2>2. QED
    BY <1>1, <1>2, <2>1 DEF SideOf, Top
<1>3. CASE n # Top(t)
  <2>1. Top(t) \in S /\ sub[Top(t)] = S
    BY DEF Shape, Rooted, Placed
  <2>2. t.parent[n] \in S /\ t.child[SideOf(t, n)][t.parent[n]] = n
    BY <1>3, <2>1, Above
  <2>3. n # Nil
    BY Distinct DEF Shape, Placed
  <2>4. t.parent[n] # n /\ n \in sub[t.parent[n]]
    <3>1. PICK p \in S, s \in Sides : p = t.parent[n] /\ t.child[s][p] = n
      BY <1>1, <2>2
    <3>2. sub[n] \subseteq sub[p] /\ n # p
      BY <2>3, <3>1, Child
    <3>3. n \in sub[n]
      BY DEF Shape, Placed
    <3>4. QED
      BY <3>1, <3>2, <3>3
  <2>5. QED
    BY <1>1, <1>3, <2>2, <2>4
<1>4. QED
  BY <1>2, <1>3

(* What is not below a node comes before all or after all that is.              *)
LEMMA Apart ==
    ASSUME NEW t, NEW S, NEW sub, NEW pos, Shape(t, S, sub, pos)
    PROVE  \A n \in S : \A m \in S \ sub[n], k, w \in sub[n], s \in Sides :
               On(pos, s, m, k) => On(pos, s, m, w)
<1> DEFINE Fine(n) == \A m \in S \ sub[n], k, w \in sub[n], s \in Sides :
                          On(pos, s, m, k) => On(pos, s, m, w)
           size == [n \in S |-> Cardinality(sub[n])]
           wrong == {j \in Nat : \E n \in S : ~Fine(n) /\ Cardinality(sub[n]) = Rounds - j}
<1>1. ASSUME NEW n \in S, ~Fine(n) PROVE FALSE
  <2>1. Cardinality(sub[n]) \in Nat /\ Cardinality(sub[n]) < Rounds /\ Rounds \in Nat
    BY Sizes, RoundsType
  <2>2. Rounds - Cardinality(sub[n]) \in wrong
    <3> HIDE DEF Fine
    <3>1. QED
      BY <1>1, <2>1
  <2>3. PICK j \in wrong : \A i \in wrong : j <= i
    <3>1. wrong \in SUBSET Nat /\ wrong # {}
      BY <2>2
    <3> HIDE DEF wrong
    <3>2. QED
      BY <3>1, LeastOf
  <2>4. PICK x \in S : ~Fine(x) /\ Cardinality(sub[x]) = Rounds - j
    <3> HIDE DEF Fine
    <3>1. QED
      BY <2>3
  <2>5. ASSUME NEW p \in S, ~Fine(p) PROVE Cardinality(sub[p]) <= Cardinality(sub[x])
    <3>1. Cardinality(sub[p]) \in Nat /\ Cardinality(sub[p]) < Rounds
      BY Sizes
    <3>2. Rounds - Cardinality(sub[p]) \in wrong
      <4> HIDE DEF Fine
      <4>1. QED
        BY <2>1, <2>5, <3>1
    <3>3. j <= Rounds - Cardinality(sub[p]) /\ j \in Nat
      BY <2>3, <3>2
    <3>4. QED
      BY <2>1, <2>4, <3>1, <3>3
  <2>6. x # Top(t)
    BY <2>4 DEF Shape, Rooted
  <2>7. PICK p \in S, r \in Sides : p = t.parent[x] /\ t.child[r][p] = x
    BY <2>6, ParentOf
  <2>8. Fine(p)
    <3>1. Cardinality(sub[x]) < Cardinality(sub[p])
      BY <2>7, Sizes
    <3>2. Cardinality(sub[x]) \in Nat /\ Cardinality(sub[p]) \in Nat
      BY Sizes
    <3> HIDE DEF Fine
    <3>3. QED
      BY <2>5, <3>1, <3>2
  <2>9. ASSUME NEW m \in S \ sub[x], NEW k \in sub[x], NEW w \in sub[x], NEW s \in Sides,
               On(pos, s, m, k)
        PROVE  On(pos, s, m, w)
    <3>1. \A a \in S : a \in sub[x] <=> a \in sub[p] /\ On(pos, r, a, p)
      BY <2>7 DEF Shape, Linked
    <3>2. k \in S /\ w \in S /\ k \in sub[p] /\ w \in sub[p]
      BY <3>1 DEF Shape, Placed
    <3>3. CASE m \notin sub[p]
      BY <2>8, <2>9, <3>2, <3>3
    <3>4. CASE m \in sub[p]
      <4>1. ~On(pos, r, m, p)
        BY <3>1, <3>4
      <4>2. On(pos, r, k, p) /\ On(pos, r, w, p)
        BY <3>1, <3>2
      <4>3. Placed(S, sub, pos)
        BY DEF Shape
      <4>4. s = Opposite(r)
        <5>1. CASE s = r
          BY <2>9, <3>2, <4>1, <4>2, <4>3, <5>1, Order
        <5>2. QED
          BY <5>1, SidesAre
      <4>5. m = p \/ On(pos, r, p, m)
        BY <4>1, <4>3, Order
      <4>6. On(pos, r, w, m)
        BY <3>2, <4>2, <4>3, <4>5, Order
      <4>7. QED
        BY <3>2, <4>3, <4>4, <4>6, Order
    <3>5. QED
      BY <3>3, <3>4
  <2>10. QED
    BY <2>4, <2>9
<1>2. QED
  BY <1>1

-----------------------------------------------------------------------------
(* The walks of the code: rb_tree_find, the neighbours, the limits and the   *)
(* place of a key.                                                           *)

Sorted(S, pos) == \A m, n \in S : pos[m] < pos[n] => KeyOf[m] <= KeyOf[n]

(* A key goes on to the side of y where its nodes are.                          *)
LEMMA WayKeys ==
    ASSUME NEW S, NEW sub, NEW pos, Placed(S, sub, pos), Sorted(S, pos),
           NEW y \in S, NEW key \in Int
    PROVE  /\ Way(y, key) \in Sides
           /\ \A m \in S : KeyOf[m] \in Int
           /\ KeyOf[y] > key => /\ Way(y, key) = "left"
                                /\ \A m \in S : On(pos, "right", m, y) => KeyOf[m] > key
           /\ KeyOf[y] <= key => /\ Way(y, key) = "right"
                                 /\ \A m \in S : On(pos, "left", m, y) => KeyOf[m] <= key
<1>1. y # Root /\ \A m \in S : KeyOf[m] \in Int
  BY Distinct, TreeAssumption DEF Placed
<1>2. \A m \in S : /\ On(pos, "right", m, y) => KeyOf[y] <= KeyOf[m]
                   /\ On(pos, "left", m, y) => KeyOf[m] <= KeyOf[y]
  BY SidesAre DEF Sorted, On
<1>3. QED
  BY <1>1, <1>2, SidesAre DEF Way

(* rb_tree_find: as long as it goes on, the nodes with the key are below the *)
(* node it is at; it ends at one of them, or at the sentinel when there is   *)
(* none.                                                                     *)
LEMMA FindFinds ==
    ASSUME NEW t, NEW S, NEW sub, NEW pos, Shape(t, S, sub, pos), Sorted(S, pos),
           NEW key \in Int
    PROVE  IF \E m \in S : KeyOf[m] = key
           THEN rb_tree_find(t, key) \in S /\ KeyOf[rb_tree_find(t, key)] = key
           ELSE rb_tree_find(t, key) = NULL
<1> DEFINE Within(x) == \A m \in S : KeyOf[m] = key => m \in sub[x]
           Over(x) == x = Nil \/ KeyOf[x] = key
           At(n) == {x \in S \cup {Nil} :
                        Within(x) /\ (Over(x) \/ Cardinality(sub[x]) <= Rounds - n)}
           stage == [n \in Nat |-> At(n)]
           round == [n \in Nodes \cup {Nil} |->
                      IF n = Nil THEN n
                      ELSE IF KeyOf[n] = key THEN n ELSE t.child[Way(n, key)][n]]
<1>1. Placed(S, sub, pos) /\ Rounds \in Nat /\ S \subseteq Nodes
  BY RoundsType DEF Shape, Placed
<1>2. Top(t) \in stage[0]
  <2>1. Top(t) \in S \cup {Nil} /\ sub[Top(t)] = S
    BY DEF Shape, Rooted
  <2>2. Cardinality(sub[Top(t)]) \in Nat /\ Cardinality(sub[Top(t)]) < Rounds
    BY <2>1, Sizes
  <2>3. QED
    BY <1>1, <2>1, <2>2
<1>3. ASSUME NEW n \in Nat, NEW x \in stage[n] PROVE round[x] \in stage[n + 1]
  <2>1. x \in S \cup {Nil} /\ Within(x) /\ (Over(x) \/ Cardinality(sub[x]) <= Rounds - n)
    <3>1. x \in At(n)
      BY <1>3
    <3>2. QED
      BY <3>1
  <2>2. CASE Over(x)
    BY <1>1, <2>1, <2>2
  <2>3. CASE ~Over(x)
    <3>1. x \in S /\ x # Nil /\ KeyOf[x] # key
      BY <2>1, <2>3
    <3>2. PICK s \in Sides : s = Way(x, key)
      BY <1>1, <3>1, WayKeys
    <3>3. PICK c \in S \cup {Nil} : c = t.child[s][x]
      BY <3>1, <3>2 DEF Shape, Linked
    <3>4. round[x] = c
      BY <1>1, <3>1, <3>2, <3>3
    <3>5. Cardinality(sub[c]) < Cardinality(sub[x])
      BY <3>1, <3>3, Sizes
    <3>6. Cardinality(sub[c]) \in Nat /\ Cardinality(sub[x]) \in Nat
      BY <3>1, Sizes
    <3>7. Cardinality(sub[c]) <= Rounds - (n + 1)
      BY <1>1, <2>1, <2>3, <3>5, <3>6
    <3>8. ASSUME NEW m \in S, KeyOf[m] = key PROVE m \in sub[c]
      <4>1. m \in sub[x] /\ m # x
        BY <2>1, <3>1, <3>8
      <4>2. On(pos, s, m, x)
        <5>1. On(pos, "left", m, x) \/ On(pos, "right", m, x)
          BY <1>1, <3>1, <4>1, Order, SidesAre
        <5>2. KeyOf[x] > key \/ KeyOf[x] <= key
          BY <1>1, <3>1, WayKeys
        <5>3. CASE KeyOf[x] > key
          BY <1>1, <3>1, <3>2, <3>8, <5>1, <5>3, WayKeys
        <5>4. CASE KeyOf[x] <= key
          <6>1. KeyOf[x] < key
            BY <1>1, <3>1, <5>4, WayKeys
          <6>2. ~On(pos, "left", m, x)
            <7>1. KeyOf[m] > KeyOf[x]
              BY <3>8, <6>1
            <7>2. pos[m] < pos[x] => KeyOf[m] <= KeyOf[x]
              BY <3>1 DEF Sorted
            <7>3. KeyOf[m] \in Int /\ KeyOf[x] \in Int
              BY <1>1, <3>1, WayKeys
            <7>4. QED
              BY <7>1, <7>2, <7>3 DEF On
          <6>3. s = "right"
            BY <1>1, <3>1, <3>2, <5>4, WayKeys
          <6>4. QED
            BY <5>1, <6>2, <6>3
        <5>5. QED
          BY <5>2, <5>3, <5>4
      <4>3. QED
        BY <3>1, <3>3, <4>1, <4>2 DEF Shape, Linked
    <3>9. QED
      BY <3>3, <3>4, <3>7, <3>8
  <2>4. QED
    BY <2>2, <2>3
<1>4. PICK x : x = Loop(round, Top(t)) /\ x \in stage[Rounds]
  <2> HIDE DEF stage, round
  <2>1. QED
    BY <1>2, <1>3, LoopInduction
<1>5. x \in S \cup {Nil} /\ Within(x) /\ Over(x)
  <2>1. x \in S \cup {Nil} /\ Within(x) /\ (Over(x) \/ Cardinality(sub[x]) <= Rounds - Rounds)
    <3>1. x \in At(Rounds)
      BY <1>1, <1>4
    <3>2. QED
      BY <3>1
  <2>2. x = Nil \/ (Cardinality(sub[x]) > 0 /\ Cardinality(sub[x]) \in Nat)
    BY <2>1, Sizes
  <2>3. QED
    BY <1>1, <2>1, <2>2
<1>6. rb_tree_find(t, key) = IF x = Nil THEN NULL ELSE x
  BY <1>4, Zenon DEF rb_tree_find, round
<1>7. CASE x = Nil
  <2>1. \A m \in S : KeyOf[m] # key
    BY <1>1, <1>5, <1>7 DEF Placed
  <2>2. QED
    BY <1>6, <1>7, <2>1
<1>8. CASE x # Nil
  BY <1>5, <1>6, <1>8
<1>9. QED
  BY <1>7, <1>8

\* The walk down along one side ends at the outermost node of the subtree.
LEMMA FurthestIs ==
    ASSUME NEW t, NEW S, NEW sub, NEW pos, Shape(t, S, sub, pos), NEW y \in S, NEW s \in Sides
    PROVE  /\ Furthest(t, y, s) \in sub[y]
           /\ t.child[s][Furthest(t, y, s)] = Nil
           /\ \A w \in sub[y] : ~On(pos, s, w, Furthest(t, y, s))
<1> DEFINE Within(x) == x \in sub[y] /\ \A w \in sub[y] : On(pos, s, w, x) => w \in sub[x]
           Over(x) == t.child[s][x] = Nil
           At(n) == {x \in S : Within(x) /\ (Over(x) \/ Cardinality(sub[x]) <= Rounds - n)}
           stage == [n \in Nat |-> At(n)]
           round == [x \in Nodes |-> IF t.child[s][x] = Nil THEN x ELSE t.child[s][x]]
<1>1. Placed(S, sub, pos) /\ Rounds \in Nat /\ S \subseteq Nodes /\ sub[y] \subseteq S
  BY RoundsType DEF Shape, Placed
<1>2. y \in stage[0]
  <2>1. Cardinality(sub[y]) \in Nat /\ Cardinality(sub[y]) < Rounds
    BY Sizes
  <2>2. y \in sub[y]
    BY <1>1 DEF Placed
  <2>3. y \in At(0)
    BY <1>1, <2>1, <2>2
  <2>4. QED
    BY <2>3
<1>3. ASSUME NEW n \in Nat, NEW x \in stage[n] PROVE round[x] \in stage[n + 1]
  <2>1. x \in S /\ Within(x) /\ (Over(x) \/ Cardinality(sub[x]) <= Rounds - n)
    <3>1. x \in At(n)
      BY <1>3
    <3>2. QED
      BY <3>1
  <2>2. CASE Over(x)
    BY <1>1, <2>1, <2>2
  <2>3. CASE ~Over(x)
    <3>1. PICK c \in S : /\ c = t.child[s][x] /\ c \in sub[c] /\ sub[c] \subseteq sub[x]
                         /\ On(pos, s, c, x)
      BY <2>1, <2>3, Child
    <3>2. round[x] = c
      BY <1>1, <2>1, <2>3, <3>1
    <3>3. Cardinality(sub[c]) < Cardinality(sub[x])
      BY <2>1, <3>1, Sizes
    <3>4. Cardinality(sub[c]) \in Nat /\ Cardinality(sub[x]) \in Nat
      BY <2>1, <3>1, Sizes
    <3>5. Cardinality(sub[c]) <= Rounds - (n + 1)
      BY <1>1, <2>1, <2>3, <3>3, <3>4
    <3>6. c \in sub[y]
      BY <2>1, <3>1, Nested
    <3>7. ASSUME NEW w \in sub[y], On(pos, s, w, c) PROVE w \in sub[c]
      <4>1. w \in S
        BY <1>1
      <4>2. On(pos, s, w, x)
        BY <1>1, <2>1, <3>1, <3>7, <4>1, Order
      <4>3. w \in sub[x]
        BY <2>1, <4>2
      <4>4. QED
        BY <2>1, <3>1, <4>1, <4>2, <4>3 DEF Shape, Linked
    <3>8. c \in At(n + 1)
      BY <3>5, <3>6, <3>7
    <3>9. QED
      BY <3>2, <3>8
  <2>4. QED
    BY <2>2, <2>3
<1>4. PICK x : x = Loop(round, y) /\ x \in stage[Rounds]
  <2> HIDE DEF stage, round
  <2>1. QED
    BY <1>2, <1>3, LoopInduction
<1>5. x \in S /\ Within(x) /\ Over(x)
  <2>1. x \in S /\ Within(x) /\ (Over(x) \/ Cardinality(sub[x]) <= Rounds - Rounds)
    <3>1. x \in At(Rounds)
      BY <1>1, <1>4
    <3>2. QED
      BY <3>1
  <2>2. Cardinality(sub[x]) > 0 /\ Cardinality(sub[x]) \in Nat
    BY <2>1, Sizes
  <2>3. QED
    BY <1>1, <2>1, <2>2
<1>6. Furthest(t, y, s) = x
  BY <1>4, Zenon DEF Furthest, round
<1>7. ASSUME NEW w \in sub[y], On(pos, s, w, x) PROVE FALSE
  <2>1. w \in S /\ w \in sub[x]
    BY <1>1, <1>5, <1>7
  <2>2. w \in sub[Nil]
    BY <1>5, <1>7, <2>1 DEF Shape, Linked
  <2>3. QED
    BY <1>1, <2>2 DEF Placed
<1>8. QED
  BY <1>5, <1>6, <1>7

\* The climb ends at the highest node of which x is the outermost on side s.
LEMMA ClimbedIs ==
    ASSUME NEW t, NEW S, NEW sub, NEW pos, Shape(t, S, sub, pos), NEW x \in S, NEW s \in Sides,
           t.child[s][x] = Nil
    PROVE  \E c \in S : /\ c = Climbed(t, x, s)
                        /\ x \in sub[c]
                        /\ \A m \in sub[c] : ~On(pos, s, m, x)
                        /\ t.parent[c] = Root \/ c # t.child[s][t.parent[c]]
<1> DEFINE Within(c) == x \in sub[c] /\ \A m \in sub[c] : ~On(pos, s, m, x)
           Over(c) == t.parent[c] = Root \/ c # t.child[s][t.parent[c]]
           At(n) == {c \in S : Within(c) /\ (Over(c) \/ Cardinality(sub[c]) >= n)}
           stage == [n \in Nat |-> At(n)]
           round == [n \in Nodes |->
                      LET y == t.parent[n]
                      IN  IF n = t.child[s][y] /\ ~(s = "left" /\ y = Root) THEN y ELSE n]
<1>1. Placed(S, sub, pos) /\ Rounds \in Nat /\ S \subseteq Nodes /\ sub[x] \subseteq S
  BY RoundsType DEF Shape, Placed
<1>2. x \in stage[0]
  <2>1. Cardinality(sub[x]) \in Nat
    BY Sizes
  <2>2. \A m \in sub[x] : ~On(pos, s, m, x)
    BY <1>1 DEF Shape, Linked, Placed
  <2>3. x \in At(0)
    BY <1>1, <2>1, <2>2 DEF Placed
  <2>4. QED
    BY <2>3
<1>3. ASSUME NEW n \in Nat, NEW c \in stage[n] PROVE round[c] \in stage[n + 1]
  <2>1. c \in S /\ Within(c) /\ (Over(c) \/ Cardinality(sub[c]) >= n)
    <3>1. c \in At(n)
      BY <1>3
    <3>2. QED
      BY <3>1
  <2>2. PICK y : y = t.parent[c]
    OBVIOUS
  <2>3. round[c] = IF c = t.child[s][y] /\ ~(s = "left" /\ y = Root) THEN y ELSE c
    BY <1>1, <2>1, <2>2
  <2>4. y = Root => s = "left" \/ c # t.child[s][y]
    <3>1. c # Nil
      BY <1>1, <2>1, Distinct
    <3>2. t.child["right"][Root] = Nil
      BY DEF Shape, Rooted
    <3>3. QED
      BY <3>1, <3>2, SidesAre
  <2>5. CASE Over(c)
    <3>1. round[c] = c
      BY <2>2, <2>3, <2>4, <2>5
    <3>2. c \in At(n + 1)
      BY <2>1, <2>5
    <3>3. QED
      BY <3>1, <3>2
  <2>6. CASE ~Over(c)
    <3>1. y \in S /\ y # Root /\ c = t.child[s][y]
      BY <2>1, <2>2, <2>6, ParentOf
    <3>2. round[c] = y
      BY <2>3, <3>1
    <3>3. Cardinality(sub[c]) < Cardinality(sub[y])
      BY <3>1, Sizes
    <3>4. Cardinality(sub[c]) \in Nat /\ Cardinality(sub[y]) \in Nat
      BY <2>1, <3>1, Sizes
    <3>5. Cardinality(sub[y]) >= n + 1
      BY <2>1, <2>6, <3>3, <3>4
    <3>6. x \in sub[y] /\ On(pos, s, x, y)
      BY <2>1, <3>1 DEF Shape, Linked
    <3>7. ASSUME NEW m \in sub[y], On(pos, s, m, x) PROVE FALSE
      <4>1. m \in S
        BY <1>1, <3>1 DEF Placed
      <4>2. On(pos, s, m, y)
        BY <1>1, <3>1, <3>6, <3>7, <4>1, Order
      <4>3. m \in sub[c]
        BY <3>1, <4>1, <4>2 DEF Shape, Linked
      <4>4. QED
        BY <2>1, <3>7, <4>3
    <3>8. y \in At(n + 1)
      BY <3>1, <3>5, <3>6, <3>7
    <3>9. QED
      BY <3>2, <3>8
  <2>7. QED
    BY <2>5, <2>6
<1>4. PICK c : c = Loop(round, x) /\ c \in stage[Rounds]
  <2> HIDE DEF stage, round
  <2>1. QED
    BY <1>2, <1>3, LoopInduction
<1>5. c \in S /\ Within(c) /\ Over(c)
  <2>1. c \in S /\ Within(c) /\ (Over(c) \/ Cardinality(sub[c]) >= Rounds)
    <3>1. c \in At(Rounds)
      BY <1>1, <1>4
    <3>2. QED
      BY <3>1
  <2>2. Cardinality(sub[c]) < Rounds /\ Cardinality(sub[c]) \in Nat
    BY <2>1, Sizes
  <2>3. QED
    BY <1>1, <2>1, <2>2
<1>6. Climbed(t, x, s) = c
  BY <1>4, Zenon DEF Climbed, round
<1>7. QED
  BY <1>5, <1>6

\* r is the next node from x on side s, or Nil if there is none.
NextOn(S, pos, s, x, r) ==
    \/ r = Nil /\ \A m \in S : ~On(pos, s, m, x)
    \/ /\ r \in S /\ On(pos, s, r, x)
       /\ \A m \in S : On(pos, s, m, x) => m = r \/ On(pos, s, m, r)

\* The neighbour is the first of the subtree on that side.
LEMMA NextBelow ==
    ASSUME NEW t, NEW S, NEW sub, NEW pos, Shape(t, S, sub, pos), NEW x \in S, NEW s \in Sides,
           t.child[s][x] # Nil
    PROVE  LET r == Furthest(t, t.child[s][x], Opposite(s))
           IN  NextOn(S, pos, s, x, r) /\ r \in S /\ t.child[Opposite(s)][r] = Nil
<1>1. Placed(S, sub, pos) /\ Opposite(s) \in Sides
  BY SidesAre DEF Shape
<1>2. PICK c \in S : c = t.child[s][x] /\ sub[c] \subseteq S
  BY Child
<1>3. PICK r : r = Furthest(t, c, Opposite(s))
  OBVIOUS
<1>4. /\ r \in sub[c] /\ t.child[Opposite(s)][r] = Nil
      /\ \A w \in sub[c] : ~On(pos, Opposite(s), w, r)
  BY <1>1, <1>3, FurthestIs
<1>5. r \in S /\ r \in sub[x] /\ On(pos, s, r, x)
  BY <1>2, <1>4 DEF Shape, Linked
<1>6. ASSUME NEW m \in S, On(pos, s, m, x) PROVE m = r \/ On(pos, s, m, r)
  <2>1. CASE m \in sub[x]
    <3>1. m \in sub[c]
      BY <1>2, <1>6, <2>1 DEF Shape, Linked
    <3>2. ~On(pos, s, r, m)
      BY <1>1, <1>4, <1>5, <3>1, Order
    <3>3. QED
      BY <1>1, <1>5, <3>2, Order
  <2>2. CASE m \notin sub[x]
    <3>1. x \in sub[x]
      BY <1>1 DEF Placed
    <3>2. QED
      BY <1>5, <1>6, <2>2, <3>1, Apart
  <2>3. QED
    BY <2>1, <2>2
<1>7. QED
  BY <1>2, <1>3, <1>4, <1>5, <1>6 DEF NextOn

\* The neighbour is the node above where the climb ended.
LEMMA NextAbove ==
    ASSUME NEW t, NEW S, NEW sub, NEW pos, Shape(t, S, sub, pos), NEW x \in S, NEW s \in Sides,
           t.child[s][x] = Nil
    PROVE  \E c \in S, y \in S \cup {Root} :
               /\ c = Climbed(t, x, s) /\ y = t.parent[c]
               /\ s = "left" => (y = Root <=> c = t.child["left"][y])
               /\ NextOn(S, pos, s, x, IF y = Root THEN Nil ELSE y)
<1>1. Placed(S, sub, pos) /\ Opposite(s) \in Sides
  BY SidesAre DEF Shape
<1>2. PICK c \in S : /\ c = Climbed(t, x, s) /\ x \in sub[c]
                     /\ \A m \in sub[c] : ~On(pos, s, m, x)
                     /\ t.parent[c] = Root \/ c # t.child[s][t.parent[c]]
  BY ClimbedIs
<1>3. PICK y \in S \cup {Root} : y = t.parent[c]
  BY ParentOf
<1>4. CASE y = Root
  <2>1. c = Top(t)
    <3>1. Root \notin S
      BY <1>1, Distinct DEF Placed
    <3>2. QED
      BY <1>3, <1>4, <3>1, ParentOf
  <2>2. sub[c] = S
    BY <2>1 DEF Shape, Rooted
  <2>3. NextOn(S, pos, s, x, Nil)
    BY <1>2, <2>2 DEF NextOn
  <2>4. c = t.child["left"][y]
    BY <1>4, <2>1 DEF Top
  <2>5. QED
    BY <1>2, <1>3, <1>4, <2>3, <2>4
<1>5. CASE y # Root
  <2>1. y \in S
    BY <1>5
  <2>2. c # t.child[s][y]
    BY <1>2, <1>3, <1>5
  <2>3. c = t.child[Opposite(s)][y]
    <3>1. c = t.child[SideOf(t, c)][y] /\ SideOf(t, c) \in Sides
      BY <1>3, ParentOf
    <3>2. QED
      BY <2>2, <3>1, SidesAre
  <2>4. x \in sub[y] /\ On(pos, Opposite(s), x, y)
    BY <1>1, <1>2, <2>1, <2>3 DEF Shape, Linked
  <2>5. On(pos, s, y, x)
    BY <1>1, <2>1, <2>4, Order
  <2>6. ASSUME NEW m \in S, On(pos, s, m, x) PROVE m = y \/ On(pos, s, m, y)
    <3>1. CASE m \in sub[y]
      <4>1. m \notin sub[c]
        BY <1>2, <2>6
      <4>2. ~On(pos, Opposite(s), m, y)
        BY <1>1, <2>1, <2>3, <3>1, <4>1 DEF Shape, Linked
      <4>3. QED
        BY <1>1, <2>1, <4>2, Order
    <3>2. CASE m \notin sub[y]
      <4>1. y \in sub[y]
        BY <1>1, <2>1 DEF Placed
      <4>2. QED
        BY <2>1, <2>4, <2>6, <3>2, <4>1, Apart
    <3>3. QED
      BY <3>1, <3>2
  <2>7. NextOn(S, pos, s, x, y)
    BY <2>1, <2>5, <2>6 DEF NextOn
  <2>8. s = "left" => c # t.child["left"][y]
    BY <2>2
  <2>9. QED
    BY <1>2, <1>3, <1>5, <2>7, <2>8
<1>6. QED
  BY <1>4, <1>5

\* _rb_tree_successor is the next node in the order, or the sentinel.
LEMMA SuccessorIs ==
    ASSUME NEW t, NEW S, NEW sub, NEW pos, Shape(t, S, sub, pos), NEW x \in S
    PROVE  NextOn(S, pos, "right", x, _rb_tree_successor(t, x))
<1>1. CASE t.child["right"][x] # Nil
  BY <1>1, NextBelow, SidesAre DEF _rb_tree_successor
<1>2. CASE t.child["right"][x] = Nil
  <2>1. PICK c \in S, y \in S \cup {Root} :
            /\ c = Climbed(t, x, "right") /\ y = t.parent[c]
            /\ NextOn(S, pos, "right", x, IF y = Root THEN Nil ELSE y)
    BY <1>2, NextAbove, SidesAre
  <2>2. QED
    BY <1>2, <2>1 DEF _rb_tree_successor
<1>3. QED
  BY <1>1, <1>2

\* _rb_tree_predecessor is the node before in the order, or the sentinel.
LEMMA PredecessorIs ==
    ASSUME NEW t, NEW S, NEW sub, NEW pos, Shape(t, S, sub, pos), NEW x \in S
    PROVE  NextOn(S, pos, "left", x, _rb_tree_predecessor(t, x))
<1>1. CASE t.child["left"][x] # Nil
  BY <1>1, NextBelow, SidesAre DEF _rb_tree_predecessor
<1>2. CASE t.child["left"][x] = Nil
  <2>1. PICK c \in S, y \in S \cup {Root} :
            /\ c = Climbed(t, x, "left") /\ y = t.parent[c]
            /\ y = Root <=> c = t.child["left"][y]
            /\ NextOn(S, pos, "left", x, IF y = Root THEN Nil ELSE y)
    BY <1>2, NextAbove, SidesAre
  <2>2. QED
    BY <1>2, <2>1 DEF _rb_tree_predecessor
<1>3. QED
  BY <1>1, <1>2

NotAbove(m, high) == high = NULL \/ KeyOf[m] <= high

(* The descent of rb_tree_enumerate ends with the last node whose key is not *)
(* above the high one: nodes that it has left behind to the right are above  *)
(* it, and of those to the left it keeps the last.                           *)
LEMMA HighestIs ==
    ASSUME NEW t, NEW S, NEW sub, NEW pos, Shape(t, S, sub, pos), Sorted(S, pos),
           NEW high, high = NULL \/ high \in Int
    PROVE  \E r \in S \cup {Nil} :
               /\ r = Highest(t, high)
               /\ r = Nil => \A m \in S : ~NotAbove(m, high)
               /\ r # Nil => /\ NotAbove(r, high)
                             /\ \A m \in S : NotAbove(m, high) => m = r \/ On(pos, "left", m, r)
<1> DEFINE Found(x, next) ==
               \A m \in S : NotAbove(m, high) =>
                   \/ m \in sub[x]
                   \/ next # Nil /\ (m = next \/ On(pos, "left", m, next))
           Last(x, next) ==
               next # Nil => /\ NotAbove(next, high)
                             /\ \A w \in sub[x] : On(pos, "left", next, w)
           Good(x, next) == Found(x, next) /\ Last(x, next)
           At(n) == {at \in (S \cup {Nil}) \X (S \cup {Nil}) :
                        Good(at[1], at[2]) /\ (at[1] = Nil \/ Cardinality(sub[at[1]]) <= Rounds - n)}
           stage == [n \in Nat |-> At(n)]
           round == [at \in (Nodes \cup {Nil}) \X (Nodes \cup {Nil}) |->
                      IF at[1] = Nil THEN at
                      ELSE IF high # NULL /\ KeyOf[at[1]] > high
                           THEN <<t.child["left"][at[1]], at[2]>>
                           ELSE <<t.child["right"][at[1]], at[1]>>]
<1>1. Placed(S, sub, pos) /\ Rounds \in Nat /\ S \subseteq Nodes /\ Nil \notin S
  BY RoundsType, Distinct DEF Shape, Placed
<1>2. <<Top(t), Nil>> \in stage[0]
  <2>1. Top(t) \in S \cup {Nil} /\ sub[Top(t)] = S
    BY DEF Shape, Rooted
  <2>2. Cardinality(sub[Top(t)]) \in Nat /\ Cardinality(sub[Top(t)]) < Rounds
    BY <2>1, Sizes
  <2>3. Good(Top(t), Nil)
    BY <2>1
  <2> HIDE DEF Good
  <2>4. <<Top(t), Nil>> \in At(0)
    BY <1>1, <2>1, <2>2, <2>3
  <2>5. QED
    BY <2>4
<1>3. \A m \in S : KeyOf[m] \in Int
  BY <1>1, TreeAssumption
<1>4. ASSUME NEW n \in Nat, NEW at \in stage[n] PROVE round[at] \in stage[n + 1]
  <2>1. at \in At(n)
    BY <1>4
  <2>2. PICK x \in S \cup {Nil}, next \in S \cup {Nil} :
            /\ at = <<x, next>> /\ Good(x, next)
            /\ x = Nil \/ Cardinality(sub[x]) <= Rounds - n
    <3> HIDE DEF Good
    <3>1. QED
      BY <2>1
  <2>3. CASE x = Nil
    <3>1. round[at] = <<x, next>>
      BY <1>1, <2>2, <2>3
    <3> HIDE DEF Good
    <3>2. Good(at[1], at[2]) /\ at[1] = Nil
      BY <2>2, <2>3
    <3>3. at \in (S \cup {Nil}) \X (S \cup {Nil})
      BY <2>2
    <3>4. at \in At(n + 1)
      BY <3>2, <3>3
    <3> HIDE DEF At, round
    <3>5. QED
      BY <2>2, <3>1, <3>4
  <2>4. ASSUME x # Nil, NEW s \in Sides, NEW new \in S \cup {Nil},
               round[at] = <<t.child[s][x], new>>, Good(t.child[s][x], new)
        PROVE  round[at] \in stage[n + 1]
    <3>1. PICK c \in S \cup {Nil} : c = t.child[s][x]
      BY <2>4 DEF Shape, Linked
    <3>2. Cardinality(sub[c]) < Cardinality(sub[x])
      BY <2>4, <3>1, Sizes
    <3>3. Cardinality(sub[c]) \in Nat /\ Cardinality(sub[x]) \in Nat
      BY <3>1, Sizes
    <3>4. Cardinality(sub[c]) <= Rounds - (n + 1)
      BY <1>1, <2>2, <2>4, <3>2, <3>3
    <3> HIDE DEF Good
    <3>5. PICK to : to = <<c, new>>
      OBVIOUS
    <3>6. to \in (S \cup {Nil}) \X (S \cup {Nil}) /\ to[1] = c /\ to[2] = new
      BY <3>5
    <3>7. Good(to[1], to[2])
      BY <2>4, <3>1, <3>6
    <3>8. to \in At(n + 1)
      BY <3>4, <3>6, <3>7
    <3> HIDE DEF At, round
    <3>9. QED
      BY <2>4, <3>1, <3>5, <3>8
  <2>5. CASE x # Nil /\ ~NotAbove(x, high)
    <3>1. high # NULL /\ KeyOf[x] > high /\ high \in Int
      BY <1>3, <2>5 DEF NotAbove
    <3>2. round[at] = <<t.child["left"][x], next>>
      BY <1>1, <2>2, <2>5, <3>1
    <3>3. ASSUME NEW m \in S, NotAbove(m, high), m \in sub[x]
          PROVE  m \in sub[t.child["left"][x]]
      <4>1. KeyOf[m] < KeyOf[x]
        BY <1>3, <2>5, <3>1, <3>3 DEF NotAbove
      <4>2. ~(pos[x] < pos[m]) /\ m # x
        BY <1>3, <2>5, <4>1 DEF Sorted
      <4>3. On(pos, "left", m, x)
        BY <1>1, <2>5, <4>2 DEF Placed, On
      <4>4. QED
        BY <2>5, <3>3, <4>3, SidesAre DEF Shape, Linked
    <3>4. sub[t.child["left"][x]] \subseteq sub[x]
      BY <2>5, Child, SidesAre
    <3>5. Good(t.child["left"][x], next)
      BY <2>2, <3>3, <3>4
    <3> HIDE DEF Good, stage, round
    <3>6. QED
      BY <2>4, <2>5, <3>2, <3>5, SidesAre
  <2>6. CASE x # Nil /\ NotAbove(x, high)
    <3>1. ~(high # NULL /\ KeyOf[x] > high)
      BY <1>3, <2>6 DEF NotAbove
    <3>2. round[at] = <<t.child["right"][x], x>>
      BY <1>1, <2>2, <2>6, <3>1
    <3>3. x \in S /\ x \in sub[x] /\ x # Nil
      BY <1>1, <2>6 DEF Placed
    <3>4. ASSUME NEW m \in S, NotAbove(m, high)
          PROVE  m \in sub[t.child["right"][x]] \/ m = x \/ On(pos, "left", m, x)
      <4>1. CASE m \in sub[x]
        BY <1>1, <3>3, <4>1, Descend, SidesAre, Order DEF Shape, Linked, On
      <4>2. CASE m \notin sub[x]
        <5>1. next # Nil /\ (m = next \/ On(pos, "left", m, next))
          BY <2>2, <3>4, <4>2
        <5>2. On(pos, "left", next, x) /\ next \in S
          BY <2>2, <3>3, <5>1
        <5>3. QED
          BY <1>1, <3>3, <5>1, <5>2, Order, SidesAre
      <4>3. QED
        BY <4>1, <4>2
    <3>5. \A w \in sub[t.child["right"][x]] : On(pos, "left", x, w)
      <4>1. sub[t.child["right"][x]] \subseteq S
        BY <3>3, Child, SidesAre
      <4>2. QED
        BY <3>3, <4>1, SidesAre DEF Shape, Linked, On
    <3>6. Good(t.child["right"][x], x)
      BY <2>6, <3>3, <3>4, <3>5
    <3> HIDE DEF Good, stage, round
    <3>7. QED
      BY <2>4, <2>6, <3>2, <3>3, <3>6, SidesAre
  <2>7. QED
    BY <2>3, <2>5, <2>6
<1>5. PICK at : at = Loop(round, <<Top(t), Nil>>) /\ at \in stage[Rounds]
  <2> HIDE DEF stage, round
  <2>1. QED
    BY <1>2, <1>4, LoopInduction
<1>6. PICK x \in S \cup {Nil}, next \in S \cup {Nil} :
          /\ at = <<x, next>> /\ Good(x, next)
          /\ x = Nil \/ Cardinality(sub[x]) <= Rounds - Rounds
  <2>1. at \in At(Rounds)
    BY <1>1, <1>5
  <2> HIDE DEF Good
  <2>2. QED
    BY <2>1
<1>7. x = Nil
  <2>1. x = Nil \/ (Cardinality(sub[x]) > 0 /\ Cardinality(sub[x]) \in Nat)
    BY Sizes
  <2>2. QED
    BY <1>1, <1>6, <2>1
<1>8. Highest(t, high) = at[2]
  BY <1>5, Zenon DEF Highest, round
<1>9. Highest(t, high) = next
  BY <1>6, <1>8
<1>10. sub[x] = {}
  BY <1>1, <1>7 DEF Placed
<1>11. QED
  BY <1>6, <1>9, <1>10

(* The descent of _rb_tree_insert ends at a node with no child on that side, *)
(* and a leaf there comes after the nodes whose key is not above its own and *)
(* before the others.                                                        *)
LEMMA PlaceIs ==
    ASSUME NEW t, NEW S, NEW sub, NEW pos, Shape(t, S, sub, pos), Sorted(S, pos),
           NEW key \in Int
    PROVE  \E y \in S \cup {Root} :
               /\ y = Place(t, key) /\ t.child[Way(y, key)][y] = Nil /\ Way(y, key) \in Sides
               /\ y \in S => \A m \in S : KeyOf[m] > key <=>
                                 On(pos, "left", y, m) \/ (m = y /\ Way(y, key) = "left")
<1> DEFINE Good(y) == y \in S =>
               \A m \in S \ sub[y], w \in sub[y] : KeyOf[m] > key <=> On(pos, "left", w, m)
           Over(y) == t.child[Way(y, key)][y] = Nil
           left(y) == IF y = Root THEN Cardinality(S) + 1 ELSE Cardinality(sub[y])
           At(n) == {y \in S \cup {Root} : Good(y) /\ (Over(y) \/ left(y) <= Rounds - n)}
           stage == [n \in Nat |-> At(n)]
           round == [y \in Nodes \cup {Root} |->
                      LET x == t.child[Way(y, key)][y] IN IF x = Nil THEN y ELSE x]
<1>1. /\ Placed(S, sub, pos) /\ Rounds \in Nat /\ S \subseteq Nodes /\ Nil \notin S /\ Root \notin S
      /\ Cardinality(S) \in Nat /\ Cardinality(S) < Rounds
  BY RoundsType, Distinct, FS_CardinalityType DEF Shape, Placed
<1>2. Root \in stage[0]
  <2>1. Good(Root)
    BY <1>1
  <2>2. left(Root) <= Rounds - 0
    BY <1>1
  <2> HIDE DEF Good, left, Over
  <2>3. Root \in At(0)
    BY <2>1, <2>2
  <2>4. QED
    BY <2>3
<1>3. \A y \in S \cup {Root} : Way(y, key) \in Sides
  BY SidesAre DEF Way
<1>4. ASSUME NEW n \in Nat, NEW y \in stage[n] PROVE round[y] \in stage[n + 1]
  <2>1. y \in S \cup {Root} /\ Good(y) /\ (Over(y) \/ left(y) <= Rounds - n)
    <3>1. y \in At(n)
      BY <1>4
    <3> HIDE DEF Good, left, Over
    <3>2. QED
      BY <3>1
  <2>2. CASE Over(y)
    <3>1. round[y] = y
      BY <1>1, <2>1, <2>2
    <3>2. y \in At(n + 1)
      <4> HIDE DEF Good, left, Over
      <4>1. QED
        BY <2>1, <2>2
    <3>3. QED
      BY <3>1, <3>2
  <2>3. CASE ~Over(y)
    <3>1. PICK s \in Sides : s = Way(y, key)
      BY <1>3, <2>1
    <3>2. PICK c \in S : c = t.child[s][y]
      <4>1. t.child[s][y] \in S \cup {Nil}
        BY <2>1, <2>3, <3>1, OneParent
      <4>2. QED
        BY <2>3, <3>1, <4>1
    <3>3. round[y] = c
      BY <1>1, <2>1, <2>3, <3>1, <3>2
    <3>4. Cardinality(sub[c]) < left(y) /\ Cardinality(sub[c]) \in Nat /\ left(y) \in Nat
      <4>1. Cardinality(sub[c]) \in Nat
        BY Sizes
      <4>2. CASE y = Root
        <5>1. c = Top(t)
          BY <3>2, <4>2, <1>1 DEF Shape, Rooted, Sides, Top
        <5>2. sub[c] = S
          BY <5>1 DEF Shape, Rooted
        <5>3. QED
          BY <1>1, <4>1, <4>2, <5>2
      <4>3. CASE y # Root
        BY <2>1, <3>2, <4>1, <4>3, Sizes
      <4>4. QED
        BY <4>2, <4>3
    <3>5. left(c) <= Rounds - (n + 1)
      <4>1. left(c) = Cardinality(sub[c])
        BY <1>1
      <4> HIDE DEF left
      <4>2. QED
        BY <1>1, <2>1, <2>3, <3>4, <4>1
    <3>6. ASSUME NEW m \in S \ sub[c], NEW w \in sub[c]
          PROVE  KeyOf[m] > key <=> On(pos, "left", w, m)
      <4>1. CASE y = Root
        <5>1. c = Top(t)
          BY <3>2, <4>1, <1>1 DEF Shape, Rooted, Sides, Top
        <5>2. QED
          BY <3>6, <5>1 DEF Shape, Rooted
      <4>2. CASE y # Root
        <5>1. y \in S /\ w \in S /\ w \in sub[y] /\ On(pos, s, w, y)
          BY <1>1, <2>1, <3>2, <4>2 DEF Shape, Linked, Placed
        <5>2. CASE m \notin sub[y]
          BY <2>1, <5>1, <5>2
        <5>3. CASE m \in sub[y]
          <6>1. ~On(pos, s, m, y)
            BY <3>2, <5>1, <5>3, <3>6 DEF Shape, Linked
          <6>2. CASE KeyOf[y] > key
            <7>1. s = "left" /\ (On(pos, "right", m, y) => KeyOf[m] > key)
              BY <1>1, <3>1, <5>1, <6>2, WayKeys
            <7>2. KeyOf[m] > key
              BY <1>1, <5>1, <6>1, <6>2, <7>1 DEF Placed, On
            <7>3. On(pos, "left", w, m)
              BY <1>1, <5>1, <6>1, <7>1 DEF Placed, On
            <7>4. QED
              BY <7>2, <7>3
          <6>3. CASE KeyOf[y] <= key
            <7>1. s = "right" /\ (On(pos, "left", m, y) => KeyOf[m] <= key)
              BY <1>1, <3>1, <5>1, <6>3, WayKeys
            <7>2. KeyOf[m] <= key /\ KeyOf[m] \in Int
              <8>1. m = y \/ On(pos, "left", m, y)
                BY <1>1, <5>1, <6>1, <7>1 DEF Placed, On
              <8>2. QED
                BY <1>1, <5>1, <6>3, <7>1, <8>1, WayKeys
            <7>3. ~On(pos, "left", w, m)
              BY <1>1, <5>1, <6>1, <7>1 DEF Placed, On
            <7>4. QED
              BY <7>2, <7>3
          <6>4. QED
            BY <1>1, <5>1, <6>2, <6>3, WayKeys
        <5>4. QED
          BY <5>2, <5>3
      <4>3. QED
        BY <4>1, <4>2
    <3>7. Good(c)
      BY <3>6
    <3>8. c \in At(n + 1)
      <4> HIDE DEF Good, left, Over
      <4>1. QED
        BY <3>5, <3>7
    <3>9. QED
      BY <3>3, <3>8
  <2>4. QED
    BY <2>2, <2>3
<1>5. PICK y : y = Loop(round, Root) /\ y \in stage[Rounds]
  <2> HIDE DEF stage, round
  <2>1. QED
    BY <1>2, <1>4, LoopInduction
<1>6. y \in S \cup {Root} /\ Good(y) /\ (Over(y) \/ left(y) <= Rounds - Rounds)
  <2>1. y \in At(Rounds)
    BY <1>1, <1>5
  <2> HIDE DEF Good, left, Over
  <2>2. QED
    BY <2>1
<1>7. Over(y)
  <2>1. left(y) > 0 /\ left(y) \in Nat
    BY <1>1, <1>6, Sizes
  <2> HIDE DEF left
  <2>2. QED
    BY <1>1, <1>6, <2>1
<1>8. Place(t, key) = y
  BY <1>5, Zenon DEF Place, round
<1>9. ASSUME y \in S, NEW m \in S
      PROVE  KeyOf[m] > key <=> On(pos, "left", y, m) \/ (m = y /\ Way(y, key) = "left")
  <2>1. CASE m \notin sub[y]
    <3>1. y \in sub[y]
      BY <1>1, <1>9 DEF Placed
    <3>2. m # y
      BY <2>1, <3>1
    <3>3. Good(y)
      <4> HIDE DEF Good, left, Over
      <4>1. QED
        BY <1>6
    <3>4. KeyOf[m] > key <=> On(pos, "left", y, m)
      BY <1>9, <2>1, <3>1, <3>3
    <3>5. QED
      BY <3>2, <3>4, Zenon
  <2>2. CASE m \in sub[y]
    <3>1. PICK s \in Sides : s = Way(y, key)
      BY <1>3, <1>6
    <3>2. ~On(pos, s, m, y)
      <4>1. m \in sub[t.child[s][y]] <=> m \in sub[y] /\ On(pos, s, m, y)
        BY <1>9 DEF Shape, Linked
      <4>2. m \notin sub[Nil]
        BY <1>1 DEF Placed
      <4>3. QED
        BY <1>7, <2>2, <3>1, <4>1, <4>2
    <3>3. CASE KeyOf[y] > key
      <4>1. s = "left" /\ (On(pos, "right", m, y) => KeyOf[m] > key)
        BY <1>1, <1>9, <3>1, <3>3, WayKeys
      <4>2. QED
        BY <1>1, <1>9, <3>1, <3>2, <3>3, <4>1 DEF Placed, On
    <3>4. CASE KeyOf[y] <= key
      <4>1. s = "right" /\ (On(pos, "left", m, y) => KeyOf[m] <= key)
        BY <1>1, <1>9, <3>1, <3>4, WayKeys
      <4>2. m = y \/ On(pos, "left", m, y)
        BY <1>1, <1>9, <3>2, <4>1 DEF Placed, On
      <4>3. KeyOf[m] <= key /\ KeyOf[m] \in Int
        BY <1>1, <1>9, <3>4, <4>1, <4>2, WayKeys
      <4>4. ~On(pos, "left", y, m)
        BY <1>1, <1>9, <4>2 DEF Placed, On
      <4>5. QED
        BY <3>1, <4>1, <4>3, <4>4, SidesAre
    <3>5. QED
      BY <1>1, <1>9, <3>3, <3>4, WayKeys
  <2>3. QED
    BY <2>1, <2>2
<1>10. QED
  BY <1>3, <1>6, <1>7, <1>8, <1>9

-----------------------------------------------------------------------------
(* A new leaf.                                                               *)

\* One link changed.
LEMMA LinkSet ==
    ASSUME NEW child \in [Sides -> [Addresses -> Addresses \cup {NULL}]],
           NEW s \in Sides, NEW p \in Addresses, NEW c \in Addresses \cup {NULL}
    PROVE  LET new == [child EXCEPT ![s][p] = c]
           IN  /\ new \in [Sides -> [Addresses -> Addresses \cup {NULL}]]
               /\ \A r \in Sides, n \in Addresses :
                      new[r][n] = IF r = s /\ n = p THEN c ELSE child[r][n]
  OBVIOUS

\* _rb_tree_insert hangs a leaf below the place, and changes no other link.
LEMMA InsertLinks ==
    ASSUME NEW t \in Trees, NEW z \in Nodes, NEW y \in Nodes \cup {Root}, y # z,
           y = Place(t, KeyOf[z]), Way(y, KeyOf[z]) \in Sides
    PROVE  LET new == _rb_tree_insert(t, z)
           IN  /\ new \in Trees /\ new.red = t.red
               /\ \A r \in Sides, n \in Nodes \cup {Root} :
                      new.child[r][n] = IF n = z THEN Nil
                                        ELSE IF n = y /\ r = Way(y, KeyOf[z]) THEN z
                                        ELSE t.child[r][n]
               /\ \A n \in Nodes \cup {Root, Nil} :
                      new.parent[n] = IF n = z THEN y ELSE t.parent[n]
<1> DEFINE s == Way(y, KeyOf[z])
           leaf == [r \in Sides |-> [t.child[r] EXCEPT ![z] = Nil]]
           child == [leaf EXCEPT ![s][y] = z]
           parent == [t.parent EXCEPT ![z] = y]
           new == _rb_tree_insert(t, z)
<1>1. new = [child |-> child, parent |-> parent, red |-> t.red]
  BY Zenon DEF _rb_tree_insert
<1>2. /\ t.child \in [Sides -> [Addresses -> Addresses \cup {NULL}]]
      /\ t.parent \in [Addresses -> Addresses \cup {NULL}]
      /\ t.red \in SUBSET Addresses
  BY DEF Trees
<1>3. z \in Addresses /\ y \in Addresses /\ Nil \in Addresses
  BY DEF Addresses
<1>4. leaf \in [Sides -> [Addresses -> Addresses \cup {NULL}]]
  BY <1>2, <1>3
<1>5. \A r \in Sides, n \in Addresses : leaf[r][n] = IF n = z THEN Nil ELSE t.child[r][n]
  BY <1>2
<1> HIDE DEF leaf
<1>6. /\ child \in [Sides -> [Addresses -> Addresses \cup {NULL}]]
      /\ \A r \in Sides, n \in Addresses : child[r][n] = IF r = s /\ n = y THEN z ELSE leaf[r][n]
  BY <1>3, <1>4, LinkSet
<1>7. /\ parent \in [Addresses -> Addresses \cup {NULL}]
      /\ \A n \in Addresses : parent[n] = IF n = z THEN y ELSE t.parent[n]
  BY <1>2, <1>3
<1> HIDE DEF child, parent, s
<1>8. new.child = child /\ new.parent = parent /\ new.red = t.red
  BY <1>1
<1>9. new \in Trees
  BY <1>1, <1>2, <1>6, <1>7 DEF Trees
<1>10. Nodes \cup {Root} \subseteq Addresses /\ Nodes \cup {Root, Nil} = Addresses
  BY DEF Addresses
<1>11. \A r \in Sides, n \in Nodes \cup {Root} :
          new.child[r][n] = IF n = z THEN Nil ELSE IF n = y /\ r = s THEN z ELSE t.child[r][n]
  BY <1>5, <1>6, <1>8, <1>10
<1>12. \A n \in Nodes \cup {Root, Nil} : new.parent[n] = IF n = z THEN y ELSE t.parent[n]
  BY <1>7, <1>8, <1>10
<1>13. QED
  BY <1>8, <1>9, <1>11, <1>12 DEF s

\* The positions with one for z next to y.
WithPos(S, pos, z, y, s) ==
    [n \in Nodes |-> IF n = z THEN IF y = Root THEN 0
                                   ELSE IF s = "left" THEN 2 * pos[y] - 1 ELSE 2 * pos[y] + 1
                     ELSE 2 * pos[n]]

WithSub(S, sub, z, y) ==
    [n \in Nodes \cup {Nil} |-> IF n = z THEN {z}
                                ELSE IF n \in S /\ y \in sub[n] THEN sub[n] \cup {z}
                                ELSE IF n \in S THEN sub[n] ELSE {}]

(* With such a place z comes right before or after y, and the others as they *)
(* did.                                                                      *)
LEMMA LeafPos ==
    ASSUME NEW S, NEW sub, NEW pos, Placed(S, sub, pos), NEW z \in Nodes \ S,
           NEW y \in S \cup {Root}, y = Root => S = {}, NEW s \in Sides
    PROVE  LET new == WithPos(S, pos, z, y, s)
           IN  /\ new \in [Nodes -> Int]
               /\ \A m, n \in S \cup {z} : new[m] = new[n] => m = n
               /\ \A r \in Sides, m, n \in S : On(new, r, m, n) <=> On(pos, r, m, n)
               /\ \A r \in Sides, n \in S : n # y => /\ On(new, r, z, n) <=> On(pos, r, y, n)
                                                     /\ On(new, r, n, z) <=> On(pos, r, n, y)
               /\ y # Root => \A r \in Sides : /\ On(new, r, z, y) <=> r = s
                                               /\ On(new, r, y, z) <=> r # s
<1> DEFINE new == WithPos(S, pos, z, y, s)
<1>1. S \subseteq Nodes /\ pos \in [Nodes -> Int] /\ (\A m, n \in S : pos[m] = pos[n] => m = n)
      /\ Root \notin Nodes
  BY Distinct DEF Placed
<1>2. \A n \in S : new[n] = 2 * pos[n] /\ new[n] \in Int /\ pos[n] \in Int
  BY <1>1 DEF WithPos
<1>3. y # Root => /\ s = "left" => new[z] = 2 * pos[y] - 1
                  /\ s = "right" => new[z] = 2 * pos[y] + 1
                  /\ y \in S
  BY <1>1, SidesAre DEF WithPos
<1>4. new[z] \in Int
  BY <1>1 DEF WithPos
<1>5. new \in [Nodes -> Int]
  BY <1>1 DEF WithPos
<1> HIDE DEF new
<1>6. s = "left" \/ s = "right"
  BY DEF Sides
<1>7. \A m, n \in S \cup {z} : new[m] = new[n] => m = n
  <2>1. \A m, n \in S : new[m] = new[n] => m = n
    BY <1>1, <1>2
  <2>2. \A n \in S : new[n] # new[z]
    BY <1>1, <1>2, <1>3, <1>4, <1>6
  <2>3. QED
    BY <2>1, <2>2
<1>8. \A r \in Sides, m, n \in S : On(new, r, m, n) <=> On(pos, r, m, n)
  BY <1>2 DEF On
<1>9. ASSUME NEW r \in Sides, NEW n \in S, n # y
      PROVE  (On(new, r, z, n) <=> On(pos, r, y, n)) /\ (On(new, r, n, z) <=> On(pos, r, n, y))
  <2>1. y # Root /\ pos[y] # pos[n]
    BY <1>1, <1>3, <1>9
  <2>2. pos[y] \in Int /\ pos[n] \in Int /\ new[n] = 2 * pos[n]
        /\ (new[z] = 2 * pos[y] - 1 \/ new[z] = 2 * pos[y] + 1)
    BY <1>2, <1>3, <1>6, <2>1
  <2>3. QED
    BY <2>1, <2>2 DEF On
<1>10. ASSUME y # Root, NEW r \in Sides
       PROVE  (On(new, r, z, y) <=> r = s) /\ (On(new, r, y, z) <=> r # s)
  BY <1>2, <1>3, <1>6, <1>10, SidesAre DEF On, Sides
<1>11. QED
  BY <1>5, <1>7, <1>8, <1>9, <1>10 DEF new

\* A tree with a new leaf is one of its nodes and the leaf.
LEMMA LeafShape ==
    ASSUME NEW t, NEW S, NEW sub, NEW pos, Shape(t, S, sub, pos), NEW z \in Nodes \ S,
           NEW y \in S \cup {Root}, NEW s \in Sides, y = Root => s = "left",
           t.child[s][y] = Nil,
           NEW new \in Trees,
           \A r \in Sides, n \in Nodes \cup {Root} :
               new.child[r][n] = IF n = z THEN Nil
                                 ELSE IF n = y /\ r = s THEN z ELSE t.child[r][n],
           \A n \in Nodes \cup {Root, Nil} : new.parent[n] = IF n = z THEN y ELSE t.parent[n]
    PROVE  Shape(new, S \cup {z}, WithSub(S, sub, z, y), WithPos(S, pos, z, y, s))
<1> DEFINE S1 == S \cup {z}
           sub1 == WithSub(S, sub, z, y)
           pos1 == WithPos(S, pos, z, y, s)
<1>1. Placed(S, sub, pos) /\ S \subseteq Nodes /\ sub[Nil] = {} /\ (\A n \in S : n \in sub[n])
      /\ sub \in [Nodes \cup {Nil} -> SUBSET S]
  BY DEF Shape, Placed
<1>2. Nil \notin Nodes /\ Root \notin Nodes /\ Root # Nil /\ z # Nil /\ z # Root /\ y # z
  BY <1>1, Distinct
<1>3. y = Root => S = {} /\ Top(t) = Nil
  <2>1. y = Root => Top(t) = Nil
    BY DEF Top
  <2>2. QED
    BY <1>1, <2>1 DEF Shape, Rooted
<1>4. /\ pos1 \in [Nodes -> Int]
      /\ \A m, n \in S1 : pos1[m] = pos1[n] => m = n
      /\ \A r \in Sides, m, n \in S : On(pos1, r, m, n) <=> On(pos, r, m, n)
      /\ \A r \in Sides, n \in S : n # y => /\ On(pos1, r, z, n) <=> On(pos, r, y, n)
                                            /\ On(pos1, r, n, z) <=> On(pos, r, n, y)
      /\ y # Root => \A r \in Sides : /\ On(pos1, r, z, y) <=> r = s
                                      /\ On(pos1, r, y, z) <=> r # s
  <2>1. y = Root => S = {}
    BY <1>3
  <2>2. QED
    BY <1>1, <2>1, LeafPos
<1>5. /\ sub1 \in [Nodes \cup {Nil} -> SUBSET S1]
      /\ sub1[z] = {z} /\ sub1[Nil] = {}
      /\ \A n \in S : sub1[n] = IF y \in sub[n] THEN sub[n] \cup {z} ELSE sub[n]
  <2>1. \A n \in Nodes \cup {Nil} : sub1[n] = IF n = z THEN {z}
                                ELSE IF n \in S /\ y \in sub[n] THEN sub[n] \cup {z}
                                ELSE IF n \in S THEN sub[n] ELSE {}
    BY DEF WithSub
  <2>2. sub1[z] = {z} /\ sub1[Nil] = {}
    BY <1>1, <1>2, <2>1
  <2>3. \A n \in S : sub1[n] = IF y \in sub[n] THEN sub[n] \cup {z} ELSE sub[n]
    BY <1>1, <2>1
  <2>4. \A n \in Nodes \cup {Nil} : sub1[n] \in SUBSET S1
    <3>1. \A n \in S : sub[n] \in SUBSET S
      BY <1>1
    <3> HIDE DEF sub1
    <3>2. ASSUME NEW n \in Nodes \cup {Nil} PROVE sub1[n] \subseteq S1
      <4>1. CASE n \in S /\ n # z
        <5>1. sub1[n] \subseteq sub[n] \cup {z}
          BY <2>3, <4>1
        <5>2. QED
          BY <3>1, <4>1, <5>1
      <4>2. CASE n \notin S \/ n = z
        BY <2>1, <2>2, <4>2
      <4>3. QED
        BY <4>1, <4>2
    <3>3. QED
      BY <3>2
  <2>5. sub1 = [n \in Nodes \cup {Nil} |-> sub1[n]]
    BY DEF WithSub
  <2> HIDE DEF sub1
  <2>6. QED
    BY <2>2, <2>3, <2>4, <2>5
<1> HIDE DEF sub1, pos1
<1>a. ASSUME NEW n \in S, NEW m
      PROVE  m \in sub1[n] <=> m \in sub[n] \/ (m = z /\ y \in sub[n])
  <2>1. CASE y \in sub[n]
    <3>1. sub1[n] = sub[n] \cup {z}
      BY <1>5, <2>1
    <3>2. QED
      BY <2>1, <3>1
  <2>2. CASE y \notin sub[n]
    <3>1. sub1[n] = sub[n]
      BY <1>5, <2>2
    <3>2. QED
      BY <2>2, <3>1
  <2>3. QED
    BY <2>1, <2>2
<1>6. Placed(S1, sub1, pos1)
  <2>1. \A n \in S1 : n \in sub1[n]
    BY <1>1, <1>5, <1>a
  <2>2. S1 \subseteq Nodes
    BY <1>1
  <2>3. QED
    BY <1>4, <1>5, <2>1, <2>2 DEF Placed
<1>7. Rooted(new, S1, sub1)
  <2>1. new.child["right"][Root] = Nil
    <3>1. t.child["right"][Root] = Nil
      BY DEF Shape, Rooted
    <3>2. QED
      BY <1>2, <3>1, SidesAre
  <2>2. CASE y = Root
    <3>1. Top(new) = z
      BY <1>2, <2>2, SidesAre DEF Top
    <3>2. QED
      BY <1>2, <1>3, <1>5, <2>1, <2>2, <3>1 DEF Rooted
  <2>3. CASE y # Root
    <3>1. Top(new) = Top(t)
      BY <1>2, <2>3, SidesAre DEF Top
    <3>2. Top(t) \in S /\ sub[Top(t)] = S /\ y \in S /\ t.parent[Top(t)] = Root
      BY <1>1, <1>2, <2>3 DEF Shape, Rooted
    <3>3. sub1[Top(t)] = S1
      BY <1>5, <3>2
    <3>4. new.parent[Top(t)] = Root
      BY <1>1, <3>2
    <3>5. QED
      BY <2>1, <3>1, <3>2, <3>3, <3>4 DEF Rooted
  <2>4. QED
    BY <2>2, <2>3
<1>8. ASSUME NEW n \in S1, NEW r \in Sides
      PROVE  /\ new.child[r][n] \in S1 \cup {Nil}
             /\ new.child[r][n] # Nil => new.parent[new.child[r][n]] = n
             /\ \A m \in S1 : m \in sub1[new.child[r][n]] <=> m \in sub1[n] /\ On(pos1, r, m, n)
  <2>1. CASE n = z
    <3>1. new.child[r][n] = Nil
      BY <2>1
    <3>2. ~On(pos1, r, z, z)
      BY <1>4 DEF On
    <3>3. QED
      BY <1>5, <2>1, <3>1, <3>2
  <2>2. CASE n = y /\ r = s
    <3>1. new.child[r][n] = z /\ new.parent[z] = n /\ n \in S /\ y # Root
      BY <1>1, <1>2, <1>8, <2>2
    <3>2. \A m \in S : ~(m \in sub[n] /\ On(pos, r, m, n))
      BY <1>1, <2>2, <3>1 DEF Shape, Linked
    <3>3. sub1[n] = sub[n] \cup {z}
      BY <1>1, <1>5, <2>2, <3>1
    <3>4. ASSUME NEW m \in S1 PROVE m \in sub1[z] <=> m \in sub1[n] /\ On(pos1, r, m, n)
      <4>1. CASE m = z
        BY <1>4, <1>5, <2>2, <3>1, <3>3, <4>1
      <4>2. CASE m # z
        BY <1>4, <1>5, <2>2, <3>1, <3>2, <3>3, <4>2
      <4>3. QED
        BY <4>1, <4>2
    <3>5. QED
      BY <3>1, <3>4
  <2>3. CASE n # z /\ ~(n = y /\ r = s)
    <3>1. n \in S
      BY <2>3
    <3>2. PICK c : c = t.child[r][n]
      OBVIOUS
    <3>3. new.child[r][n] = c
      BY <1>1, <2>3, <3>1, <3>2
    <3>4. /\ c \in S \cup {Nil} /\ c # z
          /\ c # Nil => t.parent[c] = n
          /\ \A m \in S : m \in sub[c] <=> m \in sub[n] /\ On(pos, r, m, n)
      BY <1>2, <3>1, <3>2 DEF Shape, Linked
    <3>5. c # Nil => new.parent[c] = n
      <4>1. c # Nil => c \in Nodes \cup {Root, Nil}
        BY <1>1, <3>4
      <4>2. QED
        BY <3>4, <4>1
    <3>a. \A k \in S \cup {Nil} : sub[k] \in SUBSET S
      BY <1>1
    <3>6. z \in sub1[c] <=> y \in sub[c]
      <4>1. CASE c = Nil
        BY <1>1, <1>5, <4>1
      <4>2. CASE c # Nil
        BY <1>5, <3>4, <3>a, <4>2
      <4>3. QED
        BY <4>1, <4>2
    <3>7. z \in sub1[n] <=> y \in sub[n]
      BY <1>5, <3>1, <3>a
    <3>8. \A m \in S : (m \in sub1[c] <=> m \in sub[c]) /\ (m \in sub1[n] <=> m \in sub[n])
      <4>1. \A k \in S, m \in S : m \in sub1[k] <=> m \in sub[k]
        BY <1>a
      <4>2. \A m \in S : m \in sub1[Nil] <=> m \in sub[Nil]
        BY <1>1, <1>5
      <4>3. QED
        BY <3>1, <3>4, <4>1, <4>2
    <3>9. ASSUME NEW m \in S1 PROVE m \in sub1[c] <=> m \in sub1[n] /\ On(pos1, r, m, n)
      <4>1. CASE m # z
        BY <1>4, <3>1, <3>4, <3>8, <4>1
      <4>2. CASE m = z /\ n # y
        <5>1. On(pos1, r, z, n) <=> On(pos, r, y, n)
          BY <1>4, <3>1, <4>2
        <5>2. y \in S
          BY <1>3, <3>1
        <5>3. QED
          BY <3>4, <3>6, <3>7, <4>2, <5>1, <5>2
      <4>3. CASE m = z /\ n = y
        <5>1. ~On(pos1, r, z, n) /\ y \in S
          BY <1>1, <1>2, <1>4, <2>3, <3>1, <4>3
        <5>2. y \notin sub[c]
          BY <3>1, <3>2, <4>3, Child
        <5>3. QED
          BY <3>6, <4>3, <5>1, <5>2
      <4>4. QED
        BY <4>1, <4>2, <4>3
    <3>10. QED
      BY <3>3, <3>4, <3>5, <3>9
  <2>4. QED
    BY <2>1, <2>2, <2>3
<1>9. Linked(new, S1, sub1, pos1)
  BY <1>8 DEF Linked
<1>10. QED
  BY <1>6, <1>7, <1>9 DEF Shape, S1, sub1, pos1

-----------------------------------------------------------------------------
(* A rotation.                                                               *)

(* A rotation changes the links of x and its child y, of the node they hang  *)
(* from and of the one between them, and no other.                           *)
LEMMA RotateLinks ==
    ASSUME NEW t \in Trees, NEW x \in Nodes, NEW s \in Sides, NEW y \in Nodes,
           NEW b \in Nodes \cup {Nil}, NEW p \in Nodes \cup {Root}, NEW d \in Sides,
           y = t.child[Opposite(s)][x], b = t.child[s][y], p = t.parent[x], d = SideOf(t, x),
           p # x, p # y, x # y
    PROVE  LET new == Rotate(t, x, s)
           IN  /\ new \in Trees /\ new.red = t.red
               /\ \A r \in Sides, n \in Nodes \cup {Root} :
                      new.child[r][n] = IF n = x /\ r = Opposite(s) THEN b
                                        ELSE IF n = y /\ r = s THEN x
                                        ELSE IF n = p /\ r = d THEN y
                                        ELSE t.child[r][n]
               /\ \A n \in Addresses :
                      new.parent[n] = IF n = x THEN y ELSE IF n = y THEN p
                                      ELSE IF n = b /\ b # Nil THEN x ELSE t.parent[n]
<1> DEFINE o == Opposite(s)
           lowered == [t.child EXCEPT ![o][x] = b]
           side == IF x = lowered["left"][p] THEN "left" ELSE "right"
           hung == [lowered EXCEPT ![side][p] = y]
           adopted == IF b # Nil THEN [t.parent EXCEPT ![b] = x] ELSE t.parent
           child == [hung EXCEPT ![s][y] = x]
           parent == [adopted EXCEPT ![y] = p, ![x] = y]
           new == Rotate(t, x, s)
           Links == [Sides -> [Addresses -> Addresses \cup {NULL}]]
<1>1. new = [child |-> child, parent |-> parent, red |-> t.red]
  BY Zenon DEF Rotate
<1>2. t.child \in Links /\ t.parent \in [Addresses -> Addresses \cup {NULL}] /\ t.red \in SUBSET Addresses
  BY DEF Trees
<1>3. x \in Addresses /\ y \in Addresses /\ p \in Addresses /\ b \in Addresses /\ Nil \in Addresses
      /\ o \in Sides /\ "left" \in Sides /\ "right" \in Sides
  BY SidesAre DEF Addresses
<1>4. /\ lowered \in Links
      /\ \A r \in Sides, n \in Addresses : lowered[r][n] = IF r = o /\ n = x THEN b ELSE t.child[r][n]
  BY <1>2, <1>3, LinkSet
<1> HIDE DEF lowered
<1>5. side = d
  BY <1>3, <1>4 DEF SideOf
<1>6. /\ hung \in Links
      /\ \A r \in Sides, n \in Addresses : hung[r][n] = IF r = d /\ n = p THEN y ELSE lowered[r][n]
  <2> HIDE DEF side
  <2>1. QED
    BY <1>3, <1>4, <1>5, LinkSet
<1> HIDE DEF hung
<1>7. /\ child \in Links
      /\ \A r \in Sides, n \in Addresses : child[r][n] = IF r = s /\ n = y THEN x ELSE hung[r][n]
  BY <1>3, <1>6, LinkSet
<1>8. /\ adopted \in [Addresses -> Addresses \cup {NULL}]
      /\ \A n \in Addresses : adopted[n] = IF n = b /\ b # Nil THEN x ELSE t.parent[n]
  BY <1>2, <1>3
<1> HIDE DEF adopted
<1>9. /\ parent \in [Addresses -> Addresses \cup {NULL}]
      /\ \A n \in Addresses : parent[n] = IF n = x THEN y ELSE IF n = y THEN p ELSE adopted[n]
  BY <1>3, <1>8
<1> HIDE DEF child, parent, Links
<1>10. new.child = child /\ new.parent = parent /\ new.red = t.red
  BY <1>1
<1>11. new \in Trees
  BY <1>1, <1>2, <1>7, <1>9 DEF Trees, Links
<1>12. Nodes \cup {Root} \subseteq Addresses
  BY DEF Addresses
<1>13. ASSUME NEW r \in Sides, NEW n \in Nodes \cup {Root}
       PROVE  new.child[r][n] = IF n = x /\ r = o THEN b ELSE IF n = y /\ r = s THEN x
                                ELSE IF n = p /\ r = d THEN y ELSE t.child[r][n]
  <2>1. n \in Addresses
    BY <1>12
  <2>2. /\ child[r][n] = IF r = s /\ n = y THEN x ELSE hung[r][n]
        /\ hung[r][n] = IF r = d /\ n = p THEN y ELSE lowered[r][n]
        /\ lowered[r][n] = IF r = o /\ n = x THEN b ELSE t.child[r][n]
    BY <1>4, <1>6, <1>7, <2>1
  <2> HIDE DEF o, new
  <2>3. QED
    BY <1>10, <2>2
<1>14. \A n \in Addresses :
           new.parent[n] = IF n = x THEN y ELSE IF n = y THEN p
                           ELSE IF n = b /\ b # Nil THEN x ELSE t.parent[n]
  BY <1>8, <1>9, <1>10
<1>15. QED
  BY <1>10, <1>11, <1>13, <1>14 DEF o

TurnedSub(S, sub, pos, x, y, s) ==
    [n \in Nodes \cup {Nil} |-> IF n = y THEN sub[x]
                                ELSE IF n = x THEN {m \in sub[x] : On(pos, s, m, y)}
                                ELSE sub[n]]

(* A rotation keeps the tree and its order: only the two nodes that change places *)
(* have other nodes below them than before.                                   *)
LEMMA RotateShape ==
    ASSUME NEW t, NEW S, NEW sub, NEW pos, Shape(t, S, sub, pos),
           NEW x \in S, NEW s \in Sides, t.child[Opposite(s)][x] # Nil
    PROVE  LET o == Opposite(s)
               y == t.child[o][x]
               b == t.child[s][y]
               p == t.parent[x]
               d == SideOf(t, x)
               new == Rotate(t, x, s)
           IN  /\ Shape(new, S, TurnedSub(S, sub, pos, x, y, s), pos)
               /\ new.red = t.red
               /\ y \in S /\ y # x /\ p # x /\ p # y /\ b \in S \cup {Nil} /\ b # x /\ b # y
               /\ p \in S \cup {Root} /\ (p = Root <=> x = Top(t))
               /\ \A r \in Sides, n \in Nodes \cup {Root} :
                      new.child[r][n] = IF n = x /\ r = o THEN b
                                        ELSE IF n = y /\ r = s THEN x
                                        ELSE IF n = p /\ r = d THEN y
                                        ELSE t.child[r][n]
               /\ \A n \in Addresses :
                      new.parent[n] = IF n = x THEN y ELSE IF n = y THEN p
                                      ELSE IF n = b /\ b # Nil THEN x ELSE t.parent[n]
               /\ Top(new) = IF x = Top(t) THEN y ELSE Top(t)
<1> DEFINE o == Opposite(s)
           new == Rotate(t, x, s)
<1>1. Placed(S, sub, pos) /\ S \subseteq Nodes /\ sub[Nil] = {} /\ (\A n \in S : n \in sub[n])
      /\ (\A n \in S \cup {Nil} : sub[n] \in SUBSET S) /\ t \in Trees
      /\ Nil \notin S /\ Root \notin S
  BY Distinct DEF Shape, Placed
<1>2. o \in Sides /\ o # s /\ Opposite(o) = s
  BY SidesAre
<1>3. PICK y \in S : /\ y = t.child[o][x] /\ t.parent[y] = x /\ y # x /\ On(pos, o, y, x)
                     /\ sub[y] \subseteq sub[x] /\ x \notin sub[y]
  BY <1>2, Child
<1>4. PICK b \in S \cup {Nil} :
          /\ b = t.child[s][y] /\ (b # Nil => t.parent[b] = y /\ b # y) /\ b # x
          /\ sub[b] \subseteq sub[y]
  <2>1. /\ t.child[s][y] # Nil => /\ t.child[s][y] \in sub[t.child[s][y]]
                                  /\ t.child[s][y] \in S /\ t.child[s][y] # y
                                  /\ t.parent[t.child[s][y]] = y
        /\ sub[t.child[s][y]] \subseteq sub[y]
    BY <1>3, Child
  <2>2. QED
    BY <1>1, <1>3, <2>1
<1>5. PICK p \in S \cup {Root}, d \in Sides :
          /\ p = t.parent[x] /\ d = SideOf(t, x) /\ t.child[d][p] = x /\ p # x
          /\ p = Root <=> x = Top(t)
          /\ p = Root => d = "left"
  BY <1>1, ParentOf
<1>6. p # y
  <2> SUFFICES ASSUME p = y PROVE FALSE
    OBVIOUS
  <2>1. p \in S
    BY <1>3
  <2>2. sub[t.child[d][p]] \subseteq sub[p]
    BY <2>1, Child
  <2>3. x \in sub[x] /\ sub[x] \subseteq sub[y]
    BY <1>1, <1>5, <2>2
  <2>4. QED
    BY <1>3, <2>3
<1>7. /\ new \in Trees /\ new.red = t.red
      /\ \A r \in Sides, n \in Nodes \cup {Root} :
                      new.child[r][n] = IF n = x /\ r = o THEN b
                                        ELSE IF n = y /\ r = s THEN x
                                        ELSE IF n = p /\ r = d THEN y
                                        ELSE t.child[r][n]
      /\ \A n \in Addresses :
                      new.parent[n] = IF n = x THEN y ELSE IF n = y THEN p
                                      ELSE IF n = b /\ b # Nil THEN x ELSE t.parent[n]
  <2>1. x \in Nodes /\ y \in Nodes /\ b \in Nodes \cup {Nil} /\ p \in Nodes \cup {Root}
    BY <1>1
  <2>2. QED
    BY <1>1, <1>3, <1>4, <1>5, <1>6, <2>1, RotateLinks
<1> HIDE DEF new
<1> DEFINE sub1 == TurnedSub(S, sub, pos, x, y, s)
<1>8. /\ sub1[y] = sub[x] /\ sub1[x] = {m \in sub[x] : On(pos, s, m, y)}
      /\ \A n \in S \cup {Nil} : n # x /\ n # y => sub1[n] = sub[n]
  BY <1>1, <1>3 DEF TurnedSub
<1>9. sub1 \in [Nodes \cup {Nil} -> SUBSET S]
  <2>1. sub \in [Nodes \cup {Nil} -> SUBSET S] /\ x \in Nodes
    BY <1>1 DEF Placed
  <2>2. QED
    BY <2>1 DEF TurnedSub
<1> HIDE DEF sub1
<1>10. /\ \A m \in S : ~On(pos, s, m, m)
       /\ \A m, n \in S : On(pos, o, m, n) <=> On(pos, s, n, m)
       /\ \A m, n \in S : m = n \/ On(pos, s, m, n) \/ On(pos, s, n, m)
       /\ \A m, n \in S : On(pos, s, m, n) => ~On(pos, s, n, m)
       /\ \A k, m, n \in S : On(pos, s, k, m) /\ On(pos, s, m, n) => On(pos, s, k, n)
  BY <1>1, Order
<1>11. Placed(S, sub1, pos)
  <2>1. \A n \in S : n \in sub1[n]
    <3>1. x \in sub1[x]
      BY <1>1, <1>3, <1>8, <1>10
    <3>2. y \in sub1[y]
      BY <1>1, <1>3, <1>8
    <3>3. QED
      BY <1>1, <1>8, <3>1, <3>2
  <2>2. sub1[Nil] = {}
    BY <1>1, <1>8
  <2>3. QED
    BY <1>1, <1>9, <2>1, <2>2 DEF Placed
<1>12. new.child["right"][Root] = Nil /\ Top(new) = IF x = Top(t) THEN y ELSE Top(t)
  <2>1. t.child["right"][Root] = Nil
    BY DEF Shape, Rooted
  <2>2. x # Root /\ y # Root /\ "left" \in Sides /\ "right" \in Sides /\ "left" # "right"
    BY <1>1, SidesAre
  <2>3. new.child["right"][Root] = Nil
    BY <1>5, <1>7, <2>1, <2>2
  <2>4. Top(new) = IF x = Top(t) THEN y ELSE Top(t)
    BY <1>5, <1>7, <2>2 DEF Top
  <2>5. QED
    BY <2>3, <2>4
<1>13. Rooted(new, S, sub1)
  <2>1. Top(t) \in S /\ sub[Top(t)] = S /\ t.parent[Top(t)] = Root
    BY <1>1 DEF Shape, Rooted
  <2>2. CASE x = Top(t)
    <3>1. Top(new) = y /\ new.parent[y] = Root /\ sub1[y] = S
      BY <1>1, <1>3, <1>5, <1>7, <1>8, <1>12, <2>1, <2>2 DEF Addresses
    <3>2. QED
      BY <1>12, <3>1 DEF Rooted
  <2>3. CASE x # Top(t)
    <3>1. Top(t) # y
      BY <1>1, <1>3, <2>1
    <3>2. Top(t) # b
      BY <1>1, <1>3, <1>4, <2>1
    <3>3. new.parent[Top(t)] = Root
      BY <1>1, <1>7, <2>1, <2>3, <3>1, <3>2 DEF Addresses
    <3>4. QED
      BY <1>8, <1>12, <2>1, <2>3, <3>1, <3>3 DEF Rooted
  <2>4. QED
    BY <2>2, <2>3
<1>14. ASSUME NEW n \in S, NEW r \in Sides
       PROVE  /\ new.child[r][n] \in S \cup {Nil}
              /\ new.child[r][n] # Nil => new.parent[new.child[r][n]] = n
              /\ \A m \in S : m \in sub1[new.child[r][n]] <=> m \in sub1[n] /\ On(pos, r, m, n)
  <2>1. \A m \in S : m \in sub[t.child[r][n]] <=> m \in sub[n] /\ On(pos, r, m, n)
    BY DEF Shape, Linked
  <2>2. \A m \in S : m \in sub[b] <=> m \in sub[y] /\ On(pos, s, m, y)
    BY <1>4 DEF Shape, Linked
  <2>3. \A m \in S : m \in sub[y] <=> m \in sub[x] /\ On(pos, o, m, x)
    BY <1>2, <1>3 DEF Shape, Linked
  <2>4. CASE n = x /\ r = o
    <3>1. new.child[r][n] = b
      BY <1>1, <1>7, <2>4
    <3>2. b # Nil => new.parent[b] = x
      <4> SUFFICES ASSUME b # Nil PROVE new.parent[b] = x
        OBVIOUS
      <4>1. b \in Addresses
        BY <1>1 DEF Addresses
      <4>2. new.parent[b] = IF b = x THEN y ELSE IF b = y THEN p
                            ELSE IF b = b /\ b # Nil THEN x ELSE t.parent[b]
        BY <1>7, <4>1
      <4>3. QED
        BY <1>4, <4>2
    <3>3. sub1[b] = sub[b]
      <4>1. b # y
        BY <1>1, <1>4
      <4>2. QED
        BY <1>4, <1>8, <4>1
    <3>4. \A m \in S : m \in sub[b] <=> m \in sub1[x] /\ On(pos, o, m, x)
      BY <1>8, <2>2, <2>3
    <3>5. QED
      BY <2>4, <3>1, <3>2, <3>3, <3>4
  <2>5. CASE n = x /\ r = s
    <3>1. new.child[r][n] = t.child[s][x]
      BY <1>1, <1>2, <1>3, <1>5, <1>7, <2>5
    <3>2. PICK a \in S \cup {Nil} : a = t.child[s][x] /\ a # x /\ a # y /\ (a # Nil => t.parent[a] = x)
      <4>1. /\ t.child[s][x] # Nil => t.child[s][x] \in S /\ t.child[s][x] # x /\ t.parent[t.child[s][x]] = x
            /\ t.child[s][x] \in S \cup {Nil}
            /\ t.child[o][x] # Nil => t.child[Opposite(o)][x] # t.child[o][x]
        BY <1>2, Child DEF Shape, Linked
      <4>2. QED
        BY <1>1, <1>2, <1>3, <4>1
    <3>3. a # Nil => a # b
      BY <1>3, <1>4, <3>2
    <3>4. a # Nil => new.parent[a] = x
      BY <1>1, <1>7, <3>2, <3>3 DEF Addresses
    <3>5. \A m \in S : m \in sub[x] /\ On(pos, s, m, x) => On(pos, s, m, y)
      BY <1>3, <1>10
    <3>6. \A m \in S : m \in sub1[a] <=> m \in sub1[x] /\ On(pos, s, m, x)
      BY <1>8, <2>1, <2>5, <3>2, <3>5
    <3>7. QED
      BY <2>5, <3>1, <3>2, <3>4, <3>6
  <2>6. CASE n = y /\ r = s
    <3>1. new.child[r][n] = x /\ new.parent[x] = y
      BY <1>1, <1>3, <1>7, <2>6 DEF Addresses
    <3>2. \A m \in S : m \in sub1[x] <=> m \in sub1[y] /\ On(pos, s, m, y)
      BY <1>8
    <3>3. QED
      BY <2>6, <3>1, <3>2
  <2>7. CASE n = y /\ r = o
    <3>1. new.child[r][n] = t.child[o][y]
      BY <1>1, <1>2, <1>3, <1>6, <1>7, <2>7
    <3>2. PICK a \in S \cup {Nil} : a = t.child[o][y] /\ a # x /\ a # y /\ (a # Nil => t.parent[a] = y)
                                    /\ (a # Nil => a # b)
      <4>1. /\ t.child[o][y] # Nil => /\ t.child[o][y] \in S /\ t.child[o][y] # y
                                      /\ t.parent[t.child[o][y]] = y /\ t.child[o][y] \in sub[t.child[o][y]]
                                      /\ t.child[Opposite(o)][y] # t.child[o][y]
            /\ sub[t.child[o][y]] \subseteq sub[y]
            /\ t.child[o][y] \in S \cup {Nil}
        BY <1>2, Child DEF Shape, Linked
      <4>2. QED
        BY <1>1, <1>2, <1>3, <1>4, <4>1
    <3>3. a # Nil => new.parent[a] = y
      BY <1>1, <1>7, <3>2 DEF Addresses
    <3>4. \A m \in S : m \in sub[x] /\ On(pos, o, m, y) => m \in sub[y]
      BY <1>3, <1>10, <2>3
    <3>5. \A m \in S : m \in sub1[a] <=> m \in sub1[y] /\ On(pos, o, m, y)
      BY <1>3, <1>8, <2>1, <2>7, <3>2, <3>4
    <3>6. QED
      BY <2>7, <3>1, <3>2, <3>3, <3>5
  <2>8. CASE n = p /\ r = d
    <3>1. new.child[r][n] = y /\ new.parent[y] = n
      BY <1>1, <1>3, <1>5, <1>6, <1>7, <2>8 DEF Addresses
    <3>2. \A m \in S : m \in sub1[y] <=> m \in sub1[n] /\ On(pos, r, m, n)
      BY <1>3, <1>5, <1>6, <1>8, <2>1, <2>8
    <3>3. QED
      BY <1>3, <3>1, <3>2
  <2>9. CASE n # x /\ n # y /\ ~(n = p /\ r = d)
    <3>1. PICK c \in S \cup {Nil} : c = t.child[r][n] /\ (c # Nil => t.parent[c] = n)
      BY DEF Shape, Linked
    <3>2. new.child[r][n] = c
      BY <1>1, <1>7, <2>9, <3>1
    <3>3. c # x
      <4> SUFFICES ASSUME c = x PROVE FALSE
        OBVIOUS
      <4>1. n \in S \cup {Root} /\ t.child[r][n] # Nil /\ t.child[r][n] = x
        BY <1>1, <3>1
      <4>2. t.parent[x] = n /\ SideOf(t, x) = r
        BY <4>1, OneParent
      <4>3. QED
        BY <1>5, <2>9, <4>2
    <3>4. c # y /\ (c # Nil => c # b)
      BY <1>1, <1>3, <1>4, <2>9, <3>1
    <3>5. c # Nil => new.parent[c] = n
      BY <1>1, <1>7, <3>1, <3>3, <3>4 DEF Addresses
    <3>6. sub1[c] = sub[c] /\ sub1[n] = sub[n]
      BY <1>8, <2>9, <3>3, <3>4
    <3>7. QED
      BY <2>1, <3>1, <3>2, <3>5, <3>6
  <2>10. QED
    BY <1>2, <2>4, <2>5, <2>6, <2>7, <2>8, <2>9, SidesAre
<1>15. Linked(new, S, sub1, pos)
  BY <1>14 DEF Linked
<1>16. Shape(new, S, sub1, pos)
  BY <1>7, <1>11, <1>13, <1>15 DEF Shape
<1>17. QED
  BY <1>1, <1>3, <1>4, <1>5, <1>6, <1>7, <1>12, <1>16 DEF sub1, new

-----------------------------------------------------------------------------
(* Colours and heights.  bh[n] is the number of the black nodes on each way  *)
(* down from n, a third ghost.                                               *)

\* The links of the nodes that are not in the tree, and the sentinel's parent.
Outside(t, S) ==
    <<[n \in Nodes \ S |-> <<t.child["left"][n], t.child["right"][n], t.parent[n]>>],
      t.parent[Root]>>

Black(t, n) == IF n \in t.red THEN 0 ELSE 1

(* bh[n] black nodes are on the way from n down to any end of the tree, one less  *)
(* if the way goes down from p along side s (nowhere when p is the sentinel).   *)
Heights(t, S, bh, p, s) ==
    /\ bh \in [Nodes \cup {Nil} -> Nat] /\ bh[Nil] = 0
    /\ \A n \in S, r \in Sides :
           bh[n] = bh[t.child[r][n]] + Black(t, n) + (IF n = p /\ r = s THEN 1 ELSE 0)

\* Painting nodes changes neither the shape nor a link.
LEMMA PaintShape ==
    ASSUME NEW t, NEW S, NEW sub, NEW pos, Shape(t, S, sub, pos),
           NEW black, NEW red \in SUBSET Addresses
    PROVE  LET new == Painted(t, black, red)
           IN  /\ Shape(new, S, sub, pos)
               /\ new.child = t.child /\ new.parent = t.parent /\ Top(new) = Top(t)
               /\ new.red = (t.red \ black) \cup red
               /\ \A n : SideOf(new, n) = SideOf(t, n)
               /\ Outside(new, S) = Outside(t, S)
<1> DEFINE new == Painted(t, black, red)
<1>1. new.child = t.child /\ new.parent = t.parent /\ new.red = (t.red \ black) \cup red
  BY DEF Painted
<1>2. Top(new) = Top(t) /\ \A n : SideOf(new, n) = SideOf(t, n)
  BY <1>1 DEF Top, SideOf
<1>3. new \in Trees
  BY DEF Shape, Trees, Painted
<1> HIDE DEF new
<1>4. Rooted(new, S, sub) /\ Linked(new, S, sub, pos)
  BY <1>1, <1>2 DEF Shape, Rooted, Linked
<1>5. Outside(new, S) = Outside(t, S)
  BY <1>1 DEF Outside
<1>6. QED
  BY <1>1, <1>2, <1>3, <1>4, <1>5 DEF Shape, new

(* What a rotation changes around the two nodes, x and its child y on side o, and *)
(* elsewhere; a, b and c are the other children, from side s to side o.         *)
Turned(t, new, S, x, y, s, o, a, b, c) ==
    /\ new.red = t.red /\ y \in S /\ y # x /\ x # Nil /\ y # Nil
    /\ {a, b, c} \subseteq (S \cup {Nil}) \ {x, y}
    /\ new.child[s][x] = a /\ new.child[o][x] = b
    /\ new.child[s][y] = x /\ new.child[o][y] = c
    /\ \A n \in S \ {x, y}, r \in Sides :
           /\ t.child[r][n] # y
           /\ new.child[r][n] = IF t.child[r][n] = x THEN y ELSE t.child[r][n]
    /\ \A n \in S : new.parent[n] = IF n = x THEN y ELSE IF n = y THEN t.parent[x]
                                    ELSE IF n = b THEN x ELSE t.parent[n]
    /\ new.parent[Nil] = t.parent[Nil]
    /\ Top(new) = IF x = Top(t) THEN y ELSE Top(t)

\* The nodes that such a rotation is about.
Turning(t, new, S, sub, pos, x, y, s, o, a, b, c) ==
    /\ Shape(t, S, sub, pos) /\ x \in S /\ s \in Sides /\ o \in Sides /\ o # s
    /\ t.child[o][x] = y /\ y # Nil /\ new = Rotate(t, x, s)
    /\ t.child[s][x] = a /\ t.child[s][y] = b /\ t.child[o][y] = c

(* A rotation turns the two nodes, keeps the order of all, and the links of  *)
(* no node outside of the tree change.                                       *)
LEMMA RotateLocal ==
    ASSUME NEW t, NEW new, NEW S, NEW sub, NEW pos, NEW x, NEW y, NEW s, NEW o,
           NEW a, NEW b, NEW c, Turning(t, new, S, sub, pos, x, y, s, o, a, b, c)
    PROVE  /\ Turned(t, new, S, x, y, s, o, a, b, c)
           /\ \E sub1 : Shape(new, S, sub1, pos)
           /\ Outside(new, S) = Outside(t, S)
<1>0. /\ Shape(t, S, sub, pos) /\ x \in S /\ s \in Sides /\ o \in Sides /\ o = Opposite(s)
      /\ y = t.child[o][x] /\ y # Nil /\ new = Rotate(t, x, s)
      /\ a = t.child[s][x] /\ b = t.child[s][y] /\ c = t.child[o][y]
  BY SidesAre DEF Turning
<1>1. PICK p \in S \cup {Root}, d \in Sides : p = t.parent[x] /\ d = SideOf(t, x) /\ t.child[d][p] = x
  BY <1>0, ParentOf
<1>2. /\ Shape(new, S, TurnedSub(S, sub, pos, x, y, s), pos)
      /\ new.red = t.red
      /\ y \in S /\ y # x /\ p # x /\ p # y /\ b \in S \cup {Nil} /\ b # x /\ b # y
      /\ \A r \in Sides, n \in Nodes \cup {Root} :
             new.child[r][n] = IF n = x /\ r = o THEN b
                               ELSE IF n = y /\ r = s THEN x
                               ELSE IF n = p /\ r = d THEN y
                               ELSE t.child[r][n]
      /\ \A n \in Addresses :
             new.parent[n] = IF n = x THEN y ELSE IF n = y THEN p
                             ELSE IF n = b /\ b # Nil THEN x ELSE t.parent[n]
      /\ Top(new) = IF x = Top(t) THEN y ELSE Top(t)
  BY <1>0, <1>1, RotateShape
<1>3. S \subseteq Nodes /\ Nil \notin S /\ S \subseteq Addresses
  BY <1>0, Distinct DEF Shape, Placed, Addresses
<1>4. o # s /\ Opposite(o) = s
  BY <1>0, SidesAre
<1>5. /\ a \in S \cup {Nil} /\ c \in S \cup {Nil}
      /\ a # Nil => a # x /\ t.parent[a] = x
      /\ c # Nil => c # y /\ t.parent[c] = y
      /\ t.parent[y] = x /\ (a # Nil => t.child[Opposite(s)][x] # a)
  BY <1>0, <1>2, Child DEF Shape, Linked
<1>6. a \notin {x, y} /\ c \notin {x, y}
  BY <1>0, <1>1, <1>2, <1>3, <1>5
<1>7. \A n \in S \ {x, y}, r \in Sides :
         /\ t.child[r][n] # y
         /\ new.child[r][n] = IF t.child[r][n] = x THEN y ELSE t.child[r][n]
  <2>1. TAKE n \in S \ {x, y}, r \in Sides
  <2>2. /\ t.child[r][n] # Nil => t.parent[t.child[r][n]] = n /\ SideOf(t, t.child[r][n]) = r
    BY <1>0, OneParent
  <2>3. t.child[r][n] # y
    BY <1>0, <1>3, <1>5, <2>2, <1>2
  <2>4. t.child[r][n] = x <=> n = p /\ r = d
    BY <1>0, <1>1, <1>3, <2>2
  <2>5. new.child[r][n] = IF n = p /\ r = d THEN y ELSE t.child[r][n]
    BY <1>2, <1>3
  <2>6. QED
    BY <2>3, <2>4, <2>5
<1>8. /\ new.child[s][x] = a /\ new.child[o][x] = b
      /\ new.child[s][y] = x /\ new.child[o][y] = c
  BY <1>0, <1>2, <1>3, <1>4
<1>9. \A n \in S : new.parent[n] = IF n = x THEN y ELSE IF n = y THEN t.parent[x]
                                    ELSE IF n = b THEN x ELSE t.parent[n]
  BY <1>0, <1>1, <1>2, <1>3
<1>10. {a, b, c} \subseteq (S \cup {Nil}) \ {x, y} /\ x # Nil
  BY <1>0, <1>2, <1>3, <1>5, <1>6
<1>11. \E sub1 : Shape(new, S, sub1, pos)
  BY <1>0, <1>2, Zenon
<1>a. new.parent[Nil] = t.parent[Nil]
  <2>1. Nil \in Addresses /\ Nil # x /\ Nil # y
    BY <1>0, <1>3 DEF Addresses
  <2>2. QED
    BY <1>2, <2>1
<1>12. Turned(t, new, S, x, y, s, o, a, b, c)
  BY <1>0, <1>2, <1>7, <1>8, <1>9, <1>10, <1>a DEF Turned
<1>13. Outside(new, S) = Outside(t, S)
  <2>1. ASSUME NEW n \in Nodes \ S, NEW r \in Sides
        PROVE  new.child[r][n] = t.child[r][n] /\ new.parent[n] = t.parent[n]
    <3>1. n # x /\ n # y /\ n # p /\ n \in Addresses
      BY <1>0, <1>1, <1>2, Distinct DEF Addresses
    <3>2. n # b
      BY <1>2, Distinct
    <3>3. new.child[r][n] = t.child[r][n]
      BY <1>2, <3>1
    <3>4. new.parent[n] = t.parent[n]
      BY <1>2, <3>1, <3>2
    <3>5. QED
      BY <3>3, <3>4
  <2>2. "left" \in Sides /\ "right" \in Sides
    BY DEF Sides
  <2>3. new.parent[Root] = t.parent[Root]
    <3>1. Root # x /\ Root # y /\ Root # b /\ Root \in Addresses
      BY <1>0, <1>2, <1>3, Distinct DEF Addresses
    <3>2. QED
      BY <1>2, <3>1
  <2>4. QED
    BY <2>1, <2>2, <2>3 DEF Outside
<1>14. QED
  BY <1>11, <1>12, <1>13

(* The heights of the two nodes that suit a rotation.                           *)
Lifts(t, S, bh, x, y, s, o, a, b, c, p, d, hx, hy) ==
    /\ bh \in [Nodes \cup {Nil} -> Nat] /\ bh[Nil] = 0
    /\ \A n \in S \ {x, y}, r \in Sides :
           bh[n] = bh[t.child[r][n]] + Black(t, n) + (IF n = p /\ r = d THEN 1 ELSE 0)
    /\ hx \in Nat /\ hy \in Nat /\ hy = bh[x]
    /\ hx = bh[a] + Black(t, x) + (IF x = p /\ s = d THEN 1 ELSE 0)
    /\ hx = bh[b] + Black(t, x) + (IF x = p /\ o = d THEN 1 ELSE 0)
    /\ hy = hx + Black(t, y) + (IF y = p /\ s = d THEN 1 ELSE 0)
    /\ hy = bh[c] + Black(t, y) + (IF y = p /\ o = d THEN 1 ELSE 0)

(* A rotation keeps the heights when those of its two nodes are chosen to    *)
(* suit.                                                                     *)
LEMMA RotateHeights ==
    ASSUME NEW t, NEW new, NEW S, NEW sub, NEW pos, NEW x, NEW y, NEW s, NEW o,
           NEW a, NEW b, NEW c, Turning(t, new, S, sub, pos, x, y, s, o, a, b, c),
           NEW p, NEW d, NEW bh, NEW hx, NEW hy,
           Lifts(t, S, bh, x, y, s, o, a, b, c, p, d, hx, hy)
    PROVE  Heights(new, S, [bh EXCEPT ![x] = hx, ![y] = hy], p, d)
<1>1. /\ bh \in [Nodes \cup {Nil} -> Nat] /\ bh[Nil] = 0
      /\ \A n \in S \ {x, y}, r \in Sides :
             bh[n] = bh[t.child[r][n]] + Black(t, n) + (IF n = p /\ r = d THEN 1 ELSE 0)
      /\ hx \in Nat /\ hy \in Nat /\ hy = bh[x]
      /\ hx = bh[a] + Black(t, x) + (IF x = p /\ s = d THEN 1 ELSE 0)
      /\ hx = bh[b] + Black(t, x) + (IF x = p /\ o = d THEN 1 ELSE 0)
      /\ hy = hx + Black(t, y) + (IF y = p /\ s = d THEN 1 ELSE 0)
      /\ hy = bh[c] + Black(t, y) + (IF y = p /\ o = d THEN 1 ELSE 0)
  BY DEF Lifts
<1>2. PICK bh1 : bh1 = [bh EXCEPT ![x] = hx, ![y] = hy]
  OBVIOUS
<1>3. Turned(t, new, S, x, y, s, o, a, b, c)
  BY RotateLocal
<1>4. Shape(t, S, sub, pos) /\ x \in S /\ s \in Sides /\ o \in Sides /\ o # s
  BY DEF Turning
<1> DEFINE Def(n, r) == IF n = p /\ r = d THEN 1 ELSE 0
<1>5. /\ new.red = t.red /\ y \in S /\ y # x /\ x # Nil /\ y # Nil
      /\ {a, b, c} \subseteq (S \cup {Nil}) \ {x, y}
      /\ new.child[s][x] = a /\ new.child[o][x] = b
      /\ new.child[s][y] = x /\ new.child[o][y] = c
      /\ \A n \in S \ {x, y}, r \in Sides :
             /\ t.child[r][n] # y
             /\ new.child[r][n] = IF t.child[r][n] = x THEN y ELSE t.child[r][n]
  BY <1>3 DEF Turned
<1>6. S \subseteq Nodes /\ \A n \in S, r \in Sides : t.child[r][n] \in S \cup {Nil}
  BY <1>4 DEF Shape, Placed, Linked
<1>7. /\ bh1 \in [Nodes \cup {Nil} -> Nat] /\ bh1[x] = hx /\ bh1[y] = hy
      /\ \A n \in Nodes \cup {Nil} : n # x /\ n # y => bh1[n] = bh[n]
  BY <1>1, <1>2, <1>4, <1>5, <1>6
<1>8. \A n \in S : Black(new, n) = Black(t, n)
  BY <1>5 DEF Black
<1>9. \A n \in S, r \in Sides : Def(n, r) \in Nat
  OBVIOUS
<1>10. \A n \in S : Black(t, n) \in Nat
  BY DEF Black
<1>11. /\ hx = bh[a] + Black(t, x) + Def(x, s) /\ hx = bh[b] + Black(t, x) + Def(x, o)
       /\ hy = hx + Black(t, y) + Def(y, s) /\ hy = bh[c] + Black(t, y) + Def(y, o)
       /\ \A n \in S \ {x, y}, r \in Sides : bh[n] = bh[t.child[r][n]] + Black(t, n) + Def(n, r)
  BY <1>1
<1> HIDE DEF Def
<1>12. ASSUME NEW n \in S \ {x, y}, NEW r \in Sides
       PROVE  bh1[n] = bh1[new.child[r][n]] + Black(new, n) + Def(n, r)
  <2>1. PICK m \in S \cup {Nil} : m = t.child[r][n]
    BY <1>6
  <2>2. bh1[n] = bh[m] + Black(t, n) + Def(n, r)
    BY <1>6, <1>7, <1>11, <2>1
  <2>3. PICK k : k = new.child[r][n]
    OBVIOUS
  <2>4. m # y /\ k = IF m = x THEN y ELSE m
    BY <1>5, <2>1, <2>3
  <2>5. bh1[k] = bh[m]
    <3>1. CASE m = x
      BY <1>1, <1>7, <2>4, <3>1
    <3>2. CASE m # x
      BY <1>6, <1>7, <2>4, <3>2
    <3>3. QED
      BY <3>1, <3>2
  <2>6. Black(new, n) = Black(t, n)
    BY <1>8
  <2>7. QED
    BY <2>2, <2>3, <2>5, <2>6
<1>13. bh1[a] = bh[a] /\ bh1[b] = bh[b] /\ bh1[c] = bh[c]
  BY <1>5, <1>6, <1>7
<1>14. ASSUME NEW r \in Sides
       PROVE  /\ bh1[x] = bh1[new.child[r][x]] + Black(new, x) + Def(x, r)
              /\ bh1[y] = bh1[new.child[r][y]] + Black(new, y) + Def(y, r)
  <2>1. Black(new, x) = Black(t, x) /\ Black(new, y) = Black(t, y)
    BY <1>4, <1>5, <1>8
  <2>2. CASE r = s
    <3>1. new.child[r][x] = a /\ new.child[r][y] = x
      BY <1>5, <2>2
    <3>2. QED
      BY <1>7, <1>11, <1>13, <2>1, <2>2, <3>1
  <2>3. CASE r = o
    <3>1. new.child[r][x] = b /\ new.child[r][y] = c
      BY <1>5, <2>3
    <3>2. QED
      BY <1>7, <1>11, <1>13, <2>1, <2>3, <3>1
  <2>4. QED
    BY <1>4, <2>2, <2>3, SidesAre
<1>15. bh1[Nil] = 0
  BY <1>1, <1>5, <1>7
<1>16. ASSUME NEW n \in S, NEW r \in Sides
       PROVE  bh1[n] = bh1[new.child[r][n]] + Black(new, n) + Def(n, r)
  <2>1. CASE n = x
    BY <1>14, <2>1
  <2>2. CASE n = y
    BY <1>14, <2>2
  <2>3. CASE n \in S \ {x, y}
    BY <1>12, <2>3
  <2>4. QED
    BY <2>1, <2>2, <2>3
<1>17. Heights(new, S, bh1, p, d)
  BY <1>7, <1>15, <1>16 DEF Heights, Def
<1>18. QED
  BY <1>2, <1>17

\* No way down lacks a black node.
Balanced(t, S, bh) ==
    /\ bh \in [Nodes \cup {Nil} -> Nat] /\ bh[Nil] = 0
    /\ \A n \in S, r \in Sides : bh[n] = bh[t.child[r][n]] + Black(t, n)

\* When no way is short, the heights are those of a balanced tree.
LEMMA Even ==
    ASSUME NEW t, NEW S, NEW sub, NEW pos, Shape(t, S, sub, pos), NEW bh
    PROVE  Heights(t, S, bh, Root, "left") <=> Balanced(t, S, bh)
<1>1. S \subseteq Nodes /\ \A n \in S, r \in Sides : t.child[r][n] \in S \cup {Nil}
  BY DEF Shape, Placed, Linked
<1>2. \A n \in S : n # Root /\ Black(t, n) \in Nat
  BY <1>1, Distinct DEF Black
<1>3. ASSUME bh \in [Nodes \cup {Nil} -> Nat], NEW n \in S, NEW r \in Sides
      PROVE  bh[t.child[r][n]] + Black(t, n) + (IF n = Root /\ r = "left" THEN 1 ELSE 0)
               = bh[t.child[r][n]] + Black(t, n)
  <2>1. bh[t.child[r][n]] \in Nat
    BY <1>1, <1>3
  <2>2. n # Root /\ Black(t, n) \in Nat
    BY <1>2
  <2>3. QED
    BY <2>1, <2>2
<1>4. QED
  BY <1>3 DEF Heights, Balanced

-----------------------------------------------------------------------------
\* No red node but x hangs from a red one.
Clashless(t, S, x) ==
    \A n \in S, r \in Sides :
        n \in t.red /\ t.child[r][n] \in t.red => t.child[r][n] = x

(* What the loop of an insertion repairs: x and its parent p are red.  The uncle  *)
(* u may be so too.                                                          *)
Broken(t, S, sub, pos, bh, x, p, g, s, o, u) ==
    /\ Shape(t, S, sub, pos) /\ Balanced(t, S, bh)
    /\ t.red \subseteq S /\ Clashless(t, S, x) /\ Top(t) \notin t.red
    /\ x \in S \cap t.red /\ p \in S \cap t.red /\ g \in S \ t.red
    /\ s \in Sides /\ o \in Sides /\ o # s
    /\ t.parent[x] = p /\ t.parent[p] = g /\ t.child[s][g] = p
    /\ t.child[o][g] = u

\* x is the child of p on side s.
Hangs(t, x, p, s) == t.child[s][p] = x

(* The rotation of an inner node.                                              *)
LEMMA InnerOut ==
    ASSUME NEW t, NEW S, NEW sub, NEW pos, NEW bh, NEW x, NEW p, NEW g,
           NEW s, NEW o, NEW u, Broken(t, S, sub, pos, bh, x, p, g, s, o, u), Hangs(t, x, p, o)
    PROVE  \E new, sub1, bh1 :
               /\ new = Rotate(t, p, s) /\ Broken(new, S, sub1, pos, bh1, p, x, g, s, o, u)
               /\ Hangs(new, p, x, s) /\ new.red = t.red /\ Outside(new, S) = Outside(t, S)
<1>0. t.child[o][p] = x
  BY DEF Hangs
<1>1. /\ Shape(t, S, sub, pos) /\ Balanced(t, S, bh)
      /\ t.red \subseteq S /\ Clashless(t, S, x) /\ Top(t) \notin t.red
      /\ x \in S \cap t.red /\ p \in S \cap t.red /\ g \in S \ t.red
      /\ t.parent[x] = p /\ t.parent[p] = g /\ t.child[s][g] = p
      /\ t.child[o][g] = u /\ u # p /\ s \in Sides /\ o \in Sides /\ o # s
  <2>1. /\ Shape(t, S, sub, pos) /\ s \in Sides /\ o \in Sides /\ o # s /\ g \in S /\ p \in S
        /\ t.child[s][g] = p /\ t.child[o][g] = u
    BY DEF Broken
  <2>2. p # Nil /\ Opposite(s) = o
    BY <2>1, Distinct, SidesAre DEF Shape, Placed
  <2>3. u # p
    BY <2>1, <2>2, Child
  <2>4. QED
    BY <2>1, <2>3 DEF Broken
<1>2. S \subseteq Nodes /\ Nil \notin S /\ Root \notin S
  BY <1>1, Distinct DEF Shape, Placed
<1>3. x # Nil /\ x \in S /\ p \in S /\ t.child[o][p] = x
  BY <1>0, <1>1, <1>2
<1>4. PICK new : new = Rotate(t, p, s)
  OBVIOUS
<1>5. PICK a, b, c : t.child[s][p] = a /\ t.child[s][x] = b /\ t.child[o][x] = c
  OBVIOUS
<1>5a. Turning(t, new, S, sub, pos, p, x, s, o, a, b, c)
  BY <1>1, <1>3, <1>4, <1>5 DEF Turning
<1>6. /\ Turned(t, new, S, p, x, s, o, a, b, c) /\ \E sub1 : Shape(new, S, sub1, pos)
      /\ Outside(new, S) = Outside(t, S)
  BY <1>5a, RotateLocal
<1>7. PICK sub1 : Shape(new, S, sub1, pos)
  BY <1>6
<1>8. /\ new.red = t.red /\ x # p
      /\ {a, b, c} \subseteq (S \cup {Nil}) \ {p, x}
      /\ new.child[s][p] = a /\ new.child[o][p] = b
      /\ new.child[s][x] = p /\ new.child[o][x] = c
      /\ \A n \in S \ {p, x}, r \in Sides :
             /\ t.child[r][n] # x
             /\ new.child[r][n] = IF t.child[r][n] = p THEN x ELSE t.child[r][n]
      /\ \A n \in S : new.parent[n] = IF n = p THEN x ELSE IF n = x THEN t.parent[p]
                                      ELSE IF n = b THEN p ELSE t.parent[n]
      /\ Top(new) = IF p = Top(t) THEN x ELSE Top(t)
  BY <1>6 DEF Turned
<1>9. PICK bh1 : bh1 = [bh EXCEPT ![p] = bh[p], ![x] = bh[p]]
  OBVIOUS
<1>10. Balanced(new, S, bh1)
  <2>1. /\ bh \in [Nodes \cup {Nil} -> Nat] /\ bh[Nil] = 0
        /\ \A n \in S, r \in Sides : bh[n] = bh[t.child[r][n]] + Black(t, n)
    BY <1>1 DEF Balanced
  <2>2. Black(t, p) = 0 /\ Black(t, x) = 0
    BY <1>1 DEF Black
  <2>3. /\ bh[p] \in Nat /\ bh[x] \in Nat /\ bh[a] \in Nat /\ bh[b] \in Nat /\ bh[c] \in Nat
    BY <1>2, <1>3, <1>8, <2>1
  <2>4. bh[p] = bh[a] /\ bh[p] = bh[x] /\ bh[x] = bh[b] /\ bh[x] = bh[c]
    <3>1. bh[p] = bh[a] + Black(t, p) /\ bh[p] = bh[x] + Black(t, p)
      BY <1>1, <1>3, <1>5, <2>1
    <3>2. bh[x] = bh[b] + Black(t, x) /\ bh[x] = bh[c] + Black(t, x)
      BY <1>1, <1>3, <1>5, <2>1
    <3>3. QED
      BY <2>2, <2>3, <3>1, <3>2
  <2>5. \A n \in S \ {p, x}, r \in Sides :
            bh[n] = bh[t.child[r][n]] + Black(t, n) + (IF n = Root /\ r = "left" THEN 1 ELSE 0)
    <3>1. Heights(t, S, bh, Root, "left")
      BY <1>1, Even
    <3>2. QED
      BY <3>1 DEF Heights
  <2>6. p # Root /\ x # Root
    BY <1>2, <1>3
  <2>7. Lifts(t, S, bh, p, x, s, o, a, b, c, Root, "left", bh[p], bh[p])
    <3>1. /\ bh[p] = bh[a] + Black(t, p) + (IF p = Root /\ s = "left" THEN 1 ELSE 0)
          /\ bh[p] = bh[b] + Black(t, p) + (IF p = Root /\ o = "left" THEN 1 ELSE 0)
          /\ bh[p] = bh[p] + Black(t, x) + (IF x = Root /\ s = "left" THEN 1 ELSE 0)
          /\ bh[p] = bh[c] + Black(t, x) + (IF x = Root /\ o = "left" THEN 1 ELSE 0)
      BY <2>2, <2>3, <2>4, <2>6
    <3>2. QED
      BY <2>1, <2>3, <2>5, <3>1 DEF Lifts
  <2>9. Heights(new, S, bh1, Root, "left")
    BY <1>5a, <1>9, <2>7, RotateHeights
  <2>10. QED
    BY <1>7, <2>9, Even
<1>11. Clashless(new, S, p)
  <2> SUFFICES ASSUME NEW n \in S, NEW r \in Sides,
                      n \in t.red, new.child[r][n] \in t.red
               PROVE  new.child[r][n] = p
    BY <1>8 DEF Clashless
  <2>1. \A m \in S, q \in Sides : m \in t.red /\ t.child[q][m] \in t.red => t.child[q][m] = x
    BY <1>1 DEF Clashless
  <2>2. r = s \/ r = o
    BY <1>1 DEF Sides
  <2>3. CASE n = p
    <3>1. new.child[r][n] = a \/ new.child[r][n] = b
      BY <1>8, <2>2, <2>3
    <3>2. a \notin t.red /\ b \notin t.red
      BY <1>1, <1>5, <1>8, <2>1
    <3>3. QED
      BY <3>1, <3>2
  <2>4. CASE n = x
    <3>1. c \notin t.red
      BY <1>1, <1>5, <1>8, <2>1
    <3>2. QED
      BY <1>8, <2>2, <2>4, <3>1
  <2>5. CASE n \in S \ {p, x}
    <3>1. t.child[r][n] # x /\ new.child[r][n] = IF t.child[r][n] = p THEN x ELSE t.child[r][n]
      BY <1>8, <2>5
    <3>2. t.child[r][n] # p
      BY <1>1, <2>1, <3>1
    <3>3. QED
      BY <2>1, <3>1, <3>2
  <2>6. QED
    BY <2>3, <2>4, <2>5
<1>12. new.parent[p] = x /\ new.parent[x] = g
  BY <1>1, <1>3, <1>8
<1>13. new.child[s][g] = x /\ new.child[o][g] = u
  <2>1. g \in S \ {p, x}
    BY <1>1
  <2>2. t.child[s][g] = p /\ t.child[o][g] = u /\ u # p
    BY <1>1
  <2>3. /\ new.child[s][g] = IF t.child[s][g] = p THEN x ELSE t.child[s][g]
        /\ new.child[o][g] = IF t.child[o][g] = p THEN x ELSE t.child[o][g]
    BY <1>1, <1>8, <2>1
  <2>4. t.child[o][g] # p
    BY <2>2
  <2>5. QED
    BY <2>2, <2>3, <2>4
<1>14. Top(new) \notin t.red
  BY <1>1, <1>8
<1>15. Broken(new, S, sub1, pos, bh1, p, x, g, s, o, u)
  BY <1>1, <1>7, <1>8, <1>10, <1>11, <1>12, <1>13, <1>14 DEF Broken
<1>16. QED
  BY <1>4, <1>6, <1>8, <1>15 DEF Hangs

(* The last rotation of an insertion: nothing is left to repair.                *)
LEMMA OuterUp ==
    ASSUME NEW t, NEW S, NEW sub, NEW pos, NEW bh, NEW x, NEW p, NEW g,
           NEW s, NEW o, NEW u,
           Broken(t, S, sub, pos, bh, x, p, g, s, o, u), Hangs(t, x, p, s), u \notin t.red
    PROVE  \E new, sub1, bh1 :
               /\ new = Rotate(Painted(t, {p}, {g}), g, o)
               /\ Shape(new, S, sub1, pos) /\ Balanced(new, S, bh1)
               /\ new.red \subseteq S /\ Clashless(new, S, Nil) /\ Top(new) \notin new.red
               /\ x \in new.red /\ x \in S /\ new.parent[x] \notin new.red
               /\ Outside(new, S) = Outside(t, S)
<1>1. /\ Shape(t, S, sub, pos) /\ Balanced(t, S, bh)
      /\ t.red \subseteq S /\ Clashless(t, S, x) /\ Top(t) \notin t.red
      /\ x \in S \cap t.red /\ p \in S \cap t.red /\ g \in S \ t.red
      /\ t.parent[x] = p /\ t.parent[p] = g /\ t.child[s][g] = p
      /\ t.child[s][p] = x /\ t.child[o][g] = u /\ u \notin t.red /\ s \in Sides /\ o \in Sides /\ o # s
  BY DEF Broken, Hangs
<1>2. S \subseteq Nodes /\ Nil \notin S /\ Root \notin S /\ Opposite(s) = o
  BY <1>1, Distinct, SidesAre DEF Shape, Placed
<1>3. PICK t2, new : t2 = Painted(t, {p}, {g}) /\ new = Rotate(t2, g, o)
  OBVIOUS
<1>4. /\ Shape(t2, S, sub, pos)
      /\ t2.child = t.child /\ t2.parent = t.parent /\ Top(t2) = Top(t)
      /\ t2.red = (t.red \ {p}) \cup {g} /\ Outside(t2, S) = Outside(t, S)
  <2>1. {g} \in SUBSET Addresses
    BY <1>1, <1>2 DEF Addresses
  <2>2. Shape(t, S, sub, pos)
    BY <1>1
  <2>3. QED
    BY <1>3, <2>1, <2>2, PaintShape
<1>6. PICK b : t.child[o][p] = b
  OBVIOUS
<1>5. Turning(t2, new, S, sub, pos, g, p, o, s, u, b, x)
  BY <1>1, <1>2, <1>3, <1>4, <1>6 DEF Turning
<1>7. /\ Turned(t2, new, S, g, p, o, s, u, b, x) /\ \E sub1 : Shape(new, S, sub1, pos)
      /\ Outside(new, S) = Outside(t2, S)
  BY <1>5, RotateLocal
<1>8. /\ new.red = t2.red /\ p # g
      /\ {u, b, x} \subseteq (S \cup {Nil}) \ {g, p}
      /\ new.child[o][g] = u /\ new.child[s][g] = b
      /\ new.child[o][p] = g /\ new.child[s][p] = x
      /\ \A n \in S \ {g, p}, r \in Sides :
             /\ t.child[r][n] # p
             /\ new.child[r][n] = IF t.child[r][n] = g THEN p ELSE t.child[r][n]
      /\ \A n \in S : new.parent[n] = IF n = g THEN p ELSE IF n = p THEN t.parent[g]
                                      ELSE IF n = b THEN g ELSE t.parent[n]
      /\ Top(new) = IF g = Top(t) THEN p ELSE Top(t)
  BY <1>4, <1>7 DEF Turned
<1>9. PICK sub1 : Shape(new, S, sub1, pos)
  BY <1>7
<1>10. PICK bh1 : bh1 = [bh EXCEPT ![g] = bh[p], ![p] = bh[g]]
  OBVIOUS
<1>11. Balanced(new, S, bh1)
  <2>1. /\ bh \in [Nodes \cup {Nil} -> Nat] /\ bh[Nil] = 0
        /\ \A n \in S, r \in Sides : bh[n] = bh[t.child[r][n]] + Black(t, n)
    BY <1>1 DEF Balanced
  <2>2. Black(t, p) = 0 /\ Black(t, g) = 1 /\ Black(t2, p) = 1 /\ Black(t2, g) = 0
    BY <1>1, <1>4, <1>8 DEF Black
  <2>3. /\ bh[p] \in Nat /\ bh[x] \in Nat /\ bh[g] \in Nat /\ bh[b] \in Nat /\ bh[u] \in Nat
    BY <1>1, <1>2, <1>8, <2>1
  <2>4. bh[g] = bh[p] + 1 /\ bh[p] = bh[u] /\ bh[p] = bh[b] /\ bh[p] = bh[x]
    <3>1. bh[g] = bh[u] + Black(t, g) /\ bh[g] = bh[p] + Black(t, g)
      BY <1>1, <1>6, <2>1
    <3>2. bh[p] = bh[b] + Black(t, p) /\ bh[p] = bh[x] + Black(t, p)
      BY <1>1, <1>6, <2>1
    <3>3. QED
      BY <2>2, <2>3, <3>1, <3>2
  <2>5. \A n \in S \ {g, p}, r \in Sides :
            bh[n] = bh[t2.child[r][n]] + Black(t2, n) + (IF n = Root /\ r = "left" THEN 1 ELSE 0)
    <3>1. Heights(t, S, bh, Root, "left")
      BY <1>1, Even
    <3>2. \A n \in S \ {g, p} : Black(t2, n) = Black(t, n)
      BY <1>4 DEF Black
    <3>3. QED
      BY <1>4, <3>1, <3>2 DEF Heights
  <2>6. p # Root /\ g # Root
    BY <1>1, <1>2
  <2>7. Lifts(t2, S, bh, g, p, o, s, u, b, x, Root, "left", bh[p], bh[g])
    <3>1. /\ bh[p] = bh[u] + Black(t2, g) + (IF g = Root /\ o = "left" THEN 1 ELSE 0)
          /\ bh[p] = bh[b] + Black(t2, g) + (IF g = Root /\ s = "left" THEN 1 ELSE 0)
          /\ bh[g] = bh[p] + Black(t2, p) + (IF p = Root /\ o = "left" THEN 1 ELSE 0)
          /\ bh[g] = bh[x] + Black(t2, p) + (IF p = Root /\ s = "left" THEN 1 ELSE 0)
      BY <2>2, <2>3, <2>4, <2>6
    <3>2. QED
      BY <2>1, <2>3, <2>5, <3>1 DEF Lifts
  <2>8. Heights(new, S, bh1, Root, "left")
    <3>1. Heights(new, S, [bh EXCEPT ![g] = bh[p], ![p] = bh[g]], Root, "left")
      <4>1. PICK hx, hy, d : hx = bh[p] /\ hy = bh[g] /\ d = "left"
        OBVIOUS
      <4>2. Lifts(t2, S, bh, g, p, o, s, u, b, x, Root, d, hx, hy)
        BY <2>7, <4>1
      <4>3. Heights(new, S, [bh EXCEPT ![g] = hx, ![p] = hy], Root, d)
        BY <1>5, <4>2, RotateHeights
      <4>4. QED
        BY <4>1, <4>3
    <3>2. QED
      BY <1>10, <3>1
  <2>9. QED
    BY <1>9, <2>8, Even
<1>12. Clashless(new, S, Nil)
  <2> SUFFICES ASSUME NEW n \in S, NEW r \in Sides,
                      n \in new.red, new.child[r][n] \in new.red
               PROVE  FALSE
    BY DEF Clashless
  <2>1. \A m \in S, q \in Sides : m \in t.red /\ t.child[q][m] \in t.red => t.child[q][m] = x
    BY <1>1 DEF Clashless
  <2>2. r = s \/ r = o
    BY <1>1 DEF Sides
  <2>3. new.red = (t.red \ {p}) \cup {g}
    BY <1>4, <1>8
  <2>4. n # p
    BY <1>8, <2>3
  <2>5. CASE n = g
    <3>1. new.child[r][n] = u \/ new.child[r][n] = b
      BY <1>8, <2>2, <2>5
    <3>2. u \notin new.red
      BY <1>1, <1>6, <1>8, <2>3
    <3>3. b \in t.red => b = x
      BY <1>1, <1>6, <2>1
    <3>4. b # x
      <4>1. p \in S /\ x # Nil /\ Shape(t, S, sub, pos)
        BY <1>1, <1>2
      <4>2. t.child[o][p] # x
        BY <1>1, <1>2, <4>1, Child
      <4>3. QED
        BY <1>6, <4>2
    <3>5. b \notin new.red
      BY <1>8, <2>3, <3>3, <3>4
    <3>6. QED
      BY <3>1, <3>2, <3>5
  <2>6. CASE n \in S \ {g, p}
    <3>1. new.child[r][n] = IF t.child[r][n] = g THEN p ELSE t.child[r][n]
      BY <1>8, <2>6
    <3>2. t.child[r][n] # g /\ t.child[r][n] \in t.red /\ n \in t.red
      BY <1>8, <2>3, <2>6, <3>1
    <3>3. t.child[r][n] = x
      BY <2>1, <2>6, <3>2
    <3>4. t.child[r][n] # Nil /\ t.parent[x] = p
      BY <1>1, <1>2, <3>3
    <3>5. Shape(t, S, sub, pos) /\ n \in S
      BY <1>1
    <3>6. t.parent[t.child[r][n]] = n
      BY <3>4, <3>5, Child
    <3>7. QED
      BY <2>6, <3>3, <3>4, <3>6
  <2>7. QED
    BY <2>4, <2>5, <2>6
<1>13. new.red \subseteq S /\ Top(new) \notin new.red
  <2>1. t.red \subseteq S /\ Top(t) \notin t.red /\ g \in S /\ p # g
    BY <1>1, <1>8
  <2>2. new.red = (t.red \ {p}) \cup {g} /\ Top(new) = IF g = Top(t) THEN p ELSE Top(t)
    BY <1>4, <1>8
  <2>3. QED
    BY <2>1, <2>2
<1>14. x \in new.red /\ x \in S
  BY <1>1, <1>4, <1>8
<1>15. new.parent[x] = p
  <2>1. x \in S /\ t.parent[x] = p
    BY <1>1
  <2>2. new.parent[x] = IF x = g THEN p ELSE IF x = p THEN t.parent[g]
                        ELSE IF x = b THEN g ELSE t.parent[x]
    BY <1>8, <2>1
  <2>3. x # b
    <3>1. p \in S /\ x # Nil /\ Shape(t, S, sub, pos)
      BY <1>1, <1>2
    <3>2. t.child[o][p] # x
      BY <1>1, <1>2, <3>1, Child
    <3>3. QED
      BY <1>6, <3>2
  <2>4. QED
    BY <1>8, <2>1, <2>2, <2>3
<1>16. p \notin new.red
  BY <1>4, <1>8
<1>17. Outside(new, S) = Outside(t, S)
  BY <1>4, <1>7
<1>18. QED
  BY <1>3, <1>9, <1>11, <1>12, <1>13, <1>14, <1>15, <1>16, <1>17

-----------------------------------------------------------------------------
(* The repair after an insertion.                                            *)

(* The loop of an insertion at node x: what is left to repair is that x may hang   *)
(* from a red node, and then n nodes at least are below x.                      *)
Fixing(t, S, pos, x, n, out) ==
    \E sub, bh :
        /\ Shape(t, S, sub, pos) /\ Balanced(t, S, bh)
        /\ t.red \subseteq S /\ x \in S \cap t.red /\ Clashless(t, S, x)
        /\ Top(t) \in t.red => Top(t) = x
        /\ t.parent[x] \in t.red => Cardinality(sub[x]) >= n
        /\ Outside(t, S) = out

\* A red uncle: the grandparent is the next node to look at.
LEMMA UncleRed ==
    ASSUME NEW t, NEW S, NEW sub, NEW pos, NEW bh, NEW x, NEW p, NEW g, NEW s, NEW o, NEW u,
           Broken(t, S, sub, pos, bh, x, p, g, s, o, u), u \in t.red,
           NEW n \in Nat, Cardinality(sub[x]) >= n
    PROVE  Fixing(Painted(t, {p, u}, {g}), S, pos, g, n + 1, Outside(t, S))
<1>0. /\ Shape(t, S, sub, pos) /\ Balanced(t, S, bh)
      /\ t.red \subseteq S /\ Clashless(t, S, x) /\ Top(t) \notin t.red
      /\ x \in S \cap t.red /\ p \in S \cap t.red /\ g \in S \ t.red
      /\ t.parent[x] = p /\ t.parent[p] = g /\ t.child[s][g] = p
      /\ t.child[o][g] = u /\ s \in Sides /\ o \in Sides /\ o # s
  BY DEF Broken
<1>1. S \subseteq Nodes /\ Nil \notin S /\ Root \notin S /\ u \in S
  BY <1>0, Distinct DEF Shape, Placed
<1>2. PICK new : new = Painted(t, {p, u}, {g})
  OBVIOUS
<1>3. /\ Shape(new, S, sub, pos)
      /\ new.child = t.child /\ new.parent = t.parent /\ Top(new) = Top(t)
      /\ new.red = (t.red \ {p, u}) \cup {g} /\ Outside(new, S) = Outside(t, S)
  <2>1. {g} \in SUBSET Addresses
    BY <1>0, <1>1 DEF Addresses
  <2>2. QED
    BY <1>0, <1>2, <2>1, PaintShape
<1>4. \A m \in S, r \in Sides : t.child[r][m] # Nil =>
          t.child[r][m] \in S /\ t.child[r][m] # m /\ t.parent[t.child[r][m]] = m
  BY <1>0, Child
<1>5. t.parent[u] = g /\ u # g /\ p # g
  BY <1>0, <1>1, <1>4
<1>6. PICK bh1 : bh1 = [bh EXCEPT ![p] = bh[p] + 1, ![u] = bh[u] + 1]
  OBVIOUS
<1>7. Balanced(new, S, bh1)
  <2>1. /\ bh \in [Nodes \cup {Nil} -> Nat] /\ bh[Nil] = 0
        /\ \A m \in S, r \in Sides : bh[m] = bh[t.child[r][m]] + Black(t, m)
    BY <1>0 DEF Balanced
  <2>2. \A m \in S, r \in Sides : t.child[r][m] \in S \cup {Nil}
    BY <1>0, <1>4
  <2>3. p # u
    <3>1. g \in S /\ t.child[s][g] # Nil
      BY <1>0, <1>1
    <3>2. SideOf(t, t.child[s][g]) = s
      BY <1>0, <3>1, OneParent
    <3>3. SideOf(t, t.child[o][g]) = o
      BY <1>0, <1>1, OneParent
    <3>4. QED
      BY <1>0, <3>2, <3>3
  <2>4. /\ bh1 \in [Nodes \cup {Nil} -> Nat] /\ bh1[p] = bh[p] + 1 /\ bh1[u] = bh[u] + 1
        /\ \A m \in Nodes \cup {Nil} : m # p /\ m # u => bh1[m] = bh[m]
    BY <1>0, <1>1, <1>6, <2>1, <2>3
  <2>5. ASSUME NEW m \in S, NEW r \in Sides
        PROVE  bh1[m] = bh1[new.child[r][m]] + Black(new, m)
    <3>1. PICK c \in S \cup {Nil} : c = t.child[r][m] /\ c = new.child[r][m]
      BY <1>0, <1>3, <2>2
    <3>2. bh[m] = bh[c] + Black(t, m) /\ bh[m] \in Nat /\ bh[c] \in Nat
      BY <1>0, <1>1, <2>1, <3>1
    <3>3. CASE m = g
      <4>1. r = s \/ r = o
        BY <1>0 DEF Sides
      <4>2. c = p \/ c = u
        BY <1>0, <3>1, <3>3, <4>1
      <4>3. bh1[c] = bh[c] + 1
        BY <1>0, <2>4, <4>2
      <4>4. Black(t, m) = 1 /\ Black(new, m) = 0
        BY <1>0, <1>3, <3>3 DEF Black
      <4>5. bh1[m] = bh[m]
        BY <1>0, <1>1, <1>5, <2>4, <3>3
      <4>6. QED
        BY <1>0, <3>1, <3>2, <4>3, <4>4, <4>5
    <3>4. CASE m # g
      <4>1. c # p /\ c # u
        <5>1. p # Nil /\ u # Nil /\ t.parent[p] = g /\ t.parent[u] = g
          BY <1>0, <1>1, <1>5
        <5>2. c # Nil => t.parent[c] = m
          BY <1>4, <3>1
        <5>3. QED
          BY <3>4, <5>1, <5>2
      <4>2. bh1[c] = bh[c]
        BY <1>0, <1>1, <2>4, <4>1
      <4>3. CASE m = p \/ m = u
        <5>1. Black(t, m) = 0 /\ Black(new, m) = 1
          BY <1>0, <1>3, <3>4, <4>3 DEF Black
        <5>2. bh1[m] = bh[m] + 1
          BY <1>0, <2>4, <4>3
        <5>3. QED
          BY <1>0, <3>1, <3>2, <4>2, <5>1, <5>2
      <4>4. CASE m # p /\ m # u
        <5>1. Black(new, m) = Black(t, m)
          BY <1>0, <1>3, <3>4, <4>4 DEF Black
        <5>2. bh1[m] = bh[m]
          BY <1>0, <1>1, <2>4, <4>4
        <5>3. QED
          BY <1>0, <3>1, <3>2, <4>2, <5>1, <5>2
      <4>5. QED
        BY <1>0, <4>3, <4>4
    <3>5. QED
      BY <1>0, <3>3, <3>4
  <2>6. bh1[Nil] = 0
    BY <1>0, <1>1, <2>1, <2>4
  <2>7. QED
    BY <1>0, <2>4, <2>5, <2>6 DEF Balanced
<1>8. Clashless(new, S, g)
  <2> SUFFICES ASSUME NEW m \in S, NEW r \in Sides,
                      m \in new.red, t.child[r][m] \in new.red, t.child[r][m] # g
               PROVE  FALSE
    BY <1>0, <1>3 DEF Clashless
  <2>1. PICK c : c = t.child[r][m]
    OBVIOUS
  <2>2. c \in t.red /\ c # p /\ c # u
    BY <1>3, <2>1
  <2>2a. \A k \in S, q \in Sides : k \in t.red /\ t.child[q][k] \in t.red => t.child[q][k] = x
    BY <1>0 DEF Clashless
  <2>3. CASE m = g
    <3>1. r = s \/ r = o
      BY <1>0 DEF Sides
    <3>2. QED
      BY <1>0, <2>1, <2>2, <2>3, <3>1
  <2>4. CASE m # g
    <3>1. m \in t.red /\ m # p
      BY <1>0, <1>3, <2>4
    <3>2. c = x
      BY <2>1, <2>2, <2>2a, <3>1
    <3>3. t.parent[x] = m
      <4>1. x # Nil
        BY <1>0, <1>1
      <4>2. QED
        <5>1. t.child[r][m] = x /\ t.child[r][m] # Nil
          BY <2>1, <3>2, <4>1
        <5>2. t.parent[t.child[r][m]] = m
          BY <1>4, <5>1
        <5>3. QED
          BY <5>1, <5>2
    <3>4. QED
      BY <1>0, <3>1, <3>3
  <2>5. QED
    BY <1>0, <2>3, <2>4
<1>9. Cardinality(sub[g]) >= n + 1
  <2>1. x # Top(t) /\ p # Top(t)
    BY <1>0
  <2>2. t.child[SideOf(t, x)][p] = x /\ SideOf(t, x) \in Sides
    BY <1>0, ParentOf
  <2>3. Cardinality(sub[x]) < Cardinality(sub[p])
    BY <1>0, <2>2, Sizes
  <2>4. Cardinality(sub[p]) < Cardinality(sub[g])
    BY <1>0, Sizes
  <2>5. Cardinality(sub[x]) \in Nat /\ Cardinality(sub[p]) \in Nat /\ Cardinality(sub[g]) \in Nat
    BY <1>0, Sizes
  <2>6. QED
    BY <1>0, <2>3, <2>4, <2>5
<1>10. new.red \subseteq S /\ g \in S \cap new.red /\ (Top(new) \in new.red => Top(new) = g)
  BY <1>0, <1>3
<1>11. Fixing(new, S, pos, g, n + 1, Outside(t, S))
  BY <1>0, <1>3, <1>7, <1>8, <1>9, <1>10 DEF Fixing
<1>12. QED
  BY <1>0, <1>2, <1>11

(* A round of the loop of an insertion leaves less to repair: it moves on to *)
(* the grandparent, or it ends with a rotation.                              *)
LEMMA InsertStep ==
    ASSUME NEW t, NEW S, NEW pos, NEW x, NEW n \in Nat, NEW out, Fixing(t, S, pos, x, n, out)
    PROVE  \E t1, x1 : InsertRound(t, x) = <<t1, x1>> /\ Fixing(t1, S, pos, x1, n + 1, out)
<1>1. PICK sub, bh :
        /\ Shape(t, S, sub, pos) /\ Balanced(t, S, bh)
        /\ t.red \subseteq S /\ x \in S \cap t.red /\ Clashless(t, S, x)
        /\ Top(t) \in t.red => Top(t) = x
        /\ t.parent[x] \in t.red => Cardinality(sub[x]) >= n
        /\ Outside(t, S) = out
  BY DEF Fixing
<1>2. PICK p : p = t.parent[x]
  OBVIOUS
<1>3. CASE p \notin t.red
  <2>1. InsertRound(t, x) = <<t, x>>
    BY <1>2, <1>3 DEF InsertRound
  <2>2. Fixing(t, S, pos, x, n + 1, out)
    BY <1>1, <1>2, <1>3 DEF Fixing
  <2>3. QED
    BY <2>1, <2>2
<1>4. CASE p \in t.red
  <2>1. S \subseteq Nodes /\ Nil \notin S /\ Root \notin S
    BY <1>1, Distinct DEF Shape, Placed
  <2>2. p \in S /\ x \in S /\ x # p /\ x \in t.red
    <3>1. x # Nil /\ x \in S /\ p \in S
      BY <1>1, <1>4, <2>1
    <3>2. x # Top(t) => t.parent[x] # x
      BY <1>1, <3>1, ParentOf
    <3>3. x = Top(t) => t.parent[x] = Root
      BY <1>1, <3>1, ParentOf
    <3>4. QED
      BY <1>1, <1>2, <2>1, <3>1, <3>2, <3>3
  <2>3. Top(t) \notin t.red
    <3>1. x = Top(t) => p = Root
      BY <1>1, <1>2, <2>2, ParentOf
    <3>2. QED
      BY <1>1, <2>1, <2>2, <3>1
  <2>4. PICK g, s, o, u : /\ g = t.parent[p] /\ s = SideOf(t, p) /\ o = Opposite(s)
                          /\ u = t.child[o][g]
    OBVIOUS
  <2>5. s \in Sides /\ o \in Sides /\ o # s /\ t.child[s][g] = p /\ g \in S /\ g # p
    <3>1. p # Top(t)
      BY <1>4, <2>3
    <3>2. SideOf(t, p) \in Sides /\ t.child[SideOf(t, p)][t.parent[p]] = p
          /\ t.parent[p] \in S /\ t.parent[p] # p
      BY <1>1, <2>2, <3>1, ParentOf
    <3>3. QED
      BY <2>4, <3>2, SidesAre
  <2>6. g \notin t.red
    <3> SUFFICES ASSUME g \in t.red PROVE FALSE
      OBVIOUS
    <3>1. t.child[s][g] = x
      BY <1>1, <1>4, <2>5 DEF Clashless
    <3>2. QED
      BY <2>2, <2>5, <3>1
  <2>7. t.parent[x] = p /\ t.parent[p] = g /\ t.child[o][g] = u
    BY <1>2, <2>4
  <2>7a. Broken(t, S, sub, pos, bh, x, p, g, s, o, u)
    BY <1>1, <1>4, <2>2, <2>3, <2>5, <2>6, <2>7 DEF Broken
  <2>8. CASE u \in t.red
    <3>1. InsertRound(t, x) = <<Painted(t, {p, u}, {g}), g>>
      BY <1>2, <1>4, <2>4, <2>8 DEF InsertRound
    <3>2. Fixing(Painted(t, {p, u}, {g}), S, pos, g, n + 1, Outside(t, S))
      BY <1>1, <1>2, <1>4, <2>8, <2>7a, UncleRed
    <3>3. QED
      BY <1>1, <3>1, <3>2
  <2>9. CASE u \notin t.red
    <3>1. Broken(t, S, sub, pos, bh, x, p, g, s, o, u)
      BY <2>7a
    <3>2. CASE t.child[o][p] = x
      <4>0. Hangs(t, x, p, o)
        BY <3>2 DEF Hangs
      <4>1. PICK t1, sub1, bh1 :
                /\ t1 = Rotate(t, p, s) /\ Broken(t1, S, sub1, pos, bh1, p, x, g, s, o, u)
                /\ Hangs(t1, p, x, s) /\ t1.red = t.red /\ Outside(t1, S) = Outside(t, S)
        BY <3>1, <4>0, InnerOut
      <4>2. Broken(t1, S, sub1, pos, bh1, p, x, g, s, o, u) /\ Hangs(t1, p, x, s) /\ u \notin t1.red
        BY <2>9, <4>1
      <4>5. PICK new, sub2, bh2 :
               /\ new = Rotate(Painted(t1, {x}, {g}), g, o)
               /\ Shape(new, S, sub2, pos) /\ Balanced(new, S, bh2)
               /\ new.red \subseteq S /\ Clashless(new, S, Nil) /\ Top(new) \notin new.red
               /\ p \in new.red /\ p \in S /\ new.parent[p] \notin new.red
               /\ Outside(new, S) = Outside(t1, S)
        BY <4>2, OuterUp
      <4>6. t1.parent[p] = x /\ t1.parent[x] = g
        BY <4>2 DEF Broken
      <4>7. InsertRound(t, x) = <<new, p>>
        <5>1. InsertRound(t, x) = <<Rotate(Painted(t1, {t1.parent[p]}, {t1.parent[t1.parent[p]]}),
                                           t1.parent[t1.parent[p]], o), p>>
          BY <1>2, <1>4, <2>4, <2>9, <3>2, <4>1 DEF InsertRound
        <5>2. QED
          BY <4>5, <4>6, <5>1
      <4>8. Clashless(new, S, p)
        BY <2>1, <4>5 DEF Clashless
      <4>9. Fixing(new, S, pos, p, n + 1, out)
        BY <1>1, <4>1, <4>5, <4>8 DEF Fixing
      <4>10. QED
        BY <4>7, <4>9
    <3>3. CASE t.child[o][p] # x
      <4>1. t.child[s][p] = x
        <5>1. SideOf(t, x) \in Sides /\ t.child[SideOf(t, x)][t.parent[x]] = x
          BY <1>1, <2>2, ParentOf
        <5>2. SideOf(t, x) = s \/ SideOf(t, x) = o
          BY <2>5, <5>1 DEF Sides
        <5>3. QED
          BY <1>2, <3>3, <5>1, <5>2
      <4>1a. Hangs(t, x, p, s)
        BY <4>1 DEF Hangs
      <4>3. PICK new, sub2, bh2 :
               /\ new = Rotate(Painted(t, {p}, {g}), g, o)
               /\ Shape(new, S, sub2, pos) /\ Balanced(new, S, bh2)
               /\ new.red \subseteq S /\ Clashless(new, S, Nil) /\ Top(new) \notin new.red
               /\ x \in new.red /\ x \in S /\ new.parent[x] \notin new.red
               /\ Outside(new, S) = Outside(t, S)
        BY <2>9, <3>1, <4>1a, OuterUp
      <4>4. InsertRound(t, x) = <<new, x>>
        BY <1>2, <1>4, <2>4, <2>9, <3>3, <4>3 DEF InsertRound
      <4>5. Clashless(new, S, x)
        BY <2>1, <4>3 DEF Clashless
      <4>6. Fixing(new, S, pos, x, n + 1, out)
        BY <1>1, <4>3, <4>5 DEF Fixing
      <4>7. QED
        BY <4>4, <4>6
    <3>4. QED
      BY <3>2, <3>3
  <2>10. QED
    BY <2>8, <2>9
<1>5. QED
  BY <1>3, <1>4

\* A red-black tree of the nodes S in the order of their positions.
RedBlackTree(t, S, pos) ==
    \E sub, bh : /\ Shape(t, S, sub, pos) /\ Balanced(t, S, bh)
                 /\ t.red \subseteq S /\ Clashless(t, S, Nil) /\ Top(t) \notin t.red

(* A root can be painted black.                                                *)
LEMMA BlackTop ==
    ASSUME NEW t, NEW S, NEW sub, NEW pos, NEW bh, Shape(t, S, sub, pos), Balanced(t, S, bh),
           t.red \subseteq S, Clashless(t, S, Nil)
    PROVE  /\ RedBlackTree(Painted(t, {Top(t)}, {}), S, pos)
           /\ Outside(Painted(t, {Top(t)}, {}), S) = Outside(t, S)
<1>1. PICK top : top = Top(t)
  OBVIOUS
<1>2. PICK new : new = Painted(t, {top}, {})
  OBVIOUS
<1>3. /\ Shape(new, S, sub, pos) /\ new.child = t.child /\ Top(new) = Top(t)
      /\ new.red = (t.red \ {top}) \cup {} /\ Outside(new, S) = Outside(t, S)
  <2>1. {} \in SUBSET Addresses
    OBVIOUS
  <2>2. QED
    BY <1>2, <2>1, PaintShape
<1>4. S \subseteq Nodes /\ Nil \notin S
  BY Distinct DEF Shape, Placed
<1>5. Clashless(new, S, Nil) /\ new.red \subseteq S /\ top \notin new.red
  BY <1>3 DEF Clashless
<1>6. /\ bh \in [Nodes \cup {Nil} -> Nat] /\ bh[Nil] = 0
      /\ \A n \in S, r \in Sides : bh[n] = bh[t.child[r][n]] + Black(t, n)
  BY DEF Balanced
<1>7. CASE top \notin t.red
  <2>1. new.red = t.red
    BY <1>3, <1>7
  <2>2. \A n : Black(new, n) = Black(t, n)
    BY <2>1 DEF Black
  <2>3. Balanced(new, S, bh)
    BY <1>3, <1>6, <2>2 DEF Balanced
  <2>4. QED
    BY <1>1, <1>2, <1>3, <1>5, <2>3 DEF RedBlackTree
<1>8. CASE top \in t.red
  <2>1. top \in S /\ t.parent[top] = Root
    BY <1>1, <1>4, <1>8, ParentOf
  <2>2. PICK bh1 : bh1 = [bh EXCEPT ![top] = bh[top] + 1]
    OBVIOUS
  <2>3. /\ bh1 \in [Nodes \cup {Nil} -> Nat] /\ bh1[top] = bh[top] + 1
        /\ \A n \in Nodes \cup {Nil} : n # top => bh1[n] = bh[n]
    BY <1>4, <1>6, <2>1, <2>2
  <2>4. ASSUME NEW n \in S, NEW r \in Sides
        PROVE  bh1[n] = bh1[new.child[r][n]] + Black(new, n)
    <3>1. PICK c \in S \cup {Nil} : c = t.child[r][n]
      BY DEF Shape, Linked
    <3>2. c # top
      <4>1. c # Nil => t.parent[c] = n
        BY <3>1, Child
      <4>2. n # Root /\ top # Nil
        BY <1>4, <2>1, Distinct
      <4>3. QED
        BY <2>1, <4>1, <4>2
    <3>3. bh1[c] = bh[c] /\ new.child[r][n] = c
      BY <1>3, <1>4, <2>3, <3>1, <3>2
    <3>4. bh[n] = bh[c] + Black(t, n) /\ bh[c] \in Nat
      BY <1>4, <1>6, <3>1
    <3>5. CASE n = top
      <4>1. Black(t, n) = 0 /\ Black(new, n) = 1
        BY <1>3, <1>8, <3>5 DEF Black
      <4>2. bh1[n] = bh[n] + 1
        BY <2>3, <3>5
      <4>3. QED
        BY <3>3, <3>4, <4>1, <4>2
    <3>6. CASE n # top
      <4>1. Black(new, n) = Black(t, n)
        BY <1>3, <3>6 DEF Black
      <4>2. bh1[n] = bh[n]
        BY <1>4, <2>3, <3>6
      <4>3. QED
        BY <3>3, <3>4, <4>1, <4>2
    <3>7. QED
      BY <3>5, <3>6
  <2>5. bh1[Nil] = 0
    BY <1>4, <1>6, <2>1, <2>3
  <2>6. Balanced(new, S, bh1)
    BY <2>3, <2>4, <2>5 DEF Balanced
  <2>7. QED
    BY <1>1, <1>2, <1>3, <1>5, <2>6 DEF RedBlackTree
<1>9. QED
  BY <1>7, <1>8

InsertRounds == [at \in Trees \X Nodes |-> InsertRound(at[1], at[2])]

(* The loop of an insertion is over when the rounds are: the grandparent's   *)
(* subtree is larger each time.  The root is painted black after it.         *)
LEMMA InsertLoop ==
    ASSUME NEW t, NEW S, NEW pos, NEW z, NEW out, Fixing(t, S, pos, z, 0, out)
    PROVE  \E fixed : /\ fixed = Loop(InsertRounds, <<t, z>>)[1]
                      /\ RedBlackTree(Painted(fixed, {Top(fixed)}, {}), S, pos)
                      /\ Outside(Painted(fixed, {Top(fixed)}, {}), S) = out
<1> DEFINE At(n) == {at \in Trees \X Nodes : Fixing(at[1], S, pos, at[2], n, out)}
           stage == [n \in Nat |-> At(n)]
<1>1. \A t1, x1, n : Fixing(t1, S, pos, x1, n, out) => <<t1, x1>> \in Trees \X Nodes
  BY DEF Fixing, Shape, Placed
<1>2. <<t, z>> \in At(0)
  BY <1>1
<1>3. ASSUME NEW n \in Nat, NEW at \in At(n) PROVE InsertRounds[at] \in At(n + 1)
  <2>1. PICK t1, x1 : at = <<t1, x1>> /\ Fixing(t1, S, pos, x1, n, out) /\ at \in Trees \X Nodes
    BY <1>3
  <2>2. PICK t2, x2 : InsertRound(t1, x1) = <<t2, x2>> /\ Fixing(t2, S, pos, x2, n + 1, out)
    BY <2>1, InsertStep
  <2>3. InsertRounds[at] = InsertRound(t1, x1)
    BY <2>1 DEF InsertRounds
  <2>4. <<t2, x2>> \in Trees \X Nodes
    BY <1>1, <2>2
  <2>5. <<t2, x2>> \in At(n + 1)
    BY <2>2, <2>4
  <2> HIDE DEF At
  <2>6. QED
    BY <2>2, <2>3, <2>5
<1>4. Loop(InsertRounds, <<t, z>>) \in stage[Rounds]
  <2>1. <<t, z>> \in stage[0] /\ \A n \in Nat : stage[n] = At(n) /\ stage[n + 1] = At(n + 1)
    BY <1>2
  <2>2. \A n \in Nat : \A at \in stage[n] : InsertRounds[at] \in stage[n + 1]
    <3> HIDE DEF At, stage
    <3>1. QED
      BY <1>3, <2>1
  <2> HIDE DEF At, stage
  <2>3. QED
    BY <2>1, <2>2, LoopInduction
<1>5. Loop(InsertRounds, <<t, z>>) \in At(Rounds)
  BY <1>4, RoundsType
<1>6. PICK at : at = Loop(InsertRounds, <<t, z>>) /\ at \in At(Rounds)
  <2> HIDE DEF At
  <2>1. QED
    BY <1>5
<1>7. PICK fixed, x : at = <<fixed, x>> /\ at[1] = fixed /\ Fixing(fixed, S, pos, x, Rounds, out)
  BY <1>6
<1>8. PICK sub, bh :
        /\ Shape(fixed, S, sub, pos) /\ Balanced(fixed, S, bh)
        /\ fixed.red \subseteq S /\ x \in S \cap fixed.red /\ Clashless(fixed, S, x)
        /\ fixed.parent[x] \in fixed.red => Cardinality(sub[x]) >= Rounds
        /\ Outside(fixed, S) = out
  BY <1>7 DEF Fixing
<1>9. fixed.parent[x] \notin fixed.red
  <2>1. Cardinality(sub[x]) \in Nat /\ Cardinality(sub[x]) < Rounds /\ Rounds \in Nat
    BY <1>8, Sizes, RoundsType
  <2>2. QED
    BY <1>8, <2>1
<1>10. Clashless(fixed, S, Nil)
  <2> SUFFICES ASSUME NEW n \in S, NEW r \in Sides,
                      n \in fixed.red, fixed.child[r][n] \in fixed.red
               PROVE  FALSE
    BY DEF Clashless
  <2>1. fixed.child[r][n] = x
    BY <1>8 DEF Clashless
  <2>2. x # Nil
    BY <1>8, Distinct DEF Shape, Placed
  <2>3. fixed.parent[fixed.child[r][n]] = n
    BY <1>8, <2>1, <2>2, Child
  <2>4. QED
    BY <1>9, <2>1, <2>3
<1>11. /\ RedBlackTree(Painted(fixed, {Top(fixed)}, {}), S, pos)
       /\ Outside(Painted(fixed, {Top(fixed)}, {}), S) = out
  BY <1>8, <1>10, BlackTop
<1>12. fixed = Loop(InsertRounds, <<t, z>>)[1]
  BY <1>6, <1>7
<1>13. QED
  BY <1>11, <1>12

\* z comes behind the nodes with keys not above its own, which keep their order.
Filed(S, pos, pos1, z) ==
    /\ \A m, n \in S : On(pos1, "left", m, n) <=> On(pos, "left", m, n)
    /\ \A m \in S : On(pos1, "left", z, m) <=> KeyOf[m] > KeyOf[z]
    /\ \A m \in S : On(pos1, "left", m, z) <=> KeyOf[m] <= KeyOf[z]

\* With z at the place of its key the nodes are in the order of their keys.
LEMMA LeafSorted ==
    ASSUME NEW t, NEW S, NEW sub, NEW pos, Placed(S, sub, pos), Sorted(S, pos),
           NEW z \in Nodes \ S, NEW y \in S \cup {Root}, NEW s \in Sides,
           y = Root => S = {},
           y \in S => \A m \in S : KeyOf[m] > KeyOf[z] <=>
                             On(pos, "left", y, m) \/ (m = y /\ s = "left"),
           NEW pos1, pos1 = WithPos(S, pos, z, y, s)
    PROVE  Filed(S, pos, pos1, z) /\ Sorted(S \cup {z}, pos1)
<1>1. /\ pos1 \in [Nodes -> Int]
      /\ \A m, n \in S \cup {z} : pos1[m] = pos1[n] => m = n
      /\ \A m, n \in S : On(pos1, "left", m, n) <=> On(pos, "left", m, n)
      /\ \A n \in S : n # y => (On(pos1, "left", z, n) <=> On(pos, "left", y, n))
      /\ y # Root => (On(pos1, "left", z, y) <=> s = "left")
  BY LeafPos, SidesAre
<1>2. S \subseteq Nodes /\ z \notin S /\ (y # Root => y \in S)
      /\ \A n \in S \cup {z} : KeyOf[n] \in Int /\ pos1[n] \in Int
  BY <1>1, TreeAssumption DEF Placed
<1>3. ASSUME NEW m \in S PROVE On(pos1, "left", z, m) <=> KeyOf[m] > KeyOf[z]
  <2>1. y # Root /\ y \in S
    BY <1>2
  <2>2. KeyOf[m] > KeyOf[z] <=> On(pos, "left", y, m) \/ (m = y /\ s = "left")
    BY <2>1
  <2>3. CASE m # y
    BY <1>1, <2>2, <2>3
  <2>4. CASE m = y
    <3>1. ~On(pos, "left", y, y)
      BY <2>1, Order, SidesAre
    <3>2. QED
      BY <1>1, <2>1, <2>2, <2>4, <3>1
  <2>5. QED
    BY <2>3, <2>4
<1>4. ASSUME NEW m \in S PROVE On(pos1, "left", m, z) <=> KeyOf[m] <= KeyOf[z]
  <2>1. pos1[m] # pos1[z] /\ pos1[m] \in Int /\ pos1[z] \in Int
    BY <1>1, <1>2
  <2>2. On(pos1, "left", m, z) <=> ~On(pos1, "left", z, m)
    BY <2>1 DEF On
  <2>3. KeyOf[m] <= KeyOf[z] <=> ~(KeyOf[m] > KeyOf[z])
    BY <1>2
  <2>4. QED
    BY <1>3, <2>2, <2>3
<1>5. Filed(S, pos, pos1, z)
  BY <1>1, <1>3, <1>4 DEF Filed
<1>6. Sorted(S \cup {z}, pos1)
  <2> SUFFICES ASSUME NEW m \in S \cup {z}, NEW n \in S \cup {z}, pos1[m] < pos1[n]
               PROVE  KeyOf[m] <= KeyOf[n]
    BY DEF Sorted
  <2>1. On(pos1, "left", m, n)
    BY DEF On
  <2>2. CASE m \in S /\ n \in S
    <3>1. On(pos, "left", m, n)
      BY <1>1, <2>1, <2>2
    <3>2. QED
      BY <2>2, <3>1 DEF Sorted, On
  <2>3. CASE m = z /\ n \in S
    BY <1>2, <1>3, <2>1, <2>3
  <2>4. CASE m \in S /\ n = z
    BY <1>4, <2>1, <2>4
  <2>5. CASE m = z /\ n = z
    BY <1>2, <2>5
  <2>6. QED
    BY <2>2, <2>3, <2>4, <2>5
<1>7. QED
  BY <1>5, <1>6

Blank(S) == <<[n \in Nodes \ S |-> <<NULL, NULL, NULL>>], Nil>>
Clean(t, S) == Outside(t, S) = Blank(S)

(* Nothing is linked outside of the tree: the links of other nodes are NULL, *)
(* as those of nodes that were not allocated or freed are in the model.      *)
LEMMA CleanIs ==
    ASSUME NEW t, NEW S
    PROVE  Clean(t, S) <=> /\ \A n \in Nodes \ S : /\ t.child["left"][n] = NULL
                                                   /\ t.child["right"][n] = NULL
                                                   /\ t.parent[n] = NULL
                           /\ t.parent[Root] = Nil
<1> DEFINE f == [n \in Nodes \ S |-> <<t.child["left"][n], t.child["right"][n], t.parent[n]>>]
           e == [n \in Nodes \ S |-> <<NULL, NULL, NULL>>]
<1>1. Clean(t, S) <=> f = e /\ t.parent[Root] = Nil
  BY Zenon DEF Clean, Outside, Blank
<1>2. f = e <=> \A n \in Nodes \ S : f[n] = e[n]
  OBVIOUS
<1>3. \A n \in Nodes \ S : f[n] = e[n] <=> /\ t.child["left"][n] = NULL
                                           /\ t.child["right"][n] = NULL
                                           /\ t.parent[n] = NULL
  OBVIOUS
<1>4. QED
  BY <1>1, <1>2, <1>3

\* A new red leaf: at most it and its parent clash.
LEMMA InsertStart ==
    ASSUME NEW t, NEW S, NEW pos, RedBlackTree(t, S, pos), Sorted(S, pos),
           NEW z \in Nodes \ S, Clean(t, S)
    PROVE  \E linked, pos1 :
               /\ linked = Painted(_rb_tree_insert(t, z), {}, {z})
               /\ Fixing(linked, S \cup {z}, pos1, z, 0, Blank(S \cup {z}))
               /\ Filed(S, pos, pos1, z) /\ Sorted(S \cup {z}, pos1)
<1>1. PICK sub, bh : /\ Shape(t, S, sub, pos) /\ Balanced(t, S, bh)
                     /\ t.red \subseteq S /\ Clashless(t, S, Nil) /\ Top(t) \notin t.red
  BY DEF RedBlackTree
<1>2. /\ Placed(S, sub, pos) /\ S \subseteq Nodes /\ Nil \notin Nodes /\ Root \notin Nodes
      /\ z \in Nodes /\ z \notin S /\ z # Nil /\ z # Root /\ KeyOf[z] \in Int /\ t \in Trees
      /\ Root # Nil
  BY <1>1, Distinct, TreeAssumption DEF Shape, Placed
<1>3. PICK y \in S \cup {Root} :
         /\ y = Place(t, KeyOf[z]) /\ t.child[Way(y, KeyOf[z])][y] = Nil /\ Way(y, KeyOf[z]) \in Sides
         /\ y \in S => \A m \in S : KeyOf[m] > KeyOf[z] <=>
                           On(pos, "left", y, m) \/ (m = y /\ Way(y, KeyOf[z]) = "left")
  BY <1>1, <1>2, PlaceIs
<1>4. PICK s \in Sides : s = Way(y, KeyOf[z])
  BY <1>3
<1>5. /\ t.child[s][y] = Nil /\ (y = Root => s = "left") /\ y # z /\ y \in Nodes \cup {Root}
      /\ y \in S => \A m \in S : KeyOf[m] > KeyOf[z] <=>
                        On(pos, "left", y, m) \/ (m = y /\ s = "left")
  <2>1. y = Root => s = "left"
    BY <1>4 DEF Way
  <2>2. QED
    BY <1>2, <1>3, <1>4, <2>1
<1>6. PICK leaf : leaf = _rb_tree_insert(t, z)
  OBVIOUS
<1>7. /\ leaf \in Trees /\ leaf.red = t.red
      /\ \A r \in Sides, n \in Nodes \cup {Root} :
             leaf.child[r][n] = IF n = z THEN Nil ELSE IF n = y /\ r = s THEN z ELSE t.child[r][n]
      /\ \A n \in Nodes \cup {Root, Nil} : leaf.parent[n] = IF n = z THEN y ELSE t.parent[n]
  <2>1. Way(y, KeyOf[z]) \in Sides
    BY <1>3
  <2>2. QED
    BY <1>2, <1>3, <1>4, <1>5, <1>6, <2>1, InsertLinks
<1>8. PICK S1 : S1 = S \cup {z}
  OBVIOUS
<1>9. PICK sub1, pos1 : sub1 = WithSub(S, sub, z, y) /\ pos1 = WithPos(S, pos, z, y, s)
  OBVIOUS
<1>10. Shape(leaf, S1, sub1, pos1)
  BY <1>1, <1>5, <1>7, <1>8, <1>9, LeafShape
<1>11. y = Root => S = {}
  <2>1. y = Root => Top(t) = Nil
    BY <1>5 DEF Top
  <2>2. QED
    BY <1>1, <1>2, <2>1 DEF Shape, Rooted, Placed
<1>12. Filed(S, pos, pos1, z) /\ Sorted(S1, pos1)
  BY <1>2, <1>5, <1>8, <1>9, <1>11, LeafSorted
<1>13. PICK new : new = Painted(leaf, {}, {z})
  OBVIOUS
<1>14. /\ Shape(new, S1, sub1, pos1) /\ new.child = leaf.child /\ new.parent = leaf.parent
       /\ Top(new) = Top(leaf) /\ new.red = (leaf.red \ {}) \cup {z}
  <2>1. {z} \in SUBSET Addresses
    BY <1>2 DEF Addresses
  <2>2. QED
    BY <1>10, <1>13, <2>1, PaintShape
<1>15. new.red = t.red \cup {z} /\ z \notin t.red /\ t.red \subseteq S /\ Nil \notin new.red
  BY <1>1, <1>2, <1>7, <1>14
<1>16. \A r \in Sides, n \in S : t.child[r][n] \in S \cup {Nil}
  BY <1>1 DEF Shape, Linked
<1>17. \A r \in Sides, n \in S : new.child[r][n] = IF n = y /\ r = s THEN z ELSE t.child[r][n]
  BY <1>2, <1>7, <1>14
<1>18. \A r \in Sides : new.child[r][z] = Nil
  BY <1>2, <1>7, <1>14
<1>19. PICK bh1 : bh1 = [bh EXCEPT ![z] = 0]
  OBVIOUS
<1>20. Balanced(new, S1, bh1)
  <2>1. /\ bh \in [Nodes \cup {Nil} -> Nat] /\ bh[Nil] = 0
        /\ \A n \in S, r \in Sides : bh[n] = bh[t.child[r][n]] + Black(t, n)
    BY <1>1 DEF Balanced
  <2>2. /\ bh1 \in [Nodes \cup {Nil} -> Nat] /\ bh1[z] = 0 /\ bh1[Nil] = 0
        /\ \A n \in Nodes : n # z => bh1[n] = bh[n]
    BY <1>2, <1>19, <2>1
  <2>3. Black(new, z) = 0 /\ \A n \in S : Black(new, n) = Black(t, n)
    BY <1>2, <1>15 DEF Black
  <2>4. ASSUME NEW n \in S, NEW r \in Sides
        PROVE  bh1[n] = bh1[new.child[r][n]] + Black(new, n)
    <3>1. PICK c \in S \cup {Nil} : c = t.child[r][n]
      BY <1>16
    <3>2. bh[n] = bh[c] + Black(t, n)
      BY <2>1, <3>1
    <3>3. bh1[n] = bh[n] /\ bh1[c] = bh[c]
      BY <1>2, <2>1, <2>2
    <3>4. bh1[new.child[r][n]] = bh1[c]
      <4>1. CASE n = y /\ r = s
        <5>1. c = Nil
          BY <1>5, <3>1, <4>1
        <5>2. QED
          BY <1>17, <2>2, <4>1, <5>1
      <4>2. CASE ~(n = y /\ r = s)
        BY <1>17, <3>1, <4>2
      <4>3. QED
        BY <4>1, <4>2
    <3>5. QED
      BY <2>3, <3>2, <3>3, <3>4
  <2>5. ASSUME NEW r \in Sides PROVE bh1[z] = bh1[new.child[r][z]] + Black(new, z)
    BY <1>18, <2>2, <2>3
  <2>6. QED
    BY <1>8, <2>2, <2>4, <2>5 DEF Balanced
<1>21. Clashless(new, S1, z)
  <2> SUFFICES ASSUME NEW n \in S1, NEW r \in Sides, n \in new.red, new.child[r][n] \in new.red
               PROVE  new.child[r][n] = z
    BY DEF Clashless
  <2>1. n # z
    BY <1>15, <1>18
  <2>2. n \in S /\ n \in t.red
    BY <1>8, <1>15, <2>1
  <2>3. CASE n = y /\ r = s
    BY <1>17, <2>2, <2>3
  <2>4. CASE ~(n = y /\ r = s)
    <3>1. new.child[r][n] = t.child[r][n]
      BY <1>17, <2>2, <2>4
    <3>2. t.child[r][n] \notin t.red
      BY <1>1, <1>2, <2>2 DEF Clashless
    <3>3. QED
      BY <1>15, <3>1, <3>2
  <2>5. QED
    BY <2>3, <2>4
<1>22. Top(new) \in new.red => Top(new) = z
  <2>1. CASE y = Root
    BY <1>2, <1>5, <1>7, <1>14, <2>1 DEF Top
  <2>2. CASE y # Root
    <3>1. Top(leaf) = Top(t)
      BY <1>2, <1>7, <2>2, SidesAre DEF Top
    <3>2. QED
      BY <1>1, <1>14, <1>15, <3>1
  <2>3. QED
    BY <2>1, <2>2
<1>23. Clean(new, S1)
  <2>1. \A n \in Nodes \ S : t.child["left"][n] = NULL /\ t.child["right"][n] = NULL /\ t.parent[n] = NULL
    BY CleanIs
  <2>2. t.parent[Root] = Nil
    BY CleanIs
  <2>3. ASSUME NEW n \in Nodes \ S1
        PROVE  new.child["left"][n] = NULL /\ new.child["right"][n] = NULL /\ new.parent[n] = NULL
    <3>1. n \in Nodes \ S /\ n # z /\ n # y /\ n \in Nodes \cup {Root, Nil}
      BY <1>2, <1>8
    <3>2. QED
      BY <1>7, <1>14, <2>1, <3>1, SidesAre
  <2>4. new.parent[Root] = Nil
    BY <1>2, <1>7, <1>14, <2>2
  <2>5. QED
    BY <2>3, <2>4, CleanIs
<1>24. Fixing(new, S1, pos1, z, 0, Blank(S1))
  <2>1. Cardinality(sub1[z]) >= 0
    <3>1. z \in S1
      BY <1>8
    <3>2. Cardinality(sub1[z]) \in Nat
      BY <1>14, <3>1, Sizes
    <3>3. QED
      BY <3>2
  <2>2. new.red \subseteq S1 /\ z \in S1 \cap new.red
    BY <1>8, <1>15
  <2>3. Outside(new, S1) = Blank(S1)
    BY <1>23 DEF Clean
  <2>4. QED
    BY <1>14, <1>20, <1>21, <1>22, <2>1, <2>2, <2>3 DEF Fixing
<1>25. QED
  BY <1>6, <1>8, <1>12, <1>13, <1>24

(* rb_tree_insert: of a red-black tree in order it makes one that has the    *)
(* new node too, behind the nodes whose key is not above its own and before  *)
(* the others.                                                               *)
LEMMA InsertedIs ==
    ASSUME NEW t, NEW S, NEW pos, RedBlackTree(t, S, pos), Sorted(S, pos),
           NEW z \in Nodes \ S, Clean(t, S)
    PROVE  \E pos1 : /\ RedBlackTree(Inserted(t, z), S \cup {z}, pos1)
                     /\ Clean(Inserted(t, z), S \cup {z})
                     /\ Filed(S, pos, pos1, z) /\ Sorted(S \cup {z}, pos1)
<1>1. PICK linked, pos1 :
         /\ linked = Painted(_rb_tree_insert(t, z), {}, {z})
         /\ Fixing(linked, S \cup {z}, pos1, z, 0, Blank(S \cup {z}))
         /\ Filed(S, pos, pos1, z) /\ Sorted(S \cup {z}, pos1)
  BY InsertStart
<1>2. PICK fixed : /\ fixed = Loop(InsertRounds, <<linked, z>>)[1]
                   /\ RedBlackTree(Painted(fixed, {Top(fixed)}, {}), S \cup {z}, pos1)
                   /\ Outside(Painted(fixed, {Top(fixed)}, {}), S \cup {z}) = Blank(S \cup {z})
  BY <1>1, InsertLoop
<1>3. Inserted(t, z) = Painted(fixed, {Top(fixed)}, {})
  BY <1>1, <1>2 DEF Inserted, InsertRounds
<1>4. QED
  BY <1>1, <1>2, <1>3 DEF Clean

-----------------------------------------------------------------------------
(* The repair after a removal.                                               *)

(* What the loop of a deletion repairs: the ways down from p along side s, on     *)
(* which x hangs, lack a black node.  Its sibling w is then a node.             *)
Short(t, S, sub, pos, bh, x, p, s, o, w) ==
    /\ Shape(t, S, sub, pos) /\ Heights(t, S, bh, p, s)
    /\ t.red \subseteq S /\ Clashless(t, S, Nil) /\ Top(t) \notin t.red
    /\ x \in (S \cup {Nil}) \ t.red /\ p \in S /\ w \in S
    /\ s \in Sides /\ o \in Sides /\ o # s
    /\ t.parent[x] = p /\ t.child[s][p] = x /\ t.child[o][p] = w

\* The links of the nodes that are not in the tree stay.
Kept(t, new, S) == Outside(new, S) = Outside(t, S)

\* After a rotation at the sibling: x still lacks a node, and has a black sibling w.
StillShort(t, new, S, pos, x, p, s, o, w) ==
    \E sub, bh : /\ Short(new, S, sub, pos, bh, x, p, s, o, w) /\ w \notin new.red
                 /\ Top(t) \in {p, Top(new)} /\ Kept(t, new, S)

\* A red sibling is rotated away: the new one is black, and the parent red.
LEMMA RedSibling ==
    ASSUME NEW t, NEW S, NEW sub, NEW pos, NEW bh, NEW x, NEW p, NEW s, NEW o, NEW u,
           Short(t, S, sub, pos, bh, x, p, s, o, u), u \in t.red
    PROVE  \E new, w : /\ new = Rotate(Painted(t, {u}, {p}), p, s) /\ p \in new.red
                       /\ StillShort(t, new, S, pos, x, p, s, o, w)
<1>1. /\ Shape(t, S, sub, pos) /\ Heights(t, S, bh, p, s)
      /\ t.red \subseteq S /\ Clashless(t, S, Nil) /\ Top(t) \notin t.red
      /\ x \in (S \cup {Nil}) \ t.red /\ p \in S /\ u \in S
      /\ s \in Sides /\ o \in Sides /\ o # s
      /\ t.parent[x] = p /\ t.child[s][p] = x /\ t.child[o][p] = u
  BY DEF Short
<1>2. S \subseteq Nodes /\ Nil \notin S /\ Root \notin S /\ Opposite(s) = o /\ Nil \notin t.red
      /\ u # Nil
  BY <1>1, Distinct, SidesAre DEF Shape, Placed
<1>3. PICK w, c : w = t.child[s][u] /\ c = t.child[o][u]
  OBVIOUS
<1>4. /\ bh \in [Nodes \cup {Nil} -> Nat] /\ bh[Nil] = 0
      /\ \A n \in S, r \in Sides :
             bh[n] = bh[t.child[r][n]] + Black(t, n) + (IF n = p /\ r = s THEN 1 ELSE 0)
  BY <1>1 DEF Heights
<1>5. p \notin t.red /\ w \notin t.red /\ c \notin t.red /\ u # p
  <2>1. p \notin t.red
    BY <1>1, <1>2 DEF Clashless
  <2>2. \A r \in Sides : t.child[r][u] \notin t.red
    BY <1>1, <1>2 DEF Clashless
  <2>3. QED
    BY <1>1, <1>3, <2>1, <2>2
<1>6. w \in S \cup {Nil} /\ c \in S \cup {Nil}
  BY <1>1, <1>3 DEF Shape, Linked
<1>7. /\ bh[p] = bh[x] + 2 /\ bh[p] = bh[u] + 1 /\ bh[u] = bh[w] /\ bh[u] = bh[c]
      /\ bh[x] \in Nat /\ bh[p] \in Nat /\ bh[u] \in Nat /\ bh[w] \in Nat /\ bh[c] \in Nat
  <2>1. Black(t, p) = 1 /\ Black(t, u) = 0
    BY <1>5 DEF Black
  <2>2. bh[p] = bh[x] + 1 + 1
    BY <1>1, <1>4, <2>1
  <2>3. bh[p] = bh[u] + 1 + 0
    BY <1>1, <1>4, <2>1
  <2>4. bh[u] = bh[w] + 0 + 0 /\ bh[u] = bh[c] + 0 + 0
    BY <1>1, <1>3, <1>4, <1>5, <2>1
  <2>5. bh[x] \in Nat /\ bh[p] \in Nat /\ bh[u] \in Nat /\ bh[w] \in Nat /\ bh[c] \in Nat
    BY <1>1, <1>2, <1>4, <1>6
  <2>6. QED
    BY <2>2, <2>3, <2>4, <2>5
<1>8. w \in S /\ w # Nil
  <2>1. bh[w] = bh[x] + 1
    BY <1>7
  <2>2. QED
    BY <1>4, <1>6, <1>7, <2>1, <1>2
<1>9. PICK t2, new : t2 = Painted(t, {u}, {p}) /\ new = Rotate(t2, p, s)
  OBVIOUS
<1>10. /\ Shape(t2, S, sub, pos)
       /\ t2.child = t.child /\ t2.parent = t.parent /\ Top(t2) = Top(t)
       /\ t2.red = (t.red \ {u}) \cup {p} /\ Outside(t2, S) = Outside(t, S)
  <2>1. {p} \in SUBSET Addresses
    BY <1>1, <1>2 DEF Addresses
  <2>2. Shape(t, S, sub, pos)
    BY <1>1
  <2>3. QED
    BY <1>9, <2>1, <2>2, PaintShape
<1>11. Turning(t2, new, S, sub, pos, p, u, s, o, x, w, c)
  BY <1>1, <1>2, <1>3, <1>9, <1>10 DEF Turning
<1>12. /\ Turned(t2, new, S, p, u, s, o, x, w, c) /\ \E sub1 : Shape(new, S, sub1, pos)
       /\ Outside(new, S) = Outside(t2, S)
  BY <1>11, RotateLocal
<1>13. /\ new.red = t2.red
       /\ {x, w, c} \subseteq (S \cup {Nil}) \ {p, u}
       /\ new.child[s][p] = x /\ new.child[o][p] = w
       /\ new.child[s][u] = p /\ new.child[o][u] = c
       /\ \A n \in S \ {p, u}, r \in Sides :
              /\ t2.child[r][n] # u
              /\ new.child[r][n] = IF t2.child[r][n] = p THEN u ELSE t2.child[r][n]
       /\ \A n \in S : new.parent[n] = IF n = p THEN u ELSE IF n = u THEN t2.parent[p]
                                       ELSE IF n = w THEN p ELSE t2.parent[n]
       /\ new.parent[Nil] = t2.parent[Nil]
       /\ Top(new) = IF p = Top(t2) THEN u ELSE Top(t2)
  BY <1>12 DEF Turned
<1>14. PICK sub1 : Shape(new, S, sub1, pos)
  BY <1>12
<1>15. new.red = (t.red \ {u}) \cup {p}
  BY <1>10, <1>13
<1>16. PICK hx, hy, bh1 : /\ hx = bh[u] /\ hy = bh[p]
                          /\ bh1 = [bh EXCEPT ![p] = hx, ![u] = hy]
  OBVIOUS
<1>17. Heights(new, S, bh1, p, s)
  <2>1. Lifts(t2, S, bh, p, u, s, o, x, w, c, p, s, hx, hy)
    <3>1. Black(t2, p) = 0 /\ Black(t2, u) = 1
      BY <1>5, <1>10 DEF Black
    <3>2. \A n \in S \ {p, u}, r \in Sides :
             bh[n] = bh[t2.child[r][n]] + Black(t2, n) + (IF n = p /\ r = s THEN 1 ELSE 0)
      <4>1. \A n \in S \ {p, u} : Black(t2, n) = Black(t, n)
        BY <1>10 DEF Black
      <4>2. QED
        BY <1>4, <1>10, <4>1
    <3>3. hx \in Nat /\ hy \in Nat /\ hy = bh[p]
      BY <1>7, <1>16
    <3>4. hx = bh[x] + Black(t2, p) + (IF p = p /\ s = s THEN 1 ELSE 0)
      BY <1>7, <1>16, <3>1
    <3>5. hx = bh[w] + Black(t2, p) + (IF p = p /\ o = s THEN 1 ELSE 0)
      BY <1>1, <1>7, <1>16, <3>1
    <3>6. hy = hx + Black(t2, u) + (IF u = p /\ s = s THEN 1 ELSE 0)
      BY <1>5, <1>7, <1>16, <3>1
    <3>7. hy = bh[c] + Black(t2, u) + (IF u = p /\ o = s THEN 1 ELSE 0)
      BY <1>5, <1>7, <1>16, <3>1
    <3>8. bh \in [Nodes \cup {Nil} -> Nat] /\ bh[Nil] = 0
      BY <1>4
    <3>9. QED
      BY <3>2, <3>3, <3>4, <3>5, <3>6, <3>7, <3>8 DEF Lifts
  <2>2. QED
    BY <1>11, <1>16, <2>1, RotateHeights
<1>18. Clashless(new, S, Nil)
  <2> SUFFICES ASSUME NEW n \in S, NEW r \in Sides, n \in new.red, new.child[r][n] \in new.red
               PROVE  FALSE
    BY DEF Clashless
  <2>1. \A q \in Sides : q = s \/ q = o
    BY <1>1, SidesAre
  <2>2. CASE n = p
    <3>1. new.child[r][n] = x \/ new.child[r][n] = w
      BY <1>13, <2>1, <2>2
    <3>2. x \notin new.red /\ w \notin new.red
      BY <1>1, <1>5, <1>13, <1>15
    <3>3. QED
      BY <3>1, <3>2
  <2>3. CASE n # p
    <3>1. n # u /\ n \in t.red
      BY <1>5, <1>15, <2>3
    <3>2. PICK m : m = t.child[r][n]
      OBVIOUS
    <3>3. new.child[r][n] = IF m = p THEN u ELSE m
      BY <1>10, <1>13, <2>3, <3>1, <3>2
    <3>4. m # p
      BY <1>5, <1>15, <3>3
    <3>5. m \in t.red
      BY <1>15, <3>3, <3>4
    <3>6. QED
      BY <1>1, <1>2, <3>1, <3>2, <3>5 DEF Clashless
  <2>4. QED
    BY <2>2, <2>3
<1>19. new.parent[x] = p
  <2>1. x # p /\ x # u
    BY <1>13
  <2>2. x # w
    <3>1. w # Nil => t.parent[w] = u
      BY <1>1, <1>3, <1>8, Child
    <3>2. QED
      BY <1>1, <1>5, <1>8, <3>1
  <2>3. CASE x = Nil
    BY <1>1, <1>10, <1>13, <2>3
  <2>4. CASE x \in S
    BY <1>1, <1>10, <1>13, <2>1, <2>2, <2>4
  <2>5. QED
    BY <1>1, <2>3, <2>4
<1>20. Top(new) \notin new.red /\ Top(t) \in {p, Top(new)}
  <2>1. Top(new) = IF p = Top(t) THEN u ELSE Top(t)
    BY <1>10, <1>13
  <2>2. u \notin new.red
    BY <1>5, <1>15
  <2>3. QED
    BY <1>1, <1>15, <2>1, <2>2
<1>21. new.red \subseteq S /\ x \notin new.red /\ w \notin new.red /\ p \in new.red
  BY <1>1, <1>5, <1>13, <1>15
<1>22. Short(new, S, sub1, pos, bh1, x, p, s, o, w)
  BY <1>1, <1>8, <1>13, <1>14, <1>17, <1>18, <1>19, <1>20, <1>21 DEF Short
<1>23. Kept(t, new, S)
  BY <1>10, <1>12 DEF Kept
<1>24. StillShort(t, new, S, pos, x, p, s, o, w)
  BY <1>20, <1>21, <1>22, <1>23 DEF StillShort
<1>25. QED
  BY <1>9, <1>21, <1>24

(* What follows for the nodes around one that lacks a black node: the        *)
(* sibling's ways down have one node more, so that it is not the sentinel.   *)
LEMMA ShortIs ==
    ASSUME NEW t, NEW S, NEW sub, NEW pos, NEW bh, NEW x, NEW p, NEW s, NEW o, NEW w,
           Short(t, S, sub, pos, bh, x, p, s, o, w)
    PROVE  /\ S \subseteq Nodes /\ Nil \notin S /\ Root \notin S /\ Opposite(s) = o /\ Opposite(o) = s
           /\ Nil \notin t.red /\ w # Nil /\ w # p /\ x # p /\ x # w
           /\ t.parent[w] = p /\ w # Top(t) /\ p \notin sub[w] /\ w \in sub[w]
           /\ \A r \in Sides : r = s \/ r = o
           /\ bh[x] \in Nat /\ bh[w] = bh[x] + 1 /\ bh[p] = bh[x] + 1 + Black(t, p)
<1>1. /\ Shape(t, S, sub, pos) /\ Heights(t, S, bh, p, s)
      /\ t.red \subseteq S
      /\ x \in (S \cup {Nil}) \ t.red /\ p \in S /\ w \in S
      /\ s \in Sides /\ o \in Sides /\ o # s
      /\ t.child[s][p] = x /\ t.child[o][p] = w
  BY DEF Short
<1>2. S \subseteq Nodes /\ Nil \notin S /\ Root \notin S /\ Opposite(s) = o /\ Opposite(o) = s
      /\ Nil \notin t.red /\ w # Nil /\ w \in sub[w]
      /\ \A r \in Sides : r = s \/ r = o
  BY <1>1, Distinct, SidesAre DEF Shape, Placed
<1>3. w # p /\ x # w /\ t.parent[w] = p /\ p \notin sub[w]
  BY <1>1, <1>2, Child
<1>4. x # p
  BY <1>1, <1>2, Child
<1>5. w # Top(t)
  <2>1. w = Top(t) => t.parent[w] = Root
    BY <1>1, <1>2 DEF Shape, Rooted
  <2>2. QED
    BY <1>1, <1>2, <1>3, <2>1
<1>6. bh[x] \in Nat /\ bh[w] = bh[x] + 1 /\ bh[p] = bh[x] + 1 + Black(t, p)
  <2>1. /\ bh \in [Nodes \cup {Nil} -> Nat]
        /\ \A n \in S, r \in Sides :
               bh[n] = bh[t.child[r][n]] + Black(t, n) + (IF n = p /\ r = s THEN 1 ELSE 0)
    BY <1>1 DEF Heights
  <2>2. bh[p] = bh[x] + Black(t, p) + 1
    BY <1>1, <2>1
  <2>3. bh[p] = bh[w] + Black(t, p) + 0
    BY <1>1, <2>1
  <2>4. bh[x] \in Nat /\ bh[w] \in Nat /\ Black(t, p) \in Nat
    BY <1>1, <1>2, <2>1 DEF Black
  <2>5. QED
    BY <2>2, <2>3, <2>4
<1>7. QED
  BY <1>2, <1>3, <1>4, <1>5, <1>6

\* A red child on the inner side of the sibling is turned to the outer side.
LEMMA NephewOut ==
    ASSUME NEW t, NEW S, NEW sub, NEW pos, NEW bh, NEW x, NEW p, NEW s, NEW o, NEW w,
           Short(t, S, sub, pos, bh, x, p, s, o, w), w \notin t.red,
           NEW z, t.child[s][w] = z, z \in t.red, t.child[o][w] \notin t.red
    PROVE  \E new : /\ new = Rotate(Painted(t, {z}, {w}), w, o)
                    /\ new.child[o][z] \in new.red
                    /\ StillShort(t, new, S, pos, x, p, s, o, z)
<1>1. /\ Shape(t, S, sub, pos) /\ Heights(t, S, bh, p, s)
      /\ t.red \subseteq S /\ Clashless(t, S, Nil) /\ Top(t) \notin t.red
      /\ x \in (S \cup {Nil}) \ t.red /\ p \in S /\ w \in S
      /\ s \in Sides /\ o \in Sides /\ o # s
      /\ t.parent[x] = p /\ t.child[s][p] = x /\ t.child[o][p] = w
  BY DEF Short
<1>2. /\ S \subseteq Nodes /\ Nil \notin S /\ Root \notin S /\ Opposite(s) = o /\ Opposite(o) = s
      /\ Nil \notin t.red /\ w # Nil /\ w # p /\ x # p /\ x # w
      /\ t.parent[w] = p /\ w # Top(t) /\ p \notin sub[w] /\ w \in sub[w]
      /\ \A r \in Sides : r = s \/ r = o
      /\ bh[x] \in Nat /\ bh[w] = bh[x] + 1 /\ bh[p] = bh[x] + 1 + Black(t, p)
  BY ShortIs
<1>3. z \in S /\ z # Nil
  BY <1>1, <1>2
<1>4. PICK a, b, c : a = t.child[o][w] /\ b = t.child[o][z] /\ c = t.child[s][z]
  OBVIOUS
<1>5. /\ bh \in [Nodes \cup {Nil} -> Nat] /\ bh[Nil] = 0
      /\ \A n \in S, r \in Sides :
             bh[n] = bh[t.child[r][n]] + Black(t, n) + (IF n = p /\ r = s THEN 1 ELSE 0)
  BY <1>1 DEF Heights
<1>6. a \notin t.red /\ b \notin t.red /\ c \notin t.red /\ z # w
      /\ a \in S \cup {Nil} /\ b \in S \cup {Nil} /\ c \in S \cup {Nil}
  <2>1. \A r \in Sides : t.child[r][z] \notin t.red
    BY <1>1, <1>2, <1>3 DEF Clashless
  <2>2. QED
    BY <1>1, <1>3, <1>4, <2>1 DEF Shape, Linked
<1>7. z # p /\ z \in sub[w] /\ t.parent[z] = w
  <2>1. sub[z] \subseteq sub[w] /\ z \in sub[z] /\ t.parent[z] = w
    BY <1>1, <1>3, Child
  <2>2. QED
    BY <1>2, <2>1
<1>8. /\ bh[w] = bh[a] + 1 /\ bh[w] = bh[z] + 1 /\ bh[z] = bh[b] /\ bh[z] = bh[c]
      /\ bh[z] \in Nat /\ bh[w] \in Nat /\ bh[a] \in Nat /\ bh[b] \in Nat /\ bh[c] \in Nat
  <2>1. Black(t, w) = 1 /\ Black(t, z) = 0
    BY DEF Black
  <2>2. bh[w] = bh[a] + 1 + 0 /\ bh[w] = bh[z] + 1 + 0
    BY <1>1, <1>2, <1>4, <1>5, <2>1
  <2>3. bh[z] = bh[b] + 0 + 0 /\ bh[z] = bh[c] + 0 + 0
    BY <1>1, <1>3, <1>4, <1>5, <1>7, <2>1
  <2>4. bh[z] \in Nat /\ bh[w] \in Nat /\ bh[a] \in Nat /\ bh[b] \in Nat /\ bh[c] \in Nat
    BY <1>1, <1>2, <1>3, <1>5, <1>6
  <2>5. QED
    BY <2>2, <2>3, <2>4
<1>9. PICK t2, new : t2 = Painted(t, {z}, {w}) /\ new = Rotate(t2, w, o)
  OBVIOUS
<1>10. /\ Shape(t2, S, sub, pos)
       /\ t2.child = t.child /\ t2.parent = t.parent /\ Top(t2) = Top(t)
       /\ t2.red = (t.red \ {z}) \cup {w} /\ Outside(t2, S) = Outside(t, S)
  <2>1. {w} \in SUBSET Addresses
    BY <1>1, <1>2 DEF Addresses
  <2>2. Shape(t, S, sub, pos)
    BY <1>1
  <2>3. QED
    BY <1>9, <2>1, <2>2, PaintShape
<1>11. Turning(t2, new, S, sub, pos, w, z, o, s, a, b, c)
  BY <1>1, <1>3, <1>4, <1>9, <1>10 DEF Turning
<1>12. /\ Turned(t2, new, S, w, z, o, s, a, b, c) /\ \E sub1 : Shape(new, S, sub1, pos)
       /\ Outside(new, S) = Outside(t2, S)
  BY <1>11, RotateLocal
<1>13. /\ new.red = t2.red
       /\ new.child[o][w] = a /\ new.child[s][w] = b
       /\ new.child[o][z] = w /\ new.child[s][z] = c
       /\ \A n \in S \ {w, z}, r \in Sides :
              /\ t2.child[r][n] # z
              /\ new.child[r][n] = IF t2.child[r][n] = w THEN z ELSE t2.child[r][n]
       /\ \A n \in S : new.parent[n] = IF n = w THEN z ELSE IF n = z THEN t2.parent[w]
                                       ELSE IF n = b THEN w ELSE t2.parent[n]
       /\ new.parent[Nil] = t2.parent[Nil]
       /\ Top(new) = IF w = Top(t2) THEN z ELSE Top(t2)
  BY <1>12 DEF Turned
<1>14. PICK sub1 : Shape(new, S, sub1, pos)
  BY <1>12
<1>15. new.red = (t.red \ {z}) \cup {w}
  BY <1>10, <1>13
<1>16. PICK hx, hy, bh1 : /\ hx = bh[z] /\ hy = bh[w]
                          /\ bh1 = [bh EXCEPT ![w] = hx, ![z] = hy]
  OBVIOUS
<1>17. Heights(new, S, bh1, p, s)
  <2>1. Lifts(t2, S, bh, w, z, o, s, a, b, c, p, s, hx, hy)
    <3>1. Black(t2, w) = 0 /\ Black(t2, z) = 1
      BY <1>6, <1>10 DEF Black
    <3>2. \A n \in S \ {w, z}, r \in Sides :
             bh[n] = bh[t2.child[r][n]] + Black(t2, n) + (IF n = p /\ r = s THEN 1 ELSE 0)
      <4>1. \A n \in S \ {w, z} : Black(t2, n) = Black(t, n)
        BY <1>10 DEF Black
      <4>2. QED
        BY <1>5, <1>10, <4>1
    <3>3. hx \in Nat /\ hy \in Nat /\ hy = bh[w]
      BY <1>8, <1>16
    <3>4. hx = bh[a] + Black(t2, w) + (IF w = p /\ o = s THEN 1 ELSE 0)
      BY <1>2, <1>8, <1>16, <3>1
    <3>5. hx = bh[b] + Black(t2, w) + (IF w = p /\ s = s THEN 1 ELSE 0)
      BY <1>2, <1>8, <1>16, <3>1
    <3>6. hy = hx + Black(t2, z) + (IF z = p /\ o = s THEN 1 ELSE 0)
      BY <1>7, <1>8, <1>16, <3>1
    <3>7. hy = bh[c] + Black(t2, z) + (IF z = p /\ s = s THEN 1 ELSE 0)
      BY <1>7, <1>8, <1>16, <3>1
    <3>8. bh \in [Nodes \cup {Nil} -> Nat] /\ bh[Nil] = 0
      BY <1>5
    <3>9. QED
      BY <3>2, <3>3, <3>4, <3>5, <3>6, <3>7, <3>8 DEF Lifts
  <2>2. QED
    BY <1>11, <1>16, <2>1, RotateHeights
<1>18. Clashless(new, S, Nil)
  <2> SUFFICES ASSUME NEW n \in S, NEW r \in Sides, n \in new.red, new.child[r][n] \in new.red
               PROVE  FALSE
    BY DEF Clashless
  <2>1. CASE n = w
    <3>1. new.child[r][n] = a \/ new.child[r][n] = b
      BY <1>2, <1>13, <2>1
    <3>2. a # w /\ b # w
      <4>1. {a, b, c} \subseteq (S \cup {Nil}) \ {w, z}
        BY <1>12 DEF Turned
      <4>2. QED
        BY <4>1
    <3>3. QED
      BY <1>6, <1>15, <3>1, <3>2
  <2>2. CASE n # w
    <3>1. n # z /\ n \in t.red
      BY <1>6, <1>15, <2>2
    <3>2. PICK m : m = t.child[r][n]
      OBVIOUS
    <3>3. new.child[r][n] = IF m = w THEN z ELSE m
      BY <1>10, <1>13, <2>2, <3>1, <3>2
    <3>4. m # w
      BY <1>6, <1>15, <3>3
    <3>5. m \in t.red
      BY <1>15, <3>3, <3>4
    <3>6. QED
      BY <1>1, <1>2, <3>1, <3>2, <3>5 DEF Clashless
  <2>3. QED
    BY <2>1, <2>2
<1>19. new.parent[x] = p
  <2>1. x # z
    BY <1>1, <1>2, <1>7
  <2>2. x = b => x = Nil
    <3>1. b # Nil => t.parent[b] = z
      BY <1>1, <1>3, <1>4, Child
    <3>2. QED
      BY <1>1, <1>7, <3>1
  <2>3. CASE x = Nil
    BY <1>1, <1>10, <1>13, <2>3
  <2>4. CASE x \in S
    <3>1. x # b
      BY <1>2, <2>2, <2>4
    <3>2. QED
      BY <1>1, <1>2, <1>10, <1>13, <2>1, <2>4, <3>1
  <2>5. QED
    BY <1>1, <2>3, <2>4
<1>20. new.child[s][p] = x /\ new.child[o][p] = z
  <2>1. p \in S \ {w, z}
    BY <1>1, <1>2, <1>7
  <2>2. QED
    BY <1>1, <1>2, <1>10, <1>13, <2>1
<1>21. Top(new) = Top(t) /\ Top(new) \notin new.red
  BY <1>1, <1>2, <1>10, <1>13, <1>15
<1>22. new.red \subseteq S /\ x \notin new.red /\ z \notin new.red /\ new.child[o][z] \in new.red
  BY <1>1, <1>2, <1>6, <1>13, <1>15
<1>23. Short(new, S, sub1, pos, bh1, x, p, s, o, z)
  BY <1>1, <1>3, <1>14, <1>17, <1>18, <1>19, <1>20, <1>21, <1>22 DEF Short
<1>24. Kept(t, new, S)
  BY <1>10, <1>12 DEF Kept
<1>25. StillShort(t, new, S, pos, x, p, s, o, z)
  BY <1>21, <1>22, <1>23, <1>24 DEF StillShort
<1>26. QED
  BY <1>9, <1>22, <1>25

\* The last rotation of a deletion: no way lacks a black node any more.
LEMMA SiblingUp ==
    ASSUME NEW t, NEW S, NEW sub, NEW pos, NEW bh, NEW x, NEW p, NEW s, NEW o, NEW w,
           Short(t, S, sub, pos, bh, x, p, s, o, w), w \notin t.red, t.child[o][w] \in t.red
    PROVE  \E new, sub1, bh1 :
               /\ new = Rebalanced(t, x, s)
               /\ Shape(new, S, sub1, pos) /\ Balanced(new, S, bh1)
               /\ new.red \subseteq S /\ Clashless(new, S, Nil) /\ Top(new) \notin new.red
               /\ p \notin new.red /\ Top(t) \notin new.red
               /\ Kept(t, new, S)
<1>1. /\ Shape(t, S, sub, pos) /\ Heights(t, S, bh, p, s)
      /\ t.red \subseteq S /\ Clashless(t, S, Nil) /\ Top(t) \notin t.red
      /\ x \in (S \cup {Nil}) \ t.red /\ p \in S /\ w \in S
      /\ s \in Sides /\ o \in Sides /\ o # s
      /\ t.parent[x] = p /\ t.child[s][p] = x /\ t.child[o][p] = w
  BY DEF Short
<1>2. /\ S \subseteq Nodes /\ Nil \notin S /\ Root \notin S /\ Opposite(s) = o /\ Opposite(o) = s
      /\ Nil \notin t.red /\ w # Nil /\ w # p /\ x # p /\ x # w
      /\ t.parent[w] = p /\ w # Top(t) /\ p \notin sub[w] /\ w \in sub[w]
      /\ \A r \in Sides : r = s \/ r = o
      /\ bh[x] \in Nat /\ bh[w] = bh[x] + 1 /\ bh[p] = bh[x] + 1 + Black(t, p)
  BY ShortIs
<1>3. PICK b, c : b = t.child[s][w] /\ c = t.child[o][w]
  OBVIOUS
<1>4. /\ bh \in [Nodes \cup {Nil} -> Nat] /\ bh[Nil] = 0
      /\ \A n \in S, r \in Sides :
             bh[n] = bh[t.child[r][n]] + Black(t, n) + (IF n = p /\ r = s THEN 1 ELSE 0)
  BY <1>1 DEF Heights
<1>5. c \in t.red /\ c \in S /\ c # Nil /\ c # w /\ c # p /\ b \in S \cup {Nil} /\ t.parent[c] = w
      /\ b # c
  <2>1. c \in t.red /\ c \in S /\ c # Nil /\ b \in S \cup {Nil}
    BY <1>1, <1>2, <1>3 DEF Shape, Linked
  <2>2. sub[c] \subseteq sub[w] /\ c \in sub[c] /\ t.parent[c] = w /\ c # w
    BY <1>1, <1>3, <2>1, Child
  <2>3. b # c
    BY <1>1, <1>2, <1>3, <2>1, Child
  <2>4. QED
    BY <1>2, <2>1, <2>2, <2>3
<1>6. PICK black, red : /\ black = {p, c} \cup (IF p \in t.red THEN {} ELSE {w})
                        /\ red = IF p \in t.red THEN {w} ELSE {}
  OBVIOUS
<1>7. PICK t2, new : t2 = Painted(t, black, red) /\ new = Rotate(t2, p, s)
  OBVIOUS
<1>8. new = Rebalanced(t, x, s)
  <2>1. Opposite(s) = o /\ t.parent[x] = p /\ t.child[o][p] = w /\ t.child[o][w] = c
    BY <1>1, <1>2, <1>3
  <2>2. Rebalanced(t, x, s) =
           Rotate(Painted(t, {p, c} \cup (IF p \in t.red THEN {} ELSE {w}),
                          IF p \in t.red THEN {w} ELSE {}), p, s)
    BY <2>1 DEF Rebalanced
  <2>3. QED
    BY <1>6, <1>7, <2>2, Zenon
<1>9. /\ Shape(t2, S, sub, pos)
      /\ t2.child = t.child /\ t2.parent = t.parent /\ Top(t2) = Top(t)
      /\ t2.red = (t.red \ black) \cup red /\ Outside(t2, S) = Outside(t, S)
  <2>1. red \in SUBSET Addresses
    BY <1>1, <1>2, <1>6 DEF Addresses
  <2>2. Shape(t, S, sub, pos)
    BY <1>1
  <2>3. QED
    BY <1>7, <2>1, <2>2, PaintShape
<1>10. /\ \A n : n # w => (n \in t2.red <=> n \in t.red /\ n # p /\ n # c)
       /\ w \in t2.red <=> p \in t.red
  <2>1. CASE p \in t.red
    <3>1. black = {p, c} /\ red = {w}
      BY <1>6, <2>1
    <3>2. t2.red = (t.red \ {p, c}) \cup {w}
      BY <1>9, <3>1
    <3>3. QED
      BY <2>1, <3>2
  <2>2. CASE p \notin t.red
    <3>1. black = {p, c, w} /\ red = {}
      BY <1>6, <2>2
    <3>2. t2.red = t.red \ {p, c, w}
      BY <1>9, <3>1
    <3>3. QED
      BY <2>2, <3>2
  <2>3. QED
    BY <2>1, <2>2
<1>11. Turning(t2, new, S, sub, pos, p, w, s, o, x, b, c)
  BY <1>1, <1>2, <1>3, <1>7, <1>9 DEF Turning
<1>12. /\ Turned(t2, new, S, p, w, s, o, x, b, c) /\ \E sub1 : Shape(new, S, sub1, pos)
       /\ Outside(new, S) = Outside(t2, S)
  BY <1>11, RotateLocal
<1>13. /\ new.red = t2.red
       /\ {x, b, c} \subseteq (S \cup {Nil}) \ {p, w}
       /\ new.child[s][p] = x /\ new.child[o][p] = b
       /\ new.child[s][w] = p /\ new.child[o][w] = c
       /\ \A n \in S \ {p, w}, r \in Sides :
              /\ t2.child[r][n] # w
              /\ new.child[r][n] = IF t2.child[r][n] = p THEN w ELSE t2.child[r][n]
       /\ Top(new) = IF p = Top(t2) THEN w ELSE Top(t2)
  BY <1>12 DEF Turned
<1>14. PICK sub1 : Shape(new, S, sub1, pos)
  BY <1>12
<1>15. PICK h, B : h = bh[x] /\ B = Black(t, p) /\ B \in Nat
  BY DEF Black
<1>16. /\ h \in Nat /\ bh[w] = h + 1 /\ bh[p] = h + 1 + B
       /\ bh[b] = h /\ bh[c] = h
  <2>1. bh[w] = h + 1 /\ bh[p] = h + 1 + B /\ h \in Nat
    BY <1>2, <1>15
  <2>2. Black(t, w) = 1
    BY DEF Black
  <2>3. bh[w] = bh[b] + 1 + 0 /\ bh[w] = bh[c] + 1 + 0
    BY <1>1, <1>2, <1>3, <1>4, <2>2
  <2>4. bh[b] \in Nat /\ bh[c] \in Nat
    BY <1>2, <1>4, <1>5
  <2>5. QED
    BY <2>1, <2>3, <2>4
<1>17. PICK bh0 : bh0 = [bh EXCEPT ![c] = h + 1]
  OBVIOUS
<1>18. /\ bh0 \in [Nodes \cup {Nil} -> Nat] /\ bh0[c] = h + 1
       /\ \A n \in Nodes \cup {Nil} : n # c => bh0[n] = bh[n]
  BY <1>2, <1>4, <1>5, <1>16, <1>17
<1>19. bh0[Nil] = 0 /\ bh0[x] = h /\ bh0[b] = h /\ bh0[p] = h + 1 + B /\ bh0[w] = h + 1
  <2>1. x # c /\ b # c
    BY <1>1, <1>5
  <2>2. x \in Nodes \cup {Nil} /\ b \in Nodes \cup {Nil} /\ p \in Nodes /\ w \in Nodes
    BY <1>1, <1>2, <1>5
  <2>3. QED
    BY <1>4, <1>5, <1>15, <1>16, <1>18, <2>1, <2>2
<1>20. PICK q, d : q = Root /\ d = "left"
  OBVIOUS
<1>21. PICK hx, hy, bh1 : /\ hx = h + 1 /\ hy = h + 1 + B
                          /\ bh1 = [bh0 EXCEPT ![p] = hx, ![w] = hy]
  OBVIOUS
<1>22. Heights(new, S, bh1, q, d)
  <2>1. Lifts(t2, S, bh0, p, w, s, o, x, b, c, q, d, hx, hy)
    <3>0. p # q /\ w # q /\ \A n \in S : n # q
      BY <1>1, <1>2, <1>20
    <3>1. Black(t2, p) = 1 /\ Black(t2, w) = B
      BY <1>2, <1>10, <1>15 DEF Black
    <3>2. ASSUME NEW n \in S \ {p, w}, NEW r \in Sides
          PROVE  bh0[n] = bh0[t2.child[r][n]] + Black(t2, n) + (IF n = q /\ r = d THEN 1 ELSE 0)
      <4>1. PICK m \in S \cup {Nil} : m = t.child[r][n]
        BY <1>1 DEF Shape, Linked
      <4>2. bh[n] = bh[m] + Black(t, n) + 0
        BY <1>4, <4>1
      <4>3. m # c
        <5>1. m # Nil => t.parent[m] = n
          BY <1>1, <4>1, Child
        <5>2. QED
          BY <1>5, <5>1
      <4>4. bh0[m] = bh[m] /\ bh[m] \in Nat
        BY <1>2, <1>4, <1>18, <4>1, <4>3
      <4>5. bh0[n] = bh[m] + Black(t2, n) + 0
        <5>1. CASE n = c
          <6>1. Black(t, n) = 0 /\ Black(t2, n) = 1
            BY <1>5, <1>10, <5>1 DEF Black
          <6>2. QED
            BY <1>16, <1>18, <4>2, <4>4, <5>1, <6>1
        <5>2. CASE n # c
          <6>1. Black(t2, n) = Black(t, n)
            BY <1>10, <5>2 DEF Black
          <6>2. bh0[n] = bh[n]
            BY <1>2, <1>18, <5>2
          <6>3. QED
            BY <4>2, <6>1, <6>2
        <5>3. QED
          BY <5>1, <5>2
      <4>6. t2.child[r][n] = m
        BY <1>9, <4>1
      <4>7. ~(n = q /\ r = d)
        BY <3>0
      <4>8. QED
        BY <4>4, <4>5, <4>6, <4>7
    <3>3. hx \in Nat /\ hy \in Nat /\ hy = bh0[p]
      BY <1>15, <1>16, <1>19, <1>21
    <3>4. hx = bh0[x] + Black(t2, p) + (IF p = q /\ s = d THEN 1 ELSE 0)
      BY <1>16, <1>19, <1>21, <3>0, <3>1
    <3>5. hx = bh0[b] + Black(t2, p) + (IF p = q /\ o = d THEN 1 ELSE 0)
      BY <1>16, <1>19, <1>21, <3>0, <3>1
    <3>6. hy = hx + Black(t2, w) + (IF w = q /\ s = d THEN 1 ELSE 0)
      BY <1>15, <1>16, <1>21, <3>0, <3>1
    <3>7. hy = bh0[c] + Black(t2, w) + (IF w = q /\ o = d THEN 1 ELSE 0)
      BY <1>15, <1>16, <1>18, <1>21, <3>0, <3>1
    <3>8. bh0 \in [Nodes \cup {Nil} -> Nat] /\ bh0[Nil] = 0
      BY <1>18, <1>19
    <3>9. \A n \in S \ {p, w}, r \in Sides :
             bh0[n] = bh0[t2.child[r][n]] + Black(t2, n) + (IF n = q /\ r = d THEN 1 ELSE 0)
      BY <3>2
    <3>10. QED
      BY <3>3, <3>4, <3>5, <3>6, <3>7, <3>8, <3>9, Zenon DEF Lifts
  <2>2. bh1 = [bh0 EXCEPT ![p] = hx, ![w] = hy]
    BY <1>21
  <2>3. QED
    BY <1>11, <2>1, <2>2, RotateHeights
<1>23. Balanced(new, S, bh1)
  BY <1>14, <1>20, <1>22, Even
<1>24. Clashless(new, S, Nil)
  <2> SUFFICES ASSUME NEW n \in S, NEW r \in Sides, n \in new.red, new.child[r][n] \in new.red
               PROVE  FALSE
    BY DEF Clashless
  <2>1. n # p /\ p \notin new.red /\ c \notin new.red
    BY <1>2, <1>5, <1>10, <1>13
  <2>2. CASE n = w
    <3>1. new.child[r][n] = p \/ new.child[r][n] = c
      BY <1>2, <1>13, <2>2
    <3>2. QED
      BY <2>1, <3>1
  <2>3. CASE n # w
    <3>1. n \in t.red
      BY <1>10, <1>13, <2>3
    <3>2. PICK m : m = t.child[r][n]
      OBVIOUS
    <3>3. m # w /\ new.child[r][n] = IF m = p THEN w ELSE m
      BY <1>9, <1>13, <2>1, <2>3, <3>2
    <3>4. m \in t.red
      <4>1. CASE m = p
        BY <1>10, <1>13, <3>3, <4>1
      <4>2. CASE m # p
        BY <1>10, <1>13, <3>3, <4>2
      <4>3. QED
        BY <4>1, <4>2
    <3>5. QED
      BY <1>1, <1>2, <3>1, <3>2, <3>4 DEF Clashless
  <2>4. QED
    BY <2>2, <2>3
<1>25. Top(new) \notin new.red /\ p \notin new.red /\ Top(t) \notin new.red
  <2>1. Top(new) = IF p = Top(t) THEN w ELSE Top(t)
    BY <1>9, <1>13
  <2>2. CASE p = Top(t)
    <3>1. p \notin t.red
      BY <1>1, <2>2
    <3>2. QED
      BY <1>2, <1>10, <1>13, <2>1, <2>2, <3>1
  <2>3. CASE p # Top(t)
    BY <1>1, <1>2, <1>10, <1>13, <2>1, <2>3
  <2>4. QED
    BY <2>2, <2>3
<1>26. new.red \subseteq S
  BY <1>1, <1>10, <1>13
<1>27. Kept(t, new, S)
  BY <1>9, <1>12 DEF Kept
<1>28. QED
  BY <1>8, <1>14, <1>23, <1>24, <1>25, <1>26, <1>27

\* Two red nodes in a row are x and its parent or its child.
ClashAt(t, S, x) ==
    \A n \in S, r \in Sides :
        n \in t.red /\ t.child[r][n] \in t.red => x \in {n, t.child[r][n]}

(* A sibling with black children becomes red: now the ways through the parent     *)
(* lack a black node.                                                         *)
LEMMA SiblingRed ==
    ASSUME NEW t, NEW S, NEW sub, NEW pos, NEW bh, NEW x, NEW p, NEW s, NEW o, NEW w,
           Short(t, S, sub, pos, bh, x, p, s, o, w), w \notin t.red,
           \A r \in Sides : t.child[r][w] \notin t.red
    PROVE  \E new, bh1 : \E q \in S \cup {Root}, d \in Sides :
               /\ new = Painted(t, {}, {w})
               /\ Shape(new, S, sub, pos) /\ Heights(new, S, bh1, q, d)
               /\ new.red \subseteq S /\ ClashAt(new, S, p)
               /\ Top(new) = Top(t) /\ Top(new) \notin new.red
               /\ new.parent[p] = q /\ new.child[d][q] = p /\ (q = Root => d = "left")
               /\ p \in t.red => p \in new.red
               /\ Kept(t, new, S)
<1>1. /\ Shape(t, S, sub, pos) /\ Heights(t, S, bh, p, s)
      /\ t.red \subseteq S /\ Clashless(t, S, Nil) /\ Top(t) \notin t.red
      /\ x \in (S \cup {Nil}) \ t.red /\ p \in S /\ w \in S
      /\ s \in Sides /\ o \in Sides /\ o # s
      /\ t.parent[x] = p /\ t.child[s][p] = x /\ t.child[o][p] = w
  BY DEF Short
<1>2. /\ S \subseteq Nodes /\ Nil \notin S /\ Root \notin S /\ Opposite(s) = o /\ Opposite(o) = s
      /\ Nil \notin t.red /\ w # Nil /\ w # p /\ x # p /\ x # w
      /\ t.parent[w] = p /\ w # Top(t) /\ p \notin sub[w] /\ w \in sub[w]
      /\ \A r \in Sides : r = s \/ r = o
      /\ bh[x] \in Nat /\ bh[w] = bh[x] + 1 /\ bh[p] = bh[x] + 1 + Black(t, p)
  BY ShortIs
<1>3. /\ bh \in [Nodes \cup {Nil} -> Nat] /\ bh[Nil] = 0
      /\ \A n \in S, r \in Sides :
             bh[n] = bh[t.child[r][n]] + Black(t, n) + (IF n = p /\ r = s THEN 1 ELSE 0)
  BY <1>1 DEF Heights
<1>4. PICK new : new = Painted(t, {}, {w})
  OBVIOUS
<1>5. /\ Shape(new, S, sub, pos)
      /\ new.child = t.child /\ new.parent = t.parent /\ Top(new) = Top(t)
      /\ new.red = (t.red \ {}) \cup {w} /\ Outside(new, S) = Outside(t, S)
  <2>1. {w} \in SUBSET Addresses
    BY <1>1, <1>2 DEF Addresses
  <2>2. Shape(t, S, sub, pos)
    BY <1>1
  <2>3. QED
    BY <1>4, <2>1, <2>2, PaintShape
<1>6. PICK q \in S \cup {Root}, d \in Sides :
         /\ t.parent[p] = q /\ t.child[d][q] = p /\ (q = Root => d = "left")
         /\ q # p /\ (q \in S => p \in sub[q])
  <2>1. /\ t.child[SideOf(t, p)][t.parent[p]] = p /\ SideOf(t, p) \in Sides
        /\ p = Top(t) => t.parent[p] = Root /\ SideOf(t, p) = "left"
        /\ p # Top(t) => t.parent[p] \in S /\ t.parent[p] # p /\ p \in sub[t.parent[p]]
    BY <1>1, ParentOf
  <2>2. CASE p = Top(t)
    BY <1>1, <1>2, <2>1, <2>2
  <2>3. CASE p # Top(t)
    BY <1>2, <2>1, <2>3
  <2>4. QED
    BY <2>2, <2>3
<1>7. q # w
  BY <1>1, <1>2, <1>6
<1>8. PICK h, B : h = bh[x] /\ B = Black(t, p) /\ B \in Nat
  BY DEF Black
<1>9. h \in Nat /\ bh[w] = h + 1 /\ bh[p] = h + 1 + B
  BY <1>2, <1>8
<1>10. PICK bh1 : bh1 = [bh EXCEPT ![w] = h, ![p] = h + B]
  OBVIOUS
<1>11. /\ bh1 \in [Nodes \cup {Nil} -> Nat] /\ bh1[w] = h /\ bh1[p] = h + B
       /\ \A n \in Nodes \cup {Nil} : n # w /\ n # p => bh1[n] = bh[n]
  BY <1>1, <1>2, <1>3, <1>8, <1>9, <1>10
<1>12. Black(new, w) = 0 /\ \A n : n # w => Black(new, n) = Black(t, n)
  BY <1>5 DEF Black
<1>13. ASSUME NEW n \in S, NEW r \in Sides
       PROVE  bh1[n] = bh1[new.child[r][n]] + Black(new, n) + (IF n = q /\ r = d THEN 1 ELSE 0)
  <2>1. PICK m \in S \cup {Nil} : m = t.child[r][n] /\ m = new.child[r][n]
    BY <1>1, <1>5 DEF Shape, Linked
  <2>2. bh[m] \in Nat /\ m \in Nodes \cup {Nil}
    BY <1>2, <1>3
  <2>3. CASE n = p
    <3>1. m = x \/ m = w
      BY <1>1, <1>2, <2>1, <2>3
    <3>2. bh1[m] = h
      BY <1>1, <1>2, <1>8, <1>11, <2>2, <3>1
    <3>3. Black(new, n) = B
      BY <1>2, <1>8, <1>12, <2>3
    <3>4. ~(n = q /\ r = d)
      BY <1>6, <2>3
    <3>5. QED
      BY <1>8, <1>9, <1>11, <2>1, <2>3, <3>2, <3>3, <3>4
  <2>4. CASE n = w
    <3>1. m # w /\ m # p
      <4>1. m = t.child[r][w]
        BY <2>1, <2>4
      <4>2. t.child[r][w] # Nil => /\ t.child[r][w] \in sub[t.child[r][w]]
                                   /\ sub[t.child[r][w]] \subseteq sub[w]
                                   /\ t.child[r][w] # w
        BY <1>1, Child
      <4>3. m # Nil => m \in sub[m] /\ sub[m] \subseteq sub[w] /\ m # w
        BY <4>1, <4>2
      <4>4. w # Nil /\ p # Nil /\ p \notin sub[w]
        BY <1>1, <1>2
      <4>5. QED
        BY <4>3, <4>4
    <3>2. bh[w] = bh[m] + 1 + 0
      <4>1. Black(t, w) = 1
        BY DEF Black
      <4>2. m = t.child[r][w]
        BY <2>1, <2>4
      <4>3. bh[w] = bh[t.child[r][w]] + Black(t, w) + (IF w = p /\ r = s THEN 1 ELSE 0)
        BY <1>1, <1>3
      <4>4. w # p
        BY <1>2
      <4>5. QED
        BY <4>1, <4>2, <4>3, <4>4
    <3>3. bh1[m] = bh[m]
      BY <1>11, <2>2, <3>1
    <3>4. ~(n = q /\ r = d)
      BY <1>7, <2>4
    <3>5. bh1[m] = h
      <4>1. h + 1 = bh[m] + 1 + 0 /\ bh[m] \in Nat /\ h \in Nat
        BY <1>9, <2>2, <3>2
      <4>2. QED
        BY <3>3, <4>1
    <3>6. bh1[n] = h /\ Black(new, n) = 0 /\ h \in Nat
      BY <1>9, <1>11, <1>12, <2>4
    <3>7. QED
      BY <2>1, <3>4, <3>5, <3>6
  <2>5. CASE n # p /\ n # w
    <3>1. m # w
      <4>1. t.child[r][n] # Nil => t.parent[t.child[r][n]] = n
        BY <1>1, Child
      <4>2. m # Nil => t.parent[m] = n
        BY <2>1, <4>1
      <4>3. QED
        BY <1>2, <2>5, <4>2
    <3>2. bh[n] = bh[m] + Black(t, n) + 0
      BY <1>3, <2>1, <2>5
    <3>3. bh1[n] = bh[n] /\ Black(new, n) = Black(t, n) /\ Black(t, n) \in Nat
      BY <1>2, <1>11, <1>12, <2>5 DEF Black
    <3>4. CASE m = p
      <4>1. n = q /\ r = d
        <5>1. t.parent[m] = n /\ SideOf(t, m) = r
          <6>1. t.child[r][n] # Nil
            BY <1>1, <1>2, <2>1, <3>4
          <6>2. t.parent[t.child[r][n]] = n /\ SideOf(t, t.child[r][n]) = r
            BY <1>1, <6>1, OneParent
          <6>3. QED
            BY <2>1, <6>2
        <5>2. SideOf(t, p) = d
          <6>1. t.child[d][q] = p /\ t.child[d][q] # Nil
            BY <1>1, <1>2, <1>6
          <6>2. SideOf(t, t.child[d][q]) = d
            BY <1>1, <6>1, OneParent
          <6>3. QED
            BY <6>1, <6>2
        <5>3. QED
          BY <1>6, <3>4, <5>1, <5>2
      <4>2. QED
        BY <1>8, <1>9, <1>11, <2>1, <3>2, <3>3, <3>4, <4>1
    <3>5. CASE m # p
      <4>1. ~(n = q /\ r = d)
        BY <1>6, <2>1, <3>5
      <4>2. bh1[m] = bh[m]
        BY <1>11, <2>2, <3>1, <3>5
      <4>3. QED
        BY <2>1, <3>2, <3>3, <4>1, <4>2
    <3>6. QED
      BY <3>4, <3>5
  <2>6. QED
    BY <2>3, <2>4, <2>5
<1>14. bh1[Nil] = 0
  BY <1>1, <1>2, <1>3, <1>11
<1>15. Heights(new, S, bh1, q, d)
  BY <1>11, <1>13, <1>14 DEF Heights
<1>16. ClashAt(new, S, p)
  <2> SUFFICES ASSUME NEW n \in S, NEW r \in Sides, n \in new.red, t.child[r][n] \in new.red
               PROVE  p = n
    BY <1>5 DEF ClashAt
  <2>1. CASE n = w
    <3>1. t.child[r][w] # w
      BY <1>1, <1>2, Child
    <3>2. QED
      BY <1>5, <2>1, <3>1
  <2>2. CASE n # w
    <3>1. t.child[r][n] \notin t.red
      BY <1>1, <1>2, <1>5, <2>2 DEF Clashless
    <3>2. t.child[r][n] = w
      BY <1>5, <3>1
    <3>3. t.parent[t.child[r][n]] = n
      BY <1>1, <1>2, <3>2, Child
    <3>4. QED
      BY <1>2, <3>2, <3>3
  <2>3. QED
    BY <2>1, <2>2
<1>17. new.red \subseteq S /\ Top(new) \notin new.red /\ (p \in t.red => p \in new.red)
  BY <1>1, <1>2, <1>5
<1>18. new.parent[p] = q /\ new.child[d][q] = p
  BY <1>5, <1>6
<1>19. Kept(t, new, S)
  BY <1>5 DEF Kept
<1>20. QED
  BY <1>4, <1>5, <1>6, <1>15, <1>16, <1>17, <1>18, <1>19

(* Before the n-th round of a deletion: the ways down through x lack a black     *)
(* node.  `top' was the root when the loop began.                            *)
Lacking(t, S, pos, x, n, out, top) ==
    \E sub, bh, p, s :
        /\ Shape(t, S, sub, pos) /\ Heights(t, S, bh, p, s)
        /\ t.red \subseteq S /\ ClashAt(t, S, x) /\ (Top(t) \in t.red => Top(t) = x)
        /\ x \in S \cup {Nil} /\ p \in S \cup {Root} /\ s \in Sides
        /\ t.parent[x] = p /\ t.child[s][p] = x /\ (p = Root => s = "left")
        /\ x \in t.red \/ x = top \/ Cardinality(sub[x]) >= n
        /\ x \in t.red \/ top = Top(t)
        /\ Outside(t, S) = out

\* After the last rotation: the code sets x to the root to leave the loop.
Mended(t, S, pos, x, out, top) ==
    \E sub, bh :
        /\ Shape(t, S, sub, pos) /\ Balanced(t, S, bh)
        /\ t.red \subseteq S /\ Clashless(t, S, Nil) /\ Top(t) \notin t.red
        /\ x = top /\ top \notin t.red /\ Outside(t, S) = out

(* A round that does anything is at a node which is not the root, and so has *)
(* a sibling.                                                                *)
LEMMA LackingShort ==
    ASSUME NEW t, NEW S, NEW pos, NEW x, NEW n, NEW out, NEW top,
           Lacking(t, S, pos, x, n, out, top), x \notin t.red, x # top
    PROVE  \E sub, bh, p, s, o, w :
               /\ Short(t, S, sub, pos, bh, x, p, s, o, w) /\ s = SideOf(t, x)
               /\ Cardinality(sub[x]) >= n /\ top = Top(t) /\ Outside(t, S) = out
<1>1. PICK sub, bh, p, s :
        /\ Shape(t, S, sub, pos) /\ Heights(t, S, bh, p, s)
        /\ t.red \subseteq S /\ ClashAt(t, S, x) /\ (Top(t) \in t.red => Top(t) = x)
        /\ x \in S \cup {Nil} /\ p \in S \cup {Root} /\ s \in Sides
        /\ t.parent[x] = p /\ t.child[s][p] = x /\ (p = Root => s = "left")
        /\ x \in t.red \/ x = top \/ Cardinality(sub[x]) >= n
        /\ x \in t.red \/ top = Top(t)
        /\ Outside(t, S) = out
  BY DEF Lacking
<1>2. p \in S
  <2>1. p # Root
    BY <1>1 DEF Top
  <2>2. QED
    BY <1>1, <2>1
<1>3. PICK o : o = Opposite(s) /\ o \in Sides /\ o # s
  BY <1>1, SidesAre
<1>4. PICK w \in S \cup {Nil} : w = t.child[o][p]
  BY <1>1, <1>2, <1>3 DEF Shape, Linked
<1>5. w \in S
  <2>1. /\ bh \in [Nodes \cup {Nil} -> Nat] /\ bh[Nil] = 0
        /\ \A m \in S, r \in Sides :
               bh[m] = bh[t.child[r][m]] + Black(t, m) + (IF m = p /\ r = s THEN 1 ELSE 0)
    BY <1>1 DEF Heights
  <2>2. bh[p] = bh[x] + Black(t, p) + 1
    BY <1>1, <1>2, <2>1
  <2>3. bh[p] = bh[w] + Black(t, p) + 0
    BY <1>2, <1>3, <1>4, <2>1
  <2>4. S \subseteq Nodes
    BY <1>1 DEF Shape, Placed
  <2>5. bh[x] \in Nat /\ bh[w] \in Nat /\ Black(t, p) \in Nat
    BY <1>1, <1>4, <2>1, <2>4 DEF Black
  <2>6. bh[w] # 0
    BY <2>2, <2>3, <2>5
  <2>7. QED
    BY <1>4, <2>1, <2>6
<1>6. Clashless(t, S, Nil)
  BY <1>1 DEF ClashAt, Clashless
<1>7. Short(t, S, sub, pos, bh, x, p, s, o, w)
  BY <1>1, <1>2, <1>3, <1>4, <1>5, <1>6 DEF Short
<1>8. s = SideOf(t, x)
  <2>1. x # w
    BY <1>7, ShortIs
  <2>2. CASE s = "left"
    BY <1>1, <2>2 DEF SideOf
  <2>3. CASE s # "left"
    <3>1. s = "right" /\ o = "left"
      BY <1>1, <1>3, <2>3 DEF Sides
    <3>2. QED
      BY <1>1, <1>4, <2>1, <3>1 DEF SideOf
  <2>4. QED
    BY <2>2, <2>3
<1>9. QED
  BY <1>1, <1>7, <1>8

\* After the first step of a round the sibling is black.
LEMMA SiblingBlack ==
    ASSUME NEW t, NEW S, NEW sub, NEW pos, NEW bh, NEW x, NEW p, NEW s, NEW o, NEW u,
           Short(t, S, sub, pos, bh, x, p, s, o, u)
    PROVE  \E new, sub1, bh1, w :
               /\ new = RedSiblingUp(t, x, s)
               /\ Short(new, S, sub1, pos, bh1, x, p, s, o, w) /\ w \notin new.red
               /\ p \in new.red \/ (sub1 = sub /\ Top(new) = Top(t))
               /\ Top(t) \in {p, Top(new)} /\ Kept(t, new, S)
<1>1. t.parent[x] = p /\ t.child[Opposite(s)][p] = u
  <2>1. t.parent[x] = p /\ t.child[o][p] = u
    BY DEF Short
  <2>2. Opposite(s) = o
    BY ShortIs
  <2>3. QED
    BY <2>1, <2>2
<1>2. RedSiblingUp(t, x, s) = IF u \in t.red THEN Rotate(Painted(t, {u}, {p}), p, s) ELSE t
  BY <1>1 DEF RedSiblingUp
<1>3. CASE u \in t.red
  <2>1. PICK new, w : /\ new = Rotate(Painted(t, {u}, {p}), p, s) /\ p \in new.red
                      /\ StillShort(t, new, S, pos, x, p, s, o, w)
    BY <1>3, RedSibling
  <2>2. new = RedSiblingUp(t, x, s)
    BY <1>2, <1>3, <2>1
  <2>3. PICK sub1, bh1 :
          /\ Short(new, S, sub1, pos, bh1, x, p, s, o, w) /\ w \notin new.red
          /\ Top(t) \in {p, Top(new)} /\ Kept(t, new, S)
    BY <2>1 DEF StillShort
  <2>4. QED
    BY <2>1, <2>2, <2>3
<1>4. CASE u \notin t.red
  <2>1. RedSiblingUp(t, x, s) = t
    BY <1>2, <1>4
  <2>2. Kept(t, t, S)
    BY DEF Kept
  <2>3. QED
    BY <1>4, <2>1, <2>2
<1>5. QED
  BY <1>3, <1>4

(* A sibling with a red child: after at most two rotations nothing is short  *)
(* any more.                                                                 *)
LEMMA NephewUp ==
    ASSUME NEW t, NEW S, NEW sub, NEW pos, NEW bh, NEW x, NEW p, NEW s, NEW o, NEW w,
           Short(t, S, sub, pos, bh, x, p, s, o, w), w \notin t.red,
           \E r \in Sides : t.child[r][w] \in t.red
    PROVE  \E new, sub1, bh1 :
               /\ new = Rebalanced(RedNephewOut(t, w, s), x, s)
               /\ Shape(new, S, sub1, pos) /\ Balanced(new, S, bh1)
               /\ new.red \subseteq S /\ Clashless(new, S, Nil) /\ Top(new) \notin new.red
               /\ p \notin new.red /\ Top(t) \notin new.red
               /\ Kept(t, new, S)
<1>1. Opposite(s) = o /\ \A r \in Sides : r = s \/ r = o
  BY ShortIs
<1>2. RedNephewOut(t, w, s) = IF t.child[o][w] \in t.red THEN t
                              ELSE Rotate(Painted(t, {t.child[s][w]}, {w}), w, o)
  BY <1>1 DEF RedNephewOut
<1>3. CASE t.child[o][w] \in t.red
  <2>1. RedNephewOut(t, w, s) = t
    BY <1>2, <1>3
  <2>2. QED
    BY <1>3, <2>1, SiblingUp
<1>4. CASE t.child[o][w] \notin t.red
  <2>1. PICK z : z = t.child[s][w] /\ z \in t.red
    BY <1>1, <1>4
  <2>2. t.child[s][w] = z
    BY <2>1
  <2>3. PICK t1 : /\ t1 = Rotate(Painted(t, {z}, {w}), w, o)
                  /\ t1.child[o][z] \in t1.red
                  /\ StillShort(t, t1, S, pos, x, p, s, o, z)
    BY <1>4, <2>1, <2>2, NephewOut
  <2>a. PICK sub1, bh1 :
          /\ Short(t1, S, sub1, pos, bh1, x, p, s, o, z) /\ z \notin t1.red
          /\ Top(t) \in {p, Top(t1)} /\ Kept(t, t1, S)
    BY <2>3 DEF StillShort
  <2>4. RedNephewOut(t, w, s) = t1
    BY <1>2, <1>4, <2>1, <2>3
  <2>5. PICK new, sub2, bh2 :
               /\ new = Rebalanced(t1, x, s)
               /\ Shape(new, S, sub2, pos) /\ Balanced(new, S, bh2)
               /\ new.red \subseteq S /\ Clashless(new, S, Nil) /\ Top(new) \notin new.red
               /\ p \notin new.red /\ Top(t1) \notin new.red
               /\ Kept(t1, new, S)
    BY <2>3, <2>a, SiblingUp
  <2>6. new = Rebalanced(RedNephewOut(t, w, s), x, s)
    BY <2>4, <2>5
  <2>7. Top(t) \notin new.red /\ Kept(t, new, S)
    BY <2>a, <2>5 DEF Kept
  <2>8. QED
    BY <2>5, <2>6, <2>7
<1>5. QED
  BY <1>3, <1>4

\* A round of the loop of a deletion moves the lack one node up, or ends it.
LEMMA DeleteStep ==
    ASSUME NEW t, NEW S, NEW pos, NEW x, NEW n \in Nat, NEW out, NEW top,
           Lacking(t, S, pos, x, n, out, top)
    PROVE  \E t1, x1 : /\ DeleteRound(t, x, top) = <<t1, x1>>
                       /\ \/ Lacking(t1, S, pos, x1, n + 1, out, top)
                          \/ Mended(t1, S, pos, x1, out, top)
<1>1. CASE x \in t.red \/ x = top
  <2>1. DeleteRound(t, x, top) = <<t, x>>
    BY <1>1 DEF DeleteRound
  <2>2. Lacking(t, S, pos, x, n + 1, out, top)
    BY <1>1 DEF Lacking
  <2>3. QED
    BY <2>1, <2>2
<1>2. CASE ~(x \in t.red \/ x = top)
  <2>1. PICK sub, bh, p, s, o, u :
               /\ Short(t, S, sub, pos, bh, x, p, s, o, u) /\ s = SideOf(t, x)
               /\ Cardinality(sub[x]) >= n /\ top = Top(t) /\ Outside(t, S) = out
    BY <1>2, LackingShort
  <2>2. PICK t1, sub1, bh1, w :
               /\ t1 = RedSiblingUp(t, x, s)
               /\ Short(t1, S, sub1, pos, bh1, x, p, s, o, w) /\ w \notin t1.red
               /\ p \in t1.red \/ (sub1 = sub /\ Top(t1) = Top(t))
               /\ Top(t) \in {p, Top(t1)} /\ Kept(t, t1, S)
    BY <2>1, SiblingBlack
  <2>3. t1.parent[x] = p /\ t1.child[Opposite(s)][p] = w
    <3>1. t1.parent[x] = p /\ t1.child[o][p] = w
      BY <2>2 DEF Short
    <3>2. Opposite(s) = o
      BY <2>2, ShortIs
    <3>3. QED
      BY <3>1, <3>2
  <2>4. PICK black : black <=> \A r \in Sides : t1.child[r][w] \notin t1.red
    OBVIOUS
  <2>5. {t1.child["left"][w], t1.child["right"][w]} \cap t1.red = {} <=> black
    BY <2>4 DEF Sides
  <2>6. DeleteRound(t, x, top) = IF black THEN <<Painted(t1, {}, {w}), p>>
                                 ELSE <<Rebalanced(RedNephewOut(t1, w, s), x, s), top>>
    BY <1>2, <2>1, <2>2, <2>3, <2>5, Zenon DEF DeleteRound
  <2>7. CASE black
    <3>1. PICK new, bh2 : \E q \in S \cup {Root}, d \in Sides :
               /\ new = Painted(t1, {}, {w})
               /\ Shape(new, S, sub1, pos) /\ Heights(new, S, bh2, q, d)
               /\ new.red \subseteq S /\ ClashAt(new, S, p)
               /\ Top(new) = Top(t1) /\ Top(new) \notin new.red
               /\ new.parent[p] = q /\ new.child[d][q] = p /\ (q = Root => d = "left")
               /\ p \in t1.red => p \in new.red
               /\ Kept(t1, new, S)
      BY <2>2, <2>4, <2>7, SiblingRed
    <3>2. PICK q \in S \cup {Root}, d \in Sides :
               /\ new = Painted(t1, {}, {w})
               /\ Shape(new, S, sub1, pos) /\ Heights(new, S, bh2, q, d)
               /\ new.red \subseteq S /\ ClashAt(new, S, p)
               /\ Top(new) = Top(t1) /\ Top(new) \notin new.red
               /\ new.parent[p] = q /\ new.child[d][q] = p /\ (q = Root => d = "left")
               /\ p \in t1.red => p \in new.red
               /\ Kept(t1, new, S)
      BY <3>1
    <3>3. p \in new.red \/ Cardinality(sub1[p]) >= n + 1
      <4>1. CASE p \in t1.red
        BY <3>2, <4>1
      <4>2. CASE p \notin t1.red
        <5>1. sub1 = sub
          BY <2>2, <4>2
        <5>2. /\ Shape(t, S, sub, pos) /\ p \in S /\ s \in Sides /\ t.child[s][p] = x
              /\ x \in S \cup {Nil}
          BY <2>1 DEF Short
        <5>3. Cardinality(sub[t.child[s][p]]) < Cardinality(sub[p])
          BY <5>2, Sizes
        <5>4. Cardinality(sub[p]) \in Nat /\ Cardinality(sub[x]) \in Nat
          BY <5>2, Sizes
        <5>5. Cardinality(sub[p]) >= n + 1
          BY <2>1, <5>2, <5>3, <5>4
        <5>6. QED
          BY <5>1, <5>5
      <4>3. QED
        BY <4>1, <4>2
    <3>4. p \in new.red \/ top = Top(new)
      BY <2>1, <2>2, <3>2
    <3>5. p \in S
      BY <2>2 DEF Short
    <3>6. Outside(new, S) = out
      BY <2>1, <2>2, <3>2 DEF Kept
    <3>7. Lacking(new, S, pos, p, n + 1, out, top)
      BY <3>2, <3>3, <3>4, <3>5, <3>6 DEF Lacking
    <3>8. DeleteRound(t, x, top) = <<new, p>>
      BY <2>6, <2>7, <3>2
    <3>9. QED
      BY <3>7, <3>8
  <2>8. CASE ~black
    <3>1. PICK new, sub2, bh2 :
               /\ new = Rebalanced(RedNephewOut(t1, w, s), x, s)
               /\ Shape(new, S, sub2, pos) /\ Balanced(new, S, bh2)
               /\ new.red \subseteq S /\ Clashless(new, S, Nil) /\ Top(new) \notin new.red
               /\ p \notin new.red /\ Top(t1) \notin new.red
               /\ Kept(t1, new, S)
      BY <2>2, <2>4, <2>8, NephewUp
    <3>2. top \notin new.red
      BY <2>1, <2>2, <3>1
    <3>3. Outside(new, S) = out
      BY <2>1, <2>2, <3>1 DEF Kept
    <3>4. Mended(new, S, pos, top, out, top)
      BY <3>1, <3>2, <3>3 DEF Mended
    <3>5. DeleteRound(t, x, top) = <<new, top>>
      BY <2>6, <2>8, <3>1
    <3>6. QED
      BY <3>4, <3>5
  <2>9. QED
    BY <2>7, <2>8
<1>3. QED
  BY <1>1, <1>2

\* A red x at the missing black node is painted black.
LEMMA PaintLack ==
    ASSUME NEW t, NEW S, NEW pos, NEW x, NEW n, NEW out, NEW top,
           Lacking(t, S, pos, x, n, out, top), x \in t.red
    PROVE  /\ RedBlackTree(Painted(t, {x}, {}), S, pos)
           /\ Outside(Painted(t, {x}, {}), S) = out
<1>1. PICK sub, bh, p, s :
        /\ Shape(t, S, sub, pos) /\ Heights(t, S, bh, p, s)
        /\ t.red \subseteq S /\ ClashAt(t, S, x) /\ (Top(t) \in t.red => Top(t) = x)
        /\ p \in S \cup {Root} /\ s \in Sides
        /\ t.parent[x] = p /\ t.child[s][p] = x
        /\ Outside(t, S) = out
  BY DEF Lacking
<1>2. PICK new : new = Painted(t, {x}, {})
  OBVIOUS
<1>3. /\ Shape(new, S, sub, pos) /\ new.child = t.child /\ Top(new) = Top(t)
      /\ new.red = (t.red \ {x}) \cup {} /\ Outside(new, S) = Outside(t, S)
  <2>1. {} \in SUBSET Addresses
    OBVIOUS
  <2>2. Shape(t, S, sub, pos)
    BY <1>1
  <2>3. QED
    BY <1>2, <2>1, <2>2, PaintShape
<1>4. S \subseteq Nodes /\ Nil \notin S /\ x \in S /\ x # Nil
  BY <1>1, Distinct DEF Shape, Placed
<1>5. Clashless(new, S, Nil) /\ new.red \subseteq S /\ Top(new) \notin new.red
  BY <1>1, <1>3 DEF Clashless, ClashAt
<1>6. PICK h : h = bh[x]
  OBVIOUS
<1>7. PICK bh1 : bh1 = [bh EXCEPT ![x] = h + 1]
  OBVIOUS
<1>8. /\ bh \in [Nodes \cup {Nil} -> Nat] /\ bh[Nil] = 0
      /\ \A m \in S, r \in Sides :
             bh[m] = bh[t.child[r][m]] + Black(t, m) + (IF m = p /\ r = s THEN 1 ELSE 0)
  BY <1>1 DEF Heights
<1>9. /\ bh1 \in [Nodes \cup {Nil} -> Nat] /\ bh1[x] = h + 1 /\ h \in Nat
      /\ \A m \in Nodes \cup {Nil} : m # x => bh1[m] = bh[m]
  BY <1>4, <1>6, <1>7, <1>8
<1>10. ASSUME NEW m \in S, NEW r \in Sides
       PROVE  bh1[m] = bh1[new.child[r][m]] + Black(new, m)
  <2>1. PICK c \in S \cup {Nil} : c = t.child[r][m] /\ c = new.child[r][m]
    BY <1>1, <1>3 DEF Shape, Linked
  <2>2. bh[m] = bh[c] + Black(t, m) + (IF m = p /\ r = s THEN 1 ELSE 0) /\ bh[c] \in Nat
    BY <1>4, <1>8, <2>1
  <2>3. Black(t, m) \in Nat
    BY DEF Black
  <2>4. c = x <=> m = p /\ r = s
    <3>1. ASSUME c = x PROVE m = p /\ r = s
      <4>1. t.child[r][m] # Nil
        BY <1>4, <2>1, <3>1
      <4>2. t.parent[t.child[r][m]] = m /\ SideOf(t, t.child[r][m]) = r
        BY <1>1, <4>1, OneParent
      <4>3. t.child[s][p] # Nil
        BY <1>1, <1>4
      <4>4. SideOf(t, t.child[s][p]) = s
        BY <1>1, <4>3, OneParent
      <4>5. QED
        BY <1>1, <2>1, <3>1, <4>2, <4>4
    <3>2. QED
      BY <1>1, <2>1, <3>1
  <2>5. CASE m = x
    <3>1. c # x
      <4>1. t.child[r][m] # Nil => t.child[r][m] # m
        BY <1>1, Child
      <4>2. QED
        BY <1>4, <2>1, <2>5, <4>1
    <3>2. bh1[c] = bh[c] /\ bh1[m] = bh[m] + 1
      BY <1>4, <1>6, <1>9, <2>5, <3>1
    <3>3. Black(t, m) = 0 /\ Black(new, m) = 1
      BY <1>3, <2>5 DEF Black
    <3>4. QED
      BY <2>1, <2>2, <2>4, <3>1, <3>2, <3>3
  <2>6. CASE m # x
    <3>1. Black(new, m) = Black(t, m)
      BY <1>3, <2>6 DEF Black
    <3>2. bh1[m] = bh[m]
      BY <1>4, <1>9, <2>6
    <3>3. CASE c = x
      <4>1. bh[m] = h + Black(t, m) + 1
        BY <1>6, <2>2, <2>4, <3>3
      <4>2. bh1[c] = h + 1
        BY <1>9, <3>3
      <4>3. QED
        BY <1>9, <2>1, <2>3, <3>1, <3>2, <4>1, <4>2
    <3>4. CASE c # x
      <4>1. bh1[c] = bh[c]
        BY <1>4, <1>9, <3>4
      <4>2. QED
        BY <2>1, <2>2, <2>3, <2>4, <3>1, <3>2, <3>4, <4>1
    <3>5. QED
      BY <3>3, <3>4
  <2>7. QED
    BY <2>5, <2>6
<1>11. bh1[Nil] = 0
  BY <1>4, <1>8, <1>9
<1>12. Balanced(new, S, bh1)
  BY <1>9, <1>10, <1>11 DEF Balanced
<1>13. RedBlackTree(new, S, pos)
  BY <1>3, <1>5, <1>12 DEF RedBlackTree
<1>14. QED
  BY <1>1, <1>2, <1>3, <1>13

(* When the loop is over, painting the node black makes up for what it       *)
(* lacks.                                                                    *)
LEMMA LackingEnds ==
    ASSUME NEW t, NEW S, NEW pos, NEW x, NEW out, NEW top,
           Lacking(t, S, pos, x, Rounds, out, top) \/ Mended(t, S, pos, x, out, top)
    PROVE  /\ RedBlackTree(Painted(t, {x}, {}), S, pos)
           /\ Outside(Painted(t, {x}, {}), S) = out
<1>1. CASE Mended(t, S, pos, x, out, top)
  <2>1. PICK sub, bh :
        /\ Shape(t, S, sub, pos) /\ Balanced(t, S, bh)
        /\ t.red \subseteq S /\ Clashless(t, S, Nil) /\ Top(t) \notin t.red
        /\ x \notin t.red /\ Outside(t, S) = out
    BY <1>1 DEF Mended
  <2>2. Painted(t, {x}, {}) = Painted(t, {Top(t)}, {})
    <3>1. (t.red \ {x}) \cup {} = (t.red \ {Top(t)}) \cup {}
      BY <2>1
    <3>2. QED
      BY <3>1 DEF Painted
  <2>3. QED
    BY <2>1, <2>2, BlackTop
<1>2. CASE Lacking(t, S, pos, x, Rounds, out, top)
  <2>1. PICK sub, bh, p, s :
        /\ Shape(t, S, sub, pos) /\ Heights(t, S, bh, p, s)
        /\ t.red \subseteq S /\ ClashAt(t, S, x)
        /\ x \in S \cup {Nil}
        /\ t.parent[x] = p /\ t.child[s][p] = x /\ (p = Root => s = "left") /\ p \in S \cup {Root}
        /\ s \in Sides
        /\ x \in t.red \/ x = top \/ Cardinality(sub[x]) >= Rounds
        /\ x \in t.red \/ top = Top(t)
        /\ Outside(t, S) = out
    BY <1>2 DEF Lacking
  <2>2. x \in t.red \/ x = Top(t)
    <3>1. Cardinality(sub[x]) \in Nat /\ Cardinality(sub[x]) < Rounds /\ Rounds \in Nat
      BY <2>1, Sizes, RoundsType
    <3>2. QED
      BY <2>1, <3>1
  <2>3. CASE x \in t.red
    BY <1>2, <2>3, PaintLack
  <2>4. CASE x \notin t.red
    <3>1. x = Top(t)
      BY <2>2, <2>4
    <3>2. p = Root /\ s = "left"
      <4>1. CASE x = Nil
        <5>1. S = {}
          BY <2>1, <3>1, <4>1 DEF Shape, Rooted, Placed
        <5>2. QED
          BY <2>1, <5>1
      <4>2. CASE x # Nil
        BY <2>1, <3>1, <4>2 DEF Shape, Rooted
      <4>3. QED
        BY <4>1, <4>2
    <3>3. Balanced(t, S, bh)
      <4>1. Heights(t, S, bh, Root, "left") /\ Shape(t, S, sub, pos)
        BY <2>1, <3>2
      <4>2. QED
        BY <4>1, Even
    <3>4. Clashless(t, S, Nil)
      BY <2>1, <2>4 DEF ClashAt, Clashless
    <3>5. /\ RedBlackTree(Painted(t, {Top(t)}, {}), S, pos)
          /\ Outside(Painted(t, {Top(t)}, {}), S) = Outside(t, S)
      <4>1. Shape(t, S, sub, pos) /\ t.red \subseteq S
        BY <2>1
      <4>2. QED
        BY <3>3, <3>4, <4>1, BlackTop
    <3>6. QED
      BY <2>1, <3>1, <3>5
  <2>5. QED
    BY <2>3, <2>4
<1>3. QED
  BY <1>1, <1>2

DeleteRounds(top) == [at \in Trees \X (Nodes \cup {Nil}) |-> DeleteRound(at[1], at[2], top)]

(* The loop of a deletion is over when the rounds are: the node's subtree is *)
(* larger each time.                                                         *)
LEMMA DeleteLoop ==
    ASSUME NEW t, NEW S, NEW pos, NEW x, NEW out, NEW top \in Nodes \cup {Nil},
           Lacking(t, S, pos, x, 0, out, top)
    PROVE  \E t1, x1 : /\ Loop(DeleteRounds(top), <<t, x>>) = <<t1, x1>>
                       /\ \/ Lacking(t1, S, pos, x1, Rounds, out, top)
                          \/ Mended(t1, S, pos, x1, out, top)
<1> DEFINE Good(t1, x1, n) == Lacking(t1, S, pos, x1, n, out, top) \/ Mended(t1, S, pos, x1, out, top)
           At(n) == {at \in Trees \X (Nodes \cup {Nil}) : Good(at[1], at[2], n)}
           stage == [n \in Nat |-> At(n)]
<1>1. \A t1, x1, n : Good(t1, x1, n) => <<t1, x1>> \in Trees \X (Nodes \cup {Nil})
  BY DEF Lacking, Mended, Shape, Placed
<1>2. <<t, x>> \in At(0)
  BY <1>1
<1>3. ASSUME NEW n \in Nat, NEW at \in At(n) PROVE DeleteRounds(top)[at] \in At(n + 1)
  <2>1. PICK t1, x1 : at = <<t1, x1>> /\ Good(t1, x1, n) /\ at \in Trees \X (Nodes \cup {Nil})
    BY <1>3
  <2>2. PICK t2, x2 : DeleteRound(t1, x1, top) = <<t2, x2>> /\ Good(t2, x2, n + 1)
    <3>1. CASE Lacking(t1, S, pos, x1, n, out, top)
      BY <3>1, DeleteStep
    <3>2. CASE Mended(t1, S, pos, x1, out, top)
      <4>1. x1 = top
        BY <3>2 DEF Mended
      <4>2. DeleteRound(t1, x1, top) = <<t1, x1>>
        BY <4>1 DEF DeleteRound
      <4>3. QED
        BY <3>2, <4>2
    <3>3. QED
      BY <2>1, <3>1, <3>2
  <2>3. DeleteRounds(top)[at] = DeleteRound(t1, x1, top)
    BY <2>1 DEF DeleteRounds
  <2>4. <<t2, x2>> \in Trees \X (Nodes \cup {Nil})
    BY <1>1, <2>2
  <2>5. <<t2, x2>> \in At(n + 1)
    BY <2>2, <2>4
  <2> HIDE DEF At
  <2>6. QED
    BY <2>2, <2>3, <2>5
<1>4. Loop(DeleteRounds(top), <<t, x>>) \in stage[Rounds]
  <2>1. <<t, x>> \in stage[0] /\ \A n \in Nat : stage[n] = At(n) /\ stage[n + 1] = At(n + 1)
    BY <1>2
  <2>2. \A n \in Nat : \A at \in stage[n] : DeleteRounds(top)[at] \in stage[n + 1]
    <3> HIDE DEF At, stage
    <3>1. QED
      BY <1>3, <2>1
  <2> HIDE DEF At, stage
  <2>3. QED
    BY <2>1, <2>2, LoopInduction
<1>5. Loop(DeleteRounds(top), <<t, x>>) \in At(Rounds)
  BY <1>4, RoundsType
<1>6. PICK at : at = Loop(DeleteRounds(top), <<t, x>>) /\ at \in At(Rounds)
  <2> HIDE DEF At
  <2>1. QED
    BY <1>5
<1>7. PICK t1, x1 : at = <<t1, x1>> /\ Good(t1, x1, Rounds)
  BY <1>6
<1>8. QED
  BY <1>6, <1>7

(* _rb_tree_delete: of a tree that lacks a black node on the ways through x  *)
(* it makes a red-black tree.                                                *)
LEMMA DeletedIs ==
    ASSUME NEW t, NEW S, NEW pos, NEW x, NEW out, Lacking(t, S, pos, x, 0, out, Top(t))
    PROVE  /\ RedBlackTree(_rb_tree_delete(t, x), S, pos)
           /\ Outside(_rb_tree_delete(t, x), S) = out
<1>1. PICK top : top = Top(t)
  OBVIOUS
<1>2. top \in Nodes \cup {Nil} /\ Lacking(t, S, pos, x, 0, out, top)
  BY <1>1 DEF Lacking, Shape, Rooted, Placed
<1>3. PICK t1, x1 : /\ Loop(DeleteRounds(top), <<t, x>>) = <<t1, x1>>
                    /\ \/ Lacking(t1, S, pos, x1, Rounds, out, top)
                       \/ Mended(t1, S, pos, x1, out, top)
  BY <1>2, DeleteLoop
<1>4. _rb_tree_delete(t, x) = Painted(t1, {x1}, {})
  <2>1. PICK after : after = Loop(DeleteRounds(Top(t)), <<t, x>>)
    OBVIOUS
  <2>2. _rb_tree_delete(t, x) = Painted(after[1], {after[2]}, {})
    BY <2>1, Zenon DEF _rb_tree_delete, DeleteRounds
  <2>3. after = <<t1, x1>>
    BY <1>1, <1>3, <2>1
  <2>4. QED
    BY <2>2, <2>3
<1>5. QED
  BY <1>3, <1>4, LackingEnds

-----------------------------------------------------------------------------
(* The node that is spliced out.                                             *)

(* y hangs on side s from q, and has no other child than x, on side r, that is   *)
(* a node.                                                                    *)
Splicing(t, new, S, sub, pos, x, y, q, s, r) ==
    /\ Shape(t, S, sub, pos) /\ y \in S /\ r \in Sides /\ s \in Sides
    /\ t.child[r][y] = x /\ t.child[Opposite(r)][y] = Nil
    /\ t.parent[y] = q /\ t.child[s][q] = y /\ s = SideOf(t, y)
    /\ new = Spliced(t, x, y)

(* Splicing y out changes its parent's link to it and x's link up, and no    *)
(* other.  The sentinel gets a parent too when it is x.                      *)
LEMMA SpliceLinks ==
    ASSUME NEW t, NEW new, NEW S, NEW sub, NEW pos, NEW x, NEW y, NEW q, NEW s, NEW r,
           Splicing(t, new, S, sub, pos, x, y, q, s, r)
    PROVE  /\ S \subseteq Nodes /\ Nil \notin S /\ Root \notin S
           /\ x \in S \cup {Nil} /\ x # y /\ q \in S \cup {Root} /\ q # y
           /\ y = Top(t) <=> q = Root
           /\ q = Root => s = "left"
           /\ x # Nil => t.parent[x] = y
           /\ new \in Trees /\ new.red = t.red
           /\ \A d \in Sides, n \in Nodes \cup {Root} :
                  new.child[d][n] = IF n = q /\ d = s THEN x ELSE t.child[d][n]
           /\ \A n \in Addresses : new.parent[n] = IF n = x THEN q ELSE t.parent[n]
<1>1. /\ Shape(t, S, sub, pos) /\ y \in S /\ r \in Sides /\ s \in Sides
      /\ x = t.child[r][y]
      /\ q = t.parent[y] /\ s = SideOf(t, y)
      /\ new = Spliced(t, x, y)
  BY DEF Splicing
<1>2. S \subseteq Nodes /\ Nil \notin S /\ Root \notin S /\ t \in Trees
  BY <1>1, Distinct DEF Shape, Placed
<1>3. x \in S \cup {Nil} /\ x # y /\ (x # Nil => t.parent[x] = y)
  BY <1>1, <1>2, Child DEF Shape, Linked
<1>4. q \in S \cup {Root} /\ q # y /\ (y = Top(t) <=> q = Root) /\ (q = Root => s = "left")
  BY <1>1, <1>2, ParentOf
<1>5. PICK side : side = IF q = Root THEN "left" ELSE SideOf(t, y)
  OBVIOUS
<1>6. side = s
  BY <1>1, <1>4, <1>5
<1>7. new = [child |-> [t.child EXCEPT ![side][q] = x],
             parent |-> [t.parent EXCEPT ![x] = q], red |-> t.red]
  BY <1>1, <1>5, Zenon DEF Spliced
<1>8. /\ t.child \in [Sides -> [Addresses -> Addresses \cup {NULL}]]
      /\ t.parent \in [Addresses -> Addresses \cup {NULL}] /\ t.red \in SUBSET Addresses
  BY <1>2 DEF Trees
<1>9. q \in Addresses /\ x \in Addresses /\ Nodes \cup {Root} \subseteq Addresses
  BY <1>2, <1>3, <1>4 DEF Addresses
<1>10. PICK child, parent : /\ child = [t.child EXCEPT ![side][q] = x]
                            /\ parent = [t.parent EXCEPT ![x] = q]
  OBVIOUS
<1>11. /\ child \in [Sides -> [Addresses -> Addresses \cup {NULL}]]
       /\ \A d \in Sides, n \in Addresses :
              child[d][n] = IF d = side /\ n = q THEN x ELSE t.child[d][n]
  BY <1>1, <1>6, <1>8, <1>9, <1>10, LinkSet
<1>12. /\ parent \in [Addresses -> Addresses \cup {NULL}]
       /\ \A n \in Addresses : parent[n] = IF n = x THEN q ELSE t.parent[n]
  BY <1>8, <1>9, <1>10
<1>13. new = [child |-> child, parent |-> parent, red |-> t.red]
  BY <1>7, <1>10
<1>14. new.child = child /\ new.parent = parent /\ new.red = t.red
  BY <1>13
<1>15. new \in Trees
  BY <1>8, <1>11, <1>12, <1>13 DEF Trees
<1>16. \A d \in Sides, n \in Nodes \cup {Root} :
          new.child[d][n] = IF n = q /\ d = s THEN x ELSE t.child[d][n]
  BY <1>6, <1>9, <1>11, <1>14
<1>17. \A n \in Addresses : new.parent[n] = IF n = x THEN q ELSE t.parent[n]
  BY <1>12, <1>14
<1>18. QED
  BY <1>2, <1>3, <1>4, <1>14, <1>15, <1>16, <1>17

Without(S, sub, y) == [n \in Nodes \cup {Nil} |-> IF n \in S THEN sub[n] \ {y} ELSE {}]

\* A tree without y is one of the other nodes, in the same order.
LEMMA SpliceShape ==
    ASSUME NEW t, NEW new, NEW S, NEW sub, NEW pos, NEW x, NEW y, NEW q, NEW s, NEW r,
           Splicing(t, new, S, sub, pos, x, y, q, s, r)
    PROVE  Shape(new, S \ {y}, Without(S \ {y}, sub, y), pos)
<1>1. /\ Shape(t, S, sub, pos) /\ y \in S /\ r \in Sides /\ s \in Sides
      /\ t.child[r][y] = x /\ t.child[Opposite(r)][y] = Nil
      /\ t.parent[y] = q /\ t.child[s][q] = y
  BY DEF Splicing
<1>2. /\ S \subseteq Nodes /\ Nil \notin S /\ Root \notin S
      /\ x \in S \cup {Nil} /\ x # y /\ q \in S \cup {Root} /\ q # y
      /\ y = Top(t) <=> q = Root
      /\ q = Root => s = "left"
      /\ x # Nil => t.parent[x] = y
      /\ new \in Trees /\ new.red = t.red
      /\ \A d \in Sides, n \in Nodes \cup {Root} :
             new.child[d][n] = IF n = q /\ d = s THEN x ELSE t.child[d][n]
      /\ \A n \in Addresses : new.parent[n] = IF n = x THEN q ELSE t.parent[n]
  BY SpliceLinks
<1>3. PICK S1 : S1 = S \ {y}
  OBVIOUS
<1>4. PICK sub1 : sub1 = Without(S1, sub, y)
  OBVIOUS
<1>5. /\ Placed(S, sub, pos) /\ sub[Nil] = {} /\ (\A n \in S : n \in sub[n])
      /\ \A n \in S \cup {Nil} : sub[n] \in SUBSET S
  BY <1>1 DEF Shape, Placed
<1>6. /\ sub1 \in [Nodes \cup {Nil} -> SUBSET S1]
      /\ \A n \in S1 \cup {Nil} : sub1[n] = sub[n] \ {y}
  <2>1. \A n \in Nodes \cup {Nil} : sub1[n] = IF n \in S1 THEN sub[n] \ {y} ELSE {}
    BY <1>4 DEF Without
  <2>2. ASSUME NEW n \in Nodes \cup {Nil} PROVE sub1[n] \in SUBSET S1
    <3>1. CASE n \in S1
      BY <1>3, <1>5, <2>1, <3>1
    <3>2. CASE n \notin S1
      BY <2>1, <3>2
    <3>3. QED
      BY <3>1, <3>2
  <2>3. sub1[Nil] = sub[Nil] \ {y}
    BY <1>2, <1>3, <1>5, <2>1
  <2>4. \A n \in S1 : sub1[n] = sub[n] \ {y}
    BY <1>2, <1>3, <2>1
  <2>5. sub1 = [n \in Nodes \cup {Nil} |-> sub1[n]]
    BY <1>4 DEF Without
  <2>6. QED
    BY <2>2, <2>3, <2>4, <2>5
<1>7. Placed(S1, sub1, pos)
  <2>1. S1 \subseteq Nodes /\ \A n \in S1 : n \in sub1[n]
    BY <1>2, <1>3, <1>5, <1>6
  <2>2. sub1[Nil] = {}
    BY <1>5, <1>6
  <2>3. pos \in [Nodes -> Int] /\ \A m, n \in S1 : pos[m] = pos[n] => m = n
    BY <1>3, <1>5 DEF Placed
  <2>4. QED
    BY <1>6, <2>1, <2>2, <2>3 DEF Placed
<1>8. \A m \in S : m \in sub[y] <=> m = y \/ m \in sub[x]
  <2>1. \A m \in S : m \in sub[x] <=> m \in sub[y] /\ On(pos, r, m, y)
    BY <1>1 DEF Shape, Linked
  <2>2. \A m \in S : m \in sub[Nil] <=> m \in sub[y] /\ On(pos, Opposite(r), m, y)
    <3>1. Opposite(r) \in Sides
      BY <1>1, SidesAre
    <3>2. QED
      BY <1>1, <3>1 DEF Shape, Linked
  <2>3. \A m \in S : m = y \/ On(pos, r, m, y) \/ On(pos, Opposite(r), m, y)
    BY <1>1, <1>5, Order
  <2>4. QED
    BY <1>1, <1>5, <2>1, <2>2, <2>3
<1>9. ASSUME NEW n \in S1, NEW d \in Sides
      PROVE  /\ new.child[d][n] \in S1 \cup {Nil}
             /\ new.child[d][n] # Nil => new.parent[new.child[d][n]] = n
             /\ \A m \in S1 : m \in sub1[new.child[d][n]] <=> m \in sub1[n] /\ On(pos, d, m, n)
  <2>1. n \in S /\ n # y /\ n \in Nodes \cup {Root}
    BY <1>2, <1>3
  <2>2. PICK c : c = t.child[d][n]
    OBVIOUS
  <2>3. /\ c \in S \cup {Nil} /\ (c # Nil => t.parent[c] = n)
        /\ \A m \in S : m \in sub[c] <=> m \in sub[n] /\ On(pos, d, m, n)
    BY <1>1, <2>1, <2>2 DEF Shape, Linked
  <2>4. CASE n = q /\ d = s
    <3>1. new.child[d][n] = x /\ c = y
      BY <1>1, <1>2, <2>1, <2>2, <2>4
    <3>2. x \in S1 \cup {Nil} /\ x \in Addresses /\ new.parent[x] = n
      BY <1>2, <1>3, <2>4 DEF Addresses
    <3>3. \A m \in S1 : m \in sub1[x] <=> m \in sub1[n] /\ On(pos, d, m, n)
      BY <1>3, <1>6, <1>8, <2>3, <3>1, <3>2
    <3>4. QED
      BY <3>1, <3>2, <3>3
  <2>5. CASE ~(n = q /\ d = s)
    <3>1. new.child[d][n] = c
      BY <1>2, <2>1, <2>2, <2>5
    <3>2. c # y
      <4>1. c = y => n = q /\ d = s
        <5>1. SUFFICES ASSUME c = y PROVE n = q /\ d = s
          OBVIOUS
        <5>2. t.child[d][n] # Nil
          BY <1>1, <1>2, <2>2, <5>1
        <5>3. t.parent[t.child[d][n]] = n /\ SideOf(t, t.child[d][n]) = d
          BY <1>1, <2>1, <5>2, OneParent
        <5>4. s = SideOf(t, y)
          BY DEF Splicing
        <5>5. QED
          BY <1>1, <2>2, <5>1, <5>3, <5>4
      <4>2. QED
        BY <2>5, <4>1
    <3>3. c # Nil => c # x
      BY <1>2, <2>1, <2>3
    <3>4. c \in S1 \cup {Nil} /\ c \in Addresses
      BY <1>2, <1>3, <2>3, <3>2 DEF Addresses
    <3>5. c # Nil => new.parent[c] = n
      BY <1>2, <2>3, <3>3, <3>4
    <3>6. \A m \in S1 : m \in sub1[c] <=> m \in sub1[n] /\ On(pos, d, m, n)
      BY <1>3, <1>6, <2>3, <3>4
    <3>7. QED
      BY <3>1, <3>4, <3>5, <3>6
  <2>6. QED
    BY <2>4, <2>5
<1>10. Rooted(new, S1, sub1)
  <2>1. new.child["right"][Root] = Nil
    <3>1. t.child["right"][Root] = Nil
      BY <1>1 DEF Shape, Rooted
    <3>2. QED
      BY <1>2, <3>1, SidesAre
  <2>2. Top(t) \in S \cup {Nil} /\ sub[Top(t)] = S /\ (Top(t) # Nil => t.parent[Top(t)] = Root)
    BY <1>1 DEF Shape, Rooted
  <2>3. CASE q = Root
    <3>1. Top(new) = x
      BY <1>2, <2>3, SidesAre DEF Top
    <3>2. new.parent[x] = Root
      BY <1>2, <2>3 DEF Addresses
    <3>3. x \in S1 \cup {Nil}
      BY <1>2, <1>3
    <3>4. sub1[x] = S1
      <4>1. sub[y] = S
        BY <1>2, <2>2, <2>3
      <4>2. sub1[x] = sub[x] \ {y} /\ sub[x] \in SUBSET S
        BY <1>2, <1>5, <1>6, <3>3
      <4>3. QED
        BY <1>3, <1>8, <4>1, <4>2
    <3>5. QED
      BY <2>1, <3>1, <3>2, <3>3, <3>4 DEF Rooted
  <2>4. CASE q # Root
    <3>1. Top(new) = Top(t)
      BY <1>2, <2>4, SidesAre DEF Top
    <3>2. Top(t) # y /\ Top(t) # Nil
      <4>1. Top(t) # Nil
        BY <1>1, <1>5, <2>2
      <4>2. QED
        BY <1>2, <2>4, <4>1
    <3>3. Top(t) \in S1 /\ Top(t) \in Addresses
      BY <1>2, <1>3, <2>2, <3>2 DEF Addresses
    <3>4. sub1[Top(t)] = S1
      BY <1>3, <1>6, <2>2, <3>3
    <3>5. Top(t) # x
      BY <1>2, <1>1, <2>2, <3>2
    <3>6. new.parent[Top(t)] = Root
      BY <1>2, <2>2, <3>2, <3>3, <3>5
    <3>7. QED
      BY <2>1, <3>1, <3>3, <3>4, <3>6 DEF Rooted
  <2>5. QED
    BY <2>3, <2>4
<1>11. Linked(new, S1, sub1, pos)
  BY <1>9 DEF Linked
<1>12. Shape(new, S1, sub1, pos)
  BY <1>2, <1>7, <1>10, <1>11 DEF Shape
<1>13. QED
  BY <1>3, <1>4, <1>12

\* A red-black tree of the nodes S: y, which was spliced out, may still be red.
TreeBut(t, S, pos, y) ==
    \E sub, bh : /\ Shape(t, S, sub, pos) /\ Balanced(t, S, bh)
                 /\ t.red \subseteq S \cup {y} /\ Clashless(t, S, Nil) /\ Top(t) \notin t.red

\* A link that led to y leads to x, and others stay.
LEMMA SplicedLinks ==
    ASSUME NEW t, NEW new, NEW S, NEW sub, NEW pos, NEW x, NEW y, NEW q, NEW s, NEW r,
           Splicing(t, new, S, sub, pos, x, y, q, s, r),
           NEW n \in S \ {y}, NEW d \in Sides
    PROVE  \E m \in S \cup {Nil} :
               /\ m = t.child[d][n]
               /\ \/ n = q /\ d = s /\ m = y /\ new.child[d][n] = x
                  \/ ~(n = q /\ d = s) /\ m # y /\ new.child[d][n] = m
<1>1. /\ Shape(t, S, sub, pos) /\ y \in S /\ s \in Sides
      /\ t.parent[y] = q /\ t.child[s][q] = y /\ s = SideOf(t, y)
  BY DEF Splicing
<1>2. /\ S \subseteq Nodes /\ Nil \notin S /\ Root \notin S
      /\ \A e \in Sides, k \in Nodes \cup {Root} :
             new.child[e][k] = IF k = q /\ e = s THEN x ELSE t.child[e][k]
  BY SpliceLinks
<1>3. PICK m \in S \cup {Nil} : m = t.child[d][n]
  BY <1>1 DEF Shape, Linked
<1>4. CASE n = q /\ d = s
  BY <1>1, <1>2, <1>3, <1>4
<1>5. CASE ~(n = q /\ d = s)
  <2>1. m # y
    <3>1. SUFFICES ASSUME m = y PROVE n = q /\ d = s
      BY <1>5
    <3>2. t.child[d][n] # Nil
      BY <1>1, <1>2, <1>3, <3>1
    <3>3. t.parent[t.child[d][n]] = n /\ SideOf(t, t.child[d][n]) = d
      BY <1>1, <3>2, OneParent
    <3>4. QED
      BY <1>1, <1>3, <3>1, <3>3
  <2>2. new.child[d][n] = m
    BY <1>2, <1>3, <1>5
  <2>3. QED
    BY <1>3, <1>5, <2>1, <2>2
<1>6. QED
  BY <1>4, <1>5

\* Without a red node no way lacks a black one.
LEMMA SplicedRed ==
    ASSUME NEW t, NEW new, NEW S, NEW sub, NEW pos, NEW x, NEW y, NEW q, NEW s, NEW r,
           Splicing(t, new, S, sub, pos, x, y, q, s, r),
           NEW bh, Balanced(t, S, bh), t.red \subseteq S, Clashless(t, S, Nil), Top(t) \notin t.red,
           y \in t.red
    PROVE  TreeBut(new, S \ {y}, pos, y)
<1>1. y \in S /\ r \in Sides /\ s \in Sides /\ x = t.child[r][y]
  BY DEF Splicing
<1>2. /\ S \subseteq Nodes /\ Nil \notin S /\ Root \notin S
      /\ x \in S \cup {Nil} /\ x # y /\ q \in S \cup {Root} /\ q # y
      /\ y = Top(t) <=> q = Root
      /\ new.red = t.red
      /\ \A d \in Sides, n \in Nodes \cup {Root} :
             new.child[d][n] = IF n = q /\ d = s THEN x ELSE t.child[d][n]
  BY SpliceLinks
<1>3. PICK S1 : S1 = S \ {y}
  OBVIOUS
<1>4. PICK sub1 : Shape(new, S1, sub1, pos)
  BY <1>3, SpliceShape
<1>5. /\ bh \in [Nodes \cup {Nil} -> Nat] /\ bh[Nil] = 0
      /\ \A n \in S, d \in Sides : bh[n] = bh[t.child[d][n]] + Black(t, n)
  BY DEF Balanced
<1>6. x \notin t.red /\ bh[y] = bh[x]
  <2>1. x \notin t.red
    BY <1>1, <1>2 DEF Clashless
  <2>2. bh[y] = bh[x] + 0
    BY <1>1, <1>5 DEF Black
  <2>3. bh[x] \in Nat
    BY <1>2, <1>5
  <2>4. QED
    BY <2>1, <2>2, <2>3
<1>7. ASSUME NEW n \in S1, NEW d \in Sides
      PROVE  /\ bh[n] = bh[new.child[d][n]] + Black(new, n)
             /\ ~(n \in new.red /\ new.child[d][n] \in new.red)
  <2>1. n \in S \ {y} /\ n \in S
    BY <1>3
  <2>2. PICK m \in S \cup {Nil} :
               /\ m = t.child[d][n]
               /\ \/ n = q /\ d = s /\ m = y /\ new.child[d][n] = x
                  \/ ~(n = q /\ d = s) /\ m # y /\ new.child[d][n] = m
    BY <2>1, SplicedLinks
  <2>3. bh[n] = bh[m] + Black(t, n) /\ Black(new, n) = Black(t, n)
    BY <1>2, <1>5, <2>1, <2>2 DEF Black
  <2>4. n \in t.red => m \notin t.red
    BY <1>2, <2>1, <2>2 DEF Clashless
  <2>5. CASE m = y /\ new.child[d][n] = x
    BY <1>2, <1>6, <2>3, <2>5
  <2>6. CASE new.child[d][n] = m
    BY <1>2, <2>3, <2>4, <2>6
  <2>7. QED
    BY <2>2, <2>5, <2>6
<1>8. Balanced(new, S1, bh)
  BY <1>5, <1>7 DEF Balanced
<1>9. Clashless(new, S1, Nil)
  BY <1>7 DEF Clashless
<1>10. Top(new) \notin new.red
  <2>1. q # Root
    BY <1>2
  <2>2. Top(new) = Top(t)
    BY <1>2, <2>1, SidesAre DEF Top
  <2>3. QED
    BY <1>2, <2>2
<1>11. new.red \subseteq S1 \cup {y}
  BY <1>2, <1>3
<1>12. TreeBut(new, S1, pos, y)
  BY <1>4, <1>8, <1>9, <1>10, <1>11 DEF TreeBut
<1>13. QED
  BY <1>3, <1>12

\* Without a black node the ways through x lack one.
LEMMA SplicedBlack ==
    ASSUME NEW t, NEW new, NEW S, NEW sub, NEW pos, NEW x, NEW y, NEW q, NEW s, NEW r,
           Splicing(t, new, S, sub, pos, x, y, q, s, r),
           NEW bh, Balanced(t, S, bh), t.red \subseteq S, Clashless(t, S, Nil), Top(t) \notin t.red,
           y \notin t.red
    PROVE  Lacking(new, S \ {y}, pos, x, 0, Outside(new, S \ {y}), Top(new))
<1>1. y \in S /\ r \in Sides /\ s \in Sides /\ x = t.child[r][y]
  BY DEF Splicing
<1>2. /\ S \subseteq Nodes /\ Nil \notin S /\ Root \notin S
      /\ x \in S \cup {Nil} /\ x # y /\ q \in S \cup {Root} /\ q # y
      /\ y = Top(t) <=> q = Root
      /\ q = Root => s = "left"
      /\ new.red = t.red
      /\ \A d \in Sides, n \in Nodes \cup {Root} :
             new.child[d][n] = IF n = q /\ d = s THEN x ELSE t.child[d][n]
      /\ \A n \in Addresses : new.parent[n] = IF n = x THEN q ELSE t.parent[n]
  BY SpliceLinks
<1>3. PICK S1 : S1 = S \ {y}
  OBVIOUS
<1>4. PICK sub1 : Shape(new, S1, sub1, pos)
  BY <1>3, SpliceShape
<1>5. /\ bh \in [Nodes \cup {Nil} -> Nat] /\ bh[Nil] = 0
      /\ \A n \in S, d \in Sides : bh[n] = bh[t.child[d][n]] + Black(t, n)
  BY DEF Balanced
<1>6. bh[y] = bh[x] + 1
  <2>1. Black(t, y) = 1
    BY DEF Black
  <2>2. QED
    BY <1>1, <1>5, <2>1
<1>7. ASSUME NEW n \in S1, NEW d \in Sides
      PROVE  /\ bh[n] = bh[new.child[d][n]] + Black(new, n) + (IF n = q /\ d = s THEN 1 ELSE 0)
             /\ n \in new.red /\ new.child[d][n] \in new.red => x \in {n, new.child[d][n]}
  <2>1. n \in S \ {y} /\ n \in S
    BY <1>3
  <2>2. PICK m \in S \cup {Nil} :
               /\ m = t.child[d][n]
               /\ \/ n = q /\ d = s /\ m = y /\ new.child[d][n] = x
                  \/ ~(n = q /\ d = s) /\ m # y /\ new.child[d][n] = m
    BY <2>1, SplicedLinks
  <2>3. bh[n] = bh[m] + Black(t, n) /\ Black(new, n) = Black(t, n)
    BY <1>2, <1>5, <2>1, <2>2 DEF Black
  <2>4. n \in t.red => m \notin t.red
    BY <1>2, <2>1, <2>2 DEF Clashless
  <2>5. bh[x] \in Nat /\ bh[m] \in Nat /\ Black(t, n) \in Nat
    BY <1>2, <1>5, <2>2 DEF Black
  <2>6. CASE n = q /\ d = s /\ m = y /\ new.child[d][n] = x
    BY <1>2, <1>6, <2>3, <2>5, <2>6
  <2>7. CASE ~(n = q /\ d = s) /\ m # y /\ new.child[d][n] = m
    BY <1>2, <2>3, <2>4, <2>5, <2>7
  <2>8. QED
    BY <2>2, <2>6, <2>7
<1>8. Heights(new, S1, bh, q, s)
  BY <1>5, <1>7 DEF Heights
<1>9. ClashAt(new, S1, x)
  BY <1>7 DEF ClashAt
<1>10. Top(new) \in new.red => Top(new) = x
  <2>1. CASE q = Root
    BY <1>2, <2>1, SidesAre DEF Top
  <2>2. CASE q # Root
    <3>1. Top(new) = Top(t)
      BY <1>2, <2>2, SidesAre DEF Top
    <3>2. QED
      BY <1>2, <3>1
  <2>3. QED
    BY <2>1, <2>2
<1>11. new.red \subseteq S1 /\ x \in S1 \cup {Nil} /\ q \in S1 \cup {Root}
  BY <1>2, <1>3
<1>12. new.parent[x] = q /\ new.child[s][q] = x
  <2>1. x \in Addresses /\ q \in Nodes \cup {Root}
    BY <1>2 DEF Addresses
  <2>2. QED
    BY <1>1, <1>2, <2>1
<1>13. Cardinality(sub1[x]) >= 0
  <2>1. Cardinality(sub1[x]) \in Nat
    BY <1>4, <1>11, Sizes
  <2>2. QED
    BY <2>1
<1>14. PICK top : top = Top(new)
  OBVIOUS
<1>15. PICK out : out = Outside(new, S1)
  OBVIOUS
<1>16. Lacking(new, S1, pos, x, 0, out, top)
  BY <1>1, <1>2, <1>4, <1>8, <1>9, <1>10, <1>11, <1>12, <1>13, <1>14, <1>15 DEF Lacking
<1>17. QED
  BY <1>3, <1>14, <1>15, <1>16

\* x is the one child y may have.
OneChild(t, x, y, r) == r \in Sides /\ t.child[r][y] = x /\ t.child[Opposite(r)][y] = Nil

\* After y was spliced out and the balance restored, and only in the tree.
SplicedOut(t, S, pos, x, y, t1, t2) ==
    /\ t1 = Spliced(t, x, y)
    /\ t2 = IF y \in t.red THEN t1 ELSE _rb_tree_delete(t1, x)
    /\ TreeBut(t2, S \ {y}, pos, y)
    /\ Outside(t2, S \ {y}) = Outside(t1, S \ {y})
    /\ \A n \in Nodes \ S : /\ t1.child["left"][n] = t.child["left"][n]
                            /\ t1.child["right"][n] = t.child["right"][n]
                            /\ t1.parent[n] = t.parent[n]
    /\ t1.parent[Root] = t.parent[Root]

(* A node with at most one child is spliced out, and the balance restored if *)
(* it was black.                                                             *)
LEMMA SpliceOut ==
    ASSUME NEW t, NEW S, NEW pos, RedBlackTree(t, S, pos), NEW y \in S, NEW x,
           NEW r, OneChild(t, x, y, r)
    PROVE  \E t1, t2 : SplicedOut(t, S, pos, x, y, t1, t2)
<1>0. r \in Sides /\ t.child[r][y] = x /\ t.child[Opposite(r)][y] = Nil
  BY DEF OneChild
<1>1. PICK sub, bh : /\ Shape(t, S, sub, pos) /\ Balanced(t, S, bh)
                     /\ t.red \subseteq S /\ Clashless(t, S, Nil) /\ Top(t) \notin t.red
  BY DEF RedBlackTree
<1>2. PICK t1 : t1 = Spliced(t, x, y)
  OBVIOUS
<1>3. PICK q, s : q = t.parent[y] /\ s = SideOf(t, y) /\ t.child[s][q] = y /\ s \in Sides
  BY <1>1, ParentOf
<1>4. Splicing(t, t1, S, sub, pos, x, y, q, s, r)
  BY <1>0, <1>1, <1>2, <1>3 DEF Splicing
<1>5. PICK t2 : t2 = IF y \in t.red THEN t1 ELSE _rb_tree_delete(t1, x)
  OBVIOUS
<1>6. TreeBut(t2, S \ {y}, pos, y) /\ Outside(t2, S \ {y}) = Outside(t1, S \ {y})
  <2>1. CASE y \in t.red
    <3>1. t2 = t1
      BY <1>5, <2>1
    <3>2. QED
      BY <1>1, <1>4, <2>1, <3>1, SplicedRed
  <2>2. CASE y \notin t.red
    <3>1. t2 = _rb_tree_delete(t1, x)
      BY <1>5, <2>2
    <3>2. Lacking(t1, S \ {y}, pos, x, 0, Outside(t1, S \ {y}), Top(t1))
      BY <1>1, <1>4, <2>2, SplicedBlack
    <3>3. RedBlackTree(t2, S \ {y}, pos) /\ Outside(t2, S \ {y}) = Outside(t1, S \ {y})
      BY <3>1, <3>2, DeletedIs
    <3>4. TreeBut(t2, S \ {y}, pos, y)
      BY <3>3 DEF RedBlackTree, TreeBut
    <3>5. QED
      BY <3>3, <3>4
  <2>3. QED
    BY <2>1, <2>2
<1>7. /\ S \subseteq Nodes /\ Nil \notin S /\ Root \notin S
      /\ x \in S \cup {Nil} /\ q \in S \cup {Root}
      /\ \A d \in Sides, n \in Nodes \cup {Root} :
             t1.child[d][n] = IF n = q /\ d = s THEN x ELSE t.child[d][n]
      /\ \A n \in Addresses : t1.parent[n] = IF n = x THEN q ELSE t.parent[n]
  BY <1>4, SpliceLinks
<1>8. ASSUME NEW n \in Nodes \ S
      PROVE  /\ t1.child["left"][n] = t.child["left"][n]
             /\ t1.child["right"][n] = t.child["right"][n]
             /\ t1.parent[n] = t.parent[n]
  <2>1. n # q /\ n # x /\ n \in Addresses /\ n \in Nodes \cup {Root}
    BY <1>7, Distinct DEF Addresses
  <2>2. QED
    BY <1>7, <2>1, SidesAre
<1>9. t1.parent[Root] = t.parent[Root]
  <2>1. Root # x /\ Root \in Addresses
    BY <1>7, Distinct DEF Addresses
  <2>2. QED
    BY <1>7, <2>1
<1>10. QED
  BY <1>2, <1>5, <1>6, <1>8, <1>9 DEF SplicedOut

-----------------------------------------------------------------------------
(* A node that takes the place of another.                                   *)

(* The tree `new' of the nodes S1 is the tree t of the nodes S, each node of it   *)
(* standing for back[n], in the same place of the order.                       *)
Stands(t, S, new, S1, pos, back) ==
    /\ S1 \subseteq Nodes /\ new \in Trees /\ new.red \subseteq S1
    /\ back[Nil] = Nil /\ back[Root] = Root
    /\ \A k \in S1 : back[k] \in S
    /\ \A m \in S : \E k \in S1 : back[k] = m
    /\ \A j, k \in S1 : back[j] = back[k] => j = k
    /\ \A j, k \in S1 : pos[j] < pos[k] <=> pos[back[j]] < pos[back[k]]
    /\ \A k \in S1 \cup {Root}, r \in Sides :
           new.child[r][k] \in S1 \cup {Nil} /\ back[new.child[r][k]] = t.child[r][back[k]]
    /\ \A k \in S1 : new.parent[k] \in S1 \cup {Root} /\ back[new.parent[k]] = t.parent[back[k]]
    /\ \A k \in S1 : k \in new.red <=> back[k] \in t.red

Standing(S1, sub, back) ==
    [k \in Nodes \cup {Nil} |->
        IF k \in S1 THEN {j \in S1 : back[j] \in sub[back[k]]} ELSE {}]

(* A tree keeps its shape when its nodes stand for others in the same        *)
(* places.                                                                   *)
LEMMA StandsShape ==
    ASSUME NEW t, NEW S, NEW new, NEW S1, NEW sub, NEW pos, NEW back,
           Stands(t, S, new, S1, pos, back), Shape(t, S, sub, pos)
    PROVE  Shape(new, S1, Standing(S1, sub, back), pos)
<1>1. /\ S1 \subseteq Nodes /\ new \in Trees
      /\ back[Nil] = Nil /\ back[Root] = Root
      /\ \A k \in S1 : back[k] \in S
      /\ \A j, k \in S1 : back[j] = back[k] => j = k
      /\ \A j, k \in S1 : pos[j] < pos[k] <=> pos[back[j]] < pos[back[k]]
      /\ \A k \in S1 \cup {Root}, r \in Sides :
             new.child[r][k] \in S1 \cup {Nil} /\ back[new.child[r][k]] = t.child[r][back[k]]
      /\ \A k \in S1 : new.parent[k] \in S1 \cup {Root} /\ back[new.parent[k]] = t.parent[back[k]]
  BY DEF Stands
<1>2. /\ S \subseteq Nodes /\ Nil \notin S /\ Root \notin S /\ Nil \notin S1 /\ Root \notin S1
      /\ Root # Nil /\ Placed(S, sub, pos) /\ pos \in [Nodes -> Int] /\ sub[Nil] = {}
      /\ (\A m, n \in S : pos[m] = pos[n] => m = n) /\ (\A n \in S : n \in sub[n])
  BY <1>1, Distinct DEF Shape, Placed
<1>3. PICK sub1 : sub1 = Standing(S1, sub, back)
  OBVIOUS
<1>4. /\ sub1 \in [Nodes \cup {Nil} -> SUBSET S1] /\ sub1[Nil] = {}
      /\ \A k \in S1, j \in S1 : j \in sub1[k] <=> back[j] \in sub[back[k]]
  <2>1. \A k \in Nodes \cup {Nil} :
           sub1[k] = IF k \in S1 THEN {j \in S1 : back[j] \in sub[back[k]]} ELSE {}
    BY <1>3 DEF Standing
  <2>2. sub1 = [k \in Nodes \cup {Nil} |-> sub1[k]]
    BY <1>3 DEF Standing
  <2>3. ASSUME NEW k \in Nodes \cup {Nil} PROVE sub1[k] \in SUBSET S1
    <3>1. CASE k \in S1
      <4>1. sub1[k] = {j \in S1 : back[j] \in sub[back[k]]}
        BY <2>1, <3>1
      <4>2. QED
        BY <4>1
    <3>2. CASE k \notin S1
      BY <2>1, <3>2
    <3>3. QED
      BY <3>1, <3>2
  <2>4. ASSUME NEW k \in S1, NEW j \in S1
        PROVE  j \in sub1[k] <=> back[j] \in sub[back[k]]
    <3>1. sub1[k] = {i \in S1 : back[i] \in sub[back[k]]}
      BY <1>1, <2>1
    <3>2. QED
      BY <3>1
  <2>5. sub1[Nil] = {}
    BY <1>2, <2>1
  <2>6. sub1 \in [Nodes \cup {Nil} -> SUBSET S1]
    BY <2>2, <2>3
  <2>7. QED
    BY <2>4, <2>5, <2>6
<1>5. \A j, k \in S1 : pos[j] = pos[k] => j = k
  <2>1. TAKE j \in S1, k \in S1
  <2>2. pos[j] \in Int /\ pos[k] \in Int /\ pos[back[j]] \in Int /\ pos[back[k]] \in Int
    BY <1>1, <1>2
  <2>3. pos[j] = pos[k] => pos[back[j]] = pos[back[k]]
    BY <1>1, <2>2
  <2>4. QED
    BY <1>1, <1>2, <2>3
<1>6. Placed(S1, sub1, pos)
  <2>1. \A k \in S1 : k \in sub1[k]
    BY <1>1, <1>2, <1>4
  <2>2. QED
    BY <1>1, <1>2, <1>4, <1>5, <2>1 DEF Placed
<1>7. \A j, k \in S1 : \A r \in Sides : On(pos, r, j, k) <=> On(pos, r, back[j], back[k])
  BY <1>1 DEF On
<1>8. \A j \in S1 \cup {Root, Nil}, k \in S1 \cup {Root, Nil} : back[j] = back[k] => j = k
  BY <1>1, <1>2
<1>9. ASSUME NEW k \in S1, NEW r \in Sides
      PROVE  /\ new.child[r][k] \in S1 \cup {Nil}
             /\ new.child[r][k] # Nil => new.parent[new.child[r][k]] = k
             /\ \A j \in S1 : j \in sub1[new.child[r][k]] <=> j \in sub1[k] /\ On(pos, r, j, k)
  <2>1. PICK c \in S1 \cup {Nil} : c = new.child[r][k] /\ back[c] = t.child[r][back[k]]
    BY <1>1
  <2>2. PICK m \in S : m = back[k]
    BY <1>1
  <2>3. /\ t.child[r][m] # Nil => t.parent[t.child[r][m]] = m
        /\ \A i \in S : i \in sub[t.child[r][m]] <=> i \in sub[m] /\ On(pos, r, i, m)
    BY DEF Shape, Linked
  <2>4. c # Nil => new.parent[c] = k
    <3>1. SUFFICES ASSUME c # Nil PROVE new.parent[c] = k
      OBVIOUS
    <3>2. c \in S1 /\ back[c] # Nil
      BY <1>1, <1>2, <2>1, <3>1
    <3>3. t.parent[back[c]] = m
      BY <2>1, <2>2, <2>3, <3>2
    <3>4. back[new.parent[c]] = back[k] /\ new.parent[c] \in S1 \cup {Root}
      BY <1>1, <2>2, <3>2, <3>3
    <3>5. QED
      BY <1>8, <3>4
  <2>5. ASSUME NEW j \in S1 PROVE j \in sub1[c] <=> j \in sub1[k] /\ On(pos, r, j, k)
    <3>1. j \in sub1[c] <=> back[j] \in sub[back[c]]
      <4>1. CASE c = Nil
        BY <1>1, <1>2, <1>4, <4>1
      <4>2. CASE c # Nil
        BY <1>4, <2>1, <4>2
      <4>3. QED
        BY <4>1, <4>2
    <3>2. back[j] \in S /\ back[c] = t.child[r][m]
      BY <1>1, <2>1, <2>2
    <3>3. back[j] \in sub[back[c]] <=> back[j] \in sub[m] /\ On(pos, r, back[j], m)
      BY <2>3, <3>2
    <3>4. (j \in sub1[k] <=> back[j] \in sub[m]) /\ (On(pos, r, j, k) <=> On(pos, r, back[j], m))
      BY <1>4, <1>7, <2>2
    <3>5. QED
      BY <3>1, <3>3, <3>4
  <2>6. QED
    BY <2>1, <2>4, <2>5
<1>10. Rooted(new, S1, sub1)
  <2>1. Top(t) \in S \cup {Nil} /\ sub[Top(t)] = S /\ (Top(t) # Nil => t.parent[Top(t)] = Root)
        /\ t.child["right"][Root] = Nil
    BY DEF Shape, Rooted
  <2>2. new.child["right"][Root] = Nil
    <3>1. /\ new.child["right"][Root] \in S1 \cup {Nil}
          /\ back[new.child["right"][Root]] = t.child["right"][back[Root]]
      BY <1>1, SidesAre
    <3>2. back[new.child["right"][Root]] = back[Nil]
      BY <1>1, <2>1, <3>1
    <3>3. QED
      BY <1>8, <3>1, <3>2
  <2>3. PICK top \in S1 \cup {Nil} : top = Top(new) /\ back[top] = Top(t)
    <3>1. /\ new.child["left"][Root] \in S1 \cup {Nil}
          /\ back[new.child["left"][Root]] = t.child["left"][back[Root]]
      BY <1>1, SidesAre
    <3>2. QED
      BY <1>1, <3>1 DEF Top
  <2>4. sub1[top] = S1
    <3>1. CASE top = Nil
      <4>1. S = {}
        BY <1>1, <1>2, <2>1, <2>3, <3>1
      <4>2. S1 = {}
        BY <1>1, <4>1
      <4>3. QED
        BY <1>4, <3>1, <4>2
    <3>2. CASE top # Nil
      <4>1. \A j \in S1 : j \in sub1[top]
        BY <1>1, <1>4, <2>1, <2>3, <3>2
      <4>2. sub1[top] \in SUBSET S1
        BY <1>1, <1>4
      <4>3. QED
        BY <4>1, <4>2
    <3>3. QED
      BY <3>1, <3>2
  <2>5. top # Nil => new.parent[top] = Root
    <3>1. SUFFICES ASSUME top # Nil PROVE new.parent[top] = Root
      OBVIOUS
    <3>2. back[top] # Nil
      BY <1>1, <1>2, <3>1
    <3>3. back[new.parent[top]] = back[Root] /\ new.parent[top] \in S1 \cup {Root}
      BY <1>1, <2>1, <2>3, <3>1, <3>2
    <3>4. QED
      BY <1>8, <3>3
  <2>6. QED
    BY <2>2, <2>3, <2>4, <2>5 DEF Rooted
<1>11. Linked(new, S1, sub1, pos)
  BY <1>9 DEF Linked
<1>12. QED
  BY <1>1, <1>3, <1>6, <1>10, <1>11 DEF Shape

\* And it is a red-black tree if the other one is.
LEMMA StandsTree ==
    ASSUME NEW t, NEW S, NEW new, NEW S1, NEW pos, NEW back, NEW y,
           Stands(t, S, new, S1, pos, back), TreeBut(t, S, pos, y), y \notin S, y \in Nodes
    PROVE  RedBlackTree(new, S1, pos)
<1>1. PICK sub, bh : /\ Shape(t, S, sub, pos) /\ Balanced(t, S, bh)
                     /\ t.red \subseteq S \cup {y} /\ Clashless(t, S, Nil) /\ Top(t) \notin t.red
  BY DEF TreeBut
<1>2. /\ S1 \subseteq Nodes /\ new.red \subseteq S1
      /\ back[Nil] = Nil /\ back[Root] = Root
      /\ \A k \in S1 : back[k] \in S
      /\ \A k \in S1 \cup {Root}, r \in Sides :
             new.child[r][k] \in S1 \cup {Nil} /\ back[new.child[r][k]] = t.child[r][back[k]]
      /\ \A k \in S1 : k \in new.red <=> back[k] \in t.red
  BY DEF Stands
<1>3. /\ S \subseteq Nodes /\ Nil \notin S /\ Root \notin S /\ Nil \notin S1 /\ Root \notin S1
      /\ Root # Nil /\ Nil \notin t.red
  BY <1>1, <1>2, Distinct DEF Shape, Placed
<1>4. PICK sub1 : Shape(new, S1, sub1, pos)
  BY <1>1, StandsShape
<1>5. /\ bh \in [Nodes \cup {Nil} -> Nat] /\ bh[Nil] = 0
      /\ \A n \in S, d \in Sides : bh[n] = bh[t.child[d][n]] + Black(t, n)
  BY <1>1 DEF Balanced
<1>6. PICK bh1 : bh1 = [k \in Nodes \cup {Nil} |-> IF k \in S1 THEN bh[back[k]] ELSE 0]
  OBVIOUS
<1>7. bh1 \in [Nodes \cup {Nil} -> Nat] /\ bh1[Nil] = 0 /\ \A k \in S1 \cup {Nil} : bh1[k] = bh[back[k]]
  <2>1. \A k \in S1 : bh[back[k]] \in Nat
    BY <1>2, <1>3, <1>5
  <2>2. bh1[Nil] = 0 /\ bh[back[Nil]] = 0
    BY <1>2, <1>3, <1>5, <1>6
  <2>3. \A k \in S1 : bh1[k] = bh[back[k]]
    BY <1>2, <1>6
  <2>4. bh1 \in [Nodes \cup {Nil} -> Nat]
    BY <1>6, <2>1
  <2>5. QED
    BY <2>2, <2>3, <2>4
<1>8. ASSUME NEW k \in S1, NEW r \in Sides
      PROVE  /\ bh1[k] = bh1[new.child[r][k]] + Black(new, k)
             /\ ~(k \in new.red /\ new.child[r][k] \in new.red)
  <2>1. PICK c \in S1 \cup {Nil} : c = new.child[r][k] /\ back[c] = t.child[r][back[k]]
    BY <1>2
  <2>2. PICK m \in S : m = back[k]
    BY <1>2
  <2>3. bh[m] = bh[t.child[r][m]] + Black(t, m)
    BY <1>5
  <2>4. Black(new, k) = Black(t, m)
    BY <1>2, <2>2 DEF Black
  <2>5. bh1[k] = bh1[c] + Black(new, k)
    BY <1>7, <2>1, <2>2, <2>3, <2>4
  <2>6. m \in t.red => t.child[r][m] \notin t.red
    BY <1>1, <1>3 DEF Clashless
  <2>7. c \in new.red => t.child[r][m] \in t.red
    BY <1>2, <2>1, <2>2
  <2>8. k \in new.red => m \in t.red
    BY <1>2, <2>2
  <2>9. QED
    BY <2>1, <2>5, <2>6, <2>7, <2>8
<1>9. Balanced(new, S1, bh1) /\ Clashless(new, S1, Nil)
  BY <1>7, <1>8 DEF Balanced, Clashless
<1>10. Top(new) \notin new.red
  <2>1. Top(new) \in S1 \cup {Nil} /\ back[Top(new)] = Top(t)
    BY <1>2, SidesAre DEF Top
  <2>2. QED
    BY <1>1, <1>2, <2>1
<1>11. QED
  BY <1>2, <1>4, <1>9, <1>10 DEF RedBlackTree

\* The links of a freed node are gone, and no others.
LEMMA FreedLinks ==
    ASSUME NEW t \in Trees, NEW gone
    PROVE  LET new == Freed(t, gone)
           IN  /\ new \in Trees /\ new.red = t.red \ gone
               /\ \A r \in Sides, n \in Addresses :
                      new.child[r][n] = IF n \in gone THEN NULL ELSE t.child[r][n]
               /\ \A n \in Addresses :
                      new.parent[n] = IF n \in gone THEN NULL ELSE t.parent[n]
<1> DEFINE new == Freed(t, gone)
<1>1. PICK child, parent, red :
         /\ child = [s \in Sides |->
                       [n \in Addresses |-> IF n \in gone THEN NULL ELSE t.child[s][n]]]
         /\ parent = [n \in Addresses |-> IF n \in gone THEN NULL ELSE t.parent[n]]
         /\ red = t.red \ gone
  OBVIOUS
<1>2. new = [child |-> child, parent |-> parent, red |-> red]
  BY <1>1 DEF Freed
<1>3. new.child = child /\ new.parent = parent /\ new.red = red
  BY <1>2
<1>4. /\ t.child \in [Sides -> [Addresses -> Addresses \cup {NULL}]]
      /\ t.parent \in [Addresses -> Addresses \cup {NULL}] /\ t.red \in SUBSET Addresses
  BY DEF Trees
<1>5. /\ child \in [Sides -> [Addresses -> Addresses \cup {NULL}]]
      /\ parent \in [Addresses -> Addresses \cup {NULL}] /\ red \in SUBSET Addresses
  BY <1>1, <1>4
<1>6. new \in Trees
  BY <1>2, <1>5 DEF Trees
<1>7. \A r \in Sides, n \in Addresses :
         child[r][n] = IF n \in gone THEN NULL ELSE t.child[r][n]
  BY <1>1
<1>8. \A n \in Addresses : parent[n] = IF n \in gone THEN NULL ELSE t.parent[n]
  BY <1>1
<1>9. QED
  BY <1>1, <1>3, <1>6, <1>7, <1>8

\* The nodes around one that another takes the place of.
Replacing(t, new, node, y, p, d, a, b) ==
    /\ t \in Trees /\ node \in Nodes /\ y \in Nodes
    /\ p \in Addresses /\ p # y /\ a \in Addresses /\ b \in Addresses /\ a # y /\ b # y
    /\ t.parent[node] = p /\ d = SideOf(t, node) /\ d \in Sides
    /\ t.child["left"][node] = a /\ t.child["right"][node] = b
    /\ new = Replace(t, node, y)

\* Replace copies the node's links to y, and has its neighbours link to y.
LEMMA ReplaceLinks ==
    ASSUME NEW t, NEW new, NEW node, NEW y, NEW p, NEW d, NEW a, NEW b,
           Replacing(t, new, node, y, p, d, a, b)
    PROVE  /\ new \in Trees
           /\ new.red = (t.red \ {y}) \cup (IF node \in t.red THEN {y} ELSE {})
           /\ \A r \in Sides, n \in Addresses :
                  new.child[r][n] = IF n = p /\ r = d THEN y
                                    ELSE IF n = y THEN t.child[r][node] ELSE t.child[r][n]
           /\ \A n \in Addresses :
                  new.parent[n] = IF n = a \/ n = b THEN y ELSE IF n = y THEN p ELSE t.parent[n]
<1>1. /\ t \in Trees /\ node \in Nodes /\ y \in Nodes
      /\ p \in Addresses /\ p # y /\ a \in Addresses /\ b \in Addresses /\ a # y /\ b # y
      /\ p = t.parent[node] /\ d = SideOf(t, node) /\ d \in Sides
      /\ a = t.child["left"][node] /\ b = t.child["right"][node]
  BY DEF Replacing
<1>2. /\ t.child \in [Sides -> [Addresses -> Addresses \cup {NULL}]]
      /\ t.parent \in [Addresses -> Addresses \cup {NULL}] /\ t.red \in SUBSET Addresses
      /\ y \in Addresses /\ node \in Addresses
  BY <1>1 DEF Trees, Addresses
<1>3. PICK taken : taken = [s \in Sides |-> [t.child[s] EXCEPT ![y] = t.child[s][node]]]
  OBVIOUS
<1>4. /\ taken \in [Sides -> [Addresses -> Addresses \cup {NULL}]]
      /\ \A r \in Sides, n \in Addresses :
             taken[r][n] = IF n = y THEN t.child[r][node] ELSE t.child[r][n]
  BY <1>2, <1>3
<1>5. PICK side : side = IF node = taken["left"][p] THEN "left" ELSE "right"
  OBVIOUS
<1>6. side = d
  <2>1. taken["left"][p] = t.child["left"][p]
    BY <1>1, <1>4, SidesAre
  <2>2. d = IF node = t.child["left"][p] THEN "left" ELSE "right"
    BY <1>1 DEF SideOf
  <2>3. QED
    BY <1>5, <2>1, <2>2
<1>7. PICK child, parent, red :
         /\ child = [taken EXCEPT ![side][p] = y]
         /\ parent = [t.parent EXCEPT ![y] = p, ![b] = y, ![a] = y]
         /\ red = (t.red \ {y}) \cup (IF node \in t.red THEN {y} ELSE {})
  OBVIOUS
<1>8. new = [child |-> child, parent |-> parent, red |-> red]
  <2>1. new = Replace(t, node, y)
    BY DEF Replacing
  <2>2. Replace(t, node, y) =
           [child |-> [taken EXCEPT ![side][p] = y],
            parent |-> [t.parent EXCEPT ![y] = p, ![b] = y, ![a] = y],
            red |-> (t.red \ {y}) \cup (IF node \in t.red THEN {y} ELSE {})]
    BY <1>1, <1>3, <1>5, Zenon DEF Replace
  <2>3. QED
    BY <1>7, <2>1, <2>2, Zenon
<1>9. new.child = child /\ new.parent = parent /\ new.red = red
  BY <1>8
<1>10. /\ child \in [Sides -> [Addresses -> Addresses \cup {NULL}]]
       /\ \A r \in Sides, n \in Addresses :
              child[r][n] = IF r = side /\ n = p THEN y ELSE taken[r][n]
  BY <1>1, <1>2, <1>4, <1>6, <1>7, LinkSet
<1>11. /\ parent \in [Addresses -> Addresses \cup {NULL}]
       /\ \A n \in Addresses :
              parent[n] = IF n = a \/ n = b THEN y ELSE IF n = y THEN p ELSE t.parent[n]
  BY <1>1, <1>2, <1>7
<1>12. red \in SUBSET Addresses
  BY <1>2, <1>7
<1>13. new \in Trees
  BY <1>8, <1>10, <1>11, <1>12 DEF Trees
<1>14. \A r \in Sides, n \in Addresses :
          new.child[r][n] = IF n = p /\ r = d THEN y
                            ELSE IF n = y THEN t.child[r][node] ELSE t.child[r][n]
  BY <1>4, <1>6, <1>9, <1>10
<1>15. QED
  BY <1>7, <1>9, <1>11, <1>13, <1>14

\* A red-black tree in which the links of the node y are gone, and no others.
FreedOf(t, S, pos, y, new) ==
    /\ RedBlackTree(new, S, pos)
    /\ \A n \in Nodes \cup {Root} : new.parent[n] = IF n = y THEN NULL ELSE t.parent[n]
    /\ \A n \in Nodes, r \in Sides : new.child[r][n] = IF n = y THEN NULL ELSE t.child[r][n]

\* A node that was spliced out can be freed.
LEMMA FreedTree ==
    ASSUME NEW t, NEW S, NEW pos, NEW y, TreeBut(t, S, pos, y), y \notin S, y \in Nodes
    PROVE  FreedOf(t, S, pos, y, Freed(t, {y}))
<1>1. PICK sub : Shape(t, S, sub, pos) /\ t.red \subseteq S \cup {y}
  BY DEF TreeBut
<1>2. PICK new : new = Freed(t, {y})
  OBVIOUS
<1>3. /\ new \in Trees /\ new.red = t.red \ {y}
      /\ \A r \in Sides, n \in Addresses :
             new.child[r][n] = IF n = y THEN NULL ELSE t.child[r][n]
      /\ \A n \in Addresses : new.parent[n] = IF n = y THEN NULL ELSE t.parent[n]
  <2>1. t \in Trees
    BY <1>1 DEF Shape
  <2>2. QED
    BY <1>2, <2>1, FreedLinks
<1>4. S \subseteq Nodes /\ Root # y /\ Nodes \cup {Root} \subseteq Addresses /\ Nil \notin S /\ Root \notin S
  BY <1>1, Distinct DEF Shape, Placed, Addresses
<1>5. PICK back : back = [n \in Addresses |-> n]
  OBVIOUS
<1>6. \A n \in S \cup {Root, Nil} : back[n] = n
  BY <1>4, <1>5 DEF Addresses
<1>7. \A n \in S \cup {Root}, r \in Sides : t.child[r][n] \in S \cup {Nil} /\ new.child[r][n] = t.child[r][n]
  <2>1. \A n \in S \cup {Root}, r \in Sides : t.child[r][n] \in S \cup {Nil}
    <3>1. \A n \in S, r \in Sides : t.child[r][n] \in S \cup {Nil}
      BY <1>1 DEF Shape, Linked
    <3>2. t.child["left"][Root] \in S \cup {Nil} /\ t.child["right"][Root] = Nil
      BY <1>1 DEF Shape, Rooted, Top
    <3>3. \A r \in Sides : r = "left" \/ r = "right"
      BY DEF Sides
    <3>4. QED
      BY <3>1, <3>2, <3>3
  <2>2. QED
    BY <1>3, <1>4, <2>1
<1>8. \A n \in S : t.parent[n] \in S \cup {Root} /\ new.parent[n] = t.parent[n]
  <2>1. \A n \in S : t.parent[n] \in S \cup {Root}
    BY <1>1, ParentOf
  <2>2. QED
    BY <1>3, <1>4, <2>1
<1>9. Stands(t, S, new, S, pos, back)
  <2>1. new.red \subseteq S /\ \A k \in S : k \in new.red <=> back[k] \in t.red
    BY <1>1, <1>3, <1>6
  <2>2. \A k \in S \cup {Root}, r \in Sides :
           new.child[r][k] \in S \cup {Nil} /\ back[new.child[r][k]] = t.child[r][back[k]]
    BY <1>6, <1>7
  <2>3. \A k \in S : new.parent[k] \in S \cup {Root} /\ back[new.parent[k]] = t.parent[back[k]]
    BY <1>6, <1>8
  <2>4. \A j, k \in S : pos[j] < pos[k] <=> pos[back[j]] < pos[back[k]]
    BY <1>6
  <2>5. \A m \in S : \E k \in S : back[k] = m
    BY <1>6
  <2>6. (\A k \in S : back[k] \in S) /\ \A j, k \in S : back[j] = back[k] => j = k
    BY <1>6
  <2>7. QED
    BY <1>3, <1>4, <1>6, <2>1, <2>2, <2>3, <2>4, <2>5, <2>6 DEF Stands
<1>10. RedBlackTree(new, S, pos)
  BY <1>9, StandsTree
<1>11. QED
  BY <1>2, <1>3, <1>4, <1>10 DEF FreedOf

\* Nothing lies between the two in the order.
Neighbours(S, pos, node, y) ==
    \A m \in S \ {node} : /\ pos[m] < pos[node] <=> pos[m] < pos[y]
                          /\ pos[node] < pos[m] <=> pos[y] < pos[m]

\* A red-black tree with y instead of the node, whose links are gone.
Replaced(t, S, pos, node, y, new) ==
    /\ RedBlackTree(new, (S \ {node}) \cup {y}, pos)
    /\ \A n \in Nodes \ (S \cup {y}) :
           /\ new.parent[n] = t.parent[n]
           /\ \A r \in Sides : new.child[r][n] = t.child[r][n]
    /\ new.parent[node] = NULL /\ \A r \in Sides : new.child[r][node] = NULL
    /\ new.parent[Root] = t.parent[Root]

\* The neighbour y that was spliced out takes the place of the node, which is freed.
LEMMA ReplaceTree ==
    ASSUME NEW t, NEW S, NEW pos, NEW y, TreeBut(t, S, pos, y), y \notin S, y \in Nodes,
           NEW node \in S, Neighbours(S, pos, node, y)
    PROVE  Replaced(t, S, pos, node, y, Freed(Replace(t, node, y), {node}))
<1>1. PICK sub : Shape(t, S, sub, pos) /\ t.red \subseteq S \cup {y}
  BY DEF TreeBut
<1>2. /\ S \subseteq Nodes /\ Root \notin Nodes /\ Nil \notin Nodes /\ Root # Nil
      /\ Nodes \cup {Root, Nil} = Addresses /\ node \in Nodes /\ node # y /\ t \in Trees
      /\ pos \in [Nodes -> Int]
  BY <1>1, Distinct DEF Shape, Placed, Addresses
<1>3. \A n \in S \cup {Root}, r \in Sides : t.child[r][n] \in S \cup {Nil}
  <2>1. \A n \in S, r \in Sides : t.child[r][n] \in S \cup {Nil}
    BY <1>1 DEF Shape, Linked
  <2>2. t.child["left"][Root] \in S \cup {Nil} /\ t.child["right"][Root] = Nil
    BY <1>1 DEF Shape, Rooted, Top
  <2>3. \A r \in Sides : r = "left" \/ r = "right"
    BY DEF Sides
  <2>4. QED
    BY <2>1, <2>2, <2>3
<1>4. PICK p, d : /\ p = t.parent[node] /\ d = SideOf(t, node) /\ d \in Sides
                  /\ p \in S \cup {Root} /\ p # node /\ t.child[d][p] = node
  BY <1>1, <1>2, ParentOf
<1>5. PICK a, b \in S \cup {Nil} : a = t.child["left"][node] /\ b = t.child["right"][node]
  BY <1>3, SidesAre
<1>6. PICK mid : mid = Replace(t, node, y)
  OBVIOUS
<1>7. Replacing(t, mid, node, y, p, d, a, b)
  <2>1. p \in Addresses /\ a \in Addresses /\ b \in Addresses /\ p # y /\ a # y /\ b # y
    BY <1>2, <1>4, <1>5
  <2>2. QED
    BY <1>2, <1>4, <1>5, <1>6, <2>1 DEF Replacing
<1>8. /\ mid \in Trees
      /\ mid.red = (t.red \ {y}) \cup (IF node \in t.red THEN {y} ELSE {})
      /\ \A r \in Sides, n \in Addresses :
             mid.child[r][n] = IF n = p /\ r = d THEN y
                               ELSE IF n = y THEN t.child[r][node] ELSE t.child[r][n]
      /\ \A n \in Addresses :
             mid.parent[n] = IF n = a \/ n = b THEN y ELSE IF n = y THEN p ELSE t.parent[n]
  BY <1>7, ReplaceLinks
<1>9. PICK new : new = Freed(mid, {node})
  OBVIOUS
<1>10. /\ new \in Trees /\ new.red = mid.red \ {node}
       /\ \A r \in Sides, n \in Addresses :
              new.child[r][n] = IF n = node THEN NULL ELSE mid.child[r][n]
       /\ \A n \in Addresses : new.parent[n] = IF n = node THEN NULL ELSE mid.parent[n]
  BY <1>8, <1>9, FreedLinks
<1>11. PICK S1 : S1 = (S \ {node}) \cup {y}
  OBVIOUS
<1>12. PICK back : back = [n \in Addresses |-> IF n = y THEN node ELSE n]
  OBVIOUS
<1>13. back[y] = node /\ \A n \in S \cup {Root, Nil} : back[n] = n
  BY <1>2, <1>12
<1>14. \A k \in S1 : k = y \/ (k \in S /\ k # node /\ k # y)
  BY <1>11
<1>15. ASSUME NEW k \in S1 \cup {Root}, NEW r \in Sides
       PROVE  new.child[r][k] \in S1 \cup {Nil} /\ back[new.child[r][k]] = t.child[r][back[k]]
  <2>1. CASE k = y
    <3>1. PICK c \in S \cup {Nil} : c = t.child[r][node]
      BY <1>3
    <3>2. c # node
      <4>1. t.child[r][node] # Nil => t.child[r][node] # node
        BY <1>1, Child
      <4>2. QED
        BY <1>2, <3>1, <4>1
    <3>3. new.child[r][k] = c
      BY <1>2, <1>4, <1>8, <1>10, <2>1, <3>1
    <3>4. c \in S1 \cup {Nil} /\ back[c] = c /\ back[k] = node
      BY <1>11, <1>13, <2>1, <3>2
    <3>5. QED
      BY <3>1, <3>3, <3>4
  <2>2. CASE k # y
    <3>1. k \in S \cup {Root} /\ k # node /\ back[k] = k /\ k \in Addresses
      BY <1>2, <1>13, <1>14, <2>2
    <3>2. PICK c \in S \cup {Nil} : c = t.child[r][k]
      BY <1>3, <3>1
    <3>3. CASE k = p /\ r = d
      <4>1. new.child[r][k] = y
        BY <1>8, <1>10, <3>1, <3>3
      <4>2. QED
        BY <1>4, <1>11, <1>13, <3>1, <3>3, <4>1
    <3>4. CASE ~(k = p /\ r = d)
      <4>1. c # node
        <5>1. SUFFICES ASSUME c = node PROVE k = p /\ r = d
          BY <3>4
        <5>2. t.child[r][k] # Nil
          BY <1>2, <3>2, <5>1
        <5>3. t.parent[t.child[r][k]] = k /\ SideOf(t, t.child[r][k]) = r
          BY <1>1, <3>1, <5>2, OneParent
        <5>4. QED
          BY <1>4, <3>2, <5>1, <5>3
      <4>2. new.child[r][k] = c
        BY <1>8, <1>10, <2>2, <3>1, <3>2, <3>4
      <4>3. c \in S1 \cup {Nil} /\ back[c] = c
        BY <1>11, <1>13, <4>1
      <4>4. QED
        BY <3>1, <3>2, <4>2, <4>3
    <3>5. QED
      BY <3>3, <3>4
  <2>3. QED
    BY <2>1, <2>2
<1>16. ASSUME NEW k \in S1
       PROVE  new.parent[k] \in S1 \cup {Root} /\ back[new.parent[k]] = t.parent[back[k]]
  <2>1. CASE k = y
    <3>1. k \in Addresses /\ k # a /\ k # b /\ k # node
      BY <1>2, <1>5, <2>1
    <3>2. new.parent[k] = p
      BY <1>8, <1>10, <2>1, <3>1
    <3>3. QED
      BY <1>4, <1>11, <1>13, <2>1, <3>2
  <2>2. CASE k # y
    <3>1. k \in S /\ k # node /\ back[k] = k /\ k \in Addresses /\ k # Nil
      BY <1>2, <1>13, <1>14, <2>2
    <3>2. CASE k = a \/ k = b
      <4>1. new.parent[k] = y
        BY <1>8, <1>10, <3>1, <3>2
      <4>2. t.parent[k] = node
        <5>1. \A r \in Sides : t.child[r][node] # Nil => t.parent[t.child[r][node]] = node
          BY <1>1, Child
        <5>2. QED
          BY <1>5, <3>1, <3>2, <5>1, SidesAre
      <4>3. QED
        BY <1>11, <1>13, <3>1, <4>1, <4>2
    <3>3. CASE ~(k = a \/ k = b)
      <4>1. PICK w : w = t.parent[k] /\ w \in S \cup {Root} /\ t.child[SideOf(t, k)][w] = k
                     /\ SideOf(t, k) \in Sides
        BY <1>1, <3>1, ParentOf
      <4>2. w # node
        <5>1. \A r \in Sides : r = "left" \/ r = "right"
          BY DEF Sides
        <5>2. QED
          BY <1>5, <3>3, <4>1, <5>1
      <4>3. new.parent[k] = w
        BY <1>8, <1>10, <2>2, <3>1, <3>3, <4>1
      <4>4. QED
        BY <1>11, <1>13, <3>1, <4>1, <4>2, <4>3
    <3>4. QED
      BY <3>2, <3>3
  <2>3. QED
    BY <2>1, <2>2
<1>17. new.red \subseteq S1 /\ \A k \in S1 : k \in new.red <=> back[k] \in t.red
  <2>1. \A n : n \in new.red <=> n # node /\ ((n \in t.red /\ n # y) \/ (n = y /\ node \in t.red))
    BY <1>8, <1>10
  <2>2. QED
    BY <1>1, <1>2, <1>11, <1>13, <1>14, <2>1
<1>18. \A j, k \in S1 : pos[j] < pos[k] <=> pos[back[j]] < pos[back[k]]
  <2>1. TAKE j \in S1, k \in S1
  <2>2. \A m \in S \ {node} : /\ pos[m] < pos[node] <=> pos[m] < pos[y]
                              /\ pos[node] < pos[m] <=> pos[y] < pos[m]
    BY DEF Neighbours
  <2>3. ~(pos[node] < pos[node]) /\ ~(pos[y] < pos[y])
    BY <1>2
  <2>4. CASE j = y /\ k = y
    BY <1>13, <2>3, <2>4
  <2>5. CASE j = y /\ k # y
    BY <1>13, <1>14, <2>2, <2>5
  <2>6. CASE j # y /\ k = y
    BY <1>13, <1>14, <2>2, <2>6
  <2>7. CASE j # y /\ k # y
    BY <1>13, <1>14, <2>7
  <2>8. QED
    BY <2>4, <2>5, <2>6, <2>7
<1>19. \A k \in S1 : back[k] \in S
  BY <1>13, <1>14
<1>20. \A m \in S : \E k \in S1 : back[k] = m
  <2>1. TAKE m \in S
  <2>2. CASE m = node
    BY <1>11, <1>13, <2>2
  <2>3. CASE m # node
    BY <1>11, <1>13, <2>3
  <2>4. QED
    BY <2>2, <2>3
<1>21. \A j, k \in S1 : back[j] = back[k] => j = k
  BY <1>13, <1>14
<1>22. Stands(t, S, new, S1, pos, back)
  <2>1. S1 \subseteq Nodes /\ back[Nil] = Nil /\ back[Root] = Root
    BY <1>2, <1>11, <1>13
  <2>2. QED
    BY <1>10, <1>15, <1>16, <1>17, <1>18, <1>19, <1>20, <1>21, <2>1 DEF Stands
<1>23. RedBlackTree(new, S1, pos)
  BY <1>22, StandsTree
<1>24. ASSUME NEW n \in Nodes \ (S \cup {y})
       PROVE  new.parent[n] = t.parent[n] /\ \A r \in Sides : new.child[r][n] = t.child[r][n]
  <2>1. n \in Addresses /\ n # node /\ n # y /\ n # p /\ n # a /\ n # b
    BY <1>2, <1>4, <1>5
  <2>2. QED
    BY <1>8, <1>10, <2>1
<1>25. new.parent[node] = NULL /\ \A r \in Sides : new.child[r][node] = NULL
  BY <1>2, <1>10
<1>26. new.parent[Root] = t.parent[Root]
  <2>1. Root \in Addresses /\ Root # a /\ Root # b /\ Root # y /\ Root # node
    BY <1>2, <1>5
  <2>2. QED
    BY <1>8, <1>10, <2>1
<1>27. QED
  BY <1>6, <1>9, <1>11, <1>23, <1>24, <1>25, <1>26 DEF Replaced

-----------------------------------------------------------------------------
(* rb_tree_remove.                                                           *)

(* If the links of the nodes outside of two trees are the same, each of them *)
(* is.                                                                       *)
LEMMA OutsideIs ==
    ASSUME NEW t, NEW u, NEW S, Outside(t, S) = Outside(u, S)
    PROVE  /\ \A n \in Nodes \ S : /\ t.child["left"][n] = u.child["left"][n]
                                   /\ t.child["right"][n] = u.child["right"][n]
                                   /\ t.parent[n] = u.parent[n]
           /\ t.parent[Root] = u.parent[Root]
<1> DEFINE f == [n \in Nodes \ S |-> <<t.child["left"][n], t.child["right"][n], t.parent[n]>>]
           e == [n \in Nodes \ S |-> <<u.child["left"][n], u.child["right"][n], u.parent[n]>>]
<1>1. <<f, t.parent[Root]>> = <<e, u.parent[Root]>>
  BY Zenon DEF Outside
<1>2. f = e /\ t.parent[Root] = u.parent[Root]
  <2> HIDE DEF f, e
  <2>1. QED
    BY <1>1
<1>3. \A n \in Nodes \ S : f[n] = e[n]
  <2> HIDE DEF f, e
  <2>1. QED
    BY <1>2
<1>4. \A n \in Nodes \ S : f[n] = e[n] => /\ t.child["left"][n] = u.child["left"][n]
                                          /\ t.child["right"][n] = u.child["right"][n]
                                          /\ t.parent[n] = u.parent[n]
  OBVIOUS
<1>5. QED
  BY <1>2, <1>3, <1>4

(* A node with a missing child is spliced out itself.                           *)
LEMMA RemovedEnd ==
    ASSUME NEW t, NEW S, NEW pos, RedBlackTree(t, S, pos), NEW node \in S, Clean(t, S),
           Nil \in {t.child["left"][node], t.child["right"][node]}
    PROVE  /\ RedBlackTree(Removed(t, node), S \ {node}, pos)
           /\ Clean(Removed(t, node), S \ {node})
<1>1. S \subseteq Nodes /\ node \in Nodes
  BY DEF RedBlackTree, Shape, Placed
<1>2. PICK x : \E r \in Sides :
         /\ x = IF t.child["left"][node] = Nil THEN t.child["right"][node]
                ELSE t.child["left"][node]
         /\ t.child[r][node] = x /\ t.child[Opposite(r)][node] = Nil
  <2>1. CASE t.child["left"][node] = Nil
    <3>1. PICK x : x = t.child["right"][node]
      OBVIOUS
    <3>2. t.child[Opposite("right")][node] = Nil /\ "right" \in Sides
      BY <2>1, SidesAre
    <3>3. x = IF t.child["left"][node] = Nil THEN t.child["right"][node]
              ELSE t.child["left"][node]
      BY <2>1, <3>1
    <3>4. QED
      BY <3>1, <3>2, <3>3
  <2>2. CASE t.child["left"][node] # Nil
    <3>1. PICK x : x = t.child["left"][node]
      OBVIOUS
    <3>2. t.child[Opposite("left")][node] = Nil /\ "left" \in Sides
      BY <2>2, SidesAre
    <3>3. x = IF t.child["left"][node] = Nil THEN t.child["right"][node]
              ELSE t.child["left"][node]
      BY <2>2, <3>1
    <3>4. QED
      BY <3>1, <3>2, <3>3
  <2>3. QED
    BY <2>1, <2>2
<1>3. PICK t1, t2 :
         /\ t1 = Spliced(t, x, node)
         /\ t2 = IF node \in t.red THEN t1 ELSE _rb_tree_delete(t1, x)
         /\ TreeBut(t2, S \ {node}, pos, node)
         /\ Outside(t2, S \ {node}) = Outside(t1, S \ {node})
         /\ \A n \in Nodes \ S : /\ t1.child["left"][n] = t.child["left"][n]
                                 /\ t1.child["right"][n] = t.child["right"][n]
                                 /\ t1.parent[n] = t.parent[n]
         /\ t1.parent[Root] = t.parent[Root]
  <2>1. PICK r : OneChild(t, x, node, r)
    BY <1>2 DEF OneChild
  <2>2. PICK t1, t2 : SplicedOut(t, S, pos, x, node, t1, t2)
    BY <2>1, SpliceOut
  <2>3. QED
    BY <2>2 DEF SplicedOut
<1>4. PICK new : new = Freed(t2, {node})
  OBVIOUS
<1>5. Removed(t, node) = new
  <2>1. Removed(t, node) =
          LET y == node
              u == IF t.child["left"][y] = Nil THEN t.child["right"][y] ELSE t.child["left"][y]
              v == Spliced(t, u, y)
          IN  Freed(IF y \in t.red THEN v ELSE _rb_tree_delete(v, u), {node})
    BY Zenon DEF Removed
  <2>2. Removed(t, node) =
          Freed(IF node \in t.red THEN Spliced(t, x, node) ELSE _rb_tree_delete(Spliced(t, x, node), x), {node})
    BY <1>2, <2>1, Zenon
  <2>3. QED
    BY <1>3, <1>4, <2>2, Zenon
<1>6. /\ RedBlackTree(new, S \ {node}, pos)
      /\ \A n \in Nodes \cup {Root} : new.parent[n] = IF n = node THEN NULL ELSE t2.parent[n]
      /\ \A n \in Nodes, d \in Sides : new.child[d][n] = IF n = node THEN NULL ELSE t2.child[d][n]
  <2>1. node \notin S \ {node}
    OBVIOUS
  <2>2. TreeBut(t2, S \ {node}, pos, node)
    BY <1>3
  <2>3. FreedOf(t2, S \ {node}, pos, node, new)
    BY <1>1, <1>4, <2>1, <2>2, FreedTree
  <2>4. QED
    BY <2>3 DEF FreedOf
<1>7. Clean(new, S \ {node})
  <2>1. /\ \A n \in Nodes \ S : t.child["left"][n] = NULL /\ t.child["right"][n] = NULL /\ t.parent[n] = NULL
        /\ t.parent[Root] = Nil
    BY CleanIs
  <2>2. Outside(t2, S \ {node}) = Outside(t1, S \ {node})
    BY <1>3
  <2>3. /\ \A n \in Nodes \ (S \ {node}) :
               /\ t2.child["left"][n] = t1.child["left"][n]
               /\ t2.child["right"][n] = t1.child["right"][n]
               /\ t2.parent[n] = t1.parent[n]
        /\ t2.parent[Root] = t1.parent[Root]
    BY <2>2, OutsideIs
  <2>4. ASSUME NEW n \in Nodes \ (S \ {node})
        PROVE  new.child["left"][n] = NULL /\ new.child["right"][n] = NULL /\ new.parent[n] = NULL
    <3>1. CASE n = node
      BY <1>6, <3>1, SidesAre
    <3>2. CASE n # node
      <4>1. t2.child["left"][n] = NULL /\ t2.child["right"][n] = NULL /\ t2.parent[n] = NULL
        BY <1>3, <2>1, <2>3, <3>2
      <4>2. QED
        BY <1>6, <3>2, <4>1, SidesAre
    <3>3. QED
      BY <3>1, <3>2
  <2>5. new.parent[Root] = Nil
    <3>1. t2.parent[Root] = Nil
      BY <1>3, <2>1, <2>3
    <3>2. Root # node
      BY <1>1, Distinct
    <3>3. QED
      BY <1>6, <3>1, <3>2
  <2>6. QED
    BY <2>4, <2>5, CleanIs
<1>8. QED
  BY <1>5, <1>6, <1>7

(* Of a node with two children the next one is spliced out, and takes its place. *)
LEMMA RemovedInner ==
    ASSUME NEW t, NEW S, NEW pos, RedBlackTree(t, S, pos), NEW node \in S, Clean(t, S),
           Nil \notin {t.child["left"][node], t.child["right"][node]}
    PROVE  /\ RedBlackTree(Removed(t, node), S \ {node}, pos)
           /\ Clean(Removed(t, node), S \ {node})
<1>1. PICK sub : Shape(t, S, sub, pos)
  BY DEF RedBlackTree
<1>2. Placed(S, sub, pos) /\ S \subseteq Nodes /\ node \in Nodes /\ pos \in [Nodes -> Int]
  BY <1>1 DEF Shape, Placed
<1>3. t.child["right"][node] # Nil
  OBVIOUS
<1>4. PICK y \in S : /\ y = _rb_tree_successor(t, node)
                     /\ NextOn(S, pos, "right", node, y) /\ t.child["left"][y] = Nil
  <2>1. _rb_tree_successor(t, node) = Furthest(t, t.child["right"][node], "left")
    BY <1>3 DEF _rb_tree_successor
  <2>2. QED
    BY <1>1, <1>3, <2>1, NextBelow, SidesAre
<1>5. y # node /\ y \in Nodes
  BY <1>2, <1>4, Order, Distinct, SidesAre DEF NextOn
<1>6. PICK x : x = t.child["right"][y]
  OBVIOUS
<1>7. PICK t1, t2 :
         /\ t1 = Spliced(t, x, y)
         /\ t2 = IF y \in t.red THEN t1 ELSE _rb_tree_delete(t1, x)
         /\ TreeBut(t2, S \ {y}, pos, y)
         /\ Outside(t2, S \ {y}) = Outside(t1, S \ {y})
         /\ \A n \in Nodes \ S : /\ t1.child["left"][n] = t.child["left"][n]
                                 /\ t1.child["right"][n] = t.child["right"][n]
                                 /\ t1.parent[n] = t.parent[n]
         /\ t1.parent[Root] = t.parent[Root]
  <2>1. t.child["right"][y] = x /\ t.child[Opposite("right")][y] = Nil /\ "right" \in Sides
    BY <1>4, <1>6, SidesAre
  <2>2. PICK r : OneChild(t, x, y, r)
    BY <2>1 DEF OneChild
  <2>3. PICK t1, t2 : SplicedOut(t, S, pos, x, y, t1, t2)
    BY <2>2, SpliceOut
  <2>4. QED
    BY <2>3 DEF SplicedOut
<1>8. PICK S1 : S1 = S \ {y}
  OBVIOUS
<1>9. PICK new : new = Freed(Replace(t2, node, y), {node})
  OBVIOUS
<1>10. Removed(t, node) = new
  <2>1. Removed(t, node) =
          LET a == y
              u == IF t.child["left"][a] = Nil THEN t.child["right"][a] ELSE t.child["left"][a]
              v == Spliced(t, u, a)
              w == IF a \in t.red THEN v ELSE _rb_tree_delete(v, u)
          IN  Freed(IF a = node THEN w ELSE Replace(w, node, a), {node})
    BY <1>4, Zenon DEF Removed
  <2>2. Removed(t, node) =
          Freed(Replace(IF y \in t.red THEN Spliced(t, x, y)
                        ELSE _rb_tree_delete(Spliced(t, x, y), x), node, y), {node})
    BY <1>4, <1>5, <1>6, <2>1, Zenon
  <2>3. QED
    BY <1>7, <1>9, <2>2, Zenon
<1>11. TreeBut(t2, S1, pos, y) /\ Outside(t2, S1) = Outside(t1, S1)
  BY <1>7, <1>8
<1>12. node \in S1 /\ y \notin S1 /\ (S1 \ {node}) \cup {y} = S \ {node} /\ S1 \cup {y} = S
  BY <1>5, <1>8
<1>13. Neighbours(S1, pos, node, y)
  <2> SUFFICES ASSUME NEW m \in S1 \ {node}
               PROVE  /\ pos[m] < pos[node] <=> pos[m] < pos[y]
                      /\ pos[node] < pos[m] <=> pos[y] < pos[m]
    BY DEF Neighbours
  <2>1. m \in S /\ m # y /\ m # node /\ m \in Nodes
    BY <1>2, <1>8
  <2>2. "right" # "left" /\ y # Nil
    BY <1>5, Distinct
  <2>3. /\ pos[node] < pos[y]
        /\ pos[node] < pos[m] => pos[y] < pos[m]
    BY <1>4, <2>1, <2>2 DEF NextOn, On
  <2>4. pos[m] # pos[node] /\ pos[m] # pos[y]
    BY <1>2, <2>1 DEF Placed
  <2>5. pos[m] \in Int /\ pos[node] \in Int /\ pos[y] \in Int
    BY <1>2, <1>5, <2>1
  <2>6. QED
    BY <2>3, <2>4, <2>5
<1>14. /\ RedBlackTree(new, (S1 \ {node}) \cup {y}, pos)
       /\ \A n \in Nodes \ (S1 \cup {y}) :
              /\ new.parent[n] = t2.parent[n]
              /\ \A r \in Sides : new.child[r][n] = t2.child[r][n]
       /\ new.parent[node] = NULL /\ \A r \in Sides : new.child[r][node] = NULL
       /\ new.parent[Root] = t2.parent[Root]
  <2>1. /\ TreeBut(t2, S1, pos, y) /\ y \notin S1 /\ y \in Nodes /\ node \in S1
        /\ Neighbours(S1, pos, node, y)
    BY <1>5, <1>11, <1>12, <1>13
  <2>2. Replaced(t2, S1, pos, node, y, new)
    BY <1>9, <2>1, ReplaceTree
  <2>3. QED
    BY <2>2 DEF Replaced
<1>15. Clean(new, S \ {node})
  <2>1. /\ \A n \in Nodes \ S : t.child["left"][n] = NULL /\ t.child["right"][n] = NULL /\ t.parent[n] = NULL
        /\ t.parent[Root] = Nil
    BY CleanIs
  <2>2. /\ \A n \in Nodes \ S1 : /\ t2.child["left"][n] = t1.child["left"][n]
                                 /\ t2.child["right"][n] = t1.child["right"][n]
                                 /\ t2.parent[n] = t1.parent[n]
        /\ t2.parent[Root] = t1.parent[Root]
    BY <1>11, OutsideIs
  <2>3. ASSUME NEW n \in Nodes \ (S \ {node})
        PROVE  new.child["left"][n] = NULL /\ new.child["right"][n] = NULL /\ new.parent[n] = NULL
    <3>1. CASE n = node
      BY <1>14, <3>1, SidesAre
    <3>2. CASE n # node
      <4>1. n \in Nodes \ S /\ n \in Nodes \ S1 /\ n \in Nodes \ (S1 \cup {y})
        BY <1>8, <1>12, <3>2
      <4>2. t2.child["left"][n] = NULL /\ t2.child["right"][n] = NULL /\ t2.parent[n] = NULL
        BY <1>7, <2>1, <2>2, <4>1
      <4>3. QED
        BY <1>14, <4>1, <4>2, SidesAre
    <3>3. QED
      BY <3>1, <3>2
  <2>4. new.parent[Root] = Nil
    BY <1>7, <1>14, <2>1, <2>2
  <2>5. QED
    BY <2>3, <2>4, CleanIs
<1>16. QED
  BY <1>10, <1>12, <1>14, <1>15

(* rb_tree_remove: of a red-black tree it makes one of the other nodes in    *)
(* the same order, and leaves no link to or from the node.  With two         *)
(* children it is the next node that is spliced out, which takes the node's  *)
(* place after the balance was restored.                                     *)
LEMMA RemovedIs ==
    ASSUME NEW t, NEW S, NEW pos, RedBlackTree(t, S, pos), NEW node \in S, Clean(t, S)
    PROVE  /\ RedBlackTree(Removed(t, node), S \ {node}, pos)
           /\ Clean(Removed(t, node), S \ {node})
  BY RemovedEnd, RemovedInner

-----------------------------------------------------------------------------
(* The operators of RbTree that go down the tree recursively, and the order. *)

\* The functions that Below and BlackHeight define, of any tree.
BelowOf(t, S, f) ==
    [n \in S \cup {Nil} |-> IF n = Nil THEN {}
                            ELSE {n} \cup f[t.child["left"][n]] \cup f[t.child["right"][n]]]
HeightOf(t, S, f) ==
    [n \in S \cup {Nil} |-> IF n = Nil THEN 0
                            ELSE f[t.child["left"][n]] + (IF n \in t.red THEN 0 ELSE 1)]
BelowIn(t, S, x) == (CHOOSE f : f = BelowOf(t, S, f))[x]
HeightIn(t, S, x) == (CHOOSE f : f = HeightOf(t, S, f))[x]

\* A subtree is its root and the subtrees of the children.
LEMMA BelowStep ==
    ASSUME NEW t, NEW S, NEW sub, NEW pos, Shape(t, S, sub, pos), NEW n \in S
    PROVE  sub[n] = {n} \cup sub[t.child["left"][n]] \cup sub[t.child["right"][n]]
<1>1. n \in sub[n] /\ "left" \in Sides /\ "right" \in Sides
  BY SidesAre DEF Shape, Placed
<1>2. sub[t.child["left"][n]] \subseteq sub[n] /\ sub[t.child["right"][n]] \subseteq sub[n]
  BY <1>1, Child
<1>3. ASSUME NEW m \in sub[n], m # n
      PROVE  m \in sub[t.child["left"][n]] \/ m \in sub[t.child["right"][n]]
  <2>1. PICK s \in Sides : m \in sub[t.child[s][n]]
    BY <1>3, Descend
  <2>2. s = "left" \/ s = "right"
    BY DEF Sides
  <2>3. QED
    BY <2>1, <2>2
<1>4. QED
  BY <1>1, <1>2, <1>3

(* Below is the subtree: induction from the ends of the tree, where a        *)
(* function that satisfies the equation has only one value.                  *)
LEMMA BelowIs ==
    ASSUME NEW t, NEW S, NEW sub, NEW pos, Shape(t, S, sub, pos), NEW x \in S \cup {Nil}
    PROVE  BelowIn(t, S, x) = sub[x]
<1>1. Nil \notin S /\ sub[Nil] = {} /\ S \subseteq Nodes
  BY Distinct DEF Shape, Placed
<1>2. \A n \in S : t.child["left"][n] \in S \cup {Nil} /\ t.child["right"][n] \in S \cup {Nil}
  BY SidesAre DEF Shape, Linked
<1>3. \E f : f = BelowOf(t, S, f)
  <2> DEFINE g == [n \in S \cup {Nil} |-> sub[n]]
  <2>1. \A n \in S \cup {Nil} : g[n] = sub[n]
    OBVIOUS
  <2>2. \A n \in S \cup {Nil} :
           sub[n] = IF n = Nil THEN {}
                    ELSE {n} \cup g[t.child["left"][n]] \cup g[t.child["right"][n]]
    <3> HIDE DEF g
    <3>1. TAKE n \in S \cup {Nil}
    <3>2. CASE n = Nil
      BY <1>1, <3>2
    <3>3. CASE n # Nil
      <4>1. n \in S
        BY <3>3
      <4>2. /\ g[t.child["left"][n]] = sub[t.child["left"][n]]
            /\ g[t.child["right"][n]] = sub[t.child["right"][n]]
        BY <1>2, <2>1, <4>1
      <4>3. sub[n] = {n} \cup sub[t.child["left"][n]] \cup sub[t.child["right"][n]]
        BY <4>1, BelowStep
      <4>4. QED
        BY <3>3, <4>2, <4>3
    <3>4. QED
      BY <3>2, <3>3
  <2>3. g = BelowOf(t, S, g)
    <3> DEFINE h == BelowOf(t, S, g)
    <3>1. h = [n \in S \cup {Nil} |-> IF n = Nil THEN {}
                            ELSE {n} \cup g[t.child["left"][n]] \cup g[t.child["right"][n]]]
      BY Zenon DEF BelowOf
    <3>2. \A n \in S \cup {Nil} : h[n] = sub[n]
      <4> HIDE DEF g, h
      <4>1. QED
        BY <2>2, <3>1
    <3>3. h = [n \in S \cup {Nil} |-> sub[n]]
      <4> DEFINE e(n) == IF n = Nil THEN {}
                         ELSE {n} \cup g[t.child["left"][n]] \cup g[t.child["right"][n]]
      <4>1. \A n \in S \cup {Nil} : e(n) = sub[n]
        <5> HIDE DEF g
        <5>1. QED
          BY <2>2
      <4>2. h = [n \in S \cup {Nil} |-> e(n)]
        BY <3>1
      <4> HIDE DEF e, h, g
      <4>3. QED
        BY <4>1, <4>2
    <3>4. QED
      BY <3>3
  <2>4. QED
    BY <2>3
<1>4. PICK f : f = (CHOOSE any : any = BelowOf(t, S, any))
  OBVIOUS
<1>5. f = BelowOf(t, S, f)
  BY <1>3, <1>4, Zenon
<1>6. \A n \in S \cup {Nil} :
         f[n] = IF n = Nil THEN {}
                ELSE {n} \cup f[t.child["left"][n]] \cup f[t.child["right"][n]]
  BY <1>5 DEF BelowOf
<1>7. \A n \in S : f[n] = sub[n]
  <2> DEFINE wrong == {n \in S : f[n] # sub[n]}
  <2> SUFFICES ASSUME wrong # {} PROVE FALSE
    OBVIOUS
  <2>1. PICK n \in wrong : \A s \in Sides : t.child[s][n] \notin wrong
    <3>1. wrong \in SUBSET S
      OBVIOUS
    <3> HIDE DEF wrong
    <3>2. QED
      BY <3>1, Lowest
  <2>2. n \in S /\ n # Nil
    BY <1>1
  <2>3. f[Nil] = sub[Nil]
    BY <1>1, <1>6
  <2>4. /\ f[t.child["left"][n]] = sub[t.child["left"][n]]
        /\ f[t.child["right"][n]] = sub[t.child["right"][n]]
    BY <1>2, <2>1, <2>2, <2>3, SidesAre
  <2>5. sub[n] = {n} \cup sub[t.child["left"][n]] \cup sub[t.child["right"][n]]
    BY <2>2, BelowStep
  <2>6. f[n] = {n} \cup f[t.child["left"][n]] \cup f[t.child["right"][n]]
    BY <1>6, <2>2
  <2>7. f[n] = sub[n]
    BY <2>4, <2>5, <2>6
  <2>8. QED
    BY <2>7
<1>8. f[x] = sub[x]
  BY <1>1, <1>6, <1>7
<1>9. QED
  BY <1>4, <1>8, Zenon DEF BelowIn

(* BlackHeight is the number of black nodes on any way down, by the same     *)
(* induction.                                                                *)
LEMMA HeightIs ==
    ASSUME NEW t, NEW S, NEW sub, NEW pos, Shape(t, S, sub, pos),
           NEW bh, Balanced(t, S, bh), NEW x \in S \cup {Nil}
    PROVE  HeightIn(t, S, x) = bh[x]
<1>1. Nil \notin S /\ bh[Nil] = 0 /\ S \subseteq Nodes
      /\ \A n \in S, r \in Sides : bh[n] = bh[t.child[r][n]] + Black(t, n)
  BY Distinct DEF Shape, Placed, Balanced
<1>2. \A n \in S : t.child["left"][n] \in S \cup {Nil}
  BY SidesAre DEF Shape, Linked
<1>3. \A n \in S : bh[n] = bh[t.child["left"][n]] + (IF n \in t.red THEN 0 ELSE 1)
  BY <1>1, SidesAre DEF Black
<1>4. \E f : f = HeightOf(t, S, f)
  <2> DEFINE g == [n \in S \cup {Nil} |-> bh[n]]
             e(n) == IF n = Nil THEN 0
                     ELSE g[t.child["left"][n]] + (IF n \in t.red THEN 0 ELSE 1)
  <2>1. \A n \in S \cup {Nil} : g[n] = bh[n]
    OBVIOUS
  <2>2. \A n \in S \cup {Nil} : e(n) = bh[n]
    <3> HIDE DEF g
    <3>1. TAKE n \in S \cup {Nil}
    <3>2. CASE n = Nil
      BY <1>1, <3>2
    <3>3. CASE n # Nil
      <4>1. n \in S
        BY <3>3
      <4>2. g[t.child["left"][n]] = bh[t.child["left"][n]]
        BY <1>2, <2>1, <4>1
      <4>3. QED
        BY <1>3, <3>3, <4>1, <4>2
    <3>4. QED
      BY <3>2, <3>3
  <2>3. HeightOf(t, S, g) = [n \in S \cup {Nil} |-> e(n)]
    BY Zenon DEF HeightOf
  <2>4. [n \in S \cup {Nil} |-> e(n)] = [n \in S \cup {Nil} |-> bh[n]]
    <3> HIDE DEF e
    <3>1. QED
      BY <2>2
  <2>5. g = HeightOf(t, S, g)
    <3>1. g = [n \in S \cup {Nil} |-> bh[n]]
      OBVIOUS
    <3> HIDE DEF g, e
    <3>2. QED
      BY <2>3, <2>4, <3>1, Zenon
  <2>6. QED
    BY <2>5
<1>5. PICK f : f = (CHOOSE any : any = HeightOf(t, S, any))
  OBVIOUS
<1>6. f = HeightOf(t, S, f)
  BY <1>4, <1>5, Zenon
<1>7. \A n \in S \cup {Nil} :
         f[n] = IF n = Nil THEN 0 ELSE f[t.child["left"][n]] + (IF n \in t.red THEN 0 ELSE 1)
  BY <1>6 DEF HeightOf
<1>8. \A n \in S : f[n] = bh[n]
  <2> DEFINE wrong == {n \in S : f[n] # bh[n]}
  <2> SUFFICES ASSUME wrong # {} PROVE FALSE
    OBVIOUS
  <2>1. PICK n \in wrong : \A s \in Sides : t.child[s][n] \notin wrong
    <3>1. wrong \in SUBSET S
      OBVIOUS
    <3> HIDE DEF wrong
    <3>2. QED
      BY <3>1, Lowest
  <2>2. n \in S /\ n # Nil
    BY <1>1
  <2>3. f[Nil] = bh[Nil]
    BY <1>1, <1>7
  <2>4. f[t.child["left"][n]] = bh[t.child["left"][n]]
    BY <1>2, <2>1, <2>2, <2>3, SidesAre
  <2>5. f[n] = bh[n]
    BY <1>3, <1>7, <2>2, <2>4
  <2>6. QED
    BY <2>5
<1>9. f[x] = bh[x]
  BY <1>1, <1>7, <1>8
<1>10. QED
  BY <1>5, <1>9, Zenon DEF HeightIn

Pairs(t, S) ==
    UNION {({a} \cup BelowIn(t, S, t.child["left"][a])) \X ({a} \cup BelowIn(t, S, t.child["right"][a])) :
               a \in S}
BeforeIn(t, S) == Pairs(t, S) \ {<<a, a>> : a \in S}

\* The pairs of nodes in the order of their places.
InOrder(S, pos) == {pair \in S \X S : pos[pair[1]] < pos[pair[2]]}

\* Two nodes are, or are below, different children of the lowest node above both.
LEMMA Between ==
    ASSUME NEW t, NEW S, NEW sub, NEW pos, Shape(t, S, sub, pos),
           NEW m \in S, NEW n \in S, pos[m] < pos[n]
    PROVE  \E a \in S : /\ m = a \/ m \in sub[t.child["left"][a]]
                        /\ n = a \/ n \in sub[t.child["right"][a]]
<1> DEFINE wrong == {a \in S : m \in sub[a] /\ n \in sub[a]}
<1>1. Placed(S, sub, pos) /\ pos \in [Nodes -> Int] /\ S \subseteq Nodes
  BY DEF Shape, Placed
<1>2. wrong # {}
  <2>1. sub[Top(t)] = S /\ Top(t) \in S \cup {Nil} /\ sub[Nil] = {}
    BY <1>1 DEF Shape, Rooted, Placed
  <2>2. Top(t) \in S
    BY <2>1
  <2>3. QED
    BY <2>1, <2>2
<1>3. PICK a \in wrong : \A s \in Sides : t.child[s][a] \notin wrong
  <2>1. wrong \in SUBSET S
    OBVIOUS
  <2> HIDE DEF wrong
  <2>2. QED
    BY <1>2, <2>1, Lowest
<1>4. a \in S /\ m \in sub[a] /\ n \in sub[a]
  OBVIOUS
<1>5. pos[m] \in Int /\ pos[n] \in Int /\ pos[a] \in Int
  BY <1>1, <1>4
<1>6. m # a => \E s \in Sides : On(pos, s, m, a) /\ m \in sub[t.child[s][a]] /\ t.child[s][a] \in S
  BY <1>4, Descend
<1>7. n # a => \E s \in Sides : On(pos, s, n, a) /\ n \in sub[t.child[s][a]] /\ t.child[s][a] \in S
  BY <1>4, Descend
<1>8. \A s \in Sides : t.child[s][a] \in S =>
          ~(m \in sub[t.child[s][a]] /\ n \in sub[t.child[s][a]])
  BY <1>3
<1>9. \A s \in Sides : s = "left" \/ s = "right"
  BY DEF Sides
<1>10. ASSUME m # a PROVE m \in sub[t.child["left"][a]]
  <2>1. PICK s \in Sides : On(pos, s, m, a) /\ m \in sub[t.child[s][a]] /\ t.child[s][a] \in S
    BY <1>6, <1>10
  <2>2. CASE s = "right"
    <3>1. pos[a] < pos[m]
      BY <2>1, <2>2, SidesAre DEF On
    <3>2. n # a /\ pos[a] < pos[n]
      BY <1>5, <3>1
    <3>3. PICK r \in Sides : On(pos, r, n, a) /\ n \in sub[t.child[r][a]] /\ t.child[r][a] \in S
      BY <1>7, <3>2
    <3>4. r # "left"
      BY <1>5, <3>2, <3>3 DEF On
    <3>5. r = s
      BY <1>9, <2>2, <3>4
    <3>6. QED
      BY <1>8, <2>1, <3>3, <3>5
  <2>3. QED
    BY <1>9, <2>1, <2>2
<1>11. ASSUME n # a PROVE n \in sub[t.child["right"][a]]
  <2>1. PICK s \in Sides : On(pos, s, n, a) /\ n \in sub[t.child[s][a]] /\ t.child[s][a] \in S
    BY <1>7, <1>11
  <2>2. CASE s = "left"
    <3>1. pos[n] < pos[a]
      BY <2>1, <2>2 DEF On
    <3>2. m # a /\ pos[m] < pos[a]
      BY <1>5, <3>1
    <3>3. PICK r \in Sides : On(pos, r, m, a) /\ m \in sub[t.child[r][a]] /\ t.child[r][a] \in S
      BY <1>6, <3>2
    <3>4. r # "right"
      BY <1>5, <3>2, <3>3, SidesAre DEF On
    <3>5. r = s
      BY <1>9, <2>2, <3>4
    <3>6. QED
      BY <1>8, <2>1, <3>3, <3>5
  <2>3. QED
    BY <1>9, <2>1, <2>2
<1>12. QED
  BY <1>4, <1>10, <1>11

\* A node below the left child of another comes before it, one below the right after.
LEMMA BelowSides ==
    ASSUME NEW t, NEW S, NEW sub, NEW pos, Shape(t, S, sub, pos), NEW a \in S
    PROVE  /\ BelowIn(t, S, t.child["left"][a]) = sub[t.child["left"][a]]
           /\ BelowIn(t, S, t.child["right"][a]) = sub[t.child["right"][a]]
           /\ \A m \in sub[t.child["left"][a]] : m \in S /\ pos[m] < pos[a]
           /\ \A m \in sub[t.child["right"][a]] : m \in S /\ pos[a] < pos[m]
<1>1. t.child["left"][a] \in S \cup {Nil} /\ t.child["right"][a] \in S \cup {Nil}
  BY SidesAre DEF Shape, Linked
<1>2. \A s \in Sides : \A m \in sub[t.child[s][a]] : m \in S /\ On(pos, s, m, a)
  <2>1. TAKE s \in Sides
  <2>2. \A m \in S : m \in sub[t.child[s][a]] <=> m \in sub[a] /\ On(pos, s, m, a)
    BY DEF Shape, Linked
  <2>3. sub[t.child[s][a]] \subseteq S
    BY Child
  <2>4. QED
    BY <2>2, <2>3
<1>3. BelowIn(t, S, t.child["left"][a]) = sub[t.child["left"][a]]
  BY <1>1, BelowIs
<1>4. BelowIn(t, S, t.child["right"][a]) = sub[t.child["right"][a]]
  BY <1>1, BelowIs
<1>5. QED
  BY <1>2, <1>3, <1>4, SidesAre DEF On

\* The order that the links make is the one of the places.
LEMMA BeforeIs ==
    ASSUME NEW t, NEW S, NEW sub, NEW pos, Shape(t, S, sub, pos)
    PROVE  BeforeIn(t, S) = InOrder(S, pos)
<1>1. pos \in [Nodes -> Int] /\ S \subseteq Nodes
  BY DEF Shape, Placed
<1> DEFINE part(a) == ({a} \cup BelowIn(t, S, t.child["left"][a]))
                         \X ({a} \cup BelowIn(t, S, t.child["right"][a]))
<1>2. \A pair : pair \in Pairs(t, S) <=> \E a \in S : pair \in part(a)
  BY Zenon DEF Pairs
<1>3. ASSUME NEW a \in S, NEW pair \in part(a), pair \notin {<<b, b>> : b \in S}
      PROVE  pair \in InOrder(S, pos)
  <2>1. PICK m, n : /\ pair = <<m, n>>
                    /\ m = a \/ m \in sub[t.child["left"][a]]
                    /\ n = a \/ n \in sub[t.child["right"][a]]
    <3>1. /\ BelowIn(t, S, t.child["left"][a]) = sub[t.child["left"][a]]
          /\ BelowIn(t, S, t.child["right"][a]) = sub[t.child["right"][a]]
      BY BelowSides
    <3>2. PICK L, R : L = sub[t.child["left"][a]] /\ R = sub[t.child["right"][a]]
      OBVIOUS
    <3>3. pair \in ({a} \cup L) \X ({a} \cup R)
      BY <3>1, <3>2, Zenon
    <3>4. \E m \in {a} \cup L, n \in {a} \cup R : pair = <<m, n>>
      BY <3>3
    <3>5. QED
      BY <3>2, <3>4
  <2>2. /\ m \in S /\ n \in S
        /\ m = a \/ pos[m] < pos[a]
        /\ n = a \/ pos[a] < pos[n]
    BY <2>1, BelowSides
  <2>3. ~(m = a /\ n = a)
    BY <1>3, <2>1
  <2>4. pos[m] \in Int /\ pos[n] \in Int /\ pos[a] \in Int
    BY <1>1, <2>2
  <2>5. pos[m] < pos[n]
    BY <2>2, <2>3, <2>4
  <2>6. pair \in S \X S /\ pair[1] = m /\ pair[2] = n
    BY <2>1, <2>2
  <2>7. QED
    BY <2>5, <2>6 DEF InOrder
<1>4. ASSUME NEW pair \in InOrder(S, pos)
      PROVE  (\E a \in S : pair \in part(a)) /\ pair \notin {<<b, b>> : b \in S}
  <2>1. PICK m \in S, n \in S : pair = <<m, n>> /\ pos[m] < pos[n]
    BY DEF InOrder
  <2>2. PICK a \in S : /\ m = a \/ m \in sub[t.child["left"][a]]
                       /\ n = a \/ n \in sub[t.child["right"][a]]
    BY <2>1, Between
  <2>3. pair \in part(a)
    <3>1. /\ BelowIn(t, S, t.child["left"][a]) = sub[t.child["left"][a]]
          /\ BelowIn(t, S, t.child["right"][a]) = sub[t.child["right"][a]]
      BY BelowSides
    <3>2. PICK L, R : L = sub[t.child["left"][a]] /\ R = sub[t.child["right"][a]]
      OBVIOUS
    <3>3. <<m, n>> \in ({a} \cup L) \X ({a} \cup R)
      BY <2>2, <3>2
    <3>4. QED
      BY <2>1, <3>1, <3>2, <3>3, Zenon
  <2>4. m # n
    BY <1>1, <2>1
  <2>5. pair \notin {<<b, b>> : b \in S}
    BY <2>1, <2>4
  <2>6. QED
    BY <2>3, <2>5
<1>5. QED
  <2> HIDE DEF part
  <2>1. \A pair : pair \in BeforeIn(t, S) <=> pair \in InOrder(S, pos)
    <3>1. TAKE pair
    <3>2. pair \in BeforeIn(t, S) <=> /\ \E a \in S : pair \in part(a)
                                      /\ pair \notin {<<b, b>> : b \in S}
      <4>1. pair \in BeforeIn(t, S) <=> /\ pair \in Pairs(t, S)
                                        /\ pair \notin {<<b, b>> : b \in S}
        BY DEF BeforeIn
      <4>2. QED
        BY <1>2, <4>1
    <3>3. QED
      BY <1>3, <1>4, <3>2
  <2>2. QED
    BY <2>1, Zenon

\* The same order, seen from one pair.
LEMMA InOrderIs ==
    ASSUME NEW S, NEW pos, NEW m \in S, NEW n \in S
    PROVE  <<m, n>> \in InOrder(S, pos) <=> On(pos, "left", m, n)
  BY DEF InOrder, On

\* The order of the state's tree.
LEMMA StateOrder == Before = BeforeIn(tree, allocated)
  BY Zenon DEF Before, BeforeIn, Pairs, Below, BelowIn, BelowOf

-----------------------------------------------------------------------------
(* The operations and the order.                                             *)

\* A red-black tree of the nodes in S, in the order of their keys, and no other node linked.
Kempt(t, S, pos) == RedBlackTree(t, S, pos) /\ Sorted(S, pos) /\ Clean(t, S)

\* A tree without nodes is a red-black tree.
LEMMA EmptyTree ==
    ASSUME NEW t \in Trees, Top(t) = Nil, t.child["right"][Root] = Nil, t.red = {}, Clean(t, {})
    PROVE  \E pos : Kempt(t, {}, pos)
<1>1. PICK sub, pos, bh : /\ sub = [n \in Nodes \cup {Nil} |-> {}]
                          /\ pos = [n \in Nodes |-> 0] /\ bh = [n \in Nodes \cup {Nil} |-> 0]
  OBVIOUS
<1>2. /\ sub \in [Nodes \cup {Nil} -> SUBSET {}] /\ sub[Nil] = {}
      /\ pos \in [Nodes -> Int] /\ bh \in [Nodes \cup {Nil} -> Nat] /\ bh[Nil] = 0
  BY <1>1
<1>3. Shape(t, {}, sub, pos)
  BY <1>2 DEF Shape, Placed, Rooted, Linked
<1>4. Balanced(t, {}, bh) /\ Clashless(t, {}, Nil)
  BY <1>2 DEF Balanced, Clashless
<1>5. RedBlackTree(t, {}, pos)
  BY <1>3, <1>4 DEF RedBlackTree
<1>6. Sorted({}, pos)
  BY DEF Sorted
<1>7. QED
  BY <1>5, <1>6 DEF Kempt

\* The tree with nothing below the sentinel.
Emptying(t, empty, mid) ==
    /\ empty = [t.child EXCEPT !["left"][Root] = Nil]
    /\ mid = [child |-> empty, parent |-> t.parent, red |-> t.red]

\* Without its nodes the tree is an empty one.
LEMMA ReleasedIs ==
    ASSUME NEW t, NEW S, NEW pos, Kempt(t, S, pos), NEW empty, NEW mid, Emptying(t, empty, mid)
    PROVE  \E pos1 : Kempt(Freed(mid, S), {}, pos1)
<1>1. PICK sub : Shape(t, S, sub, pos) /\ t.red \subseteq S
  BY DEF Kempt, RedBlackTree
<1>2. /\ t \in Trees /\ t.child["right"][Root] = Nil /\ Root \notin S /\ S \subseteq Nodes
      /\ Root \in Addresses /\ Nil \in Addresses /\ Nodes \subseteq Addresses
  BY <1>1, Distinct DEF Shape, Rooted, Placed, Addresses
<1>3. /\ t.child \in [Sides -> [Addresses -> Addresses \cup {NULL}]]
      /\ t.parent \in [Addresses -> Addresses \cup {NULL}] /\ t.red \in SUBSET Addresses
  BY <1>2 DEF Trees
<1>4. /\ empty \in [Sides -> [Addresses -> Addresses \cup {NULL}]]
      /\ empty["left"][Root] = Nil /\ empty["right"][Root] = Nil
      /\ \A n \in Nodes, s \in Sides : empty[s][n] = t.child[s][n]
  BY <1>2, <1>3, Distinct, SidesAre DEF Emptying
<1>5. mid \in Trees /\ mid.child = empty /\ mid.parent = t.parent /\ mid.red = t.red
  BY <1>3, <1>4 DEF Trees, Emptying
<1>6. PICK new : new = Freed(mid, S)
  OBVIOUS
<1>7. /\ new \in Trees /\ new.red = mid.red \ S
      /\ \A r \in Sides, n \in Addresses :
             new.child[r][n] = IF n \in S THEN NULL ELSE mid.child[r][n]
      /\ \A n \in Addresses : new.parent[n] = IF n \in S THEN NULL ELSE mid.parent[n]
  <2>1. mid \in Trees
    BY <1>5
  <2>2. QED
    BY <1>6, <2>1, FreedLinks
<1>8. Top(new) = Nil /\ new.child["right"][Root] = Nil
  BY <1>2, <1>4, <1>5, <1>7, SidesAre DEF Top
<1>9. new.red = {}
  BY <1>1, <1>5, <1>7
<1>10. Clean(new, {})
  <2>1. /\ \A n \in Nodes \ S : t.child["left"][n] = NULL /\ t.child["right"][n] = NULL /\ t.parent[n] = NULL
        /\ t.parent[Root] = Nil
    BY CleanIs DEF Kempt
  <2>2. ASSUME NEW n \in Nodes \ {}
        PROVE  new.child["left"][n] = NULL /\ new.child["right"][n] = NULL /\ new.parent[n] = NULL
    <3>1. n \in Addresses /\ n \in Nodes
      BY <1>2
    <3>2. CASE n \in S
      BY <1>7, <3>1, <3>2, SidesAre
    <3>3. CASE n \notin S
      <4>1. mid.child["left"][n] = NULL /\ mid.child["right"][n] = NULL /\ mid.parent[n] = NULL
        BY <1>4, <1>5, <2>1, <3>1, <3>3, SidesAre
      <4>2. QED
        BY <1>7, <3>1, <3>3, <4>1, SidesAre
    <3>4. QED
      BY <3>2, <3>3
  <2>3. new.parent[Root] = Nil
    BY <1>2, <1>5, <1>7, <2>1
  <2>4. QED
    BY <2>2, <2>3, CleanIs
<1>11. QED
  BY <1>6, <1>7, <1>8, <1>9, <1>10, EmptyTree

(* The last of some nodes is returned when its key is not too low, and then so   *)
(* is every lower one's.                                                      *)
LEMMA LastOf ==
    ASSUME NEW S, NEW sub, NEW pos, Placed(S, sub, pos), Sorted(S, pos),
           NEW nodes \in SUBSET S, NEW r \in S \cup {Nil},
           r = Nil => nodes = {},
           r # Nil => r \in nodes /\ \A m \in nodes : m = r \/ On(pos, "left", m, r),
           NEW low, low = NULL \/ low \in Int
    PROVE  IsLast(IF r # Nil /\ (low = NULL \/ low <= KeyOf[r]) THEN r ELSE NULL,
                  nodes, low, InOrder(S, pos))
<1>1. \A n \in S : KeyOf[n] \in Int /\ n # Nil
  BY Distinct, TreeAssumption DEF Placed
<1>2. PICK n : n = IF r # Nil /\ (low = NULL \/ low <= KeyOf[r]) THEN r ELSE NULL
  OBVIOUS
<1>3. CASE \E m \in nodes : low = NULL \/ low <= KeyOf[m]
  <2>1. PICK m \in nodes : low = NULL \/ low <= KeyOf[m]
    BY <1>3
  <2>2. r # Nil /\ r \in nodes
    BY <2>1
  <2>3. m = r \/ KeyOf[m] <= KeyOf[r]
    BY <2>1, <2>2 DEF Sorted, On
  <2>4. low = NULL \/ low <= KeyOf[r]
    BY <1>1, <2>1, <2>2, <2>3
  <2>5. n = r
    BY <1>2, <2>2, <2>4
  <2>6. \A k \in nodes \ {n} : <<k, n>> \in InOrder(S, pos)
    BY <2>2, <2>5, InOrderIs
  <2>7. QED
    BY <1>2, <1>3, <2>2, <2>4, <2>5, <2>6 DEF IsLast
<1>4. CASE ~\E m \in nodes : low = NULL \/ low <= KeyOf[m]
  <2>1. n = NULL
    BY <1>2, <1>4
  <2>2. QED
    BY <1>2, <1>4, <2>1 DEF IsLast
<1>5. QED
  BY <1>3, <1>4

\* The new node is the only one whose place is new.
LEMMA InsertOrder ==
    ASSUME NEW S, NEW pos, NEW pos1, NEW z, z \notin S, Filed(S, pos, pos1, z),
           pos1[z] \in Int
    PROVE  InOrder(S \cup {z}, pos1)
             = InOrder(S, pos) \cup {<<m, z>> : m \in {e \in S : KeyOf[e] <= KeyOf[z]}}
                               \cup {<<z, m>> : m \in {e \in S : KeyOf[e] > KeyOf[z]}}
<1> DEFINE new == InOrder(S, pos) \cup {<<m, z>> : m \in {e \in S : KeyOf[e] <= KeyOf[z]}}
                                  \cup {<<z, m>> : m \in {e \in S : KeyOf[e] > KeyOf[z]}}
<1>1. /\ \A m, n \in S : pos1[m] < pos1[n] <=> pos[m] < pos[n]
      /\ \A m \in S : pos1[z] < pos1[m] <=> KeyOf[m] > KeyOf[z]
      /\ \A m \in S : pos1[m] < pos1[z] <=> KeyOf[m] <= KeyOf[z]
  BY DEF Filed, On
<1>2. ~(pos1[z] < pos1[z])
  OBVIOUS
<1>3. ASSUME NEW pair \in InOrder(S \cup {z}, pos1) PROVE pair \in new
  <2>1. PICK m \in S \cup {z}, n \in S \cup {z} : pair = <<m, n>> /\ pos1[m] < pos1[n]
    BY DEF InOrder
  <2>2. CASE m \in S /\ n \in S
    <3>1. <<m, n>> \in InOrder(S, pos)
      BY <1>1, <2>1, <2>2 DEF InOrder
    <3>2. QED
      BY <2>1, <3>1
  <2>3. CASE m \in S /\ n = z
    BY <1>1, <2>1, <2>3
  <2>4. CASE m = z /\ n \in S
    BY <1>1, <2>1, <2>4
  <2>5. QED
    BY <1>2, <2>1, <2>2, <2>3, <2>4
<1>4. ASSUME NEW pair \in new PROVE pair \in InOrder(S \cup {z}, pos1)
  <2>1. CASE pair \in InOrder(S, pos)
    BY <1>1, <2>1 DEF InOrder
  <2>2. CASE pair \in {<<m, z>> : m \in {e \in S : KeyOf[e] <= KeyOf[z]}}
    BY <1>1, <2>2 DEF InOrder
  <2>3. CASE pair \in {<<z, m>> : m \in {e \in S : KeyOf[e] > KeyOf[z]}}
    BY <1>1, <2>3 DEF InOrder
  <2>4. QED
    BY <2>1, <2>2, <2>3
<1>5. QED
  <2> HIDE DEF new
  <2>1. InOrder(S \cup {z}, pos1) = new
    BY <1>3, <1>4
  <2>2. QED
    BY <2>1 DEF new

\* What a removal does to the order.
Deletes(z, before, after) == after = {pair \in before : z \notin {pair[1], pair[2]}}

\* The order of the nodes that are left.
LEMMA RemoveOrder ==
    ASSUME NEW S, NEW pos, NEW z
    PROVE  Deletes(z, InOrder(S, pos), InOrder(S \ {z}, pos))
  BY DEF InOrder, Deletes

-----------------------------------------------------------------------------
(* The specification.                                                        *)

\* A red-black tree of exactly the allocated nodes, in the order of their keys.
TreeInv ==
    /\ released \in BOOLEAN
    /\ released => allocated = {}
    /\ \E pos : Kempt(tree, allocated, pos)

\* rb_tree_create makes such a tree.
LEMMA TreeInit == Init => TreeInv
<1> SUFFICES ASSUME Init PROVE TreeInv
  OBVIOUS
<1>1. PICK child, parent :
         /\ child = [s \in Sides |-> [n \in Addresses |-> IF n \in Nodes THEN NULL ELSE Nil]]
         /\ parent = [n \in Addresses |-> IF n \in Nodes THEN NULL ELSE Nil]
         /\ tree = [child |-> child, parent |-> parent, red |-> {}]
  BY Zenon DEF Init
<1>2. tree.child = child /\ tree.parent = parent /\ tree.red = {}
  BY <1>1
<1>3. /\ Root \in Addresses /\ Root \notin Nodes /\ Nodes \subseteq Addresses /\ Nil \in Addresses
  BY Distinct DEF Addresses
<1>4. /\ child \in [Sides -> [Addresses -> Addresses \cup {NULL}]]
      /\ parent \in [Addresses -> Addresses \cup {NULL}]
  BY <1>1, <1>3
<1>5. tree \in Trees
  BY <1>1, <1>4 DEF Trees
<1>6. Top(tree) = Nil /\ tree.child["right"][Root] = Nil
  BY <1>1, <1>2, <1>3, SidesAre DEF Top
<1>7. Clean(tree, {})
  <2>1. \A n \in Nodes \ {} :
           tree.child["left"][n] = NULL /\ tree.child["right"][n] = NULL /\ tree.parent[n] = NULL
    BY <1>1, <1>2, <1>3, SidesAre
  <2>2. tree.parent[Root] = Nil
    BY <1>1, <1>2, <1>3
  <2>3. QED
    BY <2>1, <2>2, CleanIs
<1>8. \E pos : Kempt(tree, {}, pos)
  BY <1>2, <1>5, <1>6, <1>7, EmptyTree
<1>9. QED
  BY <1>8 DEF Init, TreeInv

\* What an insertion does to the order.
Inserts(S, z, before, after) ==
    after = before \cup {<<m, z>> : m \in {e \in S : KeyOf[e] <= KeyOf[z]}}
                   \cup {<<z, m>> : m \in {e \in S : KeyOf[e] > KeyOf[z]}}

\* The order of a tree as above.
LEMMA KemptOrder ==
    ASSUME NEW t, NEW S, NEW pos, Kempt(t, S, pos)
    PROVE  BeforeIn(t, S) = InOrder(S, pos)
  BY BeforeIs DEF Kempt, RedBlackTree

\* An insertion keeps such a tree, and inserts the node into the order.
LEMMA InsertKeeps ==
    ASSUME NEW t, NEW S, NEW pos, Kempt(t, S, pos), NEW z \in Nodes \ S
    PROVE  /\ \E pos1 : Kempt(Inserted(t, z), S \cup {z}, pos1)
           /\ Inserts(S, z, BeforeIn(t, S), BeforeIn(Inserted(t, z), S \cup {z}))
<1>1. PICK pos1 : /\ RedBlackTree(Inserted(t, z), S \cup {z}, pos1)
                  /\ Clean(Inserted(t, z), S \cup {z})
                  /\ Filed(S, pos, pos1, z) /\ Sorted(S \cup {z}, pos1)
  BY InsertedIs DEF Kempt
<1>2. Kempt(Inserted(t, z), S \cup {z}, pos1)
  BY <1>1 DEF Kempt
<1>3. BeforeIn(t, S) = InOrder(S, pos)
  BY KemptOrder
<1>4. BeforeIn(Inserted(t, z), S \cup {z}) = InOrder(S \cup {z}, pos1)
  BY <1>2, KemptOrder
<1>5. pos1[z] \in Int
  BY <1>1 DEF RedBlackTree, Shape, Placed
<1>6. Inserts(S, z, InOrder(S, pos), InOrder(S \cup {z}, pos1))
  BY <1>1, <1>5, InsertOrder DEF Inserts
<1>7. QED
  BY <1>2, <1>3, <1>4, <1>6

\* A removal keeps such a tree, and takes the node out of the order.
LEMMA RemoveKeeps ==
    ASSUME NEW t, NEW S, NEW pos, Kempt(t, S, pos), NEW z \in S
    PROVE  /\ Kempt(Removed(t, z), S \ {z}, pos)
           /\ Deletes(z, BeforeIn(t, S), BeforeIn(Removed(t, z), S \ {z}))
<1>1. RedBlackTree(Removed(t, z), S \ {z}, pos) /\ Clean(Removed(t, z), S \ {z})
  BY RemovedIs DEF Kempt
<1>2. Sorted(S \ {z}, pos)
  BY DEF Kempt, Sorted
<1>3. Kempt(Removed(t, z), S \ {z}, pos)
  BY <1>1, <1>2 DEF Kempt
<1>4. BeforeIn(t, S) = InOrder(S, pos)
  BY KemptOrder
<1>5. BeforeIn(Removed(t, z), S \ {z}) = InOrder(S \ {z}, pos)
  BY <1>3, KemptOrder
<1>6. Deletes(z, InOrder(S, pos), InOrder(S \ {z}, pos))
  BY RemoveOrder
<1>7. QED
  BY <1>3, <1>4, <1>5, <1>6

\* The release finds all of the nodes below the root.
LEMMA ReleaseKeeps ==
    ASSUME TreeInv, rb_tree_release
    PROVE  /\ allocated' = {} /\ released' = TRUE
           /\ \E pos : Kempt(tree', {}, pos)
<1>1. PICK pos, sub : Kempt(tree, allocated, pos) /\ Shape(tree, allocated, sub, pos)
  BY DEF TreeInv, Kempt, RedBlackTree
<1>2. Below(Top(tree)) = allocated
  <2>1. Top(tree) \in allocated \cup {Nil} /\ sub[Top(tree)] = allocated
    BY <1>1 DEF Shape, Rooted
  <2>2. Below(Top(tree)) = BelowIn(tree, allocated, Top(tree))
    BY Zenon DEF Below, BelowIn, BelowOf
  <2>3. BelowIn(tree, allocated, Top(tree)) = sub[Top(tree)]
    BY <1>1, <2>1, BelowIs
  <2>4. QED
    BY <2>1, <2>2, <2>3, Zenon
<1>3. PICK empty, mid :
         /\ empty = [tree.child EXCEPT !["left"][Root] = Nil]
         /\ mid = [child |-> empty, parent |-> tree.parent, red |-> tree.red]
         /\ Emptying(tree, empty, mid)
  BY DEF Emptying
<1>4. allocated' = allocated \ allocated /\ tree' = Freed(mid, allocated) /\ released' = TRUE
  BY <1>2, <1>3, Zenon DEF rb_tree_release
<1>5. PICK pos1 : Kempt(Freed(mid, allocated), {}, pos1)
  BY <1>1, <1>3, ReleasedIs
<1>6. QED
  BY <1>4, <1>5

\* The invariant is inductive: each operation keeps it.
LEMMA TreeNext == TreeInv /\ [Next]_vars => TreeInv'
<1> SUFFICES ASSUME TreeInv, [Next]_vars PROVE TreeInv'
  OBVIOUS
<1>1. PICK pos : Kempt(tree, allocated, pos)
  BY DEF TreeInv
<1>2. released \in BOOLEAN
  BY DEF TreeInv
<1>3. CASE \E n \in Nodes : rb_tree_insert(n)
  <2>1. PICK n \in Nodes : rb_tree_insert(n)
    BY <1>3
  <2>2. /\ n \in Nodes \ allocated /\ tree' = Inserted(tree, n)
        /\ allocated' = allocated \cup {n} /\ released = FALSE /\ released' = FALSE
    BY <1>2, <2>1 DEF rb_tree_insert
  <2>3. PICK pos1 : Kempt(Inserted(tree, n), allocated \cup {n}, pos1)
    BY <1>1, <2>2, InsertKeeps
  <2>4. Kempt(tree', allocated', pos1)
    BY <2>2, <2>3
  <2>5. QED
    BY <2>2, <2>4 DEF TreeInv
<1>4. CASE \E n \in Nodes : rb_tree_remove(n)
  <2>1. PICK n \in Nodes : rb_tree_remove(n)
    BY <1>4
  <2>2. /\ n \in allocated /\ tree' = Removed(tree, n)
        /\ allocated' = allocated \ {n} /\ released = FALSE /\ released' = FALSE
    BY <1>2, <2>1 DEF rb_tree_remove
  <2>3. Kempt(Removed(tree, n), allocated \ {n}, pos)
    BY <1>1, <2>2, RemoveKeeps
  <2>4. Kempt(tree', allocated', pos)
    BY <2>2, <2>3
  <2>5. QED
    BY <2>2, <2>4 DEF TreeInv
<1>5. CASE rb_tree_release
  <2>1. /\ allocated' = {} /\ released' = TRUE
        /\ \E pos1 : Kempt(tree', {}, pos1)
    BY <1>5, ReleaseKeeps
  <2>2. QED
    BY <2>1 DEF TreeInv
<1>6. CASE UNCHANGED vars
  <2>1. tree' = tree /\ allocated' = allocated /\ released' = released
    BY <1>6 DEF vars
  <2>2. QED
    BY <2>1 DEF TreeInv
<1>7. QED
  BY <1>3, <1>4, <1>5, <1>6 DEF Next, Done

(* Whatever the insertions and removals, the links of the allocated nodes    *)
(* make a red-black tree in the order of the keys, and no other node has a   *)
(* link.  This is the inductive invariant from which the properties of       *)
(* rb_tree.c follow.                                                         *)
THEOREM RbTreeInv == Spec => []TreeInv
<1>1. QED
  BY TreeInit, TreeNext, PTL DEF Spec

\* The values follow from the shape and from the links outside of it.
LEMMA TreeTypes == TreeInv => TypeOK
<1> SUFFICES ASSUME TreeInv PROVE TypeOK
  OBVIOUS
<1>1. PICK pos, sub : /\ Shape(tree, allocated, sub, pos) /\ tree.red \subseteq allocated
                      /\ Clean(tree, allocated)
  BY DEF TreeInv, Kempt, RedBlackTree
<1>2. /\ tree \in Trees /\ allocated \subseteq Nodes
      /\ Top(tree) \in allocated \cup {Nil} /\ tree.child["right"][Root] = Nil
  BY <1>1 DEF Shape, Placed, Rooted
<1>3. /\ \A n \in Nodes \ allocated : /\ tree.child["left"][n] = NULL
                                      /\ tree.child["right"][n] = NULL
                                      /\ tree.parent[n] = NULL
      /\ tree.parent[Root] = Nil
  BY <1>1, CleanIs
<1>4. \A s \in Sides : s = "left" \/ s = "right"
  BY DEF Sides
<1>5. ASSUME NEW n \in allocated \cup {Root}
      PROVE  /\ \A s \in Sides : tree.child[s][n] \in allocated \cup {Nil}
             /\ tree.parent[n] \in allocated \cup {Root, Nil}
  <2>1. CASE n = Root
    BY <1>2, <1>3, <1>4, <2>1 DEF Top
  <2>2. CASE n \in allocated
    <3>1. tree.parent[n] \in allocated \cup {Root}
      BY <1>1, <2>2, ParentOf
    <3>2. \A s \in Sides : tree.child[s][n] \in allocated \cup {Nil}
      BY <1>1, <2>2 DEF Shape, Linked
    <3>3. QED
      BY <3>1, <3>2
  <2>3. QED
    BY <2>1, <2>2
<1>6. ASSUME NEW n \in Nodes \ allocated
      PROVE  (\A s \in Sides : tree.child[s][n] = NULL) /\ tree.parent[n] = NULL
  BY <1>3, <1>4
<1>7. released \in BOOLEAN /\ (released => allocated = {})
  BY DEF TreeInv
<1>8. QED
  BY <1>1, <1>2, <1>5, <1>6, <1>7 DEF TypeOK

(* No pointer of the tree leads to a freed node, after any rotation, splice  *)
(* and replacement, and rb_tree_release leaves no node.                      *)
THEOREM RbTreeTypeOK == Spec => []TypeOK
<1>1. QED
  BY RbTreeInv, TreeTypes, PTL

\* Below, of the state's tree.
LEMMA StateBelow == \A x : Below(x) = BelowIn(tree, allocated, x)
  BY Zenon DEF Below, BelowIn, BelowOf

\* BlackHeight, of the state's tree.
LEMMA StateHeight == \A x : BlackHeight(x) = HeightIn(tree, allocated, x)
  BY Zenon DEF BlackHeight, HeightIn, HeightOf

\* The heights of the children of a node are both the ones of the invariant.
LEMMA TreeRedBlack == TreeInv => RedBlack
<1> SUFFICES ASSUME TreeInv PROVE RedBlack
  OBVIOUS
<1>1. PICK pos, sub, bh :
         /\ Shape(tree, allocated, sub, pos) /\ Balanced(tree, allocated, bh)
         /\ tree.red \subseteq allocated /\ Clashless(tree, allocated, Nil) /\ Top(tree) \notin tree.red
  BY DEF TreeInv, Kempt, RedBlackTree
<1>2. /\ allocated \subseteq Nodes /\ Root \notin allocated /\ Nil \notin allocated
      /\ Top(tree) \in allocated \cup {Nil} /\ sub[Top(tree)] = allocated
  BY <1>1, Distinct DEF Shape, Placed, Rooted
<1>3. Below(Top(tree)) = allocated
  <2>1. BelowIn(tree, allocated, Top(tree)) = sub[Top(tree)]
    BY <1>1, <1>2, BelowIs
  <2>2. QED
    BY <1>2, <2>1, StateBelow, Zenon
<1>4. ASSUME NEW n \in allocated \cup {Root}, NEW s \in Sides, tree.child[s][n] # Nil
      PROVE  tree.parent[tree.child[s][n]] = n
  BY <1>1, <1>4, OneParent
<1>5. \A n \in allocated, s \in Sides : n \in tree.red => tree.child[s][n] \notin tree.red
  BY <1>1, <1>2 DEF Clashless
<1>6. ASSUME NEW n \in allocated, n \in tree.red PROVE tree.parent[n] \notin tree.red
  <2>1. PICK p \in allocated \cup {Root}, s \in Sides : p = tree.parent[n] /\ tree.child[s][p] = n
    BY <1>1, ParentOf
  <2>2. QED
    BY <1>1, <1>2, <1>5, <1>6, <2>1
<1>7. ASSUME NEW n \in allocated
      PROVE  BlackHeight(tree.child["left"][n]) = BlackHeight(tree.child["right"][n])
  <2>1. PICK a, b \in allocated \cup {Nil} : a = tree.child["left"][n] /\ b = tree.child["right"][n]
    BY <1>1, SidesAre DEF Shape, Linked
  <2>2. /\ bh[n] = bh[a] + Black(tree, n) /\ bh[n] = bh[b] + Black(tree, n)
        /\ bh[a] \in Nat /\ bh[b] \in Nat /\ Black(tree, n) \in Nat
    <3>1. bh \in [Nodes \cup {Nil} -> Nat] /\ a \in Nodes \cup {Nil} /\ b \in Nodes \cup {Nil}
      BY <1>1, <1>2, <2>1 DEF Balanced
    <3>2. bh[n] = bh[a] + Black(tree, n)
      BY <1>1, <2>1, SidesAre DEF Balanced
    <3>3. bh[n] = bh[b] + Black(tree, n)
      BY <1>1, <2>1, SidesAre DEF Balanced
    <3>4. Black(tree, n) \in Nat
      BY DEF Black
    <3>5. QED
      BY <3>1, <3>2, <3>3, <3>4
  <2>3. bh[a] = bh[b]
    BY <2>2
  <2>4. HeightIn(tree, allocated, a) = bh[a] /\ HeightIn(tree, allocated, b) = bh[b]
    BY <1>1, HeightIs
  <2>5. BlackHeight(a) = BlackHeight(b)
    BY <2>3, <2>4, StateHeight, Zenon
  <2>6. QED
    BY <2>1, <2>5, Zenon
<1>8. {Nil, Root, Top(tree)} \cap tree.red = {}
  BY <1>1, <1>2
<1>9. QED
  BY <1>3, <1>4, <1>5, <1>6, <1>7, <1>8 DEF RedBlack

(* rb_tree_insert and rb_tree_remove keep a red-black tree that is linked    *)
(* both ways, with all the nodes that were inserted: the release frees each  *)
(* of them.                                                                  *)
THEOREM RbTreeRedBlack == Spec => []RedBlack
<1>1. QED
  BY RbTreeInv, TreeRedBlack, PTL

\* The nodes are in the order of their keys, which is what the search needs.
LEMMA TreeFinds == TreeInv => Finds
<1> SUFFICES ASSUME TreeInv PROVE Finds
  OBVIOUS
<1>1. PICK pos, sub : Shape(tree, allocated, sub, pos) /\ Sorted(allocated, pos)
  BY DEF TreeInv, Kempt, RedBlackTree
<1>2. ASSUME NEW key \in Keys
      PROVE  LET n == rb_tree_find(tree, key)
             IN  IF \E m \in allocated : KeyOf[m] = key
                 THEN n \in allocated /\ KeyOf[n] = key
                 ELSE n = NULL
  <2>1. key \in Int
    BY TreeAssumption DEF Keys
  <2>2. QED
    BY <1>1, <2>1, FindFinds
<1>3. QED
  BY <1>2, Zenon DEF Finds

(* rb_tree_find finds a node with the key exactly when there is one, also    *)
(* among equal keys that rotations have moved to either side.                *)
THEOREM RbTreeFinds == Spec => []Finds
<1>1. QED
  BY RbTreeInv, TreeFinds, PTL

\* rb_tree_enumerate without a last node: the last node of the range.
LEMMA EnumerateFirst ==
    ASSUME NEW t, NEW S, NEW sub, NEW pos, Shape(t, S, sub, pos), Sorted(S, pos),
           NEW low, low = NULL \/ low \in Int, NEW high, high = NULL \/ high \in Int
    PROVE  IsLast(rb_tree_enumerate(t, low, high, NULL),
                  {n \in S : high = NULL \/ KeyOf[n] <= high}, low, InOrder(S, pos))
<1>1. PICK nodes : nodes = {n \in S : high = NULL \/ KeyOf[n] <= high}
  OBVIOUS
<1>2. nodes \in SUBSET S /\ \A m \in S : m \in nodes <=> NotAbove(m, high)
  BY <1>1 DEF NotAbove
<1>3. PICK r \in S \cup {Nil} :
         /\ r = Highest(t, high)
         /\ r = Nil => \A m \in S : ~NotAbove(m, high)
         /\ r # Nil => /\ NotAbove(r, high)
                       /\ \A m \in S : NotAbove(m, high) => m = r \/ On(pos, "left", m, r)
  BY HighestIs
<1>4. /\ r = Nil => nodes = {}
      /\ r # Nil => r \in nodes /\ \A m \in nodes : m = r \/ On(pos, "left", m, r)
  BY <1>2, <1>3
<1>5. IsLast(IF r # Nil /\ (low = NULL \/ low <= KeyOf[r]) THEN r ELSE NULL,
             nodes, low, InOrder(S, pos))
  <2>1. Placed(S, sub, pos)
    BY DEF Shape
  <2>2. QED
    BY <1>2, <1>4, <2>1, LastOf
<1>6. rb_tree_enumerate(t, low, high, NULL)
        = IF r # Nil /\ (low = NULL \/ low <= KeyOf[r]) THEN r ELSE NULL
  BY <1>3 DEF rb_tree_enumerate
<1>7. QED
  BY <1>1, <1>5, <1>6, Zenon

(* rb_tree_enumerate with a last node: the one before it, if the low key     *)
(* allows it.                                                                *)
LEMMA EnumerateNext ==
    ASSUME NEW t, NEW S, NEW sub, NEW pos, Shape(t, S, sub, pos), Sorted(S, pos),
           NEW low, low = NULL \/ low \in Int, NEW high, NEW last \in S
    PROVE  IsLast(rb_tree_enumerate(t, low, high, last),
                  {n \in S : <<n, last>> \in InOrder(S, pos)}, low, InOrder(S, pos))
<1>1. PICK nodes : nodes = {n \in S : <<n, last>> \in InOrder(S, pos)}
  OBVIOUS
<1>2. nodes \in SUBSET S /\ \A m \in S : m \in nodes <=> On(pos, "left", m, last)
  BY <1>1, InOrderIs
<1>3. Placed(S, sub, pos) /\ Nil \notin S /\ last # NULL
  BY Distinct DEF Shape, Placed
<1>4. PICK r : r = _rb_tree_predecessor(t, last)
  OBVIOUS
<1>5. NextOn(S, pos, "left", last, r)
  BY <1>4, PredecessorIs
<1>6. /\ r \in S \cup {Nil}
      /\ r = Nil => nodes = {}
      /\ r # Nil => r \in nodes /\ \A m \in nodes : m = r \/ On(pos, "left", m, r)
  BY <1>2, <1>3, <1>5 DEF NextOn
<1>7. IsLast(IF r # Nil /\ (low = NULL \/ low <= KeyOf[r]) THEN r ELSE NULL,
             nodes, low, InOrder(S, pos))
  BY <1>2, <1>3, <1>6, LastOf
<1>8. rb_tree_enumerate(t, low, high, last)
        = IF r # Nil /\ (low = NULL \/ low <= KeyOf[r]) THEN r ELSE NULL
  BY <1>3, <1>4 DEF rb_tree_enumerate
<1>9. QED
  BY <1>1, <1>7, <1>8, Zenon

\* _rb_tree_successor leads to the first of the nodes that come after.
LEMMA StepForward ==
    ASSUME NEW t, NEW S, NEW sub, NEW pos, Shape(t, S, sub, pos), NEW n \in S,
           NEW next, next = _rb_tree_successor(t, n),
           NEW after, after = {m \in S : <<n, m>> \in InOrder(S, pos)}
    PROVE  IF after = {} THEN next = Nil
           ELSE next \in after /\ \A m \in after \ {next} : <<next, m>> \in InOrder(S, pos)
<1>1. NextOn(S, pos, "right", n, next)
  BY SuccessorIs
<1>2. Nil \notin S
  BY Distinct DEF Shape, Placed
<1>3. \A a, b \in S : <<a, b>> \in InOrder(S, pos) <=> On(pos, "right", b, a)
  BY SidesAre DEF InOrder, On
<1>4. \A m : m \in after <=> m \in S /\ On(pos, "right", m, n)
  BY <1>3
<1>5. CASE next = Nil
  BY <1>1, <1>2, <1>4, <1>5 DEF NextOn
<1>6. CASE next # Nil
  <2>1. /\ next \in S /\ On(pos, "right", next, n)
        /\ \A m \in S : On(pos, "right", m, n) => m = next \/ On(pos, "right", m, next)
    BY <1>1, <1>6 DEF NextOn
  <2>2. next \in after
    BY <1>4, <2>1
  <2>3. ASSUME NEW m \in after \ {next} PROVE <<next, m>> \in InOrder(S, pos)
    BY <1>3, <1>4, <2>1
  <2>4. QED
    BY <2>2, <2>3
<1>7. QED
  BY <1>5, <1>6

\* The enumeration of any tree as above.
LEMMA TreeEnumerates == TreeInv => Enumerates
<1> SUFFICES ASSUME TreeInv PROVE Enumerates
  OBVIOUS
<1>1. PICK pos, sub : /\ Kempt(tree, allocated, pos)
                      /\ Shape(tree, allocated, sub, pos) /\ Sorted(allocated, pos)
  BY DEF TreeInv, Kempt, RedBlackTree
<1>2. Before = InOrder(allocated, pos)
  BY <1>1, KemptOrder, StateOrder, Zenon
<1>3. \A key \in Keys \cup {NULL} : key = NULL \/ key \in Int
  BY TreeAssumption DEF Keys
<1>4. ASSUME NEW low \in Keys \cup {NULL}, NEW high \in Keys \cup {NULL}
      PROVE  IsLast(rb_tree_enumerate(tree, low, high, NULL),
                    {n \in allocated : high = NULL \/ KeyOf[n] <= high}, low, InOrder(allocated, pos))
  BY <1>1, <1>3, EnumerateFirst
<1>5. ASSUME NEW low \in Keys \cup {NULL}, NEW high \in Keys \cup {NULL}, NEW last \in allocated
      PROVE  IsLast(rb_tree_enumerate(tree, low, high, last),
                    {n \in allocated : <<n, last>> \in InOrder(allocated, pos)},
                    low, InOrder(allocated, pos))
  BY <1>1, <1>3, EnumerateNext
<1>6. ASSUME NEW n \in allocated, NEW next, next = _rb_tree_successor(tree, n),
             NEW after, after = {m \in allocated : <<n, m>> \in InOrder(allocated, pos)}
      PROVE  IF after = {} THEN next = Nil
             ELSE next \in after /\ \A m \in after \ {next} : <<next, m>> \in InOrder(allocated, pos)
  BY <1>1, <1>6, StepForward
<1>7. \A low, high \in Keys \cup {NULL} :
         /\ IsLast(rb_tree_enumerate(tree, low, high, NULL),
                   {n \in allocated : high = NULL \/ KeyOf[n] <= high}, low, Before)
         /\ \A last \in allocated :
                IsLast(rb_tree_enumerate(tree, low, high, last),
                       {n \in allocated : <<n, last>> \in Before}, low, Before)
  BY <1>2, <1>4, <1>5
<1>8. \A n \in allocated :
         LET next == _rb_tree_successor(tree, n)
             after == {m \in allocated : <<n, m>> \in Before}
         IN  IF after = {} THEN next = Nil
             ELSE next \in after /\ \A m \in after \ {next} : <<next, m>> \in Before
  <2>1. TAKE n \in allocated
  <2>2. PICK next, after : /\ next = _rb_tree_successor(tree, n)
                           /\ after = {m \in allocated : <<n, m>> \in InOrder(allocated, pos)}
    OBVIOUS
  <2>3. IF after = {} THEN next = Nil
        ELSE next \in after /\ \A m \in after \ {next} : <<next, m>> \in Before
    BY <1>2, <1>6, <2>2
  <2>4. after = {m \in allocated : <<n, m>> \in Before}
    BY <1>2, <2>2
  <2>5. QED
    BY <2>2, <2>3, <2>4, Zenon
<1>9. QED
  BY <1>7, <1>8, Zenon DEF Enumerates

(* A loop of rb_tree_enumerate calls visits every node of its range once,    *)
(* from the last to the first, with any limits, in every tree that           *)
(* insertions and removals can make.                                         *)
THEOREM RbTreeEnumerates == Spec => []Enumerates
<1>1. QED
  BY RbTreeInv, TreeEnumerates, PTL

\* An empty tree is an empty order.
LEMMA ElementsInit == Init => Elements!Init
<1> SUFFICES ASSUME Init PROVE Elements!Init
  OBVIOUS
<1>1. allocated = {}
  BY DEF Init
<1>2. PICK pos : Kempt(tree, allocated, pos)
  BY TreeInit DEF TreeInv
<1>3. Before = InOrder({}, pos)
  BY <1>1, <1>2, KemptOrder, StateOrder, Zenon
<1>4. InOrder({}, pos) = {}
  BY DEF InOrder
<1>5. QED
  BY <1>1, <1>3, <1>4, Zenon DEF Elements!Init

(* Each operation of the tree is one of SortedElements, or changes nothing   *)
(* of it.                                                                    *)
LEMMA ElementsNext == TreeInv /\ [Next]_vars => [Elements!Next]_Elements!vars
<1> SUFFICES ASSUME TreeInv, [Next]_vars PROVE [Elements!Next]_Elements!vars
  OBVIOUS
<1>1. PICK pos : Kempt(tree, allocated, pos)
  BY DEF TreeInv
<1>2. Before = BeforeIn(tree, allocated)
  BY StateOrder
<1>3. Before' = BeforeIn(tree', allocated')
  BY Zenon DEF Before, BeforeIn, Pairs, Below, BelowIn, BelowOf
<1>4. CASE \E n \in Nodes : rb_tree_insert(n)
  <2>1. PICK n \in Nodes : rb_tree_insert(n)
    BY <1>4
  <2>2. /\ n \in Nodes \ allocated /\ tree' = Inserted(tree, n) /\ allocated' = allocated \cup {n}
    BY <2>1 DEF rb_tree_insert
  <2>3. Inserts(allocated, n, BeforeIn(tree, allocated), BeforeIn(Inserted(tree, n), allocated \cup {n}))
    BY <1>1, <2>2, InsertKeeps
  <2>4. Inserts(allocated, n, Before, Before')
    BY <1>2, <1>3, <2>2, <2>3, Zenon
  <2>5. Elements!Insert(n)
    BY <2>2, <2>4, Zenon DEF Elements!Insert, Inserts
  <2>6. QED
    BY <2>5 DEF Elements!Next
<1>5. CASE \E n \in Nodes : rb_tree_remove(n)
  <2>1. PICK n \in Nodes : rb_tree_remove(n)
    BY <1>5
  <2>2. /\ n \in allocated /\ tree' = Removed(tree, n) /\ allocated' = allocated \ {n}
    BY <2>1 DEF rb_tree_remove
  <2>3. Deletes(n, BeforeIn(tree, allocated), BeforeIn(Removed(tree, n), allocated \ {n}))
    BY <1>1, <2>2, RemoveKeeps
  <2>4. Deletes(n, Before, Before')
    BY <1>2, <1>3, <2>2, <2>3, Zenon
  <2>5. Elements!Delete(n)
    BY <2>2, <2>4, Zenon DEF Elements!Delete, Deletes
  <2>6. QED
    BY <2>5 DEF Elements!Next
<1>6. CASE rb_tree_release
  <2>1. PICK pos1 : allocated' = {} /\ Kempt(tree', {}, pos1)
    BY <1>6, ReleaseKeeps
  <2>2. BeforeIn(tree', {}) = InOrder({}, pos1)
    BY <2>1, KemptOrder
  <2>3. InOrder({}, pos1) = {}
    BY DEF InOrder
  <2>4. Before' = {}
    BY <1>3, <2>1, <2>2, <2>3, Zenon
  <2>5. Elements!Clear
    BY <2>1, <2>4, Zenon DEF Elements!Clear
  <2>6. QED
    BY <2>5 DEF Elements!Next
<1>7. CASE UNCHANGED vars
  <2>1. tree' = tree /\ allocated' = allocated
    BY <1>7 DEF vars
  <2>2. Before' = Before
    BY <1>2, <1>3, <2>1, Zenon
  <2>3. UNCHANGED Elements!vars
    BY <2>1, <2>2, Zenon DEF Elements!vars
  <2>4. QED
    BY <2>3
<1>8. QED
  BY <1>4, <1>5, <1>6, <1>7 DEF Next, Done

(* The tree implements SortedElements: an insertion files the node behind    *)
(* those with a key not above its own, a removal takes out only the node it  *)
(* was given, and the balancing of both keeps every other node and its       *)
(* place.                                                                    *)
THEOREM RbTreeImplementsSorted == Spec => ImplementsSorted
<1>1. QED
  BY ElementsInit, ElementsNext, RbTreeInv, PTL DEF Spec, ImplementsSorted, Elements!Spec
=============================================================================
