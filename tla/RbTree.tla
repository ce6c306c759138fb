------------------------------- MODULE RbTree -------------------------------
(***************************************************************************)
(* libkghost/src/rb_tree.c: the red-black tree in which the memory pool      *)
(* keeps the chunks it has handed out.                                      *)
(*                                                                          *)
(* The tree is a record of the nodes' fields: child[side][n] and parent[n]   *)
(* are n's links, red is the set of the red nodes.  A node is the address    *)
(* malloc returned, and KeyOf says which key is inserted under it: addresses *)
(* are only ever compared for equality, so it does not matter that the model *)
(* fixes which one a key gets.                                              *)
(*                                                                          *)
(* A definition marked `Mutant' is the definition below it with a bug such   *)
(* code could have; it is not part of the model.                             *)
(***************************************************************************)
EXTENDS Integers, FiniteSets

CONSTANTS Nodes, KeyOf, Root, Nil, NULL

Keys == {KeyOf[n] : n \in Nodes}
Addresses == Nodes \cup {Root, Nil}
Sides == {"left", "right"}

Trees == [child  : [Sides -> [Addresses -> Addresses \cup {NULL}]],
          parent : [Addresses -> Addresses \cup {NULL}],
          red    : SUBSET Addresses]

ASSUME TreeAssumption == /\ IsFiniteSet(Nodes)
                         /\ KeyOf \in [Nodes -> Int]
                         /\ Root # Nil /\ Nil # NULL /\ NULL # Root
                         /\ {Root, Nil, NULL} \cap Nodes = {}

VARIABLES
    tree,       \* the links and the colours, NULL where there is no node
    allocated,  \* history: the nodes that were malloced and not freed
    released    \* rb_tree_release was called

vars == <<tree, allocated, released>>

Opposite(s) == IF s = "left" THEN "right" ELSE "left"

\* The root of the tree proper, the left child of the sentinel `root'.
Top(t) == t.child["left"][Root]

\* Which child of its parent x is; the code asks for the left one.
SideOf(t, x) == IF x = t.child["left"][t.parent[x]] THEN "left" ELSE "right"

\* The tree with some nodes painted black and others red.
Painted(t, black, red) ==
    [child |-> t.child, parent |-> t.parent, red |-> (t.red \ black) \cup red]

(* A loop of the code: `round' is what one round does to the variables, and     *)
(* leaves them alone when the condition of the loop is false.  There are rounds *)
(* enough: each loop follows a path of the tree (the lemmas about the loops in  *)
(* RbTreeProofs show that each is over by then).                              *)
Rounds == Cardinality(Addresses)
Loop(round, start) ==
    LET after[n \in 0 .. Rounds] == IF n = 0 THEN start ELSE round[after[n - 1]]
    IN  after[Rounds]

-----------------------------------------------------------------------------
\* Mutant: the sentinel gets a parent like any other node.
RotateAnyChild(t, x, s) ==
    LET o == Opposite(s)
        y == t.child[o][x]
        b == t.child[s][y]
        p == t.parent[x]
        lowered == [t.child EXCEPT ![o][x] = b]
        side == IF x = lowered["left"][p] THEN "left" ELSE "right"
        hung == [lowered EXCEPT ![side][p] = y]
        adopted == [t.parent EXCEPT ![b] = x]
    IN  [child |-> [hung EXCEPT ![s][y] = x],
         parent |-> [adopted EXCEPT ![y] = p, ![x] = y], red |-> t.red]

(* _rb_tree_left_rotate is Rotate(t, x, "left"), _rb_tree_right_rotate is      *)
(* Rotate(t, y, "right"): the node moves down to side s, its child on the     *)
(* other side up.                                                           *)
Rotate(t, x, s) ==
    LET o == Opposite(s)
        y == t.child[o][x]
        b == t.child[s][y]
        p == t.parent[x]
        lowered == [t.child EXCEPT ![o][x] = b]
        side == IF x = lowered["left"][p] THEN "left" ELSE "right"
        hung == [lowered EXCEPT ![side][p] = y]
        adopted == IF b # Nil THEN [t.parent EXCEPT ![b] = x] ELSE t.parent
    IN  [child |-> [hung EXCEPT ![s][y] = x],
         parent |-> [adopted EXCEPT ![y] = p, ![x] = y], red |-> t.red]

(* The side of y to which a search for the key goes on; an equal key was        *)
(* inserted to the right.                                                    *)
Way(y, key) == IF y = Root THEN "left" ELSE IF KeyOf[y] > key THEN "left" ELSE "right"

\* Mutant: the descent takes an equal key to the left.
PlaceEqualLeft(t, key) ==
    Loop([y \in Nodes \cup {Root} |->
             LET x == t.child[IF y = Root \/ KeyOf[y] >= key THEN "left" ELSE "right"][y]
             IN  IF x = Nil THEN y ELSE x], Root)
(* The descent in _rb_tree_insert: the node below which a key goes.            *)
Place(t, key) ==
    Loop([y \in Nodes \cup {Root} |->
             LET x == t.child[Way(y, key)][y] IN IF x = Nil THEN y ELSE x], Root)

_rb_tree_insert(t, z) ==
    LET y == Place(t, KeyOf[z])
        leaf == [s \in Sides |-> [t.child[s] EXCEPT ![z] = Nil]]
    IN  [child |-> [leaf EXCEPT ![Way(y, KeyOf[z])][y] = z],
         parent |-> [t.parent EXCEPT ![z] = y], red |-> t.red]

(* One round of the loop of _rb_tree_alloc_insert, with its two mirrored halves *)
(* in one, from the tree and the node x to what they are afterwards.           *)
InsertRound(t, x) ==
    LET p == t.parent[x]
        g == t.parent[p]
        s == SideOf(t, p)
        o == Opposite(s)
        uncle == t.child[o][g]
        inner == x = t.child[o][p]
        x1 == IF inner THEN p ELSE x
        t1 == IF inner THEN Rotate(t, p, s) ELSE t
        p1 == t1.parent[x1]
        g1 == t1.parent[p1]
    IN  IF p \notin t.red THEN <<t, x>>
        ELSE IF uncle \in t.red THEN <<Painted(t, {p, uncle}, {g}), g>>
        ELSE <<Rotate(Painted(t1, {p1}, {g1}), g1, o), x1>>

(* rb_tree_insert: what becomes of the tree.                                  *)
Inserted(t, z) ==
    LET linked == Painted(_rb_tree_insert(t, z), {}, {z})
        fixed == Loop([at \in Trees \X Nodes |-> InsertRound(at[1], at[2])],
                      <<linked, z>>)[1]
    IN  Painted(fixed, {Top(fixed)}, {})

-----------------------------------------------------------------------------
(* The two ways to the neighbour of a node: down a subtree along side s, or up  *)
(* as long as the path comes from side s, in the loop to the predecessor with  *)
(* a stop below the sentinel.                                                 *)
Furthest(t, y, s) ==
    Loop([x \in Nodes |-> IF t.child[s][x] = Nil THEN x ELSE t.child[s][x]], y)

Climbed(t, x, s) ==
    Loop([n \in Nodes |->
             LET y == t.parent[n]
             IN  IF n = t.child[s][y] /\ ~(s = "left" /\ y = Root) THEN y ELSE n], x)

_rb_tree_successor(t, x) ==
    IF t.child["right"][x] # Nil THEN Furthest(t, t.child["right"][x], "left")
    ELSE LET y == t.parent[Climbed(t, x, "right")] IN IF y = Root THEN Nil ELSE y

\* Mutant: the nodes below the last one are forgotten.
PredecessorUp(t, x) ==
    LET n == Climbed(t, x, "left") y == t.parent[n]
    IN  IF n = t.child["left"][y] THEN Nil ELSE y
_rb_tree_predecessor(t, x) ==
    IF t.child["left"][x] # Nil THEN Furthest(t, t.child["left"][x], "right")
    ELSE LET n == Climbed(t, x, "left") y == t.parent[n]
         IN  IF n = t.child["left"][y] THEN Nil ELSE y

-----------------------------------------------------------------------------
(* The steps of _rb_tree_delete for a node x on side s that lacks a black node. *)
(* A red sibling is rotated away.                                            *)
RedSiblingUp(t, x, s) ==
    LET p == t.parent[x]
        w == t.child[Opposite(s)][p]
    IN  IF w \in t.red THEN Rotate(Painted(t, {w}, {p}), p, s) ELSE t

(* A red child of the sibling w is turned to the outer side.                   *)
RedNephewOut(t, w, s) ==
    LET o == Opposite(s)
    IN  IF t.child[o][w] \in t.red THEN t
        ELSE Rotate(Painted(t, {t.child[s][w]}, {w}), w, o)

(* The last step: the sibling goes up with the colour of the parent.           *)
Rebalanced(t, x, s) ==
    LET o == Opposite(s)
        p == t.parent[x]
        w == t.child[o][p]
    IN  Rotate(Painted(t, {p, t.child[o][w]} \cup (IF p \in t.red THEN {} ELSE {w}),
                       IF p \in t.red THEN {w} ELSE {}), p, s)

(* One round of the loop, with its two mirrored halves in one.  `top' is the    *)
(* root of the tree when the loop began; a rotation may change it.             *)
DeleteRound(t, x, top) ==
    LET s == SideOf(t, x)
        t1 == RedSiblingUp(t, x, s)
        w == t1.child[Opposite(s)][t1.parent[x]]
    IN  IF x \in t.red \/ x = top THEN <<t, x>>
        ELSE IF {t1.child["left"][w], t1.child["right"][w]} \cap t1.red = {}
             THEN <<Painted(t1, {}, {w}), t1.parent[x]>>
             ELSE <<Rebalanced(RedNephewOut(t1, w, s), x, s), top>>

_rb_tree_delete(t, x) ==
    LET after == Loop([at \in Trees \X (Nodes \cup {Nil}) |->
                          DeleteRound(at[1], at[2], Top(t))], <<t, x>>)
    IN  Painted(after[1], {after[2]}, {})

\* Mutant: the node that is spliced out stays black or red as it was.
ReplaceUncoloured(t, node, y) ==
    LET p == t.parent[node]
        taken == [s \in Sides |-> [t.child[s] EXCEPT ![y] = t.child[s][node]]]
        side == IF node = taken["left"][p] THEN "left" ELSE "right"
    IN  [child |-> [taken EXCEPT ![side][p] = y],
         parent |-> [t.parent EXCEPT ![y] = p, ![t.child["right"][node]] = y,
                                     ![t.child["left"][node]] = y],
         red |-> t.red]
(* y takes the place of the node.  A missing child is the sentinel, which then *)
(* gets y for a parent.                                                      *)
Replace(t, node, y) ==
    LET p == t.parent[node]
        taken == [s \in Sides |-> [t.child[s] EXCEPT ![y] = t.child[s][node]]]
        side == IF node = taken["left"][p] THEN "left" ELSE "right"
    IN  [child |-> [taken EXCEPT ![side][p] = y],
         parent |-> [t.parent EXCEPT ![y] = p, ![t.child["right"][node]] = y,
                                     ![t.child["left"][node]] = y],
         red |-> (t.red \ {y}) \cup (IF node \in t.red THEN {y} ELSE {})]

Freed(t, gone) ==
    [child |-> [s \in Sides |->
                   [n \in Addresses |-> IF n \in gone THEN NULL ELSE t.child[s][n]]],
     parent |-> [n \in Addresses |-> IF n \in gone THEN NULL ELSE t.parent[n]],
     red |-> t.red \ gone]

(* x, the only child of y or the sentinel, takes the place of y.               *)
Spliced(t, x, y) ==
    LET q == t.parent[y]
        s == IF q = Root THEN "left" ELSE SideOf(t, y)
    IN  [child |-> [t.child EXCEPT ![s][q] = x],
         parent |-> [t.parent EXCEPT ![x] = q], red |-> t.red]

(* rb_tree_remove: the balance is restored before y goes to the place of the   *)
(* node, so that the tree that is balanced still has the node in it.          *)
Removed(t, node) ==
    LET y == IF Nil \in {t.child["left"][node], t.child["right"][node]}
             THEN node ELSE _rb_tree_successor(t, node)
        x == IF t.child["left"][y] = Nil THEN t.child["right"][y] ELSE t.child["left"][y]
        t1 == Spliced(t, x, y)
        t2 == IF y \in t.red THEN t1 ELSE _rb_tree_delete(t1, x)
    IN  Freed(IF y = node THEN t2 ELSE Replace(t2, node, y), {node})

-----------------------------------------------------------------------------
rb_tree_find(t, key) ==
    LET x == Loop([n \in Nodes \cup {Nil} |->
                      IF n = Nil THEN n
                      ELSE IF KeyOf[n] = key THEN n ELSE t.child[Way(n, key)][n]], Top(t))
    IN  IF x = Nil THEN NULL ELSE x

(* Where an enumeration starts: at the last node not above the high key.       *)
Highest(t, high) ==
    Loop([at \in (Nodes \cup {Nil}) \X (Nodes \cup {Nil}) |->
             IF at[1] = Nil THEN at
             ELSE IF high # NULL /\ KeyOf[at[1]] > high
                  THEN <<t.child["left"][at[1]], at[2]>>
                  ELSE <<t.child["right"][at[1]], at[1]>>], <<Top(t), Nil>>)[2]

rb_tree_enumerate(t, low, high, last) ==
    LET next == IF last = NULL THEN Highest(t, high) ELSE _rb_tree_predecessor(t, last)
    IN  IF next # Nil /\ (low = NULL \/ low <= KeyOf[next]) THEN next ELSE NULL

(* x and the nodes below it; _rb_tree_release frees these, children first.     *)
Below(x) ==
    LET below[n \in allocated \cup {Nil}] ==
            IF n = Nil THEN {}
            ELSE {n} \cup below[tree.child["left"][n]] \cup below[tree.child["right"][n]]
    IN  below[x]

-----------------------------------------------------------------------------
(* The nodes that hang from root when rb_tree_create returns: none.            *)
Init ==
    /\ tree = [child  |-> [s \in Sides |->
                              [n \in Addresses |-> IF n \in Nodes THEN NULL ELSE Nil]],
               parent |-> [n \in Addresses |-> IF n \in Nodes THEN NULL ELSE Nil],
               red    |-> {}]
    /\ allocated = {}
    /\ released = FALSE

rb_tree_insert(n) ==
    /\ ~released
    /\ n \notin allocated
    /\ tree' = Inserted(tree, n)
    /\ allocated' = allocated \cup {n}
    /\ UNCHANGED released

(* The node is one that an insertion or a search has returned.                 *)
rb_tree_remove(n) ==
    /\ ~released
    /\ n \in allocated
    /\ tree' = Removed(tree, n)
    /\ allocated' = allocated \ {n}
    /\ UNCHANGED released

(* The sentinels and the tree itself are freed as well; the model leaves them  *)
(* empty.                                                                    *)
rb_tree_release ==
    /\ ~released
    /\ LET gone == Below(Top(tree))
           empty == [tree.child EXCEPT !["left"][Root] = Nil]
       IN  /\ allocated' = allocated \ gone
           /\ tree' = Freed([child |-> empty, parent |-> tree.parent, red |-> tree.red], gone)
    /\ released' = TRUE

Done == released /\ UNCHANGED vars

Next == \/ \E n \in Nodes : rb_tree_insert(n) \/ rb_tree_remove(n)
        \/ rb_tree_release
        \/ Done

Spec == Init /\ [][Next]_vars

-----------------------------------------------------------------------------
(* The values the variables range over: no pointer of the tree leads to a freed  *)
(* node, and the release leaves none.                                         *)
TypeOK ==
    /\ tree \in Trees
    /\ allocated \subseteq Nodes
    /\ released \in BOOLEAN
    /\ released => allocated = {}
    /\ tree.red \subseteq allocated
    /\ \A n \in allocated \cup {Root} :
           /\ \A s \in Sides : tree.child[s][n] \in allocated \cup {Nil}
           /\ tree.parent[n] \in allocated \cup {Root, Nil}
    /\ \A n \in Nodes \ allocated :
           /\ \A s \in Sides : tree.child[s][n] = NULL
           /\ tree.parent[n] = NULL

(* The number of black nodes on the way from x to its leftmost end.             *)
BlackHeight(x) ==
    LET height[n \in allocated \cup {Nil}] ==
            IF n = Nil THEN 0
            ELSE height[tree.child["left"][n]] + (IF n \in tree.red THEN 0 ELSE 1)
    IN  height[x]

(* A tree of all the nodes, linked both ways also after rotations, splices and  *)
(* a node taking another's place (the walks of rb_tree.c:341-350 and 364-372    *)
(* go up by `parent'), with what keeps its paths short: no red node has a red child,     *)
(* all paths from a node down have as many black nodes, and root and sentinels  *)
(* stay black, as the comment at rb_tree.c:23-28 requires.                      *)
RedBlack ==
    /\ Below(Top(tree)) = allocated
    /\ \A n \in allocated \cup {Root}, s \in Sides :
           tree.child[s][n] # Nil => tree.parent[tree.child[s][n]] = n
    /\ \A n \in allocated :
           n \in tree.red => /\ \A s \in Sides : tree.child[s][n] \notin tree.red
                             /\ tree.parent[n] \notin tree.red
    /\ \A n \in allocated :
           BlackHeight(tree.child["left"][n]) = BlackHeight(tree.child["right"][n])
    /\ {Nil, Root, Top(tree)} \cap tree.red = {}

(* rb_tree_find finds a node with the key exactly when one is in the tree.  The *)
(* pool depends on it to tell its own chunks from others (memory_pool.c:239).   *)
Finds ==
    \A key \in Keys :
        LET n == rb_tree_find(tree, key)
        IN  IF \E m \in allocated : KeyOf[m] = key
            THEN n \in allocated /\ KeyOf[n] = key
            ELSE n = NULL

(* The order the tree keeps: of two nodes that comes first which is, below some *)
(* node or being it, to the left of the other.                                *)
Before ==
    (UNION {({a} \cup Below(tree.child["left"][a])) \X ({a} \cup Below(tree.child["right"][a])) :
                a \in allocated}) \ {<<a, a>> : a \in allocated}

\* What a search for the last of these nodes with a key not below `low' returns.
IsLast(n, nodes, low, before) ==
    IF \E m \in nodes : low = NULL \/ low <= KeyOf[m]
    THEN /\ n \in nodes /\ (low = NULL \/ low <= KeyOf[n])
         /\ \A m \in nodes \ {n} : <<m, n>> \in before
    ELSE n = NULL

(* A loop of rb_tree_enumerate calls, as in memory_pool.c:439-459, visits all    *)
(* nodes of the range once and from high to low, with either limit or without:  *)
(* it begins with the last of them, and each call goes on with the last of those *)
(* before the one that was visited.  A step forward leads to the next node.     *)
Enumerates ==
    LET before == Before
    IN  /\ \A low, high \in Keys \cup {NULL} :
               /\ IsLast(rb_tree_enumerate(tree, low, high, NULL),
                         {n \in allocated : high = NULL \/ KeyOf[n] <= high}, low, before)
               /\ \A last \in allocated :
                      IsLast(rb_tree_enumerate(tree, low, high, last),
                             {n \in allocated : <<n, last>> \in before}, low, before)
        /\ \A n \in allocated :
               LET next == _rb_tree_successor(tree, n)
                   after == {m \in allocated : <<n, m>> \in before}
               IN  IF after = {} THEN next = Nil
                   ELSE next \in after /\ \A m \in after \ {next} : <<next, m>> \in before

(* The tree implements SortedElements: insertion, removal and the balancing of  *)
(* both keep every other node, and in its place.                              *)
Elements == INSTANCE SortedElements WITH elements <- allocated, before <- Before
ImplementsSorted == Elements!Spec
=============================================================================
