--------------------------- MODULE SortedElements ---------------------------
(***************************************************************************)
(* What a red-black tree is for: the inserted nodes, and an order of them    *)
(* that goes by their keys, nodes of equal keys in the order they came.      *)
(* RbTree is shown to implement this specification.                         *)
(***************************************************************************)
EXTENDS Integers

CONSTANTS Nodes, KeyOf

VARIABLES elements,  \* the nodes that were inserted and not deleted
          before     \* the pairs of them of which the first comes first

vars == <<elements, before>>

Init == elements = {} /\ before = {}

(* A new node goes between the nodes whose key is not above its own and the    *)
(* others.                                                                   *)
Insert(n) ==
    /\ n \notin elements
    /\ elements' = elements \cup {n}
    /\ before' = before \cup {<<m, n>> : m \in {e \in elements : KeyOf[e] <= KeyOf[n]}}
                        \cup {<<n, m>> : m \in {e \in elements : KeyOf[e] > KeyOf[n]}}

Delete(n) ==
    /\ n \in elements
    /\ elements' = elements \ {n}
    /\ before' = {pair \in before : n \notin {pair[1], pair[2]}}

Clear == elements' = {} /\ before' = {}

Next == Clear \/ \E n \in Nodes : Insert(n) \/ Delete(n)

Spec == Init /\ [][Next]_vars
=============================================================================
