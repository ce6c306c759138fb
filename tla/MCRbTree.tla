------------------------------ MODULE MCRbTree ------------------------------
(* An instance of RbTree for TLC. *)
EXTENDS RbTree

CONSTANT Size

SomeNodes == 1 .. Size

\* Of the keys, 2 and 4 occur twice.
SomeKeys == [n \in SomeNodes |-> IF n = 1 THEN 2 ELSE IF n = 3 THEN 4 ELSE n]
=============================================================================
