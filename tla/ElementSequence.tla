-------------------------- MODULE ElementSequence --------------------------
(***************************************************************************)
(* What libkghost/inc/vector.h promises: a sequence of elements to append    *)
(* to, pop, clear and remove from.  An append may fail, and then nothing has *)
(* changed.  Vector is shown to implement this specification.               *)
(***************************************************************************)
EXTENDS Naturals, Sequences

CONSTANTS Elements

VARIABLES contents, status

vars == <<contents, status>>

Init == contents = <<>> /\ status = "NO_ERROR"

AppendElement(x) == contents' = Append(contents, x) /\ status' = "NO_ERROR"

AppendFails == UNCHANGED contents /\ status' = "ERR_FAILED_ALLOC"

Pop == IF contents = <<>>
       THEN UNCHANGED contents /\ status' = "ERR_EMPTY"
       ELSE /\ contents' = SubSeq(contents, 1, Len(contents) - 1)
            /\ status' = "NO_ERROR"

Clear == contents' = <<>> /\ status' = "NO_ERROR"

\* index counts from zero; all those past the end do the same.
Remove(index) ==
    IF index >= Len(contents)
    THEN UNCHANGED contents /\ status' = "ERR_RANGE_ERROR"
    ELSE /\ contents' = [i \in 1 .. Len(contents) - 1 |->
                            IF i <= index THEN contents[i] ELSE contents[i + 1]]
         /\ status' = "NO_ERROR"

Next == \/ AppendFails \/ Pop \/ Clear
        \/ \E x \in Elements : AppendElement(x)
        \/ \E index \in 0 .. Len(contents) : Remove(index)

Spec == Init /\ [][Next]_vars
=============================================================================
