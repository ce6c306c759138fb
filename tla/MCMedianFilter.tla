--------------------------- MODULE MCMedianFilter ---------------------------
(* An instance of MedianFilter for TLC: a filter of 3 x 3 x 3 over pictures of *)
(* 2 x 2 pixels with two channels.                                           *)
EXTENDS MedianFilter

Bits == {0, 1}
AllPictures == [0 .. 7 -> Bits]

\* The pictures in which a value is a sum, modulo 2, of some of row, column
\* and channel: halves, stripes, one channel, checkers, and nothing.
SomePictures ==
    {[i \in 0 .. 7 |-> (a * (i \div 4) + b * ((i \div 2) % 2) + c * (i % 2)) % 2] :
        a, b, c \in Bits}
White == {[i \in 0 .. 7 |-> 1]}
=============================================================================
