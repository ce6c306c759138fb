----------------------------- MODULE MCControls -----------------------------
(* Instances of Controls for TLC. *)
EXTENDS Controls

FiveKeys == {" ", "d", "=", "1", "NUL"}
Lowest == -1
Ones == {"1"}
D == <<"d">>
=============================================================================
