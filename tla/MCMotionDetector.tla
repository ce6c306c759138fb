--------------------------- MODULE MCMotionDetector ---------------------------
(* An instance of MotionDetector for TLC. *)
EXTENDS MotionDetector

NoneNearFar == {0, 1, 3}
\* The second is 2 as an unsigned short.
TwoCutoffs == {1, 2 - 65536}
Third == <<1, 3>>
Half == <<1, 2>>
=============================================================================
