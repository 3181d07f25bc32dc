------------------------------- MODULE MCTouch -------------------------------
(***************************************************************************)
(* Two fingers, interchangeable, and the keys each run puts under them.    *)
(***************************************************************************)
EXTENDS Touch

CONSTANTS f1, f2, f3

TwoFingers == {f1, f2}
ThreeFingers == {f1, f2, f3}
SymmetricFingers == Permutations(Fingers)
=============================================================================
