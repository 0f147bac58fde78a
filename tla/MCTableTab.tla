----------------------------- MODULE MCTableTab -----------------------------
(* Instances of TableTab for TLC.                                          *)
EXTENDS TableTab

OneRow == {1}
TwoRows == 1..2
ThreeRows == 1..3
MiddleRow == {2}
=============================================================================
