------------------------------ MODULE MCSqlTab ------------------------------
(* SqlTab as TLC checks it.                                                *)
EXTENDS SqlTab, TLC

CONSTANTS a, b, x, y, c1

TwoTabs == {a, b}
OneConnection == {c1}
NoRowsOrTwo == {0, 2}
TwoTexts == {x, y}
Symmetric == Permutations(TwoTabs) \cup Permutations(TwoTexts)
=============================================================================
