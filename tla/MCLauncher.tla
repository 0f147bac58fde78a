----------------------------- MODULE MCLauncher -----------------------------
(* Instances of Launcher for TLC.                                          *)
EXTENDS Launcher

TwoIds == 1..2
ThreeIds == 1..3
OneSaved == <<1>>
TwoSaved == <<1, 2>>
=============================================================================
