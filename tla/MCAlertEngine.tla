---------------------------- MODULE MCAlertEngine ----------------------------
(* Instances of AlertEngine for TLC.                                       *)
EXTENDS AlertEngine

CONSTANTS r1, r2, a1, a2, a3

OneRule  == {r1}
TwoRules == {r1, r2}
TwoIds   == {a1, a2}
ThreeIds == {a1, a2, a3}
=============================================================================
