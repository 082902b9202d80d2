---------------------------- MODULE MCLoginGuard ----------------------------
(* Instance of LoginGuard for TLC.                                         *)
EXTENDS LoginGuard

CONSTANTS ip1, h1, h2

OneAddress  == {ip1}
TwoHandlers == {h1, h2}
=============================================================================
