-------------------------- MODULE MCAuthentication --------------------------
(* Instance of Authentication for TLC.                                     *)
EXTENDS Authentication

CONSTANTS ip1, ip2, h1, h2, h3, k1, r1, r2, s1

OneAddress    == {ip1}
ThreeHandlers == {h1, h2, h3}
OneToken      == {k1}
TwoPeers      == {ip1, ip2}
TwoRequests   == {r1, r2}
OneStream     == {s1}
=============================================================================
