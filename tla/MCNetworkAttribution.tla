------------------------ MODULE MCNetworkAttribution ------------------------
(* Instance of NetworkAttribution for TLC: the flows map holds one entry   *)
(* fewer than there are keys and the calls map one fewer than threads, so  *)
(* both run full; two sockets open and close under their keys.             *)
EXTENDS NetworkAttribution, TLC

CONSTANTS th1, th2, k1, k2, t1, t2, t3, s1, so1, so2

MCThreads   == {th1, th2}
MCKeys      == {k1, k2}
MCTransfers == {t1, t2, t3}
MCSlots     == {s1}
MCSockets   == {so1, so2}

Interchangeable == UNION {Permutations(S) : S \in {MCThreads, MCKeys, MCTransfers, MCSockets}}
=============================================================================
