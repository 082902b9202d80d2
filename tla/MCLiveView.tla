----------------------------- MODULE MCLiveView -----------------------------
(* Instance of LiveView for TLC.                                           *)
EXTENDS LiveView

CONSTANTS v1, v2

MCValues == {v1, v2}
=============================================================================
