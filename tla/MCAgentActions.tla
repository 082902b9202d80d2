--------------------------- MODULE MCAgentActions ---------------------------
(* Instance of AgentActions for TLC: two destinations, both of the rule, two *)
(* DELETE requests, and three requests on two scheduled jobs.                *)
EXTENDS AgentActions, TLC

CONSTANTS t1, t2, d1, d2

MCTargets  == {t1, t2}
MCDeleters == {d1, d2}
MCTargetIDs == <<t1, t2>>

Interchangeable == Permutations(MCDeleters)
=============================================================================
