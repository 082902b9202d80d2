----------------------------- MODULE MCFlowModes -----------------------------
(* The instance of FlowModes for TLC. *)
EXTENDS FlowModes, MCFlowDelivery
==============================================================================
