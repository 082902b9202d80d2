--------------------------- MODULE MCFlowDelivery ---------------------------
(* Instances of FlowDelivery for TLC.                                      *)
EXTENDS FlowDelivery, TLC

CONSTANTS t1, t2, t3

TwoTransfers   == {t1, t2}
ThreeTransfers == {t1, t2, t3}

NoFaults        == {}
AllFaults       == FaultKinds
OnlyResponses   == {"response"}
OnlyRestarts    == {"restart"}

Interchangeable == Permutations(Transfers)
=============================================================================
