----------------------------- MODULE FlowModes -------------------------------
(* The flow pipeline in its two modes, chosen in the initial state: beset by  *)
(* every kind of failure, or calm, where none happens and the parts that      *)
(* drive it go on.  What a mode promises is stated of that mode alone.        *)
EXTENDS FlowDelivery

VARIABLE calm      \* no failure happens in this behaviour

Calm == INSTANCE FlowDelivery WITH Faults <- {}

modes == <<calm, vars>>

ModeInit == calm \in BOOLEAN /\ Init
ModeNext == \/ calm /\ Calm!Next /\ UNCHANGED calm
            \/ ~calm /\ Next /\ UNCHANGED calm

\* The fairness of FlowDelivery, owed by calm behaviours only.
ModeSpec == /\ ModeInit /\ [][ModeNext]_modes
            /\ WF_modes(calm /\ Collect /\ UNCHANGED calm)
            /\ WF_modes(calm /\ Refresh /\ UNCHANGED calm)
            /\ WF_modes(calm /\ Second /\ UNCHANGED calm)

\* Without failures the one-batch cache loses nothing: every counted transfer is
\* in the kernel map, on its way, in the history, or was discarded at an
\* administrator's request, though each refresh overwrites the cache.
CalmHidesNoLoss == calm => NoHiddenLoss

\* Without failures every counted transfer reaches the history, unless an
\* administrator had it discarded: the collect loop and the refreshes it starts
\* never stop each other (networkRefreshing, lastFlowPersist).
CalmRecords == calm => EventuallyRecorded

Ledger == INSTANCE FlowLedger WITH held <- kernel \cup Carried, pending <- Pending

\* The pipeline implements the ledger in both modes: a transfer is recorded from
\* pending only; what was recorded, given up or cleared away becomes pending
\* again by a restart of the monitor and by nothing else, and then only if a
\* batch still holds it (lastFlowPersist, in memory, decides: server.go, collect);
\* and the calm pipeline gives up nothing that no administrator discarded.
ImplementsLedger == Ledger!LSpec
==============================================================================
