---------------------------- MODULE FlowDelivery ----------------------------
(***************************************************************************)
(* How the bytes of a socket transfer travel from the eBPF flow map to the *)
(* network history: the agent's collector drains the map into a one-batch  *)
(* cache (agent/collector.go, agent/network_bpf_linux.go), the monitor's   *)
(* collect loop reads the cache with every snapshot and persists a batch   *)
(* it has not persisted yet (app/server.go, store/store.go), and an        *)
(* administrator may clear the history while all of this goes on.          *)
(*                                                                         *)
(* A transfer stands for the bytes one successful call moved; it is a      *)
(* token, so that losing or repeating it can be seen.  How the kernel      *)
(* programs fill the map is module KernelAccounting.                       *)
(***************************************************************************)
EXTENDS Naturals, FiniteSets

CONSTANTS Transfers,    \* successful send/receive calls of the observed host
          Faults,       \* the kinds of failure this instance allows
          MaxRestarts   \* bound on restarts of the monitor

FaultKinds == {"response",    \* a snapshot or reset answer is lost or is an error
               "save",        \* a history transaction fails
               "restart",     \* the monitor is restarted
               "agent",       \* the agent is restarted
               "clock"}       \* the wall clock is set back

ASSUME FlowAssumption == Faults \subseteq FaultKinds /\ MaxRestarts \in Nat

VARIABLES
    arrived,         \* transfers the kernel probes have counted so far
    kernel,          \* transfers in the flow map
    clock,           \* wall clock of the last non-empty drain
    refresh,         \* the refreshConnections goroutine and its local flows
    stale,           \* now - c.lastNetwork >= 1s
    cache,           \* c.networkFlows
    loop,            \* the collect loop and the snapshot it holds
    lastFlowPersist, \* s.lastFlowPersist
    historyEnabled,  \* s.store.NetworkHistoryEnabled()
    clear,           \* the DELETE /settings/network handler
    db,              \* network_flows: how often each transfer was added
    \* observations, read by the properties only
    restarts,        \* restarts of the monitor so far
    old,             \* transfers that arrived before the clear in progress
    cleared,         \* transfers that arrived before a clear that succeeded
    inFlight,        \* of those, the ones a refresh or collect held across it
    waived           \* transfers an administrator's request discarded

kernelVars == <<arrived, kernel, clock>>
agentVars  == <<refresh, stale, cache>>
monVars    == <<loop, lastFlowPersist, historyEnabled, clear>>
obsVars    == <<restarts, old, cleared, inFlight, waived>>
vars       == <<kernelVars, agentVars, monVars, db, obsVars>>

-----------------------------------------------------------------------------
(* A batch is what one Drain returns: flows that all carry its timestamp.  *)

Batch   == [stamp : Nat, items : SUBSET Transfers]
NoBatch == [stamp |-> 0, items |-> {}]

Idle == [pc |-> "idle", batch |-> NoBatch]

TypeOK ==
    /\ arrived \in SUBSET Transfers
    /\ kernel \in SUBSET Transfers
    /\ clock \in Nat
    /\ refresh \in [pc : {"idle", "started", "drained"}, batch : Batch]
    /\ stale \in BOOLEAN
    /\ cache \in Batch
    /\ loop \in [pc : {"idle", "requested", "answered", "saving"}, batch : Batch]
    /\ lastFlowPersist \in Nat
    /\ historyEnabled \in BOOLEAN
    /\ clear \in {"idle", "requested", "cacheCleared", "orphaned", "reset"}
    /\ db \in [Transfers -> Nat]
    /\ restarts \in 0..MaxRestarts
    /\ {old, cleared, inFlight, waived} \subseteq SUBSET Transfers
    /\ refresh.pc # "drained" => refresh.batch = NoBatch
    /\ loop.pc \in {"idle", "requested"} => loop.batch = NoBatch

Init ==
    /\ arrived = {} /\ kernel = {} /\ clock = 0
    /\ refresh = Idle /\ stale = TRUE /\ cache = NoBatch
    /\ loop = Idle /\ lastFlowPersist = 0 /\ historyEnabled = TRUE
    /\ clear = "idle"
    /\ db = [t \in Transfers |-> 0]
    /\ restarts = 0
    /\ old = {} /\ cleared = {} /\ inFlight = {} /\ waived = {}

-----------------------------------------------------------------------------
(* The kernel and the clocks.                                              *)

\* account_return adds the bytes of a successful call to its flow entry.
Arrive(t) ==
    /\ t \notin arrived
    /\ arrived' = arrived \cup {t}
    /\ kernel' = kernel \cup {t}
    /\ UNCHANGED <<clock, agentVars, monVars, db, obsVars>>

\* A second has passed since the last network refresh ended.
Second ==
    /\ ~stale
    /\ stale' = TRUE
    /\ UNCHANGED <<kernelVars, refresh, cache, monVars, db, obsVars>>

\* The wall clock, which stamps the flows, is set back.
ClockSetBack ==
    /\ "clock" \in Faults
    /\ clock > 0
    /\ clock' \in 0..(clock - 1)
    /\ UNCHANGED <<arrived, kernel, agentVars, monVars, db, obsVars>>

-----------------------------------------------------------------------------
(* The agent's refreshConnections goroutine.                               *)

\* Drain takes every entry out of the flow map; the result is still local.
DrainFlows ==
    /\ refresh.pc = "started"
    /\ inFlight' = IF clear \in {"cacheCleared", "orphaned"}
                     THEN inFlight \cup (old \cap kernel) ELSE inFlight
    /\ IF kernel = {}
         THEN /\ refresh' = [pc |-> "drained", batch |-> NoBatch]
              /\ UNCHANGED <<clock, kernel>>
         ELSE /\ clock' = clock + 1
              /\ refresh' = [pc |-> "drained",
                             batch |-> [stamp |-> clock + 1, items |-> kernel]]
              /\ kernel' = {}
    /\ UNCHANGED <<arrived, stale, cache, monVars, db, restarts, old, cleared, waived>>

\* Seeded: networkRefreshing is never reset.
FinishRefresh_FlagStays ==
    /\ refresh.pc = "drained"
    /\ cache' = refresh.batch
    /\ stale' = FALSE
    /\ UNCHANGED <<kernelVars, refresh, monVars, db, obsVars>>

\* The second critical section replaces the cache and ends the refresh.
FinishRefresh ==
    /\ refresh.pc = "drained"
    /\ cache' = refresh.batch
    /\ refresh' = Idle
    /\ stale' = FALSE
    /\ UNCHANGED <<kernelVars, monVars, db, obsVars>>

-----------------------------------------------------------------------------
(* The monitor's collect loop.                                             *)

\* The ticker fires and collect sends GET /v1/snapshot.
RequestSnapshot ==
    /\ loop.pc = "idle"
    /\ loop' = [pc |-> "requested", batch |-> NoBatch]
    /\ UNCHANGED <<kernelVars, agentVars, lastFlowPersist, historyEnabled, clear,
                   db, obsVars>>

\* Collector.Snapshot, one critical section: it starts a refresh when none
\* runs and the last one is a second old, and returns the cached batch.
AnswerSnapshot ==
    /\ loop.pc = "requested"
    /\ loop' = [pc |-> "answered", batch |-> cache]
    /\ refresh' = IF refresh.pc = "idle" /\ stale
                    THEN [pc |-> "started", batch |-> NoBatch] ELSE refresh
    /\ UNCHANGED <<kernelVars, stale, cache, lastFlowPersist, historyEnabled,
                   clear, db, obsVars>>

\* The answer times out, is cut short or cannot be decoded: collect returns.
LoseSnapshot ==
    /\ "response" \in Faults
    /\ loop.pc \in {"requested", "answered"}
    /\ loop' = Idle
    /\ UNCHANGED <<kernelVars, agentVars, lastFlowPersist, historyEnabled, clear,
                   db, obsVars>>

\* newestFlow.After(s.lastFlowPersist); a batch without flows is never newer.
IsNewer(b) == b.stamp > lastFlowPersist

\* The decision to persist is taken before the transaction begins.
DecideToSave ==
    /\ loop.pc = "answered"
    /\ IF historyEnabled /\ IsNewer(loop.batch)
         THEN /\ loop' = [loop EXCEPT !.pc = "saving"]
              /\ UNCHANGED waived
         ELSE /\ loop' = Idle
              /\ waived' = IF historyEnabled THEN waived
                                             ELSE waived \cup loop.batch.items
    /\ UNCHANGED <<kernelVars, agentVars, lastFlowPersist, historyEnabled, clear,
                   db, restarts, old, cleared, inFlight>>

\* Seeded: the current time is remembered in place of the newest flow's.
SaveFlows_RemembersNow ==
    /\ loop.pc = "saving"
    /\ db' = [t \in Transfers |-> IF t \in loop.batch.items THEN db[t] + 1 ELSE db[t]]
    /\ lastFlowPersist' = clock
    /\ loop' = Idle
    /\ UNCHANGED <<kernelVars, agentVars, historyEnabled, clear, obsVars>>

\* Seeded: what was saved is not remembered.
SaveFlows_Forgets ==
    /\ loop.pc = "saving"
    /\ db' = [t \in Transfers |-> IF t \in loop.batch.items THEN db[t] + 1 ELSE db[t]]
    /\ loop' = Idle
    /\ UNCHANGED <<kernelVars, agentVars, lastFlowPersist, historyEnabled, clear, obsVars>>

\* SaveNetworkFlows adds every flow of the batch in one transaction.
SaveFlows ==
    /\ loop.pc = "saving"
    /\ db' = [t \in Transfers |-> IF t \in loop.batch.items THEN db[t] + 1 ELSE db[t]]
    /\ lastFlowPersist' = loop.batch.stamp
    /\ loop' = Idle
    /\ UNCHANGED <<kernelVars, agentVars, historyEnabled, clear, obsVars>>

\* The transaction fails, is rolled back and logged.
SaveFails ==
    /\ "save" \in Faults
    /\ loop.pc = "saving"
    /\ loop' = Idle
    /\ UNCHANGED <<kernelVars, agentVars, lastFlowPersist, historyEnabled, clear,
                   db, obsVars>>

-----------------------------------------------------------------------------
(* The administrator.                                                      *)

\* PATCH /settings/network switches the network collector on or off.
ToggleHistory ==
    /\ historyEnabled' = ~historyEnabled
    /\ UNCHANGED <<kernelVars, agentVars, loop, lastFlowPersist, clear, db, obsVars>>

\* DELETE /settings/network with the confirmation phrase reaches the handler,
\* which first asks the agent to reset its live accounting.
RequestClear ==
    /\ clear = "idle"
    /\ clear' = "requested"
    /\ old' = arrived
    /\ UNCHANGED <<kernelVars, agentVars, loop, lastFlowPersist, historyEnabled,
                   db, restarts, cleared, inFlight, waived>>

\* Seeded: the reset forgets the flows the collector has cached.
ResetCache_KeepsCache ==
    /\ clear = "requested"
    /\ clear' = "cacheCleared"
    /\ inFlight' = inFlight \cup (old \cap (refresh.batch.items \cup loop.batch.items))
    /\ UNCHANGED <<kernelVars, agentVars, loop, lastFlowPersist, historyEnabled,
                   db, restarts, old, cleared, waived>>

\* ResetNetworkAccounting drops the cached batch under c.mu ...
ResetCache ==
    /\ clear = "requested"
    /\ clear' = "cacheCleared"
    /\ cache' = NoBatch
    /\ waived' = waived \cup cache.items
    /\ inFlight' = inFlight \cup (old \cap (refresh.batch.items \cup loop.batch.items))
    /\ UNCHANGED <<kernelVars, refresh, stale, loop, lastFlowPersist, historyEnabled,
                   db, restarts, old, cleared>>

\* ... and then, without c.mu, empties the kernel maps.  An orphaned reset is
\* one whose monitor was restarted while the agent was working on it.
ResetKernel ==
    /\ clear \in {"cacheCleared", "orphaned"}
    /\ clear' = IF clear = "cacheCleared" THEN "reset" ELSE "idle"
    /\ kernel' = {}
    /\ waived' = waived \cup kernel
    /\ UNCHANGED <<arrived, clock, agentVars, loop, lastFlowPersist, historyEnabled,
                   db, restarts, old, cleared, inFlight>>

\* The agent cannot be reached, its reset fails with the map partly emptied,
\* its answer is lost, or the deletion of the rows fails: the handler reports an
\* error.  The history is left alone, unless it was VACUUM that failed, after
\* the rows were deleted.
ResetFails ==
    /\ "response" \in Faults
    /\ clear \in {"requested", "cacheCleared", "reset"}
    /\ clear' = "idle"
    /\ old' = {}
    /\ kernel' \in IF clear = "cacheCleared" THEN SUBSET kernel ELSE {kernel}
    /\ db' \in IF clear = "reset" THEN {db, [t \in Transfers |-> 0]} ELSE {db}
    /\ waived' = waived \cup (kernel \ kernel') \cup {t \in Transfers : db'[t] < db[t]}
    /\ UNCHANGED <<arrived, clock, agentVars, loop, lastFlowPersist, historyEnabled,
                   restarts, cleared, inFlight>>

\* Seeded: the monitor forgets what it saved together with the history.
ClearNetworkFlows_Forgets ==
    /\ clear = "reset"
    /\ clear' = "idle"
    /\ db' = [t \in Transfers |-> 0]
    /\ lastFlowPersist' = 0
    /\ cleared' = cleared \cup old
    /\ old' = {}
    /\ waived' = waived \cup {t \in Transfers : db[t] > 0}
    /\ UNCHANGED <<kernelVars, agentVars, loop, historyEnabled, restarts, inFlight>>

\* ClearNetworkFlows deletes every row.
ClearNetworkFlows ==
    /\ clear = "reset"
    /\ clear' = "idle"
    /\ db' = [t \in Transfers |-> 0]
    /\ cleared' = cleared \cup old
    /\ old' = {}
    /\ waived' = waived \cup {t \in Transfers : db[t] > 0}
    /\ UNCHANGED <<kernelVars, agentVars, loop, lastFlowPersist, historyEnabled,
                   restarts, inFlight>>

-----------------------------------------------------------------------------
(* Restarts.                                                               *)

\* The monitor process is replaced: its memory is gone, the agent's is not.
RestartMonitor ==
    /\ "restart" \in Faults
    /\ restarts < MaxRestarts
    /\ restarts' = restarts + 1
    /\ loop' = Idle
    /\ lastFlowPersist' = 0
    /\ clear' = IF clear = "cacheCleared" THEN "orphaned"
                ELSE IF clear = "orphaned" THEN clear ELSE "idle"
    /\ UNCHANGED <<kernelVars, agentVars, historyEnabled, db, old, cleared,
                   inFlight, waived>>

\* The agent process is replaced: the eBPF collection and the cache go with it.
RestartAgent ==
    /\ "agent" \in Faults
    /\ kernel' = {} /\ cache' = NoBatch /\ refresh' = Idle /\ stale' = TRUE
    /\ loop' = IF loop.pc = "requested" THEN Idle ELSE loop
    /\ clear' = IF clear = "reset" THEN clear ELSE "idle"
    /\ UNCHANGED <<arrived, clock, lastFlowPersist, historyEnabled, db, obsVars>>

-----------------------------------------------------------------------------
Collect == RequestSnapshot \/ AnswerSnapshot \/ DecideToSave \/ SaveFlows
Refresh == DrainFlows \/ FinishRefresh
Clear   == RequestClear \/ ResetCache \/ ResetKernel \/ ResetFails \/ ClearNetworkFlows

Next == \/ \E t \in Transfers : Arrive(t)
        \/ Second \/ ClockSetBack
        \/ Collect \/ LoseSnapshot \/ SaveFails
        \/ Refresh
        \/ ToggleHistory \/ Clear
        \/ RestartMonitor \/ RestartAgent

Spec == Init /\ [][Next]_vars

\* The ticker keeps firing, goroutines are scheduled and time passes; traffic,
\* administrators and failures owe nothing.
FairSpec == Spec /\ WF_vars(Collect) /\ WF_vars(Refresh) /\ WF_vars(Second)

-----------------------------------------------------------------------------
(* Properties.                                                             *)

Recorded == {t \in Transfers : db[t] > 0}
Carried  == refresh.batch.items \cup cache.items \cup loop.batch.items

\* What may still reach the history is what is in the map and every batch on
\* its way that is newer than the last one saved.
Fresh(b) == IF IsNewer(b) THEN b.items ELSE {}
Pending  == kernel \cup Fresh(refresh.batch) \cup Fresh(cache) \cup Fresh(loop.batch)

\* The cached batch is served with every snapshot until the next refresh, and
\* only lastFlowPersist, which lives in memory, keeps collect from adding it
\* again: a transfer is added at most once per run of the monitor process.
AtMostOncePerRun == \A t \in Transfers : db[t] <= 1 + restarts

\* The strengthening that makes AtMostOncePerRun inductive.  Two batches on
\* their way are the same batch or share nothing, none shares with the map, and
\* what may still be recorded has been recorded by earlier runs only.
Separate ==
    /\ kernel \cap Carried = {}
    /\ \A b, c \in {refresh.batch, cache, loop.batch} : b = c \/ b.items \cap c.items = {}
Known == kernel \cup Carried \cup Recorded \subseteq arrived
SavesNewer == loop.pc = "saving" => IsNewer(loop.batch)
PendingFromEarlierRuns == \A t \in Pending : db[t] <= restarts

DeliveryInv == /\ TypeOK
               /\ Separate /\ Known /\ SavesNewer
               /\ PendingFromEarlierRuns /\ AtMostOncePerRun

\* Exact accounting over the whole life of the history, restarts included.
ExactlyOnce == \A t \in Transfers : db[t] <= 1

\* Every counted transfer is in the kernel map, on its way, in the history, or
\* was discarded at an administrator's request.  The one-batch cache is
\* overwritten by each refresh, so this depends on every batch being read and
\* saved before the refresh after it ends.
NoHiddenLoss == arrived \subseteq kernel \cup Carried \cup Recorded \cup waived

\* After a clear that succeeded, only a batch that a refresh or collect held
\* when the cache was dropped, or that was drained before the kernel map was
\* emptied too, can bring a transfer from before the clear back.
ReappearsOnlyFromFlight ==
    \A t \in cleared \ inFlight : t \notin kernel \cup Carried \cup Recorded

\* A clear is permanent: what arrived before a successful one is never in the
\* history again.
ClearedStaysCleared == cleared \cap Recorded = {}

\* Without failures every counted transfer reaches the history, unless an
\* administrator had it discarded.
EventuallyRecorded ==
    \A t \in Transfers : (t \in arrived) ~> (t \in Recorded \cup waived)
=============================================================================
