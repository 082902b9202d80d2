------------------------- MODULE FlowDeliveryProofs -------------------------
(***************************************************************************)
(* Theorems about FlowDelivery for every set of transfers, every           *)
(* combination of faults and every bound on restarts.                      *)
(***************************************************************************)
EXTENDS FlowModes, TLAPS

USE FlowAssumption DEF FaultKinds

\* The empty batch of a cache or a snapshot is a batch, and carries nothing.
LEMMA NoBatchIsBatch == /\ NoBatch \in Batch /\ NoBatch.items = {} /\ NoBatch.stamp = 0
                        /\ Idle.pc = "idle" /\ Idle.batch = NoBatch
BY DEF NoBatch, Batch, Idle

\* A freshly started agent and monitor have the types of TypeOK.
LEMMA TypeInit == Init => TypeOK
BY DEF Init, TypeOK, Batch, NoBatch, Idle

\* No handler, goroutine, failure or restart breaks them.
LEMMA TypeStep == TypeOK /\ [Next]_vars => TypeOK'
<1> SUFFICES ASSUME TypeOK, [Next]_vars PROVE TypeOK'
  OBVIOUS
<1> USE DEF TypeOK, Batch, NoBatch, Idle, vars, kernelVars, agentVars, monVars, obsVars
<1>1. ASSUME NEW t \in Transfers, Arrive(t) PROVE TypeOK'
  BY <1>1 DEF Arrive
<1>2. CASE Second
  BY <1>2 DEF Second
<1>3. CASE ClockSetBack
  BY <1>3 DEF ClockSetBack
<1>4. CASE RequestSnapshot
  BY <1>4 DEF RequestSnapshot
<1>5. CASE AnswerSnapshot
  BY <1>5 DEF AnswerSnapshot
<1>6. CASE DecideToSave
  <2>1. waived' \in SUBSET Transfers
    BY <1>6 DEF DecideToSave
  <2>2. loop \in [pc : {"idle", "requested", "answered", "saving"}, batch : Batch]
    OBVIOUS
  <2>3. CASE loop' = Idle
    BY <1>6, <2>1, <2>3 DEF DecideToSave
  <2>4. CASE loop' = [loop EXCEPT !.pc = "saving"]
    <3>1. loop' \in [pc : {"idle", "requested", "answered", "saving"}, batch : Batch]
          /\ loop'.pc = "saving"
      BY <2>2, <2>4
    <3> QED
      BY <1>6, <2>1, <3>1 DEF DecideToSave
  <2> QED
    BY <1>6, <2>3, <2>4 DEF DecideToSave
<1>7. CASE SaveFlows
  BY <1>7 DEF SaveFlows
<1>8. CASE LoseSnapshot
  BY <1>8 DEF LoseSnapshot
<1>9. CASE SaveFails
  BY <1>9 DEF SaveFails
<1>10. CASE DrainFlows
  BY <1>10 DEF DrainFlows
<1>11. CASE FinishRefresh
  BY <1>11 DEF FinishRefresh
<1>12. CASE ToggleHistory
  BY <1>12 DEF ToggleHistory
<1>13. CASE RequestClear
  BY <1>13 DEF RequestClear
<1>14. CASE ResetCache
  BY <1>14 DEF ResetCache
<1>15. CASE ResetKernel
  BY <1>15 DEF ResetKernel
<1>16. CASE ResetFails
  BY <1>16 DEF ResetFails
<1>17. CASE ClearNetworkFlows
  BY <1>17 DEF ClearNetworkFlows
<1>18. CASE RestartMonitor
  BY <1>18 DEF RestartMonitor
<1>19. CASE RestartAgent
  BY <1>19 DEF RestartAgent
<1>20. CASE UNCHANGED vars
  BY <1>20
<1> QED
  BY <1>1, <1>2, <1>3, <1>4, <1>5, <1>6, <1>7, <1>8, <1>9, <1>10, <1>11, <1>12,
     <1>13, <1>14, <1>15, <1>16, <1>17, <1>18, <1>19, <1>20
     DEF Next, Collect, Refresh, Clear

\* Every variable keeps the type its Go counterpart has, and the local flows of
\* a finished refresh and the snapshot of a finished collect are gone.
THEOREM TypeCorrect == Spec => []TypeOK
<1>1. TypeOK /\ [Next]_vars => TypeOK'
  BY TypeStep
<1> QED
  BY TypeInit, <1>1, PTL DEF Spec

-----------------------------------------------------------------------------
\* Nothing is counted, cached or recorded at the start.
LEMMA InvInit == Init => DeliveryInv
BY TypeInit DEF Init, DeliveryInv, TypeOK, Separate, Known, SavesNewer, PendingFromEarlierRuns,
   AtMostOncePerRun, Pending, Fresh, Carried, Recorded, IsNewer, NoBatch, Idle, Batch

\* Every action keeps the batches apart and what is pending unrecorded by this
\* run of the monitor.
LEMMA InvStep == DeliveryInv /\ [Next]_vars => DeliveryInv'
<1> SUFFICES ASSUME DeliveryInv, [Next]_vars PROVE DeliveryInv'
  OBVIOUS
<1> USE DEF DeliveryInv, TypeOK, Batch, NoBatch, Idle, vars, kernelVars, agentVars, monVars, obsVars,
      Separate, Known, SavesNewer, PendingFromEarlierRuns, AtMostOncePerRun, Pending, Fresh,
      Carried, Recorded, IsNewer
<1>0. TypeOK'
  BY TypeStep
<1>1. ASSUME NEW t \in Transfers, Arrive(t) PROVE DeliveryInv'
  BY <1>0, <1>1 DEF Arrive
<1>2. CASE Second
  BY <1>0, <1>2 DEF Second
<1>3. CASE ClockSetBack
  BY <1>0, <1>3 DEF ClockSetBack
<1>4. CASE RequestSnapshot
  BY <1>0, <1>4 DEF RequestSnapshot
<1>5. CASE AnswerSnapshot
  BY <1>0, <1>5 DEF AnswerSnapshot
<1>6. CASE DecideToSave
  BY <1>0, <1>6 DEF DecideToSave
<1>7. CASE SaveFlows
  BY <1>0, <1>7 DEF SaveFlows
<1>8. CASE LoseSnapshot
  BY <1>0, <1>8 DEF LoseSnapshot
<1>9. CASE SaveFails
  BY <1>0, <1>9 DEF SaveFails
<1>10. CASE DrainFlows
  BY <1>0, <1>10 DEF DrainFlows
<1>11. CASE FinishRefresh
  BY <1>0, <1>11 DEF FinishRefresh
<1>12. CASE ToggleHistory
  BY <1>0, <1>12 DEF ToggleHistory
<1>13. CASE RequestClear
  BY <1>0, <1>13 DEF RequestClear
<1>14. CASE ResetCache
  BY <1>0, <1>14 DEF ResetCache
<1>15. CASE ResetKernel
  BY <1>0, <1>15 DEF ResetKernel
<1>16. CASE ResetFails
  BY <1>0, <1>16 DEF ResetFails
<1>17. CASE ClearNetworkFlows
  BY <1>0, <1>17 DEF ClearNetworkFlows
<1>18. CASE RestartMonitor
  BY <1>0, <1>18 DEF RestartMonitor
<1>19. CASE RestartAgent
  BY <1>0, <1>19 DEF RestartAgent
<1>20. CASE UNCHANGED vars
  BY <1>0, <1>20
<1> QED
  BY <1>1, <1>2, <1>3, <1>4, <1>5, <1>6, <1>7, <1>8, <1>9, <1>10, <1>11, <1>12,
     <1>13, <1>14, <1>15, <1>16, <1>17, <1>18, <1>19, <1>20
     DEF Next, Collect, Refresh, Clear

\* The inductive invariant: see its parts in FlowDelivery.
THEOREM DeliveryInvariant == Spec => []DeliveryInv
<1>1. DeliveryInv /\ [Next]_vars => DeliveryInv'
  BY InvStep
<1> QED
  BY InvInit, <1>1, PTL DEF Spec

\* collect never adds one transfer twice in one run of the monitor, whatever
\* answers, transactions, agents or clocks fail (server.go, collect).
THEOREM AtMostOnce == Spec => []AtMostOncePerRun
<1>1. DeliveryInv => AtMostOncePerRun
  BY DEF DeliveryInv
<1> QED
  BY DeliveryInvariant, <1>1, PTL

-----------------------------------------------------------------------------
(* Clearing the history.                                                   *)

\* While the handler waits for the agent to empty the kernel maps, what arrived
\* before it is not on its way any more, but for what was in flight.
ClearedOK ==
    /\ old \cup cleared \subseteq arrived
    /\ clear \in {"cacheCleared", "reset"} => Carried \cap old \subseteq inFlight
    /\ clear = "reset" => kernel \cap old \subseteq inFlight

ClearInv == ClearedOK /\ ReappearsOnlyFromFlight

\* The steps of the pipeline and the handler keep what was cleared away from
\* the map, the batches and the history.
LEMMA ClearStep == TypeOK /\ ClearInv /\ [Next]_vars => ClearInv'
<1> SUFFICES ASSUME TypeOK, ClearInv, [Next]_vars PROVE ClearInv'
  OBVIOUS
<1> USE DEF ClearInv, ClearedOK, ReappearsOnlyFromFlight, Carried, kernelVars, agentVars,
            monVars, obsVars
<1>1. CASE \E t \in Transfers : Arrive(t)
  BY <1>1 DEF Arrive, Recorded
<1>2. CASE Second \/ ClockSetBack \/ ToggleHistory
  BY <1>2 DEF Second, ClockSetBack, ToggleHistory, Recorded
<1>3. CASE RequestSnapshot \/ AnswerSnapshot \/ LoseSnapshot \/ SaveFails
  BY <1>3 DEF RequestSnapshot, AnswerSnapshot, LoseSnapshot, SaveFails, Recorded, Idle, NoBatch
<1>4. CASE DecideToSave
  <2>1. loop'.batch.items \subseteq loop.batch.items
    BY <1>4 DEF DecideToSave, TypeOK, Batch, Idle, NoBatch
  <2>2. UNCHANGED <<kernel, refresh, cache, db, arrived, clear, old, cleared, inFlight>>
    BY <1>4 DEF DecideToSave
  <2> QED
    BY <2>1, <2>2 DEF Recorded
<1>5. CASE SaveFlows
  <2>1. loop'.batch.items = {}
    BY <1>5 DEF SaveFlows, Idle, NoBatch
  <2>2. Recorded' \subseteq Recorded \cup loop.batch.items
    BY <1>5 DEF SaveFlows, Recorded, TypeOK
  <2>3. UNCHANGED <<kernel, refresh, cache, arrived, clear, old, cleared, inFlight>>
    BY <1>5 DEF SaveFlows
  <2> QED
    BY <2>1, <2>2, <2>3
<1>6. CASE DrainFlows
  <2>1. refresh'.batch.items \subseteq kernel /\ kernel' = {}
    BY <1>6 DEF DrainFlows, NoBatch
  <2>2. UNCHANGED <<loop, cache, db, arrived, clear, old, cleared>>
    BY <1>6 DEF DrainFlows
  <2>3. inFlight' = IF clear \in {"cacheCleared", "orphaned"}
                      THEN inFlight \cup (old \cap kernel) ELSE inFlight
    BY <1>6 DEF DrainFlows
  <2> QED
    BY <2>1, <2>2, <2>3 DEF Recorded
<1>7. CASE FinishRefresh
  BY <1>7 DEF FinishRefresh, Recorded, Idle, NoBatch
<1>8. CASE RequestClear
  BY <1>8 DEF RequestClear, Recorded, TypeOK
<1>9. CASE ResetCache
  BY <1>9 DEF ResetCache, Recorded, NoBatch
<1>10. CASE ResetKernel
  BY <1>10 DEF ResetKernel, Recorded
<1>11. CASE ResetFails
  <2>1. /\ kernel' \subseteq kernel /\ clear' = "idle" /\ old' = {}
        /\ UNCHANGED <<refresh, loop, cache, arrived, cleared, inFlight>>
    BY <1>11 DEF ResetFails
  <2>2. Recorded' \subseteq Recorded
    BY <1>11 DEF ResetFails, Recorded
  <2> QED
    BY <2>1, <2>2
<1>12. CASE ClearNetworkFlows
  <2>1. Recorded' = {}
    BY <1>12 DEF ClearNetworkFlows, Recorded
  <2>2. /\ clear = "reset" /\ clear' = "idle" /\ cleared' = cleared \cup old /\ old' = {}
        /\ UNCHANGED <<kernel, refresh, loop, cache, arrived, inFlight>>
    BY <1>12 DEF ClearNetworkFlows
  <2> QED
    BY <2>1, <2>2
<1>13. CASE RestartMonitor
  BY <1>13 DEF RestartMonitor, Recorded, Idle, NoBatch
<1>14. CASE RestartAgent
  BY <1>14 DEF RestartAgent, Recorded, Idle, NoBatch
<1>15. CASE UNCHANGED vars
  BY <1>15 DEF vars, Recorded
<1> QED
  BY <1>1, <1>2, <1>3, <1>4, <1>5, <1>6, <1>7, <1>8, <1>9, <1>10, <1>11, <1>12, <1>13,
     <1>14, <1>15 DEF Next, Collect, Refresh, Clear

\* Whatever fails, only what a refresh or a collect held when the agent dropped
\* its cache comes back after a clear (clearNetworkHistory, ResetNetworkAccounting).
THEOREM ClearsHold == Spec => []ReappearsOnlyFromFlight
<1>1. Init => ClearInv
  BY DEF Init, ClearInv, ClearedOK, ReappearsOnlyFromFlight
<1>2. TypeOK /\ ClearInv /\ [Next]_vars => ClearInv'
  BY ClearStep
<1>3. ClearInv => ReappearsOnlyFromFlight
  BY DEF ClearInv
<1> QED
  BY <1>1, <1>2, <1>3, TypeCorrect, PTL DEF Spec

-----------------------------------------------------------------------------
(* The calm behaviours.                                                    *)

Kept == Recorded \cup waived

\* Batches are stamped in the order in which they are drained, one that is not
\* newer than the last one saved holds nothing that is still to be saved, and a
\* refresh under way overwrites a cache that has been, or is being, collected.
Ordered ==
    /\ lastFlowPersist <= clock
    /\ \A b \in {refresh.batch, cache, loop.batch} : /\ b.stamp <= clock
                                                     /\ b.stamp = 0 => b = NoBatch
    /\ refresh.batch = NoBatch \/ (/\ loop.batch.stamp < refresh.batch.stamp
                                   /\ cache.stamp < refresh.batch.stamp)
    /\ cache = NoBatch \/ loop.batch.stamp <= cache.stamp
    /\ loop.batch.stamp = cache.stamp => loop.batch = cache

CalmOK ==
    /\ clear # "orphaned"
    /\ Ordered
    /\ \A b \in {refresh.batch, cache, loop.batch} :
          b.stamp <= lastFlowPersist => b.items \subseteq Kept
    /\ refresh.pc # "idle" => cache.items \subseteq Kept \cup loop.batch.items
    /\ NoHiddenLoss

\* A calm step is a step in which nothing fails.
CalmNext ==
    \/ \E t \in Transfers : Arrive(t)
    \/ Second \/ ToggleHistory \/ RequestClear \/ ResetCache \/ ResetKernel \/ ClearNetworkFlows
    \/ Collect \/ Refresh

\* Without faults FlowDelivery is left with the steps of CalmNext.
LEMMA CalmSteps == Calm!Next => CalmNext
<1> USE DEF kernelVars, agentVars, monVars, obsVars, Calm!kernelVars, Calm!agentVars,
            Calm!monVars, Calm!obsVars, NoBatch, Idle, IsNewer, Calm!NoBatch, Calm!Idle,
            Calm!IsNewer
<1>1. ASSUME NEW t \in Transfers, Calm!Arrive(t) PROVE Arrive(t)
  BY <1>1 DEF Calm!Arrive, Arrive
<1>2. Calm!Second => Second
  BY DEF Calm!Second, Second
<1>3. Calm!ToggleHistory => ToggleHistory
  BY DEF Calm!ToggleHistory, ToggleHistory
<1>4. Calm!RequestClear => RequestClear
  BY DEF Calm!RequestClear, RequestClear
<1>5. Calm!ResetCache => ResetCache
  BY DEF Calm!ResetCache, ResetCache
<1>6. Calm!ResetKernel => ResetKernel
  BY DEF Calm!ResetKernel, ResetKernel
<1>7. Calm!ClearNetworkFlows => ClearNetworkFlows
  BY DEF Calm!ClearNetworkFlows, ClearNetworkFlows
<1>8. Calm!RequestSnapshot => RequestSnapshot
  BY DEF Calm!RequestSnapshot, RequestSnapshot
<1>9. Calm!AnswerSnapshot => AnswerSnapshot
  BY DEF Calm!AnswerSnapshot, AnswerSnapshot
<1>10. Calm!DecideToSave => DecideToSave
  BY DEF Calm!DecideToSave, DecideToSave
<1>11. Calm!SaveFlows => SaveFlows
  BY DEF Calm!SaveFlows, SaveFlows
<1>12. Calm!DrainFlows => DrainFlows
  BY DEF Calm!DrainFlows, DrainFlows
<1>13. Calm!FinishRefresh => FinishRefresh
  BY DEF Calm!FinishRefresh, FinishRefresh
<1>14. ~(Calm!ClockSetBack \/ Calm!LoseSnapshot \/ Calm!SaveFails \/ Calm!ResetFails
        \/ Calm!RestartMonitor \/ Calm!RestartAgent)
  BY DEF Calm!ClockSetBack, Calm!LoseSnapshot, Calm!SaveFails, Calm!ResetFails,
         Calm!RestartMonitor, Calm!RestartAgent
<1> QED
  BY <1>1, <1>2, <1>3, <1>4, <1>5, <1>6, <1>7, <1>8, <1>9, <1>10, <1>11, <1>12, <1>13, <1>14
  DEF Calm!Next, Calm!Collect, Calm!Refresh, Calm!Clear, CalmNext, Collect, Refresh

\* A calm behaviour is one of the pipeline's.
LEMMA CalmIsFlow == CalmNext => Next
BY DEF CalmNext, Next, Clear

\* What is kept stays kept, and a batch whose items are kept may go.
LEMMA CalmFrame ==
    ASSUME TypeOK, CalmOK, Kept \subseteq Kept', kernel' \subseteq kernel,
           kernel \subseteq kernel' \cup Kept', UNCHANGED <<arrived, refresh, clock>>,
           lastFlowPersist' = lastFlowPersist, clear' # "orphaned",
           loop'.batch = loop.batch \/ (loop'.batch = NoBatch /\ loop.batch.items \subseteq Kept'),
           cache' = cache \/ (cache' = NoBatch /\ cache.items \subseteq Kept')
    PROVE  CalmOK'
<1> USE DEF Carried, NoHiddenLoss
<1>1. /\ loop'.batch = loop.batch \/ loop'.batch = NoBatch
      /\ loop.batch.items \subseteq loop'.batch.items \cup Kept'
      /\ cache.items \subseteq cache'.items \cup Kept'
  OBVIOUS
<1>2. \A b \in {refresh'.batch, cache', loop'.batch} :
          b = NoBatch \/ b \in {refresh.batch, cache, loop.batch}
  BY <1>1
<1>3. Ordered'
  <2> USE DEF Ordered
  <2>1. /\ refresh.batch.stamp \in Nat /\ cache.stamp \in Nat /\ loop.batch.stamp \in Nat
        /\ clock \in Nat /\ NoBatch.stamp = 0 /\ Ordered
    BY DEF TypeOK, Batch, NoBatch, CalmOK
  <2>2. /\ lastFlowPersist' <= clock'
        /\ \A b \in {refresh'.batch, cache', loop'.batch} :
              b.stamp <= clock' /\ (b.stamp = 0 => b = NoBatch)
    BY <1>2, <2>1
  <2>3. loop'.batch.stamp <= loop.batch.stamp /\ cache'.stamp <= cache.stamp
    BY <1>1, <2>1
  <2>4. refresh'.batch = NoBatch \/ (/\ loop'.batch.stamp < refresh'.batch.stamp
                                     /\ cache'.stamp < refresh'.batch.stamp)
    BY <1>1, <2>1, <2>3
  <2>5. cache' = NoBatch \/ loop'.batch.stamp <= cache'.stamp
    BY <2>1, <2>3
  <2>6. loop'.batch.stamp = cache'.stamp => loop'.batch = cache'
    BY <1>1, <2>1
  <2> QED
    BY <2>2, <2>4, <2>5, <2>6
<1>4. \A b \in {refresh'.batch, cache', loop'.batch} :
          b.stamp <= lastFlowPersist' => b.items \subseteq Kept'
  BY <1>2 DEF CalmOK, NoBatch
<1>5. refresh'.pc # "idle" => cache'.items \subseteq Kept' \cup loop'.batch.items
  BY <1>1 DEF CalmOK, NoBatch
<1>6. NoHiddenLoss'
  BY <1>1 DEF CalmOK, Kept
<1> QED
  BY <1>3, <1>4, <1>5, <1>6 DEF CalmOK

\* A calm step loses nothing: the batch that a refresh overwrites was collected.
LEMMA CalmStep ==
    ASSUME TypeOK, TypeOK', CalmOK, CalmNext
    PROVE  CalmOK'
<1> USE DEF kernelVars, agentVars, monVars, obsVars
<1>0. /\ refresh.batch.stamp \in Nat /\ cache.stamp \in Nat /\ loop.batch.stamp \in Nat
      /\ clock \in Nat /\ lastFlowPersist \in Nat /\ db \in [Transfers -> Nat]
      /\ NoBatch.stamp = 0 /\ NoBatch.items = {}
      /\ Idle.pc = "idle" /\ Idle.batch = NoBatch
  BY DEF TypeOK, Batch, NoBatch, Idle
<1>1. ASSUME NEW t \in Transfers, Arrive(t) PROVE CalmOK'
  <2>1. /\ arrived' = arrived \cup {t} /\ kernel' = kernel \cup {t}
        /\ UNCHANGED <<clock, refresh, cache, loop, lastFlowPersist, clear, db, waived>>
    BY <1>1 DEF Arrive
  <2> QED
    BY <2>1 DEF CalmOK, Ordered, Kept, NoHiddenLoss, Carried, Recorded
<1>2. CASE Second \/ ToggleHistory \/ RequestClear \/ RequestSnapshot
  <2>1. /\ UNCHANGED <<kernel, arrived, refresh, clock, lastFlowPersist, cache, db, waived>>
        /\ clear' # "orphaned"
    BY <1>2 DEF Second, ToggleHistory, RequestClear, RequestSnapshot, CalmOK
  <2>2. loop'.batch = loop.batch
    BY <1>2 DEF Second, ToggleHistory, RequestClear, RequestSnapshot, TypeOK
  <2>3. Kept' = Kept
    BY <2>1 DEF Kept, Recorded
  <2> QED
    BY <2>1, <2>2, <2>3, CalmFrame
<1>3. CASE ResetCache
  <2>1. /\ UNCHANGED <<kernel, arrived, refresh, clock, lastFlowPersist, loop, db>>
        /\ clear' = "cacheCleared" /\ cache' = NoBatch /\ waived' = waived \cup cache.items
    BY <1>3 DEF ResetCache
  <2>2. Kept' = Kept \cup cache.items
    BY <2>1 DEF Kept, Recorded
  <2> QED
    BY <2>1, <2>2, CalmFrame
<1>4. CASE ResetKernel
  <2>1. /\ UNCHANGED <<cache, arrived, refresh, clock, lastFlowPersist, loop, db>>
        /\ clear' # "orphaned" /\ kernel' = {} /\ waived' = waived \cup kernel
    BY <1>4 DEF ResetKernel
  <2>2. Kept' = Kept \cup kernel
    BY <2>1 DEF Kept, Recorded
  <2> QED
    BY <2>1, <2>2, CalmFrame
<1>5. CASE ClearNetworkFlows
  <2>1. /\ UNCHANGED <<kernel, cache, arrived, refresh, clock, lastFlowPersist, loop>>
        /\ clear' = "idle" /\ waived' = waived \cup Recorded
    BY <1>5 DEF ClearNetworkFlows, Recorded
  <2>2. Kept \subseteq Kept'
    BY <2>1 DEF Kept
  <2> QED
    BY <2>1, <2>2, CalmFrame
<1>6. CASE AnswerSnapshot
  <2>1. /\ UNCHANGED <<kernel, cache, arrived, clock, lastFlowPersist, clear, db, waived>>
        /\ loop'.batch = cache /\ loop.pc = "requested" /\ refresh'.batch = refresh.batch
    BY <1>6 DEF AnswerSnapshot, TypeOK
  <2>2. loop.batch = NoBatch /\ Kept' = Kept
    BY <2>1 DEF TypeOK, Kept, Recorded
  <2>3. Ordered'
    BY <1>0, <2>1, <2>2 DEF CalmOK, Ordered
  <2>4. NoHiddenLoss'
    BY <1>0, <2>1, <2>2 DEF CalmOK, NoHiddenLoss, Carried, Kept
  <2> QED
    BY <2>1, <2>2, <2>3, <2>4 DEF CalmOK
<1>7. CASE DecideToSave
  <2>1. UNCHANGED <<kernel, cache, arrived, refresh, clock, lastFlowPersist, clear, db>>
    BY <1>7 DEF DecideToSave
  <2>2. CASE loop'.batch = loop.batch /\ waived' = waived
    BY <2>1, <2>2, CalmFrame DEF Kept, Recorded, CalmOK
  <2>3. CASE loop' = Idle /\ historyEnabled /\ ~IsNewer(loop.batch) /\ waived' = waived
    <3>1. loop.batch.items \subseteq Kept
      BY <1>0, <2>3 DEF IsNewer, CalmOK
    <3>2. Kept' = Kept
      BY <2>1, <2>3 DEF Kept, Recorded
    <3> QED
      BY <1>0, <2>1, <2>3, <3>1, <3>2, CalmFrame DEF CalmOK
  <2>4. CASE loop' = Idle /\ waived' = waived \cup loop.batch.items
    <3>1. Kept' = Kept \cup loop.batch.items
      BY <2>1, <2>4 DEF Kept, Recorded
    <3> QED
      BY <1>0, <2>1, <2>4, <3>1, CalmFrame DEF CalmOK
  <2>5. loop \in [pc : {"idle", "requested", "answered", "saving"}, batch : Batch]
    BY DEF TypeOK
  <2>6. \/ loop' = [loop EXCEPT !.pc = "saving"] /\ waived' = waived
        \/ loop' = Idle /\ historyEnabled /\ ~IsNewer(loop.batch) /\ waived' = waived
        \/ loop' = Idle /\ waived' = waived \cup loop.batch.items
    BY <1>7 DEF DecideToSave
  <2> QED
    BY <2>2, <2>3, <2>4, <2>5, <2>6
<1>8. CASE SaveFlows
  <2>1. /\ UNCHANGED <<kernel, cache, arrived, refresh, clock, clear, waived>>
        /\ lastFlowPersist' = loop.batch.stamp /\ loop'.batch = NoBatch
        /\ loop.pc = "saving" /\ loop.batch.items \subseteq Transfers
    BY <1>0, <1>8 DEF SaveFlows, TypeOK, Batch
  <2>2. Kept' = Kept \cup loop.batch.items
    BY <1>0, <1>8, <2>1 DEF SaveFlows, Kept, Recorded
  <2>3. Ordered'
    BY <1>0, <2>1 DEF CalmOK, Ordered
  <2>4. ASSUME NEW b \in {refresh.batch, cache, NoBatch}, b.stamp <= loop.batch.stamp
        PROVE  b.items \subseteq Kept'
    <3>1. b = NoBatch \/ b = loop.batch
      BY <1>0, <2>4 DEF CalmOK, Ordered
    <3> QED
      BY <1>0, <2>2, <3>1
  <2>5. NoHiddenLoss'
    BY <2>1, <2>2 DEF CalmOK, NoHiddenLoss, Carried, Kept
  <2> QED
    BY <2>1, <2>2, <2>3, <2>4, <2>5 DEF CalmOK
<1>9. CASE DrainFlows
  <2>1. /\ UNCHANGED <<cache, loop, arrived, lastFlowPersist, clear, db, waived>>
        /\ kernel' = {} /\ refresh.pc = "started" /\ refresh.batch = NoBatch
        /\ clock <= clock' /\ Kept' = Kept
        /\ \/ refresh'.batch = NoBatch /\ kernel = {}
           \/ refresh'.batch = [stamp |-> clock + 1, items |-> kernel] /\ clock' = clock + 1
    BY <1>0, <1>9 DEF DrainFlows, TypeOK, Kept, Recorded
  <2>2. CASE refresh'.batch = NoBatch /\ kernel = {}
    <3>1. Ordered'
      BY <1>0, <2>1, <2>2 DEF CalmOK, Ordered, TypeOK
    <3> QED
      BY <1>0, <2>1, <2>2, <3>1 DEF CalmOK, NoHiddenLoss, Carried, Kept
  <2>3. CASE refresh'.batch = [stamp |-> clock + 1, items |-> kernel] /\ clock' = clock + 1
    <3>1. refresh'.batch.stamp = clock + 1 /\ refresh'.batch.items = kernel
      BY <2>3
    <3>2. Ordered'
      BY <1>0, <2>1, <2>3, <3>1 DEF CalmOK, Ordered
    <3>3. \A b \in {refresh'.batch, cache, loop.batch} :
              b.stamp <= lastFlowPersist' => b.items \subseteq Kept'
      BY <1>0, <2>1, <2>3, <3>1 DEF CalmOK, Ordered
    <3>4. NoHiddenLoss'
      BY <1>0, <2>1, <3>1 DEF CalmOK, NoHiddenLoss, Carried, Kept
    <3> QED
      BY <2>1, <3>2, <3>3, <3>4 DEF CalmOK
  <2> QED
    BY <2>1, <2>2, <2>3
<1>10. CASE FinishRefresh
  <2>1. /\ UNCHANGED <<kernel, loop, arrived, clock, lastFlowPersist, clear, db, waived>>
        /\ refresh.pc = "drained" /\ cache' = refresh.batch /\ refresh' = Idle /\ Kept' = Kept
    BY <1>10 DEF FinishRefresh, Kept, Recorded
  <2>2. Ordered'
    BY <1>0, <2>1 DEF CalmOK, Ordered
  <2>3. cache.items \subseteq Kept \cup loop.batch.items
    BY <2>1 DEF CalmOK
  <2>4. NoHiddenLoss'
    BY <1>0, <2>1, <2>3 DEF CalmOK, NoHiddenLoss, Carried, Kept
  <2> QED
    BY <1>0, <2>1, <2>2, <2>4 DEF CalmOK
<1> QED
  BY <1>1, <1>2, <1>3, <1>4, <1>5, <1>6, <1>7, <1>8, <1>9, <1>10 DEF CalmNext, Collect, Refresh

-----------------------------------------------------------------------------
(* The pipeline with every failure, or with none.                          *)

\* What holds of the pipeline under every failure holds of both modes.
THEOREM ModesAreFlows == ModeSpec => Spec
<1>1. ModeInit => Init
  BY DEF ModeInit
<1>2. [ModeNext]_modes => [Next]_vars
  BY CalmSteps, CalmIsFlow DEF ModeNext, modes
<1> QED
  BY <1>1, <1>2, PTL DEF ModeSpec, Spec

CalmInv == calm => CalmOK

\* The calm mode keeps CalmOK: no other mode's step is taken in it.
LEMMA CalmInvariant == ModeSpec => []CalmInv
<1>1. ModeInit => CalmInv
  BY DEF ModeInit, Init, CalmInv, CalmOK, Ordered, NoHiddenLoss, Carried, NoBatch, Idle
<1>2. TypeOK /\ TypeOK' /\ CalmInv /\ [ModeNext]_modes => CalmInv'
  <2> SUFFICES ASSUME TypeOK, TypeOK', CalmInv, [ModeNext]_modes, calm'
               PROVE  CalmOK'
    BY DEF CalmInv
  <2>1. CASE CalmNext /\ calm
    BY <2>1, CalmStep DEF CalmInv
  <2>2. CASE UNCHANGED modes
    BY <2>2 DEF modes, vars, kernelVars, agentVars, monVars, obsVars, CalmOK, Ordered,
                NoHiddenLoss, Carried, Kept, Recorded, CalmInv
  <2> QED
    BY <2>1, <2>2, CalmSteps DEF ModeNext
<1> QED
  BY <1>1, <1>2, ModesAreFlows, TypeCorrect, PTL DEF ModeSpec

\* Without failures no transfer is lost, though each refresh overwrites the only
\* batch the agent keeps: the refresh is started by the snapshot that reads it,
\* and the next is not before the next snapshot (Snapshot, collect).
THEOREM CalmLosesNothing == ModeSpec => []CalmHidesNoLoss
<1>1. CalmInv => CalmHidesNoLoss
  BY DEF CalmInv, CalmOK, CalmHidesNoLoss
<1> QED
  BY <1>1, CalmInvariant, PTL

-----------------------------------------------------------------------------
(* Refinement.  Each action is a step of the ledger or leaves it alone.    *)

Held == kernel \cup Carried

\* The empty pipeline is the empty ledger.
LEMMA LedgerInit == ModeInit => Ledger!LInit
BY DEF ModeInit, Init, Ledger!LInit, Pending, Fresh, IsNewer, NoBatch, Idle, Carried

\* What a calm step gives up is in the history or was discarded: it is not lost,
\* and a batch that carries it and is not newer than the last save was recorded.
LEMMA CalmLosses ==
    ASSUME DeliveryInv, CalmOK', TypeOK', UNCHANGED arrived
    PROVE  \A t \in Pending \ Pending' : t \in waived' \/ db'[t] > 0
<1> SUFFICES ASSUME NEW t \in Pending, t \notin Pending' PROVE t \in waived' \/ db'[t] > 0
  OBVIOUS
<1>1. t \in arrived'
  BY DEF DeliveryInv, Known, Pending, Fresh, Carried
<1>2. t \in (kernel \cup Carried \cup Recorded \cup waived)'
  BY <1>1 DEF CalmOK, NoHiddenLoss
<1>3. CASE t \in Carried'
  <2>1. PICK b \in {refresh'.batch, cache', loop'.batch} : t \in b.items
    BY <1>3 DEF Carried
  <2>2. ~(b.stamp > lastFlowPersist')
    BY <2>1 DEF Pending, Fresh, IsNewer
  <2>3. b.stamp <= lastFlowPersist'
    BY <2>1, <2>2 DEF TypeOK, Batch
  <2> QED
    BY <2>1, <2>3 DEF CalmOK, Kept, Recorded
<1>4. t \notin kernel'
  BY DEF Pending
<1> QED
  BY <1>2, <1>3, <1>4 DEF Recorded

\* A step that takes nothing in and makes nothing pending settles.
LEMMA Settles ==
    ASSUME DeliveryInv, TypeOK', calm => CalmOK', UNCHANGED <<calm, arrived, restarts>>,
           Held' \subseteq Held, Pending' \subseteq Pending
    PROVE  Ledger!Settle
<1>1. Pending' \subseteq Held'
  BY DEF Pending, Fresh, Held, Carried
<1>2. calm => \A t \in Pending \ Pending' : t \in waived' \/ db'[t] > 0
  BY CalmLosses
<1> QED
  BY <1>1, <1>2 DEF Ledger!Settle, Held

\* The actions of the pipeline, one by one: Arrive is LArrive, SaveFlows is
\* LRecord of its batch, the deletion of the rows is LWipe, RestartMonitor is
\* LRestart, and every other one is LGiveUp.
LEMMA LedgerStep ==
    ASSUME DeliveryInv, TypeOK', calm => CalmOK', Next, UNCHANGED calm, calm => CalmNext
    PROVE  Ledger!LNext
<1>0. /\ TypeOK /\ db \in [Transfers -> Nat]
      /\ refresh.batch.stamp \in Nat /\ cache.stamp \in Nat /\ loop.batch.stamp \in Nat
      /\ NoBatch.stamp = 0 /\ NoBatch.items = {} /\ Idle.batch = NoBatch
      /\ lastFlowPersist \in Nat
  BY DEF DeliveryInv, TypeOK, Batch, NoBatch, Idle
<1> USE DEF Pending, Fresh, IsNewer, Held, Carried, kernelVars, agentVars, monVars, obsVars
<1>1. ASSUME NEW t \in Transfers, Arrive(t) PROVE Ledger!LArrive(t)
  BY <1>1 DEF Arrive, Ledger!LArrive
<1>2. CASE Second \/ ClockSetBack \/ RequestSnapshot \/ ToggleHistory \/ RequestClear
  <2>1. /\ UNCHANGED <<arrived, db, restarts, waived>>
        /\ Held' \subseteq Held /\ Pending' \subseteq Pending
    BY <1>0, <1>2 DEF Second, ClockSetBack, RequestSnapshot, ToggleHistory, RequestClear
  <2> QED
    BY <2>1, Settles DEF Ledger!LNext, Ledger!LGiveUp
<1>3. CASE AnswerSnapshot \/ LoseSnapshot \/ SaveFails \/ FinishRefresh
  <2>1. UNCHANGED <<arrived, db, restarts, waived>>
    BY <1>3 DEF AnswerSnapshot, LoseSnapshot, SaveFails, FinishRefresh
  <2>2. Held' \subseteq Held /\ Pending' \subseteq Pending
    BY <1>0, <1>3 DEF AnswerSnapshot, LoseSnapshot, SaveFails, FinishRefresh, TypeOK
  <2> QED
    BY <2>1, <2>2, Settles DEF Ledger!LNext, Ledger!LGiveUp
<1>4. CASE DecideToSave
  <2>1. UNCHANGED <<arrived, db, restarts, kernel, refresh, cache, lastFlowPersist>>
    BY <1>4 DEF DecideToSave
  <2>2. loop'.batch = loop.batch \/ loop'.batch = NoBatch
    <3>1. loop \in [pc : {"idle", "requested", "answered", "saving"}, batch : Batch]
      BY <1>0 DEF TypeOK
    <3> QED
      BY <1>0, <1>4, <3>1 DEF DecideToSave
  <2>3. Held' \subseteq Held /\ Pending' \subseteq Pending
    BY <1>0, <2>1, <2>2
  <2>4. waived \subseteq waived' /\ waived' \subseteq waived \cup Held
    BY <1>4 DEF DecideToSave
  <2> QED
    BY <2>1, <2>3, <2>4, Settles DEF Ledger!LNext, Ledger!LGiveUp
<1>5. CASE SaveFlows
  <2> DEFINE kept == loop.batch.items
  <2>1. kept \subseteq Pending
    BY <1>5 DEF SaveFlows, DeliveryInv, SavesNewer
  <2>2. Pending' \subseteq Pending \ kept
    BY <1>5, <1>0 DEF SaveFlows, DeliveryInv, SavesNewer, Separate, TypeOK, Batch,
       NoBatch, Idle
  <2>3. UNCHANGED <<arrived, restarts, waived>> /\ Held' \subseteq Held
    BY <1>0, <1>5 DEF SaveFlows
  <2>4. Ledger!Settle
    BY <2>2, <2>3, Settles
  <2>5. Ledger!LRecord(kept)
    BY <1>5, <2>2, <2>3, <2>4 DEF SaveFlows, Ledger!LRecord
  <2> QED
    BY <2>1, <2>5 DEF Ledger!LNext
<1>6. CASE DrainFlows
  <2>1. UNCHANGED <<arrived, db, restarts, waived>>
    BY <1>6 DEF DrainFlows
  <2>2. /\ refresh'.batch.items \subseteq kernel /\ kernel' = {}
        /\ UNCHANGED <<loop, cache, lastFlowPersist>>
    BY <1>0, <1>6 DEF DrainFlows
  <2>3. Held' \subseteq Held /\ Pending' \subseteq Pending
    BY <2>2
  <2> QED
    BY <2>1, <2>3, Settles DEF Ledger!LNext, Ledger!LGiveUp
<1>7. CASE ResetCache \/ ResetKernel
  <2>1. UNCHANGED <<arrived, db, restarts>> /\ Held' \subseteq Held /\ Pending' \subseteq Pending
    BY <1>0, <1>7 DEF ResetCache, ResetKernel
  <2>2. waived \subseteq waived' /\ waived' \subseteq waived \cup Held
    BY <1>7 DEF ResetCache, ResetKernel
  <2> QED
    BY <2>1, <2>2, Settles DEF Ledger!LNext, Ledger!LGiveUp
<1>8. CASE ResetFails
  <2>1. UNCHANGED <<arrived, restarts, refresh, loop, cache, lastFlowPersist>>
    BY <1>8 DEF ResetFails
  <2>2. CASE db' = db
    <3>1. kernel' \subseteq kernel /\ waived' = waived \cup (kernel \ kernel')
      BY <1>0, <1>8, <2>2 DEF ResetFails
    <3>2. Held' \subseteq Held /\ Pending' \subseteq Pending
      BY <2>1, <3>1
    <3> QED
      BY <2>1, <2>2, <3>1, <3>2, Settles DEF Ledger!LNext, Ledger!LGiveUp
  <2>3. CASE db' = [t \in Transfers |-> 0] /\ clear = "reset"
    <3>1. kernel' = kernel /\ waived' = waived \cup {t \in Transfers : db[t] > 0}
      BY <1>0, <1>8, <2>3 DEF ResetFails
    <3> QED
      BY <2>1, <2>3, <3>1 DEF Ledger!LNext, Ledger!LWipe
  <2> QED
    BY <1>8, <2>2, <2>3 DEF ResetFails
<1>9. CASE ClearNetworkFlows
  BY <1>9 DEF ClearNetworkFlows, Ledger!LNext, Ledger!LWipe
<1>10. CASE RestartMonitor
  <2>1. Held' \subseteq Held /\ Pending' \subseteq Held'
    BY <1>0, <1>10 DEF RestartMonitor
  <2>2. ~calm
    BY <1>0, <1>10 DEF RestartMonitor, CalmNext, Collect, Refresh, Arrive, Second, ToggleHistory,
       RequestClear, ResetCache, ResetKernel, ClearNetworkFlows, RequestSnapshot, AnswerSnapshot,
       DecideToSave, SaveFlows, DrainFlows, FinishRefresh, TypeOK
  <2> QED
    BY <1>10, <2>1, <2>2 DEF RestartMonitor, Ledger!LNext, Ledger!LRestart
<1>11. CASE RestartAgent
  <2>1. UNCHANGED <<arrived, db, restarts, waived, lastFlowPersist>>
    BY <1>11 DEF RestartAgent
  <2>2. Held' \subseteq Held /\ Pending' \subseteq Pending
    BY <1>0, <1>11 DEF RestartAgent
  <2> QED
    BY <2>1, <2>2, Settles DEF Ledger!LNext, Ledger!LGiveUp
<1> QED
  BY <1>1, <1>2, <1>3, <1>4, <1>5, <1>6, <1>7, <1>8, <1>9, <1>10, <1>11
     DEF Next, Collect, Refresh, Clear, Ledger!LNext

\* The pipeline implements the ledger in both modes: collect records only what
\* is pending, in one transaction per batch; only a restart of the monitor, of
\* which calm behaviours have none, makes anything pending again, and only what
\* a batch still holds; and the calm pipeline gives up nothing by itself.
THEOREM Refinement == ModeSpec => ImplementsLedger
<1>1. /\ DeliveryInv /\ TypeOK' /\ CalmInv' /\ [ModeNext]_modes
      => [Ledger!LNext]_(Ledger!lvars)
  <2> SUFFICES ASSUME DeliveryInv, TypeOK', CalmInv', [ModeNext]_modes
               PROVE  [Ledger!LNext]_(Ledger!lvars)
    OBVIOUS
  <2>1. CASE ModeNext
    BY <2>1, LedgerStep, CalmSteps, CalmIsFlow DEF ModeNext, CalmInv
  <2>2. CASE UNCHANGED modes
    BY <2>2 DEF modes, vars, kernelVars, agentVars, monVars, obsVars, Ledger!lvars, Pending,
                Fresh, IsNewer, Carried
  <2> QED
    BY <2>1, <2>2
<1> QED
  BY LedgerInit, <1>1, ModesAreFlows, CalmInvariant, DeliveryInvariant, TypeCorrect,
     PTL DEF ModeSpec, ImplementsLedger, Ledger!LSpec
=============================================================================
