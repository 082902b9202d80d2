--------------------------- MODULE MetricRetention ---------------------------
(****************************************************************************)
(* The history of host metrics and of watches (store/store.go), written and *)
(* thinned out by the collect loop: a sample per pass (SaveMetric), a       *)
(* sample per enabled watch (SaveWatchMetrics), and every PruneEvery the    *)
(* rollup of old samples into buckets and the deletions of RollupAndPrune,  *)
(* while administrators edit the watches.                                   *)
(*                                                                          *)
(* A tick is the ten seconds between two samples.  A rate stands for the    *)
(* network columns of a sample, which are integers.                         *)
(****************************************************************************)
EXTENDS Naturals, FiniteSetsExt, Functions

CONSTANTS Watches,          \* watch ids
          Rates,            \* network rates of a sample
          Width,            \* ticks of a bucket (300 s)
          RawRetention, RollupRetention,
          PruneEvery,       \* ticks between prunes (15 minutes)
          EvictRaw, EvictRollups,   \* what one prune evicts from a file above the quota
          MaxTime,          \* bound on the clock
          MaxMishaps,       \* bound on failed statements and restarts
          None              \* never

VARIABLES
    now,
    metrics,       \* rate of each raw sample
    rollups,       \* the samples behind the row of each bucket, with their rates
    watches,       \* the watches table: is a watch enabled
    watchMetrics,
    full,          \* the database file is larger than the quota
    loop,          \* collect: its step, and the watches it has read
    lastPersist, lastCleanup,
    \* observations
    saved,         \* samples that SaveMetric has inserted, as long as a rollup may have them
    cutoffs,       \* raw cutoffs of the rollups
    evicted,       \* samples deleted for the quota
    undeleted,     \* samples rolled up whose deletion failed
    owed,          \* samples of watches that passes set out to save
    lost,          \* passes whose watch samples were not saved
    mishaps

history == <<metrics, rollups, saved, cutoffs, evicted, undeleted>>
watched == <<watches, watchMetrics, owed, lost>>
times   == <<now, lastPersist, lastCleanup>>
vars    == <<times, history, watched, full, loop, mishaps>>

Times     == 0..MaxTime
Bucket(t) == (t \div Width) * Width
Idle      == [pc |-> "idle", read |-> {}]
Old       == {t \in DOMAIN metrics : t + RawRetention < now}
Covered   == UNION {DOMAIN rollups[b] : b \in DOMAIN rollups}

TypeOK ==
    /\ now \in Times
    /\ metrics \in [DOMAIN metrics -> Rates] /\ DOMAIN metrics \subseteq Times
    /\ \A b \in DOMAIN rollups : LET samples == DOMAIN rollups[b]
                                 IN  /\ rollups[b] \in [samples -> Rates]
                                     /\ samples \subseteq Times /\ samples # {}
                                     /\ \A t \in samples : Bucket(t) = b
    /\ DOMAIN watches \subseteq Watches /\ watches \in [DOMAIN watches -> BOOLEAN]
    /\ {watchMetrics, owed} \subseteq SUBSET (Watches \X Times)
    /\ full \in BOOLEAN
    /\ loop \in [pc : {"idle", "watches", "insert", "maintain", "delete raw", "delete old", "quota"},
                 read : SUBSET Watches]
    /\ {lastPersist, lastCleanup} \subseteq Times \cup {None}
    /\ {saved, evicted, undeleted, lost, cutoffs} \subseteq SUBSET Times

Init ==
    /\ now = 0 /\ lastPersist = None /\ lastCleanup = None
    /\ metrics = <<>> /\ rollups = <<>>
    /\ watches = <<>> /\ watchMetrics = {}
    /\ full = FALSE /\ loop = Idle
    /\ saved = {} /\ cutoffs = {} /\ evicted = {} /\ undeleted = {}
    /\ owed = {} /\ lost = {} /\ mishaps = 0

Mishap == mishaps < MaxMishaps /\ mishaps' = mishaps + 1

-----------------------------------------------------------------------------
(* The clock, the file and the administrators.                             *)

\* A pass takes less than a tick.  Without an answer of the agent there is none.
Tick ==
    /\ loop.pc = "idle" /\ now < MaxTime
    /\ now' = now + 1
    /\ IF lastPersist = now THEN UNCHANGED mishaps ELSE Mishap
    /\ UNCHANGED <<lastPersist, lastCleanup, history, watched, full, loop>>

\* The tables outgrow the quota.  Deleted rows leave free pages in the file ...
FileGrows ==
    /\ ~full /\ Mishap
    /\ full' = TRUE
    /\ UNCHANGED <<times, history, watched, loop>>

\* ... until an administrator clears one of the other histories, which ends with
\* a VACUUM (ClearResourceHistory, ClearNetworkFlows).
FileShrinks ==
    /\ full /\ full' = FALSE
    /\ UNCHANGED <<times, history, watched, loop, mishaps>>

Without(samples, w) == {x \in samples : x[1] # w}

\* Seeded: INSERT OR REPLACE deletes the row it replaces, and its samples go too.
PutWatch_Replaces(w, enabled) ==
    /\ w \in DOMAIN watches => watches[w] # enabled
    /\ watches' = [v \in DOMAIN watches \cup {w} |-> IF v = w THEN enabled ELSE watches[v]]
    /\ watchMetrics' = Without(watchMetrics, w)
    /\ UNCHANGED <<times, history, owed, lost, full, loop, mishaps>>

\* The upsert of PutWatch keeps the row, and with it the samples.
PutWatch(w, enabled) ==
    /\ w \in DOMAIN watches => watches[w] # enabled
    /\ watches' = [v \in DOMAIN watches \cup {w} |-> IF v = w THEN enabled ELSE watches[v]]
    /\ UNCHANGED <<times, history, watchMetrics, owed, lost, full, loop, mishaps>>

\* DeleteWatch: the samples of the watch are deleted with it (ON DELETE CASCADE).
DeleteWatch(w) ==
    /\ w \in DOMAIN watches
    /\ watches' = Restrict(watches, DOMAIN watches \ {w})
    /\ watchMetrics' = Without(watchMetrics, w)
    /\ owed' = Without(owed, w)
    /\ lost' = IF loop.pc = "insert" /\ w \in loop.read THEN lost \cup {now} ELSE lost
    /\ UNCHANGED <<times, history, full, loop, mishaps>>

-----------------------------------------------------------------------------
(* One pass of collect.  Its errors are logged.                            *)

SaveMetric(rate) ==
    /\ loop.pc = "idle" /\ lastPersist # now
    /\ loop' = [loop EXCEPT !.pc = "watches"]
    /\ \/ /\ metrics' = [t \in DOMAIN metrics \cup {now} |-> IF t = now THEN rate ELSE metrics[t]]
          /\ saved' = saved \cup {now}
          /\ UNCHANGED mishaps
       \/ Mishap /\ UNCHANGED <<metrics, saved>>
    /\ UNCHANGED <<times, rollups, cutoffs, evicted, undeleted, watched, full>>

\* The watches are read once; without them the pass saves none of their samples.
ReadWatches ==
    /\ loop.pc = "watches"
    /\ LET enabled == {w \in DOMAIN watches : watches[w]}
       IN  /\ owed' = owed \cup (enabled \X {now})
           /\ \/ /\ loop' = [pc |-> "insert", read |-> enabled]
                 /\ UNCHANGED <<lastPersist, lost, mishaps>>
              \/ /\ loop' = [Idle EXCEPT !.pc = "maintain"]
                 /\ lastPersist' = now
                 /\ Mishap /\ lost' = lost \cup {now}
    /\ UNCHANGED <<now, lastCleanup, history, watches, watchMetrics, full>>

\* One transaction for all of them: a watch that is gone fails its foreign key,
\* and the others lose the samples of this pass as well.
SaveWatchMetrics ==
    /\ loop.pc = "insert"
    /\ loop' = [Idle EXCEPT !.pc = "maintain"]
    /\ lastPersist' = now
    /\ \/ /\ watchMetrics' = IF loop.read \subseteq DOMAIN watches
                             THEN watchMetrics \cup (loop.read \X {now}) ELSE watchMetrics
          /\ UNCHANGED <<lost, mishaps>>
       \/ Mishap /\ lost' = lost \cup {now} /\ UNCHANGED watchMetrics
    /\ UNCHANGED <<now, lastCleanup, history, watches, owed, full>>

PruneDue == lastCleanup # None => now >= lastCleanup + PruneEvery

NoPrune ==
    /\ loop.pc = "maintain" /\ ~PruneDue
    /\ loop' = Idle
    /\ UNCHANGED <<times, history, watched, full, mishaps>>

\* What the averages of a row are taken of.
Row(samples) == Restrict(metrics, samples)

\* INSERT OR REPLACE of one row per bucket of the given samples.
RollUp(samples) ==
    LET group(b) == {t \in samples : Bucket(t) = b}
    IN  rollups' = [b \in DOMAIN rollups \cup {Bucket(t) : t \in samples} |->
                      IF group(b) = {} THEN rollups[b] ELSE Row(group(b))]

\* Seeded: the sample at the cutoff is rolled up, though it is not deleted.
Rollup_Inclusive ==
    /\ loop.pc = "maintain" /\ PruneDue
    /\ RollUp({t \in DOMAIN metrics : t + RawRetention <= now})
    /\ cutoffs' = IF now > RawRetention THEN cutoffs \cup {now - RawRetention} ELSE cutoffs
    /\ loop' = [loop EXCEPT !.pc = "delete raw"]
    /\ UNCHANGED <<times, metrics, saved, evicted, undeleted, watched, full, mishaps>>

Rollup ==
    /\ loop.pc = "maintain" /\ PruneDue
    /\ RollUp(Old)
    /\ cutoffs' = IF now > RawRetention THEN cutoffs \cup {now - RawRetention} ELSE cutoffs
    /\ loop' = [loop EXCEPT !.pc = "delete raw"]
    /\ UNCHANGED <<times, metrics, saved, evicted, undeleted, watched, full, mishaps>>

\* Without the rollup nothing is deleted, and the next try is a period away.
RollupFails ==
    /\ loop.pc = "maintain" /\ PruneDue /\ Mishap
    /\ loop' = Idle /\ lastCleanup' = now
    /\ UNCHANGED <<now, lastPersist, history, watched, full>>

\* The errors of the deletions are ignored.
DeleteRaw ==
    /\ loop.pc = "delete raw"
    /\ loop' = [loop EXCEPT !.pc = "delete old"]
    /\ \/ /\ metrics' = Restrict(metrics, DOMAIN metrics \ Old)
          /\ undeleted' = undeleted \ Old
          /\ UNCHANGED mishaps
       \/ Mishap /\ undeleted' = undeleted \cup Old /\ UNCHANGED metrics
    /\ UNCHANGED <<times, rollups, saved, cutoffs, evicted, watched, full>>

DeleteOld ==
    /\ loop.pc = "delete old"
    /\ loop' = [loop EXCEPT !.pc = "quota"]
    /\ LET recent(samples) == {x \in samples : x[2] + RawRetention >= now}
           kept(samples)   == {t \in samples : Bucket(t) + RollupRetention >= now}
       IN  /\ owed' = recent(owed)
           /\ lost' = lost \cap {x[2] : x \in owed'}
           /\ \E samples, rows \in BOOLEAN :    \* are they deleted?
                 /\ IF samples /\ rows THEN UNCHANGED mishaps ELSE Mishap
                 /\ watchMetrics' = IF samples THEN recent(watchMetrics) ELSE watchMetrics
                 /\ IF rows THEN /\ rollups' = Restrict(rollups, kept(DOMAIN rollups))
                                 /\ saved' = kept(saved) /\ cutoffs' = kept(cutoffs)
                                 /\ evicted' = kept(evicted)
                            ELSE UNCHANGED <<rollups, saved, cutoffs, evicted>>
    /\ UNCHANGED <<times, metrics, undeleted, watches, full>>

Oldest(S, n) == {x \in S : Cardinality({y \in S : y < x}) < n}

\* While the file is above the quota its oldest rows are deleted, ten rounds of
\* them, because that does not make the file smaller; the errors are ignored.
KeepQuota ==
    /\ loop.pc = "quota"
    /\ loop' = Idle /\ lastCleanup' = now
    /\ \E raw \in {{}, Oldest(DOMAIN metrics, EvictRaw)},
          old \in {{}, Oldest(DOMAIN rollups, EvictRollups)} :
          /\ full \/ raw \cup old = {}
          /\ metrics' = Restrict(metrics, DOMAIN metrics \ raw)
          /\ rollups' = Restrict(rollups, DOMAIN rollups \ old)
          /\ evicted' = evicted \cup raw \cup UNION {DOMAIN rollups[b] : b \in old}
          /\ undeleted' = undeleted \ raw
    /\ UNCHANGED <<now, lastPersist, saved, cutoffs, watched, full, mishaps>>

\* The monitor dies, between two statements perhaps, and starts anew.
RestartMonitor ==
    /\ Mishap
    /\ loop' = Idle /\ lastPersist' = None /\ lastCleanup' = None
    /\ undeleted' = IF loop.pc = "delete raw" THEN undeleted \cup Old ELSE undeleted
    /\ lost' = IF loop.pc = "insert" THEN lost \cup {now} ELSE lost
    /\ UNCHANGED <<now, metrics, rollups, saved, cutoffs, evicted, watches, watchMetrics, owed, full>>

Next ==
    \/ Tick \/ FileGrows \/ FileShrinks \/ RestartMonitor
    \/ \E w \in Watches : DeleteWatch(w) \/ \E enabled \in BOOLEAN : PutWatch(w, enabled)
    \/ \E rate \in Rates : SaveMetric(rate)
    \/ ReadWatches \/ SaveWatchMetrics
    \/ NoPrune \/ Rollup \/ RollupFails \/ DeleteRaw \/ DeleteOld \/ KeepQuota

Spec == Init /\ [][Next]_vars

-----------------------------------------------------------------------------
(* Properties.                                                             *)

\* The rows History reads for a range: the rollups first, then the raw samples.
\* A rate is read into an integer, which fails for an average that is none.
Unreadable(b) == LET samples == DOMAIN rollups[b]
                 IN  MapThenSumSet(LAMBDA t : rollups[b][t], samples) % Cardinality(samples) # 0

\* The bucket of a sample was cut: an earlier prune rolled up its first part, and
\* the row that a later prune put in its place is of the rest only.
CutOff(t) == \E c \in cutoffs : t < c /\ c < Bucket(t) + Width

\* Each saved sample is in what History reads, as itself or in the row of its
\* bucket, until that row is a RollupRetention old, unless the prune cut its
\* bucket or evicted it; and it is not there twice, but between the rollup and
\* the deletion or after that deletion failed (RollupAndPrune).
SampleShownOnce ==
    /\ \A t \in saved : \/ t \in DOMAIN metrics \cup Covered \cup evicted
                        \/ Bucket(t) + RollupRetention < now
                        \/ CutOff(t)
    /\ DOMAIN metrics \cap Covered \subseteq
          IF loop.pc = "delete raw" THEN undeleted \cup Old ELSE undeleted

\* A watch has the samples of all the passes that found it enabled, whatever is
\* done to it but its deletion, back to the raw cutoff; a pass that could not
\* save them, or from under which a watch was deleted, lost those of all watches.
\* No sample outlives its watch.
WatchSamplesKept ==
    /\ \A x \in owed : \/ x \in watchMetrics \/ x[2] \in lost
                       \/ loop.pc = "insert" /\ x[2] = now
    /\ \A x \in watchMetrics : x[1] \in DOMAIN watches

\* The history can be read as long as it is kept.
HistoryReadable == \A b \in DOMAIN rollups : ~Unreadable(b)
==============================================================================
