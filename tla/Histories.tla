------------------------------ MODULE Histories ------------------------------
(* The two histories that a pass of collect writes one after the other:       *)
(* processes and their switches (ResourceHistory), and host metrics and       *)
(* watches (MetricRetention).  They share no table and neither waits for the  *)
(* other's locks, so a behaviour follows one of them; and as no statement on  *)
(* metrics reads a watch, watches are edited in behaviours of their own,      *)
(* which may be shorter.                                                      *)
EXTENDS ResourceHistory

CONSTANTS Watches, Rates, Width, RawRetention, RollupRetention, PruneEvery,
          EvictRaw, EvictRollups, MaxTime, MetricMishaps,
          WatchTime, WatchMishaps    \* bounds where watches are edited

ASSUME RetentionAssumption ==
    /\ Width \in Nat \ {0}
    /\ {RawRetention, RollupRetention, MaxTime} \subseteq Nat

VARIABLES followed, now, metrics, rollups, watches, watchMetrics, full, pass,
          lastPersist, lastCleanup, saved, cutoffs, evicted, undeleted, owed, lost,
          failures

Retention == INSTANCE MetricRetention WITH loop <- pass, mishaps <- failures,
                                           MaxMishaps <- MetricMishaps

retained == <<now, metrics, rollups, watches, watchMetrics, full, pass, lastPersist,
              lastCleanup, saved, cutoffs, evicted, undeleted, owed, lost, failures>>

HistoriesInit == followed \in {"processes", "metrics", "watches"} /\ Init /\ Retention!Init
HistoriesNext ==
    \/ /\ followed = "processes" /\ Next /\ UNCHANGED <<followed, retained>>
    \/ /\ followed = "metrics" /\ UNCHANGED <<followed, watches, vars>>
       /\ Retention!Next
    \/ /\ followed = "watches" /\ UNCHANGED <<followed, vars>>
       /\ Retention!Next /\ now' <= WatchTime /\ failures' <= WatchMishaps

HistoriesSpec == HistoriesInit /\ [][HistoriesNext]_<<followed, vars, retained>>

\* Each saved sample is in what History reads once, as itself or in the row of its
\* bucket, but for what MetricRetention names (RollupAndPrune in store/store.go).
SampleShownOnce == Retention!TypeOK /\ Retention!SampleShownOnce

\* An enabled watch has the samples of all passes but those MetricRetention names
\* (SaveWatchMetrics, PutWatch and DeleteWatch in store/store.go).
WatchSamplesKept == Retention!WatchSamplesKept
==============================================================================
