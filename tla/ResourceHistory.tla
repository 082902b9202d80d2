--------------------------- MODULE ResourceHistory ---------------------------
(***************************************************************************)
(* The disk part of the process history and the switches that control it:  *)
(* SaveProcessResources, run by the collect loop, with its baselines       *)
(* s.ioSeen; the PATCH of the collector switches, which live in a table    *)
(* and in the cache s.historyCache; and the DELETE of the history.         *)
(*                                                                         *)
(* A unit is one piece of I/O of a process: unit u is the u-th it did, so  *)
(* that its counter says how many there were.                              *)
(***************************************************************************)
EXTENDS Naturals

CONSTANTS Admins, Processes, Switches,
          Disk,         \* the switch of disk I/O; the others stand for CPU and memory
          Bodies,       \* what a PATCH may give: values for some of the switches
          None,         \* no value: not cached, not given, not read, not seen
          MaxIO,        \* bound on the units of a process
          MaxPatches,   \* bound on PATCH requests
          MaxMishaps    \* bound on failed statements, reads and restarts

ASSUME ResourceAssumption ==
    /\ Disk \in Switches
    /\ None \notin BOOLEAN /\ None \notin Nat
    /\ Bodies \subseteq [Switches -> BOOLEAN \cup {None}]
    /\ MaxIO \in Nat /\ MaxPatches \in Nat /\ MaxMishaps \in Nat

VARIABLES
    table,    \* application_settings
    cache,    \* s.historyCache
    fills,    \* values that GET handlers have read from the table for the cache
    admin,    \* PATCH handlers
    done,     \* the I/O counter of each process
    alive,    \* processes that have not exited
    seen,     \* s.ioSeen
    loop,     \* SaveProcessResources
    clearing, \* a DELETE handler has deleted the rows
    history,  \* process_resource_history: how often each unit is in it
    \* observations
    hidden,   \* units that a pass saw with the disk switch off
    unreached, \* those of them that no such pass has moved the baseline past
    zeroed,   \* how often a counter was read as zero
    asked,    \* the last value a committed PATCH gave for each switch
    crossed,  \* switches for which two requests overlapped
    patches, mishaps

settings == <<table, cache, fills, admin, asked, crossed, patches>>
io       == <<done, alive, seen, loop, clearing, history, hidden, unreached, zeroed>>
vars     == <<settings, io, mishaps>>

Units   == 1..MaxIO
Counter == 0..MaxIO
Values  == [Switches -> BOOLEAN \cup {None}]
Nothing == [s \in Switches |-> None]

AdminIdle == [pc |-> "idle", want |-> Nothing, next |-> Nothing]
LoopIdle  == [pc |-> "idle", snap |-> [p \in Processes |-> None], switch |-> Nothing,
              left |-> {}, found |-> {}]

TypeOK ==
    /\ table \in [Switches -> BOOLEAN]
    /\ cache \in Values
    /\ fills \subseteq Switches \X BOOLEAN
    /\ admin \in [Admins -> [pc : {"idle", "reading", "committed"}, want : Values, next : Values]]
    /\ done \in [Processes -> Counter]
    /\ alive \subseteq Processes
    /\ seen \in [Processes -> Counter \cup {None}]
    /\ loop \in [pc : {"idle", "sampled", "saving"},
                 snap : [Processes -> Counter \cup {None}],
                 switch : Values,
                 left : SUBSET Processes,
                 found : SUBSET (Processes \X Units)]
    /\ clearing \in BOOLEAN
    /\ history \in [Processes \X Units -> Nat]
    /\ hidden \subseteq Processes \X Units /\ unreached \subseteq hidden
    /\ zeroed \in [Processes -> Nat]
    /\ asked \in [Switches -> BOOLEAN]
    /\ crossed \subseteq Switches
    /\ patches \in 0..MaxPatches /\ mishaps \in 0..MaxMishaps
    /\ \A p \in Processes : seen[p] # None => seen[p] <= done[p]

\* A fresh database has every switch on.
Init ==
    /\ table = [s \in Switches |-> TRUE]
    /\ cache = table /\ asked = table
    /\ fills = {}
    /\ admin = [a \in Admins |-> AdminIdle]
    /\ done = [p \in Processes |-> 0]
    /\ alive = Processes
    /\ seen = [p \in Processes |-> None]
    /\ loop = LoopIdle
    /\ clearing = FALSE
    /\ history = [x \in Processes \X Units |-> 0]
    /\ hidden = {} /\ unreached = {} /\ zeroed = [p \in Processes |-> 0]
    /\ crossed = {}
    /\ patches = 0 /\ mishaps = 0

Mishap == mishaps < MaxMishaps /\ mishaps' = mishaps + 1

\* The loop's transaction has written a row: other writers wait for it.
WriteLocked == loop.pc = "saving" /\ \E p \in Processes \ loop.left : loop.snap[p] # None

-----------------------------------------------------------------------------
(* The switches.                                                           *)

\* settingEnabled: the cached value, otherwise that of the table, which is
\* cached, and TRUE when the table cannot be read.
SettingEnabled(s, v) ==
    \/ v = cache[s] /\ UNCHANGED <<cache, mishaps>>
    \/ /\ cache[s] = None
       /\ v = table[s]
       /\ cache' = [cache EXCEPT ![s] = v]
       /\ UNCHANGED mishaps
    \/ /\ cache[s] = None
       /\ v = TRUE
       /\ Mishap
       /\ UNCHANGED cache

\* The switches are read one by one, the one of disk I/O last.
NextToRead(values, s) ==
    /\ values[s] = None
    /\ s = Disk => \A o \in Switches \ {Disk} : values[o] # None

\* A GET handler misses the cache: it reads the table ...
ReadThrough(s) ==
    /\ cache[s] = None
    /\ fills' = fills \cup {<<s, table[s]>>}
    /\ UNCHANGED <<table, cache, admin, asked, crossed, patches, io, mishaps>>

\* ... and caches what it read.
Fill(s, v) ==
    /\ <<s, v>> \in fills
    /\ fills' = fills \ {<<s, v>>}
    /\ cache' = [cache EXCEPT ![s] = v]
    /\ UNCHANGED <<table, admin, asked, crossed, patches, io, mishaps>>

\* PATCH /settings/network, with some of the switches in its body.
BeginPatch(a, want) ==
    /\ admin[a].pc = "idle" /\ patches < MaxPatches
    /\ patches' = patches + 1
    /\ admin' = [admin EXCEPT ![a] = [pc |-> "reading", want |-> want, next |-> want]]
    /\ UNCHANGED <<table, cache, fills, asked, crossed, io, mishaps>>

\* Seeded: a switch that is not in the body is switched on.
ReadCurrent_On(a, s) ==
    /\ admin[a].pc = "reading" /\ NextToRead(admin[a].next, s)
    /\ admin' = [admin EXCEPT ![a].next[s] = TRUE]
    /\ UNCHANGED <<table, cache, fills, asked, crossed, patches, io, mishaps>>

\* A switch that is not in the body keeps its current value.
ReadCurrent(a, s) ==
    /\ admin[a].pc = "reading" /\ NextToRead(admin[a].next, s)
    /\ \E v \in BOOLEAN :
          /\ SettingEnabled(s, v)
          /\ admin' = [admin EXCEPT ![a].next[s] = v]
          /\ crossed' = IF v = table[s] /\ v = asked[s] THEN crossed ELSE crossed \cup {s}
    /\ UNCHANGED <<table, fills, asked, patches, io>>

Others(a) == {b \in Admins \ {a} : admin[b].pc # "idle"}

\* SetHistoryCollectors: all switches are written in one transaction ...
CommitSwitches(a) ==
    LET want == admin[a].want
    IN  /\ admin[a].pc = "reading"
        /\ \A s \in Switches : admin[a].next[s] # None
        /\ ~WriteLocked
        /\ table' = admin[a].next
        /\ admin' = [admin EXCEPT ![a].pc = "committed"]
        /\ asked' = [s \in Switches |-> IF want[s] = None THEN asked[s] ELSE want[s]]
        /\ crossed' = crossed \cup
              {s \in Switches :
                  \/ \E b \in Others(a) : \/ admin[b].pc = "committed"
                                          \/ admin[b].want[s] = None /\ admin[b].next[s] # None
                  \/ \E v \in BOOLEAN : <<s, v>> \in fills}
        /\ UNCHANGED <<cache, fills, patches, io, mishaps>>

CommitFails(a) ==
    /\ admin[a].pc = "reading"
    /\ \A s \in Switches : admin[a].next[s] # None
    /\ Mishap
    /\ admin' = [admin EXCEPT ![a] = AdminIdle]
    /\ UNCHANGED <<table, cache, fills, asked, crossed, patches, io>>

\* ... and then cached.
CacheSwitches(a) ==
    /\ admin[a].pc = "committed"
    /\ cache' = admin[a].next
    /\ admin' = [admin EXCEPT ![a] = AdminIdle]
    /\ UNCHANGED <<table, fills, asked, crossed, patches, io, mishaps>>

-----------------------------------------------------------------------------
(* Processes.                                                              *)

DoIO(p) ==
    /\ p \in alive /\ done[p] < MaxIO
    /\ done' = [done EXCEPT ![p] = @ + 1]
    /\ UNCHANGED <<settings, alive, seen, loop, clearing, history, hidden, unreached, zeroed, mishaps>>

Exit(p) ==
    /\ p \in alive
    /\ alive' = alive \ {p}
    /\ UNCHANGED <<settings, done, seen, loop, clearing, history, hidden, unreached, zeroed, mishaps>>

-----------------------------------------------------------------------------
(* The collect loop.                                                       *)

\* The snapshot: a /proc/<pid>/io that cannot be read counts as zero.
Sample ==
    /\ loop.pc = "idle"
    /\ \E unread \in SUBSET {p \in alive : done[p] > 0} :
          /\ IF unread = {} THEN UNCHANGED mishaps ELSE Mishap
          /\ loop' = [LoopIdle EXCEPT
                        !.pc = "sampled",
                        !.snap = [p \in Processes |-> IF p \notin alive THEN None
                                                      ELSE IF p \in unread THEN 0
                                                      ELSE done[p]]]
          /\ zeroed' = [p \in Processes |-> IF p \in unread THEN zeroed[p] + 1 ELSE zeroed[p]]
    /\ UNCHANGED <<settings, done, alive, seen, clearing, history, hidden, unreached>>

\* What the snapshot says of a process, and nobody recorded.
Unrecorded(p) == IF loop.snap[p] = None THEN {}
                 ELSE {x \in {p} \X (1..loop.snap[p]) : history[x] = 0}

\* With the switch of disk I/O, which is read last, off the pass hides what it saw.
ReadSwitch(s) ==
    /\ loop.pc = "sampled" /\ NextToRead(loop.switch, s)
    /\ \E v \in BOOLEAN :
          LET off == IF s = Disk /\ ~v THEN UNION {Unrecorded(p) : p \in Processes} ELSE {}
          IN  /\ SettingEnabled(s, v)
              /\ loop' = [loop EXCEPT !.switch[s] = v]
              /\ hidden' = hidden \cup off
              /\ unreached' = unreached \cup (off \ hidden)
    /\ UNCHANGED <<table, fills, admin, asked, crossed, patches,
                   done, alive, seen, clearing, history, zeroed>>

SwitchesRead == loop.pc = "sampled" /\ \A s \in Switches : loop.switch[s] # None

\* The units of a process that a pass with disk I/O off leaves behind its baseline.
LeftOut(p) == IF loop.switch[Disk] THEN {} ELSE Unrecorded(p)

\* Nothing is collected: the baselines are dropped.
NothingEnabled ==
    /\ SwitchesRead
    /\ \A s \in Switches : ~loop.switch[s]
    /\ seen' = [p \in Processes |-> None]
    /\ unreached' = unreached \ UNION {LeftOut(p) : p \in Processes}
    /\ loop' = LoopIdle
    /\ UNCHANGED <<settings, done, alive, clearing, history, hidden, zeroed, mishaps>>

BeginSave ==
    /\ SwitchesRead
    /\ \E s \in Switches : loop.switch[s]
    /\ \/ /\ loop' = [loop EXCEPT !.pc = "saving",
                                  !.left = {p \in Processes : loop.snap[p] # None}]
          /\ UNCHANGED mishaps
       \/ loop' = LoopIdle /\ Mishap
    /\ UNCHANGED <<settings, done, alive, seen, clearing, history, hidden, unreached, zeroed>>

\* The units between the baseline and the snapshot; none after a counter that
\* went back.
Delta(p) == IF loop.switch[Disk] /\ seen[p] # None
            THEN {p} \X {u \in Units : seen[p] < u /\ u <= loop.snap[p]}
            ELSE {}

\* Seeded: a baseline that is there is kept.
SaveProcess_SeenOnce(p) ==
    /\ loop.pc = "saving" /\ p \in loop.left
    /\ seen' = [seen EXCEPT ![p] = IF @ = None THEN loop.snap[p] ELSE @]
    /\ unreached' = unreached \ LeftOut(p)
    /\ loop' = [loop EXCEPT !.left = @ \ {p}, !.found = @ \cup Delta(p)]
    /\ UNCHANGED <<settings, done, alive, clearing, history, hidden, zeroed, mishaps>>

\* Seeded: the baseline is advanced while the disk switch is on only.
SaveProcess_SeenWhenOn(p) ==
    /\ loop.pc = "saving" /\ p \in loop.left
    /\ seen' = [seen EXCEPT ![p] = IF loop.switch[Disk] THEN loop.snap[p] ELSE @]
    /\ unreached' = unreached \ LeftOut(p)
    /\ loop' = [loop EXCEPT !.left = @ \ {p}, !.found = @ \cup Delta(p)]
    /\ UNCHANGED <<settings, done, alive, clearing, history, hidden, zeroed, mishaps>>

\* One turn of the loop over the processes: the baseline is advanced first,
\* and stays so when the statement fails and the transaction is rolled back.
SaveProcess(p) ==
    /\ loop.pc = "saving" /\ p \in loop.left
    /\ seen' = [seen EXCEPT ![p] = loop.snap[p]]
    /\ unreached' = unreached \ LeftOut(p)
    /\ \/ /\ loop' = [loop EXCEPT !.left = @ \ {p}, !.found = @ \cup Delta(p)]
          /\ UNCHANGED mishaps
       \/ loop' = LoopIdle /\ Mishap
    /\ UNCHANGED <<settings, done, alive, clearing, history, hidden, zeroed>>

\* The baselines of processes that are gone are dropped; the commit may fail.
EndSave ==
    /\ loop.pc = "saving" /\ loop.left = {}
    /\ seen' = [p \in Processes |-> IF loop.snap[p] = None THEN None ELSE seen[p]]
    /\ \/ /\ history' = [x \in Processes \X Units |->
                            IF x \in loop.found THEN history[x] + 1 ELSE history[x]]
          /\ UNCHANGED mishaps
       \/ Mishap /\ UNCHANGED history
    /\ loop' = LoopIdle
    /\ UNCHANGED <<settings, done, alive, clearing, hidden, unreached, zeroed>>

-----------------------------------------------------------------------------
(* The DELETE of the history, and restarts.                                *)

ClearRows ==
    /\ ~clearing /\ ~WriteLocked
    /\ clearing' = TRUE
    /\ history' = [x \in Processes \X Units |-> 0]
    /\ UNCHANGED <<settings, done, alive, seen, loop, hidden, unreached, zeroed, mishaps>>

\* The monitor begins anew, with the switches that loadHistorySettings could read.
Restart(readable) ==
    /\ cache' = [s \in Switches |-> IF s \in readable THEN table[s] ELSE None]
    /\ fills' = {}
    /\ admin' = [a \in Admins |-> AdminIdle]
    /\ seen' = [p \in Processes |-> None]
    /\ loop' = LoopIdle
    /\ clearing' = FALSE
    /\ UNCHANGED <<table, asked, crossed, patches, done, alive, history, hidden, unreached, zeroed>>

RestartMonitor == Mishap /\ \E readable \in SUBSET Switches : Restart(readable)

\* clear(s.ioSeen) takes no lock: beside the loop over the processes it takes
\* effect between two turns, or the runtime finds the race and ends the monitor.
ClearSeen ==
    /\ clearing
    /\ \/ /\ clearing' = FALSE
          /\ seen' = [p \in Processes |-> None]
          /\ UNCHANGED <<settings, done, alive, loop, history, hidden, unreached, zeroed>>
       \/ loop.pc = "saving" /\ Restart(Switches)
    /\ UNCHANGED mishaps

-----------------------------------------------------------------------------
Next ==
    \/ \E s \in Switches : ReadThrough(s) \/ ReadSwitch(s) \/ \E v \in BOOLEAN : Fill(s, v)
    \/ \E a \in Admins : \/ \E want \in Bodies : BeginPatch(a, want)
                         \/ \E s \in Switches : ReadCurrent(a, s)
                         \/ CommitSwitches(a) \/ CommitFails(a) \/ CacheSwitches(a)
    \/ \E p \in Processes : DoIO(p) \/ Exit(p) \/ SaveProcess(p)
    \/ Sample \/ NothingEnabled \/ BeginSave \/ EndSave
    \/ ClearRows \/ ClearSeen \/ RestartMonitor

Spec == Init /\ [][Next]_vars

-----------------------------------------------------------------------------
(* Properties.                                                             *)

\* No I/O is in the history twice, whichever transactions are rolled back and
\* whenever the baselines are cleared beside the loop, except once more for
\* each time a counter was read as zero (readProcIO ignores the error).
CountedOnce ==
    /\ TypeOK
    /\ \A p \in Processes, u \in Units : history[<<p, u>>] <= 1 + zeroed[p]

\* I/O that a pass saw while disk collection was off is not recorded later,
\* however the switches are turned, once a pass with the switch off has come to
\* its process (SaveProcessResources moves the baseline whatever the switch says).
\* Until then it may be: a pass whose transaction cannot begin, or which ends at
\* an earlier process, leaves the baseline, and the I/O counts when the switch is
\* on again, although docs/en/operations.md:88-89 says that enabling disk
\* collection does not count what occurred while it was disabled.
OffIsNotCounted ==
    \A x \in hidden \ unreached : history[x] > 0 => zeroed[x[1]] > 0

\* A switch keeps the value that the last PATCH which named it gave it, and the
\* collect loop acts by that value once the PATCH has written it to the cache,
\* unless PATCHes overlapped or a switch could not be read (networkSettings reads
\* the current switches and writes all of them back, SetHistoryCollectors updates
\* the cache after its transaction).
SwitchesKept ==
    \A s \in Switches \ crossed :
        /\ table[s] = asked[s]
        /\ cache[s] \in {None, table[s]} \/ \E a \in Admins : admin[a].pc = "committed"
=============================================================================
