# Servora in TLA+

Servora is a server monitor made of two Go processes and a browser client.
The **agent** (`src/internal/agent`) runs as root, samples the host, holds the
eBPF accounting programs and performs privileged actions; it listens on a Unix
socket only.  The **monitor** (`src/internal/app`, `src/internal/store`) runs
unprivileged, asks the agent for a snapshot every second, keeps the history in
SQLite, evaluates alert rules, serves the HTTP API and streams snapshots to
browsers.

This directory holds TLA+ models of the parts of that system in which several
actors meet, the TLC runs that check them, and TLAPS proofs of the results that
matter most.  `PROJECT.json` ties every definition to the lines it stands for,
every property to a deliberate bug that breaks it, and every hazard of the code
to the properties that watch it.

## 1. Inventory

| Component | Where | State it keeps | Operations | What is hard about it | What makes it correct |
|---|---|---|---|---|---|
| Network flow delivery | `agent/collector.go` 89-190, `app/server.go` 978-1053, 540-576, `store.go` 347-373, 776-783 | one-batch cache, refresh flag, `lastFlowPersist`, `network_flows` | refresh, snapshot, collect, history clear | a cache read many times and overwritten; a clear beside both loops; restarts; clock | nothing counted twice, nothing lost silently, a clear clears |
| Kernel accounting | `agent/bpf/network_accounting.c`, `agent/network_bpf_linux.go` | three BPF maps, `tracker.mu` | entry and return probes, `Drain`, `Reset` | lock-free probes against deletions; bounded maps; reused map elements | every byte in one place, losses named, no leaked calls |
| Login guard | `app/server.go` 228-274, `store.go` 961-1000 | `login_failures`, `bans` | login, `LoginFailed`, `ClearFailures`, prune | check long before act, concurrent handlers, stale clocks, errors ignored statement by statement | five failures ban, a ban runs its time, guessing is bounded |
| Sessions and streams | `app/server.go` 205-226, 276-288, 920-976, `store.go` 918-959 | `sessions`, open streams | login, `requireAuth`, logout, stream revalidation, prune | select, judge and touch in separate statements; errors ignored | an ended session never serves again, streams end |
| Alert engine | `app/server.go` 1055-1093, `store.go` 1114-1135 | `alert_rules`, `alerts` | evaluation, rule edits, acknowledgement | whole-row write-back of a stale copy; ignored errors; notices before commits | one alert per rule, one notice per alert, convergence |
| Notification targets, secrets and notices | `app/server.go` 759-846, 1085-1092, 1156-1222, `agent/server.go` 554-601 | `notification_targets`, secret files, one goroutine per notice | POST, DELETE, secret write and delete, notice | two stores without a transaction; timeouts with the action under way; destinations deleted under a notice | a listed destination is usable; no orphans without a failure; no notice lost in silence or sent twice |
| History collector settings | `app/server.go` 500-540, 578-640, `store.go` 490-560 | `application_settings`, `historyCache` | PATCH, cached reads | read-modify-write, cache after commit | no lost switch, cache equals table |
| Process resource history | `store.go` 562-619, 724-732 | `ioSeen`, `process_resource_history` | save, clear | memory advances in transactions that roll back; a map without a lock | I/O counted once, none from while it was off |
| Metric retention and watches | `app/server.go` 994-1008, 1035-1043, `store.go` 327-345, 785-836, 861-916, 1036-1064 | `metrics`, `metric_rollups`, `watches`, `watch_metrics`, `lastPersist`, `lastCleanup` | sample, watch edits, roll up, prune, quota, history | rollup and deletions apart, errors ignored; a bucket cut by the boundary; a quota measured on a file that deletions do not shrink; a watch deleted under a pass | a sample is shown once; a watch keeps its samples; the history can be read |
| Package inventory | `app/packages.go`, `store/packages.go`, `agent/packages.go` | one-slot queue, flag, inventory, events | scan, refresh request | a flag and a queue that must agree; events derived from stored rows; failed scans | no request lost or stuck, inventory and history agree |
| Live broadcast | `app/server.go` 920-976, 1025-1034 | `s.snapshot`, `s.subs`, channels of two | open, publish, send, session check | full channels drop the newest; registration beside publication; slow browsers | no gap between the first frame and the next; a browser catches up; none holds up another |
| Browser client | `web/src/services/MonitorStore.ts`, `ApiClient.ts` | `sessionState`, `snapshotState`, the `EventSource` | sign in, connect, refresh, receive, logout | answers of any age, after the sign-out too; reconnects that are refused | the newest snapshot in the end; a session that ended is cleared |
| Schedules | `agent/server.go` 385-402, 460-540 | two unit files per job, systemd's links and timers | create, toggle, delete | several files and commands, no undo, no lock, an ignored error | what was answered holds; a running timer is whole |
| Socket-counter fallback | `agent/collector.go` 111-190, 799-847, 875-880 | counters of the last listing | list, publish, compare | a key that a later connection has again; failed listings | no byte counted twice, none missed of a socket that stays listed |
| Docker image cache and cleaner | `agent/collector.go`, `agent/server.go`, `bin/docker-image-cleaner` | cached image list | refresh, clean | one refresher at a time | - |
| One-shot actions, `/proc` sampling, PAM, configuration, audit log, installer | see `PROJECT.json` | none of their own | - | - | - |

How they interact: the monitor calls the agent over HTTP on the Unix socket
(`/v1/snapshot`, `/v1/network/reset`, `/v1/auth`, `/v1/action`), every call
with a timeout, so that an answer may be lost while the agent goes on.  Inside
the monitor one goroutine (`collectLoop`) persists, publishes, evaluates alerts
and prunes; HTTP handlers run beside it and share the `Store`, which is a SQLite
connection pool without a lock of its own around several statements.  Inside
the agent, `Snapshot` holds `c.mu` and starts refresh goroutines that take it
again only to publish; the kernel probes take no lock at all.

## 2. Modules

| Module | Models | Extends |
|---|---|---|
| `FlowLedger` | abstract: what the network history promises | |
| `FlowDelivery` | the pipeline from the flow map to SQLite | |
| `FlowModes` | the pipeline with every failure, or with none | `FlowDelivery`, instantiates `FlowDelivery` and `FlowLedger` |
| `FlowDeliveryProofs` | theorems about both | `FlowModes` |
| `KernelAccounting` | the eBPF programs against `Drain` and `Reset` | |
| `SocketCounters` | the counters used where eBPF cannot be loaded | |
| `NetworkAttribution` | the one of these two that the agent chose | `KernelAccounting`, instantiates `SocketCounters` |
| `NetworkAttributionProofs` | theorems about all three | `NetworkAttribution` |
| `LoginGuard` | failures and bans | |
| `Sessions` | session rows, requests and streams | |
| `Authentication` | both | `LoginGuard`, instantiates `Sessions` |
| `AuthenticationProofs` | theorems about all three | `Authentication` |
| `AlertEngine` | rules, evaluations and alerts | |
| `AlertEngineProofs` | theorems about `AlertEngine` | `AlertEngine` |
| `NotificationTargets` | destinations in the monitor, tokens in the agent | |
| `AlertNotices` | the notices of an alert, beside the destinations | `NotificationTargets` |
| `Schedules` | unit files and timers of managed schedules | |
| `AgentActions` | `AlertNotices` and `Schedules`, both kept by actions of the agent | `AlertNotices`, instantiates `Schedules` |
| `AgentActionsProofs` | theorems about `NotificationTargets`, `AlertNotices`, `Schedules` and the composition | `AgentActions` |
| `ResourceHistory` | the collector switches and the disk part of the process history | |
| `MetricRetention` | samples, watches, rollups, retention and quota | |
| `Histories` | the two histories that a pass of `collect` writes | `ResourceHistory`, instantiates `MetricRetention` |
| `HistoriesProofs` | theorems about all three | `Histories` |
| `PackageInventory` | refresh requests, the scan loop, inventory and change log | |
| `PackageInventoryProofs` | theorems about `PackageInventory` | `PackageInventory` |
| `LiveView` | an inventory's way from the host to the screen | |
| `LiveViewProofs` | theorems about `LiveView` | `LiveView` |
| `MC*` | the constants of the TLC instances | the module of that name |

`AlertNotices` composes parts that interact: a notice reads rows and files that
POST and DELETE requests write.  `NetworkAttribution`, `Authentication`,
`AgentActions` and `Histories` put two parts side by side that share no
state: a variable set in the initial state says which of the two a behaviour
follows, and the other keeps its initial values.  That is sound because neither
part has a guard or an assignment that mentions the other's variables, so that
every behaviour of the whole, restricted to the variables of one part, is a
behaviour of that part with stuttering steps; the product of the two would only
be larger.

Operators with an underscore in their names (`SaveFlows_Forgets`,
`LoginFailed_CountsFirst`, ...) are no part of any specification.  Each one is
the definition below it with a plausible bug seeded; replacing the definition
by it makes TLC refute the property it is listed with in `PROJECT.json`.

### FlowDelivery

A transfer is a token for the bytes of one call, so that a loss and a
repetition can be told apart.  The variables are the flow map (`kernel`), the
refresh goroutine with its local flows (`refresh`), `c.networkFlows` (`cache`),
the collect loop with the snapshot it holds (`loop`), `s.lastFlowPersist`, the
progress of `DELETE /settings/network` (`clear`) and the table (`db`).
`AnswerSnapshot` is the critical section of `Collector.Snapshot`, `DrainFlows`
and `FinishRefresh` are the two parts of `refreshConnections` that matter,
`DecideToSave` and `SaveFlows` are separate because the test of
`lastFlowPersist` is made before the transaction, and `ResetCache`,
`ResetKernel`, `ClearNetworkFlows` are the three places where a clear deletes
something.  Every flow of a batch carries the time of its `Drain`, so a batch is
a stamp and a set.  `Faults` says which failures an instance allows.  `ResetFails`
is every way in which a clear answers with an error, the failure of the `VACUUM`
included, which comes after the rows were deleted.

`FlowLedger` says what a reader of the history may rely on: a transfer is
pending until it is recorded, once, or given up.  `LRestart`, which counts the
restarts of the monitor, is its only step by which `pending` grows other than by
a new transfer, and only with what the pipeline still holds.  `Settle` is what all
others have in common: the pipeline lets go of transfers and takes none back,
and in a calm behaviour a transfer is given up only if it is in the history or an
administrator discarded it.  The refinement mapping, in `FlowModes`, makes `held`
what lies in the map or in a batch, and `pending` what lies in the map or in
a batch newer than `lastFlowPersist`.  A restart forgets `lastFlowPersist`; a clear
that forgot it as well (`ClearNetworkFlows_Forgets`) is refuted.

### KernelAccounting

Each map operation of a probe is one step (`Lookup`, `Insert`, `LookupAgain`,
`AddBytes`, `RecordDrop`), because probes run on every CPU and Go's iteration
deletes elements under them.  An element is a slot: a deletion frees it while a
probe may still point to it, and the next insertion may reuse it.  `RecordDrop`
is a read and a store, like the increment of a per-CPU value it models; a thread
stands for its CPU.  `left` is what the iteration of `clearBPFMap` has yet to
meet.

### SocketCounters

`socket` is what the kernel counts for the connection that has a key at the
moment.  A refresh reads a listing (`ReadSockets`) and publishes it later
(`FinishRefresh`); what it compares with is the last listing that was published,
so a failed one (`ReadFails`) leaves the counters alone.  A new connection with
the key of one in that listing is told from it only by a smaller counter; `reused`
remembers where that may go wrong, and `known` where the counting of a connection
began that cannot be mistaken.  One direction stands for both.

### LoginGuard

A handler passes `IsBanned` (`BeginLogin`), waits for the agent
(`AuthenticationFails` reads the clock), and records its failure in one
transaction (`LoginFailed`).  `Window` ticks are fifteen minutes: the window of the
count and the period of the prune.  A handler's clock is at most a tick old when
its transaction runs, which is less than a window, as the assumption says.
`login_failures` is a set of rows, a time and an id each, so that counting and
pruning are set operations.

Errors are modelled where the code ignores them: a ban that cannot be read is no
ban (`BanUnread`), and a transaction of `LoginFailed` in which a statement failed is
committed with what the others did (`LoginFailedPartly`): no failure row, a count of
zero, strikes that start at one, or no ban.  `mishaps` counts them for each address,
and the properties say what each one costs.  `LoginFailedBusy` is a transaction that
cannot begin or commit.

### Sessions

`requireAuth` is three statements: select and judge (`SelectRow`), touch
(`Touch`), and, when refused, delete (`Refuse`).  `TouchFails` and the second
disjunct of `Delete` are the errors the code drops.  A stream is authorised by
the request that opened it and by `AuthTick` from then on.

### AlertEngine

`BeginEvaluation` reads the rules and the clock, `EvaluateRule` reads the active
alert of one rule and computes the copy to write, `PutAlert` writes it,
`NotifyRecovery` comes after the write as in the code, while the firing notice
is started before it.  Ages take the place of start times, so that the state
space is finite; a resolved alert frees its identifier.

### NotificationTargets

The POST handler of each destination, DELETE handlers, and the agent with the
actions it has accepted and not performed (`writes`, `deletes`): an action whose
caller has given up is still performed.  A destination and its secret are both
given fresh random names by the same request, so one identifier stands for both.

### AlertNotices

`TargetIDs` is the list in a rule's `target_ids`, in its order; an id may
repeat and need not be of a destination.  A notice is a goroutine that goes through
the list (`next`), and a try has the steps of `sendToTarget`: row (`FindTarget`),
token file (`ReadSecret`), Telegram (`Post`).  A row is not found if it is not there,
if it was posted without `enabled`, or if the table cannot be read, so every
`FindTarget` may end the try.  A request may be accepted although its answer
does not come in time, but not after its try has ended.  What a destination received
is remembered with the notice and the position it was for.  The goroutine of the
recovery is started while that of the firing notice may be at work.
`RestartMonitor` ends those at work where they are (`died`): the results stay as they were, and
nothing sends their notices again.  `AlertEngine` says when a notice is started; here
one alert fires and recovers once.

### Schedules

A request is its program counter: each file operation and each `systemctl`
command is a step, which may fail (`StepFails`), and a failure ends the request
without undoing what was done.  A file holds the request that wrote it, so that
two files of different requests can be told apart.  `RestartAgent` ends every
handler.  systemd is what `enable --now` and `disable --now` do to the link and
the timer.

### ResourceHistory

One pass of `SaveProcessResources` is `Sample`, the reading of the switches, and
either `NothingEnabled` or a transaction of one `SaveProcess` per process and
`EndSave`.  `seen` is the map `ioSeen`, which is memory and does not roll back
with the transaction.  A PATCH handler reads the switches that its body does not
name, commits all of them and caches them, in three steps; a GET handler that
misses the cache reads the table (`ReadThrough`) and caches what it read later
(`Fill`).  `ClearSeen` is the unlocked `clear(s.ioSeen)` of the DELETE: beside
the loop over the processes it is a data race, which the Go runtime may detect
and end the process for, or which takes effect between two turns.  I/O is
counted in units, so that the history says how often each one is in it.  A pass that
reads the disk switch as off hides the units its snapshot shows and nobody
recorded (`hidden`); they are `unreached` until a pass with the switch off has moved
the baseline of their process, which one does not whose transaction cannot begin or
ends at an earlier process.

### MetricRetention

`loop` is the pass of `collect`: a sample (`SaveMetric`), the enabled watches
(`ReadWatches`, then one transaction in `SaveWatchMetrics`), and, when a prune is
due, `Rollup`, `DeleteRaw`, `DeleteOld` and `KeepQuota`, whose statements are
separate in the code as well.  A row of `rollups` is the samples it was
computed from with their rates, of which it keeps the average.  `INSERT OR REPLACE` puts a row in the
place of an earlier one of its bucket.  `FileGrows` makes the file larger than
the quota; deleted rows only leave free pages, and nothing but the `VACUUM` after the
clear of another history makes it smaller (`FileShrinks`).  Each deletion may fail,
and its error is ignored; so may the reading of the watches, which ends the pass
for them.

### PackageInventory

`RequestRefresh` is the POST handler's critical section.  The loop is one record:
`pc` says where it is, from the scans before the loop over the `select` to the
end of `runPackageScan`, and `scan` holds the answer of the agent until it is
stored.  `"called"` is the moment between taking a request from the channel and
setting the flag, in which a POST may come.  `Commit` is the transaction of
`SavePackageScan`: rows, events and the error of the scan together.  A host
lists for each package a sequence of versions: with `dpkg` at most one
(`MaxInstances = 1`), with `rpm` possibly several.  The update state of a row is
reduced to the version it was found for.  On a host without `apt-get` or `dnf` the
agent answers with unknown advice and no error (`tool`), and a failure whose body
cannot be decoded is stored as an empty error (`RecordError`); `unmarked` remembers
that the last stored error is such an empty one.

### LiveView

The inventory of the host, the agent's copy of it, `s.snapshot`, the channel of one
browser in `s.subs`, the frame on the wire and `snapshotState` in the browser.  A
snapshot starts a refresh if none is running, so it carries what an earlier one
found.  `OpenStream` is the locked section of `stream` in which the channel is
registered and the latest snapshot read.  The browser has one overview request at
a time: `connect` asks for it before it opens the stream (`goesOn`), the refresh
button beside the stream.  Its answer is applied whatever its age.  `clogged` is
the other browser's full channel.  A session that cannot be read is treated as one
that has ended: `AuthTickFails` ends the stream of a valid one, and `Refuse` answers
401 to its stream or overview request, with the row deleted or, that error being
ignored too, not.

## 3. Runs

| Run | Asks | Bounds | Distinct states |
|---|---|---|---|
| `flow_delivery` | at most once, clears and the ledger under every failure at once; no loss, and liveness, without failures | 2 transfers, 1 restart, five kinds of failure or none | 2.1 million |
| `network_attribution` | conservation, leaks, epochs; counting sockets once | 2 threads, 2 keys, 3 transfers, 1 flow slot, 1 pending call; 2 sockets, 3 bytes | 191 thousand |
| `authentication` | bans under concurrency; revival, idle limit, end of streams | 1 address, 3 handlers, threshold 2, 5 ticks, 1 ignored error; 1 token, 2 peers, 2 requests, 1 stream, 4 ticks | 2.1 million |
| `alerts` | uniqueness, notices, convergence | 1 rule, 3 alerts, hold of 1 tick, 1 mishap | 116 thousand |
| `agent_actions` | rows and secrets, notices; schedules | 2 destinations in a list of two, 2 DELETE handlers, 2 notices; 2 jobs, 3 requests | 4.1 million |
| `packages` | the flag and the queue, the change log, liveness | 2 packages, 2 versions, 2 changes of the host, 1 mishap | 510 thousand |
| `histories` | counting once, off is off, overlapping PATCHes; samples, rollups, watches | 1 process with 2 units, 2 switches, 2 PATCHes, 1 mishap; 13 ticks, 2 mishaps; 2 watches, 3 ticks, 1 mishap | 3.4 million |
| `live_view` | no gap in a stream, end of a session, the view catches up | 2 inventories, 1 mishap | 509 thousand |
| `flow_cleared` | is a clear permanent? (refuted) | 2 transfers, no failures | |
| `ban_escalation` | do bans escalate? (refuted) | 1 address, 2 handlers | |
| `package_listings` | does the log hold only changes? (refuted) | 2 packages, 2 versions of each at once | |
| `history_unreadable` | can the history be read? (refuted) | 2 rates, 6 ticks, no failures | |

Why the bounds are enough:

* Transfers and destinations are interchangeable and do not interact but
  through the batch or handler they share: two of them already give "in the same
  batch", "in different batches" and "one before and one after a clear".
* One restart lets a batch be added twice, so the bound `1 + restarts` is met at
  both of its values; the theorem `AtMostOnce` holds for any number.
* The kernel maps hold one entry fewer than there are keys and threads, so both
  run full; the third transfer makes a slot reused after it was freed.  Three
  bytes under one key are enough for a listing, its growth, and a connection that
  takes the key over, with a counter below or not below the one listed.
* In `LoginGuard` the threshold is two and there are three handlers, so that
  handlers beyond the threshold are under way when the ban is written.  A window
  is two ticks, so that a clock one tick old is not a whole window old, and a first
  ban four.  The strikes are capped at two instead of six, so that both the doubling
  and the cap are met.  The failure retention is three ticks
  instead of 192 and the clock runs for five: what matters is that it is longer than
  the window, as the assumption says.
* In `Sessions` a tick is the idle limit; the absolute limit is twice the idle
  one and the prune comes after both, in the order of the real durations (30
  minutes, 12 hours, 24 hours).  Four ticks pass all of them.  One token is
  enough: rows of different tokens never meet.
* In `AlertEngine` a rule's alerts never meet another rule's, so one rule is
  enough; three identifiers are one more than the mishap can leave active
  together.  An evaluation spans at most one tick (`MaxLag`).
* In `AgentActions` the rule lists both destinations, each DELETE handler and each
  notice meets both, and the first may fail before the second is tried.  A list that
  names one destination twice was checked once beside the run (5.6 million states);
  the theorem holds for every list.
  Three schedule requests on two jobs let two overlap and a third come after or
  meet the other job.
* In `Histories` metrics, watches and processes are followed in behaviours of their
  own.  For metrics a bucket is two ticks, a prune comes every three, the raw
  retention is two, the rollups' seven, and the clock runs for thirteen.  So a bucket
  is cut by the boundary and rolled up again, its row ages out, and with the quota
  exceeded samples or rows are evicted; two mishaps let a failed deletion meet a
  restart.  Watches are edited under the same constants, but for three ticks and with
  one mishap: samples age out, and of two watches one is deleted under a pass that has
  read both.  The real retention (30 days) is longer than the period of the prune
  (15 minutes); here it is shorter, so that samples of watches age out within three
  ticks, which only means that the first prune after a sample finds it old.  The
  theorems hold for every order of these values.  One rate is enough where no
  property looks at rates; `HistoryReadable` has two.
* In `LiveView` two inventories tell an old snapshot from the newest, and the empty
  list makes a third.  The channel has its real capacity of two.
* In `PackageInventory` the second package keeps the inventory from being empty,
  which is what makes the change of the first an event; one mishap is a scan, a
  statement or a run that is cut off, and two changes of the host let one be
  missed before the other.
* In `ResourceHistory` processes meet only in the transaction, whose failure is
  the same for all of them: one is enough.  One switch beside that of disk I/O
  stands for CPU and memory, which are treated alike.  Two PATCHes overlap in
  every way, or turn disk collection off and on again.  The bodies name the disk
  switch or both; a fresh database has them on.
* Bounds in guards: `done < MaxIO`, `patches` and `mishaps` in `ResourceHistory`,
  `now < MaxTime` and `mishaps` in `MetricRetention`, `WatchTime` and
  `WatchMishaps` in `Histories`, `moved[k] < MaxBytes` in
  `SocketCounters`, `mishaps` in `LiveView`, a request of `Schedules` made once,
  `changes` and `mishaps` in `PackageInventory`,
  `restarts < MaxRestarts`, `now < MaxTime`,
  `Unused(ip, at) # {}`, that is `MaxPerTick`, in `LoginGuard`, `mishaps` in `AlertEngine`, `LoginUntil` in
  `Sessions`.  Natural numbers elsewhere (`clock`, `db`) are bounded by the
  transfers, each of which arrives once.

Symmetry is declared where every property of the run is an invariant, and only
among values that no definition tells apart: threads, keys, transfers and sockets;
DELETE handlers; PATCH handlers and watches.

Deadlock is checked except in `AgentActions`, `Histories` and `HistoryReadable`,
where an instance does stop: all requests were made, or the clock has reached its
bound.

### What the runs show

* **At most once per run of the monitor.**  The cached batch is served about
  once a second until the next refresh, and is added once; after a restart it may
  be added again.  `ReappearsOnlyFromFlight` gives the exact exception to a
  clear: a batch that a refresh or the collect loop held, or that was drained
  before the kernel maps were emptied.
* **No hidden loss, without failures.**  The cache of one batch is enough
  because every refresh is started by a snapshot: a batch is in the cache when
  the next snapshot is taken, and the refresh which overwrites it starts with
  that snapshot.  With a failed save or a lost answer this is not so, and the
  ledger allows the loss, as it does when the clock is set back: it limits what the
  pipeline may give up only where nothing fails.
* **Kernel accounting.**  There are four ways for bytes to escape the flow map:
  the dropped counter, a reset, a full `calls` map (counted nowhere) and an
  element deleted between lookup and add.
* **Login guard.**  Concurrent handlers get one guess each beyond the
  threshold, no more, but for one guess for each error the code ignores.  While a
  ban runs, its end never moves back (`until` does not decrease), not even by a good
  login, with two exceptions that `BanRunsItsTime` bounds: once the strikes are at
  their cap a handler with an older clock takes off its lag, and a ban given with a
  failed statement, the read of its strikes, is one of the first kind.
* **Sessions.**  A touch cannot revive a deleted row, a stream does not keep its
  own session alive, and every stream ends.  These properties bound the life of a
  session from above.  That an error while it is read deletes it early, and that a
  logout whose deletion failed is answered with ok, are behaviours of the model that
  violate none of them.
* **Alerts.**  One alert per rule and one notice per alert, up to the number of
  failed statements; an acknowledgement is undone only by an evaluation which
  had read the alert before.
* **Socket counters.**  No byte is counted twice, because a counter below the
  listed one is taken for a new connection's, and one that is not below only hides
  bytes.  A connection's bytes up to its first listing are never counted.
* **Notices.**  A destination that fails or does not answer costs its own notice
  only; when the goroutine ends by itself every id was tried, and after a restart
  those before the last one tried.  An id that the list repeats is sent to again.  A recovery can arrive before the firing notice, but only if it was started
  while that one was being sent.  A token missed by a notice means that the
  destination was deleted, for good.
* **Schedules.**  The answer given last for a job holds until the next request
  for it, but for two exceptions: overlapping requests for the job, which nothing
  prevents, and a delete whose `disable` failed, an error that `deleteSchedule`
  ignores: its timer keeps running without files.  A create that fails half-way
  can leave a running timer with one file renewed and not the other.
* **Retention.**  A sample leaves the history in three ways beside age: the second
  rollup of a bucket replaces the row of its first part (at each boundary, every
  fifteen minutes); the quota evicts it, and keeps evicting at every prune, since
  the file does not become smaller by it; and its save failed.  The property names
  these three (`CutOff`, `evicted`) and excludes every other.  A deletion that fails
  leaves it shown twice until the next prune.  A watch deleted between the reading
  of the watches and the insert costs all watches their samples of that pass.
* **Live view.**  From its first frame on a stream has no gap but the snapshot
  dropped from a full channel, which the next pass makes up for.  A browser that
  does not read delays nobody.  When a session ends while the browser's stream is
  open the browser is cleared, unless the connection ends first: a stream that is
  connecting then is answered 401, at which an `EventSource` gives up without a word
  to `expireSession`.  After a logout the view stays in memory, and an answer under way
  may still set it.  A valid session that could not be read costs the browser its
  stream in the same way, so `EventuallyShown` speaks of streams that were not
  refused.
* **Resource history.**  The baselines advance before the transaction commits:
  a rollback loses I/O and counts none twice.  A counter that could not be read
  is zero, and once each time it happens the past of the process is counted
  again.  Between two passes the switch is not looked at: I/O done while it was
  off is left out if a pass saw it then (`hidden`) and came to its process.  A pass
  whose transaction cannot begin, or fails at an earlier process, leaves the baseline
  where it was (`unreached`), and the I/O is recorded when the switch is on again.
  Overlapping PATCHes may undo
  each other, and may leave the cache, which the collect loop obeys, different
  from the table until the next PATCH or restart; without an overlap neither
  happens.
* **Packages.**  The flag by which requests are refused is up only while a scan
  runs or is about to, although setting, queueing and resetting it are three
  steps.  A failed scan loses nothing: the next one derives the missed change
  from the stored rows.  A request that comes during a plain inventory scan is
  refused as already running, and no metadata refresh follows: `owed` starts
  with an accepted request only.  Advice that is older than the installed version is
  marked by the scan error, but where that error is empty (`unmarked`).

### Findings

* `flow_cleared`: after a clear that reported success, flows from before it can
  be in the history.  `docs/en/api.md` calls the deletion permanent.  It takes no
  failure, only a batch in flight.
* `ban_escalation`: `docs/en/security.md` says that repeated bans increase
  exponentially; the prune deletes an ended ban within fifteen minutes, and with
  it the strikes that would make the next one longer.
* `history_unreadable`: the average rate of a bucket is a fraction as a rule, and
  `History` scans it into a `uint64`, for which the query fails.  The `README`
  promises five-minute rollups for one year; a range that includes one of them
  cannot be read.
* `package_listings`: a package that `rpm` lists in two versions, such as a
  kernel, has one row and one id.  Every scan compares both items with that row
  and logs a version change that did not happen, so that
  `GET /package-events` grows with every scan and ends with a version other than
  the inventory's.

### Where documents promise more than is checked

In two more places the properties are weaker than a document, because the code is.
They are not runs of their own: the exception is in the comment of the property, and
TLC finds each of them when the exception is taken out.

* `docs/en/operations.md:88-89` says that enabling disk collection does not count
  I/O that occurred while it was disabled.  `OffIsNotCounted` exempts what a failed
  pass left behind its baseline (`unreached`), and I/O between the last pass with the
  switch off and the first with it on is not looked at.
* `docs/en/security.md:7-8` says that expired or deleted sessions close the stream and
  clear protected browser state.  `EndedIsCleared` exempts a browser whose stream is
  connecting when its session ends, and one whose user logged out.

### What the exceptions mean

Several properties name the losses that the code can cause and show that there are
no others.  They do not catch a defect inside the exception: requests that overlap
(`crossed`, `overlapped`), a counter read as zero (`zeroed`), a bucket cut by the
retention boundary (`CutOff`), evictions (`evicted`), samples of a pass that was rolled
back (`lost`), and ignored errors (`mishaps`).  `FiresAfterHolding` and
`CalmHidesNoLoss` speak of behaviours without failures.

## 4. Fairness

* `FlowModes!ModeSpec`, in calm behaviours: the collect loop, the refresh
  goroutine and the passing of a second are weakly fair.  The ticker fires for
  ever, a goroutine that can run is run, and `refreshConnections` works under a
  five-second context.  Traffic and administrators owe nothing, and behaviours with
  failures are owed nothing.
* `Authentication!AuthenticationSpec`, which is the fairness of `Sessions`: time
  passes, and the goroutine of a stream takes its five-second ticker.  No fairness of requests, browsers or the prune is assumed.
  A stream ends by `Tick` and `AuthTick` alone.
* `AlertEngine!FairSpec`: time passes and evaluations go on.  Sources,
  administrators and mishaps are unconstrained; the liveness properties speak of
  sources and rules that settle.
* `PackageInventory!FairSpec`: the scan loop is weakly fair: the agent answers
  or the client gives up after ten minutes, and a ticker fires.  `TakeRequest` is
  strongly fair, since the loop's `select` picks at random among the cases that
  are ready: a request in the channel is not passed over for ever.  Mishaps are
  bounded; the host and requests owe nothing.
* `LiveView!FairSpec`: refreshes end (their commands run under a timeout), passes
  go on, handlers that can run do, and the browser reads its connection and has its
  requests answered.  Of the other browser, the host, the users and failures, whose
  number is bounded, nothing is assumed.  `AuthTick` is strongly fair: the tick
  stays in the ticker's channel while a frame is written, and a `select` picks one
  of its ready cases at random.

## 5. Proofs

Each proof module holds the inductive invariant of its component, the lemmas of
its steps and the theorems.  What a theorem says holds for every value of the
constants that satisfies the assumptions of the modules, which TLC evaluates in
each run: that the null values are no values, that a count is a natural number,
that a set is finite where its elements are counted, and the order of durations.

`FlowDeliveryProofs` holds for any set of transfers, any combination of faults
and any number of restarts (`FlowAssumption`).

* `TypeCorrect`: `Spec => []TypeOK`.
* `DeliveryInvariant`: the inductive invariant.  `AtMostOncePerRun` alone is not
  inductive: `SaveFlows` adds whatever batch the loop holds.  What makes it so
  is that a batch being saved is newer than the last one saved (`SavesNewer`),
  that what may still be recorded was recorded by earlier runs only
  (`PendingFromEarlierRuns`), and that batches on their way are the same batch
  or disjoint, and disjoint from the map (`Separate`, `Known`), so that saving
  one makes no other one stale.
* `AtMostOnce`: from the invariant.
* `Refinement`: `ModeSpec => ImplementsLedger`.  The initial states agree; `Arrive`
  is `LArrive`, `SaveFlows` is `LRecord` of its batch, the deletion of the rows `LWipe`,
  `RestartMonitor` `LRestart`, and every other step `LGiveUp` or a stutter
  (`LedgerStep`).  That such a step makes nothing pending is a matter of the batches;
  that a calm one gives up nothing unrecorded (`CalmLosses`) needs the invariant of
  the calm mode below.
* `ClearsHold`: `Spec => []ReappearsOnlyFromFlight`.  The invariant (`ClearedOK`)
  follows the handler: once the agent has dropped its cache, what arrived before
  is in a batch on its way only if it was in flight then, and once the kernel
  maps are emptied it is in the map only if so.
* `ModesAreFlows`: a behaviour of `FlowModes`, which the run explores, is one of
  `FlowDelivery`, so that what is proved of the pipeline holds of both modes.
* `CalmLosesNothing`: `ModeSpec => []CalmHidesNoLoss`.  In a calm behaviour
  batches are stamped in the order of their drains (`Ordered`), a batch not newer
  than `lastFlowPersist` holds nothing that is still to be saved, and while a
  refresh is under way the cache it will overwrite has been collected or is held
  by the collect loop (`CalmOK`).  `CalmSteps` shows first that without faults only
  the steps of `CalmNext` are left.

`NetworkAttributionProofs` holds for any threads, keys, transfers, slots and map
sizes of `KernelAccounting`, and any sockets and bounds of `SocketCounters`
(`KernelAssumption`, `AttributionAssumption`).
`AttributionInvariant` is two invariants on disjoint variables.

* `KernelInv`: a thread inside a call carries a transfer of its own, and an entry of
  the calls map belongs to such a thread (`ThreadsOK`); what a probe has looked up
  is still so when it acts on it, or its transfer is named as lost (`ProbesOK`);
  a transfer has at most one place (`OnePlace`, `FreeIsEmpty`); what returned is
  counted somewhere (`ReturnedOK`, `NothingLost`); and a reset has met in its
  iteration what was there when it began (`EpochOK`).  From it `CallsAreInProgress`
  (`NoStaleCalls`), `EveryLossHasAReason` (`LossIsNamed`) and `ResetsOpenAnEpoch`
  (`EpochIsFresh`).
* `SocketsInv`: what was counted of a socket and what the refreshes under way and
  after them will still add (`Due`) never exceeds what moved; counters of a key
  that was not reused only grow; and for a connection whose beginning is known the
  counting and its counter advance together.  From it `SocketsAreCountedOnce`
  (`SocketBytesOnce`).

`AuthenticationProofs` holds for any addresses, finitely many handlers, any
threshold, and any tokens, peers, requests and streams, under `GuardAssumption` and
`SessionAssumption`.

* `GuardInv`: a handler's clock is at most a tick old (`ClocksOK`); failures that will
  be in the window at any later time and are enough for a ban have given one that
  still runs then (`BanOutlastsWindow`, stronger than `FailuresMeanBan`, which
  speaks of now); the failures in the window and the handlers that may add to
  them are together fewer than the threshold, one per handler and one per ignored
  error (`GuessesLeft`); and no ban runs longer than its strikes give it (`UntilOK`),
  which is why a handler with an older clock cannot move its end back when the strikes
  double.  From it `EnoughFailuresBan`, `GuessingIsBounded`, and the action property
  `BansRunTheirTime` (`BanRunsItsTime`).
* `SessionInv`: a row is of a session that has not ended and was touched by a request
  that counts as a use (`RowOK`); a request selects only a row that its session
  had, and an admitted one is within the idle time of the latest use
  (`RequestOK`).  Sessions that ended stay ended and no row comes back (`Grows`).
  From it `NoEntryWithoutSession` (`NoEntryAfterEnd`) and the action property
  `IdleSessionsAreNotServed` (`ServedWhileActive`).

`AlertEngineProofs` holds for any rules and any finite set of identifiers, holding
time and number of mishaps (`AlertAssumption`).

* `AlertInvariant`: the copy in an evaluation is of the state it read, or fires or
  resolves it (`CopyOK`); a row or copy that has fired was announced
  (`FiredIsTold`); one still pending was announced in vain at most once per mishap
  (`ToldPerMishap`); without mishaps a calm alert has no row but one being
  resolved (`CalmIsOver`); and the active rows of a rule and the copy about to
  become one are at most one more than the mishaps (`OneClaim`), which is why
  the rows alone are not enough: the copy is counted before it is a row.
* From it `FiringIsToldOnce`, `RecoveryIsToldAfter`, `CalmAlertsDoNotFire`,
  `OneAlertPerRule`, and the action property `AcknowledgementsHold`.

`AgentActionsProofs` holds for any destinations, any number of concurrent DELETE
requests and any rule (`NoticeAssumption`), and for any jobs and requests on them
(`ScheduleAssumption`).

* `SecretInvariant`: a row is there only after its POST is done (`RowsAreDone`),
  so nobody can have asked for its secret before the row was deleted
  (`NoDeleteAhead`, `KnownSecretsAreDone`), and an acknowledged write is on disk
  (`WrittenIsOnDisk`).
* `DestinationsAreUsable`: `Spec => []RowsHaveSecrets`.
* `OrphansAreExplained`: `Spec => []OrphansComeFromFailures`.  A write under way is
  awaited by its POST handler or belongs to a destination with a failure
  (`WritesAreAwaited`); a DELETE handler that does not know the reference has
  failed to look it up, or the row is gone (`LookupsAreDone`).
* `MissingMeansDeleted`: `NoticeSpec => []MissingSecretMeansDeleted`.  While a row
  is there its file is (`SecretInv`), so a notice that misses the file comes after
  the deletion of the row, and its result says so for good, over a restart too.  That
  the row does not come back rests on `FoundIsDone`, that the POST of a destination some notice has found is done, and
  on `DoneStaysDone`, that such a POST writes no row any more.
* `NoticesAreAccountedFor`: `NoticeSpec => []NoticesAccountedFor`.  The positions of
  the list before the next one are tried and the others untried and unheard of
  (`PairOK`, `TryOK`); what a destination has received is from tries of its own, from
  each once, and the recovery first only beside the firing (`TargetOK`, `KindsOK`).
* `ScheduleInvariant`: of a job on which no requests overlapped, one request at
  most has commands left; the invariant says what those it has performed left
  behind (`WorkOK`, `DoneOK`), and what is true between requests (`RestOK`).
* `ScheduleAnswersHold` and `RunningTimersAreWhole`: from the invariant.
* `PartsAreNotices`: `PartSpec => NoticeSpec /\ Spec`, so that the theorems
  about each part hold of the composition that the run explores.

`PackageInventoryProofs` holds for any packages and versions; but for `LogAddsUp`,
for any number of installed versions of each (`PackageAssumption`).

* `TypeCorrect`: `Spec => []TypeOK`.  The others rest on it, because each step
  rewrites one field of the record `loop`.
* `FlagInvariant`: `Spec => []RefreshingIsTrue`.  Its two halves are inductive
  only together: that the flag means a scan or a request rests on the reset
  coming at the end of a scan, and a scan that runs being shown on nothing but
  the reset taking the flag down.
* `AdviceInvariant`: `Spec => []StaleAdviceIsMarked`.  Inductive with the types: an
  answer without an update check carries an error into the table, or is one that
  `unmarked` remembers.
* `LogAddsUp`: `MaxInstances = 1` gives `Spec => []ChangesAddUp`.  This is `dpkg`,
  which lists a package once; the run `package_listings` refutes the property for
  two.  The property is inductive with the types; what has to be shown is that a
  scan extends the chain of a package's events by its difference
  (`SaveKeepsChains`) and that a prune, which cuts a prefix, leaves a chain
  (`PruneKeepsChains`).

`HistoriesProofs` holds for any processes, units, switches, administrators and
request bodies (`ResourceAssumption`), and for any watches, bucket width, retention,
prune period and quota (`RetentionAssumption`).

* `ResourceInvariant`: types with what a pass holds (`LoopOK`); for each unit of I/O,
  that above the baseline or above the snapshot of the running pass it is recorded
  no more often than its counter was read as zero, so that adding the difference
  records it once more at most (`CountedOK`); that a hidden unit which a pass
  has reached lies at or below counter, baseline and snapshot as long as the counter
  was not read as zero (`HiddenOK`); and for the switches that a handler and a reader hold what the
  table says unless requests overlapped (`HandlerOK`, `FillOK`).
* `IOIsCountedOnce` (`CountedOnce`), `IOWhileOffIsLeftOut` (`OffIsNotCounted`) and
  `SwitchesHold` (`SwitchesKept`): from the invariant.

* `RetentionInvariant`: two invariants that do not need each other.  `SampleShownOnce`
  is not inductive: a rollup writes the row of a bucket anew, from what is there raw.
  So `SamplesInv` adds that a row holds all raw samples of its bucket, unless a
  cutoff fell into the bucket behind those it has (`RowWhole`); that of the samples
  of a row none is deleted alone, but by the quota (`RowTogether`); that whatever
  is about to be deleted is in a row, and whatever is in a row is older than the
  raw retention and lies before a cutoff (`CoveredOK`), so that the sample of this
  moment is in none.  What follows about buckets is division: `BucketBounds` and
  `BucketOrder`.  `WatchesInv` adds to `WatchSamplesKept` that a pass about to insert
  has read the watches it owes samples, and that these are in the table or the
  pass is lost.
* `HistoriesAreBoth`: `HistoriesSpec => Spec /\ Retention!Spec`, so that what is proved
  of each history holds of what the run explores.
* `SamplesAreShownOnce` (`SampleShownOnce`) and `WatchesKeepTheirSamples`
  (`WatchSamplesKept`): from both.

`LiveViewProofs` holds for any inventories and any number of failures
(`LiveAssumption`: an inventory is not the mark of an expired session).

* `NothingFallsBetweenFrames`: `Spec => []NewestIsOnItsWay`.  With the types, which
  bound channel and connection, the property is inductive; the proof tells apart
  where the latest frame is (`Newest`): queued last, written, or shown.  What
  has to be shown is that each step hands it on: registering and reading the snapshot
  under one lock, the move from the channel to the connection and to
  the view, and a dropped one setting `behind`.  The lemmas about short sequences
  (`LastOnItsWay`, `ChannelMoves`) say what the ends of a sequence are after each.

Every invariant and every action property that a run checks is stated by a theorem.
Only model-checked are `CalmRecords`, `StreamsEnd`, `AlertsSettle`, `AcceptedIsServed`,
`EventuallyAccurate`, `EndedIsCleared` and `EventuallyShown`, which rest on fairness
and are out of the prover's reach.  In `MetricRetention` a row keeps the samples with
their rates and not the sum: that a sum of natural numbers is one is an induction
over a set, which the prover does not do.

## 6. What is abstracted or left out

* Contents: process names, addresses and byte counts of flows; texts of alerts
  and messages; users of sessions.  Direction (received or sent) is not told
  apart in `KernelAccounting`.
* A database statement either happens as one step or fails and changes nothing;
  SQLite gives that.  A transaction is one step; where its statements' errors are
  ignored (`LoginFailed`) it may commit some of them and not others.  The busy timeout of five seconds is far
  below a tick.
* Clocks go back in `FlowDelivery` only, whose batches are ordered by them.
* Authentication by PAM is the answer of the agent.  Requests without a valid
  body, and the audit log, change nothing the models keep.
* Of a package, name, size, source and candidate version.  Ages of package events: a
  prune removes any prefix of the log.
* Returns that a kretprobe misses because all its instances are in use
  (`network_bpf_linux.go` 92): every entry probe of `KernelAccounting` has its return
  probe.  A missed one leaves its entry in the calls map until the next reset.
* Deletions of the prune that fail for login failures, bans and sessions: their rows
  stay until the next prune, counted by nothing meanwhile.
* Rates are the only columns of a metric sample with a value; the others are
  averaged alike, into `REAL` columns.  The evictions of the quota are counts of
  the oldest rows.  The prune of the audit log, which has no other deletion.
* `collect` takes the agent's answer and publishes it in one step of `LiveView`:
  nothing between the two touches both the lists and a stream.
* In `Schedules`, validation of names and arguments comes before the first step and
  changes nothing; `schedule.run` starts a service and keeps no state.
* The retention days, and the pruning of the resource history by age, which
  removes rows and adds none.  CPU and memory of a process are sums of samples.
* Not modelled: one-shot commands (`systemctl` on services, `docker`, power,
  signals), the image list (one request under one lock) and the cleaner script,
  parsing of `/proc` and of command output, the audit log and queries (single
  statements), PAM and configuration, the installer, and the pages, charts and
  forms of the browser client.  They are external programs, pure functions of
  text, or presentation, and keep no state that two actors meet in.

## 7. Plan

The modules planned are written, and so are the proofs of all safety properties.
What remains is to model more:

1. In `ResourceHistory`, CPU and memory, which are sums of samples, and the pruning
   by age.
2. In `LiveView`, several overview requests at once.
