-------------------------- MODULE PackageInventory --------------------------
(***************************************************************************)
(* The package inventory: packageRefreshRequest, packageLoop and           *)
(* runPackageScan (app/packages.go), the scan the agent performs           *)
(* (scanPackages in agent/packages.go) and the transaction that stores it  *)
(* and derives the change events (SavePackageScan in store/packages.go).   *)
(*                                                                         *)
(* The update state of a row is the version that was installed when an     *)
(* update check judged it, or Unknown.  The events of one scan carry one   *)
(* time, so the event log is a sequence of sets.                           *)
(*                                                                         *)
(* A package is what its id says: manager, name and architecture.  dpkg    *)
(* has one version of it, rpm may list several (kernels), in some order.   *)
(***************************************************************************)
EXTENDS Naturals, Sequences, SequencesExt

CONSTANTS Packages, Versions,
          Absent,       \* not installed
          Unknown,      \* update_state 'unknown'
          MaxInstances, \* bound on the versions of a package installed at once
          MaxChanges,   \* bound on changes of the host
          MaxMishaps    \* bound on failed scans and statements, and restarts

ASSUME PackageAssumption ==
    /\ Absent \notin Versions /\ Unknown \notin Versions
    /\ MaxInstances \in Nat \ {0}
    /\ MaxChanges \in Nat /\ MaxMishaps \in Nat

VARIABLES
    host,        \* the versions the system's package database lists, by package
    refreshing,  \* s.packageRefreshing
    queue,       \* s.packageRefresh holds a request
    loop,        \* packageLoop, runPackageScan and the scan it holds
    rows,        \* package_inventory
    log,         \* package_events, oldest first
    scanError,   \* package_scan_state.error is not empty
    \* observations
    changes,     \* changes of the host so far
    mishaps,     \* failed scans and statements, and restarts so far
    owed,        \* a request was accepted and no metadata scan began since
    rebased,     \* packages with events, whose row changed without one since
    unmarked     \* the last scan error stored was the empty one of a scan that failed
                 \* without saying why, or of one without an update tool

vars == <<host, refreshing, queue, loop, rows, log, scanError,
          changes, mishaps, owed, rebased, unmarked>>

Installed == Versions \cup {Absent}
Listing   == {s \in SeqOf(Versions, MaxInstances) : IsInjective(s)}
NoRow     == [version |-> Absent, judged |-> Unknown]
Row       == [version : Versions, judged : Versions \cup {Unknown}] \cup {NoRow}
Event     == [package : Packages, old : Installed, new : Installed]
NoScan    == [items |-> [p \in Packages |-> <<>>], checked |-> FALSE, error |-> FALSE]
Scan      == [items : [Packages -> Listing], checked : BOOLEAN, error : BOOLEAN]

\* "start" and "again" are the scans before the loop, "select" is the select,
\* in "called" runPackageScan has not set the flag.
Scanning == {"begun", "failed", "answered", "saved", "ending"}
Position == [pc : {"start", "again", "select", "called"} \cup Scanning,
             first : BOOLEAN, metadata : BOOLEAN, scan : Scan]

TypeOK ==
    /\ host \in [Packages -> Listing]
    /\ refreshing \in BOOLEAN /\ queue \in BOOLEAN
    /\ loop \in Position
    /\ rows \in [Packages -> Row]
    /\ log \in Seq(SUBSET Event)
    /\ scanError \in BOOLEAN
    /\ changes \in 0..MaxChanges /\ mishaps \in 0..MaxMishaps
    /\ owed \in BOOLEAN
    /\ rebased \subseteq Packages
    /\ unmarked \in BOOLEAN
    /\ loop.pc # "answered" => loop.scan = NoScan

Starting == [pc |-> "start", first |-> TRUE, metadata |-> FALSE, scan |-> NoScan]

Init ==
    /\ host \in [Packages -> Listing]
    /\ refreshing = FALSE /\ queue = FALSE
    /\ loop = Starting
    /\ rows = [p \in Packages |-> NoRow]
    /\ log = <<>>
    /\ scanError = FALSE
    /\ changes = 0 /\ mishaps = 0
    /\ owed = FALSE
    /\ rebased = {} /\ unmarked = FALSE

Mishap == mishaps < MaxMishaps /\ mishaps' = mishaps + 1

-----------------------------------------------------------------------------
(* The host and the administrator.                                         *)

\* Somebody installs, upgrades, downgrades or removes a package.
HostChanges(p, listing) ==
    /\ changes < MaxChanges
    /\ host[p] # listing
    /\ host' = [host EXCEPT ![p] = listing]
    /\ changes' = changes + 1
    /\ UNCHANGED <<refreshing, queue, loop, rows, log, scanError, mishaps, owed, rebased, unmarked>>

\* Seeded: the flag is set, and the request is sent after the answer.
RequestRefresh_NotQueued ==
    /\ ~refreshing
    /\ refreshing' = TRUE
    /\ owed' = TRUE
    /\ UNCHANGED <<host, queue, loop, rows, log, scanError, changes, mishaps, rebased, unmarked>>

\* POST /packages/refresh, one critical section: with a scan or a request
\* about it says already_running, otherwise it sets the flag and tries to queue
\* a metadata scan.  The queue may be full though the flag was not set.
RequestRefresh ==
    /\ ~refreshing
    /\ refreshing' = TRUE
    /\ queue' = TRUE
    /\ owed' = (owed \/ ~queue)
    /\ UNCHANGED <<host, loop, rows, log, scanError, changes, mishaps, rebased, unmarked>>

\* The answer already_running changes nothing.
AlreadyRunning ==
    /\ refreshing
    /\ UNCHANGED vars

-----------------------------------------------------------------------------
(* packageLoop.                                                            *)

\* The loop calls runPackageScan ...
Call(metadata) ==
    /\ loop' = [loop EXCEPT !.pc = "called", !.metadata = metadata]
    /\ UNCHANGED <<host, refreshing, rows, log, scanError, changes, mishaps, owed,
                   rebased, unmarked>>

\* ... which sets the flag and asks the agent.
BeginScan ==
    /\ loop.pc = "called"
    /\ loop' = [loop EXCEPT !.pc = "begun"]
    /\ refreshing' = TRUE
    /\ owed' = (owed /\ ~loop.metadata)
    /\ UNCHANGED <<host, queue, rows, log, scanError, changes, mishaps, rebased, unmarked>>

\* The first thing the loop does is an inventory scan ...
FirstScan == loop.pc = "start" /\ Call(FALSE) /\ UNCHANGED queue

\* ... and then a metadata scan, when the stored one is old or unreadable.
SecondScan == loop.pc = "again" /\ Call(TRUE) /\ UNCHANGED queue

MetadataIsRecent ==
    /\ loop.pc = "again"
    /\ loop' = [loop EXCEPT !.pc = "select"]
    /\ UNCHANGED <<host, refreshing, queue, rows, log, scanError, changes, mishaps,
                   owed, rebased, unmarked>>

ScanTicker     == loop.pc = "select" /\ Call(FALSE) /\ UNCHANGED queue
MetadataTicker == loop.pc = "select" /\ Call(TRUE) /\ UNCHANGED queue

\* Seeded: the request is run as a plain inventory scan.
TakeRequest_Plain ==
    /\ loop.pc = "select" /\ queue
    /\ queue' = FALSE
    /\ Call(FALSE)

TakeRequest ==
    /\ loop.pc = "select" /\ queue
    /\ queue' = FALSE
    /\ Call(TRUE)

\* scanPackages: the inventory is read as it is; refreshing the metadata and
\* checking for updates may fail, which the answer says in its error.  Without
\* apt-get or dnf neither is tried, and that is no error.
AgentAnswers ==
    /\ loop.pc = "begun"
    /\ \E tool, refreshed, checked \in BOOLEAN :
          loop' = [loop EXCEPT !.pc = "answered",
                               !.scan = [items |-> host, checked |-> tool /\ checked,
                                         error |-> tool /\ (~checked \/
                                                      (loop.metadata /\ ~refreshed))]]
    /\ UNCHANGED <<host, refreshing, queue, rows, log, scanError, changes, mishaps,
                   owed, rebased, unmarked>>

\* No database, a timeout, an agent that is down, an answer cut short.
AgentFails ==
    /\ loop.pc = "begun"
    /\ Mishap
    /\ loop' = [loop EXCEPT !.pc = "failed"]
    /\ UNCHANGED <<host, refreshing, queue, rows, log, scanError, changes, owed, rebased, unmarked>>

\* SetPackageScanError leaves the inventory alone; its own error is ignored.  A
\* failure whose body cannot be decoded is stored as an empty error.
RecordError ==
    /\ loop.pc = "failed"
    /\ loop' = [loop EXCEPT !.pc = "ending"]
    /\ \/ scanError' \in BOOLEAN /\ unmarked' = ~scanError' /\ UNCHANGED mishaps
       \/ Mishap /\ UNCHANGED <<scanError, unmarked>>
    /\ UNCHANGED <<host, refreshing, queue, rows, log, changes, owed, rebased>>

-----------------------------------------------------------------------------
(* SavePackageScan.                                                        *)

EventsOf(p) == {i \in 1..Len(log) : \E e \in log[i] : e.package = p}
EventAt(p, i) == CHOOSE e \in log[i] : e.package = p

\* The row a package is stored as, the last of its items: a scan without an
\* update check keeps what an earlier one found out about the package.
Stored(p) ==
    LET items == loop.scan.items[p]
    IN  IF items = <<>> THEN NoRow
        ELSE [version |-> Last(items),
              judged  |-> IF loop.scan.checked THEN Last(items) ELSE rows[p].judged]

\* An event for every item that is not as the stored row, and for every stored
\* row without an item.
Differences ==
    {e \in Event :
        LET items == loop.scan.items[e.package]
        IN  /\ e.old = rows[e.package].version
            /\ e.new \in IF items = <<>> THEN {Absent} ELSE Range(items)
            /\ e.old # e.new}

\* existingCount > 0
HasBaseline == \E p \in Packages : rows[p] # NoRow

\* The first inventory is a baseline and gives no events.
NewEvents == IF HasBaseline THEN Differences ELSE {}
Logged    == IF NewEvents = {} THEN log ELSE Append(log, NewEvents)

\* What one committed transaction leaves behind.
Commit(newRows, error) ==
    /\ loop.pc = "answered"
    /\ rows' = newRows
    /\ log' = Logged
    /\ scanError' = error
    /\ rebased' = rebased \cup {p \in Packages : /\ EventsOf(p) # {}
                                                 /\ newRows[p].version # rows[p].version
                                                 /\ \A e \in NewEvents : e.package # p}
    /\ unmarked' = (~loop.scan.checked /\ ~loop.scan.error)
    /\ loop' = [loop EXCEPT !.pc = "saved", !.scan = NoScan]
    /\ UNCHANGED <<host, refreshing, queue, changes, mishaps, owed>>

\* Seeded: the rows of removed packages stay.
SaveScan_KeepsRemoved ==
    Commit([p \in Packages |-> IF Stored(p) = NoRow THEN rows[p] ELSE Stored(p)],
           loop.scan.error)

\* Seeded: the error of the update check is not stored.
SaveScan_NoError == Commit([p \in Packages |-> Stored(p)], FALSE)

SaveScan == Commit([p \in Packages |-> Stored(p)], loop.scan.error)

\* Seeded: the events are inserted outside the transaction.
SaveFails_EventsStay ==
    /\ loop.pc = "answered"
    /\ Mishap
    /\ log' = Logged
    /\ loop' = [loop EXCEPT !.pc = "saved", !.scan = NoScan]
    /\ UNCHANGED <<host, refreshing, queue, rows, scanError, changes, owed, rebased, unmarked>>

\* The transaction is rolled back, and its error ignored.
SaveFails ==
    /\ loop.pc = "answered"
    /\ Mishap
    /\ loop' = [loop EXCEPT !.pc = "saved", !.scan = NoScan]
    /\ UNCHANGED <<host, refreshing, queue, rows, log, scanError, changes, owed, rebased, unmarked>>

\* PrunePackageEvents deletes the events that are older than the retention.
Prune ==
    /\ loop.pc = "saved"
    /\ \E n \in 0..Len(log) : log' = SubSeq(log, n + 1, Len(log))
    /\ loop' = [loop EXCEPT !.pc = "ending"]
    /\ UNCHANGED <<host, refreshing, queue, rows, scanError, changes, mishaps, owed,
                   rebased, unmarked>>

\* The deferred function resets the flag, whatever is in the queue.
EndScan ==
    /\ loop.pc = "ending"
    /\ loop' = [loop EXCEPT !.pc = IF loop.first THEN "again" ELSE "select", !.first = FALSE]
    /\ refreshing' = FALSE
    /\ UNCHANGED <<host, queue, rows, log, scanError, changes, mishaps, owed, rebased, unmarked>>

\* The monitor is restarted: flag and queue are in memory.
RestartMonitor ==
    /\ Mishap
    /\ loop' = Starting
    /\ refreshing' = FALSE /\ queue' = FALSE /\ owed' = FALSE
    /\ UNCHANGED <<host, rows, log, scanError, changes, rebased, unmarked>>

-----------------------------------------------------------------------------
Loop == \/ FirstScan \/ SecondScan \/ MetadataIsRecent
        \/ ScanTicker \/ MetadataTicker \/ TakeRequest \/ BeginScan
        \/ AgentAnswers \/ RecordError \/ SaveScan \/ Prune \/ EndScan

Next == \/ \E p \in Packages, listing \in Listing : HostChanges(p, listing)
        \/ RequestRefresh \/ AlreadyRunning
        \/ Loop \/ AgentFails \/ SaveFails \/ RestartMonitor

Spec == Init /\ [][Next]_vars

\* The loop goes on: the agent answers or times out, a ticker fires.  Go's
\* select takes a random one of the cases that are ready, so that a request is
\* not passed over for ever.
FairSpec == Spec /\ WF_vars(Loop) /\ SF_vars(TakeRequest)

-----------------------------------------------------------------------------
(* Properties.                                                             *)

\* The refreshing flag, which requests are refused by, is never left set with
\* nothing to reset it: it means a scan that runs or one that is queued, and
\* a scan that runs is always shown (packageRefreshRequest and runPackageScan
\* each set it, the deferred reset ignores the queue).
RefreshingIsTrue ==
    /\ refreshing => loop.pc \in Scanning \cup {"called"} \/ queue
    /\ loop.pc \in Scanning => refreshing

\* The change log adds up to the inventory: each event of a package begins with
\* the version the event before it ended with, and the last one ends with the
\* row, whichever scans failed or were cut off by a restart between them
\* (SavePackageScan derives events and rows in one transaction).  Not so for a
\* package that disappeared with all others and came back with a new baseline.
ChangesAddUp ==
    \A p \in Packages \ rebased :
        \A i \in EventsOf(p) :
            LET later == {j \in EventsOf(p) : j > i}
            IN  /\ EventAt(p, i).old # EventAt(p, i).new
                /\ later = {} => EventAt(p, i).new = rows[p].version
                /\ \A j \in later : (\A k \in later : j <= k)
                      => EventAt(p, j).old = EventAt(p, i).new

\* An update state that was found for another version than the one installed
\* is shown only together with an error (SavePackageScan keeps the old state of
\* a package when the update check failed, even if its version has changed), or
\* after a scan that failed without a reason or had no tool to check with.
StaleAdviceIsMarked ==
    \A p \in Packages :
        rows[p].judged \notin {Unknown, rows[p].version} => scanError \/ unmarked

\* A request that was accepted is served by a metadata scan that begins after
\* it, whatever the tickers do, unless the monitor is restarted.
AcceptedIsServed == owed ~> ~owed

\* Once the host and the failures come to rest the inventory is the host.
Newest(p) == IF host[p] = <<>> THEN Absent ELSE Last(host[p])

EventuallyAccurate == <>[](\A p \in Packages : rows[p].version = Newest(p))
=============================================================================
