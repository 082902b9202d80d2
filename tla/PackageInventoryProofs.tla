----------------------- MODULE PackageInventoryProofs -----------------------
(***************************************************************************)
(* For any packages and versions, any number of versions installed at      *)
(* once, and any number of changes and mishaps: the flag that refuses      *)
(* requests is never stuck, and stale update advice is shown without an    *)
(* error only where the last scan left none.  For packages that are listed *)
(* at most once, the change log adds up to the inventory.                  *)
(***************************************************************************)
EXTENDS PackageInventory, SequenceTheorems, TLAPS

\* The last item of a listing that is not empty is a version.
LEMMA LastOfListing ==
    ASSUME NEW s \in Listing, s # <<>>
    PROVE  Last(s) \in Versions
<1>1. PICK m \in 0..MaxInstances : s \in [1..m -> Versions]
  BY DEF Listing, SeqOf
<1>2. m \in Nat /\ s \in Seq(Versions)
  BY <1>1, PackageAssumption, SeqDef
<1>3. Len(s) \in 1..Len(s)
  BY <1>2, EmptySeq
<1> QED
  BY <1>2, <1>3, ElementOfSeq DEF Last

\* The empty listing is one.
LEMMA EmptyListing == <<>> \in Listing
<1>1. <<>> \in [1..0 -> Versions]
  OBVIOUS
<1>2. 0 \in 0..MaxInstances
  BY PackageAssumption
<1>3. IsInjective(<<>>)
  BY DEF IsInjective
<1> QED
  BY <1>1, <1>2, <1>3 DEF Listing, SeqOf

\* A scan that has not been answered is one (the zero value of runPackageScan's).
LEMMA NoScanType == NoScan \in Scan
  BY EmptyListing DEF NoScan, Scan

\* A fresh monitor has the types and the two properties.
LEMMA PackageInit == Init => TypeOK /\ RefreshingIsTrue /\ StaleAdviceIsMarked
<1> SUFFICES ASSUME Init PROVE TypeOK /\ RefreshingIsTrue /\ StaleAdviceIsMarked
  OBVIOUS
<1>1. NoRow \in Row
  BY DEF Row
<1>2. <<>> \in Seq(SUBSET Event)
  BY EmptySeq
<1>3. TypeOK
  <2>1. loop \in Position /\ loop.scan = NoScan
    BY NoScanType DEF Init, Starting, Position
  <2>2. 0 \in 0..MaxChanges /\ 0 \in 0..MaxMishaps
    BY PackageAssumption
  <2> QED
    BY <1>1, <1>2, <2>1, <2>2 DEF Init, TypeOK
<1>4. RefreshingIsTrue /\ StaleAdviceIsMarked
  BY DEF Init, Starting, RefreshingIsTrue, StaleAdviceIsMarked, Scanning, NoRow
<1> QED
  BY <1>3, <1>4

\* A mishap stays within the bound.
LEMMA MishapType == TypeOK /\ Mishap => mishaps' \in 0..MaxMishaps
<1> SUFFICES ASSUME TypeOK, Mishap PROVE mishaps' \in 0..MaxMishaps
  OBVIOUS
<1>1. mishaps \in 0..MaxMishaps /\ MaxMishaps \in Nat
  BY PackageAssumption DEF TypeOK
<1>2. mishaps < MaxMishaps /\ mishaps' = mishaps + 1
  BY DEF Mishap
<1> QED
  BY <1>1, <1>2

\* What the transaction writes are rows and sets of events.
LEMMA StoredType ==
    ASSUME TypeOK, NEW p \in Packages
    PROVE  Stored(p) \in Row
<1>1. loop.scan.items[p] \in Listing /\ rows[p] \in Row
  BY DEF TypeOK, Scan, Position
<1>2. rows[p].judged \in Versions \cup {Unknown}
  BY <1>1 DEF Row, NoRow
<1> QED
  BY <1>1, <1>2, LastOfListing DEF Stored, Row

\* The log stays a sequence of sets of events (SavePackageScan).
LEMMA LoggedType == TypeOK => Logged \in Seq(SUBSET Event)
<1> SUFFICES ASSUME TypeOK PROVE Logged \in Seq(SUBSET Event)
  OBVIOUS
<1>1. NewEvents \in SUBSET Event
  BY DEF NewEvents, Differences
<1>2. log \in Seq(SUBSET Event)
  BY DEF TypeOK
<1> QED
  BY <1>1, <1>2 DEF Logged

\* Every step of the host, of a request, of the loop or of a restart keeps the
\* types.
LEMMA PackageTypeStep == TypeOK /\ [Next]_vars => TypeOK'
<1> SUFFICES ASSUME TypeOK, [Next]_vars PROVE TypeOK'
  OBVIOUS
<1> USE PackageAssumption DEF TypeOK, Scanning, Position
<1>1. ASSUME NEW p \in Packages, NEW s \in Listing, HostChanges(p, s) PROVE TypeOK'
  BY <1>1 DEF HostChanges
<1>2. CASE RequestRefresh
  BY <1>2 DEF RequestRefresh
<1>3. CASE FirstScan \/ SecondScan \/ ScanTicker \/ MetadataTicker \/ TakeRequest
  <2>1. loop.pc # "answered"
    BY <1>3 DEF FirstScan, SecondScan, ScanTicker, MetadataTicker, TakeRequest
  <2>2. PICK metadata \in BOOLEAN : Call(metadata)
    BY <1>3 DEF FirstScan, SecondScan, ScanTicker, MetadataTicker, TakeRequest
  <2>3. loop' \in Position /\ loop'.scan = NoScan
    BY <2>1, <2>2 DEF Call
  <2>4. queue' \in BOOLEAN
    BY <1>3 DEF FirstScan, SecondScan, ScanTicker, MetadataTicker, TakeRequest
  <2>5. UNCHANGED <<host, refreshing, rows, log, scanError, changes, mishaps, owed, rebased, unmarked>>
    BY <2>2 DEF Call
  <2> HIDE DEF Position
  <2> QED
    BY <2>3, <2>4, <2>5
<1>4. CASE BeginScan \/ MetadataIsRecent \/ EndScan
  <2>1. loop' \in Position /\ loop'.scan = NoScan
    <3>1. CASE BeginScan
      BY <3>1 DEF BeginScan
    <3>2. CASE MetadataIsRecent
      BY <3>2 DEF MetadataIsRecent
    <3>3. CASE EndScan
      BY <3>3 DEF EndScan
    <3> QED
      BY <1>4, <3>1, <3>2, <3>3
  <2>2. refreshing' \in BOOLEAN /\ owed' \in BOOLEAN
    BY <1>4 DEF BeginScan, MetadataIsRecent, EndScan
  <2>3. UNCHANGED <<host, queue, rows, log, scanError, changes, mishaps, rebased, unmarked>>
    BY <1>4 DEF BeginScan, MetadataIsRecent, EndScan
  <2> HIDE DEF Position
  <2> QED
    BY <2>1, <2>2, <2>3
<1>5. CASE AgentAnswers
  <2>1. PICK answer \in Scan : loop' = [loop EXCEPT !.pc = "answered", !.scan = answer]
    <3>1. PICK tool \in BOOLEAN, refreshed \in BOOLEAN, checked \in BOOLEAN :
             loop' = [loop EXCEPT !.pc = "answered",
                                  !.scan = [items |-> host, checked |-> tool /\ checked,
                                            error |-> tool /\ (~checked \/
                                                         (loop.metadata /\ ~refreshed))]]
      BY <1>5 DEF AgentAnswers
    <3>2. [items |-> host, checked |-> tool /\ checked,
           error |-> tool /\ (~checked \/ (loop.metadata /\ ~refreshed))] \in Scan
      BY DEF Scan
    <3> QED
      BY <3>1, <3>2
  <2>3. loop' \in Position
    BY <2>1
  <2>4. loop'.pc = "answered"
    BY <2>1
  <2> QED
    BY <1>5, <2>3, <2>4 DEF AgentAnswers
<1>6. CASE AgentFails \/ RecordError
  <2>1. loop' \in Position /\ loop'.scan = loop.scan /\ loop.pc # "answered"
    BY <1>6 DEF AgentFails, RecordError
  <2>2. mishaps' \in 0..MaxMishaps /\ scanError' \in BOOLEAN /\ unmarked' \in BOOLEAN
    BY <1>6, MishapType DEF AgentFails, RecordError
  <2>3. UNCHANGED <<host, refreshing, queue, rows, log, changes, owed, rebased>>
    BY <1>6 DEF AgentFails, RecordError
  <2> HIDE DEF Position
  <2> QED
    BY <2>1, <2>2, <2>3
<1>7. CASE SaveScan
  <2>1. rows' \in [Packages -> Row]
    BY <1>7, StoredType DEF SaveScan, Commit
  <2>2. log' \in Seq(SUBSET Event)
    BY <1>7, LoggedType DEF SaveScan, Commit
  <2>3. scanError' \in BOOLEAN
    BY <1>7 DEF SaveScan, Commit, Scan
  <2>4. rebased' \subseteq Packages /\ unmarked' \in BOOLEAN
    BY <1>7 DEF SaveScan, Commit
  <2>5. /\ loop' \in Position
        /\ loop'.scan = NoScan
    BY <1>7, NoScanType DEF SaveScan, Commit
  <2>6. UNCHANGED <<host, refreshing, queue, changes, mishaps, owed>>
    BY <1>7 DEF SaveScan, Commit
  <2> QED
    BY <2>1, <2>2, <2>3, <2>4, <2>5, <2>6
<1>8. CASE SaveFails
  <2>1. loop' \in Position /\ loop'.scan = NoScan
    BY <1>8, NoScanType DEF SaveFails
  <2>2. mishaps' \in 0..MaxMishaps
    BY <1>8, MishapType DEF SaveFails
  <2>3. UNCHANGED <<host, refreshing, queue, rows, log, scanError, changes, owed, rebased, unmarked>>
    BY <1>8 DEF SaveFails
  <2> HIDE DEF Position
  <2> QED
    BY <2>1, <2>2, <2>3
<1>9. CASE Prune
  <2>1. PICK n \in 0..Len(log) : log' = SubSeq(log, n + 1, Len(log))
    BY <1>9 DEF Prune
  <2>2. log' \in Seq(SUBSET Event)
    BY <2>1, SubSeqProperties, LenProperties
  <2> QED
    BY <1>9, <2>2 DEF Prune
<1>10. CASE RestartMonitor
  <2>1. loop' \in Position /\ loop'.scan = NoScan
    BY <1>10, NoScanType DEF RestartMonitor, Starting
  <2>2. mishaps' \in 0..MaxMishaps
    BY <1>10, MishapType DEF RestartMonitor
  <2>3. refreshing' \in BOOLEAN /\ queue' \in BOOLEAN /\ owed' \in BOOLEAN
    BY <1>10 DEF RestartMonitor
  <2>4. UNCHANGED <<host, rows, log, scanError, changes, rebased, unmarked>>
    BY <1>10 DEF RestartMonitor
  <2> HIDE DEF Position
  <2> QED
    BY <2>1, <2>2, <2>3, <2>4
<1>11. CASE AlreadyRunning \/ UNCHANGED vars
  BY <1>11 DEF AlreadyRunning, vars
<1> QED
  BY <1>1, <1>2, <1>3, <1>4, <1>5, <1>6, <1>7, <1>8, <1>9, <1>10, <1>11 DEF Next, Loop

-----------------------------------------------------------------------------
(* The refreshing flag.                                                    *)

\* The flag is set before the agent is asked, stays set until the deferred
\* reset, and is set by a request only together with the queue.
LEMMA FlagStep == TypeOK /\ RefreshingIsTrue /\ [Next]_vars => RefreshingIsTrue'
<1> SUFFICES ASSUME TypeOK, RefreshingIsTrue, [Next]_vars PROVE RefreshingIsTrue'
  OBVIOUS
<1>0. loop \in Position
  BY DEF TypeOK
<1> USE DEF RefreshingIsTrue, Scanning
<1>1. CASE RequestRefresh
  BY <1>1 DEF RequestRefresh
<1>2. CASE FirstScan \/ SecondScan \/ ScanTicker \/ MetadataTicker \/ TakeRequest
  BY <1>0, <1>2 DEF FirstScan, SecondScan, ScanTicker, MetadataTicker, TakeRequest, Call, Position
<1>3. CASE BeginScan
  BY <1>0, <1>3 DEF BeginScan, Position
<1>4. CASE MetadataIsRecent
  BY <1>0, <1>4 DEF MetadataIsRecent, Position
<1>5. CASE AgentAnswers \/ AgentFails \/ RecordError \/ SaveScan \/ SaveFails \/ Prune
  <2>1. loop.pc \in Scanning /\ loop'.pc \in Scanning
    BY <1>0, <1>5 DEF AgentAnswers, AgentFails, RecordError, SaveScan, Commit, SaveFails,
                      Prune, Position
  <2>2. UNCHANGED refreshing
    BY <1>5 DEF AgentAnswers, AgentFails, RecordError, SaveScan, Commit, SaveFails, Prune
  <2> QED
    BY <2>1, <2>2
<1>6. CASE EndScan
  BY <1>0, <1>6 DEF EndScan, Position
<1>7. CASE RestartMonitor
  BY <1>7 DEF RestartMonitor, Starting
<1>8. CASE \/ \E p \in Packages, s \in Listing : HostChanges(p, s)
           \/ AlreadyRunning \/ UNCHANGED vars
  BY <1>8 DEF HostChanges, AlreadyRunning, vars
<1> QED
  BY <1>1, <1>2, <1>3, <1>4, <1>5, <1>6, <1>7, <1>8 DEF Next, Loop

-----------------------------------------------------------------------------
(* Stale advice.                                                           *)

\* A transaction that keeps old advice stores the error of the scan with it.
LEMMA AdviceStep ==
    TypeOK /\ StaleAdviceIsMarked /\ [Next]_vars => StaleAdviceIsMarked'
<1> SUFFICES ASSUME TypeOK, StaleAdviceIsMarked, [Next]_vars
             PROVE  StaleAdviceIsMarked'
  OBVIOUS
<1> USE DEF StaleAdviceIsMarked
<1>1. CASE SaveScan
  <2>1. /\ loop.pc = "answered"
        /\ rows' = [p \in Packages |-> Stored(p)]
        /\ scanError' = loop.scan.error
        /\ unmarked' = (~loop.scan.checked /\ ~loop.scan.error)
    BY <1>1 DEF SaveScan, Commit
  <2>2. CASE loop.scan.error
    BY <2>1, <2>2
  <2>3. CASE loop.scan.checked
    <3>1. \A p \in Packages : Stored(p).judged \in {Unknown, Stored(p).version}
      BY <2>3 DEF Stored, NoRow
    <3> QED
      BY <2>1, <3>1
  <2>4. CASE ~loop.scan.error /\ ~loop.scan.checked
    BY <2>1, <2>4
  <2> QED
    BY <2>1, <2>2, <2>3, <2>4
<1>2. CASE RecordError
  <2>1. UNCHANGED rows /\ (scanError' \/ unmarked' \/ UNCHANGED <<scanError, unmarked>>)
    BY <1>2 DEF RecordError
  <2>2. CASE UNCHANGED <<scanError, unmarked>>
    BY <2>1, <2>2
  <2>3. CASE scanError' \/ unmarked'
    BY <2>3
  <2> QED
    BY <2>1, <2>2, <2>3
<1>3. CASE \/ FirstScan \/ SecondScan \/ ScanTicker \/ MetadataTicker \/ TakeRequest
           \/ BeginScan \/ MetadataIsRecent \/ AgentAnswers \/ AgentFails \/ SaveFails
           \/ Prune \/ EndScan \/ RestartMonitor
  <2>1. UNCHANGED <<rows, scanError, unmarked>>
    BY <1>3 DEF FirstScan, SecondScan, ScanTicker, MetadataTicker, TakeRequest, Call,
         BeginScan, MetadataIsRecent, AgentAnswers, AgentFails, SaveFails, Prune, EndScan,
         RestartMonitor
  <2> QED
    BY <2>1
<1>4. CASE \/ \E p \in Packages, s \in Listing : HostChanges(p, s)
           \/ RequestRefresh \/ AlreadyRunning \/ UNCHANGED vars
  BY <1>4 DEF HostChanges, RequestRefresh, AlreadyRunning, vars
<1> QED
  BY <1>1, <1>2, <1>3, <1>4 DEF Next, Loop

-----------------------------------------------------------------------------
(* The change log, for a manager that lists a package at most once (dpkg). *)

\* The events of one package: each is a change, the last one ends with the row,
\* and the next one after each begins with what it ended with.
Chained(p) ==
    \A i \in EventsOf(p) :
        /\ EventAt(p, i).old # EventAt(p, i).new
        /\ (\A k \in EventsOf(p) : k <= i) => EventAt(p, i).new = rows[p].version
        /\ \A j \in EventsOf(p) :
              j > i /\ (\A k \in EventsOf(p) : k > i => j <= k)
                  => EventAt(p, j).old = EventAt(p, i).new

\* The property is that chain, for every package that was not rebased.
LEMMA AddsUpIsChained == ChangesAddUp <=> \A p \in Packages \ rebased : Chained(p)
<1>1. \A p \in Packages : EventsOf(p) \subseteq Nat
  BY DEF EventsOf
<1>2. ASSUME NEW p \in Packages, NEW i \in EventsOf(p)
      PROVE  {j \in EventsOf(p) : j > i} = {} <=> \A k \in EventsOf(p) : k <= i
  BY <1>1, <1>2
<1> QED
  BY <1>2 DEF ChangesAddUp, Chained

\* The same of the next state.
LEMMA NextIsChained == (ChangesAddUp <=> \A p \in Packages \ rebased : Chained(p))'
  BY AddsUpIsChained, PTL

\* An event of a scan begins with the stored row and, when the package is listed
\* at most once, ends with the row that is stored with it.
LEMMA DifferenceEnds ==
    ASSUME MaxInstances = 1, TypeOK, loop.pc = "answered", NEW e \in Differences
    PROVE  /\ e.package \in Packages /\ e.old # e.new
           /\ e.old = rows[e.package].version /\ e.new = Stored(e.package).version
<1>. DEFINE items == loop.scan.items[e.package]
<1>1. /\ e \in Event /\ e.old = rows[e.package].version /\ e.old # e.new
      /\ e.new \in IF items = <<>> THEN {Absent} ELSE Range(items)
  BY DEF Differences
<1>2. e.package \in Packages
  BY <1>1 DEF Event
<1>3. items \in Listing
  BY <1>2 DEF TypeOK, Position, Scan
<1>4. CASE items = <<>>
  BY <1>1, <1>2, <1>4 DEF Stored, NoRow
<1>5. CASE items # <<>>
  <2>1. PICK m \in 0..1 : items \in [1..m -> Versions]
    BY <1>3 DEF Listing, SeqOf
  <2>2. items \in Seq(Versions) /\ Len(items) = m /\ DOMAIN items = 1..m
    BY <2>1, SeqDef, LenProperties
  <2>3. m = 1
    BY <1>5, <2>1, <2>2, EmptySeq
  <2>4. Range(items) = {Last(items)}
    BY <2>2, <2>3 DEF Range, Last
  <2> QED
    BY <1>1, <1>2, <1>5, <2>4 DEF Stored
<1> QED
  BY <1>4, <1>5

\* The transaction appends the events and writes the rows they end with.
LEMMA SaveKeepsChains ==
    ASSUME MaxInstances = 1, TypeOK, ChangesAddUp, SaveScan
    PROVE  ChangesAddUp'
<1>1. /\ loop.pc = "answered" /\ log' = Logged
      /\ rows' = [p \in Packages |-> Stored(p)]
      /\ rebased' = rebased \cup {p \in Packages : /\ EventsOf(p) # {}
                                                  /\ Stored(p).version # rows[p].version
                                                  /\ \A e \in NewEvents : e.package # p}
  BY DEF SaveScan, Commit
<1>2. log \in Seq(SUBSET Event) /\ NewEvents \in SUBSET Event
  BY DEF TypeOK, NewEvents, Differences
<1>3. PICK last \in Nat : last = Len(log)
  BY <1>2, LenProperties
<1>. SUFFICES ASSUME NEW p \in Packages, p \notin rebased' PROVE Chained(p)'
  BY NextIsChained
<1>4. p \notin rebased /\ Chained(p)
  BY <1>1, AddsUpIsChained
<1>5. CASE \A e \in NewEvents : e.package # p
  <2>1. /\ EventsOf(p)' = EventsOf(p)
        /\ \A i \in EventsOf(p) : EventAt(p, i)' = EventAt(p, i)
    <3>1. CASE NewEvents = {}
      BY <1>1, <3>1 DEF Logged, EventsOf, EventAt
    <3>2. CASE NewEvents # {}
      <4>1. log' = Append(log, NewEvents)
        BY <1>1, <3>2 DEF Logged
      <4>2. /\ Len(log') = last + 1 /\ log'[last + 1] = NewEvents
            /\ \A i \in 1..last : log'[i] = log[i]
        BY <1>2, <1>3, <4>1, AppendProperties
      <4> QED
        BY <1>5, <1>3, <4>2 DEF EventsOf, EventAt
    <3> QED
      BY <3>1, <3>2
  <2>2. EventsOf(p) # {} => rows'[p].version = rows[p].version
    BY <1>1, <1>5
  <2> QED
    BY <1>4, <2>1, <2>2 DEF Chained
<1>6. ASSUME NEW e \in NewEvents, e.package = p
      PROVE  Chained(p)'
  <2>1. NewEvents = Differences /\ log' = Append(log, NewEvents)
    BY <1>1, <1>6 DEF NewEvents, Logged
  <2>2. /\ Len(log') = last + 1 /\ log'[last + 1] = NewEvents
        /\ \A i \in 1..last : log'[i] = log[i]
    BY <1>2, <1>3, <2>1, AppendProperties
  <2>3. EventsOf(p)' = EventsOf(p) \cup {last + 1}
    BY <1>6, <1>3, <2>2 DEF EventsOf
  <2>4. \A i \in EventsOf(p) : i \in 1..last /\ EventAt(p, i)' = EventAt(p, i)
    BY <1>3, <2>2 DEF EventsOf, EventAt
  <2>5. PICK f \in Differences : f.package = p /\ f = EventAt(p, last + 1)'
    BY <1>6, <2>1, <2>2 DEF EventAt
  <2>6. f.old # f.new /\ f.old = rows[p].version /\ f.new = rows'[p].version
    BY <1>1, <2>5, DifferenceEnds
  <2>7. ASSUME NEW i \in EventsOf(p)'
        PROVE  /\ EventAt(p, i)'.old # EventAt(p, i)'.new
               /\ (\A k \in EventsOf(p)' : k <= i) => EventAt(p, i)'.new = rows'[p].version
               /\ \A j \in EventsOf(p)' :
                     j > i /\ (\A k \in EventsOf(p)' : k > i => j <= k)
                         => EventAt(p, j)'.old = EventAt(p, i)'.new
    <3>1. CASE i = last + 1
      BY <2>3, <2>4, <2>5, <2>6, <3>1
    <3>2. CASE i \in EventsOf(p)
      <4>1. i \in Nat /\ i < last + 1 /\ EventAt(p, i)' = EventAt(p, i)
        BY <2>4, <3>2
      <4>2. EventAt(p, i).old # EventAt(p, i).new
        BY <1>4, <3>2 DEF Chained
      <4>3. ASSUME NEW j \in EventsOf(p)', j > i, \A k \in EventsOf(p)' : k > i => j <= k
            PROVE  EventAt(p, j)'.old = EventAt(p, i)'.new
        <5>1. CASE j = last + 1
          <6>1. \A k \in EventsOf(p) : k <= i
            BY <2>3, <2>4, <4>3, <5>1
          <6> QED
            BY <1>4, <2>5, <2>6, <3>2, <4>1, <5>1, <6>1 DEF Chained
        <5>2. CASE j \in EventsOf(p)
          <6>1. j > i /\ \A k \in EventsOf(p) : k > i => j <= k
            BY <2>3, <4>3
          <6>2. EventAt(p, j)' = EventAt(p, j)
            BY <2>4, <5>2
          <6> QED
            BY <1>4, <3>2, <4>1, <5>2, <6>1, <6>2 DEF Chained
        <5> QED
          BY <2>3, <5>1, <5>2
      <4>4. ~ \A k \in EventsOf(p)' : k <= i
        BY <2>3, <4>1
      <4> QED
        BY <4>1, <4>2, <4>3, <4>4
    <3> QED
      BY <2>3, <3>1, <3>2
  <2> QED
    BY <2>7 DEF Chained
<1> QED
  BY <1>5, <1>6

\* Pruning drops a prefix of the log: the chains of what is left are whole.
LEMMA PruneKeepsChains == TypeOK /\ ChangesAddUp /\ Prune => ChangesAddUp'
<1>. SUFFICES ASSUME TypeOK, ChangesAddUp, Prune,
                     NEW p \in Packages, p \notin rebased'
             PROVE  Chained(p)'
  BY NextIsChained
<1>1. PICK n \in 0..Len(log) : log' = SubSeq(log, n + 1, Len(log))
  BY DEF Prune
<1>2. log \in Seq(SUBSET Event) /\ Len(log) \in Nat /\ n \in Nat
  BY <1>1, LenProperties DEF TypeOK
<1>3. Len(log') = Len(log) - n /\ \A i \in 1..(Len(log) - n) : log'[i] = log[i + n]
  BY <1>1, <1>2, SubSeqProperties
<1>4. p \notin rebased /\ Chained(p) /\ rows' = rows
  BY AddsUpIsChained DEF Prune
<1>5. \A i \in EventsOf(p)' : /\ i \in Nat /\ i + n \in EventsOf(p)
                             /\ EventAt(p, i)' = EventAt(p, i + n)
  BY <1>2, <1>3 DEF EventsOf, EventAt
<1>6. \A k \in EventsOf(p) : k \in Nat /\ (k > n => k - n \in EventsOf(p)')
  BY <1>2, <1>3 DEF EventsOf
<1>7. ASSUME NEW i \in EventsOf(p)'
      PROVE  /\ EventAt(p, i)'.old # EventAt(p, i)'.new
             /\ (\A k \in EventsOf(p)' : k <= i) => EventAt(p, i)'.new = rows'[p].version
             /\ \A j \in EventsOf(p)' :
                   j > i /\ (\A k \in EventsOf(p)' : k > i => j <= k)
                       => EventAt(p, j)'.old = EventAt(p, i)'.new
  <2>1. /\ i \in Nat /\ i >= 1 /\ i + n \in EventsOf(p)
        /\ EventAt(p, i)' = EventAt(p, i + n)
    BY <1>5, <1>7 DEF EventsOf
  <2>2. EventAt(p, i)'.old # EventAt(p, i)'.new
    BY <1>4, <2>1 DEF Chained
  <2>3. ASSUME \A k \in EventsOf(p)' : k <= i
        PROVE  EventAt(p, i)'.new = rows'[p].version
    <3>1. \A k \in EventsOf(p) : k <= i + n
      BY <1>2, <1>6, <2>1, <2>3
    <3> QED
      BY <1>4, <2>1, <3>1 DEF Chained
  <2>4. ASSUME NEW j \in EventsOf(p)', j > i, \A k \in EventsOf(p)' : k > i => j <= k
        PROVE  EventAt(p, j)'.old = EventAt(p, i)'.new
    <3>1. j \in Nat /\ j + n \in EventsOf(p) /\ EventAt(p, j)' = EventAt(p, j + n)
      BY <1>5, <2>4
    <3>2. j + n > i + n /\ \A k \in EventsOf(p) : k > i + n => j + n <= k
      BY <1>2, <1>6, <2>1, <2>4, <3>1
    <3> QED
      BY <1>4, <2>1, <3>1, <3>2 DEF Chained
  <2> QED
    BY <2>2, <2>3, <2>4
<1> QED
  BY <1>7 DEF Chained

\* No other step touches rows, log or rebased.
LEMMA ChainStep ==
    ASSUME MaxInstances = 1
    PROVE  TypeOK /\ ChangesAddUp /\ [Next]_vars => ChangesAddUp'
<1>. SUFFICES ASSUME TypeOK, ChangesAddUp, [Next]_vars PROVE ChangesAddUp'
  OBVIOUS
<1>1. CASE \/ FirstScan \/ SecondScan \/ ScanTicker \/ MetadataTicker \/ TakeRequest
           \/ BeginScan \/ MetadataIsRecent \/ AgentAnswers \/ AgentFails \/ RecordError
           \/ SaveFails \/ EndScan \/ RestartMonitor
           \/ \E p \in Packages, s \in Listing : HostChanges(p, s)
           \/ RequestRefresh \/ AlreadyRunning \/ UNCHANGED vars
  <2>1. UNCHANGED <<rows, log, rebased>>
    BY <1>1 DEF FirstScan, SecondScan, ScanTicker, MetadataTicker, TakeRequest, Call,
         BeginScan, MetadataIsRecent, AgentAnswers, AgentFails, RecordError, SaveFails,
         EndScan, RestartMonitor, HostChanges, RequestRefresh, AlreadyRunning, vars
  <2>2. \A p \in Packages \ rebased : Chained(p)'
    BY <2>1, AddsUpIsChained DEF Chained, EventsOf, EventAt
  <2> QED
    BY <2>1, <2>2, NextIsChained
<1> QED
  BY <1>1, SaveKeepsChains, PruneKeepsChains DEF Next, Loop

-----------------------------------------------------------------------------
\* The types of the inventory, its loop and its log hold for all packages,
\* listings and mishaps (app/packages.go, store/packages.go).
THEOREM TypeCorrect == Spec => []TypeOK
<1>1. Init => TypeOK
  BY PackageInit
<1> QED
  BY <1>1, PackageTypeStep, PTL DEF Spec

\* The flag that refuses requests is never left set with nothing to reset it,
\* and a scan that runs is always shown (packageRefreshRequest, runPackageScan).
THEOREM FlagInvariant == Spec => []RefreshingIsTrue
<1>1. Init => RefreshingIsTrue
  BY PackageInit
<1> QED
  BY <1>1, TypeCorrect, FlagStep, PTL DEF Spec

\* Advice for another version than the one installed is never shown without an
\* error (SavePackageScan keeps it when an update check failed), except after a scan
\* that failed without a reason or had no tool to check with.
THEOREM AdviceInvariant == Spec => []StaleAdviceIsMarked
<1>1. Init => StaleAdviceIsMarked
  BY PackageInit
<1> QED
  BY <1>1, TypeCorrect, AdviceStep, PTL DEF Spec

\* The change log adds up to the inventory for any package that a manager lists at
\* most once, whichever scans, statements and runs fail in between (SavePackageScan,
\* PrunePackageEvents).
THEOREM LogAddsUp ==
    ASSUME MaxInstances = 1
    PROVE  Spec => []ChangesAddUp
<1>1. Init => ChangesAddUp
  BY DEF Init, ChangesAddUp, EventsOf
<1>2. TypeOK /\ ChangesAddUp /\ [Next]_vars => ChangesAddUp'
  BY ChainStep
<1> QED
  BY <1>1, <1>2, TypeCorrect, PTL DEF Spec
=============================================================================
