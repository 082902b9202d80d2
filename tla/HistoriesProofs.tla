--------------------------- MODULE HistoriesProofs ---------------------------
(***************************************************************************)
(* Proofs about the histories.  Of processes and switches (ResourceHistory *)
(* on its own): the two halves of the inductive invariant do not need each *)
(* other: UnitsInv says what the baselines, the snapshot of the running    *)
(* pass and its transaction may still add to the history, and SwitchesInv  *)
(* what the handlers and the cache hold of the table.                      *)
(*                                                                         *)
(* Of metrics and watches (the instance Retention): SamplesInv says which  *)
(* samples a row has, so that neither the next rollup nor the deletion     *)
(* loses one or leaves it twice, and WatchesInv what the running pass      *)
(* still owes a watch.                                                     *)
(***************************************************************************)
EXTENDS Histories, TLAPS

-----------------------------------------------------------------------------
(* Processes and switches: types.                                          *)

\* What a pass holds: a snapshot that no counter is below, processes to save
\* that are in it, and, once its transaction has begun, every switch; it has
\* found I/O only with the one of disk I/O on.
LoopOK ==
    /\ \A p \in Processes : loop.snap[p] # None => loop.snap[p] <= done[p]
    /\ \A p \in loop.left : loop.snap[p] # None
    /\ loop.pc = "saving" => \A s \in Switches : loop.switch[s] # None
    /\ loop.found # {} => loop.pc = "saving" /\ loop.switch[Disk]

TypeInv == TypeOK /\ LoopOK

\* The records of a PATCH handler and of a pass.
Handlers == [pc : {"idle", "reading", "committed"}, want : Values, next : Values]
Passes   == [pc : {"idle", "sampled", "saving"},
             snap : [Processes -> Counter \cup {None}], switch : Values,
             left : SUBSET Processes, found : SUBSET (Processes \X Units)]

\* The two idle records (the zero values of the handler and of
\* SaveProcessResources).
LEMMA IdleTypes ==
    /\ AdminIdle \in Handlers /\ AdminIdle.pc = "idle"
    /\ LoopIdle \in Passes /\ LoopIdle.pc = "idle" /\ LoopIdle.left = {}
    /\ LoopIdle.found = {} /\ LoopIdle.switch = Nothing
    /\ \A p \in Processes : LoopIdle.snap[p] = None
  BY DEF AdminIdle, LoopIdle, Values, Nothing, Handlers, Passes

\* A PATCH handler that has read one more switch, or committed, is one.
LEMMA HandlerTypes ==
    ASSUME NEW h \in Handlers
    PROVE  /\ [h EXCEPT !.pc = "committed"] \in Handlers
           /\ \A s \in Switches, v \in BOOLEAN :
                 [h EXCEPT !.next = [h.next EXCEPT ![s] = v]] \in Handlers
  BY DEF Handlers, Values

\* Initially every variable has its type.
LEMMA TypeInit == Init => TypeInv
  <1>. SUFFICES ASSUME Init PROVE TypeInv
    OBVIOUS
  <1>1. /\ table \in [Switches -> BOOLEAN] /\ asked \in [Switches -> BOOLEAN]
        /\ cache \in Values /\ fills \subseteq Switches \X BOOLEAN
    BY DEF Init, Values
  <1>2. admin \in [Admins -> Handlers] /\ loop \in Passes
    BY IdleTypes DEF Init
  <1>3. /\ done \in [Processes -> Counter] /\ alive \subseteq Processes
        /\ seen \in [Processes -> Counter \cup {None}]
        /\ \A p \in Processes : seen[p] # None => seen[p] <= done[p]
    BY ResourceAssumption DEF Init, Counter
  <1>4. /\ history \in [Processes \X Units -> Nat]
        /\ hidden \subseteq Processes \X Units /\ unreached \subseteq hidden
    BY DEF Init
  <1>5. /\ zeroed \in [Processes -> Nat] /\ clearing \in BOOLEAN
        /\ crossed \subseteq Switches
    BY DEF Init
  <1>6. patches \in 0..MaxPatches /\ mishaps \in 0..MaxMishaps
    BY ResourceAssumption DEF Init
  <1>7. LoopOK
    <2>1. loop = LoopIdle
      BY DEF Init
    <2> QED  BY <2>1, IdleTypes DEF LoopOK
  <1> QED  BY <1>1, <1>2, <1>3, <1>4, <1>5, <1>6, <1>7 DEF TypeInv, TypeOK, Handlers, Passes

\* The steps on the switches keep the types of the switches' variables.
LEMMA SettingTypes ==
    ASSUME TypeInv,
           \/ \E s \in Switches : ReadThrough(s) \/ \E v \in BOOLEAN : Fill(s, v)
           \/ \E a \in Admins : \/ \E want \in Bodies : BeginPatch(a, want)
                                \/ \E s \in Switches : ReadCurrent(a, s)
                                \/ CommitSwitches(a) \/ CommitFails(a) \/ CacheSwitches(a)
    PROVE  TypeInv'
  <1>. USE ResourceAssumption DEF TypeInv, TypeOK
  <1>a. admin \in [Admins -> Handlers]
    BY DEF Handlers
  <1>0. UNCHANGED io
    BY DEF ReadThrough, Fill, BeginPatch, ReadCurrent, CommitSwitches, CommitFails, CacheSwitches
  <1>1. ASSUME UNCHANGED io,
               table' \in [Switches -> BOOLEAN], cache' \in Values,
               fills' \subseteq Switches \X BOOLEAN,
               admin' \in [Admins -> Handlers],
               asked' \in [Switches -> BOOLEAN], crossed' \subseteq Switches,
               patches' \in 0..MaxPatches, mishaps' \in 0..MaxMishaps
        PROVE  TypeInv'
    BY <1>1 DEF LoopOK, io, Handlers
  <1>2. ASSUME NEW s \in Switches, ReadThrough(s)
        PROVE  TypeInv'
    BY <1>0, <1>1, <1>2, <1>a DEF ReadThrough
  <1>3. ASSUME NEW s \in Switches, NEW v \in BOOLEAN, Fill(s, v)
        PROVE  TypeInv'
    BY <1>0, <1>1, <1>3, <1>a DEF Fill, Values
  <1>4. ASSUME NEW a \in Admins, NEW want \in Bodies, BeginPatch(a, want)
        PROVE  TypeInv'
    <2>1. [pc |-> "reading", want |-> want, next |-> want] \in Handlers
      BY DEF Handlers, Values
    <2> QED  BY <1>0, <1>1, <1>4, <1>a, <2>1 DEF BeginPatch
  <1>5. ASSUME NEW a \in Admins, NEW s \in Switches, ReadCurrent(a, s)
        PROVE  TypeInv'
    <2>1. PICK v \in BOOLEAN : /\ SettingEnabled(s, v)
                               /\ admin' = [admin EXCEPT ![a].next[s] = v]
      BY <1>5 DEF ReadCurrent
    <2>2. admin' \in [Admins -> Handlers]
      <3>1. admin[a] \in Handlers
        BY <1>a
      <3>2. [admin[a] EXCEPT !.next = [admin[a].next EXCEPT ![s] = v]] \in Handlers
        BY <3>1, HandlerTypes
      <3>3. PICK q \in Handlers :
               q = [admin[a] EXCEPT !.next = [admin[a].next EXCEPT ![s] = v]]
        BY <3>2
      <3>4. admin' = [admin EXCEPT ![a] = q]
        BY <2>1, <3>3
      <3> QED  BY <1>a, <3>4
    <2>3. cache' \in Values /\ mishaps' \in 0..MaxMishaps
      BY <2>1 DEF SettingEnabled, Mishap, Values
    <2>4. crossed' \subseteq Switches /\ UNCHANGED <<table, fills, asked, patches>>
      BY <1>5 DEF ReadCurrent
    <2> QED  BY <1>0, <1>1, <2>2, <2>3, <2>4
  <1>6. ASSUME NEW a \in Admins, CommitSwitches(a)
        PROVE  TypeInv'
    <2>1. table' \in [Switches -> BOOLEAN]
      BY <1>6 DEF CommitSwitches, Values
    <2>2. asked' \in [Switches -> BOOLEAN]
      BY <1>6 DEF CommitSwitches, Values
    <2>3. crossed' \subseteq Switches
      BY <1>6 DEF CommitSwitches
    <2>4. admin' \in [Admins -> Handlers]
      <3>1. admin[a] \in Handlers
        BY <1>a
      <3>2. [admin[a] EXCEPT !.pc = "committed"] \in Handlers
        BY <3>1, HandlerTypes
      <3>3. admin' = [admin EXCEPT ![a].pc = "committed"]
        BY <1>6 DEF CommitSwitches
      <3> QED  BY <1>a, <3>2, <3>3
    <2>5. UNCHANGED <<cache, fills, patches, mishaps>>
      BY <1>6 DEF CommitSwitches
    <2> QED  BY <1>0, <1>1, <2>1, <2>2, <2>3, <2>4, <2>5
  <1>7. ASSUME NEW a \in Admins, CommitFails(a) \/ CacheSwitches(a)
        PROVE  TypeInv'
    <2>1. admin' \in [Admins -> Handlers]
      <3>1. admin' = [admin EXCEPT ![a] = AdminIdle]
        BY <1>7 DEF CommitFails, CacheSwitches
      <3> QED  BY <1>a, <3>1, IdleTypes
    <2>2. cache' \in Values /\ mishaps' \in 0..MaxMishaps
      BY <1>7 DEF CommitFails, CacheSwitches, Mishap
    <2>3. UNCHANGED <<table, fills, asked, crossed, patches>>
      BY <1>7 DEF CommitFails, CacheSwitches
    <2> QED  BY <1>0, <1>1, <2>1, <2>2, <2>3
  <1> QED  BY <1>2, <1>3, <1>4, <1>5, <1>6, <1>7

\* What a snapshot says of a process is I/O it has done (readProcIO).
LEMMA UnrecordedTypes ==
    ASSUME TypeInv, NEW p \in Processes
    PROVE  Unrecorded(p) \subseteq Processes \X Units
  BY ResourceAssumption DEF TypeInv, TypeOK, Unrecorded, Units, Counter

\* Every other step keeps the types: no baseline comes to be above the counter
\* it was read from, because the snapshot is not (SaveProcess).
LEMMA PassTypes ==
    ASSUME TypeInv,
           \/ \E s \in Switches : ReadSwitch(s)
           \/ \E p \in Processes : DoIO(p) \/ Exit(p) \/ SaveProcess(p)
           \/ Sample \/ NothingEnabled \/ BeginSave \/ EndSave
           \/ ClearRows \/ ClearSeen \/ RestartMonitor
    PROVE  TypeInv'
  <1>. USE ResourceAssumption DEF TypeInv, TypeOK
  <1>1. ASSUME NEW s \in Switches, ReadSwitch(s)
        PROVE  TypeInv'
    <2>1. PICK v \in BOOLEAN :
             LET off == IF s = Disk /\ ~v THEN UNION {Unrecorded(p) : p \in Processes} ELSE {}
             IN  /\ SettingEnabled(s, v)
                 /\ loop' = [loop EXCEPT !.switch[s] = v]
                 /\ hidden' = hidden \cup off
                 /\ unreached' = unreached \cup (off \ hidden)
      BY <1>1 DEF ReadSwitch
    <2>7. hidden' \subseteq Processes \X Units /\ unreached' \subseteq hidden'
      <3>1. UNION {Unrecorded(p) : p \in Processes} \subseteq Processes \X Units
        BY UnrecordedTypes
      <3> QED  BY <2>1, <3>1
    <2>2. /\ loop' = [loop EXCEPT !.switch = [@ EXCEPT ![s] = v]]
          /\ [loop.switch EXCEPT ![s] = v] \in Values
      BY <2>1 DEF Values
    <2>3. cache' \in Values /\ mishaps' \in 0..MaxMishaps
      BY <2>1 DEF SettingEnabled, Mishap, Values
    <2>4. /\ loop.pc = "sampled"
          /\ UNCHANGED <<table, fills, admin, asked, crossed, patches,
                         done, alive, seen, clearing, history, zeroed>>
      BY <1>1 DEF ReadSwitch
    <2>5. TypeOK'
      BY <2>2, <2>3, <2>4, <2>7
    <2>6. LoopOK'
      BY <2>2, <2>4 DEF LoopOK
    <2> QED  BY <2>5, <2>6
  <1>2. ASSUME NEW p \in Processes, DoIO(p)
        PROVE  TypeInv'
    BY <1>2 DEF DoIO, settings, LoopOK, Counter
  <1>3. ASSUME NEW p \in Processes, Exit(p)
        PROVE  TypeInv'
    BY <1>3 DEF Exit, settings, LoopOK
  <1>4. ASSUME NEW p \in Processes, SaveProcess(p)
        PROVE  TypeInv'
    <2>1. /\ loop.pc = "saving" /\ loop.snap[p] # None /\ loop.switch[Disk] \in BOOLEAN
          /\ loop.snap[p] \in Counter /\ loop.snap[p] <= done[p]
      BY <1>4 DEF SaveProcess, LoopOK, Values
    <2>2. seen' \in [Processes -> Counter \cup {None}]
      BY <1>4, <2>1 DEF SaveProcess
    <2>3. \A q \in Processes : seen'[q] # None => seen'[q] <= done'[q]
      BY <1>4, <2>1 DEF SaveProcess
    <2>4. hidden' = hidden /\ unreached' \subseteq hidden
      BY <1>4 DEF SaveProcess
    <2>5. Delta(p) \subseteq Processes \X Units /\ (Delta(p) # {} => loop.switch[Disk])
      BY DEF Delta
    <2>6. CASE loop' = LoopIdle /\ Mishap
      <3>1. loop' \in Passes /\ mishaps' \in 0..MaxMishaps
        BY <2>6, IdleTypes DEF Mishap
      <3>2. LoopOK'
        BY <2>6, IdleTypes DEF LoopOK
      <3> QED  BY <1>4, <2>2, <2>3, <2>4, <3>1, <3>2 DEF SaveProcess, settings, Passes
    <2>7. CASE loop' = [loop EXCEPT !.left = @ \ {p}, !.found = @ \cup Delta(p)]
               /\ UNCHANGED mishaps
      <3>1. TypeOK'
        BY <1>4, <2>2, <2>3, <2>4, <2>5, <2>7 DEF SaveProcess, settings
      <3>2. LoopOK'
        BY <1>4, <2>1, <2>5, <2>7 DEF SaveProcess, LoopOK
      <3> QED  BY <3>1, <3>2
    <2> QED  BY <1>4, <2>6, <2>7 DEF SaveProcess
  <1>5. CASE Sample
    <2>1. PICK unread \in SUBSET {p \in alive : done[p] > 0} :
             /\ IF unread = {} THEN UNCHANGED mishaps ELSE Mishap
             /\ loop' = [LoopIdle EXCEPT
                           !.pc = "sampled",
                           !.snap = [p \in Processes |-> IF p \notin alive THEN None
                                                         ELSE IF p \in unread THEN 0
                                                         ELSE done[p]]]
             /\ zeroed' = [p \in Processes |-> IF p \in unread THEN zeroed[p] + 1
                                                               ELSE zeroed[p]]
      BY <1>5 DEF Sample
    <2>2. mishaps' \in 0..MaxMishaps /\ zeroed' \in [Processes -> Nat]
      BY <2>1 DEF Mishap
    <2>3. /\ loop' \in Passes
          /\ loop'.pc = "sampled" /\ loop'.left = {} /\ loop'.found = {}
          /\ \A p \in Processes : loop'.snap[p] # None => loop'.snap[p] <= done[p]
      <3>. DEFINE snap == [p \in Processes |-> IF p \notin alive THEN None
                                               ELSE IF p \in unread THEN 0 ELSE done[p]]
      <3>1. snap \in [Processes -> Counter \cup {None}]
        BY DEF Counter
      <3>2. \A p \in Processes : snap[p] # None => snap[p] <= done[p]
        BY DEF Counter
      <3>3. loop' = [LoopIdle EXCEPT !.pc = "sampled", !.snap = snap]
        BY <2>1
      <3>. HIDE DEF snap
      <3> QED  BY <3>1, <3>2, <3>3, IdleTypes DEF Passes
    <2>4. UNCHANGED <<settings, done, alive, seen, clearing, history, hidden, unreached>>
      BY <1>5 DEF Sample
    <2> QED  BY <2>2, <2>3, <2>4 DEF settings, LoopOK, Passes
  <1>6. CASE NothingEnabled
    <2>1. unreached' \subseteq hidden'
      BY <1>6 DEF NothingEnabled
    <2> QED  BY <1>6, <2>1, IdleTypes DEF NothingEnabled, settings, LoopOK, Passes
  <1>7. CASE BeginSave
    <2>1. CASE loop' = LoopIdle /\ Mishap
      BY <1>7, <2>1, IdleTypes DEF BeginSave, settings, Mishap, LoopOK, Passes
    <2>2. CASE loop' = [loop EXCEPT !.pc = "saving",
                                    !.left = {p \in Processes : loop.snap[p] # None}]
               /\ UNCHANGED mishaps
      <3>1. TypeOK'
        BY <1>7, <2>2 DEF BeginSave, settings
      <3>2. LoopOK'
        BY <1>7, <2>2 DEF BeginSave, SwitchesRead, LoopOK
      <3> QED  BY <3>1, <3>2
    <2> QED  BY <1>7, <2>1, <2>2 DEF BeginSave
  <1>8. CASE EndSave
    <2>1. history' \in [Processes \X Units -> Nat] /\ mishaps' \in 0..MaxMishaps
      <3>1. CASE Mishap /\ UNCHANGED history
        BY <3>1 DEF Mishap
      <3>2. CASE /\ history' = [x \in Processes \X Units |->
                                   IF x \in loop.found THEN history[x] + 1 ELSE history[x]]
                 /\ UNCHANGED mishaps
        BY <3>2
      <3> QED  BY <1>8, <3>1, <3>2 DEF EndSave
    <2> QED  BY <1>8, <2>1, IdleTypes DEF EndSave, settings, LoopOK, Passes
  <1>9. CASE ClearRows
    BY <1>9 DEF ClearRows, settings, LoopOK
  <1>10. ASSUME NEW readable \in SUBSET Switches, Restart(readable),
                mishaps' \in 0..MaxMishaps
         PROVE  TypeInv'
    <2>1. cache' \in Values /\ fills' = {} /\ admin' \in [Admins -> Handlers]
      BY <1>10, IdleTypes DEF Restart, Values
    <2>2. seen' \in [Processes -> Counter \cup {None}] /\ loop' \in Passes
      BY <1>10, IdleTypes DEF Restart
    <2>3. LoopOK' /\ \A p \in Processes : seen'[p] # None => seen'[p] <= done'[p]
      BY <1>10, IdleTypes DEF Restart, LoopOK
    <2> QED  BY <1>10, <2>1, <2>2, <2>3 DEF Restart, Handlers, Passes
  <1>11. CASE ClearSeen
    <2>1. CASE loop.pc = "saving" /\ Restart(Switches)
      BY <1>10, <1>11, <2>1 DEF ClearSeen
    <2>2. CASE /\ clearing' = FALSE /\ seen' = [p \in Processes |-> None]
               /\ UNCHANGED <<settings, done, alive, loop, history, hidden, unreached, zeroed>>
      BY <1>11, <2>2 DEF ClearSeen, settings, LoopOK
    <2> QED  BY <1>11, <2>1, <2>2 DEF ClearSeen
  <1>12. CASE RestartMonitor
    BY <1>10, <1>12 DEF RestartMonitor, Mishap
  <1> QED  BY <1>1, <1>2, <1>3, <1>4, <1>5, <1>6, <1>7, <1>8, <1>9, <1>11, <1>12

\* The types and what a pass holds are kept by every step.
LEMMA TypeStep == TypeInv /\ [Next]_vars => TypeInv'
  <1>1. CASE UNCHANGED vars
    BY <1>1 DEF vars, settings, io, TypeInv, TypeOK, LoopOK
  <1> QED  BY <1>1, SettingTypes, PassTypes DEF Next

-----------------------------------------------------------------------------
(* Processes: units of I/O.                                                *)

\* How often a unit is in the history, with the transaction under way.
Times(p, u) == history[<<p, u>>] + (IF <<p, u>> \in loop.found THEN 1 ELSE 0)

\* The second time needs a zero read.  A unit above the baseline may be found
\* by the running pass, and one above the snapshot by the next pass: both were
\* counted less often than the counter was read as zero.  A unit that is yet to
\* be done was not counted.
CountedOK(p, u) ==
    /\ Times(p, u) <= 1 + zeroed[p]
    /\ seen[p] # None /\ seen[p] < u => Times(p, u) <= zeroed[p]
    /\ loop.snap[p] # None /\ loop.snap[p] < u => Times(p, u) <= zeroed[p]
    /\ done[p] < u => Times(p, u) = 0

\* The units that a pass hid and the baseline was moved past.
Reached == hidden \ unreached

\* Such a unit is not counted and lies below the baseline and the snapshot, so
\* that no pass will find it, as long as the counter was never read as zero.
HiddenOK(p, u) ==
    <<p, u>> \in Reached /\ zeroed[p] = 0 =>
        /\ Times(p, u) = 0
        /\ u <= done[p]
        /\ seen[p] # None => u <= seen[p]
        /\ loop.snap[p] # None => u <= loop.snap[p]

UnitsInv == \A p \in Processes, u \in Units : CountedOK(p, u) /\ HiddenOK(p, u)

\* Initially nothing is counted, seen or hidden.
LEMMA UnitsInit == Init => UnitsInv
  <1>. SUFFICES ASSUME Init, NEW p \in Processes, NEW u \in Units
               PROVE  CountedOK(p, u) /\ HiddenOK(p, u)
    BY DEF UnitsInv
  <1>1. /\ history[<<p, u>>] = 0 /\ zeroed[p] = 0 /\ seen[p] = None
        /\ Reached = {} /\ loop = LoopIdle
    BY DEF Init, Reached
  <1> QED  BY <1>1, IdleTypes DEF CountedOK, HiddenOK, Times

\* A step that leaves no more counted, no baseline and no snapshot but those
\* there were, and moves no baseline past what is hidden.
LEMMA UnitsKept ==
    ASSUME TypeInv, TypeInv', UnitsInv,
           UNCHANGED zeroed, Reached' = Reached,
           \A p \in Processes : done[p] <= done'[p],
           \A p \in Processes : seen'[p] \in {None, seen[p]},
           \A p \in Processes : loop'.snap[p] \in {None, loop.snap[p]},
           \A p \in Processes, u \in Units : Times(p, u)' <= Times(p, u)
    PROVE  UnitsInv'
  <1>. SUFFICES ASSUME NEW p \in Processes, NEW u \in Units
               PROVE  CountedOK(p, u)' /\ HiddenOK(p, u)'
    BY DEF UnitsInv
  <1>1. CountedOK(p, u) /\ HiddenOK(p, u)
    BY DEF UnitsInv
  <1>2. /\ zeroed[p] \in Nat /\ done[p] \in Nat /\ done'[p] \in Nat /\ u \in Nat
        /\ Times(p, u) \in Nat /\ Times(p, u)' \in Nat
    BY ResourceAssumption DEF TypeInv, TypeOK, Counter, Units, Times
  <1>3. /\ done[p] <= done'[p] /\ Times(p, u)' <= Times(p, u)
        /\ seen'[p] \in {None, seen[p]} /\ loop'.snap[p] \in {None, loop.snap[p]}
        /\ zeroed'[p] = zeroed[p] /\ Reached' = Reached
    OBVIOUS
  <1>4. CountedOK(p, u)'
    BY <1>1, <1>2, <1>3 DEF CountedOK
  <1>5. HiddenOK(p, u)'
    BY <1>1, <1>2, <1>3 DEF HiddenOK
  <1> QED  BY <1>4, <1>5

\* What a pass leaves out of a process is neither recorded nor found by the pass,
\* which has the disk switch off, and is not above its snapshot.
LEMMA LeftOutByPass ==
    ASSUME TypeInv, NEW p \in Processes, loop.switch[Disk] # None,
           NEW x \in LeftOut(p)
    PROVE  /\ x \in Processes \X Units /\ x[1] = p
           /\ loop.snap[p] # None /\ x[2] <= loop.snap[p]
           /\ history[x] = 0 /\ x \notin loop.found
  <1>1. loop.switch[Disk] \in BOOLEAN
    BY ResourceAssumption DEF TypeInv, TypeOK, Values
  <1>2. ~loop.switch[Disk] /\ x \in Unrecorded(p)
    BY <1>1 DEF LeftOut
  <1>3. loop.snap[p] # None /\ x \in {p} \X (1..loop.snap[p]) /\ history[x] = 0
    BY <1>2 DEF Unrecorded
  <1>4. loop.found = {}
    BY <1>2 DEF TypeInv, LoopOK
  <1> QED  BY <1>2, <1>3, <1>4, UnrecordedTypes

\* The snapshot that a pass takes lies above all that was counted or hidden,
\* unless it is the zero of a counter that could not be read.
LEMMA SampleUnits == TypeInv /\ TypeInv' /\ UnitsInv /\ Sample => UnitsInv'
  <1>. SUFFICES ASSUME TypeInv, TypeInv', UnitsInv, Sample,
                       NEW p \in Processes, NEW u \in Units
               PROVE  CountedOK(p, u)' /\ HiddenOK(p, u)'
    BY DEF UnitsInv
  <1>1. CountedOK(p, u) /\ HiddenOK(p, u)
    BY DEF UnitsInv
  <1>2. PICK unread \in SUBSET {q \in alive : done[q] > 0} :
           /\ loop' = [LoopIdle EXCEPT
                         !.pc = "sampled",
                         !.snap = [q \in Processes |-> IF q \notin alive THEN None
                                                       ELSE IF q \in unread THEN 0
                                                       ELSE done[q]]]
           /\ zeroed' = [q \in Processes |-> IF q \in unread THEN zeroed[q] + 1
                                                             ELSE zeroed[q]]
    BY DEF Sample
  <1>3. /\ loop'.snap[p] = IF p \notin alive THEN None
                           ELSE IF p \in unread THEN 0 ELSE done[p]
        /\ loop'.found = {}
        /\ zeroed'[p] = IF p \in unread THEN zeroed[p] + 1 ELSE zeroed[p]
    BY <1>2, IdleTypes DEF Passes
  <1>4. UNCHANGED <<done, seen, history>> /\ Reached' = Reached
    BY DEF Sample, Reached
  <1>5. /\ zeroed[p] \in Nat /\ done[p] \in Nat /\ u \in Nat /\ u >= 1
        /\ history[<<p, u>>] \in Nat /\ (seen[p] = None \/ seen[p] \in Nat)
    BY ResourceAssumption DEF TypeInv, TypeOK, Counter, Units
  <1>6. Times(p, u) \in Nat /\ Times(p, u)' \in Nat /\ Times(p, u)' <= Times(p, u)
    BY <1>3, <1>4, <1>5 DEF Times
  <1>7. CountedOK(p, u)'
    BY <1>1, <1>3, <1>4, <1>5, <1>6 DEF CountedOK
  <1>8. HiddenOK(p, u)'
    BY <1>1, <1>3, <1>4, <1>5, <1>6 DEF HiddenOK
  <1> QED  BY <1>7, <1>8

\* One turn of the loop finds the units between baseline and snapshot: none of
\* them was hidden, and each was counted less often than the counter was read as
\* zero.  The new baseline is the snapshot, found or not.
LEMMA SaveUnits ==
    ASSUME TypeInv, TypeInv', UnitsInv, NEW q \in Processes, SaveProcess(q)
    PROVE  UnitsInv'
  <1>. SUFFICES ASSUME NEW p \in Processes, NEW u \in Units
               PROVE  CountedOK(p, u)' /\ HiddenOK(p, u)'
    BY DEF UnitsInv
  <1>1. CountedOK(p, u) /\ HiddenOK(p, u)
    BY DEF UnitsInv
  <1>2. /\ loop.pc = "saving" /\ loop.snap[q] # None /\ loop.switch[Disk] # None
        /\ loop.snap[q] <= done[q]
    BY ResourceAssumption DEF SaveProcess, TypeInv, LoopOK
  <1>3. /\ seen' = [seen EXCEPT ![q] = loop.snap[q]]
        /\ UNCHANGED <<done, history, zeroed>>
        /\ Reached' \subseteq Reached \cup LeftOut(q)
    BY DEF SaveProcess, Reached
  <1>4. /\ zeroed[p] \in Nat /\ done[p] \in Nat /\ u \in Nat /\ history[<<p, u>>] \in Nat
        /\ (seen[p] = None \/ seen[p] \in Nat)
        /\ (loop.snap[p] = None \/ loop.snap[p] \in Nat)
        /\ seen'[p] = IF p = q THEN loop.snap[q] ELSE seen[p]
    BY <1>3, ResourceAssumption DEF TypeInv, TypeOK, Counter, Units
  <1>5. /\ loop'.snap[p] \in {None, loop.snap[p]}
        /\ <<p, u>> \in loop'.found => <<p, u>> \in loop.found \cup Delta(q)
    <2>1. CASE loop' = LoopIdle
      BY <2>1, IdleTypes
    <2>2. CASE loop' = [loop EXCEPT !.left = @ \ {q}, !.found = @ \cup Delta(q)]
      BY <2>2 DEF TypeInv, TypeOK
    <2> QED  BY <2>1, <2>2 DEF SaveProcess
  <1>6. <<p, u>> \in Delta(q) => /\ p = q /\ seen[p] # None /\ seen[p] < u
                                 /\ u <= loop.snap[p] /\ loop.switch[Disk]
    BY DEF Delta
  <1>7. /\ Times(p, u) \in Nat /\ Times(p, u)' \in Nat
        /\ Times(p, u)' <= Times(p, u) + 1
        /\ <<p, u>> \notin Delta(q) => Times(p, u)' <= Times(p, u)
    BY <1>3, <1>4, <1>5 DEF Times
  <1>8. CountedOK(p, u)'
    BY <1>1, <1>2, <1>3, <1>4, <1>5, <1>6, <1>7 DEF CountedOK
  <1>9. HiddenOK(p, u)'
    <2>1. CASE <<p, u>> \in LeftOut(q)
      <3>1. /\ p = q /\ u <= loop.snap[p] /\ history[<<p, u>>] = 0
            /\ <<p, u>> \notin loop.found
        BY <1>2, <2>1, LeftOutByPass
      <3>2. ~loop.switch[Disk]
        BY <1>2, <2>1 DEF LeftOut
      <3>3. Times(p, u)' = 0
        BY <1>3, <1>5, <1>6, <3>1, <3>2 DEF Times
      <3> QED  BY <1>2, <1>3, <1>4, <1>5, <3>1, <3>3 DEF HiddenOK
    <2>2. CASE <<p, u>> \notin LeftOut(q)
      BY <1>1, <1>2, <1>3, <1>4, <1>5, <1>6, <1>7, <2>2 DEF HiddenOK
    <2> QED  BY <2>1, <2>2
  <1> QED  BY <1>8, <1>9

\* A pass that collects nothing leaves out what it saw, and drops the baselines.
LEMMA NothingUnits == TypeInv /\ TypeInv' /\ UnitsInv /\ NothingEnabled => UnitsInv'
  <1>. SUFFICES ASSUME TypeInv, TypeInv', UnitsInv, NothingEnabled,
                       NEW p \in Processes, NEW u \in Units
               PROVE  CountedOK(p, u)' /\ HiddenOK(p, u)'
    BY DEF UnitsInv
  <1>1. CountedOK(p, u) /\ HiddenOK(p, u)
    BY DEF UnitsInv
  <1>2. /\ seen'[p] = None /\ loop' = LoopIdle /\ UNCHANGED <<done, history, zeroed>>
        /\ Reached' \subseteq Reached \cup UNION {LeftOut(q) : q \in Processes}
        /\ loop.switch[Disk] # None
    BY ResourceAssumption DEF NothingEnabled, SwitchesRead, Reached
  <1>3. /\ zeroed[p] \in Nat /\ done[p] \in Nat /\ u \in Nat /\ history[<<p, u>>] \in Nat
        /\ (loop.snap[p] = None \/ loop.snap[p] \in Nat)
    BY ResourceAssumption DEF TypeInv, TypeOK, Counter, Units
  <1>4. /\ loop'.snap[p] = None /\ loop'.found = {}
        /\ Times(p, u) \in Nat /\ Times(p, u)' \in Nat /\ Times(p, u)' <= Times(p, u)
    BY <1>2, <1>3, IdleTypes DEF Times
  <1>5. CountedOK(p, u)'
    BY <1>1, <1>2, <1>3, <1>4 DEF CountedOK
  <1>6. HiddenOK(p, u)'
    <2>1. ASSUME NEW q \in Processes, <<p, u>> \in LeftOut(q)
          PROVE  history[<<p, u>>] = 0 /\ u <= done[p]
      <3>1. /\ p = q /\ loop.snap[p] # None /\ u <= loop.snap[p] /\ history[<<p, u>>] = 0
        BY <1>2, <2>1, LeftOutByPass
      <3> QED  BY <1>3, <3>1 DEF TypeInv, LoopOK
    <2>2. CASE <<p, u>> \in Reached
      BY <1>1, <1>2, <1>3, <1>4, <2>2 DEF HiddenOK
    <2>3. CASE <<p, u>> \notin Reached
      BY <1>2, <1>3, <1>4, <2>1, <2>3 DEF HiddenOK, Times
    <2> QED  BY <2>2, <2>3
  <1> QED  BY <1>5, <1>6

\* Every step keeps UnitsInv.
LEMMA UnitsStep == TypeInv /\ UnitsInv /\ [Next]_vars => UnitsInv'
  <1>. SUFFICES ASSUME TypeInv, UnitsInv, [Next]_vars
               PROVE  UnitsInv'
    OBVIOUS
  <1>0. TypeInv'
    BY TypeStep
  <1>a. \A p \in Processes : done[p] \in Nat
    BY DEF TypeInv, TypeOK, Counter
  <1>b. \A p \in Processes, u \in Units : history[<<p, u>>] \in Nat
    BY DEF TypeInv, TypeOK
  <1>c. ASSUME loop'.found \subseteq loop.found,
               \A q \in Processes, u \in Units : history'[<<q, u>>] \in {0, history[<<q, u>>]}
        PROVE  \A q \in Processes, u \in Units : Times(q, u)' <= Times(q, u)
    <2>. SUFFICES ASSUME NEW q \in Processes, NEW u \in Units
                 PROVE  Times(q, u)' <= Times(q, u)
      OBVIOUS
    <2>1. history'[<<q, u>>] \in {0, history[<<q, u>>]} /\ history[<<q, u>>] \in Nat
      BY <1>b, <1>c
    <2>2. <<q, u>> \in loop'.found => <<q, u>> \in loop.found
      BY <1>c
    <2> QED  BY <2>1, <2>2 DEF Times
  <1>e. UNCHANGED <<hidden, unreached>> => Reached' = Reached
    BY DEF Reached
  <1>d. ASSUME UNCHANGED <<done, seen, history, zeroed>>, Reached' = Reached,
               loop'.snap = loop.snap, loop'.found = loop.found
        PROVE  UnitsInv'
    <2>. SUFFICES ASSUME NEW p \in Processes, NEW u \in Units
                 PROVE  CountedOK(p, u)' /\ HiddenOK(p, u)'
      BY DEF UnitsInv
    <2>1. CountedOK(p, u) /\ HiddenOK(p, u)
      BY DEF UnitsInv
    <2>2. Times(p, u)' = Times(p, u)
      BY <1>d DEF Times
    <2>3. CountedOK(p, u)'
      BY <1>d, <2>1, <2>2 DEF CountedOK
    <2>4. HiddenOK(p, u)'
      BY <1>d, <2>1, <2>2 DEF HiddenOK
    <2> QED  BY <2>3, <2>4
  <1>1. CASE UNCHANGED <<done, seen, loop, history, hidden, unreached, zeroed>>
    BY <1>1, <1>d, <1>e
  <1>2. ASSUME NEW s \in Switches, ReadSwitch(s)
        PROVE  UnitsInv'
    <2>1. PICK v \in BOOLEAN, off \in SUBSET (UNION {Unrecorded(p) : p \in Processes}) :
             /\ loop' = [loop EXCEPT !.switch[s] = v]
             /\ hidden' = hidden \cup off /\ unreached' = unreached \cup (off \ hidden)
      BY <1>2 DEF ReadSwitch
    <2>2. loop'.snap = loop.snap /\ loop'.found = loop.found
      BY <2>1 DEF TypeInv, TypeOK
    <2>3. UNCHANGED <<done, seen, history, zeroed>>
      BY <1>2 DEF ReadSwitch
    <2>4. Reached' = Reached
      BY <2>1 DEF Reached, TypeInv, TypeOK
    <2> QED  BY <1>d, <2>2, <2>3, <2>4
  <1>3. ASSUME NEW p \in Processes, DoIO(p)
        PROVE  UnitsInv'
    <2>1. \A q \in Processes : done[q] <= done'[q]
      BY <1>3, <1>a DEF DoIO, TypeInv, TypeOK
    <2>2. UNCHANGED <<seen, loop, history, hidden, unreached, zeroed>>
      BY <1>3 DEF DoIO
    <2>3. \A q \in Processes, u \in Units : Times(q, u)' <= Times(q, u)
      BY <1>c, <2>2
    <2> QED  BY <1>0, <2>1, <2>2, <2>3, <1>e, UnitsKept
  <1>4. CASE BeginSave
    <2>1. /\ \A q \in Processes : loop'.snap[q] \in {None, loop.snap[q]}
          /\ loop'.found \subseteq loop.found
      <3>1. CASE loop' = LoopIdle
        BY <3>1, IdleTypes
      <3>2. CASE loop' = [loop EXCEPT !.pc = "saving",
                                      !.left = {p \in Processes : loop.snap[p] # None}]
        BY <3>2 DEF TypeInv, TypeOK
      <3> QED  BY <1>4, <3>1, <3>2 DEF BeginSave
    <2>2. UNCHANGED <<done, seen, history, hidden, unreached, zeroed>>
      BY <1>4 DEF BeginSave
    <2>3. \A q \in Processes, u \in Units : Times(q, u)' <= Times(q, u)
      BY <1>c, <2>1, <2>2
    <2> QED  BY <1>0, <1>a, <2>1, <2>2, <2>3, <1>e, UnitsKept
  <1>5. CASE EndSave
    <2>1. /\ \A q \in Processes : loop'.snap[q] = None /\ seen'[q] \in {None, seen[q]}
          /\ loop'.found = {} /\ UNCHANGED <<done, hidden, unreached, zeroed>>
      BY <1>5, IdleTypes DEF EndSave
    <2>2. \A q \in Processes, u \in Units : Times(q, u)' <= Times(q, u)
      <3>1. CASE UNCHANGED history
        BY <1>c, <2>1, <3>1
      <3>2. CASE history' = [x \in Processes \X Units |->
                                IF x \in loop.found THEN history[x] + 1 ELSE history[x]]
        <4>. SUFFICES ASSUME NEW q \in Processes, NEW u \in Units
                     PROVE  Times(q, u)' <= Times(q, u)
          OBVIOUS
        <4>1. /\ history[<<q, u>>] \in Nat /\ <<q, u>> \notin loop'.found
              /\ history'[<<q, u>>] = IF <<q, u>> \in loop.found THEN history[<<q, u>>] + 1
                                      ELSE history[<<q, u>>]
          BY <1>b, <2>1, <3>2
        <4> QED  BY <4>1 DEF Times
      <3> QED  BY <1>5, <3>1, <3>2 DEF EndSave
    <2> QED  BY <1>0, <1>a, <2>1, <2>2, <1>e, UnitsKept
  <1>6. CASE ClearRows
    <2>1. /\ UNCHANGED <<done, seen, loop, hidden, unreached, zeroed>>
          /\ \A q \in Processes, u \in Units : history'[<<q, u>>] = 0
      BY <1>6 DEF ClearRows
    <2>2. \A q \in Processes, u \in Units : Times(q, u)' <= Times(q, u)
      BY <1>c, <2>1
    <2> QED  BY <1>0, <1>a, <2>1, <2>2, <1>e, UnitsKept
  <1>7. ASSUME NEW readable, Restart(readable)
        PROVE  UnitsInv'
    <2>1. /\ \A q \in Processes : loop'.snap[q] = None /\ seen'[q] = None
          /\ loop'.found = {} /\ UNCHANGED <<done, history, hidden, unreached, zeroed>>
      BY <1>7, IdleTypes DEF Restart
    <2>2. \A q \in Processes, u \in Units : Times(q, u)' <= Times(q, u)
      BY <1>c, <2>1
    <2> QED  BY <1>0, <1>a, <2>1, <2>2, <1>e, UnitsKept
  <1>8. CASE ClearSeen
    <2>1. CASE Restart(Switches)
      BY <1>7, <2>1
    <2>2. CASE /\ seen' = [p \in Processes |-> None]
               /\ UNCHANGED <<done, loop, history, hidden, unreached, zeroed>>
      <3>1. \A q \in Processes, u \in Units : Times(q, u)' <= Times(q, u)
        BY <1>c, <2>2
      <3> QED  BY <1>0, <1>a, <2>2, <3>1, <1>e, UnitsKept
    <2> QED  BY <1>8, <2>1, <2>2 DEF ClearSeen
  <1>9. CASE RestartMonitor
    BY <1>7, <1>9 DEF RestartMonitor
  <1>10. ASSUME \/ UNCHANGED vars
                \/ \E s \in Switches : ReadThrough(s) \/ \E v \in BOOLEAN : Fill(s, v)
                \/ \E a \in Admins : \/ \E want \in Bodies : BeginPatch(a, want)
                                     \/ \E s \in Switches : ReadCurrent(a, s)
                                     \/ CommitSwitches(a) \/ CommitFails(a)
                                     \/ CacheSwitches(a)
                \/ \E p \in Processes : Exit(p)
         PROVE  UnitsInv'
    <2>1. UNCHANGED <<done, seen, loop, history, hidden, unreached, zeroed>>
      BY <1>10 DEF vars, io, ReadThrough, Fill, BeginPatch, ReadCurrent, CommitSwitches,
                   CommitFails, CacheSwitches, Exit
    <2> QED  BY <1>1, <2>1
  <1> QED  BY <1>0, <1>2, <1>3, <1>4, <1>5, <1>6, <1>8, <1>9, <1>10,
              SampleUnits, SaveUnits, NothingUnits DEF Next

-----------------------------------------------------------------------------
(* Switches.                                                               *)

\* A handler holds nothing when idle, and then what its body says.  Of a switch
\* for which no requests overlapped it has read what the table says, and what it
\* has committed is the table's.
HandlerOK(a, s) ==
    /\ admin[a].pc = "idle" => admin[a].next[s] = None
    /\ admin[a].want[s] # None => admin[a].next[s] = admin[a].want[s]
    /\ s \notin crossed => /\ admin[a].want[s] = None /\ admin[a].next[s] # None
                                  => admin[a].next[s] = table[s]
                           /\ admin[a].pc = "committed" => admin[a].next[s] = table[s]

\* What a GET handler is about to cache is the table's value.
FillOK(s) == s \notin crossed => \A v \in BOOLEAN : <<s, v>> \in fills => v = table[s]

SwitchesInv ==
    /\ SwitchesKept
    /\ \A s \in Switches : FillOK(s) /\ \A a \in Admins : HandlerOK(a, s)

\* Initially nobody holds anything and the cache is the table.
LEMMA SwitchesInit == Init => SwitchesInv
  <1>. SUFFICES ASSUME Init
               PROVE  SwitchesInv
    OBVIOUS
  <1>1. table = asked /\ cache = table /\ fills = {} /\ \A a \in Admins : admin[a] = AdminIdle
    BY DEF Init
  <1>2. \A s \in Switches : AdminIdle.want[s] = None
    BY DEF AdminIdle, Nothing
  <1>3. \A a \in Admins, s \in Switches : HandlerOK(a, s)
    BY <1>1, <1>2, IdleTypes DEF HandlerOK, AdminIdle, Nothing
  <1> QED  BY <1>1, <1>3 DEF SwitchesInv, SwitchesKept, FillOK

\* Reading a setting leaves the cache as it was, or with the table's value
\* (settingEnabled; a failed read caches nothing).
LEMMA SettingCached ==
    ASSUME TypeInv, NEW s \in Switches, NEW v \in BOOLEAN, SettingEnabled(s, v)
    PROVE  \A o \in Switches : cache'[o] \in {cache[o], table[o]}
  BY DEF SettingEnabled, TypeInv, TypeOK, Values

\* A PATCH reads a switch: for one with another value than the table's, or whose
\* table differs from what was asked for, requests overlapped.
LEMMA ReadKeepsSwitches ==
    ASSUME TypeInv, SwitchesInv, NEW b \in Admins, NEW r \in Switches, ReadCurrent(b, r)
    PROVE  SwitchesInv'
  <1>1. PICK v \in BOOLEAN :
           /\ SettingEnabled(r, v)
           /\ admin' = [admin EXCEPT ![b].next[r] = v]
           /\ crossed' = IF v = table[r] /\ v = asked[r] THEN crossed ELSE crossed \cup {r}
    BY DEF ReadCurrent
  <1>2. UNCHANGED <<table, fills, asked>> /\ admin[b].next[r] = None
    BY DEF ReadCurrent, NextToRead
  <1>3. \A o \in Switches : cache'[o] \in {cache[o], table[o]}
    BY <1>1, SettingCached
  <1>4. \A a \in Admins : /\ admin'[a].pc = admin[a].pc /\ admin'[a].want = admin[a].want
                          /\ \A o \in Switches :
                                admin'[a].next[o] = IF a = b /\ o = r THEN v
                                                    ELSE admin[a].next[o]
    BY <1>1 DEF TypeInv, TypeOK, Values
  <1>5. ASSUME NEW s \in Switches
        PROVE  FillOK(s)' /\ \A a \in Admins : HandlerOK(a, s)'
    <2>1. FillOK(s)'
      BY <1>1, <1>2 DEF SwitchesInv, FillOK
    <2>2. ASSUME NEW a \in Admins
          PROVE  HandlerOK(a, s)'
      <3>1. HandlerOK(a, s)
        BY DEF SwitchesInv
      <3>2. admin[b].pc = "reading" /\ v # None
        BY ResourceAssumption DEF ReadCurrent
      <3>3. CASE a = b /\ s = r
        BY <1>1, <1>2, <1>4, <3>1, <3>2, <3>3 DEF HandlerOK
      <3>4. CASE ~(a = b /\ s = r)
        BY <1>1, <1>2, <1>4, <3>1, <3>4 DEF HandlerOK
      <3> QED  BY <3>3, <3>4
    <2> QED  BY <2>1, <2>2
  <1>6. SwitchesKept'
    <2>. SUFFICES ASSUME NEW s \in Switches, s \notin crossed'
                 PROVE  /\ table'[s] = asked'[s]
                        /\ \/ cache'[s] \in {None, table'[s]}
                           \/ \E a \in Admins : admin'[a].pc = "committed"
      BY DEF SwitchesKept
    <2>1. s \notin crossed
      BY <1>1
    <2> QED  BY <1>2, <1>3, <1>4, <2>1 DEF SwitchesInv, SwitchesKept
  <1> QED  BY <1>5, <1>6 DEF SwitchesInv

\* A PATCH commits: the switches in its body get the values asked for, and the
\* others keep the table's, unless another request comes between.
LEMMA CommitKeepsSwitches ==
    ASSUME TypeInv, SwitchesInv, NEW b \in Admins, CommitSwitches(b)
    PROVE  SwitchesInv'
  <1>1. /\ admin[b].pc = "reading" /\ \A s \in Switches : admin[b].next[s] # None
        /\ table' = admin[b].next
        /\ admin' = [admin EXCEPT ![b].pc = "committed"]
        /\ asked' = [s \in Switches |-> IF admin[b].want[s] = None THEN asked[s]
                                                             ELSE admin[b].want[s]]
        /\ UNCHANGED <<cache, fills>>
    BY DEF CommitSwitches
  <1>2. ASSUME NEW s \in Switches, s \notin crossed'
        PROVE  /\ s \notin crossed
               /\ \A a \in Admins \ {b} : /\ admin[a].pc # "committed"
                                         /\ \/ admin[a].pc = "idle"
                                            \/ admin[a].want[s] # None
                                            \/ admin[a].next[s] = None
               /\ \A v \in BOOLEAN : <<s, v>> \notin fills
    BY <1>2 DEF CommitSwitches, Others
  <1>3. \A a \in Admins : /\ admin'[a].pc = IF a = b THEN "committed" ELSE admin[a].pc
                          /\ admin'[a].want = admin[a].want /\ admin'[a].next = admin[a].next
    BY <1>1 DEF TypeInv, TypeOK
  <1>4. ASSUME NEW s \in Switches, NEW a \in Admins
        PROVE  HandlerOK(a, s)'
    <2>1. HandlerOK(a, s)
      BY DEF SwitchesInv
    <2>2. CASE a = b
      BY <1>1, <1>3, <2>1, <2>2 DEF HandlerOK
    <2>3. CASE a # b
      BY <1>1, <1>2, <1>3, <2>1, <2>3 DEF HandlerOK
    <2> QED  BY <2>2, <2>3
  <1>5. \A s \in Switches : FillOK(s)'
    BY <1>1, <1>2 DEF FillOK
  <1>6. ASSUME NEW s \in Switches, s \notin crossed'
        PROVE  table'[s] = asked'[s]
    <2>1. HandlerOK(b, s) /\ s \notin crossed
      BY <1>2, <1>6 DEF SwitchesInv
    <2>2. table[s] = asked[s]
      BY <2>1 DEF SwitchesInv, SwitchesKept
    <2> QED  BY <1>1, <2>1, <2>2 DEF HandlerOK
  <1>7. admin'[b].pc = "committed"
    BY <1>3
  <1> QED  BY <1>4, <1>5, <1>6, <1>7 DEF SwitchesInv, SwitchesKept

\* Every step keeps SwitchesInv.
LEMMA SwitchesStep == TypeInv /\ SwitchesInv /\ [Next]_vars => SwitchesInv'
  <1>. SUFFICES ASSUME TypeInv, SwitchesInv, [Next]_vars
               PROVE  SwitchesInv'
    OBVIOUS
  <1>1. CASE UNCHANGED <<table, cache, fills, admin, asked, crossed>>
    BY <1>1 DEF SwitchesInv, SwitchesKept, FillOK, HandlerOK
  <1>2. ASSUME NEW r \in Switches, ReadThrough(r)
        PROVE  SwitchesInv'
    <2>1. /\ fills' = fills \cup {<<r, table[r]>>}
          /\ UNCHANGED <<table, cache, admin, asked, crossed>>
      BY <1>2 DEF ReadThrough
    <2> QED  BY <2>1 DEF SwitchesInv, SwitchesKept, FillOK, HandlerOK
  <1>3. ASSUME NEW r \in Switches, NEW w \in BOOLEAN, Fill(r, w)
        PROVE  SwitchesInv'
    <2>1. /\ <<r, w>> \in fills /\ fills' = fills \ {<<r, w>>}
          /\ \A s \in Switches : cache'[s] = IF s = r THEN w ELSE cache[s]
          /\ UNCHANGED <<table, admin, asked, crossed>>
      BY <1>3 DEF Fill, TypeInv, TypeOK, Values
    <2>2. r \notin crossed => w = table[r]
      BY <2>1 DEF SwitchesInv, FillOK
    <2>3. SwitchesKept'
      BY <2>1, <2>2 DEF SwitchesInv, SwitchesKept
    <2> QED  BY <2>1, <2>3 DEF SwitchesInv, FillOK, HandlerOK
  <1>4. ASSUME NEW b \in Admins, NEW want \in Bodies, BeginPatch(b, want)
        PROVE  SwitchesInv'
    <2>1. /\ admin[b].pc = "idle" /\ UNCHANGED <<table, cache, fills, asked, crossed>>
          /\ \A a \in Admins : admin'[a] = IF a = b THEN [pc |-> "reading", want |-> want,
                                                          next |-> want]
                                                    ELSE admin[a]
      BY <1>4 DEF BeginPatch, TypeInv, TypeOK
    <2>2. ASSUME NEW a \in Admins, NEW s \in Switches
          PROVE  HandlerOK(a, s)'
      <3>1. CASE a = b
        BY <2>1, <3>1 DEF HandlerOK
      <3>2. CASE a # b
        BY <2>1, <3>2 DEF SwitchesInv, HandlerOK
      <3> QED  BY <3>1, <3>2
    <2>3. SwitchesKept'
      BY <2>1 DEF SwitchesInv, SwitchesKept
    <2> QED  BY <2>1, <2>2, <2>3 DEF SwitchesInv, FillOK
  <1>5. ASSUME NEW b \in Admins, CommitFails(b) \/ CacheSwitches(b)
        PROVE  SwitchesInv'
    <2>1. /\ UNCHANGED <<table, fills, asked, crossed>>
          /\ \A a \in Admins : admin'[a] = IF a = b THEN AdminIdle ELSE admin[a]
          /\ \/ admin[b].pc = "reading" /\ cache' = cache
             \/ admin[b].pc = "committed" /\ cache' = admin[b].next
      BY <1>5 DEF CommitFails, CacheSwitches, TypeInv, TypeOK
    <2>2. ASSUME NEW a \in Admins, NEW s \in Switches
          PROVE  HandlerOK(a, s)'
      <3>1. CASE a = b
        <4>1. admin'[a] = AdminIdle /\ AdminIdle.want[s] = None /\ AdminIdle.next[s] = None
          BY <2>1, <3>1 DEF AdminIdle, Nothing
        <4> QED  BY <4>1, IdleTypes DEF HandlerOK
      <3>2. CASE a # b
        BY <2>1, <3>2 DEF SwitchesInv, HandlerOK
      <3> QED  BY <3>1, <3>2
    <2>3. ASSUME NEW s \in Switches, s \notin crossed'
          PROVE  /\ table'[s] = asked'[s]
                 /\ \/ cache'[s] \in {None, table'[s]}
                    \/ \E a \in Admins : admin'[a].pc = "committed"
      <3>1. /\ table[s] = asked[s] /\ HandlerOK(b, s) /\ s \notin crossed
            /\ cache[s] \in {None, table[s]} \/ \E a \in Admins : admin[a].pc = "committed"
        BY <2>1, <2>3 DEF SwitchesInv, SwitchesKept
      <3>2. CASE admin[b].pc = "reading" /\ cache' = cache
        <4>1. \A a \in Admins : admin[a].pc = "committed" => admin'[a].pc = "committed"
          BY <2>1, <3>2
        <4> QED  BY <2>1, <3>1, <3>2, <4>1
      <3>3. CASE admin[b].pc = "committed" /\ cache' = admin[b].next
        BY <2>1, <3>1, <3>3 DEF HandlerOK
      <3> QED  BY <2>1, <3>2, <3>3
    <2> QED  BY <2>1, <2>2, <2>3 DEF SwitchesInv, SwitchesKept, FillOK
  <1>6. ASSUME NEW r \in Switches, ReadSwitch(r)
        PROVE  SwitchesInv'
    <2>1. PICK v \in BOOLEAN : SettingEnabled(r, v)
      BY <1>6 DEF ReadSwitch
    <2>2. UNCHANGED <<table, fills, admin, asked, crossed>>
      BY <1>6 DEF ReadSwitch
    <2>3. \A o \in Switches : cache'[o] \in {cache[o], table[o]}
      BY <2>1, SettingCached
    <2> QED  BY <2>2, <2>3 DEF SwitchesInv, SwitchesKept, FillOK, HandlerOK
  <1>7. ASSUME NEW readable, Restart(readable)
        PROVE  SwitchesInv'
    <2>1. /\ UNCHANGED <<table, asked, crossed>> /\ fills' = {}
          /\ \A s \in Switches : cache'[s] \in {None, table[s]}
          /\ \A a \in Admins : admin'[a] = AdminIdle
      BY <1>7 DEF Restart
    <2>2. ASSUME NEW a \in Admins, NEW s \in Switches
          PROVE  HandlerOK(a, s)'
      <3>1. admin'[a] = AdminIdle /\ AdminIdle.want[s] = None /\ AdminIdle.next[s] = None
        BY <2>1 DEF AdminIdle, Nothing
      <3> QED  BY <3>1, IdleTypes DEF HandlerOK
    <2> QED  BY <2>1, <2>2 DEF SwitchesInv, SwitchesKept, FillOK
  <1>8. CASE ClearSeen \/ RestartMonitor
    BY <1>1, <1>7, <1>8 DEF ClearSeen, RestartMonitor, settings
  <1>9. ASSUME \/ UNCHANGED vars
               \/ \E p \in Processes : DoIO(p) \/ Exit(p) \/ SaveProcess(p)
               \/ Sample \/ NothingEnabled \/ BeginSave \/ EndSave \/ ClearRows
        PROVE  SwitchesInv'
    <2>1. UNCHANGED settings
      BY <1>9 DEF vars, DoIO, Exit, SaveProcess, Sample, NothingEnabled, BeginSave, EndSave,
                  ClearRows
    <2> QED  BY <1>1, <2>1 DEF settings
  <1> QED  BY <1>2, <1>3, <1>4, <1>5, <1>6, <1>8, <1>9,
              ReadKeepsSwitches, CommitKeepsSwitches DEF Next

-----------------------------------------------------------------------------
(* The theorems about processes and switches.                              *)

\* In every state the variables have their types, what a pass holds is consistent
\* (SaveProcessResources), and both halves of the invariant hold.
THEOREM ResourceInvariant == Spec => [](TypeInv /\ UnitsInv /\ SwitchesInv)
  <1>1. Init => TypeInv /\ UnitsInv /\ SwitchesInv
    BY TypeInit, UnitsInit, SwitchesInit
  <1>2. TypeInv /\ UnitsInv /\ SwitchesInv /\ [Next]_vars
          => (TypeInv /\ UnitsInv /\ SwitchesInv)'
    BY TypeStep, UnitsStep, SwitchesStep
  <1> QED  BY <1>1, <1>2, PTL DEF Spec

\* No I/O of a process is in the history twice, but once more for each time its
\* counter was read as zero, whatever transactions are rolled back and whenever
\* the baselines are cleared beside the loop (SaveProcessResources, clear(s.ioSeen)).
THEOREM IOIsCountedOnce == Spec => []CountedOnce
  <1>1. TypeInv /\ UnitsInv => CountedOnce
    <2>. SUFFICES ASSUME TypeInv, UnitsInv, NEW p \in Processes, NEW u \in Units
                 PROVE  history[<<p, u>>] <= 1 + zeroed[p]
      BY DEF CountedOnce, TypeInv
    <2>1. CountedOK(p, u)
      BY DEF UnitsInv
    <2>2. history[<<p, u>>] \in Nat /\ zeroed[p] \in Nat
      BY DEF TypeInv, TypeOK
    <2> QED  BY <2>1, <2>2 DEF CountedOK, Times
  <1> QED  BY <1>1, ResourceInvariant, PTL

\* I/O that a pass saw while disk collection was off is not recorded later, however
\* the switches are turned, once a pass with the switch off has moved the baseline
\* past it (SaveProcessResources does so in any case).
THEOREM IOWhileOffIsLeftOut == Spec => []OffIsNotCounted
  <1>1. TypeInv /\ UnitsInv => OffIsNotCounted
    <2>. SUFFICES ASSUME TypeInv, UnitsInv, NEW x \in hidden \ unreached, history[x] > 0
                 PROVE  zeroed[x[1]] > 0
      BY DEF OffIsNotCounted
    <2>1. PICK p \in Processes, u \in Units : x = <<p, u>>
      BY DEF TypeInv, TypeOK
    <2>2. HiddenOK(p, u)
      BY DEF UnitsInv
    <2>3. history[<<p, u>>] \in Nat /\ zeroed[p] \in Nat
      BY DEF TypeInv, TypeOK
    <2> QED  BY <2>1, <2>2, <2>3 DEF HiddenOK, Times, Reached
  <1> QED  BY <1>1, ResourceInvariant, PTL

\* A switch keeps the value that the last PATCH which named it gave it, unless
\* requests overlapped (networkSettings, SetHistoryCollectors).
THEOREM SwitchesHold == Spec => []SwitchesKept
  <1>1. SwitchesInv => SwitchesKept
    BY DEF SwitchesInv
  <1> QED  BY <1>1, ResourceInvariant, PTL

-----------------------------------------------------------------------------
(* Metrics and watches: buckets and types.                                 *)

\* Multiples of the width are ordered as their factors are.
LEMMA Factors ==
    ASSUME NEW w \in Nat \ {0}, NEW a \in Nat, NEW b \in Nat, a * w < b * w + w
    PROVE  a <= b /\ a * w <= b * w
  <1>1. ASSUME NEW i \in Nat, NEW j \in Nat, i <= j
        PROVE  i * w <= j * w
    <2>1. PICK k \in Nat : j = i + k
      <3>1. j - i \in Nat /\ j = i + (j - i)
        BY <1>1
      <3> QED  BY <3>1
    <2>2. j * w = i * w + k * w /\ k * w \in Nat /\ i * w \in Nat
      BY <2>1
    <2> QED  BY <2>2
  <1>2. ASSUME b + 1 <= a
        PROVE  FALSE
    <2>1. (b + 1) * w <= a * w
      BY <1>1, <1>2
    <2>2. (b + 1) * w = b * w + w /\ b * w \in Nat /\ a * w \in Nat
      OBVIOUS
    <2> QED  BY <2>1, <2>2
  <1> QED  BY <1>1, <1>2

\* A bucket begins at or before its samples and ends Width later (the division in
\* RollupAndPrune).
LEMMA BucketBounds ==
    ASSUME NEW t \in Nat
    PROVE  /\ Retention!Bucket(t) \in Nat
           /\ Retention!Bucket(t) <= t /\ t < Retention!Bucket(t) + Width
  <1>1. Width \in Nat \ {0}
    BY RetentionAssumption
  <1>2. t \div Width \in Nat
    BY <1>1
  <1>3. Width * (t \div Width) <= t /\ t < Width * (t \div Width) + Width
    BY <1>1
  <1>4. (t \div Width) * Width = Width * (t \div Width) /\ (t \div Width) * Width \in Nat
    BY <1>1, <1>2
  <1> QED  BY <1>1, <1>3, <1>4 DEF Retention!Bucket

\* Buckets are ordered as their samples are, and a time in a bucket has that bucket.
LEMMA BucketOrder ==
    ASSUME NEW s \in Nat, NEW t \in Nat, s <= t
    PROVE  /\ Retention!Bucket(s) <= Retention!Bucket(t)
           /\ t < Retention!Bucket(s) + Width => Retention!Bucket(t) = Retention!Bucket(s)
  <1>1. Width \in Nat \ {0} /\ s \div Width \in Nat /\ t \div Width \in Nat
    BY RetentionAssumption
  <1>2. /\ Retention!Bucket(s) \in Nat /\ Retention!Bucket(t) \in Nat
        /\ Retention!Bucket(s) < Retention!Bucket(t) + Width
        /\ Retention!Bucket(t) <= t
    BY <1>1, BucketBounds
  <1>3. Retention!Bucket(s) <= Retention!Bucket(t)
    BY <1>1, <1>2, Factors DEF Retention!Bucket
  <1>4. ASSUME t < Retention!Bucket(s) + Width
        PROVE  Retention!Bucket(t) <= Retention!Bucket(s)
    <2>1. Retention!Bucket(t) < Retention!Bucket(s) + Width
      BY <1>1, <1>2, <1>4
    <2> QED  BY <1>1, <2>1, Factors DEF Retention!Bucket
  <1> QED  BY <1>2, <1>3, <1>4

\* A bucket's own start is in it.
LEMMA BucketOfBucket ==
    ASSUME NEW t \in Nat
    PROVE  Retention!Bucket(Retention!Bucket(t)) = Retention!Bucket(t)
  <1>1. /\ Retention!Bucket(t) \in Nat /\ Retention!Bucket(t) <= t
        /\ Retention!Bucket(Retention!Bucket(t)) <= Retention!Bucket(t)
        /\ Retention!Bucket(t) < Retention!Bucket(Retention!Bucket(t)) + Width
        /\ Retention!Bucket(Retention!Bucket(t)) \in Nat
    BY BucketBounds
  <1>2. /\ Width \in Nat \ {0}
        /\ t \div Width \in Nat /\ Retention!Bucket(t) \div Width \in Nat
    BY <1>1, RetentionAssumption
  <1>3. Retention!Bucket(t) <= Retention!Bucket(Retention!Bucket(t))
    BY <1>1, <1>2, Factors DEF Retention!Bucket
  <1> QED  BY <1>1, <1>3

\* The samples that a rollup takes into the row of a bucket.
Group(b) == {t \in Retention!Old : Retention!Bucket(t) = b}

\* A rollup puts the rows of the buckets of old samples in the place of those that
\* were there (INSERT OR REPLACE in RollupAndPrune).
LEMMA RollUpRows ==
    ASSUME Retention!RollUp(Retention!Old)
    PROVE  /\ DOMAIN rollups' = DOMAIN rollups \cup {Retention!Bucket(t) : t \in Retention!Old}
           /\ \A b \in DOMAIN rollups' :
                 rollups'[b] = IF Group(b) = {} THEN rollups[b]
                                                ELSE [t \in Group(b) |-> metrics[t]]
  BY DEF Retention!RollUp, Retention!Row, Retention!Restrict, Group

\* Above the quota some raw samples and some rows are deleted (the end of RollupAndPrune).
LEMMA Evictions ==
    ASSUME Retention!KeepQuota
    PROVE  \E raw, old :
             /\ raw \subseteq DOMAIN metrics /\ old \subseteq DOMAIN rollups
             /\ metrics' = [t \in DOMAIN metrics \ raw |-> metrics[t]]
             /\ rollups' = [b \in DOMAIN rollups \ old |-> rollups[b]]
             /\ evicted' = evicted \cup raw \cup UNION {DOMAIN rollups[b] : b \in old}
             /\ undeleted' = undeleted \ raw
  <1>1. PICK raw \in {{}, Retention!Oldest(DOMAIN metrics, EvictRaw)},
             old \in {{}, Retention!Oldest(DOMAIN rollups, EvictRollups)} :
           /\ metrics' = [t \in DOMAIN metrics \ raw |-> metrics[t]]
           /\ rollups' = [b \in DOMAIN rollups \ old |-> rollups[b]]
           /\ evicted' = evicted \cup raw \cup UNION {DOMAIN rollups[b] : b \in old}
           /\ undeleted' = undeleted \ raw
    BY DEF Retention!KeepQuota, Retention!Restrict
  <1>2. raw \subseteq DOMAIN metrics /\ old \subseteq DOMAIN rollups
    BY DEF Retention!Oldest
  <1> QED  BY <1>1, <1>2

\* The deletion of old rows, when it does not fail.
Recent(b) == Retention!Bucket(b) + RollupRetention >= now

RowsGo ==
    /\ rollups' = [b \in {x \in DOMAIN rollups : Recent(x)} |-> rollups[b]]
    /\ saved' = {t \in saved : Recent(t)} /\ cutoffs' = {t \in cutoffs : Recent(t)}
    /\ evicted' = {t \in evicted : Recent(t)}

\* Old rows are deleted with all that is noted of them, or nothing is (the ignored
\* error of the DELETE in RollupAndPrune).
LEMMA OldRows ==
    ASSUME Retention!DeleteOld
    PROVE  RowsGo \/ UNCHANGED <<rollups, saved, cutoffs, evicted>>
  BY DEF Retention!DeleteOld, Retention!Restrict, RowsGo, Recent

\* The steps of a pass.
Steps == [pc : {"idle", "watches", "insert", "maintain", "delete raw", "delete old", "quota"},
          read : SUBSET Watches]

\* A row of the bucket b.
RowOf(b, row) == /\ row \in [DOMAIN row -> Rates]
                 /\ DOMAIN row \subseteq Retention!Times /\ DOMAIN row # {}
                 /\ \A t \in DOMAIN row : Retention!Bucket(t) = b

\* The parts of the types: of the tables of samples, of their observations, and
\* of what passes and administrators hold.
SamplesTyped ==
    /\ now \in Retention!Times
    /\ metrics \in [DOMAIN metrics -> Rates] /\ DOMAIN metrics \subseteq Retention!Times
    /\ \A b \in DOMAIN rollups : RowOf(b, rollups[b])
    /\ saved \subseteq Retention!Times /\ evicted \subseteq Retention!Times
    /\ undeleted \subseteq Retention!Times /\ cutoffs \subseteq Retention!Times

PassTyped ==
    /\ DOMAIN watches \subseteq Watches /\ watches \in [DOMAIN watches -> BOOLEAN]
    /\ watchMetrics \subseteq Watches \X Retention!Times
    /\ owed \subseteq Watches \X Retention!Times
    /\ lost \subseteq Retention!Times
    /\ full \in BOOLEAN /\ pass \in Steps
    /\ lastPersist \in Retention!Times \cup {None}
    /\ lastCleanup \in Retention!Times \cup {None}

\* The parts make up the type invariant, before a step and after it.
LEMMA RetentionParts ==
    /\ Retention!TypeOK <=> SamplesTyped /\ PassTyped
    /\ Retention!TypeOK' <=> SamplesTyped' /\ PassTyped'
  <1>1. Retention!TypeOK <=> SamplesTyped /\ PassTyped
    BY DEF Retention!TypeOK, SamplesTyped, PassTyped, Steps, RowOf
  <1>2. Retention!TypeOK' <=> SamplesTyped' /\ PassTyped'
    BY DEF Retention!TypeOK, SamplesTyped, PassTyped, Steps, RowOf
  <1> QED  BY <1>1, <1>2

\* Initially the history is empty.
LEMMA RetentionInit == Retention!Init => Retention!TypeOK
  <1>. SUFFICES ASSUME Retention!Init PROVE Retention!TypeOK
    OBVIOUS
  <1>1. now \in Retention!Times
    BY RetentionAssumption DEF Retention!Init, Retention!Times
  <1>2. Retention!Idle \in Steps
    BY DEF Retention!Idle, Steps
  <1>3. DOMAIN metrics = {} /\ DOMAIN rollups = {} /\ DOMAIN watches = {}
    BY DEF Retention!Init
  <1>4. metrics \in [{} -> Rates] /\ watches \in [{} -> BOOLEAN]
    BY DEF Retention!Init
  <1> QED  BY <1>1, <1>2, <1>3, <1>4, RetentionParts DEF Retention!Init, SamplesTyped, PassTyped

\* The clock stays within its bound, and so does the raw cutoff.
LEMMA TimesKept ==
    ASSUME now \in Retention!Times
    PROVE  /\ Retention!Tick => now' \in Retention!Times
           /\ now > RawRetention => now - RawRetention \in Retention!Times
  <1>1. MaxTime \in Nat /\ RawRetention \in Nat /\ now \in 0..MaxTime
    BY RetentionAssumption DEF Retention!Times
  <1>2. ASSUME Retention!Tick
        PROVE  now' \in 0..MaxTime
    BY <1>1, <1>2 DEF Retention!Tick
  <1>3. now > RawRetention => now - RawRetention \in 0..MaxTime
    BY <1>1
  <1> QED  BY <1>2, <1>3 DEF Retention!Times

\* Every step keeps the types of the samples.
LEMMA SamplesStep ==
    ASSUME SamplesTyped, Retention!Next \/ UNCHANGED Retention!vars
    PROVE  SamplesTyped'
  <1>1. Retention!Times' = Retention!Times /\ Retention!Old \subseteq DOMAIN metrics
    BY DEF Retention!Times, Retention!Old
  <1>2. CASE UNCHANGED <<now, metrics, rollups, saved, evicted, undeleted, cutoffs>>
    BY <1>1, <1>2 DEF SamplesTyped
  <1>3. CASE Retention!Tick
    <2>1. UNCHANGED <<metrics, rollups, saved, evicted, undeleted, cutoffs>>
      BY <1>3 DEF Retention!Tick, Retention!history
    <2> QED  BY <1>1, <1>3, <2>1, TimesKept DEF SamplesTyped
  <1>4. CASE Retention!RestartMonitor \/ Retention!DeleteRaw
    <2>1. UNCHANGED <<now, rollups, saved, evicted, cutoffs>>
      BY <1>4 DEF Retention!RestartMonitor, Retention!DeleteRaw, Retention!times
    <2>2. undeleted' \subseteq undeleted \cup Retention!Old
      BY <1>4 DEF Retention!RestartMonitor, Retention!DeleteRaw
    <2>3. metrics' = metrics \/ metrics' = [t \in DOMAIN metrics \ Retention!Old |-> metrics[t]]
      BY <1>4 DEF Retention!RestartMonitor, Retention!DeleteRaw, Retention!Restrict
    <2>4. metrics' \in [DOMAIN metrics' -> Rates] /\ DOMAIN metrics' \subseteq DOMAIN metrics
      BY <2>3 DEF SamplesTyped
    <2> QED  BY <1>1, <2>1, <2>2, <2>4 DEF SamplesTyped
  <1>5. ASSUME NEW rate \in Rates, Retention!SaveMetric(rate)
        PROVE  SamplesTyped'
    <2>1. UNCHANGED <<now, rollups, evicted, undeleted, cutoffs>>
      BY <1>5 DEF Retention!SaveMetric, Retention!times
    <2>2. \/ UNCHANGED <<metrics, saved>>
          \/ /\ metrics' = [t \in DOMAIN metrics \cup {now} |->
                              IF t = now THEN rate ELSE metrics[t]]
             /\ saved' = saved \cup {now}
      BY <1>5 DEF Retention!SaveMetric
    <2>3. /\ metrics' \in [DOMAIN metrics' -> Rates]
          /\ DOMAIN metrics' \subseteq DOMAIN metrics \cup {now}
          /\ saved' \subseteq saved \cup {now}
      BY <2>2 DEF SamplesTyped
    <2> QED  BY <1>1, <2>1, <2>3 DEF SamplesTyped
  <1>6. CASE Retention!Rollup
    <2>1. UNCHANGED <<now, metrics, saved, evicted, undeleted>>
      BY <1>6 DEF Retention!Rollup, Retention!times
    <2>2. ASSUME NEW b \in DOMAIN rollups'
          PROVE  RowOf(b, rollups'[b])
      <3>1. rollups'[b] = IF Group(b) = {} THEN rollups[b] ELSE [t \in Group(b) |-> metrics[t]]
        BY <1>6, RollUpRows DEF Retention!Rollup
      <3>2. CASE Group(b) = {}
        <4>1. DOMAIN rollups' = DOMAIN rollups \cup {Retention!Bucket(t) : t \in Retention!Old}
          BY <1>6, RollUpRows DEF Retention!Rollup
        <4>2. b \in DOMAIN rollups
          BY <3>2, <4>1 DEF Group
        <4> QED  BY <3>1, <3>2, <4>2 DEF SamplesTyped
      <3>3. CASE Group(b) # {}
        <4>1. Group(b) \subseteq DOMAIN metrics /\ \A t \in Group(b) : Retention!Bucket(t) = b
          BY <1>1 DEF Group
        <4>2. /\ DOMAIN rollups'[b] = Group(b)
              /\ rollups'[b] \in [Group(b) -> Rates]
          BY <3>1, <3>3, <4>1 DEF SamplesTyped
        <4> QED  BY <3>3, <4>1, <4>2 DEF RowOf, SamplesTyped
      <3> QED  BY <3>2, <3>3
    <2>3. cutoffs' \subseteq Retention!Times
      BY <1>6, TimesKept DEF Retention!Rollup, SamplesTyped
    <2> QED  BY <1>1, <2>1, <2>2, <2>3 DEF SamplesTyped
  <1>7. CASE Retention!DeleteOld
    <2>1. UNCHANGED <<now, metrics, undeleted>>
      BY <1>7 DEF Retention!DeleteOld, Retention!times
    <2>2. saved' \subseteq saved /\ cutoffs' \subseteq cutoffs /\ evicted' \subseteq evicted
      BY <1>7, OldRows DEF RowsGo
    <2>3. \A b \in DOMAIN rollups' : b \in DOMAIN rollups /\ rollups'[b] = rollups[b]
      BY <1>7, OldRows DEF RowsGo
    <2> QED  BY <1>1, <2>1, <2>2, <2>3 DEF SamplesTyped
  <1>8. CASE Retention!KeepQuota
    <2>1. PICK raw, old :
             /\ raw \subseteq DOMAIN metrics /\ old \subseteq DOMAIN rollups
             /\ metrics' = [t \in DOMAIN metrics \ raw |-> metrics[t]]
             /\ rollups' = [b \in DOMAIN rollups \ old |-> rollups[b]]
             /\ evicted' = evicted \cup raw \cup UNION {DOMAIN rollups[b] : b \in old}
             /\ undeleted' = undeleted \ raw
      BY <1>8, Evictions
    <2>2. UNCHANGED <<now, saved, cutoffs>>
      BY <1>8 DEF Retention!KeepQuota
    <2>3. evicted' \subseteq Retention!Times
      BY <2>1 DEF SamplesTyped, RowOf
    <2>4. metrics' \in [DOMAIN metrics' -> Rates] /\ DOMAIN metrics' \subseteq DOMAIN metrics
      BY <2>1 DEF SamplesTyped
    <2>5. \A b \in DOMAIN rollups' : b \in DOMAIN rollups /\ rollups'[b] = rollups[b]
      BY <2>1
    <2>6. undeleted' \subseteq undeleted
      BY <2>1
    <2> QED  BY <1>1, <2>2, <2>3, <2>4, <2>5, <2>6 DEF SamplesTyped
  <1>9. ASSUME \/ Retention!FileGrows \/ Retention!FileShrinks \/ UNCHANGED Retention!vars
               \/ \E w \in Watches : \/ Retention!DeleteWatch(w)
                                     \/ \E enabled \in BOOLEAN : Retention!PutWatch(w, enabled)
               \/ Retention!ReadWatches \/ Retention!SaveWatchMetrics
               \/ Retention!NoPrune \/ Retention!RollupFails
        PROVE  UNCHANGED <<now, metrics, rollups, saved, evicted, undeleted, cutoffs>>
    BY <1>9 DEF Retention!FileGrows, Retention!FileShrinks, Retention!vars, Retention!DeleteWatch, Retention!PutWatch,
                Retention!ReadWatches, Retention!SaveWatchMetrics, Retention!NoPrune,
                Retention!RollupFails, Retention!times, Retention!history
  <1> QED  BY <1>2, <1>3, <1>4, <1>5, <1>6, <1>7, <1>8, <1>9 DEF Retention!Next

\* Every step keeps the types of what passes and administrators hold.
LEMMA PassStep ==
    ASSUME SamplesTyped, PassTyped, Retention!Next \/ UNCHANGED Retention!vars
    PROVE  PassTyped'
  <1>1. Retention!Times' = Retention!Times /\ now \in Retention!Times
    BY DEF Retention!Times, SamplesTyped
  <1>2. /\ Retention!Idle \in Steps
        /\ \A at \in {"watches", "maintain", "delete raw", "delete old", "quota"} :
              [pass EXCEPT !.pc = at] \in Steps /\ [Retention!Idle EXCEPT !.pc = at] \in Steps
    BY DEF Retention!Idle, Steps, PassTyped
  <1>3. ASSUME NEW w \in Watches, Retention!DeleteWatch(w)
        PROVE  PassTyped'
    <2>1. /\ watches' = [v \in DOMAIN watches \ {w} |-> watches[v]]
          /\ watchMetrics' \subseteq watchMetrics /\ owed' \subseteq owed
          /\ lost' \subseteq lost \cup {now}
          /\ UNCHANGED <<full, pass, lastPersist, lastCleanup>>
      BY <1>3 DEF Retention!DeleteWatch, Retention!Without, Retention!Restrict, Retention!times
    <2>2. DOMAIN watches' \subseteq Watches /\ watches' \in [DOMAIN watches' -> BOOLEAN]
      BY <2>1 DEF PassTyped
    <2> QED  BY <1>1, <2>1, <2>2 DEF PassTyped
  <1>4. ASSUME NEW w \in Watches, NEW enabled \in BOOLEAN, Retention!PutWatch(w, enabled)
        PROVE  PassTyped'
    <2>1. /\ watches' = [v \in DOMAIN watches \cup {w} |-> IF v = w THEN enabled ELSE watches[v]]
          /\ UNCHANGED <<watchMetrics, owed, lost, full, pass, lastPersist, lastCleanup>>
      BY <1>4 DEF Retention!PutWatch, Retention!times
    <2>2. DOMAIN watches' \subseteq Watches /\ watches' \in [DOMAIN watches' -> BOOLEAN]
      BY <2>1 DEF PassTyped
    <2> QED  BY <1>1, <2>1, <2>2 DEF PassTyped
  <1>5. CASE Retention!ReadWatches
    <2>1. UNCHANGED <<watches, watchMetrics, full, lastCleanup>> /\ lastPersist' \in {lastPersist, now}
      BY <1>5 DEF Retention!ReadWatches
    <2>2. PICK enabled \in SUBSET DOMAIN watches :
             /\ \/ pass' = [pc |-> "insert", read |-> enabled]
                \/ pass' = [Retention!Idle EXCEPT !.pc = "maintain"]
             /\ owed' = owed \cup (enabled \X {now}) /\ lost' \subseteq lost \cup {now}
      BY <1>5 DEF Retention!ReadWatches
    <2>3. [pc |-> "insert", read |-> enabled] \in Steps
      BY DEF PassTyped, Steps
    <2>4. pass' \in Steps /\ owed' \subseteq Watches \X Retention!Times
      BY <1>1, <1>2, <2>2, <2>3 DEF PassTyped
    <2> QED  BY <1>1, <2>1, <2>2, <2>4 DEF PassTyped
  <1>6. CASE Retention!SaveWatchMetrics
    <2>1. UNCHANGED <<watches, owed, full, lastCleanup>> /\ lastPersist' = now /\ pass' \in Steps
      BY <1>2, <1>6 DEF Retention!SaveWatchMetrics
    <2>2. /\ watchMetrics' \subseteq watchMetrics \cup (pass.read \X {now})
          /\ lost' \subseteq lost \cup {now}
      BY <1>6 DEF Retention!SaveWatchMetrics
    <2>3. pass.read \X {now} \subseteq Watches \X Retention!Times
      BY <1>1 DEF PassTyped, Steps
    <2> QED  BY <1>1, <2>1, <2>2, <2>3 DEF PassTyped
  <1>7. CASE Retention!DeleteOld
    <2>1. watchMetrics' \subseteq watchMetrics /\ owed' \subseteq owed /\ lost' \subseteq lost
      BY <1>7 DEF Retention!DeleteOld
    <2>2. UNCHANGED <<watches, full, lastPersist, lastCleanup>> /\ pass' \in Steps
      BY <1>2, <1>7 DEF Retention!DeleteOld, Retention!times
    <2> QED  BY <1>1, <2>1, <2>2 DEF PassTyped
  <1>8. ASSUME \/ Retention!Tick \/ Retention!FileGrows \/ Retention!FileShrinks \/ Retention!RestartMonitor
               \/ \E rate \in Rates : Retention!SaveMetric(rate)
               \/ Retention!NoPrune \/ Retention!Rollup \/ Retention!RollupFails
               \/ Retention!DeleteRaw \/ Retention!KeepQuota \/ UNCHANGED Retention!vars
        PROVE  PassTyped'
    <2>1. UNCHANGED <<watches, watchMetrics, owed>> /\ lost' \subseteq lost \cup {now}
      BY <1>8 DEF Retention!Tick, Retention!FileGrows, Retention!FileShrinks, Retention!RestartMonitor,
                  Retention!SaveMetric, Retention!NoPrune, Retention!Rollup, Retention!RollupFails,
                  Retention!DeleteRaw, Retention!KeepQuota, Retention!vars, Retention!watched
    <2>2. full' \in BOOLEAN /\ pass' \in Steps
      BY <1>2, <1>8 DEF Retention!Tick, Retention!FileGrows, Retention!FileShrinks, Retention!RestartMonitor, PassTyped,
                  Retention!SaveMetric, Retention!NoPrune, Retention!Rollup, Retention!RollupFails,
                  Retention!DeleteRaw, Retention!KeepQuota, Retention!vars
    <2>3. lastPersist' \in {lastPersist, None} /\ lastCleanup' \in {lastCleanup, None, now}
      BY <1>8 DEF Retention!Tick, Retention!FileGrows, Retention!FileShrinks, Retention!RestartMonitor,
                  Retention!SaveMetric, Retention!NoPrune, Retention!Rollup, Retention!RollupFails,
                  Retention!DeleteRaw, Retention!KeepQuota, Retention!vars, Retention!times
    <2> QED  BY <1>1, <2>1, <2>2, <2>3 DEF PassTyped
  <1> QED  BY <1>3, <1>4, <1>5, <1>6, <1>7, <1>8 DEF Retention!Next

\* Every step keeps the types.
LEMMA RetentionStep ==
    ASSUME Retention!TypeOK, Retention!Next \/ UNCHANGED Retention!vars
    PROVE  Retention!TypeOK'
  BY SamplesStep, PassStep, RetentionParts

\* A pass moves on to another step.
LEMMA PassMoves ==
    ASSUME PassTyped, NEW at, pass' = [pass EXCEPT !.pc = at]
    PROVE  pass'.pc = at
  BY DEF PassTyped, Steps

-----------------------------------------------------------------------------
(* Metrics and watches: watches.                                           *)

\* Of the passes that were to save samples of a watch, the running one has read
\* it, and the others are done; when a watch that it has read is gone, its
\* samples are lost.
Due(x) == \/ x \in watchMetrics \/ x[2] \in lost
          \/ pass.pc = "insert" /\ x[2] = now /\ x[1] \in pass.read

WatchesInv ==
    /\ \A x \in watchMetrics : x[1] \in DOMAIN watches
    /\ \A x \in owed : Due(x)
    /\ pass.pc = "insert" => pass.read \subseteq DOMAIN watches \/ now \in lost

\* Every step keeps WatchesInv.
LEMMA WatchesStep ==
    ASSUME Retention!TypeOK, WatchesInv, Retention!Next \/ UNCHANGED Retention!vars
    PROVE  WatchesInv'
  <1>1. PassTyped
    BY RetentionParts
  <1>2. ASSUME UNCHANGED <<watches, watchMetrics, owed>>, lost \subseteq lost', pass.pc # "insert",
               pass'.pc # "insert"
        PROVE  WatchesInv'
    BY <1>2 DEF WatchesInv, Due
  <1>3. CASE UNCHANGED <<now, pass, watches, watchMetrics, owed, lost>>
    BY <1>3 DEF WatchesInv, Due
  <1>4. CASE Retention!RestartMonitor
    <2>1. /\ UNCHANGED <<now, watches, watchMetrics, owed>> /\ pass'.pc = "idle"
          /\ lost' = IF pass.pc = "insert" THEN lost \cup {now} ELSE lost
      BY <1>4 DEF Retention!RestartMonitor, Retention!Idle
    <2> QED  BY <2>1 DEF WatchesInv, Due
  <1>5. ASSUME NEW w \in Watches, Retention!DeleteWatch(w)
        PROVE  WatchesInv'
    <2>1. /\ DOMAIN watches' = DOMAIN watches \ {w}
          /\ watchMetrics' = {x \in watchMetrics : x[1] # w} /\ owed' = {x \in owed : x[1] # w}
          /\ lost' = IF pass.pc = "insert" /\ w \in pass.read THEN lost \cup {now} ELSE lost
          /\ UNCHANGED <<now, pass>>
      BY <1>5 DEF Retention!DeleteWatch, Retention!Without, Retention!Restrict, Retention!times
    <2> QED  BY <2>1 DEF WatchesInv, Due
  <1>6. ASSUME NEW w \in Watches, NEW enabled \in BOOLEAN, Retention!PutWatch(w, enabled)
        PROVE  WatchesInv'
    <2>1. /\ DOMAIN watches' = DOMAIN watches \cup {w}
          /\ UNCHANGED <<now, pass, watchMetrics, owed, lost>>
      BY <1>6 DEF Retention!PutWatch, Retention!times
    <2> QED  BY <2>1 DEF WatchesInv, Due
  <1>7. CASE Retention!ReadWatches
    <2>1. PICK enabled \in SUBSET DOMAIN watches :
             /\ owed' = owed \cup (enabled \X {now})
             /\ \/ pass' = [pc |-> "insert", read |-> enabled] /\ lost' = lost
                \/ /\ pass' = [Retention!Idle EXCEPT !.pc = "maintain"]
                   /\ lost' = lost \cup {now}
      BY <1>7 DEF Retention!ReadWatches
    <2>2. pass.pc = "watches" /\ UNCHANGED <<now, watches, watchMetrics>>
      BY <1>7 DEF Retention!ReadWatches
    <2>3. ASSUME NEW x \in owed'
          PROVE  Due(x)'
      <3>1. CASE x \in owed
        BY <2>1, <2>2, <3>1 DEF WatchesInv, Due
      <3>2. CASE x \in enabled \X {now}
        <4>1. x[1] \in enabled /\ x[2] = now
          BY <3>2
        <4> QED  BY <2>1, <2>2, <4>1 DEF Due
      <3> QED  BY <2>1, <3>1, <3>2
    <2>4. pass'.pc = "insert" => pass'.read \subseteq DOMAIN watches
      BY <2>1 DEF Retention!Idle
    <2> QED  BY <2>1, <2>2, <2>3, <2>4 DEF WatchesInv
  <1>8. CASE Retention!SaveWatchMetrics
    <2>1. /\ pass.pc = "insert" /\ pass'.pc = "maintain" /\ UNCHANGED <<now, watches, owed>>
          /\ \/ /\ watchMetrics' = IF pass.read \subseteq DOMAIN watches
                                   THEN watchMetrics \cup (pass.read \X {now}) ELSE watchMetrics
                /\ lost' = lost
             \/ lost' = lost \cup {now} /\ watchMetrics' = watchMetrics
      BY <1>8 DEF Retention!SaveWatchMetrics, Retention!Idle
    <2>2. ASSUME NEW x \in owed
          PROVE  Due(x)'
      <3>1. Due(x) /\ x = <<x[1], x[2]>>
        BY <1>1 DEF WatchesInv, PassTyped
      <3>2. CASE x[2] = now /\ x[1] \in pass.read
        <4>1. x \in pass.read \X {now}
          BY <3>1, <3>2
        <4> QED  BY <2>1, <3>2, <4>1 DEF WatchesInv, Due
      <3>3. CASE x \in watchMetrics \/ x[2] \in lost
        BY <2>1, <3>3 DEF Due
      <3> QED  BY <3>1, <3>2, <3>3 DEF Due
    <2>3. \A x \in watchMetrics' : x[1] \in DOMAIN watches
      <3>1. ASSUME pass.read \subseteq DOMAIN watches, NEW x \in pass.read \X {now}
            PROVE  x[1] \in DOMAIN watches
        BY <3>1
      <3> QED  BY <2>1, <3>1 DEF WatchesInv
    <2> QED  BY <2>1, <2>2, <2>3 DEF WatchesInv
  <1>9. CASE Retention!DeleteOld
    <2>1. /\ pass.pc = "delete old" /\ pass'.pc = "quota" /\ UNCHANGED <<now, watches>>
          /\ \/ watchMetrics' = watchMetrics
             \/ watchMetrics' = {x \in watchMetrics : x[2] + RawRetention >= now}
          /\ owed' = {x \in owed : x[2] + RawRetention >= now}
          /\ lost' = lost \cap {x[2] : x \in owed'}
      BY <1>9, <1>1 DEF Retention!DeleteOld, Retention!times, PassTyped, Steps
    <2> QED  BY <2>1 DEF WatchesInv, Due
  <1>10. ASSUME \/ Retention!Tick \/ Retention!NoPrune \/ Retention!Rollup \/ Retention!RollupFails
                \/ \E rate \in Rates : Retention!SaveMetric(rate)
                \/ Retention!DeleteRaw \/ Retention!KeepQuota
         PROVE  /\ UNCHANGED <<watches, watchMetrics, owed, lost>>
                /\ pass.pc # "insert" /\ pass'.pc # "insert"
    <2>1. UNCHANGED Retention!watched
      BY <1>10 DEF Retention!Tick, Retention!SaveMetric, Retention!NoPrune, Retention!Rollup,
                   Retention!RollupFails, Retention!DeleteRaw, Retention!KeepQuota
    <2>2. pass.pc # "insert"
      BY <1>10 DEF Retention!Tick, Retention!SaveMetric, Retention!NoPrune, Retention!Rollup,
                   Retention!RollupFails, Retention!DeleteRaw, Retention!KeepQuota
    <2>3. \/ pass' = pass \/ pass' = Retention!Idle
          \/ \E at \in {"watches", "delete raw", "delete old"} : pass' = [pass EXCEPT !.pc = at]
      BY <1>10 DEF Retention!Tick, Retention!SaveMetric, Retention!NoPrune, Retention!Rollup,
                   Retention!RollupFails, Retention!DeleteRaw, Retention!KeepQuota
    <2>4. pass'.pc # "insert"
      <3>1. Retention!Idle.pc = "idle"
        BY DEF Retention!Idle
      <3>2. ASSUME NEW at \in {"watches", "delete raw", "delete old"},
                   pass' = [pass EXCEPT !.pc = at]
            PROVE  pass'.pc # "insert"
        <4>1. pass'.pc = at
          BY <1>1, <3>2, PassMoves
        <4> QED  BY <4>1
      <3> QED  BY <2>2, <2>3, <3>1, <3>2
    <2> QED  BY <2>1, <2>2, <2>4 DEF Retention!watched
  <1>11. ASSUME Retention!FileGrows \/ Retention!FileShrinks \/ UNCHANGED Retention!vars
         PROVE  UNCHANGED <<now, pass, watches, watchMetrics, owed, lost>>
    BY <1>11 DEF Retention!FileGrows, Retention!FileShrinks, Retention!vars, Retention!times, Retention!watched
  <1> QED  BY <1>2, <1>3, <1>4, <1>5, <1>6, <1>7, <1>8, <1>9, <1>10, <1>11 DEF Retention!Next

-----------------------------------------------------------------------------
(* Metrics and watches: samples.                                           *)

\* The two halves of SampleShownOnce.
Shown(t) == \/ t \in DOMAIN metrics \cup Retention!Covered \cup evicted
            \/ Retention!Bucket(t) + RollupRetention < now
            \/ Retention!CutOff(t)

ShownTwice == DOMAIN metrics \cap Retention!Covered

\* A covered sample is older than the raw retention, and a cutoff tells so; no
\* cutoff lies ahead.
CoveredOK(t) == t + RawRetention < now /\ \E c \in cutoffs : t < c

\* The row that covers a sample has all raw samples of its bucket, unless the
\* bucket was cut after it.
RowWhole(s, t) == Retention!Bucket(s) = Retention!Bucket(t)
                      => t \in Retention!Covered \/ Retention!CutOff(s)

\* Of the samples of a row that are still there raw, none but evicted ones are
\* missing: a deletion takes all of them or none.
RowTogether(s, t) ==
    Retention!Bucket(s) = Retention!Bucket(t) /\ t \in DOMAIN metrics
        => s \in DOMAIN metrics \cup evicted

SamplesInv ==
    /\ \A t \in saved : Shown(t)
    /\ ShownTwice \subseteq IF pass.pc = "delete raw" THEN undeleted \cup Retention!Old
                                                      ELSE undeleted
    /\ \A t \in Retention!Covered : CoveredOK(t)
    /\ \A c \in cutoffs : c <= now
    /\ \A s \in Retention!Covered, t \in DOMAIN metrics : RowWhole(s, t)
    /\ \A s, t \in Retention!Covered : RowTogether(s, t)
    /\ pass.pc = "delete raw" => Retention!Old \subseteq Retention!Covered

\* The samples of a row are those of its bucket that are covered.
LEMMA CoveredByRow ==
    ASSUME SamplesTyped, NEW t
    PROVE  /\ t \in Retention!Covered <=> /\ Retention!Bucket(t) \in DOMAIN rollups
                                          /\ t \in DOMAIN rollups[Retention!Bucket(t)]
           /\ t \in Retention!Covered => t \in Retention!Times
  <1>1. \A b \in DOMAIN rollups : \A x \in DOMAIN rollups[b] :
           Retention!Bucket(x) = b /\ x \in Retention!Times
    BY DEF SamplesTyped, RowOf
  <1> QED  BY <1>1 DEF Retention!Covered

\* Times and their buckets are numbers.
LEMMA TimesAreNumbers ==
    /\ \A t \in Retention!Times : /\ t \in Nat /\ Retention!Bucket(t) \in Nat
                                  /\ Retention!Bucket(t) <= t
                                  /\ t < Retention!Bucket(t) + Width
    /\ RawRetention \in Nat /\ RollupRetention \in Nat /\ Width \in Nat
  <1>1. Retention!Times \subseteq Nat
    BY RetentionAssumption DEF Retention!Times
  <1> QED  BY <1>1, BucketBounds, RetentionAssumption

\* What SamplesInv is about.
sampled == <<now, metrics, rollups, saved, cutoffs, evicted, undeleted>>

\* Steps of the pass that are not about samples.
LEMMA SamplesUntouched ==
    ASSUME SamplesInv, UNCHANGED sampled,
           pass'.pc = pass.pc \/ "delete raw" \notin {pass.pc, pass'.pc}
    PROVE  SamplesInv'
  <1>1. /\ UNCHANGED <<now, metrics, rollups, saved, cutoffs, evicted, undeleted>>
        /\ Retention!Covered' = Retention!Covered /\ Retention!Old' = Retention!Old
        /\ \A t : Retention!CutOff(t)' <=> Retention!CutOff(t)
    BY DEF sampled, Retention!Covered, Retention!CutOff, Retention!Old
  <1>2. /\ \A t : (Shown(t)' <=> Shown(t)) /\ (CoveredOK(t)' <=> CoveredOK(t))
        /\ \A s, t : /\ (RowWhole(s, t)' <=> RowWhole(s, t))
                     /\ (RowTogether(s, t)' <=> RowTogether(s, t))
        /\ ShownTwice' = ShownTwice
    BY <1>1 DEF Shown, ShownTwice, CoveredOK, RowWhole, RowTogether
  <1> QED  BY <1>1, <1>2 DEF SamplesInv

\* The clock ticks.
LEMMA TickSamples ==
    ASSUME SamplesTyped, SamplesInv, Retention!Tick
    PROVE  SamplesInv'
  <1>1. /\ pass.pc = "idle" /\ now' = now + 1
        /\ UNCHANGED <<metrics, rollups, saved, cutoffs, evicted, undeleted, pass>>
    BY DEF Retention!Tick, Retention!history
  <1>2. Retention!Covered' = Retention!Covered /\ \A t : Retention!CutOff(t)' = Retention!CutOff(t)
    BY <1>1 DEF Retention!Covered, Retention!CutOff
  <1>3. now \in Nat /\ \A t \in saved : Retention!Bucket(t) \in Nat
    BY TimesAreNumbers DEF SamplesTyped
  <1>4. \A t \in saved : Shown(t)'
    BY <1>1, <1>2, <1>3, TimesAreNumbers DEF SamplesInv, Shown
  <1>5. /\ \A t \in Retention!Covered' : CoveredOK(t)'
        /\ \A c \in cutoffs' : c <= now'
    <2>1. \A t \in Retention!Covered \cup cutoffs : t \in Nat
      BY CoveredByRow, TimesAreNumbers DEF SamplesTyped
    <2> QED  BY <1>1, <1>2, <1>3, <2>1, TimesAreNumbers DEF SamplesInv, CoveredOK
  <1> QED  BY <1>1, <1>2, <1>4, <1>5 DEF SamplesInv, ShownTwice, RowWhole, RowTogether

\* A new sample is not covered, and a row of its bucket was cut off by a cutoff
\* that is not ahead.
LEMMA SaveSamples ==
    ASSUME SamplesTyped, PassTyped, SamplesInv, NEW rate \in Rates, Retention!SaveMetric(rate)
    PROVE  SamplesInv'
  <1>1. /\ pass.pc = "idle" /\ pass' = [pass EXCEPT !.pc = "watches"]
        /\ UNCHANGED <<now, rollups, cutoffs, evicted, undeleted>>
        /\ \/ DOMAIN metrics' = DOMAIN metrics \cup {now} /\ saved' = saved \cup {now}
           \/ UNCHANGED <<metrics, saved>>
    BY DEF Retention!SaveMetric, Retention!times
  <1>2. pass'.pc # "delete raw"
    BY <1>1, PassMoves
  <1>3. CASE UNCHANGED <<metrics, saved>>
    BY <1>1, <1>2, <1>3, SamplesUntouched DEF sampled
  <1>4. CASE DOMAIN metrics' = DOMAIN metrics \cup {now} /\ saved' = saved \cup {now}
    <2>1. /\ Retention!Covered' = Retention!Covered
          /\ \A t : /\ (Retention!CutOff(t)' <=> Retention!CutOff(t))
                    /\ (CoveredOK(t)' <=> CoveredOK(t))
      BY <1>1 DEF Retention!Covered, Retention!CutOff, CoveredOK
    <2>2. /\ now \in Nat /\ now < Retention!Bucket(now) + Width
          /\ \A t \in Retention!Covered \cup cutoffs : t \in Nat
      BY CoveredByRow, TimesAreNumbers DEF SamplesTyped
    <2>3. now \notin Retention!Covered
      <3>. SUFFICES ASSUME now \in Retention!Covered PROVE FALSE
        OBVIOUS
      <3>1. PICK c \in cutoffs : now < c /\ c <= now
        BY DEF SamplesInv, CoveredOK
      <3>2. c \in Nat /\ now \in Nat
        BY <2>2
      <3> QED  BY <3>1, <3>2
    <2>4. ASSUME NEW s \in Retention!Covered
          PROVE  RowWhole(s, now)'
      <3>1. PICK c \in cutoffs : s < c /\ c <= now
        BY DEF SamplesInv, CoveredOK
      <3>2. Retention!Bucket(s) = Retention!Bucket(now) => Retention!CutOff(s)
        <4>. HAVE Retention!Bucket(s) = Retention!Bucket(now)
        <4>1. /\ Retention!Bucket(now) \in Nat /\ Width \in Nat /\ c \in Nat
              /\ Retention!Bucket(s) = Retention!Bucket(now)
          BY <2>2, TimesAreNumbers DEF SamplesTyped
        <4>2. c < Retention!Bucket(s) + Width
          BY <2>2, <3>1, <4>1
        <4> QED  BY <3>1, <4>2 DEF Retention!CutOff
      <3> QED  BY <1>1, <2>1, <3>2 DEF RowWhole
    <2>5. \A s \in Retention!Covered', t \in DOMAIN metrics' : RowWhole(s, t)'
      BY <1>1, <1>4, <2>1, <2>4 DEF SamplesInv, RowWhole
    <2>6. \A s, t \in Retention!Covered' : RowTogether(s, t)'
      BY <1>1, <1>4, <2>1, <2>3 DEF SamplesInv, RowTogether
    <2>7. \A t \in saved' : Shown(t)'
      BY <1>1, <1>4, <2>1 DEF SamplesInv, Shown
    <2> QED  BY <1>1, <1>2, <1>4, <2>1, <2>3, <2>5, <2>6, <2>7 DEF SamplesInv, ShownTwice
  <1> QED  BY <1>1, <1>3, <1>4

\* What a rollup makes of the covered samples: old ones are, and others only where
\* no row takes the place of theirs.
LEMMA RollUpCovers ==
    ASSUME SamplesTyped, Retention!RollUp(Retention!Old), NEW t
    PROVE  t \in Retention!Covered' <=>
              \/ t \in Retention!Old
              \/ t \in Retention!Covered /\ Group(Retention!Bucket(t)) = {}
  <1>1. /\ DOMAIN rollups' = DOMAIN rollups \cup {Retention!Bucket(x) : x \in Retention!Old}
        /\ \A b \in DOMAIN rollups' :
              DOMAIN rollups'[b] = IF Group(b) = {} THEN DOMAIN rollups[b] ELSE Group(b)
    BY RollUpRows
  <1>2. ASSUME t \in Retention!Covered'
        PROVE  \/ t \in Retention!Old
               \/ t \in Retention!Covered /\ Group(Retention!Bucket(t)) = {}
    <2>1. PICK b \in DOMAIN rollups' : t \in DOMAIN rollups'[b]
      BY <1>2 DEF Retention!Covered
    <2>2. CASE Group(b) # {}
      <3>1. t \in Group(b)
        BY <1>1, <2>1, <2>2
      <3> QED  BY <3>1 DEF Group
    <2>3. CASE Group(b) = {}
      <3>1. b \in DOMAIN rollups /\ t \in DOMAIN rollups[b]
        BY <1>1, <2>1, <2>3 DEF Group
      <3>2. Retention!Bucket(t) = b /\ t \in Retention!Covered
        BY <3>1 DEF SamplesTyped, RowOf, Retention!Covered
      <3> QED  BY <2>3, <3>2
    <2> QED  BY <2>2, <2>3
  <1>3. ASSUME t \in Retention!Old
        PROVE  t \in Retention!Covered'
    <2>1. t \in Group(Retention!Bucket(t)) /\ Retention!Bucket(t) \in DOMAIN rollups'
      BY <1>1, <1>3 DEF Group
    <2>2. t \in DOMAIN rollups'[Retention!Bucket(t)]
      BY <1>1, <2>1
    <2> QED  BY <2>1, <2>2 DEF Retention!Covered
  <1>4. ASSUME t \in Retention!Covered, Group(Retention!Bucket(t)) = {}
        PROVE  t \in Retention!Covered'
    <2>1. Retention!Bucket(t) \in DOMAIN rollups /\ t \in DOMAIN rollups[Retention!Bucket(t)]
      BY <1>4, CoveredByRow
    <2>2. Retention!Bucket(t) \in DOMAIN rollups' /\ t \in DOMAIN rollups'[Retention!Bucket(t)]
      BY <1>1, <1>4, <2>1
    <2> QED  BY <2>2 DEF Retention!Covered
  <1> QED  BY <1>2, <1>3, <1>4

\* The rollup: a sample whose row is replaced is rolled up anew, or its bucket was
\* cut, or it was evicted; and the rows that it writes lack only samples behind
\* the new cutoff.
LEMMA RollupSamples ==
    ASSUME SamplesTyped, PassTyped, SamplesInv, Retention!Rollup
    PROVE  SamplesInv'
  <1>. DEFINE Fresh(t) == Group(Retention!Bucket(t)) = {}
  <1>1. /\ pass.pc = "maintain" /\ pass' = [pass EXCEPT !.pc = "delete raw"]
        /\ UNCHANGED <<now, metrics, saved, evicted, undeleted>>
        /\ cutoffs' = IF now > RawRetention THEN cutoffs \cup {now - RawRetention} ELSE cutoffs
        /\ Retention!Old' = Retention!Old
    BY DEF Retention!Rollup, Retention!times, Retention!Old
  <1>2. \A t : t \in Retention!Covered' <=> \/ t \in Retention!Old
                                            \/ t \in Retention!Covered /\ Fresh(t)
    BY RollUpCovers DEF Retention!Rollup
  <1>3. \A t : Retention!CutOff(t) => Retention!CutOff(t)'
    BY <1>1 DEF Retention!CutOff
  <1>4. /\ Retention!Old \subseteq DOMAIN metrics
        /\ \A t \in Retention!Old : t + RawRetention < now
        /\ \A t \in DOMAIN metrics : t \in Retention!Old \/ t + RawRetention >= now
    BY TimesAreNumbers DEF Retention!Old, SamplesTyped
  <1>5. /\ now \in Nat /\ RawRetention \in Nat
        /\ \A t \in DOMAIN metrics \cup Retention!Covered \cup cutoffs :
              t \in Nat /\ Retention!Bucket(t) \in Nat /\ t < Retention!Bucket(t) + Width
    BY CoveredByRow, TimesAreNumbers DEF SamplesTyped
  <1>6. ASSUME NEW t \in Retention!Covered, ~Fresh(t)
        PROVE  t \in DOMAIN metrics \cup evicted \/ Retention!CutOff(t)
    <2>1. PICK u \in Retention!Old : Retention!Bucket(u) = Retention!Bucket(t)
      BY <1>6 DEF Group
    <2>2. u \in Retention!Covered \/ Retention!CutOff(t)
      BY <1>4, <2>1 DEF SamplesInv, RowWhole
    <2> QED  BY <1>4, <2>1, <2>2 DEF SamplesInv, RowTogether
  <1>7. \A t \in saved' : Shown(t)'
    <2>. SUFFICES ASSUME NEW t \in saved PROVE Shown(t)'
      BY <1>1
    <2>1. Shown(t)
      BY DEF SamplesInv
    <2>2. CASE t \in Retention!Covered
      BY <1>1, <1>2, <1>3, <1>6, <2>2 DEF Shown
    <2>3. CASE t \notin Retention!Covered
      BY <1>1, <1>3, <2>1, <2>3 DEF Shown
    <2> QED  BY <2>2, <2>3
  <1>8. ASSUME NEW t \in Retention!Old
        PROVE  now > RawRetention /\ now - RawRetention \in cutoffs' /\ t < now - RawRetention
    <2>1. t \in Nat /\ t + RawRetention < now
      BY <1>4, <1>5
    <2>2. now > RawRetention /\ t < now - RawRetention
      BY <1>5, <2>1
    <2> QED  BY <1>1, <2>2
  <1>9. \A t \in Retention!Covered' : CoveredOK(t)'
    <2>. SUFFICES ASSUME NEW t \in Retention!Covered' PROVE CoveredOK(t)'
      OBVIOUS
    <2>1. CASE t \in Retention!Old
      BY <1>1, <1>4, <1>8, <2>1 DEF CoveredOK
    <2>2. CASE t \in Retention!Covered
      BY <1>1, <2>2 DEF SamplesInv, CoveredOK
    <2> QED  BY <1>2, <2>1, <2>2
  <1>10. \A c \in cutoffs' : c <= now'
    <2>1. now - RawRetention <= now
      BY <1>5
    <2> QED  BY <1>1, <2>1 DEF SamplesInv
  <1>11. ASSUME NEW s \in Retention!Covered', NEW t \in DOMAIN metrics,
                Retention!Bucket(s) = Retention!Bucket(t), t \notin Retention!Covered'
         PROVE  Retention!CutOff(s)'
    <2>1. t \notin Retention!Old /\ t + RawRetention >= now
      BY <1>2, <1>4, <1>11
    <2>2. CASE s \in Retention!Old
      <3>1. now - RawRetention \in cutoffs' /\ s < now - RawRetention
        BY <1>8, <2>2
      <3>2. /\ t \in Nat /\ Retention!Bucket(t) \in Nat /\ t < Retention!Bucket(t) + Width
            /\ Width \in Nat
        BY <1>5, TimesAreNumbers
      <3>3. now - RawRetention < Retention!Bucket(t) + Width
        BY <1>5, <2>1, <3>2
      <3> QED  BY <1>11, <3>1, <3>3 DEF Retention!CutOff
    <2>3. CASE s \in Retention!Covered /\ Fresh(s)
      <3>1. Fresh(t)
        BY <1>11, <2>3
      <3>2. t \notin Retention!Covered
        BY <1>2, <1>11, <3>1
      <3> QED  BY <1>3, <1>11, <2>3, <3>2 DEF SamplesInv, RowWhole
    <2> QED  BY <1>2, <2>2, <2>3
  <1>12. ASSUME NEW s \in Retention!Covered', NEW t \in Retention!Covered'
         PROVE  RowTogether(s, t)'
    <2>. SUFFICES ASSUME Retention!Bucket(s) = Retention!Bucket(t), t \in DOMAIN metrics,
                         s \notin DOMAIN metrics
                  PROVE  s \in evicted
      BY <1>1 DEF RowTogether
    <2>1. s \in Retention!Covered /\ Fresh(s)
      BY <1>2, <1>4
    <2>2. t \notin Retention!Old
      BY <2>1 DEF Group
    <2>3. t \in Retention!Covered
      BY <1>2, <2>2
    <2> QED  BY <2>1, <2>3 DEF SamplesInv, RowTogether
  <1>13. ShownTwice' \subseteq undeleted' \cup Retention!Old'
    BY <1>1, <1>2 DEF ShownTwice, SamplesInv
  <1>14. \A s \in Retention!Covered', t \in DOMAIN metrics' : RowWhole(s, t)'
    BY <1>1, <1>11 DEF RowWhole
  <1>15. Retention!Old' \subseteq Retention!Covered'
    BY <1>1, <1>2
  <1>16. pass'.pc = "delete raw"
    BY <1>1, PassMoves
  <1> QED  BY <1>7, <1>9, <1>10, <1>12, <1>13, <1>14, <1>15, <1>16 DEF SamplesInv

\* The deletion of the old samples: all of them are covered, and nothing else is,
\* so that none of a row remains.
LEMMA DeleteSamples ==
    ASSUME SamplesTyped, PassTyped, SamplesInv, Retention!DeleteRaw
    PROVE  SamplesInv'
  <1>1. /\ pass.pc = "delete raw" /\ pass' = [pass EXCEPT !.pc = "delete old"]
        /\ UNCHANGED <<now, rollups, saved, cutoffs, evicted>>
        /\ \/ /\ DOMAIN metrics' = DOMAIN metrics \ Retention!Old
              /\ undeleted' = undeleted \ Retention!Old
           \/ metrics' = metrics /\ undeleted' = undeleted \cup Retention!Old
    BY DEF Retention!DeleteRaw, Retention!Restrict, Retention!times
  <1>2. pass'.pc # "delete raw"
    BY <1>1, PassMoves
  <1>3. /\ Retention!Covered' = Retention!Covered /\ Retention!Old \subseteq Retention!Covered
        /\ \A t : /\ (Retention!CutOff(t)' <=> Retention!CutOff(t))
                  /\ (CoveredOK(t)' <=> CoveredOK(t))
    BY <1>1 DEF Retention!Covered, Retention!CutOff, CoveredOK, SamplesInv
  <1>4. \A t \in saved' : Shown(t)'
    BY <1>1, <1>3 DEF SamplesInv, Shown
  <1>5. DOMAIN metrics' \subseteq DOMAIN metrics
    BY <1>1
  <1>6. \A s \in Retention!Covered', t \in DOMAIN metrics' : RowWhole(s, t)'
    BY <1>3, <1>5 DEF SamplesInv, RowWhole
  <1>7. \A t \in Retention!Covered : t \in DOMAIN metrics => t \in Retention!Old
    BY DEF SamplesInv, CoveredOK, Retention!Old
  <1>8. \A s, t \in Retention!Covered' : RowTogether(s, t)'
    <2>1. CASE metrics' = metrics
      BY <1>1, <1>3, <2>1 DEF SamplesInv, RowTogether
    <2>2. CASE DOMAIN metrics' = DOMAIN metrics \ Retention!Old
      BY <1>3, <1>7, <2>2 DEF RowTogether
    <2> QED  BY <1>1, <2>1, <2>2
  <1>9. ShownTwice' \subseteq undeleted'
    BY <1>1, <1>3 DEF SamplesInv, ShownTwice
  <1>10. \A t \in Retention!Covered' : CoveredOK(t)'
    BY <1>3 DEF SamplesInv
  <1>11. \A c \in cutoffs' : c <= now'
    BY <1>1 DEF SamplesInv
  <1> QED  BY <1>2, <1>4, <1>6, <1>8, <1>9, <1>10, <1>11 DEF SamplesInv

\* A row is deleted with all that is noted of its bucket.
LEMMA RowsDeleted ==
    ASSUME SamplesTyped, Retention!DeleteOld, RowsGo, NEW t \in Retention!Covered
    PROVE  t \in Retention!Covered' <=> Retention!Bucket(t) + RollupRetention >= now
  <1>1. rollups' = [b \in {x \in DOMAIN rollups : Retention!Bucket(x) + RollupRetention >= now}
                      |-> rollups[b]]
    BY DEF RowsGo, Recent
  <1>2. /\ t \in Nat /\ Retention!Bucket(t) \in DOMAIN rollups
        /\ t \in DOMAIN rollups[Retention!Bucket(t)]
    BY CoveredByRow, TimesAreNumbers
  <1>3. Retention!Bucket(Retention!Bucket(t)) = Retention!Bucket(t)
    BY <1>2, BucketOfBucket
  <1>4. SamplesTyped'
    BY SamplesStep DEF Retention!Next
  <1>5. t \in Retention!Covered' <=> /\ Retention!Bucket(t) \in DOMAIN rollups'
                                     /\ t \in DOMAIN rollups'[Retention!Bucket(t)]
    <2>1. \A b \in DOMAIN rollups' : \A x \in DOMAIN rollups'[b] : Retention!Bucket(x) = b
      BY <1>4 DEF SamplesTyped, RowOf
    <2> QED  BY <2>1 DEF Retention!Covered
  <1> QED  BY <1>1, <1>2, <1>3, <1>5

\* The deletion of old rows: what is noted of a bucket is dropped with its row, and
\* a cutoff is kept as long as the samples before it.
LEMMA DeleteRows ==
    ASSUME SamplesTyped, PassTyped, SamplesInv, Retention!DeleteOld, RowsGo
    PROVE  SamplesInv'
  <1>. DEFINE Kept(t) == Retention!Bucket(t) + RollupRetention >= now
  <1>1. /\ pass.pc = "delete old" /\ pass' = [pass EXCEPT !.pc = "quota"]
        /\ UNCHANGED <<now, metrics, undeleted>>
    BY DEF Retention!DeleteOld, Retention!times
  <1>2. /\ saved' = {t \in saved : Kept(t)} /\ cutoffs' = {t \in cutoffs : Kept(t)}
        /\ evicted' = {t \in evicted : Kept(t)}
    BY DEF RowsGo, Recent
  <1>3. \A t : t \in Retention!Covered' <=> t \in Retention!Covered /\ Kept(t)
    <2>1. Retention!Covered' \subseteq Retention!Covered
      BY DEF RowsGo, Retention!Covered
    <2> QED  BY <2>1, RowsDeleted
  <1>4. /\ now \in Nat /\ RollupRetention \in Nat /\ Width \in Nat
        /\ \A t \in saved \cup DOMAIN metrics \cup Retention!Covered \cup cutoffs :
              t \in Nat /\ Retention!Bucket(t) \in Nat
    BY CoveredByRow, TimesAreNumbers DEF SamplesTyped
  <1>5. ASSUME NEW t \in Nat, NEW c \in cutoffs, t < c, Kept(t)
        PROVE  c \in cutoffs'
    <2>1. Retention!Bucket(t) <= Retention!Bucket(c) /\ Retention!Bucket(t) \in Nat
      BY <1>4, <1>5, BucketOrder, BucketBounds
    <2>2. Kept(c)
      BY <1>4, <1>5, <2>1
    <2> QED  BY <1>2, <2>2
  <1>6. ASSUME NEW t \in Nat, Kept(t), Retention!CutOff(t)
        PROVE  Retention!CutOff(t)'
    BY <1>5, <1>6 DEF Retention!CutOff
  <1>7. \A t \in saved' : Shown(t)'
    <2>. SUFFICES ASSUME NEW t \in saved, Kept(t) PROVE Shown(t)'
      BY <1>2
    <2>1. Shown(t)
      BY DEF SamplesInv
    <2>2. ~(Retention!Bucket(t) + RollupRetention < now)
      BY <1>4
    <2>3. CASE t \in DOMAIN metrics \cup Retention!Covered \cup evicted
      BY <1>1, <1>2, <1>3, <2>3 DEF Shown
    <2>4. CASE Retention!CutOff(t)
      BY <1>4, <1>6, <2>4 DEF Shown
    <2> QED  BY <2>1, <2>2, <2>3, <2>4 DEF Shown
  <1>8. \A t \in Retention!Covered' : CoveredOK(t)'
    BY <1>1, <1>3, <1>4, <1>5 DEF SamplesInv, CoveredOK
  <1>9. \A c \in cutoffs' : c <= now'
    BY <1>1, <1>2 DEF SamplesInv
  <1>10. \A s \in Retention!Covered', t \in DOMAIN metrics' : RowWhole(s, t)'
    BY <1>1, <1>3, <1>4, <1>6 DEF SamplesInv, RowWhole
  <1>11. \A s, t \in Retention!Covered' : RowTogether(s, t)'
    BY <1>1, <1>2, <1>3 DEF SamplesInv, RowTogether
  <1>12. ShownTwice' \subseteq undeleted'
    BY <1>1, <1>3 DEF SamplesInv, ShownTwice
  <1>13. pass'.pc # "delete raw"
    BY <1>1, PassMoves
  <1> QED  BY <1>7, <1>8, <1>9, <1>10, <1>11, <1>12, <1>13 DEF SamplesInv

\* The quota: what it takes is evicted.
LEMMA EvictSamples ==
    ASSUME SamplesTyped, SamplesInv, Retention!KeepQuota
    PROVE  SamplesInv'
  <1>1. PICK raw, old :
           /\ raw \subseteq DOMAIN metrics /\ old \subseteq DOMAIN rollups
           /\ metrics' = [t \in DOMAIN metrics \ raw |-> metrics[t]]
           /\ rollups' = [b \in DOMAIN rollups \ old |-> rollups[b]]
           /\ evicted' = evicted \cup raw \cup UNION {DOMAIN rollups[b] : b \in old}
           /\ undeleted' = undeleted \ raw
    BY Evictions
  <1>2. /\ pass.pc = "quota" /\ pass'.pc = "idle" /\ UNCHANGED <<now, saved, cutoffs>>
    BY DEF Retention!KeepQuota, Retention!Idle
  <1>3. /\ DOMAIN metrics' = DOMAIN metrics \ raw
        /\ raw \subseteq evicted' /\ evicted \subseteq evicted'
    BY <1>1
  <1>4. \A t \in Retention!Covered : t \in Retention!Covered' \/ t \in evicted'
    BY <1>1 DEF Retention!Covered
  <1>5. \A t \in Retention!Covered' : t \in Retention!Covered /\ Retention!Bucket(t) \notin old
    <2>. SUFFICES ASSUME NEW t \in Retention!Covered'
                  PROVE  t \in Retention!Covered /\ Retention!Bucket(t) \notin old
      OBVIOUS
    <2>1. PICK b \in DOMAIN rollups \ old : t \in DOMAIN rollups[b]
      BY <1>1 DEF Retention!Covered
    <2>2. Retention!Bucket(t) = b /\ t \in Retention!Covered
      BY <2>1 DEF SamplesTyped, RowOf, Retention!Covered
    <2> QED  BY <2>1, <2>2
  <1>6. \A t \in Retention!Covered : Retention!Bucket(t) \notin old => t \in Retention!Covered'
    <2>. SUFFICES ASSUME NEW t \in Retention!Covered, Retention!Bucket(t) \notin old
                  PROVE  t \in Retention!Covered'
      OBVIOUS
    <2>1. Retention!Bucket(t) \in DOMAIN rollups /\ t \in DOMAIN rollups[Retention!Bucket(t)]
      BY CoveredByRow
    <2>2. Retention!Bucket(t) \in DOMAIN rollups' /\ t \in DOMAIN rollups'[Retention!Bucket(t)]
      BY <1>1, <2>1
    <2> QED  BY <2>2 DEF Retention!Covered
  <1>7. \A t : /\ (Retention!CutOff(t)' <=> Retention!CutOff(t))
               /\ (CoveredOK(t)' <=> CoveredOK(t))
    BY <1>2 DEF Retention!CutOff, CoveredOK
  <1>8. \A t \in saved' : Shown(t)'
    BY <1>2, <1>3, <1>4, <1>7 DEF SamplesInv, Shown
  <1>9. \A s \in Retention!Covered', t \in DOMAIN metrics' : RowWhole(s, t)'
    BY <1>3, <1>5, <1>6, <1>7 DEF SamplesInv, RowWhole
  <1>10. \A s, t \in Retention!Covered' : RowTogether(s, t)'
    BY <1>3, <1>5 DEF SamplesInv, RowTogether
  <1>11. ShownTwice' \subseteq undeleted'
    BY <1>1, <1>2, <1>3, <1>5 DEF SamplesInv, ShownTwice
  <1>12. \A t \in Retention!Covered' : CoveredOK(t)'
    BY <1>5, <1>7 DEF SamplesInv
  <1>13. \A c \in cutoffs' : c <= now'
    BY <1>2 DEF SamplesInv
  <1> QED  BY <1>2, <1>8, <1>9, <1>10, <1>11, <1>12, <1>13 DEF SamplesInv

\* A restart before the deletion of old samples leaves them there twice.
LEMMA RestartSamples ==
    ASSUME SamplesInv, Retention!RestartMonitor
    PROVE  SamplesInv'
  <1>1. /\ pass'.pc = "idle" /\ UNCHANGED <<now, metrics, rollups, saved, cutoffs, evicted>>
        /\ undeleted' = IF pass.pc = "delete raw" THEN undeleted \cup Retention!Old ELSE undeleted
    BY DEF Retention!RestartMonitor, Retention!Idle
  <1>2. /\ Retention!Covered' = Retention!Covered
        /\ \A t : Retention!CutOff(t)' <=> Retention!CutOff(t)
    BY <1>1 DEF Retention!Covered, Retention!CutOff
  <1>3. /\ \A t : (Shown(t)' <=> Shown(t)) /\ (CoveredOK(t)' <=> CoveredOK(t))
        /\ \A s, t : /\ (RowWhole(s, t)' <=> RowWhole(s, t))
                     /\ (RowTogether(s, t)' <=> RowTogether(s, t))
        /\ ShownTwice' = ShownTwice
    BY <1>1, <1>2 DEF Shown, ShownTwice, CoveredOK, RowWhole, RowTogether
  <1> QED  BY <1>1, <1>2, <1>3 DEF SamplesInv

\* Every step keeps SamplesInv.
LEMMA SamplesInvStep ==
    ASSUME Retention!TypeOK, SamplesInv, Retention!Next \/ UNCHANGED Retention!vars
    PROVE  SamplesInv'
  <1>1. SamplesTyped /\ PassTyped
    BY RetentionParts
  <1>2. ASSUME \/ Retention!FileGrows \/ Retention!FileShrinks \/ UNCHANGED Retention!vars
               \/ \E w \in Watches : \/ Retention!DeleteWatch(w)
                                     \/ \E enabled \in BOOLEAN : Retention!PutWatch(w, enabled)
        PROVE  SamplesInv'
    <2>1. UNCHANGED <<sampled, pass>>
      BY <1>2 DEF Retention!FileGrows, Retention!FileShrinks, Retention!vars, Retention!DeleteWatch, Retention!PutWatch,
                  Retention!times, Retention!history, sampled
    <2> QED  BY <2>1, SamplesUntouched
  <1>3. ASSUME \/ Retention!ReadWatches \/ Retention!SaveWatchMetrics
               \/ Retention!NoPrune \/ Retention!RollupFails
        PROVE  SamplesInv'
    <2>1. UNCHANGED Retention!history /\ now' = now
      BY <1>3 DEF Retention!ReadWatches, Retention!SaveWatchMetrics, Retention!NoPrune,
                  Retention!RollupFails, Retention!times
    <2>2. pass.pc # "delete raw"
      BY <1>3 DEF Retention!ReadWatches, Retention!SaveWatchMetrics, Retention!NoPrune,
                  Retention!RollupFails
    <2>3. CASE Retention!ReadWatches
      <3>1. pass'.pc \in {"insert", "maintain"}
        BY <2>3 DEF Retention!ReadWatches, Retention!Idle
      <3> QED  BY <2>1, <2>2, <3>1, SamplesUntouched DEF Retention!history, sampled
    <2>4. CASE Retention!SaveWatchMetrics \/ Retention!NoPrune \/ Retention!RollupFails
      <3>. DEFINE at == [Retention!Idle EXCEPT !.pc = "maintain"]
      <3>1. at.pc = "maintain" /\ Retention!Idle.pc = "idle"
        BY DEF Retention!Idle
      <3>. HIDE DEF at
      <3>2. pass' \in {at, Retention!Idle}
        BY <2>4 DEF Retention!SaveWatchMetrics, Retention!NoPrune, Retention!RollupFails, at
      <3>3. pass'.pc # "delete raw"
        BY <3>1, <3>2
      <3> QED  BY <2>1, <2>2, <3>3, SamplesUntouched DEF Retention!history, sampled
    <2> QED  BY <1>3, <2>3, <2>4
  <1>4. CASE Retention!DeleteOld
    <2>1. pass'.pc = "quota" /\ pass.pc = "delete old" /\ UNCHANGED <<now, metrics, undeleted>>
      BY <1>1, <1>4, PassMoves DEF Retention!DeleteOld, Retention!times
    <2>2. CASE UNCHANGED <<rollups, saved, cutoffs, evicted>>
      BY <2>1, <2>2, SamplesUntouched DEF sampled
    <2> QED  BY <1>1, <1>4, <2>2, OldRows, DeleteRows
  <1> QED  BY <1>1, <1>2, <1>3, <1>4, TickSamples, SaveSamples, RollupSamples, DeleteSamples,
              EvictSamples, RestartSamples DEF Retention!Next

-----------------------------------------------------------------------------
(* The theorems about metrics and watches.                                 *)

\* The behaviours of the two histories are behaviours of each of them, whichever
\* is followed (the pass of collect writes both): what is proved of one holds.
THEOREM HistoriesAreBoth == HistoriesSpec => Spec /\ Retention!Spec
  <1>1. HistoriesInit => Init /\ Retention!Init
    BY DEF HistoriesInit
  <1>2. [HistoriesNext]_<<followed, vars, retained>>
           => [Next]_vars /\ [Retention!Next]_Retention!vars
    <2>. SUFFICES ASSUME [HistoriesNext]_<<followed, vars, retained>>
                  PROVE  [Next]_vars /\ [Retention!Next]_Retention!vars
      OBVIOUS
    <2>1. UNCHANGED retained => UNCHANGED Retention!vars
      BY DEF retained, Retention!vars, Retention!times, Retention!history, Retention!watched
    <2> QED  BY <2>1 DEF HistoriesNext
  <1> QED  BY <1>1, <1>2, PTL DEF HistoriesSpec, Spec, Retention!Spec

\* In every state of a history of metrics and watches the variables have their
\* types, and both halves of the invariant hold.
THEOREM RetentionInvariant == Retention!Spec => [](Retention!TypeOK /\ SamplesInv /\ WatchesInv)
  <1>1. Retention!Init => Retention!TypeOK /\ SamplesInv /\ WatchesInv
    <2>. SUFFICES ASSUME Retention!Init PROVE Retention!TypeOK /\ SamplesInv /\ WatchesInv
      OBVIOUS
    <2>1. /\ DOMAIN metrics = {} /\ DOMAIN rollups = {} /\ pass.pc = "idle" /\ owed = {}
          /\ watchMetrics = {} /\ saved = {} /\ cutoffs = {} /\ undeleted = {}
      BY DEF Retention!Init, Retention!Idle
    <2>2. Retention!Covered = {}
      BY <2>1 DEF Retention!Covered
    <2> QED  BY <2>1, <2>2, RetentionInit DEF SamplesInv, WatchesInv, ShownTwice
  <1>2. Retention!TypeOK /\ SamplesInv /\ WatchesInv /\ [Retention!Next]_Retention!vars
          => (Retention!TypeOK /\ SamplesInv /\ WatchesInv)'
    <2>. SUFFICES ASSUME Retention!TypeOK, SamplesInv, WatchesInv,
                         Retention!Next \/ UNCHANGED Retention!vars
                  PROVE  (Retention!TypeOK /\ SamplesInv /\ WatchesInv)'
      OBVIOUS
    <2> QED  BY RetentionStep, SamplesInvStep, WatchesStep
  <1> QED  BY <1>1, <1>2, PTL DEF Retention!Spec

\* Each saved sample is in what History reads, as itself or in the row of its
\* bucket, until that row is a RollupRetention old, unless a prune cut its bucket or
\* evicted it; and it is there twice only between the rollup and the deletion or
\* after that deletion failed, whatever fails and whenever the monitor restarts
\* (RollupAndPrune).
THEOREM SamplesAreShownOnce == HistoriesSpec => []SampleShownOnce
  <1>1. Retention!TypeOK /\ SamplesInv => SampleShownOnce
    BY DEF SamplesInv, Shown, ShownTwice, SampleShownOnce, Retention!SampleShownOnce
  <1> QED  BY <1>1, HistoriesAreBoth, RetentionInvariant, PTL

\* A watch has the samples of all passes that found it enabled, back to the raw
\* cutoff, but those of passes that could not save them or from under which a watch
\* was deleted; and no sample outlives its watch (SaveWatchMetrics, PutWatch and
\* DeleteWatch).
THEOREM WatchesKeepTheirSamples == HistoriesSpec => []WatchSamplesKept
  <1>1. WatchesInv => WatchSamplesKept
    BY DEF WatchesInv, Due, WatchSamplesKept, Retention!WatchSamplesKept
  <1> QED  BY <1>1, HistoriesAreBoth, RetentionInvariant, PTL
=============================================================================
