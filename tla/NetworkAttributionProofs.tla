---------------------- MODULE NetworkAttributionProofs ----------------------
(***************************************************************************)
(* Proofs about the two sources of network flows.  For any threads, keys,  *)
(* transfers and sizes of the maps, every byte the eBPF probes account for *)
(* has one place, every other byte has a named way out, and a reset opens  *)
(* a new epoch; and for any sockets the counters of the fallback give each *)
(* byte once.                                                              *)
(***************************************************************************)
EXTENDS NetworkAttribution, FiniteSetTheorems, TLAPS

-----------------------------------------------------------------------------
(* The places of a transfer.                                               *)

Busy(th)   == thread[th].pc # "user"
Carried(t) == \E th \in Threads : Busy(th) /\ thread[th].transfer = t
InSlot(t)  == \E s \in Slots : t \in flows[s].transfers
Out(t)     == \E p \in drained : p[2] = t
InCount(t) == \E th \in Threads : t \in dropped[th] \cup thread[th].count

\* A busy thread carries a transfer of its own, an entry of the calls map
\* belongs to a busy thread, and there is no more of them than fit.
ThreadsOK ==
    /\ \A th \in Threads : ~Busy(th) => calls[th] = NoKey
    /\ \A th \in Threads : Busy(th) => /\ thread[th].key \in Keys
                                       /\ thread[th].transfer \in begun
    /\ \A th, other \in Threads :
          Busy(th) /\ Busy(other) /\ thread[th].transfer = thread[other].transfer => th = other
    /\ IsFiniteSet(Pending)

\* What a probe has read is still true of it when it acts on it, or its
\* transfer is known to be lost.
ProbesOK ==
    \A th \in Threads :
        /\ thread[th].pc = "call" /\ calls[th] = NoKey => thread[th].transfer \in unseen \cup wiped
        /\ thread[th].pc = "add" =>
              /\ thread[th].slot \in Slots
              /\ \/ thread[th].transfer \in raced
                 \/ flows[thread[th].slot].key = thread[th].key
        /\ thread[th].pc = "drop" => dropped[th] \subseteq thread[th].count
        /\ thread[th].pc # "drop" => thread[th].count = {}

\* A free slot holds nothing.
FreeIsEmpty == \A s \in Slots : flows[s].key = NoKey => flows[s].transfers = {}

\* A transfer that has begun is in one place.
OnePlace ==
    \A t \in Transfers :
        /\ InSlot(t) \/ Out(t) \/ InCount(t) => t \in begun /\ ~Carried(t)
        /\ ~(InSlot(t) /\ Out(t)) /\ ~(InCount(t) /\ (InSlot(t) \/ Out(t)))
        /\ \A s, r \in Slots : t \in flows[s].transfers /\ t \in flows[r].transfers => s = r

\* A transfer that returned bytes did so under the key its thread carries.
ReturnedOK ==
    \A p \in returned :
        /\ p[2] \in begun
        /\ \A th \in Threads : Busy(th) /\ thread[th].transfer = p[2] =>
              thread[th].pc # "call" /\ thread[th].key = p[1]

Counted(p) == \/ p \in drained
              \/ \E s \in Slots : flows[s].key = p[1] /\ p[2] \in flows[s].transfers
              \/ \E th \in Threads : \/ p[2] \in dropped[th]
                                     \/ thread[th].pc \in Probing /\ thread[th].transfer = p[2]
              \/ p[2] \in wiped \cup unseen \cup raced

NothingLost == \A p \in returned : Counted(p)

\* What was finished when a reset began leaves the flows map before the reset
\* turns to the calls map, and does not come back.
EpochOK ==
    /\ \A t \in closed : ~InSlot(t) /\ (InCount(t) => t \in overtaken)
    /\ \A t \in closed \cup before : t \in begun /\ ~Carried(t)
    /\ owner = "resetFlows" => \A s \in Slots : \A t \in before :
          t \in flows[s].transfers => flows[s].key \in left
    /\ owner = "resetCalls" => \A t \in before : ~InSlot(t)

KernelInv == /\ TypeOK /\ ThreadsOK /\ ProbesOK /\ FreeIsEmpty
             /\ OnePlace /\ ReturnedOK /\ NothingLost /\ EpochOK

-----------------------------------------------------------------------------
(* What the steps of a thread do to it.                                    *)

Thread == [pc : {"user", "call"} \cup Probing, key : Keys \cup {NoKey},
           transfer : Transfers \cup {NoTransfer}, slot : Slots \cup {NoSlot},
           count : SUBSET Transfers]

\* Only thread th moves, and it goes on with the call it is in.
Alone(th) == /\ thread' \in [Threads -> Thread]
             /\ \A other \in Threads \ {th} : thread'[other] = thread[other]
Keeps(th) == /\ Busy(th) /\ Busy(th)'
             /\ thread'[th].key = thread[th].key
             /\ thread'[th].transfer = thread[th].transfer

\* The entry probe takes a thread from user code into a call.
LEMMA EnterMoves ==
    ASSUME TypeOK, NEW th \in Threads, NEW k \in Keys, NEW t \in Transfers, Enter(th, k, t)
    PROVE  /\ Alone(th) /\ ~Busy(th) /\ t \notin begun /\ begun' = begun \cup {t}
           /\ thread'[th].pc = "call" /\ thread'[th].key = k /\ thread'[th].transfer = t
           /\ thread'[th].count = {}
<1> DEFINE c == [AtHome EXCEPT !.pc = "call", !.key = k, !.transfer = t]
<1>1. AtHome \in Thread /\ AtHome.count = {}
  BY DEF AtHome, Thread
<1>2. c \in Thread /\ c.pc = "call" /\ c.key = k /\ c.transfer = t /\ c.count = {}
  BY <1>1 DEF Thread
<1>3. thread' = [thread EXCEPT ![th] = c] /\ thread[th].pc = "user"
      /\ t \notin begun /\ begun' = begun \cup {t}
  BY DEF Enter
<1> HIDE DEF c
<1>4. thread \in [Threads -> Thread]
  BY DEF TypeOK, Thread
<1>5. Alone(th) /\ thread'[th] = c
  BY <1>2, <1>3, <1>4 DEF Alone
<1> QED
  BY <1>2, <1>3, <1>5 DEF Busy

\* A return probe that ends takes its thread back to user code.
LEMMA LeaveMoves ==
    ASSUME TypeOK, NEW th \in Threads, thread' = [thread EXCEPT ![th] = AtHome]
    PROVE  Alone(th) /\ thread'[th] = AtHome /\ ~Busy(th)'
<1>1. AtHome \in Thread /\ AtHome.pc = "user"
  BY DEF AtHome, Thread
<1>2. thread \in [Threads -> Thread]
  BY DEF TypeOK, Thread
<1> QED
  BY <1>1, <1>2 DEF Alone, Busy

\* The return of a call that moved bytes: the probe goes on if it finds the
\* entry of the call.
LEMMA ReturnMoves ==
    ASSUME TypeOK, NEW th \in Threads, ReturnBytes(th)
    PROVE  /\ Alone(th) /\ thread[th].pc = "call"
           /\ \/ calls[th] = NoKey /\ thread'[th] = AtHome
              \/ calls[th] # NoKey /\ Keeps(th) /\ thread'[th].pc = "lookup"
                 /\ thread'[th].count = thread[th].count
<1>0. thread \in [Threads -> Thread]
  BY DEF TypeOK, Thread
<1>1. CASE calls[th] = NoKey
  <2>1. thread' = [thread EXCEPT ![th] = AtHome] /\ thread[th].pc = "call"
    BY <1>1 DEF ReturnBytes
  <2> QED
    BY <1>1, <2>1, LeaveMoves
<1>2. CASE calls[th] # NoKey
  <2> DEFINE c == [thread[th] EXCEPT !.pc = "lookup"]
  <2>1. /\ c \in Thread /\ c.pc = "lookup" /\ c.key = thread[th].key
        /\ c.transfer = thread[th].transfer /\ c.count = thread[th].count
    BY <1>0 DEF Thread, Probing
  <2>2. thread' = [thread EXCEPT ![th] = c] /\ thread[th].pc = "call"
    BY <1>2 DEF ReturnBytes
  <2> HIDE DEF c
  <2> QED
    BY <1>0, <1>2, <2>1, <2>2 DEF Alone, Keeps, Busy
<1> QED
  BY <1>1, <1>2

\* A lookup that finds the entry leaves the probe with a pointer to it.
Points(th) == /\ thread'[th].pc = "add" /\ thread'[th].count = thread[th].count
              /\ thread'[th].slot \in Slots
              /\ flows[thread'[th].slot].key = thread[th].key

\* The steps of a return probe before its last one.
LEMMA ProbeMoves ==
    ASSUME TypeOK, NEW th \in Threads, Lookup(th) \/ Insert(th) \/ LookupAgain(th)
    PROVE  /\ Alone(th) /\ Keeps(th)
           /\ thread[th].pc \in {"lookup", "insert", "again"}
           /\ thread'[th].pc \in {"insert", "again", "drop", "add"}
           /\ \/ /\ thread'[th].pc \in {"insert", "again"}
                 /\ thread'[th].count = thread[th].count
              \/ thread'[th].pc = "drop" /\ thread'[th].count = dropped[th]
              \/ Points(th)
<1>0. thread \in [Threads -> Thread] /\ dropped \in [Threads -> SUBSET Transfers]
  BY DEF TypeOK, Thread
<1> DEFINE found == Find(thread[th].key)
           s     == CHOOSE r \in found : TRUE
<1>1. found # {} => s \in Slots /\ flows[s].key = thread[th].key
  BY DEF Find
<1>2. thread[th].pc \in {"lookup", "insert", "again"}
  BY DEF Lookup, Insert, LookupAgain
<1> DEFINE Moved(c) == thread' = [thread EXCEPT ![th] = c] /\ c \in Thread
                       /\ c.key = thread[th].key /\ c.transfer = thread[th].transfer
<1>3. ASSUME NEW pc \in {"insert", "again"}, thread' = [thread EXCEPT ![th].pc = pc]
      PROVE  \E c : Moved(c) /\ c.pc = pc /\ c.count = thread[th].count
  <2> DEFINE c == [thread[th] EXCEPT !.pc = pc]
  <2>1. /\ c \in Thread /\ c.pc = pc /\ c.key = thread[th].key
        /\ c.transfer = thread[th].transfer /\ c.count = thread[th].count
    BY <1>0 DEF Thread, Probing
  <2>2. thread' = [thread EXCEPT ![th] = c]
    BY <1>3
  <2> HIDE DEF c
  <2> QED
    BY <2>1, <2>2
<1>4. ASSUME found # {}, thread' = [thread EXCEPT ![th].pc = "add", ![th].slot = s]
      PROVE  \E c : Moved(c) /\ c.pc = "add" /\ c.slot = s /\ c.count = thread[th].count
  <2> DEFINE c == [thread[th] EXCEPT !.pc = "add", !.slot = s]
  <2> HIDE DEF s
  <2>1. /\ c \in Thread /\ c.pc = "add" /\ c.key = thread[th].key /\ c.slot = s
        /\ c.transfer = thread[th].transfer /\ c.count = thread[th].count
    BY <1>0, <1>1, <1>4 DEF Thread, Probing
  <2>2. thread' = [thread EXCEPT ![th] = c]
    BY <1>0, <1>4
  <2> HIDE DEF c
  <2> QED
    BY <2>1, <2>2
<1>5. ASSUME thread' = [thread EXCEPT ![th].pc = "drop", ![th].count = dropped[th]]
      PROVE  \E c : Moved(c) /\ c.pc = "drop" /\ c.count = dropped[th]
  <2> DEFINE c == [thread[th] EXCEPT !.pc = "drop", !.count = dropped[th]]
  <2>1. /\ c \in Thread /\ c.pc = "drop" /\ c.key = thread[th].key
        /\ c.transfer = thread[th].transfer /\ c.count = dropped[th]
    BY <1>0 DEF Thread, Probing
  <2>2. thread' = [thread EXCEPT ![th] = c]
    BY <1>0, <1>5
  <2> HIDE DEF c
  <2> QED
    BY <2>1, <2>2
<1>6. \E c : /\ Moved(c)
             /\ \/ c.pc \in {"insert", "again"} /\ c.count = thread[th].count
                \/ c.pc = "drop" /\ c.count = dropped[th]
                \/ /\ c.pc = "add" /\ c.count = thread[th].count
                   /\ c.slot \in Slots /\ flows[c.slot].key = thread[th].key
  <2> HIDE DEF s, Moved
  <2>1. CASE Lookup(th)
    <3>1. CASE found = {}
      <4>1. thread' = [thread EXCEPT ![th].pc = "insert"]
        BY <2>1, <3>1 DEF Lookup
      <4> QED
        BY <1>3, <4>1
    <3>2. CASE found # {}
      <4>1. thread' = [thread EXCEPT ![th].pc = "add", ![th].slot = s]
        BY <2>1, <3>2 DEF Lookup, s
      <4> HIDE DEF found
      <4> QED
        BY <1>1, <1>4, <3>2, <4>1
    <3> QED
      BY <3>1, <3>2
  <2>2. CASE Insert(th)
    <3>1. thread' = [thread EXCEPT ![th].pc = "again"]
      BY <2>2 DEF Insert
    <3> QED
      BY <1>3, <3>1
  <2>3. CASE LookupAgain(th)
    <3>1. CASE found = {}
      <4>1. thread' = [thread EXCEPT ![th].pc = "drop", ![th].count = dropped[th]]
        BY <2>3, <3>1 DEF LookupAgain
      <4> QED
        BY <1>5, <4>1
    <3>2. CASE found # {}
      <4>1. thread' = [thread EXCEPT ![th].pc = "add", ![th].slot = s]
        BY <2>3, <3>2 DEF LookupAgain, s
      <4> HIDE DEF found
      <4> QED
        BY <1>1, <1>4, <3>2, <4>1
    <3> QED
      BY <3>1, <3>2
  <2> QED
    BY <2>1, <2>2, <2>3
<1>7. PICK c : /\ Moved(c)
               /\ \/ c.pc \in {"insert", "again"} /\ c.count = thread[th].count
                  \/ c.pc = "drop" /\ c.count = dropped[th]
                  \/ /\ c.pc = "add" /\ c.count = thread[th].count
                     /\ c.slot \in Slots /\ flows[c.slot].key = thread[th].key
  BY <1>6
<1>8. thread'[th] = c /\ Alone(th)
  BY <1>0, <1>7 DEF Alone
<1> QED
  BY <1>2, <1>7, <1>8 DEF Keeps, Busy, Points

-----------------------------------------------------------------------------
(* Types and bounds.                                                       *)

\* One entry per key, and a free slot is empty.
SlotsOK ==
    /\ flows \in [Slots -> [key : Keys \cup {NoKey}, transfers : SUBSET Transfers]]
    /\ \A s, r \in Slots : flows[s].key = flows[r].key => s = r \/ flows[s] = Empty
    /\ FreeIsEmpty

\* The steps that touch neither the flows map nor the calls map nor a thread.
Aside ==
    \/ BeginDrain \/ EndDrain \/ BeginReset \/ FlowsCleared \/ ResetStats \/ ResetFails
    \/ UNCHANGED vars

\* These leave the threads, both maps and what they have handed out alone.
LEMMA AsideFrame ==
    ASSUME Aside
    PROVE  UNCHANGED <<thread, calls, flows, begun, returned, drained, unseen, raced>>
  BY DEF Aside, BeginDrain, EndDrain, BeginReset, FlowsCleared, ResetStats, ResetFails, vars,
         mapVars, obsVars

\* The steps of the kernel and its tracker, one by one.
LEMMA StepCases ==
    ASSUME [Next]_vars
    PROVE  \/ \E th \in Threads, k \in Keys, t \in Transfers : Enter(th, k, t)
           \/ \E th \in Threads : ReturnNothing(th)
           \/ \E th \in Threads : ReturnBytes(th)
           \/ \E th \in Threads : Lookup(th) \/ Insert(th) \/ LookupAgain(th)
           \/ \E th \in Threads : RecordDrop(th)
           \/ \E th \in Threads : AddBytes(th)
           \/ \E s \in Slots : DrainEntry(s)
           \/ \E s \in Slots : ResetEntry(s)
           \/ \E th \in Threads : ResetCall(th)
           \/ Aside
  BY DEF Next, Probe, Drain, Reset, Aside

\* What Insert does to the flows map: nothing, or a free slot gets the key.
LEMMA InsertFlows ==
    ASSUME TypeOK, FreeIsEmpty, ThreadsOK, NEW th \in Threads, Insert(th)
    PROVE  \/ UNCHANGED flows
           \/ \E s \in Slots :
                /\ flows[s].key = NoKey /\ flows[s].transfers = {}
                /\ thread[th].key \in Keys /\ Find(thread[th].key) = {}
                /\ flows' = [flows EXCEPT ![s] = [key |-> thread[th].key, transfers |-> {}]]
<1>1. thread[th].key \in Keys
  BY DEF Insert, ThreadsOK, Busy
<1>2. CASE Find(thread[th].key) # {} \/ Used = Slots
  BY <1>2 DEF Insert
<1>3. CASE ~(Find(thread[th].key) # {} \/ Used = Slots)
  <2>1. PICK s \in Slots \ Used :
            flows' = [flows EXCEPT ![s] = [key |-> thread[th].key, transfers |-> {}]]
    BY <1>3 DEF Insert
  <2>2. flows[s].key = NoKey /\ flows[s].transfers = {}
    BY <2>1 DEF Used, FreeIsEmpty
  <2> QED
    BY <1>1, <1>3, <2>1, <2>2
<1> QED
  BY <1>2, <1>3

\* The flows map keeps one entry per key.
LEMMA SlotsStep ==
    ASSUME TypeOK, FreeIsEmpty, ThreadsOK, [Next]_vars
    PROVE  SlotsOK'
<1>0. SlotsOK
  BY DEF SlotsOK, TypeOK
<1>1. ASSUME UNCHANGED flows
      PROVE  SlotsOK'
  BY <1>0, <1>1 DEF SlotsOK, FreeIsEmpty
<1>2. ASSUME NEW s \in Slots, flows' = [flows EXCEPT ![s] = Empty]
      PROVE  SlotsOK'
  <2>1. Empty \in [key : Keys \cup {NoKey}, transfers : SUBSET Transfers]
        /\ Empty.key = NoKey /\ Empty.transfers = {}
    BY DEF Empty
  <2>2. /\ flows' \in [Slots -> [key : Keys \cup {NoKey}, transfers : SUBSET Transfers]]
        /\ flows'[s] = Empty /\ \A r \in Slots \ {s} : flows'[r] = flows[r]
    BY <1>0, <1>2, <2>1 DEF SlotsOK
  <2>3. \A r \in Slots : flows[r].key = NoKey => flows[r] = Empty
    BY <1>0 DEF SlotsOK, FreeIsEmpty, Empty
  <2> HIDE DEF Empty
  <2> QED
    BY <1>0, <2>1, <2>2, <2>3 DEF SlotsOK, FreeIsEmpty
<1>3. ASSUME NEW th \in Threads, Insert(th)
      PROVE  SlotsOK'
  <2>1. ASSUME NEW s \in Slots,
               flows[s].key = NoKey, thread[th].key \in Keys, Find(thread[th].key) = {},
               flows' = [flows EXCEPT ![s] = [key |-> thread[th].key, transfers |-> {}]]
        PROVE  SlotsOK'
    <3>1. /\ flows' \in [Slots -> [key : Keys \cup {NoKey}, transfers : SUBSET Transfers]]
          /\ flows'[s].key = thread[th].key /\ flows'[s].transfers = {}
          /\ \A r \in Slots \ {s} : flows'[r] = flows[r]
      BY <1>0, <2>1 DEF SlotsOK
    <3>2. \A r \in Slots : flows[r].key # thread[th].key
      BY <2>1 DEF Find
    <3>3. thread[th].key # NoKey
      BY <2>1, KernelAssumption
    <3> QED
      BY <1>0, <3>1, <3>2, <3>3 DEF SlotsOK, FreeIsEmpty
  <2> QED
    BY <1>1, <1>3, <2>1, InsertFlows
<1>4. ASSUME NEW th \in Threads, AddBytes(th)
      PROVE  SlotsOK'
  <2> DEFINE s == thread[th].slot
  <2>1. CASE s \in Used
    <3>1. thread[th].transfer \in Transfers
      BY <1>4 DEF AddBytes, ThreadsOK, Busy, TypeOK
    <3>2. flows' = [flows EXCEPT ![s].transfers = @ \cup {thread[th].transfer}]
          /\ s \in Slots /\ flows[s].key # NoKey
      BY <1>4, <2>1 DEF AddBytes, Used
    <3>3. /\ flows' \in [Slots -> [key : Keys \cup {NoKey}, transfers : SUBSET Transfers]]
          /\ flows'[s].key = flows[s].key /\ \A r \in Slots \ {s} : flows'[r] = flows[r]
      BY <1>0, <3>1, <3>2 DEF SlotsOK
    <3>4. \A r \in Slots \ {s} : flows[r].key # flows[s].key
      BY <1>0, <3>2 DEF SlotsOK, Empty
    <3> QED
      BY <1>0, <3>2, <3>3, <3>4 DEF SlotsOK, FreeIsEmpty
  <2>2. CASE s \notin Used
    BY <1>1, <1>4, <2>2 DEF AddBytes
  <2> QED
    BY <2>1, <2>2
<1>5. ASSUME NEW s \in Slots, DrainEntry(s) \/ ResetEntry(s)
      PROVE  SlotsOK'
  BY <1>2, <1>5 DEF DrainEntry, ResetEntry, Free
<1>6. ASSUME NEW th \in Threads,
             ReturnNothing(th) \/ ReturnBytes(th) \/ Lookup(th) \/ LookupAgain(th)
                \/ RecordDrop(th) \/ ResetCall(th)
      PROVE  SlotsOK'
  BY <1>1, <1>6 DEF ReturnNothing, ReturnBytes, Lookup, LookupAgain, RecordDrop, ResetCall,
                    mapVars
<1>7. ASSUME NEW th \in Threads, NEW k \in Keys, NEW t \in Transfers, Enter(th, k, t)
      PROVE  SlotsOK'
  BY <1>1, <1>7 DEF Enter
<1>8. CASE Aside
  BY <1>1, <1>8, AsideFrame
<1> QED
  BY <1>3, <1>4, <1>5, <1>6, <1>7, <1>8, StepCases

\* The calls map keeps to its size.
CallsOK == /\ calls \in [Threads -> Keys \cup {NoKey}]
           /\ IsFiniteSet(Pending) /\ Cardinality(Pending) <= MaxCalls

\* No step lets the calls map outgrow max_entries (remember_socket).
LEMMA CallsStep ==
    ASSUME TypeOK, ThreadsOK, [Next]_vars
    PROVE  CallsOK'
<1>0. CallsOK /\ MaxCalls \in Nat /\ Cardinality(Pending) \in Nat
  BY FS_CardinalityType, KernelAssumption DEF CallsOK, TypeOK, ThreadsOK, Pending
<1>1. ASSUME UNCHANGED calls
      PROVE  CallsOK'
  BY <1>0, <1>1 DEF CallsOK, Pending
<1>2. ASSUME NEW th \in Threads, calls' = [calls EXCEPT ![th] = NoKey]
      PROVE  CallsOK'
  <2>1. calls' \in [Threads -> Keys \cup {NoKey}] /\ Pending' \subseteq Pending
    BY <1>0, <1>2 DEF CallsOK, Pending
  <2>2. IsFiniteSet(Pending') /\ Cardinality(Pending') <= Cardinality(Pending)
    BY <1>0, <2>1, FS_Subset DEF CallsOK
  <2>3. Cardinality(Pending') \in Nat
    BY <2>2, FS_CardinalityType
  <2> QED
    BY <1>0, <2>1, <2>2, <2>3 DEF CallsOK
<1>3. ASSUME NEW th \in Threads, NEW k \in Keys, NEW t \in Transfers, Enter(th, k, t)
      PROVE  CallsOK'
  <2>1. CASE th \in Pending \/ Cardinality(Pending) < MaxCalls
    <3>1. calls' = [calls EXCEPT ![th] = k] /\ k # NoKey
      BY <1>3, <2>1, KernelAssumption DEF Enter
    <3>2. calls' \in [Threads -> Keys \cup {NoKey}] /\ Pending' = Pending \cup {th}
      BY <1>0, <3>1 DEF CallsOK, Pending
    <3>3. IsFiniteSet(Pending \cup {th})
      BY <1>0, FS_AddElement DEF CallsOK
    <3>4. Cardinality(Pending \cup {th})
             = IF th \in Pending THEN Cardinality(Pending) ELSE Cardinality(Pending) + 1
      BY <1>0, FS_AddElement DEF CallsOK
    <3> QED
      BY <1>0, <2>1, <3>2, <3>3, <3>4 DEF CallsOK
  <2>2. CASE ~(th \in Pending \/ Cardinality(Pending) < MaxCalls)
    BY <1>1, <1>3, <2>2 DEF Enter
  <2> QED
    BY <2>1, <2>2
<1>4. ASSUME NEW th \in Threads,
             ReturnNothing(th) \/ RecordDrop(th) \/ AddBytes(th) \/ ResetCall(th)
      PROVE  CallsOK'
  BY <1>2, <1>4 DEF ReturnNothing, RecordDrop, AddBytes, ResetCall, Leave
<1>5. ASSUME NEW th \in Threads,
             ReturnBytes(th) \/ Lookup(th) \/ Insert(th) \/ LookupAgain(th)
      PROVE  CallsOK'
  BY <1>1, <1>5 DEF ReturnBytes, Lookup, Insert, LookupAgain, mapVars
<1>6. ASSUME NEW s \in Slots, DrainEntry(s) \/ ResetEntry(s)
      PROVE  CallsOK'
  BY <1>1, <1>6 DEF DrainEntry, ResetEntry
<1>7. CASE Aside
  BY <1>1, <1>7, AsideFrame
<1> QED
  BY <1>3, <1>4, <1>5, <1>6, <1>7, StepCases

\* The steps of a thread leave every other one where it is and make a thread.
LEMMA ThreadMoves ==
    ASSUME TypeOK, [Next]_vars
    PROVE  \/ UNCHANGED thread
           \/ \E th \in Threads : Alone(th)
  <1>1. ASSUME NEW th \in Threads,
               ReturnNothing(th) \/ RecordDrop(th) \/ AddBytes(th)
        PROVE  Alone(th)
    BY <1>1, LeaveMoves DEF ReturnNothing, RecordDrop, AddBytes, Leave
  <1>2. ASSUME NEW th \in Threads, ReturnBytes(th)
        PROVE  Alone(th)
    BY <1>2, ReturnMoves
  <1>3. ASSUME NEW th \in Threads, Lookup(th) \/ Insert(th) \/ LookupAgain(th)
        PROVE  Alone(th)
    BY <1>3, ProbeMoves
  <1>4. ASSUME NEW th \in Threads, NEW k \in Keys, NEW t \in Transfers, Enter(th, k, t)
        PROVE  Alone(th)
    BY <1>4, EnterMoves
  <1>5. ASSUME NEW s \in Slots, DrainEntry(s) \/ ResetEntry(s)
        PROVE  UNCHANGED thread
    BY <1>5 DEF DrainEntry, ResetEntry
  <1>6. ASSUME NEW th \in Threads, ResetCall(th)
        PROVE  UNCHANGED thread
    BY <1>6 DEF ResetCall
  <1> QED
    BY <1>1, <1>2, <1>3, <1>4, <1>5, <1>6, StepCases, AsideFrame

\* The transfers of a set of pairs, and what the drain and the probes add to
\* the observations, are transfers.
Sets ==
    /\ {drained, returned} \subseteq SUBSET (Keys \X Transfers)
    /\ dropped \in [Threads -> SUBSET Transfers]
    /\ {begun, unseen, raced, wiped, before, closed, overtaken} \subseteq SUBSET Transfers

\* The sets of transfers hold transfers after every step.
LEMMA SetsStep ==
    ASSUME TypeOK, FreeIsEmpty, ThreadsOK, [Next]_vars
    PROVE  Sets'
<1>0. Sets /\ thread \in [Threads -> Thread]
  BY DEF Sets, TypeOK, Thread
<1>1. \A th \in Threads : Busy(th) => thread[th].key \in Keys /\ thread[th].transfer \in Transfers
  BY <1>0 DEF ThreadsOK, Sets
<1>2. \A s \in Slots : flows[s].transfers \subseteq Transfers
  BY DEF TypeOK
<1>3. ASSUME NEW s \in Slots, Free(s)
      PROVE  raced' \in SUBSET Transfers
  BY <1>0, <1>1, <1>3 DEF Free, Sets, Busy
<1>4. ASSUME NEW th \in Threads, NEW k \in Keys, NEW t \in Transfers, Enter(th, k, t)
      PROVE  Sets'
  BY <1>0, <1>4 DEF Enter, Sets
<1>5. ASSUME NEW th \in Threads, ReturnNothing(th) \/ AddBytes(th)
      PROVE  Sets'
  BY <1>0, <1>5 DEF ReturnNothing, AddBytes, obsVars, Sets
<1>6. ASSUME NEW th \in Threads, ReturnBytes(th)
      PROVE  Sets'
  <2>1. <<thread[th].key, thread[th].transfer>> \in Keys \X Transfers
    BY <1>1, <1>6 DEF ReturnBytes, Busy
  <2> QED
    BY <1>0, <1>6, <2>1 DEF ReturnBytes, mapVars, Sets
<1>7. ASSUME NEW th \in Threads, Lookup(th) \/ Insert(th) \/ LookupAgain(th)
      PROVE  Sets'
  BY <1>0, <1>7 DEF Lookup, Insert, LookupAgain, mapVars, obsVars, Sets
<1>8. ASSUME NEW th \in Threads, RecordDrop(th)
      PROVE  Sets'
  <2>1. thread[th].count \cup {thread[th].transfer} \in SUBSET Transfers
    BY <1>0, <1>1, <1>8 DEF RecordDrop, Busy, Thread
  <2> QED
    BY <1>0, <1>8, <2>1 DEF RecordDrop, obsVars, Sets
<1>9. ASSUME NEW s \in Slots, DrainEntry(s)
      PROVE  Sets'
  <2>1. flows[s].key \in Keys
    BY <1>9 DEF DrainEntry, Used, TypeOK
  <2>2. {<<flows[s].key, t>> : t \in flows[s].transfers} \subseteq Keys \X Transfers
    BY <1>2, <2>1
  <2> QED
    BY <1>0, <1>3, <1>9, <2>2 DEF DrainEntry, Sets
<1>10. ASSUME NEW s \in Slots, ResetEntry(s)
       PROVE  Sets'
  BY <1>0, <1>2, <1>3, <1>10 DEF ResetEntry, Sets
<1>11. ASSUME NEW th \in Threads, ResetCall(th)
       PROVE  Sets'
  BY <1>0, <1>1, <1>11 DEF ResetCall, Busy, Sets
<1>12. CASE BeginReset
  <2>1. Second(returned) \subseteq Transfers
    BY <1>0 DEF Second, Sets
  <2> QED
    BY <1>0, <1>12, <2>1 DEF BeginReset, mapVars, Sets
<1>13. CASE ResetStats
  <2>1. AllDropped \subseteq Transfers
    BY <1>0 DEF AllDropped, Sets
  <2>2. UNION {thread[th].count : th \in Threads} \subseteq Transfers
    BY <1>0 DEF Thread
  <2> QED
    BY <1>0, <1>13, <2>1, <2>2 DEF ResetStats, Sets
<1>14. CASE BeginDrain \/ EndDrain \/ FlowsCleared \/ ResetFails \/ UNCHANGED vars
  BY <1>0, <1>14 DEF BeginDrain, EndDrain, FlowsCleared, ResetFails, mapVars, obsVars, vars, Sets
<1> QED
  BY <1>4, <1>5, <1>6, <1>7, <1>8, <1>9, <1>10, <1>11, <1>12, <1>13, <1>14, StepCases
     DEF Aside

\* The tracker holds its lock for one purpose and deletes keys of the maps.
LEMMA TrackerStep ==
    ASSUME TypeOK, [Next]_vars
    PROVE  owner' \in {"nobody", "drain", "resetFlows", "resetCalls"}
           /\ left' \subseteq Keys \cup Threads
<1>0. owner \in {"nobody", "drain", "resetFlows", "resetCalls"} /\ left \subseteq Keys \cup Threads
  BY DEF TypeOK
<1>1. {flows[s].key : s \in Used} \subseteq Keys /\ Pending \subseteq Threads
  BY DEF TypeOK, Used, Pending
<1>2. CASE Aside
  BY <1>0, <1>1, <1>2 DEF Aside, BeginDrain, EndDrain, BeginReset, FlowsCleared, ResetStats,
                          ResetFails, vars, tracker
<1>3. ASSUME NEW s \in Slots, DrainEntry(s) \/ ResetEntry(s)
      PROVE  UNCHANGED owner /\ left' \subseteq left
  BY <1>3 DEF DrainEntry, ResetEntry, tracker
<1>4. ASSUME NEW th \in Threads, ResetCall(th)
      PROVE  UNCHANGED owner /\ left' \subseteq left
  BY <1>4 DEF ResetCall
<1>5. ASSUME NEW th \in Threads,
             \/ ReturnNothing(th) \/ ReturnBytes(th) \/ RecordDrop(th) \/ AddBytes(th)
             \/ Lookup(th) \/ Insert(th) \/ LookupAgain(th)
             \/ \E k \in Keys, t \in Transfers : Enter(th, k, t)
      PROVE  UNCHANGED <<owner, left>>
  BY <1>5 DEF ReturnNothing, ReturnBytes, RecordDrop, AddBytes, Lookup, Insert, LookupAgain,
              Enter, tracker
<1> QED
  BY <1>0, <1>2, <1>3, <1>4, <1>5, StepCases

\* Every step keeps the types, the bounds of both maps, one entry per key, and free
\* slots empty.
LEMMA KernelTypeStep ==
    ASSUME TypeOK, FreeIsEmpty, ThreadsOK, [Next]_vars
    PROVE  TypeOK' /\ FreeIsEmpty'
<1>1. thread' \in [Threads -> Thread]
  <2>1. thread \in [Threads -> Thread]
    BY DEF TypeOK, Thread
  <2> QED
    BY <2>1, ThreadMoves DEF Alone
<1>2. SlotsOK' /\ CallsOK' /\ Sets'
  BY SlotsStep, CallsStep, SetsStep
<1>3. owner' \in {"nobody", "drain", "resetFlows", "resetCalls"} /\ left' \subseteq Keys \cup Threads
  BY TrackerStep
<1> QED
  BY <1>1, <1>2, <1>3 DEF TypeOK, Thread, SlotsOK, CallsOK, Sets, Pending

-----------------------------------------------------------------------------
(* Threads and probes.                                                     *)

\* A thread that ends its call or goes on with it keeps transfers apart.
LEMMA ThreadFrame ==
    ASSUME TypeOK, ThreadsOK, CallsOK', begun \subseteq begun', NEW th \in Threads,
           \A other \in Threads \ {th} : thread'[other] = thread[other],
           Keeps(th) \/ (~Busy(th)' /\ calls'[th] = NoKey),
           \A other \in Threads : calls[other] = NoKey => calls'[other] = NoKey
    PROVE  ThreadsOK'
<1>1. \A other \in Threads : Busy(other)' =>
         /\ Busy(other) /\ thread'[other].key = thread[other].key
         /\ thread'[other].transfer = thread[other].transfer
  BY DEF Keeps, Busy
<1>2. \A other \in Threads : ~Busy(other)' => calls'[other] = NoKey
  BY DEF Keeps, Busy, ThreadsOK
<1> QED
  BY <1>1, <1>2 DEF ThreadsOK, CallsOK

\* Every step leaves each transfer to one thread, and its call no entry after it ends.
LEMMA ThreadsStep ==
    ASSUME TypeOK, ThreadsOK, [Next]_vars
    PROVE  ThreadsOK'
<1>0. CallsOK' /\ calls \in [Threads -> Keys \cup {NoKey}]
  BY CallsStep DEF TypeOK
<1>1. ASSUME UNCHANGED thread, begun \subseteq begun',
             \A th \in Threads : calls[th] = NoKey => calls'[th] = NoKey
      PROVE  ThreadsOK'
  BY <1>0, <1>1 DEF ThreadsOK, Busy, CallsOK
<1>2. ASSUME NEW th \in Threads, NEW k \in Keys, NEW t \in Transfers, Enter(th, k, t)
      PROVE  ThreadsOK'
  <2>1. /\ Alone(th) /\ ~Busy(th) /\ t \notin begun /\ begun' = begun \cup {t}
        /\ thread'[th].pc = "call" /\ thread'[th].key = k /\ thread'[th].transfer = t
    BY <1>2, EnterMoves
  <2>2. \A other \in Threads \ {th} : calls'[other] = calls[other]
    BY <1>0, <1>2 DEF Enter
  <2>3. \A other \in Threads \ {th} : thread'[other] = thread[other]
    BY <2>1 DEF Alone
  <2> QED
    BY <1>0, <2>1, <2>2, <2>3 DEF ThreadsOK, Busy, CallsOK
<1>3. ASSUME NEW th \in Threads, ReturnNothing(th) \/ RecordDrop(th) \/ AddBytes(th)
      PROVE  ThreadsOK'
  <2>1. Leave(th) /\ UNCHANGED begun
    BY <1>3 DEF ReturnNothing, RecordDrop, AddBytes, obsVars
  <2>2. Alone(th) /\ ~Busy(th)'
    BY <2>1, LeaveMoves DEF Leave
  <2>3. calls'[th] = NoKey /\ \A other \in Threads \ {th} : calls'[other] = calls[other]
    BY <1>0, <2>1 DEF Leave
  <2> QED
    BY <1>0, <2>1, <2>2, <2>3, ThreadFrame DEF Alone
<1>4. ASSUME NEW th \in Threads, ReturnBytes(th)
      PROVE  ThreadsOK'
  <2>1. UNCHANGED <<calls, begun>>
    BY <1>4 DEF ReturnBytes, mapVars
  <2>2. Alone(th) /\ (Keeps(th) \/ (~Busy(th)' /\ calls[th] = NoKey))
    BY <1>4, ReturnMoves DEF Busy, AtHome
  <2> QED
    BY <1>0, <2>1, <2>2, ThreadFrame DEF Alone
<1>5. ASSUME NEW th \in Threads, Lookup(th) \/ Insert(th) \/ LookupAgain(th)
      PROVE  ThreadsOK'
  <2>1. UNCHANGED <<calls, begun>>
    BY <1>5 DEF Lookup, Insert, LookupAgain, mapVars, obsVars
  <2>2. Alone(th) /\ Keeps(th)
    BY <1>5, ProbeMoves
  <2> QED
    BY <1>0, <2>1, <2>2, ThreadFrame DEF Alone
<1>6. ASSUME NEW s \in Slots, DrainEntry(s) \/ ResetEntry(s)
      PROVE  ThreadsOK'
  BY <1>1, <1>6 DEF DrainEntry, ResetEntry
<1>7. ASSUME NEW th \in Threads, ResetCall(th)
      PROVE  ThreadsOK'
  BY <1>0, <1>1, <1>7 DEF ResetCall
<1>8. CASE Aside
  BY <1>1, <1>8, AsideFrame
<1> QED
  BY <1>2, <1>3, <1>4, <1>5, <1>6, <1>7, <1>8, StepCases

\* What one thread's probe knows.
ProbeOK(th) ==
    /\ thread[th].pc = "call" /\ calls[th] = NoKey => thread[th].transfer \in unseen \cup wiped
    /\ thread[th].pc = "add" =>
          /\ thread[th].slot \in Slots
          /\ \/ thread[th].transfer \in raced
             \/ flows[thread[th].slot].key = thread[th].key
    /\ thread[th].pc = "drop" => dropped[th] \subseteq thread[th].count
    /\ thread[th].pc # "drop" => thread[th].count = {}

\* The steps of others that leave what a probe knows true.
LEMMA ProbeFrame ==
    ASSUME NEW th \in Threads, ProbeOK(th), thread'[th] = thread[th],
           calls'[th] = NoKey => calls[th] = NoKey \/ thread[th].pc # "call"
                                  \/ thread[th].transfer \in wiped',
           dropped'[th] \subseteq dropped[th],
           unseen \subseteq unseen', wiped \subseteq wiped', raced \subseteq raced',
           \A s \in Slots : \/ flows[s].key = NoKey \/ flows'[s].key = flows[s].key
                            \/ thread[th].pc = "add" /\ thread[th].slot = s =>
                                  thread[th].transfer \in raced',
           thread[th].pc = "add" => thread[th].key # NoKey
    PROVE  ProbeOK(th)'
<1>1. thread[th].pc = "add" =>
          /\ thread[th].slot \in Slots
          /\ \/ thread[th].transfer \in raced'
             \/ flows'[thread[th].slot].key = thread[th].key
  BY DEF ProbeOK
<1> QED
  BY <1>1 DEF ProbeOK

\* No step takes from a probe what it has read but by naming the loss: the slot that
\* Drain or Reset frees under its pointer, the call that Reset deletes.
LEMMA ProbesStep ==
    ASSUME TypeOK, FreeIsEmpty, ThreadsOK, ProbesOK, [Next]_vars
    PROVE  ProbesOK'
<1>0. /\ \A th \in Threads : ProbeOK(th)
      /\ \A th \in Threads : thread[th].pc = "add" => thread[th].key # NoKey
  BY KernelAssumption DEF ProbesOK, ProbeOK, ThreadsOK, Busy
<1>1. ASSUME \A th \in Threads : ProbeOK(th)'
      PROVE  ProbesOK'
  BY <1>1 DEF ProbesOK, ProbeOK
<1>2. ASSUME NEW th \in Threads, NEW k \in Keys, NEW t \in Transfers, Enter(th, k, t)
      PROVE  ProbesOK'
  <2>1. /\ Alone(th) /\ thread'[th].pc = "call" /\ thread'[th].transfer = t
        /\ thread'[th].count = {}
    BY <1>2, EnterMoves
  <2>2. /\ \A other \in Threads \ {th} : calls'[other] = calls[other]
        /\ calls'[th] # NoKey \/ t \in unseen'
        /\ UNCHANGED <<flows, dropped, raced, wiped>> /\ unseen \subseteq unseen'
    BY <1>2, KernelAssumption DEF Enter, TypeOK
  <2>3. ProbeOK(th)'
    BY <2>1, <2>2 DEF ProbeOK
  <2>4. \A other \in Threads \ {th} : ProbeOK(other)'
    BY <1>0, <2>1, <2>2, ProbeFrame DEF Alone
  <2> QED
    BY <1>1, <2>3, <2>4
<1>3. ASSUME NEW th \in Threads, ReturnNothing(th) \/ RecordDrop(th) \/ AddBytes(th)
      PROVE  ProbesOK'
  <2>1. Leave(th) /\ UNCHANGED <<unseen, wiped, raced>>
    BY <1>3 DEF ReturnNothing, RecordDrop, AddBytes, obsVars
  <2>2. Alone(th) /\ thread'[th] = AtHome
    BY <2>1, LeaveMoves DEF Leave
  <2>3. ProbeOK(th)'
    BY <2>2 DEF ProbeOK, AtHome
  <2>4. \A other \in Threads \ {th} : calls'[other] = calls[other] /\ dropped'[other] = dropped[other]
    BY <1>3, <2>1 DEF Leave, TypeOK, ReturnNothing, RecordDrop, AddBytes
  <2>5. \A s \in Slots : flows'[s].key = flows[s].key
    BY <1>3 DEF TypeOK, ReturnNothing, RecordDrop, AddBytes, Used
  <2>6. \A other \in Threads \ {th} : ProbeOK(other)'
    BY <1>0, <2>1, <2>2, <2>4, <2>5, ProbeFrame DEF Alone
  <2> QED
    BY <1>1, <2>3, <2>6
<1>4. ASSUME NEW th \in Threads, ReturnBytes(th)
      PROVE  ProbesOK'
  <2>1. UNCHANGED <<calls, flows, dropped, unseen, wiped, raced>>
    BY <1>4 DEF ReturnBytes, mapVars
  <2>2. /\ Alone(th) /\ thread[th].pc = "call"
        /\ thread'[th] = AtHome \/ (thread'[th].pc = "lookup" /\ thread'[th].count = thread[th].count)
    BY <1>4, ReturnMoves
  <2>3. ProbeOK(th)'
    BY <1>0, <2>2 DEF ProbeOK, AtHome
  <2>4. \A other \in Threads \ {th} : ProbeOK(other)'
    BY <1>0, <2>1, <2>2, ProbeFrame DEF Alone
  <2> QED
    BY <1>1, <2>3, <2>4
<1>5. ASSUME NEW th \in Threads, Lookup(th) \/ Insert(th) \/ LookupAgain(th)
      PROVE  ProbesOK'
  <2>1. UNCHANGED <<calls, dropped, unseen, wiped, raced>>
    BY <1>5 DEF Lookup, Insert, LookupAgain, mapVars, obsVars
  <2>2. /\ Alone(th) /\ Keeps(th) /\ thread[th].pc \in {"lookup", "insert", "again"}
        /\ \/ /\ thread'[th].pc \in {"insert", "again"}
              /\ thread'[th].count = thread[th].count
           \/ thread'[th].pc = "drop" /\ thread'[th].count = dropped[th]
           \/ Points(th)
    BY <1>5, ProbeMoves
  <2>3. Points(th) => UNCHANGED flows
    BY <1>5, <2>2 DEF Points, Lookup, Insert, LookupAgain, mapVars, TypeOK
  <2>4. ProbeOK(th)'
    BY <1>0, <2>1, <2>2, <2>3 DEF ProbeOK, Keeps, Points
  <2>5. \A s \in Slots : flows[s].key = NoKey \/ flows'[s].key = flows[s].key
    <3>1. CASE Insert(th)
      BY <3>1, InsertFlows DEF TypeOK
    <3>2. CASE Lookup(th) \/ LookupAgain(th)
      BY <3>2 DEF Lookup, LookupAgain, mapVars
    <3> QED
      BY <1>5, <3>1, <3>2
  <2>6. \A other \in Threads \ {th} : ProbeOK(other)'
    BY <1>0, <2>1, <2>2, <2>5, ProbeFrame DEF Alone
  <2> QED
    BY <1>1, <2>4, <2>6
<1>6. ASSUME NEW s \in Slots, DrainEntry(s) \/ ResetEntry(s)
      PROVE  ProbesOK'
  <2>1. /\ UNCHANGED <<thread, calls, dropped, unseen>> /\ wiped \subseteq wiped' /\ Free(s)
    BY <1>6 DEF DrainEntry, ResetEntry
  <2>2. /\ raced \subseteq raced'
        /\ \A r \in Slots \ {s} : flows'[r] = flows[r]
        /\ \A th \in Threads : thread[th].pc = "add" /\ thread[th].slot = s =>
              thread[th].transfer \in raced'
    BY <2>1 DEF Free, TypeOK
  <2>3. \A th \in Threads : ProbeOK(th)'
    BY <1>0, <2>1, <2>2, ProbeFrame
  <2> QED
    BY <1>1, <2>3
<1>7. ASSUME NEW th \in Threads, ResetCall(th)
      PROVE  ProbesOK'
  <2>1. /\ UNCHANGED <<thread, flows, dropped, unseen, raced>> /\ wiped \subseteq wiped'
        /\ \A other \in Threads \ {th} : calls'[other] = calls[other]
        /\ thread[th].pc = "call" => thread[th].transfer \in wiped'
    BY <1>7 DEF ResetCall, TypeOK
  <2>2. \A other \in Threads : ProbeOK(other)'
    BY <1>0, <2>1, ProbeFrame
  <2> QED
    BY <1>1, <2>2
<1>8. CASE Aside
  <2>1. UNCHANGED <<thread, calls, flows, unseen, raced>>
    BY <1>8, AsideFrame
  <2>2. wiped \subseteq wiped' /\ \A th \in Threads : dropped'[th] \subseteq dropped[th]
    BY <1>8 DEF Aside, BeginDrain, EndDrain, BeginReset, FlowsCleared, ResetStats, ResetFails,
                vars, mapVars, obsVars
  <2>3. \A th \in Threads : ProbeOK(th)'
    BY <1>0, <2>1, <2>2, ProbeFrame
  <2> QED
    BY <1>1, <2>3
<1> QED
  BY <1>2, <1>3, <1>4, <1>5, <1>6, <1>7, <1>8, StepCases

-----------------------------------------------------------------------------
(* How a transfer changes its place.                                       *)

NoNewSlot(t) == \A s \in Slots : t \in flows'[s].transfers => t \in flows[s].transfers

\* A step leaves transfer t where it was or takes it away; lets it begin; puts
\* it from the hands of its thread into one slot or one count; or drains it.
Stays(t)   == /\ NoNewSlot(t) /\ (Out(t)' => Out(t)) /\ (InCount(t)' => InCount(t))
              /\ (Carried(t)' => Carried(t))
Begins(t)  == /\ t \notin begun /\ t \in begun'
              /\ NoNewSlot(t) /\ (Out(t)' => Out(t)) /\ (InCount(t)' => InCount(t))
Settles(t) == /\ Carried(t) /\ ~Carried(t)' /\ (Out(t)' => Out(t))
              /\ \/ NoNewSlot(t)
                 \/ /\ InCount(t)' => InCount(t)
                    /\ \E s \in Slots : \A r \in Slots \ {s} :
                          t \in flows'[r].transfers => t \in flows[r].transfers
Drains(t)  == /\ InSlot(t) /\ ~InSlot(t)' /\ (InCount(t)' => InCount(t))
              /\ (Carried(t)' => Carried(t))

\* In one step a transfer stays where it is, begins, settles in one place, or is drained.
LEMMA Transitions ==
    ASSUME TypeOK, FreeIsEmpty, ThreadsOK, ProbesOK, OnePlace, [Next]_vars,
           NEW t \in Transfers
    PROVE  begun \subseteq begun' /\ (Stays(t) \/ Begins(t) \/ Settles(t) \/ Drains(t))
<1>1. ASSUME NEW th \in Threads, NEW k \in Keys, NEW u \in Transfers, Enter(th, k, u)
      PROVE  begun \subseteq begun' /\ (Stays(t) \/ Begins(t))
  <2>1. /\ Alone(th) /\ ~Busy(th) /\ u \notin begun /\ begun' = begun \cup {u}
        /\ thread'[th].transfer = u /\ thread'[th].count = {}
    BY <1>1, EnterMoves
  <2>2. UNCHANGED <<flows, dropped, drained>>
    BY <1>1 DEF Enter
  <2>3. NoNewSlot(t) /\ (Out(t)' => Out(t)) /\ (InCount(t)' => InCount(t))
    BY <2>1, <2>2 DEF NoNewSlot, Out, InCount, Alone
  <2>4. t # u => (Carried(t)' => Carried(t))
    BY <2>1 DEF Carried, Busy, Alone
  <2> QED
    BY <2>1, <2>3, <2>4 DEF Stays, Begins
<1>2. ASSUME NEW th \in Threads, thread'[th] = AtHome, Alone(th)
      PROVE  /\ Carried(t)' => Carried(t)
             /\ thread[th].transfer = t /\ Busy(th) => Carried(t) /\ ~Carried(t)'
  BY <1>2 DEF Carried, Busy, AtHome, Alone, ThreadsOK
<1>3. ASSUME NEW th \in Threads, ReturnNothing(th)
      PROVE  begun \subseteq begun' /\ Stays(t)
  <2>1. /\ Alone(th) /\ thread'[th] = AtHome
        /\ UNCHANGED <<flows, dropped, begun, drained>>
    BY <1>3, LeaveMoves DEF ReturnNothing, Leave, obsVars
  <2> QED
    BY <1>2, <2>1 DEF Stays, NoNewSlot, Out, InCount, Alone, AtHome
<1>4. ASSUME NEW th \in Threads, Keeps(th), Alone(th)
      PROVE  Carried(t)' => Carried(t)
  BY <1>4 DEF Carried, Keeps, Alone, Busy
<1>5. ASSUME NEW th \in Threads, ReturnBytes(th)
      PROVE  begun \subseteq begun' /\ Stays(t)
  <2>1. /\ Alone(th) /\ (Keeps(th) \/ thread'[th] = AtHome)
        /\ thread'[th].count \subseteq thread[th].count
        /\ UNCHANGED <<flows, dropped, begun, drained>>
    <3>1. UNCHANGED <<flows, dropped, begun, drained>>
      BY <1>5 DEF ReturnBytes, mapVars
    <3>2. AtHome.count = {}
      BY DEF AtHome
    <3> QED
      BY <1>5, <3>1, <3>2, ReturnMoves
  <2>2. Carried(t)' => Carried(t)
    BY <1>2, <1>4, <2>1
  <2> QED
    BY <2>1, <2>2 DEF Stays, NoNewSlot, Out, InCount, Alone
<1>6. ASSUME NEW th \in Threads, Lookup(th) \/ Insert(th) \/ LookupAgain(th)
      PROVE  begun \subseteq begun' /\ Stays(t)
  <2>1. /\ Alone(th) /\ Keeps(th)
        /\ thread'[th].count \subseteq thread[th].count \cup dropped[th]
        /\ UNCHANGED <<dropped, begun, drained>>
    <3>1. UNCHANGED <<dropped, begun, drained>>
      BY <1>6 DEF Lookup, Insert, LookupAgain, mapVars, obsVars
    <3> QED
      BY <1>6, <3>1, ProbeMoves DEF Points
  <2>2. NoNewSlot(t)
    <3>1. CASE Insert(th)
      <4>1. ASSUME NEW s \in Slots,
                   flows' = [flows EXCEPT ![s] = [key |-> thread[th].key, transfers |-> {}]]
            PROVE  NoNewSlot(t)
        BY <4>1 DEF NoNewSlot, TypeOK
      <4> QED
        BY <3>1, <4>1, InsertFlows DEF NoNewSlot
    <3>2. CASE Lookup(th) \/ LookupAgain(th)
      BY <3>2 DEF Lookup, LookupAgain, mapVars, NoNewSlot
    <3> QED
      BY <1>6, <3>1, <3>2
  <2> QED
    BY <1>4, <2>1, <2>2 DEF Stays, Out, InCount, Alone
<1>7. ASSUME NEW th \in Threads, RecordDrop(th)
      PROVE  begun \subseteq begun' /\ (Stays(t) \/ Settles(t))
  <2>1. /\ Alone(th) /\ thread'[th] = AtHome /\ Busy(th)
        /\ UNCHANGED <<flows, begun, drained>>
        /\ dropped' = [dropped EXCEPT ![th] = thread[th].count \cup {thread[th].transfer}]
    BY <1>7, LeaveMoves DEF RecordDrop, Leave, obsVars, Busy
  <2>2. NoNewSlot(t) /\ (Out(t)' => Out(t))
    BY <2>1 DEF NoNewSlot, Out
  <2>3. CASE thread[th].transfer = t
    BY <1>2, <2>1, <2>2, <2>3 DEF Settles
  <2>4. CASE thread[th].transfer # t
    <3>1. InCount(t)' => InCount(t)
      BY <2>1, <2>4 DEF InCount, Alone, AtHome, TypeOK
    <3> QED
      BY <1>2, <2>1, <2>2, <3>1 DEF Stays
  <2> QED
    BY <2>1, <2>3, <2>4
<1>8. ASSUME NEW th \in Threads, AddBytes(th)
      PROVE  begun \subseteq begun' /\ (Stays(t) \/ Settles(t))
  <2> DEFINE s == thread[th].slot
  <2>1. /\ Alone(th) /\ thread'[th] = AtHome /\ Busy(th)
        /\ UNCHANGED <<dropped, begun, drained>>
        /\ \/ UNCHANGED flows
           \/ s \in Slots /\ flows' = [flows EXCEPT ![s].transfers = @ \cup {thread[th].transfer}]
    BY <1>8, LeaveMoves DEF AddBytes, Leave, obsVars, Busy, Used
  <2>2. (Out(t)' => Out(t)) /\ (InCount(t)' => InCount(t))
    BY <2>1 DEF Out, InCount, Alone, AtHome
  <2>3. CASE thread[th].transfer = t
    <3>1. NoNewSlot(t) \/ \E r \in Slots : \A q \in Slots \ {r} :
                              t \in flows'[q].transfers => t \in flows[q].transfers
      BY <2>1 DEF NoNewSlot, TypeOK
    <3> QED
      BY <1>2, <2>1, <2>2, <2>3, <3>1 DEF Settles
  <2>4. CASE thread[th].transfer # t
    <3>1. NoNewSlot(t)
      BY <2>1, <2>4 DEF NoNewSlot, TypeOK
    <3> QED
      BY <1>2, <2>1, <2>2, <3>1 DEF Stays
  <2> QED
    BY <2>3, <2>4
<1>9. ASSUME NEW s \in Slots, DrainEntry(s)
      PROVE  begun \subseteq begun' /\ (Stays(t) \/ Drains(t))
  <2>1. /\ UNCHANGED <<thread, dropped, begun>> /\ flows' = [flows EXCEPT ![s] = Empty]
        /\ drained' = drained \cup {<<flows[s].key, u>> : u \in flows[s].transfers}
    BY <1>9 DEF DrainEntry, Free
  <2>2. /\ flows'[s].transfers = {} /\ \A r \in Slots \ {s} : flows'[r] = flows[r]
        /\ InCount(t)' => InCount(t)
        /\ Carried(t)' => Carried(t)
    BY <2>1 DEF TypeOK, Empty, InCount, Carried, Busy
  <2>3. CASE t \in flows[s].transfers
    BY <2>1, <2>2, <2>3 DEF Drains, InSlot, OnePlace
  <2>4. CASE t \notin flows[s].transfers
    <3>1. Out(t)' => Out(t)
      BY <2>1, <2>4 DEF Out
    <3> QED
      BY <2>1, <2>2, <3>1 DEF Stays, NoNewSlot
  <2> QED
    BY <2>3, <2>4
<1>10. ASSUME NEW s \in Slots, ResetEntry(s)
       PROVE  begun \subseteq begun' /\ Stays(t)
  <2>1. UNCHANGED <<thread, dropped, begun, drained>> /\ flows' = [flows EXCEPT ![s] = Empty]
    BY <1>10 DEF ResetEntry, Free
  <2> QED
    BY <2>1 DEF Stays, NoNewSlot, Out, InCount, Carried, Busy, TypeOK, Empty
<1>11. ASSUME NEW th \in Threads, ResetCall(th)
       PROVE  begun \subseteq begun' /\ Stays(t)
  <2>1. UNCHANGED <<thread, flows, dropped, begun, drained>>
    BY <1>11 DEF ResetCall
  <2> QED
    BY <2>1 DEF Stays, NoNewSlot, Out, InCount, Carried, Busy
<1>12. CASE Aside
  <2>1. UNCHANGED <<thread, flows, begun, drained>>
    BY <1>12, AsideFrame
  <2>2. \A th \in Threads : dropped'[th] \subseteq dropped[th]
    BY <1>12 DEF Aside, BeginDrain, EndDrain, BeginReset, FlowsCleared, ResetStats, ResetFails,
                 vars, mapVars
  <2> QED
    BY <2>1, <2>2 DEF Stays, NoNewSlot, Out, InCount, Carried, Busy
<1> QED
  BY <1>1, <1>3, <1>5, <1>6, <1>7, <1>8, <1>9, <1>10, <1>11, <1>12, StepCases

\* A transfer keeps to one place.
LEMMA PlaceStep ==
    ASSUME TypeOK, FreeIsEmpty, ThreadsOK, ProbesOK, OnePlace, [Next]_vars
    PROVE  OnePlace'
<1> SUFFICES ASSUME NEW t \in Transfers
             PROVE  /\ InSlot(t)' \/ Out(t)' \/ InCount(t)' => t \in begun' /\ ~Carried(t)'
                    /\ ~(InSlot(t)' /\ Out(t)') /\ ~(InCount(t)' /\ (InSlot(t)' \/ Out(t)'))
                    /\ \A s, r \in Slots :
                          t \in flows'[s].transfers /\ t \in flows'[r].transfers => s = r
  BY DEF OnePlace
<1>1. begun \subseteq begun' /\ (Stays(t) \/ Begins(t) \/ Settles(t) \/ Drains(t))
  BY Transitions
<1>2. /\ InSlot(t) \/ Out(t) \/ InCount(t) => t \in begun /\ ~Carried(t)
      /\ ~(InSlot(t) /\ Out(t)) /\ ~(InCount(t) /\ (InSlot(t) \/ Out(t)))
      /\ \A s, r \in Slots : t \in flows[s].transfers /\ t \in flows[r].transfers => s = r
  BY DEF OnePlace
<1>3. NoNewSlot(t) => (InSlot(t)' => InSlot(t))
  BY DEF NoNewSlot, InSlot
<1>4. Carried(t) => t \in begun
  BY DEF Carried, ThreadsOK
<1>5. CASE Stays(t) \/ Begins(t)
  BY <1>1, <1>2, <1>3, <1>5 DEF Stays, Begins, NoNewSlot
<1>6. CASE Settles(t)
  <2>1. ~InSlot(t) /\ ~Out(t) /\ ~InCount(t) /\ t \in begun'
    BY <1>1, <1>2, <1>4, <1>6 DEF Settles
  <2>2. \A s \in Slots : t \notin flows[s].transfers
    BY <2>1 DEF InSlot
  <2>3. ~Carried(t)' /\ ~Out(t)'
    BY <1>6, <2>1 DEF Settles
  <2>4. CASE NoNewSlot(t)
    BY <1>3, <2>1, <2>2, <2>3, <2>4 DEF NoNewSlot
  <2>5. CASE ~NoNewSlot(t)
    BY <1>6, <2>1, <2>2, <2>3, <2>5 DEF Settles
  <2> QED
    BY <2>4, <2>5
<1>7. CASE Drains(t)
  <2>1. \A s \in Slots : t \notin flows'[s].transfers
    BY <1>7 DEF Drains, InSlot
  <2> QED
    BY <1>1, <1>2, <1>7, <2>1 DEF Drains
<1> QED
  BY <1>1, <1>5, <1>6, <1>7

-----------------------------------------------------------------------------
(* Every call that returned bytes is accounted for.                        *)

\* A probe carries the key under which its call returned.
LEMMA ReturnedStep ==
    ASSUME TypeOK, ThreadsOK, ReturnedOK, [Next]_vars
    PROVE  ReturnedOK'
<1>1. ASSUME UNCHANGED <<thread, returned>>, begun \subseteq begun'
      PROVE  ReturnedOK'
  BY <1>1 DEF ReturnedOK, Busy
<1>2. ASSUME NEW th \in Threads, Alone(th), UNCHANGED <<returned, begun>>,
             ~Busy(th)' \/ (Keeps(th) /\ thread'[th].pc # "call")
      PROVE  ReturnedOK'
  BY <1>2 DEF ReturnedOK, Alone, Keeps, Busy
<1>3. ASSUME NEW th \in Threads, NEW k \in Keys, NEW t \in Transfers, Enter(th, k, t)
      PROVE  ReturnedOK'
  <2>1. Alone(th) /\ t \notin begun /\ begun' = begun \cup {t} /\ thread'[th].transfer = t
    BY <1>3, EnterMoves
  <2>2. UNCHANGED returned
    BY <1>3 DEF Enter
  <2>3. \A p \in returned : p[2] # t
    BY <2>1 DEF ReturnedOK
  <2> QED
    BY <2>1, <2>2, <2>3 DEF ReturnedOK, Alone, Busy
<1>4. ASSUME NEW th \in Threads, ReturnNothing(th) \/ RecordDrop(th) \/ AddBytes(th)
      PROVE  ReturnedOK'
  <2>1. Leave(th) /\ UNCHANGED <<returned, begun>>
    BY <1>4 DEF ReturnNothing, RecordDrop, AddBytes, obsVars
  <2>2. Alone(th) /\ ~Busy(th)'
    BY <2>1, LeaveMoves DEF Leave
  <2> QED
    BY <1>2, <2>1, <2>2
<1>5. ASSUME NEW th \in Threads, ReturnBytes(th)
      PROVE  ReturnedOK'
  <2> DEFINE q == <<thread[th].key, thread[th].transfer>>
  <2>1. returned' = returned \cup {q} /\ UNCHANGED begun /\ Busy(th)
    BY <1>5 DEF ReturnBytes, Busy
  <2>2. /\ Alone(th) /\ thread[th].pc = "call"
        /\ ~Busy(th)' \/ (Keeps(th) /\ thread'[th].pc = "lookup")
    BY <1>5, ReturnMoves DEF Busy, AtHome
  <2>3. q[1] = thread[th].key /\ q[2] = thread[th].transfer /\ q[2] \in begun
    BY <2>1 DEF ThreadsOK
  <2>4. ASSUME NEW p \in returned'
        PROVE  /\ p[2] \in begun'
               /\ \A other \in Threads : Busy(other)' /\ thread'[other].transfer = p[2] =>
                     thread'[other].pc # "call" /\ thread'[other].key = p[1]
    <3>1. CASE p = q
      <4>1. \A other \in Threads \ {th} : Busy(other) => thread[other].transfer # q[2]
        BY <2>1, <2>3 DEF ThreadsOK
      <4> HIDE DEF q
      <4> QED
        BY <2>1, <2>2, <2>3, <3>1, <4>1 DEF Alone, Keeps, Busy
    <3>2. CASE p \in returned
      BY <2>1, <2>2, <3>2 DEF ReturnedOK, Alone, Keeps, Busy
    <3> QED
      BY <2>1, <3>1, <3>2
  <2> QED
    BY <2>4 DEF ReturnedOK
<1>6. ASSUME NEW th \in Threads, Lookup(th) \/ Insert(th) \/ LookupAgain(th)
      PROVE  ReturnedOK'
  <2>1. UNCHANGED <<returned, begun>>
    BY <1>6 DEF Lookup, Insert, LookupAgain, obsVars
  <2> QED
    BY <1>2, <1>6, <2>1, ProbeMoves
<1>7. ASSUME NEW s \in Slots, DrainEntry(s) \/ ResetEntry(s)
      PROVE  ReturnedOK'
  BY <1>1, <1>7 DEF DrainEntry, ResetEntry
<1>8. ASSUME NEW th \in Threads, ResetCall(th)
      PROVE  ReturnedOK'
  BY <1>1, <1>8 DEF ResetCall
<1>9. CASE Aside
  BY <1>1, <1>9, AsideFrame
<1> QED
  BY <1>3, <1>4, <1>5, <1>6, <1>7, <1>8, <1>9, StepCases

InFlows(p) == \E s \in Slots : flows[s].key = p[1] /\ p[2] \in flows[s].transfers
InHand(p)  == \E th \in Threads : thread[th].pc \in Probing /\ thread[th].transfer = p[2]
AtCount(p) == \E th \in Threads : p[2] \in dropped[th]

\* A transfer that is found where it was, or that has left it for a place or
\* with a reason, is counted.
LEMMA CountedFrame ==
    ASSUME NEW p, Counted(p),
           drained \subseteq drained', wiped \subseteq wiped', unseen \subseteq unseen',
           raced \subseteq raced',
           InFlows(p) => InFlows(p)' \/ p \in drained' \/ p[2] \in wiped',
           InHand(p)  => InHand(p)' \/ InFlows(p)' \/ AtCount(p)' \/ p[2] \in raced',
           AtCount(p) => AtCount(p)' \/ p[2] \in wiped'
    PROVE  Counted(p)'
  BY DEF Counted, InFlows, InHand, AtCount

\* No step loses a transfer that returned, but for a reason it records.
LEMMA LossStep ==
    ASSUME TypeOK, FreeIsEmpty, ThreadsOK, ProbesOK, ReturnedOK, NothingLost, [Next]_vars
    PROVE  NothingLost'
<1> DEFINE Grow == /\ drained \subseteq drained' /\ wiped \subseteq wiped'
                   /\ unseen \subseteq unseen' /\ raced \subseteq raced'
<1>1. ASSUME UNCHANGED returned, Grow,
             \A p \in returned :
                /\ InFlows(p) => InFlows(p)' \/ p \in drained' \/ p[2] \in wiped'
                /\ InHand(p)  => InHand(p)' \/ InFlows(p)' \/ AtCount(p)' \/ p[2] \in raced'
                /\ AtCount(p) => AtCount(p)' \/ p[2] \in wiped'
      PROVE  NothingLost'
  BY <1>1, CountedFrame DEF NothingLost
<1>2. ASSUME NEW th \in Threads, NEW k \in Keys, NEW t \in Transfers, Enter(th, k, t)
      PROVE  NothingLost'
  <2>1. Alone(th) /\ ~Busy(th)
    BY <1>2, EnterMoves
  <2>2. \A p \in returned : InHand(p) => InHand(p)'
    BY <2>1 DEF InHand, Alone, Busy, Probing
  <2>3. UNCHANGED <<flows, dropped, returned>> /\ Grow
    BY <1>2 DEF Enter
  <2> QED
    BY <1>1, <2>2, <2>3 DEF InFlows, AtCount
<1>3. ASSUME NEW th \in Threads, ReturnNothing(th)
      PROVE  NothingLost'
  <2>1. Alone(th) /\ thread[th].pc = "call" /\ UNCHANGED <<flows, dropped, returned>> /\ Grow
    BY <1>3, LeaveMoves DEF ReturnNothing, Leave, obsVars
  <2>2. \A p \in returned : InHand(p) => InHand(p)'
    BY <2>1 DEF InHand, Alone, Probing
  <2> QED
    BY <1>1, <2>1, <2>2 DEF InFlows, AtCount
<1>4. ASSUME NEW th \in Threads, ReturnBytes(th)
      PROVE  NothingLost'
  <2> DEFINE q == <<thread[th].key, thread[th].transfer>>
  <2>1. /\ returned' = returned \cup {q} /\ q[2] = thread[th].transfer
        /\ UNCHANGED <<flows, dropped>> /\ Grow /\ UNCHANGED <<unseen, wiped>>
    BY <1>4 DEF ReturnBytes, mapVars
  <2>2. /\ Alone(th) /\ thread[th].pc = "call"
        /\ \/ calls[th] = NoKey
           \/ Keeps(th) /\ thread'[th].pc = "lookup"
    BY <1>4, ReturnMoves
  <2>3. ASSUME NEW p \in returned PROVE Counted(p)'
    <3>1. InHand(p) => InHand(p)'
      BY <2>2 DEF InHand, Alone, Probing
    <3> QED
      BY <2>1, <3>1, CountedFrame DEF NothingLost, InFlows, AtCount
  <2>4. ASSUME NEW p, p = q PROVE Counted(p)'
    <3>1. CASE calls[th] = NoKey
      BY <2>1, <2>2, <2>4, <3>1 DEF ProbesOK, Counted
    <3>2. CASE Keeps(th) /\ thread'[th].pc = "lookup"
      BY <2>1, <2>4, <3>2 DEF Counted, Keeps, Probing
    <3> QED
      BY <2>2, <3>1, <3>2
  <2> HIDE DEF q
  <2> QED
    BY <2>1, <2>3, <2>4 DEF NothingLost
<1>5. ASSUME NEW th \in Threads, Lookup(th) \/ Insert(th) \/ LookupAgain(th)
      PROVE  NothingLost'
  <2>1. /\ Alone(th) /\ Keeps(th) /\ thread[th].pc \in Probing /\ thread'[th].pc \in Probing
    BY <1>5, ProbeMoves DEF Probing
  <2>2. \A p \in returned : InHand(p) => InHand(p)'
    BY <2>1 DEF InHand, Alone, Keeps
  <2>3. UNCHANGED <<dropped, returned>> /\ Grow
    BY <1>5 DEF Lookup, Insert, LookupAgain, mapVars, obsVars
  <2>4. \A p \in returned : InFlows(p) => InFlows(p)'
    <3>1. CASE Insert(th)
      <4>1. ASSUME NEW s \in Slots, flows[s].transfers = {},
                   flows' = [flows EXCEPT ![s] = [key |-> thread[th].key, transfers |-> {}]]
            PROVE  \A p \in returned : InFlows(p) => InFlows(p)'
        BY <4>1 DEF InFlows, TypeOK
      <4> QED
        BY <3>1, <4>1, InsertFlows DEF InFlows
    <3>2. CASE Lookup(th) \/ LookupAgain(th)
      BY <3>2 DEF Lookup, LookupAgain, mapVars, InFlows
    <3> QED
      BY <1>5, <3>1, <3>2
  <2> QED
    BY <1>1, <2>2, <2>3, <2>4 DEF AtCount
<1>6. ASSUME NEW th \in Threads, RecordDrop(th)
      PROVE  NothingLost'
  <2>1. /\ Alone(th) /\ UNCHANGED <<flows, returned>> /\ Grow
        /\ dropped[th] \subseteq thread[th].count
        /\ dropped' = [dropped EXCEPT ![th] = thread[th].count \cup {thread[th].transfer}]
    BY <1>6, LeaveMoves DEF RecordDrop, Leave, obsVars, ProbesOK
  <2>2. /\ dropped[th] \subseteq dropped'[th] /\ thread[th].transfer \in dropped'[th]
        /\ \A other \in Threads \ {th} : dropped'[other] = dropped[other]
    BY <2>1 DEF TypeOK
  <2>3. \A p \in returned : (AtCount(p) => AtCount(p)') /\ (InHand(p) => InHand(p)' \/ AtCount(p)')
    BY <2>1, <2>2 DEF AtCount, InHand, Alone
  <2> QED
    BY <1>1, <2>1, <2>3 DEF InFlows
<1>7. ASSUME NEW th \in Threads, AddBytes(th)
      PROVE  NothingLost'
  <2> DEFINE s == thread[th].slot
             t == thread[th].transfer
  <2>1. /\ Alone(th) /\ UNCHANGED <<dropped, returned>> /\ Grow /\ thread[th].pc = "add"
        /\ flows' = IF s \in Used THEN [flows EXCEPT ![s].transfers = @ \cup {t}] ELSE flows
    BY <1>7, LeaveMoves DEF AddBytes, Leave, obsVars
  <2>2. \A p \in returned : InFlows(p) => InFlows(p)'
    <3>1. \A r \in Slots : flows'[r].key = flows[r].key /\ flows[r].transfers \subseteq flows'[r].transfers
      BY <2>1 DEF TypeOK, Used
    <3> QED
      BY <3>1 DEF InFlows
  <2>3. t \in raced \/ (s \in Slots /\ flows'[s].key = thread[th].key /\ t \in flows'[s].transfers)
    <3>1. t \in raced \/ (s \in Slots /\ flows[s].key = thread[th].key)
      BY <2>1 DEF ProbesOK
    <3>2. thread[th].key \in Keys /\ thread[th].key # NoKey
      BY <2>1, KernelAssumption DEF ThreadsOK, Busy
    <3>3. CASE s \in Slots /\ flows[s].key = thread[th].key
      <4>1. s \in Used
        BY <3>2, <3>3 DEF Used
      <4> QED
        BY <2>1, <3>3, <4>1 DEF TypeOK
    <3> QED
      BY <3>1, <3>3
  <2>4. ASSUME NEW p \in returned, InHand(p)
        PROVE  InHand(p)' \/ InFlows(p)' \/ p[2] \in raced
    <3>1. CASE p[2] = t
      <4>1. thread[th].key = p[1]
        BY <2>1, <3>1 DEF ReturnedOK, Busy
      <4> QED
        BY <2>3, <3>1, <4>1 DEF InFlows
    <3>2. CASE p[2] # t
      BY <2>1, <2>4, <3>2 DEF InHand, Alone
    <3> QED
      BY <3>1, <3>2
  <2> QED
    BY <1>1, <2>1, <2>2, <2>4 DEF AtCount
<1>8. ASSUME NEW s \in Slots, DrainEntry(s) \/ ResetEntry(s)
      PROVE  NothingLost'
  <2>1. /\ UNCHANGED <<thread, dropped, returned>> /\ Grow
        /\ flows' = [flows EXCEPT ![s] = Empty]
        /\ \/ \A t \in flows[s].transfers : <<flows[s].key, t>> \in drained'
           \/ flows[s].transfers \subseteq wiped'
    BY <1>8 DEF DrainEntry, ResetEntry, Free
  <2>2. \A r \in Slots \ {s} : flows'[r] = flows[r]
    BY <2>1 DEF TypeOK
  <2>3. \A p \in returned : p = <<p[1], p[2]>>
    BY DEF TypeOK
  <2>4. \A p \in returned : InFlows(p) => InFlows(p)' \/ p \in drained' \/ p[2] \in wiped'
    BY <2>1, <2>2, <2>3 DEF InFlows
  <2> QED
    BY <1>1, <2>1, <2>4 DEF InHand, AtCount
<1>9. ASSUME NEW th \in Threads, ResetCall(th)
      PROVE  NothingLost'
  <2>1. UNCHANGED <<thread, flows, dropped, returned>> /\ Grow
    BY <1>9 DEF ResetCall
  <2> QED
    BY <1>1, <2>1 DEF InHand, AtCount, InFlows
<1>10. CASE Aside
  <2>1. UNCHANGED <<thread, flows, returned>> /\ Grow
    BY <1>10, AsideFrame DEF Aside, BeginDrain, EndDrain, BeginReset, FlowsCleared, ResetStats,
                             ResetFails, vars, obsVars
  <2>2. UNCHANGED dropped \/ AllDropped \subseteq wiped'
    BY <1>10 DEF Aside, BeginDrain, EndDrain, BeginReset, FlowsCleared, ResetStats,
                 ResetFails, vars, mapVars
  <2>3. \A p \in returned : AtCount(p) => AtCount(p)' \/ p[2] \in wiped'
    BY <2>2 DEF AtCount, AllDropped
  <2> QED
    BY <1>1, <2>1, <2>3 DEF InHand, InFlows
<1> QED
  BY <1>2, <1>3, <1>4, <1>5, <1>6, <1>7, <1>8, <1>9, <1>10, StepCases

-----------------------------------------------------------------------------
(* Epochs.                                                                 *)

\* Only ResetStats closes an epoch, and only a reset changes its set-up.
LEMMA EpochMoves ==
    ASSUME [Next]_vars
    PROVE  \/ UNCHANGED <<closed, before, overtaken, owner, left>>
           \/ \E s \in Slots : ResetEntry(s)
           \/ \E th \in Threads : ResetCall(th)
           \/ BeginDrain \/ EndDrain \/ BeginReset \/ FlowsCleared \/ ResetStats \/ ResetFails
<1>1. ASSUME NEW th \in Threads,
             \/ \E k \in Keys, t \in Transfers : Enter(th, k, t)
             \/ ReturnNothing(th) \/ ReturnBytes(th) \/ Lookup(th) \/ Insert(th)
             \/ LookupAgain(th) \/ RecordDrop(th) \/ AddBytes(th)
      PROVE  UNCHANGED <<closed, before, overtaken, owner, left>>
  BY <1>1 DEF Enter, ReturnNothing, ReturnBytes, Lookup, Insert, LookupAgain, RecordDrop,
              AddBytes, tracker, obsVars
<1>2. ASSUME NEW s \in Slots, DrainEntry(s)
      PROVE  UNCHANGED <<closed, before, overtaken, owner, left>>
  BY <1>2 DEF DrainEntry, tracker
<1>3. CASE UNCHANGED vars
  BY <1>3 DEF vars, tracker, obsVars
<1> QED
  BY <1>1, <1>2, <1>3, StepCases DEF Aside

\* A slot that holds something keeps its key until it is freed.
LEMMA SlotKeepsKey ==
    ASSUME TypeOK, FreeIsEmpty, ThreadsOK, [Next]_vars, NEW s \in Slots
    PROVE  \/ flows[s].transfers = {} \/ flows'[s].transfers = {}
           \/ flows'[s].key = flows[s].key
<1>1. ASSUME NEW th \in Threads, Insert(th)
      PROVE  flows[s].transfers = {} \/ flows'[s].key = flows[s].key
  <2>1. ASSUME NEW r \in Slots, flows[r].transfers = {},
               flows' = [flows EXCEPT ![r] = [key |-> thread[th].key, transfers |-> {}]]
        PROVE  flows[s].transfers = {} \/ flows'[s].key = flows[s].key
    BY <2>1 DEF TypeOK
  <2> QED
    BY <1>1, <2>1, InsertFlows
<1>2. ASSUME NEW th \in Threads, AddBytes(th)
      PROVE  flows'[s].key = flows[s].key
  BY <1>2 DEF AddBytes, TypeOK
<1>3. ASSUME NEW r \in Slots, DrainEntry(r) \/ ResetEntry(r)
      PROVE  flows'[s].transfers = {} \/ flows'[s].key = flows[s].key
  BY <1>3 DEF DrainEntry, ResetEntry, Free, TypeOK, Empty
<1>4. ASSUME NEW th \in Threads,
             \/ \E k \in Keys, t \in Transfers : Enter(th, k, t)
             \/ ReturnNothing(th) \/ ReturnBytes(th) \/ Lookup(th) \/ LookupAgain(th)
             \/ RecordDrop(th) \/ ResetCall(th)
      PROVE  UNCHANGED flows
  BY <1>4 DEF Enter, ReturnNothing, ReturnBytes, Lookup, LookupAgain, RecordDrop, ResetCall,
              mapVars
<1> QED
  BY <1>1, <1>2, <1>3, <1>4, StepCases, AsideFrame

\* Every step of the kernel and of a reset keeps what a reset relies on.
LEMMA EpochStep ==
    ASSUME KernelInv, [Next]_vars
    PROVE  EpochOK'
<1>0. /\ TypeOK /\ ThreadsOK /\ ProbesOK /\ FreeIsEmpty /\ OnePlace /\ ReturnedOK
      /\ EpochOK
  BY DEF KernelInv
<1>1. closed \cup before \subseteq Transfers
  BY <1>0 DEF TypeOK
<1>2. ASSUME NEW t \in closed \cup before
      PROVE  /\ t \in begun' /\ ~Carried(t)' /\ (~InSlot(t) => ~InSlot(t)')
             /\ NoNewSlot(t) /\ (InCount(t)' => InCount(t))
  <2>1. t \in begun /\ ~Carried(t)
    BY <1>0 DEF EpochOK
  <2>2. begun \subseteq begun' /\ (Stays(t) \/ Drains(t))
    BY <1>0, <1>1, <2>1, Transitions DEF Begins, Settles
  <2>3. CASE Stays(t)
    BY <2>1, <2>2, <2>3 DEF Stays, NoNewSlot, InSlot
  <2>4. CASE Drains(t)
    BY <2>1, <2>2, <2>4 DEF Drains, NoNewSlot, InSlot
  <2> QED
    BY <2>2, <2>3, <2>4
\* The sets of the epoch stay, or something is taken away.
<1>3. ASSUME closed' = closed, before' = before, overtaken \subseteq overtaken',
             owner' = "resetFlows" => /\ owner = "resetFlows"
                                      /\ \A s \in Slots : flows'[s].transfers # {} /\ flows[s].key \in left =>
                                            flows'[s].key \in left',
             owner' = "resetCalls" => owner = "resetCalls" \/ (owner = "resetFlows" /\ left = {})
      PROVE  EpochOK'
  <2>1. \A t \in closed' : ~InSlot(t)' /\ (InCount(t)' => t \in overtaken')
    BY <1>0, <1>2, <1>3 DEF EpochOK
  <2>2. \A t \in closed' \cup before' : t \in begun' /\ ~Carried(t)'
    BY <1>2, <1>3
  <2>3. ASSUME owner' = "resetFlows", NEW s \in Slots, NEW t \in before', t \in flows'[s].transfers
        PROVE  flows'[s].key \in left'
    <3>1. t \in flows[s].transfers
      BY <1>2, <1>3, <2>3 DEF NoNewSlot
    <3>2. flows[s].key \in left
      BY <1>0, <1>3, <2>3, <3>1 DEF EpochOK
    <3> QED
      BY <1>3, <2>3, <3>2
  <2>4. ASSUME owner' = "resetCalls", NEW t \in before'
        PROVE  ~InSlot(t)'
    <3>1. ~InSlot(t)
      BY <1>0, <1>3, <2>4 DEF EpochOK, InSlot
    <3> QED
      BY <1>2, <1>3, <3>1
  <2> QED
    BY <2>1, <2>2, <2>3, <2>4 DEF EpochOK
<1>4. CASE UNCHANGED <<closed, before, overtaken, owner, left>>
  <2>1. \A s \in Slots : flows'[s].transfers # {} =>
            flows[s].transfers = {} \/ flows'[s].key = flows[s].key
    BY <1>0, SlotKeepsKey
  <2>2. ASSUME owner = "resetFlows", NEW s \in Slots, NEW t \in before', t \in flows'[s].transfers
        PROVE  flows'[s].key \in left'
    <3>1. t \in flows[s].transfers
      BY <1>2, <1>4, <2>2 DEF NoNewSlot
    <3>2. flows[s].key \in left /\ flows'[s].key = flows[s].key
      BY <1>0, <1>4, <2>1, <2>2, <3>1 DEF EpochOK
    <3> QED
      BY <1>4, <3>2
  <2>3. \A t \in closed' : ~InSlot(t)' /\ (InCount(t)' => t \in overtaken')
    BY <1>0, <1>2, <1>4 DEF EpochOK
  <2>4. \A t \in closed' \cup before' : t \in begun' /\ ~Carried(t)'
    BY <1>2, <1>4
  <2>5. owner = "resetCalls" => \A t \in before' : ~InSlot(t)'
    BY <1>0, <1>2, <1>4 DEF EpochOK
  <2> QED
    BY <1>4, <2>2, <2>3, <2>4, <2>5 DEF EpochOK
<1>5. ASSUME NEW s \in Slots, ResetEntry(s)
      PROVE  EpochOK'
  <2>1. /\ UNCHANGED <<closed, before, overtaken, owner>> /\ left' = left \ {flows[s].key}
        /\ flows' = [flows EXCEPT ![s] = Empty] /\ flows[s].key # NoKey
    BY <1>5 DEF ResetEntry, Free, Used
  <2>2. \A r \in Slots \ {s} : flows'[r] = flows[r] /\ flows[r].key # flows[s].key
    BY <1>0, <2>1 DEF TypeOK, Empty
  <2>3. flows'[s].transfers = {}
    BY <1>0, <2>1 DEF TypeOK, Empty
  <2>4. \A r \in Slots : flows'[r].transfers # {} /\ flows[r].key \in left =>
            flows'[r].key \in left'
    BY <2>1, <2>2, <2>3
  <2> QED
    BY <1>3, <2>1, <2>4
<1>6. ASSUME NEW th \in Threads, ResetCall(th)
      PROVE  EpochOK'
  BY <1>3, <1>6 DEF ResetCall
<1>7. CASE BeginDrain \/ EndDrain \/ FlowsCleared \/ ResetFails
  BY <1>3, <1>7 DEF BeginDrain, EndDrain, FlowsCleared, ResetFails, obsVars
<1>8. CASE BeginReset
  <2>1. /\ UNCHANGED <<thread, flows, dropped, begun, closed, overtaken>>
        /\ owner' = "resetFlows" /\ left' = {flows[s].key : s \in Used}
        /\ before' = Second(returned) \ {thread[th].transfer : th \in Threads}
    BY <1>8 DEF BeginReset, mapVars
  <2>2. \A t \in before' : t \in begun' /\ ~Carried(t)'
    BY <1>0, <2>1 DEF Second, ReturnedOK, Carried
  <2>3. \A s \in Slots : flows'[s].transfers # {} => flows'[s].key \in left'
    BY <1>0, <2>1 DEF FreeIsEmpty, Used
  <2> QED
    BY <1>0, <1>2, <2>1, <2>2, <2>3 DEF EpochOK
<1>9. CASE ResetStats
  <2>1. /\ UNCHANGED <<thread, flows, before>>
        /\ owner = "resetCalls" /\ owner' = "nobody" /\ closed' = closed \cup before
        /\ dropped' = [th \in Threads |-> {}]
        /\ overtaken' = overtaken \cup UNION {thread[th].count : th \in Threads}
    BY <1>9 DEF ResetStats
  <2>2. \A t \in closed' : ~InSlot(t)'
    BY <1>0, <1>2, <2>1 DEF EpochOK
  <2>3. \A t \in closed' : InCount(t)' => t \in overtaken'
    BY <2>1 DEF InCount
  <2>4. \A t \in closed' \cup before' : t \in begun' /\ ~Carried(t)'
    BY <1>2, <2>1
  <2> QED
    BY <2>1, <2>2, <2>3, <2>4 DEF EpochOK
<1> QED
  BY <1>4, <1>5, <1>6, <1>7, <1>8, <1>9, EpochMoves

\* An idle host with empty maps.
LEMMA KernelInit == Init => KernelInv
<1> SUFFICES ASSUME Init PROVE KernelInv
  OBVIOUS
<1>1. Pending = {} /\ IsFiniteSet(Pending) /\ Cardinality(Pending) = 0
  <2>1. Pending = {}
    BY DEF Init, Pending
  <2> QED
    BY <2>1, FS_EmptySet
<1>2. TypeOK
  BY <1>1, KernelAssumption DEF Init, TypeOK, AtHome, Empty, Pending
<1>3. ThreadsOK /\ ProbesOK /\ FreeIsEmpty
  BY <1>1 DEF Init, ThreadsOK, ProbesOK, FreeIsEmpty, Busy, AtHome, Empty
<1>4. \A t : ~InSlot(t) /\ ~Out(t) /\ ~InCount(t)
  BY DEF Init, InSlot, Out, InCount, AtHome, Empty
<1>5. OnePlace /\ ReturnedOK /\ NothingLost /\ EpochOK
  BY <1>4 DEF Init, OnePlace, ReturnedOK, NothingLost, EpochOK, InSlot
<1> QED
  BY <1>2, <1>3, <1>5 DEF KernelInv

\* The parts of the invariant together are inductive.
LEMMA KernelStep == KernelInv /\ [Next]_vars => KernelInv'
<1> SUFFICES ASSUME KernelInv, [Next]_vars PROVE KernelInv'
  OBVIOUS
<1>1. /\ TypeOK /\ ThreadsOK /\ ProbesOK /\ FreeIsEmpty /\ OnePlace /\ ReturnedOK
      /\ NothingLost
  BY DEF KernelInv
<1> QED
  BY <1>1, KernelTypeStep, ThreadsStep, ProbesStep, PlaceStep, ReturnedStep, LossStep,
     EpochStep DEF KernelInv

-----------------------------------------------------------------------------
(* The socket counters.                                                    *)

\* The bytes a refresh would publish that finds counter a after counter b.
Growth(a, b) == IF a = None \/ b = None THEN 0 ELSE Fallback!counterDelta(a, b)

\* The bytes of key k that are still to be published: by the refresh that has
\* read its listing, and by the one after it.
Due(k) == IF networkRefreshing = "read"
            THEN Growth(listed[k], socketCounters[k]) + Growth(socket[k], listed[k])
            ELSE Growth(socket[k], socketCounters[k])

\* Two counters of a connection that cannot be taken for another one grow.
Grows(a, b) == a # None /\ b # None => b <= a

SocketOK(k) ==
    /\ counted[k] + Due(k) <= moved[k]
    /\ k \notin reused =>
          IF networkRefreshing = "read"
            THEN Grows(listed[k], socketCounters[k]) /\ Grows(socket[k], listed[k])
            ELSE Grows(socket[k], socketCounters[k])
    /\ known[k] # None =>
          /\ socketCounters[k] # None
          /\ counted[k] - known[k].counted = socketCounters[k] - known[k].counter

SocketsInv == /\ Fallback!TypeOK
              /\ networkRefreshing # "read" => listed = Fallback!Nothing
              /\ \A k \in Sockets : SocketOK(k)

\* What a refresh publishes of one socket: at most one byte more for one byte
\* more, and the difference of two counters of the same connection.
LEMMA GrowthFacts ==
    /\ \A b : Growth(None, b) = 0
    /\ \A a : Growth(a, None) = 0
    /\ \A b \in Nat \cup {None} : Growth(0, b) = 0
    /\ \A a \in Nat : Growth(a, a) = 0
    /\ \A a, b \in Nat \cup {None} : Growth(a, b) \in Nat
    /\ \A a \in Nat, b \in Nat \cup {None} : Growth(a + 1, b) <= Growth(a, b) + 1
    /\ \A a, b \in Nat : b <= a => Growth(a, b) = a - b
<1>1. \A a \in Nat : a # None
  BY AttributionAssumption
<1>2. \A a, b \in Nat : Growth(a, b) = IF a < b THEN a ELSE a - b
  BY <1>1 DEF Growth, Fallback!counterDelta
<1>3. \A a, b : a = None \/ b = None => Growth(a, b) = 0
  BY DEF Growth
<1>4. \A a, b \in Nat : Growth(a, b) \in Nat /\ Growth(a + 1, b) <= Growth(a, b) + 1
  BY <1>2
<1>5. \A b \in Nat \cup {None} : Growth(0, b) = 0
  <2>1. \A b \in Nat : Growth(0, b) = 0
    BY <1>2
  <2> QED
    BY <1>3, <2>1
<1>6. \A a \in Nat : Growth(a, a) = 0
  BY <1>2
<1>7. \A a, b \in Nat \cup {None} : Growth(a, b) \in Nat
  <2> SUFFICES ASSUME NEW a \in Nat \cup {None}, NEW b \in Nat \cup {None}
               PROVE  Growth(a, b) \in Nat
    OBVIOUS
  <2>1. CASE a = None \/ b = None
    BY <1>3, <2>1
  <2>2. CASE a \in Nat /\ b \in Nat
    BY <1>4, <2>2
  <2> QED
    BY <2>1, <2>2
<1>8. \A a \in Nat, b \in Nat \cup {None} : Growth(a + 1, b) <= Growth(a, b) + 1
  <2> SUFFICES ASSUME NEW a \in Nat, NEW b \in Nat \cup {None}
               PROVE  Growth(a + 1, b) <= Growth(a, b) + 1
    OBVIOUS
  <2>1. CASE b = None
    <3>1. Growth(a + 1, b) = 0 /\ Growth(a, b) = 0
      BY <1>3, <2>1
    <3> QED
      BY <3>1
  <2>2. CASE b \in Nat
    BY <1>4, <2>2
  <2> QED
    BY <2>1, <2>2
<1>9. \A a, b \in Nat : b <= a => Growth(a, b) = a - b
  BY <1>2
<1> QED
  BY <1>3, <1>5, <1>6, <1>7, <1>8, <1>9

\* What SocketsInv says of the values of one key.
LEMMA SocketFacts ==
    ASSUME SocketsInv, NEW k \in Sockets
    PROVE  /\ SocketOK(k)
           /\ socket[k] \in Nat \cup {None} /\ listed[k] \in Nat \cup {None}
           /\ socketCounters[k] \in Nat \cup {None}
           /\ counted[k] \in Nat /\ moved[k] \in Nat
           /\ known[k] \in [counter : Nat, counted : Nat] \cup {None}
  BY DEF SocketsInv, Fallback!TypeOK, Fallback!Counters

\* What a refresh publishes, now or next, is a number.
LEMMA DueFacts ==
    ASSUME SocketsInv, NEW k \in Sockets
    PROVE  /\ Growth(listed[k], socketCounters[k]) \in Nat
           /\ Growth(socket[k], listed[k]) \in Nat
           /\ Growth(socket[k], socketCounters[k]) \in Nat
  BY SocketFacts, GrowthFacts

\* A step that leaves the values of one key alone keeps its part.
LEMMA SocketFrame ==
    ASSUME NEW k \in Sockets, SocketOK(k),
           networkRefreshing' = networkRefreshing, socket'[k] = socket[k],
           listed'[k] = listed[k], socketCounters'[k] = socketCounters[k],
           counted'[k] = counted[k], moved'[k] = moved[k], known'[k] = known[k],
           k \in reused' <=> k \in reused
    PROVE  SocketOK(k)'
<1>1. Due(k)' = Due(k)
  BY DEF Due
<1> QED
  BY <1>1 DEF SocketOK

\* A new connection has moved nothing, whatever the counters of the one before.
LEMMA OpenStep ==
    ASSUME SocketsInv, NEW k \in Sockets, Fallback!Open(k)
    PROVE  SocketsInv'
<1>1. /\ UNCHANGED <<networkRefreshing, listed, socketCounters, counted, moved>>
      /\ socket' = [socket EXCEPT ![k] = 0] /\ known' = [known EXCEPT ![k] = None]
      /\ reused' \in {reused, reused \cup {k}}
      /\ k \notin reused' => listed[k] = None /\ socketCounters[k] = None
  BY DEF Fallback!Open, Fallback!agent
<1>2. Fallback!TypeOK'
  BY <1>1 DEF SocketsInv, Fallback!TypeOK, Fallback!Counters
<1>3. socket'[k] = 0 /\ known'[k] = None
  BY <1>1 DEF SocketsInv, Fallback!TypeOK, Fallback!Counters
<1>4. SocketOK(k)'
  <2>0. Growth(socket'[k], listed[k]) = 0 /\ Growth(socket'[k], socketCounters[k]) = 0
    BY <1>3, SocketFacts, GrowthFacts
  <2>1. Due(k)' <= Due(k) /\ Due(k)' \in Nat /\ Due(k) \in Nat
    BY <1>1, <2>0, DueFacts DEF Due
  <2>2. counted'[k] + Due(k)' <= moved'[k]
    BY <1>1, <2>1, SocketFacts DEF SocketOK
  <2> QED
    BY <1>1, <1>3, <2>2 DEF SocketOK, Grows
<1>5. ASSUME NEW j \in Sockets \ {k} PROVE SocketOK(j)'
  <2>1. socket'[j] = socket[j] /\ known'[j] = known[j] /\ (j \in reused' <=> j \in reused)
    BY <1>1 DEF SocketsInv, Fallback!TypeOK, Fallback!Counters
  <2> QED
    BY <1>1, <2>1, SocketFacts, SocketFrame
<1> QED
  BY <1>1, <1>2, <1>4, <1>5 DEF SocketsInv

\* A byte moved is at most a byte more that is due.
LEMMA MoveStep ==
    ASSUME SocketsInv, NEW k \in Sockets, Fallback!Move(k)
    PROVE  SocketsInv'
<1>1. /\ UNCHANGED <<networkRefreshing, listed, socketCounters, counted, known, reused>>
      /\ socket[k] # None
      /\ socket' = [socket EXCEPT ![k] = @ + 1] /\ moved' = [moved EXCEPT ![k] = @ + 1]
  BY DEF Fallback!Move, Fallback!agent
<1>2. socket[k] \in Nat
  BY <1>1, SocketFacts
<1>3. socket'[k] = socket[k] + 1 /\ moved'[k] = moved[k] + 1
  BY <1>1 DEF SocketsInv, Fallback!TypeOK, Fallback!Counters
<1>4. Fallback!TypeOK'
  BY <1>1, <1>2 DEF SocketsInv, Fallback!TypeOK, Fallback!Counters
<1>5. SocketOK(k)'
  <2>1. Due(k)' <= Due(k) + 1 /\ Due(k)' \in Nat /\ Due(k) \in Nat
    <3>1. \A b \in Nat \cup {None} : /\ Growth(socket'[k], b) <= Growth(socket[k], b) + 1
                                      /\ Growth(socket'[k], b) \in Nat
      <4>1. socket[k] + 1 \in Nat
        BY <1>2
      <4> QED
        BY <1>2, <1>3, <4>1, GrowthFacts
    <3>2. /\ Growth(socket'[k], listed[k]) <= Growth(socket[k], listed[k]) + 1
          /\ Growth(socket'[k], listed[k]) \in Nat
          /\ Growth(socket'[k], socketCounters[k]) <= Growth(socket[k], socketCounters[k]) + 1
          /\ Growth(socket'[k], socketCounters[k]) \in Nat
      BY <3>1, SocketFacts
    <3>3. CASE networkRefreshing = "read"
      BY <1>1, <3>2, <3>3, DueFacts DEF Due
    <3>4. CASE networkRefreshing # "read"
      BY <1>1, <3>2, <3>4, DueFacts DEF Due
    <3> QED
      BY <3>3, <3>4
  <2>2. counted'[k] + Due(k)' <= moved'[k]
    BY <1>1, <1>3, <2>1, SocketFacts DEF SocketOK
  <2>3. \A b \in Nat \cup {None} : Grows(socket[k], b) => Grows(socket'[k], b)
    BY <1>1, <1>2, <1>3 DEF Grows
  <2>4. k \notin reused' =>
           IF networkRefreshing' = "read"
             THEN Grows(listed'[k], socketCounters'[k]) /\ Grows(socket'[k], listed'[k])
             ELSE Grows(socket'[k], socketCounters'[k])
    BY <1>1, <2>3, SocketFacts DEF SocketOK
  <2> QED
    BY <1>1, <2>2, <2>4, SocketFacts DEF SocketOK
<1>6. ASSUME NEW j \in Sockets \ {k} PROVE SocketOK(j)'
  <2>1. socket'[j] = socket[j] /\ moved'[j] = moved[j]
    BY <1>1 DEF SocketsInv, Fallback!TypeOK, Fallback!Counters
  <2> QED
    BY <1>1, <2>1, SocketFacts, SocketFrame
<1> QED
  BY <1>1, <1>4, <1>5, <1>6 DEF SocketsInv

\* Of a closed connection nothing more is due.
LEMMA CloseStep ==
    ASSUME SocketsInv, NEW k \in Sockets, Fallback!Close(k)
    PROVE  SocketsInv'
<1>1. /\ UNCHANGED <<networkRefreshing, listed, socketCounters, counted, moved, known, reused>>
      /\ socket' = [socket EXCEPT ![k] = None]
  BY DEF Fallback!Close, Fallback!agent
<1>2. Fallback!TypeOK'
  BY <1>1 DEF SocketsInv, Fallback!TypeOK, Fallback!Counters
<1>3. socket'[k] = None
  BY <1>1 DEF SocketsInv, Fallback!TypeOK, Fallback!Counters
<1>4. SocketOK(k)'
  <2>0. Growth(socket'[k], listed[k]) = 0 /\ Growth(socket'[k], socketCounters[k]) = 0
    BY <1>3, SocketFacts, GrowthFacts
  <2>1. Due(k)' <= Due(k) /\ Due(k)' \in Nat /\ Due(k) \in Nat
    BY <1>1, <2>0, DueFacts DEF Due
  <2>2. counted'[k] + Due(k)' <= moved'[k]
    BY <1>1, <2>1, SocketFacts DEF SocketOK
  <2> QED
    BY <1>1, <1>3, <2>2, SocketFacts DEF SocketOK, Grows
<1>5. ASSUME NEW j \in Sockets \ {k} PROVE SocketOK(j)'
  <2>1. socket'[j] = socket[j]
    BY <1>1 DEF SocketsInv, Fallback!TypeOK, Fallback!Counters
  <2> QED
    BY <1>1, <2>1, SocketFacts, SocketFrame
<1> QED
  BY <1>1, <1>2, <1>4, <1>5 DEF SocketsInv

\* A listing splits what is due in two: what it shows, and what comes after it.
LEMMA ReadStep ==
    ASSUME SocketsInv, Fallback!ReadSockets
    PROVE  SocketsInv'
<1>1. /\ UNCHANGED <<socket, socketCounters, counted, moved, known, reused>>
      /\ networkRefreshing = "asked" /\ networkRefreshing' = "read"
      /\ listed' = [k \in Sockets |-> IF socket[k] = 0 THEN None ELSE socket[k]]
  BY DEF Fallback!ReadSockets
<1>2. Fallback!TypeOK'
  BY <1>1 DEF SocketsInv, Fallback!TypeOK, Fallback!Counters
<1>3. ASSUME NEW k \in Sockets PROVE SocketOK(k)'
  <2>1. listed'[k] = None \/ listed'[k] = socket[k]
    BY <1>1
  <2>2. /\ Growth(listed'[k], socketCounters[k]) + Growth(socket[k], listed'[k])
              <= Growth(socket[k], socketCounters[k])
        /\ Growth(listed'[k], socketCounters[k]) + Growth(socket[k], listed'[k]) \in Nat
        /\ Growth(socket[k], socketCounters[k]) \in Nat
    <3>1. CASE listed'[k] = None
      <4>1. Growth(listed'[k], socketCounters[k]) = 0 /\ Growth(socket[k], listed'[k]) = 0
        BY <3>1, GrowthFacts
      <4> QED
        BY <4>1, DueFacts
    <3>2. CASE listed'[k] = socket[k] /\ socket[k] # None
      <4>1. Growth(socket[k], listed'[k]) = 0
        BY <3>2, SocketFacts, GrowthFacts
      <4> QED
        BY <3>2, <4>1, DueFacts
    <3> QED
      BY <2>1, <3>1, <3>2
  <2>3. Due(k)' <= Due(k) /\ Due(k)' \in Nat /\ Due(k) \in Nat
    BY <1>1, <2>2 DEF Due
  <2>4. counted'[k] + Due(k)' <= moved'[k]
    BY <1>1, <2>3, SocketFacts DEF SocketOK
  <2>5. k \notin reused => Grows(listed'[k], socketCounters[k]) /\ Grows(socket[k], listed'[k])
    BY <1>1, <2>1, SocketFacts DEF SocketOK, Grows
  <2> QED
    BY <1>1, <2>4, <2>5, SocketFacts DEF SocketOK
<1> QED
  BY <1>1, <1>2, <1>3 DEF SocketsInv

\* What the listing showed is counted, and what came after it is still due.
LEMMA FinishStep ==
    ASSUME SocketsInv, Fallback!FinishRefresh
    PROVE  SocketsInv'
<1>1. /\ UNCHANGED <<socket, moved>>
      /\ networkRefreshing = "read" /\ networkRefreshing' = "no"
      /\ counted' = [k \in Sockets |-> counted[k] + Fallback!Growth(k)]
      /\ socketCounters' = listed /\ listed' = Fallback!Nothing
      /\ known' = [k \in Sockets |-> Fallback!Begun(k)]
      /\ reused' = {k \in reused : listed[k] # None}
  BY DEF Fallback!FinishRefresh
<1>2. ASSUME NEW k \in Sockets
      PROVE  /\ counted'[k] = counted[k] + Growth(listed[k], socketCounters[k])
             /\ Growth(listed[k], socketCounters[k]) \in Nat
             /\ known'[k] = Fallback!Begun(k)
             /\ known'[k] \in [counter : Nat, counted : Nat] \cup {None}
  <2>1. counted'[k] = counted[k] + Growth(listed[k], socketCounters[k])
    BY <1>1 DEF Fallback!Growth, Growth
  <2>2. Growth(listed[k], socketCounters[k]) \in Nat
    BY SocketFacts, GrowthFacts
  <2>3. known'[k] = Fallback!Begun(k)
    BY <1>1
  <2>4. CASE listed[k] = None \/ k \in reused
    BY <2>1, <2>2, <2>3, <2>4 DEF Fallback!Begun
  <2>5. CASE listed[k] # None /\ k \notin reused
    <3>1. listed[k] \in Nat
      BY <2>5, SocketFacts
    <3>2. \/ Fallback!Begun(k) = [counter |-> listed[k], counted |-> counted[k]]
          \/ Fallback!Begun(k) = known[k]
      BY <2>5 DEF Fallback!Begun
    <3>3. known'[k] \in [counter : Nat, counted : Nat] \cup {None}
      BY <2>3, <3>1, <3>2, SocketFacts
    <3> QED
      BY <2>1, <2>2, <2>3, <3>3
  <2> QED
    BY <2>4, <2>5
<1>3. Fallback!TypeOK'
  <2>1. counted' \in [Sockets -> Nat]
    BY <1>1, <1>2, SocketFacts
  <2>2. known' \in [Sockets -> [counter : Nat, counted : Nat] \cup {None}]
    BY <1>1, <1>2
  <2> QED
    BY <1>1, <2>1, <2>2 DEF SocketsInv, Fallback!TypeOK, Fallback!Counters, Fallback!Nothing
<1>4. ASSUME NEW k \in Sockets PROVE SocketOK(k)'
  <2>1. Due(k)' = Growth(socket[k], listed[k])
    BY <1>1 DEF Due
  <2>2. Growth(socket[k], listed[k]) \in Nat
    BY SocketFacts, GrowthFacts
  <2>3. counted'[k] + Due(k)' <= moved'[k]
    BY <1>1, <1>2, <2>1, <2>2, SocketFacts DEF SocketOK, Due
  <2>4. k \notin reused' => Grows(socket'[k], socketCounters'[k])
    BY <1>1, SocketFacts DEF SocketOK, Grows
  <2>5. ASSUME known'[k] # None
        PROVE  /\ socketCounters'[k] # None
               /\ counted'[k] - known'[k].counted = socketCounters'[k] - known'[k].counter
    <3>1. listed[k] # None /\ k \notin reused /\ listed[k] \in Nat
      <4>1. ~(listed[k] = None \/ k \in reused)
        BY <1>2, <2>5 DEF Fallback!Begun
      <4> QED
        BY <4>1, SocketFacts
    <3>2. CASE socketCounters[k] = None
      <4>1. known'[k] = [counter |-> listed[k], counted |-> counted[k]]
        BY <1>2, <3>1, <3>2 DEF Fallback!Begun
      <4>2. counted'[k] = counted[k]
        <5>1. Growth(listed[k], socketCounters[k]) = 0
          BY <3>2, GrowthFacts
        <5> QED
          BY <1>2, <5>1, SocketFacts
      <4> QED
        BY <1>1, <3>1, <4>1, <4>2, SocketFacts
    <3>3. CASE socketCounters[k] # None
      <4>1. known'[k] = known[k]
        BY <1>2, <3>1, <3>3 DEF Fallback!Begun
      <4>2. socketCounters[k] \in Nat /\ socketCounters[k] <= listed[k]
        BY <1>1, <3>1, <3>3, SocketFacts DEF SocketOK, Grows
      <4>3. counted'[k] = counted[k] + (listed[k] - socketCounters[k])
        BY <1>2, <3>1, <3>3, <4>2, GrowthFacts
      <4>4. counted[k] - known[k].counted = socketCounters[k] - known[k].counter
        BY <2>5, <4>1, SocketFacts DEF SocketOK
      <4>5. known[k].counted \in Nat /\ known[k].counter \in Nat /\ counted[k] \in Nat
        BY <2>5, <4>1, SocketFacts
      <4> QED
        BY <1>1, <3>1, <4>1, <4>2, <4>3, <4>4, <4>5
    <3> QED
      BY <3>2, <3>3
  <2> QED
    BY <1>1, <2>3, <2>4, <2>5 DEF SocketOK
<1> QED
  BY <1>1, <1>3, <1>4 DEF SocketsInv, Fallback!Nothing

\* A restarted agent has nothing to compare with.
LEMMA RestartStep ==
    ASSUME SocketsInv, Fallback!RestartAgent
    PROVE  SocketsInv'
<1>1. /\ UNCHANGED <<socket, counted, moved>>
      /\ networkRefreshing' = "no" /\ listed' = Fallback!Nothing
      /\ socketCounters' = Fallback!Nothing /\ known' = Fallback!Nothing /\ reused' = {}
  BY DEF Fallback!RestartAgent
<1>2. Fallback!TypeOK'
  BY <1>1 DEF SocketsInv, Fallback!TypeOK, Fallback!Counters, Fallback!Nothing
<1>3. ASSUME NEW k \in Sockets PROVE SocketOK(k)'
  <2>1. socketCounters'[k] = None /\ known'[k] = None
    BY <1>1 DEF Fallback!Nothing
  <2>2. Due(k)' = 0
    BY <1>1, <2>1, GrowthFacts DEF Due
  <2>3. Due(k) \in Nat
    BY DueFacts DEF Due
  <2> QED
    BY <1>1, <2>1, <2>2, <2>3, SocketFacts DEF SocketOK, Grows
<1> QED
  BY <1>1, <1>2, <1>3 DEF SocketsInv

\* No connections, and nothing counted.
LEMMA SocketsInit == Fallback!Init => SocketsInv
<1> SUFFICES ASSUME Fallback!Init PROVE SocketsInv
  OBVIOUS
<1>1. Fallback!TypeOK
  BY DEF Fallback!Init, Fallback!TypeOK, Fallback!Counters, Fallback!Nothing
<1>2. ASSUME NEW k \in Sockets PROVE SocketOK(k)
  <2>1. /\ socket[k] = None /\ socketCounters[k] = None /\ known[k] = None
        /\ counted[k] = 0 /\ moved[k] = 0 /\ networkRefreshing = "no"
    BY DEF Fallback!Init, Fallback!Nothing
  <2>2. Due(k) = 0
    BY <2>1, GrowthFacts DEF Due
  <2> QED
    BY <2>1, <2>2 DEF SocketOK, Grows
<1> QED
  BY <1>1, <1>2 DEF SocketsInv, Fallback!Init

\* Every step of the connections and of the refresh keeps the invariant.
LEMMA SocketsStep == SocketsInv /\ [Fallback!Next]_fallback => SocketsInv'
<1> SUFFICES ASSUME SocketsInv, [Fallback!Next]_fallback PROVE SocketsInv'
  OBVIOUS
<1>1. CASE /\ UNCHANGED <<socket, listed, socketCounters, counted, moved, known, reused>>
           /\ networkRefreshing' \in {networkRefreshing, "no", "asked"}
           /\ networkRefreshing' # networkRefreshing => networkRefreshing # "read"
  <2>1. Fallback!TypeOK'
    BY <1>1 DEF SocketsInv, Fallback!TypeOK
  <2>2. networkRefreshing' = "read" <=> networkRefreshing = "read"
    BY <1>1
  <2>3. ASSUME NEW k \in Sockets PROVE SocketOK(k)'
    <3>1. Due(k)' = Due(k)
      BY <1>1, <2>2 DEF Due
    <3> QED
      BY <1>1, <2>2, <3>1, SocketFacts DEF SocketOK
  <2> QED
    BY <1>1, <2>1, <2>2, <2>3 DEF SocketsInv, Fallback!Nothing
<1>2. CASE Fallback!BeginRefresh \/ Fallback!ReadFails
  BY <1>1, <1>2 DEF Fallback!BeginRefresh, Fallback!ReadFails
<1>3. CASE UNCHANGED fallback
  BY <1>1, <1>3 DEF fallback
<1> QED
  BY <1>2, <1>3, OpenStep, MoveStep, CloseStep, ReadStep, FinishStep, RestartStep
  DEF Fallback!Next

-----------------------------------------------------------------------------
(* The theorems.                                                           *)

\* Whichever source of flows the agent starts with, the invariant of each holds.
THEOREM AttributionInvariant == AttributionSpec => [](KernelInv /\ SocketsInv)
<1>1. AttributionInit => KernelInv /\ SocketsInv
  BY KernelInit, SocketsInit DEF AttributionInit
<1>2. KernelInv /\ SocketsInv /\ [AttributionNext]_attribution => (KernelInv /\ SocketsInv)'
  <2>1. [AttributionNext]_attribution => [Next]_vars /\ [Fallback!Next]_fallback
    BY DEF AttributionNext, Exact, Fallen, attribution
  <2> QED
    BY <2>1, KernelStep, SocketsStep
<1> QED
  BY <1>1, <1>2, PTL DEF AttributionSpec

\* The entries of the calls map belong to calls in progress, so that it cannot
\* fill up with what failed and short returns leave behind (account_return).
THEOREM CallsAreInProgress == AttributionSpec => []NoStaleCalls
<1>1. KernelInv => NoStaleCalls
  BY DEF KernelInv, ThreadsOK, NoStaleCalls, Pending, Busy
<1> QED
  BY <1>1, AttributionInvariant, PTL

\* What a flow, a drained pair and the probes hold, in the terms of the places
\* that the invariant speaks of.
LEMMA Places ==
    /\ \A t : t \in Second(Held) <=> InSlot(t)
    /\ \A t : t \in AllDropped <=> \E th \in Threads : t \in dropped[th]
    /\ \A k, t : <<k, t>> \in Held <=> \E s \in Slots : t \in flows[s].transfers
                                                         /\ flows[s].key = k
<1>1. \A k, t : <<k, t>> \in Held <=> \E s \in Slots : t \in flows[s].transfers
                                                         /\ flows[s].key = k
  BY DEF Held
<1>2. \A p \in Held : \E s \in Slots : \E t \in flows[s].transfers : p = <<flows[s].key, t>>
  BY DEF Held
<1>3. ASSUME NEW t PROVE t \in Second(Held) <=> InSlot(t)
  <2>1. t \in Second(Held) <=> \E p \in Held : p[2] = t
    BY DEF Second
  <2>2. ASSUME NEW p \in Held, p[2] = t PROVE InSlot(t)
    BY <1>2, <2>2 DEF InSlot
  <2>3. ASSUME NEW s \in Slots, t \in flows[s].transfers
        PROVE  \E p \in Held : p[2] = t
    <3>1. <<flows[s].key, t>> \in Held
      BY <1>1, <2>3
    <3> QED
      BY <3>1
  <2> QED
    BY <2>1, <2>2, <2>3 DEF InSlot
<1> QED
  BY <1>1, <1>3 DEF AllDropped

\* After a reset that succeeded no call that had finished before it is in the
\* maps, but for a count that a probe had read (Reset, record_drop).
THEOREM ResetsOpenAnEpoch == AttributionSpec => []EpochIsFresh
<1>1. KernelInv => EpochIsFresh
  BY Places DEF KernelInv, EpochOK, EpochIsFresh, InCount
<1> QED
  BY <1>1, AttributionInvariant, PTL

\* The bytes of every successful call are in one of the places where the
\* accounting keeps them, or left for one of the reasons it admits, and nothing
\* is in two places (account_return, Drain, Reset).
THEOREM EveryLossHasAReason == AttributionSpec => []LossIsNamed
<1>1. KernelInv => LossIsNamed
  <2> SUFFICES ASSUME KernelInv PROVE LossIsNamed
    OBVIOUS
  <2>1. TypeOK /\ OnePlace /\ NothingLost
    BY DEF KernelInv
  <2>2. \A t : InSlot(t) \/ Out(t) => t \in Transfers
    BY <2>1 DEF TypeOK, InSlot, Out
  <2>3. ASSUME NEW p \in returned
        PROVE  \/ p \in Held \cup drained
               \/ p[2] \in InProbe \cup AllDropped \cup wiped \cup unseen \cup raced
    <3>1. p = <<p[1], p[2]>> /\ Counted(p)
      BY <2>1 DEF TypeOK, NothingLost
    <3>2. \A s \in Slots : flows[s].key = p[1] /\ p[2] \in flows[s].transfers => p \in Held
      BY <3>1, Places
    <3>3. \A th \in Threads : thread[th].pc \in Probing /\ thread[th].transfer = p[2] =>
              p[2] \in InProbe
      BY DEF InProbe
    <3> QED
      BY <3>1, <3>2, <3>3 DEF Counted, AllDropped
  <2>4. \A t \in Second(drained) : Out(t)
    BY DEF Second, Out
  <2>5. Second(Held) \cap Second(drained) = {}
    BY <2>1, <2>2, <2>4, Places DEF OnePlace
  <2>6. AllDropped \cap Second(Held \cup drained) = {}
    <3>1. \A t \in Second(Held \cup drained) : t \in Second(Held) \/ t \in Second(drained)
      BY DEF Second
    <3>2. \A t \in AllDropped : InCount(t)
      BY DEF AllDropped, InCount
    <3> QED
      BY <2>1, <2>2, <2>4, <3>1, <3>2, Places DEF OnePlace
  <2>7. ASSUME NEW p \in Held, NEW q \in Held, p[2] = q[2]
        PROVE  p = q
    <3>1. PICK s \in Slots : p[2] \in flows[s].transfers /\ p = <<flows[s].key, p[2]>>
      BY DEF Held
    <3>2. PICK r \in Slots : q[2] \in flows[r].transfers /\ q = <<flows[r].key, q[2]>>
      BY DEF Held
    <3>3. p[2] \in Transfers
      BY <2>2, <3>1 DEF InSlot
    <3>4. s = r
      BY <2>1, <2>7, <3>1, <3>2, <3>3 DEF OnePlace
    <3> QED
      BY <2>7, <3>1, <3>2, <3>4
  <2> QED
    BY <2>1, <2>3, <2>5, <2>6, <2>7 DEF LossIsNamed
<1> QED
  BY <1>1, AttributionInvariant, PTL

\* No socket's bytes are counted twice, and what a connection moved between its
\* first listing and its last is counted to the byte (readNetworkFlows).
THEOREM SocketsAreCountedOnce == AttributionSpec => []SocketBytesOnce
<1>1. SocketsInv => SocketBytesOnce
  <2> SUFFICES ASSUME SocketsInv, NEW k \in Sockets
               PROVE  /\ counted[k] <= moved[k]
                      /\ known[k] # None =>
                            /\ socketCounters[k] # None
                            /\ counted[k] - known[k].counted
                                  = socketCounters[k] - known[k].counter
    BY DEF SocketsInv, SocketBytesOnce, Fallback!SocketBytesOnce
  <2>1. Due(k) \in Nat
    BY DueFacts DEF Due
  <2>2. counted[k] <= moved[k]
    BY <2>1, SocketFacts DEF SocketOK
  <2> QED
    BY <2>2, SocketFacts DEF SocketOK
<1> QED
  BY <1>1, AttributionInvariant, PTL
=============================================================================
