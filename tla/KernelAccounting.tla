-------------------------- MODULE KernelAccounting --------------------------
(***************************************************************************)
(* The eBPF accounting programs (bpf/network_accounting.c) and the agent's *)
(* tracker that drains and resets their maps (network_bpf_linux.go).       *)
(*                                                                         *)
(* An entry probe remembers the socket of a call in the calls map; the     *)
(* return probe looks the flow entry up, or inserts it, and adds the bytes *)
(* through the pointer it was given.  The probes run on every CPU at once  *)
(* and take no lock, so each of their map operations is a step.  The hash  *)
(* map is preallocated: deleting an entry frees its slot while a probe may *)
(* still hold a pointer to it, and the next insertion may reuse the slot.  *)
(*                                                                         *)
(* A transfer is a token for the bytes of one successful call.             *)
(***************************************************************************)
EXTENDS Naturals, FiniteSets

CONSTANTS Threads,    \* threads of the observed host (pid_tgid)
          Keys,       \* flow keys: process, protocol, remote endpoint
          Transfers,  \* calls a behaviour makes, one token each
          MaxCalls,   \* max_entries of the calls map
          Slots,      \* the elements of the flows map: max_entries of them
          NoKey, NoSlot, NoTransfer

ASSUME KernelAssumption == /\ MaxCalls \in Nat
                           /\ NoKey \notin Keys /\ NoSlot \notin Slots
                           /\ NoTransfer \notin Transfers

VARIABLES
    thread,    \* what each thread is doing: a call, or a step of the return probe
    calls,     \* the calls map: the key of the socket a thread is using
    flows,     \* the flows map, slot by slot
    dropped,   \* accounting_stats: the transfers each CPU counts as dropped
    owner,     \* who holds tracker.mu: Drain, or Reset and how far it is
    left,      \* what the iteration of Reset has yet to delete
    \* observations
    begun,     \* transfers whose call has begun
    returned,  \* <<key, transfer>> of every call that returned with bytes
    drained,   \* <<key, transfer>> of everything Drain has handed out
    unseen,    \* transfers whose call did not fit in the calls map
    raced,     \* transfers whose slot was freed between lookup and add
    wiped,     \* transfers discarded by Reset
    before,    \* transfers finished when the Reset in progress began
    closed,    \* transfers finished before a Reset that succeeded began
    overtaken  \* transfers in a count a probe had read when Reset zeroed it

mapVars == <<calls, flows, dropped>>
tracker == <<owner, left>>
obsVars == <<begun, returned, drained, unseen, raced, wiped, before, closed, overtaken>>
vars    == <<thread, mapVars, tracker, obsVars>>

-----------------------------------------------------------------------------
AtHome == [pc |-> "user", key |-> NoKey, transfer |-> NoTransfer, slot |-> NoSlot,
           count |-> {}]
Empty  == [key |-> NoKey, transfers |-> {}]

Probing == {"lookup", "insert", "again", "add", "drop"}   \* steps of the return probe

TypeOK ==
    /\ thread \in [Threads -> [pc : {"user", "call"} \cup Probing, key : Keys \cup {NoKey},
                               transfer : Transfers \cup {NoTransfer},
                               slot : Slots \cup {NoSlot},
                               count : SUBSET Transfers]]
    /\ calls \in [Threads -> Keys \cup {NoKey}]
    /\ flows \in [Slots -> [key : Keys \cup {NoKey}, transfers : SUBSET Transfers]]
    /\ owner \in {"nobody", "drain", "resetFlows", "resetCalls"}
    /\ {drained, returned} \subseteq SUBSET (Keys \X Transfers)
    /\ left \subseteq Keys \cup Threads
    /\ dropped \in [Threads -> SUBSET Transfers]
    /\ {begun, unseen, raced, wiped, before, closed, overtaken} \subseteq SUBSET Transfers
    /\ Cardinality({th \in Threads : calls[th] # NoKey}) <= MaxCalls
    \* one entry per key
    /\ \A s, r \in Slots : flows[s].key = flows[r].key => s = r \/ flows[s] = Empty

Init ==
    /\ thread = [th \in Threads |-> AtHome]
    /\ calls = [th \in Threads |-> NoKey]
    /\ flows = [s \in Slots |-> Empty]
    /\ dropped = [th \in Threads |-> {}]
    /\ owner = "nobody" /\ left = {}
    /\ begun = {} /\ returned = {} /\ drained = {} /\ unseen = {} /\ raced = {}
    /\ wiped = {} /\ before = {} /\ closed = {} /\ overtaken = {}

Pending == {th \in Threads : calls[th] # NoKey}
Used    == {s \in Slots : flows[s].key # NoKey}
Find(k) == {s \in Slots : flows[s].key = k}

AllDropped    == UNION {dropped[th] : th \in Threads}
Second(pairs) == {p[2] : p \in pairs}

-----------------------------------------------------------------------------
(* The probes.                                                             *)

\* remember_socket: the result of the map update is not looked at.
Enter(th, k, t) ==
    /\ thread[th].pc = "user"
    /\ t \notin begun
    /\ begun' = begun \cup {t}
    /\ thread' = [thread EXCEPT ![th] = [AtHome EXCEPT !.pc = "call", !.key = k, !.transfer = t]]
    /\ IF th \in Pending \/ Cardinality(Pending) < MaxCalls
         THEN calls' = [calls EXCEPT ![th] = k] /\ UNCHANGED unseen
         ELSE unseen' = unseen \cup {t} /\ UNCHANGED calls
    /\ UNCHANGED <<flows, dropped, tracker, returned, drained, raced, wiped, before, closed,
                   overtaken>>

\* The return probe ends: the thread's entry leaves the calls map.
Leave(th) == /\ thread' = [thread EXCEPT ![th] = AtHome]
             /\ calls' = [calls EXCEPT ![th] = NoKey]

\* Seeded: the early returns leave the entry of the call behind.
ReturnNothing_KeepsCall(th) ==
    /\ thread[th].pc = "call"
    /\ thread' = [thread EXCEPT ![th] = AtHome]
    /\ UNCHANGED <<mapVars, tracker, obsVars>>

\* account_return of a call that moved no bytes, or more than were asked for.
ReturnNothing(th) ==
    /\ thread[th].pc = "call"
    /\ Leave(th)
    /\ UNCHANGED <<flows, dropped, tracker, obsVars>>

\* account_return of a successful call: without an entry it ends at once.
ReturnBytes(th) ==
    /\ thread[th].pc = "call"
    /\ returned' = returned \cup {<<thread[th].key, thread[th].transfer>>}
    /\ thread' = [thread EXCEPT ![th] = IF calls[th] = NoKey THEN AtHome
                                        ELSE [@ EXCEPT !.pc = "lookup"]]
    /\ UNCHANGED <<mapVars, tracker, begun, drained, unseen, raced, wiped, before, closed,
                   overtaken>>

\* The first lookup of the flow entry.
Lookup(th) ==
    /\ thread[th].pc = "lookup"
    /\ LET found == Find(thread[th].key) IN
         thread' = IF found = {} THEN [thread EXCEPT ![th].pc = "insert"]
                   ELSE [thread EXCEPT ![th].pc = "add", ![th].slot = CHOOSE s \in found : TRUE]
    /\ UNCHANGED <<mapVars, tracker, obsVars>>

\* Seeded: a full map evicts an entry, as an LRU map would.
Insert_Evicts(th) ==
    /\ thread[th].pc = "insert"
    /\ thread' = [thread EXCEPT ![th].pc = "again"]
    /\ IF Find(thread[th].key) # {}
         THEN UNCHANGED flows
         ELSE \E s \in IF Used = Slots THEN Slots ELSE Slots \ Used :
                flows' = [flows EXCEPT ![s] = [key |-> thread[th].key, transfers |-> {}]]
    /\ UNCHANGED <<calls, dropped, tracker, obsVars>>

\* bpf_map_update_elem with BPF_NOEXIST and a zero value: it changes nothing
\* when the key is there or the map is full.
Insert(th) ==
    /\ thread[th].pc = "insert"
    /\ thread' = [thread EXCEPT ![th].pc = "again"]
    /\ IF Find(thread[th].key) # {} \/ Used = Slots
         THEN UNCHANGED flows
         ELSE \E s \in Slots \ Used :
                flows' = [flows EXCEPT ![s] = [key |-> thread[th].key, transfers |-> {}]]
    /\ UNCHANGED <<calls, dropped, tracker, obsVars>>

\* The second lookup: without an entry record_drop reads the CPU's count ...
LookupAgain(th) ==
    /\ thread[th].pc = "again"
    /\ LET found == Find(thread[th].key) IN
         thread' = IF found = {}
                     THEN [thread EXCEPT ![th].pc = "drop", ![th].count = dropped[th]]
                     ELSE [thread EXCEPT ![th].pc = "add",
                                         ![th].slot = CHOOSE s \in found : TRUE]
    /\ UNCHANGED <<mapVars, tracker, obsVars>>

\* ... and stores it with these bytes added, which no other probe of the CPU
\* but a reset may have come before.
RecordDrop(th) ==
    /\ thread[th].pc = "drop"
    /\ dropped' = [dropped EXCEPT ![th] = thread[th].count \cup {thread[th].transfer}]
    /\ Leave(th)
    /\ UNCHANGED <<flows, tracker, obsVars>>

\* The atomic add through the pointer: it reaches whatever the slot holds now,
\* and nothing when the slot is free.
AddBytes(th) ==
    /\ thread[th].pc = "add"
    /\ LET s == thread[th].slot IN
         flows' = IF s \in Used
                    THEN [flows EXCEPT ![s].transfers = @ \cup {thread[th].transfer}]
                    ELSE flows
    /\ Leave(th)
    /\ UNCHANGED <<dropped, tracker, obsVars>>

-----------------------------------------------------------------------------
(* The tracker.  Drain and Reset exclude each other by tracker.mu.         *)

\* Deleting an entry frees its slot under the probes that point to it.
Free(s) ==
    /\ flows' = [flows EXCEPT ![s] = Empty]
    /\ raced' = raced \cup {thread[th].transfer : th \in
                              {th \in Threads : thread[th].pc = "add" /\ thread[th].slot = s}}

BeginDrain ==
    /\ owner = "nobody"
    /\ owner' = "drain"
    /\ UNCHANGED <<thread, mapVars, left, obsVars>>

\* LookupAndDelete of one key of the iteration.
DrainEntry(s) ==
    /\ owner = "drain"
    /\ s \in Used
    /\ drained' = drained \cup {<<flows[s].key, t>> : t \in flows[s].transfers}
    /\ Free(s)
    /\ UNCHANGED <<thread, calls, dropped, tracker, begun, returned, unseen, wiped, before,
                   closed, overtaken>>

\* The iteration ends, at the last key or when it has seen too many.
EndDrain ==
    /\ owner = "drain"
    /\ owner' = "nobody"
    /\ UNCHANGED <<thread, mapVars, left, obsVars>>

\* Reset takes the lock and begins to iterate over the flows map.
BeginReset ==
    /\ owner = "nobody"
    /\ owner' = "resetFlows"
    /\ left' = {flows[s].key : s \in Used}
    /\ before' = Second(returned) \ {thread[th].transfer : th \in Threads}
    /\ UNCHANGED <<thread, mapVars, begun, returned, drained, unseen, raced, wiped, closed,
                   overtaken>>

\* clearBPFMap(flows) deletes one key, perhaps one inserted meanwhile.
ResetEntry(s) ==
    /\ owner = "resetFlows"
    /\ s \in Used
    /\ left' = left \ {flows[s].key}
    /\ wiped' = wiped \cup flows[s].transfers
    /\ Free(s)
    /\ UNCHANGED <<thread, calls, dropped, owner, begun, returned, drained, unseen, before,
                   closed, overtaken>>

\* Seeded: the iteration stops short of the last key.
FlowsCleared_Early ==
    /\ owner = "resetFlows"
    /\ owner' = "resetCalls"
    /\ left' = Pending
    /\ UNCHANGED <<thread, mapVars, obsVars>>

\* The iteration has met every key that was there when it began.
FlowsCleared ==
    /\ owner = "resetFlows"
    /\ left = {}
    /\ owner' = "resetCalls"
    /\ left' = Pending
    /\ UNCHANGED <<thread, mapVars, obsVars>>

\* clearBPFMap(calls) deletes one key: that call will not be counted.
ResetCall(th) ==
    /\ owner = "resetCalls"
    /\ calls[th] # NoKey
    /\ calls' = [calls EXCEPT ![th] = NoKey]
    /\ left' = left \ {th}
    /\ wiped' = IF thread[th].pc = "call" THEN wiped \cup {thread[th].transfer} ELSE wiped
    /\ UNCHANGED <<thread, flows, dropped, owner, begun, returned, drained, unseen, raced,
                   before, closed, overtaken>>

\* The integrity counter is zeroed on every CPU, under the feet of a probe
\* that has read it and not stored it yet.
ResetStats ==
    /\ owner = "resetCalls"
    /\ left \cap Pending = {}
    /\ dropped' = [th \in Threads |-> {}]
    /\ wiped' = wiped \cup AllDropped
    /\ closed' = closed \cup before
    /\ overtaken' = overtaken \cup UNION {thread[th].count : th \in Threads}
    /\ owner' = "nobody" /\ left' = {}
    /\ UNCHANGED <<thread, calls, flows, begun, returned, drained, unseen, raced, before>>

\* An iteration or a deletion fails: Reset returns the error at once.
ResetFails ==
    /\ owner \in {"resetFlows", "resetCalls"}
    /\ owner' = "nobody" /\ left' = {}
    /\ UNCHANGED <<thread, mapVars, obsVars>>

-----------------------------------------------------------------------------
Probe == \E th \in Threads :
            \/ \E k \in Keys, t \in Transfers : Enter(th, k, t)
            \/ ReturnNothing(th) \/ ReturnBytes(th)
            \/ Lookup(th) \/ Insert(th) \/ LookupAgain(th) \/ RecordDrop(th) \/ AddBytes(th)

Drain == BeginDrain \/ (\E s \in Slots : DrainEntry(s)) \/ EndDrain

Reset == \/ BeginReset \/ (\E s \in Slots : ResetEntry(s)) \/ FlowsCleared
         \/ (\E th \in Threads : ResetCall(th)) \/ ResetStats \/ ResetFails

Next == Probe \/ Drain \/ Reset

Spec == Init /\ [][Next]_vars

-----------------------------------------------------------------------------
(* Properties.                                                             *)

Held    == UNION {{<<flows[s].key, t>> : t \in flows[s].transfers} : s \in Slots}
InProbe == {thread[th].transfer : th \in {th \in Threads : thread[th].pc \in Probing}}

\* The bytes of every successful call are in the flows map or were handed out
\* by Drain under the key of that call, or are in the dropped counter, or a
\* reset discarded them; the only other ways out are a full calls map and an
\* entry deleted between the probe's lookup and its add.  Nothing is counted in
\* two places.  Both maps keep to their bounds (TypeOK).
LossIsNamed ==
    /\ TypeOK
    /\ \A p \in returned : \/ p \in Held \cup drained
                           \/ p[2] \in InProbe \cup AllDropped \cup wiped \cup unseen \cup raced
    /\ Second(Held) \cap Second(drained) = {}
    /\ AllDropped \cap Second(Held \cup drained) = {}
    /\ \A p, q \in Held : p[2] = q[2] => p = q

\* An entry of the calls map belongs to a call in progress: failed, short and
\* oversized returns leave none behind, so the map cannot fill up with them.
NoStaleCalls == \A th \in Pending : thread[th].pc # "user"

\* A reset that succeeded opens a new epoch: no call that had finished before
\* it began is still, or again, in the flows map, and none is in the integrity
\* counter but through a probe that read a CPU's count before Reset zeroed it
\* and stored it after.
EpochIsFresh ==
    /\ closed \cap Second(Held) = {}
    /\ closed \cap AllDropped \subseteq overtaken
=============================================================================
