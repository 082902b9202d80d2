--------------------------- MODULE SocketCounters ---------------------------
(***************************************************************************)
(* Network accounting where the eBPF programs could not be loaded: each    *)
(* refresh lists the TCP sockets with their byte counters (ss) and turns   *)
(* the growth since the listing before into flows (readNetworkFlows and    *)
(* refreshConnections in agent/collector.go).  A socket is known by        *)
(* process and endpoints, a key that a later connection may have again.    *)
(* One direction stands for both, which are counted alike.                 *)
(***************************************************************************)
EXTENDS Naturals

CONSTANTS Keys,       \* pid, local and remote endpoint
          MaxBytes,   \* bound on the bytes a behaviour moves under one key
          None        \* no socket, or no counter

VARIABLES
    socket,            \* bytes moved by the open connection of each key
    networkRefreshing, \* how far a refresh is, if one is running
    listed,            \* the listing it has read and not published yet
    socketCounters,    \* the counters of the last listing that was published
    counted,           \* bytes published as flows
    \* observations
    moved,             \* bytes moved under a key, by all its connections
    known,             \* where the counting of an open connection began
    reused             \* keys whose new connection may be taken for the one before

agent == <<networkRefreshing, listed, socketCounters>>
vars  == <<socket, agent, counted, moved, known, reused>>

Counters == [Keys -> Nat \cup {None}]
Nothing  == [k \in Keys |-> None]

TypeOK ==
    /\ {socket, socketCounters, listed} \subseteq Counters
    /\ networkRefreshing \in {"no", "asked", "read"}
    /\ {counted, moved} \subseteq [Keys -> Nat]
    /\ known \in [Keys -> [counter : Nat, counted : Nat] \cup {None}]
    /\ reused \subseteq Keys

Init ==
    /\ socket = Nothing /\ socketCounters = Nothing /\ listed = Nothing
    /\ networkRefreshing = "no"
    /\ counted = [k \in Keys |-> 0] /\ moved = counted
    /\ known = Nothing /\ reused = {}

-----------------------------------------------------------------------------
(* The connections of the host.                                            *)

Open(k) ==
    /\ socket[k] = None
    /\ socket' = [socket EXCEPT ![k] = 0]
    /\ known' = [known EXCEPT ![k] = None]
    /\ reused' = IF listed[k] = None /\ socketCounters[k] = None THEN reused
                                                                 ELSE reused \cup {k}
    /\ UNCHANGED <<agent, counted, moved>>

Move(k) ==
    /\ socket[k] # None /\ moved[k] < MaxBytes
    /\ socket' = [socket EXCEPT ![k] = @ + 1]
    /\ moved' = [moved EXCEPT ![k] = @ + 1]
    /\ UNCHANGED <<agent, counted, known, reused>>

Close(k) ==
    /\ socket[k] # None
    /\ socket' = [socket EXCEPT ![k] = None]
    /\ UNCHANGED <<agent, counted, moved, known, reused>>

-----------------------------------------------------------------------------
(* The refresh, one at a time; a history clear leaves its counters alone.  *)

BeginRefresh ==
    /\ networkRefreshing = "no"
    /\ networkRefreshing' = "asked"
    /\ UNCHANGED <<socket, listed, socketCounters, counted, moved, known, reused>>

\* ss prints no counter for a socket that has moved nothing.
ReadSockets ==
    /\ networkRefreshing = "asked"
    /\ networkRefreshing' = "read"
    /\ listed' = [k \in Keys |-> IF socket[k] = 0 THEN None ELSE socket[k]]
    /\ UNCHANGED <<socket, socketCounters, counted, moved, known, reused>>

\* Seeded: a failed listing is taken for an empty one.
ReadFails_Forgets ==
    /\ networkRefreshing = "asked"
    /\ networkRefreshing' = "no"
    /\ socketCounters' = Nothing
    /\ UNCHANGED <<socket, listed, counted, moved, known, reused>>

\* ss fails: no flows, and the counters of the listing before are kept.
ReadFails ==
    /\ networkRefreshing = "asked"
    /\ networkRefreshing' = "no"
    /\ UNCHANGED <<socket, listed, socketCounters, counted, moved, known, reused>>

counterDelta(current, previous) ==
    IF current < previous THEN current ELSE current - previous

\* A socket that the listing before did not have gives no flow.
Growth(k) == IF listed[k] = None \/ socketCounters[k] = None THEN 0
             ELSE counterDelta(listed[k], socketCounters[k])

Begun(k) ==
    IF listed[k] = None \/ k \in reused THEN None
    ELSE IF socketCounters[k] = None THEN [counter |-> listed[k], counted |-> counted[k]]
    ELSE known[k]

\* The flows become the batch that snapshots carry, the listing the one that
\* the next refresh compares with.
FinishRefresh ==
    /\ networkRefreshing = "read"
    /\ networkRefreshing' = "no"
    /\ counted' = [k \in Keys |-> counted[k] + Growth(k)]
    /\ socketCounters' = listed /\ listed' = Nothing
    /\ known' = [k \in Keys |-> Begun(k)]
    /\ reused' = {k \in reused : listed[k] # None}
    /\ UNCHANGED <<socket, moved>>

RestartAgent ==
    /\ networkRefreshing' = "no" /\ listed' = Nothing /\ socketCounters' = Nothing
    /\ known' = Nothing /\ reused' = {}
    /\ UNCHANGED <<socket, counted, moved>>

Next == \/ \E k \in Keys : Open(k) \/ Move(k) \/ Close(k)
        \/ BeginRefresh \/ ReadSockets \/ ReadFails \/ FinishRefresh
        \/ RestartAgent

Spec == Init /\ [][Next]_vars

-----------------------------------------------------------------------------
(* Properties.                                                             *)

\* No byte is counted twice, whatever connections come to share a key, listings
\* fail and agents restart; and from the first listing of a connection on, as
\* long as it stays listed, what it moved up to the last listing is counted to
\* the byte: listings that failed in between lose nothing.
SocketBytesOnce ==
    \A k \in Keys :
        /\ counted[k] <= moved[k]
        /\ known[k] # None =>
              /\ socketCounters[k] # None
              /\ counted[k] - known[k].counted = socketCounters[k] - known[k].counter
==============================================================================
