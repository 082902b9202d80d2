------------------------- MODULE NetworkAttribution -------------------------
(***************************************************************************)
(* The two sources of network flows, of which the agent uses one from its  *)
(* start on: the eBPF maps (KernelAccounting) when EnableBPF could load    *)
(* the programs, and otherwise the socket counters (SocketCounters).       *)
(***************************************************************************)
EXTENDS KernelAccounting

CONSTANTS Sockets,    \* keys of the socket counters
          MaxBytes,   \* bound on the bytes moved under one of them
          None        \* no socket, or no counter

ASSUME AttributionAssumption == None \notin Nat

VARIABLES networkMode, socket, networkRefreshing, listed, socketCounters, counted, moved,
          known, reused

Fallback == INSTANCE SocketCounters WITH Keys <- Sockets

fallback    == <<socket, networkRefreshing, listed, socketCounters, counted, moved, known, reused>>
attribution == <<networkMode, vars, fallback>>

\* EnableBPF: without the programs the collector keeps its first mode.
AttributionInit ==
    /\ networkMode \in {"ebpf-exact", "socket-counter-fallback"}
    /\ Init /\ Fallback!Init

\* refreshConnections and ResetNetworkAccounting look whether there is a tracker.
Exact  == networkMode = "ebpf-exact" /\ Next /\ UNCHANGED fallback
Fallen == networkMode = "socket-counter-fallback" /\ Fallback!Next /\ UNCHANGED vars

AttributionNext == (Exact \/ Fallen) /\ UNCHANGED networkMode

AttributionSpec == AttributionInit /\ [][AttributionNext]_attribution

-----------------------------------------------------------------------------
\* No byte is counted twice by the socket counters, whatever connections come to
\* share a key, listings fail and agents restart; and what a connection moved
\* between its first listing and its last is counted to the byte (readNetworkFlows
\* compares a listing with the one before, and a failed one keeps its counters).
SocketBytesOnce == Fallback!TypeOK /\ Fallback!SocketBytesOnce
=============================================================================
