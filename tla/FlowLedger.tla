----------------------------- MODULE FlowLedger -----------------------------
(***************************************************************************)
(* What the network history promises: every counted transfer is pending    *)
(* until it is either recorded in the history, once, or given up; what is  *)
(* pending no more stays so until the monitor is restarted, and even then  *)
(* only what the pipeline still holds comes back; where nothing fails a    *)
(* transfer is given up only if an administrator discarded it; and the     *)
(* history is only ever emptied as a whole.  FlowDelivery, the pipeline    *)
(* that carries the transfers from the kernel map to SQLite, implements    *)
(* this in both modes of FlowModes.                                        *)
(***************************************************************************)
EXTENDS Naturals

CONSTANT Transfers   \* successful send/receive calls of the observed host

VARIABLES arrived,   \* transfers the kernel probes have counted
          held,      \* those the pipeline has not let go of
          pending,   \* of those, the ones that may still reach the history
          db,        \* how often each transfer is in the history
          waived,    \* those an administrator's request discarded
          restarts,  \* restarts of the monitor
          calm       \* nothing fails in this behaviour

lvars == <<arrived, held, pending, db, waived, restarts, calm>>

LInit == /\ arrived = {} /\ held = {} /\ pending = {} /\ waived = {}
         /\ db = [t \in Transfers |-> 0]
         /\ restarts = 0
         /\ calm \in BOOLEAN

\* The kernel counts a transfer.
LArrive(t) == /\ t \notin arrived
              /\ arrived' = arrived \cup {t}
              /\ held' = held \cup {t}
              /\ pending' = pending \cup {t}
              /\ UNCHANGED <<db, waived, restarts, calm>>

\* The pipeline lets go of some transfers and takes none back; what is given up
\* in a calm behaviour is in the history or was discarded.
Settle == /\ held' \subseteq held
          /\ pending' \subseteq pending \cap held'
          /\ calm => \A t \in pending \ pending' : t \in waived' \/ db'[t] > 0
          /\ UNCHANGED <<arrived, restarts, calm>>

\* One history transaction records the transfers in kept, which are not
\* recorded again in this run of the monitor.
LRecord(kept) == /\ Settle
                 /\ pending' \cap kept = {}
                 /\ db' = [t \in Transfers |-> IF t \in kept THEN db[t] + 1 ELSE db[t]]
                 /\ UNCHANGED waived

\* An administrator's request discards what the pipeline holds, or (with
\* nothing discarded) the pipeline gives up by itself.
LGiveUp == /\ Settle
           /\ waived \subseteq waived' /\ waived' \subseteq waived \cup held
           /\ UNCHANGED db

\* The administrator empties the history; what is on its way stays so.
LWipe == /\ db' = [t \in Transfers |-> 0]
         /\ waived' = waived \cup {t \in Transfers : db[t] > 0}
         /\ UNCHANGED <<arrived, held, pending, restarts, calm>>

\* A new monitor process has lost the batch the old one held, and does not
\* know what it recorded: the one step by which pending grows again.
LRestart == /\ ~calm
            /\ restarts' = restarts + 1
            /\ held' \subseteq held
            /\ pending' \subseteq held'
            /\ UNCHANGED <<arrived, db, waived, calm>>

LNext == \/ \E t \in Transfers : LArrive(t)
         \/ \E kept \in SUBSET pending : LRecord(kept)
         \/ LGiveUp
         \/ LWipe
         \/ LRestart

LSpec == LInit /\ [][LNext]_lvars
=============================================================================
