------------------------ MODULE NotificationTargets ------------------------
(***************************************************************************)
(* Telegram destinations: the monitor keeps a row of notification_targets, *)
(* the agent keeps the bot token in a file of its secret directory, and    *)
(* the two are written and deleted by different requests over a socket     *)
(* that may fail (notificationTargets and notificationTargetItem in        *)
(* app/server.go, writeSecret and deleteSecret in agent/server.go).        *)
(*                                                                         *)
(* A destination gets a fresh id and a fresh secret reference at once, so  *)
(* one identifier stands for both.                                         *)
(***************************************************************************)
EXTENDS Naturals, FiniteSets

CONSTANTS Targets,    \* destinations that are ever posted
          Deleters    \* DELETE requests in progress at once

VARIABLES
    rows,      \* notification_targets
    files,     \* files of the secret directory
    creator,   \* the POST handler of each destination
    deleter,   \* the DELETE handlers
    writes,    \* secret.write actions the agent has still to perform
    deletes,   \* secret.delete actions the agent has still to perform
    acked,     \* secret.write answers on their way to the monitor
    failed     \* observation: destinations some step has failed for

vars == <<rows, files, creator, deleter, writes, deletes, acked, failed>>

Resting == [pc |-> "idle"]
Busy    == [pc : {"listed", "rowless"}, target : Targets, secret : BOOLEAN]

TypeOK ==
    /\ rows \in SUBSET Targets
    /\ files \in SUBSET Targets
    /\ creator \in [Targets -> {"new", "writing", "written", "done"}]
    /\ deleter \in [Deleters -> {Resting} \cup Busy]
    /\ {writes, deletes, acked, failed} \subseteq SUBSET Targets

Init ==
    /\ rows = {} /\ files = {}
    /\ creator = [t \in Targets |-> "new"]
    /\ deleter = [d \in Deleters |-> Resting]
    /\ writes = {} /\ deletes = {} /\ acked = {} /\ failed = {}

-----------------------------------------------------------------------------
(* POST /notification-targets.                                             *)

\* The handler draws the identifiers and asks the agent to store the token.
PostTarget(t) ==
    /\ creator[t] = "new"
    /\ creator' = [creator EXCEPT ![t] = "writing"]
    /\ writes' = writes \cup {t}
    /\ UNCHANGED <<rows, files, deleter, deletes, acked, failed>>

\* The agent answered that the secret is stored.
SecretWritten(t) ==
    /\ creator[t] = "writing" /\ t \in acked
    /\ creator' = [creator EXCEPT ![t] = "written"]
    /\ acked' = acked \ {t}
    /\ UNCHANGED <<rows, files, deleter, writes, deletes, failed>>

\* Any error of the action, a timeout with the action under way included: 502.
SecretNotWritten(t) ==
    /\ creator[t] = "writing"
    /\ creator' = [creator EXCEPT ![t] = "done"]
    /\ failed' = failed \cup {t}
    /\ UNCHANGED <<rows, files, deleter, writes, deletes, acked>>

PutTarget(t) ==
    /\ creator[t] = "written"
    /\ creator' = [creator EXCEPT ![t] = "done"]
    /\ rows' = rows \cup {t}
    /\ UNCHANGED <<files, deleter, writes, deletes, acked, failed>>

\* The insert failed: the handler asks for the secret back, and does not look
\* at the answer (with its client gone, the request is not even sent).
PutTargetFails(t) ==
    /\ creator[t] = "written"
    /\ creator' = [creator EXCEPT ![t] = "done"]
    /\ deletes' \in {deletes \cup {t}, deletes}
    /\ failed' = failed \cup {t}
    /\ UNCHANGED <<rows, files, deleter, writes, acked>>

-----------------------------------------------------------------------------
(* DELETE /notification-targets/{id}.                                      *)

\* Seeded: the secret goes before the row.
ListTargets_SecretFirst(d, t) ==
    /\ deleter[d] = Resting /\ creator[t] = "done"
    /\ deleter' = [deleter EXCEPT ![d] = [pc |-> "listed", target |-> t,
                                          secret |-> t \in rows]]
    /\ deletes' = IF t \in rows THEN deletes \cup {t} ELSE deletes
    /\ UNCHANGED <<rows, files, creator, writes, acked, failed>>

\* The handler looks up the secret reference of the row.  Nobody knows the
\* random id of a destination before its POST is done.
ListTargets(d, t) ==
    /\ deleter[d] = Resting /\ creator[t] = "done"
    /\ deleter' = [deleter EXCEPT ![d] = [pc |-> "listed", target |-> t,
                                          secret |-> t \in rows]]
    /\ UNCHANGED <<rows, files, creator, writes, deletes, acked, failed>>

\* The error of the lookup is dropped: the reference stays empty.
ListTargetsFails(d, t) ==
    /\ deleter[d] = Resting /\ creator[t] = "done"
    /\ deleter' = [deleter EXCEPT ![d] = [pc |-> "listed", target |-> t,
                                          secret |-> FALSE]]
    /\ failed' = failed \cup {t}
    /\ UNCHANGED <<rows, files, creator, writes, deletes, acked>>

\* Seeded: the reference is forgotten with the row.
DeleteRow_ForgetsSecret(d) ==
    /\ deleter[d].pc = "listed"
    /\ rows' = rows \ {deleter[d].target}
    /\ deleter' = [deleter EXCEPT ![d] = Resting]
    /\ UNCHANGED <<files, creator, writes, deletes, acked, failed>>

DeleteRow(d) ==
    /\ deleter[d].pc = "listed"
    /\ rows' = rows \ {deleter[d].target}
    /\ deleter' = [deleter EXCEPT ![d] = IF @.secret THEN [@ EXCEPT !.pc = "rowless"]
                                                     ELSE Resting]
    /\ UNCHANGED <<files, creator, writes, deletes, acked, failed>>

DeleteRowFails(d) ==
    /\ deleter[d].pc = "listed"
    /\ deleter' = [deleter EXCEPT ![d] = Resting]
    /\ failed' = failed \cup {deleter[d].target}
    /\ UNCHANGED <<rows, files, creator, writes, deletes, acked>>

DeleteSecret(d) ==
    /\ deleter[d].pc = "rowless"
    /\ deletes' = deletes \cup {deleter[d].target}
    /\ deleter' = [deleter EXCEPT ![d] = Resting]
    /\ UNCHANGED <<rows, files, creator, writes, acked, failed>>

\* The request does not reach the agent; the handler reports success.
DeleteSecretFails(d) ==
    /\ deleter[d].pc = "rowless"
    /\ deleter' = [deleter EXCEPT ![d] = Resting]
    /\ failed' = failed \cup {deleter[d].target}
    /\ UNCHANGED <<rows, files, creator, writes, deletes, acked>>

-----------------------------------------------------------------------------
(* The agent, which performs its actions in any order, and restarts.       *)

\* writeSecret renames a complete temporary file into place.
AgentWrites(t) ==
    /\ t \in writes
    /\ writes' = writes \ {t}
    /\ files' = files \cup {t}
    /\ acked' = acked \cup {t}
    /\ UNCHANGED <<rows, creator, deleter, deletes, failed>>

\* deleteSecret: a file that is not there is no error.
AgentDeletes(t) ==
    /\ t \in deletes
    /\ deletes' = deletes \ {t}
    /\ files' = files \ {t}
    /\ UNCHANGED <<rows, creator, deleter, writes, acked, failed>>

\* The file system refuses the write or the deletion.
AgentFails(t) ==
    /\ t \in writes \cup deletes
    /\ \/ writes' = writes \ {t} /\ UNCHANGED deletes
       \/ deletes' = deletes \ {t} /\ UNCHANGED writes
    /\ failed' = failed \cup {t}
    /\ UNCHANGED <<rows, files, creator, deleter, acked>>

RestartAgent ==
    /\ writes \cup deletes \cup acked # {}
    /\ writes' = {} /\ deletes' = {} /\ acked' = {}
    /\ failed' = failed \cup writes \cup deletes \cup acked
    /\ UNCHANGED <<rows, files, creator, deleter>>

\* The handlers die; what they have asked of the agent is still performed.
RestartMonitor ==
    /\ creator' = [t \in Targets |-> IF creator[t] = "new" THEN "new" ELSE "done"]
    /\ deleter' = [d \in Deleters |-> Resting]
    /\ failed' = failed \cup {t \in Targets : creator[t] \in {"writing", "written"}}
                        \cup {deleter[d].target : d \in {e \in Deleters : deleter[e] # Resting}}
    /\ UNCHANGED <<rows, files, writes, deletes, acked>>

\* Everything but a restart of the monitor.
Handling ==
    \/ RestartAgent
    \/ \E t \in Targets :
          \/ PostTarget(t) \/ SecretWritten(t) \/ SecretNotWritten(t)
          \/ PutTarget(t) \/ PutTargetFails(t)
          \/ AgentWrites(t) \/ AgentDeletes(t) \/ AgentFails(t)
          \/ \E d \in Deleters : ListTargets(d, t) \/ ListTargetsFails(d, t)
    \/ \E d \in Deleters :
          \/ DeleteRow(d) \/ DeleteRowFails(d)
          \/ DeleteSecret(d) \/ DeleteSecretFails(d)

Next == Handling \/ RestartMonitor

Spec == Init /\ [][Next]_vars

-----------------------------------------------------------------------------
(* Properties.                                                             *)

\* A destination that can be listed can be sent to: its token is on disk,
\* however late the agent performs what it was asked, whatever fails and
\* whoever else deletes the destination (POST writes the secret before the
\* row, DELETE removes it after the row).
RowsHaveSecrets == rows \subseteq files

\* A token stays on disk without its row only while a request or an action is
\* still at work on it, or after one of them failed (the undo of POST, the
\* reference DELETE remembers).
OrphansComeFromFailures ==
    \A t \in files \ rows :
        \/ t \in failed \cup deletes
        \/ creator[t] \in {"writing", "written"}
        \/ \E d \in Deleters : deleter[d] # Resting /\ deleter[d].target = t

-----------------------------------------------------------------------------
(* The inductive invariant behind RowsHaveSecrets.                         *)

\* A row appears once, when its POST handler has come to its end.
RowsAreDone == \A t \in rows : creator[t] = "done"

\* Nobody has asked for the secret of a destination that has, or is about to
\* have, its row.
NoDeleteAhead ==
    \A t \in Targets : t \in rows \/ creator[t] \in {"new", "writing", "written"} =>
        /\ t \notin deletes
        /\ \A d \in Deleters : deleter[d] # Resting /\ deleter[d].target = t
              => deleter[d].pc = "listed"

\* A DELETE handler that knows a secret found it in a row.
KnownSecretsAreDone ==
    \A d \in Deleters : deleter[d] # Resting /\ deleter[d].secret
        => creator[deleter[d].target] = "done"

\* An answered or put secret is on disk.
WrittenIsOnDisk ==
    \A t \in Targets :
        creator[t] # "done" /\ (t \in acked \/ creator[t] = "written") => t \in files

SecretInv ==
    /\ TypeOK
    /\ RowsHaveSecrets
    /\ RowsAreDone
    /\ NoDeleteAhead
    /\ KnownSecretsAreDone
    /\ WrittenIsOnDisk
=============================================================================
