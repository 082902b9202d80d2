------------------------- MODULE AgentActionsProofs -------------------------
(***************************************************************************)
(* For any set of destinations and of concurrent DELETE requests, a        *)
(* destination that has a row has its token on disk, and a token without a *)
(* row is one somebody is still at work on, or has failed to remove.       *)
(*                                                                         *)
(* For any notices, too: a notice that has found the row of its            *)
(* destination misses the token only if the destination was deleted        *)
(* meanwhile, for good, since a destination that was found is done with    *)
(* its POST and its row never comes back; and every destination of a       *)
(* notice is tried, receives it at most once and gets the recovery first   *)
(* only where both were on their way.                                      *)
(*                                                                         *)
(* For any jobs and any number of requests on them: what an administrator  *)
(* was told of a schedule holds, and a running timer is whole.  The        *)
(* invariant follows the one request that may be at work on a job for      *)
(* which none overlapped, command by command.                              *)
(***************************************************************************)
EXTENDS AgentActions, TLAPS

-----------------------------------------------------------------------------
(* Destinations.                                                           *)

\* The empty tables and the idle handlers satisfy the invariant.
LEMMA SecretInit == Init => SecretInv
  BY DEF Init, SecretInv, TypeOK, RowsHaveSecrets, RowsAreDone, NoDeleteAhead,
         KnownSecretsAreDone, WrittenIsOnDisk, Resting

\* Every step of a handler, of the agent or of a restart keeps the types.
LEMMA TypeStep == TypeOK /\ [Next]_vars => TypeOK'
<1> SUFFICES ASSUME TypeOK, [Next]_vars PROVE TypeOK'
  OBVIOUS
<1> USE DEF TypeOK, Resting, Busy
<1>1. CASE RestartAgent
  BY <1>1 DEF RestartAgent
<1>2. CASE RestartMonitor
  <2>1. {deleter[d].target : d \in {e \in Deleters : deleter[e] # Resting}} \subseteq Targets
    BY DEF Resting
  <2>2. QED
    BY <1>2, <2>1 DEF RestartMonitor
<1>3. ASSUME NEW t \in Targets,
             PostTarget(t) \/ SecretWritten(t) \/ SecretNotWritten(t)
                \/ PutTarget(t) \/ PutTargetFails(t)
                \/ AgentWrites(t) \/ AgentDeletes(t) \/ AgentFails(t)
      PROVE  TypeOK'
  BY <1>3 DEF PostTarget, SecretWritten, SecretNotWritten, PutTarget, PutTargetFails,
              AgentWrites, AgentDeletes, AgentFails
<1>4. ASSUME NEW t \in Targets, NEW d \in Deleters,
             ListTargets(d, t) \/ ListTargetsFails(d, t)
      PROVE  TypeOK'
  <2> DEFINE Listed(b) == [pc |-> "listed", target |-> t, secret |-> b]
  <2>1. Listed(t \in rows) \in Busy /\ Listed(FALSE) \in Busy
    OBVIOUS
  <2>2. CASE ListTargets(d, t)
    <3>1. deleter' = [deleter EXCEPT ![d] = Listed(t \in rows)]
      BY <2>2 DEF ListTargets
    <3>2. UNCHANGED <<rows, files, creator, writes, deletes, acked, failed>>
      BY <2>2 DEF ListTargets
    <3>3. QED
      BY <2>1, <3>1, <3>2
  <2>3. CASE ListTargetsFails(d, t)
    <3>1. deleter' = [deleter EXCEPT ![d] = Listed(FALSE)]
      BY <2>3 DEF ListTargetsFails
    <3>2. failed' = failed \cup {t} /\ UNCHANGED <<rows, files, creator, writes, deletes, acked>>
      BY <2>3 DEF ListTargetsFails
    <3>3. QED
      BY <2>1, <3>1, <3>2
  <2>4. QED
    BY <1>4, <2>2, <2>3
<1>5. ASSUME NEW d \in Deleters,
             DeleteRow(d) \/ DeleteRowFails(d) \/ DeleteSecret(d) \/ DeleteSecretFails(d)
      PROVE  TypeOK'
  <2>1. deleter[d] \in Busy
    BY <1>5 DEF DeleteRow, DeleteRowFails, DeleteSecret, DeleteSecretFails
  <2>2. QED
    BY <1>5, <2>1 DEF DeleteRow, DeleteRowFails, DeleteSecret, DeleteSecretFails
<1>6. CASE UNCHANGED vars
  BY <1>6 DEF vars
<1>7. QED
  BY <1>1, <1>2, <1>3, <1>4, <1>5, <1>6 DEF Next, Handling

\* Every step keeps the invariant.
LEMMA SecretStep == SecretInv /\ [Next]_vars => SecretInv'
<1> SUFFICES ASSUME SecretInv, [Next]_vars PROVE SecretInv'
  OBVIOUS
<1>0. TypeOK /\ TypeOK'
  BY TypeStep DEF SecretInv
<1> USE DEF SecretInv, RowsHaveSecrets, RowsAreDone, NoDeleteAhead,
            KnownSecretsAreDone, WrittenIsOnDisk
<1>1. CASE RestartAgent
  BY <1>0, <1>1 DEF RestartAgent
<1>2. CASE RestartMonitor
  BY <1>0, <1>2 DEF RestartMonitor, TypeOK
<1>3. ASSUME NEW t \in Targets, PostTarget(t) PROVE SecretInv'
  BY <1>0, <1>3 DEF PostTarget, TypeOK
<1>4. ASSUME NEW t \in Targets, SecretWritten(t) PROVE SecretInv'
  BY <1>0, <1>4 DEF SecretWritten, TypeOK
<1>5. ASSUME NEW t \in Targets, SecretNotWritten(t) PROVE SecretInv'
  BY <1>0, <1>5 DEF SecretNotWritten, TypeOK
<1>6. ASSUME NEW t \in Targets, PutTarget(t) PROVE SecretInv'
  BY <1>0, <1>6 DEF PutTarget, TypeOK
<1>7. ASSUME NEW t \in Targets, PutTargetFails(t) PROVE SecretInv'
  BY <1>0, <1>7 DEF PutTargetFails, TypeOK
<1>8. ASSUME NEW t \in Targets, AgentWrites(t) PROVE SecretInv'
  BY <1>0, <1>8 DEF AgentWrites, TypeOK
<1>9. ASSUME NEW t \in Targets, AgentDeletes(t) PROVE SecretInv'
  BY <1>0, <1>9 DEF AgentDeletes, TypeOK
<1>10. ASSUME NEW t \in Targets, AgentFails(t) PROVE SecretInv'
  BY <1>0, <1>10 DEF AgentFails, TypeOK
<1>11. ASSUME NEW t \in Targets, NEW d \in Deleters,
              ListTargets(d, t) \/ ListTargetsFails(d, t)
       PROVE  SecretInv'
  BY <1>0, <1>11 DEF ListTargets, ListTargetsFails, TypeOK
<1>12. ASSUME NEW d \in Deleters, DeleteRow(d) PROVE SecretInv'
  BY <1>0, <1>12 DEF DeleteRow, TypeOK, Busy, Resting
<1>13. ASSUME NEW d \in Deleters, DeleteRowFails(d) PROVE SecretInv'
  BY <1>0, <1>13 DEF DeleteRowFails, TypeOK
<1>14. ASSUME NEW d \in Deleters, DeleteSecret(d) PROVE SecretInv'
  BY <1>0, <1>14 DEF DeleteSecret, TypeOK, Busy, Resting
<1>15. ASSUME NEW d \in Deleters, DeleteSecretFails(d) PROVE SecretInv'
  BY <1>0, <1>15 DEF DeleteSecretFails, TypeOK
<1>16. CASE UNCHANGED vars
  BY <1>0, <1>16 DEF vars
<1>17. QED
  BY <1>1, <1>2, <1>3, <1>4, <1>5, <1>6, <1>7, <1>8, <1>9, <1>10, <1>11,
     <1>12, <1>13, <1>14, <1>15, <1>16 DEF Next, Handling

\* The invariant holds of every reachable state.
THEOREM SecretInvariant == Spec => []SecretInv
BY SecretInit, SecretStep, PTL DEF Spec

\* Whatever fails and however late the agent acts, a destination that has a
\* row has its bot token on disk: secret.write is answered before the row is
\* put, and secret.delete is asked for after the row is gone.
THEOREM DestinationsAreUsable == Spec => []RowsHaveSecrets
<1>1. SecretInv => RowsHaveSecrets
  BY DEF SecretInv
<1>2. QED
  BY <1>1, SecretInvariant, PTL

-----------------------------------------------------------------------------
(* Orphaned tokens.                                                        *)

\* What the agent has still to write, or has just written, was posted by a
\* handler that waits for it or has given it up.
WritesAreAwaited ==
    /\ \A t \in writes \cup acked : creator[t] = "writing" \/ t \in failed
    /\ \A t \in Targets : creator[t] = "new" => t \notin writes \cup acked
    /\ writes \cap acked = {}

\* A DELETE handler works on a destination that is done with its POST, and one
\* that has the row but not the reference has failed to look it up.
LookupsAreDone ==
    \A d \in Deleters : deleter[d] # Resting =>
        LET t == deleter[d].target
        IN  /\ creator[t] = "done"
            /\ deleter[d].secret \/ t \notin rows \/ t \in failed

\* Somebody is at work on the token, or has failed to be: a DELETE handler only
\* if it remembers the reference.
Excused(t) ==
    \/ t \in failed \cup deletes
    \/ creator[t] \in {"writing", "written"}
    \/ \E d \in Deleters : deleter[d] # Resting /\ deleter[d].target = t /\ deleter[d].secret

OrphansAreExcused == \A t \in files \ rows : Excused(t)

OrphanInv == TypeOK /\ WritesAreAwaited /\ LookupsAreDone /\ OrphansAreExcused

\* Every step keeps the three facts about requests and actions.
LEMMA AwaitedStep ==
    ASSUME TypeOK, WritesAreAwaited, [Next]_vars
    PROVE  WritesAreAwaited'
<1> USE DEF WritesAreAwaited
<1>1. CASE RestartAgent \/ UNCHANGED vars
  BY <1>1 DEF RestartAgent, vars
<1>2. CASE RestartMonitor
  BY <1>2 DEF RestartMonitor, TypeOK
<1>3. ASSUME NEW t \in Targets,
             PostTarget(t) \/ SecretWritten(t) \/ SecretNotWritten(t)
                \/ PutTarget(t) \/ PutTargetFails(t)
      PROVE  WritesAreAwaited'
  <2>1. CASE PostTarget(t)
    BY <2>1 DEF PostTarget, TypeOK
  <2>2. CASE SecretWritten(t)
    BY <2>2 DEF SecretWritten, TypeOK
  <2>3. CASE SecretNotWritten(t)
    BY <2>3 DEF SecretNotWritten, TypeOK
  <2>4. CASE PutTarget(t) \/ PutTargetFails(t)
    BY <2>4 DEF PutTarget, PutTargetFails, TypeOK
  <2>5. QED
    BY <1>3, <2>1, <2>2, <2>3, <2>4
<1>4. ASSUME NEW t \in Targets, AgentWrites(t) \/ AgentDeletes(t) \/ AgentFails(t)
      PROVE  WritesAreAwaited'
  BY <1>4 DEF AgentWrites, AgentDeletes, AgentFails
<1>5. ASSUME NEW t \in Targets, NEW d \in Deleters,
             ListTargets(d, t) \/ ListTargetsFails(d, t)
      PROVE  WritesAreAwaited'
  BY <1>5 DEF ListTargets, ListTargetsFails
<1>6. ASSUME NEW d \in Deleters,
             DeleteRow(d) \/ DeleteRowFails(d) \/ DeleteSecret(d) \/ DeleteSecretFails(d)
      PROVE  WritesAreAwaited'
  BY <1>6 DEF DeleteRow, DeleteRowFails, DeleteSecret, DeleteSecretFails
<1>7. QED
  BY <1>1, <1>2, <1>3, <1>4, <1>5, <1>6 DEF Next, Handling

\* The destination of a lookup stays done, and its row does not come back.
LEMMA LookupStep ==
    ASSUME TypeOK, LookupsAreDone, [Next]_vars
    PROVE  LookupsAreDone'
<1> USE DEF LookupsAreDone
<1>1. CASE RestartAgent \/ UNCHANGED vars
  BY <1>1 DEF RestartAgent, vars
<1>2. CASE RestartMonitor
  BY <1>2 DEF RestartMonitor, TypeOK
<1>3. ASSUME NEW t \in Targets,
             PostTarget(t) \/ SecretWritten(t) \/ SecretNotWritten(t)
                \/ PutTarget(t) \/ PutTargetFails(t)
      PROVE  LookupsAreDone'
  <2>1. /\ UNCHANGED deleter /\ creator[t] # "done"
        /\ \A u \in Targets \ {t} : creator'[u] = creator[u] /\ (u \in rows' => u \in rows)
        /\ failed \subseteq failed'
    BY <1>3 DEF PostTarget, SecretWritten, SecretNotWritten, PutTarget, PutTargetFails, TypeOK
  <2>2. \A d \in Deleters : deleter[d] # Resting => deleter[d].target \in Targets \ {t}
    BY <2>1 DEF TypeOK, Busy
  <2>3. QED
    BY <2>1, <2>2
<1>4. ASSUME NEW t \in Targets, AgentWrites(t) \/ AgentDeletes(t) \/ AgentFails(t)
      PROVE  LookupsAreDone'
  BY <1>4 DEF AgentWrites, AgentDeletes, AgentFails
<1>5. ASSUME NEW t \in Targets, NEW d \in Deleters,
             ListTargets(d, t) \/ ListTargetsFails(d, t)
      PROVE  LookupsAreDone'
  <2>1. CASE ListTargets(d, t)
    BY <2>1 DEF ListTargets, TypeOK
  <2>2. CASE ListTargetsFails(d, t)
    BY <2>2 DEF ListTargetsFails, TypeOK
  <2>3. QED
    BY <1>5, <2>1, <2>2
<1>6. ASSUME NEW d \in Deleters, DeleteRow(d)
      PROVE  LookupsAreDone'
  <2>1. deleter[d] \in Busy
    BY <1>6 DEF DeleteRow, TypeOK, Resting
  <2>2. /\ UNCHANGED <<creator, failed>> /\ rows' \subseteq rows
        /\ \A e \in Deleters \ {d} : deleter'[e] = deleter[e]
        /\ deleter'[d] # Resting => /\ deleter'[d].target = deleter[d].target
                                    /\ deleter'[d].secret = deleter[d].secret
    BY <1>6, <2>1 DEF DeleteRow, TypeOK, Busy
  <2>3. deleter[d] # Resting
    BY <2>1 DEF Busy, Resting
  <2>4. QED
    BY <2>2, <2>3
<1>7. ASSUME NEW d \in Deleters,
             DeleteRowFails(d) \/ DeleteSecret(d) \/ DeleteSecretFails(d)
      PROVE  LookupsAreDone'
  BY <1>7 DEF DeleteRowFails, DeleteSecret, DeleteSecretFails, TypeOK
<1>8. QED
  BY <1>1, <1>2, <1>3, <1>4, <1>5, <1>6, <1>7 DEF Next, Handling

\* A step that frees a token of its excuse removes the token, gives it another
\* excuse, or ends a request that has no part in it.
LEMMA OrphanStep ==
    ASSUME OrphanInv, [Next]_vars
    PROVE  OrphansAreExcused'
<1>0. TypeOK /\ WritesAreAwaited /\ LookupsAreDone /\ OrphansAreExcused
  BY DEF OrphanInv
<1> USE DEF OrphansAreExcused, Excused
<1>1. CASE RestartAgent \/ UNCHANGED vars
  BY <1>0, <1>1 DEF RestartAgent, vars
<1>2. CASE RestartMonitor
  <2>1. UNCHANGED <<rows, files, deletes>>
    BY <1>2 DEF RestartMonitor
  <2>2. ASSUME NEW t \in files \ rows
        PROVE  t \in failed' \cup deletes
    <3>1. t \in Targets /\ Excused(t)
      BY <1>0 DEF TypeOK
    <3>2. QED
      BY <1>2, <3>1 DEF RestartMonitor
  <2>3. QED
    BY <2>1, <2>2
<1>3. ASSUME NEW t \in Targets,
             PostTarget(t) \/ SecretWritten(t) \/ SecretNotWritten(t)
                \/ PutTarget(t) \/ PutTargetFails(t)
      PROVE  OrphansAreExcused'
  <2>1. /\ files' = files /\ rows \subseteq rows' /\ deleter' = deleter
        /\ failed \subseteq failed' /\ deletes \subseteq deletes'
        /\ \A u \in Targets \ {t} : creator'[u] = creator[u]
        /\ creator'[t] \in {"writing", "written"} \/ t \in failed' \/ t \in rows'
    BY <1>0, <1>3 DEF PostTarget, SecretWritten, SecretNotWritten, PutTarget, PutTargetFails,
                      TypeOK
  <2>2. ASSUME NEW u \in files' \ rows'
        PROVE  Excused(u)'
    <3>1. u \in Targets /\ Excused(u)
      BY <1>0, <2>1 DEF TypeOK
    <3>2. CASE u = t
      BY <2>1, <3>2
    <3>3. CASE u # t
      BY <2>1, <3>1, <3>3
    <3>4. QED
      BY <3>2, <3>3
  <2>3. QED
    BY <2>2
<1>4. ASSUME NEW t \in Targets, AgentWrites(t)
      PROVE  OrphansAreExcused'
  BY <1>0, <1>4 DEF AgentWrites, WritesAreAwaited
<1>5. ASSUME NEW t \in Targets, AgentDeletes(t) \/ AgentFails(t)
      PROVE  OrphansAreExcused'
  BY <1>0, <1>5 DEF AgentDeletes, AgentFails
<1>6. ASSUME NEW t \in Targets, NEW d \in Deleters,
             ListTargets(d, t) \/ ListTargetsFails(d, t)
      PROVE  OrphansAreExcused'
  <2>1. /\ UNCHANGED <<rows, files, creator, deletes>> /\ failed \subseteq failed'
        /\ deleter[d] = Resting
        /\ \A e \in Deleters \ {d} : deleter'[e] = deleter[e]
    BY <1>0, <1>6 DEF ListTargets, ListTargetsFails, TypeOK
  <2>2. QED
    BY <1>0, <2>1
<1>7. ASSUME NEW d \in Deleters, DeleteRow(d)
      PROVE  OrphansAreExcused'
  <2> DEFINE u == deleter[d].target
  <2>1. deleter[d] \in Busy /\ deleter[d] # Resting
    BY <1>0, <1>7 DEF DeleteRow, TypeOK, Resting
  <2>2. /\ UNCHANGED <<files, creator, deletes, failed>> /\ rows' = rows \ {u}
        /\ \A e \in Deleters \ {d} : deleter'[e] = deleter[e]
    BY <1>0, <1>7 DEF DeleteRow, TypeOK
  <2>3. deleter[d].secret =>
           deleter'[d] # Resting /\ deleter'[d].target = u /\ deleter'[d].secret
    <3>1. deleter[d].secret => deleter'[d] = [deleter[d] EXCEPT !.pc = "rowless"]
      BY <1>0, <1>7 DEF DeleteRow, TypeOK
    <3>2. QED
      BY <2>1, <3>1 DEF Busy, Resting
  <2>4. ~deleter[d].secret => u \notin rows \/ u \in failed
    BY <1>0, <2>1 DEF LookupsAreDone
  <2>5. ASSUME NEW t \in files' \ rows'
        PROVE  Excused(t)'
    <3>1. CASE t \in rows
      <4>1. t = u
        BY <2>2, <2>5, <3>1
      <4>2. QED
        BY <2>2, <2>3, <2>4, <3>1, <4>1
    <3>2. CASE t \notin rows
      <4>1. Excused(t)
        BY <1>0, <2>2, <2>5, <3>2
      <4>2. QED
        BY <2>2, <2>3, <4>1
    <3>3. QED
      BY <3>1, <3>2
  <2>6. QED
    BY <2>5
<1>8. ASSUME NEW d \in Deleters,
             DeleteRowFails(d) \/ DeleteSecret(d) \/ DeleteSecretFails(d)
      PROVE  OrphansAreExcused'
  <2>1. /\ UNCHANGED <<files, creator, rows>>
        /\ failed \subseteq failed' /\ deletes \subseteq deletes'
        /\ deleter[d].target \in failed' \cup deletes'
        /\ \A e \in Deleters \ {d} : deleter'[e] = deleter[e]
    BY <1>0, <1>8 DEF DeleteRowFails, DeleteSecret, DeleteSecretFails, TypeOK
  <2>2. QED
    BY <1>0, <2>1
<1>9. QED
  BY <1>1, <1>2, <1>3, <1>4, <1>5, <1>6, <1>7, <1>8 DEF Next, Handling

\* A token without its row is one that a request or an action is at work on, or
\* one for which a statement, an action or a process has failed (the undo of
\* POST, the reference that DELETE remembers).
THEOREM OrphansAreExplained == Spec => []OrphansComeFromFailures
<1>1. Init => OrphanInv
  BY SecretInit DEF Init, SecretInv, OrphanInv, WritesAreAwaited, LookupsAreDone,
                    OrphansAreExcused
<1>2. OrphanInv /\ [Next]_vars => OrphanInv'
  BY TypeStep, AwaitedStep, LookupStep, OrphanStep DEF OrphanInv
<1>3. OrphanInv => OrphansComeFromFailures
  BY DEF OrphanInv, OrphansAreExcused, Excused, OrphansComeFromFailures
<1>4. QED
  BY <1>1, <1>2, <1>3, PTL DEF Spec

-----------------------------------------------------------------------------
(* Notices.                                                                *)

\* A destination has received the notice from the try of one position.
Got(k, i) == \E n \in DOMAIN received[TargetIDs[i]] : received[TargetIDs[i]][n] = <<k, i>>

\* A goroutine is at work on a position of the list, and not before it starts.
TryOK(k) == /\ k \notin started => next[k] = 1
            /\ sending[k] # "waiting" => k \in started /\ ~Ended(k)

\* The positions before the next one are tried, and only from a position that is
\* tried something was received.
PairOK(k, i) ==
    /\ i >= next[k] => result[k][i] = "untried" /\ ~Got(k, i)
    /\ i < next[k] => result[k][i] # "untried"
    /\ result[k][i] = "sent" => Got(k, i)

\* A destination receives what was sent to it, from no try twice, and the recovery
\* before the firing only if both were on their way.
TargetOK(t) ==
    /\ \A n \in DOMAIN received[t] : TargetIDs[received[t][n][2]] = t
    /\ \A i, j \in DOMAIN received[t] : received[t][i] = received[t][j] => i = j
    /\ Before("recovery", "firing", received[t]) => beside

\* The recovery is started after the firing, and beside it only where it says so.
KindsOK == /\ "recovery" \in started => "firing" \in started
           /\ "recovery" \in started /\ ~beside => Ended("firing")

AccountInv == /\ NoticeTypeOK /\ KindsOK
              /\ \A t \in Targets : TargetOK(t)
              /\ \A k \in Kinds : TryOK(k) /\ \A i \in Positions : PairOK(k, i)

\* The positions name destinations, and the next one after a position is a
\* position or the end.
LEMMA PositionFacts ==
    /\ Len(TargetIDs) \in Nat
    /\ \A i \in Positions : i \in Nat /\ i >= 1 /\ TargetIDs[i] \in Targets
                            /\ i + 1 \in 1..Len(TargetIDs) + 1
<1>1. Len(TargetIDs) \in Nat /\ \A i \in 1..Len(TargetIDs) : TargetIDs[i] \in Targets
  BY NoticeAssumption
<1> QED
  BY <1>1 DEF Positions

\* A goroutine that was not started has reached nobody.
LEMMA UnstartedUnheard ==
    ASSUME AccountInv, NEW k \in Kinds, k \notin started,
           NEW t \in Targets, NEW n \in DOMAIN received[t]
    PROVE  received[t][n][1] # k
<1> SUFFICES ASSUME received[t][n][1] = k PROVE FALSE
  OBVIOUS
<1>1. received[t][n] \in Kinds \X Positions
  BY DEF AccountInv, NoticeTypeOK
<1>2. PICK i \in Positions : received[t][n] = <<k, i>>
  BY <1>1
<1>3. TargetIDs[i] = t
  BY <1>2 DEF AccountInv, TargetOK
<1>4. Got(k, i)
  BY <1>2, <1>3 DEF Got
<1>5. next[k] = 1 /\ i >= 1
  BY PositionFacts DEF AccountInv, TryOK
<1> QED
  BY <1>4, <1>5 DEF AccountInv, PairOK

\* The positions of a sequence to which an entry was added.
LEMMA AppendFacts ==
    ASSUME NEW E, NEW q \in Seq(E), NEW e \in E
    PROVE  /\ Append(q, e) \in Seq(E)
           /\ \A i \in DOMAIN Append(q, e) :
                 \/ i \in DOMAIN q /\ Append(q, e)[i] = q[i]
                 \/ i = Len(q) + 1 /\ i \notin DOMAIN q /\ Append(q, e)[i] = e
           /\ \A i \in DOMAIN q : i \in DOMAIN Append(q, e) /\ i < Len(q) + 1
           /\ \A i \in DOMAIN q : Append(q, e)[i] = q[i]
           /\ Len(q) + 1 \in DOMAIN Append(q, e) /\ Append(q, e)[Len(q) + 1] = e
  OBVIOUS

\* What a try that ends leaves behind.
LEMMA EndFacts ==
    ASSUME NoticeTypeOK, NEW k \in Kinds, next[k] \in Positions, NEW outcome \in Results,
           EndTry(k, outcome)
    PROVE  /\ next' \in [Kinds -> 1..Len(TargetIDs) + 1]
           /\ sending' \in [Kinds -> {"waiting", "listed", "posting"}]
           /\ result' \in [Kinds -> [Positions -> Results]]
           /\ next'[k] = next[k] + 1 /\ sending'[k] = "waiting"
           /\ result'[k][next[k]] = outcome
           /\ \A i \in Positions \ {next[k]} : result'[k][i] = result[k][i]
           /\ \A j \in Kinds \ {k} : /\ next'[j] = next[j] /\ sending'[j] = sending[j]
                                     /\ result'[j] = result[j]
<1>1. next[k] + 1 \in 1..Len(TargetIDs) + 1
  BY PositionFacts
<1> QED
  BY <1>1 DEF NoticeTypeOK, EndTry

\* A try that ends, whatever its outcome, keeps the account, if what Telegram has
\* received meanwhile is the notice of this try or nothing.
LEMMA EndStep ==
    ASSUME AccountInv, NEW k \in started, ~Ended(k), NEW n, n = next[k],
           NEW outcome \in Results \ {"untried"}, EndTry(k, outcome),
           UNCHANGED <<started, died, beside>>,
           received' \in [Targets -> Seq(Kinds \X Positions)],
           \A t \in Targets : TargetOK(t)',
           \A j \in Kinds, i \in Positions :
              j # k \/ i # n => (Got(j, i)' <=> Got(j, i)),
           outcome = "sent" => Got(k, n)'
    PROVE  AccountInv'
<1>0. k \in Kinds /\ NoticeTypeOK /\ KindsOK
  BY DEF AccountInv, NoticeTypeOK
<1>1. next[k] \in Positions /\ k \notin died
  BY DEF Ended
<1>2. /\ next' \in [Kinds -> 1..Len(TargetIDs) + 1]
      /\ sending' \in [Kinds -> {"waiting", "listed", "posting"}]
      /\ result' \in [Kinds -> [Positions -> Results]]
      /\ next'[k] = next[k] + 1 /\ sending'[k] = "waiting"
      /\ result'[k][next[k]] = outcome
      /\ \A i \in Positions \ {next[k]} : result'[k][i] = result[k][i]
      /\ \A j \in Kinds \ {k} : /\ next'[j] = next[j] /\ sending'[j] = sending[j]
                                /\ result'[j] = result[j]
  BY <1>0, <1>1, EndFacts
<1>3. NoticeTypeOK'
  BY <1>0, <1>2 DEF NoticeTypeOK
<1>4. \A j \in Kinds \ {k} : Ended(j)' <=> Ended(j)
  BY <1>2 DEF Ended
<1>5. KindsOK'
  <2>1. CASE k = "firing"
    BY <1>0, <2>1 DEF KindsOK
  <2>2. CASE k # "firing"
    BY <1>0, <1>4, <2>2 DEF KindsOK, Kinds
  <2> QED
    BY <2>1, <2>2
<1>6. ASSUME NEW j \in Kinds PROVE TryOK(j)'
  <2>1. TryOK(j)
    BY DEF AccountInv
  <2> QED
    BY <1>2, <1>4, <2>1 DEF TryOK
<1>7. ASSUME NEW j \in Kinds, NEW i \in Positions PROVE PairOK(j, i)'
  <2>1. PairOK(j, i)
    BY DEF AccountInv
  <2>2. CASE j # k
    BY <1>2, <2>1, <2>2 DEF PairOK
  <2>3. CASE j = k /\ i = next[k]
    <3>1. i \in Nat /\ next'[k] = i + 1
      BY <1>2, <2>3, PositionFacts
    <3>2. ~(i >= next'[k]) /\ i < next'[k]
      BY <3>1
    <3>3. result'[k][i] = outcome /\ outcome # "untried" /\ (outcome = "sent" => Got(k, i)')
      BY <1>2, <2>3
    <3> QED
      BY <2>3, <3>2, <3>3 DEF PairOK
  <2>4. CASE j = k /\ i # next[k]
    <3>1. i \in Nat /\ next[k] \in Nat
      BY <1>1, PositionFacts
    <3>2. /\ i >= next[k] + 1 => i >= next[k]
          /\ i < next[k] + 1 => i < next[k]
      BY <2>4, <3>1
    <3>3. result'[k][i] = result[k][i] /\ (Got(k, i)' <=> Got(k, i))
      BY <1>2, <2>4
    <3> QED
      BY <1>2, <2>1, <2>4, <3>2, <3>3 DEF PairOK
  <2> QED
    BY <2>2, <2>3, <2>4
<1> QED
  BY <1>3, <1>5, <1>6, <1>7 DEF AccountInv

\* A try that ends and has sent nothing keeps the account.
LEMMA UnsentStep ==
    ASSUME AccountInv, NEW k \in started, ~Ended(k), NEW outcome \in {"not found", "no secret"},
           EndTry(k, outcome), UNCHANGED <<started, died, received, beside>>
    PROVE  AccountInv'
<1>1. received' \in [Targets -> Seq(Kinds \X Positions)]
  BY DEF AccountInv, NoticeTypeOK
<1>2. ASSUME NEW t \in Targets PROVE TargetOK(t)'
  <2>1. TargetOK(t)
    BY DEF AccountInv
  <2> QED
    BY <2>1 DEF TargetOK, Before
<1>3. \A j \in Kinds, i \in Positions : Got(j, i)' <=> Got(j, i)
  BY DEF Got
<1>4. outcome \in Results \ {"untried"} /\ outcome # "sent"
  BY DEF Results
<1> QED
  BY <1>1, <1>2, <1>3, <1>4, EndStep

\* A try that goes on keeps the account.
LEMMA MoveStep ==
    ASSUME AccountInv, NEW k \in started, ~Ended(k), NEW pc \in {"listed", "posting"},
           sending' = [sending EXCEPT ![k] = pc],
           UNCHANGED <<started, died, next, result, received, beside>>
    PROVE  AccountInv'
<1>1. NoticeTypeOK' /\ k \in Kinds
  BY DEF AccountInv, NoticeTypeOK
<1>2. KindsOK' /\ \A t \in Targets : TargetOK(t)'
  BY DEF AccountInv, KindsOK, Ended, TargetOK, Before
<1>3. ASSUME NEW j \in Kinds PROVE TryOK(j)'
  <2>1. TryOK(j) /\ (Ended(j)' <=> Ended(j))
    BY DEF AccountInv, Ended
  <2>2. j # k => sending'[j] = sending[j]
    BY DEF AccountInv, NoticeTypeOK
  <2> QED
    BY <2>1, <2>2 DEF TryOK
<1>4. ASSUME NEW j \in Kinds, NEW i \in Positions PROVE PairOK(j, i)'
  BY DEF AccountInv, PairOK, Got
<1> QED
  BY <1>1, <1>2, <1>3, <1>4 DEF AccountInv

\* A notice that is started has everything before it, and the recovery is beside
\* the firing if that has not ended.
LEMMA NotifyStep ==
    ASSUME AccountInv, NEW k \in Kinds, NotifyRule(k)
    PROVE  AccountInv'
<1>1. /\ k \notin started /\ (k = "recovery" => "firing" \in started)
      /\ started' = started \cup {k}
      /\ beside' = IF k = "recovery" THEN ~Ended("firing") ELSE beside
      /\ UNCHANGED <<died, next, sending, result, received>>
  BY DEF NotifyRule
<1>2. NoticeTypeOK' /\ \A j \in Kinds : Ended(j)' <=> Ended(j)
  BY <1>1 DEF AccountInv, NoticeTypeOK, Ended
<1>3. KindsOK'
  BY <1>1, <1>2 DEF AccountInv, KindsOK, Kinds
<1>4. ASSUME NEW t \in Targets PROVE TargetOK(t)'
  <2>1. TargetOK(t)
    BY DEF AccountInv
  <2>2. CASE k = "recovery"
    <3>1. \A n \in DOMAIN received[t] : received[t][n][1] # "recovery"
      BY <1>1, <2>2, UnstartedUnheard
    <3> QED
      BY <1>1, <2>1, <3>1 DEF TargetOK, Before
  <2>3. CASE k # "recovery"
    BY <1>1, <2>1, <2>3 DEF TargetOK, Before
  <2> QED
    BY <2>2, <2>3
<1>5. ASSUME NEW j \in Kinds PROVE TryOK(j)'
  <2>1. TryOK(j)
    BY DEF AccountInv
  <2> QED
    BY <1>1, <1>2, <2>1 DEF TryOK
<1>6. ASSUME NEW j \in Kinds, NEW i \in Positions PROVE PairOK(j, i)'
  BY <1>1 DEF AccountInv, PairOK, Got
<1> QED
  BY <1>2, <1>3, <1>4, <1>5, <1>6 DEF AccountInv

\* The row is looked up.
LEMMA FindStep ==
    ASSUME AccountInv, NEW k \in Kinds, FindTarget(k)
    PROVE  AccountInv'
<1>1. k \in started /\ ~Ended(k) /\ UNCHANGED <<started, died, received, beside>>
  BY DEF FindTarget
<1>2. CASE sending' = [sending EXCEPT ![k] = "listed"] /\ UNCHANGED <<next, result>>
  BY <1>1, <1>2, MoveStep
<1>3. CASE EndTry(k, "not found")
  BY <1>1, <1>3, UnsentStep
<1> QED
  BY <1>2, <1>3 DEF FindTarget

\* The token is read, or is not there and ends the try.
LEMMA ReadStep ==
    ASSUME AccountInv, NEW k \in Kinds, ReadSecret(k)
    PROVE  AccountInv'
<1>1. k \in started /\ ~Ended(k) /\ UNCHANGED <<started, died, received, beside>>
  BY DEF ReadSecret, AccountInv, TryOK
<1>2. CASE sending' = [sending EXCEPT ![k] = "posting"] /\ UNCHANGED <<next, result>>
  BY <1>1, <1>2, MoveStep
<1>3. CASE EndTry(k, "no secret")
  BY <1>1, <1>3, UnsentStep
<1> QED
  BY <1>2, <1>3 DEF ReadSecret

\* A destination that did not have an entry has it once after it is accepted.
LEMMA OnceMore ==
    ASSUME NEW E, NEW q \in Seq(E), NEW e \in E,
           \A i \in DOMAIN q : q[i] # e,
           \A i, j \in DOMAIN q : q[i] = q[j] => i = j
    PROVE  /\ \A i, j \in DOMAIN Append(q, e) : Append(q, e)[i] = Append(q, e)[j] => i = j
           /\ \A x : (\E i \in DOMAIN Append(q, e) : Append(q, e)[i] = x)
                        <=> x = e \/ \E i \in DOMAIN q : q[i] = x
           /\ Before("recovery", "firing", Append(q, e)) =>
                 \/ Before("recovery", "firing", q)
                 \/ e[1] = "firing" /\ \E i \in DOMAIN q : q[i][1] = "recovery"
<1> DEFINE p == Append(q, e)
<1>1. /\ \A i \in DOMAIN p : \/ i \in DOMAIN q /\ p[i] = q[i]
                             \/ i = Len(q) + 1 /\ i \notin DOMAIN q /\ p[i] = e
      /\ \A i \in DOMAIN q : i \in DOMAIN p /\ i < Len(q) + 1
      /\ \A i \in DOMAIN q : p[i] = q[i]
      /\ Len(q) + 1 \in DOMAIN p /\ p[Len(q) + 1] = e
  BY AppendFacts
<1>2. DOMAIN q = 1..Len(q) /\ Len(q) \in Nat
  OBVIOUS
<1> HIDE DEF p
<1>3. \A i, j \in DOMAIN p : p[i] = p[j] => i = j
  BY <1>1
<1>4. \A x : (\E i \in DOMAIN p : p[i] = x) <=> x = e \/ \E i \in DOMAIN q : q[i] = x
  BY <1>1
<1>5. ASSUME NEW i \in DOMAIN p, NEW j \in DOMAIN p, i < j,
             p[i][1] = "recovery", p[j][1] = "firing"
      PROVE  \/ Before("recovery", "firing", q)
             \/ e[1] = "firing" /\ \E n \in DOMAIN q : q[n][1] = "recovery"
  <2>1. CASE j \in DOMAIN q
    <3>1. i \in DOMAIN q
      BY <1>1, <1>2, <1>5, <2>1
    <3> QED
      BY <1>1, <1>5, <2>1, <3>1 DEF Before
  <2>2. CASE j \notin DOMAIN q
    <3>1. p[j] = e /\ j = Len(q) + 1 /\ i # j
      BY <1>1, <1>2, <1>5, <2>2
    <3>2. i \in DOMAIN q /\ p[i] = q[i]
      BY <1>1, <3>1
    <3> QED
      BY <1>5, <3>1, <3>2
  <2> QED
    BY <2>1, <2>2
<1>6. Before("recovery", "firing", p) =>
         \/ Before("recovery", "firing", q)
         \/ e[1] = "firing" /\ \E n \in DOMAIN q : q[n][1] = "recovery"
  BY <1>5 DEF Before
<1> QED
  BY <1>3, <1>4, <1>6 DEF p

\* Telegram accepts the notice or not, and the try ends.
LEMMA PostStep ==
    ASSUME AccountInv, NEW k \in Kinds, NEW accepted \in BOOLEAN, NEW outcome \in Outcomes,
           Post(k, accepted, outcome)
    PROVE  AccountInv'
<1>0. PICK t, n, q : t = Target(k) /\ n = next[k] /\ q = received[t]
  OBVIOUS
<1> DEFINE e == <<k, n>>
<1>1. /\ sending[k] = "posting" /\ (outcome = "sent" => accepted) /\ EndTry(k, outcome)
      /\ received' = IF accepted THEN [received EXCEPT ![t] = Append(q, e)] ELSE received
      /\ UNCHANGED <<started, died, beside>>
  BY <1>0 DEF Post, Receive
<1>2. k \in started /\ ~Ended(k) /\ n \in Positions
  BY <1>0, <1>1 DEF AccountInv, TryOK, Ended
<1>3. t \in Targets /\ e \in Kinds \X Positions /\ TargetIDs[n] = t
  BY <1>0, <1>2, PositionFacts DEF Target
<1>4. q \in Seq(Kinds \X Positions) /\ received \in [Targets -> Seq(Kinds \X Positions)]
  BY <1>0, <1>3 DEF AccountInv, NoticeTypeOK
<1>5. ~Got(k, n)
  <2>1. PairOK(k, n) /\ n \in Nat
    BY <1>2, PositionFacts DEF AccountInv
  <2> QED
    BY <1>0, <2>1 DEF PairOK
<1>6. TargetOK(t) /\ (\A i \in DOMAIN q : q[i] # e)
      /\ \A i, j \in DOMAIN q : q[i] = q[j] => i = j
  BY <1>0, <1>3, <1>5 DEF AccountInv, TargetOK, Got
<1>7. "recovery" \in started /\ k = "firing" => beside
  BY <1>2 DEF AccountInv, KindsOK
<1>8. k = "firing" /\ (\E i \in DOMAIN q : q[i][1] = "recovery") => beside
  <2>1. "recovery" \notin started => \A i \in DOMAIN q : q[i][1] # "recovery"
    BY <1>0, <1>3, UnstartedUnheard DEF Kinds
  <2> QED
    BY <1>7, <2>1
<1>9. outcome \in Results \ {"untried"}
  BY DEF Outcomes, Results
<1>10. CASE ~accepted
  <2>1. received' = received
    BY <1>1, <1>10
  <2>2. \A u \in Targets : TargetOK(u)'
    BY <1>1, <2>1 DEF AccountInv, TargetOK, Before
  <2>3. \A j \in Kinds, i \in Positions : Got(j, i)' <=> Got(j, i)
    BY <2>1 DEF Got
  <2> QED
    BY <1>0, <1>1, <1>2, <1>4, <1>9, <1>10, <2>1, <2>2, <2>3, EndStep
<1>11. CASE accepted
  <2> DEFINE p == Append(q, e)
  <2>1. /\ p \in Seq(Kinds \X Positions)
        /\ \A i \in DOMAIN p : \/ i \in DOMAIN q /\ p[i] = q[i]
                               \/ p[i] = e
    BY <1>3, <1>4, AppendFacts
  <2>2. /\ \A i, j \in DOMAIN p : p[i] = p[j] => i = j
        /\ \A x : (\E i \in DOMAIN p : p[i] = x) <=> x = e \/ \E i \in DOMAIN q : q[i] = x
        /\ Before("recovery", "firing", p) =>
              \/ Before("recovery", "firing", q)
              \/ e[1] = "firing" /\ \E i \in DOMAIN q : q[i][1] = "recovery"
    BY <1>3, <1>4, <1>6, OnceMore
  <2>3. received' = [received EXCEPT ![t] = p]
    BY <1>1, <1>11
  <2> HIDE DEF p
  <2>4. received'[t] = p /\ \A u \in Targets \ {t} : received'[u] = received[u]
    BY <1>3, <1>4, <2>3
  <2>5. received' \in [Targets -> Seq(Kinds \X Positions)]
    BY <1>4, <2>1, <2>3
  <2>6. TargetOK(t)'
    <3>1. e[1] = k /\ e[2] = n
      OBVIOUS
    <3>2. \A i \in DOMAIN p : TargetIDs[p[i][2]] = t
      BY <1>0, <1>3, <1>6, <2>1, <3>1 DEF TargetOK
    <3>3. Before("recovery", "firing", p) => beside
      BY <1>0, <1>6, <1>8, <2>2, <3>1 DEF TargetOK
    <3>4. \A i, j \in DOMAIN received'[t] : received'[t][i] = received'[t][j] => i = j
      BY <2>2, <2>4
    <3>5. \A i \in DOMAIN received'[t] : TargetIDs[received'[t][i][2]] = t
      BY <2>4, <3>2
    <3>6. Before("recovery", "firing", received'[t]) => beside'
      BY <1>1, <2>4, <3>3
    <3> QED
      BY <3>4, <3>5, <3>6 DEF TargetOK
  <2>7. ASSUME NEW u \in Targets \ {t} PROVE TargetOK(u)'
    BY <1>1, <2>4, <2>7 DEF AccountInv, TargetOK, Before
  <2>8. ASSUME NEW j \in Kinds, NEW i \in Positions
        PROVE  Got(j, i)' <=> <<j, i>> = e \/ Got(j, i)
    <3>1. TargetIDs[i] \in Targets
      BY PositionFacts
    <3>2. CASE TargetIDs[i] = t
      <4>1. Got(j, i) <=> \E m \in DOMAIN q : q[m] = <<j, i>>
        BY <1>0, <3>2 DEF Got
      <4>2. Got(j, i)' <=> \E m \in DOMAIN p : p[m] = <<j, i>>
        BY <2>4, <3>2 DEF Got
      <4> QED
        BY <2>2, <4>1, <4>2
    <3>3. CASE TargetIDs[i] # t
      <4>1. <<j, i>> # e
        BY <1>3, <3>3
      <4>2. received'[TargetIDs[i]] = received[TargetIDs[i]]
        BY <2>4, <3>1, <3>3
      <4> QED
        BY <4>1, <4>2 DEF Got
    <3> QED
      BY <3>2, <3>3
  <2>9. Got(k, n)'
    BY <1>2, <2>8
  <2>10. \A j \in Kinds, i \in Positions : j # k \/ i # n => (Got(j, i)' <=> Got(j, i))
    BY <2>8
  <2>11. \A u \in Targets : TargetOK(u)'
    BY <2>6, <2>7
  <2> QED
    BY <1>0, <1>1, <1>2, <1>9, <2>5, <2>9, <2>10, <2>11, EndStep
<1> QED
  BY <1>10, <1>11

\* A restart ends both notices where they are.
LEMMA DieStep ==
    ASSUME AccountInv, NoticesDie
    PROVE  AccountInv'
<1>1. /\ died' = {k \in started : next[k] \in Positions}
      /\ sending' = [k \in Kinds |-> "waiting"]
      /\ UNCHANGED <<started, next, result, received, beside>>
  BY DEF NoticesDie
<1>2. NoticeTypeOK'
  BY <1>1 DEF AccountInv, NoticeTypeOK
<1>3. KindsOK'
  BY <1>1 DEF AccountInv, KindsOK, Ended
<1>4. \A t \in Targets : TargetOK(t)'
  BY <1>1 DEF AccountInv, TargetOK, Before
<1>5. ASSUME NEW k \in Kinds PROVE TryOK(k)'
  BY <1>1 DEF AccountInv, TryOK
<1>6. ASSUME NEW k \in Kinds, NEW i \in Positions PROVE PairOK(k, i)'
  BY <1>1 DEF AccountInv, PairOK, Got
<1> QED
  BY <1>2, <1>3, <1>4, <1>5, <1>6 DEF AccountInv

\* Nothing was tried, sent or received yet.
LEMMA AccountInit == NoticeInit => AccountInv
<1> SUFFICES ASSUME NoticeInit PROVE AccountInv
  OBVIOUS
<1>1. NoticeTypeOK /\ KindsOK
  <2>1. <<>> \in Seq(Kinds \X Positions) /\ 1 \in 1..Len(TargetIDs) + 1
    BY PositionFacts
  <2> QED
    BY <2>1 DEF NoticeInit, NoticeTypeOK, KindsOK, Results
<1>2. ASSUME NEW t \in Targets PROVE DOMAIN received[t] = {}
  BY DEF NoticeInit
<1>3. \A t \in Targets : TargetOK(t)
  BY <1>2 DEF TargetOK, Before
<1>4. ASSUME NEW k \in Kinds PROVE TryOK(k)
  BY DEF NoticeInit, TryOK
<1>5. ASSUME NEW k \in Kinds, NEW i \in Positions PROVE PairOK(k, i)
  <2>1. next[k] = 1 /\ result[k][i] = "untried" /\ i >= 1 /\ i \in Nat
    BY PositionFacts DEF NoticeInit
  <2>2. ~Got(k, i)
    BY <1>2, PositionFacts DEF Got
  <2> QED
    BY <2>1, <2>2 DEF PairOK
<1> QED
  BY <1>1, <1>3, <1>4, <1>5 DEF AccountInv

\* Every step of the notices keeps the account, and the requests leave it alone.
LEMMA AccountStep == AccountInv /\ [NoticeNext]_allVars => AccountInv'
<1> SUFFICES ASSUME AccountInv, [NoticeNext]_allVars PROVE AccountInv'
  OBVIOUS
<1>1. CASE UNCHANGED noticeVars
  <2>1. NoticeTypeOK' /\ KindsOK'
    BY <1>1 DEF noticeVars, AccountInv, NoticeTypeOK, KindsOK, Ended
  <2>2. \A t \in Targets : TargetOK(t)'
    BY <1>1 DEF noticeVars, AccountInv, TargetOK, Before
  <2>3. ASSUME NEW k \in Kinds PROVE TryOK(k)' /\ \A i \in Positions : PairOK(k, i)'
    BY <1>1 DEF noticeVars, AccountInv, TryOK, Ended, PairOK, Got
  <2> QED
    BY <2>1, <2>2, <2>3 DEF AccountInv
<1>2. UNCHANGED allVars => UNCHANGED noticeVars
  BY DEF allVars
<1> QED
  BY <1>1, <1>2, NotifyStep, FindStep, ReadStep, PostStep, DieStep DEF NoticeNext, Send

\* For any rule, a list that repeats an id included, any destinations and failures:
\* no try is skipped because another failed, what was sent arrived once, and a
\* recovery comes first only if it was started while the firing was still being
\* sent (notifyRule).
THEOREM NoticesAreAccountedFor == NoticeSpec => []NoticesAccountedFor
<1>1. AccountInv => NoticesAccountedFor
  <2> SUFFICES ASSUME AccountInv PROVE NoticesAccountedFor
    OBVIOUS
  <2>0. NoticeTypeOK
    BY DEF AccountInv
  <2>1. ASSUME NEW k \in Kinds
        PROVE  next[k] \in 1..Len(TargetIDs) + 1 /\ \A i \in Positions : PairOK(k, i)
    BY DEF AccountInv, NoticeTypeOK
  <2>2. ASSUME NEW k \in started \ died, Ended(k), NEW i \in Positions
        PROVE  result[k][i] # "untried"
    <3>1. k \in Kinds /\ next[k] \notin Positions
      BY <2>0, <2>2 DEF NoticeTypeOK, Ended
    <3>2. i < next[k]
      BY <2>1, <3>1, PositionFacts DEF Positions
    <3> QED
      BY <2>1, <3>1, <3>2 DEF PairOK
  <2>3. ASSUME NEW k \in Kinds, NEW i \in Positions, NEW j \in Positions,
               i < j, result[k][i] = "untried"
        PROVE  result[k][j] = "untried"
    <3>1. i \in Nat /\ j \in Nat /\ next[k] \in Nat /\ ~(i < next[k])
      BY <2>1, <2>3, PositionFacts DEF PairOK
    <3>2. j >= next[k]
      BY <2>3, <3>1
    <3> QED
      BY <2>1, <3>2 DEF PairOK
  <2>4. ASSUME NEW k \in Kinds, NEW i \in Positions, result[k][i] = "sent" PROVE Got(k, i)
    BY <2>1, <2>4 DEF PairOK
  <2>5. ASSUME NEW t \in Targets
        PROVE  /\ \A i, j \in DOMAIN received[t] : received[t][i] = received[t][j] => i = j
               /\ Before("recovery", "firing", received[t]) => beside
    BY DEF AccountInv, TargetOK
  <2> QED
    BY <2>0, <2>2, <2>3, <2>4, <2>5 DEF NoticesAccountedFor, Got
<1> QED
  BY <1>1, AccountInit, AccountStep, PTL DEF NoticeSpec

-----------------------------------------------------------------------------
(* Missing tokens.                                                         *)

\* A destination whose row a notice has found is done with its POST, whether the
\* notice is still at work on it or has missed its token.
FoundIsDone ==
    \A k \in Kinds :
        /\ sending[k] # "waiting" => creator[Target(k)] = "done"
        /\ \A i \in Positions : result[k][i] = "no secret" => creator[TargetIDs[i]] = "done"

NoticeInv == AccountInv /\ SecretInv /\ FoundIsDone /\ MissingSecretMeansDeleted

\* Before the first notice nothing was found and nothing missed.
LEMMA NoticeInvInit == NoticeInit => NoticeInv
<1> SUFFICES ASSUME NoticeInit PROVE NoticeInv
  OBVIOUS
<1>1. SecretInv /\ AccountInv
  BY SecretInit, AccountInit DEF NoticeInit
<1>2. FoundIsDone /\ MissingSecretMeansDeleted
  BY DEF NoticeInit, FoundIsDone, MissingSecretMeansDeleted
<1>3. QED
  BY <1>1, <1>2 DEF NoticeInv

\* A POST that is done stays done, and its row does not appear any more.
LEMMA DoneStaysDone ==
  ASSUME TypeOK, [Next]_vars
  PROVE  \A t \in Targets : creator[t] = "done" =>
            creator'[t] = "done" /\ (t \in rows' => t \in rows)
<1> SUFFICES ASSUME NEW t \in Targets, creator[t] = "done"
             PROVE  creator'[t] = "done" /\ (t \in rows' => t \in rows)
  OBVIOUS
<1>1. CASE RestartAgent \/ UNCHANGED vars
  BY <1>1 DEF RestartAgent, vars
<1>2. CASE RestartMonitor
  BY <1>2 DEF RestartMonitor
<1>3. ASSUME NEW u \in Targets,
             PostTarget(u) \/ SecretWritten(u) \/ SecretNotWritten(u)
                \/ PutTarget(u) \/ PutTargetFails(u)
      PROVE  creator'[t] = "done" /\ (t \in rows' => t \in rows)
  <2>1. u # t
    BY <1>3 DEF PostTarget, SecretWritten, SecretNotWritten, PutTarget, PutTargetFails
  <2>2. QED
    BY <1>3, <2>1 DEF PostTarget, SecretWritten, SecretNotWritten, PutTarget, PutTargetFails,
                      TypeOK
<1>4. ASSUME NEW u \in Targets, AgentWrites(u) \/ AgentDeletes(u) \/ AgentFails(u)
      PROVE  creator'[t] = "done" /\ (t \in rows' => t \in rows)
  BY <1>4 DEF AgentWrites, AgentDeletes, AgentFails
<1>5. ASSUME NEW u \in Targets, NEW d \in Deleters, ListTargets(d, u) \/ ListTargetsFails(d, u)
      PROVE  creator'[t] = "done" /\ (t \in rows' => t \in rows)
  BY <1>5 DEF ListTargets, ListTargetsFails
<1>6. ASSUME NEW d \in Deleters,
             DeleteRow(d) \/ DeleteRowFails(d) \/ DeleteSecret(d) \/ DeleteSecretFails(d)
      PROVE  creator'[t] = "done" /\ (t \in rows' => t \in rows)
  BY <1>6 DEF DeleteRow, DeleteRowFails, DeleteSecret, DeleteSecretFails
<1>7. QED
  BY <1>1, <1>2, <1>3, <1>4, <1>5, <1>6 DEF Next, Handling

\* A try that ends as it should keeps what the notices have found.
LEMMA FoundEnds ==
    ASSUME NoticeInv, NEW k \in started, ~Ended(k), NEW outcome \in Results, EndTry(k, outcome),
           UNCHANGED <<rows, creator>>,
           outcome = "no secret" => creator[Target(k)] = "done" /\ Target(k) \notin rows
    PROVE  (FoundIsDone /\ MissingSecretMeansDeleted)'
<1>0. NoticeTypeOK /\ FoundIsDone /\ MissingSecretMeansDeleted
  BY DEF NoticeInv, AccountInv
<1>1. k \in Kinds /\ next[k] \in Positions
  BY <1>0 DEF NoticeTypeOK, Ended
<1>2. /\ sending'[k] = "waiting" /\ result'[k][next[k]] = outcome
      /\ \A i \in Positions \ {next[k]} : result'[k][i] = result[k][i]
      /\ \A j \in Kinds \ {k} : /\ next'[j] = next[j] /\ sending'[j] = sending[j]
                                /\ result'[j] = result[j]
  BY <1>0, <1>1, EndFacts
<1>3. \A j \in Kinds \ {k} : Target(j)' = Target(j)
  BY <1>2 DEF Target
<1>4. ASSUME NEW j \in Kinds, NEW i \in Positions, result'[j][i] = "no secret"
      PROVE  creator[TargetIDs[i]] = "done" /\ TargetIDs[i] \notin rows
  <2>1. CASE j = k /\ i = next[k]
    BY <1>2, <1>4, <2>1 DEF Target
  <2>2. CASE j # k \/ i # next[k]
    <3>1. result[j][i] = "no secret"
      BY <1>2, <1>4, <2>2
    <3> QED
      BY <1>0, <3>1 DEF FoundIsDone, MissingSecretMeansDeleted
  <2> QED
    BY <2>1, <2>2
<1>5. FoundIsDone'
  BY <1>0, <1>2, <1>3, <1>4 DEF FoundIsDone
<1>6. MissingSecretMeansDeleted'
  BY <1>4 DEF MissingSecretMeansDeleted
<1> QED
  BY <1>5, <1>6

\* A try that goes on, on a destination that is done with its POST, keeps it too.
LEMMA FoundMoves ==
    ASSUME NoticeInv, NEW k \in Kinds, NEW pc, sending' = [sending EXCEPT ![k] = pc],
           UNCHANGED <<rows, creator, next, result>>, creator[Target(k)] = "done"
    PROVE  (FoundIsDone /\ MissingSecretMeansDeleted)'
<1>1. \A j \in Kinds \ {k} : sending'[j] = sending[j]
  BY DEF NoticeInv, AccountInv, NoticeTypeOK
<1>2. \A j \in Kinds : Target(j)' = Target(j)
  BY DEF Target
<1> QED
  BY <1>1, <1>2 DEF NoticeInv, FoundIsDone, MissingSecretMeansDeleted

\* Every step keeps the invariant.
LEMMA NoticeInvStep == NoticeInv /\ [NoticeNext]_allVars => NoticeInv'
<1> SUFFICES ASSUME NoticeInv, [NoticeNext]_allVars PROVE NoticeInv'
  OBVIOUS
<1>0. AccountInv /\ SecretInv /\ TypeOK /\ FoundIsDone /\ MissingSecretMeansDeleted
  BY DEF NoticeInv, SecretInv
<1>1. [Next]_vars
  BY DEF NoticeNext, Send, NotifyRule, FindTarget, ReadSecret, Post, allVars, Next
<1>2. SecretInv' /\ AccountInv'
  BY <1>0, <1>1, SecretStep, AccountStep
<1>3. \A t \in Targets : creator[t] = "done" =>
            creator'[t] = "done" /\ (t \in rows' => t \in rows)
  BY <1>0, <1>1, DoneStaysDone
<1>4. ASSUME NEW k \in Kinds, sending[k] # "waiting"
      PROVE  k \in started /\ ~Ended(k) /\ Target(k) \in Targets /\ creator[Target(k)] = "done"
  <2>1. k \in started /\ ~Ended(k)
    BY <1>0, <1>4 DEF AccountInv, TryOK
  <2> QED
    BY <1>0, <1>4, <2>1, PositionFacts DEF Ended, Target, FoundIsDone
<1>5. ASSUME \A k \in Kinds : sending'[k] = "waiting" \/ sending'[k] = sending[k],
             UNCHANGED <<next, result>>
      PROVE  (FoundIsDone /\ MissingSecretMeansDeleted)'
  <2>1. \A k \in Kinds : sending'[k] # "waiting" => creator'[Target(k)'] = "done"
    BY <1>3, <1>4, <1>5 DEF Target
  <2>2. \A k \in Kinds, i \in Positions : result'[k][i] = "no secret" =>
           creator'[TargetIDs[i]] = "done" /\ TargetIDs[i] \notin rows'
    BY <1>0, <1>3, <1>5, PositionFacts DEF FoundIsDone, MissingSecretMeansDeleted
  <2> QED
    BY <2>1, <2>2 DEF FoundIsDone, MissingSecretMeansDeleted
<1>6. CASE RestartMonitor /\ NoticesDie
  BY <1>2, <1>5, <1>6 DEF NoticesDie, NoticeInv
<1>7. ASSUME NEW k \in Kinds, FindTarget(k)
      PROVE  (FoundIsDone /\ MissingSecretMeansDeleted)'
  <2>1. k \in started /\ ~Ended(k) /\ UNCHANGED <<creator, rows>>
    BY <1>7 DEF FindTarget, vars
  <2>2. ASSUME Target(k) \in rows, sending' = [sending EXCEPT ![k] = "listed"],
               UNCHANGED <<next, result>>
        PROVE  (FoundIsDone /\ MissingSecretMeansDeleted)'
    <3>1. creator[Target(k)] = "done"
      BY <1>0, <2>2 DEF SecretInv, RowsAreDone
    <3> QED
      BY <2>1, <2>2, <3>1, FoundMoves
  <2>3. ASSUME EndTry(k, "not found") PROVE (FoundIsDone /\ MissingSecretMeansDeleted)'
    <3>1. "not found" \in Results /\ "not found" # "no secret"
      BY DEF Results
    <3> QED
      BY <2>1, <2>3, <3>1, FoundEnds
  <2> QED
    BY <1>7, <2>2, <2>3 DEF FindTarget
<1>8. ASSUME NEW k \in Kinds, ReadSecret(k)
      PROVE  (FoundIsDone /\ MissingSecretMeansDeleted)'
  <2>1. UNCHANGED <<creator, rows>> /\ sending[k] = "listed"
    BY <1>8 DEF ReadSecret, vars
  <2>2. k \in started /\ ~Ended(k) /\ creator[Target(k)] = "done"
    BY <1>4, <2>1
  <2>3. ASSUME sending' = [sending EXCEPT ![k] = "posting"], UNCHANGED <<next, result>>
        PROVE  (FoundIsDone /\ MissingSecretMeansDeleted)'
    BY <2>1, <2>2, <2>3, FoundMoves
  <2>4. ASSUME Target(k) \notin files, EndTry(k, "no secret")
        PROVE  (FoundIsDone /\ MissingSecretMeansDeleted)'
    <3>1. "no secret" \in Results
      BY DEF Results
    <3>2. Target(k) \notin rows
      BY <1>0, <2>4 DEF SecretInv, RowsHaveSecrets
    <3> QED
      BY <2>1, <2>2, <2>4, <3>1, <3>2, FoundEnds
  <2> QED
    BY <1>8, <2>3, <2>4 DEF ReadSecret
<1>9. ASSUME NEW k \in Kinds, NEW accepted \in BOOLEAN, NEW outcome \in Outcomes,
             Post(k, accepted, outcome)
      PROVE  (FoundIsDone /\ MissingSecretMeansDeleted)'
  <2>1. UNCHANGED <<creator, rows>> /\ sending[k] = "posting" /\ EndTry(k, outcome)
    BY <1>9 DEF Post, vars
  <2>2. outcome \in Results /\ outcome # "no secret"
    BY DEF Outcomes, Results
  <2>3. k \in started /\ ~Ended(k)
    BY <1>4, <2>1
  <2> QED
    BY <2>1, <2>2, <2>3, FoundEnds
<1>10. CASE Handling /\ UNCHANGED noticeVars
  BY <1>2, <1>5, <1>10 DEF noticeVars, NoticeInv
<1>11. CASE UNCHANGED allVars
  BY <1>2, <1>5, <1>11 DEF allVars, noticeVars, NoticeInv
<1>12. ASSUME NEW k \in Kinds, NotifyRule(k) PROVE NoticeInv'
  BY <1>2, <1>5, <1>12 DEF NotifyRule, NoticeInv
<1>13. QED
  BY <1>2, <1>6, <1>7, <1>8, <1>9, <1>10, <1>11, <1>12 DEF NoticeNext, Send, NoticeInv

\* Whatever is posted and deleted while a notice is on its way, and whatever
\* fails: the try of a destination ends for want of its token only after the
\* destination was deleted (sendToTarget reads the row, then the token file).
THEOREM MissingMeansDeleted == NoticeSpec => []MissingSecretMeansDeleted
<1>1. NoticeInv => MissingSecretMeansDeleted
  BY DEF NoticeInv
<1>2. QED
  BY <1>1, NoticeInvInit, NoticeInvStep, PTL DEF NoticeSpec

-----------------------------------------------------------------------------
(* Schedules.                                                              *)

\* A handler has commands left to perform for a job.
HasWork(r, j) == request[r].pc \in Schedule!Commands /\ request[r].job = j

\* What a request that is alone on its job has done so far: a create wrote the
\* files, a delete had the timer stopped, or was told of no failure, and removed
\* the files.
DoneOK(r, j) ==
    LET pc == request[r].pc
    IN  /\ pc = "timer" => service[j] = r
        /\ pc \in {"reload", "enable"} => service[j] = r /\ timer[j] = r
        /\ pc \in {"remove timer", "remove service", "last reload"} /\ active[j]
              => j \in unstopped
        /\ pc \in {"remove service", "last reload"} => timer[j] = None
        /\ pc = "last reload" => service[j] = None

\* It is alone, and nothing was answered yet.
WorkOK(r, j) ==
    HasWork(r, j) => /\ answer[j] = "none"
                  /\ \A s \in Requests : HasWork(s, j) => s = r
                  /\ DoneOK(r, j)

\* What is true of a job between the commands: files that differ are named in
\* halved, an answer holds, and a running timer is whole but for what is named.
RestOK(j) ==
    /\ service[j] = timer[j] \/ j \in halved
    /\ answer[j] = "created" => Schedule!Whole(j) /\ wanted[j] /\ active[j]
    /\ answer[j] = "deleted" => Schedule!Removed(j) /\ (active[j] => j \in unstopped)
    /\ active[j] /\ j \notin unstopped
          => Schedule!Whole(j) \/ (j \in halved /\ timer[j] # None /\ service[j] # None)

JobOK(j) == j \notin overlapped => RestOK(j) /\ \A r \in Requests : WorkOK(r, j)

ScheduleInv == Schedule!TypeOK /\ \A j \in Jobs : JobOK(j)

-----------------------------------------------------------------------------
(* Schedules: the handlers.                                                *)

\* A new or an ended request has no commands left.
LEMMA NoWork ==
    ASSUME NEW r \in Requests, NEW j,
           request[r] = Schedule!Unasked \/ request[r] = Schedule!Ended
    PROVE  ~HasWork(r, j)
  <1>1. request[r].pc \in {"new", "ended"}
    BY DEF Schedule!Unasked, Schedule!Ended
  <1> QED  BY <1>1 DEF HasWork, Schedule!Commands

\* The same of the next state.
LEMMA NoWorkNext ==
    ASSUME NEW r \in Requests, NEW j,
           request'[r] = Schedule!Unasked \/ request'[r] = Schedule!Ended
    PROVE  ~HasWork(r, j)'
  <1>1. request'[r].pc \in {"new", "ended"}
    BY DEF Schedule!Unasked, Schedule!Ended
  <1> QED  BY <1>1 DEF HasWork, Schedule!Commands

\* The command a request is at.
LEMMA Fields ==
    ASSUME NEW r, NEW j, NEW pc, Schedule!At(r, j, pc)
    PROVE  request[r].pc = pc /\ request[r].job = j
  BY DEF Schedule!At

\* The next command of a request.
LEMMA Goes ==
    ASSUME Schedule!TypeOK, NEW r \in Requests, NEW j \in Jobs, NEW old, NEW pc \in Schedule!Commands,
           Schedule!At(r, j, old), Schedule!GoTo(r, pc)
    PROVE  /\ request' \in [Requests -> {Schedule!Unasked, Schedule!Ended} \cup Schedule!AtWork]
           /\ request[r].pc = old /\ request[r].job = j
           /\ request'[r].pc = pc /\ request'[r].job = j
           /\ \A s \in Requests \ {r} : request'[s] = request[s]
  <1>1. request \in [Requests -> {Schedule!Unasked, Schedule!Ended} \cup Schedule!AtWork]
    BY DEF Schedule!TypeOK
  <1>2. request[r] = [pc |-> old, job |-> j]
    BY DEF Schedule!At
  <1>3. request' = [request EXCEPT ![r] = [request[r] EXCEPT !.pc = pc]]
    BY DEF Schedule!GoTo
  <1>4. [request[r] EXCEPT !.pc = pc] \in Schedule!AtWork
    BY <1>2 DEF Schedule!AtWork
  <1>5. /\ request'[r] = [request[r] EXCEPT !.pc = pc]
        /\ \A s \in Requests \ {r} : request'[s] = request[s]
    BY <1>1, <1>3
  <1>6. [request[r] EXCEPT !.pc = pc].pc = pc /\ [request[r] EXCEPT !.pc = pc].job = j
    BY <1>2
  <1>7. request' \in [Requests -> {Schedule!Unasked, Schedule!Ended} \cup Schedule!AtWork]
    BY <1>1, <1>3, <1>4
  <1> QED  BY <1>2, <1>5, <1>6, <1>7

\* The end of a request.
LEMMA Ends ==
    ASSUME Schedule!TypeOK, NEW r \in Requests, Schedule!End(r)
    PROVE  /\ request' \in [Requests -> {Schedule!Unasked, Schedule!Ended} \cup Schedule!AtWork]
           /\ request'[r] = Schedule!Ended
           /\ \A s \in Requests \ {r} : request'[s] = request[s]
  BY DEF Schedule!TypeOK, Schedule!End

-----------------------------------------------------------------------------
(* Schedules: the steps.                                                   *)

\* A job on which no new request works, whose files, timer and names are as they
\* were; the link matters to a job that was answered "created" alone.
LEMMA JobKept ==
    ASSUME NEW i \in Jobs, JobOK(i),
           service'[i] = service[i], timer'[i] = timer[i], active'[i] = active[i],
           answer'[i] = answer[i], answer[i] = "created" => wanted'[i] = wanted[i],
           i \in overlapped' <=> i \in overlapped, i \in halved' <=> i \in halved,
           i \in unstopped' <=> i \in unstopped,
           \A s \in Requests : HasWork(s, i)' => HasWork(s, i) /\ request'[s].pc = request[s].pc
    PROVE  JobOK(i)'
  <1>. SUFFICES ASSUME i \notin overlapped'
               PROVE  RestOK(i)' /\ \A r \in Requests : WorkOK(r, i)'
    BY DEF JobOK
  <1>1. RestOK(i) /\ \A r \in Requests : WorkOK(r, i)
    BY DEF JobOK
  <1>2. RestOK(i)'
    BY <1>1 DEF RestOK, Schedule!Whole, Schedule!Removed
  <1>3. ASSUME NEW r \in Requests
        PROVE  WorkOK(r, i)'
    <2>1. WorkOK(r, i)
      BY <1>1
    <2> QED  BY <2>1 DEF WorkOK, DoneOK
  <1> QED  BY <1>2, <1>3

\* The names of what may be wrong with a job, and its files, timer and answer, are
\* as they were.
SameJob(i) ==
    /\ service'[i] = service[i] /\ timer'[i] = timer[i]
    /\ wanted'[i] = wanted[i] /\ active'[i] = active[i] /\ answer'[i] = answer[i]
    /\ i \in overlapped' <=> i \in overlapped
    /\ i \in halved' <=> i \in halved
    /\ i \in unstopped' <=> i \in unstopped

\* A step of a request for one job leaves the other jobs alone.
LEMMA OtherJobs ==
    ASSUME ScheduleInv, NEW r \in Requests, NEW j \in Jobs,
           request'[r] = Schedule!Ended \/ request'[r].job = j,
           \A s \in Requests \ {r} : request'[s] = request[s],
           NEW i \in Jobs \ {j}, SameJob(i)
    PROVE  JobOK(i)'
  <1>1. ASSUME NEW s \in Requests, HasWork(s, i)'
        PROVE  HasWork(s, i) /\ request'[s].pc = request[s].pc
    <2>1. s # r
      BY <1>1, NoWorkNext DEF HasWork
    <2> QED  BY <1>1, <2>1 DEF HasWork
  <1>2. JobOK(i)
    BY DEF ScheduleInv
  <1> QED  BY <1>1, <1>2, JobKept DEF SameJob

\* A step of a request that has begun, and is alone on its job or one of several.
LEMMA RequestSteps ==
    ASSUME ScheduleInv, Schedule!TypeOK', NEW r \in Requests, NEW j \in Jobs, HasWork(r, j),
           request'[r] = Schedule!Ended \/ request'[r].job = j,
           \A s \in Requests \ {r} : request'[s] = request[s],
           overlapped' = overlapped,
           \A i \in Jobs \ {j} : SameJob(i),
           RestOK(j) /\ DoneOK(r, j) /\ answer[j] = "none"
              => /\ RestOK(j)'
                 /\ \/ request'[r] = Schedule!Ended
                    \/ answer'[j] = "none" /\ DoneOK(r, j)'
    PROVE  ScheduleInv'
  <1>1. ASSUME NEW i \in Jobs \ {j}
        PROVE  JobOK(i)'
    BY OtherJobs
  <1>2. ASSUME j \notin overlapped
        PROVE  RestOK(j)' /\ \A s \in Requests : WorkOK(s, j)'
    <2>1. RestOK(j) /\ WorkOK(r, j)
      BY <1>2 DEF ScheduleInv, JobOK
    <2>2. /\ RestOK(j)'
          /\ request'[r] = Schedule!Ended \/ (answer'[j] = "none" /\ DoneOK(r, j)')
      BY <2>1 DEF WorkOK
    <2>3. \A s \in Requests : HasWork(s, j)' => s = r
      BY <2>1 DEF WorkOK, HasWork
    <2>4. request'[r] = Schedule!Ended => ~HasWork(r, j)'
      BY NoWorkNext
    <2>5. ASSUME NEW s \in Requests
          PROVE  WorkOK(s, j)'
      <3>1. CASE s = r
        BY <2>2, <2>3, <2>4, <3>1 DEF WorkOK
      <3>2. CASE s # r
        BY <2>3, <3>2 DEF WorkOK
      <3> QED  BY <3>1, <3>2
    <2> QED  BY <2>2, <2>5
  <1>3. JobOK(j)'
    BY <1>2 DEF JobOK
  <1> QED  BY <1>1, <1>3 DEF ScheduleInv

\* A request arrives: it is alone, or the job is marked.
LEMMA BeginStep ==
    ASSUME ScheduleInv, NEW r \in Requests, NEW j \in Jobs,
           NEW first \in {"service", "stop", "toggle on", "toggle off"},
           Schedule!Begin(r, j, first)
    PROVE  ScheduleInv'
  <1>0. Schedule!TypeOK
    BY DEF ScheduleInv
  <1>1. /\ request[r] = Schedule!Unasked
        /\ request' = [request EXCEPT ![r] = [pc |-> first, job |-> j]]
        /\ overlapped' = IF Schedule!WorkingOn(j) = {} THEN overlapped ELSE overlapped \cup {j}
        /\ answer' = [answer EXCEPT ![j] = "none"]
        /\ UNCHANGED <<service, timer, wanted, active, halved, unstopped>>
    BY DEF Schedule!Begin, Schedule!files, Schedule!systemd
  <1>2. /\ request'[r] = [pc |-> first, job |-> j]
        /\ \A s \in Requests \ {r} : request'[s] = request[s]
    BY <1>0, <1>1 DEF Schedule!TypeOK
  <1>3. request'[r].pc = first /\ request'[r].job = j
    <2>1. [pc |-> first, job |-> j].pc = first /\ [pc |-> first, job |-> j].job = j
      OBVIOUS
    <2> QED  BY <1>2, <2>1, Zenon
  <1>4. Schedule!TypeOK'
    <2>1. [pc |-> first, job |-> j] \in Schedule!AtWork
      BY DEF Schedule!AtWork, Schedule!Commands
    <2>2. request' \in [Requests -> {Schedule!Unasked, Schedule!Ended} \cup Schedule!AtWork]
      BY <1>0, <1>1, <2>1 DEF Schedule!TypeOK
    <2>3. answer' \in [Jobs -> {"none", "created", "deleted"}] /\ overlapped' \subseteq Jobs
      BY <1>0, <1>1 DEF Schedule!TypeOK
    <2> QED  BY <1>0, <1>1, <2>2, <2>3 DEF Schedule!TypeOK
  <1>5. ASSUME NEW i \in Jobs \ {j}
        PROVE  JobOK(i)'
    <2>1. SameJob(i)
      BY <1>0, <1>1 DEF SameJob, Schedule!TypeOK
    <2> QED  BY <1>2, <1>3, <2>1, OtherJobs
  <1>6. JobOK(j)'
    <2>. SUFFICES ASSUME j \notin overlapped'
                 PROVE  RestOK(j)' /\ \A s \in Requests : WorkOK(s, j)'
      BY DEF JobOK
    <2>1. j \notin overlapped /\ Schedule!WorkingOn(j) = {}
      BY <1>1
    <2>2. ASSUME NEW s \in Requests, HasWork(s, j)
          PROVE  FALSE
      <3>1. request[s] \in Schedule!AtWork
        BY <1>0, <2>2, NoWork DEF Schedule!TypeOK
      <3>2. request[s] \in [pc : Schedule!Commands, job : {j}]
        BY <2>2, <3>1 DEF Schedule!AtWork, HasWork
      <3> QED  BY <2>1, <3>2 DEF Schedule!WorkingOn
    <2>3. answer'[j] = "none"
      BY <1>0, <1>1 DEF Schedule!TypeOK
    <2>4. RestOK(j)
      BY <2>1 DEF ScheduleInv, JobOK
    <2>5. RestOK(j)'
      BY <1>1, <2>3, <2>4 DEF RestOK, Schedule!Whole
    <2>6. ASSUME NEW s \in Requests
          PROVE  WorkOK(s, j)'
      <3>1. HasWork(s, j)' => s = r
        BY <1>2, <2>2 DEF HasWork
      <3>2. \A q \in Requests : HasWork(q, j)' => q = r
        BY <1>2, <2>2 DEF HasWork
      <3>3. DoneOK(r, j)'
        BY <1>3 DEF DoneOK
      <3> QED  BY <2>3, <3>1, <3>2, <3>3 DEF WorkOK
    <2> QED  BY <2>5, <2>6
  <1> QED  BY <1>4, <1>5, <1>6 DEF ScheduleInv

\* The service file is renewed and the timer file is not yet.
LEMMA WriteServiceStep ==
    ASSUME ScheduleInv, NEW r \in Requests, NEW j \in Jobs, Schedule!WriteService(r, j)
    PROVE  ScheduleInv'
  <1>. USE DEF Schedule!files, Schedule!systemd, Schedule!seen
  <1>0. Schedule!TypeOK
    BY DEF ScheduleInv
  <1>1. Schedule!At(r, j, "service") /\ Schedule!GoTo(r, "timer") /\ "timer" \in Schedule!Commands
    BY DEF Schedule!WriteService, Schedule!Commands
  <1>2. /\ request' \in [Requests -> {Schedule!Unasked, Schedule!Ended} \cup Schedule!AtWork]
        /\ request[r].pc = "service" /\ request[r].job = j
        /\ request'[r].pc = "timer" /\ request'[r].job = j
        /\ \A s \in Requests \ {r} : request'[s] = request[s]
    BY <1>0, <1>1, Goes
  <1>3. Schedule!TypeOK'
    BY <1>0, <1>2 DEF Schedule!TypeOK, Schedule!WriteService
  <1>4. \A i \in Jobs \ {j} : SameJob(i)
    BY <1>0 DEF SameJob, Schedule!TypeOK, Schedule!WriteService
  <1>5. HasWork(r, j) /\ overlapped' = overlapped
    BY <1>2 DEF HasWork, Schedule!Commands, Schedule!WriteService
  <1>6. RestOK(j) /\ DoneOK(r, j) /\ answer[j] = "none"
          => RestOK(j)' /\ answer'[j] = "none" /\ DoneOK(r, j)'
    BY <1>0, <1>2, ScheduleAssumption
    DEF RestOK, DoneOK, Schedule!Whole, Schedule!Removed, Schedule!TypeOK, Schedule!WriteService
  <1> QED  BY <1>2, <1>3, <1>4, <1>5, <1>6, RequestSteps

\* Both files are of this request.
LEMMA WriteTimerStep ==
    ASSUME ScheduleInv, NEW r \in Requests, NEW j \in Jobs, Schedule!WriteTimer(r, j)
    PROVE  ScheduleInv'
  <1>. USE DEF Schedule!files, Schedule!systemd, Schedule!seen
  <1>0. Schedule!TypeOK
    BY DEF ScheduleInv
  <1>1. Schedule!At(r, j, "timer") /\ Schedule!GoTo(r, "reload") /\ "reload" \in Schedule!Commands
    BY DEF Schedule!WriteTimer, Schedule!Commands
  <1>2. /\ request' \in [Requests -> {Schedule!Unasked, Schedule!Ended} \cup Schedule!AtWork]
        /\ request[r].pc = "timer" /\ request[r].job = j
        /\ request'[r].pc = "reload" /\ request'[r].job = j
        /\ \A s \in Requests \ {r} : request'[s] = request[s]
    BY <1>0, <1>1, Goes
  <1>3. Schedule!TypeOK'
    BY <1>0, <1>2 DEF Schedule!TypeOK, Schedule!WriteTimer
  <1>4. \A i \in Jobs \ {j} : SameJob(i)
    BY <1>0 DEF SameJob, Schedule!TypeOK, Schedule!WriteTimer
  <1>5. HasWork(r, j) /\ overlapped' = overlapped
    BY <1>2 DEF HasWork, Schedule!Commands, Schedule!WriteTimer
  <1>6. RestOK(j) /\ DoneOK(r, j) /\ answer[j] = "none"
          => RestOK(j)' /\ answer'[j] = "none" /\ DoneOK(r, j)'
    BY <1>0, <1>2, ScheduleAssumption
    DEF RestOK, DoneOK, Schedule!Whole, Schedule!Removed, Schedule!TypeOK, Schedule!WriteTimer
  <1> QED  BY <1>2, <1>3, <1>4, <1>5, <1>6, RequestSteps

\* daemon-reload leaves all as it was.
LEMMA ReloadStep ==
    ASSUME ScheduleInv, NEW r \in Requests, NEW j \in Jobs, Schedule!Reload(r, j)
    PROVE  ScheduleInv'
  <1>. USE DEF Schedule!files, Schedule!systemd, Schedule!seen
  <1>0. Schedule!TypeOK
    BY DEF ScheduleInv
  <1>1. Schedule!At(r, j, "reload") /\ Schedule!GoTo(r, "enable") /\ "enable" \in Schedule!Commands
    BY DEF Schedule!Reload, Schedule!Commands
  <1>2. /\ request' \in [Requests -> {Schedule!Unasked, Schedule!Ended} \cup Schedule!AtWork]
        /\ request[r].pc = "reload" /\ request[r].job = j
        /\ request'[r].pc = "enable" /\ request'[r].job = j
        /\ \A s \in Requests \ {r} : request'[s] = request[s]
    BY <1>0, <1>1, Goes
  <1>3. Schedule!TypeOK'
    BY <1>0, <1>2 DEF Schedule!TypeOK, Schedule!Reload
  <1>4. \A i \in Jobs \ {j} : SameJob(i)
    BY <1>0 DEF SameJob, Schedule!TypeOK, Schedule!Reload
  <1>5. HasWork(r, j) /\ overlapped' = overlapped
    BY <1>2 DEF HasWork, Schedule!Commands, Schedule!Reload
  <1>6. RestOK(j) /\ DoneOK(r, j) /\ answer[j] = "none"
          => RestOK(j)' /\ answer'[j] = "none" /\ DoneOK(r, j)'
    BY <1>0, <1>2, ScheduleAssumption
    DEF RestOK, DoneOK, Schedule!Whole, Schedule!Removed, Schedule!TypeOK, Schedule!Reload
  <1> QED  BY <1>2, <1>3, <1>4, <1>5, <1>6, RequestSteps

\* The timer is stopped.
LEMMA StopStep ==
    ASSUME ScheduleInv, NEW r \in Requests, NEW j \in Jobs, Schedule!Stop(r, j)
    PROVE  ScheduleInv'
  <1>. USE DEF Schedule!files, Schedule!systemd, Schedule!seen
  <1>0. Schedule!TypeOK
    BY DEF ScheduleInv
  <1>1. Schedule!At(r, j, "stop") /\ Schedule!GoTo(r, "remove timer") /\ "remove timer" \in Schedule!Commands
    BY DEF Schedule!Stop, Schedule!Commands
  <1>2. /\ request' \in [Requests -> {Schedule!Unasked, Schedule!Ended} \cup Schedule!AtWork]
        /\ request[r].pc = "stop" /\ request[r].job = j
        /\ request'[r].pc = "remove timer" /\ request'[r].job = j
        /\ \A s \in Requests \ {r} : request'[s] = request[s]
    BY <1>0, <1>1, Goes
  <1>3. Schedule!TypeOK'
    BY <1>0, <1>2 DEF Schedule!TypeOK, Schedule!Stop, Schedule!Disabled
  <1>4. \A i \in Jobs \ {j} : SameJob(i)
    BY <1>0 DEF SameJob, Schedule!TypeOK, Schedule!Stop, Schedule!Disabled
  <1>5. HasWork(r, j) /\ overlapped' = overlapped
    BY <1>2 DEF HasWork, Schedule!Commands, Schedule!Stop
  <1>6. RestOK(j) /\ DoneOK(r, j) /\ answer[j] = "none"
          => RestOK(j)' /\ answer'[j] = "none" /\ DoneOK(r, j)'
    BY <1>0, <1>2, ScheduleAssumption
    DEF RestOK, DoneOK, Schedule!Whole, Schedule!Removed, Schedule!TypeOK, Schedule!Stop, Schedule!Disabled
  <1> QED  BY <1>2, <1>3, <1>4, <1>5, <1>6, RequestSteps

\* The timer is not stopped, and that is not told: the job is marked if it runs.
LEMMA StopFailsStep ==
    ASSUME ScheduleInv, NEW r \in Requests, NEW j \in Jobs, Schedule!StopFails(r, j)
    PROVE  ScheduleInv'
  <1>. USE DEF Schedule!files, Schedule!systemd, Schedule!seen
  <1>0. Schedule!TypeOK
    BY DEF ScheduleInv
  <1>1. Schedule!At(r, j, "stop") /\ Schedule!GoTo(r, "remove timer") /\ "remove timer" \in Schedule!Commands
    BY DEF Schedule!StopFails, Schedule!Commands
  <1>2. /\ request' \in [Requests -> {Schedule!Unasked, Schedule!Ended} \cup Schedule!AtWork]
        /\ request[r].pc = "stop" /\ request[r].job = j
        /\ request'[r].pc = "remove timer" /\ request'[r].job = j
        /\ \A s \in Requests \ {r} : request'[s] = request[s]
    BY <1>0, <1>1, Goes
  <1>3. Schedule!TypeOK'
    <2>1. wanted' \in [Jobs -> BOOLEAN] /\ unstopped' \subseteq Jobs
      BY <1>0 DEF Schedule!TypeOK, Schedule!StopFails
    <2>2. UNCHANGED <<service, timer, active, answer, overlapped, halved>>
      BY DEF Schedule!StopFails
    <2> QED  BY <1>0, <1>2, <2>1, <2>2 DEF Schedule!TypeOK
  <1>4. \A i \in Jobs \ {j} : SameJob(i)
    BY <1>0 DEF SameJob, Schedule!TypeOK, Schedule!StopFails
  <1>5. HasWork(r, j) /\ overlapped' = overlapped
    BY <1>2 DEF HasWork, Schedule!Commands, Schedule!StopFails
  <1>6. RestOK(j) /\ DoneOK(r, j) /\ answer[j] = "none"
          => RestOK(j)' /\ answer'[j] = "none" /\ DoneOK(r, j)'
    BY <1>0, <1>2, ScheduleAssumption
    DEF RestOK, DoneOK, Schedule!Whole, Schedule!Removed, Schedule!TypeOK, Schedule!StopFails
  <1> QED  BY <1>2, <1>3, <1>4, <1>5, <1>6, RequestSteps

\* The timer file is removed; the timer does not run, or was not stopped.
LEMMA RemoveTimerStep ==
    ASSUME ScheduleInv, NEW r \in Requests, NEW j \in Jobs, Schedule!RemoveTimer(r, j)
    PROVE  ScheduleInv'
  <1>. USE DEF Schedule!files, Schedule!systemd, Schedule!seen
  <1>0. Schedule!TypeOK
    BY DEF ScheduleInv
  <1>1. Schedule!At(r, j, "remove timer") /\ Schedule!GoTo(r, "remove service") /\ "remove service" \in Schedule!Commands
    BY DEF Schedule!RemoveTimer, Schedule!Commands
  <1>2. /\ request' \in [Requests -> {Schedule!Unasked, Schedule!Ended} \cup Schedule!AtWork]
        /\ request[r].pc = "remove timer" /\ request[r].job = j
        /\ request'[r].pc = "remove service" /\ request'[r].job = j
        /\ \A s \in Requests \ {r} : request'[s] = request[s]
    BY <1>0, <1>1, Goes
  <1>3. Schedule!TypeOK'
    BY <1>0, <1>2 DEF Schedule!TypeOK, Schedule!RemoveTimer
  <1>4. \A i \in Jobs \ {j} : SameJob(i)
    BY <1>0 DEF SameJob, Schedule!TypeOK, Schedule!RemoveTimer
  <1>5. HasWork(r, j) /\ overlapped' = overlapped
    BY <1>2 DEF HasWork, Schedule!Commands, Schedule!RemoveTimer
  <1>6. RestOK(j) /\ DoneOK(r, j) /\ answer[j] = "none"
          => RestOK(j)' /\ answer'[j] = "none" /\ DoneOK(r, j)'
    BY <1>0, <1>2, ScheduleAssumption
    DEF RestOK, DoneOK, Schedule!Whole, Schedule!Removed, Schedule!TypeOK, Schedule!RemoveTimer
  <1> QED  BY <1>2, <1>3, <1>4, <1>5, <1>6, RequestSteps

\* Nothing is left of the files.
LEMMA RemoveServiceStep ==
    ASSUME ScheduleInv, NEW r \in Requests, NEW j \in Jobs, Schedule!RemoveService(r, j)
    PROVE  ScheduleInv'
  <1>. USE DEF Schedule!files, Schedule!systemd, Schedule!seen
  <1>0. Schedule!TypeOK
    BY DEF ScheduleInv
  <1>1. Schedule!At(r, j, "remove service") /\ Schedule!GoTo(r, "last reload") /\ "last reload" \in Schedule!Commands
    BY DEF Schedule!RemoveService, Schedule!Commands
  <1>2. /\ request' \in [Requests -> {Schedule!Unasked, Schedule!Ended} \cup Schedule!AtWork]
        /\ request[r].pc = "remove service" /\ request[r].job = j
        /\ request'[r].pc = "last reload" /\ request'[r].job = j
        /\ \A s \in Requests \ {r} : request'[s] = request[s]
    BY <1>0, <1>1, Goes
  <1>3. Schedule!TypeOK'
    BY <1>0, <1>2 DEF Schedule!TypeOK, Schedule!RemoveService
  <1>4. \A i \in Jobs \ {j} : SameJob(i)
    BY <1>0 DEF SameJob, Schedule!TypeOK, Schedule!RemoveService
  <1>5. HasWork(r, j) /\ overlapped' = overlapped
    BY <1>2 DEF HasWork, Schedule!Commands, Schedule!RemoveService
  <1>6. RestOK(j) /\ DoneOK(r, j) /\ answer[j] = "none"
          => RestOK(j)' /\ answer'[j] = "none" /\ DoneOK(r, j)'
    BY <1>0, <1>2, ScheduleAssumption
    DEF RestOK, DoneOK, Schedule!Whole, Schedule!Removed, Schedule!TypeOK, Schedule!RemoveService
  <1> QED  BY <1>2, <1>3, <1>4, <1>5, <1>6, RequestSteps

\* The schedule is answered for: its files are of this request, and it runs.
LEMMA EnableStep ==
    ASSUME ScheduleInv, NEW r \in Requests, NEW j \in Jobs, Schedule!Enable(r, j)
    PROVE  ScheduleInv'
  <1>. USE DEF Schedule!files, Schedule!systemd, Schedule!seen
  <1>0. Schedule!TypeOK
    BY DEF ScheduleInv
  <1>1. Schedule!End(r)
    BY DEF Schedule!Enable
  <1>2. /\ request' \in [Requests -> {Schedule!Unasked, Schedule!Ended} \cup Schedule!AtWork]
        /\ request'[r] = Schedule!Ended
        /\ \A s \in Requests \ {r} : request'[s] = request[s]
    BY <1>0, <1>1, Ends
  <1>3. request[r].pc \in {"enable"} /\ request[r].job = j
    BY Fields DEF Schedule!Enable
  <1>4. Schedule!TypeOK'
    BY <1>0, <1>2 DEF Schedule!TypeOK, Schedule!Enable, Schedule!Enabled
  <1>5. \A i \in Jobs \ {j} : SameJob(i)
    BY <1>0 DEF SameJob, Schedule!TypeOK, Schedule!Enable, Schedule!Enabled
  <1>6. HasWork(r, j) /\ overlapped' = overlapped
    BY <1>3 DEF HasWork, Schedule!Commands, Schedule!Enable
  <1>7. RestOK(j) /\ DoneOK(r, j) /\ answer[j] = "none" => RestOK(j)'
    BY <1>0, <1>3, ScheduleAssumption
    DEF RestOK, DoneOK, Schedule!Whole, Schedule!Removed, Schedule!TypeOK, Schedule!Enable, Schedule!Enabled
  <1> QED  BY <1>2, <1>4, <1>5, <1>6, <1>7, RequestSteps

\* Only a timer with both files is started, and they differ only if that is named.
LEMMA ToggleStep ==
    ASSUME ScheduleInv, NEW r \in Requests, NEW j \in Jobs, Schedule!Toggle(r, j)
    PROVE  ScheduleInv'
  <1>. USE DEF Schedule!files, Schedule!systemd, Schedule!seen
  <1>0. Schedule!TypeOK
    BY DEF ScheduleInv
  <1>1. Schedule!End(r)
    BY DEF Schedule!Toggle
  <1>2. /\ request' \in [Requests -> {Schedule!Unasked, Schedule!Ended} \cup Schedule!AtWork]
        /\ request'[r] = Schedule!Ended
        /\ \A s \in Requests \ {r} : request'[s] = request[s]
    BY <1>0, <1>1, Ends
  <1>3. request[r].pc \in {"toggle on", "toggle off"} /\ request[r].job = j
    BY Fields DEF Schedule!Toggle
  <1>4. Schedule!TypeOK'
    BY <1>0, <1>2 DEF Schedule!TypeOK, Schedule!Toggle, Schedule!Enabled, Schedule!Disabled
  <1>5. \A i \in Jobs \ {j} : SameJob(i)
    BY <1>0 DEF SameJob, Schedule!TypeOK, Schedule!Toggle, Schedule!Enabled, Schedule!Disabled
  <1>6. HasWork(r, j) /\ overlapped' = overlapped
    BY <1>3 DEF HasWork, Schedule!Commands, Schedule!Toggle
  <1>7. RestOK(j) /\ DoneOK(r, j) /\ answer[j] = "none" => RestOK(j)'
    BY <1>0, <1>3, ScheduleAssumption
    DEF RestOK, DoneOK, Schedule!Whole, Schedule!Removed, Schedule!TypeOK, Schedule!Toggle, Schedule!Enabled, Schedule!Disabled
  <1> QED  BY <1>2, <1>4, <1>5, <1>6, <1>7, RequestSteps

\* The deletion is answered for: no file is left.
LEMMA LastReloadStep ==
    ASSUME ScheduleInv, NEW r \in Requests, NEW j \in Jobs, Schedule!LastReload(r, j)
    PROVE  ScheduleInv'
  <1>. USE DEF Schedule!files, Schedule!systemd, Schedule!seen
  <1>0. Schedule!TypeOK
    BY DEF ScheduleInv
  <1>1. Schedule!End(r)
    BY DEF Schedule!LastReload
  <1>2. /\ request' \in [Requests -> {Schedule!Unasked, Schedule!Ended} \cup Schedule!AtWork]
        /\ request'[r] = Schedule!Ended
        /\ \A s \in Requests \ {r} : request'[s] = request[s]
    BY <1>0, <1>1, Ends
  <1>3. request[r].pc \in {"last reload"} /\ request[r].job = j
    BY Fields DEF Schedule!LastReload
  <1>4. Schedule!TypeOK'
    BY <1>0, <1>2 DEF Schedule!TypeOK, Schedule!LastReload
  <1>5. \A i \in Jobs \ {j} : SameJob(i)
    BY <1>0 DEF SameJob, Schedule!TypeOK, Schedule!LastReload
  <1>6. HasWork(r, j) /\ overlapped' = overlapped
    BY <1>3 DEF HasWork, Schedule!Commands, Schedule!LastReload
  <1>7. RestOK(j) /\ DoneOK(r, j) /\ answer[j] = "none" => RestOK(j)'
    BY <1>0, <1>3, ScheduleAssumption
    DEF RestOK, DoneOK, Schedule!Whole, Schedule!Removed, Schedule!TypeOK, Schedule!LastReload
  <1> QED  BY <1>2, <1>4, <1>5, <1>6, <1>7, RequestSteps

\* A step fails: what was done stays, and nothing is answered for.
LEMMA StepFailsStep ==
    ASSUME ScheduleInv, NEW r \in Requests, NEW j \in Jobs, Schedule!StepFails(r, j)
    PROVE  ScheduleInv'
  <1>. USE DEF Schedule!files, Schedule!systemd, Schedule!seen
  <1>0. Schedule!TypeOK
    BY DEF ScheduleInv
  <1>1. Schedule!End(r)
    BY DEF Schedule!StepFails
  <1>2. /\ request' \in [Requests -> {Schedule!Unasked, Schedule!Ended} \cup Schedule!AtWork]
        /\ request'[r] = Schedule!Ended
        /\ \A s \in Requests \ {r} : request'[s] = request[s]
    BY <1>0, <1>1, Ends
  <1>3. request[r].pc \in Schedule!Commands /\ request[r].job = j
    BY DEF Schedule!StepFails, Schedule!At, Schedule!Commands
  <1>4. Schedule!TypeOK'
    <2>1. wanted' \in {wanted, [wanted EXCEPT ![j] = TRUE], [wanted EXCEPT ![j] = FALSE]}
      BY DEF Schedule!StepFails
    <2>3. wanted' \in [Jobs -> BOOLEAN]
      BY <1>0, <2>1 DEF Schedule!TypeOK
    <2>2. UNCHANGED <<service, timer, active, answer, overlapped, halved, unstopped>>
      BY DEF Schedule!StepFails
    <2> QED  BY <1>0, <1>2, <2>2, <2>3 DEF Schedule!TypeOK
  <1>5. \A i \in Jobs \ {j} : SameJob(i)
    BY <1>0 DEF SameJob, Schedule!TypeOK, Schedule!StepFails
  <1>6. HasWork(r, j) /\ overlapped' = overlapped
    BY <1>3 DEF HasWork, Schedule!Commands, Schedule!StepFails
  <1>7. RestOK(j) /\ DoneOK(r, j) /\ answer[j] = "none" => RestOK(j)'
    BY <1>0, <1>3, ScheduleAssumption
    DEF RestOK, DoneOK, Schedule!Whole, Schedule!Removed, Schedule!TypeOK, Schedule!StepFails
  <1> QED  BY <1>2, <1>4, <1>5, <1>6, <1>7, RequestSteps

\* Every step of a schedule request, or of a restart of the agent, keeps the
\* invariant.
LEMMA ScheduleStep ==
    ScheduleInv /\ [Schedule!Next]_schedules => ScheduleInv'
  <1>. SUFFICES ASSUME ScheduleInv, [Schedule!Next]_schedules
               PROVE  ScheduleInv'
    OBVIOUS
  <1>0. Schedule!TypeOK
    BY DEF ScheduleInv
  <1>1. CASE UNCHANGED schedules
    <2>1. Schedule!TypeOK'
      BY <1>0, <1>1 DEF Schedule!TypeOK, schedules
    <2>2. ASSUME NEW i \in Jobs
          PROVE  JobOK(i)'
      <3>1. JobOK(i)
        BY DEF ScheduleInv
      <3> QED  BY <1>1, <3>1, JobKept DEF schedules, HasWork
    <2> QED  BY <2>1, <2>2 DEF ScheduleInv
  <1>2. CASE Schedule!RestartAgent
    <2>1. /\ request' = [r \in Requests |-> IF request[r] = Schedule!Unasked
                                            THEN Schedule!Unasked ELSE Schedule!Ended]
          /\ UNCHANGED <<service, timer, wanted, active, answer, overlapped, halved, unstopped>>
      BY <1>2 DEF Schedule!RestartAgent, Schedule!files, Schedule!systemd, Schedule!seen
    <2>2. Schedule!TypeOK'
      BY <1>0, <2>1 DEF Schedule!TypeOK
    <2>3. ASSUME NEW i \in Jobs
          PROVE  JobOK(i)'
      <3>1. JobOK(i)
        BY DEF ScheduleInv
      <3>2. \A r \in Requests : ~HasWork(r, i)'
        BY <2>1, NoWorkNext
      <3> QED  BY <2>1, <3>1, <3>2, JobKept
    <2> QED  BY <2>2, <2>3 DEF ScheduleInv
  <1>3. ASSUME NEW r \in Requests, NEW j \in Jobs,
               \/ Schedule!CreateSchedule(r, j) \/ Schedule!DeleteSchedule(r, j)
               \/ Schedule!ToggleSchedule(r, j)
        PROVE  ScheduleInv'
    BY <1>3, BeginStep
    DEF Schedule!CreateSchedule, Schedule!DeleteSchedule, Schedule!ToggleSchedule
  <1> QED  BY <1>1, <1>2, <1>3, WriteServiceStep, WriteTimerStep, ReloadStep, EnableStep, ToggleStep,
              StopStep, StopFailsStep, RemoveTimerStep, RemoveServiceStep, LastReloadStep,
              StepFailsStep DEF Schedule!Next

\* Initially there is no file, no timer and no request.
LEMMA ScheduleInit == Schedule!Init => ScheduleInv
  <1>. SUFFICES ASSUME Schedule!Init
               PROVE  ScheduleInv
    OBVIOUS
  <1>1. \A j \in Jobs : ~active[j] /\ answer[j] = "none" /\ service[j] = timer[j]
    BY DEF Schedule!Init
  <1>2. \A r \in Requests, j \in Jobs : ~HasWork(r, j)
    BY NoWork DEF Schedule!Init
  <1>3. Schedule!TypeOK
    BY DEF Schedule!Init, Schedule!TypeOK
  <1> QED  BY <1>1, <1>2, <1>3 DEF ScheduleInv, JobOK, RestOK, WorkOK

-----------------------------------------------------------------------------
(* Schedules: the theorems.                                                *)

\* In every state the request at work on a job, if none overlapped, has left what
\* its commands leave (createSchedule, deleteSchedule).
THEOREM ScheduleInvariant == PartSpec => []ScheduleInv
  <1>1. PartInit => ScheduleInv
    BY ScheduleInit DEF PartInit
  <1>2. ScheduleInv /\ [PartNext]_<<part, allVars, schedules>> => ScheduleInv'
    BY ScheduleStep DEF PartNext
  <1> QED  BY <1>1, <1>2, PTL DEF PartSpec

\* The answer given last for a job holds until the next request for it, but for
\* requests that overlapped and a disable whose error was ignored (createSchedule,
\* deleteSchedule).
THEOREM ScheduleAnswersHold == PartSpec => []AnswersHold
  <1>1. ScheduleInv => AnswersHold
    BY DEF ScheduleInv, JobOK, RestOK, AnswersHold, Schedule!AnswersHold
  <1> QED  BY <1>1, ScheduleInvariant, PTL

\* A running timer has both its files, of one request, unless a request stopped
\* half-way, a disable failed in a delete, or requests overlapped (createSchedule
\* undoes nothing).
THEOREM RunningTimersAreWhole == PartSpec => []RunningIsWhole
  <1>1. ScheduleInv => RunningIsWhole
    BY DEF ScheduleInv, JobOK, RestOK, RunningIsWhole, Schedule!RunningIsWhole
  <1> QED  BY <1>1, ScheduleInvariant, PTL

\* Every behaviour of the two parts is one of the destinations and their notices,
\* so that the theorems about them hold of the composition.
THEOREM PartsAreNotices == PartSpec => NoticeSpec /\ Spec
  <1>1. PartInit => NoticeInit /\ Init
    BY DEF PartInit, NoticeInit
  <1>2. [PartNext]_<<part, allVars, schedules>> => [NoticeNext]_allVars
    BY DEF PartNext
  <1>3. [NoticeNext]_allVars => [Next]_vars
    BY DEF NoticeNext, Next, Send, NotifyRule, FindTarget, ReadSecret, Post, allVars
  <1> QED  BY <1>1, <1>2, <1>3, PTL DEF PartSpec, NoticeSpec, Spec
=============================================================================
