---------------------------- MODULE AlertNotices ----------------------------
(***************************************************************************)
(* The notices of one alert on their way to the destinations of its rule,  *)
(* while the destinations themselves come and go (NotificationTargets).    *)
(* evaluateAlerts starts a goroutine for the firing notice and another for *)
(* the recovery; each takes the ids of the rule in their order, and a try  *)
(* of one reads the row, then the token file, then posts to Telegram       *)
(* (notifyRule and sendToTarget in app/server.go).  Errors are logged,     *)
(* nothing is tried twice.  AlertEngine says when a notice is started.     *)
(***************************************************************************)
EXTENDS NotificationTargets, Sequences

\* The ids in the rule's target_ids, whether they exist or not; an id may repeat.
CONSTANT TargetIDs

ASSUME NoticeAssumption == TargetIDs \in Seq(Targets)

VARIABLES
    started,   \* notices whose goroutine was started
    died,      \* notices whose goroutine ended with the monitor
    next,      \* position of the id each goroutine takes up next, or is at work on
    sending,   \* how far the try under way has come
    result,    \* how the try of each position ended
    received,  \* what Telegram accepted for each destination, in order: of which
               \* notice, and from the try of which position
    beside     \* observation: the recovery was started before the firing notice ended

noticeVars == <<started, died, next, sending, result, received, beside>>
allVars    == <<vars, noticeVars>>

Kinds     == {"firing", "recovery"}
Positions == 1..Len(TargetIDs)
Results   == {"untried", "sent", "not found", "no secret", "not answered"}

NoticeTypeOK ==
    /\ started \subseteq Kinds /\ died \subseteq started
    /\ next \in [Kinds -> 1..Len(TargetIDs) + 1]
    /\ sending \in [Kinds -> {"waiting", "listed", "posting"}]
    /\ result \in [Kinds -> [Positions -> Results]]
    /\ received \in [Targets -> Seq(Kinds \X Positions)]
    /\ beside \in BOOLEAN

NoticeInit ==
    /\ Init
    /\ started = {} /\ died = {}
    /\ next = [k \in Kinds |-> 1]
    /\ sending = [k \in Kinds |-> "waiting"]
    /\ result = [k \in Kinds |-> [i \in Positions |-> "untried"]]
    /\ received = [t \in Targets |-> <<>>]
    /\ beside = FALSE

-----------------------------------------------------------------------------
Ended(k)  == k \in died \/ next[k] \notin Positions
Target(k) == TargetIDs[next[k]]

\* The goroutine of a notice is started: a recovery after the firing it ends.
NotifyRule(k) ==
    /\ k \notin started /\ (k = "recovery" => "firing" \in started)
    /\ started' = started \cup {k}
    /\ beside' = IF k = "recovery" THEN ~Ended("firing") ELSE beside
    /\ UNCHANGED <<vars, died, next, sending, result, received>>

\* The try ends, and the goroutine goes on to the next id.
EndTry(k, outcome) ==
    /\ next' = [next EXCEPT ![k] = @ + 1]
    /\ sending' = [sending EXCEPT ![k] = "waiting"]
    /\ result' = [result EXCEPT ![k][next[k]] = outcome]

\* sendToTarget looks for an enabled row with the id.  A row that was posted
\* without `enabled` is as good as none, and so is a table that cannot be read.
FindTarget(k) ==
    /\ k \in started /\ ~Ended(k) /\ sending[k] = "waiting"
    /\ \/ /\ Target(k) \in rows
          /\ sending' = [sending EXCEPT ![k] = "listed"]
          /\ UNCHANGED <<next, result>>
       \/ EndTry(k, "not found")
    /\ UNCHANGED <<vars, started, died, received, beside>>

ReadSecret(k) ==
    /\ sending[k] = "listed"
    /\ \/ /\ Target(k) \in files
          /\ sending' = [sending EXCEPT ![k] = "posting"]
          /\ UNCHANGED <<next, result>>
       \/ Target(k) \notin files /\ EndTry(k, "no secret")
    /\ UNCHANGED <<vars, started, died, received, beside>>

\* The request reaches Telegram or not, and the try ends with its answer or, if
\* that does not come within the timeout, without one.
Outcomes == {"sent", "not answered"}

Receive(k) == [received EXCEPT ![Target(k)] = Append(@, <<k, next[k]>>)]

\* Seeded: the first destination that does not answer ends the notice.
Post_GivesUp(k, accepted, outcome) ==
    /\ sending[k] = "posting" /\ (outcome = "sent" => accepted)
    /\ next' = [next EXCEPT ![k] = IF outcome = "sent" THEN @ + 1 ELSE Len(TargetIDs) + 1]
    /\ sending' = [sending EXCEPT ![k] = "waiting"]
    /\ result' = [result EXCEPT ![k][next[k]] = outcome]
    /\ received' = IF accepted THEN Receive(k) ELSE received
    /\ UNCHANGED <<vars, started, died, beside>>

Post(k, accepted, outcome) ==
    /\ sending[k] = "posting" /\ (outcome = "sent" => accepted)
    /\ EndTry(k, outcome)
    /\ received' = IF accepted THEN Receive(k) ELSE received
    /\ UNCHANGED <<vars, started, died, beside>>

\* The goroutines at work die with the monitor, and nothing starts them again.  (A
\* request that dies after Telegram has accepted it is one whose answer does not
\* come just before.)
NoticesDie ==
    /\ died' = {k \in started : next[k] \in Positions}
    /\ sending' = [k \in Kinds |-> "waiting"]
    /\ UNCHANGED <<started, next, result, received, beside>>

Send == \E k \in Kinds :
           \/ NotifyRule(k) \/ FindTarget(k) \/ ReadSecret(k)
           \/ \E accepted \in BOOLEAN, outcome \in Outcomes : Post(k, accepted, outcome)

NoticeNext == \/ Handling /\ UNCHANGED noticeVars
              \/ RestartMonitor /\ NoticesDie
              \/ Send

NoticeSpec == NoticeInit /\ [][NoticeNext]_allVars

-----------------------------------------------------------------------------
(* Properties.                                                             *)

\* A destination received something of notice a before something of notice b.
Before(a, b, q) == \E i, j \in DOMAIN q : i < j /\ q[i][1] = a /\ q[j][1] = b

\* Nothing about a notice is lost in silence or repeated: when its goroutine ends,
\* and no restart has ended it, every id of the rule was tried, though others
\* failed before it, and when a restart has, the ids before one that was tried;
\* what was sent was received, from each try once; and a recovery overtakes the
\* firing notice only if it was started while that notice was still being sent.
NoticesAccountedFor ==
    /\ NoticeTypeOK
    /\ \A k \in started \ died : Ended(k) => \A i \in Positions : result[k][i] # "untried"
    /\ \A k \in Kinds, i, j \in Positions :
          i < j /\ result[k][i] = "untried" => result[k][j] = "untried"
    /\ \A k \in Kinds, i \in Positions : result[k][i] = "sent" =>
          \E n \in DOMAIN received[TargetIDs[i]] : received[TargetIDs[i]][n] = <<k, i>>
    /\ \A t \in Targets :
          /\ \A i, j \in DOMAIN received[t] : received[t][i] = received[t][j] => i = j
          /\ Before("recovery", "firing", received[t]) => beside

\* A try that has found the row fails for want of the token only because the
\* destination was deleted meanwhile: the row is gone, and stays gone.
MissingSecretMeansDeleted ==
    \A k \in Kinds, i \in Positions : result[k][i] = "no secret" => TargetIDs[i] \notin rows
=============================================================================
