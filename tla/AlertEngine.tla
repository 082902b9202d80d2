----------------------------- MODULE AlertEngine -----------------------------
(***************************************************************************)
(* The alert rules and the alerts they raise: evaluateAlerts of the        *)
(* collect loop (app/server.go) with ActiveAlert, PutAlert, AlertRules and *)
(* AcknowledgeAlert (store.go).  The evaluation reads the rules once, then *)
(* for every enabled rule reads its active alert and writes it back, while *)
(* administrators edit rules and acknowledge alerts in between.            *)
(*                                                                         *)
(* A resolved alert is never read again by the engine: its identifier is   *)
(* free, and stands for the next random one.                               *)
(***************************************************************************)
EXTENDS Naturals, FiniteSets

CONSTANTS Rules,        \* identifiers of alert rules
          Ids,          \* identifiers of alerts that are active at once
          ForTicks,     \* for_seconds of a rule, in ticks
          MaxMishaps    \* bound on failed statements and restarts

MaxLag == 1             \* an evaluation spans at most one tick

ASSUME AlertAssumption ==
    /\ IsFiniteSet(Ids)
    /\ ForTicks \in Nat /\ MaxMishaps \in Nat

VARIABLES
    reading,   \* what the next snapshot says of each rule's source
    rules,     \* alert_rules
    alerts,    \* the active rows of alerts
    eval,      \* evaluateAlerts: its position and local variables
    \* observations, read by the properties only
    mishaps,   \* failed statements and restarts so far
    told,      \* firing notices started for an alert
    calm       \* alerts whose rule was seen not to trigger since they began

vars == <<reading, rules, alerts, eval, mishaps, told, calm>>

Readings == {"triggers", "normal", "unknown"}
Free     == [state |-> "none"]     \* no row, or a resolved one
Active   == {"pending", "firing", "acknowledged"}
Alert    == [state : Active, rule : Rules, age : 0..(ForTicks + MaxLag)]
Resting  == [pc |-> "idle", todo |-> {}, lag |-> 0]
Between  == [pc : {"next"}, todo : SUBSET Rules, lag : 0..MaxLag]
Holding  == [pc : {"putting", "recovering"}, todo : SUBSET Rules, lag : 0..MaxLag,
             rule : Rules, id : Ids, was : Active, state : Active \cup {"resolved"}]

TypeOK ==
    /\ reading \in [Rules -> Readings]
    /\ rules \in [Rules -> {"absent", "disabled", "enabled"}]
    /\ alerts \in [Ids -> Alert \cup {Free}]
    /\ eval \in {Resting} \cup Between \cup Holding
    /\ mishaps \in 0..MaxMishaps
    /\ told \in [Ids -> 0..(MaxMishaps + 1)]
    /\ calm \subseteq Ids

Init ==
    /\ reading = [r \in Rules |-> "normal"]
    /\ rules = [r \in Rules |-> "absent"]
    /\ alerts = [a \in Ids |-> Free]
    /\ eval = Resting
    /\ mishaps = 0 /\ told = [a \in Ids |-> 0] /\ calm = {}

-----------------------------------------------------------------------------
(* The host, the clock and the administrators.                             *)

\* A source changes its value, or can no longer be read.
SourceChanges(r) ==
    /\ reading' \in {[reading EXCEPT ![r] = v] : v \in Readings \ {reading[r]}}
    /\ UNCHANGED <<rules, alerts, eval, mishaps, told, calm>>

Tick ==
    /\ eval.lag < MaxLag
    /\ eval' = IF eval.pc = "idle" THEN eval ELSE [eval EXCEPT !.lag = @ + 1]
    /\ alerts' = [a \in Ids |->
                    IF alerts[a] = Free \/ alerts[a].age = ForTicks + MaxLag
                      THEN alerts[a] ELSE [alerts[a] EXCEPT !.age = @ + 1]]
    /\ UNCHANGED <<reading, rules, mishaps, told, calm>>

\* POST /alert-rules upserts a rule, DELETE removes it; neither looks at the
\* alerts of the rule.
PutAlertRule(r, mode) ==
    /\ rules[r] # mode
    /\ rules' = [rules EXCEPT ![r] = mode]
    /\ UNCHANGED <<reading, alerts, eval, mishaps, told, calm>>

DeleteAlertRule(r) ==
    /\ rules[r] # "absent"
    /\ rules' = [rules EXCEPT ![r] = "absent"]
    /\ UNCHANGED <<reading, alerts, eval, mishaps, told, calm>>

\* UPDATE alerts SET state='acknowledged' WHERE id=? AND state='firing'
AcknowledgeAlert(a) ==
    /\ alerts[a] # Free /\ alerts[a].state = "firing"
    /\ alerts' = [alerts EXCEPT ![a].state = "acknowledged"]
    /\ UNCHANGED <<reading, rules, eval, mishaps, told, calm>>

-----------------------------------------------------------------------------
(* One evaluation.                                                         *)

\* AlertRules and time.Now(): the enabled rules, as they are now.
BeginEvaluation ==
    /\ eval.pc = "idle"
    /\ eval' = [pc |-> "next", todo |-> {r \in Rules : rules[r] = "enabled"}, lag |-> 0]
    /\ UNCHANGED <<reading, rules, alerts, mishaps, told, calm>>

\* alertValue has no value for the rule's source: the rule is passed over.
SkipRule(r) ==
    /\ eval.pc = "next" /\ r \in eval.todo
    /\ reading[r] = "unknown"
    /\ eval' = [eval EXCEPT !.todo = @ \ {r}]
    /\ UNCHANGED <<reading, rules, alerts, mishaps, told, calm>>

\* The evaluation holds a copy of the alert, changed to 'state', to be put.
Hold(r, a, was, state) ==
    eval' = [pc |-> "putting", todo |-> eval.todo \ {r}, lag |-> eval.lag,
             rule |-> r, id |-> a, was |-> was, state |-> state]

\* The source triggers and the rule has no alert: one begins, pending, and
\* fires at once if the rule waits for nothing.
NewAlert(r) ==
    \E a \in Ids :
        /\ alerts[a] = Free
        /\ Hold(r, a, "pending", IF ForTicks = 0 THEN "firing" ELSE "pending")
        /\ told' = [told EXCEPT ![a] = IF ForTicks = 0 THEN 1 ELSE 0]
        /\ calm' = calm \ {a}

\* Seeded: a firing alert is announced at every evaluation.
Trigger_Repeats(r, a) ==
    LET held  == alerts[a].age >= ForTicks + eval.lag
        fires == alerts[a].state # "acknowledged" /\ held
    IN  /\ Hold(r, a, alerts[a].state, IF fires THEN "firing" ELSE alerts[a].state)
        /\ told' = IF fires THEN [told EXCEPT ![a] = @ + 1] ELSE told
        /\ UNCHANGED calm

\* Seeded: the acknowledgement is forgotten while the source triggers.
Trigger_FiresAgain(r, a) ==
    LET fires == alerts[a].state # "firing" /\ alerts[a].age >= ForTicks + eval.lag
    IN  /\ Hold(r, a, alerts[a].state, IF fires THEN "firing" ELSE alerts[a].state)
        /\ UNCHANGED <<told, calm>>

\* The source triggers and the alert is active: it fires if it is pending and
\* began ForTicks before this evaluation.  The notice starts before the put.
Trigger(r, a) ==
    LET fires == alerts[a].state = "pending" /\ alerts[a].age >= ForTicks + eval.lag
    IN  /\ Hold(r, a, alerts[a].state, IF fires THEN "firing" ELSE alerts[a].state)
        /\ told' = IF fires THEN [told EXCEPT ![a] = @ + 1] ELSE told
        /\ UNCHANGED calm

\* Seeded: only a firing alert recovers.
Recover_KeepsPending(r, a) ==
    /\ Hold(r, a, alerts[a].state,
            IF alerts[a].state = "pending" THEN "pending" ELSE "resolved")
    /\ calm' = calm \cup {a}
    /\ UNCHANGED told

\* The source is back to normal: the alert is resolved, whatever its state.
Recover(r, a) ==
    /\ Hold(r, a, alerts[a].state, "resolved")
    /\ calm' = calm \cup {a}
    /\ UNCHANGED told

\* No alert and nothing to raise one for.
Quiet(r) ==
    /\ eval' = [eval EXCEPT !.todo = @ \ {r}]
    /\ UNCHANGED <<told, calm>>

\* Seeded: an acknowledged alert is not taken for an active one.
ActiveOf_NotAcknowledged(r) ==
    {a \in Ids : alerts[a] # Free /\ alerts[a].rule = r /\ alerts[a].state # "acknowledged"}

\* The rows ActiveAlert may return for a rule; of several it takes the one
\* updated last, here any of them.
ActiveOf(r) == {a \in Ids : alerts[a] # Free /\ alerts[a].rule = r}

\* ActiveAlert of one rule, and what evaluateAlerts makes of it.
EvaluateRule(r) ==
    /\ eval.pc = "next" /\ r \in eval.todo
    /\ \/ reading[r] = "triggers" /\ ActiveOf(r) = {} /\ NewAlert(r)
       \/ reading[r] = "triggers" /\ \E a \in ActiveOf(r) : Trigger(r, a)
       \/ reading[r] = "normal" /\ ActiveOf(r) = {} /\ Quiet(r)
       \/ reading[r] = "normal" /\ \E a \in ActiveOf(r) : Recover(r, a)
    /\ UNCHANGED <<reading, rules, alerts, mishaps>>

Mishap == mishaps < MaxMishaps /\ mishaps' = mishaps + 1

\* ActiveAlert takes any error for "no active alert".
ActiveAlertFails(r) ==
    /\ eval.pc = "next" /\ r \in eval.todo
    /\ \/ reading[r] = "triggers" /\ NewAlert(r)
       \/ reading[r] = "normal" /\ Quiet(r)
    /\ Mishap
    /\ UNCHANGED <<reading, rules, alerts>>

\* Seeded: every recovery is announced.
AfterPut_AnnouncesAll ==
    eval' = IF eval.state = "resolved"
              THEN [eval EXCEPT !.pc = "recovering"]
              ELSE [pc |-> "next", todo |-> eval.todo, lag |-> eval.lag]

\* After the put, a recovery notice starts if the alert had fired.
AfterPut ==
    eval' = IF eval.state = "resolved" /\ eval.was # "pending"
              THEN [eval EXCEPT !.pc = "recovering"]
              ELSE [pc |-> "next", todo |-> eval.todo, lag |-> eval.lag]

\* Seeded: the upsert stores a new start of the alert as well.
PutAlert_Restarts ==
    /\ eval.pc = "putting"
    /\ alerts' = [alerts EXCEPT ![eval.id] =
                    IF eval.state = "resolved" THEN Free
                    ELSE [state |-> eval.state, rule |-> eval.rule, age |-> 0]]
    /\ AfterPut
    /\ UNCHANGED <<reading, rules, mishaps, told, calm>>

\* The upsert of PutAlert writes the copy over whatever the row is by now.
PutAlert ==
    /\ eval.pc = "putting"
    /\ alerts' = [alerts EXCEPT ![eval.id] =
                    IF eval.state = "resolved" THEN Free
                    ELSE IF @ = Free
                      THEN [state |-> eval.state, rule |-> eval.rule, age |-> eval.lag]
                      ELSE [@ EXCEPT !.state = eval.state]]
    /\ AfterPut
    /\ UNCHANGED <<reading, rules, mishaps, told, calm>>

\* The error of PutAlert is ignored; a recovery notice is started all the same.
PutAlertFails ==
    /\ eval.pc = "putting"
    /\ Mishap
    /\ AfterPut
    /\ UNCHANGED <<reading, rules, alerts, told, calm>>

\* go notifyRule(rule, "... resolved")
NotifyRecovery ==
    /\ eval.pc = "recovering"
    /\ eval' = [pc |-> "next", todo |-> eval.todo, lag |-> eval.lag]
    /\ UNCHANGED <<reading, rules, alerts, mishaps, told, calm>>

EndEvaluation ==
    /\ eval.pc = "next" /\ eval.todo = {}
    /\ eval' = Resting
    /\ UNCHANGED <<reading, rules, alerts, mishaps, told, calm>>

\* The monitor dies in the middle of an evaluation.
RestartMonitor ==
    /\ eval.pc # "idle"
    /\ Mishap
    /\ eval' = Resting
    /\ UNCHANGED <<reading, rules, alerts, told, calm>>

Evaluation ==
    \/ BeginEvaluation \/ PutAlert \/ NotifyRecovery \/ EndEvaluation
    \/ \E r \in Rules : SkipRule(r) \/ EvaluateRule(r)

Next ==
    \/ Tick \/ Evaluation \/ PutAlertFails \/ RestartMonitor
    \/ \E r \in Rules :
          \/ SourceChanges(r) \/ ActiveAlertFails(r) \/ DeleteAlertRule(r)
          \/ \E mode \in {"enabled", "disabled"} : PutAlertRule(r, mode)
    \/ \E a \in Ids : AcknowledgeAlert(a)

Spec == Init /\ [][Next]_vars

\* Time passes, and the collect loop evaluates every snapshot.
FairSpec == Spec /\ WF_vars(Tick) /\ WF_vars(Evaluation)

-----------------------------------------------------------------------------
(* Properties.                                                             *)

\* A rule has one active alert, unless reading it failed: an acknowledged
\* alert is still the rule's alert, and none is lost between two evaluations
\* (the states ActiveAlert selects).
OneActiveAlert ==
    /\ TypeOK
    /\ \A r \in Rules :
          Cardinality({a \in Ids : alerts[a] # Free /\ alerts[a].rule = r}) <= 1 + mishaps

\* The administrators are told once that an alert fires, and once more only
\* when the firing state could not be stored (the notice starts before
\* PutAlert, whose error is ignored).
ToldOnce == \A a \in Ids : told[a] <= 1 + mishaps

\* They are told of a recovery only after they were told that the alert fired.
RecoveryFollowsFiring == eval.pc = "recovering" => told[eval.id] > 0

\* An alert fires only if no evaluation since it began has seen its source
\* below the threshold, unless that evaluation could not store the recovery.
FiresAfterHolding ==
    mishaps = 0 =>
        \A a \in calm : alerts[a] # Free /\ eval.pc \in {"idle", "next"} =>
            alerts[a].state # "firing"

\* An acknowledgement is undone only by the evaluation that had read the alert
\* before it (PutAlert writes its whole copy back).
AcknowledgementLostInFlight ==
    [][\A a \in Ids :
          /\ alerts[a] # Free /\ alerts[a].state = "acknowledged"
          /\ alerts'[a] # Free /\ alerts'[a].state # "acknowledged"
          => eval.pc = "putting" /\ eval.was = "firing"]_vars

\* The alert of an enabled rule settles, whatever failed before: a source that goes
\* on triggering ends with an active alert that has fired, and one that stays
\* normal with no active alert.
AlertsSettle ==
    \A r \in Rules :
        /\ <>[](reading[r] = "triggers" /\ rules[r] = "enabled")
              => <>[](\E a \in ActiveOf(r) : alerts[a].state # "pending")
        /\ <>[](reading[r] = "normal" /\ rules[r] = "enabled")
              => <>[](ActiveOf(r) = {})
=============================================================================
