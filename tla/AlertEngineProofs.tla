-------------------------- MODULE AlertEngineProofs --------------------------
(***************************************************************************)
(* Proofs about the alert engine.  Its evaluation works on a copy of one   *)
(* alert between ActiveAlert and PutAlert; the inductive invariant says    *)
(* what the copy may still assume of the row, of the notices that were     *)
(* sent for it, and of the alerts of its rule.                             *)
(***************************************************************************)
EXTENDS AlertEngine, FiniteSetTheorems, TLAPS

Putting == eval.pc = "putting"

\* The copy keeps the state it read, unless it fires a pending alert or
\* resolves one; a pending alert cannot have been acknowledged meanwhile.
CopyOK ==
    Putting =>
        /\ \/ eval.state \in {eval.was, "resolved"}
           \/ eval.was = "pending" /\ eval.state = "firing"
        /\ eval.was = "pending" =>
              alerts[eval.id] = Free \/ alerts[eval.id].state = "pending"

\* Whatever has fired was announced: a row, the copy read from it, and the
\* copy about to be written.
FiredIsTold ==
    /\ \A a \in Ids : alerts[a] # Free /\ alerts[a].state # "pending" => told[a] > 0
    /\ eval.pc \in {"putting", "recovering"} /\ eval.was # "pending" => told[eval.id] > 0
    /\ Putting /\ eval.state \in {"firing", "acknowledged"} => told[eval.id] > 0
    /\ eval.pc = "recovering" => eval.was # "pending"

\* The evaluation has announced that alert a fires and not stored it yet.
Announced(a) == Putting /\ eval.id = a /\ eval.state = "firing"

\* An alert that is still pending was announced in vain at most once per mishap.
ToldPerMishap ==
    /\ ToldOnce
    /\ \A a \in Ids : alerts[a] # Free /\ alerts[a].state = "pending" /\ ~Announced(a)
                         => told[a] <= mishaps
    /\ Putting /\ eval.state = "pending" => told[eval.id] <= mishaps

\* As long as nothing fails, a calm alert has no row, save the one whose
\* recovery is being stored, and no other copy of it is about to be written.
CalmIsOver ==
    mishaps = 0 =>
        /\ \A a \in calm : alerts[a] # Free =>
              Putting /\ eval.id = a /\ eval.state = "resolved"
        /\ Putting /\ eval.state # "resolved" => eval.id \notin calm

\* The alerts of a rule: its active rows and the one about to be written.
Claimed(r) == ActiveOf(r) \cup
    {a \in Ids : Putting /\ eval.id = a /\ eval.rule = r /\ eval.state # "resolved"}

OneClaim == \A r \in Rules : Cardinality(Claimed(r)) <= 1 + mishaps

AlertInv == TypeOK /\ CopyOK /\ FiredIsTold /\ ToldPerMishap /\ CalmIsOver

-----------------------------------------------------------------------------
(* The steps, told apart by what they do to the copy.                      *)

\* Nothing but the host, the rules or a count of mishaps changes.
Elsewhere == UNCHANGED <<alerts, eval, mishaps, told, calm>>

\* The evaluation goes on or ends without a copy; one it held is lost only by
\* a mishap.
PassOn ==
    /\ UNCHANGED <<alerts, told, calm>>
    /\ eval' \in {Resting} \cup Between
    /\ \/ ~Putting /\ mishaps' = mishaps
       \/ mishaps < MaxMishaps /\ mishaps' = mishaps + 1

\* The evaluation raises alert a for rule r: the rule has no alert, or
\* ActiveAlert failed.
Raise(r, a) ==
    /\ eval.pc = "next" /\ alerts[a] = Free
    /\ Hold(r, a, "pending", IF ForTicks = 0 THEN "firing" ELSE "pending")
    /\ told' = [told EXCEPT ![a] = IF ForTicks = 0 THEN 1 ELSE 0]
    /\ calm' = calm \ {a}
    /\ UNCHANGED alerts
    /\ \/ ActiveOf(r) = {} /\ mishaps' = mishaps
       \/ mishaps < MaxMishaps /\ mishaps' = mishaps + 1

\* The evaluation judges the alert a of rule r that it read.
Consider(r, a, A) == eval.pc = "next" /\ A /\ UNCHANGED <<alerts, mishaps>>

\* What a step of the specification can be, with the cases of EvaluateRule and
\* of the mishaps told apart (evaluateAlerts).
LEMMA StepCases ==
    ASSUME TypeOK, [Next]_vars
    PROVE  \/ Elsewhere \/ PassOn \/ Tick \/ PutAlert \/ PutAlertFails
           \/ \E a \in Ids : AcknowledgeAlert(a)
           \/ \E r \in Rules : \E a \in Ids : Raise(r, a)
           \/ \E r \in Rules : \E a \in ActiveOf(r) :
                 Consider(r, a, Trigger(r, a)) \/ Consider(r, a, Recover(r, a))
  <1> USE AlertAssumption DEF TypeOK, Putting, Between, Holding, Resting, Mishap, MaxLag
  <1>1. CASE UNCHANGED vars
    BY <1>1 DEF vars, Elsewhere
  <1>2. CASE BeginEvaluation
    BY <1>2 DEF BeginEvaluation, PassOn
  <1>3. CASE NotifyRecovery
    BY <1>3 DEF NotifyRecovery, PassOn
  <1>4. CASE EndEvaluation
    BY <1>4 DEF EndEvaluation, PassOn
  <1>5. CASE RestartMonitor
    BY <1>5 DEF RestartMonitor, PassOn
  <1>6. ASSUME NEW r \in Rules, SkipRule(r)
        PROVE  PassOn
    BY <1>6 DEF SkipRule, PassOn
  <1>7. ASSUME NEW r \in Rules, eval.pc = "next", Quiet(r), UNCHANGED alerts,
               mishaps' = mishaps \/ Mishap
        PROVE  PassOn
    BY <1>7 DEF Quiet, PassOn
  <1>8. ASSUME NEW r \in Rules, EvaluateRule(r)
        PROVE  \/ PassOn
               \/ \E a \in Ids : Raise(r, a)
               \/ \E a \in ActiveOf(r) :
                     Consider(r, a, Trigger(r, a)) \/ Consider(r, a, Recover(r, a))
    <2> USE <1>8 DEF EvaluateRule
    <2>1. CASE reading[r] = "triggers" /\ ActiveOf(r) = {}
      BY <2>1 DEF NewAlert, Raise
    <2>2. CASE reading[r] = "triggers" /\ ActiveOf(r) # {}
      BY <2>2 DEF Consider
    <2>3. CASE reading[r] = "normal" /\ ActiveOf(r) = {}
      BY <2>3, <1>7
    <2>4. CASE reading[r] = "normal" /\ ActiveOf(r) # {}
      BY <2>4 DEF Consider
    <2>5. reading[r] \in Readings
      OBVIOUS
    <2> QED  BY <2>1, <2>2, <2>3, <2>4, <2>5 DEF Readings
  <1>9. ASSUME NEW r \in Rules, ActiveAlertFails(r)
        PROVE  PassOn \/ \E a \in Ids : Raise(r, a)
    <2> USE <1>9 DEF ActiveAlertFails
    <2>1. CASE reading[r] = "triggers"
      BY <2>1 DEF NewAlert, Raise
    <2>2. CASE reading[r] = "normal"
      BY <2>2, <1>7
    <2>3. reading[r] \in Readings
      OBVIOUS
    <2> QED  BY <2>1, <2>2, <2>3 DEF Readings
  <1>10. ASSUME NEW r \in Rules,
                SourceChanges(r) \/ DeleteAlertRule(r)
                \/ \E mode \in {"enabled", "disabled"} : PutAlertRule(r, mode)
         PROVE  Elsewhere
    BY <1>10 DEF SourceChanges, DeleteAlertRule, PutAlertRule, Elsewhere
  <1> QED
    BY <1>1, <1>2, <1>3, <1>4, <1>5, <1>6, <1>8, <1>9, <1>10 DEF Next, Evaluation

-----------------------------------------------------------------------------
(* The types.                                                              *)

\* The types of the copy and of the rows after an evaluation step that holds
\* a copy of alert a (Hold).
LEMMA HoldType ==
    ASSUME TypeOK, NEW r \in Rules, NEW a \in Ids, NEW was \in Active,
           NEW state \in Active \cup {"resolved"}, eval.pc = "next", Hold(r, a, was, state)
    PROVE  /\ eval' \in Holding
           /\ eval'.pc = "putting" /\ eval'.id = a /\ eval'.rule = r
           /\ eval'.was = was /\ eval'.state = state
  BY DEF TypeOK, Hold, Holding, Between, Resting

\* After the put the evaluation goes on to the next rule or starts a recovery
\* notice; it holds the same alert then.
LEMMA AfterPutType ==
    ASSUME TypeOK, Putting, AfterPut
    PROVE  \/ /\ eval' \in Between
              /\ eval.state # "resolved" \/ eval.was = "pending"
           \/ /\ eval' \in Holding /\ eval'.pc = "recovering"
              /\ eval'.id = eval.id /\ eval'.was = eval.was
              /\ eval.state = "resolved" /\ eval.was # "pending"
  <1>1. eval \in Holding
    BY DEF TypeOK, Putting, Between, Resting
  <1>2. CASE eval.state = "resolved" /\ eval.was # "pending"
    <2>1. eval' = [eval EXCEPT !.pc = "recovering"]
      BY <1>2 DEF AfterPut
    <2> QED  BY <1>1, <1>2, <2>1 DEF Holding
  <1>3. CASE ~(eval.state = "resolved" /\ eval.was # "pending")
    <2>1. eval' = [pc |-> "next", todo |-> eval.todo, lag |-> eval.lag]
      BY <1>3 DEF AfterPut
    <2> QED  BY <1>1, <1>3, <2>1 DEF Holding, Between
  <1> QED  BY <1>2, <1>3

\* What the upsert does to the rows: the alert of the copy takes its state or
\* goes, and every other alert stays as it is (PutAlert).
LEMMA PutAlertRows ==
    ASSUME TypeOK, PutAlert
    PROVE  /\ alerts' \in [Ids -> Alert \cup {Free}]
           /\ eval.id \in Ids /\ eval.rule \in Rules
           /\ \A a \in Ids \ {eval.id} : alerts'[a] = alerts[a]
           /\ eval.state = "resolved" => alerts'[eval.id] = Free
           /\ eval.state # "resolved" =>
                 /\ alerts'[eval.id] # Free
                 /\ alerts'[eval.id].state = eval.state
                 /\ alerts'[eval.id].rule =
                       IF alerts[eval.id] = Free THEN eval.rule ELSE alerts[eval.id].rule
  <1>1. eval \in Holding
    BY DEF TypeOK, PutAlert, Between, Resting
  <1>2. eval.id \in Ids /\ eval.rule \in Rules /\ eval.lag \in 0..(ForTicks + MaxLag)
    BY <1>1, AlertAssumption DEF Holding, MaxLag
  <1>3. alerts \in [Ids -> Alert \cup {Free}] /\ alerts[eval.id] \in Alert \cup {Free}
    BY <1>2 DEF TypeOK
  <1> DEFINE row == alerts[eval.id]
  <1>4. CASE eval.state = "resolved"
    <2>1. alerts' = [alerts EXCEPT ![eval.id] = Free]
      BY <1>4 DEF PutAlert
    <2> QED  BY <1>2, <1>3, <1>4, <2>1
  <1>5. CASE eval.state # "resolved" /\ row = Free
    <2>1. alerts' = [alerts EXCEPT ![eval.id] =
                       [state |-> eval.state, rule |-> eval.rule, age |-> eval.lag]]
      BY <1>5 DEF PutAlert
    <2>2. [state |-> eval.state, rule |-> eval.rule, age |-> eval.lag] \in Alert
      BY <1>1, <1>2, <1>5 DEF Holding, Alert
    <2> QED  BY <1>2, <1>3, <1>5, <2>1, <2>2 DEF Alert, Free
  <1>6. CASE eval.state # "resolved" /\ row # Free
    <2>1. alerts' = [alerts EXCEPT ![eval.id] = [row EXCEPT !.state = eval.state]]
      BY <1>6 DEF PutAlert
    <2>2. row \in Alert
      BY <1>3, <1>6
    <2>3. /\ [row EXCEPT !.state = eval.state] \in Alert
          /\ [row EXCEPT !.state = eval.state].state = eval.state
          /\ [row EXCEPT !.state = eval.state].rule = row.rule
      BY <1>1, <1>6, <2>2 DEF Holding, Alert
    <2> QED  BY <1>2, <1>3, <1>6, <2>1, <2>3 DEF Alert, Free
  <1> QED  BY <1>4, <1>5, <1>6

\* The clock changes the age of an alert and nothing else of it (Tick).
LEMMA TickRows ==
    ASSUME TypeOK, Tick
    PROVE  /\ alerts' \in [Ids -> Alert \cup {Free}]
           /\ \A a \in Ids : /\ alerts'[a] = Free <=> alerts[a] = Free
                             /\ alerts[a] # Free =>
                                   /\ alerts'[a].state = alerts[a].state
                                   /\ alerts'[a].rule = alerts[a].rule
           /\ eval' \in {Resting} \cup Between \cup Holding
           /\ eval'.pc = eval.pc
           /\ eval.pc \in {"putting", "recovering"} =>
                 /\ eval'.id = eval.id /\ eval'.rule = eval.rule
                 /\ eval'.was = eval.was /\ eval'.state = eval.state
  <1>1. ASSUME NEW a \in Ids
        PROVE  /\ alerts'[a] \in Alert \cup {Free}
               /\ alerts'[a] = Free <=> alerts[a] = Free
               /\ alerts[a] # Free => /\ alerts'[a].state = alerts[a].state
                                      /\ alerts'[a].rule = alerts[a].rule
    <2>1. CASE alerts[a] = Free \/ alerts[a].age = ForTicks + MaxLag
      BY <2>1 DEF Tick, TypeOK
    <2>2. CASE ~(alerts[a] = Free \/ alerts[a].age = ForTicks + MaxLag)
      <3>1. alerts'[a] = [alerts[a] EXCEPT !.age = @ + 1]
        BY <2>2 DEF Tick
      <3>2. alerts[a] \in Alert /\ alerts[a].age # ForTicks + MaxLag
        BY <2>2 DEF TypeOK
      <3>3. alerts[a].age + 1 \in 0..(ForTicks + MaxLag)
        BY <3>2, AlertAssumption DEF Alert, MaxLag
      <3>4. [alerts[a] EXCEPT !.age = @ + 1] \in Alert
        BY <3>2, <3>3 DEF Alert
      <3> QED  BY <3>1, <3>2, <3>4 DEF Alert, Free
    <2> QED  BY <2>1, <2>2
  <1>2. alerts' \in [Ids -> Alert \cup {Free}]
    BY <1>1 DEF Tick
  <1>3. CASE eval.pc = "idle"
    BY <1>1, <1>2, <1>3 DEF Tick, TypeOK
  <1>4. CASE eval.pc # "idle"
    <2>1. eval' = [eval EXCEPT !.lag = @ + 1] /\ eval.lag < MaxLag
      BY <1>4 DEF Tick
    <2>2. eval \in Between \cup Holding
      BY <1>4 DEF TypeOK, Resting
    <2>3. eval.lag + 1 \in 0..MaxLag
      BY <2>1, <2>2 DEF Between, Holding, MaxLag
    <2>4. CASE eval \in Between
      BY <2>1, <2>3, <2>4, <1>1, <1>2 DEF Between
    <2>5. CASE eval \in Holding
      BY <2>1, <2>3, <2>5, <1>1, <1>2 DEF Holding
    <2> QED  BY <2>2, <2>4, <2>5
  <1> QED  BY <1>3, <1>4

\* An acknowledgement changes the state of one firing alert (AcknowledgeAlert).
LEMMA AcknowledgeRows ==
    ASSUME TypeOK, NEW a \in Ids, AcknowledgeAlert(a)
    PROVE  /\ alerts' \in [Ids -> Alert \cup {Free}]
           /\ alerts[a] # Free /\ alerts[a].state = "firing"
           /\ alerts'[a] # Free /\ alerts'[a].state = "acknowledged"
           /\ alerts'[a].rule = alerts[a].rule
           /\ \A b \in Ids \ {a} : alerts'[b] = alerts[b]
           /\ UNCHANGED <<eval, mishaps, told, calm>>
  <1> DEFINE row == alerts[a]
             new == [row EXCEPT !.state = "acknowledged"]
  <1>1. row \in Alert /\ row.state = "firing"
    BY DEF AcknowledgeAlert, TypeOK
  <1>2. new \in Alert /\ new.state = "acknowledged" /\ new.rule = row.rule
    BY <1>1 DEF Alert, Active
  <1>3. alerts' = [alerts EXCEPT ![a] = new]
    BY DEF AcknowledgeAlert
  <1> HIDE DEF new
  <1>4. alerts \in [Ids -> Alert \cup {Free}]
    BY DEF TypeOK
  <1>5. alerts' \in [Ids -> Alert \cup {Free}] /\ alerts'[a] = new
        /\ \A b \in Ids \ {a} : alerts'[b] = alerts[b]
    BY <1>2, <1>3, <1>4
  <1> QED  BY <1>1, <1>2, <1>5 DEF AcknowledgeAlert, Alert, Free

\* Every step keeps the types; the bound on the notices of an alert needs that
\* a pending one was announced in vain only after a mishap.
LEMMA TypeStep ==
    ASSUME TypeOK, ToldPerMishap, [Next]_vars
    PROVE  TypeOK'
  <1>1. /\ reading' \in [Rules -> Readings]
        /\ rules' \in [Rules -> {"absent", "disabled", "enabled"}]
    <2>1. ASSUME NEW r \in Rules, SourceChanges(r)
          PROVE  reading' \in [Rules -> Readings] /\ rules' = rules
      BY <2>1 DEF SourceChanges, TypeOK
    <2>2. ASSUME NEW r \in Rules,
                 DeleteAlertRule(r) \/ \E mode \in {"enabled", "disabled"} : PutAlertRule(r, mode)
          PROVE  reading' = reading /\ rules' \in [Rules -> {"absent", "disabled", "enabled"}]
      BY <2>2 DEF DeleteAlertRule, PutAlertRule, TypeOK
    <2>3. \/ UNCHANGED <<reading, rules>>
          \/ \E r \in Rules :
                \/ SourceChanges(r) \/ DeleteAlertRule(r)
                \/ \E mode \in {"enabled", "disabled"} : PutAlertRule(r, mode)
      BY DEF Next, Evaluation, vars, Tick, BeginEvaluation, PutAlert, PutAlertFails,
             NotifyRecovery, EndEvaluation, RestartMonitor, SkipRule, EvaluateRule,
             ActiveAlertFails, AcknowledgeAlert
    <2> QED  BY <2>1, <2>2, <2>3 DEF TypeOK
  <1> DEFINE Rest == /\ alerts' \in [Ids -> Alert \cup {Free}]
                     /\ eval' \in {Resting} \cup Between \cup Holding
                     /\ mishaps' \in 0..MaxMishaps
                     /\ told' \in [Ids -> 0..(MaxMishaps + 1)]
                     /\ calm' \subseteq Ids
  <1>2. CASE Elsewhere
    <2>1. Rest
      BY <1>2 DEF Elsewhere, TypeOK
    <2> QED  BY <1>1, <2>1 DEF TypeOK
  <1>3. CASE PassOn
    <2>1. mishaps' \in 0..MaxMishaps
      BY <1>3, AlertAssumption DEF PassOn, TypeOK
    <2>2. Rest
      BY <1>3, <2>1 DEF PassOn, TypeOK
    <2> QED  BY <1>1, <2>2 DEF TypeOK
  <1>4. CASE Tick
    <2>1. Rest
      BY <1>4, TickRows DEF Tick, TypeOK
    <2> QED  BY <1>1, <2>1 DEF TypeOK
  <1>5. CASE PutAlert
    <2>1. Rest
      BY <1>5, PutAlertRows, AfterPutType DEF PutAlert, Putting, TypeOK
    <2> QED  BY <1>1, <2>1 DEF TypeOK
  <1>6. CASE PutAlertFails
    <2>1. mishaps' \in 0..MaxMishaps
      BY <1>6, AlertAssumption DEF PutAlertFails, Mishap, TypeOK
    <2>2. Rest
      BY <1>6, <2>1, AfterPutType DEF PutAlertFails, Putting, TypeOK
    <2> QED  BY <1>1, <2>2 DEF TypeOK
  <1>7. ASSUME NEW a \in Ids, AcknowledgeAlert(a)
        PROVE  TypeOK'
    <2>1. Rest
      BY <1>7, AcknowledgeRows DEF TypeOK
    <2> QED  BY <1>1, <2>1 DEF TypeOK
  <1>8. ASSUME NEW r \in Rules, NEW a \in Ids, Raise(r, a)
        PROVE  TypeOK'
    <2>1. eval' \in Holding
      BY <1>8, HoldType DEF Raise, Active
    <2>2. told' \in [Ids -> 0..(MaxMishaps + 1)]
      BY <1>8, AlertAssumption DEF Raise, TypeOK
    <2>3. mishaps' \in 0..MaxMishaps
      BY <1>8, AlertAssumption DEF Raise, TypeOK
    <2>4. Rest
      BY <1>8, <2>1, <2>2, <2>3 DEF Raise, TypeOK
    <2> QED  BY <1>1, <2>4 DEF TypeOK
  <1>9. ASSUME NEW r \in Rules, NEW a \in ActiveOf(r),
               Consider(r, a, Trigger(r, a)) \/ Consider(r, a, Recover(r, a))
        PROVE  TypeOK'
    <2>1. a \in Ids /\ alerts[a] # Free /\ alerts[a].state \in Active
      BY DEF ActiveOf, TypeOK, Alert
    <2>2. eval' \in Holding
      BY <1>9, <2>1, HoldType DEF Consider, Trigger, Recover, Active
    <2>3. told' \in [Ids -> 0..(MaxMishaps + 1)]
      <3>1. ASSUME told' # told
            PROVE  alerts[a].state = "pending" /\ told' = [told EXCEPT ![a] = @ + 1]
        BY <1>9, <3>1 DEF Consider, Trigger, Recover
      <3>2. ASSUME alerts[a].state = "pending"
            PROVE  told[a] <= mishaps
        BY <1>9, <2>1, <3>2 DEF ToldPerMishap, Consider, Announced, Putting
      <3>3. ASSUME told[a] <= mishaps
            PROVE  told[a] + 1 \in 0..(MaxMishaps + 1)
        BY <2>1, <3>3, AlertAssumption DEF TypeOK
      <3> QED  BY <2>1, <3>1, <3>2, <3>3 DEF TypeOK
    <2>4. Rest
      BY <1>9, <2>1, <2>2, <2>3 DEF Consider, Trigger, Recover, TypeOK
    <2> QED  BY <1>1, <2>4 DEF TypeOK
  <1> QED
    BY <1>2, <1>3, <1>4, <1>5, <1>6, <1>7, <1>8, <1>9, StepCases

-----------------------------------------------------------------------------
(* The parts of the invariant, one step at a time.                         *)

\* What the copy may assume of its row survives every step (evaluateAlerts
\* reads the alert, then works on it without looking at the row again).
LEMMA CopyStep ==
    ASSUME TypeOK, CopyOK, [Next]_vars
    PROVE  CopyOK'
  <1>1. CASE Elsewhere
    BY <1>1 DEF Elsewhere, CopyOK, Putting
  <1>2. CASE PassOn
    BY <1>2 DEF PassOn, CopyOK, Putting, Resting, Between
  <1>3. CASE Tick
    <2>1. Putting => eval.id \in Ids
      BY DEF TypeOK, Putting, Resting, Between, Holding
    <2> QED  BY <1>3, <2>1, TickRows DEF CopyOK, Putting
  <1>4. CASE PutAlert \/ PutAlertFails
    <2>1. Putting /\ AfterPut
      BY <1>4 DEF PutAlert, PutAlertFails, Putting
    <2> QED  BY <2>1, AfterPutType DEF CopyOK, Putting, Between
  <1>5. ASSUME NEW a \in Ids, AcknowledgeAlert(a)
        PROVE  CopyOK'
    <2>1. Putting /\ eval.was = "pending" => eval.id # a
      BY <1>5, AcknowledgeRows DEF CopyOK
    <2>2. Putting => eval.id \in Ids
      BY DEF TypeOK, Putting, Resting, Between, Holding
    <2> QED  BY <1>5, <2>1, <2>2, AcknowledgeRows DEF CopyOK, Putting
  <1>6. ASSUME NEW r \in Rules, NEW a \in Ids, Raise(r, a)
        PROVE  CopyOK'
    <2>1. /\ eval'.id = a /\ eval'.was = "pending"
          /\ eval'.state \in {"pending", "firing"}
      BY <1>6, HoldType DEF Raise, Active
    <2> QED  BY <1>6, <2>1 DEF Raise, CopyOK, Putting
  <1>7. ASSUME NEW r \in Rules, NEW a \in ActiveOf(r),
               Consider(r, a, Trigger(r, a)) \/ Consider(r, a, Recover(r, a))
        PROVE  CopyOK'
    <2>1. a \in Ids /\ alerts[a] # Free /\ alerts[a].state \in Active
      BY DEF ActiveOf, TypeOK, Alert
    <2>2. /\ eval'.id = a /\ eval'.was = alerts[a].state
          /\ \/ eval'.state \in {eval'.was, "resolved"}
             \/ eval'.was = "pending" /\ eval'.state = "firing"
      BY <1>7, <2>1, HoldType DEF Consider, Trigger, Recover, Active
    <2> QED  BY <1>7, <2>2 DEF Consider, CopyOK, Putting
  <1> QED
    BY <1>1, <1>2, <1>3, <1>4, <1>5, <1>6, <1>7, StepCases

\* Whatever has fired stays announced (go notifyRule before PutAlert).
LEMMA FiredStep ==
    ASSUME TypeOK, CopyOK, FiredIsTold, [Next]_vars
    PROVE  FiredIsTold'
  <1>1. CASE Elsewhere
    BY <1>1 DEF Elsewhere, FiredIsTold, Putting
  <1>2. CASE PassOn
    BY <1>2 DEF PassOn, FiredIsTold, Putting, Resting, Between
  <1>3. CASE Tick
    <2>1. told' = told
      BY <1>3 DEF Tick
    <2> QED  BY <1>3, <2>1, TickRows DEF FiredIsTold, Putting
  <1>4. CASE PutAlert \/ PutAlertFails
    <2>1. Putting /\ AfterPut /\ told' = told
      BY <1>4 DEF PutAlert, PutAlertFails, Putting
    <2>2. /\ eval'.pc \in {"putting", "recovering"} =>
                eval'.pc = "recovering" /\ eval'.id = eval.id /\ eval'.was = eval.was
                /\ eval.was # "pending"
      BY <2>1, AfterPutType DEF Between
    <2>3. ASSUME NEW a \in Ids, alerts'[a] # Free, alerts'[a].state # "pending"
          PROVE  told[a] > 0
      <3>1. CASE alerts'[a] = alerts[a]
        BY <2>3, <3>1 DEF FiredIsTold
      <3>2. CASE alerts'[a] # alerts[a]
        <4>1. PutAlert /\ a = eval.id /\ eval.state # "resolved" /\ eval.state = alerts'[a].state
          BY <1>4, <2>3, <3>2, PutAlertRows DEF PutAlertFails
        <4>2. eval.state \in Active \cup {"resolved"}
          BY <2>1 DEF TypeOK, Putting, Resting, Between, Holding
        <4> QED  BY <2>1, <2>3, <4>1, <4>2 DEF FiredIsTold, Active
      <3> QED  BY <3>1, <3>2
    <2> QED  BY <2>1, <2>2, <2>3 DEF FiredIsTold, Putting
  <1>5. ASSUME NEW a \in Ids, AcknowledgeAlert(a)
        PROVE  FiredIsTold'
    BY <1>5, AcknowledgeRows DEF FiredIsTold, Putting
  <1>6. ASSUME NEW r \in Rules, NEW a \in Ids, Raise(r, a)
        PROVE  FiredIsTold'
    <2>1. /\ eval'.id = a /\ eval'.was = "pending" /\ eval'.pc = "putting"
          /\ eval'.state = IF ForTicks = 0 THEN "firing" ELSE "pending"
      BY <1>6, HoldType DEF Raise, Active
    <2>2. /\ told'[a] = IF ForTicks = 0 THEN 1 ELSE 0
          /\ \A b \in Ids \ {a} : told'[b] = told[b]
          /\ alerts' = alerts /\ alerts[a] = Free
      BY <1>6 DEF Raise, TypeOK
    <2> QED  BY <2>1, <2>2 DEF FiredIsTold, Putting
  <1>7. ASSUME NEW r \in Rules, NEW a \in ActiveOf(r),
               Consider(r, a, Trigger(r, a)) \/ Consider(r, a, Recover(r, a))
        PROVE  FiredIsTold'
    <2>1. a \in Ids /\ alerts[a] # Free /\ alerts[a].state \in Active /\ alerts' = alerts
      BY <1>7 DEF ActiveOf, TypeOK, Alert, Consider
    <2>2. /\ eval'.id = a /\ eval'.was = alerts[a].state /\ eval'.pc = "putting"
          /\ \/ eval'.state \in {eval'.was, "resolved"} 
             \/ eval'.state = "firing" /\ told' = [told EXCEPT ![a] = @ + 1]
      BY <1>7, <2>1, HoldType DEF Consider, Trigger, Recover, Active
    <2>3. /\ told' = told \/ told' = [told EXCEPT ![a] = @ + 1]
          /\ \A b \in Ids : told[b] \in Nat
      BY <1>7, AlertAssumption DEF Consider, Trigger, Recover, TypeOK
    <2>4. \A b \in Ids : told[b] > 0 => told'[b] > 0
      BY <2>1, <2>3 DEF TypeOK
    <2>5. told' = [told EXCEPT ![a] = @ + 1] => told'[a] > 0
      BY <2>1, <2>3 DEF TypeOK
    <2> QED  BY <2>1, <2>2, <2>4, <2>5 DEF FiredIsTold, Putting
  <1> QED
    BY <1>1, <1>2, <1>3, <1>4, <1>5, <1>6, <1>7, StepCases

\* Every notice but one is paid for by a mishap: the evaluation announces a
\* pending alert, and it stays pending only if the put is lost.
LEMMA ToldStep ==
    ASSUME TypeOK, CopyOK, ToldPerMishap, [Next]_vars
    PROVE  ToldPerMishap'
  <1> DEFINE Vain(a) == alerts[a] # Free /\ alerts[a].state = "pending" /\ ~Announced(a)
  <1>0. mishaps \in Nat /\ \A a \in Ids : told[a] \in Nat
    BY AlertAssumption DEF TypeOK
  <1>1. CASE Elsewhere
    BY <1>1 DEF Elsewhere, ToldPerMishap, ToldOnce, Putting, Announced
  <1>2. CASE PassOn
    <2>1. told' = told /\ alerts' = alerts /\ eval'.pc # "putting"
      BY <1>2 DEF PassOn, Resting, Between
    <2>2. CASE ~Putting /\ mishaps' = mishaps
      BY <2>1, <2>2 DEF ToldPerMishap, ToldOnce, Putting, Announced
    <2>3. CASE mishaps' = mishaps + 1
      BY <2>1, <2>3, <1>0 DEF ToldPerMishap, ToldOnce, Putting, Announced
    <2> QED  BY <1>2, <2>2, <2>3 DEF PassOn
  <1>3. CASE Tick
    <2>1. told' = told /\ mishaps' = mishaps
      BY <1>3 DEF Tick
    <2>2. \A a \in Ids : Vain(a)' => Vain(a)
      BY <1>3, TickRows DEF Announced, Putting
    <2> QED  BY <1>3, <2>1, <2>2, TickRows DEF ToldPerMishap, ToldOnce, Putting
  <1>4. CASE PutAlert
    <2>1. told' = told /\ mishaps' = mishaps /\ Putting /\ eval'.pc # "putting"
      BY <1>4, AfterPutType DEF PutAlert, Putting, Between
    <2>2. ASSUME NEW a \in Ids, alerts'[a] # Free, alerts'[a].state = "pending"
          PROVE  told[a] <= mishaps
      <3>1. CASE a = eval.id
        BY <1>4, <2>1, <2>2, <3>1, PutAlertRows DEF ToldPerMishap
      <3>2. CASE a # eval.id
        BY <1>4, <2>2, <3>2, PutAlertRows DEF ToldPerMishap, Announced
      <3> QED  BY <3>1, <3>2
    <2> QED  BY <2>1, <2>2 DEF ToldPerMishap, ToldOnce, Putting
  <1>5. CASE PutAlertFails
    <2>1. /\ told' = told /\ alerts' = alerts /\ mishaps' = mishaps + 1
          /\ eval'.pc # "putting"
      BY <1>5, AfterPutType DEF PutAlertFails, Mishap, Putting, Between
    <2> QED  BY <2>1, <1>0 DEF ToldPerMishap, ToldOnce, Putting
  <1>6. ASSUME NEW a \in Ids, AcknowledgeAlert(a)
        PROVE  ToldPerMishap'
    <2>1. \A b \in Ids : Vain(b)' => Vain(b)
      BY <1>6, AcknowledgeRows DEF Announced, Putting
    <2> QED  BY <1>6, <2>1, AcknowledgeRows DEF ToldPerMishap, ToldOnce, Putting
  <1>7. ASSUME NEW r \in Rules, NEW a \in Ids, Raise(r, a)
        PROVE  ToldPerMishap'
    <2>1. /\ eval'.id = a /\ eval'.pc = "putting"
          /\ eval'.state = IF ForTicks = 0 THEN "firing" ELSE "pending"
      BY <1>7, HoldType DEF Raise, Active
    <2>2. /\ told'[a] = IF ForTicks = 0 THEN 1 ELSE 0
          /\ \A b \in Ids \ {a} : told'[b] = told[b]
          /\ alerts' = alerts /\ alerts[a] = Free /\ ~Putting
      BY <1>7 DEF Raise, TypeOK, Putting
    <2>3. mishaps' \in Nat /\ mishaps' >= mishaps
      BY <1>7, <1>0 DEF Raise
    <2>4. \A b \in Ids \ {a} : Vain(b)' => Vain(b)
      BY <2>2 DEF Announced
    <2>5. \A b \in Ids : told'[b] <= 1 + mishaps'
      BY <1>0, <2>2, <2>3 DEF ToldPerMishap, ToldOnce
    <2>6. \A b \in Ids : Vain(b)' => told'[b] <= mishaps'
      BY <1>0, <2>2, <2>3, <2>4 DEF ToldPerMishap
    <2>7. eval'.state = "pending" => told'[a] <= mishaps'
      BY <2>1, <2>2, <2>3
    <2> QED  BY <2>1, <2>5, <2>6, <2>7 DEF ToldPerMishap, ToldOnce, Putting
  <1>8. ASSUME NEW r \in Rules, NEW a \in ActiveOf(r),
               Consider(r, a, Trigger(r, a)) \/ Consider(r, a, Recover(r, a))
        PROVE  ToldPerMishap'
    <2>1. /\ a \in Ids /\ alerts[a] # Free /\ alerts[a].state \in Active
          /\ alerts' = alerts /\ mishaps' = mishaps /\ ~Putting
      BY <1>8 DEF ActiveOf, TypeOK, Alert, Consider, Putting
    <2>2. \A b \in Ids : Vain(b)' => Vain(b)
      BY <2>1 DEF Announced
    <2>3. CASE told' = told /\ eval'.id = a
               /\ (eval'.state = "pending" => alerts[a].state = "pending")
      BY <2>1, <2>2, <2>3 DEF ToldPerMishap, ToldOnce, Putting, Announced
    <2>4. CASE /\ told' = [told EXCEPT ![a] = @ + 1] /\ alerts[a].state = "pending"
               /\ eval'.id = a /\ eval'.pc = "putting" /\ eval'.state = "firing"
      <3>1. told[a] <= mishaps
        BY <2>1, <2>4 DEF ToldPerMishap, Announced
      <3>2. told'[a] = told[a] + 1 /\ \A b \in Ids \ {a} : told'[b] = told[b]
        BY <2>1, <2>4 DEF TypeOK
      <3>3. ~Vain(a)'
        BY <2>4 DEF Announced, Putting
      <3>4. \A b \in Ids : told'[b] <= 1 + mishaps
        BY <1>0, <2>1, <3>1, <3>2 DEF ToldPerMishap, ToldOnce
      <3>5. \A b \in Ids : Vain(b)' => told'[b] <= mishaps
        BY <2>2, <3>2, <3>3 DEF ToldPerMishap
      <3> QED  BY <2>1, <2>4, <3>4, <3>5 DEF ToldPerMishap, ToldOnce, Putting
    <2>5. \/ /\ told' = told /\ eval'.id = a
             /\ eval'.state = "pending" => alerts[a].state = "pending"
          \/ /\ told' = [told EXCEPT ![a] = @ + 1] /\ alerts[a].state = "pending"
             /\ eval'.id = a /\ eval'.pc = "putting" /\ eval'.state = "firing"
      BY <1>8, <2>1, HoldType DEF Consider, Trigger, Recover, Active
    <2> QED  BY <2>3, <2>4, <2>5
  <1> QED
    BY <1>1, <1>2, <1>3, <1>4, <1>5, <1>6, <1>7, <1>8, StepCases

\* A recovery that was seen is stored before anything else is made of the
\* alert, unless something fails (Recover, then PutAlert).
LEMMA CalmStep ==
    ASSUME TypeOK, CalmIsOver, [Next]_vars
    PROVE  CalmIsOver'
  <1>0. mishaps \in Nat /\ \A a \in calm : a \in Ids
    BY AlertAssumption DEF TypeOK
  <1> SUFFICES ASSUME mishaps' = 0, mishaps' = mishaps
               PROVE  CalmIsOver'
    <2>1. mishaps' = mishaps \/ mishaps' = mishaps + 1
      BY StepCases DEF Elsewhere, PassOn, Tick, PutAlert, PutAlertFails, Mishap,
                       AcknowledgeAlert, Raise, Consider
    <2> QED  BY <1>0, <2>1 DEF CalmIsOver
  <1>1. CASE Elsewhere
    BY <1>1 DEF Elsewhere, CalmIsOver, Putting
  <1>2. CASE PassOn
    BY <1>0, <1>2 DEF PassOn, CalmIsOver, Putting, Resting, Between
  <1>3. CASE Tick
    <2>1. calm' = calm
      BY <1>3 DEF Tick
    <2> QED  BY <1>0, <1>3, <2>1, TickRows DEF CalmIsOver, Putting
  <1>4. CASE PutAlert
    <2>1. calm' = calm /\ Putting /\ eval'.pc # "putting"
      BY <1>4, AfterPutType DEF PutAlert, Putting, Between
    <2>2. ASSUME NEW a \in calm
          PROVE  alerts'[a] = Free
      <3>1. CASE a = eval.id
        BY <1>4, <2>1, <2>2, <3>1, PutAlertRows DEF CalmIsOver
      <3>2. CASE a # eval.id
        BY <1>0, <1>4, <2>1, <2>2, <3>2, PutAlertRows DEF CalmIsOver
      <3> QED  BY <3>1, <3>2
    <2> QED  BY <2>1, <2>2 DEF CalmIsOver, Putting
  <1>5. CASE PutAlertFails
    BY <1>0, <1>5 DEF PutAlertFails, Mishap
  <1>6. ASSUME NEW a \in Ids, AcknowledgeAlert(a)
        PROVE  CalmIsOver'
    <2>1. \A b \in Ids : alerts'[b] # Free => alerts[b] # Free
      BY <1>6, AcknowledgeRows
    <2> QED  BY <1>0, <1>6, <2>1, AcknowledgeRows DEF CalmIsOver, Putting
  <1>7. ASSUME NEW r \in Rules, NEW a \in Ids, Raise(r, a)
        PROVE  CalmIsOver'
    <2>1. eval'.id = a
      BY <1>7, HoldType DEF Raise, Active
    <2> QED  BY <1>7, <2>1 DEF Raise, CalmIsOver, Putting
  <1>8. ASSUME NEW r \in Rules, NEW a \in ActiveOf(r),
               Consider(r, a, Trigger(r, a)) \/ Consider(r, a, Recover(r, a))
        PROVE  CalmIsOver'
    <2>1. /\ a \in Ids /\ alerts[a] # Free /\ alerts[a].state \in Active
          /\ alerts' = alerts /\ ~Putting
      BY <1>8 DEF ActiveOf, TypeOK, Alert, Consider, Putting
    <2>2. \A b \in calm : alerts[b] = Free
      BY <2>1 DEF CalmIsOver
    <2>3. \/ calm' = calm /\ eval'.id = a
          \/ /\ calm' = calm \cup {a} /\ eval'.id = a
             /\ eval'.pc = "putting" /\ eval'.state = "resolved"
      BY <1>8, <2>1, HoldType DEF Consider, Trigger, Recover, Active
    <2> QED  BY <2>1, <2>2, <2>3 DEF CalmIsOver, Putting
  <1> QED
    BY <1>1, <1>2, <1>3, <1>4, <1>5, <1>6, <1>7, <1>8, StepCases

\* A smaller set of claims on a rule keeps to the bound (no alert is raised).
LEMMA FewerClaims ==
    ASSUME OneClaim, mishaps \in Nat, mishaps' \in Nat, mishaps <= mishaps',
           NEW r \in Rules, Claimed(r)' \subseteq Claimed(r)
    PROVE  Cardinality(Claimed(r)') <= 1 + mishaps'
  <1>1. IsFiniteSet(Claimed(r))
    BY FS_Subset, AlertAssumption DEF Claimed, ActiveOf
  <1>2. /\ Cardinality(Claimed(r)') <= Cardinality(Claimed(r))
        /\ IsFiniteSet(Claimed(r)')
    BY <1>1, FS_Subset
  <1>3. Cardinality(Claimed(r)) \in Nat /\ Cardinality(Claimed(r)') \in Nat
    BY <1>1, <1>2, FS_CardinalityType
  <1>4. Cardinality(Claimed(r)) <= 1 + mishaps
    BY DEF OneClaim
  <1> QED  BY <1>2, <1>3, <1>4

\* A rule gets a second alert only when its first was not found (ActiveAlert
\* takes any error for "no active alert").
LEMMA ClaimStep ==
    ASSUME TypeOK, OneClaim, [Next]_vars
    PROVE  OneClaim'
  <1>0. mishaps \in Nat
    BY AlertAssumption DEF TypeOK
  <1> DEFINE NoNewClaim == /\ mishaps' = mishaps \/ mishaps' = mishaps + 1
                           /\ \A r \in Rules : Claimed(r)' \subseteq Claimed(r)
  <1>1. ASSUME NoNewClaim
        PROVE  OneClaim'
    BY <1>0, <1>1, FewerClaims DEF OneClaim
  <1>2. CASE Elsewhere
    <2>1. NoNewClaim
      BY <1>2 DEF Elsewhere, Claimed, ActiveOf, Putting
    <2> QED  BY <1>1, <2>1
  <1>3. CASE PassOn
    <2>1. alerts' = alerts /\ eval'.pc # "putting"
      BY <1>3 DEF PassOn, Resting, Between
    <2>2. NoNewClaim
      BY <1>3, <2>1 DEF PassOn, Claimed, ActiveOf, Putting
    <2> QED  BY <1>1, <2>2
  <1>4. CASE Tick
    <2>1. NoNewClaim
      BY <1>4, TickRows DEF Tick, Claimed, ActiveOf, Putting
    <2> QED  BY <1>1, <2>1
  <1>5. CASE PutAlert
    <2>1. mishaps' = mishaps /\ Putting /\ eval'.pc # "putting"
      BY <1>5, AfterPutType DEF PutAlert, Putting, Between
    <2>2. ASSUME NEW r \in Rules, NEW a \in Ids, alerts'[a] # Free, alerts'[a].rule = r
          PROVE  a \in Claimed(r)
      <3>1. CASE alerts[a] # Free
        BY <1>5, <2>2, <3>1, PutAlertRows DEF Claimed, ActiveOf
      <3>2. CASE alerts[a] = Free
        <4>1. a = eval.id /\ eval.state # "resolved" /\ eval.rule = r
          BY <1>5, <2>2, <3>2, PutAlertRows
        <4> QED  BY <2>1, <4>1 DEF Claimed
      <3> QED  BY <3>1, <3>2
    <2>3. NoNewClaim
      BY <2>1, <2>2 DEF Claimed, ActiveOf, Putting
    <2> QED  BY <1>1, <2>3
  <1>6. CASE PutAlertFails
    <2>1. alerts' = alerts /\ mishaps' = mishaps + 1 /\ eval'.pc # "putting"
      BY <1>6, AfterPutType DEF PutAlertFails, Mishap, Putting, Between
    <2>2. NoNewClaim
      BY <2>1 DEF Claimed, ActiveOf, Putting
    <2> QED  BY <1>1, <2>2
  <1>7. ASSUME NEW a \in Ids, AcknowledgeAlert(a)
        PROVE  OneClaim'
    <2>1. \A b \in Ids : /\ alerts'[b] # Free => alerts[b] # Free
                         /\ alerts'[b] # Free => alerts'[b].rule = alerts[b].rule
      BY <1>7, AcknowledgeRows
    <2>2. NoNewClaim
      BY <1>7, <2>1, AcknowledgeRows DEF Claimed, ActiveOf, Putting
    <2> QED  BY <1>1, <2>2
  <1>8. ASSUME NEW q \in Rules, NEW a \in Ids, Raise(q, a)
        PROVE  OneClaim'
    <2>1. /\ eval'.pc = "putting" /\ eval'.id = a /\ eval'.rule = q
          /\ eval'.state # "resolved" /\ alerts' = alerts /\ ~Putting
      BY <1>8, HoldType DEF Raise, Active, Putting
    <2>2. \A r \in Rules : Claimed(r) = ActiveOf(r)
      BY <2>1 DEF Claimed
    <2>3. \A r \in Rules : Claimed(r)' = Claimed(r) \cup IF r = q THEN {a} ELSE {}
      BY <2>1, <2>2 DEF Claimed, ActiveOf, Putting
    <2>4. mishaps' \in Nat /\ mishaps <= mishaps'
      BY <1>0, <1>8 DEF Raise
    <2>5. ASSUME NEW r \in Rules, r # q
          PROVE  Cardinality(Claimed(r)') <= 1 + mishaps'
      BY <1>0, <2>3, <2>4, <2>5, FewerClaims
    <2>6. Cardinality(Claimed(q)') <= 1 + mishaps'
      <3>1. CASE ActiveOf(q) = {} /\ mishaps' = mishaps
        <4>1. Claimed(q)' = {a}
          BY <2>2, <2>3, <3>1
        <4>2. Cardinality({a}) = 1
          BY FS_Singleton
        <4> QED  BY <1>0, <3>1, <4>1, <4>2
      <3>2. CASE mishaps' = mishaps + 1
        <4>1. IsFiniteSet(Claimed(q)) /\ Cardinality(Claimed(q)) \in Nat
          BY FS_Subset, FS_CardinalityType, AlertAssumption DEF Claimed, ActiveOf
        <4>2. Claimed(q)' = Claimed(q) \cup {a}
          BY <2>3
        <4>3. Cardinality(Claimed(q)') <= Cardinality(Claimed(q)) + 1
          BY <4>1, <4>2, FS_AddElement
        <4>4. Cardinality(Claimed(q)') \in Nat
          BY <4>1, <4>2, FS_AddElement, FS_CardinalityType
        <4>5. Cardinality(Claimed(q)) <= 1 + mishaps
          BY DEF OneClaim
        <4> QED  BY <1>0, <3>2, <4>1, <4>3, <4>4, <4>5
      <3> QED  BY <1>8, <3>1, <3>2 DEF Raise
    <2> QED  BY <2>5, <2>6 DEF OneClaim
  <1>9. ASSUME NEW q \in Rules, NEW a \in ActiveOf(q),
               Consider(q, a, Trigger(q, a)) \/ Consider(q, a, Recover(q, a))
        PROVE  OneClaim'
    <2>1. /\ a \in Ids /\ alerts[a].state \in Active
          /\ alerts' = alerts /\ mishaps' = mishaps
      BY <1>9 DEF ActiveOf, TypeOK, Alert, Consider
    <2>2. eval'.pc = "putting" /\ eval'.id = a /\ eval'.rule = q
      BY <1>9, <2>1, HoldType DEF Consider, Trigger, Recover, Active
    <2>3. NoNewClaim
      BY <2>1, <2>2 DEF Claimed, ActiveOf, Putting
    <2> QED  BY <1>1, <2>3
  <1> QED
    BY <1>2, <1>3, <1>4, <1>5, <1>6, <1>7, <1>8, <1>9, StepCases

-----------------------------------------------------------------------------
(* The theorems.                                                           *)

\* The initial state has no rule, no alert and no copy.
LEMMA AlertInit == Init => AlertInv /\ OneClaim
  <1> SUFFICES ASSUME Init PROVE AlertInv /\ OneClaim
    OBVIOUS
  <1>1. AlertInv
    BY AlertAssumption
       DEF Init, AlertInv, TypeOK, CopyOK, FiredIsTold, ToldPerMishap, ToldOnce, CalmIsOver,
           Readings, Resting, Putting, Announced
  <1>2. \A r \in Rules : Claimed(r) = {}
    BY DEF Init, Claimed, ActiveOf, Putting, Resting
  <1>3. OneClaim
    BY <1>2, FS_EmptySet DEF Init, OneClaim
  <1> QED  BY <1>1, <1>3

\* The invariant of the alert engine: what a copy of an alert, taken before an
\* acknowledgement, a failed statement or a restart, may still assume.
THEOREM AlertInvariant == Spec => [](AlertInv /\ OneClaim)
  <1>1. AlertInv /\ OneClaim /\ [Next]_vars => AlertInv' /\ OneClaim'
    BY TypeStep, CopyStep, FiredStep, ToldStep, CalmStep, ClaimStep DEF AlertInv
  <1> QED  BY <1>1, AlertInit, PTL DEF Spec

\* The administrators are told at most once that an alert fires, and once more
\* for every mishap (evaluateAlerts notifies before it stores the state).
THEOREM FiringIsToldOnce == Spec => []ToldOnce
  <1>1. AlertInv => ToldOnce
    BY DEF AlertInv, ToldPerMishap
  <1> QED  BY <1>1, AlertInvariant, PTL

\* They are told of a recovery only after they were told of the firing
\* (evaluateAlerts notifies a recovery when the stored state was firing).
THEOREM RecoveryIsToldAfter == Spec => []RecoveryFollowsFiring
  <1>1. AlertInv => RecoveryFollowsFiring
    BY DEF AlertInv, FiredIsTold, RecoveryFollowsFiring
  <1> QED  BY <1>1, AlertInvariant, PTL

\* Where no statement failed, an alert whose source was seen below its threshold
\* does not fire (evaluateAlerts resolves it first).
THEOREM CalmAlertsDoNotFire == Spec => []FiresAfterHolding
  <1>1. AlertInv => FiresAfterHolding
    BY DEF AlertInv, CalmIsOver, FiresAfterHolding, Putting
  <1> QED  BY <1>1, AlertInvariant, PTL

\* A rule has one active alert, and one more for every time that reading it
\* failed (ActiveAlert).
THEOREM OneAlertPerRule == Spec => []OneActiveAlert
  <1>1. TypeOK /\ OneClaim => OneActiveAlert
    <2> SUFFICES ASSUME TypeOK, OneClaim, NEW r \in Rules
                 PROVE  Cardinality(ActiveOf(r)) <= 1 + mishaps
      BY DEF OneActiveAlert, ActiveOf
    <2>1. ActiveOf(r) \subseteq Claimed(r) /\ IsFiniteSet(Claimed(r))
      BY FS_Subset, AlertAssumption DEF Claimed, ActiveOf
    <2>2. Cardinality(ActiveOf(r)) <= Cardinality(Claimed(r)) /\ IsFiniteSet(ActiveOf(r))
      BY <2>1, FS_Subset
    <2>3. Cardinality(ActiveOf(r)) \in Nat /\ Cardinality(Claimed(r)) \in Nat
      BY <2>1, <2>2, FS_CardinalityType
    <2>4. mishaps \in Nat /\ Cardinality(Claimed(r)) <= 1 + mishaps
      BY AlertAssumption DEF TypeOK, OneClaim
    <2> QED  BY <2>2, <2>3, <2>4
  <1> QED  BY <1>1, AlertInvariant, PTL DEF AlertInv

\* An acknowledgement is undone only by an evaluation that had read the alert
\* firing before it (PutAlert writes its whole copy back).
THEOREM AcknowledgementsHold == Spec => AcknowledgementLostInFlight
  <1> DEFINE Undone(a) == /\ alerts[a] # Free /\ alerts[a].state = "acknowledged"
                          /\ alerts'[a] # Free /\ alerts'[a].state # "acknowledged"
  <1>1. ASSUME AlertInv, [Next]_vars, NEW a \in Ids, Undone(a)
        PROVE  eval.pc = "putting" /\ eval.was = "firing"
    <2>1. TypeOK /\ CopyOK
      BY <1>1 DEF AlertInv
    <2>2. PutAlert
      <3>1. ASSUME Tick PROVE FALSE
        BY <1>1, <2>1, <3>1, TickRows
      <3>2. ASSUME NEW b \in Ids, AcknowledgeAlert(b) PROVE FALSE
        BY <1>1, <2>1, <3>2, AcknowledgeRows
      <3>3. alerts' # alerts
        BY <1>1
      <3> QED  BY <1>1, <2>1, <3>1, <3>2, <3>3, StepCases
               DEF Elsewhere, PassOn, PutAlertFails, Raise, Consider
    <2>3. a = eval.id /\ eval.state # "resolved" /\ eval.state # "acknowledged"
      BY <1>1, <2>1, <2>2, PutAlertRows
    <2>4. Putting /\ eval.was \in Active
      BY <2>1, <2>2 DEF PutAlert, Putting, TypeOK, Resting, Between, Holding
    <2> QED  BY <1>1, <2>1, <2>3, <2>4 DEF CopyOK, Putting, Active
  <1>2. AlertInv /\ [Next]_vars =>
          [\A a \in Ids : Undone(a) => eval.pc = "putting" /\ eval.was = "firing"]_vars
    BY <1>1
  <1> QED  BY <1>2, AlertInvariant, PTL DEF Spec, AcknowledgementLostInFlight
=============================================================================
