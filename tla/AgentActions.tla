---------------------------- MODULE AgentActions ----------------------------
(***************************************************************************)
(* The two parts that change files through actions of the agent:           *)
(* destinations with the notices sent to them (AlertNotices) and schedules *)
(* (Schedules).  They share nothing, so a behaviour follows one of them.   *)
(***************************************************************************)
EXTENDS AlertNotices

CONSTANTS Jobs, Requests, None

ASSUME ScheduleAssumption == None \notin Requests

VARIABLES part, service, timer, wanted, active, request, answer, overlapped, halved, unstopped

Schedule == INSTANCE Schedules

schedules == <<service, timer, wanted, active, request, answer, overlapped, halved, unstopped>>

PartInit == part \in {"destinations", "schedules"} /\ NoticeInit /\ Schedule!Init
PartNext == \/ part = "destinations" /\ NoticeNext /\ UNCHANGED <<part, schedules>>
            \/ part = "schedules" /\ Schedule!Next /\ UNCHANGED <<part, allVars>>

PartSpec == PartInit /\ [][PartNext]_<<part, allVars, schedules>>

\* What an administrator was told of a schedule stays true until the next request
\* for it; see Schedules (createSchedule and deleteSchedule in agent/server.go).
AnswersHold == Schedule!AnswersHold

\* A running timer has both its files, and both of one request, except after what
\* Schedules names (createSchedule in agent/server.go undoes nothing).
RunningIsWhole == Schedule!TypeOK /\ Schedule!RunningIsWhole
=============================================================================
