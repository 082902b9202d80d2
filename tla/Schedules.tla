------------------------------ MODULE Schedules ------------------------------
(****************************************************************************)
(* Managed schedules.  A schedule is a .service and a .timer file that the  *)
(* agent writes below /etc/systemd/system and then has systemd read and     *)
(* enable, one command after another (createSchedule, deleteSchedule and    *)
(* the schedule.* actions in agent/server.go).  No lock orders requests for *)
(* the same job, and nothing is undone when a step fails; a request whose   *)
(* client has gone fails all its commands, but not its file operations.     *)
(*                                                                          *)
(* What a create request asks for (command, user, calendar) is the request  *)
(* itself, so that a file tells whose wish it is.  schedule.run starts the  *)
(* service once and keeps no state.                                         *)
(****************************************************************************)
EXTENDS Naturals, FiniteSets

CONSTANTS Jobs,       \* job names
          Requests,   \* requests to the agent, each made once
          None        \* no file

VARIABLES
    service,    \* the .service file of each job: the request that wrote it
    timer,      \* the .timer file
    wanted,     \* the link in timers.target.wants
    active,     \* the timer runs
    request,    \* the handlers in the agent
    \* observations
    answer,     \* what the last request of each job was answered, while it is the last
    overlapped, \* jobs that several requests have been at work on at once
    halved,     \* jobs left with one file renewed or removed and not the other
    unstopped   \* jobs whose disable failed in a delete, and was ignored

files   == <<service, timer>>
systemd == <<wanted, active>>
seen    == <<answer, overlapped, halved, unstopped>>
vars    == <<files, systemd, request, seen>>

Commands == {"service", "timer", "reload", "enable", "toggle on", "toggle off",
             "stop", "remove timer", "remove service", "last reload"}
Unasked  == [pc |-> "new"]
Ended    == [pc |-> "ended"]
AtWork   == [pc : Commands, job : Jobs]

TypeOK ==
    /\ {service, timer} \subseteq [Jobs -> Requests \cup {None}]
    /\ {wanted, active} \subseteq [Jobs -> BOOLEAN]
    /\ request \in [Requests -> {Unasked, Ended} \cup AtWork]
    /\ answer \in [Jobs -> {"none", "created", "deleted"}]
    /\ {overlapped, halved, unstopped} \subseteq SUBSET Jobs

Init ==
    /\ service = [j \in Jobs |-> None] /\ timer = service
    /\ wanted = [j \in Jobs |-> FALSE] /\ active = wanted
    /\ request = [r \in Requests |-> Unasked]
    /\ answer = [j \in Jobs |-> "none"]
    /\ overlapped = {} /\ halved = {} /\ unstopped = {}

-----------------------------------------------------------------------------
(* The agent.                                                              *)

WorkingOn(j) == {r \in Requests : request[r] \in [pc : Commands, job : {j}]}

At(r, j, pc) == request[r] = [pc |-> pc, job |-> j]
GoTo(r, pc)  == request' = [request EXCEPT ![r].pc = pc]
End(r)       == request' = [request EXCEPT ![r] = Ended]

\* An action arrives at the agent, which starts with its first command.
Begin(r, j, first) ==
    /\ request[r] = Unasked
    /\ request' = [request EXCEPT ![r] = [pc |-> first, job |-> j]]
    /\ overlapped' = IF WorkingOn(j) = {} THEN overlapped ELSE overlapped \cup {j}
    /\ answer' = [answer EXCEPT ![j] = "none"]
    /\ UNCHANGED <<files, systemd, halved, unstopped>>

\* Seeded: a delete does not disable the timer first.
DeleteSchedule_Unstopped(r, j) == Begin(r, j, "remove timer")

\* Names, executable, user, calendar and arguments have been validated.
CreateSchedule(r, j) == Begin(r, j, "service")
DeleteSchedule(r, j) == Begin(r, j, "stop")
ToggleSchedule(r, j) == Begin(r, j, "toggle on") \/ Begin(r, j, "toggle off")

\* atomicWrite renames a complete temporary file into place.
WriteService(r, j) ==
    /\ At(r, j, "service") /\ GoTo(r, "timer")
    /\ service' = [service EXCEPT ![j] = r]
    /\ halved' = halved \cup {j}
    /\ UNCHANGED <<timer, systemd, answer, overlapped, unstopped>>

WriteTimer(r, j) ==
    /\ At(r, j, "timer") /\ GoTo(r, "reload")
    /\ timer' = [timer EXCEPT ![j] = r]
    /\ halved' = halved \ {j}
    /\ UNCHANGED <<service, systemd, answer, overlapped, unstopped>>

\* systemctl daemon-reload changes nothing that is modelled, but may fail.
Reload(r, j) ==
    /\ At(r, j, "reload") /\ GoTo(r, "enable")
    /\ UNCHANGED <<files, systemd, seen>>

\* systemctl enable --now links the timer, reads the unit files and starts the
\* timer, all of it only if both units are there.
Enabled(j) == /\ timer[j] # None /\ service[j] # None
              /\ wanted' = [wanted EXCEPT ![j] = TRUE]
              /\ active' = [active EXCEPT ![j] = TRUE]

\* systemctl disable --now.
Disabled(j) == /\ timer[j] # None
               /\ wanted' = [wanted EXCEPT ![j] = FALSE]
               /\ active' = [active EXCEPT ![j] = FALSE]

Enable(r, j) ==
    /\ At(r, j, "enable") /\ End(r)
    /\ Enabled(j)
    /\ answer' = [answer EXCEPT ![j] = "created"]
    /\ UNCHANGED <<files, overlapped, halved, unstopped>>

Toggle(r, j) ==
    /\ \/ At(r, j, "toggle on") /\ Enabled(j)
       \/ At(r, j, "toggle off") /\ Disabled(j)
    /\ End(r)
    /\ UNCHANGED <<files, seen>>

Stop(r, j) ==
    /\ At(r, j, "stop") /\ GoTo(r, "remove timer")
    /\ Disabled(j)
    /\ unstopped' = unstopped \ {j}
    /\ UNCHANGED <<files, answer, overlapped, halved>>

\* deleteSchedule ignores an error of disable, which may come before or after
\* the link was removed, and goes on to remove the files.
StopFails(r, j) ==
    /\ At(r, j, "stop") /\ GoTo(r, "remove timer")
    /\ wanted' \in {wanted, [wanted EXCEPT ![j] = FALSE]}
    /\ unstopped' = IF active[j] THEN unstopped \cup {j} ELSE unstopped
    /\ UNCHANGED <<files, active, answer, overlapped, halved>>

\* A file that is not there is no error.
RemoveTimer(r, j) ==
    /\ At(r, j, "remove timer") /\ GoTo(r, "remove service")
    /\ timer' = [timer EXCEPT ![j] = None]
    /\ halved' = IF service[j] = None THEN halved ELSE halved \cup {j}
    /\ UNCHANGED <<service, systemd, answer, overlapped, unstopped>>

RemoveService(r, j) ==
    /\ At(r, j, "remove service") /\ GoTo(r, "last reload")
    /\ service' = [service EXCEPT ![j] = None]
    /\ halved' = halved \ {j}
    /\ UNCHANGED <<timer, systemd, answer, overlapped, unstopped>>

LastReload(r, j) ==
    /\ At(r, j, "last reload") /\ End(r)
    /\ answer' = [answer EXCEPT ![j] = "deleted"]
    /\ UNCHANGED <<files, systemd, overlapped, halved, unstopped>>

\* Seeded: a create goes on when the timer could not be written.
StepFails_Swallowed(r, j) ==
    /\ request[r] \in [pc : Commands \ {"stop"}, job : {j}]
    /\ IF At(r, j, "timer") THEN GoTo(r, "reload") ELSE End(r)
    /\ UNCHANGED <<files, systemd, seen>>

\* Any other step fails: the answer is an error and what was done stays done.
\* A failed enable or disable may have changed the link.
StepFails(r, j) ==
    /\ request[r] \in [pc : Commands \ {"stop"}, job : {j}]
    /\ \/ UNCHANGED wanted
       \/ /\ request[r].pc \in {"enable", "toggle on"} /\ timer[j] # None
          /\ wanted' = [wanted EXCEPT ![j] = TRUE]
       \/ request[r].pc = "toggle off" /\ wanted' = [wanted EXCEPT ![j] = FALSE]
    /\ End(r)
    /\ UNCHANGED <<files, active, seen>>

\* The agent dies with its handlers; files and systemd stay as they are.
RestartAgent ==
    /\ \E j \in Jobs : WorkingOn(j) # {}
    /\ request' = [r \in Requests |-> IF request[r] = Unasked THEN Unasked ELSE Ended]
    /\ UNCHANGED <<files, systemd, seen>>

Next ==
    \/ RestartAgent
    \/ \E r \in Requests, j \in Jobs :
          \/ CreateSchedule(r, j) \/ DeleteSchedule(r, j) \/ ToggleSchedule(r, j)
          \/ WriteService(r, j) \/ WriteTimer(r, j) \/ Reload(r, j)
          \/ Enable(r, j) \/ Toggle(r, j)
          \/ Stop(r, j) \/ StopFails(r, j)
          \/ RemoveTimer(r, j) \/ RemoveService(r, j) \/ LastReload(r, j)
          \/ StepFails(r, j)

Spec == Init /\ [][Next]_vars

-----------------------------------------------------------------------------
(* Properties.                                                             *)

Whole(j)   == service[j] = timer[j] /\ service[j] # None
Removed(j) == service[j] = None /\ timer[j] = None

\* What an administrator was told of a job stays true until the next request
\* for it, whatever happens to other jobs and to the agent: a created schedule
\* runs from the two files of that request, a deleted one has left nothing.
\* Only requests for one job that overlap, which nothing in the agent prevents,
\* and the ignored error of disable take that away.
AnswersHold ==
    \A j \in Jobs \ overlapped :
        /\ answer[j] = "created" => Whole(j) /\ wanted[j] /\ active[j]
        /\ answer[j] = "deleted" => /\ Removed(j)
                                    /\ active[j] => j \in unstopped

\* A running timer has both its files, and both of one request, unless a create
\* or delete stopped half-way (createSchedule undoes nothing), a disable failed
\* unnoticed in a delete, or requests for the job overlapped.
RunningIsWhole ==
    \A j \in Jobs \ (overlapped \cup unstopped) :
        active[j] => \/ Whole(j)
                     \/ j \in halved /\ timer[j] # None /\ service[j] # None
==============================================================================
