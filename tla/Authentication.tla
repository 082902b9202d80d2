--------------------------- MODULE Authentication ---------------------------
(***************************************************************************)
(* Both halves of authentication: the login handlers with their bans       *)
(* (LoginGuard), and the sessions they create (Sessions).  A login hands   *)
(* over nothing but the new row, whose token is random, and neither half   *)
(* reads a table of the other: a behaviour follows one of them, chosen in  *)
(* its initial state, and the clocks are apart because their ticks differ. *)
(***************************************************************************)
EXTENDS LoginGuard

CONSTANTS Tokens, Peers, Requests, Streams, Idle, Absolute, Retention, LoginUntil,
          MaxSessionTime

ASSUME SessionAssumption ==
    /\ {Idle, Absolute, Retention, LoginUntil, MaxSessionTime} \subseteq Nat
    /\ Idle <= Absolute /\ Absolute < Retention

VARIABLES half, sessionNow, rows, request, streamOf, issued, ended, lastUse

Session == INSTANCE Sessions WITH now <- sessionNow, MaxTime <- MaxSessionTime

sessions == <<sessionNow, rows, request, streamOf, issued, ended, lastUse>>
both     == <<half, vars, sessions>>

AuthenticationInit == half \in {"logins", "sessions"} /\ Init /\ Session!Init

InSessions(A) == half = "sessions" /\ A /\ UNCHANGED <<half, vars>>

AuthenticationNext == \/ half = "logins" /\ Next /\ UNCHANGED <<half, sessions>>
                      \/ InSessions(Session!Next)

\* The fairness of Sessions: time passes, and the goroutine of a stream runs.
AuthenticationSpec ==
    /\ AuthenticationInit /\ [][AuthenticationNext]_both
    /\ WF_both(InSessions(Session!Tick))
    /\ \A s \in Streams : /\ WF_both(InSessions(Session!AuthTick(s)))
                          /\ WF_both(InSessions(Session!DeleteExpired(s)))

-----------------------------------------------------------------------------
\* No request is served that began after its session had ended, by logout,
\* expiry or a refused request (requireAuth and Store.Session; see Sessions).
NoEntryAfterEnd == Session!NoEntryAfterEnd

\* No request is served that began more than Idle after the latest request of its
\* session, however long its stream has been open (SessionActive; see Sessions).
ServedWhileActive == Session!ServedWhileActive

\* A stream never shows telemetry for ever to a browser that has logged out or
\* whose session has run out (authTick in stream; see Sessions).
StreamsEnd == Session!StreamsEnd
=============================================================================
