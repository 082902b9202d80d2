------------------------------ MODULE Sessions ------------------------------
(***************************************************************************)
(* Browser sessions: requests that select, judge and then touch a session  *)
(* row in separate statements (requireAuth in app/server.go, Session and   *)
(* DeleteSession in store/store.go), logouts, and the live streams that    *)
(* outlive the request which opened them and are revalidated by a timer.   *)
(*                                                                         *)
(* One tick is the idle limit of 30 minutes.  A token is random, so it is  *)
(* issued once; a browser may go on sending it after its row is gone.      *)
(***************************************************************************)
EXTENDS Naturals

CONSTANTS Tokens,      \* session cookies
          Peers,       \* peer addresses
          Requests,    \* authenticated requests in progress at once
          Streams,     \* live streams at once
          Idle,        \* SessionIdle
          Absolute,    \* SessionAbsolute
          Retention,   \* ticks before the prune deletes a row (24 hours)
          LoginUntil,  \* bound on the time of a login
          MaxTime      \* bound on the clock

VARIABLES
    now,       \* the wall clock
    rows,      \* the sessions table, or none for a token without a row
    request,   \* the requests inside requireAuth or behind it
    streamOf,  \* the live streams
    \* observations, read by the properties only
    issued,    \* tokens that CreateSession has inserted
    ended,     \* tokens whose row has been deleted
    lastUse    \* the latest time at which a request that found its row began

vars == <<now, rows, request, streamOf, issued, ended, lastUse>>

Times    == 0..MaxTime
None     == [ip |-> "none"]
Row      == [ip : Peers, created : Times, seen : Times]
Away     == [pc |-> "idle"]
Inside   == [pc : {"begun", "admitted", "refused", "serving"}, token : Tokens,
             ip : Peers, at : Times, late : BOOLEAN, same : BOOLEAN]
Closed   == [pc |-> "closed"]
Live     == [pc : {"open", "expired"}, token : Tokens, ip : Peers]

TypeOK ==
    /\ now \in Times
    /\ rows \in [Tokens -> Row \cup {None}]
    /\ request \in [Requests -> {Away} \cup Inside]
    /\ streamOf \in [Streams -> {Closed} \cup Live]
    /\ issued \subseteq Tokens /\ ended \subseteq issued
    /\ lastUse \in [Tokens -> Times]
    /\ \A k \in Tokens : rows[k] # None => rows[k].seen \in rows[k].created..now

Init ==
    /\ now = 0
    /\ rows = [k \in Tokens |-> None]
    /\ request = [r \in Requests |-> Away]
    /\ streamOf = [s \in Streams |-> Closed]
    /\ issued = {} /\ ended = {}
    /\ lastUse = [k \in Tokens |-> 0]

HasRow(k) == rows[k] # None

\* session() judges the row it selected by a clock read before the select.
Expired(row, at) == at > row.created + Absolute \/ at > row.seen + Idle

\* DELETE FROM sessions WHERE token_hash=?, whose error nobody looks at.
Delete(k) ==
    \/ /\ rows' = [rows EXCEPT ![k] = None]
       /\ ended' = IF HasRow(k) THEN ended \cup {k} ELSE ended
    \/ UNCHANGED <<rows, ended>>

-----------------------------------------------------------------------------
(* Logins and requests.                                                    *)

\* CreateSession, at the end of a login (module LoginGuard).
Login(k, ip) ==
    /\ k \notin issued
    /\ now <= LoginUntil
    /\ rows' = [rows EXCEPT ![k] = [ip |-> ip, created |-> now, seen |-> now]]
    /\ issued' = issued \cup {k}
    /\ lastUse' = [lastUse EXCEPT ![k] = now]
    /\ UNCHANGED <<now, request, streamOf, ended>>

\* A request carries a cookie and reads time.Now(); 'late' observes that the
\* session had ended before the request began.
BeginRequest(r, k, ip) ==
    /\ request[r] = Away
    /\ k \in issued
    /\ request' = [request EXCEPT ![r] = [pc |-> "begun", token |-> k, ip |-> ip,
                      at |-> now, late |-> k \in ended, same |-> FALSE]]
    /\ UNCHANGED <<now, rows, streamOf, issued, ended, lastUse>>

\* The SELECT of session(): no row, or one that is over, refuses the request.
SelectRow(r) ==
    LET q   == request[r]
        row == rows[q.token]
        ok  == HasRow(q.token) /\ ~Expired(row, q.at)
    IN  /\ q.pc = "begun"
        /\ request' = [request EXCEPT ![r].pc = IF ok THEN "admitted" ELSE "refused",
                                      ![r].same = ok /\ row.ip = q.ip]
        /\ UNCHANGED <<now, rows, streamOf, issued, ended, lastUse>>

\* The SELECT fails (the database is busy): the request is refused as well.
SelectFails(r) ==
    /\ request[r].pc = "begun"
    /\ request' = [request EXCEPT ![r].pc = "refused"]
    /\ UNCHANGED <<now, rows, streamOf, issued, ended, lastUse>>

\* After the UPDATE requireAuth compares the address of the row it selected.
Judge(r) ==
    LET q == request[r]
    IN  /\ request' = [request EXCEPT ![r].pc = IF q.same THEN "serving" ELSE "refused"]
        /\ lastUse' = [lastUse EXCEPT ![q.token] = IF q.at > @ THEN q.at ELSE @]

\* Seeded: the touch is an upsert and brings a deleted row back.
Touch_Upserts(r) ==
    LET q == request[r]
    IN  /\ q.pc = "admitted"
        /\ rows' = [rows EXCEPT ![q.token] =
                      IF @ = None THEN [ip |-> q.ip, created |-> q.at, seen |-> q.at]
                      ELSE [@ EXCEPT !.seen = q.at]]
        /\ Judge(r)
        /\ UNCHANGED <<now, streamOf, issued, ended>>

\* The UPDATE of Session: it writes the clock read at the start of the
\* request, and touches nothing when the row has gone since the SELECT.
Touch(r) ==
    LET q == request[r]
    IN  /\ q.pc = "admitted"
        /\ rows' = IF HasRow(q.token) THEN [rows EXCEPT ![q.token].seen = q.at] ELSE rows
        /\ Judge(r)
        /\ UNCHANGED <<now, streamOf, issued, ended>>

\* The error of the UPDATE is ignored.
TouchFails(r) ==
    /\ request[r].pc = "admitted"
    /\ Judge(r)
    /\ UNCHANGED <<now, rows, streamOf, issued, ended>>

\* Whatever the reason, a refused request deletes the row of its cookie.
Refuse(r) ==
    /\ request[r].pc = "refused"
    /\ Delete(request[r].token)
    /\ request' = [request EXCEPT ![r] = Away]
    /\ UNCHANGED <<now, streamOf, issued, lastUse>>

\* An ordinary request is answered (or refused its CSRF check).
Respond(r) ==
    /\ request[r].pc = "serving"
    /\ request' = [request EXCEPT ![r] = Away]
    /\ UNCHANGED <<now, rows, streamOf, issued, ended, lastUse>>

\* POST /auth/logout answers ok whether or not the row is gone.
Logout(r) ==
    /\ request[r].pc = "serving"
    /\ Delete(request[r].token)
    /\ request' = [request EXCEPT ![r] = Away]
    /\ UNCHANGED <<now, streamOf, issued, lastUse>>

-----------------------------------------------------------------------------
(* Live streams.                                                           *)

\* GET /stream turns its request into a stream of the same cookie and peer.
OpenStream(r, s) ==
    /\ request[r].pc = "serving"
    /\ streamOf[s] = Closed
    /\ streamOf' = [streamOf EXCEPT ![s] =
                      [pc |-> "open", token |-> request[r].token, ip |-> request[r].ip]]
    /\ request' = [request EXCEPT ![r] = Away]
    /\ UNCHANGED <<now, rows, issued, ended, lastUse>>

\* Seeded: a missing row is taken for a passing error of the database.
AuthTick_Forgiving(s) ==
    LET k == streamOf[s].token
    IN  /\ streamOf[s].pc = "open"
        /\ streamOf' = IF HasRow(k) /\ Expired(rows[k], now)
                         THEN [streamOf EXCEPT ![s].pc = "expired"]
                         ELSE streamOf
        /\ UNCHANGED <<now, rows, request, issued, ended, lastUse>>

\* Seeded: the stream keeps its session alive.
AuthTick_Touches(s) ==
    LET k == streamOf[s].token
    IN  /\ streamOf[s].pc = "open"
        /\ IF HasRow(k) /\ ~Expired(rows[k], now)
             THEN /\ rows' = [rows EXCEPT ![k].seen = now]
                  /\ UNCHANGED streamOf
             ELSE /\ streamOf' = [streamOf EXCEPT ![s] = Closed]
                  /\ UNCHANGED rows
        /\ UNCHANGED <<now, request, issued, ended, lastUse>>

\* Every five seconds SessionActive judges the row and touches nothing.
AuthTick(s) ==
    LET k == streamOf[s].token
    IN  /\ streamOf[s].pc = "open"
        /\ streamOf' = IF HasRow(k) /\ Expired(rows[k], now)
                         THEN [streamOf EXCEPT ![s].pc = "expired"]
                       ELSE IF ~HasRow(k) \/ rows[k].ip # streamOf[s].ip
                         THEN [streamOf EXCEPT ![s] = Closed]
                       ELSE streamOf
        /\ UNCHANGED <<now, rows, request, issued, ended, lastUse>>

\* session() deletes the row it found expired, in a statement of its own.
DeleteExpired(s) ==
    /\ streamOf[s].pc = "expired"
    /\ Delete(streamOf[s].token)
    /\ streamOf' = [streamOf EXCEPT ![s] = Closed]
    /\ UNCHANGED <<now, request, issued, lastUse>>

\* The browser goes away, or the check fails to read the database.
CloseStream(s) ==
    /\ streamOf[s].pc = "open"
    /\ streamOf' = [streamOf EXCEPT ![s] = Closed]
    /\ UNCHANGED <<now, rows, request, issued, ended, lastUse>>

-----------------------------------------------------------------------------
(* The clock, the prune and restarts.                                      *)

Tick ==
    /\ now < MaxTime
    /\ now' = now + 1
    /\ UNCHANGED <<rows, request, streamOf, issued, ended, lastUse>>

\* RollupAndPrune deletes the rows that were created more than a day ago.
Prune ==
    /\ \E k \in Tokens : HasRow(k) /\ rows[k].created + Retention < now
    /\ LET over == {k \in Tokens : HasRow(k) /\ rows[k].created + Retention < now}
       IN  /\ rows' = [k \in Tokens |-> IF k \in over THEN None ELSE rows[k]]
           /\ ended' = ended \cup over
    /\ UNCHANGED <<now, request, streamOf, issued, lastUse>>

\* Requests and streams end with the monitor; the rows do not.
RestartMonitor ==
    /\ request' = [r \in Requests |-> Away]
    /\ streamOf' = [s \in Streams |-> Closed]
    /\ UNCHANGED <<now, rows, issued, ended, lastUse>>

Next ==
    \/ Tick \/ Prune \/ RestartMonitor
    \/ \E k \in Tokens, ip \in Peers :
          \/ Login(k, ip)
          \/ \E r \in Requests : BeginRequest(r, k, ip)
    \/ \E r \in Requests :
          \/ SelectRow(r) \/ SelectFails(r) \/ Touch(r) \/ TouchFails(r)
          \/ Refuse(r) \/ Respond(r) \/ Logout(r)
          \/ \E s \in Streams : OpenStream(r, s)
    \/ \E s \in Streams : AuthTick(s) \/ DeleteExpired(s) \/ CloseStream(s)

Spec == Init /\ [][Next]_vars

\* Time passes, and the ticker and the goroutine of a stream run.
Fairness ==
    /\ WF_vars(Tick)
    /\ \A s \in Streams : WF_vars(AuthTick(s)) /\ WF_vars(DeleteExpired(s))

FairSpec == Spec /\ Fairness

-----------------------------------------------------------------------------
(* Properties.                                                             *)

\* No request is served that began after its session had ended, by logout,
\* expiry or a refused request, however the statements of the requests that
\* were under way then interleave (Session updates a row by its key and never
\* inserts one, so a touch cannot bring a session back).
NoEntryAfterEnd ==
    /\ TypeOK
    /\ \A r \in Requests : request[r].pc = "serving" => ~request[r].late

\* No request is served that began more than Idle after the latest request of
\* its session, however long a stream of the session has been open
\* (SessionActive does not refresh the idle time, Session does).
ServedWhileActive ==
    [][\A r \in Requests :
          request[r].pc = "admitted" /\ request'[r].pc = "serving" =>
              request[r].at <= lastUse[request[r].token] + Idle]_vars

\* A stream never shows telemetry for ever to a browser that has logged out
\* or whose session has run out (authTick in stream).
StreamsEnd ==
    \A s \in Streams : (streamOf[s].pc # "closed") ~> (streamOf[s].pc = "closed")
=============================================================================
