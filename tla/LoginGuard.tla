----------------------------- MODULE LoginGuard -----------------------------
(***************************************************************************)
(* Failed logins, bans and the handlers that race on them: login in        *)
(* app/server.go, IsBanned, LoginFailed, ClearFailures and the prune of    *)
(* RollupAndPrune in store/store.go.                                       *)
(*                                                                         *)
(* Window ticks are 15 minutes, the width of the failure window and the    *)
(* period of the prune; a first ban lasts twice as long.  Handlers of one  *)
(* address run at once: each asks IsBanned before the password check and   *)
(* records a failure after it, with the clock it read in between.  Every   *)
(* statement may fail, and most errors are ignored.                        *)
(***************************************************************************)
EXTENDS Naturals, FiniteSets, FiniteSetsExt

CONSTANTS Addresses,        \* peer addresses
          Handlers,         \* POST /auth/login requests in progress at once
          Window,           \* ticks in 15 minutes: a ban lasts two, four, ... Windows
          Threshold,        \* failures that ban (5 in the code)
          MaxStrikes,       \* cap of the doubling (6 in the code, less in a run)
          FailureRetention, \* ticks before a failure is pruned (24 hours)
          MaxTime,          \* bound on the clock
          MaxPerTick,       \* bound on failures recorded with one time
          MaxMishaps        \* bound on statements that fail for one address

\* The lag of a handler's clock, at most a tick, is less than 15 minutes.
ASSUME GuardAssumption ==
    /\ IsFiniteSet(Handlers)
    /\ Window \in Nat /\ Window > 1 /\ MaxMishaps \in Nat
    /\ Threshold \in Nat \ {0} /\ MaxStrikes \in 2..6
    /\ FailureRetention \in Nat /\ FailureRetention > Window
    /\ MaxTime \in Nat /\ MaxPerTick \in Nat

VARIABLES
    now,       \* the wall clock, in ticks
    sincePrune, \* ticks since s.lastCleanup, as far as they matter: 0..Window
    failures,  \* login_failures: the rows of each address
    bans,      \* bans: until and strikes; strikes = 0 is no row
    handler,   \* the login handlers
    given,     \* observation: strikes of the latest ban given to an address
    mishaps    \* observation: ignored errors of statements for an address

vars == <<now, sincePrune, failures, bans, handler, given, mishaps>>

Times   == 0..MaxTime
Failure == [at : Times, id : 1..MaxPerTick]
NoBan   == [until |-> 0, strikes |-> 0]
Resting == [pc |-> "idle", at |-> 0]
Busy    == [pc : {"checking", "failing", "created"}, at : Times, ip : Addresses]

TypeOK ==
    /\ now \in Times
    /\ sincePrune \in 0..Window
    /\ failures \in [Addresses -> SUBSET Failure]
    /\ bans \in [Addresses -> [until : Nat, strikes : 0..MaxStrikes]]
    /\ handler \in [Handlers -> {Resting} \cup Busy]
    /\ \A h \in Handlers : handler[h].at <= now
    /\ given \in [Addresses -> 0..MaxStrikes]
    /\ mishaps \in [Addresses -> 0..MaxMishaps]

Init ==
    /\ now = 0 /\ sincePrune = Window
    /\ failures = [ip \in Addresses |-> {}]
    /\ bans = [ip \in Addresses |-> NoBan]
    /\ handler = [h \in Handlers |-> Resting]
    /\ given = [ip \in Addresses |-> 0]
    /\ mishaps = [ip \in Addresses |-> 0]

\* IsBanned: a row that ends at this very moment bans no more.
IsBanned(ip) == bans[ip].strikes > 0 /\ bans[ip].until > now

\* SELECT COUNT(*) of the rows of ip at or after 'at' minus the window.
Recent(rows, at) == Cardinality({f \in rows : f.at + Window >= at})

-----------------------------------------------------------------------------
(* The login handler.                                                      *)

\* Seeded: the ban is not looked up.
BeginLogin_Unchecked(h, ip) ==
    /\ handler[h].pc = "idle"
    /\ handler' = [handler EXCEPT ![h] = [pc |-> "checking", at |-> now, ip |-> ip]]
    /\ UNCHANGED <<now, sincePrune, failures, bans, given, mishaps>>

\* A banned address is turned away; another one waits for the agent's answer.
BeginLogin(h, ip) ==
    /\ handler[h].pc = "idle"
    /\ ~IsBanned(ip)
    /\ handler' = [handler EXCEPT ![h] = [pc |-> "checking", at |-> now, ip |-> ip]]
    /\ UNCHANGED <<now, sincePrune, failures, bans, given, mishaps>>

\* One statement more has failed for ip, and its error was ignored.
Mishap(ip) == /\ mishaps[ip] < MaxMishaps
              /\ mishaps' = [mishaps EXCEPT ![ip] = @ + 1]

\* IsBanned cannot read the row, and takes that for no ban.
BanUnread(h, ip) ==
    /\ handler[h].pc = "idle"
    /\ IsBanned(ip)
    /\ Mishap(ip)
    /\ handler' = [handler EXCEPT ![h] = [pc |-> "checking", at |-> now, ip |-> ip]]
    /\ UNCHANGED <<now, sincePrune, failures, bans, given>>

\* The answer to a banned address is 429 and changes nothing.
TurnedAway(h, ip) ==
    /\ handler[h].pc = "idle"
    /\ IsBanned(ip)
    /\ UNCHANGED vars

\* The agent refused, did not answer or is down: time.Now() is read and
\* LoginFailed waits for the write lock of the database.
AuthenticationFails(h) ==
    /\ handler[h].pc = "checking"
    /\ handler' = [handler EXCEPT ![h].pc = "failing", ![h].at = now]
    /\ UNCHANGED <<now, sincePrune, failures, bans, given, mishaps>>

\* The rows of time 'at' that an address does not have yet.
Unused(ip, at) == {f \in Failure : f.at = at} \ failures[ip]

\* The rows of an address with one more at time 'at'.
WithFailure(ip, at) == failures[ip] \cup {CHOOSE f \in Unused(ip, at) : TRUE}

\* Handler h commits: its address has these rows, of which 'count' are in the
\* window, and reaching Threshold gives it a ban of that many strikes, if any.
Commit(h, rows, count, strikes) ==
    LET ip == handler[h].ip
        at == handler[h].at
    IN  /\ handler' = [handler EXCEPT ![h] = Resting]
        /\ failures' = [failures EXCEPT ![ip] = rows]
        /\ IF count < Threshold \/ strikes = 0
             THEN UNCHANGED <<bans, given>>
             ELSE /\ bans' = [bans EXCEPT ![ip] =
                        [until |-> at + 2 * Window * 2 ^ (strikes - 1), strikes |-> strikes]]
                  /\ given' = [given EXCEPT ![ip] = strikes]
        /\ UNCHANGED <<now, sincePrune>>

NextStrikes(ip) == Min({bans[ip].strikes + 1, MaxStrikes})

\* Handler h is in LoginFailed, and the table has room for its row.
Failing(h) == handler[h].pc = "failing" /\ Unused(handler[h].ip, handler[h].at) # {}

\* Seeded: the failure is counted before it is inserted.
LoginFailed_CountsFirst(h) ==
    LET ip == handler[h].ip
        at == handler[h].at
    IN  /\ Failing(h)
        /\ Commit(h, WithFailure(ip, at), Recent(failures[ip], at), NextStrikes(ip))
        /\ UNCHANGED mishaps

\* Seeded: a repeated ban is as long as the one before it.
LoginFailed_KeepsStrikes(h) ==
    LET ip == handler[h].ip
        at == handler[h].at
    IN  /\ Failing(h)
        /\ Commit(h, WithFailure(ip, at), Recent(WithFailure(ip, at), at),
                  IF bans[ip].strikes = 0 THEN 1 ELSE bans[ip].strikes)
        /\ UNCHANGED mishaps

\* The transaction of LoginFailed: insert, count, and ban or not.
LoginFailed(h) ==
    LET ip == handler[h].ip
        at == handler[h].at
    IN  /\ Failing(h)
        /\ Commit(h, WithFailure(ip, at), Recent(WithFailure(ip, at), at), NextStrikes(ip))
        /\ UNCHANGED mishaps

\* A statement of LoginFailed fails and the others are committed all the same:
\* no row, a count of zero, strikes that start at one again, or no ban.
LoginFailedPartly(h) ==
    LET ip == handler[h].ip
        at == handler[h].at
    IN  /\ Failing(h)
        /\ Mishap(ip)
        /\ \E rows \in {failures[ip], WithFailure(ip, at)} :
             \E count \in {0, Recent(rows, at)}, strikes \in {0, 1, NextStrikes(ip)} :
                 Commit(h, rows, count, strikes)

\* The transaction cannot begin or cannot be committed: nothing is recorded.
LoginFailedBusy(h) ==
    /\ handler[h].pc = "failing"
    /\ handler' = [handler EXCEPT ![h] = Resting]
    /\ UNCHANGED <<now, sincePrune, failures, bans, given, mishaps>>

\* The password is right and CreateSession inserts the session row.
CreateSession(h) ==
    /\ handler[h].pc = "checking"
    /\ handler' = [handler EXCEPT ![h].pc = "created"]
    /\ UNCHANGED <<now, sincePrune, failures, bans, given, mishaps>>

\* The insert failed: the handler answers 500 and leaves the failures alone.
CreateSessionFails(h) ==
    /\ handler[h].pc = "checking"
    /\ handler' = [handler EXCEPT ![h] = Resting]
    /\ UNCHANGED <<now, sincePrune, failures, bans, given, mishaps>>

\* A good login forgets the failures of its address, and no ban.
ClearFailures(h) ==
    /\ handler[h].pc = "created"
    /\ handler' = [handler EXCEPT ![h] = Resting]
    /\ failures' = [failures EXCEPT ![handler[h].ip] = {}]
    /\ UNCHANGED <<now, sincePrune, bans, given, mishaps>>

-----------------------------------------------------------------------------
(* The collect loop's prune, the clock and restarts.                       *)

\* RollupAndPrune: failures after a day, bans once they are over.
Prune ==
    /\ sincePrune = Window
    /\ sincePrune' = 0
    /\ failures' = [ip \in Addresses |->
                       {f \in failures[ip] : f.at + FailureRetention >= now}]
    /\ bans' = [ip \in Addresses |-> IF bans[ip].until < now THEN NoBan ELSE bans[ip]]
    /\ UNCHANGED <<now, handler, given, mishaps>>

\* LoginFailed waits seconds for the database, far less than a tick: the
\* clock it read is at most one tick old.
Tick ==
    /\ now < MaxTime
    /\ \A h \in Handlers : handler[h].pc = "failing" => handler[h].at = now
    /\ now' = now + 1
    /\ sincePrune' = Min({sincePrune + 1, Window})
    /\ UNCHANGED <<failures, bans, handler, given, mishaps>>

\* The handlers die with the monitor; the tables stay and lastCleanup is zero.
RestartMonitor ==
    /\ \E h \in Handlers : handler[h].pc # "idle"
    /\ handler' = [h \in Handlers |-> Resting]
    /\ sincePrune' = Window
    /\ UNCHANGED <<now, failures, bans, given, mishaps>>

Next ==
    \/ Tick \/ Prune \/ RestartMonitor
    \/ \E h \in Handlers :
          \/ \E ip \in Addresses : BeginLogin(h, ip) \/ BanUnread(h, ip) \/ TurnedAway(h, ip)
          \/ AuthenticationFails(h)
          \/ LoginFailed(h) \/ LoginFailedPartly(h) \/ LoginFailedBusy(h)
          \/ CreateSession(h) \/ CreateSessionFails(h) \/ ClearFailures(h)

Spec == Init /\ [][Next]_vars

-----------------------------------------------------------------------------
(* Properties.                                                             *)

\* Threshold recorded failures in the window that ends now mean a ban now,
\* whichever handlers recorded them, in whatever order their transactions ran
\* (LoginFailed counts inside the transaction that inserts); each statement that
\* failed for the address may cost one failure more.
FailuresMeanBan ==
    /\ TypeOK
    /\ \A ip \in Addresses :
          Recent(failures[ip], now) >= Threshold + mishaps[ip] => IsBanned(ip)

\* However many handlers race, an address gets at most one recorded failure
\* per handler beyond the ones that do not ban: those that had passed IsBanned
\* before the ban was written (login asks only once, before the agent).  Each
\* statement that failed for the address, and so each time IsBanned could not
\* read the ban and let a login through, is good for one more.
BoundedGuessing ==
    \A ip \in Addresses :
        Recent(failures[ip], now) < Threshold + Cardinality(Handlers) + mishaps[ip]

\* A ban runs its time: while it runs, no login that was under way, failed or
\* successful, no prune and no restart moves its end back (ClearFailures, the
\* upsert of LoginFailed, the prune's comparison).  Two cases do, and are bounded
\* here: with the strikes at their cap nothing doubles, so that a handler with an
\* older clock takes off its lag; and where a statement failed (the strikes could
\* not be read) the ban is given as if it were the first.
BanRunsItsTime ==
    [][\A ip \in Addresses : IsBanned(ip) =>
          \/ bans'[ip].until >= bans[ip].until
          \/ /\ bans[ip].strikes = MaxStrikes /\ bans'[ip].strikes = MaxStrikes
             /\ bans'[ip].until + 1 >= bans[ip].until
          \/ mishaps'[ip] > mishaps[ip] /\ bans'[ip].strikes = 1]_vars

\* A later ban of an address doubles the one before it, up to the cap: what
\* the security model says of repeated bans.
BansEscalate ==
    [][\A ip \in Addresses : bans'[ip].strikes > 0 /\ bans'[ip] # bans[ip] =>
          bans'[ip].strikes = Min({given[ip] + 1, MaxStrikes})]_vars
=============================================================================
