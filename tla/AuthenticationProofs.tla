------------------------ MODULE AuthenticationProofs ------------------------
(***************************************************************************)
(* Proofs about both halves of authentication: the login guard, where      *)
(* concurrent handlers count failures and give bans, and the sessions,     *)
(* where a request reads, touches and deletes the row of its token in      *)
(* separate statements.  Their variables are disjoint, so each half has an *)
(* inductive invariant of its own, GuardInv and SessionInv, and a step of  *)
(* the composition is a step of one half and a stutter of the other.       *)
(***************************************************************************)
EXTENDS Authentication, FiniteSetTheorems, TLAPS

-----------------------------------------------------------------------------
(* The login guard.                                                        *)

\* The handlers of an address that have passed IsBanned and may still fail.
InFlight(ip) == {h \in Handlers : /\ handler[h].pc \in {"checking", "failing"}
                                  /\ handler[h].ip = ip}

\* LoginFailed works with a clock that is at most a tick old, and every
\* recorded failure is in the past.
ClocksOK ==
    /\ \A h \in Handlers : handler[h].pc = "failing" => handler[h].at + 1 >= now
    /\ \A ip \in Addresses : /\ IsFiniteSet(failures[ip])
                             /\ \A f \in failures[ip] : f.at <= now

\* Failures that will still be in the window at time t, now or later, and are
\* enough for a ban, whatever failed, have given one that will still run then.
BanOutlastsWindow ==
    \A ip \in Addresses : \A t \in Nat :
        t >= now /\ Recent(failures[ip], t) >= Threshold + mishaps[ip] =>
            bans[ip].strikes > 0 /\ bans[ip].until > t

\* The failures in the window and the handlers that may add to them.
GuessesLeft ==
    \A ip \in Addresses :
        Recent(failures[ip], now) + Cardinality(InFlight(ip))
            < Threshold + Cardinality(Handlers) + mishaps[ip]

\* Ticks of the ban of a strike.
Length(s) == 2 * Window * 2 ^ (s - 1)

\* No ban runs for longer than its strikes give it.
UntilOK ==
    \A ip \in Addresses :
        bans[ip].strikes > 0 => bans[ip].until <= now + Length(bans[ip].strikes)

GuardInv == TypeOK /\ ClocksOK /\ BanOutlastsWindow /\ GuessesLeft /\ UntilOK

\* The ban of each strike lasts twice as long as the one before it, the first two
\* windows (1 << (strikes-1) in LoginFailed, strikes up to six).
LEMMA Doubling ==
    ASSUME NEW s \in 1..6
    PROVE  /\ Length(s) \in Nat /\ Length(s) >= 2 * Window
           /\ s < 6 => Length(s + 1) = Length(s) + Length(s)
  <1>0. Window \in Nat
    BY GuardAssumption
  <1>1. CASE s = 1
    <2>1. Length(1) = 2 * Window /\ Length(2) = 4 * Window
      BY <1>0 DEF Length
    <2> QED  BY <1>0, <1>1, <2>1
  <1>2. CASE s = 2
    <2>1. Length(2) = 4 * Window /\ Length(3) = 8 * Window
      BY <1>0 DEF Length
    <2> QED  BY <1>0, <1>2, <2>1
  <1>3. CASE s = 3
    <2>1. Length(3) = 8 * Window /\ Length(4) = 16 * Window
      BY <1>0 DEF Length
    <2> QED  BY <1>0, <1>3, <2>1
  <1>4. CASE s = 4
    <2>1. Length(4) = 16 * Window /\ Length(5) = 32 * Window
      BY <1>0 DEF Length
    <2> QED  BY <1>0, <1>4, <2>1
  <1>5. CASE s = 5
    <2>1. Length(5) = 32 * Window /\ Length(6) = 64 * Window
      BY <1>0 DEF Length
    <2> QED  BY <1>0, <1>5, <2>1
  <1>6. CASE s = 6
    <2>1. Length(6) = 64 * Window
      BY <1>0 DEF Length
    <2> QED  BY <1>0, <1>6, <2>1
  <1> QED  BY <1>1, <1>2, <1>3, <1>4, <1>5, <1>6

\* The next strike of an address: one more, or the cap (LoginFailed).
LEMMA Strikes ==
    ASSUME TypeOK, NEW ip \in Addresses
    PROVE  /\ NextStrikes(ip) \in 1..MaxStrikes /\ NextStrikes(ip) \in 1..6
           /\ \/ NextStrikes(ip) = bans[ip].strikes + 1
              \/ NextStrikes(ip) = MaxStrikes /\ bans[ip].strikes = MaxStrikes
  <1> DEFINE a == bans[ip].strikes + 1
  <1>1. /\ a \in Nat /\ a >= 1 /\ MaxStrikes \in Nat /\ MaxStrikes >= 2 /\ MaxStrikes <= 6
        /\ bans[ip].strikes \in Nat /\ bans[ip].strikes <= MaxStrikes
    BY GuardAssumption DEF TypeOK
  <1> HIDE DEF a
  <1>2. \E x \in {a, MaxStrikes} : \A y \in {a, MaxStrikes} : x <= y
    BY <1>1
  <1>3. Min({a, MaxStrikes}) \in {a, MaxStrikes}
        /\ \A y \in {a, MaxStrikes} : Min({a, MaxStrikes}) <= y
    BY <1>2 DEF Min
  <1>4. NextStrikes(ip) = Min({a, MaxStrikes})
    BY DEF NextStrikes, a
  <1>5. NextStrikes(ip) \in 1..MaxStrikes
    BY <1>1, <1>3, <1>4
  <1>6. NextStrikes(ip) = MaxStrikes => a = MaxStrikes \/ a = MaxStrikes + 1
    BY <1>1, <1>3, <1>4 DEF a
  <1> QED  BY <1>1, <1>3, <1>4, <1>5, <1>6 DEF a

\* The count of failures in a window: fewer rows or a later window do not
\* give more (SELECT COUNT in LoginFailed).
LEMMA RecentFacts ==
    ASSUME NEW S, NEW U, IsFiniteSet(U), S \subseteq U,
           \A f \in U : f.at \in Nat, NEW t \in Nat, NEW u \in Nat, t <= u
    PROVE  /\ Recent(S, u) \in Nat /\ Recent(U, t) \in Nat
           /\ Recent(S, u) <= Recent(U, t)
  <1> DEFINE A == {f \in S : f.at + Window >= u}
             B == {f \in U : f.at + Window >= t}
  <1>1. A \subseteq B
    BY GuardAssumption
  <1>2. IsFiniteSet(B)
    BY FS_Subset
  <1>3. IsFiniteSet(A) /\ Cardinality(A) <= Cardinality(B)
    BY <1>1, <1>2, FS_Subset
  <1>4. Cardinality(A) \in Nat /\ Cardinality(B) \in Nat
    BY <1>2, <1>3, FS_CardinalityType
  <1> QED  BY <1>3, <1>4 DEF Recent

\* A row more gives at most one more, and none in a window that begins after it.
LEMMA RecentAddOne ==
    ASSUME NEW S, IsFiniteSet(S), \A f \in S : f.at \in Nat,
           NEW g, g.at \in Nat, NEW t \in Nat
    PROVE  /\ Recent(S \cup {g}, t) <= Recent(S, t) + 1
           /\ g.at + Window < t => Recent(S \cup {g}, t) = Recent(S, t)
  <1> DEFINE A == {f \in S : f.at + Window >= t}
             B == {f \in S \cup {g} : f.at + Window >= t}
  <1>1. IsFiniteSet(A) /\ Cardinality(A) \in Nat
    BY FS_Subset, FS_CardinalityType
  <1>2. g.at + Window >= t => B = A \cup {g}
    OBVIOUS
  <1>3. g.at + Window < t => B = A
    BY GuardAssumption
  <1>4. Recent(S, t) = Cardinality(A) /\ Recent(S \cup {g}, t) = Cardinality(B)
    BY DEF Recent
  <1>5. g.at + Window >= t \/ g.at + Window < t
    BY GuardAssumption
  <1> HIDE DEF A, B
  <1>6. Cardinality(A \cup {g}) <= Cardinality(A) + 1
    <2>1. Cardinality(A \cup {g}) = IF g \in A THEN Cardinality(A) ELSE Cardinality(A) + 1
      BY <1>1, FS_AddElement
    <2> QED  BY <1>1, <2>1
  <1>7. Cardinality(B) <= Cardinality(A) + 1
    <2>1. CASE g.at + Window >= t
      BY <1>2, <1>6, <2>1
    <2>2. CASE g.at + Window < t
      BY <1>1, <1>3, <2>2
    <2> QED  BY <1>5, <2>1, <2>2
  <1> QED  BY <1>3, <1>4, <1>7

\* No row in the past is in a window that begins more than a window from now.
LEMMA WindowEnds ==
    ASSUME TypeOK, ClocksOK, NEW ip \in Addresses, NEW t \in Nat, t > now + Window
    PROVE  Recent(failures[ip], t) = 0
  <1>0. now \in Nat /\ Window \in Nat
    BY GuardAssumption DEF TypeOK, Times
  <1>1. \A f \in failures[ip] : f.at \in Nat /\ f.at <= now
    <2>1. \A f \in Failure : f.at \in Nat
      BY GuardAssumption DEF Failure, Times
    <2>2. failures[ip] \subseteq Failure
      BY DEF TypeOK
    <2> QED  BY <2>1, <2>2 DEF ClocksOK
  <1>2. \A f \in failures[ip] : ~(f.at + Window >= t)
    BY <1>0, <1>1
  <1>3. {f \in failures[ip] : f.at + Window >= t} = {}
    BY <1>2
  <1> QED  BY <1>3, FS_EmptySet DEF Recent

\* A handler's failure is one row more, at the clock it read.
LEMMA OneRowMore ==
    ASSUME TypeOK, NEW ip \in Addresses, NEW at \in Times, Unused(ip, at) # {}
    PROVE  \E g \in Failure : g.at = at /\ WithFailure(ip, at) = failures[ip] \cup {g}
  <1> DEFINE g == CHOOSE f \in Unused(ip, at) : TRUE
  <1>1. g \in Unused(ip, at)
    OBVIOUS
  <1>2. g \in Failure /\ g.at = at
    BY <1>1 DEF Unused
  <1>3. WithFailure(ip, at) = failures[ip] \cup {g}
    BY DEF WithFailure
  <1> QED  BY <1>2, <1>3

\* Handler h ends LoginFailed for address ip, with the clock of row g.
Attempt(h, ip, g) ==
    /\ handler[h].pc = "failing" /\ handler[h].ip = ip /\ handler[h].at = g.at
    /\ g.at \in Nat /\ g.at <= now /\ g.at + 1 >= now
    /\ handler' = [handler EXCEPT ![h] = Resting]
    /\ UNCHANGED <<now, sincePrune>>

Adds(ip, g) == failures' = [failures EXCEPT ![ip] = @ \cup {g}]

\* The ban of strike s, from the clock of the handler on.
Bans(ip, at, s) ==
    /\ bans' = [bans EXCEPT ![ip] = [until |-> at + Length(s), strikes |-> s]]
    /\ given' = [given EXCEPT ![ip] = s]

\* Every statement of the transaction worked, or one failed.
Whole(ip, g) ==
    /\ Adds(ip, g) /\ UNCHANGED mishaps
    /\ IF Recent(failures[ip] \cup {g}, g.at) < Threshold
         THEN UNCHANGED <<bans, given>> ELSE Bans(ip, g.at, NextStrikes(ip))

Part(ip, g) ==
    /\ UNCHANGED failures \/ Adds(ip, g)
    /\ mishaps[ip] < MaxMishaps /\ mishaps' = [mishaps EXCEPT ![ip] = @ + 1]
    /\ UNCHANGED <<bans, given>> \/ \E s \in {1, NextStrikes(ip)} : Bans(ip, g.at, s)

\* What the transaction of LoginFailed writes for the address of its handler.
LEMMA LoginFailedWrites ==
    ASSUME TypeOK, ClocksOK, NEW h \in Handlers, LoginFailed(h) \/ LoginFailedPartly(h)
    PROVE  \E ip \in Addresses, g \in Failure :
             /\ Attempt(h, ip, g)
             /\ Whole(ip, g) \/ Part(ip, g)
  <1> DEFINE ip == handler[h].ip
             at == handler[h].at
  <1>1. handler[h] \in {Resting} \cup Busy /\ at <= now /\ handler[h].pc = "failing"
        /\ Unused(ip, at) # {}
    BY DEF LoginFailed, LoginFailedPartly, Failing, TypeOK
  <1>2. ip \in Addresses /\ at \in Times /\ now \in Times
    BY <1>1 DEF Resting, Busy, TypeOK
  <1>3. at \in Nat /\ now \in Nat /\ at + 1 >= now
    BY <1>1, <1>2, GuardAssumption DEF Times, ClocksOK
  <1>4. PICK g \in Failure : g.at = at /\ WithFailure(ip, at) = failures[ip] \cup {g}
    BY <1>1, <1>2, OneRowMore
  <1>5. ASSUME NEW kept, NEW count, NEW strikes, Commit(h, kept, count, strikes)
        PROVE  /\ handler' = [handler EXCEPT ![h] = Resting] /\ UNCHANGED <<now, sincePrune>>
               /\ failures' = [failures EXCEPT ![ip] = kept]
               /\ IF count < Threshold \/ strikes = 0
                    THEN UNCHANGED <<bans, given>> ELSE Bans(ip, at, strikes)
    BY <1>5 DEF Commit, Bans, Length
  <1>6. NextStrikes(ip) \in 1..6
    BY <1>2, Strikes
  <1>7. failures = [failures EXCEPT ![ip] = failures[ip]]
    BY DEF TypeOK
  <1>8. CASE LoginFailed(h)
    <2>1. /\ Commit(h, WithFailure(ip, at), Recent(WithFailure(ip, at), at), NextStrikes(ip))
          /\ UNCHANGED mishaps
      BY <1>8 DEF LoginFailed
    <2>2. /\ handler' = [handler EXCEPT ![h] = Resting] /\ UNCHANGED <<now, sincePrune>>
          /\ failures' = [failures EXCEPT ![ip] = WithFailure(ip, at)]
          /\ IF Recent(WithFailure(ip, at), at) < Threshold
               THEN UNCHANGED <<bans, given>> ELSE Bans(ip, at, NextStrikes(ip))
      BY <1>5, <1>6, <2>1
    <2> HIDE DEF ip, at
    <2>3. Adds(ip, g)
      BY <1>4, <2>2 DEF Adds
    <2>4. Whole(ip, g)
      BY <1>4, <2>1, <2>2, <2>3 DEF Whole
    <2>5. Attempt(h, ip, g)
      BY <1>1, <1>3, <1>4, <2>2 DEF Attempt, ip, at
    <2> QED  BY <1>2, <2>4, <2>5
  <1>9. CASE LoginFailedPartly(h)
    <2>1. Mishap(ip)
      BY <1>9 DEF LoginFailedPartly
    <2>2. PICK kept \in {failures[ip], WithFailure(ip, at)} :
             \E count \in {0, Recent(kept, at)}, strikes \in {0, 1, NextStrikes(ip)} :
                 Commit(h, kept, count, strikes)
      BY <1>9 DEF LoginFailedPartly
    <2>3. PICK count \in {0, Recent(kept, at)}, strikes \in {0, 1, NextStrikes(ip)} :
                 Commit(h, kept, count, strikes)
      BY <2>2
    <2>4. /\ handler' = [handler EXCEPT ![h] = Resting] /\ UNCHANGED <<now, sincePrune>>
          /\ failures' = [failures EXCEPT ![ip] = kept]
          /\ UNCHANGED <<bans, given>> \/ (Bans(ip, at, strikes) /\ strikes # 0)
      BY <1>5, <2>3
    <2> HIDE DEF ip, at
    <2>5. UNCHANGED failures \/ Adds(ip, g)
      BY <1>4, <1>7, <2>2, <2>4 DEF Adds
    <2>6. UNCHANGED <<bans, given>> \/ \E s \in {1, NextStrikes(ip)} : Bans(ip, g.at, s)
      BY <1>4, <2>3, <2>4
    <2>7. Part(ip, g)
      BY <2>1, <2>5, <2>6 DEF Part, Mishap
    <2>8. Attempt(h, ip, g)
      BY <1>1, <1>3, <1>4, <2>4 DEF Attempt, ip, at
    <2> QED  BY <1>2, <2>7, <2>8
  <1> QED  BY <1>8, <1>9

\* What both kinds of transaction have in common: at most the row g more.
LEMMA AttemptFacts ==
    ASSUME TypeOK, ClocksOK, NEW h \in Handlers, NEW ip \in Addresses, NEW g \in Failure,
           Attempt(h, ip, g), Whole(ip, g) \/ Part(ip, g)
    PROVE  /\ failures' = failures \/ Adds(ip, g)
           /\ failures'[ip] \subseteq failures[ip] \cup {g}
           /\ \A a \in Addresses \ {ip} :
                 failures'[a] = failures[a] /\ bans'[a] = bans[a] /\ mishaps'[a] = mishaps[a]
           /\ failures' \in [Addresses -> SUBSET Failure]
           /\ UNCHANGED <<bans, given>> \/ \E s \in {1, NextStrikes(ip)} : Bans(ip, g.at, s)
           /\ mishaps' \in [Addresses -> 0..MaxMishaps]
           /\ handler'[h] = Resting
           /\ \A k \in Handlers \ {h} : handler'[k] = handler[k]
  <1>1. failures' = failures \/ Adds(ip, g)
    BY DEF Whole, Part
  <1>2. UNCHANGED <<bans, given>> \/ \E s \in {1, NextStrikes(ip)} : Bans(ip, g.at, s)
    BY DEF Whole, Part
  <1>3. mishaps' \in [Addresses -> 0..MaxMishaps]
        /\ \A a \in Addresses \ {ip} : mishaps'[a] = mishaps[a]
    BY GuardAssumption DEF Whole, Part, TypeOK
  <1>4. \A a \in Addresses \ {ip} : bans'[a] = bans[a]
    BY <1>2 DEF Bans, TypeOK
  <1>5. /\ failures'[ip] \subseteq failures[ip] \cup {g}
        /\ failures' \in [Addresses -> SUBSET Failure]
        /\ \A a \in Addresses \ {ip} : failures'[a] = failures[a]
    BY <1>1 DEF Adds, TypeOK
  <1>6. handler'[h] = Resting /\ \A k \in Handlers \ {h} : handler'[k] = handler[k]
    BY DEF Attempt, TypeOK
  <1> QED  BY <1>1, <1>2, <1>3, <1>4, <1>5, <1>6

\* The clock of a handler: not before 'now' less a tick once it has read it,
\* and always in the past (Tick waits for the handlers in LoginFailed).
LEMMA ClocksStep ==
    ASSUME TypeOK, ClocksOK, [Next]_vars
    PROVE  ClocksOK'
  <1>0. now \in Nat /\ \A t \in Times : t \in Nat
    BY GuardAssumption DEF TypeOK, Times
  <1>1. \A ip \in Addresses : failures[ip] \subseteq Failure
    BY DEF TypeOK
  <1>2. \A h \in Handlers : handler[h].at \in Nat /\ handler[h].at <= now
    <2>1. \A h \in Handlers : handler[h] \in {Resting} \cup Busy /\ handler[h].at <= now
      BY DEF TypeOK
    <2>2. \A x \in {Resting} \cup Busy : x.at \in Nat
      BY <1>0 DEF Resting, Busy
    <2> QED  BY <2>1, <2>2
  <1> DEFINE SameHandlers == \A h \in Handlers : handler'[h].pc = "failing" =>
                                handler'[h] = handler[h]
             FewerRows == \A ip \in Addresses : failures'[ip] \subseteq failures[ip]
  <1>3. ASSUME SameHandlers, FewerRows, UNCHANGED now
        PROVE  ClocksOK'
    <2>1. ASSUME NEW ip \in Addresses
          PROVE  IsFiniteSet(failures'[ip]) /\ \A f \in failures'[ip] : f.at <= now
      BY <1>3, FS_Subset DEF ClocksOK
    <2> QED  BY <1>3, <2>1 DEF ClocksOK
  <1>4. CASE Tick
    <2>1. /\ now' = now + 1 /\ handler' = handler /\ failures' = failures
          /\ \A h \in Handlers : handler[h].pc = "failing" => handler[h].at = now
      BY <1>4 DEF Tick
    <2>2. \A ip \in Addresses : \A f \in failures[ip] : f.at \in Nat
      BY <1>0, <1>1 DEF Failure
    <2> QED  BY <1>0, <2>1, <2>2 DEF ClocksOK
  <1>5. CASE Prune
    BY <1>3, <1>5 DEF Prune
  <1>6. CASE RestartMonitor
    BY <1>3, <1>6 DEF RestartMonitor, Resting
  <1>7. ASSUME NEW h \in Handlers, NEW ip \in Addresses, BeginLogin(h, ip) \/ BanUnread(h, ip)
        PROVE  ClocksOK'
    <2>1. \A g \in Handlers : handler'[g].pc = "failing" => handler'[g] = handler[g]
      BY <1>7 DEF BeginLogin, BanUnread, TypeOK
    <2> QED  BY <1>3, <1>7, <2>1 DEF BeginLogin, BanUnread
  <1>8. ASSUME NEW h \in Handlers, AuthenticationFails(h)
        PROVE  ClocksOK'
    <2>1. \A g \in Handlers \ {h} : handler'[g] = handler[g]
      BY <1>8 DEF AuthenticationFails, TypeOK
    <2>2. handler'[h].at = now
      BY <1>8 DEF AuthenticationFails, TypeOK, Resting, Busy
    <2>3. UNCHANGED <<now, failures>>
      BY <1>8 DEF AuthenticationFails
    <2>4. ASSUME NEW g \in Handlers, handler'[g].pc = "failing"
          PROVE  handler'[g].at + 1 >= now
      <3>1. CASE g = h
        BY <1>0, <2>2, <3>1
      <3>2. CASE g # h
        BY <2>1, <2>4, <3>2 DEF ClocksOK
      <3> QED  BY <3>1, <3>2
    <2> QED  BY <2>3, <2>4 DEF ClocksOK
  <1>9. ASSUME NEW h \in Handlers, LoginFailed(h) \/ LoginFailedPartly(h)
        PROVE  ClocksOK'
    <2>1. PICK ip \in Addresses, g \in Failure :
             Attempt(h, ip, g) /\ (Whole(ip, g) \/ Part(ip, g))
      BY <1>9, LoginFailedWrites
    <2>2. now' = now /\ g.at <= now
      BY <2>1 DEF Attempt
    <2>3. SameHandlers
      BY <2>1, AttemptFacts DEF Resting
    <2>4. IsFiniteSet(failures[ip]) /\ IsFiniteSet(failures[ip] \cup {g})
      BY <2>1, FS_AddElement DEF ClocksOK
    <2>5. \A a \in Addresses : IsFiniteSet(failures'[a]) /\ \A f \in failures'[a] : f.at <= now
      <3>1. failures'[ip] \subseteq failures[ip] \cup {g}
            /\ \A a \in Addresses \ {ip} : failures'[a] = failures[a]
        BY <2>1, AttemptFacts
      <3>2. IsFiniteSet(failures'[ip])
        BY <2>4, <3>1, FS_Subset
      <3> QED  BY <2>2, <3>1, <3>2 DEF ClocksOK
    <2> QED  BY <2>2, <2>3, <2>5 DEF ClocksOK
  <1>10. ASSUME NEW h \in Handlers, LoginFailedBusy(h) \/ CreateSessionFails(h)
         PROVE  ClocksOK'
    <2>1. SameHandlers
      BY <1>10 DEF LoginFailedBusy, CreateSessionFails, TypeOK, Resting
    <2> QED  BY <1>3, <1>10, <2>1 DEF LoginFailedBusy, CreateSessionFails
  <1>11. ASSUME NEW h \in Handlers, CreateSession(h)
         PROVE  ClocksOK'
    <2>1. SameHandlers
      BY <1>11 DEF CreateSession, TypeOK, Resting, Busy
    <2> QED  BY <1>3, <1>11, <2>1 DEF CreateSession
  <1>12. ASSUME NEW h \in Handlers, ClearFailures(h)
         PROVE  ClocksOK'
    <2>1. SameHandlers
      BY <1>12 DEF ClearFailures, TypeOK, Resting
    <2>2. FewerRows
      BY <1>12 DEF ClearFailures, TypeOK
    <2> QED  BY <1>3, <1>12, <2>1, <2>2 DEF ClearFailures
  <1>13. CASE UNCHANGED vars
    BY <1>3, <1>13 DEF vars
  <1>14. ASSUME NEW h \in Handlers, NEW ip \in Addresses, TurnedAway(h, ip)
         PROVE  ClocksOK'
    BY <1>13, <1>14 DEF TurnedAway
  <1> QED
    BY <1>4, <1>5, <1>6, <1>7, <1>8, <1>9, <1>10, <1>11, <1>12, <1>13, <1>14 DEF Next

\* The steps of the login guard keep their types.
LEMMA GuardTypeStep ==
    ASSUME TypeOK, ClocksOK, [Next]_vars
    PROVE  TypeOK'
  <1>0. /\ now \in Nat /\ MaxTime \in Nat /\ \A t \in Times : t \in Nat
        /\ Window \in Nat /\ sincePrune \in 0..Window
    BY GuardAssumption DEF TypeOK, Times
  <1> DEFINE Handling == /\ handler' \in [Handlers -> {Resting} \cup Busy]
                         /\ \A h \in Handlers : handler'[h].at <= now
  <1>1. ASSUME Handling, UNCHANGED <<now, sincePrune, bans, given>>,
               failures' \in [Addresses -> SUBSET Failure],
               mishaps' \in [Addresses -> 0..MaxMishaps]
        PROVE  TypeOK'
    BY <1>1 DEF TypeOK
  <1>2. CASE Tick
    <2>1. now' \in Times /\ now <= now'
      BY <1>0, <1>2 DEF Tick, Times
    <2>2. \A h \in Handlers : handler[h].at \in Nat
      <3>1. \A x \in {Resting} \cup Busy : x.at \in Nat
        BY <1>0 DEF Resting, Busy
      <3> QED  BY <3>1 DEF TypeOK
    <2>3. \A h \in Handlers : handler[h].at <= now'
      BY <1>0, <1>2, <2>1, <2>2 DEF Tick, TypeOK
    <2>4. sincePrune' \in 0..Window
      <3> DEFINE a == sincePrune + 1
      <3>1. a \in Nat /\ a >= 1
        BY <1>0
      <3> HIDE DEF a
      <3>2. \E x \in {a, Window} : \A y \in {a, Window} : x <= y
        BY <1>0, <3>1
      <3>3. Min({a, Window}) \in {a, Window} /\ \A y \in {a, Window} : Min({a, Window}) <= y
        BY <3>2 DEF Min
      <3>4. Min({a, Window}) \in 0..Window
        BY <1>0, <3>1, <3>3
      <3> QED  BY <1>2, <3>4 DEF Tick, a
    <2> QED  BY <1>2, <2>1, <2>3, <2>4 DEF Tick, TypeOK
  <1>3. CASE Prune
    <2>1. failures' \in [Addresses -> SUBSET Failure]
      BY <1>3 DEF Prune, TypeOK
    <2>2. bans' \in [Addresses -> [until : Nat, strikes : 0..MaxStrikes]]
      <3>1. NoBan \in [until : Nat, strikes : 0..MaxStrikes]
        BY GuardAssumption DEF NoBan
      <3> QED  BY <1>3, <3>1 DEF Prune, TypeOK
    <2> QED  BY <1>0, <1>3, <2>1, <2>2 DEF Prune, TypeOK
  <1>4. CASE RestartMonitor
    BY <1>0, <1>4 DEF RestartMonitor, TypeOK, Resting
  <1>5. ASSUME NEW h \in Handlers, NEW ip \in Addresses, BeginLogin(h, ip) \/ BanUnread(h, ip)
        PROVE  TypeOK'
    <2>1. [pc |-> "checking", at |-> now, ip |-> ip] \in Busy
      BY DEF Busy, TypeOK
    <2>2. Handling
      <3>1. handler' = [handler EXCEPT ![h] = [pc |-> "checking", at |-> now, ip |-> ip]]
        BY <1>5 DEF BeginLogin, BanUnread
      <3> QED  BY <1>0, <2>1, <3>1 DEF TypeOK
    <2>3. mishaps' \in [Addresses -> 0..MaxMishaps]
      BY <1>5, GuardAssumption DEF BeginLogin, BanUnread, Mishap, TypeOK
    <2> QED  BY <1>1, <1>5, <2>2, <2>3 DEF BeginLogin, BanUnread, TypeOK
  <1>6. ASSUME NEW h \in Handlers, AuthenticationFails(h)
        PROVE  TypeOK'
    <2>1. handler[h] \in Busy
      BY <1>6 DEF AuthenticationFails, TypeOK, Resting
    <2>2. [handler[h] EXCEPT !.pc = "failing", !.at = now] \in Busy
          /\ [handler[h] EXCEPT !.pc = "failing", !.at = now].at = now
      BY <2>1 DEF Busy, TypeOK
    <2>3. handler' = [handler EXCEPT ![h] = [handler[h] EXCEPT !.pc = "failing", !.at = now]]
      BY <1>6, <2>1 DEF AuthenticationFails, TypeOK, Busy
    <2>4. Handling
      BY <1>0, <2>2, <2>3 DEF TypeOK
    <2> QED  BY <1>1, <1>6, <2>4 DEF AuthenticationFails, TypeOK
  <1>7. ASSUME NEW h \in Handlers, LoginFailed(h) \/ LoginFailedPartly(h)
        PROVE  TypeOK'
    <2>1. PICK ip \in Addresses, g \in Failure :
             Attempt(h, ip, g) /\ (Whole(ip, g) \/ Part(ip, g))
      BY <1>7, LoginFailedWrites
    <2>2. /\ failures' \in [Addresses -> SUBSET Failure]
          /\ mishaps' \in [Addresses -> 0..MaxMishaps]
          /\ UNCHANGED <<bans, given>> \/ \E s \in {1, NextStrikes(ip)} : Bans(ip, g.at, s)
      BY <2>1, AttemptFacts
    <2>3. Handling /\ UNCHANGED <<now, sincePrune>>
      BY <1>0, <2>1 DEF Attempt, TypeOK, Resting
    <2>4. CASE UNCHANGED <<bans, given>>
      BY <1>1, <2>2, <2>3, <2>4
    <2>5. CASE \E s \in {1, NextStrikes(ip)} : Bans(ip, g.at, s)
      <3>1. PICK s \in {1, NextStrikes(ip)} : Bans(ip, g.at, s)
        BY <2>5
      <3>2. s \in 0..MaxStrikes /\ s \in 1..6
        BY <3>1, Strikes, GuardAssumption
      <3>3. g.at + Length(s) \in Nat
        BY <2>1, <3>2, Doubling DEF Attempt
      <3>4. /\ bans' \in [Addresses -> [until : Nat, strikes : 0..MaxStrikes]]
            /\ given' \in [Addresses -> 0..MaxStrikes]
        BY <3>1, <3>2, <3>3 DEF TypeOK, Bans
      <3> QED  BY <2>2, <2>3, <3>4 DEF TypeOK
    <2> QED  BY <2>2, <2>4, <2>5
  <1>8. ASSUME NEW h \in Handlers, LoginFailedBusy(h) \/ CreateSessionFails(h)
        PROVE  TypeOK'
    <2>1. Handling
      BY <1>0, <1>8 DEF LoginFailedBusy, CreateSessionFails, TypeOK, Resting
    <2> QED  BY <1>1, <1>8, <2>1 DEF LoginFailedBusy, CreateSessionFails, TypeOK
  <1>9. ASSUME NEW h \in Handlers, CreateSession(h)
        PROVE  TypeOK'
    <2>1. handler[h] \in Busy
      BY <1>9 DEF CreateSession, TypeOK, Resting
    <2>2. [handler[h] EXCEPT !.pc = "created"] \in Busy
          /\ [handler[h] EXCEPT !.pc = "created"].at = handler[h].at
      BY <2>1 DEF Busy
    <2>3. handler' = [handler EXCEPT ![h] = [handler[h] EXCEPT !.pc = "created"]]
      BY <1>9 DEF CreateSession
    <2>4. Handling
      BY <2>2, <2>3 DEF TypeOK
    <2> QED  BY <1>1, <1>9, <2>4 DEF CreateSession, TypeOK
  <1>10. ASSUME NEW h \in Handlers, ClearFailures(h)
         PROVE  TypeOK'
    <2>1. Handling
      BY <1>0, <1>10 DEF ClearFailures, TypeOK, Resting
    <2>2. failures' \in [Addresses -> SUBSET Failure]
      BY <1>10 DEF ClearFailures, TypeOK
    <2> QED  BY <1>1, <1>10, <2>1, <2>2 DEF ClearFailures, TypeOK
  <1>11. CASE UNCHANGED vars
    BY <1>11 DEF vars, TypeOK
  <1>12. ASSUME NEW h \in Handlers, NEW ip \in Addresses, TurnedAway(h, ip)
         PROVE  TypeOK'
    BY <1>11, <1>12 DEF TurnedAway
  <1> QED
    BY <1>2, <1>3, <1>4, <1>5, <1>6, <1>7, <1>8, <1>9, <1>10, <1>11, <1>12 DEF Next

\* The rows of an address are finitely many and have times.
LEMMA RowsAreFinite ==
    ASSUME TypeOK, ClocksOK, NEW ip \in Addresses
    PROVE  /\ IsFiniteSet(failures[ip])
           /\ \A f \in failures[ip] : f.at \in Nat
  <1>1. \A f \in Failure : f.at \in Nat
    BY GuardAssumption DEF Failure, Times
  <1>2. failures[ip] \subseteq Failure
    BY DEF TypeOK
  <1> QED  BY <1>1, <1>2 DEF ClocksOK

\* No step but a failed login adds a row to the table or changes a ban that is
\* running (Prune compares with now, ClearFailures leaves the bans alone).
LEMMA OtherSteps ==
    ASSUME TypeOK, [Next]_vars, ~ \E h \in Handlers : LoginFailed(h) \/ LoginFailedPartly(h)
    PROVE  /\ now' \in Nat /\ now <= now'
           /\ \A ip \in Addresses :
                 /\ failures'[ip] \subseteq failures[ip]
                 /\ mishaps[ip] \in Nat /\ mishaps'[ip] \in Nat /\ mishaps[ip] <= mishaps'[ip]
                 /\ bans'[ip] = bans[ip] \/ (bans[ip].until < now /\ bans'[ip] = NoBan)
  <1>0. now \in Nat /\ \A ip \in Addresses : bans[ip].until \in Nat /\ mishaps[ip] \in Nat
    BY GuardAssumption DEF TypeOK, Times
  <1>1. CASE Tick
    BY <1>0, <1>1 DEF Tick
  <1>2. CASE Prune
    BY <1>0, <1>2 DEF Prune
  <1>3. ASSUME NEW h \in Handlers, ClearFailures(h)
        PROVE  /\ UNCHANGED <<now, bans, mishaps>>
               /\ \A ip \in Addresses : failures'[ip] \subseteq failures[ip]
    BY <1>3 DEF ClearFailures, TypeOK
  <1>4. CASE UNCHANGED <<now, failures, bans, mishaps>>
    BY <1>0, <1>4
  <1>5. ASSUME NEW h \in Handlers,
               \/ \E ip \in Addresses : BeginLogin(h, ip) \/ TurnedAway(h, ip)
               \/ AuthenticationFails(h) \/ LoginFailedBusy(h) \/ CreateSession(h)
               \/ CreateSessionFails(h)
        PROVE  UNCHANGED <<now, failures, bans, mishaps>>
    BY <1>5 DEF BeginLogin, TurnedAway, AuthenticationFails, LoginFailedBusy,
                CreateSession, CreateSessionFails, vars
  <1>6. RestartMonitor \/ UNCHANGED vars => UNCHANGED <<now, failures, bans, mishaps>>
    BY DEF RestartMonitor, vars
  <1>7. ASSUME NEW h \in Handlers, NEW ip \in Addresses, BanUnread(h, ip)
        PROVE  /\ UNCHANGED <<now, failures, bans>>
               /\ \A a \in Addresses : mishaps'[a] \in Nat /\ mishaps[a] <= mishaps'[a]
    BY <1>0, <1>7 DEF BanUnread, Mishap, TypeOK
  <1> QED  BY <1>0, <1>1, <1>2, <1>3, <1>4, <1>5, <1>6, <1>7 DEF Next

\* A ban given now outlasts the window of every failure recorded by now, although
\* its handler's clock may be a tick old.
LEMMA BanIsLong ==
    ASSUME TypeOK, NEW h \in Handlers, NEW ip \in Addresses, NEW g \in Failure,
           Attempt(h, ip, g), NEW s \in {1, NextStrikes(ip)}, Bans(ip, g.at, s)
    PROVE  /\ bans'[ip].strikes = s /\ s > 0 /\ s \in 1..6
           /\ bans'[ip].until = g.at + Length(s) /\ bans'[ip].until \in Nat
           /\ bans'[ip].until > now + Window
  <1>1. s \in 1..6
    BY Strikes
  <1>2. bans'[ip].until = g.at + Length(s) /\ bans'[ip].strikes = s
    BY DEF Bans, TypeOK
  <1>3. /\ Length(s) \in Nat /\ Length(s) >= 2 * Window
        /\ g.at \in Nat /\ g.at + 1 >= now /\ now \in Nat /\ Window \in Nat /\ Window > 1
    BY <1>1, Doubling, GuardAssumption DEF Attempt, TypeOK, Times
  <1> HIDE DEF Length
  <1>4. g.at + Length(s) \in Nat /\ g.at + Length(s) > now + Window
    BY <1>3
  <1> QED  BY <1>1, <1>2, <1>4

\* Failures that are enough for a ban, now or when the window has moved on,
\* keep giving one: the transaction that recorded the last of them counted the
\* others, and a later one, with whatever clock, gives a ban that is long enough.
LEMMA BanStep ==
    ASSUME TypeOK, ClocksOK, BanOutlastsWindow, [Next]_vars
    PROVE  BanOutlastsWindow'
  <1>0. now \in Nat /\ Threshold \in Nat /\ Threshold >= 1 /\ Window \in Nat
        /\ \A ip \in Addresses : mishaps[ip] \in Nat
    BY GuardAssumption DEF TypeOK, Times
  <1>1. CASE ~ \E h \in Handlers : LoginFailed(h) \/ LoginFailedPartly(h)
    <2> SUFFICES ASSUME NEW ip \in Addresses, NEW t \in Nat, t >= now',
                        Recent(failures'[ip], t) >= Threshold + mishaps'[ip]
                 PROVE  bans'[ip].strikes > 0 /\ bans'[ip].until > t
      BY DEF BanOutlastsWindow
    <2>1. /\ now' \in Nat /\ now <= now' /\ failures'[ip] \subseteq failures[ip]
          /\ mishaps'[ip] \in Nat /\ mishaps[ip] <= mishaps'[ip]
          /\ bans'[ip] = bans[ip] \/ bans[ip].until < now
      BY <1>1, OtherSteps
    <2>2. /\ Recent(failures'[ip], t) \in Nat /\ Recent(failures[ip], t) \in Nat
          /\ Recent(failures'[ip], t) <= Recent(failures[ip], t)
      BY <2>1, RowsAreFinite, RecentFacts
    <2>3. t >= now /\ Recent(failures[ip], t) >= Threshold + mishaps[ip]
      BY <1>0, <2>1, <2>2
    <2>4. bans[ip].strikes > 0 /\ bans[ip].until > t
      BY <2>3 DEF BanOutlastsWindow
    <2>5. bans[ip].until \in Nat
      BY DEF TypeOK
    <2> QED  BY <1>0, <2>1, <2>3, <2>4, <2>5
  <1>2. ASSUME NEW h \in Handlers, LoginFailed(h) \/ LoginFailedPartly(h)
        PROVE  BanOutlastsWindow'
    <2>1. PICK ip \in Addresses, g \in Failure :
             Attempt(h, ip, g) /\ (Whole(ip, g) \/ Part(ip, g))
      BY <1>2, LoginFailedWrites
    <2> DEFINE more == failures[ip] \cup {g}
    <2>2. /\ now' = now /\ g.at \in Nat /\ g.at <= now /\ g.at + 1 >= now
          /\ \A a \in Addresses \ {ip} :
                failures'[a] = failures[a] /\ bans'[a] = bans[a] /\ mishaps'[a] = mishaps[a]
      BY <2>1, AttemptFacts DEF Attempt
    <2>3. IsFiniteSet(failures[ip]) /\ \A f \in failures[ip] : f.at \in Nat
      BY RowsAreFinite
    <2>4. IsFiniteSet(more) /\ \A f \in more : f.at \in Nat
      BY <2>2, <2>3, FS_AddElement
    <2> SUFFICES ASSUME NEW t \in Nat, t >= now,
                        Recent(failures'[ip], t) >= Threshold + mishaps'[ip]
                 PROVE  bans'[ip].strikes > 0 /\ bans'[ip].until > t
      BY <2>2 DEF BanOutlastsWindow
    <2>5. mishaps'[ip] \in Nat
      BY <2>1, AttemptFacts, GuardAssumption
    <2>6. /\ failures'[ip] \subseteq more
          /\ Recent(failures'[ip], t) \in Nat /\ Recent(more, t) \in Nat
          /\ Recent(failures[ip], t) \in Nat
          /\ Recent(failures'[ip], t) <= Recent(more, t)
          /\ Recent(more, t) <= Recent(failures[ip], t) + 1
          /\ g.at + Window < t => Recent(more, t) = Recent(failures[ip], t)
      <3>1. failures'[ip] \subseteq more
        BY <2>1, AttemptFacts
      <3> QED  BY <2>2, <2>3, <2>4, <3>1, RecentFacts, RecentAddOne
    <2>7. CASE t > now + Window
      <3>1. Recent(failures[ip], t) = 0
        BY <2>7, WindowEnds
      <3>2. g.at + Window < t
        BY <1>0, <2>2, <2>7
      <3> QED  BY <1>0, <2>5, <2>6, <3>1, <3>2
    <2>8. ASSUME t <= now + Window, NEW s \in {1, NextStrikes(ip)}, Bans(ip, g.at, s)
          PROVE  bans'[ip].strikes > 0 /\ bans'[ip].until > t
      <3>1. bans'[ip].strikes > 0 /\ bans'[ip].until > now + Window /\ bans'[ip].until \in Nat
        BY <2>1, <2>8, BanIsLong
      <3> QED  BY <1>0, <2>8, <3>1
    <2>9. ASSUME Recent(failures[ip], t) >= Threshold + mishaps[ip], UNCHANGED bans
          PROVE  bans'[ip].strikes > 0 /\ bans'[ip].until > t
      BY <2>9 DEF BanOutlastsWindow
    <2>10. CASE Whole(ip, g) /\ t <= now + Window
      <3>1. mishaps'[ip] = mishaps[ip]
        BY <2>10 DEF Whole
      <3>2. CASE ~(Recent(more, g.at) < Threshold)
        BY <2>8, <2>10, <3>2 DEF Whole
      <3>3. CASE Recent(more, g.at) < Threshold
        <4>1. g.at <= t
          BY <1>0, <2>2
        <4>2. Recent(more, t) <= Recent(more, g.at) /\ Recent(more, g.at) \in Nat
          BY <2>2, <2>4, <4>1, RecentFacts
        <4>3. FALSE
          BY <1>0, <2>6, <3>1, <3>3, <4>2
        <4> QED  BY <4>3
      <3> QED  BY <3>2, <3>3
    <2>11. CASE Part(ip, g) /\ t <= now + Window
      <3>1. mishaps'[ip] = mishaps[ip] + 1
        BY <2>11 DEF Part, TypeOK
      <3>2. Recent(failures[ip], t) >= Threshold + mishaps[ip]
        BY <1>0, <2>6, <3>1
      <3> QED  BY <2>8, <2>9, <2>11, <3>2 DEF Part
    <2>12. t > now + Window \/ t <= now + Window
      BY <1>0
    <2> QED  BY <2>1, <2>7, <2>10, <2>11, <2>12
  <1> QED  BY <1>1, <1>2

\* The handlers of an address in flight are finitely many.
LEMMA InFlightIsFinite ==
    ASSUME NEW ip
    PROVE  /\ IsFiniteSet(InFlight(ip)) /\ Cardinality(InFlight(ip)) \in Nat
           /\ Cardinality(InFlight(ip)) <= Cardinality(Handlers)
           /\ Cardinality(Handlers) \in Nat
  BY GuardAssumption, FS_Subset, FS_CardinalityType DEF InFlight

\* A login adds to the handlers in flight of its address only when the address
\* is not banned, and so when its failures in the window are below Threshold, or
\* when the ban could not be read; from then on every handler records one failure
\* at most.
LEMMA GuessesStep ==
    ASSUME TypeOK, ClocksOK, BanOutlastsWindow, GuessesLeft, [Next]_vars
    PROVE  GuessesLeft'
  <1>0. now \in Nat /\ Threshold \in Nat /\ \A a \in Addresses : mishaps[a] \in Nat
    BY GuardAssumption DEF TypeOK, Times
  <1> DEFINE Bounded(a) == Recent(failures'[a], now') + Cardinality(InFlight(a)')
                              < Threshold + Cardinality(Handlers) + mishaps'[a]
  <1>1. ASSUME NEW ip \in Addresses, now' \in Nat, now <= now',
               mishaps'[ip] \in Nat, mishaps[ip] <= mishaps'[ip],
               failures'[ip] \subseteq failures[ip], InFlight(ip)' \subseteq InFlight(ip)
        PROVE  Bounded(ip)
    <2>1. /\ Recent(failures'[ip], now') \in Nat /\ Recent(failures[ip], now) \in Nat
          /\ Recent(failures'[ip], now') <= Recent(failures[ip], now)
      BY <1>0, <1>1, RowsAreFinite, RecentFacts
    <2>2. /\ Cardinality(InFlight(ip)') \in Nat /\ Cardinality(InFlight(ip)) \in Nat
          /\ Cardinality(InFlight(ip)') <= Cardinality(InFlight(ip))
          /\ Cardinality(Handlers) \in Nat
      <3>1. IsFiniteSet(InFlight(ip)) /\ Cardinality(InFlight(ip)) \in Nat
            /\ Cardinality(Handlers) \in Nat
        BY InFlightIsFinite
      <3>2. IsFiniteSet(InFlight(ip)')
            /\ Cardinality(InFlight(ip)') <= Cardinality(InFlight(ip))
        BY <1>1, <3>1, FS_Subset
      <3> QED  BY <3>1, <3>2, FS_CardinalityType
    <2>3. Recent(failures[ip], now) + Cardinality(InFlight(ip))
             < Threshold + Cardinality(Handlers) + mishaps[ip]
      BY DEF GuessesLeft
    <2> QED  BY <1>0, <1>1, <2>1, <2>2, <2>3
  <1>2. ASSUME NEW h \in Handlers, NEW ip \in Addresses, BeginLogin(h, ip) \/ BanUnread(h, ip)
        PROVE  GuessesLeft'
    <2>1. /\ now' = now /\ failures' = failures
          /\ \A g \in Handlers \ {h} : handler'[g] = handler[g]
          /\ handler'[h].ip = ip
      BY <1>2 DEF BeginLogin, BanUnread, TypeOK
    <2>2. ASSUME NEW a \in Addresses, a # ip
          PROVE  InFlight(a)' \subseteq InFlight(a) /\ mishaps'[a] = mishaps[a]
      BY <1>2, <2>1, <2>2 DEF InFlight, BeginLogin, BanUnread, Mishap, TypeOK
    <2>3. /\ IsFiniteSet(InFlight(ip)') /\ Cardinality(InFlight(ip)') \in Nat
          /\ Cardinality(InFlight(ip)') <= Cardinality(Handlers)
          /\ Cardinality(Handlers) \in Nat
      <3>1. InFlight(ip)' \subseteq Handlers
        BY DEF InFlight
      <3>2. IsFiniteSet(InFlight(ip)') /\ Cardinality(InFlight(ip)') <= Cardinality(Handlers)
        BY <3>1, GuardAssumption, FS_Subset
      <3> QED  BY <3>2, GuardAssumption, FS_CardinalityType
    <2>4. Recent(failures[ip], now) \in Nat
      BY <1>0, RowsAreFinite, RecentFacts
    <2>5. ASSUME BeginLogin(h, ip)
          PROVE  Bounded(ip)
      <3>1. ~(Recent(failures[ip], now) >= Threshold + mishaps[ip])
        BY <1>0, <2>5 DEF BeginLogin, IsBanned, BanOutlastsWindow
      <3>2. mishaps' = mishaps
        BY <2>5 DEF BeginLogin
      <3>3. Recent(failures[ip], now) < Threshold + mishaps[ip]
        BY <1>0, <2>4, <3>1
      <3>4. Recent(failures[ip], now) + Cardinality(InFlight(ip)')
               < Threshold + Cardinality(Handlers) + mishaps[ip]
        <4> HIDE DEF InFlight
        <4> QED  BY <1>0, <2>3, <2>4, <3>3
      <3>5. Recent(failures'[ip], now') = Recent(failures[ip], now)
        BY <2>1
      <3> QED  BY <3>2, <3>4, <3>5
    <2>6. ASSUME BanUnread(h, ip)
          PROVE  Bounded(ip)
      <3>1. mishaps'[ip] = mishaps[ip] + 1
        BY <2>6 DEF BanUnread, Mishap, TypeOK
      <3>2. InFlight(ip)' \subseteq InFlight(ip) \cup {h}
        BY <2>1 DEF InFlight
      <3>3. /\ IsFiniteSet(InFlight(ip) \cup {h})
            /\ Cardinality(InFlight(ip) \cup {h}) <= Cardinality(InFlight(ip)) + 1
            /\ Cardinality(InFlight(ip)) \in Nat /\ Cardinality(InFlight(ip) \cup {h}) \in Nat
        <4>1. IsFiniteSet(InFlight(ip)) /\ Cardinality(InFlight(ip)) \in Nat
          BY InFlightIsFinite
        <4>2. /\ IsFiniteSet(InFlight(ip) \cup {h})
              /\ Cardinality(InFlight(ip) \cup {h}) =
                   IF h \in InFlight(ip) THEN Cardinality(InFlight(ip))
                                         ELSE Cardinality(InFlight(ip)) + 1
          BY <4>1, FS_AddElement
        <4> QED  BY <4>1, <4>2
      <3>4. Cardinality(InFlight(ip)') <= Cardinality(InFlight(ip) \cup {h})
        BY <3>2, <3>3, FS_Subset
      <3>5. Recent(failures[ip], now) + Cardinality(InFlight(ip))
               < Threshold + Cardinality(Handlers) + mishaps[ip]
        BY DEF GuessesLeft
      <3>6. Recent(failures'[ip], now') = Recent(failures[ip], now)
        BY <2>1
      <3>7. Recent(failures[ip], now) + Cardinality(InFlight(ip)')
               < Threshold + Cardinality(Handlers) + (mishaps[ip] + 1)
        <4> HIDE DEF InFlight
        <4>1. Cardinality(InFlight(ip)') <= Cardinality(InFlight(ip)) + 1
          BY <2>3, <3>3, <3>4
        <4> QED  BY <1>0, <2>3, <2>4, <3>3, <3>5, <4>1
      <3> QED  BY <3>1, <3>6, <3>7
    <2>7. ASSUME NEW a \in Addresses
          PROVE  Bounded(a)
      <3>1. CASE a = ip
        <4>1. Bounded(ip)
          BY <1>2, <2>5, <2>6
        <4> QED  BY <3>1, <4>1
      <3>2. CASE a # ip
        <4>1. /\ now' \in Nat /\ now <= now' /\ mishaps'[a] \in Nat
              /\ mishaps[a] <= mishaps'[a] /\ failures'[a] \subseteq failures[a]
              /\ InFlight(a)' \subseteq InFlight(a)
          BY <1>0, <2>1, <2>2, <3>2
        <4> QED  BY <1>1, <4>1
      <3> QED  BY <3>1, <3>2
    <2> QED  BY <2>7 DEF GuessesLeft
  <1>3. ASSUME NEW h \in Handlers, LoginFailed(h) \/ LoginFailedPartly(h)
        PROVE  GuessesLeft'
    <2>1. PICK ip \in Addresses, g \in Failure :
             Attempt(h, ip, g) /\ (Whole(ip, g) \/ Part(ip, g))
      BY <1>3, LoginFailedWrites
    <2>2. /\ now' = now /\ g.at \in Nat
          /\ failures'[ip] \subseteq failures[ip] \cup {g}
          /\ \A a \in Addresses \ {ip} : failures'[a] = failures[a] /\ mishaps'[a] = mishaps[a]
          /\ handler'[h].pc = "idle"
          /\ \A k \in Handlers \ {h} : handler'[k] = handler[k]
      <3>1. now' = now /\ g.at \in Nat
        BY <2>1 DEF Attempt
      <3>2. /\ failures'[ip] \subseteq failures[ip] \cup {g}
            /\ \A a \in Addresses \ {ip} :
                  failures'[a] = failures[a] /\ mishaps'[a] = mishaps[a]
        BY <2>1, AttemptFacts
      <3>3. handler'[h] = Resting /\ \A k \in Handlers \ {h} : handler'[k] = handler[k]
        BY <2>1, AttemptFacts
      <3> QED  BY <3>1, <3>2, <3>3 DEF Resting
    <2>3. \A a \in Addresses : InFlight(a)' \subseteq InFlight(a)
      BY <2>2 DEF InFlight
    <2>4. h \in InFlight(ip) /\ InFlight(ip)' = InFlight(ip) \ {h}
      BY <2>1, <2>2 DEF Attempt, InFlight
    <2>5. Cardinality(InFlight(ip)') = Cardinality(InFlight(ip)) - 1
      BY <2>4, InFlightIsFinite, FS_RemoveElement
    <2>6. /\ Recent(failures[ip], now) \in Nat
          /\ Recent(failures'[ip], now) <= Recent(failures[ip], now) + 1
          /\ Recent(failures'[ip], now) \in Nat
      <3>1. IsFiniteSet(failures[ip]) /\ \A f \in failures[ip] : f.at \in Nat
        BY RowsAreFinite
      <3>2. IsFiniteSet(failures[ip] \cup {g}) /\ \A f \in failures[ip] \cup {g} : f.at \in Nat
        BY <2>2, <3>1, FS_AddElement
      <3>3. /\ Recent(failures'[ip], now) \in Nat /\ Recent(failures[ip] \cup {g}, now) \in Nat
            /\ Recent(failures'[ip], now) <= Recent(failures[ip] \cup {g}, now)
        <4> DEFINE more == failures[ip] \cup {g}
        <4>1. failures'[ip] \subseteq more /\ IsFiniteSet(more) /\ \A f \in more : f.at \in Nat
          BY <2>2, <3>2
        <4> HIDE DEF more
        <4>2. /\ Recent(failures'[ip], now) \in Nat /\ Recent(more, now) \in Nat
              /\ Recent(failures'[ip], now) <= Recent(more, now)
          BY <1>0, <4>1, RecentFacts
        <4> QED  BY <4>2 DEF more
      <3>4. /\ Recent(failures[ip], now) \in Nat
            /\ Recent(failures[ip] \cup {g}, now) <= Recent(failures[ip], now) + 1
        BY <1>0, <2>2, <3>1, RecentFacts, RecentAddOne
      <3> QED  BY <3>3, <3>4
    <2>7. Bounded(ip)
      <3>1. Recent(failures[ip], now) + Cardinality(InFlight(ip))
               < Threshold + Cardinality(Handlers) + mishaps[ip]
        BY DEF GuessesLeft
      <3>2. Cardinality(InFlight(ip)) \in Nat /\ Cardinality(Handlers) \in Nat
        BY InFlightIsFinite
      <3>3. Recent(failures'[ip], now') = Recent(failures'[ip], now)
        BY <2>2
      <3>4. mishaps'[ip] \in Nat /\ mishaps[ip] <= mishaps'[ip]
        BY <1>0, <2>1 DEF Whole, Part, TypeOK
      <3> QED  BY <1>0, <2>5, <2>6, <3>1, <3>2, <3>3, <3>4
    <2>8. ASSUME NEW a \in Addresses, a # ip
          PROVE  Bounded(a)
      <3>1. /\ now' \in Nat /\ now <= now' /\ mishaps'[a] \in Nat
            /\ mishaps[a] <= mishaps'[a] /\ failures'[a] \subseteq failures[a]
            /\ InFlight(a)' \subseteq InFlight(a)
        BY <1>0, <2>2, <2>3, <2>8
      <3> QED  BY <1>1, <3>1
    <2> QED  BY <2>7, <2>8 DEF GuessesLeft
  <1>4. CASE ~ \E h \in Handlers : \/ LoginFailed(h) \/ LoginFailedPartly(h)
                                   \/ \E ip \in Addresses : BeginLogin(h, ip) \/ BanUnread(h, ip)
    <2>1. now' \in Nat /\ now <= now'
          /\ \A ip \in Addresses : /\ failures'[ip] \subseteq failures[ip]
                                   /\ mishaps'[ip] \in Nat /\ mishaps[ip] <= mishaps'[ip]
      BY <1>4, OtherSteps
    <2>2. \A h \in Handlers : \/ handler'[h] = handler[h]
                              \/ handler'[h].pc \notin {"checking", "failing"}
                              \/ /\ handler'[h].ip = handler[h].ip
                                 /\ handler[h].pc = "checking"
      <3>1. ASSUME NEW h \in Handlers, AuthenticationFails(h)
            PROVE  \A g \in Handlers : \/ handler'[g] = handler[g]
                                       \/ /\ handler'[g].ip = handler[g].ip
                                          /\ handler[g].pc = "checking"
        <4>1. handler[h] \in Busy
          BY <3>1 DEF AuthenticationFails, TypeOK, Resting
        <4> QED  BY <3>1, <4>1 DEF AuthenticationFails, TypeOK, Busy
      <3>2. ASSUME NEW h \in Handlers,
                   LoginFailedBusy(h) \/ CreateSessionFails(h) \/ ClearFailures(h)
            PROVE  \A g \in Handlers : handler'[g] = handler[g] \/ handler'[g].pc = "idle"
        BY <3>2 DEF LoginFailedBusy, CreateSessionFails, ClearFailures, TypeOK, Resting
      <3>3. ASSUME NEW h \in Handlers, CreateSession(h)
            PROVE  \A g \in Handlers : handler'[g] = handler[g] \/ handler'[g].pc = "created"
        <4>1. handler[h] \in Busy
          BY <3>3 DEF CreateSession, TypeOK, Resting
        <4> QED  BY <3>3, <4>1 DEF CreateSession, TypeOK, Busy
      <3>4. CASE RestartMonitor
        BY <3>4 DEF RestartMonitor, Resting
      <3>5. CASE Tick \/ Prune \/ UNCHANGED vars
                 \/ \E h \in Handlers, ip \in Addresses : TurnedAway(h, ip)
        BY <3>5 DEF Tick, Prune, TurnedAway, vars
      <3> QED  BY <1>4, <3>1, <3>2, <3>3, <3>4, <3>5 DEF Next
    <2>3. \A ip \in Addresses : InFlight(ip)' \subseteq InFlight(ip)
      BY <2>2 DEF InFlight
    <2> QED  BY <1>1, <2>1, <2>3 DEF GuessesLeft
  <1> QED  BY <1>2, <1>3, <1>4

\* A ban ends no later than its strikes say, counted from the clock of its handler.
LEMMA UntilStep ==
    ASSUME TypeOK, ClocksOK, UntilOK, [Next]_vars
    PROVE  UntilOK'
  <1>0. now \in Nat /\ \A a \in Addresses :
           bans[a].until \in Nat /\ (bans[a].strikes > 0 => bans[a].strikes \in 1..6)
    <2>1. now \in Nat /\ MaxStrikes \in 2..6
      BY GuardAssumption DEF TypeOK, Times
    <2>2. \A a \in Addresses : bans[a].until \in Nat /\ bans[a].strikes \in 0..MaxStrikes
      BY DEF TypeOK
    <2> QED  BY <2>1, <2>2
  <1>1. \A a \in Addresses : bans[a].strikes > 0 => Length(bans[a].strikes) \in Nat
    BY <1>0, Doubling
  <1>2. ASSUME NEW a \in Addresses, now' \in Nat, now <= now',
               bans'[a] = bans[a] \/ bans'[a] = NoBan, bans'[a].strikes > 0
        PROVE  bans'[a].until <= now' + Length(bans'[a].strikes)
    <2>1. bans'[a] = bans[a]
      BY <1>2 DEF NoBan
    <2>2. bans[a].until <= now + Length(bans[a].strikes) /\ Length(bans[a].strikes) \in Nat
      BY <1>1, <1>2, <2>1 DEF UntilOK
    <2> HIDE DEF Length
    <2> QED  BY <1>0, <1>2, <2>1, <2>2
  <1>3. CASE ~ \E h \in Handlers : LoginFailed(h) \/ LoginFailedPartly(h)
    BY <1>2, <1>3, OtherSteps DEF UntilOK
  <1>4. ASSUME NEW h \in Handlers, LoginFailed(h) \/ LoginFailedPartly(h)
        PROVE  UntilOK'
    <2>1. PICK ip \in Addresses, g \in Failure :
             Attempt(h, ip, g) /\ (Whole(ip, g) \/ Part(ip, g))
      BY <1>4, LoginFailedWrites
    <2>2. now' = now /\ g.at \in Nat /\ g.at <= now
      BY <2>1 DEF Attempt
    <2>3. \A a \in Addresses \ {ip} : bans'[a] = bans[a]
      BY <2>1, AttemptFacts
    <2>4. CASE UNCHANGED <<bans, given>>
      BY <1>0, <1>2, <2>2, <2>4 DEF UntilOK
    <2>5. ASSUME NEW s \in {1, NextStrikes(ip)}, Bans(ip, g.at, s)
          PROVE  bans'[ip].until <= now' + Length(bans'[ip].strikes)
      <3>1. bans'[ip].strikes = s /\ s \in 1..6 /\ bans'[ip].until = g.at + Length(s)
        BY <2>1, <2>5, BanIsLong
      <3>2. Length(s) \in Nat
        BY <3>1, Doubling
      <3> HIDE DEF Length
      <3> QED  BY <1>0, <2>2, <3>1, <3>2
    <2> QED
      <3>1. UNCHANGED <<bans, given>> \/ \E s \in {1, NextStrikes(ip)} : Bans(ip, g.at, s)
        BY <2>1, AttemptFacts
      <3>2. \A a \in Addresses \ {ip} :
               bans'[a].strikes > 0 => bans'[a].until <= now' + Length(bans'[a].strikes)
        BY <1>0, <1>2, <2>2, <2>3
      <3> QED  BY <2>4, <2>5, <3>1, <3>2 DEF UntilOK
  <1> QED  BY <1>3, <1>4

\* The first state has no failure, no ban and no login.
LEMMA GuardInit == Init => GuardInv
  <1> SUFFICES ASSUME Init PROVE GuardInv
    OBVIOUS
  <1>0. 0 \in Times /\ Threshold \in Nat /\ Threshold >= 1 /\ MaxStrikes \in Nat
        /\ 0 \in 0..MaxStrikes /\ 0 \in 0..MaxMishaps /\ Window \in 0..Window
    BY GuardAssumption DEF Times
  <1>1. TypeOK
    BY <1>0 DEF Init, TypeOK, NoBan, Resting
  <1>2. ClocksOK
    BY FS_EmptySet DEF Init, ClocksOK, Resting
  <1>3. \A t \in Nat : Recent({}, t) = 0
    BY FS_EmptySet DEF Recent
  <1>4. BanOutlastsWindow
    BY <1>0, <1>3 DEF Init, BanOutlastsWindow
  <1>5. GuessesLeft
    <2>1. \A ip : Cardinality(InFlight(ip)) \in Nat
                  /\ Cardinality(InFlight(ip)) <= Cardinality(Handlers)
                  /\ Cardinality(Handlers) \in Nat
      BY InFlightIsFinite
    <2>2. now = 0 /\ \A ip \in Addresses : Recent(failures[ip], now) = 0 /\ mishaps[ip] = 0
      BY <1>3 DEF Init
    <2> QED  BY <1>0, <2>1, <2>2 DEF GuessesLeft
  <1>6. UntilOK
    BY DEF Init, UntilOK, NoBan
  <1> QED  BY <1>1, <1>2, <1>4, <1>5, <1>6 DEF GuardInv

\* Every step of the guard keeps its invariant: types, clocks, bans and guesses.
LEMMA GuardStep == GuardInv /\ [Next]_vars => GuardInv'
  BY GuardTypeStep, ClocksStep, BanStep, GuessesStep, UntilStep DEF GuardInv

\* The end of a ban that runs is moved back by a handler with an older clock at the
\* cap, by its lag, and by a transaction that could not read the strikes.
BanEndKept(ip) ==
    \/ bans'[ip].until >= bans[ip].until
    \/ /\ bans[ip].strikes = MaxStrikes /\ bans'[ip].strikes = MaxStrikes
       /\ bans'[ip].until + 1 >= bans[ip].until
    \/ mishaps'[ip] > mishaps[ip] /\ bans'[ip].strikes = 1

\* No step moves it back in any other way.
LEMMA BanKept ==
    ASSUME GuardInv, [Next]_vars, NEW ip \in Addresses, IsBanned(ip)
    PROVE  BanEndKept(ip)
  <1>0. /\ TypeOK /\ ClocksOK /\ now \in Nat /\ bans[ip].until \in Nat
        /\ bans[ip].strikes > 0 /\ bans[ip].strikes \in 1..6 /\ bans[ip].until > now
        /\ MaxStrikes \in 2..6 /\ mishaps[ip] \in Nat
    <2>1. TypeOK /\ ClocksOK
      BY DEF GuardInv
    <2>2. now \in Nat /\ MaxStrikes \in 2..6 /\ mishaps[ip] \in Nat
      BY <2>1, GuardAssumption DEF TypeOK, Times
    <2>3. bans[ip].until \in Nat /\ bans[ip].strikes \in 0..MaxStrikes
      BY <2>1 DEF TypeOK
    <2>4. bans[ip].strikes > 0 /\ bans[ip].until > now
      BY DEF IsBanned
    <2> QED  BY <2>1, <2>2, <2>3, <2>4
  <1>1. CASE ~ \E h \in Handlers : LoginFailed(h) \/ LoginFailedPartly(h)
    <2>1. bans'[ip] = bans[ip]
      BY <1>0, <1>1, OtherSteps
    <2> QED  BY <1>0, <2>1 DEF BanEndKept
  <1>2. ASSUME NEW h \in Handlers, LoginFailed(h) \/ LoginFailedPartly(h)
        PROVE  BanEndKept(ip)
    <2>1. PICK a \in Addresses, g \in Failure :
             Attempt(h, a, g) /\ (Whole(a, g) \/ Part(a, g))
      BY <1>0, <1>2, LoginFailedWrites
    <2>2. CASE bans'[ip] = bans[ip]
      BY <1>0, <2>2 DEF BanEndKept
    <2>3. ASSUME a = ip, Bans(ip, g.at, NextStrikes(ip))
          PROVE  BanEndKept(ip)
      <3> DEFINE s == bans[ip].strikes
                 u == NextStrikes(ip)
      <3>1. bans'[ip].strikes = u /\ u \in 1..6 /\ bans'[ip].until = g.at + Length(u)
        BY <1>0, <2>1, <2>3, BanIsLong
      <3>2. bans[ip].until <= now + Length(s)
        BY <1>0 DEF GuardInv, UntilOK
      <3>3. /\ Length(s) \in Nat /\ Length(u) \in Nat /\ Length(s) >= 2 * Window
            /\ s < 6 => Length(s + 1) = Length(s) + Length(s)
        BY <1>0, <3>1, Doubling
      <3>4. g.at \in Nat /\ g.at + 1 >= now /\ Window \in Nat /\ Window > 1
        BY <2>1, GuardAssumption DEF Attempt
      <3>5. u = s + 1 \/ (u = MaxStrikes /\ s = MaxStrikes)
        BY <1>0, Strikes
      <3>6. CASE u = s + 1
        <4>1. Length(u) = Length(s) + Length(s)
          BY <1>0, <3>1, <3>3, <3>6
        <4> HIDE DEF Length, u, s
        <4>2. g.at + Length(u) >= bans[ip].until
          BY <1>0, <3>2, <3>3, <3>4, <4>1
        <4> QED  BY <3>1, <4>2 DEF BanEndKept
      <3>7. CASE u = MaxStrikes /\ s = MaxStrikes
        <4> HIDE DEF Length, u
        <4>1. g.at + Length(u) + 1 >= bans[ip].until
          <5>1. bans[ip].until <= now + Length(u)
            BY <3>2, <3>7
          <5> QED  BY <1>0, <3>3, <3>4, <5>1
        <4> QED  BY <3>1, <3>7, <4>1 DEF BanEndKept
      <3> QED  BY <3>5, <3>6, <3>7
    <2>4. ASSUME a = ip, Bans(ip, g.at, 1), Part(ip, g)
          PROVE  BanEndKept(ip)
      <3>1. bans'[ip].strikes = 1
        BY <1>0, <2>4 DEF Bans, TypeOK
      <3>2. mishaps'[ip] = mishaps[ip] + 1
        BY <1>0, <2>4 DEF Part, TypeOK
      <3> QED  BY <1>0, <3>1, <3>2 DEF BanEndKept
    <2>5. CASE a # ip
      <3>1. bans'[ip] = bans[ip]
        BY <1>0, <2>1, <2>5, AttemptFacts
      <3> QED  BY <2>2, <3>1
    <2>6. CASE a = ip
      <3>1. CASE Whole(ip, g)
        BY <2>2, <2>3, <2>6, <3>1 DEF Whole
      <3>2. CASE Part(ip, g)
        BY <2>2, <2>3, <2>4, <2>6, <3>2 DEF Part
      <3> QED  BY <2>1, <2>6, <3>1, <3>2
    <2> QED  BY <2>5, <2>6
  <1> QED  BY <1>1, <1>2

-----------------------------------------------------------------------------
(* The sessions.                                                           *)

\* A row belongs to a session that was created and has not ended, and was
\* touched by a request that counts as a use of the session.
RowOK(k) ==
    rows[k] # Session!None =>
        /\ k \in issued \ ended
        /\ rows[k].created <= rows[k].seen
        /\ rows[k].seen <= sessionNow /\ rows[k].seen <= lastUse[k]

\* A request carries the cookie of a session that was created before it began;
\* it is admitted only by a row that its session had when it selected it.
RequestOK(q) ==
    q # Session!Away =>
        /\ q.token \in issued /\ q.at <= sessionNow
        /\ rows[q.token] # Session!None => rows[q.token].created <= q.at
        /\ q.late => q.token \in ended
        /\ q.pc \in {"admitted", "serving"} => ~q.late
        /\ q.pc = "admitted" => q.at <= lastUse[q.token] + Idle

SessionInv ==
    /\ Session!TypeOK
    /\ \A k \in Tokens : RowOK(k)
    /\ \A r \in Requests : RequestOK(request[r])

\* What every step does to the clock, the rows and the observations: sessions
\* are created and end, their rows keep the time of creation, and none of them
\* gets its row back.
Grows ==
    /\ sessionNow' \in Session!Times /\ sessionNow <= sessionNow'
    /\ issued \subseteq issued' /\ ended \subseteq ended'
    /\ lastUse' \in [Tokens -> Session!Times]
    /\ \A k \in issued : lastUse[k] <= lastUse'[k]
    /\ rows' \in [Tokens -> Session!Row \cup {Session!None}]
    /\ \A k \in issued : rows'[k] # Session!None =>
          rows[k] # Session!None /\ rows'[k].created = rows[k].created

\* A request that a step leaves alone stays in order.
LEMMA RequestFrame ==
    ASSUME SessionInv, Grows, NEW r \in Requests, request'[r] = request[r]
    PROVE  RequestOK(request[r])'
  <1> DEFINE q == request[r]
  <1>1. q \in {Session!Away} \cup Session!Inside /\ RequestOK(q)
    BY DEF SessionInv, Session!TypeOK
  <1>2. CASE q = Session!Away
    BY <1>2 DEF RequestOK, Session!Away
  <1>3. CASE q # Session!Away
    <2>1. /\ q.token \in issued /\ q.token \in Tokens
          /\ q.at \in Nat /\ q.at <= sessionNow /\ sessionNow \in Nat
          /\ lastUse[q.token] \in Nat /\ Idle \in Nat
      BY <1>1, <1>3, SessionAssumption
         DEF RequestOK, SessionInv, Session!TypeOK, Session!Inside, Session!Times
    <2>2. /\ sessionNow' \in Nat /\ lastUse'[q.token] \in Nat
          /\ lastUse[q.token] <= lastUse'[q.token] /\ sessionNow <= sessionNow'
      BY <2>1, SessionAssumption DEF Grows, Session!Times
    <2>3. q.at <= sessionNow'
      BY <2>1, <2>2
    <2>4. q.at <= lastUse[q.token] + Idle => q.at <= lastUse'[q.token] + Idle
      BY <2>1, <2>2
    <2>5. q.token \in issued' /\ (q.token \in ended => q.token \in ended')
      BY <2>1 DEF Grows
    <2>6. rows'[q.token] # Session!None => rows'[q.token].created <= q.at
      BY <1>1, <1>3, <2>1 DEF Grows, RequestOK
    <2> QED  BY <1>1, <1>3, <2>3, <2>4, <2>5, <2>6 DEF RequestOK, Session!Away, Session!None
  <1> QED  BY <1>2, <1>3

\* A row that a step leaves alone stays in order.
LEMMA RowFrame ==
    ASSUME SessionInv, Grows, NEW k \in Tokens, rows'[k] = rows[k],
           rows[k] # Session!None => k \notin ended'
    PROVE  RowOK(k)'
  <1>1. CASE rows[k] = Session!None
    BY <1>1 DEF RowOK, Session!None
  <1>2. CASE rows[k] # Session!None
    <2>1. RowOK(k) /\ rows[k] \in Session!Row
      BY <1>2 DEF SessionInv, Session!TypeOK
    <2>2. /\ rows[k].seen \in Nat /\ sessionNow \in Nat /\ sessionNow' \in Nat
          /\ lastUse[k] \in Nat /\ lastUse'[k] \in Nat
      BY <2>1, SessionAssumption
         DEF SessionInv, Session!TypeOK, Session!Row, Session!Times, Grows
    <2>3. lastUse[k] <= lastUse'[k] /\ sessionNow <= sessionNow' /\ issued \subseteq issued'
      BY <1>2, <2>1 DEF Grows, RowOK
    <2>4. /\ k \in issued /\ rows[k].created <= rows[k].seen
          /\ rows[k].seen <= sessionNow /\ rows[k].seen <= lastUse[k]
      BY <1>2, <2>1 DEF RowOK
    <2>5. rows[k].seen <= sessionNow' /\ rows[k].seen <= lastUse'[k]
      BY <2>2, <2>3, <2>4
    <2> QED  BY <1>2, <2>3, <2>4, <2>5 DEF RowOK
  <1> QED  BY <1>1, <1>2

\* The state after a step is in order if the types, the rows and the requests
\* are.
LEMMA SessionParts ==
    ASSUME SessionInv, Grows, issued' \subseteq Tokens, ended' \subseteq issued',
           request' \in [Requests -> {Session!Away} \cup Session!Inside],
           streamOf' \in [Streams -> {Session!Closed} \cup Session!Live],
           \A k \in Tokens : RowOK(k)',
           \A r \in Requests : RequestOK(request[r])'
    PROVE  SessionInv'
  <1>1. ASSUME NEW k \in Tokens, rows'[k] # Session!None
        PROVE  rows'[k].seen \in rows'[k].created..sessionNow'
    <2>1. rows'[k] \in Session!Row
      BY <1>1 DEF Grows
    <2>2. rows'[k].seen \in Nat /\ rows'[k].created \in Nat /\ sessionNow' \in Nat
      BY <2>1, SessionAssumption DEF Grows, Session!Row, Session!Times
    <2>3. RowOK(k)'
      OBVIOUS
    <2> QED  BY <1>1, <2>2, <2>3 DEF RowOK, Session!None
  <1>2. Session!TypeOK'
    BY <1>1 DEF Session!TypeOK, Grows, Session!Times, Session!Row, Session!None,
                Session!Away, Session!Inside, Session!Closed, Session!Live
  <1> QED  BY <1>2 DEF SessionInv

\* Steps that leave the clock, the rows and the observations alone: only the
\* requests and the streams change.
LEMMA RequestsOnly ==
    ASSUME SessionInv, UNCHANGED <<sessionNow, rows, issued, ended, lastUse>>,
           request' \in [Requests -> {Session!Away} \cup Session!Inside],
           streamOf' \in [Streams -> {Session!Closed} \cup Session!Live],
           \A r \in Requests : request'[r] = request[r] \/ RequestOK(request[r])'
    PROVE  SessionInv'
  <1>1. Grows
    BY SessionAssumption DEF Grows, SessionInv, Session!TypeOK, Session!Times
  <1>2. \A k \in Tokens : RowOK(k)'
    BY DEF SessionInv, RowOK, Session!None
  <1>3. \A r \in Requests : RequestOK(request[r])'
    BY <1>1, RequestFrame
  <1>4. issued' \subseteq Tokens /\ ended' \subseteq issued'
    BY DEF SessionInv, Session!TypeOK
  <1> QED  BY <1>1, <1>2, <1>3, <1>4, SessionParts

\* Statements that delete the row of a session, or fail to.
LEMMA DeleteStep ==
    ASSUME SessionInv, NEW k \in Tokens, Session!Delete(k),
           UNCHANGED <<sessionNow, issued, lastUse>>,
           request' \in [Requests -> {Session!Away} \cup Session!Inside],
           streamOf' \in [Streams -> {Session!Closed} \cup Session!Live],
           \A r \in Requests : request'[r] = request[r] \/ request'[r] = Session!Away
    PROVE  SessionInv'
  <1>1. CASE UNCHANGED <<rows, ended>>
    <2>1. \A r \in Requests : request'[r] = request[r] \/ RequestOK(request[r])'
      BY DEF RequestOK, Session!Away
    <2> QED  BY <1>1, <2>1, RequestsOnly
  <1>2. CASE /\ rows' = [rows EXCEPT ![k] = Session!None]
             /\ ended' = IF rows[k] # Session!None THEN ended \cup {k} ELSE ended
    <2>1. rows \in [Tokens -> Session!Row \cup {Session!None}] /\ RowOK(k)
      BY DEF SessionInv, Session!TypeOK
    <2>2. /\ rows' \in [Tokens -> Session!Row \cup {Session!None}]
          /\ rows'[k] = Session!None
          /\ \A j \in Tokens \ {k} : rows'[j] = rows[j]
      BY <1>2, <2>1
    <2>3. /\ issued' \subseteq Tokens /\ ended' \subseteq issued' /\ ended \subseteq ended'
          /\ ended' \subseteq ended \cup {k}
      BY <1>2, <2>1 DEF SessionInv, Session!TypeOK, RowOK
    <2>4. \A t \in Session!Times : t <= t
      BY SessionAssumption DEF Session!Times
    <2>5. Grows
      BY <2>2, <2>3, <2>4 DEF Grows, SessionInv, Session!TypeOK
    <2>6. ASSUME NEW j \in Tokens
          PROVE  RowOK(j)'
      <3>1. CASE j = k
        BY <2>2, <3>1 DEF RowOK, Session!None
      <3>2. CASE j # k
        <4>1. rows'[j] = rows[j] /\ (rows[j] # Session!None => j \notin ended')
          BY <2>2, <2>3, <3>2 DEF SessionInv, RowOK
        <4> QED  BY <2>5, <4>1, RowFrame
      <3> QED  BY <3>1, <3>2
    <2>7. ASSUME NEW r \in Requests
          PROVE  RequestOK(request[r])'
      <3>1. CASE request'[r] = request[r]
        BY <2>5, <3>1, RequestFrame
      <3>2. CASE request'[r] = Session!Away
        BY <3>2 DEF RequestOK, Session!Away
      <3> QED  BY <3>1, <3>2
    <2> QED  BY <2>3, <2>5, <2>6, <2>7, SessionParts
  <1> QED  BY <1>1, <1>2 DEF Session!Delete, Session!HasRow

\* A login inserts the row of a token that never had one (CreateSession).
LEMMA LoginStep ==
    ASSUME SessionInv, NEW k \in Tokens, NEW ip \in Peers, Session!Login(k, ip)
    PROVE  SessionInv'
  <1> DEFINE row == [ip |-> ip, created |-> sessionNow, seen |-> sessionNow]
  <1>0. sessionNow \in Session!Times /\ sessionNow \in Nat
        /\ \A t \in Session!Times : t \in Nat
    BY SessionAssumption DEF SessionInv, Session!TypeOK, Session!Times
  <1>1. /\ k \notin issued /\ issued' = issued \cup {k}
        /\ rows' = [rows EXCEPT ![k] = row]
        /\ lastUse' = [lastUse EXCEPT ![k] = sessionNow]
        /\ UNCHANGED <<sessionNow, request, streamOf, ended>>
    BY DEF Session!Login
  <1>2. row \in Session!Row /\ row.created = sessionNow /\ row.seen = sessionNow
    BY <1>0 DEF Session!Row
  <1>3. /\ rows \in [Tokens -> Session!Row \cup {Session!None}]
        /\ lastUse \in [Tokens -> Session!Times]
        /\ issued \subseteq Tokens /\ ended \subseteq issued
    BY DEF SessionInv, Session!TypeOK
  <1> HIDE DEF row
  <1>4. /\ rows' \in [Tokens -> Session!Row \cup {Session!None}] /\ rows'[k] = row
        /\ \A j \in Tokens \ {k} : rows'[j] = rows[j]
        /\ lastUse' \in [Tokens -> Session!Times] /\ lastUse'[k] = sessionNow
        /\ \A j \in Tokens \ {k} : lastUse'[j] = lastUse[j]
    BY <1>0, <1>1, <1>2, <1>3
  <1>5. Grows
    <2>1. ASSUME NEW j \in issued
          PROVE  lastUse[j] <= lastUse'[j]
      <3>1. j \in Tokens \ {k} /\ lastUse[j] \in Nat
        BY <1>0, <1>1, <1>3
      <3> QED  BY <1>4, <3>1
    <2> QED  BY <1>0, <1>1, <1>3, <1>4, <2>1 DEF Grows
  <1>6. ASSUME NEW j \in Tokens
        PROVE  RowOK(j)'
    <2>1. CASE j = k
      BY <1>0, <1>1, <1>2, <1>3, <1>4, <2>1 DEF RowOK
    <2>2. CASE j # k
      <3>1. rows'[j] = rows[j] /\ (rows[j] # Session!None => j \notin ended')
        BY <1>1, <1>4, <2>2 DEF SessionInv, RowOK
      <3> QED  BY <1>5, <3>1, RowFrame
    <2> QED  BY <2>1, <2>2
  <1>7. \A r \in Requests : RequestOK(request[r])'
    BY <1>1, <1>5, RequestFrame
  <1>8. issued' \subseteq Tokens /\ ended' \subseteq issued'
    BY <1>1, <1>3
  <1>9. /\ request' \in [Requests -> {Session!Away} \cup Session!Inside]
        /\ streamOf' \in [Streams -> {Session!Closed} \cup Session!Live]
    BY <1>1 DEF SessionInv, Session!TypeOK
  <1> QED  BY <1>5, <1>6, <1>7, <1>8, <1>9, SessionParts

\* The clock moves on (Tick).
LEMMA SessionTickStep ==
    ASSUME SessionInv, Session!Tick
    PROVE  SessionInv'
  <1>1. /\ sessionNow' = sessionNow + 1 /\ sessionNow < MaxSessionTime
        /\ UNCHANGED <<rows, request, streamOf, issued, ended, lastUse>>
    BY DEF Session!Tick
  <1>2. sessionNow' \in Session!Times /\ sessionNow <= sessionNow'
    BY <1>1, SessionAssumption DEF SessionInv, Session!TypeOK, Session!Times
  <1>3. \A t \in Session!Times : t <= t
    BY SessionAssumption DEF Session!Times
  <1>4. Grows
    <2>1. /\ rows \in [Tokens -> Session!Row \cup {Session!None}]
          /\ lastUse \in [Tokens -> Session!Times] /\ issued \subseteq Tokens
      BY DEF SessionInv, Session!TypeOK
    <2> QED  BY <1>1, <1>2, <1>3, <2>1 DEF Grows
  <1>5. \A k \in Tokens : RowOK(k)'
    BY <1>1, <1>4, RowFrame DEF SessionInv, RowOK
  <1>6. \A r \in Requests : RequestOK(request[r])'
    BY <1>1, <1>4, RequestFrame
  <1> QED  BY <1>1, <1>4, <1>5, <1>6, SessionParts DEF SessionInv, Session!TypeOK

\* The prune ends the sessions whose rows are a day old (RollupAndPrune).
LEMMA SessionPruneStep ==
    ASSUME SessionInv, Session!Prune
    PROVE  SessionInv'
  <1> DEFINE over == {k \in Tokens : rows[k] # Session!None
                                     /\ rows[k].created + Retention < sessionNow}
  <1>1. /\ rows' = [k \in Tokens |-> IF k \in over THEN Session!None ELSE rows[k]]
        /\ ended' = ended \cup over
        /\ UNCHANGED <<sessionNow, request, streamOf, issued, lastUse>>
    BY DEF Session!Prune, Session!HasRow
  <1>2. /\ rows \in [Tokens -> Session!Row \cup {Session!None}]
        /\ issued \subseteq Tokens /\ ended \subseteq issued
    BY DEF SessionInv, Session!TypeOK
  <1>3. over \subseteq issued
    BY DEF SessionInv, RowOK
  <1> HIDE DEF over
  <1>4. \A t \in Session!Times : t <= t
    BY SessionAssumption DEF Session!Times
  <1>5. /\ rows' \in [Tokens -> Session!Row \cup {Session!None}]
        /\ \A k \in Tokens : \/ rows'[k] = Session!None
                             \/ rows'[k] = rows[k] /\ k \notin over
    BY <1>1, <1>2
  <1>6. Grows
    BY <1>1, <1>2, <1>4, <1>5 DEF Grows, SessionInv, Session!TypeOK
  <1>7. ASSUME NEW k \in Tokens
        PROVE  RowOK(k)'
    <2>1. CASE rows'[k] = Session!None
      BY <2>1 DEF RowOK, Session!None
    <2>2. CASE rows'[k] = rows[k] /\ k \notin over
      <3>1. rows[k] # Session!None => k \notin ended'
        BY <1>1, <2>2 DEF SessionInv, RowOK
      <3> QED  BY <1>6, <2>2, <3>1, RowFrame
    <2> QED  BY <1>5, <2>1, <2>2
  <1>8. \A r \in Requests : RequestOK(request[r])'
    BY <1>1, <1>6, RequestFrame
  <1>9. issued' \subseteq Tokens /\ ended' \subseteq issued'
    BY <1>1, <1>2, <1>3
  <1>10. /\ request' \in [Requests -> {Session!Away} \cup Session!Inside]
         /\ streamOf' \in [Streams -> {Session!Closed} \cup Session!Live]
    BY <1>1 DEF SessionInv, Session!TypeOK
  <1> QED  BY <1>6, <1>7, <1>8, <1>9, <1>10, SessionParts

\* A request that is somewhere inside requireAuth, or behind it.
LEMMA InsideRequest ==
    ASSUME SessionInv, NEW r \in Requests, request[r].pc # "idle"
    PROVE  /\ request[r] \in Session!Inside /\ request[r] # Session!Away
           /\ RequestOK(request[r]) /\ request[r].token \in Tokens
  <1>1. request[r] \in {Session!Away} \cup Session!Inside /\ RequestOK(request[r])
    BY DEF SessionInv, Session!TypeOK
  <1>2. request[r] # Session!Away
    BY DEF Session!Away
  <1> QED  BY <1>1, <1>2 DEF Session!Inside

\* A request goes to another point with the same cookie, time and history.
LEMMA RequestMoves ==
    ASSUME SessionInv, NEW r \in Requests, request[r].pc # "idle",
           NEW pc \in {"begun", "admitted", "refused", "serving"}, NEW same \in BOOLEAN,
           request' = [request EXCEPT ![r].pc = pc, ![r].same = same]
    PROVE  /\ request' \in [Requests -> {Session!Away} \cup Session!Inside]
           /\ \A p \in Requests \ {r} : request'[p] = request[p]
           /\ request'[r] # Session!Away
           /\ request'[r].pc = pc /\ request'[r].token = request[r].token
           /\ request'[r].at = request[r].at /\ request'[r].late = request[r].late
  <1> DEFINE new == [request[r] EXCEPT !.pc = pc, !.same = same]
  <1>1. request[r] \in Session!Inside
    BY InsideRequest
  <1>2. /\ new \in Session!Inside /\ new.pc = pc /\ new.token = request[r].token
        /\ new.at = request[r].at /\ new.late = request[r].late
    BY <1>1 DEF Session!Inside
  <1>3. request \in [Requests -> {Session!Away} \cup Session!Inside]
    BY DEF SessionInv, Session!TypeOK
  <1>4. request' = [request EXCEPT ![r] = new]
    BY <1>3
  <1> HIDE DEF new
  <1>5. new # Session!Away
    BY <1>2 DEF Session!Away
  <1>6. /\ request' \in [Requests -> {Session!Away} \cup Session!Inside]
        /\ request'[r] = new
        /\ \A p \in Requests \ {r} : request'[p] = request[p]
    BY <1>2, <1>3, <1>4
  <1> QED  BY <1>2, <1>5, <1>6

\* Selecting the row admits a request only if the session has a row, has not
\* ended, and was used at most Idle ago (session()).
LEMMA SelectStep ==
    ASSUME SessionInv, NEW r \in Requests, Session!SelectRow(r) \/ Session!SelectFails(r)
    PROVE  SessionInv'
  <1> DEFINE q == request[r]
             row == rows[q.token]
             ok == row # Session!None /\ ~Session!Expired(row, q.at)
  <1>1. /\ q.pc = "begun" /\ UNCHANGED <<sessionNow, rows, issued, ended, lastUse, streamOf>>
    BY DEF Session!SelectRow, Session!SelectFails
  <1>2. q \in Session!Inside /\ RequestOK(q) /\ q.token \in Tokens /\ q # Session!Away
    BY <1>1, InsideRequest
  <1>3. \E pc \in {"begun", "admitted", "refused", "serving"}, same \in BOOLEAN :
          /\ request' = [request EXCEPT ![r].pc = pc, ![r].same = same]
          /\ pc \in {"admitted", "refused"} /\ (pc = "admitted" => ok)
    <2>1. CASE Session!SelectRow(r)
      BY <2>1 DEF Session!SelectRow, Session!HasRow
    <2>2. CASE Session!SelectFails(r)
      <3>1. request' = [request EXCEPT ![r].pc = "refused"] /\ q.same \in BOOLEAN
        BY <1>2, <2>2 DEF Session!SelectFails, Session!Inside
      <3>2. [request EXCEPT ![r].pc = "refused"]
               = [request EXCEPT ![r].pc = "refused", ![r].same = q.same]
        BY <1>2 DEF SessionInv, Session!TypeOK, Session!Inside
      <3> QED  BY <3>1, <3>2
    <2> QED  BY <2>1, <2>2
  <1>4. PICK pc \in {"begun", "admitted", "refused", "serving"}, same \in BOOLEAN :
          /\ request' = [request EXCEPT ![r].pc = pc, ![r].same = same]
          /\ pc \in {"admitted", "refused"} /\ (pc = "admitted" => ok)
    BY <1>3
  <1>5. /\ request' \in [Requests -> {Session!Away} \cup Session!Inside]
        /\ \A p \in Requests \ {r} : request'[p] = request[p]
        /\ request'[r] # Session!Away
        /\ request'[r].pc = pc /\ request'[r].token = q.token
        /\ request'[r].at = q.at /\ request'[r].late = q.late
    BY <1>1, <1>4, RequestMoves
  <1>6. ok => ~q.late /\ q.at <= lastUse[q.token] + Idle
    <2> SUFFICES ASSUME ok PROVE ~q.late /\ q.at <= lastUse[q.token] + Idle
      OBVIOUS
    <2>1. RowOK(q.token) /\ row \in Session!Row
      BY <1>2 DEF SessionInv, Session!TypeOK
    <2>2. q.token \notin ended /\ row.seen <= lastUse[q.token]
      BY <2>1 DEF RowOK
    <2>3. ~(q.at > row.seen + Idle)
      BY DEF Session!Expired
    <2>4. /\ q.at \in Nat /\ row.seen \in Nat /\ lastUse[q.token] \in Nat /\ Idle \in Nat
      BY <1>2, <2>1, SessionAssumption
         DEF Session!Inside, Session!Row, Session!Times, SessionInv, Session!TypeOK
    <2>5. q.at <= lastUse[q.token] + Idle
      BY <2>2, <2>3, <2>4
    <2> QED  BY <1>2, <2>2, <2>5 DEF RequestOK
  <1> HIDE DEF ok
  <1>7. RequestOK(request[r])'
    BY <1>1, <1>2, <1>4, <1>5, <1>6 DEF RequestOK, Session!Away, Session!None
  <1>8. streamOf' \in [Streams -> {Session!Closed} \cup Session!Live]
    BY <1>1 DEF SessionInv, Session!TypeOK
  <1> QED  BY <1>1, <1>5, <1>7, <1>8, RequestsOnly

\* Touching the row writes the clock read when the request began, which is not
\* before its session was created, and writes nothing when the row has gone.
LEMMA TouchStep ==
    ASSUME SessionInv, NEW r \in Requests, Session!Touch(r) \/ Session!TouchFails(r)
    PROVE  SessionInv'
  <1> DEFINE q == request[r]
             k == request[r].token
             row == rows[k]
             use == IF q.at > lastUse[k] THEN q.at ELSE lastUse[k]
  <1>1. /\ q.pc = "admitted" /\ UNCHANGED <<sessionNow, issued, ended, streamOf>>
        /\ request' = [request EXCEPT ![r].pc = IF q.same THEN "serving" ELSE "refused"]
        /\ lastUse' = [lastUse EXCEPT ![k] = use]
        /\ \/ rows' = rows
           \/ row # Session!None /\ rows' = [rows EXCEPT ![k].seen = q.at]
    BY DEF Session!Touch, Session!TouchFails, Session!Judge, Session!HasRow
  <1>2. q \in Session!Inside /\ RequestOK(q) /\ k \in Tokens /\ q # Session!Away
    BY <1>1, InsideRequest
  <1>3. /\ rows \in [Tokens -> Session!Row \cup {Session!None}]
        /\ lastUse \in [Tokens -> Session!Times] /\ sessionNow \in Session!Times
        /\ issued \subseteq Tokens /\ ended \subseteq issued
        /\ \A t \in Session!Times : t \in Nat /\ t <= t
    BY SessionAssumption DEF SessionInv, Session!TypeOK, Session!Times
  <1>4. /\ k \in issued /\ q.at \in Session!Times /\ q.at <= sessionNow
        /\ row # Session!None => row.created <= q.at
        /\ ~q.late
    BY <1>1, <1>2 DEF RequestOK, Session!Inside
  <1>5. use \in Session!Times /\ lastUse[k] <= use /\ q.at <= use
    BY <1>2, <1>3, <1>4
  <1>6. /\ lastUse' \in [Tokens -> Session!Times] /\ lastUse'[k] = use
        /\ \A j \in Tokens \ {k} : lastUse'[j] = lastUse[j]
    <2> HIDE DEF use, k, q
    <2> QED  BY <1>1, <1>2, <1>3, <1>5
  <1>7. /\ rows' \in [Tokens -> Session!Row \cup {Session!None}]
        /\ \A j \in Tokens \ {k} : rows'[j] = rows[j]
        /\ \/ rows'[k] = row
           \/ /\ row # Session!None /\ rows'[k] # Session!None
              /\ rows'[k].created = row.created /\ rows'[k].seen = q.at
    <2>1. CASE rows' = rows
      BY <1>3, <2>1
    <2>2. CASE row # Session!None /\ rows' = [rows EXCEPT ![k].seen = q.at]
      <3> DEFINE new == [row EXCEPT !.seen = q.at]
      <3>1. row \in Session!Row
        BY <1>2, <1>3, <2>2
      <3>2. new \in Session!Row /\ new.created = row.created /\ new.seen = q.at
        BY <1>4, <3>1 DEF Session!Row
      <3>3. rows' = [rows EXCEPT ![k] = new]
        BY <2>2
      <3>4. new # Session!None
        BY <3>2 DEF Session!Row, Session!None
      <3> HIDE DEF new
      <3> QED  BY <1>2, <1>3, <2>2, <3>2, <3>3, <3>4
    <2> QED  BY <1>1, <2>1, <2>2
  <1>8. Grows
    <2>1. ASSUME NEW j \in issued
          PROVE  /\ lastUse[j] <= lastUse'[j]
                 /\ rows'[j] # Session!None =>
                       rows[j] # Session!None /\ rows'[j].created = rows[j].created
      <3>1. CASE j = k
        BY <1>5, <1>6, <1>7, <3>1
      <3>2. CASE j # k
        <4>1. j \in Tokens \ {k} /\ lastUse[j] \in Session!Times
          BY <1>3, <3>2
        <4> QED  BY <1>3, <1>6, <1>7, <4>1
      <3> QED  BY <3>1, <3>2
    <2> QED  BY <1>1, <1>3, <1>6, <1>7, <2>1 DEF Grows
  <1>9. ASSUME NEW j \in Tokens, rows'[j] = rows[j]
        PROVE  RowOK(j)'
    <2>1. rows[j] # Session!None => j \notin ended'
      BY <1>1 DEF SessionInv, RowOK
    <2> QED  BY <1>8, <1>9, <2>1, RowFrame
  <1>10. ASSUME NEW j \in Tokens
         PROVE  RowOK(j)'
    <2>1. CASE j # k \/ rows'[k] = row
      BY <1>7, <1>9, <2>1
    <2>2. CASE /\ j = k /\ row # Session!None /\ rows'[k] # Session!None
               /\ rows'[k].created = row.created /\ rows'[k].seen = q.at
      <3>1. j \in issued' \ ended'
        BY <1>1, <1>2, <2>2 DEF SessionInv, RowOK
      <3>2. rows'[j].created <= q.at /\ rows'[j].seen = q.at /\ q.at <= lastUse'[j]
            /\ q.at <= sessionNow'
        BY <1>1, <1>4, <1>5, <1>6, <2>2
      <3> QED  BY <3>1, <3>2 DEF RowOK
    <2> QED  BY <1>7, <2>1, <2>2
  <1>11. /\ request' \in [Requests -> {Session!Away} \cup Session!Inside]
         /\ \A p \in Requests \ {r} : request'[p] = request[p]
         /\ request'[r] # Session!Away /\ request'[r].pc \in {"serving", "refused"}
         /\ request'[r].token = k /\ request'[r].at = q.at /\ request'[r].late = q.late
    <2> DEFINE pc == IF q.same THEN "serving" ELSE "refused"
    <2>1. q.same \in BOOLEAN /\ pc \in {"begun", "admitted", "refused", "serving"}
      BY <1>2 DEF Session!Inside
    <2>2. request' = [request EXCEPT ![r].pc = pc, ![r].same = q.same]
      BY <1>1, <1>2 DEF SessionInv, Session!TypeOK, Session!Inside
    <2>3. pc \in {"serving", "refused"}
      OBVIOUS
    <2> HIDE DEF pc
    <2> QED  BY <1>1, <2>1, <2>2, <2>3, RequestMoves
  <1>12. RequestOK(request[r])'
    <2>1. rows'[k] # Session!None => rows'[k].created <= q.at
      BY <1>4, <1>7
    <2> QED  BY <1>1, <1>4, <1>11, <2>1 DEF RequestOK, Session!None
  <1>13. ASSUME NEW p \in Requests
         PROVE  RequestOK(request[p])'
    <2>1. CASE p = r
      BY <1>12, <2>1 DEF RequestOK
    <2>2. CASE p # r
      BY <1>8, <1>11, <2>2, RequestFrame
    <2> QED  BY <2>1, <2>2
  <1>14. /\ issued' \subseteq Tokens /\ ended' \subseteq issued'
         /\ streamOf' \in [Streams -> {Session!Closed} \cup Session!Live]
    BY <1>1, <1>3 DEF SessionInv, Session!TypeOK
  <1> QED  BY <1>8, <1>10, <1>11, <1>13, <1>14, SessionParts

\* Every step of the sessions keeps them in order.
LEMMA SessionStep ==
    ASSUME SessionInv, [Session!Next]_sessions
    PROVE  SessionInv'
  <1>0. /\ request \in [Requests -> {Session!Away} \cup Session!Inside]
        /\ streamOf \in [Streams -> {Session!Closed} \cup Session!Live]
        /\ \A r \in Requests : RequestOK(request[r])
    BY DEF SessionInv, Session!TypeOK
  <1>1. ASSUME UNCHANGED <<sessionNow, rows, request, issued, ended, lastUse>>,
               streamOf' \in [Streams -> {Session!Closed} \cup Session!Live]
        PROVE  SessionInv'
    BY <1>0, <1>1, RequestsOnly
  <1>2. ASSUME NEW r \in Requests, NEW k \in Tokens, NEW ip \in Peers,
               Session!BeginRequest(r, k, ip)
        PROVE  SessionInv'
    <2> DEFINE new == [pc |-> "begun", token |-> k, ip |-> ip, at |-> sessionNow,
                       late |-> k \in ended, same |-> FALSE]
    <2>1. /\ k \in issued /\ request' = [request EXCEPT ![r] = new]
          /\ UNCHANGED <<sessionNow, rows, streamOf, issued, ended, lastUse>>
      BY <1>2 DEF Session!BeginRequest
    <2>2. sessionNow \in Session!Times
      BY DEF SessionInv, Session!TypeOK
    <2>3. new \in Session!Inside
      BY <2>2 DEF Session!Inside
    <2>4. sessionNow <= sessionNow
      BY <2>2, SessionAssumption DEF Session!Times
    <2>5. rows[k] # Session!None => rows[k].created <= sessionNow
      <3>1. CASE rows[k] # Session!None
        <4>1. rows[k] \in Session!Row /\ RowOK(k)
          BY <3>1 DEF SessionInv, Session!TypeOK
        <4>2. /\ rows[k].created \in Nat /\ rows[k].seen \in Nat /\ sessionNow \in Nat
          BY <2>2, <4>1, SessionAssumption DEF Session!Row, Session!Times
        <4> QED  BY <3>1, <4>1, <4>2 DEF RowOK
      <3> QED  BY <3>1
    <2>6. RequestOK(new)
      BY <2>1, <2>4, <2>5 DEF RequestOK, Session!None
    <2>7. request'[r] = new /\ RequestOK(request[r])'
      BY <1>0, <2>1, <2>6 DEF RequestOK, Session!Away, Session!None
    <2>8. \A p \in Requests \ {r} : request'[p] = request[p]
      BY <1>0, <2>1
    <2>9. request' \in [Requests -> {Session!Away} \cup Session!Inside]
      BY <1>0, <2>1, <2>3
    <2> QED  BY <1>0, <2>1, <2>7, <2>8, <2>9, RequestsOnly
  <1>3. ASSUME NEW r \in Requests, Session!Respond(r)
        PROVE  SessionInv'
    <2>1. /\ request' = [request EXCEPT ![r] = Session!Away]
          /\ UNCHANGED <<sessionNow, rows, streamOf, issued, ended, lastUse>>
      BY <1>3 DEF Session!Respond
    <2>2. \A p \in Requests : request'[p] = request[p] \/ RequestOK(request[p])'
      BY <1>0, <2>1 DEF RequestOK, Session!Away
    <2>3. request' \in [Requests -> {Session!Away} \cup Session!Inside]
      BY <1>0, <2>1
    <2> QED  BY <1>0, <2>1, <2>2, <2>3, RequestsOnly
  <1>4. ASSUME NEW r \in Requests, Session!Refuse(r) \/ Session!Logout(r)
        PROVE  SessionInv'
    <2>1. /\ request[r].pc # "idle" /\ Session!Delete(request[r].token)
          /\ request' = [request EXCEPT ![r] = Session!Away]
          /\ UNCHANGED <<sessionNow, streamOf, issued, lastUse>>
      BY <1>4 DEF Session!Refuse, Session!Logout
    <2>2. request[r].token \in Tokens
      BY <2>1, InsideRequest
    <2>3. /\ request' \in [Requests -> {Session!Away} \cup Session!Inside]
          /\ \A p \in Requests : request'[p] = request[p] \/ request'[p] = Session!Away
      BY <1>0, <2>1
    <2>4. \A k \in Tokens : Session!Delete(k) => SessionInv'
      BY <1>0, <2>1, <2>3, DeleteStep
    <2> QED  BY <2>1, <2>2, <2>4
  <1>5. ASSUME NEW r \in Requests, NEW s \in Streams, Session!OpenStream(r, s)
        PROVE  SessionInv'
    <2> DEFINE new == [pc |-> "open", token |-> request[r].token, ip |-> request[r].ip]
    <2>1. /\ request[r].pc = "serving"
          /\ streamOf' = [streamOf EXCEPT ![s] = new]
          /\ request' = [request EXCEPT ![r] = Session!Away]
          /\ UNCHANGED <<sessionNow, rows, issued, ended, lastUse>>
      BY <1>5 DEF Session!OpenStream
    <2>2. request[r] \in Session!Inside
      BY <2>1, InsideRequest
    <2>3. new \in Session!Live
      BY <2>2 DEF Session!Inside, Session!Live
    <2>4. streamOf' \in [Streams -> {Session!Closed} \cup Session!Live]
      BY <1>0, <2>1, <2>3
    <2>5. \A p \in Requests : request'[p] = request[p] \/ RequestOK(request[p])'
      BY <1>0, <2>1 DEF RequestOK, Session!Away
    <2>6. request' \in [Requests -> {Session!Away} \cup Session!Inside]
      BY <1>0, <2>1
    <2> QED  BY <2>1, <2>4, <2>5, <2>6, RequestsOnly
  <1>6. ASSUME NEW s \in Streams, Session!AuthTick(s) \/ Session!CloseStream(s)
        PROVE  SessionInv'
    <2>1. /\ streamOf[s].pc = "open"
          /\ UNCHANGED <<sessionNow, rows, request, issued, ended, lastUse>>
          /\ \/ streamOf' = streamOf \/ streamOf' = [streamOf EXCEPT ![s] = Session!Closed]
             \/ streamOf' = [streamOf EXCEPT ![s].pc = "expired"]
      <3>1. CASE Session!CloseStream(s)
        BY <3>1 DEF Session!CloseStream
      <3>2. CASE Session!AuthTick(s)
        BY <3>2 DEF Session!AuthTick
      <3> QED  BY <1>6, <3>1, <3>2
    <2>2. streamOf[s] \in Session!Live
      BY <1>0, <2>1 DEF Session!Closed
    <2>3. [streamOf[s] EXCEPT !.pc = "expired"] \in Session!Live
      BY <2>2 DEF Session!Live
    <2>4. streamOf' \in [Streams -> {Session!Closed} \cup Session!Live]
      BY <1>0, <2>1, <2>3
    <2> QED  BY <1>1, <2>1, <2>4
  <1>7. ASSUME NEW s \in Streams, Session!DeleteExpired(s)
        PROVE  SessionInv'
    <2>1. /\ streamOf[s].pc = "expired" /\ Session!Delete(streamOf[s].token)
          /\ streamOf' = [streamOf EXCEPT ![s] = Session!Closed]
          /\ UNCHANGED <<sessionNow, request, issued, lastUse>>
      BY <1>7 DEF Session!DeleteExpired
    <2>2. streamOf[s].token \in Tokens
      BY <1>0, <2>1 DEF Session!Live, Session!Closed
    <2>3. streamOf' \in [Streams -> {Session!Closed} \cup Session!Live]
      BY <1>0, <2>1
    <2>4. \A k \in Tokens : Session!Delete(k) => SessionInv'
      BY <1>0, <2>1, <2>3, DeleteStep
    <2> QED  BY <2>1, <2>2, <2>4
  <1>8. ASSUME Session!RestartMonitor
        PROVE  SessionInv'
    <2>1. /\ request' = [r \in Requests |-> Session!Away]
          /\ streamOf' = [s \in Streams |-> Session!Closed]
          /\ UNCHANGED <<sessionNow, rows, issued, ended, lastUse>>
      BY <1>8 DEF Session!RestartMonitor
    <2>2. \A p \in Requests : RequestOK(request[p])'
      BY <2>1 DEF RequestOK, Session!Away
    <2> QED  BY <2>1, <2>2, RequestsOnly
  <1>9. CASE UNCHANGED sessions
    BY <1>0, <1>1, <1>9 DEF sessions
  <1> QED
    BY <1>2, <1>3, <1>4, <1>5, <1>6, <1>7, <1>8, <1>9, SessionTickStep, SessionPruneStep,
       LoginStep, SelectStep, TouchStep DEF Session!Next

-----------------------------------------------------------------------------
(* The theorems.                                                           *)

\* A step of authentication is a step of the guard and of the sessions, one of
\* which stutters.
LEMMA Halves ==
    ASSUME [AuthenticationNext]_both
    PROVE  [Next]_vars /\ [Session!Next]_sessions
  BY DEF AuthenticationNext, InSessions, both, vars, sessions

\* The first state of the sessions has no row, no request and no stream.
LEMMA SessionInit == Session!Init => SessionInv
  <1> SUFFICES ASSUME Session!Init PROVE SessionInv
    OBVIOUS
  <1>1. 0 \in Session!Times
    BY SessionAssumption DEF Session!Times
  <1> QED
    BY <1>1 DEF Session!Init, SessionInv, Session!TypeOK, RowOK, RequestOK, Session!None,
                Session!Away, Session!Closed

\* The two halves keep their invariants, however their steps interleave.
THEOREM AuthenticationInvariant == AuthenticationSpec => [](GuardInv /\ SessionInv)
  <1>1. AuthenticationInit => GuardInv /\ SessionInv
    BY GuardInit, SessionInit DEF AuthenticationInit
  <1>2. GuardInv /\ SessionInv /\ [AuthenticationNext]_both => GuardInv' /\ SessionInv'
    BY GuardStep, SessionStep, Halves
  <1> QED  BY <1>1, <1>2, PTL DEF AuthenticationSpec

\* Threshold failures in the window that ends now, and one more for each statement
\* that failed, mean a ban now, for any number of handlers and addresses, however
\* they interleave (LoginFailed).
THEOREM EnoughFailuresBan == AuthenticationSpec => []FailuresMeanBan
  <1>1. GuardInv => FailuresMeanBan
    BY GuardAssumption DEF GuardInv, TypeOK, Times, BanOutlastsWindow, FailuresMeanBan, IsBanned
  <1> QED  BY <1>1, AuthenticationInvariant, PTL

\* An address gets at most one more failure per handler than the ones that ban
\* it: the handlers that had passed IsBanned when the ban was given (login); and
\* one more for each statement that failed, the unread bans of IsBanned included.
THEOREM GuessingIsBounded == AuthenticationSpec => []BoundedGuessing
  <1>1. GuardInv => BoundedGuessing
    <2> SUFFICES ASSUME GuardInv, NEW ip \in Addresses
                 PROVE  Recent(failures[ip], now)
                           < Threshold + Cardinality(Handlers) + mishaps[ip]
      BY DEF BoundedGuessing
    <2>1. TypeOK /\ ClocksOK /\ now \in Nat /\ Threshold \in Nat /\ mishaps[ip] \in Nat
      BY GuardAssumption DEF GuardInv, TypeOK, Times
    <2>2. Recent(failures[ip], now) \in Nat
      BY <2>1, RowsAreFinite, RecentFacts
    <2>3. Cardinality(InFlight(ip)) \in Nat /\ Cardinality(Handlers) \in Nat
      BY InFlightIsFinite
    <2>4. Recent(failures[ip], now) + Cardinality(InFlight(ip))
             < Threshold + Cardinality(Handlers) + mishaps[ip]
      BY DEF GuardInv, GuessesLeft
    <2> QED  BY <2>1, <2>2, <2>3, <2>4
  <1> QED  BY <1>1, AuthenticationInvariant, PTL

\* No login, prune or restart moves the end of a running ban back, but for the lag
\* of a handler's clock at the cap of the strikes, and for a transaction that could
\* not read the strikes and gives a first ban again (LoginFailed).
THEOREM BansRunTheirTime == AuthenticationSpec => BanRunsItsTime
  <1>1. GuardInv /\ [AuthenticationNext]_both =>
          [\A ip \in Addresses : IsBanned(ip) =>
              \/ bans'[ip].until >= bans[ip].until
              \/ /\ bans[ip].strikes = MaxStrikes /\ bans'[ip].strikes = MaxStrikes
                 /\ bans'[ip].until + 1 >= bans[ip].until
              \/ mishaps'[ip] > mishaps[ip] /\ bans'[ip].strikes = 1]_vars
    BY BanKept, Halves DEF BanEndKept
  <1> QED  BY <1>1, AuthenticationInvariant, PTL DEF AuthenticationSpec, BanRunsItsTime

\* No request is served that began after its session had ended, whatever
\* requests, streams and prunes do between its statements (requireAuth).
THEOREM NoEntryWithoutSession == AuthenticationSpec => []NoEntryAfterEnd
  <1>1. SessionInv => NoEntryAfterEnd
    <2> SUFFICES ASSUME SessionInv, NEW r \in Requests, request[r].pc = "serving"
                 PROVE  ~request[r].late
      BY DEF SessionInv, NoEntryAfterEnd, Session!NoEntryAfterEnd
    <2> QED  BY InsideRequest DEF RequestOK
  <1> QED  BY <1>1, AuthenticationInvariant, PTL

\* No request is served that began more than Idle after the latest request of
\* its session (session() judges the row, SessionActive does not touch it).
THEOREM IdleSessionsAreNotServed == AuthenticationSpec => ServedWhileActive
  <1>1. SessionInv /\ [AuthenticationNext]_both =>
          [\A r \in Requests :
             request[r].pc = "admitted" /\ request'[r].pc = "serving" =>
               request[r].at <= lastUse[request[r].token] + Idle]_Session!vars
    <2> SUFFICES ASSUME SessionInv, NEW r \in Requests, request[r].pc = "admitted"
                 PROVE  request[r].at <= lastUse[request[r].token] + Idle
      OBVIOUS
    <2> QED  BY InsideRequest DEF RequestOK
  <1> QED  BY <1>1, AuthenticationInvariant, PTL
           DEF AuthenticationSpec, ServedWhileActive, Session!ServedWhileActive
=============================================================================
