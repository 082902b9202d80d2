------------------------------ MODULE LiveView ------------------------------
(***************************************************************************)
(* The way of an inventory (timers, services, containers) to the screen:   *)
(* background refreshes fill the agent's lists (agent/collector.go), the   *)
(* collect loop publishes a snapshot of them every second, stream sends it *)
(* through a channel of two to each browser (app/server.go), and the       *)
(* browser shows the latest frame or overview answer until its session     *)
(* ends (MonitorStore.ts, ApiClient.ts).                                   *)
(*                                                                         *)
(* collect takes the agent's answer and publishes it in one step here:     *)
(* nothing that happens in between touches both the lists and a stream.    *)
(***************************************************************************)
EXTENDS Naturals, Sequences, SequencesExt

CONSTANTS Values,       \* what the host's inventory may be
          Nothing,      \* an empty list or view, or the zero snapshot
          Expired,      \* the auth-expired event
          Closed,       \* a channel that is not in s.subs
          MaxMishaps    \* bound on failures, lost connections, reloads and restarts

ASSUME LiveAssumption == Expired \notin Values \cup {Nothing}

VARIABLES
    host,       \* the inventory as it is
    refreshing, \* systemdRefreshing, dockerRefreshing
    list,       \* the agent's list, which its snapshots carry
    snapshot,   \* s.snapshot
    channel,    \* the browser's channel in s.subs, if its stream is open
    clogged,    \* the channel of another browser is full
    wire,       \* what the stream has written and the browser has not read
    valid,      \* the browser's cookie has a session
    session,    \* the browser is signed in: sessionState
    request,    \* the overview request: of connect, of the refresh button, after an action
    goesOn,     \* the request is connect's, which will open a stream
    source,     \* the EventSource
    view,       \* snapshotState
    \* observations
    behind,     \* the newest snapshot was dropped from the full channel, or the view
                \* was set by an overview answer beside the stream, and no snapshot
                \* has been queued since
    kept,       \* the view outlived the sign-out by logout, or was set after it
    mishaps

agent   == <<host, refreshing, list>>
stream  == <<channel, wire, behind>>
browser == <<session, request, goesOn, source, view, kept>>
vars    == <<agent, snapshot, clogged, stream, valid, browser, mishaps>>

Capacity == 2
Contents == Values \cup {Nothing}

TypeOK ==
    /\ host \in Values /\ {list, snapshot, view} \subseteq Contents
    /\ channel = Closed \/ channel \in BoundedSeq(Contents, Capacity)
    /\ wire \in BoundedSeq(Contents \cup {Expired}, 1)
    /\ {refreshing, clogged, valid, session, goesOn, behind, kept} \subseteq BOOLEAN
    /\ request \in {"none", "asked", "refused"} \cup Contents
    /\ source \in {"none", "connecting", "open", "failed"}

Init ==
    /\ host \in Values /\ refreshing = FALSE /\ list = Nothing /\ snapshot = Nothing
    /\ channel = Closed /\ clogged = FALSE /\ wire = <<>>
    /\ valid = FALSE /\ session = FALSE
    /\ request = "none" /\ goesOn = FALSE /\ source = "none" /\ view = Nothing
    /\ behind = FALSE /\ kept = FALSE /\ mishaps = 0

Mishap == mishaps < MaxMishaps /\ mishaps' = mishaps + 1

-----------------------------------------------------------------------------
(* The agent and the collect loop.                                         *)

HostChanges ==
    /\ host' \in Values \ {host}
    /\ UNCHANGED <<refreshing, list, snapshot, clogged, stream, valid, browser, mishaps>>

\* What the commands found is stored as the newest there is: a host that changed
\* in the meantime has changed after the refresh.  A failed command leaves services
\* and timers empty, but keeps the containers.
FinishRefresh ==
    /\ refreshing
    /\ refreshing' = FALSE
    /\ \/ list' = host /\ UNCHANGED mishaps
       \/ list' \in {Nothing, list} /\ Mishap
    /\ UNCHANGED <<host, snapshot, clogged, stream, valid, browser>>

Full(c) == c # Closed /\ Len(c) = Capacity

\* Seeded: the loop waits for a browser whose channel is full.
Collect_Waits ==
    /\ ~clogged /\ ~Full(channel)
    /\ refreshing' = TRUE
    /\ snapshot' = list
    /\ channel' = IF channel = Closed THEN channel ELSE Append(channel, list)
    /\ clogged' \in BOOLEAN
    /\ UNCHANGED <<host, list, wire, behind, valid, browser, mishaps>>

\* A pass whose snapshot arrives.  The snapshot starts a refresh if none is under
\* way (its 5 or 15 seconds are part of the time the last one took), and a channel
\* that is full is passed over; it may be the one that fills the other browser's.
Collect ==
    /\ refreshing' = TRUE
    /\ snapshot' = list
    /\ channel' = IF channel = Closed \/ Full(channel) THEN channel ELSE Append(channel, list)
    /\ behind' = Full(channel)
    /\ clogged' \in {clogged, TRUE}
    /\ UNCHANGED <<host, list, wire, valid, browser, mishaps>>

\* Another browser reads when it likes.
OtherReads ==
    /\ clogged
    /\ clogged' = FALSE
    /\ UNCHANGED <<agent, snapshot, stream, valid, browser, mishaps>>

-----------------------------------------------------------------------------
(* The stream handler.                                                     *)

EndStream == channel' = Closed /\ behind' = FALSE

\* Seeded: a stream begins with the next snapshot.
OpenStream_Silent ==
    /\ source = "connecting"
    /\ IF valid
       THEN /\ source' = "open" /\ channel' = <<>>
            /\ UNCHANGED <<wire, behind>>
       ELSE source' = "failed" /\ UNCHANGED stream
    /\ UNCHANGED <<agent, snapshot, clogged, valid, session, request, goesOn, view, kept, mishaps>>

\* The channel is registered and the latest snapshot read under one lock; that
\* is the first frame.  A cookie without a session is answered 401, at which an
\* EventSource gives up.
OpenStream ==
    /\ source = "connecting"
    /\ IF valid
       THEN /\ source' = "open" /\ channel' = <<>> /\ wire' = <<snapshot>>
            /\ UNCHANGED behind
       ELSE source' = "failed" /\ UNCHANGED stream
    /\ UNCHANGED <<agent, snapshot, clogged, valid, session, request, goesOn, view, kept, mishaps>>

SendFrame ==
    /\ channel # Closed /\ channel # <<>> /\ wire = <<>>
    /\ wire' = <<Head(channel)>>
    /\ channel' = Tail(channel)
    /\ UNCHANGED <<agent, snapshot, clogged, behind, valid, browser, mishaps>>

SendExpired ==
    /\ channel # Closed /\ wire = <<>>
    /\ wire' = <<Expired>>
    /\ EndStream
    /\ UNCHANGED <<agent, snapshot, clogged, valid, browser>>

\* Every five seconds the session is looked up; without one the stream ends ...
AuthTick == ~valid /\ SendExpired /\ UNCHANGED mishaps

\* ... and so it does when the session could not be read.
AuthTickFails == valid /\ Mishap /\ SendExpired

\* The session expires, is pruned, or is deleted by a logout elsewhere.
SessionEnds ==
    /\ valid
    /\ valid' = FALSE
    /\ UNCHANGED <<agent, snapshot, clogged, stream, browser, mishaps>>

\* requireAuth could not read the session, or the request came from another
\* address: it deletes the session, which may fail too, and answers 401.
Refuse ==
    /\ valid /\ Mishap
    /\ valid' \in BOOLEAN
    /\ \/ source = "connecting" /\ source' = "failed" /\ UNCHANGED request
       \/ request = "asked" /\ request' = "refused" /\ UNCHANGED source
    /\ UNCHANGED <<agent, snapshot, clogged, stream, session, goesOn, view, kept>>

-----------------------------------------------------------------------------
(* The browser, with one overview request at a time.                       *)

\* login, or restore when the page is loaded: connect asks for the overview.
SignIn ==
    /\ ~session /\ request = "none"
    /\ valid' = TRUE /\ session' = TRUE
    /\ request' = "asked" /\ goesOn' = TRUE
    /\ UNCHANGED <<agent, snapshot, clogged, stream, source, view, kept, mishaps>>

Refresh ==
    /\ session /\ request = "none"
    /\ request' = "asked" /\ goesOn' = FALSE
    /\ UNCHANGED <<agent, snapshot, clogged, stream, valid, session, source, view, kept, mishaps>>

\* overview: the answer is s.snapshot, and takes its time to the browser.
Overview ==
    /\ request = "asked"
    /\ request' = IF valid THEN snapshot ELSE "refused"
    /\ UNCHANGED <<agent, snapshot, clogged, stream, valid, session, goesOn, source, view, kept,
                   mishaps>>

\* The answer, which applySnapshot takes whatever its time.  connect goes on when
\* its requests have settled, well or badly, and does not ask whether the user is
\* still signed in: the old stream is closed, a new one begun.
Answered ==
    /\ request \notin {"none", "asked"}
    /\ request' = "none" /\ goesOn' = FALSE
    /\ IF request = "refused" THEN UNCHANGED <<view, kept>>
       ELSE view' = request /\ kept' = (kept \/ ~session)
    /\ IF goesOn
       THEN source' = "connecting" /\ wire' = <<>> /\ EndStream
       ELSE /\ UNCHANGED <<source, wire, channel>>
            /\ behind' = (behind \/ (channel # Closed /\ request # "refused"))
    /\ UNCHANGED <<agent, snapshot, clogged, valid, session, mishaps>>

\* Seeded: expireSession keeps the last snapshot.
Receive_KeepsView ==
    /\ wire # <<>> /\ source = "open"
    /\ wire' = Tail(wire)
    /\ IF Head(wire) = Expired
       THEN /\ session' = FALSE /\ source' = "none" /\ kept' = FALSE
            /\ UNCHANGED view
       ELSE /\ view' = Head(wire) /\ kept' = (kept \/ ~session)
            /\ UNCHANGED <<session, source>>
    /\ UNCHANGED <<agent, snapshot, clogged, channel, behind, valid, request, goesOn, mishaps>>

\* A frame, or the event at which expireSession clears everything.
Receive ==
    /\ wire # <<>> /\ source = "open"
    /\ wire' = Tail(wire)
    /\ IF Head(wire) = Expired
       THEN /\ session' = FALSE /\ source' = "none" /\ view' = Nothing
            /\ kept' = FALSE
       ELSE /\ view' = Head(wire) /\ kept' = (kept \/ ~session)
            /\ UNCHANGED <<session, source>>
    /\ UNCHANGED <<agent, snapshot, clogged, channel, behind, valid, request, goesOn, mishaps>>

\* logout closes the stream and keeps the view, even if its request fails.
Logout ==
    /\ session
    /\ \/ valid' = FALSE /\ UNCHANGED mishaps
       \/ valid /\ Mishap /\ UNCHANGED valid
    /\ session' = FALSE /\ source' = "none" /\ kept' = TRUE
    /\ wire' = <<>> /\ EndStream
    /\ UNCHANGED <<agent, snapshot, clogged, request, goesOn, view>>

-----------------------------------------------------------------------------
(* Failures.                                                               *)

\* The connection breaks, or a write runs into its deadline: the EventSource
\* reconnects by itself.
Broken == /\ source' = IF source = "open" THEN "connecting" ELSE source
          /\ wire' = <<>> /\ EndStream

LoseConnection ==
    /\ source = "open" /\ Mishap
    /\ Broken
    /\ UNCHANGED <<agent, snapshot, clogged, valid, session, request, goesOn, view, kept>>

\* The page is loaded anew, and restore finds the session, or its request fails.
Reload ==
    /\ Mishap
    /\ session' \in {valid, FALSE}
    /\ request' = (IF session' THEN "asked" ELSE "none") /\ goesOn' = session'
    /\ source' = "none" /\ view' = Nothing /\ kept' = FALSE
    /\ wire' = <<>> /\ EndStream
    /\ UNCHANGED <<agent, snapshot, clogged, valid>>

\* The monitor begins with the zero snapshot; a request under way is rejected.
RestartMonitor ==
    /\ Mishap
    /\ snapshot' = Nothing /\ clogged' = FALSE
    /\ Broken
    /\ request' = IF request = "asked" THEN "refused" ELSE request
    /\ UNCHANGED <<agent, valid, session, goesOn, view, kept>>

Next ==
    \/ HostChanges \/ FinishRefresh \/ Collect \/ OtherReads
    \/ OpenStream \/ SendFrame \/ AuthTick \/ AuthTickFails \/ SessionEnds \/ Refuse
    \/ SignIn \/ Refresh \/ Overview \/ Answered \/ Receive \/ Logout
    \/ LoseConnection \/ Reload \/ RestartMonitor

Spec == Init /\ [][Next]_vars

\* The tickers and the goroutines of agent and monitor go on, and so does this
\* browser; of the other one nothing is known.  Strong fairness for the check of
\* the session: its tick stays in the ticker's channel while a frame is written,
\* and a select takes one of its ready cases at random.
Fairness ==
    /\ WF_vars(FinishRefresh) /\ WF_vars(Collect)
    /\ WF_vars(OpenStream) /\ WF_vars(SendFrame) /\ SF_vars(AuthTick)
    /\ WF_vars(Overview) /\ WF_vars(Answered) /\ WF_vars(Receive)

FairSpec == Spec /\ Fairness

-----------------------------------------------------------------------------
(* Properties.                                                             *)

\* No snapshot falls between the opening of a stream and its first frame, or
\* between two frames: what the browser shows in the end, when it has read what is
\* on its way, is the latest snapshot, unless that was dropped from a full channel
\* or an overview answer came in beside the stream (stream, publish in collect).
NewestIsOnItsWay ==
    /\ TypeOK
    /\ channel # Closed =>
        \/ behind
        \/ IF wire \o channel = <<>> THEN view = snapshot ELSE Last(wire \o channel) = snapshot

\* A browser with an open stream whose session ends, by its age or elsewhere, is
\* signed out and its view is empty, unless the connection of the stream ends
\* first or its user logs out (authTick in stream, auth-expired in ApiClient.ts,
\* expireSession).  docs/en/security.md:7-8 promises that expired or deleted
\* sessions clear protected browser state, and names neither exception: a browser
\* that is connecting when its session ends is answered 401, which no one reports
\* to expireSession, and logout leaves the view as it is.
EndedIsCleared ==
    (session /\ ~valid /\ source = "open") ~> \/ ~session /\ (view = Nothing \/ kept)
                                             \/ source = "connecting"

\* When the host comes to rest, a browser that stays signed in shows it in the
\* end, whatever failed before and however slowly other browsers read, unless the
\* session of a request for its stream could not be read: then it was answered
\* 401, at which an EventSource gives up.
EventuallyShown ==
    \A v \in Values : <>[](session /\ valid /\ host = v /\ source # "failed") => <>[](view = v)
=============================================================================
