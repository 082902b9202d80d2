--------------------------- MODULE LiveViewProofs ----------------------------
(***************************************************************************)
(* For any inventories and any number of failures, what a browser has yet  *)
(* to read ends with the latest snapshot.  The invariant is the property   *)
(* itself, told apart by where the latest frame is: in the channel, on the *)
(* wire, or on the screen.                                                 *)
(***************************************************************************)
EXTENDS LiveView, SequenceTheorems, TLAPS

-----------------------------------------------------------------------------
(* Short sequences.                                                        *)

\* A bounded sequence is a sequence of at most that length (the capacity given to
\* make in stream).
LEMMA ShortSequences ==
    ASSUME NEW S, NEW n \in Nat, NEW s
    PROVE  s \in BoundedSeq(S, n) <=> s \in Seq(S) /\ Len(s) <= n
  <1>1. ASSUME s \in BoundedSeq(S, n) PROVE s \in Seq(S) /\ Len(s) <= n
    <2>1. PICK m \in 0..n : s \in [1..m -> S]
      BY <1>1 DEF BoundedSeq, SeqOf
    <2>2. s \in Seq(S) /\ Len(s) = m
      BY <2>1, SeqDef, LenProperties
    <2> QED  BY <2>1, <2>2
  <1>2. ASSUME s \in Seq(S), Len(s) <= n PROVE s \in BoundedSeq(S, n)
    <2>1. Len(s) \in 0..n /\ s \in [1..Len(s) -> S]
      BY <1>2, LenProperties
    <2> QED  BY <2>1, Zenon DEF BoundedSeq, SeqOf
  <1> QED  BY <1>1, <1>2

\* What the last frame of a connection and a channel together is: the one queued
\* last, or the one written if none is queued.
LEMMA LastOnItsWay ==
    ASSUME NEW S, NEW c \in Seq(S), NEW w \in Seq(S), Len(w) <= 1
    PROVE  /\ w \o c = <<>> <=> w = <<>> /\ c = <<>>
           /\ c # <<>> => Last(w \o c) = Last(c)
           /\ c = <<>> /\ w # <<>> => Last(w \o c) = Head(w)
  <1>1. w \o c = <<>> <=> w = <<>> /\ c = <<>>
    BY ConcatEqualIffEmpty
  <1>2. ASSUME c # <<>> PROVE Last(w \o c) = Last(c)
    <2>1. Len(c) \in Nat \ {0} /\ Len(w) \in Nat
      BY <1>2, EmptySeq, LenProperties
    <2>2. /\ Len(w \o c) = Len(w) + Len(c)
          /\ (w \o c)[Len(w) + Len(c)] = c[Len(c)]
      BY <2>1, ConcatProperties
    <2> QED  BY <2>2 DEF Last
  <1>3. ASSUME c = <<>>, w # <<>> PROVE Last(w \o c) = Head(w)
    <2>1. w \o c = w
      BY <1>3, ConcatEmptySeq
    <2>2. Len(w) \in Nat \ {0}
      BY <1>3, EmptySeq
    <2>3. \A n \in Nat \ {0} : n <= 1 => n = 1
      OBVIOUS
    <2>4. Len(w) = 1
      BY <2>2, <2>3, Zenon
    <2> QED  BY <2>1, <2>4 DEF Last
  <1> QED  BY <1>1, <1>2, <1>3

\* What publish does to a channel that has room, and the stream to one that has a
\* frame.
LEMMA ChannelMoves ==
    ASSUME NEW S, NEW c \in Seq(S)
    PROVE  /\ \A x \in S : /\ Append(c, x) \in Seq(S) /\ Len(Append(c, x)) = Len(c) + 1
                           /\ Append(c, x) # <<>> /\ Last(Append(c, x)) = x
           /\ c # <<>> => /\ Head(c) \in S /\ Tail(c) \in Seq(S) /\ Len(Tail(c)) = Len(c) - 1
                          /\ Tail(c) = <<>> => Last(c) = Head(c)
                          /\ Tail(c) # <<>> => Last(Tail(c)) = Last(c)
  <1>0. Len(c) \in Nat
    BY LenProperties
  <1>1. ASSUME NEW x \in S
        PROVE  /\ Append(c, x) \in Seq(S) /\ Len(Append(c, x)) = Len(c) + 1
               /\ Append(c, x) # <<>> /\ Last(Append(c, x)) = x
    BY AppendProperties DEF Last
  <1>2. ASSUME c # <<>>
        PROVE  /\ Head(c) \in S /\ Tail(c) \in Seq(S) /\ Len(Tail(c)) = Len(c) - 1
               /\ Tail(c) = <<>> => Last(c) = Head(c)
               /\ Tail(c) # <<>> => Last(Tail(c)) = Last(c)
    <2>1. /\ Head(c) \in S /\ Tail(c) \in Seq(S) /\ Len(Tail(c)) = Len(c) - 1
          /\ \A i \in 1..Len(Tail(c)) : Tail(c)[i] = c[i + 1]
      BY <1>2, HeadTailProperties
    <2>2. ASSUME Tail(c) = <<>> PROVE Last(c) = Head(c)
      <3>1. Len(c) = 1
        BY <1>0, <2>1, <2>2, EmptySeq
      <3> QED  BY <3>1 DEF Last
    <2>3. ASSUME Tail(c) # <<>> PROVE Last(Tail(c)) = Last(c)
      <3>1. Len(Tail(c)) \in Nat \ {0}
        BY <2>1, <2>3, EmptySeq
      <3> QED  BY <1>0, <2>1, <3>1 DEF Last
    <2> QED  BY <2>1, <2>2, <2>3
  <1> QED  BY <1>1, <1>2

-----------------------------------------------------------------------------
(* The invariant.                                                          *)

Frames == Contents \cup {Expired}

\* The types, with the channel and the connection as sequences of a length.
StreamOK ==
    /\ channel = Closed \/ (channel \in Seq(Contents) /\ Len(channel) <= Capacity)
    /\ wire \in Seq(Frames) /\ Len(wire) <= 1

OthersOK ==
    /\ host \in Values /\ {list, snapshot, view} \subseteq Contents
    /\ {refreshing, clogged, valid, session, goesOn, behind, kept} \subseteq BOOLEAN
    /\ request \in {"none", "asked", "refused"} \cup Contents
    /\ source \in {"none", "connecting", "open", "failed"}

\* The latest snapshot is the one queued last, or what was written, or what is
\* shown, unless it was dropped or an overview answer came beside it.
Newest ==
    channel # Closed =>
        \/ behind
        \/ channel # <<>> /\ Last(channel) = snapshot
        \/ channel = <<>> /\ wire # <<>> /\ Head(wire) = snapshot
        \/ channel = <<>> /\ wire = <<>> /\ view = snapshot

LiveInv == StreamOK /\ OthersOK /\ Newest

\* The invariant is the property (publish and stream).
LEMMA LiveInvIsNewest == LiveInv <=> NewestIsOnItsWay
  <1>1. TypeOK <=> StreamOK /\ OthersOK
    <2>1. /\ channel \in BoundedSeq(Contents, Capacity)
               <=> channel \in Seq(Contents) /\ Len(channel) <= Capacity
          /\ wire \in BoundedSeq(Contents \cup {Expired}, 1)
               <=> wire \in Seq(Contents \cup {Expired}) /\ Len(wire) <= 1
      BY ShortSequences DEF Capacity
    <2> QED  BY <2>1 DEF TypeOK, StreamOK, OthersOK, Frames
  <1>2. ASSUME StreamOK
        PROVE  Newest <=>
                 (channel # Closed =>
                    \/ behind
                    \/ IF wire \o channel = <<>> THEN view = snapshot
                                                 ELSE Last(wire \o channel) = snapshot)
    <2>1. CASE channel = Closed
      BY <2>1 DEF Newest
    <2>2. CASE channel # Closed
      <3>1. channel \in Seq(Frames) /\ wire \in Seq(Frames) /\ Len(wire) <= 1
        BY <1>2, <2>2, SeqMonotonic DEF StreamOK, Frames
      <3>2. /\ wire \o channel = <<>> <=> wire = <<>> /\ channel = <<>>
            /\ channel # <<>> => Last(wire \o channel) = Last(channel)
            /\ channel = <<>> /\ wire # <<>> => Last(wire \o channel) = Head(wire)
        BY <3>1, LastOnItsWay
      <3> QED  BY <2>2, <3>2, Zenon DEF Newest
    <2> QED  BY <2>1, <2>2
  <1> QED  BY <1>1, <1>2 DEF LiveInv, NewestIsOnItsWay

\* A step that leaves what a browser has yet to read alone.
LEMMA StreamKept ==
    ASSUME LiveInv, OthersOK', UNCHANGED <<channel, wire, snapshot>>,
           channel # Closed => (behind => behind') /\ (view' = view \/ behind')
    PROVE  LiveInv'
  BY DEF LiveInv, StreamOK, Newest

\* A stream that ends, with a connection that carries at most the last event.
LEMMA StreamEnds ==
    ASSUME OthersOK', channel' = Closed, wire' \in {<<>>, <<Expired>>}
    PROVE  LiveInv'
  <1>1. <<>> \in Seq(Frames) /\ Len(<<>>) = 0
    BY EmptySeq
  <1>2. <<Expired>> \in Seq(Frames) /\ Len(<<Expired>>) = 1
    BY DEF Frames
  <1>3. wire' \in Seq(Frames) /\ Len(wire') <= 1
    <2>1. CASE wire' = <<>>
      BY <1>1, <2>1
    <2>2. CASE wire' = <<Expired>>
      BY <1>2, <2>2
    <2> QED  BY <2>1, <2>2
  <1> QED  BY <1>3 DEF LiveInv, StreamOK, Newest

\* Every step keeps the invariant.
LEMMA LiveStep == LiveInv /\ [Next]_vars => LiveInv'
  <1> SUFFICES ASSUME LiveInv, [Next]_vars PROVE LiveInv'
    OBVIOUS
  <1> USE DEF agent, stream, browser, Contents
  <1>0. StreamOK /\ OthersOK /\ Newest
    BY DEF LiveInv
  <1>a. behind \in BOOLEAN /\ session \in BOOLEAN /\ kept \in BOOLEAN /\ valid \in BOOLEAN
    BY <1>0 DEF OthersOK
  <1>1. CASE HostChanges \/ FinishRefresh \/ OtherReads \/ SessionEnds \/ Refuse
    <2>1. OthersOK'
      BY <1>0, <1>1 DEF HostChanges, FinishRefresh, OtherReads, SessionEnds, Refuse, OthersOK
    <2>2. UNCHANGED <<channel, wire, snapshot, behind, view>>
      BY <1>1 DEF HostChanges, FinishRefresh, OtherReads, SessionEnds, Refuse
    <2> QED  BY <2>1, <2>2, StreamKept
  <1>2. CASE SignIn \/ Refresh \/ Overview
    <2>1. OthersOK'
      BY <1>0, <1>2 DEF SignIn, Refresh, Overview, OthersOK
    <2>2. UNCHANGED <<channel, wire, snapshot, behind, view>>
      BY <1>2 DEF SignIn, Refresh, Overview
    <2> QED  BY <2>1, <2>2, StreamKept
  <1>3. CASE UNCHANGED vars
    BY <1>0, <1>3, StreamKept DEF vars, OthersOK
  <1>4. CASE Collect
    <2>1. OthersOK'
      BY <1>0, <1>4 DEF Collect, OthersOK, Full
    <2>2. CASE channel = Closed
      BY <1>0, <1>4, <2>1, <2>2 DEF Collect, LiveInv, StreamOK, Newest
    <2>3. CASE channel # Closed /\ Full(channel)
      BY <1>0, <1>4, <2>1, <2>3 DEF Collect, LiveInv, StreamOK, Newest
    <2>4. CASE channel # Closed /\ ~Full(channel)
      <3>1. list \in Contents /\ channel \in Seq(Contents) /\ Len(channel) \in Nat
        BY <1>0, <2>4, LenProperties DEF OthersOK, StreamOK
      <3>2. /\ channel' \in Seq(Contents) /\ Len(channel') = Len(channel) + 1
            /\ channel' # <<>> /\ Last(channel') = list
        BY <1>4, <2>4, <3>1, ChannelMoves DEF Collect
      <3>3. Len(channel') <= Capacity
        <4>1. Len(channel) # 2 /\ Len(channel) <= 2
          BY <1>0, <2>4 DEF StreamOK, Full, Capacity
        <4>2. \A n \in Nat : n # 2 /\ n <= 2 => n + 1 <= 2
          OBVIOUS
        <4>3. Len(channel) + 1 <= 2
          BY <3>1, <4>1, <4>2, Zenon
        <4> QED  BY <3>2, <4>3 DEF Capacity
      <3> QED  BY <1>0, <1>4, <2>1, <3>2, <3>3 DEF Collect, LiveInv, StreamOK, Newest
    <2> QED  BY <2>2, <2>3, <2>4
  <1>5. CASE OpenStream
    <2>1. OthersOK'
      BY <1>0, <1>5 DEF OpenStream, OthersOK
    <2>2. CASE valid
      <3>1. channel' = <<>> /\ wire' = <<snapshot>> /\ snapshot' = snapshot
        BY <1>5, <2>2 DEF OpenStream
      <3>2. <<>> \in Seq(Contents) /\ Len(<<>>) <= Capacity
        BY EmptySeq DEF Capacity
      <3>3. snapshot \in Frames
        BY <1>0 DEF OthersOK, Frames
      <3>4. /\ <<snapshot>> \in Seq(Frames) /\ Len(<<snapshot>>) = 1
            /\ <<snapshot>> # <<>> /\ Head(<<snapshot>>) = snapshot
        BY <3>3
      <3> QED  BY <2>1, <3>1, <3>2, <3>4 DEF LiveInv, StreamOK, Newest
    <2>3. CASE ~valid
      BY <1>5, <2>1, <2>3, StreamKept DEF OpenStream
    <2> QED  BY <2>2, <2>3
  <1>6. CASE SendFrame
    <2>1. OthersOK'
      BY <1>0, <1>6 DEF SendFrame, OthersOK
    <2>2. /\ channel \in Seq(Contents) /\ channel # <<>> /\ Len(channel) <= Capacity
          /\ wire = <<>> /\ channel # Closed
          /\ channel' = Tail(channel) /\ wire' = <<Head(channel)>>
          /\ UNCHANGED <<snapshot, behind>>
      BY <1>0, <1>6 DEF SendFrame, StreamOK
    <2>3. /\ Head(channel) \in Contents /\ Tail(channel) \in Seq(Contents)
          /\ Len(Tail(channel)) = Len(channel) - 1
          /\ Tail(channel) = <<>> => Last(channel) = Head(channel)
          /\ Tail(channel) # <<>> => Last(Tail(channel)) = Last(channel)
      BY <2>2, ChannelMoves
    <2>4. Len(Tail(channel)) <= Capacity
      BY <2>2, <2>3, LenProperties DEF Capacity
    <2>5. ASSUME NEW x \in Frames
          PROVE  <<x>> \in Seq(Frames) /\ Len(<<x>>) = 1 /\ <<x>> # <<>> /\ Head(<<x>>) = x
      OBVIOUS
    <2>6. Head(channel) \in Frames
      BY <2>3 DEF Frames
    <2> QED  BY <1>0, <2>1, <2>2, <2>3, <2>4, <2>5, <2>6 DEF LiveInv, StreamOK, Newest
  <1>7. CASE AuthTick \/ AuthTickFails
    BY <1>0, <1>7, StreamEnds DEF AuthTick, AuthTickFails, SendExpired, EndStream, OthersOK
  <1>8. CASE Answered
    <2>1. OthersOK'
      BY <1>0, <1>8 DEF Answered, EndStream, OthersOK
    <2>2. CASE goesOn
      BY <1>8, <2>1, <2>2, StreamEnds DEF Answered, EndStream
    <2>3. CASE ~goesOn
      <3>1. UNCHANGED <<channel, wire, snapshot>>
        BY <1>8, <2>3 DEF Answered
      <3>2. channel # Closed => (behind => behind') /\ (view' = view \/ behind')
        BY <1>8, <2>3 DEF Answered
      <3> QED  BY <2>1, <3>1, <3>2, StreamKept
    <2> QED  BY <2>2, <2>3
  <1>9. CASE Receive
    <2>1. /\ wire \in Seq(Frames) /\ Len(wire) <= 1 /\ wire # <<>> /\ wire' = Tail(wire)
          /\ UNCHANGED <<channel, snapshot, behind>>
      BY <1>0, <1>9 DEF Receive, StreamOK
    <2>2. Head(wire) \in Frames /\ Tail(wire) = <<>>
      <3>1. Head(wire) \in Frames /\ Tail(wire) \in Seq(Frames) /\ Len(Tail(wire)) = Len(wire) - 1
        BY <2>1, ChannelMoves
      <3>2. Len(Tail(wire)) \in Nat /\ Len(wire) \in Nat
        BY <2>1, <3>1, LenProperties
      <3> QED  BY <2>1, <3>1, <3>2, EmptySeq
    <2>3. OthersOK'
      BY <1>0, <1>9, <2>2 DEF Receive, OthersOK, Frames
    <2>4. snapshot # Expired
      BY <1>0, LiveAssumption DEF OthersOK
    <2>5. Head(wire) # Expired => view' = Head(wire)
      BY <1>9 DEF Receive
    <2>6. <<>> \in Seq(Frames) /\ Len(<<>>) = 0
      BY EmptySeq
    <2> QED  BY <1>0, <2>1, <2>2, <2>3, <2>4, <2>5, <2>6 DEF LiveInv, StreamOK, Newest
  <1>10. CASE Logout
    BY <1>0, <1>10, StreamEnds DEF Logout, EndStream, OthersOK
  <1>11. CASE LoseConnection
    BY <1>0, <1>11, StreamEnds DEF LoseConnection, Broken, EndStream, OthersOK
  <1>12. CASE Reload
    BY <1>0, <1>12, StreamEnds DEF Reload, EndStream, OthersOK
  <1>13. CASE RestartMonitor
    BY <1>0, <1>13, StreamEnds DEF RestartMonitor, Broken, EndStream, OthersOK
  <1> QED
    BY <1>1, <1>2, <1>3, <1>4, <1>5, <1>6, <1>7, <1>8, <1>9, <1>10, <1>11, <1>12, <1>13 DEF Next

-----------------------------------------------------------------------------
(* The theorem.                                                            *)

\* Whatever fails and whenever browsers open streams, fall behind or sign out, no
\* snapshot falls between two frames: what is on its way ends with the latest one,
\* unless that was dropped or an overview answer came in beside the stream.
THEOREM NothingFallsBetweenFrames == Spec => []NewestIsOnItsWay
  <1>1. Init => LiveInv
    <2>1. <<>> \in Seq(Frames) /\ Len(<<>>) = 0
      BY EmptySeq
    <2>2. Init => StreamOK /\ Newest
      BY <2>1 DEF Init, StreamOK, Newest
    <2>3. Init => OthersOK
      BY DEF Init, OthersOK, Contents
    <2> QED  BY <2>2, <2>3 DEF LiveInv
  <1>2. LiveInv => NewestIsOnItsWay
    BY LiveInvIsNewest
  <1> QED  BY <1>1, <1>2, LiveStep, PTL DEF Spec
==============================================================================
