------------------------------ MODULE Inbound ------------------------------
(***************************************************************************)
(* What the peers of several sessions send, from the body of a POST or a   *)
(* WebSocket message to the "data" event of the application: the wire      *)
(* format (Parser), the loop of Polling.onDataRequest, Socket.onPacket     *)
(* with its rate limiter (RateLimiter) and the metrics that listen.        *)
(*                                                                         *)
(* A body is awaited: between PostStart and PostBody any event may come.   *)
(* The loop over its packets is synchronous, but a packet runs listeners   *)
(* of the application twice, at its "packet" event and at its "data"       *)
(* event, and they may close sessions or read the metrics: so a packet is  *)
(* two steps, PacketArrives and PacketHandled, between which nothing else  *)
(* happens but calls of the application and the passing of time.           *)
(*                                                                         *)
(* Why a session closes or upgrades otherwise is module Session's matter.  *)
(***************************************************************************)
EXTENDS Parser, RateLimiter, FiniteSets, FiniteSetsExt

CONSTANTS
  NoPost, Nobody,  \* no POST is awaited, no loop runs
  Talkers,         \* bound: the sessions whose peers send and upgrade
  MaxSent,         \* bound: packets sent by all peers, a body without counting 1
  MaxBatch         \* bound: packets in a body

\* A session and its limiter go by one name.
Sessions == Limiters

ASSUME InboundAssumption ==
  /\ IsFiniteSet(Sessions)
  /\ Nobody \notin Sessions
  /\ Talkers \subseteq Sessions
  /\ MaxSent \in Nat
  /\ MaxBatch \in Nat

VARIABLES
  ready, transport,  \* Socket.readyState and what Socket.transport is
  post,              \* the body awaited, and the packets its peer encoded
  loop,              \* the loop that runs: for whom, by which transport, and
                     \* the packets left
  checked,           \* its first packet has passed the head of onPacket
  sent,              \* the messages the peer sent, in order
  packetsSent,       \* counts up to MaxSent
  heard,             \* the "data" events, in order
  late,              \* history: how many of them came to a session not open
  dropped,           \* how many "rateLimited" events
  metricsOn,         \* Server._metricsEnabled
  dataListeners,     \* the listeners _attachMetricsListeners has added
  counted            \* the messages ServerMetrics has counted

sessions == <<ready, transport>>
incoming == <<post, loop, checked, sent, packetsSent>>
events == <<heard, late, dropped, counted>>
metrics == <<metricsOn, dataListeners>>
vars == <<sessions, incoming, events, metrics, limiters>>

Live(c) == ready[c] \in {"open", "closing"}
Idle == [by |-> Nobody, via |-> "none", packets |-> <<>>]
NoLoop == loop = Idle

Init ==
  /\ ready = [c \in Sessions |-> "none"]
  /\ transport = [c \in Sessions |-> "polling"]
  /\ post = [c \in Sessions |-> NoPost]
  /\ loop = Idle /\ checked = FALSE
  /\ sent = [c \in Sessions |-> <<>>]
  /\ packetsSent = 0
  /\ heard = [c \in Sessions |-> <<>>]
  /\ late = [c \in Sessions |-> 0]
  /\ dropped = [c \in Sessions |-> 0]
  /\ counted = 0
  /\ metricsOn \in BOOLEAN
  /\ dataListeners = [c \in Sessions |-> 0]
  /\ InitLimiters

-----------------------------------------------------------------------------
(* Sessions *)

\* The others come by polling, stay with it and go.
Transports(c) == IF c \in Talkers THEN {"polling", "websocket"} ELSE {"polling"}

\* Fault: a handshake does not look whether the metrics are on.
HandshakeUncounted(c) ==
  /\ NoLoop /\ ready[c] = "none"
  /\ ready' = [ready EXCEPT ![c] = "open"]
  /\ \E t \in Transports(c) : transport' = [transport EXCEPT ![c] = t]
  /\ Construct(c)
  /\ UNCHANGED <<incoming, events, metrics>>

\* The constructor and the end of Server.handshake.
Handshake(c) ==
  /\ NoLoop /\ ready[c] = "none"
  /\ ready' = [ready EXCEPT ![c] = "open"]
  /\ \E t \in Transports(c) : transport' = [transport EXCEPT ![c] = t]
  /\ Construct(c)
  /\ dataListeners' = IF metricsOn THEN [dataListeners EXCEPT ![c] = 1]
                                   ELSE dataListeners
  /\ UNCHANGED <<incoming, events, metricsOn>>

Upgrade(c) ==
  /\ NoLoop /\ Live(c) /\ transport[c] = "polling" /\ c \in Talkers
  /\ transport' = [transport EXCEPT ![c] = "websocket"]
  /\ UNCHANGED <<ready, incoming, events, metrics, limiters>>

\* Socket.onClose.
OnClose(c) ==
  /\ ready' = [ready EXCEPT ![c] = "closed"]
  /\ Destroy(c)
  /\ UNCHANGED transport

SessionEnds(c) ==
  /\ NoLoop /\ Live(c)
  /\ OnClose(c)
  /\ UNCHANGED <<incoming, events, metrics>>

\* Socket.close, from anywhere; it waits when its buffer is not empty.
AppClose(c) ==
  /\ ready[c] = "open"
  /\ \/ OnClose(c)
     \/ ready' = [ready EXCEPT ![c] = "closing"] /\ UNCHANGED <<transport, limiters>>
  /\ UNCHANGED <<incoming, events, metrics>>

\* The first access to Server.metrics.
ReadMetrics ==
  /\ ~metricsOn /\ metricsOn' = TRUE
  /\ dataListeners' = [c \in Sessions |-> IF Live(c) THEN 1 ELSE dataListeners[c]]
  /\ UNCHANGED <<sessions, incoming, events, limiters>>

-----------------------------------------------------------------------------
(* Messages *)

IsMessage(packet) == packet.type = "message"

\* The messages among packets.
MessagesOf(packets) ==
  FlattenSeq([k \in DOMAIN packets |->
    IF IsMessage(packets[k]) THEN <<packets[k].data>> ELSE <<>>])

\* The end of onPacket for a message, and of the fast path.
Receive(c, data) ==
  \/ /\ ~Allowed(c)
     /\ dropped' = [dropped EXCEPT ![c] = @ + 1]
     /\ UNCHANGED <<heard, late, counted, limiters>>
  \/ /\ Allowed(c)
     /\ Consume(c)
     /\ heard' = [heard EXCEPT ![c] = Append(@, data)]
     /\ late' = [late EXCEPT ![c] = IF ready[c] = "open" THEN @ ELSE @ + 1]
     /\ counted' = counted + dataListeners[c]
     /\ UNCHANGED dropped

-----------------------------------------------------------------------------
(* Bodies and WebSocket messages *)

\* What a peer may say: "error" stands for anything that cannot be decoded.
Kind == {"message", "ping", "close", "error"}

\* The message of rank n: one character or one byte, text when n is odd.  The
\* text of a message contains no separator.
Message(n) ==
  [binary |-> n % 2 = 0, body |-> <<IF n < SEPARATOR THEN n ELSE n + 1>>]

\* The packets of the given kinds, their messages numbered from the last sent.
Compose(c, kinds) ==
  [k \in DOMAIN kinds |->
     IF kinds[k] = "message"
       THEN [type |-> "message", data |->
              Message(Len(sent[c]) + Cardinality({j \in 1 .. k : kinds[j] = "message"}))]
       ELSE [type |-> kinds[k], data |-> Text(<<>>)]]

Send(c, packets) ==
  /\ c \in Talkers
  /\ packetsSent' = packetsSent + Max({1, Len(packets)})
  /\ packetsSent' <= MaxSent
  /\ sent' = [sent EXCEPT ![c] = @ \o MessagesOf(packets)]

\* A POST passes the checks of onDataRequest; its body is awaited.
PostStart(c) ==
  /\ NoLoop /\ Live(c) /\ transport[c] = "polling" /\ post[c] = NoPost
  /\ \E n \in 0 .. MaxBatch : \E kinds \in [1 .. n -> Kind] :
       LET packets == Compose(c, kinds) IN
       /\ Send(c, packets)
       /\ post' = [post EXCEPT ![c] =
            [chars |-> EncodePayload(packets), meant |-> packets]]
  /\ UNCHANGED <<sessions, loop, checked, events, metrics, limiters>>

\* The body is there, and the loop over its packets begins.
PostBody(c) ==
  /\ NoLoop /\ post[c] # NoPost
  /\ post' = [post EXCEPT ![c] = NoPost]
  /\ loop' = [by |-> c, via |-> "polling", packets |-> DecodePayload(post[c].chars)]
  /\ UNCHANGED <<sessions, checked, sent, packetsSent, events, metrics, limiters>>

\* The body is lost, too large or aborted: onError, if anyone still listens.
PostFails(c) ==
  /\ NoLoop /\ post[c] # NoPost
  /\ post' = [post EXCEPT ![c] = NoPost]
  /\ IF Live(c) /\ transport[c] = "polling" THEN OnClose(c) ELSE UNCHANGED <<sessions, limiters>>
  /\ UNCHANGED <<loop, checked, sent, packetsSent, events, metrics>>

\* WS.onMessage: a text message goes straight to the session, anything else
\* by way of its "packet" event.  (A "close" packet closes the WebSocket,
\* whose close event is one of the reasons of SessionEnds.)
WsMessage(c) ==
  /\ NoLoop /\ Live(c) /\ transport[c] = "websocket"
  /\ \E kind \in Kind \ {"close"} :
       LET packet == Compose(c, <<kind>>)[1]
           raw == EncodePacket(packet, TRUE) IN
       /\ Send(c, <<packet>>)
       /\ IF kind = "message" /\ ~raw.binary
            THEN /\ IF ready[c] = "open" THEN Receive(c, Text(Tail(raw.body)))
                                         ELSE UNCHANGED <<events, limiters>>
                 /\ UNCHANGED loop
            ELSE /\ loop' = [by |-> c, via |-> "websocket", packets |-> <<DecodePacket(raw)>>]
                 /\ UNCHANGED <<events, limiters>>
  /\ UNCHANGED <<sessions, post, checked, metrics>>

-----------------------------------------------------------------------------
(* The loop *)

\* The session still listens to the transport the loop belongs to.
Bound == Live(loop.by) /\ transport[loop.by] = loop.via

NextPacket == loop' = [loop EXCEPT !.packets = Tail(@)]

\* Fault: onPacket does not look at readyState.
ArrivesAnyway ==
  /\ loop.packets # <<>> /\ ~checked
  /\ IF Bound /\ Head(loop.packets).type = "close"
       THEN OnClose(loop.by) /\ NextPacket /\ UNCHANGED checked
     ELSE IF Bound
       THEN checked' = TRUE /\ UNCHANGED <<sessions, limiters, loop>>
     ELSE NextPacket /\ UNCHANGED <<sessions, limiters, checked>>
  /\ UNCHANGED <<post, sent, packetsSent, events, metrics>>

\* Fault: the session hears a transport it has left.
ArrivesUnbound ==
  /\ loop.packets # <<>> /\ ~checked
  /\ IF ready[loop.by] = "open"
       THEN checked' = TRUE /\ UNCHANGED <<sessions, limiters, loop>>
     ELSE NextPacket /\ UNCHANGED <<sessions, limiters, checked>>
  /\ UNCHANGED <<post, sent, packetsSent, events, metrics>>

\* Transport.onPacket up to the "packet" event of the session.
PacketArrives ==
  /\ loop.packets # <<>> /\ ~checked
  /\ IF Bound /\ Head(loop.packets).type = "close"
       THEN OnClose(loop.by) /\ NextPacket /\ UNCHANGED checked
     ELSE IF Bound /\ ready[loop.by] = "open"
       THEN checked' = TRUE /\ UNCHANGED <<sessions, limiters, loop>>
     ELSE NextPacket /\ UNCHANGED <<sessions, limiters, checked>>
  /\ UNCHANGED <<post, sent, packetsSent, events, metrics>>

\* The rest of onPacket, whatever the listeners have done to the session.
PacketHandled ==
  /\ checked /\ checked' = FALSE
  /\ NextPacket
  /\ LET packet == Head(loop.packets) IN
     \/ /\ packet.type = "message"
        /\ Receive(loop.by, packet.data)
        /\ UNCHANGED sessions
     \/ /\ packet.type \in {"ping", "pong"}
        /\ UNCHANGED <<sessions, events, limiters>>
     \/ /\ packet.type \notin {"message", "ping", "pong"}
        /\ IF Live(loop.by) THEN OnClose(loop.by) ELSE UNCHANGED <<sessions, limiters>>
        /\ UNCHANGED events
  /\ UNCHANGED <<post, sent, packetsSent, metrics>>

\* The loop returns; a POST is answered "ok".
LoopEnds ==
  /\ loop.by # Nobody /\ loop.packets = <<>>
  /\ loop' = Idle
  /\ UNCHANGED <<sessions, post, checked, sent, packetsSent, events, metrics, limiters>>

-----------------------------------------------------------------------------
(* Time *)

SharedTick ==
  /\ NoLoop /\ sharedTimer
  /\ ResetDue
  /\ UNCHANGED <<sessions, incoming, events, metrics>>

TimePasses ==
  /\ Elapse
  /\ UNCHANGED <<sessions, incoming, events, metrics>>

-----------------------------------------------------------------------------

Next ==
  \/ \E c \in Sessions :
       \/ Handshake(c) \/ Upgrade(c) \/ SessionEnds(c) \/ AppClose(c)
       \/ PostStart(c) \/ PostBody(c) \/ PostFails(c) \/ WsMessage(c)
  \/ ReadMetrics
  \/ PacketArrives \/ PacketHandled \/ LoopEnds
  \/ SharedTick \/ TimePasses

Spec == Init /\ [][Next]_vars

\* Time passes, the timer's callback comes, and a loop runs to its end.
Fairness ==
  /\ WF_vars(TimePasses) /\ WF_vars(SharedTick)
  /\ WF_vars(PacketArrives) /\ WF_vars(PacketHandled) /\ WF_vars(LoopEnds)

FairSpec == Spec /\ Fairness

-----------------------------------------------------------------------------
(* Safety *)

\* The variables keep their shape; no budget is overdrawn.
TypeOK ==
  /\ ready \in [Sessions -> {"none", "open", "closing", "closed"}]
  /\ transport \in [Sessions -> {"polling", "websocket"}]
  /\ \A c \in Sessions :
       post[c] \in {NoPost} \cup [chars : Seq(Nat), meant : Seq(Packet)]
  /\ loop = Idle \/ loop \in [by : Sessions, via : {"polling", "websocket"},
                              packets : Seq(Packet)]
  /\ checked \in BOOLEAN /\ (checked => loop.packets # <<>>)
  /\ sent \in [Sessions -> Seq(RawData)] /\ heard \in [Sessions -> Seq(RawData)]
  /\ packetsSent \in 0 .. MaxSent
  /\ late \in [Sessions -> Nat] /\ dropped \in [Sessions -> Nat] /\ counted \in Nat
  /\ metricsOn \in BOOLEAN /\ dataListeners \in [Sessions -> {0, 1}]
  /\ activeLimiters \subseteq Limiters /\ sharedTimer \in BOOLEAN
  /\ remaining \in [Limiters -> 0 .. MaxMessages]
  /\ untilReset \in [Limiters -> 0 .. WindowMs]
  /\ inWindow \in [Limiters -> Nat] /\ ages \in [Limiters -> Seq(0 .. WindowMs)]

\* The one timer of all limiters runs exactly while a session lives: whoever
\* closes, in whatever order and from inside whatever loop, it neither stops
\* for the others nor outlives the last (startSharedTimer, destroy, onClose).
TimerShared ==
  /\ activeLimiters = {c \in Sessions : Live(c)}
  /\ sharedTimer <=> activeLimiters # {}

\* However the shared timer's callbacks fall, a session hears at most two
\* windows' worth of messages in any span of one window: when that many more
\* have been heard, a message is at least a window old.
BurstBounded ==
  \A c \in Sessions : \A i \in DOMAIN ages[c] :
    i + 2 * MaxMessages <= Len(ages[c]) => ages[c][i] = WindowMs

\* A body decodes to the packets its peer encoded, up to the first that is
\* malformed (encodePayload, decodePayload).
PayloadDecodes ==
  \A c \in Sessions :
    post[c] # NoPost /\ post[c].meant # <<>> =>
      DecodePayload(post[c].chars) = UpToError(post[c].meant)

\* What a session hears are messages its peer sent, unaltered, in the order
\* sent and once each, although a body may be read after the session upgraded
\* and its peer went on by WebSocket.
HeardInOrder ==
  \A c \in Sessions : \E at \in [DOMAIN heard[c] -> DOMAIN sent[c]] :
    \A i, j \in DOMAIN heard[c] :
      /\ heard[c][i] = sent[c][at[i]]
      /\ i < j => at[i] < at[j]

\* A session that is closing or closed hears at most one more message: the one
\* whose own "packet" event closed it, past the test of readyState.
DeafAfterClose == \A c \in Sessions : late[c] <= 1

-----------------------------------------------------------------------------
(* Action properties *)

\* A message is refused only when as many as a window allows have been heard
\* since the budget was last full.
DroppedOnlyWhenSpent ==
  [][\A c \in Sessions : dropped'[c] # dropped[c] => inWindow[c] = MaxMessages]_vars

\* From the first look at the metrics on, a message that a live session hears
\* is counted exactly once, whenever that session came.
CountedOnce ==
  [][\A c \in Sessions : heard'[c] # heard[c] /\ Live(c) =>
       counted' = counted + (IF metricsOn THEN 1 ELSE 0)]_vars

-----------------------------------------------------------------------------
(* Liveness *)

\* A session that has spent its budget gets a new one, while it lives.
LimitedRecovers ==
  \A c \in Sessions :
    c \in activeLimiters /\ remaining[c] = 0
      ~> remaining[c] > 0 \/ c \notin activeLimiters
=============================================================================
