------------------------------ MODULE Session -------------------------------
(***************************************************************************)
(* One Engine.IO session under every order of the events that reach it:    *)
(* calls of the application, timers, HTTP requests and the packets in      *)
(* their bodies, WebSocket messages and close events, and the send buffer  *)
(* of the runtime filling and draining.  One action is one event; its      *)
(* handler is the operator of EngineSocket it applies.  The handler of the *)
(* upgrade packet is cut in two where it emits "upgrade": until            *)
(* UpgradeHeard the listeners of the application run, and nothing happens  *)
(* but what they call.  Of the other listeners, those of "packetCreate",   *)
(* "flush" and "packet" are taken to look only, and what the rest call is  *)
(* a step after their handler.                                             *)
(***************************************************************************)
EXTENDS EngineSocket

CONSTANTS
  MaxMessages,  \* bound: messages the application writes
  MaxStrays     \* bound: interval timers whose handle was overwritten

ASSUME SessionAssumption == MaxMessages \in Nat /\ MaxStrays \in Nat

VARIABLE sock

Init == \E transport \in {"polling", "websocket"} : sock = Handshake(transport)

\* No handler is under way.
Idle == ~sock.switching

-----------------------------------------------------------------------------
(* The application, in a turn of its own or in a listener of "upgrade" *)

AppWrite ==
  /\ Open(sock) /\ sock.messagesSent < MaxMessages
  /\ sock' = Write(sock)

\* Server.broadcast and broadcastExcept reach every session still in clients.
AppBroadcast ==
  /\ ~Closed(sock) /\ sock.messagesSent < MaxMessages
  /\ sock' = Broadcast(sock)

AppClose == Open(sock) /\ sock' = Close(sock)

\* The listeners of "upgrade" return, and the handler goes on.
UpgradeHeard == sock.switching /\ sock' = Adopted(sock)

\* Server._attachMetricsListeners, at the handshake or when metrics is first read.
AttachMetrics ==
  /\ ~Closed(sock) /\ ~sock.createListener
  /\ sock' = [sock EXCEPT !.createListener = TRUE]

-----------------------------------------------------------------------------
(* Timers *)

PingInterval == Idle /\ sock.interval = "armed" /\ sock' = PingIntervalFired(sock)
StrayPing    == Idle /\ sock.strays > 0         /\ sock' = StrayPingFired(sock)
PingTimeout  == Idle /\ sock.timeout = "armed"  /\ sock' = PingTimeoutFired(sock)
PollTimeout  == Idle /\ sock.poll               /\ sock' = PollTimeoutFired(sock)
UpgradeTimeout == Idle /\ sock.upgradeTimer     /\ sock' = UpgradeTimeoutFired(sock)
FastUpgradeTick == Idle /\ (sock.fastTimer \/ sock.fastLeaked) /\ sock' = SendNoop(sock)

-----------------------------------------------------------------------------
(* HTTP requests: handleRequest lets them through while the session is in   *)
(* clients and its transport is polling.                                    *)

PollRequest == Idle /\ PollingBound(sock) /\ sock' = OnPollRequest(sock)
PollAbort   == Idle /\ sock.poll /\ sock' = PollAborted(sock)
LatePollAbort == Idle /\ sock.late /\ sock' = LatePollAborted(sock)

\* A POST from its first await to its answer.  Its abort listener too may fire
\* after the answer; that does what the failure of another POST does.
PostStart ==
  /\ Idle /\ PollingBound(sock) /\ ~sock.posting
  /\ sock' = [sock EXCEPT !.posting = TRUE]

\* schedulePing adds a stray timer for a pong that precedes the first ping.
StraysBounded(type) ==
  type = "pong" /\ sock.timeout = "none" => sock.strays < MaxStrays

PostPacket ==
  /\ Idle /\ sock.posting
  /\ \E type \in PacketType \cup {"close"} :
       StraysBounded(type) /\ sock' = PollingPacket(sock, type)

PostAnswer == Idle /\ sock.posting /\ sock' = [sock EXCEPT !.posting = FALSE]

PostFailure == Idle /\ sock.posting /\ sock' = PostFailed(sock)

-----------------------------------------------------------------------------
(* The WebSocket *)

UpgradeRequest == Idle /\ PollingBound(sock) /\ sock' = MaybeUpgrade(sock)

ProbeReceive ==
  /\ Idle /\ sock.probing /\ sock.conn = "open"
  /\ \E type \in ProbePacketType : sock' = ProbeMessage(sock, type)

WsReceive ==
  /\ Idle /\ WsBound(sock) /\ sock.conn = "open"
  /\ \E type \in PacketType \cup {"close"} :
       StraysBounded(type) /\ sock' = WsMessage(sock, type)

\* The close event of a socket we closed, and of one the peer closed.
WsCloseEvent == Idle /\ sock.conn = "shut" /\ sock' = WsClosed(sock)
WsPeerClose  == Idle /\ sock.conn = "open" /\ sock' = WsClosed(sock)

\* The runtime's send buffer passes the threshold, in either direction.
BufferFill ==
  /\ Backpressure /\ sock.conn = "open" /\ ~sock.full /\ Len(sock.out) > 0
  /\ sock' = [sock EXCEPT !.full = TRUE]

BufferDrain ==
  /\ Idle /\ sock.conn = "open" /\ sock.full
  /\ sock' = [sock EXCEPT !.full = FALSE]

-----------------------------------------------------------------------------
(* What the peer does, and everything that can happen *)

Peer ==
  \/ PollRequest \/ PollAbort \/ LatePollAbort
  \/ PostStart \/ PostPacket \/ PostAnswer \/ PostFailure
  \/ UpgradeRequest \/ ProbeReceive \/ WsReceive \/ WsPeerClose

Next ==
  \/ AppWrite \/ AppBroadcast \/ AppClose \/ AttachMetrics \/ UpgradeHeard
  \/ PingInterval \/ StrayPing \/ PingTimeout
  \/ PollTimeout \/ UpgradeTimeout \/ FastUpgradeTick
  \/ PollRequest \/ PollAbort \/ LatePollAbort
  \/ PostStart \/ PostPacket \/ PostAnswer \/ PostFailure
  \/ UpgradeRequest \/ ProbeReceive \/ WsReceive
  \/ WsCloseEvent \/ WsPeerClose
  \/ BufferFill \/ BufferDrain

Spec == Init /\ [][Next]_sock

\* Listeners return, timers fire and a WebSocket we closed reports its close
\* event.  The timer of an interval is postponed by every pong; the properties
\* checked under this fairness are about a peer that sends none, or whose pongs
\* are ignored.
Fairness ==
  /\ WF_sock(PingInterval) /\ WF_sock(PingTimeout) /\ WF_sock(UpgradeTimeout)
  /\ WF_sock(WsCloseEvent) /\ WF_sock(UpgradeHeard)

FairSpec == Spec /\ Fairness

-----------------------------------------------------------------------------
(* Safety *)

\* The session's record keeps its shape.
TypeOK == sock \in State

\* A poll is pending exactly while the transport believes it can write, and
\* only on a live polling session: closing or upgrading answers the pending
\* poll, so no client waits on a request that nothing will ever complete
\* (Polling.send, write, doClose, onPollRequest).
NoHangingPoll == PollConsistent(sock) /\ ~sock.hung

\* Packets wait in the buffer only while the transport cannot take them, or
\* until the listeners of "upgrade" have returned: whatever makes a transport
\* writable also flushes (flush, its drain event, the upgrade and the
\* resumption of a paused WebSocket).
NothingStuck == Flushed(sock)

\* A live session always has a timer that will ping it or end it: no order of
\* pongs, pings, upgrades and pauses leaves it without one (schedulePing,
\* resetPingTimeout).
KeepaliveArmed == Alive(sock)

\* The messages on the wire followed by those in the buffer are the messages
\* written, once each and in order, across the switch of transport, until a
\* WebSocket drops one (see OnlyWebSocketLoses).  Only a broadcast may come
\* before older messages, and only one that found some in the buffer of a
\* WebSocket (see OvertakenInUpgrade).
InOrderDelivery == InOrder(sock)

\* close() lets the buffer go first: a session that ended by it has put every
\* message on the wire.
GracefulClose ==
  sock.reason = "forced close" /\ ~sock.lost
    => Len(sock.out) = sock.messagesSent

\* A session waiting to close has something to wait for, and the listener that
\* will end the wait.
ClosingWaits ==
  ClosingListens(sock) /\ (sock.ready = "closing" => Buffered(sock))

\* The probe's listeners and its timers go together: once the probe is adopted
\* or closed, neither timer of _maybeUpgrade can act on the session.  Until
\* then the upgrade timer or the close event to come ends the probe; under
\* backpressure the timer leaves a paused probe alone and the probe outlives it.
ProbeTimers ==
  IF sock.probing
    THEN /\ sock.transport = "polling" /\ sock.upgrade = "upgrading"
         /\ Backpressure \/ sock.upgradeTimer \/ sock.conn = "shut"
    ELSE ~sock.upgradeTimer /\ ~sock.fastTimer

\* The session's WebSocket outlives the session only until its close event.
NoOrphanWebSocket ==
  Closed(sock) /\ sock.conn = "open" => sock.probing

-----------------------------------------------------------------------------
(* Action properties *)

\* A closed session is final: stray timers, late packets and the end of an
\* upgrade write nothing for it, do not revive it and do not change the reason
\* it reported.
ClosedIsFinal ==
  [][Closed(sock) =>
       /\ sock'.ready = sock.ready /\ sock'.reason = sock.reason
       /\ sock'.transport = sock.transport /\ sock'.out = sock.out
       /\ sock'.messagesSent = sock.messagesSent]_sock

\* Messages are dropped only by a WebSocket, and only by one that has been
\* closed or, for a broadcast, one that is paused; polling and the upgrade keep
\* them all.
OnlyWebSocketLoses ==
  [][~sock.lost /\ sock'.lost =>
       sock.transport = "websocket" /\ ~WsReady(sock)]_sock

\* A broadcast goes past waiting messages only from a listener of "upgrade",
\* which runs when the WebSocket is bound and not yet flushed (_maybeUpgrade):
\* at any other time a WebSocket that has messages waiting is paused and drops
\* what is broadcast, so none arrives ahead of older ones.
OvertakenInUpgrade ==
  [][sock'.overtook # sock.overtook /\ ~sock'.lost => sock.switching]_sock

\* A broadcast reaches a session whose WebSocket is open: the message is on the
\* wire or in the buffer.
BroadcastReaches ==
  [][Open(sock) /\ sock'.messagesSent > sock.messagesSent
       /\ sock.transport = "websocket" /\ sock.conn = "open"
     => Len(sock'.out \o sock'.buffer) > Len(sock.out \o sock.buffer)]_sock

\* The ping timeout ends a session whose WebSocket peer is reachable only for
\* a ping that was sent to it: none is still in the buffer.
UnansweredPingWasSent ==
  [][sock'.reason = "ping timeout" /\ ~Closed(sock)
       /\ sock.transport = "websocket" /\ sock.conn = "open" /\ ~sock.full
     => "ping" \notin sock.ctl]_sock

-----------------------------------------------------------------------------
(* Refinement *)

\* What a session promises its application, whatever carries it.
Promise == INSTANCE Channel WITH
  ready <- sock.ready, reason <- sock.reason, transport <- sock.transport,
  accepted <- sock.messagesSent, delivered <- Len(sock.out),
  intact <- ~sock.lost, switching <- sock.switching

\* Transports, timers, polls, pauses and upgrades implement that promise: a
\* message is delivered in the step that accepts it or waits for one that
\* delivers everything accepted, close() waits for it, and only a switch from
\* polling to WebSocket changes the transport.
ImplementsChannel == Promise!Spec

-----------------------------------------------------------------------------
(* Liveness *)

\* close() ends: by the drain of the buffer or, when the peer never takes it,
\* by the ping timeout.
ClosingEnds == (sock.ready = "closing") ~> Closed(sock)

\* A session whose peer falls silent is closed.
SilentPeerIsClosed == <>[][~Peer]_sock => <>Closed(sock)

\* A probe is adopted or closed (without backpressure: a paused probe is not
\* closed by the upgrade timeout).
ProbeEnds == sock.probing ~> ~sock.probing
=============================================================================
