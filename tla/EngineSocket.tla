---------------------------- MODULE EngineSocket ----------------------------
(***************************************************************************)
(* The synchronous code of one Engine.IO session: Socket (lib/socket.ts)   *)
(* with the transports it drives, Polling (lib/transports/polling.ts) and  *)
(* WS (lib/transports/websocket.ts).                                       *)
(*                                                                         *)
(* JavaScript runs a handler to completion, so a method is an operator     *)
(* from the session's record to the record it leaves behind, and a method  *)
(* that calls others composes their operators in the order of the calls.   *)
(* The actions of module Session apply the entry points.  An operator      *)
(* whose comment begins with "Fault" is no part of the model: it is the    *)
(* one after it with a fault that a plausible change to the code could     *)
(* bring, and that a run must notice.                                      *)
(*                                                                         *)
(* The record s of a session:                                              *)
(*   ready, reason    Socket.readyState and the reason of its close event  *)
(*   transport        what Socket.transport is bound to                    *)
(*   upgrade          Socket.upgradeState                                  *)
(*   buffer, ctl      Socket.writeBuffer: its messages, in order, and the  *)
(*                    types of the control packets among them              *)
(*   closeOnDrain     close() left its once("drain") listener              *)
(*   interval         pingIntervalTimer; strays counts the interval timers *)
(*                    whose handle schedulePing has overwritten            *)
(*   timeout          pingTimeoutTimer ("none" while it is undefined)      *)
(*   poll, pollWritable   Polling.pollingPromise, Polling.writable         *)
(*   late             the request of an answered poll may still abort      *)
(*   hung             some poll was dropped and will never be answered     *)
(*   posting          a POST is between its first await and its answer     *)
(*   conn             the session's one WebSocket (of the handshake, or    *)
(*                    the probe): never opened, open, closed by us with    *)
(*                    its close event to come, or gone                     *)
(*   wsWritable, sends, full   WS.writable, WS._sendCount modulo the check *)
(*                    interval, and getBufferedAmount() > threshold        *)
(*   probing          the listeners of _maybeUpgrade are on the probe      *)
(*   upgradeTimer, fastTimer, fastLeaked   the timers of _maybeUpgrade     *)
(*   switching        the application's listeners of "upgrade" are running *)
(*   createListener   _hasPacketCreateListener                             *)
(*   messagesSent     the messages the application was told are sent       *)
(*   out              the messages put on the wire, in order               *)
(*   overtook         those of them that went past messages in writeBuffer *)
(*   lost             a message was given to a transport that dropped it   *)
(***************************************************************************)
EXTENDS Integers, Sequences

CONSTANTS
  Backpressure,   \* opts.backpressureThreshold > 0
  CheckInterval,  \* BACKPRESSURE_CHECK_INTERVAL
  LateAborts      \* the runtime may abort the signal of an answered request

ASSUME EngineSocketAssumption ==
  /\ Backpressure \in BOOLEAN
  /\ CheckInterval \in Nat \ {0}
  /\ LateAborts \in BOOLEAN

CloseReason == {"none", "transport close", "transport error", "ping timeout",
                "parse error", "forced close"}

State ==
  [ready : {"open", "closing", "closed"}, reason : CloseReason,
   transport : {"polling", "websocket"},
   upgrade : {"not_upgraded", "upgrading", "upgraded"},
   buffer : Seq(Nat), ctl : SUBSET {"open", "ping", "pong"},
   closeOnDrain : BOOLEAN,
   interval : {"armed", "idle"}, strays : Nat,
   timeout : {"none", "armed", "idle"},
   poll : BOOLEAN, pollWritable : BOOLEAN, late : BOOLEAN, hung : BOOLEAN,
   posting : BOOLEAN,
   conn : {"none", "open", "shut", "gone"}, wsWritable : BOOLEAN,
   sends : 0 .. CheckInterval - 1, full : BOOLEAN,
   probing : BOOLEAN, upgradeTimer : BOOLEAN, fastTimer : BOOLEAN,
   fastLeaked : BOOLEAN, switching : BOOLEAN,
   createListener : BOOLEAN,
   messagesSent : Nat, out : Seq(Nat), overtook : SUBSET Nat, lost : BOOLEAN]

Open(s) == s.ready = "open"
Closed(s) == s.ready = "closed"

Buffered(s) == Len(s.buffer) > 0 \/ s.ctl # {}

-----------------------------------------------------------------------------
(* Polling *)

\* send and write: with no poll pending the payload goes nowhere.
PollingSend(s, msgs) ==
  IF s.poll
    THEN [s EXCEPT !.pollWritable = FALSE, !.poll = FALSE,
                   !.late = LateAborts, !.out = s.out \o msgs]
    ELSE [s EXCEPT !.pollWritable = FALSE, !.lost = s.lost \/ Len(msgs) > 0]

\* Fault: doClose forgets the pending poll instead of answering it.
ForgetPoll(s) ==
  [s EXCEPT !.poll = FALSE, !.pollWritable = FALSE, !.hung = s.hung \/ s.poll]

\* doClose: a writable transport answers its poll with "close" or "noop", and
\* a pending poll that is not writable is forgotten unanswered.
PollingDoClose(s) ==
  IF s.pollWritable
    THEN PollingSend(s, <<>>)
    ELSE [s EXCEPT !.poll = FALSE, !.hung = s.hung \/ s.poll]

-----------------------------------------------------------------------------
(* WS *)

WsReady(s) == s.wsWritable /\ s.conn = "open"

\* Fault: the count is not masked.
CheckUnmasked(s) ==
  IF Backpressure THEN [s EXCEPT !.sends = s.sends + 1] ELSE s

CheckBackpressure(s) ==
  LET n == (s.sends + 1) % CheckInterval IN
  IF Backpressure
    THEN [s EXCEPT !.sends = n, !.wsWritable = IF n = 0 /\ s.full THEN FALSE ELSE @]
    ELSE s

\* send, sendMessage and sendRaw: one call is one count, whatever the batch,
\* and a batch the socket cannot take is dropped silently.
WsSend(s, msgs) ==
  IF WsReady(s)
    THEN CheckBackpressure([s EXCEPT !.out = s.out \o msgs])
    ELSE [s EXCEPT !.lost = s.lost \/ Len(msgs) > 0]

\* doClose; the close event follows as an event of its own.
WsClose(s) == IF s.conn = "open" THEN [s EXCEPT !.conn = "shut"] ELSE s

-----------------------------------------------------------------------------
(* Socket: closing *)

\* closeTransport: once off() has run, nothing the transport emits comes back.
CloseTransport(s) ==
  IF s.transport = "polling" THEN PollingDoClose(s) ELSE WsClose(s)

\* Fault: a session can close again.
CloseAgain(s, why) ==
  CloseTransport([s EXCEPT !.ready = "closed", !.reason = why, !.interval = "idle",
                           !.timeout = IF @ = "none" THEN @ ELSE "idle"])

\* Fault: the transport stays open.
CloseSocketOnly(s, why) ==
  IF Closed(s) THEN s
  ELSE [s EXCEPT !.ready = "closed", !.reason = why, !.interval = "idle",
                 !.timeout = IF @ = "none" THEN @ ELSE "idle"]

OnClose(s, why) ==
  IF Closed(s)
    THEN s
    ELSE CloseTransport(
           [s EXCEPT !.ready = "closed", !.reason = why, !.interval = "idle",
                     !.timeout = IF @ = "none" THEN @ ELSE "idle"])

\* The local function close of Socket.close.
ForcedClose(s) == OnClose(CloseTransport(s), "forced close")

\* Fault: close() does not wait for the buffer.
CloseAtOnce(s) ==
  IF Open(s) THEN ForcedClose([s EXCEPT !.ready = "closing"]) ELSE s

\* Fault: close() waits for a drain even with nothing to send.
CloseAlwaysWaits(s) ==
  IF Open(s) THEN [s EXCEPT !.ready = "closing", !.closeOnDrain = TRUE] ELSE s

\* Fault: close() stops the heartbeat before the buffer has gone.
CloseStopsHeartbeat(s) ==
  IF ~Open(s) THEN s
  ELSE IF Buffered(s)
    THEN [s EXCEPT !.ready = "closing", !.closeOnDrain = TRUE, !.interval = "idle",
                   !.timeout = IF @ = "none" THEN @ ELSE "idle"]
    ELSE ForcedClose([s EXCEPT !.ready = "closing"])

Close(s) ==
  IF ~Open(s) THEN s
  ELSE IF Buffered(s)
    THEN [s EXCEPT !.ready = "closing", !.closeOnDrain = TRUE]
    ELSE ForcedClose([s EXCEPT !.ready = "closing"])

-----------------------------------------------------------------------------
(* Socket: writing *)

Writable(s) == IF s.transport = "polling" THEN s.pollWritable ELSE s.wsWritable

TransportSend(s, msgs) ==
  IF s.transport = "polling" THEN PollingSend(s, msgs) ELSE WsSend(s, msgs)

EmitDrain(s) ==
  IF s.closeOnDrain
    THEN ForcedClose([s EXCEPT !.closeOnDrain = FALSE])
    ELSE s

\* Fault: a transport that cannot write is given the buffer.
FlushUnasked(s) ==
  IF ~Closed(s) /\ Buffered(s)
    THEN EmitDrain(TransportSend([s EXCEPT !.buffer = <<>>, !.ctl = {}], s.buffer))
    ELSE s

\* Fault: control packets go first, and alone.
FlushControl(s) ==
  IF ~Closed(s) /\ Writable(s) /\ s.ctl # {}
    THEN EmitDrain(TransportSend([s EXCEPT !.ctl = {}], <<>>))
  ELSE IF ~Closed(s) /\ Writable(s) /\ Len(s.buffer) > 0
    THEN EmitDrain(TransportSend([s EXCEPT !.buffer = <<>>], s.buffer))
  ELSE s

Flush(s) ==
  IF ~Closed(s) /\ Writable(s) /\ Buffered(s)
    THEN EmitDrain(TransportSend([s EXCEPT !.buffer = <<>>, !.ctl = {}], s.buffer))
    ELSE s

\* sendPacket for a packet that is not a message.
SendControl(s, type) ==
  IF Open(s) THEN Flush([s EXCEPT !.ctl = @ \cup {type}]) ELSE s

\* sendPacket("message"): the identity of a message is its rank.
SendMessage(s) ==
  IF Open(s)
    THEN Flush([s EXCEPT !.messagesSent = @ + 1,
                         !.buffer = Append(@, s.messagesSent + 1)])
    ELSE s

\* Fault: the fast path does not look at the buffer.
WriteFast(s) ==
  IF Open(s) /\ s.transport = "websocket" /\ ~s.createListener /\ WsReady(s)
    THEN WsSend([s EXCEPT !.messagesSent = @ + 1], <<s.messagesSent + 1>>)
    ELSE SendMessage(s)

\* write, with its fast path around the buffer.
Write(s) ==
  IF Open(s) /\ s.transport = "websocket" /\ ~s.createListener
       /\ WsReady(s) /\ ~Buffered(s)
    THEN WsSend([s EXCEPT !.messagesSent = @ + 1], <<s.messagesSent + 1>>)
    ELSE SendMessage(s)

\* What Server.broadcast does to one client: a WS transport is written to
\* directly, past the buffer, and counts the message whatever became of it.
Broadcast(s) ==
  IF s.transport = "websocket"
    THEN WsSend([s EXCEPT !.messagesSent = @ + 1,
                          !.overtook = IF Len(s.buffer) > 0
                                         THEN @ \cup {s.messagesSent + 1} ELSE @],
                <<s.messagesSent + 1>>)
    ELSE Write(s)

\* The heartbeat's fast path: sendRaw on a writable WS transport.
SendRawOrPacket(s, type) ==
  IF s.transport = "websocket" /\ s.wsWritable
    THEN WsSend(s, <<>>)
    ELSE SendControl(s, type)

-----------------------------------------------------------------------------
(* Socket: heartbeat *)

\* schedulePing: before the first ping timeout exists it creates a timer, and
\* the handle of the timer it may already have is lost.
SchedulePing(s) ==
  IF s.timeout # "none"
    THEN [s EXCEPT !.interval = "armed"]
    ELSE [s EXCEPT !.interval = "armed",
                   !.strays = IF s.interval = "armed" THEN @ + 1 ELSE @]

\* Fault: no pong is expected.
SendPingOnly(s) == SendRawOrPacket(s, "ping")

SendPing(s) == [SendRawOrPacket(s, "ping") EXCEPT !.timeout = "armed"]

\* The callback of pingIntervalTimer, of a lost one, and of pingTimeoutTimer.
PingIntervalFired(s) == SendPing([s EXCEPT !.interval = "idle"])
StrayPingFired(s) == SendPing([s EXCEPT !.strays = @ - 1])
\* Fault: the ping timeout pings again instead of closing.
PingAgain(s) == [s EXCEPT !.timeout = "idle", !.interval = "armed"]

PingTimeoutFired(s) == OnClose([s EXCEPT !.timeout = "idle"], "ping timeout")

\* clearTimeout(pingTimeoutTimer), then schedulePing.
OnPong(s) == SchedulePing([s EXCEPT !.timeout = IF @ = "none" THEN @ ELSE "idle"])

PacketType == {"pong", "ping", "message", "error"}

\* Socket.onPacket; "error" stands for every type its default case covers.
OnPacket(s, type) ==
  IF ~Open(s) THEN s
  ELSE CASE type = "pong"    -> OnPong(s)
         [] type = "ping"    -> SendRawOrPacket(s, "pong")
         [] type = "message" -> s
         [] type = "error"   -> OnClose(s, "parse error")

-----------------------------------------------------------------------------
(* Polling: requests *)

PollingBound(s) == s.transport = "polling" /\ ~Closed(s)

\* Transport.onError reaches Socket.onError while the transport is bound.
PollingError(s) == IF PollingBound(s) THEN OnClose(s, "transport error") ELSE s

\* onPollRequest; a second poll while one is pending is an error.
OnPollRequest(s) ==
  IF s.poll
    THEN PollingError(s)
    ELSE Flush([s EXCEPT !.poll = TRUE, !.pollWritable = TRUE])

\* The pollingTimeout callback: the pending poll is rejected.
PollTimeoutFired(s) ==
  PollingError([s EXCEPT !.poll = FALSE, !.pollWritable = FALSE])

\* The abort listener of the request whose poll is pending: nobody waits for
\* the answer any more.
PollAborted(s) == PollingError([s EXCEPT !.poll = FALSE, !.pollWritable = FALSE])

\* The abort listener of an answered request finds whatever poll is pending
\* by then and drops it.
LatePollAborted(s) ==
  IF s.poll
    THEN PollingError([s EXCEPT !.late = FALSE, !.poll = FALSE,
                                !.pollWritable = FALSE, !.hung = TRUE])
    ELSE [s EXCEPT !.late = FALSE]

\* Transport.onPacket for a packet of a POST body: off() has made a transport
\* that is no longer bound deaf.
PollingPacket(s, type) ==
  IF ~PollingBound(s) THEN s
  ELSE IF type = "close"
    THEN OnClose(PollingDoClose(s), "transport close")
    ELSE OnPacket(s, type)

\* A refused, aborted or unreadable POST.
PostFailed(s) == PollingError([s EXCEPT !.posting = FALSE])

-----------------------------------------------------------------------------
(* Socket: upgrade *)

\* A WebSocket arrives for the session (Bun opens it inside server.upgrade).
\* A second one is closed at once and leaves no trace here.
MaybeUpgrade(s) ==
  IF s.upgrade # "not_upgraded" THEN s
  ELSE [s EXCEPT !.upgrade = "upgrading", !.conn = "open", !.wsWritable = TRUE,
                 !.sends = 0, !.probing = TRUE, !.upgradeTimer = TRUE]

\* sendNoopPacket: a tick of the fast upgrade interval.
SendNoop(s) ==
  IF s.transport = "polling" /\ s.pollWritable THEN PollingSend(s, <<>>) ELSE s

\* The probe ping; a second one loses the handle of the first interval.
ProbePing(s) ==
  LET t == SendNoop(WsSend(s, <<>>)) IN
  [t EXCEPT !.fastTimer = TRUE, !.fastLeaked = t.fastLeaked \/ t.fastTimer]

\* The upgrade packet: bind the probe, close the old transport, emit "upgrade".
Adopt(s) ==
  PollingDoClose(
    [s EXCEPT !.upgrade = "upgraded", !.upgradeTimer = FALSE, !.fastTimer = FALSE,
              !.probing = FALSE, !.transport = "websocket", !.switching = TRUE])

\* Fault: what waited is not flushed to the new transport.
AdoptedUnflushed(s) == [s EXCEPT !.switching = FALSE]

\* The listeners of "upgrade" have returned.
Adopted(s) == Flush([s EXCEPT !.switching = FALSE])

ProbePacketType == {"probe", "upgrade", "close", "other"}

\* Transport.onPacket, then the packet listener of _maybeUpgrade.
ProbePacket(s, type) ==
  CASE type = "probe"                   -> ProbePing(s)
    [] type = "upgrade" /\ ~Closed(s)   -> Adopt(s)
    [] type = "close"                   -> WsClose(s)
    [] type = "other" \/ (type = "upgrade" /\ Closed(s))
                                        -> WsClose([s EXCEPT !.upgradeTimer = FALSE])

\* Fault: the probe is not closed.
UpgradeForgotten(s) == [s EXCEPT !.upgradeTimer = FALSE]

UpgradeTimeoutFired(s) ==
  LET t == [s EXCEPT !.upgradeTimer = FALSE] IN
  IF s.wsWritable THEN WsClose(t) ELSE t

-----------------------------------------------------------------------------
(* WS: events *)

WsBound(s) == s.transport = "websocket" /\ ~Closed(s)

\* Fault: a transport that resumes is not flushed to.
ResumeUnflushed(s) ==
  IF ~s.wsWritable /\ Backpressure /\ ~s.full
    THEN [s EXCEPT !.wsWritable = TRUE]
    ELSE s

\* The head of WS.onMessage: the only place a paused transport resumes.
Resume(s) ==
  IF ~s.wsWritable /\ Backpressure /\ ~s.full
    THEN LET t == [s EXCEPT !.wsWritable = TRUE] IN
         IF WsBound(s) THEN Flush(t) ELSE t
    ELSE s

\* A message of the bound WS transport.
WsMessage(s, type) ==
  LET t == Resume(s) IN
  IF ~WsBound(t) THEN t
  ELSE IF type = "close" THEN WsClose(t) ELSE OnPacket(t, type)

\* A message of the probe.
ProbeMessage(s, type) == ProbePacket(Resume(s), type)

\* Fault: the close listener of the probe leaves its timers.
WsClosedOnly(s) ==
  LET t == [s EXCEPT !.conn = "gone"] IN
  IF s.probing THEN [t EXCEPT !.probing = FALSE]
  ELSE IF WsBound(s) THEN OnClose(t, "transport close") ELSE t

\* onCloseEvent, heard by the session or by the close listener of the probe.
WsClosed(s) ==
  LET t == [s EXCEPT !.conn = "gone"] IN
  IF s.probing
    THEN [t EXCEPT !.probing = FALSE, !.upgradeTimer = FALSE, !.fastTimer = FALSE]
    ELSE IF WsBound(s) THEN OnClose(t, "transport close") ELSE t

-----------------------------------------------------------------------------
(* The constructor *)

\* What new Socket leaves for a transport that is not writable yet: the "open"
\* packet buffered, the first ping scheduled.
Constructed(transport) ==
  [ready |-> "open", reason |-> "none", transport |-> transport,
   upgrade |-> "not_upgraded", buffer |-> <<>>, ctl |-> {"open"},
   closeOnDrain |-> FALSE, interval |-> "armed", strays |-> 0,
   timeout |-> "none", poll |-> FALSE, pollWritable |-> FALSE, late |-> FALSE,
   hung |-> FALSE, posting |-> FALSE, conn |-> "none", wsWritable |-> FALSE,
   sends |-> 0, full |-> FALSE, probing |-> FALSE, upgradeTimer |-> FALSE,
   fastTimer |-> FALSE, fastLeaked |-> FALSE, switching |-> FALSE,
   createListener |-> FALSE, messagesSent |-> 0, out |-> <<>>, overtook |-> {},
   lost |-> FALSE]

\* Server.handshake hands a polling session its own request as first poll; a
\* WebSocket is open before the session is constructed.
Handshake(transport) ==
  IF transport = "polling"
    THEN OnPollRequest(Constructed(transport))
    ELSE Flush([Constructed(transport) EXCEPT !.conn = "open", !.wsWritable = TRUE])

-----------------------------------------------------------------------------
(* What the handlers preserve.  Core also holds in the middle of a handler,  *)
(* with packets waiting for a flush and a timer about to be armed.           *)

PollConsistent(s) == (s.poll <=> s.pollWritable) /\ (s.poll => PollingBound(s))

NothingHung(s) == ~LateAborts => ~s.hung /\ ~s.late

ClosingListens(s) == s.ready = "closing" <=> ~Closed(s) /\ s.closeOnDrain

\* The messages 1 to n, once each, of which only those of R precede older ones.
Counts(q, n, R) ==
  /\ Len(q) = n /\ {q[i] : i \in 1 .. n} = 1 .. n
  /\ \A i, j \in 1 .. n : i < j /\ q[j] < q[i] => q[i] \in R

InOrder(s) == ~s.lost => Counts(s.out \o s.buffer, s.messagesSent, s.overtook)

Graceful(s) ==
  /\ ~Closed(s) => s.reason = "none"
  /\ s.reason = "forced close" /\ ~s.lost => Len(s.buffer) = 0

ProbeTimersOwned(s) ==
  /\ IF s.probing
       THEN s.transport = "polling" /\ s.upgrade = "upgrading"
       ELSE ~s.upgradeTimer /\ ~s.fastTimer
  /\ s.switching => s.transport = "websocket"

Core(s) ==
  /\ s \in State
  /\ PollConsistent(s) /\ NothingHung(s)
  /\ ClosingListens(s) /\ (s.ready = "closing" => Buffered(s))
  /\ InOrder(s) /\ Graceful(s)
  /\ ProbeTimersOwned(s)

Flushed(s) == ~Closed(s) /\ ~s.switching /\ Writable(s) => ~Buffered(s)

Alive(s) == ~Closed(s) => s.interval = "armed" \/ s.timeout = "armed"
=============================================================================
