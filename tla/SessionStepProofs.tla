------------------------- MODULE SessionStepProofs --------------------------
(***************************************************************************)
(* What one event may do to a session, for every value of the constants:   *)
(* the steps the application is promised (module Channel) and what becomes *)
(* of the WebSocket and of its probe.  SessionProofs says what a session   *)
(* is like between two events; here each method is followed from the       *)
(* record it is given to the record it leaves.                             *)
(***************************************************************************)
EXTENDS SessionProofs

-----------------------------------------------------------------------------
(* The steps of Channel, between two records *)

Delivered(s) == Len(s.out)
Waiting(s) == Len(s.buffer)

SameEnd(s, t) == t.ready = s.ready /\ t.reason = s.reason

\* Everything accepted is delivered, except what was lost.
DeliversAll(s, t) ==
  IF s.lost THEN Delivered(t) \in Delivered(s) .. t.messagesSent
            ELSE Delivered(t) = t.messagesSent

Stutters(s, t) ==
  /\ SameEnd(s, t) /\ t.transport = s.transport /\ t.switching = s.switching
  /\ t.messagesSent = s.messagesSent /\ t.overtook = s.overtook /\ t.out = s.out
  /\ t.lost = s.lost

Accepts(s, t) ==
  /\ Open(s) /\ t.messagesSent = s.messagesSent + 1 /\ t.overtook = s.overtook
  /\ DeliversAll(s, t) \/ t.out = s.out
  /\ SameEnd(s, t) /\ t.transport = s.transport /\ t.switching = s.switching
  /\ t.lost = s.lost

\* Past what waits for the WebSocket, while the listeners of "upgrade" run.
Overtakes(s, t) ==
  /\ ~Closed(s) /\ s.switching /\ t.messagesSent = s.messagesSent + 1
  /\ Delivered(t) = Delivered(s) + 1
  /\ SameEnd(s, t) /\ t.transport = s.transport /\ t.switching = s.switching
  /\ t.lost = s.lost

\* Only a WebSocket that is closed or paused drops a message.
Loses(s, t) ==
  /\ ~Closed(s) /\ s.transport = "websocket" /\ ~WsReady(s)
  /\ t.messagesSent = s.messagesSent + 1 /\ t.lost /\ t.out = s.out
  /\ SameEnd(s, t) /\ t.transport = s.transport /\ t.switching = s.switching

Drains(s, t) ==
  /\ ~Closed(s) /\ DeliversAll(s, t)
  /\ IF s.ready = "closing"
       THEN t.ready = "closed" /\ t.reason = "forced close"
       ELSE SameEnd(s, t)
  /\ t.messagesSent = s.messagesSent /\ t.overtook = s.overtook /\ t.lost = s.lost

Delivers(s, t) == Drains(s, t) /\ t.transport = s.transport /\ t.switching = s.switching

Switches(s, t) ==
  /\ s.transport = "polling" /\ t.transport = "websocket"
  /\ ~Closed(s) /\ t.switching /\ t.out = s.out /\ SameEnd(s, t)
  /\ t.messagesSent = s.messagesSent /\ t.overtook = s.overtook /\ t.lost = s.lost

Switched(s, t) ==
  /\ s.switching /\ ~t.switching
  /\ Drains(s, t) \/ (t.out = s.out /\ SameEnd(s, t))
  /\ t.transport = s.transport
  /\ t.messagesSent = s.messagesSent /\ t.overtook = s.overtook /\ t.lost = s.lost

Closes(s, t) ==
  /\ Open(s)
  /\ \/ t.ready = "closing" /\ t.reason = s.reason
     \/ t.ready = "closed" /\ t.reason = "forced close" /\ DeliversAll(s, t)
  /\ t.transport = s.transport /\ t.switching = s.switching
  /\ t.messagesSent = s.messagesSent /\ t.overtook = s.overtook /\ t.out = s.out
  /\ t.lost = s.lost

Failures == {"transport close", "transport error", "ping timeout", "parse error"}

Fails(s, t) ==
  /\ ~Closed(s) /\ Closed(t) /\ t.reason \in Failures
  /\ t.out = s.out \/ DeliversAll(s, t)
  /\ t.transport = s.transport /\ t.switching = s.switching
  /\ t.messagesSent = s.messagesSent /\ t.overtook = s.overtook /\ t.lost = s.lost

Steps(s, t) ==
  \/ Stutters(s, t) \/ Accepts(s, t) \/ Overtakes(s, t) \/ Loses(s, t)
  \/ Delivers(s, t) \/ Switches(s, t) \/ Switched(s, t)
  \/ Closes(s, t) \/ Fails(s, t)

-----------------------------------------------------------------------------
(* The WebSocket and its probe *)

\* A probe's WebSocket is open until its close event comes; without
\* backpressure nothing pauses it and the upgrade timer is armed till then.
\* An open WebSocket belongs to a probe or carries a live session, and the one
\* whose adoption the application is hearing of stays open while it carries it.
Probed(s) ==
  /\ s.probing => /\ s.conn \in {"open", "shut"}
                  /\ \/ Backpressure
                     \/ s.wsWritable /\ (s.upgradeTimer \/ s.conn = "shut")
  /\ s.conn = "open" => s.probing \/ WsBound(s)
  /\ s.switching /\ ~Closed(s) => s.conn = "open"

\* Nothing is delivered or buffered that was not accepted.
Bounded(s) == Delivered(s) + Waiting(s) <= s.messagesSent

StepInv(s) == Inv(s) /\ Probed(s) /\ Bounded(s)

\* What a method that leaves the probe alone does to the WebSocket: only
\* backpressure pauses it, and a session that ends closes its own.
Goes(s, t) ==
  /\ t.probing = s.probing /\ t.upgradeTimer = s.upgradeTimer
  /\ t.transport = s.transport /\ t.switching = s.switching
  /\ Backpressure \/ t.wsWritable = s.wsWritable
  /\ t.conn = s.conn \/ (s.transport = "websocket" /\ t.conn # "open")
  /\ s.switching /\ ~Closed(t) => t.conn = s.conn
  /\ Closed(s) => Closed(t)
  /\ Closed(t) => Closed(s) \/ s.transport = "polling" \/ t.conn # "open"

\* A method that accepts and delivers nothing: at most, the session fails.
Falls(s, t) ==
  /\ Stutters(s, t) \/ (Fails(s, t) /\ t.out = s.out)
  /\ Waiting(t) = Waiting(s)
  /\ Goes(s, t)

\* A step that the session may take.
Good(s, t) == Steps(s, t) /\ Probed(t) /\ Bounded(t)

\* The fields all of this is about.
StepFields ==
  {"ready", "reason", "transport", "messagesSent", "out", "lost", "buffer",
   "conn", "wsWritable", "probing", "upgradeTimer", "switching", "overtook"}

LEMMA StepFieldsInState ==
  ASSUME NEW s \in State
  PROVE  /\ StepFields \subseteq DOMAIN s
         /\ s.out \in Seq(Nat) /\ s.buffer \in Seq(Nat)
         /\ Delivered(s) \in Nat /\ Waiting(s) \in Nat /\ s.messagesSent \in Nat
         /\ s.transport \in {"polling", "websocket"}
         /\ s.lost \in BOOLEAN /\ s.wsWritable \in BOOLEAN /\ s.probing \in BOOLEAN
<1>1. /\ s.out \in Seq(Nat) /\ s.buffer \in Seq(Nat) /\ s.messagesSent \in Nat
      /\ s.transport \in {"polling", "websocket"}
      /\ s.lost \in BOOLEAN /\ s.wsWritable \in BOOLEAN /\ s.probing \in BOOLEAN
  BY DEF State
<1>2. StepFields \subseteq DOMAIN s
  BY DEF State, StepFields
<1>3. Delivered(s) \in Nat /\ Waiting(s) \in Nat
  BY <1>1 DEF Delivered, Waiting
<1> QED BY <1>1, <1>2, <1>3

\* Sequences that are the same have the same length.
LEMMA SameLength ==
  ASSUME NEW s, NEW t
  PROVE  /\ t.out = s.out => Delivered(t) = Delivered(s)
         /\ t.buffer = s.buffer => Waiting(t) = Waiting(s)
         /\ t.buffer = <<>> => Waiting(t) = 0
BY EmptySequence DEF Delivered, Waiting

\* Records that agree on them.
LEMMA SameStep ==
  ASSUME NEW s \in State, NEW t, NEW F, SameBut(s, t, F)
  PROVE  \A f \in StepFields \ F : t[f] = s[f]
BY StepFieldsInState DEF SameBut

LEMMA FallsFrame ==
  ASSUME NEW s, NEW t, \A f \in StepFields : t[f] = s[f]
  PROVE  Falls(s, t)
BY SameLength DEF StepFields, Falls, Stutters, SameEnd, Goes, Closed

LEMMA FallsSame == \A s : Falls(s, s)
BY DEF Falls, Stutters, SameEnd, Goes

\* Such methods compose.
LEMMA FallsTrans ==
  ASSUME NEW s, NEW u, NEW t, Falls(s, u), Falls(u, t)
  PROVE  Falls(s, t)
<1>1. Goes(s, t)
  BY DEF Falls, Goes
<1>2. Stutters(s, t) \/ (Fails(s, t) /\ t.out = s.out)
  BY DEF Falls, Stutters, Fails, SameEnd, DeliversAll, Closed
<1> QED BY <1>1, <1>2 DEF Falls

LEMMA GoesProbed ==
  ASSUME NEW s, Inv(s), Probed(s), NEW t, Goes(s, t)
  PROVE  Probed(t)
<1>1. s.probing => s.transport = "polling"
  BY DEF Inv, Core, ProbeTimersOwned
<1> QED BY <1>1 DEF Probed, Goes, WsBound, Closed

LEMMA FallsGood ==
  ASSUME NEW s, StepInv(s), NEW t, Falls(s, t)
  PROVE  Good(s, t)
<1>1. Probed(t)
  BY GoesProbed DEF StepInv, Falls
<1>2. Bounded(t) /\ Steps(s, t)
  BY SameLength DEF StepInv, Bounded, Falls, Stutters, Fails, Steps
<1> QED BY <1>1, <1>2 DEF Good

\* The application hears of the adoption of a probe only on a WebSocket.
LEMMA PollingSettled ==
  ASSUME NEW s, Inv(s), s.probing \/ s.transport = "polling"
  PROVE  ~s.switching
BY DEF Inv, Core, ProbeTimersOwned

\* What has been accepted is on the wire, in the buffer or lost.
LEMMA InOrderLength ==
  ASSUME NEW s, Core(s), ~s.lost
  PROVE  Delivered(s) + Waiting(s) = s.messagesSent
<1>1. s.out \in Seq(Nat) /\ s.buffer \in Seq(Nat) /\ s.messagesSent \in Nat
  BY DEF Core, State
<1>2. Len(s.out \o s.buffer) = Delivered(s) + Waiting(s)
  BY <1>1 DEF Delivered, Waiting
<1>3. s.out \o s.buffer \in Seq(Nat)
      /\ Counts(s.out \o s.buffer, s.messagesSent, s.overtook)
  BY <1>1, ConcatType DEF Core, InOrder
<1>4. \A q \in Seq(Nat) : Counts(q, s.messagesSent, s.overtook) => Len(q) = s.messagesSent
  BY <1>1 DEF Counts
<1> QED BY <1>2, <1>3, <1>4

-----------------------------------------------------------------------------
(* Closing *)

\* Only the transport that carries the session is closed.
LEMMA CloseTransportStep ==
  ASSUME NEW s \in State, s.poll <=> s.pollWritable, s.poll => s.transport = "polling"
  PROVE  LET t == CloseTransport(s) IN
         /\ t \in State
         /\ SameBut(s, t, {"poll", "pollWritable", "late", "conn"})
         /\ s.transport = "polling" => t.conn = s.conn
         /\ s.transport # "polling" => t.conn # "open"
<1>1. /\ CloseTransport(s) \in State
      /\ SameBut(s, CloseTransport(s), {"poll", "pollWritable", "late", "conn"})
  BY CloseTransportEffect
<1>2. CASE s.transport = "polling"
  <2>1. SameBut(s, PollingDoClose(s), {"poll", "pollWritable", "late"})
    BY PollingDoCloseEffect
  <2>2. PollingDoClose(s).conn = s.conn
    BY <2>1, SameStep DEF StepFields
  <2> QED BY <1>1, <1>2, <2>2 DEF CloseTransport
<1>3. CASE s.transport # "polling"
  <2>1. WsClose(s).conn # "open"
    BY DEF WsClose, State
  <2> QED BY <1>1, <1>3, <2>1 DEF CloseTransport
<1> QED BY <1>2, <1>3

\* A live session ends, for a reason.
LEMMA OnCloseStep ==
  ASSUME NEW s \in State, NEW why \in CloseReason, ~Closed(s),
         s.poll <=> s.pollWritable, s.poll => s.transport = "polling"
  PROVE  LET t == OnClose(s, why) IN
         /\ Closed(t) /\ t.reason = why
         /\ t.transport = s.transport /\ t.switching = s.switching
         /\ t.messagesSent = s.messagesSent /\ t.overtook = s.overtook
         /\ t.out = s.out /\ t.lost = s.lost /\ t.buffer = s.buffer
         /\ Goes(s, t)
<1> DEFINE u == [s EXCEPT !.ready = "closed", !.reason = why, !.interval = "idle",
                          !.timeout = IF @ = "none" THEN @ ELSE "idle"]
           t == OnClose(s, why)
<1>1. /\ t \in State /\ t.ready = "closed" /\ t.reason = why
      /\ SameBut(s, t, {"ready", "reason", "interval", "timeout",
                        "poll", "pollWritable", "late", "conn"})
  BY OnCloseEffect
<1>2. /\ t.transport = s.transport /\ t.switching = s.switching
      /\ t.messagesSent = s.messagesSent /\ t.overtook = s.overtook
      /\ t.out = s.out /\ t.lost = s.lost /\ t.buffer = s.buffer
      /\ t.wsWritable = s.wsWritable /\ t.probing = s.probing
      /\ t.upgradeTimer = s.upgradeTimer
  BY <1>1, SameStep DEF StepFields
<1>3. t = CloseTransport(u)
  BY DEF OnClose
<1> HIDE DEF t
<1>4. u \in State
  BY ZenonT(40) DEF State
<1>5. /\ u.poll = s.poll /\ u.pollWritable = s.pollWritable
      /\ u.transport = s.transport /\ u.switching = s.switching /\ u.conn = s.conn
  BY DEF State
<1> HIDE DEF u
<1>6. /\ s.transport = "polling" => t.conn = s.conn
      /\ s.transport # "polling" => t.conn # "open"
  BY <1>3, <1>4, <1>5, CloseTransportStep
<1>7. s.transport \in {"polling", "websocket"}
  BY DEF State
<1>8. Goes(s, t)
  BY <1>1, <1>2, <1>6, <1>7 DEF Goes, Closed
<1> QED BY <1>1, <1>2, <1>8 DEF t, Closed

\* What onClose asks of the poll.
LEMMA PollOfCore ==
  ASSUME NEW s, Core(s)
  PROVE  s \in State /\ (s.poll <=> s.pollWritable) /\ (s.poll => s.transport = "polling")
BY DEF Core, PollConsistent, PollingBound

\* A failure, of a session that may have ended already.
LEMMA OnCloseFalls ==
  ASSUME NEW s, Core(s), NEW why \in Failures
  PROVE  Falls(s, OnClose(s, why))
<1>1. CASE Closed(s)
  BY <1>1, FallsSame DEF OnClose
<1>2. CASE ~Closed(s)
  <2> DEFINE t == OnClose(s, why)
  <2>1. why \in CloseReason
    BY DEF Failures, CloseReason
  <2>2. /\ Closed(t) /\ t.reason = why
        /\ t.transport = s.transport /\ t.switching = s.switching
        /\ t.messagesSent = s.messagesSent /\ t.overtook = s.overtook
        /\ t.out = s.out /\ t.lost = s.lost /\ t.buffer = s.buffer
        /\ Goes(s, t)
    BY <1>2, <2>1, PollOfCore, OnCloseStep
  <2> HIDE DEF t
  <2>3. Falls(s, t)
    BY <1>2, <2>2, SameLength DEF Falls, Fails
  <2> QED BY <2>3 DEF t
<1> QED BY <1>1, <1>2

\* The end that close() brings.
LEMMA ForcedCloseStep ==
  ASSUME NEW s \in State, ~Closed(s), s.poll <=> s.pollWritable,
         s.poll => s.transport = "polling"
  PROVE  LET t == ForcedClose(s) IN
         /\ Closed(t) /\ t.reason = "forced close"
         /\ t.transport = s.transport /\ t.switching = s.switching
         /\ t.messagesSent = s.messagesSent /\ t.overtook = s.overtook
         /\ t.out = s.out /\ t.lost = s.lost /\ t.buffer = s.buffer
         /\ Goes(s, t)
<1> DEFINE u == CloseTransport(s)
           t == ForcedClose(s)
<1>1. /\ u \in State /\ ~u.poll /\ ~u.pollWritable
      /\ SameBut(s, u, {"poll", "pollWritable", "late", "conn"})
      /\ s.transport = "polling" => u.conn = s.conn
      /\ s.transport # "polling" => u.conn # "open"
  BY CloseTransportStep, CloseTransportEffect
<1>2. t = OnClose(u, "forced close")
  BY DEF ForcedClose
<1> HIDE DEF u, t
<1>3. /\ u.ready = s.ready /\ u.reason = s.reason /\ u.buffer = s.buffer
      /\ u.transport = s.transport /\ u.switching = s.switching
      /\ u.messagesSent = s.messagesSent /\ u.overtook = s.overtook
      /\ u.out = s.out /\ u.lost = s.lost
      /\ u.wsWritable = s.wsWritable /\ u.probing = s.probing
      /\ u.upgradeTimer = s.upgradeTimer
  BY <1>1, SameStep DEF StepFields
<1>4. /\ "forced close" \in CloseReason /\ ~Closed(u)
      /\ (u.poll <=> u.pollWritable) /\ (u.poll => u.transport = "polling")
  BY <1>1, <1>3 DEF CloseReason, Closed
<1>5. /\ Closed(t) /\ t.reason = "forced close"
      /\ t.transport = u.transport /\ t.switching = u.switching
      /\ t.messagesSent = u.messagesSent /\ t.overtook = u.overtook
      /\ t.out = u.out /\ t.lost = u.lost /\ t.buffer = u.buffer
      /\ Goes(u, t)
  BY <1>1, <1>2, <1>4, OnCloseStep, ZenonT(60)
<1>6. s.transport \in {"polling", "websocket"}
  BY DEF State
<1>7. Goes(s, t)
  BY <1>1, <1>3, <1>5, <1>6 DEF Goes, Closed
<1> QED BY <1>3, <1>5, <1>7 DEF t

-----------------------------------------------------------------------------
(* Sending *)

\* What becomes of a batch that is dropped: a message is lost if it has one.
Dropped(s, t, msgs) ==
  (Len(msgs) = 0 => t.lost = s.lost) /\ (Len(msgs) # 0 => t.lost = TRUE)

\* A WebSocket takes a batch or drops it, and only backpressure pauses it.
LEMMA WsSendStep ==
  ASSUME NEW s \in State, NEW msgs \in Seq(Nat)
  PROVE  LET t == WsSend(s, msgs) IN
         /\ t \in State /\ SameBut(s, t, {"sends", "wsWritable", "out", "lost"})
         /\ Goes(s, t)
         /\ IF WsReady(s) THEN t.out = s.out \o msgs /\ t.lost = s.lost
                          ELSE t.out = s.out /\ Dropped(s, t, msgs)
<1> DEFINE o == s.out \o msgs
           t == WsSend(s, msgs)
<1>1. /\ t \in State /\ SameBut(s, t, {"sends", "wsWritable", "out", "lost"})
  BY WsSendEffect
<1>2. IF WsReady(s) THEN t.out = s.out \o msgs /\ t.lost = s.lost
                    ELSE t.out = s.out /\ Dropped(s, t, msgs)
  <2>1. CASE WsReady(s)
    <3> DEFINE u == [s EXCEPT !.out = o]
    <3>1. t = CheckBackpressure(u)
      BY <2>1 DEF WsSend
    <3>2. o \in Seq(Nat)
      BY ConcatType DEF State
    <3> HIDE DEF o
    <3>3. u \in State /\ u.out = o /\ u.lost = s.lost
      BY <3>2 DEF State
    <3> HIDE DEF u, t
    <3>4. SameBut(u, t, {"sends", "wsWritable"})
      BY <3>1, <3>3, CheckBackpressureEffect
    <3>5. t.out = u.out /\ t.lost = u.lost
      BY <3>3, <3>4, SameStep DEF StepFields
    <3> QED BY <2>1, <3>3, <3>5 DEF o
  <2>2. CASE ~WsReady(s)
    <3>1. t = [s EXCEPT !.lost = s.lost \/ Len(msgs) > 0]
      BY <2>2 DEF WsSend
    <3>2. t.out = s.out
      BY <3>1 DEF State
    <3>3. Dropped(s, t, msgs)
      <4>1. t.lost = (s.lost \/ Len(msgs) > 0) /\ s.lost \in BOOLEAN
        BY <3>1 DEF State
      <4>2. (Len(msgs) > 0) = (Len(msgs) # 0)
        OBVIOUS
      <4> QED BY <4>1, <4>2, Zenon DEF Dropped
    <3> QED BY <2>2, <3>2, <3>3
  <2> QED BY <2>1, <2>2
<1>3. ~Backpressure => t.wsWritable = s.wsWritable
  BY DEF WsSend, CheckBackpressure, State
<1> HIDE DEF t
<1>4. /\ t.ready = s.ready /\ t.transport = s.transport /\ t.switching = s.switching
      /\ t.conn = s.conn
      /\ t.probing = s.probing /\ t.upgradeTimer = s.upgradeTimer
  BY <1>1, SameStep DEF StepFields
<1>5. Goes(s, t)
  BY <1>3, <1>4 DEF Goes, Closed
<1> QED BY <1>1, <1>2, <1>5 DEF t

\* A transport that can write takes what it is given, unless it is a WebSocket
\* that has been closed.
Takes(s) == s.transport = "polling" \/ WsReady(s)

LEMMA TransportSendStep ==
  ASSUME NEW s \in State, NEW msgs \in Seq(Nat), s.poll <=> s.pollWritable,
         s.poll => s.transport = "polling", Writable(s)
  PROVE  LET t == TransportSend(s, msgs) IN
         /\ t \in State /\ SameBut(s, t, SendFields) /\ ~t.poll /\ ~t.pollWritable
         /\ Goes(s, t)
         /\ IF Takes(s) THEN t.out = s.out \o msgs /\ t.lost = s.lost
                        ELSE t.out = s.out /\ Dropped(s, t, msgs)
<1> DEFINE t == TransportSend(s, msgs)
<1>1. t \in State /\ SameBut(s, t, SendFields) /\ ~t.poll /\ ~t.pollWritable
  BY TransportSendEffect
<1>2. CASE s.transport = "polling"
  <2>1. s.poll /\ t = PollingSend(s, msgs)
    BY <1>2 DEF Writable, TransportSend
  <2>2. /\ t.out = s.out \o msgs
        /\ SameBut(s, t, {"poll", "pollWritable", "late", "out"})
    BY <2>1, PollingSendEffect
  <2> HIDE DEF t
  <2>3. /\ t.ready = s.ready /\ t.transport = s.transport
        /\ t.switching = s.switching /\ t.conn = s.conn
        /\ t.lost = s.lost /\ t.wsWritable = s.wsWritable
        /\ t.probing = s.probing /\ t.upgradeTimer = s.upgradeTimer
    BY <2>2, SameStep, SMTT(30) DEF StepFields
  <2>4. Goes(s, t)
    BY <2>3 DEF Goes, Closed
  <2> QED BY <1>1, <1>2, <2>2, <2>3, <2>4 DEF Takes, t
<1>3. CASE s.transport # "polling"
  <2>1. t = WsSend(s, msgs)
    BY <1>3 DEF TransportSend
  <2> QED BY <1>1, <1>3, <2>1, WsSendStep DEF Takes
<1> QED BY <1>2, <1>3

\* Flush gives the buffer to a transport that can write, and completes a close
\* that waited for that.
LEMMA FlushStep ==
  ASSUME NEW s, Core(s)
  PROVE  LET t == Flush(s) IN
         \/ t = s
         \/ /\ ~Closed(s) /\ Writable(s) /\ Waiting(t) = 0
            /\ t.transport = s.transport /\ t.switching = s.switching
            /\ t.messagesSent = s.messagesSent /\ t.overtook = s.overtook
            /\ IF s.ready = "closing"
                 THEN Closed(t) /\ t.reason = "forced close" ELSE SameEnd(s, t)
            /\ Goes(s, t)
            /\ IF Takes(s)
                 THEN t.out = s.out \o s.buffer /\ t.lost = s.lost
                 ELSE t.out = s.out /\ Dropped(s, t, s.buffer)
<1>1. CASE ~(~Closed(s) /\ Writable(s) /\ Buffered(s))
  BY <1>1 DEF Flush
<1>2. CASE ~Closed(s) /\ Writable(s) /\ Buffered(s)
  <2> DEFINE u == [s EXCEPT !.buffer = <<>>, !.ctl = {}]
             v == TransportSend(u, s.buffer)
             w == [v EXCEPT !.closeOnDrain = FALSE]
             t == Flush(s)
  <2>1. s \in State /\ s.buffer \in Seq(Nat) /\ ClosingListens(s)
    BY DEF Core, State
  <2>2. u \in State
    BY <2>1, EmptySequence, ZenonT(40) DEF State
  <2>3. /\ u.ready = s.ready /\ u.reason = s.reason /\ u.transport = s.transport
        /\ u.switching = s.switching
        /\ u.messagesSent = s.messagesSent /\ u.overtook = s.overtook
        /\ u.out = s.out /\ u.lost = s.lost
        /\ u.buffer = <<>> /\ u.conn = s.conn /\ u.wsWritable = s.wsWritable
        /\ u.probing = s.probing /\ u.upgradeTimer = s.upgradeTimer
        /\ u.poll = s.poll /\ u.pollWritable = s.pollWritable
        /\ u.closeOnDrain = s.closeOnDrain
    BY <2>1 DEF State
  <2>4. t = EmitDrain(v)
    BY <1>2 DEF Flush
  <2> HIDE DEF t, u
  <2>5. /\ v \in State /\ SameBut(u, v, SendFields) /\ ~v.poll /\ ~v.pollWritable
        /\ Goes(u, v)
        /\ IF Takes(u) THEN v.out = u.out \o s.buffer /\ v.lost = u.lost
                       ELSE v.out = u.out /\ Dropped(u, v, s.buffer)
    <3>1. Writable(u) /\ (u.poll <=> u.pollWritable)
          /\ (u.poll => u.transport = "polling")
      BY <1>2, <2>3, PollOfCore DEF Writable
    <3> QED BY <2>1, <2>2, <3>1, TransportSendStep
  <2> HIDE DEF v
  <2>6. /\ v.ready = s.ready /\ v.reason = s.reason /\ v.transport = s.transport
        /\ v.switching = s.switching
        /\ v.messagesSent = s.messagesSent /\ v.overtook = s.overtook /\ v.buffer = <<>>
        /\ v.closeOnDrain = s.closeOnDrain
    <3>1. v.closeOnDrain = u.closeOnDrain
      <4>1. "closeOnDrain" \in DOMAIN u \ SendFields
        BY <2>2 DEF SendFields, State
      <4> QED BY <2>5, <4>1 DEF SameBut
    <3>2. \A f \in StepFields \ SendFields : v[f] = u[f]
      BY <2>2, <2>5, SameStep
    <3> QED BY <2>3, <3>1, <3>2 DEF StepFields, SendFields
  <2>7. /\ Goes(s, v)
        /\ IF Takes(s) THEN v.out = s.out \o s.buffer /\ v.lost = s.lost
                       ELSE v.out = s.out /\ Dropped(s, v, s.buffer)
    BY <2>3, <2>5 DEF Goes, Takes, WsReady, Closed, Dropped
  <2>8. CASE s.closeOnDrain
    <3>1. t = ForcedClose(w)
      BY <2>4, <2>6, <2>8 DEF EmitDrain
    <3>2. w \in State
      BY <2>5 DEF State
    <3>3. /\ w.ready = v.ready /\ w.transport = v.transport /\ w.switching = v.switching
          /\ w.messagesSent = v.messagesSent /\ w.overtook = v.overtook
          /\ w.out = v.out /\ w.lost = v.lost
          /\ w.buffer = v.buffer /\ w.conn = v.conn /\ w.wsWritable = v.wsWritable
          /\ w.probing = v.probing /\ w.upgradeTimer = v.upgradeTimer
          /\ w.poll = v.poll /\ w.pollWritable = v.pollWritable
      BY <2>5 DEF State
    <3> HIDE DEF w
    <3>4. /\ Closed(t) /\ t.reason = "forced close"
          /\ t.transport = w.transport /\ t.switching = w.switching
          /\ t.messagesSent = w.messagesSent /\ t.overtook = w.overtook
          /\ t.out = w.out /\ t.lost = w.lost /\ t.buffer = w.buffer
          /\ Goes(w, t)
      <4>1. /\ ~Closed(w) /\ (w.poll <=> w.pollWritable)
            /\ (w.poll => w.transport = "polling")
        BY <1>2, <2>5, <2>6, <3>3 DEF Closed
      <4> QED BY <3>1, <3>2, <4>1, ForcedCloseStep
    <3>5. s.ready = "closing"
      BY <1>2, <2>1, <2>8 DEF ClosingListens
    <3>6. Goes(s, t)
      BY <1>2, <2>6, <2>7, <3>3, <3>4 DEF Goes, Closed
    <3>7. /\ Waiting(t) = 0 /\ t.transport = s.transport /\ t.switching = s.switching
          /\ t.messagesSent = s.messagesSent /\ t.overtook = s.overtook
      BY <2>6, <3>3, <3>4, SameLength
    <3>8. IF Takes(s) THEN t.out = s.out \o s.buffer /\ t.lost = s.lost
                      ELSE t.out = s.out /\ Dropped(s, t, s.buffer)
      BY <2>7, <3>3, <3>4 DEF Dropped
    <3> QED BY <1>2, <3>4, <3>5, <3>6, <3>7, <3>8 DEF t
  <2>9. CASE ~s.closeOnDrain
    <3>1. t = v /\ s.ready # "closing"
      BY <1>2, <2>1, <2>4, <2>6, <2>9 DEF EmitDrain, ClosingListens
    <3> QED BY <1>2, <2>6, <2>7, <3>1, SameLength DEF t, SameEnd
  <2> QED BY <2>8, <2>9
<1> QED BY <1>1, <1>2

\* To the application, a flush that finds its transport alive is a delivery.
LEMMA FlushDelivers ==
  ASSUME NEW s, Core(s), Bounded(s), Takes(s) \/ Waiting(s) = 0
  PROVE  LET t == Flush(s) IN
         /\ Stutters(s, t) \/ Delivers(s, t)
         /\ Goes(s, t) /\ Bounded(t)
<1> DEFINE t == Flush(s)
<1>1. /\ \/ t = s
         \/ /\ ~Closed(s) /\ Waiting(t) = 0
            /\ t.transport = s.transport /\ t.switching = s.switching
            /\ t.messagesSent = s.messagesSent /\ t.overtook = s.overtook
            /\ IF s.ready = "closing"
                 THEN Closed(t) /\ t.reason = "forced close" ELSE SameEnd(s, t)
            /\ Goes(s, t)
            /\ IF Takes(s)
                 THEN t.out = s.out \o s.buffer /\ t.lost = s.lost
                 ELSE t.out = s.out /\ Dropped(s, t, s.buffer)
  BY FlushStep
<1> HIDE DEF t
<1>2. CASE t = s
  BY <1>2 DEF Stutters, SameEnd, Goes, t
<1>3. CASE t # s
  <2>1. s.messagesSent \in Nat /\ Delivered(s) \in Nat /\ Waiting(s) \in Nat
    BY StepFieldsInState DEF Core
  <2>2. t.lost = s.lost
    BY <1>1, <1>3 DEF Dropped, Waiting
  <2>3. Delivered(t) = Delivered(s) + Waiting(s)
    <3>1. CASE t.out = s.out \o s.buffer
      BY <3>1, StepFieldsInState DEF Core, Delivered, Waiting
    <3>2. CASE t.out = s.out /\ Waiting(s) = 0
      <4>1. Delivered(t) = Delivered(s)
        BY <3>2 DEF Delivered
      <4> QED BY <2>1, <3>2, <4>1
    <3> QED BY <1>1, <1>3, <3>1, <3>2
  <2>4. Waiting(t) = 0 /\ t.messagesSent = s.messagesSent /\ t.overtook = s.overtook
    BY <1>1, <1>3
  <2>5. Bounded(t)
    BY <2>1, <2>3, <2>4 DEF Bounded
  <2>6. DeliversAll(s, t)
    <3>1. ~s.lost => Delivered(t) = t.messagesSent
      BY <2>3, <2>4, InOrderLength
    <3>2. Delivered(t) \in Delivered(s) .. t.messagesSent
      BY <2>1, <2>3, <2>4 DEF Bounded
    <3> QED BY <3>1, <3>2 DEF DeliversAll
  <2>7. Delivers(s, t)
    BY <1>1, <1>3, <2>2, <2>4, <2>6 DEF Delivers, Drains, Closed
  <2> QED BY <1>1, <1>3, <2>5, <2>7 DEF t
<1> QED BY <1>2, <1>3

-----------------------------------------------------------------------------
(* Control packets and the heartbeat *)

\* A flush with no message to send.
LEMMA FlushNothing ==
  ASSUME NEW s, Core(s), Open(s), Writable(s) => Waiting(s) = 0
  PROVE  Falls(s, Flush(s))
<1> DEFINE t == Flush(s)
<1>1. CASE t = s
  BY <1>1, FallsSame
<1>2. CASE t # s
  <2>1. /\ Writable(s) /\ Waiting(t) = 0
        /\ t.transport = s.transport /\ t.switching = s.switching
        /\ t.messagesSent = s.messagesSent /\ t.overtook = s.overtook
        /\ SameEnd(s, t) /\ Goes(s, t)
        /\ IF Takes(s) THEN t.out = s.out \o s.buffer /\ t.lost = s.lost
                       ELSE t.out = s.out /\ Dropped(s, t, s.buffer)
    <3>1. s.ready # "closing"
      BY DEF Open
    <3> QED BY <1>2, <3>1, FlushStep
  <2> HIDE DEF t
  <2>2. s.out \o s.buffer = s.out
    <3>1. s.out \in Seq(Nat) /\ s.buffer \in Seq(Nat) /\ Len(s.buffer) = 0
      BY <2>1, StepFieldsInState DEF Core, Waiting
    <3> QED BY <3>1, ConcatNoElement
  <2>3. t.out = s.out /\ t.lost = s.lost
    BY <2>1, <2>2 DEF Dropped, Waiting
  <2> QED BY <2>1, <2>3 DEF Falls, Stutters, t
<1> QED BY <1>1, <1>2

LEMMA SendControlFalls ==
  ASSUME NEW s, Core(s), Flushed(s), ~s.switching, NEW type \in {"open", "ping", "pong"}
  PROVE  Falls(s, SendControl(s, type))
<1>1. CASE ~Open(s)
  BY <1>1, FallsSame DEF SendControl
<1>2. CASE Open(s)
  <2> DEFINE u == [s EXCEPT !.ctl = @ \cup {type}]
  <2>0. s \in State
    BY DEF Core
  <2>1. u \in State
    BY <2>0, ZenonT(40) DEF State
  <2>2. /\ \A f \in CoreFields \ {"ctl"} : u[f] = s[f]
        /\ \A f \in StepFields : u[f] = s[f]
        /\ u.pollWritable = s.pollWritable
    BY <2>0 DEF State, CoreFields, StepFields
  <2> HIDE DEF u
  <2>3. Core(u) /\ Falls(s, u)
    BY <1>2, <2>1, <2>2, CoreControl, FallsFrame
  <2>4. Open(u) /\ (Writable(u) => Waiting(u) = 0)
    <3>1. /\ u.ready = s.ready /\ u.transport = s.transport
          /\ u.switching = s.switching /\ u.buffer = s.buffer
          /\ u.wsWritable = s.wsWritable
      BY <2>2 DEF StepFields
    <3>2. Writable(u) => Writable(s)
      BY <2>2, <3>1 DEF Writable
    <3>3. Writable(s) => Waiting(s) = 0
      BY <1>2, StepFieldsInState, <2>0 DEF Flushed, Buffered, Open, Closed, Waiting
    <3> QED BY <1>2, <3>1, <3>2, <3>3, SameLength DEF Open
  <2>5. Falls(u, Flush(u))
    BY <2>3, <2>4, FlushNothing
  <2> QED BY <1>2, <2>3, <2>5, FallsTrans DEF SendControl, u
<1> QED BY <1>1, <1>2

\* A control packet on a WebSocket.
LEMMA WsControlFalls ==
  ASSUME NEW s \in State
  PROVE  Falls(s, WsSend(s, <<>>))
<1> DEFINE t == WsSend(s, <<>>)
<1>1. /\ SameBut(s, t, {"sends", "wsWritable", "out", "lost"}) /\ Goes(s, t)
      /\ IF WsReady(s) THEN t.out = s.out \o <<>> /\ t.lost = s.lost
                       ELSE t.out = s.out /\ Dropped(s, t, <<>>)
  BY EmptySequence, WsSendStep
<1> HIDE DEF t
<1>2. s.out \o <<>> = s.out
  BY StepFieldsInState, ConcatEmpty
<1>3. t.out = s.out /\ t.lost = s.lost
  BY <1>1, <1>2, EmptySequence DEF Dropped
<1>4. /\ t.ready = s.ready /\ t.reason = s.reason /\ t.transport = s.transport
      /\ t.switching = s.switching
      /\ t.messagesSent = s.messagesSent /\ t.overtook = s.overtook
      /\ t.buffer = s.buffer
  BY <1>1, SameStep DEF StepFields
<1>5. Falls(s, t)
  BY <1>1, <1>3, <1>4, SameLength DEF Falls, Stutters, SameEnd
<1> QED BY <1>5 DEF t

LEMMA SendRawFalls ==
  ASSUME NEW s, Core(s), Flushed(s), ~s.switching, NEW type \in {"open", "ping", "pong"}
  PROVE  Falls(s, SendRawOrPacket(s, type))
BY SendControlFalls, WsControlFalls DEF SendRawOrPacket, Core

\* Records that differ in the timers of the heartbeat only.
LEMMA TimersFall ==
  ASSUME NEW s, Core(s), Flushed(s), NEW t \in State,
         \A f \in DOMAIN s \ {"interval", "timeout", "strays"} : t[f] = s[f]
  PROVE  Core(t) /\ Flushed(t) /\ Falls(s, t) /\ t.switching = s.switching
<1>1. \A f \in StepFields : t[f] = s[f]
  BY StepFieldsInState DEF Core, StepFields
<1>2. t.switching = s.switching
  BY <1>1 DEF StepFields
<1> QED BY <1>1, <1>2, TimersFrame, FallsFrame

LEMMA SendPingFalls ==
  ASSUME NEW s, Core(s), Flushed(s), ~s.switching
  PROVE  Falls(s, SendPing(s))
<1> DEFINE u == SendRawOrPacket(s, "ping")
           t == [u EXCEPT !.timeout = "armed"]
<1>1. Core(u) /\ Flushed(u) /\ Falls(s, u)
  BY SendRawOrPacketInv, SendRawFalls
<1>2. SendPing(s) = t
  BY DEF SendPing
<1> HIDE DEF u
<1>3. \A f \in StepFields : t[f] = u[f]
  BY <1>1 DEF Core, State, StepFields
<1> QED BY <1>1, <1>2, <1>3, FallsFrame, FallsTrans

LEMMA PingTimersFall ==
  ASSUME NEW s, Inv(s), ~s.switching
  PROVE  /\ Falls(s, PingIntervalFired(s))
         /\ s.strays > 0 => Falls(s, StrayPingFired(s))
         /\ Falls(s, PingTimeoutFired(s))
<1>0. Core(s) /\ Flushed(s) /\ s \in State
  BY DEF Inv, Core
<1>1. Falls(s, PingIntervalFired(s))
  <2> DEFINE t == [s EXCEPT !.interval = "idle"]
  <2>1. t \in State
        /\ \A f \in DOMAIN s \ {"interval", "timeout", "strays"} : t[f] = s[f]
    BY <1>0 DEF State
  <2> HIDE DEF t
  <2> QED BY <1>0, <2>1, TimersFall, SendPingFalls, FallsTrans DEF PingIntervalFired, t
<1>2. ASSUME s.strays > 0 PROVE Falls(s, StrayPingFired(s))
  <2> DEFINE n == s.strays - 1
             t == [s EXCEPT !.strays = n]
  <2>1. n \in Nat
    BY <1>0, <1>2 DEF State
  <2> HIDE DEF n
  <2>2. t \in State
        /\ \A f \in DOMAIN s \ {"interval", "timeout", "strays"} : t[f] = s[f]
    BY <1>0, <2>1 DEF State
  <2> HIDE DEF t
  <2> QED BY <1>0, <2>2, TimersFall, SendPingFalls, FallsTrans DEF StrayPingFired, t, n
<1>3. Falls(s, PingTimeoutFired(s))
  <2> DEFINE t == [s EXCEPT !.timeout = "idle"]
  <2>1. t \in State
        /\ \A f \in DOMAIN s \ {"interval", "timeout", "strays"} : t[f] = s[f]
    BY <1>0 DEF State
  <2> HIDE DEF t
  <2>2. "ping timeout" \in Failures
    BY DEF Failures
  <2> QED BY <1>0, <2>1, <2>2, TimersFall, OnCloseFalls, FallsTrans
          DEF PingTimeoutFired, t
<1> QED BY <1>1, <1>2, <1>3

LEMMA OnPongFalls ==
  ASSUME NEW s, Inv(s)
  PROVE  Falls(s, OnPong(s))
<1> DEFINE u == [s EXCEPT !.timeout = IF @ = "none" THEN @ ELSE "idle"]
<1>1. s \in State
  BY DEF Inv, Core
<1>2. u \in State /\ \A f \in StepFields : u[f] = s[f]
  BY <1>1, ZenonT(40) DEF State, StepFields
<1> HIDE DEF u
<1>3. \A f \in StepFields : SchedulePing(u)[f] = u[f]
  BY <1>2 DEF SchedulePing, State, StepFields
<1>4. OnPong(s) = SchedulePing(u)
  BY DEF OnPong, u
<1> QED BY <1>2, <1>3, <1>4, FallsFrame

LEMMA OnPacketFalls ==
  ASSUME NEW s, Inv(s), ~s.switching, NEW type \in PacketType
  PROVE  Falls(s, OnPacket(s, type))
<1>0. Core(s) /\ Flushed(s)
  BY DEF Inv
<1>1. CASE ~Open(s) \/ type = "message"
  BY <1>1, FallsSame DEF OnPacket
<1>2. CASE Open(s) /\ type = "pong"
  BY <1>2, OnPongFalls DEF OnPacket
<1>3. CASE Open(s) /\ type = "ping"
  BY <1>0, <1>3, SendRawFalls DEF OnPacket
<1>4. CASE Open(s) /\ type = "error"
  <2>1. OnPacket(s, type) = OnClose(s, "parse error") /\ "parse error" \in Failures
    BY <1>4 DEF OnPacket, Failures
  <2> QED BY <1>0, <2>1, OnCloseFalls
<1> QED BY <1>1, <1>2, <1>3, <1>4 DEF PacketType

-----------------------------------------------------------------------------
(* Messages *)

\* A message that is delivered with all that waited.
LEMMA AcceptsAll ==
  ASSUME NEW s, StepInv(s), Open(s), NEW t, SameEnd(s, t),
         t.transport = s.transport, t.switching = s.switching, t.lost = s.lost,
         t.messagesSent = s.messagesSent + 1, t.overtook = s.overtook,
         Delivered(t) = Delivered(s) + Waiting(s) + 1
  PROVE  Accepts(s, t) /\ Delivered(t) <= t.messagesSent
<1>1. Core(s) /\ s \in State /\ Bounded(s)
  BY DEF StepInv, Inv, Core
<1>2. Delivered(s) \in Nat /\ Waiting(s) \in Nat /\ s.messagesSent \in Nat
  BY <1>1, StepFieldsInState
<1>3. Delivered(s) + Waiting(s) <= s.messagesSent
  BY <1>1, <1>2 DEF Bounded
<1>4. ~s.lost => Delivered(s) + Waiting(s) = s.messagesSent
  BY <1>1, <1>2, InOrderLength
<1>5. DeliversAll(s, t)
  BY <1>2, <1>3, <1>4 DEF DeliversAll
<1> QED BY <1>2, <1>3, <1>5 DEF Accepts

\* One more element, one more length.
LEMMA OneMore ==
  ASSUME NEW q \in Seq(Nat), NEW x \in Nat
  PROVE  Len(Append(q, x)) = Len(q) + 1 /\ Len(q \o <<x>>) = Len(q) + 1
OBVIOUS

\* sendPacket("message").
LEMMA SendMessageGood ==
  ASSUME NEW s, StepInv(s)
  PROVE  Good(s, SendMessage(s))
<1>1. CASE ~Open(s)
  BY <1>1, FallsSame, FallsGood DEF SendMessage
<1>2. CASE Open(s)
  <2> DEFINE b == Append(s.buffer, s.messagesSent + 1)
             u == [s EXCEPT !.messagesSent = @ + 1, !.buffer = b]
             t == Flush(u)
  <2>1. /\ Inv(s) /\ Core(s) /\ Flushed(s) /\ Probed(s) /\ Bounded(s) /\ s \in State
    BY DEF StepInv, Inv, Core
  <2>2. /\ s.buffer \in Seq(Nat) /\ s.out \in Seq(Nat) /\ s.messagesSent \in Nat
        /\ Delivered(s) \in Nat /\ Waiting(s) \in Nat
    BY <2>1, StepFieldsInState
  <2>3. /\ Core(u) /\ u.buffer = b /\ u.messagesSent = s.messagesSent + 1
        /\ SameBut(s, u, {"buffer", "messagesSent"})
    BY <1>2, <2>1, BufferedMessage
  <2>4. SendMessage(s) = t
    BY <1>2 DEF SendMessage
  <2> HIDE DEF u
  <2>5. /\ u.ready = s.ready /\ u.reason = s.reason /\ u.transport = s.transport
        /\ u.switching = s.switching
        /\ u.out = s.out /\ u.lost = s.lost /\ u.conn = s.conn
        /\ u.wsWritable = s.wsWritable /\ u.probing = s.probing
        /\ u.upgradeTimer = s.upgradeTimer /\ u.overtook = s.overtook
    BY <2>1, <2>3, SameStep DEF StepFields
  <2>6. u.pollWritable = s.pollWritable
    BY <2>1, <2>3 DEF SameBut, State
  <2>7. Waiting(u) = Waiting(s) + 1 /\ Delivered(u) = Delivered(s)
    BY <2>2, <2>3, <2>5, OneMore DEF Waiting, Delivered
  <2>8. Bounded(u)
    BY <2>1, <2>2, <2>3, <2>7 DEF Bounded
  <2>9. Goes(s, u)
    BY <2>5 DEF Goes, Closed
  <2>10. CASE t = u
    <3>1. Accepts(s, u)
      BY <1>2, <2>3, <2>5 DEF Accepts, SameEnd
    <3> QED BY <2>1, <2>4, <2>8, <2>9, <2>10, <3>1, GoesProbed DEF Good, Steps
  <2>11. CASE t # u
    <3>1. /\ Writable(u) /\ Waiting(t) = 0
          /\ t.transport = u.transport /\ t.switching = u.switching
          /\ t.messagesSent = u.messagesSent /\ t.overtook = u.overtook
          /\ SameEnd(u, t) /\ Goes(u, t)
          /\ IF Takes(u) THEN t.out = u.out \o u.buffer /\ t.lost = u.lost
                         ELSE t.out = u.out /\ Dropped(u, t, u.buffer)
      <4>1. u.ready # "closing"
        BY <1>2, <2>5 DEF Open
      <4> QED BY <2>3, <2>11, <4>1, FlushStep
    <3> HIDE DEF t
    <3>2. ~Closed(s)
      BY <1>2 DEF Open, Closed
    <3>3. Goes(s, t) /\ SameEnd(s, t) /\ t.transport = s.transport
          /\ t.switching = s.switching
          /\ t.messagesSent = s.messagesSent + 1 /\ t.overtook = s.overtook
          /\ t.switching = s.switching
      BY <2>3, <2>5, <3>1 DEF Goes, SameEnd, Closed
    <3>4. Probed(t)
      BY <2>1, <3>3, GoesProbed
    <3>5. CASE Takes(u)
      <4>1. t.lost = s.lost
        BY <2>5, <3>1, <3>5
      <4>2. Delivered(t) = Delivered(s) + Waiting(s) + 1
        <5>1. t.out = s.out \o b
          BY <2>3, <2>5, <3>1, <3>5
        <5>2. b \in Seq(Nat) /\ Len(b) = Waiting(s) + 1
          BY <2>2, OneMore DEF Waiting
        <5> HIDE DEF b
        <5>3. Len(s.out \o b) = Len(s.out) + Len(b)
          BY <2>2, <5>2, ConcatPlaces
        <5>4. Delivered(t) = Len(s.out \o b) /\ Delivered(s) = Len(s.out)
          BY <5>1 DEF Delivered
        <5>5. Delivered(t) = Delivered(s) + (Waiting(s) + 1)
          BY <5>2, <5>3, <5>4, Zenon
        <5>6. Delivered(s) \in Nat /\ Waiting(s) \in Nat
          BY <2>2 DEF Delivered, Waiting
        <5> QED BY <5>5, <5>6
      <4>3. Accepts(s, t) /\ Delivered(t) <= t.messagesSent
        BY <1>2, <3>3, <4>1, <4>2, AcceptsAll
      <4>4. Bounded(t)
        BY <2>2, <3>1, <4>2, <4>3 DEF Bounded
      <4> QED BY <2>4, <3>4, <4>3, <4>4 DEF Good, Steps
    <3>6. CASE ~Takes(u)
      <4>1. t.out = s.out /\ t.lost = TRUE
        BY <2>2, <2>5, <2>7, <3>1, <3>2, <3>6 DEF Dropped, Waiting
      <4>2. s.transport = "websocket" /\ ~WsReady(s)
        BY <2>1, <2>5, <3>6, StepFieldsInState DEF Takes, WsReady
      <4>3. Loses(s, t)
        BY <3>2, <3>3, <4>1, <4>2 DEF Loses
      <4>4. Bounded(t)
        <5>1. Delivered(t) = Delivered(s)
          BY <4>1, SameLength
        <5> QED BY <2>1, <2>2, <3>1, <3>2, <3>3, <5>1 DEF Bounded
      <4> QED BY <2>4, <3>4, <4>3, <4>4 DEF Good, Steps
    <3> QED BY <3>5, <3>6
  <2> QED BY <2>10, <2>11
<1> QED BY <1>1, <1>2

\* A message written straight to the WebSocket.
LEMMA WsMessageGood ==
  ASSUME NEW s, StepInv(s), s.transport = "websocket", ~Closed(s),
         NEW u \in State, SameBut(s, u, {"messagesSent", "overtook"}),
         u.messagesSent = s.messagesSent + 1,
         Len(s.buffer) = 0 => u.overtook = s.overtook
  PROVE  Good(s, WsSend(u, <<s.messagesSent + 1>>))
<1> DEFINE n == s.messagesSent + 1
           m == <<n>>
           t == WsSend(u, m)
<1>1. /\ Inv(s) /\ Core(s) /\ Flushed(s) /\ Probed(s) /\ Bounded(s) /\ s \in State
  BY DEF StepInv, Inv, Core
<1>2. /\ s.buffer \in Seq(Nat) /\ s.out \in Seq(Nat) /\ s.messagesSent \in Nat
      /\ Delivered(s) \in Nat /\ Waiting(s) \in Nat
  BY <1>1, StepFieldsInState
<1>3. n \in Nat /\ m \in Seq(Nat) /\ Len(m) = 1
  BY <1>2
<1>5. Len(s.out \o m) = Len(s.out) + 1
  BY <1>2, <1>3, OneMore
<1> HIDE DEF m
<1>6. \A f \in StepFields \ {"messagesSent", "overtook"} : u[f] = s[f]
  BY <1>1, SameStep
<1>7. /\ t \in State
      /\ SameBut(u, t, {"sends", "wsWritable", "out", "lost"}) /\ Goes(u, t)
      /\ IF WsReady(u) THEN t.out = u.out \o m /\ t.lost = u.lost
                       ELSE t.out = u.out /\ Dropped(u, t, m)
  BY <1>3, WsSendStep
<1> HIDE DEF t
<1>8. /\ t.ready = s.ready /\ t.reason = s.reason /\ t.transport = s.transport
      /\ t.messagesSent = n /\ t.buffer = s.buffer /\ t.switching = s.switching
      /\ t.overtook = u.overtook
  <2>1. /\ t.ready = u.ready /\ t.reason = u.reason /\ t.transport = u.transport
        /\ t.messagesSent = u.messagesSent /\ t.buffer = u.buffer
        /\ t.switching = u.switching /\ t.overtook = u.overtook
    BY <1>7, SameStep DEF StepFields
  <2> QED BY <1>6, <2>1 DEF StepFields
<1>9. /\ u.out = s.out /\ u.lost = s.lost /\ (WsReady(u) <=> WsReady(s))
      /\ Goes(s, u)
  BY <1>6 DEF StepFields, WsReady, Goes, Closed
<1>10. Probed(t)
  <2>1. Goes(s, t)
    BY <1>7, <1>9 DEF Goes
  <2> QED BY <1>1, <2>1, GoesProbed
<1>11. Waiting(t) = Waiting(s) /\ SameEnd(s, t)
  BY <1>8, SameLength DEF SameEnd
<1>12. CASE WsReady(s)
  <2>1. Delivered(t) = Delivered(s) + 1 /\ t.lost = s.lost
    BY <1>5, <1>7, <1>9, <1>12 DEF Delivered
  <2>2. Bounded(t)
    BY <1>1, <1>2, <1>8, <1>11, <2>1 DEF Bounded
  <2>3. CASE s.switching
    <3>1. Overtakes(s, t)
      BY <1>8, <1>11, <2>1, <2>3 DEF Overtakes
    <3> QED BY <1>10, <2>2, <3>1 DEF Good, Steps, t, m
  <2>4. CASE ~s.switching
    <3>1. ~Buffered(s)
      BY <1>1, <1>12, <2>4 DEF Flushed, Writable, WsReady
    <3>2. Open(s)
      BY <1>1, <3>1 DEF Core, State, Open, Closed
    <3>3. Waiting(s) = 0 /\ Len(s.buffer) = 0
      BY <1>2, <3>1 DEF Buffered, Waiting
    <3>4. Delivered(t) = Delivered(s) + Waiting(s) + 1
      BY <1>2, <2>1, <3>3
    <3>5. Accepts(s, t)
      BY <1>8, <1>11, <2>1, <3>2, <3>3, <3>4, AcceptsAll
    <3> QED BY <1>10, <2>2, <3>5 DEF Good, Steps, t, m
  <2> QED BY <2>3, <2>4
<1>13. CASE ~WsReady(s)
  <2>1. t.out = s.out /\ t.lost = TRUE
    BY <1>3, <1>7, <1>9, <1>13 DEF Dropped
  <2>2. Loses(s, t)
    BY <1>8, <1>11, <1>13, <2>1 DEF Loses, n
  <2>3. Bounded(t)
    <3>1. Delivered(t) = Delivered(s)
      BY <2>1, SameLength
    <3> QED BY <1>1, <1>2, <1>8, <1>11, <3>1 DEF Bounded, n
  <2> QED BY <1>10, <2>2, <2>3 DEF Good, Steps, t, m
<1> QED BY <1>12, <1>13

\* What Server.broadcast does to a session over a WebSocket.
LEMMA BroadcastGood ==
  ASSUME NEW s, StepInv(s), ~Closed(s), s.transport = "websocket"
  PROVE  Good(s, Broadcast(s))
<1> DEFINE n == s.messagesSent + 1
           R == IF Len(s.buffer) > 0 THEN s.overtook \cup {n} ELSE s.overtook
           v == [s EXCEPT !.messagesSent = @ + 1, !.overtook = R]
<1>1. s \in State
  BY DEF StepInv, Inv, Core
<1>2. /\ v \in State /\ SameBut(s, v, {"messagesSent", "overtook"})
      /\ v.messagesSent = n /\ v.overtook = R
  BY <1>1, Counted
<1>3. Len(s.buffer) = 0 => R = s.overtook
  OBVIOUS
<1>4. Broadcast(s) = WsSend(v, <<n>>)
  BY DEF Broadcast
<1> HIDE DEF v, R
<1> QED BY <1>2, <1>3, <1>4, WsMessageGood

\* Socket.write, and what Server.broadcast does to one session.
LEMMA WriteGood ==
  ASSUME NEW s, StepInv(s)
  PROVE  Good(s, Write(s)) /\ (~Closed(s) => Good(s, Broadcast(s)))
<1> DEFINE fast == Open(s) /\ s.transport = "websocket" /\ ~s.createListener
                     /\ WsReady(s) /\ ~Buffered(s)
           u == [s EXCEPT !.messagesSent = @ + 1]
<1>1. Good(s, Write(s))
  <2>1. CASE fast
    <3>1. s \in State /\ ~Closed(s)
      BY <2>1 DEF StepInv, Inv, Core, Open, Closed
    <3>2. /\ u \in State /\ SameBut(s, u, {"messagesSent", "overtook"})
          /\ u.messagesSent = s.messagesSent + 1 /\ u.overtook = s.overtook
      BY <3>1, Counted
    <3>3. Write(s) = WsSend(u, <<s.messagesSent + 1>>)
      BY <2>1 DEF Write
    <3> HIDE DEF u
    <3> QED BY <2>1, <3>1, <3>2, <3>3, WsMessageGood
  <2>2. CASE ~fast
    <3>1. Write(s) = SendMessage(s)
      BY <2>2 DEF Write
    <3> QED BY <3>1, SendMessageGood
  <2> QED BY <2>1, <2>2
<1>2. ASSUME ~Closed(s) PROVE Good(s, Broadcast(s))
  BY <1>1, <1>2, BroadcastGood DEF Broadcast
<1> QED BY <1>1, <1>2

\* Socket.close.
LEMMA CloseGood ==
  ASSUME NEW s, StepInv(s)
  PROVE  Good(s, Close(s))
<1>0. /\ Inv(s) /\ Core(s) /\ Probed(s) /\ Bounded(s) /\ s \in State
  BY DEF StepInv, Inv, Core
<1>1. CASE ~Open(s)
  BY <1>1, FallsSame, FallsGood DEF Close
<1>2. CASE Open(s) /\ Buffered(s)
  <2> DEFINE t == [s EXCEPT !.ready = "closing", !.closeOnDrain = TRUE]
  <2>1. t.ready = "closing" /\ \A f \in StepFields \ {"ready"} : t[f] = s[f]
    BY <1>0 DEF State, StepFields
  <2>2. Close(s) = t
    BY <1>2 DEF Close
  <2> HIDE DEF t
  <2>3. Closes(s, t) /\ Goes(s, t)
    BY <1>2, <2>1 DEF StepFields, Closes, Goes, Open, Closed
  <2>4. Bounded(t)
    <3>1. t.out = s.out /\ t.buffer = s.buffer /\ t.messagesSent = s.messagesSent
          /\ t.overtook = s.overtook
      BY <2>1 DEF StepFields
    <3> QED BY <1>0, <3>1, SameLength DEF Bounded
  <2> QED BY <1>0, <2>2, <2>3, <2>4, GoesProbed DEF Good, Steps
<1>3. CASE Open(s) /\ ~Buffered(s)
  <2> DEFINE u == [s EXCEPT !.ready = "closing"]
             t == ForcedClose(u)
  <2>1. Close(s) = t
    BY <1>3 DEF Close
  <2>2. /\ u \in State /\ u.ready = "closing"
        /\ \A f \in (StepFields \ {"ready"}) \cup {"poll", "pollWritable"} : u[f] = s[f]
    BY <1>0 DEF State, StepFields
  <2> HIDE DEF u
  <2>3. /\ u.transport = s.transport /\ u.switching = s.switching
        /\ u.messagesSent = s.messagesSent /\ u.overtook = s.overtook
        /\ u.out = s.out /\ u.lost = s.lost /\ u.buffer = s.buffer
        /\ u.poll = s.poll /\ u.pollWritable = s.pollWritable
        /\ ~Closed(u) /\ Goes(s, u)
    BY <1>3, <2>2 DEF StepFields, Goes, Closed, Open
  <2>4. /\ Closed(t) /\ t.reason = "forced close"
        /\ t.transport = u.transport /\ t.switching = u.switching
        /\ t.messagesSent = u.messagesSent /\ t.overtook = u.overtook
        /\ t.out = u.out /\ t.lost = u.lost /\ t.buffer = u.buffer
        /\ Goes(u, t)
    BY <1>0, <2>2, <2>3, PollOfCore, ForcedCloseStep
  <2> HIDE DEF t
  <2>5. Delivered(t) = Delivered(s) /\ Waiting(t) = Waiting(s)
    BY <2>3, <2>4, SameLength
  <2>6. Waiting(s) = 0 /\ Delivered(s) \in Nat /\ s.messagesSent \in Nat
    BY <1>0, <1>3, StepFieldsInState DEF Buffered, Waiting
  <2>7. DeliversAll(s, t)
    <3>1. ~s.lost => Delivered(s) = s.messagesSent
      BY <1>0, <2>6, InOrderLength
    <3>2. Delivered(t) = Delivered(s) /\ t.messagesSent = s.messagesSent
          /\ t.overtook = s.overtook
      BY <2>3, <2>4, <2>5
    <3>3. Delivered(s) <= s.messagesSent
      BY <1>0, <2>6 DEF Bounded
    <3> QED BY <2>6, <3>1, <3>2, <3>3 DEF DeliversAll
  <2>8. Closes(s, t) /\ Bounded(t)
    BY <1>0, <1>3, <2>3, <2>4, <2>5, <2>7 DEF Closes, Closed, Bounded
  <2>9. Probed(t)
    <3>1. Goes(s, t)
      BY <1>3, <2>3, <2>4 DEF Goes, Open, Closed
    <3> QED BY <1>0, <3>1, GoesProbed
  <2> QED BY <2>1, <2>8, <2>9 DEF Good, Steps
<1> QED BY <1>1, <1>2, <1>3

-----------------------------------------------------------------------------
(* Composition *)

\* A record that differs in other fields only.
LEMMA FrameFalls ==
  ASSUME NEW s \in State, NEW t, NEW F, SameBut(s, t, F), F \cap StepFields = {}
  PROVE  Falls(s, t)
<1>1. \A f \in StepFields : t[f] = s[f]
  BY SameStep
<1> QED BY <1>1, FallsFrame

\* A delivery by a record that differs from s in other fields only, or in the
\* pause that its WebSocket leaves.
LEMMA FrameDelivers ==
  ASSUME NEW s \in State, NEW u, NEW F, SameBut(s, u, F),
         F \cap StepFields \subseteq {"wsWritable"},
         Backpressure \/ F \cap StepFields = {},
         Core(u), Bounded(s), Takes(u) \/ Waiting(u) = 0
  PROVE  LET t == Flush(u) IN
         (Stutters(s, t) \/ Delivers(s, t)) /\ Goes(s, t) /\ Bounded(t)
<1> DEFINE t == Flush(u)
<1>1. /\ u.ready = s.ready /\ u.reason = s.reason /\ u.transport = s.transport
      /\ u.switching = s.switching
      /\ u.messagesSent = s.messagesSent /\ u.overtook = s.overtook /\ u.out = s.out
      /\ u.lost = s.lost
      /\ u.buffer = s.buffer /\ u.conn = s.conn /\ u.probing = s.probing
      /\ u.upgradeTimer = s.upgradeTimer
      /\ Backpressure \/ u.wsWritable = s.wsWritable
  BY SameStep DEF StepFields
<1>2. Delivered(u) = Delivered(s) /\ Waiting(u) = Waiting(s)
  BY <1>1, SameLength
<1>3. Bounded(u)
  BY <1>1, <1>2 DEF Bounded
<1>4. (Stutters(u, t) \/ Delivers(u, t)) /\ Goes(u, t) /\ Bounded(t)
  BY <1>3, FlushDelivers
<1> HIDE DEF t
<1>5. Goes(s, t)
  BY <1>1, <1>4 DEF Goes, Closed
<1>6. DeliversAll(u, t) => DeliversAll(s, t)
  BY <1>1, <1>2 DEF DeliversAll
<1>7. Stutters(s, t) \/ Delivers(s, t)
  BY <1>1, <1>4, <1>6 DEF Stutters, Delivers, Drains, SameEnd, Closed
<1> QED BY <1>4, <1>5, <1>7 DEF t

\* A delivery and what follows it in the same event.
LEMMA DeliversThenFalls ==
  ASSUME NEW s, StepInv(s), NEW u, Stutters(s, u) \/ Delivers(s, u), Goes(s, u),
         Bounded(u), NEW t, Falls(u, t)
  PROVE  Good(s, t)
<1>1. Goes(s, t)
  BY DEF Falls, Goes
<1>2. Probed(t)
  BY <1>1, GoesProbed DEF StepInv
<1>3. /\ Waiting(t) = Waiting(u) /\ Delivered(t) = Delivered(u)
      /\ t.messagesSent = u.messagesSent /\ t.overtook = u.overtook
  BY SameLength DEF Falls, Stutters, Fails
<1>4. Bounded(t)
  BY <1>3 DEF Bounded
<1>5. DeliversAll(s, u) => DeliversAll(s, t)
  BY <1>3 DEF DeliversAll
<1>6. ASSUME Stutters(s, u) PROVE Steps(s, t)
  BY <1>6 DEF Falls, Stutters, Fails, Steps, SameEnd, Closed, DeliversAll
<1>7. ASSUME Delivers(s, u), Stutters(u, t) PROVE Steps(s, t)
  BY <1>5, <1>7 DEF Delivers, Drains, Stutters, Steps, SameEnd
<1>8. ASSUME Delivers(s, u), Fails(u, t) PROVE Steps(s, t)
  BY <1>5, <1>8 DEF Delivers, Drains, Fails, Steps, SameEnd, Closed
<1>9. Steps(s, t)
  BY <1>6, <1>7, <1>8 DEF Falls
<1> QED BY <1>2, <1>4, <1>9 DEF Good

-----------------------------------------------------------------------------
(* Polling *)

\* The poll is answered with no message.
LEMMA AnsweredFalls ==
  ASSUME NEW s, Inv(s)
  PROVE  Falls(s, PollingDoClose(s)) /\ Falls(s, SendNoop(s))
<1>1. s \in State /\ (s.poll <=> s.pollWritable)
  BY DEF Inv, Core, PollConsistent
<1>2. {"poll", "pollWritable", "late"} \cap StepFields = {}
  BY DEF StepFields
<1>3. SameBut(s, PollingDoClose(s), {"poll", "pollWritable", "late"})
  BY <1>1, PollingDoCloseEffect
<1>4. SameBut(s, SendNoop(s), {"poll", "pollWritable", "late"})
  BY AnsweredInv
<1> QED BY <1>1, <1>2, <1>3, <1>4, FrameFalls

LEMMA PollingErrorFalls ==
  ASSUME NEW s, Inv(s)
  PROVE  Falls(s, PollingError(s))
<1>1. "transport error" \in Failures
  BY DEF Failures
<1> QED BY <1>1, OnCloseFalls, FallsSame DEF PollingError, Inv

\* A poll takes what waits.
LEMMA PollRequestSteps ==
  ASSUME NEW s, StepInv(s), PollingBound(s), ~s.poll
  PROVE  LET t == OnPollRequest(s) IN
         (Stutters(s, t) \/ Delivers(s, t)) /\ Goes(s, t) /\ Bounded(t)
<1> DEFINE u == [s EXCEPT !.poll = TRUE, !.pollWritable = TRUE]
           F == {"poll", "pollWritable"}
<1>1. Core(u) /\ SameBut(s, u, F)
  BY PollRequested DEF StepInv
<1>2. OnPollRequest(s) = Flush(u)
  BY DEF OnPollRequest
<1>3. F \cap StepFields = {}
  BY DEF StepFields
<1>4. s \in State /\ Bounded(s)
  BY DEF StepInv, Inv, Core
<1> HIDE DEF u
<1>5. u.transport = s.transport /\ u.switching = s.switching
  BY <1>1, <1>4, SameStep DEF StepFields
<1>6. Takes(u)
  BY <1>5 DEF Takes, PollingBound
<1> QED BY <1>1, <1>2, <1>3, <1>4, <1>6, FrameDelivers

LEMMA OnPollRequestGood ==
  ASSUME NEW s, StepInv(s), PollingBound(s)
  PROVE  Good(s, OnPollRequest(s))
<1>1. CASE s.poll
  BY <1>1, PollingErrorFalls, FallsGood DEF OnPollRequest, StepInv
<1>2. CASE ~s.poll
  BY <1>2, PollRequestSteps, FallsSame, DeliversThenFalls
<1> QED BY <1>1, <1>2

LEMMA PollGoneFalls ==
  ASSUME NEW s, Inv(s)
  PROVE  /\ Falls(s, PollTimeoutFired(s)) /\ Falls(s, PollAborted(s))
         /\ s.late => Falls(s, LatePollAborted(s))
<1> DEFINE p == [s EXCEPT !.poll = FALSE, !.pollWritable = FALSE]
           q == [s EXCEPT !.late = FALSE, !.poll = FALSE,
                          !.pollWritable = FALSE, !.hung = TRUE]
           r == [s EXCEPT !.late = FALSE]
           F == {"poll", "pollWritable", "late", "hung"}
<1>1. /\ Inv(p) /\ SameBut(s, p, F)
      /\ s.late => Inv(q) /\ SameBut(s, q, F)
      /\ ~s.poll => SameBut(s, r, F)
  BY PollForgotten
<1>2. s \in State /\ F \cap StepFields = {}
  BY DEF Inv, Core, StepFields
<1> HIDE DEF F
<1>3. Falls(s, PollingError(p)) /\ (s.late => Falls(s, PollingError(q)))
  <2> HIDE DEF p, q, r
  <2>1. \A t : Inv(t) /\ SameBut(s, t, F) => Falls(s, PollingError(t))
    BY <1>2, FrameFalls, PollingErrorFalls, FallsTrans
  <2> QED BY <1>1, <2>1
<1>4. ~s.poll => Falls(s, r)
  BY <1>1, <1>2, FrameFalls
<1> QED BY <1>3, <1>4 DEF PollTimeoutFired, PollAborted, LatePollAborted

LEMMA PollingPacketFalls ==
  ASSUME NEW s, Inv(s), NEW type \in PacketType \cup {"close"}
  PROVE  Falls(s, PollingPacket(s, type))
<1>1. CASE ~PollingBound(s)
  BY <1>1, FallsSame DEF PollingPacket
<1>2. CASE PollingBound(s) /\ type = "close"
  <2>1. "transport close" \in Failures
    BY DEF Failures
  <2>2. Inv(PollingDoClose(s)) /\ Falls(s, PollingDoClose(s))
    BY AnsweredInv, AnsweredFalls
  <2> QED BY <1>2, <2>1, <2>2, OnCloseFalls, FallsTrans DEF PollingPacket, Inv
<1>3. CASE PollingBound(s) /\ type # "close"
  BY <1>3, OnPacketFalls, PollingSettled DEF PollingPacket, PollingBound
<1> QED BY <1>1, <1>2, <1>3

\* The fields of bystanders.
LEMMA BystanderFalls ==
  ASSUME NEW s, Inv(s), NEW b \in BOOLEAN
  PROVE  /\ Falls(s, [s EXCEPT !.createListener = b])
         /\ Falls(s, [s EXCEPT !.posting = b])
         /\ Falls(s, [s EXCEPT !.full = b])
<1>1. s \in State
  BY DEF Inv, Core
<1>2. /\ \A f \in StepFields : [s EXCEPT !.createListener = b][f] = s[f]
      /\ \A f \in StepFields : [s EXCEPT !.posting = b][f] = s[f]
      /\ \A f \in StepFields : [s EXCEPT !.full = b][f] = s[f]
  BY <1>1 DEF StepFields, State
<1> QED BY <1>2, FallsFrame

LEMMA PostFailedFalls ==
  ASSUME NEW s, Inv(s)
  PROVE  Falls(s, PostFailed(s))
<1> DEFINE t == [s EXCEPT !.posting = FALSE]
<1>1. Inv(t) /\ Falls(s, t)
  BY BystanderInv, BystanderFalls
<1> QED BY <1>1, PollingErrorFalls, FallsTrans DEF PostFailed

-----------------------------------------------------------------------------
(* The WebSocket *)

\* Only the probe or the connection changes.
LEMMA ProbeGood ==
  ASSUME NEW s, StepInv(s), NEW t, NEW F, SameBut(s, t, F),
         F \cap StepFields \subseteq {"conn", "wsWritable", "probing", "upgradeTimer"},
         Probed(t)
  PROVE  Good(s, t) /\ Stutters(s, t)
<1>1. s \in State /\ Bounded(s)
  BY DEF StepInv, Inv, Core
<1>2. /\ t.ready = s.ready /\ t.reason = s.reason /\ t.transport = s.transport
      /\ t.switching = s.switching
      /\ t.messagesSent = s.messagesSent /\ t.overtook = s.overtook /\ t.out = s.out
      /\ t.lost = s.lost
      /\ t.buffer = s.buffer
  BY <1>1, SameStep DEF StepFields
<1>3. Stutters(s, t)
  BY <1>2 DEF Stutters, SameEnd
<1>4. Bounded(t)
  BY <1>1, <1>2, SameLength DEF Bounded
<1> QED BY <1>3, <1>4 DEF Good, Steps

\* The WebSocket of a probe arrives.
LEMMA MaybeUpgradeGood ==
  ASSUME NEW s, StepInv(s), ~s.switching
  PROVE  Good(s, MaybeUpgrade(s))
<1>1. CASE s.upgrade # "not_upgraded"
  BY <1>1, FallsSame, FallsGood DEF MaybeUpgrade
<1>2. CASE s.upgrade = "not_upgraded"
  <2> DEFINE t == [s EXCEPT !.upgrade = "upgrading", !.conn = "open",
                            !.wsWritable = TRUE, !.sends = 0, !.probing = TRUE,
                            !.upgradeTimer = TRUE]
             F == {"upgrade", "conn", "wsWritable", "sends", "probing", "upgradeTimer"}
  <2>1. s \in State
    BY DEF StepInv, Inv, Core
  <2>2. MaybeUpgrade(s) = t
    BY <1>2 DEF MaybeUpgrade
  <2>3. SameBut(s, t, F) /\ t.conn = "open" /\ t.wsWritable /\ t.probing
        /\ t.upgradeTimer
    BY <2>1 DEF SameBut, State
  <2> HIDE DEF t
  <2>4. Probed(t)
    BY <2>3 DEF Probed
  <2>5. F \cap StepFields \subseteq {"conn", "wsWritable", "probing", "upgradeTimer"}
    BY DEF StepFields
  <2> QED BY <2>2, <2>3, <2>4, <2>5, ProbeGood
<1> QED BY <1>1, <1>2

\* The connection of a probe is closed, whether its timer is given up or not.
LEMMA ProbeShutGood ==
  ASSUME NEW s, StepInv(s), NEW b \in BOOLEAN
  PROVE  s.probing => Good(s, WsClose(IF b THEN [s EXCEPT !.upgradeTimer = FALSE] ELSE s))
<1> DEFINE u == IF b THEN [s EXCEPT !.upgradeTimer = FALSE] ELSE s
           t == WsClose(u)
<1>0. s \in State
  BY DEF StepInv, Inv, Core
<1>1. u \in State /\ SameBut(s, u, {"upgradeTimer"})
  <2>1. [s EXCEPT !.upgradeTimer = FALSE] \in State
    BY <1>0 DEF State
  <2>2. SameBut(s, [s EXCEPT !.upgradeTimer = FALSE], {"upgradeTimer"})
    BY <1>0 DEF State, SameBut
  <2> QED BY <1>0, <2>1, <2>2 DEF SameBut
<1> HIDE DEF u
<1>2. SameBut(u, t, {"conn"})
  BY <1>1, WsCloseEffect
<1>3. u.switching = s.switching /\ u.probing = s.probing
      /\ u.wsWritable = s.wsWritable /\ u.conn = s.conn
  BY <1>0, <1>1, SameStep DEF StepFields
<1>4. t.switching = u.switching /\ t.probing = u.probing /\ t.wsWritable = u.wsWritable
  BY <1>1, <1>2, SameStep DEF StepFields
<1>5. u.conn \in {"open", "shut"} => t.conn = "shut"
  BY <1>1 DEF WsClose, State
<1>6. SameBut(s, t, {"conn", "upgradeTimer"})
  BY <1>0, <1>1, <1>2 DEF SameBut, State
<1> HIDE DEF t
<1>7. ASSUME s.probing PROVE Good(s, t)
  <2>1. Probed(t)
    BY <1>3, <1>4, <1>5, <1>7, PollingSettled DEF StepInv, Probed
  <2> QED BY <1>6, <2>1, ProbeGood DEF StepFields
<1> QED BY <1>7 DEF t, u

\* The upgrade timer closes a probe that is not paused.
LEMMA UpgradeTimeoutGood ==
  ASSUME NEW s, StepInv(s), s.upgradeTimer
  PROVE  Good(s, UpgradeTimeoutFired(s))
<1>0. s \in State
  BY DEF StepInv, Inv, Core
<1>1. Probed(s) /\ s.probing /\ ~s.switching
  BY DEF StepInv, Inv, Core, ProbeTimersOwned
<1>2. CASE s.wsWritable
  BY <1>1, <1>2, ProbeShutGood DEF UpgradeTimeoutFired
<1>3. CASE ~s.wsWritable
  <2> DEFINE t == [s EXCEPT !.upgradeTimer = FALSE]
  <2>1. SameBut(s, t, {"upgradeTimer"})
    BY <1>0 DEF SameBut, State
  <2>2. UpgradeTimeoutFired(s) = t
    BY <1>3 DEF UpgradeTimeoutFired
  <2> HIDE DEF t
  <2>3. t.switching = s.switching /\ t.probing = s.probing
        /\ t.wsWritable = s.wsWritable /\ t.conn = s.conn
    BY <1>0, <2>1, SameStep DEF StepFields
  <2>4. Probed(t)
    BY <1>1, <1>3, <2>3 DEF Probed
  <2> QED BY <2>1, <2>2, <2>4, ProbeGood DEF StepFields
<1> QED BY <1>2, <1>3

\* The probe ping is answered, and the pending poll with it.
LEMMA ProbePingFalls ==
  ASSUME NEW s, Inv(s)
  PROVE  Falls(s, ProbePing(s))
<1> DEFINE u == WsSend(s, <<>>)
           v == SendNoop(u)
           t == [v EXCEPT !.fastTimer = TRUE, !.fastLeaked = v.fastLeaked \/ v.fastTimer]
<1>1. Inv(u) /\ Falls(s, u)
  BY WsControlInv, WsControlFalls DEF Inv, Core
<1>2. ProbePing(s) = t
  BY DEF ProbePing
<1> HIDE DEF u
<1>3. Inv(v) /\ Falls(u, v)
  BY <1>1, AnsweredInv, AnsweredFalls
<1> HIDE DEF v
<1>4. \A f \in StepFields : t[f] = v[f]
  BY <1>3 DEF Inv, Core, State, StepFields
<1> HIDE DEF t
<1> QED BY <1>1, <1>2, <1>3, <1>4, FallsFrame, FallsTrans

\* The session moves to its probe.
LEMMA AdoptGood ==
  ASSUME NEW s, StepInv(s), ~Closed(s), s.probing, s.conn = "open"
  PROVE  Good(s, Adopt(s))
<1> DEFINE v == Adopt(s)
<1>0. s \in State /\ Bounded(s) /\ s.transport = "polling"
  BY DEF StepInv, Inv, Core, ProbeTimersOwned
<1>1. /\ SameBut(s, v, AdoptFields)
      /\ ~v.probing /\ v.transport = "websocket" /\ v.switching
  BY AdoptCore DEF StepInv, Adopt
<1> HIDE DEF v
<1>2. /\ v.ready = s.ready /\ v.reason = s.reason /\ v.buffer = s.buffer
      /\ v.messagesSent = s.messagesSent /\ v.out = s.out /\ v.lost = s.lost
      /\ v.conn = s.conn /\ v.overtook = s.overtook
  BY <1>0, <1>1, SameStep DEF StepFields, AdoptFields
<1>3. Bounded(v)
  BY <1>0, <1>2, SameLength DEF Bounded
<1>4. Probed(v)
  BY <1>1, <1>2 DEF Probed, WsBound, Closed
<1>5. Switches(s, v)
  BY <1>0, <1>1, <1>2 DEF Switches, SameEnd
<1> QED BY <1>3, <1>4, <1>5 DEF Good, Steps, v

\* The listeners of "upgrade" have returned, and what waits leaves.
LEMMA AdoptedGood ==
  ASSUME NEW s, StepInv(s), s.switching
  PROVE  Good(s, Adopted(s))
<1> DEFINE u == [s EXCEPT !.switching = FALSE]
           t == Flush(u)
<1>0. s \in State /\ Bounded(s) /\ Probed(s) /\ s.transport = "websocket"
  BY DEF StepInv, Inv, Core, ProbeTimersOwned
<1>1. Core(u) /\ SameBut(s, u, {"switching"}) /\ ~u.switching
  BY SwitchedCore DEF StepInv
<1>2. Adopted(s) = t
  BY DEF Adopted
<1> HIDE DEF u
<1>3. /\ u.ready = s.ready /\ u.reason = s.reason /\ u.buffer = s.buffer
      /\ u.messagesSent = s.messagesSent /\ u.out = s.out /\ u.lost = s.lost
      /\ u.conn = s.conn /\ u.overtook = s.overtook /\ u.transport = s.transport
      /\ u.probing = s.probing /\ u.wsWritable = s.wsWritable
      /\ u.upgradeTimer = s.upgradeTimer
  BY <1>0, <1>1, SameStep DEF StepFields
<1>4. Delivered(u) = Delivered(s) /\ Waiting(u) = Waiting(s)
  BY <1>3, SameLength
<1>5. Bounded(u)
  BY <1>0, <1>3, <1>4 DEF Bounded
<1>6. Probed(u) /\ (~Closed(u) => u.conn = "open")
  BY <1>0, <1>1, <1>3 DEF Probed, WsBound, Closed
<1>7. (Stutters(u, t) \/ Delivers(u, t)) /\ Goes(u, t) /\ Bounded(t)
  <2>1. CASE ~Closed(u) /\ u.wsWritable
    <3>1. Takes(u)
      BY <1>6, <2>1 DEF Takes, WsReady
    <3> QED BY <1>1, <1>5, <3>1, FlushDelivers
  <2>2. CASE ~(~Closed(u) /\ u.wsWritable)
    <3>1. t = u
      BY <1>0, <1>3, <2>2 DEF Flush, Writable
    <3> QED BY <1>5, <3>1, FallsSame DEF Falls, Stutters, SameEnd
  <2> QED BY <2>1, <2>2
<1> HIDE DEF t
<1>8. Probed(t)
  <2>1. ~u.probing
    BY <1>0, <1>3 DEF StepInv, Inv, Core, ProbeTimersOwned
  <2> QED BY <1>1, <1>6, <1>7, <2>1 DEF Probed, Goes, WsBound, Closed
<1>9. Drains(u, t) => Drains(s, t)
  <2>1. DeliversAll(u, t) => DeliversAll(s, t)
    BY <1>3, <1>4 DEF DeliversAll
  <2> QED BY <1>3, <2>1 DEF Drains, SameEnd, Closed
<1>10. Switched(s, t)
  <2>1. CASE Stutters(u, t)
    BY <1>1, <1>3, <2>1 DEF Switched, Stutters, SameEnd
  <2>2. CASE Delivers(u, t)
    BY <1>1, <1>3, <1>9, <2>2 DEF Switched, Delivers, Drains
  <2> QED BY <1>7, <2>1, <2>2
<1> QED BY <1>2, <1>7, <1>8, <1>10 DEF Good, Steps

\* Every packet of a probe that is open.
LEMMA ProbePacketGood ==
  ASSUME NEW s, StepInv(s), s.probing, s.conn = "open", NEW type \in ProbePacketType
  PROVE  Good(s, ProbePacket(s, type))
<1>1. CASE type = "probe"
  BY <1>1, ProbePingFalls, FallsGood DEF ProbePacket, StepInv
<1>2. CASE type = "upgrade" /\ ~Closed(s)
  BY <1>2, AdoptGood DEF ProbePacket
<1>3. CASE type = "close"
  <2>1. ProbePacket(s, type) = WsClose(s)
    BY <1>3 DEF ProbePacket
  <2> QED BY <2>1, ProbeShutGood
<1>4. CASE type = "other" \/ (type = "upgrade" /\ Closed(s))
  <2>1. ProbePacket(s, type) = WsClose([s EXCEPT !.upgradeTimer = FALSE])
    BY <1>4 DEF ProbePacket
  <2> QED BY <2>1, ProbeShutGood
<1> QED BY <1>1, <1>2, <1>3, <1>4 DEF ProbePacketType

\* What a pause and its end leave alone.
LEMMA ResumeFrame ==
  ASSUME NEW s, StepInv(s), NEW u, SameBut(s, u, {"wsWritable"})
  PROVE  /\ u.ready = s.ready /\ u.reason = s.reason
         /\ u.transport = s.transport /\ u.switching = s.switching
         /\ u.messagesSent = s.messagesSent /\ u.overtook = s.overtook
         /\ u.out = s.out /\ u.lost = s.lost
         /\ u.probing = s.probing /\ u.conn = s.conn
         /\ u.upgradeTimer = s.upgradeTimer /\ u.buffer = s.buffer
<1>1. s \in State
  BY DEF StepInv, Inv, Core
<1> QED BY <1>1, SameStep DEF StepFields

\* A paused probe resumes and takes the packet.
LEMMA ProbeMessageGood ==
  ASSUME NEW s, StepInv(s), s.probing, s.conn = "open", NEW type \in ProbePacketType
  PROVE  Good(s, ProbeMessage(s, type))
<1> DEFINE u == Resume(s)
           t == ProbePacket(u, type)
<1>1. CASE u = s
  BY <1>1, ProbePacketGood DEF ProbeMessage
<1>2. CASE u # s
  <2>0. s.transport = "polling" /\ Probed(s)
    BY DEF StepInv, Inv, Core, ProbeTimersOwned
  <2>1. Backpressure /\ SameBut(s, u, {"wsWritable"}) /\ Inv(u)
    <3>1. ~WsBound(s)
      BY <2>0 DEF WsBound
    <3> QED BY <1>2, <3>1, ResumeCore, ResumeInv DEF StepInv
  <2> HIDE DEF u
  <2>2. /\ u.ready = s.ready /\ u.reason = s.reason /\ u.transport = s.transport
        /\ u.switching = s.switching
        /\ u.messagesSent = s.messagesSent /\ u.overtook = s.overtook
        /\ u.out = s.out /\ u.lost = s.lost
        /\ u.probing = s.probing /\ u.conn = s.conn
        /\ u.upgradeTimer = s.upgradeTimer
    BY <2>1, ResumeFrame
  <2>3. Probed(u)
    BY <2>0, <2>1, <2>2 DEF Probed, WsBound, Closed
  <2>4. StepInv(u)
    BY <2>1, <2>3, ProbeGood DEF StepInv, Good, StepFields
  <2>5. Good(u, t)
    BY <2>2, <2>4, ProbePacketGood
  <2> HIDE DEF t
  <2>6. (DeliversAll(u, t) => DeliversAll(s, t)) /\ ~Loses(u, t)
    BY <2>0, <2>2, SameLength DEF DeliversAll, Loses
  <2>7. Steps(s, t)
    <3>1. Stutters(u, t) => Stutters(s, t)
      BY <2>2 DEF Stutters, SameEnd
    <3>2. Accepts(u, t) => Accepts(s, t)
      BY <2>2, <2>6 DEF Accepts, SameEnd, Open
    <3>3. Drains(u, t) => Drains(s, t)
      BY <2>2, <2>6 DEF Drains, SameEnd, Closed
    <3>4. Delivers(u, t) => Delivers(s, t)
      BY <2>2, <3>3 DEF Delivers
    <3>5. Switches(u, t) => Switches(s, t)
      BY <2>2 DEF Switches, SameEnd, Closed
    <3>8. ~Overtakes(u, t) /\ ~Switched(u, t)
      BY <2>2, PollingSettled DEF StepInv, Overtakes, Switched
    <3>6. Closes(u, t) => Closes(s, t)
      BY <2>2, <2>6 DEF Closes, Open
    <3>7. Fails(u, t) => Fails(s, t)
      BY <2>2, <2>6 DEF Fails, Closed
    <3> QED BY <2>5, <2>6, <3>1, <3>2, <3>4, <3>5, <3>6, <3>7, <3>8 DEF Good, Steps
  <2> QED BY <2>5, <2>7 DEF Good, t, u, ProbeMessage
<1> QED BY <1>1, <1>2

\* A paused WebSocket delivers what waits as it resumes, and takes the packet.
LEMMA WsPacketGood ==
  ASSUME NEW s, StepInv(s), ~s.switching, WsBound(s), s.conn = "open",
         NEW type \in PacketType \cup {"close"}
  PROVE  Good(s, WsMessage(s, type))
<1> DEFINE u == [s EXCEPT !.wsWritable = TRUE]
           r == Resume(s)
           t == WsMessage(s, type)
<1>0. s \in State /\ Bounded(s) /\ Inv(s)
  BY DEF StepInv, Inv, Core
<1>1. /\ Core(u) /\ SameBut(s, u, {"wsWritable"}) /\ u.wsWritable /\ Inv(r)
      /\ r = s \/ (Backpressure /\ r = Flush(u))
  BY <1>0, ResumeCore, ResumeInv
<1> HIDE DEF u
<1>2. (Stutters(s, r) \/ Delivers(s, r)) /\ Goes(s, r) /\ Bounded(r)
  <2>1. CASE r = s
    BY <1>0, <2>1, FallsSame DEF Falls, Stutters, SameEnd
  <2>2. CASE Backpressure /\ r = Flush(u)
    <3>1. u.conn = s.conn
      BY <1>0, <1>1, SameStep DEF StepFields
    <3>2. Takes(u)
      BY <1>1, <3>1 DEF Takes, WsReady
    <3>3. {"wsWritable"} \cap StepFields \subseteq {"wsWritable"}
      OBVIOUS
    <3> QED BY <1>0, <1>1, <2>2, <3>2, <3>3, FrameDelivers
  <2> QED BY <1>1, <2>1, <2>2
<1>3. t = r \/ t = WsClose(r) \/ (type # "close" /\ t = OnPacket(r, type))
  BY DEF WsMessage
<1>4. r \in State /\ r.transport = "websocket" /\ ~r.switching
  BY <1>1, <1>2 DEF Inv, Core, Goes, WsBound
<1> HIDE DEF r
<1>5. Falls(r, WsClose(r))
  <2> DEFINE c == WsClose(r)
  <2>1. SameBut(r, c, {"conn"})
    BY <1>4, WsCloseEffect
  <2>2. c.conn # "open"
    BY <1>4 DEF WsClose, State
  <2> HIDE DEF c
  <2>3. /\ c.ready = r.ready /\ c.reason = r.reason /\ c.transport = r.transport
        /\ c.switching = r.switching
        /\ c.messagesSent = r.messagesSent /\ c.overtook = r.overtook
        /\ c.out = r.out /\ c.lost = r.lost
        /\ c.buffer = r.buffer /\ c.wsWritable = r.wsWritable
        /\ c.probing = r.probing /\ c.upgradeTimer = r.upgradeTimer
    BY <1>4, <2>1, SameStep DEF StepFields
  <2>4. Falls(r, c)
    BY <1>4, <2>2, <2>3, SameLength DEF Falls, Stutters, SameEnd, Goes, Closed
  <2> QED BY <2>4 DEF c
<1>6. type # "close" => Falls(r, OnPacket(r, type))
  BY <1>1, <1>4, OnPacketFalls
<1>7. Falls(r, t)
  BY <1>3, <1>5, <1>6, FallsSame
<1> HIDE DEF t
<1>8. Good(s, t)
  BY <1>2, <1>7, DeliversThenFalls
<1> QED BY <1>8 DEF t

\* The close event of the probe, of the session's WebSocket, and of the one
\* that a session left behind.
LEMMA WsClosedGood ==
  ASSUME NEW s, StepInv(s), ~s.switching
  PROVE  Good(s, WsClosed(s))
<1>0. Inv(s) /\ s \in State
  BY DEF StepInv, Inv, Core
<1>1. CASE s.probing
  <2> DEFINE t == [s EXCEPT !.conn = "gone", !.probing = FALSE,
                            !.upgradeTimer = FALSE, !.fastTimer = FALSE]
             F == {"conn", "probing", "upgradeTimer", "fastTimer"}
  <2>1. SameBut(s, t, F) /\ t.conn = "gone" /\ ~t.probing /\ WsClosed(s) = t
    BY <1>0, <1>1, ProbeGone
  <2> HIDE DEF t
  <2>4. t.switching = s.switching
    BY <1>0, <2>1, SameStep DEF StepFields
  <2>2. Probed(t)
    BY <2>1, <2>4 DEF Probed
  <2>3. F \cap StepFields \subseteq {"conn", "wsWritable", "probing", "upgradeTimer"}
    BY DEF StepFields
  <2> QED BY <2>1, <2>2, <2>3, ProbeGood
<1>2. CASE ~s.probing
  <2> DEFINE t == [s EXCEPT !.conn = "gone"]
  <2>1. Inv(t) /\ SameBut(s, t, {"conn"}) /\ t.conn = "gone"
    BY <1>0, ConnGone
  <2>2. WsClosed(s) = IF WsBound(s) THEN OnClose(t, "transport close") ELSE t
    BY <1>2 DEF WsClosed
  <2> HIDE DEF t
  <2>3. /\ t.ready = s.ready /\ t.reason = s.reason /\ t.transport = s.transport
        /\ t.switching = s.switching
        /\ t.messagesSent = s.messagesSent /\ t.overtook = s.overtook
        /\ t.out = s.out /\ t.lost = s.lost
        /\ t.buffer = s.buffer /\ t.wsWritable = s.wsWritable
        /\ t.probing = s.probing /\ t.upgradeTimer = s.upgradeTimer
    BY <1>0, <2>1, SameStep DEF StepFields
  <2>4. CASE WsBound(s)
    <3>1. Falls(s, t)
      BY <2>1, <2>3, <2>4, SameLength
         DEF Falls, Stutters, SameEnd, Goes, Closed, WsBound
    <3>2. Falls(t, OnClose(t, "transport close"))
      BY <2>1, OnCloseFalls DEF Failures, Inv
    <3> QED BY <2>2, <2>4, <3>1, <3>2, FallsTrans, FallsGood
  <2>5. CASE ~WsBound(s)
    <3>1. Probed(t)
      BY <1>2, <2>1, <2>3 DEF Probed
    <3> QED BY <2>1, <2>2, <2>5, <3>1, ProbeGood DEF StepFields
  <2> QED BY <2>4, <2>5
<1> QED BY <1>1, <1>2

-----------------------------------------------------------------------------
(* The session *)

\* A session starts open, with nothing accepted, over either transport.
LEMMA HandshakeStep ==
  ASSUME NEW transport \in {"polling", "websocket"}
  PROVE  LET t == Handshake(transport) IN
         /\ StepInv(t) /\ t.ready = "open" /\ t.reason = "none"
         /\ t.transport = transport
         /\ t.messagesSent = 0 /\ Delivered(t) = 0 /\ t.lost = FALSE
         /\ t.switching = FALSE
<1> DEFINE c == Constructed(transport)
           u == [c EXCEPT !.conn = "open", !.wsWritable = TRUE]
           t == Handshake(transport)
           Start(s) == /\ s.ready = "open" /\ s.reason = "none"
                       /\ s.transport = transport /\ s.messagesSent = 0
                       /\ Delivered(s) = 0 /\ Waiting(s) = 0 /\ s.lost = FALSE
                       /\ s.probing = FALSE /\ s.switching = FALSE
                       /\ s.conn = "open" => transport = "websocket"
<1>1. /\ c.ready = "open" /\ c.reason = "none" /\ c.transport = transport
      /\ c.messagesSent = 0 /\ c.out = <<>> /\ c.buffer = <<>>
      /\ c.lost = FALSE /\ c.probing = FALSE /\ c.conn = "none"
      /\ c.switching = FALSE /\ c.wsWritable = FALSE /\ c.pollWritable = FALSE
      /\ c.poll = FALSE
  BY DEF Constructed
<1>2. c \in State /\ Core(c) /\ Alive(c)
  BY ConstructedInv
<1>3. Handshake(transport) = IF transport = "polling" THEN OnPollRequest(c) ELSE Flush(u)
  BY DEF Handshake
<1> HIDE DEF c
<1>4. Start(c)
  BY <1>1, EmptySequence DEF Delivered, Waiting
<1>5. Inv(t)
  BY HandshakeInv
<1> HIDE DEF t
<1>6. \A s : Start(s) => Bounded(s)
  BY DEF Bounded
<1>7. \E s : Start(s) /\ (Stutters(s, t) \/ Delivers(s, t)) /\ Goes(s, t) /\ Bounded(t)
  <2>1. CASE transport = "polling"
    <3>1. Flushed(c) /\ Probed(c) /\ PollingBound(c) /\ ~c.poll
      BY <1>1, <2>1 DEF Flushed, Writable, Probed, PollingBound, Closed
    <3>2. StepInv(c)
      BY <1>2, <1>4, <1>6, <3>1 DEF StepInv, Inv
    <3>3. t = OnPollRequest(c)
      BY <1>3, <2>1 DEF t
    <3> QED BY <1>4, <3>1, <3>2, <3>3, PollRequestSteps
  <2>2. CASE transport = "websocket"
    <3>1. /\ u \in State /\ u.conn = "open" /\ u.wsWritable = TRUE
          /\ \A f \in (CoreFields \cup StepFields) \ {"conn", "wsWritable"} : u[f] = c[f]
      BY <1>2, ZenonT(40) DEF State, CoreFields, StepFields
    <3>2. t = Flush(u)
      BY <1>3, <2>2 DEF t
    <3> HIDE DEF u
    <3>3. /\ u.ready = c.ready /\ u.reason = c.reason /\ u.transport = c.transport
          /\ u.switching = c.switching
          /\ u.messagesSent = c.messagesSent /\ u.overtook = c.overtook
          /\ u.out = c.out /\ u.lost = c.lost
          /\ u.buffer = c.buffer /\ u.probing = c.probing
      BY <3>1 DEF StepFields
    <3>4. Start(u)
      BY <1>4, <2>2, <3>3, SameLength
    <3>5. Core(u)
      <4>1. \A f \in CoreFields : u[f] = c[f]
        BY <3>1 DEF CoreFields
      <4> QED BY <1>2, <3>1, <4>1, CoreFrame
    <3>6. Takes(u) /\ Bounded(u)
      BY <1>6, <3>1, <3>4 DEF Takes, WsReady
    <3> QED BY <3>2, <3>4, <3>5, <3>6, FlushDelivers
  <2> QED BY <2>1, <2>2
<1>8. PICK s : Start(s) /\ (Stutters(s, t) \/ Delivers(s, t)) /\ Goes(s, t)
      /\ Bounded(t)
  BY <1>7
<1>9. /\ t.ready = "open" /\ t.reason = "none" /\ t.transport = transport
      /\ t.messagesSent = 0 /\ t.lost = FALSE /\ t.switching = FALSE
  BY <1>8 DEF Stutters, Delivers, Drains, SameEnd
<1>10. Delivered(t) = 0
  <2>1. CASE Stutters(s, t)
    BY <1>8, <2>1, SameLength DEF Stutters
  <2>2. CASE Delivers(s, t)
    BY <1>8, <1>9, <2>2 DEF Delivers, Drains, DeliversAll
  <2> QED BY <1>8, <2>1, <2>2
<1>11. Probed(t)
  BY <1>8, <1>9 DEF Goes, Probed, WsBound, Closed
<1>12. StepInv(t)
  BY <1>5, <1>8, <1>11 DEF StepInv
<1> QED BY <1>9, <1>10, <1>12 DEF t

\* Every event is a step of Channel, and keeps account of the WebSocket.
LEMMA NextGood ==
  ASSUME StepInv(sock), [Next]_sock
  PROVE  Good(sock, sock')
<1>0. Inv(sock)
  BY DEF StepInv
<1>1. \A t : Falls(sock, t) => Good(sock, t)
  BY FallsGood
<1>2. CASE AppWrite
  BY <1>2, WriteGood DEF AppWrite
<1>3. CASE AppBroadcast
  BY <1>3, WriteGood DEF AppBroadcast
<1>4. CASE AppClose
  BY <1>4, CloseGood DEF AppClose
<1>5. CASE AttachMetrics
  BY <1>0, <1>1, <1>5, BystanderFalls DEF AttachMetrics
<1>6. CASE PingInterval \/ StrayPing \/ PingTimeout
  BY <1>0, <1>1, <1>6, PingTimersFall DEF PingInterval, StrayPing, PingTimeout, Idle
<1>7. CASE PollTimeout \/ PollAbort \/ LatePollAbort
  BY <1>0, <1>1, <1>7, PollGoneFalls DEF PollTimeout, PollAbort, LatePollAbort
<1>8. CASE UpgradeTimeout
  BY <1>8, UpgradeTimeoutGood DEF UpgradeTimeout
<1>9. CASE FastUpgradeTick
  BY <1>0, <1>1, <1>9, AnsweredFalls DEF FastUpgradeTick
<1>10. CASE PollRequest
  BY <1>10, OnPollRequestGood DEF PollRequest
<1>11. CASE PostStart \/ PostAnswer
  BY <1>0, <1>1, <1>11, BystanderFalls DEF PostStart, PostAnswer
<1>12. CASE PostPacket
  BY <1>0, <1>1, <1>12, PollingPacketFalls DEF PostPacket
<1>13. CASE PostFailure
  BY <1>0, <1>1, <1>13, PostFailedFalls DEF PostFailure
<1>14. CASE UpgradeRequest
  BY <1>14, MaybeUpgradeGood DEF UpgradeRequest, Idle
<1>15. CASE ProbeReceive
  BY <1>15, ProbeMessageGood DEF ProbeReceive
<1>16. CASE WsReceive
  BY <1>16, WsPacketGood DEF WsReceive, Idle
<1>17. CASE WsCloseEvent \/ WsPeerClose
  BY <1>17, WsClosedGood DEF WsCloseEvent, WsPeerClose, Idle
<1>18. CASE BufferFill \/ BufferDrain
  BY <1>0, <1>1, <1>18, BystanderFalls DEF BufferFill, BufferDrain
<1>19. CASE UpgradeHeard
  BY <1>19, AdoptedGood DEF UpgradeHeard
<1>20. CASE UNCHANGED sock
  BY <1>1, <1>20, FallsSame
<1> QED BY <1>2, <1>3, <1>4, <1>5, <1>6, <1>7, <1>8, <1>9, <1>10, <1>11, <1>12,
           <1>13, <1>14, <1>15, <1>16, <1>17, <1>18, <1>19, <1>20 DEF Next

-----------------------------------------------------------------------------
(* The results *)

\* Whatever happens to a session: its probe and its WebSocket are accounted
\* for, and nothing is delivered or buffered that was not accepted.
THEOREM StepInvariant == Spec => []StepInv(sock)
<1>1. Init => StepInv(sock)
  BY HandshakeStep DEF Init
<1>2. StepInv(sock) /\ [Next]_sock => StepInv(sock)'
  BY NextGood, NextInv DEF Good, StepInv
<1> QED BY <1>1, <1>2, PTL DEF Spec

\* The timers of _maybeUpgrade never outlive its probe, and a probe that
\* nothing pauses always has the upgrade timer or its close event to end it.
THEOREM ProbesHaveTheirTimers == Spec => []ProbeTimers
<1>1. StepInv(sock) => ProbeTimers
  BY DEF StepInv, Inv, Core, ProbeTimersOwned, Probed, ProbeTimers
<1> QED BY <1>1, StepInvariant, PTL

\* No closed session leaves a WebSocket of its own open, however it ended.
THEOREM NoWebSocketIsOrphaned == Spec => []NoOrphanWebSocket
<1>1. StepInv(sock) => NoOrphanWebSocket
  BY DEF StepInv, Probed, WsBound, NoOrphanWebSocket
<1> QED BY <1>1, StepInvariant, PTL

\* Nothing that happens to a closed session is visible to the application: no
\* timer, packet or upgrade revives it or writes for it.
THEOREM ClosedStaysFinal == Spec => ClosedIsFinal
<1>1. StepInv(sock) /\ [Next]_sock =>
        [Closed(sock) =>
           /\ sock'.ready = sock.ready /\ sock'.reason = sock.reason
           /\ sock'.transport = sock.transport /\ sock'.out = sock.out
           /\ sock'.messagesSent = sock.messagesSent]_sock
  <2>1. SUFFICES ASSUME StepInv(sock), [Next]_sock, Closed(sock)
        PROVE  /\ SameEnd(sock, sock')
               /\ sock'.transport = sock.transport /\ sock'.out = sock.out
               /\ sock'.messagesSent = sock.messagesSent
    BY DEF SameEnd
  <2> QED BY <2>1, NextGood
          DEF Good, Steps, Stutters, Accepts, Overtakes, Loses, Delivers, Drains, Switches,
              Switched, Closes, Fails, Open, Closed
<1> QED BY <1>1, StepInvariant, PTL DEF Spec, ClosedIsFinal

\* A message is dropped only by a WebSocket that is closed or paused: no poll,
\* no upgrade and no close loses one.
THEOREM OnlyAWebSocketLoses == Spec => OnlyWebSocketLoses
<1>1. StepInv(sock) /\ [Next]_sock =>
        [~sock.lost /\ sock'.lost =>
           sock.transport = "websocket" /\ ~WsReady(sock)]_sock
  <2>1. SUFFICES ASSUME StepInv(sock), [Next]_sock, ~sock.lost, sock'.lost
        PROVE  Loses(sock, sock')
    BY DEF Loses
  <2> QED BY <2>1, NextGood
          DEF Good, Steps, Stutters, Accepts, Overtakes, Delivers, Drains, Switches,
              Switched, Closes, Fails
<1> QED BY <1>1, StepInvariant, PTL DEF Spec, OnlyWebSocketLoses

\* Only while the listeners of "upgrade" run does a broadcast get past messages
\* that wait; at any other time the WebSocket drops it.
THEOREM OvertakingNeedsAnUpgrade == Spec => OvertakenInUpgrade
<1>1. StepInv(sock) /\ [Next]_sock =>
        [sock'.overtook # sock.overtook /\ ~sock'.lost => sock.switching]_sock
  <2>1. SUFFICES ASSUME StepInv(sock), [Next]_sock,
                        sock'.overtook # sock.overtook, ~sock'.lost
        PROVE  Overtakes(sock, sock')
    BY DEF Overtakes
  <2> QED BY <2>1, NextGood
          DEF Good, Steps, Stutters, Accepts, Loses, Delivers, Drains, Switches,
              Switched, Closes, Fails
<1> QED BY <1>1, StepInvariant, PTL DEF Spec, OvertakenInUpgrade

\* A session keeps the promise of Channel: each of its events, with every call
\* it makes, is one step of what the application was promised, or none.
THEOREM SessionImplementsChannel == Spec => ImplementsChannel
<1>1. Init => Promise!Init
  BY HandshakeStep DEF Init, Promise!Init, Delivered
<1>2. StepInv(sock) /\ [Next]_sock => [Promise!Next]_(Promise!vars)
  <2> DEFINE s == sock
             t == sock'
  <2> SUFFICES ASSUME StepInv(s), [Next]_sock
      PROVE  [Promise!Next]_(Promise!vars)
    OBVIOUS
  <2>0. Steps(s, t) /\ (t.out = s.out => Len(t.out) = Len(s.out))
    BY NextGood DEF Good
  <2>1. CASE Stutters(s, t)
    BY <2>0, <2>1 DEF Stutters, SameEnd, Promise!vars
  <2>2. CASE Accepts(s, t)
    <3>1. Promise!Accept
      BY <2>0, <2>2 DEF Accepts, Open, SameEnd, DeliversAll, Delivered, Promise!Accept,
                        Promise!DeliverAll, Promise!DeliverNothing
    <3> QED BY <3>1 DEF Promise!Next
  <2>9. CASE Overtakes(s, t)
    <3>1. Promise!Overtake
      BY <2>9 DEF Overtakes, Closed, SameEnd, Delivered, Promise!Overtake
    <3> QED BY <3>1 DEF Promise!Next
  <2>3. CASE Loses(s, t)
    <3>1. Promise!Lose
      BY <2>0, <2>3 DEF Loses, Closed, SameEnd, Promise!Lose, Promise!DeliverNothing
    <3> QED BY <3>1 DEF Promise!Next
  <2>4. Drains(s, t) => Promise!Drain
    BY DEF Drains, Closed, SameEnd, DeliversAll, Delivered, Promise!Drain,
           Promise!DeliverAll
  <2>5. CASE Delivers(s, t)
    <3>1. Promise!Deliver
      BY <2>4, <2>5 DEF Delivers, Drains, Promise!Deliver
    <3> QED BY <3>1 DEF Promise!Next
  <2>6. CASE Switches(s, t)
    <3>1. Promise!Upgrade
      BY <2>0, <2>6 DEF Switches, SameEnd, Closed, Promise!Upgrade,
                        Promise!DeliverNothing
    <3> QED BY <3>1 DEF Promise!Next
  <2>10. CASE Switched(s, t)
    <3>1. Promise!Switched
      BY <2>0, <2>4, <2>10 DEF Switched, SameEnd, Promise!Switched,
                               Promise!DeliverNothing
    <3> QED BY <3>1 DEF Promise!Next
  <2>7. CASE Closes(s, t)
    <3>1. Promise!Close
      BY <2>0, <2>7 DEF Closes, Open, DeliversAll, Delivered, Promise!Close,
                        Promise!DeliverAll, Promise!DeliverNothing
    <3> QED BY <3>1 DEF Promise!Next
  <2>8. CASE Fails(s, t)
    <3>1. Promise!Fail
      BY <2>0, <2>8 DEF Fails, Closed, Failures, DeliversAll, Delivered, Promise!Fail,
                        Promise!Failure, Promise!DeliverAll, Promise!DeliverNothing
    <3> QED BY <3>1 DEF Promise!Next
  <2> QED BY <2>0, <2>1, <2>2, <2>3, <2>5, <2>6, <2>7, <2>8, <2>9, <2>10 DEF Steps
<1> QED BY <1>1, <1>2, StepInvariant, PTL DEF Spec, ImplementsChannel, Promise!Spec
=============================================================================
