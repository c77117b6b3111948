--------------------------- MODULE SessionProofs ----------------------------
(***************************************************************************)
(* What holds of a session for every value of the constants.  The lemmas   *)
(* follow EngineSocket's operators from the innermost out: each says what  *)
(* the method leaves of Core, Flushed and Alive.                           *)
(***************************************************************************)
EXTENDS Session, TLAPS

\* s and t agree on every field outside F.
SameBut(s, t, F) == \A f \in DOMAIN s \ F : t[f] = s[f]

-----------------------------------------------------------------------------
(* Sequences *)

\* The empty sequence is a sequence of any kind, and empty.
LEMMA EmptySequence == <<>> \in Seq(Nat) /\ Len(<<>>) = 0
OBVIOUS

\* Appending nothing changes nothing.
LEMMA ConcatEmpty == ASSUME NEW q \in Seq(Nat) PROVE q \o <<>> = q
OBVIOUS

-----------------------------------------------------------------------------
(* Closing *)

\* A poll that is answered with no message.
LEMMA PollingSendNothing ==
  ASSUME NEW s \in State, s.poll
  PROVE  LET t == PollingSend(s, <<>>) IN
         /\ t \in State
         /\ t.poll = FALSE /\ t.pollWritable = FALSE /\ t.late = LateAborts
         /\ SameBut(s, t, {"poll", "pollWritable", "late"})
<1> DEFINE t == [s EXCEPT !.pollWritable = FALSE, !.poll = FALSE,
                          !.late = LateAborts, !.out = s.out]
<1>1. s.out \in Seq(Nat) /\ s.out \o <<>> = s.out
  BY ConcatEmpty DEF State
<1>2. PollingSend(s, <<>>) = t
  BY <1>1 DEF PollingSend
<1>3. t \in State
  BY EngineSocketAssumption, ZenonT(80) DEF State
<1>4. /\ t.poll = FALSE /\ t.pollWritable = FALSE /\ t.late = LateAborts
      /\ \A f \in DOMAIN s \ {"poll", "pollWritable", "late"} : t[f] = s[f]
  BY DEF State
<1> QED
  BY <1>2, <1>3, <1>4 DEF SameBut

\* The polling transport closes: a pending poll is answered, nothing hangs.
LEMMA PollingDoCloseEffect ==
  ASSUME NEW s \in State, s.poll <=> s.pollWritable
  PROVE  LET t == PollingDoClose(s) IN
         /\ t \in State
         /\ t.poll = FALSE /\ t.pollWritable = FALSE
         /\ t.late = s.late \/ t.late = LateAborts
         /\ SameBut(s, t, {"poll", "pollWritable", "late"})
<1>1. CASE s.poll
  <2>1. PollingDoClose(s) = PollingSend(s, <<>>)
    BY <1>1 DEF PollingDoClose
  <2> QED BY <1>1, <2>1, PollingSendNothing
<1>2. CASE ~s.poll
  <2> DEFINE t == [s EXCEPT !.poll = FALSE, !.hung = s.hung]
  <2>1. (s.hung \/ s.poll) = s.hung
    BY <1>2 DEF State
  <2>2. PollingDoClose(s) = t
    BY <1>2, <2>1 DEF PollingDoClose
  <2>3. t \in State
    BY DEF State
  <2>4. /\ t.poll = FALSE /\ t.late = s.late
        /\ \A f \in DOMAIN s \ {"poll"} : t[f] = s[f]
    BY DEF State
  <2>5. "pollWritable" \in DOMAIN s /\ s.pollWritable = FALSE
    BY <1>2 DEF State
  <2> HIDE DEF t
  <2> QED BY <2>2, <2>3, <2>4, <2>5 DEF SameBut
<1> QED BY <1>1, <1>2

\* Closing a WebSocket changes only the state of the connection.
LEMMA WsCloseEffect ==
  ASSUME NEW s \in State
  PROVE  WsClose(s) \in State /\ SameBut(s, WsClose(s), {"conn"})
<1> DEFINE t == [s EXCEPT !.conn = "shut"]
<1>1. t \in State
  BY DEF State
<1>2. \A f \in DOMAIN s \ {"conn"} : t[f] = s[f]
  BY DEF State
<1>3. WsClose(s) = s \/ WsClose(s) = t
  BY DEF WsClose
<1> HIDE DEF t
<1> QED BY <1>1, <1>2, <1>3 DEF SameBut

\* Socket.closeTransport leaves no poll and touches nothing but the transport.
LEMMA CloseTransportEffect ==
  ASSUME NEW s \in State, s.poll <=> s.pollWritable, s.poll => s.transport = "polling"
  PROVE  LET t == CloseTransport(s) IN
         /\ t \in State
         /\ t.poll = FALSE /\ t.pollWritable = FALSE
         /\ t.late = s.late \/ t.late = LateAborts
         /\ SameBut(s, t, {"poll", "pollWritable", "late", "conn"})
<1>1. CASE s.transport = "polling"
  <2>1. CloseTransport(s) = PollingDoClose(s)
    BY <1>1 DEF CloseTransport
  <2> QED BY <2>1, PollingDoCloseEffect DEF SameBut
<1>2. CASE s.transport # "polling"
  <2>1. CloseTransport(s) = WsClose(s)
    BY <1>2 DEF CloseTransport
  <2>2. /\ {"poll", "pollWritable", "late"} \subseteq DOMAIN s
        /\ s.poll = FALSE /\ s.pollWritable = FALSE
    BY <1>2 DEF State
  <2> QED BY <2>1, <2>2, WsCloseEffect DEF SameBut
<1> QED BY <1>1, <1>2

\* Socket.onClose on a live session.
LEMMA OnCloseEffect ==
  ASSUME NEW s \in State, NEW why \in CloseReason, ~Closed(s),
         s.poll <=> s.pollWritable, s.poll => s.transport = "polling"
  PROVE  LET t == OnClose(s, why) IN
         /\ t \in State
         /\ t.ready = "closed" /\ t.reason = why
         /\ t.poll = FALSE /\ t.pollWritable = FALSE
         /\ t.late = s.late \/ t.late = LateAborts
         /\ SameBut(s, t, {"ready", "reason", "interval", "timeout",
                           "poll", "pollWritable", "late", "conn"})
<1> DEFINE u == [s EXCEPT !.ready = "closed", !.reason = why, !.interval = "idle",
                          !.timeout = IF @ = "none" THEN @ ELSE "idle"]
<1>1. u \in State
  BY ZenonT(40) DEF State
<1>2. OnClose(s, why) = CloseTransport(u)
  BY DEF OnClose
<1>3. /\ u.poll = s.poll /\ u.pollWritable = s.pollWritable
      /\ u.transport = s.transport /\ u.late = s.late
      /\ u.ready = "closed" /\ u.reason = why
      /\ DOMAIN u = DOMAIN s /\ {"ready", "reason"} \subseteq DOMAIN s
      /\ \A f \in DOMAIN s \ {"ready", "reason", "interval", "timeout"} : u[f] = s[f]
  BY DEF State
<1> HIDE DEF u
<1>4. (u.poll <=> u.pollWritable) /\ (u.poll => u.transport = "polling")
  BY <1>3
<1> DEFINE t == CloseTransport(u)
<1>5. /\ t \in State
      /\ t.poll = FALSE /\ t.pollWritable = FALSE
      /\ t.late = u.late \/ t.late = LateAborts
      /\ SameBut(u, t, {"poll", "pollWritable", "late", "conn"})
  BY <1>1, <1>4, CloseTransportEffect
<1> HIDE DEF t
<1>6. t.ready = "closed" /\ t.reason = why
  BY <1>3, <1>5 DEF SameBut
<1>7. SameBut(s, t, {"ready", "reason", "interval", "timeout",
                     "poll", "pollWritable", "late", "conn"})
  BY <1>3, <1>5 DEF SameBut
<1>8. OnClose(s, why) = t
  BY <1>2 DEF t
<1> QED BY <1>3, <1>5, <1>6, <1>7, <1>8

-----------------------------------------------------------------------------
(* What a close needs of the session, and what it leaves *)

\* Enough of Core for a session that is about to close.
Closable(s) ==
  /\ s \in State
  /\ s.poll <=> s.pollWritable
  /\ s.poll => s.transport = "polling"
  /\ NothingHung(s) /\ InOrder(s) /\ ProbeTimersOwned(s)

\* The fields Core reads.
CoreFields ==
  {"ready", "reason", "transport", "upgrade", "buffer", "ctl", "closeOnDrain",
   "poll", "pollWritable", "late", "hung", "probing", "upgradeTimer",
   "fastTimer", "switching", "messagesSent", "out", "overtook", "lost"}

\* They are fields of every session.
LEMMA CoreFieldsInState ==
  ASSUME NEW s \in State
  PROVE  CoreFields \subseteq DOMAIN s
BY DEF State, CoreFields

\* The invariant of a session between two events.
Inv(s) == Core(s) /\ Flushed(s) /\ Alive(s)

\* Core depends on nothing else.
LEMMA CoreFrame ==
  ASSUME NEW s, Core(s), NEW t \in State, \A f \in CoreFields : t[f] = s[f]
  PROVE  Core(t)
<1>1. /\ t.ready = s.ready /\ t.reason = s.reason /\ t.transport = s.transport
      /\ t.upgrade = s.upgrade /\ t.buffer = s.buffer /\ t.ctl = s.ctl
      /\ t.closeOnDrain = s.closeOnDrain /\ t.poll = s.poll
      /\ t.pollWritable = s.pollWritable /\ t.late = s.late /\ t.hung = s.hung
      /\ t.probing = s.probing /\ t.upgradeTimer = s.upgradeTimer
      /\ t.fastTimer = s.fastTimer /\ t.switching = s.switching
      /\ t.messagesSent = s.messagesSent /\ t.overtook = s.overtook
      /\ t.out = s.out /\ t.lost = s.lost
  BY DEF CoreFields
<1> QED
  BY <1>1 DEF Core, PollConsistent, PollingBound, Closed, NothingHung,
              ClosingListens, Buffered, InOrder, Graceful, ProbeTimersOwned

\* Core is more than a close needs.
LEMMA CoreClosable ==
  ASSUME NEW s, Core(s)
  PROVE  Closable(s)
BY DEF Core, Closable, PollConsistent, PollingBound

\* A close leaves Core, provided nothing waits when it is a graceful one.
LEMMA OnCloseCore ==
  ASSUME NEW s, Closable(s), ~Closed(s), NEW why \in CloseReason,
         why = "forced close" /\ ~s.lost => Len(s.buffer) = 0
  PROVE  Inv(OnClose(s, why)) /\ Closed(OnClose(s, why))
<1> DEFINE t == OnClose(s, why)
<1>1. /\ t \in State
      /\ t.ready = "closed" /\ t.reason = why
      /\ t.poll = FALSE /\ t.pollWritable = FALSE
      /\ t.late = s.late \/ t.late = LateAborts
      /\ SameBut(s, t, {"ready", "reason", "interval", "timeout",
                        "poll", "pollWritable", "late", "conn"})
  BY OnCloseEffect DEF Closable
<1> HIDE DEF t
<1>2. /\ t.hung = s.hung /\ t.buffer = s.buffer /\ t.out = s.out
      /\ t.lost = s.lost /\ t.messagesSent = s.messagesSent /\ t.overtook = s.overtook
      /\ t.transport = s.transport /\ t.upgrade = s.upgrade
      /\ t.probing = s.probing /\ t.upgradeTimer = s.upgradeTimer
      /\ t.fastTimer = s.fastTimer /\ t.switching = s.switching
  BY <1>1, CoreFieldsInState DEF SameBut, CoreFields, Closable
<1>3. Core(t)
  <2>1. PollConsistent(t)
    BY <1>1 DEF PollConsistent
  <2>2. NothingHung(t)
    BY <1>1, <1>2 DEF NothingHung, Closable
  <2>3. ClosingListens(t) /\ ~(t.ready = "closing")
    BY <1>1 DEF ClosingListens, Closed
  <2>4. InOrder(t) /\ ProbeTimersOwned(t)
    BY <1>2 DEF InOrder, ProbeTimersOwned, Closable
  <2>5. Graceful(t)
    BY <1>1, <1>2 DEF Graceful, Closed
  <2> QED BY <1>1, <2>1, <2>2, <2>3, <2>4, <2>5 DEF Core
<1>4. Closed(t)
  BY <1>1 DEF Closed
<1> QED BY <1>3, <1>4 DEF Inv, Flushed, Alive, t

\* The end of a session for a reason other than close() keeps the invariant.
LEMMA OnCloseInv ==
  ASSUME NEW s, Core(s), Closed(s) => Inv(s),
         NEW why \in CloseReason \ {"forced close"}
  PROVE  Inv(OnClose(s, why))
<1>1. CASE Closed(s)
  BY <1>1 DEF OnClose
<1>2. CASE ~Closed(s)
  BY <1>2, OnCloseCore, CoreClosable
<1> QED BY <1>1, <1>2

\* The end of a session by close(), with nothing waiting.
LEMMA ForcedCloseInv ==
  ASSUME NEW s, Closable(s), ~Closed(s), Len(s.buffer) = 0
  PROVE  Inv(ForcedClose(s)) /\ Closed(ForcedClose(s))
<1> DEFINE u == CloseTransport(s)
<1>1. /\ u \in State
      /\ u.poll = FALSE /\ u.pollWritable = FALSE
      /\ u.late = s.late \/ u.late = LateAborts
      /\ SameBut(s, u, {"poll", "pollWritable", "late", "conn"})
  BY CloseTransportEffect DEF Closable
<1> HIDE DEF u
<1>2. /\ u.ready = s.ready
      /\ u.hung = s.hung /\ u.buffer = s.buffer /\ u.out = s.out
      /\ u.lost = s.lost /\ u.messagesSent = s.messagesSent /\ u.overtook = s.overtook
      /\ u.transport = s.transport /\ u.upgrade = s.upgrade
      /\ u.probing = s.probing /\ u.upgradeTimer = s.upgradeTimer
      /\ u.fastTimer = s.fastTimer /\ u.switching = s.switching
  BY <1>1, CoreFieldsInState DEF SameBut, CoreFields, Closable
<1>3. Closable(u)
  <2>1. NothingHung(u)
    BY <1>1, <1>2 DEF NothingHung, Closable
  <2>2. InOrder(u) /\ ProbeTimersOwned(u)
    BY <1>2 DEF InOrder, ProbeTimersOwned, Closable
  <2> QED BY <1>1, <2>1, <2>2 DEF Closable
<1>4. ~Closed(u) /\ Len(u.buffer) = 0
  BY <1>2 DEF Closed
<1>5. "forced close" \in CloseReason
  BY DEF CloseReason
<1>6. ForcedClose(s) = OnClose(u, "forced close")
  BY DEF ForcedClose, u
<1> QED BY <1>3, <1>4, <1>5, <1>6, OnCloseCore

-----------------------------------------------------------------------------
(* Sending *)

\* A sequence without elements adds nothing.
LEMMA ConcatNoElement ==
  ASSUME NEW q \in Seq(Nat), NEW r \in Seq(Nat), Len(r) = 0
  PROVE  q \o r = q
OBVIOUS

\* Two sequences of numbers make one.
LEMMA ConcatType ==
  ASSUME NEW q \in Seq(Nat), NEW r \in Seq(Nat)
  PROVE  q \o r \in Seq(Nat)
OBVIOUS

\* The amortised check changes the count and, at most, pauses the transport.
LEMMA CheckBackpressureEffect ==
  ASSUME NEW s \in State
  PROVE  LET t == CheckBackpressure(s) IN
         /\ t \in State
         /\ SameBut(s, t, {"sends", "wsWritable"})
         /\ t.wsWritable => s.wsWritable
<1> DEFINE n == (s.sends + 1) % CheckInterval
           b == IF n = 0 /\ s.full THEN FALSE ELSE s.wsWritable
           t == [s EXCEPT !.sends = n, !.wsWritable = b]
<1>1. n \in 0 .. CheckInterval - 1
  BY EngineSocketAssumption DEF State
<1>2. b \in BOOLEAN /\ (b => s.wsWritable)
  BY DEF State
<1>3. CheckBackpressure(s) = t \/ CheckBackpressure(s) = s
  BY DEF CheckBackpressure
<1> HIDE DEF n, b
<1>4. t \in State
  BY <1>1, <1>2 DEF State
<1>5. t.wsWritable = b /\ \A f \in DOMAIN s \ {"sends", "wsWritable"} : t[f] = s[f]
  BY <1>1, <1>2 DEF State
<1> HIDE DEF t
<1> QED BY <1>2, <1>3, <1>4, <1>5 DEF SameBut

\* A WebSocket takes the whole batch, or drops it and says so.
LEMMA WsSendEffect ==
  ASSUME NEW s \in State, NEW msgs \in Seq(Nat)
  PROVE  LET t == WsSend(s, msgs) IN
         /\ t \in State
         /\ SameBut(s, t, {"sends", "wsWritable", "out", "lost"})
         /\ t.wsWritable => s.wsWritable
         /\ \/ t.lost = s.lost /\ t.out = s.out \o msgs /\ WsReady(s)
            \/ t.lost = s.lost /\ t.out = s.out /\ Len(msgs) = 0
            \/ t.lost = TRUE
<1>1. CASE WsReady(s)
  <2> DEFINE o == s.out \o msgs
             u == [s EXCEPT !.out = o]
             t == CheckBackpressure(u)
  <2>1. o \in Seq(Nat)
    BY ConcatType DEF State
  <2>2. WsSend(s, msgs) = t
    BY <1>1 DEF WsSend
  <2> HIDE DEF o
  <2>3. u \in State
    BY <2>1 DEF State
  <2>4. u.out = o /\ u.lost = s.lost /\ DOMAIN u = DOMAIN s
        /\ u.wsWritable = s.wsWritable
        /\ {"out", "lost"} \subseteq DOMAIN s
        /\ \A f \in DOMAIN s \ {"out"} : u[f] = s[f]
    BY DEF State
  <2> HIDE DEF u
  <2>5. /\ t \in State /\ SameBut(u, t, {"sends", "wsWritable"})
        /\ t.wsWritable => u.wsWritable
    BY <2>3, CheckBackpressureEffect
  <2> HIDE DEF t
  <2>6. t.lost = s.lost /\ t.out = o
    BY <2>4, <2>5 DEF SameBut
  <2>7. SameBut(s, t, {"sends", "wsWritable", "out", "lost"})
    BY <2>4, <2>5 DEF SameBut
  <2> QED BY <1>1, <2>2, <2>4, <2>5, <2>6, <2>7 DEF o
<1>2. CASE ~WsReady(s)
  <2> DEFINE l == s.lost \/ Len(msgs) > 0
             t == [s EXCEPT !.lost = l]
  <2>1. l \in BOOLEAN
    BY DEF State
  <2>2. WsSend(s, msgs) = t
    BY <1>2 DEF WsSend
  <2>3. l = TRUE \/ (l = s.lost /\ Len(msgs) = 0)
    BY DEF State
  <2> HIDE DEF l
  <2>4. t \in State
    BY <2>1 DEF State
  <2>5. t.lost = l /\ t.out = s.out /\ t.wsWritable = s.wsWritable
        /\ \A f \in DOMAIN s \ {"lost"} : t[f] = s[f]
    BY <2>1 DEF State
  <2> HIDE DEF t
  <2> QED BY <2>2, <2>3, <2>4, <2>5 DEF SameBut
<1> QED BY <1>1, <1>2

\* The record an answered poll leaves is a session's.
LEMMA PollAnsweredType ==
  ASSUME NEW s \in State, NEW o \in Seq(Nat)
  PROVE  [s EXCEPT !.pollWritable = FALSE, !.poll = FALSE,
                   !.late = LateAborts, !.out = o] \in State
BY EngineSocketAssumption DEF State

\* A pending poll takes the whole batch.
LEMMA PollingSendEffect ==
  ASSUME NEW s \in State, NEW msgs \in Seq(Nat), s.poll
  PROVE  LET t == PollingSend(s, msgs) IN
         /\ t \in State
         /\ t.poll = FALSE /\ t.pollWritable = FALSE /\ t.late = LateAborts
         /\ t.out = s.out \o msgs
         /\ SameBut(s, t, {"poll", "pollWritable", "late", "out"})
<1> DEFINE o == s.out \o msgs
           t == [s EXCEPT !.pollWritable = FALSE, !.poll = FALSE,
                          !.late = LateAborts, !.out = o]
<1>1. o \in Seq(Nat)
  BY ConcatType DEF State
<1>2. PollingSend(s, msgs) = t
  BY DEF PollingSend
<1> HIDE DEF o
<1>3. t \in State
  BY <1>1, PollAnsweredType
<1>4. /\ t.poll = FALSE /\ t.pollWritable = FALSE /\ t.late = LateAborts
      /\ t.out = o
      /\ \A f \in DOMAIN s \ {"poll", "pollWritable", "late", "out"} : t[f] = s[f]
  BY DEF State
<1> HIDE DEF t
<1> QED BY <1>2, <1>3, <1>4 DEF SameBut, o

\* The fields a send may change.
SendFields == {"poll", "pollWritable", "late", "out", "lost", "sends", "wsWritable"}

\* A writable transport takes the whole batch, or a dead one drops it.
LEMMA TransportSendEffect ==
  ASSUME NEW s \in State, NEW msgs \in Seq(Nat), s.poll <=> s.pollWritable,
         s.poll => s.transport = "polling", Writable(s)
  PROVE  LET t == TransportSend(s, msgs) IN
         /\ t \in State
         /\ ~t.poll /\ ~t.pollWritable
         /\ t.late = s.late \/ t.late = LateAborts
         /\ SameBut(s, t, SendFields)
         /\ \/ t.lost = s.lost /\ t.out = s.out \o msgs
            \/ t.lost = TRUE
<1>0. SendFields \subseteq DOMAIN s
  BY DEF State, SendFields
<1>1. CASE s.transport = "polling"
  <2> DEFINE t == PollingSend(s, msgs)
  <2>1. s.poll
    BY <1>1 DEF Writable
  <2>2. TransportSend(s, msgs) = t
    BY <1>1 DEF TransportSend
  <2>3. /\ t \in State
        /\ t.poll = FALSE /\ t.pollWritable = FALSE /\ t.late = LateAborts
        /\ t.out = s.out \o msgs
        /\ SameBut(s, t, {"poll", "pollWritable", "late", "out"})
    BY <2>1, PollingSendEffect
  <2> HIDE DEF t
  <2>4. t.lost = s.lost
    BY <1>0, <2>3 DEF SameBut, SendFields
  <2>5. SameBut(s, t, SendFields)
    BY <2>3 DEF SameBut, SendFields
  <2> QED BY <2>2, <2>3, <2>4, <2>5
<1>2. CASE s.transport # "polling"
  <2> DEFINE t == WsSend(s, msgs)
  <2>2. TransportSend(s, msgs) = t
    BY <1>2 DEF TransportSend
  <2>3. /\ t \in State
        /\ SameBut(s, t, {"sends", "wsWritable", "out", "lost"})
        /\ \/ t.lost = s.lost /\ t.out = s.out \o msgs
           \/ t.lost = TRUE
    <3>1. Len(msgs) = 0 => s.out \o msgs = s.out
      BY ConcatNoElement DEF State
    <3> QED BY <3>1, WsSendEffect
  <2> HIDE DEF t
  <2>4. t.poll = s.poll /\ t.pollWritable = s.pollWritable /\ t.late = s.late
    BY <1>0, <2>3 DEF SameBut, SendFields
  <2>5. SameBut(s, t, SendFields)
    BY <2>3 DEF SameBut, SendFields
  <2> QED BY <1>2, <2>2, <2>3, <2>4, <2>5
<1> QED BY <1>1, <1>2

\* Flush empties the buffer of a writable transport, completes a close that
\* waited for that, and leaves nothing behind.
LEMMA FlushInv ==
  ASSUME NEW s, Core(s)
  PROVE  /\ Core(Flush(s)) /\ Flushed(Flush(s))
         /\ Alive(s) => Alive(Flush(s))
<1>1. CASE ~(~Closed(s) /\ Writable(s) /\ Buffered(s))
  <2>1. Flush(s) = s
    BY <1>1 DEF Flush
  <2> QED BY <1>1, <2>1 DEF Flushed
<1>2. CASE ~Closed(s) /\ Writable(s) /\ Buffered(s)
  <2> DEFINE u == [s EXCEPT !.buffer = <<>>, !.ctl = {}]
             t == TransportSend(u, s.buffer)
  <2>0. /\ s \in State /\ PollConsistent(s) /\ NothingHung(s) /\ ClosingListens(s)
        /\ InOrder(s) /\ Graceful(s) /\ ProbeTimersOwned(s) /\ Closable(s)
    BY CoreClosable DEF Core
  <2>1. u \in State
    BY <2>0, EmptySequence, ZenonT(40) DEF State
  <2>2. u.buffer = <<>> /\ u.ctl = {} /\ DOMAIN u = DOMAIN s
        /\ \A f \in DOMAIN s \ {"buffer", "ctl"} : u[f] = s[f]
    BY <2>0 DEF State
  <2>3. CoreFields \cup SendFields \cup {"interval", "timeout"} \subseteq DOMAIN s
    BY <2>0 DEF State, CoreFields, SendFields
  <2> HIDE DEF u
  <2>4. /\ u.poll = s.poll /\ u.pollWritable = s.pollWritable
        /\ u.transport = s.transport /\ u.wsWritable = s.wsWritable
        /\ u.late = s.late /\ u.out = s.out /\ u.lost = s.lost
    BY <2>2, <2>3 DEF CoreFields, SendFields
  <2>5. /\ t \in State
        /\ ~t.poll /\ ~t.pollWritable
        /\ t.late = u.late \/ t.late = LateAborts
        /\ SameBut(u, t, SendFields)
        /\ \/ t.lost = u.lost /\ t.out = u.out \o s.buffer
           \/ t.lost = TRUE
    <3>1. s.buffer \in Seq(Nat)
      BY <2>0 DEF State
    <3>2. Writable(u) /\ (u.poll <=> u.pollWritable)
          /\ (u.poll => u.transport = "polling")
      BY <1>2, <2>0, <2>4 DEF Writable, Closable
    <3> QED BY <2>1, <3>1, <3>2, TransportSendEffect
  <2> HIDE DEF t
  <2>6. /\ t.ready = s.ready /\ t.reason = s.reason /\ t.transport = s.transport
        /\ t.upgrade = s.upgrade /\ t.buffer = <<>> /\ t.ctl = {}
        /\ t.closeOnDrain = s.closeOnDrain /\ t.hung = s.hung
        /\ t.probing = s.probing /\ t.upgradeTimer = s.upgradeTimer
        /\ t.fastTimer = s.fastTimer /\ t.switching = s.switching
        /\ t.messagesSent = s.messagesSent /\ t.overtook = s.overtook
        /\ t.interval = s.interval /\ t.timeout = s.timeout
    BY <2>2, <2>3, <2>5 DEF SameBut, CoreFields, SendFields
  <2>7. InOrder(t)
    <3>1. CASE t.lost = TRUE
      BY <3>1 DEF InOrder
    <3>2. CASE t.lost = s.lost /\ t.out = s.out \o s.buffer
      <4>1. t.out \o <<>> = t.out
        BY <2>5, ConcatEmpty DEF State
      <4> QED BY <2>0, <2>6, <3>2, <4>1 DEF InOrder
    <3> QED BY <2>4, <2>5, <3>1, <3>2
  <2>8. NothingHung(t)
    BY <2>0, <2>4, <2>5, <2>6 DEF NothingHung
  <2>9. ProbeTimersOwned(t)
    BY <2>0, <2>6 DEF ProbeTimersOwned
  <2>10. Flush(s) = EmitDrain(t)
    BY <1>2 DEF Flush, t, u
  <2>11. CASE s.closeOnDrain
    <3> DEFINE v == [t EXCEPT !.closeOnDrain = FALSE]
    <3>1. v \in State
      BY <2>5 DEF State
    <3>2. CoreFields \subseteq DOMAIN t
          /\ \A f \in DOMAIN t \ {"closeOnDrain"} : v[f] = t[f]
      BY <2>5 DEF State, CoreFields
    <3> HIDE DEF v
    <3>3. /\ v.ready = t.ready /\ v.transport = t.transport /\ v.upgrade = t.upgrade
          /\ v.buffer = t.buffer /\ v.poll = t.poll /\ v.pollWritable = t.pollWritable
          /\ v.late = t.late /\ v.hung = t.hung /\ v.probing = t.probing
          /\ v.upgradeTimer = t.upgradeTimer /\ v.fastTimer = t.fastTimer
          /\ v.switching = t.switching
          /\ v.messagesSent = t.messagesSent /\ v.overtook = t.overtook
          /\ v.out = t.out /\ v.lost = t.lost
      BY <3>2 DEF CoreFields
    <3>4. Closable(v)
      <4>1. NothingHung(v) /\ InOrder(v) /\ ProbeTimersOwned(v)
        BY <2>7, <2>8, <2>9, <3>3 DEF NothingHung, InOrder, ProbeTimersOwned
      <4> QED BY <2>5, <3>1, <3>3, <4>1 DEF Closable
    <3>5. ~Closed(v) /\ Len(v.buffer) = 0
      BY <1>2, <2>6, <3>3, EmptySequence DEF Closed
    <3>6. t.closeOnDrain
      BY <2>6, <2>11
    <3>7. Flush(s) = ForcedClose(v)
      BY <2>10, <3>6 DEF EmitDrain, v
    <3> QED BY <3>4, <3>5, <3>7, ForcedCloseInv DEF Inv
  <2>12. CASE ~s.closeOnDrain
    <3>1. Flush(s) = t
      BY <2>6, <2>10, <2>12 DEF EmitDrain
    <3>2. ClosingListens(t) /\ t.ready # "closing"
      BY <1>2, <2>0, <2>6, <2>12 DEF ClosingListens, Closed
    <3>3. PollConsistent(t) /\ Graceful(t)
      BY <2>0, <2>5, <2>6, EmptySequence DEF PollConsistent, Graceful, Closed
    <3>4. ~Buffered(t)
      BY <2>6, EmptySequence DEF Buffered
    <3>5. Alive(s) => Alive(t)
      BY <1>2, <2>6 DEF Alive, Closed
    <3> QED
      BY <2>5, <2>7, <2>8, <2>9, <3>1, <3>2, <3>3, <3>4, <3>5 DEF Core, Flushed
  <2> QED BY <2>11, <2>12
<1> QED BY <1>1, <1>2

-----------------------------------------------------------------------------
(* Writing *)

\* A control packet added to the buffer of an open session disturbs nothing.
LEMMA CoreControl ==
  ASSUME NEW s, Core(s), Open(s), NEW t \in State,
         \A f \in CoreFields \ {"ctl"} : t[f] = s[f]
  PROVE  Core(t)
<1>1. /\ t.ready = s.ready /\ t.reason = s.reason /\ t.transport = s.transport
      /\ t.upgrade = s.upgrade /\ t.buffer = s.buffer
      /\ t.closeOnDrain = s.closeOnDrain /\ t.poll = s.poll
      /\ t.pollWritable = s.pollWritable /\ t.late = s.late /\ t.hung = s.hung
      /\ t.probing = s.probing /\ t.upgradeTimer = s.upgradeTimer
      /\ t.fastTimer = s.fastTimer /\ t.switching = s.switching
      /\ t.messagesSent = s.messagesSent /\ t.overtook = s.overtook
      /\ t.out = s.out /\ t.lost = s.lost
  BY DEF CoreFields
<1> QED
  BY <1>1 DEF Core, PollConsistent, PollingBound, Open, Closed, NothingHung,
              ClosingListens, InOrder, Graceful, ProbeTimersOwned

\* sendPacket with a control packet.
LEMMA SendControlInv ==
  ASSUME NEW s, Core(s), Flushed(s), NEW type \in {"open", "ping", "pong"}
  PROVE  /\ Core(SendControl(s, type)) /\ Flushed(SendControl(s, type))
         /\ Alive(s) => Alive(SendControl(s, type))
<1>1. CASE ~Open(s)
  BY <1>1 DEF SendControl
<1>2. CASE Open(s)
  <2> DEFINE u == [s EXCEPT !.ctl = @ \cup {type}]
  <2>0. s \in State
    BY DEF Core
  <2>1. u \in State
    BY <2>0, ZenonT(40) DEF State
  <2>2. \A f \in CoreFields \ {"ctl"} : u[f] = s[f]
    BY <2>0 DEF State, CoreFields
  <2>3. u.ready = s.ready /\ u.interval = s.interval /\ u.timeout = s.timeout
    BY <2>0 DEF State
  <2>4. SendControl(s, type) = Flush(u)
    BY <1>2 DEF SendControl
  <2> HIDE DEF u
  <2>5. Core(u) /\ (Alive(s) => Alive(u))
    BY <1>2, <2>1, <2>2, <2>3, CoreControl DEF Alive, Closed
  <2> QED BY <2>4, <2>5, FlushInv
<1> QED BY <1>1, <1>2

\* Where the elements of two sequences are in the one they make.
LEMMA ConcatPlaces ==
  ASSUME NEW w \in Seq(Nat), NEW b \in Seq(Nat)
  PROVE  /\ w \o b \in Seq(Nat) /\ Len(w \o b) = Len(w) + Len(b)
         /\ \A i \in 1 .. Len(w) : (w \o b)[i] = w[i]
         /\ \A i \in Len(w) + 1 .. Len(w) + Len(b) : (w \o b)[i] = b[i - Len(w)]
OBVIOUS

\* A new message put at the end of those counted, or further forward as one
\* that may precede older ones.
LEMMA InsertCount ==
  ASSUME NEW p \in Seq(Nat), NEW r \in Seq(Nat), NEW n \in Nat, NEW k \in 0 .. n,
         NEW R, NEW Q, Counts(p, n, R), R \subseteq Q, k < n => n + 1 \in Q,
         Len(r) = n + 1, r[k + 1] = n + 1,
         \A i \in 1 .. k : r[i] = p[i],
         \A i \in k + 2 .. n + 1 : r[i] = p[i - 1]
  PROVE  Counts(r, n + 1, Q)
<1>1. /\ {p[i] : i \in 1 .. n} = 1 .. n
      /\ \A i, j \in 1 .. n : i < j /\ p[j] < p[i] => p[i] \in R
  BY DEF Counts
<1>2. \A i \in 1 .. n : p[i] \in 1 .. n
  BY <1>1
<1>3. \A i \in 1 .. n + 1 : r[i] \in 1 .. n + 1
  <2> TAKE i \in 1 .. n + 1
  <2>1. i \in 1 .. k \/ i = k + 1 \/ (i \in k + 2 .. n + 1 /\ i - 1 \in 1 .. n)
    OBVIOUS
  <2>2. 1 .. k \subseteq 1 .. n /\ 1 .. n \subseteq 1 .. n + 1 /\ n + 1 \in 1 .. n + 1
    OBVIOUS
  <2> QED BY <1>2, <2>1, <2>2
<1>4. \A m \in 1 .. n + 1 : \E i \in 1 .. n + 1 : r[i] = m
  <2> TAKE m \in 1 .. n + 1
  <2>1. CASE m = n + 1
    <3>1. k + 1 \in 1 .. n + 1
      OBVIOUS
    <3> QED BY <2>1, <3>1
  <2>2. CASE m # n + 1
    <3>1. m \in 1 .. n
      BY <2>2
    <3>5. m \in {p[i] : i \in 1 .. n}
      BY <1>1, <3>1, Zenon
    <3>2. PICK i \in 1 .. n : p[i] = m
      BY <3>5
    <3>3. CASE i <= k
      <4>1. i \in 1 .. k /\ i \in 1 .. n + 1
        BY <3>3
      <4> QED BY <3>2, <4>1
    <3>4. CASE ~(i <= k)
      <4>1. i + 1 \in k + 2 .. n + 1 /\ i + 1 \in 1 .. n + 1 /\ (i + 1) - 1 = i
        BY <3>4
      <4>2. r[i + 1] = m
        BY <3>2, <4>1
      <4> QED BY <4>1, <4>2
    <3> QED BY <3>3, <3>4
  <2> QED BY <2>1, <2>2
<1>5. ASSUME NEW i \in 1 .. n + 1, NEW j \in 1 .. n + 1, i < j, r[j] < r[i]
      PROVE  r[i] \in Q
  <2>1. CASE i = k + 1
    <3>1. k < n
      BY <1>5, <2>1
    <3> QED BY <2>1, <3>1
  <2>2. CASE i # k + 1
    <3> DEFINE x == IF i <= k THEN i ELSE i - 1
               y == IF j <= k THEN j ELSE j - 1
    <3>1. x \in 1 .. n /\ r[i] = p[x]
      <4>1. CASE i <= k
        BY <4>1
      <4>2. CASE ~(i <= k)
        <5>1. i \in k + 2 .. n + 1 /\ i - 1 \in 1 .. n
          BY <2>2, <4>2
        <5> QED BY <4>2, <5>1
      <4> QED BY <4>1, <4>2
    <3>2. r[i] \in 1 .. n
      BY <1>2, <3>1
    <3>3. j # k + 1
      BY <1>5, <3>2, SMTT(30)
    <3>4. y \in 1 .. n /\ r[j] = p[y]
      <4>1. CASE j <= k
        BY <4>1
      <4>2. CASE ~(j <= k)
        <5>1. j \in k + 2 .. n + 1 /\ j - 1 \in 1 .. n
          BY <3>3, <4>2
        <5> QED BY <4>2, <5>1
      <4> QED BY <4>1, <4>2
    <3>5. x < y
      BY <1>5, <2>2, <3>3
    <3> HIDE DEF x, y
    <3>6. p[y] < p[x]
      BY <1>5, <3>1, <3>4
    <3> QED BY <1>1, <3>1, <3>4, <3>5, <3>6
  <2> QED BY <2>1, <2>2
<1>6. {r[i] : i \in 1 .. n + 1} = 1 .. n + 1
  BY <1>3, <1>4
<1> QED BY <1>5, <1>6 DEF Counts

\* Appending to the second of two sequences.
LEMMA ConcatAppend ==
  ASSUME NEW o \in Seq(Nat), NEW b \in Seq(Nat), NEW x \in Nat
  PROVE  o \o Append(b, x) = Append(o \o b, x)
OBVIOUS

\* One more message at the end of the buffer is the next one in order.
LEMMA AppendNext ==
  ASSUME NEW o \in Seq(Nat), NEW b \in Seq(Nat), NEW n \in Nat, NEW R,
         Counts(o \o b, n, R)
  PROVE  Counts(o \o Append(b, n + 1), n + 1, R)
<1> DEFINE p == o \o b
           r == Append(p, n + 1)
<1>1. p \in Seq(Nat) /\ n + 1 \in Nat
  BY ConcatType
<1>2. o \o Append(b, n + 1) = r
  BY <1>1, ConcatAppend
<1>3. Counts(p, n, R)
  OBVIOUS
<1> HIDE DEF p
<1>4. Len(p) = n
  BY <1>3 DEF Counts
<1>5. /\ r \in Seq(Nat) /\ Len(r) = n + 1 /\ r[n + 1] = n + 1
      /\ \A i \in 1 .. n : r[i] = p[i]
  BY <1>1, <1>4
<1>6. n \in 0 .. n /\ ~(n < n) /\ \A i \in n + 2 .. n + 1 : r[i] = p[i - 1]
  OBVIOUS
<1> HIDE DEF r
<1>7. Counts(r, n + 1, R)
  BY <1>1, <1>3, <1>5, <1>6, InsertCount
<1> QED BY <1>2, <1>7

\* A message put on the wire precedes those of the buffer.
LEMMA OvertakeNext ==
  ASSUME NEW o \in Seq(Nat), NEW b \in Seq(Nat), NEW n \in Nat, NEW R, NEW Q,
         Counts(o \o b, n, R), R \subseteq Q, Len(b) > 0 => n + 1 \in Q
  PROVE  Counts((o \o <<n + 1>>) \o b, n + 1, Q)
<1> DEFINE p == o \o b
           k == Len(o)
           w == o \o <<n + 1>>
           r == w \o b
<1>1. Counts(p, n, R) /\ p \in Seq(Nat)
  BY ConcatType
<1>2. k \in Nat /\ Len(b) \in Nat /\ k + Len(b) = n
  BY <1>1 DEF Counts
<1>3. /\ w \in Seq(Nat) /\ Len(w) = k + 1 /\ w[k + 1] = n + 1
      /\ \A i \in 1 .. k : w[i] = o[i]
  OBVIOUS
<1>4. /\ \A i \in 1 .. k : p[i] = o[i]
      /\ \A i \in k + 1 .. n : p[i] = b[i - k]
  BY <1>2
<1> HIDE DEF p, w, k
<1>5. /\ r \in Seq(Nat) /\ Len(r) = n + 1
      /\ \A i \in 1 .. k + 1 : r[i] = w[i]
      /\ \A i \in k + 2 .. n + 1 : r[i] = b[i - (k + 1)]
  <2>1. /\ r \in Seq(Nat) /\ Len(r) = Len(w) + Len(b)
        /\ \A i \in 1 .. Len(w) : r[i] = w[i]
        /\ \A i \in Len(w) + 1 .. Len(w) + Len(b) : r[i] = b[i - Len(w)]
    BY <1>3, ConcatPlaces
  <2> HIDE DEF r
  <2>2. Len(w) + Len(b) = n + 1 /\ Len(w) = k + 1 /\ Len(w) + 1 = k + 2
    BY <1>2, <1>3
  <2> QED BY <2>1, <2>2
<1> HIDE DEF r
<1>6. k \in 0 .. n /\ (k < n => n + 1 \in Q)
  BY <1>2
<1>7. r[k + 1] = n + 1 /\ \A i \in 1 .. k : r[i] = p[i]
  BY <1>2, <1>3, <1>4, <1>5
<1>8. \A i \in k + 2 .. n + 1 : r[i] = p[i - 1]
  <2> TAKE i \in k + 2 .. n + 1
  <2>1. i - 1 \in k + 1 .. n /\ (i - 1) - k = i - (k + 1)
    BY <1>2
  <2> QED BY <1>4, <1>5, <2>1
<1>9. Counts(r, n + 1, Q)
  BY <1>1, <1>5, <1>6, <1>7, <1>8, InsertCount
<1> QED BY <1>9 DEF r, w

\* The record a buffered message leaves is a session's.
LEMMA MessageBufferedType ==
  ASSUME NEW s \in State, NEW n \in Nat, NEW b \in Seq(Nat)
  PROVE  [s EXCEPT !.messagesSent = n, !.buffer = b] \in State
BY DEF State

\* A message that joins the buffer is the next in order.
LEMMA BufferedMessage ==
  ASSUME NEW s, Inv(s), Open(s)
  PROVE  LET b == Append(s.buffer, s.messagesSent + 1)
             u == [s EXCEPT !.messagesSent = @ + 1, !.buffer = b]
         IN /\ Core(u) /\ Alive(u)
            /\ u.buffer = b /\ u.messagesSent = s.messagesSent + 1
            /\ SameBut(s, u, {"buffer", "messagesSent"})
<1> DEFINE b == Append(s.buffer, s.messagesSent + 1)
           u == [s EXCEPT !.messagesSent = @ + 1, !.buffer = b]
<1>0. Core(s) /\ s \in State
  BY DEF Inv, Core
<1>1. b \in Seq(Nat)
  BY <1>0 DEF State
<1>2. ~s.lost => Counts(s.out \o b, s.messagesSent + 1, s.overtook)
  <2>1. s.out \in Seq(Nat) /\ s.buffer \in Seq(Nat) /\ s.messagesSent \in Nat
    BY <1>0 DEF State
  <2>2. ~s.lost => Counts(s.out \o s.buffer, s.messagesSent, s.overtook)
    BY <1>0 DEF Core, InOrder
  <2> QED BY <2>1, <2>2, AppendNext
<1> HIDE DEF b
<1>3. u \in State
  <2>1. s.messagesSent + 1 \in Nat
    BY <1>0 DEF State
  <2> QED BY <1>0, <1>1, <2>1, MessageBufferedType
<1>4. /\ u.buffer = b /\ u.messagesSent = s.messagesSent + 1
      /\ u.interval = s.interval /\ u.timeout = s.timeout
      /\ \A f \in CoreFields \ {"buffer", "messagesSent"} : u[f] = s[f]
  BY <1>0, <1>1 DEF State, CoreFields
<1>5. SameBut(s, u, {"buffer", "messagesSent"})
  BY <1>0 DEF SameBut, State
<1> HIDE DEF u
<1>6. /\ u.ready = s.ready /\ u.reason = s.reason /\ u.transport = s.transport
      /\ u.upgrade = s.upgrade /\ u.closeOnDrain = s.closeOnDrain
      /\ u.poll = s.poll /\ u.pollWritable = s.pollWritable /\ u.late = s.late
      /\ u.hung = s.hung /\ u.probing = s.probing
      /\ u.upgradeTimer = s.upgradeTimer /\ u.fastTimer = s.fastTimer
      /\ u.switching = s.switching
      /\ u.out = s.out /\ u.overtook = s.overtook /\ u.lost = s.lost
  BY <1>4 DEF CoreFields
<1>7. PollConsistent(u) /\ NothingHung(u) /\ ClosingListens(u) /\ ProbeTimersOwned(u)
  BY <1>0, <1>6 DEF Core, PollConsistent, PollingBound, Closed, NothingHung,
                    ClosingListens, ProbeTimersOwned
<1>8. InOrder(u)
  BY <1>2, <1>4, <1>6 DEF InOrder
<1>9. Graceful(u) /\ u.ready # "closing"
  BY <1>0, <1>6 DEF Core, Graceful, Open, Closed
<1>10. Core(u) /\ Alive(u)
  BY <1>3, <1>4, <1>6, <1>7, <1>8, <1>9 DEF Core, Inv, Alive, Closed
<1> QED BY <1>4, <1>5, <1>10 DEF u, b

\* sendPacket with a message.
LEMMA SendMessageInv ==
  ASSUME NEW s, Inv(s)
  PROVE  Inv(SendMessage(s))
<1>1. CASE ~Open(s)
  BY <1>1 DEF SendMessage
<1>2. CASE Open(s)
  BY <1>2, BufferedMessage, FlushInv DEF SendMessage, Inv
<1> QED BY <1>1, <1>2

\* A message written straight to the WebSocket: it is the next on the wire, or
\* it is lost; a broadcast that goes past the buffer is known as such.
LEMMA WsMessageInv ==
  ASSUME NEW s, Inv(s), s.transport = "websocket", ~Closed(s),
         NEW u \in State, SameBut(s, u, {"messagesSent", "overtook"}),
         DOMAIN u = DOMAIN s,
         u.messagesSent = s.messagesSent + 1, s.overtook \subseteq u.overtook,
         Len(s.buffer) > 0 => s.messagesSent + 1 \in u.overtook
  PROVE  LET t == WsSend(u, <<s.messagesSent + 1>>) IN
         Inv(t) /\ (t.overtook # s.overtook => u.overtook # s.overtook)
<1> DEFINE n == s.messagesSent + 1
           m == <<n>>
           t == WsSend(u, m)
<1>0. /\ s \in State /\ Core(s) /\ s.messagesSent \in Nat
      /\ s.buffer \in Seq(Nat) /\ s.out \in Seq(Nat)
  BY DEF Inv, Core, State
<1>1. n \in Nat /\ m \in Seq(Nat) /\ Len(m) = 1
  BY <1>0
<1> HIDE DEF m
<1>5. /\ t \in State
      /\ SameBut(u, t, {"sends", "wsWritable", "out", "lost"})
      /\ t.wsWritable => u.wsWritable
      /\ \/ t.lost = u.lost /\ t.out = u.out \o m /\ WsReady(u)
         \/ t.lost = u.lost /\ t.out = u.out /\ Len(m) = 0
         \/ t.lost = TRUE
  BY <1>1, WsSendEffect
<1> HIDE DEF t
<1>6. CoreFields \cup {"interval", "timeout", "wsWritable"} \subseteq DOMAIN s
  BY <1>0 DEF State, CoreFields
<1>7. /\ t.ready = s.ready /\ t.reason = s.reason /\ t.transport = s.transport
      /\ t.upgrade = s.upgrade /\ t.buffer = s.buffer /\ t.ctl = s.ctl
      /\ t.closeOnDrain = s.closeOnDrain /\ t.poll = s.poll
      /\ t.pollWritable = s.pollWritable /\ t.late = s.late /\ t.hung = s.hung
      /\ t.probing = s.probing /\ t.upgradeTimer = s.upgradeTimer
      /\ t.fastTimer = s.fastTimer /\ t.switching = s.switching
      /\ t.messagesSent = u.messagesSent /\ t.overtook = u.overtook
      /\ t.interval = s.interval /\ t.timeout = s.timeout
      /\ u.out = s.out /\ u.lost = s.lost /\ u.wsWritable = s.wsWritable
  BY <1>5, <1>6 DEF SameBut, CoreFields
<1>8. InOrder(t)
  <2>1. CASE t.lost = TRUE
    BY <2>1 DEF InOrder
  <2>2. CASE t.lost = u.lost /\ t.out = u.out \o m /\ WsReady(u)
    <3>1. ~s.lost => Counts(s.out \o s.buffer, s.messagesSent, s.overtook)
      BY <1>0 DEF Core, InOrder
    <3>2. ~s.lost => Counts((s.out \o m) \o s.buffer, n, u.overtook)
      BY <1>0, <3>1, OvertakeNext DEF m
    <3> QED BY <1>7, <2>2, <3>2 DEF InOrder
  <2>3. Len(m) # 0
    BY <1>1
  <2> QED BY <1>5, <2>1, <2>2, <2>3
<1>9. PollConsistent(t) /\ NothingHung(t) /\ ClosingListens(t) /\ ProbeTimersOwned(t)
  BY <1>0, <1>7 DEF Core, PollConsistent, PollingBound, Closed, NothingHung,
                    ClosingListens, ProbeTimersOwned
<1>10. Graceful(t) /\ (t.ready = "closing" => Buffered(t))
  BY <1>0, <1>5, <1>7 DEF Core, Graceful, Closed, Buffered
<1>11. Alive(t)
  BY <1>7 DEF Inv, Alive, Closed
<1>12. Flushed(t)
  BY <1>5, <1>7 DEF Inv, Flushed, Closed, Writable, Buffered
<1>13. Inv(t)
  BY <1>5, <1>8, <1>9, <1>10, <1>11, <1>12 DEF Inv, Core
<1> QED BY <1>7, <1>13 DEF t, m

\* The records that a message, and a broadcast, leave before they are sent.
LEMMA Counted ==
  ASSUME NEW s \in State
  PROVE  LET n == s.messagesSent + 1
             F == {"messagesSent", "overtook"}
             u == [s EXCEPT !.messagesSent = @ + 1]
             R == IF Len(s.buffer) > 0 THEN s.overtook \cup {n} ELSE s.overtook
             v == [s EXCEPT !.messagesSent = @ + 1, !.overtook = R]
         IN /\ u \in State /\ SameBut(s, u, F) /\ DOMAIN u = DOMAIN s
            /\ u.messagesSent = n /\ u.overtook = s.overtook
            /\ v \in State /\ SameBut(s, v, F) /\ DOMAIN v = DOMAIN s
            /\ v.messagesSent = n /\ v.overtook = R
<1> DEFINE n == s.messagesSent + 1
           F == {"messagesSent", "overtook"}
           u == [s EXCEPT !.messagesSent = @ + 1]
           R == IF Len(s.buffer) > 0 THEN s.overtook \cup {n} ELSE s.overtook
           v == [s EXCEPT !.messagesSent = @ + 1, !.overtook = R]
<1>1. n \in Nat /\ R \subseteq Nat
  BY DEF State
<1>2. u = [s EXCEPT !.messagesSent = n]
      /\ v = [s EXCEPT !.messagesSent = n, !.overtook = R]
  OBVIOUS
<1> HIDE DEF n, R, u, v
<1>3. u \in State /\ v \in State
  BY <1>1, <1>2, ZenonT(40) DEF State
<1>4. /\ DOMAIN u = DOMAIN s /\ DOMAIN v = DOMAIN s
      /\ u.messagesSent = n /\ u.overtook = s.overtook
      /\ v.messagesSent = n /\ v.overtook = R
  BY <1>2 DEF State
<1>5. \A f \in DOMAIN s \ F : u[f] = s[f] /\ v[f] = s[f]
  BY <1>2 DEF State
<1> QED BY <1>3, <1>4, <1>5 DEF SameBut, n, R, u, v

\* Socket.write, by either path.
LEMMA WriteInv ==
  ASSUME NEW s, Inv(s)
  PROVE  Inv(Write(s))
<1> DEFINE fast == Open(s) /\ s.transport = "websocket" /\ ~s.createListener
                     /\ WsReady(s) /\ ~Buffered(s)
<1>1. CASE fast
  <2>1. Write(s) = WsSend([s EXCEPT !.messagesSent = @ + 1], <<s.messagesSent + 1>>)
    BY <1>1 DEF Write
  <2>2. ~Closed(s)
    BY <1>1 DEF Open, Closed
  <2>3. s \in State /\ s.buffer \in Seq(Nat) /\ ~(Len(s.buffer) > 0)
    BY <1>1 DEF Inv, Core, State, Buffered
  <2>4. LET u == [s EXCEPT !.messagesSent = @ + 1]
        IN Inv(WsSend(u, <<s.messagesSent + 1>>))
    BY <1>1, <2>2, <2>3, Counted, WsMessageInv
  <2> QED BY <2>1, <2>4
<1>2. CASE ~fast
  <2>1. Write(s) = SendMessage(s)
    BY <1>2 DEF Write
  <2> QED BY <2>1, SendMessageInv
<1> QED BY <1>1, <1>2

\* One client's part of Server.broadcast.
LEMMA BroadcastInv ==
  ASSUME NEW s, Inv(s), ~Closed(s)
  PROVE  Inv(Broadcast(s))
<1>1. CASE s.transport = "websocket"
  <2> DEFINE n == s.messagesSent + 1
             R == IF Len(s.buffer) > 0 THEN s.overtook \cup {n} ELSE s.overtook
             v == [s EXCEPT !.messagesSent = @ + 1, !.overtook = R]
  <2>1. s \in State
    BY DEF Inv, Core
  <2>2. /\ v \in State /\ SameBut(s, v, {"messagesSent", "overtook"})
        /\ DOMAIN v = DOMAIN s
        /\ v.messagesSent = n /\ v.overtook = R
    BY <2>1, Counted
  <2>3. s.overtook \subseteq R /\ (Len(s.buffer) > 0 => n \in R)
    OBVIOUS
  <2>4. Broadcast(s) = WsSend(v, <<n>>)
    BY <1>1 DEF Broadcast
  <2> HIDE DEF v, R
  <2> QED BY <1>1, <2>2, <2>3, <2>4, WsMessageInv
<1>2. CASE s.transport # "websocket"
  BY <1>2, WriteInv DEF Broadcast
<1> QED BY <1>1, <1>2

\* A packet that is not a message, written straight to the WebSocket.
LEMMA WsControlInv ==
  ASSUME NEW s, Core(s), Flushed(s)
  PROVE  LET t == WsSend(s, <<>>) IN
         /\ Core(t) /\ Flushed(t) /\ (Alive(s) => Alive(t))
         /\ SameBut(s, t, {"sends", "wsWritable", "out", "lost"})
<1> DEFINE t == WsSend(s, <<>>)
<1>0. s \in State /\ s.out \in Seq(Nat) /\ s.out \o <<>> = s.out
  BY ConcatEmpty DEF Core, State
<1>1. /\ t \in State
      /\ SameBut(s, t, {"sends", "wsWritable", "out", "lost"})
      /\ t.wsWritable => s.wsWritable
      /\ \/ t.lost = s.lost /\ t.out = s.out
         \/ t.lost = TRUE
  BY <1>0, EmptySequence, WsSendEffect
<1> HIDE DEF t
<1>2. CoreFields \cup {"interval", "timeout"} \subseteq DOMAIN s
  BY <1>0 DEF State, CoreFields
<1>3. /\ t.ready = s.ready /\ t.reason = s.reason /\ t.transport = s.transport
      /\ t.upgrade = s.upgrade /\ t.buffer = s.buffer /\ t.ctl = s.ctl
      /\ t.closeOnDrain = s.closeOnDrain /\ t.poll = s.poll
      /\ t.pollWritable = s.pollWritable /\ t.late = s.late /\ t.hung = s.hung
      /\ t.probing = s.probing /\ t.upgradeTimer = s.upgradeTimer
      /\ t.fastTimer = s.fastTimer /\ t.switching = s.switching
      /\ t.messagesSent = s.messagesSent /\ t.overtook = s.overtook
      /\ t.interval = s.interval /\ t.timeout = s.timeout
  BY <1>1, <1>2 DEF SameBut, CoreFields
<1>4. PollConsistent(t) /\ NothingHung(t) /\ ClosingListens(t) /\ ProbeTimersOwned(t)
  BY <1>3 DEF Core, PollConsistent, PollingBound, Closed, NothingHung,
              ClosingListens, ProbeTimersOwned
<1>5. /\ Graceful(t) /\ (t.ready = "closing" => Buffered(t)) /\ InOrder(t)
  BY <1>1, <1>3 DEF Core, Graceful, Closed, Buffered, InOrder
<1>6. Flushed(t) /\ (Alive(s) => Alive(t))
  BY <1>1, <1>3 DEF Flushed, Alive, Closed, Writable, Buffered
<1> QED BY <1>1, <1>4, <1>5, <1>6 DEF Core, t

-----------------------------------------------------------------------------
(* Heartbeat *)

\* A ping or a pong, by the fast path or through the buffer.
LEMMA SendRawOrPacketInv ==
  ASSUME NEW s, Core(s), Flushed(s), NEW type \in {"open", "ping", "pong"}
  PROVE  LET t == SendRawOrPacket(s, type) IN
         Core(t) /\ Flushed(t) /\ (Alive(s) => Alive(t))
BY WsControlInv, SendControlInv DEF SendRawOrPacket

\* Only the timers of the heartbeat change: Core and Flushed do not see them.
LEMMA TimersFrame ==
  ASSUME NEW s, Core(s), Flushed(s), NEW t \in State,
         \A f \in DOMAIN s \ {"interval", "timeout", "strays"} : t[f] = s[f]
  PROVE  Core(t) /\ Flushed(t) /\ t.ready = s.ready
<1>1. CoreFields \cup {"wsWritable"} \subseteq DOMAIN s
  BY DEF Core, State, CoreFields
<1>2. \A f \in CoreFields \cup {"wsWritable"} : t[f] = s[f]
  BY <1>1 DEF CoreFields
<1>3. Core(t)
  BY <1>2, CoreFrame
<1>4. /\ t.ready = s.ready /\ t.transport = s.transport
      /\ t.pollWritable = s.pollWritable /\ t.wsWritable = s.wsWritable
      /\ t.buffer = s.buffer /\ t.ctl = s.ctl /\ t.switching = s.switching
  BY <1>2 DEF CoreFields
<1> QED BY <1>3, <1>4 DEF Flushed, Closed, Writable, Buffered

\* The callback of an interval timer: the ping timeout is armed whatever
\* became of the ping.
LEMMA SendPingInv ==
  ASSUME NEW s, Core(s), Flushed(s)
  PROVE  Inv(SendPing(s))
<1> DEFINE u == SendRawOrPacket(s, "ping")
           t == [u EXCEPT !.timeout = "armed"]
<1>1. Core(u) /\ Flushed(u)
  BY SendRawOrPacketInv
<1>2. SendPing(s) = t
  BY DEF SendPing
<1> HIDE DEF u
<1>3. t \in State
  BY <1>1 DEF Core, State
<1>4. t.timeout = "armed"
      /\ \A f \in DOMAIN u \ {"interval", "timeout", "strays"} : t[f] = u[f]
  BY <1>1 DEF Core, State
<1> HIDE DEF t
<1> QED BY <1>1, <1>2, <1>3, <1>4, TimersFrame DEF Inv, Alive

\* The interval timer, and one whose handle was lost.
LEMMA PingTimersInv ==
  ASSUME NEW s, Inv(s)
  PROVE  /\ Inv(PingIntervalFired(s))
         /\ s.strays > 0 => Inv(StrayPingFired(s))
<1>0. Core(s) /\ Flushed(s) /\ s \in State
  BY DEF Inv, Core
<1>1. Inv(PingIntervalFired(s))
  <2> DEFINE t == [s EXCEPT !.interval = "idle"]
  <2>1. t \in State
    BY <1>0 DEF State
  <2>2. \A f \in DOMAIN s \ {"interval", "timeout", "strays"} : t[f] = s[f]
    BY <1>0 DEF State
  <2> HIDE DEF t
  <2>3. Core(t) /\ Flushed(t)
    BY <1>0, <2>1, <2>2, TimersFrame
  <2> QED BY <2>3, SendPingInv DEF PingIntervalFired, t
<1>2. ASSUME s.strays > 0 PROVE Inv(StrayPingFired(s))
  <2> DEFINE n == s.strays - 1
             t == [s EXCEPT !.strays = n]
  <2>1. n \in Nat
    BY <1>0, <1>2 DEF State
  <2> HIDE DEF n
  <2>2. t \in State
    BY <1>0, <2>1 DEF State
  <2>3. \A f \in DOMAIN s \ {"interval", "timeout", "strays"} : t[f] = s[f]
    BY <1>0 DEF State
  <2> HIDE DEF t
  <2>4. Core(t) /\ Flushed(t)
    BY <1>0, <2>2, <2>3, TimersFrame
  <2> QED BY <2>4, SendPingInv DEF StrayPingFired, t, n
<1> QED BY <1>1, <1>2

\* A pong disarms the ping timeout and re-arms the interval timer.
LEMMA OnPongInv ==
  ASSUME NEW s, Inv(s)
  PROVE  Inv(OnPong(s))
<1>0. Core(s) /\ Flushed(s) /\ s \in State
  BY DEF Inv, Core
<1> DEFINE u == [s EXCEPT !.timeout = IF @ = "none" THEN @ ELSE "idle"]
           n == IF u.interval = "armed" THEN u.strays + 1 ELSE u.strays
           v == [u EXCEPT !.interval = "armed"]
           w == [u EXCEPT !.interval = "armed", !.strays = n]
<1>1. u \in State
  BY <1>0, ZenonT(40) DEF State
<1>2. DOMAIN u = DOMAIN s
      /\ \A f \in DOMAIN s \ {"interval", "timeout", "strays"} : u[f] = s[f]
  BY <1>0 DEF State
<1> HIDE DEF u
<1>3. n \in Nat
  BY <1>1 DEF State
<1>4. OnPong(s) = v \/ OnPong(s) = w
  BY DEF OnPong, SchedulePing, u
<1> HIDE DEF n
<1>5. v \in State /\ w \in State
  BY <1>1, <1>3 DEF State
<1>6. /\ v.interval = "armed" /\ w.interval = "armed"
      /\ \A f \in DOMAIN u \ {"interval", "timeout", "strays"} :
           v[f] = u[f] /\ w[f] = u[f]
  BY <1>1, <1>3 DEF State
<1> HIDE DEF v, w
<1>7. Core(v) /\ Flushed(v) /\ Core(w) /\ Flushed(w)
  BY <1>0, <1>2, <1>5, <1>6, TimersFrame
<1> QED BY <1>4, <1>6, <1>7 DEF Inv, Alive

\* The ping timeout ends the session.
LEMMA PingTimeoutInv ==
  ASSUME NEW s, Inv(s)
  PROVE  Inv(PingTimeoutFired(s))
<1> DEFINE t == [s EXCEPT !.timeout = "idle"]
<1>0. Core(s) /\ Flushed(s) /\ s \in State
  BY DEF Inv, Core
<1>1. t \in State /\ \A f \in DOMAIN s \ {"interval", "timeout", "strays"} : t[f] = s[f]
  BY <1>0 DEF State
<1>2. PingTimeoutFired(s) = OnClose(t, "ping timeout")
  BY DEF PingTimeoutFired
<1> HIDE DEF t
<1>3. Core(t) /\ Flushed(t)
  BY <1>0, <1>1, TimersFrame
<1>4. Closed(t) => Inv(t)
  BY <1>3 DEF Inv, Alive
<1>5. "ping timeout" \in CloseReason \ {"forced close"}
  BY DEF CloseReason
<1> QED BY <1>2, <1>3, <1>4, <1>5, OnCloseInv

\* Socket.onPacket, for every packet of a peer.
LEMMA OnPacketInv ==
  ASSUME NEW s, Inv(s), NEW type \in PacketType
  PROVE  Inv(OnPacket(s, type))
<1>0. Core(s) /\ Flushed(s) /\ Alive(s)
  BY DEF Inv
<1>1. CASE ~Open(s)
  BY <1>1 DEF OnPacket
<1>2. CASE Open(s) /\ type = "pong"
  BY <1>2, OnPongInv DEF OnPacket
<1>3. CASE Open(s) /\ type = "ping"
  BY <1>0, <1>3, SendRawOrPacketInv DEF OnPacket, Inv
<1>4. CASE Open(s) /\ type = "message"
  BY <1>4 DEF OnPacket
<1>5. CASE Open(s) /\ type = "error"
  <2>1. OnPacket(s, type) = OnClose(s, "parse error")
    BY <1>5 DEF OnPacket
  <2>2. "parse error" \in CloseReason \ {"forced close"}
    BY DEF CloseReason
  <2> QED BY <1>0, <2>1, <2>2, OnCloseInv
<1> QED BY <1>1, <1>2, <1>3, <1>4, <1>5 DEF PacketType

-----------------------------------------------------------------------------
(* Requests and the WebSocket *)

\* The fields of the probe, the connection and the request in progress.
PeripheralFields ==
  {"conn", "wsWritable", "sends", "full", "probing", "upgradeTimer", "fastTimer",
   "fastLeaked", "upgrade", "createListener", "posting"}

\* Changing them keeps the invariant, provided the probe's timers stay owned
\* and the session's own WebSocket does not resume without a flush.
LEMMA PeripheralFrame ==
  ASSUME NEW s, Inv(s), NEW t \in State, SameBut(s, t, PeripheralFields),
         ProbeTimersOwned(t), WsBound(s) /\ t.wsWritable => s.wsWritable
  PROVE  Inv(t)
<1>1. CoreFields \cup {"interval", "timeout"} \subseteq DOMAIN s /\ Core(s)
      /\ s.transport \in {"polling", "websocket"}
  BY DEF Inv, Core, State, CoreFields
<1>2. /\ t.ready = s.ready /\ t.reason = s.reason /\ t.transport = s.transport
      /\ t.buffer = s.buffer /\ t.ctl = s.ctl
      /\ t.closeOnDrain = s.closeOnDrain /\ t.poll = s.poll
      /\ t.pollWritable = s.pollWritable /\ t.late = s.late /\ t.hung = s.hung
      /\ t.messagesSent = s.messagesSent /\ t.overtook = s.overtook
      /\ t.out = s.out /\ t.lost = s.lost /\ t.switching = s.switching
      /\ t.interval = s.interval /\ t.timeout = s.timeout
  BY <1>1 DEF SameBut, CoreFields, PeripheralFields
<1>3. Core(t)
  BY <1>1, <1>2 DEF Core, PollConsistent, PollingBound, Closed, NothingHung,
                    ClosingListens, Buffered, InOrder, Graceful
<1>4. Alive(t) /\ Flushed(t)
  BY <1>1, <1>2 DEF Inv, Alive, Flushed, Closed, Buffered, Writable, WsBound
<1> QED BY <1>3, <1>4 DEF Inv

\* Taking the poll away keeps the invariant.
LEMMA NoPollFrame ==
  ASSUME NEW s, Inv(s), NEW t \in State,
         SameBut(s, t, {"poll", "pollWritable", "late", "hung"}),
         ~t.poll, ~t.pollWritable, NothingHung(t)
  PROVE  Inv(t)
<1>1. CoreFields \cup {"interval", "timeout", "wsWritable"} \subseteq DOMAIN s
      /\ Core(s)
  BY DEF Inv, Core, State, CoreFields
<1>2. /\ t.ready = s.ready /\ t.reason = s.reason /\ t.transport = s.transport
      /\ t.upgrade = s.upgrade /\ t.buffer = s.buffer /\ t.ctl = s.ctl
      /\ t.closeOnDrain = s.closeOnDrain /\ t.wsWritable = s.wsWritable
      /\ t.probing = s.probing /\ t.upgradeTimer = s.upgradeTimer
      /\ t.fastTimer = s.fastTimer /\ t.switching = s.switching
      /\ t.messagesSent = s.messagesSent /\ t.overtook = s.overtook /\ t.out = s.out
      /\ t.lost = s.lost
      /\ t.interval = s.interval /\ t.timeout = s.timeout
  BY <1>1 DEF SameBut, CoreFields
<1>3. Core(t)
  BY <1>1, <1>2 DEF Core, PollConsistent, Closed, ClosingListens, Buffered,
                    InOrder, Graceful, ProbeTimersOwned
<1>4. Alive(t) /\ Flushed(t)
  BY <1>2 DEF Inv, Alive, Flushed, Closed, Buffered, Writable
<1> QED BY <1>3, <1>4 DEF Inv

\* The polling transport's close and the noop of the upgrade answer the poll.
LEMMA AnsweredInv ==
  ASSUME NEW s, Inv(s)
  PROVE  /\ Inv(PollingDoClose(s)) /\ Inv(SendNoop(s))
         /\ SameBut(s, SendNoop(s), {"poll", "pollWritable", "late"})
<1>0. /\ s \in State /\ NothingHung(s) /\ (s.poll <=> s.pollWritable)
      /\ "hung" \in DOMAIN s
  BY DEF Inv, Core, PollConsistent, State
<1>1. ASSUME NEW t \in State, SameBut(s, t, {"poll", "pollWritable", "late"}),
             ~t.poll, ~t.pollWritable, t.late = s.late \/ t.late = LateAborts
      PROVE  Inv(t)
  <2>1. t.hung = s.hung
    BY <1>0, <1>1 DEF SameBut
  <2>2. NothingHung(t)
    BY <1>0, <1>1, <2>1 DEF NothingHung
  <2>3. SameBut(s, t, {"poll", "pollWritable", "late", "hung"})
    BY <1>1 DEF SameBut
  <2> QED BY <1>1, <2>2, <2>3, NoPollFrame
<1>2. Inv(PollingDoClose(s))
  BY <1>0, <1>1, PollingDoCloseEffect
<1>3. Inv(SendNoop(s)) /\ SameBut(s, SendNoop(s), {"poll", "pollWritable", "late"})
  <2>1. CASE s.transport = "polling" /\ s.pollWritable
    BY <1>0, <1>1, <2>1, PollingSendNothing DEF SendNoop
  <2>2. CASE ~(s.transport = "polling" /\ s.pollWritable)
    BY <2>2 DEF SendNoop, SameBut
  <2> QED BY <2>1, <2>2
<1> QED BY <1>2, <1>3

\* An error of the polling transport ends the session it is bound to.
LEMMA PollingErrorInv ==
  ASSUME NEW s, Inv(s)
  PROVE  Inv(PollingError(s))
<1>1. "transport error" \in CloseReason \ {"forced close"}
  BY DEF CloseReason
<1> QED BY <1>1, OnCloseInv DEF PollingError, Inv

\* A poll that is pending on a live polling session.
LEMMA PollRequested ==
  ASSUME NEW s, Inv(s), PollingBound(s)
  PROVE  LET u == [s EXCEPT !.poll = TRUE, !.pollWritable = TRUE] IN
         Core(u) /\ Alive(u) /\ SameBut(s, u, {"poll", "pollWritable"})
<1> DEFINE u == [s EXCEPT !.poll = TRUE, !.pollWritable = TRUE]
<1>0. s \in State /\ Core(s)
  BY DEF Inv, Core
<1>1. u \in State
  BY <1>0 DEF State
<1>2. /\ u.poll /\ u.pollWritable
      /\ \A f \in (CoreFields \cup {"interval", "timeout"}) \ {"poll", "pollWritable"} :
           u[f] = s[f]
  BY <1>0 DEF State, CoreFields
<1>3. SameBut(s, u, {"poll", "pollWritable"})
  BY <1>0 DEF SameBut, State
<1> HIDE DEF u
<1>4. /\ u.ready = s.ready /\ u.reason = s.reason /\ u.transport = s.transport
      /\ u.upgrade = s.upgrade /\ u.buffer = s.buffer /\ u.ctl = s.ctl
      /\ u.closeOnDrain = s.closeOnDrain /\ u.late = s.late /\ u.hung = s.hung
      /\ u.probing = s.probing /\ u.upgradeTimer = s.upgradeTimer
      /\ u.fastTimer = s.fastTimer /\ u.switching = s.switching
      /\ u.messagesSent = s.messagesSent /\ u.overtook = s.overtook
      /\ u.out = s.out /\ u.lost = s.lost
      /\ u.interval = s.interval /\ u.timeout = s.timeout
  BY <1>2 DEF CoreFields
<1>5. Core(u)
  BY <1>0, <1>1, <1>2, <1>4
     DEF Core, PollConsistent, PollingBound, Closed, NothingHung,
         ClosingListens, Buffered, InOrder, Graceful, ProbeTimersOwned
<1>6. Alive(u)
  BY <1>4 DEF Inv, Alive, Closed
<1> QED BY <1>3, <1>5, <1>6 DEF u

\* A poll of a live polling session: an overlap, or a flush.
LEMMA OnPollRequestInv ==
  ASSUME NEW s, Inv(s), PollingBound(s)
  PROVE  Inv(OnPollRequest(s))
<1>1. CASE s.poll
  BY <1>1, PollingErrorInv DEF OnPollRequest
<1>2. CASE ~s.poll
  BY <1>2, PollRequested, FlushInv DEF OnPollRequest, Inv
<1> QED BY <1>1, <1>2

\* A pending poll that nobody waits for any more, and the one that the abort of
\* an answered request takes away.
LEMMA PollForgotten ==
  ASSUME NEW s, Inv(s)
  PROVE  LET p == [s EXCEPT !.poll = FALSE, !.pollWritable = FALSE]
             q == [s EXCEPT !.late = FALSE, !.poll = FALSE,
                            !.pollWritable = FALSE, !.hung = TRUE]
             r == [s EXCEPT !.late = FALSE]
             F == {"poll", "pollWritable", "late", "hung"}
         IN /\ Inv(p) /\ SameBut(s, p, F)
            /\ s.late => Inv(q) /\ SameBut(s, q, F)
            /\ ~s.poll => Inv(r) /\ SameBut(s, r, F)
<1> DEFINE p == [s EXCEPT !.poll = FALSE, !.pollWritable = FALSE]
           q == [s EXCEPT !.late = FALSE, !.poll = FALSE,
                          !.pollWritable = FALSE, !.hung = TRUE]
           r == [s EXCEPT !.late = FALSE]
           F == {"poll", "pollWritable", "late", "hung"}
<1>0. s \in State /\ NothingHung(s)
  BY DEF Inv, Core
<1>1. /\ p \in State /\ ~p.poll /\ ~p.pollWritable /\ p.late = s.late
      /\ p.hung = s.hung /\ \A f \in DOMAIN s \ F : p[f] = s[f]
  BY <1>0, ZenonT(40) DEF State
<1>2. /\ q \in State /\ ~q.poll /\ ~q.pollWritable
      /\ \A f \in DOMAIN s \ F : q[f] = s[f]
  BY <1>0, ZenonT(40) DEF State
<1>3. /\ r \in State /\ r.late = FALSE /\ r.hung = s.hung /\ r.poll = s.poll
      /\ r.pollWritable = s.pollWritable
      /\ \A f \in DOMAIN s \ F : r[f] = s[f]
  BY <1>0 DEF State
<1> HIDE DEF p, q, r
<1>4. Inv(p) /\ SameBut(s, p, F)
  BY <1>0, <1>1, NoPollFrame DEF SameBut, NothingHung
<1>5. ASSUME s.late PROVE Inv(q) /\ SameBut(s, q, F)
  <2>1. LateAborts
    BY <1>0, <1>5 DEF NothingHung
  <2> QED BY <1>2, <2>1, NoPollFrame DEF SameBut, NothingHung
<1>6. ASSUME ~s.poll PROVE Inv(r) /\ SameBut(s, r, F)
  <2>1. ~r.poll /\ ~r.pollWritable
    BY <1>3, <1>6 DEF Inv, Core, PollConsistent
  <2> QED BY <1>0, <1>3, <2>1, NoPollFrame DEF SameBut, NothingHung
<1> QED BY <1>4, <1>5, <1>6 DEF p, q, r

\* A pending poll times out, or its request aborts, or the request of an
\* answered one does.
LEMMA PollGoneInv ==
  ASSUME NEW s, Inv(s)
  PROVE  /\ Inv(PollTimeoutFired(s)) /\ Inv(PollAborted(s))
         /\ s.late => Inv(LatePollAborted(s))
BY PollForgotten, PollingErrorInv DEF PollTimeoutFired, PollAborted, LatePollAborted

\* A packet of a POST body.
LEMMA PollingPacketInv ==
  ASSUME NEW s, Inv(s), NEW type \in PacketType \cup {"close"}
  PROVE  Inv(PollingPacket(s, type))
<1>1. CASE ~PollingBound(s)
  BY <1>1 DEF PollingPacket
<1>2. CASE PollingBound(s) /\ type = "close"
  <2>1. "transport close" \in CloseReason \ {"forced close"}
    BY DEF CloseReason
  <2>2. Inv(PollingDoClose(s))
    BY AnsweredInv
  <2> QED BY <1>2, <2>1, <2>2, OnCloseInv DEF PollingPacket, Inv
<1>3. CASE PollingBound(s) /\ type # "close"
  BY <1>3, OnPacketInv DEF PollingPacket
<1> QED BY <1>1, <1>2, <1>3

\* A POST that is refused, aborted or unreadable.
LEMMA PostFailedInv ==
  ASSUME NEW s, Inv(s)
  PROVE  Inv(PostFailed(s))
<1> DEFINE t == [s EXCEPT !.posting = FALSE]
<1>0. s \in State
  BY DEF Inv, Core
<1>1. t \in State
  BY <1>0 DEF State
<1>2. /\ t.probing = s.probing /\ t.transport = s.transport
      /\ t.upgrade = s.upgrade /\ t.upgradeTimer = s.upgradeTimer
      /\ t.fastTimer = s.fastTimer /\ t.switching = s.switching
      /\ t.wsWritable = s.wsWritable
      /\ \A f \in DOMAIN s \ PeripheralFields : t[f] = s[f]
  BY <1>0 DEF State, PeripheralFields
<1> HIDE DEF t
<1>3. ProbeTimersOwned(t)
  BY <1>2 DEF Inv, Core, ProbeTimersOwned
<1>4. Inv(t)
  BY <1>1, <1>2, <1>3, PeripheralFrame DEF SameBut
<1> QED BY <1>4, PollingErrorInv DEF PostFailed, t

\* close() at once, or once the buffer has gone.
LEMMA CloseInv ==
  ASSUME NEW s, Inv(s)
  PROVE  Inv(Close(s))
<1>0. Core(s) /\ s \in State /\ Closable(s)
  BY CoreClosable DEF Inv, Core
<1>1. CASE ~Open(s)
  BY <1>1 DEF Close
<1>2. CASE Open(s) /\ Buffered(s)
  <2> DEFINE t == [s EXCEPT !.ready = "closing", !.closeOnDrain = TRUE]
  <2>1. t \in State
    BY <1>0 DEF State
  <2>2. /\ t.ready = "closing" /\ t.closeOnDrain
        /\ \A f \in DOMAIN s \ {"ready", "closeOnDrain"} : t[f] = s[f]
    BY <1>0 DEF State
  <2>3. Close(s) = t
    BY <1>2 DEF Close
  <2> HIDE DEF t
  <2>4. CoreFields \cup {"interval", "timeout", "wsWritable"} \subseteq DOMAIN s
    BY <1>0 DEF State, CoreFields
  <2>5. /\ t.reason = s.reason /\ t.transport = s.transport
        /\ t.upgrade = s.upgrade /\ t.buffer = s.buffer /\ t.ctl = s.ctl
        /\ t.poll = s.poll /\ t.pollWritable = s.pollWritable
        /\ t.late = s.late /\ t.hung = s.hung /\ t.wsWritable = s.wsWritable
        /\ t.probing = s.probing /\ t.upgradeTimer = s.upgradeTimer
        /\ t.fastTimer = s.fastTimer /\ t.switching = s.switching
        /\ t.messagesSent = s.messagesSent /\ t.overtook = s.overtook
        /\ t.out = s.out /\ t.lost = s.lost
        /\ t.interval = s.interval /\ t.timeout = s.timeout
    BY <2>2, <2>4 DEF CoreFields
  <2>6. Core(t)
    BY <1>0, <1>2, <2>1, <2>2, <2>5
       DEF Core, PollConsistent, PollingBound, Open, Closed, NothingHung,
           ClosingListens, Buffered, InOrder, Graceful, ProbeTimersOwned
  <2>7. Flushed(t) /\ Alive(t)
    BY <1>2, <2>2, <2>5 DEF Inv, Flushed, Alive, Open, Closed, Writable, Buffered
  <2> QED BY <2>3, <2>6, <2>7 DEF Inv
<1>3. CASE Open(s) /\ ~Buffered(s)
  <2> DEFINE t == [s EXCEPT !.ready = "closing"]
  <2>1. t \in State
    BY <1>0 DEF State
  <2>2. /\ t.ready = "closing"
        /\ \A f \in DOMAIN s \ {"ready"} : t[f] = s[f]
    BY <1>0 DEF State
  <2>3. Close(s) = ForcedClose(t)
    BY <1>3 DEF Close
  <2> HIDE DEF t
  <2>4. CoreFields \subseteq DOMAIN s
    BY <1>0, CoreFieldsInState
  <2>5. /\ t.transport = s.transport
        /\ t.upgrade = s.upgrade /\ t.buffer = s.buffer
        /\ t.poll = s.poll /\ t.pollWritable = s.pollWritable
        /\ t.late = s.late /\ t.hung = s.hung
        /\ t.probing = s.probing /\ t.upgradeTimer = s.upgradeTimer
        /\ t.fastTimer = s.fastTimer /\ t.switching = s.switching
        /\ t.messagesSent = s.messagesSent /\ t.overtook = s.overtook
        /\ t.out = s.out /\ t.lost = s.lost
    BY <2>2, <2>4 DEF CoreFields
  <2>6. Closable(t)
    BY <1>0, <2>1, <2>5 DEF Closable, NothingHung, InOrder, ProbeTimersOwned
  <2>7. ~Closed(t) /\ Len(t.buffer) = 0
    <3>1. ~Closed(t)
      BY <2>2 DEF Closed
    <3>2. Len(s.buffer) \in Nat /\ ~(Len(s.buffer) > 0)
      BY <1>0, <1>3 DEF State, Buffered
    <3> QED BY <2>5, <3>1, <3>2
  <2> QED BY <2>3, <2>6, <2>7, ForcedCloseInv
<1> QED BY <1>1, <1>2, <1>3

\* A WebSocket arrives for a live polling session.
LEMMA MaybeUpgradeInv ==
  ASSUME NEW s, Inv(s), PollingBound(s)
  PROVE  Inv(MaybeUpgrade(s))
<1>0. s \in State
  BY DEF Inv, Core
<1>1. CASE s.upgrade # "not_upgraded"
  BY <1>1 DEF MaybeUpgrade
<1>2. CASE s.upgrade = "not_upgraded"
  <2> DEFINE t == [s EXCEPT !.upgrade = "upgrading", !.conn = "open",
                            !.wsWritable = TRUE, !.sends = 0, !.probing = TRUE,
                            !.upgradeTimer = TRUE]
  <2>1. 0 \in 0 .. CheckInterval - 1
    BY EngineSocketAssumption
  <2>2. t \in State
    BY <1>0, <2>1, ZenonT(40) DEF State
  <2>3. /\ t.upgrade = "upgrading" /\ t.probing /\ t.transport = s.transport
        /\ t.switching = s.switching
        /\ \A f \in DOMAIN s \ PeripheralFields : t[f] = s[f]
    BY <1>0 DEF State, PeripheralFields
  <2>4. MaybeUpgrade(s) = t
    BY <1>2 DEF MaybeUpgrade
  <2> HIDE DEF t
  <2>5. s.transport = "polling" /\ ~WsBound(s) /\ ~s.switching
    BY DEF PollingBound, WsBound, Inv, Core, ProbeTimersOwned
  <2>6. ProbeTimersOwned(t)
    BY <2>3, <2>5 DEF ProbeTimersOwned
  <2> QED BY <2>2, <2>3, <2>4, <2>5, <2>6, PeripheralFrame DEF SameBut
<1> QED BY <1>1, <1>2

\* The probe's own packets concern the connection and the timers.
LEMMA ProbePingInv ==
  ASSUME NEW s, Inv(s), s.probing
  PROVE  Inv(ProbePing(s))
<1> DEFINE u == WsSend(s, <<>>)
           v == SendNoop(u)
           b == v.fastLeaked \/ v.fastTimer
           t == [v EXCEPT !.fastTimer = TRUE, !.fastLeaked = b]
<1>0. Core(s) /\ Flushed(s) /\ Alive(s) /\ s \in State
  BY DEF Inv, Core
<1>1. Inv(u) /\ SameBut(s, u, {"sends", "wsWritable", "out", "lost"})
  BY <1>0, WsControlInv DEF Inv
<1>2. ProbePing(s) = t
  BY DEF ProbePing
<1>3. s.transport = "polling" /\ s.upgrade = "upgrading"
      /\ {"probing", "transport", "upgrade"} \subseteq DOMAIN s
  BY <1>0 DEF Core, ProbeTimersOwned, State
<1> HIDE DEF u
<1>4. /\ Inv(v) /\ SameBut(u, v, {"poll", "pollWritable", "late"})
      /\ u \in State /\ v \in State
  BY <1>1, AnsweredInv DEF Inv, Core
<1>5. v.probing /\ v.transport = "polling" /\ v.upgrade = "upgrading" /\ ~v.switching
  <2>1. {"probing", "transport", "upgrade"} \subseteq DOMAIN u
    BY <1>4 DEF State
  <2>2. v.probing /\ v.transport = "polling" /\ v.upgrade = "upgrading"
    BY <1>1, <1>3, <1>4, <2>1 DEF SameBut
  <2> QED BY <1>4, <2>2 DEF Inv, Core, ProbeTimersOwned
<1> HIDE DEF v
<1>6. b \in BOOLEAN
  OBVIOUS
<1> HIDE DEF b
<1>7. t \in State
  BY <1>4, <1>6 DEF State
<1>8. /\ t.probing /\ t.transport = "polling" /\ t.upgrade = "upgrading"
      /\ ~t.switching
      /\ \A f \in DOMAIN v \ PeripheralFields : t[f] = v[f]
  BY <1>4, <1>5, <1>6 DEF State, PeripheralFields
<1> HIDE DEF t
<1>9. ProbeTimersOwned(t) /\ ~WsBound(v)
  BY <1>5, <1>8 DEF ProbeTimersOwned, WsBound
<1> QED BY <1>2, <1>4, <1>7, <1>8, <1>9, PeripheralFrame DEF SameBut

\* The upgrade packet binds the probe and answers the old transport's poll.
AdoptFields ==
  {"upgrade", "upgradeTimer", "fastTimer", "probing", "transport",
   "poll", "pollWritable", "late", "switching"}

LEMMA AdoptCore ==
  ASSUME NEW s, Inv(s), ~Closed(s)
  PROVE  LET u == [s EXCEPT !.upgrade = "upgraded", !.upgradeTimer = FALSE,
                            !.fastTimer = FALSE, !.probing = FALSE,
                            !.transport = "websocket", !.switching = TRUE]
             v == PollingDoClose(u)
         IN /\ Core(v) /\ Alive(v) /\ SameBut(s, v, AdoptFields)
            /\ ~v.probing /\ ~v.upgradeTimer /\ v.transport = "websocket"
            /\ v.switching
<1> DEFINE u == [s EXCEPT !.upgrade = "upgraded", !.upgradeTimer = FALSE,
                          !.fastTimer = FALSE, !.probing = FALSE,
                          !.transport = "websocket", !.switching = TRUE]
           v == PollingDoClose(u)
<1>0. Core(s) /\ s \in State /\ Alive(s)
  BY DEF Inv, Core
<1>1. u \in State
  BY <1>0, ZenonT(40) DEF State
<1>2. /\ ~u.upgradeTimer /\ ~u.fastTimer /\ ~u.probing /\ DOMAIN u = DOMAIN s
      /\ \A f \in DOMAIN s \ {"upgrade", "upgradeTimer", "fastTimer", "probing",
                              "transport", "switching"} : u[f] = s[f]
  BY <1>0 DEF State
<1>3. u.transport = "websocket" /\ u.switching
  BY <1>0 DEF State
<1>4. CoreFields \cup {"interval", "timeout"} \subseteq DOMAIN s
  BY <1>0 DEF State, CoreFields
<1> HIDE DEF u
<1>5. u.poll <=> u.pollWritable
  BY <1>0, <1>2, <1>4 DEF Core, PollConsistent, CoreFields
<1>6. /\ v \in State /\ ~v.poll /\ ~v.pollWritable
      /\ v.late = u.late \/ v.late = LateAborts
      /\ SameBut(u, v, {"poll", "pollWritable", "late"})
  BY <1>1, <1>5, PollingDoCloseEffect
<1> HIDE DEF v
<1>7. /\ v.ready = s.ready /\ v.reason = s.reason
      /\ v.buffer = s.buffer /\ v.ctl = s.ctl
      /\ v.closeOnDrain = s.closeOnDrain /\ v.hung = s.hung
      /\ v.late = s.late \/ v.late = LateAborts
      /\ ~v.probing /\ ~v.upgradeTimer /\ ~v.fastTimer
      /\ v.messagesSent = s.messagesSent /\ v.overtook = s.overtook /\ v.out = s.out
      /\ v.lost = s.lost
      /\ v.interval = s.interval /\ v.timeout = s.timeout
  <2>1. /\ v.probing = u.probing /\ v.upgradeTimer = u.upgradeTimer
        /\ v.fastTimer = u.fastTimer
    BY <1>2, <1>4, <1>6 DEF SameBut, CoreFields
  <2>2. v.late = s.late \/ v.late = LateAborts
    BY <1>2, <1>4, <1>6 DEF CoreFields
  <2>3. /\ v.ready = s.ready /\ v.reason = s.reason
        /\ v.buffer = s.buffer /\ v.ctl = s.ctl
        /\ v.closeOnDrain = s.closeOnDrain /\ v.hung = s.hung
        /\ v.messagesSent = s.messagesSent /\ v.overtook = s.overtook
        /\ v.out = s.out /\ v.lost = s.lost
        /\ v.interval = s.interval /\ v.timeout = s.timeout
    BY <1>2, <1>4, <1>6 DEF SameBut, CoreFields
  <2> QED BY <1>2, <2>1, <2>2, <2>3
<1>10. v.transport = "websocket" /\ v.switching
  BY <1>2, <1>3, <1>4, <1>6 DEF SameBut, CoreFields
<1>8. Core(v)
  <2>1. PollConsistent(v) /\ ProbeTimersOwned(v) /\ NothingHung(v)
    BY <1>0, <1>6, <1>7, <1>10 DEF Core, PollConsistent, ProbeTimersOwned, NothingHung
  <2>2. ClosingListens(v) /\ (v.ready = "closing" => Buffered(v))
        /\ InOrder(v) /\ Graceful(v)
    BY <1>0, <1>7 DEF Core, Closed, ClosingListens, Buffered, InOrder, Graceful
  <2> QED BY <1>6, <2>1, <2>2 DEF Core
<1>9. Alive(v)
  BY <1>0, <1>7 DEF Alive, Closed
<1>11. SameBut(s, v, AdoptFields)
  BY <1>2, <1>6 DEF SameBut, AdoptFields
<1> QED BY <1>7, <1>8, <1>9, <1>10, <1>11 DEF u, v

\* The probe is bound, and what waits stays until the listeners have returned.
LEMMA AdoptInv ==
  ASSUME NEW s, Inv(s), ~Closed(s)
  PROVE  Inv(Adopt(s))
BY AdoptCore DEF Adopt, Inv, Flushed

\* The listeners of "upgrade" have returned: before the flush.
LEMMA SwitchedCore ==
  ASSUME NEW s, Inv(s)
  PROVE  LET t == [s EXCEPT !.switching = FALSE] IN
         /\ Core(t) /\ Alive(t) /\ SameBut(s, t, {"switching"})
         /\ ~t.switching /\ DOMAIN t = DOMAIN s
<1> DEFINE t == [s EXCEPT !.switching = FALSE]
<1>0. s \in State /\ Core(s) /\ Alive(s)
  BY DEF Inv, Core
<1>1. t \in State /\ ~t.switching /\ DOMAIN t = DOMAIN s
      /\ \A f \in DOMAIN s \ {"switching"} : t[f] = s[f]
  BY <1>0 DEF State
<1>2. CoreFields \cup {"interval", "timeout"} \subseteq DOMAIN s
  BY <1>0 DEF State, CoreFields
<1> HIDE DEF t
<1>3. /\ t.ready = s.ready /\ t.reason = s.reason /\ t.transport = s.transport
      /\ t.upgrade = s.upgrade /\ t.buffer = s.buffer /\ t.ctl = s.ctl
      /\ t.closeOnDrain = s.closeOnDrain /\ t.poll = s.poll
      /\ t.pollWritable = s.pollWritable /\ t.late = s.late /\ t.hung = s.hung
      /\ t.probing = s.probing /\ t.upgradeTimer = s.upgradeTimer
      /\ t.fastTimer = s.fastTimer /\ t.messagesSent = s.messagesSent
      /\ t.overtook = s.overtook /\ t.out = s.out /\ t.lost = s.lost
      /\ t.interval = s.interval /\ t.timeout = s.timeout
  BY <1>1, <1>2 DEF CoreFields
<1>4. Core(t)
  BY <1>0, <1>1, <1>3
     DEF Core, PollConsistent, PollingBound, Closed, NothingHung, ClosingListens,
         Buffered, InOrder, Graceful, ProbeTimersOwned
<1>5. Alive(t)
  BY <1>0, <1>3 DEF Alive, Closed
<1> QED BY <1>1, <1>4, <1>5 DEF SameBut, t

\* The buffer leaves by the new transport.
LEMMA AdoptedInv ==
  ASSUME NEW s, Inv(s)
  PROVE  Inv(Adopted(s))
BY SwitchedCore, FlushInv DEF Adopted, Inv

\* Closing the connection, and giving up the upgrade timer.
LEMMA UpgradeTimerInv ==
  ASSUME NEW s, Inv(s)
  PROVE  /\ Inv(WsClose(s))
         /\ Inv([s EXCEPT !.upgradeTimer = FALSE])
         /\ Inv(WsClose([s EXCEPT !.upgradeTimer = FALSE]))
<1>1. ASSUME NEW r, Inv(r) PROVE Inv(WsClose(r))
  <2>0. /\ r \in State /\ ProbeTimersOwned(r)
        /\ {"probing", "transport", "upgrade", "upgradeTimer", "fastTimer",
            "wsWritable", "switching"} \subseteq DOMAIN r
    BY <1>1 DEF Inv, Core, State
  <2> DEFINE t == WsClose(r)
  <2>1. t \in State /\ SameBut(r, t, {"conn"})
    BY <2>0, WsCloseEffect
  <2> HIDE DEF t
  <2>2. SameBut(r, t, PeripheralFields)
    BY <2>1 DEF SameBut, PeripheralFields
  <2>3. ProbeTimersOwned(t) /\ t.wsWritable = r.wsWritable
    BY <2>0, <2>1 DEF SameBut, ProbeTimersOwned
  <2>4. Inv(t)
    BY <1>1, <2>1, <2>2, <2>3, PeripheralFrame
  <2> QED BY <2>4 DEF t
<1> DEFINE u == [s EXCEPT !.upgradeTimer = FALSE]
<1>2. u \in State /\ ProbeTimersOwned(s)
  BY DEF Inv, Core, State
<1>3. /\ u.probing = s.probing /\ u.transport = s.transport
      /\ u.upgrade = s.upgrade /\ ~u.upgradeTimer
      /\ u.fastTimer = s.fastTimer /\ u.switching = s.switching
      /\ u.wsWritable = s.wsWritable
      /\ \A f \in DOMAIN s \ PeripheralFields : u[f] = s[f]
  BY DEF Inv, Core, State, PeripheralFields
<1> HIDE DEF u
<1>4. ProbeTimersOwned(u)
  BY <1>2, <1>3 DEF ProbeTimersOwned
<1>5. Inv(u)
  BY <1>2, <1>3, <1>4, PeripheralFrame DEF SameBut
<1> QED BY <1>1, <1>5 DEF u

\* Every packet of the probe.
LEMMA ProbePacketInv ==
  ASSUME NEW s, Inv(s), s.probing, NEW type \in ProbePacketType
  PROVE  Inv(ProbePacket(s, type))
<1>1. CASE type = "probe"
  BY <1>1, ProbePingInv DEF ProbePacket
<1>2. CASE type = "upgrade" /\ ~Closed(s)
  BY <1>2, AdoptInv DEF ProbePacket
<1>3. CASE type = "close"
  BY <1>3, UpgradeTimerInv DEF ProbePacket
<1>4. CASE type = "other" \/ (type = "upgrade" /\ Closed(s))
  BY <1>4, UpgradeTimerInv DEF ProbePacket
<1> QED BY <1>1, <1>2, <1>3, <1>4 DEF ProbePacketType

\* The upgrade timer fires.
LEMMA UpgradeTimeoutInv ==
  ASSUME NEW s, Inv(s)
  PROVE  Inv(UpgradeTimeoutFired(s))
BY UpgradeTimerInv DEF UpgradeTimeoutFired

\* A paused transport resumes: the bound one flushes.
LEMMA ResumeCore ==
  ASSUME NEW s, Inv(s)
  PROVE  LET t == [s EXCEPT !.wsWritable = TRUE] IN
         /\ Core(t) /\ Alive(t) /\ SameBut(s, t, {"wsWritable"})
         /\ t.wsWritable /\ (WsBound(t) <=> WsBound(s))
         /\ \/ Resume(s) = s
            \/ Backpressure /\ ~WsBound(s) /\ Resume(s) = t
            \/ Backpressure /\ WsBound(s) /\ Resume(s) = Flush(t)
<1> DEFINE t == [s EXCEPT !.wsWritable = TRUE]
<1>0. s \in State /\ Core(s) /\ Alive(s)
  BY DEF Inv, Core
<1>1. t \in State /\ t.wsWritable
  BY <1>0 DEF State
<1>2. \A f \in DOMAIN s \ {"wsWritable"} : t[f] = s[f]
  BY <1>0 DEF State
<1>3. CoreFields \cup {"interval", "timeout"} \subseteq DOMAIN s \ {"wsWritable"}
  BY <1>0 DEF State, CoreFields
<1> HIDE DEF t
<1>4. /\ t.ready = s.ready /\ t.transport = s.transport
      /\ t.interval = s.interval /\ t.timeout = s.timeout
  BY <1>2, <1>3 DEF CoreFields
<1>5. Core(t) /\ Alive(t)
  <2>1. \A f \in CoreFields : t[f] = s[f]
    BY <1>2, <1>3
  <2> QED BY <1>0, <1>1, <1>4, <2>1, CoreFrame DEF Alive, Closed
<1>6. WsBound(t) <=> WsBound(s)
  BY <1>4 DEF WsBound, Closed
<1>7. \/ Resume(s) = s
      \/ Backpressure /\ ~WsBound(s) /\ Resume(s) = t
      \/ Backpressure /\ WsBound(s) /\ Resume(s) = Flush(t)
  BY <1>6 DEF Resume, t
<1>8. SameBut(s, t, {"wsWritable"})
  BY <1>2 DEF SameBut
<1> QED BY <1>1, <1>5, <1>6, <1>7, <1>8 DEF t

LEMMA ResumeInv ==
  ASSUME NEW s, Inv(s)
  PROVE  Inv(Resume(s)) /\ (s.probing => Resume(s).probing)
<1> DEFINE t == [s EXCEPT !.wsWritable = TRUE]
<1>1. /\ Core(t) /\ Alive(t) /\ SameBut(s, t, {"wsWritable"})
      /\ \/ Resume(s) = s
         \/ ~WsBound(s) /\ Resume(s) = t
         \/ WsBound(s) /\ Resume(s) = Flush(t)
  BY ResumeCore
<1> HIDE DEF t
<1>2. /\ s \in State /\ ProbeTimersOwned(s)
      /\ {"probing", "transport", "ready"} \subseteq DOMAIN s
  BY DEF Inv, Core, State
<1>3. Inv(Flush(t))
  BY <1>1, FlushInv DEF Inv
<1>4. ~WsBound(s) => Inv(t)
  <2>1. SameBut(s, t, PeripheralFields)
    BY <1>1 DEF SameBut, PeripheralFields
  <2> QED BY <1>1, <2>1, PeripheralFrame DEF Core
<1>5. s.probing => ~WsBound(s) /\ t.probing
  BY <1>1, <1>2 DEF SameBut, ProbeTimersOwned, WsBound
<1> QED BY <1>1, <1>3, <1>4, <1>5

\* A message of the session's WebSocket, and one of the probe.
LEMMA WsMessagesInv ==
  ASSUME NEW s, Inv(s)
  PROVE  /\ \A type \in PacketType \cup {"close"} : Inv(WsMessage(s, type))
         /\ s.probing => \A type \in ProbePacketType : Inv(ProbeMessage(s, type))
<1>1. ASSUME NEW type \in PacketType \cup {"close"}
      PROVE  Inv(WsMessage(s, type))
  BY ResumeInv, UpgradeTimerInv, OnPacketInv DEF WsMessage
<1>2. ASSUME s.probing, NEW type \in ProbePacketType
      PROVE  Inv(ProbeMessage(s, type))
  BY <1>2, ResumeInv, ProbePacketInv DEF ProbeMessage
<1> QED BY <1>1, <1>2

\* The connection is gone.
LEMMA ConnGone ==
  ASSUME NEW s, Inv(s)
  PROVE  LET t == [s EXCEPT !.conn = "gone"] IN
         Inv(t) /\ SameBut(s, t, {"conn"}) /\ t.conn = "gone"
<1> DEFINE t == [s EXCEPT !.conn = "gone"]
<1>0. s \in State /\ ProbeTimersOwned(s)
  BY DEF Inv, Core
<1>1. t \in State /\ t.conn = "gone"
  BY <1>0, ZenonT(40) DEF State
<1>2. /\ t.probing = s.probing /\ t.upgradeTimer = s.upgradeTimer
      /\ t.transport = s.transport /\ t.upgrade = s.upgrade
      /\ t.fastTimer = s.fastTimer /\ t.switching = s.switching
      /\ t.wsWritable = s.wsWritable
      /\ \A f \in DOMAIN s \ {"conn"} : t[f] = s[f]
  BY <1>0 DEF State
<1> HIDE DEF t
<1>3. ProbeTimersOwned(t)
  BY <1>0, <1>2 DEF ProbeTimersOwned
<1>4. SameBut(s, t, PeripheralFields)
  BY <1>2 DEF SameBut, PeripheralFields
<1>5. Inv(t)
  BY <1>1, <1>2, <1>3, <1>4, PeripheralFrame
<1> QED BY <1>1, <1>2, <1>5 DEF SameBut, t

\* The connection of a probe is gone, and its timers with it.
LEMMA ProbeGone ==
  ASSUME NEW s, Inv(s)
  PROVE  LET t == [s EXCEPT !.conn = "gone", !.probing = FALSE,
                            !.upgradeTimer = FALSE, !.fastTimer = FALSE]
             F == {"conn", "probing", "upgradeTimer", "fastTimer"}
         IN /\ Inv(t) /\ SameBut(s, t, F) /\ t.conn = "gone" /\ ~t.probing
            /\ s.probing => WsClosed(s) = t
<1> DEFINE t == [s EXCEPT !.conn = "gone", !.probing = FALSE,
                          !.upgradeTimer = FALSE, !.fastTimer = FALSE]
           F == {"conn", "probing", "upgradeTimer", "fastTimer"}
<1>0. s \in State /\ (s.switching => s.transport = "websocket")
  BY DEF Inv, Core, ProbeTimersOwned
<1>1. t \in State /\ t.conn = "gone"
  BY <1>0, ZenonT(40) DEF State
<1>2. /\ ~t.probing /\ ~t.upgradeTimer /\ ~t.fastTimer
      /\ t.wsWritable = s.wsWritable /\ t.switching = s.switching
      /\ t.transport = s.transport
      /\ \A f \in DOMAIN s \ F : t[f] = s[f]
  BY <1>0 DEF State
<1>3. s.probing => WsClosed(s) = t
  BY <1>0 DEF WsClosed, State
<1> HIDE DEF t
<1>4. ProbeTimersOwned(t) /\ SameBut(s, t, PeripheralFields)
  BY <1>0, <1>2 DEF ProbeTimersOwned, SameBut, PeripheralFields
<1>5. Inv(t)
  BY <1>1, <1>2, <1>4, PeripheralFrame
<1> QED BY <1>1, <1>2, <1>3, <1>5 DEF SameBut, t

\* The close event of the session's WebSocket or of the probe.
LEMMA WsClosedInv ==
  ASSUME NEW s, Inv(s)
  PROVE  Inv(WsClosed(s))
<1>1. CASE s.probing
  BY <1>1, ProbeGone
<1>2. CASE ~s.probing
  <2>1. "transport close" \in CloseReason \ {"forced close"}
    BY DEF CloseReason
  <2> QED BY <1>2, <2>1, ConnGone, OnCloseInv DEF WsClosed, Inv
<1> QED BY <1>1, <1>2

-----------------------------------------------------------------------------
(* The session *)

\* One field that no property reads changes: a listener is attached, a POST
\* starts or is answered, the runtime's buffer fills or drains.
LEMMA BystanderInv ==
  ASSUME NEW s, Inv(s), NEW b \in BOOLEAN
  PROVE  /\ Inv([s EXCEPT !.createListener = b])
         /\ Inv([s EXCEPT !.posting = b])
         /\ Inv([s EXCEPT !.full = b])
<1>0. s \in State /\ ProbeTimersOwned(s)
  BY DEF Inv, Core
<1>1. ASSUME NEW t \in State,
             \A f \in DOMAIN s \ {"createListener", "posting", "full"} : t[f] = s[f]
      PROVE  Inv(t)
  <2>1. {"probing", "transport", "upgrade", "upgradeTimer", "fastTimer", "wsWritable",
         "switching"} \subseteq DOMAIN s
    BY <1>0 DEF State
  <2>2. SameBut(s, t, PeripheralFields)
    BY <1>1 DEF SameBut, PeripheralFields
  <2>3. ProbeTimersOwned(t) /\ t.wsWritable = s.wsWritable
    BY <1>0, <1>1, <2>1 DEF ProbeTimersOwned
  <2> QED BY <1>1, <2>2, <2>3, PeripheralFrame
<1> DEFINE c == [s EXCEPT !.createListener = b]
           p == [s EXCEPT !.posting = b]
           f == [s EXCEPT !.full = b]
<1>2. c \in State /\ \A g \in DOMAIN s \ {"createListener"} : c[g] = s[g]
  BY <1>0 DEF State
<1>3. p \in State /\ \A g \in DOMAIN s \ {"posting"} : p[g] = s[g]
  BY <1>0 DEF State
<1>4. f \in State /\ \A g \in DOMAIN s \ {"full"} : f[g] = s[g]
  BY <1>0 DEF State
<1> HIDE DEF c, p, f
<1>5. Inv(c) /\ Inv(p) /\ Inv(f)
  BY <1>1, <1>2, <1>3, <1>4
<1> QED BY <1>5 DEF c, p, f

\* What the constructor leaves for a transport, before the first flush or poll.
LEMMA ConstructedInv ==
  ASSUME NEW transport \in {"polling", "websocket"}
  PROVE  /\ Constructed(transport) \in State
         /\ Core(Constructed(transport))
         /\ Alive(Constructed(transport))
<1> DEFINE c == Constructed(transport)
<1>1. 0 \in 0 .. CheckInterval - 1
  BY EngineSocketAssumption
<1>2. c \in State
  BY <1>1, EmptySequence DEF Constructed, State, CloseReason
<1>3. c.buffer = <<>> /\ c.out = <<>> /\ c.messagesSent = 0 /\ c.overtook = {}
  BY DEF Constructed
<1>4. Counts(<<>> \o <<>>, 0, {})
  <2>1. <<>> \o <<>> = <<>>
    BY EmptySequence, ConcatEmpty
  <2>2. 1 .. 0 = {}
    OBVIOUS
  <2> QED BY <2>1, <2>2, EmptySequence DEF Counts
<1>5. InOrder(c)
  BY <1>3, <1>4 DEF InOrder
<1>6. /\ c.ready = "open" /\ c.reason = "none" /\ ~c.closeOnDrain /\ ~c.poll
      /\ ~c.pollWritable /\ ~c.late /\ ~c.hung /\ ~c.probing
      /\ ~c.upgradeTimer /\ ~c.fastTimer /\ ~c.switching /\ c.interval = "armed"
  BY DEF Constructed
<1> HIDE DEF c
<1>7. Core(c)
  BY <1>2, <1>5, <1>6 DEF Core, PollConsistent, NothingHung, ClosingListens, Closed,
                          Graceful, ProbeTimersOwned
<1>8. Alive(c)
  BY <1>6 DEF Alive
<1> QED BY <1>2, <1>7, <1>8 DEF c

\* A handshake establishes the invariant, over either transport.
LEMMA HandshakeInv ==
  ASSUME NEW transport \in {"polling", "websocket"}
  PROVE  Inv(Handshake(transport))
<1>1. CASE transport = "polling"
  <2> DEFINE c == Constructed(transport)
  <2>1. /\ c.ready = "open" /\ c.transport = "polling"
        /\ ~c.pollWritable
    BY <1>1 DEF Constructed
  <2>2. Core(c) /\ Alive(c)
    BY ConstructedInv
  <2> HIDE DEF c
  <2>3. Inv(c) /\ PollingBound(c)
    BY <2>1, <2>2 DEF Inv, Flushed, Writable, PollingBound, Closed
  <2> QED BY <1>1, <2>3, OnPollRequestInv DEF Handshake, c
<1>2. CASE transport = "websocket"
  <2> DEFINE c == Constructed(transport)
             t == [c EXCEPT !.conn = "open", !.wsWritable = TRUE]
  <2>1. c \in State /\ Core(c) /\ Alive(c)
    BY ConstructedInv
  <2> HIDE DEF c
  <2>2. t \in State
    BY <2>1, ZenonT(40) DEF State
  <2>3. \A f \in CoreFields \cup {"interval", "timeout"} : t[f] = c[f]
    BY <2>1 DEF State, CoreFields
  <2> HIDE DEF t
  <2>4. Core(t)
    BY <2>1, <2>2, <2>3, CoreFrame
  <2>5. Alive(t)
    BY <2>1, <2>3 DEF Alive, Closed, CoreFields
  <2>6. Handshake(transport) = Flush(t)
    BY <1>2 DEF Handshake, t, c
  <2> QED BY <2>4, <2>5, <2>6, FlushInv DEF Inv
<1> QED BY <1>1, <1>2

\* Every event of a session preserves the invariant.
LEMMA NextInv ==
  ASSUME Inv(sock), [Next]_sock
  PROVE  Inv(sock')
<1>1. CASE AppWrite
  BY <1>1, WriteInv DEF AppWrite
<1>2. CASE AppBroadcast
  BY <1>2, BroadcastInv DEF AppBroadcast
<1>3. CASE AppClose
  BY <1>3, CloseInv DEF AppClose
<1>4. CASE AttachMetrics
  BY <1>4, BystanderInv DEF AttachMetrics
<1>5. CASE PingInterval
  BY <1>5, PingTimersInv DEF PingInterval
<1>6. CASE StrayPing
  BY <1>6, PingTimersInv DEF StrayPing
<1>7. CASE PingTimeout
  BY <1>7, PingTimeoutInv DEF PingTimeout
<1>8. CASE PollTimeout
  BY <1>8, PollGoneInv DEF PollTimeout
<1>9. CASE UpgradeTimeout
  BY <1>9, UpgradeTimeoutInv DEF UpgradeTimeout
<1>10. CASE FastUpgradeTick
  BY <1>10, AnsweredInv DEF FastUpgradeTick
<1>11. CASE PollRequest
  BY <1>11, OnPollRequestInv DEF PollRequest
<1>12. CASE PollAbort
  BY <1>12, PollGoneInv DEF PollAbort
<1>13. CASE LatePollAbort
  BY <1>13, PollGoneInv DEF LatePollAbort
<1>14. CASE PostStart
  BY <1>14, BystanderInv DEF PostStart
<1>15. CASE PostPacket
  BY <1>15, PollingPacketInv DEF PostPacket
<1>16. CASE PostAnswer
  BY <1>16, BystanderInv DEF PostAnswer
<1>17. CASE PostFailure
  BY <1>17, PostFailedInv DEF PostFailure
<1>18. CASE UpgradeRequest
  BY <1>18, MaybeUpgradeInv DEF UpgradeRequest
<1>19. CASE ProbeReceive
  BY <1>19, WsMessagesInv DEF ProbeReceive
<1>20. CASE WsReceive
  BY <1>20, WsMessagesInv DEF WsReceive
<1>21. CASE WsCloseEvent
  BY <1>21, WsClosedInv DEF WsCloseEvent
<1>22. CASE WsPeerClose
  BY <1>22, WsClosedInv DEF WsPeerClose
<1>23. CASE BufferFill
  BY <1>23, BystanderInv DEF BufferFill
<1>24. CASE BufferDrain
  BY <1>24, BystanderInv DEF BufferDrain
<1>25. CASE UpgradeHeard
  BY <1>25, AdoptedInv DEF UpgradeHeard
<1>26. CASE UNCHANGED sock
  BY <1>26
<1> QED BY <1>1, <1>2, <1>3, <1>4, <1>5, <1>6, <1>7, <1>8, <1>9, <1>10, <1>11,
           <1>12, <1>13, <1>14, <1>15, <1>16, <1>17, <1>18, <1>19, <1>20, <1>21,
           <1>22, <1>23, <1>24, <1>25, <1>26 DEF Next

-----------------------------------------------------------------------------
(* The results *)

\* The invariant holds of every session, for every value of the constants.
THEOREM SessionInvariant == Spec => []Inv(sock)
<1>1. Init => Inv(sock)
  BY HandshakeInv DEF Init
<1>2. Inv(sock) /\ [Next]_sock => Inv(sock)'
  BY NextInv
<1> QED BY <1>1, <1>2, PTL DEF Spec

\* No event gives the session's record another shape.
THEOREM TypeCorrect == Spec => []TypeOK
<1>1. Inv(sock) => TypeOK
  BY DEF Inv, Core, TypeOK
<1> QED BY <1>1, SessionInvariant, PTL

\* Nothing waits in the buffer of a session that can write.
THEOREM NothingStaysStuck == Spec => []NothingStuck
<1>1. Inv(sock) => NothingStuck
  BY DEF Inv, NothingStuck
<1> QED BY <1>1, SessionInvariant, PTL

\* A live session has a heartbeat timer armed.
THEOREM KeepaliveStaysArmed == Spec => []KeepaliveArmed
<1>1. Inv(sock) => KeepaliveArmed
  BY DEF Inv, KeepaliveArmed
<1> QED BY <1>1, SessionInvariant, PTL

\* However many messages are written, whatever carries them, they leave once
\* each and in order until a WebSocket drops one.
THEOREM DeliveryIsInOrder == Spec => []InOrderDelivery
<1>1. Inv(sock) => InOrderDelivery
  BY DEF Inv, Core, InOrderDelivery
<1> QED BY <1>1, SessionInvariant, PTL

\* A session ended by close() has put every message on the wire.
THEOREM CloseIsGraceful == Spec => []GracefulClose
<1>1. ASSUME Inv(sock), sock.reason = "forced close", ~sock.lost
      PROVE  Len(sock.out) = sock.messagesSent
  <2>1. /\ sock.out \in Seq(Nat) /\ sock.buffer \in Seq(Nat)
        /\ sock.messagesSent \in Nat
    BY <1>1 DEF Inv, Core, State
  <2>2. Len(sock.buffer) = 0
    BY <1>1 DEF Inv, Core, Graceful
  <2>3. Counts(sock.out, sock.messagesSent, sock.overtook)
    BY <1>1, <2>1, <2>2, ConcatNoElement DEF Inv, Core, InOrder
  <2> QED BY <2>1, <2>3 DEF Counts
<1>2. Inv(sock) => GracefulClose
  BY <1>1 DEF GracefulClose
<1> QED BY <1>2, SessionInvariant, PTL

\* A closing session has a packet to wait for and the listener that ends it.
THEOREM ClosingHasItsListener == Spec => []ClosingWaits
<1>1. Inv(sock) => ClosingWaits
  BY DEF Inv, Core, ClosingWaits
<1> QED BY <1>1, SessionInvariant, PTL

\* Unless the runtime aborts requests it has answered, no poll hangs.
THEOREM NoPollHangs == ~LateAborts => (Spec => []NoHangingPoll)
<1> SUFFICES ASSUME ~LateAborts PROVE Spec => []NoHangingPoll
  OBVIOUS
<1>1. Inv(sock) => NoHangingPoll
  BY DEF Inv, Core, NothingHung, NoHangingPoll
<1> QED BY <1>1, SessionInvariant, PTL
=============================================================================
