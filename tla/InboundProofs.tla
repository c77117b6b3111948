--------------------------- MODULE InboundProofs ---------------------------
(***************************************************************************)
(* What holds of any number of sessions, messages and windows: the timer   *)
(* the limiters share, their budgets, the count of messages, who still     *)
(* hears messages, how many of them in a window's time, and that what is   *)
(* heard is what was sent, in order.                                       *)
(***************************************************************************)
EXTENDS Inbound, ParserProofs, TLAPS

\* Sessions, and who the loop may be for.
SessionsOK ==
  /\ ready \in [Sessions -> {"none", "open", "closing", "closed"}]
  /\ \A c \in Sessions : post[c] # NoPost => ready[c] # "none"
  /\ loop.by \in Sessions => ready[loop.by] # "none"
  /\ checked \in BOOLEAN
  /\ checked => loop.packets # <<>>
  /\ loop.packets # <<>> => loop.by \in Sessions

LiveSessions == {c \in Sessions : Live(c)}

LimitersOK ==
  /\ activeLimiters = LiveSessions
  /\ sharedTimer = (activeLimiters # {})
  /\ remaining \in [Limiters -> Nat]
  /\ inWindow \in [Limiters -> Nat]

\* What is left of a budget and what has been heard make a window's worth.
BudgetsOK == \A c \in Sessions : ready[c] # "none" => remaining[c] + inWindow[c] = MaxMessages

MetricsOK ==
  /\ metricsOn \in BOOLEAN
  /\ dataListeners \in [Sessions -> {0, 1}]
  /\ metricsOn => \A c \in Sessions : Live(c) => dataListeners[c] = 1
  /\ ~metricsOn => \A c \in Sessions : dataListeners[c] = 0
  /\ counted \in Nat

\* Nothing was heard late while the session is open, nor while the packet that
\* may be heard late is at its "packet" event.
LateOK ==
  /\ late \in [Sessions -> Nat]
  /\ \A c \in Sessions :
       /\ late[c] <= 1
       /\ ready[c] \in {"none", "open"} => late[c] = 0
       /\ checked /\ loop.by = c => late[c] = 0

ShapesOK ==
  /\ DOMAIN heard = Sessions /\ DOMAIN dropped = Sessions /\ DOMAIN post = Sessions
  /\ DOMAIN loop = {"by", "via", "packets"}

InboundInv ==
  /\ SessionsOK /\ ShapesOK /\ LimitersOK /\ BudgetsOK /\ MetricsOK /\ LateOK

-----------------------------------------------------------------------------
(* The parts of the actions *)

LEMMA InboundInit == Init => InboundInv
<1> SUFFICES ASSUME Init PROVE InboundInv
  OBVIOUS
<1>1. MaxMessages \in Nat /\ Nobody \notin Sessions
  BY RateLimiterAssumption, InboundAssumption
<1>2. SessionsOK /\ ShapesOK
  BY <1>1 DEF Init, SessionsOK, ShapesOK, Idle
<1>3. LimitersOK
  BY DEF Init, InitLimiters, LimitersOK, LiveSessions, Live, Sessions
<1>4. BudgetsOK /\ MetricsOK /\ LateOK
  BY DEF Init, BudgetsOK, MetricsOK, LateOK, Live
<1> QED BY <1>2, <1>3, <1>4 DEF InboundInv

\* A session is constructed.
LEMMA ConstructOK ==
  ASSUME InboundInv, NEW c \in Sessions, ready[c] = "none", Construct(c),
         ready' = [ready EXCEPT ![c] = "open"]
  PROVE  LimitersOK' /\ BudgetsOK'
<1>1. MaxMessages \in Nat
  BY RateLimiterAssumption
<1>2. LiveSessions' = LiveSessions \cup {c}
  BY DEF InboundInv, SessionsOK, LiveSessions, Live
<1>3. LimitersOK'
  BY <1>1, <1>2 DEF InboundInv, LimitersOK, Construct, Sessions
<1>4. BudgetsOK'
  BY <1>1 DEF InboundInv, SessionsOK, LimitersOK, BudgetsOK, Construct, Sessions
<1> QED BY <1>3, <1>4

\* A session is closed.
LEMMA CloseOK ==
  ASSUME InboundInv, NEW c \in Sessions, Live(c), OnClose(c)
  PROVE  /\ ready' = [ready EXCEPT ![c] = "closed"]
         /\ LimitersOK' /\ BudgetsOK'
<1>1. LiveSessions' = LiveSessions \ {c}
  BY DEF InboundInv, SessionsOK, LiveSessions, Live, OnClose
<1>2. LimitersOK'
  BY <1>1 DEF InboundInv, LimitersOK, OnClose, Destroy, Sessions
<1>3. BudgetsOK'
  BY DEF InboundInv, SessionsOK, BudgetsOK, OnClose, Destroy, Live
<1> QED BY <1>2, <1>3 DEF OnClose

\* Only the clock and the sessions that do not matter to a limiter change.
LEMMA LimitersSame ==
  ASSUME InboundInv, LiveSessions' = LiveSessions,
         UNCHANGED <<activeLimiters, sharedTimer, remaining, inWindow>>,
         \A d \in Sessions : ready'[d] # "none" => ready[d] # "none"
  PROVE  LimitersOK' /\ BudgetsOK'
BY DEF InboundInv, LimitersOK, BudgetsOK

\* A step that brings no session and leaves the metrics alone.
LEMMA MetricsSame ==
  ASSUME InboundInv, UNCHANGED <<metrics, counted>>,
         \A d \in Sessions : Live(d)' => Live(d)
  PROVE  MetricsOK'
BY DEF InboundInv, MetricsOK, metrics

\* A step in which no message is heard.
LEMMA LateSame ==
  ASSUME InboundInv, UNCHANGED late,
         \A d \in Sessions : ready'[d] \in {"none", "open"} => ready[d] \in {"none", "open"},
         \A d \in Sessions : (checked /\ loop.by = d)' =>
                               (checked /\ loop.by = d) \/ ready[d] \in {"none", "open"}
  PROVE  LateOK'
BY DEF InboundInv, LateOK

\* A message is heard or refused: the budget and the count follow.
LEMMA ReceiveOK ==
  ASSUME InboundInv, NEW c \in Sessions, NEW data, ready[c] # "none", Receive(c, data),
         UNCHANGED <<ready, metrics>>
  PROVE  LimitersOK' /\ BudgetsOK' /\ MetricsOK' /\ DOMAIN heard' = Sessions /\ DOMAIN dropped' = Sessions
<1>1. LiveSessions' = LiveSessions
  BY DEF LiveSessions, Live
<1>2. CASE ~Allowed(c) /\ dropped' = [dropped EXCEPT ![c] = @ + 1]
           /\ UNCHANGED <<heard, late, counted, limiters>>
  <2>1. LimitersOK' /\ BudgetsOK'
    BY <1>1, <1>2, LimitersSame DEF limiters
  <2>2. MetricsOK'
    BY <1>2, MetricsSame DEF Live
  <2> QED BY <1>2, <2>1, <2>2 DEF InboundInv, ShapesOK
<1>3. CASE /\ Allowed(c) /\ Consume(c) /\ heard' = [heard EXCEPT ![c] = Append(@, data)]
           /\ counted' = counted + dataListeners[c] /\ UNCHANGED dropped
  <2>1. remaining[c] \in Nat \ {0} /\ inWindow[c] \in Nat
    BY <1>3 DEF InboundInv, LimitersOK, Allowed, Sessions
  <2>2. LimitersOK'
    BY <1>1, <1>3, <2>1 DEF InboundInv, LimitersOK, Consume, Sessions
  <2>3. BudgetsOK'
    <3> SUFFICES ASSUME NEW d \in Sessions, ready[d] # "none"
                 PROVE  remaining'[d] + inWindow'[d] = MaxMessages
      BY DEF BudgetsOK
    <3>1. remaining[d] + inWindow[d] = MaxMessages
      BY DEF InboundInv, BudgetsOK
    <3> QED BY <1>3, <2>1, <3>1 DEF Consume, InboundInv, LimitersOK, Sessions
  <2>4. MetricsOK'
    BY <1>3 DEF InboundInv, MetricsOK, Live, metrics
  <2> QED BY <1>3, <2>2, <2>3, <2>4 DEF InboundInv, ShapesOK
<1> QED BY <1>2, <1>3 DEF Receive

\* One more message is late at most.
LEMMA ReceiveLate ==
  ASSUME InboundInv, NEW c \in Sessions, NEW data, Receive(c, data), UNCHANGED ready,
         ready[c] # "none", late[c] = 0, ~checked'
  PROVE  LateOK'
<1>1. late' = late \/ late' = [late EXCEPT ![c] = IF ready[c] = "open" THEN @ ELSE @ + 1]
  BY DEF Receive
<1>2. late \in [Sessions -> Nat]
  BY DEF InboundInv, LateOK
<1>3. CASE late' = late
  BY <1>3 DEF InboundInv, LateOK
<1>4. CASE late' # late
  BY <1>1, <1>2, <1>4 DEF InboundInv, LateOK
<1> QED BY <1>3, <1>4

-----------------------------------------------------------------------------
(* The actions *)

LEMMA HandshakeInv ==
  ASSUME InboundInv, NEW c \in Sessions, Handshake(c)
  PROVE  InboundInv'
<1>1. /\ ready[c] = "none" /\ Construct(c) /\ ready' = [ready EXCEPT ![c] = "open"]
      /\ dataListeners' = IF metricsOn THEN [dataListeners EXCEPT ![c] = 1] ELSE dataListeners
      /\ UNCHANGED <<post, loop, checked, heard, late, dropped, counted, metricsOn>>
  BY DEF Handshake, incoming, events
<1>2. LimitersOK' /\ BudgetsOK'
  BY <1>1, ConstructOK
<1>3. SessionsOK' /\ ShapesOK'
  BY <1>1 DEF InboundInv, SessionsOK, ShapesOK
<1>4. MetricsOK'
  BY <1>1 DEF InboundInv, SessionsOK, MetricsOK, Live
<1>5. LateOK'
  <2>1. \A d \in Sessions : ready'[d] \in {"none", "open"} => ready[d] \in {"none", "open"}
    BY <1>1 DEF InboundInv, SessionsOK
  <2> QED BY <1>1, <2>1, LateSame
<1> QED BY <1>2, <1>3, <1>4, <1>5 DEF InboundInv

\* A step that closes one session or none, between loops or within one, and in
\* which nothing is heard.
LEMMA QuietInv ==
  ASSUME InboundInv, UNCHANGED <<events, metrics>>,
         \/ \E c \in Sessions : Live(c) /\ OnClose(c)
         \/ UNCHANGED <<ready, limiters>>,
         DOMAIN post' = Sessions, DOMAIN loop' = {"by", "via", "packets"},
         \A d \in Sessions : post'[d] # NoPost => post[d] # NoPost \/ Live(d),
         \/ UNCHANGED <<loop, checked>>
         \/ /\ checked' \in BOOLEAN
            /\ loop'.by \in Sessions => ready[loop'.by] # "none"
            /\ loop'.packets # <<>> => loop'.by \in Sessions
            /\ checked' => loop'.packets # <<>> /\ ready[loop'.by] = "open"
  PROVE  InboundInv'
<1>1. /\ ready' \in [Sessions -> {"none", "open", "closing", "closed"}]
      /\ \A d \in Sessions : ready'[d] = ready[d] \/ (Live(d) /\ ready'[d] = "closed")
      /\ LimitersOK' /\ BudgetsOK'
  <2>1. CASE UNCHANGED <<ready, limiters>>
    <3>1. LiveSessions' = LiveSessions
      BY <2>1 DEF LiveSessions, Live
    <3>2. LimitersOK' /\ BudgetsOK'
      BY <2>1, <3>1, LimitersSame DEF limiters
    <3> QED BY <2>1, <3>2 DEF InboundInv, SessionsOK
  <2>2. ASSUME NEW c \in Sessions, Live(c), OnClose(c)
        PROVE  /\ ready' \in [Sessions -> {"none", "open", "closing", "closed"}]
               /\ \A d \in Sessions : ready'[d] = ready[d] \/ (Live(d) /\ ready'[d] = "closed")
               /\ LimitersOK' /\ BudgetsOK'
    BY <2>2, CloseOK DEF InboundInv, SessionsOK
  <2> QED BY <2>1, <2>2
<1>2. \A d \in Sessions : (Live(d)' => Live(d)) /\ (ready[d] # "none" <=> ready'[d] # "none")
        /\ (ready'[d] \in {"none", "open"} => ready[d] \in {"none", "open"})
  BY <1>1 DEF Live
<1>3. SessionsOK'
  <2>1. \A d \in Sessions : post'[d] # NoPost => ready'[d] # "none"
    BY <1>2 DEF InboundInv, SessionsOK, Live
  <2>2. checked' \in BOOLEAN
        /\ (checked' => loop'.packets # <<>>)
        /\ (loop'.packets # <<>> => loop'.by \in Sessions)
        /\ (loop'.by \in Sessions => ready'[loop'.by] # "none")
    BY <1>2 DEF InboundInv, SessionsOK
  <2> QED BY <1>1, <2>1, <2>2 DEF SessionsOK
<1>4. MetricsOK'
  BY <1>2, MetricsSame DEF events
<1>5. LateOK'
  BY <1>2, LateSame DEF events
<1>6. ShapesOK'
  BY DEF InboundInv, ShapesOK, events
<1> QED BY <1>1, <1>3, <1>4, <1>5, <1>6 DEF InboundInv

LEMMA AppCloseInv ==
  ASSUME InboundInv, NEW c \in Sessions, AppClose(c)
  PROVE  InboundInv'
<1>1. ready[c] = "open" /\ UNCHANGED <<post, loop, checked, events, metrics>>
  BY DEF AppClose, incoming
<1>2. CASE OnClose(c)
  BY <1>1, <1>2, QuietInv DEF Live, InboundInv, ShapesOK, SessionsOK
<1>3. CASE ready' = [ready EXCEPT ![c] = "closing"] /\ UNCHANGED <<transport, limiters>>
  <2>1. LiveSessions' = LiveSessions
    BY <1>1, <1>3 DEF InboundInv, SessionsOK, LiveSessions, Live
  <2>2. \A d \in Sessions : /\ Live(d)' <=> Live(d)
                            /\ ready[d] # "none" <=> ready'[d] # "none"
                            /\ ready'[d] \in {"none", "open"} => ready[d] \in {"none", "open"}
    BY <1>1, <1>3 DEF InboundInv, SessionsOK, Live
  <2>3. LimitersOK' /\ BudgetsOK'
    BY <1>3, <2>1, <2>2, LimitersSame DEF limiters
  <2>4. MetricsOK' /\ LateOK'
    BY <1>1, <2>2, MetricsSame, LateSame DEF events
  <2>5. SessionsOK' /\ ShapesOK'
    BY <1>1, <1>3, <2>2 DEF InboundInv, SessionsOK, ShapesOK, events
  <2> QED BY <2>3, <2>4, <2>5 DEF InboundInv
<1> QED BY <1>2, <1>3 DEF AppClose

LEMMA ReadMetricsInv ==
  ASSUME InboundInv, ReadMetrics
  PROVE  InboundInv'
<1>1. /\ metricsOn' = TRUE
      /\ dataListeners' = [c \in Sessions |-> IF Live(c) THEN 1 ELSE dataListeners[c]]
      /\ UNCHANGED <<ready, post, loop, checked, events, limiters>>
  BY DEF ReadMetrics, sessions, incoming
<1>2. \A d \in Sessions : Live(d)' <=> Live(d)
  BY <1>1 DEF Live
<1>3. LiveSessions' = LiveSessions
  BY <1>2 DEF LiveSessions
<1>4. LimitersOK' /\ BudgetsOK'
  BY <1>1, <1>3, LimitersSame DEF limiters
<1>5. MetricsOK'
  BY <1>1, <1>2 DEF InboundInv, MetricsOK, events
<1>6. SessionsOK' /\ ShapesOK' /\ LateOK'
  BY <1>1 DEF InboundInv, SessionsOK, ShapesOK, LateOK, events
<1> QED BY <1>4, <1>5, <1>6 DEF InboundInv

\* The clock, and the callback of the shared timer.
LEMMA ClockInv ==
  ASSUME InboundInv, SharedTick \/ TimePasses
  PROVE  InboundInv'
<1>1. UNCHANGED <<ready, post, loop, checked, events, metrics>>
  BY DEF SharedTick, TimePasses, sessions, incoming
<1>2. LiveSessions' = LiveSessions
  BY <1>1 DEF LiveSessions, Live
<1>3. LimitersOK' /\ BudgetsOK'
  <2>1. CASE TimePasses
    BY <1>1, <1>2, <2>1, LimitersSame DEF TimePasses, Elapse
  <2>2. CASE SharedTick
    <3>1. /\ UNCHANGED <<activeLimiters, sharedTimer>>
          /\ remaining' = [l \in Sessions |-> IF l \in Due THEN MaxMessages ELSE remaining[l]]
          /\ inWindow' = [l \in Sessions |-> IF l \in Due THEN 0 ELSE inWindow[l]]
      BY <2>2 DEF SharedTick, ResetDue, Sessions
    <3>2. remaining \in [Sessions -> Nat] /\ inWindow \in [Sessions -> Nat] /\ MaxMessages \in Nat
      BY RateLimiterAssumption DEF InboundInv, LimitersOK, Sessions
    <3>3. LimitersOK'
      BY <1>2, <3>1, <3>2 DEF InboundInv, LimitersOK, Sessions
    <3>4. BudgetsOK'
      BY <1>1, <3>1, <3>2 DEF InboundInv, BudgetsOK
    <3> QED BY <3>3, <3>4
  <2> QED BY <2>1, <2>2
<1>4. MetricsOK' /\ LateOK'
  BY <1>1, MetricsSame, LateSame DEF Live, events
<1>5. SessionsOK' /\ ShapesOK'
  BY <1>1 DEF InboundInv, SessionsOK, ShapesOK, events
<1> QED BY <1>3, <1>4, <1>5 DEF InboundInv

LEMMA WsMessageInv ==
  ASSUME InboundInv, NEW c \in Sessions, WsMessage(c)
  PROVE  InboundInv'
<1>1. NoLoop /\ Live(c) /\ UNCHANGED <<ready, transport, post, checked, metrics>>
  BY DEF WsMessage, sessions
<1>2. ready[c] # "none" /\ ~checked
  BY <1>1, InboundAssumption DEF Live, NoLoop, Idle, InboundInv, SessionsOK
<1>3. CASE \E data : ready[c] = "open" /\ Receive(c, data) /\ UNCHANGED loop
  <2>1. PICK data : ready[c] = "open" /\ Receive(c, data) /\ UNCHANGED loop
    BY <1>3
  <2>2. /\ LimitersOK' /\ BudgetsOK' /\ MetricsOK'
        /\ DOMAIN heard' = Sessions /\ DOMAIN dropped' = Sessions
    BY <1>1, <1>2, <2>1, ReceiveOK
  <2>3. LateOK'
    BY <1>1, <1>2, <2>1, ReceiveLate DEF InboundInv, LateOK
  <2>4. SessionsOK' /\ ShapesOK'
    BY <1>1, <2>1, <2>2 DEF InboundInv, SessionsOK, ShapesOK
  <2> QED BY <2>2, <2>3, <2>4 DEF InboundInv
<1>4. CASE UNCHANGED <<events, limiters>> /\ \E packets : loop' = [by |-> c, via |-> "websocket", packets |-> packets]
  <2>1. PICK packets : loop' = [by |-> c, via |-> "websocket", packets |-> packets]
    BY <1>4
  <2>2. loop'.by = c /\ DOMAIN loop' = {"by", "via", "packets"}
    BY <2>1
  <2>3. DOMAIN post' = Sessions /\ checked' \in BOOLEAN /\ ~checked'
    BY <1>1, <1>2 DEF InboundInv, ShapesOK, SessionsOK
  <2> QED BY <1>1, <1>2, <1>4, <2>2, <2>3, QuietInv
<1>5. CASE UNCHANGED <<events, limiters, loop>>
  <2>1. DOMAIN post' = Sessions /\ DOMAIN loop' = {"by", "via", "packets"}
    BY <1>1, <1>5 DEF InboundInv, ShapesOK
  <2> QED BY <1>1, <1>5, <2>1, QuietInv
<1> QED BY <1>3, <1>4, <1>5 DEF WsMessage

\* The loop goes on to the next packet.
LEMMA NextPacketOK ==
  ASSUME InboundInv, NextPacket
  PROVE  loop'.by = loop.by /\ DOMAIN loop' = {"by", "via", "packets"}
BY DEF InboundInv, ShapesOK, NextPacket

LEMMA PacketArrivesInv ==
  ASSUME InboundInv, PacketArrives
  PROVE  InboundInv'
<1>1. ~checked /\ UNCHANGED <<post, events, metrics>>
  BY DEF PacketArrives
<1>2. /\ DOMAIN post = Sessions /\ DOMAIN loop = {"by", "via", "packets"} /\ checked \in BOOLEAN
      /\ loop.by \in Sessions => ready[loop.by] # "none"
  BY DEF InboundInv, ShapesOK, SessionsOK
<1>3. loop.packets # <<>> /\ loop.by \in Sessions /\ DOMAIN post' = Sessions
  BY <1>1, <1>2 DEF PacketArrives, InboundInv, SessionsOK
<1>4. CASE NextPacket /\ UNCHANGED checked
           /\ ((Live(loop.by) /\ OnClose(loop.by)) \/ UNCHANGED <<ready, limiters>>)
  <2>1. loop'.by = loop.by /\ DOMAIN loop' = {"by", "via", "packets"}
    BY <1>4, NextPacketOK
  <2>2. \/ \E c \in Sessions : Live(c) /\ OnClose(c)
        \/ UNCHANGED <<ready, limiters>>
    BY <1>3, <1>4
  <2>3. checked' \in BOOLEAN /\ ~checked'
    BY <1>1, <1>2, <1>4
  <2> QED BY <1>1, <1>2, <1>3, <2>1, <2>2, <2>3, QuietInv
<1>5. CASE ready[loop.by] = "open" /\ checked' = TRUE /\ UNCHANGED <<ready, limiters, loop>>
  <2>1. /\ DOMAIN loop' = {"by", "via", "packets"} /\ loop'.by \in Sessions
        /\ ready[loop'.by] = "open" /\ checked' \in BOOLEAN
    BY <1>2, <1>3, <1>5
  <2> QED BY <1>1, <1>3, <1>5, <2>1, QuietInv
<1> QED BY <1>4, <1>5 DEF PacketArrives, Bound, sessions

LEMMA PacketHandledInv ==
  ASSUME InboundInv, PacketHandled
  PROVE  InboundInv'
<1> DEFINE c == loop.by
<1>1. /\ checked /\ checked' = FALSE /\ NextPacket
      /\ UNCHANGED <<post, sent, packetsSent, metrics>>
  BY DEF PacketHandled
<1>2. c \in Sessions /\ ready[c] # "none" /\ late[c] = 0 /\ DOMAIN post' = Sessions
  BY <1>1 DEF InboundInv, SessionsOK, LateOK, ShapesOK
<1>3. loop'.by = c /\ DOMAIN loop' = {"by", "via", "packets"}
  BY <1>1, NextPacketOK
<1> HIDE DEF c
<1>4. CASE \E data : Receive(c, data) /\ UNCHANGED sessions
  <2>1. PICK data : Receive(c, data) /\ UNCHANGED ready
    BY <1>4 DEF sessions
  <2>2. /\ LimitersOK' /\ BudgetsOK' /\ MetricsOK'
        /\ DOMAIN heard' = Sessions /\ DOMAIN dropped' = Sessions
    BY <1>1, <1>2, <2>1, ReceiveOK
  <2>3. LateOK'
    BY <1>1, <1>2, <2>1, ReceiveLate
  <2>4. SessionsOK' /\ ShapesOK'
    BY <1>1, <1>2, <1>3, <2>1, <2>2 DEF InboundInv, SessionsOK, ShapesOK
  <2> QED BY <2>2, <2>3, <2>4 DEF InboundInv
<1>5. CASE UNCHANGED events /\ ((Live(c) /\ OnClose(c)) \/ UNCHANGED <<ready, limiters>>)
  <2>1. \/ \E d \in Sessions : Live(d) /\ OnClose(d)
        \/ UNCHANGED <<ready, limiters>>
    BY <1>2, <1>5
  <2> QED BY <1>1, <1>2, <1>3, <1>5, <2>1, QuietInv
<1> QED BY <1>4, <1>5 DEF PacketHandled, sessions, c

LEMMA LoopEndsInv ==
  ASSUME InboundInv, LoopEnds
  PROVE  InboundInv'
<1>1. loop' = Idle /\ UNCHANGED <<ready, post, checked, events, metrics, limiters>>
      /\ loop.by # Nobody /\ loop.packets = <<>>
  BY DEF LoopEnds, sessions
<1>2. loop'.by = Nobody /\ loop'.packets = <<>> /\ DOMAIN loop' = {"by", "via", "packets"}
  BY <1>1 DEF Idle
<1>3. ~checked /\ checked' \in BOOLEAN /\ ~checked' /\ DOMAIN post' = Sessions
      /\ Nobody \notin Sessions
  BY <1>1, InboundAssumption DEF InboundInv, SessionsOK, ShapesOK
<1> QED BY <1>1, <1>2, <1>3, QuietInv

\* The beginning and the end of a POST.
LEMMA PostInv ==
  ASSUME InboundInv, NEW c \in Sessions, PostStart(c) \/ PostBody(c) \/ PostFails(c)
  PROVE  InboundInv'
<1>1. NoLoop /\ UNCHANGED <<checked, events, metrics>>
  BY DEF PostStart, PostBody, PostFails
<1>2. DOMAIN post = Sessions /\ DOMAIN loop = {"by", "via", "packets"}
      /\ checked \in BOOLEAN /\ ~checked
  BY <1>1 DEF InboundInv, ShapesOK, SessionsOK, NoLoop, Idle
<1>3. CASE PostStart(c)
  <2>1. PICK p : Live(c) /\ post' = [post EXCEPT ![c] = p]
                 /\ UNCHANGED <<ready, loop, limiters>>
    BY <1>3 DEF PostStart, sessions
  <2>2. DOMAIN post' = Sessions /\ \A d \in Sessions : post'[d] = post[d] \/ Live(d)
    BY <1>2, <2>1
  <2> QED BY <1>1, <1>2, <2>1, <2>2, QuietInv
<1>4. CASE PostBody(c)
  <2>1. /\ post[c] # NoPost /\ post' = [post EXCEPT ![c] = NoPost]
        /\ \E packets : loop' = [by |-> c, via |-> "polling", packets |-> packets]
        /\ UNCHANGED <<ready, limiters>>
    BY <1>4 DEF PostBody, sessions
  <2>2. loop'.by = c /\ DOMAIN loop' = {"by", "via", "packets"} /\ ready[c] # "none"
    BY <2>1 DEF InboundInv, SessionsOK
  <2>3. DOMAIN post' = Sessions /\ \A d \in Sessions : post'[d] # NoPost => post[d] # NoPost
    BY <1>2, <2>1
  <2>4. checked' \in BOOLEAN /\ ~checked'
    BY <1>1, <1>2
  <2> QED BY <1>1, <2>1, <2>2, <2>3, <2>4, QuietInv
<1>5. CASE PostFails(c)
  <2>1. /\ post' = [post EXCEPT ![c] = NoPost] /\ UNCHANGED loop
        /\ (Live(c) /\ OnClose(c)) \/ UNCHANGED <<ready, limiters>>
    BY <1>5 DEF PostFails, sessions
  <2>2. DOMAIN post' = Sessions /\ \A d \in Sessions : post'[d] # NoPost => post[d] # NoPost
    BY <1>2, <2>1
  <2> QED BY <1>1, <1>2, <2>1, <2>2, QuietInv
<1> QED BY <1>3, <1>4, <1>5

\* A session upgrades, or ends for a reason of its own.
LEMMA SessionInv ==
  ASSUME InboundInv, NEW c \in Sessions, Upgrade(c) \/ SessionEnds(c)
  PROVE  InboundInv'
<1>1. UNCHANGED <<post, loop, checked, events, metrics>>
      /\ ((Live(c) /\ OnClose(c)) \/ UNCHANGED <<ready, limiters>>)
  BY DEF Upgrade, SessionEnds, incoming
<1>2. DOMAIN post' = Sessions /\ DOMAIN loop' = {"by", "via", "packets"}
  BY <1>1 DEF InboundInv, ShapesOK
<1>3. \A d \in Sessions : post'[d] # NoPost => post[d] # NoPost
  BY <1>1
<1> QED BY <1>1, <1>2, <1>3, QuietInv

LEMMA InboundStep == InboundInv /\ [Next]_vars => InboundInv'
<1> SUFFICES ASSUME InboundInv, [Next]_vars
             PROVE  InboundInv'
  OBVIOUS
<1>1. ASSUME NEW c \in Sessions,
             \/ Handshake(c) \/ Upgrade(c) \/ SessionEnds(c) \/ AppClose(c)
             \/ PostStart(c) \/ PostBody(c) \/ PostFails(c) \/ WsMessage(c)
      PROVE  InboundInv'
  BY <1>1, HandshakeInv, SessionInv, AppCloseInv, PostInv, WsMessageInv
<1>2. CASE ReadMetrics
  BY <1>2, ReadMetricsInv
<1>3. CASE PacketArrives \/ PacketHandled \/ LoopEnds
  BY <1>3, PacketArrivesInv, PacketHandledInv, LoopEndsInv
<1>4. CASE SharedTick \/ TimePasses
  BY <1>4, ClockInv
<1>5. CASE UNCHANGED vars
  <2>1. LiveSessions' = LiveSessions /\ \A d \in Sessions : Live(d)' <=> Live(d)
    BY <1>5 DEF LiveSessions, Live, vars, sessions
  <2> QED BY <1>5, <2>1 DEF vars, sessions, incoming, events, metrics, limiters, InboundInv,
             SessionsOK, ShapesOK, LimitersOK, BudgetsOK, MetricsOK, LateOK
<1> QED BY <1>1, <1>2, <1>3, <1>4, <1>5 DEF Next

-----------------------------------------------------------------------------
(* The specification *)

THEOREM InboundInvariant == Spec => []InboundInv
BY InboundInit, InboundStep, PTL DEF Spec

\* The one timer runs exactly while a session lives, for any number of them.
THEOREM TimerIsShared == Spec => []TimerShared
<1>1. InboundInv => TimerShared
  BY DEF InboundInv, LimitersOK, LiveSessions, TimerShared
<1> QED BY <1>1, InboundInvariant, PTL

\* One message at most is heard after the session began to close.
THEOREM ClosedAreDeaf == Spec => []DeafAfterClose
<1>1. InboundInv => DeafAfterClose
  BY DEF InboundInv, LateOK, DeafAfterClose
<1> QED BY <1>1, InboundInvariant, PTL

\* A session and a message are what a step that changes this is about.
HearsFor(d) == ready[d] # "none" /\ \E data : Receive(d, data)

LEMMA OnlyReceive ==
  ASSUME InboundInv, Next
  PROVE  UNCHANGED <<heard, dropped>> \/ \E d \in Sessions : HearsFor(d)
<1>1. ASSUME NEW c \in Sessions, WsMessage(c)
      PROVE  UNCHANGED <<heard, dropped>> \/ HearsFor(c)
  <2>1. ready[c] # "none"
    BY <1>1 DEF WsMessage, Live
  <2> QED BY <1>1, <2>1 DEF WsMessage, HearsFor, events
<1>2. ASSUME PacketHandled
      PROVE  UNCHANGED <<heard, dropped>> \/ \E d \in Sessions : HearsFor(d)
  <2>1. loop.by \in Sessions /\ ready[loop.by] # "none"
    BY <1>2 DEF PacketHandled, InboundInv, SessionsOK
  <2>2. UNCHANGED <<heard, dropped>> \/ HearsFor(loop.by)
    BY <1>2, <2>1 DEF PacketHandled, HearsFor, events
  <2> QED BY <2>1, <2>2
<1>3. ASSUME NEW c \in Sessions,
             \/ Handshake(c) \/ Upgrade(c) \/ SessionEnds(c) \/ AppClose(c)
             \/ PostStart(c) \/ PostBody(c) \/ PostFails(c)
      PROVE  UNCHANGED <<heard, dropped>>
  BY <1>3 DEF Handshake, Upgrade, SessionEnds, AppClose, PostStart, PostBody, PostFails, events
<1>4. ASSUME ReadMetrics \/ PacketArrives \/ LoopEnds \/ SharedTick \/ TimePasses
      PROVE  UNCHANGED <<heard, dropped>>
  BY <1>4 DEF ReadMetrics, PacketArrives, LoopEnds, SharedTick, TimePasses, events
<1> QED BY <1>1, <1>2, <1>3, <1>4 DEF Next

\* A message is refused only when the budget of its window has been heard.
THEOREM DropsAreDue == Spec => DroppedOnlyWhenSpent
<1>1. InboundInv /\ [Next]_vars =>
        [\A c \in Sessions : dropped'[c] # dropped[c] => inWindow[c] = MaxMessages]_vars
  <2> SUFFICES ASSUME InboundInv, Next, NEW c \in Sessions, dropped'[c] # dropped[c]
               PROVE  inWindow[c] = MaxMessages
    BY DEF vars, events
  <2>1. PICK d \in Sessions : HearsFor(d)
    BY OnlyReceive
  <2>2. PICK data : Receive(d, data)
    BY <2>1 DEF HearsFor
  <2>3. ~Allowed(d) /\ dropped' = [dropped EXCEPT ![d] = @ + 1]
    BY <2>2 DEF Receive
  <2>4. c = d
    BY <2>3 DEF InboundInv, ShapesOK
  <2>5. remaining[c] + inWindow[c] = MaxMessages /\ remaining[c] \in Nat /\ inWindow[c] \in Nat
    BY <2>1, <2>4 DEF HearsFor, InboundInv, BudgetsOK, LimitersOK, Sessions
  <2> QED BY <2>3, <2>4, <2>5 DEF Allowed
<1> QED BY <1>1, InboundInvariant, PTL DEF Spec, DroppedOnlyWhenSpent

\* Once anyone has looked at the metrics, no message of a live session is
\* missed or counted twice.
THEOREM CountsAreExact == Spec => CountedOnce
<1>1. InboundInv /\ [Next]_vars =>
        [\A c \in Sessions : heard'[c] # heard[c] /\ Live(c) =>
           counted' = counted + (IF metricsOn THEN 1 ELSE 0)]_vars
  <2> SUFFICES ASSUME InboundInv, Next, NEW c \in Sessions, heard'[c] # heard[c], Live(c)
               PROVE  counted' = counted + (IF metricsOn THEN 1 ELSE 0)
    BY DEF vars, events
  <2>1. PICK d \in Sessions : HearsFor(d)
    BY OnlyReceive
  <2>2. PICK data : Receive(d, data)
    BY <2>1 DEF HearsFor
  <2>3. heard' = [heard EXCEPT ![d] = Append(@, data)] /\ counted' = counted + dataListeners[d]
    BY <2>2 DEF Receive
  <2>4. c = d
    BY <2>3 DEF InboundInv, ShapesOK
  <2>5. dataListeners[c] = IF metricsOn THEN 1 ELSE 0
    BY DEF InboundInv, MetricsOK
  <2> QED BY <2>3, <2>4, <2>5
<1> QED BY <1>1, InboundInvariant, PTL DEF Spec, CountedOnce

-----------------------------------------------------------------------------
(* Bursts *)

AgesTyped ==
  /\ untilReset \in [Sessions -> 0 .. WindowMs]
  /\ ages \in [Sessions -> Seq(0 .. WindowMs)]
  /\ \A c \in Sessions : ready[c] = "none" => ages[c] = <<>>

\* The messages heard before the window of a session are at least as old as
\* that window, and those before its predecessor's are a window old.
AgedOK(c) ==
  \A i \in 1 .. Len(ages[c]) :
    /\ i + inWindow[c] <= Len(ages[c]) => ages[c][i] + untilReset[c] >= WindowMs
    /\ i + inWindow[c] + MaxMessages <= Len(ages[c]) => ages[c][i] = WindowMs

AgesInv == AgesTyped /\ \A c \in Sessions : AgedOK(c)

\* What a step does to the windows and the ages.
Untouched ==
  /\ UNCHANGED <<remaining, untilReset, inWindow, ages>>
  /\ \A d \in Sessions : ready'[d] = "none" => ready[d] = "none"
Constructs(c) == ready[c] = "none" /\ Construct(c) /\ ready' = [ready EXCEPT ![c] = "open"]
Consumes(c) == ready[c] # "none" /\ Consume(c) /\ UNCHANGED ready

\* A session that closes keeps its window and its ages.
LEMMA CloseKeepsAges ==
  ASSUME InboundInv, NEW c \in Sessions, OnClose(c)
  PROVE  Untouched
BY DEF InboundInv, SessionsOK, OnClose, Destroy, Untouched

\* What a sequence is, and a function that is one.
LEMMA SequenceOf ==
  ASSUME NEW S, NEW s \in Seq(S)
  PROVE  Len(s) \in Nat /\ DOMAIN s = 1 .. Len(s) /\ \A i \in 1 .. Len(s) : s[i] \in S
OBVIOUS

LEMMA AsSequence ==
  ASSUME NEW S, NEW n \in Nat, NEW f \in [1 .. n -> S]
  PROVE  f \in Seq(S) /\ Len(f) = n
OBVIOUS

\* A message that is refused touches nothing.
LEMMA ReceiveTouches ==
  ASSUME NEW c \in Sessions, NEW data, ready[c] # "none", Receive(c, data), UNCHANGED ready
  PROVE  Untouched \/ Consumes(c)
BY DEF Receive, Consumes, Untouched, limiters

\* What any step does to the windows and the ages.
LEMMA StepTouches ==
  ASSUME InboundInv, Next
  PROVE  \/ Untouched
         \/ \E c \in Sessions : Constructs(c) \/ Consumes(c)
         \/ (ResetDue \/ Elapse) /\ UNCHANGED ready
<1>1. ASSUME NEW c \in Sessions, Handshake(c) PROVE Constructs(c)
  BY <1>1 DEF Handshake, Constructs
<1>2. ASSUME NEW c \in Sessions, AppClose(c) PROVE Untouched
  <2>1. CASE OnClose(c)
    BY <2>1, CloseKeepsAges
  <2>2. CASE ready' = [ready EXCEPT ![c] = "closing"] /\ UNCHANGED limiters
    BY <2>2 DEF InboundInv, SessionsOK, Untouched, limiters
  <2> QED BY <1>2, <2>1, <2>2 DEF AppClose
<1>3. ASSUME NEW c \in Sessions, SessionEnds(c) \/ PostFails(c) PROVE Untouched
  <2>1. OnClose(c) \/ UNCHANGED <<sessions, limiters>>
    BY <1>3 DEF SessionEnds, PostFails
  <2>2. CASE UNCHANGED <<sessions, limiters>>
    BY <2>2 DEF Untouched, sessions, limiters
  <2> QED BY <2>1, <2>2, CloseKeepsAges
<1>4. ASSUME NEW c \in Sessions, Upgrade(c) \/ PostStart(c) \/ PostBody(c) PROVE Untouched
  BY <1>4 DEF Upgrade, PostStart, PostBody, sessions, limiters, Untouched
<1>5. ASSUME NEW c \in Sessions, WsMessage(c) PROVE Untouched \/ Consumes(c)
  <2>1. UNCHANGED ready /\ ready[c] # "none"
    BY <1>5 DEF WsMessage, sessions, Live
  <2>2. UNCHANGED limiters \/ \E data : Receive(c, data)
    BY <1>5 DEF WsMessage
  <2>3. CASE UNCHANGED limiters
    BY <2>1, <2>3 DEF Untouched, limiters
  <2> QED BY <2>1, <2>2, <2>3, ReceiveTouches
<1>6. ASSUME PacketArrives PROVE Untouched
  <2>1. loop.by \in Sessions
    BY <1>6 DEF PacketArrives, InboundInv, SessionsOK
  <2>2. OnClose(loop.by) \/ UNCHANGED <<sessions, limiters>>
    BY <1>6 DEF PacketArrives
  <2>3. CASE UNCHANGED <<sessions, limiters>>
    BY <2>3 DEF Untouched, sessions, limiters
  <2> QED BY <2>1, <2>2, <2>3, CloseKeepsAges
<1>7. ASSUME PacketHandled
      PROVE  Untouched \/ \E c \in Sessions : Consumes(c)
  <2>1. loop.by \in Sessions /\ ready[loop.by] # "none"
    BY <1>7 DEF PacketHandled, InboundInv, SessionsOK
  <2>2. \/ OnClose(loop.by)
        \/ UNCHANGED <<sessions, limiters>>
        \/ UNCHANGED sessions /\ \E data : Receive(loop.by, data)
    BY <1>7 DEF PacketHandled
  <2>3. CASE UNCHANGED <<sessions, limiters>>
    BY <2>3 DEF Untouched, sessions, limiters
  <2>4. CASE UNCHANGED sessions /\ \E data : Receive(loop.by, data)
    BY <2>1, <2>4, ReceiveTouches DEF sessions
  <2> QED BY <2>1, <2>2, <2>3, <2>4, CloseKeepsAges
<1>8. ASSUME ReadMetrics \/ LoopEnds PROVE Untouched
  BY <1>8 DEF ReadMetrics, LoopEnds, sessions, limiters, Untouched
<1>9. ASSUME SharedTick \/ TimePasses
      PROVE  (ResetDue \/ Elapse) /\ UNCHANGED ready
  BY <1>9 DEF SharedTick, TimePasses, sessions
<1> QED BY <1>1, <1>2, <1>3, <1>4, <1>5, <1>6, <1>7, <1>8, <1>9 DEF Next

\* The budget of a window bounds what is heard in it.
LEMMA WindowBounded ==
  ASSUME InboundInv, NEW c \in Sessions, ready[c] # "none"
  PROVE  inWindow[c] \in 0 .. MaxMessages
<1>1. remaining[c] \in Nat /\ inWindow[c] \in Nat /\ remaining[c] + inWindow[c] = MaxMessages
  BY DEF InboundInv, LimitersOK, BudgetsOK, Sessions
<1> QED BY <1>1, RateLimiterAssumption

\* A message is heard: it is the youngest, and of this window.
LEMMA ConsumeAges ==
  ASSUME InboundInv, AgesInv, NEW c \in Sessions, Consumes(c)
  PROVE  AgesInv'
<1>1. /\ ages' = [ages EXCEPT ![c] = Append(ages[c], 0)]
      /\ inWindow' = [inWindow EXCEPT ![c] = inWindow[c] + 1]
      /\ UNCHANGED <<untilReset, ready>>
  BY DEF Consumes, Consume
<1>2. /\ ages \in [Sessions -> Seq(0 .. WindowMs)] /\ inWindow \in [Sessions -> Nat]
      /\ untilReset \in [Sessions -> 0 .. WindowMs] /\ WindowMs \in Nat /\ MaxMessages \in Nat
  BY RateLimiterAssumption DEF InboundInv, LimitersOK, AgesInv, AgesTyped, Sessions
<1>3. 0 \in 0 .. WindowMs
  BY <1>2
<1>4. AgesTyped'
  <2>1. Append(ages[c], 0) \in Seq(0 .. WindowMs)
    BY <1>2, <1>3
  <2>2. ages' \in [Sessions -> Seq(0 .. WindowMs)]
    BY <1>1, <1>2, <2>1
  <2>3. \A d \in Sessions : ready[d] = "none" => ages'[d] = <<>>
    BY <1>1, <1>2 DEF Consumes, AgesInv, AgesTyped
  <2> QED BY <1>1, <1>2, <2>2, <2>3 DEF AgesTyped
<1>5. ASSUME NEW d \in Sessions
      PROVE  AgedOK(d)'
  <2>1. CASE d # c
    BY <1>1, <1>2, <2>1 DEF AgesInv, AgedOK
  <2>2. CASE d = c
    <3> DEFINE s == ages[c]
               t == Append(s, 0)
    <3>1. s \in Seq(0 .. WindowMs) /\ inWindow[c] \in Nat /\ untilReset[c] \in 0 .. WindowMs
      BY <1>2
    <3>2. Len(t) = Len(s) + 1 /\ \A i \in 1 .. Len(s) : t[i] = s[i]
      BY <3>1
    <3>3. Len(s) \in Nat
      BY <3>1
    <3>4. \A i \in 1 .. Len(s) :
            /\ i + inWindow[c] <= Len(s) => s[i] + untilReset[c] >= WindowMs
            /\ i + inWindow[c] + MaxMessages <= Len(s) => s[i] = WindowMs
      BY DEF AgesInv, AgedOK
    <3>5. ages'[c] = t /\ inWindow'[c] = inWindow[c] + 1 /\ untilReset'[c] = untilReset[c]
      BY <1>1, <1>2
    <3> HIDE DEF s, t
    <3>6. ASSUME NEW i \in 1 .. Len(t), i + (inWindow[c] + 1) <= Len(t)
          PROVE  /\ t[i] + untilReset[c] >= WindowMs
                 /\ i + (inWindow[c] + 1) + MaxMessages <= Len(t) => t[i] = WindowMs
      <4>1. i \in 1 .. Len(s) /\ i + inWindow[c] <= Len(s)
        BY <3>1, <3>2, <3>3, <3>6
      <4>2. t[i] = s[i]
        BY <3>2, <4>1
      <4>3. s[i] + untilReset[c] >= WindowMs
            /\ (i + inWindow[c] + MaxMessages <= Len(s) => s[i] = WindowMs)
        BY <3>4, <4>1
      <4>4. i + (inWindow[c] + 1) + MaxMessages <= Len(t) => i + inWindow[c] + MaxMessages <= Len(s)
        <5>1. i \in Nat /\ MaxMessages \in Nat /\ inWindow[c] \in Nat
          BY <1>2, <3>1, <3>3, <4>1
        <5>2. Len(t) = Len(s) + 1
          BY <3>2
        <5> QED BY ONLY <3>3, <5>1, <5>2
      <4> QED BY <4>2, <4>3, <4>4
    <3>7. \A i \in 1 .. Len(t) :
            i + (inWindow[c] + 1) + MaxMessages <= Len(t) => i + (inWindow[c] + 1) <= Len(t)
      BY <1>2, <3>1, <3>2, <3>3
    <3>8. AgedOK(c)'
      BY <3>5, <3>6, <3>7 DEF AgedOK
    <3> QED BY <2>2, <3>8
  <2> QED BY <2>1, <2>2
<1> QED BY <1>4, <1>5 DEF AgesInv

\* The next windows begin: what was before the last ones is a window old.
LEMMA ResetAges ==
  ASSUME InboundInv, AgesInv, ResetDue, UNCHANGED ready
  PROVE  AgesInv'
<1>1. /\ untilReset' = [d \in Sessions |-> IF d \in Due THEN WindowMs ELSE untilReset[d]]
      /\ inWindow' = [d \in Sessions |-> IF d \in Due THEN 0 ELSE inWindow[d]]
      /\ UNCHANGED ages
  BY DEF ResetDue, Sessions
<1>2. /\ ages \in [Sessions -> Seq(0 .. WindowMs)] /\ inWindow \in [Sessions -> Nat]
      /\ untilReset \in [Sessions -> 0 .. WindowMs] /\ WindowMs \in Nat /\ MaxMessages \in Nat
  BY RateLimiterAssumption DEF InboundInv, LimitersOK, AgesInv, AgesTyped, Sessions
<1>3. AgesTyped'
  BY <1>1, <1>2 DEF AgesInv, AgesTyped
<1>4. ASSUME NEW d \in Sessions, d \in Due
      PROVE  AgedOK(d)'
  <2>1. untilReset[d] = 0 /\ ready[d] # "none"
    BY <1>4 DEF Due, InboundInv, LimitersOK, LiveSessions, Live
  <2>2. inWindow[d] \in 0 .. MaxMessages
    BY <2>1, WindowBounded
  <2>3. untilReset'[d] = WindowMs /\ inWindow'[d] = 0 /\ ages'[d] = ages[d]
    BY <1>1, <1>4
  <2>4. Len(ages[d]) \in Nat /\ \A i \in 1 .. Len(ages[d]) : ages[d][i] \in 0 .. WindowMs
    BY <1>2, SequenceOf
  <2>5. \A i \in 1 .. Len(ages[d]) :
          i + inWindow[d] <= Len(ages[d]) => ages[d][i] + 0 >= WindowMs
    BY <2>1 DEF AgesInv, AgedOK
  <2>6. ASSUME NEW i \in 1 .. Len(ages[d]), i + 0 + MaxMessages <= Len(ages[d])
        PROVE  ages[d][i] = WindowMs
    <3>1. ages[d][i] \in 0 .. WindowMs /\ WindowMs \in Nat
      BY <1>2, <2>4
    <3>2. i + inWindow[d] <= Len(ages[d])
      BY ONLY <2>2, <2>4, <2>6, RateLimiterAssumption
    <3>3. ages[d][i] + 0 >= WindowMs
      BY <2>5, <3>2
    <3> QED BY ONLY <3>1, <3>3
  <2>7. \A i \in 1 .. Len(ages[d]) : ages[d][i] + WindowMs >= WindowMs
    BY <1>2, <2>4
  <2> QED BY <2>3, <2>6, <2>7 DEF AgedOK
<1>5. ASSUME NEW d \in Sessions, d \notin Due
      PROVE  AgedOK(d)'
  BY <1>1, <1>5 DEF AgesInv, AgedOK
<1> QED BY <1>3, <1>4, <1>5 DEF AgesInv

\* A tick: what an age loses to its bound, it does not need.
LEMMA Tick ==
  ASSUME NEW w \in Nat, NEW a \in 0 .. w, NEW u \in Nat, NEW v \in Nat,
         v >= u - 1, a + u >= w
  PROVE  (IF a < w THEN a + 1 ELSE w) + v >= w
<1>1. CASE a < w
  BY <1>1
<1>2. CASE ~(a < w)
  BY <1>2
<1> QED BY <1>1, <1>2

\* What is left of a window goes down by no more than the ages go up.
LEMMA ElapseAges ==
  ASSUME InboundInv, AgesInv, Elapse, UNCHANGED ready
  PROVE  AgesInv'
<1> DEFINE older(n) == IF n < WindowMs THEN n + 1 ELSE WindowMs
<1>1. /\ untilReset' = [d \in Sessions |->
           IF d \in activeLimiters /\ untilReset[d] > 0 THEN untilReset[d] - 1 ELSE untilReset[d]]
      /\ ages' = [d \in Sessions |-> [i \in DOMAIN ages[d] |-> older(ages[d][i])]]
      /\ UNCHANGED inWindow
  BY DEF Elapse, Sessions
<1>2. /\ ages \in [Sessions -> Seq(0 .. WindowMs)] /\ inWindow \in [Sessions -> Nat]
      /\ untilReset \in [Sessions -> 0 .. WindowMs] /\ WindowMs \in Nat /\ MaxMessages \in Nat
  BY RateLimiterAssumption DEF InboundInv, LimitersOK, AgesInv, AgesTyped, Sessions
<1>3. ASSUME NEW d \in Sessions
      PROVE  /\ ages'[d] \in Seq(0 .. WindowMs) /\ Len(ages'[d]) = Len(ages[d])
             /\ \A i \in 1 .. Len(ages[d]) : ages[d][i] \in 0 .. WindowMs
                                             /\ ages'[d][i] = older(ages[d][i])
  <2>1. ages[d] \in Seq(0 .. WindowMs)
    BY <1>2
  <2>2. /\ Len(ages[d]) \in Nat /\ DOMAIN ages[d] = 1 .. Len(ages[d])
        /\ \A i \in 1 .. Len(ages[d]) : ages[d][i] \in 0 .. WindowMs
    BY <2>1, SequenceOf
  <2>3. \A i \in 1 .. Len(ages[d]) : older(ages[d][i]) \in 0 .. WindowMs
    BY <1>2, <2>2
  <2>4. ages'[d] = [i \in 1 .. Len(ages[d]) |-> older(ages[d][i])]
    BY <1>1, <2>2
  <2> HIDE DEF older
  <2>5. ages'[d] \in [1 .. Len(ages[d]) -> 0 .. WindowMs]
    BY <2>3, <2>4
  <2>6. ages'[d] \in Seq(0 .. WindowMs) /\ Len(ages'[d]) = Len(ages[d])
    BY <2>2, <2>5, AsSequence
  <2> QED BY <2>2, <2>4, <2>6
<1>4. AgesTyped'
  <2>1. ages' \in [Sessions -> Seq(0 .. WindowMs)]
    BY <1>1, <1>3
  <2>2. untilReset' \in [Sessions -> 0 .. WindowMs]
    BY <1>1, <1>2
  <2>3. \A d \in Sessions : ready'[d] = "none" => ages'[d] = <<>>
    BY <1>3 DEF AgesInv, AgesTyped
  <2> QED BY <2>1, <2>2, <2>3 DEF AgesTyped
<1>5. ASSUME NEW d \in Sessions
      PROVE  AgedOK(d)'
  <2>1. untilReset[d] \in Nat /\ untilReset'[d] \in Nat /\ untilReset'[d] >= untilReset[d] - 1
    BY <1>1, <1>2
  <2>2. inWindow'[d] = inWindow[d]
    BY <1>1
  <2>3. ASSUME NEW i \in 1 .. Len(ages[d])
        PROVE  /\ ages[d][i] = WindowMs => ages'[d][i] = WindowMs
               /\ ages[d][i] + untilReset[d] >= WindowMs => ages'[d][i] + untilReset'[d] >= WindowMs
    <3>1. ages[d][i] \in 0 .. WindowMs
          /\ ages'[d][i] = IF ages[d][i] < WindowMs THEN ages[d][i] + 1 ELSE WindowMs
      BY <1>3
    <3>2. WindowMs \in Nat
      BY <1>2
    <3>3. ages[d][i] = WindowMs => ages'[d][i] = WindowMs
      BY <3>1, <3>2
    <3> QED BY <2>1, <3>1, <3>2, <3>3, Tick
  <2>4. \A i \in 1 .. Len(ages[d]) :
          /\ i + inWindow[d] <= Len(ages[d]) => ages[d][i] + untilReset[d] >= WindowMs
          /\ i + inWindow[d] + MaxMessages <= Len(ages[d]) => ages[d][i] = WindowMs
    BY DEF AgesInv, AgedOK
  <2>5. Len(ages'[d]) = Len(ages[d])
    BY <1>3
  <2> QED BY <2>2, <2>3, <2>4, <2>5 DEF AgedOK
<1> QED BY <1>4, <1>5 DEF AgesInv

LEMMA AgesInit == Init => AgesInv
<1> SUFFICES ASSUME Init PROVE AgesInv
  OBVIOUS
<1>1. ages = [l \in Sessions |-> <<>>] /\ untilReset = [l \in Sessions |-> 0] /\ WindowMs \in Nat
  BY RateLimiterAssumption DEF Init, InitLimiters, Sessions
<1>2. AgesTyped
  BY <1>1 DEF AgesTyped
<1>3. \A c \in Sessions : Len(ages[c]) = 0
  BY <1>1
<1>4. \A c \in Sessions : AgedOK(c)
  BY <1>3 DEF AgedOK
<1> QED BY <1>2, <1>4 DEF AgesInv

LEMMA AgesStep == InboundInv /\ AgesInv /\ [Next]_vars => AgesInv'
<1> SUFFICES ASSUME InboundInv, AgesInv, [Next]_vars
             PROVE  AgesInv'
  OBVIOUS
<1>1. CASE Untouched \/ UNCHANGED vars
  BY <1>1 DEF Untouched, AgesInv, AgesTyped, AgedOK, vars, sessions, limiters
<1>2. ASSUME NEW c \in Sessions, Constructs(c)
      PROVE  AgesInv'
  <2>1. /\ untilReset' = [untilReset EXCEPT ![c] = WindowMs]
        /\ inWindow' = [inWindow EXCEPT ![c] = 0]
        /\ ready' = [ready EXCEPT ![c] = "open"] /\ UNCHANGED ages
    BY <1>2 DEF Constructs, Construct
  <2>2. ages[c] = <<>> /\ WindowMs \in Nat
    BY <1>2, RateLimiterAssumption DEF Constructs, AgesInv, AgesTyped
  <2>3. AgesTyped'
    BY <2>1, <2>2 DEF AgesInv, AgesTyped, InboundInv, SessionsOK
  <2>4. AgedOK(c)'
    BY <2>1, <2>2 DEF AgedOK
  <2>5. \A d \in Sessions \ {c} : AgedOK(d)'
    BY <2>1 DEF AgesInv, AgedOK, InboundInv, LimitersOK, AgesTyped, Sessions
  <2> QED BY <2>3, <2>4, <2>5 DEF AgesInv
<1> QED BY <1>1, <1>2, StepTouches, ConsumeAges, ResetAges, ElapseAges

\* However the callbacks of the shared timer fall, and however long each is
\* late, no span of a window holds more than two windows' worth of messages.
THEOREM BurstsAreBounded == Spec => []BurstBounded
<1>1. InboundInv /\ AgesInv => BurstBounded
  <2> SUFFICES ASSUME InboundInv, AgesInv, NEW c \in Sessions, NEW i \in DOMAIN ages[c],
                      i + 2 * MaxMessages <= Len(ages[c])
               PROVE  ages[c][i] = WindowMs
    BY DEF BurstBounded
  <2>1. ages[c] \in Seq(0 .. WindowMs) /\ MaxMessages \in Nat
    BY RateLimiterAssumption DEF AgesInv, AgesTyped
  <2>2. i \in 1 .. Len(ages[c]) /\ Len(ages[c]) \in Nat
    BY <2>1
  <2>3. ready[c] # "none"
    BY <2>2 DEF AgesInv, AgesTyped
  <2>4. inWindow[c] \in 0 .. MaxMessages
    BY <2>3, WindowBounded
  <2>5. i + inWindow[c] + MaxMessages <= Len(ages[c])
    BY <2>1, <2>2, <2>4
  <2> QED BY <2>2, <2>5 DEF AgesInv, AgedOK
<1>2. Init => InboundInv /\ AgesInv
  BY InboundInit, AgesInit
<1>3. InboundInv /\ AgesInv /\ [Next]_vars => (InboundInv /\ AgesInv)'
  BY InboundStep, AgesStep
<1> QED BY <1>1, <1>2, <1>3, PTL DEF Spec

-----------------------------------------------------------------------------
(* The messages of a peer *)

\* The messages among the first k packets.
Count(kinds, k) == Cardinality({j \in 1 .. k : kinds[j] = "message"})

LEMMA CountGoesOn ==
  ASSUME NEW kinds, NEW k \in Nat
  PROVE  /\ Count(kinds, 0) = 0 /\ Count(kinds, k) \in Nat
         /\ kinds[k + 1] = "message" => Count(kinds, k + 1) = Count(kinds, k) + 1
         /\ kinds[k + 1] # "message" => Count(kinds, k + 1) = Count(kinds, k)
<1> DEFINE C(m) == {j \in 1 .. m : kinds[j] = "message"}
<1>1. C(0) = {}
  OBVIOUS
<1>2. IsFiniteSet(C(k)) /\ Cardinality(C(k)) \in Nat
  <2>1. IsFiniteSet(1 .. k) /\ C(k) \in SUBSET (1 .. k)
    BY FS_Interval
  <2> QED BY <2>1, FS_Subset, FS_CardinalityType
<1>3. k + 1 \notin C(k)
  OBVIOUS
<1>4. CASE kinds[k + 1] = "message"
  <2>1. C(k + 1) = C(k) \cup {k + 1}
    BY <1>4
  <2>2. Cardinality(C(0)) = 0
    BY <1>1, FS_EmptySet
  <2> HIDE DEF C
  <2>3. Cardinality(C(k) \cup {k + 1}) = Cardinality(C(k)) + 1
    BY <1>2, <1>3, FS_AddElement
  <2>4. Cardinality(C(k + 1)) = Cardinality(C(k)) + 1
    BY <2>1, <2>3
  <2> QED BY <1>2, <1>4, <2>2, <2>4 DEF Count, C
<1>5. CASE kinds[k + 1] # "message"
  <2>1. C(k + 1) = C(k)
    BY <1>5
  <2> QED BY <1>1, <1>2, <1>5, <2>1, FS_EmptySet DEF Count
<1> QED BY <1>4, <1>5

\* A message is counted behind those before it, and among all.
LEMMA CountRises ==
  ASSUME NEW kinds, NEW q \in Nat, NEW p \in 0 .. q
  PROVE  /\ Count(kinds, p) \in Nat /\ Count(kinds, q) \in Nat /\ Count(kinds, p) <= Count(kinds, q)
         /\ p < q /\ kinds[q] = "message" => Count(kinds, p) < Count(kinds, q)
<1> DEFINE C(m) == {j \in 1 .. m : kinds[j] = "message"}
<1>1. IsFiniteSet(1 .. q) /\ C(q) \in SUBSET (1 .. q)
  BY FS_Interval
<1>2. IsFiniteSet(C(q))
  BY <1>1, FS_Subset
<1>3. C(p) \in SUBSET C(q)
  OBVIOUS
<1>4. /\ Cardinality(C(p)) <= Cardinality(C(q))
      /\ Cardinality(C(p)) = Cardinality(C(q)) => C(p) = C(q)
      /\ Cardinality(C(p)) \in Nat /\ Cardinality(C(q)) \in Nat
  BY <1>2, <1>3, FS_Subset, FS_CardinalityType
<1>5. p < q /\ kinds[q] = "message" => q \in C(q) /\ q \notin C(p)
  OBVIOUS
<1> HIDE DEF C
<1>6. p < q /\ kinds[q] = "message" => Cardinality(C(p)) < Cardinality(C(q))
  BY <1>4, <1>5
<1> QED BY <1>4, <1>6 DEF Count, C

\* Messages are told apart, and put in order, by what they contain.
Before(data, other) == data.body[1] < other.body[1]

LEMMA MessageIs ==
  ASSUME NEW n \in Nat
  PROVE  /\ Message(n) \in RawData /\ Message(n).body \in Seq(Nat) /\ Len(Message(n).body) = 1
         /\ Message(n).binary \in BOOLEAN
         /\ Message(n).body[1] \in Nat /\ Message(n).body[1] # SEPARATOR
         /\ Message(n).body[1] = IF n < SEPARATOR THEN n ELSE n + 1
<1> DEFINE char == IF n < SEPARATOR THEN n ELSE n + 1
           body == <<char>>
           even == (n % 2 = 0)
<1>1. char \in Nat /\ char # SEPARATOR
  BY DEF SEPARATOR
<1>2. Message(n) = [binary |-> even, body |-> body]
  BY DEF Message
<1>3. Message(n).body = body /\ Message(n).binary = even
  BY <1>2
<1> HIDE DEF char
<1>4. body \in Seq(Nat) /\ Len(body) = 1 /\ body[1] = char
  BY <1>1
<1>5. even \in BOOLEAN
  OBVIOUS
<1> HIDE DEF body, even
<1>6. Message(n) \in RawData
  <2>1. [binary |-> TRUE, body |-> body] \in RawData /\ [binary |-> FALSE, body |-> body] \in RawData
    BY <1>4 DEF RawData
  <2>2. even = TRUE \/ even = FALSE
    BY <1>5
  <2> QED BY <1>2, <2>1, <2>2, Zenon
<1> QED BY <1>1, <1>3, <1>4, <1>5, <1>6 DEF char

LEMMA MessagesRise ==
  ASSUME NEW n \in Nat, NEW m \in Nat
  PROVE  Before(Message(m), Message(n)) <=> m < n
<1>1. /\ Message(n).body[1] = IF n < SEPARATOR THEN n ELSE n + 1
      /\ Message(m).body[1] = IF m < SEPARATOR THEN m ELSE m + 1
  BY MessageIs
<1>2. SEPARATOR \in Nat
  BY DEF SEPARATOR
<1> QED BY <1>1, <1>2 DEF Before

\* What a peer encodes.
LEMMA ComposeIs ==
  ASSUME NEW c \in Sessions, Len(sent[c]) \in Nat, NEW n \in Nat, NEW kinds \in [1 .. n -> Kind]
  PROVE  LET packets == Compose(c, kinds) IN
         /\ packets \in Seq(Packet) /\ Len(packets) = n /\ DOMAIN packets = 1 .. n
         /\ \A k \in 1 .. n :
              /\ Payable(packets[k])
              /\ packets[k].type = kinds[k]
              /\ IsMessage(packets[k]) => packets[k].data = Message(Len(sent[c]) + Count(kinds, k))
<1> DEFINE packets == Compose(c, kinds)
           data(k) == Message(Len(sent[c]) + Count(kinds, k))
<1>1. packets = [k \in 1 .. n |-> IF kinds[k] = "message"
                                    THEN [type |-> "message", data |-> data(k)]
                                    ELSE [type |-> kinds[k], data |-> Text(<<>>)]]
  BY DEF Compose, Count
<1>2. ASSUME NEW k \in 1 .. n
      PROVE  /\ packets[k] \in Packet
             /\ Payable(packets[k])
             /\ packets[k].type = kinds[k]
             /\ IsMessage(packets[k]) => packets[k].data = data(k)
  <2>1. kinds[k] \in Kind /\ Len(sent[c]) + Count(kinds, k) \in Nat
    BY CountGoesOn
  <2>2. /\ data(k) \in RawData /\ data(k).body \in Seq(Nat) /\ Len(data(k).body) = 1
        /\ data(k).binary \in BOOLEAN /\ data(k).body[1] # SEPARATOR
    BY <2>1, MessageIs
  <2> HIDE DEF data, packets
  <2>3. CASE kinds[k] = "message"
    <3>1. packets[k] = [type |-> "message", data |-> data(k)]
      BY <1>1, <2>3
    <3>2. packets[k].type = "message" /\ packets[k].data = data(k)
      BY <3>1
    <3>3. "message" \in DOMAIN PACKET_TYPES
      BY DEF PACKET_TYPES
    <3>4. packets[k] \in Packet
      BY <2>2, <3>1, <3>3 DEF Packet, PacketType
    <3>5. \A i \in 1 .. Len(data(k).body) : data(k).body[i] # SEPARATOR
      <4>1. \A i \in 1 .. 1 : i = 1
        OBVIOUS
      <4> QED BY <2>2, <4>1
    <3>6. Payable(packets[k])
      BY <3>2, <3>4, <3>5 DEF Payable, Sendable
    <3> QED BY <2>3, <3>2, <3>4, <3>6
  <2>4. CASE kinds[k] # "message"
    <3>1. packets[k] = [type |-> kinds[k], data |-> Text(<<>>)]
      BY <1>1, <2>4
    <3>2. packets[k].type = kinds[k] /\ packets[k].data = Text(<<>>)
      BY <3>1
    <3>3. Text(<<>>) \in RawData /\ Text(<<>>).binary = FALSE /\ Text(<<>>).body = <<>>
      BY DEF Text, RawData
    <3>4. kinds[k] \in {"ping", "close", "error"}
      BY <2>1, <2>4 DEF Kind
    <3>5. kinds[k] \in PacketType
      BY <3>4 DEF PacketType, PACKET_TYPES
    <3>6. packets[k] \in Packet
      BY <3>1, <3>3, <3>5 DEF Packet
    <3>7. Payable(packets[k])
      <4>1. CASE kinds[k] = "error"
        BY <3>1, <4>1 DEF Payable, ErrorPacket
      <4>2. CASE kinds[k] # "error"
        <5>1. \A i \in 1 .. Len(<<>>) : FALSE
          OBVIOUS
        <5>2. packets[k].data.body = <<>> /\ packets[k].data.binary = FALSE
          BY <3>2, <3>3
        <5>3. \A i \in 1 .. Len(packets[k].data.body) : packets[k].data.body[i] # SEPARATOR
          BY <5>1, <5>2
        <5> QED BY <3>2, <3>6, <4>2, <5>2, <5>3 DEF Payable, Sendable
      <4> QED BY <4>1, <4>2
    <3>8. ~IsMessage(packets[k])
      BY <2>4, <3>2 DEF IsMessage
    <3> QED BY <3>2, <3>6, <3>7, <3>8
  <2> QED BY <2>3, <2>4
<1>3. packets \in Seq(Packet) /\ Len(packets) = n /\ DOMAIN packets = 1 .. n
  <2>1. DOMAIN packets = 1 .. n /\ packets = [k \in 1 .. n |-> packets[k]]
    BY <1>1
  <2> HIDE DEF packets
  <2>2. packets \in [1 .. n -> Packet]
    BY <1>2, <2>1
  <2> QED BY <2>1, <2>2
<1> QED BY <1>2, <1>3

LEMMA OneMore ==
  ASSUME NEW S, NEW s \in Seq(S), NEW d \in S
  PROVE  /\ s \o <<>> = s
         /\ s \o <<d>> \in Seq(S) /\ Len(s \o <<d>>) = Len(s) + 1
         /\ \A i \in 1 .. Len(s) : (s \o <<d>>)[i] = s[i]
         /\ (s \o <<d>>)[Len(s) + 1] = d
OBVIOUS

\* The messages of what a peer encodes are those that come next.
LEMMA MessagesAre ==
  ASSUME NEW c \in Sessions, Len(sent[c]) \in Nat, NEW n \in Nat, NEW kinds \in [1 .. n -> Kind]
  PROVE  /\ MessagesOf(Compose(c, kinds)) \in Seq(RawData)
         /\ Len(MessagesOf(Compose(c, kinds))) = Count(kinds, n)
         /\ \A i \in 1 .. Count(kinds, n) :
              MessagesOf(Compose(c, kinds))[i] = Message(Len(sent[c]) + i)
<1> DEFINE packets == Compose(c, kinds)
           L == Len(sent[c])
           parts == [k \in 1 .. n |-> IF IsMessage(packets[k]) THEN <<packets[k].data>> ELSE <<>>]
<1>1. \A k \in 1 .. n :
        /\ IsMessage(packets[k]) <=> kinds[k] = "message"
        /\ IsMessage(packets[k]) => packets[k].data = Message(L + Count(kinds, k))
  BY ComposeIs DEF IsMessage
<1>2. MessagesOf(packets) = FlattenSeq(parts)
  <2>1. DOMAIN packets = 1 .. n
    BY ComposeIs
  <2> QED BY <2>1 DEF MessagesOf
<1> HIDE DEF packets, L
<1>3. L \in Nat
  BY DEF L
<1>4. \A k \in Nat : Count(kinds, k) \in Nat /\ Message(L + k) \in RawData
  BY <1>3, CountGoesOn, MessageIs
<1>5. \A k \in 1 .. n : /\ kinds[k] = "message" => parts[k] = <<Message(L + Count(kinds, k))>>
                        /\ kinds[k] # "message" => parts[k] = <<>>
  BY <1>1
<1>6. parts \in Seq(Seq(RawData)) /\ Len(parts) = n
  <2>1. \A k \in 1 .. n : parts[k] \in Seq(RawData)
    <3> SUFFICES ASSUME NEW k \in 1 .. n
                 PROVE  parts[k] \in Seq(RawData)
      OBVIOUS
    <3>1. Message(L + Count(kinds, k)) \in RawData
      BY <1>4
    <3>2. <<Message(L + Count(kinds, k))>> \in Seq(RawData) /\ <<>> \in Seq(RawData)
      BY <3>1
    <3>3. parts[k] = <<Message(L + Count(kinds, k))>> \/ parts[k] = <<>>
      BY <1>5, Zenon
    <3> QED BY <3>2, <3>3, Zenon
  <2>2. parts = [k \in 1 .. n |-> parts[k]]
    OBVIOUS
  <2> HIDE DEF parts
  <2> QED BY <2>1, <2>2
<1>7. CASE n = 0
  <2>1. parts = <<>>
    BY <1>7
  <2>2. FlattenSeq(<<>>) = <<>>
    BY DEF FlattenSeq
  <2>3. Count(kinds, n) = 0
    BY <1>7, CountGoesOn
  <2>4. <<>> \in Seq(RawData) /\ Len(<<>>) = 0
    OBVIOUS
  <2>5. MessagesOf(packets) = <<>>
    BY <1>2, <2>1, <2>2
  <2> HIDE DEF parts
  <2> QED BY <2>3, <2>4, <2>5 DEF packets
<1>8. CASE n # 0
  <2> HIDE DEF parts
  <2>1. PICK f \in Sums(RawData, parts) : FlattenSeq(parts) = f[n]
    BY <1>6, <1>8, Flattened
  <2>2. /\ f \in [1 .. n -> Seq(RawData)] /\ f[1] = parts[1]
        /\ \A k \in 1 .. n : k > 1 => f[k] = f[k - 1] \o parts[k]
    BY <1>6, Zenon DEF Sums
  <2> DEFINE Good(s, m) == Len(s) = m /\ \A i \in 1 .. m : s[i] = Message(L + i)
             S == {k \in 1 .. n : Good(f[k], Count(kinds, k))}
  <2>3. 1 \in S
    <3>1. 1 \in 1 .. n
      BY <1>8
    <3>2. /\ kinds[1] = "message" => Count(kinds, 1) = 1
          /\ kinds[1] # "message" => Count(kinds, 1) = 0
      <4>1. /\ Count(kinds, 0) = 0
            /\ kinds[0 + 1] = "message" => Count(kinds, 0 + 1) = Count(kinds, 0) + 1
            /\ kinds[0 + 1] # "message" => Count(kinds, 0 + 1) = Count(kinds, 0)
        BY CountGoesOn
      <4> QED BY <4>1
    <3>3. CASE kinds[1] = "message"
      <4>1. f[1] = <<Message(L + 1)>> /\ Count(kinds, 1) = 1
        BY <1>5, <2>2, <3>1, <3>2, <3>3
      <4>2. Good(<<Message(L + 1)>>, 1)
        OBVIOUS
      <4> HIDE DEF Good
      <4> QED BY <3>1, <4>1, <4>2
    <3>4. CASE kinds[1] # "message"
      <4>1. f[1] = <<>> /\ Count(kinds, 1) = 0
        BY <1>5, <2>2, <3>1, <3>2, <3>4
      <4>2. Good(<<>>, 0)
        OBVIOUS
      <4> HIDE DEF Good
      <4> QED BY <3>1, <4>1, <4>2
    <3> QED BY <3>3, <3>4
  <2>4. ASSUME NEW k \in 1 .. n, k \in S, k < n
        PROVE  k + 1 \in S
    <3>1. k + 1 \in 1 .. n /\ k + 1 > 1 /\ (k + 1) - 1 = k /\ k \in Nat /\ f[k] \in Seq(RawData)
      BY <2>2, <2>4
    <3>2. f[k + 1] = f[k] \o parts[k + 1]
      <4>1. f[k + 1] = f[(k + 1) - 1] \o parts[k + 1]
        BY <2>2, <3>1, Zenon
      <4> QED BY <3>1, <4>1, Zenon
    <3> DEFINE C == Count(kinds, k)
               D == Count(kinds, k + 1)
               s == f[k]
               t == f[k + 1]
               d == Message(L + D)
    <3>3. Good(s, C) /\ C \in Nat /\ d \in RawData /\ s \in Seq(RawData)
      <4>1. Good(s, C)
        BY <2>4, Zenon
      <4>2. D \in Nat
        BY <3>1, CountGoesOn
      <4> QED BY <1>4, <3>1, <4>1, <4>2, Zenon
    <3>4. CASE kinds[k + 1] = "message"
      <4>1. D = C + 1
        BY <3>1, <3>4, CountGoesOn
      <4>2. t = s \o <<d>>
        <5>1. parts[k + 1] = <<d>>
          BY <1>5, <3>1, <3>4, Zenon
        <5> QED BY <3>2, <5>1, Zenon
      <4> HIDE DEF C, D, s, t, d
      <4>3. /\ Len(s \o <<d>>) = Len(s) + 1
            /\ \A i \in 1 .. Len(s) : (s \o <<d>>)[i] = s[i]
            /\ (s \o <<d>>)[Len(s) + 1] = d
        BY <3>3, OneMore
      <4>4. Len(t) = Len(s) + 1 /\ t[Len(s) + 1] = d /\ \A i \in 1 .. Len(s) : t[i] = s[i]
        BY <4>2, <4>3, Zenon
      <4>5. Good(t, D)
        <5>1. Len(s) = C /\ \A i \in 1 .. C : s[i] = Message(L + i)
          BY <3>3
        <5>2. \A i \in 1 .. D : i \in 1 .. C \/ i = D
          BY <3>3, <4>1
        <5>3. t[D] = Message(L + D) /\ Len(t) = D
          BY <4>1, <4>4, <5>1 DEF d
        <5> QED BY <4>4, <5>1, <5>2, <5>3, Zenon
      <4> HIDE DEF Good
      <4> QED BY <3>1, <4>5 DEF t, D
    <3>5. CASE kinds[k + 1] # "message"
      <4>1. D = C
        BY <3>1, <3>5, CountGoesOn
      <4>2. t = s \o <<>>
        <5>1. parts[k + 1] = <<>>
          BY <1>5, <3>1, <3>5, Zenon
        <5> QED BY <3>2, <5>1, Zenon
      <4> HIDE DEF C, D, s, t, d
      <4>3. s \o <<>> = s
        BY <3>3, OneMore
      <4>4. Good(t, D)
        <5> HIDE DEF Good
        <5> QED BY <3>3, <4>1, <4>2, <4>3, Zenon
      <4> HIDE DEF Good
      <4> QED BY <3>1, <4>4 DEF t, D
    <3> QED BY <3>4, <3>5
  <2>5. \A k \in 1 .. n : k \in S /\ k < n => k + 1 \in S
    BY <2>4
  <2> HIDE DEF S
  <2>6. n \in S
    <3>1. \A k \in 1 .. n : k \in S
      BY <2>3, <2>5, UpTo
    <3> QED BY <1>8, <3>1
  <2>7. Good(f[n], Count(kinds, n)) /\ f[n] \in Seq(RawData)
    BY <1>8, <2>2, <2>6 DEF S
  <2>8. MessagesOf(packets) = f[n]
    BY <1>2, <2>1, Zenon
  <2> QED BY <2>7, <2>8, Zenon DEF packets, L
<1> QED BY <1>7, <1>8
-----------------------------------------------------------------------------
(* What is said and what is heard *)

\* A message is among those a peer said.
Said(said, data) == \E k \in 1 .. Len(said) : data = Message(k)

\* The messages among these packets are still to be heard, in this order, by a
\* session that hears what its peer said.
Awaited(said, hears, packets) ==
  \A q \in 1 .. Len(packets) : IsMessage(packets[q]) =>
    /\ Said(said, packets[q].data)
    /\ \A i \in 1 .. Len(hears) : Before(hears[i], packets[q].data)
    /\ \A p \in 1 .. q - 1 : IsMessage(packets[p]) => Before(packets[p].data, packets[q].data)

SaysInOrder(said) == \A k \in 1 .. Len(said) : said[k] = Message(k)

HearsInOrder(said, hears) ==
  \A i \in 1 .. Len(hears) :
    /\ Said(said, hears[i])
    /\ \A j \in 1 .. i - 1 : Before(hears[j], hears[i])

\* A body decodes to what was meant.
BodyOK(body) ==
  /\ body \in [chars : Seq(Nat), meant : Seq(Packet)]
  /\ body.meant = <<>> => DecodePayload(body.chars) = <<ErrorPacket>>
  /\ body.meant # <<>> => DecodePayload(body.chars) = UpToError(body.meant)

\* One that comes to a session still polling brings what comes after all that
\* the session has heard.
PostOK(c) ==
  post[c] # NoPost =>
    BodyOK(post[c]) /\ (transport[c] = "polling" => Awaited(sent[c], heard[c], post[c].meant))

SessionOrder(c) == SaysInOrder(sent[c]) /\ HearsInOrder(sent[c], heard[c]) /\ PostOK(c)

\* The same for the packets of a loop, as long as it is of the transport of its
\* session; no body is then awaited.
LoopOK ==
  /\ loop = Idle \/ loop \in [by : Sessions, via : {"polling", "websocket"}, packets : Seq(Packet)]
  /\ loop.by \in Sessions =>
       /\ loop.via = transport[loop.by] => Awaited(sent[loop.by], heard[loop.by], loop.packets)
       /\ loop.via = "polling" => post[loop.by] = NoPost
       /\ checked => loop.via = transport[loop.by]

OrderTyped ==
  /\ transport \in [Sessions -> {"polling", "websocket"}]
  /\ sent \in [Sessions -> Seq(RawData)] /\ heard \in [Sessions -> Seq(RawData)]
  /\ packetsSent \in 0 .. MaxSent

OrderInv == OrderTyped /\ LoopOK /\ \A c \in Sessions : SessionOrder(c)

-----------------------------------------------------------------------------
(* What keeps what is awaited *)

LEMMA AwaitedPrefix ==
  ASSUME NEW said, NEW hears, NEW packets, NEW u,
         Len(packets) \in Nat, Len(u) \in Nat, Len(u) <= Len(packets),
         \A i \in 1 .. Len(u) : u[i] = packets[i], Awaited(said, hears, packets)
  PROVE  Awaited(said, hears, u)
<1> SUFFICES ASSUME NEW q \in 1 .. Len(u), IsMessage(u[q])
             PROVE  /\ Said(said, u[q].data)
                    /\ \A i \in 1 .. Len(hears) : Before(hears[i], u[q].data)
                    /\ \A p \in 1 .. q - 1 : IsMessage(u[p]) => Before(u[p].data, u[q].data)
  BY DEF Awaited
<1>1. q \in 1 .. Len(packets) /\ u[q] = packets[q]
  OBVIOUS
<1>2. \A p \in 1 .. q - 1 : p \in 1 .. Len(u)
  OBVIOUS
<1>3. \A p \in 1 .. q - 1 : u[p] = packets[p]
  BY <1>2
<1>4. /\ Said(said, packets[q].data)
      /\ \A i \in 1 .. Len(hears) : Before(hears[i], packets[q].data)
      /\ \A p \in 1 .. q - 1 : IsMessage(packets[p]) => Before(packets[p].data, packets[q].data)
  BY <1>1, Zenon DEF Awaited
<1> QED BY <1>1, <1>3, <1>4, Zenon

LEMMA AwaitedTail ==
  ASSUME NEW said, NEW hears, NEW packets \in Seq(Packet), packets # <<>>,
         Awaited(said, hears, packets)
  PROVE  Tail(packets) \in Seq(Packet) /\ Awaited(said, hears, Tail(packets))
<1> DEFINE u == Tail(packets)
<1>1. /\ u \in Seq(Packet) /\ Len(u) \in Nat /\ Len(packets) = Len(u) + 1
      /\ \A i \in 1 .. Len(u) : u[i] = packets[i + 1]
  OBVIOUS
<1> HIDE DEF u
<1>2. ASSUME NEW q \in 1 .. Len(u), IsMessage(u[q])
      PROVE  /\ Said(said, u[q].data)
             /\ \A i \in 1 .. Len(hears) : Before(hears[i], u[q].data)
             /\ \A p \in 1 .. q - 1 : IsMessage(u[p]) => Before(u[p].data, u[q].data)
  <2>1. q + 1 \in 1 .. Len(packets) /\ u[q] = packets[q + 1]
    BY <1>1
  <2>2. \A p \in 1 .. q - 1 : p + 1 \in 1 .. (q + 1) - 1 /\ p \in 1 .. Len(u)
    BY <1>1
  <2>3. \A p \in 1 .. q - 1 : u[p] = packets[p + 1]
    BY <1>1, <2>2
  <2>4. /\ Said(said, packets[q + 1].data)
        /\ \A i \in 1 .. Len(hears) : Before(hears[i], packets[q + 1].data)
        /\ \A p \in 1 .. (q + 1) - 1 : IsMessage(packets[p]) => Before(packets[p].data, packets[q + 1].data)
    BY <1>2, <2>1, Zenon DEF Awaited
  <2>5. \A p \in 1 .. q - 1 : IsMessage(packets[p + 1]) => Before(packets[p + 1].data, packets[q + 1].data)
    BY <2>2, <2>4, Zenon
  <2> QED BY <2>1, <2>3, <2>4, <2>5, Zenon
<1>3. Awaited(said, hears, u)
  BY <1>2 DEF Awaited
<1> QED BY <1>1, <1>3 DEF u

\* Who may hear what, and hears it, hears it in order.
LEMMA HearsOneMore ==
  ASSUME NEW said, NEW hears \in Seq(RawData), NEW data \in RawData,
         HearsInOrder(said, hears), Said(said, data),
         \A i \in 1 .. Len(hears) : Before(hears[i], data)
  PROVE  Append(hears, data) \in Seq(RawData) /\ HearsInOrder(said, Append(hears, data))
<1> DEFINE all == Append(hears, data)
<1>1. /\ all \in Seq(RawData) /\ Len(hears) \in Nat /\ Len(all) = Len(hears) + 1
      /\ all[Len(hears) + 1] = data
      /\ \A i \in 1 .. Len(hears) : all[i] = hears[i]
  OBVIOUS
<1> HIDE DEF all
<1>2. ASSUME NEW i \in 1 .. Len(all)
      PROVE  Said(said, all[i]) /\ \A j \in 1 .. i - 1 : Before(all[j], all[i])
  <2>1. CASE i = Len(hears) + 1
    <3>1. \A j \in 1 .. i - 1 : j \in 1 .. Len(hears)
      BY <1>1, <2>1
    <3> QED BY <1>1, <2>1, <3>1, Zenon
  <2>2. CASE i # Len(hears) + 1
    <3>1. i \in 1 .. Len(hears) /\ \A j \in 1 .. i - 1 : j \in 1 .. Len(hears)
      BY <1>1, <2>2
    <3> QED BY <1>1, <3>1, Zenon DEF HearsInOrder
  <2> QED BY <2>1, <2>2
<1> QED BY <1>1, <1>2 DEF all, HearsInOrder

\* The rest is then still awaited.
LEMMA HeadHeard ==
  ASSUME NEW said, NEW hears \in Seq(RawData), NEW packets \in Seq(Packet), packets # <<>>,
         Awaited(said, hears, packets), IsMessage(Head(packets)), HearsInOrder(said, hears)
  PROVE  LET now == Append(hears, Head(packets).data) IN
         /\ now \in Seq(RawData) /\ HearsInOrder(said, now)
         /\ Awaited(said, now, Tail(packets))
<1> DEFINE data == Head(packets).data
           now == Append(hears, data)
           rest == Tail(packets)
<1>1. /\ Len(packets) \in Nat /\ 1 \in 1 .. Len(packets) /\ Head(packets) = packets[1]
      /\ Head(packets) \in Packet
      /\ \A q \in 1 .. Len(rest) :
           q + 1 \in 1 .. Len(packets) /\ 1 \in 1 .. (q + 1) - 1 /\ rest[q] = packets[q + 1]
  OBVIOUS
<1>2. data \in RawData
  BY <1>1 DEF Packet
<1> HIDE DEF rest
<1>3. Said(said, data) /\ \A i \in 1 .. Len(hears) : Before(hears[i], data)
  BY <1>1, Zenon DEF Awaited
<1>4. now \in Seq(RawData) /\ HearsInOrder(said, now)
  BY <1>2, <1>3, HearsOneMore
<1>5. Awaited(said, hears, rest)
  BY AwaitedTail DEF rest
<1>6. \A q \in 1 .. Len(rest) : IsMessage(rest[q]) => Before(data, rest[q].data)
  BY <1>1, Zenon DEF Awaited
<1> HIDE DEF data
<1>7. \A i \in 1 .. Len(now) : now[i] = data \/ \E j \in 1 .. Len(hears) : now[i] = hears[j]
  BY <1>2
<1> HIDE DEF now
<1>8. \A q \in 1 .. Len(rest) : IsMessage(rest[q]) =>
        \A i \in 1 .. Len(now) : Before(now[i], rest[q].data)
  BY <1>5, <1>6, <1>7, Zenon DEF Awaited
<1>9. Awaited(said, now, rest)
  BY <1>5, <1>8, Zenon DEF Awaited
<1> QED BY <1>4, <1>9, Zenon DEF now, rest, data

-----------------------------------------------------------------------------
(* The actions *)

LEMMA OrderInit == Init => OrderInv
<1> SUFFICES ASSUME Init PROVE OrderInv
  OBVIOUS
<1>1. /\ transport = [c \in Sessions |-> "polling"] /\ post = [c \in Sessions |-> NoPost]
      /\ loop = Idle /\ sent = [c \in Sessions |-> <<>>] /\ packetsSent = 0
      /\ heard = [c \in Sessions |-> <<>>]
  BY DEF Init
<1>2. OrderTyped
  <2>1. <<>> \in Seq(RawData) /\ 0 \in 0 .. MaxSent
    BY InboundAssumption
  <2> QED BY <1>1, <2>1 DEF OrderTyped
<1>3. \A c \in Sessions : Len(sent[c]) = 0 /\ Len(heard[c]) = 0 /\ post[c] = NoPost
  BY <1>1
<1>4. loop.by \notin Sessions
  BY <1>1, InboundAssumption DEF Idle
<1>5. \A c \in Sessions : SessionOrder(c)
  BY <1>3 DEF SessionOrder, SaysInOrder, HearsInOrder, PostOK
<1> QED BY <1>1, <1>2, <1>4, <1>5 DEF OrderInv, LoopOK

\* A session for which nothing is said, heard or sent in a body.
LEMMA SessionSame ==
  ASSUME NEW c \in Sessions, SessionOrder(c),
         sent'[c] = sent[c], heard'[c] = heard[c], post'[c] = post[c] \/ post'[c] = NoPost,
         transport'[c] = "polling" => transport[c] = "polling" \/ post[c] = NoPost
  PROVE  SessionOrder(c)'
BY Zenon DEF SessionOrder, PostOK

\* A step in which nothing is said, read or heard.
LEMMA QuietOrder ==
  ASSUME OrderInv, UNCHANGED <<post, loop, checked, sent, packetsSent, heard>>,
         transport' \in [Sessions -> {"polling", "websocket"}],
         loop = Idle \/ UNCHANGED transport,
         \A d \in Sessions : transport'[d] = "polling" => transport[d] = "polling" \/ post[d] = NoPost
  PROVE  OrderInv'
<1>1. \A d \in Sessions : SessionOrder(d)'
  BY SessionSame DEF OrderInv
<1>2. OrderTyped'
  BY DEF OrderInv, OrderTyped
<1>3. LoopOK'
  <2>1. CASE loop = Idle
    <3>1. loop'.by \notin Sessions
      BY <2>1, InboundAssumption DEF Idle
    <3> QED BY <2>1, <3>1 DEF LoopOK
  <2>2. CASE UNCHANGED transport
    BY <2>2 DEF OrderInv, LoopOK
  <2> QED BY <2>1, <2>2
<1> QED BY <1>1, <1>2, <1>3 DEF OrderInv

\* What is said comes after all that was said before.
LEMMA SaysMore ==
  ASSUME NEW old \in Seq(RawData), NEW new \in Seq(RawData), SaysInOrder(old),
         \A i \in 1 .. Len(new) : new[i] = Message(Len(old) + i)
  PROVE  /\ old \o new \in Seq(RawData) /\ SaysInOrder(old \o new)
         /\ Len(old) \in Nat /\ Len(new) \in Nat /\ Len(old \o new) = Len(old) + Len(new)
         /\ \A data : Said(old, data) => Said(old \o new, data)
<1> DEFINE all == old \o new
           L == Len(old)
           m == Len(new)
<1>1. /\ all \in Seq(RawData) /\ Len(all) = L + m /\ L \in Nat /\ m \in Nat
      /\ \A i \in 1 .. L + m : all[i] = IF i <= L THEN old[i] ELSE new[i - L]
  BY ConcatProperties
<1>2. \A i \in 1 .. m : new[i] = Message(L + i)
  OBVIOUS
<1>3. \A i \in 1 .. L : old[i] = Message(i)
  BY DEF SaysInOrder
<1>4. \A data : Said(old, data) => \E k \in 1 .. L : data = Message(k)
  BY DEF Said
<1> HIDE DEF all, L, m
<1>5. \A k \in 1 .. L + m : all[k] = Message(k)
  <2> SUFFICES ASSUME NEW k \in 1 .. L + m
               PROVE  all[k] = Message(k)
    OBVIOUS
  <2>1. CASE k <= L
    <3>1. k \in 1 .. L
      BY <1>1, <2>1
    <3> QED BY <1>1, <1>3, <2>1, <3>1
  <2>2. CASE ~(k <= L)
    <3>1. k - L \in 1 .. m /\ L + (k - L) = k
      BY <1>1, <2>2
    <3> QED BY <1>1, <1>2, <2>2, <3>1
  <2> QED BY <2>1, <2>2
<1>6. SaysInOrder(all)
  BY <1>1, <1>5 DEF SaysInOrder
<1>7. \A k \in 1 .. L : k \in 1 .. Len(all)
  BY <1>1
<1>8. \A data : Said(old, data) => Said(all, data)
  BY <1>4, <1>7, Zenon DEF Said
<1> QED BY <1>1, <1>6, <1>8 DEF all, L, m

\* What was said stays said: what was heard in order was so still.
LEMMA HearsStill ==
  ASSUME NEW said, NEW now, NEW hears, HearsInOrder(said, hears),
         \A data : Said(said, data) => Said(now, data)
  PROVE  HearsInOrder(now, hears)
BY Zenon DEF HearsInOrder

\* A peer sends: its messages are the next ones, and awaited behind all others.
LEMMA SendOrder ==
  ASSUME OrderInv, NEW c \in Sessions, NEW n \in Nat, NEW kinds \in [1 .. n -> Kind],
         Send(c, Compose(c, kinds))
  PROVE  /\ sent' \in [Sessions -> Seq(RawData)] /\ packetsSent' \in 0 .. MaxSent
         /\ \A d \in Sessions : d # c => sent'[d] = sent[d]
         /\ SaysInOrder(sent'[c]) /\ HearsInOrder(sent'[c], heard[c])
         /\ Awaited(sent'[c], heard[c], Compose(c, kinds))
<1> DEFINE packets == Compose(c, kinds)
           new == MessagesOf(packets)
           old == sent[c]
           hears == heard[c]
           now == sent'[c]
           L == Len(old)
           m == Count(kinds, n)
           data(k) == Message(L + Count(kinds, k))
<1>1. /\ sent \in [Sessions -> Seq(RawData)] /\ packetsSent \in 0 .. MaxSent
      /\ old \in Seq(RawData) /\ L \in Nat
      /\ SaysInOrder(old) /\ HearsInOrder(old, hears)
  BY DEF OrderInv, OrderTyped, SessionOrder
<1>2. /\ Len(packets) = n
      /\ \A k \in 1 .. n : IsMessage(packets[k]) => kinds[k] = "message" /\ packets[k].data = data(k)
  BY <1>1, ComposeIs DEF IsMessage
<1>3. new \in Seq(RawData) /\ Len(new) = m /\ \A i \in 1 .. m : new[i] = Message(L + i)
  BY <1>1, MessagesAre
<1>4. sent' = [sent EXCEPT ![c] = old \o new] /\ packetsSent' = packetsSent + Max({1, n})
      /\ packetsSent' <= MaxSent
  BY <1>2 DEF Send
<1>5. packetsSent' \in 0 .. MaxSent
  <2>1. \E x \in {1, n} : \A y \in {1, n} : x >= y
    OBVIOUS
  <2>2. Max({1, n}) \in {1, n}
    BY <2>1 DEF Max
  <2> QED BY <1>1, <1>4, <2>2, InboundAssumption
<1> HIDE DEF packets, new
<1>6. /\ old \o new \in Seq(RawData) /\ SaysInOrder(old \o new)
      /\ Len(old \o new) = L + m /\ m \in Nat
      /\ \A other : Said(old, other) => Said(old \o new, other)
  BY <1>1, <1>3, SaysMore
<1>7. sent' \in [Sessions -> Seq(RawData)] /\ now = old \o new
      /\ \A d \in Sessions : d # c => sent'[d] = sent[d]
  <2> DEFINE all == old \o new
  <2>1. sent' = [sent EXCEPT ![c] = all] /\ all \in Seq(RawData)
    BY <1>4, <1>6
  <2> HIDE DEF all, old
  <2>2. sent' \in [Sessions -> Seq(RawData)] /\ sent'[c] = all
        /\ \A d \in Sessions : d # c => sent'[d] = sent[d]
    BY <1>1, <2>1
  <2> QED BY <2>2 DEF all
<1>8. SaysInOrder(now) /\ Len(now) = L + m /\ \A other : Said(old, other) => Said(now, other)
  BY <1>6, <1>7, Zenon
<1>9. \A i \in 1 .. Len(hears) : \E k \in 1 .. L : hears[i] = Message(k)
  BY <1>1, Zenon DEF HearsInOrder, Said
<1> HIDE DEF now, old, hears, L, m, data
<1>10. HearsInOrder(now, hears)
  BY <1>1, <1>8, HearsStill
<1>11. L \in Nat /\ m \in Nat /\ \A k \in 1 .. n : data(k) = Message(L + Count(kinds, k))
  BY <1>1, <1>6 DEF data
<1>12. ASSUME NEW q \in 1 .. n, IsMessage(packets[q])
       PROVE  /\ Said(now, packets[q].data)
              /\ \A i \in 1 .. Len(hears) : Before(hears[i], packets[q].data)
              /\ \A p \in 1 .. q - 1 : IsMessage(packets[p]) => Before(packets[p].data, packets[q].data)
  <2>1. kinds[q] = "message" /\ packets[q].data = data(q)
    BY <1>2, <1>12
  <2>2. /\ Count(kinds, 0) \in Nat /\ Count(kinds, q) \in Nat /\ Count(kinds, 0) < Count(kinds, q)
        /\ Count(kinds, q) <= m
    <3>1. Count(kinds, q) <= m
      BY CountRises DEF m
    <3> QED BY <2>1, <3>1, CountRises
  <2>3. L + Count(kinds, q) \in 1 .. L + m
    BY ONLY <1>11, <2>2
  <2>4. Said(now, data(q))
    BY <1>8, <1>11, <2>3, Zenon DEF Said
  <2>5. ASSUME NEW i \in 1 .. Len(hears)
        PROVE  Before(hears[i], data(q))
    <3>1. PICK k \in 1 .. L : hears[i] = Message(k)
      BY <1>9
    <3>2. k < L + Count(kinds, q) /\ k \in Nat /\ L + Count(kinds, q) \in Nat
      BY <1>11, <2>2
    <3>3. Before(Message(k), Message(L + Count(kinds, q)))
      BY <3>2, MessagesRise
    <3> QED BY <1>11, <3>1, <3>3, Zenon
  <2>6. ASSUME NEW p \in 1 .. q - 1, IsMessage(packets[p])
        PROVE  Before(packets[p].data, data(q))
    <3>1. p \in 1 .. n /\ p \in 0 .. q /\ p < q
      OBVIOUS
    <3>2. packets[p].data = data(p)
      BY <1>2, <2>6, <3>1
    <3>3. Count(kinds, p) \in Nat /\ Count(kinds, p) < Count(kinds, q)
      BY <2>1, <3>1, CountRises
    <3>4. L + Count(kinds, p) \in Nat /\ L + Count(kinds, q) \in Nat
          /\ L + Count(kinds, p) < L + Count(kinds, q)
      BY <1>11, <2>2, <3>3
    <3>5. Before(Message(L + Count(kinds, p)), Message(L + Count(kinds, q)))
      BY <3>4, MessagesRise
    <3> QED BY <1>11, <3>1, <3>2, <3>5, Zenon
  <2> QED BY <2>1, <2>4, <2>5, <2>6, Zenon
<1>13. Awaited(now, hears, packets)
  BY <1>2, <1>12 DEF Awaited
<1> QED BY <1>5, <1>7, <1>8, <1>10, <1>13 DEF now, hears, packets

\* A body that a peer encodes decodes to what was meant.
LEMMA ComposedBody ==
  ASSUME OrderInv, NEW c \in Sessions, NEW n \in Nat, NEW kinds \in [1 .. n -> Kind]
  PROVE  BodyOK([chars |-> EncodePayload(Compose(c, kinds)), meant |-> Compose(c, kinds)])
<1> DEFINE packets == Compose(c, kinds)
           body == [chars |-> EncodePayload(packets), meant |-> packets]
<1>1. /\ packets \in Seq(Packet) /\ Len(packets) = n /\ DOMAIN packets = 1 .. n
      /\ \A k \in 1 .. n : Payable(packets[k])
  <2>1. Len(sent[c]) \in Nat
    BY DEF OrderInv, OrderTyped
  <2> QED BY <2>1, ComposeIs
<1> HIDE DEF packets
<1>2. /\ EncodePayload(packets) \in Seq(Nat)
      /\ packets = <<>> => DecodePayload(EncodePayload(packets)) = <<ErrorPacket>>
      /\ packets # <<>> => DecodePayload(EncodePayload(packets)) = UpToError(packets)
  <2>1. CASE n = 0
    <3>1. DOMAIN packets = {} /\ Len(packets) = 0 /\ packets = <<>>
      BY <1>1, <2>1
    <3>2. EncodePayload(packets) = <<>> /\ DecodePayload(EncodePayload(packets)) = <<ErrorPacket>>
      BY <3>1, EmptyPayload
    <3>3. <<>> \in Seq(Nat)
      OBVIOUS
    <3> QED BY <3>1, <3>2, <3>3
  <2>2. CASE n # 0
    <3>1. packets # <<>> /\ Len(packets) # 0
      BY <1>1, <2>2
    <3> QED BY <1>1, <3>1, PayloadRoundTrip
  <2> QED BY <2>1, <2>2
<1>3. BodyOK(body)
  BY <1>1, <1>2 DEF BodyOK
<1> QED BY <1>3 DEF packets

LEMMA PostStartOrder ==
  ASSUME InboundInv, OrderInv, NEW c \in Sessions, PostStart(c)
  PROVE  OrderInv'
<1>1. PICK n \in 0 .. MaxBatch : \E kinds \in [1 .. n -> Kind] :
        /\ Send(c, Compose(c, kinds))
        /\ post' = [post EXCEPT ![c] = [chars |-> EncodePayload(Compose(c, kinds)), meant |-> Compose(c, kinds)]]
  BY DEF PostStart
<1>2. PICK kinds \in [1 .. n -> Kind] :
        /\ Send(c, Compose(c, kinds))
        /\ post' = [post EXCEPT ![c] = [chars |-> EncodePayload(Compose(c, kinds)), meant |-> Compose(c, kinds)]]
  BY <1>1
<1> DEFINE packets == Compose(c, kinds)
           body == [chars |-> EncodePayload(packets), meant |-> packets]
<1>3. n \in Nat /\ loop = Idle /\ post[c] = NoPost /\ UNCHANGED <<transport, loop, checked, heard>>
  BY DEF PostStart, NoLoop, sessions, events
<1>4. /\ sent' \in [Sessions -> Seq(RawData)] /\ packetsSent' \in 0 .. MaxSent
      /\ \A d \in Sessions : d # c => sent'[d] = sent[d]
      /\ SaysInOrder(sent'[c]) /\ HearsInOrder(sent'[c], heard[c])
      /\ Awaited(sent'[c], heard[c], packets)
  BY <1>2, <1>3, SendOrder
<1>5. BodyOK(body)
  BY <1>3, ComposedBody
<1>6. body.meant = packets /\ post' = [post EXCEPT ![c] = body]
  BY <1>2
<1> HIDE DEF body, packets
<1>7. OrderTyped'
  BY <1>3, <1>4 DEF OrderInv, OrderTyped
<1>8. LoopOK'
  <2>1. loop'.by \notin Sessions
    BY <1>3, InboundAssumption DEF Idle
  <2> QED BY <1>3, <2>1 DEF LoopOK
<1>9. SessionOrder(c)'
  <2>1. post'[c] = body
    BY <1>6 DEF InboundInv, ShapesOK
  <2> QED BY <1>3, <1>4, <1>5, <1>6, <2>1, Zenon DEF SessionOrder, PostOK
<1>10. ASSUME NEW d \in Sessions, d # c
       PROVE  SessionOrder(d)'
  <2>1. post'[d] = post[d] /\ sent'[d] = sent[d] /\ heard'[d] = heard[d] /\ transport'[d] = transport[d]
    BY <1>3, <1>4, <1>6, <1>10
  <2> QED BY <2>1, SessionSame DEF OrderInv
<1> QED BY <1>7, <1>8, <1>9, <1>10 DEF OrderInv

LEMMA PostBodyOrder ==
  ASSUME InboundInv, OrderInv, NEW c \in Sessions, PostBody(c)
  PROVE  OrderInv'
<1> DEFINE decoded == DecodePayload(post[c].chars)
           meant == post[c].meant
<1>1. /\ loop = Idle /\ post[c] # NoPost /\ post' = [post EXCEPT ![c] = NoPost]
      /\ loop' = [by |-> c, via |-> "polling", packets |-> decoded]
      /\ UNCHANGED <<transport, checked, sent, packetsSent, heard>>
  BY DEF PostBody, NoLoop, sessions, events
<1>2. /\ meant \in Seq(Packet)
      /\ meant = <<>> => decoded = <<ErrorPacket>>
      /\ meant # <<>> => decoded = UpToError(meant)
      /\ transport[c] = "polling" => Awaited(sent[c], heard[c], meant)
  <2>1. BodyOK(post[c]) /\ (transport[c] = "polling" => Awaited(sent[c], heard[c], meant))
    BY <1>1 DEF OrderInv, SessionOrder, PostOK
  <2> QED BY <2>1 DEF BodyOK
<1> HIDE DEF decoded, meant
<1>3. decoded \in Seq(Packet) /\ (transport[c] = "polling" => Awaited(sent[c], heard[c], decoded))
  <2>1. CASE meant = <<>>
    <3>1. ErrorPacket \in Packet /\ ~IsMessage(ErrorPacket)
      BY DEF ErrorPacket, Packet, PacketType, RawData, Text, IsMessage
    <3>2. decoded \in Seq(Packet) /\ Len(decoded) = 1 /\ decoded[1] = ErrorPacket
      <4>1. <<ErrorPacket>> \in Seq(Packet) /\ Len(<<ErrorPacket>>) = 1
            /\ <<ErrorPacket>>[1] = ErrorPacket
        BY <3>1
      <4> QED BY <1>2, <2>1, <4>1, Zenon
    <3>3. \A q \in 1 .. Len(decoded) : ~IsMessage(decoded[q])
      BY <3>1, <3>2
    <3> QED BY <3>2, <3>3 DEF Awaited
  <2>2. CASE meant # <<>>
    <3>1. /\ decoded \in Seq(Packet) /\ Len(decoded) <= Len(meant)
          /\ \A i \in 1 .. Len(decoded) : decoded[i] = meant[i]
      BY <1>2, <2>2, UpToErrorPrefix
    <3>2. Len(decoded) \in Nat /\ Len(meant) \in Nat
      BY <1>2, <3>1
    <3> QED BY <1>2, <3>1, <3>2, AwaitedPrefix
  <2> QED BY <2>1, <2>2
<1>4. checked = FALSE
  BY <1>1 DEF InboundInv, SessionsOK, Idle
<1>5. OrderTyped'
  BY <1>1 DEF OrderInv, OrderTyped
<1>6. LoopOK'
  <2>1. loop' \in [by : Sessions, via : {"polling", "websocket"}, packets : Seq(Packet)]
        /\ loop'.by = c /\ loop'.via = "polling" /\ loop'.packets = decoded
    BY <1>1, <1>3
  <2>2. post'[c] = NoPost
    BY <1>1 DEF InboundInv, ShapesOK
  <2> QED BY <1>1, <1>3, <1>4, <2>1, <2>2, Zenon DEF LoopOK
<1>7. \A d \in Sessions : SessionOrder(d)'
  <2>1. \A d \in Sessions : post'[d] = post[d] \/ post'[d] = NoPost
    BY <1>1 DEF InboundInv, ShapesOK
  <2> QED BY <1>1, <2>1, SessionSame DEF OrderInv
<1> QED BY <1>5, <1>6, <1>7 DEF OrderInv

LEMMA PostFailsOrder ==
  ASSUME InboundInv, OrderInv, NEW c \in Sessions, PostFails(c)
  PROVE  OrderInv'
<1>1. /\ loop = Idle /\ post' = [post EXCEPT ![c] = NoPost]
      /\ UNCHANGED <<transport, loop, checked, sent, packetsSent, heard>>
  BY DEF PostFails, NoLoop, OnClose, sessions, events
<1>2. \A d \in Sessions : post'[d] = post[d] \/ post'[d] = NoPost
  BY <1>1 DEF InboundInv, ShapesOK
<1>3. \A d \in Sessions : SessionOrder(d)'
  BY <1>1, <1>2, SessionSame DEF OrderInv
<1>4. OrderTyped'
  BY <1>1 DEF OrderInv, OrderTyped
<1>5. LoopOK'
  <2>1. loop'.by \notin Sessions
    BY <1>1, InboundAssumption DEF Idle
  <2> QED BY <1>1, <2>1 DEF LoopOK
<1> QED BY <1>3, <1>4, <1>5 DEF OrderInv

\* The loop goes on behind its first packet, which was heard or not.
LEMMA NextPacketOrder ==
  ASSUME OrderInv, loop.packets # <<>>, loop.by \in Sessions, NextPacket, checked' = FALSE,
         UNCHANGED <<transport, post>>,
         loop.via = transport[loop.by] =>
           Awaited(sent'[loop.by], heard'[loop.by], Tail(loop.packets))
  PROVE  LoopOK'
<1>1. loop \in [by : Sessions, via : {"polling", "websocket"}, packets : Seq(Packet)]
  BY InboundAssumption DEF OrderInv, LoopOK, Idle
<1>2. Tail(loop.packets) \in Seq(Packet)
  BY <1>1
<1>3. loop' \in [by : Sessions, via : {"polling", "websocket"}, packets : Seq(Packet)]
      /\ loop'.by = loop.by /\ loop'.via = loop.via /\ loop'.packets = Tail(loop.packets)
  BY <1>1, <1>2 DEF NextPacket
<1>4. loop.via = "polling" => post[loop.by] = NoPost
  BY DEF OrderInv, LoopOK
<1> QED BY <1>3, <1>4, Zenon DEF LoopOK

LEMMA PacketArrivesOrder ==
  ASSUME InboundInv, OrderInv, PacketArrives
  PROVE  OrderInv'
<1>1. /\ loop.packets # <<>> /\ checked = FALSE /\ loop.by \in Sessions
      /\ UNCHANGED <<transport, post, sent, packetsSent, heard>>
  BY DEF PacketArrives, OnClose, sessions, events, InboundInv, SessionsOK
<1>2. \/ NextPacket /\ UNCHANGED checked
      \/ Bound /\ checked' = TRUE /\ UNCHANGED loop
  BY DEF PacketArrives
<1>3. OrderTyped' /\ \A d \in Sessions : SessionOrder(d)'
  BY <1>1, SessionSame DEF OrderInv, OrderTyped
<1>4. CASE NextPacket /\ UNCHANGED checked
  <2>1. loop.packets \in Seq(Packet)
    BY <1>1, InboundAssumption DEF OrderInv, LoopOK, Idle
  <2>2. loop.via = transport[loop.by] => Awaited(sent[loop.by], heard[loop.by], Tail(loop.packets))
    BY <1>1, <2>1, AwaitedTail DEF OrderInv, LoopOK
  <2>3. LoopOK'
    BY <1>1, <1>4, <2>2, NextPacketOrder
  <2> QED BY <1>3, <2>3 DEF OrderInv
<1>5. CASE Bound /\ checked' = TRUE /\ UNCHANGED loop
  <2>1. LoopOK'
    BY <1>1, <1>5 DEF OrderInv, LoopOK, Bound
  <2> QED BY <1>3, <2>1 DEF OrderInv
<1> QED BY <1>2, <1>4, <1>5

LEMMA LoopEndsOrder ==
  ASSUME InboundInv, OrderInv, LoopEnds
  PROVE  OrderInv'
<1>1. loop' = Idle /\ UNCHANGED <<transport, post, checked, sent, packetsSent, heard>>
  BY DEF LoopEnds, sessions, events
<1>2. OrderTyped' /\ \A d \in Sessions : SessionOrder(d)'
  BY <1>1, SessionSame DEF OrderInv, OrderTyped
<1>3. LoopOK'
  <2>1. loop'.by \notin Sessions
    BY <1>1, InboundAssumption DEF Idle
  <2> QED BY <1>1, <2>1 DEF LoopOK
<1> QED BY <1>2, <1>3 DEF OrderInv

\* A message that a session hears or not: the next in order, if it is heard.
LEMMA ReceiveHears ==
  ASSUME InboundInv, OrderTyped, NEW c \in Sessions, NEW data \in RawData, Receive(c, data)
  PROVE  /\ heard' \in [Sessions -> Seq(RawData)]
         /\ \A d \in Sessions : d # c => heard'[d] = heard[d]
         /\ heard'[c] = heard[c] \/ heard'[c] = Append(heard[c], data)
<1>1. heard \in [Sessions -> Seq(RawData)] /\ heard[c] \in Seq(RawData)
  BY DEF OrderTyped
<1> DEFINE now == Append(heard[c], data)
<1>2. UNCHANGED heard \/ heard' = [heard EXCEPT ![c] = now]
  BY DEF Receive
<1>3. now \in Seq(RawData)
  BY <1>1
<1> HIDE DEF now
<1>4. CASE heard' = [heard EXCEPT ![c] = now]
  <2>1. /\ heard' \in [Sessions -> Seq(RawData)] /\ heard'[c] = now
        /\ \A d \in Sessions : d # c => heard'[d] = heard[d]
    BY <1>1, <1>3, <1>4
  <2> QED BY <2>1 DEF now
<1> QED BY <1>1, <1>2, <1>4

\* A peer's packet is read from its WebSocket message as it was sent.
LEMMA FrameIs ==
  ASSUME NEW packet, Payable(packet)
  PROVE  LET raw == EncodePacket(packet, TRUE) IN
         /\ DecodePacket(raw) = packet
         /\ packet.type = "message" /\ ~raw.binary => Text(Tail(raw.body)) = packet.data
<1> DEFINE raw == EncodePacket(packet, TRUE)
<1>1. CASE packet = ErrorPacket
  BY <1>1, ErrorBack DEF ErrorPacket
<1>2. CASE Sendable(packet) /\ packet # ErrorPacket
  <2>1. DecodePacket(raw) = packet
    BY <1>2, PacketRoundTrip
  <2>2. /\ packet.data \in RawData /\ packet.data.body \in Seq(Nat) /\ packet.data.binary \in BOOLEAN
        /\ packet.data = [binary |-> packet.data.binary, body |-> packet.data.body]
    BY <1>2 DEF Sendable, Packet, RawData
  <2>3. ASSUME packet.type = "message", ~raw.binary
        PROVE  Text(Tail(raw.body)) = packet.data
    <3>1. packet.data.binary = FALSE
      BY <2>2, <2>3 DEF EncodePacket
    <3> DEFINE code == PACKET_TYPES["message"]
    <3>2. code \in Nat
      BY DEF PACKET_TYPES
    <3>3. raw.body = <<code>> \o packet.data.body
      BY <2>3, <3>1, Zenon DEF EncodePacket, Text, TypeCode
    <3> HIDE DEF raw, code
    <3>4. Tail(<<code>> \o packet.data.body) = packet.data.body
      BY <2>2, <3>2, InFront
    <3> QED BY <2>2, <3>1, <3>3, <3>4, Zenon DEF Text
  <2> QED BY <2>1, <2>3
<1> QED BY <1>1, <1>2 DEF Payable

LEMMA WsMessageOrder ==
  ASSUME InboundInv, OrderInv, NEW c \in Sessions, WsMessage(c)
  PROVE  OrderInv'
<1>1. /\ loop = Idle /\ transport[c] = "websocket" /\ UNCHANGED <<transport, post, checked>>
  BY DEF WsMessage, NoLoop, sessions
<1> DEFINE Frame(kind, packet) ==
             LET raw == EncodePacket(packet, TRUE) IN
             \/ UNCHANGED <<heard, loop>>
             \/ /\ kind = "message" /\ ~raw.binary /\ UNCHANGED loop
                /\ Receive(c, Text(Tail(raw.body)))
             \/ /\ loop' = [by |-> c, via |-> "websocket", packets |-> <<DecodePacket(raw)>>]
                /\ UNCHANGED heard
<1>2. PICK kind \in Kind : LET packet == Compose(c, <<kind>>)[1] IN Send(c, <<packet>>) /\ Frame(kind, packet)
  BY DEF WsMessage, events
<1> DEFINE kinds == <<kind>>
           packets == Compose(c, kinds)
           packet == packets[1]
<1>3. kinds \in [1 .. 1 -> Kind] /\ kinds[1] = kind
  OBVIOUS
<1>4. /\ packets \in Seq(Packet) /\ Len(packets) = 1
      /\ Payable(packet) /\ packet.type = kind
  <2>1. Len(sent[c]) \in Nat
    BY DEF OrderInv, OrderTyped
  <2> HIDE DEF kinds
  <2> DEFINE one == 1
  <2>2. one \in Nat /\ kinds \in [1 .. one -> Kind]
    BY <1>3
  <2> HIDE DEF one
  <2>3. /\ packets \in Seq(Packet) /\ Len(packets) = one
        /\ \A k \in 1 .. one : Payable(packets[k]) /\ packets[k].type = kinds[k]
    BY <2>1, <2>2, ComposeIs
  <2>4. one = 1 /\ 1 \in 1 .. one
    BY DEF one
  <2> QED BY <1>3, <2>3, <2>4, Zenon
<1> HIDE DEF kinds
<1>5. Send(c, <<packet>>) /\ Frame(kind, packet)
  BY <1>2 DEF kinds
<1> HIDE DEF Frame, packets
<1>6. <<packet>> = packets /\ packet \in Packet
  BY <1>4
<1>7. Send(c, Compose(c, kinds))
  BY <1>5, <1>6 DEF packets
<1>8. /\ sent' \in [Sessions -> Seq(RawData)] /\ packetsSent' \in 0 .. MaxSent
      /\ \A d \in Sessions : d # c => sent'[d] = sent[d]
      /\ SaysInOrder(sent'[c]) /\ HearsInOrder(sent'[c], heard[c])
      /\ Awaited(sent'[c], heard[c], packets)
  BY <1>3, <1>7, SendOrder DEF packets
<1>9. /\ heard \in [Sessions -> Seq(RawData)] /\ OrderTyped
      /\ \A d \in Sessions : SessionOrder(d)
  BY DEF OrderInv, OrderTyped
<1>10. post[c] # NoPost => BodyOK(post[c])
  BY <1>9 DEF SessionOrder, PostOK
<1>11. DecodePacket(EncodePacket(packet, TRUE)) = packet
       /\ (kind = "message" /\ ~EncodePacket(packet, TRUE).binary =>
             Text(Tail(EncodePacket(packet, TRUE).body)) = packet.data)
  BY <1>4, FrameIs
<1>12. ASSUME heard' \in [Sessions -> Seq(RawData)], HearsInOrder(sent'[c], heard'[c]),
              \A d \in Sessions : d # c => heard'[d] = heard[d]
       PROVE  OrderTyped' /\ \A d \in Sessions : SessionOrder(d)'
  <2>1. OrderTyped'
    BY <1>1, <1>8, <1>9, <1>12 DEF OrderTyped
  <2>2. SessionOrder(c)'
    <3>1. transport'[c] # "polling" /\ post'[c] = post[c]
      BY <1>1
    <3> QED BY <1>8, <1>10, <1>12, <3>1, Zenon DEF SessionOrder, PostOK
  <2>3. ASSUME NEW d \in Sessions, d # c
        PROVE  SessionOrder(d)'
    BY <1>1, <1>8, <1>9, <1>12, <2>3, SessionSame
  <2> QED BY <2>1, <2>2, <2>3
<1>13. loop.by \notin Sessions
  BY <1>1, InboundAssumption DEF Idle
<1>14. CASE UNCHANGED <<heard, loop>>
  <2>1. OrderTyped' /\ \A d \in Sessions : SessionOrder(d)'
    BY <1>8, <1>9, <1>12, <1>14
  <2>2. LoopOK'
    BY <1>1, <1>13, <1>14 DEF LoopOK
  <2> QED BY <2>1, <2>2 DEF OrderInv
<1>15. CASE kind = "message" /\ UNCHANGED loop /\ Receive(c, packet.data)
  <2>1. packet.data \in RawData /\ IsMessage(packet)
    BY <1>4, <1>6, <1>15 DEF Packet, IsMessage
  <2>2. /\ heard' \in [Sessions -> Seq(RawData)]
        /\ \A d \in Sessions : d # c => heard'[d] = heard[d]
        /\ heard'[c] = heard[c] \/ heard'[c] = Append(heard[c], packet.data)
    BY <1>9, <1>15, <2>1, ReceiveHears
  <2>3. Said(sent'[c], packet.data) /\ \A i \in 1 .. Len(heard[c]) : Before(heard[c][i], packet.data)
    <3>1. 1 \in 1 .. Len(packets)
      BY <1>4
    <3> QED BY <1>8, <2>1, <3>1, Zenon DEF Awaited
  <2>4. HearsInOrder(sent'[c], Append(heard[c], packet.data))
    <3>1. heard[c] \in Seq(RawData)
      BY <1>9
    <3> QED BY <1>8, <2>1, <2>3, <3>1, HearsOneMore
  <2>5. HearsInOrder(sent'[c], heard'[c])
    BY <1>8, <2>2, <2>4, Zenon
  <2>6. OrderTyped' /\ \A d \in Sessions : SessionOrder(d)'
    BY <1>12, <2>2, <2>5
  <2>7. LoopOK'
    BY <1>1, <1>13, <1>15 DEF LoopOK
  <2> QED BY <2>6, <2>7 DEF OrderInv
<1>16. CASE loop' = [by |-> c, via |-> "websocket", packets |-> packets] /\ UNCHANGED heard
  <2>1. OrderTyped' /\ \A d \in Sessions : SessionOrder(d)'
    BY <1>8, <1>9, <1>12, <1>16
  <2>2. loop' \in [by : Sessions, via : {"polling", "websocket"}, packets : Seq(Packet)]
        /\ loop'.by = c /\ loop'.via = "websocket" /\ loop'.packets = packets
    BY <1>4, <1>16
  <2>3. LoopOK'
    BY <1>1, <1>8, <1>16, <2>2, Zenon DEF LoopOK
  <2> QED BY <2>1, <2>3 DEF OrderInv
<1> QED BY <1>5, <1>6, <1>11, <1>14, <1>15, <1>16, Zenon DEF Frame

LEMMA PacketHandledOrder ==
  ASSUME InboundInv, OrderInv, PacketHandled
  PROVE  OrderInv'
<1> DEFINE first == Head(loop.packets)
           rest == Tail(loop.packets)
<1>1. /\ checked /\ checked' = FALSE /\ NextPacket
      /\ UNCHANGED <<transport, post, sent, packetsSent>>
      /\ UNCHANGED heard \/ (IsMessage(first) /\ Receive(loop.by, first.data))
  BY DEF PacketHandled, OnClose, sessions, events, IsMessage
<1>2. loop.packets # <<>> /\ loop.by \in Sessions
  BY <1>1 DEF InboundInv, SessionsOK
<1>0. PICK c \in Sessions : c = loop.by
  BY <1>2
<1>3. /\ loop.packets \in Seq(Packet) /\ loop.via \in {"polling", "websocket"}
  BY <1>2, InboundAssumption DEF OrderInv, LoopOK, Idle
<1>4. /\ loop.via = transport[c] /\ (loop.via = "polling" => post[c] = NoPost)
      /\ Awaited(sent[c], heard[c], loop.packets)
  BY <1>0, <1>1 DEF OrderInv, LoopOK
<1>5. /\ OrderTyped /\ heard[c] \in Seq(RawData) /\ heard \in [Sessions -> Seq(RawData)]
      /\ SaysInOrder(sent[c]) /\ HearsInOrder(sent[c], heard[c]) /\ PostOK(c)
  BY DEF OrderInv, OrderTyped, SessionOrder
<1>6. first \in Packet /\ first.data \in RawData
  <2>1. first \in Packet
    BY <1>2, <1>3, SequenceOf
  <2> HIDE DEF first
  <2> QED BY <2>1 DEF Packet
<1>7. /\ heard' \in [Sessions -> Seq(RawData)]
      /\ \A d \in Sessions : d # c => heard'[d] = heard[d]
      /\ HearsInOrder(sent[c], heard'[c]) /\ Awaited(sent[c], heard'[c], rest)
  <2>1. Awaited(sent[c], heard[c], rest)
    BY <1>2, <1>3, <1>4, AwaitedTail
  <2>2. CASE UNCHANGED heard
    BY <1>5, <2>1, <2>2
  <2>3. CASE IsMessage(first) /\ Receive(c, first.data)
    <3>1. /\ heard' \in [Sessions -> Seq(RawData)]
          /\ \A d \in Sessions : d # c => heard'[d] = heard[d]
          /\ heard'[c] = heard[c] \/ heard'[c] = Append(heard[c], first.data)
      BY <1>5, <1>6, <2>3, ReceiveHears
    <3>2. HearsInOrder(sent[c], Append(heard[c], first.data))
          /\ Awaited(sent[c], Append(heard[c], first.data), rest)
      BY <1>2, <1>3, <1>4, <1>5, <2>3, HeadHeard
    <3> QED BY <1>5, <2>1, <3>1, <3>2, Zenon
  <2> QED BY <1>0, <1>1, <2>2, <2>3
<1> HIDE DEF first, rest
<1>8. OrderTyped'
  BY <1>1, <1>5, <1>7 DEF OrderTyped
<1>9. SessionOrder(c)'
  <2>1. post[c] # NoPost => BodyOK(post[c]) /\ transport[c] # "polling"
    BY <1>4, <1>5, Zenon DEF PostOK
  <2> QED BY <1>1, <1>5, <1>7, <2>1, Zenon DEF SessionOrder, PostOK
<1>10. ASSUME NEW d \in Sessions, d # c
       PROVE  SessionOrder(d)'
  BY <1>1, <1>7, <1>10, SessionSame DEF OrderInv
<1>11. LoopOK'
  <2>1. Awaited(sent'[c], heard'[c], Tail(loop.packets))
    BY <1>1, <1>7 DEF rest
  <2> QED BY <1>0, <1>1, <1>2, <2>1, NextPacketOrder
<1>12. \A d \in Sessions : SessionOrder(d)'
  BY <1>9, <1>10
<1> QED BY <1>8, <1>11, <1>12 DEF OrderInv

\* What no peer sends and no session hears.
LEMMA OthersOrder ==
  ASSUME InboundInv, OrderInv,
         \/ \E c \in Sessions : Handshake(c) \/ Upgrade(c) \/ SessionEnds(c) \/ AppClose(c)
         \/ ReadMetrics \/ SharedTick \/ TimePasses
  PROVE  OrderInv'
<1>1. UNCHANGED <<post, loop, checked, sent, packetsSent, heard>>
  BY DEF Handshake, Upgrade, SessionEnds, AppClose, ReadMetrics, SharedTick, TimePasses,
         incoming, events
<1>2. transport \in [Sessions -> {"polling", "websocket"}]
  BY DEF OrderInv, OrderTyped
<1>3. CASE UNCHANGED transport
  BY <1>1, <1>2, <1>3, QuietOrder
<1>4. ASSUME NEW c \in Sessions, Handshake(c) \/ Upgrade(c)
      PROVE  OrderInv'
  <2>1. PICK t \in {"polling", "websocket"} : transport' = [transport EXCEPT ![c] = t]
    BY <1>4 DEF Handshake, Upgrade, Transports
  <2>2. loop = Idle /\ (post[c] = NoPost \/ t = "websocket")
    <3>1. CASE Handshake(c)
      BY <3>1 DEF Handshake, NoLoop, InboundInv, SessionsOK
    <3>2. CASE Upgrade(c)
      BY <1>2, <2>1, <3>2 DEF Upgrade, NoLoop
    <3> QED BY <1>4, <3>1, <3>2
  <2>3. transport' \in [Sessions -> {"polling", "websocket"}]
        /\ \A d \in Sessions : transport'[d] = "polling" => transport[d] = "polling" \/ post[d] = NoPost
    BY <1>2, <2>1, <2>2
  <2> QED BY <1>1, <2>2, <2>3, QuietOrder
<1>5. UNCHANGED transport \/ \E c \in Sessions : Handshake(c) \/ Upgrade(c)
  BY DEF SessionEnds, AppClose, OnClose, ReadMetrics, SharedTick, TimePasses, sessions
<1> QED BY <1>3, <1>4, <1>5

LEMMA OrderStep == InboundInv /\ OrderInv /\ [Next]_vars => OrderInv'
<1> SUFFICES ASSUME InboundInv, OrderInv, [Next]_vars
             PROVE  OrderInv'
  OBVIOUS
<1>1. CASE UNCHANGED vars
  <2>1. UNCHANGED <<transport, post, loop, checked, sent, packetsSent, heard>>
    BY <1>1 DEF vars, sessions, incoming, events
  <2>2. transport' \in [Sessions -> {"polling", "websocket"}]
    BY <2>1 DEF OrderInv, OrderTyped
  <2> QED BY <2>1, <2>2, QuietOrder
<1>2. ASSUME NEW c \in Sessions, PostStart(c) \/ PostBody(c) \/ PostFails(c) \/ WsMessage(c)
      PROVE  OrderInv'
  BY <1>2, PostStartOrder, PostBodyOrder, PostFailsOrder, WsMessageOrder
<1>3. CASE PacketArrives \/ PacketHandled \/ LoopEnds
  BY <1>3, PacketArrivesOrder, PacketHandledOrder, LoopEndsOrder
<1> QED BY <1>1, <1>2, <1>3, OthersOrder DEF Next

-----------------------------------------------------------------------------
(* The specification: messages *)

LEMMA OrderInvariant == Spec => [](InboundInv /\ OrderInv)
<1>1. Init => InboundInv /\ OrderInv
  BY InboundInit, OrderInit
<1>2. InboundInv /\ OrderInv /\ [Next]_vars => (InboundInv /\ OrderInv)'
  BY InboundStep, OrderStep
<1> QED BY <1>1, <1>2, PTL DEF Spec

\* However many packets a body carries, of whatever kinds, it decodes to them,
\* up to the first that is malformed.
THEOREM BodiesDecode == Spec => []PayloadDecodes
<1>1. OrderInv => PayloadDecodes
  BY DEF OrderInv, SessionOrder, PostOK, BodyOK, PayloadDecodes
<1> QED BY <1>1, OrderInvariant, PTL

\* However many messages a peer sends, in whatever bodies and however late they
\* come, what a session hears of them it hears once, unaltered and in order.
THEOREM HeardAsSent == Spec => []HeardInOrder
<1>1. OrderInv => HeardInOrder
  <2> SUFFICES ASSUME OrderInv, NEW c \in Sessions
               PROVE  \E at \in [DOMAIN heard[c] -> DOMAIN sent[c]] :
                        \A i, j \in DOMAIN heard[c] : /\ heard[c][i] = sent[c][at[i]]
                                                      /\ i < j => at[i] < at[j]
    BY DEF HeardInOrder
  <2> DEFINE hears == heard[c]
             said == sent[c]
             at == [i \in 1 .. Len(hears) |-> CHOOSE k \in 1 .. Len(said) : hears[i] = Message(k)]
  <2>1. /\ hears \in Seq(RawData) /\ said \in Seq(RawData)
        /\ SaysInOrder(said) /\ HearsInOrder(said, hears)
    BY DEF OrderInv, OrderTyped, SessionOrder
  <2>2. DOMAIN hears = 1 .. Len(hears) /\ DOMAIN said = 1 .. Len(said)
        /\ Len(hears) \in Nat /\ Len(said) \in Nat
    BY <2>1, SequenceOf
  <2> HIDE DEF hears, said
  <2>3. ASSUME NEW i \in 1 .. Len(hears)
        PROVE  at[i] \in 1 .. Len(said) /\ hears[i] = Message(at[i]) /\ hears[i] = said[at[i]]
    <3>1. \E k \in 1 .. Len(said) : hears[i] = Message(k)
      BY <2>1, Zenon DEF HearsInOrder, Said
    <3>2. at[i] \in 1 .. Len(said) /\ hears[i] = Message(at[i])
      BY <3>1
    <3> HIDE DEF at
    <3> QED BY <2>1, <3>2, Zenon DEF SaysInOrder
  <2>4. at \in [1 .. Len(hears) -> 1 .. Len(said)]
    BY <2>3
  <2> HIDE DEF at
  <2>5. ASSUME NEW i \in 1 .. Len(hears), NEW j \in 1 .. Len(hears), i < j
        PROVE  at[i] < at[j]
    <3>1. i \in 1 .. j - 1
      BY <2>2, <2>5
    <3>2. Before(hears[i], hears[j])
      BY <2>1, <3>1, Zenon DEF HearsInOrder
    <3>3. Before(Message(at[i]), Message(at[j]))
      BY <2>3, <3>2, Zenon
    <3>4. at[i] \in Nat /\ at[j] \in Nat
      BY <2>2, <2>3
    <3> QED BY <3>3, <3>4, MessagesRise
  <2>6. at \in [DOMAIN hears -> DOMAIN said]
    BY <2>2, <2>4
  <2>7. \A i, j \in DOMAIN hears : hears[i] = said[at[i]] /\ (i < j => at[i] < at[j])
    BY <2>2, <2>3, <2>5
  <2> QED BY <2>6, <2>7 DEF hears, said
<1> QED BY <1>1, OrderInvariant, PTL

-----------------------------------------------------------------------------
(* The specification: types *)

\* What InboundInv, AgesInv and OrderInv leave open.
RestInv ==
  /\ dropped \in [Sessions -> Nat]
  /\ \A c \in Sessions : ready[c] = "none" => remaining[c] = 0

LEMMA RestInit == Init => RestInv
BY DEF Init, InitLimiters, RestInv, Sessions

LEMMA RestStep == InboundInv /\ RestInv /\ [Next]_vars => RestInv'
<1> SUFFICES ASSUME InboundInv, RestInv, [Next]_vars
             PROVE  RestInv'
  OBVIOUS
<1>1. CASE UNCHANGED vars
  BY <1>1 DEF RestInv, vars, sessions, events, limiters
<1>2. CASE Next
  <2>1. dropped' \in [Sessions -> Nat]
    <3>1. CASE UNCHANGED dropped
      BY <3>1 DEF RestInv
    <3>2. ASSUME NEW d \in Sessions, HearsFor(d)
          PROVE  dropped' \in [Sessions -> Nat]
      BY <3>2 DEF HearsFor, Receive, RestInv
    <3> QED BY <1>2, <3>1, <3>2, OnlyReceive
  <2>2. \A d \in Sessions : ready'[d] = "none" => remaining'[d] = 0
    <3>1. CASE Untouched
      BY <3>1 DEF Untouched, RestInv
    <3>2. ASSUME NEW c \in Sessions, Constructs(c) \/ Consumes(c)
          PROVE  \A d \in Sessions : ready'[d] = "none" => remaining'[d] = 0
      BY <3>2 DEF Constructs, Construct, Consumes, Consume, RestInv, InboundInv, SessionsOK,
                  LimitersOK, Sessions
    <3>3. CASE (ResetDue \/ Elapse) /\ UNCHANGED ready
      BY <3>3 DEF ResetDue, Elapse, Due, RestInv, InboundInv, LimitersOK, LiveSessions, Live, Sessions
    <3> QED BY <1>2, <3>1, <3>2, <3>3, StepTouches
  <2> QED BY <2>1, <2>2 DEF RestInv
<1> QED BY <1>1, <1>2

\* Nothing that is sent, awaited, heard, dropped or counted leaves its type;
\* no budget is overdrawn.
THEOREM InboundTypes == Spec => []TypeOK
<1>1. InboundInv /\ AgesInv /\ OrderInv /\ RestInv => TypeOK
  <2> SUFFICES ASSUME InboundInv, AgesInv, OrderInv, RestInv
               PROVE  TypeOK
    OBVIOUS
  <2>1. /\ ready \in [Sessions -> {"none", "open", "closing", "closed"}]
        /\ checked \in BOOLEAN /\ (checked => loop.packets # <<>>)
        /\ late \in [Sessions -> Nat] /\ counted \in Nat
        /\ metricsOn \in BOOLEAN /\ dataListeners \in [Sessions -> {0, 1}]
        /\ activeLimiters \subseteq Limiters /\ sharedTimer \in BOOLEAN
        /\ inWindow \in [Limiters -> Nat]
    BY DEF InboundInv, SessionsOK, LimitersOK, LiveSessions, MetricsOK, LateOK, Sessions
  <2>2. /\ transport \in [Sessions -> {"polling", "websocket"}]
        /\ sent \in [Sessions -> Seq(RawData)] /\ heard \in [Sessions -> Seq(RawData)]
        /\ packetsSent \in 0 .. MaxSent
        /\ loop = Idle \/ loop \in [by : Sessions, via : {"polling", "websocket"}, packets : Seq(Packet)]
    BY DEF OrderInv, OrderTyped, LoopOK
  <2>3. \A c \in Sessions : post[c] \in {NoPost} \cup [chars : Seq(Nat), meant : Seq(Packet)]
    BY Zenon DEF OrderInv, SessionOrder, PostOK, BodyOK
  <2>4. untilReset \in [Limiters -> 0 .. WindowMs] /\ ages \in [Limiters -> Seq(0 .. WindowMs)]
    BY DEF AgesInv, AgesTyped, Sessions
  <2>5. remaining \in [Limiters -> 0 .. MaxMessages]
    <3>1. \A c \in Sessions : remaining[c] \in 0 .. MaxMessages
      <4> SUFFICES ASSUME NEW c \in Sessions
                   PROVE  remaining[c] \in 0 .. MaxMessages
        OBVIOUS
      <4>1. remaining[c] \in Nat /\ inWindow[c] \in Nat /\ MaxMessages \in Nat
        BY RateLimiterAssumption DEF InboundInv, LimitersOK, Sessions
      <4>2. CASE ready[c] = "none"
        BY <4>1, <4>2 DEF RestInv
      <4>3. CASE ready[c] # "none"
        <5>1. remaining[c] + inWindow[c] = MaxMessages
          BY <4>3 DEF InboundInv, BudgetsOK
        <5> QED BY ONLY <4>1, <5>1
      <4> QED BY <4>2, <4>3
    <3>2. remaining = [c \in Limiters |-> remaining[c]]
      BY DEF InboundInv, LimitersOK
    <3> QED BY <3>1, <3>2 DEF Sessions
  <2>6. dropped \in [Sessions -> Nat]
    BY DEF RestInv
  <2> QED BY <2>1, <2>2, <2>3, <2>4, <2>5, <2>6 DEF TypeOK
<1>2. Init => InboundInv /\ AgesInv /\ OrderInv /\ RestInv
  BY InboundInit, AgesInit, OrderInit, RestInit
<1>3. InboundInv /\ AgesInv /\ OrderInv /\ RestInv /\ [Next]_vars
        => (InboundInv /\ AgesInv /\ OrderInv /\ RestInv)'
  BY InboundStep, AgesStep, OrderStep, RestStep
<1> QED BY <1>1, <1>2, <1>3, PTL DEF Spec
=============================================================================
