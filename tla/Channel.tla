------------------------------ MODULE Channel -------------------------------
(***************************************************************************)
(* What one session promises the application that writes to it: messages   *)
(* are accepted while it is open, delivered in batches that leave nothing  *)
(* behind, and all delivered before close() completes.  Any failure may    *)
(* end it sooner, and only a WebSocket loses a message it was given.       *)
(* Nothing here says how: polls, WebSockets, timers and buffers are module *)
(* Session's, which implements this specification.                         *)
(***************************************************************************)
EXTENDS Integers

VARIABLES
  ready,      \* "open", "closing" or "closed"
  reason,     \* why it closed, "none" until then
  transport,  \* "polling" or "websocket"
  accepted,   \* messages the application wrote
  delivered,  \* messages put on the wire
  intact,     \* no message has been lost
  switching   \* the application hears of the switch to a WebSocket

vars == <<ready, reason, transport, accepted, delivered, intact, switching>>

Failure == {"transport close", "transport error", "ping timeout", "parse error"}

Init ==
  /\ ready = "open" /\ reason = "none"
  /\ transport \in {"polling", "websocket"}
  /\ accepted = 0 /\ delivered = 0 /\ intact = TRUE /\ switching = FALSE

\* Delivery leaves nothing behind, except what was lost.
DeliverAll ==
  IF intact THEN delivered' = accepted'
            ELSE delivered' \in delivered .. accepted'
DeliverNothing == delivered' = delivered

\* A message is accepted and delivered with all before it, or it waits.
Accept ==
  /\ ready = "open"
  /\ accepted' = accepted + 1
  /\ DeliverAll \/ DeliverNothing
  /\ UNCHANGED <<ready, reason, transport, intact, switching>>

\* While the application hears of the switch, what it broadcasts overtakes what
\* waits for the WebSocket.
Overtake ==
  /\ ready # "closed" /\ switching
  /\ accepted' = accepted + 1 /\ delivered' = delivered + 1
  /\ UNCHANGED <<ready, reason, transport, intact, switching>>

\* A message is accepted and dropped, by a WebSocket only.
Lose ==
  /\ ready # "closed" /\ transport = "websocket"
  /\ accepted' = accepted + 1 /\ intact' = FALSE
  /\ DeliverNothing
  /\ UNCHANGED <<ready, reason, transport, switching>>

\* What waits is delivered; a session that is closing was waiting for that.
Drain ==
  /\ ready # "closed"
  /\ DeliverAll
  /\ IF ready = "closing"
       THEN ready' = "closed" /\ reason' = "forced close"
       ELSE UNCHANGED <<ready, reason>>

Deliver == Drain /\ UNCHANGED <<transport, accepted, intact, switching>>

\* The transport changes once, ...
Upgrade ==
  /\ transport = "polling" /\ transport' = "websocket"
  /\ ready # "closed" /\ switching' = TRUE
  /\ DeliverNothing
  /\ UNCHANGED <<ready, reason, accepted, intact>>

\* ... and takes what waits with it, once the application has heard.
Switched ==
  /\ switching /\ switching' = FALSE
  /\ \/ Drain
     \/ DeliverNothing /\ UNCHANGED <<ready, reason>>
  /\ UNCHANGED <<transport, accepted, intact>>

\* close() waits, or completes at once when no message does.
Close ==
  /\ ready = "open"
  /\ \/ ready' = "closing" /\ reason' = reason
     \/ ready' = "closed" /\ reason' = "forced close" /\ DeliverAll
  /\ DeliverNothing
  /\ UNCHANGED <<transport, accepted, intact, switching>>

\* The packet that ends a session may first have released what waited.
Fail ==
  /\ ready # "closed"
  /\ ready' = "closed" /\ reason' \in Failure
  /\ DeliverNothing \/ DeliverAll
  /\ UNCHANGED <<transport, accepted, intact, switching>>

Next ==
  \/ Accept \/ Overtake \/ Lose \/ Deliver
  \/ Upgrade \/ Switched \/ Close \/ Fail

Spec == Init /\ [][Next]_vars
=============================================================================
