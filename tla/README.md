# A verification of socketio-bun-engine

TLA+ models of the Engine.IO server in `src/lib`, model-checked with TLC, with the central
invariants proved by TLAPS for every value of the constants. `PROJECT.json` lists the
components, the runs, the source lines behind each definition, the hazards and the findings.

## The system

| Component | State it keeps | Operations | Interacts with |
|---|---|---|---|
| `Socket` (`socket.ts`) | `readyState`, `upgradeState`, `writeBuffer`, two heartbeat timers, the bound transport | `write`, `close`, `onPacket`, `flush`, `schedulePing`, `_maybeUpgrade`, `onClose` | listens to its transport; emits to Server and the application |
| `Polling` (`transports/polling.ts`) | `pollingPromise` with its timer, `writable` | a poll, a POST (awaits its body), `send`, `doClose`, abort listeners | called by Server with requests and by Socket with packets |
| `WS` (`transports/websocket.ts`) | the Bun socket, `writable`, `_sendCount` | `send`, `sendMessage`, `sendRaw`, `onMessage`, `onCloseEvent`, `doClose` | called by Bun's callbacks and by Socket |
| `Server` (`server.ts`) | `clients`, rates, `_degraded`, `_draining`, metrics | `handleRequest`, `verify`, `handshake`, `broadcast`, `shutdown`, `close` | creates sockets, routes requests and WebSocket events |
| `RateLimiter` | a budget each; one timer shared by all limiters | constructor, `consume`, `destroy`, the timer's callback | owned by Socket |
| `EventEmitter` | listener lists | `on`, `once`, `off`, `emit` | base of all of the above |
| `ServerMetrics`, `Parser`, CORS, utilities | counters; otherwise none | pure or additive | used by Server and the transports |

JavaScript runs one callback at a time, so what is hard is not data races but *orders of
callbacks*: timers against packets, requests against an upgrade, a close from inside a handler
of the transport being closed, state read before an `await` and used after it, listeners that
outlive what they were attached for. The hazards in `PROJECT.json` name each at its line.

What makes each component correct:

- **Socket**: messages leave once each and in order across an upgrade and a pause, but for what a
  listener of "upgrade" broadcasts; `close()` lets them go first; a live session always has a
  heartbeat timer armed; a closed one is final.
- **Polling**: every poll is answered or given up. **WS**: only a WebSocket drops what it is given.
- **Server**: a session leaves the registry when it ends; counters and the cached flag agree
  with it; `maxClients` and the rates hold; `shutdown()` and `close()` resolve, and not too early.
  (Listeners of the application can break the first and the last of these: see below.)
- **Receiving**: what a peer sends is heard once, in order and unaltered, by a session that is open;
  it is refused only by the rate limiter, and counted once.
- **RateLimiter**: the shared timer runs exactly while a limiter exists; a spent budget comes back,
  and no window's worth is exceeded twice. **Parser**: what is encoded is decoded. **CORS**: `Vary`
  names what the headers depend on.
- **EventEmitter**: an emit calls the listeners it found, whatever they do; a `once` listener that
  has run is gone.

## Modules

- `EngineSocket` — the synchronous code of one session: `Socket` with both transports. A handler
  runs to completion, so each method is an operator from the session's record to the record it
  leaves, composed as the code's calls are: `Flush` ends in `EmitDrain`, which may end in
  `ForcedClose`, as `flush` emits `drain`, which may run the listener `close()` left. The end of
  the module names what the handlers preserve (`Core`, `Flushed`, `Alive`).
- `Session` — one session under every order of its events. One action is one callback: a call of
  the application, a timer, a request, a WebSocket message or close event, a change of Bun's send
  buffer. A POST is several actions (`PostStart`, `PostPacket`, `PostAnswer`, `PostFailure`)
  because its body is awaited, and anything may happen in between; and the handler of the upgrade
  packet is two (`ProbeReceive` with `Adopt`, `UpgradeHeard` with `Adopted`), because the
  application's listeners run in between.
- `Channel` — what a session promises the application that writes to it, with no transport,
  timer or poll in it. `Session` implements it (`ImplementsChannel`) under the mapping
  `accepted <- messagesSent`, `delivered <- Len(out)`, `intact <- ~lost`, `switching <- switching`.
- `Server` — admission, registry, transport counters, degradation, `shutdown()` and `close()`. A
  request is cut exactly where `handleRequest` and `handshake` yield to other events: at the
  middlewares and `allowRequest` (`AsyncChecks`), and at `editHandshakeHeaders`
  (`HandshakeHook`); `handshake` is cut again at the "degradation" event (`Register`,
  `HandshakeGoesOn`), and the loops of `shutdown()` and `close()` are walked one session at a time
  (`Begin`, `Reach`, `Return`), because listeners of the application run there. It composes with
  Session through two facts: a session ends or upgrades at any time, and one that is closing does
  end (Session's `ClosingEnds`, Server's fairness).
- `Parser` — the wire format as operators: a string is the sequence of its character codes.
- `RateLimiter` — the limiters of all sessions and their one timer: what each method and the
  timer's callback do to them. `untilReset` is `_nextReset` less the time.
- `Inbound` — what the peers of several sessions send, from a POST's body or a WebSocket message to
  the application's "data" event. It extends `Parser` and `RateLimiter` and says who calls them:
  `Handshake` constructs a limiter, `OnClose` destroys it, `Receive` consumes. The loop of
  `Polling.onDataRequest` is cut at the "packet" event (`PacketArrives`, `PacketHandled`), because
  the application's listeners run there and may close any session or read the metrics; between
  the two halves nothing else happens but such calls. How sessions come to close and upgrade is
  Session's matter: here they just may. `Session` and `Inbound` cut the same loop differently:
  there a POST's packets are what matters to the session's life, here what they carry.
- `EventEmitter` — `on`, `once`, `off` and `emit`. Emits within emits are a stack of frames, each
  with the snapshot it walks; calls of the application happen when no emit is under way or inside
  the innermost listener, which may also throw. A listener's `once` field is the number of the
  wrapper that `once` made, 0 for one registered by `on`.
- `Cors` — the CORS headers as a function, and two theorems about it; it has no state and no run.
- `MCSession`, `MCServer`, `MCInbound`, `MCEventEmitter` — the modules TLC runs.
- The proofs: `SessionProofs` and `SessionStepProofs` (which extends it), `ServerProofs` and
  `ServerCallsProofs` (likewise), `InboundProofs`, `EventEmitterProofs`, `ParserProofs`, and `Cors`.

Operators whose comment begins with "Fault" are not part of the model: each is the operator
after it with a plausible mistake (a dropped guard, an off-by-one, a missing reset), and the
project keeps, for every property of a passing run, one that breaks it.

### How state corresponds to the code

The record of `EngineSocket` is explained field by field at the head of the module. Five fields
are not in the code: `out` (what was put on the wire), `overtook` (the messages that went past
waiting ones), `lost` (a transport dropped a message it was given) and `hung` (a pending poll was
dropped unanswered) record what the properties are about; `switching` says that the handler of the
upgrade packet is at its "upgrade" event. A message is its rank among those written; control packets in `writeBuffer` are the
set of their types, since no property depends on their order. The backpressure count is kept
modulo `CheckInterval`. Payloads, sizes, headers, `_pingSentAt` and the received-message counters
are left out; every reason to refuse a POST is one event. In `Server`, the statuses 400, 403, 429,
500 and 503 are one, "refused"; "crash" is an exception out of `handleRequest`. `stack` is what is
under way, the innermost first: a call whose loop is running, a request whose handshake is at its
"degradation" event, `App` for listeners of the application; it is the JavaScript call stack cut
down to the handlers that can be interrupted. `session[c].listened` says that Server's own close
listener is on the session. A call's `pending` are the sockets that carry its `onClose`, `todo` those
its `forEach` has not reached; `missed` (those that left the Map before it did) and `waited` (those
registered at the call) are history.

In `Inbound`, the message of rank n has one character or byte, n or, from the separator's code on,
n + 1, and is text when n is odd and binary when even: so text, bytes and base64 all occur, no text
contains a separator, and messages can be told apart and put in order by what they contain. `sent`, `post[c].meant`, `late`, `inWindow`
and `ages` are history: what a peer sent, what a body was encoded from, how many messages a session
heard that was no longer open, how many it heard in the present window, and how long ago it heard
each, up to the length of a window. `counted` is the number of messages the metrics counted, where
the code adds up their bytes. In `EventEmitter`, `called`, `runs` and `reentered` are history: what
an emit has called, how often the listener of a wrapper ran, and the events that were emitted from
within an emit of theirs.

### Listeners of the application

`emit` calls the application's listeners inside the handler that emits, so a handler runs to
completion only as far as its listeners let it. Where one runs before its handler is done and may
change what the handler does next, the handler is cut there, and between the two parts only the
application acts:

- "upgrade" (`socket.ts:367`), between the binding of the WebSocket and the flush of what waits for
  it. `Session` lets its listeners write, broadcast, close, and have the metrics attached; BufferFill
  may then happen too, since what they send may be what fills Bun's buffer.
- "degradation" (`server.ts:751`), between the registration of a session and the listener to its
  close. `Server` lets its listeners close sessions and call `shutdown()` or `close()`.
- "close", inside the loops of `shutdown()` and `close()` (`server.ts:964`, `986`): the listeners of a
  session that ends there and then may close others, which `forEach` then skips, or call
  `shutdown()` or `close()` in turn, so that loops nest. `Map.forEach` walks the sessions in the
  order of their registration; `Reach` takes them in any order, which only adds behaviours. The
  degradation that an end may bring about emits its event from the same place.
- "packet", inside the loop over a POST's body and between the test of `readyState` and the delivery
  (`socket.ts:163`): `Inbound`.

The other listeners are the last thing of consequence their handler runs ("data", "heartbeat",
"rateLimited", "upgrading", "connection", "connection_error", "shutdown", "drain", and "close"
elsewhere): what they call is a step after the handler. After "drain" and "close" a handler may still
arm the ping timeout, or go on to the rest of a message; a session that such a listener closed
ignores both, and a closed session with a ping timeout armed is among the states of `Session` anyhow.
The loop of `shutdown()`'s timer is one step: it only closes, counts nothing and resolves whatever
happens, so a session that a listener closes in it might as well have been closed by the loop.

Taken to look and do nothing else: listeners of "packetCreate" and "flush", which observe a packet and
a buffer about to go, and those of "packet" in `Session`. Listeners may throw only in `EventEmitter`.

### Assumptions about the runtime

- Bun calls the `open` handler inside `server.upgrade()`, so a WebSocket is open when
  `_maybeUpgrade` or the Socket constructor sees it.
- After `close()` a WebSocket delivers no message, and its close event comes as an event of its
  own, soon or late.
- `Timer.refresh()` re-arms a timer that has fired.
- `LateAborts`: whether the abort signal of a request may still fire after its response was
  produced. The code's own comment expects it; the runs and theorems say which value they need.
- `getBufferedAmount()` rises above the threshold and falls below it at any time.
- A peer has one POST under way at a time, as the protocol demands, and its text contains no record
  separator (the format has no escape for one).
- `Date.now()` does not go back. The callback of an interval may come at any time while the interval
  is set; it does come (`WF(SharedTick)`).
- `rateLimit` is configured; without it `Receive` has only its second disjunct.

## Runs

| Run | Bounds | Shows |
|---|---|---|
| `session` | 3 messages, check every 2 sends, backpressure, late aborts, 1 lost interval timer | types, `NothingStuck`, `KeepaliveArmed`, `InOrderDelivery`, `GracefulClose`, `ClosingWaits`, `ProbeTimers`, `NoOrphanWebSocket`, `ClosedIsFinal`, `OnlyWebSocketLoses`, `OvertakenInUpgrade`, `ImplementsChannel` |
| `session_live` | 2 messages, no backpressure, no late aborts | `NoHangingPoll`; closing, silent and probed sessions come to an end |
| `session_late_abort` | 1 message, late aborts | **violation**: the abort of an answered poll drops the next one |
| `session_drained` | 2 messages, backpressure | **violation**: a drained WebSocket stays paused until its peer speaks |
| `session_broadcast` | 2 messages, backpressure | **violation**: a broadcast to a paused WebSocket is dropped and counted |
| `server` | 3 requests, 2 calls, `maxClients` 2, degraded at 1, rates 2 and 1, awaiting checks | registry, counters, flag, capacity and pending calls agree; a session leaves the registry as it ends (`EndIsHeard`) |
| `server_live` | 2 requests, 2 calls, `maxClients` 2, degraded at 1, both hooks | after `shutdown()` only a handshake that was in the hook registers (`DrainingIsFinal`); the sessions registered at a call end (`CallsClose`); calls resolve, with one exception told below (`CallsResolve`) |
| `inbound` | 2 sessions, of which one peer talks, 3 packets, 2 to a body, 1 message a window, windows of 1 tick | the types, `TimerShared`, `BurstBounded`, `PayloadDecodes`, `HeardInOrder`, `DeafAfterClose`, `DroppedOnlyWhenSpent`, `CountedOnce`; a spent budget comes back (`LimitedRecovers`) |
| `emitter` | 2 events, 2 functions, 2 listeners an event, 2 calls of `once`, emits 2 deep | types, `SpentIsGone`, `OnceUnlessReentered`, `EmitReachesAll` |
| `server_capacity` | 2 requests, `maxClients` 1, hook | **violation**: handshakes in the hook exceed `maxClients` |
| `server_forced` | 2 requests | **violation**: the timeout of `shutdown()` does not force a closing session |
| `server_cast` | 3 requests, awaiting checks | **violation**: a poll verified before an upgrade crashes after it |

Why the bounds are enough. Two messages make an order; the third lets one be on the wire, one in
the buffer and one written while the transport is paused. A check every 2 sends makes the
backpressure check both happen and not happen between two writes. One lost interval timer is
enough to fire after the session closed. Three requests make a session, its upgrade and a request
verified before it; a capacity of 2 with degradation at 1 makes the server in turn free, degraded
and full; with the first session registered the server becomes degraded, so its listeners run with
a second one still to come. Two sessions are what the loop of a call needs to skip one, and two
calls what it needs to nest. `session` has 580,620 states, `session_live` 43,902, `server` 137,936
and `server_live` 41,955. `server` uses the symmetry of requests and calls: no property of it tells them apart,
and it checks no liveness. In `inbound`, two sessions share the limiters' timer, so that one closes
while the other lives; the second neither talks nor upgrades, since messages of two peers meet
nowhere but in the loop, which one peer's POST and WebSocket message can also contend for. Three
packets make a body of two and one by WebSocket after it, or a message, one refused and one after
the refill; a window of one message is spent at once. In `emitter`, two listeners take one branch
of `emit` and one of them another; the third branch walks the same snapshot. Two calls of `once`
make the same function one-time twice; an emit within an emit is where a wrapper can run twice.
Functions and events are symmetric there. Deadlock is not checked for `Session` and `Server`: a
session ends for good, and so does a server whose requests are all served.

Fairness. `Session` assumes that the timers of the heartbeat and of an upgrade fire once armed, that a
WebSocket we closed reports its close event and that the listeners of "upgrade" return. A pong
postpones the interval timer, so a peer that sends pongs without end can keep the next ping away for
ever; the liveness properties do not depend on it: they concern a closing session, whose `onPacket`
ignores everything, a peer that has fallen silent, and a probe, which has a timer of its own.
`ProbeEnds` is stated without backpressure, since the upgrade timer leaves alone a probe that is
paused. `Server` assumes that the application's hooks and listeners return and that what they
interrupted goes on, that the timer of `shutdown()` fires and that a closing session ends. `Inbound`
assumes that time passes, that the shared timer's callback comes while it is set, and that a
synchronous loop ends. Nothing is assumed of peers.

### Findings

1. **Late abort** (`polling.ts:73`). The abort listener tests whether *a* poll is pending, not
   whether *its* poll is. An abort of an answered request drops the following poll unanswered and
   closes the session, although the comment there says such an abort is skipped.
2. **No resumption on drain** (`websocket.ts:127`). `handler()` registers no drain callback, so a
   paused WebSocket resumes only on the next incoming message. If the ping is due meanwhile, it
   is buffered, the peer is never asked, and the session ends with a ping timeout. The README
   says writes resume "when the buffer drains".
3. **Broadcast to a paused WebSocket** (`server.ts:878`) is neither sent nor buffered, yet
   counted in `messagesSent`.
4. **`maxClients`** (`server.ts:637`) is checked before the await of `editHandshakeHeaders` and
   the session registered after it (`server_capacity`).
5. **`shutdown()`'s timeout** (`server.ts:949`) calls `client.close()`, which does nothing for a
   session that is already closing. Its last close may also emit "shutdown" a second time.
6. **A request verified before an upgrade** (`server.ts:482`) reaches a WS transport cast to
   Polling and throws.

Three more disagreements are in the model, and the passing runs say exactly how far they go:

- **`close()` may never resolve** (`server.ts:980`). `remaining` is fixed before the loop subscribes
  and closes one session at a time. If the "close" listener of one session closes another, that one
  leaves the Map, `forEach` skips it and nobody counts it down, although the comment at
  `server.ts:972` says the promise resolves "when all are closed". `shutdown()` then resolves by its
  timeout only. `CallsResolve` shows that a `close()` waits in vain only for a session that left
  before its loop came to it (`missed`), or for one that the next disagreement left behind.
- **A session may stay registered for good** (`server.ts:751`). A listener of "degradation" that
  closes the new WebSocket session, whose buffer is empty, ends it before Server listens to its close:
  it stays in `clients`, in `clientsCount`, in the counters and against `maxClients`. `Registered` and
  `EndIsHeard` show that there is no other way.
- **A handshake may register after `shutdown()`** (`server.ts:586`). `_draining` is read before the
  await of `editHandshakeHeaders`, like `maxClients`. `DrainingIsFinal` shows that only a handshake
  already in that hook does, and that none enters it any more.

A broadcast from a listener of "upgrade" goes past the messages that wait for the flush
(`server.ts:878`, `socket.ts:367`), where `write` waits its turn. Nothing in the repository promises the order of
broadcasts among other messages, so this is no finding; `InOrderDelivery` and `OvertakenInUpgrade`
say exactly what may overtake, and when.

Met while reading, and not (yet) the subject of a run: an unsolicited pong before the first ping
leaks the interval timer (`socket.ts:226`), and a second probe ping the fast upgrade interval
(`socket.ts:343`) — both are in the model (`strays`, `fastLeaked`), and `ClosedIsFinal` shows
them harmless after the close; a failed upgrade leaves `upgradeState` at "upgrading", so the
session can never upgrade; packets of a POST whose session upgraded while the body was read are
dropped though the POST is answered "ok"; the per-IP rate is a fixed window, not a sliding one, and
so is the rate limiter's (`BurstBounded`: up to two windows' worth in the span of one). A one-time
listener runs a second time when a listener before it emits the event again: the inner emit runs and
removes it, the outer one still holds it in its snapshot (`event-emitter.ts:99` says "one-time";
`OnceUnlessReentered` shows that this is the only way). A session that its own "packet" listener
closes still hears that message (`socket.ts:163`), and the metrics miss it if they are first read in
that listener, since the session is registered no more. The comment at `rate-limiter.ts:15` speaks
of a 100 ms interval; it is 25 ms. A preflight that names no headers is answered without `Vary` for
them (`cors.ts:82`), which matters to a cache that stores answers to OPTIONS only.

## Proofs

`SessionProofs` proves, for any number of messages, any check interval, with and without
backpressure and late aborts, that every state of a session satisfies `Inv`, the conjunction of

- `Core`: the type; `PollConsistent` (a poll is pending exactly when the polling transport is
  writable, and only on a live polling session); `NothingHung`; `ClosingListens` (closing means
  the drain listener is there) with packets to wait for; `InOrder` (what is on the wire and what is
  buffered are the messages 1 to n, once each, and only those of `overtook` come before older ones);
  `Graceful`; `ProbeTimersOwned`;
- `Flushed`: a live session that can write has nothing buffered, once the listeners of "upgrade" have
  returned;
- `Alive`: a live session has a heartbeat timer armed.

The split follows the code: in the middle of a handler only `Core` holds (packets wait for a
flush, a timer is about to be armed), and the handler's last call restores the rest. The lemmas
go from the innermost method out — sending, closing, flushing, then each entry point — and say
what it does to the three parts; `NextInv` then has one step per action. `NothingStuck`,
`KeepaliveArmed`, `InOrderDelivery`, `GracefulClose`, `ClosingWaits` and `TypeOK` follow, and
`NoHangingPoll` from the assumption `~LateAborts`: finding 1 is its counterexample otherwise.
None of them is inductive alone. `GracefulClose`, say, needs `InOrder` to know what was written
and `Graceful` to know that the buffer was empty when the session closed, which needs
`ClosingListens` to know that nothing but a flush runs the listener.

`SessionStepProofs` proves what one event may do to a session. Its invariant adds to `Inv` two
facts about the WebSocket and one about the counts:

- `Probed`: a probe has a WebSocket, open or closing, and, without backpressure, the upgrade timer or
  the close event to end it; a WebSocket that is open is a probe or carries the session; and while
  the listeners of "upgrade" run, the WebSocket of a live session is open;
- `Bounded`: what is delivered and what is buffered together do not exceed what was accepted.

From these follow `ProbeTimers` and `NoOrphanWebSocket`, and the step properties `ClosedIsFinal`,
`OnlyWebSocketLoses`, `OvertakenInUpgrade` and `ImplementsChannel`. `OvertakenInUpgrade` needs
`Flushed`: a WebSocket that can write and has messages waiting is one whose adoption the application
is hearing of. The refinement is proved between records: `Accepts`, `Overtakes`, `Loses`, `Delivers`,
`Switches`, `Switched`, `Closes` and `Fails` say of two records of a session what the
actions of `Channel` say of its variables, and `Stutters` that the application sees nothing. Each
method of `EngineSocket` is followed from the record it is given to the one it leaves, so that a
handler that writes, flushes, emits "drain" and closes is still one step of the promise. `Bounded` is
what the steps need and no property of a state shows: a flush that empties the buffer has delivered
all that was accepted, and one after a loss no more than that.

`ServerProofs` proves, for any requests, calls and limits, that the registry is the set of live
sessions with those that ended unheard in their own handshake, and no others (`Registered`,
`EndIsHeard`), the degradation flag current, and that only a handshake that waited in the hook joins
a server that drains; and, assuming `~HandshakeHook`, that `maxClients` holds. The invariant adds to the registry's three
facts what each waiting request asked, that none waits in a hook that does not exist, and
`Attended`: a session that lives without Server listening to it belongs to a handshake at its
"degradation" event, and the session of such a handshake is registered and not listened to.

`ServerCallsProofs` proves the rest of what the run `server` checks, the types, `CountersMatch`,
`CallsHeard` and `CloseWaitsForAll`, and, assuming `~AsyncChecks`, that no request crashes: finding 6
is its counterexample otherwise. `CallsInv` adds to `ServerProofs`' invariant

- `RequestsOK`: where each request stands. A request that has not been answered has made no session,
  so each handshake makes a new one; and a session that was seen polling when a request for it was
  verified has upgraded since, if it polls no more (`WasPolling`);
- `CountersOK`: the counters as functions of the sets of sessions. One session enters or leaves at a
  time, except when a call closes many, which is why the lemmas about cardinality are about sets;
- `AllSound`: a call counts the sessions that carry its listener, those its loop has still to reach and
  those it missed; the three are disjoint and `remaining` is the sum of their numbers; the first two
  are registered and the third are not; every session of those it found that lives is among the first
  two; and a call that has not resolved has someone left to count;
- `LoopsOK`: a call whose loop has sessions to reach is on the stack, so that a server that is idle
  has no loop half done.

`AllSound` is stated for a set of registered sessions, not for `clients`, because one step of the
server closes a session and tells every call: the calls are sound before it for the old registry and
after it for the new one. The three sets are what re-entrancy needs: a session closed from inside a
loop goes from the second to the third and the sum stays, which is why `remaining` of a `close()`
cannot reach zero early, and why it may never reach it.

`InboundProofs` proves, for any number of sessions, messages and windows, that the shared timer runs
exactly while a session lives, that a message is refused only when its budget has been heard, that
each is counted once and that at most one is heard late; and, as told below, that bursts are bounded
and that messages are heard as they were sent. `InboundInv` adds to these: what is left of
a budget and what was heard of it make `MaxMessages`; the metrics listen exactly once to every live
session, or to none; and a packet that is at its "packet" event belongs to a session that has heard
nothing late — it was open when the packet arrived, and an open session never has. Most actions go
through `QuietInv`: they close one session or none, and nobody hears anything.

`BurstBounded` rests on a second invariant, `AgesInv`: the messages heard before the present window
are at least as old as that window (their age and what is left of the window make `WindowMs`), and
all of those but the last `MaxMessages` are a whole window old. A message heard is new and of
this window; when time passes the ages grow by what the window loses; and when the callback comes,
however late, nothing is left of the window, so all but its own messages are a window old, and these
are `MaxMessages` at most. `StepTouches` says that every other step leaves windows and ages alone.
The property could not be proved of a history that forgets old messages, so `ages` keeps them all,
each with its age up to `WindowMs`.

`EventEmitterProofs` proves all that the run `emitter` checks, for any events, functions and depth.
Each wrapper is in a list once at most, in that of its own event, and has not run while it is there;
a frame has called the part of its snapshot before `next`; and an event never emitted within itself
has one frame at most, with nothing ahead of it that has run. Calling a wrapper removes it by its
number, and the lemmas about `WithoutFirst` (what is left are other positions, each once) do the
rest.

`ParserProofs` proves that every packet the library sends is decoded to itself, with and without
base64, that none brings a separator of its own into a payload, and `PayloadRoundTrip`: a payload
decodes to its packets, however many, up to the first that is malformed. Between the two stands
`SplitUndoesJoin`: the separators of a text that is pieces joined by separators are where the pieces
end, and nowhere else; there is one way to put these places in order (`OneOrder`), and what lies
between two neighbours is a piece.

`HeardInOrder`, `PayloadDecodes` and the types of `Inbound` rest on a third invariant, `OrderInv`:
what was said is `Message(1)`, `Message(2)` and so on; what was heard is among it, each behind the one
before; and what is still on its way, in a body awaited or in the loop, is `Awaited`: said, in
order, and behind all that was heard. This last holds only as long as the transport it came by
carries the session, which is all that is needed, since a session does not listen to one it has left:
after an upgrade a late body may be behind what came by WebSocket. It is why the invariant compares
`via` with `transport`, and why the mutant that drops this comparison is caught.

These are facts about what `FlattenSeq` and a split at separators compute for any input. The induction
they take is not the library's, whose theorems the installed provers cannot instantiate, but a fact
about sets: a set of numbers that has a number has a least one (`LeastNumber`), so a set that contains
the first of `1 .. n`, and with each the next, contains them all (`UpTo`). Applied to the set of the
numbers where a partial sum is as it should be, it is an induction.

`Cors` proves that `Vary` names what the headers depend on, up to the preflight above, and that only
accepted origins are named.

The proofs use the assumptions on the constants named in the modules and nothing else.

Only model-checked, and why:

- the liveness properties (`ClosingEnds` and the others of `session_live`, `CallsResolve` and
  `CallsClose` of `server_live`, `LimitedRecovers`): fairness and ENABLED are out of the prover's reach.

## Plan

Done, in this order: `EngineSocket` and `Session` (the core), `Channel`, `SessionProofs`,
`Server`, `ServerProofs`; then `RateLimiter`, `Parser` and `Inbound`, `EventEmitter`, `Cors`, and
the proofs about them; then `ServerCallsProofs`, `SessionStepProofs`, the bound on bursts, and the
payloads and the order of messages. Every safety and step property of the passing runs is proved. To
come, if anything: the safety halves of the liveness properties (what a step that must come changes,
and that nothing undoes it), so that only fairness is left to TLC.

## Not modelled

The two handshake rates against a clock: `Server` checks that neither is overdrawn between two
refills, and a sliding window would need time in every state of it. The walk along the middlewares:
`Server` takes the chain as one awaited verdict, so middlewares that call `next()` twice, and so
move the shared index past one that has not answered, are outside it. The utilities and the exports
(no state); the sent-byte, error and round-trip metrics (sums); the texts of errors and logs; the
HTTP and WebSocket implementations of Bun beyond the assumptions above.
