------------------------------- MODULE Server -------------------------------
(***************************************************************************)
(* The Server (lib/server.ts): admission of requests, the registry of      *)
(* sessions with the counts and the degradation flag kept beside it, and   *)
(* shutdown() and close().                                                 *)
(*                                                                         *)
(* A request is cut where handleRequest and handshake really yield: at the *)
(* middlewares and allowRequest, and at editHandshakeHeaders, when they    *)
(* are configured.  (The promise of verify() is settled when it is         *)
(* awaited: only microtasks run meanwhile, no event.)  What a session does *)
(* is module Session's; here it is open or closing, carried by polling or  *)
(* by WebSocket, and ends some day.  The session a handshake creates goes  *)
(* by the name of the request that made it.                                *)
(*                                                                         *)
(* A handler is also cut where it runs listeners of the application before *)
(* it is done: handshake at its "degradation" event, and the loops of      *)
(* shutdown() and close() at every "close" event they cause.  Such a       *)
(* listener may close sessions and call shutdown() or close() in its turn, *)
(* so what is under way is a stack.  Where listeners are the last thing a  *)
(* handler runs, what they call is a step after it.                        *)
(*                                                                         *)
(* As in EngineSocket, an operator whose comment begins with "Fault" is    *)
(* the one after it with a fault that a run must notice.                   *)
(***************************************************************************)
EXTENDS Integers, Sequences, FiniteSets

CONSTANTS
  Requests,      \* requests, each served once
  Addresses,     \* remote addresses that requestIP resolves
  Unknown,       \* what it returns for the others
  Calls,         \* calls of shutdown() and close()
  App,           \* the application, where one of its listeners is under way
  MaxClients,    \* opts.maxClients, 0 for no limit
  DegradeAt,     \* sessions at which the server is degraded, 0 for never
  MaxPerSecond,  \* opts.maxHandshakesPerSecond, 0 for no limit
  MaxPerIp,      \* opts.maxHandshakesPerIp, 0 for no limit
  AsyncChecks,   \* a middleware or allowRequest awaits
  HandshakeHook  \* editHandshakeHeaders awaits

ASSUME ServerAssumption ==
  /\ IsFiniteSet(Requests) /\ IsFiniteSet(Calls)
  /\ Unknown \notin Addresses
  /\ App \notin Calls \cup Requests /\ Calls \cap Requests = {}
  /\ MaxClients \in Nat /\ DegradeAt \in Nat
  /\ MaxPerSecond \in Nat /\ MaxPerIp \in Nat
  /\ AsyncChecks \in BOOLEAN /\ HandshakeHook \in BOOLEAN

VARIABLES
  req,       \* where each request stands
  clients,   \* the registry
  session,   \* the sessions, those that have ended included
  tokens,    \* _handshakeTokens
  ipCount,   \* _ipHandshakeCounts
  refill,    \* _handshakeTimer is running
  degraded,  \* _degraded
  metrics,   \* the transport counters of ServerMetrics
  draining,  \* _draining
  calls,     \* the promises of shutdown() and close()
  stack      \* what is under way, the innermost first

limits == <<tokens, ipCount, refill>>
registry == <<clients, session, metrics, degraded>>
vars == <<req, registry, limits, draining, calls, stack>>

\* A handshake, over WebSocket or by polling, or a request for a session.
Ask ==
  [kind : {"handshake"}, ws : BOOLEAN, ip : Addresses \cup {Unknown}]
    \cup [kind : {"data", "upgrade"}, sid : Requests]

New == [stage |-> "new"]
Waiting(stage, ask) == [stage |-> stage, ask |-> ask]
Done(status) == [stage |-> "done", status |-> status]

\* A call of shutdown() or close(): remaining counts down, pending is the set
\* of sockets that carry its listener, todo those its loop has still to reach,
\* missed those that left the registry before it did; waited is the set of
\* those registered at the call.
Call ==
  [kind : {"none", "shutdown", "close"}, resolved : BOOLEAN, timer : BOOLEAN,
   remaining : Int, pending : SUBSET Requests, todo : SUBSET Requests,
   missed : SUBSET Requests, waited : SUBSET Requests]

\* Server listens to the close of a session from the end of its handshake on.
Session ==
  [ready : {"none", "open", "closing", "closed"},
   transport : {"polling", "websocket"},
   upgrade : {"not_upgraded", "upgrading", "upgraded"}, listened : BOOLEAN]

Live(c) == session[c].ready \in {"open", "closing"}
Listened(S) == {c \in S : session[c].listened}
OpenClients == {c \in clients : session[c].ready = "open"}
On(transport, S) == {c \in S : session[c].transport = transport}

\* The event loop runs a handler only when none is under way; the application
\* acts in a turn of its own, or in one of its listeners.
Idle == stack = <<>>
Runs(f) == stack # <<>> /\ Head(stack) = f
AppTurn == Idle \/ Runs(App)

\* updateDegradationState
IsDegraded(S) == DegradeAt > 0 /\ Cardinality(S) >= DegradeAt

Init ==
  /\ req = [r \in Requests |-> New]
  /\ clients = {}
  /\ session = [r \in Requests |->
       [ready |-> "none", transport |-> "polling", upgrade |-> "not_upgraded",
        listened |-> FALSE]]
  /\ tokens = MaxPerSecond
  /\ ipCount = [ip \in Addresses |-> 0]
  /\ refill = (MaxPerSecond > 0 \/ MaxPerIp > 0)
  /\ degraded = FALSE
  /\ metrics = [connections |-> 0, disconnections |-> 0, upgrades |-> 0,
                polling |-> 0, websocket |-> 0]
  /\ draining = FALSE
  /\ calls = [k \in Calls |->
       [kind |-> "none", resolved |-> FALSE, timer |-> FALSE, remaining |-> 0,
        pending |-> {}, todo |-> {}, missed |-> {}, waited |-> {}]]
  /\ stack = <<>>

-----------------------------------------------------------------------------
(* The end of sessions: the listeners of their close events *)

\* onClose of shutdown() and close(), called once for each socket of D that
\* carries it.
\* Fault: it resolves one close too early.
HearsEarly(call, D) ==
  LET left == call.remaining - Cardinality(call.pending \cap D) IN
  IF call.pending \cap D = {} THEN call
  ELSE [call EXCEPT !.remaining = left, !.pending = @ \ D,
                    !.resolved = @ \/ left <= 1, !.timer = @ /\ left > 1]

\* Fault: it resolves one close too late.
HearsLate(call, D) ==
  LET left == call.remaining - Cardinality(call.pending \cap D) IN
  IF call.pending \cap D = {} THEN call
  ELSE [call EXCEPT !.remaining = left, !.pending = @ \ D,
                    !.resolved = @ \/ left < 0, !.timer = @ /\ left >= 0]

Hears(call, D) ==
  LET left == call.remaining - Cardinality(call.pending \cap D) IN
  IF call.pending \cap D = {} THEN call
  ELSE [call EXCEPT !.remaining = left, !.pending = @ \ D,
                    !.resolved = @ \/ left = 0, !.timer = @ /\ left # 0]

\* A session that leaves the registry leaves the loops that go through it.
\* Fault: a loop goes through the sessions it began with.
LosesNone(call, D) == call

Loses(call, D) == [call EXCEPT !.todo = @ \ D, !.missed = @ \cup (call.todo \cap D)]

\* The sessions of D end, in the state cs of the calls, and those of E start
\* closing.  Those that Server does not listen to yet stay in the registry.
\* Server's own close listener runs before those of the calls.
\* Fault: the registry keeps them.
EndRegistered(cs, D, E) ==
  /\ session' = [c \in Requests |->
       IF c \in D THEN [session[c] EXCEPT !.ready = "closed"]
       ELSE IF c \in E THEN [session[c] EXCEPT !.ready = "closing"]
       ELSE session[c]]
  /\ calls' = [k \in Calls |-> Hears(cs[k], D)]
  /\ UNCHANGED <<clients, metrics, degraded>>

\* Fault: the flag is computed before they leave the registry.
EndStale(cs, D, E) ==
  LET gone == Listened(D) IN
  /\ clients' = clients \ gone
  /\ session' = [c \in Requests |->
       IF c \in D THEN [session[c] EXCEPT !.ready = "closed"]
       ELSE IF c \in E THEN [session[c] EXCEPT !.ready = "closing"]
       ELSE session[c]]
  /\ metrics' = [metrics EXCEPT
       !.disconnections = @ + Cardinality(gone),
       !.polling = @ - Cardinality(On("polling", gone)),
       !.websocket = @ - Cardinality(On("websocket", gone))]
  /\ degraded' = IsDegraded(clients)
  /\ calls' = [k \in Calls |-> Hears(Loses(cs[k], gone), D)]

EndSessions(cs, D, E) ==
  LET gone == Listened(D) IN
  /\ clients' = clients \ gone
  /\ session' = [c \in Requests |->
       IF c \in D THEN [session[c] EXCEPT !.ready = "closed"]
       ELSE IF c \in E THEN [session[c] EXCEPT !.ready = "closing"]
       ELSE session[c]]
  /\ metrics' = [metrics EXCEPT
       !.disconnections = @ + Cardinality(gone),
       !.polling = @ - Cardinality(On("polling", gone)),
       !.websocket = @ - Cardinality(On("websocket", gone))]
  /\ degraded' = IsDegraded(clients \ gone)
  /\ calls' = [k \in Calls |-> Hears(Loses(cs[k], gone), D)]

\* socket.close() may find nothing to send: a polling session has its "open"
\* packet to send until its handshake hands it a poll.
MayBeEmpty(S) == Listened(S) \cup On("websocket", S)

\* socket.close() for every session of S that is open: with an empty buffer it
\* ends there and then.
\* Fault: a session with packets to send is left open.
CloseIdle(cs, S) ==
  \E D \in SUBSET (S \cap OpenClients) : EndSessions(cs, D, {})

CloseSessions(cs, S) ==
  \E D \in SUBSET MayBeEmpty(S \cap OpenClients) :
    EndSessions(cs, D, (S \cap OpenClients) \ D)

-----------------------------------------------------------------------------
(* Handshakes *)

Answer(r, status) == req' = [req EXCEPT ![r] = Done(status)]

\* The statuses 400, 403, 429, 500 and 503.
Refuse(r) == Answer(r, "refused")

\* The session as Server knows it when handshake has made it.
\* Fault: a handshake that nothing interrupts does not listen to it either.
CreatedUnheard(transport, heard) ==
  [ready |-> "open", transport |-> transport, upgrade |-> "not_upgraded",
   listened |-> FALSE]

Created(transport, heard) ==
  [ready |-> "open", transport |-> transport, upgrade |-> "not_upgraded",
   listened |-> heard]

\* The synchronous end of handshake(), after its await: it is interrupted by
\* the listeners of "degradation" if the new session makes the server degraded.
Register(r, ask) ==
  LET transport == IF ask.ws THEN "websocket" ELSE "polling"
      now == IsDegraded(clients \cup {r})
  IN
  \/ \* Degraded, or server.upgrade() failed.
     /\ (degraded /\ ~ask.ws) \/ ask.ws
     /\ Refuse(r)
     /\ UNCHANGED <<registry, stack>>
  \/ /\ ~(degraded /\ ~ask.ws)
     /\ clients' = clients \cup {r}
     /\ session' = [session EXCEPT ![r] = Created(transport, now = degraded)]
     /\ metrics' = [metrics EXCEPT !.connections = @ + 1, ![transport] = @ + 1]
     /\ degraded' = now
     /\ IF now = degraded
          THEN Answer(r, "ok") /\ UNCHANGED stack
          ELSE /\ req' = [req EXCEPT ![r] = Waiting("registering", ask)]
               /\ stack' = <<App, r>>

\* Over one of the two rates; an address that is not known is not counted.
\* Fault: off by one.
LimitedLate(ip) ==
  \/ MaxPerSecond > 0 /\ tokens < 0
  \/ MaxPerIp > 0 /\ ip # Unknown /\ ipCount[ip] > MaxPerIp

Limited(ip) ==
  \/ MaxPerSecond > 0 /\ tokens <= 0
  \/ MaxPerIp > 0 /\ ip # Unknown /\ ipCount[ip] >= MaxPerIp

\* Both rates are charged before the capacity is looked at.
Charge(ip) ==
  /\ tokens' = IF MaxPerSecond > 0 THEN tokens - 1 ELSE tokens
  /\ ipCount' = IF MaxPerIp > 0 /\ ip # Unknown
                  THEN [ipCount EXCEPT ![ip] = @ + 1] ELSE ipCount

\* Fault: off by one.
FullLate == MaxClients > 0 /\ Cardinality(clients) > MaxClients

Full == MaxClients > 0 /\ Cardinality(clients) >= MaxClients

\* Fault: handshakes are accepted while the server shuts down.
HandshakeAnytime(r, ask) ==
  \/ /\ Limited(ask.ip)
     /\ Refuse(r)
     /\ UNCHANGED <<registry, tokens, ipCount, stack>>
  \/ /\ ~Limited(ask.ip)
     /\ Charge(ask.ip)
     /\ \/ Full /\ Refuse(r) /\ UNCHANGED <<registry, stack>>
        \/ /\ ~Full /\ HandshakeHook
           /\ req' = [req EXCEPT ![r] = Waiting("charged", ask)]
           /\ UNCHANGED <<registry, stack>>
        \/ ~Full /\ ~HandshakeHook /\ Register(r, ask)

Handshake(r, ask) ==
  \/ /\ draining \/ Limited(ask.ip)
     /\ Refuse(r)
     /\ UNCHANGED <<registry, tokens, ipCount, stack>>
  \/ /\ ~draining /\ ~Limited(ask.ip)
     /\ Charge(ask.ip)
     /\ \/ Full /\ Refuse(r) /\ UNCHANGED <<registry, stack>>
        \/ /\ ~Full /\ HandshakeHook
           /\ req' = [req EXCEPT ![r] = Waiting("charged", ask)]
           /\ UNCHANGED <<registry, stack>>
        \/ ~Full /\ ~HandshakeHook /\ Register(r, ask)

-----------------------------------------------------------------------------
(* Requests *)

\* verify() of a well-formed request.
Verified(ask) ==
  ask.kind # "handshake" =>
    ask.sid \in clients /\ session[ask.sid].transport = "polling"

\* The sid branch of handleRequest: what was verified may no longer be so, and
\* only the registration is looked at again.
ToSession(r, ask) ==
  LET s == session[ask.sid] IN
  \/ ask.sid \notin clients /\ Refuse(r) /\ UNCHANGED session
  \/ \* server.upgrade() failed.
     ask.sid \in clients /\ ask.kind = "upgrade" /\ Refuse(r) /\ UNCHANGED session
  \/ /\ ask.sid \in clients /\ ask.kind = "upgrade"
     /\ Answer(r, "ok")
     /\ session' = IF s.upgrade = "not_upgraded"
                     THEN [session EXCEPT ![ask.sid].upgrade = "upgrading"]
                     ELSE session
  \/ /\ ask.sid \in clients /\ ask.kind = "data"
     /\ Answer(r, IF s.transport = "polling" THEN "ok" ELSE "crash")
     /\ UNCHANGED session

Dispatch(r, ask) ==
  /\ IF ask.kind = "handshake"
       THEN Handshake(r, ask)
       ELSE /\ ToSession(r, ask)
            /\ UNCHANGED <<clients, metrics, degraded, tokens, ipCount, stack>>
  /\ UNCHANGED <<refill, draining, calls>>

\* A request arrives and is verified.
Arrive(r) ==
  /\ Idle /\ req[r] = New
  /\ \E ask \in Ask :
       \/ \* A malformed handshake, or verify() refuses.
          /\ Verified(ask) => ask.kind = "handshake"
          /\ Refuse(r)
          /\ UNCHANGED <<registry, limits, draining, calls, stack>>
       \/ /\ Verified(ask)
          /\ IF AsyncChecks
               THEN /\ req' = [req EXCEPT ![r] = Waiting("checking", ask)]
                    /\ UNCHANGED <<registry, limits, draining, calls, stack>>
               ELSE Dispatch(r, ask)

\* The middlewares and allowRequest let the request pass, or do not.
Checked(r) == Idle /\ req[r].stage = "checking" /\ Dispatch(r, req[r].ask)

Forbidden(r) ==
  /\ Idle /\ req[r].stage = "checking"
  /\ Refuse(r)
  /\ UNCHANGED <<registry, limits, draining, calls, stack>>

\* editHandshakeHeaders has returned.
HookDone(r) ==
  /\ Idle /\ req[r].stage = "charged"
  /\ Register(r, req[r].ask)
  /\ UNCHANGED <<limits, draining, calls>>

\* The listeners of "degradation" have returned: handshake goes on to listen to
\* a session that may have ended meanwhile.
HandshakeGoesOn(r) ==
  /\ Runs(r) /\ req[r].stage = "registering"
  /\ Answer(r, "ok")
  /\ session' = [session EXCEPT ![r].listened = Live(r)]
  /\ stack' = Tail(stack)
  /\ UNCHANGED <<clients, metrics, degraded, limits, draining, calls>>

\* The callback of _handshakeTimer.
Refill ==
  /\ Idle /\ refill
  /\ tokens' = MaxPerSecond
  /\ ipCount' = [ip \in Addresses |-> 0]
  /\ UNCHANGED <<req, registry, refill, draining, calls, stack>>

-----------------------------------------------------------------------------
(* Sessions *)

\* The probe of the session is adopted: its upgrade event moves the counts.
\* Fault: the polling counter is not told.
UpgradeUncounted(c) ==
  /\ Idle /\ Live(c) /\ session[c].upgrade = "upgrading"
  /\ session' = [session EXCEPT ![c].upgrade = "upgraded",
                                ![c].transport = "websocket"]
  /\ metrics' = [metrics EXCEPT !.upgrades = @ + 1, !.websocket = @ + 1]
  /\ UNCHANGED <<req, clients, degraded, limits, draining, calls, stack>>

SessionUpgrades(c) ==
  /\ Idle /\ Live(c) /\ session[c].upgrade = "upgrading"
  /\ session' = [session EXCEPT ![c].upgrade = "upgraded",
                                ![c].transport = "websocket"]
  /\ metrics' = [metrics EXCEPT !.upgrades = @ + 1, !.polling = @ - 1,
                                !.websocket = @ + 1]
  /\ UNCHANGED <<req, clients, degraded, limits, draining, calls, stack>>

\* The session ends, for any of its reasons.
SessionEnds(c) ==
  /\ Idle /\ Live(c)
  /\ EndSessions(calls, {c}, {})
  /\ UNCHANGED <<req, limits, draining, stack>>

\* The application closes it.
SessionClose(c) ==
  /\ AppTurn /\ Live(c)
  /\ CloseSessions(calls, {c})
  /\ UNCHANGED <<req, limits, draining, stack>>

-----------------------------------------------------------------------------
(* shutdown() and close() *)

\* The call counts the sessions that are registered and begins its loop.
Started(kind) ==
  [kind |-> kind, resolved |-> clients = {}, timer |-> kind = "shutdown" /\ clients # {},
   remaining |-> Cardinality(clients), pending |-> {}, todo |-> clients,
   missed |-> {}, waited |-> clients]

Begin(k, kind) ==
  /\ AppTurn /\ calls[k].kind = "none"
  /\ calls' = [calls EXCEPT ![k] = Started(kind)]
  /\ stack' = IF clients = {} THEN stack ELSE <<k>> \o stack
  /\ UNCHANGED <<req, registry>>

Shutdown(k) ==
  /\ Begin(k, "shutdown")
  /\ draining' = TRUE /\ refill' = FALSE
  /\ UNCHANGED <<tokens, ipCount>>

CloseAll(k) == Begin(k, "close") /\ UNCHANGED <<limits, draining>>

\* A turn of the forEach: it subscribes to a session and closes it.  If the
\* session ends there and then, listeners of the application run.  (The order
\* of the registry is left open.)
Reach(k) ==
  /\ Runs(k)
  /\ \E c \in calls[k].todo :
       /\ CloseSessions(
            [calls EXCEPT ![k].pending = @ \cup {c}, ![k].todo = @ \ {c}], {c})
       /\ stack' = IF Live(c) /\ session'[c].ready = "closed"
                     THEN <<App>> \o stack ELSE stack
  /\ UNCHANGED <<req, limits, draining>>

\* What is under way returns: listeners of the application, or a loop that has
\* come to its end.
Return ==
  /\ Runs(App) \/ \E k \in Calls : Runs(k) /\ calls[k].todo = {}
  /\ stack' = Tail(stack)
  /\ UNCHANGED <<req, registry, limits, draining, calls>>

\* The timer of shutdown(): it closes again, and resolves.
ShutdownTimeout(k) ==
  /\ Idle /\ calls[k].timer
  /\ CloseSessions([calls EXCEPT ![k].timer = FALSE, ![k].resolved = TRUE], clients)
  /\ UNCHANGED <<req, limits, draining, stack>>

-----------------------------------------------------------------------------

Next ==
  \/ \E r \in Requests : Arrive(r) \/ Checked(r) \/ Forbidden(r) \/ HookDone(r)
                         \/ HandshakeGoesOn(r)
  \/ Refill \/ Return
  \/ \E c \in Requests : SessionUpgrades(c) \/ SessionEnds(c) \/ SessionClose(c)
  \/ \E k \in Calls : Shutdown(k) \/ CloseAll(k) \/ Reach(k) \/ ShutdownTimeout(k)

Spec == Init /\ [][Next]_vars

\* The hooks and listeners of the application return and what they interrupted
\* goes on; the timer of shutdown() fires; and a session that is closing ends,
\* which is Session's property ClosingEnds.
Fairness ==
  /\ \A r \in Requests :
       WF_vars(Checked(r) \/ Forbidden(r)) /\ WF_vars(HookDone(r))
       /\ WF_vars(HandshakeGoesOn(r))
  /\ WF_vars(Return) /\ \A k \in Calls : WF_vars(Reach(k))
  /\ \A k \in Calls : WF_vars(ShutdownTimeout(k))
  /\ \A c \in Requests : WF_vars(session[c].ready = "closing" /\ SessionEnds(c))

FairSpec == Spec /\ Fairness

-----------------------------------------------------------------------------
(* Safety *)

\* The variables keep their shape; the rate is never overdrawn.
TypeOK ==
  /\ \A r \in Requests :
       req[r] \in {New}
         \cup [stage : {"checking", "charged", "registering"}, ask : Ask]
         \cup [stage : {"done"}, status : {"ok", "refused", "crash"}]
  /\ clients \subseteq Requests
  /\ session \in [Requests -> Session]
  /\ tokens \in 0 .. MaxPerSecond
  /\ ipCount \in [Addresses -> 0 .. MaxPerIp]
  /\ refill \in BOOLEAN /\ degraded \in BOOLEAN /\ draining \in BOOLEAN
  /\ metrics \in [{"connections", "disconnections", "upgrades", "polling",
                   "websocket"} -> Nat]
  /\ calls \in [Calls -> Call]
  /\ stack \in Seq({App} \cup Calls \cup Requests)

\* The registry holds the sessions that live and, for good, those that ended
\* before handshake listened to them; no other session that has ended is in it.
Registered ==
  clients = {c \in Requests : Live(c) \/ (session[c].ready = "closed"
                                            /\ ~session[c].listened)}

\* The counters the metrics report agree with the registry after any order of
\* connections, upgrades and closes (_attachTransportCounters and the close
\* listener of handshake).
CountersMatch ==
  /\ metrics.connections - metrics.disconnections = Cardinality(clients)
  /\ metrics.polling = Cardinality(On("polling", clients))
  /\ metrics.websocket = Cardinality(On("websocket", clients))

\* The cached flag is what a fresh look at the registry would give.
DegradedIsCurrent == degraded = IsDegraded(clients)

\* maxClients is the "Maximum number of concurrent clients".
CapacityRespected == MaxClients > 0 => Cardinality(clients) <= MaxClients

\* What a call still counts: the sessions that carry its listener, those its
\* loop will reach and those it missed, each once.  It misses none that lives,
\* and waits for nothing else: onClose is heard at most once from each.
CallsHeard ==
  \A k \in Calls :
    LET call == calls[k]
        left == call.pending \cup call.todo
    IN
    /\ call.remaining = Cardinality(call.pending) + Cardinality(call.todo)
                          + Cardinality(call.missed)
    /\ call.pending \cap call.todo = {} /\ left \subseteq call.waited \cap clients
    /\ call.missed \subseteq call.waited \ clients
    /\ {c \in call.waited : Live(c)} \subseteq left
    /\ call.kind # "none" /\ ~call.resolved => left \cup call.missed # {}
    /\ Idle => call.todo = {}

\* close() resolves only when every session registered at the call has ended,
\* whatever closes them and whichever listeners of the application run meanwhile.
CloseWaitsForAll ==
  \A k \in Calls : calls[k].kind = "close" /\ calls[k].resolved =>
    \A c \in calls[k].waited : ~Live(c)

\* Once the timeout of shutdown() has struck, no session remains.
ShutdownForces ==
  \A k \in Calls : calls[k].kind = "shutdown" /\ calls[k].resolved =>
    \A c \in calls[k].waited : ~Live(c)

\* No request makes handleRequest throw.
NoCrash == \A r \in Requests : req[r] # Done("crash")

-----------------------------------------------------------------------------
(* Action properties *)

\* shutdown() stops accepting sessions: of the handshakes it finds, only one that
\* waits in editHandshakeHeaders, with _draining already read, still registers,
\* and no other comes to wait there.
DrainingIsFinal ==
  [][draining =>
       /\ draining'
       /\ \A r \in Requests :
            /\ r \in clients' \ clients => req[r].stage = "charged"
            /\ req'[r].stage = "charged" => req[r].stage = "charged"]_vars

\* A session leaves the registry in the step that ends it, unless a listener of
\* "degradation" ends it from within its own handshake.
EndIsHeard ==
  [][\A c \in Requests :
       Live(c) /\ session'[c].ready = "closed" =>
         c \notin clients' \/ req[c].stage = "registering"]_vars

-----------------------------------------------------------------------------
(* Liveness *)

\* The promise of shutdown() resolves, and so does that of close() unless a
\* session left the registry before the loop of the call reached it, or one
\* that had ended was in it.
CallsResolve ==
  \A k \in Calls :
    calls[k].kind # "none" ~>
      \/ calls[k].resolved
      \/ /\ calls[k].kind = "close"
         /\ calls[k].missed # {} \/ \E c \in calls[k].pending : ~Live(c)

\* Every session registered when shutdown() or close() is called ends.
CallsClose ==
  \A k \in Calls, c \in Requests : c \in calls[k].waited ~> ~Live(c)
=============================================================================
