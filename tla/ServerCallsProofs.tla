------------------------- MODULE ServerCallsProofs --------------------------
(***************************************************************************)
(* What holds of the counters of the metrics, of the promises of           *)
(* shutdown() and close() and of the requests, for any number of them.     *)
(* ServerProofs knows the registry; here it is followed from session to    *)
(* session: who is new, who was seen polling, who is waited for.           *)
(***************************************************************************)
EXTENDS ServerProofs

\* Where a request may stand.
RequestState ==
  {New} \cup [stage : {"checking", "charged", "registering"}, ask : Ask]
        \cup [stage : {"done"}, status : {"ok", "refused", "crash"}]

\* Sessions that exist or have existed.
Known == {c \in Requests : session[c].ready # "none"}
Alive == {c \in Requests : Live(c)}

\* A session that was carried by polling when a request for it was verified
\* has upgraded since, if it is not carried by polling any more.
WasPolling(c) ==
  c \in Known /\ (session[c].transport = "polling" \/ session[c].upgrade = "upgraded")

RequestsOK ==
  /\ req \in [Requests -> RequestState]
  /\ \A r \in Requests : req[r].stage \notin {"registering", "done"} => r \notin Known
  /\ \A r \in Requests :
       req[r].stage = "checking" /\ req[r].ask.kind # "handshake" => WasPolling(req[r].ask.sid)
  /\ \A c \in Requests :
       session[c].upgrade = "upgrading" => session[c].transport = "polling"

\* Unless a check awaits, what was verified is still so, and nobody crashes.
ChecksOK ==
  ~AsyncChecks => \A r \in Requests : req[r].stage # "checking" /\ req[r] # Done("crash")

LimitsOK ==
  /\ tokens \in 0 .. MaxPerSecond
  /\ ipCount \in [Addresses -> 0 .. MaxPerIp]
  /\ refill \in BOOLEAN /\ draining \in BOOLEAN

Counters == {"connections", "disconnections", "upgrades", "polling", "websocket"}

CountersOK == metrics \in [Counters -> Nat] /\ CountersMatch

\* What a call has to go by: it counts the listeners it has placed, the sessions
\* it will reach and those it missed, each once; it resolves by timer or at zero.
Counted(call) ==
  /\ call \in Call
  /\ call.pending \cap call.todo = {}
  /\ (call.pending \cup call.todo) \cap call.missed = {}
  /\ call.remaining = Cardinality(call.pending) + Cardinality(call.todo)
                         + Cardinality(call.missed)
  /\ call.kind # "none" /\ ~call.resolved =>
       call.pending \cup call.todo \cup call.missed # {}
  /\ call.kind = "close" /\ call.resolved =>
       call.pending \cup call.todo \cup call.missed = {}
  /\ call.timer => call.kind = "shutdown"

\* In a state where C is registered, L lives and K is known, it counts every
\* session that lives of those registered when it began, and no stranger.
Placed(call, C, L, K) ==
  /\ call.waited \subseteq K
  /\ call.pending \cup call.todo \subseteq call.waited \cap C
  /\ call.missed \subseteq call.waited \ C
  /\ call.waited \cap L \subseteq call.pending \cup call.todo

Sound(call, C, L, K) == Counted(call) /\ Placed(call, C, L, K)

AllSound(cs, C, L, K) == cs \in [Calls -> Call] /\ \A k \in Calls : Sound(cs[k], C, L, K)

\* A loop that has sessions to reach is under way.
Within(x, s) == \E i \in 1 .. Len(s) : s[i] = x

Frames == {App} \cup Calls \cup Requests

LoopsOK ==
  /\ stack \in Seq(Frames)
  /\ \A k \in Calls : calls[k].todo # {} => Within(k, stack)

CallsInv ==
  /\ ServerInv /\ RequestsOK /\ ChecksOK /\ LimitsOK /\ CountersOK
  /\ AllSound(calls, clients, Alive, Known) /\ LoopsOK

-----------------------------------------------------------------------------
(* Calls *)

\* Finite sets of requests have sizes.
LEMMA RequestSets ==
  ASSUME NEW S \in SUBSET Requests
  PROVE  IsFiniteSet(S) /\ Cardinality(S) \in Nat /\ (Cardinality(S) = 0 <=> S = {})
BY FS_EmptySet, FS_Subset, FS_CardinalityType, ServerAssumption

\* The sessions of a call, as sets with sizes.
LEMMA CallSets ==
  ASSUME NEW call \in Call
  PROVE  /\ \A S \in {call.pending, call.todo, call.missed} :
              S \subseteq Requests /\ IsFiniteSet(S) /\ Cardinality(S) \in Nat
         /\ call.resolved \in BOOLEAN /\ call.timer \in BOOLEAN
<1>1. /\ call.pending \subseteq Requests /\ call.todo \subseteq Requests
      /\ call.missed \subseteq Requests
      /\ call.resolved \in BOOLEAN /\ call.timer \in BOOLEAN
  BY DEF Call
<1> QED BY <1>1, RequestSets

\* A session that leaves the loop goes from one of the sets to another.
LEMMA MoveOne ==
  ASSUME NEW A \in SUBSET Requests, NEW B \in SUBSET Requests, A \cap B = {},
         NEW G
  PROVE  Cardinality(A \ G) + Cardinality(B \cup (A \cap G)) = Cardinality(A) + Cardinality(B)
<1>1. /\ IsFiniteSet(A) /\ IsFiniteSet(B) /\ IsFiniteSet(A \cap G) /\ A \cap G \subseteq Requests
      /\ Cardinality(A) \in Nat /\ Cardinality(B) \in Nat /\ Cardinality(A \cap G) \in Nat
  <2>1. A \cap G \subseteq Requests
    OBVIOUS
  <2> QED BY <2>1, RequestSets
<1>2. Cardinality(A \ G) = Cardinality(A) - Cardinality(A \cap G)
  BY <1>1, FS_Difference
<1>3. Cardinality(B \cup (A \cap G)) = Cardinality(B) + Cardinality(A \cap G)
  <2>1. B \cap (A \cap G) = {} /\ Cardinality({}) = 0
    BY FS_EmptySet
  <2>2. Cardinality(B \cup (A \cap G)) =
          Cardinality(B) + Cardinality(A \cap G) - Cardinality(B \cap (A \cap G))
    BY <1>1, FS_Union
  <2>3. Cardinality(B) \in Nat /\ Cardinality(A \cap G) \in Nat
    BY <1>1
  <2>4. Cardinality(B \cup (A \cap G)) = Cardinality(B) + Cardinality(A \cap G) - 0
    BY <2>1, <2>2, Zenon
  <2> QED BY ONLY <2>3, <2>4
<1> DEFINE a == Cardinality(A)
           b == Cardinality(B)
           g == Cardinality(A \cap G)
           m == Cardinality(A \ G)
           n == Cardinality(B \cup (A \cap G))
<1>4. a \in Nat /\ b \in Nat /\ g \in Nat /\ m = a - g /\ n = b + g
  BY <1>1, <1>2, <1>3
<1> HIDE DEF a, b, g, m, n
<1>5. m + n = a + b
  BY <1>4
<1> QED BY <1>5 DEF a, b, g, m, n

\* The sessions of G leave the registry, and the loop with it.
LEMMA LosesCounted ==
  ASSUME NEW call, Counted(call), NEW G
  PROVE  LET t == Loses(call, G) IN
         /\ Counted(t)
         /\ t.kind = call.kind /\ t.waited = call.waited /\ t.pending = call.pending
         /\ t.todo = call.todo \ G /\ t.missed = call.missed \cup (call.todo \cap G)
<1> DEFINE rest == call.todo \ G
           lost == call.missed \cup (call.todo \cap G)
           t == [call EXCEPT !.todo = rest, !.missed = lost]
<1>1. call \in Call /\ rest \in SUBSET Requests /\ lost \in SUBSET Requests
  BY CallSets DEF Counted
<1>2. Loses(call, G) = t
  BY <1>1 DEF Loses, Call
<1>3. /\ Cardinality(rest) + Cardinality(lost) = Cardinality(call.todo) + Cardinality(call.missed)
      /\ rest \cup lost = call.todo \cup call.missed
      /\ rest \cap lost = {}
  <2>1. call.todo \cap call.missed = {}
    BY DEF Counted
  <2> QED BY <1>1, <2>1, CallSets, MoveOne
<1> HIDE DEF rest, lost
<1>4. t \in Call
  BY <1>1, Zenon DEF Call
<1>5. /\ t.kind = call.kind /\ t.waited = call.waited /\ t.pending = call.pending
      /\ t.todo = rest /\ t.missed = lost /\ t.remaining = call.remaining
  BY <1>1 DEF Call
<1>6. t.resolved = call.resolved /\ t.timer = call.timer
  BY <1>1 DEF Call
<1> HIDE DEF t
<1>7. Counted(t)
  <2>1. t.pending \cap t.todo = {} /\ (t.pending \cup t.todo) \cap t.missed = {}
    BY <1>3, <1>5 DEF Counted, rest, lost
  <2>2. t.pending \cup t.todo \cup t.missed = call.pending \cup call.todo \cup call.missed
    BY <1>3, <1>5
  <2>3. t.remaining = Cardinality(t.pending) + Cardinality(t.todo) + Cardinality(t.missed)
    <3>1. /\ Cardinality(call.pending) \in Nat /\ Cardinality(call.todo) \in Nat
          /\ Cardinality(call.missed) \in Nat /\ Cardinality(rest) \in Nat
          /\ Cardinality(lost) \in Nat
      BY <1>1, CallSets, RequestSets
    <3> QED BY <1>3, <1>5, <3>1 DEF Counted
  <2> QED BY <1>4, <1>5, <1>6, <2>1, <2>2, <2>3 DEF Counted
<1> QED BY <1>2, <1>5, <1>7 DEF rest, lost

\* The sessions of D have ended, and the call has heard of those that carried
\* its listener.
LEMMA HearsCounted ==
  ASSUME NEW call, Counted(call), NEW D
  PROVE  LET t == Hears(call, D) IN
         /\ Counted(t)
         /\ t.kind = call.kind /\ t.waited = call.waited /\ t.pending = call.pending \ D
         /\ t.todo = call.todo /\ t.missed = call.missed
<1>1. call \in Call
  BY DEF Counted
<1>2. CASE call.pending \cap D = {}
  <2>1. Hears(call, D) = call /\ call.pending = call.pending \ D
    BY <1>2 DEF Hears
  <2> QED BY <2>1
<1>3. CASE call.pending \cap D # {}
  <2> DEFINE left == call.remaining - Cardinality(call.pending \cap D)
             heard == call.resolved \/ left = 0
             waits == call.timer /\ left # 0
             rest == call.pending \ D
             t == [call EXCEPT !.remaining = left, !.pending = rest,
                               !.resolved = heard, !.timer = waits]
  <2>1. IsFiniteSet(call.pending) /\ rest \in SUBSET Requests
    BY <1>1, CallSets
  <2>2. left = Cardinality(rest) + Cardinality(call.todo) + Cardinality(call.missed)
        /\ left \in Int
    <3>1. Cardinality(rest) = Cardinality(call.pending) - Cardinality(call.pending \cap D)
      BY <2>1, FS_Difference
    <3>2. /\ Cardinality(call.pending) \in Nat /\ Cardinality(call.todo) \in Nat
          /\ Cardinality(call.missed) \in Nat /\ Cardinality(call.pending \cap D) \in Nat
      <4>1. call.pending \cap D \subseteq Requests
        BY <1>1, CallSets
      <4> QED BY <1>1, <4>1, CallSets, RequestSets
    <3> QED BY <3>1, <3>2 DEF Counted
  <2>3. /\ heard \in BOOLEAN /\ waits \in BOOLEAN
        /\ (heard <=> call.resolved \/ left = 0) /\ (waits => call.timer)
    BY <1>1, CallSets
  <2>4. Hears(call, D) = t
    BY <1>3 DEF Hears
  <2>5. rest = call.pending \ D
    OBVIOUS
  <2> HIDE DEF left, heard, waits, rest
  <2>6. /\ t \in Call
        /\ t.kind = call.kind /\ t.waited = call.waited /\ t.pending = rest
        /\ t.todo = call.todo /\ t.missed = call.missed
        /\ t.remaining = left /\ t.resolved = heard /\ t.timer = waits
    <3>1. t \in Call
      BY <1>1, <2>1, <2>2, <2>3, Zenon DEF Call
    <3>2. /\ t.kind = call.kind /\ t.waited = call.waited /\ t.pending = rest
          /\ t.todo = call.todo /\ t.missed = call.missed /\ t.remaining = left
      BY <1>1 DEF Call
    <3>3. t.resolved = heard /\ t.timer = waits
      BY <1>1 DEF Call
    <3> QED BY <3>1, <3>2, <3>3
  <2> HIDE DEF t
  <2>7. left = 0 <=> rest \cup call.todo \cup call.missed = {}
    <3>1. rest \subseteq Requests /\ call.todo \subseteq Requests /\ call.missed \subseteq Requests
      BY <1>1, <2>1, CallSets
    <3>2. /\ Cardinality(rest) \in Nat /\ (Cardinality(rest) = 0 <=> rest = {})
          /\ Cardinality(call.todo) \in Nat /\ (Cardinality(call.todo) = 0 <=> call.todo = {})
          /\ Cardinality(call.missed) \in Nat
          /\ (Cardinality(call.missed) = 0 <=> call.missed = {})
      BY <3>1, RequestSets
    <3>3. left = 0 <=> Cardinality(rest) = 0 /\ Cardinality(call.todo) = 0
                         /\ Cardinality(call.missed) = 0
      BY ONLY <2>2, <3>2
    <3> QED BY <3>2, <3>3
  <2>8. call.kind = "close" /\ call.resolved =>
          rest \cup call.todo \cup call.missed = {}
    BY <2>5 DEF Counted
  <2>9. rest \cap call.todo = {} /\ (rest \cup call.todo) \cap call.missed = {}
    BY <2>5 DEF Counted
  <2>10. Counted(t)
    BY <2>2, <2>3, <2>6, <2>7, <2>8, <2>9 DEF Counted
  <2> QED BY <2>4, <2>5, <2>6, <2>10
<1> QED BY <1>2, <1>3

\* The sessions of D, which lived, have ended, and those of G have left the
\* registry.
LEMMA HearsSound ==
  ASSUME NEW C, NEW L, NEW K, NEW call, Sound(call, C, L, K),
         NEW D, NEW G \in SUBSET D
  PROVE  /\ Sound(Hears(Loses(call, G), D), C \ G, L \ D, K)
         /\ Hears(Loses(call, G), D).todo \subseteq call.todo
<1> DEFINE u == Loses(call, G)
           t == Hears(u, D)
<1>1. /\ Counted(u)
      /\ u.kind = call.kind /\ u.waited = call.waited /\ u.pending = call.pending
      /\ u.todo = call.todo \ G /\ u.missed = call.missed \cup (call.todo \cap G)
  BY LosesCounted DEF Sound
<1> HIDE DEF u
<1>2. /\ Counted(t)
      /\ t.kind = u.kind /\ t.waited = u.waited /\ t.pending = u.pending \ D
      /\ t.todo = u.todo /\ t.missed = u.missed
  BY <1>1, HearsCounted
<1> HIDE DEF t
<1>3. Placed(t, C \ G, L \ D, K)
  BY <1>1, <1>2 DEF Sound, Placed
<1>4. Sound(t, C \ G, L \ D, K) /\ t.todo \subseteq call.todo
  BY <1>1, <1>2, <1>3 DEF Sound
<1> QED BY <1>4 DEF t, u

\* A session that nobody can wait for yet is registered.
LEMMA RegisteredSound ==
  ASSUME NEW C, NEW L, NEW K, NEW r, r \notin K, NEW call, Sound(call, C, L, K)
  PROVE  Sound(call, C \cup {r}, L \cup {r}, K \cup {r})
BY DEF Sound, Placed

\* A call that begins has all that are registered to reach.
LEMMA StartedSound ==
  ASSUME CallsInv, NEW kind \in {"shutdown", "close"}
  PROVE  Sound(Started(kind), clients, Alive, Known) /\ Started(kind).todo = clients
<1>1. /\ clients \subseteq Requests /\ Cardinality(clients) \in Nat /\ clients \subseteq Known
      /\ Cardinality({}) = 0
  <2>1. clients \subseteq Known
    BY DEF CallsInv, ServerInv, RegistryInv, Registered, Live, Known
  <2> QED BY <2>1, ClientsFinite, FS_EmptySet DEF CallsInv, ServerInv
<1> DEFINE t == Started(kind)
<1>2. t \in Call
  BY <1>1 DEF Started, Call
<1>3. /\ t.kind = kind /\ t.waited = clients /\ t.pending = {} /\ t.todo = clients
      /\ t.missed = {} /\ t.remaining = Cardinality(clients)
      /\ (t.resolved <=> clients = {}) /\ (t.timer => kind = "shutdown")
  BY DEF Started
<1> HIDE DEF t
<1>4. Counted(t)
  BY <1>1, <1>2, <1>3 DEF Counted
<1>5. Placed(t, clients, Alive, Known)
  BY <1>1, <1>3 DEF Placed
<1> QED BY <1>3, <1>4, <1>5 DEF t, Sound

\* A call that reaches a session places its listener there.
LEMMA ReachSound ==
  ASSUME NEW C, NEW L, NEW K, NEW call, Sound(call, C, L, K), NEW c \in call.todo
  PROVE  LET t == [call EXCEPT !.pending = @ \cup {c}, !.todo = @ \ {c}] IN
         Sound(t, C, L, K) /\ t.todo \subseteq call.todo
<1> DEFINE more == call.pending \cup {c}
           rest == call.todo \ {c}
           t == [call EXCEPT !.pending = more, !.todo = rest]
<1>0. call \in Call /\ Counted(call)
  BY DEF Sound, Counted
<1>1. more \in SUBSET Requests /\ rest \in SUBSET Requests
  BY <1>0, CallSets
<1>2. /\ more \cup rest = call.pending \cup call.todo /\ more \cap rest = {}
      /\ more \cup rest # {}
  BY <1>0 DEF Counted
<1>3. Cardinality(more) + Cardinality(rest) = Cardinality(call.pending) + Cardinality(call.todo)
  <2>1. call.todo \cap {c} = {c} /\ call.todo \cap call.pending = {}
    BY <1>0 DEF Counted
  <2>2. /\ Cardinality(more) \in Nat /\ Cardinality(rest) \in Nat
        /\ Cardinality(call.pending) \in Nat /\ Cardinality(call.todo) \in Nat
    BY <1>0, <1>1, CallSets, RequestSets
  <2>3. Cardinality(call.todo \ {c}) + Cardinality(call.pending \cup (call.todo \cap {c})) =
          Cardinality(call.todo) + Cardinality(call.pending)
    BY <1>0, <2>1, CallSets, MoveOne
  <2>4. Cardinality(rest) + Cardinality(more) = Cardinality(call.todo) + Cardinality(call.pending)
    BY <2>1, <2>3
  <2> QED BY <2>2, <2>4
<1>4. more \subseteq call.pending \cup call.todo /\ rest \subseteq call.todo
  OBVIOUS
<1> HIDE DEF more, rest
<1>5. t \in Call
  BY <1>0, <1>1, Zenon DEF Call
<1>6. /\ t.kind = call.kind /\ t.waited = call.waited /\ t.pending = more
      /\ t.todo = rest /\ t.missed = call.missed /\ t.remaining = call.remaining
  BY <1>0 DEF Call
<1>7. t.resolved = call.resolved /\ t.timer = call.timer
  BY <1>0 DEF Call
<1>8. [call EXCEPT !.pending = @ \cup {c}, !.todo = @ \ {c}] = t
  BY <1>0 DEF more, rest, Call
<1> HIDE DEF t
<1>9. Counted(t)
  <2>1. (t.pending \cup t.todo) \cap t.missed = {} /\ t.pending \cap t.todo = {}
    BY <1>0, <1>2, <1>6 DEF Counted
  <2>2. t.remaining = Cardinality(t.pending) + Cardinality(t.todo) + Cardinality(t.missed)
    BY <1>0, <1>3, <1>6 DEF Counted
  <2>3. t.pending \cup t.todo \cup t.missed = call.pending \cup call.todo \cup call.missed
    BY <1>2, <1>6
  <2> QED BY <1>0, <1>5, <1>6, <1>7, <2>1, <2>2, <2>3 DEF Counted
<1>10. Placed(t, C, L, K)
  BY <1>2, <1>6 DEF Sound, Placed
<1> QED BY <1>4, <1>6, <1>8, <1>9, <1>10 DEF Sound

-----------------------------------------------------------------------------
(* Sessions end *)

\* What the end of some sessions leaves of the others: nobody is forgotten, and
\* nobody changes transport.
LEMMA EndSessionsFields ==
  ASSUME RegistryInv, NEW cs, NEW D \in SUBSET LiveClients,
         NEW E \in SUBSET LiveClients, EndSessions(cs, D, E)
  PROVE  /\ Known' = Known /\ Alive' = Alive \ D
         /\ \A c \in Requests : /\ session'[c].transport = session[c].transport
                                /\ session'[c].upgrade = session[c].upgrade
<1>1. session' = [c \in Requests |->
         IF c \in D THEN [session[c] EXCEPT !.ready = "closed"]
         ELSE IF c \in E THEN [session[c] EXCEPT !.ready = "closing"]
         ELSE session[c]]
  BY DEF EndSessions
<1>2. ASSUME NEW c \in Requests
      PROVE  /\ session'[c].ready # "none" <=> session[c].ready # "none"
             /\ Live(c)' <=> Live(c) /\ c \notin D
             /\ session'[c].transport = session[c].transport
             /\ session'[c].upgrade = session[c].upgrade
  <2>1. session[c] \in Session /\ (c \in D \cup E => Live(c))
    BY DEF RegistryInv, LiveClients
  <2>2. CASE c \in D \cup E
    BY <1>1, <2>1, <2>2 DEF Session, Live
  <2>3. CASE c \notin D \cup E
    BY <1>1, <2>3 DEF Live
  <2> QED BY <2>2, <2>3
<1> QED BY <1>2 DEF Known, Alive

\* Counters that are numbers one by one.
LEMMA MetricsType ==
  ASSUME NEW m, m = [x \in Counters |-> m[x]],
         m.connections \in Nat, m.disconnections \in Nat, m.upgrades \in Nat,
         m.polling \in Nat, m.websocket \in Nat
  PROVE  m \in [Counters -> Nat]
BY DEF Counters

\* The counters follow the sessions that end.
LEMMA EndSessionsCounters ==
  ASSUME RegistryInv, CountersOK, NEW cs, NEW D \in SUBSET LiveClients,
         NEW E \in SUBSET LiveClients, EndSessions(cs, D, E)
  PROVE  CountersOK'
<1> DEFINE G == Listened(D)
<1>1. clients \subseteq Requests /\ G \subseteq clients /\ G \subseteq Requests
  BY ClientsFinite DEF LiveClients, Listened
<1>2. /\ clients' = clients \ G
      /\ metrics' = [metrics EXCEPT
           !.disconnections = @ + Cardinality(G),
           !.polling = @ - Cardinality(On("polling", G)),
           !.websocket = @ - Cardinality(On("websocket", G))]
  BY DEF EndSessions
<1> HIDE DEF G
<1>3. Cardinality(clients \ G) = Cardinality(clients) - Cardinality(G)
      /\ Cardinality(clients) \in Nat /\ Cardinality(G) \in Nat
  <2>1. clients \cap G = G
    BY <1>1
  <2> QED BY <1>1, <2>1, RequestSets, FS_Difference
<1>4. ASSUME NEW t \in {"polling", "websocket"}
      PROVE  /\ Cardinality(On(t, clients)') = Cardinality(On(t, clients)) - Cardinality(On(t, G))
             /\ Cardinality(On(t, clients)') \in Nat
             /\ Cardinality(On(t, clients)) \in Nat /\ Cardinality(On(t, G)) \in Nat
  <2>1. On(t, clients)' = On(t, clients) \ On(t, G)
    BY <1>1, <1>2, EndSessionsFields DEF On
  <2>2. On(t, clients) \cap On(t, G) = On(t, G)
    BY <1>1 DEF On
  <2>3. On(t, clients) \subseteq Requests /\ On(t, G) \subseteq Requests
        /\ On(t, clients) \ On(t, G) \subseteq Requests
    BY <1>1 DEF On
  <2> QED BY <2>1, <2>2, <2>3, RequestSets, FS_Difference
<1>5. metrics' = [x \in Counters |-> metrics'[x]]
      /\ metrics'.connections = metrics.connections
      /\ metrics'.upgrades = metrics.upgrades
      /\ metrics'.disconnections = metrics.disconnections + Cardinality(G)
      /\ metrics'.polling = metrics.polling - Cardinality(On("polling", G))
      /\ metrics'.websocket = metrics.websocket - Cardinality(On("websocket", G))
  <2> DEFINE d == Cardinality(G)
             p == Cardinality(On("polling", G))
             w == Cardinality(On("websocket", G))
  <2>1. d \in Nat /\ p \in Nat /\ w \in Nat /\ metrics \in [Counters -> Nat]
    BY <1>3, <1>4 DEF CountersOK
  <2>2. metrics' = [metrics EXCEPT !.disconnections = @ + d, !.polling = @ - p,
                                   !.websocket = @ - w]
    BY <1>2
  <2> HIDE DEF d, p, w
  <2>3. metrics' = [x \in Counters |-> metrics'[x]]
    BY <2>1, <2>2
  <2>4. /\ metrics'.connections = metrics.connections
        /\ metrics'.upgrades = metrics.upgrades
        /\ metrics'.disconnections = metrics.disconnections + d
        /\ metrics'.polling = metrics.polling - p
        /\ metrics'.websocket = metrics.websocket - w
    BY <2>1, <2>2 DEF Counters
  <2> QED BY <2>3, <2>4 DEF d, p, w
<1>6. CountersMatch'
  BY <1>2, <1>3, <1>4, <1>5 DEF CountersOK, CountersMatch, Counters
<1>7. /\ metrics'.connections \in Nat /\ metrics'.disconnections \in Nat
      /\ metrics'.upgrades \in Nat
  <2>1. /\ metrics.connections \in Nat /\ metrics.disconnections \in Nat
        /\ metrics.upgrades \in Nat
    BY DEF CountersOK, Counters
  <2> QED BY <1>3, <1>5, <2>1
<1>8. metrics'.polling \in Nat /\ metrics'.websocket \in Nat
  BY <1>4, <1>5 DEF CountersOK, CountersMatch
<1> QED BY <1>5, <1>6, <1>7, <1>8, MetricsType DEF CountersOK

\* Some sessions end while calls in the state cs listen.
LEMMA EndSessionsCalls ==
  ASSUME CallsInv, NEW cs, AllSound(cs, clients, Alive, Known), NEW D \in SUBSET LiveClients,
         NEW E \in SUBSET LiveClients, EndSessions(cs, D, E), UNCHANGED req
  PROVE  /\ CountersOK' /\ RequestsOK' /\ ChecksOK' /\ AllSound(calls, clients, Alive, Known)'
         /\ \A k \in Calls : calls'[k].todo \subseteq cs[k].todo
<1>0. RegistryInv
  BY DEF CallsInv, ServerInv
<1>1. CountersOK'
  BY <1>0, EndSessionsCounters DEF CallsInv
<1>2. /\ Known' = Known /\ Alive' = Alive \ D
      /\ \A c \in Requests : /\ session'[c].transport = session[c].transport
                             /\ session'[c].upgrade = session[c].upgrade
  BY <1>0, EndSessionsFields
<1>3. RequestsOK'
  BY <1>2 DEF CallsInv, RequestsOK, WasPolling, Known
<1> DEFINE G == Listened(D)
<1>4. /\ clients' = clients \ G /\ calls' = [k \in Calls |-> Hears(Loses(cs[k], G), D)]
      /\ G \in SUBSET D
  BY DEF EndSessions, Listened
<1> HIDE DEF G
<1>5. ASSUME NEW k \in Calls
      PROVE  /\ Sound(calls'[k], clients \ G, Alive \ D, Known)
             /\ calls'[k].todo \subseteq cs[k].todo
             /\ calls'[k] \in Call
  <2>1. Sound(cs[k], clients, Alive, Known) /\ calls'[k] = Hears(Loses(cs[k], G), D)
    BY <1>4 DEF AllSound
  <2>2. /\ Sound(calls'[k], clients \ G, Alive \ D, Known)
        /\ calls'[k].todo \subseteq cs[k].todo
    BY <1>4, <2>1, HearsSound
  <2> QED BY <2>2 DEF Sound, Counted
<1>6. AllSound(calls, clients, Alive, Known)'
  <2>1. calls' \in [Calls -> Call]
    BY <1>4, <1>5
  <2> QED BY <1>2, <1>4, <1>5, <2>1 DEF AllSound
<1> QED BY <1>1, <1>3, <1>5, <1>6 DEF CallsInv, ChecksOK

\* close() on some sessions, likewise.
LEMMA CloseSessionsCalls ==
  ASSUME CallsInv, NEW cs, AllSound(cs, clients, Alive, Known), NEW S, CloseSessions(cs, S),
         UNCHANGED req
  PROVE  /\ CountersOK' /\ RequestsOK' /\ ChecksOK' /\ AllSound(calls, clients, Alive, Known)'
         /\ \A k \in Calls : calls'[k].todo \subseteq cs[k].todo
<1>1. PICK D \in SUBSET MayBeEmpty(S \cap OpenClients) :
        EndSessions(cs, D, (S \cap OpenClients) \ D)
  BY DEF CloseSessions
<1>2. OpenClients \subseteq LiveClients
  BY DEF OpenClients, LiveClients, Live
<1>3. MayBeEmpty(S \cap OpenClients) \subseteq S \cap OpenClients
  BY DEF MayBeEmpty, Listened, On
<1> QED BY <1>1, <1>2, <1>3, EndSessionsCalls

-----------------------------------------------------------------------------
(* Requests *)

\* A step in which no session comes, and what was said of those there are
\* still holds.
SessionsGoOn ==
  /\ Known' = Known
  /\ \A c : WasPolling(c) => WasPolling(c)'
  /\ \A c \in Requests :
       session'[c].upgrade = "upgrading" => session'[c].transport = "polling"

\* They do when no session changes.
LEMMA SessionsSame == ASSUME CallsInv, UNCHANGED session PROVE SessionsGoOn
BY DEF CallsInv, RequestsOK, SessionsGoOn, Known, WasPolling

\* A request is answered, with an error only after a check that awaited.
LEMMA AnswerOK ==
  ASSUME CallsInv, NEW r \in Requests, NEW status \in {"ok", "refused", "crash"},
         Answer(r, status), status = "crash" => AsyncChecks, SessionsGoOn
  PROVE  RequestsOK' /\ ChecksOK'
<1>1. req' = [req EXCEPT ![r] = Done(status)] /\ req \in [Requests -> RequestState]
  BY DEF Answer, CallsInv, RequestsOK
<1>2. /\ Done(status) \in RequestState /\ Done(status).stage = "done"
      /\ Done(status) = Done("crash") => AsyncChecks
  BY DEF Done, RequestState
<1>3. /\ req' \in [Requests -> RequestState] /\ req'[r] = Done(status)
      /\ \A q \in Requests : q # r => req'[q] = req[q]
  BY <1>1, <1>2
<1>4. RequestsOK'
  BY <1>2, <1>3 DEF CallsInv, RequestsOK, SessionsGoOn
<1>5. ChecksOK'
  BY <1>2, <1>3 DEF CallsInv, ChecksOK
<1> QED BY <1>4, <1>5

\* A request begins to wait; what it asks of a session was verified.
LEMMA WaitingOK ==
  ASSUME CallsInv, NEW r \in Requests, NEW ask \in Ask,
         NEW stage \in {"checking", "charged"}, req' = [req EXCEPT ![r] = Waiting(stage, ask)],
         req[r].stage \notin {"registering", "done"}, UNCHANGED session,
         stage = "checking" => AsyncChecks /\ (ask.kind # "handshake" => WasPolling(ask.sid))
  PROVE  RequestsOK' /\ ChecksOK'
<1>1. req \in [Requests -> RequestState]
  BY DEF CallsInv, RequestsOK
<1>2. /\ Waiting(stage, ask) \in RequestState
      /\ Waiting(stage, ask).stage = stage /\ Waiting(stage, ask).ask = ask
      /\ Waiting(stage, ask) # Done("crash")
  BY DEF Waiting, Done, RequestState
<1>3. /\ req' \in [Requests -> RequestState] /\ req'[r] = Waiting(stage, ask)
      /\ \A q \in Requests : q # r => req'[q] = req[q]
  BY <1>1, <1>2
<1>4. Known' = Known /\ \A c : WasPolling(c)' <=> WasPolling(c)
  BY DEF Known, WasPolling
<1>5. RequestsOK'
  BY <1>2, <1>3, <1>4 DEF CallsInv, RequestsOK
<1>6. ChecksOK'
  BY <1>2, <1>3 DEF CallsInv, ChecksOK
<1> QED BY <1>5, <1>6

\* The session of a handshake is registered under a name that is new.
LEMMA RegisterOK ==
  ASSUME CallsInv, NEW r \in Requests, NEW ask, Register(r, ask),
         req[r].stage \notin {"registering", "done"}, ask \in Ask, UNCHANGED calls
  PROVE  CountersOK' /\ RequestsOK' /\ ChecksOK' /\ AllSound(calls, clients, Alive, Known)'
<1>1. CASE Refuse(r) /\ UNCHANGED registry
  <2>1. RequestsOK' /\ ChecksOK'
    BY <1>1, SessionsSame, AnswerOK DEF Refuse, registry
  <2>2. CountersOK' /\ Known' = Known /\ Alive' = Alive
    BY <1>1 DEF registry, CallsInv, CountersOK, CountersMatch, On, Known, Alive, Live
  <2> QED BY <1>1, <2>1, <2>2 DEF registry, CallsInv
<1>2. CASE ~(Refuse(r) /\ UNCHANGED registry)
  <2> DEFINE transport == IF ask.ws THEN "websocket" ELSE "polling"
             heard == IsDegraded(clients \cup {r}) = degraded
             s == Created(transport, heard)
  <2>1. /\ clients' = clients \cup {r}
        /\ Answer(r, "ok") \/ req' = [req EXCEPT ![r] = Waiting("registering", ask)]
        /\ session' = [session EXCEPT ![r] = s]
        /\ metrics' = [metrics EXCEPT !.connections = @ + 1, ![transport] = @ + 1]
    BY <1>2 DEF Register
  <2>2. transport \in {"polling", "websocket"} /\ s.ready = "open"
        /\ s.transport = transport /\ s.upgrade = "not_upgraded"
    BY DEF Created
  <2> HIDE DEF transport, heard, s
  <2>3. r \notin Known /\ r \notin clients /\ clients \subseteq Requests
        /\ session \in [Requests -> Session]
    BY ClientsFinite DEF CallsInv, ServerInv, RegistryInv, Registered, Live, RequestsOK, Known
  <2>4. session'[r] = s /\ \A c \in Requests : c # r => session'[c] = session[c]
    BY <2>1, <2>3
  <2>5. Known' = Known \cup {r} /\ Alive' = Alive \cup {r}
    BY <2>2, <2>4 DEF Known, Alive, Live
  <2>6. AllSound(calls, clients, Alive, Known)'
    BY <2>1, <2>3, <2>5, RegisteredSound DEF CallsInv, AllSound
  <2>7. /\ req' \in [Requests -> RequestState]
        /\ \A q \in Requests : q # r => req'[q] = req[q]
        /\ req'[r].stage \in {"registering", "done"} /\ req'[r] # Done("crash")
    <3>0. req \in [Requests -> RequestState]
      BY DEF CallsInv, RequestsOK
    <3>1. PICK v : req' = [req EXCEPT ![r] = v] /\ v \in {Done("ok"), Waiting("registering", ask)}
      BY <2>1 DEF Answer
    <3>2. v \in RequestState /\ v.stage \in {"registering", "done"} /\ v # Done("crash")
      BY <3>1 DEF Done, Waiting, RequestState
    <3> QED BY <3>0, <3>1, <3>2
  <2>9. RequestsOK'
    <3>1. \A q \in Requests :
            req'[q].stage \notin {"registering", "done"} => q \notin Known'
      BY <2>5, <2>7 DEF CallsInv, RequestsOK
    <3>2. \A c : WasPolling(c) => WasPolling(c)'
      <4> SUFFICES ASSUME NEW c, WasPolling(c) PROVE WasPolling(c)'
        OBVIOUS
      <4>1. c \in Known /\ c \in Requests /\ c # r
        BY <2>3 DEF WasPolling, Known
      <4> QED BY <2>4, <2>5, <4>1 DEF WasPolling
    <3>3. ASSUME NEW q \in Requests, req'[q].stage = "checking", req'[q].ask.kind # "handshake"
          PROVE  WasPolling(req[q].ask.sid)'
      <4>1. req'[q] = req[q] /\ WasPolling(req[q].ask.sid)
        BY <2>7, <3>3 DEF CallsInv, RequestsOK
      <4> QED BY <3>2, <4>1
    <3>4. \A c \in Requests :
            session'[c].upgrade = "upgrading" => session'[c].transport = "polling"
      BY <2>2, <2>4 DEF CallsInv, RequestsOK
    <3> QED BY <2>7, <3>1, <3>3, <3>4 DEF RequestsOK
  <2>10. ChecksOK'
    BY <2>7 DEF CallsInv, ChecksOK
  <2>11. CountersOK'
    <3>1. On(transport, clients)' = On(transport, clients) \cup {r}
          /\ r \notin On(transport, clients) /\ On(transport, clients) \subseteq Requests
      BY <2>1, <2>2, <2>3, <2>4 DEF On
    <3>2. \A t : t # transport => On(t, clients)' = On(t, clients)
      BY <2>1, <2>2, <2>3, <2>4 DEF On
    <3>3. /\ Cardinality(clients') = Cardinality(clients) + 1
          /\ Cardinality(On(transport, clients)') = Cardinality(On(transport, clients)) + 1
          /\ Cardinality(clients) \in Nat /\ Cardinality(On(transport, clients)) \in Nat
      BY <2>1, <2>3, <3>1, RequestSets, FS_AddElement
    <3>4. metrics \in [Counters -> Nat]
      BY DEF CallsInv, CountersOK
    <3>5. CASE transport = "polling"
      <4>1. metrics' = [metrics EXCEPT !.connections = @ + 1, !.polling = @ + 1]
        BY <2>1, <3>5, Zenon
      <4>2. metrics' = [x \in Counters |-> metrics'[x]]
        BY <3>4, <4>1
      <4>3. /\ metrics'.connections = metrics.connections + 1
            /\ metrics'.polling = metrics.polling + 1 /\ metrics'.websocket = metrics.websocket
            /\ metrics'.disconnections = metrics.disconnections
            /\ metrics'.upgrades = metrics.upgrades
        BY <3>4, <4>1 DEF Counters
      <4>4. \A x \in Counters : metrics[x] \in Nat
        BY <3>4
      <4>5. metrics' \in [Counters -> Nat]
        BY <4>2, <4>3, <4>4, MetricsType DEF Counters
      <4>6. CountersMatch'
        BY <3>2, <3>3, <3>5, <4>3, <4>4 DEF CallsInv, CountersOK, CountersMatch, Counters
      <4> QED BY <4>5, <4>6 DEF CountersOK
    <3>6. CASE transport = "websocket"
      <4>1. metrics' = [metrics EXCEPT !.connections = @ + 1, !.websocket = @ + 1]
        BY <2>1, <3>6, Zenon
      <4>2. metrics' = [x \in Counters |-> metrics'[x]]
        BY <3>4, <4>1
      <4>3. /\ metrics'.connections = metrics.connections + 1
            /\ metrics'.websocket = metrics.websocket + 1 /\ metrics'.polling = metrics.polling
            /\ metrics'.disconnections = metrics.disconnections
            /\ metrics'.upgrades = metrics.upgrades
        BY <3>4, <4>1 DEF Counters
      <4>4. \A x \in Counters : metrics[x] \in Nat
        BY <3>4
      <4>5. metrics' \in [Counters -> Nat]
        BY <4>2, <4>3, <4>4, MetricsType DEF Counters
      <4>6. CountersMatch'
        BY <3>2, <3>3, <3>6, <4>3, <4>4 DEF CallsInv, CountersOK, CountersMatch, Counters
      <4> QED BY <4>5, <4>6 DEF CountersOK
    <3> QED BY <2>2, <3>5, <3>6
  <2> QED BY <2>6, <2>9, <2>10, <2>11
<1> QED BY <1>1, <1>2

\* A step that leaves clients, metrics and calls alone, and every session its
\* transport.
LEMMA CountersFrame ==
  ASSUME CallsInv, UNCHANGED <<clients, metrics, calls>>, Known' = Known, Alive' = Alive,
         \A c \in Requests : session'[c].transport = session[c].transport
  PROVE  CountersOK' /\ AllSound(calls, clients, Alive, Known)'
<1>1. clients \subseteq Requests
  BY ClientsFinite DEF CallsInv, ServerInv
<1>2. \A t : On(t, clients)' = On(t, clients)
  BY <1>1 DEF On
<1> QED BY <1>2 DEF CallsInv, CountersOK, CountersMatch

\* A request for a session that was seen polling.
LEMMA ToSessionOK ==
  ASSUME CallsInv, NEW r \in Requests, NEW ask \in Ask, ToSession(r, ask),
         WasPolling(ask.sid), UNCHANGED <<clients, metrics, calls>>,
         ~AsyncChecks => session[ask.sid].transport = "polling"
  PROVE  CountersOK' /\ RequestsOK' /\ ChecksOK' /\ AllSound(calls, clients, Alive, Known)'
<1>0. session \in [Requests -> Session] /\ ask.sid \in Requests
  BY DEF CallsInv, ServerInv, RegistryInv, WasPolling, Known
<1>1. CASE UNCHANGED session
  <2>1. \E status \in {"ok", "refused", "crash"} :
          Answer(r, status) /\ (status = "crash" => AsyncChecks)
    BY DEF ToSession, Refuse
  <2>2. RequestsOK' /\ ChecksOK'
    BY <1>1, <2>1, SessionsSame, AnswerOK
  <2> QED BY <1>1, <2>2, CountersFrame DEF Known, Alive, Live
<1>2. CASE /\ Answer(r, "ok") /\ session[ask.sid].upgrade = "not_upgraded"
           /\ session' = [session EXCEPT ![ask.sid].upgrade = "upgrading"]
  <2>1. session[ask.sid].transport = "polling"
    BY <1>2 DEF WasPolling
  <2>2. \A c \in Requests : /\ session'[c].transport = session[c].transport
                            /\ session'[c].ready = session[c].ready
                            /\ session'[c].upgrade = IF c = ask.sid THEN "upgrading"
                                                     ELSE session[c].upgrade
    BY <1>0, <1>2 DEF Session
  <2>3. Known' = Known /\ Alive' = Alive
    BY <2>2 DEF Known, Alive, Live
  <2>4. SessionsGoOn
    BY <2>1, <2>2, <2>3 DEF CallsInv, RequestsOK, SessionsGoOn, WasPolling, Known
  <2> QED BY <1>2, <2>2, <2>3, <2>4, CountersFrame, AnswerOK
<1> QED BY <1>1, <1>2 DEF ToSession

\* Neither rate is overdrawn by a handshake that is within both.
LEMMA ChargeOK ==
  ASSUME CallsInv, NEW ip \in Addresses \cup {Unknown}, ~Limited(ip), Charge(ip),
         UNCHANGED <<refill, draining>>
  PROVE  LimitsOK'
<1>1. /\ MaxPerSecond \in Nat /\ MaxPerIp \in Nat
      /\ tokens \in 0 .. MaxPerSecond /\ ipCount \in [Addresses -> 0 .. MaxPerIp]
      /\ refill \in BOOLEAN /\ draining \in BOOLEAN
  BY ServerAssumption DEF CallsInv, LimitsOK
<1>2. tokens' \in 0 .. MaxPerSecond
  BY <1>1 DEF Limited, Charge
<1>3. ipCount' \in [Addresses -> 0 .. MaxPerIp]
  BY <1>1 DEF Limited, Charge
<1> QED BY <1>1, <1>2, <1>3 DEF LimitsOK

\* A request that passed its checks: what it asks of a session was verified,
\* and just now if no check awaits.
LEMMA DispatchOK ==
  ASSUME CallsInv, NEW r \in Requests, NEW ask \in Ask, Dispatch(r, ask),
         req[r].stage \notin {"registering", "done"},
         ask.kind # "handshake" =>
           WasPolling(ask.sid) /\ (~AsyncChecks => session[ask.sid].transport = "polling")
  PROVE  /\ CountersOK' /\ RequestsOK' /\ ChecksOK' /\ LimitsOK'
         /\ AllSound(calls, clients, Alive, Known)'
<1>0. UNCHANGED <<refill, draining, calls>>
  BY DEF Dispatch
<1>1. CASE ask.kind # "handshake"
  <2>1. ToSession(r, ask) /\ UNCHANGED <<clients, metrics, degraded, tokens, ipCount>>
    BY <1>1 DEF Dispatch
  <2>2. LimitsOK'
    BY <1>0, <2>1 DEF CallsInv, LimitsOK
  <2> QED BY <1>0, <1>1, <2>1, <2>2, ToSessionOK
<1>2. CASE ask.kind = "handshake"
  <2>1. Handshake(r, ask) /\ ask.ip \in Addresses \cup {Unknown}
    BY <1>2 DEF Dispatch, Ask
  <2>2. LimitsOK'
    <3>1. CASE UNCHANGED <<tokens, ipCount>>
      BY <1>0, <3>1 DEF CallsInv, LimitsOK
    <3>2. CASE ~Limited(ask.ip) /\ Charge(ask.ip)
      BY <1>0, <2>1, <3>2, ChargeOK
    <3> QED BY <2>1, <3>1, <3>2 DEF Handshake
  <2>3. CASE Refuse(r) /\ UNCHANGED registry
    <3>1. UNCHANGED <<session, clients, metrics>> /\ Known' = Known /\ Alive' = Alive
      BY <2>3 DEF registry, Known, Alive, Live
    <3> QED BY <1>0, <2>2, <2>3, <3>1, SessionsSame, AnswerOK, CountersFrame DEF Refuse
  <2>4. CASE req' = [req EXCEPT ![r] = Waiting("charged", ask)] /\ UNCHANGED registry
    <3>1. UNCHANGED <<session, clients, metrics>> /\ Known' = Known /\ Alive' = Alive
      BY <2>4 DEF registry, Known, Alive, Live
    <3> QED BY <1>0, <2>2, <2>4, <3>1, WaitingOK, CountersFrame
  <2>5. CASE Register(r, ask)
    BY <1>0, <2>2, <2>5, RegisterOK
  <2> QED BY <2>1, <2>3, <2>4, <2>5 DEF Handshake
<1> QED BY <1>1, <1>2

\* A request as it arrives.
LEMMA ArriveOK ==
  ASSUME CallsInv, NEW r \in Requests, Arrive(r)
  PROVE  /\ CountersOK' /\ RequestsOK' /\ ChecksOK' /\ LimitsOK'
         /\ AllSound(calls, clients, Alive, Known)'
<1>1. req[r] = New /\ req[r].stage \notin {"registering", "done"}
  BY DEF Arrive, New
<1>2. PICK ask \in Ask :
        \/ Refuse(r) /\ UNCHANGED <<registry, limits, draining, calls>>
        \/ /\ Verified(ask) /\ AsyncChecks
           /\ req' = [req EXCEPT ![r] = Waiting("checking", ask)]
           /\ UNCHANGED <<registry, limits, draining, calls>>
        \/ Verified(ask) /\ Dispatch(r, ask)
  BY DEF Arrive
<1>3. Verified(ask) /\ ask.kind # "handshake" =>
        WasPolling(ask.sid) /\ session[ask.sid].transport = "polling"
  BY DEF Verified, WasPolling, Known, CallsInv, ServerInv, RegistryInv, Registered, Live
<1>4. ASSUME UNCHANGED <<registry, limits, draining, calls>>
      PROVE  /\ LimitsOK' /\ CountersOK' /\ AllSound(calls, clients, Alive, Known)'
             /\ UNCHANGED session
  <2>1. UNCHANGED <<session, clients, metrics, tokens, ipCount, refill, draining, calls>>
        /\ Known' = Known /\ Alive' = Alive
    BY <1>4 DEF registry, limits, Known, Alive, Live
  <2> QED BY <2>1, CountersFrame DEF CallsInv, LimitsOK
<1>5. CASE Refuse(r) /\ UNCHANGED <<registry, limits, draining, calls>>
  BY <1>4, <1>5, SessionsSame, AnswerOK DEF Refuse
<1>6. CASE /\ Verified(ask) /\ AsyncChecks
           /\ req' = [req EXCEPT ![r] = Waiting("checking", ask)]
           /\ UNCHANGED <<registry, limits, draining, calls>>
  BY <1>1, <1>3, <1>4, <1>6, WaitingOK
<1>7. CASE Verified(ask) /\ Dispatch(r, ask)
  BY <1>1, <1>3, <1>7, DispatchOK
<1> QED BY <1>2, <1>5, <1>6, <1>7

\* A request whose checks end, or whose hook returns.
LEMMA ContinueOK ==
  ASSUME CallsInv, NEW r \in Requests, Checked(r) \/ Forbidden(r) \/ HookDone(r)
  PROVE  /\ CountersOK' /\ RequestsOK' /\ ChecksOK' /\ LimitsOK'
         /\ AllSound(calls, clients, Alive, Known)'
<1>1. CASE Checked(r)
  <2>1. req[r].ask \in Ask /\ Dispatch(r, req[r].ask) /\ req[r].stage = "checking"
    BY <1>1 DEF Checked, CallsInv, ServerInv, Asked
  <2>2. AsyncChecks
    BY <2>1, ServerAssumption DEF CallsInv, ChecksOK
  <2>3. req[r].ask.kind # "handshake" => WasPolling(req[r].ask.sid)
    BY <2>1 DEF CallsInv, RequestsOK
  <2> QED BY <2>1, <2>2, <2>3, DispatchOK
<1>2. CASE Forbidden(r)
  <2>1. /\ UNCHANGED <<session, clients, metrics, tokens, ipCount, refill, draining, calls>>
        /\ Known' = Known /\ Alive' = Alive /\ Answer(r, "refused")
    BY <1>2 DEF Forbidden, registry, limits, Known, Alive, Live, Refuse
  <2> QED BY <2>1, SessionsSame, AnswerOK, CountersFrame DEF CallsInv, LimitsOK
<1>3. CASE HookDone(r)
  <2>1. /\ req[r].stage = "charged" /\ Register(r, req[r].ask) /\ req[r].ask \in Ask
        /\ UNCHANGED <<tokens, ipCount, refill, draining, calls>>
    BY <1>3 DEF HookDone, limits, CallsInv, ServerInv, Asked
  <2> QED BY <2>1, RegisterOK DEF CallsInv, LimitsOK
<1> QED BY <1>1, <1>2, <1>3

\* A handshake goes on to listen to its session.
LEMMA GoesOnOK ==
  ASSUME CallsInv, NEW r \in Requests, HandshakeGoesOn(r)
  PROVE  /\ CountersOK' /\ RequestsOK' /\ ChecksOK' /\ LimitsOK'
         /\ AllSound(calls, clients, Alive, Known)'
<1>1. /\ Answer(r, "ok") /\ session' = [session EXCEPT ![r].listened = Live(r)]
      /\ UNCHANGED <<clients, metrics, tokens, ipCount, refill, draining, calls>>
  BY DEF HandshakeGoesOn, limits
<1>2. \A c \in Requests : /\ session'[c].ready = session[c].ready
                          /\ session'[c].transport = session[c].transport
                          /\ session'[c].upgrade = session[c].upgrade
  BY <1>1 DEF CallsInv, ServerInv, RegistryInv, Session
<1>3. Known' = Known /\ Alive' = Alive
  BY <1>2 DEF Known, Alive, Live
<1>4. SessionsGoOn
  BY <1>2, <1>3 DEF CallsInv, RequestsOK, SessionsGoOn, WasPolling, Known
<1> QED BY <1>1, <1>2, <1>3, <1>4, AnswerOK, CountersFrame DEF CallsInv, LimitsOK

\* A session changes from polling to WebSocket, and so do the counts.
LEMMA SessionUpgradesOK ==
  ASSUME CallsInv, NEW c \in Requests, SessionUpgrades(c)
  PROVE  /\ CountersOK' /\ RequestsOK' /\ ChecksOK' /\ LimitsOK'
         /\ AllSound(calls, clients, Alive, Known)'
<1>1. /\ session' = [session EXCEPT ![c].upgrade = "upgraded", ![c].transport = "websocket"]
      /\ metrics' = [metrics EXCEPT !.upgrades = @ + 1, !.polling = @ - 1,
                                    !.websocket = @ + 1]
      /\ UNCHANGED <<req, clients, tokens, ipCount, refill, draining, calls>>
      /\ Live(c) /\ session[c].upgrade = "upgrading"
  BY DEF SessionUpgrades, limits
<1>2. /\ c \in clients /\ clients \subseteq Requests /\ session \in [Requests -> Session]
      /\ session[c].transport = "polling" /\ c \in Known
  BY <1>1, ClientsFinite
     DEF CallsInv, ServerInv, RegistryInv, Registered, RequestsOK, Known, Live
<1>3. \A d \in Requests :
        /\ session'[d].ready = session[d].ready
        /\ session'[d].transport = IF d = c THEN "websocket" ELSE session[d].transport
        /\ session'[d].upgrade = IF d = c THEN "upgraded" ELSE session[d].upgrade
  BY <1>1, <1>2 DEF Session
<1>4. Known' = Known /\ Alive' = Alive
  BY <1>3 DEF Known, Alive, Live
<1>5. SessionsGoOn
  BY <1>3, <1>4 DEF CallsInv, RequestsOK, SessionsGoOn, WasPolling, Known
<1>6. RequestsOK' /\ ChecksOK' /\ LimitsOK' /\ AllSound(calls, clients, Alive, Known)'
  BY <1>1, <1>4, <1>5 DEF CallsInv, RequestsOK, ChecksOK, LimitsOK, SessionsGoOn
<1>7. CountersOK'
  <2> DEFINE P == On("polling", clients)
             W == On("websocket", clients)
  <2>1. /\ P \subseteq Requests /\ W \subseteq Requests
        /\ c \in P /\ c \notin W
    BY <1>2 DEF On
  <2>2. On("polling", clients)' = P \ {c} /\ On("websocket", clients)' = W \cup {c}
    BY <1>1, <1>2, <1>3 DEF On
  <2>3. /\ Cardinality(P \ {c}) = Cardinality(P) - 1 /\ Cardinality(P \ {c}) \in Nat
        /\ Cardinality(W \cup {c}) = Cardinality(W) + 1
        /\ Cardinality(P) \in Nat /\ Cardinality(W) \in Nat
    <3>1. IsFiniteSet(P) /\ IsFiniteSet(W) /\ P \ {c} \subseteq Requests
      BY <2>1, RequestSets
    <3> QED BY <2>1, <3>1, RequestSets, FS_AddElement, FS_RemoveElement
  <2>4. /\ metrics \in [Counters -> Nat] /\ metrics.polling = Cardinality(P)
        /\ metrics.websocket = Cardinality(W)
        /\ metrics.connections - metrics.disconnections = Cardinality(clients)
    BY DEF CallsInv, CountersOK, CountersMatch
  <2> HIDE DEF P, W
  <2>5. metrics' = [x \in Counters |-> metrics'[x]]
    BY <1>1, <2>4
  <2>6. /\ metrics'.polling = metrics.polling - 1 /\ metrics'.websocket = metrics.websocket + 1
        /\ metrics'.upgrades = metrics.upgrades + 1
        /\ metrics'.connections = metrics.connections
        /\ metrics'.disconnections = metrics.disconnections
    BY <1>1, <2>4 DEF Counters
  <2>7. \A x \in Counters : metrics[x] \in Nat
    BY <2>4
  <2>8. metrics' \in [Counters -> Nat]
    BY <2>3, <2>4, <2>5, <2>6, <2>7, MetricsType DEF Counters
  <2>9. CountersMatch'
    BY <1>1, <2>2, <2>3, <2>4, <2>6 DEF CountersMatch
  <2> QED BY <2>8, <2>9 DEF CountersOK
<1> QED BY <1>6, <1>7

\* A session ends, or is closed by the application.
LEMMA SessionEndsOK ==
  ASSUME CallsInv, NEW c \in Requests, SessionEnds(c) \/ SessionClose(c)
  PROVE  /\ CountersOK' /\ RequestsOK' /\ ChecksOK' /\ LimitsOK'
         /\ AllSound(calls, clients, Alive, Known)'
         /\ \A k \in Calls : calls'[k].todo \subseteq calls[k].todo
<1>1. AllSound(calls, clients, Alive, Known)
  BY DEF CallsInv
<1>2. UNCHANGED <<req, tokens, ipCount, refill, draining>>
  BY DEF SessionEnds, SessionClose, limits
<1>3. LimitsOK'
  BY <1>2 DEF CallsInv, LimitsOK
<1>4. CASE SessionEnds(c)
  <2>1. {c} \in SUBSET LiveClients /\ {} \in SUBSET LiveClients /\ EndSessions(calls, {c}, {})
    BY <1>4 DEF SessionEnds, LiveClients, CallsInv, ServerInv, RegistryInv, Registered
  <2> QED BY <1>1, <1>2, <1>3, <2>1, EndSessionsCalls
<1>5. CASE SessionClose(c)
  BY <1>1, <1>2, <1>3, <1>5, CloseSessionsCalls DEF SessionClose
<1> QED BY <1>4, <1>5

\* One call changes, and remains sound.
LEMMA OneSound ==
  ASSUME CallsInv, NEW k \in Calls, NEW call, Sound(call, clients, Alive, Known)
  PROVE  AllSound([calls EXCEPT ![k] = call], clients, Alive, Known)
<1>1. call \in Call /\ AllSound(calls, clients, Alive, Known)
  BY DEF CallsInv, Sound, Counted
<1> QED BY <1>1 DEF AllSound

\* shutdown() and close() begin.
LEMMA BeginOK ==
  ASSUME CallsInv, NEW k \in Calls, Shutdown(k) \/ CloseAll(k)
  PROVE  /\ CountersOK' /\ RequestsOK' /\ ChecksOK' /\ LimitsOK'
         /\ AllSound(calls, clients, Alive, Known)'
<1>1. PICK kind \in {"shutdown", "close"} : Begin(k, kind)
  BY DEF Shutdown, CloseAll
<1>2. LimitsOK'
  BY DEF Shutdown, CloseAll, limits, CallsInv, LimitsOK
<1>3. /\ UNCHANGED <<req, session, clients, metrics>>
      /\ calls' = [calls EXCEPT ![k] = Started(kind)]
      /\ Known' = Known /\ Alive' = Alive
  BY <1>1 DEF Begin, registry, Known, Alive, Live
<1>4. CountersOK' /\ RequestsOK' /\ ChecksOK'
  <2>1. \A t : On(t, clients)' = On(t, clients)
    BY <1>3 DEF On
  <2>2. \A c : WasPolling(c)' <=> WasPolling(c)
    BY <1>3 DEF WasPolling
  <2> QED BY <1>3, <2>1, <2>2
          DEF CallsInv, CountersOK, CountersMatch, RequestsOK, ChecksOK
<1>5. AllSound([calls EXCEPT ![k] = Started(kind)], clients, Alive, Known)
  BY StartedSound, OneSound
<1> QED BY <1>2, <1>3, <1>4, <1>5

\* A loop reaches a session, or the timer of shutdown() strikes.
LEMMA LoopOK ==
  ASSUME CallsInv, NEW k \in Calls, Reach(k) \/ ShutdownTimeout(k)
  PROVE  /\ CountersOK' /\ RequestsOK' /\ ChecksOK' /\ LimitsOK'
         /\ AllSound(calls, clients, Alive, Known)'
         /\ \A j \in Calls : calls'[j].todo \subseteq calls[j].todo
<1>1. LimitsOK' /\ UNCHANGED req
  BY DEF Reach, ShutdownTimeout, limits, CallsInv, LimitsOK
<1>2. calls \in [Calls -> Call] /\ Sound(calls[k], clients, Alive, Known)
  BY DEF CallsInv, AllSound
<1>3. ASSUME NEW t, Sound(t, clients, Alive, Known), t.todo \subseteq calls[k].todo,
             NEW S, CloseSessions([calls EXCEPT ![k] = t], S)
      PROVE  /\ CountersOK' /\ RequestsOK' /\ ChecksOK'
             /\ AllSound(calls, clients, Alive, Known)'
             /\ \A j \in Calls : calls'[j].todo \subseteq calls[j].todo
  <2> DEFINE cs == [calls EXCEPT ![k] = t]
  <2>1. AllSound(cs, clients, Alive, Known)
    BY <1>3, OneSound
  <2>2. \A j \in Calls : cs[j].todo \subseteq calls[j].todo
    BY <1>2, <1>3
  <2> HIDE DEF cs
  <2>3. CloseSessions(cs, S)
    BY <1>3 DEF cs
  <2>4. /\ CountersOK' /\ RequestsOK' /\ ChecksOK'
        /\ AllSound(calls, clients, Alive, Known)'
        /\ \A j \in Calls : calls'[j].todo \subseteq cs[j].todo
    BY <1>1, <2>1, <2>3, CloseSessionsCalls
  <2> QED BY <2>2, <2>4
<1>4. CASE Reach(k)
  <2>1. PICK c \in calls[k].todo :
          CloseSessions([calls EXCEPT ![k].pending = @ \cup {c}, ![k].todo = @ \ {c}], {c})
    BY <1>4 DEF Reach
  <2> DEFINE t == [calls[k] EXCEPT !.pending = @ \cup {c}, !.todo = @ \ {c}]
  <2>2. [calls EXCEPT ![k].pending = @ \cup {c}, ![k].todo = @ \ {c}] = [calls EXCEPT ![k] = t]
    BY <1>2
  <2>3. Sound(t, clients, Alive, Known) /\ t.todo \subseteq calls[k].todo
    BY <1>2, ReachSound
  <2> HIDE DEF t
  <2>4. CloseSessions([calls EXCEPT ![k] = t], {c})
    BY <2>1, <2>2
  <2> QED BY <1>1, <1>3, <2>3, <2>4
<1>5. CASE ShutdownTimeout(k)
  <2> DEFINE t == [calls[k] EXCEPT !.timer = FALSE, !.resolved = TRUE]
  <2>1. calls[k].timer /\ calls[k] \in Call /\ Counted(calls[k])
    BY <1>2, <1>5 DEF ShutdownTimeout, Sound, Counted
  <2>2. CloseSessions([calls EXCEPT ![k] = t], clients)
    <3>1. [calls EXCEPT ![k].timer = FALSE, ![k].resolved = TRUE] = [calls EXCEPT ![k] = t]
      BY <1>2
    <3> QED BY <1>5, <3>1 DEF ShutdownTimeout
  <2>3. t \in Call
    BY <2>1, Zenon DEF Call
  <2>4. /\ t.waited = calls[k].waited /\ t.pending = calls[k].pending
        /\ t.todo = calls[k].todo /\ t.missed = calls[k].missed
        /\ t.remaining = calls[k].remaining /\ t.kind = calls[k].kind
    BY <2>1 DEF Call
  <2>5. t.resolved = TRUE /\ t.timer = FALSE
    BY <2>1 DEF Call
  <2> HIDE DEF t
  <2>6. Sound(t, clients, Alive, Known) /\ t.todo \subseteq calls[k].todo
    BY <1>2, <2>1, <2>3, <2>4, <2>5 DEF Sound, Counted, Placed
  <2> QED BY <1>1, <1>3, <2>2, <2>6
<1> QED BY <1>4, <1>5

-----------------------------------------------------------------------------
(* What is under way *)

LEMMA Pushed ==
  ASSUME NEW S, NEW s \in Seq(S), NEW x \in S
  PROVE  /\ <<x>> \o s \in Seq(S) /\ Within(x, <<x>> \o s)
         /\ \A y : Within(y, s) => Within(y, <<x>> \o s)
<1> DEFINE t == <<x>> \o s
<1>1. /\ t \in Seq(S) /\ Len(s) \in Nat /\ Len(t) = Len(s) + 1 /\ t[1] = x
      /\ \A i \in 1 .. Len(s) : t[i + 1] = s[i]
  OBVIOUS
<1> HIDE DEF t
<1>2. Within(x, t)
  BY <1>1 DEF Within
<1>3. ASSUME NEW y, Within(y, s) PROVE Within(y, t)
  <2>1. PICK i \in 1 .. Len(s) : s[i] = y
    BY <1>3 DEF Within
  <2>2. i + 1 \in 1 .. Len(t) /\ t[i + 1] = y
    BY <1>1, <2>1
  <2> QED BY <2>2 DEF Within
<1>4. t = <<x>> \o s
  BY DEF t
<1> QED BY <1>1, <1>2, <1>3, <1>4

LEMMA Popped ==
  ASSUME NEW S, NEW s \in Seq(S), s # <<>>
  PROVE  /\ Tail(s) \in Seq(S)
         /\ \A y : Within(y, s) /\ y # Head(s) => Within(y, Tail(s))
<1> DEFINE t == Tail(s)
<1>1. /\ t \in Seq(S) /\ Len(s) \in Nat /\ Len(t) = Len(s) - 1 /\ Head(s) = s[1]
      /\ \A i \in 1 .. Len(t) : t[i] = s[i + 1]
  OBVIOUS
<1> HIDE DEF t
<1>2. ASSUME NEW y, Within(y, s), y # Head(s) PROVE Within(y, t)
  <2>1. PICK i \in 1 .. Len(s) : s[i] = y
    BY <1>2 DEF Within
  <2>2. i - 1 \in 1 .. Len(t) /\ t[i - 1] = y
    BY <1>1, <1>2, <2>1
  <2> QED BY <2>2 DEF Within
<1>3. t = Tail(s)
  BY DEF t
<1> QED BY <1>1, <1>2, <1>3

\* Calls have no session to reach that they had not, and nothing returns.
LEMMA LoopsFrame ==
  ASSUME LoopsOK, stack' = stack \/ stack' = <<App>> \o stack,
         \A k \in Calls : calls'[k].todo \subseteq calls[k].todo
  PROVE  LoopsOK'
<1>1. App \in Frames
  BY DEF Frames
<1>2. stack' \in Seq(Frames) /\ \A y : Within(y, stack) => Within(y, stack')
  BY <1>1, Pushed DEF LoopsOK
<1> QED BY <1>2 DEF LoopsOK

\* A request is served while nothing is under way.
LEMMA LoopsIdle ==
  ASSUME LoopsOK, Idle, UNCHANGED calls, NEW r \in Requests,
         stack' = stack \/ stack' = <<App, r>>
  PROVE  LoopsOK'
<1>1. \A y : ~Within(y, <<>>)
  BY DEF Within
<1>2. \A k \in Calls : calls'[k].todo = {}
  BY <1>1 DEF LoopsOK, Idle
<1>3. <<App, r>> \in Seq(Frames)
  BY DEF Frames
<1> QED BY <1>2, <1>3 DEF LoopsOK

\* What has nothing to reach returns.
LEMMA LoopsPop ==
  ASSUME LoopsOK, UNCHANGED calls, stack # <<>>, stack' = Tail(stack),
         Head(stack) \notin Calls \/ calls[Head(stack)].todo = {}
  PROVE  LoopsOK'
<1>1. /\ stack' \in Seq(Frames)
      /\ \A y : Within(y, stack) /\ y # Head(stack) => Within(y, stack')
  BY Popped DEF LoopsOK
<1> QED BY <1>1 DEF LoopsOK

-----------------------------------------------------------------------------
(* The server *)

LEMMA CallsInit == Init => CallsInv
<1> SUFFICES ASSUME Init PROVE CallsInv
  OBVIOUS
<1>1. clients = {} /\ Known = {} /\ Alive = {} /\ Cardinality({}) = 0
  BY FS_EmptySet DEF Init, Known, Alive, Live
<1>2. RequestsOK
  <2>1. \A r \in Requests : req[r] = New /\ session[r].upgrade = "not_upgraded"
    BY DEF Init
  <2>2. req \in [Requests -> RequestState]
    BY DEF Init, RequestState
  <2>3. New.stage = "new"
    BY DEF New
  <2> QED BY <1>1, <2>1, <2>2, <2>3 DEF RequestsOK
<1>3. ChecksOK
  <2>1. \A r \in Requests : req[r] = New
    BY DEF Init
  <2>2. New.stage = "new" /\ New # Done("crash")
    BY DEF New, Done
  <2> QED BY <2>1, <2>2 DEF ChecksOK
<1>4. LimitsOK
  <2>1. tokens \in 0 .. MaxPerSecond /\ ipCount \in [Addresses -> 0 .. MaxPerIp]
    BY ServerAssumption DEF Init
  <2>2. refill \in BOOLEAN /\ draining \in BOOLEAN
    BY Zenon DEF Init
  <2> QED BY <2>1, <2>2 DEF LimitsOK
<1>5. CountersOK
  <2>1. \A t : On(t, clients) = {}
    BY <1>1 DEF On
  <2>2. /\ metrics.connections = 0 /\ metrics.disconnections = 0 /\ metrics.upgrades = 0
        /\ metrics.polling = 0 /\ metrics.websocket = 0
    BY DEF Init
  <2>3. metrics = [x \in Counters |-> metrics[x]]
    BY DEF Init, Counters
  <2>4. metrics \in [Counters -> Nat]
    BY <2>2, <2>3 DEF Counters
  <2> QED BY <1>1, <2>1, <2>2, <2>4 DEF CountersOK, CountersMatch
<1>6. AllSound(calls, clients, Alive, Known)
  <2> DEFINE none == [kind |-> "none", resolved |-> FALSE, timer |-> FALSE, remaining |-> 0,
                      pending |-> {}, todo |-> {}, missed |-> {}, waited |-> {}]
  <2>1. none \in Call
    BY DEF Call
  <2>2. Counted(none) /\ Placed(none, clients, Alive, Known)
    BY <1>1, <2>1 DEF Counted, Placed
  <2>3. calls = [k \in Calls |-> none]
    BY DEF Init
  <2> HIDE DEF none
  <2> QED BY <2>1, <2>2, <2>3 DEF AllSound, Sound
<1>7. LoopsOK
  BY DEF Init, LoopsOK
<1> QED BY <1>2, <1>3, <1>4, <1>5, <1>6, <1>7, InitInv DEF CallsInv

\* Every step keeps the loops that have sessions to reach under way.
LEMMA LoopsStep == CallsInv /\ [Next]_vars => LoopsOK'
<1> SUFFICES ASSUME CallsInv, [Next]_vars
             PROVE  LoopsOK'
  OBVIOUS
<1>0. LoopsOK /\ calls \in [Calls -> Call]
  BY DEF CallsInv, AllSound
<1>1. ASSUME NEW r \in Requests, Arrive(r) \/ Checked(r) \/ Forbidden(r) \/ HookDone(r)
      PROVE  LoopsOK'
  <2>1. Idle /\ UNCHANGED calls
    BY <1>1 DEF Arrive, Checked, Forbidden, HookDone, Dispatch
  <2>2. \A ask : Register(r, ask) => stack' = stack \/ stack' = <<App, r>>
    BY DEF Register
  <2>3. \A ask : Dispatch(r, ask) => stack' = stack \/ stack' = <<App, r>>
    BY <2>2 DEF Dispatch, Handshake
  <2>4. stack' = stack \/ stack' = <<App, r>>
    BY <1>1, <2>2, <2>3 DEF Arrive, Checked, Forbidden, HookDone
  <2> QED BY <1>0, <2>1, <2>4, LoopsIdle
<1>2. ASSUME NEW r \in Requests, HandshakeGoesOn(r) PROVE LoopsOK'
  <2>1. /\ UNCHANGED calls /\ stack # <<>> /\ stack' = Tail(stack) /\ Head(stack) = r
    BY <1>2 DEF HandshakeGoesOn, Runs
  <2>2. r \notin Calls
    BY ServerAssumption
  <2> QED BY <1>0, <2>1, <2>2, LoopsPop
<1>3. CASE Return
  <2>1. /\ UNCHANGED calls /\ stack # <<>> /\ stack' = Tail(stack)
        /\ Head(stack) = App \/ \E k \in Calls : Head(stack) = k /\ calls[k].todo = {}
    BY <1>3 DEF Return, Runs
  <2>2. App \notin Calls
    BY ServerAssumption
  <2> QED BY <1>0, <2>1, <2>2, LoopsPop
<1>4. CASE Refill \/ UNCHANGED vars
  <2>1. UNCHANGED <<calls, stack>>
    BY <1>4 DEF Refill, vars
  <2> QED BY <1>0, <2>1, LoopsFrame
<1>5. ASSUME NEW c \in Requests, SessionUpgrades(c) \/ SessionEnds(c) \/ SessionClose(c)
      PROVE  LoopsOK'
  <2>1. UNCHANGED stack
    BY <1>5 DEF SessionUpgrades, SessionEnds, SessionClose
  <2>2. \A k \in Calls : calls'[k].todo \subseteq calls[k].todo
    BY <1>5, SessionEndsOK DEF SessionUpgrades
  <2> QED BY <1>0, <2>1, <2>2, LoopsFrame
<1>6. ASSUME NEW k \in Calls, Reach(k) \/ ShutdownTimeout(k)
      PROVE  LoopsOK'
  <2>1. stack' = stack \/ stack' = <<App>> \o stack
    BY <1>6 DEF Reach, ShutdownTimeout
  <2> QED BY <1>0, <1>6, <2>1, LoopOK, LoopsFrame
<1>7. ASSUME NEW k \in Calls, Shutdown(k) \/ CloseAll(k)
      PROVE  LoopsOK'
  <2>1. PICK kind \in {"shutdown", "close"} : Begin(k, kind)
    BY <1>7 DEF Shutdown, CloseAll
  <2>2. /\ calls' = [calls EXCEPT ![k] = Started(kind)] /\ Started(kind).todo = clients
        /\ stack' = IF clients = {} THEN stack ELSE <<k>> \o stack
    BY <2>1, StartedSound DEF Begin
  <2>3. /\ stack \in Seq(Frames) /\ k \in Frames
        /\ \A j \in Calls : calls[j].todo # {} => Within(j, stack)
    BY <1>0 DEF LoopsOK, Frames
  <2>4. \A j \in Calls : j # k => calls'[j] = calls[j]
    BY <1>0, <2>2
  <2>5. calls'[k].todo = clients
    BY <1>0, <2>2
  <2>6. CASE clients = {}
    BY <2>2, <2>3, <2>4, <2>5, <2>6 DEF LoopsOK
  <2>7. CASE clients # {}
    <3>1. /\ stack' \in Seq(Frames) /\ Within(k, stack')
          /\ \A y : Within(y, stack) => Within(y, stack')
      BY <2>2, <2>3, <2>7, Pushed
    <3> QED BY <2>3, <2>4, <3>1 DEF LoopsOK
  <2> QED BY <2>6, <2>7
<1> QED BY <1>1, <1>2, <1>3, <1>4, <1>5, <1>6, <1>7 DEF Next

\* Every step preserves the invariant.
LEMMA CallsStep == CallsInv /\ [Next]_vars => CallsInv'
<1> SUFFICES ASSUME CallsInv, [Next]_vars
             PROVE  CallsInv'
  OBVIOUS
<1> DEFINE OK == /\ CountersOK /\ RequestsOK /\ ChecksOK /\ LimitsOK
                 /\ AllSound(calls, clients, Alive, Known)
<1>1. ServerInv' /\ LoopsOK'
  BY NextInv, LoopsStep DEF CallsInv
<1>2. ASSUME NEW r \in Requests,
             Arrive(r) \/ Checked(r) \/ Forbidden(r) \/ HookDone(r) \/ HandshakeGoesOn(r)
      PROVE  OK'
  BY <1>2, ArriveOK, ContinueOK, GoesOnOK
<1>3. CASE Refill
  <2>1. /\ UNCHANGED <<req, session, clients, metrics, calls, refill, draining>>
        /\ Known' = Known /\ Alive' = Alive
        /\ tokens' = MaxPerSecond /\ ipCount' = [ip \in Addresses |-> 0]
    BY <1>3 DEF Refill, registry, Known, Alive, Live
  <2>2. LimitsOK'
    BY <2>1, ServerAssumption DEF CallsInv, LimitsOK
  <2>3. \A c : WasPolling(c)' <=> WasPolling(c)
    BY <2>1 DEF WasPolling
  <2>4. RequestsOK' /\ ChecksOK'
    BY <2>1, <2>3 DEF CallsInv, RequestsOK, ChecksOK
  <2>5. CountersOK' /\ AllSound(calls, clients, Alive, Known)'
    BY <2>1, CountersFrame
  <2> QED BY <1>1, <2>2, <2>4, <2>5 DEF CallsInv
<1>4. ASSUME NEW c \in Requests, SessionUpgrades(c) \/ SessionEnds(c) \/ SessionClose(c)
      PROVE  OK'
  BY <1>4, SessionUpgradesOK, SessionEndsOK
<1>5. ASSUME NEW k \in Calls,
             Shutdown(k) \/ CloseAll(k) \/ Reach(k) \/ ShutdownTimeout(k)
      PROVE  OK'
  BY <1>5, BeginOK, LoopOK
<1>6. CASE Return \/ UNCHANGED vars
  <2>1. /\ UNCHANGED <<req, session, clients, metrics, calls, tokens, ipCount, refill, draining>>
        /\ Known' = Known /\ Alive' = Alive
    BY <1>6 DEF Return, vars, registry, limits, Known, Alive, Live
  <2>2. \A c : WasPolling(c)' <=> WasPolling(c)
    BY <2>1 DEF WasPolling
  <2>3. RequestsOK' /\ ChecksOK' /\ LimitsOK'
    BY <2>1, <2>2 DEF CallsInv, RequestsOK, ChecksOK, LimitsOK
  <2>4. CountersOK' /\ AllSound(calls, clients, Alive, Known)'
    BY <2>1, CountersFrame
  <2> QED BY <1>1, <2>3, <2>4 DEF CallsInv
<1>7. OK' => CallsInv'
  BY <1>1 DEF CallsInv
<1> HIDE DEF OK
<1> QED BY <1>2, <1>3, <1>4, <1>5, <1>6, <1>7 DEF Next

-----------------------------------------------------------------------------
(* The results *)

\* The invariant holds in every state.
THEOREM CallsInvariant == Spec => []CallsInv
BY CallsInit, CallsStep, PTL DEF Spec

\* No request, session, counter or call takes another shape, and neither
\* handshake rate is overdrawn between two refills.
THEOREM ServerTypes == Spec => []TypeOK
<1>1. CallsInv => TypeOK
  <2> SUFFICES ASSUME CallsInv PROVE TypeOK
    OBVIOUS
  <2>1. clients \subseteq Requests /\ degraded \in BOOLEAN
    BY ClientsFinite DEF CallsInv, ServerInv, RegistryInv, DegradedIsCurrent, IsDegraded
  <2>2. calls \in [Calls -> Call]
    BY DEF CallsInv, AllSound
  <2>3. stack \in Seq({App} \cup Calls \cup Requests)
    BY DEF CallsInv, LoopsOK, Frames
  <2> QED BY <2>1, <2>2, <2>3 DEF CallsInv, RequestsOK, RequestState, LimitsOK, CountersOK,
          Counters, ServerInv, RegistryInv, TypeOK
<1> QED BY <1>1, CallsInvariant, PTL

\* The counters of the metrics are exact after any order of connections,
\* upgrades and closes, of any number of sessions.
THEOREM CountersAreExact == Spec => []CountersMatch
<1>1. CallsInv => CountersMatch
  BY DEF CallsInv, CountersOK
<1> QED BY <1>1, CallsInvariant, PTL

\* What a call of shutdown() or close() still counts: every session it misses
\* has ended, and it misses none that lives.
THEOREM CallsHear == Spec => []CallsHeard
<1>1. ASSUME CallsInv, NEW k \in Calls
      PROVE  LET call == calls[k]
                 left == call.pending \cup call.todo
             IN
             /\ call.remaining = Cardinality(call.pending) + Cardinality(call.todo)
                                   + Cardinality(call.missed)
             /\ call.pending \cap call.todo = {} /\ left \subseteq call.waited \cap clients
             /\ call.missed \subseteq call.waited \ clients
             /\ {c \in call.waited : Live(c)} \subseteq left
             /\ call.kind # "none" /\ ~call.resolved => left \cup call.missed # {}
             /\ Idle => call.todo = {}
  <2>1. Counted(calls[k]) /\ Placed(calls[k], clients, Alive, Known) /\ calls[k] \in Call
    BY <1>1 DEF CallsInv, AllSound, Sound
  <2>2. {c \in calls[k].waited : Live(c)} \subseteq Alive
    BY <2>1 DEF Alive, Call
  <2>3. Idle => calls[k].todo = {}
    BY <1>1 DEF CallsInv, LoopsOK, Within, Idle
  <2> QED BY <2>1, <2>2, <2>3 DEF Counted, Placed
<1>2. CallsInv => CallsHeard
  BY <1>1 DEF CallsHeard
<1> QED BY <1>2, CallsInvariant, PTL

\* close() does not resolve before the last session it closes has ended, even if
\* a listener of one session closes another.
THEOREM CloseIsPatient == Spec => []CloseWaitsForAll
<1>1. ASSUME CallsInv, NEW k \in Calls, calls[k].kind = "close", calls[k].resolved,
             NEW c \in calls[k].waited
      PROVE  ~Live(c)
  <2>1. Counted(calls[k]) /\ Placed(calls[k], clients, Alive, Known) /\ calls[k] \in Call
    BY <1>1 DEF CallsInv, AllSound, Sound
  <2> QED BY <1>1, <2>1 DEF Counted, Placed, Alive, Call
<1>2. CallsInv => CloseWaitsForAll
  BY <1>1 DEF CloseWaitsForAll
<1> QED BY <1>2, CallsInvariant, PTL

\* Unless a middleware or allowRequest awaits, no request is cast to a
\* transport its session has left.
THEOREM NobodyCrashes == ~AsyncChecks => (Spec => []NoCrash)
<1> SUFFICES ASSUME ~AsyncChecks PROVE Spec => []NoCrash
  OBVIOUS
<1>1. CallsInv => NoCrash
  BY DEF CallsInv, ChecksOK, NoCrash
<1> QED BY <1>1, CallsInvariant, PTL
=============================================================================
