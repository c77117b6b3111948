---------------------------- MODULE ServerProofs ----------------------------
(***************************************************************************)
(* What holds of the registry of sessions for any number of requests and   *)
(* calls and any limits.                                                   *)
(***************************************************************************)
EXTENDS Server, FiniteSetTheorems, TLAPS

\* The registry, its flag and, when no handshake waits in a hook, its bound.
RegistryInv ==
  /\ session \in [Requests -> Session]
  /\ Registered
  /\ DegradedIsCurrent
  /\ ~HandshakeHook => CapacityRespected

\* Registered sessions are requests, and finitely many.
LEMMA ClientsFinite ==
  ASSUME RegistryInv
  PROVE  clients \subseteq Requests /\ IsFiniteSet(clients) /\ Cardinality(clients) \in Nat
<1>1. clients \subseteq Requests
  BY DEF RegistryInv, Registered
<1>2. IsFiniteSet(Requests)
  BY ServerAssumption
<1>3. IsFiniteSet(clients)
  BY <1>1, <1>2, FS_Subset
<1> QED BY <1>1, <1>3, FS_CardinalityType

\* A session that lives is heard, unless its handshake is interrupted, and a
\* handshake that is interrupted has its session registered.
Attended ==
  \A c \in Requests :
    /\ Live(c) /\ ~session[c].listened => req[c].stage = "registering"
    /\ req[c].stage = "registering" => c \in clients /\ ~session[c].listened

\* What EndIsHeard says of a step.
EndHeard ==
  \A c \in Requests :
    Live(c) /\ session'[c].ready = "closed" =>
      c \notin clients' \/ req[c].stage = "registering"

LiveClients == {c \in clients : Live(c)}

\* The end of some sessions, while others start closing.
LEMMA EndSessionsInv ==
  ASSUME RegistryInv, Attended, NEW cs, NEW D \in SUBSET LiveClients,
         NEW E \in SUBSET LiveClients, EndSessions(cs, D, E), UNCHANGED req
  PROVE  RegistryInv' /\ Attended' /\ EndHeard /\ clients' \subseteq clients
<1>1. D \subseteq clients /\ E \subseteq clients /\ clients \subseteq Requests
  BY ClientsFinite DEF LiveClients
<1>2. clients' = clients \ Listened(D)
  BY DEF EndSessions
<1>3. /\ session' = [c \in Requests |->
           IF c \in D THEN [session[c] EXCEPT !.ready = "closed"]
           ELSE IF c \in E THEN [session[c] EXCEPT !.ready = "closing"]
           ELSE session[c]]
      /\ degraded' = IsDegraded(clients \ Listened(D))
  BY DEF EndSessions
<1>4. session' \in [Requests -> Session]
  BY <1>3 DEF RegistryInv, Session
<1>5. ASSUME NEW c \in Requests
      PROVE  /\ session'[c].listened = session[c].listened
             /\ session'[c].ready = IF c \in D THEN "closed"
                                    ELSE IF c \in E THEN "closing" ELSE session[c].ready
             /\ c \in D \cup E => Live(c)
             /\ c \in clients <=> Live(c) \/ (session[c].ready = "closed"
                                                /\ ~session[c].listened)
             /\ c \in clients' <=> c \in clients /\ ~(c \in D /\ session[c].listened)
  <2>1. session[c] \in Session
    BY DEF RegistryInv
  <2>2. /\ session'[c].listened = session[c].listened
        /\ session'[c].ready = IF c \in D THEN "closed"
                               ELSE IF c \in E THEN "closing" ELSE session[c].ready
    BY <1>3, <2>1 DEF Session
  <2>3. c \in D \cup E => Live(c)
    BY DEF LiveClients
  <2>4. c \in clients <=> Live(c) \/ (session[c].ready = "closed" /\ ~session[c].listened)
    BY DEF RegistryInv, Registered
  <2>5. c \in clients' <=> c \in clients /\ ~(c \in D /\ session[c].listened)
    BY <1>2 DEF Listened
  <2> QED BY <2>2, <2>3, <2>4, <2>5
<1>6. Registered'
  <2>1. ASSUME NEW c \in Requests
        PROVE  c \in clients' <=>
                 Live(c)' \/ (session'[c].ready = "closed" /\ ~session'[c].listened)
    BY <1>5 DEF Live
  <2> QED BY <1>1, <1>2, <2>1 DEF Registered
<1>7. DegradedIsCurrent'
  BY <1>2, <1>3 DEF DegradedIsCurrent, IsDegraded
<1>8. ~HandshakeHook => CapacityRespected'
  <2>1. Cardinality(clients') <= Cardinality(clients) /\ Cardinality(clients') \in Nat
    BY <1>2, ClientsFinite, FS_Subset, FS_CardinalityType
  <2> QED BY <2>1, ClientsFinite, ServerAssumption DEF RegistryInv, CapacityRespected
<1>9. Attended' /\ EndHeard
  BY <1>5 DEF Attended, EndHeard, Live
<1> QED BY <1>2, <1>4, <1>6, <1>7, <1>8, <1>9 DEF RegistryInv

\* close() on some sessions.
LEMMA CloseSessionsInv ==
  ASSUME RegistryInv, Attended, NEW cs, NEW S, CloseSessions(cs, S), UNCHANGED req
  PROVE  RegistryInv' /\ Attended' /\ EndHeard /\ clients' \subseteq clients
<1>1. PICK D \in SUBSET MayBeEmpty(S \cap OpenClients) :
        EndSessions(cs, D, (S \cap OpenClients) \ D)
  BY DEF CloseSessions
<1>2. OpenClients \subseteq LiveClients
  BY DEF OpenClients, LiveClients, Live
<1>3. MayBeEmpty(S \cap OpenClients) \subseteq S \cap OpenClients
  BY DEF MayBeEmpty, Listened, On
<1> QED BY <1>1, <1>2, <1>3, EndSessionsInv

\* A step that leaves the registry alone.
LEMMA RegistryFrame ==
  ASSUME RegistryInv, UNCHANGED registry
  PROVE  RegistryInv' /\ EndHeard /\ clients' \subseteq clients
BY DEF RegistryInv, registry, Registered, Live, DegradedIsCurrent, IsDegraded,
       CapacityRespected, EndHeard

\* No session comes or goes, and no handshake is interrupted or goes on.
LEMMA AttendedFrame ==
  ASSUME Attended, UNCHANGED clients,
         \A c \in Requests : /\ session'[c].ready = session[c].ready
                             /\ session'[c].listened = session[c].listened
                             /\ \/ req'[c] = req[c]
                                \/ /\ req[c].stage # "registering"
                                   /\ req'[c].stage # "registering"
  PROVE  Attended' /\ EndHeard
BY DEF Attended, EndHeard, Live

\* The registration of a session, within the bound if there was room for one.
LEMMA RegisterInv ==
  ASSUME RegistryInv, Attended, DOMAIN req = Requests,
         NEW r \in Requests, NEW ask, Register(r, ask), req[r].stage # "registering",
         ~HandshakeHook => ~Full
  PROVE  RegistryInv' /\ Attended' /\ EndHeard
<1>1. CASE Refuse(r) /\ UNCHANGED registry
  <2>1. \A c \in Requests : \/ req'[c] = req[c]
                            \/ /\ req[c].stage # "registering"
                               /\ req'[c].stage # "registering"
    BY <1>1 DEF Refuse, Answer, Done
  <2>2. UNCHANGED <<clients, session>>
    BY <1>1 DEF registry
  <2> QED BY <1>1, <2>1, <2>2, RegistryFrame, AttendedFrame
<1>2. CASE ~(Refuse(r) /\ UNCHANGED registry)
  <2> DEFINE transport == IF ask.ws THEN "websocket" ELSE "polling"
             now == IsDegraded(clients \cup {r})
             heard == now = degraded
             s == Created(transport, heard)
  <2>1. /\ clients' = clients \cup {r}
        /\ session' = [session EXCEPT ![r] = s]
        /\ degraded' = now
        /\ IF heard THEN Answer(r, "ok") ELSE req' = [req EXCEPT ![r] = Waiting("registering", ask)]
    BY <1>2 DEF Register
  <2>2. s \in Session /\ s.ready = "open" /\ s.listened = heard
    <3>1. transport \in {"websocket", "polling"} /\ heard \in BOOLEAN
      OBVIOUS
    <3> HIDE DEF transport, heard
    <3>2. s.ready = "open" /\ s.listened = heard
      BY DEF Created
    <3>3. s \in Session
      BY <3>1, Zenon DEF Created, Session
    <3> QED BY <3>2, <3>3
  <2>3. /\ IF heard THEN req'[r].stage = "done" ELSE req'[r].stage = "registering"
        /\ \A c \in Requests : c # r => req'[c] = req[c]
    BY <2>1 DEF Answer, Done, Waiting
  <2> HIDE DEF s, heard
  <2>4. session' \in [Requests -> Session]
    BY <2>1, <2>2 DEF RegistryInv
  <2>5. /\ session'[r] = s
        /\ \A c \in Requests : c # r => session'[c] = session[c]
    BY <2>1 DEF RegistryInv
  <2>6. Registered'
    <3>1. ASSUME NEW c \in Requests
          PROVE  c \in clients' <=>
                   Live(c)' \/ (session'[c].ready = "closed" /\ ~session'[c].listened)
      <4>1. CASE c = r
        BY <2>1, <2>2, <2>5, <4>1 DEF Live
      <4>2. CASE c # r
        BY <2>1, <2>5, <4>2 DEF RegistryInv, Registered, Live
      <4> QED BY <4>1, <4>2
    <3> QED BY <2>1, <3>1, ClientsFinite DEF Registered
  <2>7. DegradedIsCurrent'
    BY <2>1 DEF DegradedIsCurrent, IsDegraded
  <2>8. ~HandshakeHook => CapacityRespected'
    <3>1. Cardinality(clients') <= Cardinality(clients) + 1 /\ Cardinality(clients') \in Nat
      <4>1. IsFiniteSet(clients) /\ Cardinality(clients) \in Nat
        BY ClientsFinite
      <4>2. Cardinality(clients \cup {r}) =
              IF r \in clients THEN Cardinality(clients) ELSE Cardinality(clients) + 1
        BY <4>1, FS_AddElement
      <4> QED BY <2>1, <4>1, <4>2
    <3> QED BY <3>1, ClientsFinite, ServerAssumption
            DEF RegistryInv, CapacityRespected, Full
  <2>9. Attended' /\ EndHeard
    <3>1. ASSUME NEW c \in Requests
          PROVE  /\ Live(c)' /\ ~session'[c].listened => req'[c].stage = "registering"
                 /\ req'[c].stage = "registering" => c \in clients' /\ ~session'[c].listened
                 /\ Live(c) /\ session'[c].ready = "closed" =>
                      c \notin clients' \/ req[c].stage = "registering"
      <4>1. CASE c = r
        BY <2>1, <2>2, <2>3, <2>5, <4>1 DEF Live
      <4>2. CASE c # r
        BY <2>1, <2>3, <2>5, <4>2 DEF Attended, Live
      <4> QED BY <4>1, <4>2
    <3> QED BY <3>1 DEF Attended, EndHeard
  <2> QED BY <2>4, <2>6, <2>7, <2>8, <2>9 DEF RegistryInv
<1> QED BY <1>1, <1>2

\* Requests that wait carry what they asked.
Asked ==
  /\ DOMAIN req = Requests
  /\ \A r \in Requests :
       req[r].stage \in {"checking", "charged", "registering"} => req[r].ask \in Ask

\* Without a hook, no handshake is ever left between its charge and its end.
NoneCharged == ~HandshakeHook => \A r \in Requests : req[r].stage # "charged"

\* The invariant of the registry, with what it needs of the requests.
ServerInv == RegistryInv /\ Attended /\ Asked /\ NoneCharged

\* No handshake begins to wait in the hook.
NoneWaits ==
  \A r \in Requests : req'[r].stage = "charged" => req[r].stage = "charged"

\* A request that is answered does not.
LEMMA AnswerWaits ==
  ASSUME DOMAIN req = Requests, NEW r \in Requests, NEW status, Answer(r, status)
  PROVE  NoneWaits
BY DEF Answer, Done, NoneWaits

\* A request that passed its checks; once the server drains it neither
\* registers nor goes to wait in the hook.
LEMMA DispatchInv ==
  ASSUME ServerInv, NEW r \in Requests, NEW ask \in Ask, Dispatch(r, ask),
         req[r].stage # "registering"
  PROVE  /\ RegistryInv' /\ Attended' /\ EndHeard
         /\ draining => clients' \subseteq clients /\ NoneWaits
<1>0. RegistryInv /\ Attended /\ DOMAIN req = Requests
  BY DEF ServerInv, Asked
<1>1. CASE ask.kind = "handshake"
  <2>1. Handshake(r, ask)
    BY <1>1 DEF Dispatch
  <2>4. draining => Refuse(r)
    BY <2>1 DEF Handshake
  <2>2. CASE /\ UNCHANGED registry
             /\ Refuse(r) \/ req' = [req EXCEPT ![r] = Waiting("charged", ask)]
    <3>4. draining => NoneWaits
      <4>1. draining => Refuse(r)
        BY <2>1, <2>4
      <4> QED BY <1>0, <4>1, AnswerWaits DEF Refuse
    <3>1. \A c \in Requests : \/ req'[c] = req[c]
                              \/ /\ req[c].stage # "registering"
                                 /\ req'[c].stage # "registering"
      BY <1>0, <2>2 DEF Refuse, Answer, Done, Waiting
    <3>2. UNCHANGED <<clients, session>>
      BY <2>2 DEF registry
    <3> QED BY <1>0, <2>2, <3>1, <3>2, <3>4, RegistryFrame, AttendedFrame
  <2>3. CASE ~draining /\ ~Full /\ Register(r, ask)
    BY <1>0, <2>3, RegisterInv
  <2> QED BY <2>1, <2>2, <2>3 DEF Handshake
<1>2. CASE ask.kind # "handshake"
  <2>1. ToSession(r, ask) /\ UNCHANGED <<clients, degraded>>
    BY <1>2 DEF Dispatch
  <2>2. /\ session' = session \/ session' = [session EXCEPT ![ask.sid].upgrade = "upgrading"]
        /\ \E status : Answer(r, status)
    BY <2>1 DEF ToSession, Refuse
  <2>3. /\ session' \in [Requests -> Session]
        /\ \A c \in Requests : /\ session'[c].ready = session[c].ready
                               /\ session'[c].listened = session[c].listened
    BY <1>0, <2>2 DEF RegistryInv, Session
  <2>4. \A c \in Requests : \/ req'[c] = req[c]
                            \/ /\ req[c].stage # "registering"
                               /\ req'[c].stage # "registering"
    BY <1>0, <2>2 DEF Answer, Done
  <2>5. Attended' /\ EndHeard
    BY <1>0, <2>1, <2>3, <2>4, AttendedFrame
  <2>6. NoneWaits
    BY <1>0, <2>2, AnswerWaits
  <2> QED BY <1>0, <2>1, <2>3, <2>5, <2>6
          DEF RegistryInv, Registered, Live, DegradedIsCurrent, IsDegraded, CapacityRespected
<1> QED BY <1>1, <1>2

\* What a request's own step does to the requests that wait.
LEMMA AnswerInv ==
  ASSUME ServerInv, NEW r \in Requests, NEW status, Answer(r, status)
  PROVE  (Asked /\ NoneCharged)'
<1>1. req' = [req EXCEPT ![r] = Done(status)]
  BY DEF Answer
<1>0. DOMAIN req = Requests
  BY DEF ServerInv, Asked
<1>2. ASSUME NEW q \in Requests, req'[q].stage \in {"checking", "charged", "registering"}
      PROVE  req'[q] = req[q]
  BY <1>0, <1>1, <1>2 DEF Done
<1> QED BY <1>0, <1>1, <1>2 DEF ServerInv, Asked, NoneCharged

\* A request that starts to wait, and only in the hook if there is one.
LEMMA WaitingInv ==
  ASSUME ServerInv, NEW r \in Requests, NEW ask \in Ask,
         NEW stage \in {"checking", "charged", "registering"},
         req' = [req EXCEPT ![r] = Waiting(stage, ask)],
         stage = "charged" => HandshakeHook
  PROVE  (Asked /\ NoneCharged)'
<1>1. DOMAIN req = Requests /\ DOMAIN req' = Requests
  BY DEF ServerInv, Asked
<1>2. ASSUME NEW q \in Requests
      PROVE  \/ req'[q] = req[q]
             \/ req'[q].stage = stage /\ req'[q].ask = ask
  BY <1>1 DEF Waiting
<1> QED BY <1>1, <1>2 DEF ServerInv, Asked, NoneCharged

\* A handshake in its synchronous end is answered, or interrupted.
LEMMA RegisterRequest ==
  ASSUME ServerInv, NEW r \in Requests, NEW ask \in Ask, Register(r, ask)
  PROVE  (Asked /\ NoneCharged)'
<1>1. \/ \E status : Answer(r, status)
      \/ req' = [req EXCEPT ![r] = Waiting("registering", ask)]
  BY DEF Register, Refuse
<1>2. CASE \E status : Answer(r, status)
  BY <1>2, AnswerInv
<1>3. CASE req' = [req EXCEPT ![r] = Waiting("registering", ask)]
  BY <1>3, WaitingInv
<1> QED BY <1>1, <1>2, <1>3

\* Dispatch answers the request or leaves it in the hook.
LEMMA DispatchRequest ==
  ASSUME ServerInv, NEW r \in Requests, NEW ask \in Ask, Dispatch(r, ask)
  PROVE  (Asked /\ NoneCharged)'
<1>1. CASE \E status : Answer(r, status)
  BY <1>1, AnswerInv
<1>2. CASE HandshakeHook /\ req' = [req EXCEPT ![r] = Waiting("charged", ask)]
  BY <1>2, WaitingInv
<1>4. CASE Register(r, ask)
  BY <1>4, RegisterRequest
<1>3. \/ \E status : Answer(r, status)
      \/ Register(r, ask)
      \/ HandshakeHook /\ req' = [req EXCEPT ![r] = Waiting("charged", ask)]
  <2>1. CASE ask.kind = "handshake"
    <3>1. Handshake(r, ask)
      BY <2>1 DEF Dispatch
    <3> QED BY <3>1 DEF Handshake, Refuse
  <2>2. CASE ask.kind # "handshake"
    <3>1. ToSession(r, ask)
      BY <2>2 DEF Dispatch
    <3> QED BY <3>1 DEF ToSession, Refuse
  <2> QED BY <2>1, <2>2
<1> QED BY <1>1, <1>2, <1>3, <1>4

\* A step that leaves every request alone.
LEMMA RequestFrame ==
  ASSUME ServerInv, UNCHANGED req
  PROVE  (Asked /\ NoneCharged)'
BY DEF ServerInv, Asked, NoneCharged

\* The initial state.
LEMMA InitInv == Init => ServerInv
<1> SUFFICES ASSUME Init PROVE ServerInv
  OBVIOUS
<1>1. Asked /\ NoneCharged
  BY DEF Init, Asked, NoneCharged, New
<1>2. session \in [Requests -> Session] /\ clients = {} /\ degraded = FALSE
  BY DEF Init, Session
<1>3. Registered /\ Attended
  BY DEF Init, Registered, Attended, Live, New
<1>4. Cardinality(clients) = 0
  BY <1>2, FS_EmptySet
<1>5. DegradedIsCurrent
  <2>1. IsDegraded(clients) = FALSE
    BY <1>4, ServerAssumption DEF IsDegraded
  <2> QED BY <1>2, <2>1 DEF DegradedIsCurrent
<1>6. CapacityRespected
  BY <1>4, ServerAssumption DEF CapacityRespected
<1> QED BY <1>1, <1>2, <1>3, <1>5, <1>6 DEF ServerInv, RegistryInv

\* A step keeps the invariant, lets no session in once the server drains, nor
\* a handshake into the hook, and takes every session that ends out of the registry, with the one exception.
StepOK ==
  /\ ServerInv'
  /\ draining => draining' /\ clients' \subseteq clients /\ NoneWaits
  /\ EndHeard

\* Requests that are not in the last part of their handshake keep away from it.
LEMMA RequestStepOK ==
  ASSUME ServerInv, NEW r \in Requests, req[r].stage # "registering",
         UNCHANGED <<registry, draining>>,
         \/ \E status : Answer(r, status)
         \/ \E ask \in Ask : req' = [req EXCEPT ![r] = Waiting("checking", ask)]
  PROVE  StepOK
<1>1. RegistryInv /\ Attended /\ DOMAIN req = Requests
  BY DEF ServerInv, Asked
<1>2. \A c \in Requests : \/ req'[c] = req[c]
                          \/ /\ req[c].stage # "registering"
                             /\ req'[c].stage # "registering"
  BY <1>1 DEF Answer, Done, Waiting
<1>6. NoneWaits
  BY <1>1 DEF Answer, Done, Waiting, NoneWaits
<1>3. UNCHANGED <<clients, session>>
  BY DEF registry
<1>4. Attended' /\ EndHeard
  BY <1>1, <1>2, <1>3, AttendedFrame
<1>5. (Asked /\ NoneCharged)'
  BY AnswerInv, WaitingInv
<1> QED BY <1>1, <1>3, <1>4, <1>5, <1>6, RegistryFrame DEF StepOK, ServerInv

\* A step in which no request moves and sessions end, start closing or neither.
LEMMA CloseStepOK ==
  ASSUME ServerInv, UNCHANGED req, draining => draining',
         \/ \E cs, S : CloseSessions(cs, S)
         \/ \E c \in Requests : Live(c) /\ EndSessions(calls, {c}, {})
         \/ UNCHANGED registry
  PROVE  StepOK
<1>1. RegistryInv /\ Attended
  BY DEF ServerInv
<1>2. RegistryInv' /\ Attended' /\ EndHeard /\ clients' \subseteq clients
  <2>1. CASE \E cs, S : CloseSessions(cs, S)
    BY <1>1, <2>1, CloseSessionsInv
  <2>2. CASE \E c \in Requests : Live(c) /\ EndSessions(calls, {c}, {})
    <3>1. PICK c \in Requests : Live(c) /\ EndSessions(calls, {c}, {})
      BY <2>2
    <3>2. c \in LiveClients
      BY <1>1, <3>1 DEF RegistryInv, Registered, LiveClients
    <3> QED BY <1>1, <3>1, <3>2, EndSessionsInv
  <2>3. CASE UNCHANGED registry
    <3>1. UNCHANGED <<clients, session>>
      BY <2>3 DEF registry
    <3> QED BY <1>1, <2>3, <3>1, RegistryFrame, AttendedFrame
  <2> QED BY <2>1, <2>2, <2>3
<1> QED BY <1>2, RequestFrame DEF StepOK, ServerInv, NoneWaits

\* What DrainingIsFinal says of a step.
DrainsOn ==
  draining =>
    /\ draining'
    /\ \A r \in Requests : r \in clients' \ clients => req[r].stage = "charged"
    /\ NoneWaits

\* Every step preserves the invariant, and no step adds a session once the
\* server drains, unless a hook kept its handshake waiting.
LEMMA NextInv ==
  ASSUME ServerInv, [Next]_vars
  PROVE  ServerInv' /\ EndHeard /\ DrainsOn
<1>0. RegistryInv /\ Attended /\ DOMAIN req = Requests
  BY DEF ServerInv, Asked
<1>1. ASSUME NEW r \in Requests, NEW ask \in Ask, Dispatch(r, ask),
             req[r].stage # "registering"
      PROVE  StepOK
  <2>1. draining' = draining
    BY <1>1 DEF Dispatch
  <2> QED BY <1>1, <2>1, DispatchInv, DispatchRequest DEF ServerInv, StepOK
<1>2. ASSUME NEW r \in Requests, Arrive(r) PROVE StepOK
  <2>1. PICK ask \in Ask :
          \/ Refuse(r) /\ UNCHANGED <<registry, draining>>
          \/ AsyncChecks /\ req' = [req EXCEPT ![r] = Waiting("checking", ask)]
               /\ UNCHANGED <<registry, draining>>
          \/ Dispatch(r, ask)
    BY <1>2 DEF Arrive
  <2>2. req[r].stage # "registering"
    BY <1>2 DEF Arrive, New
  <2> QED BY <1>1, <2>1, <2>2, RequestStepOK DEF Refuse
<1>3. ASSUME NEW r \in Requests, Checked(r) PROVE StepOK
  BY <1>1, <1>3 DEF Checked, ServerInv, Asked
<1>4. ASSUME NEW r \in Requests, Forbidden(r) PROVE StepOK
  BY <1>4, RequestStepOK DEF Forbidden, Refuse
<1>5. ASSUME NEW r \in Requests, HookDone(r)
      PROVE  ServerInv' /\ EndHeard /\ DrainsOn
  <2>1. /\ HandshakeHook /\ Register(r, req[r].ask) /\ req[r].ask \in Ask
        /\ req[r].stage = "charged" /\ draining' = draining
    BY <1>5, ServerAssumption DEF HookDone, ServerInv, NoneCharged, Asked
  <2>2. ServerInv' /\ EndHeard
    BY <1>0, <2>1, RegisterInv, RegisterRequest DEF ServerInv
  <2>3. clients' \subseteq clients \cup {r}
    BY <2>1 DEF Register, registry
  <2>4. NoneWaits
    <3>1. \/ \E status : Answer(r, status)
          \/ req' = [req EXCEPT ![r] = Waiting("registering", req[r].ask)]
      BY <2>1 DEF Register, Refuse
    <3> QED BY <1>0, <3>1, AnswerWaits DEF Waiting, NoneWaits
  <2> QED BY <2>1, <2>2, <2>3, <2>4 DEF DrainsOn
<1>6. ASSUME NEW r \in Requests, HandshakeGoesOn(r) PROVE StepOK
  <2>1. /\ req[r].stage = "registering" /\ Answer(r, "ok")
        /\ session' = [session EXCEPT ![r].listened = Live(r)]
        /\ UNCHANGED <<clients, degraded, draining>>
    BY <1>6 DEF HandshakeGoesOn
  <2>2. r \in clients /\ session \in [Requests -> Session] /\ Live(r) \in BOOLEAN
    BY <1>0, <2>1 DEF Attended, RegistryInv, Live
  <2>3. session' \in [Requests -> Session]
    <3>1. ASSUME NEW b \in BOOLEAN PROVE [session[r] EXCEPT !.listened = b] \in Session
      BY <2>2, <3>1 DEF Session
    <3> QED BY <2>1, <2>2, <3>1
  <2>4. \A c \in Requests :
          /\ session'[c].ready = session[c].ready
          /\ c # r => session'[c] = session[c] /\ req'[c] = req[c]
    BY <1>0, <2>1, <2>2 DEF Session, Answer
  <2>5. (session'[r].listened <=> Live(r)) /\ req'[r].stage = "done"
    BY <1>0, <2>1, <2>2 DEF Session, Answer, Done
  <2>6. RegistryInv'
    <3>1. Registered'
      <4>1. ASSUME NEW c \in Requests
            PROVE  c \in clients' <=>
                     Live(c)' \/ (session'[c].ready = "closed" /\ ~session'[c].listened)
        BY <1>0, <2>1, <2>2, <2>4, <2>5 DEF RegistryInv, Registered, Live
      <4> QED BY <2>1, <4>1, ClientsFinite, <1>0 DEF Registered
    <3> QED BY <1>0, <2>1, <2>3, <3>1 DEF RegistryInv, DegradedIsCurrent, IsDegraded,
                                          CapacityRespected
  <2>7. Attended' /\ EndHeard
    BY <1>0, <2>1, <2>4, <2>5 DEF Attended, EndHeard, Live
  <2>8. (Asked /\ NoneCharged)'
    BY <2>1, AnswerInv
  <2>9. NoneWaits
    BY <1>0, <2>1, AnswerWaits
  <2> QED BY <2>1, <2>6, <2>7, <2>8, <2>9 DEF ServerInv, StepOK
<1>7. ASSUME NEW c \in Requests, SessionUpgrades(c) PROVE StepOK
  <2>1. /\ session' = [session EXCEPT ![c].upgrade = "upgraded",
                                      ![c].transport = "websocket"]
        /\ UNCHANGED <<req, clients, degraded, draining>>
    BY <1>7 DEF SessionUpgrades
  <2> DEFINE s == [session[c] EXCEPT !.upgrade = "upgraded", !.transport = "websocket"]
  <2>5. session \in [Requests -> Session] /\ session[c] \in Session
    BY <1>0 DEF RegistryInv
  <2>6. s \in Session /\ s.ready = session[c].ready /\ s.listened = session[c].listened
    BY <2>5 DEF Session
  <2>7. session' = [session EXCEPT ![c] = s]
    BY <2>1, <2>5
  <2> HIDE DEF s
  <2>2. /\ session' \in [Requests -> Session]
        /\ \A d \in Requests : /\ session'[d].ready = session[d].ready
                               /\ session'[d].listened = session[d].listened
    BY <2>5, <2>6, <2>7
  <2>3. RegistryInv'
    BY <1>0, <2>1, <2>2 DEF RegistryInv, Registered, Live, DegradedIsCurrent,
                            IsDegraded, CapacityRespected
  <2>4. Attended' /\ EndHeard
    BY <1>0, <2>1, <2>2, AttendedFrame
  <2> QED BY <2>1, <2>3, <2>4, RequestFrame DEF ServerInv, StepOK, NoneWaits
<1>8. ASSUME NEW c \in Requests, SessionEnds(c) \/ SessionClose(c) PROVE StepOK
  BY <1>8, CloseStepOK DEF SessionEnds, SessionClose
<1>9. ASSUME NEW k \in Calls,
             Shutdown(k) \/ CloseAll(k) \/ Reach(k) \/ ShutdownTimeout(k)
      PROVE  StepOK
  <2>1. \/ \E cs, S : CloseSessions(cs, S)
        \/ UNCHANGED registry
    BY <1>9 DEF Shutdown, CloseAll, Begin, Reach, ShutdownTimeout
  <2>2. UNCHANGED req /\ (draining => draining')
    BY <1>9 DEF Shutdown, CloseAll, Begin, Reach, ShutdownTimeout
  <2> QED BY <2>1, <2>2, CloseStepOK
<1>10. ASSUME Refill \/ Return \/ UNCHANGED vars PROVE StepOK
  <2>1. UNCHANGED <<req, registry, draining>>
    BY <1>10 DEF Refill, Return, vars
  <2> QED BY <2>1, CloseStepOK
<1>11. StepOK => ServerInv' /\ EndHeard /\ DrainsOn
  BY DEF StepOK, DrainsOn
<1> QED BY <1>2, <1>3, <1>4, <1>5, <1>6, <1>7, <1>8, <1>9, <1>10, <1>11 DEF Next

-----------------------------------------------------------------------------
(* The results *)

\* The invariant holds in every state.
THEOREM ServerInvariant == Spec => []ServerInv
<1>1. ServerInv /\ [Next]_vars => ServerInv'
  BY NextInv
<1> QED BY <1>1, InitInv, PTL DEF Spec

\* The registry is the set of the sessions that live and of those that ended
\* before their handshake listened to them.
THEOREM RegistryIsExact == Spec => []Registered
<1>1. ServerInv => Registered
  BY DEF ServerInv, RegistryInv
<1> QED BY <1>1, ServerInvariant, PTL

\* A session that ends leaves the registry in the same step, unless a listener
\* of "degradation" ends it from within its own handshake.
THEOREM EndsAreHeard == Spec => EndIsHeard
<1>1. ServerInv /\ [Next]_vars =>
        [\A c \in Requests :
           Live(c) /\ session'[c].ready = "closed" =>
             c \notin clients' \/ req[c].stage = "registering"]_vars
  BY NextInv DEF EndHeard
<1> QED BY <1>1, ServerInvariant, PTL DEF Spec, EndIsHeard

\* The degradation flag is never stale.
THEOREM FlagIsCurrent == Spec => []DegradedIsCurrent
<1>1. ServerInv => DegradedIsCurrent
  BY DEF ServerInv, RegistryInv
<1> QED BY <1>1, ServerInvariant, PTL

\* Unless editHandshakeHeaders awaits, maxClients is never exceeded.
THEOREM CapacityHolds == ~HandshakeHook => (Spec => []CapacityRespected)
<1> SUFFICES ASSUME ~HandshakeHook PROVE Spec => []CapacityRespected
  OBVIOUS
<1>1. ServerInv => CapacityRespected
  BY DEF ServerInv, RegistryInv
<1> QED BY <1>1, ServerInvariant, PTL

\* Once shutdown() is called no session is let in, nor a handshake into the
\* hook: only those that waited there may still register.
THEOREM DrainingHolds == Spec => DrainingIsFinal
<1>1. ServerInv /\ [Next]_vars =>
        [draining =>
           /\ draining'
           /\ \A r \in Requests :
                /\ r \in clients' \ clients => req[r].stage = "charged"
                /\ req'[r].stage = "charged" => req[r].stage = "charged"]_vars
  BY NextInv DEF DrainsOn, NoneWaits
<1> QED BY <1>1, ServerInvariant, PTL DEF Spec, DrainingIsFinal
=============================================================================
