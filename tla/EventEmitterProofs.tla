------------------------- MODULE EventEmitterProofs -------------------------
(***************************************************************************)
(* What holds of an emitter for any events, functions and depth of calls.  *)
(***************************************************************************)
EXTENDS EventEmitter, SequenceTheorems, TLAPS

Wrapper == [event : Events, runs : Nat]

\* The wrappers in a list of e are e's, each there once.
Sound(w, list, e) ==
  /\ list \in Seq(Listener)
  /\ \A i \in 1 .. Len(list) : list[i].once # 0 =>
       /\ list[i].once \in 1 .. Len(w) /\ w[list[i].once].event = e
       /\ \A j \in 1 .. Len(list) : list[j].once = list[i].once => j = i

\* From position m on, they have not run.
Unspent(w, list, m) ==
  \A i \in 1 .. Len(list) : i >= m /\ list[i].once # 0 => w[list[i].once].runs = 0

ListsOK(w, ls) ==
  /\ DOMAIN ls \subseteq Events
  /\ \A e \in DOMAIN ls : ls[e] # <<>> /\ Sound(w, ls[e], e) /\ Unspent(w, ls[e], 1)

FrameOK(w, frame) ==
  /\ Sound(w, frame.snapshot, frame.event)
  /\ frame.next \in 1 .. Len(frame.snapshot) + 1
  /\ frame.called = SubSeq(frame.snapshot, 1, frame.next - 1)

FramesOK(w, fs) == fs \in Seq(Frame) /\ \A k \in 1 .. Len(fs) : FrameOK(w, fs[k])

\* An event that was never emitted within itself has one emit under way at
\* most, with nothing ahead of it that has run.
AloneOK(w, fs, R) ==
  \A k \in 1 .. Len(fs) : fs[k].event \notin R =>
    /\ Unspent(w, fs[k].snapshot, fs[k].next)
    /\ \A j \in 1 .. Len(fs) : fs[j].event = fs[k].event => j = k

RunsOK(w, R) ==
  w \in Seq(Wrapper) /\ \A n \in 1 .. Len(w) : w[n].event \notin R => w[n].runs <= 1

EmitterInv ==
  /\ ListsOK(wrappers, listeners)
  /\ FramesOK(wrappers, emits)
  /\ AloneOK(wrappers, emits, reentered)
  /\ RunsOK(wrappers, reentered)
  /\ reentered \subseteq Events

-----------------------------------------------------------------------------
(* Lists *)

\* r is made of some positions of list, each used once.
Picks(r, list, s) ==
  /\ s \in [1 .. Len(r) -> 1 .. Len(list)]
  /\ \A k \in 1 .. Len(r) : r[k] = list[s[k]]
  /\ \A k, l \in 1 .. Len(r) : s[k] = s[l] => k = l

\* If there is one position to remove, it is not among them.
Omits(r, s, P) == \A m \in P : P = {m} => \A k \in 1 .. Len(r) : s[k] # m

\* The list without an entry is made of others.
LEMMA WithoutFirstPicks ==
  ASSUME NEW list \in Seq(Listener), NEW P \in SUBSET (1 .. Len(list))
  PROVE  LET r == WithoutFirst(list, P) IN
         /\ r \in Seq(Listener)
         /\ \E s : Picks(r, list, s) /\ Omits(r, s, P)
<1>1. CASE P = {}
  <2> DEFINE s == [k \in 1 .. Len(list) |-> k]
  <2>1. WithoutFirst(list, P) = list
    BY <1>1 DEF WithoutFirst
  <2>2. Picks(list, list, s)
    BY DEF Picks
  <2>3. Omits(list, s, P)
    BY <1>1 DEF Omits
  <2> HIDE DEF s
  <2> QED BY <2>1, <2>2, <2>3
<1>2. CASE P # {}
  <2> DEFINE r == [k \in 1 .. Len(list) - 1 |->
                     IF \E i \in P : i <= k THEN list[k + 1] ELSE list[k]]
             s == [k \in 1 .. Len(list) - 1 |-> IF \E i \in P : i <= k THEN k + 1 ELSE k]
  <2>1. PICK p : p \in P
    BY <1>2
  <2>2. Len(list) \in Nat /\ Len(list) - 1 \in Nat
    BY <2>1
  <2>3. WithoutFirst(list, P) = r
    BY <1>2 DEF WithoutFirst
  <2>4. \A k \in 1 .. Len(list) - 1 : s[k] \in 1 .. Len(list) /\ r[k] = list[s[k]]
    BY <2>2
  <2>5. r \in [1 .. Len(list) - 1 -> Listener]
    BY <2>2, <2>4
  <2>6. r \in Seq(Listener) /\ Len(r) = Len(list) - 1
    BY <2>2, <2>5
  <2>7. \A k, l \in 1 .. Len(list) - 1 : s[k] = s[l] => k = l
    BY <2>2
  <2>8. \A m : P = {m} => \A k \in 1 .. Len(list) - 1 : s[k] # m
    BY <2>2
  <2>9. s \in [1 .. Len(r) -> 1 .. Len(list)]
    BY <2>4, <2>6
  <2> HIDE DEF r, s
  <2>10. Picks(r, list, s)
    BY <2>4, <2>6, <2>7, <2>9 DEF Picks
  <2>11. Omits(r, s, P)
    BY <2>6, <2>8 DEF Omits
  <2> QED BY <2>3, <2>6, <2>10, <2>11
<1> QED BY <1>1, <1>2

\* Removing an entry keeps a list sound and unspent.
LEMMA SoundWithout ==
  ASSUME NEW w \in Seq(Wrapper), NEW list, NEW e, NEW P \in SUBSET (1 .. Len(list)),
         Sound(w, list, e), Unspent(w, list, 1)
  PROVE  LET r == WithoutFirst(list, P) IN Sound(w, r, e) /\ Unspent(w, r, 1)
<1> DEFINE r == WithoutFirst(list, P)
<1>1. list \in Seq(Listener)
  BY DEF Sound
<1>2. PICK s : r \in Seq(Listener) /\ Picks(r, list, s)
  BY <1>1, WithoutFirstPicks
<1> HIDE DEF r
<1>3. \A k \in 1 .. Len(r) : s[k] \in 1 .. Len(list) /\ r[k] = list[s[k]]
  BY <1>2 DEF Picks
<1>4. \A k, l \in 1 .. Len(r) : r[k].once # 0 /\ r[l].once = r[k].once => l = k
  <2>1. TAKE k, l \in 1 .. Len(r)
  <2>2. HAVE r[k].once # 0 /\ r[l].once = r[k].once
  <2>3. /\ s[k] \in 1 .. Len(list) /\ s[l] \in 1 .. Len(list)
        /\ list[s[k]].once # 0 /\ list[s[l]].once = list[s[k]].once
    BY <1>3, <2>2
  <2>4. s[l] = s[k]
    BY <2>3 DEF Sound
  <2> QED BY <1>2, <2>4 DEF Picks
<1>5. Sound(w, r, e)
  <2>1. ASSUME NEW k \in 1 .. Len(r), r[k].once # 0
        PROVE  r[k].once \in 1 .. Len(w) /\ w[r[k].once].event = e
    <3>1. s[k] \in 1 .. Len(list) /\ r[k] = list[s[k]]
      BY <1>3
    <3> QED BY <2>1, <3>1 DEF Sound
  <2>2. r \in Seq(Listener)
    BY <1>2
  <2> QED BY <1>4, <2>1, <2>2 DEF Sound
<1>6. Unspent(w, r, 1)
  <2>1. ASSUME NEW k \in 1 .. Len(r), r[k].once # 0
        PROVE  w[r[k].once].runs = 0
    <3>1. s[k] \in 1 .. Len(list) /\ r[k] = list[s[k]]
      BY <1>3
    <3>2. s[k] >= 1
      BY <1>1, <3>1
    <3> QED BY <2>1, <3>1, <3>2 DEF Unspent
  <2> QED BY <2>1 DEF Unspent
<1> QED BY <1>5, <1>6 DEF r

\* A wrapper that removes itself is gone from the list.
LEMMA GoneAfterWithout ==
  ASSUME NEW w \in Seq(Wrapper), NEW list, NEW e, NEW x \in Listener,
         Sound(w, list, e), x.once # 0
  PROVE  LET r == WithoutFirst(list, Positions(list, x)) IN
         \A k \in 1 .. Len(r) : r[k].once # x.once
<1> DEFINE P == Positions(list, x)
           r == WithoutFirst(list, P)
<1>1. list \in Seq(Listener)
  BY DEF Sound
<1>2. P \in SUBSET (1 .. Len(list))
  BY <1>1 DEF Positions
<1>3. \A i, j \in P : i = j
  <2> SUFFICES ASSUME NEW i \in P, NEW j \in P
               PROVE  i = j
    OBVIOUS
  <2>1. /\ i \in 1 .. Len(list) /\ j \in 1 .. Len(list)
        /\ list[i].once = x.once /\ list[j].once = x.once
    BY <1>1 DEF Positions
  <2> HIDE DEF P
  <2> QED BY <2>1 DEF Sound
<1> HIDE DEF P
<1>4. PICK s : r \in Seq(Listener) /\ Picks(r, list, s) /\ Omits(r, s, P)
  BY <1>1, <1>2, WithoutFirstPicks
<1> HIDE DEF r
<1>5. ASSUME NEW k \in 1 .. Len(r), r[k].once = x.once
      PROVE  FALSE
  <2>1. s[k] \in 1 .. Len(list) /\ list[s[k]].once = x.once
    BY <1>4, <1>5 DEF Picks
  <2>2. s[k] \in P
    BY <1>1, <2>1 DEF Positions, P
  <2>3. P = {s[k]}
    BY <1>3, <2>2
  <2> QED BY <1>4, <2>2, <2>3 DEF Omits
<1> QED BY <1>5 DEF r, P

\* v knows w's wrappers, and perhaps more.
Knows(v, w) ==
  /\ w \in Seq(Wrapper) /\ v \in Seq(Wrapper) /\ Len(w) <= Len(v)
  /\ \A n \in 1 .. Len(w) : v[n].event = w[n].event

\* What happens to wrappers leaves lists sound.
LEMMA SoundKnows ==
  ASSUME NEW w, NEW v, NEW list, NEW e, Knows(v, w), Sound(w, list, e)
  PROVE  Sound(v, list, e)
BY DEF Knows, Sound

\* And frames.
LEMMA FramesKnow ==
  ASSUME NEW w, NEW v, NEW fs, Knows(v, w), FramesOK(w, fs)
  PROVE  FramesOK(v, fs)
BY SoundKnows DEF FramesOK, FrameOK

\* The list of an event.
LEMMA ListOfOK ==
  ASSUME NEW e \in Events, NEW w \in Seq(Wrapper), ListsOK(w, listeners)
  PROVE  /\ ListOf(e) \in Seq(Listener)
         /\ Sound(w, ListOf(e), e) /\ Unspent(w, ListOf(e), 1)
<1>1. CASE e \in DOMAIN listeners
  BY <1>1 DEF ListOf, ListsOK, Sound
<1>2. CASE e \notin DOMAIN listeners
  BY <1>2 DEF ListOf, Sound, Unspent
<1> QED BY <1>1, <1>2

\* A new list for one event.
LEMMA SetListOK ==
  ASSUME NEW w, NEW e \in Events, NEW list, SetList(e, list),
         Sound(w, list, e), Unspent(w, list, 1), DOMAIN listeners \subseteq Events,
         \A d \in DOMAIN listeners \ {e} :
           listeners[d] # <<>> /\ Sound(w, listeners[d], d) /\ Unspent(w, listeners[d], 1)
  PROVE  ListsOK(w, listeners')
<1> DEFINE D == IF list = <<>> THEN DOMAIN listeners \ {e} ELSE DOMAIN listeners \cup {e}
<1>1. listeners' = [d \in D |-> IF d = e THEN list ELSE listeners[d]]
  BY DEF SetList
<1>2. DOMAIN listeners' = D /\ D \subseteq Events
  BY <1>1
<1>3. ASSUME NEW d \in D
      PROVE  listeners'[d] # <<>> /\ Sound(w, listeners'[d], d) /\ Unspent(w, listeners'[d], 1)
  <2>1. CASE d = e
    BY <1>1, <2>1
  <2>2. CASE d # e
    BY <1>1, <2>2
  <2> QED BY <2>1, <2>2
<1> QED BY <1>2, <1>3 DEF ListsOK

-----------------------------------------------------------------------------
(* Calls of the application *)

\* on and once: a new entry, with a wrapper of its own or none.
LEMMA AddInv ==
  ASSUME EmitterInv, NEW e \in Events, NEW x \in Listener, Add(e, x),
         Knows(wrappers', wrappers), RunsOK(wrappers', reentered),
         \A n \in 1 .. Len(wrappers) : wrappers'[n].runs = wrappers[n].runs,
         x.once # 0 => /\ x.once \in 1 .. Len(wrappers') /\ x.once \notin 1 .. Len(wrappers)
                       /\ wrappers'[x.once].event = e /\ wrappers'[x.once].runs = 0
  PROVE  EmitterInv'
<1> DEFINE L == ListOf(e)
           A == Append(L, x)
<1>1. wrappers \in Seq(Wrapper) /\ wrappers' \in Seq(Wrapper)
  BY DEF Knows
<1>2. L \in Seq(Listener) /\ Sound(wrappers, L, e) /\ Unspent(wrappers, L, 1)
  BY <1>1, ListOfOK DEF EmitterInv
<1>3. SetList(e, A) /\ emits' = emits /\ reentered' = reentered
  BY DEF Add
<1> HIDE DEF L
<1>4. A \in Seq(Listener) /\ Len(A) = Len(L) + 1
      /\ \A i \in 1 .. Len(A) : A[i] = IF i = Len(L) + 1 THEN x ELSE L[i]
  BY <1>2
<1> HIDE DEF A
<1>5. ASSUME NEW d, NEW list, Sound(wrappers, list, d), Unspent(wrappers, list, 1)
      PROVE  Sound(wrappers', list, d) /\ Unspent(wrappers', list, 1)
  <2>1. Sound(wrappers', list, d)
    BY <1>5, SoundKnows
  <2>2. \A i \in 1 .. Len(list) : list[i].once # 0 =>
          wrappers'[list[i].once].runs = wrappers[list[i].once].runs
    BY <1>5 DEF Sound
  <2> QED BY <1>5, <2>1, <2>2 DEF Unspent
<1>6. Sound(wrappers', A, e)
  <2>1. \A i \in 1 .. Len(L) : L[i].once # 0 => L[i].once \in 1 .. Len(wrappers)
    BY <1>2 DEF Sound
  <2>2. \A i \in 1 .. Len(L) : x.once # 0 => L[i].once # x.once
    BY <2>1
  <2>3. Sound(wrappers', L, e)
    BY <1>2, <1>5
  <2>4. \A i \in 1 .. Len(A) : A[i] = x \/ (i \in 1 .. Len(L) /\ A[i] = L[i])
    BY <1>2, <1>4
  <2>5. ASSUME NEW i \in 1 .. Len(A), A[i].once # 0
        PROVE  A[i].once \in 1 .. Len(wrappers') /\ wrappers'[A[i].once].event = e
    BY <2>3, <2>4, <2>5 DEF Sound
  <2>6. ASSUME NEW i \in 1 .. Len(A), NEW j \in 1 .. Len(A),
               A[i].once # 0, A[j].once = A[i].once
        PROVE  j = i
    <3>1. CASE i \in 1 .. Len(L) /\ j \in 1 .. Len(L)
      <4>1. L[i].once # 0 /\ L[j].once = L[i].once
        BY <1>2, <1>4, <2>6, <3>1
      <4> QED BY <1>2, <3>1, <4>1 DEF Sound
    <3>2. CASE i = Len(L) + 1 /\ j = Len(L) + 1
      BY <3>2
    <3>3. CASE (i \in 1 .. Len(L) /\ j = Len(L) + 1) \/ (i = Len(L) + 1 /\ j \in 1 .. Len(L))
      BY <1>2, <1>4, <2>2, <2>6, <3>3
    <3> QED BY <1>2, <1>4, <3>1, <3>2, <3>3
  <2> QED BY <1>4, <2>5, <2>6 DEF Sound
<1>7. Unspent(wrappers', A, 1)
  BY <1>2, <1>4, <1>5 DEF Unspent
<1>8. ListsOK(wrappers', listeners')
  <2>1. \A d \in DOMAIN listeners \ {e} :
          listeners[d] # <<>> /\ Sound(wrappers', listeners[d], d)
            /\ Unspent(wrappers', listeners[d], 1)
    BY <1>5 DEF EmitterInv, ListsOK
  <2>2. DOMAIN listeners \subseteq Events
    BY DEF EmitterInv, ListsOK
  <2> QED BY <1>3, <1>6, <1>7, <2>1, <2>2, SetListOK
<1>9. FramesOK(wrappers', emits')
  BY <1>3, FramesKnow DEF EmitterInv
<1>10. AloneOK(wrappers', emits', reentered')
  <2>1. ASSUME NEW k \in 1 .. Len(emits), Unspent(wrappers, emits[k].snapshot, emits[k].next)
        PROVE  Unspent(wrappers', emits[k].snapshot, emits[k].next)
    <3>1. Sound(wrappers, emits[k].snapshot, emits[k].event)
      BY DEF EmitterInv, FramesOK, FrameOK
    <3> QED BY <2>1, <3>1 DEF Sound, Unspent
  <2> QED BY <1>3, <2>1 DEF EmitterInv, AloneOK
<1> QED BY <1>3, <1>8, <1>9, <1>10 DEF EmitterInv

\* Removing listeners, one or all of an event or of all.
LEMMA RemoveInv ==
  ASSUME EmitterInv, UNCHANGED <<emits, wrappers, reentered>>, ListsOK(wrappers, listeners')
  PROVE  EmitterInv'
BY DEF EmitterInv

LEMMA OffInv ==
  ASSUME EmitterInv, NEW e \in Events, NEW f \in Callbacks, Off(e, f)
  PROVE  EmitterInv'
<1> DEFINE L == ListOf(e)
           P == {i \in DOMAIN L : L[i].fn = f}
<1>1. wrappers \in Seq(Wrapper) /\ DOMAIN listeners \subseteq Events
  BY DEF EmitterInv, RunsOK, ListsOK
<1>2. L \in Seq(Listener) /\ Sound(wrappers, L, e) /\ Unspent(wrappers, L, 1)
  BY <1>1, ListOfOK DEF EmitterInv
<1>3. SetList(e, WithoutFirst(L, P)) /\ UNCHANGED <<emits, wrappers, reentered>>
  BY DEF Off
<1> HIDE DEF L
<1>4. P \in SUBSET (1 .. Len(L))
  BY <1>2
<1> HIDE DEF P
<1>5. Sound(wrappers, WithoutFirst(L, P), e) /\ Unspent(wrappers, WithoutFirst(L, P), 1)
  BY <1>1, <1>2, <1>4, SoundWithout
<1>6. \A d \in DOMAIN listeners \ {e} :
        listeners[d] # <<>> /\ Sound(wrappers, listeners[d], d) /\ Unspent(wrappers, listeners[d], 1)
  BY DEF EmitterInv, ListsOK
<1>7. ListsOK(wrappers, listeners')
  BY <1>1, <1>3, <1>5, <1>6, SetListOK
<1> QED BY <1>3, <1>7, RemoveInv

LEMMA OffAllInv ==
  ASSUME EmitterInv, NEW E, OffAll(E)
  PROVE  EmitterInv'
<1>1. listeners' = [d \in DOMAIN listeners \ E |-> listeners[d]]
  BY DEF OffAll
<1>2. ListsOK(wrappers, listeners')
  BY <1>1 DEF EmitterInv, ListsOK
<1> QED BY <1>2, RemoveInv DEF OffAll

LEMMA EmitInv ==
  ASSUME EmitterInv, NEW e \in Events, Emit(e)
  PROVE  EmitterInv'
<1> DEFINE K == Len(emits)
           frame == [event |-> e, snapshot |-> listeners[e], next |-> 1, called |-> <<>>]
           R == reentered \cup {d \in {e} : \E k \in DOMAIN emits : emits[k].event = d}
<1>1. /\ e \in DOMAIN listeners /\ emits' = Append(emits, frame)
      /\ reentered' = R /\ UNCHANGED <<listeners, wrappers>>
  BY DEF Emit
<1>2. emits \in Seq(Frame) /\ K \in Nat /\ R \subseteq Events
  BY DEF EmitterInv, FramesOK
<1>3. Sound(wrappers, listeners[e], e) /\ Unspent(wrappers, listeners[e], 1)
  BY <1>1 DEF EmitterInv, ListsOK
<1>4. frame \in Frame /\ FrameOK(wrappers, frame)
  <2>1. listeners[e] \in Seq(Listener)
    BY <1>3 DEF Sound
  <2>2. Len(listeners[e]) \in Nat /\ SubSeq(listeners[e], 1, 0) = <<>>
    BY <2>1
  <2> QED BY <1>3, <2>1, <2>2 DEF Frame, FrameOK
<1> HIDE DEF frame
<1>5. /\ emits' \in Seq(Frame) /\ Len(emits') = K + 1
      /\ \A k \in 1 .. K + 1 : emits'[k] = IF k = K + 1 THEN frame ELSE emits[k]
  BY <1>1, <1>2, <1>4
<1>6. frame.event = e /\ frame.snapshot = listeners[e] /\ frame.next = 1
  BY DEF frame
<1>7. FramesOK(wrappers, emits')
  BY <1>4, <1>5, <1>2 DEF EmitterInv, FramesOK
<1>8. AloneOK(wrappers, emits', R)
  <2> SUFFICES ASSUME NEW k \in 1 .. K + 1, emits'[k].event \notin R
               PROVE  /\ Unspent(wrappers, emits'[k].snapshot, emits'[k].next)
                      /\ \A j \in 1 .. K + 1 : emits'[j].event = emits'[k].event => j = k
    BY <1>5 DEF AloneOK
  <2>1. \A j \in 1 .. K : emits[j].event = e => e \in R
    BY <1>2
  <2>2. CASE k = K + 1
    BY <1>2, <1>3, <1>5, <1>6, <2>1, <2>2
  <2>3. CASE k # K + 1
    <3>1. k \in 1 .. K /\ emits'[k] = emits[k] /\ emits[k].event \notin reentered
      BY <1>2, <1>5, <2>3
    <3>2. emits[k].event # e
      BY <2>1, <3>1
    <3> QED BY <1>2, <1>5, <1>6, <3>1, <3>2 DEF EmitterInv, AloneOK
  <2> QED BY <2>2, <2>3
<1>9. RunsOK(wrappers, R)
  BY DEF EmitterInv, RunsOK
<1> HIDE DEF R
<1> QED BY <1>1, <1>2, <1>7, <1>8, <1>9 DEF EmitterInv

-----------------------------------------------------------------------------
(* An emit under way *)

\* All but the last.
LEMMA FrontOK ==
  ASSUME NEW S, NEW e \in Seq(S), e # <<>>
  PROVE  /\ Front(e) \in Seq(S) /\ Len(Front(e)) = Len(e) - 1
         /\ \A k \in 1 .. Len(e) - 1 : Front(e)[k] = e[k]
<1>1. Len(e) \in Nat /\ Len(e) - 1 \in Nat /\ Len(e) - 1 \in 0 .. Len(e)
  BY EmptySeq
<1>2. Front(e) = [k \in 1 .. Len(e) - 1 |-> e[k]]
  BY <1>1, SubSeqRestrict DEF Front, Restrict
<1>3. \A k \in 1 .. Len(e) - 1 : e[k] \in S
  BY <1>1, ElementOfSeq
<1>4. Front(e) \in [1 .. Len(e) - 1 -> S]
  BY <1>2, <1>3
<1>5. Front(e) \in Seq(S) /\ Len(Front(e)) = Len(e) - 1
  BY <1>1, <1>4
<1> QED BY <1>2, <1>5

\* An emit ends, however it does.
LEMMA PopInv ==
  ASSUME EmitterInv, emits # <<>>, emits' = Front(emits),
         UNCHANGED <<listeners, wrappers, reentered>>
  PROVE  EmitterInv'
<1> DEFINE K == Len(emits)
<1>1. emits \in Seq(Frame) /\ K \in Nat /\ K > 0
  BY DEF EmitterInv, FramesOK
<1>2. emits' \in Seq(Frame) /\ Len(emits') = K - 1 /\ \A k \in 1 .. K - 1 : emits'[k] = emits[k]
  BY <1>1, FrontOK
<1>3. listeners' = listeners /\ wrappers' = wrappers /\ reentered' = reentered
  OBVIOUS
<1>4. FramesOK(wrappers, emits')
  BY <1>1, <1>2 DEF EmitterInv, FramesOK
<1>5. AloneOK(wrappers, emits', reentered)
  BY <1>1, <1>2 DEF EmitterInv, AloneOK
<1> QED BY <1>3, <1>4, <1>5 DEF EmitterInv

\* A wrapper runs: it is known as before, and only its own count changes.
LEMMA RanKnows ==
  ASSUME wrappers \in Seq(Wrapper), NEW n \in 1 .. Len(wrappers)
  PROVE  /\ Knows(Ran(n), wrappers) /\ Len(Ran(n)) = Len(wrappers)
         /\ wrappers[n].runs \in Nat /\ Ran(n)[n].runs = wrappers[n].runs + 1
         /\ \A m \in 1 .. Len(wrappers) : m # n => Ran(n)[m] = wrappers[m]
<1> DEFINE x == [wrappers[n] EXCEPT !.runs = @ + 1]
<1>1. wrappers[n] \in Wrapper
  OBVIOUS
<1>2. /\ x \in Wrapper /\ x.event = wrappers[n].event
      /\ wrappers[n].runs \in Nat /\ x.runs = wrappers[n].runs + 1
  BY <1>1 DEF Wrapper
<1>3. Ran(n) = [wrappers EXCEPT ![n] = x]
  BY DEF Ran
<1> HIDE DEF x
<1>4. /\ Ran(n) \in Seq(Wrapper) /\ Len(Ran(n)) = Len(wrappers)
      /\ \A m \in 1 .. Len(wrappers) : Ran(n)[m] = IF m = n THEN x ELSE wrappers[m]
  BY <1>2, <1>3
<1> HIDE DEF Ran
<1> QED BY <1>2, <1>4 DEF Knows

\* What calling x leaves of the lists.
LEMMA EnterLists ==
  ASSUME EmitterInv, NEW e \in Events, NEW x \in Listener, Enter(e, x),
         x.once # 0, x.once \in 1 .. Len(wrappers), wrappers[x.once].event = e
  PROVE  ListsOK(wrappers', listeners')
<1> DEFINE L == ListOf(e)
           r == WithoutFirst(L, Positions(L, x))
<1>1. wrappers \in Seq(Wrapper) /\ DOMAIN listeners \subseteq Events
  BY DEF EmitterInv, RunsOK, ListsOK
<1>2. L \in Seq(Listener) /\ Sound(wrappers, L, e) /\ Unspent(wrappers, L, 1)
  BY <1>1, ListOfOK DEF EmitterInv
<1>3. SetList(e, r) /\ wrappers' = Ran(x.once)
  BY DEF Enter
<1>4. /\ Knows(wrappers', wrappers)
      /\ \A m \in 1 .. Len(wrappers) : m # x.once => wrappers'[m] = wrappers[m]
  BY <1>1, <1>3, RanKnows
<1> HIDE DEF L
<1>5. Positions(L, x) \in SUBSET (1 .. Len(L))
  BY <1>2 DEF Positions
<1>6. Sound(wrappers, r, e) /\ Unspent(wrappers, r, 1)
  BY <1>1, <1>2, <1>5, SoundWithout
<1>7. \A k \in 1 .. Len(r) : r[k].once # x.once
  BY <1>1, <1>2, GoneAfterWithout
<1> HIDE DEF r
<1>8. ASSUME NEW d, NEW list, Sound(wrappers, list, d), Unspent(wrappers, list, 1),
             \A k \in 1 .. Len(list) : list[k].once # x.once
      PROVE  Sound(wrappers', list, d) /\ Unspent(wrappers', list, 1)
  <2>1. Sound(wrappers', list, d)
    BY <1>4, <1>8, SoundKnows
  <2>2. Unspent(wrappers', list, 1)
    BY <1>4, <1>8 DEF Sound, Unspent
  <2> QED BY <2>1, <2>2
<1>9. \A d \in DOMAIN listeners \ {e} :
        listeners[d] # <<>> /\ Sound(wrappers', listeners[d], d) /\ Unspent(wrappers', listeners[d], 1)
  <2> SUFFICES ASSUME NEW d \in DOMAIN listeners \ {e}
               PROVE  /\ listeners[d] # <<>>
                      /\ Sound(wrappers', listeners[d], d)
                      /\ Unspent(wrappers', listeners[d], 1)
    OBVIOUS
  <2>1. listeners[d] # <<>> /\ Sound(wrappers, listeners[d], d) /\ Unspent(wrappers, listeners[d], 1)
    BY DEF EmitterInv, ListsOK
  <2>2. \A k \in 1 .. Len(listeners[d]) : listeners[d][k].once # x.once
    BY <2>1 DEF Sound
  <2> QED BY <1>8, <2>1, <2>2
<1>10. Sound(wrappers', r, e) /\ Unspent(wrappers', r, 1)
  BY <1>6, <1>7, <1>8
<1> QED BY <1>1, <1>3, <1>9, <1>10, SetListOK

\* A frame with its progress changed.
Moved(frame, n, c) == [frame EXCEPT !.next = n, !.called = c]

LEMMA MovedFrame ==
  ASSUME NEW frame \in Frame, NEW n \in Nat \ {0}, NEW c \in Seq(Listener)
  PROVE  /\ Moved(frame, n, c) \in Frame /\ Moved(frame, n, c).event = frame.event
         /\ Moved(frame, n, c).snapshot = frame.snapshot
         /\ Moved(frame, n, c).next = n /\ Moved(frame, n, c).called = c
BY DEF Moved, Frame

\* One more element of a sequence.
LEMMA NextElement ==
  ASSUME NEW s \in Seq(Listener), NEW n \in 1 .. Len(s)
  PROVE  Append(SubSeq(s, 1, n - 1), s[n]) = SubSeq(s, 1, n)
OBVIOUS

\* The emit moves on by one listener.
LEMMA AdvanceOK ==
  ASSUME NEW w, NEW frame \in Frame, FrameOK(w, frame),
         frame.next <= Len(frame.snapshot)
  PROVE  LET moved == Advance(frame, frame.snapshot[frame.next]) IN
         /\ moved \in Frame /\ FrameOK(w, moved)
         /\ moved.event = frame.event /\ moved.snapshot = frame.snapshot
         /\ moved.next = frame.next + 1
<1> DEFINE s == frame.snapshot
           n == frame.next
           c == Append(frame.called, s[n])
           moved == Advance(frame, s[n])
<1>1. /\ s \in Seq(Listener) /\ n \in 1 .. Len(s) /\ Len(s) \in Nat
      /\ n + 1 \in Nat \ {0} /\ frame.called \in Seq(Listener)
  BY DEF Frame, FrameOK
<1>2. c = SubSeq(s, 1, n)
  BY <1>1, NextElement DEF FrameOK
<1>3. c \in Seq(Listener)
  BY <1>1
<1>4. moved = Moved(frame, n + 1, c)
  BY DEF Advance, Moved
<1> HIDE DEF s, n, c, moved
<1>5. /\ moved \in Frame /\ moved.event = frame.event
      /\ moved.snapshot = s /\ moved.next = n + 1 /\ moved.called = c
  <2>1. frame \in Frame /\ n + 1 \in Nat \ {0} /\ c \in Seq(Listener)
    BY <1>1, <1>3
  <2>2. /\ Moved(frame, n + 1, c) \in Frame /\ Moved(frame, n + 1, c).event = frame.event
        /\ Moved(frame, n + 1, c).snapshot = frame.snapshot
        /\ Moved(frame, n + 1, c).next = n + 1 /\ Moved(frame, n + 1, c).called = c
    BY <2>1, MovedFrame
  <2> QED BY <1>4, <2>2 DEF s
<1>6. FrameOK(w, moved)
  BY <1>1, <1>2, <1>5 DEF FrameOK, s, n
<1> QED BY <1>5, <1>6 DEF moved, s, n

\* A listener is called.
LEMMA CallInv ==
  ASSUME EmitterInv, Call
  PROVE  EmitterInv'
<1> DEFINE K == Len(emits)
           f == Last(emits)
           x == f.snapshot[f.next]
           g == Advance(f, x)
<1>1. /\ emits \in Seq(Frame) /\ K \in Nat \ {0} /\ f = emits[K]
      /\ f \in Frame /\ FrameOK(wrappers, f)
  <2>1. emits \in Seq(Frame) /\ emits # <<>>
    BY DEF EmitterInv, FramesOK, Call
  <2>2. K \in Nat \ {0}
    BY <2>1
  <2> QED BY <2>1, <2>2 DEF EmitterInv, FramesOK, Last
<1>2. /\ f.next <= Len(f.snapshot) /\ Enter(f.event, x)
      /\ emits' = [emits EXCEPT ![K] = g] /\ reentered' = reentered
  BY DEF Call, Walks
<1>3. x \in Listener /\ f.event \in Events /\ f.next \in 1 .. Len(f.snapshot)
  BY <1>1, <1>2 DEF Frame, FrameOK
<1>4. /\ g \in Frame /\ FrameOK(wrappers, g) /\ g.event = f.event
      /\ g.snapshot = f.snapshot /\ g.next = f.next + 1
  BY <1>1, <1>2, AdvanceOK
<1>5. wrappers \in Seq(Wrapper)
  BY DEF EmitterInv, RunsOK
<1> HIDE DEF f, g
<1>6. /\ emits' \in Seq(Frame) /\ Len(emits') = K
      /\ \A k \in 1 .. K : emits'[k] = IF k = K THEN g ELSE emits[k]
  BY <1>1, <1>2, <1>4
<1>7. FramesOK(wrappers, emits')
  BY <1>4, <1>6 DEF EmitterInv, FramesOK
<1>8. \A k \in 1 .. K : emits'[k].event = emits[k].event
  BY <1>1, <1>4, <1>6
<1>9. ASSUME NEW k \in 1 .. K, emits[k].event \notin reentered
      PROVE  /\ Unspent(wrappers, emits[k].snapshot, emits[k].next)
             /\ Sound(wrappers, emits[k].snapshot, emits[k].event)
             /\ \A j \in 1 .. K : emits[j].event = emits[k].event => j = k
  BY <1>9 DEF EmitterInv, AloneOK, FramesOK, FrameOK
<1>10. CASE x.once = 0
  <2>1. listeners' = listeners /\ wrappers' = wrappers
    BY <1>2, <1>10 DEF Enter
  <2>2. AloneOK(wrappers, emits', reentered)
    <3> SUFFICES ASSUME NEW k \in 1 .. K, emits'[k].event \notin reentered
                 PROVE  /\ Unspent(wrappers, emits'[k].snapshot, emits'[k].next)
                        /\ \A j \in 1 .. K : emits'[j].event = emits'[k].event => j = k
      BY <1>6 DEF AloneOK
    <3>1. emits[k].event \notin reentered
      BY <1>8
    <3>2. Unspent(wrappers, emits'[k].snapshot, emits'[k].next)
      <4>1. CASE k = K
        BY <1>1, <1>3, <1>4, <1>6, <1>9, <3>1, <4>1 DEF Unspent
      <4>2. CASE k # K
        BY <1>6, <1>9, <3>1, <4>2
      <4> QED BY <4>1, <4>2
    <3> QED BY <1>8, <1>9, <3>1, <3>2
  <2> QED BY <1>2, <1>7, <2>1, <2>2 DEF EmitterInv
<1>11. CASE x.once # 0
  <2> DEFINE n == x.once
  <2>1. n \in 1 .. Len(wrappers) /\ wrappers[n].event = f.event
        /\ \A i \in 1 .. Len(f.snapshot) : f.snapshot[i].once = n => i = f.next
    BY <1>1, <1>3, <1>11 DEF FrameOK, Sound
  <2>2. wrappers' = Ran(n)
    BY <1>2, <1>11 DEF Enter
  <2> HIDE DEF x
  <2>3. /\ Knows(wrappers', wrappers) /\ Len(wrappers') = Len(wrappers)
        /\ wrappers[n].runs \in Nat /\ wrappers'[n].runs = wrappers[n].runs + 1
        /\ \A m \in 1 .. Len(wrappers) : m # n => wrappers'[m] = wrappers[m]
    BY <1>5, <2>1, <2>2, RanKnows
  <2>4. ListsOK(wrappers', listeners')
    BY <1>2, <1>3, <1>11, <2>1, EnterLists
  <2>5. FramesOK(wrappers', emits')
    BY <1>7, <2>3, FramesKnow
  <2>6. AloneOK(wrappers', emits', reentered)
    <3> SUFFICES ASSUME NEW k \in 1 .. K, emits'[k].event \notin reentered
                 PROVE  /\ Unspent(wrappers', emits'[k].snapshot, emits'[k].next)
                        /\ \A j \in 1 .. K : emits'[j].event = emits'[k].event => j = k
      BY <1>6 DEF AloneOK
    <3>1. /\ Unspent(wrappers, emits[k].snapshot, emits[k].next)
          /\ Sound(wrappers, emits[k].snapshot, emits[k].event)
          /\ \A j \in 1 .. K : emits[j].event = emits[k].event => j = k
      BY <1>8, <1>9
    <3>2. Unspent(wrappers', emits'[k].snapshot, emits'[k].next)
      <4>1. CASE k = K
        <5>1. emits'[k].snapshot = f.snapshot /\ emits'[k].next = f.next + 1
          BY <1>4, <1>6, <4>1
        <5>2. \A i \in 1 .. Len(f.snapshot) : f.snapshot[i].once # 0 =>
                f.snapshot[i].once \in 1 .. Len(wrappers)
          BY <1>1, <3>1, <4>1 DEF Sound
        <5>3. Unspent(wrappers, f.snapshot, f.next)
          BY <1>1, <3>1, <4>1
        <5>4. ASSUME NEW i \in 1 .. Len(f.snapshot), i >= f.next + 1, f.snapshot[i].once # 0
              PROVE  wrappers'[f.snapshot[i].once].runs = 0
          <6>1. i >= f.next /\ i # f.next
            BY <1>3, <5>4
          <6>2. f.snapshot[i].once # n
            BY <2>1, <6>1
          <6> QED BY <2>3, <5>2, <5>3, <5>4, <6>1, <6>2 DEF Unspent
        <5> QED BY <5>1, <5>4 DEF Unspent
      <4>2. CASE k # K
        <5>1. emits'[k] = emits[k] /\ emits[k].event # f.event
          BY <1>1, <1>6, <3>1, <4>2
        <5>2. \A i \in 1 .. Len(emits[k].snapshot) : emits[k].snapshot[i].once # 0 =>
                /\ emits[k].snapshot[i].once \in 1 .. Len(wrappers)
                /\ wrappers[emits[k].snapshot[i].once].event = emits[k].event
          BY <3>1 DEF Sound
        <5>3. \A i \in 1 .. Len(emits[k].snapshot) : emits[k].snapshot[i].once # 0 =>
                wrappers'[emits[k].snapshot[i].once] = wrappers[emits[k].snapshot[i].once]
          BY <2>1, <2>3, <5>1, <5>2
        <5>4. Unspent(wrappers', emits[k].snapshot, emits[k].next)
          BY <3>1, <5>3 DEF Unspent
        <5> QED BY <5>1, <5>4
      <4> QED BY <4>1, <4>2
    <3> QED BY <1>8, <3>1, <3>2
  <2>7. RunsOK(wrappers', reentered)
    <3>1. ASSUME f.event \notin reentered
          PROVE  wrappers[n].runs = 0
      <4>1. Unspent(wrappers, f.snapshot, f.next)
        BY <1>1, <1>9, <3>1
      <4> QED BY <1>3, <1>11, <4>1 DEF Unspent, x
    <3>2. wrappers' \in Seq(Wrapper) /\ \A m \in 1 .. Len(wrappers) : wrappers'[m].event = wrappers[m].event
      BY <2>3 DEF Knows
    <3>3. \A m \in 1 .. Len(wrappers) : wrappers[m].event \notin reentered => wrappers[m].runs <= 1
      BY DEF EmitterInv, RunsOK
    <3>4. ASSUME NEW m \in 1 .. Len(wrappers), wrappers'[m].event \notin reentered
          PROVE  wrappers'[m].runs <= 1
      <4>1. CASE m = n
        BY <2>1, <2>3, <3>1, <3>2, <3>4, <4>1
      <4>2. CASE m # n
        BY <2>3, <3>2, <3>3, <3>4, <4>2
      <4> QED BY <4>1, <4>2
    <3> QED BY <2>3, <3>2, <3>4 DEF RunsOK
  <2> QED BY <1>2, <2>4, <2>5, <2>6, <2>7 DEF EmitterInv
<1> QED BY <1>10, <1>11

-----------------------------------------------------------------------------
(* The specification *)

LEMMA EmitterInit ==
  Init => EmitterInv
<1> SUFFICES ASSUME Init PROVE EmitterInv
  OBVIOUS
<1>1. listeners = <<>> /\ emits = <<>> /\ wrappers = <<>> /\ reentered = {}
  BY DEF Init
<1>2. DOMAIN listeners = {}
  BY <1>1
<1>3. Len(emits) = 0 /\ Len(wrappers) = 0 /\ emits \in Seq(Frame) /\ wrappers \in Seq(Wrapper)
  BY <1>1
<1>4. ListsOK(wrappers, listeners)
  BY <1>2 DEF ListsOK
<1> QED BY <1>1, <1>3, <1>4 DEF EmitterInv, FramesOK, AloneOK, RunsOK

LEMMA OnInv ==
  ASSUME EmitterInv, NEW e \in Events, NEW f \in Callbacks, On(e, f)
  PROVE  EmitterInv'
<1> DEFINE x == [fn |-> f, once |-> 0]
<1>1. x \in Listener /\ Add(e, x) /\ wrappers' = wrappers
  BY DEF On, Listener
<1>2. wrappers \in Seq(Wrapper) /\ RunsOK(wrappers, reentered)
  BY DEF EmitterInv, RunsOK
<1>3. Knows(wrappers', wrappers)
  BY <1>1, <1>2 DEF Knows
<1> QED BY <1>1, <1>2, <1>3, AddInv

LEMMA OnceInv ==
  ASSUME EmitterInv, NEW e \in Events, NEW f \in Callbacks, Once(e, f)
  PROVE  EmitterInv'
<1> DEFINE x == [fn |-> f, once |-> Len(wrappers) + 1]
           v == [event |-> e, runs |-> 0]
<1>1. wrappers \in Seq(Wrapper) /\ Len(wrappers) \in Nat /\ v \in Wrapper
  BY DEF EmitterInv, RunsOK, Wrapper
<1>2. Add(e, x) /\ wrappers' = Append(wrappers, v)
  BY DEF Once
<1>3. x \in Listener /\ x.once = Len(wrappers) + 1
  BY <1>1 DEF Listener
<1>4. v.event = e /\ v.runs = 0
  OBVIOUS
<1> HIDE DEF x, v
<1>5. /\ wrappers' \in Seq(Wrapper) /\ Len(wrappers') = Len(wrappers) + 1
      /\ \A n \in 1 .. Len(wrappers') :
           wrappers'[n] = IF n = Len(wrappers) + 1 THEN v ELSE wrappers[n]
  BY <1>1, <1>2
<1>6. Knows(wrappers', wrappers)
  BY <1>1, <1>5 DEF Knows
<1>7. RunsOK(wrappers', reentered)
  BY <1>1, <1>4, <1>5 DEF EmitterInv, RunsOK
<1>8. /\ x.once \in 1 .. Len(wrappers') /\ x.once \notin 1 .. Len(wrappers)
      /\ wrappers'[x.once].event = e /\ wrappers'[x.once].runs = 0
  BY <1>1, <1>3, <1>4, <1>5
<1>9. \A n \in 1 .. Len(wrappers) : wrappers'[n].runs = wrappers[n].runs
  BY <1>1, <1>5
<1> QED BY <1>2, <1>3, <1>6, <1>7, <1>8, <1>9, AddInv

LEMMA EmitterStep ==
  EmitterInv /\ [Next]_vars => EmitterInv'
<1> SUFFICES ASSUME EmitterInv, [Next]_vars
             PROVE  EmitterInv'
  OBVIOUS
<1>1. ASSUME NEW e \in Events, Emit(e)
      PROVE  EmitterInv'
  BY <1>1, EmitInv
<1>2. ASSUME NEW e \in Events, NEW f \in Callbacks, On(e, f) \/ Once(e, f) \/ Off(e, f)
      PROVE  EmitterInv'
  BY <1>2, OnInv, OnceInv, OffInv
<1>3. ASSUME NEW E, OffAll(E)
      PROVE  EmitterInv'
  BY <1>3, OffAllInv
<1>4. CASE Call
  BY <1>4, CallInv
<1>5. CASE Return
  BY <1>5, PopInv DEF Return
<1>6. CASE Throw
  BY <1>6, PopInv DEF Throw
<1>7. CASE UNCHANGED vars
  BY <1>7 DEF EmitterInv, ListsOK, FramesOK, AloneOK, RunsOK, vars
<1> QED BY <1>1, <1>2, <1>3, <1>4, <1>5, <1>6, <1>7 DEF Next

\* What holds of lists, emits and wrappers together, for any number of them.
THEOREM EmitterInvariant == Spec => []EmitterInv
BY EmitterInit, EmitterStep, PTL DEF Spec

\* The variables keep their shape, and no event keeps an empty list.
THEOREM TypesHold == Spec => []TypeOK
<1>1. EmitterInv => TypeOK
  BY DEF EmitterInv, ListsOK, FramesOK, RunsOK, Sound, TypeOK, Wrapper
<1> QED BY <1>1, EmitterInvariant, PTL

\* A one-time listener that has run is registered no more.
THEOREM SpentAreGone == Spec => []SpentIsGone
<1>1. EmitterInv => SpentIsGone
  <2> SUFFICES ASSUME EmitterInv, NEW e \in DOMAIN listeners, NEW i \in DOMAIN listeners[e],
                      listeners[e][i].once # 0
               PROVE  wrappers[listeners[e][i].once].runs = 0
    BY DEF SpentIsGone
  <2>1. Unspent(wrappers, listeners[e], 1) /\ listeners[e] \in Seq(Listener)
    BY DEF EmitterInv, ListsOK, Sound
  <2>2. i \in 1 .. Len(listeners[e]) /\ i >= 1
    BY <2>1
  <2> QED BY <2>1, <2>2 DEF Unspent
<1> QED BY <1>1, EmitterInvariant, PTL

\* Only an emit from within an emit of the same event can run a one-time
\* listener a second time.
THEOREM OnceIsOnce == Spec => []OnceUnlessReentered
<1>1. EmitterInv => OnceUnlessReentered
  <2> SUFFICES ASSUME EmitterInv, NEW n \in DOMAIN wrappers, wrappers[n].runs > 1,
                      wrappers[n].event \notin reentered
               PROVE  FALSE
    BY DEF OnceUnlessReentered
  <2>1. wrappers \in Seq(Wrapper) /\ n \in 1 .. Len(wrappers)
    BY DEF EmitterInv, RunsOK
  <2>2. wrappers[n] \in Wrapper /\ wrappers[n].runs <= 1
    BY <2>1 DEF EmitterInv, RunsOK
  <2> QED BY <2>2 DEF Wrapper
<1> QED BY <1>1, EmitterInvariant, PTL

\* An emit that returns has called the listeners it found, all of them, in order.
THEOREM EmitsReachAll == Spec => EmitReachesAll
<1>1. EmitterInv /\ [Next]_vars => [Return => Last(emits).called = Last(emits).snapshot]_vars
  <2> SUFFICES ASSUME EmitterInv, Return
               PROVE  Last(emits).called = Last(emits).snapshot
    OBVIOUS
  <2> DEFINE f == Last(emits)
  <2>1. emits \in Seq(Frame) /\ emits # <<>> /\ f.next > Len(f.snapshot)
    BY DEF EmitterInv, FramesOK, Return, Walks
  <2>2. Len(emits) \in 1 .. Len(emits)
    BY <2>1
  <2>3. f \in Frame /\ FrameOK(wrappers, f)
    BY <2>1, <2>2 DEF EmitterInv, FramesOK, Last
  <2>4. f.snapshot \in Seq(Listener) /\ f.next - 1 = Len(f.snapshot)
    BY <2>1, <2>3 DEF Frame, FrameOK
  <2> QED BY <2>3, <2>4, SubSeqFull DEF FrameOK
<1> QED BY <1>1, EmitterInvariant, PTL DEF Spec, EmitReachesAll
=============================================================================
