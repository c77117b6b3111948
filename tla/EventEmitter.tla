---------------------------- MODULE EventEmitter ----------------------------
(***************************************************************************)
(* The emitter that Server, Socket and the transports are made of          *)
(* (lib/event-emitter.ts), under an application whose listeners add and    *)
(* remove listeners, emit, and throw, from inside the emits that call      *)
(* them: emit is a stack of calls, each walking the listeners it found     *)
(* when it began.                                                          *)
(*                                                                         *)
(* `removeListener` is off, `emitReserved` is emit.  emit's three branches *)
(* (one listener, two, more) take the same snapshot; an emit that finds no *)
(* listener changes nothing.                                               *)
(***************************************************************************)
EXTENDS Integers, Sequences, SequencesExt

CONSTANTS
  Events,
  Callbacks,     \* the functions the application registers
  MaxListeners,  \* bound: listeners of an event
  MaxOnce,       \* bound: calls of once
  MaxDepth       \* bound: emits within each other

ASSUME EventEmitterAssumption ==
  MaxListeners \in Nat /\ MaxOnce \in Nat /\ MaxDepth \in Nat

VARIABLES
  listeners,  \* _listeners: the lists of the events that have any
  emits,      \* the emits under way, the innermost last
  wrappers,   \* of each call of once: its event, how often its listener ran
  reentered   \* history: the events emitted while they were being emitted

vars == <<listeners, emits, wrappers, reentered>>

\* A function registered by on (once = 0), or by the n-th call of once.
Listener == [fn : Callbacks, once : Nat]

\* `called` is history: what the emit has called.
Frame == [event : Events, snapshot : Seq(Listener), next : Nat \ {0},
          called : Seq(Listener)]

Init ==
  /\ listeners = <<>>
  /\ emits = <<>>
  /\ wrappers = <<>>
  /\ reentered = {}

ListOf(e) == IF e \in DOMAIN listeners THEN listeners[e] ELSE <<>>

\* Fault: an event keeps an empty list.
SetAnyList(e, list) ==
  listeners' = [d \in DOMAIN listeners \cup {e} |-> IF d = e THEN list ELSE listeners[d]]

SetList(e, list) ==
  listeners' = [d \in IF list = <<>> THEN DOMAIN listeners \ {e}
                                     ELSE DOMAIN listeners \cup {e} |->
                  IF d = e THEN list ELSE listeners[d]]

\* Only the first of the given positions goes.
WithoutFirst(list, positions) ==
  IF positions = {} THEN list
  ELSE [k \in 1 .. Len(list) - 1 |->
          IF \E i \in positions : i <= k THEN list[k + 1] ELSE list[k]]

-----------------------------------------------------------------------------
(* Calls of the application, from outside or from a listener *)

\* No emit is between two listeners.
AppRuns == emits # <<>> => Last(emits).next > 1

Add(e, listener) ==
  /\ AppRuns
  /\ Len(ListOf(e)) < MaxListeners
  /\ SetList(e, Append(ListOf(e), listener))
  /\ UNCHANGED <<emits, reentered>>

On(e, f) == Add(e, [fn |-> f, once |-> 0]) /\ UNCHANGED wrappers

Once(e, f) ==
  /\ Len(wrappers) < MaxOnce
  /\ wrappers' = Append(wrappers, [event |-> e, runs |-> 0])
  /\ Add(e, [fn |-> f, once |-> Len(wrappers) + 1])

\* off(e, f): on's listener is f, and once's has it as its fn.
Off(e, f) ==
  /\ AppRuns
  /\ SetList(e, WithoutFirst(ListOf(e), {i \in DOMAIN ListOf(e) : ListOf(e)[i].fn = f}))
  /\ UNCHANGED <<emits, wrappers, reentered>>

\* off(e) and off().
OffAll(E) ==
  /\ AppRuns
  /\ listeners' = [d \in DOMAIN listeners \ E |-> listeners[d]]
  /\ UNCHANGED <<emits, wrappers, reentered>>

Emit(e) ==
  /\ AppRuns
  /\ e \in DOMAIN listeners /\ Len(emits) < MaxDepth
  /\ emits' = Append(emits, [event |-> e, snapshot |-> listeners[e],
                             next |-> 1, called |-> <<>>])
  /\ reentered' = reentered \cup {d \in {e} : \E k \in DOMAIN emits : emits[k].event = d}
  /\ UNCHANGED <<listeners, wrappers>>

-----------------------------------------------------------------------------
(* An emit under way *)

\* Fault: emit walks the live list.
WalksLive(frame) == ListOf(frame.event)

Walks(frame) == frame.snapshot

Advance(frame, listener) ==
  [frame EXCEPT !.next = @ + 1, !.called = Append(@, listener)]

\* Fault: the wrapper removes the function instead of itself.
SameFunction(list, listener) == {i \in DOMAIN list : list[i].fn = listener.fn}

\* Where the wrapper is: its number tells it from all others.
Positions(list, listener) == {i \in DOMAIN list : list[i].once = listener.once}

\* The wrappers once the n-th has run its listener.
Ran(n) == [wrappers EXCEPT ![n].runs = @ + 1]

\* Fault: the wrapper does not remove itself.
KeepOnce(e, listener) ==
  /\ wrappers' = IF listener.once = 0 THEN wrappers ELSE Ran(listener.once)
  /\ UNCHANGED listeners

\* What calling the listener does before its own code runs: the wrapper of once
\* removes itself.
Enter(e, listener) ==
  IF listener.once = 0
    THEN UNCHANGED <<listeners, wrappers>>
    ELSE /\ SetList(e, WithoutFirst(ListOf(e), Positions(ListOf(e), listener)))
         /\ wrappers' = Ran(listener.once)

Call ==
  /\ emits # <<>>
  /\ LET frame == Last(emits) IN
     /\ frame.next <= Len(Walks(frame))
     /\ Enter(frame.event, Walks(frame)[frame.next])
     /\ emits' = [emits EXCEPT ![Len(emits)] = Advance(frame, Walks(frame)[frame.next])]
  /\ UNCHANGED reentered

Return ==
  /\ emits # <<>>
  /\ Last(emits).next > Len(Walks(Last(emits)))
  /\ emits' = Front(emits)
  /\ UNCHANGED <<listeners, wrappers, reentered>>

\* A listener throws, and so does the emit; the listener that emitted may catch.
Throw ==
  /\ emits # <<>> /\ Last(emits).next > 1
  /\ emits' = Front(emits)
  /\ UNCHANGED <<listeners, wrappers, reentered>>

-----------------------------------------------------------------------------

Next ==
  \/ \E e \in Events : Emit(e) \/ \E f \in Callbacks : On(e, f) \/ Once(e, f) \/ Off(e, f)
  \/ \E E \in {Events} \cup {{e} : e \in Events} : OffAll(E)
  \/ Call \/ Return \/ Throw

Spec == Init /\ [][Next]_vars

-----------------------------------------------------------------------------

\* The variables keep their shape.  An event has a list only while someone
\* listens, which is what emit's answer tells its caller.
TypeOK ==
  /\ DOMAIN listeners \subseteq Events
  /\ \A e \in DOMAIN listeners : listeners[e] \in Seq(Listener) \ {<<>>}
  /\ emits \in Seq(Frame)
  /\ wrappers \in Seq([event : Events, runs : Nat])
  /\ reentered \subseteq Events

\* A one-time listener that has run is registered no more, whatever runs inside
\* it and wherever the same function is registered besides (once).
SpentIsGone ==
  \A e \in DOMAIN listeners : \A i \in DOMAIN listeners[e] :
    listeners[e][i].once # 0 => wrappers[listeners[e][i].once].runs = 0

\* A one-time listener runs once at most, unless a listener of its event emits
\* the event again: then the outer emit may still hold it in its snapshot.
OnceUnlessReentered ==
  \A n \in DOMAIN wrappers : wrappers[n].runs > 1 => wrappers[n].event \in reentered

\* An emit that returns has called exactly the listeners registered when it
\* began, in order, whatever they did to the list meanwhile.
EmitReachesAll == [][Return => Last(emits).called = Last(emits).snapshot]_vars
=============================================================================
