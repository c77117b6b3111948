---------------------------- MODULE RateLimiter -----------------------------
(***************************************************************************)
(* The rate limiters of the sessions (lib/rate-limiter.ts): a budget each, *)
(* and one timer for all of them, that starts with the first and stops     *)
(* with the last.  The actions say what the methods and the timer do to    *)
(* the limiters; module Inbound says who calls them.                       *)
(*                                                                         *)
(* Time is read off what is left of each window.  The timer's callback may *)
(* come at any time while the timer runs, late ones included.              *)
(***************************************************************************)
EXTENDS Integers, Sequences

CONSTANTS
  Limiters,     \* a limiter goes by the name of its session
  MaxMessages,  \* opts.maxMessages
  WindowMs      \* opts.windowMs, in units of TimePasses

ASSUME RateLimiterAssumption == MaxMessages \in Nat /\ WindowMs \in Nat

VARIABLES
  activeLimiters,  \* the limiters the timer looks after
  sharedTimer,     \* the timer runs
  remaining,       \* what is left of each budget
  untilReset,      \* _nextReset less the time, 0 once it has come
  inWindow,        \* history: messages allowed since the budget was full
  ages             \* history: how long ago each message was, WindowMs for longer

limiters == <<activeLimiters, sharedTimer, remaining, untilReset, inWindow, ages>>

InitLimiters ==
  /\ activeLimiters = {}
  /\ sharedTimer = FALSE
  /\ remaining = [l \in Limiters |-> 0]
  /\ untilReset = [l \in Limiters |-> 0]
  /\ inWindow = [l \in Limiters |-> 0]
  /\ ages = [l \in Limiters |-> <<>>]

\* Fault: the budget comes with the second window.
ConstructEmpty(l) ==
  /\ activeLimiters' = activeLimiters \cup {l}
  /\ sharedTimer' = TRUE
  /\ remaining' = [remaining EXCEPT ![l] = 0]
  /\ untilReset' = [untilReset EXCEPT ![l] = WindowMs]
  /\ inWindow' = [inWindow EXCEPT ![l] = 0]
  /\ UNCHANGED ages

\* The constructor; startSharedTimer leaves a timer that runs alone.
Construct(l) ==
  /\ activeLimiters' = activeLimiters \cup {l}
  /\ sharedTimer' = TRUE
  /\ remaining' = [remaining EXCEPT ![l] = MaxMessages]
  /\ untilReset' = [untilReset EXCEPT ![l] = WindowMs]
  /\ inWindow' = [inWindow EXCEPT ![l] = 0]
  /\ UNCHANGED ages

\* Fault: off by one.
AllowedLate(l) == remaining[l] >= 0

Allowed(l) == remaining[l] > 0

\* consume() when it returns true; when not, it changes nothing.
Consume(l) ==
  /\ remaining' = [remaining EXCEPT ![l] = @ - 1]
  /\ inWindow' = [inWindow EXCEPT ![l] = @ + 1]
  /\ ages' = [ages EXCEPT ![l] = Append(@, 0)]
  /\ UNCHANGED <<activeLimiters, sharedTimer, untilReset>>

\* Fault: the timer stops with any limiter.
DestroyTimer(l) ==
  /\ activeLimiters' = activeLimiters \ {l}
  /\ sharedTimer' = FALSE
  /\ UNCHANGED <<remaining, untilReset, inWindow, ages>>

\* destroy() and stopSharedTimerIfEmpty.
Destroy(l) ==
  /\ activeLimiters' = activeLimiters \ {l}
  /\ sharedTimer' = (sharedTimer /\ activeLimiters \ {l} # {})
  /\ UNCHANGED <<remaining, untilReset, inWindow, ages>>

Due == {l \in activeLimiters : untilReset[l] = 0}

\* Fault: the next window does not begin.
RefillOnly ==
  /\ remaining' = [l \in Limiters |-> IF l \in Due THEN MaxMessages ELSE remaining[l]]
  /\ inWindow' = [l \in Limiters |-> IF l \in Due THEN 0 ELSE inWindow[l]]
  /\ UNCHANGED <<activeLimiters, sharedTimer, untilReset, ages>>

\* The timer's callback.
ResetDue ==
  /\ remaining' = [l \in Limiters |-> IF l \in Due THEN MaxMessages ELSE remaining[l]]
  /\ untilReset' = [l \in Limiters |-> IF l \in Due THEN WindowMs ELSE untilReset[l]]
  /\ inWindow' = [l \in Limiters |-> IF l \in Due THEN 0 ELSE inWindow[l]]
  /\ UNCHANGED <<activeLimiters, sharedTimer, ages>>

Elapse ==
  /\ untilReset' = [l \in Limiters |->
       IF l \in activeLimiters /\ untilReset[l] > 0 THEN untilReset[l] - 1 ELSE untilReset[l]]
  /\ ages' = [l \in Limiters |-> [i \in DOMAIN ages[l] |->
       IF ages[l][i] < WindowMs THEN ages[l][i] + 1 ELSE WindowMs]]
  /\ UNCHANGED <<activeLimiters, sharedTimer, remaining, inWindow>>
=============================================================================
