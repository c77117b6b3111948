------------------------------ MODULE MCServer ------------------------------
(* Server on small sets of requests, addresses and calls. *)
EXTENDS Server, TLC

\* Requests, and the sessions named after them, are interchangeable, as are
\* calls: sound for the invariants and action properties, not for liveness.
Symmetric == Permutations(Requests) \cup Permutations(Calls)
=============================================================================
