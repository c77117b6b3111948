--------------------------- MODULE MCEventEmitter ---------------------------
(* Instances of EventEmitter for TLC.  Events and functions are alike.      *)
EXTENDS EventEmitter

Symmetry == Permutations(Events) \cup Permutations(Callbacks)
=============================================================================
