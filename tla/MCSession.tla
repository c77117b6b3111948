----------------------------- MODULE MCSession ------------------------------
(* The session on small instances. *)
EXTENDS Session
=============================================================================
