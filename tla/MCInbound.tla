----------------------------- MODULE MCInbound ------------------------------
(* Instances of Inbound for TLC; the configurations give the constants.    *)
EXTENDS Inbound
=============================================================================
