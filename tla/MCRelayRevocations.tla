-------------------------- MODULE MCRelayRevocations --------------------------
(* RelayRevocations for TLC.                                               *)
EXTENDS RelayRevocations
=============================================================================
