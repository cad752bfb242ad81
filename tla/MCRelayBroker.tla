----------------------------- MODULE MCRelayBroker -----------------------------
(* RelayBroker for TLC.                                                    *)
EXTENDS RelayBroker
=============================================================================
