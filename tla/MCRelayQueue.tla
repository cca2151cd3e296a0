---------------------------- MODULE MCRelayQueue ----------------------------
(* RelayQueue on small sets of rooms and tasks.                            *)
EXTENDS RelayQueue
=============================================================================
