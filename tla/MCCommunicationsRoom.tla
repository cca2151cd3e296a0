------------------------ MODULE MCCommunicationsRoom ------------------------
(* CommunicationsRoom with a few people and rooms.                         *)
EXTENDS CommunicationsRoom
=============================================================================
