----------------------------- MODULE MCChatDesk -----------------------------
(* The instances of ChatDesk that TLC checks.                              *)
EXTENDS ChatDesk
=============================================================================
