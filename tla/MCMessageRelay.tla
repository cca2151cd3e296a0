--------------------------- MODULE MCMessageRelay ---------------------------
(* MessageRelay on small sets of users and messages.                       *)
EXTENDS MessageRelay, TLC

RelaySymmetry == Permutations(Users)
=============================================================================
