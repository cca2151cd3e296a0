---------------------------- MODULE MCTicketRoom ----------------------------
(* TicketRoom on small sets of people and coroutines.                      *)
EXTENDS TicketRoom, TLC

\* Who can be removed is told apart from who cannot.
RoomSymmetry ==
  Permutations(Staff) \cup Permutations(Support \cap Removable)
    \cup Permutations(Support \ Removable)
=============================================================================
