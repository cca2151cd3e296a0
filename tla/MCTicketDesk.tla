---------------------------- MODULE MCTicketDesk ----------------------------
(* The instances of TicketDesk that TLC checks.                            *)
EXTENDS TicketDesk, TLC

\* gRPC calls are interchangeable, and so are users.
DeskSymmetry == Permutations(Users) \cup Permutations(GrpcCalls)
=============================================================================
