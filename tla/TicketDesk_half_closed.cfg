\* A crash between the status and the current ticket of a close.
CONSTANTS
  Main = main
  NoUser = NoUser
  Users = {u1, u2}
  GrpcCalls = {}
  MaxTickets = 2
  Worlds = {{"mid-crash"}}
SPECIFICATION Spec
SYMMETRY DeskSymmetry
INVARIANTS CurrentIsOpen
