\* A deletion that lands on a reopened ticket.
CONSTANTS
  Main = main
  NoUser = NoUser
  Users = {u1, u2}
  GrpcCalls = {g1}
  MaxTickets = 1
  Worlds = {{}}
SPECIFICATION Spec
SYMMETRY DeskSymmetry
PROPERTIES DeletesClosedOnly
