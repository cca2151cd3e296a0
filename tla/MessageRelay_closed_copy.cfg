\* A gRPC call closes the ticket while the saved messages are copied.
SPECIFICATION Spec
CONSTANTS
  Users = {u1}
  NoUser = NoUser
  Messages = {m1}
  Others = {}
  NoMessage = NoMessage
  MaxTickets = 1
  Management = Management
  ChatRoom = ChatRoom
  Nowhere = Nowhere
  Worlds = {{"grpc"}}
SYMMETRY RelaySymmetry
INVARIANT Kept
