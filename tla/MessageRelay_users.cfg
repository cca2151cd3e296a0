\* Two users, a text and a redaction: staff commands only, with chats; with failures
\* and crashes; with lost connections; with gRPC calls.
SPECIFICATION Spec
CONSTANTS
  Users = {u1, u2}
  NoUser = NoUser
  Messages = {m1, m2}
  Others = {m2}
  NoMessage = NoMessage
  MaxTickets = 2
  Management = Management
  ChatRoom = ChatRoom
  Nowhere = Nowhere
  Worlds = {{"chats"}, {"failure", "midcrash"}, {"disconnect"}, {"grpc"}}
SYMMETRY RelaySymmetry
INVARIANTS KeptForTicket OwnTicketOnly OnePair
PROPERTIES SentToOpenTicket ImplementsContract
