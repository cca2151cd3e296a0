\* A user with a ticket and a chat.
SPECIFICATION Spec
CONSTANTS
  Users = {u1}
  NoUser = NoUser
  Messages = {m1}
  Others = {}
  NoMessage = NoMessage
  MaxTickets = 1
  Management = Management
  ChatRoom = ChatRoom
  Nowhere = Nowhere
  Worlds = {{"chats"}}
SYMMETRY RelaySymmetry
INVARIANT AnswerWhereAsked
