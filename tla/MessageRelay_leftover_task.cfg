\* The connection is lost while the saved messages are copied: the tasks and the rows
\* both outlive the copy, and the next copy ties the message to a second clone.
SPECIFICATION Spec
CONSTANTS
  Users = {u1}
  NoUser = NoUser
  Messages = {m1}
  Others = {}
  NoMessage = NoMessage
  MaxTickets = 2
  Management = Management
  ChatRoom = ChatRoom
  Nowhere = Nowhere
  Worlds = {{"disconnect"}}
SYMMETRY RelaySymmetry
INVARIANT TiedOnce
