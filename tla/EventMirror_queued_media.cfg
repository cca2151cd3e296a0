\* Media wait for the room of a ticket.
SPECIFICATION Spec
CONSTANTS
  Users = {u1}
  MaxTickets = 1
  MaxChannels = 1
  MaxPosts = 1
  MaxCalmPosts = 1
  Desk = Desk
  Worlds = {{"late room", "media"}}
INVARIANT MediaStayMedia
CHECK_DEADLOCK FALSE
