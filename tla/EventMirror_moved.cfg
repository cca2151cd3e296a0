\* An edit after the ticket was closed.
SPECIFICATION Spec
CONSTANTS
  Users = {u1}
  MaxTickets = 1
  MaxChannels = 1
  MaxPosts = 2
  MaxCalmPosts = 2
  Desk = Desk
  Worlds = {{"close"}}
INVARIANT WithinRoom
CHECK_DEADLOCK FALSE
