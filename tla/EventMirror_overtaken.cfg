\* A redaction is handled before the queue.
SPECIFICATION Spec
CONSTANTS
  Users = {u1}
  MaxTickets = 1
  MaxChannels = 1
  MaxPosts = 2
  MaxCalmPosts = 2
  Desk = Desk
  Worlds = {{"late room"}}
INVARIANT NothingShown
CHECK_DEADLOCK FALSE
