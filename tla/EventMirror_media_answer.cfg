\* Answers to media.
SPECIFICATION Spec
CONSTANTS
  Users = {u1}
  MaxTickets = 1
  MaxChannels = 1
  MaxPosts = 2
  MaxCalmPosts = 2
  Desk = Desk
  Worlds = {{"media"}}
INVARIANT AnyAnswerReachesWriter
CHECK_DEADLOCK FALSE
