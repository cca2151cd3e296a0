\* A member of staff who is also a user.
SPECIFICATION Spec
CONSTANTS
  Users = {u1}
  Staff = {u1, s1}
  Bot = Bot
  Rooms = {r1, r2}
  MaxFeed = 1
  Worlds = {{}}
INVARIANT NoTicketRoom
\* Everyone may have left, and no more rooms are made.
CHECK_DEADLOCK FALSE
