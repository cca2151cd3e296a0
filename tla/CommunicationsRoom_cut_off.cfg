\* The process ends while it handles a sync.
SPECIFICATION Spec
CONSTANTS
  Users = {u1, u2}
  Staff = {s1}
  Bot = Bot
  Rooms = {r1, r2}
  MaxFeed = 2
  Worlds = {{"crash"}}
INVARIANT InsideOrUnheard
\* Everyone may have left, and no more rooms are made.
CHECK_DEADLOCK FALSE
