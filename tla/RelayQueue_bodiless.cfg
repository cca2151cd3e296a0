\* An expired redaction ends the process, and with it the queue of another room.
SPECIFICATION Spec
CONSTANTS
  Rooms = {r1, r2}
  NoRoom = NoRoom
  Messages = {m1, m2}
  Welcomes = {}
  Bodiless = {m2}
  Depth = 1
  Worlds = {{}}
INVARIANT NoneLost
CHECK_DEADLOCK FALSE
