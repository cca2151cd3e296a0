\* An invitation replaces what waits for the room.
SPECIFICATION Spec
CONSTANTS
  Rooms = {r1}
  NoRoom = NoRoom
  Messages = {m1}
  Welcomes = {w1}
  Bodiless = {}
  Depth = 1
  Worlds = {{"invite"}}
INVARIANT Accounted
CHECK_DEADLOCK FALSE
