\* A room that is known and never encrypted.
SPECIFICATION FairSpec
CONSTANTS
  Rooms = {r1}
  NoRoom = NoRoom
  Messages = {m1}
  Welcomes = {}
  Bodiless = {}
  Depth = 1
  Worlds = {{}}
PROPERTY SentWhenLoaded
CHECK_DEADLOCK FALSE
