\* Messages with failed requests, crashes and forgotten rooms; and runs of
\* check_awaited inside one another, with rerouted messages and invitations.
SPECIFICATION FairSpec
CONSTANTS
  Rooms = {r1, r2}
  NoRoom = NoRoom
  Messages = {m1, m2}
  Welcomes = {w1}
  Bodiless = {m2}
  Depth = 2
  Worlds = {{"failure"}, {"invite", "reroute", "nested"}}
PROPERTIES ImplementsMailbox SentWhenReady QueueDrains
CHECK_DEADLOCK FALSE
