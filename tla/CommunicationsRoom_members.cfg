\* A user, and someone who is both a user and staff: they write, leave and are
\* answered; with kicks and crashes; with invitations.
SPECIFICATION FairSpec
CONSTANTS
  Users = {u1, u2}
  Staff = {u2}
  Bot = Bot
  Rooms = {r1, r2}
  MaxFeed = 1
  Worlds = {{}, {"kick", "replay", "early leave", "crash"},
            {"invite", "early leave"}}
INVARIANTS InsideOrLeaving EverInside
PROPERTY Forgotten
\* Everyone may have left, and no more rooms are made.
CHECK_DEADLOCK FALSE
