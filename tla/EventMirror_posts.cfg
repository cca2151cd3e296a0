\* What one user and staff write: with nothing else, with rooms learnt of late, or
\* not in time and without encryption, with tickets closed and reopened, and with
\* media, failures and crashes.
SPECIFICATION FairSpec
CONSTANTS
  Users = {u1}
  MaxTickets = 2
  MaxChannels = 2
  MaxPosts = 2
  MaxCalmPosts = 3
  Desk = Desk
  Worlds = {{}, {"second room"}, {"late room"}, {"late room", "slow room"},
            {"late room", "disorder", "close"},
            {"failure", "disorder", "second ticket", "media"}}
INVARIANTS TypeOK RefersToCounterpart RefersWithinRoom TakenBack AnswerReachesWriter
PROPERTIES ArrivesAtLast ImplementsContract
CHECK_DEADLOCK FALSE
