\* After a lost connection nothing starts a check of the marked rooms.
CONSTANTS
  Main = main
  NoUser = NoUser
  Users = {u1, u2}
  GrpcCalls = {g1}
  MaxChats = 2
  MidCrash = FALSE
  MayFail = FALSE
  Worlds = {{"reconnect"}}
SPECIFICATION FairSpec
PROPERTY AllMarksDrain
