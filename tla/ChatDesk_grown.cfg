\* A gRPC close marks a room while the sync loop iterates over the marked ones.
CONSTANTS
  Main = main
  NoUser = NoUser
  Users = {u1, u2}
  GrpcCalls = {g1}
  MaxChats = 2
  MidCrash = FALSE
  MayFail = FALSE
  Worlds = {{}}
SPECIFICATION FairSpec
PROPERTIES MarkedIsDeleted
