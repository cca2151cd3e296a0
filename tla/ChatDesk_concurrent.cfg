\* The sync loop and a gRPC call, crashes anywhere, rooms the bot cannot leave;
\* with a connection that is kept, and with one that may be lost in any request.
CONSTANTS
  Main = main
  NoUser = NoUser
  Users = {u1, u2}
  GrpcCalls = {g1}
  MaxChats = 2
  MidCrash = TRUE
  MayFail = TRUE
  Worlds = {{}, {"reconnect"}}
SPECIFICATION FairSpec
INVARIANTS CacheTellsStatus CurrentChatIsOpen MarkedIsOver
PROPERTIES ChatsOnlyEnd MarksDrain
