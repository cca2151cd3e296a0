\* Staff commands and two gRPC calls at a time, crashes between segments or within.
CONSTANTS
  Main = main
  NoUser = NoUser
  Users = {u1, u2}
  GrpcCalls = {g1, g2}
  MaxTickets = 3
  Worlds = {{}, {"mid-crash"}}
SPECIFICATION Spec
SYMMETRY DeskSymmetry
INVARIANTS CacheTellsStatus CurrentIsLive LatestOpenIsCurrent
PROPERTIES DeletedForGood RoutedUntilClosed ImplementsLifecycle
