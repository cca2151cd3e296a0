\* A gRPC call that takes longer than its handler waits.
SPECIFICATION Spec
CONSTANTS
  Staff = {s1, s2}
  Support = {p1}
  Callers = {g1}
  GrpcCalls = {g1}
  Removable = {s1, s2}
  MayFail = FALSE
SYMMETRY RoomSymmetry
INVARIANT SuccessIsReal
