\* A gRPC call unassigns somebody whom a command assigns again.
SPECIFICATION Spec
CONSTANTS
  Staff = {s1}
  Support = {p1}
  Callers = {main, g1}
  GrpcCalls = {g1}
  Removable = {s1}
  MayFail = FALSE
INVARIANT AssignedAreInside
