\* A removed support user stays assigned, and is not in the room.
SPECIFICATION Spec
CONSTANTS
  Staff = {s1, s2}
  Support = {p1, p2}
  Callers = {g1}
  GrpcCalls = {g1}
  Removable = {s1, s2, p1, p2}
  MayFail = FALSE
SYMMETRY RoomSymmetry
INVARIANT AllAssignedAreInside
