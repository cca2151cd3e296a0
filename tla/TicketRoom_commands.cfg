\* Commands one after another; requests fail and the process crashes; a call may
\* remove a support user.
SPECIFICATION Spec
CONSTANTS
  Staff = {s1, s2}
  Support = {p1, p2}
  Callers = {g1}
  GrpcCalls = {g1}
  Removable = {s1, s2, p1}
  MayFail = TRUE
SYMMETRY RoomSymmetry
INVARIANTS AssignedAreInside OnlyAssignedInside
PROPERTY CloseEmptiesRoom
