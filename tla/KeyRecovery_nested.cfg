\* Two texts of one session and another event; callbacks nest and crash.
SPECIFICATION FairSpec
CONSTANTS
  e1 = e1
  e2 = e2
  e3 = e3
  s1 = s1
  s2 = s2
  Events = {e1, e2, e3}
  Sessions = {s1, s2}
  SessionOf <- MCSessionOf
  Texts = {e1, e2}
  IgnoreOld = TRUE
  MayFail = TRUE
  Depth = 2
INVARIANTS ProcessedOnce Accounted NoneStranded
PROPERTY ProcessedIfKeysArrive
