SPECIFICATION Spec
CONSTANTS
  s1 = s1
  s2 = s2
  s3 = s3
  a = a
  Server = {s1, s2, s3}
  Command = {a}
  Nil = Nil
  Saved <- Behind
  ChanCap = 1
  MaxTerm <- TwoRivals
  MaxLog = 0
  MaxCalls = 2
  MaxPending = 1
  MaxRestarts = 0
INVARIANTS ElectionSafety
CHECK_DEADLOCK FALSE
