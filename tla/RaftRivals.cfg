SPECIFICATION Spec
CONSTANTS
  s1 = s1
  s2 = s2
  s3 = s3
  a = a
  Server = {s1, s2, s3}
  Command = {a}
  Nil = Nil
  Saved <- Longer
  ChanCap = 1
  MaxTerm <- RivalTerms
  MaxLog = 0
  MaxCalls = 2
  MaxPending = 1
  MaxRestarts = 0
INVARIANTS TypeOK VoteDurable
CHECK_DEADLOCK FALSE
