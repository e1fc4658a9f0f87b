SPECIFICATION FairSpec
CONSTANTS
  s1 = s1
  s2 = s2
  s3 = s3
  a = a
  Server = {s1, s2}
  Command = {a}
  Nil = Nil
  Saved <- Fresh
  ChanCap = 1
  MaxTerm <- Term1
  MaxLog = 1
  MaxCalls = 2
  MaxPending = 1
  MaxRestarts = 0
PROPERTIES AgreementReached
CHECK_DEADLOCK FALSE
