SPECIFICATION FairSpec
CONSTANTS
  s1 = s1
  s2 = s2
  s3 = s3
  a = a
  Server = {s1, s2}
  Command = {a}
  Nil = Nil
  Saved <- Fresh
  ChanCap = 1
  MaxTerm <- OnlyS1
  MaxLog = 2
  MaxCalls = 2
  MaxPending = 1
  MaxRestarts = 1
INVARIANTS PersistedIsCurrent VoteDurable LogTermsOrdered NothingCommitted
PROPERTIES TermVoteSpec Converges
CHECK_DEADLOCK FALSE
