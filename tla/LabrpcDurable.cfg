SPECIFICATION FairSpec
CONSTANTS
  c1 = c1
  c2 = c2
  c3 = c3
  e1 = e1
  e2 = e2
  Call = {c1, c2, c3}
  End = {e1, e2}
  EndOf <- TwoCallers
  MaxMade = 2
INVARIANTS TypeOK PositiveReplyDurable
PROPERTIES RpcSpec CallReturns
CHECK_DEADLOCK FALSE
