SPECIFICATION FairSpec
CONSTANTS
  Peers = 3
  Size = 20
  Answers = 2
  Calls = {}
  Counted = 0
PROPERTY NewElection
CHECK_DEADLOCK FALSE
