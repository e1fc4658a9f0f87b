SPECIFICATION FairSpec
CONSTANTS
  Peers = 3
  Size = 2
  Answers = 3
  Calls = {"RequestVote", "AppendEntries"}
  Counted = 4
INVARIANTS TypeOK RoomEnough
PROPERTY KeepsRunning
CHECK_DEADLOCK FALSE
