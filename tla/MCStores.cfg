SPECIFICATION StoresSpec
CONSTANTS
  Objects = {"a", "b"}
  Inodes = {"i1", "i2"}
  MaxObjects = 1
  MaxCrashes = 2
  Nil = Nil
  Torn = Torn
  Files = {1, 2}
  Extra = 3
  MaxEdits = 2
  MaxMoves = 2
  Runs = {"r1"}
  Paths = {"p1"}
  Contents = {"a", "b"}
  NoRecord = NoRecord
  MaxEpoch = 3
  MaxChanges = 2
  MaxDamage = 1
  MaxPinned = 0
  TwoCallers = TRUE
  Labels = {"verification"}
  Windows = {1, 9, 15}
  TriggerPercent = 80
  TargetPercent = 60
  Sizes = {1, 3}
  HeadingSize = 2
  MaxUnits = 1
INVARIANT CandidateHonest
INVARIANT ContextFits
PROPERTY PublishedStays
PROPERTY RunsVerified
PROPERTY MemoryKept
PROPERTY CheckpointsTrue
CHECK_DEADLOCK FALSE
