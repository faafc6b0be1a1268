SPECIFICATION Spec
CONSTANTS
  Sessions = {"s1"}
  BuzzSessions = {"s1"}
  NoSession = "none"
  Requests = {"r1", "r2"}
  NoRequest = "none"
  RoutedCapacity = 2
  RoutedPerSession = 2
  MaxEpochs = 2
  MaxEvents = 2
  MaxCodes = 1
  Modes = {"Default"}
  Switches = {"Default"}
  Kinds = {"item", "itemEnd", "content", "context", "effect", "badEffect", "done", "failed"}
  Faults = {"append", "port", "publish", "expire", "global"}
  Calls = {"r1", "r2"}
  NoCall = "none"
  Keys = {"k1", "k2"}
  Cancels = {}
  ServerIds = {"q1"}
  MaxPending = 2
  MaxAbandoned = 1
  EventCap = 1
  WriterCap = 1
  NotifyCap = 1
  ReuseIds = FALSE
  Mishaps = {"drop", "exit"}
  MaxTurns = 2
  MaxDeltas = 0
  MaxMessages = 0
  MaxRequests = 1
  MaxCalls = 1
  MaxQueued = 2
INVARIANT TurnsReadExactly
INVARIANT DroppedAreCounted
PROPERTY ApprovalIsExact
CHECK_DEADLOCK FALSE
