SPECIFICATION Spec
CONSTANTS
  Sessions = {"s1", "s2"}
  BuzzSessions = {}
  NoSession = "none"
  Requests = {"r1"}
  NoRequest = "none"
  RoutedCapacity = 3
  RoutedPerSession = 2
  MaxEpochs = 1
  MaxEvents = 4
  MaxCodes = 0
  Modes = {"Default"}
  Switches = {"FullAccess"}
  Kinds = {"item", "effect", "content", "done"}
  Faults = {}
  SteerKeys = {"s1"}
  CancelKeys = {"c1"}
  ResumeKeys = {"r1", "r2"}
  StartKeys = {"n1"}
  ResolveKeys = {"v1"}
  ServiceKeys = {"c1", "r1", "n1", "v1"}
  ReceiptCap = 1
  MaxRequests = 4
  MaxCrashes = 1
  NoKey = "none"
  Actors = {"alice", "bob"}
  Channels = {"c1", "c2"}
  Codes = {"k1"}
  FrontendSessions = {"s1", "s2"}
  Messages = {"e1", "e2"}
  Commands <- MCCommands
  None = None
  Unbound = Unbound
  Lifetime = 1
  MaxClock = 1
  MaxProcess = 2
  MaxTrust = 2
  MaxTask = 2
  MaxLog = 4
  MaxLive = 1
  MaxPrompt = 2
  MaxConn = 2
  MaxLoad = 1
  MaxApproval = 0
  LiveCapacity = 1
  PageLimit = 1
  Ops = {"pause", "cancel", "config", "load", "fail", "publisher"}
INVARIANT TurnsInOrder
INVARIANT EventsOnce
PROPERTY OnlyOwnerDecides
PROPERTY ControlsOnce
CHECK_DEADLOCK FALSE
