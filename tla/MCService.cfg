CONSTANTS
  Tasks = {t1, t2}
  NoTask = NoTask
  Kinds = {"cancel", "steer", "resume", "enqueue", "approve", "prepare", "shutdown", "signal"}
  MaxRequests = 2
  WallBudget = TRUE
  Faults = {"stop"}
SPECIFICATION FairServiceSpec
INVARIANT ServiceTypeOK
INVARIANT ShutdownIsComplete
INVARIANT ReadyIsDrained
PROPERTY NoStartAfterStop
PROPERTY GateIsReleased
PROPERTY DrainEnds
PROPERTY TasksGetTheirTurn
CHECK_DEADLOCK FALSE
