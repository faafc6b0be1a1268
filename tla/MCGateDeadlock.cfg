CONSTANTS
  Tasks = {t1, t2}
  NoTask = NoTask
  Kinds = {"cancel", "approve"}
  MaxRequests = 1
  WallBudget = FALSE
  Faults = {}
SPECIFICATION FairServiceSpec
PROPERTY GateIsReleased
CHECK_DEADLOCK FALSE
