CONSTANTS
  Epochs = {e1, e2, e3}
  Ops = {o1, o2}
  Clauses = {"c"}
  MaxVersion = 2
  EffectClasses = {"IdempotentMutation"}
  NoEpoch = NoEpoch
  Targets <- MCTargets
  MaxCrashes = 0
  MaxControls = 1
  Controls = {"cancel", "quiesce"}
  Faults = {"dispatch", "abort", "normalize"}
  StartModes = {"Approval"}
SPECIFICATION FairEngineSpec
PROPERTY Settles
PROPERTY EpochsEnd
CHECK_DEADLOCK FALSE
