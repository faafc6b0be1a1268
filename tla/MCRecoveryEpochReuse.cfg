CONSTANTS
  Epochs = {e1, e2}
  Ops = {o1, o2}
  Clauses = {"c"}
  MaxVersion = 2
  EffectClasses = {"AmbiguousConsequential"}
  NoEpoch = NoEpoch
  Targets <- MCTargets
  MaxCrashes = 0
  MaxControls = 1
  Controls = {"configure"}
  Faults = {}
  StartModes = {"FullAccess"}
SPECIFICATION EngineSpec
INVARIANT RecoveryCanStart
CHECK_DEADLOCK FALSE
