CONSTANTS
  Epochs = {e1, e2}
  Ops = {o1, o2}
  Clauses = {"c"}
  MaxVersion = 2
  EffectClasses = {"AmbiguousConsequential"}
  NoEpoch = NoEpoch
  Targets <- MCTargets
  MaxCrashes = 1
  MaxControls = 0
  Controls = {}
  Faults = {}
  StartModes = {"FullAccess"}
SPECIFICATION EngineSpec
PROPERTY UncertainBlocks
CHECK_DEADLOCK FALSE
