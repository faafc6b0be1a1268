CONSTANTS
  Epochs = {e1, e2}
  Ops = {o1, o2}
  Clauses = {"c"}
  MaxVersion = 2
  EffectClasses = {"Observation", "AmbiguousConsequential"}
  NoEpoch = NoEpoch
  Targets <- MCTargets
  MaxCrashes = 2
  MaxControls = 1
  Controls = {"cancel"}
  Faults = {"context", "refuse", "workspace"}
  StartModes = {"FullAccess"}
SPECIFICATION EngineSpec
SYMMETRY Symmetry
INVARIANT OutcomeKnown
INVARIANT StartupReconciles
PROPERTY LifecycleSpec
CHECK_DEADLOCK FALSE
