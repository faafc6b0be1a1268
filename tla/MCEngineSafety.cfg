CONSTANTS
  Epochs = {e1, e2}
  Ops = {o1, o2}
  Clauses = {"c"}
  MaxVersion = 2
  EffectClasses = {"Observation", "IdempotentMutation"}
  NoEpoch = NoEpoch
  Targets <- MCTargets
  MaxCrashes = 0
  MaxControls = 2
  Controls = {"cancel", "cancelIdle", "configure", "quiesce", "misdirected"}
  Faults = {"workspace", "provider", "context", "wall", "dispatch", "steer", "abort", "refuse", "capture", "normalize", "report"}
  StartModes = {"FullAccess", "Approval"}
SPECIFICATION EngineSpec
SYMMETRY Symmetry
INVARIANT EngineTypeOK
INVARIANT OutcomeKnown
INVARIANT SuccessReported
INVARIANT ClausesRestOnSuccess
PROPERTY EffectsPermitted
PROPERTY UncertainBlocks
CHECK_DEADLOCK FALSE
