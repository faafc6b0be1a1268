CONSTANTS
  Epochs = {e1, e2}
  Ops = {o1, o2}
  Clauses = {"c"}
  MaxVersion = 2
  EffectClasses = {"Observation"}
  NoEpoch = NoEpoch
  Targets <- MCTargets
SPECIFICATION Spec
SYMMETRY Symmetry
INVARIANT TypeOK
INVARIANT StoreAlwaysOpens
INVARIANT SafeTerminal
PROPERTY StrandedForever
PROPERTY StrandedStopsTheTask
CHECK_DEADLOCK FALSE
