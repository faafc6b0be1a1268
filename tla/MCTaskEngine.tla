----------------------------- MODULE MCTaskEngine -----------------------------
(* The engine on one task; the configurations give the epochs, operations,   *)
(* controls and faults.                                                      *)
EXTENDS TaskEngine, TLC

\* What the engine passes to StateTransitioned.
MCTargets == {"Active", "Checkpointing", "Completing", "Failed", "Cancelled"}

\* Identifiers are random UUIDs that are only compared for equality.
Symmetry == Permutations(Epochs) \cup Permutations(Ops)
=============================================================================
