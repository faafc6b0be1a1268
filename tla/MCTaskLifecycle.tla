--------------------------- MODULE MCTaskLifecycle ---------------------------
(* The reducer and its projections with every event the program journals,   *)
(* in every order, on two epochs and two operations.                        *)
EXTENDS TaskLifecycle, TLC

\* What the engine passes to StateTransitioned.
MCTargets == {"Active", "Checkpointing", "Completing", "Failed", "Cancelled"}

\* Identifiers are random UUIDs that are only compared for equality.
Symmetry == Permutations(Epochs) \cup Permutations(Ops)
=============================================================================
