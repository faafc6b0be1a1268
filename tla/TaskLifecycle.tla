---------------------------- MODULE TaskLifecycle ----------------------------
(***************************************************************************)
(* The durable life of one Carl task: the pure reducer                     *)
(* (src/src/runtime/task/reducer.rs, types.rs) together with the child      *)
(* projections that accept or reject the same event in the same SQLite      *)
(* transaction (src/src/storage/repository.rs).                            *)
(*                                                                         *)
(* One action per TaskEvent that changes the snapshot.  CanX is the guard   *)
(* of event X (everything that makes `append_task_event` fail), so that a   *)
(* client of the journal can ask whether an append would be rejected.       *)
(*                                                                         *)
(* Data abstraction: a contract is its version and the set of required     *)
(* clauses it marks satisfied; a checkpoint is how it relates to the latest *)
(* finished epoch; evidence sequence numbers are the flag fresh[o], "some   *)
(* unconsumed evidence of o is newer than o's last transition".             *)
(***************************************************************************)
EXTENDS Naturals, FiniteSets

CONSTANTS
  Epochs,        \* epoch identifiers
  Ops,           \* operation identifiers
  Clauses,       \* required clauses of the completion contract
  MaxVersion,    \* bound on the contract version (a u64 in the code)
  EffectClasses, \* the effect classes an intent may carry
  NoEpoch,       \* Option::None for an epoch
  Targets        \* the statuses some caller passes to StateTransitioned.to

Statuses == {"Queued", "Active", "Checkpointing", "Paused", "Blocked",
             "Cancelling", "Cancelled", "Completing", "Completed", "Failed"}
Terminal == {"Cancelled", "Completed", "Failed"}

OpStatuses == {"None", "IntentRecorded", "Started", "Succeeded", "Failed",
               "Cancelled", "Uncertain", "Reconciled"}
Resolved == {"Succeeded", "Failed", "Cancelled", "Reconciled"}
InFlight == {"IntentRecorded", "Started"}

\* An epoch is a fresh UUID, so it is never the absent one; nobody journals
\* StateTransitioned to Completed, that status is only reached by Completed.
ASSUME EpochAssumption == NoEpoch \notin Epochs
ASSUME TargetAssumption == Targets \subseteq Statuses \ {"Completed"}
ASSUME VersionAssumption == MaxVersion \in Nat \ {0}

VARIABLES
  status,           \* TaskSnapshot.status
  version,          \* TaskSnapshot.contract.version
  satisfied,        \* required clauses whose status is Satisfied
  activeEpoch,      \* TaskSnapshot.active_epoch
  epochIds,         \* primary keys of the task_epochs table
  opStatus,         \* OperationSnapshot.status, "None" before the intent
  opEpoch,          \* OperationSnapshot.epoch_id
  opClass,          \* task_operations.effect_class
  fresh,            \* unconsumed evidence newer than last_transition_sequence
  bound,            \* which postconditions the operation has bound
  checkpoint,       \* latest checkpoint relative to the latest EpochFinished
  context,          \* provider_context: never bound, bound, or lost
  pendingRecovery   \* epoch of the pending recovery attempt

epochVars == <<activeEpoch, epochIds>>
opVars == <<opStatus, opEpoch, opClass, fresh, bound>>
contractVars == <<version, satisfied>>
recoveryVars == <<checkpoint, context, pendingRecovery>>
lifecycleVars == <<status, version, satisfied, activeEpoch, epochIds, opStatus,
                   opEpoch, opClass, fresh, bound, checkpoint, context,
                   pendingRecovery>>

-----------------------------------------------------------------------------
(* Predicates of the snapshot *)

LegalStatusEdge ==
  ({"Queued"} \X {"Active", "Cancelling", "Failed"})
  \cup ({"Active"} \X {"Checkpointing", "Paused", "Blocked", "Cancelling",
                        "Completing", "Failed"})
  \cup ({"Checkpointing"} \X {"Active", "Paused", "Blocked", "Cancelling", "Failed"})
  \cup ({"Paused"} \X {"Active", "Blocked", "Cancelling", "Failed"})
  \cup ({"Blocked"} \X {"Active", "Cancelling", "Failed"})
  \cup ({"Cancelling"} \X {"Cancelled", "Blocked", "Failed"})
  \cup ({"Completing"} \X {"Completed", "Active", "Failed"})

LegalOperationEdge ==
  {<<"IntentRecorded", "Started">>, <<"Uncertain", "Reconciled">>}
  \cup ({"Started"} \X {"Succeeded", "Failed", "Cancelled", "Uncertain"})

Exists(o) == opStatus[o] # "None"
HasInFlightOperations == \E o \in Ops : opStatus[o] \in InFlight
HasUnresolvedOperations ==
  \E o \in Ops : Exists(o) /\ opStatus[o] \notin Resolved
StartedOperations == {o \in Ops : opStatus[o] = "Started"}
RequiredClausesSatisfied == satisfied = Clauses
\* Mutant: an uncertain operation does not count as unresolved.
RequireSettledInFlight == activeEpoch = NoEpoch /\ ~HasInFlightOperations
RequireSafeBoundary == activeEpoch = NoEpoch /\ ~HasUnresolvedOperations
OperationEpochActive(o) == Exists(o) /\ opEpoch[o] = activeEpoch
NotTerminal == status \notin Terminal
MayTransition(to) == <<status, to>> \in LegalStatusEdge

-----------------------------------------------------------------------------
(* Created *)

Init ==
  /\ status = "Queued"
  /\ version = 1
  /\ satisfied = {}
  /\ activeEpoch = NoEpoch
  /\ epochIds = {}
  /\ opStatus = [o \in Ops |-> "None"]
  /\ opEpoch = [o \in Ops |-> NoEpoch]
  /\ opClass = [o \in Ops |-> "None"]
  /\ fresh = [o \in Ops |-> FALSE]
  /\ bound = [o \in Ops |-> {}]
  /\ checkpoint = "none"
  /\ context = "never"
  /\ pendingRecovery = NoEpoch

(* Status and contract *)

CanStateTransitioned(to) ==
  /\ NotTerminal
  /\ to = "Cancelled" => RequireSafeBoundary
  /\ MayTransition(to)

StateTransitioned(to) ==
  /\ CanStateTransitioned(to)
  /\ status' = to
  /\ UNCHANGED <<contractVars, epochVars, opVars, recoveryVars>>

CanContractRevised(v) == NotTerminal /\ v > version

ContractRevised(v, clauses) ==
  /\ CanContractRevised(v)
  /\ version' = v
  /\ satisfied' = clauses
  /\ UNCHANGED <<status, epochVars, opVars, recoveryVars>>

CanCancellationRequested == NotTerminal /\ MayTransition("Cancelling")

CancellationRequested ==
  /\ CanCancellationRequested
  /\ status' = "Cancelling"
  /\ UNCHANGED <<contractVars, epochVars, opVars, recoveryVars>>

CanBlocked == NotTerminal /\ MayTransition("Blocked")

Blocked ==
  /\ CanBlocked
  /\ status' = "Blocked"
  /\ UNCHANGED <<contractVars, epochVars, opVars, recoveryVars>>

\* Mutant: completion forgets the safe boundary.
CanCompleteAnywhere ==
  /\ NotTerminal
  /\ RequiredClausesSatisfied
  /\ MayTransition("Completed")

CanCompleted ==
  /\ NotTerminal
  /\ RequireSafeBoundary
  /\ RequiredClausesSatisfied
  /\ MayTransition("Completed")

Completed ==
  /\ CanCompleted
  /\ status' = "Completed"
  /\ UNCHANGED <<contractVars, epochVars, opVars, recoveryVars>>

-----------------------------------------------------------------------------
(* Epochs.  The reducer compares identities; the INSERT into task_epochs    *)
(* rejects an identity that table already holds.                            *)

\* Mutant: task_epochs has no primary key.
AnyEpochRow(e) == e \in Epochs
FreshEpochRow(e) == e \notin epochIds

CanEpochStarted(e) ==
  /\ NotTerminal
  /\ activeEpoch = NoEpoch
  /\ status = "Active"
  /\ pendingRecovery \in {NoEpoch, e}
  /\ FreshEpochRow(e)

\* Mutant: the row inserted is the one of the previous active epoch.
EpochStartedStaleRow(e) ==
  /\ CanEpochStarted(e)
  /\ activeEpoch' = e
  /\ epochIds' = epochIds \cup {activeEpoch}
  /\ UNCHANGED <<status, contractVars, opVars, recoveryVars>>

EpochStarted(e) ==
  /\ CanEpochStarted(e)
  /\ activeEpoch' = e
  /\ epochIds' = epochIds \cup {e}
  /\ UNCHANGED <<status, contractVars, opVars, recoveryVars>>

\* Mutant: an epoch may end with operations in flight.
CanEndEpochUnchecked(e) == NotTerminal /\ activeEpoch = e

CanEndEpoch(e) ==
  /\ NotTerminal
  /\ activeEpoch = e
  /\ ~HasInFlightOperations

EpochFinished(e) ==
  /\ CanEndEpoch(e)
  /\ activeEpoch' = NoEpoch
  /\ checkpoint' = IF checkpoint = "covering" THEN "stale" ELSE checkpoint
  /\ UNCHANGED <<status, contractVars, epochIds, opVars, context, pendingRecovery>>

EpochInterrupted(e) ==
  /\ CanEndEpoch(e)
  /\ activeEpoch' = NoEpoch
  /\ UNCHANGED <<status, contractVars, epochIds, opVars, recoveryVars>>

-----------------------------------------------------------------------------
(* Operations *)

CanOperationIntentRecorded(o) ==
  /\ NotTerminal
  /\ activeEpoch # NoEpoch
  /\ ~Exists(o)

OperationIntentRecorded(o, class) ==
  /\ CanOperationIntentRecorded(o)
  /\ opStatus' = [opStatus EXCEPT ![o] = "IntentRecorded"]
  /\ opEpoch' = [opEpoch EXCEPT ![o] = activeEpoch]
  /\ opClass' = [opClass EXCEPT ![o] = class]
  /\ UNCHANGED <<status, contractVars, epochVars, fresh, bound, recoveryVars>>

\* OperationPostconditionBound binds the legacy digest of an intent,
\* OperationFilePostconditionBound the file postcondition of a started one.
CanPostconditionBound(o, kind) ==
  /\ NotTerminal
  /\ OperationEpochActive(o)
  /\ opStatus[o] = (IF kind = "file" THEN "Started" ELSE "IntentRecorded")
  /\ kind \notin bound[o]

PostconditionBound(o, kind) ==
  /\ CanPostconditionBound(o, kind)
  /\ bound' = [bound EXCEPT ![o] = @ \cup {kind}]
  /\ UNCHANGED <<status, contractVars, epochVars, opStatus, opEpoch, opClass,
                 fresh, recoveryVars>>

CanOperationEvidenceRecorded(o) ==
  /\ NotTerminal
  /\ OperationEpochActive(o)
  /\ opStatus[o] \in {"Started", "Uncertain"}

OperationEvidenceRecorded(o) ==
  /\ CanOperationEvidenceRecorded(o)
  /\ fresh' = [fresh EXCEPT ![o] = TRUE]
  /\ UNCHANGED <<status, contractVars, epochVars, opStatus, opEpoch, opClass,
                 bound, recoveryVars>>

CanOperationTransitioned(o, from, to) ==
  /\ NotTerminal
  /\ OperationEpochActive(o)
  /\ opStatus[o] = from
  /\ <<from, to>> \in LegalOperationEdge
  /\ to \notin InFlight => fresh[o]

OperationTransitioned(o, from, to) ==
  /\ CanOperationTransitioned(o, from, to)
  /\ opStatus' = [opStatus EXCEPT ![o] = to]
  /\ fresh' = [fresh EXCEPT ![o] = FALSE]
  /\ UNCHANGED <<status, contractVars, epochVars, opEpoch, opClass, bound,
                 recoveryVars>>

\* Opening the store appends, in ONE transaction, evidence and
\* Started -> Uncertain for every started operation of a live task; any
\* rejected append makes the store fail to open.
CanReconcileAbandonedOperations ==
  NotTerminal => \A o \in StartedOperations : OperationEpochActive(o)

ReconcileAbandonedOperations ==
  /\ CanReconcileAbandonedOperations
  /\ NotTerminal
  /\ opStatus' = [o \in Ops |-> IF o \in StartedOperations
                                THEN "Uncertain" ELSE opStatus[o]]
  /\ fresh' = [o \in Ops |-> IF o \in StartedOperations
                             THEN FALSE ELSE fresh[o]]
  /\ UNCHANGED <<status, contractVars, epochVars, opEpoch, opClass, bound,
                 recoveryVars>>

-----------------------------------------------------------------------------
(* Recovery attempts, checkpoints, provider context *)

CanRecoveryAttemptStarted ==
  /\ NotTerminal
  /\ status = "Checkpointing"
  /\ pendingRecovery = NoEpoch

RecoveryAttemptStarted(e) ==
  /\ CanRecoveryAttemptStarted
  /\ pendingRecovery' = e
  /\ UNCHANGED <<status, contractVars, epochVars, opVars, checkpoint, context>>

CanRecoveryAttemptRecorded(e) ==
  /\ NotTerminal
  /\ activeEpoch = NoEpoch
  /\ pendingRecovery = e

RecoveryAttemptRecorded(e) ==
  /\ CanRecoveryAttemptRecorded(e)
  /\ pendingRecovery' = NoEpoch
  /\ UNCHANGED <<status, contractVars, epochVars, opVars, checkpoint, context>>

CanCheckpointCommitted == NotTerminal /\ RequireSafeBoundary

CheckpointCommitted ==
  /\ CanCheckpointCommitted
  /\ checkpoint' = "covering"
  /\ UNCHANGED <<status, contractVars, epochVars, opVars, context, pendingRecovery>>

CanCompactionCompleted ==
  NotTerminal /\ RequireSafeBoundary /\ checkpoint # "none"

ProviderContextBound ==
  /\ NotTerminal
  /\ context' = "bound"
  /\ UNCHANGED <<status, contractVars, epochVars, opVars, checkpoint, pendingRecovery>>

CanProviderContextLost == NotTerminal /\ context = "bound"

ProviderContextLost ==
  /\ CanProviderContextLost
  /\ context' = "lost"
  /\ UNCHANGED <<status, contractVars, epochVars, opVars, checkpoint, pendingRecovery>>

-----------------------------------------------------------------------------
Next ==
  \/ \E to \in Targets : StateTransitioned(to)
  \/ \E v \in 2 .. MaxVersion, c \in SUBSET Clauses : ContractRevised(v, c)
  \/ CancellationRequested
  \/ Blocked
  \/ Completed
  \/ \E e \in Epochs : EpochStarted(e)
  \/ \E e \in Epochs : EpochFinished(e)
  \/ \E e \in Epochs : EpochInterrupted(e)
  \/ \E o \in Ops, c \in EffectClasses : OperationIntentRecorded(o, c)
  \/ \E o \in Ops, k \in {"digest", "file"} : PostconditionBound(o, k)
  \/ \E o \in Ops : OperationEvidenceRecorded(o)
  \/ \E o \in Ops, from, to \in OpStatuses : OperationTransitioned(o, from, to)
  \/ ReconcileAbandonedOperations
  \/ \E e \in Epochs : RecoveryAttemptStarted(e)
  \/ \E e \in Epochs : RecoveryAttemptRecorded(e)
  \/ CheckpointCommitted
  \/ ProviderContextBound
  \/ ProviderContextLost

Spec == Init /\ [][Next]_lifecycleVars

-----------------------------------------------------------------------------
(* Properties *)

\* Every component of the snapshot and of its projections keeps its type.
TypeOK ==
  /\ status \in Statuses
  /\ version \in Nat
  /\ satisfied \subseteq Clauses
  /\ activeEpoch \in Epochs \cup {NoEpoch}
  /\ epochIds \subseteq Epochs
  /\ opStatus \in [Ops -> OpStatuses]
  /\ opEpoch \in [Ops -> Epochs \cup {NoEpoch}]
  /\ opClass \in [Ops -> EffectClasses \cup {"None"}]
  /\ fresh \in [Ops -> BOOLEAN]
  /\ bound \in [Ops -> SUBSET {"digest", "file"}]
  /\ checkpoint \in {"none", "stale", "covering"}
  /\ context \in {"never", "bound", "lost"}
  /\ pendingRecovery \in Epochs \cup {NoEpoch}

\* Opening the store never fails on an abandoned operation: every operation
\* still in flight belongs to the epoch that is still active, so the evidence
\* and the Uncertain transition that reconcile_abandoned_task_operations
\* appends for it cannot be rejected.  It takes EpochFinished, EpochInterrupted
\* and the intent guard together to keep this.
StoreAlwaysOpens ==
  \A o \in Ops : opStatus[o] \in InFlight => opEpoch[o] = activeEpoch
                                             /\ activeEpoch # NoEpoch

\* A task that is reported completed or cancelled has no running epoch, no
\* operation whose outcome is unknown and, when completed, evidence for every
\* required clause, whatever the order of the events that led there.
SafeTerminal ==
  /\ status = "Completed" => RequireSafeBoundary /\ RequiredClausesSatisfied
  /\ status = "Cancelled" => RequireSafeBoundary

\* The epoch of an operation, and the active epoch, are rows of task_epochs.
KnownEpochs ==
  /\ activeEpoch # NoEpoch => activeEpoch \in epochIds
  /\ \A o \in Ops : Exists(o) => opEpoch[o] \in epochIds

\* An Uncertain operation whose epoch has ended is stranded: no later sequence
\* of events resolves it, because operation events need its epoch active and
\* the primary key of task_epochs keeps that epoch from being started again.
Stranded(o) == opStatus[o] = "Uncertain" /\ opEpoch[o] # activeEpoch
StrandedForever == [][\A o \in Ops : Stranded(o) => Stranded(o)']_lifecycleVars

\* While an operation is stranded the task can neither commit a checkpoint nor
\* complete nor finish a cancellation.
StrandedStopsTheTask ==
  [][(\E o \in Ops : Stranded(o)) =>
        /\ checkpoint' = "covering" => checkpoint = "covering"
        /\ status' \in {"Completed", "Cancelled"} => status' = status]_lifecycleVars
=============================================================================
