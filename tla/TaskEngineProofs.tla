--------------------------- MODULE TaskEngineProofs ---------------------------
(***************************************************************************)
(* Proofs about the task, for every set of epochs, operations and clauses,  *)
(* every number of crashes and controls and every set of faults.            *)
(*                                                                         *)
(* First TaskLifecycle, the events the reducer accepts: the inductive       *)
(* invariant is LifecycleInv, each of its parts is preserved by each event, *)
(* and the named theorems follow.  Then TaskEngine, which implements it: a  *)
(* step of the engine is one event the reducer accepts, the reconciliation  *)
(* of RuntimeStore::open, or leaves the stored task alone, so what is       *)
(* proved of the lifecycle holds of the engine.                             *)
(***************************************************************************)
EXTENDS TaskEngine, TLAPS, SequenceTheorems

\* The inductive invariant of the lifecycle.
LifecycleInv == TypeOK /\ KnownEpochs /\ StoreAlwaysOpens /\ SafeTerminal

\* A terminal task accepts no event: every event's guard needs a live task, as
\* the reducer's TerminalState check and the store's skip of terminal tasks do.
LEMMA LiveStep == Next => NotTerminal
  BY DEF Next, StateTransitioned, CanStateTransitioned, ContractRevised,
         CanContractRevised, CancellationRequested, CanCancellationRequested,
         Blocked, CanBlocked, Completed, CanCompleted, EpochStarted,
         CanEpochStarted, EpochFinished, EpochInterrupted, CanEndEpoch,
         OperationIntentRecorded, CanOperationIntentRecorded,
         PostconditionBound, CanPostconditionBound,
         OperationEvidenceRecorded, CanOperationEvidenceRecorded,
         OperationTransitioned, CanOperationTransitioned,
         ReconcileAbandonedOperations, RecoveryAttemptStarted,
         CanRecoveryAttemptStarted, RecoveryAttemptRecorded,
         CanRecoveryAttemptRecorded, CheckpointCommitted,
         CanCheckpointCommitted, ProviderContextBound, ProviderContextLost,
         CanProviderContextLost

\* The initial snapshot (TaskSnapshot::created) satisfies the invariant.
LEMMA InitInv == Init => LifecycleInv
  BY EpochAssumption DEF Init, LifecycleInv, TypeOK, KnownEpochs,
     StoreAlwaysOpens, SafeTerminal, Exists, Statuses, OpStatuses, InFlight

\* Every event keeps every component of the snapshot well typed.
LEMMA TypeStep == TypeOK /\ [Next]_lifecycleVars => TypeOK'
<1> SUFFICES ASSUME TypeOK, [Next]_lifecycleVars PROVE TypeOK'
  OBVIOUS
<1> USE DEF TypeOK, epochVars, opVars, contractVars, recoveryVars
<1>1. CASE UNCHANGED lifecycleVars
  BY <1>1 DEF lifecycleVars
<1>2. ASSUME NEW to \in Targets, StateTransitioned(to) PROVE TypeOK'
  BY <1>2, TargetAssumption DEF StateTransitioned
<1>3. ASSUME NEW v \in 2 .. MaxVersion, NEW c \in SUBSET Clauses,
             ContractRevised(v, c) PROVE TypeOK'
  BY <1>3, VersionAssumption DEF ContractRevised
<1>4. CASE CancellationRequested \/ Blocked \/ Completed
  BY <1>4 DEF CancellationRequested, Blocked, Completed, Statuses
<1>5. ASSUME NEW e \in Epochs, EpochStarted(e) PROVE TypeOK'
  BY <1>5 DEF EpochStarted
<1>6. ASSUME NEW e \in Epochs, EpochFinished(e) \/ EpochInterrupted(e)
      PROVE TypeOK'
  BY <1>6 DEF EpochFinished, EpochInterrupted
<1>7. ASSUME NEW o \in Ops, NEW c \in EffectClasses,
             OperationIntentRecorded(o, c) PROVE TypeOK'
  BY <1>7 DEF OperationIntentRecorded, OpStatuses
<1>8. ASSUME NEW o \in Ops, NEW k \in {"digest", "file"},
             PostconditionBound(o, k) PROVE TypeOK'
  BY <1>8 DEF PostconditionBound
<1>9. ASSUME NEW o \in Ops, OperationEvidenceRecorded(o) PROVE TypeOK'
  BY <1>9 DEF OperationEvidenceRecorded
<1>10. ASSUME NEW o \in Ops, NEW from \in OpStatuses, NEW to \in OpStatuses,
              OperationTransitioned(o, from, to) PROVE TypeOK'
  BY <1>10 DEF OperationTransitioned
<1>11. CASE ReconcileAbandonedOperations
  BY <1>11 DEF ReconcileAbandonedOperations, OpStatuses
<1>12. ASSUME NEW e \in Epochs,
              RecoveryAttemptStarted(e) \/ RecoveryAttemptRecorded(e)
       PROVE TypeOK'
  BY <1>12 DEF RecoveryAttemptStarted, RecoveryAttemptRecorded
<1>13. CASE CheckpointCommitted \/ ProviderContextBound \/ ProviderContextLost
  BY <1>13 DEF CheckpointCommitted, ProviderContextBound, ProviderContextLost
<1> QED
  BY <1>1, <1>2, <1>3, <1>4, <1>5, <1>6, <1>7, <1>8, <1>9, <1>10, <1>11,
     <1>12, <1>13 DEF Next

\* The epochs that operations and the snapshot name stay rows of task_epochs.
LEMMA KnownEpochsStep ==
  TypeOK /\ KnownEpochs /\ [Next]_lifecycleVars => KnownEpochs'
<1> SUFFICES ASSUME TypeOK, KnownEpochs, [Next]_lifecycleVars
             PROVE KnownEpochs'
  OBVIOUS
<1> USE DEF TypeOK, KnownEpochs, Exists, epochVars, opVars
<1>1. CASE UNCHANGED <<activeEpoch, epochIds, opStatus, opEpoch>>
  BY <1>1
<1>2. ASSUME NEW e \in Epochs, EpochStarted(e) PROVE KnownEpochs'
  BY <1>2 DEF EpochStarted
<1>3. ASSUME NEW e \in Epochs, EpochFinished(e) \/ EpochInterrupted(e)
      PROVE KnownEpochs'
  BY <1>3 DEF EpochFinished, EpochInterrupted
<1>4. ASSUME NEW o \in Ops, NEW c \in EffectClasses,
             OperationIntentRecorded(o, c) PROVE KnownEpochs'
  BY <1>4 DEF OperationIntentRecorded, CanOperationIntentRecorded
<1>5. ASSUME NEW o \in Ops, NEW from \in OpStatuses, NEW to \in OpStatuses,
             OperationTransitioned(o, from, to) PROVE KnownEpochs'
  BY <1>5 DEF OperationTransitioned, CanOperationTransitioned,
              OperationEpochActive
<1>6. CASE ReconcileAbandonedOperations
  BY <1>6 DEF ReconcileAbandonedOperations, StartedOperations
<1>7. CASE UNCHANGED lifecycleVars
  BY <1>1, <1>7 DEF lifecycleVars
<1> QED
  BY <1>1, <1>2, <1>3, <1>4, <1>5, <1>6, <1>7
     DEF Next, StateTransitioned, ContractRevised, CancellationRequested,
         Blocked, Completed, PostconditionBound, OperationEvidenceRecorded,
         RecoveryAttemptStarted, RecoveryAttemptRecorded, CheckpointCommitted,
         ProviderContextBound, ProviderContextLost

\* Operations in flight stay in the active epoch: an epoch ends only when none
\* is in flight, and an intent takes the epoch that is active.
LEMMA StoreOpensStep ==
  TypeOK /\ StoreAlwaysOpens /\ [Next]_lifecycleVars => StoreAlwaysOpens'
<1> SUFFICES ASSUME TypeOK, StoreAlwaysOpens, [Next]_lifecycleVars
             PROVE StoreAlwaysOpens'
  OBVIOUS
<1> USE DEF TypeOK, StoreAlwaysOpens, Exists, epochVars, opVars
<1>1. CASE UNCHANGED <<activeEpoch, opStatus, opEpoch>>
  BY <1>1
<1>2. ASSUME NEW e \in Epochs, EpochStarted(e) PROVE StoreAlwaysOpens'
  BY <1>2, EpochAssumption DEF EpochStarted, CanEpochStarted
<1>3. ASSUME NEW e \in Epochs, EpochFinished(e) \/ EpochInterrupted(e)
      PROVE StoreAlwaysOpens'
  BY <1>3 DEF EpochFinished, EpochInterrupted, CanEndEpoch,
              HasInFlightOperations
<1>4. ASSUME NEW o \in Ops, NEW c \in EffectClasses,
             OperationIntentRecorded(o, c) PROVE StoreAlwaysOpens'
  BY <1>4 DEF OperationIntentRecorded, CanOperationIntentRecorded
<1>5. ASSUME NEW o \in Ops, NEW from \in OpStatuses, NEW to \in OpStatuses,
             OperationTransitioned(o, from, to) PROVE StoreAlwaysOpens'
  <2>1. to \in InFlight => from \in InFlight
    BY <1>5 DEF OperationTransitioned, CanOperationTransitioned,
                LegalOperationEdge, InFlight
  <2> QED
    BY <1>5, <2>1 DEF OperationTransitioned, CanOperationTransitioned
<1>6. CASE ReconcileAbandonedOperations
  BY <1>6 DEF ReconcileAbandonedOperations, StartedOperations, InFlight
<1>7. CASE UNCHANGED lifecycleVars
  BY <1>1, <1>7 DEF lifecycleVars
<1> QED
  BY <1>1, <1>2, <1>3, <1>4, <1>5, <1>6, <1>7
     DEF Next, StateTransitioned, ContractRevised, CancellationRequested,
         Blocked, Completed, PostconditionBound, OperationEvidenceRecorded,
         RecoveryAttemptStarted, RecoveryAttemptRecorded, CheckpointCommitted,
         ProviderContextBound, ProviderContextLost

\* A task enters Completed or Cancelled only at a safe boundary (and with every
\* clause satisfied when completed), and a terminal task no longer moves.
LEMMA SafeTerminalStep ==
  TypeOK /\ SafeTerminal /\ [Next]_lifecycleVars => SafeTerminal'
<1> SUFFICES ASSUME TypeOK, SafeTerminal, [Next]_lifecycleVars
             PROVE SafeTerminal'
  OBVIOUS
<1> USE DEF SafeTerminal, RequireSafeBoundary, HasUnresolvedOperations,
            RequiredClausesSatisfied, Exists, contractVars, epochVars, opVars
<1>1. CASE UNCHANGED lifecycleVars
  BY <1>1 DEF lifecycleVars
<1>2. ASSUME NEW to \in Targets, StateTransitioned(to) PROVE SafeTerminal'
  BY <1>2, TargetAssumption DEF StateTransitioned, CanStateTransitioned
<1>3. CASE CancellationRequested \/ Blocked
  BY <1>3 DEF CancellationRequested, Blocked
<1>4. CASE Completed
  BY <1>4 DEF Completed, CanCompleted
<1>5. CASE Next /\ status' = status
  BY <1>5, LiveStep DEF NotTerminal, Terminal
<1> QED
  BY <1>1, <1>2, <1>3, <1>4, <1>5
     DEF Next, ContractRevised, EpochStarted, EpochFinished, EpochInterrupted,
         OperationIntentRecorded, PostconditionBound,
         OperationEvidenceRecorded, OperationTransitioned,
         ReconcileAbandonedOperations, RecoveryAttemptStarted,
         RecoveryAttemptRecorded, CheckpointCommitted, ProviderContextBound,
         ProviderContextLost

\* The inductive invariant holds in every reachable state.
THEOREM LifecycleInvariant == Spec => []LifecycleInv
<1>1. LifecycleInv /\ [Next]_lifecycleVars => LifecycleInv'
  BY TypeStep, KnownEpochsStep, StoreOpensStep, SafeTerminalStep
     DEF LifecycleInv
<1> QED
  BY InitInv, <1>1, PTL DEF Spec

\* Type correctness of the snapshot and its projections.
THEOREM TypeCorrect == Spec => []TypeOK
<1>1. LifecycleInv => TypeOK
  BY DEF LifecycleInv
<1> QED
  BY LifecycleInvariant, <1>1, PTL

\* Whatever was journalled before a crash, no in-flight operation is outside
\* the active epoch, so opening the store cannot be rejected.
THEOREM StoreOpens == Spec => []StoreAlwaysOpens
<1>1. LifecycleInv => StoreAlwaysOpens
  BY DEF LifecycleInv
<1> QED
  BY LifecycleInvariant, <1>1, PTL

\* Completed and Cancelled are only ever reached at a safe boundary, Completed
\* only with evidence for every required clause.
THEOREM TerminalIsSafe == Spec => []SafeTerminal
<1>1. LifecycleInv => SafeTerminal
  BY DEF LifecycleInv
<1> QED
  BY LifecycleInvariant, <1>1, PTL

\* An Uncertain operation whose epoch ended is never resolved again.
LEMMA StrandedStep ==
  LifecycleInv /\ [Next]_lifecycleVars
    => \A o \in Ops : Stranded(o) => Stranded(o)'
<1> SUFFICES ASSUME LifecycleInv, [Next]_lifecycleVars,
                    NEW p \in Ops, Stranded(p)
             PROVE Stranded(p)'
  OBVIOUS
<1> USE DEF LifecycleInv, Stranded, TypeOK, KnownEpochs, Exists, epochVars,
            opVars
<1>0. opEpoch[p] \in epochIds /\ opEpoch[p] # NoEpoch
  BY EpochAssumption
<1>1. CASE UNCHANGED <<activeEpoch, opStatus, opEpoch>>
  BY <1>1
<1>2. ASSUME NEW e \in Epochs, EpochStarted(e) PROVE Stranded(p)'
  BY <1>0, <1>2 DEF EpochStarted, CanEpochStarted, FreshEpochRow
<1>3. ASSUME NEW e \in Epochs, EpochFinished(e) \/ EpochInterrupted(e)
      PROVE Stranded(p)'
  BY <1>0, <1>3 DEF EpochFinished, EpochInterrupted
<1>4. ASSUME NEW o \in Ops, NEW c \in EffectClasses,
             OperationIntentRecorded(o, c) PROVE Stranded(p)'
  BY <1>4 DEF OperationIntentRecorded, CanOperationIntentRecorded
<1>5. ASSUME NEW o \in Ops, NEW from \in OpStatuses, NEW to \in OpStatuses,
             OperationTransitioned(o, from, to) PROVE Stranded(p)'
  BY <1>5 DEF OperationTransitioned, CanOperationTransitioned,
              OperationEpochActive
<1>6. CASE ReconcileAbandonedOperations
  BY <1>6 DEF ReconcileAbandonedOperations, StartedOperations
<1>7. CASE UNCHANGED lifecycleVars
  BY <1>1, <1>7 DEF lifecycleVars
<1> QED
  BY <1>1, <1>2, <1>3, <1>4, <1>5, <1>6, <1>7
     DEF Next, StateTransitioned, ContractRevised, CancellationRequested,
         Blocked, Completed, PostconditionBound, OperationEvidenceRecorded,
         RecoveryAttemptStarted, RecoveryAttemptRecorded, CheckpointCommitted,
         ProviderContextBound, ProviderContextLost

\* Stranded operations stay stranded, on every behaviour: task_epochs never
\* lets an ended epoch become active again, and without it no event resolves
\* the operation.
THEOREM StrandedNeverResolves == Spec => StrandedForever
<1>1. LifecycleInv /\ [Next]_lifecycleVars
        => [\A o \in Ops : Stranded(o) => Stranded(o)']_lifecycleVars
  BY StrandedStep
<1> QED
  BY LifecycleInvariant, <1>1, PTL DEF Spec, StrandedForever

\* With a stranded operation the task can only be blocked or failed: it commits
\* no checkpoint, never completes, and a cancellation never finishes.
THEOREM StrandedBlocksCompletion == Spec => StrandedStopsTheTask
<1> DEFINE Stops ==
      (\E o \in Ops : Stranded(o)) =>
        /\ checkpoint' = "covering" => checkpoint = "covering"
        /\ status' \in {"Completed", "Cancelled"} => status' = status
<1>1. TypeOK /\ Next => Stops
  <2> SUFFICES ASSUME TypeOK, Next, NEW p \in Ops, Stranded(p)
               PROVE /\ checkpoint' = "covering" => checkpoint = "covering"
                     /\ status' \in {"Completed", "Cancelled"} => status' = status
    OBVIOUS
  <2>1. ~RequireSafeBoundary
    BY DEF RequireSafeBoundary, HasUnresolvedOperations, Stranded, Exists,
           Resolved
  <2>2. checkpoint' = "covering" => checkpoint = "covering"
    BY <2>1 DEF Next, StateTransitioned, ContractRevised,
         CancellationRequested, Blocked, Completed, EpochStarted,
         EpochFinished, EpochInterrupted, OperationIntentRecorded,
         PostconditionBound, OperationEvidenceRecorded, OperationTransitioned,
         ReconcileAbandonedOperations, RecoveryAttemptStarted,
         RecoveryAttemptRecorded, CheckpointCommitted, CanCheckpointCommitted,
         ProviderContextBound, ProviderContextLost, recoveryVars
  <2>3. status' \in {"Completed", "Cancelled"} => status' = status
    BY <2>1, TargetAssumption
       DEF Next, StateTransitioned, CanStateTransitioned, ContractRevised,
         CancellationRequested, Blocked, Completed, CanCompleted, EpochStarted,
         EpochFinished, EpochInterrupted, OperationIntentRecorded,
         PostconditionBound, OperationEvidenceRecorded, OperationTransitioned,
         ReconcileAbandonedOperations, RecoveryAttemptStarted,
         RecoveryAttemptRecorded, CheckpointCommitted,
         ProviderContextBound, ProviderContextLost
  <2> QED
    BY <2>2, <2>3
<1>2. LifecycleInv /\ [Next]_lifecycleVars => [Stops]_lifecycleVars
  BY <1>1 DEF LifecycleInv
<1> QED
  BY LifecycleInvariant, <1>2, PTL DEF Spec, StrandedStopsTheTask

-----------------------------------------------------------------------------
\* An append of a script is a step of the lifecycle.  A contract revision adds
\* claimed clauses to the satisfied ones, so it needs their type.
LEMMA JournalImplements ==
  ASSUME TypeOK, NEW e, Journal(e)
  PROVE  [Next]_lifecycleVars
<1>1. CASE \E s \in Targets : e = To(s) /\ StateTransitioned(s)
  BY <1>1 DEF Next
<1>2. CASE \E v \in 2 .. MaxVersion, c \in SUBSET Clauses :
             /\ e = Revise(c)
             /\ v = version + 1
             /\ ContractRevised(v, satisfied \cup c)
  <2>1. PICK v \in 2 .. MaxVersion, c \in SUBSET Clauses :
               ContractRevised(v, satisfied \cup c)
    BY <1>2
  <2>2. satisfied \cup c \in SUBSET Clauses
    BY DEF TypeOK
  <2>3. QED
    BY <2>1, <2>2 DEF Next
<1>3. CASE \E x \in Epochs : \/ e = Start(x) /\ EpochStarted(x)
                             \/ e = Finish /\ EpochFinished(x)
                             \/ e = Interrupt /\ EpochInterrupted(x)
                             \/ e = Recover(x) /\ RecoveryAttemptStarted(x)
                             \/ e = Recovered(x) /\ RecoveryAttemptRecorded(x)
  BY <1>3 DEF Next
<1>4. CASE \/ \E o \in Ops, c \in EffectClasses :
                e = Intent(o, c) /\ OperationIntentRecorded(o, c)
           \/ \E o \in Ops : e = Bind(o) /\ PostconditionBound(o, "file")
           \/ \E o \in Ops : e = Evidence(o) /\ OperationEvidenceRecorded(o)
           \/ \E o \in Ops, from, to \in OpStatuses :
                e = Op(o, from, to) /\ OperationTransitioned(o, from, to)
  BY <1>4 DEF Next
<1>5. CASE \/ e = Checkpoint /\ CheckpointCommitted
           \/ e = Bound /\ ProviderContextBound
           \/ e = Lost /\ ProviderContextLost
           \/ e = Cancel /\ CancellationRequested
           \/ e = Block /\ Blocked
           \/ e = Complete /\ Completed
  BY <1>5 DEF Next
<1>6. CASE e = Compacted /\ CanCompactionCompleted /\ UNCHANGED lifecycleVars
  BY <1>6
<1>7. QED
  BY <1>1, <1>2, <1>3, <1>4, <1>5, <1>6 DEF Journal

\* Choosing, skipping or abandoning a script does not touch the stored task.
LEMMA ScriptsLeaveTheTask ==
  ASSUME \/ ConfigurationStep \/ AllowStep \/ SkipStep \/ CloseStep \/ RejectStep
         \/ PrepareStartupTask \/ Run \/ Activate \/ ReconcileAbandonedEpoch
         \/ NoAbandonedEpoch \/ RecoverCheckpointing \/ ResumeProviderContext
         \/ StartEpoch \/ StartProviderEpoch
  PROVE  UNCHANGED lifecycleVars
<1>1. CASE ConfigurationStep \/ AllowStep \/ SkipStep \/ CloseStep \/ RejectStep
  BY <1>1 DEF ConfigurationStep, AllowStep, SkipStep, CloseStep, RejectStep
<1>2. CASE PrepareStartupTask \/ Run \/ Activate \/ StartEpoch \/ StartProviderEpoch
  BY <1>2 DEF PrepareStartupTask, Run, Activate, StartEpoch, StartProviderEpoch,
              OnlyControl
<1>3. CASE \/ ReconcileAbandonedEpoch \/ NoAbandonedEpoch
           \/ RecoverCheckpointing \/ ResumeProviderContext
  BY <1>3 DEF ReconcileAbandonedEpoch, NoAbandonedEpoch, RecoverCheckpointing,
              ResumeProviderContext, OnlyControl
<1>4. QED
  BY <1>1, <1>2, <1>3

\* Neither does hearing the provider: its events only choose scripts.
LEMMA ProviderLeavesTheTask ==
  ProviderStep => UNCHANGED lifecycleVars
<1>1. AbortEpoch \/ SoftBoundary \/ EffectRequested \/ ApprovalDecided
        => UNCHANGED lifecycleVars
  BY DEF AbortEpoch, SoftBoundary, EffectRequested, ApprovalDecided, OnlyControl
<1>2. ItemCompleted \/ CommandObserved \/ EpochCompletedBadly \/ EpochCompleted
        => UNCHANGED lifecycleVars
  BY DEF ItemCompleted, CommandObserved, EpochCompletedBadly, EpochCompleted
<1>3. QED
  BY <1>1, <1>2 DEF ProviderStep

\* Nor do the owner's controls, nor a crash.
LEMMA OwnerLeavesTheTask ==
  OwnerStep \/ Crash => UNCHANGED lifecycleVars
<1>1. CancelWorking \/ CancelAwaiting \/ CancelIdle \/ Crash
        => UNCHANGED lifecycleVars
  BY DEF CancelWorking, CancelAwaiting, CancelIdle, Crash
<1>2. ConfigureWorking \/ ConfigureAwaiting \/ ConfigureIdle
        => UNCHANGED lifecycleVars
  BY DEF ConfigureWorking, ConfigureAwaiting, ConfigureIdle
<1>3. Quiesce \/ CompactIdle \/ MisdirectedControl => UNCHANGED lifecycleVars
  BY DEF Quiesce, CompactIdle, MisdirectedControl
<1>4. QED
  BY <1>1, <1>2, <1>3 DEF OwnerStep

\* Every step of the engine is a step of the lifecycle or a stutter of it.
LEMMA EngineStepImplements ==
  TypeOK /\ [EngineNext]_engineVars => [Next]_lifecycleVars
<1> SUFFICES ASSUME TypeOK, [EngineNext]_engineVars
             PROVE  [Next]_lifecycleVars
  OBVIOUS
<1>1. CASE AppendStep
  BY <1>1, JournalImplements DEF AppendStep
<1>2. CASE OpenStore
  BY <1>2 DEF OpenStore, Next
<1>3. CASE ProviderStep \/ OwnerStep \/ Crash
  BY <1>3, ProviderLeavesTheTask, OwnerLeavesTheTask
<1>4. CASE EngineStep
  BY <1>4, <1>1, <1>2, ScriptsLeaveTheTask DEF EngineStep
<1>5. CASE UNCHANGED engineVars
  BY <1>5 DEF engineVars
<1>6. QED
  BY <1>3, <1>4, <1>5 DEF EngineNext

\* The engine of engine.rs, with crashes, controls and provider failures,
\* implements the lifecycle that reducer.rs and repository.rs accept.
THEOREM EngineImplementsLifecycle == EngineSpec => LifecycleSpec
<1>1. EngineInit => Init
  BY DEF EngineInit
<1>2. EngineInit => TypeOK
  BY <1>1, InitInv DEF LifecycleInv
<1>3. TypeOK /\ [EngineNext]_engineVars => TypeOK'
  BY EngineStepImplements, TypeStep
<1>4. EngineSpec => []TypeOK
  BY <1>2, <1>3, PTL DEF EngineSpec
<1>5. QED
  BY <1>1, <1>4, EngineStepImplements, PTL DEF EngineSpec, LifecycleSpec, Spec

\* Whatever the engine went through, a task it reports as completed or
\* cancelled is at a safe boundary, and a completed one has all its clauses.
THEOREM EngineTerminalIsSafe == EngineSpec => []SafeTerminal
  BY EngineImplementsLifecycle, TerminalIsSafe DEF LifecycleSpec

\* Wherever the engine crashed, the store opens again.
THEOREM EngineStoreOpens == EngineSpec => []StoreAlwaysOpens
  BY EngineImplementsLifecycle, StoreOpens DEF LifecycleSpec

\* Whatever the engine does afterwards, restarts included, an operation left
\* uncertain in an ended epoch stays uncertain.
THEOREM EngineStrandedForever == EngineSpec => StrandedForever
  BY EngineImplementsLifecycle, StrandedNeverResolves DEF LifecycleSpec

-----------------------------------------------------------------------------
(***************************************************************************)
(* The effects of a task, for every number of epochs, operations, crashes   *)
(* and controls and every set of faults: no outcome is invented, successes  *)
(* were reported, clauses were earned, and every effect that is let through *)
(* was permitted when it was.                                               *)
(*                                                                         *)
(* None of these is inductive alone, because a handler decides and its      *)
(* script acts later, one append at a time.  The invariant EffectInv says   *)
(* what every entry still in `todo` rests on (OperationScripts: an Allow is *)
(* reached only through the intent and the start of its operation, an       *)
(* outcome only after the report, a claim only after a success), and what   *)
(* the control points of an epoch imply about the task (ControlPoints).     *)
(* Most handlers leave a CALM script, one without such entries, and are     *)
(* dealt with at once by CalmSteps.                                         *)
(***************************************************************************)

-----------------------------------------------------------------------------
(* Scripts as sequences of entries *)

\* The entries of a script, and the scripts: sequences of their entries.
Entries(s) == {s[i] : i \in DOMAIN s}
IsScript(s) == s \in Seq(Entries(s))

\* The empty script.
LEMMA EmptyScript == IsScript(<<>>) /\ Entries(<<>>) = {}
  BY DEF IsScript, Entries

\* A script of one entry.
LEMMA OneEntry ==
  ASSUME NEW a
  PROVE  /\ IsScript(<<a>>) /\ Entries(<<a>>) = {a} /\ <<a>> # <<>>
         /\ Head(<<a>>) = a /\ Tail(<<a>>) = <<>>
  BY DEF IsScript, Entries

\* A script of two entries.
LEMMA TwoEntries ==
  ASSUME NEW a, NEW b
  PROVE  /\ IsScript(<<a, b>>) /\ Entries(<<a, b>>) = {a, b} /\ <<a, b>> # <<>>
         /\ Head(<<a, b>>) = a /\ Tail(<<a, b>>) = <<b>>
  BY DEF IsScript, Entries

\* A script of three entries.
LEMMA ThreeEntries ==
  ASSUME NEW a, NEW b, NEW c
  PROVE  /\ IsScript(<<a, b, c>>) /\ Entries(<<a, b, c>>) = {a, b, c} /\ <<a, b, c>> # <<>>
         /\ Head(<<a, b, c>>) = a /\ Tail(<<a, b, c>>) = <<b, c>>
  BY DEF IsScript, Entries

\* Joining two scripts of one entry.
LEMMA Appended ==
  ASSUME NEW a, NEW b
  PROVE  <<a>> \o <<b>> = <<a, b>>
<1> DEFINE S == {a, b}
           s == <<a>>
           t == <<b>>
           u == <<a, b>>
<1>1. s \in Seq(S) /\ t \in Seq(S) /\ u \in Seq(S)
      /\ Len(s) = 1 /\ Len(t) = 1 /\ Len(u) = 2
      /\ s[1] = a /\ t[1] = b /\ u[1] = a /\ u[2] = b
  OBVIOUS
<1> HIDE DEF s, t, u
<1>2. s \o t \in Seq(S) /\ Len(s \o t) = Len(s) + Len(t)
      /\ \A i \in 1 .. Len(s) + Len(t) :
           (s \o t)[i] = IF i <= Len(s) THEN s[i] ELSE t[i - Len(s)]
  BY <1>1, ConcatProperties
<1>3. \A i \in 1 .. 2 : i = 1 \/ i = 2
  OBVIOUS
<1>4. \A i \in 1 .. Len(s \o t) : (s \o t)[i] = u[i]
  BY <1>1, <1>2, <1>3
<1>5. s \o t = u
  BY <1>1, <1>2, <1>4, SeqEqual
<1>6. QED
  BY <1>5 DEF s, t, u

\* Joining scripts joins their entries and keeps the first head.
LEMMA Joined ==
  ASSUME NEW s, NEW t, IsScript(s), IsScript(t)
  PROVE  /\ IsScript(s \o t)
         /\ Entries(s \o t) = Entries(s) \cup Entries(t)
         /\ s # <<>> => /\ s \o t # <<>>
                        /\ Head(s \o t) = Head(s)
                        /\ Tail(s \o t) = Tail(s) \o t
         /\ <<>> \o t = t
         /\ s \o <<>> = s
<1> DEFINE S == Entries(s) \cup Entries(t)
<1>1. s \in Seq(S) /\ t \in Seq(S)
  BY SeqMonotonic DEF IsScript
<1>2. s \o t \in Seq(S) /\ Len(s \o t) = Len(s) + Len(t)
      /\ \A i \in 1 .. Len(s) + Len(t) :
           (s \o t)[i] = IF i <= Len(s) THEN s[i] ELSE t[i - Len(s)]
  BY <1>1, ConcatProperties
<1>3. ASSUME NEW e PROVE e \in Entries(s \o t) <=> e \in S
  <2>1. ASSUME e \in Entries(s \o t) PROVE e \in S
    BY <2>1, <1>1, <1>2 DEF Entries
  <2>2. ASSUME e \in Entries(s) PROVE e \in Entries(s \o t)
    <3>1. PICK i \in 1 .. Len(s) : e = s[i]
      BY <2>2, <1>1 DEF Entries
    <3>2. i \in 1 .. Len(s) + Len(t) /\ (s \o t)[i] = e
      BY <3>1, <1>1, <1>2
    <3>3. QED
      BY <3>2, <1>2 DEF Entries
  <2>3. ASSUME e \in Entries(t) PROVE e \in Entries(s \o t)
    <3>1. PICK i \in 1 .. Len(t) : e = t[i]
      BY <2>3, <1>1 DEF Entries
    <3>2. Len(s) + i \in 1 .. Len(s) + Len(t) /\ (s \o t)[Len(s) + i] = e
      BY <3>1, <1>1, <1>2
    <3>3. QED
      BY <3>2, <1>2 DEF Entries
  <2>4. QED
    BY <2>1, <2>2, <2>3
<1>4. Entries(s \o t) = S
  BY <1>3
<1>5. QED
  BY <1>1, <1>2, <1>4 DEF IsScript

\* Performing the first entry of a script leaves a script of the others.
LEMMA Popped ==
  ASSUME NEW s, IsScript(s), s # <<>>
  PROVE  /\ IsScript(Tail(s))
         /\ Entries(s) = {Head(s)} \cup Entries(Tail(s))
<1>1. /\ Tail(s) \in Seq(Entries(s))
      /\ Len(Tail(s)) = Len(s) - 1
      /\ \A i \in 1 .. Len(Tail(s)) : Tail(s)[i] = s[i + 1]
      /\ Head(s) = s[1]
      /\ Len(s) \in Nat \ {0} /\ DOMAIN s = 1 .. Len(s)
      /\ DOMAIN Tail(s) = 1 .. Len(Tail(s))
  BY HeadTailProperties DEF IsScript
<1>2. ASSUME NEW e PROVE e \in Entries(s) <=> e = Head(s) \/ e \in Entries(Tail(s))
  <2>1. ASSUME e \in Entries(s), e # Head(s) PROVE e \in Entries(Tail(s))
    <3>1. PICK i \in 1 .. Len(s) : e = s[i]
      BY <2>1, <1>1 DEF Entries
    <3>2. i - 1 \in 1 .. Len(Tail(s)) /\ Tail(s)[i - 1] = e
      BY <3>1, <2>1, <1>1
    <3>3. QED
      BY <3>2, <1>1 DEF Entries
  <2>2. ASSUME e \in Entries(Tail(s)) PROVE e \in Entries(s)
    <3>1. PICK i \in 1 .. Len(Tail(s)) : e = Tail(s)[i]
      BY <2>2, <1>1 DEF Entries
    <3>2. i + 1 \in 1 .. Len(s) /\ s[i + 1] = e
      BY <3>1, <1>1
    <3>3. QED
      BY <3>2, <1>1 DEF Entries
  <2>3. Head(s) \in Entries(s)
    BY <1>1 DEF Entries
  <2>4. QED
    BY <2>1, <2>2, <2>3
<1>3. Entries(s) = {Head(s)} \cup Entries(Tail(s))
  BY <1>2
<1>4. Tail(s) \in Seq(Entries(Tail(s)))
  <2> DEFINE t == Tail(s)
  <2>1. t \in Seq(Entries(s)) /\ DOMAIN t = 1 .. Len(t) /\ Len(t) \in Nat
    BY <1>1
  <2>2. \A i \in 1 .. Len(t) : t[i] \in Entries(t)
    BY <2>1 DEF Entries
  <2> HIDE DEF t
  <2>3. t \in [1 .. Len(t) -> Entries(s)]
    BY <2>1, LenProperties
  <2>4. t \in [1 .. Len(t) -> Entries(t)]
    BY <2>3, <2>2
  <2>5. t \in Seq(Entries(t))
    BY <2>1, <2>4, SeqDef
  <2>6. QED
    BY <2>5 DEF t
<1>5. QED
  BY <1>3, <1>4 DEF IsScript

-----------------------------------------------------------------------------
(* Entries *)

\* The kind of every entry that an invariant names.
LEMMA EntryKinds ==
  /\ \A s : To(s)[1] = "To"
  /\ \A c : Revise(c)[1] = "Revise"
  /\ \A e : Start(e)[1] = "Start"
  /\ Finish[1] = "Finish"
  /\ Interrupt[1] = "Interrupt"
  /\ \A o, c : Intent(o, c)[1] = "Intent"
  /\ \A o : Bind(o)[1] = "Bind"
  /\ \A o : Evidence(o)[1] = "Evidence"
  /\ \A o, from, to : Op(o, from, to)[1] = "Op"
  /\ \A e : Recover(e)[1] = "Recover"
  /\ \A e : Recovered(e)[1] = "Recovered"
  /\ Checkpoint[1] = "Checkpoint"
  /\ Compacted[1] = "Compacted"
  /\ Bound[1] = "Bound"
  /\ Lost[1] = "Lost"
  /\ Cancel[1] = "Cancel"
  /\ Block[1] = "Block"
  /\ Complete[1] = "Complete"
  /\ \A m : Configure(m)[1] = "Configure"
  /\ Apply[1] = "Apply"
  /\ \A o : Allow(o)[1] = "Allow"
  /\ CloseAll[1] = "CloseAll"
  /\ <<"FinishIfActive">>[1] = "FinishIfActive"
  /\ <<"BlockUnlessBlocked">>[1] = "BlockUnlessBlocked"
  /\ <<"CancelOrFail">>[1] = "CancelOrFail"
  BY DEF To, Revise, Start, Finish, Interrupt, Intent, Bind, Evidence, Op, Recover,
         Recovered, Checkpoint, Compacted, Bound, Lost, Cancel, Block, Complete,
         Configure, Apply, Allow, CloseAll

\* An entry determines its arguments.
LEMMA EntryFields ==
  /\ \A c : Revise(c)[2] = c
  /\ \A o, c : Intent(o, c)[2] = o /\ Intent(o, c)[3] = c
  /\ \A o : Bind(o)[2] = o
  /\ \A o, from, to : /\ Op(o, from, to)[2] = o
                      /\ Op(o, from, to)[3] = from
                      /\ Op(o, from, to)[4] = to
  /\ \A o : Allow(o)[2] = o
  /\ \A m : Configure(m)[2] = m
  BY DEF Revise, Intent, Bind, Op, Allow, Configure

\* Entries that no part of the invariant constrains: they let nothing through
\* and record no outcome but Uncertain.
CalmEntry(e) ==
  /\ e[1] \notin {"Revise", "Intent", "Bind", "Allow", "Apply"}
  /\ e[1] = "Op" => e[4] = "Uncertain"

Calm(s) == IsScript(s) /\ \A e \in Entries(s) : CalmEntry(e)

\* The calm entries.
LEMMA CalmEntries ==
  /\ \A s : CalmEntry(To(s))
  /\ \A e : CalmEntry(Start(e)) /\ CalmEntry(Recover(e)) /\ CalmEntry(Recovered(e))
  /\ \A o : CalmEntry(Evidence(o)) /\ CalmEntry(Op(o, "Started", "Uncertain"))
  /\ \A m : CalmEntry(Configure(m))
  /\ CalmEntry(Finish) /\ CalmEntry(Interrupt) /\ CalmEntry(Checkpoint)
  /\ CalmEntry(Compacted) /\ CalmEntry(Bound) /\ CalmEntry(Lost)
  /\ CalmEntry(Cancel) /\ CalmEntry(Block) /\ CalmEntry(Complete)
  /\ CalmEntry(CloseAll) /\ CalmEntry(<<"FinishIfActive">>)
  /\ CalmEntry(<<"BlockUnlessBlocked">>) /\ CalmEntry(<<"CancelOrFail">>)
  BY EntryKinds, EntryFields DEF CalmEntry

\* Calm scripts are put together from calm entries and calm scripts.
LEMMA CalmParts ==
  /\ Calm(<<>>)
  /\ \A a : CalmEntry(a) => Calm(<<a>>)
  /\ \A a, b : CalmEntry(a) /\ CalmEntry(b) => Calm(<<a, b>>)
  /\ \A a, b, c : CalmEntry(a) /\ CalmEntry(b) /\ CalmEntry(c) => Calm(<<a, b, c>>)
  /\ \A s, t : Calm(s) /\ Calm(t) => Calm(s \o t)
<1>1. Calm(<<>>)
  BY EmptyScript DEF Calm
<1>2. ASSUME NEW a, CalmEntry(a) PROVE Calm(<<a>>)
  BY <1>2, OneEntry DEF Calm
<1>3. ASSUME NEW a, NEW b, CalmEntry(a), CalmEntry(b) PROVE Calm(<<a, b>>)
  <2>1. IsScript(<<a, b>>) /\ Entries(<<a, b>>) = {a, b}
    BY TwoEntries, Zenon
  <2>2. QED
    BY <1>3, <2>1, Zenon DEF Calm
<1>4. ASSUME NEW a, NEW b, NEW c, CalmEntry(a), CalmEntry(b), CalmEntry(c)
      PROVE  Calm(<<a, b, c>>)
  <2>1. IsScript(<<a, b, c>>) /\ Entries(<<a, b, c>>) = {a, b, c}
    BY ThreeEntries, Zenon
  <2>2. QED
    BY <1>4, <2>1, Zenon DEF Calm
<1>5. ASSUME NEW s, NEW t, Calm(s), Calm(t) PROVE Calm(s \o t)
  BY <1>5, Joined DEF Calm
<1>6. QED
  BY <1>1, <1>2, <1>3, <1>4, <1>5

\* Four entries, as a tightening with open operations makes them.
LEMMA FourCalm ==
  ASSUME NEW a, NEW b, NEW c, NEW d, CalmEntry(a), CalmEntry(b), CalmEntry(c), CalmEntry(d)
  PROVE  Calm(<<a, b, c, d>>)
<1>1. IsScript(<<a, b, c, d>>) /\ Entries(<<a, b, c, d>>) = {a, b, c, d}
  BY DEF IsScript, Entries
<1>2. QED
  BY <1>1, Zenon DEF Calm

\* The handlers' scripts that only end, block, cancel or interrupt are calm.
LEMMA CalmHandlers ==
  /\ Calm(InterruptAndBlock)
  /\ Calm(InterruptAndFail)
  /\ Calm(FinishIfActive) /\ Calm(CancelOrFail)
  /\ \A o : Calm(CloseOperation(o, "Uncertain"))
  /\ \A o : Calm(Refusal(o, "Uncertain"))
  /\ \A c, b, l : Calm(c) /\ CalmEntry(l) => Calm(CancelEpoch(c, b, l))
  /\ \A e : Calm(RecoveryOf(e))
  /\ \A s \in Resumption : Calm(s)
  /\ \A s \in Compaction : Calm(s)
  /\ \A d, r : Calm(Decision(d, r))
<1>1. Calm(InterruptAndBlock)
  BY CalmEntries, CalmParts DEF InterruptAndBlock
<1>2. Calm(InterruptAndFail)
  BY <1>1, CalmEntries, CalmParts DEF InterruptAndFail
<1>3. Calm(FinishIfActive) /\ Calm(CancelOrFail)
  BY <1>2, CalmEntries, CalmParts DEF FinishIfActive, CancelOrFail
<1>4. ASSUME NEW o PROVE Calm(CloseOperation(o, "Uncertain"))
  BY CalmEntries, CalmParts DEF CloseOperation
<1>5. ASSUME NEW o PROVE Calm(Refusal(o, "Uncertain"))
  BY <1>1, <1>4, CalmEntries, CalmParts DEF Refusal
<1>6. ASSUME NEW c, NEW b, NEW l, Calm(c), CalmEntry(l)
      PROVE  Calm(CancelEpoch(c, b, l))
  <2>1. Calm(<<Cancel>>) /\ Calm(<<Block>>) /\ Calm(<<l>>)
    BY <1>6, CalmEntries, CalmParts
  <2>2. Calm(FinishIfActive \o <<l>>)
    BY <1>3, <2>1, CalmParts
  <2>3. Calm(c \o <<Block>>)
    BY <1>6, <2>1, CalmParts
  <2>4. Calm(c \o <<Block>> \o FinishIfActive)
    BY <1>3, <2>3, CalmParts
  <2>5. QED
    BY <2>1, <2>2, <2>4, CalmParts DEF CancelEpoch
<1>7. ASSUME NEW e PROVE Calm(RecoveryOf(e))
  BY CalmEntries, CalmParts DEF RecoveryOf
<1>8. ASSUME NEW s \in Resumption PROVE Calm(s)
  BY CalmEntries, CalmParts DEF Resumption
<1>9. ASSUME NEW s \in Compaction PROVE Calm(s)
  BY CalmEntries, CalmParts DEF Compaction
<1>10. ASSUME NEW d, NEW r PROVE Calm(Decision(d, r))
  BY CalmEntries, CalmParts DEF Decision
<1>11. QED
  BY <1>1, <1>2, <1>3, <1>4, <1>5, <1>6, <1>7, <1>8, <1>9, <1>10

-----------------------------------------------------------------------------
(* What an append changes of the stored task *)

\* The appends of a working epoch leave the task active and the epoch open.
EpochKinds == {"Intent", "Op", "Bind", "Evidence"}

\* What the append of entry e does to operation o and to the contract.
JournalOf(e, o) ==
  /\ \/ opStatus'[o] = opStatus[o]
     \/ \E c \in EffectClasses :
          /\ e = Intent(o, c)
          /\ opStatus[o] = "None" /\ opStatus'[o] = "IntentRecorded"
     \/ \E from, to \in OpStatuses :
          /\ e = Op(o, from, to)
          /\ <<from, to>> \in LegalOperationEdge
          /\ opStatus[o] = from /\ opStatus'[o] = to
  /\ \/ opClass'[o] = opClass[o]
     \/ \E c \in EffectClasses :
          e = Intent(o, c) /\ opStatus[o] = "None" /\ opClass'[o] = c
  /\ \/ bound'[o] = bound[o]
     \/ e = Bind(o) /\ opStatus[o] = "Started" /\ bound'[o] = bound[o] \cup {"file"}

\* What one accepted append does to the parts of the task the invariant reads.
LEMMA JournalEffect ==
  ASSUME TypeOK, NEW e, Journal(e)
  PROVE  /\ e[1] \in EpochKinds => UNCHANGED <<status, activeEpoch>>
         /\ \A o \in Ops : JournalOf(e, o)
         /\ \/ satisfied' = satisfied
            \/ \E c \in SUBSET Clauses : e = Revise(c) /\ satisfied' = satisfied \cup c
         /\ \A x : e = Start(x) => status = "Active" /\ status' = status /\ activeEpoch' = x
         /\ \A o, c : e = Intent(o, c) /\ o \in Ops =>
              opStatus'[o] = "IntentRecorded" /\ opClass'[o] = c
         /\ \A o, from, to : e = Op(o, from, to) /\ o \in Ops => opStatus'[o] = to
         /\ \A o : e = Bind(o) /\ o \in Ops => "file" \in bound'[o]
         /\ e[1] \notin {"Configure", "Apply", "Allow", "CloseAll",
                         "FinishIfActive", "BlockUnlessBlocked", "CancelOrFail"}
<1> USE EntryKinds, EntryFields DEF EpochKinds, JournalOf, epochVars, opVars,
        contractVars, recoveryVars
<1>1. CASE \E s \in Targets : e = To(s) /\ StateTransitioned(s)
  BY <1>1 DEF StateTransitioned
<1>2. CASE \E v \in 2 .. MaxVersion, c \in SUBSET Clauses :
             /\ e = Revise(c)
             /\ v = version + 1
             /\ ContractRevised(v, satisfied \cup c)
  BY <1>2 DEF ContractRevised
<1>3. CASE \E x \in Epochs : e = Start(x) /\ EpochStarted(x)
  <2>1. PICK x \in Epochs : e = Start(x) /\ EpochStarted(x)
    BY <1>3
  <2>2. \A y : Start(y)[2] = y
    BY DEF Start
  <2>3. QED
    BY <2>1, <2>2 DEF EpochStarted, CanEpochStarted
<1>4. CASE \E x \in Epochs : \/ e = Finish /\ EpochFinished(x)
                             \/ e = Interrupt /\ EpochInterrupted(x)
                             \/ e = Recover(x) /\ RecoveryAttemptStarted(x)
                             \/ e = Recovered(x) /\ RecoveryAttemptRecorded(x)
  BY <1>4 DEF EpochFinished, EpochInterrupted, RecoveryAttemptStarted,
              RecoveryAttemptRecorded
<1>5. CASE \E o \in Ops, c \in EffectClasses :
             e = Intent(o, c) /\ OperationIntentRecorded(o, c)
  BY <1>5 DEF OperationIntentRecorded, CanOperationIntentRecorded, TypeOK, Exists
<1>6. CASE \E o \in Ops : e = Bind(o) /\ PostconditionBound(o, "file")
  BY <1>6 DEF PostconditionBound, CanPostconditionBound, TypeOK
<1>7. CASE \E o \in Ops : e = Evidence(o) /\ OperationEvidenceRecorded(o)
  BY <1>7 DEF OperationEvidenceRecorded
<1>8. CASE \E o \in Ops, from, to \in OpStatuses :
             e = Op(o, from, to) /\ OperationTransitioned(o, from, to)
  <2>1. PICK o \in Ops, from \in OpStatuses, to \in OpStatuses :
          e = Op(o, from, to) /\ OperationTransitioned(o, from, to)
    BY <1>8
  <2>2. \A p \in Ops : opStatus'[p] = IF p = o THEN to ELSE opStatus[p]
    BY <2>1 DEF OperationTransitioned, TypeOK
  <2>3. QED
    BY <2>1, <2>2 DEF OperationTransitioned, CanOperationTransitioned
<1>9. CASE \/ e = Checkpoint /\ CheckpointCommitted
           \/ e = Bound /\ ProviderContextBound
           \/ e = Lost /\ ProviderContextLost
           \/ e = Cancel /\ CancellationRequested
           \/ e = Block /\ Blocked
           \/ e = Complete /\ Completed
  BY <1>9 DEF CheckpointCommitted, ProviderContextBound, ProviderContextLost,
              CancellationRequested, Blocked, Completed
<1>10. CASE e = Compacted /\ CanCompactionCompleted /\ UNCHANGED lifecycleVars
  BY <1>10 DEF lifecycleVars
<1>11. QED
  BY <1>1, <1>2, <1>3, <1>4, <1>5, <1>6, <1>7, <1>8, <1>9, <1>10 DEF Journal

-----------------------------------------------------------------------------
(* The inductive invariant *)

\* An entry the current handler has still to perform, and where in the script
\* opening an operation, starting it and letting it through follow each other.
Pending(e) == e \in Entries(todo)
NoAllow(s) == \A o \in Ops : Allow(o) \notin Entries(s)
Working == status = "Active" /\ activeEpoch # NoEpoch
Begin(o) == Op(o, "IntentRecorded", "Started")
AllowNext(o, s) == s # <<>> /\ Head(s) = Allow(o) /\ NoAllow(Tail(s))
BeginNext(o, s) == s # <<>> /\ Head(s) = Begin(o) /\ AllowNext(o, Tail(s))
IntentNext(o, s) ==
  s # <<>> /\ (\E c \in EffectClasses : Head(s) = Intent(o, c)) /\ BeginNext(o, Tail(s))

\* An effect still to be allowed is the one just opened, in a running epoch
\* of an active task the owner lets work.
AllowOf(o) ==
  /\ Working
  /\ effective # "ReadOnly"
  /\ "file" \notin bound[o]
  /\ ~Pending(Bind(o))
  /\ \/ opStatus[o] = "Started" /\ AllowNext(o, todo)
     \/ BeginNext(o, todo)
     \/ IntentNext(o, todo)
AllowPermitted == \A o \in Ops : Pending(Allow(o)) => AllowOf(o)

\* An outcome still to be recorded is of an effect that was reported or never
\* allowed; a success was reported and, for a file, its postcondition is bound
\* first.
OutcomePending ==
  \A o \in Ops, to \in Outcomes :
    Pending(Op(o, "Started", to)) => effect[o] # "allowed" /\ ~Pending(Allow(o))
SuccessOf(o) ==
  /\ effect[o] = "reported"
  /\ opClass[o] = "IdempotentMutation" => "file" \in bound[o] \/ Head(todo) = Bind(o)
  /\ \A c \in EffectClasses : Pending(Intent(o, c)) => c = "Observation"
SuccessPending ==
  \A o \in Ops : Pending(Op(o, "Started", "Succeeded")) => SuccessOf(o)

\* Only an observation, or a file whose postcondition is bound, is reconciled.
SettleOf(o) == Exists(o) /\ (opClass[o] = "Observation" \/ "file" \in bound[o])
SettlePending ==
  \A o \in Ops : Pending(Op(o, "Uncertain", "Reconciled")) => SettleOf(o)

\* A postcondition is bound only after the provider reported the mutation.
BindPending == \A o \in Ops : Pending(Bind(o)) => effect[o] = "reported"
BoundReported == \A o \in Ops : "file" \in bound[o] => effect[o] = "reported"
Unrecorded == \A o \in Ops : ~Exists(o) => opClass[o] = "None" /\ bound[o] = {}

\* Claims that reached a script rest on a success.
SomeSuccess == \E o \in Ops : opStatus[o] = "Succeeded"
RevisePending ==
  \A c \in SUBSET Clauses : Pending(Revise(c)) /\ c # {} => SomeSuccess

\* What control points imply.
Dispatching ==
  pc = "dispatch" =>
    \/ todo = <<>> /\ Working
    \/ todo = <<Apply>> /\ Working /\ pending # NoMode
    \/ \E e \in Epochs : \/ todo = <<Start(e)>>
                         \/ todo = <<Start(e), Apply>> /\ pending # NoMode
ApplyPending == pc # "dispatch" => ~Pending(Apply)
DrainKinds == EpochKinds \cup {"Allow", "Configure"}
Draining ==
  pc \in {"drain", "approval"} =>
    Working /\ \A e \in Entries(todo) : e[1] \in DrainKinds
Asked(o) ==
  /\ effect[o] # "allowed" /\ "file" \notin bound[o] /\ ~Pending(Bind(o))
  /\ \/ opStatus[o] = "Started"
     \/ todo # <<>> /\ Head(todo) = Begin(o)
     \/ /\ todo # <<>> /\ (\E c \in EffectClasses : Head(todo) = Intent(o, c))
        /\ Tail(todo) # <<>> /\ Head(Tail(todo)) = Begin(o)
Asking ==
  pc = "approval" =>
    /\ effective # "ReadOnly"
    /\ NoAllow(todo)
    /\ \A o \in Ops, to \in OpStatuses : ~Pending(Op(o, "Started", to))
    /\ \A m \in Modes : Pending(Configure(m)) => ~Tightens(m)
    /\ \A o \in asked : Asked(o)

\* The stored task; the scripts about operations; the control points; and the
\* invariant that is inductive with all of them.
TaskInv ==
  /\ OutcomeKnown /\ SuccessReported /\ ClausesRestOnSuccess
  /\ BoundReported /\ Unrecorded
OperationScripts ==
  /\ AllowPermitted /\ OutcomePending /\ SuccessPending /\ SettlePending
  /\ BindPending /\ RevisePending
ControlPoints == Dispatching /\ ApplyPending /\ Draining /\ Asking
EffectInv ==
  /\ EngineTypeOK /\ IsScript(todo)
  /\ TaskInv /\ OperationScripts /\ ControlPoints

\* EngineTypeOK without and with its counters.
RuntimeType ==
  /\ TypeOK
  /\ pc \in {"down", "prepare", "idle", "activate", "reconcile", "recover",
            "resume", "loop", "dispatch", "drain", "approval"}
  /\ starting \in BOOLEAN /\ onReject \in BOOLEAN /\ prepared \in BOOLEAN
  /\ runtime \in {"none", "kept", "stale", "ready"}
  /\ boundary \in BOOLEAN /\ quiesce \in BOOLEAN
  /\ work \subseteq Ops
  /\ asked \subseteq Ops
  /\ effective \in Modes
  /\ pending \in Modes \cup {NoMode}
  /\ effect \in [Ops -> {"none", "allowed", "reported"}]
Counters == crashes \in 0 .. MaxCrashes /\ controls \in 0 .. MaxControls

\* The two halves of EngineTypeOK.
LEMMA TypeParts == EngineTypeOK <=> RuntimeType /\ Counters
  BY DEF EngineTypeOK, RuntimeType, Counters

\* A created task satisfies the invariant.
LEMMA InitEffectInv == EngineInit => EffectInv
<1> SUFFICES ASSUME EngineInit PROVE EffectInv
  OBVIOUS
<1>1. TypeOK
  BY InitInv DEF EngineInit, LifecycleInv
<1>2. EngineTypeOK
  <2>1. effective \in Modes
    BY ModeAssumption DEF EngineInit
  <2>2. Counters
    BY BudgetAssumption DEF EngineInit, Counters
  <2>3. RuntimeType
    BY <1>1, <2>1 DEF EngineInit, RuntimeType
  <2>4. QED
    BY <2>2, <2>3, TypeParts
<1>3. IsScript(todo) /\ Entries(todo) = {}
  BY EmptyScript DEF EngineInit
<1>4. TaskInv
  BY DEF EngineInit, Init, TaskInv, OutcomeKnown, SuccessReported,
         ClausesRestOnSuccess, BoundReported, Unrecorded
<1>5. OperationScripts
  BY <1>3 DEF OperationScripts, AllowPermitted, AllowOf, OutcomePending, SuccessPending, SuccessOf,
              SettlePending, SettleOf, BindPending, RevisePending, Pending
<1>6. ControlPoints
  BY <1>3 DEF EngineInit, ControlPoints, Dispatching, ApplyPending, Draining,
              Asking, Pending
<1>7. QED
  BY <1>2, <1>3, <1>4, <1>5, <1>6 DEF EffectInv

\* A calm script asks nothing of the operations or the claims.
LEMMA CalmOperations ==
  ASSUME \A e \in Entries(todo') : CalmEntry(e) \/ e = Apply
  PROVE  OperationScripts'
<1>1. \A o \in Ops : ~Pending(Allow(o))' /\ ~Pending(Bind(o))'
  BY EntryKinds DEF Pending, CalmEntry
<1>2. \A c \in SUBSET Clauses : ~Pending(Revise(c))'
  BY EntryKinds DEF Pending, CalmEntry
<1>3. \A o \in Ops, from, to \in OpStatuses :
        Pending(Op(o, from, to))' => to = "Uncertain"
  BY EntryKinds, EntryFields DEF Pending, CalmEntry
<1>4. AllowPermitted' /\ BindPending' /\ RevisePending'
  BY <1>1, <1>2 DEF AllowPermitted, BindPending, RevisePending
<1>5. OutcomePending'
  BY <1>3 DEF OutcomePending, Outcomes, OpStatuses
<1>6. SuccessPending' /\ SettlePending'
  BY <1>3 DEF SuccessPending, SettlePending, OpStatuses
<1>7. QED
  BY <1>4, <1>5, <1>6 DEF OperationScripts

\* Away from the control points of a working epoch only Apply matters.
Elsewhere == {"down", "prepare", "idle", "activate", "reconcile", "recover",
              "resume", "loop"}
\* Away from the epoch's own control points only Apply is constrained.
LEMMA ElsewhereIsSafe ==
  ASSUME pc' \in Elsewhere, ~Pending(Apply)'
  PROVE  ControlPoints'
  BY DEF ControlPoints, Dispatching, ApplyPending, Draining, Asking, Elsewhere

\* A handler that leaves a calm script keeps everything said about scripts.
LEMMA CalmIsSafe ==
  ASSUME Calm(todo'), pc' \in Elsewhere
  PROVE  IsScript(todo)' /\ OperationScripts' /\ ControlPoints'
<1>1. OperationScripts'
  BY CalmOperations DEF Calm
<1>2. ~Pending(Apply)'
  BY EntryKinds DEF Calm, CalmEntry, Pending
<1>3. QED
  BY <1>1, <1>2, ElsewhereIsSafe DEF Calm

\* The steps whose new script is calm, whatever they were given.
CalmStep ==
  \/ RejectStep \/ PrepareStartupTask \/ Run \/ Activate \/ NoAbandonedEpoch
  \/ RecoverCheckpointing \/ ResumeProviderContext \/ AbortEpoch
  \/ EpochCompletedBadly \/ CancelWorking \/ CancelAwaiting \/ CancelIdle
  \/ ConfigureIdle \/ CompactIdle \/ MisdirectedControl \/ Crash

\* Every calm step leaves a calm script and the task alone.
LEMMA CalmSteps ==
  ASSUME CalmStep
  PROVE  Calm(todo') /\ pc' \in Elsewhere /\ UNCHANGED <<lifecycleVars, effect>>
<1> USE CalmEntries, CalmParts, CalmHandlers DEF Elsewhere, Script, Idle, Fail, OnlyControl
<1>1. CASE RejectStep
  BY <1>1 DEF RejectStep
<1>2. CASE PrepareStartupTask
  BY <1>2 DEF PrepareStartupTask
<1>3. CASE Run
  BY <1>3 DEF Run
<1>4. CASE Activate
  BY <1>4 DEF Activate
<1>5. CASE NoAbandonedEpoch
  BY <1>5 DEF NoAbandonedEpoch
<1>6. CASE RecoverCheckpointing
  BY <1>6 DEF RecoverCheckpointing
<1>7. CASE ResumeProviderContext
  BY <1>7 DEF ResumeProviderContext
<1>8. CASE AbortEpoch
  BY <1>8 DEF AbortEpoch
<1>9. CASE EpochCompletedBadly
  BY <1>9 DEF EpochCompletedBadly
<1>10. CASE CancelWorking
  BY <1>10 DEF CancelWorking
<1>11. CASE CancelAwaiting
  BY <1>11 DEF CancelAwaiting
<1>12. CASE CancelIdle
  BY <1>12 DEF CancelIdle
<1>13. CASE ConfigureIdle
  BY <1>13 DEF ConfigureIdle
<1>14. CASE CompactIdle
  BY <1>14 DEF CompactIdle, At
<1>15. CASE MisdirectedControl
  BY <1>15 DEF MisdirectedControl
<1>16. CASE Crash
  BY <1>16 DEF Crash
<1>17. QED
  BY <1>1, <1>2, <1>3, <1>4, <1>5, <1>6, <1>7, <1>8, <1>9, <1>10, <1>11, <1>12,
     <1>13, <1>14, <1>15, <1>16 DEF CalmStep

-----------------------------------------------------------------------------
(* Types *)

\* Applying a configuration finds one that was queued.
LEMMA AppliedIsQueued ==
  ASSUME EffectInv, todo # <<>>, Head(todo) = Apply
  PROVE  pending \in Modes /\ Tail(todo) = <<>>
<1>1. Pending(Apply)
  BY Popped DEF EffectInv, Pending
<1>2. pc = "dispatch"
  BY <1>1 DEF EffectInv, ControlPoints, ApplyPending
<1>3. ASSUME NEW e \in Epochs, todo = <<Start(e)>> \/ todo = <<Start(e), Apply>>
      PROVE  FALSE
  BY <1>3, EntryKinds, OneEntry, TwoEntries
<1>4. todo = <<Apply>> /\ pending # NoMode
  BY <1>2, <1>3 DEF EffectInv, ControlPoints, Dispatching
<1>5. QED
  BY <1>4, OneEntry DEF EffectInv, EngineTypeOK

\* Control, flags, sets, permissions and effects keep their types.
LEMMA RuntimeTypeStep ==
  ASSUME EffectInv, [EngineNext]_engineVars
  PROVE  RuntimeType'
<1>1. TypeOK'
  BY EngineStepImplements, TypeStep DEF EffectInv, EngineTypeOK
<1>2. RuntimeType
  BY TypeParts DEF EffectInv
<1>3. ~(todo # <<>> /\ Head(todo) = Apply) \/ pending \in Modes
  BY AppliedIsQueued
<1> USE <1>1, <1>2 DEF RuntimeType, volatile, permission, budget, Script, Idle,
            Fail, OnlyControl
<1>4. CASE AppendStep \/ AllowStep \/ SkipStep
  <2>1. CASE AppendStep \/ SkipStep
    BY <2>1, ZenonT(90) DEF AppendStep, SkipStep
  <2>2. CASE AllowStep
    BY <2>2, ZenonT(90) DEF AllowStep
  <2>3. QED
    BY <1>4, <2>1, <2>2
<1>5. CASE ConfigurationStep
  BY <1>3, <1>5 DEF ConfigurationStep, ConfigurationQueued
<1>6. CASE CloseStep \/ RejectStep
  BY <1>6, ZenonT(90) DEF CloseStep, RejectStep
<1>7. CASE OpenStore \/ Crash
  BY <1>7 DEF OpenStore, Crash, ResetRuntime
<1>8. CASE PrepareStartupTask \/ Run \/ NoAbandonedEpoch \/ RecoverCheckpointing
           \/ StartEpoch
  BY <1>8 DEF PrepareStartupTask, Run, NoAbandonedEpoch, RecoverCheckpointing,
              StartEpoch, Kept
<1>9. CASE Activate \/ ReconcileAbandonedEpoch \/ ResumeProviderContext
           \/ StartProviderEpoch
  BY <1>9 DEF Activate, ReconcileAbandonedEpoch, ResumeProviderContext,
              StartProviderEpoch, Kept
<1>10. CASE AbortEpoch \/ SoftBoundary \/ ApprovalDecided
  BY <1>10 DEF AbortEpoch, SoftBoundary, ApprovalDecided
<1>11. CASE EffectRequested
  BY <1>11 DEF EffectRequested, DenyAtBoundary, DecideEffect, Unused
<1>12. CASE ItemCompleted \/ CommandObserved
  <2>1. CASE ItemCompleted
    BY <2>1 DEF ItemCompleted
  <2>2. CASE CommandObserved
    BY <2>2 DEF CommandObserved
  <2>3. QED
    BY <1>12, <2>1, <2>2
<1>13. CASE EpochCompletedBadly \/ EpochCompleted
  <2>1. CASE EpochCompletedBadly
    BY <2>1 DEF EpochCompletedBadly
  <2>2. CASE EpochCompleted
    <3>1. pc' \in {"loop", "idle"}
      BY <2>2 DEF EpochCompleted
    <3>2. \/ UNCHANGED quiesce
          \/ \E d \in {"complete", "blocked", "continue"} :
               quiesce' = (quiesce /\ d # "continue")
      BY <2>2, Zenon DEF EpochCompleted
    <3>3. quiesce' \in BOOLEAN
      BY <3>2
    <3>4. boundary' = FALSE /\ onReject' = FALSE
          /\ UNCHANGED <<starting, prepared, runtime, work, asked, permission, effect>>
      BY <2>2 DEF EpochCompleted
    <3>5. QED
      BY <3>1, <3>3, <3>4
  <2>3. QED
    BY <1>13, <2>1, <2>2
<1>14. CASE CancelWorking \/ CancelAwaiting \/ CancelIdle
  BY <1>14 DEF CancelWorking, CancelAwaiting, CancelIdle, StartedOperations
<1>15. CASE ConfigureWorking \/ ConfigureAwaiting \/ ConfigureIdle
  BY <1>15 DEF ConfigureWorking, ConfigureAwaiting, ConfigureIdle
<1>16. CASE Quiesce \/ CompactIdle \/ MisdirectedControl
  BY <1>16 DEF Quiesce, CompactIdle, MisdirectedControl, Kept
<1>17. CASE UNCHANGED engineVars
  BY <1>17 DEF engineVars
<1>18. QED
  BY <1>4, <1>5, <1>6, <1>7, <1>8, <1>9, <1>10, <1>11, <1>12, <1>13, <1>14, <1>15,
     <1>16, <1>17 DEF EngineNext, EngineStep, ProviderStep, OwnerStep

\* Crashes and controls stay within their bounds.
LEMMA CounterStep ==
  ASSUME EffectInv, [EngineNext]_engineVars
  PROVE  Counters'
<1>1. Counters
  BY TypeParts DEF EffectInv
<1>2. ASSUME UNCHANGED budget PROVE Counters'
  BY <1>1, <1>2 DEF Counters, budget
<1>3. ASSUME UNCHANGED crashes, NEW c, Deliver(c) PROVE Counters'
  BY <1>1, <1>3, BudgetAssumption DEF Counters, Deliver
<1>4. CASE EngineStep
  BY <1>2, <1>4 DEF EngineStep, AppendStep, ConfigurationStep, AllowStep, SkipStep,
     CloseStep, RejectStep, OpenStore, PrepareStartupTask, Run, Activate,
     ReconcileAbandonedEpoch, NoAbandonedEpoch, RecoverCheckpointing,
     ResumeProviderContext, StartEpoch, StartProviderEpoch, OnlyControl
<1>5. CASE ProviderStep
  BY <1>2, <1>5 DEF ProviderStep, AbortEpoch, SoftBoundary, EffectRequested,
     ApprovalDecided, ItemCompleted, CommandObserved, EpochCompletedBadly,
     EpochCompleted, OnlyControl
<1>6. CASE OwnerStep
  BY <1>3, <1>6 DEF OwnerStep, CancelWorking, CancelAwaiting, CancelIdle,
     ConfigureWorking, ConfigureAwaiting, ConfigureIdle, Quiesce, CompactIdle,
     MisdirectedControl
<1>7. CASE Crash
  BY <1>1, <1>7, BudgetAssumption DEF Crash, Counters
<1>8. CASE UNCHANGED engineVars
  BY <1>2, <1>8 DEF engineVars
<1>9. QED
  BY <1>4, <1>5, <1>6, <1>7, <1>8 DEF EngineNext

-----------------------------------------------------------------------------
(* Performing an entry *)

\* A success, once recorded, stays; so do class and bound postcondition of an
\* operation that exists.
LEMMA AppendKeeps ==
  ASSUME EffectInv, NEW e, Journal(e), NEW o \in Ops
  PROVE  /\ opStatus[o] = "Succeeded" => opStatus'[o] = "Succeeded"
         /\ Exists(o) => Exists(o)' /\ opClass'[o] = opClass[o]
         /\ "file" \in bound[o] => "file" \in bound'[o]
  BY JournalEffect DEF EffectInv, EngineTypeOK, JournalOf, Exists, LegalOperationEdge

\* An append records no outcome the provider did not report.
LEMMA AppendKeepsTask ==
  ASSUME EffectInv, AppendStep
  PROVE  TaskInv'
<1> DEFINE e == Head(todo)
<1>1. Journal(e) /\ UNCHANGED effect /\ Pending(e)
  BY Popped DEF AppendStep, EffectInv, Pending
<1>2. \A o \in Ops : JournalOf(e, o)
  BY <1>1, JournalEffect DEF EffectInv, EngineTypeOK
<1> HIDE DEF e
<1> USE DEF EffectInv, TaskInv, OperationScripts
<1>3. ASSUME NEW o \in Ops, effect'[o] = "allowed"
      PROVE  \/ opStatus'[o] \in {"Started", "Uncertain"}
             \/ opStatus'[o] = "Reconciled" /\ opClass'[o] = "Observation"
  <2>1. /\ effect[o] = "allowed"
        /\ \/ opStatus[o] \in {"Started", "Uncertain"}
           \/ opStatus[o] = "Reconciled" /\ opClass[o] = "Observation"
    BY <1>1, <1>3 DEF OutcomeKnown
  <2>2. CASE opStatus'[o] = opStatus[o]
    BY <1>1, <2>1, <2>2, AppendKeeps DEF Exists
  <2>3. ASSUME NEW from \in OpStatuses, NEW to \in OpStatuses, e = Op(o, from, to),
               <<from, to>> \in LegalOperationEdge,
               opStatus[o] = from, opStatus'[o] = to
        PROVE  \/ opStatus'[o] \in {"Started", "Uncertain"}
               \/ opStatus'[o] = "Reconciled" /\ opClass'[o] = "Observation"
    <3>1. to \notin Outcomes \/ from # "Started"
      BY <1>1, <2>1, <2>3 DEF OutcomePending
    <3>2. CASE from = "Started"
      BY <2>3, <3>1, <3>2 DEF LegalOperationEdge, Outcomes
    <3>3. CASE from = "Uncertain" /\ to = "Reconciled"
      <4>1. Exists(o) /\ (opClass[o] = "Observation" \/ "file" \in bound[o])
        BY <1>1, <2>3, <3>3 DEF SettlePending, SettleOf
      <4>2. opClass[o] = "Observation"
        BY <2>1, <4>1 DEF BoundReported
      <4>3. QED
        BY <1>1, <2>3, <3>3, <4>1, <4>2, AppendKeeps
    <3>4. QED
      BY <2>1, <2>3, <3>2, <3>3 DEF LegalOperationEdge
  <2>4. QED
    BY <1>2, <2>1, <2>2, <2>3 DEF JournalOf
<1>4. OutcomeKnown'
  BY <1>3 DEF OutcomeKnown
<1>5. ASSUME NEW o \in Ops, opStatus'[o] = "Succeeded"
      PROVE  effect'[o] = "reported"
             /\ (opClass'[o] = "IdempotentMutation" => "file" \in bound'[o])
  <2>1. CASE opStatus[o] = "Succeeded"
    BY <1>1, <2>1, AppendKeeps DEF SuccessReported, Exists
  <2>2. CASE opStatus[o] # "Succeeded"
    <3>1. e = Op(o, "Started", "Succeeded") /\ opStatus[o] = "Started"
      BY <1>2, <1>5, <2>2 DEF JournalOf, LegalOperationEdge
    <3>2. e # Bind(o)
      BY <3>1, EntryKinds
    <3>3. QED
      BY <1>1, <3>1, <3>2, AppendKeeps DEF SuccessPending, SuccessOf, Exists, e
  <2>3. QED
    BY <2>1, <2>2
<1>6. SuccessReported'
  BY <1>5 DEF SuccessReported
<1>7. SomeSuccess => SomeSuccess'
  BY <1>1, AppendKeeps DEF SomeSuccess
<1>8. ClausesRestOnSuccess'
  <2>1. SUFFICES ASSUME satisfied' # {} PROVE SomeSuccess
    BY <1>7 DEF ClausesRestOnSuccess, SomeSuccess
  <2>2. \/ satisfied' = satisfied
        \/ \E c \in SUBSET Clauses : e = Revise(c) /\ satisfied' = satisfied \cup c
    BY <1>1, JournalEffect DEF EngineTypeOK
  <2>3. CASE satisfied # {}
    BY <2>3 DEF ClausesRestOnSuccess, SomeSuccess
  <2>4. CASE satisfied = {}
    BY <1>1, <2>1, <2>2, <2>4 DEF RevisePending
  <2>5. QED
    BY <2>3, <2>4
<1>9. BoundReported'
  BY <1>1, <1>2 DEF BoundReported, BindPending, JournalOf
<1>10. Unrecorded'
  <2>1. SUFFICES ASSUME NEW o \in Ops, opStatus'[o] = "None"
                 PROVE  opClass'[o] = "None" /\ bound'[o] = {}
    BY DEF Unrecorded, Exists
  <2>2. opStatus[o] = "None"
    BY <1>2, <2>1 DEF JournalOf, LegalOperationEdge
  <2>3. opClass[o] = "None" /\ bound[o] = {}
    BY <2>2 DEF Unrecorded, Exists
  <2>4. \A c : e # Intent(o, c)
    BY <1>1, <2>1, JournalEffect DEF EngineTypeOK
  <2>5. QED
    BY <1>2, <2>2, <2>3, <2>4 DEF JournalOf
<1>11. QED
  BY <1>4, <1>6, <1>8, <1>9, <1>10

\* After an append the rest of the script satisfies what was said of the whole.
LEMMA AppendKeepsScripts ==
  ASSUME EffectInv, AppendStep
  PROVE  IsScript(todo)' /\ OperationScripts' /\ ControlPoints'
<1> DEFINE e == Head(todo)
<1>1. Journal(e) /\ UNCHANGED <<pc, pending, effective, effect, asked>>
      /\ todo # <<>> /\ todo' = Tail(todo)
  BY DEF AppendStep, volatile, permission
<1>2. IsScript(Tail(todo)) /\ Entries(todo) = {e} \cup Entries(Tail(todo))
  BY <1>1, Popped DEF EffectInv
<1>3. /\ Pending(e)
      /\ \A x : Pending(x)' => Pending(x)
  BY <1>1, <1>2 DEF Pending
<1>4. TypeOK /\ \A o \in Ops : JournalOf(e, o)
  BY <1>1, JournalEffect DEF EffectInv, EngineTypeOK
<1>5. /\ e[1] \in EpochKinds => UNCHANGED <<status, activeEpoch>>
      /\ \A o, from, to : e = Op(o, from, to) /\ o \in Ops => opStatus'[o] = to
      /\ \A o : e = Bind(o) /\ o \in Ops => "file" \in bound'[o]
      /\ \A o, c : e = Intent(o, c) /\ o \in Ops => opClass'[o] = c
  BY <1>1, <1>4, JournalEffect
<1> USE DEF EffectInv, OperationScripts, ControlPoints
<1>6. ASSUME NEW o \in Ops, Pending(Allow(o))'
      PROVE  /\ Working' /\ effective' # "ReadOnly"
             /\ "file" \notin bound'[o] /\ ~Pending(Bind(o))'
             /\ \/ opStatus'[o] = "Started" /\ AllowNext(o, todo)'
                \/ BeginNext(o, todo)'
  <2>1. /\ Working /\ effective # "ReadOnly" /\ "file" \notin bound[o]
        /\ ~Pending(Bind(o))
        /\ \/ AllowNext(o, todo) \/ BeginNext(o, todo) \/ IntentNext(o, todo)
    BY <1>3, <1>6 DEF AllowPermitted, AllowOf
  <2>2. ~AllowNext(o, todo)
    BY <1>1, <1>6 DEF AllowNext, NoAllow, Pending
  <2>3. e[1] \in EpochKinds /\ e # Bind(o)
    BY <2>1, <2>2, EntryKinds DEF BeginNext, IntentNext, Begin, EpochKinds
  <2>4. Working' /\ "file" \notin bound'[o]
    BY <1>4, <1>5, <2>1, <2>3 DEF Working, JournalOf
  <2>5. BeginNext(o, todo) => opStatus'[o] = "Started" /\ AllowNext(o, todo)'
    BY <1>1, <1>5 DEF BeginNext, Begin, AllowNext
  <2>6. IntentNext(o, todo) => BeginNext(o, todo)'
    BY <1>1 DEF IntentNext, BeginNext
  <2>7. QED
    BY <1>1, <1>3, <2>1, <2>2, <2>4, <2>5, <2>6
<1>7. AllowPermitted'
  BY <1>6 DEF AllowPermitted, AllowOf
<1>8. OutcomePending'
  BY <1>1, <1>3 DEF OutcomePending
<1>9. SuccessPending'
  <2>1. SUFFICES ASSUME NEW o \in Ops, Pending(Op(o, "Started", "Succeeded"))'
                 PROVE  /\ effect'[o] = "reported"
                        /\ opClass'[o] = "IdempotentMutation" => "file" \in bound'[o]
                        /\ \A c \in EffectClasses :
                             Pending(Intent(o, c))' => c = "Observation"
    BY DEF SuccessPending, SuccessOf
  <2>2. /\ effect[o] = "reported"
        /\ opClass[o] = "IdempotentMutation" => "file" \in bound[o] \/ e = Bind(o)
        /\ \A c \in EffectClasses : Pending(Intent(o, c)) => c = "Observation"
    BY <1>3, <2>1 DEF SuccessPending, SuccessOf
  <2>3. opClass'[o] = "IdempotentMutation" => opClass[o] = "IdempotentMutation"
    BY <1>3, <1>4, <2>2 DEF JournalOf
  <2>4. QED
    BY <1>1, <1>3, <1>5, <2>2, <2>3, AppendKeeps
<1>10. SettlePending'
  BY <1>1, <1>3, AppendKeeps DEF SettlePending, SettleOf
<1>11. BindPending' /\ RevisePending'
  <2>1. SomeSuccess => SomeSuccess'
    BY <1>1, AppendKeeps DEF SomeSuccess
  <2>2. QED
    BY <1>1, <1>3, <2>1 DEF BindPending, RevisePending
<1>12. Dispatching'
  <2>1. SUFFICES ASSUME pc = "dispatch" PROVE Dispatching'
    BY <1>1 DEF Dispatching
  <2>2. e # Apply
    BY <1>1, <1>4, JournalEffect, EntryKinds
  <2>3. PICK x \in Epochs : \/ todo = <<Start(x)>>
                            \/ todo = <<Start(x), Apply>> /\ pending # NoMode
    BY <1>1, <2>1, <2>2, OneEntry DEF Dispatching
  <2>4. e = Start(x)
    BY <2>3, OneEntry, TwoEntries
  <2>5. Working'
    BY <1>1, <1>4, <2>4, JournalEffect, EpochAssumption DEF Working
  <2>6. \/ todo' = <<>>
        \/ todo' = <<Apply>> /\ pending' # NoMode
    <3>1. CASE todo = <<Start(x)>>
      BY <1>1, <3>1, OneEntry
    <3>2. CASE todo = <<Start(x), Apply>> /\ pending # NoMode
      <4>1. Tail(<<Start(x), Apply>>) = <<Apply>>
        BY TwoEntries, Zenon
      <4>2. QED
        BY <1>1, <3>2, <4>1, Zenon
    <3>3. QED
      BY <2>3, <3>1, <3>2
  <2>7. QED
    BY <2>5, <2>6 DEF Dispatching
<1>13. ApplyPending'
  BY <1>1, <1>3 DEF ApplyPending
<1>14. Draining'
  <2>1. SUFFICES ASSUME pc \in {"drain", "approval"} PROVE Draining'
    BY <1>1 DEF Draining
  <2>2. Working /\ \A x \in Entries(todo) : x[1] \in DrainKinds
    BY <2>1 DEF Draining
  <2>3. e[1] \in EpochKinds
    BY <1>1, <1>2, <1>4, <2>2, JournalEffect DEF DrainKinds
  <2>4. QED
    BY <1>1, <1>2, <1>5, <2>2, <2>3 DEF Draining, Working
<1>15. Asking'
  <2>1. SUFFICES ASSUME pc = "approval" PROVE Asking'
    BY <1>1 DEF Asking
  <2>2. ASSUME NEW o \in asked PROVE Asked(o)'
    <3>1. o \in Ops /\ Asked(o)
      BY <2>1, <2>2 DEF Asking, EngineTypeOK
    <3>2. effect'[o] # "allowed" /\ "file" \notin bound'[o] /\ ~Pending(Bind(o))'
      BY <1>1, <1>3, <1>4, <3>1 DEF Asked, JournalOf
    <3>3. CASE opStatus[o] = "Started"
      <4>1. opStatus'[o] = "Started"
        BY <1>3, <1>4, <2>1, <3>1, <3>3 DEF JournalOf, Asking
      <4>2. QED
        BY <3>2, <4>1 DEF Asked
    <3>4. CASE e = Begin(o)
      BY <1>5, <3>1, <3>2, <3>4 DEF Asked, Begin
    <3>5. CASE Tail(todo) # <<>> /\ Head(Tail(todo)) = Begin(o)
      BY <1>1, <3>2, <3>5 DEF Asked
    <3>6. QED
      BY <3>1, <3>3, <3>4, <3>5 DEF Asked
  <2>3. /\ effective' # "ReadOnly"
        /\ NoAllow(todo')
        /\ \A o \in Ops, to \in OpStatuses : ~Pending(Op(o, "Started", to))'
        /\ \A m \in Modes : Pending(Configure(m))' => ~Tightens(m)'
    BY <1>1, <1>2, <1>3, <2>1 DEF Asking, NoAllow, Tightens
  <2>4. QED
    BY <1>1, <2>2, <2>3 DEF Asking
<1>16. QED
  BY <1>1, <1>2, <1>7, <1>8, <1>9, <1>10, <1>11, <1>12, <1>13, <1>14, <1>15

\* Dropping an entry that is not about an operation, and adding calm ones.
LEMMA CalmReplace ==
  ASSUME EffectInv, todo # <<>>,
         Head(todo)[1] \notin {"Intent", "Op", "Bind", "Allow"},
         \A x \in Entries(todo') : CalmEntry(x) \/ x \in Entries(todo),
         UNCHANGED <<lifecycleVars, effect>>
  PROVE  OperationScripts'
<1>1. \A o \in Ops : ~Pending(Allow(o))
  BY EntryKinds DEF EffectInv, OperationScripts, AllowPermitted, AllowOf, AllowNext,
                    BeginNext, IntentNext, Begin
<1>2. \A o \in Ops : /\ Pending(Allow(o))' => Pending(Allow(o))
                     /\ Pending(Bind(o))' => Pending(Bind(o))
  BY EntryKinds DEF Pending, CalmEntry
<1>3. \A o \in Ops, c \in EffectClasses : Pending(Intent(o, c))' => Pending(Intent(o, c))
  BY EntryKinds DEF Pending, CalmEntry
<1>4. \A c \in SUBSET Clauses : Pending(Revise(c))' => Pending(Revise(c))
  BY EntryKinds DEF Pending, CalmEntry
<1>5. \A o \in Ops, from, to \in OpStatuses :
        to # "Uncertain" /\ Pending(Op(o, from, to))' => Pending(Op(o, from, to))
  BY EntryKinds, EntryFields DEF Pending, CalmEntry
<1>6. \A o \in Ops : Head(todo) # Bind(o)
  BY EntryKinds
<1> USE DEF EffectInv, OperationScripts, lifecycleVars
<1>7. AllowPermitted'
  BY <1>1, <1>2 DEF AllowPermitted, AllowOf
<1>8. OutcomePending'
  BY <1>1, <1>2, <1>5 DEF OutcomePending, Outcomes, OpStatuses
<1>9. SuccessPending'
  BY <1>3, <1>5, <1>6 DEF SuccessPending, SuccessOf, OpStatuses
<1>10. SettlePending'
  BY <1>5 DEF SettlePending, SettleOf, OpStatuses, Exists
<1>11. BindPending' /\ RevisePending'
  BY <1>2, <1>4 DEF BindPending, RevisePending, SomeSuccess
<1>12. QED
  BY <1>7, <1>8, <1>9, <1>10, <1>11

\* Steps that change neither the task nor the effects.
LEMMA TaskKept ==
  TaskInv /\ UNCHANGED <<lifecycleVars, effect>> => TaskInv'
  BY DEF TaskInv, lifecycleVars, OutcomeKnown, SuccessReported,
         ClausesRestOnSuccess, BoundReported, Unrecorded, Exists

\* A queued mode only narrows at once; a pending one is applied between epochs.
LEMMA ConfigurationKeeps ==
  ASSUME EffectInv, ConfigurationStep
  PROVE  TaskInv' /\ IsScript(todo)' /\ OperationScripts' /\ ControlPoints'
<1> DEFINE e == Head(todo)
<1>1. /\ UNCHANGED <<lifecycleVars, effect, pc, asked>>
      /\ todo # <<>> /\ todo' = Tail(todo)
      /\ \/ \E m \in Modes : e = Configure(m) /\ ConfigurationQueued(m)
         \/ e = Apply /\ effective' = pending /\ pending' = NoMode
  BY DEF ConfigurationStep, volatile
<1>2. IsScript(Tail(todo)) /\ Entries(todo) = {e} \cup Entries(Tail(todo))
  BY <1>1, Popped DEF EffectInv
<1>3. TaskInv'
  BY <1>1, TaskKept DEF EffectInv
<1>4. e[1] \in {"Configure", "Apply"}
  BY <1>1, EntryKinds
<1>5. OperationScripts'
  BY <1>1, <1>2, <1>4, CalmReplace
<1> USE DEF EffectInv, ControlPoints
<1>6. Dispatching'
  <2>1. SUFFICES ASSUME pc = "dispatch" PROVE Dispatching'
    BY <1>1 DEF Dispatching
  <2>2. ASSUME NEW x \in Epochs, todo = <<Start(x)>> \/ todo = <<Start(x), Apply>>
        PROVE  FALSE
    BY <1>4, <2>2, EntryKinds, OneEntry, TwoEntries
  <2>3. todo = <<Apply>> /\ Working
    BY <1>1, <2>1, <2>2 DEF Dispatching
  <2>4. todo' = <<>> /\ Working'
    BY <1>1, <2>3, OneEntry DEF Working, lifecycleVars
  <2>5. QED
    BY <2>4 DEF Dispatching
<1>7. ApplyPending'
  BY <1>1, <1>2 DEF ApplyPending, Pending
<1>8. Draining'
  BY <1>1, <1>2 DEF Draining, Working, lifecycleVars
<1>9. Asking'
  <2>1. SUFFICES ASSUME pc = "approval" PROVE Asking'
    BY <1>1 DEF Asking
  <2>2. PICK m \in Modes : e = Configure(m) /\ ConfigurationQueued(m)
    BY <1>1, <1>2, <2>1, EntryKinds DEF Draining, DrainKinds, EpochKinds
  <2>3. effective' = effective
    BY <1>2, <2>1, <2>2 DEF Asking, Pending, ConfigurationQueued
  <2>4. \A o \in Ops : e # Begin(o) /\ \A c : e # Intent(o, c)
    BY <1>4, EntryKinds DEF Begin
  <2>5. asked \subseteq Ops
    BY DEF EngineTypeOK
  <2>6. ASSUME NEW o \in asked PROVE Asked(o)'
    <3>1. Asked(o) /\ opStatus[o] = "Started"
      BY <2>1, <2>4, <2>5 DEF Asking, Asked
    <3>2. QED
      BY <1>1, <1>2, <3>1 DEF Asked, Pending, lifecycleVars
  <2>7. QED
    BY <1>1, <1>2, <2>1, <2>3, <2>6 DEF Asking, NoAllow, Pending, Tightens
<1>10. QED
  BY <1>1, <1>2, <1>3, <1>5, <1>6, <1>7, <1>8, <1>9

\* Letting an effect through: the operation is started and nothing is recorded.
LEMMA AllowKeeps ==
  ASSUME EffectInv, AllowStep
  PROVE  TaskInv' /\ IsScript(todo)' /\ OperationScripts' /\ ControlPoints'
<1>1. PICK o \in Ops : /\ Head(todo) = Allow(o)
                       /\ effect' = [effect EXCEPT ![o] = "allowed"]
  BY DEF AllowStep
<1>2. /\ UNCHANGED <<lifecycleVars, pc, asked, effective, pending>>
      /\ todo # <<>> /\ todo' = Tail(todo)
  BY DEF AllowStep, volatile, permission
<1>3. IsScript(Tail(todo)) /\ Entries(todo) = {Allow(o)} \cup Entries(Tail(todo))
  BY <1>1, <1>2, Popped DEF EffectInv
<1>4. Pending(Allow(o)) /\ \A x : Pending(x)' => Pending(x)
  BY <1>2, <1>3 DEF Pending
<1>5. \A p \in Ops : effect'[p] = IF p = o THEN "allowed" ELSE effect[p]
  BY <1>1 DEF EffectInv, EngineTypeOK
<1> USE DEF EffectInv, OperationScripts, ControlPoints
<1>6. /\ opStatus[o] = "Started" /\ "file" \notin bound[o] /\ ~Pending(Bind(o))
      /\ NoAllow(todo')
  BY <1>1, <1>2, <1>4, EntryKinds
     DEF AllowPermitted, AllowOf, AllowNext, BeginNext, IntentNext, Begin
<1>7. \A to \in Outcomes : ~Pending(Op(o, "Started", to))
  BY <1>4 DEF OutcomePending
<1>8. TaskInv'
  BY <1>2, <1>5, <1>6 DEF TaskInv, lifecycleVars, OutcomeKnown, SuccessReported,
     ClausesRestOnSuccess, BoundReported, Unrecorded, Exists
<1>9. AllowPermitted'
  BY <1>2, <1>6 DEF AllowPermitted, AllowOf, NoAllow, Pending
<1>10. OutcomePending'
  BY <1>4, <1>5, <1>7 DEF OutcomePending
<1>11. SuccessPending'
  <2>1. SUFFICES ASSUME NEW p \in Ops, Pending(Op(p, "Started", "Succeeded"))'
                 PROVE  /\ effect'[p] = "reported"
                        /\ opClass'[p] = "IdempotentMutation" => "file" \in bound'[p]
                        /\ \A c \in EffectClasses :
                             Pending(Intent(p, c))' => c = "Observation"
    BY DEF SuccessPending, SuccessOf
  <2>2. p # o /\ Head(todo) # Bind(p)
    BY <1>1, <1>4, <1>7, <2>1, EntryKinds DEF Outcomes
  <2>3. QED
    BY <1>2, <1>4, <1>5, <2>1, <2>2 DEF SuccessPending, SuccessOf, lifecycleVars
<1>12. SettlePending' /\ BindPending' /\ RevisePending'
  BY <1>2, <1>4, <1>5, <1>6 DEF SettlePending, SettleOf, BindPending, RevisePending,
     SomeSuccess, lifecycleVars, Exists
<1>13. Dispatching'
  <2>1. pc # "dispatch"
    BY <1>1, <1>2, EntryKinds, OneEntry, TwoEntries DEF Dispatching
  <2>2. QED
    BY <1>2, <2>1 DEF Dispatching
<1>14. ApplyPending' /\ Draining'
  BY <1>2, <1>3, <1>4 DEF ApplyPending, Draining, Working, lifecycleVars
<1>15. Asking'
  BY <1>2, <1>4 DEF Asking, NoAllow, Pending
<1>16. QED
  BY <1>2, <1>3, <1>8, <1>9, <1>10, <1>11, <1>12, <1>13, <1>14, <1>15

\* The conditional entries and the closing loop only insert calm entries, and
\* only where control is about to leave the epoch.
LEMMA InsertKeeps ==
  ASSUME EffectInv, SkipStep \/ CloseStep
  PROVE  TaskInv' /\ IsScript(todo)' /\ OperationScripts' /\ ControlPoints'
<1>1. /\ UNCHANGED <<lifecycleVars, effect, pc>> /\ todo # <<>>
      /\ Head(todo)[1] \in {"FinishIfActive", "BlockUnlessBlocked", "CancelOrFail", "CloseAll"}
  BY EntryKinds DEF SkipStep, CloseStep, volatile
<1>2. IsScript(Tail(todo)) /\ Entries(todo) = {Head(todo)} \cup Entries(Tail(todo))
  BY <1>1, Popped DEF EffectInv
<1>3. \E s, t : /\ Calm(s) /\ IsScript(t) /\ Entries(t) \subseteq Entries(todo)
                /\ todo' = s \o t
  <2>1. CASE SkipStep
    <3>1. Calm(IF status = "Blocked" THEN <<>> ELSE <<Block>>)
      BY CalmEntries, CalmParts
    <3>2. QED
      BY <1>2, <2>1, <3>1, CalmHandlers DEF SkipStep
  <2>2. CASE CloseStep
    <3>1. Tail(todo) = <<>> \o Tail(todo)
      BY <1>2, EmptyScript, Joined
    <3>2. IsScript(todo)
      BY DEF EffectInv
    <3>3. QED
      BY <1>2, <2>2, <3>1, <3>2, CalmHandlers, CalmParts DEF CloseStep
  <2>3. QED
    BY <2>1, <2>2
<1>4. IsScript(todo') /\ \A x \in Entries(todo') : CalmEntry(x) \/ x \in Entries(todo)
  BY <1>3, Joined DEF Calm
<1>5. TaskInv' /\ OperationScripts'
  BY <1>1, <1>4, TaskKept, CalmReplace DEF EffectInv
<1> USE DEF EffectInv, ControlPoints
<1>6. pc # "dispatch"
  BY <1>1, EntryKinds, OneEntry, TwoEntries DEF Dispatching
<1>7. pc \notin {"drain", "approval"}
  BY <1>1, <1>2 DEF Draining, DrainKinds, EpochKinds
<1>8. ~Pending(Apply)'
  BY <1>4, <1>6, EntryKinds DEF ApplyPending, Pending, CalmEntry
<1>9. ControlPoints'
  BY <1>1, <1>6, <1>7, <1>8 DEF Dispatching, ApplyPending, Draining, Asking
<1>10. QED
  BY <1>4, <1>5, <1>9

-----------------------------------------------------------------------------
(* Choosing a script *)

\* Opening the store makes started operations uncertain and nothing else.
LEMMA OpenStoreKeeps ==
  ASSUME EffectInv, OpenStore
  PROVE  TaskInv' /\ IsScript(todo)' /\ OperationScripts' /\ ControlPoints'
<1>1. Calm(todo') /\ pc' \in Elsewhere /\ UNCHANGED effect
  BY CalmParts DEF OpenStore, Script, Elsewhere
<1>2. CASE UNCHANGED lifecycleVars
  BY <1>1, <1>2, TaskKept, CalmIsSafe DEF EffectInv
<1>3. CASE ReconcileAbandonedOperations
  <2>1. /\ UNCHANGED <<satisfied, opClass, bound>>
        /\ \A o \in Ops : opStatus'[o] = IF opStatus[o] = "Started" THEN "Uncertain"
                                         ELSE opStatus[o]
    BY <1>3 DEF ReconcileAbandonedOperations, StartedOperations, contractVars
  <2>2. TaskInv'
    BY <1>1, <2>1 DEF EffectInv, TaskInv, OutcomeKnown, SuccessReported,
       ClausesRestOnSuccess, BoundReported, Unrecorded, Exists
  <2>3. QED
    BY <1>1, <2>2, CalmIsSafe
<1>4. QED
  BY <1>2, <1>3 DEF OpenStore

\* A script whose entries, calm ones aside, are all about one operation.
LEMMA AboutOne ==
  ASSUME NEW o \in Ops,
         \A x \in Entries(todo') :
           \/ CalmEntry(x)
           \/ x[1] \in {"Intent", "Bind", "Allow", "Op"} /\ x[2] = o,
         Pending(Allow(o))' => AllowOf(o)',
         \A to \in Outcomes : Pending(Op(o, "Started", to))' =>
                                effect'[o] # "allowed" /\ ~Pending(Allow(o))',
         Pending(Op(o, "Started", "Succeeded"))' => SuccessOf(o)',
         Pending(Op(o, "Uncertain", "Reconciled"))' => SettleOf(o)',
         Pending(Bind(o))' => effect'[o] = "reported"
  PROVE  OperationScripts' /\ ~Pending(Apply)'
<1>1. \A p \in Ops : /\ Pending(Allow(p))' => p = o
                     /\ Pending(Bind(p))' => p = o
  BY EntryKinds, EntryFields DEF Pending, CalmEntry
<1>2. \A p \in Ops, from, to \in OpStatuses :
        to # "Uncertain" /\ Pending(Op(p, from, to))' => p = o
  BY EntryKinds, EntryFields DEF Pending, CalmEntry
<1>3. \A c : ~Pending(Revise(c))'
  BY EntryKinds DEF Pending, CalmEntry
<1>4. ~Pending(Apply)'
  BY EntryKinds DEF Pending, CalmEntry
<1>5. AllowPermitted' /\ BindPending' /\ RevisePending'
  BY <1>1, <1>3 DEF AllowPermitted, BindPending, RevisePending
<1>6. OutcomePending'
  BY <1>2 DEF OutcomePending, Outcomes, OpStatuses
<1>7. SuccessPending' /\ SettlePending'
  BY <1>2 DEF SuccessPending, SettlePending, OpStatuses
<1>8. QED
  BY <1>4, <1>5, <1>6, <1>7 DEF OperationScripts

\* Where control stays in the epoch, the script holds only the epoch's entries.
LEMMA DrainIsSafe ==
  ASSUME pc' = "drain", Working', \A x \in Entries(todo') : x[1] \in DrainKinds
  PROVE  ControlPoints'
<1>1. ~Pending(Apply)'
  BY EntryKinds DEF Pending, DrainKinds, EpochKinds
<1>2. QED
  BY <1>1 DEF ControlPoints, Dispatching, ApplyPending, Draining, Asking

\* The entries reconcile_abandoned_epoch makes for one operation.
LEMMA ReconcileScript ==
  ASSUME NEW o, NEW m
  PROVE  /\ IsScript(ReconcileOperation(o, m))
         /\ opStatus[o] = "IntentRecorded" =>
              Entries(ReconcileOperation(o, m))
                = {Begin(o), Evidence(o), Op(o, "Started", "Failed")}
         /\ opStatus[o] # "IntentRecorded" =>
              /\ Entries(ReconcileOperation(o, m)) \subseteq
                   {Evidence(o), Op(o, "Started", "Uncertain"),
                    Op(o, "Uncertain", "Reconciled")}
              /\ Op(o, "Uncertain", "Reconciled") \in Entries(ReconcileOperation(o, m))
                   => opClass[o] = "Observation" \/ "file" \in bound[o]
<1> DEFINE settle == Op(o, "Uncertain", "Reconciled")
           close == IF opStatus[o] = "Started" THEN CloseOperation(o, "Uncertain") ELSE <<>>
           rest == CASE opClass[o] = "Observation" -> <<Evidence(o), settle>>
                     [] opClass[o] = "IdempotentMutation" ->
                          <<Evidence(o)>> \o
                          (IF "file" \in bound[o] /\ m THEN <<settle>> ELSE <<>>)
                     [] OTHER -> <<>>
<1>1. \A to : /\ IsScript(CloseOperation(o, to))
              /\ Entries(CloseOperation(o, to)) = {Evidence(o), Op(o, "Started", to)}
  BY TwoEntries, Zenon DEF CloseOperation
<1>2. IsScript(<<Begin(o)>>) /\ Entries(<<Begin(o)>>) = {Begin(o)}
  BY OneEntry
<1>3. CASE opStatus[o] = "IntentRecorded"
  <2>1. ReconcileOperation(o, m) = <<Begin(o)>> \o CloseOperation(o, "Failed")
    BY <1>3 DEF ReconcileOperation, Begin
  <2>2. QED
    BY <1>1, <1>2, <1>3, <2>1, Joined
<1>4. CASE opStatus[o] # "IntentRecorded"
  <2>1. ReconcileOperation(o, m) = close \o rest
    BY <1>4, Zenon DEF ReconcileOperation
  <2>2. IsScript(close) /\ Entries(close) \subseteq {Evidence(o), Op(o, "Started", "Uncertain")}
    BY <1>1, EmptyScript
  <2>3. settle \notin Entries(close)
    <3>1. settle # Evidence(o) /\ settle # Op(o, "Started", "Uncertain")
      BY EntryKinds, EntryFields
    <3>2. QED
      BY <2>2, <3>1
  <2>4. /\ IsScript(rest) /\ Entries(rest) \subseteq {Evidence(o), settle}
        /\ settle \in Entries(rest) => opClass[o] = "Observation" \/ "file" \in bound[o]
    <3>1. settle # Evidence(o)
      BY EntryKinds
    <3>2. CASE opClass[o] = "Observation"
      <4>1. rest = <<Evidence(o), settle>>
        BY <3>2
      <4>2. IsScript(<<Evidence(o), settle>>)
            /\ Entries(<<Evidence(o), settle>>) = {Evidence(o), settle}
        BY TwoEntries, Zenon
      <4>3. QED
        BY <3>2, <4>1, <4>2, Zenon
    <3>3. CASE opClass[o] = "IdempotentMutation"
      <4> DEFINE tail == IF "file" \in bound[o] /\ m THEN <<settle>> ELSE <<>>
      <4>1. rest = <<Evidence(o)>> \o tail
        BY <3>3
      <4>2. IsScript(<<Evidence(o)>>) /\ Entries(<<Evidence(o)>>) = {Evidence(o)}
        BY OneEntry
      <4>3. IsScript(tail) /\ Entries(tail) \subseteq {settle}
            /\ (settle \in Entries(tail) => "file" \in bound[o])
        BY OneEntry, EmptyScript
      <4> HIDE DEF rest, tail
      <4>4. IsScript(rest) /\ Entries(rest) = {Evidence(o)} \cup Entries(tail)
        BY <4>1, <4>2, <4>3, Joined
      <4>5. QED
        BY <3>1, <4>3, <4>4
    <3>4. CASE opClass[o] \notin {"Observation", "IdempotentMutation"}
      <4>1. rest = <<>>
        BY <3>4
      <4>2. QED
        BY <4>1, EmptyScript
    <3>5. QED
      BY <3>2, <3>3, <3>4
  <2> HIDE DEF close, rest
  <2>5. IsScript(close \o rest) /\ Entries(close \o rest) = Entries(close) \cup Entries(rest)
    BY <2>2, <2>4, Joined
  <2>6. QED
    BY <1>4, <2>1, <2>2, <2>3, <2>4, <2>5
<1>5. QED
  BY <1>3, <1>4

\* Reconciling fails only what was never dispatched, and settles only an
\* observation or a bound file.
LEMMA ReconcileKeeps ==
  ASSUME EffectInv, ReconcileAbandonedEpoch
  PROVE  TaskInv' /\ IsScript(todo)' /\ OperationScripts' /\ ControlPoints'
<1>1. /\ UNCHANGED <<lifecycleVars, effect>> /\ pc' \in Elsewhere
  BY DEF ReconcileAbandonedEpoch, Script, Idle, Elsewhere
<1>2. TaskInv'
  BY <1>1, TaskKept DEF EffectInv
<1>3. CASE Calm(todo')
  BY <1>1, <1>2, <1>3, CalmIsSafe
<1>4. ASSUME NEW o \in work, NEW m \in BOOLEAN, todo' = ReconcileOperation(o, m)
      PROVE  IsScript(todo)' /\ OperationScripts' /\ ControlPoints'
  <2>1. o \in Ops
    BY DEF EffectInv, EngineTypeOK
  <2>2. \A x : Pending(x)' <=> x \in Entries(ReconcileOperation(o, m))
    BY <1>4 DEF Pending
  <2>3. IsScript(todo')
    BY <1>4, ReconcileScript
  <2>4. CASE opStatus[o] = "IntentRecorded"
    <3>1. Entries(todo') = {Begin(o), Evidence(o), Op(o, "Started", "Failed")}
      BY <1>4, <2>4, ReconcileScript
    <3>2. \A x \in Entries(todo') : CalmEntry(x) \/ (x[1] = "Op" /\ x[2] = o)
      BY <3>1, EntryKinds, EntryFields, CalmEntries DEF Begin
    <3>3. ~Pending(Allow(o))' /\ ~Pending(Bind(o))'
          /\ ~Pending(Op(o, "Started", "Succeeded"))'
          /\ ~Pending(Op(o, "Uncertain", "Reconciled"))'
      BY <3>1, EntryKinds, EntryFields DEF Pending, Begin
    <3>4. effect'[o] # "allowed"
      BY <1>1, <2>1, <2>4 DEF EffectInv, TaskInv, OutcomeKnown
    <3>5. OperationScripts' /\ ~Pending(Apply)'
      BY <2>1, <3>2, <3>3, <3>4, AboutOne
    <3>6. QED
      BY <1>1, <2>3, <3>5, ElsewhereIsSafe
  <2>5. CASE opStatus[o] # "IntentRecorded"
    <3>1. Entries(todo') \subseteq {Evidence(o), Op(o, "Started", "Uncertain"),
                                    Op(o, "Uncertain", "Reconciled")}
      BY <1>4, <2>5, ReconcileScript
    <3>2. \A x \in Entries(todo') : CalmEntry(x) \/ (x[1] = "Op" /\ x[2] = o)
      BY <3>1, EntryKinds, EntryFields, CalmEntries
    <3>3. ~Pending(Allow(o))' /\ ~Pending(Bind(o))'
      BY <3>1, EntryKinds DEF Pending
    <3>4. \A to \in Outcomes : ~Pending(Op(o, "Started", to))'
      BY <3>1, EntryKinds, EntryFields DEF Pending, Outcomes
    <3>5. Pending(Op(o, "Uncertain", "Reconciled"))' => SettleOf(o)'
      <4>1. Pending(Op(o, "Uncertain", "Reconciled"))' =>
              opClass[o] = "Observation" \/ "file" \in bound[o]
        BY <2>2, <2>5, ReconcileScript
      <4>2. opClass[o] = "Observation" \/ "file" \in bound[o] => Exists(o)
        BY <2>1 DEF EffectInv, TaskInv, Unrecorded
      <4>3. QED
        BY <1>1, <4>1, <4>2 DEF SettleOf, Exists, lifecycleVars
    <3>6. OperationScripts' /\ ~Pending(Apply)'
      BY <2>1, <3>2, <3>3, <3>4, <3>5, AboutOne DEF Outcomes
    <3>7. QED
      BY <1>1, <2>3, <3>6, ElsewhereIsSafe
  <2>6. QED
    BY <2>4, <2>5
<1>5. \/ Calm(todo')
      \/ \E o \in work, m \in BOOLEAN : todo' = ReconcileOperation(o, m)
  BY CalmEntries, CalmParts DEF ReconcileAbandonedEpoch, Script, Idle
<1>6. QED
  BY <1>2, <1>3, <1>4, <1>5

\* Starting an epoch queues its start and, when a configuration is pending, its
\* application.
LEMMA StartEpochKeeps ==
  ASSUME EffectInv, StartEpoch
  PROVE  IsScript(todo)' /\ OperationScripts' /\ ControlPoints'
<1> DEFINE tail == IF pending = NoMode THEN <<>> ELSE <<Apply>>
<1>1. \/ Idle(<<Block>>)
      \/ \E e : Idle(<<Start(e), Block>>)
      \/ \E e \in Epochs : Script(<<Start(e)>> \o tail, "dispatch")
  <2>1. ASSUME NEW e \in (IF pendingRecovery = NoEpoch THEN FreshEpochs
                          ELSE {pendingRecovery})
        PROVE  e \in Epochs
    BY <2>1 DEF FreshEpochs, EffectInv, EngineTypeOK, TypeOK
  <2>2. QED
    BY <2>1 DEF StartEpoch
<1>2. CASE Idle(<<Block>>) \/ \E e : Idle(<<Start(e), Block>>)
  <2>1. Calm(todo') /\ pc' \in Elsewhere
    BY <1>2, CalmEntries, CalmParts DEF Idle, Script, Elsewhere
  <2>2. QED
    BY <2>1, CalmIsSafe
<1>3. ASSUME NEW e \in Epochs, Script(<<Start(e)>> \o tail, "dispatch")
      PROVE  IsScript(todo)' /\ OperationScripts' /\ ControlPoints'
  <2>1. UNCHANGED pending
    BY DEF StartEpoch, OnlyControl, permission
  <2>2. \/ todo' = <<Start(e)>>
        \/ todo' = <<Start(e), Apply>> /\ pending' # NoMode
    <3>1. <<Start(e)>> \o <<>> = <<Start(e)>>
      BY OneEntry, EmptyScript, Joined
    <3>2. <<Start(e)>> \o <<Apply>> = <<Start(e), Apply>>
      BY Appended, Zenon
    <3>3. QED
      BY <1>3, <2>1, <3>1, <3>2, Zenon DEF Script
  <2>3. IsScript(todo') /\ Entries(todo') \subseteq {Start(e), Apply}
    <3>1. IsScript(<<Start(e), Apply>>) /\ Entries(<<Start(e), Apply>>) = {Start(e), Apply}
      BY TwoEntries, Zenon
    <3>2. IsScript(<<Start(e)>>) /\ Entries(<<Start(e)>>) = {Start(e)}
      BY OneEntry
    <3>3. QED
      BY <2>2, <3>1, <3>2, Zenon
  <2>4. OperationScripts'
    <3>1. \A x \in Entries(todo') : CalmEntry(x) \/ x = Apply
      BY <2>3, CalmEntries
    <3>2. QED
      BY <3>1, CalmOperations
  <2>5. pc' = "dispatch"
    BY <1>3 DEF Script
  <2>6. Dispatching'
    BY <2>2, Zenon DEF Dispatching
  <2>7. ControlPoints'
    BY <2>5, <2>6 DEF ControlPoints, ApplyPending, Draining, Asking
  <2>8. QED
    BY <2>3, <2>4, <2>7
<1>4. QED
  BY <1>1, <1>2, <1>3

\* A dispatched epoch is drained from an empty script; a refused one is ended,
\* blocked or left, none of which concerns an operation.
LEMMA StartProviderEpochKeeps ==
  ASSUME EffectInv, StartProviderEpoch
  PROVE  IsScript(todo)' /\ OperationScripts' /\ ControlPoints'
<1>1. UNCHANGED lifecycleVars
  BY DEF StartProviderEpoch
<1>2. \/ Script(<<>>, "drain")
      \/ Calm(todo') /\ pc' \in Elsewhere
  BY CalmEntries, CalmParts, CalmHandlers DEF StartProviderEpoch, Idle, Script, Elsewhere
<1>3. CASE Script(<<>>, "drain")
  <2>1. Working'
    <3>1. pc = "dispatch" /\ todo = <<>>
      BY DEF StartProviderEpoch, At
    <3>2. \A e : <<Start(e)>> # <<>> /\ <<Start(e), Apply>> # <<>> /\ <<Apply>> # <<>>
      BY OneEntry, TwoEntries
    <3>3. Working
      BY <3>1, <3>2 DEF EffectInv, ControlPoints, Dispatching
    <3>4. QED
      BY <1>1, <3>3 DEF Working, lifecycleVars
  <2>2. todo' = <<>> /\ pc' = "drain" /\ Entries(todo') = {}
    BY <1>3, EmptyScript DEF Script
  <2>3. ControlPoints'
    BY <2>1, <2>2, DrainIsSafe
  <2>4. OperationScripts' /\ IsScript(todo')
    BY <2>2, CalmOperations, EmptyScript
  <2>5. QED
    BY <2>3, <2>4
<1>4. QED
  BY <1>2, <1>3, CalmIsSafe

\* Asking for a boundary, in the loop or while an approval is awaited, changes
\* no script, or leaves the epoch.
LEMMA BoundaryKeeps ==
  ASSUME EffectInv, SoftBoundary \/ Quiesce
  PROVE  /\ UNCHANGED <<lifecycleVars, effect>>
         /\ IsScript(todo)' /\ OperationScripts' /\ ControlPoints'
<1>1. /\ UNCHANGED <<lifecycleVars, effect, effective, pending>>
      /\ todo = <<>> /\ pc \in {"drain", "approval"}
  BY DEF SoftBoundary, Quiesce, At, permission
<1>2. \/ todo' = <<>> /\ pc' = pc /\ asked' = asked
      \/ Calm(todo') /\ pc' \in Elsewhere
  BY CalmHandlers DEF SoftBoundary, Quiesce, Script, Idle, Elsewhere, At
<1>3. CASE todo' = <<>> /\ pc' = pc /\ asked' = asked
  <2>1. Entries(todo') = {} /\ IsScript(todo')
    BY <1>3, EmptyScript
  <2>2. OperationScripts'
    BY <2>1, CalmOperations
  <2>3. Working'
    BY <1>1 DEF EffectInv, ControlPoints, Draining, Working, lifecycleVars
  <2>4. Dispatching' /\ ApplyPending' /\ Draining'
    BY <1>1, <1>3, <2>1, <2>3 DEF Dispatching, ApplyPending, Draining, Pending
  <2>5. Asking'
    BY <1>1, <1>3, <2>1 DEF EffectInv, ControlPoints, Asking, Asked, NoAllow, Pending,
       Tightens, lifecycleVars
  <2>6. QED
    BY <1>1, <2>1, <2>2, <2>4, <2>5 DEF ControlPoints
<1>4. QED
  BY <1>1, <1>2, <1>3, CalmIsSafe

\* A configuration that does not tighten waits in the loop; one that does
\* leaves the epoch.
LEMMA ConfigureKeeps ==
  ASSUME EffectInv, ConfigureWorking \/ ConfigureAwaiting
  PROVE  /\ UNCHANGED <<lifecycleVars, effect>>
         /\ IsScript(todo)' /\ OperationScripts' /\ ControlPoints'
<1>1. /\ UNCHANGED <<lifecycleVars, effect, effective, pending>>
      /\ todo = <<>> /\ pc \in {"drain", "approval"}
  BY DEF ConfigureWorking, ConfigureAwaiting, At, permission
<1>2. \/ Calm(todo') /\ pc' \in Elsewhere
      \/ \E m \in Modes : /\ ~Tightens(m)
                          /\ todo' = <<Configure(m)>> /\ pc' = pc /\ asked' = asked
  <2>1. CASE ConfigureWorking
    <3>1. \A m : /\ Calm(<<Configure(m), Interrupt>>)
                 /\ Calm(<<Configure(m)>> \o InterruptAndFail)
      BY CalmEntries, CalmParts, CalmHandlers
    <3>2. ASSUME NEW m PROVE Calm(<<Configure(m), CloseAll, Interrupt, Block>>)
      BY FourCalm, CalmEntries
    <3>3. QED
      BY <2>1, <3>1, <3>2 DEF ConfigureWorking, Script, Idle, Elsewhere, At
  <2>2. CASE ConfigureAwaiting
    <3>1. ASSUME NEW m, NEW o, NEW queued \in {<<Configure(m)>>, <<>>}
          PROVE  Calm(queued \o CloseOperation(o, "Uncertain")
                        \o <<Interrupt, Block>> \o InterruptAndBlock)
      <4>1. Calm(queued) /\ Calm(<<Interrupt, Block>>)
        BY CalmEntries, CalmParts
      <4>2. Calm(queued \o CloseOperation(o, "Uncertain"))
        BY <4>1, CalmParts, CalmHandlers
      <4>3. Calm(queued \o CloseOperation(o, "Uncertain") \o <<Interrupt, Block>>)
        BY <4>1, <4>2, CalmParts
      <4>4. QED
        BY <4>3, CalmParts, CalmHandlers
    <3>2. QED
      BY <2>2, <3>1 DEF ConfigureAwaiting, Script, Idle, Elsewhere, At
  <2>3. QED
    BY <2>1, <2>2
<1>3. ASSUME NEW m \in Modes, ~Tightens(m), todo' = <<Configure(m)>>, pc' = pc, asked' = asked
      PROVE  IsScript(todo)' /\ OperationScripts' /\ ControlPoints'
  <2>1. Entries(todo') = {Configure(m)} /\ IsScript(todo')
    BY <1>3, OneEntry
  <2>2. CalmEntry(Configure(m)) /\ Configure(m)[1] = "Configure"
    BY CalmEntries, EntryKinds
  <2>3. OperationScripts'
    BY <2>1, <2>2, CalmOperations
  <2>4. Working'
    BY <1>1 DEF EffectInv, ControlPoints, Draining, Working, lifecycleVars
  <2>5. Dispatching' /\ ApplyPending' /\ Draining'
    BY <1>1, <1>3, <2>1, <2>2, <2>4, EntryKinds
       DEF Dispatching, ApplyPending, Draining, Pending, DrainKinds
  <2>6. Asking'
    <3>1. SUFFICES ASSUME pc = "approval" PROVE Asking'
      BY <1>3 DEF Asking
    <3>2. effective' # "ReadOnly" /\ \A o \in asked : Asked(o)
      BY <1>1, <3>1 DEF EffectInv, ControlPoints, Asking
    <3>3. \A o, to : ~Pending(Op(o, "Started", to))' /\ ~Pending(Allow(o))' /\ ~Pending(Bind(o))'
      BY <2>1, EntryKinds DEF Pending
    <3>4. \A n \in Modes : Pending(Configure(n))' => ~Tightens(n)'
      BY <1>1, <1>3, <2>1, EntryFields DEF Pending, Tightens
    <3>5. \A o \in asked' : Asked(o)'
      BY <1>1, <1>3, <3>2, <3>3 DEF Asked, lifecycleVars
    <3>6. QED
      BY <3>2, <3>3, <3>4, <3>5 DEF Asking, NoAllow, Pending
  <2>7. QED
    BY <2>1, <2>3, <2>5, <2>6 DEF ControlPoints
<1>4. QED
  BY <1>1, <1>2, <1>3, CalmIsSafe

-----------------------------------------------------------------------------
(* Effects *)

\* A script with one more entry in front.
LEMMA Consed ==
  ASSUME NEW a, NEW t, IsScript(t)
  PROVE  /\ IsScript(<<a>> \o t) /\ <<a>> \o t # <<>>
         /\ Entries(<<a>> \o t) = {a} \cup Entries(t)
         /\ Head(<<a>> \o t) = a /\ Tail(<<a>> \o t) = t
<1> DEFINE u == <<a>>
<1>1. IsScript(u) /\ u # <<>> /\ Entries(u) = {a} /\ Head(u) = a /\ Tail(u) = <<>>
  BY OneEntry
<1> HIDE DEF u
<1>2. /\ IsScript(u \o t) /\ u \o t # <<>> /\ Entries(u \o t) = {a} \cup Entries(t)
      /\ Head(u \o t) = a /\ Tail(u \o t) = Tail(u) \o t
  BY <1>1, Joined
<1>3. Tail(u) \o t = t
  BY <1>1, Joined
<1>4. QED
  BY <1>2, <1>3 DEF u

\* A script that opens an operation first.
Opening(o, c, t) == OpenOperation(o, c) \o t
\* The script that opens operation o and continues with t.
LEMMA Opened ==
  ASSUME NEW o, NEW c, NEW t, IsScript(t)
  PROVE  /\ IsScript(Opening(o, c, t)) /\ Opening(o, c, t) # <<>>
         /\ Entries(Opening(o, c, t)) = {Intent(o, c), Begin(o)} \cup Entries(t)
         /\ Head(Opening(o, c, t)) = Intent(o, c)
         /\ Tail(Opening(o, c, t)) # <<>>
         /\ Head(Tail(Opening(o, c, t))) = Begin(o)
         /\ Tail(Tail(Opening(o, c, t))) = t
<1> DEFINE s == Opening(o, c, t)
<1> DEFINE u == OpenOperation(o, c)
           v == <<Begin(o)>>
<1>1. /\ IsScript(u) /\ u # <<>> /\ Entries(u) = {Intent(o, c), Begin(o)}
      /\ Head(u) = Intent(o, c) /\ Tail(u) = v
  BY TwoEntries, Zenon DEF OpenOperation, Begin
<1>2. v \o t # <<>> /\ Head(v \o t) = Begin(o) /\ Tail(v \o t) = t
  BY Consed
<1>3. s = u \o t
  BY DEF Opening
<1> HIDE DEF s, u, v
<1>4. /\ IsScript(s) /\ Entries(s) = Entries(u) \cup Entries(t)
      /\ s # <<>> /\ Head(s) = Head(u) /\ Tail(s) = Tail(u) \o t
  BY <1>1, <1>3, Joined
<1>5. /\ IsScript(s) /\ s # <<>> /\ Tail(s) # <<>>
      /\ Entries(s) = {Intent(o, c), Begin(o)} \cup Entries(t)
      /\ Head(s) = Intent(o, c) /\ Head(Tail(s)) = Begin(o) /\ Tail(Tail(s)) = t
  BY <1>1, <1>2, <1>4
<1>6. QED
  BY <1>5 DEF s

\* Closing an operation, and refusing it.
LEMMA Closed ==
  ASSUME NEW o, NEW to
  PROVE  /\ IsScript(CloseOperation(o, to)) /\ IsScript(Refusal(o, to))
         /\ Entries(CloseOperation(o, to)) = {Evidence(o), Op(o, "Started", to)}
         /\ \A x \in Entries(Refusal(o, to)) : CalmEntry(x) \/ x = Op(o, "Started", to)
<1> DEFINE u == CloseOperation(o, to)
<1>1. IsScript(u) /\ Entries(u) = {Evidence(o), Op(o, "Started", to)}
  BY TwoEntries, Zenon DEF CloseOperation
<1> HIDE DEF u
<1>2. Calm(<<Block>>) /\ Calm(InterruptAndBlock)
  BY CalmEntries, CalmParts, CalmHandlers
<1>3. IsScript(u \o <<Block>>) /\ Entries(u \o <<Block>>) = Entries(u) \cup Entries(<<Block>>)
  BY <1>1, <1>2, Joined DEF Calm
<1>4. /\ IsScript(u \o <<Block>> \o InterruptAndBlock)
      /\ Entries(u \o <<Block>> \o InterruptAndBlock)
           = Entries(u) \cup Entries(<<Block>>) \cup Entries(InterruptAndBlock)
  BY <1>2, <1>3, Joined DEF Calm
<1>5. \A x \in Entries(u \o <<Block>> \o InterruptAndBlock) :
        CalmEntry(x) \/ x = Op(o, "Started", to)
  BY <1>1, <1>2, <1>4, CalmEntries DEF Calm
<1>6. QED
  BY <1>1, <1>4, <1>5 DEF u, Refusal

\* A requested effect is denied, allowed at once, put to the owner or refused;
\* in every case its intent and start come first.
LEMMA RequestKeeps ==
  ASSUME EffectInv, EffectRequested
  PROVE  /\ UNCHANGED <<lifecycleVars, effect>>
         /\ IsScript(todo)' /\ OperationScripts' /\ ControlPoints'
<1>1. PICK o \in Unused, c \in EffectClasses : DenyAtBoundary(o, c) \/ DecideEffect(o, c)
  BY DEF EffectRequested
<1>2. /\ UNCHANGED <<lifecycleVars, effect, effective, pending>>
      /\ todo = <<>> /\ pc = "drain"
  BY DEF EffectRequested, At, permission
<1>3. /\ o \in Ops /\ opStatus[o] = "None" /\ effect'[o] # "allowed" /\ bound'[o] = {}
      /\ Working'
  BY <1>2 DEF Unused, EffectInv, TaskInv, OutcomeKnown, Unrecorded, Exists, ControlPoints,
              Draining, Working, lifecycleVars
\* What follows the opening: an allowance, then calm entries; or calm entries
\* and a failure.
<1> DEFINE Allowing(t) == /\ effective # "ReadOnly"
                          /\ t # <<>> /\ Head(t) = Allow(o)
                          /\ IsScript(t) /\ Calm(Tail(t))
           Failing(t) == /\ IsScript(t)
                         /\ \A x \in Entries(t) : CalmEntry(x) \/ x = Op(o, "Started", "Failed")
<1>4. \E t : /\ todo' = OpenOperation(o, c) \o t
             /\ Allowing(t) \/ Failing(t)
             /\ \/ pc' \in Elsewhere
                \/ pc' = "drain" /\ t \in {<<Allow(o)>>, CloseOperation(o, "Failed")}
                \/ pc' = "approval" /\ t = <<>> /\ effective = "Approval" /\ asked' = {o}
  <2>1. Failing(<<>>) /\ Failing(InterruptAndBlock) /\ Failing(CloseOperation(o, "Failed"))
        /\ Failing(Refusal(o, "Failed")) /\ Failing(Refusal(o, "Uncertain"))
    BY EmptyScript, CalmHandlers, Closed, CalmEntries DEF Calm
  <2>2. effective # "ReadOnly" => Allowing(<<Allow(o)>>)
    BY OneEntry, CalmParts
  <2>3. effective # "ReadOnly" => Allowing(<<Allow(o)>> \o Refusal(o, "Uncertain"))
    <3>1. Calm(Refusal(o, "Uncertain")) /\ IsScript(Refusal(o, "Uncertain"))
      BY CalmHandlers DEF Calm
    <3>2. QED
      BY <3>1, Consed
  <2>4. ASSUME NEW r, r = <<>> \/ r = <<Allow(o)>>
        PROVE  OpenOperation(o, c) \o r \o Refusal(o, "Uncertain")
                 = OpenOperation(o, c) \o (r \o Refusal(o, "Uncertain"))
    <3> DEFINE u == OpenOperation(o, c)
               v == Refusal(o, "Uncertain")
    <3>1. IsScript(u) /\ IsScript(r) /\ IsScript(v)
      BY <2>4, TwoEntries, OneEntry, EmptyScript, CalmHandlers DEF OpenOperation, Calm
    <3> HIDE DEF u, v
    <3>2. u \o r \o v = u \o (r \o v)
      <4> DEFINE S == Entries(u) \cup Entries(r) \cup Entries(v)
      <4>1. u \in Seq(S) /\ r \in Seq(S) /\ v \in Seq(S)
        BY <3>1, SeqMonotonic DEF IsScript
      <4>2. QED
        BY <4>1, ConcatAssociative
    <3>3. QED
      BY <3>2 DEF u, v
  <2>5. <<>> \o Refusal(o, "Uncertain") = Refusal(o, "Uncertain")
    BY Closed, EmptyScript, Joined
  <2>6. OpenOperation(o, c) \o <<>> = OpenOperation(o, c)
    <3>1. IsScript(OpenOperation(o, c))
      BY TwoEntries DEF OpenOperation
    <3>2. QED
      BY <3>1, EmptyScript, Joined
  <2> HIDE DEF Allowing, Failing
  <2>7. CASE DenyAtBoundary(o, c)
    BY <2>1, <2>7 DEF DenyAtBoundary, Script, Idle, Elsewhere
  <2>8. CASE DecideEffect(o, c)
    <3>1. CASE effective = "FullAccess" /\ Script(OpenOperation(o, c) \o <<Allow(o)>>, "drain")
      BY <2>2, <3>1 DEF Script
    <3>2. CASE effective = "Approval" /\ Script(OpenOperation(o, c), "approval") /\ asked' = {o}
      BY <2>1, <2>6, <3>2 DEF Script
    <3>3. CASE Idle(OpenOperation(o, c) \o Refusal(o, "Failed"))
      BY <2>1, <3>3 DEF Idle, Script, Elsewhere
    <3>4. CASE Idle(OpenOperation(o, c) \o <<>> \o Refusal(o, "Uncertain"))
      BY <2>1, <2>4, <2>5, <3>4 DEF Idle, Script, Elsewhere
    <3>5. CASE effective = "FullAccess"
               /\ Idle(OpenOperation(o, c) \o <<Allow(o)>> \o Refusal(o, "Uncertain"))
      BY <2>3, <2>4, <3>5 DEF Idle, Script, Elsewhere
    <3>6. QED
      BY <2>8, <3>1, <3>2, <3>3, <3>4, <3>5 DEF DecideEffect
  <2>9. QED
    BY <1>1, <2>7, <2>8
<1>5. PICK t : /\ todo' = OpenOperation(o, c) \o t
               /\ Allowing(t) \/ Failing(t)
               /\ \/ pc' \in Elsewhere
                  \/ pc' = "drain" /\ t \in {<<Allow(o)>>, CloseOperation(o, "Failed")}
                  \/ pc' = "approval" /\ t = <<>> /\ effective = "Approval" /\ asked' = {o}
  BY <1>4
<1>6. IsScript(t)
  BY <1>5
<1>7. /\ IsScript(todo') /\ todo' # <<>> /\ Tail(todo') # <<>>
      /\ Entries(todo') = {Intent(o, c), Begin(o)} \cup Entries(t)
      /\ Head(todo') = Intent(o, c) /\ Head(Tail(todo')) = Begin(o) /\ Tail(Tail(todo')) = t
  <2>1. todo' = Opening(o, c, t)
    BY <1>5 DEF Opening
  <2>2. QED
    BY <1>6, <2>1, Opened
<1>8. \A x \in Entries(t) :
        CalmEntry(x) \/ x = Op(o, "Started", "Failed") \/ x = Allow(o)
  BY <1>5, Popped DEF Calm
<1>9. OperationScripts' /\ ~Pending(Apply)'
  <2>1. \A x \in Entries(todo') :
          \/ CalmEntry(x)
          \/ x[1] \in {"Intent", "Bind", "Allow", "Op"} /\ x[2] = o
    BY <1>7, <1>8, EntryKinds, EntryFields DEF Begin
  <2>2. /\ ~Pending(Bind(o))' /\ ~Pending(Op(o, "Started", "Succeeded"))'
        /\ ~Pending(Op(o, "Uncertain", "Reconciled"))'
    <3>1. \A x \in Entries(todo') :
            x = Intent(o, c) \/ x = Begin(o) \/ CalmEntry(x)
              \/ x = Op(o, "Started", "Failed") \/ x = Allow(o)
      BY <1>7, <1>8
    <3>2. ~Pending(Bind(o))'
      BY <3>1, EntryKinds DEF Begin, Pending, CalmEntry
    <3>3. ASSUME NEW from, NEW to, to \in {"Succeeded", "Reconciled"}
          PROVE  ~Pending(Op(o, from, to))'
      BY <3>1, <3>3, EntryKinds, EntryFields DEF Begin, Pending, CalmEntry
    <3>4. QED
      BY <3>2, <3>3
  <2>3. ASSUME Pending(Allow(o))' PROVE AllowOf(o)'
    <3>1. Allowing(t)
      <4>1. Allow(o) \in Entries(t)
        BY <1>7, <2>3, EntryKinds DEF Pending, Begin
      <4>2. ~Failing(t)
        BY <4>1, EntryKinds DEF CalmEntry
      <4>3. QED
        BY <1>5, <4>2
    <3>2. NoAllow(Tail(t))
      BY <3>1, EntryKinds DEF NoAllow, Calm, CalmEntry
    <3>3. AllowNext(o, t)
      BY <3>1, <3>2 DEF AllowNext
    <3>4. BeginNext(o, Tail(todo'))
      BY <1>7, <3>3 DEF BeginNext
    <3>5. IntentNext(o, todo')
      BY <1>7, <3>4 DEF IntentNext
    <3>6. QED
      BY <1>2, <1>3, <2>2, <3>1, <3>5 DEF AllowOf
  <2>4. ASSUME NEW to \in Outcomes, Pending(Op(o, "Started", to))'
        PROVE  effect'[o] # "allowed" /\ ~Pending(Allow(o))'
    <3>1. Op(o, "Started", to) \in Entries(t)
      BY <1>7, <2>4, EntryKinds, EntryFields DEF Pending, Begin
    <3>2. ~Allowing(t)
      BY <3>1, Popped, EntryKinds, EntryFields DEF Calm, CalmEntry, Outcomes
    <3>3. Failing(t)
      BY <1>5, <3>2
    <3>4. Allow(o) \notin Entries(t)
      BY <3>3, EntryKinds DEF CalmEntry
    <3>5. QED
      BY <1>3, <1>7, <3>4, EntryKinds DEF Pending, Begin
  <2>5. QED
    BY <1>3, <2>1, <2>2, <2>3, <2>4, AboutOne
<1>10. ControlPoints'
  <2>1. CASE pc' \in Elsewhere
    BY <1>9, <2>1, ElsewhereIsSafe
  <2>2. CASE pc' = "drain" /\ t \in {<<Allow(o)>>, CloseOperation(o, "Failed")}
    <3>1. \A x \in Entries(t) : x \in {Allow(o), Evidence(o), Op(o, "Started", "Failed")}
      BY <2>2, OneEntry, Closed
    <3>2. \A x \in Entries(todo') : x[1] \in DrainKinds
      BY <1>7, <3>1, EntryKinds DEF DrainKinds, EpochKinds, Begin
    <3>3. QED
      BY <1>3, <2>2, <3>2, DrainIsSafe
  <2>3. CASE pc' = "approval" /\ t = <<>> /\ effective = "Approval" /\ asked' = {o}
    <3>1. Entries(todo') = {Intent(o, c), Begin(o)}
      BY <1>7, <2>3, EmptyScript
    <3>2. \A x \in Entries(todo') : x[1] \in DrainKinds
      BY <3>1, EntryKinds DEF DrainKinds, EpochKinds, Begin
    <3>3. Dispatching' /\ ApplyPending' /\ Draining'
      BY <1>3, <1>9, <2>3, <3>2 DEF Dispatching, ApplyPending, Draining
    <3>4. \A p, to, m : /\ ~Pending(Allow(p))' /\ ~Pending(Bind(p))'
                        /\ ~Pending(Configure(m))' /\ ~Pending(Op(p, "Started", to))'
      BY <3>1, EntryKinds, EntryFields DEF Pending, Begin
    <3>5. Asked(o)'
      BY <1>3, <1>7, <3>4 DEF Asked
    <3>6. Asking'
      BY <1>2, <2>3, <3>4, <3>5 DEF Asking, NoAllow, Pending
    <3>7. QED
      BY <3>3, <3>6 DEF ControlPoints
  <2>4. QED
    BY <1>5, <2>1, <2>2, <2>3
<1>11. QED
  BY <1>2, <1>7, <1>9, <1>10

\* The owner's answer allows the operation that was asked about, or refuses it.
LEMMA DecisionKeeps ==
  ASSUME EffectInv, ApprovalDecided
  PROVE  /\ UNCHANGED <<lifecycleVars, effect>>
         /\ IsScript(todo)' /\ OperationScripts' /\ ControlPoints'
<1>1. PICK o \in asked :
        \/ Script(<<Allow(o)>>, "drain")
        \/ Idle(Refusal(o, "Failed"))
        \/ \E reached \in {<<>>, <<Allow(o)>>} : Idle(reached \o Refusal(o, "Uncertain"))
  BY DEF ApprovalDecided
<1>2. /\ UNCHANGED <<lifecycleVars, effect, effective, pending>>
      /\ todo = <<>> /\ pc = "approval"
  BY DEF ApprovalDecided, At, permission
<1>3. /\ o \in Ops /\ opStatus'[o] = "Started" /\ effect'[o] # "allowed"
      /\ "file" \notin bound'[o] /\ effective' # "ReadOnly" /\ Working'
  BY <1>2 DEF EffectInv, EngineTypeOK, ControlPoints, Asking, Asked, Draining, Working,
              lifecycleVars
<1>4. CASE Calm(todo') /\ pc' \in Elsewhere
  BY <1>2, <1>4, CalmIsSafe
<1>5. ASSUME todo' # <<>>, Head(todo') = Allow(o), IsScript(todo'), Calm(Tail(todo'))
      PROVE  OperationScripts' /\ ~Pending(Apply)'
  <2>1. Entries(todo') = {Allow(o)} \cup Entries(Tail(todo'))
    BY <1>5, Popped
  <2>2. \A x \in Entries(todo') : CalmEntry(x) \/ x = Allow(o)
    BY <1>5, <2>1 DEF Calm
  <2>3. \A x \in Entries(todo') :
          \/ CalmEntry(x)
          \/ x[1] \in {"Intent", "Bind", "Allow", "Op"} /\ x[2] = o
    BY <2>2, EntryKinds, EntryFields
  <2>4. ~Pending(Bind(o))'
    BY <2>2, EntryKinds DEF Pending, CalmEntry
  <2>5. ASSUME NEW from, NEW to, to # "Uncertain" PROVE ~Pending(Op(o, from, to))'
    BY <2>2, <2>5, EntryKinds, EntryFields DEF Pending, CalmEntry
  <2>6. NoAllow(Tail(todo'))
    BY <1>5, EntryKinds DEF NoAllow, Calm, CalmEntry
  <2>7. AllowOf(o)'
    BY <1>3, <1>5, <2>4, <2>6 DEF AllowOf, AllowNext
  <2>8. QED
    BY <1>3, <2>3, <2>4, <2>5, <2>7, AboutOne DEF Outcomes
<1>6. CASE Script(<<Allow(o)>>, "drain")
  <2>1. /\ todo' # <<>> /\ Head(todo') = Allow(o) /\ IsScript(todo')
        /\ Calm(Tail(todo')) /\ Entries(todo') = {Allow(o)}
    BY <1>6, OneEntry, CalmParts DEF Script
  <2>2. ControlPoints'
    BY <1>3, <1>6, <2>1, DrainIsSafe, EntryKinds DEF Script, DrainKinds
  <2>3. QED
    BY <1>2, <1>5, <2>1, <2>2
<1>7. CASE Idle(<<Allow(o)>> \o Refusal(o, "Uncertain"))
  <2>1. Calm(Refusal(o, "Uncertain")) /\ IsScript(Refusal(o, "Uncertain"))
    BY CalmHandlers DEF Calm
  <2>2. /\ todo' # <<>> /\ Head(todo') = Allow(o) /\ IsScript(todo')
        /\ Calm(Tail(todo')) /\ pc' \in Elsewhere
    BY <1>7, <2>1, Consed DEF Idle, Script, Elsewhere
  <2>3. QED
    BY <1>2, <1>5, <2>2, ElsewhereIsSafe
<1>8. CASE Idle(Refusal(o, "Failed"))
  <2>1. IsScript(todo') /\ pc' \in Elsewhere
        /\ \A x \in Entries(todo') : CalmEntry(x) \/ x = Op(o, "Started", "Failed")
    BY <1>8, Closed DEF Idle, Script, Elsewhere
  <2>2. ~Pending(Allow(o))' /\ ~Pending(Bind(o))'
        /\ ~Pending(Op(o, "Started", "Succeeded"))'
        /\ ~Pending(Op(o, "Uncertain", "Reconciled"))'
    BY <2>1, EntryKinds, EntryFields DEF Pending, CalmEntry
  <2>3. \A x \in Entries(todo') : CalmEntry(x) \/ (x[1] = "Op" /\ x[2] = o)
    BY <2>1, EntryKinds, EntryFields
  <2>4. OperationScripts' /\ ~Pending(Apply)'
    BY <1>3, <2>2, <2>3, AboutOne
  <2>5. QED
    BY <1>2, <2>1, <2>4, ElsewhereIsSafe
<1>9. CASE Idle(<<>> \o Refusal(o, "Uncertain"))
  BY <1>4, <1>9, CalmParts, CalmHandlers DEF Idle, Script, Elsewhere
<1>10. QED
  BY <1>1, <1>6, <1>7, <1>8, <1>9

\* Reporting an operation disturbs nothing that is stored.
LEMMA ReportKeepsTask ==
  ASSUME EffectInv, UNCHANGED lifecycleVars, NEW o \in Ops,
         effect' = [effect EXCEPT ![o] = "reported"]
  PROVE  TaskInv'
<1>1. \A p \in Ops : effect'[p] = IF p = o THEN "reported" ELSE effect[p]
  BY DEF EffectInv, EngineTypeOK
<1>2. QED
  BY <1>1 DEF EffectInv, TaskInv, lifecycleVars, OutcomeKnown, SuccessReported,
              ClausesRestOnSuccess, BoundReported, Unrecorded, Exists

\* An outcome is scripted only once the provider reported it; the success of a
\* file mutation binds the postcondition first.
LEMMA CompletionKeeps ==
  ASSUME EffectInv, ItemCompleted
  PROVE  TaskInv' /\ IsScript(todo)' /\ OperationScripts' /\ ControlPoints'
<1> DEFINE File(o, to) == opClass[o] = "IdempotentMutation" /\ to = "Succeeded"
           Binding(o, to) == IF File(o, to) THEN <<Bind(o)>> ELSE <<>>
<1>1. PICK o \in work, to \in Outcomes :
        /\ effect' = [effect EXCEPT ![o] = "reported"]
        /\ \/ Script(Binding(o, to) \o CloseOperation(o, to), "drain")
           \/ Idle(Refusal(o, "Uncertain"))
           \/ Idle(InterruptAndBlock)
  BY DEF ItemCompleted
<1>2. /\ UNCHANGED <<lifecycleVars, effective, pending>>
      /\ todo = <<>> /\ pc = "drain"
  BY DEF ItemCompleted, At, permission
<1>3. o \in Ops /\ effect'[o] = "reported" /\ Working'
  BY <1>1, <1>2 DEF EffectInv, EngineTypeOK, ControlPoints, Draining, Working, lifecycleVars
<1>4. TaskInv'
  BY <1>1, <1>2, <1>3, ReportKeepsTask
<1>5. CASE Idle(Refusal(o, "Uncertain")) \/ Idle(InterruptAndBlock)
  <2>1. Calm(todo') /\ pc' \in Elsewhere
    BY <1>5, CalmHandlers DEF Idle, Script, Elsewhere
  <2>2. QED
    BY <1>4, <2>1, CalmIsSafe
<1>6. CASE Script(Binding(o, to) \o CloseOperation(o, to), "drain")
  <2> DEFINE u == CloseOperation(o, to)
  <2>1. IsScript(u) /\ Entries(u) = {Evidence(o), Op(o, "Started", to)}
    BY Closed
  <2>2. todo' = Binding(o, to) \o u /\ pc' = "drain"
    BY <1>6 DEF Script
  <2> HIDE DEF u
  <2>3. /\ IsScript(todo')
        /\ Entries(todo') \subseteq {Bind(o), Evidence(o), Op(o, "Started", to)}
        /\ File(o, to) => Head(todo') = Bind(o)
    <3>1. CASE File(o, to)
      <4>1. todo' = <<Bind(o)>> \o u
        BY <2>2, <3>1
      <4>2. QED
        BY <2>1, <4>1, Consed
    <3>2. CASE ~File(o, to)
      <4>1. todo' = u
        BY <2>1, <2>2, <3>2, EmptyScript, Joined
      <4>2. QED
        BY <2>1, <3>2, <4>1
    <3>3. QED
      BY <3>1, <3>2
  <2>4. \A x \in Entries(todo') :
          \/ CalmEntry(x)
          \/ x[1] \in {"Intent", "Bind", "Allow", "Op"} /\ x[2] = o
    BY <2>3, EntryKinds, EntryFields, CalmEntries
  <2>5. /\ ~Pending(Allow(o))' /\ ~Pending(Op(o, "Uncertain", "Reconciled"))'
        /\ \A c : ~Pending(Intent(o, c))'
    BY <2>3, EntryKinds, EntryFields DEF Pending
  <2>6. Pending(Op(o, "Started", "Succeeded"))' => to = "Succeeded"
    BY <2>3, EntryKinds, EntryFields DEF Pending
  <2>7. Pending(Op(o, "Started", "Succeeded"))' => SuccessOf(o)'
    BY <1>2, <1>3, <2>3, <2>5, <2>6 DEF SuccessOf, lifecycleVars
  <2>8. OperationScripts'
    BY <1>3, <2>4, <2>5, <2>7, AboutOne
  <2>9. ControlPoints'
    <3>1. \A x \in Entries(todo') : x[1] \in DrainKinds
      BY <2>3, EntryKinds DEF DrainKinds, EpochKinds
    <3>2. QED
      BY <1>3, <2>2, <3>1, DrainIsSafe
  <2>10. QED
    BY <1>4, <2>3, <2>8, <2>9
<1>7. QED
  BY <1>1, <1>5, <1>6

\* A command run without asking is journalled, after the fact, as a reported
\* observation.
LEMMA ObservationKeeps ==
  ASSUME EffectInv, CommandObserved
  PROVE  TaskInv' /\ IsScript(todo)' /\ OperationScripts' /\ ControlPoints'
<1>1. PICK o \in Unused, to \in Outcomes :
        /\ effect' = [effect EXCEPT ![o] = "reported"]
        /\ \/ Script(OpenOperation(o, "Observation") \o CloseOperation(o, to), "drain")
           \/ Idle(OpenOperation(o, "Observation") \o InterruptAndBlock)
  BY DEF CommandObserved
<1>2. /\ UNCHANGED <<lifecycleVars, effective, pending>>
      /\ todo = <<>> /\ pc = "drain"
  BY DEF CommandObserved, At, permission
<1>3. /\ o \in Ops /\ effect'[o] = "reported" /\ Working' /\ opClass'[o] = "None"
  BY <1>1, <1>2 DEF Unused, EffectInv, EngineTypeOK, TaskInv, Unrecorded, ControlPoints,
                    Draining, Working, lifecycleVars
<1>4. TaskInv'
  BY <1>1, <1>2, <1>3, ReportKeepsTask
<1>5. \E t : /\ todo' = Opening(o, "Observation", t) /\ IsScript(t)
             /\ \A x \in Entries(t) : CalmEntry(x) \/ x = Op(o, "Started", to)
             /\ \/ pc' \in Elsewhere
                \/ pc' = "drain" /\ Entries(t) = {Evidence(o), Op(o, "Started", to)}
  <2>1. CASE Script(OpenOperation(o, "Observation") \o CloseOperation(o, to), "drain")
    BY <2>1, Closed, CalmEntries DEF Script, Opening
  <2>2. CASE Idle(OpenOperation(o, "Observation") \o InterruptAndBlock)
    BY <2>2, CalmHandlers DEF Idle, Script, Opening, Calm, Elsewhere
  <2>3. QED
    BY <1>1, <2>1, <2>2
<1>6. PICK t : /\ todo' = Opening(o, "Observation", t) /\ IsScript(t)
               /\ \A x \in Entries(t) : CalmEntry(x) \/ x = Op(o, "Started", to)
               /\ \/ pc' \in Elsewhere
                  \/ pc' = "drain" /\ Entries(t) = {Evidence(o), Op(o, "Started", to)}
  BY <1>5
<1>7. /\ IsScript(todo')
      /\ Entries(todo') = {Intent(o, "Observation"), Begin(o)} \cup Entries(t)
  BY <1>6, Opened
<1>8. \A x \in Entries(todo') :
        \/ CalmEntry(x) \/ x = Intent(o, "Observation") \/ x = Begin(o)
        \/ x = Op(o, "Started", to)
  BY <1>6, <1>7
<1>9. OperationScripts' /\ ~Pending(Apply)'
  <2>1. \A x \in Entries(todo') :
          \/ CalmEntry(x)
          \/ x[1] \in {"Intent", "Bind", "Allow", "Op"} /\ x[2] = o
    BY <1>8, EntryKinds, EntryFields DEF Begin
  <2>2. ~Pending(Allow(o))' /\ ~Pending(Bind(o))'
    BY <1>8, EntryKinds DEF Pending, CalmEntry, Begin
  <2>3. ~Pending(Op(o, "Uncertain", "Reconciled"))'
    BY <1>8, EntryKinds, EntryFields DEF Pending, CalmEntry, Begin
  <2>4. \A c : Pending(Intent(o, c))' => c = "Observation"
    BY <1>8, EntryKinds, EntryFields DEF Pending, CalmEntry, Begin
  <2>5. SuccessOf(o)'
    BY <1>3, <2>4 DEF SuccessOf
  <2>6. QED
    BY <1>3, <2>1, <2>2, <2>3, <2>5, AboutOne
<1>10. ControlPoints'
  <2>1. CASE pc' \in Elsewhere
    BY <1>9, <2>1, ElsewhereIsSafe
  <2>2. CASE pc' = "drain" /\ Entries(t) = {Evidence(o), Op(o, "Started", to)}
    <3>1. \A x \in Entries(todo') : x[1] \in DrainKinds
      BY <1>7, <2>2, EntryKinds DEF DrainKinds, EpochKinds, Begin
    <3>2. QED
      BY <1>3, <2>2, <3>1, DrainIsSafe
  <2>3. QED
    BY <1>6, <2>1, <2>2
<1>11. QED
  BY <1>4, <1>7, <1>9, <1>10

\* A completed epoch ends with a script that, its revision of the contract
\* aside, is calm; the revision rests on claims that name a success.
Claiming(s, claims) ==
  IsScript(s) /\ \A x \in Entries(s) : CalmEntry(x) \/ x = Revise(claims)

\* Claiming scripts are put together from calm ones and from the checkpoint.
LEMMA ClaimingParts ==
  ASSUME NEW c
  PROVE  /\ \A s : Calm(s) => Claiming(s, c)
         /\ \A s, t : Claiming(s, c) /\ Claiming(t, c) => Claiming(s \o t, c)
         /\ Claiming(EnterCheckpointing(c), c)
         /\ Claiming(CommitCheckpoint(c), c)
<1>1. ASSUME NEW s, Calm(s) PROVE Claiming(s, c)
  BY <1>1 DEF Calm, Claiming
<1>2. ASSUME NEW s, NEW t, Claiming(s, c), Claiming(t, c) PROVE Claiming(s \o t, c)
  BY <1>2, Joined DEF Claiming
<1>3. Claiming(<<Revise(c)>>, c)
  BY OneEntry DEF Claiming
<1>4. Claiming(<<>>, c) /\ Claiming(<<To("Checkpointing")>>, c) /\ Claiming(<<Checkpoint>>, c)
  BY <1>1, CalmParts, CalmEntries
<1>5. Claiming(EnterCheckpointing(c), c)
  BY <1>2, <1>3, <1>4 DEF EnterCheckpointing
<1>6. Claiming(CommitCheckpoint(c), c)
  BY <1>2, <1>4, <1>5 DEF CommitCheckpoint
<1>7. QED
  BY <1>1, <1>2, <1>5, <1>6

\* The end of an epoch: the claims it journals rest on a success.
LEMMA EpochCompletedKeeps ==
  ASSUME EffectInv, EpochCompleted
  PROVE  /\ UNCHANGED <<lifecycleVars, effect>>
         /\ IsScript(todo)' /\ OperationScripts' /\ ControlPoints'
<1>1. UNCHANGED <<lifecycleVars, effect>>
  BY DEF EpochCompleted
<1> DEFINE finished == <<Finish>> \o RecoveryOf(activeEpoch)
<1>2. Calm(finished)
  BY CalmEntries, CalmParts, CalmHandlers
<1>3. /\ pc' \in Elsewhere
      /\ \/ Calm(todo')
         \/ \E c \in SUBSET Clauses : ValidClaims(c) /\ Claiming(todo', c)
  <2>1. PICK claims \in SUBSET Clauses,
             disposition \in {"complete", "blocked", "continue"},
             compaction \in Compaction,
             recovery \in FreshEpochs \cup {NoEpoch} :
          \/ Idle(finished \o <<Block>>)
          \/ /\ ValidClaims(claims)
             /\ Script(finished \o CommitCheckpoint(claims) \o compaction
                         \o Decision(disposition, recovery),
                       IF disposition = "continue" /\ ~quiesce THEN "loop" ELSE "idle")
          \/ /\ ValidClaims(claims)
             /\ \E reached \in {<<>>, EnterCheckpointing(claims), CommitCheckpoint(claims)} :
                  Idle(finished \o reached)
    BY DEF EpochCompleted
  <2> HIDE DEF finished
  <2>2. CASE Idle(finished \o <<Block>>)
    BY <1>2, <2>2, CalmEntries, CalmParts DEF Idle, Script, Elsewhere
  <2>3. CASE /\ ValidClaims(claims)
             /\ Script(finished \o CommitCheckpoint(claims) \o compaction
                         \o Decision(disposition, recovery),
                       IF disposition = "continue" /\ ~quiesce THEN "loop" ELSE "idle")
    <3>1. Calm(compaction) /\ Calm(Decision(disposition, recovery))
      BY CalmHandlers
    <3>2. Claiming(finished \o CommitCheckpoint(claims), claims)
      BY <1>2, ClaimingParts
    <3>3. Claiming(finished \o CommitCheckpoint(claims) \o compaction, claims)
      BY <3>1, <3>2, ClaimingParts
    <3>4. Claiming(finished \o CommitCheckpoint(claims) \o compaction
                     \o Decision(disposition, recovery), claims)
      BY <3>1, <3>3, ClaimingParts
    <3>5. QED
      BY <2>3, <3>4 DEF Script, Elsewhere
  <2>4. CASE /\ ValidClaims(claims)
             /\ \E reached \in {<<>>, EnterCheckpointing(claims), CommitCheckpoint(claims)} :
                  Idle(finished \o reached)
    <3>1. \A reached \in {<<>>, EnterCheckpointing(claims), CommitCheckpoint(claims)} :
            Claiming(finished \o reached, claims)
      BY <1>2, ClaimingParts, CalmParts
    <3>2. QED
      BY <2>4, <3>1 DEF Idle, Script, Elsewhere
  <2>5. QED
    BY <2>1, <2>2, <2>3, <2>4
<1>4. CASE Calm(todo')
  BY <1>1, <1>3, <1>4, CalmIsSafe
<1>5. ASSUME NEW c \in SUBSET Clauses, ValidClaims(c), Claiming(todo', c)
      PROVE  IsScript(todo)' /\ OperationScripts' /\ ControlPoints'
  <2>1. \A x \in Entries(todo') : CalmEntry(x) \/ x = Revise(c)
    BY <1>5 DEF Claiming
  <2>2. \A o \in Ops : ~Pending(Allow(o))' /\ ~Pending(Bind(o))'
    BY <2>1, EntryKinds DEF Pending, CalmEntry
  <2>3. \A o, from : \A to \in OpStatuses \ {"Uncertain"} : ~Pending(Op(o, from, to))'
    BY <2>1, EntryKinds, EntryFields DEF Pending, CalmEntry
  <2>4. \A d : Pending(Revise(d))' => d = c
    BY <2>1, EntryKinds, EntryFields DEF Pending, CalmEntry
  <2>5. RevisePending'
    BY <1>1, <1>5, <2>4 DEF RevisePending, ValidClaims, SomeSuccess, lifecycleVars
  <2>6. OutcomePending' /\ SuccessPending' /\ SettlePending'
    BY <2>3 DEF OutcomePending, SuccessPending, SettlePending, Outcomes, OpStatuses
  <2>7. AllowPermitted' /\ BindPending'
    BY <2>2 DEF AllowPermitted, BindPending
  <2>8. ~Pending(Apply)'
    BY <2>1, EntryKinds DEF Pending, CalmEntry
  <2>9. QED
    BY <1>3, <1>5, <2>5, <2>6, <2>7, <2>8, ElsewhereIsSafe DEF OperationScripts, Claiming
<1>6. QED
  BY <1>1, <1>3, <1>4, <1>5

-----------------------------------------------------------------------------
(* The invariant and what follows from it *)

\* Every step of the engine, a crash included, keeps the invariant.
LEMMA EffectInvStep == EffectInv /\ [EngineNext]_engineVars => EffectInv'
<1> SUFFICES ASSUME EffectInv, [EngineNext]_engineVars PROVE EffectInv'
  OBVIOUS
<1>1. EngineTypeOK'
  <2>1. RuntimeType' /\ Counters'
    BY RuntimeTypeStep, CounterStep
  <2>2. QED
    BY <2>1 DEF EngineTypeOK, RuntimeType, Counters
<1>2. TaskInv
  BY DEF EffectInv
<1> SUFFICES TaskInv' /\ IsScript(todo)' /\ OperationScripts' /\ ControlPoints'
  BY <1>1 DEF EffectInv
<1>3. CASE AppendStep
  BY <1>3, AppendKeepsTask, AppendKeepsScripts
<1>4. CASE ConfigurationStep \/ AllowStep \/ SkipStep \/ CloseStep
  BY <1>4, ConfigurationKeeps, AllowKeeps, InsertKeeps
<1>5. CASE CalmStep
  BY <1>2, <1>5, CalmSteps, CalmIsSafe, TaskKept
<1>6. CASE OpenStore \/ ReconcileAbandonedEpoch
  BY <1>6, OpenStoreKeeps, ReconcileKeeps
<1>7. CASE StartEpoch \/ StartProviderEpoch
  <2>1. UNCHANGED <<lifecycleVars, effect>>
    BY <1>7 DEF StartEpoch, StartProviderEpoch, OnlyControl
  <2>2. QED
    BY <1>2, <1>7, <2>1, TaskKept, StartEpochKeeps, StartProviderEpochKeeps
<1>8. CASE SoftBoundary \/ Quiesce \/ ConfigureWorking \/ ConfigureAwaiting
  BY <1>2, <1>8, TaskKept, BoundaryKeeps, ConfigureKeeps
<1>9. CASE EffectRequested \/ ApprovalDecided \/ EpochCompleted
  BY <1>2, <1>9, TaskKept, RequestKeeps, DecisionKeeps, EpochCompletedKeeps
<1>10. CASE ItemCompleted \/ CommandObserved
  BY <1>10, CompletionKeeps, ObservationKeeps
<1>11. CASE UNCHANGED engineVars
  BY <1>11 DEF engineVars, volatile, permission, budget, lifecycleVars, EffectInv,
     TaskInv, OutcomeKnown, SuccessReported, ClausesRestOnSuccess, BoundReported,
     Unrecorded, Exists, OperationScripts, AllowPermitted, AllowOf, OutcomePending,
     SuccessPending, SuccessOf, SettlePending, SettleOf, BindPending, RevisePending,
     SomeSuccess, ControlPoints, Dispatching, ApplyPending, Draining, Asking, Asked,
     Pending, Working, Tightens
<1>12. QED
  BY <1>3, <1>4, <1>5, <1>6, <1>7, <1>8, <1>9, <1>10, <1>11
     DEF EngineNext, EngineStep, ProviderStep, OwnerStep, CalmStep

\* The inductive invariant holds in every reachable state of the engine.
THEOREM EffectInvariant == EngineSpec => []EffectInv
  BY InitEffectInv, EffectInvStep, PTL DEF EngineSpec

\* Control, scripts, runtime and counters of the engine keep their types.
THEOREM EngineTypeCorrect == EngineSpec => []EngineTypeOK
<1>1. EffectInv => EngineTypeOK
  BY DEF EffectInv
<1>2. QED
  BY <1>1, EffectInvariant, PTL

\* Through any number of crashes, refusals, cancellations and tightenings, an
\* effect that was let through and never reported is not recorded as failed,
\* succeeded or cancelled.
THEOREM NoOutcomeInvented == EngineSpec => []OutcomeKnown
<1>1. EffectInv => OutcomeKnown
  BY DEF EffectInv, TaskInv
<1>2. QED
  BY <1>1, EffectInvariant, PTL

\* An operation is recorded as succeeded only after the provider reported it, a
\* file mutation only with its postcondition bound.
THEOREM SuccessIsReported == EngineSpec => []SuccessReported
<1>1. EffectInv => SuccessReported
  BY DEF EffectInv, TaskInv
<1>2. QED
  BY <1>1, EffectInvariant, PTL

\* No clause is satisfied before some operation succeeded.
THEOREM ClausesAreEarned == EngineSpec => []ClausesRestOnSuccess
<1>1. EffectInv => ClausesRestOnSuccess
  BY DEF EffectInv, TaskInv
<1>2. QED
  BY <1>1, EffectInvariant, PTL

\* Only the Allow entry lets an effect through.
LEMMA OnlyAllowStepAllows ==
  ASSUME EffectInv, [EngineNext]_engineVars, NEW o \in Ops, NewlyAllowed(o)
  PROVE  AllowStep /\ Head(todo) = Allow(o)
<1> USE DEF NewlyAllowed
<1>1. effect \in [Ops -> {"none", "allowed", "reported"}]
  BY DEF EffectInv, EngineTypeOK
<1>2. ~UNCHANGED effect
  OBVIOUS
<1>3. ASSUME NEW p, effect' = [effect EXCEPT ![p] = "reported"] PROVE FALSE
  BY <1>1, <1>3
<1>4. ~CommandObserved /\ ~ItemCompleted
  BY <1>3 DEF CommandObserved, ItemCompleted
<1>5. AllowStep
  <2>1. ~EngineStep \/ AllowStep
    BY <1>2 DEF EngineStep, AppendStep, ConfigurationStep, SkipStep,
       CloseStep, RejectStep, OpenStore, PrepareStartupTask, Run, Activate,
       ReconcileAbandonedEpoch, NoAbandonedEpoch, RecoverCheckpointing,
       ResumeProviderContext, StartEpoch, StartProviderEpoch, OnlyControl
  <2>2. ~ProviderStep
    BY <1>2, <1>4 DEF ProviderStep, AbortEpoch, SoftBoundary, EffectRequested,
       ApprovalDecided, EpochCompletedBadly, EpochCompleted, OnlyControl
  <2>3. ~OwnerStep /\ ~Crash
    BY <1>2 DEF OwnerStep, CancelWorking, CancelAwaiting, CancelIdle,
     ConfigureWorking, ConfigureAwaiting, ConfigureIdle, Quiesce, CompactIdle,
     MisdirectedControl, Crash
  <2>4. ~UNCHANGED engineVars
    BY <1>2 DEF engineVars
  <2>5. QED
    BY <2>1, <2>2, <2>3, <2>4 DEF EngineNext
<1>6. PICK p \in Ops : Head(todo) = Allow(p) /\ effect' = [effect EXCEPT ![p] = "allowed"]
  BY <1>5 DEF AllowStep
<1>7. p = o
  BY <1>1, <1>6
<1>8. QED
  BY <1>5, <1>6, <1>7

\* An effect is let through only for a started operation of the running epoch
\* of an active task whose owner's effective permission is not read only.
THEOREM EffectsArePermitted == EngineSpec => EffectsPermitted
<1>1. EffectInv /\ StoreAlwaysOpens /\ [EngineNext]_engineVars
        => [\A o \in Ops : NewlyAllowed(o) => Permitted(o)]_engineVars
  <2> SUFFICES ASSUME EffectInv, StoreAlwaysOpens, [EngineNext]_engineVars,
                      NEW o \in Ops, NewlyAllowed(o)
               PROVE  Permitted(o)
    OBVIOUS
  <2>1. todo # <<>> /\ Head(todo) = Allow(o)
    BY OnlyAllowStepAllows DEF AllowStep
  <2>2. AllowOf(o)
    BY <2>1, Popped DEF EffectInv, OperationScripts, AllowPermitted, Pending
  <2>3. opStatus[o] = "Started"
    BY <2>1, <2>2, EntryKinds DEF AllowOf, BeginNext, IntentNext, Begin
  <2>4. QED
    BY <2>2, <2>3 DEF AllowOf, Working, Permitted, StoreAlwaysOpens, InFlight
<1>2. QED
  BY <1>1, EffectInvariant, EngineStoreOpens, PTL DEF EngineSpec, EffectsPermitted

-----------------------------------------------------------------------------
(***************************************************************************)
(* reconcile_startup meets no append it cannot make, two cases apart, for   *)
(* every number of epochs, operations, crashes and controls and every set   *)
(* of faults.                                                               *)
(*                                                                         *)
(* The invariant lists every script a starting engine may be in the middle  *)
(* of (StartupScript), each with the stored state that makes its next       *)
(* append acceptable.  That needs two facts about what an earlier process   *)
(* may have left: a task between epochs has no open epoch and a covering    *)
(* checkpoint leaves nothing unresolved (AtBoundary), which in turn needs   *)
(* what a script that enters such a status has already done                 *)
(* (EnteringAtBoundary).                                                    *)
(***************************************************************************)

-----------------------------------------------------------------------------
(* The boundary between epochs *)

\* No epoch runs, and a checkpoint that covers leaves nothing unresolved.
Boundary ==
  activeEpoch = NoEpoch /\ (checkpoint = "covering" => ~HasUnresolvedOperations)

\* A task that is queued, checkpointing or completing is between epochs.
BetweenEpochs == {"Queued", "Checkpointing", "Completing"}
AtBoundary == status \in BetweenEpochs => Boundary

\* A script that will enter Checkpointing or Completing first finishes the
\* epoch, or is past that, and starts none.
Entering == {To("Checkpointing"), To("Completing")}
EnteringAtBoundary ==
  (\E e \in Entering : Pending(e)) =>
    /\ Head(todo) = Finish \/ Boundary
    /\ \A x \in Epochs : ~Pending(Start(x))

\* Both facts about boundaries.
BoundaryInv == AtBoundary /\ EnteringAtBoundary

\* Only the start of an epoch leaves a boundary.
LEMMA BoundaryKept ==
  ASSUME TypeOK, Boundary, NEW e, Journal(e), \A x \in Epochs : e # Start(x)
  PROVE  Boundary'
<1> USE DEF Boundary, HasUnresolvedOperations, Exists, epochVars, opVars, recoveryVars
<1>1. CASE \/ \E s \in Targets : StateTransitioned(s)
           \/ \E v, c : ContractRevised(v, c)
           \/ \E x \in Epochs : RecoveryAttemptStarted(x) \/ RecoveryAttemptRecorded(x)
           \/ ProviderContextBound \/ ProviderContextLost \/ CancellationRequested
           \/ Blocked \/ Completed \/ UNCHANGED lifecycleVars
  BY <1>1 DEF StateTransitioned, ContractRevised, RecoveryAttemptStarted,
     RecoveryAttemptRecorded, ProviderContextBound, ProviderContextLost,
     CancellationRequested, Blocked, Completed, lifecycleVars
<1>2. CASE \E x \in Epochs : EpochFinished(x) \/ EpochInterrupted(x)
  BY <1>2, EpochAssumption DEF EpochFinished, EpochInterrupted, CanEndEpoch
<1>3. CASE \E o \in Ops, c \in EffectClasses : OperationIntentRecorded(o, c)
  BY <1>3 DEF OperationIntentRecorded, CanOperationIntentRecorded
<1>4. CASE \E o \in Ops : PostconditionBound(o, "file") \/ OperationEvidenceRecorded(o)
  BY <1>4 DEF PostconditionBound, OperationEvidenceRecorded
<1>5. CASE \E o \in Ops, from, to \in OpStatuses : OperationTransitioned(o, from, to)
  <2>1. PICK o \in Ops, from \in OpStatuses, to \in OpStatuses :
          OperationTransitioned(o, from, to)
    BY <1>5
  <2>2. HasUnresolvedOperations
    BY <2>1 DEF OperationTransitioned, CanOperationTransitioned, LegalOperationEdge, Resolved
  <2>3. QED
    BY <2>1, <2>2 DEF OperationTransitioned
<1>6. CASE CheckpointCommitted
  BY <1>6 DEF CheckpointCommitted, CanCheckpointCommitted, RequireSafeBoundary
<1>7. QED
  BY <1>1, <1>2, <1>3, <1>4, <1>5, <1>6 DEF Journal

\* Finishing an epoch reaches one: the checkpoint no longer covers.
LEMMA BoundaryReached ==
  ASSUME TypeOK, Journal(Finish)
  PROVE  Boundary'
<1>1. PICK x \in Epochs : EpochFinished(x)
  BY EntryKinds, ZenonT(120) DEF Journal
<1>2. QED
  BY <1>1 DEF EpochFinished, Boundary, TypeOK

\* Checkpointing and Completing are entered by their own entries, and Queued
\* never again.
LEMMA BetweenEntered ==
  ASSUME TypeOK, NEW e, Journal(e), status' \in BetweenEpochs
  PROVE  \/ status \in BetweenEpochs /\ \A x \in Epochs : e # Start(x)
         \/ e \in Entering /\ UNCHANGED <<activeEpoch, checkpoint, opStatus>>
<1> USE EntryKinds DEF BetweenEpochs, Entering
<1>1. CASE \E s \in Targets : e = To(s) /\ StateTransitioned(s)
  <2>1. PICK s \in Targets : e = To(s) /\ StateTransitioned(s)
    BY <1>1
  <2>2. s # "Queued"
    BY <2>1 DEF StateTransitioned, CanStateTransitioned, MayTransition, LegalStatusEdge
  <2>3. QED
    BY <2>1, <2>2 DEF StateTransitioned, epochVars, opVars, recoveryVars
<1>2. CASE \/ e = Cancel /\ CancellationRequested
           \/ e = Block /\ Blocked
           \/ e = Complete /\ Completed
  BY <1>2 DEF CancellationRequested, Blocked, Completed
<1>3. CASE \E x \in Epochs : e = Start(x) /\ EpochStarted(x)
  BY <1>3 DEF EpochStarted, CanEpochStarted
<1>4. CASE \/ \E v \in 2 .. MaxVersion, c \in SUBSET Clauses :
                e = Revise(c) /\ ContractRevised(v, satisfied \cup c)
           \/ \E x \in Epochs : \/ e = Finish /\ EpochFinished(x)
                                \/ e = Interrupt /\ EpochInterrupted(x)
                                \/ e = Recover(x) /\ RecoveryAttemptStarted(x)
                                \/ e = Recovered(x) /\ RecoveryAttemptRecorded(x)
           \/ e = Checkpoint /\ CheckpointCommitted
           \/ e = Bound /\ ProviderContextBound
           \/ e = Lost /\ ProviderContextLost
  BY <1>4 DEF ContractRevised, EpochFinished, EpochInterrupted, RecoveryAttemptStarted,
     RecoveryAttemptRecorded, CheckpointCommitted, ProviderContextBound, ProviderContextLost
<1>5. CASE \/ \E o \in Ops, c \in EffectClasses :
                e = Intent(o, c) /\ OperationIntentRecorded(o, c)
           \/ \E o \in Ops : \/ e = Bind(o) /\ PostconditionBound(o, "file")
                             \/ e = Evidence(o) /\ OperationEvidenceRecorded(o)
           \/ \E o \in Ops, from, to \in OpStatuses :
                e = Op(o, from, to) /\ OperationTransitioned(o, from, to)
  BY <1>5 DEF OperationIntentRecorded, PostconditionBound, OperationEvidenceRecorded,
     OperationTransitioned
<1>6. CASE e = Compacted /\ UNCHANGED lifecycleVars
  BY <1>6 DEF lifecycleVars
<1>7. QED
  BY <1>1, <1>2, <1>3, <1>4, <1>5, <1>6 DEF Journal

-----------------------------------------------------------------------------
(* Scripts that enter no boundary status *)

PlainEntry(e) == e[1] = "To" => e[2] \in {"Active", "Failed", "Cancelled"}
Plain(s) == IsScript(s) /\ \A e \in Entries(s) : PlainEntry(e)

\* The plain entries.
LEMMA PlainEntries ==
  /\ \A e : e[1] # "To" => PlainEntry(e)
  /\ PlainEntry(To("Active")) /\ PlainEntry(To("Failed")) /\ PlainEntry(To("Cancelled"))
  BY DEF PlainEntry, To

\* A plain entry does not enter a boundary.
LEMMA NotEntering == \A e \in Entering : ~PlainEntry(e)
  BY DEF Entering, PlainEntry, To

\* Plain scripts are put together from plain entries and plain scripts.
LEMMA PlainParts ==
  /\ Plain(<<>>)
  /\ \A a : PlainEntry(a) => Plain(<<a>>)
  /\ \A a, b : PlainEntry(a) /\ PlainEntry(b) => Plain(<<a, b>>)
  /\ \A a, b, c : PlainEntry(a) /\ PlainEntry(b) /\ PlainEntry(c) => Plain(<<a, b, c>>)
  /\ \A s, t : Plain(s) /\ Plain(t) => Plain(s \o t)
<1>1. Plain(<<>>)
  BY EmptyScript DEF Plain
<1>2. ASSUME NEW a, PlainEntry(a) PROVE Plain(<<a>>)
  BY <1>2, OneEntry DEF Plain
<1>3. ASSUME NEW a, NEW b, PlainEntry(a), PlainEntry(b) PROVE Plain(<<a, b>>)
  <2>1. IsScript(<<a, b>>) /\ Entries(<<a, b>>) = {a, b}
    BY TwoEntries, Zenon
  <2>2. QED
    BY <1>3, <2>1, Zenon DEF Plain
<1>4. ASSUME NEW a, NEW b, NEW c, PlainEntry(a), PlainEntry(b), PlainEntry(c)
      PROVE  Plain(<<a, b, c>>)
  <2>1. IsScript(<<a, b, c>>) /\ Entries(<<a, b, c>>) = {a, b, c}
    BY ThreeEntries, Zenon
  <2>2. QED
    BY <1>4, <2>1, Zenon DEF Plain
<1>5. ASSUME NEW s, NEW t, Plain(s), Plain(t) PROVE Plain(s \o t)
  BY <1>5, Joined DEF Plain
<1>6. QED
  BY <1>1, <1>2, <1>3, <1>4, <1>5

\* Every entry but a status transition is plain, by its kind.
LEMMA PlainKinds ==
  /\ PlainEntry(Finish) /\ PlainEntry(Interrupt) /\ PlainEntry(Bound) /\ PlainEntry(Lost)
  /\ PlainEntry(Cancel) /\ PlainEntry(Block) /\ PlainEntry(CloseAll) /\ PlainEntry(Apply)
  /\ PlainEntry(<<"FinishIfActive">>) /\ PlainEntry(<<"BlockUnlessBlocked">>)
  /\ PlainEntry(<<"CancelOrFail">>)
  /\ \A x : PlainEntry(Start(x)) /\ PlainEntry(Recovered(x)) /\ PlainEntry(Configure(x))
  /\ \A o, from, to : PlainEntry(Op(o, from, to))
  /\ \A o : PlainEntry(Evidence(o)) /\ PlainEntry(Bind(o)) /\ PlainEntry(Allow(o))
  /\ \A o, c : PlainEntry(Intent(o, c))
  BY EntryKinds DEF PlainEntry

\* The scripts of the handlers are plain.
LEMMA PlainHandlers ==
  /\ Plain(InterruptAndBlock)
  /\ Plain(InterruptAndFail)
  /\ Plain(FinishIfActive)
  /\ \A o, to : Plain(CloseOperation(o, to)) /\ Plain(Refusal(o, to))
  /\ \A o, c : Plain(OpenOperation(o, c))
  /\ \A c, b, l : Plain(c) /\ PlainEntry(l) => Plain(CancelEpoch(c, b, l))
  /\ \A e : Plain(RecoveryOf(e))
  /\ \A s \in Resumption : Plain(s)
<1> USE PlainEntries, PlainKinds, PlainParts
<1>1. Plain(InterruptAndBlock)
  BY DEF InterruptAndBlock
<1>2. Plain(InterruptAndFail)
  BY <1>1 DEF InterruptAndFail
<1>3. Plain(FinishIfActive)
  BY DEF FinishIfActive
<1>4. ASSUME NEW o, NEW to PROVE Plain(CloseOperation(o, to))
  BY DEF CloseOperation
<1>5. ASSUME NEW o, NEW to PROVE Plain(Refusal(o, to))
  BY <1>1, <1>4 DEF Refusal
<1>6. ASSUME NEW o, NEW c PROVE Plain(OpenOperation(o, c))
  BY DEF OpenOperation
<1>7. ASSUME NEW c, NEW b, NEW l, Plain(c), PlainEntry(l)
      PROVE  Plain(CancelEpoch(c, b, l))
  <2>1. Plain(<<Cancel>>) /\ Plain(<<Block>>) /\ Plain(<<l>>)
    BY <1>7
  <2>2. Plain(FinishIfActive \o <<l>>)
    BY <1>3, <2>1
  <2>3. Plain(c \o <<Block>>)
    BY <1>7, <2>1
  <2>4. Plain(c \o <<Block>> \o FinishIfActive)
    BY <1>3, <2>3
  <2>5. QED
    BY <2>1, <2>2, <2>4 DEF CancelEpoch
<1>8. ASSUME NEW e PROVE Plain(RecoveryOf(e))
  BY DEF RecoveryOf
<1>9. ASSUME NEW s \in Resumption PROVE Plain(s)
  BY DEF Resumption
<1>10. QED
  BY <1>1, <1>2, <1>3, <1>4, <1>5, <1>6, <1>7, <1>8, <1>9
\* The steps whose new script enters neither status.
PlainStep ==
  \/ RejectStep \/ PrepareStartupTask \/ Run \/ Activate \/ ReconcileAbandonedEpoch
  \/ NoAbandonedEpoch \/ ResumeProviderContext \/ StartEpoch \/ StartProviderEpoch
  \/ AbortEpoch \/ SoftBoundary \/ EffectRequested \/ ApprovalDecided \/ ItemCompleted
  \/ CommandObserved \/ EpochCompletedBadly \/ CancelWorking \/ CancelAwaiting
  \/ CancelIdle \/ ConfigureWorking \/ ConfigureAwaiting \/ ConfigureIdle \/ Quiesce
  \/ CompactIdle \/ MisdirectedControl \/ Crash \/ OpenStore

\* Every plain step leaves a plain script.
LEMMA PlainSteps ==
  ASSUME PlainStep
  PROVE  Plain(todo')
<1> USE PlainEntries, PlainKinds, PlainParts, PlainHandlers
    DEF Script, Idle, Fail, OnlyControl
<1>1. CASE RejectStep
  BY <1>1 DEF RejectStep
<1>2. CASE PrepareStartupTask \/ Run \/ OpenStore \/ Crash
  BY <1>2 DEF PrepareStartupTask, Run, OpenStore, Crash
<1>3. CASE Activate
  BY <1>3 DEF Activate
<1>4. CASE ReconcileAbandonedEpoch
  <2>1. ASSUME NEW o, NEW m PROVE Plain(ReconcileOperation(o, m))
    <3>1. IsScript(ReconcileOperation(o, m))
          /\ \A x \in Entries(ReconcileOperation(o, m)) :
               x \in {Begin(o), Evidence(o), Op(o, "Started", "Failed"),
                     Op(o, "Started", "Uncertain"), Op(o, "Uncertain", "Reconciled")}
      BY ReconcileScript
    <3>2. QED
      BY <3>1 DEF Plain, Begin
  <2>2. QED
    BY <1>4, <2>1 DEF ReconcileAbandonedEpoch
<1>5. CASE NoAbandonedEpoch \/ ResumeProviderContext
  BY <1>5 DEF NoAbandonedEpoch, ResumeProviderContext
<1>6. CASE StartEpoch
  BY <1>6 DEF StartEpoch
<1>7. CASE StartProviderEpoch
  BY <1>7 DEF StartProviderEpoch
<1>8. CASE AbortEpoch \/ SoftBoundary \/ Quiesce \/ EpochCompletedBadly
  BY <1>8 DEF AbortEpoch, SoftBoundary, Quiesce, EpochCompletedBadly
<1>9. CASE EffectRequested
  <2>1. PICK o, c : DenyAtBoundary(o, c) \/ DecideEffect(o, c)
    BY <1>9 DEF EffectRequested
  <2>2. \A t : Plain(t) => Plain(OpenOperation(o, c) \o t)
    OBVIOUS
  <2>3. CASE DenyAtBoundary(o, c)
    BY <2>2, <2>3 DEF DenyAtBoundary
  <2>4. CASE DecideEffect(o, c)
    <3>1. Plain(OpenOperation(o, c) \o <<>>) /\ Plain(OpenOperation(o, c) \o <<Allow(o)>>)
      BY <2>2
    <3>2. /\ Plain(OpenOperation(o, c) \o <<>> \o Refusal(o, "Uncertain"))
          /\ Plain(OpenOperation(o, c) \o <<Allow(o)>> \o Refusal(o, "Uncertain"))
      BY <3>1
    <3>3. QED
      BY <2>2, <2>4, <3>1, <3>2 DEF DecideEffect
  <2>5. QED
    BY <2>1, <2>3, <2>4
<1>10. CASE ApprovalDecided
  BY <1>10 DEF ApprovalDecided
<1>11. CASE ItemCompleted
  <2>1. PICK o, to : \/ \E s \in {<<Bind(o)>>, <<>>} : todo' = s \o CloseOperation(o, to)
                     \/ todo' = Refusal(o, "Uncertain")
                     \/ todo' = InterruptAndBlock
    BY <1>11 DEF ItemCompleted
  <2>2. \A s \in {<<Bind(o)>>, <<>>} : Plain(s \o CloseOperation(o, to))
    OBVIOUS
  <2>3. QED
    BY <2>1, <2>2
<1>12. CASE CommandObserved
  <2>1. PICK o, t : todo' = OpenOperation(o, "Observation") \o t /\ Plain(t)
    BY <1>12 DEF CommandObserved
  <2>2. QED
    BY <2>1
<1>13. CASE CancelWorking
  BY <1>13 DEF CancelWorking
<1>14. CASE CancelAwaiting
  BY <1>14 DEF CancelAwaiting
<1>15. CASE CancelIdle
  BY <1>15 DEF CancelIdle
<1>16. CASE ConfigureWorking
  <2>1. ASSUME NEW m PROVE Plain(<<Configure(m), CloseAll, Interrupt, Block>>)
    <3>1. /\ IsScript(<<Configure(m), CloseAll, Interrupt, Block>>)
          /\ Entries(<<Configure(m), CloseAll, Interrupt, Block>>)
               = {Configure(m), CloseAll, Interrupt, Block}
      BY DEF IsScript, Entries
    <3>2. QED
      BY <3>1, Zenon DEF Plain
  <2>2. QED
    BY <1>16, <2>1 DEF ConfigureWorking
<1>17. CASE ConfigureAwaiting
  <2>1. ASSUME NEW m, NEW o
        PROVE  Plain(<<Configure(m)>> \o CloseOperation(o, "Uncertain")
                       \o <<Interrupt, Block>> \o InterruptAndBlock)
    <3>1. Plain(<<Configure(m)>>) /\ Plain(<<Interrupt, Block>>)
      OBVIOUS
    <3>2. Plain(<<Configure(m)>> \o CloseOperation(o, "Uncertain"))
      BY <3>1
    <3>3. Plain(<<Configure(m)>> \o CloseOperation(o, "Uncertain") \o <<Interrupt, Block>>)
      BY <3>1, <3>2
    <3>4. QED
      BY <3>3
  <2>2. QED
    BY <1>17, <2>1 DEF ConfigureAwaiting
<1>18. CASE ConfigureIdle \/ MisdirectedControl
  BY <1>18 DEF ConfigureIdle, MisdirectedControl
<1>19. CASE CompactIdle
  BY <1>19 DEF CompactIdle, At
<1>20. QED
  BY <1>1, <1>2, <1>3, <1>4, <1>5, <1>6, <1>7, <1>8, <1>9, <1>10, <1>11, <1>12,
     <1>13, <1>14, <1>15, <1>16, <1>17, <1>18, <1>19 DEF PlainStep

\* The script of a completed epoch finishes it first and starts none.
Closing(s) ==
  IsScript(s) /\ s # <<>> /\ Head(s) = Finish /\ \A e \in Entries(s) : e[1] # "Start"
NoStart(s) == IsScript(s) /\ \A e \in Entries(s) : e[1] # "Start"

\* Scripts that close an epoch are put together from scripts that start none.
LEMMA ClosingParts ==
  /\ Closing(<<Finish>>)
  /\ NoStart(<<>>)
  /\ \A a : a[1] # "Start" => NoStart(<<a>>)
  /\ \A a, b : a[1] # "Start" /\ b[1] # "Start" => NoStart(<<a, b>>)
  /\ \A a, b, c : a[1] # "Start" /\ b[1] # "Start" /\ c[1] # "Start" => NoStart(<<a, b, c>>)
  /\ \A s, t : NoStart(s) /\ NoStart(t) => NoStart(s \o t)
  /\ \A s, t : Closing(s) /\ NoStart(t) => Closing(s \o t)
<1>1. Closing(<<Finish>>) /\ NoStart(<<>>)
  BY OneEntry, EmptyScript, EntryKinds DEF Closing, NoStart
<1>2. ASSUME NEW a, a[1] # "Start" PROVE NoStart(<<a>>)
  BY <1>2, OneEntry DEF NoStart
<1>3. ASSUME NEW a, NEW b, a[1] # "Start", b[1] # "Start" PROVE NoStart(<<a, b>>)
  <2>1. IsScript(<<a, b>>) /\ Entries(<<a, b>>) = {a, b}
    BY TwoEntries, Zenon
  <2>2. QED
    BY <1>3, <2>1, Zenon DEF NoStart
<1>4. ASSUME NEW a, NEW b, NEW c, a[1] # "Start", b[1] # "Start", c[1] # "Start"
      PROVE  NoStart(<<a, b, c>>)
  <2>1. IsScript(<<a, b, c>>) /\ Entries(<<a, b, c>>) = {a, b, c}
    BY ThreeEntries, Zenon
  <2>2. QED
    BY <1>4, <2>1, Zenon DEF NoStart
<1>5. ASSUME NEW s, NEW t, NoStart(s), NoStart(t) PROVE NoStart(s \o t)
  BY <1>5, Joined DEF NoStart
<1>6. ASSUME NEW s, NEW t, Closing(s), NoStart(t) PROVE Closing(s \o t)
  BY <1>6, Joined DEF NoStart, Closing
<1>7. QED
  BY <1>1, <1>2, <1>3, <1>4, <1>5, <1>6

\* The end of an epoch finishes it before anything else and starts none.
LEMMA EpochCompletedCloses == EpochCompleted => Closing(todo')
<1> SUFFICES ASSUME EpochCompleted PROVE Closing(todo')
  OBVIOUS
<1> DEFINE finished == <<Finish>> \o RecoveryOf(activeEpoch)
<1>0. PICK claims \in SUBSET Clauses,
           disposition \in {"complete", "blocked", "continue"},
           compaction \in Compaction,
           recovery \in FreshEpochs \cup {NoEpoch} :
        \/ Idle(finished \o <<Block>>)
        \/ Script(finished \o CommitCheckpoint(claims) \o compaction
                    \o Decision(disposition, recovery),
                  IF disposition = "continue" /\ ~quiesce THEN "loop" ELSE "idle")
        \/ \E reached \in {<<>>, EnterCheckpointing(claims), CommitCheckpoint(claims)} :
             Idle(finished \o reached)
  BY DEF EpochCompleted
<1> USE EntryKinds, ClosingParts
<1>1. Closing(finished)
  <2>1. NoStart(RecoveryOf(activeEpoch))
    BY DEF RecoveryOf
  <2>2. QED
    BY <2>1
<1>2. \A c : NoStart(EnterCheckpointing(c)) /\ NoStart(CommitCheckpoint(c))
  <2>1. ASSUME NEW c PROVE NoStart(EnterCheckpointing(c))
    BY DEF EnterCheckpointing
  <2>2. QED
    BY <2>1 DEF CommitCheckpoint
<1>3. \A s \in Compaction : NoStart(s)
  BY DEF Compaction
<1>4. \A d, r : NoStart(Decision(d, r))
  BY DEF Decision
<1> HIDE DEF finished
<1>6. Closing(finished \o <<Block>>)
  BY <1>1
<1>7. Closing(finished \o CommitCheckpoint(claims))
  BY <1>1, <1>2
<1>8. Closing(finished \o CommitCheckpoint(claims) \o compaction)
  BY <1>3, <1>7
<1>9. Closing(finished \o CommitCheckpoint(claims) \o compaction
                \o Decision(disposition, recovery))
  BY <1>4, <1>8
<1>10. \A reached \in {<<>>, EnterCheckpointing(claims), CommitCheckpoint(claims)} :
         Closing(finished \o reached)
  BY <1>1, <1>2
<1>11. QED
  BY <1>0, <1>6, <1>9, <1>10 DEF Idle, Script

\* A plain script promises nothing.
LEMMA PlainIsSafe == Plain(todo') => EnteringAtBoundary'
  BY NotEntering DEF Plain, EnteringAtBoundary, Pending

\* Steps that leave the task alone leave the boundary.
LEMMA BoundaryUnchanged ==
  UNCHANGED lifecycleVars => (Boundary' <=> Boundary) /\ (AtBoundary' <=> AtBoundary)
  BY DEF lifecycleVars, Boundary, AtBoundary, HasUnresolvedOperations, Exists

\* An append keeps the boundary of a task between epochs, and a script that is
\* going to enter one has reached it before its entry comes up.
LEMMA AppendKeepsBoundary ==
  ASSUME EffectInv, BoundaryInv, AppendStep
  PROVE  BoundaryInv'
<1> DEFINE e == Head(todo)
<1>1. Journal(e) /\ todo # <<>> /\ todo' = Tail(todo)
  BY DEF AppendStep
<1>2. TypeOK /\ Entries(todo) = {e} \cup Entries(Tail(todo))
  BY <1>1, Popped DEF EffectInv, EngineTypeOK
<1>3. Pending(e) /\ \A x : Pending(x)' => Pending(x)
  BY <1>1, <1>2 DEF Pending
<1> HIDE DEF e
<1> USE DEF BoundaryInv
<1>4. AtBoundary'
  <2>1. SUFFICES ASSUME status' \in BetweenEpochs PROVE Boundary'
    BY DEF AtBoundary
  <2>2. CASE status \in BetweenEpochs /\ \A x \in Epochs : e # Start(x)
    BY <1>1, <1>2, <2>2, BoundaryKept DEF AtBoundary
  <2>3. CASE e \in Entering /\ UNCHANGED <<activeEpoch, checkpoint, opStatus>>
    <3>1. e # Finish
      BY <2>3, EntryKinds DEF Entering
    <3>2. Boundary
      BY <1>3, <2>3, <3>1 DEF EnteringAtBoundary, e
    <3>3. QED
      BY <2>3, <3>2 DEF Boundary, HasUnresolvedOperations, Exists
  <2>4. QED
    BY <1>1, <1>2, <2>1, <2>2, <2>3, BetweenEntered
<1>5. EnteringAtBoundary'
  <2>1. SUFFICES ASSUME \E x \in Entering : Pending(x)'
                 PROVE  Boundary' /\ \A x \in Epochs : ~Pending(Start(x))'
    BY DEF EnteringAtBoundary, Entering
  <2>2. (e = Finish \/ Boundary) /\ \A x \in Epochs : ~Pending(Start(x))
    BY <1>3, <2>1 DEF EnteringAtBoundary, e
  <2>3. \A x \in Epochs : e # Start(x)
    BY <1>3, <2>2
  <2>4. Boundary'
    BY <1>1, <1>2, <2>2, <2>3, BoundaryKept, BoundaryReached
  <2>5. QED
    BY <1>3, <2>2, <2>4
<1>6. QED
  BY <1>4, <1>5

\* Every step of the engine keeps the facts about boundaries.
LEMMA BoundaryStep ==
  ASSUME EffectInv, BoundaryInv, [EngineNext]_engineVars
  PROVE  BoundaryInv'
<1> USE DEF BoundaryInv
<1>1. CASE AppendStep
  BY <1>1, AppendKeepsBoundary
<1>2. ASSUME UNCHANGED lifecycleVars, todo # <<>>, Head(todo) # Finish,
             \A x \in Entries(todo') : \/ PlainEntry(x) /\ x[1] # "Start"
                                       \/ x \in Entries(todo)
      PROVE  BoundaryInv'
  <2>1. AtBoundary'
    BY <1>2, BoundaryUnchanged
  <2>2. \A x \in Entering : Pending(x)' => Pending(x)
    BY <1>2, NotEntering DEF Pending
  <2>3. \A x : Pending(Start(x))' => Pending(Start(x))
    BY <1>2, EntryKinds DEF Pending
  <2>4. EnteringAtBoundary'
    <3>1. SUFFICES ASSUME \E x \in Entering : Pending(x)'
                   PROVE  Boundary' /\ \A x \in Epochs : ~Pending(Start(x))'
      BY DEF EnteringAtBoundary, Entering
    <3>2. Boundary /\ \A x \in Epochs : ~Pending(Start(x))
      BY <1>2, <2>2, <3>1 DEF EnteringAtBoundary
    <3>3. QED
      BY <1>2, <2>3, <3>2, BoundaryUnchanged
  <2>5. QED
    BY <2>1, <2>4
<1>3. CASE ConfigurationStep \/ AllowStep
  <2>1. /\ UNCHANGED lifecycleVars /\ todo # <<>> /\ todo' = Tail(todo)
        /\ Head(todo) # Finish
    BY <1>3, EntryKinds DEF ConfigurationStep, AllowStep
  <2>2. Entries(todo') \subseteq Entries(todo)
    BY <2>1, Popped DEF EffectInv
  <2>3. QED
    BY <1>2, <2>1, <2>2
<1>4. CASE SkipStep \/ CloseStep
  <2>1. UNCHANGED lifecycleVars /\ todo # <<>> /\ Head(todo) # Finish
    BY <1>4, EntryKinds DEF SkipStep, CloseStep
  <2>2. IsScript(todo) /\ IsScript(Tail(todo)) /\ Entries(Tail(todo)) \subseteq Entries(todo)
    BY <2>1, Popped DEF EffectInv
  <2>3. \/ todo' = Tail(todo)
        \/ \E s, t : /\ IsScript(s) /\ \A x \in Entries(s) : PlainEntry(x) /\ x[1] # "Start"
                     /\ IsScript(t) /\ Entries(t) \subseteq Entries(todo)
                     /\ todo' = s \o t
    <3>1. CASE SkipStep
      <4>1. \A s \in {FinishIfActive, IF status = "Blocked" THEN <<>> ELSE <<Block>>} :
              IsScript(s) /\ \A x \in Entries(s) : PlainEntry(x) /\ x[1] # "Start"
        BY OneEntry, EmptyScript, EntryKinds, PlainKinds DEF FinishIfActive
      <4>2. IsScript(CancelOrFail) /\ \A x \in Entries(CancelOrFail) : PlainEntry(x) /\ x[1] # "Start"
        <5>1. /\ IsScript(<<To("Cancelled")>>) /\ Entries(<<To("Cancelled")>>) = {To("Cancelled")}
              /\ IsScript(<<To("Failed")>>) /\ Entries(<<To("Failed")>>) = {To("Failed")}
          BY OneEntry
        <5>2. /\ IsScript(InterruptAndBlock)
              /\ Entries(InterruptAndBlock) = {CloseAll, <<"FinishIfActive">>, <<"BlockUnlessBlocked">>}
          BY ThreeEntries, Zenon DEF InterruptAndBlock
        <5>3. /\ IsScript(InterruptAndFail)
              /\ Entries(InterruptAndFail) = Entries(InterruptAndBlock) \cup {To("Failed")}
          BY <5>1, <5>2, Joined DEF InterruptAndFail
        <5>4. \A x \in {CloseAll, <<"FinishIfActive">>, <<"BlockUnlessBlocked">>,
                        To("Failed"), To("Cancelled")} :
                PlainEntry(x) /\ x[1] # "Start"
          BY EntryKinds, PlainKinds, PlainEntries
        <5>5. QED
          BY <5>1, <5>2, <5>3, <5>4 DEF CancelOrFail
      <4>3. QED
        BY <2>2, <3>1, <4>1, <4>2 DEF SkipStep
    <3>2. CASE CloseStep
      <4>1. \A o : /\ IsScript(CloseOperation(o, "Uncertain"))
                   /\ \A x \in Entries(CloseOperation(o, "Uncertain")) :
                        PlainEntry(x) /\ x[1] # "Start"
        BY Closed, EntryKinds, PlainKinds
      <4>2. QED
        BY <2>2, <3>2, <4>1 DEF CloseStep
    <3>3. QED
      BY <1>4, <3>1, <3>2
  <2>4. \A x \in Entries(todo') : \/ PlainEntry(x) /\ x[1] # "Start"
                                  \/ x \in Entries(todo)
    <3>1. CASE todo' = Tail(todo)
      BY <2>2, <3>1
    <3>2. ASSUME NEW s, NEW t,
                 IsScript(s), \A x \in Entries(s) : PlainEntry(x) /\ x[1] # "Start",
                 IsScript(t), Entries(t) \subseteq Entries(todo), todo' = s \o t
          PROVE  \A x \in Entries(todo') : \/ PlainEntry(x) /\ x[1] # "Start"
                                           \/ x \in Entries(todo)
      <4>1. Entries(todo') = Entries(s) \cup Entries(t)
        BY <3>2, Joined
      <4>2. QED
        BY <3>2, <4>1
    <3>3. QED
      BY <2>3, <3>1, <3>2
  <2>5. QED
    BY <1>2, <2>1, <2>4
<1>5. CASE OpenStore
  <2>1. EnteringAtBoundary'
    BY <1>5, PlainSteps, PlainIsSafe DEF PlainStep
  <2>2. CASE UNCHANGED lifecycleVars
    BY <2>1, <2>2, BoundaryUnchanged
  <2>3. CASE ReconcileAbandonedOperations
    <3>1. /\ UNCHANGED <<status, activeEpoch, checkpoint>>
          /\ \A o \in Ops : opStatus'[o] = IF opStatus[o] = "Started" THEN "Uncertain"
                                           ELSE opStatus[o]
      BY <2>3 DEF ReconcileAbandonedOperations, StartedOperations, epochVars, recoveryVars
    <3>2. HasUnresolvedOperations' => HasUnresolvedOperations
      BY <3>1 DEF HasUnresolvedOperations, Exists, Resolved
    <3>3. QED
      BY <2>1, <3>1, <3>2 DEF AtBoundary, Boundary
  <2>4. QED
    BY <1>5, <2>2, <2>3 DEF OpenStore
<1>6. CASE EpochCompleted
  <2>1. UNCHANGED lifecycleVars
    BY <1>6 DEF EpochCompleted
  <2>2. Closing(todo')
    BY <1>6, EpochCompletedCloses
  <2>3. EnteringAtBoundary'
    BY <2>2, EntryKinds DEF Closing, EnteringAtBoundary, Pending
  <2>4. QED
    BY <2>1, <2>3, BoundaryUnchanged
<1>7. CASE RecoverCheckpointing
  <2>1. UNCHANGED lifecycleVars
    BY <1>7 DEF RecoverCheckpointing, OnlyControl
  <2>2. \/ Plain(todo')
        \/ Boundary /\ todo' = <<To("Active"), To("Completing"), Complete>>
    BY <1>7, PlainKinds, PlainEntries, PlainParts
       DEF RecoverCheckpointing, Script, Idle, AtBoundary, BetweenEpochs
  <2>3. CASE Boundary /\ todo' = <<To("Active"), To("Completing"), Complete>>
    <3>1. Entries(<<To("Active"), To("Completing"), Complete>>)
            = {To("Active"), To("Completing"), Complete}
      BY ThreeEntries, Zenon
    <3>2. \A x \in Epochs : ~Pending(Start(x))'
      BY <2>3, <3>1, EntryKinds DEF Pending
    <3>3. QED
      BY <2>1, <2>3, <3>2, BoundaryUnchanged DEF EnteringAtBoundary
  <2>4. QED
    BY <2>1, <2>2, <2>3, BoundaryUnchanged, PlainIsSafe
<1>8. CASE PlainStep /\ ~OpenStore
  <2>1. UNCHANGED lifecycleVars
    BY <1>8, ScriptsLeaveTheTask, ProviderLeavesTheTask, OwnerLeavesTheTask
       DEF PlainStep, ProviderStep, OwnerStep
  <2>2. QED
    BY <1>8, <2>1, PlainSteps, PlainIsSafe, BoundaryUnchanged
<1>9. CASE UNCHANGED engineVars
  <2>1. UNCHANGED <<lifecycleVars, todo>>
    BY <1>9 DEF engineVars
  <2>2. QED
    BY <2>1, BoundaryUnchanged DEF EnteringAtBoundary, Pending
<1>10. QED
  BY <1>1, <1>3, <1>4, <1>5, <1>6, <1>7, <1>8, <1>9
     DEF EngineNext, EngineStep, ProviderStep, OwnerStep, PlainStep

-----------------------------------------------------------------------------
(* The scripts of startup *)

\* The statuses reconcile_startup works on.
Live == {"Queued", "Active", "Checkpointing", "Paused", "Completing"}

\* Failing operation o, which was recorded but never started.
Failing(o) ==
  /\ o \notin work
  /\ \/ /\ todo = <<Begin(o), Evidence(o), Op(o, "Started", "Failed")>>
        /\ opStatus[o] = "IntentRecorded"
     \/ /\ todo = <<Evidence(o), Op(o, "Started", "Failed")>>
        /\ opStatus[o] = "Started"
     \/ /\ todo = <<Op(o, "Started", "Failed")>>
        /\ opStatus[o] = "Started" /\ fresh[o]

\* Inspecting operation o, whose outcome is uncertain.
Inspecting(o) ==
  /\ o \notin work
  /\ opStatus[o] = "Uncertain"
  /\ \/ todo = <<Evidence(o)>>
     \/ todo = <<Evidence(o), Op(o, "Uncertain", "Reconciled")>>
     \/ /\ todo = <<Op(o, "Uncertain", "Reconciled")>>
        /\ fresh[o] /\ opEpoch[o] = activeEpoch

\* The scripts that end a startup: blocking the task, finishing the abandoned
\* epoch.
Finishing == status \in Live /\ activeEpoch # NoEpoch /\ ~HasInFlightOperations
Blockable ==
  status \in Live /\ (status \in {"Queued", "Completing"} => "workspace" \in Faults)
EndScript ==
  \/ pc = "idle" /\ todo = <<Block>> /\ Blockable
  \/ pc = "idle" /\ todo = <<Finish, Block>> /\ Finishing
  \/ pc = "recover" /\ todo = <<Finish>> /\ Finishing
\* The scripts that bind a provider context or journal its loss.
ContextScript ==
  \/ pc = "reconcile" /\ todo = <<To("Active"), Bound>> /\ status = "Queued"
  \/ pc \in {"reconcile", "idle"} /\ todo = <<Bound>> /\ status \in Live
  \/ pc = "idle" /\ todo = <<Lost, Bound>> /\ status \in Live /\ context = "bound"
  \/ pc = "down" /\ todo = <<Lost>> /\ status \in Live /\ context = "bound"
\* The scripts that leave Checkpointing: resuming work, or completing.
Completable == RequireSafeBoundary /\ RequiredClausesSatisfied
CheckpointScript ==
  \/ pc = "resume" /\ todo = <<To("Active")>> /\ status = "Checkpointing"
  \/ /\ pc = "idle" /\ Completable
     /\ \/ /\ todo = <<To("Active"), To("Completing"), Complete>>
           /\ status = "Checkpointing"
        \/ todo = <<To("Completing"), Complete>> /\ status = "Active"
        \/ todo = <<Complete>> /\ status = "Completing"
\* A configuration delivered to a task that startup left idle.
ConfigureScript ==
  pc = "idle" /\ NotTerminal /\ \E m \in Modes : todo = <<Configure(m)>>
\* An operation of the abandoned epoch being settled.
OperationScript ==
  /\ pc = "reconcile" /\ status \in Live /\ activeEpoch # NoEpoch
  /\ \E o \in Ops : Failing(o) \/ Inspecting(o)

StartupScript ==
  EndScript \/ ContextScript \/ CheckpointScript \/ ConfigureScript \/ OperationScript

\* What reconcile_abandoned_epoch still has to visit: everything in flight was
\* recorded but not started, except the operation whose script is running.
Visiting ==
  \A o \in Ops :
    /\ o \in work => opStatus[o] \in {"IntentRecorded", "Uncertain"}
    /\ opStatus[o] \in InFlight => o \in work \/ Failing(o)

\* Where a starting engine is, what it still has to visit and which script it
\* is in the middle of.
StartPoints == {"down", "prepare", "idle", "activate", "reconcile", "recover", "resume"}
StartInv ==
  starting =>
    /\ ~onReject
    /\ pc \in StartPoints
    /\ pc \in {"activate", "reconcile", "recover", "resume"} => status \in Live
    /\ pc \in {"prepare", "activate"} /\ NotTerminal => StartedOperations = {}
    /\ pc = "reconcile" => Visiting
    /\ todo # <<>> => StartupScript

\* The first and the other entries of a short script.
LEMMA ShortScripts ==
  /\ \A a : <<a>> # <<>> /\ Head(<<a>>) = a /\ Tail(<<a>>) = <<>>
  /\ \A a, b : <<a, b>> # <<>> /\ Head(<<a, b>>) = a /\ Tail(<<a, b>>) = <<b>>
  /\ \A a, b, c : /\ <<a, b, c>> # <<>> /\ Head(<<a, b, c>>) = a
                  /\ Tail(<<a, b, c>>) = <<b, c>>
  OBVIOUS

\* Outside the visiting of operations only the script matters.
LEMMA StartElsewhere ==
  ASSUME ~onReject', pc' \in {"down", "idle", "recover", "resume"},
         pc' \in {"recover", "resume"} => status' \in Live,
         todo' # <<>> => StartupScript'
  PROVE  StartInv'
  BY DEF StartInv, StartPoints

\* The first entry of a startup script.
LEMMA StartupHead ==
  ASSUME starting, StartInv, todo # <<>>
  PROVE  /\ Head(todo)[1] \in {"Block", "Finish", "To", "Bound", "Lost", "Complete",
                               "Configure", "Op", "Evidence"}
         /\ pc \notin {"prepare", "activate"}
         /\ \A o : Failing(o) => Head(todo)[1] \in {"Op", "Evidence"}
<1>1. StartupScript
  BY DEF StartInv
<1>2. \A o : Failing(o) \/ Inspecting(o) => Head(todo)[1] \in {"Op", "Evidence"}
  BY EntryKinds, ShortScripts DEF Failing, Inspecting, Begin
<1>3. OperationScript => /\ Head(todo)[1] \in {"Op", "Evidence"} /\ pc = "reconcile"
  BY <1>2 DEF OperationScript
<1>4. EndScript \/ ContextScript \/ CheckpointScript \/ ConfigureScript =>
        /\ Head(todo)[1] \in {"Block", "Finish", "To", "Bound", "Lost", "Complete", "Configure"}
        /\ pc \notin {"prepare", "activate"}
  BY EntryKinds, ShortScripts DEF EndScript, ContextScript, CheckpointScript, ConfigureScript
<1>5. QED
  BY <1>1, <1>2, <1>3, <1>4 DEF StartupScript

\* Which event an entry of a startup script is.
LEMMA JournalIs ==
  /\ \A s : Journal(To(s)) => StateTransitioned(s)
  /\ Journal(Finish) => \E x \in Epochs : EpochFinished(x)
  /\ Journal(Bound) => ProviderContextBound
  /\ Journal(Lost) => ProviderContextLost
  /\ Journal(Block) => Blocked
  /\ Journal(Complete) => Completed
  /\ \A o : Journal(Evidence(o)) => OperationEvidenceRecorded(o)
  /\ \A o, from, to : Journal(Op(o, from, to)) => OperationTransitioned(o, from, to)
<1> USE EntryKinds
<1>1. ASSUME NEW s, Journal(To(s)) PROVE StateTransitioned(s)
  <2>1. \A t : To(t)[2] = t
    BY DEF To
  <2>2. \E t \in Targets : To(s) = To(t) /\ StateTransitioned(t)
    BY <1>1, ZenonT(120) DEF Journal
  <2>3. PICK t \in Targets : To(s) = To(t) /\ StateTransitioned(t)
    BY <2>2
  <2>4. s = t
    BY <2>1, <2>3
  <2>5. QED
    BY <2>3, <2>4
<1>2. Journal(Finish) => \E x \in Epochs : EpochFinished(x)
  BY ZenonT(120) DEF Journal
<1>3. (Journal(Bound) => ProviderContextBound) /\ (Journal(Lost) => ProviderContextLost)
  <2>1. Journal(Bound) => ProviderContextBound
    BY ZenonT(120) DEF Journal
  <2>2. Journal(Lost) => ProviderContextLost
    BY ZenonT(120) DEF Journal
  <2>3. QED
    BY <2>1, <2>2
<1>4. (Journal(Block) => Blocked) /\ (Journal(Complete) => Completed)
  <2>1. Journal(Block) => Blocked
    BY ZenonT(120) DEF Journal
  <2>2. Journal(Complete) => Completed
    BY ZenonT(120) DEF Journal
  <2>3. QED
    BY <2>1, <2>2
<1>5. ASSUME NEW o, Journal(Evidence(o)) PROVE OperationEvidenceRecorded(o)
  <2>1. \A p : Evidence(p)[2] = p
    BY DEF Evidence
  <2>2. \E p \in Ops : Evidence(o) = Evidence(p) /\ OperationEvidenceRecorded(p)
    BY <1>5, ZenonT(120) DEF Journal
  <2>3. PICK p \in Ops : Evidence(o) = Evidence(p) /\ OperationEvidenceRecorded(p)
    BY <2>2
  <2>4. o = p
    BY <2>1, <2>3
  <2>5. QED
    BY <2>3, <2>4
<1>6. ASSUME NEW o, NEW from, NEW to, Journal(Op(o, from, to))
      PROVE  OperationTransitioned(o, from, to)
  <2>1. \E p \in Ops, f, t \in OpStatuses :
          Op(o, from, to) = Op(p, f, t) /\ OperationTransitioned(p, f, t)
    BY <1>6, ZenonT(120) DEF Journal
  <2>2. PICK p \in Ops, f \in OpStatuses, t \in OpStatuses :
          Op(o, from, to) = Op(p, f, t) /\ OperationTransitioned(p, f, t)
    BY <2>1
  <2>3. o = p /\ from = f /\ to = t
    BY <2>2, EntryFields
  <2>4. QED
    BY <2>2, <2>3
<1>7. QED
  BY <1>1, <1>2, <1>3, <1>4, <1>5, <1>6

\* An append of startup leads from one script to its rest.
LEMMA AppendKeepsStartup ==
  ASSUME EffectInv, BoundaryInv, StartInv, AppendStep, starting
  PROVE  StartInv'
<1>1. /\ Journal(Head(todo)) /\ todo # <<>> /\ todo' = Tail(todo)
      /\ UNCHANGED <<pc, starting, onReject, work>>
  BY DEF AppendStep, volatile
<1>2. /\ ~onReject' /\ StartupScript /\ TypeOK
      /\ pc \in {"activate", "reconcile", "recover", "resume"} => status \in Live
      /\ pc = "reconcile" => Visiting
  BY <1>1 DEF StartInv, EffectInv, EngineTypeOK
<1> USE ShortScripts, JournalIs
<1>3. CASE EndScript
  <2>1. CASE pc = "idle" /\ todo = <<Block>>
    BY <1>1, <1>2, <2>1, StartElsewhere
  <2>2. CASE pc = "idle" /\ todo = <<Finish, Block>> /\ Finishing
    <3>1. Journal(Finish) /\ todo' = <<Block>>
      BY <1>1, <2>2
    <3>2. Blockable'
      <4>1. status \notin {"Queued", "Completing"}
        BY <2>2 DEF Finishing, BoundaryInv, AtBoundary, Boundary, BetweenEpochs
      <4>2. QED
        BY <2>2, <3>1, <4>1 DEF EpochFinished, Finishing, Blockable
    <3>3. QED
      BY <1>1, <1>2, <2>2, <3>1, <3>2, StartElsewhere DEF StartupScript, EndScript
  <2>3. CASE pc = "recover" /\ todo = <<Finish>> /\ Finishing
    <3>1. Journal(Finish) /\ todo' = <<>>
      BY <1>1, <2>3
    <3>2. status' \in Live
      BY <2>3, <3>1 DEF EpochFinished, Finishing
    <3>3. QED
      BY <1>1, <1>2, <2>3, <3>1, <3>2, StartElsewhere
  <2>4. QED
    BY <1>3, <2>1, <2>2, <2>3 DEF EndScript
\* An append of the context script at "reconcile" leaves the operations alone.
<1>4. ASSUME pc = "reconcile", UNCHANGED opStatus, status' \in Live,
             Head(todo)[1] \notin {"Op", "Evidence"}, todo' # <<>> => StartupScript'
      PROVE  StartInv'
  <2>1. \A o \in Ops : ~Failing(o)
    BY <1>1, <1>4, StartupHead
  <2>2. Visiting'
    BY <1>1, <1>2, <1>4, <2>1 DEF Visiting
  <2>3. QED
    BY <1>1, <1>2, <1>4, <2>2 DEF StartInv, StartPoints
<1>5. CASE ContextScript
  <2>1. CASE pc = "reconcile" /\ todo = <<To("Active"), Bound>> /\ status = "Queued"
    <3>1. Journal(To("Active")) /\ todo' = <<Bound>> /\ Head(todo)[1] = "To"
      BY <1>1, <2>1, EntryKinds
    <3>2. status' = "Active" /\ UNCHANGED opStatus
      BY <3>1 DEF StateTransitioned, opVars
    <3>3. StartupScript'
      BY <1>1, <2>1, <3>1, <3>2 DEF StartupScript, ContextScript, Live
    <3>4. QED
      BY <1>4, <2>1, <3>1, <3>2, <3>3 DEF Live
  <2>2. CASE pc \in {"reconcile", "idle"} /\ todo = <<Bound>> /\ status \in Live
    <3>1. Journal(Bound) /\ todo' = <<>> /\ Head(todo)[1] = "Bound"
      BY <1>1, <2>2, EntryKinds
    <3>2. status' \in Live /\ UNCHANGED opStatus
      BY <2>2, <3>1 DEF ProviderContextBound, opVars
    <3>3. QED
      BY <1>1, <1>2, <1>4, <2>2, <3>1, <3>2, StartElsewhere
  <2>3. CASE pc = "idle" /\ todo = <<Lost, Bound>> /\ status \in Live /\ context = "bound"
    <3>1. Journal(Lost) /\ todo' = <<Bound>>
      BY <1>1, <2>3
    <3>2. status' \in Live
      BY <2>3, <3>1 DEF ProviderContextLost
    <3>3. QED
      BY <1>1, <1>2, <2>3, <3>1, <3>2, StartElsewhere DEF StartupScript, ContextScript
  <2>4. CASE pc = "down" /\ todo = <<Lost>>
    BY <1>1, <1>2, <2>4, StartElsewhere
  <2>5. QED
    BY <1>5, <2>1, <2>2, <2>3, <2>4 DEF ContextScript
<1>6. CASE CheckpointScript
  <2>1. CASE pc = "resume" /\ todo = <<To("Active")>> /\ status = "Checkpointing"
    <3>1. Journal(To("Active")) /\ todo' = <<>>
      BY <1>1, <2>1
    <3>2. status' \in Live
      BY <3>1 DEF StateTransitioned, Live
    <3>3. QED
      BY <1>1, <1>2, <2>1, <3>1, <3>2, StartElsewhere
  <2>2. ASSUME NEW s, StateTransitioned(s), Completable
        PROVE  Completable' /\ status' = s
    BY <2>2 DEF StateTransitioned, Completable, RequireSafeBoundary, RequiredClausesSatisfied,
       HasUnresolvedOperations, Exists, contractVars, epochVars, opVars
  <2>3. CASE /\ pc = "idle" /\ Completable /\ status = "Checkpointing"
             /\ todo = <<To("Active"), To("Completing"), Complete>>
    <3>1. Journal(To("Active")) /\ todo' = <<To("Completing"), Complete>>
      BY <1>1, <2>3
    <3>2. StartupScript'
      BY <1>1, <2>2, <2>3, <3>1 DEF StartupScript, CheckpointScript
    <3>3. QED
      BY <1>1, <1>2, <2>3, <3>2, StartElsewhere
  <2>4. CASE /\ pc = "idle" /\ Completable /\ status = "Active"
             /\ todo = <<To("Completing"), Complete>>
    <3>1. Journal(To("Completing")) /\ todo' = <<Complete>>
      BY <1>1, <2>4
    <3>2. StartupScript'
      BY <1>1, <2>2, <2>4, <3>1 DEF StartupScript, CheckpointScript
    <3>3. QED
      BY <1>1, <1>2, <2>4, <3>2, StartElsewhere
  <2>5. CASE pc = "idle" /\ todo = <<Complete>>
    BY <1>1, <1>2, <2>5, StartElsewhere
  <2>6. QED
    BY <1>6, <2>1, <2>3, <2>4, <2>5 DEF CheckpointScript
<1>7. CASE ConfigureScript
  BY <1>1, <1>2, <1>7, JournalEffect, EntryKinds DEF ConfigureScript
<1>8. CASE OperationScript
  <2>1. pc = "reconcile" /\ status \in Live /\ activeEpoch # NoEpoch /\ Visiting
    BY <1>2, <1>8 DEF OperationScript
  <2>2. ASSUME NEW o \in Ops, o \notin work, UNCHANGED <<status, activeEpoch>>,
               \A p \in Ops : p # o => opStatus'[p] = opStatus[p],
               \A p \in Ops : p # o => ~Failing(p),
               opStatus'[o] \in InFlight => Failing(o)',
               todo' = <<>> \/ Failing(o)' \/ Inspecting(o)'
        PROVE  StartInv'
    <3>1. Visiting'
      BY <1>1, <2>1, <2>2 DEF Visiting
    <3>2. todo' # <<>> => StartupScript'
      BY <1>1, <2>1, <2>2 DEF StartupScript, OperationScript
    <3>3. QED
      BY <1>1, <1>2, <2>1, <2>2, <3>1, <3>2 DEF StartInv, StartPoints
  <2>3. ASSUME NEW o, NEW p, Failing(o) \/ Inspecting(o), Failing(p)
        PROVE  o = p
    <3>1. \A q : Evidence(q)[2] = q /\ Begin(q)[2] = q
      BY EntryFields DEF Evidence, Begin
    <3>2. Head(todo)[2] = o /\ Head(todo)[2] = p
      BY <2>3, <3>1, EntryFields DEF Failing, Inspecting
    <3>3. QED
      BY <3>2
  <2>4. ASSUME NEW o \in Ops, Failing(o) PROVE StartInv'
    <3>1. CASE /\ todo = <<Begin(o), Evidence(o), Op(o, "Started", "Failed")>>
               /\ opStatus[o] = "IntentRecorded"
      <4>1. /\ OperationTransitioned(o, "IntentRecorded", "Started")
            /\ todo' = <<Evidence(o), Op(o, "Started", "Failed")>>
        BY <1>1, <3>1 DEF Begin
      <4>2. /\ opStatus' = [opStatus EXCEPT ![o] = "Started"]
            /\ UNCHANGED <<status, activeEpoch>>
        BY <4>1 DEF OperationTransitioned, epochVars
      <4>3. Failing(o)'
        BY <1>1, <1>2, <2>4, <4>1, <4>2 DEF Failing, TypeOK
      <4>4. QED
        BY <1>2, <2>2, <2>3, <2>4, <4>2, <4>3 DEF TypeOK, Failing
    <3>2. CASE todo = <<Evidence(o), Op(o, "Started", "Failed")>> /\ opStatus[o] = "Started"
      <4>1. OperationEvidenceRecorded(o) /\ todo' = <<Op(o, "Started", "Failed")>>
        BY <1>1, <3>2
      <4>2. /\ fresh' = [fresh EXCEPT ![o] = TRUE]
            /\ UNCHANGED <<status, activeEpoch, opStatus>>
        BY <4>1 DEF OperationEvidenceRecorded, epochVars
      <4>3. fresh'[o]
        BY <1>2, <4>2 DEF TypeOK
      <4>4. Failing(o)'
        BY <1>1, <2>4, <3>2, <4>1, <4>2, <4>3 DEF Failing
      <4>5. QED
        BY <2>2, <2>3, <2>4, <4>2, <4>4 DEF Failing
    <3>3. CASE todo = <<Op(o, "Started", "Failed")>> /\ opStatus[o] = "Started" /\ fresh[o]
      <4>1. OperationTransitioned(o, "Started", "Failed") /\ todo' = <<>>
        BY <1>1, <3>3
      <4>2. /\ opStatus' = [opStatus EXCEPT ![o] = "Failed"]
            /\ UNCHANGED <<status, activeEpoch>>
        BY <4>1 DEF OperationTransitioned, epochVars
      <4>3. QED
        BY <1>2, <2>2, <2>3, <2>4, <4>1, <4>2 DEF TypeOK, Failing, InFlight
    <3>4. QED
      BY <2>4, <3>1, <3>2, <3>3 DEF Failing
  <2>5. ASSUME NEW o \in Ops, Inspecting(o) PROVE StartInv'
    <3>1. opStatus[o] = "Uncertain" /\ ~Failing(o)
      BY <2>5 DEF Inspecting, Failing
    <3>2. CASE todo = <<Evidence(o)>> \/ todo = <<Evidence(o), Op(o, "Uncertain", "Reconciled")>>
      <4>1. /\ OperationEvidenceRecorded(o)
            /\ todo' = <<>> \/ todo' = <<Op(o, "Uncertain", "Reconciled")>>
        <5>1. CASE todo = <<Evidence(o)>>
          BY <1>1, <5>1
        <5>2. CASE todo = <<Evidence(o), Op(o, "Uncertain", "Reconciled")>>
          BY <1>1, <5>2
        <5>3. QED
          BY <3>2, <5>1, <5>2
      <4>2. /\ fresh' = [fresh EXCEPT ![o] = TRUE] /\ opEpoch[o] = activeEpoch
            /\ UNCHANGED <<status, activeEpoch, opStatus, opEpoch>>
        BY <4>1 DEF OperationEvidenceRecorded, CanOperationEvidenceRecorded,
                    OperationEpochActive, epochVars
      <4>3. fresh'[o]
        BY <1>2, <4>2 DEF TypeOK
      <4>4. todo' = <<>> \/ Inspecting(o)'
        BY <1>1, <2>5, <4>1, <4>2, <4>3 DEF Inspecting
      <4>5. QED
        BY <2>2, <2>3, <2>5, <3>1, <4>2, <4>4 DEF Inspecting, InFlight
    <3>3. CASE todo = <<Op(o, "Uncertain", "Reconciled")>>
      <4>1. OperationTransitioned(o, "Uncertain", "Reconciled") /\ todo' = <<>>
        BY <1>1, <3>3
      <4>2. /\ opStatus' = [opStatus EXCEPT ![o] = "Reconciled"]
            /\ UNCHANGED <<status, activeEpoch>>
        BY <4>1 DEF OperationTransitioned, epochVars
      <4>3. QED
        BY <1>2, <2>2, <2>3, <2>5, <4>1, <4>2 DEF TypeOK, Inspecting, InFlight
    <3>4. QED
      BY <2>5, <3>2, <3>3 DEF Inspecting
  <2>6. QED
    BY <1>8, <2>4, <2>5 DEF OperationScript
<1>9. QED
  BY <1>2, <1>3, <1>5, <1>6, <1>7, <1>8 DEF StartupScript

\* Joining short scripts.
LEMMA ShortJoins ==
  /\ \A a, b, c : <<a>> \o <<b, c>> = <<a, b, c>>
  /\ \A a, b : <<a>> \o <<b>> = <<a, b>> /\ <<>> \o <<a, b>> = <<a, b>>
  /\ \A a : <<a>> \o <<>> = <<a>> /\ <<>> \o <<a>> = <<a>>
  /\ <<>> \o <<>> = <<>>
<1>1. ASSUME NEW a, NEW b, NEW c PROVE <<a>> \o <<b, c>> = <<a, b, c>>
  <2> DEFINE S == {a, b, c}
             s == <<a>> \o <<b, c>>
             t == <<a, b, c>>
  <2>1. <<a>> \in Seq(S) /\ <<b, c>> \in Seq(S) /\ t \in Seq(S)
    OBVIOUS
  <2>2. /\ s \in Seq(S) /\ Len(s) = 3
        /\ \A i \in 1 .. 3 : s[i] = IF i <= 1 THEN <<a>>[i] ELSE <<b, c>>[i - 1]
    BY <2>1, ConcatProperties
  <2>3. \A i \in 1 .. 3 : s[i] = t[i]
    <3>1. \A i \in 1 .. 3 : i = 1 \/ i = 2 \/ i = 3
      OBVIOUS
    <3> HIDE DEF s
    <3>2. s[1] = a /\ s[2] = b /\ s[3] = c
      BY <2>2
    <3>3. QED
      BY <3>1, <3>2
  <2> HIDE DEF s
  <2>4. s = t
    BY <2>1, <2>2, <2>3, SeqEqual
  <2>5. QED
    BY <2>4 DEF s
<1>2. \A a, b : <<a>> \o <<b>> = <<a, b>>
  BY Appended
<1>3. ASSUME NEW s, NEW a, NEW b, s \in Seq({a, b}) PROVE s \o <<>> = s /\ <<>> \o s = s
  BY <1>3, ConcatEmptySeq
<1>4. /\ \A a, b : <<>> \o <<a, b>> = <<a, b>>
      /\ \A a : <<a>> \o <<>> = <<a>> /\ <<>> \o <<a>> = <<a>>
      /\ <<>> \o <<>> = <<>>
  <2>1. \A a, b : <<a, b>> \in Seq({a, b}) /\ <<a>> \in Seq({a, b}) /\ <<>> \in Seq({a, b})
    OBVIOUS
  <2>2. QED
    BY <1>3, <2>1
<1>5. QED
  BY <1>1, <1>2, <1>4, Zenon

\* The points of run_loop.
Running == {"loop", "dispatch", "drain", "approval"}

\* A starting engine is at none of them.
LEMMA RunsAfterStartup ==
  ASSUME StartInv, starting',
         \/ Run \/ CancelIdle \/ StartEpoch \/ StartProviderEpoch \/ ProviderStep
         \/ CancelWorking \/ CancelAwaiting \/ ConfigureWorking \/ ConfigureAwaiting
         \/ Quiesce \/ MisdirectedControl
  PROVE  FALSE
<1>1. ~Run /\ ~CancelIdle
  BY DEF Run, CancelIdle
<1>2. CASE StartEpoch \/ StartProviderEpoch
  BY <1>2 DEF StartEpoch, StartProviderEpoch, OnlyControl, volatile, At, StartInv, StartPoints
<1>3. CASE ProviderStep
  <2>1. CASE AbortEpoch \/ SoftBoundary \/ EffectRequested \/ ApprovalDecided
    BY <2>1 DEF AbortEpoch, SoftBoundary, EffectRequested, ApprovalDecided, At, StartInv,
       StartPoints, OnlyControl, volatile
  <2>2. CASE ItemCompleted \/ CommandObserved
    BY <2>2 DEF ItemCompleted, CommandObserved, At, StartInv, StartPoints
  <2>3. CASE EpochCompletedBadly \/ EpochCompleted
    BY <2>3 DEF EpochCompletedBadly, EpochCompleted, At, StartInv, StartPoints
  <2>4. QED
    BY <1>3, <2>1, <2>2, <2>3 DEF ProviderStep
<1>4. CASE \/ CancelWorking \/ CancelAwaiting \/ ConfigureWorking \/ ConfigureAwaiting
           \/ Quiesce \/ MisdirectedControl
  <2>1. starting' = starting /\ pc \in Running
    BY <1>4 DEF CancelWorking, CancelAwaiting, ConfigureWorking, ConfigureAwaiting,
       Quiesce, MisdirectedControl, At, Running
  <2>2. QED
    BY <2>1 DEF StartInv, StartPoints, Running
<1>5. QED
  BY <1>1, <1>2, <1>3, <1>4

\* The script steps that are not appends.
LEMMA ScriptKeepsStartup ==
  ASSUME EffectInv, StartInv, starting, starting',
         ConfigurationStep \/ AllowStep \/ SkipStep \/ CloseStep \/ RejectStep
  PROVE  StartInv'
<1>1. todo # <<>>
  BY DEF ConfigurationStep, AllowStep, SkipStep, CloseStep, RejectStep
<1>2. ~AllowStep /\ ~SkipStep /\ ~CloseStep
  BY <1>1, StartupHead, EntryKinds DEF AllowStep, SkipStep, CloseStep
<1>3. CASE ConfigurationStep
  <2>1. Head(todo)[1] = "Configure" /\ todo' = Tail(todo) /\ UNCHANGED <<pc, onReject>>
    BY <1>1, <1>3, StartupHead, EntryKinds DEF ConfigurationStep, volatile
  <2>2. StartupScript /\ ~onReject
    BY <1>1 DEF StartInv
  <2>3. ~EndScript /\ ~ContextScript /\ ~CheckpointScript /\ ~OperationScript
    BY <2>1, ShortScripts, EntryKinds
       DEF EndScript, ContextScript, CheckpointScript, OperationScript, Failing,
           Inspecting, Begin
  <2>4. pc = "idle" /\ todo' = <<>>
    BY <2>1, <2>2, <2>3, ShortScripts DEF StartupScript, ConfigureScript
  <2>5. QED
    BY <2>1, <2>2, <2>4, StartElsewhere
<1>4. CASE RejectStep
  <2>1. todo' = <<>> /\ pc' = "down" /\ ~onReject'
    BY <1>4 DEF RejectStep, StartInv, Fail, Script
  <2>2. QED
    BY <2>1, StartElsewhere
<1>5. QED
  BY <1>2, <1>3, <1>4

\* The handlers of startup, each entered with an empty script.
LEMMA HandlerKeepsStartup ==
  ASSUME EffectInv, BoundaryInv, StartInv, starting, starting',
         \/ PrepareStartupTask \/ Activate \/ ReconcileAbandonedEpoch \/ NoAbandonedEpoch
         \/ RecoverCheckpointing \/ ResumeProviderContext \/ ConfigureIdle \/ CompactIdle
  PROVE  StartInv'
<1> USE DEF At, Script, Idle, Fail, OnlyControl
<1>1. /\ todo = <<>> /\ ~onReject /\ TypeOK
      /\ pc \in {"activate", "reconcile", "recover", "resume"} => status \in Live
      /\ pc \in {"prepare", "activate"} /\ NotTerminal => StartedOperations = {}
      /\ pc = "reconcile" => Visiting
  BY DEF StartInv, EffectInv, EngineTypeOK, PrepareStartupTask, Activate,
     ReconcileAbandonedEpoch, NoAbandonedEpoch, RecoverCheckpointing,
     ResumeProviderContext, ConfigureIdle, CompactIdle
<1>2. Live \cap Terminal = {}
  BY DEF Live, Terminal
<1>3. UNCHANGED <<lifecycleVars, onReject>>
  BY DEF PrepareStartupTask, Activate, ReconcileAbandonedEpoch, NoAbandonedEpoch,
     RecoverCheckpointing, ResumeProviderContext, ConfigureIdle, CompactIdle, volatile
<1>4. /\ UNCHANGED <<status, activeEpoch, opStatus, opEpoch, fresh, context, satisfied>>
      /\ ~onReject'
  BY <1>1, <1>3 DEF lifecycleVars
<1>5. CASE PrepareStartupTask
  <2>1. CASE todo' = <<>> /\ pc' = "idle"
    BY <1>4, <2>1, StartElsewhere
  <2>2. CASE /\ status \notin Terminal \cup {"Blocked", "Cancelling"}
             /\ todo' = <<>> /\ pc' = "activate" /\ pc = "prepare"
    <3>1. status' \in Live
      BY <1>1, <1>4, <2>2 DEF TypeOK, Statuses, Terminal, Live
    <3>2. NotTerminal' => StartedOperations' = {}
      BY <1>1, <1>4, <2>2 DEF NotTerminal, StartedOperations
    <3>3. QED
      BY <1>4, <2>2, <3>1, <3>2 DEF StartInv, StartPoints
  <2>3. CASE /\ status \notin Terminal \cup {"Blocked", "Cancelling"}
             /\ "workspace" \in Faults /\ todo' = <<Block>> /\ pc' = "idle"
    <3>1. Blockable'
      BY <1>1, <1>4, <2>3 DEF TypeOK, Statuses, Terminal, Live, Blockable
    <3>2. StartupScript'
      BY <2>3, <3>1 DEF StartupScript, EndScript
    <3>3. QED
      BY <1>4, <2>3, <3>2, StartElsewhere
  <2>4. QED
    BY <1>5, <2>1, <2>2, <2>3 DEF PrepareStartupTask
<1>6. CASE Activate
  <2>1. /\ status \in Live /\ StartedOperations = {}
        /\ work' = {o \in Ops : Exists(o) /\ opStatus[o] \notin Resolved}
    BY <1>1, <1>2, <1>6 DEF Activate, NotTerminal
  <2>2. pc' = "reconcile" => Visiting'
    BY <1>1, <1>4, <2>1
       DEF Visiting, TypeOK, OpStatuses, Resolved, InFlight, Exists, StartedOperations
  <2>3. \/ pc' = "reconcile" /\ todo' = <<To("Active"), Bound>> /\ status = "Queued"
        \/ pc' = "reconcile" /\ todo' = <<Bound>>
        \/ pc' = "reconcile" /\ todo' = <<>>
        \/ pc' = "idle" /\ todo' = <<Block>> /\ status = "Active"
        \/ pc' = "down" /\ todo' = <<>>
    BY <1>6 DEF Activate
  <2>4. todo' # <<>> => StartupScript'
    BY <1>4, <2>1, <2>3 DEF StartupScript, ContextScript, EndScript, Blockable
  <2>5. QED
    BY <1>4, <2>1, <2>2, <2>3, <2>4 DEF StartInv, StartPoints
<1>7. CASE ReconcileAbandonedEpoch
  <2>1. pc = "reconcile" /\ activeEpoch # NoEpoch /\ status \in Live /\ Visiting
    BY <1>1, <1>7 DEF ReconcileAbandonedEpoch
  <2>2. \A o : ~Failing(o)
    BY <1>1, ShortScripts DEF Failing
  <2>3. CASE work = {} /\ UNCHANGED work
    <3>1. ~HasInFlightOperations' /\ Finishing'
      BY <1>4, <2>1, <2>2, <2>3 DEF Visiting, HasInFlightOperations, Finishing
    <3>2. \/ pc' = "idle" /\ todo' = <<Finish, Block>>
          \/ pc' = "recover" /\ todo' = <<Finish>>
      BY <1>7, <2>3 DEF ReconcileAbandonedEpoch
    <3>3. StartupScript' /\ status' \in Live
      BY <3>1, <3>2 DEF StartupScript, EndScript, Finishing
    <3>4. QED
      BY <1>4, <3>2, <3>3, StartElsewhere
  <2>4. ASSUME NEW o \in work, NEW matched \in BOOLEAN,
               todo' = ReconcileOperation(o, matched), pc' = "reconcile",
               work' = work \ {o}
        PROVE  StartInv'
    <3>1. o \in Ops /\ opStatus[o] \in {"IntentRecorded", "Uncertain"} /\ o \notin work'
      BY <2>1, <2>4 DEF Visiting, EffectInv, EngineTypeOK
    <3>2. CASE opStatus[o] = "IntentRecorded"
      <4>1. ReconcileOperation(o, matched)
              = <<Begin(o), Evidence(o), Op(o, "Started", "Failed")>>
        <5>1. ReconcileOperation(o, matched)
                = <<Begin(o)>> \o <<Evidence(o), Op(o, "Started", "Failed")>>
          BY <3>2 DEF ReconcileOperation, CloseOperation, Begin
        <5>2. QED
          BY <5>1, ShortJoins, Zenon
      <4>2. Failing(o)'
        BY <1>4, <2>4, <3>1, <3>2, <4>1 DEF Failing
      <4>3. Visiting'
        BY <1>4, <2>1, <2>2, <2>4, <3>1, <4>2 DEF Visiting
      <4>4. StartupScript'
        BY <1>4, <2>1, <2>4, <3>1, <4>2 DEF StartupScript, OperationScript
      <4>5. QED
        BY <1>4, <2>1, <2>4, <4>3, <4>4 DEF StartInv, StartPoints
    <3>3. CASE opStatus[o] = "Uncertain"
      <4>1. \/ ReconcileOperation(o, matched) = <<>>
            \/ ReconcileOperation(o, matched) = <<Evidence(o)>>
            \/ ReconcileOperation(o, matched)
                 = <<Evidence(o), Op(o, "Uncertain", "Reconciled")>>
        <5> DEFINE settle == Op(o, "Uncertain", "Reconciled")
                   rest == CASE opClass[o] = "Observation" -> <<Evidence(o), settle>>
                             [] opClass[o] = "IdempotentMutation" ->
                                  <<Evidence(o)>> \o
                                  (IF "file" \in bound[o] /\ matched
                                   THEN <<settle>> ELSE <<>>)
                             [] OTHER -> <<>>
        <5>1. ReconcileOperation(o, matched) = <<>> \o rest
          BY <3>3, Zenon DEF ReconcileOperation
        <5>2. \/ rest = <<>> \/ rest = <<Evidence(o), settle>>
              \/ rest = <<Evidence(o)>> \o <<settle>> \/ rest = <<Evidence(o)>> \o <<>>
          <6>1. CASE opClass[o] = "Observation"
            BY <6>1
          <6>2. CASE opClass[o] = "IdempotentMutation"
            <7>1. rest = <<Evidence(o)>> \o (IF "file" \in bound[o] /\ matched
                                             THEN <<settle>> ELSE <<>>)
              BY <6>2
            <7>2. QED
              BY <7>1, Zenon
          <6>3. CASE opClass[o] \notin {"Observation", "IdempotentMutation"}
            BY <6>3
          <6>4. QED
            BY <6>1, <6>2, <6>3
        <5>3. \/ rest = <<>> \/ rest = <<Evidence(o), settle>> \/ rest = <<Evidence(o)>>
          BY <5>2, ShortJoins, Zenon
        <5> HIDE DEF rest
        <5>4. QED
          BY <5>1, <5>3, ShortJoins, Zenon
      <4>2. todo' = <<>> \/ Inspecting(o)'
        BY <1>4, <2>4, <3>1, <3>3, <4>1 DEF Inspecting
      <4>3. Visiting'
        BY <1>4, <2>1, <2>2, <2>4, <3>1, <3>3 DEF Visiting, InFlight
      <4>4. todo' # <<>> => StartupScript'
        BY <1>4, <2>1, <2>4, <3>1, <4>2 DEF StartupScript, OperationScript
      <4>5. QED
        BY <1>4, <2>1, <2>4, <4>3, <4>4 DEF StartInv, StartPoints
    <3>4. QED
      BY <3>1, <3>2, <3>3
  <2>5. QED
    BY <1>7, <2>3, <2>4 DEF ReconcileAbandonedEpoch
<1>8. CASE NoAbandonedEpoch
  BY <1>1, <1>4, <1>8, StartElsewhere DEF NoAbandonedEpoch
<1>9. CASE RecoverCheckpointing
  <2>1. pc = "recover" /\ status \in Live
    BY <1>1, <1>9 DEF RecoverCheckpointing
  <2>2. CASE pc' = "resume" /\ todo' = <<>>
    BY <1>4, <2>1, <2>2, StartElsewhere
  <2>3. CASE pc' = "idle" /\ todo' = <<Block>> /\ status = "Checkpointing"
    BY <1>4, <2>1, <2>3, StartElsewhere DEF StartupScript, EndScript, Blockable
  <2>4. CASE /\ status = "Checkpointing" /\ checkpoint = "covering"
             /\ RequiredClausesSatisfied /\ pc' = "idle"
             /\ todo' = <<To("Active"), To("Completing"), Complete>>
    <3>1. Boundary
      BY <2>4 DEF BoundaryInv, AtBoundary, BetweenEpochs
    <3>2. Completable
      BY <2>4, <3>1 DEF Completable, Boundary, RequireSafeBoundary
    <3>3. Completable'
      BY <1>4, <3>2 DEF Completable, RequireSafeBoundary, RequiredClausesSatisfied,
         HasUnresolvedOperations, Exists
    <3>4. StartupScript'
      BY <1>4, <2>4, <3>3 DEF StartupScript, CheckpointScript
    <3>5. QED
      BY <1>4, <2>4, <3>4, StartElsewhere
  <2>5. CASE status = "Checkpointing" /\ pc' = "resume" /\ todo' = <<To("Active")>>
    BY <1>4, <2>1, <2>5, StartElsewhere DEF StartupScript, CheckpointScript
  <2>6. QED
    BY <1>9, <2>2, <2>3, <2>4, <2>5 DEF RecoverCheckpointing
<1>10. CASE ResumeProviderContext
  <2>1. status' \in Live
    BY <1>1, <1>4, <1>10 DEF ResumeProviderContext
  <2>2. \/ pc' = "idle" /\ todo' = <<>>
        \/ pc' = "idle" /\ todo' = <<Bound>>
        \/ pc' = "idle" /\ todo' = <<Lost, Bound>> /\ context = "bound"
        \/ pc' = "down" /\ todo' = <<>>
        \/ pc' = "down" /\ todo' = <<Lost>> /\ context = "bound"
    BY <1>10 DEF ResumeProviderContext, Resumption
  <2>3. todo' # <<>> => StartupScript'
    BY <1>4, <2>1, <2>2 DEF StartupScript, ContextScript
  <2>4. QED
    BY <1>4, <2>2, <2>3, StartElsewhere
<1>11. CASE ConfigureIdle
  <2>1. pc' = "idle" /\ NotTerminal' /\ \E m \in Modes : todo' = <<Configure(m)>>
    BY <1>4, <1>11 DEF ConfigureIdle, NotTerminal
  <2>2. StartupScript'
    BY <2>1 DEF StartupScript, ConfigureScript
  <2>3. QED
    BY <1>4, <2>1, <2>2, StartElsewhere
<1>12. CASE CompactIdle
  BY <1>1, <1>4, <1>12, StartElsewhere DEF CompactIdle
<1>13. QED
  BY <1>5, <1>6, <1>7, <1>8, <1>9, <1>10, <1>11, <1>12

\* Every step keeps the scripts of startup.
LEMMA StartStep ==
  ASSUME EffectInv, BoundaryInv, StartInv, [EngineNext]_engineVars
  PROVE  StartInv'
<1>1. SUFFICES ASSUME starting' PROVE StartInv'
  BY DEF StartInv
<1>2. CASE OpenStore
  <2>1. todo' = <<>> /\ pc' = "prepare" /\ ~onReject'
    BY <1>2 DEF OpenStore, Script, ResetRuntime
  <2>2. NotTerminal' => StartedOperations' = {}
    <3>1. CASE ReconcileAbandonedOperations
      <4>1. opStatus' = [o \in Ops |-> IF o \in StartedOperations THEN "Uncertain"
                                       ELSE opStatus[o]]
        BY <3>1 DEF ReconcileAbandonedOperations
      <4>2. QED
        BY <4>1 DEF StartedOperations
    <3>2. CASE ~NotTerminal /\ UNCHANGED lifecycleVars
      BY <3>2 DEF NotTerminal, lifecycleVars
    <3>3. QED
      BY <1>2, <3>1, <3>2 DEF OpenStore
  <2>3. QED
    BY <2>1, <2>2 DEF StartInv, StartPoints
<1>3. CASE Crash
  <2>1. todo' = <<>> /\ pc' = "down" /\ ~onReject'
    BY <1>3 DEF Crash, Script, ResetRuntime
  <2>2. QED
    BY <2>1, StartElsewhere
<1>4. CASE AppendStep
  <2>1. starting
    BY <1>1, <1>4 DEF AppendStep, volatile
  <2>2. QED
    BY <1>4, <2>1, AppendKeepsStartup
<1>5. CASE ConfigurationStep \/ AllowStep \/ SkipStep \/ CloseStep \/ RejectStep
  <2>1. starting
    BY <1>1, <1>5 DEF ConfigurationStep, AllowStep, SkipStep, CloseStep, RejectStep, volatile
  <2>2. QED
    BY <1>1, <1>5, <2>1, ScriptKeepsStartup
<1>6. CASE \/ PrepareStartupTask \/ Activate \/ ReconcileAbandonedEpoch \/ NoAbandonedEpoch
           \/ RecoverCheckpointing \/ ResumeProviderContext \/ ConfigureIdle \/ CompactIdle
  <2>1. starting
    BY <1>1, <1>6 DEF PrepareStartupTask, Activate, ReconcileAbandonedEpoch,
       NoAbandonedEpoch, RecoverCheckpointing, ResumeProviderContext, ConfigureIdle,
       CompactIdle, OnlyControl, volatile
  <2>2. QED
    BY <1>1, <1>6, <2>1, HandlerKeepsStartup
<1>7. CASE UNCHANGED engineVars
  BY <1>7 DEF engineVars, lifecycleVars, volatile, StartInv, StartPoints, Visiting,
     StartupScript, EndScript, ContextScript, CheckpointScript, ConfigureScript,
     OperationScript, Failing, Inspecting, Finishing, Blockable, Completable,
     NotTerminal, StartedOperations, HasInFlightOperations, RequireSafeBoundary,
     RequiredClausesSatisfied, HasUnresolvedOperations, Exists
<1>8. QED
  BY <1>1, <1>2, <1>3, <1>4, <1>5, <1>6, <1>7, RunsAfterStartup
     DEF EngineNext, EngineStep, OwnerStep

\* Which guard an entry of a startup script needs.
LEMMA AcceptsIs ==
  /\ \A s : CanStateTransitioned(s) => Accepts(To(s))
  /\ activeEpoch # NoEpoch /\ CanEndEpoch(activeEpoch) => Accepts(Finish)
  /\ NotTerminal => Accepts(Bound)
  /\ CanProviderContextLost => Accepts(Lost)
  /\ CanBlocked => Accepts(Block)
  /\ CanCompleted => Accepts(Complete)
  /\ \A m : NotTerminal => Accepts(Configure(m))
  /\ \A o : CanOperationEvidenceRecorded(o) => Accepts(Evidence(o))
  /\ \A o, from, to : CanOperationTransitioned(o, from, to) => Accepts(Op(o, from, to))
<1> USE EntryKinds
<1>1. ASSUME NEW s, CanStateTransitioned(s) PROVE Accepts(To(s))
  <2>1. To(s)[2] = s
    BY DEF To
  <2>2. QED
    BY <1>1, <2>1 DEF Accepts
<1>2. activeEpoch # NoEpoch /\ CanEndEpoch(activeEpoch) => Accepts(Finish)
  BY DEF Accepts
<1>3. /\ NotTerminal => Accepts(Bound)
      /\ CanProviderContextLost => Accepts(Lost)
  BY DEF Accepts
<1>4. /\ CanBlocked => Accepts(Block)
      /\ CanCompleted => Accepts(Complete)
  BY DEF Accepts
<1>5. \A m : NotTerminal => Accepts(Configure(m))
  BY DEF Accepts
<1>6. ASSUME NEW o, CanOperationEvidenceRecorded(o) PROVE Accepts(Evidence(o))
  <2>1. Evidence(o)[2] = o
    BY DEF Evidence
  <2>2. QED
    BY <1>6, <2>1 DEF Accepts
<1>7. ASSUME NEW o, NEW from, NEW to, CanOperationTransitioned(o, from, to)
      PROVE  Accepts(Op(o, from, to))
  BY <1>7, EntryFields DEF Accepts
<1>8. QED
  BY <1>1, <1>2, <1>3, <1>4, <1>5, <1>6, <1>7

\* In every script of startup the next append is acceptable, or is one of the
\* two exceptions.
LEMMA StartupAccepted ==
  ASSUME StoreAlwaysOpens, StartInv
  PROVE  StartupReconciles
<1>1. SUFFICES ASSUME starting, todo # <<>>
               PROVE  \/ Accepts(Head(todo))
                      \/ \E o \in Ops : Stranded(o) /\ Head(todo) = Evidence(o)
                      \/ /\ "workspace" \in Faults
                         /\ status \in {"Queued", "Completing"} /\ Head(todo) = Block
  BY DEF StartupReconciles
<1>2. StartupScript
  BY <1>1 DEF StartInv
<1>3. \A s \in Live : s \notin Terminal
  BY DEF Live, Terminal
<1> USE ShortScripts, AcceptsIs
<1>4. CASE EndScript
  <2>1. CASE todo = <<Block>> /\ Blockable
    <3>1. CASE status \in {"Active", "Checkpointing", "Paused"}
      <4>1. CanBlocked
        BY <3>1 DEF CanBlocked, NotTerminal, MayTransition, LegalStatusEdge, Terminal
      <4>2. QED
        BY <2>1, <4>1
    <3>2. CASE status \in {"Queued", "Completing"}
      BY <2>1, <3>2 DEF Blockable
    <3>3. QED
      BY <2>1, <3>1, <3>2 DEF Blockable, Live
  <2>2. CASE (todo = <<Finish, Block>> \/ todo = <<Finish>>) /\ Finishing
    <3>1. activeEpoch # NoEpoch /\ CanEndEpoch(activeEpoch) /\ Head(todo) = Finish
      BY <1>3, <2>2 DEF Finishing, CanEndEpoch, NotTerminal
    <3>2. QED
      BY <3>1
  <2>3. QED
    BY <1>4, <2>1, <2>2 DEF EndScript
<1>5. CASE ContextScript
  <2>1. CASE todo = <<To("Active"), Bound>> /\ status = "Queued"
    <3>1. CanStateTransitioned("Active")
      BY <2>1 DEF CanStateTransitioned, NotTerminal, MayTransition, LegalStatusEdge, Terminal
    <3>2. QED
      BY <2>1, <3>1
  <2>2. CASE todo = <<Bound>> /\ status \in Live
    BY <1>3, <2>2 DEF NotTerminal
  <2>3. CASE (todo = <<Lost, Bound>> \/ todo = <<Lost>>) /\ status \in Live /\ context = "bound"
    <3>1. CanProviderContextLost /\ Head(todo) = Lost
      BY <1>3, <2>3 DEF CanProviderContextLost, NotTerminal
    <3>2. QED
      BY <3>1
  <2>4. QED
    BY <1>5, <2>1, <2>2, <2>3 DEF ContextScript
<1>6. CASE CheckpointScript
  <2> USE DEF CanStateTransitioned, NotTerminal, MayTransition, LegalStatusEdge, Terminal
  <2>1. CASE Head(todo) = To("Active") /\ status = "Checkpointing"
    <3>1. CanStateTransitioned("Active")
      BY <2>1
    <3>2. QED
      BY <2>1, <3>1
  <2>2. CASE todo = <<To("Completing"), Complete>> /\ status = "Active"
    <3>1. CanStateTransitioned("Completing")
      BY <2>2
    <3>2. QED
      BY <2>2, <3>1
  <2>3. CASE todo = <<Complete>> /\ status = "Completing" /\ Completable
    <3>1. CanCompleted
      BY <2>3 DEF CanCompleted, Completable
    <3>2. QED
      BY <2>3, <3>1
  <2>4. QED
    BY <1>6, <2>1, <2>2, <2>3 DEF CheckpointScript
<1>7. CASE ConfigureScript
  BY <1>7 DEF ConfigureScript
<1>8. CASE OperationScript
  <2>1. NotTerminal /\ activeEpoch # NoEpoch
    BY <1>3, <1>8 DEF OperationScript, NotTerminal
  <2> USE DEF CanOperationTransitioned, CanOperationEvidenceRecorded, OperationEpochActive,
              Exists, LegalOperationEdge, InFlight
  <2>2. ASSUME NEW o \in Ops, Failing(o) PROVE Accepts(Head(todo))
    <3>1. opStatus[o] \in InFlight /\ opEpoch[o] = activeEpoch
      BY <2>2 DEF Failing, StoreAlwaysOpens
    <3>2. CASE /\ todo = <<Begin(o), Evidence(o), Op(o, "Started", "Failed")>>
               /\ opStatus[o] = "IntentRecorded"
      <4>1. CanOperationTransitioned(o, "IntentRecorded", "Started")
        BY <2>1, <3>1, <3>2
      <4>2. Accepts(Op(o, "IntentRecorded", "Started"))
        BY <4>1
      <4>3. Head(todo) = Op(o, "IntentRecorded", "Started")
        BY <3>2 DEF Begin
      <4>4. QED
        BY <4>2, <4>3, Zenon
    <3>3. CASE todo = <<Evidence(o), Op(o, "Started", "Failed")>> /\ opStatus[o] = "Started"
      <4>1. CanOperationEvidenceRecorded(o)
        BY <2>1, <3>1, <3>3
      <4>2. QED
        BY <3>3, <4>1
    <3>4. CASE todo = <<Op(o, "Started", "Failed")>> /\ opStatus[o] = "Started" /\ fresh[o]
      <4>1. CanOperationTransitioned(o, "Started", "Failed")
        BY <2>1, <3>1, <3>4
      <4>2. QED
        BY <3>4, <4>1
    <3>5. QED
      BY <2>2, <3>2, <3>3, <3>4 DEF Failing
  <2>3. ASSUME NEW o \in Ops, Inspecting(o)
        PROVE  \/ Accepts(Head(todo))
               \/ Stranded(o) /\ Head(todo) = Evidence(o)
    <3>1. CASE Head(todo) = Evidence(o) /\ opEpoch[o] = activeEpoch
      <4>1. CanOperationEvidenceRecorded(o)
        BY <2>1, <2>3, <3>1 DEF Inspecting
      <4>2. QED
        BY <3>1, <4>1
    <3>2. CASE Head(todo) = Evidence(o) /\ opEpoch[o] # activeEpoch
      BY <2>3, <3>2 DEF Inspecting, Stranded
    <3>3. CASE /\ todo = <<Op(o, "Uncertain", "Reconciled")>>
               /\ fresh[o] /\ opEpoch[o] = activeEpoch
      <4>1. CanOperationTransitioned(o, "Uncertain", "Reconciled")
        BY <2>1, <2>3, <3>3 DEF Inspecting
      <4>2. Accepts(Op(o, "Uncertain", "Reconciled"))
        BY <4>1
      <4>3. Head(todo) = Op(o, "Uncertain", "Reconciled")
        BY <3>3
      <4>4. QED
        BY <4>2, <4>3, Zenon
    <3>4. QED
      BY <2>3, <3>1, <3>2, <3>3 DEF Inspecting
  <2>4. QED
    BY <1>8, <2>2, <2>3 DEF OperationScript
<1>9. QED
  BY <1>2, <1>4, <1>5, <1>6, <1>7, <1>8 DEF StartupScript

\* The invariant of startup.
StartupInv == EffectInv /\ BoundaryInv /\ StartInv

\* Every reachable state of the engine satisfies the invariant of startup.
THEOREM StartupInvariant == EngineSpec => []StartupInv
<1>1. EngineInit => StartupInv
  <2>1. ASSUME EngineInit PROVE BoundaryInv /\ StartInv
    <3>1. /\ todo = <<>> /\ pc = "down" /\ ~onReject /\ activeEpoch = NoEpoch
          /\ checkpoint = "none"
      BY <2>1 DEF EngineInit, Init
    <3>2. \A e : ~Pending(e)
      BY <3>1, EmptyScript DEF Pending
    <3>3. QED
      BY <3>1, <3>2 DEF BoundaryInv, AtBoundary, Boundary, EnteringAtBoundary, StartInv,
         StartPoints
  <2>2. QED
    BY <2>1, InitEffectInv DEF StartupInv
<1>2. EffectInv /\ EffectInv' /\ BoundaryInv /\ StartInv /\ [EngineNext]_engineVars
        => BoundaryInv' /\ StartInv'
  BY BoundaryStep, StartStep
<1>3. EngineInit => BoundaryInv /\ StartInv
  BY <1>1 DEF StartupInv
<1>4. QED
  BY <1>2, <1>3, EffectInvariant, PTL DEF EngineSpec, StartupInv

\* Whatever an earlier process left, through any number of crashes, startup
\* meets no append the journal rejects but the two named exceptions.
THEOREM StartupIsReconciled == EngineSpec => []StartupReconciles
<1>1. StartupInv /\ StoreAlwaysOpens => StartupReconciles
  BY StartupAccepted DEF StartupInv
<1>2. QED
  BY <1>1, StartupInvariant, EngineStoreOpens, PTL
===============================================================================
