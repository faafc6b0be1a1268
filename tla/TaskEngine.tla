------------------------------ MODULE TaskEngine ------------------------------
(***************************************************************************)
(* The autonomous engine of one task (src/src/runtime/task/engine.rs) over  *)
(* the journal of TaskLifecycle: startup reconciliation, the run loop, the  *)
(* work epoch with its effects, approvals and owner controls, cancellation, *)
(* and a crash of the process between any two of its steps.                 *)
(*                                                                         *)
(* Every `append` of the engine is a transaction of its own, so a handler   *)
(* is a SCRIPT: the sequence `todo` of journal appends and provider calls   *)
(* it makes, performed one per step.  `pc` is where control is once the     *)
(* script is done.  A rejected append is the handler's error path.          *)
(*                                                                         *)
(* Budgets: the task may use the epochs in Epochs (max_provider_requests)   *)
(* and the operations in Ops (max_tool_calls).  MaxCrashes and MaxControls  *)
(* bound the environment; Faults names the failures it may inject.          *)
(***************************************************************************)
EXTENDS TaskLifecycle, Sequences

CONSTANTS
  MaxCrashes,    \* crashes of the service process
  MaxControls,   \* owner controls delivered to the engine
  Controls,      \* which owner controls are delivered
  Faults,        \* which failures of the provider and workspace may happen
  StartModes     \* permission modes a task may be created with

Modes == {"ReadOnly", "Approval", "FullAccess"}
NoMode == "None"

ASSUME BudgetAssumption == MaxCrashes \in Nat /\ MaxControls \in Nat
ASSUME ModeAssumption == StartModes \subseteq Modes

VARIABLES
  pc,        \* control point reached when todo is empty
  todo,      \* the rest of the current handler's script
  starting,  \* TRUE in reconcile_startup, FALSE in run
  onReject,  \* a rejected append is handled by interrupt_and_block_epoch
  prepared,  \* the task is in the actor's initial queue
  runtime,   \* the engine's RuntimeTask: "none", "kept" (not yet provider_ready),
             \* "stale" (it reported its context lost and still names it), "ready"
  work,      \* drain's `operations`, or what reconcile_abandoned_epoch has left
  boundary,  \* drain's boundary_requested
  quiesce,   \* runtime.quiesce_after_checkpoint
  asked,     \* the operations whose approval the engine awaits (at most one)
  effective, \* effective_permission_mode (durable, and in the runtime)
  pending,   \* pending_permission_mode of the queued configuration
  effect,    \* what the provider was told and said about each operation
  crashes, controls

volatile == <<starting, onReject, prepared, runtime, work, boundary, quiesce, asked>>
permission == <<effective, pending>>
budget == <<crashes, controls>>
engineVars == <<lifecycleVars, pc, todo, volatile, permission, effect, budget>>

-----------------------------------------------------------------------------
(* Scripts: one entry per append or provider call *)

To(s) == <<"To", s>>
Revise(claims) == <<"Revise", claims>>
Start(e) == <<"Start", e>>
Finish == <<"Finish">>
Interrupt == <<"Interrupt">>
Intent(o, c) == <<"Intent", o, c>>
Bind(o) == <<"Bind", o>>
Evidence(o) == <<"Evidence", o>>
Op(o, from, to) == <<"Op", o, from, to>>
Recover(e) == <<"Recover", e>>
Recovered(e) == <<"Recovered", e>>
Checkpoint == <<"Checkpoint">>
Compacted == <<"Compacted">>
Bound == <<"Bound">>
Lost == <<"Lost">>
Cancel == <<"Cancel">>
Block == <<"Block">>
Complete == <<"Complete">>
Configure(m) == <<"Configure", m>>
Apply == <<"Apply">>
Allow(o) == <<"Allow", o>>
CloseAll == <<"CloseAll">>

\* OperationIntentRecorded then IntentRecorded -> Started, before any dispatch
OpenOperation(o, c) == <<Intent(o, c), Op(o, "IntentRecorded", "Started")>>

\* close_operation_with_evidence
CloseOperation(o, to) == <<Evidence(o), Op(o, "Started", to)>>

\* Mutant: the running epoch is left open.
FinishNever == <<>>
FinishIfActive == IF activeEpoch = NoEpoch THEN <<>> ELSE <<Finish>>

\* interrupt_and_block_epoch: whatever port.interrupt answers, the started
\* operations of the drain loop become Uncertain, the epoch ends and the task
\* is blocked unless it already is (the two tests are made by SkipStep).
\* Mutant: the task is not blocked.
InterruptOnly == <<CloseAll, <<"FinishIfActive">>>>
InterruptAndBlock == <<CloseAll, <<"FinishIfActive">>, <<"BlockUnlessBlocked">>>>

\* A failed work control also fails the task.
InterruptAndFail == InterruptAndBlock \o <<To("Failed")>>

\* The end of a cancelled epoch: the drain loop takes a refused transition to
\* Cancelled as a failed work control.
CancelOrFail ==
  IF CanStateTransitioned("Cancelled") THEN <<To("Cancelled")>> ELSE InterruptAndFail

Script(s, next) == todo' = s /\ pc' = next

\* The handler's last script before it returns to the actor; an error coded
\* Blocked is the one error that startup survives, so it ends here as well.
Idle(s) == Script(s, "idle")

\* The handler returns an error: reconcile_startup gives up the whole startup,
\* run returns to the actor.
Fail == Script(<<>>, IF starting THEN "down" ELSE "idle")

-----------------------------------------------------------------------------
(* Performing the script *)

\* Whether the store accepts the append.
Accepts(e) ==
  CASE e[1] = "To" -> CanStateTransitioned(e[2])
    [] e[1] = "Revise" -> CanContractRevised(version + 1)
    [] e[1] = "Start" -> CanEpochStarted(e[2])
    [] e[1] \in {"Finish", "Interrupt"} ->
         activeEpoch # NoEpoch /\ CanEndEpoch(activeEpoch)
    [] e[1] = "Intent" -> CanOperationIntentRecorded(e[2])
    [] e[1] = "Bind" -> CanPostconditionBound(e[2], "file")
    [] e[1] = "Evidence" -> CanOperationEvidenceRecorded(e[2])
    [] e[1] = "Op" -> CanOperationTransitioned(e[2], e[3], e[4])
    [] e[1] = "Recover" -> CanRecoveryAttemptStarted
    [] e[1] = "Recovered" -> CanRecoveryAttemptRecorded(e[2])
    [] e[1] = "Checkpoint" -> CanCheckpointCommitted
    [] e[1] = "Compacted" -> CanCompactionCompleted
    [] e[1] = "Bound" -> NotTerminal
    [] e[1] = "Lost" -> CanProviderContextLost
    [] e[1] = "Cancel" -> CanCancellationRequested
    [] e[1] = "Block" -> CanBlocked
    [] e[1] = "Complete" -> CanCompleted
    [] e[1] \in {"Configure", "Apply"} -> NotTerminal
    [] OTHER -> TRUE

\* The journal append and reduction of one entry.
Journal(e) ==
  \/ \E s \in Targets : e = To(s) /\ StateTransitioned(s)
  \/ \E v \in 2 .. MaxVersion, c \in SUBSET Clauses :
       /\ e = Revise(c)
       /\ v = version + 1
       /\ ContractRevised(v, satisfied \cup c)
  \/ \E x \in Epochs : e = Start(x) /\ EpochStarted(x)
  \/ \E x \in Epochs : e = Finish /\ EpochFinished(x)
  \/ \E x \in Epochs : e = Interrupt /\ EpochInterrupted(x)
  \/ \E o \in Ops, c \in EffectClasses :
       e = Intent(o, c) /\ OperationIntentRecorded(o, c)
  \/ \E o \in Ops : e = Bind(o) /\ PostconditionBound(o, "file")
  \/ \E o \in Ops : e = Evidence(o) /\ OperationEvidenceRecorded(o)
  \/ \E o \in Ops, from, to \in OpStatuses :
       e = Op(o, from, to) /\ OperationTransitioned(o, from, to)
  \/ \E x \in Epochs : e = Recover(x) /\ RecoveryAttemptStarted(x)
  \/ \E x \in Epochs : e = Recovered(x) /\ RecoveryAttemptRecorded(x)
  \/ e = Checkpoint /\ CheckpointCommitted
  \/ e = Compacted /\ CanCompactionCompleted /\ UNCHANGED lifecycleVars
  \/ e = Bound /\ ProviderContextBound
  \/ e = Lost /\ ProviderContextLost
  \/ e = Cancel /\ CancellationRequested
  \/ e = Block /\ Blocked
  \/ e = Complete /\ Completed

AppendStep ==
  /\ todo # <<>>
  /\ Journal(Head(todo))
  /\ todo' = Tail(todo)
  /\ UNCHANGED <<pc, volatile, permission, effect, budget>>

Strength(m) == CASE m = "ReadOnly" -> 0 [] m = "Approval" -> 1 [] OTHER -> 2
Tightens(m) == Strength(m) < Strength(effective)

\* ConfigurationQueued narrows the effective mode at once, never widens it;
\* ConfigurationApplied makes the pending mode effective.
ConfigurationQueued(m) ==
  /\ pending' = m
  /\ effective' = IF Tightens(m) THEN m ELSE effective

ConfigurationStep ==
  /\ todo # <<>>
  /\ NotTerminal
  /\ \/ \E m \in Modes : Head(todo) = Configure(m) /\ ConfigurationQueued(m)
     \/ Head(todo) = Apply /\ effective' = pending /\ pending' = NoMode
  /\ todo' = Tail(todo)
  /\ UNCHANGED <<lifecycleVars, pc, volatile, effect, budget>>

\* port.resolve_effect(Allow): from here on the effect may happen at any time.
AllowStep ==
  /\ todo # <<>>
  /\ \E o \in Ops : /\ Head(todo) = Allow(o)
                    /\ effect' = [effect EXCEPT ![o] = "allowed"]
  /\ todo' = Tail(todo)
  /\ UNCHANGED <<lifecycleVars, pc, volatile, permission, budget>>

\* The conditional entries of a script.
SkipStep ==
  /\ todo # <<>>
  /\ \/ /\ Head(todo) = <<"FinishIfActive">>
        /\ todo' = FinishIfActive \o Tail(todo)
     \/ /\ Head(todo) = <<"BlockUnlessBlocked">>
        /\ todo' = (IF status = "Blocked" THEN <<>> ELSE <<Block>>) \o Tail(todo)
     \/ /\ Head(todo) = <<"CancelOrFail">>
        /\ todo' = CancelOrFail \o Tail(todo)
  /\ UNCHANGED <<lifecycleVars, pc, volatile, permission, effect, budget>>

\* Mutant: what is interrupted is recorded as failed.
CloseAsFailed ==
  /\ todo # <<>>
  /\ Head(todo) = CloseAll
  /\ \/ \E o \in work \cap StartedOperations :
          /\ todo' = CloseOperation(o, "Failed") \o todo
          /\ UNCHANGED work
     \/ /\ work \cap StartedOperations = {}
        /\ todo' = Tail(todo)
        /\ work' = {}
  /\ onReject' = FALSE
  /\ UNCHANGED <<lifecycleVars, pc, starting, prepared, runtime, boundary,
                 quiesce, asked, permission, effect, budget>>

\* Iteration over the operations the loop holds, in an arbitrary order.
CloseStep ==
  /\ todo # <<>>
  /\ Head(todo) = CloseAll
  /\ \/ \E o \in work \cap StartedOperations :
          /\ todo' = CloseOperation(o, "Uncertain") \o todo
          /\ UNCHANGED work
     \/ /\ work \cap StartedOperations = {}
        /\ todo' = Tail(todo)
        /\ work' = {}
  /\ onReject' = FALSE
  /\ UNCHANGED <<lifecycleVars, pc, starting, prepared, runtime, boundary,
                 quiesce, asked, permission, effect, budget>>

\* A rejected append: an error in processing a provider event interrupts and
\* blocks the epoch; anywhere else the error leaves the engine.
RejectStep ==
  /\ todo # <<>>
  /\ ~Accepts(Head(todo))
  /\ IF onReject THEN Idle(InterruptAndBlock) ELSE Fail
  /\ onReject' = FALSE
  /\ UNCHANGED <<lifecycleVars, starting, prepared, runtime, work, boundary,
                 quiesce, asked, permission, effect, budget>>

-----------------------------------------------------------------------------
(* The service process *)

EngineInit ==
  /\ Init
  /\ pc = "down"
  /\ todo = <<>>
  /\ starting = TRUE
  /\ onReject = FALSE
  /\ prepared = FALSE
  /\ runtime = "none"
  /\ work = {}
  /\ boundary = FALSE
  /\ quiesce = FALSE
  /\ asked = {}
  /\ effective \in StartModes
  /\ pending = NoMode
  /\ effect = [o \in Ops |-> "none"]
  /\ crashes = 0
  /\ controls = 0

ResetRuntime ==
  /\ starting' = TRUE
  /\ onReject' = FALSE
  /\ prepared' = FALSE
  /\ runtime' = "none"
  /\ work' = {}
  /\ boundary' = FALSE
  /\ quiesce' = FALSE
  /\ asked' = {}

At(point) == pc = point /\ todo = <<>>

Crash ==
  /\ crashes < MaxCrashes
  /\ ~At("down")
  /\ crashes' = crashes + 1
  /\ Script(<<>>, "down")
  /\ ResetRuntime
  /\ UNCHANGED <<lifecycleVars, permission, effect, controls>>

\* Mutant: abandoned operations are failed, without evidence.
OpenStoreFailing ==
  /\ At("down")
  /\ opStatus' = [o \in Ops |-> IF o \in StartedOperations
                                THEN "Failed" ELSE opStatus[o]]
  /\ Script(<<>>, "prepare")
  /\ ResetRuntime
  /\ UNCHANGED <<status, contractVars, epochVars, opEpoch, opClass, fresh, bound,
                 recoveryVars, permission, effect, budget>>

\* RuntimeStore::open marks abandoned operations, then reconcile_startup.
OpenStore ==
  /\ At("down")
  /\ CanReconcileAbandonedOperations
  /\ \/ ReconcileAbandonedOperations
     \/ ~NotTerminal /\ UNCHANGED lifecycleVars
  /\ Script(<<>>, "prepare")
  /\ ResetRuntime
  /\ UNCHANGED <<permission, effect, budget>>

\* Steps that only move control or choose the next script.
OnlyControl == UNCHANGED <<lifecycleVars, volatile, permission, effect, budget>>

\* prepare_startup_task: settled tasks are left alone, an untrusted workspace
\* blocks the task.
PrepareStartupTask ==
  /\ At("prepare")
  /\ \/ /\ status \in Terminal \cup {"Blocked", "Cancelling"}
        /\ Idle(<<>>)
     \/ /\ status \notin Terminal \cup {"Blocked", "Cancelling"}
        /\ Script(<<>>, "activate")
     \/ /\ status \notin Terminal \cup {"Blocked", "Cancelling"}
        /\ "workspace" \in Faults
        /\ Idle(<<Block>>)
  /\ OnlyControl

IsSchedulable == status \in {"Queued", "Active", "Checkpointing", "Paused"}

\* run_task_actor picks the task: it was prepared at startup, or the refill
\* lists it; run returns at once when the task is settled.
Run ==
  /\ At("idle")
  /\ prepared \/ IsSchedulable
  /\ prepared' = FALSE
  /\ starting' = FALSE
  /\ Script(<<>>, IF status \in Terminal \cup {"Blocked", "Cancelling"}
                  THEN "idle" ELSE "activate")
  /\ UNCHANGED <<lifecycleVars, onReject, runtime, work, boundary, quiesce, asked,
                 permission, effect, budget>>

-----------------------------------------------------------------------------
(* From the stored snapshot to a provider context *)

\* activate_queued_task, then bind_never_bound_active_context for a task that
\* crashed between Queued -> Active and ProviderContextBound.
Activate ==
  /\ At("activate")
  /\ \/ /\ status = "Queued"
        /\ Script(<<To("Active"), Bound>>, "reconcile")
        /\ runtime' = "ready"
     \/ /\ status = "Active" /\ context = "never"
        /\ IF epochIds = {}
           THEN Script(<<Bound>>, "reconcile") /\ runtime' = "ready"
           ELSE Idle(<<Block>>) /\ UNCHANGED runtime
     \/ /\ status = "Queued" \/ (status = "Active" /\ context = "never")
        /\ "provider" \in Faults
        /\ Fail
        /\ UNCHANGED runtime
     \/ /\ ~(status = "Queued" \/ (status = "Active" /\ context = "never"))
        /\ Script(<<>>, "reconcile")
        /\ UNCHANGED runtime
  /\ work' = {o \in Ops : Exists(o) /\ opStatus[o] \notin Resolved}
  /\ UNCHANGED <<lifecycleVars, starting, onReject, prepared, boundary, quiesce,
                 asked, permission, effect, budget>>

\* Mutant: whatever was abandoned is taken as reconciled.
ReconcileBlindly(o, matched) ==
  IF opStatus[o] = "IntentRecorded"
  THEN <<Op(o, "IntentRecorded", "Started")>> \o CloseOperation(o, "Failed")
  ELSE (IF opStatus[o] = "Started" THEN CloseOperation(o, "Uncertain") ELSE <<>>)
       \o <<Evidence(o), Op(o, "Uncertain", "Reconciled")>>

\* Mutant: an operation is settled without new evidence.
ReconcileUnproven(o, matched) ==
  IF opStatus[o] = "IntentRecorded"
  THEN <<Op(o, "IntentRecorded", "Started")>> \o CloseOperation(o, "Failed")
  ELSE (IF opStatus[o] = "Started" THEN CloseOperation(o, "Uncertain") ELSE <<>>)
       \o (IF opClass[o] = "Observation"
           THEN <<Op(o, "Uncertain", "Reconciled")>> ELSE <<>>)

\* What reconcile_abandoned_epoch appends for one operation, where `matched`
\* is the inspection of a bound file postcondition.
ReconcileOperation(o, matched) ==
  LET settle == Op(o, "Uncertain", "Reconciled")
      close == IF opStatus[o] = "Started"
               THEN CloseOperation(o, "Uncertain") ELSE <<>>
  IN IF opStatus[o] = "IntentRecorded"
     THEN <<Op(o, "IntentRecorded", "Started")>> \o CloseOperation(o, "Failed")
     ELSE close \o
          CASE opClass[o] = "Observation" -> <<Evidence(o), settle>>
            [] opClass[o] = "IdempotentMutation" ->
                 <<Evidence(o)>> \o
                 (IF "file" \in bound[o] /\ matched THEN <<settle>> ELSE <<>>)
            [] OTHER -> <<>>

\* reconcile_abandoned_epoch visits every operation of the task, not only those
\* of the abandoned epoch, then ends the epoch and blocks on what is uncertain.
ReconcileAbandonedEpoch ==
  /\ At("reconcile")
  /\ activeEpoch # NoEpoch
  /\ \/ \E o \in work, matched \in BOOLEAN :
          /\ Script(ReconcileOperation(o, matched), "reconcile")
          /\ work' = work \ {o}
     \/ /\ work = {}
        /\ IF \E o \in Ops : opStatus[o] = "Uncertain"
           THEN Idle(<<Finish, Block>>)
           ELSE Script(<<Finish>>, "recover")
        /\ UNCHANGED work
  /\ UNCHANGED <<lifecycleVars, starting, onReject, prepared, runtime, boundary,
                 quiesce, asked, permission, effect, budget>>

NoAbandonedEpoch ==
  /\ At("reconcile")
  /\ activeEpoch = NoEpoch
  /\ Script(<<>>, "recover")
  /\ work' = {}
  /\ UNCHANGED <<lifecycleVars, starting, onReject, prepared, runtime, boundary,
                 quiesce, asked, permission, effect, budget>>

\* The runtime stays in the engine's map when its handler returns.
Kept == IF runtime = "none" THEN "kept" ELSE runtime

\* recover_checkpointing: continue only from a checkpoint that covers the
\* latest finished epoch, and complete when its contract is satisfied.
RecoverCheckpointing ==
  /\ At("recover")
  /\ \/ /\ status # "Checkpointing"
        /\ Script(<<>>, "resume") /\ UNCHANGED runtime
     \/ /\ status = "Checkpointing" /\ checkpoint # "covering"
        /\ Idle(<<Block>>) /\ runtime' = Kept
     \/ /\ status = "Checkpointing" /\ checkpoint = "covering"
        /\ IF RequiredClausesSatisfied
           THEN Idle(<<To("Active"), To("Completing"), Complete>>) /\ runtime' = Kept
           ELSE Script(<<To("Active")>>, "resume") /\ UNCHANGED runtime
  /\ UNCHANGED <<lifecycleVars, starting, onReject, prepared, work, boundary,
                 quiesce, asked, permission, effect, budget>>

\* resume_provider_context: keep the bound context, replace a lost one, or
\* fail; the replacement is journalled as Lost then Bound.  A runtime whose
\* replacement failed asks for the lost context again, and has it or fails:
\* a second Lost would be refused.
Resumption ==
  {IF context = "bound" \/ runtime = "stale" THEN <<>> ELSE <<Bound>>}
  \cup (IF context = "bound" /\ "context" \in Faults THEN {<<Lost, Bound>>} ELSE {})

ResumeProviderContext ==
  /\ At("resume")
  /\ \/ /\ \E s \in (IF runtime = "ready" THEN {<<>>} ELSE Resumption) :
             Script(s, IF starting THEN "idle" ELSE "loop")
        /\ runtime' = "ready"
        /\ prepared' = starting
     \/ /\ runtime # "ready"
        /\ "provider" \in Faults
        /\ \/ Fail /\ runtime' = Kept
           \/ /\ context = "bound"
              /\ Script(<<Lost>>, IF starting THEN "down" ELSE "idle")
              /\ runtime' = "stale"
        /\ UNCHANGED prepared
  /\ UNCHANGED <<lifecycleVars, starting, onReject, work, boundary, quiesce,
                 asked, permission, effect, budget>>

-----------------------------------------------------------------------------
(* run_loop: one epoch after another *)

Unused == {o \in Ops : ~Exists(o)}
FreshEpochs == Epochs \ epochIds

\* Mutant: a configuration is applied even when none is queued.
StartEpochApplying ==
  /\ At("loop")
  /\ \/ /\ FreshEpochs = {} \/ Unused = {} \/ "wall" \in Faults
        /\ Idle(<<Block>>)
     \/ /\ FreshEpochs # {} /\ Unused # {}
        /\ \E e \in (IF pendingRecovery = NoEpoch THEN FreshEpochs
                     ELSE {pendingRecovery}) :
             Script(<<Start(e), Apply>>, "dispatch")
  /\ OnlyControl

\* exhausted_budget_reason, or the next EpochStarted: a pending recovery
\* attempt reuses the epoch identity it was journalled with.  When the context
\* package cannot be assembled the task is blocked with the epoch open.
StartEpoch ==
  /\ At("loop")
  /\ \/ /\ FreshEpochs = {} \/ Unused = {} \/ "wall" \in Faults
        /\ Idle(<<Block>>)
     \/ /\ FreshEpochs # {} /\ Unused # {}
        /\ \E e \in (IF pendingRecovery = NoEpoch THEN FreshEpochs
                     ELSE {pendingRecovery}) :
             \/ Script(<<Start(e)>> \o (IF pending = NoMode THEN <<>> ELSE <<Apply>>),
                       "dispatch")
             \/ "context" \in Faults /\ Idle(<<Start(e), Block>>)
  /\ OnlyControl

\* start_provider_epoch: a dispatch that certainly did not happen ends the
\* epoch (and fails a recovery attempt), an uncertain one blocks the task, and
\* so does an exhausted wall budget.
\* Mutant: the outcome of a recovery attempt is not journalled.
RecoveryForgotten(e) == <<>>
RecoveryOf(e) == IF pendingRecovery = e THEN <<Recovered(e)>> ELSE <<>>

StartProviderEpoch ==
  /\ At("dispatch")
  /\ \/ /\ Script(<<>>, "drain")
        /\ boundary' = quiesce
        /\ work' = {}
     \/ /\ "dispatch" \in Faults
        /\ \/ Idle(<<Finish, Block>>)
           \/ Idle(<<Finish>> \o (IF pendingRecovery = activeEpoch
                                  THEN <<Recovered(activeEpoch), Block>>
                                  ELSE <<>>))
        /\ UNCHANGED <<boundary, work>>
     \/ \* the steering queued before the epoch, or the boundary request of a
        \* quiescing task, is refused
        /\ "steer" \in Faults
        /\ \/ Idle(InterruptAndBlock)
           \/ quiesce /\ Idle(<<>>)
        /\ UNCHANGED <<boundary, work>>
  /\ UNCHANGED <<lifecycleVars, starting, onReject, prepared, runtime, quiesce,
                 asked, permission, effect, budget>>

-----------------------------------------------------------------------------
(* drain_work_epoch: provider events *)

\* Any event the loop cannot accept, a failed read, a stream over its bounds,
\* the wall deadline, or a request beyond the tool budget.
AbortEpoch ==
  /\ At("drain")
  /\ "abort" \in Faults \/ Unused = {}
  /\ Idle(InterruptAndBlock)
  /\ OnlyControl

SoftBoundary ==
  /\ At("drain")
  /\ ~boundary
  /\ \/ boundary' = TRUE /\ Script(<<>>, "drain")
     \/ "steer" \in Faults /\ Idle(InterruptAndBlock) /\ UNCHANGED boundary
  /\ UNCHANGED <<lifecycleVars, starting, onReject, prepared, runtime, work,
                 quiesce, asked, permission, effect, budget>>

\* The ways an effect request ends before the provider may act on it: denied by
\* policy or by the owner, paths not trusted, binding refused, deadline passed,
\* resolution certainly not applied (Failed), or not known (Uncertain).
Refusal(o, to) == CloseOperation(o, to) \o <<Block>> \o InterruptAndBlock

\* EffectRequested after the boundary was requested: intent, start, deny.
DenyAtBoundary(o, c) ==
  /\ boundary
  /\ \/ /\ Script(OpenOperation(o, c) \o CloseOperation(o, "Failed"), "drain")
        /\ UNCHANGED work
     \/ /\ "steer" \in Faults
        /\ Idle(OpenOperation(o, c) \o InterruptAndBlock)
        /\ work' = work \cup {o}
  /\ UNCHANGED asked

\* EffectRequested before it: intent and start are durable before the decision.
DecideEffect(o, c) ==
  /\ ~boundary
  /\ work' = work \cup {o}
  /\ \/ /\ effective = "FullAccess"
        /\ Script(OpenOperation(o, c) \o <<Allow(o)>>, "drain")
        /\ UNCHANGED asked
     \/ /\ effective = "Approval"
        /\ Script(OpenOperation(o, c), "approval")
        /\ asked' = {o}
     \/ /\ effective = "ReadOnly" \/ "refuse" \in Faults
        /\ Idle(OpenOperation(o, c) \o Refusal(o, "Failed"))
        /\ UNCHANGED asked
     \/ /\ "refuse" \in Faults
        /\ \E reached \in {<<>>} \cup (IF effective = "FullAccess"
                                      THEN {<<Allow(o)>>} ELSE {}) :
             Idle(OpenOperation(o, c) \o reached \o Refusal(o, "Uncertain"))
        /\ UNCHANGED asked

EffectRequested ==
  /\ At("drain")
  /\ \E o \in Unused, c \in EffectClasses :
       DenyAtBoundary(o, c) \/ DecideEffect(o, c)
  /\ onReject' = TRUE
  /\ UNCHANGED <<lifecycleVars, starting, prepared, runtime, boundary, quiesce,
                 permission, effect, budget>>

\* await_approval: the owner's answer, or any failure before dispatch.
ApprovalDecided ==
  /\ At("approval")
  /\ \E o \in asked :
       \/ Script(<<Allow(o)>>, "drain")
       \/ Idle(Refusal(o, "Failed"))
       \/ /\ "refuse" \in Faults
          /\ \E reached \in {<<>>, <<Allow(o)>>} :
               Idle(reached \o Refusal(o, "Uncertain"))
  /\ asked' = {}
  /\ onReject' = TRUE
  /\ UNCHANGED <<lifecycleVars, starting, prepared, runtime, work, boundary,
                 quiesce, permission, effect, budget>>

Outcomes == {"Succeeded", "Failed", "Cancelled"}

\* Mutant: a file mutation closes without its postcondition.
ItemCompletedUnbound ==
  /\ At("drain")
  /\ \E o \in work, to \in Outcomes :
       /\ effect[o] = "allowed"
       /\ work' = work \ {o}
       /\ effect' = [effect EXCEPT ![o] = "reported"]
       /\ Script(CloseOperation(o, to), "drain")
  /\ onReject' = TRUE
  /\ UNCHANGED <<lifecycleVars, starting, prepared, runtime, boundary, quiesce,
                 asked, permission, budget>>

\* ItemCompleted of an operation the loop holds.  It leaves `operations`
\* first; a file mutation then binds its postcondition.
ItemCompleted ==
  /\ At("drain")
  /\ \E o \in work, to \in Outcomes :
       LET file == opClass[o] = "IdempotentMutation" /\ to = "Succeeded"
       IN /\ effect[o] = "allowed"
          /\ work' = work \ {o}
          /\ effect' = [effect EXCEPT ![o] = "reported"]
          /\ \/ Script((IF file THEN <<Bind(o)>> ELSE <<>>)
                         \o CloseOperation(o, to), "drain")
             \/ /\ file /\ "capture" \in Faults
                /\ Idle(Refusal(o, "Uncertain"))
             \/ /\ "normalize" \in Faults
                /\ Idle(InterruptAndBlock)
  /\ onReject' = TRUE
  /\ UNCHANGED <<lifecycleVars, starting, prepared, runtime, boundary, quiesce,
                 asked, permission, budget>>

\* ItemCompleted of a command the provider ran without asking: journalled as an
\* observation after the fact.  It never enters `operations`, so a failure in
\* between leaves it started.
CommandObserved ==
  /\ At("drain")
  /\ "Observation" \in EffectClasses
  /\ \E o \in Unused, to \in Outcomes :
       /\ effect' = [effect EXCEPT ![o] = "reported"]
       /\ \/ Script(OpenOperation(o, "Observation") \o CloseOperation(o, to), "drain")
          \/ /\ "normalize" \in Faults
             /\ Idle(OpenOperation(o, "Observation") \o InterruptAndBlock)
  /\ onReject' = TRUE
  /\ UNCHANGED <<lifecycleVars, starting, prepared, runtime, work, boundary,
                 quiesce, asked, permission, budget>>

\* EpochCompleted with operations still open, or with a malformed report.
EpochCompletedBadly ==
  /\ At("drain")
  /\ Idle(IF work # {} THEN InterruptAndBlock ELSE <<Finish, Block>>)
  /\ work # {} \/ "report" \in Faults
  /\ onReject' = FALSE
  /\ UNCHANGED <<lifecycleVars, starting, prepared, runtime, work, boundary,
                 quiesce, asked, permission, effect, budget>>

\* validate_claims: a claimed clause names operations that succeeded.
\* Mutant: the provider's claims are believed.
AnyClaims(claims) == claims \subseteq Clauses
ValidClaims(claims) ==
  claims = {} \/ \E o \in Ops : opStatus[o] = "Succeeded"

\* decide_completion, then apply_clause_evidence, the checkpoint, compaction
\* and the decision.  Building a checkpoint or a context package, or compacting,
\* may fail on the way: the error leaves the task where it is.
EnterCheckpointing(claims) ==
  (IF claims = {} THEN <<>> ELSE <<Revise(claims)>>) \o <<To("Checkpointing")>>

CommitCheckpoint(claims) == EnterCheckpointing(claims) \o <<Checkpoint>>

Compaction ==
  {<<>>} \cup (IF "context" \in Faults THEN {<<Compacted>>, <<Lost, Bound, Compacted>>}
               ELSE {})

Decision(disposition, recoveryEpoch) ==
  CASE disposition = "complete" -> <<To("Active"), To("Completing"), Complete>>
    [] disposition = "blocked" -> <<Block>>
    [] OTHER -> (IF recoveryEpoch = NoEpoch THEN <<>> ELSE <<Recover(recoveryEpoch)>>)
                \o <<To("Active")>>

EpochCompleted ==
  /\ At("drain")
  /\ work = {}
  /\ \E claims \in SUBSET Clauses,
        disposition \in {"complete", "blocked", "continue"},
        compaction \in Compaction,
        recovery \in FreshEpochs \cup {NoEpoch} :
       LET finished == <<Finish>> \o RecoveryOf(activeEpoch)
           valid == /\ ValidClaims(claims)
                    /\ disposition = "complete" => claims = Clauses
       IN /\ claims # {} => version < MaxVersion
          /\ disposition # "continue" => recovery = NoEpoch
          /\ \/ /\ ~valid
                /\ Idle(finished \o <<Block>>)
                /\ UNCHANGED quiesce
             \/ /\ valid
                /\ Script(finished \o CommitCheckpoint(claims) \o compaction
                            \o Decision(disposition, recovery),
                          IF disposition = "continue" /\ ~quiesce
                          THEN "loop" ELSE "idle")
                /\ quiesce' = (quiesce /\ disposition # "continue")
             \/ /\ valid /\ "context" \in Faults
                /\ \E reached \in {<<>>, EnterCheckpointing(claims),
                                  CommitCheckpoint(claims)} :
                     Idle(finished \o reached)
                /\ UNCHANGED quiesce
  /\ boundary' = FALSE
  /\ onReject' = FALSE
  /\ UNCHANGED <<lifecycleVars, starting, prepared, runtime, work, asked,
                 permission, effect, budget>>

-----------------------------------------------------------------------------
(* Owner controls *)

Deliver(control) ==
  /\ control \in Controls
  /\ controls < MaxControls
  /\ controls' = controls + 1

\* cancel_active_epoch with the operations it is given: only a confirmed
\* interruption with nothing in flight ends in Cancelled, which `last` records.
CancelEpoch(closing, confirmed, last) ==
  <<Cancel>> \o
  (IF closing = <<>> /\ (confirmed \/ activeEpoch = NoEpoch)
   THEN FinishIfActive \o <<last>>
   ELSE closing \o <<Block>> \o FinishIfActive)

CancelWorking ==
  /\ At("drain")
  /\ Deliver("cancel")
  /\ \E confirmed \in BOOLEAN :
       Idle(CancelEpoch(IF work = {} THEN <<>> ELSE <<CloseAll>>, confirmed,
                        <<"CancelOrFail">>))
  /\ onReject' = FALSE
  /\ UNCHANGED <<lifecycleVars, starting, prepared, runtime, work, boundary,
                 quiesce, asked, permission, effect, crashes>>

\* While an approval is awaited the cancellation is given that operation only;
\* its error then interrupts and blocks the epoch.
CancelAwaiting ==
  /\ At("approval")
  /\ Deliver("cancel")
  /\ \E o \in asked, confirmed \in BOOLEAN :
       Idle(CancelEpoch(CloseOperation(o, "Uncertain"), confirmed, To("Cancelled"))
              \o InterruptAndBlock)
  /\ asked' = {}
  /\ onReject' = TRUE
  /\ UNCHANGED <<lifecycleVars, starting, prepared, runtime, work, boundary,
                 quiesce, permission, effect, crashes>>

\* cancel_controlled on an idle task: a never bound task cannot be rehydrated;
\* one without a runtime first gets its provider context back, or fails.
CancelIdle ==
  /\ At("idle")
  /\ Deliver("cancelIdle")
  /\ NotTerminal
  /\ context # "never"
  /\ \/ /\ \E s \in (IF runtime = "none" THEN Resumption ELSE {<<>>}), confirmed \in BOOLEAN :
             Idle(s \o CancelEpoch(IF StartedOperations = {} THEN <<>> ELSE <<CloseAll>>,
                                   confirmed, To("Cancelled")))
        /\ runtime' = IF runtime = "none" THEN "ready" ELSE runtime
        /\ work' = StartedOperations
     \/ /\ runtime = "none" /\ "provider" \in Faults
        /\ \/ Idle(<<>>) /\ runtime' = "kept"
           \/ context = "bound" /\ Idle(<<Lost>>) /\ runtime' = "stale"
        /\ UNCHANGED work
  /\ starting' = FALSE
  /\ onReject' = FALSE
  /\ UNCHANGED <<lifecycleVars, prepared, boundary, quiesce, asked, permission,
                 effect, crashes>>

\* Configure: a mode that does not tighten waits for the next epoch; one that
\* tightens interrupts this one, and with operations open blocks the task.
ConfigureWorking ==
  /\ At("drain")
  /\ Deliver("configure")
  /\ \E m \in Modes, confirmed \in BOOLEAN :
       \/ /\ ~Tightens(m)
          /\ Script(<<Configure(m)>>, "drain")
       \/ /\ Tightens(m) /\ confirmed /\ work = {}
          /\ Script(<<Configure(m), Interrupt>>, "loop")
       \/ /\ Tightens(m) /\ confirmed /\ work # {}
          /\ Idle(<<Configure(m), CloseAll, Interrupt, Block>>)
       \/ /\ Tightens(m) /\ ~confirmed
          /\ Idle(<<Configure(m)>> \o InterruptAndFail)
  /\ onReject' = FALSE
  /\ UNCHANGED <<lifecycleVars, starting, prepared, runtime, work, boundary,
                 quiesce, asked, permission, effect, crashes>>

\* Mutant: a tightening leaves the pending approval open.
ConfigureAwaitingOpen ==
  /\ At("approval")
  /\ Deliver("configure")
  /\ \E m \in Modes : Script(<<Configure(m)>>, "approval")
  /\ onReject' = TRUE
  /\ UNCHANGED <<lifecycleVars, starting, prepared, runtime, work, boundary,
                 quiesce, asked, permission, effect, crashes>>

\* A mode that tightens ends the wait even when it is meant for another task
\* and is not queued.
ConfigureAwaiting ==
  /\ At("approval")
  /\ Deliver("configure")
  /\ \E m \in Modes, o \in asked :
       \/ /\ ~Tightens(m)
          /\ Script(<<Configure(m)>>, "approval")
          /\ UNCHANGED asked
       \/ /\ Tightens(m)
          /\ \E queued \in {<<Configure(m)>>, <<>>} :
               Idle(queued \o CloseOperation(o, "Uncertain")
                      \o <<Interrupt, Block>> \o InterruptAndBlock)
          /\ asked' = {}
  /\ onReject' = TRUE
  /\ UNCHANGED <<lifecycleVars, starting, prepared, runtime, work, boundary,
                 quiesce, permission, effect, crashes>>

ConfigureIdle ==
  /\ At("idle")
  /\ Deliver("configure")
  /\ NotTerminal
  /\ \E m \in Modes : Idle(<<Configure(m)>>)
  /\ UNCHANGED <<lifecycleVars, volatile, permission, effect, crashes>>

\* Quiesce and Compact ask for a boundary; the loop's own flag stays as it was.
Quiesce ==
  /\ pc \in {"drain", "approval"} /\ todo = <<>>
  /\ Deliver("quiesce")
  /\ quiesce' = TRUE
  /\ \/ Script(<<>>, pc) /\ UNCHANGED asked
     \/ /\ "steer" \in Faults
        /\ Idle(IF pc = "drain" THEN InterruptAndFail ELSE InterruptAndBlock)
        /\ asked' = {}
  /\ UNCHANGED <<lifecycleVars, starting, onReject, prepared, runtime, work,
                 boundary, permission, effect, crashes>>

\* compact_controlled on an idle task: the next epoch starts quiescing.
CompactIdle ==
  /\ At("idle")
  /\ Deliver("quiesce")
  /\ status = "Active" /\ activeEpoch = NoEpoch /\ context # "never"
  /\ quiesce' = TRUE
  /\ runtime' = Kept
  /\ UNCHANGED <<lifecycleVars, pc, todo, starting, onReject, prepared,
                 work, boundary, asked, permission, effect, crashes>>

\* A control that names another task, an approval nobody awaits, or steering
\* the provider refuses: the epoch is interrupted and the task failed, or only
\* blocked when it awaits an approval.
MisdirectedControl ==
  /\ pc \in {"drain", "approval"} /\ todo = <<>>
  /\ Deliver("misdirected")
  /\ Idle(IF pc = "drain" THEN InterruptAndFail ELSE InterruptAndBlock)
  /\ asked' = {}
  /\ onReject' = FALSE
  /\ UNCHANGED <<lifecycleVars, starting, prepared, runtime, work, boundary,
                 quiesce, permission, effect, crashes>>

-----------------------------------------------------------------------------
EngineStep ==
  \/ AppendStep \/ ConfigurationStep \/ AllowStep \/ SkipStep \/ CloseStep
  \/ RejectStep \/ OpenStore \/ PrepareStartupTask \/ Run \/ Activate
  \/ ReconcileAbandonedEpoch \/ NoAbandonedEpoch \/ RecoverCheckpointing
  \/ ResumeProviderContext \/ StartEpoch \/ StartProviderEpoch

ProviderStep ==
  \/ AbortEpoch \/ SoftBoundary \/ EffectRequested \/ ApprovalDecided
  \/ ItemCompleted \/ CommandObserved \/ EpochCompletedBadly \/ EpochCompleted

OwnerStep ==
  \/ CancelWorking \/ CancelAwaiting \/ CancelIdle \/ ConfigureWorking
  \/ ConfigureAwaiting \/ ConfigureIdle \/ Quiesce \/ CompactIdle
  \/ MisdirectedControl

EngineNext == EngineStep \/ ProviderStep \/ OwnerStep \/ Crash

EngineSpec == EngineInit /\ [][EngineNext]_engineVars

\* The engine's own steps are ordinary code that keeps running, the actor runs
\* every task it lists, and a wall budget (max_wall_time_seconds) ends every
\* wait for the provider or an approval.  Nothing is assumed of the owner.
EngineFairness == WF_engineVars(EngineStep) /\ WF_engineVars(ProviderStep)

FairEngineSpec == EngineSpec /\ EngineFairness

-----------------------------------------------------------------------------
(* Properties *)

\* Control, scripts and the engine's runtime keep their types.
EngineTypeOK ==
  /\ TypeOK
  /\ pc \in {"down", "prepare", "idle", "activate", "reconcile", "recover",
            "resume", "loop", "dispatch", "drain", "approval"}
  /\ starting \in BOOLEAN /\ onReject \in BOOLEAN /\ prepared \in BOOLEAN
  /\ runtime \in {"none", "kept", "stale", "ready"}
  /\ boundary \in BOOLEAN /\ quiesce \in BOOLEAN
  /\ work \subseteq Ops
  /\ asked \subseteq Ops
  /\ effective \in Modes
  /\ pending \in Modes \cup {NoMode}
  /\ effect \in [Ops -> {"none", "allowed", "reported"}]
  /\ crashes \in 0 .. MaxCrashes
  /\ controls \in 0 .. MaxControls

\* The engine with its crashes implements the lifecycle: every step is one
\* event the reducer accepts, or leaves the stored task alone.
LifecycleSpec == Spec

\* No effect outcome is invented.  An effect the provider was allowed to
\* perform and has not reported is, in the journal, started or uncertain, or
\* was a mere observation; it is never recorded as failed, succeeded or
\* cancelled, through any crash, refusal, cancellation or tightening.
OutcomeKnown ==
  \A o \in Ops : effect[o] = "allowed" =>
    \/ opStatus[o] \in {"Started", "Uncertain"}
    \/ opStatus[o] = "Reconciled" /\ opClass[o] = "Observation"

\* An operation recorded as succeeded was reported by the provider, and a file
\* mutation also has its postcondition bound.
SuccessReported ==
  \A o \in Ops : opStatus[o] = "Succeeded" =>
    effect[o] = "reported"
    /\ (opClass[o] = "IdempotentMutation" => "file" \in bound[o])

\* An effect is let through only for a started operation of the running epoch
\* of an active task, and never while the owner's effective permission is read
\* only: a tightening or a cancellation that was accepted first always wins.
Permitted(o) ==
  /\ status = "Active"
  /\ opStatus[o] = "Started"
  /\ opEpoch[o] = activeEpoch
  /\ effective # "ReadOnly"
NewlyAllowed(o) == effect[o] # "allowed" /\ effect'[o] = "allowed"
EffectsPermitted ==
  [][\A o \in Ops : NewlyAllowed(o) => Permitted(o)]_engineVars

\* While the outcome of an operation is uncertain nothing new is dispatched:
\* the task blocks until the operation is reconciled.
UncertainBlocks ==
  [][\A o \in Ops : NewlyAllowed(o) =>
       \A p \in Ops : opStatus[p] # "Uncertain"]_engineVars

\* reconcile_startup meets a task it cannot reconcile in two cases only, so in
\* no other can one task keep the whole service from starting: inspecting an
\* operation whose outcome is uncertain after its epoch has ended (the reducer
\* wants the operation's own epoch active), and blocking a task that is queued
\* or completing over its untrusted workspace (there is no such edge).
StartupReconciles ==
  starting /\ todo # <<>> =>
    \/ Accepts(Head(todo))
    \/ \E o \in Ops : Stranded(o) /\ Head(todo) = Evidence(o)
    \/ /\ "workspace" \in Faults
       /\ status \in {"Queued", "Completing"} /\ Head(todo) = Block

\* Every satisfied clause rests on an operation that succeeded.
ClausesRestOnSuccess ==
  satisfied # {} => \E o \in Ops : opStatus[o] = "Succeeded"

\* A pending recovery attempt can still be started: its epoch is not yet a row
\* of task_epochs when the run loop is about to start it.
RecoveryCanStart ==
  At("loop") /\ pendingRecovery # NoEpoch => FreshEpochRow(pendingRecovery)

\* The actor does not work on a task forever: whatever is refused, lost or
\* unreported, a task it may schedule ends settled or waits for its owner.
Settles == IsSchedulable ~> ~IsSchedulable

\* No epoch stays open: every started epoch is ended in the journal.
EpochsEnd == activeEpoch # NoEpoch ~> activeEpoch = NoEpoch

=============================================================================
