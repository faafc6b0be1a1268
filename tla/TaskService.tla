----------------------------- MODULE TaskService -----------------------------
(***************************************************************************)
(* The owner process of all tasks (src/src/service/server.rs): the handlers *)
(* of client requests, which the mutation gate admits one at a time, the    *)
(* task actor, which polls commands, refills its queue, claims a task and   *)
(* runs it, and the state they share (TaskActorOwner): the active task, the *)
(* maintenance phase and the emergency flag.                                *)
(*                                                                         *)
(* The gate holder waits for the answer to what it sends, so at most one    *)
(* message is under way: an engine control, received only where the engine  *)
(* listens, or an actor command, received only between two runs.            *)
(*                                                                         *)
(* The engine is abstracted to where a run listens for controls (TaskEngine *)
(* models what it journals); steering, compaction and configuration are one *)
(* kind, "steer".                                                           *)
(***************************************************************************)
EXTENDS Naturals, Sequences, SequencesExt

CONSTANTS
  Tasks,
  NoTask,
  Kinds,        \* the requests clients make, and "signal" for SIGTERM
  MaxRequests,  \* bound on requests, answers to a pending approval excepted
  WallBudget,   \* TRUE: every task has max_wall_time_seconds (default: none)
  Faults        \* "stop": the provider may fail to shut down; "outage": it may
                \* fail a run before the run listens to anybody

Mutations == {"cancel", "steer", "resume"}
AllKinds == Mutations \cup {"enqueue", "approve", "prepare", "shutdown", "signal"}

ASSUME TaskAssumption == IsFiniteSet(Tasks) /\ NoTask \notin Tasks
ASSUME KindAssumption == Kinds \subseteq AllKinds
ASSUME LimitAssumption == /\ MaxRequests \in Nat
                          /\ WallBudget \in BOOLEAN
                          /\ Faults \subseteq {"stop", "outage"}

VARIABLES
  life,         \* absent, ready (schedulable), blocked (settled, not terminal), done
  saved,        \* latest_checkpoint.is_some()
  active, phase, mTask, mSaved, mKey, emergency, target,   \* TaskActorOwner
  apc,          \* where the actor is
  mode,         \* where the run listens: busy (nowhere), drain, approval
  quiescing,    \* the running task was told to stop at its checkpoint
  scheduled,    \* the actor's queue
  providerDown, \* provider_shutdown
  hpc, req,     \* where the gate holder is, and its request
  wire, reply,  \* the message under way and its answer
  receipt,      \* the durable receipt of the client's PrepareMaintenance
  sent

owner == <<active, phase, mTask, mSaved, mKey, emergency, target>>
actor == <<apc, mode, quiescing, scheduled, providerDown>>
tasks == <<life, saved>>
handler == <<hpc, req, receipt>>
channel == <<wire, reply>>
serviceVars == <<owner, actor, tasks, handler, channel, sent>>

NoMessage == [channel |-> "none", kind |-> "none", task |-> NoTask]
Control(k, t) == [channel |-> "control", kind |-> k, task |-> t]
Command(k, t) == [channel |-> "command", kind |-> k, task |-> t]
Stop == Command("stop", NoTask)

StartsStopped == phase # "Running" \/ emergency
Listening == apc = "select" \/ (apc = "run" /\ mode \in {"drain", "approval"})
Serving == hpc # "over"

ServiceInit ==
  /\ life \in [Tasks -> {"absent", "ready"}]
  /\ saved \in {f \in [Tasks -> BOOLEAN] : \A t \in Tasks : f[t] => life[t] = "ready"}
  /\ active = NoTask
  /\ phase = "Running"
  /\ mTask = NoTask
  /\ mSaved = FALSE
  /\ mKey = FALSE
  /\ emergency = FALSE
  /\ target = NoTask
  /\ apc = "poll"
  /\ mode = "none"
  /\ quiescing = FALSE
  /\ scheduled \in SetToSeqs({t \in Tasks : life[t] = "ready"})
  /\ providerDown = FALSE
  /\ hpc = "free"
  /\ req = [kind |-> "none", task |-> NoTask]
  /\ wire = NoMessage
  /\ reply = "none"
  /\ receipt = "none"
  /\ sent = 0

-----------------------------------------------------------------------------
(* Handlers.  dispatch_request holds the gate from admission to answer, and  *)
(* has the command's receipt claimed and completed by the engine.            *)

\* Requests the phase rejects are answered at once and change nothing.
Admissible(k) ==
  CASE k = "prepare" -> receipt # "complete" /\ (phase = "Running" \/ mKey)
    [] k \in {"shutdown", "signal"} -> TRUE
    [] OTHER -> ~StartsStopped

Admit(k, t) ==
  /\ hpc = "free"
  /\ k \in Kinds
  /\ Admissible(k)
  /\ k = "enqueue" => life[t] = "absent"
  /\ k \in Mutations \cup {"approve"} => life[t] # "absent"
  /\ IF k = "approve" /\ mode = "approval" /\ active = t
     THEN UNCHANGED sent
     ELSE sent < MaxRequests /\ sent' = sent + 1
  /\ req' = [kind |-> k, task |-> t]
  /\ hpc' = IF k = "signal" THEN "execute" ELSE "claim"
  /\ UNCHANGED <<owner, actor, tasks, channel, receipt>>

Request ==
  \/ \E k \in Mutations \cup {"enqueue", "approve"}, t \in Tasks : Admit(k, t)
  \/ \E k \in {"prepare", "shutdown", "signal"} : Admit(k, NoTask)

\* The engine handled an owner control; an idle actor goes round its loop.
Received ==
  /\ Listening
  /\ apc' = IF apc = "select" THEN "poll" ELSE apc
  /\ UNCHANGED <<mode, quiescing, scheduled, providerDown>>

ClaimReceipt ==
  /\ hpc = "claim"
  /\ Received
  /\ hpc' = "execute"
  /\ receipt' = IF req.kind = "prepare" THEN "pending" ELSE receipt
  /\ UNCHANGED <<owner, tasks, channel, req, sent>>

CompleteReceipt ==
  /\ hpc = "complete"
  /\ Received
  /\ hpc' = IF req.kind = "shutdown" THEN "over" ELSE "free"
  /\ receipt' = IF req.kind = "prepare" THEN "complete" ELSE receipt
  /\ UNCHANGED <<owner, tasks, channel, req, sent>>

HandlerGoes(next) ==
  /\ hpc' = next
  /\ UNCHANGED <<owner, actor, tasks, channel, receipt, sent>>

Enqueue ==
  /\ hpc = "execute" /\ req.kind = "enqueue"
  /\ Received
  /\ life' = [life EXCEPT ![req.task] = "ready"]
  /\ hpc' = "complete"
  /\ UNCHANGED <<owner, saved, channel, req, receipt, sent>>

\* mutate_task and ResolveApproval decide on one read of the active task.
RouteMutation ==
  /\ hpc = "execute"
  /\ \/ /\ req.kind \in Mutations
        /\ HandlerGoes(CASE active = req.task /\ req.kind = "resume" -> "complete"
                         [] active = req.task /\ req.kind # "resume" -> "sendControl"
                         [] active = NoTask -> "sendCommand"
                         [] OTHER -> "free")
     \/ /\ req.kind = "approve"
        /\ HandlerGoes(IF active = req.task THEN "sendControl" ELSE "free")
  /\ UNCHANGED req

\* Mutant: the running task is not cancelled first.
PublishShutdownHasty ==
  /\ hpc = "execute" /\ req.kind = "shutdown"
  /\ emergency' = TRUE
  /\ target' = IF target = NoTask THEN active ELSE target
  /\ req' = [req EXCEPT !.task = target']
  /\ hpc' = "sendStop"
  /\ UNCHANGED <<active, phase, mTask, mSaved, mKey, actor, tasks, channel,
                 receipt, sent>>

\* publish_shutdown, under the lock that claim_start takes; a retry keeps the
\* target it saw first.
PublishShutdown ==
  /\ hpc = "execute" /\ req.kind = "shutdown"
  /\ emergency' = TRUE
  /\ target' = IF target = NoTask THEN active ELSE target
  /\ req' = [req EXCEPT !.task = target']
  /\ hpc' = IF target' = NoTask THEN "sendStop" ELSE "quiesce"
  /\ UNCHANGED <<active, phase, mTask, mSaved, mKey, actor, tasks, channel,
                 receipt, sent>>

\* quiesce_shutdown_task: cancel the task where it is, running or idle.
QuiesceShutdownTask ==
  /\ hpc \in {"quiesce", "recheck", "recheckIdle"}
  /\ HandlerGoes(CASE life[req.task] = "done" -> "sendStop"
                   [] life[req.task] # "done" /\ active = req.task /\ hpc = "quiesce" ->
                        "sendControl"
                   [] life[req.task] # "done" /\ active = NoTask /\ hpc # "recheckIdle" ->
                        "sendCommand"
                   [] OTHER -> "free")
  /\ UNCHANGED req

BeginMaintenance ==
  /\ hpc = "execute" /\ req.kind \in {"prepare", "signal"}
  /\ IF phase = "Running"
     THEN /\ phase' = IF active = NoTask THEN "Ready" ELSE "Draining"
          /\ mTask' = IF active = NoTask THEN mTask ELSE active
          /\ mSaved' = IF active = NoTask THEN mSaved ELSE FALSE
          /\ mKey' = (req.kind = "prepare")
     ELSE UNCHANGED <<phase, mTask, mSaved, mKey>>
  /\ req' = [req EXCEPT !.task = mTask']
  /\ hpc' = IF phase' = "Draining" THEN "sendControl" ELSE "sendStop"
  /\ UNCHANGED <<active, emergency, target, actor, tasks, channel, receipt, sent>>

SentKind == CASE req.kind = "shutdown" -> "cancel"
              [] req.kind \in {"prepare", "signal"} -> "quiesce"
              [] OTHER -> req.kind

Send ==
  /\ \/ /\ hpc = "sendControl"
        /\ wire' = Control(SentKind, req.task)
        /\ hpc' = "await"
     \/ /\ hpc = "sendCommand"
        /\ wire' = Command(SentKind, req.task)
        /\ hpc' = "awaitIdle"
     \/ /\ hpc = "sendStop"
        /\ wire' = Stop
        /\ hpc' = "awaitStop"
  /\ UNCHANGED <<owner, actor, tasks, reply, req, receipt, sent>>

\* The service came up short: a client gets an error and the gate is released,
\* a signal makes serve return and drop the actor.
HandlerFails ==
  /\ hpc' = IF req.kind = "signal" THEN "over" ELSE "free"
  /\ apc' = IF req.kind = "signal" THEN "gone" ELSE apc
  /\ mode' = IF req.kind = "signal" THEN "none" ELSE mode

HandlerSucceeds ==
  /\ hpc' = IF req.kind = "signal" THEN "waitReady" ELSE "complete"
  /\ UNCHANGED <<apc, mode>>

\* A failed Quiesce is forgiven when the task reached its checkpoint meanwhile.
QuiescedMeanwhile ==
  reply = "invalid" /\ phase = "Ready" /\ mTask = req.task

Answered ==
  /\ reply # "none"
  /\ reply' = "none"
  /\ \/ /\ hpc \in {"await", "awaitIdle"} /\ req.kind = "shutdown"
        /\ hpc' = IF hpc = "await" THEN "recheck" ELSE "recheckIdle"
        /\ UNCHANGED <<apc, mode>>
     \/ /\ hpc \in {"await", "awaitIdle"}
        /\ req.kind \in Mutations \cup {"approve"}
        /\ IF reply = "ok" THEN HandlerSucceeds ELSE HandlerFails
     \/ /\ hpc = "await" /\ req.kind \in {"prepare", "signal"}
        /\ IF reply = "ok" \/ QuiescedMeanwhile
           THEN HandlerSucceeds ELSE HandlerFails
     \/ /\ hpc = "awaitStop"
        /\ IF reply = "ok" THEN HandlerSucceeds ELSE HandlerFails
  /\ UNCHANGED <<owner, quiescing, scheduled, providerDown, tasks, wire,
                 req, receipt, sent>>

WaitReady ==
  /\ hpc = "waitReady"
  /\ phase = "Ready"
  /\ HandlerGoes("over")
  /\ UNCHANGED req

\* Both channels close when the actor ends: whoever waits is told Stopped.
ActorIsGone ==
  /\ apc = "gone" /\ reply = "none"
  /\ \/ /\ hpc \in {"await", "awaitIdle"} /\ req.kind = "shutdown"
        /\ hpc' = IF hpc = "await" THEN "recheck" ELSE "recheckIdle"
        /\ UNCHANGED <<apc, mode>>
     \/ /\ hpc \in {"await", "awaitIdle"} => req.kind # "shutdown"
        /\ \/ hpc = "execute" /\ req.kind = "enqueue"
           \/ hpc \in {"claim", "complete", "await", "awaitIdle", "awaitStop"}
        /\ HandlerFails
  /\ UNCHANGED <<owner, quiescing, scheduled, providerDown, tasks, channel,
                 req, receipt, sent>>

-----------------------------------------------------------------------------
(* The actor, between runs *)

ReplyWith(answer) == reply' = answer /\ wire' = NoMessage

\* handle_actor_command, from the top of the loop or from the final select.
HandleCancel ==
  /\ wire.kind = "cancel"
  /\ UNCHANGED <<saved, scheduled, providerDown>>
  /\ \/ /\ life[wire.task] = "done"
        /\ reply' \in {"ok", "invalid"}
        /\ UNCHANGED life
     \/ /\ life[wire.task] # "done"
        /\ \/ reply' = "ok" /\ life' = [life EXCEPT ![wire.task] = "done"]
           \/ reply' = "blocked" /\ life' = [life EXCEPT ![wire.task] = "blocked"]
           \/ reply' = "invalid" /\ UNCHANGED life

HandleResume ==
  /\ wire.kind \in {"resume", "steer"}
  /\ UNCHANGED <<tasks, providerDown>>
  /\ \/ /\ ~providerDown /\ ~StartsStopped /\ life[wire.task] # "done"
        /\ wire.kind = "steer" => life[wire.task] = "ready"
        /\ reply' = "ok"
        /\ scheduled' = Append(scheduled, wire.task)
     \/ /\ wire.kind = "steer"
        /\ reply' = "ok"
        /\ UNCHANGED scheduled
     \/ /\ providerDown \/ StartsStopped \/ life[wire.task] = "done"
           \/ wire.kind = "steer"
        /\ reply' = "invalid"
        /\ UNCHANGED scheduled

HandleStop ==
  /\ wire.kind = "stop"
  /\ UNCHANGED tasks
  /\ \/ /\ reply' = "ok"
        /\ providerDown' = TRUE
        /\ scheduled' = <<>>
     \/ /\ ~providerDown /\ "stop" \in Faults
        /\ reply' = "blocked"
        /\ UNCHANGED <<providerDown, scheduled>>

HandleActorCommand ==
  /\ apc \in {"poll", "select"}
  /\ wire.channel = "command"
  /\ HandleCancel \/ HandleResume \/ HandleStop
  /\ wire' = NoMessage
  /\ apc' = "poll"
  /\ UNCHANGED <<owner, mode, quiescing, handler, sent>>

\* Mutant: the control is dropped without an answer.
IdleControlDropped ==
  /\ apc = "select"
  /\ wire.channel = "control"
  /\ wire' = NoMessage
  /\ apc' = "poll"
  /\ UNCHANGED <<owner, mode, quiescing, scheduled, providerDown, tasks, handler,
                 reply, sent>>

\* receive_owner_control_while_idle: a task control finds nobody to control.
IdleControl ==
  /\ apc = "select"
  /\ wire.channel = "control"
  /\ ReplyWith("invalid")
  /\ apc' = "poll"
  /\ UNCHANGED <<owner, mode, quiescing, scheduled, providerDown, tasks, handler,
                 sent>>

PollEmpty ==
  /\ apc = "poll"
  /\ wire.channel # "command"
  /\ apc' = "refill"
  /\ UNCHANGED <<owner, mode, quiescing, scheduled, providerDown, tasks, handler,
                 channel, sent>>

Ready == {t \in Tasks : life[t] = "ready"}

\* Mutant: the refill takes one task only.
RefillOne == IF scheduled # <<>> THEN {scheduled}
             ELSE IF Ready = {} THEN {<<>>} ELSE {<<CHOOSE t \in Ready : TRUE>>}
Refills == IF scheduled # <<>> THEN {scheduled} ELSE SetToSeqs(Ready)

Refill ==
  /\ apc = "refill"
  /\ IF providerDown \/ StartsStopped
     THEN apc' = "select" /\ UNCHANGED scheduled
     ELSE /\ scheduled' \in Refills
          /\ apc' = IF scheduled' = <<>> THEN "select" ELSE "claim"
  /\ UNCHANGED <<owner, mode, quiescing, providerDown, tasks, handler, channel,
                 sent>>

\* Mutant: the claim does not look at the phase again.
ClaimBlindly ==
  /\ apc = "claim"
  /\ LET t == Head(scheduled)
     IN /\ active' = t
        /\ scheduled' = Tail(scheduled)
        /\ apc' = IF life[t] = "ready" THEN "run" ELSE "return"
        /\ mode' = IF life[t] = "ready" THEN "busy" ELSE "none"
  /\ UNCHANGED <<phase, mTask, mSaved, mKey, emergency, target, quiescing,
                 providerDown, tasks, handler, channel, sent>>

\* claim_start looks at the phase again, under the lock; run returns at once
\* for a task that is already settled.
ClaimStart ==
  /\ apc = "claim"
  /\ IF StartsStopped
     THEN apc' = "select" /\ UNCHANGED <<active, scheduled, mode>>
     ELSE LET t == Head(scheduled)
          IN /\ active' = t
             /\ scheduled' = Tail(scheduled)
             /\ apc' = IF life[t] = "ready" THEN "run" ELSE "return"
             /\ mode' = IF life[t] = "ready" THEN "busy" ELSE "none"
  /\ UNCHANGED <<phase, mTask, mSaved, mKey, emergency, target, quiescing,
                 providerDown, tasks, handler, channel, sent>>

\* Mutant: the comparison is made with the task already cleared.
DrainedAfterClear == phase = "Draining" /\ mTask = NoTask
Drained == phase = "Draining" /\ mTask = active

\* Mutant: a drained task counts as saved.
ClearActiveSaved ==
  /\ apc = "return"
  /\ active' = NoTask
  /\ quiescing' = FALSE
  /\ IF Drained
     THEN /\ phase' = "Ready"
          /\ mSaved' = TRUE
          /\ UNCHANGED mTask
          /\ apc' = "stopProvider"
     ELSE UNCHANGED <<phase, mSaved, mTask>> /\ apc' = "poll"
  /\ UNCHANGED <<mKey, emergency, target, mode, scheduled, providerDown, tasks,
                 handler, channel, sent>>

\* clear_active, and the end of the drain when this was the task drained.
ClearActive ==
  /\ apc = "return"
  /\ active' = NoTask
  /\ quiescing' = FALSE
  /\ IF Drained
     THEN /\ phase' = "Ready"
          /\ mSaved' = saved[active]
          /\ mTask' = IF saved[active] THEN mTask ELSE NoTask
          /\ apc' = "stopProvider"
     ELSE UNCHANGED <<phase, mSaved, mTask>> /\ apc' = "poll"
  /\ UNCHANGED <<mKey, emergency, target, mode, scheduled, providerDown, tasks,
                 handler, channel, sent>>

StopProvider ==
  /\ apc = "stopProvider"
  /\ \/ /\ providerDown' = TRUE
        /\ scheduled' = <<>>
        /\ apc' = "poll"
     \/ /\ "stop" \in Faults
        /\ apc' = "gone"
        /\ UNCHANGED <<providerDown, scheduled>>
  /\ UNCHANGED <<owner, mode, quiescing, tasks, handler, channel, sent>>

\* serve is over: its channels are dropped, and the idle actor returns.
ActorEnds ==
  /\ ~Serving
  /\ apc = "select"
  /\ apc' = "gone"
  /\ providerDown' = TRUE \/ UNCHANGED providerDown
  /\ UNCHANGED <<owner, mode, quiescing, scheduled, tasks, handler, channel, sent>>

-----------------------------------------------------------------------------
(* The run of the active task *)

Stays(next) ==
  /\ mode' = next
  /\ UNCHANGED <<apc, tasks>>

\* Mutant: the run still seems to listen after it returned.
ReturnsListening(outcome) ==
  /\ apc' = "return"
  /\ life' = [life EXCEPT ![active] = outcome]
  /\ UNCHANGED <<mode, saved>>

Returns(outcome) ==
  /\ apc' = "return"
  /\ mode' = "none"
  /\ life' = [life EXCEPT ![active] = outcome]
  /\ UNCHANGED saved

\* Provider and journal: reach the event loop, end an epoch at a committed
\* checkpoint, ask for an approval.
RunProceeds ==
  /\ apc = "run"
  /\ \/ mode = "busy" /\ mode' = "drain" /\ UNCHANGED saved
     \/ mode = "drain" /\ mode' = "approval" /\ UNCHANGED saved
     \/ /\ mode = "drain" /\ ~quiescing
        /\ mode' = "busy"
        /\ saved' = [saved EXCEPT ![active] = TRUE]
  /\ UNCHANGED <<owner, apc, quiescing, scheduled, providerDown, life, handler,
                 channel, sent>>

\* run returns: settled, out of epochs, quiesced at its checkpoint, or with an
\* error that leaves the task schedulable. A task resumed at a pending
\* checkpoint may be committed and settled before it ever listens.
RunReturns ==
  /\ apc = "run"
  /\ mode \in {"busy", "drain"}
  /\ apc' = "return"
  /\ mode' = "none"
  /\ \E outcome \in {"ready", "blocked", "done"}, commit \in BOOLEAN :
       /\ mode = "busy" /\ outcome = "ready" => "outage" \in Faults
       /\ life' = [life EXCEPT ![active] = outcome]
       /\ saved' = [saved EXCEPT ![active] = @ \/ commit]
  /\ UNCHANGED <<owner, quiescing, scheduled, providerDown, handler, channel, sent>>

\* The wall budget, where there is one, ends any wait of the run.
RunIsCut ==
  /\ apc = "run"
  /\ WallBudget
  /\ Returns("blocked")
  /\ UNCHANGED <<owner, quiescing, scheduled, providerDown, handler, channel, sent>>

Misdirected == wire.task # active

ControlWorking ==
  /\ apc = "run" /\ mode = "drain" /\ wire.channel = "control"
  /\ wire' = NoMessage
  /\ \/ \* another task's control, or an approval nobody awaits
        /\ Misdirected \/ wire.kind = "approve"
        /\ reply' = IF wire.kind = "approve" THEN "blocked" ELSE "invalid"
        /\ Returns("done")
        /\ UNCHANGED quiescing
     \/ /\ ~Misdirected /\ wire.kind = "cancel"
        /\ \/ reply' = "ok" /\ Returns("done")
           \/ reply' = "blocked" /\ Returns("blocked")
        /\ UNCHANGED quiescing
     \/ /\ ~Misdirected /\ wire.kind = "steer"
        /\ \/ reply' = "ok" /\ (Stays("drain") \/ Stays("busy") \/ Returns("blocked"))
           \/ reply' = "blocked" /\ Returns("done")
        /\ UNCHANGED quiescing
     \/ /\ ~Misdirected /\ wire.kind = "quiesce"
        /\ \/ reply' = "ok" /\ Stays("drain")
           \/ reply' = "blocked" /\ Returns("done")
        /\ quiescing' = TRUE
  /\ UNCHANGED <<owner, scheduled, providerDown, handler, sent>>

ControlAwaiting ==
  /\ apc = "run" /\ mode = "approval" /\ wire.channel = "control"
  /\ wire' = NoMessage
  /\ \/ /\ wire.kind = "approve"
        /\ \/ reply' = "ok" /\ (Stays("drain") \/ Returns("blocked"))
           \/ reply' = "blocked" /\ Returns("blocked")
        /\ UNCHANGED quiescing
     \/ /\ wire.kind = "cancel"
        /\ reply' = IF Misdirected THEN "invalid" ELSE "blocked"
        /\ Returns("blocked")
        /\ UNCHANGED quiescing
     \/ /\ wire.kind = "steer"
        /\ \/ reply' \in {"ok", "blocked"} /\ Stays("approval")
           \/ reply' = "blocked" /\ Returns("blocked")
        /\ UNCHANGED quiescing
     \/ /\ wire.kind = "quiesce"
        /\ \/ reply' = "ok" /\ Stays("approval")
           \/ reply' = "blocked" /\ Returns("blocked")
        /\ quiescing' = TRUE
  /\ UNCHANGED <<owner, scheduled, providerDown, handler, sent>>

-----------------------------------------------------------------------------
\* What waits until the engine listens.
ListenStep == ClaimReceipt \/ CompleteReceipt \/ Enqueue \/ ControlWorking
              \/ ControlAwaiting \/ IdleControl

HandlerStep ==
  \/ RouteMutation \/ PublishShutdown \/ QuiesceShutdownTask \/ BeginMaintenance
  \/ Send \/ Answered \/ WaitReady \/ ActorIsGone

ActorStep ==
  \/ HandleActorCommand \/ PollEmpty \/ Refill \/ ClaimStart \/ ClearActive
  \/ StopProvider \/ ActorEnds

ServiceNext ==
  \/ Request \/ ListenStep \/ HandlerStep \/ ActorStep
  \/ RunProceeds \/ RunReturns \/ RunIsCut

ServiceSpec == ServiceInit /\ [][ServiceNext]_serviceVars

\* The owner answers an approval whenever one is asked for.
AnswerApproval ==
  \E t \in Tasks : mode = "approval" /\ active = t /\ Admit("approve", t)

\* Handlers, the actor and the engine are tasks of one runtime that keep being
\* scheduled.  tokio::select! polls its branches in random order, so a control
\* is received if the engine listens again and again.  A run ends once the
\* provider has ended its epochs, or by its wall budget, and the owner answers
\* approvals.
ServiceFairness ==
  /\ SF_serviceVars(ListenStep)
  /\ WF_serviceVars(HandlerStep)
  /\ WF_serviceVars(ActorStep)
  /\ WF_serviceVars(RunProceeds)
  /\ WF_serviceVars(RunReturns)
  /\ WF_serviceVars(RunIsCut)
  /\ WF_serviceVars(AnswerApproval)

FairServiceSpec == ServiceSpec /\ ServiceFairness

-----------------------------------------------------------------------------
(* Properties *)

\* The shared owner state, the actor and the handler keep their types.
TasksOK ==
  /\ life \in [Tasks -> {"absent", "ready", "blocked", "done"}]
  /\ saved \in [Tasks -> BOOLEAN]
OwnerOK ==
  /\ active \in Tasks \cup {NoTask}
  /\ phase \in {"Running", "Draining", "Ready"}
  /\ mTask \in Tasks \cup {NoTask}
  /\ mSaved \in BOOLEAN
  /\ mKey \in BOOLEAN
  /\ emergency \in BOOLEAN
  /\ target \in Tasks \cup {NoTask}
ActorOK ==
  /\ apc \in {"poll", "refill", "claim", "run", "return", "stopProvider",
             "select", "gone"}
  /\ mode \in {"none", "busy", "drain", "approval"}
  /\ mode # "none" <=> apc = "run"
  /\ quiescing \in BOOLEAN
  /\ scheduled \in Seq(Tasks)
  /\ providerDown \in BOOLEAN
HandlerOK ==
  /\ hpc \in {"free", "claim", "execute", "quiesce", "recheck", "recheckIdle",
             "sendControl", "sendCommand", "sendStop", "await", "awaitIdle",
             "awaitStop", "waitReady", "complete", "over"}
  /\ req \in [kind : AllKinds \cup {"none"}, task : Tasks \cup {NoTask}]
  /\ wire \in [channel : {"none", "control", "command"},
              kind : AllKinds \cup {"none", "quiesce", "stop"},
              task : Tasks \cup {NoTask}]
  /\ reply \in {"none", "ok", "blocked", "invalid"}
  /\ receipt \in {"none", "pending", "complete"}
  /\ sent \in 0 .. MaxRequests
ServiceTypeOK == TasksOK /\ OwnerOK /\ ActorOK /\ HandlerOK

\* Shutdown and maintenance are linearised with every start: once either has
\* been published no task is claimed any more, whatever the actor had read.
NoStartAfterStop ==
  [][StartsStopped => active' \in {active, NoTask}]_serviceVars

\* A shutdown that is reported as done has stopped everything: the task that
\* was running is terminal, none is running, and the provider is down.
ShutdownIsComplete ==
  ~Serving /\ req.kind = "shutdown" =>
    /\ active = NoTask
    /\ providerDown
    /\ target # NoTask => life[target] = "done"

\* Maintenance is ready only when no task runs, and the task it names has the
\* checkpoint it announces.
ReadyIsDrained ==
  phase = "Ready" =>
    /\ active = NoTask
    /\ mTask # NoTask => mSaved /\ saved[mTask]
    /\ mSaved => mTask # NoTask

\* Every admitted request is answered, so the gate is always released.
GateIsReleased == hpc \notin {"free", "over"} ~> hpc \in {"free", "over"}

\* A drain ends: the maintenance that was asked for becomes ready, unless the
\* service itself ends with an error.
DrainEnds == phase = "Draining" ~> (phase = "Ready" \/ apc = "gone")

\* No schedulable task is starved by others that stay schedulable.
TasksGetTheirTurn ==
  \A t \in Tasks : life[t] = "ready" ~>
    (active = t \/ life[t] # "ready" \/ StartsStopped \/ apc = "gone")
=============================================================================
