---------------------------- MODULE DurablePrompt ----------------------------
(***************************************************************************)
(* begin_durable_prompt: the kernel actor runs a durable task for a prompt  *)
(* and serves the session's commands meanwhile.  The engine is a future     *)
(* that makes progress only while the pump polls it in its select; controls *)
(* go to it through a channel and come back as numbered acknowledgements,   *)
(* which carry the replies the callers wait for.                            *)
(***************************************************************************)
EXTENDS Naturals, Sequences, FiniteSets, SequencesExt

CONSTANTS
  First,        \* the prompt
  Others,       \* the calls of KernelHandle during it, in the order they are made
  NoCall,
  Kinds,        \* the other calls: "prompt", "cancel", "config", "approve", "shutdown"
  ControlCap,   \* COMMAND_CAPACITY of the control channel
  Existing,     \* the session's unfinished task: "none", or a "Queued" one
  MaxAsks,      \* bound: approvals the task asks for
  Eager,        \* whether calls may precede the task, or repeat an approval
  Unpublished   \* whether the final publication may fail

VARIABLES
  phase,       \* pump, send (blocked on a full channel), drain, done, aborted
  engine,      \* new (never polled), activating, running, awaiting, ended
  task,        \* durable status of the session's task
  call,        \* idle, sent, pending, ok, waiting (for approval), error, dropped
  kind,        \* kind of a call
  inbox,       \* commands of the session
  ctl, acks,   \* controls to the engine, its acknowledgements
  pend,        \* pending replies by acknowledgement
  current,     \* current_reply
  notice,      \* the request in the permission channel, or 0
  permission,  \* pending_permission, or 0
  asks,        \* approvals asked so far
  erased,      \* history: requests an acknowledgement of another one erased
  public, pendingCfg, taskCfg  \* configuration: session, its pending one, the task's

chanVars == <<inbox, ctl, acks, pend>>
cfgVars == <<public, pendingCfg, taskCfg>>
permVars == <<notice, permission, asks, erased>>
promptVars == <<phase, engine, task, call, kind, chanVars, current, permVars, cfgVars>>

Calls == {First} \cup ToSet(Others)
Base == "base"
\* active_durable_task_id: exactly one task of the session in one of these.
ActiveStatuses == {"Active", "Checkpointing", "Cancelling", "Completing"}
HasActiveTask == task \in ActiveStatuses
Approval(c) == kind[c] = "approve"

PromptInit ==
  /\ phase = "pump" /\ engine = "new"
  /\ task = Existing
  /\ call = [c \in Calls |-> IF c = First THEN "pending" ELSE "idle"]
  /\ kind = [c \in Calls |-> "first"]
  /\ inbox = <<>> /\ ctl = <<>> /\ acks = <<>> /\ pend = {}
  /\ current = First
  /\ notice = 0 /\ permission = 0 /\ asks = 0 /\ erased = {}
  /\ public = Base /\ pendingCfg = "none" /\ taskCfg = Base

Reply(f, c, value) == IF c = NoCall THEN f ELSE [f EXCEPT ![c] = value]

-----------------------------------------------------------------------------
(* Callers *)

\* KernelHandle: a careful caller waits for the task to run, and approves
\* once for each request that was shown to it.
Send(i, k) ==
  LET c == Others[i] IN
  /\ call[c] = "idle" /\ phase \in {"pump", "send"}
  /\ \A j \in 1..(i - 1) : call[Others[j]] # "idle"
  /\ \/ Eager
     \/ /\ HasActiveTask
        /\ k = "approve" => /\ permission # 0
                            /\ \A d \in Calls : Approval(d) => call[d] \notin {"sent", "pending"}
  /\ call' = [call EXCEPT ![c] = "sent"]
  /\ kind' = [kind EXCEPT ![c] = k]
  /\ inbox' = Append(inbox, c)
  /\ UNCHANGED <<phase, engine, task, ctl, acks, pend, current, permVars, cfgVars>>

-----------------------------------------------------------------------------
(* The pump *)

\* The ? of an error inside the loop drops the engine's run and every reply.
Abort(c) ==
  /\ phase' = "aborted" /\ engine' = "ended"
  /\ call' = [d \in Calls |-> IF d \in pend \cup {c, current} THEN "dropped" ELSE call[d]]
  /\ pend' = {} /\ current' = NoCall
  /\ UNCHANGED <<task, ctl, acks, permVars, public, taskCfg>>

\* Mutant: the reply is registered under the control that was sent before.
ToEngineUnregistered(c) ==
  /\ IF Len(ctl) < ControlCap
     THEN ctl' = Append(ctl, c) /\ phase' = "pump"
     ELSE phase' = "send" /\ UNCHANGED ctl
  /\ pend' = IF pend = {} THEN {c} ELSE pend
  /\ UNCHANGED <<engine, task, acks, permVars, public, taskCfg>>

\* control_sender.send: the pump does not poll the engine while it waits.
ToEngine(c) ==
  /\ IF Len(ctl) < ControlCap
     THEN ctl' = Append(ctl, c) /\ phase' = "pump"
     ELSE phase' = "send" /\ UNCHANGED ctl
  /\ pend' = pend \cup {c}
  /\ UNCHANGED <<engine, task, acks, permVars, public, taskCfg>>

\* An approval of the notice that is shown replaces the reply that waits.
CommandApprove(c) ==
  /\ permission # 0 /\ Approval(c)
  /\ call' = [Reply(call, current, "dropped") EXCEPT ![c] = "pending"]
  /\ current' = c
  /\ pendingCfg' = pendingCfg
  /\ ToEngine(c)

\* A prompt while a permission is pending, other than its approval.
CommandRefused(c) ==
  /\ permission # 0 /\ kind[c] = "prompt"
  /\ call' = [call EXCEPT ![c] = "error"]
  /\ UNCHANGED <<phase, engine, task, ctl, acks, pend, current, permVars, cfgVars>>

QueueConfiguration(c) == IF kind[c] = "config" THEN c ELSE pendingCfg

\* Prompt (as steering), Steer, Cancel, SetConfig and Shutdown.
CommandControl(c) ==
  /\ kind[c] \in {"cancel", "config", "shutdown"} \/ permission = 0
  /\ pendingCfg' = QueueConfiguration(c)
  /\ IF HasActiveTask
     THEN /\ call' = [call EXCEPT ![c] = "pending"]
          /\ UNCHANGED current
          /\ ToEngine(c)
     ELSE Abort(c)

\* An /approve with no notice pending is steering text like any other.
PumpCommand ==
  /\ phase = "pump" /\ inbox # <<>>
  /\ inbox' = Tail(inbox)
  /\ kind' = [kind EXCEPT ![Head(inbox)] = IF @ = "approve" /\ permission = 0 THEN "prompt" ELSE @]
  /\ LET c == Head(inbox) IN CommandApprove(c) \/ CommandRefused(c) \/ CommandControl(c)

\* synchronize_session_configuration_from_projection.
Synchronized == IF taskCfg # public THEN taskCfg ELSE "none"

\* complete_durable_reply: a cancellation that took effect is a success.
Completed(c, result) ==
  IF kind[c] \in {"cancel", "shutdown"} /\ result \in {"cancelled", "blocked"} THEN "ok"
  ELSE IF result = "ok" THEN "ok" ELSE "error"

\* Next::Acknowledged.
Acknowledged ==
  /\ phase = "pump" /\ pend # {} /\ acks # <<>>
  /\ acks' = Tail(acks)
  /\ LET c == Head(acks).call
         result == Head(acks).result
     IN /\ pend' = pend \ {c}
        /\ IF Approval(c)
           THEN IF result = "ok"
                THEN /\ permission' = 0
                     /\ erased' = erased \cup ({permission} \ {0, Head(acks).ask})
                     /\ UNCHANGED <<call, current, pendingCfg>>
                ELSE /\ call' = Reply(call, current, "error") /\ current' = NoCall
                     /\ UNCHANGED <<permission, erased, pendingCfg>>
           ELSE /\ call' = [call EXCEPT ![c] = Completed(c, result)]
                /\ pendingCfg' = IF kind[c] = "config" THEN Synchronized ELSE pendingCfg
                /\ UNCHANGED <<current, permission, erased>>
  /\ UNCHANGED <<phase, engine, task, kind, inbox, ctl, notice, asks, public, taskCfg>>

\* Next::Permission: the prompt returns, waiting for the approval.
Permission ==
  /\ phase = "pump" /\ notice # 0
  /\ notice' = 0 /\ permission' = notice
  /\ call' = Reply(call, current, "waiting") /\ current' = NoCall
  /\ UNCHANGED <<phase, engine, task, kind, chanVars, asks, erased, cfgVars>>

-----------------------------------------------------------------------------
(* The engine, as far as the pump sees it: one poll of its future *)

Polled == phase = "pump"
Ack(c, r) == acks' = Append(acks, [call |-> c, result |-> r, ask |-> asks])

\* start_in_context or activate_queued_task: until then the store shows no
\* active task.
EnginePoll ==
  /\ Polled
  /\ \/ engine = "new" /\ task = "Queued" /\ engine' = "activating" /\ UNCHANGED task
     \/ engine = "new" /\ task = "none" /\ engine' = "running" /\ task' = "Active"
     \/ engine = "activating" /\ engine' = "running" /\ task' = "Active"
  /\ UNCHANGED <<phase, call, kind, chanVars, current, permVars, cfgVars>>

EngineAsks ==
  /\ Polled /\ engine = "running" /\ notice = 0 /\ asks < MaxAsks
  /\ engine' = "awaiting" /\ notice' = asks + 1 /\ asks' = asks + 1
  /\ UNCHANGED <<phase, task, call, kind, chanVars, current, permission, erased, cfgVars>>

\* The future returns: the pump leaves its loop in the same poll.
Ends(status) ==
  /\ task' = status /\ engine' = "ended" /\ phase' = "drain"

EngineFinishes ==
  /\ Polled /\ engine = "running"
  /\ \E status \in {"Completed", "Blocked"} : Ends(status)
  /\ UNCHANGED <<call, kind, chanVars, current, permVars, cfgVars>>

\* A control in the event loop of a run: an approval no one asked for fails
\* the task, a change that tightens the permissions may block it.
RunControl(c) ==
  CASE kind[c] \in {"cancel", "shutdown"} ->
         Ends("Cancelled") /\ Ack(c, "cancelled") /\ UNCHANGED taskCfg
    [] kind[c] = "config" ->
         \/ /\ taskCfg' = c /\ Ack(c, "ok")
            /\ UNCHANGED <<task, engine, phase>>
         \/ Ends("Blocked") /\ Ack(c, "blocked") /\ UNCHANGED taskCfg
    [] kind[c] = "prompt" ->
         Ack(c, "ok") /\ UNCHANGED <<task, engine, phase, taskCfg>>
    [] kind[c] = "approve" ->
         Ends("Failed") /\ Ack(c, "error") /\ UNCHANGED taskCfg

\* The same controls while the engine waits for an approval.
AwaitingControl(c) ==
  CASE kind[c] \in {"cancel", "shutdown"} ->
         Ends("Cancelled") /\ Ack(c, "cancelled") /\ UNCHANGED taskCfg
    [] kind[c] = "config" ->
         \/ /\ taskCfg' = c /\ Ack(c, "ok")
            /\ UNCHANGED <<task, engine, phase>>
         \/ /\ taskCfg' \in {taskCfg, c} /\ Ends("Blocked")
            /\ Ack(c, IF taskCfg' = c THEN "ok" ELSE "blocked")
    [] kind[c] = "prompt" ->
         Ack(c, "blocked") /\ UNCHANGED <<task, engine, phase, taskCfg>>
    [] kind[c] = "approve" ->
         engine' = "running" /\ Ack(c, "ok") /\ UNCHANGED <<task, phase, taskCfg>>

EngineControl ==
  /\ Polled /\ ctl # <<>>
  /\ ctl' = Tail(ctl)
  /\ \/ engine = "running" /\ RunControl(Head(ctl))
     \/ engine = "awaiting" /\ AwaitingControl(Head(ctl))
  /\ UNCHANGED <<call, kind, inbox, pend, current, permVars, public, pendingCfg>>

-----------------------------------------------------------------------------
(* After the loop *)

AckedOf(c) == {i \in 1..Len(acks) : acks[i].call = c}
LastResult(c) == acks[CHOOSE i \in AckedOf(c) : TRUE].result
ApprovalFailed == \E c \in pend : Approval(c) /\ AckedOf(c) # {} /\ LastResult(c) # "ok"
DrainReply(c) ==
  IF c \in pend /\ ~Approval(c)
  THEN IF AckedOf(c) # {} THEN Completed(c, LastResult(c)) ELSE "error"
  ELSE call[c]

\* The acknowledgements left are delivered, the other replies refused, the
\* configuration taken from the task, the final text published (its failure
\* drops the reply) and the outcome sent.
Drain ==
  /\ phase = "drain"
  /\ LET replied == [c \in Calls |-> DrainReply(c)]
         left == IF ApprovalFailed THEN Reply(replied, current, "error") ELSE replied
         holder == IF ApprovalFailed THEN NoCall ELSE current
         cfg == IF \E c \in pend : kind[c] = "config" THEN Synchronized ELSE pendingCfg
     IN /\ public' = IF cfg = "none" THEN public ELSE cfg
        /\ pendingCfg' = "none"
        /\ \/ call' = Reply(left, holder, "ok") /\ phase' = "done"
           \/ Unpublished /\ call' = Reply(left, holder, "dropped") /\ phase' = "aborted"
  /\ current' = NoCall /\ pend' = {} /\ acks' = <<>>
  /\ UNCHANGED <<engine, task, kind, inbox, ctl, permVars, taskCfg>>

\* Commands that were still queued are served by the actor's main loop.
Late ==
  /\ phase \in {"done", "aborted"} /\ inbox # <<>>
  /\ inbox' = Tail(inbox)
  /\ \E value \in {"ok", "error"} : call' = [call EXCEPT ![Head(inbox)] = value]
  /\ UNCHANGED <<phase, engine, task, kind, ctl, acks, pend, current, permVars, cfgVars>>

PromptNext ==
  \/ \E i \in DOMAIN Others, k \in Kinds : Send(i, k)
  \/ PumpCommand \/ Acknowledged \/ Permission
  \/ EnginePoll \/ EngineAsks \/ EngineFinishes \/ EngineControl
  \/ Drain \/ Late

PromptSpec == PromptInit /\ [][PromptNext]_promptVars

\* select! polls its branches in random order, so none is left out forever;
\* the task itself need not end, so it is fair only up to its controls.
PromptFairSpec ==
  /\ PromptSpec
  /\ SF_promptVars(PumpCommand) /\ SF_promptVars(Acknowledged) /\ SF_promptVars(Permission)
  /\ WF_promptVars(EnginePoll) /\ SF_promptVars(EngineControl)
  /\ WF_promptVars(Drain) /\ WF_promptVars(Late)

-----------------------------------------------------------------------------
(* Properties *)

\* Type invariant of the pump and its channels.
PromptTypeOK ==
  /\ phase \in {"pump", "send", "drain", "done", "aborted"}
  /\ Len(ctl) <= ControlCap
  /\ pend \subseteq Calls /\ current \in Calls \cup {NoCall}
  /\ \A c \in pend : call[c] = "pending" \/ Approval(c)

\* The notice the pump checks approvals against is the one the engine waits
\* on, or its approval is on the way back: a later prompt is not refused for
\* a request that was decided.
PermissionIsCurrent ==
  phase = "pump" /\ permission # 0 =>
    \/ engine = "awaiting" /\ permission = asks
    \/ \E i \in 1..Len(acks) :
         Approval(acks[i].call) /\ acks[i].result = "ok" /\ acks[i].ask = permission

\* A request the engine waits on can be approved: it is shown, or about to be.
\* One way out is known: the acknowledgement of the approval before it is read
\* after its notice and erases it (pending_permission = None).
AwaitedIsApprovable ==
  phase = "pump" /\ engine = "awaiting" => asks \in {notice, permission} \cup erased

\* When the prompt is over the session is configured as its task is, also
\* when changes were queued, refused or left unanswered at the end.
ConfigurationAgrees == phase = "done" => public = taskCfg

\* The pump waits for room in the control channel, which only the engine
\* empties, and the engine is polled by nobody: nothing happens any more.
Wedged == phase = "send" /\ Len(ctl) = ControlCap

\* A caller that keeps to the protocol gets an answer while the kernel runs,
\* whatever the order of commands, acknowledgements and notices, unless the
\* prompt is given up or one control more than the channel holds was sent
\* before the engine took any; only the prompt itself may wait as long as the
\* task runs.
EveryCallAnswered ==
  <>[](\/ phase = "aborted" \/ Wedged
       \/ \A c \in Calls \ {First, current} : call[c] \notin {"sent", "pending"})
=============================================================================
