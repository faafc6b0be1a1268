---------------------------- MODULE MCFrontEnds ----------------------------
(***************************************************************************)
(* The programs that answer somebody who waits, side by side: the ACP       *)
(* server, the pump of a durable prompt, the adapter that streams a task of *)
(* the owner process, and the supervisor of a child process.  They share no *)
(* state, so a behaviour takes steps of one of them only (part) and the run *)
(* explores their union.                                                    *)
(***************************************************************************)
EXTENDS Naturals

VARIABLES
  part,
  server, requests, queue, closed, kernel, waiting, sessions, bootstrap,    \* AcpFront
  publisher, steered, outbound, writer, written, failed,
  phase, engine, task, call, kind, inbox, ctl, acks, pend, current,         \* DurablePrompt
  notice, permission, asks, erased, public, pendingCfg, taskCfg,
  taskStatus, log, live, hub, awaited, overflow, observed, open, conn, loads,  \* ServiceAcp
  binding, handler, streams, prompts, out,
  pc, key, ack, resp, pending, abandoned, abandonments, overflowed,         \* Sidecar
  events, lines, notes, serverQ, activeServer, sup, lineWriter, reader,
  state, child, childKilled, received, replied, asked, stdout, cpc, cres, handle

\* A session and two more frames of any kind over a queue of one, with every fault.
Front == INSTANCE AcpFront WITH
  Kinds <- {"prompt", "config", "steer", "cancel"}, MaxFrames <- 3, MaxUpdates <- 1,
  WriterCapacity <- 1, Buzz <- TRUE, Faults <- {"connect", "provider", "write"}

\* A prompt, three more calls of any kind over a channel of two, two approvals.
Prompt == INSTANCE DurablePrompt WITH
  First <- "first", Others <- <<"c1", "c2", "c3">>, NoCall <- "none",
  Kinds <- {"prompt", "cancel", "config", "approve", "shutdown"}, ControlCap <- 2,
  Existing <- "none", MaxAsks <- 2, Eager <- FALSE, Unpublished <- TRUE

\* Two prompts, a reconnection that loads the session, and an approval that the
\* ring of one update drops or a snapshot after an overflow passes over.
Adapter == INSTANCE ServiceAcp WITH
  MaxTask <- 1, MaxLog <- 2, MaxLive <- 2, MaxPrompt <- 2, MaxConn <- 2, MaxLoad <- 1,
  MaxApproval <- 1, LiveCapacity <- 1, PageLimit <- 1, Ops <- {"approval", "load", "overflow"}

\* A request, two callers that cancel, a child that exits.
Sidecar == INSTANCE Sidecar WITH
  Calls <- {"r1"}, Keys <- {"k1"}, Cancels <- {"x1", "x2"}, ServerIds <- {},
  NoCall <- "none", MaxPending <- 1, MaxAbandoned <- 1,
  EventCap <- 1, WriterCap <- 1, NotifyCap <- 1, ReuseIds <- FALSE,
  Mishaps <- {"exit"},
  writer <- lineWriter, killed <- childKilled, answered <- replied

frontVars == <<server, requests, queue, closed, kernel, waiting, sessions, bootstrap,
               publisher, steered, outbound, writer, written, failed>>
promptVars == <<phase, engine, task, call, kind, inbox, ctl, acks, pend, current, notice,
                permission, asks, erased, public, pendingCfg, taskCfg>>
adapterVars == <<taskStatus, log, live, hub, awaited, overflow, observed, open, conn, loads,
                 binding, handler, streams, prompts, out>>
sidecarVars == <<pc, key, ack, resp, pending, abandoned, abandonments, overflowed, events,
                 lines, notes, serverQ, activeServer, sup, lineWriter, reader, state, child,
                 childKilled, received, replied, asked, stdout, cpc, cres, handle>>
vars == <<part, frontVars, promptVars, adapterVars, sidecarVars>>

Init ==
  /\ part \in {"front", "prompt", "adapter", "sidecar"}
  /\ Front!Init /\ Prompt!PromptInit /\ Adapter!AdapterInit /\ Sidecar!SidecarInit

Next ==
  \/ part = "front" /\ Front!Next /\ UNCHANGED <<part, promptVars, adapterVars, sidecarVars>>
  \/ part = "prompt" /\ Prompt!PromptNext /\ UNCHANGED <<part, frontVars, adapterVars, sidecarVars>>
  \/ part = "adapter" /\ Adapter!AdapterNext /\ UNCHANGED <<part, frontVars, promptVars, sidecarVars>>
  \/ part = "sidecar" /\ Sidecar!SidecarNext /\ UNCHANGED <<part, frontVars, promptVars, adapterVars>>

\* The fairness of each component (its module says what justifies it).  A part
\* that was not chosen stays in its initial state: no fair action of Front and
\* Adapter is enabled there, the others are fair only where they were chosen.
Fairness ==
  /\ Front!Fairness /\ WF_frontVars(Front!TurnEnds)
  /\ Adapter!AdapterFairness
  /\ SF_promptVars(part = "prompt" /\ Prompt!PumpCommand)
  /\ SF_promptVars(part = "prompt" /\ Prompt!Acknowledged)
  /\ SF_promptVars(part = "prompt" /\ Prompt!Permission)
  /\ WF_promptVars(part = "prompt" /\ Prompt!EnginePoll)
  /\ SF_promptVars(part = "prompt" /\ Prompt!EngineControl)
  /\ WF_promptVars(part = "prompt" /\ (Prompt!Drain \/ Prompt!Late))
  /\ WF_sidecarVars(part = "sidecar" /\ Sidecar!SupervisorStep)
  /\ WF_sidecarVars(part = "sidecar" /\ Sidecar!ReaderStep)
  /\ SF_sidecarVars(part = "sidecar" /\ Sidecar!CallerStep("r1"))
  /\ \A x \in {"x1", "x2"} :
       SF_sidecarVars(part = "sidecar" /\ cpc[x] # "idle" /\ Sidecar!CancelStep(x))

Spec == Init /\ [][Next]_vars /\ Fairness

-----------------------------------------------------------------------------
\* Every request the server reads is answered unless the output failed, with
\* every update of its turn before the response, and a server that stops
\* reading stops (run_server, send_update, shutdown).
RequestsAnswered ==
  /\ [](Front!FrontTypeOK /\ Front!NoGaps)
  /\ Front!RequestsAnswered
  /\ Front!ServerStops

\* Every call made during a prompt is answered unless the prompt is given up or
\* the pump waits for room in the full control channel; the notice the pump shows
\* is the one the engine waits on, a request the engine waits on can be approved
\* unless the acknowledgement of the one before erased it, and the session ends
\* configured as its task (begin_durable_prompt).
CallsAnswered ==
  /\ [](/\ Prompt!PromptTypeOK /\ Prompt!PermissionIsCurrent /\ Prompt!AwaitedIsApprovable
        /\ Prompt!ConfigurationAgrees)
  /\ Prompt!EveryCallAnswered

\* Every prompt the adapter takes is answered, and an approval the engine waits
\* for reaches the client of a running stream also when the ring dropped it; one
\* stream at a time tells the client the events of its task, in order, none
\* twice and none passed over by the stored cursor (poll_service_task,
\* replay_service_task).
PromptAnswered ==
  /\ []Adapter!EventsOnce
  /\ Adapter!PromptAnswered
  /\ Adapter!ApprovalSurfaces

\* Once the sidecar stopped no request waits, cancel returns whoever else
\* cancels, and the child is killed (cancel, run_supervisor, fail_all).
StopWakesEveryRequest ==
  /\ []Sidecar!ChildIsKilled
  /\ Sidecar!StopWakesEveryRequest
  /\ Sidecar!CancelReturns
=============================================================================
