------------------------------ MODULE AcpFront ------------------------------
(***************************************************************************)
(* The stdio ACP server in front of an in-process kernel (acp/server.rs,   *)
(* AcpServer) and the command loop of the kernel actor (acp/kernel.rs).    *)
(*                                                                         *)
(* The server reads one frame at a time.  session/new, configuration and   *)
(* the Buzz context of a prompt are awaited in place; prompts, steering    *)
(* and cancellations are each handed to a spawned task that sends its      *)
(* command to the kernel in its own time.  All answers go through one      *)
(* bounded queue to the writer, and a frame that does not fit fails the    *)
(* output.  The client has initialized; the turn itself is abstract here   *)
(* (AcpKernel models it) and so are the task control requests              *)
(* (ControlReceipts).                                                      *)
(***************************************************************************)
EXTENDS Integers, Sequences, FiniteSets, SequencesExt

CONSTANTS
  Kinds,           \* the requests the client sends: "config", "prompt", "steer", "cancel"
  MaxFrames,       \* frames the client sends, below COMMAND_CAPACITY
  MaxUpdates,      \* updates one turn produces
  WriterCapacity,  \* WRITER_CAPACITY
  Buzz,            \* the frontend publishes to Buzz
  Faults           \* what may fail: "connect", "provider", "write"

VARIABLES
  server,     \* reading, awaiting (in place), shutdown, draining, stopped
  requests,   \* the frames read, in order, and what became of each
  queue,      \* the kernel's command channel
  closed,     \* the channel takes no more commands
  kernel,     \* the request whose turn is driven, 0 between turns
  waiting,    \* the sessions whose turn waits for an approval
  sessions,   \* the sessions the kernel knows
  bootstrap,  \* the publisher's configuration has not been taken yet
  publisher,  \* the kernel has a publisher
  steered,    \* the steering requests the provider received, in order
  outbound,   \* the writer's queue
  writer,     \* the writer task runs
  written,    \* what the client received, in order
  failed      \* output_failed

turnVars == <<kernel, waiting, steered>>
kernelVars == <<closed, turnVars, sessions, publisher>>
outVars == <<writer, outbound, written, failed>>
vars == <<server, requests, queue, kernelVars, bootstrap, outVars>>

Ids == 1..Len(requests)
Pcs == {"spawned", "sent", "ok", "error", "done"}
Ops == {"install", "new", "config", "attach", "prompt", "steer", "cancel", "shutdown"}
Command(op, f) == [op |-> op, from |-> f]
Latest == Len(requests)

\* A request of the given kind read now.
Read(kind, s, pc) ==
  requests' = Append(requests, [kind |-> kind, session |-> s, pc |-> pc,
                                 updates |-> 0, sent |-> 0])

Become(f, pc) == requests' = [requests EXCEPT ![f].pc = pc]

-----------------------------------------------------------------------------
(* The read loop of the server                                             *)

Reading == server = "reading" /\ Len(requests) < MaxFrames
ReadUnchanged == UNCHANGED <<kernelVars, outVars>>

\* new_session takes the publisher's configuration, connects, installs the
\* publisher and only then opens the session; the connection may fail.
NewSession ==
  /\ Reading
  /\ bootstrap' = FALSE
  /\ server' = "awaiting"
  /\ \/ /\ Buzz /\ bootstrap /\ "connect" \in Faults
        /\ Read("new", 0, "error") /\ UNCHANGED queue
     \/ /\ Read("new", 0, "sent")
        /\ queue' = Append(queue, Command(IF Buzz /\ bootstrap THEN "install" ELSE "new",
                                          Latest + 1))
  /\ ReadUnchanged

SetConfig(s) ==
  /\ Reading /\ "config" \in Kinds
  /\ Read("config", s, "sent")
  /\ server' = "awaiting"
  /\ queue' = Append(queue, Command("config", Latest + 1))
  /\ UNCHANGED bootstrap /\ ReadUnchanged

\* start_prompt: a Buzz prompt first attaches its context, in place.
StartPrompt(s) ==
  /\ Reading /\ "prompt" \in Kinds
  /\ \/ /\ Buzz
        /\ Read("prompt", s, "sent")
        /\ server' = "awaiting"
        /\ queue' = Append(queue, Command("attach", Latest + 1))
     \/ /\ ~Buzz
        /\ Read("prompt", s, "spawned")
        /\ UNCHANGED <<server, queue>>
  /\ UNCHANGED bootstrap /\ ReadUnchanged

\* start_steering and start_cancel spawn a task each.
StartControl(kind, s) ==
  /\ Reading /\ kind \in Kinds
  /\ Read(kind, s, "spawned")
  /\ UNCHANGED <<server, queue, bootstrap>> /\ ReadUnchanged

\* A spawned task sends its command; a closed channel is an error.
SendCommand(f) ==
  /\ requests[f].pc = "spawned"
  /\ \/ /\ closed
        /\ Become(f, "error") /\ UNCHANGED queue
     \/ /\ ~closed
        /\ Become(f, "sent")
        /\ queue' = Append(queue, Command(requests[f].kind, f))
  /\ UNCHANGED <<server, kernelVars, bootstrap, outVars>>

\* End of input, cancellation or failed output: the kernel is shut down.
StopReading ==
  /\ server = "reading"
  /\ server' = "shutdown"
  /\ queue' = Append(queue, Command("shutdown", 0))
  /\ UNCHANGED <<requests, kernelVars, bootstrap, outVars>>

-----------------------------------------------------------------------------
(* The kernel actor                                                        *)

Took == queue # <<>> /\ queue' = Tail(queue)
TurnUnchanged == UNCHANGED turnVars

\* The command loop between turns: a publisher is taken before any session, and
\* the server goes on to open its session.
InstallPublisher(f) ==
  /\ IF ~publisher /\ sessions = {}
       THEN /\ publisher' = TRUE
            /\ queue' = Append(Tail(queue), Command("new", f))
            /\ UNCHANGED requests
       ELSE /\ queue' = Tail(queue)
            /\ Become(f, "error") /\ UNCHANGED publisher
  /\ TurnUnchanged /\ UNCHANGED <<closed, sessions, server>>

OpenSession(f) ==
  /\ Took
  /\ \/ sessions' = sessions \cup {f} /\ Become(f, "ok")
     \/ "provider" \in Faults /\ Become(f, "error") /\ UNCHANGED sessions
  /\ TurnUnchanged /\ UNCHANGED <<closed, publisher, server>>

\* The context of a Buzz prompt is attached and its task spawned, or refused.
AttachContext(f) ==
  /\ Took
  /\ \/ Become(f, "spawned") /\ server' = "reading"
     \/ "provider" \in Faults /\ Become(f, "error") /\ UNCHANGED server
  /\ TurnUnchanged /\ UNCHANGED <<closed, sessions, publisher>>

Configure(f) ==
  /\ Took
  /\ Become(f, "ok") \/ ("provider" \in Faults /\ Become(f, "error"))
  /\ TurnUnchanged /\ UNCHANGED <<closed, sessions, publisher, server>>

\* begin_prompt: a session that waits for an approval takes only its decision.
BeginPrompt(f) ==
  /\ Took
  /\ \/ /\ kernel' = f /\ waiting' = waiting \ {requests[f].session}
        /\ UNCHANGED requests
     \/ /\ requests[f].session \in waiting \/ "provider" \in Faults
        /\ Become(f, "error") /\ UNCHANGED <<kernel, waiting>>
  /\ UNCHANGED <<steered, closed, sessions, publisher, server>>

\* steer_session refuses without a turn and while an approval is pending,
\* cancel_session only without a turn.
ControlIdle(f) ==
  /\ Took
  /\ LET pending == requests[f].session \in waiting
     IN /\ Become(f, IF pending /\ requests[f].kind = "cancel" THEN "ok" ELSE "error")
        /\ waiting' = IF requests[f].kind = "cancel"
                        THEN waiting \ {requests[f].session} ELSE waiting
  /\ UNCHANGED <<kernel, steered, closed, sessions, publisher, server>>

\* Shutdown between turns ends the actor: what is still queued is dropped and
\* its senders see the channel close.
ShutdownIdle ==
  /\ queue' = <<>> /\ closed' = TRUE
  /\ server' = "draining"
  /\ requests' = [f \in Ids |->
       IF \E i \in DOMAIN queue : queue[i].from = f
         THEN [requests[f] EXCEPT !.pc = "error"] ELSE requests[f]]
  /\ TurnUnchanged /\ UNCHANGED <<sessions, publisher>>

IdleCommand ==
  /\ kernel = 0 /\ queue # <<>>
  /\ LET op == Head(queue).op
         f  == Head(queue).from
     IN \/ op = "install" /\ InstallPublisher(f)
        \/ op = "new" /\ OpenSession(f)
        \/ op = "attach" /\ AttachContext(f)
        \/ op = "config" /\ Configure(f)
        \/ op = "prompt" /\ BeginPrompt(f)
        \/ op \in {"steer", "cancel"} /\ ControlIdle(f)
        \/ op = "shutdown" /\ ShutdownIdle
  /\ UNCHANGED <<bootstrap, outVars>>

\* What drive_turn makes of the provider: updates, an answer, a request for an
\* approval, or a failure, which loses the updates.
TurnUpdate ==
  /\ kernel # 0 /\ requests[kernel].updates < MaxUpdates
  /\ requests' = [requests EXCEPT ![kernel].updates = @ + 1]
  /\ UNCHANGED <<server, queue, kernelVars, bootstrap, outVars>>

TurnEnds ==
  /\ kernel # 0
  /\ kernel' = 0
  /\ \/ Become(kernel, "ok") /\ waiting' \in {waiting, waiting \cup {requests[kernel].session}}
     \/ /\ "provider" \in Faults /\ UNCHANGED waiting
        /\ requests' = [requests EXCEPT ![kernel].pc = "error", ![kernel].updates = 0]
  /\ UNCHANGED <<server, queue, steered, closed, sessions, publisher, bootstrap, outVars>>

\* A turn that finds the channel closed and drained stops with an error.
TurnStopped ==
  /\ kernel # 0 /\ closed /\ queue = <<>>
  /\ kernel' = 0
  /\ requests' = [requests EXCEPT ![kernel].pc = "error", ![kernel].updates = 0]
  /\ UNCHANGED <<server, queue, waiting, steered, closed, sessions, publisher,
                 bootstrap, outVars>>

CancelTurn(f) ==
  /\ \/ /\ kernel' = 0
        /\ requests' = [requests EXCEPT ![f].pc = "ok", ![kernel].pc = "ok"]
     \/ "provider" \in Faults /\ Become(f, "error") /\ UNCHANGED kernel
  /\ UNCHANGED <<server, closed, steered>>

SteerTurn(f) ==
  /\ \/ steered' = Append(steered, f) /\ Become(f, "ok")
     \/ "provider" \in Faults /\ Become(f, "error") /\ UNCHANGED steered
  /\ UNCHANGED <<server, closed, kernel>>

\* Shutdown during a turn cancels the turn and closes the channel; commands
\* already queued are still taken.
ShutdownTurn ==
  /\ server' = "draining" /\ closed' = TRUE
  /\ kernel' = 0 /\ Become(kernel, "ok")
  /\ UNCHANGED steered

\* reject_busy_command
Busy(f) == Become(f, "error") /\ UNCHANGED <<server, closed, kernel, steered>>

\* The commands drive_turn takes between two provider events.
TurnCommand ==
  /\ kernel # 0 /\ Took
  /\ LET op == Head(queue).op
         f  == Head(queue).from
         same == f # 0 /\ requests[f].session = requests[kernel].session
     IN \/ op = "cancel" /\ same /\ CancelTurn(f)
        \/ op = "steer" /\ same /\ SteerTurn(f)
        \/ op = "config" /\ same /\ Become(f, "ok") /\ UNCHANGED <<server, closed, kernel, steered>>
        \/ op = "shutdown" /\ ShutdownTurn
        \/ /\ op \in {"install", "new", "attach", "prompt"} \/ (~same /\ op # "shutdown")
           /\ Busy(f)
  /\ UNCHANGED <<waiting, sessions, publisher, bootstrap, outVars>>

-----------------------------------------------------------------------------
(* The output                                                              *)

Fits == writer /\ Len(outbound) < WriterCapacity
InPlace(f) == server = "awaiting" /\ f = Latest

\* The task of a prompt writes its updates one by one; enqueue fails the output
\* where one does not fit, and the task returns.
SendUpdate(f) ==
  /\ requests[f].pc = "ok" /\ requests[f].sent < requests[f].updates
  /\ \/ /\ Fits
        /\ outbound' = Append(outbound, <<"update", f>>)
        /\ requests' = [requests EXCEPT ![f].sent = @ + 1]
        /\ UNCHANGED failed
     \/ /\ ~Fits
        /\ failed' = TRUE /\ Become(f, "done") /\ UNCHANGED outbound
  /\ UNCHANGED <<server, queue, kernelVars, bootstrap, writer, written>>

\* Mutant: a request the kernel refused is dropped without a response.
QuietSendResponse(f) ==
  /\ requests[f].pc \in {"ok", "error"} /\ requests[f].kind # "cancel"
  /\ requests[f].sent = requests[f].updates
  /\ Become(f, "done")
  /\ server' = IF InPlace(f) THEN "reading" ELSE server
  /\ outbound' = IF Fits /\ requests[f].pc = "ok"
                   THEN Append(outbound, <<"response", f>>) ELSE outbound
  /\ failed' = (failed \/ ~Fits)
  /\ UNCHANGED <<queue, kernelVars, bootstrap, writer, written>>

\* The response comes last; where the read loop itself cannot enqueue one it
\* leaves its loop.
SendResponse(f) ==
  /\ requests[f].pc \in {"ok", "error"} /\ requests[f].kind # "cancel"
  /\ requests[f].sent = requests[f].updates
  /\ Become(f, "done")
  /\ \/ /\ Fits
        /\ outbound' = Append(outbound, <<"response", f>>)
        /\ server' = IF InPlace(f) THEN "reading" ELSE server
        /\ UNCHANGED <<failed, queue>>
     \/ /\ ~Fits
        /\ failed' = TRUE
        /\ server' = IF InPlace(f) THEN "shutdown" ELSE server
        /\ queue' = IF InPlace(f) THEN Append(queue, Command("shutdown", 0)) ELSE queue
        /\ UNCHANGED outbound
  /\ UNCHANGED <<kernelVars, bootstrap, writer, written>>

\* session/cancel is a notification: its result is dropped.
EndCancel(f) ==
  /\ requests[f].pc \in {"ok", "error"} /\ requests[f].kind = "cancel"
  /\ Become(f, "done")
  /\ UNCHANGED <<server, queue, kernelVars, bootstrap, outVars>>

OutputOnly == UNCHANGED <<server, requests, queue, kernelVars, bootstrap>>

\* writer_loop: a frame is written, also after the output failed when the write
\* is ready first.
Write ==
  /\ writer /\ outbound # <<>>
  /\ written' = Append(written, Head(outbound)) /\ outbound' = Tail(outbound)
  /\ UNCHANGED <<writer, failed>> /\ OutputOnly

WriterFails ==
  /\ writer /\ outbound # <<>>
  /\ failed \/ "write" \in Faults
  /\ writer' = FALSE /\ failed' = TRUE
  /\ UNCHANGED <<outbound, written>> /\ OutputOnly

\* The queue closes when the server and every task of a prompt or a steering
\* have dropped their senders.
WriterEnds ==
  /\ writer /\ outbound = <<>> /\ server = "draining"
  /\ \A f \in Ids : requests[f].kind # "cancel" => requests[f].pc = "done"
  /\ writer' = FALSE
  /\ UNCHANGED <<outbound, written, failed>> /\ OutputOnly

Stop ==
  /\ server = "draining" /\ ~writer
  /\ server' = "stopped"
  /\ UNCHANGED <<requests, queue, kernelVars, bootstrap, outVars>>

-----------------------------------------------------------------------------
Init ==
  /\ server = "reading" /\ requests = <<>>
  /\ queue = <<>> /\ closed = FALSE /\ kernel = 0 /\ waiting = {} /\ sessions = {}
  /\ bootstrap = Buzz /\ publisher = FALSE /\ steered = <<>>
  /\ writer = TRUE /\ outbound = <<>> /\ written = <<>> /\ failed = FALSE

\* The client names sessions whose session/new was answered.
Known == {f \in sessions : requests[f].pc = "done"}

Dispatch ==
  \/ NewSession
  \/ \E s \in Known :
       SetConfig(s) \/ StartPrompt(s) \/ StartControl("steer", s) \/ StartControl("cancel", s)

Kernel == IdleCommand \/ TurnCommand \/ TurnStopped
Task(f) == SendCommand(f) \/ SendUpdate(f) \/ SendResponse(f) \/ EndCancel(f)
Writer == Write \/ WriterFails \/ WriterEnds

Next ==
  \/ Dispatch \/ StopReading \/ Kernel \/ TurnUpdate \/ TurnEnds \/ Writer \/ Stop
  \/ \E f \in Ids : Task(f)

\* The runtime schedules the actor, the tasks, the writer and the server, and the
\* client reads what it is sent.  The client need not close its end and the
\* provider need not answer.
Fairness ==
  /\ WF_vars(Kernel) /\ WF_vars(Writer) /\ WF_vars(Stop)
  /\ \A f \in 1..MaxFrames : WF_vars(f \in Ids /\ Task(f))

Spec == Init /\ [][Next]_vars /\ Fairness

\* The same with a provider that ends its turns.
ProviderSpec == Spec /\ WF_vars(TurnEnds)
-----------------------------------------------------------------------------
(* Properties                                                              *)

\* Server, kernel and writer keep the shapes their types give them.
FrontTypeOK ==
  /\ server \in {"reading", "awaiting", "shutdown", "draining", "stopped"}
  /\ requests \in Seq([kind : Kinds \cup {"new"}, session : 0..MaxFrames, pc : Pcs,
                       updates : 0..MaxUpdates, sent : 0..MaxUpdates])
  /\ \A i \in DOMAIN queue : queue[i].op \in Ops /\ queue[i].from \in 0..Latest
  /\ kernel \in 0..Latest /\ waiting \subseteq sessions /\ sessions \subseteq Ids
  /\ Len(outbound) <= WriterCapacity
  /\ \A i \in DOMAIN queue : queue[i].from # 0 => requests[queue[i].from].pc = "sent"

\* A response reaches the client only after every update of its turn: nothing
\* is left out when the bounded queue overflows on the way.
NoGaps ==
  \A i \in DOMAIN written : written[i][1] = "response" =>
    LET f == written[i][2]
    IN Cardinality({j \in 1..(i - 1) : written[j] = <<"update", f>>}) = requests[f].updates

\* Every request read is answered in the end unless the output failed, also the
\* ones in flight when the input ends or queued behind the shutdown.
RequestsAnswered ==
  <>[](failed \/ \A f \in Ids : requests[f].kind # "cancel" =>
                    \E i \in DOMAIN written : written[i] = <<"response", f>>)

\* Once the server stops reading it stops, also when the provider never answers.
ServerStops == <>[](server \notin {"shutdown", "draining"})

=============================================================================
