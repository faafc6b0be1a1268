-------------------------- MODULE TaskServiceProofs --------------------------
(***************************************************************************)
(* Safety of the owner process for every finite set of tasks and every      *)
(* number and kind of requests: starts are linearised with shutdown and     *)
(* maintenance, and what these announce is true.                            *)
(***************************************************************************)
EXTENDS TaskService, FiniteSetTheorems, SequenceTheorems, TLAPS

-----------------------------------------------------------------------------
(* The inductive invariant *)

\* Where the actor is between runs no task is active; where it runs one, the
\* task is schedulable until the run returns.
ActorInv ==
  /\ apc \in {"poll", "refill", "claim", "stopProvider", "select"} => active = NoTask
  /\ apc \in {"run", "return"} => active \in Tasks
  /\ apc = "run" => life[active] = "ready"
  /\ apc = "claim" => scheduled # <<>>

\* The task of a maintenance: none before it, the active one while it drains,
\* and one with a checkpoint afterwards.
PhaseInv ==
  /\ phase = "Running" => mTask = NoTask /\ ~mSaved
  /\ phase = "Draining" => active = mTask /\ mTask \in Tasks /\ ~mSaved
  /\ ReadyIsDrained

\* A published shutdown admits no task but the one it saw.
EmergencyInv ==
  /\ ~emergency => target = NoTask
  /\ emergency => active \in {NoTask, target}

Awaits == {"await", "awaitIdle", "awaitStop"}

\* One message at a time: it is under way only while the gate holder waits for
\* it, unless the actor is gone, and its answer replaces it.  A mutation names
\* a task.
MessageInv ==
  /\ wire.channel # "none" => hpc \in Awaits \/ apc = "gone"
  /\ reply # "none" => hpc \in Awaits /\ wire.channel = "none"
  /\ hpc = "awaitStop" => wire = Stop \/ wire.channel = "none"
  /\ req.kind \in Mutations => req.task \in Tasks
  /\ wire.kind \in Mutations \ {"cancel"} => wire.task \in Tasks

\* What a shutdown has achieved at each of its points.
ShutdownInv ==
  /\ hpc = "waitReady" => req.kind = "signal"
  /\ req.kind = "shutdown" =>
       /\ hpc \notin {"free", "claim", "execute"} => emergency /\ req.task = target
       /\ hpc \in {"sendStop", "awaitStop", "complete", "over"} =>
            (target # NoTask => life[target] = "done")
       /\ hpc \in {"complete", "over"} \/ (hpc = "awaitStop" /\ reply = "ok") =>
            providerDown /\ active = NoTask

ServiceInv ==
  ServiceTypeOK /\ ActorInv /\ PhaseInv /\ EmergencyInv /\ MessageInv /\ ShutdownInv

-----------------------------------------------------------------------------
\* The refill and the initial queue list tasks.
LEMMA SeqsOfTasks ==
  ASSUME NEW S \in SUBSET Tasks
  PROVE  SetToSeqs(S) \subseteq Seq(Tasks)
<1>1. Cardinality(S) \in Nat
  BY TaskAssumption, FS_Subset, FS_CardinalityType
<1>2. \A f \in [1 .. Cardinality(S) -> S] : f \in Seq(S)
  BY <1>1
<1>3. Seq(S) \subseteq Seq(Tasks)
  OBVIOUS
<1>4. QED
  BY <1>2, <1>3 DEF SetToSeqs

(* A service that has just started, with any sequence of scheduled tasks,   *)
(* satisfies the invariant.                                                *)
LEMMA InitServiceInv == ServiceInit => ServiceInv
<1> SUFFICES ASSUME ServiceInit PROVE ServiceInv
  OBVIOUS
<1> USE TaskAssumption, LimitAssumption DEF ServiceInit
<1>1. TasksOK /\ OwnerOK
  <2>1. life \in [Tasks -> {"absent", "ready", "blocked", "done"}]
    OBVIOUS
  <2>2. saved \in [Tasks -> BOOLEAN]
    OBVIOUS
  <2>3. QED
    BY <2>1, <2>2 DEF TasksOK, OwnerOK
<1>2. ActorOK
  BY SeqsOfTasks DEF ActorOK
<1>3. HandlerOK
  BY DEF HandlerOK, NoMessage
<1>4. ActorInv /\ PhaseInv /\ EmergencyInv
  BY DEF ActorInv, PhaseInv, ReadyIsDrained, EmergencyInv
<1>5. MessageInv /\ ShutdownInv
  BY DEF MessageInv, ShutdownInv, NoMessage, Awaits, Mutations
<1>6. QED
  BY <1>1, <1>2, <1>3, <1>4, <1>5 DEF ServiceInv, ServiceTypeOK

-----------------------------------------------------------------------------
(* Every step preserves every part *)

\* Only the run, an idle cancellation and an enqueue change a task.
LEMMA TasksStep == ServiceInv /\ [ServiceNext]_serviceVars => TasksOK'
<1> SUFFICES ASSUME ServiceInv, [ServiceNext]_serviceVars PROVE TasksOK'
  OBVIOUS
<1> USE DEF owner, actor, tasks, handler, channel, ServiceInv, ServiceTypeOK,
        TasksOK, ActorInv, OwnerOK
<1>1. CASE Enqueue
  BY <1>1 DEF Enqueue, Received
<1>2. CASE ControlWorking
  BY <1>2 DEF ControlWorking, Returns, Stays, Misdirected, NoMessage
<1>3. CASE ControlAwaiting
  BY <1>3 DEF ControlAwaiting, Returns, Stays, Misdirected, NoMessage
<1>4. CASE HandleActorCommand
  BY <1>4 DEF HandleActorCommand, HandleCancel, HandleResume, HandleStop,
      NoMessage, Mutations
<1>5. CASE RunProceeds
  BY <1>5 DEF RunProceeds
<1>6. CASE RunReturns
  BY <1>6 DEF RunReturns
<1>7. CASE RunIsCut
  BY <1>7 DEF RunIsCut, Returns
<1>8. CASE \/ Request \/ ClaimReceipt \/ CompleteReceipt \/ IdleControl \/
              RouteMutation \/ PublishShutdown
  BY <1>8 DEF Request, Admit, Mutations, AllKinds, ClaimReceipt, Received,
      CompleteReceipt, IdleControl, ReplyWith, NoMessage, RouteMutation,
      HandlerGoes, PublishShutdown
<1>9. CASE \/ QuiesceShutdownTask \/ BeginMaintenance \/ Send \/ Answered \/
              WaitReady \/ ActorIsGone
  BY <1>9 DEF QuiesceShutdownTask, HandlerGoes, BeginMaintenance, Send,
      Control, Command, Stop, SentKind, Mutations, AllKinds, Answered,
      HandlerSucceeds, HandlerFails, WaitReady, ActorIsGone
<1>10. CASE \/ PollEmpty \/ Refill \/ ClaimStart \/ ClearActive \/
               StopProvider \/ ActorEnds
  BY <1>10 DEF PollEmpty, Refill, Refills, Ready, ClaimStart, StartsStopped,
      ClearActive, Drained, StopProvider, ActorEnds
<1>11. CASE UNCHANGED serviceVars
  BY <1>11 DEF serviceVars
<1>12. QED
  BY <1>1, <1>2, <1>3, <1>4, <1>5, <1>6, <1>7, <1>8, <1>9, <1>10, <1>11
    DEF ServiceNext, ListenStep, HandlerStep, ActorStep

\* The owner's state is changed by claims, their end, shutdown and maintenance.
LEMMA OwnerStep == ServiceInv /\ [ServiceNext]_serviceVars => OwnerOK'
<1> SUFFICES ASSUME ServiceInv, [ServiceNext]_serviceVars PROVE OwnerOK'
  OBVIOUS
<1> USE TaskAssumption DEF owner, actor, tasks, handler, channel, ServiceInv,
        ServiceTypeOK, OwnerOK
<1>1. CASE PublishShutdown
  BY <1>1 DEF PublishShutdown
<1>2. CASE BeginMaintenance
  BY <1>2 DEF BeginMaintenance
<1>3. CASE ClaimStart
  BY <1>3, HeadTailProperties DEF ClaimStart, StartsStopped, ActorInv, ActorOK
<1>4. CASE ClearActive
  BY <1>4 DEF ClearActive, Drained, ActorInv, TasksOK
<1>5. CASE \/ Request \/ ClaimReceipt \/ CompleteReceipt \/ Enqueue \/
              ControlWorking \/ ControlAwaiting \/ IdleControl \/
              RouteMutation
  BY <1>5 DEF Request, Admit, ClaimReceipt, CompleteReceipt, Enqueue,
      ControlWorking, ControlAwaiting, IdleControl, RouteMutation, HandlerGoes
<1>6. CASE \/ QuiesceShutdownTask \/ Send \/ Answered \/ WaitReady \/
              ActorIsGone \/ HandleActorCommand \/ PollEmpty \/ Refill
  BY <1>6 DEF QuiesceShutdownTask, HandlerGoes, Send, Answered, WaitReady,
      ActorIsGone, HandleActorCommand, PollEmpty, Refill
<1>7. CASE \/ StopProvider \/ ActorEnds \/ RunProceeds \/ RunReturns \/
              RunIsCut
  BY <1>7 DEF StopProvider, ActorEnds, RunProceeds, RunReturns, RunIsCut
<1>8. CASE UNCHANGED serviceVars
  BY <1>8 DEF serviceVars
<1>9. QED
  BY <1>1, <1>2, <1>3, <1>4, <1>5, <1>6, <1>7, <1>8
    DEF ServiceNext, ListenStep, HandlerStep, ActorStep

\* The actor's queue only ever holds tasks.
LEMMA ActorTypeStep == ServiceInv /\ [ServiceNext]_serviceVars => ActorOK'
<1> SUFFICES ASSUME ServiceInv, [ServiceNext]_serviceVars PROVE ActorOK'
  OBVIOUS
<1> USE DEF owner, actor, tasks, handler, channel, ServiceInv, ServiceTypeOK,
        ActorOK
<1>1. CASE HandleActorCommand
  <2>1. scheduled' \in Seq(Tasks)
    <3>1. CASE HandleCancel
      BY <3>1 DEF HandleCancel
    <3>2. CASE HandleResume
      <4>1. wire.task \in Tasks
        BY <3>2 DEF HandleResume, MessageInv, Mutations
      <4>2. Append(scheduled, wire.task) \in Seq(Tasks)
        BY <4>1, AppendProperties
      <4>3. QED
        BY <3>2, <4>2 DEF HandleResume
    <3>3. CASE HandleStop
      BY <3>3, EmptySeq DEF HandleStop
    <3>4. QED
      BY <1>1, <3>1, <3>2, <3>3 DEF HandleActorCommand
  <2>2. providerDown' \in BOOLEAN
    BY <1>1 DEF HandleActorCommand, HandleCancel, HandleResume, HandleStop
  <2>3. QED
    BY <1>1, <2>1, <2>2 DEF HandleActorCommand
<1>2. CASE Refill
  BY <1>2, SeqsOfTasks DEF Refill, Refills, Ready
<1>3. CASE ClaimStart
  BY <1>3, HeadTailProperties DEF ClaimStart, StartsStopped, ActorInv
<1>4. CASE StopProvider
  BY <1>4, EmptySeq DEF StopProvider
<1>5. CASE ControlWorking
  BY <1>5 DEF ControlWorking, Returns, Stays, Misdirected, NoMessage
<1>6. CASE ControlAwaiting
  BY <1>6 DEF ControlAwaiting, Returns, Stays, Misdirected, NoMessage
<1>7. CASE Answered
  BY <1>7 DEF Answered, HandlerSucceeds, HandlerFails, Mutations
<1>8. CASE \/ Request \/ ClaimReceipt \/ CompleteReceipt \/ Enqueue \/
              IdleControl
  BY <1>8 DEF Request, Admit, Mutations, AllKinds, ClaimReceipt, Received,
      CompleteReceipt, Enqueue, IdleControl, ReplyWith, NoMessage
<1>9. CASE \/ RouteMutation \/ PublishShutdown \/ QuiesceShutdownTask \/
              BeginMaintenance \/ Send
  BY <1>9 DEF RouteMutation, HandlerGoes, Mutations, PublishShutdown,
      QuiesceShutdownTask, BeginMaintenance, Send, Control, Command, Stop,
      SentKind, AllKinds
<1>10. CASE \/ WaitReady \/ ActorIsGone \/ PollEmpty \/ ClearActive \/
               ActorEnds
  BY <1>10 DEF WaitReady, HandlerGoes, ActorIsGone, HandlerFails, PollEmpty,
      ClearActive, Drained, ActorEnds
<1>11. CASE \/ RunProceeds \/ RunReturns \/ RunIsCut
  BY <1>11 DEF RunProceeds, RunReturns, RunIsCut, Returns
<1>12. CASE UNCHANGED serviceVars
  BY <1>12 DEF serviceVars
<1>13. QED
  BY <1>1, <1>2, <1>3, <1>4, <1>5, <1>6, <1>7, <1>8, <1>9, <1>10, <1>11, <1>12
    DEF ServiceNext, ListenStep, HandlerStep, ActorStep

\* Handlers go from one named point to the next.
LEMMA HandlerTypeStep == ServiceInv /\ [ServiceNext]_serviceVars => HandlerOK'
<1> SUFFICES ASSUME ServiceInv, [ServiceNext]_serviceVars PROVE HandlerOK'
  OBVIOUS
<1> USE TaskAssumption, LimitAssumption DEF owner, actor, tasks, handler,
        channel, ServiceInv, ServiceTypeOK, HandlerOK
<1>1. CASE Request
  BY <1>1 DEF Request, Admit, Mutations, AllKinds
<1>2. CASE Enqueue
  BY <1>2 DEF Enqueue, Received
<1>3. CASE ControlWorking
  BY <1>3 DEF ControlWorking, Returns, Stays, Misdirected, NoMessage
<1>4. CASE ControlAwaiting
  BY <1>4 DEF ControlAwaiting, Returns, Stays, Misdirected, NoMessage
<1>5. CASE BeginMaintenance
  BY <1>5 DEF BeginMaintenance, OwnerOK
<1>6. CASE PublishShutdown
  BY <1>6 DEF PublishShutdown, OwnerOK
<1>7. CASE Send
  BY <1>7 DEF Send, Control, Command, Stop, SentKind, Mutations, AllKinds
<1>8. CASE Answered
  BY <1>8 DEF Answered, HandlerSucceeds, HandlerFails, Mutations
<1>9. CASE HandleActorCommand
  BY <1>9 DEF HandleActorCommand, HandleCancel, HandleResume, HandleStop,
      NoMessage, Mutations
<1>10. CASE \/ ClaimReceipt \/ CompleteReceipt \/ IdleControl \/
               RouteMutation \/ QuiesceShutdownTask
  BY <1>10 DEF ClaimReceipt, Received, CompleteReceipt, IdleControl,
      ReplyWith, NoMessage, RouteMutation, HandlerGoes, Mutations,
      QuiesceShutdownTask
<1>11. CASE \/ WaitReady \/ ActorIsGone \/ PollEmpty \/ Refill \/ ClaimStart
  BY <1>11 DEF WaitReady, HandlerGoes, ActorIsGone, HandlerFails, PollEmpty,
      Refill, Refills, Ready, ClaimStart, StartsStopped
<1>12. CASE \/ ClearActive \/ StopProvider \/ ActorEnds \/ RunProceeds \/
               RunReturns
  BY <1>12 DEF ClearActive, Drained, StopProvider, ActorEnds, RunProceeds,
      RunReturns
<1>13. CASE \/ RunIsCut
  BY <1>13 DEF RunIsCut, Returns
<1>14. CASE UNCHANGED serviceVars
  BY <1>14 DEF serviceVars
<1>15. QED
  BY <1>1, <1>2, <1>3, <1>4, <1>5, <1>6, <1>7, <1>8, <1>9, <1>10, <1>11,
     <1>12, <1>13, <1>14
    DEF ServiceNext, ListenStep, HandlerStep, ActorStep

\* No task is active between runs.
LEMMA ActorInvStep == ServiceInv /\ [ServiceNext]_serviceVars => ActorInv'
<1> SUFFICES ASSUME ServiceInv, [ServiceNext]_serviceVars PROVE ActorInv'
  OBVIOUS
<1> USE TaskAssumption DEF owner, actor, tasks, handler, channel, ServiceInv,
        ServiceTypeOK, TasksOK, OwnerOK, ActorOK, HandlerOK, ActorInv
<1>1. CASE Enqueue
  BY <1>1 DEF Enqueue, Received
<1>2. CASE HandleActorCommand
  BY <1>2 DEF HandleActorCommand, HandleCancel, HandleResume, HandleStop,
      NoMessage, Mutations
<1>3. CASE Refill
  BY <1>3 DEF Refill, Refills, Ready
<1>4. CASE ClaimStart
  BY <1>4 DEF ClaimStart, StartsStopped
<1>5. CASE ClearActive
  BY <1>5 DEF ClearActive, Drained
<1>6. CASE RunProceeds
  BY <1>6 DEF RunProceeds
<1>7. CASE RunReturns
  BY <1>7 DEF RunReturns
<1>8. CASE \/ Request \/ ClaimReceipt \/ CompleteReceipt \/ ControlWorking \/
              ControlAwaiting
  BY <1>8 DEF Request, Admit, Mutations, AllKinds, ClaimReceipt, Received,
      CompleteReceipt, ControlWorking, Returns, Stays, Misdirected, NoMessage,
      ControlAwaiting
<1>9. CASE \/ IdleControl \/ RouteMutation \/ PublishShutdown \/
              QuiesceShutdownTask \/ BeginMaintenance
  BY <1>9 DEF IdleControl, ReplyWith, NoMessage, RouteMutation, HandlerGoes,
      Mutations, PublishShutdown, QuiesceShutdownTask, BeginMaintenance
<1>10. CASE \/ Send \/ Answered \/ WaitReady \/ ActorIsGone \/ PollEmpty
  BY <1>10 DEF Send, Control, Command, Stop, SentKind, Mutations, AllKinds,
      Answered, HandlerSucceeds, HandlerFails, WaitReady, HandlerGoes,
      ActorIsGone, PollEmpty
<1>11. CASE \/ StopProvider \/ ActorEnds \/ RunIsCut
  BY <1>11 DEF StopProvider, ActorEnds, RunIsCut, Returns
<1>12. CASE UNCHANGED serviceVars
  BY <1>12 DEF serviceVars
<1>13. QED
  BY <1>1, <1>2, <1>3, <1>4, <1>5, <1>6, <1>7, <1>8, <1>9, <1>10, <1>11, <1>12
    DEF ServiceNext, ListenStep, HandlerStep, ActorStep

\* Maintenance names the task it drains.
LEMMA PhaseInvStep == ServiceInv /\ [ServiceNext]_serviceVars => PhaseInv'
<1> SUFFICES ASSUME ServiceInv, [ServiceNext]_serviceVars PROVE PhaseInv'
  OBVIOUS
<1> USE TaskAssumption DEF owner, actor, tasks, handler, channel, ServiceInv,
        ServiceTypeOK, TasksOK, OwnerOK, ActorOK, HandlerOK, ActorInv,
        PhaseInv, ReadyIsDrained
<1>1. CASE BeginMaintenance
  BY <1>1 DEF BeginMaintenance
<1>2. CASE ClaimStart
  BY <1>2 DEF ClaimStart, StartsStopped
<1>3. CASE ClearActive
  BY <1>3 DEF ClearActive, Drained
<1>4. CASE RunProceeds
  BY <1>4 DEF RunProceeds
<1>5. CASE RunReturns
  BY <1>5 DEF RunReturns
<1>6. CASE \/ Request \/ ClaimReceipt \/ CompleteReceipt \/ Enqueue \/
              ControlWorking \/ ControlAwaiting
  BY <1>6 DEF Request, Admit, Mutations, AllKinds, ClaimReceipt, Received,
      CompleteReceipt, Enqueue, ControlWorking, Returns, Stays, Misdirected,
      NoMessage, ControlAwaiting
<1>7. CASE \/ IdleControl \/ RouteMutation \/ PublishShutdown \/
              QuiesceShutdownTask \/ Send \/ Answered
  BY <1>7 DEF IdleControl, ReplyWith, NoMessage, RouteMutation, HandlerGoes,
      Mutations, PublishShutdown, QuiesceShutdownTask, Send, Control, Command,
      Stop, SentKind, AllKinds, Answered, HandlerSucceeds, HandlerFails
<1>8. CASE \/ WaitReady \/ ActorIsGone \/ HandleActorCommand \/ PollEmpty \/
              Refill \/ StopProvider
  BY <1>8 DEF WaitReady, HandlerGoes, ActorIsGone, HandlerFails,
      HandleActorCommand, HandleCancel, HandleResume, HandleStop, NoMessage,
      Mutations, PollEmpty, Refill, Refills, Ready, StopProvider
<1>9. CASE \/ ActorEnds \/ RunIsCut
  BY <1>9 DEF ActorEnds, RunIsCut, Returns
<1>10. CASE UNCHANGED serviceVars
  BY <1>10 DEF serviceVars
<1>11. QED
  BY <1>1, <1>2, <1>3, <1>4, <1>5, <1>6, <1>7, <1>8, <1>9, <1>10
    DEF ServiceNext, ListenStep, HandlerStep, ActorStep

\* Nothing starts once a shutdown was published.
LEMMA EmergencyInvStep == ServiceInv /\ [ServiceNext]_serviceVars => EmergencyInv'
<1> SUFFICES ASSUME ServiceInv, [ServiceNext]_serviceVars PROVE EmergencyInv'
  OBVIOUS
<1> USE TaskAssumption DEF owner, actor, tasks, handler, channel, ServiceInv,
        ServiceTypeOK, OwnerOK, ActorInv, EmergencyInv
<1>1. CASE PublishShutdown
  BY <1>1 DEF PublishShutdown
<1>2. CASE BeginMaintenance
  BY <1>2 DEF BeginMaintenance
<1>3. CASE ClaimStart
  BY <1>3 DEF ClaimStart, StartsStopped
<1>4. CASE ClearActive
  BY <1>4 DEF ClearActive, Drained
<1>5. CASE \/ Request \/ ClaimReceipt \/ CompleteReceipt \/ Enqueue \/
              ControlWorking \/ ControlAwaiting \/ IdleControl
  BY <1>5 DEF Request, Admit, ClaimReceipt, CompleteReceipt, Enqueue,
      ControlWorking, ControlAwaiting, IdleControl
<1>6. CASE \/ RouteMutation \/ QuiesceShutdownTask \/ Send \/ Answered \/
              WaitReady \/ ActorIsGone \/ HandleActorCommand
  BY <1>6 DEF RouteMutation, HandlerGoes, QuiesceShutdownTask, Send, Answered,
      WaitReady, ActorIsGone, HandleActorCommand
<1>7. CASE \/ PollEmpty \/ Refill \/ StopProvider \/ ActorEnds \/
              RunProceeds \/ RunReturns \/ RunIsCut
  BY <1>7 DEF PollEmpty, Refill, StopProvider, ActorEnds, RunProceeds,
      RunReturns, RunIsCut
<1>8. CASE UNCHANGED serviceVars
  BY <1>8 DEF serviceVars
<1>9. QED
  BY <1>1, <1>2, <1>3, <1>4, <1>5, <1>6, <1>7, <1>8
    DEF ServiceNext, ListenStep, HandlerStep, ActorStep

\* One message, one answer.
LEMMA MessageInvStep == ServiceInv /\ [ServiceNext]_serviceVars => MessageInv'
<1> SUFFICES ASSUME ServiceInv, [ServiceNext]_serviceVars PROVE MessageInv'
  OBVIOUS
<1> USE TaskAssumption DEF owner, actor, tasks, handler, channel, ServiceInv,
        ServiceTypeOK, HandlerOK, MessageInv, Awaits, Stop, Command, Mutations
<1>1. CASE Request
  BY <1>1 DEF Request, Admit, Mutations, AllKinds
<1>2. CASE RouteMutation
  BY <1>2 DEF RouteMutation, HandlerGoes, Mutations
<1>3. CASE PublishShutdown
  BY <1>3 DEF PublishShutdown
<1>4. CASE BeginMaintenance
  BY <1>4 DEF BeginMaintenance
<1>5. CASE Send
  BY <1>5 DEF Send, Control, Command, Stop, SentKind, Mutations, AllKinds
<1>6. CASE Answered
  BY <1>6 DEF Answered, HandlerSucceeds, HandlerFails, Mutations
<1>7. CASE ActorIsGone
  BY <1>7 DEF ActorIsGone, HandlerFails
<1>8. CASE HandleActorCommand
  BY <1>8 DEF HandleActorCommand, HandleCancel, HandleResume, HandleStop,
      NoMessage, Mutations
<1>9. CASE \/ ClaimReceipt \/ CompleteReceipt \/ Enqueue \/ ControlWorking \/
              ControlAwaiting
  BY <1>9 DEF ClaimReceipt, Received, CompleteReceipt, Enqueue,
      ControlWorking, Returns, Stays, Misdirected, NoMessage, ControlAwaiting
<1>10. CASE \/ IdleControl \/ QuiesceShutdownTask \/ WaitReady \/ PollEmpty \/
               Refill
  BY <1>10 DEF IdleControl, ReplyWith, NoMessage, QuiesceShutdownTask,
      HandlerGoes, WaitReady, PollEmpty, Refill, Refills, Ready
<1>11. CASE \/ ClaimStart \/ ClearActive \/ StopProvider \/ ActorEnds \/
               RunProceeds
  BY <1>11 DEF ClaimStart, StartsStopped, ClearActive, Drained, StopProvider,
      ActorEnds, RunProceeds
<1>12. CASE \/ RunReturns \/ RunIsCut
  BY <1>12 DEF RunReturns, RunIsCut, Returns
<1>13. CASE UNCHANGED serviceVars
  BY <1>13 DEF serviceVars
<1>14. QED
  BY <1>1, <1>2, <1>3, <1>4, <1>5, <1>6, <1>7, <1>8, <1>9, <1>10, <1>11,
     <1>12, <1>13
    DEF ServiceNext, ListenStep, HandlerStep, ActorStep

\* A shutdown advances only when what it waits for holds.
LEMMA ShutdownInvStep == ServiceInv /\ [ServiceNext]_serviceVars => ShutdownInv'
<1> SUFFICES ASSUME ServiceInv, [ServiceNext]_serviceVars PROVE ShutdownInv'
  OBVIOUS
<1> USE TaskAssumption DEF owner, actor, tasks, handler, channel, ServiceInv,
        ServiceTypeOK, TasksOK, OwnerOK, ActorOK, HandlerOK, ActorInv,
        EmergencyInv, MessageInv, ShutdownInv, Awaits, Stop, Command
<1>1. CASE Request
  BY <1>1 DEF Request, Admit, Mutations, AllKinds
<1>2. CASE Enqueue
  BY <1>2 DEF Enqueue, Received
<1>3. CASE ControlWorking
  BY <1>3 DEF ControlWorking, Returns, Stays, Misdirected, NoMessage
<1>4. CASE ControlAwaiting
  BY <1>4 DEF ControlAwaiting, Returns, Stays, Misdirected, NoMessage
<1>5. CASE PublishShutdown
  BY <1>5 DEF PublishShutdown
<1>6. CASE QuiesceShutdownTask
  BY <1>6 DEF QuiesceShutdownTask, HandlerGoes
<1>7. CASE Send
  BY <1>7 DEF Send, Control, Command, Stop, SentKind, Mutations, AllKinds
<1>8. CASE Answered
  BY <1>8 DEF Answered, HandlerSucceeds, HandlerFails, Mutations
<1>9. CASE HandleActorCommand
  BY <1>9 DEF HandleActorCommand, HandleCancel, HandleResume, HandleStop,
      NoMessage, Mutations
<1>10. CASE ClaimStart
  BY <1>10 DEF ClaimStart, StartsStopped
<1>11. CASE ClearActive
  BY <1>11 DEF ClearActive, Drained
<1>12. CASE RunReturns
  BY <1>12 DEF RunReturns
<1>13. CASE RunIsCut
  BY <1>13 DEF RunIsCut, Returns
<1>14. CASE \/ ClaimReceipt \/ CompleteReceipt \/ IdleControl \/ RouteMutation
  BY <1>14 DEF ClaimReceipt, Received, CompleteReceipt, IdleControl,
      ReplyWith, NoMessage, RouteMutation, HandlerGoes, Mutations
<1>15. CASE \/ BeginMaintenance \/ WaitReady \/ ActorIsGone \/ PollEmpty
  BY <1>15, ZenonT(90) DEF BeginMaintenance, WaitReady, HandlerGoes, ActorIsGone,
      HandlerFails, PollEmpty
<1>16. CASE \/ Refill \/ StopProvider \/ ActorEnds \/ RunProceeds
  BY <1>16 DEF Refill, Refills, Ready, StopProvider, ActorEnds, RunProceeds
<1>17. CASE UNCHANGED serviceVars
  BY <1>17 DEF serviceVars
<1>18. QED
  BY <1>1, <1>2, <1>3, <1>4, <1>5, <1>6, <1>7, <1>8, <1>9, <1>10, <1>11,
     <1>12, <1>13, <1>14, <1>15, <1>16, <1>17
    DEF ServiceNext, ListenStep, HandlerStep, ActorStep

-----------------------------------------------------------------------------
(* The theorems *)

\* The inductive invariant of the owner process: how actor, phase, shutdown and
\* the message under way go together.
THEOREM ServiceInvariant == ServiceSpec => []ServiceInv
<1>1. ServiceInv /\ [ServiceNext]_serviceVars => ServiceInv'
  BY TasksStep, OwnerStep, ActorTypeStep, HandlerTypeStep, ActorInvStep,
     PhaseInvStep, EmergencyInvStep, MessageInvStep, ShutdownInvStep
     DEF ServiceInv, ServiceTypeOK
<1>2. QED
  BY InitServiceInv, <1>1, PTL DEF ServiceSpec

\* The state shared by handlers and actor (TaskActorOwner) keeps its types.
THEOREM ServiceTypes == ServiceSpec => []ServiceTypeOK
<1>1. ServiceInv => ServiceTypeOK
  BY DEF ServiceInv
<1>2. QED
  BY <1>1, ServiceInvariant, PTL

\* Maintenance that is ready (clear_active, begin_maintenance) has no running
\* task, and the task it names has the checkpoint it announces.
THEOREM MaintenanceIsTrue == ServiceSpec => []ReadyIsDrained
<1>1. ServiceInv => ReadyIsDrained
  BY DEF ServiceInv, PhaseInv
<1>2. QED
  BY <1>1, ServiceInvariant, PTL

\* A shutdown that shutdown_owner reports as done has stopped everything,
\* however often it was retried and whatever raced it.
THEOREM ShutdownIsTrue == ServiceSpec => []ShutdownIsComplete
<1>1. ServiceInv => ShutdownIsComplete
  BY DEF ServiceInv, ShutdownInv, ShutdownIsComplete, Serving
<1>2. QED
  BY <1>1, ServiceInvariant, PTL

\* claim_start and publish_shutdown or begin_maintenance are linearised: after
\* either was published no task becomes active.
THEOREM StopIsFinal == ServiceSpec => NoStartAfterStop
<1>1. [ServiceNext]_serviceVars =>
        [StartsStopped => active' \in {active, NoTask}]_serviceVars
  <2> SUFFICES ASSUME ServiceNext, StartsStopped
               PROVE  active' \in {active, NoTask}
    OBVIOUS
  <2>1. CASE ClaimStart \/ ClearActive
    BY <2>1 DEF ClaimStart, ClearActive
  <2>2. CASE Request \/ ListenStep \/ RunProceeds \/ RunReturns \/ RunIsCut
    BY <2>2 DEF Request, Admit, ListenStep, ClaimReceipt, CompleteReceipt, Enqueue,
       ControlWorking, ControlAwaiting, IdleControl, RunProceeds, RunReturns,
       RunIsCut, owner
  <2>3. CASE HandlerStep
    BY <2>3 DEF HandlerStep, RouteMutation, HandlerGoes, PublishShutdown,
       QuiesceShutdownTask, BeginMaintenance, Send, Answered, WaitReady,
       ActorIsGone, owner
  <2>4. CASE HandleActorCommand \/ PollEmpty \/ Refill \/ StopProvider \/ ActorEnds
    BY <2>4 DEF HandleActorCommand, PollEmpty, Refill, StopProvider, ActorEnds, owner
  <2>5. QED
    BY <2>1, <2>2, <2>3, <2>4 DEF ServiceNext, ActorStep
<1>2. QED
  BY <1>1, PTL DEF ServiceSpec, NoStartAfterStop
=============================================================================
