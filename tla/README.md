# A verification project for Carl

Carl is a local-first coding agent written in Rust. Its core is a runtime for
long-running tasks: a journal of task events with a pure reducer, an engine
that drives a model provider epoch by epoch and survives crashes, and a service
process that owns all tasks and serves clients. Around it are the front ends
(the ACP server and its kernel, the Buzz frontend), the adapters to providers,
and the stores of artifacts, checkpoints and memory. This directory models the
core and most of what surrounds it in TLA+, checks it with TLC, and proves with
TLAPS what the core, the front ends and the stores promise, for every size.

## The system

| component | state | operations | talks to |
|---|---|---|---|
| reducer and snapshot (`runtime/task/reducer.rs`, `types.rs`) | status, contract, active epoch, operations with evidence, checkpoint, provider context, pending recovery | one per `TaskEvent` | called by the store inside the append transaction |
| store (`storage/repository.rs`) | journal, projections (`task_epochs`, `task_operations`, configuration, checkpoints) | `append_task_event`, `commit_checkpoint`, `RuntimeStore::open` | reducer; SQLite |
| engine (`runtime/task/engine.rs`) | runtime of a task: held operations, boundary, quiescing, permission mode, provider context | startup reconciliation, `run`, work epochs, effects, approvals, owner controls, cancellation | store; provider (`AgentPort`); owner controls from the service |
| reports and progress (`report.rs`, `progress.rs`) | none | validation of claims, completion decision, stall assessment | engine |
| service (`service/server.rs`) | active task, maintenance phase, emergency flag, mutation gate, actor queue, receipts | requests, shutdown, maintenance, signal, actor loop | engine through a control channel and an actor channel; clients over a socket |
| control receipts (`storage/repository.rs`, `acp/server.rs`, `service/server.rs`) | one receipt per idempotency key | claim, apply, complete or fail, replay | store, engine |
| checkpoints and context (`checkpoint.rs`, `context.rs`, `commit_checkpoint`) | checkpoint rows, cached authority, context packages | build, validate, commit, assemble | engine, store |
| ACP kernel (`acp/kernel.rs`) | sessions, active turns, routed events, pending approvals and codes, configuration | prompt, steer, cancel, set configuration, shutdown | engine in process, ACP server, publisher |
| ACP server over the kernel, ACP adapter over the service (`acp/server.rs`) | session bindings, streams, cursors, output queue | read loop, spawned requests, polling, replay | kernel; service through its socket |
| live updates (`service/server.rs`, `LiveUpdateHub`) | a ring and the last approval of each task | publish, page, clear | engine; adapters |
| owner binding (`storage/repository.rs`, `acp/kernel.rs`) | trusted owner, admitted events, channels, codes, deliveries | trust, admit, bind, decide, publish | Buzz |
| sidecar (`sidecar/mod.rs`) | pending requests, abandoned ids, channels, child | request, respond, cancel, supervise | provider processes |
| Codex app server adapter (`delegates/codex`) | turn, withheld message, queues | start, next event, resolve, interrupt, compact | engine; child process |
| delegated runs, staging, verification (`storage/repository.rs`, `staging`, `verification.rs`) | run records, stage, candidate workspace, evidence | prepare, propose, verify, promote, collect | artifact store |
| artifact store (`artifacts/store.rs`) | directory, files, usage account | put, open, recover, retain | every owner of evidence |
| memory (`memory`, `storage/repository.rs`) | records, proposals | remember, propose, approve, forget, query | CLI |
| TUI, CLI, policy, auth, tools, providers, `evals/` | presentation, validation, credentials | helpers | |
| `benchmarks/` (Python), `infra/` (SQL) | evaluation control plane | outside the agent | none at run time |

What is hard here: every append is a transaction of its own, so a crash or a
rejected append can fall between any two of them; owner controls arrive at an
epoch, at an approval or at an idle task and mean something else at each; the
provider may have applied what it failed to acknowledge; the service decides on
one read of shared state and then waits, with the gate held, for an actor that
runs tasks of unbounded length. In the front ends a handler clones its state,
awaits the service and stores the clone; streams, spawned requests and replies
overtake one another; queues are bounded and a full one means something else in
each place. `PROJECT.json` lists these hazards at the lines
where they bite, with the properties that would catch them.

What correctness means, per component:

- *lifecycle*: a completed or cancelled task is at a safe boundary; the store
  can always be reopened; an operation with unknown outcome holds the task.
- *engine*: no outcome is invented; no effect without durable start and the
  owner's permission; nothing dispatched while an outcome is unknown; startup
  handles every state a crash can leave; tasks settle and epochs end.
- *service*: no start after stop; shutdown and maintenance report the truth;
  every request is answered; drains end; tasks get their turn.
- *receipts*: a repeated request is applied once and its answer stands.
- *checkpoints*: what is committed is what the journal says, and a task that can
  be checkpointed is.
- *front ends*: every request is answered once, updates arrive in order and none
  is skipped, an approval the engine waits for can be given, and only the owner
  gives it.
- *adapters*: an answer belongs to its request, nobody waits forever, and the
  child ends.
- *stores*: what was acknowledged survives, what was removed is gone.

## Modules

`TaskLifecycle` is the abstract specification of one stored task: an action per
event that changes the snapshot, and for each a guard `CanX` that collects
everything in the reducer and in the child projections that rejects the event.
A contract is its version and the set of satisfied required clauses; evidence
sequence numbers are one flag per operation ("unconsumed evidence newer than the
last transition"); a checkpoint is how it relates to the latest finished epoch.
The contract version, a `u64` in the code, is bounded by `MaxVersion`. `Targets`
are the statuses some caller passes to `StateTransitioned`; the reducer alone
would also take `Completing -> Completed` from it without looking at the
clauses, and no caller does that (`TargetAssumption`).

`TaskEngine` extends it with the engine of one task. A handler is a *script*:
the sequence of appends and provider calls it makes, performed one per step, so
that a crash (`Crash`) or a rejection (`RejectStep`) can happen before each. The
control points are `down`, `prepare`, `activate`, `reconcile`, `recover`,
`resume` (from the stored snapshot to a provider context), `loop`, `dispatch`,
`drain`, `approval` (the run loop and the two places where an epoch waits) and
`idle` (the actor). `starting` tells `reconcile_startup`, where an error other
than Blocked ends the whole startup, from `run`. `effect[o]` is what really
passed between engine and provider about an operation: it is what the journal
is compared with.

`TaskService` models the owner process over two abstracted tasks: the holder of
the mutation gate (`hpc`), the actor (`apc`), where the running task listens
(`mode`) and the shared `TaskActorOwner`. The gate holder waits for the answer
to what it sends, so at most one message is under way. The receipt of a command
is claimed and completed by the engine, hence only where the engine listens.
"steer" stands for steer, compact and configure.

`ControlReceipts` models keyed mutations, of an ACP server and of the owner
process: claim, effect and completion are three commits with a crash possible
between any two. `CheckpointAuthority` models the engine's building of a
checkpoint and both of the store's ways to validate one; `ContextAssembly` the
order in which sources enter a package.

`AcpKernel` models the kernel actor that multiplexes interactive turns over one
port. It implements `ExactApproval`, the abstract protocol of one effect request
(granted once, answered once, never answered "go ahead" without a grant), under
the mapping at the head of the module (`ApprovalIsExact`). `DurablePrompt` is the
pump that runs a durable task inside a prompt while it serves the session's
commands. `AcpFront` is what is in front of the actor: the read loop of the
stdio server, its spawned requests, the command loop and the bounded output;
turns are abstract in it. `ServiceAcp` is the other server, the adapter over the
owner service: one frontend session, its binding, the handler that clones and
stores it, the streams that poll for it, and the hub of live updates they poll.
Beside what the client received it keeps two notes on the cursors: `back`, where
a stored configuration moved the event cursor back to, and `carried`, the live
cursor a task was given of the task before it.
`OwnerBinding` models who may act through Buzz, across processes that open the
same data root.

`Sidecar` has the four tasks of a `JsonlSidecar` and callers that may be dropped
at every await. `AppServer` is the Codex adapter for one thread, with the two
queues it reads only while one of its calls awaits an event.

`SubscriptionRun` follows a delegated run through its record, its stage, its
proposal and its verification, with a startup that collects artifacts.
`CandidateWorkspace` is the disposable workspace of a verification, beside a
process that goes on writing; `ArtifactStore` the object store with a volatile
and a durable image of its directory; `Memory` the curated memory.

Four `MC` modules put small instances of these components side by side:
`MCSessions`, `MCProviders`, `MCFrontEnds` and `MCStores`. The components of one
module share no state there, so a behaviour chooses one (`part`) and takes steps
of that one only; the run explores the union of their state spaces, each with
its own bounds, and not a product that would say nothing more. A component
with proofs is extended, so that the run checks the very definitions the theorems
are about, and gets its constants from the `.cfg`; the others are instantiated. A
comment on each says what the bounds let happen. A property collects what one
component promises, from the named parts in its own module.
Definitions marked "Mutant" are the faulty variants used to see that each
property can fail.

## Runs

Passing:

- `lifecycle`: all event orders on two epochs and two operations. Two of each is
  what the properties need: one epoch that ended with an uncertain operation and
  one that runs after it.
- `engine_safety`: all controls (two of them), all faults, no crash.
- `engine_crash`: two crashes anywhere, each with its restart, a cancellation, and
  a workspace, a context or an operation that is refused. Two crashes is what it
  takes to meet an operation that the first one stranded. Also checks that the
  engine implements `TaskLifecycle`.
- `engine_liveness`: three epochs (an epoch, its recovery, the one after),
  approvals, aborts, failed dispatches; `Settles` and `EpochsEnd`.
- `service`: two tasks, so that a control can meet the run of another task, and
  two requests of any kind besides the answers to approvals, so that one can
  race the other's effects (a retried shutdown, a shutdown during a drain).
- `sessions`: `AcpKernel` with two sessions, the smallest number for which events
  must be routed, and queues of two (`TurnsInOrder`); `OwnerBinding` with two
  people of whom each may be the owner, two sessions, two channels and two messages,
  a code that expires, four commands of the service, an owner that is replaced and a
  restart (`OnlyOwnerDecides`); `ControlReceipts` with one key of each mutation and a
  crash between claim, effect and completion (`ControlsOnce`); `ServiceAcp` with two
  tasks and two prompts, streams and publications that fail, a task that is paused,
  resumed and cancelled, a configuration stored meanwhile, and a second connection
  that resumes from its own cursors (`EventsOnce`).
- `providers`: `AcpKernel` with one Buzz session, two effects and every failure
  of store, port and publisher implements `ExactApproval` (`ApprovalIsExact`);
  `AppServer` with one turn of two messages, and with two turns, which is what a message, an
  approval or an interruption needs to be late for (`TurnsReadExactly`);
  `Sidecar` with two requests that may be dropped, channels of one place and a
  child that asks and exits, and with one request made of a child that also
  overruns or writes garbage (`DroppedAreCounted`).
- `front_ends`: whoever waits is answered. `AcpFront` with three requests and an
  output queue of one frame, so that it overflows; `DurablePrompt` with a prompt,
  two other calls of every kind and two approvals; `ServiceAcp` with a ring of one
  update that drops the approval, and an overflow whose snapshot passes it over;
  `Sidecar` with two callers that cancel.
- `stores`: `ArtifactStore` with two contents, a quota of one and two crashes
  (`PublishedStays`); `CandidateWorkspace` with two files and a writer of two edits and
  one move (`CandidateHonest`); `SubscriptionRun` with two callers, a damaged object and a
  restart, and with a checkpoint that names its objects (`RunsVerified`); `Memory`
  with global and workspace records, and with two partitions (`MemoryKept`);
  `CheckpointAuthority` with journals long enough for checkpoints with events,
  damage, late failures of an insert and writes of other connections between them
  (`CheckpointsTrue`); `ContextAssembly` with targets of 0, 5 and
  9 tokens against sources of 1 and 3 and headings of 2, so that each kind of source
  is both included and left out (`ContextFits`).

Showing a disagreement between the code and what the repository says of it
(`findings` in `PROJECT.json` quotes the lines):

- `uncertain_after_crash`: `EpochFinished` and `Blocked` are two appends; a crash
  in between loses the block and work goes on beside an uncertain operation.
- `recovery_epoch_reuse`: an interrupted recovery epoch is started again under
  its old identity, which `task_epochs` rejects for good.
- `gate_deadlock`: gate, actor and approval wait for one another.

Bounds: `MaxCrashes`, `MaxControls` and `MaxRequests` bound the environment,
`Epochs` and `Ops` are the task's own budgets (`max_provider_requests`,
`max_tool_calls`), `MaxVersion` the contract revisions. Deadlock is not checked:
a settled task, a stopped service and an exhausted environment really stop. The
other modules name their bounds beside their constants: capacities are the code's
constants made small, the rest bounds the environment.

### Where the passing runs stop

The models contain the following behaviours; the bounds or the properties of the
passing runs stay clear of them, because a document or a test of the repository
asks for something else. No run is kept for them.

- engine: an idle cancellation of a task blocked on an uncertain operation stays
  Cancelling (`engine.rs:3738`). Startup gives up on an append it cannot make in
  two cases, which `StartupReconciles` names and the proof shows to be the only
  ones: a crash between `EpochFinished` and `Blocked` strands an uncertain
  operation, and when a later epoch is cut off by a second crash
  `reconcile_abandoned_epoch` appends evidence for it that the reducer rejects
  (`engine.rs:1549`, `607`); and `block_task` on a queued or completing task whose
  workspace is not trusted is an edge the reducer does not have (`engine.rs:645`).
- service: the drain rejects the approval it waits for (`server.rs:1304`, excluded
  by the wall budget of the `service` run); a provider that fails every run keeps
  the actor from listening (`server.rs:1041`, excluded by its faults).
- sidecar: a request dropped between registration and enqueueing stops the
  sidecar, and its id is free while its answer can still come (`sidecar/mod.rs:2959`,
  `3163`; hence `ReuseIds` is false); a broken pipe overtakes the final response
  (`2838`).
- kernel: a configuration change reported during a turn is lost or applied late
  when the turn fails (`kernel.rs:2733`, `2736`), and the old mode still decides
  for effects under way (`2264`); a code whose answer fails is consumed (`2630`).
- durable prompt: a command read before the task exists gives the prompt up
  (`kernel.rs:1679`; hence `Eager` is false); a repeated `/approve` fails the task
  (`1400`); one acknowledgement erases the next notice (`1724`); a failed final
  publication drops the reply (`1845`), the case `EveryCallAnswered` leaves out.
- receipts: a repeated steering may report what did not happen (`engine.rs:3512`),
  a repeated resumption be refused when the run it started before the crash has
  ended (`kernel.rs:3000`, the case `AppliedNotRejected` leaves out), a repeated approval fail the
  task (`server.rs:1769`); `_task/resume` occupies the server (`kernel.rs:3023`).
- adapter over the service: generations restart with a loaded session
  (`acp/server.rs:1168`, the operation `reload`, which the run leaves out and the
  theorem excludes); the live cursor outlives its task (`1500`, the `carried` that
  `NoLiveSkipped` names); a configuration stored while a stream runs moves the event
  cursor back (`1252`, `1401`, the `back` that `InOrderOnce` names); the tail of a task can be missed (`2021`); a failed
  publication leaves its prompt open (`1968`); a cancelled approval blocks prompts
  (`1295`); a remembered approval moves the cursor back and may be cleared for its
  successor (`service/server.rs:881`, `1781`).
- ACP server: steering and cancellation can overtake what was sent before them
  (`acp/server.rs:753`, `771`); a failed connection loses the publisher (`383`).
- owner binding: a configuration of a new session is refused while another holds
  the channel (`engine.rs:919`); a pending command is carried out after its owner
  was replaced (`repository.rs:1638`, the exception `OnlyOwnerActs` names); a crash
  leaves a delivery pending (`kernel.rs:3100`).
- others: a run may be moved to CompletedNoChanges whatever its inspection says
  (`repository.rs:3915`); a failed compaction is taken for one that runs
  (`app_server.rs:442`); a compaction that begins while the start of an interrupted
  turn is still queued takes it for its own, and when it then fails the token usage of
  that turn reaches the engine without its start (`966`, the exception
  `TurnsBracketed` names; it takes three turns and two refused calls); a changed model cannot be checkpointed
  (`checkpoint.rs:774`, hence `SafeBoundaryCommits` with one model).

## Fairness

*Engine*: weak fairness of the engine's own steps (ordinary code on a runtime
that keeps running, and an actor that runs every task it lists) and of the
provider's steps, which stands for the wall budget: with
`max_wall_time_seconds` every wait for the provider or an approval ends. Budgets
default to none in the code; without them nothing bounds these waits, and the
liveness results are about a task that has them. Nothing is assumed of the owner.

*Service*: weak fairness of the handler, of the actor and of the run; strong
fairness of receiving (`ListenStep`), because `tokio::select!` polls its
branches in random order, so a control is received if the engine listens again
and again; the owner answers a pending approval when admitted. The passing run
gives tasks a wall budget and excludes a provider that fails every run before it
listens; `gate_deadlock` drops the first.

*Front ends and adapters*: weak fairness of tasks the runtime has spawned and of
actors, one condition per stream or request, since tokio runs every ready task.
`ServiceAcp` assumes that a task that does not wait for its owner stops (its
budget), `AcpFront` that turns end and that the client reads its input;
`DurablePrompt` and `Sidecar` rest on the random order of `select!`. These are the
components of `front_ends`; the other combined runs check safety only.

## Proofs

`TaskEngineProofs` holds what is proved of the lifecycle and of the engine above it.

*Lifecycle.* It proves, for any sets of epochs, operations and clauses and
any `MaxVersion`, the type invariant, `StoreAlwaysOpens`, `SafeTerminal`,
`StrandedForever` and `StrandedStopsTheTask`. The inductive invariant
`LifecycleInv` joins the first three with `KnownEpochs` (the active epoch and
the epochs of operations are rows of `task_epochs`). `StoreAlwaysOpens` needs the
guards of three events together; `StrandedForever` is not true of the
reducer alone: it needs `KnownEpochs`, since only the primary key keeps an ended
epoch from being started again.

*Refinement.* It proves that `EngineSpec` implements `LifecycleSpec` for every
number of crashes and controls, every set of faults and every set of modes:
`AppendStep` is the reduction of one event, `OpenStore` the reconciliation of the
store, and every other step leaves the stored task alone. The safety results of
the lifecycle are thereby theorems about the engine.

`TaskServiceProofs` proves `ServiceTypeOK`, `ReadyIsDrained`,
`ShutdownIsComplete` and `NoStartAfterStop` for every finite set of tasks, any
`MaxRequests`, kinds of requests and faults. None is inductive alone.
`ServiceInv` adds `ActorInv` (no task is active while the actor is between runs),
`PhaseInv` (the task a maintenance in progress waits for), `EmergencyInv` (a
published shutdown admits only the task it saw), `MessageInv` (at most one message
is under way, and it belongs to the request its handler holds) and `ShutdownInv`
(what a shutdown has achieved at each control point of its handler). The proof has
one lemma per conjunct and in it one step per action that can disturb it.

*Effects.* `TaskEngineProofs` proves `EngineTypeOK`, `OutcomeKnown`, `SuccessReported`,
`ClausesRestOnSuccess` and `EffectsPermitted`. A handler decides and its script acts
later, one append at a time, so none of them is inductive: `EffectInv` adds what
every entry still in `todo` rests on (an `Allow` is reached only through the intent
and the start of its operation, an outcome only after its report, a revision only
after a success) and what the control points of an epoch imply. Most handlers leave
a script without such entries (`Calm`); one lemma deals with all of them.

*Startup.* It proves `StartupReconciles` with the two exceptions above.
`StartupInv` lists the scripts a starting engine can be in the middle of, each with
the stored state that makes its next append acceptable; it needs that a task between
epochs has no open epoch and that a covering checkpoint leaves nothing unresolved
(`AtBoundary`), and so what a script that enters such a status has already done
(`EnteringAtBoundary`). The attempt at the form without exceptions, which had held
with one crash and a trusted workspace, is how both were found.

`SessionRecordsProofs` proves `ControlsOnce` for any keys, requests and crashes.
`ReceiptInv` follows a key through claim, mutation and completion: a key without a
receipt has done nothing, a steering text is reached when it is marked and neither
queued nor on its way, a cancellation that took effect left the task cancelled.
It also proves `OnlyOwnerDecides`, for any people, channels, messages, codes and
commands and however often the owner is replaced. `BindingInv` adds that whoever is
the owner or had a message admitted was trusted (`TrustKept`), that a command past
its admission is the owner's or a recovered one (`GateHeld`: admission and effect
are two steps, and the owner may be replaced before a recovered command acts), which
kernel sessions have a row and a code (`KernelBound`) and what a code names
(`CodesKnown`). That a decision is final is an action property proved from it.

`AcpKernelProofs` proves `TurnsInOrder` and that `AcpKernel` implements
`ExactApproval` (`ApprovalIsExact`, step by step under the mapping of the module).
`KernelInv` relates, for every session, its turn, its backlog, its epochs and the
requests that are its own: what a paused turn still has to read is in the backlog in
order and ends where the epoch's own count of emitted events does, and a request that
waits, in a backlog or behind a paused turn, is open and belongs to nobody else.
The routed count is the size of a finite set (`Waiting`), which needs its own lemmas.

`StoresProofs` holds what is proved of three stores, each with an invariant of its own.

*Artifacts.* It proves `PublishedStays` for any contents, files and quota and
any number of process crashes and power losses. `StoreInv` says that a canonical
name, in the directory or only on the medium, names a whole, sealed and synced file
(`Genuine`), what a publication has done at each stage, that an acknowledged content
is in both images and shares its file with no temporary, and that an unsynced removal
is of a content nobody was given (`StaleUnnamed`). The last is what the quota rests
on: unsynced removals can come back with a power loss, the scan at opening accepts
more objects than `MAX_ARTIFACT_OBJECTS` (`store.rs:397`), and only the collection
that follows brings the store below it, because the objects that records name fit at
all times.

*Candidate workspace.* It proves `CandidateHonest` for any files, edits and moves.
An inspection lists, then reads each file while a writer goes on, twice, so a scan is
of no one instant. `WorkspaceInv` says that nothing differs from what was built until
the first seal (`BuiltAsExpected`, `ReadAsExpected`, `SealsFaithful`), that a file read
as built was so at the listing and every name listed is read or refused
(`PassShape`, `PassFaithful`), and that a held directory was moved aside before its
name is removed (`RemovalHeld`). It rests on a writer never bringing back an inode
number with its old content.

*Context packages.* It proves `ContextFits` for any windows, percentages, sizes and
lengths of the two lists. `AssemblyInv`: sources are taken and recorded in order
(`TakenInOrder`, `Recorded`), the objective keeps its room until it is taken
(`Budgeted`), the total is the sum of what is included (`AddsUp`), a unit follows its
heading (`SectionOpen`, `Headed`), and a trusted unit is included exactly when it fits
beside the trusted ones before it (`TrustedRule`), which is what keeps untrusted
units from displacing it. The sums of the statement are characterised by what adding
one entry does to them.

`ServiceAcpProofs` proves `EventsOnce` for any number of tasks, events, updates,
prompts and connections, with `reload` excluded. Three things hold cursors at once:
the binding, the copy a handler made before it awaited, and the stream that polls;
each may be stored over the other, and a new connection resumes from what the client
last saw. `AdapterInv` says that every one of them has passed only what was sent
(`CursorsHold`), that what was sent has no holes, so that a client may resume from its
last cursor (`NoHoles`), that a copy is of the present task and generation
(`HandlerKnows`), that generations tell the running streams apart (`StreamsKnow`) and
that tasks and the journal follow one another (`TasksInOrder`, `LogInOrder`). The
attempt without the two notes failed at a stored copy that is older than the stream's
cursor and at a cursor carried into the next task; this is how both exceptions became
part of the statement. What a page returns rests on lemmas about the least and the
largest member of a set of numbers, from well-founded induction.

`ProvidersProofs` holds what is proved of the provider process and of its adapter.

*Sidecar.* It proves `DroppedAreCounted` for any number of requests, ids and
cancellations and any capacities. The count of abandoned ids is kept by two actors:
a dropped caller only queues an abandonment, and the supervisor applies the queue
later, to a table that has changed meanwhile (`drain_abandonments`). `SidecarInv`
says that an entry is filed under the id of its request (`Keyed`) and that a queued
abandonment is the only one of its id, of a request that is over, and not applied yet
(`QueueKeyed`); without it an entry could be marked or removed twice. The drain is a
recursive function over the queue. What it does to the table and to the count is
proved from the shortest prefix of the queue that would refute it, by the
well-foundedness of the numbers, which takes the place of the induction theorems. The
theorems have `~ReuseIds` as a hypothesis, for the reason given above
(`sidecar/mod.rs:3163`).

*Codex adapter.* It proves `TurnsReadExactly` for any number of turns, messages,
fragments, approval requests and refused calls, and however far the provider runs
ahead. `AppInv` has two halves. The first says where the start and the end of a turn
can be: the notices are in the order of their turns, begin with the start of a turn
and end with its end (`NoticesInOrder`), a start is queued, kept or read in one place
only and before anything else of its turn (`StartsFirst`, `KeptEvents`), what a call
that found the queues empty can meet (`OnTime`), what a compaction may take for its
own (`CompactionKnown`, `Abandoned`), and that neither the active turn nor a
compaction has ended (`NotEnded`, `LastTurn`). The second half (`Reading`) is about
the text of the active turn, which is in four places at once: what the engine has
read, the withheld fragments, the pending report and the queue. Every fragment that
was written is in one of them or superseded by a later message (`NothingLost`), in
the order of its number (`SeenInOrder`, `WithheldLast`, `ReportLast`, `TextAfter`),
and messages follow one another (`DonesAfter`, `OneByOne`, `MessagesClose`). Of a turn
that completed, `WasRead` is left. `TextExact` is stated by positions in what was
read, not by a fold over it, so that no induction over data is needed. The proof has
one lemma per action; what hands an event out is split by the call that awaits it.
Looking for the invariant showed that the form the run had confirmed with two turns
is too strong: the token usage of an interrupted turn is the case named above.

`SubscriptionRunProofs` proves `RunsVerified` for any runs, paths and contents and any
number of processes, edits and damaged objects. That a promoted run was verified rests
on steps far apart: the request is committed with the transition into Verifying, a
replaced executable is noticed only after it ran, and records are loaded again
through a log that has grown meanwhile. `RunInv` says that the log replays to the
record (`Logged`), which records a state cannot have yet (`NotYetRequested`), what
the verification under way has established (`VerifierHonest`), that what a record
names is registered even when a checkpoint names it too (`Named`), and which process
created a run (`Births`). Every step leaves a run alone, creates it, configures it or
moves it along an edge of `can_transition_to`; the lemmas about the replay are stated
for these four. That evidence is written once (`EvidenceFrozen`) is an action property
proved from it.

Assumptions are `EpochAssumption`, `TargetAssumption`, `VersionAssumption`,
`BudgetAssumption`, `ModeAssumption`, and for the service `TaskAssumption`,
`KindAssumption`, `LimitAssumption`; TLC evaluates them in every run. The
other proved modules declare no assumption: what their proofs need of the constants
is a definition (`KeysAreDistinct`, `KernelConstants`, `StoreConstants`,
`BindingConstants`, `AdapterConstants`, `WorkspaceConstants`, `BudgetConstants`,
`SidecarConstants` with `~ReuseIds`, `AppConstants`, `RunConstants`) that is a
hypothesis of their theorems and an `ASSUME` of the `MC` modules that extend them.
They say that a placeholder is none of the things it stands for, that bounds, sizes and
file names are numbers, that a key names one kind of mutation, that a command names
what there is, that bypass is not a mode a client may simply choose, that a canonical
name is not a temporary one, and of the context budget what `ContextEngine::new`
checks.

Only model-checked:

- `UncertainBlocks`, which is true without crashes only (the run
  `uncertain_after_crash` shows why) and would need a specification of its own;
- `MemoryKept` and `CheckpointsTrue`, which compare state with folds over sequences
  of any length (the records of a query, the journal): the induction over data has no
  general form here, and the detour that the drain of the sidecar takes would have to
  be made for each of these folds;
- every liveness property (`Settles`, `EpochsEnd`, those of `service` and
  `front_ends`), since fairness and ENABLED are out of the prover's reach.

## Not modelled

Planning epochs, background processes, steering text, token accounting,
duplicate control identifiers and storage errors are left out of the engine; a
context package that cannot be assembled consumes an epoch of the model although
no provider request was made. A task that was never bound cannot be cancelled
while idle (the code cannot rehydrate it). In the service, errors of
`install_owner_frontend_context`, read-only commands and session configuration
are left out; after a failed signal `serve` drops the actor. `ServiceAcp` has one
session and one live generation: a restart of the owner under a connected client
is not in it. `AppServer` assumes an orderly provider, `Sidecar` starts with the
child running, `CandidateWorkspace` and `ArtifactStore` abstract paths and bytes.
Everywhere the text of messages, digests (taken to be injective) and the syntax
of requests are abstracted. The terminal interface, the command line, the
providers' HTTP, policy and authentication hold no state that outlives a call;
the benchmark control plane is another program. `PROJECT.json` lists every
component with its status and the reason.

## Plan

Done: lifecycle, engine, service, receipts, owner binding, kernel, adapter over the
service, artifact store, candidate workspace, context packages, sidecar, Codex adapter
and delegated runs with their proofs; checkpoints, the ACP server over the kernel,
durable prompts and memory with their runs.

1. Proofs of the remaining components: parts of `MemoryKept` and `CheckpointsTrue`
   that do not need their folds; `EventsOnce` with `reload`, if
   generations outlive a loaded session.
2. A bound on what a second crash can lead to, if the two appends at the end of an
   abandoned epoch become one: `StartupReconciles` without its first exception and
   `UncertainBlocks` with crashes.
3. Planning epochs and background processes in the engine; progress assessment
   and recovery escalation as a pure algorithm.
4. Composition of `TaskService` with `TaskEngine`: the service's `Returns`,
   `Stays` and `RunProceeds` as an abstraction of the engine's control points.
