----------------------------- MODULE ServiceAcp -----------------------------
(***************************************************************************)
(* The ACP adapter in front of the persistent owner service                *)
(* (acp/server.rs, ServiceAcpServer) together with the part of the service *)
(* it polls: the durable journal and the hub of live updates               *)
(* (service/server.rs, LiveUpdateHub).                                     *)
(*                                                                         *)
(* One frontend session is modelled.  The adapter serves one request at a  *)
(* time (the handler); every accepted prompt and every session/load spawns *)
(* a stream, a task of its own that polls the service and writes to the    *)
(* client.  Streams and handler share the session binding under a mutex,   *)
(* but each of them reads it, awaits the service and writes it later; a    *)
(* stream owns the binding while its generation is the current one.        *)
(***************************************************************************)
EXTENDS Naturals, Sequences, FiniteSetsExt

CONSTANTS
  MaxTask,      \* tasks the session starts
  MaxLog,       \* durable events appended to the journal
  MaxLive,      \* live updates of one task
  MaxPrompt,    \* prompts the client sends
  MaxConn,      \* connections the client opens
  MaxLoad,      \* session/load requests
  MaxApproval,  \* approvals one task asks for
  LiveCapacity, \* LIVE_UPDATE_CAPACITY
  PageLimit,    \* the limit of one page of live updates
  Ops           \* the optional requests and faults: "approval", "pause", "quiet", "cancel",
                \* "config", "load", "reload", "overflow", "fail", "publisher"

VARIABLES
  taskStatus, \* the durable status of each task
  log,       \* the journal of the session: a sequence of events
  live,      \* the live updates of each task, by cursor
  hub,       \* the cursor of the approval the hub remembers, 0 for none
  awaited,   \* the cursor of the approval the engine waits for, 0 for none
  overflow,  \* updates the engine dropped before the hub
  observed,  \* the overflow each task's hub entry has reported
  open,      \* the client is connected
  conn,      \* connections opened so far
  loads,     \* session/load requests so far
  binding,   \* the session binding of the adapter, or NoBinding
  handler,   \* the request being served
  streams,   \* the running poll and replay tasks
  prompts,   \* what became of each prompt
  out        \* what the client has received, and two notes on its cursors:
             \* back, where a stored configuration moved the event cursor back
             \* to (MaxLog for nowhere), and carried, the live cursor each task
             \* was given of the task before it

\* What is known of the constants.
AdapterConstants ==
  MaxTask \in Nat /\ MaxLog \in Nat /\ LiveCapacity \in Nat /\ PageLimit \in Nat

ownerVars == <<taskStatus, log, live, hub, awaited, overflow, observed>>
sessionVars == <<open, conn, loads, binding, handler, streams>>
adapterVars == <<ownerVars, sessionVars, prompts, out>>

Tasks == 1..MaxTask
LiveKinds == {"text", "status", "approval"}
Events == [task : Tasks, shown : BOOLEAN]
Larger(m, n) == IF m < n THEN n ELSE m
NoPending == <<0, 0>>
NoBinding == [bound |-> FALSE, task |-> 0, event |-> 0, live |-> 0, gen |-> 0,
              active |-> FALSE, pending |-> NoPending, mode |-> 0]
IdleHandler == [op |-> "idle", clone |-> NoBinding]
Started == {t \in Tasks : taskStatus[t] # "none"}

\* The last task the session started, 0 for none.
Current == Max({0} \cup Started)
Ended(t) == taskStatus[t] = "ended"

-----------------------------------------------------------------------------
(* The live update hub of the service.                                     *)

\* The cursors the ring still holds.
Ring(t) == {n \in DOMAIN live[t] : n + LiveCapacity > Len(live[t])}

\* LiveUpdateHub.publish: the update takes the next cursor of its task and an
\* approval request is remembered beside the ring.
PublishLive(t, kind) ==
  /\ Len(live[t]) < MaxLive
  /\ live' = [live EXCEPT ![t] = Append(@, kind)]
  /\ hub' = IF kind = "approval"
              THEN [hub EXCEPT ![t] = Len(live[t]) + 1]
              ELSE hub

\* The ring has moved past the cursor.
Gap(t, after) == Ring(t) # {} /\ after + 1 < Min(Ring(t))

\* The updates one page takes, from the cursor on.
FirstAfter(t, after) == {n \in Ring(t) : after < n /\ n <= after + PageLimit}

\* A page without updates whose cursor is the last one of the ring.
SnapshotPage(t, after) ==
  [updates |-> {}, next |-> IF Ring(t) = {} THEN after ELSE Len(live[t]), snapshot |-> TRUE]

\* A page of updates, whose cursor is that of the last one.
UpdatePage(updates, after) ==
  [updates |-> updates, next |-> IF updates = {} THEN after ELSE Max(updates), snapshot |-> FALSE]

\* Mutant: the approval remembered beside the ring is never offered again.
ForgetfulPage(t, after) ==
  IF overflow > observed[t] \/ Gap(t, after)
    THEN SnapshotPage(t, after)
    ELSE UpdatePage(FirstAfter(t, after), after)

\* LiveTaskUpdates.page and live_update_page: updates after the cursor, or the
\* remembered approval when there are none; a gap (the ring moved past the
\* cursor, or the engine dropped updates) is answered with a snapshot.
Page(t, after) ==
  LET fresh == FirstAfter(t, after)
      again == fresh = {} /\ hub[t] # 0 /\ hub[t] <= after
  IN IF overflow > observed[t] \/ Gap(t, after)
       THEN SnapshotPage(t, after)
       ELSE UpdatePage(IF again THEN {hub[t]} ELSE fresh, after)

\* The approval a page asks for, 0 for none (the last one wins).
Asked(t, page) ==
  Max({0} \cup {n \in page.updates : live[t][n] = "approval"})

-----------------------------------------------------------------------------
(* The engine behind the service: what a running task does.                *)

OwnerUnchanged == UNCHANGED <<sessionVars, prompts, out>>

OwnerEvent(t) ==
  /\ taskStatus[t] = "active" /\ Len(log) < MaxLog - 1
  /\ \E shown \in {TRUE} \cup (IF "quiet" \in Ops THEN {FALSE} ELSE {}) :
       log' = Append(log, [task |-> t, shown |-> shown])
  /\ UNCHANGED <<taskStatus, live, hub, awaited, overflow, observed>>
  /\ OwnerUnchanged

OwnerLive(t) ==
  /\ taskStatus[t] = "active"
  /\ \E kind \in {"text"} \cup (IF "quiet" \in Ops THEN {"status"} ELSE {}) :
       PublishLive(t, kind)
  /\ UNCHANGED <<taskStatus, log, awaited, overflow, observed>>
  /\ OwnerUnchanged

\* The bounded channel to the hub is full: the update is dropped and counted.
OwnerOverflow ==
  /\ "overflow" \in Ops /\ overflow = 0
  /\ \E t \in Tasks : taskStatus[t] = "active"
  /\ overflow' = overflow + 1
  /\ UNCHANGED <<taskStatus, log, live, hub, awaited, observed>>
  /\ OwnerUnchanged

\* The engine waits for the owner's decision on one operation.
OwnerApproval(t) ==
  /\ "approval" \in Ops /\ taskStatus[t] = "active" /\ awaited[t] = 0
  /\ Cardinality({n \in DOMAIN live[t] : live[t][n] = "approval"}) < MaxApproval
  /\ PublishLive(t, "approval")
  /\ awaited' = [awaited EXCEPT ![t] = Len(live[t]) + 1]
  /\ UNCHANGED <<taskStatus, log, overflow, observed>>
  /\ OwnerUnchanged

\* The task stops: the status and its event are one transaction.
OwnerStop(t) ==
  /\ taskStatus[t] = "active" /\ awaited[t] = 0 /\ Len(log) < MaxLog
  /\ \E to \in {"ended"} \cup (IF "pause" \in Ops THEN {"paused"} ELSE {}) :
       taskStatus' = [taskStatus EXCEPT ![t] = to]
  /\ log' = Append(log, [task |-> t, shown |-> TRUE])
  /\ UNCHANGED <<live, hub, awaited, overflow, observed>>
  /\ OwnerUnchanged

-----------------------------------------------------------------------------
(* The client's connection and the requests it makes.                      *)

\* A binding as session/new and session/load install it.
Fresh(t, event, liveCursor) ==
  [bound |-> TRUE, task |-> t, event |-> event, live |-> liveCursor, gen |-> 0,
   active |-> FALSE, pending |-> NoPending, mode |-> 0]

Ready == open /\ handler = IdleHandler

Connect ==
  /\ ~open /\ conn < MaxConn
  /\ open' = TRUE /\ conn' = conn + 1
  /\ UNCHANGED <<ownerVars, loads, binding, handler, streams, prompts, out>>

\* The client goes away or the adapter dies: streams and bindings go with it,
\* the tasks stay with the owner.
Disconnect ==
  /\ open /\ "load" \in Ops
  /\ open' = FALSE /\ binding' = NoBinding /\ handler' = IdleHandler /\ streams' = {}
  /\ prompts' = [p \in DOMAIN prompts |->
                   IF prompts[p] \in {"handling", "open"} THEN "lost" ELSE prompts[p]]
  /\ UNCHANGED <<ownerVars, conn, loads, out>>

OpenSession ==
  /\ Ready /\ ~binding.bound /\ Started = {}
  /\ binding' = Fresh(0, 0, 0)
  /\ UNCHANGED <<ownerVars, open, conn, loads, handler, streams, prompts, out>>

\* The cursors a client resumes from: the last ones it was given.
EventCursor == Max({0} \cup out.events)
LiveCursor(t) == Max({0, out.snapshot[t]} \cup {u[2] : u \in {v \in out.lives : v[1] = t}})

\* session/load installs a binding of generation 0 ...
LoadSession ==
  /\ Ready /\ Started # {} /\ loads < MaxLoad
  /\ ~binding.bound \/ "reload" \in Ops
  /\ binding' = Fresh(Current, EventCursor, LiveCursor(Current))
  /\ handler' = [op |-> "replay", clone |-> NoBinding]
  /\ loads' = loads + 1
  /\ out' = [out EXCEPT !.back = MaxLog]
  /\ UNCHANGED <<ownerVars, open, conn, streams, prompts>>

\* A stream starts from the cursors of the binding it was started with.
Stream(kind, id, b) ==
  [kind |-> kind, id |-> id, task |-> b.task, event |-> b.event,
   live |-> b.live, gen |-> b.gen, pc |-> "events", upto |-> 0,
   page |-> [updates |-> {}, next |-> 0, snapshot |-> FALSE]]

\* ... and then takes the stream over for a replay.
StartReplay ==
  /\ handler.op = "replay"
  /\ LET b == [binding EXCEPT !.gen = @ + 1]
     IN /\ binding' = b
        /\ streams' = streams \cup {Stream("replay", loads, b)}
  /\ handler' = IdleHandler
  /\ UNCHANGED <<ownerVars, open, conn, loads, prompts, out>>

\* session/set_config_option clones the binding, asks the service to configure
\* the bound task and stores the clone.
SetConfig ==
  /\ Ready /\ binding.bound /\ "config" \in Ops /\ binding.mode = 0
  /\ handler' = [op |-> "config", clone |-> [binding EXCEPT !.mode = 1]]
  /\ UNCHANGED <<ownerVars, open, conn, loads, binding, streams, prompts, out>>

\* The stored copy may be older than what a stream has stored meanwhile.
Store(b) ==
  /\ binding' = b
  /\ out' = [out EXCEPT !.back = IF b.event < binding.event /\ b.event < @ THEN b.event ELSE @]

StoreConfig ==
  /\ handler.op = "config"
  /\ Store(handler.clone)
  /\ handler' = IdleHandler
  /\ UNCHANGED <<ownerVars, open, conn, loads, streams, prompts>>

\* session/cancel and _task/cancel: the service ends the bound task; the
\* approval it was waiting for is gone, the hub still remembers it.
CancelTask ==
  /\ Ready /\ binding.task # 0 /\ "cancel" \in Ops
  /\ taskStatus[binding.task] \in {"active", "paused"} /\ Len(log) < MaxLog
  /\ taskStatus' = [taskStatus EXCEPT ![binding.task] = "ended"]
  /\ awaited' = [awaited EXCEPT ![binding.task] = 0]
  /\ log' = Append(log, [task |-> binding.task, shown |-> TRUE])
  /\ UNCHANGED <<live, hub, overflow, observed, sessionVars, prompts, out>>

\* _task/resume
ResumeTask ==
  /\ Ready /\ binding.task # 0 /\ taskStatus[binding.task] = "paused"
  /\ Len(log) < MaxLog - 1
  /\ taskStatus' = [taskStatus EXCEPT ![binding.task] = "active"]
  /\ log' = Append(log, [task |-> binding.task, shown |-> TRUE])
  /\ UNCHANGED <<live, hub, awaited, overflow, observed, sessionVars, prompts, out>>

-----------------------------------------------------------------------------
(* session/prompt                                                          *)

PromptKinds == {"text", "approve", "metrics", "mode"}
Outcome(p, what) == prompts' = [prompts EXCEPT ![p] = what]

\* The binding is cloned; an active prompt refuses every other one but
\* /metrics, and a pending approval everything but its own decision.
Refuses(b, kind) ==
  \/ b.active /\ kind # "metrics"
  \/ b.pending # NoPending /\ kind # "approve"
  \/ b.pending = NoPending /\ kind = "approve"
  \/ b.task = 0 /\ kind = "metrics"

SendPrompt(kind) ==
  /\ Ready /\ binding.bound /\ Len(prompts) < MaxPrompt
  /\ kind = "mode" => "config" \in Ops
  /\ \/ /\ Refuses(binding, kind)
        /\ prompts' = Append(prompts, IF kind = "text" THEN "refused" ELSE "rejected")
        /\ handler' = IdleHandler
     \/ /\ ~Refuses(binding, kind) /\ kind = "metrics"
        /\ prompts' = Append(prompts, "answered")
        /\ handler' = IdleHandler
     \/ /\ ~Refuses(binding, kind) /\ kind # "metrics"
        /\ prompts' = Append(prompts, "handling")
        /\ handler' = [op |-> CASE kind = "text"    -> "status"
                                [] kind = "approve" -> "resolve"
                                [] kind = "mode"    -> "mode",
                       clone |-> binding]
  /\ UNCHANGED <<ownerVars, open, conn, loads, binding, streams, out>>

\* The permission slash stores the clone with the new mode and answers.
StoreMode ==
  /\ handler.op = "mode"
  /\ Store([handler.clone EXCEPT !.mode = 1])
  /\ Outcome(Len(prompts), "answered")
  /\ handler' = IdleHandler
  /\ UNCHANGED <<ownerVars, open, conn, loads, streams>>

\* ServiceCommand::ResolveApproval: the decision reaches the engine only while
\* the task is active and waits for this very code; otherwise the prompt fails.
ResolveApproval ==
  /\ handler.op = "resolve"
  /\ LET t == handler.clone.pending[1]
         n == handler.clone.pending[2]
     IN \/ /\ taskStatus[t] = "active" /\ awaited[t] = n
           /\ awaited' = [awaited EXCEPT ![t] = 0]
           /\ handler' = [handler EXCEPT !.op = "clear"]
           /\ UNCHANGED prompts
        \/ /\ ~(taskStatus[t] = "active" /\ awaited[t] = n)
           /\ Outcome(Len(prompts), "rejected")
           /\ handler' = IdleHandler
           /\ UNCHANGED awaited
  /\ UNCHANGED <<taskStatus, log, live, hub, overflow, observed,
                 open, conn, loads, binding, streams, out>>

\* clear_pending_approval, after the engine acknowledged the decision.
ClearApproval ==
  /\ handler.op = "clear"
  /\ hub' = [hub EXCEPT ![handler.clone.pending[1]] = 0]
  /\ handler' = [op |-> "bind", clone |-> [handler.clone EXCEPT !.pending = NoPending]]
  /\ UNCHANGED <<taskStatus, log, live, awaited, overflow, observed,
                 open, conn, loads, binding, streams, prompts, out>>

\* A plain prompt steers the bound task unless its status is terminal.
PromptStatus ==
  /\ handler.op = "status"
  /\ LET t == handler.clone.task
     IN handler' = [handler EXCEPT !.op = IF t # 0 /\ ~Ended(t) THEN "steer" ELSE "start"]
  /\ UNCHANGED <<ownerVars, open, conn, loads, binding, streams, prompts, out>>

SteerTask ==
  /\ handler.op = "steer"
  /\ IF Ended(handler.clone.task)
       THEN Outcome(Len(prompts), "rejected") /\ handler' = IdleHandler
       ELSE handler' = [handler EXCEPT !.op = "bind"] /\ UNCHANGED prompts
  /\ UNCHANGED <<ownerVars, open, conn, loads, binding, streams, out>>

\* StartTask creates the next task of the session; a task the bounds leave no
\* room for is refused.
StartTask ==
  /\ handler.op = "start"
  /\ \/ /\ Current < MaxTask /\ Len(log) < MaxLog - 1
        /\ taskStatus' = [taskStatus EXCEPT ![Current + 1] = "active"]
        /\ log' = Append(log, [task |-> Current + 1, shown |-> TRUE])
        /\ handler' = [op |-> "bind", clone |-> [handler.clone EXCEPT !.task = Current + 1]]
        /\ UNCHANGED prompts
     \/ /\ ~(Current < MaxTask /\ Len(log) < MaxLog - 1)
        /\ Outcome(Len(prompts), "rejected")
        /\ handler' = IdleHandler
        /\ UNCHANGED <<taskStatus, log>>
  /\ UNCHANGED <<live, hub, awaited, overflow, observed,
                 open, conn, loads, binding, streams, out>>

\* The clone is stored with the cursors the binding has now and the next
\* generation, which ends every earlier stream; the prompt's stream starts.
BindPrompt ==
  /\ handler.op = "bind"
  /\ LET b == [handler.clone EXCEPT !.active = TRUE, !.gen = binding.gen + 1,
                 !.event = binding.event, !.live = binding.live]
     IN /\ binding' = b
        /\ streams' = streams \cup {Stream("prompt", Len(prompts), b)}
        /\ out' = IF b.task # binding.task
                    THEN [out EXCEPT !.carried[b.task] = Larger(@, b.live)]
                    ELSE out
  /\ Outcome(Len(prompts), "open")
  /\ handler' = IdleHandler
  /\ UNCHANGED <<ownerVars, open, conn, loads>>

-----------------------------------------------------------------------------
(* poll_service_prompt and replay_service_events: one pass over events,    *)
(* live updates and status, repeated until the task stops or an approval   *)
(* is pending.                                                             *)

\* owns_service_stream, and how a stream goes on, ends and answers its prompt.
Owns(s) == binding.bound /\ binding.gen = s.gen
Become(s, t) == streams' = (streams \ {s}) \cup {t}
Quit(s) == streams' = streams \ {s}
AnswerPrompt(s, what) == IF s.kind = "prompt" THEN Outcome(s.id, what) ELSE UNCHANGED prompts

FetchEvents(s) ==
  /\ s.pc = "events" /\ Owns(s)
  /\ Become(s, [s EXCEPT !.pc = "deliver", !.upto = Len(log)])
  /\ UNCHANGED <<ownerVars, open, conn, loads, binding, handler, prompts, out>>

\* The events of the stream's task that one page still has to deliver.
Fetched(s) == {n \in (s.event + 1)..s.upto : log[n].task = s.task}

\* The event has been sent before, or a later one has, and no stored
\* configuration moved the cursor back below it since.
SentBefore(n) == n <= out.back /\ \E m \in out.events : n <= m

\* The client is sent event n.
Seen(n) ==
  [out EXCEPT !.events = @ \cup {n}, !.again = @ \cup {m \in {n} : SentBefore(m)}]

\* Mutant: the binding takes the page's last cursor with its first event.
EagerDeliver(s) ==
  /\ s.pc = "deliver" /\ Owns(s) /\ Fetched(s) # {}
  /\ LET n == Min(Fetched(s))
     IN /\ Become(s, [s EXCEPT !.event = n])
        /\ binding' = [binding EXCEPT !.event = s.upto]
        /\ out' = IF log[n].shown THEN Seen(n) ELSE out
  /\ UNCHANGED <<ownerVars, open, conn, loads, handler, prompts>>

\* Each event is written and its cursor stored under one lock.
DeliverEvent(s) ==
  /\ s.pc = "deliver" /\ Owns(s) /\ Fetched(s) # {}
  /\ LET n == Min(Fetched(s))
     IN /\ Become(s, [s EXCEPT !.event = n])
        /\ binding' = [binding EXCEPT !.event = n]
        /\ out' = IF log[n].shown THEN Seen(n) ELSE out
  /\ UNCHANGED <<ownerVars, open, conn, loads, handler, prompts>>

\* poll_live_service_updates: the page is read here and applied later.
FetchLive(s) ==
  /\ s.pc = "deliver" /\ Fetched(s) = {}
  /\ Become(s, [s EXCEPT !.pc = "live", !.page = Page(s.task, s.live)])
  /\ observed' = [observed EXCEPT ![s.task] = overflow]
  /\ UNCHANGED <<taskStatus, log, live, hub, awaited, overflow,
                 open, conn, loads, binding, handler, prompts, out>>

\* The updates that are written to the client: text, diffs and approvals.
Visible(t) == {n \in DOMAIN live[t] : live[t][n] # "status"}

\* The client is sent a page: its visible updates, or the snapshot.
Shown(s) ==
  [out EXCEPT !.lives = @ \cup {<<s.task, n>> : n \in s.page.updates \cap Visible(s.task)},
              !.snapshot[s.task] = IF s.page.snapshot THEN Larger(@, s.page.next) ELSE @]

\* Frames and cursors are stored under one lock; an approval is noted on the
\* binding and ends the stream, and with it the prompt.
DeliverLive(s) ==
  /\ s.pc = "live" /\ Owns(s)
  /\ out' = Shown(s)
  /\ LET n == Asked(s.task, s.page)
         t == [s EXCEPT !.live = s.page.next, !.pc = "status"]
         b == [binding EXCEPT !.live = s.page.next,
                              !.event = IF s.kind = "replay" THEN s.event ELSE @]
     IN \/ /\ n # 0
           /\ Quit(s) /\ AnswerPrompt(s, "answered")
           /\ binding' = [b EXCEPT !.pending = <<s.task, n>>,
                                   !.active = @ /\ s.kind # "prompt"]
        \/ /\ n = 0
           /\ Become(s, t) /\ binding' = b /\ UNCHANGED prompts
  /\ UNCHANGED <<ownerVars, open, conn, loads, handler>>

\* ServiceCommand::Status, and another pass unless the task has stopped.
FetchStatus(s) ==
  /\ s.pc = "status"
  /\ Become(s, IF taskStatus[s.task] = "active"
                 THEN [s EXCEPT !.pc = "events"]
                 ELSE [s EXCEPT !.pc = "finish"])
  /\ UNCHANGED <<ownerVars, open, conn, loads, binding, handler, prompts, out>>

\* The cursors are stored and the prompt is answered.
FinishStream(s) ==
  /\ s.pc = "finish"
  /\ binding' = IF s.kind = "prompt" /\ Owns(s)
                  THEN [binding EXCEPT !.event = s.event, !.live = s.live, !.active = FALSE]
                  ELSE binding
  /\ Quit(s) /\ AnswerPrompt(s, "answered")
  /\ UNCHANGED <<ownerVars, open, conn, loads, handler, out>>

\* A stream whose generation was replaced stops where it next looks.
LoseStream(s) ==
  /\ s.pc \in {"events", "deliver", "live"} /\ ~Owns(s)
  /\ s.pc = "deliver" => Fetched(s) # {}
  /\ Quit(s)
  /\ UNCHANGED <<ownerVars, open, conn, loads, binding, handler, prompts, out>>

\* A request of the stream fails: the prompt is answered with an error, except
\* where the live page could not be read; the binding is left as it is.
FailStream(s) ==
  /\ "fail" \in Ops /\ s.pc \in {"events", "deliver", "status"}
  /\ s.pc = "deliver" => Fetched(s) = {}
  /\ Quit(s)
  /\ IF s.pc = "deliver" THEN UNCHANGED prompts ELSE AnswerPrompt(s, "failed")
  /\ UNCHANGED <<ownerVars, open, conn, loads, binding, handler, out>>

\* On a Buzz connection the updates of a page are published before they are
\* written; a publication that fails ends the stream.
FailPublisher(s) ==
  /\ "publisher" \in Ops /\ s.kind = "prompt" /\ s.pc = "live"
  /\ s.page.updates \cap Visible(s.task) # {}
  /\ Quit(s)
  /\ UNCHANGED <<ownerVars, open, conn, loads, binding, handler, prompts, out>>

-----------------------------------------------------------------------------
AdapterInit ==
  /\ taskStatus = [t \in Tasks |-> "none"] /\ log = <<>>
  /\ live = [t \in Tasks |-> <<>>]
  /\ hub = [t \in Tasks |-> 0] /\ awaited = [t \in Tasks |-> 0]
  /\ overflow = 0 /\ observed = [t \in Tasks |-> 0]
  /\ open = FALSE /\ conn = 0 /\ loads = 0
  /\ binding = NoBinding /\ handler = IdleHandler /\ streams = {}
  /\ prompts = <<>>
  /\ out = [events |-> {}, again |-> {}, back |-> MaxLog, lives |-> {},
            snapshot |-> [t \in Tasks |-> 0], carried |-> [t \in Tasks |-> 0]]

Engine(t) == OwnerEvent(t) \/ OwnerLive(t) \/ OwnerApproval(t) \/ OwnerStop(t)

Client ==
  \/ Connect \/ Disconnect \/ OpenSession \/ LoadSession \/ SetConfig
  \/ CancelTask \/ ResumeTask
  \/ \E kind \in PromptKinds : SendPrompt(kind)

Handler ==
  \/ StartReplay \/ StoreConfig \/ StoreMode \/ ResolveApproval \/ ClearApproval
  \/ PromptStatus \/ SteerTask \/ StartTask \/ BindPrompt

Polls(s) ==
  \/ FetchEvents(s) \/ DeliverEvent(s) \/ FetchLive(s) \/ DeliverLive(s)
  \/ FetchStatus(s) \/ FinishStream(s) \/ LoseStream(s)

AdapterNext ==
  \/ \E t \in Tasks : Engine(t)
  \/ OwnerOverflow
  \/ Client
  \/ Handler
  \/ \E s \in streams : Polls(s) \/ FailStream(s) \/ FailPublisher(s)

AdapterSpec == AdapterInit /\ [][AdapterNext]_adapterVars

\* The runtime schedules every spawned stream and the handler, and a task that
\* does not wait for its owner stops eventually (its budget ends it).
AdapterFairness ==
  /\ WF_adapterVars(Handler)
  /\ \A p \in 1..MaxPrompt :
       WF_adapterVars(\E s \in streams : s.kind = "prompt" /\ s.id = p /\ Polls(s))
  /\ \A p \in 0..MaxLoad :
       WF_adapterVars(\E s \in streams : s.kind = "replay" /\ s.id = p /\ Polls(s))
  /\ \A t \in Tasks : WF_adapterVars(OwnerStop(t))

-----------------------------------------------------------------------------

(* Properties                                                              *)

Outcomes == {"refused", "rejected", "answered", "handling", "open", "lost", "failed"}
HandlerOps == {"idle", "replay", "config", "mode", "status", "steer", "start", "resolve", "clear", "bind"}
Bindings ==
  [bound : BOOLEAN, task : 0..MaxTask, event : Nat, live : Nat, gen : Nat,
   active : BOOLEAN, pending : {NoPending} \cup (Tasks \X Nat), mode : 0..1]
Pages == [updates : SUBSET Nat, next : Nat, snapshot : BOOLEAN]
Streams ==
  [kind : {"prompt", "replay"}, id : Nat, task : Tasks, event : Nat, live : Nat, gen : Nat,
   pc : {"events", "deliver", "live", "status", "finish"}, upto : Nat, page : Pages]
Received ==
  [events : SUBSET Nat, again : SUBSET Nat, back : Nat, lives : SUBSET (Tasks \X Nat),
   snapshot : [Tasks -> Nat], carried : [Tasks -> Nat]]

\* The adapter and the service keep the shapes their types give them.
AdapterTypeOK ==
  /\ taskStatus \in [Tasks -> {"none", "active", "paused", "ended"}]
  /\ log \in Seq(Events)
  /\ live \in [Tasks -> Seq(LiveKinds)]
  /\ hub \in [Tasks -> Nat] /\ awaited \in [Tasks -> Nat]
  /\ overflow \in Nat /\ observed \in [Tasks -> Nat]
  /\ open \in BOOLEAN /\ conn \in Nat /\ loads \in Nat
  /\ binding \in Bindings /\ handler \in [op : HandlerOps, clone : Bindings]
  /\ streams \subseteq Streams /\ prompts \in Seq(Outcomes)
  /\ out \in Received

\* At most one running stream owns the session binding: whoever asks
\* owns_service_stream, only one of two streams is told yes.
OneStream == \A s, r \in streams : Owns(s) /\ Owns(r) => s = r

\* The client is given durable events in journal order and never twice, across
\* prompts, replays and reconnections that resume from its own cursor; events
\* above a cursor that a stored configuration moved back are the exception.
InOrderOnce == out.again = {}

\* What the session's event cursor has passed of a task was sent, unless it is
\* an event that is not shown.
EventsSent(t, cursor) ==
  \A n \in DOMAIN log : n <= cursor /\ log[n].task = t /\ log[n].shown => n \in out.events

\* The event cursor stored for the session (and reported to the client as the
\* point to resume from) never passes an event of the task that was not sent.
NoEventSkipped == binding.bound => EventsSent(binding.task, binding.event)

\* What a live cursor has passed of a task was sent, or covered by a snapshot,
\* or is below the cursor the task was given of the task before it.
LivesSent(t, cursor) ==
  \A n \in Visible(t) :
    n <= cursor => <<t, n>> \in out.lives \/ n <= out.snapshot[t] \/ n <= out.carried[t]

\* The live cursor stored for the session never passes a visible update of its
\* task that was neither sent nor covered by a snapshot, beyond the cursor the
\* task was given of the task before it.
NoLiveSkipped == binding.bound /\ binding.task # 0 => LivesSent(binding.task, binding.live)

\* The client gets the durable events of its task in order, none twice and none
\* passed over by the cursor stored for it, from one stream at a time, also when
\* streams fail, the task is resumed or the session is loaded again
\* (poll_service_task, replay_service_task).
EventsOnce ==
  /\ AdapterTypeOK
  /\ OneStream
  /\ InOrderOnce
  /\ NoEventSkipped
  /\ NoLiveSkipped

\* Every prompt the adapter takes gets a response unless the client leaves.
PromptAnswered == <>[](\A p \in DOMAIN prompts : prompts[p] \notin {"handling", "open"})

\* An approval the engine waits for reaches the client of a running stream,
\* also when the ring has dropped it, so that it can be decided.
ApprovalSurfaces ==
  <>[](\A t \in Tasks : awaited[t] # 0 /\ open /\ (\E s \in streams : Owns(s) /\ s.task = t)
         => binding.bound /\ binding.pending = <<t, awaited[t]>>)

=============================================================================
