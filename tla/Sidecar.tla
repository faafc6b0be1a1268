------------------------------- MODULE Sidecar -------------------------------
(***************************************************************************)
(* JsonlSidecar: a child process that is spoken to in JSON lines.  Callers  *)
(* make requests and may be dropped at any await; a supervisor task owns    *)
(* the table of pending requests; a writer and a reader task own the pipes. *)
(* A request is identified by r, its JSON id by key[r]: ids may be reused,  *)
(* so an answer can meet the wrong request.                                 *)
(***************************************************************************)
EXTENDS Naturals, Sequences, FiniteSets

CONSTANTS
  Calls,      \* calls of JsonlSidecar::request
  Keys,          \* JSON ids
  Cancels,       \* calls of JsonlSidecar::cancel
  ServerIds,     \* ids of requests the child makes
  NoCall,
  MaxPending,    \* MAX_PENDING_REQUESTS
  MaxAbandoned,  \* MAX_ABANDONED_REQUEST_IDS
  EventCap,      \* SUPERVISOR_CHANNEL_CAPACITY
  WriterCap,     \* WRITER_CHANNEL_CAPACITY
  NotifyCap,     \* NOTIFICATION_ and SERVER_REQUEST_CHANNEL_CAPACITY
  ReuseIds,      \* whether callers may use an id again
  Mishaps         \* what the environment does: "exit", "garbage", "overrun", "drop", "invalid"

\* Bounds are numbers, ids are finitely many, and NoCall is none of the calls.
SidecarConstants ==
  /\ IsFiniteSet(Keys) /\ NoCall \notin Calls
  /\ {MaxPending, MaxAbandoned, EventCap, WriterCap, NotifyCap} \subseteq Nat

VARIABLES
  pc,            \* a request: idle, register, ack, enqueue, queued, await, done, dropped
  key,           \* its id
  ack,           \* the acknowledgement it waits for: none, ok, duplicate, error
  resp,          \* its response channel: open, the request answered, or error
  pending,       \* PendingRequests by id
  abandoned,     \* abandoned_count
  abandonments,  \* Abandonments::queue
  overflowed,    \* Abandonments::overflowed
  events,        \* channel to the supervisor
  lines,         \* channel to the writer
  notes,         \* buffered notifications
  serverQ,       \* buffered requests of the child
  activeServer,  \* active_server_requests
  sup,           \* supervisor: top, recv, drain, terminate, reap, gone
  writer,        \* writer_worker is alive
  reader,        \* stdout_worker is alive
  state,         \* running, cancelling, stopped
  child,         \* live, dead, reaped
  killed,        \* start_kill was called
  received,      \* requests whose line the child has read
  answered,      \* requests the child has answered
  asked,         \* ids the child has used for requests of its own
  stdout,        \* lines of the child not yet read
  cpc,           \* a cancel: idle, send, wait, served, join, joining, done
  cres,          \* its result: none, ok, error
  handle         \* supervisor_task has not been taken

callerVars == <<pc, key, ack, resp>>
tableVars == <<pending, abandoned>>
abandonVars == <<abandonments, overflowed>>
childVars == <<child, received, answered, asked, stdout>>
inboxVars == <<notes, serverQ, activeServer>>
cancelVars == <<cpc, cres, handle>>
sidecarVars == <<callerVars, tableVars, abandonVars, events, lines, inboxVars,
                 sup, writer, reader, state, childVars, killed, cancelVars>>

NoPending == [req |-> NoCall, enqueued |-> FALSE, abandoned |-> FALSE]
Awaiting == {"register", "ack", "enqueue", "queued", "await"}
Armed == {"enqueue", "queued", "await"}
Active == {r \in Calls : pc[r] \in Awaiting}
Ev(kind, r) == [kind |-> kind, req |-> r]

\* spawn_prechecked: the four tasks run, nothing is pending.
SidecarInit ==
  /\ pc = [r \in Calls |-> "idle"]
  /\ key \in [Calls -> Keys]
  /\ ReuseIds \/ \A q, r \in Calls : q # r => key[q] # key[r]
  /\ ack = [r \in Calls |-> "none"]
  /\ resp = [r \in Calls |-> "open"]
  /\ pending = [k \in Keys |-> NoPending]
  /\ abandoned = 0
  /\ abandonments = <<>> /\ overflowed = FALSE
  /\ events = <<>> /\ lines = <<>>
  /\ notes = 0 /\ serverQ = <<>> /\ activeServer = {}
  /\ sup = "top" /\ writer = TRUE /\ reader = TRUE
  /\ state = "running"
  /\ child = "live" /\ killed = FALSE
  /\ received = {} /\ answered = {} /\ asked = {} /\ stdout = <<>>
  /\ cpc = [x \in Cancels |-> "idle"]
  /\ cres = [x \in Cancels |-> "none"]
  /\ handle = TRUE

-----------------------------------------------------------------------------
(* request: a caller *)

Returns(r, value) ==
  /\ pc' = [pc EXCEPT ![r] = "done"]
  /\ resp' = [resp EXCEPT ![r] = value]

\* PendingRegistration::drop: the registration is armed from its
\* acknowledgement to the response, and tells whether the line was queued; a
\* full queue stops the sidecar.
DropRegistration(r) ==
  IF pc[r] \notin Armed
  THEN UNCHANGED <<abandonments, overflowed, state, killed>>
  ELSE IF Len(abandonments) >= MaxAbandoned
  THEN /\ overflowed' = TRUE
       /\ state' = "stopped"
       /\ killed' = TRUE
       /\ UNCHANGED abandonments
  ELSE /\ abandonments' = Append(abandonments,
                                 [key |-> key[r], enqueued |-> pc[r] # "enqueue"])
       /\ UNCHANGED <<overflowed, state, killed>>

\* A slot is acquired, then the state, the id and the length are checked.
Request(r) ==
  /\ pc[r] = "idle"
  /\ Cardinality(Active) < MaxPending
  /\ \/ /\ state = "running"
        /\ pc' = [pc EXCEPT ![r] = "register"]
        /\ UNCHANGED resp
     \/ /\ state # "running" \/ "invalid" \in Mishaps
        /\ Returns(r, "error")
  /\ UNCHANGED <<key, ack, tableVars, abandonVars, events, lines, inboxVars, sup,
                 writer, reader, state, childVars, killed, cancelVars>>

\* Register and Enqueue are sent and acknowledged one after the other; a send
\* waits for room in the channel and fails when the supervisor is gone.
SendEvent(r) ==
  /\ pc[r] \in {"register", "enqueue"}
  /\ \/ /\ sup # "gone"
        /\ Len(events) < EventCap
        /\ events' = Append(events, Ev(pc[r], r))
        /\ ack' = [ack EXCEPT ![r] = "none"]
        /\ pc' = [pc EXCEPT ![r] = IF @ = "register" THEN "ack" ELSE "queued"]
        /\ UNCHANGED <<resp, abandonments, overflowed, state, killed>>
     \/ /\ sup = "gone"
        /\ Returns(r, "error")
        /\ DropRegistration(r)
        /\ UNCHANGED <<events, ack>>
  /\ UNCHANGED <<key, tableVars, lines, inboxVars, sup, writer, reader,
                 childVars, cancelVars>>

\* The acknowledgement arrives, or its sender was dropped with the supervisor.
Acknowledged(r) ==
  /\ pc[r] \in {"ack", "queued"}
  /\ \/ /\ ack[r] = "ok"
        /\ pc' = [pc EXCEPT ![r] = IF @ = "ack" THEN "enqueue" ELSE "await"]
        /\ UNCHANGED <<resp, abandonVars, state, killed>>
     \/ /\ ack[r] \in {"duplicate", "error"} \/ (ack[r] = "none" /\ sup = "gone")
        /\ Returns(r, IF ack[r] = "duplicate" THEN ack[r] ELSE "error")
        /\ DropRegistration(r)
  /\ UNCHANGED <<key, ack, tableVars, events, lines, inboxVars, sup,
                 writer, reader, childVars, cancelVars>>

\* The response arrives, or its sender was dropped; disarm.
Responded(r) ==
  /\ pc[r] = "await"
  /\ resp[r] # "open" \/ sup = "gone"
  /\ Returns(r, IF resp[r] = "open" THEN "error" ELSE resp[r])
  /\ UNCHANGED <<key, ack, tableVars, abandonVars, events, lines, inboxVars, sup,
                 writer, reader, state, childVars, killed, cancelVars>>

\* The future of a request is dropped at an await (a timeout, an abort).
DropRequest(r) ==
  /\ "drop" \in Mishaps
  /\ pc[r] \in Awaiting
  /\ pc' = [pc EXCEPT ![r] = "dropped"]
  /\ DropRegistration(r)
  /\ UNCHANGED <<key, ack, resp, tableVars, events, lines, inboxVars, sup,
                 writer, reader, childVars, cancelVars>>

-----------------------------------------------------------------------------
(* The pipes and the child *)

\* writer_worker: a line is written, and that of a request is then reported (the
\* child may have answered it by then), or the pipe is broken.
WriterStep ==
  /\ writer /\ lines # <<>>
  /\ \/ /\ Head(lines) \in Calls \ received /\ child = "live"
        /\ received' = received \cup {Head(lines)}
        /\ UNCHANGED <<lines, events, writer>>
     \/ /\ Head(lines) \in received /\ Len(events) < EventCap
        /\ events' = Append(events, Ev("written", Head(lines)))
        /\ lines' = Tail(lines)
        /\ UNCHANGED <<received, writer>>
     \/ /\ Head(lines) \notin Calls /\ child = "live"
        /\ lines' = Tail(lines)
        /\ UNCHANGED <<received, events, writer>>
     \/ /\ Head(lines) \notin received /\ child # "live" /\ Len(events) < EventCap
        /\ events' = Append(events, Ev("exited", NoCall))
        /\ writer' = FALSE
        /\ UNCHANGED <<lines, received>>
  /\ UNCHANGED <<callerVars, tableVars, abandonVars, inboxVars, sup, reader, state,
                 child, answered, asked, stdout, killed, cancelVars>>

\* stdout_worker: a line, the end of the output (a child may close it and live),
\* or what is no JSON line.
ReaderStep ==
  /\ reader
  /\ Len(events) < EventCap
  /\ \/ /\ stdout # <<>> /\ Head(stdout).kind # "broken"
        /\ events' = Append(events, Head(stdout))
        /\ stdout' = Tail(stdout)
        /\ UNCHANGED reader
     \/ /\ stdout # <<>> /\ Head(stdout).kind = "broken"
        /\ events' = Append(events, Ev("violation", NoCall))
        /\ reader' = FALSE
        /\ UNCHANGED stdout
     \/ /\ stdout = <<>>
        /\ child # "live" \/ "exit" \in Mishaps
        /\ events' = Append(events, Ev("exited", NoCall))
        /\ reader' = FALSE
        /\ UNCHANGED stdout
  /\ UNCHANGED <<callerVars, tableVars, abandonVars, lines, inboxVars, sup, writer,
                 state, child, received, answered, asked, killed, cancelVars>>

\* The child answers a request it has read, makes a request of its own, sends a
\* notification, writes what it must not, or exits.
ChildWrites ==
  /\ child = "live"
  /\ \/ \E r \in received \ answered :
          /\ stdout' = Append(stdout, Ev("response", r))
          /\ answered' = answered \cup {r}
          /\ UNCHANGED asked
     \/ \E s \in ServerIds \ asked :
          /\ stdout' = Append(stdout, Ev("request", s))
          /\ asked' = asked \cup {s}
          /\ UNCHANGED answered
     \/ /\ "overrun" \in Mishaps /\ Len(stdout) <= NotifyCap
        /\ stdout' = Append(stdout, Ev("notification", NoCall))
        /\ UNCHANGED <<answered, asked>>
     \/ /\ "garbage" \in Mishaps /\ stdout = <<>>
        /\ \E k \in {"broken", "unknown"} : stdout' = <<Ev(k, NoCall)>>
        /\ UNCHANGED <<answered, asked>>
  /\ UNCHANGED <<callerVars, tableVars, abandonVars, events, lines, inboxVars, sup,
                 writer, reader, state, child, received, killed, cancelVars>>

ChildExits ==
  /\ child = "live"
  /\ killed \/ "exit" \in Mishaps
  /\ child' = "dead"
  /\ UNCHANGED <<callerVars, tableVars, abandonVars, events, lines, inboxVars, sup,
                 writer, reader, state, received, answered, asked, stdout, killed,
                 cancelVars>>

-----------------------------------------------------------------------------
(* supervisor_worker *)

Closed(r) == pc[r] \in {"done", "dropped"}

\* pending.retain at the top of the loop.
Retained(p) ==
  [k \in Keys |->
    IF p[k].req = NoCall \/ p[k].enqueued \/ p[k].abandoned \/ ~Closed(p[k].req)
    THEN p[k] ELSE NoPending]

\* apply_abandonment on a table t, with the requests whose sender it drops.
ApplyAbandonment(t, a) ==
  LET p == t.pending[a.key] IN
  IF p.req = NoCall \/ ~t.ok THEN t
  ELSE IF ~a.enqueued /\ ~p.enqueued THEN [t EXCEPT !.pending[a.key] = NoPending]
  ELSE IF p.abandoned THEN t
  ELSE IF t.count >= MaxAbandoned THEN [t EXCEPT !.ok = FALSE]
  ELSE [t EXCEPT !.pending[a.key].abandoned = TRUE, !.count = @ + 1, !.cut = @ \cup {p.req}]

\* drain_abandonments: in the order of the queue, up to the first that fails.
DrainAbandonments(p) ==
  LET drained[n \in 0 .. Len(abandonments)] ==
        IF n = 0 THEN [pending |-> p, count |-> abandoned, cut |-> {}, ok |-> TRUE]
        ELSE ApplyAbandonment(drained[n - 1], abandonments[n])
  IN  drained[Len(abandonments)]

\* fail_pending: every response channel that is still held gets the error.
FailPending(p) ==
  resp' = [r \in Calls |->
            IF \E k \in Keys : p[k].req = r /\ ~p[k].abandoned /\ resp[r] = "open"
            THEN "error" ELSE resp[r]]

\* shutdown_supervisor, up to the reaping of the child.
ShutdownSupervisor(p) ==
  /\ state' = "stopped"
  /\ killed' = TRUE
  /\ writer' = FALSE /\ reader' = FALSE
  /\ FailPending(p)
  /\ pending' = [k \in Keys |-> NoPending]
  /\ sup' = "reap"

\* The top of the loop: dropped requests leave the table or are marked.
SupervisorTop ==
  /\ sup = "top"
  /\ LET kept == Retained(pending)
         t == DrainAbandonments(kept)
     IN
     \/ /\ ~overflowed
        /\ abandonments' = <<>>
        /\ abandoned' = t.count
        /\ \/ /\ t.ok
              /\ pending' = t.pending
              /\ resp' = [r \in Calls |-> IF r \in t.cut /\ resp[r] = "open"
                                          THEN "error" ELSE resp[r]]
              /\ sup' = "recv"
              /\ UNCHANGED <<state, killed, writer, reader>>
           \/ /\ ~t.ok
              /\ ShutdownSupervisor(t.pending)
     \/ /\ overflowed
        /\ ShutdownSupervisor(kept)
        /\ UNCHANGED <<abandonments, abandoned>>
  /\ UNCHANGED <<pc, key, ack, overflowed, events, lines, inboxVars, childVars,
                 cancelVars>>

\* After an event, and when none came in time, the child is polled.
PollExit ==
  /\ sup' = IF child = "live" THEN "top" ELSE "drain"
  /\ IF child = "live"
     THEN UNCHANGED <<state, killed, writer>>
     ELSE state' = "stopped" /\ killed' = TRUE /\ writer' = FALSE

Register(r) ==
  /\ IF pending[key[r]].req # NoCall
     THEN ack' = [ack EXCEPT ![r] = "duplicate"] /\ UNCHANGED pending
     ELSE IF state = "running" /\ ~Closed(r)
     THEN /\ ack' = [ack EXCEPT ![r] = "ok"]
          /\ pending' = [pending EXCEPT ![key[r]] = [NoPending EXCEPT !.req = r]]
     ELSE ack' = [ack EXCEPT ![r] = "error"] /\ UNCHANGED pending
  /\ PollExit
  /\ UNCHANGED <<resp, abandoned, lines, inboxVars, reader>>

\* The line goes to the writer only for a request that is in the table.
Enqueue(r) ==
  \/ /\ pending[key[r]].req # NoCall /\ Len(lines) < WriterCap /\ writer
     /\ pending' = [pending EXCEPT ![key[r]].enqueued = TRUE]
     /\ lines' = Append(lines, r)
     /\ ack' = [ack EXCEPT ![r] = "ok"]
     /\ PollExit
     /\ UNCHANGED <<resp, abandoned, inboxVars, reader>>
  \/ /\ pending[key[r]].req = NoCall \/ Len(lines) >= WriterCap \/ ~writer
     /\ ack' = [ack EXCEPT ![r] = "error"]
     /\ ShutdownSupervisor(pending)
     /\ UNCHANGED <<abandoned, lines, inboxVars>>

\* handle_incoming accepts the message ...
Acceptable(m) ==
  \/ m.kind = "request" /\ m.req \notin activeServer /\ Len(serverQ) < NotifyCap
  \/ m.kind = "response" /\ pending[key[m.req]].req # NoCall
  \/ m.kind = "notification" /\ notes < NotifyCap

\* Mutant: the late response to an abandoned request does not free its budget.
HandleIncomingLeaks(m) ==
  /\ IF m.kind = "response"
     THEN LET p == pending[key[m.req]] IN
          /\ pending' = [pending EXCEPT ![key[m.req]] = NoPending]
          /\ resp' = [resp EXCEPT ![p.req] = IF @ = "open" THEN m.req ELSE @]
     ELSE UNCHANGED <<pending, resp>>
  /\ UNCHANGED <<abandoned, inboxVars>>

\* ... and routes it: to the queue of requests or notifications, or to the
\* request that is pending under the id of the response.
HandleIncoming(m) ==
  /\ IF m.kind = "response"
     THEN LET p == pending[key[m.req]] IN
          /\ pending' = [pending EXCEPT ![key[m.req]] = NoPending]
          /\ IF p.abandoned
             THEN abandoned' = abandoned - 1 /\ UNCHANGED resp
             ELSE /\ resp' = [resp EXCEPT ![p.req] = IF @ = "open" THEN m.req ELSE @]
                  /\ UNCHANGED abandoned
     ELSE UNCHANGED <<pending, abandoned, resp>>
  /\ notes' = IF m.kind = "notification" THEN notes + 1 ELSE notes
  /\ serverQ' = IF m.kind = "request" THEN Append(serverQ, m.req) ELSE serverQ
  /\ activeServer' = IF m.kind = "request" THEN activeServer \cup {m.req}
                     ELSE activeServer

Incoming(m) ==
  \/ /\ Acceptable(m)
     /\ HandleIncoming(m)
     /\ PollExit
     /\ UNCHANGED <<ack, lines, reader>>
  \/ /\ ~Acceptable(m)
     /\ ShutdownSupervisor(pending)
     /\ UNCHANGED <<ack, lines, abandoned, inboxVars>>

\* The answer to a request of the child; its id must be active.
ServerResponse(s) ==
  \/ /\ s \in activeServer /\ Len(lines) < WriterCap /\ writer
     /\ activeServer' = activeServer \ {s}
     /\ lines' = Append(lines, s)
     /\ PollExit
     /\ UNCHANGED <<ack, resp, tableVars, notes, serverQ, reader>>
  \/ /\ s \notin activeServer \/ Len(lines) >= WriterCap \/ ~writer
     /\ activeServer' = activeServer \ {s}
     /\ ShutdownSupervisor(pending)
     /\ UNCHANGED <<ack, abandoned, lines, notes, serverQ>>

\* A line that was written marks whoever is pending under its id now.
MarkWritten(r) ==
  pending' = IF pending[key[r]].req = NoCall THEN pending
             ELSE [pending EXCEPT ![key[r]].enqueued = TRUE]

WrittenEvent(r) ==
  /\ MarkWritten(r)
  /\ PollExit
  /\ UNCHANGED <<ack, resp, abandoned, lines, inboxVars, reader>>

\* A cancellation closes stdin and asks the group to terminate.
CancelEvent(x) ==
  /\ cpc' = [cpc EXCEPT ![x] = "served"]
  /\ state' = "cancelling"
  /\ writer' = FALSE
  /\ sup' = "terminate"
  /\ UNCHANGED <<ack, resp, tableVars, lines, inboxVars, reader, killed>>

\* The select of the loop: one event and the poll of the child.
SupervisorRecv ==
  /\ sup = "recv"
  /\ events # <<>>
  /\ LET e == Head(events) IN
     /\ \/ e.kind = "register" /\ Register(e.req)
        \/ e.kind = "enqueue" /\ Enqueue(e.req)
        \/ e.kind = "written" /\ WrittenEvent(e.req)
        \/ e.kind \in {"response", "request", "notification", "unknown"} /\ Incoming(e)
        \/ e.kind = "answer" /\ ServerResponse(e.req)
        \/ /\ e.kind \in {"exited", "violation"}
           /\ ShutdownSupervisor(pending)
           /\ UNCHANGED <<ack, abandoned, lines, inboxVars>>
        \/ e.kind = "cancel" /\ CancelEvent(e.req)
     /\ events' = Tail(events)
     /\ e.kind # "cancel" => UNCHANGED cpc
  /\ UNCHANGED <<pc, key, abandonVars, childVars, cres, handle>>

\* No event within process_poll_interval.
SupervisorTick ==
  /\ sup = "recv"
  /\ events = <<>>
  /\ PollExit
  /\ UNCHANGED <<callerVars, tableVars, abandonVars, events, lines, inboxVars, reader,
                 childVars, cancelVars>>

\* drain_after_leader_exit: what the child wrote before it exited is still
\* routed, a written line marks its request; everything else is refused.
DrainEvent ==
  /\ sup = "drain"
  /\ events # <<>>
  /\ LET e == Head(events) IN
     /\ events' = Tail(events)
     /\ IF Acceptable(e) THEN HandleIncoming(e)
        ELSE /\ IF e.kind = "written" THEN MarkWritten(e.req) ELSE UNCHANGED pending
             /\ UNCHANGED <<abandoned, resp, inboxVars>>
     /\ ack' = IF e.kind \in {"register", "enqueue"}
               THEN [ack EXCEPT ![e.req] = "error"] ELSE ack
     /\ IF e.kind = "cancel"
        THEN /\ cres' = [cres EXCEPT ![e.req] = "ok"]
             /\ cpc' = [cpc EXCEPT ![e.req] = "join"]
        ELSE UNCHANGED <<cres, cpc>>
  /\ UNCHANGED <<pc, key, abandonVars, lines, sup, writer, reader, state, childVars,
                 killed, handle>>

DrainDropped ==
  /\ sup = "drain"
  /\ abandonments # <<>> /\ ~overflowed
  /\ LET t == DrainAbandonments(pending) IN
     /\ pending' = t.pending
     /\ abandoned' = t.count
     /\ resp' = [r \in Calls |-> IF r \in t.cut /\ resp[r] = "open"
                                    THEN "error" ELSE resp[r]]
  /\ abandonments' = <<>>
  /\ UNCHANGED <<pc, key, ack, overflowed, events, lines, inboxVars, sup, writer,
                 reader, state, childVars, killed, cancelVars>>

\* Mutant: the drain waits until every pending request has been answered.
DrainEndsWhenAnswered ==
  /\ sup = "drain"
  /\ ~reader /\ events = <<>>
  /\ \A k \in Keys : pending[k].req = NoCall
  /\ sup' = "reap"
  /\ UNCHANGED <<callerVars, tableVars, abandonVars, events, lines, inboxVars,
                 writer, reader, state, childVars, killed, cancelVars>>

\* The output is exhausted; the rest of the table fails.  (The deadline of the
\* drain only matters when a descendant keeps the pipe open.)
DrainEnds ==
  /\ sup = "drain"
  /\ ~reader /\ events = <<>>
  /\ FailPending(pending)
  /\ pending' = [k \in Keys |-> NoPending]
  /\ sup' = "reap"
  /\ UNCHANGED <<pc, key, ack, abandoned, abandonVars, events, lines, inboxVars,
                 writer, reader, state, childVars, killed, cancelVars>>

\* force_kill_and_reap: within its deadline, or not.  With the supervisor go
\* the channel and the acknowledgements in it.
Reap ==
  /\ sup = "reap"
  /\ killed' = TRUE
  /\ child' \in {"reaped"} \cup ({child} \cap {"live"})
  /\ sup' = "gone"
  /\ events' = <<>>
  /\ UNCHANGED <<callerVars, tableVars, abandonVars, lines, inboxVars, writer, reader,
                 state, received, answered, asked, stdout, cancelVars>>

\* terminate_process: the child goes at the first signal, or is killed and
\* reaped or not; then the pending requests fail and the canceller is told.
Terminate ==
  /\ sup = "terminate"
  /\ killed' = TRUE
  /\ child' \in {"reaped"} \cup ({child} \cap {"live"})
  /\ \E x \in Cancels :
       /\ cpc[x] = "served"
       /\ cpc' = [cpc EXCEPT ![x] = "join"]
       /\ cres' = [cres EXCEPT ![x] = IF child' = "reaped" THEN "ok" ELSE "error"]
  /\ reader' = FALSE
  /\ FailPending(pending)
  /\ pending' = [k \in Keys |-> NoPending]
  /\ state' = "stopped"
  /\ sup' = "gone"
  /\ events' = <<>>
  /\ UNCHANGED <<pc, key, ack, abandoned, abandonVars, lines, inboxVars, writer,
                 received, answered, asked, stdout, handle>>

-----------------------------------------------------------------------------
(* cancel, the inboxes, drop *)

CancelCall(x) ==
  /\ cpc[x] \in {"idle", "send"}
  /\ \/ /\ cpc[x] = "idle"
        /\ cpc' = [cpc EXCEPT ![x] = IF state = "stopped" THEN "join" ELSE "send"]
        /\ cres' = [cres EXCEPT ![x] = IF state = "stopped" THEN "ok" ELSE "none"]
        /\ UNCHANGED events
     \/ /\ cpc[x] = "send" /\ sup # "gone" /\ Len(events) < EventCap
        /\ events' = Append(events, Ev("cancel", x))
        /\ cpc' = [cpc EXCEPT ![x] = "wait"]
        /\ UNCHANGED cres
     \/ /\ cpc[x] = "send" /\ sup = "gone"
        /\ cpc' = [cpc EXCEPT ![x] = "join"]
        /\ cres' = [cres EXCEPT ![x] = "error"]
        /\ UNCHANGED events
  /\ UNCHANGED <<callerVars, tableVars, abandonVars, lines, inboxVars, sup, writer,
                 reader, state, childVars, killed, handle>>

\* The completion was dropped with the supervisor.
CancelDropped(x) ==
  /\ cpc[x] = "wait" /\ sup = "gone"
  /\ cpc' = [cpc EXCEPT ![x] = "join"]
  /\ cres' = [cres EXCEPT ![x] = "error"]
  /\ UNCHANGED <<callerVars, tableVars, abandonVars, events, lines, inboxVars, sup,
                 writer, reader, state, childVars, killed, handle>>

\* wait_for_supervisor: the first canceller takes the handle and waits.
Join(x) ==
  /\ \/ /\ cpc[x] = "join" /\ handle
        /\ handle' = FALSE
        /\ cpc' = [cpc EXCEPT ![x] = "joining"]
     \/ /\ (cpc[x] = "join" /\ ~handle) \/ (cpc[x] = "joining" /\ sup = "gone")
        /\ cpc' = [cpc EXCEPT ![x] = "done"]
        /\ UNCHANGED handle
  /\ UNCHANGED <<callerVars, tableVars, abandonVars, events, lines, inboxVars, sup,
                 writer, reader, state, childVars, killed, cres>>

\* next_notification and next_server_request with respond_to_server_request.
TakeNotification ==
  /\ notes > 0
  /\ notes' = notes - 1
  /\ UNCHANGED <<callerVars, tableVars, abandonVars, events, lines, serverQ,
                 activeServer, sup, writer, reader, state, childVars, killed, cancelVars>>

AnswerServer ==
  /\ serverQ # <<>>
  /\ serverQ' = Tail(serverQ)
  /\ events' = IF sup # "gone" /\ Len(events) < EventCap
               THEN Append(events, Ev("answer", Head(serverQ))) ELSE events
  /\ UNCHANGED <<callerVars, tableVars, abandonVars, lines, notes, activeServer, sup,
                 writer, reader, state, childVars, killed, cancelVars>>

\* Drop for JsonlSidecar: nobody uses it any more.
DropSidecar ==
  /\ Active = {} /\ \A x \in Cancels : cpc[x] \in {"idle", "done"}
  /\ handle /\ sup # "gone"
  /\ state' = "stopped" /\ killed' = TRUE
  /\ writer' = FALSE /\ reader' = FALSE
  /\ sup' = "gone" /\ events' = <<>>
  /\ UNCHANGED <<callerVars, tableVars, abandonVars, lines, inboxVars, childVars,
                 cancelVars>>

-----------------------------------------------------------------------------
CallerStep(r) == SendEvent(r) \/ Acknowledged(r) \/ Responded(r)
CancelStep(x) == CancelCall(x) \/ CancelDropped(x) \/ Join(x)
SupervisorStep ==
  SupervisorTop \/ SupervisorRecv \/ SupervisorTick \/ DrainEvent \/ DrainDropped
  \/ DrainEnds \/ Reap \/ Terminate

SidecarNext ==
  \/ \E r \in Calls : Request(r) \/ DropRequest(r) \/ CallerStep(r)
  \/ \E x \in Cancels : CancelStep(x)
  \/ SupervisorStep
  \/ WriterStep \/ ReaderStep \/ ChildWrites \/ ChildExits
  \/ TakeNotification \/ AnswerServer \/ DropSidecar

SidecarSpec == SidecarInit /\ [][SidecarNext]_sidecarVars

\* Tasks of a running runtime are polled when they can go on, and the permits
\* of a bounded channel are given out in the order they were asked for.
FairSidecarSpec ==
  /\ SidecarSpec
  /\ WF_sidecarVars(SupervisorStep)
  /\ WF_sidecarVars(ReaderStep)
  /\ \A r \in Calls : SF_sidecarVars(CallerStep(r))
  /\ \A x \in Cancels : SF_sidecarVars(cpc[x] # "idle" /\ CancelStep(x))

-----------------------------------------------------------------------------
(* Properties *)

\* Callers, table, channels and tasks keep their types (JsonlSidecar,
\* PendingRequests).
SidecarTypeOK ==
  /\ pc \in [Calls -> Awaiting \cup {"idle", "done", "dropped"}]
  /\ ack \in [Calls -> {"none", "ok", "duplicate", "error"}]
  /\ resp \in [Calls -> Calls \cup {"open", "error", "duplicate"}]
  /\ pending \in [Keys -> [req : Calls \cup {NoCall},
                           enqueued : BOOLEAN, abandoned : BOOLEAN]]
  /\ abandoned \in 0 .. MaxAbandoned
  /\ Len(events) <= EventCap /\ Len(lines) <= WriterCap
  /\ notes \in 0 .. NotifyCap /\ Len(serverQ) <= NotifyCap
  /\ sup \in {"top", "recv", "drain", "terminate", "reap", "gone"}
  /\ state \in {"running", "cancelling", "stopped"}
  /\ child \in {"live", "dead", "reaped"}

\* abandoned_count is the number of ids that still wait for a late response,
\* so that the budget is neither leaked nor exceeded.
AbandonedAreCounted ==
  sup \in {"top", "recv", "drain"} =>
    abandoned = Cardinality({k \in Keys : pending[k].abandoned})

\* The child never outlives its supervisor: every way out kills the group.
ChildIsKilled == sup = "gone" => killed \/ child # "live"

\* The budget of abandoned ids is neither leaked nor exceeded, however requests
\* are dropped, channels stay within their capacities, and the child never
\* outlives its supervisor (PendingRegistration, supervisor_worker).
DroppedAreCounted == SidecarTypeOK /\ AbandonedAreCounted /\ ChildIsKilled

\* Once the sidecar has stopped no request waits any more.
StopWakesEveryRequest == <>[](state = "stopped" => \A r \in Calls : pc[r] \notin Awaiting)

\* cancel returns, whatever fills the pipes and whoever else cancels.
CancelReturns == <>[](\A x \in Cancels : cpc[x] \in {"idle", "done"})

=============================================================================
