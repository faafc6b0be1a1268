------------------------------ MODULE AcpKernel ------------------------------
(***************************************************************************)
(* KernelActor: one actor multiplexes the interactive turns of several ACP  *)
(* sessions over one agent port.  While it drives the turn of one session   *)
(* it alone reads the port, so it routes the events of the others; a turn   *)
(* that waits for the owner's decision is left paused and resumed later.    *)
(***************************************************************************)
EXTENDS Integers, Sequences, FiniteSets, SequencesExt

CONSTANTS
  Sessions, BuzzSessions, NoSession,
  Requests, NoRequest,
  RoutedCapacity,     \* ROUTED_EVENT_CAPACITY
  RoutedPerSession,   \* ROUTED_EVENTS_PER_SESSION
  MaxEpochs,          \* bound: turns of one session
  MaxEvents,          \* bound: events of one epoch
  MaxCodes,           \* bound: bypass codes of one session
  Modes,              \* permission modes sessions are created with: "Plan", "Default", "FullAccess"
  Switches,           \* permission modes clients switch to
  Kinds,              \* kinds of events the provider sends: "item", "itemEnd", "content", "context",
                      \* "effect", "badEffect", "done", "failed"
  Faults              \* what may fail: "append", "port", "publish", "expire", "global"

\* Bypass is not one of the modes a session is given or a client switches to: it
\* takes a code.
KernelConstants ==
  /\ NoSession \notin Sessions /\ NoRequest \notin Requests
  /\ {RoutedCapacity, RoutedPerSession, MaxEpochs} \subseteq Nat
  /\ "Bypass" \notin Modes \cup Switches
  /\ Kinds \subseteq {"item", "itemEnd", "content", "context", "effect", "badEffect",
                     "done", "failed"}

VARIABLES
  conf,          \* SessionState configuration, and what was reported of it
  turn,          \* SessionState.active
  driver,        \* the session whose turn drive_turn drives
  routed,        \* routed_events
  routedCount,   \* routed_event_count
  failures,      \* routed_failures
  epoch,         \* per session and number: the provider's epoch and its turn's end
  req,           \* effect requests: owner, durable grant, display code, decision
  alive          \* the actor runs

kernelVars == <<conf, turn, driver, routed, routedCount, failures, epoch, req, alive>>
routeVars == <<routed, routedCount, failures>>

\* PermissionMode::profile and permission_strength.
FullAccess(m) == m \in {"FullAccess", "Bypass"}
Strength(m) == CASE m = "Plan" -> 0 [] m = "Default" -> 1 [] OTHER -> 2

NoTurn == [epoch |-> 0, on |-> NoRequest, item |-> FALSE, log |-> <<>>]
NoConf == [mode |-> "none", pending |-> "none", durable |-> "none", reported |-> "none",
           bypass |-> FALSE, codes |-> 0, consumed |-> 0, admitted |-> FALSE]
Idle(s) == turn[s].epoch = 0
Epochs == 1..MaxEpochs

KernelInit ==
  /\ conf = [s \in Sessions |-> NoConf]
  /\ turn = [s \in Sessions |-> NoTurn]
  /\ driver = NoSession
  /\ routed = [s \in Sessions |-> <<>>] /\ routedCount = 0 /\ failures = {}
  /\ epoch = [s \in Sessions |-> [n \in Epochs |->
                [state |-> "none", emitted |-> 0, ended |-> 0]]]
  /\ req = [r \in Requests |-> [owner |-> NoSession, epoch |-> 0, grant |-> "none",
                                code |-> "none", decision |-> "open"]]
  /\ alive = TRUE

-----------------------------------------------------------------------------
(* Sessions and their configuration *)

\* new_session: a session of Buzz without a context waits for its admission.
NewSession(s, m) ==
  /\ alive /\ driver = NoSession /\ conf[s].mode = "none"
  /\ conf' = [conf EXCEPT ![s] = [NoConf EXCEPT !.mode = m, !.durable = m, !.reported = m,
                                                !.admitted = s \notin BuzzSessions]]
  /\ UNCHANGED <<turn, driver, routeVars, epoch, req, alive>>

\* attach_buzz_context: the first admission of the owner gives full access.
AttachBuzz(s) ==
  /\ alive /\ driver = NoSession /\ s \in BuzzSessions
  /\ conf[s].mode # "none" /\ ~conf[s].admitted
  /\ conf' = [conf EXCEPT ![s].admitted = TRUE, ![s].mode = "FullAccess",
                          ![s].durable = "FullAccess", ![s].reported = "FullAccess"]
  /\ UNCHANGED <<turn, driver, routeVars, epoch, req, alive>>

\* persist_configuration: when the store fails the new configuration stays
\* in memory, and the caller is told that it was not applied.
Persisted(s, c, m) ==
  \/ conf' = [conf EXCEPT ![s] = [c EXCEPT !.mode = m, !.durable = m, !.reported = m]]
  \/ /\ "append" \in Faults
     /\ conf' = [conf EXCEPT ![s] = [c EXCEPT !.mode = m]]

\* set_config on an idle session.
SetConfigIdle(s, m) ==
  /\ alive /\ driver = NoSession /\ conf[s].mode # "none" /\ Idle(s)
  /\ Persisted(s, conf[s], m)
  /\ UNCHANGED <<turn, driver, routeVars, epoch, req, alive>>

\* set_config on a session with a turn: paused, or the one that is driven.
\* A tightening interrupts the epoch that is being driven, and only that.
SetConfigActive(s, m) ==
  /\ alive /\ driver \in {NoSession, s} /\ ~Idle(s)
  /\ conf' = [conf EXCEPT ![s].pending = m, ![s].reported = m]
  /\ IF driver = s /\ Strength(m) < Strength(conf[s].mode)
     THEN \/ epoch' = [epoch EXCEPT ![s][turn[s].epoch].state = "interrupted"]
          \/ "port" \in Faults /\ UNCHANGED epoch
     ELSE UNCHANGED epoch
  /\ UNCHANGED <<turn, driver, routeVars, req, alive>>

\* set_config of a remote bypass: a code to confirm, no change of mode.
RequestBypass(s) ==
  /\ alive /\ driver = NoSession /\ conf[s].mode # "none" /\ Idle(s)
  /\ conf[s].codes + conf[s].consumed < MaxCodes
  /\ conf' = [conf EXCEPT ![s].bypass = TRUE, ![s].codes = @ + 1]
  /\ UNCHANGED <<turn, driver, routeVars, epoch, req, alive>>

\* confirm_bypass: any live code of the pending digest, consumed.
ConfirmBypass(s) ==
  /\ alive /\ driver = NoSession /\ Idle(s) /\ s \notin failures
  /\ conf[s].bypass /\ conf[s].codes > 0
  /\ Persisted(s, [conf[s] EXCEPT !.bypass = FALSE, !.codes = @ - 1, !.consumed = @ + 1],
               "Bypass")
  /\ UNCHANGED <<turn, driver, routeVars, epoch, req, alive>>

\* apply_pending_configuration, as an update of the session's record, which
\* the kernel keeps when the configuration could not be saved.
AppliedPending(c, saved) ==
  IF c.pending = "none" THEN c
  ELSE [c EXCEPT !.mode = c.pending, !.durable = IF saved THEN c.pending ELSE @,
                 !.pending = "none"]

\* Whether the configuration can be saved.
Saves == IF "append" \in Faults THEN BOOLEAN ELSE {TRUE}

-----------------------------------------------------------------------------
(* A turn and its events *)

\* begin_prompt: a session whose backlog overflowed refuses one prompt.
PromptAfterOverflow(s) ==
  /\ alive /\ driver = NoSession /\ s \in failures
  /\ failures' = failures \ {s}
  /\ UNCHANGED <<conf, turn, driver, routed, routedCount, epoch, req, alive>>

BeginPrompt(s) ==
  /\ alive /\ driver = NoSession /\ s \notin failures
  /\ conf[s].admitted /\ Idle(s)
  /\ \E n \in Epochs :
       /\ epoch[s][n].state = "none"
       /\ \A k \in 1..(n - 1) : epoch[s][k].state # "none"
       /\ epoch' = [epoch EXCEPT ![s][n].state = "running"]
       /\ turn' = [turn EXCEPT ![s] = [NoTurn EXCEPT !.epoch = n]]
  /\ driver' = s
  /\ UNCHANGED <<conf, routeVars, req, alive>>

\* fail_active_turn: the journal entry is best effort; the epoch is left alone.
FailTurn(s, ep) ==
  /\ \/ epoch' = [ep EXCEPT ![s][turn[s].epoch].ended = @ + 1]
     \/ "append" \in Faults /\ epoch' = ep
  /\ turn' = [turn EXCEPT ![s] = NoTurn]

\* An error of process_provider_event ends drive_turn.
Failed(s, ep, rq) ==
  /\ FailTurn(s, ep)
  /\ req' = rq
  /\ driver' = NoSession
  /\ UNCHANGED conf

\* A step that is processed and leaves the turn driven.
Continues(s, t, ep, rq) ==
  /\ turn' = [turn EXCEPT ![s] = t]
  /\ epoch' = ep /\ req' = rq
  /\ UNCHANGED <<driver, conf>>

Granted(rq, r, g) == [rq EXCEPT ![r].grant = g]
Decided(rq, r, d) == [rq EXCEPT ![r].decision = d]
Coded(rq, r) == [rq EXCEPT ![r].grant = "pending", ![r].code = "live"]

\* deny_unsupported_effect, an unknown item or a secret: denied, turn failed.
DenyEffect(s, r, ep, rq) ==
  \/ Failed(s, ep, Decided(rq, r, "deny"))
  \/ "port" \in Faults /\ Failed(s, ep, rq)

\* Mutant: the provider is told before the authorization is durable.
AutoAllowFirst(s, r, t, ep, rq) ==
  \/ Continues(s, t, ep, Decided(Granted(rq, r, "auto"), r, "allow"))
  \/ "append" \in Faults /\ Failed(s, ep, Decided(rq, r, "allow"))

\* authorize_full_access_effect: journal, authorize, then allow.
AutoAllow(s, r, t, ep, rq) ==
  \/ Continues(s, t, ep, Decided(Granted(rq, r, "auto"), r, "allow"))
  \/ "append" \in Faults /\ Failed(s, ep, rq)
  \/ "port" \in Faults /\ Failed(s, ep, Granted(rq, r, "auto"))

\* pause_for_approval: proposal, approval record and code, then publication.
\* What could not be published is denied, which the port may fail to deliver.
Pause(s, r, t, ep, rq) ==
  \/ /\ turn' = [turn EXCEPT ![s] = [t EXCEPT !.on = r]]
     /\ driver' = NoSession
     /\ epoch' = ep /\ req' = Coded(rq, r)
     /\ UNCHANGED conf
  \/ "append" \in Faults /\ Failed(s, ep, rq)
  \/ "publish" \in Faults /\ Failed(s, ep, Decided(Coded(rq, r), r, "deny"))
  \/ {"publish", "port"} \subseteq Faults /\ Failed(s, ep, Coded(rq, r))

\* EpochCompleted: final publication, TurnCompleted, pending configuration.
Completes(s, ep, rq) ==
  \/ /\ epoch' = [ep EXCEPT ![s][turn[s].epoch].ended = @ + 1]
     /\ turn' = [turn EXCEPT ![s] = NoTurn]
     /\ \E saved \in Saves : conf' = [conf EXCEPT ![s] = AppliedPending(@, saved)]
     /\ driver' = NoSession
     /\ req' = rq
  \/ {"publish", "append"} \cap Faults # {} /\ Failed(s, ep, rq)

\* active_event_matches: the event is of the active turn's epoch; the start of
\* a context and its compaction name the context alone.
ActiveEventMatches(s, e) == e.kind = "context" \/ e.ep = turn[s].epoch

\* process_provider_event.
Process(s, e, ep, rq) ==
  LET t == [turn[s] EXCEPT !.log = Append(@, e.num)] IN
  IF ~ActiveEventMatches(s, e)
  THEN Continues(s, turn[s], ep, rq)
  ELSE CASE e.kind = "item" ->
              IF t.item THEN Failed(s, ep, rq)
              ELSE Continues(s, [t EXCEPT !.item = TRUE], ep, rq)
         [] e.kind = "itemEnd" ->
              IF t.item THEN Continues(s, [t EXCEPT !.item = FALSE], ep, rq)
              ELSE Failed(s, ep, rq)
         [] e.kind = "context" ->
              \/ Continues(s, IF e.ep = turn[s].epoch THEN t ELSE turn[s], ep, rq)
              \/ "append" \in Faults /\ Failed(s, ep, rq)
         [] e.kind = "content" ->
              \/ Continues(s, t, ep, rq)
              \/ {"append", "publish"} \cap Faults # {} /\ Failed(s, ep, rq)
         [] e.kind = "badEffect" -> DenyEffect(s, e.req, ep, rq)
         [] e.kind = "effect" ->
              IF ~t.item THEN DenyEffect(s, e.req, ep, rq)
              ELSE IF FullAccess(conf[s].mode) THEN AutoAllow(s, e.req, t, ep, rq)
              ELSE Pause(s, e.req, t, ep, rq)
         [] e.kind = "done" -> Completes(s, ep, rq)
         [] e.kind = "failed" -> Failed(s, ep, rq)

\* route_event: an event of a session that is not driven.  An overflow throws
\* the backlog away, fails the turn, denies the request it waits on (the port
\* may fail, and takes one answer to a request) and interrupts its epoch.
RouteEvent(s, e, ep, rq) ==
  IF s \in failures
  THEN /\ epoch' = ep /\ req' = rq
       /\ UNCHANGED <<turn, routeVars>>
  ELSE IF routedCount >= RoutedCapacity \/ Len(routed[s]) >= RoutedPerSession
  THEN /\ routed' = [routed EXCEPT ![s] = <<>>]
       /\ routedCount' = routedCount - Len(routed[s])
       /\ failures' = failures \cup {s}
       /\ IF Idle(s) THEN epoch' = ep /\ req' = rq /\ UNCHANGED turn
          ELSE /\ FailTurn(s, [ep EXCEPT ![s][turn[s].epoch].state =
                                 IF @ = "running" THEN "interrupted" ELSE @])
               /\ \/ /\ turn[s].on # NoRequest /\ rq[turn[s].on].decision = "open"
                     /\ req' = Decided(rq, turn[s].on, "deny")
                  \/ /\ \/ turn[s].on = NoRequest \/ rq[turn[s].on].decision # "open"
                        \/ "port" \in Faults
                     /\ req' = rq
  ELSE /\ routed' = [routed EXCEPT ![s] = Append(@, e)]
       /\ routedCount' = routedCount + 1
       /\ epoch' = ep /\ req' = rq
       /\ UNCHANGED <<turn, failures>>

\* The provider's side of an event: the epoch n of s sends its next event.
\* An epoch that was interrupted may still have events under way.
Emitted(s, n, kind) ==
  [epoch EXCEPT ![s][n].emitted = @ + 1,
                ![s][n].state = IF kind \in {"done", "failed"} THEN "stopped" ELSE @]
Requested(r, s, n) ==
  IF r = NoRequest THEN req ELSE [req EXCEPT ![r].owner = s, ![r].epoch = n]

\* event_owner, session_for_context: a context belongs to one session.
IsForeign(s) == s # driver

\* drive_turn: one event of the port, for the driven session or another.
ProviderEvent(s, n, kind, r) ==
  /\ alive /\ driver # NoSession /\ routed[driver] = <<>>
  /\ epoch[s][n].state \in {"running", "interrupted"}
  /\ epoch[s][n].emitted < MaxEvents
  /\ kind \in {"effect", "badEffect"} <=> r # NoRequest
  /\ r # NoRequest => req[r].owner = NoSession
  /\ LET e == [ep |-> n, num |-> epoch[s][n].emitted + 1, kind |-> kind, req |-> r]
         ep == Emitted(s, n, kind)
         rq == Requested(r, s, n)
     IN IF IsForeign(s)
        THEN RouteEvent(s, e, ep, rq) /\ UNCHANGED <<conf, driver>>
        ELSE Process(s, e, ep, rq) /\ UNCHANGED routeVars
  /\ UNCHANGED alive

\* Mutant: a backlog is read from its end.
TakeRoutedLast ==
  /\ alive /\ driver # NoSession /\ routed[driver] # <<>>
  /\ routed' = [routed EXCEPT ![driver] = Front(@)]
  /\ routedCount' = routedCount - 1
  /\ Process(driver, Last(routed[driver]), epoch, req)
  /\ UNCHANGED <<failures, alive>>

\* drive_turn: the backlog comes first, oldest event first.
TakeRouted ==
  /\ alive /\ driver # NoSession /\ routed[driver] # <<>>
  /\ routed' = [routed EXCEPT ![driver] = Tail(@)]
  /\ routedCount' = routedCount - 1
  /\ Process(driver, Head(routed[driver]), epoch, req)
  /\ UNCHANGED <<failures, alive>>

\* drive_turn: the port fails, or reports a failure of no epoch.
ProviderFails ==
  /\ "global" \in Faults
  /\ alive /\ driver # NoSession /\ routed[driver] = <<>>
  /\ Failed(driver, epoch, req)
  /\ UNCHANGED <<routeVars, alive>>

\* The provider stops an interrupted epoch.
EpochStops(s, n) ==
  /\ epoch[s][n].state = "interrupted"
  /\ epoch' = [epoch EXCEPT ![s][n].state = "stopped"]
  /\ UNCHANGED <<conf, turn, driver, routeVars, req, alive>>

-----------------------------------------------------------------------------
(* Owner commands on a turn *)

\* cancel_session, then what the caller does: run leaves the configuration
\* alone, drive_turn applies it.
Cancel(s) ==
  /\ alive /\ driver \in {NoSession, s} /\ ~Idle(s)
  /\ LET n == turn[s].epoch
         ep == [epoch EXCEPT ![s][n].state = IF @ = "running" THEN "interrupted" ELSE @]
     IN \/ /\ epoch' = [ep EXCEPT ![s][n].ended = @ + 1]
           /\ turn' = [turn EXCEPT ![s] = NoTurn]
           /\ driver' = NoSession
           /\ \E saved \in Saves :
                conf' = IF driver = s THEN [conf EXCEPT ![s] = AppliedPending(@, saved)] ELSE conf
        \/ /\ "append" \in Faults
           /\ epoch' = ep
           /\ UNCHANGED <<turn, driver, conf>>
  /\ UNCHANGED <<routeVars, req, alive>>

Expire(r) ==
  /\ "expire" \in Faults /\ req[r].code = "live"
  /\ req' = [req EXCEPT ![r].code = "expired"]
  /\ UNCHANGED <<conf, turn, driver, routeVars, epoch, alive>>

\* resume_approval: /approve or /deny with the live code.  The code is
\* consumed first; the answer to the provider or the journal may then fail,
\* and the turn stays paused.
ResumeApproval(s, g) ==
  LET r == turn[s].on
      d == IF g = "allowed" THEN "allow" ELSE "deny"
      consumed == [req EXCEPT ![r].grant = g, ![r].code = "used"]
  IN
  /\ alive /\ driver = NoSession /\ s \notin failures /\ r # NoRequest
  /\ req[r].code = "live"
  /\ \/ /\ req' = Decided(consumed, r, d)
        /\ turn' = [turn EXCEPT ![s].on = NoRequest]
        /\ driver' = s
     \/ /\ "port" \in Faults
        /\ req' = consumed
        /\ UNCHANGED <<turn, driver>>
     \/ /\ "append" \in Faults
        /\ req' = Decided(consumed, r, d)
        /\ UNCHANGED <<turn, driver>>
  /\ UNCHANGED <<conf, routeVars, epoch, alive>>

\* Shutdown: the driven turn is cancelled, or stays when that cannot be
\* journalled; paused turns are not; the actor ends and shuts the port down.
Shutdown ==
  /\ alive
  /\ \E cancelled \in {driver} \cup (IF "append" \in Faults THEN {NoSession} ELSE {}) :
       /\ epoch' = [s \in Sessions |-> [n \in Epochs |->
            [state |-> IF epoch[s][n].state = "none" THEN "none" ELSE "stopped",
             emitted |-> epoch[s][n].emitted,
             ended |-> epoch[s][n].ended +
                       (IF s = cancelled /\ n = turn[s].epoch THEN 1 ELSE 0)]]]
       /\ turn' = IF cancelled = NoSession THEN turn ELSE [turn EXCEPT ![cancelled] = NoTurn]
  /\ alive' = FALSE
  /\ driver' = NoSession
  /\ UNCHANGED <<conf, routeVars, req>>

KernelNext ==
  \/ \E s \in Sessions :
       \/ \E m \in Modes : NewSession(s, m)
       \/ \E m \in Switches : SetConfigIdle(s, m) \/ SetConfigActive(s, m)
       \/ AttachBuzz(s) \/ RequestBypass(s) \/ ConfirmBypass(s)
       \/ PromptAfterOverflow(s) \/ BeginPrompt(s) \/ Cancel(s)
       \/ \E g \in {"allowed", "denied"} : ResumeApproval(s, g)
       \/ \E n \in Epochs :
            \/ EpochStops(s, n)
            \/ \E kind \in Kinds, r \in Requests \cup {NoRequest} :
                 ProviderEvent(s, n, kind, r)
  \/ TakeRouted \/ ProviderFails \/ Shutdown
  \/ \E r \in Requests : Expire(r)

KernelSpec == KernelInit /\ [][KernelNext]_kernelVars

-----------------------------------------------------------------------------
(* Properties *)

\* Type invariant of the kernel actor's state.
KernelTypeOK ==
  /\ \A s \in Sessions :
       /\ conf[s].mode \in Modes \cup Switches \cup {"none", "FullAccess", "Bypass"}
       /\ turn[s].epoch \in 0..MaxEpochs
       /\ turn[s].on \in Requests \cup {NoRequest}
       /\ \A n \in Epochs : epoch[s][n].state \in {"none", "running", "interrupted", "stopped"}
  /\ driver \in Sessions \cup {NoSession}
  /\ failures \subseteq Sessions
  /\ routedCount \in Nat

\* The places of the events that wait.
Waiting == UNION {{s} \X DOMAIN routed[s] : s \in Sessions}

\* routed_event_count is the number of events that wait, within its capacity
\* (each driver relies on it to bound the memory other sessions take), and a
\* session marked as overflowed has neither a backlog nor a turn: drive_turn
\* never meets its own failure mark.
RoutedCounted ==
  /\ routedCount = Cardinality(Waiting)
  /\ routedCount <= RoutedCapacity
  /\ \A s \in Sessions : Len(routed[s]) <= RoutedPerSession
  /\ \A s \in failures : routed[s] = <<>> /\ Idle(s)

\* A turn processes the events of its epoch exactly once, in the order the
\* provider sent them and without a gap, however often it was paused while
\* other sessions read the port.
EventsInOrder ==
  \A s \in Sessions : turn[s].log = [i \in 1..Len(turn[s].log) |-> i]

\* The journal records at most one end of a turn, and none of an active one.
TurnEndsOnce ==
  \A s \in Sessions : \A n \in Epochs :
    /\ epoch[s][n].ended <= 1
    /\ turn[s].epoch = n => epoch[s][n].ended = 0

\* A turn processes the events of its epoch once each and in order, however
\* often it was paused while others read the port; what waits is counted and
\* bounded; and the journal holds one end of a turn (drive_turn, route_event).
TurnsInOrder == KernelTypeOK /\ RoutedCounted /\ EventsInOrder /\ TurnEndsOnce

\* The provider is told to go ahead only for a request of the turn that is
\* active, by the driver of that turn or by its owner's resume, never for
\* an epoch that was left behind or on behalf of another session.
AllowIsTimely ==
  [][\A r \in Requests :
       req'[r].decision = "allow" /\ req[r].decision # "allow" =>
         LET s == req'[r].owner IN
         /\ turn[s].epoch = req'[r].epoch
         /\ driver = s \/ (driver = NoSession /\ turn[s].on = r)]_kernelVars

\* Every activation of the bypass mode uses up a code of its own that was
\* shown before; nothing else leads to the mode when it is not selectable
\* locally.
BypassNeedsCode ==
  [][\A s \in Sessions :
       conf'[s].mode = "Bypass" /\ conf[s].mode # "Bypass" =>
         conf'[s].consumed > conf[s].consumed]_kernelVars

\* Grants and answers of the requests, a grant that waits being none.
Approval == INSTANCE ExactApproval WITH
  grant <- [r \in Requests |-> IF req[r].grant = "pending" THEN "none" ELSE req[r].grant],
  decision <- [r \in Requests |-> req[r].decision]

\* The kernel implements the exact approval of effects (ExactApproval); the
\* provider is told to go ahead only by the turn the request belongs to, and
\* the bypass mode uses up a code of its own (handle_effect, resume_approval,
\* confirm_bypass).
ApprovalIsExact ==
  /\ Approval!ApprovalSpec
  /\ AllowIsTimely
  /\ BypassNeedsCode

=============================================================================
