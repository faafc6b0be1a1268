----------------------------- MODULE AppServer -----------------------------
(***************************************************************************)
(* The adapter of the Codex app server (delegates/codex/app_server.rs) for *)
(* one thread.  The provider writes notifications and approval requests    *)
(* into two queues the adapter reads only while one of its calls awaits an *)
(* event: next_event for the task engine, start_turn until the new turn    *)
(* reported its start, compact_thread until the compaction turn completed. *)
(* An agent message that may be the report of the epoch is withheld, and   *)
(* handed out when its turn completes.                                     *)
(*                                                                         *)
(* The provider is orderly: it reports the start of a turn first, closes   *)
(* its messages before it completes the turn, and asks for approval while  *)
(* the turn runs.  It may fail a turn half way, and what it wrote before   *)
(* an interruption stays in the queues.  Requests and their responses are  *)
(* one step: the adapter reads neither queue while it waits for one.       *)
(***************************************************************************)
EXTENDS Integers, Sequences, FiniteSets, SequencesExt

CONSTANTS
    MaxTurns,       \* turns of the provider, compactions included
    MaxDeltas,      \* fragments of agent messages in a turn
    MaxMessages,    \* agent messages in a turn
    MaxRequests,    \* approval requests of the provider
    MaxQueued,      \* notifications the provider runs ahead
    MaxCalls        \* calls refused or failed

\* What a proof needs of them.
AppConstants == MaxTurns \in Nat

VARIABLES
    stage,                  \* how far the connection got: its models, its thread
    notices, requests,      \* the two queues of the sidecar
    running, turns,         \* the turn the provider runs, and how many it started
    written, compacted,     \* fragments it wrote, and its compaction turns
    active, mode,           \* ThreadState
    compaction,             \* ThreadState::compaction
    outstanding,            \* outstanding_approvals
    fragments, reports,     \* terminal_report_fragments and pending_terminal_reports
    buffered,               \* buffered_events
    call, held, late,       \* the call that awaits events, the events it keeps, and whether
                            \* the queues held anything when it began
    seen,                   \* events handed to the task engine
    answers, decided,       \* approval responses sent, decisions of the engine
    accepted,               \* the compactions reported done, by turn
    failed                  \* the calls that ended with a protocol error

appVars == <<stage, notices, requests, running, turns, written, compacted, active, mode,
             compaction, outstanding, fragments, reports, buffered, call, held, late, seen,
             answers, decided, accepted, failed>>

TurnIds == 1 .. MaxTurns
NoTurnId == 0
PermissionModes == {"Default", "AcceptEdits", "DontAsk"}
EffectKinds == {"Command", "FileChange"}
Resting == [t |-> NoTurnId, started |-> FALSE, compacts |-> FALSE, item |-> 0, message |-> 0,
            open |-> FALSE, deltas |-> 0, usage |-> FALSE]
NoCompaction == [turn |-> NoTurnId, item |-> FALSE, completed |-> FALSE, on |-> FALSE]

\* CodexEvent.  A delta carries the fragments it holds, and whether its text,
\* appended to what is withheld of its message, could be the report.
Event(k, t) == [k |-> k, t |-> t, m |-> 0, d |-> <<>>, could |-> FALSE]
Delta(t, m, d, could) == [k |-> "Delta", t |-> t, m |-> m, d |-> d, could |-> could]
ApprovalRequest(r, t, kind) == [r |-> r, t |-> t, kind |-> kind]
MessageDone(t, m) == [Event("MessageDone", t) EXCEPT !.m = m]

\* The adapter's state: a thread that compacts has no active turn, a call keeps
\* events only while it awaits more, and no request is answered that still waits.
AppTypeOK ==
    /\ active \in {NoTurnId} \cup TurnIds
    /\ mode \in PermissionModes
    /\ compaction.on => active = NoTurnId
    /\ \A r \in outstanding : ~\E i \in DOMAIN answers : answers[i].r = r.r
    /\ call \in {"none", "Start", "CompactTurn", "CompactItems"}
    /\ call = "none" => held = <<>>
    /\ call \in {"CompactTurn", "CompactItems"} => compaction.on
    /\ Len(buffered) <= 2

-----------------------------------------------------------------------------
(* The provider *)

Emit(e) == Len(notices) < MaxQueued /\ notices' = Append(notices, e)
Adapter == <<active, mode, compaction, outstanding, fragments, reports, buffered, call, held,
             late, seen, answers, decided, accepted, failed, turns, compacted, stage>>
ProviderOnly == UNCHANGED Adapter

ReportStart ==
    /\ running.t # NoTurnId /\ ~running.started
    /\ running' = [running EXCEPT !.started = TRUE]
    /\ Emit(Event("TurnStarted", running.t))
    /\ ProviderOnly /\ UNCHANGED <<requests, written>>

WriteDelta ==
    \E could \in BOOLEAN :
        /\ running.started /\ ~running.compacts
        /\ running.deltas < MaxDeltas
        /\ running.open \/ running.message < MaxMessages
        /\ LET m == IF running.open THEN running.message ELSE running.message + 1
           IN /\ running' = [running EXCEPT !.message = m, !.open = TRUE, !.deltas = @ + 1]
              /\ Emit(Delta(running.t, m, <<running.deltas + 1>>, could))
              /\ written' = written \cup {[t |-> running.t, m |-> m, d |-> running.deltas + 1]}
        /\ ProviderOnly /\ UNCHANGED requests

CloseMessage ==
    /\ running.open
    /\ running' = [running EXCEPT !.open = FALSE]
    /\ Emit(MessageDone(running.t, running.message))
    /\ ProviderOnly /\ UNCHANGED <<requests, written>>

\* token usage, a notification the adapter ignores, or one that is malformed
WriteUsage ==
    /\ running.started /\ ~running.usage
    /\ running' = [running EXCEPT !.usage = TRUE]
    /\ \E k \in {"Usage", "Ignorable", "Malformed"} : Emit(Event(k, running.t))
    /\ ProviderOnly /\ UNCHANGED <<requests, written>>

RequestApproval ==
    \E kind \in EffectKinds :
        LET r == Cardinality({x.r : x \in ToSet(requests)} \cup {x.r : x \in outstanding}
                             \cup {answers[i].r : i \in DOMAIN answers})
        IN /\ running.started /\ ~running.compacts
           /\ r < MaxRequests
           /\ requests' = Append(requests, ApprovalRequest(r + 1, running.t, kind))
           /\ ProviderOnly /\ UNCHANGED <<notices, running, written>>

CompactItem ==
    /\ running.started /\ running.compacts /\ running.item < 2
    /\ running' = [running EXCEPT !.item = @ + 1]
    /\ Emit(Event(IF running.item = 0 THEN "CompactStarted" ELSE "CompactDone", running.t))
    /\ ProviderOnly /\ UNCHANGED <<requests, written>>

\* it waits for the answers to the requests of a turn before it ends the turn
Asked(t) == {r \in ToSet(requests) \cup outstanding : r.t = t}

CompleteTurn ==
    /\ running.started /\ ~running.open /\ Asked(running.t) = {}
    /\ running.compacts => running.item = 2
    /\ running' = Resting
    /\ Emit(Event("TurnCompleted", running.t))
    /\ ProviderOnly /\ UNCHANGED <<requests, written>>

\* a turn that fails half way: its last message stays open
AbortTurn ==
    /\ running.started /\ (running.open \/ running.compacts) /\ Asked(running.t) = {}
    /\ running' = Resting
    /\ Emit(Event("TurnFailed", running.t))
    /\ ProviderOnly /\ UNCHANGED <<requests, written>>

-----------------------------------------------------------------------------
(* validate_event_binding: whether the event belongs to the active turn or *)
(* to the compaction, and the compaction after it                          *)

\* the validators of the notifications, those that are ignored included
WellFormed(e) == e.k # "Malformed"

Ends(e) == e.k \in {"TurnCompleted", "TurnFailed"}

Compacting == compaction.on /\ active = NoTurnId

CompactionAfter(e) ==
    IF ~Compacting THEN compaction
    ELSE IF e.k = "TurnStarted" THEN [compaction EXCEPT !.turn = e.t]
    ELSE IF e.k = "CompactStarted" /\ compaction.turn = e.t /\ ~compaction.item
         THEN [compaction EXCEPT !.item = TRUE]
    ELSE IF e.k = "CompactDone" /\ compaction.turn = e.t /\ compaction.item
         THEN [compaction EXCEPT !.completed = TRUE]
    ELSE compaction

Bound(e) ==
    IF e.k = "ThreadStarted" THEN TRUE
    ELSE IF Compacting /\ e.k = "TurnStarted" THEN compaction.turn = NoTurnId
    ELSE IF Compacting /\ e.k = "Usage" THEN compaction.turn = e.t
    ELSE IF compaction.on /\ e.k = "CompactStarted"
         THEN compaction.turn = e.t /\ ~compaction.item /\ ~compaction.completed
    ELSE IF compaction.on /\ e.k = "CompactDone"
         THEN compaction.turn = e.t /\ compaction.item /\ ~compaction.completed
    ELSE IF Compacting /\ Ends(e)
         THEN compaction.turn = e.t /\ compaction.item /\ compaction.completed
    ELSE active = e.t

-----------------------------------------------------------------------------
(* What a call does with the event it awaited *)

Fail(rest) ==
    /\ call' = "none"
    /\ held' = <<>>
    /\ buffered' = rest
    /\ failed' = Append(failed, [call |-> call, late |-> late])
    /\ UNCHANGED <<seen, accepted>>

\* Mutant: the events read while the turn started are not kept.
StartAwaitsDrops(e, rest) ==
    IF e.k = "ThreadStarted" \/ (e.k = "TurnStarted" /\ e.t = active)
    THEN /\ call' = IF e.k = "TurnStarted" THEN "none" ELSE call
         /\ buffered' = rest
         /\ UNCHANGED <<held, seen, failed, accepted>>
    ELSE Fail(rest)

\* start_turn waits for the start of its turn and keeps what it read
StartAwaits(e, rest) ==
    IF e.k = "ThreadStarted" \/ (e.k = "TurnStarted" /\ e.t = active)
    THEN /\ IF e.k = "TurnStarted"
            THEN /\ call' = "none" /\ held' = <<>>
                 /\ buffered' = rest \o Append(held, e)
            ELSE /\ held' = Append(held, e)
                 /\ buffered' = rest /\ UNCHANGED call
         /\ UNCHANGED <<seen, failed, accepted>>
    ELSE Fail(rest)

\* compact_thread: the start of the turn, then its item, then its end
CompactAwaits(e, rest) ==
    LET proper == \/ call = "CompactTurn" /\ e.k = "TurnStarted"
                  \/ /\ call = "CompactItems" /\ e.t = held[1].t
                     /\ e.k \in {"Usage", "CompactStarted", "CompactDone"} \/ Ends(e)
    IN IF proper
       THEN /\ call' = IF Ends(e) THEN "none" ELSE "CompactItems"
            /\ held' = IF Ends(e) THEN <<>> ELSE IF held = <<>> THEN <<e>> ELSE held
            /\ accepted' = IF Ends(e) THEN Append(accepted, e.t) ELSE accepted
            /\ buffered' = rest
            /\ UNCHANGED <<seen, failed>>
       ELSE Fail(rest)

\* the event goes to the call that awaits it; rest: buffered_events without it
Deliver(e, rest) ==
    \/ /\ call = "none"
       /\ seen' = Append(seen, e)
       /\ buffered' = rest
       /\ UNCHANGED <<call, held, failed, accepted>>
    \/ call = "Start" /\ StartAwaits(e, rest)
    \/ call \in {"CompactTurn", "CompactItems"} /\ CompactAwaits(e, rest)

-----------------------------------------------------------------------------
(* next_event *)

Keep == UNCHANGED <<stage, running, late, turns, written, compacted, mode, outstanding, answers, decided,
                    requests>>
Quiet == UNCHANGED <<call, held, seen, failed, buffered, accepted>>

NextBuffered ==
    /\ buffered # <<>>
    /\ Deliver(Head(buffered), Tail(buffered))
    /\ Keep /\ UNCHANGED <<notices, active, compaction, fragments, reports>>

Withheld(m) == {f \in fragments : f.m = m.m /\ f.t = m.t}

\* the fragment is appended to what is withheld of its message, and withheld
\* as long as the text could be the report
NextDelta ==
    LET e == Head(notices)
        old == Withheld(e)
        text == IF old = {} THEN e.d ELSE (CHOOSE f \in old : TRUE).d \o e.d
    IN /\ e.k = "Delta" /\ Bound(e)
       /\ fragments' = (fragments \ old)
                       \cup IF e.could THEN {[t |-> e.t, m |-> e.m, d |-> text]} ELSE {}
       /\ IF e.could THEN Quiet
          ELSE Deliver([e EXCEPT !.d = text], buffered)
       /\ UNCHANGED <<active, compaction, reports>>

\* a completed message turns what is withheld of it into the pending report of
\* its turn, and drops the pending report of an earlier message
NextMessageDone ==
    LET e == Head(notices)
    IN /\ e.k = "MessageDone" /\ Bound(e)
       /\ fragments' = fragments \ Withheld(e)
       /\ reports' = {p \in reports : p.t # e.t} \cup Withheld(e)
       /\ Deliver(e, buffered)
       /\ UNCHANGED <<active, compaction>>

\* the end of a turn releases the thread and hands out the pending report,
\* with the end itself behind it
NextTurnEnd ==
    LET e == Head(notices)
        report == {p \in reports : p.t = e.t}
        rest == IF report = {} THEN buffered ELSE Append(buffered, e)
        out == IF report = {} THEN e
               ELSE LET p == CHOOSE p \in report : TRUE
                    IN Delta(p.t, p.m, p.d, FALSE)
    IN /\ Ends(e) /\ Bound(e)
       /\ ~\E f \in fragments : f.t = e.t
       /\ active' = NoTurnId
       /\ compaction' = IF active = e.t THEN compaction ELSE NoCompaction
       /\ reports' = reports \ report
       /\ Deliver(out, rest)
       /\ UNCHANGED fragments

\* a well-formed notification about settings, limits, goals or warnings
NextIgnored == /\ Head(notices).k = "Ignorable"
               /\ Quiet /\ UNCHANGED <<active, compaction, fragments, reports>>

NextPlain ==
    LET e == Head(notices)
    IN /\ e.k \notin {"Delta", "MessageDone", "Ignorable"} /\ WellFormed(e) /\ ~Ends(e)
       /\ Bound(e)
       /\ compaction' = CompactionAfter(e)
       /\ Deliver(e, buffered)
       /\ UNCHANGED <<active, fragments, reports>>

\* an event of another turn, or the end of a turn with a message still open
NextRefused ==
    LET e == Head(notices)
    IN /\ e.k # "Ignorable"
       /\ ~WellFormed(e) \/ ~Bound(e) \/ (Ends(e) /\ \E f \in fragments : f.t = e.t)
       /\ compaction' = CompactionAfter(e)
       /\ Fail(buffered)
       /\ UNCHANGED <<active, fragments, reports>>

NextNotification ==
    /\ buffered = <<>> /\ notices # <<>>
    /\ notices' = Tail(notices)
    /\ NextIgnored \/ NextDelta \/ NextMessageDone \/ NextTurnEnd \/ NextPlain \/ NextRefused
    /\ Keep

Answer(r, d) == answers' = Append(answers, [r |-> r.r, t |-> r.t, kind |-> r.kind,
                                            decision |-> d, mode |-> mode,
                                            live |-> active = r.t])

\* an approval request, once no notification is queued
NextRequest ==
    LET r == Head(requests)
    IN /\ buffered = <<>> /\ notices = <<>> /\ requests # <<>>
       /\ requests' = Tail(requests)
       /\ \/ /\ active # r.t
             /\ Answer(r, "Deny")
             /\ Fail(buffered)
             /\ UNCHANGED outstanding
          \/ /\ active = r.t
             /\ mode = "Default" \/ (mode = "AcceptEdits" /\ r.kind = "Command")
             /\ outstanding' = outstanding \cup {r}
             /\ Deliver([Event("ApprovalRequested", r.t) EXCEPT !.m = r.r], buffered)
             /\ UNCHANGED answers
          \/ /\ active = r.t
             /\ mode = "DontAsk" \/ (mode = "AcceptEdits" /\ r.kind = "FileChange")
             /\ Answer(r, IF mode = "AcceptEdits" THEN "Allow" ELSE "Deny")
             /\ Quiet /\ UNCHANGED outstanding
       /\ UNCHANGED <<stage, notices, running, late, turns, written, compacted, active, mode,
                      compaction, fragments, reports, decided>>

NextEvent == Len(failed) < MaxCalls /\ (NextBuffered \/ NextNotification \/ NextRequest)

-----------------------------------------------------------------------------
(* The calls of the task engine *)

CallsQuiet == UNCHANGED <<stage, requests, written, fragments, reports, buffered, held, seen, answers, decided>>
Leftover == notices # <<>> \/ requests # <<>> \/ buffered # <<>>
Calling == stage = "Bound" /\ call = "none" /\ Len(failed) < MaxCalls
Begin(t) == /\ running' = [Resting EXCEPT !.t = t, !.compacts = compaction'.on]
            /\ late' = Leftover

\* A response to one of the requests that set a thread up: one that says what
\* was asked for, another one, or the exact error of a thread that is gone.
Responses == {"Exact", "Other", "MissingRollout"}
ValidInitialize(a) == a = "Exact"     \* this client, in the home that was prepared
ValidModels(a) == a = "Exact"         \* well-formed pages, no cursor and no model twice
EchoesThread(a) == a = "Exact"        \* the directory, model, policy and sandbox asked for
ValidResumed(a) == a = "Exact"        \* the same, for the thread asked for, and read-only
MissingRollout(a) == a = "MissingRollout"

Setup(from, to, valid, lost) ==
    /\ stage = from /\ Len(failed) < MaxCalls
    /\ stage' = IF valid THEN to ELSE from
    /\ failed' = IF valid \/ lost THEN failed
                 ELSE Append(failed, [call |-> from, late |-> FALSE])
    /\ UNCHANGED <<notices, requests, running, turns, written, compacted, active, mode, compaction,
                   outstanding, fragments, reports, buffered, call, held, late, seen, answers,
                   decided, accepted>>

Connect == \E a \in Responses : Setup("New", "Connected", ValidInitialize(a), FALSE)
LoadModels == \E a \in Responses : Setup("Connected", "Listed", ValidModels(a), FALSE)
StartThread == \E a \in Responses : Setup("Listed", "Bound", EchoesThread(a), FALSE)

\* a thread that is gone is no failure: resume_or_replace_context starts another
ResumeThread ==
    \E a \in Responses : Setup("Listed", "Bound", ValidResumed(a), MissingRollout(a))

\* turn/start: its response names the turn, and start_turn awaits its start
StartTurn ==
    \E m \in PermissionModes :
        /\ Calling /\ running.t = NoTurnId /\ turns < MaxTurns
        /\ active = NoTurnId /\ ~compaction.on
        /\ turns' = turns + 1
        /\ UNCHANGED compaction
        /\ mode' = m
        /\ active' = turns + 1
        /\ Begin(turns + 1)
        /\ notices' = IF turns = 0 THEN Append(notices, Event("ThreadStarted", NoTurnId)) ELSE notices
        /\ call' = "Start"
        /\ CallsQuiet /\ UNCHANGED <<compacted, outstanding, accepted, failed>>

\* thread/compact/start: the thread compacts until the turn it starts completed
CompactThread ==
    /\ Calling /\ running.t = NoTurnId /\ turns < MaxTurns
    /\ active = NoTurnId /\ ~compaction.on
    /\ turns' = turns + 1
    /\ compacted' = compacted \cup {turns + 1}
    /\ compaction' = [NoCompaction EXCEPT !.on = TRUE]
    /\ Begin(turns + 1)
    /\ call' = "CompactTurn"
    /\ CallsQuiet /\ UNCHANGED <<notices, active, mode, outstanding, accepted, failed>>

\* a thread that is compacting already
CompactAgain ==
    /\ Calling /\ compaction.on
    /\ accepted' = Append(accepted, NoTurnId)
    /\ Len(accepted) < MaxCalls
    /\ CallsQuiet
    /\ UNCHANGED <<notices, running, late, turns, compacted, active, mode, compaction, outstanding, call,
                   failed>>

\* turn/interrupt: what the provider wrote stays queued, and it may still
\* report the end of the turn
Interrupt ==
    /\ Calling /\ active # NoTurnId
    /\ active' = NoTurnId
    /\ IF running.t = active
       THEN /\ running' = Resting
            /\ \/ notices' = Append(notices, Event("TurnFailed", active))
               \/ UNCHANGED notices
       ELSE UNCHANGED <<running, notices>>
    /\ CallsQuiet
    /\ UNCHANGED <<turns, late, compacted, mode, compaction, outstanding, call, accepted, failed>>

\* resolve_effect, resolve_approval
ResolveEffect ==
    \E r \in outstanding, d \in {"Allow", "Deny"} :
        /\ Calling
        /\ active = r.t
        /\ outstanding' = outstanding \ {r}
        /\ decided' = decided \cup {[r |-> r.r, decision |-> d]}
        /\ Answer(r, d)
        /\ UNCHANGED <<stage, notices, requests, running, late, turns, written, compacted, active, mode, compaction,
                       fragments, reports, buffered, call, held, seen, accepted, failed>>

-----------------------------------------------------------------------------
AppInit ==
    /\ stage = "New"
    /\ notices = <<>> /\ requests = <<>> /\ running = Resting /\ turns = 0
    /\ written = {} /\ compacted = {}
    /\ active = NoTurnId /\ mode = "Default" /\ compaction = NoCompaction
    /\ outstanding = {} /\ fragments = {} /\ reports = {} /\ buffered = <<>>
    /\ call = "none" /\ held = <<>> /\ late = FALSE /\ seen = <<>> /\ answers = <<>> /\ decided = {}
    /\ accepted = <<>> /\ failed = <<>>

Provider == \/ ReportStart \/ WriteDelta \/ CloseMessage \/ WriteUsage
            \/ RequestApproval \/ CompactItem \/ CompleteTurn \/ AbortTurn
Engine == \/ Connect \/ LoadModels \/ StartThread \/ ResumeThread
          \/ StartTurn \/ CompactThread \/ CompactAgain \/ Interrupt \/ ResolveEffect

AppNext == Provider \/ Engine \/ NextEvent

AppSpec == AppInit /\ [][AppNext]_appVars

-----------------------------------------------------------------------------
(* Properties *)

\* An approval response is sent at most once for a request, it allows only what
\* the engine allowed for that very request or a file change in AcceptEdits, and
\* it never allows an effect of a turn that is no longer active (resolve_approval
\* 888, next_event 836): the provider may act on it long after the interruption.
AnswerJustified ==
    \A i \in DOMAIN answers :
        LET a == answers[i]
        IN /\ \A j \in DOMAIN answers : answers[j].r = a.r => i = j
           /\ a.decision = "Allow" =>
                /\ a.live
                /\ \/ [r |-> a.r, decision |-> "Allow"] \in decided
                   \/ a.mode = "AcceptEdits" /\ a.kind = "FileChange"

\* Where the engine has read text of turn t, and where the end of a message of it.
TextOf(t) == {i \in DOMAIN seen : seen[i].k = "Delta" /\ seen[i].t = t}
DonesOf(t) == {i \in DOMAIN seen : seen[i].k = "MessageDone" /\ seen[i].t = t}

\* The fragments of turn t were read in the order in which they were written, none twice.
InOrder(t) ==
    \A i, j \in TextOf(t) : \A x \in DOMAIN seen[i].d, y \in DOMAIN seen[j].d :
        i < j \/ (i = j /\ x < y) => seen[i].d[x] < seen[j].d[y]

\* All that was written of message m of turn t was read.
WholeMessage(t, m) ==
    \A w \in written : w.t = t /\ w.m = m =>
        \E i \in TextOf(t) : \E x \in DOMAIN seen[i].d : seen[i].d[x] = w.d

\* The engine reads the fragments of a turn that completed in the order the
\* provider wrote them and none twice, the withheld ones included, and it has
\* the whole of the last message: the report that supersedes the others is the
\* one it gets, and no earlier report comes after it (next_event 750-829).
TextExact ==
    \A i \in DOMAIN seen : seen[i].k = "TurnCompleted" =>
        /\ InOrder(seen[i].t)
        /\ \A j \in DonesOf(seen[i].t) :
             (\A k \in DonesOf(seen[i].t) : k <= j) => WholeMessage(seen[i].t, seen[j].m)

\* The engine reads the start of a turn before anything else of it and nothing of
\* it after its end.  Once a call has failed it may meet, without their start, the
\* events of a compaction, and the token usage of a turn that was taken for one:
\* the start of an interrupted turn, still queued, names the turn of a compaction
\* that begins (start_turn 549-576, compact_thread 461-507, validate_event_binding 966).
TurnsBracketed ==
    \A i \in DOMAIN seen : seen[i].t # NoTurnId =>
        /\ \/ failed # <<>> /\ (seen[i].t \in compacted \/ seen[i].k = "Usage")
           \/ \E j \in 1 .. i : seen[j].k = "TurnStarted" /\ seen[j].t = seen[i].t
        /\ ~\E j \in 1 .. i - 1 : Ends(seen[j]) /\ seen[j].t = seen[i].t

\* With an orderly provider a turn or a compaction starts, unless the queues
\* still held what an interrupted turn had left (start_turn 550, compact_thread
\* 461): nothing else of the adapter makes it refuse the start.
StartsUnlessLate ==
    \A i \in DOMAIN failed : failed[i].call \in {"Start", "CompactTurn"} => failed[i].late

\* The engine reads a turn from its start to its end and nothing after it, with
\* the text of its last message whole and in order; an approval is answered
\* once, as decided and while its turn is active; a turn is refused only for
\* what an interrupted one left behind (next_event, start_turn, compact_thread,
\* resolve_approval).
TurnsReadExactly ==
    AppTypeOK /\ AnswerJustified /\ TurnsBracketed /\ TextExact /\ StartsUnlessLate

=============================================================================
