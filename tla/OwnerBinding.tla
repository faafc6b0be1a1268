----------------------------- MODULE OwnerBinding -----------------------------
(***************************************************************************)
(* Who may act through Buzz on one workspace: the trusted owner, the       *)
(* admission of messages, the stable channel of a session, approval and    *)
(* bypass codes, the publication of approval requests and the trusted      *)
(* commands of the task service. The data root is held by one process at a *)
(* time: the ACP kernel, the service, or the command that sets the owner.  *)
(***************************************************************************)
EXTENDS Naturals

CONSTANTS Actors, Channels, Codes,
          FrontendSessions, Messages,
          Commands,       \* [kind, session, actor, channel, event] of the service
          None, Unbound,  \* no value; a session without a row
          Lifetime, MaxClock, MaxProcess, MaxTrust

\* None and Unbound are nobody's names, and a command names what there is.
BindingConstants ==
    /\ None \notin Actors \cup Channels \cup Codes \cup FrontendSessions
    /\ Unbound \notin Channels \cup {None}
    /\ Commands \subseteq [kind : {"start", "configure", "steer"}, session : FrontendSessions,
                           actor : Actors, channel : Channels, event : Messages]
    /\ Lifetime \in Nat

VARIABLES owner,     \* trusted_frontend_owners
          admitted,  \* trusted_frontend_events
          channelOf, \* frontend_sessions
          mode,      \* their permission mode
          code,      \* remote_codes; held: the session had its channel then
          approval,  \* bound_approvals
          delivery,  \* frontend_deliveries of the approval requests
          commands,  \* service_command_receipts
          mem,       \* the kernel's sessions
          exec,      \* the command behind the service's mutation gate
          acted,     \* every effect: its actor, the owner at that moment, whether recovered
          trusted,   \* every actor who was ever the owner
          holder, clock, process, trusts

tables == <<owner, admitted, channelOf, mode, code, approval, delivery, commands>>
bindingVars == <<tables, mem, exec, acted, trusted, holder, clock, process, trusts>>

Nowhere == [actor |-> None, channel |-> None]
Free == [kind |-> "free", session |-> None, actor |-> None, expires |-> 0,
         consumed |-> FALSE, held |-> FALSE]
Unloaded == [live |-> FALSE, actor |-> None, channel |-> None, turn |-> "idle",
             pending |-> None, bypass |-> None]
Resting == [step |-> "none", cmd |-> None, recovering |-> FALSE, recovered |-> FALSE]

BindingInit ==
    /\ owner = Nowhere /\ admitted = [e \in Messages |-> Nowhere]
    /\ channelOf = [s \in FrontendSessions |-> Unbound]
    /\ mode = [s \in FrontendSessions |-> "default"]
    /\ code = [k \in Codes |-> Free] /\ approval = [k \in Codes |-> "none"]
    /\ delivery = [k \in Codes |-> "none"] /\ commands = [m \in Commands |-> "none"]
    /\ mem = [s \in FrontendSessions |-> Unloaded] /\ exec = Resting /\ acted = {} /\ trusted = {}
    /\ holder = "nobody" /\ clock = 0 /\ process = 0 /\ trusts = 0

Effect(a, recovered) ==
    acted' = acted \cup {[actor |-> a, owner |-> owner'.actor, recovered |-> recovered]}

-----------------------------------------------------------------------------
\* A new actor starts without a channel.
NewOwner(a) == [actor |-> a, channel |-> None]

\* carl trust buzz, which takes the data root for itself.
TrustFrontendOwner ==
    /\ holder = "nobody" /\ trusts < MaxTrust
    /\ \E a \in Actors \ {owner.actor} : owner' = NewOwner(a) /\ trusted' = trusted \cup {a}
    /\ trusts' = trusts + 1
    /\ UNCHANGED <<admitted, channelOf, mode, code, approval, delivery, commands, mem, exec, acted,
                   holder, clock, process>>

OpenDataRoot ==
    /\ holder = "nobody" /\ process < MaxProcess
    /\ holder' \in {"kernel", "service"} /\ process' = process + 1
    /\ UNCHANGED <<tables, mem, exec, acted, trusted, clock, trusts>>

\* The process ends at any moment; the tables stay.
ProcessEnds ==
    /\ holder # "nobody"
    /\ holder' = "nobody" /\ mem' = [s \in FrontendSessions |-> Unloaded] /\ exec' = Resting
    /\ UNCHANGED <<tables, acted, trusted, clock, process, trusts>>

Tick == /\ clock < MaxClock /\ clock' = clock + 1
        /\ UNCHANGED <<tables, mem, exec, acted, trusted, holder, process, trusts>>

-----------------------------------------------------------------------------
\* The owner's actor in the owner's channel; the first message fixes the channel.
MatchesOwner(a, c) == owner.actor = a /\ owner.channel \in {None, c}

AdmitMessage(a, c, e) ==
    /\ MatchesOwner(a, c) /\ admitted[e] = Nowhere
    /\ owner' = [owner EXCEPT !.channel = c]
    /\ admitted' = [admitted EXCEPT ![e] = [actor |-> a, channel |-> c]]

Claimed(s, c) ==
    [x \in FrontendSessions |-> IF x = s THEN c ELSE IF channelOf[x] = c THEN None ELSE channelOf[x]]

Consumed(k, used) == IF k = used THEN [code[k] EXCEPT !.consumed = TRUE] ELSE code[k]

\* Mutant: the codes of the session that loses the channel stay.
ClaimKeepsCodes(s, c, used) ==
    /\ channelOf[s] \in {None, c}
    /\ channelOf' = Claimed(s, c)
    /\ code' = [k \in Codes |-> Consumed(k, used)]

\* The channel moves to s; the codes of the session that held it are deleted. Then one may be used.
ClaimChannel(s, c, used) ==
    /\ channelOf[s] \in {None, c}
    /\ channelOf' = Claimed(s, c)
    /\ code' = [k \in Codes |->
                  IF code[k].kind # "free" /\ code[k].session # s /\ channelOf[code[k].session] = c
                  THEN Free ELSE Consumed(k, used)]

BindSession(s, c) ==
    /\ channelOf[s] = Unbound
    /\ c = None \/ \A x \in FrontendSessions : channelOf[x] # c     \* the unique index
    /\ channelOf' = [channelOf EXCEPT ![s] = c]

-----------------------------------------------------------------------------
(***************************************************************************)
(* The ACP kernel. Every prompt of a Buzz session carries the context of   *)
(* the message, which is admitted before the prompt is looked at.          *)
(***************************************************************************)
NewFrontendSession(s) ==
    /\ holder = "kernel" /\ BindSession(s, None)
    /\ mem' = [mem EXCEPT ![s] = [Unloaded EXCEPT !.live = TRUE]]
    /\ UNCHANGED <<owner, admitted, mode, code, approval, delivery, commands, exec, acted, trusted,
                   holder, clock, process, trusts>>

\* A session takes a message between turns or while it waits for a decision.
Receives(s, a, c) ==
    /\ holder = "kernel" /\ mem[s].live /\ mem[s].turn \in {"idle", "awaiting"}
    /\ mem[s].channel \in {None, c} /\ mem[s].actor \in {None, a}

Attach(s, a, c, e, used) ==
    /\ Receives(s, a, c)
    /\ AdmitMessage(a, c, e) /\ ClaimChannel(s, c, used)

\* The channel is not claimed, or the provider not started, after the message was admitted.
AttachFails(s, a, c, e) ==
    /\ Receives(s, a, c)
    /\ AdmitMessage(a, c, e)
    /\ ClaimChannel(s, c, None) \/ UNCHANGED <<channelOf, code>>
    /\ UNCHANGED <<mode, approval, delivery, commands, mem, exec, acted, trusted, holder, clock,
                   process, trusts>>

Attached(s, a, c) == [mem[s] EXCEPT !.actor = a, !.channel = c]

\* The prompt starts a turn, or is refused after it was admitted.
Prompt(s, a, c, e) ==
    /\ Attach(s, a, c, e, None)
    /\ \/ mem' = [mem EXCEPT ![s] = Attached(s, a, c)] /\ UNCHANGED acted
       \/ /\ mem[s].turn = "idle"
          /\ mem' = [mem EXCEPT ![s] = [Attached(s, a, c) EXCEPT !.turn = "running"]]
          /\ Effect(a, FALSE)
    /\ UNCHANGED <<mode, approval, delivery, commands, exec, trusted, holder, clock, process, trusts>>

NewCode(k, kind, s) ==
    /\ code[k].kind = "free" /\ approval[k] = "none"
    /\ code' = [code EXCEPT ![k] = [kind |-> kind, session |-> s, actor |-> mem[s].actor,
                                    expires |-> clock + Lifetime, consumed |-> FALSE,
                                    held |-> channelOf[s] # None]]

\* The turn of s moves on, with the code it waits for.
Turning(s, turn, k) == [mem EXCEPT ![s] = [mem[s] EXCEPT !.turn = turn, !.pending = k]]

\* The approval and its code are stored, then the request is published.
RequestApproval(s, k) ==
    /\ holder = "kernel" /\ mem[s].live /\ mem[s].turn = "running"
    /\ NewCode(k, "approval", s)
    /\ approval' = [approval EXCEPT ![k] = "pending"]
    /\ delivery' = [delivery EXCEPT ![k] = "pending"]
    /\ mem' = Turning(s, "publishing", k)
    /\ UNCHANGED <<owner, admitted, channelOf, mode, commands, exec, acted, trusted, holder, clock,
                   process, trusts>>

\* The publisher answers; a failed publication denies the effect and fails the turn.
Publish(s) ==
    /\ holder = "kernel" /\ mem[s].live /\ mem[s].turn = "publishing"
    /\ \E status \in {"delivered", "failed", "uncertain"} :
         /\ delivery' = [delivery EXCEPT ![mem[s].pending] = status]
         /\ mem' = IF status = "delivered" THEN Turning(s, "awaiting", mem[s].pending)
                   ELSE Turning(s, "idle", None)
    /\ UNCHANGED <<owner, admitted, channelOf, mode, code, approval, commands, exec, acted, trusted,
                   holder, clock, process, trusts>>

ClaimMatches(k, kind, s, a) ==
    /\ code[k].kind = kind /\ code[k].session = s /\ code[k].actor = a
    /\ ~code[k].consumed /\ clock < code[k].expires

\* /approve and /deny: code and approval change in one transaction, then the effect is resolved;
\* when that fails, or its record does, the turn still waits with its code used up.
Decide(s, a, c, e) ==
    /\ Attach(s, a, c, e, mem[s].pending) /\ mem[s].turn = "awaiting"
    /\ LET k == mem[s].pending IN
         /\ ClaimMatches(k, "approval", s, a) /\ approval[k] = "pending"
         /\ \E d \in {"allowed", "denied"} : approval' = [approval EXCEPT ![k] = d]
    /\ \/ /\ mem' = [mem EXCEPT ![s] = [Attached(s, a, c) EXCEPT !.turn = "running", !.pending = None]]
          /\ Effect(a, FALSE)
       \/ /\ mem' = [mem EXCEPT ![s] = Attached(s, a, c)]
          /\ Effect(a, FALSE) \/ UNCHANGED acted
    /\ UNCHANGED <<mode, delivery, commands, exec, trusted, holder, clock, process, trusts>>

\* A remote request for bypass only creates a code.
RequestRemoteBypass(s, k) ==
    /\ holder = "kernel" /\ mem[s].live /\ mem[s].turn = "idle" /\ mem[s].actor # None
    /\ NewCode(k, "bypass", s)
    /\ approval' = [approval EXCEPT ![k] = "bypass"]
    /\ mem' = [mem EXCEPT ![s].bypass = k]
    /\ UNCHANGED <<owner, admitted, channelOf, mode, delivery, commands, exec, acted, trusted, holder,
                   clock, process, trusts>>

\* /confirm-bypass names a code of this session and actor.
ConfirmRemoteBypass(s, a, c, e) ==
    /\ mem[s].turn = "idle" /\ mem[s].bypass # None
    /\ \E k \in Codes : ClaimMatches(k, "bypass", s, a) /\ Attach(s, a, c, e, k)
    /\ mode' = [mode EXCEPT ![s] = "bypass"]
    /\ mem' = [mem EXCEPT ![s] = [Attached(s, a, c) EXCEPT !.bypass = None]] /\ Effect(a, FALSE)
    /\ UNCHANGED <<approval, delivery, commands, exec, trusted, holder, clock, process, trusts>>

EndTurn(s) ==
    /\ holder = "kernel" /\ mem[s].live /\ mem[s].turn \in {"running", "awaiting"}
    /\ mem' = Turning(s, "idle", None)
    /\ UNCHANGED <<tables, exec, acted, trusted, holder, clock, process, trusts>>

-----------------------------------------------------------------------------
(***************************************************************************)
(* The task service: one trusted command at a time behind the mutation     *)
(* gate. A command that fails leaves its receipt pending, and the client   *)
(* repeats it under its key.                                               *)
(***************************************************************************)
Gate == UNCHANGED <<mode, approval, delivery, mem, trusted, holder, clock, process, trusts>>

Step(n) == exec' = [exec EXCEPT !.step = n]

ClaimCommand(m) ==
    /\ holder = "service" /\ exec.step = "none" /\ commands[m] # "done"
    /\ exec' = [step |-> "admit", cmd |-> m, recovering |-> commands[m] = "pending",
                recovered |-> FALSE]
    /\ commands' = [commands EXCEPT ![m] = "pending"]
    /\ UNCHANGED <<owner, admitted, channelOf, code, acted>> /\ Gate

\* Steering requires that the session already holds the channel.
SteerBound(m) == m.kind = "steer" => channelOf[m.session] = m.channel

\* A repeated command finds the admission of its message.
Recovers(m) == exec.recovering /\ admitted[m.event] = [actor |-> m.actor, channel |-> m.channel]

Admissible(m) == Recovers(m) \/ (MatchesOwner(m.actor, m.channel) /\ admitted[m.event] = Nowhere)

\* recover_or_admit_trusted_frontend_message
RecoverOrAdmit(m) ==
    \/ Recovers(m) /\ UNCHANGED <<owner, admitted>>
    \/ AdmitMessage(m.actor, m.channel, m.event)

Admit ==
    /\ exec.step = "admit"
    /\ LET m == exec.cmd IN
         \/ /\ SteerBound(m) /\ RecoverOrAdmit(m)
            /\ exec' = [exec EXCEPT !.step = IF m.kind = "steer" THEN "finish" ELSE "bind",
                                    !.recovered = Recovers(m)]
         \/ ~(SteerBound(m) /\ Admissible(m)) /\ exec' = Resting /\ UNCHANGED <<owner, admitted>>
    /\ UNCHANGED <<channelOf, code, commands, acted>> /\ Gate

\* A task of a new session: the row is inserted without a channel, then the channel is claimed.
StartBinds ==
    /\ exec.step = "bind" /\ exec.cmd.kind = "start"
    /\ LET s == exec.cmd.session  c == exec.cmd.channel IN
         \/ /\ BindSession(s, None) /\ UNCHANGED <<code, exec>>
         \/ channelOf[s] = None /\ ClaimChannel(s, c, None) /\ Step("finish")
         \/ channelOf[s] = c /\ Step("finish") /\ UNCHANGED <<channelOf, code>>
         \/ channelOf[s] \notin {Unbound, None, c} /\ exec' = Resting /\ UNCHANGED <<channelOf, code>>
    /\ UNCHANGED <<owner, admitted, commands, acted>> /\ Gate

\* A configuration inserts a new session together with its channel.
ConfigureBinds ==
    /\ exec.step = "bind" /\ exec.cmd.kind = "configure"
    /\ LET s == exec.cmd.session  c == exec.cmd.channel IN
         \/ BindSession(s, c) /\ Step("finish") /\ UNCHANGED code
         \/ channelOf[s] = None /\ ClaimChannel(s, c, None) /\ Step("finish")
         \/ channelOf[s] = c /\ Step("finish") /\ UNCHANGED <<channelOf, code>>
         \/ /\ channelOf[s] \notin {None, c}
            /\ (channelOf[s] = Unbound => \E x \in FrontendSessions : channelOf[x] = c)
            /\ exec' = Resting /\ UNCHANGED <<channelOf, code>>
    /\ UNCHANGED <<owner, admitted, commands, acted>> /\ Gate

\* The task is created or steered, or the mode stored, and the receipt completed.
Finish ==
    /\ exec.step = "finish"
    /\ commands' = [commands EXCEPT ![exec.cmd] = "done"]
    /\ exec' = Resting
    /\ UNCHANGED <<owner, admitted, channelOf, code>>
    /\ Effect(exec.cmd.actor, exec.recovered) /\ Gate

BindingNext ==
    \/ TrustFrontendOwner \/ OpenDataRoot \/ ProcessEnds \/ Tick
    \/ \E s \in FrontendSessions :
         \/ NewFrontendSession(s) \/ Publish(s) \/ EndTurn(s)
         \/ \E k \in Codes : RequestApproval(s, k) \/ RequestRemoteBypass(s, k)
         \/ \E a \in Actors, c \in Channels, e \in Messages :
              \/ Prompt(s, a, c, e) \/ AttachFails(s, a, c, e)
              \/ Decide(s, a, c, e) \/ ConfirmRemoteBypass(s, a, c, e)
    \/ \E m \in Commands : ClaimCommand(m)
    \/ Admit \/ StartBinds \/ ConfigureBinds \/ Finish

BindingSpec == BindingInit /\ [][BindingNext]_bindingVars

-----------------------------------------------------------------------------
People == [actor : Actors \cup {None}, channel : Channels \cup {None}]
RemoteCodes == [kind : {"free", "approval", "bypass"}, session : FrontendSessions \cup {None},
                actor : Actors \cup {None}, expires : Nat, consumed : BOOLEAN, held : BOOLEAN]
KernelSessions == [live : BOOLEAN, actor : Actors \cup {None}, channel : Channels \cup {None},
                   turn : {"idle", "running", "publishing", "awaiting"},
                   pending : Codes \cup {None}, bypass : Codes \cup {None}]
Executions == [step : {"none", "admit", "bind", "finish"}, cmd : Commands \cup {None},
               recovering : BOOLEAN, recovered : BOOLEAN]

BindingTypeOK ==
    /\ owner \in People /\ admitted \in [Messages -> People]
    /\ channelOf \in [FrontendSessions -> Channels \cup {None, Unbound}]
    /\ mode \in [FrontendSessions -> {"default", "bypass"}]
    /\ code \in [Codes -> RemoteCodes]
    /\ approval \in [Codes -> {"none", "pending", "allowed", "denied", "bypass"}]
    /\ delivery \in [Codes -> {"none", "pending", "delivered", "failed", "uncertain"}]
    /\ commands \in [Commands -> {"none", "pending", "done"}]
    /\ mem \in [FrontendSessions -> KernelSessions] /\ exec \in Executions
    /\ acted \subseteq [actor : Actors, owner : Actors \cup {None}, recovered : BOOLEAN]
    /\ trusted \subseteq Actors /\ holder \in {"nobody", "kernel", "service"}
    /\ clock \in Nat /\ process \in Nat /\ trusts \in Nat

\* A message that was refused midway, a crash or a retry never lets somebody act who is not the
\* trusted owner at that moment. The one exception is a command repeated after a crash: its message
\* was admitted while its actor was the owner, and the repetition does not compare the actor with an
\* owner trusted meanwhile (recover_or_admit_trusted_frontend_message).
OnlyOwnerActs ==
    \A act \in acted : act.actor \in trusted /\ (act.actor = act.owner \/ act.recovered)

\* The session that takes a stable channel takes it from every other one, and no code of theirs
\* survives that they were given while they held it (claim_frontend_channel).
ObsoleteCodesGone ==
    /\ \A s, t \in FrontendSessions : channelOf[s] \in Channels /\ channelOf[s] = channelOf[t] => s = t
    /\ \A k \in Codes : code[k].kind # "free" /\ code[k].held => channelOf[code[k].session] \in Channels

\* A code and its approval are used up together (consume_remote_bound_approval).
CodesExact ==
    \A k \in Codes : code[k].kind = "approval" =>
        (code[k].consumed <=> approval[k] \in {"allowed", "denied"})

\* A decision is final and was made before the request expired, on an unused code; an event is
\* admitted once; and a session runs unrestricted only when an unexpired code of its own is used
\* up (confirm_bypass).
Settles ==
    /\ \A k \in Codes :
         /\ approval[k] \in {"allowed", "denied"} => approval'[k] = approval[k]
         /\ (approval[k] = "pending" /\ approval'[k] # "pending")
               => (clock < code[k].expires /\ ~code[k].consumed)
    /\ \A e \in Messages : admitted[e] # Nowhere => admitted'[e] = admitted[e]
    /\ \A s \in FrontendSessions : mode[s] # "bypass" /\ mode'[s] = "bypass" =>
         \E k \in Codes : /\ code[k].kind = "bypass" /\ code[k].session = s
                          /\ clock < code[k].expires /\ ~code[k].consumed
                          /\ code'[k].consumed /\ code[k].actor = owner.actor

DecidedOnce == [][Settles]_bindingVars

\* Nobody but the trusted owner acts, whatever was refused midway, crashed or
\* repeated; codes die with the channel they were given for; a code and its
\* approval are used up together, and a decision is final
\* (admit_trusted_frontend_message, claim_frontend_channel,
\* consume_remote_bound_approval).
OnlyOwnerDecides ==
    /\ [](BindingTypeOK /\ OnlyOwnerActs /\ ObsoleteCodesGone /\ CodesExact)
    /\ DecidedOnce

=============================================================================
