------------------------ MODULE SessionRecordsProofs ------------------------
(***************************************************************************)
(* The records of a session: its keyed controls and its owner.             *)
(*                                                                         *)
(* Keyed mutations take effect once, are not refused once applied, and are *)
(* answered consistently, for every set of keys and every number of        *)
(* requests and crashes.  The invariant follows a key through claim,       *)
(* mutation and completion: a key without a receipt has done nothing; a    *)
(* steering text takes effect when it is marked and neither queued nor on  *)
(* its way to the provider; a cancellation that took effect left the task  *)
(* cancelled, for good; and what was answered is what the receipt says.    *)
(*                                                                         *)
(* Only the trusted owner of a workspace acts through Buzz, for every      *)
(* number of actors, channels, sessions, codes, messages and commands.     *)
(* The invariant adds to the property what its actions rely on: who was    *)
(* ever trusted, what the command behind the gate has already passed, and  *)
(* which sessions and codes the kernel may still refer to.                 *)
(***************************************************************************)
EXTENDS ControlReceipts, OwnerBinding, TLAPS

-----------------------------------------------------------------------------
(* Receipts of task controls.                                              *)

Statuses == {"Open", "Cancelled", "Completed", "Failed"}
InFlight == {"act", "provider", "finish", "fail"}

\* The types, and the receipt of the request in flight.
Types ==
  /\ status \in Statuses /\ run \in {"idle", "pumped", "resumed"}
  /\ receipt \in [Keys -> {"none", "pending", "accepted", "rejected"}]
  /\ marks \subseteq Keys /\ queue \subseteq marks
  /\ reached \in [Keys -> Nat]
  /\ key \in Keys \cup {NoKey}
  /\ (pc = "idle") = (key = NoKey)
  /\ pc \in InFlight => receipt[key] = "pending"

\* Only an open task runs, and nothing ends it while the provider is asked.
RunInv ==
  /\ run # "idle" => status = "Open"
  /\ pc = "provider" => /\ status = "Open" /\ key \in marks
                        /\ key \in SteerKeys \cup CancelKeys \cup ResumeKeys
  /\ run = "resumed" => pc = "provider" /\ key \in ResumeKeys

\* What the mutations of key k have done.
EffectOf(k) ==
  /\ receipt[k] = "none" => k \notin marks /\ reached[k] = 0
  /\ k \in queue => k \in SteerKeys
  /\ k \in SteerKeys \cup StartKeys \cup ResumeKeys /\ reached[k] > 0 => k \in marks
  /\ k \in CancelKeys /\ reached[k] > 0 => status = "Cancelled" /\ k \in marks

\* A steering text has had no effect while it waits.
SteerOf(k) ==
  k \in SteerKeys =>
    /\ k \in queue => reached[k] = 0
    /\ pc = "provider" /\ key = k => reached[k] = 0 /\ k \notin queue
    /\ k \in marks => receipt[k] # "rejected" /\ ~(pc = "fail" /\ key = k)

\* A failure about to be recorded is of a mutation that did not take effect,
\* or of a resumption whose task has ended.
EndedResume(k) == k \in ResumeKeys /\ Acp(k) /\ status \in {"Failed", "Cancelled"}
FailOf(k) ==
  /\ pc = "fail" /\ key = k => Acp(k) /\ (reached[k] > 0 => EndedResume(k))
  /\ reached[k] > 0 /\ receipt[k] = "rejected" => EndedResume(k)

\* The answers given and the receipt agree.
AnswerOf(k) ==
  /\ <<k, "ok">> \in answers => receipt[k] = "accepted"
  /\ Acp(k) /\ <<k, "invalid">> \in answers => receipt[k] = "rejected"

\* At most once, but for resumptions, and all of it together.
OnceOf(k) == k \notin ResumeKeys => reached[k] <= 1
KeyInv(k) == EffectOf(k) /\ SteerOf(k) /\ FailOf(k) /\ AnswerOf(k) /\ OnceOf(k)

\* The inductive invariant.
ReceiptInv == Types /\ RunInv /\ \A k \in Keys : KeyInv(k)

\* A task nobody has asked anything of.
LEMMA InitReceiptInv ==
  ASSUME KeysAreDistinct, ReceiptInit
  PROVE  ReceiptInv
  BY DEF KeysAreDistinct, ReceiptInit, ReceiptInv, Types, RunInv, KeyInv, EffectOf, SteerOf,
     FailOf, AnswerOf, OnceOf, Statuses, InFlight

\* Claiming a receipt, and what a caller is told without a mutation.
LEMMA ClaimOfKeyKeeps ==
  ASSUME KeysAreDistinct, ReceiptInv,
         (\E k \in Keys : Request(k)) \/ ClaimFresh \/ ClaimExisting
  PROVE  ReceiptInv'
<1> USE DEF KeysAreDistinct, ReceiptInv
<1>1. CASE \E k \in Keys : Request(k)
  BY <1>1 DEF Request, taskVars, recordVars, Types, RunInv, KeyInv, EffectOf, SteerOf,
     FailOf, EndedResume, AnswerOf, OnceOf, InFlight
<1>2. CASE ClaimFresh
  <2>1. CASE Answer("refused") /\ UNCHANGED receipt
    BY <1>2, <2>1 DEF ClaimFresh, Answer, taskVars, Types, RunInv, KeyInv, EffectOf, SteerOf,
       FailOf, EndedResume, AnswerOf, OnceOf, InFlight
  <2>2. CASE /\ receipt' = [receipt EXCEPT ![key] = "pending"]
             /\ pc' = IF Acp(key) /\ Terminal(seen) THEN "fail" ELSE "act"
             /\ UNCHANGED <<key, answers>>
    BY <1>2, <2>2 DEF ClaimFresh, taskVars, Types, RunInv, KeyInv, EffectOf, SteerOf,
       FailOf, EndedResume, AnswerOf, OnceOf, InFlight
  <2>3. QED
    BY <1>2, <2>1, <2>2 DEF ClaimFresh
<1>3. CASE ClaimExisting
  BY <1>3 DEF ClaimExisting, Answer, taskVars, Types, RunInv, KeyInv, EffectOf, SteerOf,
     FailOf, EndedResume, AnswerOf, OnceOf, InFlight
<1>4. QED
  BY <1>1, <1>2, <1>3

\* Recording the outcome of the request.
LEMMA CompletionKeeps ==
  ASSUME KeysAreDistinct, ReceiptInv, Complete \/ Fail
  PROVE  ReceiptInv'
<1> USE DEF KeysAreDistinct, ReceiptInv
<1>1. CASE Complete
  BY <1>1 DEF Complete, Answer, taskVars, Types, RunInv, KeyInv, EffectOf, SteerOf,
     FailOf, EndedResume, AnswerOf, OnceOf, InFlight
<1>2. CASE Fail
  BY <1>2 DEF Fail, Answer, taskVars, Types, RunInv, KeyInv, EffectOf, SteerOf,
     FailOf, EndedResume, AnswerOf, OnceOf, InFlight
<1>3. QED
  BY <1>1, <1>2

\* Steering: marked before it is queued or sent, never sent twice.
LEMMA SteerKeeps ==
  ASSUME KeysAreDistinct, ReceiptInv, Steer \/ SteerProvider
  PROVE  ReceiptInv'
<1> USE DEF KeysAreDistinct, ReceiptInv, Types, RunInv, KeyInv, EffectOf, SteerOf,
        FailOf, EndedResume, AnswerOf, OnceOf, InFlight
<1>1. CASE Steer
  <2>1. CASE key \in marks
    BY <1>1, <2>1 DEF Steer
  <2>2. CASE key \notin marks /\ run = "pumped"
    BY <1>1, <2>2 DEF Steer
  <2>3. CASE key \notin marks /\ run # "pumped" /\ loaded /\ ~Terminal(status)
    BY <1>1, <2>3 DEF Steer
  <2>4. CASE key \notin marks /\ Invalid /\ UNCHANGED <<marks, queue>>
    BY <1>1, <2>4 DEF Steer, Invalid, Answer
  <2>5. QED
    BY <1>1, <2>1, <2>2, <2>3, <2>4 DEF Steer
<1>2. CASE SteerProvider
  BY <1>2 DEF SteerProvider, Took, Answer, taskVars
<1>3. QED
  BY <1>1, <1>2

\* Cancellation: the task it took effect on stays cancelled.
LEMMA CancelKeeps ==
  ASSUME KeysAreDistinct, ReceiptInv, CancelControlled \/ CancelProvider
  PROVE  ReceiptInv'
<1> USE DEF KeysAreDistinct, ReceiptInv, Types, RunInv, KeyInv, EffectOf, SteerOf,
        FailOf, EndedResume, AnswerOf, OnceOf, InFlight, Statuses
<1>1. CASE CancelControlled
  <2>1. CASE status = "Cancelled" /\ key \in marks
    BY <1>1, <2>1 DEF CancelControlled
  <2>2. CASE /\ ~(status = "Cancelled" /\ key \in marks)
             /\ Terminal(status) /\ Invalid /\ UNCHANGED <<marks, loaded>>
    BY <1>1, <2>2 DEF CancelControlled, Invalid, Answer, Terminal
  <2>3. CASE ~Terminal(status)
    BY <1>1, <2>3 DEF CancelControlled, Terminal
  <2>4. QED
    BY <1>1, <2>1, <2>2, <2>3 DEF CancelControlled
<1>2. CASE CancelProvider
  BY <1>2 DEF CancelProvider, Took, Answer
<1>3. QED
  BY <1>1, <1>2

\* Resumption.
LEMMA ResumeKeeps ==
  ASSUME KeysAreDistinct, ReceiptInv, Resume
  PROVE  ReceiptInv'
<1> USE DEF KeysAreDistinct, ReceiptInv, Types, RunInv, KeyInv, EffectOf, SteerOf,
        FailOf, EndedResume, AnswerOf, OnceOf, InFlight, Statuses
<1> DEFINE replayed == status = "Completed" /\ key \in marks /\ Acp(key)
<1>1. CASE replayed
  BY <1>1 DEF Resume, Terminal
<1>2. CASE Terminal(status) /\ ~replayed
  <2>1. /\ pc = "act" /\ key \in ResumeKeys /\ key \in Keys /\ Invalid /\ receipt[key] = "pending"
        /\ UNCHANGED <<marks, loaded, run, reached, queue, status, receipt>>
    BY <1>2 DEF Resume, Terminal
  <2>2. status = "Completed" /\ Acp(key) => reached[key] = 0
    <3>1. reached[key] > 0 => key \in marks
      BY <2>1
    <3>2. reached[key] \in Nat
      BY <2>1
    <3>3. status = "Completed" /\ Acp(key) => key \notin marks
      BY <1>2
    <3>4. QED
      BY <3>1, <3>2, <3>3
  <2>3. status \in {"Cancelled", "Completed", "Failed"}
    BY <1>2 DEF Terminal
  <2>4. CASE Acp(key)
    BY <2>1, <2>2, <2>3, <2>4 DEF Invalid
  <2>5. CASE ~Acp(key)
    BY <2>1, <2>5 DEF Invalid, Answer
  <2>6. QED
    BY <2>4, <2>5
<1>3. CASE ~Terminal(status) /\ run # "idle"
  BY <1>3 DEF Resume, Answer, Terminal
<1>4. CASE ~Terminal(status) /\ run = "idle"
  <2>1. /\ marks' = marks \cup {key} /\ loaded' = TRUE
        /\ run' = (IF Acp(key) THEN "resumed" ELSE "pumped")
        /\ pc' = (IF Acp(key) THEN "provider" ELSE "finish")
        /\ reached' = [k \in Keys |-> IF k \in queue \cup {key} THEN reached[k] + 1 ELSE reached[k]]
        /\ queue' = {} /\ UNCHANGED <<key, answers, status, receipt>>
        /\ pc = "act" /\ key \in ResumeKeys /\ key \in Keys /\ status = "Open"
        /\ receipt[key] = "pending" /\ key # NoKey
    BY <1>4 DEF Resume, Terminal
  <2>2. Types'
    BY <2>1
  <2>3. RunInv'
    BY <2>1
  <2>4. ASSUME NEW k \in Keys
        PROVE  KeyInv(k)'
    <3>1. k \in queue => k \in SteerKeys /\ k # key
      BY <2>1
    <3>2. reached'[k] = IF k \in queue \/ k = key THEN reached[k] + 1 ELSE reached[k]
      BY <2>1
    <3>3. CASE k = key
      BY <2>1, <3>1, <3>2, <3>3
    <3>4. CASE k # key /\ k \in queue
      BY <2>1, <3>1, <3>2, <3>4
    <3>5. CASE k # key /\ k \notin queue
      BY <2>1, <3>2, <3>5
    <3>6. QED
      BY <3>3, <3>4, <3>5
  <2>5. QED
    BY <2>2, <2>3, <2>4
<1>5. QED
  BY <1>1, <1>2, <1>3, <1>4

\* A new task, and the answer to an approval.
LEMMA ServiceKeeps ==
  ASSUME KeysAreDistinct, ReceiptInv, Start \/ Resolve
  PROVE  ReceiptInv'
<1> USE DEF KeysAreDistinct, ReceiptInv, Types, RunInv, KeyInv, EffectOf, SteerOf,
        FailOf, EndedResume, AnswerOf, OnceOf, InFlight, Statuses, Acp
<1>1. CASE Start
  BY <1>1 DEF Start, Took, taskVars
<1>2. CASE Resolve
  BY <1>2 DEF Resolve, Took, Answer
<1>3. QED
  BY <1>1, <1>2

\* The task runs and ends on its own, and the process dies.
LEMMA EnvironmentKeeps ==
  ASSUME KeysAreDistinct, ReceiptInv, StartRun \/ Asks \/ RunEnds \/ Crash
  PROVE  ReceiptInv'
<1> USE DEF KeysAreDistinct, ReceiptInv, Types, RunInv, KeyInv, EffectOf, SteerOf,
        FailOf, EndedResume, AnswerOf, OnceOf, InFlight, Statuses
<1>1. CASE StartRun
  BY <1>1 DEF StartRun
<1>2. CASE Asks
  BY <1>2 DEF Asks, recordVars
<1>3. CASE RunEnds
  BY <1>3 DEF RunEnds, recordVars
<1>4. CASE Crash
  BY <1>4 DEF Crash, recordVars
<1>5. QED
  BY <1>1, <1>2, <1>3, <1>4

\* Every step keeps the invariant.
LEMMA ReceiptStep ==
  ASSUME KeysAreDistinct, ReceiptInv, [ReceiptNext]_receiptVars
  PROVE  ReceiptInv'
<1>1. CASE UNCHANGED receiptVars
  BY <1>1 DEF receiptVars, taskVars, recordVars, ReceiptInv, Types, RunInv, KeyInv, EffectOf,
     SteerOf, FailOf, EndedResume, AnswerOf, OnceOf, InFlight
<1>2. QED
  BY <1>1, ClaimOfKeyKeeps, CompletionKeeps, SteerKeeps, CancelKeeps, ResumeKeeps, ServiceKeeps,
     EnvironmentKeeps DEF ReceiptNext

\* A step adds at most one answer, the one to the request in flight, and a
\* request whose receipt is accepted is never told that it is invalid.
LEMMA OneAnswer ==
  ASSUME KeysAreDistinct, ReceiptInv, [ReceiptNext]_receiptVars
  PROVE  \/ answers' = answers
         \/ \E a \in {"ok", "invalid", "refused", "error", "busy"} :
              /\ answers' = answers \cup {<<key, a>>}
              /\ a = "invalid" => receipt[key] # "accepted"
<1> USE DEF Answer
<1>1. pc \in InFlight => receipt[key] = "pending"
  BY DEF ReceiptInv, Types
<1>2. CASE UNCHANGED receiptVars
  BY <1>2 DEF receiptVars, recordVars
<1>3. CASE (\E k \in Keys : Request(k)) \/ ClaimFresh \/ ClaimExisting
  BY <1>3 DEF Request, ClaimFresh, ClaimExisting, recordVars
<1>4. CASE Complete \/ Fail
  BY <1>1, <1>4 DEF Complete, Fail, InFlight
<1>5. CASE Steer \/ SteerProvider \/ CancelControlled \/ CancelProvider
  BY <1>1, <1>5 DEF Steer, SteerProvider, CancelControlled, CancelProvider, Invalid, InFlight
<1>6. CASE Resume
  BY <1>1, <1>6 DEF Resume, Invalid, InFlight
<1>7. CASE Start \/ Resolve
  BY <1>1, <1>7 DEF Start, Resolve, InFlight
<1>8. CASE StartRun \/ Asks \/ RunEnds \/ Crash
  BY <1>8 DEF StartRun, Asks, RunEnds, Crash, recordVars
<1>9. QED
  BY <1>2, <1>3, <1>4, <1>5, <1>6, <1>7, <1>8 DEF ReceiptNext

\* What was answered stands.
LEMMA AnswersStand ==
  ASSUME KeysAreDistinct, ReceiptInv, [ReceiptNext]_receiptVars, NEW k \in Keys
  PROVE  /\ <<k, "ok">> \in answers /\ <<k, "invalid">> \in answers' => <<k, "invalid">> \in answers
         /\ Acp(k) /\ <<k, "invalid">> \in answers /\ <<k, "ok">> \in answers' => <<k, "ok">> \in answers
<1>1. /\ <<k, "ok">> \in answers => receipt[k] = "accepted"
      /\ Acp(k) /\ <<k, "invalid">> \in answers' => receipt'[k] = "rejected"
      /\ <<k, "ok">> \in answers' => receipt'[k] = "accepted"
  BY ReceiptStep DEF ReceiptInv, KeyInv, AnswerOf, Acp
<1>2. answers \subseteq answers'
  BY OneAnswer
<1>3. <<k, "ok">> \in answers /\ <<k, "invalid">> \in answers' => <<k, "invalid">> \in answers
  BY <1>1, OneAnswer
<1>4. QED
  BY <1>1, <1>2, <1>3

\* The inductive invariant holds in every reachable state.
THEOREM ReceiptInvariant ==
  ASSUME KeysAreDistinct
  PROVE  ReceiptSpec => []ReceiptInv
<1>1. ReceiptInit => ReceiptInv
  BY InitReceiptInv
<1>2. ReceiptInv /\ [ReceiptNext]_receiptVars => ReceiptInv'
  BY ReceiptStep
<1>3. QED
  BY <1>1, <1>2, PTL DEF ReceiptSpec

\* What the invariant says of every state.
LEMMA ReceiptSafety ==
  ASSUME KeysAreDistinct, ReceiptInv
  PROVE  ReceiptTypeOK /\ EffectOnce /\ AppliedNotRejected
  BY DEF KeysAreDistinct, ReceiptInv, Types, KeyInv, FailOf, EndedResume, OnceOf, ReceiptTypeOK,
     EffectOnce, AppliedNotRejected, InFlight

\* A control takes effect at most once under its key, is not refused once it
\* took effect, and its answer stands, wherever the process dies between the
\* claim of the receipt, the mutation and its completion.
THEOREM ControlsHappenOnce ==
  ASSUME KeysAreDistinct
  PROVE  ReceiptSpec => ControlsOnce
<1> DEFINE stands(k) ==
      /\ <<k, "ok">> \in answers /\ <<k, "invalid">> \in answers' => <<k, "invalid">> \in answers
      /\ Acp(k) /\ <<k, "invalid">> \in answers /\ <<k, "ok">> \in answers' => <<k, "ok">> \in answers
<1>1. ReceiptSpec => []ReceiptInv
  BY ReceiptInvariant
<1>2. ReceiptInv => ReceiptTypeOK /\ EffectOnce /\ AppliedNotRejected
  BY ReceiptSafety
<1>3. ReceiptInv /\ [ReceiptNext]_receiptVars => [\A k \in Keys : stands(k)]_receiptVars
  BY AnswersStand
<1>4. QED
  BY <1>1, <1>2, <1>3, PTL DEF ReceiptSpec, ControlsOnce, AnswerStands

-----------------------------------------------------------------------------
(* The owner of a workspace.                                               *)

\* Whoever is the owner, or had a message admitted, was trusted.
TrustKept ==
    /\ owner.actor # None => owner.actor \in trusted
    /\ \A e \in Messages : admitted[e] # Nowhere => admitted[e].actor \in trusted

\* The command behind the gate belongs to the service, and past its admission it is the owner's
\* or a recovered one.
GateHeld ==
    /\ exec.step # "none" => holder = "service" /\ exec.cmd \in Commands
    /\ exec.step \in {"bind", "finish"} =>
         exec.cmd.actor \in trusted /\ (exec.cmd.actor = owner.actor \/ exec.recovered)

\* A loaded session has its row and belongs to the kernel; one that waits has its code.
KernelBound ==
    \A s \in FrontendSessions :
        /\ mem[s].live => holder = "kernel" /\ channelOf[s] # Unbound
        /\ mem[s].turn = "awaiting" => mem[s].pending \in Codes
        /\ mem[s].turn = "publishing" => mem[s].pending \in Codes

\* A code names its session, and an approval code has its approval.
CodesKnown ==
    \A k \in Codes :
        /\ code[k].kind # "free" => code[k].session \in FrontendSessions
        /\ code[k].kind = "approval" => approval[k] \in {"pending", "allowed", "denied"}

\* The inductive invariant.
BindingInv ==
    /\ BindingTypeOK /\ OnlyOwnerActs /\ ObsoleteCodesGone /\ CodesExact
    /\ TrustKept /\ GateHeld /\ KernelBound /\ CodesKnown

-----------------------------------------------------------------------------
\* The shapes of a channel binding and of what the records hold.
Bindings == [FrontendSessions -> Channels \cup {None, Unbound}]

\* The admission of a message keeps the owner and is the owner's (admit_trusted_frontend_message).
LEMMA Admission ==
    ASSUME BindingConstants, BindingTypeOK, TrustKept, NEW a \in Actors, NEW c \in Channels,
           NEW e \in Messages, AdmitMessage(a, c, e)
    PROVE  /\ owner' \in People /\ admitted' \in [Messages -> People]
           /\ owner.actor = a /\ owner'.actor = a /\ a \in trusted
           /\ \A f \in Messages : admitted[f] # Nowhere => admitted'[f] = admitted[f]
           /\ trusted' = trusted => TrustKept'
<1> USE DEF BindingConstants
<1>1. owner \in People /\ admitted \in [Messages -> People]
      BY DEF BindingTypeOK
<1>2. owner.actor = a /\ owner' \in People /\ owner'.actor = a
      BY <1>1 DEF AdmitMessage, MatchesOwner, People
<1>3. a # None /\ a \in trusted
      BY <1>2 DEF TrustKept
<1>4. admitted' \in [Messages -> People]
      BY <1>1 DEF AdmitMessage, People
<1>5. \A f \in Messages : admitted[f] # Nowhere => admitted'[f] = admitted[f]
      BY <1>1 DEF AdmitMessage
<1>6. ASSUME trusted' = trusted PROVE TrustKept'
      <2>1. \A f \in Messages : f # e => admitted'[f] = admitted[f]
            BY <1>1 DEF AdmitMessage
      <2>2. admitted'[e].actor = a
            BY <1>1 DEF AdmitMessage
      <2> QED BY <1>2, <1>3, <1>6, <2>1, <2>2 DEF TrustKept
<1> QED BY <1>2, <1>3, <1>4, <1>5, <1>6

\* What a claimed channel changes in the sessions (claim_frontend_channel).
LEMMA ClaimedChannels ==
    ASSUME BindingConstants, BindingTypeOK, ObsoleteCodesGone,
           NEW s \in FrontendSessions, NEW c \in Channels, NEW used, ClaimChannel(s, c, used)
    PROVE  /\ channelOf' \in Bindings /\ channelOf'[s] = c
           /\ \A x \in FrontendSessions :
                x # s => channelOf'[x] = IF channelOf[x] = c THEN None ELSE channelOf[x]
           /\ \A x \in FrontendSessions : channelOf[x] # Unbound => channelOf'[x] # Unbound
           /\ \A x, y \in FrontendSessions :
                channelOf'[x] \in Channels /\ channelOf'[x] = channelOf'[y] => x = y
<1> USE DEF BindingConstants
<1>1. channelOf \in Bindings
      BY DEF BindingTypeOK, Bindings
<1>2. channelOf' = Claimed(s, c)
      BY DEF ClaimChannel
<1>3. channelOf' \in Bindings /\ channelOf'[s] = c
      BY <1>1, <1>2 DEF Claimed, Bindings
<1>4. \A x \in FrontendSessions :
        x # s => channelOf'[x] = IF channelOf[x] = c THEN None ELSE channelOf[x]
      BY <1>2 DEF Claimed
<1>5. \A x \in FrontendSessions : channelOf[x] # Unbound => channelOf'[x] # Unbound
      BY <1>3, <1>4
<1>6. \A x, y \in FrontendSessions :
        channelOf'[x] \in Channels /\ channelOf'[x] = channelOf'[y] => x = y
      BY <1>3, <1>4 DEF ObsoleteCodesGone
<1> QED BY <1>3, <1>4, <1>5, <1>6

\* What it changes in the codes: those of the session that held the channel are gone, one may be
\* used up, the others stay.
LEMMA ClaimedCodes ==
    ASSUME BindingConstants, BindingTypeOK, CodesKnown,
           NEW s \in FrontendSessions, NEW c \in Channels, NEW used, ClaimChannel(s, c, used)
    PROVE  /\ code' \in [Codes -> RemoteCodes]
           /\ \A k \in Codes :
                /\ code'[k].kind # "free" =>
                     /\ code'[k].kind = code[k].kind /\ code'[k].session = code[k].session
                     /\ code'[k].held = code[k].held
                     /\ code[k].session = s \/ channelOf[code[k].session] # c
                     /\ k # used => code'[k].consumed = code[k].consumed
                     /\ k = used => code'[k].consumed
                /\ k = used /\ code[k].session = s => code'[k].consumed
<1> USE DEF BindingConstants
<1>1. code \in [Codes -> RemoteCodes]
      BY DEF BindingTypeOK
<1>2. Free \in RemoteCodes /\ Free.kind = "free"
      BY DEF Free, RemoteCodes
<1>3. \A k \in Codes :
        /\ Consumed(k, used) \in RemoteCodes
        /\ Consumed(k, used).kind = code[k].kind /\ Consumed(k, used).session = code[k].session
        /\ Consumed(k, used).held = code[k].held
        /\ k # used => Consumed(k, used).consumed = code[k].consumed
        /\ k = used => Consumed(k, used).consumed
      BY <1>1 DEF Consumed, RemoteCodes
<1>4. \A k \in Codes : code'[k] =
        IF code[k].kind # "free" /\ code[k].session # s /\ channelOf[code[k].session] = c
        THEN Free ELSE Consumed(k, used)
      BY DEF ClaimChannel
<1>5. code' \in [Codes -> RemoteCodes]
      BY <1>2, <1>3 DEF ClaimChannel
<1> HIDE DEF BindingConstants
<1> QED BY <1>2, <1>3, <1>4, <1>5

\* A claim leaves no obsolete code, and codes that name their sessions.
LEMMA ClaimKeeps ==
    ASSUME BindingConstants, BindingTypeOK, ObsoleteCodesGone, CodesKnown,
           NEW s \in FrontendSessions, NEW c \in Channels, NEW used, ClaimChannel(s, c, used)
    PROVE  /\ ObsoleteCodesGone'
           /\ \A k \in Codes : code'[k].kind # "free" => code'[k].session \in FrontendSessions
           /\ approval' = approval => CodesKnown'
<1>1. /\ channelOf'[s] = c
      /\ \A x \in FrontendSessions :
           x # s => channelOf'[x] = IF channelOf[x] = c THEN None ELSE channelOf[x]
      /\ \A x, y \in FrontendSessions :
           channelOf'[x] \in Channels /\ channelOf'[x] = channelOf'[y] => x = y
      BY ClaimedChannels
<1>2. \A k \in Codes : code'[k].kind # "free" =>
        /\ code'[k].kind = code[k].kind /\ code'[k].session = code[k].session
        /\ code'[k].held = code[k].held
        /\ code[k].session = s \/ channelOf[code[k].session] # c
      BY ClaimedCodes
<1>3. \A k \in Codes : code'[k].kind # "free" => code'[k].session \in FrontendSessions
      BY <1>2 DEF CodesKnown
<1>4. \A k \in Codes : code'[k].kind # "free" /\ code'[k].held
        => channelOf'[code'[k].session] \in Channels
      BY <1>1, <1>2, <1>3 DEF ObsoleteCodesGone
<1>5. approval' = approval => CodesKnown'
      BY <1>2, <1>3 DEF CodesKnown
<1> QED BY <1>1, <1>3, <1>4, <1>5 DEF ObsoleteCodesGone

\* The row of a new session takes no code's channel away (bind_frontend_session).
LEMMA BindKeeps ==
    ASSUME BindingConstants, BindingTypeOK, ObsoleteCodesGone, CodesKnown, UNCHANGED code,
           NEW s \in FrontendSessions, NEW c \in Channels \cup {None}, BindSession(s, c)
    PROVE  /\ channelOf' \in Bindings /\ channelOf'[s] = c /\ c # Unbound
           /\ \A x \in FrontendSessions : x # s => channelOf'[x] = channelOf[x]
           /\ ObsoleteCodesGone'
<1> USE DEF BindingConstants
<1>1. channelOf \in Bindings
      BY DEF BindingTypeOK, Bindings
<1>2. /\ channelOf' \in Bindings /\ channelOf'[s] = c /\ c # Unbound
      /\ \A x \in FrontendSessions : x # s => channelOf'[x] = channelOf[x]
      BY <1>1 DEF BindSession, Bindings
<1>3. \A x, y \in FrontendSessions :
        channelOf'[x] \in Channels /\ channelOf'[x] = channelOf'[y] => x = y
      BY <1>2 DEF BindSession, ObsoleteCodesGone
<1>4. \A k \in Codes : code[k].kind # "free" /\ code[k].held => code[k].session # s
      BY DEF BindSession, ObsoleteCodesGone
<1>5. \A k \in Codes : code[k].kind # "free" /\ code[k].held
        => channelOf'[code[k].session] \in Channels
      BY <1>2, <1>4 DEF CodesKnown, ObsoleteCodesGone
<1> QED BY <1>2, <1>3, <1>5 DEF ObsoleteCodesGone

\* A new code is one of its session, given in the channel the session has (create_remote_code).
LEMMA NewCodeKeeps ==
    ASSUME BindingConstants, BindingTypeOK, ObsoleteCodesGone, CodesKnown, UNCHANGED channelOf,
           NEW s \in FrontendSessions, NEW k \in Codes, NEW kind \in {"approval", "bypass"},
           NewCode(k, kind, s), channelOf[s] # Unbound
    PROVE  /\ code' \in [Codes -> RemoteCodes] /\ ObsoleteCodesGone'
           /\ code'[k].kind = kind /\ code'[k].session = s /\ ~code'[k].consumed
           /\ \A j \in Codes : j # k => code'[j] = code[j]
<1> USE DEF BindingConstants
<1>1. code \in [Codes -> RemoteCodes] /\ channelOf \in Bindings
      /\ mem[s].actor \in Actors \cup {None} /\ clock + Lifetime \in Nat
      BY DEF BindingTypeOK, Bindings, KernelSessions
<1> DEFINE new == [kind |-> kind, session |-> s, actor |-> mem[s].actor,
                   expires |-> clock + Lifetime, consumed |-> FALSE, held |-> channelOf[s] # None]
<1>2. new \in RemoteCodes
      BY <1>1 DEF RemoteCodes
<1>3. code' = [code EXCEPT ![k] = new]
      BY DEF NewCode
<1>4. /\ new.kind = kind /\ new.session = s /\ new.consumed = FALSE
      /\ new.held = (channelOf[s] # None)
      OBVIOUS
<1> HIDE DEF new
<1>5. code' \in [Codes -> RemoteCodes] /\ code'[k] = new
      /\ \A j \in Codes : j # k => code'[j] = code[j]
      BY <1>1, <1>2, <1>3
<1>6. channelOf[s] # None => channelOf[s] \in Channels
      BY <1>1 DEF Bindings
<1>7. \A j \in Codes : code'[j].kind # "free" /\ code'[j].held
        => channelOf'[code'[j].session] \in Channels
      BY <1>4, <1>5, <1>6 DEF ObsoleteCodesGone
<1> QED BY <1>4, <1>5, <1>7 DEF ObsoleteCodesGone

\* A turn that moves on changes nothing else of its session, nor another session.
LEMMA Turned ==
    ASSUME NEW s \in FrontendSessions, NEW turn \in {"idle", "running", "publishing", "awaiting"},
           NEW k \in Codes \cup {None}, mem \in [FrontendSessions -> KernelSessions],
           mem' = Turning(s, turn, k)
    PROVE  /\ mem' \in [FrontendSessions -> KernelSessions]
           /\ mem'[s].live = mem[s].live /\ mem'[s].turn = turn /\ mem'[s].pending = k
           /\ \A x \in FrontendSessions : x # s => mem'[x] = mem[x]
<1> DEFINE new == [mem[s] EXCEPT !.turn = turn, !.pending = k]
<1>1. mem[s] \in KernelSessions
      OBVIOUS
<1>2. new \in KernelSessions /\ new.live = mem[s].live /\ new.turn = turn /\ new.pending = k
      BY <1>1 DEF KernelSessions
<1>3. mem' = [mem EXCEPT ![s] = new]
      BY DEF Turning
<1> HIDE DEF new
<1> QED BY <1>2, <1>3

-----------------------------------------------------------------------------
\* The parts of the invariant that read only the tables survive a step that leaves them alone.
LEMMA TablesKept ==
    ASSUME BindingInv, UNCHANGED tables, UNCHANGED <<acted, trusted>>
    PROVE  OnlyOwnerActs' /\ ObsoleteCodesGone' /\ CodesExact' /\ TrustKept' /\ CodesKnown'
<1> USE DEF BindingInv, tables
<1>1. OnlyOwnerActs'       BY DEF OnlyOwnerActs
<1>2. ObsoleteCodesGone'   BY DEF ObsoleteCodesGone
<1>3. CodesExact'          BY DEF CodesExact
<1>4. TrustKept'           BY DEF TrustKept, Nowhere
<1>5. CodesKnown'          BY DEF CodesKnown
<1> QED BY <1>1, <1>2, <1>3, <1>4, <1>5

\* carl trust buzz.
LEMMA TrustStep ==
    ASSUME BindingConstants, BindingInv, TrustFrontendOwner
    PROVE  BindingInv'
<1> USE DEF BindingConstants
<1>1. PICK a \in Actors : owner' = NewOwner(a) /\ trusted' = trusted \cup {a}
      BY DEF TrustFrontendOwner
<1>2. owner' \in People /\ owner'.actor = a
      BY <1>1 DEF NewOwner, People
<1>3. exec.step = "none" /\ UNCHANGED <<exec, holder>>
      BY DEF BindingInv, BindingTypeOK, GateHeld, TrustFrontendOwner
<1>4. BindingTypeOK'
      BY <1>1, <1>2 DEF BindingInv, BindingTypeOK, TrustFrontendOwner
<1>5. OnlyOwnerActs'
      BY <1>1 DEF BindingInv, OnlyOwnerActs, TrustFrontendOwner
<1>6. ObsoleteCodesGone'
      BY DEF BindingInv, ObsoleteCodesGone, TrustFrontendOwner
<1>7. CodesExact' /\ CodesKnown'
      BY DEF BindingInv, CodesExact, CodesKnown, TrustFrontendOwner
<1>8. TrustKept'
      BY <1>1, <1>2 DEF BindingInv, TrustKept, TrustFrontendOwner, Nowhere
<1>9. GateHeld'
      BY <1>3 DEF GateHeld
<1>10. KernelBound'
      BY DEF BindingInv, KernelBound, TrustFrontendOwner
<1> QED BY <1>4, <1>5, <1>6, <1>7, <1>8, <1>9, <1>10 DEF BindingInv

\* A process takes the data root.
LEMMA OpenStep ==
    ASSUME BindingConstants, BindingInv, OpenDataRoot
    PROVE  BindingInv'
<1>1. BindingTypeOK'
      BY DEF BindingInv, BindingTypeOK, OpenDataRoot, tables
<1>2. OnlyOwnerActs' /\ ObsoleteCodesGone' /\ CodesExact' /\ TrustKept' /\ CodesKnown'
      BY TablesKept DEF OpenDataRoot
<1>3. GateHeld'
      BY DEF BindingInv, GateHeld, OpenDataRoot, tables
<1>4. KernelBound'
      BY DEF BindingInv, KernelBound, OpenDataRoot, tables
<1> QED BY <1>1, <1>2, <1>3, <1>4 DEF BindingInv

\* The process ends: what it held in memory is gone.
LEMMA EndsStep ==
    ASSUME BindingConstants, BindingInv, ProcessEnds
    PROVE  BindingInv'
<1>1. Unloaded \in KernelSessions /\ ~Unloaded.live /\ Unloaded.turn = "idle"
      BY DEF Unloaded, KernelSessions
<1>2. Resting \in Executions /\ Resting.step = "none"
      BY DEF Resting, Executions
<1>3. BindingTypeOK'
      BY <1>1, <1>2 DEF BindingInv, BindingTypeOK, ProcessEnds, tables
<1>4. OnlyOwnerActs' /\ ObsoleteCodesGone' /\ CodesExact' /\ TrustKept' /\ CodesKnown'
      BY TablesKept DEF ProcessEnds
<1>5. GateHeld'
      BY <1>2 DEF GateHeld, ProcessEnds
<1>6. KernelBound'
      BY <1>1 DEF KernelBound, ProcessEnds
<1> QED BY <1>3, <1>4, <1>5, <1>6 DEF BindingInv

\* Time passes.
LEMMA TickStep ==
    ASSUME BindingConstants, BindingInv, Tick
    PROVE  BindingInv'
<1>1. BindingTypeOK'
      BY DEF BindingInv, BindingTypeOK, Tick, tables
<1>2. OnlyOwnerActs' /\ ObsoleteCodesGone' /\ CodesExact' /\ TrustKept' /\ CodesKnown'
      BY TablesKept DEF Tick
<1>3. GateHeld' /\ KernelBound'
      BY DEF BindingInv, GateHeld, KernelBound, Tick, tables
<1> QED BY <1>1, <1>2, <1>3 DEF BindingInv

\* session/new.
LEMMA NewSessionStep ==
    ASSUME BindingConstants, BindingInv, NEW s \in FrontendSessions, NewFrontendSession(s)
    PROVE  BindingInv'
<1> USE DEF BindingConstants
<1> DEFINE fresh == [Unloaded EXCEPT !.live = TRUE]
<1>1. fresh \in KernelSessions /\ fresh.turn = "idle"
      BY DEF Unloaded, KernelSessions
<1>2. /\ channelOf' \in Bindings /\ channelOf'[s] # Unbound
      /\ \A x \in FrontendSessions : x # s => channelOf'[x] = channelOf[x]
      /\ ObsoleteCodesGone'
      BY BindKeeps DEF BindingInv, NewFrontendSession
<1>3. holder = "kernel" /\ mem' = [mem EXCEPT ![s] = fresh]
      BY DEF NewFrontendSession
<1> HIDE DEF fresh
<1>4. BindingTypeOK'
      BY <1>1, <1>2, <1>3 DEF BindingInv, BindingTypeOK, NewFrontendSession, Bindings
<1>5. OnlyOwnerActs' /\ CodesExact' /\ CodesKnown'
      BY DEF BindingInv, OnlyOwnerActs, CodesExact, CodesKnown, NewFrontendSession
<1>6. TrustKept'
      BY DEF BindingInv, TrustKept, NewFrontendSession, Nowhere
<1>7. GateHeld'
      BY DEF BindingInv, GateHeld, NewFrontendSession
<1>8. KernelBound'
      <2>1. mem \in [FrontendSessions -> KernelSessions]
            BY DEF BindingInv, BindingTypeOK
      <2>2. mem'[s] = fresh /\ \A x \in FrontendSessions : x # s => mem'[x] = mem[x]
            BY <1>3, <2>1
      <2> QED BY <1>1, <1>2, <1>3, <2>2 DEF BindingInv, KernelBound, NewFrontendSession
<1> QED BY <1>2, <1>4, <1>5, <1>6, <1>7, <1>8 DEF BindingInv

\* The publisher answers.
LEMMA PublishStep ==
    ASSUME BindingConstants, BindingInv, NEW s \in FrontendSessions, Publish(s)
    PROVE  BindingInv'
<1>1. PICK result \in {"delivered", "failed", "uncertain"} :
        /\ delivery' = [delivery EXCEPT ![mem[s].pending] = result]
        /\ mem' = IF result = "delivered" THEN Turning(s, "awaiting", mem[s].pending)
                  ELSE Turning(s, "idle", None)
      BY DEF Publish
<1>2. mem \in [FrontendSessions -> KernelSessions] /\ mem[s].pending \in Codes
      BY DEF BindingInv, BindingTypeOK, KernelBound, Publish
<1> DEFINE Moved == /\ mem' \in [FrontendSessions -> KernelSessions]
                    /\ mem'[s].live = mem[s].live /\ mem'[s].turn \in {"awaiting", "idle"}
                    /\ mem'[s].turn = "awaiting" => mem'[s].pending \in Codes
                    /\ \A x \in FrontendSessions : x # s => mem'[x] = mem[x]
<1>3. ASSUME result = "delivered" PROVE Moved
      <2>1. mem' = Turning(s, "awaiting", mem[s].pending)
            BY <1>1, <1>3
      <2> QED BY <1>2, <2>1, Turned
<1>4. ASSUME result # "delivered" PROVE Moved
      <2>1. mem' = Turning(s, "idle", None)
            BY <1>1, <1>4
      <2>2. mem'[s].turn = "idle"
            BY <1>2, <2>1, Turned
      <2> QED BY <1>2, <2>1, <2>2, Turned
<1>10. Moved
      BY <1>3, <1>4
<1>5. delivery' \in [Codes -> {"none", "pending", "delivered", "failed", "uncertain"}]
      BY <1>1 DEF BindingInv, BindingTypeOK
<1>6. BindingTypeOK'
      BY <1>10, <1>5 DEF BindingInv, BindingTypeOK, Publish
<1>7. OnlyOwnerActs' /\ ObsoleteCodesGone' /\ CodesExact' /\ CodesKnown'
      BY DEF BindingInv, OnlyOwnerActs, ObsoleteCodesGone, CodesExact, CodesKnown, Publish
<1>8. TrustKept' /\ GateHeld'
      BY DEF BindingInv, TrustKept, GateHeld, Publish, Nowhere
<1>9. KernelBound'
      BY <1>10 DEF BindingInv, KernelBound, Publish
<1> QED BY <1>6, <1>7, <1>8, <1>9 DEF BindingInv

\* A turn ends.
LEMMA EndTurnStep ==
    ASSUME BindingConstants, BindingInv, NEW s \in FrontendSessions, EndTurn(s)
    PROVE  BindingInv'
<1>1. mem \in [FrontendSessions -> KernelSessions]
      BY DEF BindingInv, BindingTypeOK
<1>2. mem' = Turning(s, "idle", None)
      BY DEF EndTurn
<1>3. mem' \in [FrontendSessions -> KernelSessions]
      BY <1>1, <1>2, Turned
<1>4. /\ mem'[s].live = mem[s].live /\ mem'[s].turn = "idle"
      /\ \A x \in FrontendSessions : x # s => mem'[x] = mem[x]
      BY <1>1, <1>2, Turned
<1>5. BindingTypeOK'
      BY <1>3 DEF BindingInv, BindingTypeOK, EndTurn, tables
<1>6. OnlyOwnerActs' /\ ObsoleteCodesGone' /\ CodesExact' /\ TrustKept' /\ CodesKnown'
      BY TablesKept DEF EndTurn
<1>7. GateHeld'
      BY DEF BindingInv, GateHeld, EndTurn, tables
<1>8. KernelBound'
      BY <1>4 DEF BindingInv, KernelBound, EndTurn, tables
<1> QED BY <1>5, <1>6, <1>7, <1>8 DEF BindingInv

\* An effect waits for the owner: its approval and its code are stored (create_bound_approval).
LEMMA ApprovalStep ==
    ASSUME BindingConstants, BindingInv, NEW s \in FrontendSessions, NEW k \in Codes,
           RequestApproval(s, k)
    PROVE  BindingInv'
<1>1. mem \in [FrontendSessions -> KernelSessions] /\ mem' = Turning(s, "publishing", k)
      /\ mem[s].live /\ channelOf[s] # Unbound /\ holder = "kernel"
      BY DEF BindingInv, BindingTypeOK, KernelBound, RequestApproval
<1>2. /\ mem' \in [FrontendSessions -> KernelSessions]
      /\ mem'[s].live = mem[s].live /\ mem'[s].turn = "publishing" /\ mem'[s].pending = k
      /\ \A x \in FrontendSessions : x # s => mem'[x] = mem[x]
      BY <1>1, Turned
<1>3. /\ code' \in [Codes -> RemoteCodes] /\ ObsoleteCodesGone'
      /\ code'[k].kind = "approval" /\ code'[k].session = s /\ ~code'[k].consumed
      /\ \A j \in Codes : j # k => code'[j] = code[j]
      <2>1. NewCode(k, "approval", s) /\ UNCHANGED channelOf
            BY DEF RequestApproval
      <2> QED BY <1>1, <2>1, NewCodeKeeps DEF BindingInv
<1>4. /\ approval' \in [Codes -> {"none", "pending", "allowed", "denied", "bypass"}]
      /\ delivery' \in [Codes -> {"none", "pending", "delivered", "failed", "uncertain"}]
      /\ approval'[k] = "pending" /\ \A j \in Codes : j # k => approval'[j] = approval[j]
      BY DEF BindingInv, BindingTypeOK, RequestApproval
<1>5. BindingTypeOK'
      BY <1>2, <1>3, <1>4 DEF BindingInv, BindingTypeOK, RequestApproval
<1>6. OnlyOwnerActs' /\ TrustKept' /\ GateHeld'
      BY DEF BindingInv, OnlyOwnerActs, TrustKept, GateHeld, RequestApproval, Nowhere
<1>7. CodesExact'
      BY <1>3, <1>4 DEF BindingInv, CodesExact
<1>8. CodesKnown'
      BY <1>3, <1>4 DEF BindingInv, CodesKnown
<1>9. KernelBound'
      BY <1>1, <1>2 DEF BindingInv, KernelBound, RequestApproval
<1> QED BY <1>3, <1>5, <1>6, <1>7, <1>8, <1>9 DEF BindingInv

\* A remote request for bypass stores a code.
LEMMA BypassStep ==
    ASSUME BindingConstants, BindingInv, NEW s \in FrontendSessions, NEW k \in Codes,
           RequestRemoteBypass(s, k)
    PROVE  BindingInv'
<1>1. mem \in [FrontendSessions -> KernelSessions] /\ mem' = [mem EXCEPT ![s].bypass = k]
      /\ mem[s].live /\ channelOf[s] # Unbound
      BY DEF BindingInv, BindingTypeOK, KernelBound, RequestRemoteBypass
<1>2. /\ mem' \in [FrontendSessions -> KernelSessions]
      /\ \A x \in FrontendSessions : /\ mem'[x].live = mem[x].live /\ mem'[x].turn = mem[x].turn
                                     /\ mem'[x].pending = mem[x].pending
      <2> DEFINE new == [mem[s] EXCEPT !.bypass = k]
      <2>1. new \in KernelSessions /\ new.live = mem[s].live /\ new.turn = mem[s].turn
            /\ new.pending = mem[s].pending
            BY <1>1 DEF KernelSessions
      <2>2. mem' = [mem EXCEPT ![s] = new]
            BY <1>1
      <2> HIDE DEF new
      <2> QED BY <1>1, <2>1, <2>2
<1>3. /\ code' \in [Codes -> RemoteCodes] /\ ObsoleteCodesGone'
      /\ code'[k].kind = "bypass" /\ code'[k].session = s /\ ~code'[k].consumed
      /\ \A j \in Codes : j # k => code'[j] = code[j]
      <2>1. NewCode(k, "bypass", s) /\ UNCHANGED channelOf
            BY DEF RequestRemoteBypass
      <2> QED BY <1>1, <2>1, NewCodeKeeps DEF BindingInv
<1>4. /\ approval' \in [Codes -> {"none", "pending", "allowed", "denied", "bypass"}]
      /\ approval'[k] = "bypass" /\ \A j \in Codes : j # k => approval'[j] = approval[j]
      BY DEF BindingInv, BindingTypeOK, RequestRemoteBypass
<1>5. BindingTypeOK'
      BY <1>2, <1>3, <1>4 DEF BindingInv, BindingTypeOK, RequestRemoteBypass
<1>6. OnlyOwnerActs' /\ TrustKept' /\ GateHeld'
      BY DEF BindingInv, OnlyOwnerActs, TrustKept, GateHeld, RequestRemoteBypass, Nowhere
<1>7. CodesExact'
      BY <1>3, <1>4 DEF BindingInv, CodesExact
<1>8. CodesKnown'
      BY <1>3, <1>4 DEF BindingInv, CodesKnown
<1>9. KernelBound'
      BY <1>2 DEF BindingInv, KernelBound, RequestRemoteBypass
<1> QED BY <1>3, <1>5, <1>6, <1>7, <1>8, <1>9 DEF BindingInv

-----------------------------------------------------------------------------
\* A message of the owner reaches its session: what Attach does to the tables, whichever code it
\* uses up.
LEMMA AttachKeeps ==
    ASSUME BindingConstants, BindingInv, NEW s \in FrontendSessions, NEW a \in Actors,
           NEW c \in Channels, NEW e \in Messages, NEW used, Attach(s, a, c, e, used),
           trusted' = trusted
    PROVE  /\ owner' \in People /\ admitted' \in [Messages -> People] /\ TrustKept'
           /\ owner.actor = a /\ owner'.actor = a /\ a \in trusted
           /\ channelOf' \in Bindings /\ code' \in [Codes -> RemoteCodes]
           /\ \A x \in FrontendSessions : channelOf[x] # Unbound => channelOf'[x] # Unbound
           /\ ObsoleteCodesGone' /\ (approval' = approval => CodesKnown')
           /\ holder = "kernel" /\ mem[s].live
<1>1. AdmitMessage(a, c, e) /\ ClaimChannel(s, c, used) /\ holder = "kernel" /\ mem[s].live
      BY DEF Attach, Receives
<1>2. BindingTypeOK /\ TrustKept /\ ObsoleteCodesGone /\ CodesKnown
      BY DEF BindingInv
<1>3. /\ owner' \in People /\ admitted' \in [Messages -> People] /\ TrustKept'
      /\ owner.actor = a /\ owner'.actor = a /\ a \in trusted
      BY <1>1, <1>2, Admission
<1>4. /\ channelOf' \in Bindings
      /\ \A x \in FrontendSessions : channelOf[x] # Unbound => channelOf'[x] # Unbound
      BY <1>1, <1>2, ClaimedChannels
<1>5. code' \in [Codes -> RemoteCodes]
      BY <1>1, <1>2, ClaimedCodes
<1>6. ObsoleteCodesGone' /\ (approval' = approval => CodesKnown')
      BY <1>1, <1>2, ClaimKeeps
<1> QED BY <1>1, <1>3, <1>4, <1>5, <1>6

\* The effect of a message is one of the owner.
LEMMA EffectKeeps ==
    ASSUME BindingTypeOK, OnlyOwnerActs, NEW a \in Actors, NEW r \in BOOLEAN, Effect(a, r),
           owner' \in People, a \in trusted, a = owner'.actor \/ r, trusted' = trusted
    PROVE  /\ OnlyOwnerActs'
           /\ acted' \subseteq [actor : Actors, owner : Actors \cup {None}, recovered : BOOLEAN]
<1> DEFINE act == [actor |-> a, owner |-> owner'.actor, recovered |-> r]
<1>1. acted' = acted \cup {act}
      BY DEF Effect
<1>2. act \in [actor : Actors, owner : Actors \cup {None}, recovered : BOOLEAN]
      BY DEF People
<1>3. act.actor \in trusted /\ (act.actor = act.owner \/ act.recovered)
      OBVIOUS
<1> HIDE DEF act
<1>4. OnlyOwnerActs'
      BY <1>1, <1>3 DEF OnlyOwnerActs
<1> QED BY <1>1, <1>2, <1>4 DEF BindingTypeOK

\* The session remembers whose message it was.
LEMMA AttachedSession ==
    ASSUME BindingTypeOK, NEW s \in FrontendSessions, NEW a \in Actors, NEW c \in Channels
    PROVE  /\ Attached(s, a, c) \in KernelSessions /\ Attached(s, a, c).live = mem[s].live
           /\ Attached(s, a, c).turn = mem[s].turn /\ Attached(s, a, c).pending = mem[s].pending
<1>1. mem[s] \in KernelSessions
      BY DEF BindingTypeOK
<1> QED BY <1>1 DEF Attached, KernelSessions

\* The sessions after a message of s: s is still loaded, and waits only for a code.
LEMMA AttachedBound ==
    ASSUME BindingInv, NEW s \in FrontendSessions, NEW r \in KernelSessions,
           mem' = [mem EXCEPT ![s] = r], r.live = mem[s].live, UNCHANGED holder,
           r.turn \in {"awaiting", "publishing"} =>
             r.turn = mem[s].turn /\ r.pending = mem[s].pending,
           \A x \in FrontendSessions : channelOf[x] # Unbound => channelOf'[x] # Unbound
    PROVE  KernelBound' /\ mem' \in [FrontendSessions -> KernelSessions]
<1>1. mem \in [FrontendSessions -> KernelSessions]
      BY DEF BindingInv, BindingTypeOK
<1>2. mem'[s] = r /\ mem' \in [FrontendSessions -> KernelSessions]
      /\ \A x \in FrontendSessions : x # s => mem'[x] = mem[x]
      BY <1>1
<1> QED BY <1>2 DEF BindingInv, KernelBound

\* A prompt starts a turn or is refused.
LEMMA PromptStep ==
    ASSUME BindingConstants, BindingInv, NEW s \in FrontendSessions, NEW a \in Actors,
           NEW c \in Channels, NEW e \in Messages, Prompt(s, a, c, e)
    PROVE  BindingInv'
<1>1. /\ Attach(s, a, c, e, None)
      /\ UNCHANGED <<mode, approval, delivery, commands, exec, trusted, holder, clock, process,
                     trusts>>
      BY DEF Prompt
<1>2. /\ owner' \in People /\ admitted' \in [Messages -> People] /\ TrustKept'
      /\ owner.actor = a /\ owner'.actor = a /\ a \in trusted
      /\ channelOf' \in Bindings /\ code' \in [Codes -> RemoteCodes]
      /\ \A x \in FrontendSessions : channelOf[x] # Unbound => channelOf'[x] # Unbound
      /\ ObsoleteCodesGone' /\ CodesKnown'
      BY <1>1, AttachKeeps
<1>3. /\ Attached(s, a, c) \in KernelSessions /\ Attached(s, a, c).live = mem[s].live
      /\ Attached(s, a, c).turn = mem[s].turn /\ Attached(s, a, c).pending = mem[s].pending
      BY AttachedSession DEF BindingInv
<1>4. PICK r \in KernelSessions : /\ mem' = [mem EXCEPT ![s] = r] /\ r.live = mem[s].live
                                  /\ r.turn \in {"awaiting", "publishing"} =>
                                       r.turn = mem[s].turn /\ r.pending = mem[s].pending
      <2>1. CASE mem' = [mem EXCEPT ![s] = Attached(s, a, c)]
            BY <1>3, <2>1
      <2>2. CASE mem' = [mem EXCEPT ![s] = [Attached(s, a, c) EXCEPT !.turn = "running"]]
            <3> DEFINE new == [Attached(s, a, c) EXCEPT !.turn = "running"]
            <3>1. new \in KernelSessions /\ new.live = mem[s].live /\ new.turn = "running"
                  BY <1>3 DEF KernelSessions
            <3> HIDE DEF new
            <3>2. mem' = [mem EXCEPT ![s] = new]
                  BY <2>2 DEF new
            <3> QED BY <3>1, <3>2
      <2> QED BY <2>1, <2>2 DEF Prompt
<1>5. KernelBound' /\ mem' \in [FrontendSessions -> KernelSessions]
      BY <1>1, <1>2, <1>4, AttachedBound
<1>6. /\ OnlyOwnerActs'
      /\ acted' \subseteq [actor : Actors, owner : Actors \cup {None}, recovered : BOOLEAN]
      <2>1. CASE UNCHANGED acted
            BY <1>1, <2>1 DEF BindingInv, BindingTypeOK, OnlyOwnerActs
      <2>2. CASE Effect(a, FALSE)
            BY <1>1, <1>2, <2>2, EffectKeeps DEF BindingInv
      <2> QED BY <2>1, <2>2 DEF Prompt
<1>7. BindingTypeOK'
      BY <1>1, <1>2, <1>5, <1>6 DEF BindingInv, BindingTypeOK, Bindings
<1>8. CodesExact'
      <2>1. ClaimChannel(s, c, None) /\ BindingTypeOK /\ CodesKnown
            BY <1>1 DEF Attach, BindingInv
      <2>2. \A k \in Codes : code'[k].kind # "free" =>
              code'[k].kind = code[k].kind /\ (k # None => code'[k].consumed = code[k].consumed)
            BY <2>1, ClaimedCodes
      <2>3. \A k \in Codes : k # None
            BY DEF BindingConstants
      <2> QED BY <1>1, <2>2, <2>3 DEF BindingInv, CodesExact
<1>9. GateHeld'
      <2>1. exec.step = "none"
            BY <1>1 DEF BindingInv, BindingTypeOK, GateHeld, Attach, Receives
      <2> QED BY <1>1, <2>1 DEF GateHeld
<1> QED BY <1>2, <1>5, <1>6, <1>7, <1>8, <1>9 DEF BindingInv

\* A message that was admitted and could not be attached (attach_buzz_context).
LEMMA AttachFailsStep ==
    ASSUME BindingConstants, BindingInv, NEW s \in FrontendSessions, NEW a \in Actors,
           NEW c \in Channels, NEW e \in Messages, AttachFails(s, a, c, e)
    PROVE  BindingInv'
<1>1. /\ Receives(s, a, c) /\ AdmitMessage(a, c, e)
      /\ UNCHANGED <<mode, approval, delivery, commands, mem, exec, acted, trusted, holder, clock,
                     process, trusts>>
      BY DEF AttachFails
<1>2. BindingTypeOK /\ TrustKept /\ ObsoleteCodesGone /\ CodesKnown /\ CodesExact /\ KernelBound
      BY DEF BindingInv
<1>3. owner' \in People /\ admitted' \in [Messages -> People] /\ TrustKept'
      BY <1>1, <1>2, Admission
<1>4. exec.step = "none" /\ GateHeld'
      <2>1. exec.step = "none"
            BY <1>1 DEF BindingInv, BindingTypeOK, GateHeld, Receives
      <2> QED BY <1>1, <2>1 DEF GateHeld
<1>5. CASE ClaimChannel(s, c, None)
      <2>1. Attach(s, a, c, e, None)
            BY <1>1, <1>5 DEF Attach
      <2>2. /\ channelOf' \in Bindings /\ code' \in [Codes -> RemoteCodes]
            /\ \A x \in FrontendSessions : channelOf[x] # Unbound => channelOf'[x] # Unbound
            /\ ObsoleteCodesGone' /\ CodesKnown'
            BY <1>1, <2>1, AttachKeeps
      <2>3. CodesExact'
            <3>1. \A k \in Codes : code'[k].kind # "free" =>
                    code'[k].kind = code[k].kind /\ (k # None => code'[k].consumed = code[k].consumed)
                  BY <1>2, <1>5, ClaimedCodes
            <3>2. \A k \in Codes : k # None
                  BY DEF BindingConstants
            <3> QED BY <1>1, <1>2, <3>1, <3>2 DEF CodesExact
      <2>4. KernelBound'
            BY <1>1, <1>2, <2>2 DEF KernelBound
      <2>5. BindingTypeOK' /\ OnlyOwnerActs'
            BY <1>1, <1>3, <2>2 DEF BindingInv, BindingTypeOK, Bindings, OnlyOwnerActs
      <2> QED BY <1>3, <1>4, <2>2, <2>3, <2>4, <2>5 DEF BindingInv
<1>6. CASE UNCHANGED <<channelOf, code>>
      <2>1. BindingTypeOK' /\ OnlyOwnerActs'
            BY <1>1, <1>3, <1>6 DEF BindingInv, BindingTypeOK, OnlyOwnerActs
      <2>2. ObsoleteCodesGone' /\ CodesKnown' /\ CodesExact' /\ KernelBound'
            BY <1>1, <1>2, <1>6 DEF ObsoleteCodesGone, CodesKnown, CodesExact, KernelBound
      <2> QED BY <1>3, <1>4, <2>1, <2>2 DEF BindingInv
<1> QED BY <1>5, <1>6 DEF AttachFails

\* /approve and /deny (consume_remote_bound_approval).
LEMMA DecideStep ==
    ASSUME BindingConstants, BindingInv, NEW s \in FrontendSessions, NEW a \in Actors,
           NEW c \in Channels, NEW e \in Messages, Decide(s, a, c, e)
    PROVE  BindingInv'
<1> DEFINE k == mem[s].pending
<1>1. /\ Attach(s, a, c, e, k)
      /\ UNCHANGED <<mode, delivery, commands, exec, trusted, holder, clock, process, trusts>>
      BY DEF Decide
<1>2. k \in Codes /\ code[k].kind = "approval" /\ code[k].session = s /\ approval[k] = "pending"
      BY DEF BindingInv, KernelBound, Decide, ClaimMatches
<1>3. PICK d \in {"allowed", "denied"} : approval' = [approval EXCEPT ![k] = d]
      BY DEF Decide
<1>4. PICK r \in KernelSessions : /\ mem' = [mem EXCEPT ![s] = r] /\ r.live = mem[s].live
                                  /\ r.turn \in {"awaiting", "publishing"} =>
                                       r.turn = mem[s].turn /\ r.pending = mem[s].pending
      <2> DEFINE new == [Attached(s, a, c) EXCEPT !.turn = "running", !.pending = None]
      <2>1. /\ Attached(s, a, c) \in KernelSessions /\ Attached(s, a, c).live = mem[s].live
            /\ Attached(s, a, c).turn = mem[s].turn /\ Attached(s, a, c).pending = mem[s].pending
            BY AttachedSession DEF BindingInv
      <2>2. new \in KernelSessions /\ new.live = mem[s].live /\ new.turn = "running"
            BY <2>1 DEF KernelSessions
      <2>3. mem' = [mem EXCEPT ![s] = new] \/ mem' = [mem EXCEPT ![s] = Attached(s, a, c)]
            BY DEF Decide
      <2> HIDE DEF new
      <2> QED BY <2>1, <2>2, <2>3
<1>5. /\ owner' \in People /\ admitted' \in [Messages -> People] /\ TrustKept'
      /\ owner.actor = a /\ owner'.actor = a /\ a \in trusted
      /\ channelOf' \in Bindings /\ code' \in [Codes -> RemoteCodes]
      /\ \A x \in FrontendSessions : channelOf[x] # Unbound => channelOf'[x] # Unbound
      /\ ObsoleteCodesGone'
      BY <1>1, AttachKeeps
<1>6. Effect(a, FALSE) \/ UNCHANGED acted
      BY DEF Decide
<1>7. approval' \in [Codes -> {"none", "pending", "allowed", "denied", "bypass"}]
      /\ approval'[k] = d /\ \A j \in Codes : j # k => approval'[j] = approval[j]
      BY <1>2, <1>3 DEF BindingInv, BindingTypeOK
<1>8. ClaimChannel(s, c, k) /\ BindingTypeOK /\ CodesKnown
      BY <1>1 DEF Attach, BindingInv
<1> HIDE DEF k
<1>9. \A j \in Codes :
        /\ code'[j].kind # "free" =>
             /\ code'[j].kind = code[j].kind /\ code'[j].session = code[j].session
             /\ j # k => code'[j].consumed = code[j].consumed
             /\ j = k => code'[j].consumed
      BY <1>8, ClaimedCodes
<1>10. KernelBound' /\ mem' \in [FrontendSessions -> KernelSessions]
      BY <1>1, <1>4, <1>5, AttachedBound
<1>11. /\ OnlyOwnerActs'
       /\ acted' \subseteq [actor : Actors, owner : Actors \cup {None}, recovered : BOOLEAN]
      <2>1. CASE Effect(a, FALSE)
            BY <1>1, <1>5, <2>1, EffectKeeps DEF BindingInv
      <2>2. CASE UNCHANGED acted
            BY <1>1, <2>2 DEF BindingInv, BindingTypeOK, OnlyOwnerActs
      <2> QED BY <1>6, <2>1, <2>2
<1>12. BindingTypeOK'
      BY <1>1, <1>5, <1>7, <1>10, <1>11 DEF BindingInv, BindingTypeOK, Bindings
<1>13. CodesExact'
      BY <1>7, <1>9 DEF BindingInv, CodesExact
<1>14. CodesKnown'
      BY <1>7, <1>9 DEF BindingInv, CodesKnown
<1>15. GateHeld'
      <2>1. exec.step = "none"
            BY <1>1 DEF BindingInv, BindingTypeOK, GateHeld, Attach, Receives
      <2> QED BY <1>1, <2>1 DEF GateHeld
<1> QED BY <1>5, <1>10, <1>11, <1>12, <1>13, <1>14, <1>15 DEF BindingInv

\* /confirm-bypass.
LEMMA ConfirmStep ==
    ASSUME BindingConstants, BindingInv, NEW s \in FrontendSessions, NEW a \in Actors,
           NEW c \in Channels, NEW e \in Messages, ConfirmRemoteBypass(s, a, c, e)
    PROVE  BindingInv'
<1>1. PICK k \in Codes : ClaimMatches(k, "bypass", s, a) /\ Attach(s, a, c, e, k)
      BY DEF ConfirmRemoteBypass
<1>2. /\ Effect(a, FALSE) /\ mode' = [mode EXCEPT ![s] = "bypass"]
      /\ UNCHANGED <<approval, delivery, commands, exec, trusted, holder, clock, process, trusts>>
      BY DEF ConfirmRemoteBypass
<1> DEFINE new == [Attached(s, a, c) EXCEPT !.bypass = None]
<1>3. mem' = [mem EXCEPT ![s] = new] /\ mem[s].turn = "idle"
      BY DEF ConfirmRemoteBypass
<1>4. /\ owner' \in People /\ admitted' \in [Messages -> People] /\ TrustKept'
      /\ owner.actor = a /\ owner'.actor = a /\ a \in trusted
      /\ channelOf' \in Bindings /\ code' \in [Codes -> RemoteCodes]
      /\ \A x \in FrontendSessions : channelOf[x] # Unbound => channelOf'[x] # Unbound
      /\ ObsoleteCodesGone' /\ CodesKnown'
      BY <1>1, <1>2, AttachKeeps
<1>5. new \in KernelSessions /\ new.live = mem[s].live /\ new.turn = "idle"
      <2>1. Attached(s, a, c) \in KernelSessions /\ Attached(s, a, c).live = mem[s].live
            /\ Attached(s, a, c).turn = mem[s].turn
            BY AttachedSession DEF BindingInv
      <2> QED BY <1>3, <2>1 DEF KernelSessions
<1> HIDE DEF new
<1>6. KernelBound' /\ mem' \in [FrontendSessions -> KernelSessions]
      BY <1>2, <1>3, <1>4, <1>5, AttachedBound
<1>7. /\ OnlyOwnerActs'
      /\ acted' \subseteq [actor : Actors, owner : Actors \cup {None}, recovered : BOOLEAN]
      BY <1>2, <1>4, EffectKeeps DEF BindingInv
<1>8. mode' \in [FrontendSessions -> {"default", "bypass"}]
      BY <1>2 DEF BindingInv, BindingTypeOK
<1>9. BindingTypeOK'
      BY <1>2, <1>4, <1>6, <1>7, <1>8 DEF BindingInv, BindingTypeOK, Bindings
<1>10. CodesExact'
      <2>1. ClaimChannel(s, c, k) /\ BindingTypeOK /\ CodesKnown /\ code[k].kind = "bypass"
            BY <1>1 DEF Attach, BindingInv, ClaimMatches
      <2>2. \A j \in Codes : code'[j].kind # "free" =>
              code'[j].kind = code[j].kind /\ (j # k => code'[j].consumed = code[j].consumed)
            BY <2>1, ClaimedCodes
      <2> QED BY <1>2, <2>1, <2>2 DEF BindingInv, CodesExact
<1>11. GateHeld'
      <2>1. exec.step = "none"
            BY <1>1 DEF BindingInv, BindingTypeOK, GateHeld, Attach, Receives
      <2> QED BY <1>2, <2>1 DEF GateHeld
<1> QED BY <1>4, <1>6, <1>7, <1>9, <1>10, <1>11 DEF BindingInv

-----------------------------------------------------------------------------
\* What a step behind the service's gate leaves alone.
LEMMA GateKeeps ==
    ASSUME BindingInv, Gate, UNCHANGED commands, UNCHANGED acted,
           owner' \in People, admitted' \in [Messages -> People], channelOf' \in Bindings,
           code' \in [Codes -> RemoteCodes], exec' \in Executions, holder = "service"
    PROVE  BindingTypeOK' /\ OnlyOwnerActs' /\ KernelBound'
<1>1. BindingTypeOK'
      BY DEF BindingInv, BindingTypeOK, Bindings, Gate
<1>2. OnlyOwnerActs'
      BY DEF BindingInv, OnlyOwnerActs, Gate
<1>3. KernelBound'
      BY DEF BindingInv, KernelBound, Gate
<1> QED BY <1>1, <1>2, <1>3

\* A command is claimed under its key (claim_service_command).
LEMMA ClaimCommandStep ==
    ASSUME BindingConstants, BindingInv, NEW m \in Commands, ClaimCommand(m)
    PROVE  BindingInv'
<1> DEFINE claimed == [step |-> "admit", cmd |-> m, recovering |-> commands[m] = "pending",
                       recovered |-> FALSE]
<1>1. exec' = claimed /\ holder = "service" /\ holder' = holder
      BY DEF ClaimCommand, Gate
<1>2. claimed \in Executions /\ claimed.step = "admit" /\ claimed.cmd = m
      BY DEF Executions
<1> HIDE DEF claimed
<1>3. commands' \in [Commands -> {"none", "pending", "done"}]
      BY DEF BindingInv, BindingTypeOK, ClaimCommand
<1>4. BindingTypeOK'
      BY <1>1, <1>2, <1>3 DEF BindingInv, BindingTypeOK, ClaimCommand, Gate
<1>5. OnlyOwnerActs' /\ ObsoleteCodesGone' /\ CodesExact' /\ CodesKnown'
      BY DEF BindingInv, OnlyOwnerActs, ObsoleteCodesGone, CodesExact, CodesKnown, ClaimCommand, Gate
<1>6. TrustKept' /\ KernelBound'
      BY DEF BindingInv, TrustKept, KernelBound, ClaimCommand, Gate, Nowhere
<1>7. GateHeld'
      BY <1>1, <1>2 DEF GateHeld
<1> QED BY <1>4, <1>5, <1>6, <1>7 DEF BindingInv

\* Its message is admitted, found admitted or refused (recover_or_admit_trusted_frontend_message).
LEMMA AdmitStep ==
    ASSUME BindingConstants, BindingInv, Admit
    PROVE  BindingInv'
<1> DEFINE m == exec.cmd
<1>1. /\ exec.step = "admit" /\ Gate /\ UNCHANGED <<channelOf, code, commands, acted>>
      BY DEF Admit
<1>2. /\ m \in Commands /\ holder = "service" /\ exec \in Executions
      /\ m.actor \in Actors /\ m.channel \in Channels /\ m.event \in Messages
      BY <1>1 DEF BindingInv, BindingTypeOK, GateHeld, BindingConstants
<1>3. owner \in People /\ admitted \in [Messages -> People] /\ TrustKept /\ BindingTypeOK
      BY DEF BindingInv, BindingTypeOK
<1>4. ObsoleteCodesGone' /\ CodesExact' /\ CodesKnown'
      BY <1>1 DEF BindingInv, ObsoleteCodesGone, CodesExact, CodesKnown, Gate
<1>5. channelOf' \in Bindings /\ code' \in [Codes -> RemoteCodes] /\ UNCHANGED <<trusted, holder>>
      BY <1>1 DEF BindingInv, BindingTypeOK, Bindings, Gate
<1>6. CASE exec' = Resting /\ UNCHANGED <<owner, admitted>>
      <2>1. exec' \in Executions /\ exec'.step = "none"
            BY <1>6 DEF Resting, Executions
      <2>2. BindingTypeOK' /\ OnlyOwnerActs' /\ KernelBound'
            BY <1>1, <1>2, <1>3, <1>5, <1>6, <2>1, GateKeeps
      <2>3. TrustKept'
            BY <1>5, <1>6 DEF BindingInv, TrustKept, Nowhere
      <2>4. GateHeld'
            BY <2>1 DEF GateHeld
      <2> QED BY <1>4, <2>2, <2>3, <2>4 DEF BindingInv
<1>7. CASE /\ RecoverOrAdmit(m)
           /\ exec' = [exec EXCEPT !.step = IF m.kind = "steer" THEN "finish" ELSE "bind",
                                   !.recovered = Recovers(m)]
      <2>1. /\ exec' \in Executions /\ exec'.cmd = m /\ exec'.recovered = Recovers(m)
            /\ exec'.step \in {"bind", "finish"}
            <3>1. Recovers(m) \in BOOLEAN
                  BY <1>2 DEF Recovers, Executions
            <3> QED BY <1>2, <1>7, <3>1 DEF Executions
      <2>2. /\ owner' \in People /\ admitted' \in [Messages -> People] /\ TrustKept'
            /\ m.actor \in trusted /\ (m.actor = owner'.actor \/ Recovers(m))
            <3>1. CASE Recovers(m) /\ UNCHANGED <<owner, admitted>>
                  <4>1. admitted[m.event] # Nowhere /\ admitted[m.event].actor = m.actor
                        BY <1>2, <3>1 DEF Recovers, Nowhere, BindingConstants
                  <4>2. TrustKept'
                        BY <1>3, <1>5, <3>1 DEF TrustKept, Nowhere
                  <4> QED BY <1>2, <1>3, <3>1, <4>1, <4>2 DEF TrustKept
            <3>2. CASE AdmitMessage(m.actor, m.channel, m.event)
                  BY <1>2, <1>3, <1>5, <3>2, Admission
            <3> QED BY <1>7, <3>1, <3>2 DEF RecoverOrAdmit
      <2>3. BindingTypeOK' /\ OnlyOwnerActs' /\ KernelBound'
            BY <1>1, <1>2, <1>5, <2>1, <2>2, GateKeeps
      <2>4. GateHeld'
            BY <1>2, <1>5, <2>1, <2>2 DEF GateHeld
      <2> QED BY <1>4, <2>2, <2>3, <2>4 DEF BindingInv
<1> QED BY <1>6, <1>7 DEF Admit

\* However an admitted command binds its session (enqueue_owner_task, configure_owner_session).
LEMMA BindStep ==
    ASSUME BindingConstants, BindingInv, exec.step = "bind", Gate,
           UNCHANGED <<owner, admitted, commands, acted>>,
           exec' = exec \/ Step("finish") \/ exec' = Resting,
           \/ \E c \in Channels \cup {None} : BindSession(exec.cmd.session, c) /\ UNCHANGED code
           \/ ClaimChannel(exec.cmd.session, exec.cmd.channel, None)
           \/ UNCHANGED <<channelOf, code>>
    PROVE  BindingInv'
<1> DEFINE s == exec.cmd.session
           c == exec.cmd.channel
<1>1. /\ exec.cmd \in Commands /\ s \in FrontendSessions /\ c \in Channels /\ holder = "service"
      /\ exec.cmd.actor \in trusted /\ (exec.cmd.actor = owner.actor \/ exec.recovered)
      /\ exec \in Executions
      BY DEF BindingInv, BindingTypeOK, GateHeld, BindingConstants
<1>2. BindingTypeOK /\ ObsoleteCodesGone /\ CodesKnown /\ CodesExact
      BY DEF BindingInv
<1>3. UNCHANGED <<trusted, holder, approval>>
      BY DEF Gate
<1>4. exec' \in Executions /\ GateHeld'
      <2>1. CASE exec' = exec
            BY <1>1, <1>3, <2>1 DEF GateHeld
      <2>2. CASE Step("finish")
            <3>1. /\ exec' \in Executions /\ exec'.cmd = exec.cmd
                  /\ exec'.recovered = exec.recovered /\ exec'.step = "finish"
                  BY <1>1, <2>2 DEF Step, Executions
            <3> QED BY <1>1, <1>3, <3>1 DEF GateHeld
      <2>3. CASE exec' = Resting
            <3>1. exec' \in Executions /\ exec'.step = "none"
                  BY <2>3 DEF Resting, Executions
            <3> QED BY <3>1 DEF GateHeld
      <2> QED BY <2>1, <2>2, <2>3
<1>5. /\ channelOf' \in Bindings /\ code' \in [Codes -> RemoteCodes]
      /\ ObsoleteCodesGone' /\ CodesKnown' /\ CodesExact'
      <2>1. CASE \E d \in Channels \cup {None} : BindSession(s, d) /\ UNCHANGED code
            <3>1. PICK d \in Channels \cup {None} : BindSession(s, d) /\ UNCHANGED code
                  BY <2>1
            <3>2. channelOf' \in Bindings /\ ObsoleteCodesGone'
                  BY <1>1, <1>2, <3>1, BindKeeps
            <3> QED BY <1>2, <1>3, <3>1, <3>2 DEF BindingTypeOK, CodesKnown, CodesExact
      <2>2. CASE ClaimChannel(s, c, None)
            <3>1. channelOf' \in Bindings
                  BY <1>1, <1>2, <2>2, ClaimedChannels
            <3>2. /\ code' \in [Codes -> RemoteCodes]
                  /\ \A k \in Codes : code'[k].kind # "free" =>
                       /\ code'[k].kind = code[k].kind
                       /\ k # None => code'[k].consumed = code[k].consumed
                  BY <1>1, <1>2, <2>2, ClaimedCodes
            <3>3. ObsoleteCodesGone' /\ CodesKnown'
                  BY <1>1, <1>2, <1>3, <2>2, ClaimKeeps
            <3>4. \A k \in Codes : k # None
                  BY DEF BindingConstants
            <3>5. CodesExact'
                  BY <1>2, <1>3, <3>2, <3>4 DEF CodesExact
            <3> QED BY <3>1, <3>2, <3>3, <3>5
      <2>3. CASE UNCHANGED <<channelOf, code>>
            BY <1>2, <1>3, <2>3 DEF BindingTypeOK, Bindings, ObsoleteCodesGone, CodesKnown, CodesExact
      <2> QED BY <2>1, <2>2, <2>3
<1>6. TrustKept'
      BY <1>3 DEF BindingInv, TrustKept, Nowhere
<1>7. owner' \in People /\ admitted' \in [Messages -> People]
      BY <1>2 DEF BindingTypeOK
<1>8. BindingTypeOK' /\ OnlyOwnerActs' /\ KernelBound'
      BY <1>1, <1>4, <1>5, <1>7, GateKeeps
<1> QED BY <1>4, <1>5, <1>6, <1>8 DEF BindingInv

\* The command takes effect and its receipt is completed.
LEMMA FinishStep ==
    ASSUME BindingConstants, BindingInv, Finish
    PROVE  BindingInv'
<1>1. /\ exec.step = "finish" /\ Gate /\ UNCHANGED <<owner, admitted, channelOf, code>>
      /\ commands' = [commands EXCEPT ![exec.cmd] = "done"] /\ exec' = Resting
      /\ Effect(exec.cmd.actor, exec.recovered)
      BY DEF Finish
<1>2. UNCHANGED <<trusted, holder, approval, mem, mode, delivery, clock, process, trusts>>
      BY <1>1 DEF Gate
<1>3. /\ exec.cmd \in Commands /\ exec.cmd.actor \in Actors /\ exec.recovered \in BOOLEAN
      /\ exec.cmd.actor \in trusted /\ (exec.cmd.actor = owner.actor \/ exec.recovered)
      BY <1>1 DEF BindingInv, BindingTypeOK, GateHeld, BindingConstants, Executions
<1>4. /\ OnlyOwnerActs'
      /\ acted' \subseteq [actor : Actors, owner : Actors \cup {None}, recovered : BOOLEAN]
      <2>1. BindingTypeOK /\ OnlyOwnerActs /\ owner' \in People
            /\ (exec.cmd.actor = owner'.actor \/ exec.recovered)
            BY <1>1, <1>3 DEF BindingInv, BindingTypeOK
      <2> QED BY <1>1, <1>2, <1>3, <2>1, EffectKeeps
<1>5. exec' \in Executions /\ exec'.step = "none"
      BY <1>1 DEF Resting, Executions
<1>6. commands' \in [Commands -> {"none", "pending", "done"}]
      BY <1>1 DEF BindingInv, BindingTypeOK
<1>7. BindingTypeOK'
      BY <1>1, <1>2, <1>4, <1>5, <1>6 DEF BindingInv, BindingTypeOK
<1>8. ObsoleteCodesGone' /\ CodesExact' /\ CodesKnown'
      BY <1>1, <1>2 DEF BindingInv, ObsoleteCodesGone, CodesExact, CodesKnown
<1>9. TrustKept' /\ KernelBound'
      BY <1>1, <1>2 DEF BindingInv, TrustKept, KernelBound, Nowhere
<1>10. GateHeld'
      BY <1>5 DEF GateHeld
<1> QED BY <1>4, <1>7, <1>8, <1>9, <1>10 DEF BindingInv

\* Every step keeps the invariant.
LEMMA BindingInvKept ==
    ASSUME BindingConstants, BindingInv, [BindingNext]_bindingVars
    PROVE  BindingInv'
<1>1. CASE TrustFrontendOwner  BY <1>1, TrustStep
<1>2. CASE OpenDataRoot        BY <1>2, OpenStep
<1>3. CASE ProcessEnds         BY <1>3, EndsStep
<1>4. CASE Tick                BY <1>4, TickStep
<1>5. ASSUME NEW s \in FrontendSessions, NewFrontendSession(s) PROVE BindingInv'
      BY <1>5, NewSessionStep
<1>6. ASSUME NEW s \in FrontendSessions, Publish(s) PROVE BindingInv'
      BY <1>6, PublishStep
<1>7. ASSUME NEW s \in FrontendSessions, EndTurn(s) PROVE BindingInv'
      BY <1>7, EndTurnStep
<1>8. ASSUME NEW s \in FrontendSessions, NEW k \in Codes, RequestApproval(s, k) PROVE BindingInv'
      BY <1>8, ApprovalStep
<1>9. ASSUME NEW s \in FrontendSessions, NEW k \in Codes, RequestRemoteBypass(s, k)
      PROVE  BindingInv'
      BY <1>9, BypassStep
<1>10. ASSUME NEW s \in FrontendSessions, NEW a \in Actors, NEW c \in Channels, NEW e \in Messages,
              Prompt(s, a, c, e)
       PROVE  BindingInv'
      BY <1>10, PromptStep
<1>19. ASSUME NEW s \in FrontendSessions, NEW a \in Actors, NEW c \in Channels, NEW e \in Messages,
              AttachFails(s, a, c, e)
       PROVE  BindingInv'
      BY <1>19, AttachFailsStep
<1>11. ASSUME NEW s \in FrontendSessions, NEW a \in Actors, NEW c \in Channels, NEW e \in Messages,
              Decide(s, a, c, e)
       PROVE  BindingInv'
      BY <1>11, DecideStep
<1>12. ASSUME NEW s \in FrontendSessions, NEW a \in Actors, NEW c \in Channels, NEW e \in Messages,
              ConfirmRemoteBypass(s, a, c, e)
       PROVE  BindingInv'
      BY <1>12, ConfirmStep
<1>13. ASSUME NEW m \in Commands, ClaimCommand(m) PROVE BindingInv'
      BY <1>13, ClaimCommandStep
<1>14. CASE Admit  BY <1>14, AdmitStep
<1>15. CASE StartBinds
      <2>1. /\ exec.step = "bind" /\ Gate /\ UNCHANGED <<owner, admitted, commands, acted>>
            /\ exec' = exec \/ Step("finish") \/ exec' = Resting
            /\ \/ \E c \in Channels \cup {None} : BindSession(exec.cmd.session, c) /\ UNCHANGED code
               \/ ClaimChannel(exec.cmd.session, exec.cmd.channel, None)
               \/ UNCHANGED <<channelOf, code>>
            BY <1>15 DEF StartBinds
      <2> QED BY <2>1, BindStep
<1>16. CASE ConfigureBinds
      <2>1. exec.cmd.channel \in Channels
            BY <1>16 DEF BindingInv, GateHeld, BindingConstants, ConfigureBinds
      <2>2. /\ exec.step = "bind" /\ Gate /\ UNCHANGED <<owner, admitted, commands, acted>>
            /\ exec' = exec \/ Step("finish") \/ exec' = Resting
            /\ \/ \E c \in Channels \cup {None} : BindSession(exec.cmd.session, c) /\ UNCHANGED code
               \/ ClaimChannel(exec.cmd.session, exec.cmd.channel, None)
               \/ UNCHANGED <<channelOf, code>>
            BY <1>16, <2>1 DEF ConfigureBinds
      <2> QED BY <2>2, BindStep
<1>17. CASE Finish  BY <1>17, FinishStep
<1>18. CASE UNCHANGED bindingVars
      <2>1. UNCHANGED tables /\ UNCHANGED <<mem, exec, acted, trusted, holder, clock, process, trusts>>
            BY <1>18 DEF bindingVars
      <2>2. OnlyOwnerActs' /\ ObsoleteCodesGone' /\ CodesExact' /\ TrustKept' /\ CodesKnown'
            BY <2>1, TablesKept
      <2>3. BindingTypeOK' /\ GateHeld' /\ KernelBound'
            BY <2>1 DEF BindingInv, BindingTypeOK, GateHeld, KernelBound, tables
      <2> QED BY <2>2, <2>3 DEF BindingInv
<1> QED BY <1>1, <1>2, <1>3, <1>4, <1>5, <1>6, <1>7, <1>8, <1>9, <1>10, <1>11, <1>12, <1>13, <1>14,
           <1>15, <1>16, <1>17, <1>18, <1>19 DEF BindingNext

\* It holds before anybody is trusted.
LEMMA BindingInvStarts ==
    ASSUME BindingConstants, BindingInit
    PROVE  BindingInv
<1> USE DEF BindingInit
<1>1. Nowhere \in People /\ Free \in RemoteCodes /\ Unloaded \in KernelSessions
      BY DEF Nowhere, Free, Unloaded, People, RemoteCodes, KernelSessions
<1>2. Resting \in Executions
      BY DEF Resting, Executions
<1>3. BindingTypeOK
      BY <1>1, <1>2 DEF BindingTypeOK
<1>4. OnlyOwnerActs /\ CodesExact /\ CodesKnown
      BY DEF OnlyOwnerActs, CodesExact, CodesKnown, Free
<1>5. ObsoleteCodesGone
      BY DEF ObsoleteCodesGone, Free, BindingConstants
<1>6. TrustKept /\ GateHeld /\ KernelBound
      BY DEF TrustKept, GateHeld, KernelBound, Nowhere, Resting, Unloaded
<1> QED BY <1>3, <1>4, <1>5, <1>6 DEF BindingInv

-----------------------------------------------------------------------------
\* A step that touches neither approvals, admissions nor modes decides nothing.
LEMMA Undecided ==
    ASSUME BindingTypeOK, UNCHANGED <<approval, admitted, mode>>
    PROVE  Settles
BY DEF Settles

\* A new code decides nothing: it takes an approval nobody asked for yet.
LEMMA CodeSettles ==
    ASSUME BindingTypeOK, NEW k \in Codes, NEW v, approval[k] = "none",
           approval' = [approval EXCEPT ![k] = v], UNCHANGED <<admitted, mode>>
    PROVE  Settles
<1>1. \A j \in Codes : approval[j] # "none" => approval'[j] = approval[j]
      BY DEF BindingTypeOK
<1> QED BY <1>1 DEF Settles

\* A decision is made once, in time and by the owner.
LEMMA StepsSettle ==
    ASSUME BindingConstants, BindingInv, [BindingNext]_bindingVars
    PROVE  Settles
<1>0. BindingTypeOK /\ TrustKept /\ CodesKnown
      BY DEF BindingInv
<1>1. CASE TrustFrontendOwner
      BY <1>0, <1>1, Undecided DEF TrustFrontendOwner
<1>2. CASE OpenDataRoot
      BY <1>0, <1>2, Undecided DEF OpenDataRoot, tables
<1>3. CASE ProcessEnds
      BY <1>0, <1>3, Undecided DEF ProcessEnds, tables
<1>4. CASE Tick
      BY <1>0, <1>4, Undecided DEF Tick, tables
<1>5. ASSUME NEW s \in FrontendSessions, NewFrontendSession(s) PROVE Settles
      BY <1>0, <1>5, Undecided DEF NewFrontendSession
<1>6. ASSUME NEW s \in FrontendSessions, Publish(s) PROVE Settles
      BY <1>0, <1>6, Undecided DEF Publish
<1>7. ASSUME NEW s \in FrontendSessions, EndTurn(s) PROVE Settles
      BY <1>0, <1>7, Undecided DEF EndTurn, tables
<1>8. ASSUME NEW s \in FrontendSessions, NEW k \in Codes, RequestApproval(s, k) PROVE Settles
      <2>1. approval[k] = "none" /\ approval' = [approval EXCEPT ![k] = "pending"]
            /\ UNCHANGED <<admitted, mode>>
            BY <1>8 DEF RequestApproval, NewCode
      <2> QED BY <1>0, <2>1, CodeSettles
<1>9. ASSUME NEW s \in FrontendSessions, NEW k \in Codes, RequestRemoteBypass(s, k) PROVE Settles
      <2>1. approval[k] = "none" /\ approval' = [approval EXCEPT ![k] = "bypass"]
            /\ UNCHANGED <<admitted, mode>>
            BY <1>9 DEF RequestRemoteBypass, NewCode
      <2> QED BY <1>0, <2>1, CodeSettles
<1>10. ASSUME NEW s \in FrontendSessions, NEW a \in Actors, NEW c \in Channels, NEW e \in Messages,
              Prompt(s, a, c, e)
       PROVE  Settles
      <2>1. AdmitMessage(a, c, e) /\ UNCHANGED <<approval, mode>>
            BY <1>10 DEF Prompt, Attach
      <2>2. \A f \in Messages : admitted[f] # Nowhere => admitted'[f] = admitted[f]
            BY <1>0, <2>1, Admission
      <2> QED BY <2>1, <2>2 DEF Settles
<1>19. ASSUME NEW s \in FrontendSessions, NEW a \in Actors, NEW c \in Channels, NEW e \in Messages,
              AttachFails(s, a, c, e)
       PROVE  Settles
      <2>1. AdmitMessage(a, c, e) /\ UNCHANGED <<approval, mode>>
            BY <1>19 DEF AttachFails
      <2>2. \A f \in Messages : admitted[f] # Nowhere => admitted'[f] = admitted[f]
            BY <1>0, <2>1, Admission
      <2> QED BY <2>1, <2>2 DEF Settles
<1>11. ASSUME NEW s \in FrontendSessions, NEW a \in Actors, NEW c \in Channels, NEW e \in Messages,
              Decide(s, a, c, e)
       PROVE  Settles
      <2>1. AdmitMessage(a, c, e) /\ UNCHANGED mode
            BY <1>11 DEF Decide, Attach
      <2>2. \A f \in Messages : admitted[f] # Nowhere => admitted'[f] = admitted[f]
            BY <1>0, <2>1, Admission
      <2>3. /\ approval[mem[s].pending] = "pending"
            /\ clock < code[mem[s].pending].expires /\ ~code[mem[s].pending].consumed
            /\ \E d \in {"allowed", "denied"} : approval' = [approval EXCEPT ![mem[s].pending] = d]
            BY <1>11 DEF Decide, ClaimMatches
      <2>4. \A j \in Codes : j # mem[s].pending => approval'[j] = approval[j]
            BY <1>0, <2>3 DEF BindingTypeOK
      <2> QED BY <2>1, <2>2, <2>3, <2>4 DEF Settles
<1>12. ASSUME NEW s \in FrontendSessions, NEW a \in Actors, NEW c \in Channels, NEW e \in Messages,
              ConfirmRemoteBypass(s, a, c, e)
       PROVE  Settles
      <2>1. PICK k \in Codes : ClaimMatches(k, "bypass", s, a) /\ Attach(s, a, c, e, k)
            BY <1>12 DEF ConfirmRemoteBypass
      <2>2. AdmitMessage(a, c, e) /\ ClaimChannel(s, c, k) /\ UNCHANGED approval
            /\ mode' = [mode EXCEPT ![s] = "bypass"]
            BY <1>12, <2>1 DEF ConfirmRemoteBypass, Attach
      <2>3. owner.actor = a /\ \A f \in Messages : admitted[f] # Nowhere => admitted'[f] = admitted[f]
            BY <1>0, <2>2, Admission
      <2>4. code[k].kind = "bypass" /\ code[k].session = s /\ code[k].actor = a
            /\ ~code[k].consumed /\ clock < code[k].expires
            BY <2>1 DEF ClaimMatches
      <2>5. code'[k].consumed
            BY <1>0, <2>2, <2>4, ClaimedCodes
      <2>6. \A t \in FrontendSessions : t # s => mode'[t] = mode[t]
            BY <1>0, <2>2 DEF BindingTypeOK
      <2> QED BY <2>2, <2>3, <2>4, <2>5, <2>6 DEF Settles
<1>13. ASSUME NEW m \in Commands, ClaimCommand(m) PROVE Settles
      BY <1>0, <1>13, Undecided DEF ClaimCommand, Gate
<1>14. CASE Admit
      <2>1. exec.cmd \in Commands /\ UNCHANGED <<approval, mode>>
            BY <1>14 DEF Admit, Gate, BindingInv, GateHeld
      <2>2. exec.cmd.actor \in Actors /\ exec.cmd.channel \in Channels /\ exec.cmd.event \in Messages
            BY <2>1 DEF BindingConstants
      <2>3. CASE UNCHANGED admitted
            BY <1>0, <2>1, <2>3, Undecided
      <2>4. CASE AdmitMessage(exec.cmd.actor, exec.cmd.channel, exec.cmd.event)
            <3>1. \A f \in Messages : admitted[f] # Nowhere => admitted'[f] = admitted[f]
                  BY <1>0, <2>2, <2>4, Admission
            <3> QED BY <2>1, <3>1 DEF Settles
      <2> QED BY <1>14, <2>3, <2>4 DEF Admit, RecoverOrAdmit
<1>15. CASE StartBinds
      BY <1>0, <1>15, Undecided DEF StartBinds, Gate
<1>16. CASE ConfigureBinds
      BY <1>0, <1>16, Undecided DEF ConfigureBinds, Gate
<1>17. CASE Finish
      BY <1>0, <1>17, Undecided DEF Finish, Gate
<1>18. CASE UNCHANGED bindingVars
      BY <1>0, <1>18, Undecided DEF bindingVars, tables
<1> QED BY <1>1, <1>2, <1>3, <1>4, <1>5, <1>6, <1>7, <1>8, <1>9, <1>10, <1>11, <1>12, <1>13, <1>14,
           <1>15, <1>16, <1>17, <1>18, <1>19 DEF BindingNext

-----------------------------------------------------------------------------
\* The inductive invariant holds of every behaviour, through crashes, repeated commands and new
\* owners.
THEOREM BindingInvariant ==
    ASSUME BindingConstants
    PROVE  BindingSpec => []BindingInv
<1>1. BindingInit => BindingInv
      BY BindingInvStarts
<1>2. BindingInv /\ [BindingNext]_bindingVars => BindingInv'
      BY BindingInvKept
<1> QED BY <1>1, <1>2, PTL DEF BindingSpec

\* Only the trusted owner, or the admitted author of a repeated command, acts; no code outlives the
\* channel it was given for; a code and its approval are used up together; and a decision is final,
\* in time and the owner's (admit_trusted_frontend_message, claim_frontend_channel,
\* consume_remote_bound_approval, confirm_bypass).
THEOREM OwnerDecides ==
    ASSUME BindingConstants
    PROVE  BindingSpec => OnlyOwnerDecides
<1>1. BindingInv => BindingTypeOK /\ OnlyOwnerActs /\ ObsoleteCodesGone /\ CodesExact
      BY DEF BindingInv
<1>2. BindingInv /\ [BindingNext]_bindingVars => [Settles]_bindingVars
      BY StepsSettle
<1> QED BY <1>1, <1>2, BindingInvariant, PTL DEF BindingSpec, OnlyOwnerDecides, DecidedOnce
=============================================================================
