--------------------------- MODULE ControlReceipts ---------------------------
(***************************************************************************)
(* Keyed mutations of a task: the ACP methods _task/resume, _task/cancel    *)
(* and _task/steer, and the owner process's commands.  A receipt is claimed *)
(* under the caller's idempotency key, the mutation is applied and the      *)
(* receipt completed, three separate commits; the process may die between   *)
(* any two and the caller repeats the request under the same key.           *)
(***************************************************************************)
EXTENDS Naturals, FiniteSets

CONSTANTS
  SteerKeys, CancelKeys, ResumeKeys, StartKeys, ResolveKeys,  \* keys by mutation
  ServiceKeys,    \* the keys sent to the owner process, the others to an ACP server
  ReceiptCap,     \* 256 receipts of a frontend session
  MaxRequests,    \* bound: requests
  MaxCrashes,     \* bound: crashes
  NoKey

Keys == SteerKeys \cup CancelKeys \cup ResumeKeys \cup StartKeys \cup ResolveKeys

\* A key names one mutation (the receipt holds its digest), and the ACP methods
\* are resume, cancel and steer.
KeysAreDistinct ==
  /\ NoKey \notin Keys
  /\ \A k \in Keys :
       /\ k \in SteerKeys => k \notin CancelKeys \cup ResumeKeys \cup StartKeys \cup ResolveKeys
       /\ k \in CancelKeys => k \notin ResumeKeys \cup StartKeys \cup ResolveKeys
       /\ k \in ResumeKeys => k \notin StartKeys \cup ResolveKeys
       /\ k \in StartKeys => k \notin ResolveKeys
  /\ StartKeys \cup ResolveKeys \subseteq ServiceKeys

VARIABLES
  status,    \* durable status of the task
  run,       \* idle, pumped (controls reach it), resumed (inside task_resume)
  loaded,    \* the engine holds the task's runtime
  ask,       \* the run waits for an approval
  receipt,   \* none, pending, accepted, rejected
  marks,     \* durable control markers, steering controls and task receipts
  queue,     \* steering kept in memory for the next epoch
  reached,   \* how often a mutation took effect
  pc,        \* idle, gate, claim, act, provider, finish, fail
  key, seen, \* the request in flight and the status it has read
  answers,   \* answers given: <<key, answer>>
  spoiled,   \* keys whose repetition ended the task
  requests, crashes

taskVars == <<status, run, loaded, ask, queue>>
recordVars == <<receipt, marks, reached, answers, spoiled>>
receiptVars == <<taskVars, recordVars, pc, key, seen, requests, crashes>>

Terminal(s) == s \in {"Cancelled", "Completed", "Failed"}
Acp(k) == k \notin ServiceKeys

ReceiptInit ==
  /\ status = "Open" /\ run = "idle" /\ loaded = FALSE /\ ask = FALSE
  /\ receipt = [k \in Keys |-> "none"]
  /\ marks = {} /\ queue = {}
  /\ reached = [k \in Keys |-> 0]
  /\ pc = "idle" /\ key = NoKey /\ seen = "Open"
  /\ answers = {} /\ spoiled = {}
  /\ requests = 0 /\ crashes = 0

-----------------------------------------------------------------------------
(* A request: the ACP server reads one at a time, the owner holds its      *)
(* mutation gate for one at a time.                                        *)

Answer(a) ==
  /\ answers' = answers \cup {<<key, a>>}
  /\ pc' = "idle" /\ key' = NoKey

\* The ACP server reads the task's status before it claims.
Request(k) ==
  /\ pc = "idle" /\ requests < MaxRequests
  /\ requests' = requests + 1
  /\ key' = k /\ pc' = "claim"
  /\ seen' = IF Acp(k) THEN status ELSE seen
  /\ UNCHANGED <<taskVars, recordVars, crashes>>

AcpReceipts == {k \in Keys : Acp(k) /\ receipt[k] # "none"}

\* A new receipt, none when the session has as many as it may have, the
\* failure recorded at once for a task that had ended.
ClaimFresh ==
  /\ pc = "claim" /\ receipt[key] = "none"
  /\ IF Acp(key) /\ Cardinality(AcpReceipts) >= ReceiptCap
     THEN Answer("refused") /\ UNCHANGED receipt
     ELSE /\ receipt' = [receipt EXCEPT ![key] = "pending"]
          /\ pc' = IF Acp(key) /\ Terminal(seen) THEN "fail" ELSE "act"
          /\ UNCHANGED <<key, answers>>
  /\ UNCHANGED <<taskVars, marks, reached, spoiled, seen, requests, crashes>>

\* A pending receipt is tried again, a completed one is replayed.
ClaimExisting ==
  /\ pc = "claim" /\ receipt[key] # "none"
  /\ \/ receipt[key] = "pending" /\ pc' = "act" /\ UNCHANGED <<key, answers>>
     \/ receipt[key] = "accepted" /\ Answer("ok")
     \/ receipt[key] = "rejected" /\ Answer("invalid")
  /\ UNCHANGED <<taskVars, receipt, marks, reached, spoiled, seen, requests, crashes>>

\* A mutation that is not valid: the ACP server records the failure, the
\* owner leaves the receipt pending.
Invalid ==
  IF Acp(key) THEN pc' = "fail" /\ UNCHANGED <<key, answers>> ELSE Answer("invalid")

Complete ==
  /\ pc = "finish"
  /\ receipt' = [receipt EXCEPT ![key] = IF @ = "pending" THEN "accepted" ELSE @]
  /\ Answer("ok")
  /\ UNCHANGED <<taskVars, marks, reached, spoiled, seen, requests, crashes>>

Fail ==
  /\ pc = "fail"
  /\ receipt' = [receipt EXCEPT ![key] = IF @ = "pending" THEN "rejected" ELSE @]
  /\ Answer("invalid")
  /\ UNCHANGED <<taskVars, marks, reached, spoiled, seen, requests, crashes>>

-----------------------------------------------------------------------------
(* The mutations *)

Took(k) == reached' = [reached EXCEPT ![k] = @ + 1]

\* steer_controlled, and the Steer control of a run: the text's digest is
\* stored under the control's identity before the provider is steered; with
\* no run the text waits in memory.
Steer ==
  /\ pc = "act" /\ key \in SteerKeys
  /\ IF key \in marks
     THEN pc' = "finish" /\ UNCHANGED <<marks, queue, key, answers>>
     ELSE IF run = "pumped"
          THEN marks' = marks \cup {key} /\ pc' = "provider" /\ UNCHANGED <<queue, key, answers>>
          ELSE IF loaded /\ ~Terminal(status)
               THEN /\ marks' = marks \cup {key} /\ queue' = queue \cup {key}
                    /\ pc' = "finish" /\ UNCHANGED <<key, answers>>
               ELSE Invalid /\ UNCHANGED <<marks, queue>>
  /\ UNCHANGED <<status, run, loaded, ask, receipt, reached, spoiled, seen, requests, crashes>>

SteerProvider ==
  /\ pc = "provider" /\ key \in SteerKeys
  /\ \/ Took(key) /\ pc' = "finish" /\ UNCHANGED <<key, answers>>
     \/ Answer("error") /\ UNCHANGED reached
  /\ UNCHANGED <<taskVars, receipt, marks, spoiled, seen, requests, crashes>>

\* cancel_controlled: the marker first, then the epoch is interrupted.
CancelControlled ==
  /\ pc = "act" /\ key \in CancelKeys
  /\ IF status = "Cancelled" /\ key \in marks
     THEN pc' = "finish" /\ UNCHANGED <<marks, loaded, key, answers>>
     ELSE IF Terminal(status)
          THEN Invalid /\ UNCHANGED <<marks, loaded>>
          ELSE /\ marks' = marks \cup {key} /\ loaded' = TRUE
               /\ pc' = "provider" /\ UNCHANGED <<key, answers>>
  /\ UNCHANGED <<status, run, ask, queue, receipt, reached, spoiled, seen, requests, crashes>>

CancelProvider ==
  /\ pc = "provider" /\ key \in CancelKeys
  /\ \/ /\ status' = "Cancelled" /\ Took(key) /\ pc' = "finish"
        /\ UNCHANGED <<key, answers>>
     \/ Answer("error") /\ UNCHANGED <<status, reached>>
  /\ run' = "idle" /\ ask' = FALSE
  /\ UNCHANGED <<loaded, queue, receipt, marks, spoiled, seen, requests, crashes>>

\* resume_task runs the task inside the kernel actor; the owner only starts
\* it, and answers at once when it runs already.
Resume ==
  /\ pc = "act" /\ key \in ResumeKeys
  /\ CASE status = "Completed" /\ key \in marks /\ Acp(key) ->
            pc' = "finish" /\ UNCHANGED <<marks, loaded, run, reached, queue, key, answers>>
       [] Terminal(status) /\ ~(status = "Completed" /\ key \in marks /\ Acp(key)) ->
            Invalid /\ UNCHANGED <<marks, loaded, run, reached, queue>>
       [] ~Terminal(status) /\ run # "idle" ->
            /\ IF Acp(key) THEN Answer("busy") ELSE pc' = "finish" /\ UNCHANGED <<key, answers>>
            /\ UNCHANGED <<marks, loaded, run, reached, queue>>
       [] ~Terminal(status) /\ run = "idle" ->
            /\ marks' = marks \cup {key} /\ loaded' = TRUE
            /\ run' = (IF Acp(key) THEN "resumed" ELSE "pumped")
            /\ pc' = (IF Acp(key) THEN "provider" ELSE "finish")
            /\ reached' = [k \in Keys |-> IF k \in queue \cup {key} THEN reached[k] + 1 ELSE reached[k]]
            /\ queue' = {}
            /\ UNCHANGED <<key, answers>>
  /\ UNCHANGED <<status, ask, receipt, spoiled, seen, requests, crashes>>

\* Mutant: a task is created on every attempt.
StartAgain ==
  /\ pc = "act" /\ key \in StartKeys
  /\ marks' = marks \cup {key} /\ Took(key)
  /\ pc' = "finish"
  /\ UNCHANGED <<taskVars, receipt, answers, spoiled, key, seen, requests, crashes>>

\* create_task_idempotent: the task and its receipt in one transaction.
Start ==
  /\ pc = "act" /\ key \in StartKeys
  /\ IF key \in marks THEN UNCHANGED <<marks, reached>> ELSE marks' = marks \cup {key} /\ Took(key)
  /\ pc' = "finish"
  /\ UNCHANGED <<taskVars, receipt, answers, spoiled, key, seen, requests, crashes>>

\* ResolveApproval goes to the running task as a control and nothing marks
\* it.  A code answers one request only: with another code the request fails
\* and the run is blocked, and a run that waits for no approval fails.
Resolve ==
  /\ pc = "act" /\ key \in ResolveKeys
  /\ \/ /\ run # "pumped" /\ Answer("invalid")
        /\ UNCHANGED <<ask, reached, status, run, spoiled>>
     \/ /\ run = "pumped" /\ ask /\ reached[key] = 0
        /\ ask' = FALSE /\ Took(key) /\ pc' = "finish"
        /\ UNCHANGED <<status, run, spoiled, key, answers>>
     \/ /\ run = "pumped"
        /\ status' = (IF ask THEN "Open" ELSE "Failed") /\ run' = "idle" /\ ask' = FALSE
        /\ spoiled' = IF reached[key] > 0 THEN spoiled \cup {key} ELSE spoiled
        /\ Answer("invalid") /\ UNCHANGED reached
  /\ UNCHANGED <<loaded, queue, receipt, marks, seen, requests, crashes>>

-----------------------------------------------------------------------------
(* The task, and the process *)

\* A prompt, or the owner's scheduler, runs the task: an epoch starts and
\* takes the steering that waited.
StartRun ==
  /\ run = "idle" /\ status = "Open" /\ pc # "provider"
  /\ run' = "pumped" /\ loaded' = TRUE
  /\ reached' = [k \in Keys |-> IF k \in queue THEN reached[k] + 1 ELSE reached[k]]
  /\ queue' = {}
  /\ UNCHANGED <<status, ask, receipt, marks, answers, spoiled, pc, key, seen, requests, crashes>>

Asks ==
  /\ run = "pumped" /\ ~ask /\ pc # "provider" /\ ResolveKeys # {}
  /\ ask' = TRUE
  /\ UNCHANGED <<status, run, loaded, queue, recordVars, pc, key, seen, requests, crashes>>

\* The run ends, with the task or blocked; a control in progress is
\* finished first.  The resumption answers its caller.
RunEnds ==
  /\ run # "idle" /\ ~ask
  /\ pc = "provider" => run = "resumed"
  /\ status' \in {"Open", "Completed", "Failed"}
  /\ run' = "idle"
  /\ pc' = IF run = "resumed" THEN "finish" ELSE pc
  /\ UNCHANGED <<loaded, ask, queue, recordVars, key, seen, requests, crashes>>

Crash ==
  /\ crashes < MaxCrashes
  /\ crashes' = crashes + 1
  /\ run' = "idle" /\ loaded' = FALSE /\ ask' = FALSE /\ queue' = {}
  /\ pc' = "idle" /\ key' = NoKey
  /\ UNCHANGED <<status, recordVars, seen, requests>>

ReceiptNext ==
  \/ \E k \in Keys : Request(k)
  \/ ClaimFresh \/ ClaimExisting \/ Complete \/ Fail
  \/ Steer \/ SteerProvider \/ CancelControlled \/ CancelProvider \/ Resume \/ Start \/ Resolve
  \/ StartRun \/ Asks \/ RunEnds \/ Crash

ReceiptSpec == ReceiptInit /\ [][ReceiptNext]_receiptVars

-----------------------------------------------------------------------------
(* Properties *)

\* Type invariant.
ReceiptTypeOK ==
  /\ receipt \in [Keys -> {"none", "pending", "accepted", "rejected"}]
  /\ marks \subseteq Keys /\ queue \subseteq marks
  /\ (pc = "idle") = (key = NoKey)
  /\ pc \in {"act", "provider", "finish", "fail"} => receipt[key] = "pending"

\* However often a request is repeated and wherever the process dies, a
\* steering text, a cancellation, an approval and a new task take effect at
\* most once under their key.
EffectOnce == \A k \in Keys \ ResumeKeys : reached[k] <= 1

\* A mutation that took effect is never recorded or answered as refused: the
\* caller that repeats it after a crash learns that it was applied.  One case
\* apart: task_resume repeated over ACP, once the run it started and a crash
\* cut off has failed or was cancelled, is refused like any resumption of an
\* ended task.
AppliedNotRejected ==
  \A k \in Keys : reached[k] > 0 /\ receipt[k] = "rejected" =>
    k \in ResumeKeys /\ Acp(k) /\ status \in {"Failed", "Cancelled"}

\* An answer stands: a caller that was told ok is never told later that the
\* request is invalid, and an ACP caller that was refused is never told ok.
AnswerStands ==
  [][\A k \in Keys :
       /\ <<k, "ok">> \in answers /\ <<k, "invalid">> \in answers' => <<k, "invalid">> \in answers
       /\ Acp(k) /\ <<k, "invalid">> \in answers /\ <<k, "ok">> \in answers' => <<k, "ok">> \in answers
    ]_receiptVars

\* A control takes effect at most once under its key, wherever the process dies
\* between the mutation and its receipt; one that took effect is not refused
\* afterwards; and an answer once given stands (begin_task_control,
\* claim_service_command).
ControlsOnce ==
  /\ [](ReceiptTypeOK /\ EffectOnce /\ AppliedNotRejected)
  /\ AnswerStands

=============================================================================
