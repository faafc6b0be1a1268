---------------------------- MODULE SubscriptionRun ----------------------------
(***************************************************************************)
(* A delegated run from its preparation to its promotion: the durable run  *)
(* record with its event log, the sealed baseline and the proposal taken   *)
(* from the disposable stage, the verification of the proposed candidate   *)
(* and the start of the runtime, which collects artifacts nobody refers to *)
(* and interrupts the runs of the process before.                          *)
(*                                                                         *)
(* A tree is a function from the paths it holds to their contents. Objects *)
(* of the artifact store are content addressed, so an identifier is the    *)
(* value it stands for: a file, a manifest, the preconditions of a source  *)
(* or the envelope of a proposal.                                          *)
(***************************************************************************)
EXTENDS Naturals, Sequences, FiniteSets

CONSTANTS Runs, Paths, Contents,
          NoRecord,          \* no record
          MaxEpoch,     \* processes that open the data root
          MaxChanges,     \* changes of stages and candidate workspaces
          MaxDamage,    \* objects of the artifact store changed on disk
          MaxPinned,    \* objects named by task checkpoints
          TwoCallers,   \* whether another caller may move a run under ours
          Labels        \* trust labels that callers give to their transitions

VARIABLES run,        \* [state, rev, failure, observed] of subscription_runs
          log,        \* events linked to the run
          baseline,   \* subscription_run_baselines
          inspection, \* subscription_run_inspections
          proposal,   \* subscription_run_proposals
          request,    \* subscription_run_verification_requests
          result,     \* subscription_run_verification_results
          pinned,     \* objects named by task checkpoints
          objects,    \* files of the artifact store
          damaged,    \* the ones whose bytes changed on disk
          registered,       \* artifact_objects
          stage,      \* the stage of a run, in memory and below the stage parent
          offer,      \* the outcome of inspect_proposal held by the caller
          seen,       \* the record of the run a caller holds
          verifier,   \* the verification that has borrowed the runtime store
          exe,        \* the verification executable: the attested one, another, put back
          root, epoch, born, edits

records == <<baseline, inspection, proposal, request, result>>
store   == <<objects, damaged, registered, pinned>>
memory  == <<stage, offer, seen, verifier>>
runVars    == <<run, log, records, store, memory, exe, root, epoch, born, edits>>

RunState == {"prepared", "awaiting_delegate_approval", "running", "inspecting",
             "verifying", "awaiting_promotion_approval", "promoted",
             "completed_no_changes", "failed", "cancelled", "interrupted"}

Terminal == {"promoted", "completed_no_changes", "failed", "cancelled", "interrupted"}

CanTransition(from, to) ==
    \/ <<from, to>> \in
         {<<"prepared", "awaiting_delegate_approval">>, <<"awaiting_delegate_approval", "running">>,
          <<"running", "inspecting">>, <<"inspecting", "verifying">>,
          <<"inspecting", "completed_no_changes">>,
          <<"verifying", "awaiting_promotion_approval">>,
          <<"awaiting_promotion_approval", "promoted">>}
    \/ from \in RunState \ Terminal /\ to \in {"failed", "cancelled", "interrupted"}

Trees == UNION {[D -> Contents] : D \in SUBSET Paths}

File(c)        == <<"file", c>>
Manifest(t)    == <<"manifest", t>>
Preconditions(t) == <<"source", t>>
Envelope(t, p) == <<"proposal", t, p.path, p.after>>

BaselineIds(t)    == {Manifest(t), Preconditions(t)} \cup {File(t[p]) : p \in DOMAIN t}
ProposalIds(t, p) == {Envelope(t, p), File(p.after)}
Candidate(t, p)   == [t EXCEPT ![p.path] = p.after]

Referenced ==
    pinned
      \cup (UNION {BaselineIds(baseline[r]) : r \in {q \in Runs : baseline[q] # NoRecord}})
      \cup (UNION {ProposalIds(baseline[r], proposal[r]) : r \in {q \in Runs : proposal[q] # NoRecord}})

Readable(ids) == ids \subseteq objects /\ ids \cap damaged = {}

Registered(ids) == ids \subseteq registered

\* What the loaders require of a stored baseline and proposal.
StoredHeader(r)   == baseline[r] # NoRecord /\ Registered({Manifest(baseline[r]), Preconditions(baseline[r])})
StoredBaseline(r) == StoredHeader(r) /\ Registered(BaselineIds(baseline[r]))
StoredProposal(r) == /\ StoredBaseline(r) /\ proposal[r] # NoRecord /\ inspection[r] = "exact"
                     /\ Registered(ProposalIds(baseline[r], proposal[r]))

\* The runtime store reads the artifacts as well.
LoadedBaseline(r) == StoredBaseline(r) /\ Readable(BaselineIds(baseline[r]))
LoadedProposal(r) == LoadedBaseline(r) /\ StoredProposal(r)
                     /\ Readable(ProposalIds(baseline[r], proposal[r]))

\* What a log says of its run.
StateOf(l) == LET moves == {i \in DOMAIN l : l[i].kind = "moved"} IN
    IF moves = {} THEN "prepared" ELSE l[CHOOSE i \in moves : \A j \in moves : j <= i].to

ReplaysTo(l, n) ==
    /\ Len(l) = n.rev
    /\ l[1].kind = "prepared"
    /\ \A i \in 2..Len(l) :
         LET before == StateOf(SubSeq(l, 1, i - 1)) IN
           \/ l[i].kind = "moved" /\ l[i].from = before
           \/ l[i].kind = "observed" /\ before = "running" /\ \A j \in 1..(i - 1) : l[j].kind # "observed"
    /\ n.state = StateOf(l)
    /\ n.failure <=> StateOf(l) = "failed"
    /\ n.observed <=> \E i \in DOMAIN l : l[i].kind = "observed"

Replays(r) == ReplaysTo(log[r], run[r])

NextState(o) == IF o = "passed" THEN "awaiting_promotion_approval"
                ELSE IF o = "cancelled" THEN "cancelled" ELSE "failed"

ProcessOutcome == {"passed", "nonzero_exit", "timed_out", "cancelled", "output_limit_exceeded",
                   "process_failed"}
Outcomes       == ProcessOutcome \cup {"candidate_mutated", "output_rejected"}
Executables    == {"attested", "replaced", "restored"}

\* A stored request agrees with the evidence and was written by the transition it names.
RequestMatches(r) == request[r] # NoRecord /\ StoredProposal(r)
                     /\ request[r].candidate = Candidate(baseline[r], proposal[r])
StartedBy(r)      == request[r].seq \in DOMAIN log[r]
                     /\ log[r][request[r].seq] = [kind |-> "moved", from |-> "inspecting",
                                                 to |-> "verifying", trust |-> "state"]
StoredRequest(r)  == RequestMatches(r) /\ Replays(r) /\ StartedBy(r)

\* A stored result belongs to the request and was written by the transition out of Verifying.
ResultMatches(r) == result[r] # NoRecord /\ StoredRequest(r)
                    /\ (result[r].outcome = "passed" => result[r].observed = request[r].candidate)
CompletedBy(r)   == result[r].seq \in DOMAIN log[r]
                    /\ log[r][result[r].seq] = [kind |-> "moved", from |-> "verifying",
                           to |-> NextState(result[r].outcome), trust |-> "verification"]
StoredResult(r)  == ResultMatches(r) /\ CompletedBy(r)

Absent == [state |-> "absent", rev |-> 0, failure |-> FALSE, observed |-> FALSE]

\* What the theorems assume: the first process may open the data root, and the
\* absent record is none of the values that are recorded.
RunConstants ==
    /\ MaxEpoch \in Nat \ {0} /\ MaxChanges \in Nat
    /\ NoRecord \notin {"no_changes", "exact"} /\ NoRecord \notin [seq : Nat, candidate : Trees]
    /\ NoRecord \notin [seq : Nat, outcome : Outcomes \cup {NoRecord},
                         observed : Trees \cup {NoRecord}, exe : Executables]

RunInit ==
    /\ run = [r \in Runs |-> Absent] /\ log = [r \in Runs |-> <<>>]
    /\ baseline = [r \in Runs |-> NoRecord] /\ inspection = [r \in Runs |-> NoRecord]
    /\ proposal = [r \in Runs |-> NoRecord] /\ request = [r \in Runs |-> NoRecord]
    /\ result = [r \in Runs |-> NoRecord]
    /\ pinned = {} /\ objects = {} /\ damaged = {} /\ registered = {}
    /\ stage = [r \in Runs |-> NoRecord] /\ offer = [r \in Runs |-> NoRecord]
    /\ seen = [r \in Runs |-> Absent] /\ verifier = NoRecord /\ exe = "attested"
    /\ root = "serving" /\ epoch = 1 /\ born = [r \in Runs |-> 0] /\ edits = 0

\* The runtime store is free: a verification borrows it until it ends.
StoreFree == root = "serving" /\ verifier = NoRecord

\* The caller's record is the stored one.
Current(r) == run[r].state = seen[r].state /\ run[r].rev = seen[r].rev

-----------------------------------------------------------------------------
(***************************************************************************)
(* The run record: one immediate transaction per operation, which advances *)
(* the revision and appends the linked event. The caller keeps the record  *)
(* it was given, or another caller holds it and ours becomes stale.        *)
(***************************************************************************)

\* from and rev are the state and the revision the caller expects
Transition(r, from, rev, to, trust) ==
    /\ run' = [run EXCEPT ![r].state = to, ![r].rev = rev + 1, ![r].failure = (to = "failed")]
    /\ log' = [log EXCEPT ![r] =
                 Append(@, [kind |-> "moved", from |-> from, to |-> to, trust |-> trust])]

Told(r) == \/ seen' = [seen EXCEPT ![r] = run'[r]]
           \/ TwoCallers /\ seen' = seen

CreateRun(r) ==
    /\ StoreFree /\ run[r].state = "absent"
    /\ run' = [run EXCEPT ![r] = [Absent EXCEPT !.state = "prepared", !.rev = 1]]
    /\ log' = [log EXCEPT ![r] = <<[kind |-> "prepared"]>>]
    /\ born' = [born EXCEPT ![r] = epoch]
    /\ seen' = [seen EXCEPT ![r] = run'[r]]
    /\ UNCHANGED <<records, store, stage, offer, verifier, exe, root, epoch, edits>>

GetRun(r) ==
    /\ StoreFree /\ ~Current(r)
    /\ seen' = [seen EXCEPT ![r] = run[r]]
    /\ UNCHANGED <<run, log, records, store, stage, offer, verifier, exe, root, epoch, born, edits>>

CompareAndTransition(r) ==
    /\ StoreFree /\ Current(r)
    /\ \E to \in RunState \ {"verifying"}, trust \in Labels :
         /\ seen[r].state # "verifying" /\ CanTransition(seen[r].state, to)
         /\ Transition(r, seen[r].state, seen[r].rev, to, trust)
    /\ Told(r)
    /\ UNCHANGED <<records, store, stage, offer, verifier, exe, root, epoch, born, edits>>

ProviderConfiguration(r) ==
    /\ StoreFree /\ Current(r) /\ run[r].state = "running" /\ ~run[r].observed
    /\ run' = [run EXCEPT ![r].observed = TRUE, ![r].rev = @ + 1]
    /\ log' = [log EXCEPT ![r] = Append(@, [kind |-> "observed"])]
    /\ Told(r)
    /\ UNCHANGED <<records, store, stage, offer, verifier, exe, root, epoch, born, edits>>

-----------------------------------------------------------------------------
(***************************************************************************)
(* The stage. prepare copies the source file by file, putting each content *)
(* into the artifact store before the copy is written; a failure removes   *)
(* the stage and leaves the objects.                                       *)
(***************************************************************************)
Unstaged == CHOOSE t \in Trees : DOMAIN t = {}

StageOpen(r) ==
    /\ root = "serving" /\ stage[r] = NoRecord
    /\ stage' = [stage EXCEPT ![r] = [sealed |-> FALSE, todo |-> Paths, base |-> Unstaged, tree |-> Unstaged]]
    /\ UNCHANGED <<run, log, records, store, offer, seen, verifier, exe, root, epoch, born, edits>>

StageCopy(r) ==
    /\ root = "serving" /\ stage[r] # NoRecord /\ ~stage[r].sealed
    /\ \E p \in stage[r].todo :
         \/ /\ \E c \in Contents :
                 /\ File(c) \notin damaged
                 /\ objects' = objects \cup {File(c)}
                 /\ stage' = [stage EXCEPT ![r].todo = @ \ {p},
                                ![r].base = [q \in DOMAIN @ \cup {p} |-> IF q = p THEN c ELSE @[q]]]
         \/ /\ stage' = [stage EXCEPT ![r].todo = @ \ {p}]     \* excluded
            /\ UNCHANGED objects
    /\ UNCHANGED <<run, log, records, damaged, registered, pinned, offer, seen, verifier, exe, root, epoch, born, edits>>

StageSeal(r) ==
    /\ root = "serving" /\ stage[r] # NoRecord /\ ~stage[r].sealed /\ stage[r].todo = {}
    /\ LET t == stage[r].base IN
         /\ {Manifest(t), Preconditions(t)} \cap damaged = {}
         /\ objects' = objects \cup {Manifest(t), Preconditions(t)}
         /\ stage' = [stage EXCEPT ![r].sealed = TRUE, ![r].tree = t]
    /\ UNCHANGED <<run, log, records, damaged, registered, pinned, offer, seen, verifier, exe, root, epoch, born, edits>>

\* Preparation fails.
StageFails(r) ==
    /\ root = "serving" /\ stage[r] # NoRecord /\ ~stage[r].sealed
    /\ stage' = [stage EXCEPT ![r] = NoRecord]
    /\ UNCHANGED <<run, log, records, store, offer, seen, verifier, exe, root, epoch, born, edits>>

\* The delegate, or something it left running, works in the stage.
StageEdit(r) ==
    /\ root = "serving" /\ stage[r] # NoRecord /\ stage[r].sealed /\ edits < MaxChanges
    /\ \E t \in Trees : t # stage[r].tree /\ stage' = [stage EXCEPT ![r].tree = t]
    /\ edits' = edits + 1
    /\ UNCHANGED <<run, log, records, store, offer, seen, verifier, exe, root, epoch, born>>

Changed(s) == {p \in DOMAIN s.base : s.tree[p] # s.base[p]}

InspectProposal(r) ==
    /\ root = "serving" /\ stage[r] # NoRecord /\ stage[r].sealed
    /\ DOMAIN stage[r].tree = DOMAIN stage[r].base          \* nothing created, deleted or renamed
    /\ Readable(BaselineIds(stage[r].base) \ {Preconditions(stage[r].base)})
    /\ Cardinality(Changed(stage[r])) = 1
    /\ LET path == CHOOSE p \in Changed(stage[r]) : TRUE
           new  == [base |-> stage[r].base, path |-> path, after |-> stage[r].tree[path]]
       IN /\ ProposalIds(new.base, new) \cap damaged = {}
          /\ objects' = objects \cup ProposalIds(new.base, new)
          /\ offer' = [offer EXCEPT ![r] = new]
    /\ UNCHANGED <<run, log, records, damaged, registered, pinned, stage, seen, verifier, exe, root, epoch, born, edits>>

-----------------------------------------------------------------------------
(***************************************************************************)
(* The records of a run. None of them advances the revision.               *)
(***************************************************************************)
RecordBaseline(r) ==
    /\ StoreFree /\ Current(r) /\ run[r].state = "prepared" /\ baseline[r] = NoRecord
    /\ stage[r] # NoRecord /\ stage[r].sealed /\ Readable(BaselineIds(stage[r].base))
    /\ baseline' = [baseline EXCEPT ![r] = stage[r].base]
    /\ registered' = registered \cup BaselineIds(stage[r].base)
    /\ UNCHANGED <<run, log, inspection, proposal, request, result, objects, damaged, pinned, memory,
                   exe, root, epoch, born, edits>>

\* The runtime store inspects the stage itself and compares its baseline with the stored one.
UnchangedStage(r) ==
    /\ stage[r] # NoRecord /\ stage[r].sealed /\ stage[r].tree = stage[r].base
    /\ LoadedBaseline(r) /\ baseline[r] = stage[r].base

RecordNoChanges(r) ==
    /\ StoreFree /\ Current(r) /\ run[r].state = "inspecting" /\ inspection[r] = NoRecord
    /\ UnchangedStage(r)
    /\ inspection' = [inspection EXCEPT ![r] = "no_changes"]
    /\ UNCHANGED <<run, log, baseline, proposal, request, result, store, memory, exe, root, epoch, born, edits>>

\* The proposal belongs to the stored baseline and all its artifacts read back.
ExactOffer(r) ==
    /\ offer[r] # NoRecord /\ LoadedBaseline(r) /\ offer[r].base = baseline[r]
    /\ Readable(ProposalIds(baseline[r], offer[r]))

RecordExactProposal(r) ==
    /\ StoreFree /\ Current(r) /\ run[r].state = "inspecting" /\ inspection[r] = NoRecord
    /\ ExactOffer(r)
    /\ proposal' = [proposal EXCEPT ![r] = [path |-> offer[r].path, after |-> offer[r].after]]
    /\ inspection' = [inspection EXCEPT ![r] = "exact"]
    /\ registered' = registered \cup ProposalIds(baseline[r], offer[r])
    /\ UNCHANGED <<run, log, baseline, request, result, objects, damaged, pinned, memory,
                   exe, root, epoch, born, edits>>

\* A task checkpoint names an object by its digest.
CheckpointNames ==
    /\ StoreFree
    /\ \E a \in objects \ pinned : pinned' = pinned \cup {a}
    /\ Cardinality(pinned) < MaxPinned
    /\ UNCHANGED <<run, log, records, objects, damaged, registered, memory, exe, root, epoch, born, edits>>

-----------------------------------------------------------------------------
(***************************************************************************)
(* Verification: the request is committed with the transition, the         *)
(* candidate is rebuilt from the artifacts in a directory of its own, the  *)
(* executable runs in it and the result is committed with the second       *)
(* transition.                                                             *)
(***************************************************************************)

BeginVerification(r) ==
    /\ StoreFree /\ Current(r) /\ run[r].state = "inspecting" /\ LoadedProposal(r)
    /\ request' = [request EXCEPT ![r] = [seq |-> run[r].rev + 1,
                                          candidate |-> Candidate(baseline[r], proposal[r])]]
    /\ Transition(r, "inspecting", seen[r].rev, "verifying", "state")
    /\ verifier' = [run |-> r, rev |-> run[r].rev + 1, step |-> "begun", tree |-> Unstaged,
                    ended |-> NoRecord, exe |-> exe, observed |-> NoRecord]
    /\ UNCHANGED <<baseline, inspection, proposal, result, store, stage, offer, seen,
                   exe, root, epoch, born, edits>>

\* The candidate the artifacts give, if all of them read back.
Evidence(r) == IF LoadedProposal(r) THEN Candidate(baseline[r], proposal[r]) ELSE NoRecord

\* revalidate_verification_attestation compares the file that is there now: one that was
\* replaced and put back passes.
Attests == exe # "replaced"

\* The evidence is read and the workspace rebuilt; pre-execution attestation.
Rebuild ==
    /\ root = "serving" /\ verifier # NoRecord /\ verifier.step = "begun" /\ Evidence(verifier.run) # NoRecord
    /\ verifier' = [verifier EXCEPT !.step = IF Attests THEN "ready" ELSE "ran",
                      !.tree = Evidence(verifier.run),
                      !.ended = IF Attests THEN NoRecord ELSE "process_failed"]
    /\ UNCHANGED <<run, log, records, store, stage, offer, seen, exe, root, epoch, born, edits>>

\* The workspace cannot be rebuilt: the run is completed as failed.
RebuildFails ==
    /\ root = "serving" /\ verifier # NoRecord /\ verifier.step = "begun" /\ LoadedProposal(verifier.run)
    /\ verifier' = [verifier EXCEPT !.step = "observed", !.ended = "process_failed"]
    /\ UNCHANGED <<run, log, records, store, stage, offer, seen, exe, root, epoch, born, edits>>

Execute ==
    /\ root = "serving" /\ verifier # NoRecord /\ verifier.step = "ready"
    /\ \E o \in ProcessOutcome :
         verifier' = [verifier EXCEPT !.step = "ran", !.ended = o, !.exe = exe]
    /\ UNCHANGED <<run, log, records, store, stage, offer, seen, exe, root, epoch, born, edits>>

\* The process, or a child it left behind, changes the candidate.
CandidateEdit ==
    /\ root = "serving" /\ verifier # NoRecord /\ verifier.step \in {"ready", "ran"} /\ edits < MaxChanges
    /\ \E t \in Trees : t # verifier.tree /\ verifier' = [verifier EXCEPT !.tree = t]
    /\ edits' = edits + 1
    /\ UNCHANGED <<run, log, records, store, stage, offer, seen, exe, root, epoch, born>>

\* Later findings replace earlier ones: attestation, candidate or artifacts changed, cleanup.
Observed(cleaned) ==
    IF ~cleaned THEN "process_failed"
    ELSE IF \/ verifier.tree # request[verifier.run].candidate
            \/ Evidence(verifier.run) # request[verifier.run].candidate THEN "candidate_mutated"
    ELSE IF ~Attests THEN "process_failed" ELSE verifier.ended

\* The diagnostics decide last, unless the candidate was mutated.
Reported(o) == IF o = "candidate_mutated" THEN {o}
               ELSE {o, "output_limit_exceeded", "output_rejected"}

Observe ==
    /\ root = "serving" /\ verifier # NoRecord /\ verifier.step = "ran"
    /\ \E cleaned \in BOOLEAN : \E o \in Reported(Observed(cleaned)) :
         verifier' = [verifier EXCEPT !.step = "observed", !.ended = o,
                        !.observed = verifier.tree,
                        !.exe = IF exe = "restored" THEN exe ELSE @]
    /\ UNCHANGED <<run, log, records, store, stage, offer, seen, exe, root, epoch, born, edits>>

CompleteVerification ==
    /\ root = "serving" /\ verifier # NoRecord /\ verifier.step = "observed"
    /\ LET r == verifier.run IN
         /\ run[r].state = "verifying" /\ run[r].rev = verifier.rev
         /\ LoadedProposal(r) /\ StoredRequest(r) /\ result[r] = NoRecord
         /\ verifier.ended = "passed" => verifier.observed = request[r].candidate
         /\ result' = [result EXCEPT ![r] = [seq |-> run[r].rev + 1, outcome |-> verifier.ended,
                                             observed |-> verifier.observed, exe |-> verifier.exe]]
         /\ Transition(r, "verifying", verifier.rev, NextState(verifier.ended), "verification")
         /\ Told(r)
    /\ verifier' = NoRecord
    /\ UNCHANGED <<baseline, inspection, proposal, request, store, stage, offer,
                   exe, root, epoch, born, edits>>

\* The baseline or the proposal cannot be read back: an error, the run stays Verifying.
EvidenceUnreadable ==
    /\ root = "serving" /\ verifier # NoRecord /\ verifier.step \in {"begun", "observed"}
    /\ ~LoadedProposal(verifier.run)
    /\ verifier' = NoRecord
    /\ UNCHANGED <<run, log, records, store, stage, offer, seen, exe, root, epoch, born, edits>>

\* The caller drops the verification: its workspace is removed and nothing is recorded.
AbandonVerification ==
    /\ root = "serving" /\ verifier # NoRecord
    /\ verifier' = NoRecord
    /\ UNCHANGED <<run, log, records, store, stage, offer, seen, exe, root, epoch, born, edits>>

-----------------------------------------------------------------------------
(***************************************************************************)
(* The surroundings: objects change on disk, the executable is replaced,   *)
(* the process dies at any moment, also while it starts.                   *)
(***************************************************************************)
DamageObject ==
    /\ root = "serving" /\ Cardinality(damaged) < MaxDamage
    /\ \E a \in objects \ damaged : damaged' = damaged \cup {a}
    /\ UNCHANGED <<run, log, records, objects, registered, pinned, memory, exe, root, epoch, born, edits>>

\* another file takes the place of the executable, or the attested one is put back
ReplaceExecutable ==
    /\ root = "serving" /\ verifier # NoRecord /\ edits < MaxChanges
    /\ exe' = (IF exe = "replaced" THEN "restored" ELSE "replaced") /\ edits' = edits + 1
    /\ UNCHANGED <<run, log, records, store, memory, root, epoch, born>>

RuntimeDies ==
    /\ root \notin {"down"} /\ epoch < MaxEpoch
    /\ root' = "down"
    /\ stage' = [r \in Runs |-> NoRecord] /\ offer' = [r \in Runs |-> NoRecord]
    /\ seen' = [r \in Runs |-> Absent] /\ verifier' = NoRecord
    /\ UNCHANGED <<run, log, records, store, exe, epoch, born, edits>>

\* Files are removed before the transaction that removes their registered commits.
RetainObjects ==
    /\ root = "down"
    /\ objects' = objects \cap Referenced /\ damaged' = damaged \cap Referenced
    /\ root' = "retained" /\ epoch' = epoch + 1
    /\ UNCHANGED <<run, log, records, registered, pinned, memory, exe, born, edits>>

ReconcileRows ==
    /\ root = "retained"
    /\ registered' = registered \cap Referenced
    /\ root' = "reconciled"
    /\ UNCHANGED <<run, log, records, objects, damaged, pinned, memory, exe, epoch, born, edits>>

Abandoned == {r \in Runs : run[r].state \notin Terminal \cup {"absent"}}

\* Mutant: a run whose stage is under inspection is left to its inspector.
InterruptSparesInspecting ==
    /\ root = "reconciled"
    /\ LET left == {r \in Abandoned : run[r].state # "inspecting"} IN
         /\ run' = [r \in Runs |-> IF r \in left THEN [run[r] EXCEPT !.state = "interrupted", !.rev = @ + 1]
                                   ELSE run[r]]
         /\ log' = [r \in Runs |-> IF r \in left
                      THEN Append(log[r], [kind |-> "moved", from |-> run[r].state,
                                           to |-> "interrupted", trust |-> "state"])
                      ELSE log[r]]
    /\ root' = "serving"
    /\ UNCHANGED <<records, store, memory, exe, epoch, born, edits>>

\* All of them in one transaction, after every log was replayed.
InterruptAbandoned ==
    /\ root = "reconciled"
    /\ \A r \in Abandoned : Replays(r)
    /\ run' = [r \in Runs |-> IF r \in Abandoned THEN [run[r] EXCEPT !.state = "interrupted", !.rev = @ + 1]
                              ELSE run[r]]
    /\ log' = [r \in Runs |-> IF r \in Abandoned
                 THEN Append(log[r], [kind |-> "moved", from |-> run[r].state,
                                      to |-> "interrupted", trust |-> "state"])
                 ELSE log[r]]
    /\ root' = "serving"
    /\ UNCHANGED <<records, store, memory, exe, epoch, born, edits>>

Start  == RetainObjects \/ ReconcileRows \/ InterruptAbandoned

RunNext ==
    \/ \E r \in Runs : \/ CreateRun(r) \/ GetRun(r) \/ CompareAndTransition(r) \/ ProviderConfiguration(r)
                       \/ StageOpen(r) \/ StageCopy(r) \/ StageSeal(r) \/ StageFails(r) \/ StageEdit(r)
                       \/ InspectProposal(r) \/ RecordBaseline(r) \/ RecordNoChanges(r)
                       \/ RecordExactProposal(r) \/ BeginVerification(r)
    \/ CheckpointNames \/ Rebuild \/ RebuildFails \/ Execute \/ CandidateEdit
    \/ Observe \/ CompleteVerification \/ EvidenceUnreadable \/ AbandonVerification
    \/ DamageObject \/ ReplaceExecutable \/ RuntimeDies \/ RetainObjects \/ ReconcileRows \/ InterruptAbandoned

RunSpec == RunInit /\ [][RunNext]_runVars

-----------------------------------------------------------------------------
RunTypeOK ==
    /\ \A r \in Runs : run[r].state \in RunState \cup {"absent"} /\ run[r].rev \in Nat
                       /\ (run[r].failure <=> run[r].state = "failed")
    /\ damaged \subseteq objects /\ root \in {"serving", "down", "retained", "reconciled"}
    /\ epoch <= MaxEpoch /\ edits <= MaxChanges

\* Every object a committed record or checkpoint names is in the artifact store and registered,
\* however the collection at startup is interrupted and whatever runs share the content
\* (reconcile_runtime_artifacts, register_artifact_object).
ReferencesKept ==
    /\ Referenced \subseteq objects
    /\ Referenced \ pinned \subseteq registered

\* The linked events replay to the record, so the next start is never refused
\* (validate_subscription_run_replay).
ReplayAgrees == \A r \in Runs : run[r].state # "absent" => Replays(r)

\* Requests and results stay loadable whatever happens to the run afterwards: they agree with the
\* evidence and with the transitions they name (load_subscription_run_verification_request,
\* load_subscription_run_verification_result).
RecordsLoad == \A r \in Runs : /\ request[r] # NoRecord => StoredRequest(r)
                               /\ result[r] # NoRecord => StoredResult(r)

\* A run that awaits promotion, or was promoted, has a passed result for the candidate of its
\* own proposal, recorded by the very transition that led there, obtained in an unchanged
\* workspace from the attested executable; only one that was replaced and put back between the
\* two attestations escapes (complete_subscription_run_verification).
PromotionVerified ==
    \A r \in Runs : run[r].state \in {"awaiting_promotion_approval", "promoted"} =>
        /\ result[r] # NoRecord /\ result[r].outcome = "passed" /\ result[r].exe # "replaced"
        /\ result[r].observed = Candidate(baseline[r], proposal[r])
        /\ result[r].seq = request[r].seq + 1 /\ StoredResult(r)

\* Once the data root is open again, no run of an earlier process is left unfinished
\* (interrupt_abandoned_subscription_runs).
RestartSettles ==
    root = "serving" => \A r \in Runs : born[r] \in 1..(epoch - 1) => run[r].state \in Terminal

\* Records are written once and a finished run is never changed again; the evidence of a run
\* cannot move under a verification that is under way.
EvidenceFrozen ==
    \A r \in Runs :
        /\ baseline[r] # NoRecord => baseline'[r] = baseline[r]
        /\ inspection[r] # NoRecord => inspection'[r] = inspection[r] /\ proposal'[r] = proposal[r]
        /\ request[r] # NoRecord => request'[r] = request[r]
        /\ result[r] # NoRecord => result'[r] = result[r]
        /\ run[r].state \in Terminal => run'[r] = run[r] /\ log'[r] = log[r]

\* A run is promoted only on the passed verification of its own proposal; its
\* evidence is written once, stays loadable and replays to its record; the
\* objects it names survive every collection; and a restart leaves no run of an
\* earlier process unfinished (complete_subscription_run_verification,
\* reconcile_runtime_artifacts, interrupt_abandoned_subscription_runs).
RunsVerified ==
    /\ [](/\ RunTypeOK /\ ReferencesKept /\ ReplayAgrees /\ RecordsLoad
          /\ PromotionVerified /\ RestartSettles)
    /\ [][EvidenceFrozen]_runVars

=============================================================================
