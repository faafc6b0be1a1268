------------------------- MODULE CheckpointAuthority -------------------------
(***************************************************************************)
(* Committing a canonical checkpoint.  At a safe boundary the engine       *)
(* builds a checkpoint from the previous one and the journal's tail        *)
(* (build_checkpoint, CanonicalCheckpoint::build) and the store commits it *)
(* only after it validated it (commit_checkpoint): from the whole journal  *)
(* and every stored checkpoint or, when nothing but this connection wrote  *)
(* since the last commit, from the cached authority of that commit and the *)
(* tail alone.  The two do not look at the same rows: the control markers, *)
(* the older checkpoints and the packages are compared by the first only.  *)
(* Projections and rows can be damaged, another connection can append to   *)
(* the task between the build and the commit, the process can stop at any  *)
(* step, an insert can fail late.                                          *)
(*                                                                         *)
(* One task.  A sequence number is an index of the journal; events of      *)
(* other tasks take numbers too.  Digests do not collide: a checkpoint is  *)
(* named by its id, and a damaged row is a row that is no longer intact.   *)
(* Evidence lists ascend (the code enforces it), so they are sets.  The    *)
(* checkpoints the engine builds name no artifact (its work, its diff and  *)
(* the evidence of its clauses carry none), so validate_checkpoint_-       *)
(* artifacts has nothing to refuse.                                        *)
(***************************************************************************)
EXTENDS Naturals, Sequences, FiniteSets, SequencesExt, TLC

CONSTANTS Ops, Models, Efforts,
          FirstSetting,         \* the model and the effort the task was created with
          MaxSeq,        \* bound: length of the journal
          MaxRows,       \* bound: committed checkpoints
          MaxWrites,     \* bound: writes of other connections
          MaxStops,      \* bound: process stops and failed commits
          MaxUsage,      \* bound: usage reports
          MaxQueued,     \* bound: configurations queued
          MaxContexts,   \* bound: provider contexts
          MaxControls,   \* bound: control markers
          MaxRevised,    \* bound: revisions of the contract
          Damages        \* what may be damaged: some of "projection",
                         \* "configuration", "marker", "checkpoint", "package"

VARIABLES journal,  \* the event journal
          proj,     \* the task row: the stored snapshot
          conf,     \* the configuration row
          markers,  \* task_control_markers, by the sequence of their event
          rows,     \* task_checkpoints with their context packages
          version,  \* data_version: commits of other connections
          cache,    \* authenticated_checkpoint_authority of this task
          rt,       \* the engine's RuntimeTask
          draft,    \* the checkpoint that was built, with its revision
          phase,    \* "idle", "epoch", "boundary", "built" or "down"
          damage,   \* history: what was damaged, and by which connection
          stops

childVars == <<conf, markers>>
storeVars == <<journal, proj, childVars, rows, version>>
vars == <<storeVars, cache, rt, draft, phase, damage, stops>>

None == 0
Resolved == {"succeeded", "failed", "cancelled", "reconciled"}

Edges == {<<"intent", "started">>, <<"uncertain", "reconciled">>}
         \cup ({"started"} \X {"succeeded", "failed", "cancelled", "uncertain"})

Put(f, k, v) == [x \in DOMAIN f \cup {k} |-> IF x = k THEN v ELSE f[x]]
-----------------------------------------------------------------------------
(* Replay of operations: status, last transition, evidence.                *)

FromConsumed(used, last, st) == [st |-> st, last |-> last, rec |-> {}, used |-> used]

LegalEvent(ops, e) ==
    CASE e.k = "intent" -> e.op \notin DOMAIN ops
      [] e.k = "evidence" -> /\ e.op \in DOMAIN ops
                             /\ ops[e.op].st \in {"started", "uncertain"}
                             /\ e.seq > ops[e.op].last
      [] e.k = "moved" ->
            /\ e.op \in DOMAIN ops
            /\ ops[e.op].st = e.from
            /\ <<e.from, e.to>> \in Edges
            /\ e.to # "started" =>
                 /\ e.used # {}
                 /\ \A s \in e.used : /\ s > ops[e.op].last
                                      /\ s \in ops[e.op].rec
                                      /\ s \notin ops[e.op].used
      [] OTHER -> TRUE

OpStep(ops, e) ==
    CASE e.k = "intent" -> Put(ops, e.op, FromConsumed({}, e.seq, "intent"))
      [] e.k = "evidence" -> [ops EXCEPT ![e.op].rec = @ \cup {e.seq}]
      [] e.k = "moved" -> [ops EXCEPT ![e.op].st = e.to,
                                      ![e.op].last = e.seq,
                                      ![e.op].used = @ \cup e.used]
      [] OTHER -> ops

\* journal_operations: [ok |-> no event was refused, ops |-> their states]
ReplayOps(start, events) ==
    FoldLeft(LAMBDA a, e :
               IF a.ok /\ LegalEvent(a.ops, e)
               THEN [a EXCEPT !.ops = OpStep(@, e)] ELSE [a EXCEPT !.ok = FALSE],
             [ok |-> TRUE, ops |-> start], events)

(* The reducer, the configuration, the markers and the usage, as steps.    *)
NewTask == [epoch |-> FALSE, ctx |-> None, latest |-> None, contract |-> 0, rev |-> 0,
            ops |-> [o \in {} |-> None]]

ContractAfter(was, e) == IF e.k = "revised" THEN was + 1 ELSE was
EpochAfter(was, e) == IF e.k = "epoch" THEN TRUE ELSE IF e.k = "finished" THEN FALSE ELSE was
LatestAfter(was, e) == IF e.k = "committed" THEN e.id ELSE was
ContextAfter(was, e) == IF e.k = "bound" THEN e.ctx ELSE IF e.k = "lost" THEN None ELSE was

SnapStep(s, e) ==
    [rev |-> s.rev + 1, ops |-> OpStep(s.ops, e),
     contract |-> ContractAfter(s.contract, e), epoch |-> EpochAfter(s.epoch, e),
     latest |-> LatestAfter(s.latest, e), ctx |-> ContextAfter(s.ctx, e)]

\* replay_task_child_projections; a configuration that was applied and not
\* queued makes the replay fail, which no stored row equals
NewConf == [active |-> FirstSetting, queued |-> {}]
Unreplayable == [model |-> "none", effort |-> "none"]
ConfStep(c, e) ==
    CASE e.k = "queued" -> [c EXCEPT !.queued = {e.setting}]
      [] e.k = "applied" -> IF c.queued = {} THEN [c EXCEPT !.queued = {Unreplayable}]
                            ELSE [active |-> CHOOSE s \in c.queued : TRUE, queued |-> {}]
      [] OTHER -> c
MarkerStep(ms, e) == IF e.k = "control" THEN ms \cup {e.seq} ELSE ms

UseStep(u, e) ==
    IF e.k # "usage" THEN u
    ELSE [tokens |-> e.tokens, window |-> IF e.window # None THEN e.window ELSE u.window]

NoUse == [tokens |-> None, window |-> None]
TaskEvents == SelectSeq(journal, LAMBDA e : e.k # "foreign")
After(n) == SelectSeq(journal, LAMBDA e : e.k # "foreign" /\ e.seq > n)
FirstSeq == TaskEvents[1].seq
LastSeq == TaskEvents[Len(TaskEvents)].seq
-----------------------------------------------------------------------------
(* The engine's side: building a checkpoint.                               *)

\* build_operations: what the previous checkpoint and the tail make of them
BuiltOps == ReplayOps(
    IF rt.prev = None THEN [o \in {} |-> None]
    ELSE LET p == rows[rt.prev].cp
         IN  [o \in DOMAIN p.ops |-> FromConsumed(p.ops[o].used, p.end, p.ops[o].st)],
    After(IF rt.prev = None THEN 0 ELSE rows[rt.prev].cp.end))

Brief(ops) == [o \in DOMAIN ops |-> [st |-> ops[o].st, used |-> ops[o].used]]

\* CheckpointId::new
BuildId == Len(rows) + 1

\* build_checkpoint
Build ==
    [id     |-> BuildId,
     prev   |-> rt.prev,
     gen    |-> IF rt.prev = None THEN 0 ELSE rows[rt.prev].cp.gen + 1,
     start  |-> IF rt.prev = None THEN FirstSeq ELSE rows[rt.prev].cp.start,
     end    |-> LastSeq,
     ops    |-> Brief(BuiltOps.ops),
     contract |-> proj.contract,
     ctx    |-> rt.ctx,
     model  |-> rt.setting.model,
     effort |-> rt.setting.effort,
     tokens |-> rt.use.tokens,
     window |-> rt.use.window]

\* what the previous checkpoint, or the creation, says of the provider
Predecessor == IF rt.prev = None
               THEN [tokens |-> None, window |-> None,
                     model |-> FirstSetting.model, effort |-> FirstSetting.effort]
               ELSE rows[rt.prev].cp

\* validate_provider_metadata: the model and the effort are those of the
\* creation event or of the previous checkpoint; configuration events are not
\* looked at.
ProviderMetadata ==
    /\ rt.setting.model = Predecessor.model
    /\ rt.setting.effort = Predecessor.effort
    /\ rt.use = FoldLeft(UseStep, [tokens |-> Predecessor.tokens, window |-> Predecessor.window],
                         After(IF rt.prev = None THEN 0 ELSE Predecessor.end))
    /\ rt.ctx = proj.ctx

\* CanonicalCheckpoint::build succeeds
BuildOk ==
    /\ BuiltOps.ok
    /\ \A o \in DOMAIN BuiltOps.ops :
         /\ BuiltOps.ops[o].st \in Resolved
         /\ BuiltOps.ops[o].used # {}
         /\ o \in DOMAIN proj.ops /\ proj.ops[o].st = BuiltOps.ops[o].st
    /\ ProviderMetadata
-----------------------------------------------------------------------------
(* The store's side: validating it.                                        *)

\* what both paths require of the authoritative state
Matches(cp, snap, cfgn, ops, use, gen) ==
    /\ ~snap.epoch
    /\ \A o \in DOMAIN snap.ops : snap.ops[o].st \in Resolved
    /\ cp.contract = snap.contract
    /\ cp.ctx = snap.ctx
    /\ cp.model = cfgn.active.model
    /\ cp.effort = cfgn.active.effort
    /\ cp.tokens = use.tokens /\ cp.window = use.window
    /\ cp.ops = Brief(ops)
    /\ cp.gen = gen

\* validate_task_authority_from_journal: the rows are what replay gives
ProjectionsReplayed ==
    /\ proj = FoldLeft(SnapStep, NewTask, TaskEvents)
    /\ conf = FoldLeft(ConfStep, NewConf, TaskEvents)
MarkersReplayed == markers = FoldLeft(MarkerStep, {}, TaskEvents)

\* validate_canonical_source_bounds: the row covers everything before its own
\* commit event
SourceBounds(r) ==
    /\ r.cp.start = FirstSeq
    /\ \E e \in ToSet(TaskEvents) : e.seq = r.cp.end
    /\ ~ \E e \in ToSet(TaskEvents) : e.seq > r.cp.end /\ e.seq < r.seq
    /\ journal[r.seq] = [k |-> "committed", seq |-> r.seq, id |-> r.cp.id]

\* validate_task_canonical_payloads_filtered, for one stored checkpoint
StoredSound(i) ==
    /\ rows[i].intact /\ rows[i].package
    /\ SourceBounds(rows[i])
    /\ rows[i].cp.prev = i - 1

StoredRowsSound == \A i \in DOMAIN rows : StoredSound(i)

\* validate_checkpoint_history, and the comparisons from an empty anchor
ExtendsHistory(cp) ==
    /\ cp.start = FirstSeq /\ cp.end = LastSeq
    /\ cp.prev = proj.latest
    /\ LET all == ReplayOps([o \in {} |-> None], TaskEvents)
       IN  /\ all.ok
           /\ Matches(cp, proj, conf, all.ops, FoldLeft(UseStep, NoUse, TaskEvents),
                      IF proj.latest = None THEN 0 ELSE rows[proj.latest].cp.gen + 1)

\* the full path
FullAccepts(cp) ==
    /\ ProjectionsReplayed /\ MarkersReplayed
    /\ StoredRowsSound
    /\ ExtendsHistory(cp)

\* validate_checkpoint_authority_incremental
AnchoredAccepts(cp) ==
    LET a == cache.cp
        tail == After(a.end)
        snap == FoldLeft(SnapStep, cache.snap, tail)
        cfgn == FoldLeft(ConfStep, cache.conf, tail)
        ops == ReplayOps([o \in DOMAIN a.ops |->
                            FromConsumed(a.ops[o].used, a.end, a.ops[o].st)], tail)
    IN  /\ cp.prev = a.id /\ cp.start = a.start
        /\ ops.ok
        /\ cp.end = IF tail = <<>> THEN a.end ELSE tail[Len(tail)].seq
        /\ snap = proj
        /\ cfgn = conf
        /\ Matches(cp, snap, cfgn, ops.ops,
                   FoldLeft(UseStep, [tokens |-> a.tokens, window |-> a.window], tail),
                   a.gen + 1)

\* the cached authority is used: authenticated_checkpoint_matches_database
AnchorUsable ==
    /\ cache.id # None
    /\ cache.version = version
    /\ proj.latest # None /\ proj.latest = cache.id
    /\ rows[proj.latest].intact

Accepts(cp) == IF AnchorUsable THEN AnchoredAccepts(cp) ELSE FullAccepts(cp)
-----------------------------------------------------------------------------
NoCache == [id |-> None]
NoDraft == [rev |-> None]

Init ==
    /\ journal = << [k |-> "created", seq |-> 1], [k |-> "bound", seq |-> 2, ctx |-> 1] >>
    /\ proj = FoldLeft(SnapStep, NewTask, journal)
    /\ conf = NewConf /\ markers = {}
    /\ rows = <<>>
    /\ version = 0
    /\ cache = NoCache
    /\ rt = [prev |-> None, setting |-> FirstSetting, ctx |-> 1, use |-> NoUse]
    /\ draft = NoDraft
    /\ phase = "idle"
    /\ damage = {}
    /\ stops = 0

Count(k) == Cardinality({i \in DOMAIN journal : journal[i].k = k})
NextSeq == Len(journal) + 1

\* append: the event, the reduced snapshot and the rows it changes
AppendEvent(e) ==
    /\ NextSeq <= MaxSeq
    /\ LegalEvent(proj.ops, e)
    /\ journal' = Append(journal, e)
    /\ proj' = SnapStep(proj, e)
    /\ conf' = ConfStep(conf, e)
    /\ markers' = MarkerStep(markers, e)

\* an append of the engine
Append1(e) == AppendEvent(e) /\ UNCHANGED <<rows, version, cache, draft, damage, stops>>

Event(k) == [k |-> k, seq |-> NextSeq]

\* an epoch starts, and the queued configuration applies to it
StartEpoch ==
    /\ phase = "idle" /\ proj.ctx # None
    /\ Append1(Event("epoch"))
    /\ phase' = "epoch"
    /\ UNCHANGED rt

\* ConfigurationQueued
QueueConfiguration(m, e) ==
    /\ phase \in {"idle", "epoch"}
    /\ Count("queued") < MaxQueued
    /\ Append1([k |-> "queued", seq |-> NextSeq, setting |-> [model |-> m, effort |-> e]])
    /\ UNCHANGED <<rt, phase>>

ApplyConfiguration ==
    /\ phase = "epoch" /\ conf.queued # {}
    /\ journal[Len(journal)].k = "epoch"
    /\ Append1(Event("applied"))
    /\ rt' = [rt EXCEPT !.setting = CHOOSE s \in conf.queued : TRUE]
    /\ UNCHANGED phase

\* mark_control_requested, when the owner resumes the task
RequestControl ==
    /\ phase = "idle" /\ Count("control") < MaxControls
    /\ Append1(Event("control"))
    /\ UNCHANGED <<rt, phase>>

\* record_usage: every report counts more tokens than the one before
RecordUsage(w) ==
    /\ phase = "epoch" /\ Count("usage") < MaxUsage
    /\ LET e == [k |-> "usage", seq |-> NextSeq, tokens |-> Count("usage") + 1, window |-> w]
       IN  Append1(e) /\ rt' = [rt EXCEPT !.use = UseStep(@, e)]
    /\ UNCHANGED phase

\* record_intent, record_evidence and the transitions of one operation
Operation(o) ==
    /\ phase = "epoch"
    /\ \/ Append1([k |-> "intent", seq |-> NextSeq, op |-> o])
       \/ /\ o \in DOMAIN proj.ops /\ Cardinality(proj.ops[o].rec) < 2
          /\ Append1([k |-> "evidence", seq |-> NextSeq, op |-> o])
       \/ /\ o \in DOMAIN proj.ops
          /\ \E to \in {"started", "succeeded", "uncertain", "reconciled"},
                s \in SUBSET (proj.ops[o].rec \ proj.ops[o].used) :
               /\ Cardinality(s) <= 1 /\ (to = "started" => s = {})
               /\ Append1([k |-> "moved", seq |-> NextSeq, op |-> o,
                           from |-> proj.ops[o].st, to |-> to, used |-> s])
    /\ UNCHANGED <<rt, phase>>

\* EpochFinished at a safe boundary: every operation is resolved
FinishEpoch ==
    /\ phase = "epoch"
    /\ \A o \in DOMAIN proj.ops : proj.ops[o].st \in Resolved
    /\ Append1(Event("finished"))
    /\ phase' = "boundary"
    /\ UNCHANGED rt

\* apply_clause_evidence: the contract is revised between two builds
ReviseContract ==
    /\ phase = "boundary" /\ Count("revised") < MaxRevised
    /\ Append1(Event("revised"))
    /\ UNCHANGED <<rt, phase>>

\* compact_if_needed replaces the provider's context in two events
LoseContext ==
    /\ phase = "idle" /\ proj.ctx # None /\ rt.ctx < MaxContexts
    /\ rows # <<>>
    /\ Append1(Event("lost"))
    /\ UNCHANGED <<rt, phase>>

BindContext ==
    /\ phase = "idle" /\ proj.ctx = None /\ rt.ctx < MaxContexts
    /\ Append1([k |-> "bound", seq |-> NextSeq, ctx |-> rt.ctx + 1])
    /\ rt' = [rt EXCEPT !.ctx = @ + 1]
    /\ UNCHANGED phase

\* build_checkpoint, then current_revision: an append between the two reads is
\* refused by the comparison of the tail, as one after them is by the revision.
BuildCheckpoint ==
    /\ phase = "boundary" /\ Len(rows) < MaxRows
    /\ BuildOk
    /\ draft' = [cp |-> Build, rev |-> proj.rev]
    /\ phase' = "built"
    /\ UNCHANGED <<storeVars, cache, rt, damage, stops>>

\* Mutant: the cache keeps the snapshot that includes the new event.
CacheAfter(cp) ==
    [id |-> cp.id, cp |-> cp, version |-> version,
     snap |-> SnapStep(proj, [k |-> "committed", seq |-> NextSeq, id |-> cp.id]), conf |-> conf]

\* the authority kept for the next commit: as validated, before the event
CacheOf(cp) == [id |-> cp.id, cp |-> cp, version |-> version, snap |-> proj, conf |-> conf]

\* commit_checkpoint
CommitCheckpoint ==
    /\ phase = "built"
    /\ proj.rev = draft.rev
    /\ Accepts(draft.cp)
    /\ AppendEvent([k |-> "committed", seq |-> NextSeq, id |-> draft.cp.id])
    /\ rows' = Append(rows, [cp |-> draft.cp, seq |-> NextSeq, intact |-> TRUE, package |-> TRUE])
    /\ cache' = CacheOf(draft.cp)
    /\ rt' = [rt EXCEPT !.prev = draft.cp.id]
    /\ draft' = NoDraft
    /\ phase' = "idle"
    /\ UNCHANGED <<version, damage, stops>>

\* the build or the commit is refused, or an insert fails: nothing is stored
\* and the run ends
CommitFails ==
    /\ phase \in {"boundary", "built"} /\ stops < MaxStops
    /\ stops' = stops + 1
    /\ draft' = NoDraft
    /\ phase' = "down"
    /\ UNCHANGED <<storeVars, cache, rt, damage>>

\* the process stops; the next one opens the store with an empty cache
Stop ==
    /\ phase # "down" /\ stops < MaxStops
    /\ stops' = stops + 1
    /\ draft' = NoDraft
    /\ phase' = "down"
    /\ cache' = NoCache
    /\ UNCHANGED <<storeVars, rt, damage>>

\* rehydrate_runtime: the last usage of the whole journal
RehydratedUse == FoldLeft(UseStep, NoUse, TaskEvents)

\* get_latest_task_checkpoint: the row the snapshot names
RehydratedPrev == proj.latest

\* open validates every row; then rehydrate_runtime.  After a refused commit
\* the same connection goes on, with what it has cached.
Rehydrate ==
    /\ phase = "down"
    /\ cache = NoCache => ProjectionsReplayed /\ MarkersReplayed /\ StoredRowsSound
    /\ rt' = [prev |-> RehydratedPrev, setting |-> conf.active,
              ctx |-> IF proj.ctx # None THEN proj.ctx ELSE rt.ctx,
              use |-> RehydratedUse]
    /\ phase' = IF proj.epoch THEN "epoch" ELSE "idle"
    /\ UNCHANGED <<storeVars, cache, draft, damage, stops>>

\* another connection writes; it may append an event of another task, or a
\* control of this one
OtherWrites ==
    /\ version < MaxWrites /\ phase \in {"idle", "boundary", "built"}
    /\ version' = version + 1
    /\ \/ UNCHANGED <<journal, proj, childVars>>
       \/ /\ NextSeq <= MaxSeq /\ journal' = Append(journal, Event("foreign"))
          /\ UNCHANGED <<proj, childVars>>
       \/ Count("control") < MaxControls /\ AppendEvent(Event("control"))
    /\ UNCHANGED <<rows, cache, rt, draft, phase, damage, stops>>

\* a stored row is changed outside the store's operations, by this connection
\* or by another one
Damage(what, who) ==
    /\ damage = {} /\ rows # <<>> /\ phase \in {"boundary", "built"}
    /\ damage' = {<<what, who>>}
    /\ version' = IF who = "other" THEN version + 1 ELSE version
    /\ IF what = "projection" THEN proj' = [proj EXCEPT !.rev = @ + 1] ELSE UNCHANGED proj
    /\ IF what = "configuration"
       THEN conf' = [conf EXCEPT !.queued = IF @ = {} THEN {FirstSetting} ELSE {}]
       ELSE UNCHANGED conf
    /\ IF what = "marker"
       THEN markers' = IF markers = {} THEN {1} ELSE {}
       ELSE UNCHANGED markers
    /\ CASE what = "checkpoint" -> \E i \in DOMAIN rows : rows' = [rows EXCEPT ![i].intact = FALSE]
         [] what = "package" -> \E i \in DOMAIN rows : rows' = [rows EXCEPT ![i].package = FALSE]
         [] OTHER -> UNCHANGED rows
    /\ UNCHANGED <<journal, cache, rt, draft, phase, stops>>

Next ==
    \/ StartEpoch \/ ApplyConfiguration \/ FinishEpoch \/ ReviseContract \/ RequestControl
    \/ \E m \in Models, e \in Efforts : QueueConfiguration(m, e)
    \/ \E w \in 0..1 : RecordUsage(w)
    \/ \E o \in Ops : Operation(o)
    \/ LoseContext \/ BindContext
    \/ BuildCheckpoint \/ CommitCheckpoint \/ CommitFails \/ Stop \/ Rehydrate
    \/ OtherWrites
    \/ \E what \in Damages, who \in {"own", "other"} : Damage(what, who)

Spec == Init /\ [][Next]_vars
-----------------------------------------------------------------------------
\* The stored state has its shape: rows point at their own commit events and
\* the cache, when there is one, at a committed row.
CheckpointTypeOK ==
    /\ \A i \in DOMAIN journal : journal[i].seq = i
    /\ proj.latest \in 0..Len(rows)
    /\ cache.id \in 0..Len(rows)
    /\ \A i \in DOMAIN rows : rows[i].cp.id = i /\ rows[i].seq \in DOMAIN journal
    /\ phase \in {"idle", "epoch", "boundary", "built", "down"}

Before(n) == {e \in ToSet(journal) : e.seq < n /\ e.k # "foreign"}
LastOf(es) == CHOOSE e \in es : \A f \in es : f.seq <= e.seq
Moves(n, o) == {e \in Before(n) : e.k = "moved" /\ e.op = o}
Usages(n) == {e \in Before(n) : e.k = "usage"}
Windowed(n) == {e \in Usages(n) : e.window # None}

\* A committed checkpoint says what its stretch of the journal says, whichever
\* path validated it: operations with the evidence their transitions consumed,
\* the last usage, the bound context, the contract, and its place in the chain.
RowsTellTheJournal ==
    \A i \in DOMAIN rows :
      LET cp == rows[i].cp
          n == rows[i].seq
      IN  /\ DOMAIN cp.ops = {e.op : e \in {f \in Before(n) : f.k = "intent"}}
          /\ \A o \in DOMAIN cp.ops :
               /\ cp.ops[o].st = LastOf(Moves(n, o)).to
               /\ cp.ops[o].used = UNION {e.used : e \in Moves(n, o)}
          /\ cp.tokens = (IF Usages(n) = {} THEN None ELSE LastOf(Usages(n)).tokens)
          /\ cp.window = (IF Windowed(n) = {} THEN None ELSE LastOf(Windowed(n)).window)
          /\ cp.ctx = LastOf({e \in Before(n) : e.k = "bound"}).ctx
          /\ cp.contract = Cardinality({e \in Before(n) : e.k = "revised"})
          /\ cp.gen = i - 1 /\ cp.prev = i - 1
          /\ cp.end = LastOf(Before(n)).seq

\* the engine's checkpoint and what a faulty builder could offer instead
Offers ==
    {Build, [Build EXCEPT !.tokens = @ + 1], [Build EXCEPT !.gen = @ + 1],
     [Build EXCEPT !.end = @ - 1], [Build EXCEPT !.prev = IF @ = 0 THEN 1 ELSE @ - 1],
     [Build EXCEPT !.ctx = @ + 1], [Build EXCEPT !.contract = @ + 1]}
    \cup {[Build EXCEPT !.model = m, !.effort = e] : m \in Models, e \in Efforts}
    \cup {[Build EXCEPT !.ops[o].used = {}] : o \in DOMAIN Build.ops}

\* Whenever the cached authority is used, it accepts exactly the checkpoints
\* that validating the whole journal would accept.  It says nothing of the
\* control markers, the older checkpoints and the packages, which only the full
\* validation reads (validate_checkpoint_authority_incremental).
IncrementalAgrees ==
    phase = "boundary" /\ AnchorUsable =>
        \A cp \in Offers : AnchoredAccepts(cp) <=> ProjectionsReplayed /\ ExtendsHistory(cp)

\* the damage the cached authority does not look for
Unseen == {"marker", "checkpoint", "package"} \X {"own"}

\* Nothing is committed over a task or configuration row that the journal does
\* not give, nor over any row another connection damaged.  What the cached
\* authority does not read can be committed over only while the connection that
\* damaged it holds that authority: another connection's write, a restart or a
\* damaged latest checkpoint ends it (commit_checkpoint).
DamageStopsCommits ==
    [][Len(rows') > Len(rows) =>
         /\ ProjectionsReplayed
         /\ \/ MarkersReplayed /\ StoredRowsSound
            \/ AnchorUsable /\ damage \subseteq Unseen]_vars

\* At a safe boundary the checkpoint the engine builds is one it can build and
\* one the store accepts, so that the task can go on, exactly when the model
\* and the effort are those of the previous checkpoint or of the creation; and
\* once it was built nothing but another connection's write takes it away.
SafeBoundaryCommits ==
    damage = {} =>
        /\ phase = "boundary" =>
             (BuildOk /\ Accepts(Build)
                <=> conf.active = [model |-> Predecessor.model, effort |-> Predecessor.effort])
        /\ phase = "built" => Accepts(draft.cp) \/ proj.rev # draft.rev
=============================================================================
