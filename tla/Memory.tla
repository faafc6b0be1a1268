------------------------------- MODULE Memory -------------------------------
(***************************************************************************)
(* The curated memory: its rows in the store (storage/repository.rs), the  *)
(* ranking and the limits of a retrieval (memory/mod.rs), the scrub of the *)
(* migration (storage/schema.rs) and the commands of the owner (cli.rs).   *)
(* An operation commits its transaction and, when it may have removed      *)
(* content, then truncates the write-ahead log; it reports a failure, with *)
(* its transaction committed, when a reader of the database prevents that, *)
(* and the process may stop between the two.                               *)
(***************************************************************************)
EXTENDS Integers, FiniteSets, Sequences, SequencesExt, FiniteSetsExt

CONSTANTS
    Partitions,         \* an owner and an agent
    Scopes,             \* "global", "workspace", "session"
    Keys, Kind,         \* the keys, and the kind of each
    Contents,
    Size, Safe, Lexical, Importance,    \* of a content: bytes, filters, match, 0 .. 100
    Frame,              \* bytes an item takes in an answer besides its content
    Settings,           \* MemorySettings an owner may choose, DefaultSettings among them
    DefaultSettings,
    MaxProposals, ProposalTtl,
    Expirations,        \* the expirations a write may ask for, Never among them
    MaxTime, MaxRevision, MaxIds        \* bounds of the instance

VARIABLES
    memories, proposals, settings,  \* the tables
    files,                          \* contents the database and its log still hold
    op,                             \* the operation that has committed, not yet returned
    told,                           \* history: contents whose removal was reported
    clock, ids

vars == <<memories, proposals, settings, files, op, told, clock, ids>>

Never == 1000
Global == "global"
Writes == [part : Partitions, scope : Scopes, key : Keys, content : Contents, exp : Expirations]

In(rows, p) == {m \in rows : m.part = p}
Pending(p) == {q \in proposals : q.write.part = p}
Bytes(rows) == FoldSet(LAMBDA m, n : Size[m.content] + n, 0, rows)
Held(rows, drafts) == {m.content : m \in rows} \cup {q.write.content : q \in drafts}
Slot(m) == <<m.part, m.scope, m.key>>

Idle == [at |-> "idle", gone |-> {}, truncate |-> FALSE]
Down == [at |-> "down", gone |-> {}, truncate |-> FALSE]

\* Type invariant: one row for a slot, and whatever is stored is in the files.
MemoryTypeOK ==
    /\ \A m, n \in memories : Slot(m) = Slot(n) => m = n
    /\ \A m \in memories : m.rev \in 1 .. MaxRevision /\ m.at <= clock
    /\ settings \in [Partitions -> Settings]
    /\ Held(memories, proposals) \subseteq files /\ files \subseteq Contents
    /\ op.at \in {"idle", "committed", "down"} /\ op.gone \subseteq Contents
    /\ \A p \in Partitions : Cardinality(Pending(p)) <= MaxProposals

-----------------------------------------------------------------------------
(* An operation: its transaction, then the log *)

\* The transaction commits with the rows memories' and proposals'.
Commit(truncate) ==
    /\ op = Idle
    /\ op' = [at |-> "committed", truncate |-> truncate,
              gone |-> Held(memories, proposals) \ Held(memories', proposals')]
    /\ files' = files \cup Held(memories', proposals')
    /\ told' = told \ Held(memories', proposals')

\* checkpoint_for_secure_deletion, and the operation returns
Truncate ==
    /\ op.at = "committed" /\ op.truncate
    /\ \/ files' = Held(memories, proposals) /\ told' = told \cup op.gone
       \/ UNCHANGED <<files, told>>     \* busy: the operation reports a failure
    /\ op' = Idle
    /\ UNCHANGED <<memories, proposals, settings, clock, ids>>

\* an operation that has no content to remove returns
Return ==
    /\ op.at = "committed" /\ ~op.truncate
    /\ told' = told \cup op.gone
    /\ op' = Idle
    /\ UNCHANGED <<memories, proposals, settings, files, clock, ids>>

\* the process stops; opening the store truncates the log, or fails
Stop == /\ op # Down /\ op' = Down
        /\ UNCHANGED <<memories, proposals, settings, files, told, clock, ids>>
Open == /\ op = Down /\ op' = Idle
        /\ files' = Held(memories, proposals)
        /\ UNCHANGED <<memories, proposals, settings, told, clock, ids>>

-----------------------------------------------------------------------------
(* Writing *)

\* default_expiration
Expiration(w) ==
    IF w.exp # Never THEN w.exp
    ELSE IF Kind[w.key] = "episode" THEN clock + settings[w.part].ttl ELSE Never

\* remember_memory_in_transaction: `After` the rows the write leaves, if it is accepted
Kept(w) == memories \ {m \in In(memories, w.part) : m.exp <= clock}
Existing(w) == {m \in Kept(w) : Slot(m) = Slot(w)}
Row(w) ==
    [part |-> w.part, scope |-> w.scope, key |-> w.key, content |-> w.content,
     exp |-> Expiration(w), at |-> clock,
     rev |-> IF Existing(w) = {} THEN 1 ELSE 1 + (CHOOSE m \in Existing(w) : TRUE).rev]

Accepted(w) ==
    LET others == In(Kept(w), w.part) \ Existing(w)
        limits == settings[w.part]
    IN /\ limits.enabled
       /\ Expiration(w) > clock
       /\ Bytes(others) + Size[w.content] <= limits.storage
       /\ Existing(w) = {} => Cardinality(In(Kept(w), w.part)) < limits.memories
       /\ \A m \in Existing(w) : m.rev < MaxRevision

After(w) == (Kept(w) \ Existing(w)) \cup {Row(w)}

\* validate_memory_write: the secret filter and the capture filter
ValidWrite(w) == Safe[w.content]

Remember ==
    \E w \in Writes :
        /\ ValidWrite(w) /\ Accepted(w)
        /\ memories' = After(w)
        /\ UNCHANGED <<proposals, settings, clock, ids>>
        /\ Commit(TRUE)

-----------------------------------------------------------------------------
(* Proposals *)

Stale(p) == {q \in Pending(p) : q.exp <= clock}

\* The proposals a new one leaves: the expired ones of its partition are swept.
Proposed(w) ==
    (proposals \ Stale(w.part)) \cup {[id |-> ids + 1, write |-> w, exp |-> clock + ProposalTtl]}

\* Mutant: the log is not truncated after expired proposals were swept.
ProposeUntruncated ==
    \E w \in Writes :
        /\ ids < MaxIds
        /\ ValidWrite(w) /\ settings[w.part].enabled
        /\ Cardinality(Pending(w.part) \ Stale(w.part)) < MaxProposals
        /\ ids' = ids + 1
        /\ proposals' = Proposed(w)
        /\ UNCHANGED <<memories, settings, clock>>
        /\ Commit(FALSE)

Propose ==
    \E w \in Writes :
        /\ ids < MaxIds
        /\ ValidWrite(w) /\ settings[w.part].enabled
        /\ Cardinality(Pending(w.part) \ Stale(w.part)) < MaxProposals
        /\ ids' = ids + 1
        /\ proposals' = Proposed(w)
        /\ UNCHANGED <<memories, settings, clock>>
        /\ Commit(Stale(w.part) # {})

\* an expired proposal is removed and its approval refused
Approve ==
    \E q \in proposals :
        /\ \/ q.exp <= clock /\ UNCHANGED memories
           \/ /\ q.exp > clock /\ ValidWrite(q.write) /\ Accepted(q.write)
              /\ memories' = After(q.write)
        /\ proposals' = proposals \ {q}
        /\ UNCHANGED <<settings, clock, ids>>
        /\ Commit(TRUE)

\* rows and proposals are deleted, if they are still there
Discard(rows, drafts) ==
    /\ memories' = memories \ rows
    /\ proposals' = proposals \ drafts
    /\ UNCHANGED <<settings, clock, ids>>
    /\ Commit(TRUE)

Reject == \E drafts \in SUBSET proposals : Cardinality(drafts) <= 1 /\ Discard({}, drafts)

-----------------------------------------------------------------------------
(* Deleting, settings, time *)

Delete == \E rows \in SUBSET memories : Cardinality(rows) <= 1 /\ Discard(rows, {})

Clear == \E p \in Partitions : Discard(In(memories, p), Pending(p))

PurgeExpired == \E p \in Partitions :
                    Discard({m \in In(memories, p) : m.exp <= clock}, Stale(p))

\* any valid settings; nothing that is stored is removed for them
UpdateSettings ==
    /\ op = Idle
    /\ \E p \in Partitions, s \in Settings : settings' = [settings EXCEPT ![p] = s]
    /\ UNCHANGED <<memories, proposals, files, op, told, clock, ids>>

Tick == /\ clock < MaxTime
        /\ clock' = clock + 1
        /\ UNCHANGED <<memories, proposals, settings, files, op, told, ids>>

-----------------------------------------------------------------------------
(* Retrieving *)

\* the rows of retrieve_memories: a query names a scope besides the global one
Visible(p, s) == {m \in In(memories, p) : m.exp > clock /\ m.scope \in {Global, s}}

ScopeBonus == [global |-> 0, workspace |-> 1000, session |-> 2000]
KindBonus == [profile |-> 500, preference |-> 500, goal |-> 300, fact |-> 100, episode |-> 0]
AlwaysRelevant == {"profile", "preference"}

\* the score of rank_memories (a unit of the clock is a day); the program
\* passes no semantic ranker
Score(m) == Lexical[m.content] + ScopeBonus[m.scope] + KindBonus[Kind[m.key]]
            + 20 * Importance[m.content] + Max({0, 1000 - 20 * (clock - m.at)})
Relevant(m) == Lexical[m.content] # 0 \/ Kind[m.key] \in AlwaysRelevant

\* a later update breaks a tie, then the identity, which the model leaves open
Before(m, n) == \/ Score(m) > Score(n)
                \/ Score(m) = Score(n) /\ m.at > n.at
Ranked(rows) == SetToSortSeq({m \in rows : Relevant(m)}, Before)

Rendered(rows) == Bytes(rows) + Frame * Cardinality(rows)

\* the items that are served: the best ones, an item that does not fit skipped
Selected(ranked, limits) ==
    FoldLeft(LAMBDA acc, m : IF /\ Len(acc) < limits.items
                                /\ Rendered(ToSet(acc) \cup {m}) <= limits.bytes
                             THEN Append(acc, m) ELSE acc,
             <<>>, ranked)

\* retrieve_memories, the answer to a query
Retrieve(p, s) ==
    LET ranked == Ranked(Visible(p, s))
        items == Selected(ranked, settings[p])
    IN IF settings[p].enabled THEN [items |-> items, truncated |-> Len(items) < Len(ranked)]
       ELSE [items |-> <<>>, truncated |-> FALSE]

-----------------------------------------------------------------------------

\* scrub_unsafe_migrated_memories
Scrub(rows) == {m \in rows : Safe[m.content]}

\* a new store, or one whose explicit-memory table was migrated
Init ==
    /\ \E c \in Contents, p \in Partitions, k \in Keys, some \in BOOLEAN :
        memories = Scrub(IF some THEN {[part |-> p, scope |-> Global, key |-> k, content |-> c,
                                        exp |-> Never, at |-> 0, rev |-> 1]}
                         ELSE {})
    /\ proposals = {} /\ settings = [p \in Partitions |-> DefaultSettings]
    /\ files = Held(memories, {}) /\ op = Idle /\ told = {}
    /\ clock = 0 /\ ids = 0

Next == \/ Remember \/ Propose \/ Approve \/ Reject \/ Delete \/ Clear \/ PurgeExpired
        \/ Truncate \/ Return \/ Stop \/ Open
        \/ UpdateSettings \/ Tick

Spec == Init /\ [][Next]_vars

-----------------------------------------------------------------------------
(* Properties *)

\* A content whose removal was reported a success is in no file of the store
\* until it is written again: not behind a record that took its place, not when
\* an expired proposal or record was swept by a write, not after the log could
\* not be truncated for an earlier operation or the process stopped before it
\* was (checkpoint_for_secure_deletion).
SecurelyGone == told \cap files = {}

\* Nothing the filters refuse is in a record or a proposal, the records of an
\* older store included.
OnlySafe == \A c \in Held(memories, proposals) : Safe[c]

\* An operation changes the records and proposals of one partition at most.
PartitionsApart ==
    [][\A p, q \in Partitions :
         /\ In(memories, p) # In(memories', p) \/ Pending(p) # Pending(p)'
         /\ In(memories, q) # In(memories', q) \/ Pending(q) # Pending(q)'
         => p = q]_vars

\* A partition grows only up to its limits of bytes and records, whatever is
\* replaced, expired or approved on the way and however far below the stored
\* rows the owner has set them (remember_memory_in_transaction).
GrowsWithinLimits ==
    [][\A p \in Partitions :
        /\ Bytes(In(memories', p)) > Bytes(In(memories, p))
              => Bytes(In(memories', p)) <= settings[p].storage
        /\ Cardinality(In(memories', p)) > Cardinality(In(memories, p))
              => Cardinality(In(memories', p)) <= settings[p].memories]_vars

\* What a query gets is of its partition and scope, relevant and not expired; it
\* keeps both limits; a record is left out for another that ranks lower only
\* because it did not fit, and the answer then says it is truncated; a disabled
\* memory answers nothing (retrieve_memories, rank_memories).
AnswerBest ==
    \A p \in Partitions, s \in Scopes :
        LET answer == Retrieve(p, s)
            items == ToSet(answer.items)
            limits == settings[p]
            due(m) == /\ m.part = p /\ m.scope \in {Global, s}
                      /\ m.exp > clock /\ Relevant(m)
        IN /\ \A m \in items : due(m) /\ limits.enabled
           /\ Len(answer.items) <= limits.items /\ Rendered(items) <= limits.bytes
           /\ \A m \in memories \ items :
                due(m) /\ limits.enabled =>
                    /\ answer.truncated
                    /\ LET better == {n \in items : Score(n) >= Score(m)}
                       IN \/ Cardinality(better) = limits.items
                          \/ Rendered(better \cup {m}) > limits.bytes
=============================================================================
