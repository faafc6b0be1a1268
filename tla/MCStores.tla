------------------------------ MODULE MCStores ------------------------------
(***************************************************************************)
(* What Carl keeps and what it believes of it, side by side: the artifact    *)
(* store, the candidate workspace of a verification, the records of a        *)
(* subscription run, the memory, the committed checkpoints and the context   *)
(* package built from them.  They share no state, so a behaviour takes steps *)
(* of one of them only (part) and the run explores their union.              *)
(***************************************************************************)
EXTENDS ArtifactStore, CandidateWorkspace, SubscriptionRun, ContextAssembly

VARIABLES
  part,
  memories, proposals, settings, files, op, told, clock, ids,                       \* Memory
  journal, proj, conf, markers, rows, version, cache, rt, draft, standing,     \* CheckpointAuthority
  damage, stops

\* ArtifactStore with two contents, a quota of one object and two files:
\* publications that repeat, find the store full or are cut off by two crashes.
ASSUME StoreConstants

\* CandidateWorkspace with two files and a writer who changes two things and
\* moves the directory once.
ASSUME WorkspaceConstants

\* ContextAssembly with targets of 0, 5 and 9 tokens against sources of 1 and 3
\* and headings of 2.
ASSUME BudgetConstants

\* SubscriptionRun whose stage and store are changed under two callers, with a restart.
ASSUME RunConstants

\* A run whose objects a task checkpoint names as well.
Pinned == INSTANCE SubscriptionRun WITH
  Contents <- {"a"}, MaxChanges <- 0, MaxDamage <- 0, MaxPinned <- 1, TwoCallers <- FALSE, Labels <- {"state"}

\* Memory: a text that matches the query and counts two bytes, an important one
\* that does not match, and one the filters refuse.
Texts == {"short", "long", "secret"}
KindOf == [k1 |-> "fact", e1 |-> "episode", n1 |-> "profile"]
SizeOf == [short |-> 1, long |-> 2, secret |-> 1]
SafeText == [short |-> TRUE, long |-> TRUE, secret |-> FALSE]
LexicalOf == [short |-> 0, long |-> 30, secret |-> 0]
ImportanceOf == [short |-> 50, long |-> 0, secret |-> 0]
Roomy == [enabled |-> TRUE, items |-> 2, bytes |-> 5, memories |-> 3, storage |-> 4, ttl |-> 1]
Tight == [enabled |-> TRUE, items |-> 1, bytes |-> 4, memories |-> 1, storage |-> 2, ttl |-> 1]
Off == [Roomy EXCEPT !.enabled = FALSE]

\* Records of two scopes and two kinds, with every setting: more than an answer holds.
Answers == INSTANCE Memory WITH
  Partitions <- {"p1"}, Scopes <- {"global", "workspace"}, Keys <- {"k1", "n1"}, Kind <- KindOf,
  Contents <- Texts, Size <- SizeOf, Safe <- SafeText, Lexical <- LexicalOf,
  Importance <- ImportanceOf, Frame <- 1,
  Settings <- {Roomy, Tight, Off}, DefaultSettings <- Roomy, MaxProposals <- 1, ProposalTtl <- 1,
  Expirations <- {1, 1000}, MaxTime <- 1, MaxRevision <- 1, MaxIds <- 0

\* Records that are replaced and two proposals that are approved, refused or expire.
Turnover == INSTANCE Memory WITH
  Partitions <- {"p1"}, Scopes <- {"global"}, Keys <- {"e1", "n1"}, Kind <- KindOf,
  Contents <- Texts, Size <- SizeOf, Safe <- SafeText, Lexical <- LexicalOf,
  Importance <- ImportanceOf, Frame <- 1,
  Settings <- {Roomy, Tight}, DefaultSettings <- Roomy, MaxProposals <- 2, ProposalTtl <- 1,
  Expirations <- {1000}, MaxTime <- 1, MaxRevision <- 2, MaxIds <- 2

\* Two partitions with a proposal.
Shared == INSTANCE Memory WITH
  Partitions <- {"p1", "p2"}, Scopes <- {"global"}, Keys <- {"e1"}, Kind <- KindOf,
  Contents <- Texts, Size <- SizeOf, Safe <- SafeText, Lexical <- LexicalOf,
  Importance <- ImportanceOf, Frame <- 1,
  Settings <- {Roomy, Tight}, DefaultSettings <- Roomy, MaxProposals <- 1, ProposalTtl <- 1,
  Expirations <- {1000}, MaxTime <- 1, MaxRevision <- 1, MaxIds <- 1

Created == [model |-> "m1", effort |-> "low"]

\* A task with an operation and a usage report, and two checkpoints.
Operations == INSTANCE CheckpointAuthority WITH
  Ops <- {"o1"}, Models <- {"m1"}, Efforts <- {"low"}, FirstSetting <- Created, MaxSeq <- 13,
  MaxRows <- 2, MaxWrites <- 1, MaxStops <- 1, MaxUsage <- 1, MaxQueued <- 0, MaxContexts <- 1,
  MaxControls <- 0, MaxRevised <- 0, Damages <- {}, phase <- standing

\* A task that changes its model or its effort, and its context.
Configured == INSTANCE CheckpointAuthority WITH
  Ops <- {}, Models <- {"m1", "m2"}, Efforts <- {"low", "high"}, FirstSetting <- Created,
  MaxSeq <- 12, MaxRows <- 2, MaxWrites <- 1, MaxStops <- 1, MaxUsage <- 0, MaxQueued <- 1,
  MaxContexts <- 2, MaxControls <- 0, MaxRevised <- 0, Damages <- {}, phase <- standing

\* A task that is controlled and revised, whose rows are damaged, and three checkpoints.
Damaged == INSTANCE CheckpointAuthority WITH
  Ops <- {}, Models <- {"m1"}, Efforts <- {"low"}, FirstSetting <- Created, MaxSeq <- 11,
  MaxRows <- 3, MaxWrites <- 1, MaxStops <- 1, MaxUsage <- 0, MaxQueued <- 0, MaxContexts <- 1,
  MaxControls <- 1, MaxRevised <- 1,
  Damages <- {"projection", "configuration", "marker", "checkpoint", "package"},
  phase <- standing

memoryVars == <<memories, proposals, settings, files, op, told, clock, ids>>
checkpointVars == <<journal, proj, conf, markers, rows, version, cache, rt, draft, standing,
                    damage, stops>>

StoresInit ==
  /\ part \in {"store", "candidate", "runs", "pinned", "answers", "turnover", "shared",
               "operations", "configured", "damaged", "context"}
  /\ Init /\ WorkspaceInit /\ RunInit /\ Operations!Init
  /\ CASE part = "shared" -> Shared!Init
       [] part = "turnover" -> Turnover!Init
       [] OTHER -> Answers!Init
  /\ part \notin {"answers", "turnover", "shared"} => memories = {}
  /\ AssemblyInit
  /\ part # "context" =>
       window = 15 /\ fixed = 1 /\ objective = 1 /\ recent = <<>> /\ retrieved = <<>>

StoresNext ==
  \/ /\ part = "store" /\ Next
     /\ UNCHANGED <<part, candidateVars, runVars, memoryVars, checkpointVars, contextVars>>
  \/ /\ part = "candidate" /\ WorkspaceNext
     /\ UNCHANGED <<part, vars, runVars, memoryVars, checkpointVars, contextVars>>
  \/ /\ \/ part = "runs" /\ RunNext
        \/ part = "pinned" /\ Pinned!RunNext
     /\ UNCHANGED <<part, vars, candidateVars, memoryVars, checkpointVars, contextVars>>
  \/ /\ \/ part = "answers" /\ Answers!Next
        \/ part = "turnover" /\ Turnover!Next
        \/ part = "shared" /\ Shared!Next
     /\ UNCHANGED <<part, vars, candidateVars, runVars, checkpointVars, contextVars>>
  \/ /\ \/ part = "operations" /\ Operations!Next
        \/ part = "configured" /\ Configured!Next
        \/ part = "damaged" /\ Damaged!Next
     /\ UNCHANGED <<part, vars, candidateVars, runVars, memoryVars, contextVars>>
  \/ /\ part = "context" /\ AssemblyNext
     /\ UNCHANGED <<part, vars, candidateVars, runVars, memoryVars, checkpointVars>>

StoresSpec ==
  StoresInit /\ [][StoresNext]_<<part, vars, candidateVars, runVars, memoryVars, checkpointVars,
                                 contextVars>>

-----------------------------------------------------------------------------
\* What was reported removed is in no file of the store, also after a replaced
\* record, a swept proposal, a log that could not be truncated or a restart;
\* nothing unsafe is kept; partitions change apart and grow only up to the limits
\* in force; and a query gets the best of what it may see within them
\* (checkpoint_for_secure_deletion, remember_memory_in_transaction,
\* approve_memory_proposal, retrieve_memories, rank_memories).
MemoryKept ==
  /\ [](/\ Answers!SecurelyGone
        /\ Answers!OnlySafe
        /\ part = "answers" => Answers!MemoryTypeOK /\ Answers!AnswerBest
        /\ part = "turnover" => Turnover!MemoryTypeOK /\ Turnover!AnswerBest
        /\ part = "shared" => Shared!MemoryTypeOK)
  /\ Shared!PartitionsApart
  /\ Answers!GrowsWithinLimits

\* A committed checkpoint says what the journal says, on whichever path it was
\* validated; the cached authority accepts what the full validation accepts of
\* the rows both read, and is silent only about the control markers, the older
\* checkpoints and the packages; no other damage is committed over; and at a
\* safe boundary a task can commit exactly when its model and its effort are
\* those of its previous checkpoint (commit_checkpoint,
\* validate_checkpoint_authority_incremental).
CheckpointsTrue ==
  /\ [](/\ Operations!CheckpointTypeOK
        /\ Operations!RowsTellTheJournal
        /\ Configured!IncrementalAgrees
        /\ Configured!SafeBoundaryCommits)
  /\ Damaged!DamageStopsCommits
=============================================================================
