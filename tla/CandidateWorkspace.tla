------------------------- MODULE CandidateWorkspace -------------------------
(***************************************************************************)
(* The disposable workspace of a verification (staging/mod.rs,             *)
(* staging/proposal.rs): it is rebuilt from the artifacts, sealed by a     *)
(* double scan, executed in, sealed again, compared, and removed.  A       *)
(* process the execution left behind may change files and move the         *)
(* directory at any moment.  Files are numbered in the order of the scan;  *)
(* a file is its inode, its content and its link count, and a name without *)
(* a file has no links.                                                    *)
(***************************************************************************)
EXTENDS Integers, Sequences

CONSTANTS Files,      \* the expected files
          Extra,      \* a name of the writer's own
          MaxEdits,   \* bound on changes to files
          MaxMoves    \* bound on changes to the directory names

\* Names are positive numbers, and the writer's is none of the expected ones.
WorkspaceConstants == Files \subseteq Nat \ {0} /\ Extra \in Nat \ ({0} \cup Files)

VARIABLES node,       \* name -> [ino, content, links]
          walk,       \* building, ready, scanning, cleaning, done
          scan,       \* the inspection under way
          seals,      \* the snapshots sealed so far
          verdict, atListing,  \* outcome; the files at the instant of the last listing
          loc, foreign,      \* name of the held directory; whether another one took its name
          cleanup,    \* the removal under way
          writes, moves

candidateVars ==
    <<node, walk, scan, seals, verdict, atListing, loc, foreign, cleanup, writes, moves>>
Writer == <<writes, moves>>
Removal == <<loc, foreign, cleanup>>

Names == Files \cup {Extra}
Missing == [ino |-> 0, content |-> 0, links |-> 0]
Present(n) == node[n].links # 0
Nothing == [n \in Names |-> Missing]
Expected == [n \in Names |-> IF n \in Files THEN [ino |-> n, content |-> 0, links |-> 1] ELSE Missing]
NoCleanup == [step |-> "match", name |-> "none", held |-> FALSE, failed |-> FALSE, result |-> "none"]
NotReading == [name |-> 0, file |-> Missing]
StartScan(pass, first) == [pass |-> pass, listed |-> FALSE, todo |-> {}, reading |-> NotReading,
                           got |-> Nothing, first |-> first]
NoScan == StartScan(0, Nothing)

WorkspaceInit ==
    /\ node = Nothing /\ walk = "building" /\ scan = NoScan /\ seals = <<>>
    /\ verdict = "none" /\ atListing = Nothing /\ loc = "work" /\ foreign = FALSE
    /\ cleanup = NoCleanup /\ writes = 0 /\ moves = 0

------------------------------------------------------------------------------
(* Reconstruction: every directory, then every file, created new and synced. *)

CreateFile(n) ==
    /\ walk = "building" /\ ~Present(n)
    /\ \A m \in Files : m < n => Present(m)
    /\ node' = [node EXCEPT ![n] = Expected[n]]
    /\ UNCHANGED <<walk, scan, seals, verdict, atListing, Removal, Writer>>

ReconstructFails ==
    /\ walk = "building" /\ \E n \in Files : ~Present(n)
    /\ walk' = "cleaning"
    /\ UNCHANGED <<node, scan, seals, verdict, atListing, Removal, Writer>>

\* The named path is still the held, private directory.
Reconstructed ==
    /\ walk = "building" /\ \A n \in Files : Present(n)
    /\ walk' = IF loc = "work" THEN "scanning" ELSE "cleaning"
    /\ scan' = StartScan(1, Nothing)
    /\ UNCHANGED <<node, seals, verdict, atListing, Removal, Writer>>

------------------------------------------------------------------------------
(* The double scan.                                                          *)

\* Any refusal of the scan or of the seal: the candidate is reported as changed.
Refuse == verdict' = "changed" /\ walk' = "cleaning" /\ scan' = NoScan /\ UNCHANGED <<seals, atListing>>

ListEntries ==
    /\ walk = "scanning" /\ ~scan.listed
    /\ scan' = [scan EXCEPT !.listed = TRUE, !.todo = {n \in Names : Present(n)}]
    /\ atListing' = node
    /\ UNCHANGED <<node, walk, seals, verdict, Removal, Writer>>

First(s) == CHOOSE n \in s : \A m \in s : n <= m

\* Open without following links, check the link count, read.
ReadFile ==
    /\ walk = "scanning" /\ scan.todo # {} /\ scan.reading = NotReading
    /\ LET n == First(scan.todo) IN
       IF node[n].links # 1 THEN Refuse
       ELSE /\ scan' = [scan EXCEPT !.reading = [name |-> n, file |-> node[n]], !.todo = @ \ {n}]
            /\ UNCHANGED <<walk, seals, verdict, atListing>>
    /\ UNCHANGED <<node, Removal, Writer>>

\* The open file and its name are still the same single-link file.
ConfirmFile ==
    /\ walk = "scanning" /\ scan.reading # NotReading
    /\ LET n == scan.reading.name IN
       IF node[n].links # 1 \/ node[n].ino # scan.reading.file.ino THEN Refuse
       ELSE /\ scan' = [scan EXCEPT !.reading = NotReading, !.got[n] = scan.reading.file]
            /\ UNCHANGED <<walk, seals, verdict, atListing>>
    /\ UNCHANGED <<node, Removal, Writer>>

PassDone == walk = "scanning" /\ scan.listed /\ scan.todo = {} /\ scan.reading = NotReading

SecondPass ==
    /\ PassDone /\ scan.pass = 1
    /\ scan' = StartScan(2, scan.got)
    /\ UNCHANGED <<node, walk, seals, verdict, atListing, Removal, Writer>>

\* Mutant: the two scans are not compared.
StableAlways(first, second) == TRUE
EnsureStable(first, second) == first = second

\* The snapshot is exactly the expected files; identities are part of the seal.
MatchesExpected(got) ==
    \A n \in Names : got[n].links = Expected[n].links /\ got[n].content = Expected[n].content

\* One seal before the execution and two after it, which must all be the same.
SealSnapshot ==
    /\ PassDone /\ scan.pass = 2
    /\ IF EnsureStable(scan.first, scan.got) /\ MatchesExpected(scan.first)
       THEN /\ seals' = Append(seals, scan.first)
            /\ UNCHANGED atListing
            /\ CASE Len(seals) = 0 -> walk' = "ready" /\ scan' = NoScan /\ UNCHANGED verdict
                 [] Len(seals) = 1 -> /\ walk' = "scanning" /\ scan' = StartScan(1, Nothing)
                                      /\ UNCHANGED verdict
                 [] OTHER -> /\ walk' = "cleaning" /\ scan' = NoScan
                             /\ verdict' = IF seals[1] = seals[2] /\ seals[2] = scan.first
                                           THEN "unchanged" ELSE "changed"
       ELSE Refuse
    /\ UNCHANGED <<node, Removal, Writer>>

\* The executable ran in the workspace, whatever it did there; the second inspection starts.
Executed ==
    /\ walk = "ready"
    /\ walk' = "scanning" /\ scan' = StartScan(1, Nothing)
    /\ UNCHANGED <<node, seals, verdict, atListing, Removal, Writer>>

\* The verification is abandoned: the workspace is dropped.
Abandon ==
    /\ walk \in {"ready", "scanning"}
    /\ walk' = "cleaning" /\ scan' = NoScan
    /\ UNCHANGED <<node, seals, verdict, atListing, Removal, Writer>>

------------------------------------------------------------------------------
(* Removal: find the held directory, move it aside, scrub it through the     *)
(* handle, and remove the name.                                              *)

\* The directory under its own name, or the parent's entry with its identity.
HeldName == IF loc \in {"work", "moved"} THEN loc ELSE "none"

MatchName ==
    /\ walk = "cleaning" /\ cleanup.step = "match"
    /\ \/ cleanup' = [cleanup EXCEPT !.step = "isolate", !.name = HeldName]
       \/ cleanup' = [cleanup EXCEPT !.step = "isolate", !.failed = TRUE]
    /\ UNCHANGED <<node, walk, scan, seals, verdict, atListing, loc, foreign, Writer>>

\* Rename, then compare identities; another directory gets its name back.
Quarantine(next) ==
    /\ IF cleanup.name # "none" /\ loc = cleanup.name
       THEN /\ cleanup' = [cleanup EXCEPT !.step = next, !.held = TRUE]
            /\ loc' = "aside"
       ELSE /\ cleanup' = [cleanup EXCEPT !.step = next, !.failed = @ \/ cleanup.name # "none"]
            /\ loc' = loc

Isolate ==
    /\ walk = "cleaning" /\ cleanup.step = "isolate" /\ Quarantine("scrub")
    /\ UNCHANGED <<node, walk, scan, seals, verdict, atListing, foreign, Writer>>

\* The tree is emptied breadth first through the held handle, up to an entry limit.
Scrub ==
    /\ walk = "cleaning" /\ cleanup.step = "scrub"
    /\ \/ node' = Nothing /\ cleanup' = [cleanup EXCEPT !.step = "retry"]
       \/ node' = node /\ cleanup' = [cleanup EXCEPT !.step = "retry", !.failed = TRUE]
    /\ UNCHANGED <<walk, scan, seals, verdict, atListing, loc, foreign, Writer>>

RetryIsolate ==
    /\ walk = "cleaning" /\ cleanup.step = "retry"
    /\ IF cleanup.held THEN cleanup' = [cleanup EXCEPT !.step = "remove"] /\ loc' = loc
       ELSE Quarantine("remove")
    /\ UNCHANGED <<node, walk, scan, seals, verdict, atListing, foreign, Writer>>

Empty == \A n \in Names : ~Present(n)

RemoveDirectory ==
    /\ walk = "cleaning" /\ cleanup.step = "remove"
    /\ IF cleanup.held /\ Empty
       THEN cleanup' = [cleanup EXCEPT !.step = "ended", !.result = "ok"]
            /\ loc' = IF loc = "aside" THEN "gone" ELSE loc
       ELSE cleanup' = [cleanup EXCEPT !.step = "ended", !.result = "error"] /\ loc' = loc
    /\ walk' = "done"
    /\ UNCHANGED <<node, scan, seals, verdict, atListing, foreign, Writer>>

------------------------------------------------------------------------------
(* What the execution started or left behind.  It never writes a content a   *)
(* file had before (no scan could tell) and does not know the name a         *)
(* directory is moved aside to.                                              *)

Fresh == -(writes + 1)   \* an inode no file had before

Editing == seals # <<>> /\ writes < MaxEdits /\ writes' = writes + 1
           /\ UNCHANGED <<walk, scan, seals, verdict, atListing, Removal, moves>>

Rewrite(n) ==
    /\ walk \in {"scanning", "ready", "cleaning"} /\ loc # "gone" /\ Present(n)
    /\ node' = [node EXCEPT ![n].content = writes + 1] /\ Editing

\* The same content under another inode.
Replace(n) ==
    /\ walk \in {"scanning", "ready", "cleaning"} /\ loc # "gone" /\ Present(n)
    /\ node' = [node EXCEPT ![n].ino = Fresh] /\ Editing

LinkFile(n) ==
    /\ walk \in {"scanning", "ready"} /\ Present(n)
    /\ node' = [node EXCEPT ![n].links = 2] /\ Editing

RemoveFile(n) ==
    /\ walk \in {"scanning", "ready"} /\ Present(n)
    /\ node' = [node EXCEPT ![n] = Missing] /\ Editing

CreateNew(n) ==
    /\ walk \in {"scanning", "ready", "cleaning"} /\ loc # "gone" /\ ~Present(n)
    /\ node' = [node EXCEPT ![n] = [ino |-> Fresh, content |-> writes + 1, links |-> 1]] /\ Editing

MoveDirectory(to) ==
    /\ moves < MaxMoves /\ loc \in {"work", "moved"} /\ loc # to /\ (to = "work" => ~foreign)
    /\ loc' = to /\ moves' = moves + 1
    /\ UNCHANGED <<node, walk, scan, seals, verdict, atListing, foreign, cleanup, writes>>

TakeName ==
    /\ moves < MaxMoves /\ loc # "work" /\ ~foreign
    /\ foreign' = TRUE /\ moves' = moves + 1
    /\ UNCHANGED <<node, walk, scan, seals, verdict, atListing, loc, cleanup, writes>>

Edit == \E n \in Names : Rewrite(n) \/ Replace(n) \/ LinkFile(n) \/ RemoveFile(n) \/ CreateNew(n)
Move == TakeName \/ \E to \in {"work", "moved", "outside"} : MoveDirectory(to)

Carl ==
    \/ \E n \in Files : CreateFile(n)
    \/ ReconstructFails \/ Reconstructed \/ ListEntries \/ ReadFile \/ ConfirmFile \/ SecondPass
    \/ SealSnapshot \/ Executed \/ Abandon
    \/ MatchName \/ Isolate \/ Scrub \/ RetryIsolate \/ RemoveDirectory

WorkspaceNext == Carl \/ Edit \/ Move

WorkspaceSpec == WorkspaceInit /\ [][WorkspaceNext]_candidateVars

------------------------------------------------------------------------------
FileEntries == {Missing} \cup [ino : Int, content : Nat, links : 1 .. 2]
Scans == [pass : 0 .. 2, listed : BOOLEAN, todo : SUBSET Names,
          reading : [name : Names \cup {0}, file : FileEntries],
          got : [Names -> FileEntries], first : [Names -> FileEntries]]
Cleanups == [step : {"match", "isolate", "scrub", "retry", "remove", "ended"},
             name : {"none", "work", "moved"}, held : BOOLEAN, failed : BOOLEAN,
             result : {"none", "ok", "error"}]

WorkspaceTypeOK ==
    /\ node \in [Names -> FileEntries] /\ atListing \in [Names -> FileEntries]
    /\ walk \in {"building", "ready", "scanning", "cleaning", "done"}
    /\ scan \in Scans /\ seals \in Seq([Names -> FileEntries]) /\ Len(seals) <= 3
    /\ verdict \in {"none", "unchanged", "changed"}
    /\ loc \in {"work", "moved", "outside", "aside", "gone"} /\ foreign \in BOOLEAN
    /\ cleanup \in Cleanups /\ writes \in Nat /\ moves \in Nat

\* A candidate reported as unchanged held exactly the expected contents, in the files Carl
\* created, and nothing else at the instant the second scan of the last inspection listed it,
\* whatever was written, replaced, added or removed while each scan read file after file.
UnchangedTrue == verdict = "unchanged" => atListing = Expected

\* A removal that reports success removed the held directory itself, also when it was moved or
\* its name was taken by another one while the removal ran.
RemovedHonest == cleanup.result = "ok" => loc = "gone"

\* A candidate called unchanged held the expected files at one instant of its
\* double scan, whatever a writer did meanwhile; a removal called successful
\* removed the held directory and no other (inspect_candidate, cleanup).
CandidateHonest == WorkspaceTypeOK /\ UnchangedTrue /\ RemovedHonest

=============================================================================
