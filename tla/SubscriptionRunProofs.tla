----------------------- MODULE SubscriptionRunProofs -----------------------
(***************************************************************************)
(* A delegated run, for any runs, paths and contents and any number of      *)
(* processes, edits and damaged objects.                                    *)
(*                                                                          *)
(* That a promoted run was verified rests on steps far apart: the request   *)
(* was committed with the transition into Verifying, the attested           *)
(* executable is noticed as replaced only after it ran, and the records are *)
(* loaded again through a log that has grown meanwhile.  The invariant says *)
(* which records a state may not have yet (NotYetRequested), what the       *)
(* verification under way has established (VerifierHonest), that what a     *)
(* record names is registered even when a checkpoint names it too (Named),  *)
(* and which process created a run (Births).                                *)
(***************************************************************************)
EXTENDS SubscriptionRun, FiniteSetTheorems, SequenceTheorems, WellFoundedInduction, TLAPS

-----------------------------------------------------------------------------
(* The inductive invariant                                                   *)

\* The values that the state takes.
RunRecords == [state : RunState \cup {"absent"}, rev : Nat, failure : BOOLEAN, observed : BOOLEAN]
Trusts     == Labels \cup {"state", "verification"}
Moved      == [kind : {"moved"}, from : RunState, to : RunState, trust : Trusts]
LogEntries == {[kind |-> "prepared"], [kind |-> "observed"]} \cup Moved
Proposals  == [path : Paths, after : Contents]
Requests   == [seq : Nat, candidate : Trees]
Results    == [seq : Nat, outcome : Outcomes \cup {NoRecord}, observed : Trees \cup {NoRecord},
               exe : Executables]
StagedRuns == [sealed : BOOLEAN, todo : SUBSET Paths, base : Trees, tree : Trees]
Offers     == [base : Trees, path : Paths, after : Contents]
Verifiers  == [run : Runs, rev : Nat, step : {"begun", "ready", "ran", "observed"}, tree : Trees,
               ended : Outcomes \cup {NoRecord}, exe : Executables,
               observed : Trees \cup {NoRecord}]
Roots      == {"serving", "down", "retained", "reconciled"}

\* The durable records.
RecordTypes ==
  /\ run \in [Runs -> RunRecords] /\ log \in [Runs -> Seq(LogEntries)]
  /\ baseline \in [Runs -> Trees \cup {NoRecord}]
  /\ inspection \in [Runs -> {NoRecord, "no_changes", "exact"}]
  /\ proposal \in [Runs -> Proposals \cup {NoRecord}]
  /\ request \in [Runs -> Requests \cup {NoRecord}]
  /\ result \in [Runs -> Results \cup {NoRecord}]

\* What a process holds.
MemoryTypes ==
  /\ stage \in [Runs -> StagedRuns \cup {NoRecord}] /\ offer \in [Runs -> Offers \cup {NoRecord}]
  /\ seen \in [Runs -> RunRecords] /\ verifier \in Verifiers \cup {NoRecord}

\* Processes and the store.
RootTypes ==
  /\ damaged \subseteq objects /\ exe \in Executables /\ root \in Roots
  /\ epoch \in Nat /\ 1 <= epoch /\ epoch <= MaxEpoch /\ (root = "down" => epoch < MaxEpoch)
  /\ born \in [Runs -> Nat] /\ edits \in Nat /\ edits <= MaxChanges

\* Everything that a record names is in s.
NamedIn(s) ==
  \A r \in Runs :
    /\ baseline[r] # NoRecord => BaselineIds(baseline[r]) \subseteq s
    /\ proposal[r] # NoRecord => ProposalIds(baseline[r], proposal[r]) \subseteq s

\* What records name is in the store and registered, what a checkpoint names is
\* in the store, and a proposal has a baseline.
Named ==
  /\ NamedIn(objects) /\ NamedIn(registered) /\ pinned \subseteq objects
  /\ \A r \in Runs : proposal[r] # NoRecord => baseline[r] # NoRecord

\* The event log replays to the record, and a run that is not there has none.
Logged(r) == IF run[r].state = "absent" THEN run[r] = Absent ELSE run[r].rev # 0 /\ Replays(r)

\* No verification was requested of a run before it is Verifying.
Early == {"absent", "prepared", "awaiting_delegate_approval", "running", "inspecting"}
NotYetRequested == \A r \in Runs : run[r].state \in Early => request[r] = NoRecord

\* The verification under way belongs to the request it committed, and has run
\* the attested executable if it is still there; one that was found to have passed
\* was not run from another, unless that was put back.
VerifierHonest ==
  verifier # NoRecord =>
    /\ request[verifier.run] # NoRecord /\ request[verifier.run].seq = verifier.rev
    /\ exe = "attested" => verifier.exe = "attested"
    /\ verifier.step = "observed" /\ verifier.ended = "passed" => verifier.exe # "replaced"

\* A run was created by this process or an earlier one.
Births == \A r \in Runs : born[r] <= epoch /\ (born[r] = 0 <=> run[r].state = "absent")

\* The inductive invariant.
RunInv ==
  /\ RecordTypes /\ MemoryTypes /\ RootTypes
  /\ Named /\ (\A r \in Runs : Logged(r))
  /\ NotYetRequested /\ VerifierHonest /\ RecordsLoad /\ PromotionVerified
  /\ Births /\ RestartSettles

-----------------------------------------------------------------------------
(* The state that a log leads to                                             *)

\* A set of numbers has a least element.
LEMMA LeastMember ==
  ASSUME NEW s, s \subseteq Nat, s # {}
  PROVE  \E n \in s : \A m \in s : n <= m
<1> DEFINE R == {p \in Nat \X Nat : p[1] < p[2]}
<1>1. IsWellFoundedOn(R, Nat)
  BY NatLessThanWellFounded, Zenon DEF OpToRel
<1>2. PICK n \in s : \A m \in s : <<m, n>> \notin R
  <2> HIDE DEF R
  <2>1. QED
    BY <1>1, WFMin, Zenon
<1>3. ASSUME NEW m \in s PROVE n <= m
  <2>1. m \in Nat /\ n \in Nat
    OBVIOUS
  <2>2. ASSUME m < n PROVE <<m, n>> \in R
    BY <2>1, <2>2
  <2>3. QED
    BY <1>2, <2>1, <2>2
<1>4. QED
  BY <1>3

\* A bounded set of numbers has a greatest element.
LEMMA GreatestMember ==
  ASSUME NEW n \in Nat, NEW s, s \subseteq 1 .. n, s # {}
  PROVE  \E i \in s : \A j \in s : j <= i
<1> DEFINE Above == {m \in Nat : \A j \in s : j <= m}
<1>1. n \in Above /\ Above \subseteq Nat
  OBVIOUS
<1>2. PICK m \in Above : \A k \in Above : m <= k
  <2> HIDE DEF Above
  <2>1. QED
    BY <1>1, LeastMember
<1>3. m \in Nat /\ \A j \in s : j \in Nat /\ 1 <= j /\ j <= m
  OBVIOUS
<1>4. m \in s
  <2>1. SUFFICES ASSUME m \notin s PROVE FALSE
    OBVIOUS
  <2>2. \A j \in s : j <= m - 1
    BY <1>3, <2>1
  <2>3. m - 1 \in Nat
    <3>1. PICK j \in s : TRUE
      OBVIOUS
    <3>2. QED
      BY <1>3, <3>1
  <2>4. m - 1 \in Above
    BY <2>2, <2>3
  <2>5. QED
    BY <1>2, <1>3, <2>4
<1>5. QED
  BY <1>3, <1>4

\* What an entry at the end of a log leaves of it.
LEMMA AppendedLog ==
  ASSUME NEW l \in Seq(LogEntries), NEW e \in LogEntries
  PROVE  /\ Append(l, e) \in Seq(LogEntries) /\ Len(l) \in Nat
         /\ Len(Append(l, e)) = Len(l) + 1
         /\ DOMAIN l = 1 .. Len(l) /\ DOMAIN Append(l, e) = 1 .. Len(l) + 1
         /\ Append(l, e)[Len(l) + 1] = e
         /\ \A i \in 1 .. Len(l) : Append(l, e)[i] = l[i]
  OBVIOUS

\* The log before an entry does not depend on what follows it.
LEMMA EarlierLog ==
  ASSUME NEW l \in Seq(LogEntries), NEW e \in LogEntries, NEW i \in 0 .. Len(l)
  PROVE  /\ SubSeq(Append(l, e), 1, i) = SubSeq(l, 1, i)
         /\ SubSeq(l, 1, Len(l)) = l
<1>1. Len(l) \in Nat /\ Append(l, e) \in Seq(LogEntries) /\ Len(Append(l, e)) = Len(l) + 1
  OBVIOUS
<1>2. \A j \in 1 .. i : Append(l, e)[j] = l[j]
  BY <1>1
<1>3. SubSeq(Append(l, e), 1, i) = SubSeq(l, 1, i)
  BY <1>1, <1>2, SubSeqProperties
<1>4. SubSeq(l, 1, Len(l)) = l
  BY <1>1, SubSeqProperties
<1>5. QED
  BY <1>3, <1>4

\* A move decides the state.
LEMMA StateMoved ==
  ASSUME NEW l \in Seq(LogEntries), NEW e \in Moved
  PROVE  StateOf(Append(l, e)) = e.to
<1> DEFINE m == Append(l, e)
           moves == {i \in DOMAIN m : m[i].kind = "moved"}
<1>1. e \in LogEntries /\ e.kind = "moved"
  BY DEF LogEntries, Moved
<1>2. Len(l) \in Nat /\ DOMAIN m = 1 .. Len(l) + 1 /\ m[Len(l) + 1] = e
  BY <1>1, AppendedLog
<1>3. Len(l) + 1 \in moves /\ \A j \in moves : j \in Nat /\ j <= Len(l) + 1
  BY <1>1, <1>2
<1>4. (CHOOSE i \in moves : \A j \in moves : j <= i) = Len(l) + 1
  <2> HIDE DEF moves
  <2> DEFINE c == CHOOSE i \in moves : \A j \in moves : j <= i
  <2>1. \E i \in moves : \A j \in moves : j <= i
    BY <1>3
  <2>2. c \in moves /\ \A j \in moves : j <= c
    BY <2>1
  <2>3. QED
    BY <1>2, <1>3, <2>2
<1>5. QED
  BY <1>2, <1>3, <1>4 DEF StateOf

\* Any other entry leaves it alone.
LEMMA StateObserved ==
  ASSUME NEW l \in Seq(LogEntries), NEW e \in LogEntries, e.kind # "moved"
  PROVE  StateOf(Append(l, e)) = StateOf(l)
<1> DEFINE m == Append(l, e)
           moves == {i \in DOMAIN l : l[i].kind = "moved"}
           c == CHOOSE i \in moves : \A j \in moves : j <= i
<1>1. /\ Len(l) \in Nat /\ DOMAIN l = 1 .. Len(l) /\ DOMAIN m = 1 .. Len(l) + 1
      /\ m[Len(l) + 1] = e /\ \A i \in 1 .. Len(l) : m[i] = l[i]
  BY AppendedLog
<1>2. {i \in DOMAIN m : m[i].kind = "moved"} = moves
  BY <1>1
<1>3. CASE moves = {}
  BY <1>2, <1>3 DEF StateOf
<1>4. CASE moves # {}
  <2>1. moves \subseteq 1 .. Len(l)
    BY <1>1
  <2>2. c \in moves
    <3> HIDE DEF moves
    <3>1. \E i \in moves : \A j \in moves : j <= i
      BY <1>1, <1>4, <2>1, GreatestMember
    <3>2. QED
      BY <3>1
  <2>3. m[c] = l[c]
    BY <1>1, <2>1, <2>2
  <2>4. StateOf(l) = l[c].to
    BY <1>4, Zenon DEF StateOf
  <2>5. StateOf(m) = m[c].to
    BY <1>2, <1>4, Zenon DEF StateOf
  <2>6. QED
    BY <2>3, <2>4, <2>5
<1>5. QED
  BY <1>3, <1>4

\* A log of one entry, the creation.
LEMMA StatePrepared == StateOf(<<[kind |-> "prepared"]>>) = "prepared"
<1> DEFINE l == <<[kind |-> "prepared"]>>
<1>1. DOMAIN l = {1} /\ l[1].kind = "prepared"
  OBVIOUS
<1>2. {i \in DOMAIN l : l[i].kind = "moved"} = {}
  BY <1>1
<1>3. QED
  BY <1>2 DEF StateOf

-----------------------------------------------------------------------------
(* Replay                                                                    *)

\* A log with one more entry still replays up to that entry.
LEMMA ReplayPrefix ==
  ASSUME NEW l \in Seq(LogEntries), NEW e \in LogEntries, NEW n \in RunRecords,
         ReplaysTo(l, n), n.rev # 0
  PROVE  LET m == Append(l, e) IN
         /\ m[1].kind = "prepared" /\ Len(m) = n.rev + 1 /\ Len(l) = n.rev
         /\ SubSeq(m, 1, Len(l)) = l
         /\ \A i \in 2 .. Len(l) :
              \/ m[i].kind = "moved" /\ m[i].from = StateOf(SubSeq(m, 1, i - 1))
              \/ /\ m[i].kind = "observed" /\ StateOf(SubSeq(m, 1, i - 1)) = "running"
                 /\ \A j \in 1 .. (i - 1) : m[j].kind # "observed"
<1> DEFINE m == Append(l, e)
<1>1. /\ Len(l) \in Nat /\ Len(m) = Len(l) + 1 /\ \A i \in 1 .. Len(l) : m[i] = l[i]
  BY AppendedLog
<1>2. Len(l) = n.rev /\ 1 <= Len(l) /\ l[1].kind = "prepared"
  BY <1>1 DEF ReplaysTo, RunRecords
<1>3. m[1].kind = "prepared" /\ Len(m) = n.rev + 1
  BY <1>1, <1>2
<1>4. Len(l) \in 0 .. Len(l)
  BY <1>1
<1>5. SubSeq(m, 1, Len(l)) = l
  BY <1>4, EarlierLog
<1>6. ASSUME NEW i \in 2 .. Len(l)
      PROVE  \/ m[i].kind = "moved" /\ m[i].from = StateOf(SubSeq(m, 1, i - 1))
             \/ /\ m[i].kind = "observed" /\ StateOf(SubSeq(m, 1, i - 1)) = "running"
                /\ \A j \in 1 .. (i - 1) : m[j].kind # "observed"
  <2>1. i \in 1 .. Len(l) /\ i - 1 \in 0 .. Len(l) /\ 1 .. (i - 1) \subseteq 1 .. Len(l)
    BY <1>1
  <2>2. SubSeq(m, 1, i - 1) = SubSeq(l, 1, i - 1)
    BY <2>1, EarlierLog
  <2>3. m[i] = l[i] /\ \A j \in 1 .. (i - 1) : m[j] = l[j]
    BY <1>1, <2>1
  <2>4. \/ l[i].kind = "moved" /\ l[i].from = StateOf(SubSeq(l, 1, i - 1))
        \/ /\ l[i].kind = "observed" /\ StateOf(SubSeq(l, 1, i - 1)) = "running"
           /\ \A j \in 1 .. (i - 1) : l[j].kind # "observed"
    BY Zenon DEF ReplaysTo
  <2>5. QED
    BY <2>2, <2>3, <2>4, Zenon
<1>7. QED
  BY <1>2, <1>3, <1>5, <1>6, Zenon

\* A transition appends the event that leads to the record it stores.
LEMMA ReplayMoved ==
  ASSUME NEW l \in Seq(LogEntries), NEW n \in RunRecords, NEW e \in Moved, NEW k \in RunRecords,
         ReplaysTo(l, n), n.rev # 0, e.from = n.state, k.state = e.to, k.rev = n.rev + 1,
         k.failure <=> e.to = "failed", k.observed = n.observed
  PROVE  ReplaysTo(Append(l, e), k)
<1> DEFINE m == Append(l, e)
<1>1. e \in LogEntries /\ e.kind = "moved"
  BY DEF LogEntries, Moved
<1>2. /\ m[1].kind = "prepared" /\ Len(m) = n.rev + 1 /\ Len(l) = n.rev
      /\ SubSeq(m, 1, Len(l)) = l
      /\ \A i \in 2 .. Len(l) :
           \/ m[i].kind = "moved" /\ m[i].from = StateOf(SubSeq(m, 1, i - 1))
           \/ /\ m[i].kind = "observed" /\ StateOf(SubSeq(m, 1, i - 1)) = "running"
              /\ \A j \in 1 .. (i - 1) : m[j].kind # "observed"
  BY <1>1, ReplayPrefix, Zenon
<1>3. /\ Len(l) \in Nat /\ DOMAIN l = 1 .. Len(l) /\ DOMAIN m = 1 .. Len(l) + 1
      /\ Len(m) = Len(l) + 1 /\ m[Len(l) + 1] = e /\ \A i \in 1 .. Len(l) : m[i] = l[i]
  BY <1>1, AppendedLog
<1>4. StateOf(m) = e.to
  BY StateMoved
<1>5. StateOf(l) = n.state /\ (n.observed <=> \E i \in DOMAIN l : l[i].kind = "observed")
  BY Zenon DEF ReplaysTo
<1>6. ASSUME NEW i \in 2 .. Len(m)
      PROVE  \/ m[i].kind = "moved" /\ m[i].from = StateOf(SubSeq(m, 1, i - 1))
             \/ /\ m[i].kind = "observed" /\ StateOf(SubSeq(m, 1, i - 1)) = "running"
                /\ \A j \in 1 .. (i - 1) : m[j].kind # "observed"
  <2>1. CASE i = Len(l) + 1
    <3>1. i - 1 = Len(l) /\ m[i] = e
      BY <1>3, <2>1
    <3>2. QED
      BY <3>1, <1>1, <1>2, <1>5, Zenon
  <2>2. CASE i # Len(l) + 1
    <3>1. i \in 2 .. Len(l)
      BY <1>3, <2>2
    <3>2. QED
      BY <3>1, <1>2, Zenon
  <2>3. QED
    BY <2>1, <2>2
<1>7. k.observed <=> \E i \in DOMAIN m : m[i].kind = "observed"
  <2>1. e.kind # "observed"
    BY <1>1
  <2>2. (\E i \in DOMAIN m : m[i].kind = "observed") <=> \E i \in DOMAIN l : l[i].kind = "observed"
    BY <1>3, <2>1
  <2>3. QED
    BY <1>5, <2>2, Zenon
<1>8. QED
  BY <1>2, <1>4, <1>6, <1>7, Zenon DEF ReplaysTo

\* The observed configuration is appended once, while the run is running.
LEMMA ReplayObserved ==
  ASSUME NEW l \in Seq(LogEntries), NEW n \in RunRecords, NEW k \in RunRecords,
         ReplaysTo(l, n), n.rev # 0, n.state = "running", ~n.observed,
         k.state = n.state, k.rev = n.rev + 1, k.failure = n.failure, k.observed
  PROVE  ReplaysTo(Append(l, [kind |-> "observed"]), k)
<1> DEFINE e == [kind |-> "observed"]
           m == Append(l, e)
<1>1. e \in LogEntries /\ e.kind = "observed" /\ e.kind # "moved"
  BY DEF LogEntries
<1> HIDE DEF e
<1>2. /\ m[1].kind = "prepared" /\ Len(m) = n.rev + 1 /\ Len(l) = n.rev
      /\ SubSeq(m, 1, Len(l)) = l
      /\ \A i \in 2 .. Len(l) :
           \/ m[i].kind = "moved" /\ m[i].from = StateOf(SubSeq(m, 1, i - 1))
           \/ /\ m[i].kind = "observed" /\ StateOf(SubSeq(m, 1, i - 1)) = "running"
              /\ \A j \in 1 .. (i - 1) : m[j].kind # "observed"
  BY <1>1, ReplayPrefix, Zenon
<1>3. /\ Len(l) \in Nat /\ DOMAIN l = 1 .. Len(l) /\ DOMAIN m = 1 .. Len(l) + 1
      /\ Len(m) = Len(l) + 1 /\ m[Len(l) + 1] = e /\ \A i \in 1 .. Len(l) : m[i] = l[i]
  BY <1>1, AppendedLog
<1>4. StateOf(m) = StateOf(l)
  BY <1>1, StateObserved
<1>5. /\ StateOf(l) = n.state /\ (n.observed <=> \E i \in DOMAIN l : l[i].kind = "observed")
      /\ (n.failure <=> StateOf(l) = "failed")
  BY Zenon DEF ReplaysTo
<1>6. ASSUME NEW i \in 2 .. Len(m)
      PROVE  \/ m[i].kind = "moved" /\ m[i].from = StateOf(SubSeq(m, 1, i - 1))
             \/ /\ m[i].kind = "observed" /\ StateOf(SubSeq(m, 1, i - 1)) = "running"
                /\ \A j \in 1 .. (i - 1) : m[j].kind # "observed"
  <2>1. CASE i = Len(l) + 1
    <3>1. i - 1 = Len(l) /\ m[i] = e
      BY <1>3, <2>1
    <3>2. \A j \in 1 .. (i - 1) : m[j].kind # "observed"
      BY <3>1, <1>3, <1>5
    <3>3. QED
      BY <3>1, <3>2, <1>1, <1>2, <1>5, Zenon
  <2>2. CASE i # Len(l) + 1
    <3>1. i \in 2 .. Len(l)
      BY <1>3, <2>2
    <3>2. QED
      BY <3>1, <1>2, Zenon
  <2>3. QED
    BY <2>1, <2>2
<1>7. \E i \in DOMAIN m : m[i].kind = "observed"
  BY <1>1, <1>3
<1>8. ReplaysTo(m, k)
  BY <1>2, <1>4, <1>5, <1>6, <1>7, Zenon DEF ReplaysTo
<1>9. QED
  BY <1>8 DEF e

\* The creation is the first entry.
LEMMA ReplayCreated ==
  ReplaysTo(<<[kind |-> "prepared"]>>, [Absent EXCEPT !.state = "prepared", !.rev = 1])
<1> DEFINE l == <<[kind |-> "prepared"]>>
           n == [Absent EXCEPT !.state = "prepared", !.rev = 1]
<1>1. n.state = "prepared" /\ n.rev = 1 /\ n.failure = FALSE /\ n.observed = FALSE
  BY DEF Absent
<1>2. Len(l) = 1 /\ DOMAIN l = {1} /\ l[1].kind = "prepared" /\ 2 .. Len(l) = {}
  OBVIOUS
<1>3. StateOf(l) = "prepared"
  BY StatePrepared
<1> HIDE DEF l, n
<1>4. ~(n.failure) /\ ~(n.observed) /\ StateOf(l) # "failed"
  BY <1>1, <1>3
<1>5. ~ \E i \in DOMAIN l : l[i].kind = "observed"
  BY <1>2
<1>6. \A i \in 2 .. Len(l) : FALSE
  BY <1>2
<1>7. ReplaysTo(l, n)
  BY <1>1, <1>2, <1>3, <1>4, <1>5, <1>6, Zenon DEF ReplaysTo
<1>8. QED
  BY <1>7 DEF l, n

-----------------------------------------------------------------------------
(* Trees                                                                     *)

\* What a tree is.
LEMMA TreeIs ==
  ASSUME NEW t
  PROVE  t \in Trees <=> \E D \in SUBSET Paths : t \in [D -> Contents]
  BY DEF Trees

\* The paths and the contents of a tree.
LEMMA TreeHas ==
  ASSUME NEW t \in Trees
  PROVE  DOMAIN t \subseteq Paths /\ \A p \in DOMAIN t : t[p] \in Contents
<1>1. PICK D \in SUBSET Paths : t \in [D -> Contents]
  BY TreeIs
<1>2. QED
  BY <1>1

\* The empty stage is a tree.
LEMMA UnstagedIsTree == Unstaged \in Trees
<1> DEFINE t == [p \in {} |-> p]
<1>1. t \in [{} -> Contents] /\ {} \in SUBSET Paths /\ DOMAIN t = {}
  OBVIOUS
<1>2. t \in Trees
  BY <1>1, TreeIs
<1>3. \E u \in Trees : DOMAIN u = {}
  BY <1>1, <1>2
<1>4. QED
  BY <1>3 DEF Unstaged

\* A tree with one content replaced is a tree.
LEMMA CandidateIsTree ==
  ASSUME NEW t \in Trees, NEW p \in Proposals
  PROVE  Candidate(t, p) \in Trees
<1>1. PICK D \in SUBSET Paths : t \in [D -> Contents]
  BY TreeIs
<1>2. p.after \in Contents
  BY DEF Proposals
<1>3. Candidate(t, p) \in [D -> Contents]
  BY <1>1, <1>2 DEF Candidate
<1>4. QED
  BY <1>3, TreeIs

\* A tree with one path more is a tree.
LEMMA CopiedIsTree ==
  ASSUME NEW t \in Trees, NEW p \in Paths, NEW c \in Contents
  PROVE  [q \in DOMAIN t \cup {p} |-> IF q = p THEN c ELSE t[q]] \in Trees
<1>1. DOMAIN t \subseteq Paths /\ \A q \in DOMAIN t : t[q] \in Contents
  BY TreeHas
<1>2. [q \in DOMAIN t \cup {p} |-> IF q = p THEN c ELSE t[q]] \in [DOMAIN t \cup {p} -> Contents]
  BY <1>1
<1>3. DOMAIN t \cup {p} \in SUBSET Paths
  BY <1>1
<1>4. QED
  BY <1>2, <1>3, TreeIs

-----------------------------------------------------------------------------
(* The steps of a run record                                                 *)

\* The run is not concerned.
Stays(r) == run'[r] = run[r] /\ log'[r] = log[r]

\* The run is created.
Created(r) ==
  /\ run[r].state = "absent" /\ CreateRun(r)
  /\ run'[r] = [Absent EXCEPT !.state = "prepared", !.rev = 1]
  /\ log'[r] = <<[kind |-> "prepared"]>>

\* The configuration of its provider is recorded.
Configured(r) ==
  /\ run[r].state = "running" /\ ~run[r].observed
  /\ run'[r] = [run[r] EXCEPT !.observed = TRUE, !.rev = @ + 1]
  /\ log'[r] = Append(log[r], [kind |-> "observed"])

\* The run moves; only a verification takes it out of Verifying to a state that
\* the process does not enter by itself.
MovedTo(r, to, trust) ==
  /\ run[r].state \in RunState \ Terminal /\ to \in RunState /\ trust \in Trusts
  /\ run'[r] = [run[r] EXCEPT !.state = to, !.rev = @ + 1, !.failure = (to = "failed")]
  /\ log'[r] = Append(log[r], [kind |-> "moved", from |-> run[r].state, to |-> to, trust |-> trust])
  /\ to \in Early => run[r].state \in Early
  /\ to = "promoted" => run[r].state = "awaiting_promotion_approval"
  /\ to = "awaiting_promotion_approval" => CompleteVerification /\ verifier.run = r

\* What a step does to a run.
RunStep(r) ==
  \/ Stays(r) \/ Created(r) \/ Configured(r)
  \/ \E to \in RunState, trust \in Trusts : MovedTo(r, to, trust)

\* The actions that touch no durable record.
Touchless ==
  \/ \E r \in Runs : \/ GetRun(r) \/ StageOpen(r) \/ StageCopy(r) \/ StageSeal(r) \/ StageFails(r)
                     \/ StageEdit(r) \/ InspectProposal(r)
  \/ CheckpointNames \/ Rebuild \/ RebuildFails \/ Execute \/ CandidateEdit \/ Observe
  \/ EvidenceUnreadable \/ AbandonVerification \/ DamageObject \/ ReplaceExecutable \/ RuntimeDies
  \/ RetainObjects \/ ReconcileRows

\* They touch none.
LEMMA TouchlessSteps ==
  ASSUME Touchless
  PROVE  UNCHANGED <<run, log, records, born>>
  BY Zenon DEF Touchless, GetRun, StageOpen, StageCopy, StageSeal, StageFails, StageEdit,
     InspectProposal, CheckpointNames, Rebuild, RebuildFails, Execute, CandidateEdit, Observe,
     EvidenceUnreadable, AbandonVerification, DamageObject, ReplaceExecutable, RuntimeDies,
     RetainObjects, ReconcileRows, records, memory, store

\* The other actions.
LEMMA RunNextCases ==
  ASSUME RunNext
  PROVE  \/ Touchless
         \/ \E r \in Runs : \/ CreateRun(r) \/ CompareAndTransition(r) \/ ProviderConfiguration(r)
                            \/ RecordBaseline(r) \/ RecordNoChanges(r) \/ RecordExactProposal(r)
                            \/ BeginVerification(r)
         \/ CompleteVerification \/ InterruptAbandoned
  BY Zenon DEF RunNext, Touchless

\* A run that can move is neither absent nor over, and the states it may reach.
LEMMA Transitions ==
  ASSUME NEW from, NEW to, CanTransition(from, to)
  PROVE  /\ from \in RunState \ Terminal /\ to \in RunState /\ to # "prepared"
         /\ to \in Early => from \in Early
         /\ to = "promoted" => from = "awaiting_promotion_approval"
         /\ to = "awaiting_promotion_approval" => from = "verifying"
  BY DEF CanTransition, RunState, Terminal, Early

\* What the invariant says of a run that is not absent.
LEMMA Recorded ==
  ASSUME RunInv, NEW r \in Runs
  PROVE  /\ run[r] \in RunRecords /\ log[r] \in Seq(LogEntries)
         /\ run[r].state \in RunState \cup {"absent"} /\ run[r].rev \in Nat
         /\ run[r].failure \in BOOLEAN /\ run[r].observed \in BOOLEAN
         /\ run[r] = [state |-> run[r].state, rev |-> run[r].rev, failure |-> run[r].failure,
                      observed |-> run[r].observed]
         /\ run[r].state # "absent" => run[r].rev # 0 /\ ReplaysTo(log[r], run[r])
         /\ run[r].state # "absent" => (run[r].failure <=> run[r].state = "failed")
         /\ run[r].state = "absent" => run[r] = Absent
<1>1. run[r] \in RunRecords /\ log[r] \in Seq(LogEntries)
  BY DEF RunInv, RecordTypes
<1>2. Logged(r)
  BY DEF RunInv
<1>3. run[r].state # "absent" => run[r].rev # 0 /\ ReplaysTo(log[r], run[r])
  BY <1>2, Zenon DEF Logged, Replays
<1>4. run[r].state # "absent" => (run[r].failure <=> run[r].state = "failed")
  BY <1>3, Zenon DEF ReplaysTo
<1>5. run[r].state = "absent" => run[r] = Absent
  BY <1>2, Zenon DEF Logged
<1>6. /\ run[r].state \in RunState \cup {"absent"} /\ run[r].rev \in Nat
      /\ run[r].failure \in BOOLEAN /\ run[r].observed \in BOOLEAN
      /\ run[r] = [state |-> run[r].state, rev |-> run[r].rev, failure |-> run[r].failure,
                   observed |-> run[r].observed]
  BY <1>1 DEF RunRecords
<1>7. QED
  BY <1>1, <1>3, <1>4, <1>5, <1>6, Zenon

\* A transition of one run is a step of it and of no other.
LEMMA TransitionSteps ==
  ASSUME RunInv, NEW q \in Runs, NEW to \in RunState, NEW trust \in Trusts,
         Transition(q, run[q].state, run[q].rev, to, trust), run[q].state \in RunState \ Terminal,
         to \in Early => run[q].state \in Early,
         to = "promoted" => run[q].state = "awaiting_promotion_approval",
         to = "awaiting_promotion_approval" => CompleteVerification /\ verifier.run = q
  PROVE  MovedTo(q, to, trust) /\ \A r \in Runs : r # q => Stays(r)
<1>1. run \in [Runs -> RunRecords] /\ log \in [Runs -> Seq(LogEntries)]
  BY DEF RunInv, RecordTypes
<1>2. \A r \in Runs : r # q => Stays(r)
  BY <1>1 DEF Transition, Stays
<1>3. run'[q] = [run[q] EXCEPT !.state = to, !.rev = @ + 1, !.failure = (to = "failed")]
  BY <1>1 DEF Transition
<1>4. log'[q] = Append(log[q], [kind |-> "moved", from |-> run[q].state, to |-> to, trust |-> trust])
  BY <1>1 DEF Transition
<1>5. QED
  BY <1>2, <1>3, <1>4, Zenon DEF MovedTo

\* Every step of the system is a step of every run.
LEMMA RunSteps ==
  ASSUME RunInv, RunNext, NEW r \in Runs
  PROVE  RunStep(r)
<1> USE DEF RunStep
<1>1. CASE Touchless
  BY <1>1, TouchlessSteps, Zenon DEF Stays
<1>2. ASSUME NEW q \in Runs, CreateRun(q) PROVE RunStep(r)
  <2>1. run \in [Runs -> RunRecords] /\ log \in [Runs -> Seq(LogEntries)]
    BY DEF RunInv, RecordTypes
  <2>2. CASE q = r
    BY <1>2, <2>1, <2>2 DEF CreateRun, Created
  <2>3. CASE q # r
    BY <1>2, <2>1, <2>3 DEF CreateRun, Stays
  <2>4. QED
    BY <2>2, <2>3
<1>3. ASSUME NEW q \in Runs, CompareAndTransition(q) PROVE RunStep(r)
  <2>a. PICK to \in RunState \ {"verifying"}, trust \in Labels :
          /\ CanTransition(seen[q].state, to) /\ seen[q].state # "verifying"
          /\ Transition(q, seen[q].state, seen[q].rev, to, trust)
    BY <1>3, Zenon DEF CompareAndTransition
  <2>b. seen[q].state = run[q].state /\ seen[q].rev = run[q].rev
    BY <1>3 DEF CompareAndTransition, Current
  <2>1. /\ run[q].state # "verifying" /\ CanTransition(run[q].state, to)
        /\ Transition(q, run[q].state, run[q].rev, to, trust)
    BY <2>a, <2>b, Zenon
  <2>2. /\ run[q].state \in RunState \ Terminal
        /\ to \in Early => run[q].state \in Early
        /\ to = "promoted" => run[q].state = "awaiting_promotion_approval"
        /\ to # "awaiting_promotion_approval"
    BY <2>1, Transitions
  <2>3. trust \in Trusts /\ to \in RunState
    BY DEF Trusts
  <2>4. MovedTo(q, to, trust) /\ \A s \in Runs : s # q => Stays(s)
    BY <2>1, <2>2, <2>3, TransitionSteps, Zenon
  <2>5. QED
    BY <2>3, <2>4, Zenon
<1>4. ASSUME NEW q \in Runs, ProviderConfiguration(q) PROVE RunStep(r)
  <2>1. run \in [Runs -> RunRecords] /\ log \in [Runs -> Seq(LogEntries)]
    BY DEF RunInv, RecordTypes
  <2>2. CASE q = r
    BY <1>4, <2>1, <2>2 DEF ProviderConfiguration, Configured
  <2>3. CASE q # r
    BY <1>4, <2>1, <2>3 DEF ProviderConfiguration, Stays
  <2>4. QED
    BY <2>2, <2>3
<1>5. ASSUME NEW q \in Runs, RecordBaseline(q) \/ RecordNoChanges(q) \/ RecordExactProposal(q)
      PROVE  RunStep(r)
  BY <1>5, Zenon DEF RecordBaseline, RecordNoChanges, RecordExactProposal, Stays
<1>6. ASSUME NEW q \in Runs, BeginVerification(q) PROVE RunStep(r)
  <2>1. Transition(q, run[q].state, run[q].rev, "verifying", "state") /\ run[q].state = "inspecting"
    BY <1>6 DEF BeginVerification, Current
  <2>2. /\ run[q].state \in RunState \ Terminal /\ "verifying" \in RunState
        /\ "verifying" \notin Early
        /\ "verifying" # "promoted" /\ "verifying" # "awaiting_promotion_approval"
    BY <2>1 DEF RunState, Terminal, Early
  <2>3. "state" \in Trusts
    BY DEF Trusts
  <2>4. MovedTo(q, "verifying", "state") /\ \A s \in Runs : s # q => Stays(s)
    BY <2>1, <2>2, <2>3, TransitionSteps, Zenon
  <2>5. QED
    BY <2>2, <2>3, <2>4, Zenon
<1>7. CASE CompleteVerification
  <2> DEFINE q == verifier.run
             to == NextState(verifier.ended)
  <2>1. /\ Transition(q, run[q].state, run[q].rev, to, "verification")
        /\ run[q].state = "verifying" /\ verifier # NoRecord
    BY <1>7 DEF CompleteVerification
  <2>2. q \in Runs
    BY <2>1 DEF RunInv, MemoryTypes, Verifiers
  <2>3. to \in {"awaiting_promotion_approval", "cancelled", "failed"}
    BY DEF NextState
  <2>4. /\ run[q].state \in RunState \ Terminal /\ to \in RunState /\ to \notin Early
        /\ to # "promoted"
    BY <2>1, <2>3 DEF RunState, Terminal, Early
  <2>5. "verification" \in Trusts
    BY DEF Trusts
  <2> HIDE DEF to
  <2>6. MovedTo(q, to, "verification") /\ \A s \in Runs : s # q => Stays(s)
    BY <1>7, <2>1, <2>2, <2>4, <2>5, TransitionSteps, Zenon
  <2>7. QED
    BY <2>4, <2>5, <2>6, Zenon
<1>8. CASE InterruptAbandoned
  <2>1. CASE r \notin Abandoned
    BY <1>8, <2>1 DEF InterruptAbandoned, Stays
  <2>2. CASE r \in Abandoned
    <3>1. run[r].state \in RunState \ Terminal
      BY <2>2, Recorded DEF Abandoned
    <3>2. ~run[r].failure
      BY <3>1, Recorded DEF RunState, Terminal
    <3>3. run'[r] = [run[r] EXCEPT !.state = "interrupted", !.rev = @ + 1]
      BY <1>8, <2>2 DEF InterruptAbandoned
    <3>4. run'[r] = [run[r] EXCEPT !.state = "interrupted", !.rev = @ + 1,
                                   !.failure = ("interrupted" = "failed")]
      <4>1. ("interrupted" = "failed") = FALSE /\ run[r].failure = FALSE
        BY <3>2, Recorded
      <4>2. run[r] = [state |-> run[r].state, rev |-> run[r].rev, failure |-> run[r].failure,
                      observed |-> run[r].observed]
        BY Recorded, Zenon
      <4>3. QED
        BY <3>3, <4>1, <4>2
    <3>5. log'[r] = Append(log[r], [kind |-> "moved", from |-> run[r].state,
                                    to |-> "interrupted", trust |-> "state"])
      BY <1>8, <2>2 DEF InterruptAbandoned
    <3>6. /\ "interrupted" \in RunState /\ "interrupted" \notin Early /\ "interrupted" # "promoted"
          /\ "interrupted" # "awaiting_promotion_approval"
          /\ "state" \in Trusts
      BY DEF RunState, Early, Trusts
    <3>7. MovedTo(r, "interrupted", "state")
      BY <3>1, <3>4, <3>5, <3>6, Zenon DEF MovedTo
    <3>8. QED
      BY <3>6, <3>7, Zenon
  <2>3. QED
    BY <2>1, <2>2
<1>9. QED
  BY <1>1, <1>2, <1>3, <1>4, <1>5, <1>6, <1>7, <1>8, RunNextCases, Zenon

\* The records stay functions on the runs.
LEMMA RecordFunctions ==
  ASSUME RunInv, RunNext
  PROVE  run' = [r \in Runs |-> run'[r]] /\ log' = [r \in Runs |-> log'[r]]
<1>1. run = [r \in Runs |-> run[r]] /\ log = [r \in Runs |-> log[r]]
  BY DEF RunInv, RecordTypes
<1>2. CASE Touchless
  BY <1>1, <1>2, TouchlessSteps, Zenon
<1>3. ASSUME NEW q \in Runs, NEW from, NEW rev, NEW to, NEW trust,
             Transition(q, from, rev, to, trust)
      PROVE  run' = [r \in Runs |-> run'[r]] /\ log' = [r \in Runs |-> log'[r]]
  BY <1>1, <1>3 DEF Transition
<1>4. ASSUME NEW q \in Runs, CreateRun(q) \/ ProviderConfiguration(q)
      PROVE  run' = [r \in Runs |-> run'[r]] /\ log' = [r \in Runs |-> log'[r]]
  BY <1>1, <1>4 DEF CreateRun, ProviderConfiguration
<1>5. ASSUME NEW q \in Runs, CompareAndTransition(q) \/ BeginVerification(q)
      PROVE  run' = [r \in Runs |-> run'[r]] /\ log' = [r \in Runs |-> log'[r]]
  BY <1>3, <1>5, Zenon DEF CompareAndTransition, BeginVerification
<1>6. ASSUME NEW q \in Runs, RecordBaseline(q) \/ RecordNoChanges(q) \/ RecordExactProposal(q)
      PROVE  run' = [r \in Runs |-> run'[r]] /\ log' = [r \in Runs |-> log'[r]]
  <2>1. run' = run /\ log' = log
    BY <1>6, Zenon DEF RecordBaseline, RecordNoChanges, RecordExactProposal
  <2>2. QED
    BY <1>1, <2>1, Zenon
<1>7. CASE CompleteVerification
  <2>1. verifier.run \in Runs
    BY <1>7 DEF CompleteVerification, RunInv, MemoryTypes, Verifiers
  <2>2. QED
    BY <1>3, <1>7, <2>1, Zenon DEF CompleteVerification
<1>8. CASE InterruptAbandoned
  BY <1>8 DEF InterruptAbandoned
<1>9. QED
  BY <1>2, <1>4, <1>5, <1>6, <1>7, <1>8, RunNextCases, Zenon

\* The record that a move stores, and its log.
LEMMA MovedRecord ==
  ASSUME RunInv, NEW r \in Runs, NEW to \in RunState, NEW trust \in Trusts,
         MovedTo(r, to, trust)
  PROVE  /\ run[r].state # "absent" /\ run'[r] \in RunRecords
         /\ run'[r].state = to /\ run'[r].rev = run[r].rev + 1
         /\ [kind |-> "moved", from |-> run[r].state, to |-> to, trust |-> trust] \in LogEntries
         /\ log'[r] \in Seq(LogEntries) /\ ReplaysTo(log'[r], run'[r])
<1> DEFINE e == [kind |-> "moved", from |-> run[r].state, to |-> to, trust |-> trust]
<1>1. /\ run[r].state \in RunState \ Terminal
      /\ run'[r] = [run[r] EXCEPT !.state = to, !.rev = @ + 1, !.failure = (to = "failed")]
      /\ log'[r] = Append(log[r], e)
  BY DEF MovedTo
<1>2. run[r].state # "absent"
  BY <1>1 DEF RunState
<1>3. /\ run[r] \in RunRecords /\ log[r] \in Seq(LogEntries) /\ run[r].rev \in Nat
      /\ run[r].observed \in BOOLEAN /\ run[r].rev # 0 /\ ReplaysTo(log[r], run[r])
      /\ run[r] = [state |-> run[r].state, rev |-> run[r].rev, failure |-> run[r].failure,
                   observed |-> run[r].observed]
  BY <1>2, Recorded
<1>4. e \in Moved /\ e.from = run[r].state /\ e.to = to
  BY <1>1 DEF Moved
<1>5. e \in LogEntries
  BY <1>4 DEF LogEntries
<1>6. run'[r] = [state |-> to, rev |-> run[r].rev + 1, failure |-> (to = "failed"),
                 observed |-> run[r].observed]
  BY <1>1, <1>3
<1>7. /\ run'[r] \in RunRecords /\ run'[r].state = to /\ run'[r].rev = run[r].rev + 1
      /\ run'[r].failure = (to = "failed") /\ run'[r].observed = run[r].observed
  BY <1>3, <1>6 DEF RunRecords
<1>8. run'[r].failure <=> to = "failed"
  BY <1>7, Zenon
<1> HIDE DEF e
<1>9. log'[r] \in Seq(LogEntries)
  BY <1>1, <1>3, <1>5
<1>10. ReplaysTo(Append(log[r], e), run'[r])
  BY <1>3, <1>4, <1>7, <1>8, ReplayMoved
<1>11. QED
  BY <1>1, <1>2, <1>5, <1>7, <1>9, <1>10, Zenon DEF e

\* The record that a configuration stores, and its log.
LEMMA ConfiguredRecord ==
  ASSUME RunInv, NEW r \in Runs, Configured(r)
  PROVE  /\ run'[r] \in RunRecords /\ run'[r].state = "running" /\ run'[r].rev = run[r].rev + 1
         /\ [kind |-> "observed"] \in LogEntries
         /\ log'[r] \in Seq(LogEntries) /\ ReplaysTo(log'[r], run'[r])
<1>1. /\ run[r].state = "running" /\ ~run[r].observed
      /\ run'[r] = [run[r] EXCEPT !.observed = TRUE, !.rev = @ + 1]
      /\ log'[r] = Append(log[r], [kind |-> "observed"])
  BY DEF Configured
<1>2. /\ run[r] \in RunRecords /\ log[r] \in Seq(LogEntries) /\ run[r].rev \in Nat
      /\ run[r].failure \in BOOLEAN /\ run[r].rev # 0 /\ ReplaysTo(log[r], run[r])
      /\ run[r] = [state |-> run[r].state, rev |-> run[r].rev, failure |-> run[r].failure,
                   observed |-> run[r].observed]
  BY <1>1, Recorded
<1>3. run'[r] = [state |-> "running", rev |-> run[r].rev + 1, failure |-> run[r].failure,
                 observed |-> TRUE]
  BY <1>1, <1>2
<1>4. /\ run'[r] \in RunRecords /\ run'[r].state = "running" /\ run'[r].rev = run[r].rev + 1
      /\ run'[r].failure = run[r].failure /\ run'[r].observed
  BY <1>2, <1>3 DEF RunRecords, RunState
<1>5. [kind |-> "observed"] \in LogEntries
  BY DEF LogEntries
<1>6. log'[r] \in Seq(LogEntries)
  BY <1>1, <1>2, <1>5
<1>7. ReplaysTo(Append(log[r], [kind |-> "observed"]), run'[r])
  BY <1>1, <1>2, <1>4, ReplayObserved
<1>8. QED
  BY <1>1, <1>4, <1>5, <1>6, <1>7, Zenon

\* The first record of a run, and its log.
LEMMA CreatedRecord ==
  ASSUME NEW r \in Runs, Created(r)
  PROVE  /\ run'[r] \in RunRecords /\ run'[r].state = "prepared" /\ run'[r].rev = 1
         /\ log'[r] \in Seq(LogEntries) /\ ReplaysTo(log'[r], run'[r])
<1>1. /\ run'[r] = [Absent EXCEPT !.state = "prepared", !.rev = 1]
      /\ log'[r] = <<[kind |-> "prepared"]>>
  BY DEF Created
<1>2. run'[r] = [state |-> "prepared", rev |-> 1, failure |-> FALSE, observed |-> FALSE]
  BY <1>1 DEF Absent
<1>3. run'[r] \in RunRecords /\ run'[r].state = "prepared" /\ run'[r].rev = 1
  BY <1>2 DEF RunRecords, RunState
<1>4. [kind |-> "prepared"] \in LogEntries
  BY DEF LogEntries
<1>5. log'[r] \in Seq(LogEntries)
  BY <1>1, <1>4
<1>6. QED
  BY <1>1, <1>3, <1>5, ReplayCreated, Zenon

\* The log replays to the record after every step (ReplayAgrees).
LEMMA LoggedKept ==
  ASSUME RunInv, RunNext, NEW r \in Runs
  PROVE  run'[r] \in RunRecords /\ log'[r] \in Seq(LogEntries) /\ Logged(r)'
<1>1. CASE Stays(r)
  <2>1. run[r] \in RunRecords /\ log[r] \in Seq(LogEntries) /\ Logged(r)
    BY Recorded DEF RunInv
  <2>2. QED
    BY <1>1, <2>1, Zenon DEF Stays, Logged, Replays
<1>2. CASE Created(r)
  <2>1. run'[r].state # "absent" /\ run'[r].rev # 0
    BY <1>2, CreatedRecord
  <2>2. QED
    BY <1>2, <2>1, CreatedRecord, Zenon DEF Logged, Replays
<1>3. CASE Configured(r)
  <2>1. run[r].rev \in Nat
    BY Recorded
  <2>2. run'[r].state # "absent" /\ run'[r].rev # 0
    BY <1>3, <2>1, ConfiguredRecord
  <2>3. QED
    BY <1>3, <2>2, ConfiguredRecord, Zenon DEF Logged, Replays
<1>4. ASSUME NEW to \in RunState, NEW trust \in Trusts, MovedTo(r, to, trust)
      PROVE  run'[r] \in RunRecords /\ log'[r] \in Seq(LogEntries) /\ Logged(r)'
  <2>1. run[r].rev \in Nat /\ to # "absent"
    BY Recorded DEF RunState
  <2>2. run'[r].state = to /\ run'[r].rev = run[r].rev + 1
    BY <1>4, MovedRecord, Zenon
  <2>3. run'[r].state # "absent" /\ run'[r].rev # 0
    BY <2>1, <2>2
  <2>4. QED
    BY <1>4, <2>3, MovedRecord, Zenon DEF Logged, Replays
<1>5. QED
  BY <1>1, <1>2, <1>3, <1>4, RunSteps, Zenon DEF RunStep

-----------------------------------------------------------------------------
(* The records of a run                                                      *)

\* The actions that write a record.
LEMMA RecordCases ==
  ASSUME RunNext
  PROVE  \/ UNCHANGED records
         \/ \E q \in Runs : \/ RecordBaseline(q) \/ RecordNoChanges(q) \/ RecordExactProposal(q)
                            \/ BeginVerification(q)
         \/ CompleteVerification
<1>1. CASE Touchless
  BY <1>1, TouchlessSteps, Zenon
<1>2. ASSUME NEW q \in Runs, CreateRun(q) \/ CompareAndTransition(q) \/ ProviderConfiguration(q)
      PROVE  UNCHANGED records
  BY <1>2, Zenon DEF CreateRun, CompareAndTransition, ProviderConfiguration
<1>3. CASE InterruptAbandoned
  BY <1>3, Zenon DEF InterruptAbandoned
<1>4. QED
  BY <1>1, <1>2, <1>3, RunNextCases, Zenon

\* A loaded proposal has a baseline and a candidate.
LEMMA LoadedTree ==
  ASSUME RunInv, NEW r \in Runs, LoadedProposal(r)
  PROVE  /\ baseline[r] \in Trees /\ proposal[r] \in Proposals
         /\ baseline[r] # NoRecord /\ proposal[r] # NoRecord /\ inspection[r] = "exact"
         /\ Candidate(baseline[r], proposal[r]) \in Trees
<1>1. baseline[r] # NoRecord /\ proposal[r] # NoRecord /\ inspection[r] = "exact"
  BY Zenon DEF LoadedProposal, StoredProposal, StoredBaseline, StoredHeader
<1>2. baseline[r] \in Trees /\ proposal[r] \in Proposals
  BY <1>1 DEF RunInv, RecordTypes
<1>3. QED
  BY <1>1, <1>2, CandidateIsTree, Zenon

\* The durable records keep their types.
LEMMA RecordTypesKept ==
  ASSUME RunConstants, RunInv, RunNext
  PROVE  RecordTypes'
<1>1. RecordTypes
  BY DEF RunInv
<1>2. run' \in [Runs -> RunRecords] /\ log' \in [Runs -> Seq(LogEntries)]
  BY RecordFunctions, LoggedKept
<1>3. CASE UNCHANGED records
  BY <1>1, <1>2, <1>3 DEF RecordTypes, records
<1>4. ASSUME NEW q \in Runs, RecordBaseline(q) PROVE RecordTypes'
  <2>1. stage[q] # NoRecord /\ stage[q].base \in Trees
    BY <1>4 DEF RecordBaseline, RunInv, MemoryTypes, StagedRuns
  <2>2. baseline' = [baseline EXCEPT ![q] = stage[q].base]
        /\ UNCHANGED <<inspection, proposal, request, result>>
    BY <1>4 DEF RecordBaseline
  <2>3. baseline' \in [Runs -> Trees \cup {NoRecord}]
    BY <1>1, <2>1, <2>2 DEF RecordTypes
  <2>4. QED
    BY <1>1, <1>2, <2>2, <2>3 DEF RecordTypes
<1>5. ASSUME NEW q \in Runs, RecordNoChanges(q) PROVE RecordTypes'
  <2>1. inspection' = [inspection EXCEPT ![q] = "no_changes"]
        /\ UNCHANGED <<baseline, proposal, request, result>>
    BY <1>5 DEF RecordNoChanges
  <2>2. inspection' \in [Runs -> {NoRecord, "no_changes", "exact"}]
    BY <1>1, <2>1 DEF RecordTypes
  <2>3. QED
    BY <1>1, <1>2, <2>1, <2>2 DEF RecordTypes
<1>6. ASSUME NEW q \in Runs, RecordExactProposal(q) PROVE RecordTypes'
  <2>1. offer[q] \in Offers
    BY <1>6 DEF RecordExactProposal, ExactOffer, RunInv, MemoryTypes
  <2>2. [path |-> offer[q].path, after |-> offer[q].after] \in Proposals
    BY <2>1 DEF Offers, Proposals
  <2>3. /\ proposal' = [proposal EXCEPT ![q] = [path |-> offer[q].path, after |-> offer[q].after]]
        /\ inspection' = [inspection EXCEPT ![q] = "exact"]
        /\ UNCHANGED <<baseline, request, result>>
    BY <1>6 DEF RecordExactProposal
  <2>4. /\ inspection' \in [Runs -> {NoRecord, "no_changes", "exact"}]
        /\ proposal' \in [Runs -> Proposals \cup {NoRecord}]
    BY <1>1, <2>2, <2>3 DEF RecordTypes
  <2>5. QED
    BY <1>1, <1>2, <2>3, <2>4 DEF RecordTypes
<1>7. ASSUME NEW q \in Runs, BeginVerification(q) PROVE RecordTypes'
  <2>1. LoadedProposal(q) /\ UNCHANGED <<baseline, inspection, proposal, result>>
        /\ request' = [request EXCEPT ![q] = [seq |-> run[q].rev + 1,
                                              candidate |-> Candidate(baseline[q], proposal[q])]]
    BY <1>7 DEF BeginVerification
  <2>2. Candidate(baseline[q], proposal[q]) \in Trees /\ run[q].rev \in Nat
    BY <2>1, LoadedTree, Recorded
  <2>3. request' \in [Runs -> Requests \cup {NoRecord}]
    BY <1>1, <2>1, <2>2 DEF RecordTypes, Requests
  <2>4. QED
    BY <1>1, <1>2, <2>1, <2>3 DEF RecordTypes
<1>8. CASE CompleteVerification
  <2> DEFINE q == verifier.run
             x == [seq |-> run[q].rev + 1, outcome |-> verifier.ended,
                   observed |-> verifier.observed, exe |-> verifier.exe]
  <2>1. /\ verifier # NoRecord /\ result' = [result EXCEPT ![q] = x]
        /\ UNCHANGED <<baseline, inspection, proposal, request>>
    BY <1>8 DEF CompleteVerification
  <2>2. verifier \in Verifiers
    BY <2>1 DEF RunInv, MemoryTypes
  <2>3. q \in Runs /\ x \in Results
    <3>1. q \in Runs
      BY <2>2 DEF Verifiers
    <3>2. run[q].rev \in Nat
      BY <3>1, Recorded, Zenon
    <3>3. run[q].rev + 1 \in Nat
      BY <3>2
    <3>4. QED
      BY <2>2, <3>1, <3>3 DEF Verifiers, Results
  <2> HIDE DEF x
  <2>4. result' \in [Runs -> Results \cup {NoRecord}]
    BY <1>1, <2>1, <2>3 DEF RecordTypes
  <2>5. QED
    BY <1>1, <1>2, <2>1, <2>4 DEF RecordTypes
<1>9. QED
  BY <1>3, <1>4, <1>5, <1>6, <1>7, <1>8, RecordCases, Zenon

\* No verification was requested of an early run.
LEMMA NotYetRequestedKept ==
  ASSUME RunInv, RunNext
  PROVE  NotYetRequested'
<1>1. SUFFICES ASSUME NEW r \in Runs, run'[r].state \in Early PROVE request'[r] = NoRecord
  BY DEF NotYetRequested
<1>2. run[r].state \in Early /\ request[r] = NoRecord
  <2>1. CASE Stays(r)
    BY <1>1, <2>1 DEF Stays, RunInv, NotYetRequested
  <2>2. CASE Created(r)
    BY <2>2 DEF Created, Early, RunInv, NotYetRequested
  <2>3. CASE Configured(r)
    BY <2>3 DEF Configured, Early, RunInv, NotYetRequested
  <2>4. ASSUME NEW to \in RunState, NEW trust \in Trusts, MovedTo(r, to, trust)
        PROVE  run[r].state \in Early /\ request[r] = NoRecord
    <3>1. to \in Early
      BY <1>1, <2>4, MovedRecord, Zenon
    <3>2. QED
      BY <2>4, <3>1, Zenon DEF MovedTo, RunInv, NotYetRequested
  <2>5. QED
    BY <2>1, <2>2, <2>3, <2>4, RunSteps, Zenon DEF RunStep
<1>3. request'[r] = request[r]
  <2>1. CASE UNCHANGED records
    BY <2>1, Zenon DEF records
  <2>2. ASSUME NEW q \in Runs, RecordBaseline(q) \/ RecordNoChanges(q) \/ RecordExactProposal(q)
        PROVE  request'[r] = request[r]
    BY <2>2, Zenon DEF RecordBaseline, RecordNoChanges, RecordExactProposal
  <2>3. ASSUME NEW q \in Runs, BeginVerification(q) PROVE request'[r] = request[r]
    <3>1. Transition(q, "inspecting", seen[q].rev, "verifying", "state")
          /\ request' = [request EXCEPT ![q] = [seq |-> run[q].rev + 1,
                                                candidate |-> Candidate(baseline[q], proposal[q])]]
      BY <2>3 DEF BeginVerification
    <3>2. run \in [Runs -> RunRecords] /\ request \in [Runs -> Requests \cup {NoRecord}]
      BY DEF RunInv, RecordTypes
    <3>3. run'[q].state = "verifying"
      BY <3>1, <3>2 DEF Transition, RunRecords
    <3>4. r # q
      BY <1>1, <3>3 DEF Early
    <3>5. QED
      BY <3>1, <3>2, <3>4
  <2>4. CASE CompleteVerification
    BY <2>4, Zenon DEF CompleteVerification
  <2>5. QED
    BY <2>1, <2>2, <2>3, <2>4, RecordCases, Zenon
<1>4. QED
  BY <1>2, <1>3

\* What was recorded is frozen (EvidenceFrozen), whatever the step.
LEMMA FrozenStep ==
  ASSUME RunInv, RunNext
  PROVE  EvidenceFrozen
<1>1. SUFFICES ASSUME NEW r \in Runs
               PROVE  /\ baseline[r] # NoRecord => baseline'[r] = baseline[r]
                      /\ inspection[r] # NoRecord =>
                           inspection'[r] = inspection[r] /\ proposal'[r] = proposal[r]
                      /\ request[r] # NoRecord => request'[r] = request[r]
                      /\ result[r] # NoRecord => result'[r] = result[r]
                      /\ run[r].state \in Terminal => run'[r] = run[r] /\ log'[r] = log[r]
  BY Zenon DEF EvidenceFrozen
<1>2. ASSUME run[r].state \in Terminal PROVE run'[r] = run[r] /\ log'[r] = log[r]
  <2>1. ~Created(r) /\ ~Configured(r)
    BY <1>2 DEF Created, Configured, Terminal
  <2>2. \A to, trust : ~MovedTo(r, to, trust)
    BY <1>2 DEF MovedTo
  <2>3. QED
    BY <2>1, <2>2, RunSteps, Zenon DEF RunStep, Stays
<1>3. RecordTypes
  BY DEF RunInv
<1>4. CASE UNCHANGED records
  BY <1>2, <1>4, Zenon DEF records
<1>5. ASSUME NEW q \in Runs, RecordBaseline(q)
      PROVE  /\ baseline[r] # NoRecord => baseline'[r] = baseline[r]
             /\ UNCHANGED <<inspection, proposal, request, result>>
  BY <1>3, <1>5 DEF RecordBaseline, RecordTypes
<1>6. ASSUME NEW q \in Runs, RecordNoChanges(q) \/ RecordExactProposal(q)
      PROVE  /\ inspection[r] # NoRecord =>
                  inspection'[r] = inspection[r] /\ proposal'[r] = proposal[r]
             /\ UNCHANGED <<baseline, request, result>>
  BY <1>3, <1>6 DEF RecordNoChanges, RecordExactProposal, RecordTypes
<1>7. ASSUME NEW q \in Runs, BeginVerification(q)
      PROVE  /\ request[r] # NoRecord => request'[r] = request[r]
             /\ UNCHANGED <<baseline, inspection, proposal, result>>
  <2>1. request[q] = NoRecord
    BY <1>7 DEF BeginVerification, RunInv, NotYetRequested, Early
  <2>2. QED
    BY <1>3, <1>7, <2>1 DEF BeginVerification, RecordTypes
<1>8. CASE CompleteVerification
  <2>1. /\ result[verifier.run] = NoRecord
        /\ result' = [result EXCEPT ![verifier.run] =
                        [seq |-> run[verifier.run].rev + 1, outcome |-> verifier.ended,
                         observed |-> verifier.observed, exe |-> verifier.exe]]
        /\ UNCHANGED <<baseline, inspection, proposal, request>>
    BY <1>8 DEF CompleteVerification
  <2>2. result[r] # NoRecord => result'[r] = result[r]
    BY <1>3, <2>1 DEF RecordTypes
  <2>3. QED
    BY <1>2, <2>1, <2>2, Zenon
<1>9. QED
  BY <1>2, <1>4, <1>5, <1>6, <1>7, <1>8, RecordCases, Zenon

-----------------------------------------------------------------------------
(* The objects that records name                                             *)

\* What records name is referenced.
LEMMA NamedReferenced == NamedIn(Referenced)
<1>1. SUFFICES ASSUME NEW r \in Runs
               PROVE  /\ baseline[r] # NoRecord => BaselineIds(baseline[r]) \subseteq Referenced
                      /\ proposal[r] # NoRecord =>
                           ProposalIds(baseline[r], proposal[r]) \subseteq Referenced
  BY DEF NamedIn
<1> DEFINE based == {q \in Runs : baseline[q] # NoRecord}
           proposed == {q \in Runs : proposal[q] # NoRecord}
           Base(q) == BaselineIds(baseline[q])
           Change(q) == ProposalIds(baseline[q], proposal[q])
           bases == {Base(q) : q \in based}
           changes == {Change(q) : q \in proposed}
<1>2. \A y : y \in Referenced <=>
              y \in pinned \/ (\E b \in bases : y \in b) \/ \E b \in changes : y \in b
  <2>1. Referenced = pinned \cup (UNION bases) \cup (UNION changes)
    BY DEF Referenced
  <2> HIDE DEF bases, changes
  <2>2. QED
    BY <2>1
<1>3. (baseline[r] # NoRecord => Base(r) \in bases) /\ (proposal[r] # NoRecord => Change(r) \in changes)
  OBVIOUS
<1> HIDE DEF bases, changes
<1>4. /\ Base(r) \in bases => Base(r) \subseteq Referenced
      /\ Change(r) \in changes => Change(r) \subseteq Referenced
  <2> HIDE DEF Base, Change
  <2>1. QED
    BY <1>2
<1>5. QED
  BY <1>3, <1>4

\* Nothing is referenced but what records and checkpoints name.
LEMMA ReferencedNamed ==
  ASSUME NEW s, NamedIn(s)
  PROVE  Referenced \ pinned \subseteq s
<1>1. SUFFICES ASSUME NEW x \in Referenced \ pinned PROVE x \in s
  OBVIOUS
<1> DEFINE based == {q \in Runs : baseline[q] # NoRecord}
           proposed == {q \in Runs : proposal[q] # NoRecord}
           Base(q) == BaselineIds(baseline[q])
           Change(q) == ProposalIds(baseline[q], proposal[q])
           bases == {Base(q) : q \in based}
           changes == {Change(q) : q \in proposed}
<1>2. \A y : y \in Referenced <=>
              y \in pinned \/ (\E b \in bases : y \in b) \/ \E b \in changes : y \in b
  <2>1. Referenced = pinned \cup (UNION bases) \cup (UNION changes)
    BY DEF Referenced
  <2> HIDE DEF bases, changes
  <2>2. QED
    BY <2>1
<1>3. (\A q \in based : Base(q) \subseteq s) /\ \A q \in proposed : Change(q) \subseteq s
  BY DEF NamedIn
<1>4. (\A b \in bases : b \subseteq s) /\ \A b \in changes : b \subseteq s
  BY <1>3
<1> HIDE DEF bases, changes
<1>5. QED
  BY <1>1, <1>2, <1>4

\* A step that writes neither a baseline nor a proposal keeps what is named, if
\* the store and its rows lose nothing that is.
LEMMA NamedFrame ==
  ASSUME RunInv, baseline' = baseline, proposal' = proposal, pinned' \subseteq objects',
         objects \subseteq objects' \/ objects' = objects \cap Referenced,
         registered \subseteq registered' \/ registered' = registered \cap Referenced
  PROVE  Named'
<1>1. NamedIn(objects) /\ NamedIn(registered) /\ NamedIn(Referenced)
  BY NamedReferenced DEF RunInv, Named
<1>2. NamedIn(objects)'
  BY <1>1 DEF NamedIn
<1>3. NamedIn(registered)'
  BY <1>1 DEF NamedIn
<1>4. QED
  BY <1>2, <1>3 DEF Named, RunInv

\* Every step keeps it.
LEMMA NamedKept ==
  ASSUME RunInv, RunNext
  PROVE  Named'
<1>1. Named /\ RecordTypes
  BY DEF RunInv
<1>2. CASE Touchless
  <2>1. baseline' = baseline /\ proposal' = proposal
    BY <1>2, TouchlessSteps, Zenon DEF records
  <2>2. CASE UNCHANGED <<objects, registered, pinned>>
    BY <1>1, <2>1, <2>2, NamedFrame DEF Named
  <2>3. ASSUME NEW q \in Runs, StageCopy(q) \/ StageSeal(q) \/ InspectProposal(q)
        PROVE  Named'
    <3>1. objects \subseteq objects' /\ UNCHANGED <<registered, pinned>>
      BY <2>3 DEF StageCopy, StageSeal, InspectProposal
    <3>2. QED
      BY <1>1, <2>1, <3>1, NamedFrame DEF Named
  <2>4. CASE CheckpointNames
    <3>1. objects' = objects /\ registered' = registered /\ pinned' \subseteq objects
      BY <1>1, <2>4 DEF CheckpointNames, Named
    <3>2. QED
      BY <2>1, <3>1, NamedFrame
  <2>5. CASE RetainObjects
    <3>1. objects' = objects \cap Referenced /\ registered' = registered /\ pinned' = pinned
      BY <2>5 DEF RetainObjects
    <3>2. pinned \subseteq Referenced
      BY DEF Referenced
    <3>3. QED
      BY <1>1, <2>1, <3>1, <3>2, NamedFrame DEF Named
  <2>6. CASE ReconcileRows
    <3>1. objects' = objects /\ registered' = registered \cap Referenced /\ pinned' = pinned
      BY <2>6 DEF ReconcileRows
    <3>2. QED
      BY <1>1, <2>1, <3>1, NamedFrame DEF Named
  <2>7. QED
    <3>1. ASSUME NEW q \in Runs,
                 GetRun(q) \/ StageOpen(q) \/ StageFails(q) \/ StageEdit(q)
          PROVE  UNCHANGED <<objects, registered, pinned>>
      BY <3>1, Zenon DEF GetRun, StageOpen, StageFails, StageEdit, store
    <3>2. ASSUME \/ Rebuild \/ RebuildFails \/ Execute \/ CandidateEdit \/ Observe
                 \/ EvidenceUnreadable \/ AbandonVerification \/ DamageObject
                 \/ ReplaceExecutable \/ RuntimeDies
          PROVE  UNCHANGED <<objects, registered, pinned>>
      BY <3>2, Zenon DEF Rebuild, RebuildFails, Execute, CandidateEdit, Observe,
         EvidenceUnreadable, AbandonVerification, DamageObject, ReplaceExecutable, RuntimeDies, store
    <3>3. QED
      BY <1>2, <2>2, <2>3, <2>4, <2>5, <2>6, <3>1, <3>2, Zenon DEF Touchless
<1>3. ASSUME \/ \E q \in Runs : \/ CreateRun(q) \/ CompareAndTransition(q) \/ ProviderConfiguration(q)
                                \/ RecordNoChanges(q) \/ BeginVerification(q)
             \/ CompleteVerification \/ InterruptAbandoned
      PROVE  Named'
  <2>1. UNCHANGED <<baseline, proposal, objects, registered, pinned>>
    BY <1>3, Zenon DEF CreateRun, CompareAndTransition, ProviderConfiguration, RecordNoChanges,
       BeginVerification, CompleteVerification, InterruptAbandoned, records, store
  <2>2. QED
    BY <1>1, <2>1, NamedFrame DEF Named
<1>4. ASSUME NEW q \in Runs, RecordBaseline(q) PROVE Named'
  <2> DEFINE t == stage[q].base
  <2>1. /\ baseline[q] = NoRecord /\ Readable(BaselineIds(t))
        /\ baseline' = [baseline EXCEPT ![q] = t]
        /\ registered' = registered \cup BaselineIds(t)
        /\ UNCHANGED <<proposal, objects, pinned>>
    BY <1>4 DEF RecordBaseline
  <2>2. BaselineIds(t) \subseteq objects
    BY <2>1 DEF Readable
  <2>3. proposal[q] = NoRecord
    BY <1>1, <2>1 DEF Named
  <2>4. baseline'[q] = t /\ \A r \in Runs : r # q => baseline'[r] = baseline[r]
    BY <1>1, <2>1 DEF RecordTypes
  <2> HIDE DEF t
  <2>5. NamedIn(objects)'
    BY <1>1, <2>1, <2>2, <2>3, <2>4 DEF Named, NamedIn
  <2>6. NamedIn(registered)'
    BY <1>1, <2>1, <2>3, <2>4 DEF Named, NamedIn
  <2>7. \A r \in Runs : proposal'[r] # NoRecord => baseline'[r] # NoRecord
    BY <1>1, <2>1, <2>3, <2>4 DEF Named
  <2>8. QED
    BY <1>1, <2>1, <2>5, <2>6, <2>7 DEF Named
<1>5. ASSUME NEW q \in Runs, RecordExactProposal(q) PROVE Named'
  <2> DEFINE p == [path |-> offer[q].path, after |-> offer[q].after]
  <2>1. /\ LoadedBaseline(q) /\ Readable(ProposalIds(baseline[q], offer[q]))
        /\ proposal' = [proposal EXCEPT ![q] = p]
        /\ registered' = registered \cup ProposalIds(baseline[q], offer[q])
        /\ UNCHANGED <<baseline, objects, pinned>>
    BY <1>5 DEF RecordExactProposal, ExactOffer
  <2>2. ProposalIds(baseline[q], offer[q]) = ProposalIds(baseline[q], p)
    BY DEF ProposalIds, Envelope
  <2>3. ProposalIds(baseline[q], p) \subseteq objects /\ baseline[q] # NoRecord
    BY <2>1, <2>2 DEF Readable, LoadedBaseline, StoredBaseline, StoredHeader
  <2>4. proposal'[q] = p /\ \A r \in Runs : r # q => proposal'[r] = proposal[r]
    BY <1>1, <2>1 DEF RecordTypes
  <2> HIDE DEF p
  <2>5. NamedIn(objects)'
    BY <1>1, <2>1, <2>3, <2>4 DEF Named, NamedIn
  <2>6. NamedIn(registered)'
    BY <1>1, <2>1, <2>2, <2>4 DEF Named, NamedIn
  <2>7. \A r \in Runs : proposal'[r] # NoRecord => baseline'[r] # NoRecord
    BY <1>1, <2>1, <2>3, <2>4 DEF Named
  <2>8. QED
    BY <1>1, <2>1, <2>5, <2>6, <2>7 DEF Named
<1>6. QED
  BY <1>2, <1>3, <1>4, <1>5, RunNextCases, Zenon

-----------------------------------------------------------------------------
(* What a process holds                                                      *)

\* The stage keeps its type.
LEMMA StageKept ==
  ASSUME RunInv, RunNext
  PROVE  stage' \in [Runs -> StagedRuns \cup {NoRecord}]
<1>1. stage \in [Runs -> StagedRuns \cup {NoRecord}]
  BY DEF RunInv, MemoryTypes
<1>2. ASSUME NEW q \in Runs, StageOpen(q) PROVE stage' \in [Runs -> StagedRuns \cup {NoRecord}]
  <2>1. [sealed |-> FALSE, todo |-> Paths, base |-> Unstaged, tree |-> Unstaged] \in StagedRuns
    BY UnstagedIsTree DEF StagedRuns
  <2>2. QED
    BY <1>1, <1>2, <2>1 DEF StageOpen
<1>3. ASSUME NEW q \in Runs, StageCopy(q) PROVE stage' \in [Runs -> StagedRuns \cup {NoRecord}]
  <2>1. stage[q] \in StagedRuns
    BY <1>1, <1>3 DEF StageCopy
  <2>2. PICK p \in stage[q].todo :
          \/ \E c \in Contents :
               stage' = [stage EXCEPT ![q].todo = @ \ {p},
                          ![q].base = [x \in DOMAIN @ \cup {p} |-> IF x = p THEN c ELSE @[x]]]
          \/ stage' = [stage EXCEPT ![q].todo = @ \ {p}]
    BY <1>3 DEF StageCopy
  <2>3. p \in Paths /\ stage[q].base \in Trees /\ stage[q].todo \ {p} \in SUBSET Paths
    BY <2>1 DEF StagedRuns
  <2>4. CASE stage' = [stage EXCEPT ![q].todo = @ \ {p}]
    <3>1. [stage[q] EXCEPT !.todo = @ \ {p}] \in StagedRuns
      BY <2>1, <2>3 DEF StagedRuns
    <3>2. stage' = [stage EXCEPT ![q] = [stage[q] EXCEPT !.todo = @ \ {p}]]
      BY <1>1, <2>4
    <3>3. QED
      BY <1>1, <3>1, <3>2
  <2>5. ASSUME NEW c \in Contents,
               stage' = [stage EXCEPT ![q].todo = @ \ {p},
                          ![q].base = [x \in DOMAIN @ \cup {p} |-> IF x = p THEN c ELSE @[x]]]
        PROVE  stage' \in [Runs -> StagedRuns \cup {NoRecord}]
    <3> DEFINE t == [x \in DOMAIN stage[q].base \cup {p} |-> IF x = p THEN c ELSE stage[q].base[x]]
    <3>1. t \in Trees
      BY <2>3, CopiedIsTree
    <3>2. stage' = [stage EXCEPT ![q] = [stage[q] EXCEPT !.todo = @ \ {p}, !.base = t]]
      BY <1>1, <2>5
    <3> HIDE DEF t
    <3>3. [stage[q] EXCEPT !.todo = @ \ {p}, !.base = t] \in StagedRuns
      BY <2>1, <2>3, <3>1 DEF StagedRuns
    <3>4. QED
      BY <1>1, <3>2, <3>3
  <2>6. QED
    BY <2>2, <2>4, <2>5
<1>4. ASSUME NEW q \in Runs, StageSeal(q) PROVE stage' \in [Runs -> StagedRuns \cup {NoRecord}]
  <2>1. stage[q] \in StagedRuns
    BY <1>1, <1>4 DEF StageSeal
  <2>2. stage' = [stage EXCEPT ![q].sealed = TRUE, ![q].tree = stage[q].base]
    BY <1>4 DEF StageSeal
  <2>3. [stage[q] EXCEPT !.sealed = TRUE, !.tree = stage[q].base] \in StagedRuns
    BY <2>1 DEF StagedRuns
  <2>4. stage' = [stage EXCEPT ![q] = [stage[q] EXCEPT !.sealed = TRUE, !.tree = stage[q].base]]
    BY <1>1, <2>2
  <2>5. QED
    BY <1>1, <2>3, <2>4
<1>5. ASSUME NEW q \in Runs, StageFails(q) PROVE stage' \in [Runs -> StagedRuns \cup {NoRecord}]
  BY <1>1, <1>5 DEF StageFails
<1>6. ASSUME NEW q \in Runs, StageEdit(q) PROVE stage' \in [Runs -> StagedRuns \cup {NoRecord}]
  <2>1. stage[q] \in StagedRuns
    BY <1>1, <1>6 DEF StageEdit
  <2>2. PICK t \in Trees : stage' = [stage EXCEPT ![q].tree = t]
    BY <1>6 DEF StageEdit
  <2>3. [stage[q] EXCEPT !.tree = t] \in StagedRuns
    BY <2>1 DEF StagedRuns
  <2>4. stage' = [stage EXCEPT ![q] = [stage[q] EXCEPT !.tree = t]]
    BY <1>1, <2>2
  <2>5. QED
    BY <1>1, <2>3, <2>4
<1>7. CASE RuntimeDies
  BY <1>7 DEF RuntimeDies
<1>8. ASSUME \/ \E q \in Runs : \/ CreateRun(q) \/ GetRun(q) \/ CompareAndTransition(q)
                                \/ ProviderConfiguration(q) \/ InspectProposal(q)
                                \/ RecordBaseline(q) \/ RecordNoChanges(q) \/ RecordExactProposal(q)
                                \/ BeginVerification(q)
             \/ CheckpointNames \/ Rebuild \/ RebuildFails \/ Execute \/ CandidateEdit
             \/ Observe \/ CompleteVerification \/ EvidenceUnreadable \/ AbandonVerification
             \/ DamageObject \/ ReplaceExecutable \/ RetainObjects \/ ReconcileRows
             \/ InterruptAbandoned
      PROVE  stage' = stage
  BY <1>8, Zenon DEF CreateRun, GetRun, CompareAndTransition, ProviderConfiguration, InspectProposal,
     RecordBaseline, RecordNoChanges, RecordExactProposal, BeginVerification, CheckpointNames,
     Rebuild, RebuildFails, Execute, CandidateEdit, Observe, CompleteVerification,
     EvidenceUnreadable, AbandonVerification, DamageObject, ReplaceExecutable, RetainObjects,
     ReconcileRows, InterruptAbandoned, memory
<1>9. QED
  BY <1>1, <1>2, <1>3, <1>4, <1>5, <1>6, <1>7, <1>8, Zenon DEF RunNext

\* The offer keeps its type.
LEMMA OfferKept ==
  ASSUME RunInv, RunNext
  PROVE  offer' \in [Runs -> Offers \cup {NoRecord}]
<1>1. offer \in [Runs -> Offers \cup {NoRecord}] /\ stage \in [Runs -> StagedRuns \cup {NoRecord}]
  BY DEF RunInv, MemoryTypes
<1>2. ASSUME NEW q \in Runs, InspectProposal(q) PROVE offer' \in [Runs -> Offers \cup {NoRecord}]
  <2> DEFINE s == stage[q]
             path == CHOOSE p \in Changed(s) : TRUE
             new == [base |-> s.base, path |-> path, after |-> s.tree[path]]
  <2>1. /\ s # NoRecord /\ DOMAIN s.tree = DOMAIN s.base /\ Cardinality(Changed(s)) = 1
        /\ offer' = [offer EXCEPT ![q] = new]
    BY <1>2 DEF InspectProposal
  <2>2. s.base \in Trees /\ s.tree \in Trees
    BY <1>1, <2>1 DEF StagedRuns
  <2>3. Changed(s) # {}
    BY <2>1, FS_EmptySet
  <2>4. path \in Changed(s)
    BY <2>3
  <2>5. path \in DOMAIN s.tree /\ path \in DOMAIN s.base
    BY <2>1, <2>4 DEF Changed
  <2>6. path \in Paths /\ s.tree[path] \in Contents
    BY <2>2, <2>5, TreeHas
  <2> HIDE DEF path
  <2>7. new \in Offers
    BY <2>2, <2>6 DEF Offers
  <2>8. QED
    BY <1>1, <2>1, <2>7
<1>3. CASE RuntimeDies
  BY <1>3 DEF RuntimeDies
<1>4. ASSUME \/ \E q \in Runs : \/ CreateRun(q) \/ GetRun(q) \/ CompareAndTransition(q)
                                \/ ProviderConfiguration(q) \/ StageOpen(q) \/ StageCopy(q)
                                \/ StageSeal(q) \/ StageFails(q) \/ StageEdit(q)
                                \/ RecordBaseline(q) \/ RecordNoChanges(q) \/ RecordExactProposal(q)
                                \/ BeginVerification(q)
             \/ CheckpointNames \/ Rebuild \/ RebuildFails \/ Execute \/ CandidateEdit
             \/ Observe \/ CompleteVerification \/ EvidenceUnreadable \/ AbandonVerification
             \/ DamageObject \/ ReplaceExecutable \/ RetainObjects \/ ReconcileRows
             \/ InterruptAbandoned
      PROVE  offer' = offer
  BY <1>4, Zenon DEF CreateRun, GetRun, CompareAndTransition, ProviderConfiguration, StageOpen,
     StageCopy, StageSeal, StageFails, StageEdit, RecordBaseline, RecordNoChanges,
     RecordExactProposal, BeginVerification, CheckpointNames, Rebuild, RebuildFails, Execute,
     CandidateEdit, Observe, CompleteVerification, EvidenceUnreadable, AbandonVerification,
     DamageObject, ReplaceExecutable, RetainObjects, ReconcileRows, InterruptAbandoned, memory
<1>5. QED
  BY <1>1, <1>2, <1>3, <1>4, Zenon DEF RunNext

\* The record that a caller holds is one of a run.
LEMMA SeenKept ==
  ASSUME RunInv, RunNext
  PROVE  seen' \in [Runs -> RunRecords]
<1>1. seen \in [Runs -> RunRecords] /\ run \in [Runs -> RunRecords]
  BY DEF RunInv, MemoryTypes, RecordTypes
<1>2. \A r \in Runs : run'[r] \in RunRecords
  BY LoggedKept, Zenon
<1>3. ASSUME NEW q \in Runs, seen' = [seen EXCEPT ![q] = run'[q]]
      PROVE  seen' \in [Runs -> RunRecords]
  BY <1>1, <1>2, <1>3
<1>4. ASSUME NEW q \in Runs, Told(q) PROVE seen' \in [Runs -> RunRecords]
  BY <1>1, <1>3, <1>4, Zenon DEF Told
<1>5. ASSUME NEW q \in Runs, CreateRun(q) \/ CompareAndTransition(q) \/ ProviderConfiguration(q)
      PROVE  seen' \in [Runs -> RunRecords]
  BY <1>3, <1>4, <1>5, Zenon DEF CreateRun, CompareAndTransition, ProviderConfiguration
<1>6. ASSUME NEW q \in Runs, GetRun(q) PROVE seen' \in [Runs -> RunRecords]
  BY <1>1, <1>6 DEF GetRun
<1>7. CASE CompleteVerification
  <2>1. verifier.run \in Runs
    BY <1>7 DEF CompleteVerification, RunInv, MemoryTypes, Verifiers
  <2>2. QED
    BY <1>4, <1>7, <2>1, Zenon DEF CompleteVerification
<1>8. CASE RuntimeDies
  <2>1. Absent \in RunRecords
    BY DEF Absent, RunRecords
  <2>2. QED
    BY <1>8, <2>1 DEF RuntimeDies
<1>9. ASSUME \/ \E q \in Runs : \/ StageOpen(q) \/ StageCopy(q) \/ StageSeal(q) \/ StageFails(q)
                                \/ StageEdit(q) \/ InspectProposal(q) \/ RecordBaseline(q)
                                \/ RecordNoChanges(q) \/ RecordExactProposal(q)
                                \/ BeginVerification(q)
             \/ CheckpointNames \/ Rebuild \/ RebuildFails \/ Execute \/ CandidateEdit
             \/ Observe \/ EvidenceUnreadable \/ AbandonVerification
             \/ DamageObject \/ ReplaceExecutable \/ RetainObjects \/ ReconcileRows
             \/ InterruptAbandoned
      PROVE  seen' = seen
  BY <1>9, Zenon DEF StageOpen, StageCopy, StageSeal, StageFails, StageEdit, InspectProposal,
     RecordBaseline, RecordNoChanges, RecordExactProposal, BeginVerification, CheckpointNames,
     Rebuild, RebuildFails, Execute, CandidateEdit, Observe, EvidenceUnreadable,
     AbandonVerification, DamageObject, ReplaceExecutable, RetainObjects, ReconcileRows,
     InterruptAbandoned, memory
<1>10. QED
  BY <1>1, <1>5, <1>6, <1>7, <1>8, <1>9, Zenon DEF RunNext

\* The findings of a verification are outcomes, and passed only while the
\* executable passes for the attested one.
LEMMA Findings ==
  ASSUME verifier \in Verifiers, NEW cleaned \in BOOLEAN, NEW o \in Reported(Observed(cleaned))
  PROVE  /\ o \in Outcomes \cup {NoRecord}
         /\ o = "passed" => exe # "replaced"
<1>1. verifier.ended \in Outcomes \cup {NoRecord}
  BY DEF Verifiers
<1>2. Observed(cleaned) \in {"process_failed", "candidate_mutated", verifier.ended}
  BY DEF Observed
<1>3. Observed(cleaned) = "passed" => exe # "replaced"
  BY DEF Observed, Attests
<1>4. o = Observed(cleaned) \/ o \in {"output_limit_exceeded", "output_rejected"}
  BY DEF Reported
<1>5. {"process_failed", "candidate_mutated", "output_limit_exceeded", "output_rejected"} \subseteq Outcomes
  BY DEF Outcomes, ProcessOutcome
<1>6. o \in Outcomes \cup {NoRecord}
  BY <1>1, <1>2, <1>4, <1>5
<1>7. o = "passed" => exe # "replaced"
  BY <1>3, <1>4
<1>8. QED
  BY <1>6, <1>7

\* The verification under way keeps its type and stays honest.
LEMMA VerifierKept ==
  ASSUME RunConstants, RunInv, RunNext
  PROVE  verifier' \in Verifiers \cup {NoRecord} /\ VerifierHonest'
<1>1. /\ verifier \in Verifiers \cup {NoRecord} /\ VerifierHonest /\ exe \in Executables
      /\ RecordTypes
  BY DEF RunInv, MemoryTypes, RootTypes
<1>2. CASE verifier' = NoRecord
  BY <1>2 DEF VerifierHonest
<1>3. ASSUME NEW q \in Runs, BeginVerification(q)
      PROVE  verifier' \in Verifiers \cup {NoRecord} /\ VerifierHonest'
  <2> DEFINE n == run[q].rev + 1
             x == [seq |-> n, candidate |-> Candidate(baseline[q], proposal[q])]
  <2>1. /\ LoadedProposal(q) /\ request' = [request EXCEPT ![q] = x] /\ exe' = exe
        /\ verifier' = [run |-> q, rev |-> n, step |-> "begun", tree |-> Unstaged,
                        ended |-> NoRecord, exe |-> exe, observed |-> NoRecord]
    BY <1>3 DEF BeginVerification
  <2>2. run[q].rev \in Nat
    BY Recorded
  <2>3. n \in Nat
    BY <2>2
  <2>4. Candidate(baseline[q], proposal[q]) \in Trees
    BY <2>1, LoadedTree, Zenon
  <2>5. x # NoRecord /\ x.seq = n
    BY <2>3, <2>4 DEF RunConstants
  <2> HIDE DEF x, n
  <2>6. request'[q] = x
    BY <1>1, <2>1 DEF RecordTypes
  <2>7. verifier' \in Verifiers
    BY <1>1, <2>1, <2>3, UnstagedIsTree DEF Verifiers
  <2>8. verifier'.run = q /\ verifier'.rev = n /\ verifier'.step = "begun" /\ verifier'.exe = exe
    BY <2>1
  <2>9. VerifierHonest'
    BY <2>1, <2>5, <2>6, <2>8 DEF VerifierHonest
  <2>10. QED
    BY <2>7, <2>9
<1>4. ASSUME verifier \in Verifiers, verifier # NoRecord, UNCHANGED <<exe, request>>,
             verifier' \in Verifiers,
             verifier'.run = verifier.run, verifier'.rev = verifier.rev,
             verifier'.exe \in {verifier.exe, exe},
             verifier'.step = "observed" /\ verifier'.ended = "passed" => verifier'.exe # "replaced"
      PROVE  verifier' \in Verifiers \cup {NoRecord} /\ VerifierHonest'
  BY <1>1, <1>4 DEF VerifierHonest
<1>5. CASE Rebuild
  <2>1. /\ verifier # NoRecord /\ Evidence(verifier.run) # NoRecord
        /\ verifier' = [verifier EXCEPT !.step = IF Attests THEN "ready" ELSE "ran",
                          !.tree = Evidence(verifier.run),
                          !.ended = IF Attests THEN NoRecord ELSE "process_failed"]
        /\ UNCHANGED <<exe, request>>
    BY <1>5 DEF Rebuild, records
  <2>2. verifier \in Verifiers /\ verifier.run \in Runs
    BY <1>1, <2>1 DEF Verifiers
  <2>3. LoadedProposal(verifier.run)
        /\ Evidence(verifier.run) = Candidate(baseline[verifier.run], proposal[verifier.run])
    BY <2>1 DEF Evidence
  <2>4. Evidence(verifier.run) \in Trees
    BY <2>2, <2>3, LoadedTree, Zenon
  <2> DEFINE step == IF Attests THEN "ready" ELSE "ran"
             ended == IF Attests THEN NoRecord ELSE "process_failed"
             t == Evidence(verifier.run)
  <2>5. step \in {"ready", "ran"} /\ ended \in Outcomes \cup {NoRecord}
    BY DEF Outcomes, ProcessOutcome
  <2>6. verifier' = [verifier EXCEPT !.step = step, !.tree = t, !.ended = ended]
    BY <2>1
  <2> HIDE DEF step, ended, t
  <2>7. verifier' \in Verifiers
    BY <2>2, <2>4, <2>5, <2>6 DEF Verifiers, t
  <2>8. /\ verifier'.run = verifier.run /\ verifier'.rev = verifier.rev
        /\ verifier'.exe = verifier.exe /\ verifier'.step # "observed"
    BY <2>2, <2>5, <2>6 DEF Verifiers
  <2>9. QED
    BY <1>4, <2>1, <2>2, <2>7, <2>8
<1>6. CASE RebuildFails
  <2>1. /\ verifier # NoRecord /\ UNCHANGED <<exe, request>>
        /\ verifier' = [verifier EXCEPT !.step = "observed", !.ended = "process_failed"]
    BY <1>6 DEF RebuildFails, records
  <2>2. verifier \in Verifiers
    BY <1>1, <2>1
  <2>3. /\ verifier' \in Verifiers /\ verifier'.run = verifier.run /\ verifier'.rev = verifier.rev
        /\ verifier'.exe = verifier.exe /\ verifier'.ended # "passed"
    BY <2>1, <2>2 DEF Verifiers, Outcomes, ProcessOutcome
  <2>4. QED
    BY <1>4, <2>1, <2>2, <2>3
<1>7. CASE Execute
  <2>1. verifier # NoRecord /\ UNCHANGED <<exe, request>>
    BY <1>7 DEF Execute, records
  <2>2. PICK o \in ProcessOutcome :
          verifier' = [verifier EXCEPT !.step = "ran", !.ended = o, !.exe = exe]
    BY <1>7 DEF Execute
  <2>3. verifier \in Verifiers /\ o \in Outcomes
    BY <1>1, <2>1 DEF Outcomes
  <2>4. /\ verifier' \in Verifiers /\ verifier'.run = verifier.run /\ verifier'.rev = verifier.rev
        /\ verifier'.exe = exe /\ verifier'.step # "observed"
    BY <1>1, <2>2, <2>3 DEF Verifiers
  <2>5. QED
    BY <1>4, <2>1, <2>3, <2>4
<1>8. CASE CandidateEdit
  <2>1. /\ verifier # NoRecord /\ UNCHANGED <<exe, request>>
        /\ verifier.step \in {"ready", "ran"}
    BY <1>8 DEF CandidateEdit, records
  <2>2. PICK t \in Trees : verifier' = [verifier EXCEPT !.tree = t]
    BY <1>8 DEF CandidateEdit
  <2>3. verifier \in Verifiers
    BY <1>1, <2>1
  <2>4. /\ verifier' \in Verifiers /\ verifier'.run = verifier.run /\ verifier'.rev = verifier.rev
        /\ verifier'.exe = verifier.exe /\ verifier'.step # "observed"
    BY <2>1, <2>2, <2>3 DEF Verifiers
  <2>5. QED
    BY <1>4, <2>1, <2>3, <2>4
<1>9. CASE Observe
  <2>1. verifier # NoRecord /\ UNCHANGED <<exe, request>>
    BY <1>9 DEF Observe, records
  <2>a. PICK cleaned \in BOOLEAN : \E o \in Reported(Observed(cleaned)) :
          verifier' = [verifier EXCEPT !.step = "observed", !.ended = o, !.observed = verifier.tree,
                                       !.exe = IF exe = "restored" THEN exe ELSE @]
    BY <1>9, Zenon DEF Observe
  <2>2. PICK o \in Reported(Observed(cleaned)) :
          verifier' = [verifier EXCEPT !.step = "observed", !.ended = o, !.observed = verifier.tree,
                                       !.exe = IF exe = "restored" THEN exe ELSE @]
    BY <2>a, Zenon
  <2>3. verifier \in Verifiers
    BY <1>1, <2>1
  <2>4. o \in Outcomes \cup {NoRecord} /\ (o = "passed" => exe # "replaced")
    BY <2>2, <2>3, Findings, Zenon
  <2>5. /\ verifier' \in Verifiers /\ verifier'.run = verifier.run /\ verifier'.rev = verifier.rev
        /\ verifier'.exe = (IF exe = "restored" THEN exe ELSE verifier.exe) /\ verifier'.ended = o
    BY <1>1, <2>2, <2>3, <2>4 DEF Verifiers
  <2>6. /\ verifier'.exe \in {verifier.exe, exe}
        /\ o = "passed" => verifier'.exe # "replaced"
    BY <1>1, <2>1, <2>4, <2>5 DEF VerifierHonest, Executables
  <2>7. QED
    BY <1>4, <2>1, <2>3, <2>5, <2>6
<1>10. CASE ReplaceExecutable
  <2>1. verifier' = verifier /\ request' = request /\ exe' \in {"replaced", "restored"}
    BY <1>10 DEF ReplaceExecutable, records, memory
  <2>2. QED
    BY <1>1, <2>1 DEF VerifierHonest
<1>11. ASSUME verifier' = verifier, exe' = exe
       PROVE  verifier' \in Verifiers \cup {NoRecord} /\ VerifierHonest'
  <2>1. ASSUME verifier # NoRecord
        PROVE  request'[verifier.run] = request[verifier.run]
    <3>1. verifier.run \in Runs
      BY <1>1, <2>1 DEF Verifiers
    <3>2. request[verifier.run] # NoRecord
      BY <1>1, <2>1 DEF VerifierHonest
    <3>3. QED
      BY <3>1, <3>2, FrozenStep, Zenon DEF EvidenceFrozen
  <2>2. QED
    BY <1>1, <1>11, <2>1 DEF VerifierHonest
<1>12. ASSUME CompleteVerification \/ EvidenceUnreadable \/ AbandonVerification \/ RuntimeDies
       PROVE  verifier' = NoRecord
  BY <1>12, Zenon DEF CompleteVerification, EvidenceUnreadable, AbandonVerification, RuntimeDies
<1>13. ASSUME \/ \E q \in Runs : \/ CreateRun(q) \/ GetRun(q) \/ CompareAndTransition(q)
                                 \/ ProviderConfiguration(q) \/ StageOpen(q) \/ StageCopy(q)
                                 \/ StageSeal(q) \/ StageFails(q) \/ StageEdit(q)
                                 \/ InspectProposal(q) \/ RecordBaseline(q) \/ RecordNoChanges(q)
                                 \/ RecordExactProposal(q)
              \/ CheckpointNames \/ DamageObject \/ RetainObjects \/ ReconcileRows
              \/ InterruptAbandoned
       PROVE  verifier' = verifier /\ exe' = exe
  BY <1>13, Zenon DEF CreateRun, GetRun, CompareAndTransition, ProviderConfiguration, StageOpen,
     StageCopy, StageSeal, StageFails, StageEdit, InspectProposal, RecordBaseline, RecordNoChanges,
     RecordExactProposal, CheckpointNames, DamageObject, RetainObjects, ReconcileRows,
     InterruptAbandoned, memory
<1>14. QED
  BY <1>2, <1>3, <1>5, <1>6, <1>7, <1>8, <1>9, <1>10, <1>11, <1>12, <1>13, Zenon DEF RunNext

-----------------------------------------------------------------------------
(* Processes                                                                 *)

\* Bounds, the damaged objects and the processes keep their types.
LEMMA RootTypesKept ==
  ASSUME RunConstants, RunInv, RunNext
  PROVE  RootTypes'
<1>1. RootTypes
  BY DEF RunInv
<1>2. ASSUME NEW q \in Runs, CreateRun(q) PROVE RootTypes'
  BY <1>1, <1>2 DEF CreateRun, RootTypes, store
<1>3. ASSUME NEW q \in Runs, StageCopy(q) \/ StageSeal(q) \/ InspectProposal(q) PROVE RootTypes'
  <2>1. objects \subseteq objects' /\ UNCHANGED <<damaged, exe, root, epoch, born, edits>>
    BY <1>3 DEF StageCopy, StageSeal, InspectProposal
  <2>2. QED
    BY <1>1, <2>1 DEF RootTypes
<1>4. ASSUME (\E q \in Runs : StageEdit(q)) \/ CandidateEdit PROVE RootTypes'
  <2>1. /\ edits < MaxChanges /\ edits' = edits + 1
        /\ UNCHANGED <<objects, damaged, exe, root, epoch, born>>
    BY <1>4 DEF StageEdit, CandidateEdit, store
  <2>2. QED
    BY <1>1, <2>1 DEF RootTypes, RunConstants
<1>5. CASE ReplaceExecutable
  <2>1. /\ edits < MaxChanges /\ edits' = edits + 1 /\ exe' \in {"replaced", "restored"}
        /\ UNCHANGED <<objects, damaged, root, epoch, born>>
    BY <1>5 DEF ReplaceExecutable, store
  <2>2. QED
    BY <1>1, <2>1 DEF RootTypes, RunConstants, Executables
<1>6. CASE DamageObject
  BY <1>1, <1>6 DEF DamageObject, RootTypes
<1>7. CASE RuntimeDies
  BY <1>1, <1>7 DEF RuntimeDies, RootTypes, store, Roots
<1>8. CASE RetainObjects
  BY <1>1, <1>8 DEF RetainObjects, RootTypes, Roots, RunConstants
<1>9. CASE ReconcileRows
  BY <1>1, <1>9 DEF ReconcileRows, RootTypes, Roots
<1>10. CASE InterruptAbandoned
  BY <1>1, <1>10 DEF InterruptAbandoned, RootTypes, Roots, store
<1>11. ASSUME \/ \E q \in Runs : \/ GetRun(q) \/ CompareAndTransition(q) \/ ProviderConfiguration(q)
                                 \/ StageOpen(q) \/ StageFails(q) \/ RecordBaseline(q)
                                 \/ RecordNoChanges(q) \/ RecordExactProposal(q)
                                 \/ BeginVerification(q)
              \/ CheckpointNames \/ Rebuild \/ RebuildFails \/ Execute \/ Observe
              \/ CompleteVerification \/ EvidenceUnreadable \/ AbandonVerification
       PROVE  UNCHANGED <<objects, damaged, exe, root, epoch, born, edits>>
  BY <1>11, Zenon DEF GetRun, CompareAndTransition, ProviderConfiguration, StageOpen, StageFails,
     RecordBaseline, RecordNoChanges, RecordExactProposal, BeginVerification, CheckpointNames,
     Rebuild, RebuildFails, Execute, Observe, CompleteVerification, EvidenceUnreadable,
     AbandonVerification, store
<1>12. ASSUME UNCHANGED <<objects, damaged, exe, root, epoch, born, edits>> PROVE RootTypes'
  BY <1>1, <1>12 DEF RootTypes
<1>13. QED
  BY <1>2, <1>3, <1>4, <1>5, <1>6, <1>7, <1>8, <1>9, <1>10, <1>11, <1>12, Zenon DEF RunNext

\* Only its creation makes a run present.
LEMMA Presence ==
  ASSUME RunInv, RunNext, NEW r \in Runs
  PROVE  CreateRun(r) \/ (run'[r].state = "absent" <=> run[r].state = "absent")
<1>1. CASE Stays(r)
  BY <1>1, Zenon DEF Stays
<1>2. CASE Created(r)
  BY <1>2, Zenon DEF Created
<1>3. CASE Configured(r)
  <2>1. run'[r].state = "running" /\ run[r].state = "running"
    BY <1>3, ConfiguredRecord, Zenon DEF Configured
  <2>2. QED
    BY <2>1
<1>4. ASSUME NEW to \in RunState, NEW trust \in Trusts, MovedTo(r, to, trust)
      PROVE  run'[r].state = "absent" <=> run[r].state = "absent"
  <2>1. run'[r].state = to /\ run[r].state # "absent"
    BY <1>4, MovedRecord, Zenon
  <2>2. to # "absent"
    BY DEF RunState
  <2>3. QED
    BY <2>1, <2>2, Zenon
<1>5. QED
  BY <1>1, <1>2, <1>3, <1>4, RunSteps, Zenon DEF RunStep

\* Who gives a birth, a root or an epoch.
LEMMA BirthSteps ==
  ASSUME RunNext
  PROVE  /\ born' = born \/ \E q \in Runs : CreateRun(q)
         /\ epoch' = epoch \/ RetainObjects
         /\ root' = root \/ RuntimeDies \/ RetainObjects \/ ReconcileRows \/ InterruptAbandoned
<1>1. CASE Touchless
  <2>1. born' = born
    BY <1>1, TouchlessSteps, Zenon
  <2>2. /\ epoch' = epoch \/ RetainObjects
        /\ root' = root \/ RuntimeDies \/ RetainObjects \/ ReconcileRows
    BY <1>1, Zenon DEF Touchless, GetRun, StageOpen, StageCopy, StageSeal, StageFails, StageEdit,
       InspectProposal, CheckpointNames, Rebuild, RebuildFails, Execute, CandidateEdit, Observe,
       EvidenceUnreadable, AbandonVerification, DamageObject, ReplaceExecutable, RuntimeDies,
       ReconcileRows
  <2>3. QED
    BY <2>1, <2>2, Zenon
<1>2. ASSUME NEW q \in Runs, \/ CreateRun(q) \/ CompareAndTransition(q) \/ ProviderConfiguration(q)
                             \/ RecordBaseline(q) \/ RecordNoChanges(q) \/ RecordExactProposal(q)
                             \/ BeginVerification(q)
      PROVE  /\ born' = born \/ CreateRun(q)
             /\ epoch' = epoch /\ root' = root
  BY <1>2, Zenon DEF CreateRun, CompareAndTransition, ProviderConfiguration, RecordBaseline,
     RecordNoChanges, RecordExactProposal, BeginVerification
<1>3. CASE CompleteVerification
  BY <1>3, Zenon DEF CompleteVerification
<1>4. CASE InterruptAbandoned
  BY <1>4, Zenon DEF InterruptAbandoned
<1>5. QED
  BY <1>1, <1>2, <1>3, <1>4, RunNextCases, Zenon

\* The birth of a run changes when it is created, and then it is now.
LEMMA BirthOf ==
  ASSUME RunInv, RunNext, NEW r \in Runs
  PROVE  IF CreateRun(r) THEN /\ born'[r] = epoch /\ epoch' = epoch
                              /\ run'[r].state # "absent"
                         ELSE born'[r] = born[r]
<1>1. born \in [Runs -> Nat] /\ run \in [Runs -> RunRecords]
  BY DEF RunInv, RootTypes, RecordTypes
<1>2. CASE CreateRun(r)
  BY <1>1, <1>2 DEF CreateRun, Absent
<1>3. ASSUME NEW q \in Runs, CreateRun(q), ~CreateRun(r) PROVE born'[r] = born[r]
  <2>1. q # r
    BY <1>3, Zenon
  <2>2. born' = [born EXCEPT ![q] = epoch]
    BY <1>3 DEF CreateRun
  <2>3. QED
    BY <1>1, <2>1, <2>2
<1>4. CASE born' = born /\ ~CreateRun(r)
  BY <1>4, Zenon
<1>5. QED
  BY <1>2, <1>3, <1>4, BirthSteps, Zenon

\* Runs were created by this process or an earlier one.
LEMMA BirthsKept ==
  ASSUME RunInv, RunNext
  PROVE  Births'
<1>1. SUFFICES ASSUME NEW r \in Runs
               PROVE  born'[r] <= epoch' /\ (born'[r] = 0 <=> run'[r].state = "absent")
  BY DEF Births
<1>2. /\ born[r] <= epoch /\ (born[r] = 0 <=> run[r].state = "absent")
      /\ born[r] \in Nat /\ epoch \in Nat /\ 1 <= epoch
  BY DEF RunInv, RootTypes, Births
<1>3. epoch <= epoch'
  <2>1. RetainObjects => epoch' = epoch + 1
    BY DEF RetainObjects
  <2>2. epoch' = epoch \/ RetainObjects
    BY BirthSteps, Zenon
  <2>3. QED
    BY <1>2, <2>1, <2>2
<1>4. epoch' \in Nat
  <2>1. RetainObjects => epoch' = epoch + 1
    BY DEF RetainObjects
  <2>2. epoch' = epoch \/ RetainObjects
    BY BirthSteps, Zenon
  <2>3. QED
    BY <1>2, <2>1, <2>2
<1>5. CASE CreateRun(r)
  <2>1. born'[r] = epoch /\ epoch' = epoch /\ run'[r].state # "absent"
    BY <1>5, BirthOf, Zenon
  <2>2. QED
    BY <1>2, <2>1
<1>6. CASE ~CreateRun(r)
  <2>1. born'[r] = born[r] /\ (run'[r].state = "absent" <=> run[r].state = "absent")
    BY <1>6, BirthOf, Presence, Zenon
  <2>2. QED
    BY <1>2, <1>3, <1>4, <2>1
<1>7. QED
  BY <1>5, <1>6

\* A process that serves has settled the runs of the processes before it.
LEMMA RestartSettlesKept ==
  ASSUME RunInv, RunNext
  PROVE  RestartSettles'
<1>1. SUFFICES ASSUME root' = "serving", NEW r \in Runs, born'[r] \in 1 .. (epoch' - 1)
               PROVE  run'[r].state \in Terminal
  BY DEF RestartSettles
<1>2. born[r] \in Nat /\ epoch \in Nat /\ (born[r] = 0 <=> run[r].state = "absent")
  BY DEF RunInv, RootTypes, Births
<1>3. CASE InterruptAbandoned
  <2>1. epoch' = epoch /\ born' = born
    BY <1>3 DEF InterruptAbandoned
  <2>2. run[r].state # "absent"
    BY <1>1, <1>2, <2>1
  <2>3. CASE r \in Abandoned
    <3>1. run'[r] = [run[r] EXCEPT !.state = "interrupted", !.rev = @ + 1]
      BY <1>3, <2>3 DEF InterruptAbandoned
    <3>2. run[r] = [state |-> run[r].state, rev |-> run[r].rev, failure |-> run[r].failure,
                    observed |-> run[r].observed]
      BY Recorded, Zenon
    <3>3. run'[r].state = "interrupted"
      BY <3>1, <3>2
    <3>4. QED
      BY <3>3 DEF Terminal
  <2>4. CASE r \notin Abandoned
    <3>1. run'[r] = run[r]
      BY <1>3, <2>4 DEF InterruptAbandoned
    <3>2. QED
      BY <2>2, <2>4, <3>1 DEF Abandoned
  <2>5. QED
    BY <2>3, <2>4
<1>4. CASE ~InterruptAbandoned
  <2>1. ~RuntimeDies /\ ~RetainObjects /\ ~ReconcileRows
    BY <1>1 DEF RuntimeDies, RetainObjects, ReconcileRows
  <2>2. root = "serving" /\ epoch' = epoch
    BY <1>1, <1>4, <2>1, BirthSteps, Zenon
  <2>3. ~CreateRun(r)
    <3>1. CreateRun(r) => born'[r] = epoch
      BY BirthOf, Zenon
    <3>2. QED
      BY <1>1, <1>2, <2>2, <3>1
  <2>4. born'[r] = born[r]
    BY <2>3, BirthOf, Zenon
  <2>5. run[r].state \in Terminal
    BY <1>1, <2>2, <2>4 DEF RunInv, RestartSettles
  <2>6. run'[r] = run[r]
    BY <2>5, FrozenStep, Zenon DEF EvidenceFrozen
  <2>7. QED
    BY <2>5, <2>6
<1>5. QED
  BY <1>3, <1>4

-----------------------------------------------------------------------------
(* Records stay loadable                                                     *)

\* What a log says is never taken back.
LEMMA LogGrows ==
  ASSUME RunInv, RunNext, NEW r \in Runs, ~CreateRun(r), NEW i \in DOMAIN log[r]
  PROVE  i \in DOMAIN log'[r] /\ log'[r][i] = log[r][i]
<1>1. log[r] \in Seq(LogEntries)
  BY Recorded, Zenon
<1>2. ASSUME NEW e \in LogEntries, log'[r] = Append(log[r], e)
      PROVE  i \in DOMAIN log'[r] /\ log'[r][i] = log[r][i]
  <2>1. /\ Len(log[r]) \in Nat /\ DOMAIN log[r] = 1 .. Len(log[r])
        /\ DOMAIN Append(log[r], e) = 1 .. Len(log[r]) + 1
        /\ \A j \in 1 .. Len(log[r]) : Append(log[r], e)[j] = log[r][j]
    BY <1>1, AppendedLog
  <2>2. QED
    BY <1>2, <2>1
<1>3. CASE Stays(r)
  BY <1>3, Zenon DEF Stays
<1>4. CASE Configured(r)
  <2>1. [kind |-> "observed"] \in LogEntries /\ log'[r] = Append(log[r], [kind |-> "observed"])
    BY <1>4, ConfiguredRecord, Zenon DEF Configured
  <2>2. QED
    BY <1>2, <2>1, Zenon
<1>5. ASSUME NEW to \in RunState, NEW trust \in Trusts, MovedTo(r, to, trust)
      PROVE  i \in DOMAIN log'[r] /\ log'[r][i] = log[r][i]
  <2> DEFINE e == [kind |-> "moved", from |-> run[r].state, to |-> to, trust |-> trust]
  <2>1. e \in LogEntries
    BY <1>5 DEF MovedTo, LogEntries, Moved
  <2>2. log'[r] = Append(log[r], e)
    BY <1>5 DEF MovedTo
  <2>3. QED
    BY <1>2, <2>1, <2>2, Zenon
<1>6. ~Created(r)
  BY Zenon DEF Created
<1>7. QED
  BY <1>3, <1>4, <1>5, <1>6, RunSteps, Zenon DEF RunStep

\* The entry that a move appends is at the new revision.
LEMMA LastEntry ==
  ASSUME RunInv, NEW r \in Runs, NEW to \in RunState, NEW trust \in Trusts,
         MovedTo(r, to, trust)
  PROVE  /\ run[r].rev + 1 \in DOMAIN log'[r]
         /\ log'[r][run[r].rev + 1] =
              [kind |-> "moved", from |-> run[r].state, to |-> to, trust |-> trust]
<1> DEFINE e == [kind |-> "moved", from |-> run[r].state, to |-> to, trust |-> trust]
<1>1. e \in LogEntries /\ run[r].state # "absent"
  BY DEF MovedTo, LogEntries, Moved, RunState
<1>2. log'[r] = Append(log[r], e)
  BY DEF MovedTo
<1> HIDE DEF e
<1>3. log[r] \in Seq(LogEntries) /\ ReplaysTo(log[r], run[r])
  BY <1>1, Recorded, Zenon
<1>4. Len(log[r]) = run[r].rev
  BY <1>3, Zenon DEF ReplaysTo
<1>5. /\ Len(log[r]) \in Nat /\ DOMAIN Append(log[r], e) = 1 .. Len(log[r]) + 1
      /\ Append(log[r], e)[Len(log[r]) + 1] = e
  BY <1>1, <1>3, AppendedLog
<1>6. run[r].rev + 1 \in DOMAIN log'[r] /\ log'[r][run[r].rev + 1] = e
  BY <1>2, <1>4, <1>5
<1>7. QED
  BY <1>6 DEF e

\* A proposal whose names are registered is stored.
LEMMA Storable ==
  ASSUME RunInv, RunNext, NEW r \in Runs, baseline'[r] # NoRecord, proposal'[r] # NoRecord,
         inspection'[r] = "exact"
  PROVE  StoredProposal(r)'
<1>1. NamedIn(registered)'
  BY NamedKept, Zenon DEF Named
<1>2. BaselineIds(baseline'[r]) \subseteq registered'
      /\ ProposalIds(baseline'[r], proposal'[r]) \subseteq registered'
  BY <1>1 DEF NamedIn
<1>3. {Manifest(baseline'[r]), Preconditions(baseline'[r])} \subseteq BaselineIds(baseline'[r])
  BY DEF BaselineIds
<1>4. QED
  BY <1>2, <1>3 DEF StoredProposal, StoredBaseline, StoredHeader, Registered

\* A stored request keeps its evidence.
LEMMA EvidenceKept ==
  ASSUME RunConstants, RunInv, RunNext, NEW r \in Runs, request[r] # NoRecord
  PROVE  /\ request'[r] = request[r] /\ baseline'[r] = baseline[r] /\ proposal'[r] = proposal[r]
         /\ inspection'[r] = "exact" /\ baseline[r] # NoRecord /\ proposal[r] # NoRecord
         /\ request[r].candidate = Candidate(baseline[r], proposal[r])
         /\ StartedBy(r)
<1>1. StoredRequest(r)
  BY Zenon DEF RunInv, RecordsLoad
<1>2. /\ StoredProposal(r) /\ StartedBy(r)
      /\ request[r].candidate = Candidate(baseline[r], proposal[r])
  BY <1>1, Zenon DEF StoredRequest, RequestMatches
<1>3. baseline[r] # NoRecord /\ proposal[r] # NoRecord /\ inspection[r] = "exact"
  BY <1>2, Zenon DEF StoredProposal, StoredBaseline, StoredHeader
<1>4. inspection[r] # NoRecord
  BY <1>3 DEF RunConstants
<1>5. /\ baseline'[r] = baseline[r] /\ inspection'[r] = inspection[r]
      /\ proposal'[r] = proposal[r] /\ request'[r] = request[r]
  BY <1>3, <1>4, FrozenStep, Zenon DEF EvidenceFrozen
<1>6. QED
  BY <1>2, <1>3, <1>5, Zenon

\* Requests stay loadable.
LEMMA RequestsLoad ==
  ASSUME RunConstants, RunInv, RunNext, NEW r \in Runs, request'[r] # NoRecord
  PROVE  StoredRequest(r)'
<1>1. Replays(r)' /\ ~CreateRun(r)
  <2>1. run'[r].state \notin Early
    BY NotYetRequestedKept, Zenon DEF NotYetRequested
  <2>2. run'[r].state # "absent" /\ run'[r].state # "prepared"
    BY <2>1 DEF Early
  <2>3. Replays(r)'
    BY <2>2, LoggedKept, Zenon DEF Logged
  <2>4. CreateRun(r) => run'[r].state = "prepared"
    <3>1. run \in [Runs -> RunRecords]
      BY DEF RunInv, RecordTypes
    <3>2. QED
      BY <3>1 DEF CreateRun, Absent
  <2>5. QED
    BY <2>2, <2>3, <2>4, Zenon
<1>2. CASE request[r] # NoRecord
  <2>1. /\ request'[r] = request[r] /\ baseline'[r] = baseline[r] /\ proposal'[r] = proposal[r]
        /\ inspection'[r] = "exact" /\ baseline[r] # NoRecord /\ proposal[r] # NoRecord
        /\ request[r].candidate = Candidate(baseline[r], proposal[r])
        /\ StartedBy(r)
    BY <1>2, EvidenceKept, Zenon
  <2>2. StoredProposal(r)'
    BY <2>1, Storable, Zenon
  <2>3. request'[r].candidate = Candidate(baseline'[r], proposal'[r])
    BY <2>1, Zenon
  <2>4. /\ request[r].seq \in DOMAIN log'[r]
        /\ log'[r][request[r].seq] = log[r][request[r].seq]
    BY <1>1, <2>1, LogGrows, Zenon DEF StartedBy
  <2>5. StartedBy(r)'
    BY <2>1, <2>4, Zenon DEF StartedBy
  <2>6. QED
    BY <1>1, <2>2, <2>3, <2>5, Zenon DEF StoredRequest, RequestMatches
<1>3. CASE request[r] = NoRecord
  <2>1. BeginVerification(r)
    <3>1. ASSUME NEW q \in Runs, BeginVerification(q) PROVE q = r
      BY <1>3, <3>1 DEF BeginVerification, RunInv, RecordTypes
    <3>2. ASSUME \/ UNCHANGED records \/ CompleteVerification
                 \/ \E q \in Runs : RecordBaseline(q) \/ RecordNoChanges(q) \/ RecordExactProposal(q)
          PROVE  request' = request
      BY <3>2, Zenon DEF records, CompleteVerification, RecordBaseline, RecordNoChanges,
         RecordExactProposal
    <3>3. QED
      BY <1>3, <3>1, <3>2, RecordCases, Zenon
  <2> DEFINE x == [seq |-> run[r].rev + 1, candidate |-> Candidate(baseline[r], proposal[r])]
  <2>2. /\ LoadedProposal(r) /\ run[r].state = "inspecting"
        /\ Transition(r, run[r].state, run[r].rev, "verifying", "state")
        /\ request' = [request EXCEPT ![r] = x]
        /\ UNCHANGED <<baseline, inspection, proposal>>
    BY <2>1 DEF BeginVerification, Current
  <2>3. request'[r] = x
    BY <2>2 DEF RunInv, RecordTypes
  <2>4. request'[r].seq = run[r].rev + 1
        /\ request'[r].candidate = Candidate(baseline[r], proposal[r])
    BY <2>3
  <2> HIDE DEF x
  <2>5. baseline[r] # NoRecord /\ proposal[r] # NoRecord /\ inspection[r] = "exact"
    BY <2>2, LoadedTree, Zenon
  <2>6. StoredProposal(r)'
    BY <2>2, <2>5, Storable, Zenon
  <2>7. /\ run[r].state \in RunState \ Terminal /\ "verifying" \in RunState
        /\ "verifying" \notin Early /\ "verifying" # "promoted"
        /\ "verifying" # "awaiting_promotion_approval"
        /\ "state" \in Trusts
    BY <2>2 DEF RunState, Terminal, Early, Trusts
  <2>8. MovedTo(r, "verifying", "state")
    BY <2>2, <2>7, TransitionSteps, Zenon
  <2>9. /\ run[r].rev + 1 \in DOMAIN log'[r]
        /\ log'[r][run[r].rev + 1] = [kind |-> "moved", from |-> run[r].state,
                                      to |-> "verifying", trust |-> "state"]
    BY <2>7, <2>8, LastEntry, Zenon
  <2>10. StartedBy(r)'
    BY <2>2, <2>4, <2>9, Zenon DEF StartedBy
  <2>11. QED
    BY <1>1, <2>2, <2>4, <2>6, <2>10, Zenon DEF StoredRequest, RequestMatches
<1>4. QED
  BY <1>2, <1>3

\* What a completion stores.
LEMMA Completion ==
  ASSUME RunInv, CompleteVerification
  PROVE  LET r == verifier.run IN
         /\ r \in Runs /\ result[r] = NoRecord /\ request[r] # NoRecord
         /\ result'[r] = [seq |-> run[r].rev + 1, outcome |-> verifier.ended,
                          observed |-> verifier.observed, exe |-> verifier.exe]
         /\ \A q \in Runs : q # r => result'[q] = result[q]
         /\ verifier.ended = "passed" => verifier.observed = request[r].candidate
         /\ request[r].seq = run[r].rev
         /\ verifier.ended = "passed" => verifier.exe # "replaced"
         /\ run'[r].state = NextState(verifier.ended)
         /\ MovedTo(r, NextState(verifier.ended), "verification")
         /\ NextState(verifier.ended) \in RunState /\ run[r].state = "verifying"
<1> DEFINE r == verifier.run
           x == [seq |-> run[r].rev + 1, outcome |-> verifier.ended,
                 observed |-> verifier.observed, exe |-> verifier.exe]
           to == NextState(verifier.ended)
<1>1. /\ verifier # NoRecord /\ verifier.step = "observed" /\ run[r].state = "verifying"
      /\ run[r].rev = verifier.rev /\ result[r] = NoRecord
      /\ verifier.ended = "passed" => verifier.observed = request[r].candidate
      /\ result' = [result EXCEPT ![r] = x]
      /\ Transition(r, run[r].state, run[r].rev, to, "verification")
  BY DEF CompleteVerification
<1>2. r \in Runs /\ result \in [Runs -> Results \cup {NoRecord}] /\ run \in [Runs -> RunRecords]
  BY <1>1 DEF RunInv, MemoryTypes, RecordTypes, Verifiers
<1>3. /\ request[r] # NoRecord /\ request[r].seq = run[r].rev
      /\ verifier.ended = "passed" => verifier.exe # "replaced"
  BY <1>1 DEF RunInv, VerifierHonest
<1>4. to \in {"awaiting_promotion_approval", "cancelled", "failed"}
  BY DEF NextState
<1>5. /\ run[r].state \in RunState \ Terminal /\ to \in RunState /\ to \notin Early
      /\ to # "promoted" /\ "verification" \in Trusts
  BY <1>1, <1>4 DEF RunState, Terminal, Early, Trusts
<1> HIDE DEF to, x
<1>6. result'[r] = x /\ \A q \in Runs : q # r => result'[q] = result[q]
  BY <1>1, <1>2
<1>7. MovedTo(r, to, "verification")
  BY <1>1, <1>2, <1>5, TransitionSteps, Zenon
<1>8. run'[r].state = to
  BY <1>2, <1>5, <1>7, MovedRecord, Zenon
<1>9. QED
  BY <1>1, <1>2, <1>3, <1>5, <1>6, <1>7, <1>8, Zenon DEF to, x

\* Results stay loadable.
LEMMA ResultsLoad ==
  ASSUME RunConstants, RunInv, RunNext, NEW r \in Runs, result'[r] # NoRecord
  PROVE  StoredResult(r)'
<1>1. CASE result[r] # NoRecord
  <2>1. StoredResult(r)
    BY <1>1, Zenon DEF RunInv, RecordsLoad
  <2>2. /\ request[r] # NoRecord
        /\ result[r].outcome = "passed" => result[r].observed = request[r].candidate
        /\ CompletedBy(r)
    BY <2>1, Zenon DEF StoredResult, ResultMatches, StoredRequest, RequestMatches
  <2>3. result'[r] = result[r] /\ request'[r] = request[r]
    BY <1>1, <2>2, FrozenStep, Zenon DEF EvidenceFrozen
  <2>4. StoredRequest(r)'
    BY <2>2, <2>3, RequestsLoad, Zenon
  <2>5. ~CreateRun(r)
    <3>1. run[r].state # "absent"
      BY <2>2 DEF RunInv, NotYetRequested, Early
    <3>2. QED
      BY <3>1, Zenon DEF CreateRun
  <2>6. result[r].seq \in DOMAIN log'[r] /\ log'[r][result[r].seq] = log[r][result[r].seq]
    BY <2>2, <2>5, LogGrows, Zenon DEF CompletedBy
  <2>7. CompletedBy(r)'
    BY <2>2, <2>3, <2>6, Zenon DEF CompletedBy
  <2>8. QED
    BY <1>1, <2>2, <2>3, <2>4, <2>7, Zenon DEF StoredResult, ResultMatches
<1>2. CASE result[r] = NoRecord
  <2>1. CompleteVerification
    <3>1. ASSUME \/ UNCHANGED records
                 \/ \E q \in Runs : \/ RecordBaseline(q) \/ RecordNoChanges(q)
                                    \/ RecordExactProposal(q) \/ BeginVerification(q)
          PROVE  result' = result
      BY <3>1, Zenon DEF records, RecordBaseline, RecordNoChanges, RecordExactProposal,
         BeginVerification
    <3>2. QED
      BY <1>2, <3>1, RecordCases, Zenon
  <2>2. r = verifier.run
    BY <1>2, <2>1, Completion, Zenon
  <2> DEFINE to == NextState(verifier.ended)
  <2>3. /\ result'[r] = [seq |-> run[r].rev + 1, outcome |-> verifier.ended,
                         observed |-> verifier.observed, exe |-> verifier.exe]
        /\ verifier.ended = "passed" => verifier.observed = request[r].candidate
        /\ request[r] # NoRecord /\ MovedTo(r, to, "verification") /\ to \in RunState
        /\ run[r].state = "verifying"
    BY <2>1, <2>2, Completion, Zenon
  <2>4. /\ result'[r].seq = run[r].rev + 1 /\ result'[r].outcome = verifier.ended
        /\ result'[r].observed = verifier.observed
    BY <2>3
  <2>5. request' = request
    BY <2>1, Zenon DEF CompleteVerification
  <2>6. StoredRequest(r)'
    BY <2>3, <2>5, RequestsLoad, Zenon
  <2>7. "verification" \in Trusts
    BY DEF Trusts
  <2>8. /\ run[r].rev + 1 \in DOMAIN log'[r]
        /\ log'[r][run[r].rev + 1] = [kind |-> "moved", from |-> run[r].state,
                                      to |-> to, trust |-> "verification"]
    BY <2>3, <2>7, LastEntry, Zenon
  <2>9. CompletedBy(r)'
    BY <2>3, <2>4, <2>8, Zenon DEF CompletedBy
  <2>10. ResultMatches(r)'
    BY <2>3, <2>4, <2>5, <2>6, Zenon DEF ResultMatches
  <2>11. QED
    BY <2>9, <2>10, Zenon DEF StoredResult
<1>3. QED
  BY <1>1, <1>2

\* Requests and results stay loadable.
LEMMA RecordsLoadKept ==
  ASSUME RunConstants, RunInv, RunNext
  PROVE  RecordsLoad'
<1>1. \A r \in Runs : request'[r] # NoRecord => StoredRequest(r)'
  BY RequestsLoad, Zenon
<1>2. \A r \in Runs : result'[r] # NoRecord => StoredResult(r)'
  BY ResultsLoad, Zenon
<1>3. QED
  BY <1>1, <1>2, Zenon DEF RecordsLoad

-----------------------------------------------------------------------------
(* Promotion                                                                 *)

\* Only a run that was verified awaits promotion or is promoted.
LEMMA PromotionKept ==
  ASSUME RunConstants, RunInv, RunNext
  PROVE  PromotionVerified'
<1> DEFINE Verified == {"awaiting_promotion_approval", "promoted"}
<1>1. SUFFICES ASSUME NEW r \in Runs, run'[r].state \in Verified
               PROVE  /\ result'[r] # NoRecord /\ result'[r].outcome = "passed"
                      /\ result'[r].exe # "replaced"
                      /\ result'[r].observed = Candidate(baseline'[r], proposal'[r])
                      /\ result'[r].seq = request'[r].seq + 1 /\ StoredResult(r)'
  BY Zenon DEF PromotionVerified
<1>2. ASSUME run[r].state \in Verified
      PROVE  /\ result'[r] # NoRecord /\ result'[r].outcome = "passed"
             /\ result'[r].exe # "replaced"
             /\ result'[r].observed = Candidate(baseline'[r], proposal'[r])
             /\ result'[r].seq = request'[r].seq + 1 /\ StoredResult(r)'
  <2>1. /\ result[r] # NoRecord /\ result[r].outcome = "passed" /\ result[r].exe # "replaced"
        /\ result[r].observed = Candidate(baseline[r], proposal[r])
        /\ result[r].seq = request[r].seq + 1 /\ StoredResult(r)
    BY <1>2, Zenon DEF RunInv, PromotionVerified
  <2>2. request[r] # NoRecord
    BY <2>1, Zenon DEF StoredResult, ResultMatches, StoredRequest, RequestMatches
  <2>3. request'[r] = request[r] /\ baseline'[r] = baseline[r] /\ proposal'[r] = proposal[r]
    BY <2>2, EvidenceKept, Zenon
  <2>4. result'[r] = result[r]
    BY <2>1, FrozenStep, Zenon DEF EvidenceFrozen
  <2>5. StoredResult(r)'
    BY <2>1, <2>4, ResultsLoad, Zenon
  <2>6. QED
    BY <2>1, <2>3, <2>4, <2>5, Zenon
<1>3. CASE CompleteVerification /\ verifier.run = r
  <2>1. /\ result'[r] = [seq |-> run[r].rev + 1, outcome |-> verifier.ended,
                         observed |-> verifier.observed, exe |-> verifier.exe]
        /\ verifier.ended = "passed" => verifier.observed = request[r].candidate
        /\ verifier.ended = "passed" => verifier.exe # "replaced"
        /\ request[r] # NoRecord /\ request[r].seq = run[r].rev
        /\ run'[r].state = NextState(verifier.ended)
    BY <1>3, Completion, Zenon
  <2>2. verifier.ended = "passed"
    BY <1>1, <2>1 DEF NextState
  <2>3. /\ request'[r] = request[r] /\ baseline'[r] = baseline[r] /\ proposal'[r] = proposal[r]
        /\ request[r].candidate = Candidate(baseline[r], proposal[r])
    BY <2>1, EvidenceKept, Zenon
  <2>4. run[r].rev \in Nat /\ verifier \in Verifiers
    <3>1. run[r].rev \in Nat
      BY Recorded, Zenon
    <3>2. verifier # NoRecord
      BY <1>3 DEF CompleteVerification
    <3>3. QED
      BY <3>1, <3>2 DEF RunInv, MemoryTypes
  <2>5. result'[r] # NoRecord
    <3>1. run[r].rev + 1 \in Nat
      BY <2>4
    <3>2. result'[r] \in Results
      BY <2>1, <2>4, <3>1 DEF Verifiers, Results
    <3>3. QED
      BY <3>2 DEF RunConstants, Results
  <2>6. /\ result'[r].outcome = "passed" /\ result'[r].exe # "replaced"
        /\ result'[r].observed = request[r].candidate
        /\ result'[r].seq = request[r].seq + 1
    BY <2>1, <2>2
  <2>7. StoredResult(r)'
    BY <2>5, ResultsLoad, Zenon
  <2>8. QED
    BY <2>3, <2>5, <2>6, <2>7, Zenon
<1>4. run[r].state \in Verified \/ (CompleteVerification /\ verifier.run = r)
  <2>1. CASE Stays(r)
    BY <1>1, <2>1, Zenon DEF Stays
  <2>2. ~Created(r) /\ ~Configured(r)
    <3>1. Created(r) => run'[r].state = "prepared"
      BY CreatedRecord, Zenon
    <3>2. Configured(r) => run'[r].state = "running"
      BY ConfiguredRecord, Zenon
    <3>3. QED
      BY <1>1, <3>1, <3>2
  <2>3. ASSUME NEW to \in RunState, NEW trust \in Trusts, MovedTo(r, to, trust)
        PROVE  run[r].state \in Verified \/ (CompleteVerification /\ verifier.run = r)
    <3>1. run'[r].state = to
      BY <2>3, MovedRecord, Zenon
    <3>2. CASE to = "promoted"
      BY <2>3, <3>2, Zenon DEF MovedTo
    <3>3. CASE to = "awaiting_promotion_approval"
      BY <2>3, <3>3, Zenon DEF MovedTo
    <3>4. QED
      BY <1>1, <3>1, <3>2, <3>3, Zenon
  <2>4. QED
    BY <2>1, <2>2, <2>3, RunSteps, Zenon DEF RunStep
<1>5. QED
  BY <1>2, <1>3, <1>4, Zenon

-----------------------------------------------------------------------------
(* The theorems                                                              *)

\* The invariant holds before anything happened.
LEMMA RunInvInit ==
  ASSUME RunConstants, RunInit
  PROVE  RunInv
<1>1. Absent \in RunRecords /\ Absent.state = "absent"
  BY DEF Absent, RunRecords
<1>2. RecordTypes
  BY <1>1 DEF RunInit, RecordTypes
<1>3. MemoryTypes
  BY <1>1 DEF RunInit, MemoryTypes
<1>4. RootTypes
  BY DEF RunInit, RootTypes, RunConstants, Roots, Executables
<1>5. Named
  BY DEF RunInit, Named, NamedIn
<1>6. \A r \in Runs : run[r] = Absent /\ run[r].state = "absent" /\ born[r] = 0
                      /\ request[r] = NoRecord /\ result[r] = NoRecord
  BY <1>1 DEF RunInit
<1>7. \A r \in Runs : Logged(r)
  BY <1>6, Zenon DEF Logged
<1>8. NotYetRequested /\ VerifierHonest /\ RecordsLoad
  BY <1>6, Zenon DEF RunInit, NotYetRequested, VerifierHonest, RecordsLoad
<1>9. PromotionVerified
  BY <1>6 DEF PromotionVerified
<1>10. Births /\ RestartSettles
  BY <1>6 DEF RunInit, Births, RestartSettles
<1>11. QED
  BY <1>2, <1>3, <1>4, <1>5, <1>7, <1>8, <1>9, <1>10, Zenon DEF RunInv

\* Every step keeps it.
LEMMA RunInvNext ==
  ASSUME RunConstants, RunInv, RunNext
  PROVE  RunInv'
<1>1. RecordTypes' /\ RootTypes' /\ Named' /\ Births' /\ RestartSettles'
  BY RecordTypesKept, RootTypesKept, NamedKept, BirthsKept, RestartSettlesKept, Zenon
<1>2. MemoryTypes' /\ VerifierHonest'
  BY StageKept, OfferKept, SeenKept, VerifierKept, Zenon DEF MemoryTypes
<1>3. \A r \in Runs : Logged(r)'
  BY LoggedKept, Zenon
<1>4. NotYetRequested' /\ RecordsLoad' /\ PromotionVerified'
  BY NotYetRequestedKept, RecordsLoadKept, PromotionKept, Zenon
<1>5. QED
  BY <1>1, <1>2, <1>3, <1>4, Zenon DEF RunInv

\* A step that changes nothing keeps it.
LEMMA RunInvStutter ==
  ASSUME RunInv, UNCHANGED runVars
  PROVE  RunInv'
<1> USE DEF runVars, records, store, memory
<1>1. RecordTypes' /\ MemoryTypes' /\ RootTypes'
  BY Zenon DEF RunInv, RecordTypes, MemoryTypes, RootTypes
<1>2. Named'
  BY Zenon DEF RunInv, Named, NamedIn
<1>3. \A r \in Runs : Logged(r)' /\ (Replays(r)' <=> Replays(r))
  BY Zenon DEF RunInv, Logged, Replays
<1>4. NotYetRequested' /\ VerifierHonest' /\ Births' /\ RestartSettles'
  BY Zenon DEF RunInv, NotYetRequested, VerifierHonest, Births, RestartSettles
<1>5. ASSUME NEW r \in Runs
      PROVE  (StoredRequest(r)' <=> StoredRequest(r)) /\ (StoredResult(r)' <=> StoredResult(r))
  <2>1. StoredProposal(r)' <=> StoredProposal(r)
    BY Zenon DEF StoredProposal, StoredBaseline, StoredHeader, Registered
  <2>2. StoredRequest(r)' <=> StoredRequest(r)
    BY <1>3, <2>1, Zenon DEF StoredRequest, RequestMatches, StartedBy
  <2>3. StoredResult(r)' <=> StoredResult(r)
    BY <2>2, Zenon DEF StoredResult, ResultMatches, CompletedBy
  <2>4. QED
    BY <2>2, <2>3
<1>6. RecordsLoad'
  BY <1>5, Zenon DEF RunInv, RecordsLoad
<1>7. PromotionVerified'
  BY <1>5, Zenon DEF RunInv, PromotionVerified
<1>8. QED
  BY <1>1, <1>2, <1>3, <1>4, <1>6, <1>7, Zenon DEF RunInv

\* What the invariant implies.
LEMMA RunInvImplies ==
  ASSUME RunConstants, RunInv
  PROVE  /\ RunTypeOK /\ ReferencesKept /\ ReplayAgrees /\ RecordsLoad
         /\ PromotionVerified /\ RestartSettles
<1>1. ASSUME NEW r \in Runs
      PROVE  run[r].state \in RunState \cup {"absent"} /\ run[r].rev \in Nat
             /\ (run[r].failure <=> run[r].state = "failed")
  <2>1. run[r].state \in RunState \cup {"absent"} /\ run[r].rev \in Nat
    BY Recorded, Zenon
  <2>2. CASE run[r].state = "absent"
    <3>1. run[r] = Absent
      BY <2>2, Recorded, Zenon
    <3>2. run[r].failure <=> run[r].state = "failed"
      BY <2>2, <3>1 DEF Absent
    <3>3. QED
      BY <2>1, <3>2, Zenon
  <2>3. CASE run[r].state # "absent"
    BY <2>1, <2>3, Recorded, Zenon
  <2>4. QED
    BY <2>2, <2>3
<1>2. RunTypeOK
  <2>1. /\ damaged \subseteq objects /\ root \in {"serving", "down", "retained", "reconciled"}
        /\ epoch <= MaxEpoch /\ edits <= MaxChanges
    BY DEF RunInv, RootTypes, Roots
  <2>2. QED
    BY <1>1, <2>1, Zenon DEF RunTypeOK
<1>3. ReferencesKept
  <2>1. Referenced \ pinned \subseteq objects /\ pinned \subseteq objects
    BY ReferencedNamed DEF RunInv, Named
  <2>2. Referenced \ pinned \subseteq registered
    BY ReferencedNamed DEF RunInv, Named
  <2>3. QED
    BY <2>1, <2>2 DEF ReferencesKept
<1>4. ReplayAgrees
  BY Zenon DEF RunInv, Logged, ReplayAgrees
<1>5. QED
  BY <1>2, <1>3, <1>4, Zenon DEF RunInv

\* The inductive invariant of delegated runs, for every value of the constants
\* (runtime/subscription, storage/repository.rs, verification.rs).
THEOREM RunInvariant == ASSUME RunConstants PROVE RunSpec => []RunInv
<1>1. RunInit => RunInv
  BY RunInvInit
<1>2. RunInv /\ [RunNext]_runVars => RunInv'
  BY RunInvNext, RunInvStutter
<1>3. QED
  BY <1>1, <1>2, PTL DEF RunSpec

\* A run is promoted only on the passed verification of its own proposal, in an
\* unchanged workspace and by the attested executable; its records are written
\* once, stay loadable and replay to it; the objects it names survive every
\* collection; and no run outlives its process unfinished, however many runs,
\* processes, edits and damaged objects there are
\* (complete_subscription_run_verification, reconcile_runtime_artifacts,
\* interrupt_abandoned_subscription_runs).
THEOREM RunsAreVerified == ASSUME RunConstants PROVE RunSpec => RunsVerified
<1>1. RunInv => /\ RunTypeOK /\ ReferencesKept /\ ReplayAgrees /\ RecordsLoad
                /\ PromotionVerified /\ RestartSettles
  BY RunInvImplies
<1>2. RunInv /\ [RunNext]_runVars => [EvidenceFrozen]_runVars
  BY FrozenStep
<1>3. QED
  BY <1>1, <1>2, RunInvariant, PTL DEF RunSpec, RunsVerified

=============================================================================
