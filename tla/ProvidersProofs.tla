-------------------------- MODULE ProvidersProofs --------------------------
(***************************************************************************)
(* The sidecar and the Codex adapter that reads it.                        *)
(*                                                                         *)
(* The sidecar, for any number of calls, ids and cancellations and any     *)
(* capacities, as long as no id is used twice.  The count of abandoned ids *)
(* is kept by two actors: a caller that is dropped only queues an          *)
(* abandonment, and the supervisor applies the queue later, to a table     *)
(* that has changed meanwhile.  The invariant says whose abandonments are  *)
(* in the queue and which entries they cannot have reached yet             *)
(* (QueueKeyed); without it an entry could be marked or removed twice.     *)
(*                                                                         *)
(* The adapter, for any number of turns, messages, fragments, requests and *)
(* refused calls and however far the provider runs ahead.  That the text   *)
(* of a turn is read whole and in order is a fact about four places at     *)
(* once: what the engine has read, what is withheld, the pending report    *)
(* and what is queued (Reading).  It is kept for the active turn only, and *)
(* what is left of it once the turn completed is WasRead.  That nothing of *)
(* a turn is read before its start or after its end rests on the order of  *)
(* the queue (NoticesInOrder), on the place of its start (StartsFirst) and *)
(* on what a compaction may take for its own (CompactionKnown).            *)
(***************************************************************************)
EXTENDS Sidecar, AppServer, FiniteSetTheorems, WellFoundedInduction, TLAPS

-----------------------------------------------------------------------------
(* The sidecar: its inductive invariant                                      *)

\* The tables of pending requests, and the entries of the queues.
PendingTables == [Keys -> [req : Calls \cup {NoCall}, enqueued : BOOLEAN, abandoned : BOOLEAN]]
Abandonments == [key : Keys, enqueued : BOOLEAN]
Messages ==
  [kind : {"register", "enqueue", "written", "response"}, req : Calls]
    \cup [kind : {"request", "answer"}, req : ServerIds]
    \cup [kind : {"cancel"}, req : Cancels]
    \cup [kind : {"notification", "exited", "violation", "unknown", "broken"}, req : {NoCall}]

\* What the type invariant leaves open.
Shapes ==
  /\ key \in [Calls -> Keys] /\ \A q, r \in Calls : key[q] = key[r] => q = r
  /\ abandonments \in Seq(Abandonments) /\ overflowed \in BOOLEAN
  /\ events \in Seq(Messages) /\ stdout \in Seq(Messages)
  /\ lines \in Seq(Calls \cup ServerIds) /\ serverQ \in Seq(ServerIds)
  /\ received \subseteq Calls

\* An entry is filed under the id of its request, and an empty one is empty.
Keyed(p) ==
  \A k \in Keys : IF p[k].req = NoCall THEN p[k] = NoPending ELSE key[p[k].req] = k

\* The ids whose late response is awaited.
Marked(p) == {k \in Keys : p[k].abandoned}

\* A queued abandonment is the only one of its id, of a request that is over,
\* and has not been applied: an entry marked abandoned has none in the queue.
QueueKeyed ==
  /\ \A i \in DOMAIN abandonments : \E r \in Calls : key[r] = abandonments[i].key /\ Closed(r)
  /\ \A i, j \in DOMAIN abandonments : abandonments[i].key = abandonments[j].key => i = j
  /\ \A k \in Keys : pending[k].abandoned =>
       Closed(pending[k].req) /\ \A i \in DOMAIN abandonments : abandonments[i].key # k

\* The inductive invariant.
SidecarInv ==
  /\ SidecarTypeOK /\ Shapes /\ Keyed(pending) /\ QueueKeyed
  /\ AbandonedAreCounted /\ ChildIsKilled

-----------------------------------------------------------------------------
(* Counting                                                                  *)

\* The marked ids are finitely many.
LEMMA MarkedFinite ==
  ASSUME SidecarConstants, NEW p
  PROVE  IsFiniteSet(Marked(p)) /\ Cardinality(Marked(p)) \in Nat
<1>1. Marked(p) \subseteq Keys /\ IsFiniteSet(Keys)
  BY DEF Marked, SidecarConstants
<1>2. IsFiniteSet(Marked(p))
  BY <1>1, FS_Subset
<1>3. QED
  BY <1>2, FS_CardinalityType

\* A table that marks one id more counts one more.
LEMMA MarkOne ==
  ASSUME SidecarConstants, NEW p, NEW q, NEW k \in Keys, ~p[k].abandoned, q[k].abandoned,
         \A j \in Keys : j # k => q[j].abandoned = p[j].abandoned
  PROVE  Cardinality(Marked(q)) = Cardinality(Marked(p)) + 1
<1>1. Marked(q) = Marked(p) \cup {k} /\ k \notin Marked(p)
  BY DEF Marked
<1>2. QED
  BY <1>1, MarkedFinite, FS_AddElement

\* Tables that mark the same ids count the same.
LEMMA MarkSame ==
  ASSUME NEW p, NEW q, \A j \in Keys : q[j].abandoned = p[j].abandoned
  PROVE  Marked(q) = Marked(p)
  BY DEF Marked

-----------------------------------------------------------------------------
(* drain_abandonments                                                        *)

\* A set of numbers has a least element.
LEMMA LeastMember ==
  ASSUME NEW s, s \subseteq Nat, s # {}
  PROVE  \E n \in s : \A m \in s : n <= m
<1> DEFINE R == {p \in Nat \X Nat : p[1] < p[2]}
<1>1. IsWellFoundedOn(R, Nat)
  BY NatLessThanWellFounded, Zenon DEF OpToRel
<1>2. PICK n \in s : \A m \in s : <<m, n>> \notin R
  <2> HIDE DEF R
  <2>1. QED
    BY <1>1, WFMin, Zenon
<1>3. ASSUME NEW m \in s PROVE n <= m
  <2>1. m \in Nat /\ n \in Nat
    OBVIOUS
  <2>2. ASSUME m < n PROVE <<m, n>> \in R
    BY <2>1, <2>2
  <2>3. QED
    BY <1>2, <2>1, <2>2
<1>4. QED
  BY <1>3

\* What the drain starts from.
Undrained(p) == [pending |-> p, count |-> abandoned, cut |-> {}, ok |-> TRUE]

\* f holds the tables after each of the first L abandonments.
IsDrain(f, p, L) ==
  f = [n \in 0 .. L |-> IF n = 0 THEN Undrained(p)
                        ELSE ApplyAbandonment(f[n - 1], abandonments[n])]

\* These tables exist.
LEMMA DrainExists ==
  ASSUME NEW p, NEW L \in Nat
  PROVE  \E f : IsDrain(f, p, L)
<1> DEFINE B == {n \in 0 .. L : \A f : ~IsDrain(f, p, n)}
<1>1. ASSUME B # {} PROVE FALSE
  <2>1. PICK n \in B : \A m \in B : n <= m
    <3>1. B \subseteq Nat
      OBVIOUS
    <3> HIDE DEF B
    <3>2. QED
      BY <1>1, <3>1, LeastMember, Zenon
  <2>2. n # 0
    <3>1. IsDrain([i \in 0 .. 0 |-> Undrained(p)], p, 0)
      BY DEF IsDrain
    <3>2. QED
      BY <2>1, <3>1
  <2>3. n - 1 \in 0 .. L /\ n - 1 \notin B
    BY <2>1, <2>2
  <2>4. PICK g : IsDrain(g, p, n - 1)
    BY <2>3
  <2> DEFINE h == [i \in 0 .. n |-> IF i = n THEN ApplyAbandonment(g[n - 1], abandonments[n])
                                    ELSE g[i]]
  <2>5. ASSUME NEW i \in 0 .. n
        PROVE  h[i] = IF i = 0 THEN Undrained(p) ELSE ApplyAbandonment(h[i - 1], abandonments[i])
    <3>1. CASE i = n
      BY <2>1, <2>2, <3>1
    <3>2. CASE i # n
      <4>1. i \in 0 .. (n - 1) /\ h[i] = g[i]
        BY <2>1, <3>2
      <4>2. g[i] = IF i = 0 THEN Undrained(p) ELSE ApplyAbandonment(g[i - 1], abandonments[i])
        BY <2>4, <4>1 DEF IsDrain
      <4>3. i # 0 => i - 1 \in 0 .. n /\ i - 1 # n
        BY <2>1, <4>1
      <4>4. QED
        BY <4>1, <4>2, <4>3
    <3>3. QED
      BY <3>1, <3>2
  <2>6. h = [i \in 0 .. n |-> IF i = 0 THEN Undrained(p)
                              ELSE ApplyAbandonment(h[i - 1], abandonments[i])]
    BY <2>5
  <2>7. IsDrain(h, p, n)
    BY <2>6 DEF IsDrain
  <2>8. QED
    BY <2>1, <2>7
<1>2. QED
  BY <1>1

\* DrainAbandonments is the last of them.
LEMMA DrainIsLast ==
  ASSUME NEW p, abandonments \in Seq(Abandonments)
  PROVE  \E f : IsDrain(f, p, Len(abandonments)) /\ DrainAbandonments(p) = f[Len(abandonments)]
<1> DEFINE drained == CHOOSE f : f = [n \in 0 .. Len(abandonments) |->
                        IF n = 0 THEN [pending |-> p, count |-> abandoned, cut |-> {}, ok |-> TRUE]
                        ELSE ApplyAbandonment(f[n - 1], abandonments[n])]
<1>1. DrainAbandonments(p) = drained[Len(abandonments)]
  BY DEF DrainAbandonments
<1>2. PICK g : IsDrain(g, p, Len(abandonments))
  BY DrainExists
<1>3. ASSUME NEW f PROVE IsDrain(f, p, Len(abandonments)) <=>
        f = [n \in 0 .. Len(abandonments) |->
                        IF n = 0 THEN [pending |-> p, count |-> abandoned, cut |-> {}, ok |-> TRUE]
                        ELSE ApplyAbandonment(f[n - 1], abandonments[n])]
  BY DEF IsDrain, Undrained
<1>4. IsDrain(drained, p, Len(abandonments))
  BY <1>2, <1>3
<1>5. QED
  BY <1>1, <1>4

\* A table in the middle of the drain: well filed and counted, what it marks is
\* over, and none of the abandonments after the n-th has been applied to it.
Drainable(t, n) ==
  /\ t \in [pending : PendingTables, count : 0 .. MaxAbandoned, cut : SUBSET Calls, ok : BOOLEAN]
  /\ Keyed(t.pending) /\ t.count = Cardinality(Marked(t.pending))
  /\ \A k \in Keys : t.pending[k].abandoned => Closed(t.pending[k].req)
  /\ \A m \in (n + 1) .. Len(abandonments) : ~t.pending[abandonments[m].key].abandoned

\* apply_abandonment keeps the table so.
LEMMA ApplyKeeps ==
  ASSUME SidecarConstants, SidecarInv, NEW n \in 1 .. Len(abandonments), NEW t, Drainable(t, n - 1)
  PROVE  Drainable(ApplyAbandonment(t, abandonments[n]), n)
<1> DEFINE a == abandonments[n]
           p == t.pending[a.key]
           u == ApplyAbandonment(t, a)
<1>0. \/ u = t \/ u = [t EXCEPT !.ok = FALSE] \/ u = [t EXCEPT !.pending[a.key] = NoPending]
      \/ /\ p.req # NoCall /\ ~(t.count >= MaxAbandoned)
         /\ u = [t EXCEPT !.pending[a.key].abandoned = TRUE, !.count = @ + 1, !.cut = @ \cup {p.req}]
  BY Zenon DEF ApplyAbandonment
<1> HIDE DEF u
<1>1. /\ a.key \in Keys /\ n \in DOMAIN abandonments
      /\ \A m \in (n + 1) .. Len(abandonments) :
           abandonments[m].key \in Keys /\ abandonments[m].key # a.key
  <2>1. abandonments \in Seq(Abandonments)
    BY DEF SidecarInv, Shapes
  <2>2. n \in DOMAIN abandonments /\ \A m \in n .. Len(abandonments) :
          m \in DOMAIN abandonments /\ abandonments[m] \in Abandonments
    BY <2>1
  <2>3. \A m \in n .. Len(abandonments) : abandonments[m].key \in Keys
    BY <2>2 DEF Abandonments
  <2>4. \A i, j \in DOMAIN abandonments : abandonments[i].key = abandonments[j].key => i = j
    BY DEF SidecarInv, QueueKeyed
  <2>5. QED
    BY <2>2, <2>3, <2>4
<1>2. /\ t \in [pending : PendingTables, count : 0 .. MaxAbandoned, cut : SUBSET Calls, ok : BOOLEAN]
      /\ t.pending \in PendingTables /\ t.count \in 0 .. MaxAbandoned /\ t.cut \subseteq Calls
      /\ Keyed(t.pending) /\ t.count = Cardinality(Marked(t.pending))
      /\ \A k \in Keys : t.pending[k].abandoned => Closed(t.pending[k].req)
      /\ \A m \in n .. Len(abandonments) : ~t.pending[abandonments[m].key].abandoned
  BY DEF Drainable
<1>3. /\ p \in [req : Calls \cup {NoCall}, enqueued : BOOLEAN, abandoned : BOOLEAN] /\ ~p.abandoned
      /\ p.req # NoCall => Closed(p.req)
  <2>1. p \in [req : Calls \cup {NoCall}, enqueued : BOOLEAN, abandoned : BOOLEAN]
    BY <1>1, <1>2 DEF PendingTables
  <2>2. ~p.abandoned
    BY <1>2
  <2>3. ASSUME p.req # NoCall PROVE Closed(p.req)
    <3>1. PICK r \in Calls : key[r] = a.key /\ Closed(r)
      BY <1>1 DEF SidecarInv, QueueKeyed
    <3>2. p.req \in Calls /\ key[p.req] = a.key
      BY <1>1, <1>2, <2>1, <2>3 DEF Keyed
    <3>3. QED
      BY <3>1, <3>2 DEF SidecarInv, Shapes
  <2>4. QED
    BY <2>1, <2>2, <2>3
<1>4. ASSUME u = t PROVE Drainable(u, n)
  BY <1>2, <1>4 DEF Drainable
<1>5. ASSUME u = [t EXCEPT !.ok = FALSE] PROVE Drainable(u, n)
  <2>1. u = [pending |-> t.pending, count |-> t.count, cut |-> t.cut, ok |-> FALSE]
    BY <1>2, <1>5
  <2>2. u.pending = t.pending /\ u.count = t.count
        /\ u \in [pending : PendingTables, count : 0 .. MaxAbandoned, cut : SUBSET Calls, ok : BOOLEAN]
    BY <1>2, <2>1
  <2>3. QED
    BY <1>2, <2>2 DEF Drainable
<1>6. ASSUME u = [t EXCEPT !.pending[a.key] = NoPending] PROVE Drainable(u, n)
  <2> DEFINE q == [t.pending EXCEPT ![a.key] = NoPending]
  <2>1. u = [pending |-> q, count |-> t.count, cut |-> t.cut, ok |-> t.ok] /\ t.ok \in BOOLEAN
    BY <1>2, <1>6
  <2>2. NoPending \in [req : Calls \cup {NoCall}, enqueued : BOOLEAN, abandoned : BOOLEAN]
        /\ NoPending.req = NoCall /\ ~NoPending.abandoned
    BY DEF NoPending
  <2>3. q \in PendingTables /\ q[a.key] = NoPending /\ \A k \in Keys : k # a.key => q[k] = t.pending[k]
    BY <1>1, <1>2, <2>2 DEF PendingTables
  <2>4. Keyed(q)
    BY <1>2, <2>2, <2>3 DEF Keyed
  <2>5. \A k \in Keys : q[k].abandoned = t.pending[k].abandoned
    BY <1>1, <1>3, <2>2, <2>3 DEF NoPending
  <2>6. Marked(q) = Marked(t.pending)
    BY <2>5, MarkSame
  <2>7. \A k \in Keys : q[k].abandoned => Closed(q[k].req)
    BY <1>2, <2>2, <2>3
  <2>8. \A m \in (n + 1) .. Len(abandonments) : ~q[abandonments[m].key].abandoned
    BY <1>1, <1>2, <2>5
  <2> HIDE DEF q
  <2>9. u.pending = q /\ u.count = t.count
        /\ u \in [pending : PendingTables, count : 0 .. MaxAbandoned, cut : SUBSET Calls, ok : BOOLEAN]
    BY <1>2, <2>1, <2>3
  <2>10. QED
    BY <1>2, <2>4, <2>6, <2>7, <2>8, <2>9 DEF Drainable
<1>7. ASSUME p.req # NoCall, ~(t.count >= MaxAbandoned),
             u = [t EXCEPT !.pending[a.key].abandoned = TRUE, !.count = @ + 1, !.cut = @ \cup {p.req}]
      PROVE  Drainable(u, n)
  <2> DEFINE q == [t.pending EXCEPT ![a.key].abandoned = TRUE]
  <2>1. u = [pending |-> q, count |-> t.count + 1, cut |-> t.cut \cup {p.req}, ok |-> t.ok]
        /\ t.ok \in BOOLEAN
    BY <1>2, <1>7
  <2>2. q \in PendingTables /\ q[a.key] = [p EXCEPT !.abandoned = TRUE]
        /\ \A k \in Keys : k # a.key => q[k] = t.pending[k]
    BY <1>1, <1>2, <1>3 DEF PendingTables
  <2>3. q[a.key].req = p.req /\ q[a.key].abandoned
    BY <1>3, <2>2
  <2>4. Keyed(q)
    BY <1>1, <1>2, <1>7, <2>2, <2>3 DEF Keyed
  <2>5. Cardinality(Marked(q)) = t.count + 1
    <3>1. \A k \in Keys : k # a.key => q[k].abandoned = t.pending[k].abandoned
      BY <2>2
    <3>2. ~t.pending[a.key].abandoned /\ q[a.key].abandoned /\ a.key \in Keys
      BY <1>1, <1>3, <2>3
    <3> HIDE DEF q, a
    <3>3. Cardinality(Marked(q)) = Cardinality(Marked(t.pending)) + 1
      BY <3>1, <3>2, MarkOne
    <3>4. QED
      BY <1>2, <3>3
  <2>6. \A k \in Keys : q[k].abandoned => Closed(q[k].req)
    BY <1>2, <1>3, <1>7, <2>2, <2>3
  <2>7. \A m \in (n + 1) .. Len(abandonments) : ~q[abandonments[m].key].abandoned
    BY <1>1, <1>2, <2>2
  <2>8. t.count + 1 \in 0 .. MaxAbandoned /\ t.cut \cup {p.req} \subseteq Calls
    BY <1>2, <1>3, <1>7 DEF SidecarConstants
  <2> HIDE DEF q
  <2>9. u.pending = q /\ u.count = t.count + 1
        /\ u \in [pending : PendingTables, count : 0 .. MaxAbandoned, cut : SUBSET Calls, ok : BOOLEAN]
    BY <2>1, <2>2, <2>8
  <2>10. QED
    BY <2>4, <2>5, <2>6, <2>7, <2>9 DEF Drainable
<1>8. Drainable(u, n)
  BY <1>0, <1>4, <1>5, <1>6, <1>7
<1>9. QED
  BY <1>8 DEF u

\* A drain from a table that is filed, counted and not yet marked for anything
\* in the queue ends in one that is.
LEMMA DrainKeeps ==
  ASSUME SidecarConstants, SidecarInv, NEW p, Drainable(Undrained(p), 0)
  PROVE  Drainable(DrainAbandonments(p), Len(abandonments))
<1> DEFINE L == Len(abandonments)
<1>1. abandonments \in Seq(Abandonments) /\ L \in Nat
  BY DEF SidecarInv, Shapes
<1>2. PICK f : IsDrain(f, p, L) /\ DrainAbandonments(p) = f[L]
  BY <1>1, DrainIsLast
<1>3. \A n \in 0 .. L : f[n] = IF n = 0 THEN Undrained(p)
                               ELSE ApplyAbandonment(f[n - 1], abandonments[n])
  BY <1>2 DEF IsDrain
<1> DEFINE B == {n \in 0 .. L : ~Drainable(f[n], n)}
<1>4. ASSUME B # {} PROVE FALSE
  <2>1. PICK n \in B : \A m \in B : n <= m
    <3>1. B \subseteq Nat
      OBVIOUS
    <3> HIDE DEF B
    <3>2. QED
      BY <1>4, <3>1, LeastMember, Zenon
  <2>2. n # 0
    BY <1>3, <2>1
  <2>3. n - 1 \in 0 .. L /\ n - 1 \notin B /\ n \in 1 .. L
    BY <2>1, <2>2
  <2>4. Drainable(f[n - 1], n - 1) /\ f[n] = ApplyAbandonment(f[n - 1], abandonments[n])
    BY <1>3, <2>2, <2>3
  <2>5. QED
    BY <2>1, <2>3, <2>4, ApplyKeeps
<1>5. QED
  BY <1>1, <1>2, <1>4

-----------------------------------------------------------------------------
(* Queues                                                                    *)

\* A sequence that is not empty has a head and a tail.
LEMMA HeadTail ==
  ASSUME NEW S, NEW s \in Seq(S), s # <<>>
  PROVE  Head(s) \in S /\ Tail(s) \in Seq(S) /\ Len(Tail(s)) = Len(s) - 1 /\ Len(s) \in Nat
  OBVIOUS

\* What one more member does to a sequence.
LEMMA QueueGrows ==
  ASSUME NEW S, NEW s \in Seq(S), NEW e \in S
  PROVE  Append(s, e) \in Seq(S) /\ Len(Append(s, e)) = Len(s) + 1 /\ Len(s) \in Nat
  OBVIOUS

\* The empty sequence.
LEMMA EmptySequence ==
  ASSUME NEW S
  PROVE  <<>> \in Seq(S) /\ Len(<<>>) = 0
  OBVIOUS

\* A bounded queue of messages takes one more where there is room.
LEMMA RoomForOne ==
  ASSUME NEW S, NEW s \in Seq(S), NEW n \in Nat, Len(s) < n, NEW e \in S
  PROVE  Append(s, e) \in Seq(S) /\ Len(Append(s, e)) <= n
<1>1. Append(s, e) \in Seq(S) /\ Len(Append(s, e)) = Len(s) + 1 /\ Len(s) \in Nat
  BY QueueGrows
<1>2. QED
  BY <1>1

-----------------------------------------------------------------------------
(* What most steps leave alone                                               *)

\* The phases in which the count is kept.
Counting == {"top", "recv", "drain"}

\* A step that leaves the table and the queue alone and ends no request anew
\* keeps them filed and counted.
LEMMA TableStays ==
  ASSUME SidecarInv, pending' = pending, abandoned' = abandoned, abandonments' = abandonments,
         key' = key, \A r \in Calls : Closed(r) => Closed(r)',
         sup' \in Counting => sup \in Counting
  PROVE  Keyed(pending)' /\ QueueKeyed' /\ AbandonedAreCounted'
<1>1. Keyed(pending)'
  BY DEF SidecarInv, Keyed
<1>2. \A k \in Keys : pending[k].abandoned => pending[k].req \in Calls
  BY DEF SidecarInv, SidecarTypeOK, Keyed, NoPending
<1>3. QueueKeyed'
  BY <1>2 DEF SidecarInv, QueueKeyed
<1>4. AbandonedAreCounted'
  BY DEF SidecarInv, AbandonedAreCounted, Counting
<1>5. QED
  BY <1>1, <1>3, <1>4

\* Nobody is any less over when no request moves.
LEMMA ClosedStays ==
  ASSUME pc' = pc
  PROVE  \A r \in Calls : Closed(r) => Closed(r)'
  BY DEF Closed

\* A request that was not over may move.
LEMMA OtherCallsStay ==
  ASSUME SidecarInv, NEW r \in Calls, ~Closed(r), NEW v, pc' = [pc EXCEPT ![r] = v]
  PROVE  \A q \in Calls : Closed(q) => Closed(q)'
  BY DEF Closed, SidecarInv, SidecarTypeOK

\* A request is dropped: its abandonment is the first of its id.
LEMMA DropKeeps ==
  ASSUME SidecarConstants, SidecarInv, NEW r \in Calls, DropRegistration(r), ~Closed(r),
         NEW v \in {"done", "dropped"}, pc' = [pc EXCEPT ![r] = v],
         key' = key, pending' = pending, abandoned' = abandoned, sup' = sup, child' = child
  PROVE  /\ Keyed(pending)' /\ QueueKeyed' /\ AbandonedAreCounted' /\ ChildIsKilled'
         /\ abandonments' \in Seq(Abandonments) /\ overflowed' \in BOOLEAN
         /\ state' \in {"running", "cancelling", "stopped"}
<1>1. \A q \in Calls : Closed(q) => Closed(q)'
  BY OtherCallsStay
<1>2. Closed(r)'
  BY DEF Closed, SidecarInv, SidecarTypeOK
<1>3. ChildIsKilled' /\ overflowed' \in BOOLEAN /\ state' \in {"running", "cancelling", "stopped"}
  BY DEF DropRegistration, SidecarInv, ChildIsKilled, Shapes, SidecarTypeOK
<1>4. CASE abandonments' = abandonments
  <2>1. Keyed(pending)' /\ QueueKeyed' /\ AbandonedAreCounted'
    BY <1>1, <1>4, TableStays
  <2>2. QED
    BY <1>3, <1>4, <2>1 DEF SidecarInv, Shapes
<1>5. CASE abandonments' = Append(abandonments, [key |-> key[r], enqueued |-> pc[r] # "enqueue"])
  <2> DEFINE a == [key |-> key[r], enqueued |-> pc[r] # "enqueue"]
             L == Len(abandonments)
  <2>1. abandonments \in Seq(Abandonments) /\ a \in Abandonments /\ key[r] \in Keys
    BY DEF SidecarInv, Shapes, Abandonments
  <2>2. /\ abandonments' \in Seq(Abandonments) /\ DOMAIN abandonments = 1 .. L /\ L \in Nat
        /\ DOMAIN abandonments' = 1 .. (L + 1)
        /\ abandonments'[L + 1].key = key[r]
        /\ \A i \in 1 .. L : abandonments'[i] = abandonments[i]
    BY <1>5, <2>1
  <2>3. \A i \in 1 .. L : abandonments[i].key # key[r]
    <3> SUFFICES ASSUME NEW i \in 1 .. L, abandonments[i].key = key[r] PROVE FALSE
      OBVIOUS
    <3>1. PICK q \in Calls : key[q] = abandonments[i].key /\ Closed(q)
      BY <2>2 DEF SidecarInv, QueueKeyed
    <3>2. QED
      BY <3>1 DEF SidecarInv, Shapes
  <2>4. ~pending[key[r]].abandoned
    <3> SUFFICES ASSUME pending[key[r]].abandoned PROVE FALSE
      OBVIOUS
    <3>1. Closed(pending[key[r]].req)
      BY <2>1 DEF SidecarInv, QueueKeyed
    <3>2. pending[key[r]].req \in Calls /\ key[pending[key[r]].req] = key[r]
      BY <2>1 DEF SidecarInv, SidecarTypeOK, Keyed, NoPending
    <3>3. QED
      BY <3>1, <3>2 DEF SidecarInv, Shapes
  <2>5. \A i \in DOMAIN abandonments' : \E q \in Calls : key[q] = abandonments'[i].key /\ Closed(q)'
    <3> SUFFICES ASSUME NEW i \in 1 .. (L + 1)
                 PROVE  \E q \in Calls : key[q] = abandonments'[i].key /\ Closed(q)'
      BY <2>2
    <3>1. CASE i = L + 1
      BY <1>2, <2>2, <3>1
    <3>2. CASE i \in 1 .. L
      BY <1>1, <2>2, <3>2 DEF SidecarInv, QueueKeyed
    <3>3. QED
      BY <2>2, <3>1, <3>2
  <2>6. \A i, j \in DOMAIN abandonments' : abandonments'[i].key = abandonments'[j].key => i = j
    <3>1. \A i, j \in 1 .. L : abandonments[i].key = abandonments[j].key => i = j
      BY <2>2 DEF SidecarInv, QueueKeyed
    <3>2. QED
      BY <2>2, <2>3, <3>1
  <2>7. \A k \in Keys : pending[k].abandoned =>
          Closed(pending[k].req)' /\ \A i \in DOMAIN abandonments' : abandonments'[i].key # k
    <3> SUFFICES ASSUME NEW k \in Keys, pending[k].abandoned
                 PROVE  Closed(pending[k].req)' /\ \A i \in DOMAIN abandonments' : abandonments'[i].key # k
      BY DEF Closed
    <3>1. Closed(pending[k].req) /\ \A i \in DOMAIN abandonments : abandonments[i].key # k
      BY DEF SidecarInv, QueueKeyed
    <3>2. pending[k].req \in Calls
      BY DEF SidecarInv, SidecarTypeOK, Keyed, NoPending
    <3>3. QED
      BY <1>1, <2>2, <2>4, <3>1, <3>2 DEF Closed
  <2>8. QueueKeyed'
    BY <2>5, <2>6, <2>7 DEF QueueKeyed, Closed
  <2>9. Keyed(pending)' /\ AbandonedAreCounted'
    BY DEF SidecarInv, Keyed, AbandonedAreCounted
  <2>10. QED
    BY <1>3, <2>2, <2>8, <2>9
<1>6. QED
  BY <1>4, <1>5 DEF DropRegistration

-----------------------------------------------------------------------------
(* The callers                                                               *)

\* In the beginning nothing is pending.
LEMMA SidecarStarts ==
  ASSUME SidecarConstants, ~ReuseIds, SidecarInit
  PROVE  SidecarInv
<1> USE DEF SidecarInit, SidecarConstants
<1>1. SidecarTypeOK
  BY DEF SidecarTypeOK, NoPending, Awaiting
<1>2. Shapes
  <2>1. key \in [Calls -> Keys] /\ \A q, r \in Calls : key[q] = key[r] => q = r
    BY Zenon DEF SidecarInit
  <2>2. /\ abandonments = <<>> /\ events = <<>> /\ stdout = <<>> /\ lines = <<>> /\ serverQ = <<>>
        /\ overflowed = FALSE /\ received = {}
    OBVIOUS
  <2>3. QED
    BY <2>1, <2>2, EmptySequence DEF Shapes
<1>3. Keyed(pending) /\ QueueKeyed
  BY DEF Keyed, QueueKeyed, NoPending
<1>4. Marked(pending) = {}
  BY DEF Marked, NoPending
<1>5. AbandonedAreCounted /\ ChildIsKilled
  BY <1>4, FS_EmptySet DEF AbandonedAreCounted, ChildIsKilled, Marked
<1>6. QED
  BY <1>1, <1>2, <1>3, <1>5 DEF SidecarInv

\* JsonlSidecar::request takes a slot or is refused.
LEMMA SubmitKeeps ==
  ASSUME SidecarConstants, SidecarInv, NEW r \in Calls, Request(r)
  PROVE  SidecarInv'
<1> USE DEF Request, Returns, tableVars, abandonVars, inboxVars, childVars, cancelVars
<1>1. ~Closed(r) /\ \A q \in Calls : Closed(q) => Closed(q)'
  <2>1. ~Closed(r)
    BY DEF Closed
  <2>2. \E v : pc' = [pc EXCEPT ![r] = v]
    OBVIOUS
  <2>3. QED
    BY <2>1, <2>2, OtherCallsStay
<1>2. Keyed(pending)' /\ QueueKeyed' /\ AbandonedAreCounted'
  BY <1>1, TableStays
<1>3. SidecarTypeOK'
  BY DEF SidecarInv, SidecarTypeOK, Awaiting
<1>4. Shapes' /\ ChildIsKilled'
  BY DEF SidecarInv, Shapes, ChildIsKilled
<1>5. QED
  BY <1>2, <1>3, <1>4 DEF SidecarInv

\* A registration or an enqueueing is sent, or the supervisor is gone.
LEMMA SendKeeps ==
  ASSUME SidecarConstants, SidecarInv, NEW r \in Calls, SendEvent(r)
  PROVE  SidecarInv'
<1> USE DEF tableVars, abandonVars, inboxVars, childVars, cancelVars
<1>1. ~Closed(r)
  BY DEF Closed, SendEvent
<1>2. CASE sup = "gone" /\ Returns(r, "error") /\ DropRegistration(r) /\ UNCHANGED <<events, ack>>
  <2>1. /\ Keyed(pending)' /\ QueueKeyed' /\ AbandonedAreCounted' /\ ChildIsKilled'
        /\ abandonments' \in Seq(Abandonments) /\ overflowed' \in BOOLEAN
        /\ state' \in {"running", "cancelling", "stopped"}
    BY <1>1, <1>2, DropKeeps DEF SendEvent, Returns
  <2>2. SidecarTypeOK' /\ Shapes'
    BY <1>2, <2>1 DEF SendEvent, Returns, SidecarInv, SidecarTypeOK, Shapes
  <2>3. QED
    BY <2>1, <2>2 DEF SidecarInv
<1>3. CASE /\ sup # "gone" /\ Len(events) < EventCap /\ events' = Append(events, Ev(pc[r], r))
           /\ ack' = [ack EXCEPT ![r] = "none"]
           /\ pc' = [pc EXCEPT ![r] = IF @ = "register" THEN "ack" ELSE "queued"]
           /\ UNCHANGED <<resp, abandonments, overflowed, state, killed>>
  <2>1. \A q \in Calls : Closed(q) => Closed(q)'
    BY <1>1, <1>3, OtherCallsStay
  <2>2. Keyed(pending)' /\ QueueKeyed' /\ AbandonedAreCounted'
    BY <1>3, <2>1, TableStays DEF SendEvent
  <2>3. Ev(pc[r], r) \in Messages
    BY DEF SendEvent, Ev, Messages
  <2>4. SidecarTypeOK'
    BY <1>3, <2>3 DEF SendEvent, SidecarInv, SidecarTypeOK, Shapes, Awaiting, SidecarConstants
  <2>5. Shapes' /\ ChildIsKilled'
    BY <1>3, <2>3 DEF SendEvent, SidecarInv, Shapes, ChildIsKilled
  <2>6. QED
    BY <2>2, <2>4, <2>5 DEF SidecarInv
<1>4. QED
  BY <1>2, <1>3 DEF SendEvent

\* An acknowledgement arrives, or fails the request.
LEMMA AcknowledgedKeeps ==
  ASSUME SidecarConstants, SidecarInv, NEW r \in Calls, Acknowledged(r)
  PROVE  SidecarInv'
<1> USE DEF tableVars, abandonVars, inboxVars, childVars, cancelVars
<1>1. ~Closed(r)
  BY DEF Closed, Acknowledged
<1>2. CASE DropRegistration(r) /\ Returns(r, IF ack[r] = "duplicate" THEN ack[r] ELSE "error")
  <2>1. /\ Keyed(pending)' /\ QueueKeyed' /\ AbandonedAreCounted' /\ ChildIsKilled'
        /\ abandonments' \in Seq(Abandonments) /\ overflowed' \in BOOLEAN
        /\ state' \in {"running", "cancelling", "stopped"}
    BY <1>1, <1>2, DropKeeps DEF Acknowledged, Returns
  <2>2. SidecarTypeOK' /\ Shapes'
    BY <1>2, <2>1 DEF Acknowledged, Returns, SidecarInv, SidecarTypeOK, Shapes
  <2>3. QED
    BY <2>1, <2>2 DEF SidecarInv
<1>3. CASE /\ pc' = [pc EXCEPT ![r] = IF @ = "ack" THEN "enqueue" ELSE "await"]
           /\ UNCHANGED <<resp, abandonVars, state, killed>>
  <2>1. \A q \in Calls : Closed(q) => Closed(q)'
    BY <1>1, <1>3, OtherCallsStay
  <2>2. Keyed(pending)' /\ QueueKeyed' /\ AbandonedAreCounted'
    BY <1>3, <2>1, TableStays DEF Acknowledged
  <2>3. SidecarTypeOK' /\ Shapes' /\ ChildIsKilled'
    BY <1>3 DEF Acknowledged, SidecarInv, SidecarTypeOK, Shapes, ChildIsKilled, Awaiting
  <2>4. QED
    BY <2>2, <2>3 DEF SidecarInv
<1>4. QED
  BY <1>2, <1>3 DEF Acknowledged

\* The response arrives, or its sender was dropped.
LEMMA RespondedKeeps ==
  ASSUME SidecarConstants, SidecarInv, NEW r \in Calls, Responded(r)
  PROVE  SidecarInv'
<1> USE DEF tableVars, abandonVars, inboxVars, childVars, cancelVars, Responded, Returns
<1>1. \A q \in Calls : Closed(q) => Closed(q)'
  <2>1. ~Closed(r)
    BY DEF Closed
  <2>2. QED
    BY <2>1, OtherCallsStay
<1>2. Keyed(pending)' /\ QueueKeyed' /\ AbandonedAreCounted'
  BY <1>1, TableStays
<1>3. SidecarTypeOK' /\ Shapes' /\ ChildIsKilled'
  BY DEF SidecarInv, SidecarTypeOK, Shapes, ChildIsKilled
<1>4. QED
  BY <1>2, <1>3 DEF SidecarInv

\* The future of a request is dropped.
LEMMA DropRequestKeeps ==
  ASSUME SidecarConstants, SidecarInv, NEW r \in Calls, DropRequest(r)
  PROVE  SidecarInv'
<1> USE DEF tableVars, abandonVars, inboxVars, childVars, cancelVars
<1>1. ~Closed(r)
  BY DEF Closed, DropRequest, Awaiting
<1>2. /\ Keyed(pending)' /\ QueueKeyed' /\ AbandonedAreCounted' /\ ChildIsKilled'
      /\ abandonments' \in Seq(Abandonments) /\ overflowed' \in BOOLEAN
      /\ state' \in {"running", "cancelling", "stopped"}
  BY <1>1, DropKeeps DEF DropRequest
<1>3. SidecarTypeOK' /\ Shapes'
  BY <1>2 DEF DropRequest, SidecarInv, SidecarTypeOK, Shapes
<1>4. QED
  BY <1>2, <1>3 DEF SidecarInv

-----------------------------------------------------------------------------
(* The pipes, the child and the inboxes                                      *)


\* writer_worker.
LEMMA WriterKeeps ==
  ASSUME SidecarConstants, SidecarInv, WriterStep
  PROVE  SidecarInv'
<1> USE DEF callerVars, tableVars, abandonVars, inboxVars, cancelVars, WriterStep
<1>1. Keyed(pending)' /\ QueueKeyed' /\ AbandonedAreCounted'
  BY TableStays, ClosedStays
<1>2. /\ Head(lines) \in Calls \cup ServerIds /\ Tail(lines) \in Seq(Calls \cup ServerIds)
      /\ Len(Tail(lines)) = Len(lines) - 1 /\ Len(lines) \in Nat
  BY HeadTail DEF SidecarInv, Shapes
<1>3. events' \in Seq(Messages) /\ Len(events') <= EventCap
  <2>1. Ev("exited", NoCall) \in Messages /\ (Head(lines) \in Calls => Ev("written", Head(lines)) \in Messages)
    BY DEF Ev, Messages
  <2>2. /\ events \in Seq(Messages) /\ Len(events) \in Nat /\ EventCap \in Nat
        /\ Len(events) <= EventCap /\ received \subseteq Calls
    BY DEF SidecarInv, SidecarTypeOK, Shapes, SidecarConstants
  <2>3. \/ events' = events
        \/ Len(events) < EventCap /\ events' = Append(events, Ev("exited", NoCall))
        \/ Head(lines) \in received /\ Len(events) < EventCap /\ events' = Append(events, Ev("written", Head(lines)))
    OBVIOUS
  <2>4. CASE events' = events
    BY <2>2, <2>4
  <2>5. CASE Len(events) < EventCap /\ events' = Append(events, Ev("exited", NoCall))
    BY <2>1, <2>2, <2>5, RoomForOne
  <2>6. CASE Head(lines) \in received /\ Len(events) < EventCap /\ events' = Append(events, Ev("written", Head(lines)))
    BY <2>1, <2>2, <2>6, RoomForOne
  <2>7. QED
    BY <2>3, <2>4, <2>5, <2>6
<1>4. SidecarTypeOK' /\ Shapes' /\ ChildIsKilled'
  <2>1. lines' \in Seq(Calls \cup ServerIds) /\ Len(lines') <= WriterCap
    <3>1. lines' = lines \/ lines' = Tail(lines)
      OBVIOUS
    <3>2. lines \in Seq(Calls \cup ServerIds) /\ Len(lines) <= WriterCap /\ WriterCap \in Nat
      BY DEF SidecarInv, Shapes, SidecarTypeOK, SidecarConstants
    <3>3. QED
      BY <1>2, <3>1, <3>2
  <2>2. received' \subseteq Calls
    BY DEF SidecarInv, Shapes
  <2>3. QED
    BY <1>3, <2>1, <2>2 DEF SidecarInv, SidecarTypeOK, Shapes, ChildIsKilled
<1>5. QED
  BY <1>1, <1>4 DEF SidecarInv

\* stdout_worker.
LEMMA StdoutKeeps ==
  ASSUME SidecarConstants, SidecarInv, ReaderStep
  PROVE  SidecarInv'
<1> USE DEF callerVars, tableVars, abandonVars, inboxVars, cancelVars, ReaderStep
<1>1. Keyed(pending)' /\ QueueKeyed' /\ AbandonedAreCounted'
  BY TableStays, ClosedStays
<1>2. stdout # <<>> => Head(stdout) \in Messages /\ Tail(stdout) \in Seq(Messages)
  BY HeadTail DEF SidecarInv, Shapes
<1>3. events' \in Seq(Messages) /\ Len(events') <= EventCap
  <2>1. Ev("exited", NoCall) \in Messages /\ Ev("violation", NoCall) \in Messages
    BY DEF Ev, Messages
  <2>2. events \in Seq(Messages) /\ Len(events) \in Nat /\ Len(events) < EventCap /\ EventCap \in Nat
    BY DEF SidecarInv, Shapes, SidecarConstants
  <2>3. \/ events' = Append(events, Ev("exited", NoCall))
        \/ events' = Append(events, Ev("violation", NoCall))
        \/ stdout # <<>> /\ events' = Append(events, Head(stdout))
    OBVIOUS
  <2>4. CASE events' = Append(events, Ev("exited", NoCall))
    BY <2>1, <2>2, <2>4, RoomForOne
  <2>5. CASE events' = Append(events, Ev("violation", NoCall))
    BY <2>1, <2>2, <2>5, RoomForOne
  <2>6. CASE stdout # <<>> /\ events' = Append(events, Head(stdout))
    BY <1>2, <2>2, <2>6, RoomForOne
  <2>7. QED
    BY <2>3, <2>4, <2>5, <2>6
<1>4. SidecarTypeOK' /\ Shapes' /\ ChildIsKilled'
  BY <1>2, <1>3 DEF SidecarInv, SidecarTypeOK, Shapes, ChildIsKilled
<1>5. QED
  BY <1>1, <1>4 DEF SidecarInv

\* The child answers, asks, notifies, writes what it must not, or exits.
LEMMA ChildKeeps ==
  ASSUME SidecarConstants, SidecarInv, ChildWrites \/ ChildExits
  PROVE  SidecarInv'
<1> USE DEF callerVars, tableVars, abandonVars, inboxVars, cancelVars, ChildWrites, ChildExits
<1>1. Keyed(pending)' /\ QueueKeyed' /\ AbandonedAreCounted'
  BY TableStays, ClosedStays
<1>2. stdout' \in Seq(Messages)
  <2>1. /\ \A r \in received : Ev("response", r) \in Messages
        /\ \A q \in ServerIds : Ev("request", q) \in Messages
        /\ Ev("notification", NoCall) \in Messages
        /\ Ev("broken", NoCall) \in Messages /\ Ev("unknown", NoCall) \in Messages
    BY DEF Ev, Messages, SidecarInv, Shapes
  <2>2. stdout \in Seq(Messages)
    BY DEF SidecarInv, Shapes
  <2>3. \/ stdout' = stdout
        \/ \E e \in Messages : stdout' = Append(stdout, e) \/ stdout' = <<e>>
    BY <2>1
  <2>4. ASSUME NEW e \in Messages PROVE Append(stdout, e) \in Seq(Messages) /\ <<e>> \in Seq(Messages)
    BY <2>2
  <2>5. QED
    BY <2>2, <2>3, <2>4
<1>3. SidecarTypeOK' /\ ChildIsKilled'
  BY DEF SidecarInv, SidecarTypeOK, ChildIsKilled
<1>4. Shapes'
  BY <1>2 DEF SidecarInv, Shapes
<1>5. QED
  BY <1>1, <1>3, <1>4 DEF SidecarInv

\* Cancellations, the inboxes and the end of the sidecar's use.
LEMMA UserKeeps ==
  ASSUME SidecarConstants, SidecarInv,
         (\E x \in Cancels : CancelStep(x)) \/ TakeNotification \/ AnswerServer \/ DropSidecar
  PROVE  SidecarInv'
<1> USE DEF callerVars, tableVars, abandonVars, inboxVars, childVars, cancelVars
<1>1. /\ UNCHANGED <<pc, key, ack, resp, pending, abandoned, abandonments, overflowed, lines>>
      /\ UNCHANGED <<child, received, answered, asked, stdout>>
      /\ sup' = sup \/ sup' = "gone"
  BY DEF CancelStep, CancelCall, CancelDropped, Join, TakeNotification, AnswerServer, DropSidecar
<1>2. Keyed(pending)' /\ QueueKeyed' /\ AbandonedAreCounted'
  BY <1>1, TableStays, ClosedStays DEF Counting
<1>3. events' \in Seq(Messages) /\ Len(events') <= EventCap
  <2>1. events \in Seq(Messages) /\ Len(events) \in Nat /\ Len(events) <= EventCap /\ EventCap \in Nat
    BY DEF SidecarInv, SidecarTypeOK, Shapes, SidecarConstants
  <2>2. CASE \E x \in Cancels : CancelStep(x)
    <3>1. \A x \in Cancels : Ev("cancel", x) \in Messages
      BY DEF Ev, Messages
    <3>2. QED
      BY <2>1, <2>2, <3>1, QueueGrows DEF CancelStep, CancelCall, CancelDropped, Join
  <2>3. CASE AnswerServer
    <3>1. Ev("answer", Head(serverQ)) \in Messages
      BY <2>3, HeadTail DEF Ev, Messages, SidecarInv, Shapes, AnswerServer
    <3>2. QED
      BY <2>1, <2>3, <3>1, QueueGrows DEF AnswerServer
  <2>4. CASE TakeNotification \/ DropSidecar
    <3>1. events' = events \/ events' = <<>>
      BY <2>4 DEF TakeNotification, DropSidecar
    <3>2. <<>> \in Seq(Messages) /\ Len(<<>>) <= EventCap
      BY <2>1, EmptySequence
    <3>3. QED
      BY <2>1, <3>1, <3>2
  <2>5. QED
    BY <2>2, <2>3, <2>4
<1>4. serverQ' \in Seq(ServerIds) /\ Len(serverQ') <= NotifyCap /\ notes' \in 0 .. NotifyCap
  <2>1. serverQ \in Seq(ServerIds) /\ Len(serverQ) <= NotifyCap /\ notes \in 0 .. NotifyCap /\ NotifyCap \in Nat
    BY DEF SidecarInv, SidecarTypeOK, Shapes, SidecarConstants
  <2>2. CASE AnswerServer
    BY <2>1, <2>2, HeadTail DEF AnswerServer
  <2>3. CASE TakeNotification
    BY <2>1, <2>3 DEF TakeNotification
  <2>4. CASE (\E x \in Cancels : CancelStep(x)) \/ DropSidecar
    BY <2>1, <2>4 DEF CancelStep, CancelCall, CancelDropped, Join, DropSidecar
  <2>5. QED
    BY <2>2, <2>3, <2>4
<1>5. ChildIsKilled' /\ state' \in {"running", "cancelling", "stopped"}
  <2>1. CASE DropSidecar
    BY <2>1 DEF DropSidecar, ChildIsKilled
  <2>2. CASE UNCHANGED <<sup, killed, state>>
    BY <1>1, <2>2 DEF SidecarInv, ChildIsKilled, SidecarTypeOK
  <2>3. QED
    BY <2>1, <2>2 DEF CancelStep, CancelCall, CancelDropped, Join, TakeNotification, AnswerServer
<1>6. SidecarTypeOK' /\ Shapes'
  BY <1>1, <1>3, <1>4, <1>5 DEF SidecarInv, SidecarTypeOK, Shapes
<1>7. QED
  BY <1>2, <1>5, <1>6 DEF SidecarInv

-----------------------------------------------------------------------------
(* The supervisor                                                            *)

\* The entries of a table.
LEMMA EntryTypes ==
  ASSUME SidecarInv
  PROVE  pending \in PendingTables /\ NoPending.req = NoCall /\ ~NoPending.abandoned
         /\ NoPending \in [req : Calls \cup {NoCall}, enqueued : BOOLEAN, abandoned : BOOLEAN]
  BY DEF SidecarInv, SidecarTypeOK, PendingTables, NoPending

\* fail_pending sends an error to whoever still waits.
LEMMA FailTypes ==
  ASSUME SidecarInv, NEW p, FailPending(p)
  PROVE  resp' \in [Calls -> Calls \cup {"open", "error", "duplicate"}]
  BY DEF SidecarInv, SidecarTypeOK, FailPending

\* An emptied table is filed and marks nothing.
LEMMA EmptyTable ==
  ASSUME SidecarInv, pending' = [k \in Keys |-> NoPending], key' = key, pc' = pc,
         abandonments' = abandonments \/ abandonments' = <<>>
  PROVE  /\ pending' \in PendingTables /\ Keyed(pending)' /\ QueueKeyed'
         /\ abandonments' \in Seq(Abandonments)
<1>1. pending' \in PendingTables /\ \A k \in Keys : ~pending'[k].abandoned
  BY EntryTypes DEF PendingTables
<1>2. Keyed(pending)'
  BY DEF Keyed, NoPending
<1>3. abandonments' \in Seq(Abandonments)
  BY EmptySequence DEF SidecarInv, Shapes
<1>4. QueueKeyed'
  BY <1>1 DEF SidecarInv, QueueKeyed, Closed
<1>5. QED
  BY <1>1, <1>2, <1>3, <1>4

\* A shutdown at any point of the loop keeps everything that is left.
LEMMA ShutdownKeeps ==
  ASSUME SidecarConstants, SidecarInv, NEW p, ShutdownSupervisor(p),
         UNCHANGED <<pc, key, overflowed, childVars>>,
         abandonments' = abandonments \/ abandonments' = <<>>, abandoned' \in 0 .. MaxAbandoned,
         ack' \in [Calls -> {"none", "ok", "duplicate", "error"}],
         events' \in Seq(Messages), Len(events') <= EventCap, lines' = lines,
         notes' = notes, serverQ' = serverQ
  PROVE  SidecarInv'
<1>1. /\ pending' \in PendingTables /\ Keyed(pending)' /\ QueueKeyed'
      /\ abandonments' \in Seq(Abandonments)
  BY EmptyTable DEF ShutdownSupervisor
<1>2. resp' \in [Calls -> Calls \cup {"open", "error", "duplicate"}]
  BY FailTypes DEF ShutdownSupervisor
<1>3. AbandonedAreCounted' /\ ChildIsKilled'
  BY DEF ShutdownSupervisor, AbandonedAreCounted, ChildIsKilled
<1>4. SidecarTypeOK' /\ Shapes'
  BY <1>1, <1>2 DEF SidecarInv, SidecarTypeOK, Shapes, ShutdownSupervisor, PendingTables, childVars
<1>5. QED
  BY <1>1, <1>3, <1>4 DEF SidecarInv

\* The table after pending.retain can be drained.
LEMMA RetainedDrains ==
  ASSUME SidecarConstants, SidecarInv, sup \in Counting
  PROVE  Drainable(Undrained(Retained(pending)), 0) /\ Drainable(Undrained(pending), 0)
<1> DEFINE p == Retained(pending)
<1>1. p \in PendingTables /\ \A k \in Keys : p[k] = pending[k] \/ (p[k] = NoPending /\ ~pending[k].abandoned)
  <2>1. \A k \in Keys : /\ p[k] = pending[k] \/ p[k] = NoPending
                        /\ pending[k].abandoned => p[k] = pending[k]
    BY DEF Retained
  <2>2. DOMAIN p = Keys /\ p = [k \in Keys |-> p[k]]
    BY DEF Retained
  <2> HIDE DEF p
  <2>3. QED
    BY <2>1, <2>2, EntryTypes DEF PendingTables
<1>2. \A k \in Keys : p[k].abandoned = pending[k].abandoned
  BY <1>1, EntryTypes DEF PendingTables
<1>3. Keyed(p)
  BY <1>1, EntryTypes DEF SidecarInv, Keyed
<1>4. Marked(p) = Marked(pending) /\ abandoned = Cardinality(Marked(pending)) /\ abandoned \in 0 .. MaxAbandoned
  <2>1. Marked(p) = Marked(pending)
    BY <1>2, MarkSame
  <2>2. QED
    BY <2>1 DEF SidecarInv, AbandonedAreCounted, Counting, Marked, SidecarTypeOK
<1>5. \A m \in 1 .. Len(abandonments) :
        abandonments[m].key \in Keys /\ ~pending[abandonments[m].key].abandoned
  <2>1. abandonments \in Seq(Abandonments)
    BY DEF SidecarInv, Shapes
  <2>2. \A m \in 1 .. Len(abandonments) : m \in DOMAIN abandonments /\ abandonments[m] \in Abandonments
    BY <2>1
  <2>3. \A m \in 1 .. Len(abandonments) : abandonments[m].key \in Keys
    BY <2>2 DEF Abandonments
  <2>4. QED
    BY <2>2, <2>3 DEF SidecarInv, QueueKeyed
<1>6. \A k \in Keys : pending[k].abandoned => Closed(pending[k].req)
  BY DEF SidecarInv, QueueKeyed
<1> HIDE DEF p
<1>7. ASSUME NEW q \in {p, pending}
      PROVE  Drainable(Undrained(q), 0)
  <2>1. /\ q \in PendingTables /\ Keyed(q) /\ abandoned = Cardinality(Marked(q))
        /\ \A k \in Keys : q[k].abandoned => Closed(q[k].req)
        /\ \A m \in 1 .. Len(abandonments) : ~q[abandonments[m].key].abandoned
    BY <1>1, <1>2, <1>3, <1>4, <1>5, <1>6, EntryTypes DEF SidecarInv
  <2>2. Undrained(q) \in [pending : PendingTables, count : 0 .. MaxAbandoned, cut : SUBSET Calls, ok : BOOLEAN]
        /\ Undrained(q).pending = q /\ Undrained(q).count = abandoned
    BY <1>4, <2>1 DEF Undrained
  <2>3. QED
    BY <2>1, <2>2 DEF Drainable
<1>8. QED
  BY <1>7 DEF p

\* What a drained table leaves behind when it becomes the table.
LEMMA DrainedKeeps ==
  ASSUME SidecarConstants, SidecarInv, NEW t, Drainable(t, Len(abandonments)),
         pending' = t.pending, abandoned' = t.count, abandonments' = <<>>,
         resp' = [r \in Calls |-> IF r \in t.cut /\ resp[r] = "open" THEN "error" ELSE resp[r]],
         UNCHANGED <<pc, key>>
  PROVE  /\ Keyed(pending)' /\ QueueKeyed' /\ AbandonedAreCounted'
         /\ pending' \in PendingTables /\ abandoned' \in 0 .. MaxAbandoned
         /\ abandonments' \in Seq(Abandonments)
         /\ resp' \in [Calls -> Calls \cup {"open", "error", "duplicate"}]
<1>1. /\ pending' \in PendingTables /\ abandoned' \in 0 .. MaxAbandoned /\ Keyed(pending')
      /\ abandoned' = Cardinality(Marked(pending'))
      /\ \A k \in Keys : pending'[k].abandoned => Closed(pending'[k].req)
  BY DEF Drainable
<1>2. Keyed(pending)'
  BY <1>1 DEF Keyed
<1>3. QueueKeyed' /\ abandonments' \in Seq(Abandonments)
  BY <1>1, EmptySequence DEF QueueKeyed, Closed
<1>4. AbandonedAreCounted'
  BY <1>1 DEF AbandonedAreCounted, Marked
<1>5. resp' \in [Calls -> Calls \cup {"open", "error", "duplicate"}]
  BY DEF SidecarInv, SidecarTypeOK
<1>6. QED
  BY <1>1, <1>2, <1>3, <1>4, <1>5

\* The top of the loop.
LEMMA TopKeeps ==
  ASSUME SidecarConstants, SidecarInv, SupervisorTop
  PROVE  SidecarInv'
<1> DEFINE kept == Retained(pending)
           t == DrainAbandonments(kept)
<1>1. Drainable(t, Len(abandonments)) /\ t.count \in 0 .. MaxAbandoned
  <2>1. Drainable(t, Len(abandonments))
    BY RetainedDrains, DrainKeeps DEF SupervisorTop, Counting
  <2>2. QED
    BY <2>1 DEF Drainable
<1>2. /\ ack' = ack /\ events' = events /\ lines' = lines /\ notes' = notes /\ serverQ' = serverQ
      /\ UNCHANGED <<pc, key, overflowed, childVars>>
  BY DEF SupervisorTop, inboxVars
<1>3. /\ ack \in [Calls -> {"none", "ok", "duplicate", "error"}]
      /\ events \in Seq(Messages) /\ Len(events) <= EventCap /\ abandoned \in 0 .. MaxAbandoned
  BY DEF SidecarInv, SidecarTypeOK, Shapes
<1> HIDE DEF t, kept
<1>4. CASE overflowed /\ ShutdownSupervisor(kept) /\ UNCHANGED <<abandonments, abandoned>>
  BY <1>2, <1>3, <1>4, ShutdownKeeps
<1>5. CASE abandonments' = <<>> /\ abandoned' = t.count /\ ShutdownSupervisor(t.pending)
  BY <1>1, <1>2, <1>3, <1>5, ShutdownKeeps
<1>6. CASE /\ abandonments' = <<>> /\ abandoned' = t.count /\ pending' = t.pending
           /\ resp' = [r \in Calls |-> IF r \in t.cut /\ resp[r] = "open" THEN "error" ELSE resp[r]]
           /\ sup' = "recv" /\ UNCHANGED <<state, killed, writer, reader>>
  <2>1. /\ Keyed(pending)' /\ QueueKeyed' /\ AbandonedAreCounted'
        /\ pending' \in PendingTables /\ abandoned' \in 0 .. MaxAbandoned
        /\ abandonments' \in Seq(Abandonments)
        /\ resp' \in [Calls -> Calls \cup {"open", "error", "duplicate"}]
    BY <1>1, <1>2, <1>6, DrainedKeeps
  <2>2. SidecarTypeOK' /\ Shapes' /\ ChildIsKilled'
    BY <1>2, <1>6, <2>1 DEF SidecarInv, SidecarTypeOK, Shapes, ChildIsKilled, PendingTables, childVars
  <2>3. QED
    BY <2>1, <2>2 DEF SidecarInv
<1>7. QED
  BY <1>4, <1>5, <1>6 DEF SupervisorTop, t, kept

\* The poll of the child after an event.
LEMMA PollTypes ==
  ASSUME SidecarInv, PollExit, child' = child
  PROVE  /\ sup' \in {"top", "drain"} /\ state' \in {"running", "cancelling", "stopped"}
         /\ ChildIsKilled'
  BY DEF PollExit, SidecarInv, SidecarTypeOK, ChildIsKilled

\* handle_incoming: a response takes its entry out of the table, and the count
\* with it if the entry was abandoned.
LEMMA IncomingTable ==
  ASSUME SidecarConstants, SidecarInv, sup \in Counting, NEW m \in Messages, Acceptable(m),
         HandleIncoming(m), UNCHANGED <<pc, key, abandonments>>
  PROVE  /\ pending' \in PendingTables /\ Keyed(pending)' /\ QueueKeyed' /\ AbandonedAreCounted'
         /\ abandoned' \in 0 .. MaxAbandoned
         /\ resp' \in [Calls -> Calls \cup {"open", "error", "duplicate"}]
<1>1. /\ pending \in PendingTables /\ abandoned \in 0 .. MaxAbandoned /\ MaxAbandoned \in Nat
      /\ abandoned = Cardinality(Marked(pending)) /\ Keyed(pending)
      /\ resp \in [Calls -> Calls \cup {"open", "error", "duplicate"}]
  BY EntryTypes DEF SidecarInv, SidecarTypeOK, AbandonedAreCounted, Counting, Marked, SidecarConstants
<1>2. CASE m.kind # "response"
  <2>1. pending' = pending /\ abandoned' = abandoned /\ resp' = resp
    BY <1>2 DEF HandleIncoming
  <2>2. Keyed(pending)' /\ QueueKeyed'
    BY <2>1 DEF SidecarInv, Keyed, QueueKeyed, Closed
  <2>3. AbandonedAreCounted'
    BY <1>1, <2>1 DEF AbandonedAreCounted, Marked
  <2>4. QED
    BY <1>1, <2>1, <2>2, <2>3
<1>3. CASE m.kind = "response"
  <2> DEFINE k == key[m.req]
             p == pending[k]
  <2>1. m.req \in Calls /\ k \in Keys /\ p.req # NoCall /\ p.req \in Calls /\ p.abandoned \in BOOLEAN
    <3>1. m.req \in Calls
      BY <1>3 DEF Messages
    <3>2. k \in Keys
      BY <3>1 DEF SidecarInv, Shapes
    <3>3. p.req # NoCall
      BY <1>3 DEF Acceptable
    <3>4. QED
      BY <1>1, <3>1, <3>2, <3>3 DEF PendingTables
  <2>2. pending' = [pending EXCEPT ![k] = NoPending]
    BY <1>3 DEF HandleIncoming
  <2>3. /\ pending' \in PendingTables /\ pending'[k] = NoPending
        /\ \A j \in Keys : j # k => pending'[j] = pending[j]
    BY <1>1, <2>1, <2>2, EntryTypes DEF PendingTables
  <2>4. Keyed(pending)'
    BY <1>1, <2>3, EntryTypes DEF Keyed
  <2>5. QueueKeyed'
    BY <2>3, EntryTypes DEF SidecarInv, QueueKeyed, Closed
  <2>6. CASE p.abandoned
    <3>1. abandoned' = abandoned - 1 /\ resp' = resp
      BY <1>3, <2>6 DEF HandleIncoming
    <3>2. ~pending'[k].abandoned /\ pending[k].abandoned
          /\ \A j \in Keys : j # k => pending[j].abandoned = pending'[j].abandoned
      BY <2>3, <2>6, EntryTypes
    <3>3. Cardinality(Marked(pending)) = Cardinality(Marked(pending')) + 1
          /\ Cardinality(Marked(pending')) \in Nat
      BY <2>1, <3>2, MarkOne, MarkedFinite
    <3>4. abandoned' = Cardinality(Marked(pending')) /\ abandoned' \in 0 .. MaxAbandoned
      BY <1>1, <3>1, <3>3
    <3>5. QED
      BY <1>1, <2>3, <2>4, <2>5, <3>1, <3>4 DEF AbandonedAreCounted, Marked
  <2>7. CASE ~p.abandoned
    <3>1. abandoned' = abandoned /\ resp' = [resp EXCEPT ![p.req] = IF @ = "open" THEN m.req ELSE @]
      BY <1>3, <2>7 DEF HandleIncoming
    <3>2. \A j \in Keys : pending'[j].abandoned = pending[j].abandoned
      BY <2>1, <2>3, <2>7, EntryTypes DEF NoPending
    <3>3. Marked(pending') = Marked(pending)
      BY <3>2, MarkSame
    <3>4. resp' \in [Calls -> Calls \cup {"open", "error", "duplicate"}]
      BY <1>1, <2>1, <3>1
    <3>5. QED
      BY <1>1, <2>3, <2>4, <2>5, <3>1, <3>3, <3>4 DEF AbandonedAreCounted, Marked
  <2>8. QED
    BY <2>6, <2>7
<1>4. QED
  BY <1>2, <1>3

\* What handle_incoming puts into the two inboxes.
LEMMA IncomingInbox ==
  ASSUME SidecarConstants, SidecarInv, NEW m \in Messages, Acceptable(m), HandleIncoming(m)
  PROVE  notes' \in 0 .. NotifyCap /\ serverQ' \in Seq(ServerIds) /\ Len(serverQ') <= NotifyCap
<1>1. /\ notes \in 0 .. NotifyCap /\ NotifyCap \in Nat
      /\ serverQ \in Seq(ServerIds) /\ Len(serverQ) <= NotifyCap
  BY DEF SidecarInv, SidecarTypeOK, Shapes, SidecarConstants
<1>2. notes' \in 0 .. NotifyCap
  BY <1>1 DEF HandleIncoming, Acceptable
<1>3. CASE m.kind = "request"
  <2>1. m.req \in ServerIds /\ Len(serverQ) < NotifyCap /\ serverQ' = Append(serverQ, m.req)
    BY <1>3 DEF HandleIncoming, Acceptable, Messages
  <2>2. QED
    BY <1>1, <1>2, <2>1, RoomForOne
<1>4. CASE m.kind # "request"
  BY <1>1, <1>2, <1>4 DEF HandleIncoming
<1>5. QED
  BY <1>3, <1>4

\* Register files a request under its free id.
LEMMA RegisterTable ==
  ASSUME SidecarConstants, SidecarInv, sup \in Counting, NEW r \in Calls, Register(r),
         UNCHANGED <<pc, key, abandonments>>
  PROVE  /\ pending' \in PendingTables /\ Keyed(pending)' /\ QueueKeyed' /\ AbandonedAreCounted'
         /\ ack' \in [Calls -> {"none", "ok", "duplicate", "error"}]
<1>1. /\ pending \in PendingTables /\ key[r] \in Keys /\ abandoned' = abandoned
      /\ abandoned = Cardinality(Marked(pending)) /\ Keyed(pending)
  BY EntryTypes DEF SidecarInv, Shapes, AbandonedAreCounted, Counting, Marked, Register
<1>2. ack' \in [Calls -> {"none", "ok", "duplicate", "error"}]
  BY DEF Register, SidecarInv, SidecarTypeOK
<1>3. CASE pending' = pending
  <2>1. Keyed(pending)' /\ QueueKeyed'
    BY <1>3 DEF SidecarInv, Keyed, QueueKeyed, Closed
  <2>2. AbandonedAreCounted'
    BY <1>1, <1>3 DEF AbandonedAreCounted, Marked
  <2>3. QED
    BY <1>1, <1>2, <1>3, <2>1, <2>2
<1>4. CASE pending[key[r]].req = NoCall /\ pending' = [pending EXCEPT ![key[r]] = [NoPending EXCEPT !.req = r]]
  <2> DEFINE e == [NoPending EXCEPT !.req = r]
  <2>1. e \in [req : Calls \cup {NoCall}, enqueued : BOOLEAN, abandoned : BOOLEAN]
        /\ e.req = r /\ e.abandoned = FALSE
    BY DEF NoPending
  <2> HIDE DEF e
  <2>2. /\ pending' \in PendingTables /\ pending'[key[r]] = e
        /\ \A j \in Keys : j # key[r] => pending'[j] = pending[j]
    BY <1>1, <1>4, <2>1 DEF PendingTables, e
  <2>3. Keyed(pending)'
    BY <1>1, <2>1, <2>2 DEF Keyed, SidecarConstants
  <2>4. QueueKeyed'
    BY <2>1, <2>2 DEF SidecarInv, QueueKeyed, Closed
  <2>5. \A j \in Keys : pending'[j].abandoned = pending[j].abandoned
    <3>1. pending[key[r]] = NoPending
      BY <1>1, <1>4 DEF Keyed
    <3>2. pending[key[r]].abandoned = FALSE
      BY <3>1 DEF NoPending
    <3>3. QED
      BY <2>1, <2>2, <3>2
  <2>6. Marked(pending') = Marked(pending)
    BY <2>5, MarkSame
  <2>7. AbandonedAreCounted'
    BY <1>1, <2>6 DEF AbandonedAreCounted, Marked
  <2>8. QED
    BY <1>2, <2>2, <2>3, <2>4, <2>7
<1>5. QED
  BY <1>3, <1>4 DEF Register

\* Enqueue notes on the entry that the line was queued.
LEMMA EnqueueTable ==
  ASSUME SidecarConstants, SidecarInv, sup \in Counting, NEW r \in Calls,
         pending[key[r]].req # NoCall, pending' = [pending EXCEPT ![key[r]].enqueued = TRUE],
         UNCHANGED <<pc, key, abandonments, abandoned>>
  PROVE  pending' \in PendingTables /\ Keyed(pending)' /\ QueueKeyed' /\ AbandonedAreCounted'
<1>1. /\ pending \in PendingTables /\ key[r] \in Keys
      /\ abandoned = Cardinality(Marked(pending)) /\ Keyed(pending)
  BY EntryTypes DEF SidecarInv, Shapes, AbandonedAreCounted, Counting, Marked
<1> DEFINE e == [pending[key[r]] EXCEPT !.enqueued = TRUE]
<1>2. e \in [req : Calls \cup {NoCall}, enqueued : BOOLEAN, abandoned : BOOLEAN]
      /\ e.req = pending[key[r]].req /\ e.abandoned = pending[key[r]].abandoned
  BY <1>1 DEF PendingTables
<1>3. pending' = [pending EXCEPT ![key[r]] = e]
  OBVIOUS
<1> HIDE DEF e
<1>4. /\ pending' \in PendingTables /\ pending'[key[r]] = e
      /\ \A j \in Keys : j # key[r] => pending'[j] = pending[j]
  BY <1>1, <1>2, <1>3 DEF PendingTables
<1>5. \A j \in Keys : pending'[j].abandoned = pending[j].abandoned /\ pending'[j].req = pending[j].req
  BY <1>2, <1>4
<1>6. Keyed(pending)'
  BY <1>1, <1>4, <1>5 DEF Keyed
<1>7. QueueKeyed'
  BY <1>5 DEF SidecarInv, QueueKeyed, Closed
<1>8. Marked(pending') = Marked(pending)
  BY <1>5, MarkSame
<1>9. QED
  BY <1>1, <1>4, <1>6, <1>7, <1>8 DEF AbandonedAreCounted, Marked

\* The report that a line was written does the same, where an entry is left.
LEMMA WrittenTable ==
  ASSUME SidecarConstants, SidecarInv, sup \in Counting, sup' \in Counting, NEW r \in Calls,
         MarkWritten(r), UNCHANGED <<pc, key, abandonments, abandoned>>
  PROVE  pending' \in PendingTables /\ Keyed(pending)' /\ QueueKeyed' /\ AbandonedAreCounted'
<1>1. CASE pending[key[r]].req = NoCall
  <2>1. pending' = pending /\ pending \in PendingTables
    BY <1>1, EntryTypes DEF MarkWritten
  <2>2. QED
    BY <2>1, TableStays, ClosedStays
<1>2. CASE pending[key[r]].req # NoCall
  <2>1. pending' = [pending EXCEPT ![key[r]].enqueued = TRUE]
    BY <1>2 DEF MarkWritten
  <2>2. QED
    BY <1>2, <2>1, EnqueueTable
<1>3. QED
  BY <1>1, <1>2

\* An event of the loop after which the loop goes on: what it must leave behind.
LEMMA LoopGoesOn ==
  ASSUME SidecarConstants, SidecarInv, PollExit, UNCHANGED <<pc, key, abandonVars, childVars>>,
         pending' \in PendingTables, Keyed(pending)', QueueKeyed', AbandonedAreCounted',
         abandoned' \in 0 .. MaxAbandoned,
         ack' \in [Calls -> {"none", "ok", "duplicate", "error"}],
         resp' \in [Calls -> Calls \cup {"open", "error", "duplicate"}],
         events' \in Seq(Messages), Len(events') <= EventCap,
         lines' \in Seq(Calls \cup ServerIds), Len(lines') <= WriterCap,
         notes' \in 0 .. NotifyCap, serverQ' \in Seq(ServerIds), Len(serverQ') <= NotifyCap
  PROVE  SidecarInv'
<1>1. /\ sup' \in {"top", "drain"} /\ state' \in {"running", "cancelling", "stopped"} /\ ChildIsKilled'
  BY PollTypes DEF childVars
<1>2. SidecarTypeOK'
  BY <1>1 DEF SidecarInv, SidecarTypeOK, PendingTables, childVars
<1>3. Shapes'
  BY DEF SidecarInv, Shapes, abandonVars, childVars
<1>4. QED
  BY <1>1, <1>2, <1>3 DEF SidecarInv

\* A line for the writer, where there is room.
LEMMA LineFits ==
  ASSUME SidecarConstants, SidecarInv, Len(lines) < WriterCap, NEW x \in Calls \cup ServerIds
  PROVE  Append(lines, x) \in Seq(Calls \cup ServerIds) /\ Len(Append(lines, x)) <= WriterCap
<1>1. lines \in Seq(Calls \cup ServerIds) /\ WriterCap \in Nat
  BY DEF SidecarInv, Shapes, SidecarConstants
<1>2. QED
  BY <1>1, RoomForOne

\* One event of the loop.
LEMMA RecvKeeps ==
  ASSUME SidecarConstants, SidecarInv, SupervisorRecv
  PROVE  SidecarInv'
<1> DEFINE e == Head(events)
<1>1. /\ sup = "recv" /\ sup \in Counting
      /\ UNCHANGED <<pc, key, abandonVars, childVars>> /\ UNCHANGED <<pc, key, abandonments>>
      /\ UNCHANGED <<pc, key, overflowed, childVars>> /\ abandonments' = abandonments
      /\ events' = Tail(events) /\ events # <<>>
  BY DEF SupervisorRecv, Counting, abandonVars
<1>2. e \in Messages /\ events' \in Seq(Messages) /\ Len(events') <= EventCap
  <2>1. events \in Seq(Messages) /\ Len(events) <= EventCap /\ EventCap \in Nat
    BY DEF SidecarInv, SidecarTypeOK, Shapes, SidecarConstants
  <2>2. Head(events) \in Messages /\ Tail(events) \in Seq(Messages) /\ Len(Tail(events)) = Len(events) - 1
        /\ Len(events) \in Nat
    BY <1>1, <2>1, HeadTail
  <2>3. QED
    BY <1>1, <2>1, <2>2
<1>3. /\ pending \in PendingTables /\ abandoned \in 0 .. MaxAbandoned
      /\ ack \in [Calls -> {"none", "ok", "duplicate", "error"}]
      /\ resp \in [Calls -> Calls \cup {"open", "error", "duplicate"}]
      /\ lines \in Seq(Calls \cup ServerIds) /\ Len(lines) <= WriterCap
      /\ notes \in 0 .. NotifyCap /\ serverQ \in Seq(ServerIds) /\ Len(serverQ) <= NotifyCap
  BY EntryTypes DEF SidecarInv, SidecarTypeOK, Shapes
<1>4. ASSUME pending' = pending, abandoned' = abandoned, sup' \in Counting
      PROVE  Keyed(pending)' /\ QueueKeyed' /\ AbandonedAreCounted'
  BY <1>1, <1>4, TableStays, ClosedStays
<1> HIDE DEF e
<1>5. CASE e.kind = "register" /\ Register(e.req)
  <2>1. e.req \in Calls
    BY <1>2, <1>5 DEF Messages
  <2>2. /\ pending' \in PendingTables /\ Keyed(pending)' /\ QueueKeyed' /\ AbandonedAreCounted'
        /\ ack' \in [Calls -> {"none", "ok", "duplicate", "error"}]
    BY <1>1, <1>5, <2>1, RegisterTable
  <2>3. PollExit /\ resp' = resp /\ abandoned' = abandoned /\ lines' = lines
        /\ notes' = notes /\ serverQ' = serverQ
    BY <1>5 DEF Register, inboxVars
  <2>4. QED
    BY <1>1, <1>2, <1>3, <2>2, <2>3, LoopGoesOn
<1>6. CASE e.kind = "enqueue" /\ Enqueue(e.req)
  <2>1. e.req \in Calls
    BY <1>2, <1>6 DEF Messages
  <2>2. ack' \in [Calls -> {"none", "ok", "duplicate", "error"}]
    BY <1>3, <1>6, <2>1 DEF Enqueue
  <2>3. CASE ShutdownSupervisor(pending) /\ UNCHANGED <<abandoned, lines, inboxVars>>
    BY <1>1, <1>2, <1>3, <2>2, <2>3, ShutdownKeeps DEF inboxVars
  <2>4. CASE /\ pending[key[e.req]].req # NoCall /\ Len(lines) < WriterCap
             /\ pending' = [pending EXCEPT ![key[e.req]].enqueued = TRUE]
             /\ lines' = Append(lines, e.req) /\ PollExit /\ UNCHANGED <<resp, abandoned, inboxVars, reader>>
    <3>1. pending' \in PendingTables /\ Keyed(pending)' /\ QueueKeyed' /\ AbandonedAreCounted'
      BY <1>1, <2>1, <2>4, EnqueueTable
    <3>2. lines' \in Seq(Calls \cup ServerIds) /\ Len(lines') <= WriterCap
      BY <2>1, <2>4, LineFits
    <3>3. abandoned' = abandoned /\ resp' = resp /\ notes' = notes /\ serverQ' = serverQ
      BY <2>4 DEF inboxVars
    <3>4. QED
      BY <1>1, <1>2, <1>3, <2>2, <2>4, <3>1, <3>2, <3>3, LoopGoesOn
  <2>5. QED
    BY <1>6, <2>3, <2>4 DEF Enqueue
<1>7. CASE e.kind = "written" /\ WrittenEvent(e.req)
  <2>1. /\ ack' = ack /\ resp' = resp /\ abandoned' = abandoned /\ PollExit
        /\ lines' = lines /\ notes' = notes /\ serverQ' = serverQ
    BY <1>7 DEF WrittenEvent, inboxVars
  <2>2. e.req \in Calls /\ sup' \in Counting
    BY <1>2, <1>7, <2>1 DEF Messages, PollExit, Counting
  <2>3. pending' \in PendingTables /\ Keyed(pending)' /\ QueueKeyed' /\ AbandonedAreCounted'
    BY <1>1, <1>7, <2>1, <2>2, WrittenTable DEF WrittenEvent
  <2>4. QED
    BY <1>1, <1>2, <1>3, <2>1, <2>3, LoopGoesOn
<1>8. CASE Incoming(e)
  <2>1. CASE ShutdownSupervisor(pending) /\ UNCHANGED <<ack, lines, abandoned, inboxVars>>
    BY <1>1, <1>2, <1>3, <2>1, ShutdownKeeps DEF inboxVars
  <2>2. CASE Acceptable(e) /\ HandleIncoming(e) /\ PollExit /\ UNCHANGED <<ack, lines, reader>>
    <3>1. /\ pending' \in PendingTables /\ Keyed(pending)' /\ QueueKeyed' /\ AbandonedAreCounted'
          /\ abandoned' \in 0 .. MaxAbandoned
          /\ resp' \in [Calls -> Calls \cup {"open", "error", "duplicate"}]
      BY <1>1, <1>2, <2>2, IncomingTable
    <3>2. notes' \in 0 .. NotifyCap /\ serverQ' \in Seq(ServerIds) /\ Len(serverQ') <= NotifyCap
      BY <1>2, <2>2, IncomingInbox
    <3>3. ack' = ack /\ lines' = lines
      BY <2>2
    <3>4. QED
      BY <1>1, <1>2, <1>3, <2>2, <3>1, <3>2, <3>3, LoopGoesOn
  <2>3. QED
    BY <1>8, <2>1, <2>2 DEF Incoming
<1>9. CASE e.kind = "answer" /\ ServerResponse(e.req)
  <2>1. e.req \in ServerIds
    BY <1>2, <1>9 DEF Messages
  <2>2. CASE ShutdownSupervisor(pending) /\ UNCHANGED <<ack, abandoned, lines, notes, serverQ>>
    BY <1>1, <1>2, <1>3, <2>2, ShutdownKeeps
  <2>3. CASE /\ Len(lines) < WriterCap /\ lines' = Append(lines, e.req) /\ PollExit
             /\ UNCHANGED <<ack, resp, tableVars, notes, serverQ, reader>>
    <3>1. /\ ack' = ack /\ resp' = resp /\ pending' = pending /\ abandoned' = abandoned
          /\ notes' = notes /\ serverQ' = serverQ /\ sup' \in Counting
      BY <2>3 DEF tableVars, PollExit, Counting
    <3>2. Keyed(pending)' /\ QueueKeyed' /\ AbandonedAreCounted'
      BY <1>4, <3>1
    <3>3. lines' \in Seq(Calls \cup ServerIds) /\ Len(lines') <= WriterCap
      BY <2>1, <2>3, LineFits
    <3>4. QED
      BY <1>1, <1>2, <1>3, <2>3, <3>1, <3>2, <3>3, LoopGoesOn
  <2>4. QED
    BY <1>9, <2>2, <2>3 DEF ServerResponse
<1>10. CASE ShutdownSupervisor(pending) /\ UNCHANGED <<ack, abandoned, lines, inboxVars>>
  BY <1>1, <1>2, <1>3, <1>10, ShutdownKeeps DEF inboxVars
<1>11. CASE e.kind = "cancel" /\ CancelEvent(e.req)
  <2>1. Keyed(pending)' /\ QueueKeyed' /\ AbandonedAreCounted'
    BY <1>1, <1>11, TableStays, ClosedStays DEF CancelEvent, tableVars, Counting
  <2>2. SidecarTypeOK' /\ Shapes' /\ ChildIsKilled'
    BY <1>1, <1>2, <1>11 DEF CancelEvent, tableVars, inboxVars, childVars, abandonVars, SidecarInv,
         SidecarTypeOK, Shapes, ChildIsKilled
  <2>3. QED
    BY <2>1, <2>2 DEF SidecarInv
<1>12. QED
  BY <1>5, <1>6, <1>7, <1>8, <1>9, <1>10, <1>11 DEF SupervisorRecv, e

\* No event in time.
LEMMA TickKeeps ==
  ASSUME SidecarConstants, SidecarInv, SupervisorTick
  PROVE  SidecarInv'
<1> USE DEF SupervisorTick, callerVars, tableVars, abandonVars, inboxVars, childVars
<1>1. sup' \in {"top", "drain"} /\ state' \in {"running", "cancelling", "stopped"} /\ ChildIsKilled'
  BY PollTypes
<1>2. Keyed(pending)' /\ QueueKeyed' /\ AbandonedAreCounted'
  BY TableStays, ClosedStays DEF Counting
<1>3. SidecarTypeOK' /\ Shapes'
  BY <1>1 DEF SidecarInv, SidecarTypeOK, Shapes
<1>4. QED
  BY <1>1, <1>2, <1>3 DEF SidecarInv

\* drain_after_leader_exit routes what the child wrote.
LEMMA DrainEventKeeps ==
  ASSUME SidecarConstants, SidecarInv, DrainEvent
  PROVE  SidecarInv'
<1> DEFINE e == Head(events)
<1>1. /\ sup = "drain" /\ sup \in Counting /\ sup' = sup /\ UNCHANGED <<pc, key, abandonments>>
      /\ UNCHANGED <<overflowed, lines, state, child, received, stdout, killed>>
      /\ events' = Tail(events) /\ events # <<>>
  BY DEF DrainEvent, Counting, abandonVars, childVars
<1>2. e \in Messages /\ events' \in Seq(Messages) /\ Len(events') <= EventCap
  <2>1. events \in Seq(Messages) /\ Len(events) <= EventCap /\ EventCap \in Nat
    BY DEF SidecarInv, SidecarTypeOK, Shapes, SidecarConstants
  <2>2. Head(events) \in Messages /\ Tail(events) \in Seq(Messages) /\ Len(Tail(events)) = Len(events) - 1
        /\ Len(events) \in Nat
    BY <1>1, <2>1, HeadTail
  <2>3. QED
    BY <1>1, <2>1, <2>2
<1>3. ack' \in [Calls -> {"none", "ok", "duplicate", "error"}]
  <2>1. ack \in [Calls -> {"none", "ok", "duplicate", "error"}]
    BY DEF SidecarInv, SidecarTypeOK
  <2>2. QED
    BY <2>1 DEF DrainEvent
<1> HIDE DEF e
<1>4. /\ pending' \in PendingTables /\ Keyed(pending)' /\ QueueKeyed' /\ AbandonedAreCounted'
      /\ abandoned' \in 0 .. MaxAbandoned
      /\ resp' \in [Calls -> Calls \cup {"open", "error", "duplicate"}]
      /\ notes' \in 0 .. NotifyCap /\ serverQ' \in Seq(ServerIds) /\ Len(serverQ') <= NotifyCap
  <2>1. CASE Acceptable(e) /\ HandleIncoming(e)
    BY <1>1, <1>2, <2>1, IncomingTable, IncomingInbox
  <2>2. CASE UNCHANGED <<pending, abandoned, resp, inboxVars>>
    <3>1. Keyed(pending)' /\ QueueKeyed' /\ AbandonedAreCounted'
      BY <1>1, <2>2, TableStays, ClosedStays
    <3>2. QED
      BY <2>2, <3>1, EntryTypes DEF SidecarInv, SidecarTypeOK, Shapes, inboxVars
  <2>3. CASE e.kind = "written" /\ MarkWritten(e.req) /\ UNCHANGED <<abandoned, resp, inboxVars>>
    <3>1. e.req \in Calls /\ UNCHANGED <<pc, key, abandonments, abandoned>>
      BY <1>1, <1>2, <2>3 DEF Messages
    <3>2. pending' \in PendingTables /\ Keyed(pending)' /\ QueueKeyed' /\ AbandonedAreCounted'
      BY <1>1, <2>3, <3>1, WrittenTable
    <3>3. QED
      BY <2>3, <3>2 DEF SidecarInv, SidecarTypeOK, Shapes, inboxVars
  <2>4. QED
    BY <2>1, <2>2, <2>3 DEF DrainEvent, e
<1>5. SidecarTypeOK' /\ Shapes' /\ ChildIsKilled'
  BY <1>1, <1>2, <1>3, <1>4 DEF SidecarInv, SidecarTypeOK, Shapes, ChildIsKilled, PendingTables
<1>6. QED
  BY <1>4, <1>5 DEF SidecarInv

\* ... and applies the abandonments queued meanwhile.
LEMMA DrainDroppedKeeps ==
  ASSUME SidecarConstants, SidecarInv, DrainDropped
  PROVE  SidecarInv'
<1> DEFINE t == DrainAbandonments(pending)
<1>1. Drainable(t, Len(abandonments))
  BY RetainedDrains, DrainKeeps DEF DrainDropped, Counting
<1>2. /\ Keyed(pending)' /\ QueueKeyed' /\ AbandonedAreCounted'
      /\ pending' \in PendingTables /\ abandoned' \in 0 .. MaxAbandoned
      /\ abandonments' \in Seq(Abandonments)
      /\ resp' \in [Calls -> Calls \cup {"open", "error", "duplicate"}]
  BY <1>1, DrainedKeeps DEF DrainDropped
<1>3. SidecarTypeOK' /\ Shapes' /\ ChildIsKilled'
  BY <1>2 DEF DrainDropped, SidecarInv, SidecarTypeOK, Shapes, ChildIsKilled, PendingTables, childVars,
       inboxVars
<1>4. QED
  BY <1>2, <1>3 DEF SidecarInv

\* The ends of the supervisor: the output is exhausted, the child is reaped or
\* terminated.
LEMMA EndsKeep ==
  ASSUME SidecarConstants, SidecarInv, DrainEnds \/ Reap \/ Terminate
  PROVE  SidecarInv'
<1>1. <<>> \in Seq(Messages) /\ Len(<<>>) <= EventCap
  BY EmptySequence DEF SidecarConstants
<1>2. CASE DrainEnds
  <2>1. /\ pending' \in PendingTables /\ Keyed(pending)' /\ QueueKeyed'
        /\ abandonments' \in Seq(Abandonments)
    BY <1>2, EmptyTable DEF DrainEnds, abandonVars
  <2>2. resp' \in [Calls -> Calls \cup {"open", "error", "duplicate"}]
    BY <1>2, FailTypes DEF DrainEnds
  <2>3. AbandonedAreCounted' /\ ChildIsKilled'
    BY <1>2 DEF DrainEnds, AbandonedAreCounted, ChildIsKilled
  <2>4. SidecarTypeOK' /\ Shapes'
    BY <1>2, <2>1, <2>2 DEF DrainEnds, SidecarInv, SidecarTypeOK, Shapes, PendingTables, childVars,
         inboxVars, abandonVars
  <2>5. QED
    BY <2>1, <2>3, <2>4 DEF SidecarInv
<1>3. CASE Reap
  <2>1. Keyed(pending)' /\ QueueKeyed' /\ AbandonedAreCounted'
    BY <1>3, TableStays, ClosedStays DEF Reap, callerVars, tableVars, abandonVars, Counting
  <2>2. events' \in Seq(Messages) /\ Len(events') <= EventCap
    BY <1>1, <1>3 DEF Reap
  <2>3. SidecarTypeOK' /\ Shapes' /\ ChildIsKilled'
    BY <1>3, <2>2 DEF Reap, SidecarInv, SidecarTypeOK, Shapes, ChildIsKilled, callerVars, tableVars,
         abandonVars, inboxVars
  <2>4. QED
    BY <2>1, <2>3 DEF SidecarInv
<1>4. CASE Terminate
  <2>1. /\ pending' \in PendingTables /\ Keyed(pending)' /\ QueueKeyed'
        /\ abandonments' \in Seq(Abandonments)
    BY <1>4, EmptyTable DEF Terminate, abandonVars
  <2>2. resp' \in [Calls -> Calls \cup {"open", "error", "duplicate"}]
    BY <1>4, FailTypes DEF Terminate
  <2>3. AbandonedAreCounted' /\ ChildIsKilled'
    BY <1>4 DEF Terminate, AbandonedAreCounted, ChildIsKilled
  <2>4. events' \in Seq(Messages) /\ Len(events') <= EventCap
    BY <1>1, <1>4 DEF Terminate
  <2>5. SidecarTypeOK' /\ Shapes'
    BY <1>4, <2>1, <2>2, <2>4 DEF Terminate, SidecarInv, SidecarTypeOK, Shapes, PendingTables,
         inboxVars, abandonVars
  <2>6. QED
    BY <2>1, <2>3, <2>5 DEF SidecarInv
<1>5. QED
  BY <1>2, <1>3, <1>4

-----------------------------------------------------------------------------
(* The theorem                                                               *)

\* Nothing changes in a step of somebody else.
LEMMA SidecarStutters ==
  ASSUME SidecarInv, UNCHANGED sidecarVars
  PROVE  SidecarInv'
<1> USE DEF sidecarVars, callerVars, tableVars, abandonVars, inboxVars, childVars, cancelVars
<1>1. Keyed(pending)' /\ QueueKeyed' /\ AbandonedAreCounted'
  BY TableStays, ClosedStays
<1>2. SidecarTypeOK' /\ Shapes' /\ ChildIsKilled'
  BY DEF SidecarInv, SidecarTypeOK, Shapes, ChildIsKilled
<1>3. QED
  BY <1>1, <1>2 DEF SidecarInv

\* The inductive invariant of callers, supervisor, pipes and child, when no id is
\* used twice.
THEOREM SidecarInvariant ==
  ASSUME SidecarConstants, ~ReuseIds
  PROVE  SidecarSpec => []SidecarInv
<1>1. SidecarInit => SidecarInv
  BY SidecarStarts
<1>2. SidecarInv /\ [SidecarNext]_sidecarVars => SidecarInv'
  <2> SUFFICES ASSUME SidecarInv, [SidecarNext]_sidecarVars PROVE SidecarInv'
    OBVIOUS
  <2>1. ASSUME NEW r \in Calls, Request(r) \/ DropRequest(r) \/ CallerStep(r) PROVE SidecarInv'
    BY <2>1, SubmitKeeps, DropRequestKeeps, SendKeeps, AcknowledgedKeeps, RespondedKeeps DEF CallerStep
  <2>2. CASE (\E x \in Cancels : CancelStep(x)) \/ TakeNotification \/ AnswerServer \/ DropSidecar
    BY <2>2, UserKeeps
  <2>3. CASE SupervisorStep
    BY <2>3, TopKeeps, RecvKeeps, TickKeeps, DrainEventKeeps, DrainDroppedKeeps, EndsKeep
       DEF SupervisorStep
  <2>4. CASE WriterStep \/ ReaderStep \/ ChildWrites \/ ChildExits
    BY <2>4, WriterKeeps, StdoutKeeps, ChildKeeps
  <2>5. CASE UNCHANGED sidecarVars
    BY <2>5, SidecarStutters
  <2>6. QED
    BY <2>1, <2>2, <2>3, <2>4, <2>5 DEF SidecarNext
<1>3. QED
  BY <1>1, <1>2, PTL DEF SidecarSpec

\* However requests are dropped, answered late or cut off by the end of the
\* child, abandoned_count is the number of ids that wait for a late response,
\* the budget and the channels stay within their limits, and a supervisor that
\* is gone has killed its child (supervisor_worker, PendingRegistration::drop).
THEOREM DroppedRequestsAreCounted ==
  ASSUME SidecarConstants, ~ReuseIds
  PROVE  SidecarSpec => []DroppedAreCounted
<1>1. SidecarInv => DroppedAreCounted
  BY DEF SidecarInv, DroppedAreCounted
<1>2. QED
  BY <1>1, SidecarInvariant, PTL

-----------------------------------------------------------------------------
(* The inductive invariant of the adapter                                    *)

\* The values that the state takes.
NoticeKinds == {"ThreadStarted", "TurnStarted", "Delta", "MessageDone", "Usage", "Ignorable",
                "Malformed", "CompactStarted", "CompactDone", "TurnCompleted", "TurnFailed"}
AppEvents   == [k : NoticeKinds \cup {"ApprovalRequested"}, t : Nat, m : Nat, d : Seq(Nat),
                could : BOOLEAN]
Asks        == [r : Nat, t : Nat, kind : EffectKinds]
Replies     == [r : Nat, t : Nat, kind : EffectKinds, decision : {"Allow", "Deny"},
                mode : PermissionModes, live : BOOLEAN]
Runnings    == [t : Nat, started : BOOLEAN, compacts : BOOLEAN, item : Nat, message : Nat,
                open : BOOLEAN, deltas : Nat, usage : BOOLEAN]
Compactions == [turn : Nat, item : BOOLEAN, completed : BOOLEAN, on : BOOLEAN]
Written     == [t : Nat, m : Nat, d : Nat]
Texts       == [t : Nat, m : Nat, d : Seq(Nat)]
Refusals    == [call : {"none", "Start", "CompactTurn", "CompactItems", "New", "Connected", "Listed"},
                late : BOOLEAN]

\* The provider and its queues.
ProviderTypes ==
  /\ notices \in Seq(AppEvents) /\ requests \in Seq(Asks) /\ running \in Runnings
  /\ turns \in Nat /\ turns <= MaxTurns /\ written \subseteq Written /\ compacted \subseteq 1 .. turns

\* The adapter.
AdapterTypes ==
  /\ active \in Nat /\ mode \in PermissionModes /\ compaction \in Compactions
  /\ outstanding \subseteq Asks /\ fragments \subseteq Texts /\ reports \subseteq Texts
  /\ buffered \in Seq(AppEvents) /\ held \in Seq(AppEvents) /\ late \in BOOLEAN
  /\ call \in {"none", "Start", "CompactTurn", "CompactItems"}
  /\ seen \in Seq(AppEvents) /\ answers \in Seq(Replies) /\ failed \in Seq(Refusals)

\* The turn that runs, the active one and the compacting one are the last that
\* began, and a turn that runs is active or compacts.
LastTurn ==
  /\ running.t = NoTurnId => running = Resting
  /\ running.t # NoTurnId =>
       /\ running.t = turns
       /\ IF running.compacts THEN compaction.on ELSE active = turns
       /\ ~running.started => running.deltas = 0 /\ running.message = 0 /\ ~running.open
       /\ running.open => ~running.compacts
  /\ active # NoTurnId => active = turns /\ turns \notin compacted
  /\ IF compaction.on THEN active = NoTurnId /\ turns \in compacted /\ compaction.turn <= turns
     ELSE compaction = NoCompaction

\* The notices are in the order of their turns, a turn begins with its start, and
\* nothing follows its end.
NoticesInOrder ==
  /\ \A i \in DOMAIN notices : notices[i].t <= turns
  /\ \A i, j \in DOMAIN notices : i < j => notices[i].t <= notices[j].t
  /\ \A i \in DOMAIN notices : notices[i].k = "ThreadStarted" <=> notices[i].t = NoTurnId
  /\ \A i, j \in DOMAIN notices :
       notices[i].k = "TurnStarted" /\ notices[j].t = notices[i].t => i <= j
  /\ \A i, j \in DOMAIN notices : Ends(notices[i]) /\ notices[j].t = notices[i].t => j <= i
  /\ \A i \in DOMAIN notices : Ends(notices[i]) => running.t # notices[i].t
  /\ running.t # NoTurnId /\ ~running.started => \A i \in DOMAIN notices : notices[i].t # running.t
  /\ \A i \in DOMAIN notices : notices[i].k # "ApprovalRequested"

\* A compaction is known by the start of its turn: what is queued of it is queued
\* while it goes on, and once its start is read nothing of another turn is.
CompactionKnown ==
  /\ \A i \in DOMAIN notices : notices[i].t \in compacted => compaction.on /\ notices[i].t = turns
  /\ \A i \in DOMAIN notices :
       /\ notices[i].k \in {"Delta", "MessageDone"} => notices[i].t \notin compacted
       /\ notices[i].k \in {"CompactStarted", "CompactDone"} => notices[i].t \in compacted
  /\ compaction.on /\ compaction.turn = turns =>
       /\ \A i \in DOMAIN notices : notices[i].t = turns /\ notices[i].k # "TurnStarted"
       /\ running.t # NoTurnId => running.started
  /\ compaction.item => compaction.turn = turns
  /\ compaction.completed => compaction.item

\* A compaction that no call awaits is one that a failed call has left.
Abandoned == compaction.on /\ call = "none" => failed # <<>>

\* The start of turn t is queued, or still to come.
StartAhead(t) ==
  \/ \E i \in DOMAIN notices : notices[i].k = "TurnStarted" /\ notices[i].t = t
  \/ running.t = t /\ ~running.started

\* It was read, and kept.
StartRead(t) ==
  \/ \E i \in DOMAIN seen : seen[i].k = "TurnStarted" /\ seen[i].t = t
  \/ \E i \in DOMAIN buffered : buffered[i].k = "TurnStarted" /\ buffered[i].t = t

\* What is kept between two calls: the start of a turn and of the thread, or the end
\* of a turn behind its report.
KeptEvents ==
  /\ \A i \in DOMAIN buffered :
       /\ buffered[i].k \in {"ThreadStarted", "TurnStarted", "TurnCompleted", "TurnFailed"}
       /\ buffered[i].k = "ThreadStarted" <=> buffered[i].t = NoTurnId
       /\ buffered[i].t <= turns
       /\ call = "Start" => buffered[i].t < active
  /\ Len(buffered) <= 2
  /\ Len(buffered) = 2 => buffered[1].k = "ThreadStarted" /\ buffered[2].k = "TurnStarted"
  /\ call = "none" => held = <<>>
  /\ call = "Start" =>
       /\ Len(held) <= 1
       /\ \A i \in DOMAIN held : held[i].k = "ThreadStarted" /\ held[i].t = NoTurnId
       /\ held # <<>> => \A i \in DOMAIN buffered : buffered[i].k # "ThreadStarted"
  /\ call = "CompactItems" => buffered = <<>>
  /\ \A i \in DOMAIN notices : notices[i].k = "ThreadStarted" =>
       i = 1 /\ turns = 1 /\ call = "Start" /\ seen = <<>> /\ buffered = <<>> /\ held = <<>>
  /\ turns = 0 => notices = <<>> /\ seen = <<>> /\ buffered = <<>> /\ held = <<>>

\* A start is read once and before anything else of its turn; a call that awaits one
\* has not read it.
StartsFirst ==
  /\ active # NoTurnId => StartAhead(active) \/ (call = "none" /\ StartRead(active))
  /\ call = "Start" => active # NoTurnId /\ StartAhead(active)
  /\ call \in {"CompactTurn", "CompactItems"} => compaction.on
  /\ call = "CompactTurn" /\ ~late => StartAhead(turns)
  /\ \A t \in 1 .. turns : StartAhead(t) =>
       /\ \A i \in DOMAIN seen : seen[i].t # t
       /\ \A i \in DOMAIN buffered : buffered[i].t # t
       /\ \A i \in DOMAIN requests : requests[i].t = t =>
            \E j \in DOMAIN notices : notices[j].k = "TurnStarted" /\ notices[j].t = t

\* A call that found the queues empty finds only what belongs to its turn.
OnTime ==
  /\ call \in {"Start", "CompactTurn"} /\ ~late =>
       /\ buffered = <<>>
       /\ \A i \in DOMAIN notices : notices[i].t \in {NoTurnId, turns}
       /\ \A i \in DOMAIN requests : requests[i].t = active
  /\ call = "CompactTurn" /\ ~late =>
       compaction.turn = NoTurnId /\ \A i \in DOMAIN notices : notices[i].t # NoTurnId

\* The end of turn t was read.
EndRead(t) ==
  \/ \E i \in DOMAIN seen : Ends(seen[i]) /\ seen[i].t = t
  \/ \E i \in DOMAIN buffered : Ends(buffered[i]) /\ buffered[i].t = t

\* Neither the active turn nor a compaction has ended, and an event that is kept is
\* of a turn whose end was not handed out.
NotEnded ==
  /\ \A i \in DOMAIN seen : seen[i].t <= turns
  /\ active # NoTurnId => ~EndRead(active)
  /\ compaction.on /\ compaction.turn # NoTurnId => ~EndRead(compaction.turn)
  /\ compaction.on => ~EndRead(turns)
  /\ \A i \in DOMAIN buffered : buffered[i].t # NoTurnId =>
       /\ \A j \in DOMAIN seen : ~(Ends(seen[j]) /\ seen[j].t = buffered[i].t)
       /\ \/ buffered[i].k = "TurnStarted"
          \/ failed # <<>> /\ buffered[i].t \in compacted
          \/ \E j \in DOMAIN seen : seen[j].k = "TurnStarted" /\ seen[j].t = buffered[i].t
  /\ \A i \in DOMAIN seen : seen[i].k \in {"Delta", "MessageDone"} =>
       seen[i].t \notin compacted /\ seen[i].t # NoTurnId

\* The requests that are queued, with the engine or answered.
AskedIds ==
  {requests[i].r : i \in DOMAIN requests} \cup {x.r : x \in outstanding}
    \cup {answers[i].r : i \in DOMAIN answers}

\* Every request is in one of these places only, and their ids have no gap.
AskedOnce ==
  /\ \E n \in Nat : AskedIds = 1 .. n
  /\ \A i, j \in DOMAIN requests : requests[i].r = requests[j].r => i = j
  /\ \A x, y \in outstanding : x.r = y.r => x = y
  /\ \A i \in DOMAIN requests : /\ \A x \in outstanding : x.r # requests[i].r
                                /\ \A j \in DOMAIN answers : answers[j].r # requests[i].r
                                /\ requests[i].t \in 1 .. turns
  /\ \A x \in outstanding, j \in DOMAIN answers : answers[j].r # x.r

-----------------------------------------------------------------------------
(* The text of the active turn                                               *)

\* Numbers in increasing order.
Increasing(s) == \A x, y \in DOMAIN s : x < y => s[x] < s[y]

\* Where text of turn t is queued.
TextAhead(t) == {i \in DOMAIN notices : notices[i].k = "Delta" /\ notices[i].t = t}
\* Where the end of a message of turn t is queued.
DonesAhead(t) == {i \in DOMAIN notices : notices[i].k = "MessageDone" /\ notices[i].t = t}

\* Fragment n of turn t was written in message m.
Source(t, m, n) == [t |-> t, m |-> m, d |-> n] \in written

\* The provider numbers the fragments of a turn, message after message.
WrittenInOrder ==
  /\ \A w \in written : w.t # NoTurnId /\ w.t <= turns /\ w.t \notin compacted
  /\ \A v, w \in written : v.t = w.t /\ v.d <= w.d => v.m <= w.m
  /\ \A w \in written : w.t = running.t => w.d <= running.deltas /\ w.m <= running.message
  /\ \A f \in fragments \cup reports : f.t <= turns /\ f.t \notin compacted

\* The engine has read text in order, and each message that was done after the others.
SeenInOrder(t) ==
  /\ InOrder(t)
  /\ \A i, j \in DonesOf(t) : i < j => seen[i].m < seen[j].m

\* Whatever was read of turn t, or is queued, was written so.
Sourced(t) ==
  /\ \A i \in TextOf(t) :
       seen[i].d # <<>> /\ \A x \in DOMAIN seen[i].d : Source(t, seen[i].m, seen[i].d[x])
  /\ \A i \in TextAhead(t) : Len(notices[i].d) = 1 /\ Source(t, notices[i].m, notices[i].d[1])
  /\ \A f \in fragments \cup reports : f.t = t =>
       f.d # <<>> /\ Increasing(f.d) /\ \A x \in DOMAIN f.d : Source(t, f.m, f.d[x])

\* What is withheld of a message comes after everything read, and its message is not done.
WithheldLast(t) ==
  /\ \A f, g \in fragments : f.t = t /\ g.t = t => f = g
  /\ \A f \in fragments : f.t = t =>
       /\ \A i \in TextOf(t) : \A x \in DOMAIN seen[i].d, y \in DOMAIN f.d : seen[i].d[x] < f.d[y]
       /\ \A j \in DonesOf(t) : seen[j].m < f.m

\* The pending report is of the last message that was done, and its end.
ReportLast(t) ==
  /\ \A f, g \in reports : f.t = t /\ g.t = t => f = g
  /\ \A p \in reports : p.t = t =>
       /\ \E j \in DonesOf(t) : seen[j].m = p.m
       /\ \A j \in DonesOf(t) : seen[j].m <= p.m
       /\ \A i \in TextOf(t) : seen[i].m = p.m =>
            \A x \in DOMAIN seen[i].d, y \in DOMAIN p.d : seen[i].d[x] < p.d[y]

\* What is queued comes after what was read.
TextAfter(t) ==
  /\ \A i, j \in TextAhead(t) : i < j => notices[i].d[1] < notices[j].d[1]
  /\ \A i \in TextAhead(t) :
       /\ \A j \in TextOf(t) : \A x \in DOMAIN seen[j].d : seen[j].d[x] < notices[i].d[1]
       /\ \A f \in fragments : f.t = t => \A x \in DOMAIN f.d : f.d[x] < notices[i].d[1]
       /\ \A j \in DonesOf(t) : seen[j].m < notices[i].m

\* A message that is done in the queue is later than those done before, and nothing
\* of it follows.
DonesAfter(t) ==
  \A i \in DonesAhead(t) :
    /\ \A j \in DonesOf(t) : seen[j].m < notices[i].m
    /\ \A j \in TextOf(t) : seen[j].m <= notices[i].m
    /\ \A f \in fragments : f.t = t => f.m <= notices[i].m
    /\ \A j \in TextAhead(t) : IF j < i THEN notices[j].m <= notices[i].m
                                        ELSE notices[i].m < notices[j].m
    /\ \A j \in DonesAhead(t) : i < j => notices[i].m < notices[j].m

\* The end of message m is queued before position n.
DoneBefore(t, m, n) == \E j \in DonesAhead(t) : j < n /\ notices[j].m = m

\* Another message is queued only behind the end of the one that is under way.
OneByOne(t) ==
  \A i \in TextAhead(t) \cup DonesAhead(t) :
    /\ \A f \in fragments : f.t = t /\ f.m # notices[i].m => DoneBefore(t, f.m, i)
    /\ \A j \in TextAhead(t) : j < i /\ notices[j].m # notices[i].m => DoneBefore(t, notices[j].m, i)

\* A message with text is done, open, or cut off by the failure of its turn.
MessagesClose(t) ==
  /\ \A w \in written : w.t = t =>
       \/ \E j \in DonesOf(t) : seen[j].m = w.m
       \/ \E j \in DonesAhead(t) : notices[j].m = w.m
       \/ running.t = t /\ running.open /\ w.m = running.message
       \/ /\ running.t # t
          /\ \A i \in DOMAIN notices : ~(notices[i].k = "TurnCompleted" /\ notices[i].t = t)
  /\ running.t = t =>
       /\ \A j \in DonesOf(t) : seen[j].m <= running.message /\ (running.open => seen[j].m < running.message)
       /\ \A j \in DonesAhead(t) :
            notices[j].m <= running.message /\ (running.open => notices[j].m < running.message)

\* The fragment was handed to the engine, or a later message superseded it.
Arrived(w) ==
  \/ \E i \in TextOf(w.t) : \E x \in DOMAIN seen[i].d : seen[i].d[x] = w.d
  \/ \E j \in DonesOf(w.t) : w.m < seen[j].m

\* No fragment of the turn is lost.
NothingLost(t) ==
  \A w \in written : w.t = t =>
    \/ Arrived(w)
    \/ \E i \in TextAhead(t) : notices[i].d[1] = w.d
    \/ \E f \in fragments \cup reports : f.t = t /\ f.m = w.m /\ \E x \in DOMAIN f.d : f.d[x] = w.d

\* All of it, of the active turn.
Reading(t) ==
  /\ SeenInOrder(t) /\ Sourced(t) /\ WithheldLast(t) /\ ReportLast(t) /\ TextAfter(t)
  /\ DonesAfter(t) /\ OneByOne(t) /\ MessagesClose(t) /\ NothingLost(t)

\* The completion of turn t was read.
Completed(t) ==
  \/ \E i \in DOMAIN seen : seen[i].k = "TurnCompleted" /\ seen[i].t = t
  \/ \E i \in DOMAIN buffered : buffered[i].k = "TurnCompleted" /\ buffered[i].t = t

\* What is left of a turn that completed.
WasRead(t) == SeenInOrder(t) /\ \A w \in written : w.t = t => Arrived(w)

\* The inductive invariant.
AppInv ==
  /\ ProviderTypes /\ AdapterTypes /\ LastTurn /\ NoticesInOrder /\ CompactionKnown
  /\ Abandoned /\ KeptEvents /\ StartsFirst /\ OnTime /\ NotEnded /\ AskedOnce
  /\ WrittenInOrder
  /\ active # NoTurnId => Reading(active)
  /\ \A t \in 1 .. turns : Completed(t) => WasRead(t)
  /\ AnswerJustified /\ TurnsBracketed /\ StartsUnlessLate
-----------------------------------------------------------------------------
(* Queues                                                                    *)

\* What a queue is after an entry was added.
LEMMA Appended ==
  ASSUME NEW S, NEW s \in Seq(S), NEW e \in S, NEW q, q = Append(s, e)
  PROVE  /\ q \in Seq(S) /\ Len(s) \in Nat /\ Len(q) = Len(s) + 1 /\ q # <<>>
         /\ DOMAIN s = 1 .. Len(s) /\ DOMAIN q = 1 .. Len(s) + 1
         /\ Len(s) + 1 \in DOMAIN q /\ q[Len(s) + 1] = e
         /\ \A i \in DOMAIN s : i \in DOMAIN q /\ q[i] = s[i] /\ s[i] \in S /\ i \in Nat /\ i < Len(s) + 1
         /\ \A i \in DOMAIN q : i \in Nat /\ (i = Len(s) + 1 \/ (i \in DOMAIN s /\ i < Len(s) + 1))
  OBVIOUS

\* What it is after its first was taken.
LEMMA Popped ==
  ASSUME NEW S, NEW s \in Seq(S), s # <<>>, NEW q, q = Tail(s)
  PROVE  /\ q \in Seq(S) /\ Len(s) \in Nat /\ Len(q) = Len(s) - 1 /\ Head(s) = s[1] /\ s[1] \in S
         /\ 1 \in DOMAIN s
         /\ \A i \in DOMAIN q : i \in Nat /\ 1 <= i /\ i + 1 \in DOMAIN s /\ q[i] = s[i + 1]
         /\ \A i \in DOMAIN s : /\ i \in Nat /\ 1 <= i
                                /\ i = 1 \/ (i - 1 \in DOMAIN q /\ i - 1 \in Nat /\ q[i - 1] = s[i])
  OBVIOUS

\* The positions of a queue.
LEMMA Positions ==
  ASSUME NEW S, NEW s \in Seq(S)
  PROVE  /\ Len(s) \in Nat /\ DOMAIN s = 1 .. Len(s)
         /\ \A i \in DOMAIN s : i \in Nat /\ 1 <= i /\ i <= Len(s) /\ s[i] \in S
         /\ (s = <<>>) = (Len(s) = 0)
         /\ s # <<>> => 1 \in DOMAIN s /\ Head(s) = s[1]
  OBVIOUS

\* The fields of events.
LEMMA EventTypes ==
  ASSUME NEW e \in AppEvents
  PROVE  /\ e.k \in NoticeKinds \cup {"ApprovalRequested"} /\ e.t \in Nat /\ e.m \in Nat
         /\ e.d \in Seq(Nat) /\ e.could \in BOOLEAN
  BY DEF AppEvents

\* The turns and messages of a queue of events are numbers.
LEMMA EventNumbers ==
  ASSUME NEW s \in Seq(AppEvents)
  PROVE  \A i \in DOMAIN s : s[i].t \in Nat /\ s[i].m \in Nat /\ s[i].d \in Seq(Nat)
<1>1. \A i \in DOMAIN s : s[i] \in AppEvents
  OBVIOUS
<1>2. QED
  BY <1>1, EventTypes

-----------------------------------------------------------------------------
(* What the provider does                                                    *)

\* The adapter, in the order of its definition.
AdapterStays ==
  UNCHANGED <<active, mode, compaction, outstanding, fragments, reports, buffered, call, held,
              late, seen, answers, decided, accepted, failed, turns, compacted, stage>>

\* The provider writes one notice of the turn it runs.
Writes(e) ==
  /\ AdapterStays /\ requests' = requests
  /\ notices' = Append(notices, e) /\ e \in AppEvents
  /\ running.t # NoTurnId /\ e.t = running.t
  /\ e.k \notin {"ThreadStarted", "ApprovalRequested"}
  /\ e.k = "TurnStarted" <=> ~running.started
  /\ e.k \in {"Delta", "MessageDone"} => ~running.compacts
  /\ e.k \in {"CompactStarted", "CompactDone"} => running.compacts
  /\ IF Ends(e) THEN running' = Resting
     ELSE /\ running' \in Runnings /\ running'.t = running.t /\ running'.started
          /\ running'.compacts = running.compacts

\* The text it writes.
WritesText(e) ==
  /\ e.k = "Delta" /\ Len(e.d) = 1 /\ e.d[1] = running.deltas + 1
  /\ e.m = IF running.open THEN running.message ELSE running.message + 1
  /\ written' = written \cup {[t |-> running.t, m |-> e.m, d |-> running.deltas + 1]}
  /\ running'.open /\ running'.message = e.m /\ running'.deltas = running.deltas + 1

\* The end of a message.
WritesDone(e) ==
  /\ e.k = "MessageDone" /\ running.open /\ e.m = running.message
  /\ written' = written /\ running' = [running EXCEPT !.open = FALSE]

\* Anything else.
WritesPlain(e) ==
  /\ e.k \notin {"Delta", "MessageDone"} /\ written' = written
  /\ Ends(e) \/ (running'.open = running.open /\ running'.message = running.message
                 /\ running'.deltas = running.deltas)
  /\ e.k = "TurnCompleted" => ~running.open

\* The events without text.
LEMMA EventFields ==
  ASSUME NEW k \in NoticeKinds \cup {"ApprovalRequested"}, NEW t \in Nat
  PROVE  /\ Event(k, t) \in AppEvents /\ Event(k, t).k = k /\ Event(k, t).t = t
         /\ \A m \in Nat : LET e == [Event(k, t) EXCEPT !.m = m]
                           IN e \in AppEvents /\ e.k = k /\ e.t = t /\ e.m = m
<1>1. <<>> \in Seq(Nat)
  OBVIOUS
<1>2. QED
  BY <1>1 DEF Event, AppEvents

\* The provider's own record changes field by field.
LEMMA RunningFields ==
  ASSUME NEW r \in Runnings
  PROVE  /\ r.t \in Nat /\ r.started \in BOOLEAN /\ r.compacts \in BOOLEAN /\ r.item \in Nat
         /\ r.message \in Nat /\ r.open \in BOOLEAN /\ r.deltas \in Nat /\ r.usage \in BOOLEAN
  BY DEF Runnings

\* The two agree on what the text of a turn depends on.
SameText(r, s) ==
  /\ r \in Runnings /\ r.t = s.t /\ r.compacts = s.compacts
  /\ r.open = s.open /\ r.message = s.message /\ r.deltas = s.deltas

\* What a step of the provider leaves of the turn that runs.
LEMMA RunningSteps ==
  ASSUME NEW r \in Runnings, NEW s,
         s \in {[r EXCEPT !.started = TRUE], [r EXCEPT !.usage = TRUE], [r EXCEPT !.item = @ + 1]}
  PROVE  SameText(s, r) /\ (r.started \/ s = [r EXCEPT !.started = TRUE] => s.started)
<1>1. r.item + 1 \in Nat
  BY RunningFields
<1>2. CASE s = [r EXCEPT !.started = TRUE]
  BY <1>2 DEF Runnings, SameText
<1>3. CASE s = [r EXCEPT !.usage = TRUE]
  BY <1>3 DEF Runnings, SameText
<1>4. CASE s = [r EXCEPT !.item = @ + 1]
  BY <1>1, <1>4 DEF Runnings, SameText
<1>5. QED
  BY <1>2, <1>3, <1>4

\* A message that closes.
LEMMA RunningCloses ==
  ASSUME NEW r \in Runnings, NEW s, s = [r EXCEPT !.open = FALSE]
  PROVE  /\ s \in Runnings /\ s.t = r.t /\ s.compacts = r.compacts /\ s.started = r.started
         /\ ~s.open /\ s.message = r.message /\ s.deltas = r.deltas
  BY DEF Runnings

\* A fragment that is written.
LEMMA RunningWrites ==
  ASSUME running \in Runnings, NEW m \in Nat,
         running' = [running EXCEPT !.message = m, !.open = TRUE, !.deltas = @ + 1]
  PROVE  /\ running' \in Runnings /\ running'.t = running.t /\ running'.compacts = running.compacts
         /\ running'.started = running.started /\ running'.open /\ running'.message = m
         /\ running'.deltas = running.deltas + 1
<1>1. running.deltas + 1 \in Nat
  BY RunningFields
<1>2. QED
  BY <1>1 DEF Runnings

\* Every notice is one of these.
LEMMA ProviderWrites ==
  ASSUME AppInv, ReportStart \/ WriteDelta \/ CloseMessage \/ WriteUsage \/ CompactItem
                 \/ CompleteTurn \/ AbortTurn
  PROVE  \E e : Writes(e) /\ (WritesText(e) \/ WritesDone(e) \/ WritesPlain(e))
<1> USE DEF Emit, ProviderOnly, Adapter, AdapterStays, Ends, NoTurnId
<1>1. running \in Runnings /\ running.t \in Nat /\ (running.t = 0 => ~running.started /\ ~running.open)
      /\ (running.open => running.started)
      /\ (running.open => ~running.compacts)
  BY DEF AppInv, ProviderTypes, LastTurn, Runnings, Resting
<1>2. CASE ReportStart
  <2> DEFINE e == Event("TurnStarted", running.t)
  <2>0. e \in AppEvents /\ e.k = "TurnStarted" /\ e.t = running.t
    BY <1>1, EventFields DEF NoticeKinds
  <2> HIDE DEF e
  <2>1. notices' = Append(notices, e)
    BY <1>2 DEF ReportStart, e
  <2>2. SameText(running', running) /\ running'.started
    BY <1>1, <1>2, RunningSteps DEF ReportStart
  <2>3. Writes(e) /\ WritesPlain(e)
    BY <1>1, <1>2, <2>0, <2>1, <2>2 DEF ReportStart, Writes, WritesPlain, SameText
  <2>4. QED
    BY <2>3
<1>3. CASE WriteDelta
  <2>1. PICK could \in BOOLEAN :
          LET m == IF running.open THEN running.message ELSE running.message + 1
          IN /\ running.started /\ ~running.compacts
             /\ running' = [running EXCEPT !.message = m, !.open = TRUE, !.deltas = @ + 1]
             /\ notices' = Append(notices, Delta(running.t, m, <<running.deltas + 1>>, could))
             /\ written' = written \cup {[t |-> running.t, m |-> m, d |-> running.deltas + 1]}
             /\ AdapterStays /\ requests' = requests
    BY <1>3 DEF WriteDelta
  <2> DEFINE m == IF running.open THEN running.message ELSE running.message + 1
             e == Delta(running.t, m, <<running.deltas + 1>>, could)
  <2>2. running.message \in Nat /\ running.deltas \in Nat /\ m \in Nat
    BY <1>1, RunningFields
  <2>3. e \in AppEvents /\ e.k = "Delta" /\ e.t = running.t /\ e.m = m /\ e.d = <<running.deltas + 1>>
    BY <1>1, <2>2 DEF Delta, AppEvents, NoticeKinds
  <2>4. /\ running' \in Runnings /\ running'.t = running.t /\ running'.started
        /\ running'.compacts = running.compacts /\ running'.open /\ running'.message = m
        /\ running'.deltas = running.deltas + 1
    <3>1. running' = [running EXCEPT !.message = m, !.open = TRUE, !.deltas = @ + 1]
      BY <2>1
    <3>2. running.started
      BY <2>1
    <3>3. running \in Runnings /\ m \in Nat
      BY <1>1, <2>2
    <3> HIDE DEF m
    <3>4. /\ running' \in Runnings /\ running'.t = running.t /\ running'.started = running.started
          /\ running'.compacts = running.compacts /\ running'.open /\ running'.message = m
          /\ running'.deltas = running.deltas + 1
      BY <3>1, <3>3, RunningWrites
    <3>5. QED
      BY <3>2, <3>4
  <2>5. notices' = Append(notices, e)
    BY <2>1
  <2>6. written' = written \cup {[t |-> running.t, m |-> e.m, d |-> running.deltas + 1]}
    BY <2>1, <2>3
  <2> HIDE DEF e
  <2>7. Writes(e)
    BY <1>1, <2>1, <2>3, <2>4, <2>5 DEF Writes
  <2>8. WritesText(e)
    BY <2>1, <2>3, <2>4, <2>6 DEF WritesText
  <2>9. QED
    BY <2>7, <2>8
<1>4. CASE CloseMessage
  <2> DEFINE e == MessageDone(running.t, running.message)
  <2>1. e \in AppEvents /\ e.k = "MessageDone" /\ e.t = running.t /\ e.m = running.message
    BY <1>1, EventFields, RunningFields DEF NoticeKinds, MessageDone
  <2> HIDE DEF e
  <2>2. notices' = Append(notices, e)
    BY <1>4 DEF CloseMessage, e
  <2>3. Writes(e)
    BY <1>1, <1>4, <2>1, <2>2, RunningCloses DEF CloseMessage, Writes
  <2>4. WritesDone(e)
    BY <1>4, <2>1 DEF CloseMessage, WritesDone
  <2>5. QED
    BY <2>3, <2>4
<1>5. CASE WriteUsage
  <2>1. PICK k \in {"Usage", "Ignorable", "Malformed"} : notices' = Append(notices, Event(k, running.t))
    BY <1>5 DEF WriteUsage
  <2> DEFINE e == Event(k, running.t)
  <2>2. e \in AppEvents /\ e.k = k /\ e.t = running.t
    BY <1>1, EventFields DEF NoticeKinds
  <2> HIDE DEF e
  <2>3. notices' = Append(notices, e)
    BY <2>1 DEF e
  <2>4. SameText(running', running) /\ running'.started
    BY <1>1, <1>5, RunningSteps DEF WriteUsage
  <2>5. Writes(e) /\ WritesPlain(e)
    BY <1>1, <1>5, <2>2, <2>3, <2>4 DEF WriteUsage, Writes, WritesPlain, SameText
  <2>6. QED
    BY <2>5
<1>6. CASE CompactItem
  <2> DEFINE k == IF running.item = 0 THEN "CompactStarted" ELSE "CompactDone"
             e == Event(k, running.t)
  <2>1. k \in {"CompactStarted", "CompactDone"}
    OBVIOUS
  <2>2. notices' = Append(notices, e)
    BY <1>6 DEF CompactItem
  <2> HIDE DEF k
  <2>3. e \in AppEvents /\ e.k = k /\ e.t = running.t
    BY <1>1, <2>1, EventFields DEF NoticeKinds
  <2> HIDE DEF e
  <2>4. SameText(running', running) /\ running'.started
    BY <1>1, <1>6, RunningSteps DEF CompactItem
  <2>5. Writes(e) /\ WritesPlain(e)
    BY <1>1, <1>6, <2>1, <2>2, <2>3, <2>4 DEF CompactItem, Writes, WritesPlain, SameText
  <2>6. QED
    BY <2>5
<1>7. CASE CompleteTurn
  <2> DEFINE e == Event("TurnCompleted", running.t)
  <2>0. e \in AppEvents /\ e.k = "TurnCompleted" /\ e.t = running.t
    BY <1>1, EventFields DEF NoticeKinds
  <2> HIDE DEF e
  <2>1. notices' = Append(notices, e)
    BY <1>7 DEF CompleteTurn, e
  <2>2. Writes(e) /\ WritesPlain(e)
    BY <1>1, <1>7, <2>0, <2>1 DEF CompleteTurn, Writes, WritesPlain
  <2>3. QED
    BY <2>2
<1>8. CASE AbortTurn
  <2> DEFINE e == Event("TurnFailed", running.t)
  <2>0. e \in AppEvents /\ e.k = "TurnFailed" /\ e.t = running.t
    BY <1>1, EventFields DEF NoticeKinds
  <2> HIDE DEF e
  <2>1. notices' = Append(notices, e)
    BY <1>8 DEF AbortTurn, e
  <2>2. Writes(e) /\ WritesPlain(e)
    BY <1>1, <1>8, <2>0, <2>1 DEF AbortTurn, Writes, WritesPlain
  <2>3. QED
    BY <2>2
<1>9. QED
  BY <1>2, <1>3, <1>4, <1>5, <1>6, <1>7, <1>8

\* What a notice that is written leaves as it was.
LEMMA WritesFacts ==
  ASSUME AppInv, NEW e, Writes(e)
  PROVE  /\ running \in Runnings /\ running' \in Runnings /\ notices \in Seq(AppEvents)
         /\ running.t = turns /\ turns \in Nat /\ turns # 0 /\ e.t = turns
         /\ Ends(e) => running'.t = 0 /\ ~running'.started
         /\ ~Ends(e) => running'.t = turns /\ running'.started
         /\ AdapterTypes'
<1> USE DEF NoTurnId
<1>1. running \in Runnings /\ notices \in Seq(AppEvents) /\ running.t = turns /\ turns \in Nat
  BY DEF AppInv, ProviderTypes, LastTurn, Writes
<1>2. Resting \in Runnings /\ Resting.t = 0 /\ ~Resting.started
  BY DEF Resting, Runnings
<1>3. running' \in Runnings /\ (Ends(e) => running'.t = 0 /\ ~running'.started)
      /\ (~Ends(e) => running'.t = turns /\ running'.started)
  BY <1>1, <1>2 DEF Writes
<1>4. AdapterTypes'
  BY DEF AppInv, AdapterTypes, Writes, AdapterStays
<1>5. QED
  BY <1>1, <1>3, <1>4 DEF Writes

\* The turn that ran is still the last.
LEMMA WritesLastTurn ==
  ASSUME AppInv, NEW e, Writes(e), WritesText(e) \/ WritesDone(e) \/ WritesPlain(e)
  PROVE  LastTurn'
<1> USE DEF NoTurnId
<1>1. /\ AdapterStays /\ LastTurn /\ e.t = running.t /\ running.t # 0
      /\ e.k \in {"Delta", "MessageDone"} => ~running.compacts
      /\ e.k = "TurnStarted" <=> ~running.started
      /\ IF Ends(e) THEN running' = Resting
         ELSE running'.t = running.t /\ running'.started /\ running'.compacts = running.compacts
  BY DEF Writes, AppInv
<1>2. ASSUME ~Ends(e) PROVE running'.open => ~running'.compacts
  <2>1. running.open => ~running.compacts
    BY <1>1 DEF LastTurn
  <2>2. CASE WritesText(e)
    BY <1>1, <1>2, <2>2 DEF WritesText
  <2>3. CASE WritesDone(e)
    BY <1>1, <1>2, <2>1, <2>3 DEF WritesDone
  <2>4. CASE WritesPlain(e)
    BY <1>1, <1>2, <2>1, <2>4 DEF WritesPlain
  <2>5. QED
    BY <2>2, <2>3, <2>4
<1>3. Resting.t = 0
  BY DEF Resting
<1>4. active' = active /\ turns' = turns /\ compacted' = compacted /\ compaction' = compaction
  BY <1>1 DEF AdapterStays
<1>5. QED
  BY <1>1, <1>2, <1>3, <1>4 DEF LastTurn

\* The notice comes in the order of turns.
LEMMA WritesInOrder ==
  ASSUME AppInv, NEW e, Writes(e)
  PROVE  NoticesInOrder'
<1> USE DEF NoTurnId
<1>1. /\ notices' = Append(notices, e) /\ e \in AppEvents /\ turns' = turns
      /\ e.k \notin {"ThreadStarted", "ApprovalRequested"} /\ (e.k = "TurnStarted" <=> ~running.started)
  BY DEF Writes, AdapterStays
<1>2. /\ running.t = turns /\ turns \in Nat /\ turns # 0 /\ e.t = turns
      /\ notices \in Seq(AppEvents)
      /\ Ends(e) => running'.t = 0
      /\ ~Ends(e) => running'.t = turns /\ running'.started
  BY WritesFacts
<1>3. \A i \in DOMAIN notices : notices[i].t \in Nat
  BY <1>2, EventNumbers
<1>4. NoticesInOrder
  BY DEF AppInv
<1> DEFINE n == Len(notices) + 1
<1>5. /\ n \in DOMAIN notices' /\ notices'[n] = e
      /\ \A i \in DOMAIN notices : i \in DOMAIN notices' /\ notices'[i] = notices[i] /\ i \in Nat /\ i < n
      /\ \A i \in DOMAIN notices' : i \in Nat /\ (i = n \/ (i \in DOMAIN notices /\ i < n))
  BY <1>1, <1>2, Appended
<1> HIDE DEF n
<1>6. \A i \in DOMAIN notices' :
         /\ notices'[i].t <= turns' /\ (notices'[i].k = "ThreadStarted" <=> notices'[i].t = 0)
         /\ notices'[i].k # "ApprovalRequested"
  BY <1>1, <1>2, <1>4, <1>5 DEF NoticesInOrder
<1>7. \A i, j \in DOMAIN notices' : i < j => notices'[i].t <= notices'[j].t
  BY <1>1, <1>2, <1>3, <1>4, <1>5 DEF NoticesInOrder
<1>8. \A i, j \in DOMAIN notices' :
        notices'[i].k = "TurnStarted" /\ notices'[j].t = notices'[i].t => i <= j
  BY <1>1, <1>2, <1>4, <1>5 DEF NoticesInOrder
<1>9. \A i, j \in DOMAIN notices' : Ends(notices'[i]) /\ notices'[j].t = notices'[i].t => j <= i
  BY <1>1, <1>2, <1>4, <1>5 DEF NoticesInOrder
<1>10. \A i \in DOMAIN notices' : Ends(notices'[i]) => running'.t # notices'[i].t
  BY <1>1, <1>2, <1>4, <1>5, <1>6 DEF NoticesInOrder, Ends
<1>11. running'.t # 0 => running'.started
  BY <1>2
<1>12. QED
  BY <1>6, <1>7, <1>8, <1>9, <1>10, <1>11 DEF NoticesInOrder, Ends

\* What is queued of a compaction is queued while it goes on.
LEMMA WritesCompaction ==
  ASSUME AppInv, NEW e, Writes(e)
  PROVE  CompactionKnown'
<1> USE DEF NoTurnId
<1>1. /\ notices' = Append(notices, e) /\ e \in AppEvents /\ AdapterStays
      /\ e.k \in {"Delta", "MessageDone"} => ~running.compacts
      /\ e.k \in {"CompactStarted", "CompactDone"} => running.compacts
      /\ e.k = "TurnStarted" <=> ~running.started
  BY DEF Writes
<1>2. running.t = turns /\ turns # 0 /\ e.t = turns /\ notices \in Seq(AppEvents)
  BY WritesFacts
<1>3. /\ IF running.compacts THEN compaction.on ELSE active = turns
      /\ active # 0 => turns \notin compacted
      /\ compaction.on => turns \in compacted
      /\ ~compaction.on => compaction = NoCompaction
  BY <1>2 DEF AppInv, LastTurn
<1>4. CompactionKnown
  BY DEF AppInv
<1> DEFINE n == Len(notices) + 1
<1>5. /\ \A i \in DOMAIN notices' : \/ i \in DOMAIN notices /\ notices'[i] = notices[i]
                                    \/ notices'[i] = e
  BY <1>1, <1>2, Appended
<1>6. e.t \in compacted => compaction.on
  BY <1>2, <1>3
<1>7. ASSUME compaction.on, compaction.turn = turns PROVE e.k # "TurnStarted"
  BY <1>1, <1>2, <1>4, <1>7 DEF CompactionKnown
<1>8. running'.t # 0 => running'.started
  BY WritesFacts
<1>9. QED
  BY <1>1, <1>2, <1>3, <1>4, <1>5, <1>6, <1>7, <1>8 DEF CompactionKnown, AdapterStays

\* A start that was still to come is queued now.
LEMMA WritesAhead ==
  ASSUME AppInv, NEW e, Writes(e), NEW t \in 1 .. turns
  PROVE  /\ StartAhead(t)' <=> StartAhead(t)
         /\ StartAhead(t)' => \E j \in DOMAIN notices' : notices'[j].k = "TurnStarted" /\ notices'[j].t = t
<1>1. /\ notices' = Append(notices, e) /\ e \in AppEvents
      /\ e.k = "TurnStarted" <=> ~running.started
  BY DEF Writes
<1>2. /\ running.t = turns /\ turns \in Nat /\ turns # 0 /\ e.t = turns /\ notices \in Seq(AppEvents)
      /\ Ends(e) => running'.t = 0
      /\ ~Ends(e) => running'.t = turns /\ running'.started
  BY WritesFacts
<1> DEFINE n == Len(notices) + 1
<1>3. /\ n \in DOMAIN notices' /\ notices'[n] = e
      /\ \A i \in DOMAIN notices : i \in DOMAIN notices' /\ notices'[i] = notices[i]
      /\ \A i \in DOMAIN notices' : i = n \/ i \in DOMAIN notices
  BY <1>1, <1>2, Appended
<1> HIDE DEF n
<1>4. ~(running'.t = t /\ ~running'.started)
  BY <1>2
<1>5. QED
  BY <1>1, <1>2, <1>3, <1>4 DEF StartAhead

\* The provider leaves alone what the adapter keeps and what the engine was told.
LEMMA WritesKept ==
  ASSUME AppInv, NEW e, Writes(e)
  PROVE  Abandoned' /\ KeptEvents' /\ StartsFirst' /\ OnTime' /\ NotEnded' /\ AskedOnce'
         /\ AnswerJustified' /\ TurnsBracketed' /\ StartsUnlessLate'
<1> USE DEF NoTurnId
<1>1. /\ notices' = Append(notices, e) /\ e \in AppEvents /\ requests' = requests
      /\ e.k \notin {"ThreadStarted", "ApprovalRequested"} /\ AdapterStays
  BY DEF Writes
<1>2. /\ running.t = turns /\ turns \in Nat /\ turns # 0 /\ e.t = turns /\ notices \in Seq(AppEvents)
  BY WritesFacts
<1> DEFINE n == Len(notices) + 1
<1>3. /\ n \in DOMAIN notices' /\ notices'[n] = e
      /\ \A i \in DOMAIN notices : i \in DOMAIN notices' /\ notices'[i] = notices[i]
      /\ \A i \in DOMAIN notices' : i = n \/ i \in DOMAIN notices
  BY <1>1, <1>2, Appended
<1> HIDE DEF n
<1>4. KeptEvents'
  <2>1. KeptEvents
    BY DEF AppInv
  <2>2. UNCHANGED <<active, buffered, call, held, seen, turns>>
    BY <1>1 DEF AdapterStays
  <2>3. QED
    BY <1>1, <1>2, <1>3, <2>1, <2>2 DEF KeptEvents
<1>5. StartsFirst'
  <2>1. StartsFirst /\ (active # 0 => active = turns)
    BY DEF AppInv, LastTurn
  <2>2. UNCHANGED <<active, buffered, call, late, seen, turns, compaction, requests>>
    BY <1>1 DEF AdapterStays
  <2>3. \A t \in 1 .. turns :
         /\ StartAhead(t)' <=> StartAhead(t)
         /\ StartAhead(t)' => \E j \in DOMAIN notices' : notices'[j].k = "TurnStarted" /\ notices'[j].t = t
    BY WritesAhead
  <2>4. turns \in 1 .. turns
    BY <1>2
  <2>5. StartRead(active)' <=> StartRead(active)
    BY <2>2 DEF StartRead
  <2>6. active # 0 => StartAhead(active)' <=> StartAhead(active)
    BY <2>1, <2>2, <2>3, <2>4
  <2>7. StartAhead(turns)' <=> StartAhead(turns)
    BY <2>2, <2>3, <2>4
  <2>8. /\ active' # 0 => StartAhead(active)' \/ (call' = "none" /\ StartRead(active)')
        /\ call' = "Start" => active' # 0 /\ StartAhead(active)'
        /\ call' \in {"CompactTurn", "CompactItems"} => compaction'.on
        /\ call' = "CompactTurn" /\ ~late' => StartAhead(turns)'
    BY <2>1, <2>2, <2>5, <2>6, <2>7 DEF StartsFirst
  <2>9. \A t \in 1 .. turns' : StartAhead(t)' =>
          /\ \A i \in DOMAIN seen' : seen'[i].t # t
          /\ \A i \in DOMAIN buffered' : buffered'[i].t # t
          /\ \A i \in DOMAIN requests' : requests'[i].t = t =>
               \E j \in DOMAIN notices' : notices'[j].k = "TurnStarted" /\ notices'[j].t = t
    BY <2>1, <2>2, <2>3 DEF StartsFirst
  <2>10. QED
    BY <2>8, <2>9 DEF StartsFirst
<1>6. OnTime'
  <2>1. OnTime
    BY DEF AppInv
  <2>2. UNCHANGED <<active, buffered, call, late, turns, compaction, requests>>
    BY <1>1 DEF AdapterStays
  <2>3. QED
    BY <1>1, <1>2, <1>3, <2>1, <2>2 DEF OnTime
<1>7. NotEnded' /\ TurnsBracketed'
  <2>1. NotEnded /\ TurnsBracketed
    BY DEF AppInv
  <2>2. UNCHANGED <<active, buffered, compaction, turns, seen, failed, compacted>>
    BY <1>1 DEF AdapterStays
  <2>3. QED
    BY <2>1, <2>2 DEF NotEnded, TurnsBracketed, EndRead, Ends
<1>8. Abandoned' /\ AskedOnce' /\ AnswerJustified' /\ StartsUnlessLate'
  <2>1. Abandoned /\ AskedOnce /\ AnswerJustified /\ StartsUnlessLate
    BY DEF AppInv
  <2>2. UNCHANGED <<requests, outstanding, answers, turns, decided, failed, compaction, call>>
    BY <1>1 DEF AdapterStays
  <2>3. QED
    BY <2>1, <2>2 DEF Abandoned, AskedOnce, AskedIds, AnswerJustified, StartsUnlessLate
<1>9. QED
  BY <1>4, <1>5, <1>6, <1>7, <1>8

-----------------------------------------------------------------------------
(* The text, as it is written                                                *)

\* What a turn has written and read of it, when nothing is read.
LEMMA WritesTextFacts ==
  ASSUME AppInv, NEW e, Writes(e), NEW t, t = active, active # NoTurnId
  PROVE  /\ t = turns /\ running.t = t /\ e.t = t /\ t \in Nat /\ t # 0 /\ ~running.compacts
         /\ Reading(t)
         /\ seen' = seen /\ fragments' = fragments /\ reports' = reports
         /\ TextOf(t)' = TextOf(t) /\ DonesOf(t)' = DonesOf(t)
         /\ Len(notices) \in Nat
         /\ Len(notices) + 1 \in DOMAIN notices' /\ notices'[Len(notices) + 1] = e
         /\ \A i \in DOMAIN notices : /\ i \in DOMAIN notices' /\ notices'[i] = notices[i]
                                      /\ i \in Nat /\ i < Len(notices) + 1
         /\ \A i \in DOMAIN notices' : i \in Nat /\ (i = Len(notices) + 1 \/ i \in DOMAIN notices)
<1> USE DEF NoTurnId
<1>1. /\ running.t = turns /\ turns \in Nat /\ turns # 0 /\ e.t = turns /\ notices \in Seq(AppEvents)
      /\ notices' = Append(notices, e) /\ e \in AppEvents
  BY WritesFacts DEF Writes
<1>2. active = turns /\ Reading(active) /\ ~running.compacts
  BY <1>1 DEF AppInv, LastTurn
<1>3. seen' = seen /\ fragments' = fragments /\ reports' = reports
  BY DEF Writes, AdapterStays
<1>4. TextOf(t)' = TextOf(t) /\ DonesOf(t)' = DonesOf(t)
  BY <1>3 DEF TextOf, DonesOf
<1>5. /\ Len(notices) \in Nat
      /\ Len(notices) + 1 \in DOMAIN notices' /\ notices'[Len(notices) + 1] = e
      /\ \A i \in DOMAIN notices : /\ i \in DOMAIN notices' /\ notices'[i] = notices[i]
                                   /\ i \in Nat /\ i < Len(notices) + 1
      /\ \A i \in DOMAIN notices' : i \in Nat /\ (i = Len(notices) + 1 \/ i \in DOMAIN notices)
  BY <1>1, Appended
<1>6. QED
  BY <1>1, <1>2, <1>3, <1>4, <1>5

\* The parts of Reading that do not look at what is queued or written.
LEMMA ReadStays ==
  ASSUME NEW t, Reading(t), seen' = seen, fragments' = fragments, reports' = reports
  PROVE  SeenInOrder(t)' /\ WithheldLast(t)' /\ ReportLast(t)'
<1>1. SeenInOrder(t) /\ WithheldLast(t) /\ ReportLast(t)
  BY DEF Reading
<1>2. TextOf(t)' = TextOf(t) /\ DonesOf(t)' = DonesOf(t)
  BY DEF TextOf, DonesOf
<1>3. SeenInOrder(t)'
  BY <1>1, <1>2 DEF SeenInOrder, InOrder
<1>4. WithheldLast(t)'
  BY <1>1, <1>2 DEF WithheldLast
<1>5. ReportLast(t)'
  BY <1>1, <1>2 DEF ReportLast
<1>6. QED
  BY <1>3, <1>4, <1>5

\* A notice without text, and the end of a turn.
LEMMA PlainReading ==
  ASSUME AppInv, NEW e, Writes(e), WritesPlain(e), NEW t, t = active, active # NoTurnId
  PROVE  Reading(t)'
<1> USE DEF NoTurnId
<1> DEFINE n == Len(notices) + 1
<1>1. /\ t = turns /\ running.t = t /\ e.t = t /\ t \in Nat /\ t # 0 /\ ~running.compacts
      /\ Reading(t)
      /\ seen' = seen /\ fragments' = fragments /\ reports' = reports
      /\ TextOf(t)' = TextOf(t) /\ DonesOf(t)' = DonesOf(t)
      /\ n \in DOMAIN notices' /\ notices'[n] = e
      /\ \A i \in DOMAIN notices : i \in DOMAIN notices' /\ notices'[i] = notices[i] /\ i \in Nat /\ i < n
      /\ \A i \in DOMAIN notices' : i \in Nat /\ (i = n \/ i \in DOMAIN notices)
  BY WritesTextFacts
<1> HIDE DEF n
<1>2. e.k \notin {"Delta", "MessageDone"} /\ written' = written
  BY DEF WritesPlain
<1>3. TextAhead(t)' = TextAhead(t) /\ DonesAhead(t)' = DonesAhead(t)
      /\ \A i \in TextAhead(t) \cup DonesAhead(t) : notices'[i] = notices[i]
  BY <1>1, <1>2 DEF TextAhead, DonesAhead
<1>4. SeenInOrder(t)' /\ WithheldLast(t)' /\ ReportLast(t)'
  BY <1>1, ReadStays
<1>5. Sourced(t)'
  BY <1>1, <1>2, <1>3 DEF Reading, Sourced, Source
<1>6. TextAfter(t)'
  BY <1>1, <1>2, <1>3 DEF Reading, TextAfter
<1>7. DonesAfter(t)'
  BY <1>1, <1>2, <1>3 DEF Reading, DonesAfter
<1>8. OneByOne(t)'
  BY <1>1, <1>2, <1>3 DEF Reading, OneByOne, DoneBefore
<1>9. NothingLost(t)'
  BY <1>1, <1>2, <1>3 DEF Reading, NothingLost, Arrived, TextOf, DonesOf
<1>10. MessagesClose(t)'
  <2>1. MessagesClose(t)
    BY <1>1 DEF Reading
  <2>2. CASE Ends(e)
    <3>1. running'.t = 0
      BY <2>2, WritesFacts
    <3>2. \A i \in DOMAIN notices : ~(notices[i].k = "TurnCompleted" /\ notices[i].t = t)
      BY <1>1 DEF AppInv, NoticesInOrder, Ends
    <3>3. e.k = "TurnCompleted" => ~running.open
      BY DEF WritesPlain
    <3>4. ASSUME NEW w \in written, w.t = t
          PROVE  \/ \E j \in DonesOf(t) : seen[j].m = w.m
                 \/ \E j \in DonesAhead(t) : notices[j].m = w.m
                 \/ \A i \in DOMAIN notices' : ~(notices'[i].k = "TurnCompleted" /\ notices'[i].t = t)
      BY <1>1, <2>1, <3>2, <3>3, <3>4 DEF MessagesClose
    <3>5. QED
      BY <1>1, <1>2, <1>3, <3>1, <3>4 DEF MessagesClose
  <2>3. CASE ~Ends(e)
    <3>1. running'.t = running.t /\ running'.open = running.open /\ running'.message = running.message
      BY <2>3 DEF Writes, WritesPlain
    <3>2. \A w \in written : w.t = t =>
             \/ \E j \in DonesOf(t) : seen[j].m = w.m
             \/ \E j \in DonesAhead(t) : notices[j].m = w.m
             \/ running.t = t /\ running.open /\ w.m = running.message
      BY <1>1, <2>1 DEF MessagesClose
    <3>3. QED
      BY <1>1, <1>2, <1>3, <2>1, <3>1, <3>2 DEF MessagesClose
  <2>4. QED
    BY <2>2, <2>3
<1>11. QED
  BY <1>4, <1>5, <1>6, <1>7, <1>8, <1>9, <1>10 DEF Reading

\* Whatever holds text of the turn holds a fragment that was written in its message.
LEMMA SomeSource ==
  ASSUME AppInv, NEW t, Sourced(t)
  PROVE  /\ \A i \in TextAhead(t) : \E w \in written : w.t = t /\ w.m = notices[i].m
         /\ \A f \in fragments \cup reports : f.t = t => \E w \in written : w.t = t /\ w.m = f.m
         /\ \A i \in TextOf(t) : \E w \in written : w.t = t /\ w.m = seen[i].m
<1>1. \A m, d : Source(t, m, d) => \E w \in written : w.t = t /\ w.m = m
  <2> SUFFICES ASSUME NEW m, NEW d, Source(t, m, d) PROVE \E w \in written : w.t = t /\ w.m = m
    OBVIOUS
  <2>1. [t |-> t, m |-> m, d |-> d] \in written
    BY DEF Source
  <2>2. QED
    BY <2>1
<1>2. \A i \in TextAhead(t) : \E w \in written : w.t = t /\ w.m = notices[i].m
  BY <1>1 DEF Sourced
<1>3. ASSUME NEW f \in fragments \cup reports, f.t = t PROVE \E w \in written : w.t = t /\ w.m = f.m
  <2>1. 1 \in DOMAIN f.d
    BY <1>3, Positions DEF Sourced, AppInv, AdapterTypes, Texts
  <2>2. QED
    BY <1>1, <1>3, <2>1 DEF Sourced
<1>4. ASSUME NEW i \in TextOf(t) PROVE \E w \in written : w.t = t /\ w.m = seen[i].m
  <2>1. 1 \in DOMAIN seen[i].d
    BY EventNumbers, Positions DEF AppInv, AdapterTypes, TextOf, Sourced
  <2>2. QED
    BY <1>1, <2>1 DEF Sourced
<1>5. QED
  BY <1>2, <1>3, <1>4

\* The end of the message that is open.
LEMMA DoneReading ==
  ASSUME AppInv, NEW e, Writes(e), WritesDone(e), NEW t, t = active, active # NoTurnId
  PROVE  Reading(t)'
<1> USE DEF NoTurnId
<1> DEFINE n == Len(notices) + 1
<1>1. /\ t = turns /\ running.t = t /\ e.t = t /\ t \in Nat /\ t # 0 /\ ~running.compacts
      /\ Reading(t)
      /\ seen' = seen /\ fragments' = fragments /\ reports' = reports
      /\ TextOf(t)' = TextOf(t) /\ DonesOf(t)' = DonesOf(t)
      /\ n \in DOMAIN notices' /\ notices'[n] = e
      /\ \A i \in DOMAIN notices : i \in DOMAIN notices' /\ notices'[i] = notices[i] /\ i \in Nat /\ i < n
      /\ \A i \in DOMAIN notices' : i \in Nat /\ (i = n \/ i \in DOMAIN notices)
  BY WritesTextFacts
<1>0. n \in Nat
  BY WritesTextFacts
<1> HIDE DEF n
<1>2. /\ e.k = "MessageDone" /\ written' = written /\ running.open /\ e.m = running.message
      /\ running'.t = t /\ ~running'.open /\ running'.message = running.message /\ e.m \in Nat
  <2>1. running \in Runnings
    BY WritesFacts
  <2>2. QED
    BY <1>1, <2>1, RunningCloses, RunningFields DEF WritesDone
<1>3. TextAhead(t)' = TextAhead(t) /\ DonesAhead(t)' = DonesAhead(t) \cup {n}
      /\ \A i \in TextAhead(t) \cup DonesAhead(t) : notices'[i] = notices[i] /\ i < n /\ i \in Nat
  BY <1>1, <1>2 DEF TextAhead, DonesAhead
<1>4. SeenInOrder(t)' /\ WithheldLast(t)' /\ ReportLast(t)'
  BY <1>1, ReadStays
<1>5. Sourced(t)'
  BY <1>1, <1>2, <1>3 DEF Reading, Sourced, Source
<1>6. TextAfter(t)'
  BY <1>1, <1>2, <1>3 DEF Reading, TextAfter
<1>7. \A w \in written : w.t = t => w.m <= e.m
  BY <1>1, <1>2 DEF AppInv, WrittenInOrder
<1>8. /\ \A i \in TextAhead(t) : notices[i].m <= e.m
      /\ \A f \in fragments : f.t = t => f.m <= e.m
      /\ \A i \in TextOf(t) : seen[i].m <= e.m
  BY <1>1, <1>7, SomeSource DEF Reading
<1>9. /\ \A i \in DonesAhead(t) : notices[i].m < e.m
      /\ \A i \in DonesOf(t) : seen[i].m < e.m
  BY <1>1, <1>2 DEF Reading, MessagesClose
<1>10. DonesAfter(t)'
  <2>1. DonesAfter(t)
    BY <1>1 DEF Reading
  <2>2. ASSUME NEW i \in DonesAhead(t)'
        PROVE /\ \A j \in DonesOf(t) : seen[j].m < notices'[i].m
              /\ \A j \in TextOf(t) : seen[j].m <= notices'[i].m
              /\ \A f \in fragments : f.t = t => f.m <= notices'[i].m
    BY <1>1, <1>3, <1>8, <1>9, <2>1 DEF DonesAfter
  <2>3. ASSUME NEW i \in DonesAhead(t)'
        PROVE /\ \A j \in TextAhead(t) : IF j < i THEN notices'[j].m <= notices'[i].m
                                                  ELSE notices'[i].m < notices'[j].m
              /\ \A j \in DonesAhead(t)' : i < j => notices'[i].m < notices'[j].m
    BY <1>0, <1>1, <1>3, <1>8, <1>9, <2>1 DEF DonesAfter
  <2>4. QED
    BY <1>1, <1>3, <2>2, <2>3 DEF DonesAfter
<1>11. MessagesClose(t)
  BY <1>1 DEF Reading
<1>12. ASSUME NEW w \in written, w.t = t, w.m # e.m
       PROVE  \/ \E j \in DonesOf(t) : seen[j].m = w.m
              \/ \E j \in DonesAhead(t) : notices[j].m = w.m
  BY <1>1, <1>2, <1>11, <1>12 DEF MessagesClose
<1>13. OneByOne(t)'
  <2>1. OneByOne(t) /\ WithheldLast(t) /\ TextAfter(t) /\ DonesAfter(t) /\ Sourced(t)
    BY <1>1 DEF Reading
  <2>2. ASSUME NEW m, NEW i, DoneBefore(t, m, i) PROVE DoneBefore(t, m, i)'
    BY <1>3, <2>2 DEF DoneBefore
  <2>3. ASSUME NEW f \in fragments, f.t = t, f.m # e.m
        PROVE  \E l \in DonesAhead(t)' : l < n /\ notices'[l].m = f.m
    <3>1. PICK w \in written : w.t = t /\ w.m = f.m
      BY <2>1, <2>3, SomeSource
    <3>2. ~\E j \in DonesOf(t) : seen[j].m = w.m
      <4>1. \A j \in DonesOf(t) : seen[j].m < f.m
        BY <2>1, <2>3 DEF WithheldLast
      <4>2. \A j \in DonesOf(t) : seen[j].m \in Nat
        BY EventNumbers DEF AppInv, AdapterTypes, DonesOf
      <4>3. f.m \in Nat
        BY DEF AppInv, AdapterTypes, Texts
      <4>4. QED
        BY <3>1, <4>1, <4>2, <4>3
    <3>3. PICK j \in DonesAhead(t) : notices[j].m = f.m
      BY <1>12, <2>3, <3>1, <3>2
    <3>4. QED
      BY <1>3, <3>3
  <2>4. ASSUME NEW j \in TextAhead(t), notices[j].m # e.m
        PROVE  \E l \in DonesAhead(t)' : l < n /\ notices'[l].m = notices[j].m
    <3>1. PICK w \in written : w.t = t /\ w.m = notices[j].m
      BY <2>1, SomeSource
    <3>2. ~\E i \in DonesOf(t) : seen[i].m = w.m
      <4>1. \A i \in DonesOf(t) : seen[i].m < notices[j].m
        BY <2>1 DEF TextAfter
      <4>2. \A i \in DonesOf(t) : seen[i].m \in Nat
        BY EventNumbers DEF AppInv, AdapterTypes, DonesOf
      <4>3. notices[j].m \in Nat
        BY EventNumbers DEF AppInv, ProviderTypes, TextAhead
      <4>4. QED
        BY <3>1, <4>1, <4>2, <4>3
    <3>3. PICK i \in DonesAhead(t) : notices[i].m = notices[j].m
      BY <1>12, <2>4, <3>1, <3>2
    <3>4. QED
      BY <1>3, <3>3
  <2>5. ASSUME NEW i \in TextAhead(t)' \cup DonesAhead(t)'
        PROVE  /\ \A f \in fragments : f.t = t /\ f.m # notices'[i].m => DoneBefore(t, f.m, i)'
               /\ \A j \in TextAhead(t) : j < i /\ notices'[j].m # notices'[i].m
                    => DoneBefore(t, notices[j].m, i)'
    <3>1. CASE i = n
      BY <1>1, <1>3, <2>3, <2>4, <3>1 DEF DoneBefore
    <3>2. CASE i \in TextAhead(t) \cup DonesAhead(t)
      BY <1>3, <2>1, <2>2, <3>2 DEF OneByOne
    <3>3. QED
      BY <1>3, <3>1, <3>2
  <2>6. QED
    BY <1>1, <1>3, <2>5 DEF OneByOne
<1>14. MessagesClose(t)'
  <2>1. \A w \in written : w.t = t =>
           \/ \E j \in DonesOf(t) : seen[j].m = w.m
           \/ \E j \in DonesAhead(t)' : notices'[j].m = w.m
    BY <1>1, <1>3, <1>12
  <2>2. /\ \A j \in DonesOf(t) : seen[j].m <= running.message
        /\ \A j \in DonesAhead(t)' : notices'[j].m <= running.message
    BY <1>1, <1>2, <1>3, <1>11 DEF MessagesClose
  <2>3. QED
    BY <1>1, <1>2, <2>1, <2>2 DEF MessagesClose
<1>15. NothingLost(t)'
  BY <1>1, <1>2, <1>3 DEF Reading, NothingLost, Arrived, TextOf, DonesOf
<1>16. QED
  BY <1>4, <1>5, <1>6, <1>10, <1>13, <1>14, <1>15 DEF Reading

\* A fragment of the message that is open, or of a new one.
LEMMA TextReading ==
  ASSUME AppInv, NEW e, Writes(e), WritesText(e), NEW t, t = active, active # NoTurnId
  PROVE  Reading(t)'
<1> USE DEF NoTurnId
<1> DEFINE n == Len(notices) + 1
<1>1. /\ t = turns /\ running.t = t /\ e.t = t /\ t \in Nat /\ t # 0 /\ ~running.compacts
      /\ Reading(t)
      /\ seen' = seen /\ fragments' = fragments /\ reports' = reports
      /\ TextOf(t)' = TextOf(t) /\ DonesOf(t)' = DonesOf(t)
      /\ n \in DOMAIN notices' /\ notices'[n] = e
      /\ \A i \in DOMAIN notices : i \in DOMAIN notices' /\ notices'[i] = notices[i] /\ i \in Nat /\ i < n
      /\ \A i \in DOMAIN notices' : i \in Nat /\ (i = n \/ i \in DOMAIN notices)
  BY WritesTextFacts
<1>0. n \in Nat
  BY WritesTextFacts
<1> HIDE DEF n
<1> DEFINE v == [t |-> t, m |-> e.m, d |-> e.d[1]]
<1>2. /\ e.k = "Delta" /\ Len(e.d) = 1 /\ e.d[1] = running.deltas + 1 /\ running.deltas \in Nat
      /\ running.message \in Nat /\ e.m = IF running.open THEN running.message ELSE running.message + 1
      /\ written' = written \cup {v}
      /\ running'.open /\ running'.message = e.m /\ running'.t = t
  <2>1. running \in Runnings
    BY WritesFacts
  <2>2. running.deltas \in Nat /\ running.message \in Nat
    BY <2>1, RunningFields
  <2>3. ~Ends(e)
    BY DEF WritesText, Ends
  <2>4. running'.t = t
    BY <1>1, <2>3 DEF Writes
  <2>5. QED
    BY <1>1, <2>2, <2>4 DEF WritesText
<1>3. TextAhead(t)' = TextAhead(t) \cup {n} /\ DonesAhead(t)' = DonesAhead(t)
      /\ \A i \in TextAhead(t) \cup DonesAhead(t) : notices'[i] = notices[i] /\ i < n /\ i \in Nat
  BY <1>1, <1>2 DEF TextAhead, DonesAhead
<1>4. SeenInOrder(t)' /\ WithheldLast(t)' /\ ReportLast(t)'
  BY <1>1, ReadStays
<1>5. \A m, d : Source(t, m, d) => Source(t, m, d)'
  BY <1>2 DEF Source
<1>6. Source(t, e.m, e.d[1])'
  <2> HIDE DEF v
  <2>1. v \in written'
    BY <1>2
  <2>2. QED
    BY <2>1 DEF Source, v
<1>7. Sourced(t)'
  <2>1. Sourced(t)
    BY <1>1 DEF Reading
  <2>2. \A i \in TextOf(t) :
          seen[i].d # <<>> /\ \A x \in DOMAIN seen[i].d : Source(t, seen[i].m, seen[i].d[x])'
    BY <1>1, <1>5, <2>1 DEF Sourced
  <2>3. \A i \in TextAhead(t)' : Len(notices'[i].d) = 1 /\ Source(t, notices[i].m, notices[i].d[1])'
    BY <1>1, <1>2, <1>3, <1>5, <1>6, <2>1 DEF Sourced
  <2>4. \A f \in fragments \cup reports : f.t = t =>
          f.d # <<>> /\ Increasing(f.d) /\ \A x \in DOMAIN f.d : Source(t, f.m, f.d[x])'
    BY <1>5, <2>1 DEF Sourced
  <2>5. QED
    BY <1>1, <2>2, <2>3, <2>4 DEF Sourced
<1>8. \A m, d : Source(t, m, d) => d \in Nat /\ m \in Nat /\ d < e.d[1] /\ m <= running.message
  <2>1. SUFFICES ASSUME NEW m, NEW d, Source(t, m, d)
                 PROVE  d \in Nat /\ m \in Nat /\ d < e.d[1] /\ m <= running.message
    OBVIOUS
  <2> DEFINE w == [t |-> t, m |-> m, d |-> d]
  <2>2. w \in written /\ w.t = t /\ w.d = d /\ w.m = m
    BY <2>1 DEF Source
  <2> HIDE DEF w
  <2>3. w.d <= running.deltas /\ w.m <= running.message /\ w \in Written
    BY <1>1, <2>2 DEF AppInv, WrittenInOrder, ProviderTypes
  <2>4. w.d \in Nat /\ w.m \in Nat
    BY <2>3 DEF Written
  <2>5. QED
    BY <1>2, <2>2, <2>3, <2>4
<1>9. /\ \A i \in DonesAhead(t) : notices[i].m < e.m
      /\ \A i \in DonesOf(t) : seen[i].m < e.m
  <2>1. \A i \in DonesAhead(t) : notices[i].m \in Nat
    BY EventNumbers DEF AppInv, ProviderTypes, DonesAhead
  <2>2. \A i \in DonesOf(t) : seen[i].m \in Nat
    BY EventNumbers DEF AppInv, AdapterTypes, DonesOf
  <2>3. MessagesClose(t)
    BY <1>1 DEF Reading
  <2>4. QED
    BY <1>1, <1>2, <2>1, <2>2, <2>3 DEF MessagesClose
<1>10. TextAfter(t)'
  <2>1. TextAfter(t) /\ Sourced(t)
    BY <1>1 DEF Reading
  <2>2. \A i \in TextAhead(t) : notices[i].d[1] < e.d[1]
    BY <1>8, <2>1 DEF Sourced
  <2>3. \A j \in TextOf(t) : \A x \in DOMAIN seen[j].d : seen[j].d[x] < e.d[1]
    BY <1>8, <2>1 DEF Sourced
  <2>4. \A f \in fragments : f.t = t => \A x \in DOMAIN f.d : f.d[x] < e.d[1]
    BY <1>8, <2>1 DEF Sourced
  <2>5. \A i, j \in TextAhead(t)' : i < j => notices'[i].d[1] < notices'[j].d[1]
    BY <1>0, <1>1, <1>3, <2>1, <2>2 DEF TextAfter
  <2>6. ASSUME NEW i \in TextAhead(t)'
        PROVE  /\ \A j \in TextOf(t) : \A x \in DOMAIN seen[j].d : seen[j].d[x] < notices'[i].d[1]
               /\ \A f \in fragments : f.t = t => \A x \in DOMAIN f.d : f.d[x] < notices'[i].d[1]
               /\ \A j \in DonesOf(t) : seen[j].m < notices'[i].m
    <3>1. CASE i = n
      BY <1>1, <1>9, <2>3, <2>4, <3>1
    <3>2. CASE i \in TextAhead(t)
      BY <1>3, <2>1, <3>2 DEF TextAfter
    <3>3. QED
      BY <1>3, <3>1, <3>2
  <2>7. QED
    BY <1>1, <2>5, <2>6 DEF TextAfter
<1>11. DonesAfter(t)'
  <2>1. DonesAfter(t)
    BY <1>1 DEF Reading
  <2>2. ASSUME NEW i \in DonesAhead(t), NEW j \in TextAhead(t)'
        PROVE  IF j < i THEN notices'[j].m <= notices'[i].m ELSE notices'[i].m < notices'[j].m
    BY <1>0, <1>1, <1>3, <1>9, <2>1 DEF DonesAfter
  <2>3. QED
    BY <1>1, <1>3, <2>1, <2>2 DEF DonesAfter
<1>12. MessagesClose(t) /\ OneByOne(t) /\ WithheldLast(t) /\ TextAfter(t) /\ Sourced(t)
  BY <1>1 DEF Reading
<1>13. ASSUME NEW w \in written, w.t = t, w.m # e.m
       PROVE  \/ \E j \in DonesOf(t) : seen[j].m = w.m
              \/ \E j \in DonesAhead(t) : notices[j].m = w.m
  BY <1>1, <1>2, <1>12, <1>13 DEF MessagesClose
<1>14. OneByOne(t)'
  <2>1. ASSUME NEW m \in Nat, NEW w \in written, w.t = t, w.m = m, m # e.m,
               \A j \in DonesOf(t) : seen[j].m < m
        PROVE  \E l \in DonesAhead(t)' : l < n /\ notices'[l].m = m
    <3>1. \A j \in DonesOf(t) : seen[j].m \in Nat
      BY EventNumbers DEF AppInv, AdapterTypes, DonesOf
    <3>2. PICK j \in DonesAhead(t) : notices[j].m = m
      BY <1>13, <2>1, <3>1
    <3>3. QED
      BY <1>3, <3>2
  <2>2. ASSUME NEW f \in fragments, f.t = t, f.m # e.m
        PROVE  \E l \in DonesAhead(t)' : l < n /\ notices'[l].m = f.m
    <3>1. PICK w \in written : w.t = t /\ w.m = f.m
      BY <1>12, <2>2, SomeSource
    <3>2. f.m \in Nat /\ \A j \in DonesOf(t) : seen[j].m < f.m
      BY <1>12, <2>2 DEF AppInv, AdapterTypes, Texts, WithheldLast
    <3>3. QED
      BY <2>1, <2>2, <3>1, <3>2
  <2>3. ASSUME NEW j \in TextAhead(t), notices[j].m # e.m
        PROVE  \E l \in DonesAhead(t)' : l < n /\ notices'[l].m = notices[j].m
    <3>1. PICK w \in written : w.t = t /\ w.m = notices[j].m
      BY <1>12, SomeSource
    <3>2. notices[j].m \in Nat /\ \A i \in DonesOf(t) : seen[i].m < notices[j].m
      BY <1>12, EventNumbers DEF AppInv, ProviderTypes, TextAhead, TextAfter
    <3>3. QED
      BY <2>1, <2>3, <3>1, <3>2
  <2>4. ASSUME NEW i \in TextAhead(t)' \cup DonesAhead(t)'
        PROVE  /\ \A f \in fragments : f.t = t /\ f.m # notices'[i].m => DoneBefore(t, f.m, i)'
               /\ \A j \in TextAhead(t)' : j < i /\ notices'[j].m # notices'[i].m
                    => DoneBefore(t, notices[j].m, i)'
    <3>1. CASE i = n
      BY <1>1, <1>3, <2>2, <2>3, <3>1 DEF DoneBefore
    <3>2. CASE i \in TextAhead(t) \cup DonesAhead(t)
      <4>1. i < n /\ i \in Nat /\ notices'[i] = notices[i]
        BY <1>3, <3>2
      <4>2. ASSUME NEW m, DoneBefore(t, m, i) PROVE DoneBefore(t, m, i)'
        BY <1>3, <4>2 DEF DoneBefore
      <4>3. ASSUME NEW f \in fragments, f.t = t, f.m # notices'[i].m PROVE DoneBefore(t, f.m, i)'
        BY <1>12, <3>2, <4>1, <4>2, <4>3 DEF OneByOne
      <4>4. ASSUME NEW j \in TextAhead(t)', j < i, notices'[j].m # notices'[i].m
            PROVE  DoneBefore(t, notices[j].m, i)'
        <5>1. j \in TextAhead(t) /\ notices'[j] = notices[j]
          BY <1>0, <1>3, <4>1, <4>4
        <5>2. DoneBefore(t, notices[j].m, i)
          BY <1>12, <3>2, <4>1, <4>4, <5>1 DEF OneByOne
        <5>3. QED
          BY <1>3, <5>1, <5>2 DEF DoneBefore
      <4>5. QED
        BY <4>3, <4>4
    <3>3. QED
      BY <1>3, <3>1, <3>2
  <2>5. QED
    BY <1>1, <1>3, <2>4 DEF OneByOne
<1>15. MessagesClose(t)'
  <2>1. ASSUME NEW w \in written', w.t = t
        PROVE  \/ \E j \in DonesOf(t) : seen[j].m = w.m
               \/ \E j \in DonesAhead(t) : notices'[j].m = w.m
               \/ w.m = e.m
    <3>1. CASE w \in written
      BY <1>3, <1>13, <2>1, <3>1
    <3>2. CASE w = v
      BY <3>2
    <3>3. QED
      BY <1>2, <3>1, <3>2
  <2>2. /\ \A j \in DonesOf(t) : seen[j].m < e.m /\ seen[j].m <= e.m
        /\ \A j \in DonesAhead(t) : notices'[j].m < e.m /\ notices'[j].m <= e.m
    <3>1. \A i \in DonesAhead(t) : notices[i].m \in Nat
      BY EventNumbers DEF AppInv, ProviderTypes, DonesAhead
    <3>2. \A i \in DonesOf(t) : seen[i].m \in Nat
      BY EventNumbers DEF AppInv, AdapterTypes, DonesOf
    <3>3. e.m \in Nat
      BY <1>2
    <3>4. QED
      BY <1>3, <1>9, <3>1, <3>2, <3>3
  <2>3. QED
    BY <1>1, <1>2, <1>3, <2>1, <2>2 DEF MessagesClose
<1>16. NothingLost(t)'
  <2>1. ASSUME NEW w \in written', w.t = t
        PROVE  \/ Arrived(w)'
               \/ \E i \in TextAhead(t)' : notices'[i].d[1] = w.d
               \/ \E f \in fragments \cup reports : f.t = t /\ f.m = w.m /\ \E x \in DOMAIN f.d : f.d[x] = w.d
    <3>1. CASE w \in written
      <4>1. Arrived(w) => Arrived(w)'
        BY <1>1, <2>1 DEF Arrived
      <4>2. QED
        BY <1>1, <1>3, <2>1, <3>1, <4>1 DEF Reading, NothingLost
    <3>2. CASE w = v
      BY <1>1, <1>3, <3>2
    <3>3. QED
      BY <1>2, <3>1, <3>2
  <2>2. QED
    BY <1>1, <2>1 DEF NothingLost
<1>17. QED
  BY <1>4, <1>7, <1>10, <1>11, <1>14, <1>15, <1>16 DEF Reading

\* The queue and the record of what was written grow by the notice.
LEMMA WritesWritten ==
  ASSUME AppInv, NEW e, Writes(e), WritesText(e) \/ WritesDone(e) \/ WritesPlain(e)
  PROVE  ProviderTypes' /\ WrittenInOrder'
<1> USE DEF NoTurnId
<1>1. /\ running \in Runnings /\ running' \in Runnings /\ notices \in Seq(AppEvents)
      /\ running.t = turns /\ turns \in Nat /\ turns # 0 /\ e.t = turns
      /\ Ends(e) => running'.t = 0
      /\ ~Ends(e) => running'.t = turns
  BY WritesFacts
<1>2. UNCHANGED <<requests, turns, compacted, fragments, reports>>
  BY DEF Writes, AdapterStays
<1>3. notices' \in Seq(AppEvents)
  BY <1>1, Appended DEF Writes
<1>4. requests \in Seq(Asks) /\ turns <= MaxTurns /\ written \subseteq Written /\ compacted \subseteq 1 .. turns
  BY DEF AppInv, ProviderTypes
<1>5. WrittenInOrder
  BY DEF AppInv
<1>6. running.message \in Nat /\ running.deltas \in Nat
  BY <1>1, RunningFields
<1>7. CASE WritesText(e)
  <2> DEFINE v == [t |-> turns, m |-> e.m, d |-> running.deltas + 1]
  <2>1. /\ written' = written \cup {v} /\ e.m \in Nat /\ running.message <= e.m
        /\ running'.message = e.m /\ running'.deltas = running.deltas + 1
    BY <1>1, <1>6, <1>7 DEF WritesText
  <2>2. v \in Written /\ v.t = turns /\ v.m = e.m /\ v.d = running.deltas + 1
    BY <1>1, <1>6, <2>1 DEF Written
  <2> HIDE DEF v
  <2>3. turns \notin compacted
    <3>1. ~running.compacts
      BY <1>7 DEF WritesText, Writes
    <3>2. QED
      BY <1>1, <3>1 DEF AppInv, LastTurn
  <2>4. running'.t = turns
    BY <1>1, <1>7 DEF WritesText, Ends
  <2>5. \A w \in written : w.d \in Nat /\ w.m \in Nat /\ w.t \in Nat
    BY <1>4 DEF Written
  <2>6. \A w \in written : w.t = turns => w.d <= running.deltas /\ w.m <= running.message
    BY <1>1, <1>5 DEF WrittenInOrder
  <2>7. ProviderTypes'
    BY <1>1, <1>2, <1>3, <1>4, <2>1, <2>2 DEF ProviderTypes
  <2>8. \A w \in written' : w.t # 0 /\ w.t <= turns /\ w.t \notin compacted
    BY <1>1, <1>5, <2>1, <2>2, <2>3 DEF WrittenInOrder
  <2>9. ASSUME NEW w \in written', w.t = turns PROVE w.d <= running.deltas + 1 /\ w.m <= e.m
    BY <1>6, <2>1, <2>2, <2>5, <2>6, <2>9
  <2>10. ASSUME NEW x \in written', NEW w \in written', x.t = w.t, x.d <= w.d PROVE x.m <= w.m
    <3>1. CASE x \in written /\ w \in written
      BY <1>5, <2>10, <3>1 DEF WrittenInOrder
    <3>2. CASE w = v
      BY <2>2, <2>9, <2>10, <3>2
    <3>3. CASE x = v /\ w \in written
      BY <1>6, <2>2, <2>5, <2>6, <2>10, <3>3
    <3>4. QED
      BY <2>1, <3>1, <3>2, <3>3
  <2>11. QED
    BY <1>2, <1>5, <2>1, <2>4, <2>7, <2>8, <2>9, <2>10 DEF WrittenInOrder
<1>8. CASE WritesDone(e) \/ WritesPlain(e)
  <2>1. written' = written
    BY <1>8 DEF WritesDone, WritesPlain
  <2>2. ~Ends(e) => running'.deltas = running.deltas /\ running'.message = running.message
    BY <1>1, <1>8, RunningCloses DEF WritesDone, WritesPlain
  <2>3. ASSUME NEW w \in written, w.t = running'.t PROVE w.d <= running'.deltas /\ w.m <= running'.message
    <3>1. CASE ~Ends(e)
      BY <1>1, <1>5, <2>2, <2>3, <3>1 DEF WrittenInOrder
    <3>2. CASE Ends(e)
      BY <1>1, <2>3, <3>2 DEF AppInv, WrittenInOrder
    <3>3. QED
      BY <3>1, <3>2
  <2>4. QED
    BY <1>1, <1>2, <1>3, <1>4, <1>5, <2>1, <2>3 DEF ProviderTypes, WrittenInOrder
<1>9. QED
  BY <1>7, <1>8

\* What a completed turn wrote has been read, and nothing is written of it any more.
LEMMA WritesRead ==
  ASSUME AppInv, NEW e, Writes(e), WritesText(e) \/ WritesDone(e) \/ WritesPlain(e)
  PROVE  \A t \in 1 .. turns' : Completed(t)' => WasRead(t)'
<1> USE DEF NoTurnId
<1>1. SUFFICES ASSUME NEW t \in 1 .. turns, Completed(t) PROVE WasRead(t)'
  <2>1. UNCHANGED <<turns, seen, buffered>>
    BY DEF Writes, AdapterStays
  <2>2. QED
    BY <2>1 DEF Completed
<1>2. WasRead(t) /\ (\A w \in written : w.t = t => Arrived(w)) /\ SeenInOrder(t)
  BY <1>1 DEF AppInv, WasRead
<1>3. seen' = seen
  BY DEF Writes, AdapterStays
<1>4. \A w \in written' : w.t = t => w \in written
  <2>1. CASE WritesText(e)
    <3>1. running.t = active
      BY <2>1 DEF Writes, WritesText, AppInv, LastTurn
    <3>2. active # 0 => ~EndRead(active)
      BY DEF AppInv, NotEnded
    <3>3. EndRead(t)
      BY <1>1 DEF Completed, EndRead, Ends
    <3>4. t # running.t
      BY <3>1, <3>2, <3>3 DEF Writes
    <3>5. QED
      BY <2>1, <3>4 DEF WritesText
  <2>2. CASE WritesDone(e) \/ WritesPlain(e)
    BY <2>2 DEF WritesDone, WritesPlain
  <2>3. QED
    BY <2>1, <2>2
<1>5. TextOf(t)' = TextOf(t) /\ DonesOf(t)' = DonesOf(t) /\ SeenInOrder(t)'
  BY <1>2, <1>3 DEF SeenInOrder, InOrder, TextOf, DonesOf
<1>6. \A w \in written : w.t = t => Arrived(w)'
  BY <1>2, <1>3, <1>5 DEF Arrived
<1>7. QED
  BY <1>4, <1>5, <1>6 DEF WasRead

\* A notice of the provider keeps the invariant.
LEMMA WritesKeeps ==
  ASSUME AppInv, NEW e, Writes(e), WritesText(e) \/ WritesDone(e) \/ WritesPlain(e)
  PROVE  AppInv'
<1>1. AdapterTypes'
  BY WritesFacts
<1>2. LastTurn' /\ NoticesInOrder' /\ CompactionKnown'
  BY WritesLastTurn, WritesInOrder, WritesCompaction
<1>3. Abandoned' /\ KeptEvents' /\ StartsFirst' /\ OnTime' /\ NotEnded' /\ AskedOnce'
      /\ AnswerJustified' /\ TurnsBracketed' /\ StartsUnlessLate'
  BY WritesKept
<1>4. ProviderTypes' /\ WrittenInOrder' /\ \A t \in 1 .. turns' : Completed(t)' => WasRead(t)'
  BY WritesWritten, WritesRead
<1>5. \A t : t = active /\ active # NoTurnId => Reading(t)'
  BY TextReading, DoneReading, PlainReading
<1>6. active' = active
  BY DEF Writes, AdapterStays
<1>7. QED
  BY <1>1, <1>2, <1>3, <1>4, <1>5, <1>6 DEF AppInv

-----------------------------------------------------------------------------
(* What an event that is not text of the turn leaves of it                   *)

\* The engine has read the same text of turn t.
SameSeen(t) ==
  /\ TextOf(t)' = TextOf(t) /\ DonesOf(t)' = DonesOf(t)
  /\ \A i \in TextOf(t) \cup DonesOf(t) : seen'[i] = seen[i]

\* The first c notices are gone, and none of them was text of turn t.
Shifted(t, c) ==
  /\ \A i \in DOMAIN notices' : i \in Nat /\ i + c \in DOMAIN notices /\ notices'[i] = notices[i + c]
  /\ \A i \in TextAhead(t) \cup DonesAhead(t) : i \in Nat /\ i - c \in DOMAIN notices'

\* What was read of a turn stays in order, and arrived.
LEMMA SameArrived ==
  ASSUME NEW t, SameSeen(t)
  PROVE  /\ SeenInOrder(t) => SeenInOrder(t)'
         /\ \A w : w.t = t => (Arrived(w)' <=> Arrived(w))
<1>1. SeenInOrder(t) => SeenInOrder(t)'
  BY DEF SameSeen, SeenInOrder, InOrder
<1>2. SUFFICES ASSUME NEW w, w.t = t PROVE Arrived(w)' <=> Arrived(w)
  BY <1>1
<1>3. QED
  BY <1>2 DEF SameSeen, Arrived

\* So a turn that was read is still read.
LEMMA SameRead ==
  ASSUME NEW t, SameSeen(t), written' = written
  PROVE  WasRead(t) => WasRead(t)'
<1>1. SeenInOrder(t) => SeenInOrder(t)'
  BY SameArrived
<1>2. \A w : w.t = t => (Arrived(w)' <=> Arrived(w))
  BY SameArrived
<1>3. QED
  BY <1>1, <1>2 DEF WasRead

\* The text of the active turn when another event was read.
LEMMA ShiftedReading ==
  ASSUME NEW t, NEW c \in Nat, Reading(t), SameSeen(t), Shifted(t, c),
         UNCHANGED <<fragments, reports, written, running>>
  PROVE  Reading(t)'
<1>1. /\ TextOf(t)' = TextOf(t) /\ DonesOf(t)' = DonesOf(t)
      /\ \A i \in TextOf(t) \cup DonesOf(t) : seen'[i] = seen[i]
  BY DEF SameSeen
<1>2. /\ \A i \in TextAhead(t)' : i \in Nat /\ i + c \in TextAhead(t) /\ notices'[i] = notices[i + c]
      /\ \A i \in DonesAhead(t)' : i \in Nat /\ i + c \in DonesAhead(t) /\ notices'[i] = notices[i + c]
  BY DEF Shifted, TextAhead, DonesAhead
<1>3. /\ \A i \in TextAhead(t) : i \in Nat /\ i - c \in TextAhead(t)' /\ notices'[i - c] = notices[i]
      /\ \A i \in DonesAhead(t) : i \in Nat /\ i - c \in DonesAhead(t)' /\ notices'[i - c] = notices[i]
  <2>1. \A i \in TextAhead(t) \cup DonesAhead(t) :
          i \in Nat /\ i - c \in DOMAIN notices' /\ notices'[i - c] = notices[i]
    <3>1. ASSUME NEW i \in TextAhead(t) \cup DonesAhead(t)
          PROVE  i \in Nat /\ i - c \in DOMAIN notices' /\ notices'[i - c] = notices[i]
      <4>1. i \in Nat /\ i - c \in DOMAIN notices'
        BY <3>1 DEF Shifted
      <4>2. notices'[i - c] = notices[(i - c) + c]
        BY <4>1 DEF Shifted
      <4>3. (i - c) + c = i
        BY <4>1
      <4>4. QED
        BY <4>1, <4>2, <4>3
    <3>2. QED
      BY <3>1
  <2>2. QED
    BY <2>1 DEF TextAhead, DonesAhead
<1>4. SeenInOrder(t)'
  BY SameArrived DEF Reading
<1>5. WithheldLast(t)' /\ ReportLast(t)'
  BY <1>1 DEF Reading, WithheldLast, ReportLast
<1>6. Sourced(t)'
  <2>1. Sourced(t)
    BY DEF Reading
  <2>2. \A i \in TextOf(t) :
          seen'[i].d # <<>> /\ \A x \in DOMAIN seen'[i].d : Source(t, seen[i].m, seen[i].d[x])'
    BY <1>1, <2>1 DEF Sourced, Source
  <2>3. \A i \in TextAhead(t)' : Len(notices'[i].d) = 1 /\ Source(t, notices[i].m, notices[i].d[1])'
    BY <1>2, <2>1 DEF Sourced, Source
  <2>4. \A f \in fragments \cup reports : f.t = t =>
          f.d # <<>> /\ Increasing(f.d) /\ \A x \in DOMAIN f.d : Source(t, f.m, f.d[x])'
    BY <2>1 DEF Sourced, Source
  <2>5. QED
    BY <1>1, <2>2, <2>3, <2>4 DEF Sourced
<1>7. TextAfter(t)'
  <2>1. TextAfter(t)
    BY DEF Reading
  <2>2. \A i, j \in TextAhead(t)' : i < j => notices'[i].d[1] < notices'[j].d[1]
    BY <1>2, <2>1 DEF TextAfter
  <2>3. QED
    BY <1>1, <1>2, <2>1, <2>2 DEF TextAfter
<1>8. DonesAfter(t)'
  <2>1. DonesAfter(t)
    BY DEF Reading
  <2>2. ASSUME NEW i \in DonesAhead(t)'
        PROVE /\ \A j \in DonesOf(t) : seen[j].m < notices'[i].m
              /\ \A j \in TextOf(t) : seen[j].m <= notices'[i].m
              /\ \A f \in fragments : f.t = t => f.m <= notices'[i].m
    BY <1>2, <2>1 DEF DonesAfter
  <2>3. ASSUME NEW i \in DonesAhead(t)'
        PROVE /\ \A j \in TextAhead(t)' : IF j < i THEN notices'[j].m <= notices'[i].m
                                                  ELSE notices'[i].m < notices'[j].m
              /\ \A j \in DonesAhead(t)' : i < j => notices'[i].m < notices'[j].m
    BY <1>2, <2>1 DEF DonesAfter
  <2>4. QED
    BY <1>1, <2>2, <2>3 DEF DonesAfter
<1>9. OneByOne(t)'
  <2>1. OneByOne(t)
    BY DEF Reading
  <2>2. ASSUME NEW m, NEW i \in TextAhead(t)' \cup DonesAhead(t)', DoneBefore(t, m, i + c)
        PROVE  \E j \in DonesAhead(t)' : j < i /\ notices'[j].m = m
    <3>1. PICK j \in DonesAhead(t) : j < i + c /\ notices[j].m = m
      BY <2>2 DEF DoneBefore
    <3>2. j - c \in DonesAhead(t)' /\ notices'[j - c] = notices[j] /\ j \in Nat /\ i \in Nat
      BY <1>2, <1>3
    <3>3. j - c < i
      BY <3>1, <3>2
    <3>4. QED
      BY <3>1, <3>2, <3>3
  <2>3. ASSUME NEW i \in TextAhead(t)' \cup DonesAhead(t)'
        PROVE  /\ \A f \in fragments : f.t = t /\ f.m # notices'[i].m => DoneBefore(t, f.m, i)'
               /\ \A j \in TextAhead(t)' : j < i /\ notices'[j].m # notices'[i].m
                    => DoneBefore(t, notices[j].m, i)'
    <3>1. i + c \in TextAhead(t) \cup DonesAhead(t) /\ notices'[i] = notices[i + c] /\ i \in Nat
      BY <1>2
    <3>2. ASSUME NEW f \in fragments, f.t = t, f.m # notices'[i].m PROVE DoneBefore(t, f.m, i)'
      <4>1. DoneBefore(t, f.m, i + c)
        BY <2>1, <3>1, <3>2 DEF OneByOne
      <4>2. QED
        BY <2>2, <4>1 DEF DoneBefore
    <3>3. ASSUME NEW j \in TextAhead(t)', j < i, notices'[j].m # notices'[i].m
          PROVE  DoneBefore(t, notices[j].m, i)'
      <4>1. j + c \in TextAhead(t) /\ notices'[j] = notices[j + c] /\ j + c < i + c
        BY <1>2, <3>1, <3>3
      <4>2. DoneBefore(t, notices[j + c].m, i + c)
        BY <2>1, <3>1, <3>3, <4>1 DEF OneByOne
      <4>3. QED
        BY <2>2, <4>1, <4>2 DEF DoneBefore
    <3>4. QED
      BY <3>2, <3>3
  <2>4. QED
    BY <2>3 DEF OneByOne
<1>10. MessagesClose(t)'
  <2>1. MessagesClose(t)
    BY DEF Reading
  <2>2. ASSUME NEW w \in written, w.t = t
        PROVE  \/ \E j \in DonesOf(t) : seen[j].m = w.m
               \/ \E j \in DonesAhead(t)' : notices'[j].m = w.m
               \/ running.t = t /\ running.open /\ w.m = running.message
               \/ /\ running.t # t
                  /\ \A i \in DOMAIN notices' : ~(notices'[i].k = "TurnCompleted" /\ notices'[i].t = t)
    <3>1. CASE \E j \in DonesAhead(t) : notices[j].m = w.m
      BY <1>3, <3>1
    <3>2. CASE \A i \in DOMAIN notices : ~(notices[i].k = "TurnCompleted" /\ notices[i].t = t)
      <4>1. \A i \in DOMAIN notices' : ~(notices'[i].k = "TurnCompleted" /\ notices'[i].t = t)
        BY <3>2 DEF Shifted
      <4>2. QED
        BY <2>1, <2>2, <3>1, <4>1 DEF MessagesClose
    <3>3. QED
      BY <2>1, <2>2, <3>1, <3>2 DEF MessagesClose
  <2>3. running.t = t =>
          /\ \A j \in DonesOf(t) : seen[j].m <= running.message /\ (running.open => seen[j].m < running.message)
          /\ \A j \in DonesAhead(t)' :
               notices'[j].m <= running.message /\ (running.open => notices'[j].m < running.message)
    BY <1>2, <2>1 DEF MessagesClose
  <2>4. QED
    BY <1>1, <2>2, <2>3 DEF MessagesClose
<1>11. NothingLost(t)'
  <2>1. NothingLost(t)
    BY DEF Reading
  <2>2. \A w : w.t = t => (Arrived(w)' <=> Arrived(w))
    BY SameArrived
  <2>3. \A w : (\E i \in TextAhead(t) : notices[i].d[1] = w.d) => \E i \in TextAhead(t)' : notices'[i].d[1] = w.d
    BY <1>3
  <2>4. QED
    BY <2>1, <2>2, <2>3 DEF NothingLost
<1>12. QED
  BY <1>4, <1>5, <1>6, <1>7, <1>8, <1>9, <1>10, <1>11 DEF Reading

\* Nothing was read.
LEMMA SameReading ==
  ASSUME AppInv, NEW t, Reading(t), UNCHANGED <<seen, notices, fragments, reports, written, running>>
  PROVE  Reading(t)' /\ SameSeen(t)
<1>1. SameSeen(t)
  BY DEF SameSeen, TextOf, DonesOf
<1>2. \A i \in DOMAIN notices : i \in Nat
  BY DEF AppInv, ProviderTypes
<1>3. Shifted(t, 0)
  BY <1>2 DEF Shifted, TextAhead, DonesAhead
<1>4. QED
  BY <1>1, <1>3, ShiftedReading

-----------------------------------------------------------------------------
(* Approval requests                                                         *)

\* The ids of the requests are counted.
LEMMA AskedCount ==
  ASSUME AppInv,
         NEW r, r = Cardinality({x.r : x \in ToSet(requests)} \cup {x.r : x \in outstanding}
                                \cup {answers[i].r : i \in DOMAIN answers})
  PROVE  r \in Nat /\ AskedIds = 1 .. r
<1>1. PICK n \in Nat : AskedIds = 1 .. n
  BY DEF AppInv, AskedOnce
<1>2. {x.r : x \in ToSet(requests)} = {requests[i].r : i \in DOMAIN requests}
  BY DEF ToSet
<1>3. r = Cardinality(1 .. n)
  BY <1>1, <1>2 DEF AskedIds
<1>4. Cardinality(1 .. n) = n
  BY FS_Interval
<1>5. QED
  BY <1>1, <1>3, <1>4

\* A request of the turn that runs has an id of its own.
LEMMA RequestKeeps ==
  ASSUME AppInv, RequestApproval
  PROVE  AppInv'
<1> USE DEF NoTurnId
<1> DEFINE r == Cardinality({x.r : x \in ToSet(requests)} \cup {x.r : x \in outstanding}
                            \cup {answers[i].r : i \in DOMAIN answers})
<1>1. PICK kind \in EffectKinds :
        /\ running.started /\ ~running.compacts
        /\ requests' = Append(requests, ApprovalRequest(r + 1, running.t, kind))
        /\ ProviderOnly /\ UNCHANGED <<notices, running, written>>
  BY DEF RequestApproval
<1>2. r \in Nat /\ AskedIds = 1 .. r
  BY AskedCount
<1> HIDE DEF r
<1>3. AdapterStays /\ UNCHANGED <<notices, running, written>>
  BY <1>1 DEF ProviderOnly, Adapter, AdapterStays
<1>4. running.t = turns /\ active = turns /\ turns \in Nat /\ turns # 0
  <2>1. running.t # 0
    BY <1>1 DEF AppInv, LastTurn, Resting
  <2>2. QED
    BY <1>1, <2>1 DEF AppInv, LastTurn, ProviderTypes
<1> DEFINE q == ApprovalRequest(r + 1, running.t, kind)
<1>5. q \in Asks /\ q.r = r + 1 /\ q.t = turns
  BY <1>2, <1>4 DEF ApprovalRequest, Asks
<1>6. requests' = Append(requests, q) /\ requests \in Seq(Asks)
  BY <1>1 DEF AppInv, ProviderTypes
<1> HIDE DEF q
<1> DEFINE n == Len(requests) + 1
<1>7. /\ requests' \in Seq(Asks) /\ n \in DOMAIN requests' /\ requests'[n] = q
      /\ \A i \in DOMAIN requests : i \in DOMAIN requests' /\ requests'[i] = requests[i]
      /\ \A i \in DOMAIN requests' : i = n \/ i \in DOMAIN requests
  BY <1>5, <1>6, Appended
<1> HIDE DEF n
<1>8. ProviderTypes'
  BY <1>3, <1>7 DEF AppInv, ProviderTypes, AdapterStays
<1>9. AdapterTypes' /\ LastTurn' /\ NoticesInOrder' /\ CompactionKnown' /\ Abandoned'
  <2>1. AdapterTypes /\ LastTurn /\ NoticesInOrder /\ CompactionKnown /\ Abandoned
    BY DEF AppInv
  <2>2. AdapterTypes'
    BY <1>3, <2>1 DEF AdapterTypes, AdapterStays
  <2>3. LastTurn'
    BY <1>3, <2>1 DEF LastTurn, AdapterStays
  <2>4. NoticesInOrder'
    BY <1>3, <2>1 DEF NoticesInOrder, AdapterStays, Ends
  <2>5. CompactionKnown' /\ Abandoned'
    BY <1>3, <2>1 DEF CompactionKnown, Abandoned, AdapterStays
  <2>6. QED
    BY <2>2, <2>3, <2>4, <2>5
<1>10. KeptEvents' /\ NotEnded' /\ WrittenInOrder'
  <2>1. KeptEvents /\ NotEnded /\ WrittenInOrder
    BY DEF AppInv
  <2>2. KeptEvents'
    BY <1>3, <2>1 DEF KeptEvents, AdapterStays
  <2>3. NotEnded'
    BY <1>3, <2>1 DEF NotEnded, EndRead, Ends, AdapterStays
  <2>4. WrittenInOrder'
    BY <1>3, <2>1 DEF WrittenInOrder, AdapterStays
  <2>5. QED
    BY <2>2, <2>3, <2>4
<1>11. StartsFirst'
  <2>1. StartsFirst
    BY DEF AppInv
  <2>2. UNCHANGED <<active, call, late, compaction, turns, seen, buffered, notices, running>>
    BY <1>3 DEF AdapterStays
  <2>3. \A t : StartAhead(t)' <=> StartAhead(t)
    BY <2>2 DEF StartAhead
  <2>4. \A t : StartRead(t)' <=> StartRead(t)
    BY <2>2 DEF StartRead
  <2>5. ASSUME NEW t \in 1 .. turns, StartAhead(t), NEW i \in DOMAIN requests', requests'[i].t = t
        PROVE  \E j \in DOMAIN notices' : notices'[j].k = "TurnStarted" /\ notices'[j].t = t
    BY <1>1, <1>4, <1>5, <1>7, <2>1, <2>2, <2>5 DEF StartsFirst, StartAhead
  <2>6. QED
    BY <2>1, <2>2, <2>3, <2>4, <2>5 DEF StartsFirst
<1>12. OnTime'
  <2>1. OnTime
    BY DEF AppInv
  <2>2. UNCHANGED <<active, call, late, compaction, turns, buffered, notices>>
    BY <1>3 DEF AdapterStays
  <2>3. QED
    BY <1>4, <1>5, <1>7, <2>1, <2>2 DEF OnTime
<1>13. AskedOnce'
  <2>1. AskedOnce
    BY DEF AppInv
  <2>2. UNCHANGED <<outstanding, answers, turns>>
    BY <1>3 DEF AdapterStays
  <2>3. AskedIds' = AskedIds \cup {r + 1}
    BY <1>5, <1>7, <2>2 DEF AskedIds
  <2>4. AskedIds' = 1 .. r + 1
    BY <1>2, <2>3
  <2>5. r + 1 \notin AskedIds /\ r + 1 \in Nat
    BY <1>2
  <2>6. /\ \A i \in DOMAIN requests : requests[i].r # r + 1
        /\ \A x \in outstanding : x.r # r + 1
        /\ \A i \in DOMAIN answers : answers[i].r # r + 1
    BY <2>5 DEF AskedIds
  <2>7. turns \in 1 .. turns
    BY <1>4
  <2>8. \A i, j \in DOMAIN requests' : requests'[i].r = requests'[j].r => i = j
    BY <1>5, <1>7, <2>1, <2>6 DEF AskedOnce
  <2>9. \A i \in DOMAIN requests' : /\ \A x \in outstanding : x.r # requests'[i].r
                                    /\ \A j \in DOMAIN answers : answers[j].r # requests'[i].r
                                    /\ requests'[i].t \in 1 .. turns
    BY <1>5, <1>7, <2>1, <2>6, <2>7 DEF AskedOnce
  <2>10. QED
    BY <2>1, <2>2, <2>4, <2>5, <2>8, <2>9 DEF AskedOnce
<1>14. AnswerJustified' /\ TurnsBracketed' /\ StartsUnlessLate'
  <2>1. AnswerJustified /\ TurnsBracketed /\ StartsUnlessLate
    BY DEF AppInv
  <2>2. QED
    BY <1>3, <2>1 DEF AnswerJustified, TurnsBracketed, StartsUnlessLate, Ends, AdapterStays
<1>15. \A t : Reading(t) => Reading(t)'
  <2>1. UNCHANGED <<seen, notices, written, fragments, reports, running>>
    BY <1>3 DEF AdapterStays
  <2>2. QED
    BY <2>1, SameReading
<1>16. \A t : Completed(t)' => Completed(t)
  BY <1>3 DEF Completed, AdapterStays
<1>17. \A t : WasRead(t) => WasRead(t)'
  <2>1. UNCHANGED <<seen, written>>
    BY <1>3 DEF AdapterStays
  <2>2. \A t : SameSeen(t)
    BY <2>1 DEF SameSeen, TextOf, DonesOf
  <2>3. QED
    BY <2>1, <2>2, SameRead
<1>18. active' = active /\ turns' = turns
  BY <1>3 DEF AdapterStays
<1>19. QED
  BY <1>8, <1>9, <1>10, <1>11, <1>12, <1>13, <1>14, <1>15, <1>16, <1>17, <1>18 DEF AppInv

-----------------------------------------------------------------------------
(* Taking an event                                                           *)

\* Event e was taken from one of the queues: the start of its turn is not ahead, and
\* no other start was taken.
Consumed(e) ==
  /\ UNCHANGED <<running, turns, written, compacted, mode, late, decided>>
  /\ ProviderTypes' /\ NoticesInOrder' /\ turns # NoTurnId
  /\ e \in AppEvents /\ e.t <= turns
  /\ \A t \in 1 .. turns : StartAhead(t)' => StartAhead(t) /\ e.t # t
  /\ \A t \in 1 .. turns : StartAhead(t) => StartAhead(t)' \/ (e.k = "TurnStarted" /\ e.t = t)
  /\ \A i \in DOMAIN notices' :
       notices'[i].k # "ThreadStarted" /\ \E j \in DOMAIN notices : notices'[i] = notices[j]
  /\ \A i \in DOMAIN requests' : \E j \in DOMAIN requests : requests'[i] = requests[j]
  /\ \A t \in 1 .. turns : StartAhead(t)' =>
       \A i \in DOMAIN requests' : requests'[i].t = t =>
         \E j \in DOMAIN notices' : notices'[j].k = "TurnStarted" /\ notices'[j].t = t

\* The first notice.
LEMMA NoticeConsumed ==
  ASSUME AppInv, buffered = <<>>, notices # <<>>, notices' = Tail(notices), Keep,
         NEW e, e = Head(notices)
  PROVE  /\ Consumed(e) /\ 1 \in DOMAIN notices /\ notices[1] = e
         /\ \A i \in DOMAIN notices' :
              i \in Nat /\ 1 <= i /\ i + 1 \in DOMAIN notices /\ notices'[i] = notices[i + 1]
         /\ \A i \in DOMAIN notices : i \in Nat /\ 1 <= i /\ (i = 1 \/ i - 1 \in DOMAIN notices')
<1> USE DEF NoTurnId
<1>1. notices \in Seq(AppEvents) /\ requests \in Seq(Asks) /\ turns \in Nat
  BY DEF AppInv, ProviderTypes
<1>2. /\ notices' \in Seq(AppEvents) /\ 1 \in DOMAIN notices /\ notices[1] = e /\ e \in AppEvents
      /\ \A i \in DOMAIN notices' :
              i \in Nat /\ 1 <= i /\ i + 1 \in DOMAIN notices /\ notices'[i] = notices[i + 1]
      /\ \A i \in DOMAIN notices : /\ i \in Nat /\ 1 <= i
                                   /\ i = 1 \/ (i - 1 \in DOMAIN notices' /\ notices'[i - 1] = notices[i])
  BY <1>1, Popped
<1>3. UNCHANGED <<running, turns, written, compacted, mode, late, decided, requests>>
  BY DEF Keep
<1>4. ProviderTypes'
  BY <1>2, <1>3 DEF AppInv, ProviderTypes
<1>5. NoticesInOrder
  BY DEF AppInv
<1>6. NoticesInOrder'
  <2>1. \A i \in DOMAIN notices' :
           /\ notices'[i].t <= turns /\ (notices'[i].k = "ThreadStarted" <=> notices'[i].t = 0)
           /\ notices'[i].k # "ApprovalRequested" /\ (Ends(notices'[i]) => running.t # notices'[i].t)
           /\ running.t # 0 /\ ~running.started => notices'[i].t # running.t
    BY <1>2, <1>5 DEF NoticesInOrder
  <2>2. ASSUME NEW i \in DOMAIN notices', NEW j \in DOMAIN notices'
        PROVE  /\ i < j => notices'[i].t <= notices'[j].t
               /\ notices'[i].k = "TurnStarted" /\ notices'[j].t = notices'[i].t => i <= j
               /\ Ends(notices'[i]) /\ notices'[j].t = notices'[i].t => j <= i
    <3>1. i \in Nat /\ j \in Nat /\ i + 1 \in DOMAIN notices /\ j + 1 \in DOMAIN notices
      BY <1>2
    <3>2. /\ i + 1 < j + 1 => notices[i + 1].t <= notices[j + 1].t
          /\ notices[i + 1].k = "TurnStarted" /\ notices[j + 1].t = notices[i + 1].t => i + 1 <= j + 1
          /\ Ends(notices[i + 1]) /\ notices[j + 1].t = notices[i + 1].t => j + 1 <= i + 1
      BY <1>5, <3>1 DEF NoticesInOrder
    <3>3. QED
      BY <1>2, <3>1, <3>2
  <2>3. QED
    BY <1>3, <2>1, <2>2 DEF NoticesInOrder, Ends
<1>7. turns # 0
  BY DEF AppInv, KeptEvents
<1>8. e.t <= turns
  BY <1>2, <1>5 DEF NoticesInOrder
<1>9. ASSUME NEW t \in 1 .. turns, StartAhead(t)' PROVE StartAhead(t) /\ e.t # t
  <2>1. CASE running.t = t /\ ~running.started
    BY <1>2, <1>5, <2>1 DEF StartAhead, NoticesInOrder
  <2>2. CASE \E i \in DOMAIN notices' : notices'[i].k = "TurnStarted" /\ notices'[i].t = t
    <3>1. PICK i \in DOMAIN notices' : notices'[i].k = "TurnStarted" /\ notices'[i].t = t
      BY <2>2
    <3>2. i + 1 \in DOMAIN notices /\ i \in Nat /\ 1 <= i /\ notices[i + 1].k = "TurnStarted" /\ notices[i + 1].t = t
      BY <1>2, <3>1
    <3>3. ~(i + 1 <= 1)
      BY <3>2
    <3>4. e.t # t
      BY <1>2, <1>5, <3>2, <3>3 DEF NoticesInOrder
    <3>5. QED
      BY <3>2, <3>4 DEF StartAhead
  <2>3. QED
    BY <1>3, <1>9, <2>1, <2>2 DEF StartAhead
<1>10. ASSUME NEW t \in 1 .. turns, StartAhead(t)
       PROVE StartAhead(t)' \/ (e.k = "TurnStarted" /\ e.t = t)
  <2>1. CASE running.t = t /\ ~running.started
    BY <1>3, <2>1 DEF StartAhead
  <2>2. CASE \E i \in DOMAIN notices : notices[i].k = "TurnStarted" /\ notices[i].t = t
    <3>1. PICK i \in DOMAIN notices : notices[i].k = "TurnStarted" /\ notices[i].t = t
      BY <2>2
    <3>2. i = 1 \/ (i - 1 \in DOMAIN notices' /\ notices'[i - 1] = notices[i])
      BY <1>2
    <3>3. QED
      BY <1>2, <3>1, <3>2 DEF StartAhead
  <2>3. QED
    BY <1>10, <2>1, <2>2 DEF StartAhead
<1>11. \A i \in DOMAIN notices' :
         notices'[i].k # "ThreadStarted" /\ \E j \in DOMAIN notices : notices'[i] = notices[j]
  <2>1. ASSUME NEW i \in DOMAIN notices' PROVE notices'[i].k # "ThreadStarted"
    <3>1. i + 1 \in DOMAIN notices /\ i \in Nat /\ 1 <= i /\ notices'[i] = notices[i + 1]
      BY <1>2
    <3>2. i + 1 # 1
      BY <3>1
    <3>3. QED
      BY <3>1, <3>2 DEF AppInv, KeptEvents
  <2>2. QED
    BY <1>2, <2>1
<1>12. ASSUME NEW t \in 1 .. turns, StartAhead(t)', NEW i \in DOMAIN requests, requests[i].t = t
       PROVE  \E j \in DOMAIN notices' : notices'[j].k = "TurnStarted" /\ notices'[j].t = t
  <2>1. StartAhead(t) /\ e.t # t
    BY <1>9, <1>12
  <2>2. PICK j \in DOMAIN notices : notices[j].k = "TurnStarted" /\ notices[j].t = t
    BY <1>12, <2>1 DEF AppInv, StartsFirst
  <2>3. j # 1
    BY <1>2, <2>1, <2>2
  <2>4. j - 1 \in DOMAIN notices' /\ notices'[j - 1] = notices[j]
    BY <1>2, <2>3
  <2>5. QED
    BY <2>2, <2>4
<1>13. QED
  BY <1>2, <1>3, <1>4, <1>6, <1>7, <1>8, <1>9, <1>10, <1>11, <1>12 DEF Consumed

\* The first of the events that were kept.
LEMMA BufferedConsumed ==
  ASSUME AppInv, buffered # <<>>, notices' = notices, Keep, NEW e, e = Head(buffered)
  PROVE  /\ Consumed(e) /\ 1 \in DOMAIN buffered /\ buffered[1] = e
<1> USE DEF NoTurnId
<1>1. notices \in Seq(AppEvents) /\ buffered \in Seq(AppEvents) /\ turns \in Nat
  BY DEF AppInv, ProviderTypes, AdapterTypes
<1>2. 1 \in DOMAIN buffered /\ buffered[1] = e /\ e \in AppEvents
  BY <1>1, Positions
<1>3. UNCHANGED <<running, turns, written, compacted, mode, late, decided, requests, notices>>
  BY DEF Keep
<1>4. ProviderTypes' /\ NoticesInOrder'
  BY <1>3 DEF AppInv, ProviderTypes, NoticesInOrder, Ends
<1>5. turns # 0 /\ e.t <= turns
  BY <1>2 DEF AppInv, KeptEvents
<1>6. \A t : StartAhead(t)' <=> StartAhead(t)
  BY <1>3 DEF StartAhead
<1>7. \A i \in DOMAIN notices : notices[i].k # "ThreadStarted"
  BY DEF AppInv, KeptEvents
<1>8. StartsFirst
  BY DEF AppInv
<1>9. \A t \in 1 .. turns : StartAhead(t) => e.t # t
  BY <1>2, <1>8 DEF StartsFirst
<1>10. \A t \in 1 .. turns : StartAhead(t) => \A i \in DOMAIN requests : requests[i].t = t =>
         \E j \in DOMAIN notices : notices[j].k = "TurnStarted" /\ notices[j].t = t
  BY <1>8 DEF StartsFirst
<1>11. QED
  BY <1>2, <1>3, <1>4, <1>5, <1>6, <1>7, <1>9, <1>10 DEF Consumed

\* The first request.
LEMMA RequestConsumed ==
  ASSUME AppInv, notices = <<>>, requests # <<>>, requests' = Tail(requests),
         UNCHANGED <<notices, running, turns, written, compacted, mode, late, decided>>,
         NEW r, r = Head(requests),
         NEW e, e = [Event("ApprovalRequested", r.t) EXCEPT !.m = r.r]
  PROVE  /\ Consumed(e) /\ e.k = "ApprovalRequested" /\ e.t = r.t /\ r \in Asks /\ r.t \in 1 .. turns
         /\ ~StartAhead(r.t)
         /\ 1 \in DOMAIN requests /\ requests[1] = r
         /\ \A i \in DOMAIN requests' :
              i \in Nat /\ 1 <= i /\ i + 1 \in DOMAIN requests /\ requests'[i] = requests[i + 1]
         /\ \A i \in DOMAIN requests : i = 1 \/ (i - 1 \in DOMAIN requests' /\ requests'[i - 1] = requests[i])
<1> USE DEF NoTurnId
<1>1. requests \in Seq(Asks) /\ turns \in Nat
  BY DEF AppInv, ProviderTypes
<1>2. /\ requests' \in Seq(Asks) /\ 1 \in DOMAIN requests /\ requests[1] = r /\ r \in Asks
      /\ \A i \in DOMAIN requests' :
              i \in Nat /\ 1 <= i /\ i + 1 \in DOMAIN requests /\ requests'[i] = requests[i + 1]
      /\ \A i \in DOMAIN requests : i = 1 \/ (i - 1 \in DOMAIN requests' /\ requests'[i - 1] = requests[i])
  BY <1>1, Popped
<1>3. ProviderTypes' /\ NoticesInOrder'
  BY <1>2 DEF AppInv, ProviderTypes, NoticesInOrder, Ends
<1>4. r.t \in 1 .. turns /\ r.r \in Nat /\ r.t \in Nat
  BY <1>2 DEF AppInv, AskedOnce, Asks
<1>5. e \in AppEvents /\ e.k = "ApprovalRequested" /\ e.t = r.t
  <2>1. <<>> \in Seq(Nat)
    OBVIOUS
  <2>2. QED
    BY <1>4, <2>1 DEF Event, AppEvents
<1>6. \A t : StartAhead(t)' <=> StartAhead(t)
  BY DEF StartAhead
<1>7. StartsFirst
  BY DEF AppInv
<1>8. \A t \in 1 .. turns : StartAhead(t) => \A i \in DOMAIN requests : requests[i].t # t
  BY <1>7 DEF StartsFirst
<1>9. \A t \in 1 .. turns : StartAhead(t) => r.t # t
  BY <1>2, <1>8
<1>10. \A i \in DOMAIN requests' : \E j \in DOMAIN requests : requests'[i] = requests[j]
  BY <1>2
<1>11. e.t <= turns /\ turns # 0
  BY <1>1, <1>4, <1>5
<1>12. Consumed(e)
  BY <1>3, <1>5, <1>6, <1>8, <1>9, <1>10, <1>11 DEF Consumed
<1>13. QED
  BY <1>2, <1>4, <1>5, <1>9, <1>12

-----------------------------------------------------------------------------
(* The compaction                                                            *)

\* The compaction is still known, and its turn has not ended.
CompactionGoes ==
  /\ compaction' \in Compactions /\ LastTurn' /\ CompactionKnown'
  /\ compaction'.on => compaction.on
  /\ \A t : compaction'.on /\ compaction'.turn = t /\ t # NoTurnId => ~EndRead(t)

\* An event that does not concern it.
LEMMA CompactionStays ==
  ASSUME AppInv, NEW e, Consumed(e), compaction' = compaction, active' = active
  PROVE  CompactionGoes
<1>1. UNCHANGED <<running, turns, compacted>>
  BY DEF Consumed
<1>2. compaction \in Compactions /\ LastTurn /\ CompactionKnown
  BY DEF AppInv, AdapterTypes
<1>3. \A i \in DOMAIN notices' : \E j \in DOMAIN notices : notices'[i] = notices[j]
  BY DEF Consumed
<1>4. LastTurn'
  BY <1>1, <1>2 DEF LastTurn
<1>5. CompactionKnown'
  BY <1>1, <1>2, <1>3 DEF CompactionKnown
<1>6. compaction.on /\ compaction.turn # NoTurnId => ~EndRead(compaction.turn)
  BY DEF AppInv, NotEnded
<1>7. QED
  BY <1>2, <1>4, <1>5, <1>6 DEF CompactionGoes

\* A notice that names its turn, or its item.
LEMMA CompactionMoves ==
  ASSUME AppInv, notices \in Seq(AppEvents), NEW e, Consumed(e), 1 \in DOMAIN notices, notices[1] = e,
         \A i \in DOMAIN notices' :
              i \in Nat /\ 1 <= i /\ i + 1 \in DOMAIN notices /\ notices'[i] = notices[i + 1],
         compaction' = CompactionAfter(e), active' = active
  PROVE  CompactionGoes /\ compaction'.on = compaction.on
<1> USE DEF NoTurnId
<1>1. UNCHANGED <<running, turns, compacted>> /\ e \in AppEvents /\ e.t <= turns
  BY DEF Consumed
<1>2. compaction \in Compactions /\ LastTurn /\ CompactionKnown /\ NoticesInOrder
  BY DEF AppInv, AdapterTypes
<1>3. e.t \in Nat /\ turns \in Nat
  BY <1>1, EventTypes DEF AppInv, ProviderTypes
<1>4. CASE compaction' = compaction
  BY <1>4, CompactionStays
<1>5. CASE Compacting /\ e.k = "TurnStarted" /\ compaction' = [compaction EXCEPT !.turn = e.t]
  <2>1. /\ compaction' \in Compactions /\ compaction'.turn = e.t /\ compaction'.item = compaction.item
        /\ compaction'.completed = compaction.completed /\ compaction'.on /\ compaction.on
    BY <1>2, <1>3, <1>5 DEF Compacting, Compactions
  <2>2. LastTurn'
    BY <1>1, <1>2, <2>1 DEF LastTurn
  <2>3. ~compaction.item
    <3>1. compaction.turn # turns
      BY <1>2, <1>5, <2>1 DEF CompactionKnown
    <3>2. QED
      BY <1>2, <3>1 DEF CompactionKnown
  <2>4. e.t # 0
    BY <1>2, <1>5 DEF NoticesInOrder
  <2>5. ASSUME e.t = turns
        PROVE  /\ \A i \in DOMAIN notices' : notices'[i].t = turns /\ notices'[i].k # "TurnStarted"
               /\ running.t # 0 => running.started
    <3>1. ASSUME NEW i \in DOMAIN notices' PROVE notices'[i].t = turns /\ notices'[i].k # "TurnStarted"
      <4>1. i + 1 \in DOMAIN notices /\ i \in Nat /\ 1 <= i /\ notices'[i] = notices[i + 1]
        BY <3>1
      <4>2. 1 < i + 1 /\ ~(i + 1 <= 1)
        BY <4>1
      <4>3. notices[1].t <= notices[i + 1].t /\ notices[i + 1].t <= turns
        BY <1>2, <4>1, <4>2 DEF NoticesInOrder
      <4>4. notices[i + 1].t \in Nat
        BY <4>1, EventNumbers
      <4>5. notices[i + 1].t = turns
        BY <1>3, <2>5, <4>3, <4>4
      <4>6. notices[i + 1].k # "TurnStarted"
        BY <1>2, <2>5, <4>1, <4>2, <4>5 DEF NoticesInOrder
      <4>7. QED
        BY <4>1, <4>5, <4>6
    <3>2. running.t # 0 => running.started
      BY <1>2, <2>5 DEF NoticesInOrder, LastTurn
    <3>3. QED
      BY <3>1, <3>2
  <2>6. \A i \in DOMAIN notices' : \E j \in DOMAIN notices : notices'[i] = notices[j]
    BY DEF Consumed
  <2>7. CompactionKnown'
    BY <1>1, <1>2, <2>1, <2>3, <2>5, <2>6 DEF CompactionKnown
  <2>8. ~EndRead(e.t)
    <3>1. StartAhead(e.t)
      BY <1>5 DEF StartAhead
    <3>2. e.t \in 1 .. turns
      BY <1>1, <1>3, <2>4
    <3>3. QED
      BY <3>1, <3>2 DEF AppInv, StartsFirst, EndRead
  <2>9. QED
    BY <2>1, <2>2, <2>7, <2>8 DEF CompactionGoes
<1>6. CASE /\ Compacting /\ compaction.turn = e.t
           /\ \/ e.k = "CompactStarted" /\ compaction' = [compaction EXCEPT !.item = TRUE]
              \/ e.k = "CompactDone" /\ compaction.item /\ compaction' = [compaction EXCEPT !.completed = TRUE]
  <2>1. /\ compaction' \in Compactions /\ compaction'.turn = compaction.turn /\ compaction'.item
        /\ compaction'.on /\ compaction.on
    BY <1>2, <1>3, <1>6 DEF Compacting, Compactions
  <2>2. LastTurn'
    BY <1>1, <1>2, <2>1 DEF LastTurn
  <2>3. e.t = turns
    BY <1>2, <1>6 DEF CompactionKnown
  <2>4. \A i \in DOMAIN notices' : \E j \in DOMAIN notices : notices'[i] = notices[j]
    BY DEF Consumed
  <2>5. CompactionKnown'
    BY <1>1, <1>2, <1>6, <2>1, <2>3, <2>4 DEF CompactionKnown
  <2>6. compaction.turn # 0 => ~EndRead(compaction.turn)
    BY <2>1 DEF AppInv, NotEnded
  <2>7. QED
    BY <2>1, <2>2, <2>5, <2>6 DEF CompactionGoes
<1>7. QED
  BY <1>4, <1>5, <1>6 DEF CompactionAfter

\* The end of its turn ends it.
LEMMA CompactionEnds ==
  ASSUME AppInv, notices \in Seq(AppEvents), NEW e, Consumed(e), 1 \in DOMAIN notices, notices[1] = e,
         \A i \in DOMAIN notices' :
              i \in Nat /\ 1 <= i /\ i + 1 \in DOMAIN notices /\ notices'[i] = notices[i + 1],
         Ends(e), compaction.on, compaction.turn = e.t, compaction.item,
         compaction' = NoCompaction, active' = NoTurnId
  PROVE  CompactionGoes
<1> USE DEF NoTurnId
<1>1. UNCHANGED <<running, turns, compacted>> /\ turns \in Nat /\ turns # 0
  BY DEF Consumed, AppInv, ProviderTypes
<1>2. LastTurn /\ CompactionKnown /\ NoticesInOrder
  BY DEF AppInv
<1>3. NoCompaction \in Compactions /\ ~NoCompaction.on /\ ~NoCompaction.item /\ ~NoCompaction.completed
  BY DEF NoCompaction, Compactions
<1>4. e.t = turns
  BY <1>2 DEF CompactionKnown
<1>5. running.t = 0
  BY <1>2, <1>4 DEF NoticesInOrder, LastTurn
<1>6. LastTurn'
  BY <1>1, <1>2, <1>3, <1>5 DEF LastTurn
<1>7. ASSUME NEW i \in DOMAIN notices' PROVE FALSE
  <2>1. i + 1 \in DOMAIN notices /\ i \in Nat /\ 1 <= i
    BY <1>7
  <2>2. ~(i + 1 <= 1)
    BY <2>1
  <2>3. notices[i + 1].t = turns
    BY <1>2, <1>4, <2>1 DEF CompactionKnown
  <2>4. QED
    BY <1>2, <1>4, <2>1, <2>2, <2>3 DEF NoticesInOrder
<1>8. CompactionKnown'
  BY <1>3, <1>7 DEF CompactionKnown
<1>9. QED
  BY <1>3, <1>6, <1>8 DEF CompactionGoes

-----------------------------------------------------------------------------
(* What a call does with the event                                           *)

\* What is left of the events that were kept.
LeftOf(rest) ==
  /\ rest \in Seq(AppEvents)
  /\ rest = buffered \/ (buffered # <<>> /\ rest = Tail(buffered))

\* The parts of the invariant about what the calls and the engine were told.
Told ==
  /\ Abandoned /\ KeptEvents /\ StartsFirst /\ OnTime /\ NotEnded /\ TurnsBracketed
  /\ StartsUnlessLate

\* What is left was kept before.
LEMMA LeftFacts ==
  ASSUME AppInv, NEW rest, LeftOf(rest)
  PROVE  /\ \A i \in DOMAIN rest : \E j \in DOMAIN buffered : rest[i] = buffered[j]
         /\ Len(rest) <= 2
         /\ Len(rest) = 2 => rest[1].k = "ThreadStarted" /\ rest[2].k = "TurnStarted"
         /\ buffered = <<>> => rest = <<>>
         /\ buffered # <<>> /\ rest = Tail(buffered) =>
              /\ \A i \in DOMAIN rest : rest[i].k = "TurnStarted" /\ buffered[1].k = "ThreadStarted"
              /\ \A j \in DOMAIN buffered : j = 1 \/ \E i \in DOMAIN rest : rest[i] = buffered[j]
<1>1. buffered \in Seq(AppEvents) /\ Len(buffered) \in Nat /\ Len(buffered) <= 2
      /\ (Len(buffered) = 2 => buffered[1].k = "ThreadStarted" /\ buffered[2].k = "TurnStarted")
  BY DEF AppInv, AdapterTypes, KeptEvents
<1>2. CASE rest = buffered /\ ~(buffered # <<>> /\ rest = Tail(buffered))
  BY <1>1, <1>2
<1>3. CASE buffered # <<>> /\ rest = Tail(buffered)
  <2>1. /\ Len(rest) = Len(buffered) - 1
        /\ \A i \in DOMAIN rest : i \in Nat /\ 1 <= i /\ i + 1 \in DOMAIN buffered /\ rest[i] = buffered[i + 1]
        /\ \A i \in DOMAIN buffered : /\ i \in Nat /\ 1 <= i
                                      /\ i = 1 \/ (i - 1 \in DOMAIN rest /\ rest[i - 1] = buffered[i])
    BY <1>1, <1>3, Popped
  <2>2. ASSUME NEW i \in DOMAIN rest PROVE rest[i].k = "TurnStarted" /\ buffered[1].k = "ThreadStarted"
    <3>1. i \in Nat /\ 1 <= i /\ i + 1 \in DOMAIN buffered /\ rest[i] = buffered[i + 1]
      BY <2>1
    <3>2. i + 1 <= Len(buffered)
      BY <1>1, <3>1, Positions
    <3>3. i + 1 = 2 /\ Len(buffered) = 2
      <4> DEFINE n == Len(buffered)
      <4>1. n \in Nat /\ n <= 2 /\ i + 1 <= n
        BY <1>1, <3>2
      <4> HIDE DEF n
      <4>2. i + 1 = 2 /\ n = 2
        BY <3>1, <4>1
      <4>3. QED
        BY <4>2 DEF n
    <3>4. QED
      BY <1>1, <3>1, <3>3
  <2>3. \A j \in DOMAIN buffered : j = 1 \/ \E i \in DOMAIN rest : rest[i] = buffered[j]
    BY <2>1
  <2>4. \A i \in DOMAIN rest : \E j \in DOMAIN buffered : rest[i] = buffered[j]
    BY <2>1
  <2>5. Len(rest) <= 2 /\ Len(rest) # 2
    <3> DEFINE n == Len(buffered)
    <3>1. n \in Nat /\ n <= 2 /\ Len(rest) = n - 1
      BY <1>1, <2>1
    <3> HIDE DEF n
    <3>2. QED
      BY <3>1
  <2>6. QED
    BY <1>3, <2>2, <2>3, <2>4, <2>5
<1>4. QED
  BY <1>2, <1>3 DEF LeftOf

\* The starts, after an event was taken.
LEMMA StartsAfter ==
  ASSUME AppInv, NEW e, Consumed(e), CompactionGoes,
         active' = active \/ active' = NoTurnId,
         \/ call' = "none"
         \/ call' = "CompactItems" /\ compaction'.on
         \/ call' = call /\ e.k # "TurnStarted" /\ active' = active /\ compaction'.on = compaction.on,
         \A i \in DOMAIN seen' : (\E j \in DOMAIN seen : seen'[i] = seen[j]) \/ seen'[i].t = e.t,
         \A i \in DOMAIN buffered' :
           (\E j \in DOMAIN buffered : buffered'[i] = buffered[j]) \/ buffered'[i].t \in {NoTurnId, e.t},
         \A t : t = active /\ active' # NoTurnId /\ call = "none" /\ StartRead(t) => StartRead(t)',
         \A t : t = active /\ active' # NoTurnId /\ e.k = "TurnStarted" /\ e.t = t
                => call' = "none" /\ StartRead(t)'
  PROVE  StartsFirst'
<1> USE DEF NoTurnId
<1>1. StartsFirst
  BY DEF AppInv
<1>2. turns \in Nat /\ turns # 0 /\ turns' = turns /\ late' = late
  BY DEF AppInv, ProviderTypes, Consumed
<1>3. turns \in 1 .. turns /\ (active # 0 => active = turns) /\ (compaction'.on => active' = 0)
  BY <1>2 DEF AppInv, LastTurn, CompactionGoes
<1>4. \A t \in 1 .. turns : StartAhead(t) => StartAhead(t)' \/ (e.k = "TurnStarted" /\ e.t = t)
  BY DEF Consumed
<1>5. \A t : t = active' /\ t # 0 => StartAhead(t)' \/ (call' = "none" /\ StartRead(t)')
  <2> SUFFICES ASSUME NEW t, t = active', t # 0 PROVE StartAhead(t)' \/ (call' = "none" /\ StartRead(t)')
    OBVIOUS
  <2>1. t = active /\ t \in 1 .. turns
    BY <1>3
  <2>2. CASE StartAhead(t)
    BY <1>4, <2>1, <2>2
  <2>3. CASE call = "none" /\ StartRead(t)
    <3>1. StartRead(t)'
      BY <2>1, <2>3
    <3>2. call' = "none"
      BY <1>3, <2>3
    <3>3. QED
      BY <3>1, <3>2
  <2>4. QED
    BY <1>1, <2>1, <2>2, <2>3 DEF StartsFirst
<1>6. call' = "Start" => active' # 0 /\ \A t : t = active' => StartAhead(t)'
  <2> SUFFICES ASSUME call' = "Start" PROVE active' # 0 /\ \A t : t = active' => StartAhead(t)'
    OBVIOUS
  <2>1. call = "Start" /\ e.k # "TurnStarted" /\ active' = active
    OBVIOUS
  <2>2. active # 0 /\ StartAhead(active)
    BY <1>1, <2>1 DEF StartsFirst
  <2>3. \A t : t = active => StartAhead(t)'
    BY <1>3, <1>4, <2>1, <2>2
  <2>4. QED
    BY <2>1, <2>2, <2>3
<1>7. call' \in {"CompactTurn", "CompactItems"} => compaction'.on
  BY <1>1 DEF StartsFirst
<1>8. call' = "CompactTurn" /\ ~late => \A t : t = turns => StartAhead(t)'
  BY <1>1, <1>3, <1>4 DEF StartsFirst
<1>9. ASSUME NEW t \in 1 .. turns, StartAhead(t)'
      PROVE  /\ \A i \in DOMAIN seen' : seen'[i].t # t
             /\ \A i \in DOMAIN buffered' : buffered'[i].t # t
             /\ \A i \in DOMAIN requests' : requests'[i].t = t =>
                  \E j \in DOMAIN notices' : notices'[j].k = "TurnStarted" /\ notices'[j].t = t
  <2>1. StartAhead(t) /\ e.t # t
    BY <1>9 DEF Consumed
  <2>2. /\ \A i \in DOMAIN seen : seen[i].t # t
        /\ \A i \in DOMAIN buffered : buffered[i].t # t
    BY <1>1, <2>1 DEF StartsFirst
  <2>3. t # 0
    BY <1>2
  <2>4. /\ \A i \in DOMAIN requests' : requests'[i].t = t =>
             \E j \in DOMAIN notices' : notices'[j].k = "TurnStarted" /\ notices'[j].t = t
    BY <1>9 DEF Consumed
  <2>5. QED
    BY <2>1, <2>2, <2>3, <2>4
<1>10. QED
  BY <1>2, <1>5, <1>6, <1>7, <1>8, <1>9 DEF StartsFirst

\* What is kept, after an event was taken.
LEMMA KeptAfter ==
  ASSUME AppInv, NEW e, Consumed(e), NEW rest, LeftOf(rest), buffered' = rest,
         call' = "none" => held' = <<>>,
         call' = "Start" => call = "Start" /\ active' = active /\ Len(held') <= 1,
         call' = "Start" => \A i \in DOMAIN held' : held'[i].k = "ThreadStarted" /\ held'[i].t = NoTurnId,
         call' = "Start" /\ held' # <<>> => \A i \in DOMAIN rest : rest[i].k # "ThreadStarted",
         call' = "CompactItems" => rest = <<>>
  PROVE  KeptEvents'
<1> USE DEF NoTurnId
<1>1. KeptEvents
  BY DEF AppInv
<1>2. turns' = turns /\ turns # 0 /\ \A i \in DOMAIN notices' : notices'[i].k # "ThreadStarted"
  BY DEF Consumed
<1>3. /\ \A i \in DOMAIN rest : \E j \in DOMAIN buffered : rest[i] = buffered[j]
      /\ Len(rest) <= 2
      /\ Len(rest) = 2 => rest[1].k = "ThreadStarted" /\ rest[2].k = "TurnStarted"
  BY LeftFacts
<1>4. \A i \in DOMAIN rest :
        /\ rest[i].k \in {"ThreadStarted", "TurnStarted", "TurnCompleted", "TurnFailed"}
        /\ rest[i].k = "ThreadStarted" <=> rest[i].t = NoTurnId
        /\ rest[i].t <= turns
        /\ call' = "Start" => rest[i].t < active'
  BY <1>1, <1>3 DEF KeptEvents
<1>5. QED
  BY <1>2, <1>3, <1>4 DEF KeptEvents

\* A call that goes on still finds only what belongs to its turn.
LEMMA OnTimeAfter ==
  ASSUME AppInv, NEW e, Consumed(e), NEW rest, LeftOf(rest), buffered' = rest,
         \/ call' \in {"none", "CompactItems"}
         \/ call' = call /\ active' = active /\ compaction' = compaction
  PROVE  OnTime'
<1>1. OnTime
  BY DEF AppInv
<1>2. /\ \A i \in DOMAIN notices' : \E j \in DOMAIN notices : notices'[i] = notices[j]
      /\ \A i \in DOMAIN requests' : \E j \in DOMAIN requests : requests'[i] = requests[j]
      /\ turns' = turns /\ late' = late
  BY DEF Consumed
<1>3. buffered = <<>> => rest = <<>>
  BY LeftFacts
<1>4. QED
  BY <1>1, <1>2, <1>3 DEF OnTime

\* The calls that failed.
LEMMA FailedAfter ==
  ASSUME AppInv,
         \/ failed' = failed
         \/ /\ failed' = Append(failed, [call |-> call, late |-> late])
            /\ call \in {"Start", "CompactTurn"} => late
  PROVE  /\ StartsUnlessLate' /\ failed' \in Seq(Refusals) /\ (failed # <<>> => failed' # <<>>)
         /\ failed' = Append(failed, [call |-> call, late |-> late]) => failed' # <<>>
<1>1. failed \in Seq(Refusals) /\ StartsUnlessLate /\ late \in BOOLEAN
      /\ call \in {"none", "Start", "CompactTurn", "CompactItems"}
  BY DEF AppInv, AdapterTypes
<1>2. CASE failed' = failed /\ failed' # Append(failed, [call |-> call, late |-> late])
  BY <1>1, <1>2 DEF StartsUnlessLate
<1>0. ASSUME failed' = Append(failed, [call |-> call, late |-> late])
      PROVE  failed' # failed
  <2>1. Len(failed') = Len(failed) + 1 /\ Len(failed) \in Nat
    BY <1>0, <1>1
  <2>2. QED
    BY <2>1
<1>3. CASE /\ failed' = Append(failed, [call |-> call, late |-> late])
           /\ call \in {"Start", "CompactTurn"} => late
  <2> DEFINE f == [call |-> call, late |-> late]
  <2>1. f \in Refusals /\ f.call = call /\ f.late = late
    BY <1>1 DEF Refusals
  <2>2. failed' = Append(failed, f)
    BY <1>3
  <2> HIDE DEF f
  <2>3. /\ failed' \in Seq(Refusals) /\ failed' # <<>>
        /\ \A i \in DOMAIN failed' : failed'[i] = f \/ (i \in DOMAIN failed /\ failed'[i] = failed[i])
    BY <1>1, <2>1, <2>2, Appended
  <2>4. QED
    BY <1>1, <1>3, <2>1, <2>3 DEF StartsUnlessLate
<1>4. QED
  BY <1>0, <1>2, <1>3

\* The engine is told nothing.
LEMMA SilentTold ==
  ASSUME AppInv, NEW e, Consumed(e), CompactionGoes, NEW rest, LeftOf(rest), buffered' = rest,
         seen' = seen, active' = active \/ active' = NoTurnId,
         \/ failed' = failed
         \/ /\ failed' = Append(failed, [call |-> call, late |-> late])
            /\ call \in {"Start", "CompactTurn"} => late,
         \/ call' = "none" /\ held' = <<>> /\ (compaction'.on => failed' # <<>>)
         \/ call' = "CompactItems" /\ compaction'.on /\ rest = <<>>
         \/ /\ call' = call /\ e.k # "TurnStarted" /\ active' = active /\ compaction' = compaction
            /\ \/ held' = held
               \/ /\ call = "Start" /\ e.k = "ThreadStarted" /\ e.t = NoTurnId
                  /\ held = <<>> /\ held' = <<e>>
                  /\ \A i \in DOMAIN rest : rest[i].k # "ThreadStarted",
         active' # NoTurnId /\ e.k = "TurnStarted" => e.t # active,
         call = "none" => rest = buffered
  PROVE  Told'
<1> USE DEF NoTurnId
<1>1. StartsUnlessLate' /\ (failed # <<>> => failed' # <<>>)
  BY FailedAfter
<1>2. Abandoned'
  BY <1>1 DEF AppInv, Abandoned
<1>3. /\ \A i \in DOMAIN rest : \E j \in DOMAIN buffered : rest[i] = buffered[j]
      /\ buffered = <<>> => rest = <<>>
  BY LeftFacts
<1>4. KeptEvents'
  <2>1. KeptEvents
    BY DEF AppInv
  <2>2. call' = "none" => held' = <<>>
    BY <2>1 DEF KeptEvents
  <2>3. call' = "Start" => call = "Start" /\ active' = active
    OBVIOUS
  <2>4. ASSUME call' = "Start"
        PROVE  /\ Len(held') <= 1 /\ (\A i \in DOMAIN held' : held'[i].k = "ThreadStarted" /\ held'[i].t = 0)
               /\ held' # <<>> => \A i \in DOMAIN rest : rest[i].k # "ThreadStarted"
    <3>1. CASE held' = held
      BY <1>3, <2>1, <2>3, <2>4, <3>1 DEF KeptEvents
    <3>2. CASE /\ e.k = "ThreadStarted" /\ e.t = 0 /\ held' = <<e>>
               /\ \A i \in DOMAIN rest : rest[i].k # "ThreadStarted"
      <4>1. Len(held') = 1 /\ DOMAIN held' = {1} /\ held'[1] = e
        BY <3>2
      <4>2. QED
        BY <3>2, <4>1
    <3>3. QED
      BY <2>4, <3>1, <3>2
  <2>5. call' = "CompactItems" => rest = <<>>
    BY <1>3, <2>1 DEF KeptEvents
  <2>6. QED
    BY <2>2, <2>3, <2>4, <2>5, KeptAfter
<1>5. StartsFirst'
  <2>1. ASSUME NEW t, t = active, call = "none", StartRead(t) PROVE StartRead(t)'
    BY <2>1 DEF StartRead
  <2>2. \/ call' = "none"
        \/ call' = "CompactItems" /\ compaction'.on
        \/ call' = call /\ e.k # "TurnStarted" /\ active' = active /\ compaction'.on = compaction.on
    OBVIOUS
  <2>3. QED
    BY <1>3, <2>1, <2>2, StartsAfter
<1>6. OnTime'
  <2>1. \/ call' \in {"none", "CompactItems"}
        \/ call' = call /\ active' = active /\ compaction' = compaction
    OBVIOUS
  <2>2. QED
    BY <2>1, OnTimeAfter
<1>7. NotEnded'
  <2>1. NotEnded /\ turns' = turns /\ compacted' = compacted
    BY DEF AppInv, Consumed
  <2>2. \A t : EndRead(t)' => EndRead(t)
    BY <1>3 DEF EndRead, Ends
  <2>3. \A t : t = active' /\ t # 0 => ~EndRead(t)'
    BY <2>1, <2>2 DEF NotEnded
  <2>4. \A t : compaction'.on /\ t = compaction'.turn /\ t # 0 => ~EndRead(t)'
    BY <2>2 DEF CompactionGoes
  <2>5. \A t : compaction'.on /\ t = turns => ~EndRead(t)'
    BY <2>1, <2>2 DEF CompactionGoes, NotEnded
  <2>6. \A i \in DOMAIN rest : rest[i].t # 0 =>
          /\ \A j \in DOMAIN seen : ~(Ends(seen[j]) /\ seen[j].t = rest[i].t)
          /\ \/ rest[i].k = "TurnStarted"
             \/ failed' # <<>> /\ rest[i].t \in compacted
             \/ \E j \in DOMAIN seen : seen[j].k = "TurnStarted" /\ seen[j].t = rest[i].t
    BY <1>1, <1>3, <2>1 DEF NotEnded
  <2>7. QED
    BY <2>1, <2>3, <2>4, <2>5, <2>6 DEF NotEnded, Ends
<1>8. TurnsBracketed'
  <2>1. TurnsBracketed /\ compacted' = compacted
    BY DEF AppInv, Consumed
  <2>2. QED
    BY <1>1, <2>1 DEF TurnsBracketed, Ends
<1>9. QED
  BY <1>1, <1>2, <1>4, <1>5, <1>6, <1>7, <1>8 DEF Told

\* The start of its turn was told, unless a call failed, and its end was not.
Opened(x) ==
  x.t # NoTurnId =>
    /\ \/ x.k = "TurnStarted"
       \/ failed # <<>> /\ (x.t \in compacted \/ x.k = "Usage")
       \/ \E j \in DOMAIN seen : seen[j].k = "TurnStarted" /\ seen[j].t = x.t
    /\ \A j \in DOMAIN seen : ~(Ends(seen[j]) /\ seen[j].t = x.t)

\* The engine is told an event of a turn that is open.
LEMMA BracketedAfter ==
  ASSUME AppInv, NEW x \in AppEvents, seen' = Append(seen, x), Opened(x), compacted' = compacted,
         failed' = failed
  PROVE  TurnsBracketed'
<1> USE DEF NoTurnId
<1>1. seen \in Seq(AppEvents) /\ TurnsBracketed
  BY DEF AppInv, AdapterTypes
<1> DEFINE n == Len(seen) + 1
<1>2. /\ n \in DOMAIN seen' /\ seen'[n] = x /\ n \in Nat
      /\ \A i \in DOMAIN seen : i \in DOMAIN seen' /\ seen'[i] = seen[i] /\ i \in Nat /\ i < n
      /\ \A i \in DOMAIN seen' : i \in Nat /\ (i = n \/ (i \in DOMAIN seen /\ i < n))
      /\ DOMAIN seen = 1 .. n - 1
  BY <1>1, Appended
<1> HIDE DEF n
<1>3. SUFFICES ASSUME NEW i \in DOMAIN seen', seen'[i].t # 0
               PROVE /\ \/ failed # <<>> /\ (seen'[i].t \in compacted \/ seen'[i].k = "Usage")
                        \/ \E j \in 1 .. i : seen'[j].k = "TurnStarted" /\ seen'[j].t = seen'[i].t
                     /\ ~\E j \in 1 .. i - 1 : Ends(seen'[j]) /\ seen'[j].t = seen'[i].t
  BY DEF TurnsBracketed, Ends
<1>4. CASE i = n
  <2>1. ~\E j \in 1 .. n - 1 : Ends(seen'[j]) /\ seen'[j].t = x.t
    BY <1>2, <1>3, <1>4 DEF Opened
  <2>2. \/ failed # <<>> /\ (x.t \in compacted \/ x.k = "Usage")
        \/ \E j \in 1 .. n : seen'[j].k = "TurnStarted" /\ seen'[j].t = x.t
    <3>1. n \in 1 .. n /\ DOMAIN seen \subseteq 1 .. n
      <4>1. 1 <= n
        BY <1>2
      <4>2. QED
        BY <1>2, <4>1
    <3>2. QED
      BY <1>2, <1>3, <1>4, <3>1 DEF Opened
  <2>3. QED
    BY <1>2, <1>4, <2>1, <2>2
<1>5. CASE i \in DOMAIN seen
  <2>1. /\ \/ failed # <<>> /\ (seen[i].t \in compacted \/ seen[i].k = "Usage")
           \/ \E j \in 1 .. i : seen[j].k = "TurnStarted" /\ seen[j].t = seen[i].t
        /\ ~\E j \in 1 .. i - 1 : Ends(seen[j]) /\ seen[j].t = seen[i].t
    BY <1>1, <1>2, <1>3, <1>5 DEF TurnsBracketed
  <2>2. \A j \in 1 .. i : j \in DOMAIN seen /\ seen'[j] = seen[j]
    BY <1>2, <1>5
  <2>3. \A j \in 1 .. i - 1 : seen'[j] = seen[j]
    BY <1>2, <1>5, <2>2
  <2>4. QED
    BY <1>2, <1>5, <2>1, <2>2, <2>3
<1>6. QED
  BY <1>2, <1>4, <1>5

\* The engine is told event x.
LEMMA HandsTold ==
  ASSUME AppInv, NEW e, Consumed(e), CompactionGoes, NEW rest, LeftOf(rest), buffered' = rest,
         NEW x \in AppEvents, x.t = e.t, seen' = Append(seen, x), Opened(x),
         call = "none", UNCHANGED <<call, held, failed>>,
         active' = active \/ active' = NoTurnId,
         rest = buffered \/ x = Head(buffered),
         active' # NoTurnId /\ e.k = "TurnStarted" => x.k = "TurnStarted",
         Ends(x) => /\ x.t # active' /\ (compaction'.on => x.t # compaction'.turn /\ x.t # turns)
                    /\ \A i \in DOMAIN rest : rest[i].t # x.t,
         x.k \in {"Delta", "MessageDone"} => x.t \notin compacted /\ x.t # NoTurnId
  PROVE  Told'
<1> USE DEF NoTurnId
<1>1. seen \in Seq(AppEvents) /\ buffered \in Seq(AppEvents)
  BY DEF AppInv, AdapterTypes
<1> DEFINE n == Len(seen) + 1
<1>2. /\ n \in DOMAIN seen' /\ seen'[n] = x
      /\ \A i \in DOMAIN seen : i \in DOMAIN seen' /\ seen'[i] = seen[i]
      /\ \A i \in DOMAIN seen' : i = n \/ i \in DOMAIN seen
  BY <1>1, Appended
<1> HIDE DEF n
<1>3. /\ \A i \in DOMAIN rest : \E j \in DOMAIN buffered : rest[i] = buffered[j]
      /\ buffered # <<>> /\ rest = Tail(buffered) =>
           \A j \in DOMAIN buffered : j = 1 \/ \E i \in DOMAIN rest : rest[i] = buffered[j]
  BY LeftFacts
<1>4. turns' = turns /\ compacted' = compacted /\ e.t <= turns
  BY DEF Consumed
<1>5. Abandoned' /\ StartsUnlessLate'
  BY DEF AppInv, Abandoned, CompactionGoes, StartsUnlessLate
<1>6. KeptEvents'
  <2>1. held = <<>>
    BY DEF AppInv, KeptEvents
  <2>2. QED
    BY <2>1, KeptAfter
<1>7. \A t : StartRead(t) => StartRead(t)'
  <2> SUFFICES ASSUME NEW t, StartRead(t) PROVE StartRead(t)'
    OBVIOUS
  <2>1. CASE \E i \in DOMAIN seen : seen[i].k = "TurnStarted" /\ seen[i].t = t
    BY <1>2, <2>1 DEF StartRead
  <2>2. CASE \E i \in DOMAIN buffered : buffered[i].k = "TurnStarted" /\ buffered[i].t = t
    <3>1. PICK i \in DOMAIN buffered : buffered[i].k = "TurnStarted" /\ buffered[i].t = t
      BY <2>2
    <3>2. CASE rest = buffered
      BY <3>1, <3>2 DEF StartRead
    <3>3. CASE rest # buffered
      <4>1. buffered # <<>> /\ rest = Tail(buffered) /\ x = Head(buffered)
        BY <3>3 DEF LeftOf
      <4>2. x = buffered[1]
        BY <1>1, <4>1, Positions
      <4>3. i = 1 \/ \E j \in DOMAIN rest : rest[j] = buffered[i]
        BY <1>3, <4>1
      <4>4. QED
        BY <1>2, <3>1, <4>2, <4>3 DEF StartRead
    <3>4. QED
      BY <3>2, <3>3
  <2>3. QED
    BY <2>1, <2>2 DEF StartRead
<1>8. StartsFirst'
  <2>1. \A i \in DOMAIN seen' : (\E j \in DOMAIN seen : seen'[i] = seen[j]) \/ seen'[i].t = e.t
    BY <1>2
  <2>2. \A t : active' # 0 /\ e.k = "TurnStarted" /\ e.t = t => call' = "none" /\ StartRead(t)'
    BY <1>2 DEF StartRead
  <2>3. QED
    BY <1>3, <1>7, <2>1, <2>2, StartsAfter
<1>9. OnTime'
  BY OnTimeAfter
<1>10. NotEnded'
  <2>1. NotEnded
    BY DEF AppInv
  <2>2. \A t : EndRead(t)' => EndRead(t) \/ (Ends(x) /\ x.t = t)
    BY <1>2, <1>3 DEF EndRead, Ends
  <2>3. \A t : t = active' /\ t # 0 => ~EndRead(t)'
    BY <2>1, <2>2 DEF NotEnded
  <2>4. \A t : compaction'.on /\ t = compaction'.turn /\ t # 0 => ~EndRead(t)'
    BY <2>2 DEF CompactionGoes
  <2>5. \A t : compaction'.on /\ t = turns => ~EndRead(t)'
    BY <2>1, <2>2 DEF CompactionGoes, NotEnded
  <2>6. ASSUME NEW i \in DOMAIN rest, rest[i].t # 0
        PROVE  /\ \A j \in DOMAIN seen' : ~(Ends(seen'[j]) /\ seen'[j].t = rest[i].t)
               /\ \/ rest[i].k = "TurnStarted"
                  \/ failed # <<>> /\ rest[i].t \in compacted
                  \/ \E j \in DOMAIN seen' : seen'[j].k = "TurnStarted" /\ seen'[j].t = rest[i].t
    <3>1. PICK j \in DOMAIN buffered : rest[i] = buffered[j]
      BY <1>3, <2>6
    <3>2. /\ \A l \in DOMAIN seen : ~(Ends(seen[l]) /\ seen[l].t = rest[i].t)
          /\ \/ rest[i].k = "TurnStarted"
             \/ failed # <<>> /\ rest[i].t \in compacted
             \/ \E l \in DOMAIN seen : seen[l].k = "TurnStarted" /\ seen[l].t = rest[i].t
      BY <2>1, <2>6, <3>1 DEF NotEnded
    <3>3. QED
      BY <1>2, <2>6, <3>2
  <2>7. \A i \in DOMAIN seen' : /\ seen'[i].t <= turns
                                /\ seen'[i].k \in {"Delta", "MessageDone"} =>
                                     seen'[i].t \notin compacted /\ seen'[i].t # 0
    BY <1>2, <1>4, <2>1 DEF NotEnded
  <2>8. QED
    BY <1>4, <2>3, <2>4, <2>5, <2>6, <2>7 DEF NotEnded, Ends
<1>11. TurnsBracketed'
  BY <1>4, BracketedAfter
<1>12. QED
  BY <1>5, <1>6, <1>8, <1>9, <1>10, <1>11 DEF Told

\* A call found the start of its turn: it keeps it, behind the start of the thread.
LEMMA FoundTold ==
  ASSUME AppInv, NEW e, Consumed(e), CompactionGoes, buffered = <<>>, call = "Start",
         e.k = "TurnStarted", e.t = active, call' = "none", held' = <<>>,
         buffered' = Append(held, e), UNCHANGED <<seen, failed, active, compaction>>
  PROVE  Told'
<1> USE DEF NoTurnId
<1>1. held \in Seq(AppEvents) /\ e \in AppEvents /\ turns' = turns /\ compacted' = compacted
      /\ e.t <= turns /\ turns # 0
  BY DEF AppInv, AdapterTypes, Consumed
<1>2. active # 0 /\ ~compaction.on
  BY DEF AppInv, StartsFirst, LastTurn
<1>3. /\ Len(held) \in Nat /\ Len(held) <= 1
      /\ \A i \in DOMAIN held : held[i].k = "ThreadStarted" /\ held[i].t = 0
  BY <1>1 DEF AppInv, KeptEvents
<1> DEFINE n == Len(held) + 1
<1>4. /\ Len(buffered') = n /\ n \in DOMAIN buffered' /\ buffered'[n] = e
      /\ \A i \in DOMAIN held : i \in DOMAIN buffered' /\ buffered'[i] = held[i]
      /\ \A i \in DOMAIN buffered' : i = n \/ i \in DOMAIN held
      /\ DOMAIN held = 1 .. Len(held)
  BY <1>1, Appended
<1>5. n <= 2 /\ (n = 2 => 1 \in DOMAIN held)
  BY <1>3, <1>4
<1> HIDE DEF n
<1>6. Abandoned' /\ StartsUnlessLate'
  BY <1>2 DEF AppInv, Abandoned, StartsUnlessLate
<1>7. KeptEvents'
  <2>1. \A i \in DOMAIN buffered' :
          /\ buffered'[i].k \in {"ThreadStarted", "TurnStarted"}
          /\ buffered'[i].k = "ThreadStarted" <=> buffered'[i].t = 0
          /\ buffered'[i].t <= turns
    <3>1. turns \in Nat
      BY DEF AppInv, ProviderTypes
    <3>2. QED
      BY <1>1, <1>2, <1>3, <1>4, <3>1
  <2>2. Len(buffered') <= 2
    BY <1>4, <1>5
  <2>3. Len(buffered') = 2 => buffered'[1].k = "ThreadStarted" /\ buffered'[2].k = "TurnStarted"
    BY <1>3, <1>4, <1>5
  <2>4. \A i \in DOMAIN notices' : notices'[i].k # "ThreadStarted"
    BY DEF Consumed
  <2>5. QED
    BY <1>1, <2>1, <2>2, <2>3, <2>4 DEF KeptEvents
<1>8. StartsFirst'
  <2>1. \A i \in DOMAIN buffered' : buffered'[i].t \in {0, e.t}
    BY <1>3, <1>4
  <2>2. \A t : e.t = t => StartRead(t)'
    BY <1>4 DEF StartRead
  <2>3. QED
    BY <2>1, <2>2, StartsAfter
<1>9. OnTime'
  BY DEF OnTime
<1>10. NotEnded'
  <2>1. NotEnded
    BY DEF AppInv
  <2>2. \A i \in DOMAIN buffered' : ~Ends(buffered'[i])
    BY <1>3, <1>4 DEF Ends
  <2>3. \A t : EndRead(t)' => EndRead(t)
    BY <2>2 DEF EndRead, Ends
  <2>4. \A j \in DOMAIN seen : ~(Ends(seen[j]) /\ seen[j].t = e.t)
    BY <1>2, <2>1 DEF NotEnded, EndRead
  <2>5. \A i \in DOMAIN buffered' : buffered'[i].t # 0 =>
          buffered'[i].k = "TurnStarted" /\ buffered'[i].t = e.t
    BY <1>3, <1>4
  <2>6. \A t : t = active => ~EndRead(t)'
    BY <1>2, <2>1, <2>3 DEF NotEnded
  <2>7. QED
    BY <1>1, <1>2, <2>1, <2>4, <2>5, <2>6 DEF NotEnded, Ends
<1>11. TurnsBracketed'
  <2>1. TurnsBracketed
    BY DEF AppInv
  <2>2. QED
    BY <1>1, <2>1 DEF TurnsBracketed, Ends
<1>12. QED
  BY <1>6, <1>7, <1>8, <1>9, <1>10, <1>11 DEF Told

\* The turn ended: the engine is told its report, and the end is kept behind it.
LEMMA ReportTold ==
  ASSUME AppInv, NEW e, Consumed(e), CompactionGoes, buffered = <<>>, call = "none",
         Ends(e), e.t = active, active # NoTurnId, active' = NoTurnId, compaction' = compaction,
         NEW x \in AppEvents, x.k = "Delta", x.t = e.t, seen' = Append(seen, x), Opened(x),
         \E j \in DOMAIN seen : seen[j].k = "TurnStarted" /\ seen[j].t = active,
         buffered' = <<e>>, UNCHANGED <<call, held, failed>>
  PROVE  Told'
<1> USE DEF NoTurnId
<1>1. seen \in Seq(AppEvents) /\ e \in AppEvents /\ turns' = turns /\ compacted' = compacted
      /\ e.t <= turns /\ turns # 0 /\ held = <<>>
  BY DEF AppInv, AdapterTypes, Consumed, KeptEvents
<1>2. ~compaction.on /\ active \notin compacted
  BY DEF AppInv, LastTurn
<1> DEFINE n == Len(seen) + 1
<1>3. /\ n \in DOMAIN seen' /\ seen'[n] = x
      /\ \A i \in DOMAIN seen : i \in DOMAIN seen' /\ seen'[i] = seen[i]
      /\ \A i \in DOMAIN seen' : i = n \/ i \in DOMAIN seen
  BY <1>1, Appended
<1> HIDE DEF n
<1>4. Len(buffered') = 1 /\ DOMAIN buffered' = {1} /\ buffered'[1] = e
  OBVIOUS
<1>5. Abandoned' /\ StartsUnlessLate'
  BY <1>2 DEF AppInv, Abandoned, StartsUnlessLate
<1>6. KeptEvents'
  <2>1. \A i \in DOMAIN notices' : notices'[i].k # "ThreadStarted"
    BY DEF Consumed
  <2>2. e.k \in {"TurnCompleted", "TurnFailed"}
    BY DEF Ends
  <2>3. QED
    BY <1>1, <1>4, <2>1, <2>2 DEF KeptEvents
<1>7. StartsFirst'
  <2>1. \A i \in DOMAIN seen' : (\E j \in DOMAIN seen : seen'[i] = seen[j]) \/ seen'[i].t = e.t
    BY <1>3
  <2>2. QED
    BY <1>4, <2>1, StartsAfter
<1>8. OnTime'
  BY DEF OnTime
<1>9. NotEnded'
  <2>1. NotEnded
    BY DEF AppInv
  <2>2. \A j \in DOMAIN seen' : ~(Ends(seen'[j]) /\ seen'[j].t = e.t)
    BY <1>3, <2>1 DEF NotEnded, EndRead, Ends
  <2>3. \E j \in DOMAIN seen' : seen'[j].k = "TurnStarted" /\ seen'[j].t = e.t
    BY <1>3
  <2>4. \A i \in DOMAIN seen' : /\ seen'[i].t <= turns
                                /\ seen'[i].k \in {"Delta", "MessageDone"} =>
                                     seen'[i].t \notin compacted /\ seen'[i].t # 0
    BY <1>1, <1>2, <1>3, <2>1 DEF NotEnded
  <2>5. QED
    BY <1>1, <1>2, <1>4, <2>2, <2>3, <2>4 DEF NotEnded, Ends
<1>10. TurnsBracketed'
  BY <1>1, BracketedAfter
<1>11. QED
  BY <1>5, <1>6, <1>7, <1>8, <1>9, <1>10 DEF Told

-----------------------------------------------------------------------------
(* Events without text                                                       *)

\* The parts, together.
LEMMA Assembled ==
  ASSUME AppInv, NEW e, Consumed(e), CompactionGoes, Told', AdapterTypes', WrittenInOrder',
         UNCHANGED <<requests, outstanding, answers>>,
         \A t : t = active' /\ t # NoTurnId => Reading(t)',
         \A t \in 1 .. turns : Completed(t)' => WasRead(t)'
  PROVE  AppInv'
<1>1. AskedOnce /\ AnswerJustified
  BY DEF AppInv
<1>2. turns' = turns /\ decided' = decided
  BY DEF Consumed
<1>3. AskedOnce' /\ AnswerJustified'
  BY <1>1, <1>2 DEF AskedOnce, AskedIds, AnswerJustified
<1>4. QED
  BY <1>2, <1>3 DEF AppInv, Consumed, CompactionGoes, Told

\* An event without text leaves what was read of every turn.
LEMMA SeenStays ==
  ASSUME AppInv, NEW t,
         seen' = seen \/ \E x \in AppEvents : seen' = Append(seen, x) /\ x.k \notin {"Delta", "MessageDone"}
  PROVE  SameSeen(t)
<1>1. seen \in Seq(AppEvents)
  BY DEF AppInv, AdapterTypes
<1>2. CASE seen' = seen
  BY <1>2 DEF SameSeen, TextOf, DonesOf
<1>3. CASE seen' # seen
  <2>1. PICK x \in AppEvents : seen' = Append(seen, x) /\ x.k \notin {"Delta", "MessageDone"}
    BY <1>3
  <2> DEFINE n == Len(seen) + 1
  <2>2. /\ n \in DOMAIN seen' /\ seen'[n] = x
        /\ \A i \in DOMAIN seen : i \in DOMAIN seen' /\ seen'[i] = seen[i]
        /\ \A i \in DOMAIN seen' : i = n \/ i \in DOMAIN seen
    BY <1>1, <2>1, Appended
  <2> HIDE DEF n
  <2>3. QED
    BY <2>1, <2>2 DEF SameSeen, TextOf, DonesOf
<1>4. QED
  BY <1>2, <1>3

\* And the text of the active turn.
LEMMA TextStays ==
  ASSUME AppInv, NEW e, Consumed(e), NEW c \in Nat, UNCHANGED <<fragments, reports>>,
         active' = active \/ active' = NoTurnId,
         \A t : t = active' /\ t # NoTurnId => Shifted(t, c),
         seen' = seen \/ \E x \in AppEvents : seen' = Append(seen, x) /\ x.k \notin {"Delta", "MessageDone"},
         \A t \in 1 .. turns : Completed(t)' => Completed(t) \/ WasRead(t)
  PROVE  /\ WrittenInOrder'
         /\ \A t : t = active' /\ t # NoTurnId => Reading(t)'
         /\ \A t \in 1 .. turns : Completed(t)' => WasRead(t)'
<1>1. UNCHANGED <<running, turns, written, compacted>>
  BY DEF Consumed
<1>2. \A t : SameSeen(t)
  BY SeenStays
<1>3. WrittenInOrder'
  BY <1>1 DEF AppInv, WrittenInOrder
<1>4. ASSUME NEW t, t = active', t # NoTurnId PROVE Reading(t)'
  <2>1. Reading(t)
    BY <1>4 DEF AppInv
  <2>2. Shifted(t, c)
    BY <1>4
  <2>3. QED
    BY <1>1, <1>2, <2>1, <2>2, ShiftedReading
<1>5. ASSUME NEW t \in 1 .. turns, Completed(t)' PROVE WasRead(t)'
  <2>1. WasRead(t)
    BY <1>5 DEF AppInv
  <2>2. QED
    BY <1>1, <1>2, <2>1, SameRead
<1>6. QED
  BY <1>3, <1>4, <1>5

\* A notice is taken that is not text of the active turn.
LEMMA PopShifted ==
  ASSUME AppInv, NEW e, NEW t, 1 \in DOMAIN notices, notices[1] = e,
         \A i \in DOMAIN notices' :
              i \in Nat /\ 1 <= i /\ i + 1 \in DOMAIN notices /\ notices'[i] = notices[i + 1],
         \A i \in DOMAIN notices : i \in Nat /\ 1 <= i /\ (i = 1 \/ i - 1 \in DOMAIN notices'),
         e.k \notin {"Delta", "MessageDone"} \/ e.t # t
  PROVE  Shifted(t, 1)
  BY DEF Shifted, TextAhead, DonesAhead

\* No queue was read but the kept events.
LEMMA NoShift ==
  ASSUME AppInv, NEW t, notices' = notices
  PROVE  Shifted(t, 0)
<1>1. \A i \in DOMAIN notices : i \in Nat
  BY DEF AppInv, ProviderTypes
<1>2. QED
  BY <1>1 DEF Shifted, TextAhead, DonesAhead

\* The first notice belongs to the active turn and is not its start: no call awaits
\* that start, and the engine was told it, and not the end.
LEMMA HeadOfActive ==
  ASSUME AppInv, buffered = <<>>, NEW e, 1 \in DOMAIN notices, notices[1] = e,
         e.t = active, active # NoTurnId, e.k # "TurnStarted"
  PROVE  /\ call = "none" /\ active = turns /\ turns \in 1 .. turns /\ ~compaction.on
         /\ active \notin compacted
         /\ \E j \in DOMAIN seen : seen[j].k = "TurnStarted" /\ seen[j].t = active
         /\ \A j \in DOMAIN seen : ~(Ends(seen[j]) /\ seen[j].t = active)
<1> USE DEF NoTurnId
<1>1. active = turns /\ turns \in Nat /\ turns # 0 /\ ~compaction.on /\ active \notin compacted
  BY DEF AppInv, LastTurn, ProviderTypes
<1>2. ~StartAhead(active)
  <2>1. SUFFICES ASSUME StartAhead(active) PROVE FALSE
    OBVIOUS
  <2>2. NoticesInOrder /\ notices \in Seq(AppEvents)
    BY DEF AppInv, ProviderTypes
  <2>3. ~(running.t = active /\ ~running.started)
    BY <2>2 DEF NoticesInOrder
  <2>4. PICK i \in DOMAIN notices : notices[i].k = "TurnStarted" /\ notices[i].t = active
    BY <2>1, <2>3 DEF StartAhead
  <2>5. i <= 1
    BY <2>2, <2>4 DEF NoticesInOrder
  <2>6. i = 1
    BY <2>2, <2>4, <2>5, Positions
  <2>7. QED
    BY <2>4, <2>6
<1>3. call = "none" /\ StartRead(active)
  BY <1>2 DEF AppInv, StartsFirst
<1>4. \E j \in DOMAIN seen : seen[j].k = "TurnStarted" /\ seen[j].t = active
  BY <1>3 DEF StartRead
<1>5. \A j \in DOMAIN seen : ~(Ends(seen[j]) /\ seen[j].t = active)
  BY DEF AppInv, NotEnded, EndRead
<1>6. turns \in 1 .. turns
  BY <1>1
<1>7. QED
  BY <1>1, <1>3, <1>4, <1>5, <1>6

\* An event that was kept is delivered.
LEMMA BufferedKeeps ==
  ASSUME AppInv, NextBuffered
  PROVE  AppInv'
<1> USE DEF NoTurnId
<1> DEFINE e == Head(buffered)
           rest == Tail(buffered)
<1>1. /\ buffered # <<>> /\ Deliver(e, rest) /\ Keep
      /\ UNCHANGED <<notices, active, compaction, fragments, reports>>
  BY DEF NextBuffered
<1>2. buffered \in Seq(AppEvents) /\ held \in Seq(AppEvents) /\ seen \in Seq(AppEvents)
  BY DEF AppInv, AdapterTypes
<1>3. Consumed(e) /\ 1 \in DOMAIN buffered /\ buffered[1] = e
  BY <1>1, BufferedConsumed
<1>4. LeftOf(rest)
  BY <1>1, <1>2, Popped DEF LeftOf
<1>5. e \in AppEvents
  BY <1>3 DEF Consumed
<1>6. CompactionGoes
  BY <1>1, <1>3, CompactionStays
<1>7. /\ e.k \in {"ThreadStarted", "TurnStarted", "TurnCompleted", "TurnFailed"}
      /\ e.k = "ThreadStarted" <=> e.t = 0
      /\ call = "Start" => e.t < active
      /\ call = "CompactItems" => FALSE
  BY <1>1, <1>3 DEF AppInv, KeptEvents
<1>8. \A i \in DOMAIN rest : rest[i].k = "TurnStarted" /\ e.k = "ThreadStarted"
  BY <1>1, <1>3, <1>4, LeftFacts
<1>9. call \in {"Start", "CompactTurn"} => late
  BY <1>1 DEF AppInv, OnTime
<1>10. rest \in Seq(AppEvents) /\ rest = Tail(buffered)
  BY <1>4 DEF LeftOf
<1> HIDE DEF e
<1>11. /\ Told' /\ seen' \in Seq(AppEvents) /\ held' \in Seq(AppEvents) /\ failed' \in Seq(Refusals)
       /\ buffered' = rest /\ call' \in {"none", "Start", "CompactTurn", "CompactItems"}
       /\ seen' = seen \/ seen' = Append(seen, e)
  <2>0. active # 0 /\ ~late => call # "Start"
    BY <1>9
  <2>1. CASE call = "none" /\ seen' = Append(seen, e) /\ buffered' = rest /\ UNCHANGED <<call, held, failed>>
    <3>1. Opened(e)
      BY <1>3, <1>7 DEF AppInv, NotEnded, Opened
    <3>2. Ends(e) => /\ e.t # active' /\ (compaction'.on => e.t # compaction'.turn /\ e.t # turns)
                     /\ \A i \in DOMAIN rest : rest[i].t # e.t
      <4>1. Ends(e) => e.t # 0 /\ EndRead(e.t)
        BY <1>3, <1>7 DEF Ends, EndRead
      <4>2. Ends(e) => \A i \in DOMAIN rest : rest[i].t # e.t
        BY <1>8 DEF Ends
      <4>3. QED
        BY <1>1, <4>1, <4>2 DEF AppInv, NotEnded
    <3>3. Told'
      BY <1>1, <1>3, <1>4, <1>5, <1>6, <1>7, <2>1, <3>1, <3>2, HandsTold DEF e
    <3>4. seen' \in Seq(AppEvents)
      BY <1>2, <1>5, <2>1, Appended
    <3>5. QED
      BY <1>2, <2>1, <3>3, <3>4 DEF AppInv, AdapterTypes
  <2>2. CASE Fail(rest) /\ call # "none"
    <3>1. /\ call' = "none" /\ held' = <<>> /\ buffered' = rest /\ seen' = seen
          /\ failed' = Append(failed, [call |-> call, late |-> late])
      BY <2>2 DEF Fail
    <3>2. failed' \in Seq(Refusals) /\ failed' # <<>>
      BY <1>9, <3>1, FailedAfter
    <3>3. active' # 0 /\ e.k = "TurnStarted" => e.t # active
      <4>1. CASE call = "Start"
        <5>1. e.t < active /\ e.t \in Nat /\ active \in Nat
          BY <1>5, <1>7, <4>1, EventTypes DEF AppInv, AdapterTypes
        <5>2. QED
          BY <5>1
      <4>2. CASE call \in {"CompactTurn", "CompactItems"}
        BY <1>1, <4>2 DEF AppInv, StartsFirst, LastTurn
      <4>3. QED
        BY <2>2, <4>1, <4>2 DEF AppInv, AdapterTypes
    <3>4. Told'
      BY <1>1, <1>3, <1>4, <1>6, <1>9, <2>2, <3>1, <3>2, <3>3, SilentTold
    <3>5. QED
      BY <1>2, <3>1, <3>2, <3>4
  <2>3. CASE call = "Start" /\ StartAwaits(e, rest) /\ ~Fail(rest)
    <3>1. e.k = "ThreadStarted"
      <4>1. CASE e.k = "TurnStarted" /\ e.t = active
        <5>1. e.t < active /\ e.t \in Nat
          BY <1>5, <1>7, <2>3, EventTypes
        <5>2. QED
          BY <4>1, <5>1
      <4>2. QED
        BY <2>3, <4>1 DEF StartAwaits
    <3>2. held = <<>>
      BY <1>3, <2>3, <3>1 DEF AppInv, KeptEvents
    <3>3. call' = call /\ held' = <<e>> /\ buffered' = rest /\ UNCHANGED <<seen, failed>>
      BY <2>3, <3>1, <3>2 DEF StartAwaits
    <3>4. \A i \in DOMAIN rest : rest[i].k # "ThreadStarted"
      BY <1>8
    <3>5. Told'
      BY <1>1, <1>3, <1>4, <1>6, <1>7, <2>3, <3>1, <3>2, <3>3, <3>4, SilentTold
    <3>6. held' \in Seq(AppEvents)
      BY <1>5, <3>3
    <3>7. QED
      BY <1>2, <2>3, <3>3, <3>5, <3>6 DEF AppInv, AdapterTypes
  <2>4. CASE call \in {"CompactTurn", "CompactItems"} /\ CompactAwaits(e, rest) /\ ~Fail(rest)
    <3>1. call = "CompactTurn" /\ e.k = "TurnStarted"
      BY <1>7, <2>4 DEF CompactAwaits
    <3>2. ~Ends(e)
      BY <3>1 DEF Ends
    <3>3. /\ call' = "CompactItems" /\ buffered' = rest /\ UNCHANGED <<seen, failed>>
          /\ held' = IF held = <<>> THEN <<e>> ELSE held
      BY <2>4, <3>1, <3>2 DEF CompactAwaits
    <3>4. rest = <<>>
      <4>1. \A i \in DOMAIN rest : FALSE
        BY <1>8, <3>1
      <4>2. QED
        BY <1>10, <4>1, Positions
    <3>5. compaction.on /\ active = 0
      BY <3>1 DEF AppInv, StartsFirst, LastTurn
    <3>6. Told'
      BY <1>1, <1>3, <1>4, <1>6, <2>4, <3>1, <3>3, <3>4, <3>5, SilentTold
    <3>7. held' \in Seq(AppEvents)
      BY <1>2, <1>5, <3>3
    <3>8. QED
      BY <1>2, <3>3, <3>6, <3>7 DEF AppInv, AdapterTypes
  <2>5. QED
    BY <1>1, <2>1, <2>2, <2>3, <2>4 DEF Deliver
<1>12. AdapterTypes'
  BY <1>1, <1>10, <1>11 DEF AppInv, AdapterTypes, Keep
<1>13. /\ WrittenInOrder'
       /\ \A t : t = active' /\ t # NoTurnId => Reading(t)'
       /\ \A t \in 1 .. turns : Completed(t)' => WasRead(t)'
  <2>1. \A t : Shifted(t, 0)
    BY <1>1, NoShift
  <2>2. ASSUME NEW t, Completed(t)' PROVE Completed(t)
    <3>1. \A i \in DOMAIN rest : \E j \in DOMAIN buffered : rest[i] = buffered[j]
      BY <1>4, LeftFacts
    <3>2. \A i \in DOMAIN seen' : seen'[i] = e \/ (i \in DOMAIN seen /\ seen'[i] = seen[i])
      BY <1>2, <1>5, <1>11, Appended
    <3>3. QED
      BY <1>3, <1>11, <2>2, <3>1, <3>2 DEF Completed
  <2>3. e.k \notin {"Delta", "MessageDone"}
    BY <1>7
  <2>4. seen' = seen \/ \E x \in AppEvents : seen' = Append(seen, x) /\ x.k \notin {"Delta", "MessageDone"}
    BY <1>5, <1>11, <2>3
  <2>5. QED
    BY <1>1, <1>3, <2>1, <2>2, <2>4, TextStays
<1>14. UNCHANGED <<requests, outstanding, answers>>
  BY <1>1 DEF Keep
<1>15. QED
  BY <1>3, <1>6, <1>11, <1>12, <1>13, <1>14, Assembled

\* A notice without text of the active turn leaves the text, and the parts that the
\* calls were told make the rest.
LEMMA NoticeStays ==
  ASSUME AppInv, buffered = <<>>, notices # <<>>, notices' = Tail(notices), Keep,
         NEW e, e = Head(notices), e.k \notin {"Delta", "MessageDone"} \/ e.t # active,
         UNCHANGED <<fragments, reports>>, active' = active \/ active' = NoTurnId,
         CompactionGoes, Told',
         seen' = seen \/ (seen' = Append(seen, e) /\ e.k \notin {"Delta", "MessageDone"}),
         buffered' \in Seq(AppEvents), held' \in Seq(AppEvents), failed' \in Seq(Refusals),
         call' \in {"none", "Start", "CompactTurn", "CompactItems"},
         \A t \in 1 .. turns : Completed(t)' => Completed(t) \/ WasRead(t)
  PROVE  AppInv'
<1>1. /\ Consumed(e) /\ 1 \in DOMAIN notices /\ notices[1] = e
      /\ \A i \in DOMAIN notices' :
           i \in Nat /\ 1 <= i /\ i + 1 \in DOMAIN notices /\ notices'[i] = notices[i + 1]
      /\ \A i \in DOMAIN notices : i \in Nat /\ 1 <= i /\ (i = 1 \/ i - 1 \in DOMAIN notices')
  BY NoticeConsumed
<1>2. e \in AppEvents
  BY <1>1 DEF Consumed
<1>3. \A t : t = active' /\ t # NoTurnId => Shifted(t, 1)
  BY <1>1, PopShifted
<1>4. seen' = seen \/ \E x \in AppEvents : seen' = Append(seen, x) /\ x.k \notin {"Delta", "MessageDone"}
  BY <1>2
<1>5. /\ WrittenInOrder'
      /\ \A t : t = active' /\ t # NoTurnId => Reading(t)'
      /\ \A t \in 1 .. turns : Completed(t)' => WasRead(t)'
  BY <1>1, <1>3, <1>4, TextStays
<1>6. AdapterTypes'
  <2>1. seen' \in Seq(AppEvents)
    BY <1>2, Appended DEF AppInv, AdapterTypes
  <2>2. QED
    BY <2>1 DEF AppInv, AdapterTypes, Keep, CompactionGoes, NoTurnId
<1>7. UNCHANGED <<requests, outstanding, answers>>
  BY DEF Keep
<1>8. QED
  BY <1>1, <1>5, <1>6, <1>7, Assembled

\* A call that found the queues empty finds the start of the thread or of its turn.
LEMMA HeadOnTime ==
  ASSUME AppInv, NEW e, 1 \in DOMAIN notices, notices[1] = e, call \in {"Start", "CompactTurn"}, ~late
  PROVE  \/ call = "Start" /\ e.k = "ThreadStarted"
         \/ e.k = "TurnStarted" /\ e.t = turns
<1> USE DEF NoTurnId
<1>1. NoticesInOrder /\ notices \in Seq(AppEvents) /\ OnTime /\ StartsFirst /\ LastTurn
  BY DEF AppInv, ProviderTypes
<1>2. e.t = 0 \/ e.t = turns
  BY <1>1 DEF OnTime
<1>3. CASE e.t = 0
  BY <1>1, <1>3 DEF OnTime, NoticesInOrder
<1>4. CASE e.t = turns /\ e.t # 0
  <2>1. StartAhead(turns)
    BY <1>1 DEF StartsFirst, LastTurn
  <2>2. ~(running.t = turns /\ ~running.started)
    BY <1>1, <1>4 DEF NoticesInOrder
  <2>3. PICK i \in DOMAIN notices : notices[i].k = "TurnStarted" /\ notices[i].t = turns
    BY <2>1, <2>2 DEF StartAhead
  <2>4. i <= 1
    BY <1>1, <1>4, <2>3 DEF NoticesInOrder
  <2>5. i = 1
    BY <1>1, <2>3, <2>4, Positions
  <2>6. QED
    BY <1>4, <2>3, <2>5
<1>5. QED
  BY <1>2, <1>3, <1>4

\* A notice that is ignored.
LEMMA IgnoredKeeps ==
  ASSUME AppInv, buffered = <<>>, notices # <<>>, notices' = Tail(notices), Keep, NextIgnored
  PROVE  AppInv'
<1> DEFINE e == Head(notices)
<1>1. Consumed(e)
  BY NoticeConsumed
<1>2. /\ e.k = "Ignorable" /\ UNCHANGED <<active, compaction, fragments, reports>>
      /\ UNCHANGED <<call, held, seen, failed, buffered>>
  BY DEF NextIgnored, Quiet
<1>3. CompactionGoes
  BY <1>1, <1>2, CompactionStays
<1>4. LeftOf(buffered)
  BY DEF LeftOf, AppInv, AdapterTypes
<1> HIDE DEF e
<1>5. Told'
  BY <1>1, <1>2, <1>3, <1>4, SilentTold
<1>6. \A t : Completed(t)' => Completed(t)
  BY <1>2 DEF Completed
<1>7. /\ buffered \in Seq(AppEvents) /\ held \in Seq(AppEvents) /\ failed \in Seq(Refusals)
      /\ call \in {"none", "Start", "CompactTurn", "CompactItems"}
  BY DEF AppInv, AdapterTypes
<1>8. QED
  BY <1>2, <1>3, <1>5, <1>6, <1>7, NoticeStays DEF e

\* A notice that is refused ends the call.
LEMMA RefusedKeeps ==
  ASSUME AppInv, buffered = <<>>, notices # <<>>, notices' = Tail(notices), Keep, NextRefused
  PROVE  AppInv'
<1> USE DEF NoTurnId
<1> DEFINE e == Head(notices)
<1>1. /\ Consumed(e) /\ 1 \in DOMAIN notices /\ notices[1] = e
      /\ \A i \in DOMAIN notices' :
           i \in Nat /\ 1 <= i /\ i + 1 \in DOMAIN notices /\ notices'[i] = notices[i + 1]
  BY NoticeConsumed
<1>2. /\ ~WellFormed(e) \/ ~Bound(e) \/ Ends(e)
      /\ compaction' = CompactionAfter(e) /\ Fail(buffered) /\ UNCHANGED <<active, fragments, reports>>
  BY DEF NextRefused
<1>3. CompactionGoes
  BY <1>1, <1>2, CompactionMoves DEF AppInv, ProviderTypes
<1>4. LeftOf(buffered)
  BY DEF LeftOf, AppInv, AdapterTypes
<1> HIDE DEF e
<1>5. /\ call' = "none" /\ held' = <<>> /\ buffered' = buffered /\ seen' = seen
      /\ failed' = Append(failed, [call |-> call, late |-> late])
  BY <1>2 DEF Fail
<1>6. e.k = "TurnStarted" /\ active # 0 => e.t # active
  BY <1>2 DEF WellFormed, Ends, Bound, Compacting
<1>7. call \in {"Start", "CompactTurn"} => late
  <2>1. SUFFICES ASSUME call \in {"Start", "CompactTurn"}, ~late PROVE FALSE
    BY DEF AppInv, AdapterTypes
  <2>2. CASE call = "Start" /\ e.k = "ThreadStarted"
    BY <1>2, <2>2 DEF WellFormed, Ends, Bound
  <2>3. CASE call = "Start" /\ e.k = "TurnStarted" /\ e.t = turns
    BY <1>6, <2>3 DEF AppInv, StartsFirst, LastTurn
  <2>4. CASE call = "CompactTurn" /\ e.k = "TurnStarted"
    <3>1. compaction.turn = 0 /\ compaction.on /\ active = 0
      BY <2>1, <2>4 DEF AppInv, OnTime, StartsFirst, LastTurn
    <3>2. QED
      BY <1>2, <2>4, <3>1 DEF WellFormed, Ends, Bound, Compacting
  <2>5. QED
    BY <1>1, <2>1, <2>2, <2>3, <2>4, HeadOnTime
<1>8. failed' \in Seq(Refusals) /\ failed' # <<>>
  BY <1>5, <1>7, FailedAfter
<1>9. Told'
  BY <1>1, <1>2, <1>3, <1>4, <1>5, <1>6, <1>7, <1>8, SilentTold
<1>10. e.k \in {"Delta", "MessageDone"} => e.t # active
  BY <1>2 DEF WellFormed, Ends, Bound
<1>11. \A t : Completed(t)' => Completed(t)
  BY <1>5 DEF Completed
<1>12. buffered \in Seq(AppEvents) /\ held' \in Seq(AppEvents)
  BY <1>5 DEF AppInv, AdapterTypes
<1>13. QED
  BY <1>2, <1>3, <1>5, <1>8, <1>9, <1>10, <1>11, <1>12, NoticeStays DEF e

\* An event of a notice that carries no text and ends nothing.
LEMMA PlainOpened ==
  ASSUME AppInv, buffered = <<>>, NEW e, 1 \in DOMAIN notices, notices[1] = e, call = "none",
         e.k \in {"ThreadStarted", "TurnStarted", "Usage", "CompactStarted", "CompactDone"}, Bound(e)
  PROVE  Opened(e)
<1> USE DEF NoTurnId
<1>1. notices \in Seq(AppEvents) /\ e \in AppEvents /\ turns \in Nat /\ e.t <= turns
      /\ (e.k = "ThreadStarted" <=> e.t = 0)
  BY DEF AppInv, ProviderTypes, NoticesInOrder
<1>2. CASE e.k = "ThreadStarted"
  BY <1>1, <1>2 DEF Opened
<1>3. CASE e.k = "TurnStarted"
  <2>1. StartAhead(e.t)
    BY <1>3 DEF StartAhead
  <2>2. e.t \in 1 .. turns
    BY <1>1, <1>3, EventTypes
  <2>3. \A j \in DOMAIN seen : seen[j].t # e.t
    BY <2>1, <2>2 DEF AppInv, StartsFirst
  <2>4. QED
    BY <1>3, <2>3 DEF Opened
<1>4. CASE e.k \in {"Usage", "CompactStarted", "CompactDone"} /\ active = e.t
  BY <1>1, <1>4, HeadOfActive DEF Opened
<1>5. CASE e.k \in {"Usage", "CompactStarted", "CompactDone"} /\ compaction.on /\ compaction.turn = e.t
  <2>1. failed # <<>>
    BY <1>5 DEF AppInv, Abandoned
  <2>2. e.t # 0 /\ ~EndRead(e.t)
    BY <1>1, <1>5 DEF AppInv, NotEnded
  <2>3. e.k \in {"CompactStarted", "CompactDone"} => e.t \in compacted
    BY DEF AppInv, CompactionKnown
  <2>4. QED
    BY <1>5, <2>1, <2>2, <2>3 DEF Opened, EndRead
<1>6. QED
  BY <1>2, <1>3, <1>4, <1>5 DEF Bound, Compacting, Ends

\* It is delivered.
LEMMA PlainKeeps ==
  ASSUME AppInv, buffered = <<>>, notices # <<>>, notices' = Tail(notices), Keep, NextPlain
  PROVE  AppInv'
<1> USE DEF NoTurnId
<1> DEFINE e == Head(notices)
<1>1. /\ Consumed(e) /\ 1 \in DOMAIN notices /\ notices[1] = e
      /\ \A i \in DOMAIN notices' :
           i \in Nat /\ 1 <= i /\ i + 1 \in DOMAIN notices /\ notices'[i] = notices[i + 1]
  BY NoticeConsumed
<1>2. /\ e.k \notin {"Delta", "MessageDone", "Ignorable"} /\ WellFormed(e) /\ ~Ends(e) /\ Bound(e)
      /\ compaction' = CompactionAfter(e) /\ Deliver(e, buffered) /\ UNCHANGED <<active, fragments, reports>>
  BY DEF NextPlain
<1>3. CompactionGoes /\ compaction'.on = compaction.on
  BY <1>1, <1>2, CompactionMoves DEF AppInv, ProviderTypes
<1>4. LeftOf(buffered)
  BY DEF LeftOf, AppInv, AdapterTypes
<1>5. e \in AppEvents /\ turns # 0 /\ turns \in Nat
  BY <1>1 DEF Consumed, AppInv, ProviderTypes
<1>6. e.k \in {"ThreadStarted", "TurnStarted", "Usage", "CompactStarted", "CompactDone"}
  <2>1. e.k # "ApprovalRequested"
    BY <1>1 DEF AppInv, NoticesInOrder
  <2>2. QED
    BY <1>2, <1>5, <2>1, EventTypes DEF WellFormed, Ends, NoticeKinds
<1>7. /\ buffered \in Seq(AppEvents) /\ held \in Seq(AppEvents) /\ seen \in Seq(AppEvents)
      /\ failed \in Seq(Refusals) /\ call \in {"none", "Start", "CompactTurn", "CompactItems"}
  BY DEF AppInv, AdapterTypes
<1>8. e.k = "ThreadStarted" <=> e.t = 0
  BY <1>1 DEF AppInv, NoticesInOrder
<1> HIDE DEF e
<1>9. /\ Told' /\ held' \in Seq(AppEvents) /\ failed' \in Seq(Refusals) /\ buffered' \in Seq(AppEvents)
      /\ call' \in {"none", "Start", "CompactTurn", "CompactItems"}
      /\ seen' = seen \/ seen' = Append(seen, e)
      /\ \A i \in DOMAIN buffered' : buffered'[i].k # "TurnCompleted"
  <2>1. CASE call = "none" /\ seen' = Append(seen, e) /\ buffered' = buffered /\ UNCHANGED <<call, held, failed>>
    <3>1. Opened(e)
      BY <1>1, <1>2, <1>6, <2>1, PlainOpened
    <3>2. Told'
      BY <1>1, <1>2, <1>3, <1>4, <1>5, <1>6, <2>1, <3>1, HandsTold
    <3>3. QED
      BY <1>7, <2>1, <3>2
  <2>2. CASE call = "Start" /\ StartAwaits(e, buffered)
    <3>1. active # 0 /\ active = turns /\ ~compaction.on
      BY <2>2 DEF AppInv, StartsFirst, LastTurn
    <3>2. compaction' = compaction
      BY <1>2, <3>1 DEF CompactionAfter, Compacting
    <3>3. e.k = "ThreadStarted" \/ (e.k = "TurnStarted" /\ e.t = active)
      <4>1. e.k = "ThreadStarted" \/ e.t = active
        BY <1>2, <3>1 DEF Bound, Compacting
      <4>2. e.t = active /\ e.k # "TurnStarted" => call = "none"
        BY <1>1, <3>1, HeadOfActive
      <4>3. QED
        BY <2>2, <4>1, <4>2
    <3>4. CASE e.k = "TurnStarted" /\ e.t = active
      <4>1. call' = "none" /\ held' = <<>> /\ UNCHANGED <<seen, failed>>
        BY <2>2, <3>4 DEF StartAwaits
      <4>2. buffered' = buffered \o Append(held, e)
        BY <2>2, <3>4 DEF StartAwaits
      <4>3. buffered' = Append(held, e)
        <5>1. Append(held, e) \in Seq(AppEvents)
          BY <1>5, <1>7
        <5>2. \A s \in Seq(AppEvents) : <<>> \o s = s
          OBVIOUS
        <5>3. QED
          BY <4>2, <5>1, <5>2
      <4>4. Told'
        BY <1>1, <1>2, <1>3, <2>2, <3>2, <3>4, <4>1, <4>3, FoundTold
      <4>5. /\ buffered' \in Seq(AppEvents)
            /\ \A i \in DOMAIN buffered' : buffered'[i] = e \/ \E j \in DOMAIN held : buffered'[i] = held[j]
        <5>1. \A i \in DOMAIN held : i \in DOMAIN buffered' /\ buffered'[i] = held[i]
          BY <1>5, <1>7, <4>3, Appended
        <5>2. buffered'[Len(held) + 1] = e /\ \A i \in DOMAIN buffered' : i = Len(held) + 1 \/ i \in DOMAIN held
          BY <1>5, <1>7, <4>3, Appended
        <5>3. buffered' \in Seq(AppEvents)
          BY <1>5, <1>7, <4>3
        <5>4. QED
          BY <5>1, <5>2, <5>3
      <4>6. \A j \in DOMAIN held : held[j].k = "ThreadStarted"
        BY <2>2 DEF AppInv, KeptEvents
      <4>7. held' \in Seq(AppEvents)
        BY <4>1
      <4>8. QED
        BY <1>6, <1>7, <3>4, <4>1, <4>4, <4>5, <4>6, <4>7
    <3>5. CASE e.k = "ThreadStarted"
      <4>1. held = <<>>
        BY <1>1, <3>5 DEF AppInv, KeptEvents
      <4>2. call' = call /\ held' = <<e>> /\ buffered' = buffered /\ UNCHANGED <<seen, failed>>
        BY <2>2, <3>5, <4>1 DEF StartAwaits
      <4>3. Told'
        BY <1>1, <1>2, <1>3, <1>4, <1>8, <2>2, <3>2, <3>5, <4>1, <4>2, SilentTold
      <4>4. held' \in Seq(AppEvents)
        BY <1>5, <4>2
      <4>5. QED
        BY <1>7, <4>2, <4>3, <4>4
    <3>6. QED
      BY <3>3, <3>4, <3>5
  <2>3. CASE call \in {"CompactTurn", "CompactItems"} /\ Fail(buffered)
             /\ ~(call = "CompactTurn" /\ e.k = "TurnStarted")
    <3>1. /\ call' = "none" /\ held' = <<>> /\ buffered' = buffered /\ seen' = seen
          /\ failed' = Append(failed, [call |-> call, late |-> late])
      BY <2>3 DEF Fail
    <3>2. active = 0
      BY <2>3 DEF AppInv, StartsFirst, LastTurn
    <3>3. call \in {"Start", "CompactTurn"} => late
      BY <1>1, <2>3, HeadOnTime DEF AppInv, AdapterTypes
    <3>4. failed' \in Seq(Refusals) /\ failed' # <<>>
      BY <3>1, <3>3, FailedAfter
    <3>5. Told'
      BY <1>1, <1>2, <1>3, <1>4, <2>3, <3>1, <3>2, <3>3, <3>4, SilentTold
    <3>6. held' \in Seq(AppEvents)
      BY <3>1
    <3>7. QED
      BY <1>7, <3>1, <3>4, <3>5, <3>6
  <2>4. CASE call \in {"CompactTurn", "CompactItems"} /\ CompactAwaits(e, buffered) /\ ~Fail(buffered)
    <3>1. /\ call' = "CompactItems" /\ buffered' = buffered /\ UNCHANGED <<seen, failed>>
          /\ held' = IF held = <<>> THEN <<e>> ELSE held
      BY <1>2, <2>4 DEF CompactAwaits
    <3>2. compaction.on /\ active = 0
      BY <2>4 DEF AppInv, StartsFirst, LastTurn
    <3>3. Told'
      BY <1>1, <1>2, <1>3, <1>4, <2>4, <3>1, <3>2, SilentTold
    <3>4. held' \in Seq(AppEvents)
      BY <1>5, <1>7, <3>1
    <3>5. QED
      BY <1>7, <3>1, <3>3, <3>4
  <2>5. ASSUME call = "CompactTurn", e.k = "TurnStarted", CompactAwaits(e, buffered)
        PROVE  call' = "CompactItems"
    BY <1>2, <2>5 DEF CompactAwaits
  <2>6. ASSUME Fail(buffered) PROVE call' = "none"
    BY <2>6 DEF Fail
  <2>7. QED
    BY <1>2, <2>1, <2>2, <2>3, <2>4, <2>5, <2>6 DEF Deliver
<1>10. \A t : Completed(t)' => Completed(t)
  <2>1. \A i \in DOMAIN seen' : seen'[i] = e \/ (i \in DOMAIN seen /\ seen'[i] = seen[i])
    BY <1>5, <1>7, <1>9, Appended
  <2>2. QED
    BY <1>6, <1>9, <2>1 DEF Completed
<1>11. QED
  BY <1>2, <1>3, <1>9, <1>10, NoticeStays DEF e

\* The end of a compaction.
LEMMA CompactionEndKeeps ==
  ASSUME AppInv, buffered = <<>>, notices # <<>>, notices' = Tail(notices), Keep, NextTurnEnd,
         Head(notices).t # active
  PROVE  AppInv'
<1> USE DEF NoTurnId
<1> DEFINE e == Head(notices)
           report == {p \in reports : p.t = e.t}
<1>1. /\ Consumed(e) /\ 1 \in DOMAIN notices /\ notices[1] = e
      /\ \A i \in DOMAIN notices' :
           i \in Nat /\ 1 <= i /\ i + 1 \in DOMAIN notices /\ notices'[i] = notices[i + 1]
  BY NoticeConsumed
<1>2. /\ Ends(e) /\ Bound(e) /\ active' = 0 /\ compaction' = NoCompaction
      /\ reports' = reports \ report /\ fragments' = fragments
      /\ report = {} => Deliver(e, buffered)
  BY DEF NextTurnEnd
<1>3. compaction.on /\ active = 0 /\ compaction.turn = e.t /\ compaction.item
  BY <1>2 DEF Bound, Compacting, Ends
<1>4. e.t = turns /\ turns \in compacted
  BY <1>3 DEF AppInv, CompactionKnown, LastTurn
<1>5. report = {} /\ reports' = reports
  BY <1>2, <1>4 DEF AppInv, WrittenInOrder
<1>6. Deliver(e, buffered)
  BY <1>2, <1>5
<1> HIDE DEF report
<1>7. CompactionGoes
  BY <1>1, <1>2, <1>3, CompactionEnds DEF AppInv, ProviderTypes
<1>8. LeftOf(buffered)
  BY DEF LeftOf, AppInv, AdapterTypes
<1>9. e \in AppEvents /\ turns # 0 /\ ~NoCompaction.on
  BY <1>1 DEF Consumed, NoCompaction
<1>10. /\ buffered \in Seq(AppEvents) /\ held \in Seq(AppEvents) /\ seen \in Seq(AppEvents)
       /\ failed \in Seq(Refusals) /\ call \in {"none", "Start", "CompactTurn", "CompactItems"}
  BY DEF AppInv, AdapterTypes
<1> HIDE DEF e
<1>11. e.k \notin {"Delta", "MessageDone", "TurnStarted"}
  BY <1>2 DEF Ends
<1>12. /\ Told' /\ held' \in Seq(AppEvents) /\ failed' \in Seq(Refusals) /\ buffered' = buffered
       /\ call' = "none"
       /\ seen' = seen \/ seen' = Append(seen, e)
  <2>1. CASE call = "none" /\ seen' = Append(seen, e) /\ buffered' = buffered /\ UNCHANGED <<call, held, failed>>
    <3>1. Opened(e)
      <4>1. failed # <<>>
        BY <1>3, <2>1 DEF AppInv, Abandoned
      <4>2. ~EndRead(e.t)
        BY <1>3, <1>4, <1>9 DEF AppInv, NotEnded
      <4>3. QED
        BY <1>4, <4>1, <4>2 DEF Opened, EndRead
    <3>2. Told'
      BY <1>1, <1>2, <1>4, <1>7, <1>8, <1>9, <1>11, <2>1, <3>1, HandsTold
    <3>3. QED
      BY <1>10, <2>1, <3>2
  <2>2. CASE call \in {"CompactTurn", "CompactItems"} /\ Fail(buffered)
    <3>1. /\ call' = "none" /\ held' = <<>> /\ buffered' = buffered /\ seen' = seen
          /\ failed' = Append(failed, [call |-> call, late |-> late])
      BY <2>2 DEF Fail
    <3>2. call \in {"Start", "CompactTurn"} => late
      BY <1>3, <1>4, <1>9, <2>2 DEF AppInv, OnTime
    <3>3. failed' \in Seq(Refusals) /\ failed' # <<>>
      BY <3>1, <3>2, FailedAfter
    <3>4. Told'
      BY <1>1, <1>2, <1>7, <1>8, <2>2, <3>1, <3>2, <3>3, SilentTold
    <3>5. held' \in Seq(AppEvents)
      BY <3>1
    <3>6. QED
      BY <1>10, <3>1, <3>3, <3>4, <3>5
  <2>3. CASE call \in {"CompactTurn", "CompactItems"} /\ CompactAwaits(e, buffered) /\ ~Fail(buffered)
    <3>1. call' = "none" /\ held' = <<>> /\ buffered' = buffered /\ UNCHANGED <<seen, failed>>
      BY <1>2, <2>3 DEF CompactAwaits
    <3>2. Told'
      BY <1>1, <1>2, <1>7, <1>8, <1>9, <2>3, <3>1, SilentTold
    <3>3. held' \in Seq(AppEvents)
      BY <3>1
    <3>4. QED
      BY <1>10, <3>1, <3>2, <3>3
  <2>4. call # "Start"
    BY <1>3 DEF AppInv, StartsFirst
  <2>5. QED
    BY <1>6, <1>10, <2>1, <2>2, <2>3, <2>4 DEF Deliver
<1>13. ASSUME NEW t \in 1 .. turns, Completed(t)' PROVE Completed(t) \/ WasRead(t)
  <2>1. \A i \in DOMAIN seen' : seen'[i] = e \/ (i \in DOMAIN seen /\ seen'[i] = seen[i])
    BY <1>9, <1>10, <1>12, Appended
  <2>2. CASE t = turns
    <3>1. TextOf(t) = {} /\ DonesOf(t) = {}
      BY <1>4, <2>2 DEF AppInv, NotEnded, TextOf, DonesOf
    <3>2. \A w \in written : w.t # t
      BY <1>4, <2>2 DEF AppInv, WrittenInOrder
    <3>3. QED
      BY <3>1, <3>2 DEF WasRead, SeenInOrder, InOrder
  <2>3. CASE t # turns
    BY <1>4, <1>12, <1>13, <2>1, <2>3 DEF Completed
  <2>4. QED
    BY <2>2, <2>3
<1>14. /\ e = Head(notices) /\ e.k \notin {"Delta", "MessageDone"} /\ buffered' \in Seq(AppEvents)
       /\ call' \in {"none", "Start", "CompactTurn", "CompactItems"}
       /\ UNCHANGED <<fragments, reports>> /\ active' = NoTurnId
       /\ seen' = seen \/ (seen' = Append(seen, e) /\ e.k \notin {"Delta", "MessageDone"})
  BY <1>2, <1>5, <1>10, <1>11, <1>12 DEF e
<1>15. QED
  BY <1>7, <1>12, <1>13, <1>14, NoticeStays

-----------------------------------------------------------------------------
(* The text, as it is read                                                   *)

\* What is queued of turn t behind the first notice, when that is text of the turn.
LEMMA PopText ==
  ASSUME AppInv, NEW t, Reading(t), NEW e, 1 \in DOMAIN notices, notices[1] = e,
         e.t = t, e.k \in {"Delta", "MessageDone"},
         \A i \in DOMAIN notices' :
              i \in Nat /\ 1 <= i /\ i + 1 \in DOMAIN notices /\ notices'[i] = notices[i + 1],
         \A i \in DOMAIN notices : i \in Nat /\ 1 <= i /\ (i = 1 \/ i - 1 \in DOMAIN notices')
  PROVE  /\ \A i \in TextAhead(t)' :
              i \in Nat /\ 1 <= i /\ i + 1 \in TextAhead(t) /\ i + 1 # 1 /\ notices'[i] = notices[i + 1]
         /\ \A i \in DonesAhead(t)' :
              i \in Nat /\ 1 <= i /\ i + 1 \in DonesAhead(t) /\ i + 1 # 1 /\ notices'[i] = notices[i + 1]
         /\ \A i \in TextAhead(t) : i = 1 \/ (i - 1 \in TextAhead(t)' /\ notices'[i - 1] = notices[i])
         /\ \A i \in DonesAhead(t) : i = 1 \/ (i - 1 \in DonesAhead(t)' /\ notices'[i - 1] = notices[i])
         /\ \A i, j \in TextAhead(t)' : i < j => notices'[i].d[1] < notices'[j].d[1]
         /\ \A i \in DonesAhead(t)' :
              /\ \A j \in TextAhead(t)' : IF j < i THEN notices'[j].m <= notices'[i].m
                                                   ELSE notices'[i].m < notices'[j].m
              /\ \A j \in DonesAhead(t)' : i < j => notices'[i].m < notices'[j].m
         /\ \A i \in TextAhead(t)' \cup DonesAhead(t)', j \in TextAhead(t)' :
              j < i /\ notices'[j].m # notices'[i].m
                => \E l \in DonesAhead(t)' : l < i /\ notices'[l].m = notices'[j].m
<1>1. \A i \in DOMAIN notices : i = 1 \/ (i - 1 \in DOMAIN notices' /\ notices'[i - 1] = notices[i])
  <2>1. SUFFICES ASSUME NEW i \in DOMAIN notices, i # 1
                 PROVE  i - 1 \in DOMAIN notices' /\ notices'[i - 1] = notices[i]
    OBVIOUS
  <2>2. i \in Nat /\ i - 1 \in DOMAIN notices'
    BY <2>1
  <2>3. notices'[i - 1] = notices[(i - 1) + 1]
    BY <2>2
  <2>4. (i - 1) + 1 = i
    BY <2>2
  <2>5. QED
    BY <2>2, <2>3, <2>4
<1>2. \A i \in DOMAIN notices' :
         i \in Nat /\ 1 <= i /\ i + 1 \in DOMAIN notices /\ i + 1 # 1 /\ notices'[i] = notices[i + 1]
  OBVIOUS
<1>3. /\ \A i \in TextAhead(t)' :
           i \in Nat /\ 1 <= i /\ i + 1 \in TextAhead(t) /\ i + 1 # 1 /\ notices'[i] = notices[i + 1]
      /\ \A i \in DonesAhead(t)' :
           i \in Nat /\ 1 <= i /\ i + 1 \in DonesAhead(t) /\ i + 1 # 1 /\ notices'[i] = notices[i + 1]
  BY <1>2 DEF TextAhead, DonesAhead
<1>4. /\ \A i \in TextAhead(t) : i = 1 \/ (i - 1 \in TextAhead(t)' /\ notices'[i - 1] = notices[i])
      /\ \A i \in DonesAhead(t) : i = 1 \/ (i - 1 \in DonesAhead(t)' /\ notices'[i - 1] = notices[i])
  BY <1>1 DEF TextAhead, DonesAhead
<1>5. TextAfter(t) /\ DonesAfter(t) /\ OneByOne(t)
  BY DEF Reading
<1>6. \A i, j \in TextAhead(t)' : i < j => notices'[i].d[1] < notices'[j].d[1]
  BY <1>3, <1>5 DEF TextAfter
<1>7. ASSUME NEW i \in DonesAhead(t)'
      PROVE  /\ \A j \in TextAhead(t)' : IF j < i THEN notices'[j].m <= notices'[i].m
                                                   ELSE notices'[i].m < notices'[j].m
             /\ \A j \in DonesAhead(t)' : i < j => notices'[i].m < notices'[j].m
  BY <1>3, <1>5 DEF DonesAfter
<1>8. ASSUME NEW i \in TextAhead(t)' \cup DonesAhead(t)', NEW j \in TextAhead(t)',
             j < i, notices'[j].m # notices'[i].m
      PROVE  \E l \in DonesAhead(t)' : l < i /\ notices'[l].m = notices'[j].m
  <2>1. /\ i \in Nat /\ i + 1 \in TextAhead(t) \cup DonesAhead(t) /\ notices'[i] = notices[i + 1]
        /\ j \in Nat /\ 1 <= j /\ j + 1 \in TextAhead(t) /\ notices'[j] = notices[j + 1]
    BY <1>3
  <2>2. j + 1 < i + 1
    BY <1>8, <2>1
  <2>3. PICK l \in DonesAhead(t) : l < i + 1 /\ notices[l].m = notices[j + 1].m
    BY <1>5, <1>8, <2>1, <2>2 DEF OneByOne, DoneBefore
  <2>4. l # 1
    <3>1. SUFFICES ASSUME l = 1 PROVE FALSE
      OBVIOUS
    <3>2. ~(j + 1 < 1)
      BY <2>1
    <3>3. notices[1].m < notices[j + 1].m
      BY <1>5, <2>1, <2>3, <3>1, <3>2 DEF DonesAfter
    <3>4. notices[j + 1].m \in Nat
      BY <2>1, EventNumbers DEF AppInv, ProviderTypes, TextAhead
    <3>5. QED
      BY <2>3, <3>1, <3>3, <3>4
  <2>5. l \in Nat /\ l - 1 \in DonesAhead(t)' /\ notices'[l - 1] = notices[l]
    BY <1>4, <2>3, <2>4 DEF DonesAhead
  <2>6. l - 1 < i
    BY <2>1, <2>3, <2>5
  <2>7. QED
    BY <2>1, <2>3, <2>5, <2>6
<1>9. QED
  BY <1>3, <1>4, <1>6, <1>7, <1>8

\* Whatever is withheld of the active turn is of the message whose text or end comes next.
LEMMA OneWithheld ==
  ASSUME AppInv, NEW t, Reading(t), NEW e, 1 \in DOMAIN notices, notices[1] = e,
         e.t = t, e.k \in {"Delta", "MessageDone"}
  PROVE  /\ \A f \in fragments : f.t = t <=> f \in Withheld(e)
         /\ \A f, g \in Withheld(e) : f = g
<1>1. 1 \in TextAhead(t) \cup DonesAhead(t)
  BY DEF TextAhead, DonesAhead
<1>2. \A m : ~DoneBefore(t, m, 1)
  <2>1. \A j \in DOMAIN notices : ~(j < 1)
    BY Positions DEF AppInv, ProviderTypes
  <2>2. QED
    BY <2>1 DEF DoneBefore, DonesAhead
<1>3. \A f \in fragments : f.t = t => f.m = e.m
  BY <1>1, <1>2 DEF Reading, OneByOne
<1>4. QED
  BY <1>3 DEF Withheld, Reading, WithheldLast

\* A fragment at the end of a text.
LEMMA Extended ==
  ASSUME NEW s \in Seq(Nat), NEW d \in Seq(Nat), Len(d) = 1, NEW q, q = s \o d
  PROVE  /\ q \in Seq(Nat) /\ q # <<>>
         /\ \A x \in DOMAIN q : q[x] = d[1] \/ (x \in DOMAIN s /\ q[x] = s[x])
         /\ \A x \in DOMAIN s : x \in DOMAIN q /\ q[x] = s[x]
         /\ \E x \in DOMAIN q : q[x] = d[1]
         /\ Increasing(s) /\ (\A x \in DOMAIN s : s[x] < d[1]) => Increasing(q)
<1>0. d[1] \in Nat /\ q = Append(s, d[1])
  <2>1. d[1] \in Nat /\ DOMAIN d = {1}
    <3>1. DOMAIN d = 1 .. 1 /\ \A i \in DOMAIN d : d[i] \in Nat
      BY Positions
    <3>2. QED
      BY <3>1
  <2>2. d = <<d[1]>>
    BY <2>1
  <2> DEFINE v == d[1]
  <2>3. v \in Nat /\ q = s \o <<v>>
    BY <2>1, <2>2
  <2> HIDE DEF v
  <2>4. s \o <<v>> = Append(s, v)
    BY <2>3
  <2>5. QED
    BY <2>1, <2>3, <2>4 DEF v
<1>1. /\ q \in Seq(Nat) /\ Len(s) \in Nat /\ Len(q) = Len(s) + 1
      /\ DOMAIN s = 1 .. Len(s) /\ DOMAIN q = 1 .. Len(s) + 1
  BY <1>0, Appended
<1>2. q[Len(s) + 1] = d[1] /\ \A x \in DOMAIN s : q[x] = s[x]
  BY <1>0, Appended
<1> DEFINE n == Len(s)
<1>3. n \in Nat /\ DOMAIN s = 1 .. n /\ DOMAIN q = 1 .. n + 1 /\ q[n + 1] = d[1]
  BY <1>1, <1>2
<1> HIDE DEF n
<1>4. /\ \A x \in DOMAIN q : x = n + 1 \/ x \in DOMAIN s
      /\ \A x \in DOMAIN s : x \in DOMAIN q /\ x < n + 1 /\ x \in Nat
      /\ n + 1 \in DOMAIN q
  BY <1>3
<1>5. ASSUME Increasing(s), \A x \in DOMAIN s : s[x] < d[1],
             NEW x \in DOMAIN q, NEW y \in DOMAIN q, x < y
      PROVE  q[x] < q[y]
  <2>1. x \in DOMAIN s
    BY <1>3, <1>4, <1>5
  <2>2. QED
    BY <1>2, <1>3, <1>4, <1>5, <2>1 DEF Increasing
<1>6. q # <<>>
  BY <1>1
<1>7. QED
  BY <1>1, <1>2, <1>3, <1>4, <1>5, <1>6 DEF Increasing

\* The text d of message m of turn t: all that is withheld, and the first notice.
Gathered(t, m, d, v) ==
  /\ d \in Seq(Nat) /\ d # <<>> /\ Increasing(d) /\ \A x \in DOMAIN d : Source(t, m, d[x])
  /\ \A i \in TextOf(t) : \A y \in DOMAIN seen[i].d, x \in DOMAIN d : seen[i].d[y] < d[x]
  /\ \A i \in TextAhead(t) : i # 1 => \A x \in DOMAIN d : d[x] < notices[i].d[1]
  /\ \E x \in DOMAIN d : d[x] = v
  /\ \A f \in fragments : f.t = t =>
       f.m = m /\ \A y \in DOMAIN f.d : \E x \in DOMAIN d : d[x] = f.d[y]

\* That is the text the adapter puts together.
LEMMA TextGathered ==
  ASSUME AppInv, NEW t, t = active, active # NoTurnId, NEW e, 1 \in DOMAIN notices, notices[1] = e,
         e.t = t, e.k = "Delta",
         NEW d, d = IF Withheld(e) = {} THEN e.d ELSE (CHOOSE f \in Withheld(e) : TRUE).d \o e.d
  PROVE  /\ Gathered(t, e.m, d, e.d[1]) /\ e.m \in Nat
         /\ \A w \in written : w.t = t /\ w.d = e.d[1] => w.m = e.m
<1>1. /\ Reading(t) /\ notices \in Seq(AppEvents) /\ fragments \subseteq Texts /\ e \in AppEvents
      /\ \A i \in DOMAIN notices : i \in Nat /\ 1 <= i
  BY Positions DEF AppInv, ProviderTypes, AdapterTypes
<1>2. Sourced(t) /\ WithheldLast(t) /\ TextAfter(t)
  BY <1>1 DEF Reading
<1>3. 1 \in TextAhead(t)
  BY DEF TextAhead
<1>4. e.d \in Seq(Nat) /\ Len(e.d) = 1 /\ Source(t, e.m, e.d[1]) /\ e.m \in Nat
  BY <1>1, <1>2, <1>3, EventTypes DEF Sourced
<1>5. e.d[1] \in Nat /\ 1 \in DOMAIN e.d /\ \A x \in DOMAIN e.d : x = 1
  BY <1>4
<1>6. /\ \A i \in TextOf(t) : \A y \in DOMAIN seen[i].d : seen[i].d[y] < e.d[1]
      /\ \A i \in TextAhead(t) : i # 1 => e.d[1] < notices[i].d[1]
  <2>1. \A i \in TextAhead(t) : i # 1 => 1 < i
    BY <1>1 DEF TextAhead
  <2>2. QED
    BY <1>2, <1>3, <2>1 DEF TextAfter
<1>7. /\ \A f \in fragments : f.t = t <=> f \in Withheld(e)
      /\ \A f, g \in Withheld(e) : f = g
  BY <1>1, OneWithheld
<1>8. \A w \in written : w.t = t /\ w.d = e.d[1] => w.m = e.m
  <2>1. SUFFICES ASSUME NEW w \in written, w.t = t, w.d = e.d[1] PROVE w.m = e.m
    OBVIOUS
  <2> DEFINE s == [t |-> t, m |-> e.m, d |-> e.d[1]]
  <2>2. s \in written /\ s.t = t /\ s.m = e.m /\ s.d = e.d[1]
    BY <1>4 DEF Source
  <2> HIDE DEF s
  <2>3. w.d <= s.d /\ s.d <= w.d /\ w.m \in Nat
    BY <1>5, <2>1, <2>2 DEF AppInv, ProviderTypes, Written
  <2>4. w.m <= s.m /\ s.m <= w.m
    BY <2>1, <2>2, <2>3 DEF AppInv, WrittenInOrder
  <2>5. QED
    BY <1>4, <2>2, <2>3, <2>4
<1>9. CASE Withheld(e) = {}
  <2>1. d = e.d
    BY <1>9
  <2>2. e.d # <<>> /\ Increasing(e.d)
    BY <1>4, <1>5 DEF Increasing
  <2>3. Gathered(t, e.m, e.d, e.d[1])
    BY <1>4, <1>5, <1>6, <1>7, <1>9, <2>2 DEF Gathered
  <2>4. QED
    BY <1>4, <1>8, <2>1, <2>3
<1>10. CASE Withheld(e) # {}
  <2>1. PICK f \in Withheld(e) : f = CHOOSE g \in Withheld(e) : TRUE
    BY <1>10
  <2>2. d = f.d \o e.d
    BY <1>10, <2>1
  <2>3. f \in fragments /\ f.t = t /\ f.m = e.m /\ f.d \in Seq(Nat)
    BY <1>1 DEF Withheld, Texts
  <2>4. /\ Increasing(f.d) /\ \A x \in DOMAIN f.d : Source(t, e.m, f.d[x])
    BY <1>2, <2>3 DEF Sourced
  <2>5. /\ \A i \in TextOf(t) : \A x \in DOMAIN seen[i].d, y \in DOMAIN f.d : seen[i].d[x] < f.d[y]
        /\ \A i \in TextAhead(t) : \A x \in DOMAIN f.d : f.d[x] < notices[i].d[1]
    BY <1>2, <2>3 DEF WithheldLast, TextAfter
  <2>6. \A x \in DOMAIN f.d : f.d[x] < e.d[1]
    BY <1>3, <2>5
  <2>7. /\ d \in Seq(Nat) /\ d # <<>> /\ Increasing(d)
        /\ \A x \in DOMAIN d : d[x] = e.d[1] \/ (x \in DOMAIN f.d /\ d[x] = f.d[x])
        /\ \A x \in DOMAIN f.d : x \in DOMAIN d /\ d[x] = f.d[x]
        /\ \E x \in DOMAIN d : d[x] = e.d[1]
    <3> DEFINE a == f.d
               b == e.d
    <3>1. a \in Seq(Nat) /\ b \in Seq(Nat) /\ Len(b) = 1 /\ d = a \o b /\ Increasing(a)
          /\ \A x \in DOMAIN a : a[x] < b[1]
      BY <1>4, <2>2, <2>3, <2>4, <2>6
    <3> HIDE DEF a, b
    <3>2. /\ d \in Seq(Nat) /\ d # <<>>
          /\ \A x \in DOMAIN d : d[x] = b[1] \/ (x \in DOMAIN a /\ d[x] = a[x])
          /\ \A x \in DOMAIN a : x \in DOMAIN d /\ d[x] = a[x]
          /\ \E x \in DOMAIN d : d[x] = b[1]
          /\ Increasing(a) /\ (\A x \in DOMAIN a : a[x] < b[1]) => Increasing(d)
      BY <3>1, Extended, Zenon
    <3>3. QED
      BY <3>1, <3>2 DEF a, b
  <2>8. \A x \in DOMAIN d : Source(t, e.m, d[x])
    BY <1>4, <2>4, <2>7
  <2>9. \A i \in TextOf(t) : \A y \in DOMAIN seen[i].d, x \in DOMAIN d : seen[i].d[y] < d[x]
    BY <1>6, <2>5, <2>7
  <2>10. \A i \in TextAhead(t) : i # 1 => \A x \in DOMAIN d : d[x] < notices[i].d[1]
    BY <1>6, <2>5, <2>7
  <2>11. \A g \in fragments : g.t = t => g = f
    BY <1>7
  <2>12. QED
    BY <1>4, <1>8, <2>3, <2>7, <2>8, <2>9, <2>10, <2>11 DEF Gathered
<1>11. QED
  BY <1>9, <1>10

\* The queue behind the first notice.
PoppedNotice(e) ==
  /\ 1 \in DOMAIN notices /\ notices[1] = e
  /\ \A i \in DOMAIN notices' :
       i \in Nat /\ 1 <= i /\ i + 1 \in DOMAIN notices /\ notices'[i] = notices[i + 1]
  /\ \A i \in DOMAIN notices : i \in Nat /\ 1 <= i /\ (i = 1 \/ i - 1 \in DOMAIN notices')

\* No completion of the turn came with the first notice.
LEMMA NoneCompleted ==
  ASSUME NEW e, NEW t, PoppedNotice(e),
         \A i \in DOMAIN notices : ~(notices[i].k = "TurnCompleted" /\ notices[i].t = t)
  PROVE  \A i \in DOMAIN notices' : ~(notices'[i].k = "TurnCompleted" /\ notices'[i].t = t)
  BY DEF PoppedNotice

\* A fragment is withheld with the others of its message.
LEMMA WithheldReading ==
  ASSUME AppInv, NEW t, t = active, active # NoTurnId, NEW e, PoppedNotice(e), e.k = "Delta", e.t = t,
         NEW d, Gathered(t, e.m, d, e.d[1]), e.m \in Nat,
         \A w \in written : w.t = t /\ w.d = e.d[1] => w.m = e.m,
         UNCHANGED <<seen, reports, written, running>>,
         NEW F, F.t = t, F.m = e.m, F.d = d,
         fragments' = (fragments \ Withheld(e)) \cup {F}
  PROVE  Reading(t)'
<1>1. Reading(t)
  BY DEF AppInv
<1>2. /\ \A i \in TextAhead(t)' :
           i \in Nat /\ 1 <= i /\ i + 1 \in TextAhead(t) /\ i + 1 # 1 /\ notices'[i] = notices[i + 1]
      /\ \A i \in DonesAhead(t)' :
           i \in Nat /\ 1 <= i /\ i + 1 \in DonesAhead(t) /\ i + 1 # 1 /\ notices'[i] = notices[i + 1]
      /\ \A i \in TextAhead(t) : i = 1 \/ (i - 1 \in TextAhead(t)' /\ notices'[i - 1] = notices[i])
      /\ \A i \in DonesAhead(t) : i = 1 \/ (i - 1 \in DonesAhead(t)' /\ notices'[i - 1] = notices[i])
      /\ \A i, j \in TextAhead(t)' : i < j => notices'[i].d[1] < notices'[j].d[1]
      /\ \A i \in DonesAhead(t)' :
           /\ \A j \in TextAhead(t)' : IF j < i THEN notices'[j].m <= notices'[i].m
                                                ELSE notices'[i].m < notices'[j].m
           /\ \A j \in DonesAhead(t)' : i < j => notices'[i].m < notices'[j].m
      /\ \A i \in TextAhead(t)' \cup DonesAhead(t)', j \in TextAhead(t)' :
           j < i /\ notices'[j].m # notices'[i].m
             => \E l \in DonesAhead(t)' : l < i /\ notices'[l].m = notices'[j].m
  BY <1>1, PopText DEF PoppedNotice
<1>3. 1 \in TextAhead(t) /\ 1 \notin DonesAhead(t) /\ notices[1] = e
  BY DEF TextAhead, DonesAhead, PoppedNotice
<1>4. F.t = t /\ F.m = e.m /\ F.d = d
  OBVIOUS
<1>5. \A f \in fragments : f.t = t <=> f \in Withheld(e)
  BY <1>1, OneWithheld DEF PoppedNotice
<1>6. /\ \A f \in fragments' : IF f.t = t THEN f = F ELSE f \in fragments
      /\ F \in fragments'
  BY <1>4, <1>5 DEF Withheld
<1>7. TextOf(t)' = TextOf(t) /\ DonesOf(t)' = DonesOf(t)
  BY DEF TextOf, DonesOf
<1>8. /\ SeenInOrder(t) /\ Sourced(t) /\ WithheldLast(t) /\ ReportLast(t) /\ TextAfter(t)
      /\ DonesAfter(t) /\ OneByOne(t) /\ MessagesClose(t) /\ NothingLost(t)
  BY <1>1 DEF Reading
<1>9. SeenInOrder(t)' /\ ReportLast(t)'
  BY <1>7, <1>8 DEF SeenInOrder, InOrder, ReportLast
<1>10. Sourced(t)'
  <2>1. \A i \in TextAhead(t)' : Len(notices'[i].d) = 1 /\ Source(t, notices[i].m, notices[i].d[1])'
    <3>1. \A i \in TextAhead(t)' : i + 1 \in TextAhead(t) /\ notices'[i] = notices[i + 1]
      BY <1>2
    <3>2. \A i \in TextAhead(t) : Len(notices[i].d) = 1 /\ Source(t, notices[i].m, notices[i].d[1])
      BY <1>8 DEF Sourced
    <3>3. QED
      BY <3>1, <3>2 DEF Source
  <2>2. F.d # <<>> /\ Increasing(F.d) /\ \A x \in DOMAIN F.d : Source(t, F.m, F.d[x])
    BY <1>4 DEF Gathered
  <2>3. ASSUME NEW f \in fragments' \cup reports, f.t = t
        PROVE  f.d # <<>> /\ Increasing(f.d) /\ \A x \in DOMAIN f.d : Source(t, f.m, f.d[x])
    BY <1>6, <1>8, <2>2, <2>3 DEF Sourced
  <2>4. QED
    BY <1>7, <1>8, <2>1, <2>3 DEF Sourced, Source
<1>11. WithheldLast(t)'
  <2>1. \A i \in TextOf(t) : \A x \in DOMAIN seen[i].d, y \in DOMAIN F.d : seen[i].d[x] < F.d[y]
    BY <1>4 DEF Gathered
  <2>2. \A j \in DonesOf(t) : seen[j].m < F.m
    BY <1>3, <1>4, <1>8 DEF TextAfter
  <2>3. QED
    BY <1>6, <1>7, <2>1, <2>2 DEF WithheldLast
<1>12. TextAfter(t)'
  <2>1. ASSUME NEW i \in TextAhead(t)' PROVE \A x \in DOMAIN F.d : F.d[x] < notices'[i].d[1]
    BY <1>2, <1>4, <2>1 DEF Gathered
  <2>2. ASSUME NEW i \in TextAhead(t)'
        PROVE  /\ \A j \in TextOf(t) : \A x \in DOMAIN seen[j].d : seen[j].d[x] < notices'[i].d[1]
               /\ \A j \in DonesOf(t) : seen[j].m < notices'[i].m
    BY <1>2, <1>8, <2>2 DEF TextAfter
  <2>3. QED
    BY <1>2, <1>6, <1>7, <2>1, <2>2 DEF TextAfter
<1>13. DonesAfter(t)'
  <2>1. ASSUME NEW i \in DonesAhead(t)'
        PROVE  /\ \A j \in DonesOf(t) : seen[j].m < notices'[i].m
               /\ \A j \in TextOf(t) : seen[j].m <= notices'[i].m
               /\ F.m <= notices'[i].m
    <3>1. i + 1 \in DonesAhead(t) /\ notices'[i] = notices[i + 1] /\ i \in Nat /\ 1 <= i
      BY <1>2, <2>1
    <3>2. 1 < i + 1
      BY <3>1
    <3>3. QED
      BY <1>3, <1>4, <1>8, <3>1, <3>2 DEF DonesAfter
  <2>2. QED
    BY <1>2, <1>6, <1>7, <2>1 DEF DonesAfter
<1>14. OneByOne(t)'
  <2>1. ASSUME NEW i \in TextAhead(t)' \cup DonesAhead(t)', F.m # notices'[i].m
        PROVE  \E l \in DonesAhead(t)' : l < i /\ notices'[l].m = F.m
    <3>1. i + 1 \in TextAhead(t) \cup DonesAhead(t) /\ notices'[i] = notices[i + 1] /\ i \in Nat /\ 1 <= i
      BY <1>2, <2>1
    <3>2. 1 < i + 1
      BY <3>1
    <3>3. PICK l \in DonesAhead(t) : l < i + 1 /\ notices[l].m = e.m
      BY <1>3, <1>4, <1>8, <2>1, <3>1, <3>2 DEF OneByOne, DoneBefore
    <3>4. l \in Nat /\ l - 1 \in DonesAhead(t)' /\ notices'[l - 1] = notices[l]
      BY <1>2, <1>3, <3>3 DEF DonesAhead, PoppedNotice
    <3>5. l - 1 < i
      BY <3>1, <3>3, <3>4
    <3>6. QED
      BY <1>4, <3>3, <3>4, <3>5
  <2>2. QED
    BY <1>2, <1>6, <2>1 DEF OneByOne, DoneBefore
<1>15. MessagesClose(t)'
  <2>1. ASSUME NEW w \in written, w.t = t
        PROVE  \/ \E j \in DonesOf(t) : seen[j].m = w.m
               \/ \E j \in DonesAhead(t)' : notices'[j].m = w.m
               \/ running.t = t /\ running.open /\ w.m = running.message
               \/ /\ running.t # t
                  /\ \A i \in DOMAIN notices' : ~(notices'[i].k = "TurnCompleted" /\ notices'[i].t = t)
    <3>1. CASE \E j \in DonesAhead(t) : notices[j].m = w.m
      BY <1>2, <1>3, <3>1
    <3>2. CASE /\ running.t # t
               /\ \A i \in DOMAIN notices : ~(notices[i].k = "TurnCompleted" /\ notices[i].t = t)
      BY <3>2, NoneCompleted
    <3>3. QED
      BY <1>8, <2>1, <3>1, <3>2 DEF MessagesClose
  <2>2. running.t = t =>
          /\ \A j \in DonesOf(t) : seen[j].m <= running.message /\ (running.open => seen[j].m < running.message)
          /\ \A j \in DonesAhead(t)' :
               notices'[j].m <= running.message /\ (running.open => notices'[j].m < running.message)
    BY <1>2, <1>8 DEF MessagesClose
  <2>3. QED
    BY <1>7, <2>1, <2>2 DEF MessagesClose
<1>16. NothingLost(t)'
  <2>1. ASSUME NEW w \in written, w.t = t
        PROVE  \/ Arrived(w)
               \/ \E i \in TextAhead(t)' : notices'[i].d[1] = w.d
               \/ \E f \in fragments' \cup reports : f.t = t /\ f.m = w.m /\ \E x \in DOMAIN f.d : f.d[x] = w.d
    <3>1. CASE \E i \in TextAhead(t) : notices[i].d[1] = w.d
      <4>1. PICK i \in TextAhead(t) : notices[i].d[1] = w.d
        BY <3>1
      <4>2. CASE i = 1
        <5>1. w.m = F.m
          BY <1>3, <1>4, <2>1, <4>1, <4>2
        <5>2. \E x \in DOMAIN F.d : F.d[x] = w.d
          BY <1>3, <1>4, <4>1, <4>2 DEF Gathered
        <5>3. QED
          BY <1>4, <1>6, <5>1, <5>2
      <4>3. CASE i # 1
        BY <1>2, <4>1, <4>3
      <4>4. QED
        BY <4>2, <4>3
    <3>2. CASE \E f \in fragments : f.t = t /\ f.m = w.m /\ \E x \in DOMAIN f.d : f.d[x] = w.d
      <4>1. w.m = F.m /\ \E x \in DOMAIN F.d : F.d[x] = w.d
        BY <1>4, <3>2 DEF Gathered
      <4>2. QED
        BY <1>4, <1>6, <4>1
    <3>3. QED
      BY <1>8, <2>1, <3>1, <3>2 DEF NothingLost
  <2>2. \A w : Arrived(w)' <=> Arrived(w)
    BY DEF Arrived, TextOf, DonesOf
  <2>3. QED
    BY <2>1, <2>2 DEF NothingLost
<1>17. QED
  BY <1>9, <1>10, <1>11, <1>12, <1>13, <1>14, <1>15, <1>16 DEF Reading

\* The engine is told the text of a message, with the fragments that were withheld of it.
LEMMA HandedReading ==
  ASSUME AppInv, NEW t, t = active, active # NoTurnId, NEW e, PoppedNotice(e), e.k = "Delta", e.t = t,
         NEW d, Gathered(t, e.m, d, e.d[1]), e.m \in Nat,
         NEW x \in AppEvents, x.k = "Delta", x.t = t, x.m = e.m, x.d = d, seen' = Append(seen, x),
         UNCHANGED <<reports, written, running>>, fragments' = fragments \ Withheld(e)
  PROVE  Reading(t)'
<1>1. Reading(t)
  BY DEF AppInv
<1>2. /\ \A i \in TextAhead(t)' :
           i \in Nat /\ 1 <= i /\ i + 1 \in TextAhead(t) /\ i + 1 # 1 /\ notices'[i] = notices[i + 1]
      /\ \A i \in DonesAhead(t)' :
           i \in Nat /\ 1 <= i /\ i + 1 \in DonesAhead(t) /\ i + 1 # 1 /\ notices'[i] = notices[i + 1]
      /\ \A i \in TextAhead(t) : i = 1 \/ (i - 1 \in TextAhead(t)' /\ notices'[i - 1] = notices[i])
      /\ \A i \in DonesAhead(t) : i = 1 \/ (i - 1 \in DonesAhead(t)' /\ notices'[i - 1] = notices[i])
      /\ \A i, j \in TextAhead(t)' : i < j => notices'[i].d[1] < notices'[j].d[1]
      /\ \A i \in DonesAhead(t)' :
           /\ \A j \in TextAhead(t)' : IF j < i THEN notices'[j].m <= notices'[i].m
                                                ELSE notices'[i].m < notices'[j].m
           /\ \A j \in DonesAhead(t)' : i < j => notices'[i].m < notices'[j].m
      /\ \A i \in TextAhead(t)' \cup DonesAhead(t)', j \in TextAhead(t)' :
           j < i /\ notices'[j].m # notices'[i].m
             => \E l \in DonesAhead(t)' : l < i /\ notices'[l].m = notices'[j].m
  BY <1>1, PopText DEF PoppedNotice
<1>3. 1 \in TextAhead(t) /\ 1 \notin DonesAhead(t) /\ notices[1] = e
  BY DEF TextAhead, DonesAhead, PoppedNotice
<1>4. \A f \in fragments : f.t = t <=> f \in Withheld(e)
  BY <1>1, OneWithheld DEF PoppedNotice
<1>5. \A f \in fragments' : f.t # t /\ f \in fragments
  BY <1>4
<1> DEFINE n == Len(seen) + 1
<1>6. /\ n \in Nat /\ n \in DOMAIN seen' /\ seen'[n] = x
      /\ \A i \in DOMAIN seen : i \in DOMAIN seen' /\ seen'[i] = seen[i] /\ i \in Nat /\ i < n
      /\ \A i \in DOMAIN seen' : i = n \/ i \in DOMAIN seen
  BY Appended DEF AppInv, AdapterTypes
<1> HIDE DEF n
<1>7. /\ n \in TextOf(t)' /\ DonesOf(t)' = DonesOf(t)
      /\ \A i \in TextOf(t) : i \in TextOf(t)' /\ seen'[i] = seen[i] /\ i \in Nat /\ i < n
      /\ \A i \in TextOf(t)' : i = n \/ i \in TextOf(t)
      /\ \A i \in DonesOf(t) : seen'[i] = seen[i]
  BY <1>6 DEF TextOf, DonesOf
<1>8.  /\ SeenInOrder(t) /\ Sourced(t) /\ WithheldLast(t) /\ ReportLast(t) /\ TextAfter(t)
      /\ DonesAfter(t) /\ OneByOne(t) /\ MessagesClose(t) /\ NothingLost(t)
  BY <1>1 DEF Reading
<1>9. SeenInOrder(t)'
  <2>1. ASSUME NEW i \in TextOf(t)', NEW j \in TextOf(t)', NEW a \in DOMAIN seen'[i].d,
               NEW b \in DOMAIN seen'[j].d, i < j \/ (i = j /\ a < b)
        PROVE  seen'[i].d[a] < seen'[j].d[b]
    <3>1. CASE i \in TextOf(t) /\ j \in TextOf(t)
      BY <1>7, <1>8, <2>1, <3>1 DEF SeenInOrder, InOrder
    <3>2. CASE i \in TextOf(t) /\ j = n
      BY <1>6, <1>7, <2>1, <3>2 DEF Gathered
    <3>3. CASE i = n /\ j = n
      <4>1. seen'[i].d = d /\ seen'[j].d = d /\ a < b
        BY <1>6, <2>1, <3>3
      <4>2. QED
        BY <2>1, <4>1 DEF Gathered, Increasing
    <3>4. CASE i = n /\ j \in TextOf(t)
      BY <1>6, <1>7, <2>1, <3>4
    <3>5. QED
      BY <1>7, <3>1, <3>2, <3>3, <3>4
  <2>2. InOrder(t)'
    BY <2>1 DEF InOrder
  <2>3. QED
    BY <1>7, <1>8, <2>2 DEF SeenInOrder
<1>10. Sourced(t)'
  <2>1. \A i \in TextAhead(t)' : Len(notices'[i].d) = 1 /\ Source(t, notices[i].m, notices[i].d[1])'
    <3>1. \A i \in TextAhead(t)' : i + 1 \in TextAhead(t) /\ notices'[i] = notices[i + 1]
      BY <1>2
    <3>2. \A i \in TextAhead(t) : Len(notices[i].d) = 1 /\ Source(t, notices[i].m, notices[i].d[1])
      BY <1>8 DEF Sourced
    <3>3. QED
      BY <3>1, <3>2 DEF Source
  <2>2. \A i \in TextOf(t)' :
          seen'[i].d # <<>> /\ \A y \in DOMAIN seen'[i].d : Source(t, seen[i].m, seen[i].d[y])'
    <3>1. x.d # <<>> /\ \A y \in DOMAIN x.d : Source(t, x.m, x.d[y])
      BY DEF Gathered
    <3>2. \A i \in TextOf(t) :
            seen[i].d # <<>> /\ \A y \in DOMAIN seen[i].d : Source(t, seen[i].m, seen[i].d[y])
      BY <1>8 DEF Sourced
    <3>3. QED
      BY <1>6, <1>7, <3>1, <3>2 DEF Source
  <2>3. \A f \in fragments' \cup reports : f.t = t =>
          f.d # <<>> /\ Increasing(f.d) /\ \A y \in DOMAIN f.d : Source(t, f.m, f.d[y])
    BY <1>5, <1>8 DEF Sourced
  <2>4. QED
    BY <2>1, <2>2, <2>3 DEF Sourced, Source
<1>11. WithheldLast(t)'
  BY <1>5 DEF WithheldLast
<1>12. ReportLast(t)'
  <2>1. \A p \in reports : p.t = t => x.m # p.m
    <3>1. SUFFICES ASSUME NEW p \in reports, p.t = t, x.m = p.m PROVE FALSE
      OBVIOUS
    <3>2. PICK j \in DonesOf(t) : seen[j].m = p.m
      BY <1>8, <3>1 DEF ReportLast
    <3>3. seen[j].m < e.m
      BY <1>3, <1>8, <3>2 DEF TextAfter
    <3>4. QED
      BY <3>1, <3>2, <3>3
  <2>2. ASSUME NEW p \in reports, p.t = t
        PROVE  \A i \in TextOf(t)' : seen'[i].m = p.m =>
                 \A y \in DOMAIN seen'[i].d, z \in DOMAIN p.d : seen'[i].d[y] < p.d[z]
    <3>1. \A i \in TextOf(t)' : seen'[i].m = p.m => i \in TextOf(t) /\ seen'[i] = seen[i]
      BY <1>6, <1>7, <2>1, <2>2
    <3>2. \A i \in TextOf(t) : seen[i].m = p.m =>
            \A y \in DOMAIN seen[i].d, z \in DOMAIN p.d : seen[i].d[y] < p.d[z]
      BY <1>8, <2>2 DEF ReportLast
    <3>3. QED
      BY <3>1, <3>2
  <2>3. ASSUME NEW p \in reports, p.t = t
        PROVE  (\E j \in DonesOf(t) : seen'[j].m = p.m) /\ (\A j \in DonesOf(t) : seen'[j].m <= p.m)
    BY <1>7, <1>8, <2>3 DEF ReportLast
  <2>4. \A f, g \in reports : f.t = t /\ g.t = t => f = g
    BY <1>8 DEF ReportLast
  <2>5. QED
    BY <1>7, <2>2, <2>3, <2>4 DEF ReportLast
<1>13. TextAfter(t)'
  <2>1. ASSUME NEW i \in TextAhead(t)'
        PROVE  /\ \A j \in TextOf(t) : \A y \in DOMAIN seen[j].d : seen[j].d[y] < notices'[i].d[1]
               /\ \A j \in DonesOf(t) : seen[j].m < notices'[i].m
               /\ \A y \in DOMAIN x.d : x.d[y] < notices'[i].d[1]
    <3>1. i + 1 \in TextAhead(t) /\ i + 1 # 1 /\ notices'[i] = notices[i + 1]
      BY <1>2, <2>1
    <3>2. \A y \in DOMAIN x.d : x.d[y] < notices[i + 1].d[1]
      BY <3>1 DEF Gathered
    <3>3. QED
      BY <1>8, <3>1, <3>2 DEF TextAfter
  <2>2. \A i, j \in TextAhead(t)' : i < j => notices'[i].d[1] < notices'[j].d[1]
    BY <1>2
  <2>3. QED
    BY <1>5, <1>6, <1>7, <2>1, <2>2 DEF TextAfter
<1>14. DonesAfter(t)'
  <2>1. ASSUME NEW i \in DonesAhead(t)'
        PROVE  /\ \A j \in DonesOf(t) : seen[j].m < notices'[i].m
               /\ \A j \in TextOf(t) : seen[j].m <= notices'[i].m
               /\ x.m <= notices'[i].m
    <3>1. i + 1 \in DonesAhead(t) /\ notices'[i] = notices[i + 1] /\ i \in Nat /\ 1 <= i
      BY <1>2, <2>1
    <3>2. 1 < i + 1
      BY <3>1
    <3>3. QED
      BY <1>3, <1>8, <3>1, <3>2 DEF DonesAfter
  <2>2. ASSUME NEW i \in DonesAhead(t)'
        PROVE  /\ \A j \in DonesOf(t)' : seen'[j].m < notices'[i].m
               /\ \A j \in TextOf(t)' : seen'[j].m <= notices'[i].m
    BY <1>6, <1>7, <2>1, <2>2
  <2>3. QED
    BY <1>2, <1>5, <2>2 DEF DonesAfter
<1>15. OneByOne(t)'
  BY <1>2, <1>5 DEF OneByOne, DoneBefore
<1>16. MessagesClose(t)'
  <2>1. ASSUME NEW w \in written, w.t = t
        PROVE  \/ \E j \in DonesOf(t) : seen[j].m = w.m
               \/ \E j \in DonesAhead(t)' : notices'[j].m = w.m
               \/ running.t = t /\ running.open /\ w.m = running.message
               \/ /\ running.t # t
                  /\ \A i \in DOMAIN notices' : ~(notices'[i].k = "TurnCompleted" /\ notices'[i].t = t)
    <3>1. CASE \E j \in DonesAhead(t) : notices[j].m = w.m
      BY <1>2, <1>3, <3>1
    <3>2. CASE /\ running.t # t
               /\ \A i \in DOMAIN notices : ~(notices[i].k = "TurnCompleted" /\ notices[i].t = t)
      BY <3>2, NoneCompleted
    <3>3. QED
      BY <1>8, <2>1, <3>1, <3>2 DEF MessagesClose
  <2>2. running.t = t =>
          /\ \A j \in DonesOf(t) : seen[j].m <= running.message /\ (running.open => seen[j].m < running.message)
          /\ \A j \in DonesAhead(t)' :
               notices'[j].m <= running.message /\ (running.open => notices'[j].m < running.message)
    BY <1>2, <1>8 DEF MessagesClose
  <2>3. QED
    BY <1>7, <2>1, <2>2 DEF MessagesClose
<1>17. NothingLost(t)'
  <2>1. ASSUME NEW w \in written, w.t = t
        PROVE  \/ Arrived(w)'
               \/ \E i \in TextAhead(t)' : notices'[i].d[1] = w.d
               \/ \E f \in fragments' \cup reports : f.t = t /\ f.m = w.m /\ \E y \in DOMAIN f.d : f.d[y] = w.d
    <3>1. (\E y \in DOMAIN x.d : x.d[y] = w.d) => Arrived(w)'
      BY <1>6, <1>7, <2>1 DEF Arrived
    <3>2. CASE \E i \in TextAhead(t) : notices[i].d[1] = w.d
      <4>1. PICK i \in TextAhead(t) : notices[i].d[1] = w.d
        BY <3>2
      <4>2. CASE i = 1
        BY <1>3, <3>1, <4>1, <4>2 DEF Gathered
      <4>3. CASE i # 1
        BY <1>2, <4>1, <4>3
      <4>4. QED
        BY <4>2, <4>3
    <3>3. CASE \E f \in fragments : f.t = t /\ f.m = w.m /\ \E y \in DOMAIN f.d : f.d[y] = w.d
      BY <3>1, <3>3 DEF Gathered
    <3>4. Arrived(w) => Arrived(w)'
      BY <1>7, <2>1 DEF Arrived
    <3>5. QED
      BY <1>8, <2>1, <3>2, <3>3, <3>4 DEF NothingLost
  <2>2. QED
    BY <2>1 DEF NothingLost
<1>18. QED
  BY <1>9, <1>10, <1>11, <1>12, <1>13, <1>14, <1>15, <1>16, <1>17 DEF Reading

\* The engine is told that a message is done, and what is withheld of it becomes the
\* pending report.
EndsMessage(t, e) ==
  /\ e \in AppEvents /\ PoppedNotice(e) /\ e.k = "MessageDone" /\ e.t = t
  /\ seen' = Append(seen, e) /\ written' = written /\ running' = running
  /\ fragments' = fragments \ Withheld(e)
  /\ reports' = {p \in reports : p.t # t} \cup Withheld(e)

\* The text of the turn after it.
LEMMA EndedReading ==
  ASSUME AppInv, NEW t, t = active, active # NoTurnId, NEW e, EndsMessage(t, e)
  PROVE  Reading(t)'
<1>0. PoppedNotice(e) /\ e.k = "MessageDone" /\ e.t = t /\ written' = written /\ running' = running
  BY DEF EndsMessage
<1>1. Reading(t)
  BY DEF AppInv
<1>2. /\ \A i \in TextAhead(t)' :
           i \in Nat /\ 1 <= i /\ i + 1 \in TextAhead(t) /\ i + 1 # 1 /\ notices'[i] = notices[i + 1]
      /\ \A i \in DonesAhead(t)' :
           i \in Nat /\ 1 <= i /\ i + 1 \in DonesAhead(t) /\ i + 1 # 1 /\ notices'[i] = notices[i + 1]
      /\ \A i \in TextAhead(t) : i = 1 \/ (i - 1 \in TextAhead(t)' /\ notices'[i - 1] = notices[i])
      /\ \A i \in DonesAhead(t) : i = 1 \/ (i - 1 \in DonesAhead(t)' /\ notices'[i - 1] = notices[i])
      /\ \A i, j \in TextAhead(t)' : i < j => notices'[i].d[1] < notices'[j].d[1]
      /\ \A i \in DonesAhead(t)' :
           /\ \A j \in TextAhead(t)' : IF j < i THEN notices'[j].m <= notices'[i].m
                                                ELSE notices'[i].m < notices'[j].m
           /\ \A j \in DonesAhead(t)' : i < j => notices'[i].m < notices'[j].m
      /\ \A i \in TextAhead(t)' \cup DonesAhead(t)', j \in TextAhead(t)' :
           j < i /\ notices'[j].m # notices'[i].m
             => \E l \in DonesAhead(t)' : l < i /\ notices'[l].m = notices'[j].m
  BY <1>0, <1>1, PopText DEF PoppedNotice
<1>3. 1 \in DonesAhead(t) /\ 1 \notin TextAhead(t) /\ notices[1] = e /\ e.m \in Nat
  BY EventTypes DEF TextAhead, DonesAhead, PoppedNotice, EndsMessage
<1>4. /\ \A f \in fragments : f.t = t <=> f \in Withheld(e)
      /\ \A f, g \in Withheld(e) : f = g
  BY <1>0, <1>1, OneWithheld DEF PoppedNotice
<1>5. /\ \A f \in fragments' : f.t # t /\ f \in fragments
      /\ \A p \in reports' : p.t = t => p \in fragments /\ p \in Withheld(e) /\ p.m = e.m
      /\ \A p \in reports' : p.t # t => p \in reports
      /\ \A f \in fragments : f.t = t => f \in reports' /\ f.m = e.m
  BY <1>4 DEF Withheld, EndsMessage
<1> DEFINE n == Len(seen) + 1
<1>6. /\ n \in Nat /\ n \in DOMAIN seen' /\ seen'[n] = e
      /\ \A i \in DOMAIN seen : i \in DOMAIN seen' /\ seen'[i] = seen[i] /\ i \in Nat /\ i < n
      /\ \A i \in DOMAIN seen' : i = n \/ i \in DOMAIN seen
  BY Appended DEF AppInv, AdapterTypes, EndsMessage
<1> HIDE DEF n
<1>7. /\ n \in DonesOf(t)' /\ TextOf(t)' = TextOf(t)
      /\ \A i \in DonesOf(t) : i \in DonesOf(t)' /\ seen'[i] = seen[i] /\ i \in Nat /\ i < n
      /\ \A i \in DonesOf(t)' : i = n \/ i \in DonesOf(t)
      /\ \A i \in TextOf(t) : seen'[i] = seen[i]
  BY <1>0, <1>6 DEF TextOf, DonesOf
<1>8.  /\ SeenInOrder(t) /\ Sourced(t) /\ WithheldLast(t) /\ ReportLast(t) /\ TextAfter(t)
      /\ DonesAfter(t) /\ OneByOne(t) /\ MessagesClose(t) /\ NothingLost(t)
  BY <1>1 DEF Reading
<1>9. \A j \in DonesOf(t) : seen[j].m < e.m
  BY <1>3, <1>8 DEF DonesAfter
<1>10. SeenInOrder(t)'
  <2>1. InOrder(t)'
    <3>1. \A i, j \in TextOf(t) : \A x \in DOMAIN seen[i].d, y \in DOMAIN seen[j].d :
            i < j \/ (i = j /\ x < y) => seen[i].d[x] < seen[j].d[y]
      BY <1>8 DEF SeenInOrder, InOrder
    <3>2. TextOf(t)' = TextOf(t) /\ \A i \in TextOf(t) : seen'[i] = seen[i]
      BY <1>7
    <3>3. QED
      BY <3>1, <3>2 DEF InOrder
  <2>2. \A i, j \in DonesOf(t)' : i < j => seen'[i].m < seen'[j].m
    <3>1. ASSUME NEW i \in DonesOf(t)', NEW j \in DonesOf(t)', i < j PROVE seen'[i].m < seen'[j].m
      <4>1. CASE j = n
        BY <1>6, <1>7, <1>9, <3>1, <4>1
      <4>2. CASE i \in DonesOf(t) /\ j \in DonesOf(t)
        BY <1>7, <1>8, <3>1, <4>2 DEF SeenInOrder
      <4>3. CASE i = n /\ j \in DonesOf(t)
        BY <1>6, <1>7, <3>1, <4>3
      <4>4. QED
        BY <1>7, <4>1, <4>2, <4>3
    <3>2. QED
      BY <3>1
  <2>3. QED
    BY <2>1, <2>2 DEF SeenInOrder
<1>11. Sourced(t)'
  <2>1. \A i \in TextAhead(t)' : Len(notices'[i].d) = 1 /\ Source(t, notices[i].m, notices[i].d[1])'
    <3>1. \A i \in TextAhead(t)' : i + 1 \in TextAhead(t) /\ notices'[i] = notices[i + 1]
      BY <1>2
    <3>2. \A i \in TextAhead(t) : Len(notices[i].d) = 1 /\ Source(t, notices[i].m, notices[i].d[1])
      BY <1>8 DEF Sourced
    <3>3. QED
      BY <1>0, <3>1, <3>2 DEF Source
  <2>2. \A i \in TextOf(t) :
          seen'[i].d # <<>> /\ \A y \in DOMAIN seen'[i].d : Source(t, seen[i].m, seen[i].d[y])'
    BY <1>0, <1>7, <1>8 DEF Sourced, Source
  <2>3. \A f \in fragments' \cup reports' : f.t = t =>
          f.d # <<>> /\ Increasing(f.d) /\ \A y \in DOMAIN f.d : Source(t, f.m, f.d[y])
    BY <1>5, <1>8 DEF Sourced
  <2>4. QED
    BY <1>0, <1>7, <2>1, <2>2, <2>3 DEF Sourced, Source
<1>12. WithheldLast(t)'
  BY <1>5 DEF WithheldLast
<1>13. ReportLast(t)'
  <2>1. \A f, g \in reports' : f.t = t /\ g.t = t => f = g
    BY <1>4, <1>5
  <2>2. ASSUME NEW p \in reports', p.t = t
        PROVE  /\ \E j \in DonesOf(t)' : seen'[j].m = p.m
               /\ \A j \in DonesOf(t)' : seen'[j].m <= p.m
               /\ \A i \in TextOf(t) : \A x \in DOMAIN seen[i].d, y \in DOMAIN p.d : seen[i].d[x] < p.d[y]
    <3>1. p \in fragments /\ p.m = e.m
      BY <1>5, <2>2
    <3>2. \A j \in DonesOf(t)' : seen'[j].m <= e.m
      <4>1. SUFFICES ASSUME NEW j \in DonesOf(t)' PROVE seen'[j].m <= e.m
        OBVIOUS
      <4>2. CASE j = n
        BY <1>3, <1>6, <4>2
      <4>3. CASE j \in DonesOf(t)
        <5>1. seen[j].m \in Nat
          BY <4>3, EventNumbers DEF AppInv, AdapterTypes, DonesOf
        <5>2. QED
          <6>1. seen[j].m < e.m /\ seen'[j] = seen[j]
            BY <1>7, <1>9, <4>3
          <6>2. QED
            BY <1>3, <5>1, <6>1
      <4>4. QED
        BY <1>7, <4>2, <4>3
    <3>3. QED
      BY <1>6, <1>7, <1>8, <2>2, <3>1, <3>2 DEF WithheldLast
  <2>3. TextOf(t)' = TextOf(t) /\ \A i \in TextOf(t) : seen'[i] = seen[i]
    BY <1>7
  <2>4. \A p \in reports' : p.t = t =>
           \A i \in TextOf(t)' : \A x \in DOMAIN seen'[i].d, y \in DOMAIN p.d : seen'[i].d[x] < p.d[y]
    BY <2>2, <2>3
  <2>5. QED
    BY <2>1, <2>2, <2>4 DEF ReportLast
<1>14. TextAfter(t)'
  <2>1. ASSUME NEW i \in TextAhead(t)'
        PROVE  /\ \A j \in TextOf(t) : \A y \in DOMAIN seen[j].d : seen[j].d[y] < notices'[i].d[1]
               /\ \A j \in DonesOf(t) : seen[j].m < notices'[i].m
               /\ e.m < notices'[i].m
    <3>1. i + 1 \in TextAhead(t) /\ notices'[i] = notices[i + 1] /\ i \in Nat /\ 1 <= i
      BY <1>2, <2>1
    <3>2. ~(i + 1 < 1)
      BY <3>1
    <3>3. e.m < notices'[i].m
      BY <1>3, <1>8, <3>1, <3>2 DEF DonesAfter
    <3>4. QED
      BY <1>8, <3>1, <3>3 DEF TextAfter
  <2>2. \A i, j \in TextAhead(t)' : i < j => notices'[i].d[1] < notices'[j].d[1]
    BY <1>2
  <2>3. QED
    BY <1>5, <1>6, <1>7, <2>1, <2>2 DEF TextAfter
<1>15. DonesAfter(t)'
  <2>1. ASSUME NEW i \in DonesAhead(t)'
        PROVE  /\ \A j \in DonesOf(t) : seen[j].m < notices'[i].m
               /\ \A j \in TextOf(t) : seen[j].m <= notices'[i].m
               /\ e.m < notices'[i].m
    <3>1. i + 1 \in DonesAhead(t) /\ notices'[i] = notices[i + 1] /\ i \in Nat /\ 1 <= i
      BY <1>2, <2>1
    <3>2. 1 < i + 1
      BY <3>1
    <3>3. QED
      BY <1>3, <1>8, <3>1, <3>2 DEF DonesAfter
  <2>2. ASSUME NEW i \in DonesAhead(t)'
        PROVE  /\ \A j \in DonesOf(t)' : seen'[j].m < notices'[i].m
               /\ \A j \in TextOf(t)' : seen'[j].m <= notices'[i].m
    BY <1>6, <1>7, <2>1, <2>2
  <2>3. QED
    BY <1>2, <1>5, <2>2 DEF DonesAfter
<1>16. OneByOne(t)'
  BY <1>2, <1>5 DEF OneByOne, DoneBefore
<1>17. MessagesClose(t)'
  <2>1. ASSUME NEW w \in written, w.t = t
        PROVE  \/ \E j \in DonesOf(t)' : seen'[j].m = w.m
               \/ \E j \in DonesAhead(t)' : notices'[j].m = w.m
               \/ running.t = t /\ running.open /\ w.m = running.message
               \/ /\ running.t # t
                  /\ \A i \in DOMAIN notices' : ~(notices'[i].k = "TurnCompleted" /\ notices'[i].t = t)
    <3>1. CASE \E j \in DonesAhead(t) : notices[j].m = w.m
      <4>1. PICK j \in DonesAhead(t) : notices[j].m = w.m
        BY <3>1
      <4>2. CASE j = 1
        BY <1>3, <1>6, <1>7, <4>1, <4>2
      <4>3. CASE j # 1
        BY <1>2, <4>1, <4>3
      <4>4. QED
        BY <4>2, <4>3
    <3>2. CASE /\ running.t # t
               /\ \A i \in DOMAIN notices : ~(notices[i].k = "TurnCompleted" /\ notices[i].t = t)
      BY <1>0, <3>2, NoneCompleted
    <3>3. QED
      BY <1>7, <1>8, <2>1, <3>1, <3>2 DEF MessagesClose
  <2>2. ASSUME running.t = t
        PROVE  /\ \A j \in DonesOf(t)' : seen'[j].m <= running.message /\ (running.open => seen'[j].m < running.message)
               /\ \A j \in DonesAhead(t)' :
                    notices'[j].m <= running.message /\ (running.open => notices'[j].m < running.message)
    <3>2. /\ \A j \in DonesOf(t) : seen[j].m <= running.message /\ (running.open => seen[j].m < running.message)
          /\ \A j \in DonesAhead(t) :
               notices[j].m <= running.message /\ (running.open => notices[j].m < running.message)
      BY <1>8, <2>2 DEF MessagesClose
    <3>3. e.m <= running.message /\ (running.open => e.m < running.message)
      BY <1>3, <3>2
    <3>4. ASSUME NEW j \in DonesOf(t)'
          PROVE  seen'[j].m <= running.message /\ (running.open => seen'[j].m < running.message)
      <4>1. CASE j = n
        BY <1>6, <3>3, <4>1
      <4>2. CASE j \in DonesOf(t)
        BY <1>7, <3>2, <4>2
      <4>3. QED
        BY <1>7, <4>1, <4>2
    <3>5. \A j \in DonesAhead(t)' :
            notices'[j].m <= running.message /\ (running.open => notices'[j].m < running.message)
      <4>1. \A j \in DonesAhead(t)' : j + 1 \in DonesAhead(t) /\ notices'[j] = notices[j + 1]
        BY <1>2
      <4>2. QED
        BY <3>2, <4>1
    <3>6. QED
      BY <3>4, <3>5
  <2>3. QED
    BY <1>0, <2>1, <2>2 DEF MessagesClose
<1>18. NothingLost(t)'
  <2>1. ASSUME NEW w \in written, w.t = t
        PROVE  \/ Arrived(w)'
               \/ \E i \in TextAhead(t)' : notices'[i].d[1] = w.d
               \/ \E f \in fragments' \cup reports' : f.t = t /\ f.m = w.m /\ \E y \in DOMAIN f.d : f.d[y] = w.d
    <3>1. w.m < e.m => Arrived(w)'
      BY <1>6, <1>7, <2>1 DEF Arrived
    <3>2. Arrived(w) => Arrived(w)'
      BY <1>7, <2>1 DEF Arrived
    <3>3. CASE \E i \in TextAhead(t) : notices[i].d[1] = w.d
      BY <1>2, <1>3, <3>3
    <3>4. CASE \E f \in fragments : f.t = t /\ f.m = w.m /\ \E y \in DOMAIN f.d : f.d[y] = w.d
      BY <1>5, <3>4
    <3>5. CASE \E p \in reports : p.t = t /\ p.m = w.m
      BY <1>8, <1>9, <3>1, <3>5 DEF ReportLast
    <3>6. QED
      BY <1>8, <2>1, <3>2, <3>3, <3>4, <3>5 DEF NothingLost
  <2>2. QED
    BY <1>0, <2>1 DEF NothingLost
<1>19. QED
  BY <1>10, <1>11, <1>12, <1>13, <1>14, <1>15, <1>16, <1>17, <1>18 DEF Reading

\* Text of the active turn changes nothing of the turns that completed.
LEMMA OthersStay ==
  ASSUME AppInv, NEW x \in AppEvents, x.t = active, active # NoTurnId, x.k \in {"Delta", "MessageDone"},
         seen' = seen \/ seen' = Append(seen, x), buffered = <<>>, buffered' = buffered, written' = written
  PROVE  \A t \in 1 .. turns : Completed(t)' => WasRead(t)'
<1>1. SUFFICES ASSUME NEW t \in 1 .. turns, Completed(t)' PROVE WasRead(t)'
  OBVIOUS
<1>2. seen \in Seq(AppEvents)
  BY DEF AppInv, AdapterTypes
<1> DEFINE n == Len(seen) + 1
<1>3. /\ \A i \in DOMAIN seen : i \in DOMAIN seen' /\ seen'[i] = seen[i]
      /\ \A i \in DOMAIN seen' : (i = n /\ seen'[i] = x) \/ i \in DOMAIN seen
  BY <1>2, Appended
<1> HIDE DEF n
<1>4. Completed(t)
  BY <1>1, <1>3 DEF Completed
<1>5. t # active
  BY <1>4 DEF AppInv, NotEnded, EndRead, Completed, Ends
<1>6. SameSeen(t)
  BY <1>3, <1>5 DEF SameSeen, TextOf, DonesOf
<1>7. WasRead(t)
  BY <1>4 DEF AppInv
<1>8. QED
  BY <1>6, <1>7, SameRead

\* A notice with text of the active turn.
LEMMA HeadIsText ==
  ASSUME AppInv, buffered = <<>>, notices # <<>>, notices' = Tail(notices), Keep,
         NEW e, e = Head(notices), e.k \in {"Delta", "MessageDone"}, Bound(e),
         UNCHANGED <<active, compaction>>
  PROVE  /\ Consumed(e) /\ PoppedNotice(e) /\ CompactionGoes /\ LeftOf(buffered) /\ e \in AppEvents
         /\ e.t = active /\ active # NoTurnId /\ call = "none" /\ e.t <= turns /\ e.t \notin compacted
         /\ \A x : x.t = e.t => Opened(x)
         /\ UNCHANGED <<written, running, turns, compacted>>
<1> USE DEF NoTurnId
<1>1. /\ Consumed(e) /\ PoppedNotice(e)
  BY NoticeConsumed DEF PoppedNotice
<1>2. 1 \in DOMAIN notices /\ notices[1] = e
  BY <1>1 DEF PoppedNotice
<1>3. e.t = active
  BY DEF Bound, Ends
<1>4. active # 0
  BY <1>2, <1>3 DEF AppInv, NoticesInOrder
<1>5. /\ call = "none" /\ active \notin compacted
      /\ \E j \in DOMAIN seen : seen[j].k = "TurnStarted" /\ seen[j].t = active
      /\ \A j \in DOMAIN seen : ~(Ends(seen[j]) /\ seen[j].t = active)
  BY <1>2, <1>3, <1>4, HeadOfActive
<1>6. CompactionGoes
  BY <1>1, CompactionStays
<1>7. LeftOf(buffered)
  BY DEF LeftOf, AppInv, AdapterTypes
<1>8. e \in AppEvents /\ e.t <= turns /\ UNCHANGED <<written, running, turns, compacted>>
  BY <1>1 DEF Consumed
<1>9. \A x : x.t = e.t => Opened(x)
  BY <1>3, <1>5 DEF Opened
<1>10. QED
  BY <1>1, <1>3, <1>4, <1>5, <1>6, <1>7, <1>8, <1>9

\* A fragment, withheld or handed out.
LEMMA DeltaKeeps ==
  ASSUME AppInv, buffered = <<>>, notices # <<>>, notices' = Tail(notices), Keep, NextDelta
  PROVE  AppInv'
<1> USE DEF NoTurnId
<1> DEFINE e == Head(notices)
           d == IF Withheld(e) = {} THEN e.d ELSE (CHOOSE f \in Withheld(e) : TRUE).d \o e.d
           F == [t |-> e.t, m |-> e.m, d |-> d]
           x == [e EXCEPT !.d = d]
<1>1. /\ e.k = "Delta" /\ Bound(e) /\ UNCHANGED <<active, compaction, reports>>
      /\ e.could => Quiet /\ fragments' = (fragments \ Withheld(e)) \cup {F}
      /\ ~e.could => Deliver(x, buffered) /\ fragments' = (fragments \ Withheld(e)) \cup {}
  BY DEF NextDelta
<1>2. /\ Consumed(e) /\ PoppedNotice(e) /\ CompactionGoes /\ LeftOf(buffered) /\ e \in AppEvents
      /\ e.t = active /\ active # 0 /\ call = "none" /\ e.t <= turns /\ e.t \notin compacted
      /\ \A y : y.t = e.t => Opened(y)
      /\ UNCHANGED <<written, running, turns, compacted>>
  BY <1>1, HeadIsText
<1>3. /\ Gathered(e.t, e.m, d, e.d[1]) /\ e.m \in Nat
      /\ \A w \in written : w.t = e.t /\ w.d = e.d[1] => w.m = e.m
  BY <1>1, <1>2, TextGathered DEF PoppedNotice
<1>4. d \in Seq(Nat)
  BY <1>3 DEF Gathered
<1>5. e.t \in Nat /\ e.m \in Nat /\ e.could \in BOOLEAN
  BY <1>2, EventTypes
<1> HIDE DEF d
<1>6. F \in Texts /\ F.t = e.t /\ F.m = e.m /\ F.d = d
  BY <1>4, <1>5 DEF Texts
<1>7. x \in AppEvents /\ x.k = "Delta" /\ x.t = e.t /\ x.m = e.m /\ x.d = d
  BY <1>1, <1>2, <1>4 DEF AppEvents
<1> HIDE DEF e, F, x
<1>8. UNCHANGED <<requests, outstanding, answers, mode, late>>
  BY DEF Keep
<1>9. CASE e.could
  <2>1. /\ UNCHANGED <<call, held, seen, failed, buffered>> /\ fragments' = (fragments \ Withheld(e)) \cup {F}
    BY <1>1, <1>9 DEF Quiet
  <2>2. Told'
    BY <1>1, <1>2, <2>1, SilentTold
  <2>3. AdapterTypes'
    BY <1>1, <1>6, <1>8, <2>1 DEF AppInv, AdapterTypes
  <2>4. WrittenInOrder'
    <3>1. \A f \in fragments' \cup reports' : f \in fragments \cup reports \/ f = F
      BY <1>1, <2>1
    <3>2. QED
      BY <1>2, <1>6, <3>1 DEF AppInv, WrittenInOrder
  <2>5. \A t : t = active' /\ t # 0 => Reading(t)'
    BY <1>1, <1>2, <1>3, <1>6, <2>1, WithheldReading
  <2>6. \A t \in 1 .. turns : Completed(t)' => WasRead(t)'
    BY <1>1, <1>2, <2>1, OthersStay
  <2>7. QED
    BY <1>2, <1>8, <2>2, <2>3, <2>4, <2>5, <2>6, Assembled
<1>10. CASE ~e.could
  <2>1. /\ seen' = Append(seen, x) /\ buffered' = buffered /\ UNCHANGED <<call, held, failed>>
        /\ fragments' = fragments \ Withheld(e)
    BY <1>1, <1>2, <1>10 DEF Deliver
  <2>2. Told'
    <3>1. ~Ends(x) /\ e.k # "TurnStarted"
      BY <1>1, <1>7 DEF Ends
    <3>2. QED
      BY <1>1, <1>2, <1>7, <2>1, <3>1, HandsTold
  <2>3. AdapterTypes'
    <3>1. seen' \in Seq(AppEvents)
      BY <1>7, <2>1, Appended DEF AppInv, AdapterTypes
    <3>2. QED
      BY <1>1, <1>8, <2>1, <3>1 DEF AppInv, AdapterTypes
  <2>4. WrittenInOrder'
    <3>1. \A f \in fragments' \cup reports' : f \in fragments \cup reports
      BY <1>1, <2>1
    <3>2. QED
      BY <1>2, <3>1 DEF AppInv, WrittenInOrder
  <2>5. \A t : t = active' /\ t # 0 => Reading(t)'
    BY <1>1, <1>2, <1>3, <1>7, <2>1, HandedReading
  <2>6. \A t \in 1 .. turns : Completed(t)' => WasRead(t)'
    BY <1>2, <1>7, <2>1, OthersStay
  <2>7. QED
    BY <1>2, <1>8, <2>2, <2>3, <2>4, <2>5, <2>6, Assembled
<1>11. QED
  BY <1>5, <1>9, <1>10

\* The end of a message.
LEMMA MessageDoneKeeps ==
  ASSUME AppInv, buffered = <<>>, notices # <<>>, notices' = Tail(notices), Keep, NextMessageDone
  PROVE  AppInv'
<1> USE DEF NoTurnId
<1> DEFINE e == Head(notices)
<1>1. /\ e.k = "MessageDone" /\ Bound(e) /\ UNCHANGED <<active, compaction>>
      /\ fragments' = fragments \ Withheld(e) /\ Deliver(e, buffered)
      /\ reports' = {p \in reports : p.t # e.t} \cup Withheld(e)
  BY DEF NextMessageDone
<1>2. /\ Consumed(e) /\ PoppedNotice(e) /\ CompactionGoes /\ LeftOf(buffered) /\ e \in AppEvents
      /\ e.t = active /\ active # 0 /\ call = "none" /\ e.t <= turns /\ e.t \notin compacted
      /\ \A y : y.t = e.t => Opened(y)
      /\ UNCHANGED <<written, running, turns, compacted>>
  BY <1>1, HeadIsText
<1> HIDE DEF e
<1>3. UNCHANGED <<requests, outstanding, answers, mode, late>>
  BY DEF Keep
<1>4. /\ seen' = Append(seen, e) /\ buffered' = buffered /\ UNCHANGED <<call, held, failed>>
  BY <1>1, <1>2 DEF Deliver
<1>5. Told'
  <2>1. ~Ends(e) /\ e.k # "TurnStarted"
    BY <1>1 DEF Ends
  <2>2. QED
    BY <1>1, <1>2, <1>4, <2>1, HandsTold
<1>6. \A f \in fragments' \cup reports' : f \in fragments \cup reports
  BY <1>1 DEF Withheld
<1>7. AdapterTypes'
  <2>1. seen' \in Seq(AppEvents)
    BY <1>2, <1>4, Appended DEF AppInv, AdapterTypes
  <2>2. fragments' \subseteq Texts /\ reports' \subseteq Texts
    BY <1>6 DEF AppInv, AdapterTypes
  <2>3. QED
    BY <1>1, <1>3, <1>4, <2>1, <2>2 DEF AppInv, AdapterTypes
<1>8. WrittenInOrder'
  BY <1>2, <1>6 DEF AppInv, WrittenInOrder
<1>9. \A t : t = active' /\ t # 0 => Reading(t)'
  <2>1. EndsMessage(e.t, e)
    BY <1>1, <1>2, <1>4 DEF EndsMessage
  <2>2. QED
    BY <1>1, <1>2, <2>1, EndedReading
<1>10. \A t \in 1 .. turns : Completed(t)' => WasRead(t)'
  BY <1>1, <1>2, <1>4, OthersStay
<1>11. QED
  BY <1>2, <1>3, <1>5, <1>7, <1>8, <1>9, <1>10, Assembled

-----------------------------------------------------------------------------
(* The end of the active turn                                                *)

\* The first notice ends the active turn: nothing of it is queued behind.
LEMMA LastOfTurn ==
  ASSUME AppInv, NEW e, PoppedNotice(e), Ends(e), e.t = active
  PROVE  /\ TextAhead(active) = {} /\ DonesAhead(active) = {} /\ running.t # active /\ active # NoTurnId
         /\ e.k \notin {"Delta", "MessageDone", "TurnStarted"}
<1> USE DEF NoTurnId
<1>1. 1 \in DOMAIN notices /\ notices[1] = e /\ \A i \in DOMAIN notices : i \in Nat /\ 1 <= i
  BY DEF PoppedNotice
<1>2. NoticesInOrder
  BY DEF AppInv
<1>3. running.t # active /\ active # 0
  BY <1>1, <1>2 DEF NoticesInOrder, Ends
<1>4. ASSUME NEW i \in DOMAIN notices, notices[i].t = active PROVE notices[i] = e
  <2>1. i <= 1
    BY <1>1, <1>2, <1>4 DEF NoticesInOrder
  <2>2. i = 1
    BY <1>1, <2>1
  <2>3. QED
    BY <1>1, <2>2
<1>5. e.k \notin {"Delta", "MessageDone", "TurnStarted"}
  BY DEF Ends
<1>6. QED
  BY <1>3, <1>4, <1>5 DEF TextAhead, DonesAhead

\* It releases the thread, and no compaction goes on.
LEMMA TurnReleased ==
  ASSUME AppInv, NEW e, Consumed(e), running.t # active, active # NoTurnId,
         compaction' = compaction, active' = NoTurnId
  PROVE  CompactionGoes
<1> USE DEF NoTurnId
<1>1. UNCHANGED <<running, turns, compacted>>
  BY DEF Consumed
<1>2. compaction \in Compactions /\ LastTurn /\ CompactionKnown
  BY DEF AppInv, AdapterTypes
<1>3. active = turns /\ ~compaction.on /\ running.t = 0
  BY <1>2 DEF LastTurn
<1>4. LastTurn'
  BY <1>1, <1>2, <1>3 DEF LastTurn
<1>5. \A i \in DOMAIN notices' : \E j \in DOMAIN notices : notices'[i] = notices[j]
  BY DEF Consumed
<1>6. CompactionKnown'
  BY <1>1, <1>2, <1>5 DEF CompactionKnown
<1>7. QED
  BY <1>2, <1>3, <1>4, <1>6 DEF CompactionGoes

\* No report is pending: all of the turn was read.
LEMMA ReadWithoutReport ==
  ASSUME AppInv, NEW e, PoppedNotice(e), Ends(e), e.t = active,
         ~\E f \in fragments : f.t = e.t, ~\E p \in reports : p.t = e.t
  PROVE  WasRead(active)
<1>1. TextAhead(active) = {} /\ active # NoTurnId
  BY LastOfTurn
<1>2. SeenInOrder(active) /\ NothingLost(active)
  BY <1>1 DEF AppInv, Reading
<1>3. QED
  BY <1>1, <1>2 DEF WasRead, NothingLost

\* The pending report is handed out: with it all of a turn that completed was read.
LEMMA ReadWithReport ==
  ASSUME AppInv, NEW e, PoppedNotice(e), e.k = "TurnCompleted", e.t = active,
         ~\E f \in fragments : f.t = e.t, NEW p \in reports, p.t = e.t,
         NEW x \in AppEvents, x.k = "Delta", x.t = p.t, x.m = p.m, x.d = p.d, seen' = Append(seen, x),
         written' = written, NEW t, t = active
  PROVE  WasRead(t)'
<1>1. /\ TextAhead(t) = {} /\ DonesAhead(t) = {} /\ running.t # t /\ t # NoTurnId
  BY LastOfTurn DEF Ends
<1>2. Reading(t)
  BY <1>1 DEF AppInv
<1>3. SeenInOrder(t) /\ Sourced(t) /\ ReportLast(t) /\ MessagesClose(t) /\ NothingLost(t)
  BY <1>2 DEF Reading
<1>4. 1 \in DOMAIN notices /\ notices[1] = e
  BY DEF PoppedNotice
<1>5. \A w \in written : w.t = t => \E j \in DonesOf(t) : seen[j].m = w.m
  BY <1>1, <1>3, <1>4 DEF MessagesClose
<1> DEFINE n == Len(seen) + 1
<1>6. /\ n \in Nat /\ n \in DOMAIN seen' /\ seen'[n] = x
      /\ \A i \in DOMAIN seen : i \in DOMAIN seen' /\ seen'[i] = seen[i] /\ i \in Nat /\ i < n
      /\ \A i \in DOMAIN seen' : i = n \/ i \in DOMAIN seen
  BY Appended DEF AppInv, AdapterTypes
<1> HIDE DEF n
<1>7. /\ n \in TextOf(t)' /\ DonesOf(t)' = DonesOf(t)
      /\ \A i \in TextOf(t) : i \in TextOf(t)' /\ seen'[i] = seen[i] /\ i \in Nat /\ i < n
      /\ \A i \in TextOf(t)' : i = n \/ i \in TextOf(t)
      /\ \A i \in DonesOf(t) : seen'[i] = seen[i]
  BY <1>6 DEF TextOf, DonesOf
<1>8. p.m \in Nat /\ p.d \in Seq(Nat) /\ seen \in Seq(AppEvents) /\ written \subseteq Written
  BY DEF AppInv, AdapterTypes, ProviderTypes, Texts
<1>9. ASSUME NEW i \in TextOf(t), NEW a \in DOMAIN seen[i].d, NEW b \in DOMAIN p.d
      PROVE  seen[i].d[a] < p.d[b]
  <2>1. seen[i].m \in Nat /\ seen[i].d \in Seq(Nat)
    BY <1>8, EventNumbers DEF TextOf
  <2>2. seen[i].d[a] \in Nat /\ p.d[b] \in Nat
    <3>1. \A s \in Seq(Nat) : \A y \in DOMAIN s : s[y] \in Nat
      BY Positions
    <3>2. QED
      BY <1>8, <1>9, <2>1, <3>1
  <2>3. Source(t, seen[i].m, seen[i].d[a]) /\ Source(t, p.m, p.d[b])
    BY <1>3, <1>9 DEF Sourced
  <2> DEFINE v == [t |-> t, m |-> p.m, d |-> p.d[b]]
             w == [t |-> t, m |-> seen[i].m, d |-> seen[i].d[a]]
  <2>4. /\ v \in written /\ v.t = t /\ v.m = p.m /\ v.d = p.d[b]
        /\ w \in written /\ w.t = t /\ w.m = seen[i].m /\ w.d = seen[i].d[a]
    BY <2>3 DEF Source
  <2> HIDE DEF v, w
  <2>5. seen[i].m <= p.m
    <3>1. PICK j \in DonesOf(t) : seen[j].m = w.m
      BY <1>5, <2>4
    <3>2. QED
      BY <1>3, <2>4, <3>1 DEF ReportLast
  <2>6. CASE seen[i].m = p.m
    BY <1>3, <1>9, <2>6 DEF ReportLast
  <2>7. CASE seen[i].m # p.m
    <3>1. v.d <= w.d => v.m <= w.m
      BY <2>4 DEF AppInv, WrittenInOrder
    <3>2. ~(p.d[b] <= seen[i].d[a])
      BY <1>8, <2>1, <2>4, <2>5, <2>7, <3>1
    <3>3. QED
      BY <2>2, <3>2
  <2>8. QED
    BY <2>6, <2>7
<1>10. InOrder(t)'
  <2>1. ASSUME NEW i \in TextOf(t)', NEW j \in TextOf(t)', NEW a \in DOMAIN seen'[i].d,
               NEW b \in DOMAIN seen'[j].d, i < j \/ (i = j /\ a < b)
        PROVE  seen'[i].d[a] < seen'[j].d[b]
    <3>1. CASE i \in TextOf(t) /\ j \in TextOf(t)
      BY <1>3, <1>7, <2>1, <3>1 DEF SeenInOrder, InOrder
    <3>2. CASE i \in TextOf(t) /\ j = n
      <4>1. seen'[i] = seen[i] /\ seen'[j].d = p.d
        BY <1>6, <1>7, <3>2
      <4>2. QED
        BY <1>9, <2>1, <3>2, <4>1
    <3>3. CASE i = n /\ j = n
      <4>1. seen'[i].d = p.d /\ seen'[j].d = p.d /\ a < b
        BY <1>6, <2>1, <3>3
      <4>2. Increasing(p.d)
        BY <1>3 DEF Sourced
      <4>3. QED
        BY <2>1, <4>1, <4>2 DEF Increasing
    <3>4. CASE i = n /\ j \in TextOf(t)
      BY <1>6, <1>7, <2>1, <3>4
    <3>5. QED
      BY <1>7, <3>1, <3>2, <3>3, <3>4
  <2>2. QED
    BY <2>1 DEF InOrder
<1>11. SeenInOrder(t)'
  <2>1. \A i, j \in DonesOf(t) : i < j => seen[i].m < seen[j].m
    BY <1>3 DEF SeenInOrder
  <2>2. DonesOf(t)' = DonesOf(t) /\ \A i \in DonesOf(t) : seen'[i] = seen[i]
    BY <1>7
  <2>3. ASSUME NEW i \in DonesOf(t)', NEW j \in DonesOf(t)', i < j PROVE seen'[i].m < seen'[j].m
    <3>1. i \in DonesOf(t) /\ j \in DonesOf(t) /\ seen'[i] = seen[i] /\ seen'[j] = seen[j]
      BY <2>2, <2>3
    <3>2. seen[i].m < seen[j].m
      BY <2>1, <2>3, <3>1
    <3>3. QED
      BY <3>1, <3>2
  <2>4. QED
    BY <1>10, <2>3 DEF SeenInOrder
<1>12. ASSUME NEW w \in written, w.t = t PROVE Arrived(w)'
  <2>1. Arrived(w) => Arrived(w)'
    BY <1>7, <1>12 DEF Arrived
  <2>2. (\E y \in DOMAIN x.d : x.d[y] = w.d) => Arrived(w)'
    BY <1>6, <1>7, <1>12 DEF Arrived
  <2>3. \A q \in reports : q.t = t => q = p
    BY <1>3 DEF ReportLast
  <2>4. QED
    BY <1>1, <1>3, <1>12, <2>1, <2>2, <2>3 DEF NothingLost
<1>13. QED
  BY <1>11, <1>12 DEF WasRead

\* The end of the active turn.
LEMMA TurnEndKeeps ==
  ASSUME AppInv, buffered = <<>>, notices # <<>>, notices' = Tail(notices), Keep, NextTurnEnd,
         Head(notices).t = active
  PROVE  AppInv'
<1> USE DEF NoTurnId
<1> DEFINE e == Head(notices)
           report == {p \in reports : p.t = e.t}
           p == CHOOSE q \in report : TRUE
           x == Delta(p.t, p.m, p.d, FALSE)
<1>1. Consumed(e) /\ PoppedNotice(e)
  BY NoticeConsumed DEF PoppedNotice
<1>2. /\ Ends(e) /\ ~(\E f \in fragments : f.t = e.t) /\ active' = 0 /\ compaction' = compaction
      /\ reports' = reports \ report /\ fragments' = fragments /\ e.t = active
      /\ report = {} => Deliver(e, buffered)
      /\ report # {} => Deliver(x, Append(buffered, e))
  BY DEF NextTurnEnd
<1>3. report = {} <=> ~\E q \in reports : q.t = e.t
  OBVIOUS
<1>4. report # {} => p \in reports /\ p.t = e.t
  OBVIOUS
<1>5. ASSUME p \in reports, p.t = e.t
      PROVE  x \in AppEvents /\ x.k = "Delta" /\ x.t = p.t /\ x.m = p.m /\ x.d = p.d
  <2>1. p \in Texts
    BY <1>5 DEF AppInv, AdapterTypes
  <2> HIDE DEF p
  <2>2. QED
    BY <2>1 DEF Delta, Texts, AppEvents, NoticeKinds
<1> HIDE DEF e, report, p, x
<1>6. /\ running.t # active /\ active # 0 /\ e.k \notin {"Delta", "MessageDone", "TurnStarted"}
  BY <1>1, <1>2, LastOfTurn
<1>7. /\ call = "none" /\ active = turns /\ ~compaction.on /\ active \notin compacted
      /\ \E j \in DOMAIN seen : seen[j].k = "TurnStarted" /\ seen[j].t = active
      /\ \A j \in DOMAIN seen : ~(Ends(seen[j]) /\ seen[j].t = active)
  BY <1>1, <1>2, <1>6, HeadOfActive DEF PoppedNotice
<1>8. CompactionGoes
  BY <1>1, <1>2, <1>6, TurnReleased
<1>9. LeftOf(buffered) /\ buffered \in Seq(AppEvents)
  BY DEF LeftOf, AppInv, AdapterTypes
<1>10. e \in AppEvents /\ UNCHANGED <<written, running, turns, compacted>>
  BY <1>1 DEF Consumed
<1>11. \A y : y.t = e.t => Opened(y)
  BY <1>2, <1>7 DEF Opened
<1>12. UNCHANGED <<requests, outstanding, answers, mode, late>>
  BY DEF Keep
<1>13. seen \in Seq(AppEvents) /\ held \in Seq(AppEvents) /\ failed \in Seq(Refusals)
  BY DEF AppInv, AdapterTypes
<1>14. CASE report = {}
  <2>1. /\ seen' = Append(seen, e) /\ buffered' = buffered /\ UNCHANGED <<call, held, failed>>
        /\ reports' = reports
    BY <1>2, <1>7, <1>14 DEF Deliver
  <2>2. Told'
    BY <1>1, <1>2, <1>6, <1>7, <1>8, <1>9, <1>10, <1>11, <2>1, HandsTold
  <2>3. WasRead(active)
    BY <1>1, <1>2, <1>3, <1>14, ReadWithoutReport
  <2>4. ASSUME NEW t, Completed(t)' PROVE Completed(t) \/ WasRead(t)
    <3>1. \A i \in DOMAIN seen' : seen'[i] = e \/ (i \in DOMAIN seen /\ seen'[i] = seen[i])
      BY <1>10, <1>13, <2>1, Appended
    <3>2. QED
      BY <1>2, <2>1, <2>3, <2>4, <3>1 DEF Completed
  <2>5. e = Head(notices)
    BY DEF e
  <2>6. QED
    BY <1>2, <1>6, <1>7, <1>8, <1>9, <1>13, <2>1, <2>2, <2>4, <2>5, NoticeStays
<1>15. CASE report # {}
  <2>1. p \in reports /\ p.t = e.t
    BY <1>4, <1>15
  <2>2. x \in AppEvents /\ x.k = "Delta" /\ x.t = p.t /\ x.m = p.m /\ x.d = p.d
    BY <1>5, <2>1
  <2>3. /\ seen' = Append(seen, x) /\ buffered' = Append(buffered, e) /\ UNCHANGED <<call, held, failed>>
    BY <1>2, <1>7, <1>15 DEF Deliver
  <2>4. buffered' = <<e>>
    BY <2>3
  <2>5. Told'
    BY <1>1, <1>2, <1>6, <1>7, <1>8, <1>11, <2>1, <2>2, <2>3, <2>4, ReportTold
  <2>6. AdapterTypes'
    <3>1. seen' \in Seq(AppEvents)
      BY <1>13, <2>2, <2>3, Appended
    <3>2. buffered' \in Seq(AppEvents)
      BY <1>10, <2>4
    <3>3. reports' \subseteq Texts
      BY <1>2 DEF AppInv, AdapterTypes
    <3>4. QED
      BY <1>2, <1>12, <2>3, <3>1, <3>2, <3>3 DEF AppInv, AdapterTypes
  <2>7. WrittenInOrder'
    <3>1. \A f \in fragments' \cup reports' : f \in fragments \cup reports
      BY <1>2
    <3>2. QED
      BY <1>10, <3>1 DEF AppInv, WrittenInOrder
  <2>8. ASSUME NEW t \in 1 .. turns, Completed(t)' PROVE WasRead(t)'
    <3>1. /\ \A i \in DOMAIN seen : i \in DOMAIN seen' /\ seen'[i] = seen[i]
          /\ \A i \in DOMAIN seen' : seen'[i] = x \/ i \in DOMAIN seen
      BY <1>13, <2>2, <2>3, Appended
    <3>2. \A i \in DOMAIN buffered' : buffered'[i] = e
      BY <2>4
    <3>3. CASE t = active
      <4>1. \A i \in DOMAIN seen : ~(seen[i].k = "TurnCompleted" /\ seen[i].t = t)
        BY <1>7, <3>3 DEF Ends
      <4>2. e.k = "TurnCompleted"
        BY <2>2, <2>8, <3>1, <3>2, <4>1 DEF Completed
      <4>3. QED
        BY <1>1, <1>2, <1>10, <2>1, <2>2, <2>3, <3>3, <4>2, ReadWithReport
    <3>4. CASE t # active
      <4>1. Completed(t)
        BY <1>2, <2>2, <2>8, <3>1, <3>2, <3>4 DEF Completed
      <4>2. SameSeen(t)
        BY <1>2, <2>1, <2>2, <3>1, <3>4 DEF SameSeen, TextOf, DonesOf
      <4>3. WasRead(t)
        BY <4>1 DEF AppInv
      <4>4. QED
        BY <1>10, <4>2, <4>3, SameRead
    <3>5. QED
      BY <3>3, <3>4
  <2>9. QED
    BY <1>1, <1>2, <1>8, <1>12, <2>5, <2>6, <2>7, <2>8, Assembled
<1>16. QED
  BY <1>14, <1>15

\* Every notice.
LEMMA NotificationKeeps ==
  ASSUME AppInv, NextNotification
  PROVE  AppInv'
<1>1. /\ buffered = <<>> /\ notices # <<>> /\ notices' = Tail(notices) /\ Keep
      /\ NextIgnored \/ NextDelta \/ NextMessageDone \/ NextTurnEnd \/ NextPlain \/ NextRefused
  BY DEF NextNotification
<1>2. QED
  BY <1>1, IgnoredKeeps, DeltaKeeps, MessageDoneKeeps, TurnEndKeeps, CompactionEndKeeps, PlainKeeps, RefusedKeeps

-----------------------------------------------------------------------------
(* The approval requests                                                     *)

\* Request r is answered, and no other.
AnswerAdded(r) ==
  /\ \A j \in DOMAIN answers' : answers'[j].r = r.r \/ \E i \in DOMAIN answers : answers'[j].r = answers[i].r
  /\ \A i \in DOMAIN answers : \E j \in DOMAIN answers' : answers'[j].r = answers[i].r
  /\ \E j \in DOMAIN answers' : answers'[j].r = r.r

\* An answer to a request that had none.
LEMMA Answered ==
  ASSUME AppInv, NEW r \in Asks, NEW d \in {"Allow", "Deny"}, Answer(r, d),
         \A i \in DOMAIN answers : answers[i].r # r.r, decided \subseteq decided',
         d = "Allow" => /\ active = r.t
                        /\ \/ [r |-> r.r, decision |-> "Allow"] \in decided'
                           \/ mode = "AcceptEdits" /\ r.kind = "FileChange"
  PROVE  AnswerJustified' /\ answers' \in Seq(Replies) /\ AnswerAdded(r)
<1> DEFINE a == [r |-> r.r, t |-> r.t, kind |-> r.kind, decision |-> d, mode |-> mode, live |-> active = r.t]
<1>1. answers' = Append(answers, a)
  BY DEF Answer
<1>2. r.r \in Nat /\ r.t \in Nat /\ r.kind \in EffectKinds
  BY DEF Asks
<1>3. answers \in Seq(Replies) /\ mode \in PermissionModes
  BY DEF AppInv, AdapterTypes
<1>4. (active = r.t) \in BOOLEAN
  OBVIOUS
<1>5. a \in Replies
  BY <1>2, <1>3, <1>4 DEF Replies
<1>6. a.r = r.r /\ a.kind = r.kind /\ a.decision = d /\ a.mode = mode /\ (a.live <=> active = r.t)
  OBVIOUS
<1> HIDE DEF a
<1> DEFINE n == Len(answers) + 1
<1>7. /\ answers' \in Seq(Replies) /\ n \in DOMAIN answers' /\ answers'[n] = a
      /\ \A i \in DOMAIN answers : i \in DOMAIN answers' /\ answers'[i] = answers[i]
      /\ \A i \in DOMAIN answers' : i = n \/ i \in DOMAIN answers
  BY <1>1, <1>3, <1>5, Appended
<1> HIDE DEF n
<1>8. AnswerAdded(r)
  BY <1>6, <1>7 DEF AnswerAdded
<1>9. AnswerJustified
  BY DEF AppInv
<1>10. ASSUME NEW i \in DOMAIN answers'
       PROVE  /\ \A j \in DOMAIN answers' : answers'[j].r = answers'[i].r => i = j
              /\ answers'[i].decision = "Allow" =>
                   /\ answers'[i].live
                   /\ \/ [r |-> answers'[i].r, decision |-> "Allow"] \in decided'
                      \/ answers'[i].mode = "AcceptEdits" /\ answers'[i].kind = "FileChange"
  <2>1. CASE i = n
    BY <1>6, <1>7, <2>1
  <2>2. CASE i \in DOMAIN answers
    <3>1. \A j \in DOMAIN answers : answers[j].r = answers[i].r => i = j
      BY <1>9, <2>2 DEF AnswerJustified
    <3>2. answers[i].decision = "Allow" =>
            /\ answers[i].live
            /\ \/ [r |-> answers[i].r, decision |-> "Allow"] \in decided
               \/ answers[i].mode = "AcceptEdits" /\ answers[i].kind = "FileChange"
      BY <1>9, <2>2 DEF AnswerJustified
    <3>3. answers'[i] = answers[i]
      BY <1>7, <2>2
    <3>4. \A j \in DOMAIN answers' : answers'[j].r = answers'[i].r => i = j
      BY <1>6, <1>7, <2>2, <3>1, <3>3
    <3>5. QED
      BY <3>2, <3>3, <3>4
  <2>3. QED
    BY <1>7, <1>10, <2>1, <2>2
<1>11. AnswerJustified'
  BY <1>10 DEF AnswerJustified
<1>12. QED
  BY <1>7, <1>8, <1>11

\* The first request goes to the engine or is answered.
LEMMA RequestMoves ==
  ASSUME AppInv, NEW r, 1 \in DOMAIN requests, requests[1] = r, turns' = turns,
         \A i \in DOMAIN requests' :
           i \in Nat /\ 1 <= i /\ i + 1 \in DOMAIN requests /\ requests'[i] = requests[i + 1],
         \A i \in DOMAIN requests : i = 1 \/ (i - 1 \in DOMAIN requests' /\ requests'[i - 1] = requests[i]),
         \/ outstanding' = outstanding \cup {r} /\ answers' = answers
         \/ outstanding' = outstanding /\ AnswerAdded(r)
  PROVE  AskedOnce'
<1>1. AskedOnce
  BY DEF AppInv
<1>2. \A i \in DOMAIN requests' : i + 1 \in DOMAIN requests /\ i + 1 # 1 /\ requests'[i] = requests[i + 1]
  OBVIOUS
<1>3. \A i \in DOMAIN requests' : requests'[i].r # r.r
  BY <1>1, <1>2 DEF AskedOnce
<1>4. /\ \A x \in outstanding : x.r # r.r
      /\ \A j \in DOMAIN answers : answers[j].r # r.r
  BY <1>1 DEF AskedOnce
<1>5. AskedIds' = AskedIds
  <2>1. ASSUME NEW y PROVE y \in AskedIds' => y \in AskedIds
    <3>1. CASE outstanding' = outstanding \cup {r} /\ answers' = answers
      BY <1>2, <3>1 DEF AskedIds
    <3>2. CASE outstanding' = outstanding /\ AnswerAdded(r)
      BY <1>2, <3>2 DEF AskedIds, AnswerAdded
    <3>3. QED
      BY <3>1, <3>2
  <2>2. ASSUME NEW y PROVE y \in AskedIds => y \in AskedIds'
    <3>1. ASSUME NEW i \in DOMAIN requests, y = requests[i].r PROVE y = r.r \/ y \in {requests'[j].r : j \in DOMAIN requests'}
      BY <3>1
    <3>2. CASE outstanding' = outstanding \cup {r} /\ answers' = answers
      BY <3>1, <3>2 DEF AskedIds
    <3>3. CASE outstanding' = outstanding /\ AnswerAdded(r)
      BY <3>1, <3>3 DEF AskedIds, AnswerAdded
    <3>4. QED
      BY <3>2, <3>3
  <2>3. QED
    BY <2>1, <2>2
<1>6. \E n \in Nat : AskedIds' = 1 .. n
  BY <1>1, <1>5 DEF AskedOnce
<1>7. ASSUME NEW i \in DOMAIN requests', NEW j \in DOMAIN requests', requests'[i].r = requests'[j].r PROVE i = j
  <2>1. i + 1 = j + 1
    BY <1>1, <1>2, <1>7 DEF AskedOnce
  <2>2. i \in Nat /\ j \in Nat
    OBVIOUS
  <2>3. QED
    BY <2>1, <2>2
<1>8. ASSUME NEW i \in DOMAIN requests'
      PROVE  /\ \A x \in outstanding' : x.r # requests'[i].r
             /\ \A j \in DOMAIN answers' : answers'[j].r # requests'[i].r
             /\ requests'[i].t \in 1 .. turns
  <2>1. /\ \A x \in outstanding : x.r # requests'[i].r
        /\ \A j \in DOMAIN answers : answers[j].r # requests'[i].r
        /\ requests'[i].t \in 1 .. turns
    BY <1>1, <1>2, <1>8 DEF AskedOnce
  <2>2. QED
    BY <1>3, <1>8, <2>1 DEF AnswerAdded
<1>9. /\ \A x, y \in outstanding' : x.r = y.r => x = y
      /\ \A x \in outstanding', j \in DOMAIN answers' : answers'[j].r # x.r
  <2>1. /\ \A x, y \in outstanding : x.r = y.r => x = y
        /\ \A x \in outstanding, j \in DOMAIN answers : answers[j].r # x.r
    BY <1>1 DEF AskedOnce
  <2>2. CASE outstanding' = outstanding \cup {r} /\ answers' = answers
    BY <1>4, <2>1, <2>2
  <2>3. CASE outstanding' = outstanding /\ AnswerAdded(r)
    BY <1>4, <2>1, <2>3 DEF AnswerAdded
  <2>4. QED
    BY <2>2, <2>3
<1>10. QED
  BY <1>6, <1>7, <1>8, <1>9 DEF AskedOnce

\* A request with the engine is answered.
LEMMA OutstandingMoves ==
  ASSUME AppInv, NEW r \in outstanding, turns' = turns, requests' = requests,
         outstanding' = outstanding \ {r}, AnswerAdded(r)
  PROVE  AskedOnce'
<1>1. AskedOnce
  BY DEF AppInv
<1>2. \A x \in outstanding' : x \in outstanding /\ x.r # r.r
  BY <1>1 DEF AskedOnce
<1>3. AskedIds' = AskedIds
  <2>1. ASSUME NEW y PROVE y \in AskedIds' => y \in AskedIds
    BY DEF AskedIds, AnswerAdded
  <2>2. ASSUME NEW y PROVE y \in AskedIds => y \in AskedIds'
    <3>1. \A x \in outstanding : x.r # r.r => x \in outstanding'
      OBVIOUS
    <3>2. QED
      BY <3>1 DEF AskedIds, AnswerAdded
  <2>3. QED
    BY <2>1, <2>2
<1>4. \E n \in Nat : AskedIds' = 1 .. n
  BY <1>1, <1>3 DEF AskedOnce
<1>5. ASSUME NEW i \in DOMAIN requests
      PROVE  /\ \A x \in outstanding' : x.r # requests[i].r
             /\ \A j \in DOMAIN answers' : answers'[j].r # requests[i].r
  BY <1>1, <1>2 DEF AskedOnce, AnswerAdded
<1>6. \A x \in outstanding', j \in DOMAIN answers' : answers'[j].r # x.r
  BY <1>1, <1>2 DEF AskedOnce, AnswerAdded
<1>7. /\ \A x, y \in outstanding' : x.r = y.r => x = y
      /\ \A i, j \in DOMAIN requests : requests[i].r = requests[j].r => i = j
      /\ \A i \in DOMAIN requests : requests[i].t \in 1 .. turns
  BY <1>1, <1>2 DEF AskedOnce
<1>8. QED
  BY <1>4, <1>5, <1>6, <1>7 DEF AskedOnce

\* An approval request is refused, told to the engine, or answered as the mode says.
LEMMA NextRequestKeeps ==
  ASSUME AppInv, NextRequest
  PROVE  AppInv'
<1> USE DEF NoTurnId
<1> DEFINE r == Head(requests)
           e == [Event("ApprovalRequested", r.t) EXCEPT !.m = r.r]
<1>1. /\ buffered = <<>> /\ notices = <<>> /\ requests # <<>> /\ requests' = Tail(requests)
      /\ UNCHANGED <<stage, notices, running, late, turns, written, compacted, active, mode,
                     compaction, fragments, reports, decided>>
      /\ \/ active # r.t /\ Answer(r, "Deny") /\ Fail(buffered) /\ outstanding' = outstanding
         \/ active = r.t /\ outstanding' = outstanding \cup {r} /\ Deliver(e, buffered) /\ answers' = answers
         \/ /\ active = r.t /\ (mode = "DontAsk" \/ (mode = "AcceptEdits" /\ r.kind = "FileChange"))
            /\ Answer(r, IF mode = "AcceptEdits" THEN "Allow" ELSE "Deny")
            /\ Quiet /\ outstanding' = outstanding
  BY DEF NextRequest
<1>2. /\ Consumed(e) /\ e.k = "ApprovalRequested" /\ e.t = r.t /\ r \in Asks /\ r.t \in 1 .. turns
      /\ ~StartAhead(r.t)
      /\ 1 \in DOMAIN requests /\ requests[1] = r
      /\ \A i \in DOMAIN requests' :
           i \in Nat /\ 1 <= i /\ i + 1 \in DOMAIN requests /\ requests'[i] = requests[i + 1]
      /\ \A i \in DOMAIN requests : i = 1 \/ (i - 1 \in DOMAIN requests' /\ requests'[i - 1] = requests[i])
  BY <1>1, RequestConsumed
<1> HIDE DEF r, e
<1>3. CompactionGoes
  BY <1>1, <1>2, CompactionStays
<1>4. LeftOf(buffered)
  BY DEF LeftOf, AppInv, AdapterTypes
<1>5. e \in AppEvents
  BY <1>2 DEF Consumed
<1>6. \A i \in DOMAIN answers : answers[i].r # r.r
  BY <1>2 DEF AppInv, AskedOnce
<1>7. /\ buffered \in Seq(AppEvents) /\ held \in Seq(AppEvents) /\ failed \in Seq(Refusals)
      /\ seen \in Seq(AppEvents) /\ outstanding \subseteq Asks /\ answers \in Seq(Replies)
      /\ call \in {"none", "Start", "CompactTurn", "CompactItems"}
  BY DEF AppInv, AdapterTypes
<1>8. ASSUME Told', AskedOnce', AnswerJustified', buffered' = buffered,
             held' \in Seq(AppEvents), failed' \in Seq(Refusals), outstanding' \subseteq Asks,
             call' \in {"none", "Start", "CompactTurn", "CompactItems"}, answers' \in Seq(Replies),
             seen' = seen \/ seen' = Append(seen, e)
      PROVE  AppInv'
  <2>1. seen' \in Seq(AppEvents)
    BY <1>5, <1>7, <1>8, Appended
  <2>2. AdapterTypes'
    BY <1>1, <1>7, <1>8, <2>1 DEF AppInv, AdapterTypes
  <2>3. \A t : Shifted(t, 0)
    BY <1>1, NoShift
  <2>4. seen' = seen \/ \E x \in AppEvents : seen' = Append(seen, x) /\ x.k \notin {"Delta", "MessageDone"}
    BY <1>2, <1>5, <1>8
  <2>5. ASSUME NEW t, Completed(t)' PROVE Completed(t)
    <3>1. \A i \in DOMAIN seen' : seen'[i] = e \/ (i \in DOMAIN seen /\ seen'[i] = seen[i])
      BY <1>5, <1>7, <1>8, Appended
    <3>2. QED
      BY <1>2, <1>8, <2>5, <3>1 DEF Completed
  <2>6. /\ WrittenInOrder'
        /\ \A t : t = active' /\ t # NoTurnId => Reading(t)'
        /\ \A t \in 1 .. turns : Completed(t)' => WasRead(t)'
    BY <1>1, <1>2, <2>3, <2>4, <2>5, TextStays
  <2>7. QED
    BY <1>1, <1>2, <1>3, <1>8, <2>2, <2>6 DEF AppInv, Consumed, CompactionGoes, Told
<1>9. CASE active # r.t /\ Answer(r, "Deny") /\ Fail(buffered) /\ outstanding' = outstanding
  <2>1. /\ call' = "none" /\ held' = <<>> /\ buffered' = buffered /\ seen' = seen
        /\ failed' = Append(failed, [call |-> call, late |-> late])
    BY <1>9 DEF Fail
  <2>2. call \in {"Start", "CompactTurn"} => late
    BY <1>2, <1>9 DEF AppInv, OnTime
  <2>3. failed' \in Seq(Refusals) /\ failed' # <<>>
    BY <2>1, <2>2, FailedAfter
  <2>4. Told'
    BY <1>1, <1>2, <1>3, <1>4, <2>1, <2>2, <2>3, SilentTold
  <2>5. AnswerJustified' /\ answers' \in Seq(Replies) /\ AnswerAdded(r)
    BY <1>1, <1>2, <1>6, <1>9, Answered
  <2>6. AskedOnce'
    BY <1>1, <1>2, <1>9, <2>5, RequestMoves
  <2>7. held' \in Seq(AppEvents)
    BY <2>1
  <2>8. QED
    BY <1>7, <1>8, <1>9, <2>1, <2>3, <2>4, <2>5, <2>6, <2>7
<1>10. CASE active = r.t /\ outstanding' = outstanding \cup {r} /\ Deliver(e, buffered) /\ answers' = answers
  <2>1. active # 0
    BY <1>2, <1>10
  <2>2. call = "none" /\ StartRead(active)
    BY <1>2, <1>10, <2>1 DEF AppInv, StartsFirst
  <2>3. seen' = Append(seen, e) /\ buffered' = buffered /\ UNCHANGED <<call, held, failed>>
    BY <1>10, <2>2 DEF Deliver
  <2>4. Opened(e)
    <3>1. \E j \in DOMAIN seen : seen[j].k = "TurnStarted" /\ seen[j].t = active
      BY <1>1, <2>2 DEF StartRead
    <3>2. \A j \in DOMAIN seen : ~(Ends(seen[j]) /\ seen[j].t = active)
      BY <2>1 DEF AppInv, NotEnded, EndRead
    <3>3. QED
      BY <1>2, <1>10, <3>1, <3>2 DEF Opened
  <2>5. Told'
    <3>1. ~Ends(e)
      BY <1>2 DEF Ends
    <3>2. QED
      BY <1>1, <1>2, <1>3, <1>4, <1>5, <2>2, <2>3, <2>4, <3>1, HandsTold
  <2>6. AskedOnce'
    BY <1>1, <1>2, <1>10, RequestMoves
  <2>7. AnswerJustified'
    BY <1>1, <1>10 DEF AppInv, AnswerJustified
  <2>8. outstanding' \subseteq Asks
    BY <1>2, <1>7, <1>10
  <2>9. QED
    BY <1>7, <1>8, <1>10, <2>3, <2>5, <2>6, <2>7, <2>8
<1>11. CASE /\ active = r.t /\ (mode = "DontAsk" \/ (mode = "AcceptEdits" /\ r.kind = "FileChange"))
            /\ Answer(r, IF mode = "AcceptEdits" THEN "Allow" ELSE "Deny")
            /\ Quiet /\ outstanding' = outstanding
  <2>1. UNCHANGED <<call, held, seen, failed, buffered>>
    BY <1>11 DEF Quiet
  <2>2. Told'
    BY <1>1, <1>2, <1>3, <1>4, <2>1, SilentTold
  <2>3. AnswerJustified' /\ answers' \in Seq(Replies) /\ AnswerAdded(r)
    <3>1. CASE mode = "AcceptEdits"
      BY <1>1, <1>2, <1>6, <1>11, <3>1, Answered
    <3>2. CASE mode # "AcceptEdits"
      BY <1>1, <1>2, <1>6, <1>11, <3>2, Answered
    <3>3. QED
      BY <3>1, <3>2
  <2>4. AskedOnce'
    BY <1>1, <1>2, <1>11, <2>3, RequestMoves
  <2>5. QED
    BY <1>7, <1>8, <1>11, <2>1, <2>2, <2>3, <2>4
<1>12. QED
  BY <1>1, <1>9, <1>10, <1>11

-----------------------------------------------------------------------------
(* The calls of the engine                                                   *)

\* What the adapter reads and keeps is untouched.
ReaderStays ==
  UNCHANGED <<notices, requests, running, turns, written, compacted, active, mode, compaction,
              fragments, reports, buffered, call, held, late, seen>>

\* The parts of the invariant that depend on nothing else.
LEMMA ReaderKeeps ==
  ASSUME AppInv, ReaderStays, failed # <<>> => failed' # <<>>
  PROVE  /\ ProviderTypes' /\ LastTurn' /\ NoticesInOrder' /\ CompactionKnown' /\ Abandoned'
         /\ KeptEvents' /\ StartsFirst' /\ OnTime' /\ NotEnded' /\ WrittenInOrder' /\ TurnsBracketed'
         /\ active' # NoTurnId => \A t : t = active' => Reading(t)'
         /\ \A t \in 1 .. turns' : Completed(t)' => WasRead(t)'
<1> USE DEF ReaderStays
<1>1. ProviderTypes' /\ LastTurn' /\ NoticesInOrder' /\ CompactionKnown' /\ Abandoned'
  BY DEF AppInv, ProviderTypes, LastTurn, NoticesInOrder, Ends, CompactionKnown, Abandoned
<1>2. KeptEvents' /\ StartsFirst' /\ OnTime'
  BY DEF AppInv, KeptEvents, StartsFirst, StartAhead, StartRead, OnTime
<1>3. NotEnded' /\ TurnsBracketed'
  <2>1. NotEnded /\ TurnsBracketed
    BY DEF AppInv
  <2>2. \A t : EndRead(t)' <=> EndRead(t)
    BY DEF EndRead, Ends
  <2>3. NotEnded'
    BY <2>1, <2>2 DEF NotEnded, Ends
  <2>4. TurnsBracketed'
    BY <2>1 DEF TurnsBracketed, Ends
  <2>5. QED
    BY <2>3, <2>4
<1>4. WrittenInOrder'
  BY DEF AppInv, WrittenInOrder
<1>5. ASSUME NEW t, t = active', active' # NoTurnId PROVE Reading(t)'
  BY <1>5, SameReading DEF AppInv
<1>6. ASSUME NEW t \in 1 .. turns', Completed(t)' PROVE WasRead(t)'
  <2>1. WasRead(t)
    BY <1>6 DEF AppInv, Completed
  <2>2. SameSeen(t)
    BY DEF SameSeen, TextOf, DonesOf
  <2>3. QED
    BY <2>1, <2>2, SameRead
<1>7. QED
  BY <1>1, <1>2, <1>3, <1>4, <1>5, <1>6

\* So does what is known of the requests.
LEMMA RequestsStay ==
  ASSUME AppInv, UNCHANGED <<requests, outstanding, answers, decided, turns>>
  PROVE  AskedOnce' /\ AnswerJustified'
<1>1. AskedOnce /\ AnswerJustified
  BY DEF AppInv
<1>2. AskedIds' = AskedIds
  BY DEF AskedIds
<1>3. AskedOnce'
  BY <1>1, <1>2 DEF AskedOnce
<1>4. AnswerJustified'
  BY <1>1 DEF AnswerJustified
<1>5. QED
  BY <1>3, <1>4

\* The engine decides.
LEMMA ResolveKeeps ==
  ASSUME AppInv, ResolveEffect
  PROVE  AppInv'
<1>1. PICK r \in outstanding, d \in {"Allow", "Deny"} :
        /\ active = r.t /\ outstanding' = outstanding \ {r} /\ Answer(r, d)
        /\ decided' = decided \cup {[r |-> r.r, decision |-> d]}
        /\ UNCHANGED <<stage, notices, requests, running, late, turns, written, compacted, active, mode,
                       compaction, fragments, reports, buffered, call, held, seen, accepted, failed>>
  BY DEF ResolveEffect
<1>2. ReaderStays /\ failed' = failed
  BY <1>1 DEF ReaderStays
<1>3. r \in Asks /\ \A i \in DOMAIN answers : answers[i].r # r.r
  BY DEF AppInv, AdapterTypes, AskedOnce
<1>4. AnswerJustified' /\ answers' \in Seq(Replies) /\ AnswerAdded(r)
  BY <1>1, <1>3, Answered
<1>5. AskedOnce'
  BY <1>1, <1>4, OutstandingMoves
<1>6. AdapterTypes' /\ StartsUnlessLate'
  BY <1>1, <1>4 DEF AppInv, AdapterTypes, StartsUnlessLate
<1>7. QED
  BY <1>2, <1>4, <1>5, <1>6, ReaderKeeps DEF AppInv

\* The requests that set a thread up.
LEMMA SetupKeeps ==
  ASSUME AppInv, NEW from \in {"New", "Connected", "Listed"}, NEW to, NEW valid, NEW lost,
         Setup(from, to, valid, lost)
  PROVE  AppInv'
<1>1. /\ ReaderStays /\ UNCHANGED <<outstanding, answers, decided>>
      /\ failed' = failed \/ failed' = Append(failed, [call |-> from, late |-> FALSE])
  BY DEF Setup, ReaderStays
<1>2. failed \in Seq(Refusals) /\ StartsUnlessLate
  BY DEF AppInv, AdapterTypes
<1> DEFINE f == [call |-> from, late |-> FALSE]
<1>3. f \in Refusals /\ f.call \notin {"Start", "CompactTurn"}
  BY DEF Refusals
<1>4. failed' = failed \/ failed' = Append(failed, f)
  BY <1>1
<1> HIDE DEF f
<1>5. /\ failed' \in Seq(Refusals) /\ (failed # <<>> => failed' # <<>>)
      /\ \A i \in DOMAIN failed' : failed'[i] = f \/ (i \in DOMAIN failed /\ failed'[i] = failed[i])
  BY <1>2, <1>3, <1>4, Appended
<1>6. StartsUnlessLate'
  BY <1>2, <1>3, <1>5 DEF StartsUnlessLate
<1>7. AdapterTypes' /\ AskedOnce' /\ AnswerJustified'
  <2>1. AskedOnce' /\ AnswerJustified'
    BY <1>1, RequestsStay DEF ReaderStays
  <2>2. AdapterTypes'
    BY <1>1, <1>5 DEF AppInv, AdapterTypes, ReaderStays
  <2>3. QED
    BY <2>1, <2>2
<1>8. QED
  BY <1>1, <1>5, <1>6, <1>7, ReaderKeeps DEF AppInv

\* A compaction that is already under way, and a step that changes nothing.
LEMMA AgainKeeps ==
  ASSUME AppInv, CompactAgain \/ UNCHANGED appVars
  PROVE  AppInv'
<1>1. ReaderStays /\ UNCHANGED <<outstanding, answers, decided, failed>>
  BY DEF CompactAgain, CallsQuiet, appVars, ReaderStays
<1>2. AdapterTypes' /\ AskedOnce' /\ AnswerJustified' /\ StartsUnlessLate'
  <2>1. AskedOnce' /\ AnswerJustified'
    BY <1>1, RequestsStay DEF ReaderStays
  <2>2. AdapterTypes' /\ StartsUnlessLate'
    BY <1>1 DEF AppInv, AdapterTypes, StartsUnlessLate, ReaderStays
  <2>3. QED
    BY <2>1, <2>2
<1>3. QED
  BY <1>1, <1>2, ReaderKeeps DEF AppInv

\* The next turn is one that nothing was read, kept, queued or written of.
LEMMA Fresh ==
  ASSUME AppInv, NEW n, n = turns + 1
  PROVE  /\ turns \in Nat /\ n \in Nat /\ n # 0 /\ n # turns /\ n \notin compacted
         /\ \A t : t \in 1 .. n <=> t \in 1 .. turns \/ t = n
         /\ \A i \in DOMAIN seen : seen[i].t \in Nat /\ seen[i].t <= turns /\ seen[i].t < n /\ seen[i].t # n
         /\ \A i \in DOMAIN buffered : buffered[i].t \in Nat /\ buffered[i].t <= n /\ buffered[i].t < n /\ buffered[i].t # n
         /\ \A i \in DOMAIN notices : notices[i].t \in Nat /\ notices[i].t <= n /\ notices[i].t # n
         /\ \A i \in DOMAIN requests : requests[i].t # n
         /\ \A w \in written : w.t # n /\ w.t <= n
         /\ \A f \in fragments \cup reports : f.t # n /\ f.t <= n
<1>1. turns \in Nat /\ compacted \subseteq 1 .. turns
  BY DEF AppInv, ProviderTypes
<1>2. n \in Nat /\ n # 0 /\ n # turns /\ n \notin compacted /\ \A t : t \in 1 .. n <=> t \in 1 .. turns \/ t = n
  BY <1>1
<1>3. \A i \in DOMAIN seen : seen[i].t \in Nat /\ seen[i].t <= turns /\ seen[i].t < n /\ seen[i].t # n
  <2>1. \A i \in DOMAIN seen : seen[i].t \in Nat /\ seen[i].t <= turns
    BY EventNumbers DEF AppInv, AdapterTypes, NotEnded
  <2>2. QED
    BY <1>1, <2>1
<1>4. \A i \in DOMAIN buffered : buffered[i].t \in Nat /\ buffered[i].t <= n /\ buffered[i].t < n /\ buffered[i].t # n
  <2>1. \A i \in DOMAIN buffered : buffered[i].t \in Nat /\ buffered[i].t <= turns
    BY EventNumbers DEF AppInv, AdapterTypes, KeptEvents
  <2>2. QED
    BY <1>1, <2>1
<1>5. \A i \in DOMAIN notices : notices[i].t \in Nat /\ notices[i].t <= n /\ notices[i].t # n
  <2>1. \A i \in DOMAIN notices : notices[i].t \in Nat /\ notices[i].t <= turns
    BY EventNumbers DEF AppInv, ProviderTypes, NoticesInOrder
  <2>2. QED
    BY <1>1, <2>1
<1>6. \A i \in DOMAIN requests : requests[i].t # n
  <2>1. \A i \in DOMAIN requests : requests[i].t \in 1 .. turns
    BY DEF AppInv, AskedOnce
  <2>2. QED
    BY <1>1, <2>1
<1>7. \A w \in written : w.t # n /\ w.t <= n
  <2>1. \A w \in written : w.t \in Nat /\ w.t <= turns
    BY DEF AppInv, ProviderTypes, WrittenInOrder, Written
  <2>2. QED
    BY <1>1, <2>1
<1>8. \A f \in fragments \cup reports : f.t # n /\ f.t <= n
  <2>1. \A f \in fragments \cup reports : f.t \in Nat /\ f.t <= turns
    BY DEF AppInv, AdapterTypes, WrittenInOrder, Texts
  <2>2. QED
    BY <1>1, <2>1
<1>9. QED
  BY <1>1, <1>2, <1>3, <1>4, <1>5, <1>6, <1>7, <1>8

\* What was read is the same, and the turns that completed.
LEMMA CompletedStay ==
  ASSUME AppInv, UNCHANGED <<seen, buffered, written>>, turns' = turns \/ turns' = turns + 1
  PROVE  \A t \in 1 .. turns' : Completed(t)' => WasRead(t)'
<1>1. SUFFICES ASSUME NEW t \in 1 .. turns', Completed(t)' PROVE WasRead(t)'
  OBVIOUS
<1>2. Completed(t)
  BY <1>1 DEF Completed
<1>3. t \in 1 .. turns
  <2>1. t # turns + 1
    BY <1>2, Fresh DEF Completed
  <2>2. QED
    BY <1>1, <2>1, Fresh
<1>4. WasRead(t)
  BY <1>2, <1>3 DEF AppInv
<1>5. SameSeen(t)
  BY DEF SameSeen, TextOf, DonesOf
<1>6. QED
  BY <1>4, <1>5, SameRead

\* A turn begins.
LEMMA StartTurnKeeps ==
  ASSUME AppConstants, AppInv, StartTurn
  PROVE  AppInv'
<1> USE DEF NoTurnId
<1> DEFINE n == turns + 1
<1>1. PICK m \in PermissionModes :
        /\ call = "none" /\ running.t = 0 /\ turns < MaxTurns /\ active = 0 /\ ~compaction.on
        /\ turns' = n /\ compaction' = compaction /\ mode' = m /\ active' = n /\ Begin(n)
        /\ notices' = IF turns = 0 THEN Append(notices, Event("ThreadStarted", 0)) ELSE notices
        /\ call' = "Start" /\ CallsQuiet /\ UNCHANGED <<compacted, outstanding, accepted, failed>>
  BY DEF StartTurn, Calling
<1>2. /\ turns \in Nat /\ n \in Nat /\ n # 0 /\ n # turns /\ n \notin compacted
      /\ \A t : t \in 1 .. n <=> t \in 1 .. turns \/ t = n
      /\ \A i \in DOMAIN seen : seen[i].t \in Nat /\ seen[i].t <= turns /\ seen[i].t < n /\ seen[i].t # n
      /\ \A i \in DOMAIN buffered : buffered[i].t \in Nat /\ buffered[i].t <= n /\ buffered[i].t < n /\ buffered[i].t # n
      /\ \A i \in DOMAIN notices : notices[i].t \in Nat /\ notices[i].t <= n /\ notices[i].t # n
      /\ \A i \in DOMAIN requests : requests[i].t # n
      /\ \A w \in written : w.t # n /\ w.t <= n
      /\ \A f \in fragments \cup reports : f.t # n /\ f.t <= n
  BY Fresh
<1>3. n <= MaxTurns
  BY <1>1, <1>2 DEF AppConstants
<1> HIDE DEF n
<1>4. UNCHANGED <<requests, written, fragments, reports, buffered, held, seen, answers, decided>>
  BY <1>1 DEF CallsQuiet
<1>5. compaction = NoCompaction /\ ~compaction.on
  BY <1>1 DEF AppInv, LastTurn
<1>6. /\ running' \in Runnings /\ running'.t = n /\ ~running'.started /\ ~running'.compacts
      /\ running'.deltas = 0 /\ running'.message = 0 /\ ~running'.open /\ late' = Leftover
  <2>1. running' = [Resting EXCEPT !.t = n, !.compacts = compaction'.on] /\ late' = Leftover
    BY <1>1 DEF Begin
  <2>2. compaction'.on = FALSE
    BY <1>1, <1>5 DEF NoCompaction
  <2>3. QED
    BY <1>2, <2>1, <2>2 DEF Resting, Runnings
<1>7. Leftover \in BOOLEAN /\ (~Leftover => notices = <<>> /\ requests = <<>> /\ buffered = <<>>)
  BY DEF Leftover
<1>8. KeptEvents
  BY DEF AppInv
<1>9. \/ turns # 0 /\ notices' = notices
      \/ /\ turns = 0 /\ n = 1 /\ notices = <<>> /\ seen = <<>> /\ buffered = <<>> /\ held = <<>>
         /\ notices' \in Seq(AppEvents) /\ DOMAIN notices' = {1}
         /\ notices'[1].k = "ThreadStarted" /\ notices'[1].t = 0
  <2>1. CASE turns = 0
    <3>1. notices = <<>> /\ seen = <<>> /\ buffered = <<>> /\ held = <<>> /\ n = 1
      BY <1>8, <2>1 DEF KeptEvents, n
    <3> DEFINE e == Event("ThreadStarted", 0)
    <3>2. e \in AppEvents /\ e.k = "ThreadStarted" /\ e.t = 0
      BY EventFields DEF NoticeKinds
    <3>3. notices' = Append(notices, e)
      BY <1>1, <2>1
    <3> HIDE DEF e
    <3>4. notices' = <<e>>
      BY <3>1, <3>3
    <3>5. notices' \in Seq(AppEvents) /\ DOMAIN notices' = {1} /\ notices'[1] = e
      BY <3>2, <3>4
    <3>6. QED
      BY <2>1, <3>1, <3>2, <3>5
  <2>2. CASE turns # 0
    BY <1>1, <2>2
  <2>3. QED
    BY <2>1, <2>2
<1>10. \A i \in DOMAIN notices : notices[i].k # "ThreadStarted"
  BY <1>1, <1>8 DEF KeptEvents
<1>11. /\ notices' \in Seq(AppEvents)
       /\ \A i \in DOMAIN notices' : \/ i \in DOMAIN notices /\ notices'[i] = notices[i]
                                     \/ i = 1 /\ notices'[i].t = 0 /\ notices'[i].k = "ThreadStarted"
       /\ \A i \in DOMAIN notices' : notices'[i].t \in Nat /\ notices'[i].t <= n /\ notices'[i].t # n
  BY <1>2, <1>9 DEF AppInv, ProviderTypes
<1>12. ProviderTypes' /\ AdapterTypes'
  <2>1. compacted \subseteq 1 .. n
    BY <1>2 DEF AppInv, ProviderTypes
  <2>2. ProviderTypes'
    BY <1>1, <1>2, <1>3, <1>4, <1>6, <1>11, <2>1 DEF AppInv, ProviderTypes
  <2>3. AdapterTypes'
    BY <1>1, <1>2, <1>4, <1>6, <1>7 DEF AppInv, AdapterTypes
  <2>4. QED
    BY <2>2, <2>3
<1>13. LastTurn'
  BY <1>1, <1>2, <1>5, <1>6 DEF LastTurn
<1>14. NoticesInOrder'
  <2>1. CASE notices' = notices
    BY <1>1, <1>2, <1>6, <1>11, <2>1 DEF AppInv, NoticesInOrder, Ends
  <2>2. CASE DOMAIN notices' = {1} /\ notices'[1].k = "ThreadStarted" /\ notices'[1].t = 0
    BY <1>1, <1>2, <1>6, <1>11, <2>2 DEF NoticesInOrder, Ends
  <2>3. QED
    BY <1>9, <2>1, <2>2
<1>15. CompactionKnown'
  <2>1. CompactionKnown
    BY DEF AppInv
  <2>2. 0 \notin compacted
    BY <1>2 DEF AppInv, ProviderTypes
  <2>3. ~compaction.item /\ ~compaction.completed
    BY <1>5 DEF NoCompaction
  <2>4. \A i \in DOMAIN notices' :
          /\ notices'[i].t \notin compacted
          /\ notices'[i].k \in {"CompactStarted", "CompactDone"} => notices'[i].t \in compacted
    BY <1>1, <1>11, <2>1, <2>2 DEF CompactionKnown
  <2>5. QED
    BY <1>1, <1>5, <2>3, <2>4 DEF CompactionKnown
<1>16. Abandoned'
  BY <1>1 DEF Abandoned
<1>17. KeptEvents'
  <2>1. held = <<>>
    BY <1>1, <1>8 DEF KeptEvents
  <2>2. \A i \in DOMAIN notices' : notices'[i].k = "ThreadStarted" =>
          i = 1 /\ n = 1 /\ seen = <<>> /\ buffered = <<>>
    BY <1>9, <1>10
  <2>3. \A i \in DOMAIN buffered :
          /\ buffered[i].k \in {"ThreadStarted", "TurnStarted", "TurnCompleted", "TurnFailed"}
          /\ buffered[i].k = "ThreadStarted" <=> buffered[i].t = 0
    BY <1>8 DEF KeptEvents
  <2>4. /\ Len(buffered) <= 2
        /\ Len(buffered) = 2 => buffered[1].k = "ThreadStarted" /\ buffered[2].k = "TurnStarted"
    BY <1>8 DEF KeptEvents
  <2>5. Len(held') <= 1 /\ DOMAIN held' = {} /\ held' = <<>>
    BY <1>4, <2>1
  <2>6. QED
    BY <1>1, <1>2, <1>4, <2>2, <2>3, <2>4, <2>5 DEF KeptEvents
<1>18. StartsFirst'
  <2>1. \A t : t = n => StartAhead(t)'
    BY <1>6 DEF StartAhead
  <2>2. ASSUME NEW t \in 1 .. n, StartAhead(t)'
        PROVE  /\ \A i \in DOMAIN seen : seen[i].t # t
               /\ \A i \in DOMAIN buffered : buffered[i].t # t
               /\ \A i \in DOMAIN requests : requests[i].t = t =>
                    \E j \in DOMAIN notices' : notices'[j].k = "TurnStarted" /\ notices'[j].t = t
    <3>1. CASE t = n
      BY <1>2, <3>1
    <3>2. CASE t # n
      <4>1. PICK j \in DOMAIN notices' : notices'[j].k = "TurnStarted" /\ notices'[j].t = t
        BY <1>6, <2>2, <3>2 DEF StartAhead
      <4>2. StartAhead(t) /\ t \in 1 .. turns
        BY <1>2, <1>11, <2>2, <3>2, <4>1 DEF StartAhead
      <4>3. /\ \A i \in DOMAIN seen : seen[i].t # t
            /\ \A i \in DOMAIN buffered : buffered[i].t # t
        BY <4>2 DEF AppInv, StartsFirst
      <4>4. QED
        BY <4>1, <4>3
    <3>3. QED
      BY <3>1, <3>2
  <2>3. QED
    BY <1>1, <1>2, <1>4, <2>1, <2>2 DEF StartsFirst
<1>19. OnTime'
  <2>1. ASSUME ~late'
        PROVE  /\ buffered' = <<>> /\ \A i \in DOMAIN notices' : notices'[i].t = 0
               /\ \A i \in DOMAIN requests' : FALSE
    BY <1>4, <1>6, <1>7, <1>11, <2>1
  <2>2. QED
    BY <1>1, <2>1 DEF OnTime
<1>20. NotEnded' /\ TurnsBracketed'
  <2>1. NotEnded /\ TurnsBracketed
    BY DEF AppInv
  <2>2. \A t : t = n => ~EndRead(t)'
    BY <1>2, <1>4 DEF EndRead, Ends
  <2>3. \A i \in DOMAIN seen : seen[i].t <= n
    BY <1>2
  <2>4. NotEnded'
    BY <1>1, <1>4, <1>5, <2>1, <2>2, <2>3 DEF NotEnded, Ends
  <2>5. TurnsBracketed'
    BY <1>1, <1>4, <2>1 DEF TurnsBracketed, Ends
  <2>6. QED
    BY <2>4, <2>5
<1>21. AskedOnce' /\ AnswerJustified' /\ StartsUnlessLate'
  <2>1. AskedOnce /\ AnswerJustified /\ StartsUnlessLate
    BY DEF AppInv
  <2>2. AskedIds' = AskedIds
    BY <1>1, <1>4 DEF AskedIds
  <2>3. AskedOnce'
    BY <1>1, <1>2, <1>4, <2>1, <2>2 DEF AskedOnce
  <2>4. AnswerJustified'
    BY <1>4, <2>1 DEF AnswerJustified
  <2>5. QED
    BY <1>1, <2>1, <2>3, <2>4 DEF StartsUnlessLate
<1>22. WrittenInOrder'
  BY <1>1, <1>2, <1>4, <1>6 DEF AppInv, WrittenInOrder
<1>23. \A t : t = active' => Reading(t)'
  <2>1. SUFFICES ASSUME NEW t, t = n PROVE Reading(t)'
    BY <1>1
  <2>2. TextOf(t)' = {} /\ DonesOf(t)' = {} /\ TextAhead(t)' = {} /\ DonesAhead(t)' = {}
    BY <1>2, <1>4, <1>11, <2>1 DEF TextOf, DonesOf, TextAhead, DonesAhead
  <2>3. (\A w \in written' : w.t # t) /\ (\A f \in fragments' \cup reports' : f.t # t)
    BY <1>2, <1>4, <2>1
  <2>4. SeenInOrder(t)' /\ Sourced(t)' /\ WithheldLast(t)' /\ ReportLast(t)' /\ TextAfter(t)'
    BY <2>2, <2>3 DEF SeenInOrder, InOrder, Sourced, WithheldLast, ReportLast, TextAfter
  <2>5. DonesAfter(t)' /\ OneByOne(t)' /\ MessagesClose(t)' /\ NothingLost(t)'
    BY <2>2, <2>3 DEF DonesAfter, OneByOne, MessagesClose, NothingLost
  <2>6. QED
    BY <2>4, <2>5 DEF Reading
<1>24. \A t \in 1 .. turns' : Completed(t)' => WasRead(t)'
  BY <1>1, <1>4, CompletedStay DEF n
<1>25. QED
  BY <1>12, <1>13, <1>14, <1>15, <1>16, <1>17, <1>18, <1>19, <1>20, <1>21, <1>22, <1>23, <1>24 DEF AppInv

\* A compaction begins.
LEMMA CompactThreadKeeps ==
  ASSUME AppConstants, AppInv, CompactThread
  PROVE  AppInv'
<1> USE DEF NoTurnId
<1> DEFINE n == turns + 1
<1>1. /\ call = "none" /\ running.t = 0 /\ turns < MaxTurns /\ active = 0 /\ ~compaction.on
      /\ turns' = n /\ compacted' = compacted \cup {n}
      /\ compaction' = [NoCompaction EXCEPT !.on = TRUE] /\ Begin(n) /\ call' = "CompactTurn"
      /\ CallsQuiet /\ UNCHANGED <<notices, active, mode, outstanding, accepted, failed>>
  BY DEF CompactThread, Calling
<1>2. /\ turns \in Nat /\ n \in Nat /\ n # 0 /\ n # turns /\ n \notin compacted
      /\ \A t : t \in 1 .. n <=> t \in 1 .. turns \/ t = n
      /\ \A i \in DOMAIN seen : seen[i].t \in Nat /\ seen[i].t <= turns /\ seen[i].t < n /\ seen[i].t # n
      /\ \A i \in DOMAIN buffered : buffered[i].t \in Nat /\ buffered[i].t <= n /\ buffered[i].t < n /\ buffered[i].t # n
      /\ \A i \in DOMAIN notices : notices[i].t \in Nat /\ notices[i].t <= n /\ notices[i].t # n
      /\ \A i \in DOMAIN requests : requests[i].t # n
      /\ \A w \in written : w.t # n /\ w.t <= n
      /\ \A f \in fragments \cup reports : f.t # n /\ f.t <= n
  BY Fresh
<1>3. n <= MaxTurns
  BY <1>1, <1>2 DEF AppConstants
<1>4. \A t \in 1 .. turns' : Completed(t)' => WasRead(t)'
  BY <1>1, CompletedStay DEF CallsQuiet
<1> HIDE DEF n
<1>5. UNCHANGED <<requests, written, fragments, reports, buffered, held, seen, answers, decided>>
  BY <1>1 DEF CallsQuiet
<1>6. /\ compaction' \in Compactions /\ compaction'.on /\ compaction'.turn = 0 /\ ~compaction'.item
      /\ ~compaction'.completed /\ compaction'.on = TRUE
  BY <1>1 DEF NoCompaction, Compactions
<1>7. /\ running' \in Runnings /\ running'.t = n /\ ~running'.started /\ running'.compacts
      /\ running'.deltas = 0 /\ running'.message = 0 /\ ~running'.open /\ late' = Leftover
  <2>1. running' = [Resting EXCEPT !.t = n, !.compacts = TRUE] /\ late' = Leftover
    BY <1>1, <1>6 DEF Begin
  <2>2. QED
    BY <1>2, <2>1 DEF Resting, Runnings
<1>8. Leftover \in BOOLEAN /\ (~Leftover => notices = <<>> /\ requests = <<>> /\ buffered = <<>>)
  BY DEF Leftover
<1>9. KeptEvents
  BY DEF AppInv
<1>10. \A i \in DOMAIN notices : notices[i].k # "ThreadStarted"
  BY <1>1, <1>9 DEF KeptEvents
<1>11. ProviderTypes' /\ AdapterTypes'
  <2>1. compacted' \subseteq 1 .. n
    BY <1>1, <1>2 DEF AppInv, ProviderTypes
  <2>2. ProviderTypes'
    BY <1>1, <1>2, <1>3, <1>5, <1>7, <2>1 DEF AppInv, ProviderTypes
  <2>3. AdapterTypes'
    BY <1>1, <1>5, <1>6, <1>7, <1>8 DEF AppInv, AdapterTypes
  <2>4. QED
    BY <2>2, <2>3
<1>12. LastTurn'
  BY <1>1, <1>2, <1>6, <1>7 DEF LastTurn
<1>13. NoticesInOrder'
  BY <1>1, <1>2, <1>7 DEF AppInv, NoticesInOrder, Ends
<1>14. CompactionKnown'
  <2>1. CompactionKnown
    BY DEF AppInv
  <2>2. \A i \in DOMAIN notices : notices[i].t \notin compacted'
    BY <1>1, <1>2, <2>1 DEF CompactionKnown
  <2>3. \A i \in DOMAIN notices : notices[i].k \notin {"CompactStarted", "CompactDone"}
    BY <1>1, <2>1 DEF CompactionKnown
  <2>4. QED
    BY <1>1, <1>2, <1>6, <2>2, <2>3 DEF CompactionKnown
<1>15. Abandoned'
  BY <1>1 DEF Abandoned
<1>16. KeptEvents'
  <2>1. held = <<>>
    BY <1>1, <1>9 DEF KeptEvents
  <2>2. \A i \in DOMAIN buffered :
          /\ buffered[i].k \in {"ThreadStarted", "TurnStarted", "TurnCompleted", "TurnFailed"}
          /\ buffered[i].k = "ThreadStarted" <=> buffered[i].t = 0
    BY <1>9 DEF KeptEvents
  <2>3. /\ Len(buffered) <= 2
        /\ Len(buffered) = 2 => buffered[1].k = "ThreadStarted" /\ buffered[2].k = "TurnStarted"
    BY <1>9 DEF KeptEvents
  <2>4. QED
    BY <1>1, <1>2, <1>5, <1>10, <2>2, <2>3 DEF KeptEvents
<1>17. StartsFirst'
  <2>1. \A t : t = n => StartAhead(t)'
    BY <1>7 DEF StartAhead
  <2>2. ASSUME NEW t \in 1 .. n, StartAhead(t)'
        PROVE  /\ \A i \in DOMAIN seen : seen[i].t # t
               /\ \A i \in DOMAIN buffered : buffered[i].t # t
               /\ \A i \in DOMAIN requests : requests[i].t = t =>
                    \E j \in DOMAIN notices' : notices'[j].k = "TurnStarted" /\ notices'[j].t = t
    <3>1. CASE t = n
      BY <1>2, <3>1
    <3>2. CASE t # n
      <4>1. PICK j \in DOMAIN notices' : notices'[j].k = "TurnStarted" /\ notices'[j].t = t
        BY <1>7, <2>2, <3>2 DEF StartAhead
      <4>2. StartAhead(t) /\ t \in 1 .. turns
        BY <1>1, <1>2, <2>2, <3>2, <4>1 DEF StartAhead
      <4>3. /\ \A i \in DOMAIN seen : seen[i].t # t
            /\ \A i \in DOMAIN buffered : buffered[i].t # t
        BY <4>2 DEF AppInv, StartsFirst
      <4>4. QED
        BY <4>1, <4>3
    <3>3. QED
      BY <3>1, <3>2
  <2>3. QED
    BY <1>1, <1>2, <1>5, <1>6, <2>1, <2>2 DEF StartsFirst
<1>18. OnTime'
  <2>1. ASSUME ~late'
        PROVE  /\ buffered' = <<>> /\ (\A i \in DOMAIN notices' : FALSE)
               /\ \A i \in DOMAIN requests' : FALSE
    BY <1>1, <1>5, <1>7, <1>8, <2>1
  <2>2. QED
    BY <1>1, <1>6, <2>1 DEF OnTime
<1>19. NotEnded' /\ TurnsBracketed'
  <2>1. NotEnded /\ TurnsBracketed
    BY DEF AppInv
  <2>2. \A t : t = n => ~EndRead(t)'
    BY <1>2, <1>5 DEF EndRead, Ends
  <2>3. \A i \in DOMAIN seen : seen[i].t <= n
    BY <1>2
  <2>4. NotEnded'
    BY <1>1, <1>2, <1>5, <1>6, <2>1, <2>2, <2>3 DEF NotEnded, Ends
  <2>5. TurnsBracketed'
    BY <1>1, <1>5, <2>1 DEF TurnsBracketed, Ends
  <2>6. QED
    BY <2>4, <2>5
<1>20. AskedOnce' /\ AnswerJustified' /\ StartsUnlessLate'
  <2>1. AskedOnce /\ AnswerJustified /\ StartsUnlessLate
    BY DEF AppInv
  <2>2. AskedIds' = AskedIds
    BY <1>1, <1>5 DEF AskedIds
  <2>3. AskedOnce'
    BY <1>1, <1>2, <1>5, <2>1, <2>2 DEF AskedOnce
  <2>4. AnswerJustified'
    BY <1>5, <2>1 DEF AnswerJustified
  <2>5. QED
    BY <1>1, <2>1, <2>3, <2>4 DEF StartsUnlessLate
<1>21. WrittenInOrder'
  BY <1>1, <1>2, <1>5, <1>7 DEF AppInv, WrittenInOrder
<1>22. QED
  BY <1>1, <1>4, <1>11, <1>12, <1>13, <1>14, <1>15, <1>16, <1>17, <1>18, <1>19, <1>20, <1>21 DEF AppInv

\* The engine interrupts the active turn; the provider may still report its end.
LEMMA InterruptKeeps ==
  ASSUME AppInv, Interrupt
  PROVE  AppInv'
<1> USE DEF NoTurnId
<1>1. /\ call = "none" /\ active # 0 /\ active' = 0
      /\ IF running.t = active
         THEN /\ running' = Resting
              /\ notices' = Append(notices, Event("TurnFailed", active)) \/ notices' = notices
         ELSE running' = running /\ notices' = notices
      /\ CallsQuiet
      /\ UNCHANGED <<turns, late, compacted, mode, compaction, outstanding, call, accepted, failed>>
  BY DEF Interrupt, Calling
<1>2. UNCHANGED <<requests, written, fragments, reports, buffered, held, seen, answers, decided>>
  BY <1>1 DEF CallsQuiet
<1>3. active = turns /\ turns \notin compacted /\ turns \in Nat /\ ~compaction.on /\ compaction = NoCompaction
  BY <1>1 DEF AppInv, LastTurn, ProviderTypes
<1>4. running' = Resting
  BY <1>1, <1>3 DEF AppInv, LastTurn
<1>5. running' \in Runnings /\ running'.t = 0
  BY <1>4 DEF Resting, Runnings
<1> DEFINE e == Event("TurnFailed", active)
<1>6. e \in AppEvents /\ e.k = "TurnFailed" /\ e.t = active
  <2>1. active \in Nat
    BY DEF AppInv, AdapterTypes
  <2>2. QED
    BY <2>1, EventFields DEF NoticeKinds
<1>7. notices' = notices \/ (running.t = active /\ notices' = Append(notices, e))
  BY <1>1
<1> HIDE DEF e
<1>8. /\ notices' \in Seq(AppEvents)
      /\ \/ notices' = notices
         \/ /\ running.t = active
            /\ \A i \in DOMAIN notices : i \in DOMAIN notices' /\ notices'[i] = notices[i]
            /\ \A i \in DOMAIN notices' : \/ i \in DOMAIN notices /\ notices'[i] = notices[i]
                                          \/ i = Len(notices) + 1 /\ notices'[i] = e
  BY <1>6, <1>7, Appended DEF AppInv, ProviderTypes
<1>9. \A i \in DOMAIN notices' : \/ i \in DOMAIN notices /\ notices'[i] = notices[i]
                                 \/ notices'[i].k = "TurnFailed" /\ notices'[i].t = active
  BY <1>6, <1>8
<1>10. ProviderTypes' /\ AdapterTypes'
  BY <1>1, <1>2, <1>5, <1>8 DEF AppInv, ProviderTypes, AdapterTypes
<1>11. LastTurn'
  BY <1>1, <1>3, <1>4, <1>5 DEF LastTurn
<1>12. NoticesInOrder'
  <2>1. NoticesInOrder
    BY DEF AppInv
  <2>2. CASE notices' = notices
    <3>1. \A i \in DOMAIN notices : Ends(notices[i]) => notices[i].t # 0
      BY <2>1 DEF NoticesInOrder, Ends
    <3>2. QED
      BY <1>1, <1>5, <2>1, <2>2, <3>1 DEF NoticesInOrder, Ends
  <2>3. CASE running.t = active /\ notices' = Append(notices, e)
    <3>1. \A i \in DOMAIN notices : ~(Ends(notices[i]) /\ notices[i].t = active)
      BY <2>1, <2>3 DEF NoticesInOrder
    <3>2. notices \in Seq(AppEvents)
      BY DEF AppInv, ProviderTypes
    <3>3. \A i \in DOMAIN notices : i \in Nat /\ i < Len(notices) + 1 /\ Len(notices) + 1 \in Nat
      BY <3>2
    <3>4. \A i \in DOMAIN notices' : \/ i \in DOMAIN notices /\ notices'[i] = notices[i]
                                     \/ i = Len(notices) + 1 /\ notices'[i] = e
      BY <1>6, <2>3, <3>2, Appended
    <3>5. \A i \in DOMAIN notices' : notices'[i].t <= turns
      BY <1>3, <1>6, <2>1, <3>4 DEF NoticesInOrder
    <3>6. \A i, j \in DOMAIN notices' : i < j => notices'[i].t <= notices'[j].t
      BY <1>3, <1>6, <2>1, <3>3, <3>4 DEF NoticesInOrder
    <3>7. \A i \in DOMAIN notices' : notices'[i].k = "ThreadStarted" <=> notices'[i].t = 0
      BY <1>1, <1>6, <2>1, <3>4 DEF NoticesInOrder
    <3>8. \A i, j \in DOMAIN notices' :
            notices'[i].k = "TurnStarted" /\ notices'[j].t = notices'[i].t => i <= j
      BY <1>6, <2>1, <3>3, <3>4 DEF NoticesInOrder
    <3>9. \A i, j \in DOMAIN notices' : Ends(notices'[i]) /\ notices'[j].t = notices'[i].t => j <= i
      BY <1>6, <2>1, <3>1, <3>3, <3>4 DEF NoticesInOrder, Ends
    <3>10. \A i \in DOMAIN notices' : Ends(notices'[i]) => notices'[i].t # 0
      BY <3>7 DEF Ends
    <3>11. \A i \in DOMAIN notices' : notices'[i].k # "ApprovalRequested"
      BY <1>6, <2>1, <3>4 DEF NoticesInOrder
    <3>12. QED
      BY <1>1, <1>5, <3>5, <3>6, <3>7, <3>8, <3>9, <3>10, <3>11 DEF NoticesInOrder, Ends
  <2>4. QED
    BY <1>7, <2>2, <2>3
<1>13. CompactionKnown' /\ Abandoned'
  <2>1. CompactionKnown
    BY DEF AppInv
  <2>2. \A i \in DOMAIN notices' :
          /\ notices'[i].t \notin compacted
          /\ notices'[i].k \in {"CompactStarted", "CompactDone"} => notices'[i].t \in compacted
    BY <1>3, <1>9, <2>1 DEF CompactionKnown
  <2>3. ~compaction.item /\ ~compaction.completed
    BY <1>3 DEF NoCompaction
  <2>4. CompactionKnown'
    BY <1>1, <1>3, <2>2, <2>3 DEF CompactionKnown
  <2>5. Abandoned'
    BY <1>1, <1>3 DEF Abandoned
  <2>6. QED
    BY <2>4, <2>5
<1>14. KeptEvents'
  <2>1. KeptEvents
    BY DEF AppInv
  <2>2. \A i \in DOMAIN notices' : notices'[i].k # "ThreadStarted"
    BY <1>1, <1>9, <2>1 DEF KeptEvents
  <2>3. \A i \in DOMAIN buffered :
          /\ buffered[i].k \in {"ThreadStarted", "TurnStarted", "TurnCompleted", "TurnFailed"}
          /\ buffered[i].k = "ThreadStarted" <=> buffered[i].t = 0
          /\ buffered[i].t <= turns
    BY <2>1 DEF KeptEvents
  <2>4. /\ Len(buffered) <= 2
        /\ Len(buffered) = 2 => buffered[1].k = "ThreadStarted" /\ buffered[2].k = "TurnStarted"
        /\ held = <<>>
    BY <1>1, <2>1 DEF KeptEvents
  <2>5. turns # 0
    BY <1>1, <1>3
  <2>6. QED
    BY <1>1, <1>2, <2>2, <2>3, <2>4, <2>5 DEF KeptEvents
<1>15. StartsFirst'
  <2>1. ASSUME NEW t \in 1 .. turns, StartAhead(t)'
        PROVE  /\ \A i \in DOMAIN seen : seen[i].t # t
               /\ \A i \in DOMAIN buffered : buffered[i].t # t
               /\ \A i \in DOMAIN requests : requests[i].t = t =>
                    \E j \in DOMAIN notices' : notices'[j].k = "TurnStarted" /\ notices'[j].t = t
    <3>1. PICK j \in DOMAIN notices' : notices'[j].k = "TurnStarted" /\ notices'[j].t = t
      BY <1>5, <2>1 DEF StartAhead
    <3>2. StartAhead(t)
      BY <1>9, <3>1 DEF StartAhead
    <3>3. /\ \A i \in DOMAIN seen : seen[i].t # t
          /\ \A i \in DOMAIN buffered : buffered[i].t # t
      BY <3>2 DEF AppInv, StartsFirst
    <3>4. QED
      BY <3>1, <3>3
  <2>2. QED
    BY <1>1, <1>2, <2>1 DEF StartsFirst
<1>16. OnTime'
  BY <1>1 DEF OnTime
<1>17. NotEnded' /\ TurnsBracketed'
  <2>1. NotEnded /\ TurnsBracketed
    BY DEF AppInv
  <2>2. NotEnded'
    BY <1>1, <1>2, <1>3, <2>1 DEF NotEnded, Ends
  <2>3. TurnsBracketed'
    BY <1>1, <1>2, <2>1 DEF TurnsBracketed, Ends
  <2>4. QED
    BY <2>2, <2>3
<1>18. AskedOnce' /\ AnswerJustified' /\ StartsUnlessLate'
  <2>1. AskedOnce' /\ AnswerJustified'
    BY <1>1, <1>2, RequestsStay
  <2>2. QED
    BY <1>1, <2>1 DEF AppInv, StartsUnlessLate
<1>19. WrittenInOrder'
  BY <1>1, <1>2, <1>5 DEF AppInv, WrittenInOrder
<1>20. \A t \in 1 .. turns' : Completed(t)' => WasRead(t)'
  BY <1>1, <1>2, CompletedStay
<1>21. QED
  BY <1>1, <1>10, <1>11, <1>12, <1>13, <1>14, <1>15, <1>16, <1>17, <1>18, <1>19, <1>20 DEF AppInv

-----------------------------------------------------------------------------
(* The theorems                                                              *)

\* A thread that is not bound has read and written nothing.
LEMMA AppInitInv ==
  ASSUME AppConstants, AppInit
  PROVE  AppInv
<1> USE DEF NoTurnId
<1>1. /\ notices = <<>> /\ requests = <<>> /\ running = Resting /\ turns = 0 /\ written = {}
      /\ compacted = {} /\ active = 0 /\ mode = "Default" /\ compaction = NoCompaction
      /\ outstanding = {} /\ fragments = {} /\ reports = {} /\ buffered = <<>> /\ call = "none"
      /\ held = <<>> /\ late = FALSE /\ seen = <<>> /\ answers = <<>> /\ decided = {} /\ failed = <<>>
  BY DEF AppInit
<1>2. \A i \in DOMAIN <<>> : FALSE
  OBVIOUS
<1>3. ProviderTypes
  BY <1>1 DEF ProviderTypes, Resting, Runnings, AppConstants
<1>4. AdapterTypes
  <2>1. \A S : <<>> \in Seq(S)
    OBVIOUS
  <2>2. NoCompaction \in Compactions /\ "Default" \in PermissionModes
    BY DEF NoCompaction, Compactions, PermissionModes
  <2>3. buffered \in Seq(AppEvents) /\ held \in Seq(AppEvents) /\ seen \in Seq(AppEvents)
    BY <1>1, <2>1
  <2>4. answers \in Seq(Replies) /\ failed \in Seq(Refusals)
    BY <1>1, <2>1
  <2>5. QED
    BY <1>1, <2>2, <2>3, <2>4 DEF AdapterTypes
<1>5. running.t = 0 /\ compaction.on = FALSE /\ compaction.item = FALSE /\ compaction.completed = FALSE
  BY <1>1 DEF Resting, NoCompaction
<1>6. LastTurn /\ NoticesInOrder /\ CompactionKnown /\ Abandoned
  BY <1>1, <1>2, <1>5 DEF LastTurn, NoticesInOrder, CompactionKnown, Abandoned
<1>7. KeptEvents /\ StartsFirst /\ OnTime /\ NotEnded
  BY <1>1, <1>2, <1>5 DEF KeptEvents, StartsFirst, OnTime, NotEnded
<1>8. AskedOnce
  <2>1. AskedIds = {}
    BY <1>1, <1>2 DEF AskedIds
  <2>2. 0 \in Nat /\ AskedIds = 1 .. 0
    BY <2>1
  <2>3. \E n \in Nat : AskedIds = 1 .. n
    BY <2>2
  <2>4. QED
    BY <1>1, <1>2, <2>3 DEF AskedOnce
<1>9. WrittenInOrder /\ AnswerJustified /\ TurnsBracketed /\ StartsUnlessLate
  BY <1>1, <1>2 DEF WrittenInOrder, AnswerJustified, TurnsBracketed, StartsUnlessLate
<1>10. \A t \in 1 .. turns : Completed(t) => WasRead(t)
  BY <1>1
<1>11. QED
  BY <1>1, <1>3, <1>4, <1>6, <1>7, <1>8, <1>9, <1>10 DEF AppInv

\* Every step of the provider, of the engine and of next_event keeps the invariant.
LEMMA AppNextInv ==
  ASSUME AppConstants, AppInv, [AppNext]_appVars
  PROVE  AppInv'
<1>1. CASE Provider
  <2>1. CASE RequestApproval
    BY <2>1, RequestKeeps
  <2>2. CASE ~RequestApproval
    BY <1>1, <2>2, ProviderWrites, WritesKeeps DEF Provider
  <2>3. QED
    BY <2>1, <2>2
<1>2. CASE Engine
  <2>1. CASE Connect
    BY <2>1, SetupKeeps DEF Connect
  <2>2. CASE LoadModels
    BY <2>2, SetupKeeps DEF LoadModels
  <2>3. CASE StartThread
    BY <2>3, SetupKeeps DEF StartThread
  <2>4. CASE ResumeThread
    BY <2>4, SetupKeeps DEF ResumeThread
  <2>5. CASE StartTurn
    BY <2>5, StartTurnKeeps
  <2>6. CASE CompactThread
    BY <2>6, CompactThreadKeeps
  <2>7. CASE CompactAgain
    BY <2>7, AgainKeeps
  <2>8. CASE Interrupt
    BY <2>8, InterruptKeeps
  <2>9. CASE ResolveEffect
    BY <2>9, ResolveKeeps
  <2>10. QED
    BY <1>2, <2>1, <2>2, <2>3, <2>4, <2>5, <2>6, <2>7, <2>8, <2>9 DEF Engine
<1>3. CASE NextEvent
  BY <1>3, BufferedKeeps, NotificationKeeps, NextRequestKeeps DEF NextEvent
<1>4. CASE UNCHANGED appVars
  BY <1>4, AgainKeeps
<1>5. QED
  BY <1>1, <1>2, <1>3, <1>4 DEF AppNext

\* A turn that was read to its end was read exactly.
LEMMA ReadIsExact ==
  ASSUME AppInv
  PROVE  TextExact
<1> USE DEF NoTurnId
<1>1. SUFFICES ASSUME NEW i \in DOMAIN seen, seen[i].k = "TurnCompleted", NEW t, t = seen[i].t
               PROVE  /\ InOrder(t)
                      /\ \A j \in DonesOf(t) :
                           (\A k \in DonesOf(t) : k <= j) => WholeMessage(t, seen[j].m)
  BY DEF TextExact
<1>2. t \in Nat /\ t <= turns /\ turns \in Nat
  BY <1>1, EventNumbers DEF AppInv, AdapterTypes, ProviderTypes, NotEnded
<1>3. CASE t = 0
  <2>1. TextOf(t) = {} /\ DonesOf(t) = {}
    BY <1>3 DEF AppInv, NotEnded, TextOf, DonesOf
  <2>2. QED
    BY <2>1 DEF InOrder
<1>4. CASE t # 0
  <2>1. WasRead(t)
    BY <1>1, <1>2, <1>4 DEF AppInv, Completed
  <2>2. ASSUME NEW j \in DonesOf(t), \A k \in DonesOf(t) : k <= j PROVE WholeMessage(t, seen[j].m)
    <3>1. SUFFICES ASSUME NEW w \in written, w.t = t, w.m = seen[j].m
                   PROVE  \E x \in TextOf(t) : \E y \in DOMAIN seen[x].d : seen[x].d[y] = w.d
      BY DEF WholeMessage
    <3>2. \A k \in DonesOf(t) : k \in Nat /\ seen[k].m \in Nat
      BY Positions, EventNumbers DEF AppInv, AdapterTypes, DonesOf
    <3>3. \A k \in DonesOf(t) : ~(w.m < seen[k].m)
      BY <2>1, <2>2, <3>1, <3>2 DEF WasRead, SeenInOrder
    <3>4. Arrived(w)
      BY <2>1, <3>1 DEF WasRead
    <3>5. QED
      BY <3>1, <3>3, <3>4 DEF Arrived
  <2>3. QED
    BY <2>1, <2>2 DEF WasRead, SeenInOrder
<1>5. QED
  BY <1>3, <1>4

\* What the invariant says of the turns that were read.
LEMMA AdapterIsExact ==
  ASSUME AppConstants, AppInv
  PROVE  TurnsReadExactly
<1> USE DEF NoTurnId
<1>1. active \in {0} \cup TurnIds
  <2>1. active \in Nat /\ turns \in Nat /\ turns <= MaxTurns /\ (active # 0 => active = turns)
    BY DEF AppInv, AdapterTypes, ProviderTypes, LastTurn
  <2>2. QED
    BY <2>1 DEF TurnIds, AppConstants
<1>2. compaction.on => active = 0
  BY DEF AppInv, LastTurn
<1>3. \A r \in outstanding : ~\E i \in DOMAIN answers : answers[i].r = r.r
  BY DEF AppInv, AskedOnce
<1>4. /\ mode \in PermissionModes /\ call \in {"none", "Start", "CompactTurn", "CompactItems"}
      /\ call = "none" => held = <<>>
      /\ call \in {"CompactTurn", "CompactItems"} => compaction.on
      /\ Len(buffered) <= 2
  BY DEF AppInv, AdapterTypes, KeptEvents, StartsFirst
<1>5. AppTypeOK
  BY <1>1, <1>2, <1>3, <1>4 DEF AppTypeOK
<1>6. QED
  BY <1>5, ReadIsExact DEF AppInv, TurnsReadExactly

\* The inductive invariant of the adapter: the two queues, what was withheld of the
\* active turn and what the engine has read together hold, in order, what the provider
\* wrote (app_server.rs, every call and every provider step).
THEOREM AppInvariant ==
  ASSUME AppConstants
  PROVE  AppSpec => []AppInv
<1>1. AppInit => AppInv
  BY AppInitInv
<1>2. AppInv /\ [AppNext]_appVars => AppInv'
  BY AppNextInv
<1>3. QED
  BY <1>1, <1>2, PTL DEF AppSpec

\* The engine reads every turn from its start to its end and nothing after it, the
\* text of its last message whole and in order; a request is answered once, as decided
\* and while its turn is active; a start is refused only for what an interrupted turn
\* left behind - for every number of turns, messages, fragments and requests, and
\* however far the provider runs ahead (next_event, start_turn, compact_thread,
\* resolve_approval).
THEOREM TurnsAreReadExactly ==
  ASSUME AppConstants
  PROVE  AppSpec => []TurnsReadExactly
<1>1. AppInv => TurnsReadExactly
  BY AdapterIsExact
<1>2. QED
  BY <1>1, AppInvariant, PTL

=============================================================================
