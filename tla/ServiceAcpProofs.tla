-------------------------- MODULE ServiceAcpProofs --------------------------
(***************************************************************************)
(* Why the client of the adapter over the service gets the events of its   *)
(* task once and in order, for any number of tasks, events, updates,       *)
(* prompts and connections.  The binding, the copy a handler stores later  *)
(* and the stream that owns the session each hold a pair of cursors; the   *)
(* invariant says of every one of them that what it has passed was sent.   *)
(***************************************************************************)
EXTENDS ServiceAcp, WellFoundedInduction, SequenceTheorems, TLAPS

-----------------------------------------------------------------------------
(* What a cursor has passed.  The operators take the journal, the live     *)
(* updates and what the client received as arguments, so that they can be  *)
(* compared before and after a step.                                       *)

\* An event cursor of task t in journal l: what it has passed of the task was sent.
SentTo(l, o, t, c) ==
  /\ c = 0 \/ (c \in DOMAIN l /\ l[c].task <= t)
  /\ \A n \in DOMAIN l : n <= c /\ l[n].task = t /\ l[n].shown => n \in o.events

\* What the client has received is not above the cursor, unless the cursor was
\* moved back and is not below where it was moved to.
Reached(o, c) == \A m \in o.events : m <= c \/ o.back <= c

\* A live cursor of task t in updates v: what it has passed was sent, covered by
\* a snapshot, or is below the cursor the task was given of the one before it.
LiveTo(v, o, t, c) ==
  /\ c <= Len(v[t]) \/ c <= o.carried[t]
  /\ \A n \in DOMAIN v[t] :
       n <= c /\ v[t][n] # "status" =>
         <<t, n>> \in o.lives \/ n <= o.snapshot[t] \/ n <= o.carried[t]

\* A page read at the stream's cursor leaves nothing out before its own cursor.
PageFits(v, s) ==
  /\ s.page.next <= Len(v[s.task]) \/ s.page.next <= s.live
  /\ s.page.snapshot => s.page.updates = {}
  /\ ~s.page.snapshot =>
       \A n \in DOMAIN v[s.task] : s.live < n /\ n <= s.page.next => n \in s.page.updates
  /\ \A n \in s.page.updates : n <= s.page.next \/ n <= s.live

\* The cursors of a binding, and those of the stream that owns it.
BoundTo(l, v, o, b) ==
  /\ SentTo(l, o, b.task, b.event)
  /\ b.task # 0 => LiveTo(v, o, b.task, b.live)

StreamTo(l, v, o, s) ==
  /\ SentTo(l, o, s.task, s.event) /\ Reached(o, s.event)
  /\ LiveTo(v, o, s.task, s.live)
  /\ s.pc = "live" => PageFits(v, s)

-----------------------------------------------------------------------------
(* The inductive invariant.                                                *)

\* A task starts when every earlier one has ended.
TasksInOrder ==
  \A t, u \in Tasks : t < u /\ taskStatus[u] # "none" => taskStatus[t] = "ended"

\* The journal holds the events of one task after those of another.
LogInOrder ==
  /\ \A n \in DOMAIN log : taskStatus[log[n].task] # "none"
  /\ \A m, n \in DOMAIN log : m <= n => log[m].task <= log[n].task

\* The requests that keep a copy of the binding across an await.
Cloned == {"config", "mode", "status", "steer", "start", "resolve", "clear"}

\* A copy is of the present generation and task, and a session is bound to the
\* last task except between its start and the prompt's binding.
HandlerKnows ==
  /\ handler.op # "idle" => binding.bound
  /\ handler.op \in Cloned =>
       /\ handler.clone.bound /\ handler.clone.task = binding.task
       /\ handler.clone.gen = binding.gen
  /\ handler.op = "bind" =>
       /\ handler.clone.bound /\ handler.clone.task = Current
       /\ Current # 0 /\ binding.task <= Current
  /\ binding.bound /\ handler.op # "bind" => binding.task = Current
  /\ handler.op \in {"replay", "steer", "resolve", "clear"} => Current # 0
  /\ handler.op \in {"resolve", "clear"} => handler.clone.pending # NoPending
  /\ handler.op = "start" => \A t \in Tasks : taskStatus[t] # "none" => taskStatus[t] = "ended"
  /\ binding.pending # NoPending => binding.task # 0
  /\ handler.clone.pending # NoPending => handler.clone.task # 0

\* Generations tell the running streams apart, and there are none without a binding.
StreamsKnow ==
  /\ ~binding.bound => streams = {}
  /\ \A s \in streams : s.gen <= binding.gen /\ s.upto <= Len(log)
  /\ \A s, r \in streams : s.gen = r.gen => s = r
  /\ \A s \in streams : s.page.updates \subseteq DOMAIN live[s.task]

\* Every cursor that may be stored or resumed from has passed only what was sent.
CursorsHold ==
  /\ binding.bound => BoundTo(log, live, out, binding) /\ Reached(out, binding.event)
  /\ handler.op \in {"config", "mode"} => BoundTo(log, live, out, handler.clone)
  /\ \A s \in streams : Owns(s) => s.task = binding.task /\ StreamTo(log, live, out, s)

\* What the client received has no holes, so that it may resume from its last cursor.
NoHoles ==
  /\ out.again = {}
  /\ \A m \in out.events : m \in DOMAIN log /\ SentTo(log, out, log[m].task, m)
  /\ \A u \in out.lives : u[2] \in DOMAIN live[u[1]] /\ LiveTo(live, out, u[1], u[2])
  /\ \A t \in Tasks : out.snapshot[t] <= Len(live[t]) \/ out.snapshot[t] <= out.carried[t]
  /\ \A t \in Tasks : hub[t] <= Len(live[t])

\* The inductive invariant.
AdapterInv ==
  /\ AdapterTypeOK /\ TasksInOrder /\ LogInOrder /\ HandlerKnows
  /\ StreamsKnow /\ CursorsHold /\ NoHoles

-----------------------------------------------------------------------------
(* Largest and least members.                                              *)

\* A set of natural numbers that is not empty has a least member.
LEMMA LeastMember ==
  ASSUME NEW S, S \subseteq Nat, S # {}
  PROVE  \E n \in S : \A m \in S : n <= m
<1> DEFINE R == {p \in Nat \X Nat : p[1] < p[2]}
<1>1. IsWellFoundedOn(R, Nat)
  BY NatLessThanWellFounded, Zenon DEF OpToRel
<1>2. PICK n \in S : \A m \in S : <<m, n>> \notin R
  <2> HIDE DEF R
  <2>1. QED
    BY <1>1, WFMin, Zenon
<1>3. ASSUME NEW m \in S PROVE n <= m
  <2>1. m \in Nat /\ n \in Nat
    OBVIOUS
  <2>2. ASSUME m < n PROVE <<m, n>> \in R
    BY <2>1, <2>2
  <2>3. QED
    BY <1>2, <2>1, <2>2
<1>4. QED
  BY <1>3

\* Min of such a set is that member.
LEMMA MinIsLeast ==
  ASSUME NEW S, S \subseteq Nat, S # {}
  PROVE  Min(S) \in S /\ \A m \in S : Min(S) <= m
<1>1. \E n \in S : \A m \in S : n <= m
  BY LeastMember
<1>2. QED
  BY <1>1 DEF Min

\* Max of a bounded set is its largest member.
LEMMA MaxIsLargest ==
  ASSUME NEW S, S \subseteq Nat, S # {}, NEW K \in Nat, \A m \in S : m <= K
  PROVE  Max(S) \in S /\ \A m \in S : m <= Max(S)
<1> DEFINE U == {k \in Nat : \A m \in S : m <= k}
<1>1. PICK k \in U : \A j \in U : k <= j
  <2>1. K \in U /\ U \subseteq Nat
    OBVIOUS
  <2> HIDE DEF U
  <2>2. QED
    BY <2>1, LeastMember
<1>2. k \in S
  <2>1. PICK m \in S : TRUE
    OBVIOUS
  <2>2. ASSUME k \notin S PROVE FALSE
    <3>1. \A j \in S : j <= k /\ j # k /\ j \in Nat
      BY <2>2
    <3>2. k # 0
      BY <3>1, <2>1
    <3>3. k - 1 \in U
      BY <3>1, <3>2
    <3>4. QED
      BY <1>1, <3>3
  <2>3. QED
    BY <2>2
<1>3. \E n \in S : \A m \in S : n >= m
  BY <1>1, <1>2
<1>4. Max(S) \in S /\ \A m \in S : Max(S) >= m
  BY <1>3 DEF Max
<1>5. QED
  BY <1>4

-----------------------------------------------------------------------------
(* Cursors keep their promise while journal and updates grow.              *)

\* A journal, the updates of every task and what the client received only grow.
LogGrows(l, k) == Len(l) <= Len(k) /\ \A n \in DOMAIN l : k[n] = l[n]
LivesGrow(v, w) ==
  \A t \in Tasks : Len(v[t]) <= Len(w[t]) /\ \A n \in DOMAIN v[t] : w[t][n] = v[t][n]
OutGrows(o, p) ==
  /\ o.events \subseteq p.events /\ o.lives \subseteq p.lives
  /\ \A t \in Tasks : o.snapshot[t] <= p.snapshot[t] /\ o.carried[t] <= p.carried[t]

\* An event cursor stays good.
LEMMA SentGrows ==
  ASSUME NEW l \in Seq(Events), NEW k \in Seq(Events), LogGrows(l, k),
         NEW o \in Received, NEW p \in Received, o.events \subseteq p.events,
         NEW t \in Nat, NEW c \in Nat, SentTo(l, o, t, c)
  PROVE  SentTo(k, p, t, c)
<1>1. DOMAIN l = 1..Len(l) /\ DOMAIN k = 1..Len(k) /\ Len(l) \in Nat /\ Len(k) \in Nat
  OBVIOUS
<1>2. c = 0 \/ (c \in DOMAIN k /\ k[c].task <= t)
  BY <1>1 DEF SentTo, LogGrows
<1>3. ASSUME NEW n \in DOMAIN k, n <= c, k[n].task = t, k[n].shown PROVE n \in p.events
  <2>1. n \in DOMAIN l
    BY <1>1, <1>3 DEF SentTo
  <2>2. k[n] = l[n]
    BY <2>1 DEF LogGrows
  <2>3. QED
    BY <1>3, <2>1, <2>2 DEF SentTo
<1>4. QED
  BY <1>2, <1>3 DEF SentTo

\* A live cursor stays good.
LEMMA LiveGrows ==
  ASSUME NEW v \in [Tasks -> Seq(LiveKinds)], NEW w \in [Tasks -> Seq(LiveKinds)], LivesGrow(v, w),
         NEW o \in Received, NEW p \in Received, OutGrows(o, p),
         NEW t \in Tasks, NEW c \in Nat, LiveTo(v, o, t, c)
  PROVE  LiveTo(w, p, t, c)
<1>1. /\ DOMAIN v[t] = 1..Len(v[t]) /\ DOMAIN w[t] = 1..Len(w[t])
      /\ Len(v[t]) \in Nat /\ Len(w[t]) \in Nat
  BY Zenon, LenProperties
<1>2. Len(v[t]) <= Len(w[t]) /\ \A n \in DOMAIN v[t] : w[t][n] = v[t][n]
  BY DEF LivesGrow
<1>3. /\ o.snapshot[t] \in Nat /\ o.carried[t] \in Nat /\ p.snapshot[t] \in Nat /\ p.carried[t] \in Nat
      /\ o.snapshot[t] <= p.snapshot[t] /\ o.carried[t] <= p.carried[t]
  BY DEF OutGrows, Received
<1>4. c <= Len(w[t]) \/ c <= p.carried[t]
  BY <1>1, <1>2, <1>3 DEF LiveTo
<1>5. ASSUME NEW n \in DOMAIN w[t], n <= c, w[t][n] # "status"
      PROVE  <<t, n>> \in p.lives \/ n <= p.snapshot[t] \/ n <= p.carried[t]
  <2>1. CASE n \in DOMAIN v[t]
    <3>1. v[t][n] # "status"
      BY <1>2, <1>5, <2>1
    <3>2. <<t, n>> \in o.lives \/ n <= o.snapshot[t] \/ n <= o.carried[t]
      BY <1>5, <2>1, <3>1 DEF LiveTo
    <3>3. <<t, n>> \in o.lives => <<t, n>> \in p.lives
      BY DEF OutGrows
    <3>4. n \in Nat
      BY <1>1
    <3>5. QED
      BY <1>3, <3>2, <3>3, <3>4
  <2>2. CASE n \notin DOMAIN v[t]
    <3>1. n > Len(v[t]) /\ n \in Nat
      BY <1>1, <2>2
    <3>2. c <= o.carried[t]
      BY <1>1, <1>5, <3>1 DEF LiveTo
    <3>3. QED
      BY <1>3, <1>5, <3>1, <3>2
  <2>3. QED
    BY <2>1, <2>2
<1>6. QED
  BY <1>4, <1>5 DEF LiveTo

\* A page that was read stays good.
LEMMA PageGrows ==
  ASSUME NEW v \in [Tasks -> Seq(LiveKinds)], NEW w \in [Tasks -> Seq(LiveKinds)], LivesGrow(v, w),
         NEW s \in Streams, PageFits(v, s)
  PROVE  PageFits(w, s)
<1>1. s.task \in Tasks /\ s.live \in Nat /\ s.page.next \in Nat /\ s.page.updates \subseteq Nat
  BY DEF Streams, Pages
<1>2. /\ DOMAIN v[s.task] = 1..Len(v[s.task]) /\ DOMAIN w[s.task] = 1..Len(w[s.task])
      /\ Len(v[s.task]) \in Nat /\ Len(w[s.task]) \in Nat
  BY <1>1, LenProperties, Zenon
<1>3. Len(v[s.task]) <= Len(w[s.task])
  BY <1>1 DEF LivesGrow
<1>4. s.page.next <= Len(w[s.task]) \/ s.page.next <= s.live
  BY <1>1, <1>2, <1>3 DEF PageFits
<1>5. ASSUME ~s.page.snapshot, NEW n \in DOMAIN w[s.task], s.live < n, n <= s.page.next
      PROVE  n \in s.page.updates
  <2>1. n \in DOMAIN v[s.task]
    BY <1>1, <1>2, <1>5 DEF PageFits
  <2>2. QED
    BY <1>5, <2>1 DEF PageFits
<1>6. QED
  BY <1>4, <1>5 DEF PageFits

\* The cursors of a binding, and of a stream, stay good.
LEMMA BoundGrows ==
  ASSUME NEW l \in Seq(Events), NEW k \in Seq(Events), LogGrows(l, k),
         NEW v \in [Tasks -> Seq(LiveKinds)], NEW w \in [Tasks -> Seq(LiveKinds)], LivesGrow(v, w),
         NEW o \in Received, NEW p \in Received, OutGrows(o, p),
         NEW b \in Bindings, AdapterConstants, BoundTo(l, v, o, b)
  PROVE  BoundTo(k, w, p, b)
<1>1. b.task \in 0..MaxTask /\ b.event \in Nat /\ b.live \in Nat /\ o.events \subseteq p.events
  BY DEF Bindings, OutGrows
<1>2. b.task \in Nat /\ (b.task # 0 => b.task \in Tasks)
  BY <1>1 DEF AdapterConstants, Tasks
<1>3. SentTo(k, p, b.task, b.event)
  BY <1>1, <1>2, SentGrows DEF BoundTo
<1>4. b.task # 0 => LiveTo(w, p, b.task, b.live)
  BY <1>1, <1>2, LiveGrows DEF BoundTo
<1>5. QED
  BY <1>3, <1>4 DEF BoundTo

\* Likewise the cursors of the stream that owns the session.
LEMMA StreamGrows ==
  ASSUME NEW l \in Seq(Events), NEW k \in Seq(Events), LogGrows(l, k),
         NEW v \in [Tasks -> Seq(LiveKinds)], NEW w \in [Tasks -> Seq(LiveKinds)], LivesGrow(v, w),
         NEW o \in Received, NEW p \in Received, OutGrows(o, p),
         NEW s \in Streams, AdapterConstants, StreamTo(l, v, o, s), Reached(p, s.event)
  PROVE  StreamTo(k, w, p, s)
<1>1. s.task \in Tasks /\ s.event \in Nat /\ s.live \in Nat /\ o.events \subseteq p.events
  BY DEF Streams, OutGrows
<1>2. s.task \in Nat
  BY <1>1 DEF AdapterConstants, Tasks
<1>3. SentTo(k, p, s.task, s.event)
  BY <1>1, <1>2, SentGrows DEF StreamTo
<1>4. LiveTo(w, p, s.task, s.live)
  BY <1>1, LiveGrows DEF StreamTo
<1>5. s.pc = "live" => PageFits(w, s)
  BY PageGrows DEF StreamTo
<1>6. QED
  BY <1>3, <1>4, <1>5 DEF StreamTo

-----------------------------------------------------------------------------
(* The last task.                                                          *)

\* The last task that was started by statuses st, 0 when there is none.
LastOf(st) == Max({0} \cup {t \in Tasks : st[t] # "none"})

\* It is what its name says.
LEMMA LastIsLast ==
  ASSUME AdapterConstants, NEW st
  PROVE  /\ LastOf(st) \in 0..MaxTask
         /\ LastOf(st) # 0 => LastOf(st) \in Tasks /\ st[LastOf(st)] # "none"
         /\ \A t \in Tasks : st[t] # "none" => t <= LastOf(st)
<1> DEFINE S == {0} \cup {t \in Tasks : st[t] # "none"}
<1>1. S \subseteq Nat /\ S # {} /\ MaxTask \in Nat /\ \A m \in S : m <= MaxTask
  BY DEF Tasks, AdapterConstants
<1>2. Max(S) \in S /\ \A m \in S : m <= Max(S)
  <2> HIDE DEF S
  <2>1. QED
    BY <1>1, MaxIsLargest
<1>3. LastOf(st) = Max(S)
  BY DEF LastOf
<1>4. QED
  BY <1>1, <1>2, <1>3 DEF Tasks

\* So is Current.
LEMMA CurrentIsLast ==
  ASSUME AdapterConstants
  PROVE  /\ Current \in 0..MaxTask
         /\ Current # 0 => Current \in Tasks /\ taskStatus[Current] # "none"
         /\ \A t \in Tasks : taskStatus[t] # "none" => t <= Current
<1>1. Current = LastOf(taskStatus)
  BY DEF Current, Started, LastOf
<1>2. QED
  BY <1>1, LastIsLast

\* It stays the same while no task starts.
LEMMA CurrentStays ==
  ASSUME \A t \in Tasks : taskStatus'[t] = "none" <=> taskStatus[t] = "none"
  PROVE  Current' = Current
<1>1. Started' = Started
  BY DEF Started
<1>2. QED
  BY <1>1 DEF Current

\* Tasks that only stop, resume or end stay in order, and so does what the
\* handler knows of them.
LEMMA StatusMoves ==
  ASSUME AdapterConstants, AdapterTypeOK, TasksInOrder,
         taskStatus' \in [Tasks -> {"none", "active", "paused", "ended"}],
         \A t \in Tasks : /\ taskStatus'[t] = "none" <=> taskStatus[t] = "none"
                          /\ taskStatus[t] = "ended" => taskStatus'[t] = "ended"
  PROVE  /\ TasksInOrder'
         /\ Current' = Current
         /\ HandlerKnows /\ handler' = handler /\ binding' = binding => HandlerKnows'
<1>1. Current' = Current
  BY CurrentStays
<1>2. TasksInOrder'
  BY DEF TasksInOrder
<1>3. ASSUME HandlerKnows, handler' = handler, binding' = binding PROVE HandlerKnows'
  <2>1. handler'.op = "start" => \A t \in Tasks : taskStatus'[t] # "none" => taskStatus'[t] = "ended"
    BY <1>3 DEF HandlerKnows
  <2>2. QED
    BY <1>1, <1>3, <2>1 DEF HandlerKnows
<1>4. QED
  BY <1>1, <1>2, <1>3

\* An event of a task that has not ended comes after those of every other task.
LEMMA LogAppends ==
  ASSUME AdapterConstants, AdapterTypeOK, TasksInOrder, LogInOrder,
         NEW e \in Events, log' = Append(log, e),
         taskStatus' \in [Tasks -> {"none", "active", "paused", "ended"}],
         \A t \in Tasks : taskStatus[t] # "none" => taskStatus'[t] # "none",
         taskStatus'[e.task] # "none",
         \A t \in Tasks : taskStatus[t] # "none" => t <= e.task
  PROVE  LogInOrder' /\ log' \in Seq(Events) /\ LogGrows(log, log')
<1>1. /\ log \in Seq(Events) /\ Len(log) \in Nat /\ DOMAIN log = 1..Len(log)
      /\ log' \in Seq(Events) /\ Len(log') = Len(log) + 1 /\ DOMAIN log' = 1..(Len(log) + 1)
      /\ log'[Len(log) + 1] = e /\ \A n \in DOMAIN log : log'[n] = log[n]
  BY DEF AdapterTypeOK
<1>2. LogGrows(log, log')
  BY <1>1 DEF LogGrows
<1>3. \A n \in DOMAIN log' : n \in DOMAIN log \/ n = Len(log) + 1
  BY <1>1
<1>4. \A n \in DOMAIN log : log[n].task \in Tasks /\ taskStatus[log[n].task] # "none"
  <2> TAKE n \in DOMAIN log
  <2>1. log[n] \in Events
    BY <1>1, ElementOfSeq
  <2>2. log[n].task \in Tasks
    BY <2>1 DEF Events
  <2>3. QED
    BY <2>2 DEF LogInOrder
<1>5. e.task \in Tasks /\ Tasks \subseteq Nat
  BY DEF Events, Tasks, AdapterConstants
<1>6. \A n \in DOMAIN log' : taskStatus'[log'[n].task] # "none"
  BY <1>1, <1>3, <1>4, <1>5
<1>7. ASSUME NEW m \in DOMAIN log', NEW n \in DOMAIN log', m <= n
      PROVE  log'[m].task <= log'[n].task
  <2>1. CASE n \in DOMAIN log
    <3>1. m \in DOMAIN log
      BY <1>1, <1>7, <2>1
    <3>2. QED
      BY <1>1, <1>7, <2>1, <3>1 DEF LogInOrder
  <2>2. CASE n = Len(log) + 1
    <3>1. CASE m \in DOMAIN log
      BY <1>1, <1>4, <2>2, <3>1
    <3>2. CASE m = Len(log) + 1
      <4>1. log'[m].task = e.task /\ log'[n].task = e.task
        BY <1>1, <2>2, <3>2
      <4>2. e.task \in Nat
        BY <1>5
      <4>3. QED
        BY <4>1, <4>2
    <3>3. QED
      BY <1>3, <3>1, <3>2
  <2>3. QED
    BY <1>3, <2>1, <2>2
<1>8. QED
  BY <1>1, <1>2, <1>6, <1>7 DEF LogInOrder

\* Tasks in order: every task that started is at most one that has not ended.
LEMMA LiveTaskIsLast ==
  ASSUME AdapterConstants, TasksInOrder, NEW t \in Tasks, taskStatus[t] \in {"active", "paused"}
  PROVE  \A u \in Tasks : taskStatus[u] # "none" => u <= t
BY DEF TasksInOrder, Tasks, AdapterConstants

\* Streams, cursors and memory survive what happens behind the adapter.
LEMMA OwnerGrows ==
  ASSUME AdapterConstants, AdapterTypeOK, StreamsKnow, CursorsHold, NoHoles,
         log' \in Seq(Events), LogGrows(log, log'),
         live' \in [Tasks -> Seq(LiveKinds)], LivesGrow(live, live'),
         \A t \in Tasks : hub'[t] <= Len(live'[t]),
         binding' = binding, streams' = streams, out' = out,
         handler'.op \in {"config", "mode"} => handler' = handler
  PROVE  StreamsKnow' /\ CursorsHold' /\ NoHoles'
<1>1. /\ log \in Seq(Events) /\ live \in [Tasks -> Seq(LiveKinds)] /\ out \in Received
      /\ binding \in Bindings /\ handler.clone \in Bindings /\ streams \subseteq Streams
  BY DEF AdapterTypeOK
<1>2. OutGrows(out, out)
  BY <1>1 DEF OutGrows, Received
<1>3. /\ Len(log) \in Nat /\ Len(log') \in Nat /\ DOMAIN log = 1..Len(log) /\ DOMAIN log' = 1..Len(log')
      /\ Len(log) <= Len(log')
  BY <1>1 DEF LogGrows
<1>4. \A t \in Tasks : /\ Len(live[t]) \in Nat /\ DOMAIN live[t] = 1..Len(live[t])
                       /\ Len(live'[t]) \in Nat /\ DOMAIN live'[t] = 1..Len(live'[t])
                       /\ Len(live[t]) <= Len(live'[t])
  <2> TAKE t \in Tasks
  <2>1. live[t] \in Seq(LiveKinds) /\ live'[t] \in Seq(LiveKinds)
    BY <1>1
  <2>2. Len(live[t]) <= Len(live'[t])
    BY DEF LivesGrow
  <2>3. QED
    BY <2>1, <2>2, LenProperties
<1>5. StreamsKnow'
  <2>1. \A s \in streams : s.upto \in Nat /\ s.task \in Tasks
    BY <1>1 DEF Streams
  <2>2. \A s \in streams : s.upto <= Len(log')
    BY <1>3, <2>1 DEF StreamsKnow
  <2>3. \A s \in streams : s.page.updates \subseteq DOMAIN live'[s.task]
    <3> TAKE s \in streams
    <3>1. s.page.updates \subseteq DOMAIN live[s.task] /\ s.task \in Tasks
      BY <2>1 DEF StreamsKnow
    <3>2. DOMAIN live[s.task] \subseteq DOMAIN live'[s.task]
      BY <1>4, <3>1
    <3>3. QED
      BY <3>1, <3>2
  <2>4. QED
    BY <2>2, <2>3 DEF StreamsKnow
<1>6. binding.bound => BoundTo(log', live', out, binding) /\ Reached(out, binding.event)
  BY <1>1, <1>2, BoundGrows DEF CursorsHold
<1>7. handler.op \in {"config", "mode"} => BoundTo(log', live', out, handler.clone)
  BY <1>1, <1>2, BoundGrows DEF CursorsHold
<1>8. ASSUME NEW s \in streams, Owns(s)
      PROVE  s.task = binding.task /\ StreamTo(log', live', out, s)
  <2>1. s.task = binding.task /\ StreamTo(log, live, out, s) /\ Reached(out, s.event) /\ s \in Streams
    BY <1>1, <1>8 DEF CursorsHold, StreamTo
  <2>2. QED
    BY <1>1, <1>2, <2>1, StreamGrows
<1>9. CursorsHold'
  BY <1>6, <1>7, <1>8 DEF CursorsHold, Owns
<1>10. \A m \in out.events : m \in DOMAIN log' /\ SentTo(log', out, log'[m].task, m)
  <2> TAKE m \in out.events
  <2>1. m \in DOMAIN log /\ SentTo(log, out, log[m].task, m)
    BY DEF NoHoles
  <2>2. log'[m] = log[m] /\ m \in DOMAIN log'
    BY <1>3, <2>1 DEF LogGrows
  <2>3. log[m].task \in Nat /\ m \in Nat
    <3>1. log[m] \in Events
      BY <1>1, <1>3, <2>1, ElementOfSeq
    <3>2. QED
      BY <1>3, <2>1, <3>1 DEF Events, Tasks, AdapterConstants
  <2>4. SentTo(log', out, log[m].task, m)
    BY <1>1, <2>1, <2>3, SentGrows
  <2>5. QED
    BY <2>2, <2>4
<1>11. \A u \in out.lives : u[2] \in DOMAIN live'[u[1]] /\ LiveTo(live', out, u[1], u[2])
  <2> TAKE u \in out.lives
  <2>1. u[1] \in Tasks /\ u[2] \in Nat
    BY <1>1 DEF Received
  <2>2. u[2] \in DOMAIN live[u[1]] /\ LiveTo(live, out, u[1], u[2])
    BY DEF NoHoles
  <2>3. u[2] \in DOMAIN live'[u[1]]
    BY <1>4, <2>1, <2>2
  <2>4. QED
    BY <1>1, <1>2, <2>1, <2>2, <2>3, LiveGrows
<1>12. \A t \in Tasks : out.snapshot[t] <= Len(live'[t]) \/ out.snapshot[t] <= out.carried[t]
  <2> TAKE t \in Tasks
  <2>1. out.snapshot[t] \in Nat /\ out.carried[t] \in Nat
    BY <1>1 DEF Received
  <2>2. QED
    <3>1. out.snapshot[t] <= Len(live[t]) \/ out.snapshot[t] <= out.carried[t]
      BY DEF NoHoles
    <3>2. Len(live[t]) \in Nat /\ Len(live'[t]) \in Nat /\ Len(live[t]) <= Len(live'[t])
      BY <1>4
    <3>3. QED
      BY <2>1, <3>1, <3>2
<1>13. NoHoles'
  BY <1>10, <1>11, <1>12 DEF NoHoles
<1>14. QED
  BY <1>5, <1>9, <1>13

-----------------------------------------------------------------------------
(* The engine behind the service.                                          *)

\* What the engine may do: it only adds to the journal and to the updates.
EngineAdds ==
  /\ taskStatus' \in [Tasks -> {"none", "active", "paused", "ended"}]
  /\ \A t \in Tasks : /\ taskStatus'[t] = "none" <=> taskStatus[t] = "none"
                      /\ taskStatus[t] = "ended" => taskStatus'[t] = "ended"
  /\ log' \in Seq(Events) /\ LogGrows(log, log') /\ LogInOrder'
  /\ live' \in [Tasks -> Seq(LiveKinds)] /\ LivesGrow(live, live')
  /\ hub' \in [Tasks -> Nat] /\ \A t \in Tasks : hub'[t] <= Len(live'[t])
  /\ awaited' \in [Tasks -> Nat] /\ overflow' \in Nat /\ observed' \in [Tasks -> Nat]

\* While the adapter stands still, that keeps the invariant.
LEMMA EngineKeeps ==
  ASSUME AdapterConstants, AdapterInv, EngineAdds, UNCHANGED <<sessionVars, prompts, out>>
  PROVE  AdapterInv'
<1> USE DEF AdapterInv
<1>1. /\ open' = open /\ conn' = conn /\ loads' = loads /\ binding' = binding
      /\ handler' = handler /\ streams' = streams /\ prompts' = prompts /\ out' = out
  BY DEF sessionVars
<1>2. AdapterTypeOK'
  BY <1>1 DEF AdapterTypeOK, EngineAdds
<1>3. TasksInOrder' /\ HandlerKnows'
  BY <1>1, StatusMoves DEF EngineAdds
<1>4. StreamsKnow' /\ CursorsHold' /\ NoHoles'
  BY <1>1, OwnerGrows DEF EngineAdds
<1>5. QED
  BY <1>2, <1>3, <1>4 DEF EngineAdds

\* A journal and updates that do not change have grown.
LEMMA NothingNew ==
  ASSUME AdapterTypeOK
  PROVE  LogGrows(log, log) /\ LivesGrow(live, live)
<1>1. Len(log) \in Nat
  BY DEF AdapterTypeOK
<1>2. ASSUME NEW t \in Tasks PROVE Len(live[t]) \in Nat
  BY LenProperties DEF AdapterTypeOK
<1>3. QED
  BY <1>1, <1>2 DEF LogGrows, LivesGrow

\* A task takes an event and perhaps another status.
LEMMA EngineAppends ==
  ASSUME AdapterConstants, AdapterInv, NEW t \in Tasks, taskStatus[t] \in {"active", "paused"},
         NEW shown \in BOOLEAN, log' = Append(log, [task |-> t, shown |-> shown]),
         NEW to \in {"active", "paused", "ended"}, taskStatus' = [taskStatus EXCEPT ![t] = to],
         live' = live, hub' = hub, awaited' \in [Tasks -> Nat], overflow' = overflow,
         observed' = observed
  PROVE  EngineAdds
<1> USE DEF AdapterInv
<1> DEFINE e == [task |-> t, shown |-> shown]
<1>1. e \in Events /\ e.task = t
  BY DEF Events
<1>2. taskStatus \in [Tasks -> {"none", "active", "paused", "ended"}]
  BY DEF AdapterTypeOK
<1>3. /\ taskStatus' \in [Tasks -> {"none", "active", "paused", "ended"}]
      /\ \A u \in Tasks : /\ taskStatus'[u] = "none" <=> taskStatus[u] = "none"
                          /\ taskStatus[u] = "ended" => taskStatus'[u] = "ended"
  BY <1>2
<1>4. LogInOrder' /\ log' \in Seq(Events) /\ LogGrows(log, log')
  <2>1. \A u \in Tasks : taskStatus[u] # "none" => u <= t
    BY LiveTaskIsLast
  <2>2. taskStatus'[e.task] # "none" /\ log' = Append(log, e)
    BY <1>1, <1>2
  <2> HIDE DEF e
  <2>3. QED
    BY <1>1, <1>3, <2>1, <2>2, LogAppends
<1>5. hub \in [Tasks -> Nat] /\ (\A u \in Tasks : hub[u] <= Len(live[u])) /\ LivesGrow(live, live)
  BY NothingNew DEF AdapterTypeOK, NoHoles
<1>6. QED
  BY <1>3, <1>4, <1>5 DEF EngineAdds, AdapterTypeOK

\* A task publishes an update (LiveUpdateHub.publish).
LEMMA EnginePublishes ==
  ASSUME AdapterConstants, AdapterInv, NEW t \in Tasks, NEW kind \in LiveKinds,
         PublishLive(t, kind), taskStatus' = taskStatus, log' = log,
         awaited' \in [Tasks -> Nat], overflow' = overflow, observed' = observed
  PROVE  EngineAdds
<1> USE DEF AdapterInv
<1>1. live \in [Tasks -> Seq(LiveKinds)] /\ hub \in [Tasks -> Nat] /\ live[t] \in Seq(LiveKinds)
  BY DEF AdapterTypeOK
<1>2. /\ Len(live[t]) \in Nat /\ Append(live[t], kind) \in Seq(LiveKinds)
      /\ Len(Append(live[t], kind)) = Len(live[t]) + 1
      /\ \A n \in DOMAIN live[t] : Append(live[t], kind)[n] = live[t][n]
  BY <1>1
<1>3. /\ live' \in [Tasks -> Seq(LiveKinds)] /\ live'[t] = Append(live[t], kind)
      /\ \A u \in Tasks : u # t => live'[u] = live[u]
  BY <1>1, <1>2 DEF PublishLive
<1>4. \A u \in Tasks : Len(live[u]) \in Nat
  BY <1>1, LenProperties
<1>5. LivesGrow(live, live')
  <2>1. ASSUME NEW u \in Tasks
        PROVE  Len(live[u]) <= Len(live'[u]) /\ \A n \in DOMAIN live[u] : live'[u][n] = live[u][n]
    <3>1. CASE u = t
      <4>1. Len(live'[t]) = Len(live[t]) + 1
        BY <1>2, <1>3
      <4>2. Len(live[t]) <= Len(live'[t])
        BY <1>2, <4>1
      <4>3. \A n \in DOMAIN live[t] : live'[t][n] = live[t][n]
        BY <1>2, <1>3
      <4>4. QED
        BY <3>1, <4>2, <4>3
    <3>2. CASE u # t
      BY <1>3, <1>4, <3>2
    <3>3. QED
      BY <3>1, <3>2
  <2>2. QED
    BY <2>1 DEF LivesGrow
<1>6. hub' \in [Tasks -> Nat] /\ \A u \in Tasks : hub'[u] <= Len(live'[u])
  <2>1. \A u \in Tasks : hub[u] \in Nat /\ hub[u] <= Len(live[u])
    BY <1>1 DEF NoHoles
  <2>2. CASE kind = "approval"
    <3>1. hub' = [hub EXCEPT ![t] = Len(live[t]) + 1]
      BY <2>2 DEF PublishLive
    <3>2. hub' \in [Tasks -> Nat]
      BY <1>1, <1>2, <3>1
    <3>3. \A u \in Tasks : hub'[u] = IF u = t THEN Len(live[t]) + 1 ELSE hub[u]
      BY <1>1, <3>1
    <3>4. ASSUME NEW u \in Tasks PROVE hub'[u] <= Len(live'[u])
      <4>1. CASE u = t
        <5>1. Len(live'[t]) = Len(live[t]) + 1
          BY <1>2, <1>3
        <5>2. QED
          BY <1>2, <3>3, <4>1, <5>1
      <4>2. CASE u # t
        BY <1>3, <2>1, <3>3, <4>2
      <4>3. QED
        BY <4>1, <4>2
    <3>5. QED
      BY <3>2, <3>4
  <2>3. CASE kind # "approval"
    <3>1. hub' = hub
      BY <2>3 DEF PublishLive
    <3>2. ASSUME NEW u \in Tasks PROVE hub[u] <= Len(live'[u])
      <4>1. hub[u] \in Nat /\ hub[u] <= Len(live[u]) /\ Len(live[u]) \in Nat
        BY <1>4, <2>1
      <4>2. CASE u = t
        BY <1>2, <1>3, <4>1, <4>2
      <4>3. CASE u # t
        BY <1>3, <4>1, <4>3
      <4>4. QED
        BY <4>2, <4>3
    <3>3. QED
      BY <1>1, <3>1, <3>2
  <2>4. QED
    BY <2>2, <2>3
<1>7. /\ taskStatus' \in [Tasks -> {"none", "active", "paused", "ended"}]
      /\ log' \in Seq(Events) /\ LogGrows(log, log') /\ LogInOrder' /\ overflow' \in Nat
      /\ observed' \in [Tasks -> Nat]
  BY NothingNew DEF AdapterTypeOK, LogInOrder
<1>8. QED
  BY <1>3, <1>5, <1>6, <1>7 DEF EngineAdds

\* The invariant survives every step of a task.
LEMMA EngineStep ==
  ASSUME AdapterConstants, AdapterInv, NEW t \in Tasks, Engine(t)
  PROVE  AdapterInv'
<1> USE DEF AdapterInv
<1>0. /\ taskStatus \in [Tasks -> {"none", "active", "paused", "ended"}] /\ awaited \in [Tasks -> Nat]
      /\ Len(live[t]) \in Nat /\ live[t] \in Seq(LiveKinds)
  BY LenProperties DEF AdapterTypeOK
<1>1. CASE OwnerEvent(t)
  <2>1. PICK shown \in BOOLEAN : log' = Append(log, [task |-> t, shown |-> shown])
    BY <1>1 DEF OwnerEvent
  <2>2. taskStatus' = [taskStatus EXCEPT ![t] = "active"] /\ taskStatus[t] \in {"active", "paused"}
    BY <1>0, <1>1 DEF OwnerEvent
  <2>3. /\ live' = live /\ hub' = hub /\ awaited' \in [Tasks -> Nat] /\ overflow' = overflow
        /\ observed' = observed /\ UNCHANGED <<sessionVars, prompts, out>>
    BY <1>0, <1>1 DEF OwnerEvent, OwnerUnchanged
  <2>4. "active" \in {"active", "paused", "ended"}
    OBVIOUS
  <2>5. EngineAdds
    BY <2>1, <2>2, <2>3, <2>4, EngineAppends
  <2>6. QED
    BY <2>3, <2>5, EngineKeeps
<1>2. CASE OwnerLive(t)
  <2>1. PICK kind \in LiveKinds : PublishLive(t, kind)
    BY <1>2 DEF OwnerLive, LiveKinds
  <2>2. /\ taskStatus' = taskStatus /\ log' = log /\ awaited' \in [Tasks -> Nat]
        /\ overflow' = overflow /\ observed' = observed /\ UNCHANGED <<sessionVars, prompts, out>>
    BY <1>0, <1>2 DEF OwnerLive, OwnerUnchanged
  <2>3. QED
    BY <2>1, <2>2, EnginePublishes, EngineKeeps
<1>3. CASE OwnerApproval(t)
  <2>1. PublishLive(t, "approval") /\ "approval" \in LiveKinds
    BY <1>3 DEF OwnerApproval, LiveKinds
  <2>2. /\ taskStatus' = taskStatus /\ log' = log /\ awaited' \in [Tasks -> Nat]
        /\ overflow' = overflow /\ observed' = observed /\ UNCHANGED <<sessionVars, prompts, out>>
    BY <1>0, <1>3 DEF OwnerApproval, OwnerUnchanged
  <2>3. QED
    BY <2>1, <2>2, EnginePublishes, EngineKeeps
<1>4. CASE OwnerStop(t)
  <2>1. PICK to \in {"active", "paused", "ended"} : taskStatus' = [taskStatus EXCEPT ![t] = to]
    BY <1>4 DEF OwnerStop
  <2>2. log' = Append(log, [task |-> t, shown |-> TRUE]) /\ taskStatus[t] \in {"active", "paused"}
    BY <1>4 DEF OwnerStop
  <2>3. /\ live' = live /\ hub' = hub /\ awaited' \in [Tasks -> Nat] /\ overflow' = overflow
        /\ observed' = observed /\ UNCHANGED <<sessionVars, prompts, out>>
    BY <1>0, <1>4 DEF OwnerStop, OwnerUnchanged
  <2>4. TRUE \in BOOLEAN
    OBVIOUS
  <2>5. EngineAdds
    BY <2>1, <2>2, <2>3, <2>4, EngineAppends
  <2>6. QED
    BY <2>3, <2>5, EngineKeeps
<1>5. QED
  BY <1>1, <1>2, <1>3, <1>4 DEF Engine

\* It survives an overflow of the channel to the hub.
LEMMA OverflowStep ==
  ASSUME AdapterConstants, AdapterInv, OwnerOverflow
  PROVE  AdapterInv'
<1> USE DEF AdapterInv
<1>1. EngineAdds
  BY NothingNew DEF OwnerOverflow, EngineAdds, AdapterTypeOK, LogInOrder, NoHoles
<1>2. UNCHANGED <<sessionVars, prompts, out>>
  BY DEF OwnerOverflow, OwnerUnchanged
<1>3. QED
  BY <1>1, <1>2, EngineKeeps

\* It survives cancellation and resumption of the bound task.
LEMMA ControlStep ==
  ASSUME AdapterConstants, AdapterInv, CancelTask \/ ResumeTask
  PROVE  AdapterInv'
<1> USE DEF AdapterInv
<1>1. /\ taskStatus \in [Tasks -> {"none", "active", "paused", "ended"}] /\ awaited \in [Tasks -> Nat]
      /\ binding.task \in 0..MaxTask
  BY DEF AdapterTypeOK, Bindings
<1>2. binding.task # 0 => binding.task \in Tasks
  BY <1>1 DEF Tasks, AdapterConstants
<1> DEFINE t == binding.task
<1>3. /\ t \in Tasks /\ taskStatus[t] \in {"active", "paused"}
      /\ log' = Append(log, [task |-> t, shown |-> TRUE])
      /\ live' = live /\ hub' = hub /\ awaited' \in [Tasks -> Nat] /\ overflow' = overflow
      /\ observed' = observed /\ UNCHANGED <<sessionVars, prompts, out>>
  <2>1. CASE CancelTask
    <3>1. binding.task \in Tasks
      BY <1>2, <2>1 DEF CancelTask
    <3>2. awaited' \in [Tasks -> Nat]
      BY <1>1, <2>1, <3>1 DEF CancelTask
    <3>3. QED
      BY <2>1, <3>1, <3>2, Zenon DEF CancelTask
  <2>2. CASE ResumeTask
    <3>1. binding.task \in Tasks
      BY <1>2, <2>2 DEF ResumeTask
    <3>2. awaited' \in [Tasks -> Nat]
      BY <1>1, <2>2 DEF ResumeTask
    <3>3. taskStatus[binding.task] \in {"active", "paused"}
      BY <2>2 DEF ResumeTask
    <3>4. QED
      BY <2>2, <3>1, <3>2, <3>3, Zenon DEF ResumeTask
  <2>3. QED
    BY <2>1, <2>2
<1>4. PICK to \in {"active", "paused", "ended"} : taskStatus' = [taskStatus EXCEPT ![t] = to]
  BY DEF CancelTask, ResumeTask
<1>5. TRUE \in BOOLEAN
  OBVIOUS
<1> HIDE DEF t
<1>6. EngineAdds
  BY <1>3, <1>4, <1>5, EngineAppends
<1>7. QED
  BY <1>3, <1>6, EngineKeeps

-----------------------------------------------------------------------------
(* Requests that leave the binding and the streams as they are.            *)

\* The outcome of a prompt is noted.
LEMMA OutcomeTyped ==
  ASSUME prompts \in Seq(Outcomes), NEW p, NEW what \in Outcomes
  PROVE  [prompts EXCEPT ![p] = what] \in Seq(Outcomes)
<1>1. Len(prompts) \in Nat /\ prompts \in [1..Len(prompts) -> Outcomes]
  BY LenProperties
<1>2. [prompts EXCEPT ![p] = what] \in [1..Len(prompts) -> Outcomes]
  BY <1>1
<1>3. QED
  BY <1>1, <1>2, SeqDef

\* The handler goes on while everything the cursors speak of stays.
LEMMA HandlerTurns ==
  ASSUME StreamsKnow, CursorsHold, NoHoles, log' = log, live' = live, binding' = binding,
         streams' = streams, out' = out, \A t \in Tasks : hub'[t] <= Len(live[t]),
         handler'.op \in {"config", "mode"} => BoundTo(log, live, out, handler'.clone)
  PROVE  StreamsKnow' /\ CursorsHold' /\ NoHoles'
<1>1. StreamsKnow'
  BY DEF StreamsKnow
<1>2. CursorsHold'
  BY DEF CursorsHold, Owns
<1>3. NoHoles'
  BY DEF NoHoles
<1>4. QED
  BY <1>1, <1>2, <1>3

\* The same for a request that leaves tasks, journal and updates as they are: the
\* handler may only come to know what is so.
LEMMA DecisionKeeps ==
  ASSUME AdapterConstants, AdapterInv, taskStatus' = taskStatus, log' = log, live' = live,
         hub' \in [Tasks -> Nat], \A t \in Tasks : hub'[t] <= Len(live[t]),
         awaited' \in [Tasks -> Nat], overflow' = overflow, observed' = observed,
         open' \in BOOLEAN, conn' \in Nat,
         loads' = loads, binding' = binding, streams' = streams, prompts' \in Seq(Outcomes), out' = out,
         handler' \in [op : HandlerOps, clone : Bindings],
         handler'.op \in {"config", "mode"} => BoundTo(log, live, out, handler'.clone)
  PROVE  HandlerKnows' => AdapterInv'
<1> USE DEF AdapterInv
<1>1. AdapterTypeOK'
  BY DEF AdapterTypeOK
<1>2. TasksInOrder' /\ LogInOrder'
  BY DEF TasksInOrder, LogInOrder
<1>3. StreamsKnow' /\ CursorsHold' /\ NoHoles'
  BY HandlerTurns
<1>4. QED
  BY <1>1, <1>2, <1>3

\* The same for a request that leaves the whole service as it is.
LEMMA RequestKeeps ==
  ASSUME AdapterConstants, AdapterInv, UNCHANGED ownerVars, open' \in BOOLEAN, conn' \in Nat,
         loads' = loads, binding' = binding, streams' = streams, prompts' \in Seq(Outcomes), out' = out,
         handler' \in [op : HandlerOps, clone : Bindings],
         handler'.op \in {"config", "mode"} => BoundTo(log, live, out, handler'.clone)
  PROVE  HandlerKnows' => AdapterInv'
<1>1. /\ taskStatus' = taskStatus /\ log' = log /\ live' = live /\ hub' = hub /\ awaited' = awaited
      /\ overflow' = overflow /\ observed' = observed
  BY DEF ownerVars
<1>2. hub' \in [Tasks -> Nat] /\ awaited' \in [Tasks -> Nat] /\ \A t \in Tasks : hub'[t] <= Len(live[t])
  BY <1>1 DEF AdapterInv, AdapterTypeOK, NoHoles
<1>3. QED
  BY <1>1, <1>2, DecisionKeeps

\* Idle, a handler knows nothing more.
LEMMA IdleKnows ==
  ASSUME AdapterConstants, AdapterInv, taskStatus' = taskStatus, binding' = binding,
         handler' = IdleHandler, binding.bound => binding.task = Current
  PROVE  HandlerKnows'
<1>1. Current' = Current
  BY CurrentStays
<1>2. handler'.op = "idle" /\ handler'.clone.pending = NoPending
  BY DEF IdleHandler, NoBinding
<1>3. binding.pending # NoPending => binding.task # 0
  BY DEF AdapterInv, HandlerKnows
<1>4. QED
  BY <1>1, <1>2, <1>3 DEF HandlerKnows, Cloned

\* What an idle handler is, and that it has a type.
LEMMA IdleTyped ==
  ASSUME AdapterConstants
  PROVE  NoBinding \in Bindings /\ IdleHandler \in [op : HandlerOps, clone : Bindings]
BY DEF AdapterConstants, NoBinding, Bindings, IdleHandler, HandlerOps

\* The invariant survives a connection.
LEMMA ConnectStep ==
  ASSUME AdapterConstants, AdapterInv, Connect
  PROVE  AdapterInv'
<1>1. /\ UNCHANGED ownerVars /\ open' \in BOOLEAN /\ conn' \in Nat /\ loads' = loads
      /\ binding' = binding /\ streams' = streams /\ prompts' \in Seq(Outcomes) /\ out' = out
      /\ handler' = handler /\ handler \in [op : HandlerOps, clone : Bindings]
  BY DEF Connect, AdapterInv, AdapterTypeOK
<1>2. handler'.op \in {"config", "mode"} => BoundTo(log, live, out, handler'.clone)
  BY <1>1 DEF AdapterInv, CursorsHold
<1>3. Current' = Current /\ taskStatus' = taskStatus
  BY <1>1, CurrentStays DEF ownerVars
<1>4. HandlerKnows'
  BY <1>1, <1>3 DEF AdapterInv, HandlerKnows
<1>5. QED
  BY <1>1, <1>2, <1>4, RequestKeeps

\* It survives the copy a configuration takes.
LEMMA SetConfigStep ==
  ASSUME AdapterConstants, AdapterInv, SetConfig
  PROVE  AdapterInv'
<1> DEFINE c == [binding EXCEPT !.mode = 1]
<1>1. binding \in Bindings /\ binding.bound /\ handler = IdleHandler
  BY DEF AdapterInv, AdapterTypeOK, SetConfig, Ready
<1>2. /\ c \in Bindings /\ c.task = binding.task /\ c.event = binding.event /\ c.live = binding.live
      /\ c.gen = binding.gen /\ c.bound /\ c.pending = binding.pending
  BY <1>1 DEF Bindings
<1>3. handler' = [op |-> "config", clone |-> c]
  BY DEF SetConfig
<1>4. BoundTo(log, live, out, c)
  BY <1>1, <1>2 DEF AdapterInv, CursorsHold, BoundTo
<1> HIDE DEF c
<1>5. /\ UNCHANGED ownerVars /\ open' \in BOOLEAN /\ conn' \in Nat /\ loads' = loads
      /\ binding' = binding /\ streams' = streams /\ prompts' \in Seq(Outcomes) /\ out' = out
  BY DEF SetConfig, AdapterInv, AdapterTypeOK
<1>6. handler' \in [op : HandlerOps, clone : Bindings] /\ handler'.op = "config" /\ handler'.clone = c
  BY <1>2, <1>3 DEF HandlerOps
<1>7. Current' = Current /\ taskStatus' = taskStatus
  BY <1>5, CurrentStays DEF ownerVars
<1>8. binding.task = Current /\ (binding.pending # NoPending => binding.task # 0)
  BY <1>1 DEF AdapterInv, HandlerKnows, IdleHandler
<1>9. HandlerKnows'
  BY <1>1, <1>2, <1>5, <1>6, <1>7, <1>8 DEF HandlerKnows, Cloned
<1>10. QED
  BY <1>4, <1>5, <1>6, <1>9, RequestKeeps

\* It survives the arrival of a prompt.
LEMMA PromptStep ==
  ASSUME AdapterConstants, AdapterInv, NEW kind \in PromptKinds, SendPrompt(kind)
  PROVE  AdapterInv'
<1>1. /\ binding \in Bindings /\ binding.bound /\ handler = IdleHandler /\ prompts \in Seq(Outcomes)
      /\ open \in BOOLEAN /\ conn \in Nat
  BY DEF AdapterInv, AdapterTypeOK, SendPrompt, Ready
<1>2. /\ UNCHANGED ownerVars /\ open' \in BOOLEAN /\ conn' \in Nat /\ loads' = loads
      /\ binding' = binding /\ streams' = streams /\ out' = out
  BY <1>1 DEF SendPrompt
<1>3. Current' = Current /\ taskStatus' = taskStatus
  BY <1>2, CurrentStays DEF ownerVars
<1>4. binding.task = Current /\ (binding.pending # NoPending => binding.task # 0)
  BY <1>1 DEF AdapterInv, HandlerKnows, IdleHandler
<1>5. CASE handler' = IdleHandler /\ \E what \in Outcomes : prompts' = Append(prompts, what)
  <2>1. prompts' \in Seq(Outcomes)
    BY <1>1, <1>5
  <2>2. HandlerKnows'
    BY <1>2, <1>3, <1>4, <1>5, IdleKnows
  <2>3. handler' \in [op : HandlerOps, clone : Bindings] /\ handler'.op = "idle"
    BY <1>5, IdleTyped DEF IdleHandler
  <2>4. QED
    BY <1>2, <2>1, <2>2, <2>3, RequestKeeps
<1>6. CASE /\ ~Refuses(binding, kind) /\ kind # "metrics"
           /\ prompts' = Append(prompts, "handling")
           /\ handler' = [op |-> CASE kind = "text"    -> "status"
                                   [] kind = "approve" -> "resolve"
                                   [] kind = "mode"    -> "mode",
                          clone |-> binding]
  <2>1. prompts' \in Seq(Outcomes)
    <3>1. "handling" \in Outcomes
      BY DEF Outcomes
    <3>2. QED
      BY <1>1, <1>6, <3>1
  <2>2. /\ handler'.op \in {"status", "resolve", "mode"} /\ handler'.clone = binding
        /\ handler'.op = "resolve" => kind = "approve"
    BY <1>6 DEF PromptKinds
  <2>3. handler' \in [op : HandlerOps, clone : Bindings]
    BY <1>1, <1>6, <2>2 DEF HandlerOps
  <2>4. handler'.op = "resolve" => binding.pending # NoPending
    BY <1>6, <2>2 DEF Refuses
  <2>5. BoundTo(log, live, out, binding)
    BY <1>1 DEF AdapterInv, CursorsHold
  <2>6. HandlerKnows'
    BY <1>1, <1>2, <1>3, <1>4, <2>2, <2>4 DEF HandlerKnows, Cloned
  <2>7. QED
    BY <1>2, <2>1, <2>2, <2>3, <2>5, <2>6, RequestKeeps
<1>7. QED
  <2>1. {"refused", "rejected", "answered"} \subseteq Outcomes
    BY DEF Outcomes
  <2>2. QED
    BY <1>5, <1>6, <2>1 DEF SendPrompt

\* It survives the look at the bound task's status.
LEMMA PromptStatusStep ==
  ASSUME AdapterConstants, AdapterInv, PromptStatus
  PROVE  AdapterInv'
<1> DEFINE c == handler.clone
<1>1. /\ c \in Bindings /\ handler \in [op : HandlerOps, clone : Bindings] /\ handler.op = "status"
      /\ prompts \in Seq(Outcomes) /\ open \in BOOLEAN /\ conn \in Nat
  BY DEF AdapterInv, AdapterTypeOK, PromptStatus
<1>2. /\ UNCHANGED ownerVars /\ open' \in BOOLEAN /\ conn' \in Nat /\ loads' = loads
      /\ binding' = binding /\ streams' = streams /\ out' = out /\ prompts' \in Seq(Outcomes)
  BY <1>1 DEF PromptStatus
<1>3. Current' = Current /\ taskStatus' = taskStatus
  BY <1>2, CurrentStays DEF ownerVars
<1>4. /\ handler'.clone = c /\ handler'.op \in {"steer", "start"}
      /\ handler' \in [op : HandlerOps, clone : Bindings]
      /\ handler'.op = "steer" => c.task # 0
      /\ handler'.op = "start" => c.task = 0 \/ taskStatus[c.task] = "ended"
  BY <1>1 DEF PromptStatus, HandlerOps, Ended
<1>5. c.task = Current /\ c.task \in 0..MaxTask /\ binding.bound
  BY <1>1 DEF AdapterInv, HandlerKnows, Cloned, Bindings
<1>6. ASSUME handler'.op = "start", NEW t \in Tasks, taskStatus[t] # "none" PROVE taskStatus[t] = "ended"
  <2>1. t <= Current /\ Current \in 0..MaxTask
    BY <1>6, CurrentIsLast DEF AdapterInv
  <2>2. Current # 0
    BY <2>1 DEF Tasks, AdapterConstants
  <2>3. taskStatus[Current] = "ended" /\ Current \in Tasks
    BY <1>4, <1>5, <1>6, <2>2, CurrentIsLast DEF AdapterInv
  <2>4. t = Current \/ t < Current
    BY <2>1 DEF Tasks, AdapterConstants
  <2>5. QED
    BY <2>3, <2>4 DEF AdapterInv, TasksInOrder
<1>7. HandlerKnows'
  BY <1>1, <1>2, <1>3, <1>4, <1>5, <1>6 DEF AdapterInv, HandlerKnows, Cloned
<1>8. QED
  BY <1>2, <1>4, <1>7, RequestKeeps

\* It survives steering, accepted or refused.
LEMMA SteerStep ==
  ASSUME AdapterConstants, AdapterInv, SteerTask
  PROVE  AdapterInv'
<1>1. /\ handler.clone \in Bindings /\ handler \in [op : HandlerOps, clone : Bindings] /\ handler.op = "steer"
      /\ prompts \in Seq(Outcomes) /\ open \in BOOLEAN /\ conn \in Nat
  BY DEF AdapterInv, AdapterTypeOK, SteerTask
<1>2. /\ UNCHANGED ownerVars /\ open' \in BOOLEAN /\ conn' \in Nat /\ loads' = loads
      /\ binding' = binding /\ streams' = streams /\ out' = out
  BY <1>1 DEF SteerTask
<1>3. Current' = Current /\ taskStatus' = taskStatus
  BY <1>2, CurrentStays DEF ownerVars
<1>4. /\ binding.bound /\ binding.task = Current /\ Current # 0
      /\ handler.clone.task = Current /\ handler.clone.bound
  BY <1>1 DEF AdapterInv, HandlerKnows, Cloned
<1>5. CASE Ended(handler.clone.task)
  <2>1. handler' = IdleHandler /\ prompts' = [prompts EXCEPT ![Len(prompts)] = "rejected"]
    BY <1>5 DEF SteerTask, Outcome
  <2>2. prompts' \in Seq(Outcomes)
    BY <1>1, <2>1, OutcomeTyped DEF Outcomes
  <2>3. HandlerKnows'
    BY <1>2, <1>3, <1>4, <2>1, IdleKnows
  <2>4. handler' \in [op : HandlerOps, clone : Bindings] /\ handler'.op = "idle"
    BY <2>1, IdleTyped DEF IdleHandler
  <2>5. QED
    BY <1>2, <2>2, <2>3, <2>4, RequestKeeps
<1>6. CASE ~Ended(handler.clone.task)
  <2>1. handler' = [handler EXCEPT !.op = "bind"] /\ prompts' = prompts
    BY <1>6 DEF SteerTask
  <2>2. /\ handler' \in [op : HandlerOps, clone : Bindings] /\ handler'.op = "bind"
        /\ handler'.clone = handler.clone
    BY <1>1, <2>1 DEF HandlerOps
  <2>3. Current <= Current
    BY CurrentIsLast DEF AdapterInv
  <2>4. HandlerKnows'
    BY <1>2, <1>3, <1>4, <2>2, <2>3 DEF AdapterInv, HandlerKnows, Cloned
  <2>5. QED
    BY <1>1, <1>2, <2>1, <2>2, <2>4, RequestKeeps
<1>7. QED
  BY <1>5, <1>6

-----------------------------------------------------------------------------
\* It survives a decision, taken or refused.
LEMMA ResolveStep ==
  ASSUME AdapterConstants, AdapterInv, ResolveApproval
  PROVE  AdapterInv'
<1> DEFINE t == handler.clone.pending[1]
<1>1. /\ handler \in [op : HandlerOps, clone : Bindings] /\ handler.op = "resolve"
      /\ prompts \in Seq(Outcomes) /\ awaited \in [Tasks -> Nat] /\ hub \in [Tasks -> Nat]
  BY DEF AdapterInv, AdapterTypeOK, ResolveApproval
<1>2. /\ taskStatus' = taskStatus /\ log' = log /\ live' = live /\ hub' = hub /\ overflow' = overflow
      /\ observed' = observed /\ open' = open /\ conn' = conn /\ loads' = loads
      /\ binding' = binding /\ streams' = streams /\ out' = out
  BY DEF ResolveApproval
<1>3. Current' = Current
  BY <1>2, CurrentStays
<1>4. /\ binding.bound /\ binding.task = Current /\ Current # 0
      /\ handler.clone.pending # NoPending /\ handler.clone.task = binding.task
      /\ handler.clone.bound /\ handler.clone.gen = binding.gen
  BY <1>1 DEF AdapterInv, HandlerKnows, Cloned
<1>5. \A u \in Tasks : hub'[u] <= Len(live[u])
  BY <1>2 DEF AdapterInv, NoHoles
<1>6. open' \in BOOLEAN /\ conn' \in Nat
  BY <1>2 DEF AdapterInv, AdapterTypeOK
<1>7. CASE /\ awaited' = [awaited EXCEPT ![t] = 0]
           /\ handler' = [handler EXCEPT !.op = "clear"] /\ prompts' = prompts
  <2>1. awaited' \in [Tasks -> Nat]
    BY <1>1, <1>7
  <2>2. /\ handler' \in [op : HandlerOps, clone : Bindings] /\ handler'.op = "clear"
        /\ handler'.clone = handler.clone
    BY <1>1, <1>7 DEF HandlerOps
  <2>3. HandlerKnows'
    BY <1>2, <1>3, <1>4, <2>2 DEF AdapterInv, HandlerKnows, Cloned
  <2>4. QED
    BY <1>1, <1>2, <1>5, <1>6, <1>7, <2>1, <2>2, <2>3, DecisionKeeps
<1>8. CASE /\ prompts' = [prompts EXCEPT ![Len(prompts)] = "rejected"]
           /\ handler' = IdleHandler /\ awaited' = awaited
  <2>1. prompts' \in Seq(Outcomes)
    BY <1>1, <1>8, OutcomeTyped DEF Outcomes
  <2>2. HandlerKnows'
    BY <1>2, <1>4, <1>8, IdleKnows
  <2>3. handler' \in [op : HandlerOps, clone : Bindings] /\ handler'.op = "idle"
    BY <1>8, IdleTyped DEF IdleHandler
  <2>4. QED
    BY <1>1, <1>2, <1>5, <1>6, <1>8, <2>1, <2>2, <2>3, DecisionKeeps
<1>9. QED
  BY <1>7, <1>8 DEF ResolveApproval, Outcome

\* It survives clear_pending_approval.
LEMMA ClearStep ==
  ASSUME AdapterConstants, AdapterInv, ClearApproval
  PROVE  AdapterInv'
<1> DEFINE c == [handler.clone EXCEPT !.pending = NoPending]
<1>1. /\ handler \in [op : HandlerOps, clone : Bindings] /\ handler.op = "clear" /\ handler.clone \in Bindings
      /\ prompts \in Seq(Outcomes) /\ awaited \in [Tasks -> Nat] /\ hub \in [Tasks -> Nat]
  BY DEF AdapterInv, AdapterTypeOK, ClearApproval
<1>2. /\ taskStatus' = taskStatus /\ log' = log /\ live' = live /\ awaited' = awaited /\ overflow' = overflow
      /\ observed' = observed /\ open' = open /\ conn' = conn /\ loads' = loads
      /\ binding' = binding /\ streams' = streams /\ out' = out /\ prompts' = prompts
  BY DEF ClearApproval
<1>3. Current' = Current
  BY <1>2, CurrentStays
<1>4. /\ binding.bound /\ binding.task = Current /\ Current # 0
      /\ handler.clone.task = binding.task /\ handler.clone.bound
  BY <1>1 DEF AdapterInv, HandlerKnows, Cloned
<1>5. c \in Bindings /\ c.task = Current /\ c.bound /\ c.pending = NoPending
  BY <1>1, <1>4 DEF Bindings
<1>6. hub' \in [Tasks -> Nat] /\ \A u \in Tasks : hub'[u] <= Len(live[u])
  <2>1. \A u \in Tasks : hub[u] <= Len(live[u]) /\ Len(live[u]) \in Nat
    BY LenProperties DEF AdapterInv, NoHoles, AdapterTypeOK
  <2>2. hub' = [hub EXCEPT ![handler.clone.pending[1]] = 0]
    BY DEF ClearApproval
  <2>3. hub' \in [Tasks -> Nat]
    BY <1>1, <2>2
  <2>4. \A u \in Tasks : hub'[u] = hub[u] \/ hub'[u] = 0
    BY <1>1, <2>2
  <2>5. QED
    BY <2>1, <2>3, <2>4
<1>7. handler' = [op |-> "bind", clone |-> c]
  BY DEF ClearApproval
<1> HIDE DEF c
<1>8. handler' \in [op : HandlerOps, clone : Bindings] /\ handler'.op = "bind" /\ handler'.clone = c
  BY <1>5, <1>7 DEF HandlerOps
<1>9. Current <= Current
  BY CurrentIsLast DEF AdapterInv
<1>10. HandlerKnows'
  BY <1>2, <1>3, <1>4, <1>5, <1>8, <1>9 DEF AdapterInv, HandlerKnows, Cloned
<1>11. open' \in BOOLEAN /\ conn' \in Nat
  BY <1>2 DEF AdapterInv, AdapterTypeOK
<1>12. QED
  BY <1>1, <1>2, <1>6, <1>8, <1>10, <1>11, DecisionKeeps

\* It survives the start of a task, or its refusal.
LEMMA StartStep ==
  ASSUME AdapterConstants, AdapterInv, StartTask
  PROVE  AdapterInv'
<1> DEFINE c == [handler.clone EXCEPT !.task = Current + 1]
           n == Current + 1
           e == [task |-> Current + 1, shown |-> TRUE]
<1>1. /\ handler \in [op : HandlerOps, clone : Bindings] /\ handler.op = "start" /\ handler.clone \in Bindings
      /\ prompts \in Seq(Outcomes) /\ awaited \in [Tasks -> Nat] /\ hub \in [Tasks -> Nat]
      /\ taskStatus \in [Tasks -> {"none", "active", "paused", "ended"}]
  BY DEF AdapterInv, AdapterTypeOK, StartTask
<1>2. /\ live' = live /\ hub' = hub /\ awaited' = awaited /\ overflow' = overflow
      /\ observed' = observed /\ open' = open /\ conn' = conn /\ loads' = loads
      /\ binding' = binding /\ streams' = streams /\ out' = out
  BY DEF StartTask
<1>3. /\ binding.bound /\ binding.task = Current
      /\ handler.clone.task = binding.task /\ handler.clone.bound
      /\ \A t \in Tasks : taskStatus[t] # "none" => taskStatus[t] = "ended"
      /\ binding.pending # NoPending => binding.task # 0
  BY <1>1 DEF AdapterInv, HandlerKnows, Cloned
<1>4. /\ Current \in 0..MaxTask
      /\ \A t \in Tasks : taskStatus[t] # "none" => t <= Current
  BY CurrentIsLast DEF AdapterInv
<1>5. \A t \in Tasks : hub'[t] <= Len(live[t])
  BY <1>2 DEF AdapterInv, NoHoles
<1>6. open' \in BOOLEAN /\ conn' \in Nat
  BY <1>2 DEF AdapterInv, AdapterTypeOK
<1>7. CASE /\ Current < MaxTask /\ taskStatus' = [taskStatus EXCEPT ![Current + 1] = "active"]
           /\ log' = Append(log, [task |-> Current + 1, shown |-> TRUE])
           /\ handler' = [op |-> "bind", clone |-> [handler.clone EXCEPT !.task = Current + 1]]
           /\ prompts' = prompts
  <2>1. n \in Tasks /\ n \in Nat /\ Current \in Nat
    BY <1>4, <1>7 DEF Tasks, AdapterConstants
  <2>2. e \in Events /\ e.task = n
    BY <2>1 DEF Events
  <2>3. c \in Bindings /\ c.task = n /\ c.bound /\ c.pending = handler.clone.pending
    <3>1. n \in 0..MaxTask
      BY <2>1 DEF Tasks
    <3>2. QED
      BY <1>1, <1>3, <3>1 DEF Bindings
  <2>4. handler' = [op |-> "bind", clone |-> c] /\ log' = Append(log, e)
    BY <1>7
  <2>5. taskStatus' = [taskStatus EXCEPT ![n] = "active"]
    BY <1>7
  <2>6. \A t \in Tasks : taskStatus[t] # "none" => t <= n /\ t # n
    <3> TAKE t \in Tasks
    <3> HAVE taskStatus[t] # "none"
    <3>1. t <= Current /\ t \in Nat
      BY <1>4 DEF Tasks, AdapterConstants
    <3>2. QED
      BY <2>1, <3>1
  <2> HIDE DEF c, e, n
  <2>7. /\ taskStatus' \in [Tasks -> {"none", "active", "paused", "ended"}]
        /\ \A t \in Tasks : t # n => taskStatus'[t] = taskStatus[t]
        /\ taskStatus'[n] = "active"
    BY <1>1, <2>1, <2>5
  <2>8. LogInOrder' /\ log' \in Seq(Events) /\ LogGrows(log, log')
    <3>1. \A t \in Tasks : taskStatus[t] # "none" => taskStatus'[t] # "none"
      BY <2>6, <2>7
    <3>2. taskStatus'[e.task] # "none" /\ \A t \in Tasks : taskStatus[t] # "none" => t <= e.task
      BY <2>2, <2>6, <2>7
    <3>3. QED
      BY <2>2, <2>4, <2>7, <3>1, <3>2, LogAppends DEF AdapterInv
  <2>9. handler' \in [op : HandlerOps, clone : Bindings] /\ handler'.op = "bind" /\ handler'.clone = c
    BY <2>3, <2>4 DEF HandlerOps
  <2>10. AdapterTypeOK'
    BY <1>1, <1>2, <1>7, <2>7, <2>8, <2>9 DEF AdapterInv, AdapterTypeOK
  <2>11. TasksInOrder'
    <3>1. ASSUME NEW t \in Tasks, NEW u \in Tasks, t < u, taskStatus'[u] # "none"
          PROVE  taskStatus'[t] = "ended"
      <4>1. u <= n
        <5>1. CASE u = n
          BY <2>1, <5>1
        <5>2. CASE u # n
          BY <2>6, <2>7, <3>1, <5>2
        <5>3. QED
          BY <5>1, <5>2
      <4>2. t # n
        BY <2>1, <3>1, <4>1 DEF Tasks, AdapterConstants
      <4>3. taskStatus[t] # "none"
        <5>1. CASE u = n
          <6>1. t <= Current /\ Current \in Tasks /\ Current # 0
            BY <1>4, <3>1, <5>1 DEF n, Tasks, AdapterConstants
          <6>2. taskStatus[Current] = "ended"
            BY <1>3, <6>1, CurrentIsLast DEF AdapterInv
          <6>3. CASE t = Current
            BY <6>2, <6>3
          <6>4. CASE t # Current
            <7>1. t < Current
              BY <6>1, <6>4 DEF Tasks, AdapterConstants
            <7>2. taskStatus[t] = "ended"
              BY <6>1, <6>2, <7>1 DEF AdapterInv, TasksInOrder
            <7>3. QED
              BY <7>2
          <6>5. QED
            BY <6>3, <6>4
        <5>2. CASE u # n
          <6>1. taskStatus[t] = "ended"
            BY <2>7, <3>1, <5>2 DEF AdapterInv, TasksInOrder
          <6>2. QED
            BY <6>1
        <5>3. QED
          BY <5>1, <5>2
      <4>4. QED
        BY <1>3, <2>7, <4>2, <4>3
    <3>2. QED
      BY <3>1 DEF TasksInOrder
  <2>12. Current' = n
    <3>0. Current' = LastOf(taskStatus')
      BY DEF Current, Started, LastOf
    <3>1. Current' \in 0..MaxTask /\ (Current' # 0 => Current' \in Tasks /\ taskStatus'[Current'] # "none")
      BY <3>0, LastIsLast
    <3>2. n <= Current'
      BY <2>1, <2>7, <3>0, LastIsLast
    <3>3. QED
      BY <2>1, <2>6, <2>7, <3>1, <3>2 DEF Tasks, AdapterConstants
  <2>13. HandlerKnows'
    <3>1. binding.task <= n /\ n # 0 /\ (handler.clone.pending # NoPending => n # 0)
      BY <1>3, <2>1 DEF n
    <3>2. QED
      BY <1>2, <1>3, <2>3, <2>9, <2>12, <3>1 DEF HandlerKnows, Cloned
  <2>14. StreamsKnow' /\ CursorsHold' /\ NoHoles'
    <3>1. live' \in [Tasks -> Seq(LiveKinds)] /\ LivesGrow(live, live')
      BY <1>2, NothingNew DEF AdapterInv, AdapterTypeOK
    <3>2. \A t \in Tasks : hub'[t] <= Len(live'[t])
      BY <1>2, <1>5
    <3>3. QED
      BY <1>2, <2>8, <2>9, <3>1, <3>2, OwnerGrows DEF AdapterInv
  <2>15. QED
    BY <2>8, <2>10, <2>11, <2>13, <2>14 DEF AdapterInv
<1>8. CASE /\ prompts' = [prompts EXCEPT ![Len(prompts)] = "rejected"]
           /\ handler' = IdleHandler /\ taskStatus' = taskStatus /\ log' = log
  <2>1. prompts' \in Seq(Outcomes)
    BY <1>1, <1>8, OutcomeTyped DEF Outcomes
  <2>2. HandlerKnows'
    BY <1>2, <1>3, <1>8, IdleKnows
  <2>3. handler' \in [op : HandlerOps, clone : Bindings] /\ handler'.op = "idle"
    BY <1>8, IdleTyped DEF IdleHandler
  <2>4. QED
    BY <1>1, <1>2, <1>5, <1>6, <1>8, <2>1, <2>2, <2>3, DecisionKeeps
<1>9. QED
  BY <1>7, <1>8 DEF StartTask, Outcome

-----------------------------------------------------------------------------
(* Sessions: bound, left, stored.                                          *)

\* The invariant survives the end of a connection.
LEMMA DisconnectStep ==
  ASSUME AdapterConstants, AdapterInv, Disconnect
  PROVE  AdapterInv'
<1>1. /\ taskStatus' = taskStatus /\ log' = log /\ live' = live /\ hub' = hub /\ awaited' = awaited
      /\ overflow' = overflow /\ observed' = observed /\ conn' = conn /\ loads' = loads /\ out' = out
      /\ open' = FALSE /\ binding' = NoBinding /\ handler' = IdleHandler /\ streams' = {}
  BY DEF Disconnect, ownerVars
<1>2. prompts' \in Seq(Outcomes)
  <2>1. /\ prompts \in Seq(Outcomes) /\ Len(prompts) \in Nat /\ DOMAIN prompts = 1..Len(prompts)
        /\ prompts \in [1..Len(prompts) -> Outcomes]
    BY LenProperties DEF AdapterInv, AdapterTypeOK
  <2>2. prompts' \in [1..Len(prompts) -> Outcomes]
    BY <2>1 DEF Disconnect, Outcomes
  <2>3. QED
    BY <2>1, <2>2, SeqDef
<1>3. AdapterTypeOK'
  BY <1>1, <1>2, IdleTyped DEF AdapterInv, AdapterTypeOK
<1>4. TasksInOrder' /\ LogInOrder'
  BY <1>1 DEF AdapterInv, TasksInOrder, LogInOrder
<1>5. binding'.bound = FALSE /\ binding'.pending = NoPending /\ handler'.op = "idle" /\ handler'.clone.pending = NoPending
  BY <1>1 DEF NoBinding, IdleHandler
<1>6. HandlerKnows'
  BY <1>5 DEF HandlerKnows, Cloned
<1>7. StreamsKnow' /\ CursorsHold'
  BY <1>1, <1>5 DEF StreamsKnow, CursorsHold
<1>8. NoHoles'
  BY <1>1 DEF AdapterInv, NoHoles
<1>9. QED
  BY <1>3, <1>4, <1>6, <1>7, <1>8 DEF AdapterInv

\* What the record of the client keeps when its cursor note changes.
LEMMA BackChanges ==
  ASSUME out \in Received, NEW k \in Nat, out' = [out EXCEPT !.back = k]
  PROVE  /\ out' \in Received /\ out'.back = k /\ out'.events = out.events /\ out'.again = out.again
         /\ out'.lives = out.lives /\ out'.snapshot = out.snapshot /\ out'.carried = out.carried
BY DEF Received

\* What the client has received keeps having no holes.
LEMMA HolesStay ==
  ASSUME NoHoles, out' \in Received, out'.events = out.events, out'.again = out.again,
         out'.lives = out.lives, out'.snapshot = out.snapshot, out'.carried = out.carried,
         log' = log, live' = live, hub' = hub
  PROVE  NoHoles'
BY DEF NoHoles, SentTo, LiveTo

\* A session that is bound while no stream runs.
LEMMA BindsFresh ==
  ASSUME AdapterConstants, AdapterInv, NEW e \in Nat, NEW k \in Nat,
         taskStatus' = taskStatus, log' = log, live' = live, hub' = hub, awaited' = awaited,
         overflow' = overflow, observed' = observed, open' = open, conn' = conn, loads' \in Nat,
         prompts' = prompts, binding' = Fresh(Current, e, k), streams' = streams, ~binding.bound,
         out' \in Received, out'.events = out.events, out'.again = out.again,
         out'.lives = out.lives, out'.snapshot = out.snapshot, out'.carried = out.carried,
         SentTo(log, out', Current, e), Reached(out', e),
         Current # 0 => LiveTo(live, out', Current, k),
         handler'.clone = NoBinding,
         handler'.op \in {"idle", "replay"}, handler' \in [op : HandlerOps, clone : Bindings],
         handler'.op = "replay" => Current # 0
  PROVE  AdapterInv'
<1>1. streams = {}
  BY DEF AdapterInv, StreamsKnow
<1>2. Current \in 0..MaxTask /\ Current' = Current
  BY CurrentIsLast, CurrentStays
<1>3. /\ binding' \in Bindings /\ binding'.bound /\ binding'.task = Current /\ binding'.event = e
      /\ binding'.live = k /\ binding'.pending = NoPending
  BY <1>2 DEF Fresh, Bindings
<1>4. AdapterTypeOK'
  BY <1>3 DEF AdapterInv, AdapterTypeOK
<1>5. TasksInOrder' /\ LogInOrder'
  BY DEF AdapterInv, TasksInOrder, LogInOrder
<1>6. handler'.clone.pending = NoPending
  BY DEF NoBinding
<1>7. HandlerKnows'
  BY <1>2, <1>3, <1>6 DEF HandlerKnows, Cloned
<1>8. StreamsKnow'
  BY <1>1 DEF StreamsKnow
<1>9. CursorsHold'
  BY <1>1, <1>3 DEF CursorsHold, BoundTo
<1>10. NoHoles'
  BY HolesStay DEF AdapterInv
<1>11. QED
  BY <1>4, <1>5, <1>7, <1>8, <1>9, <1>10 DEF AdapterInv

\* It survives session/new.
LEMMA OpenSessionStep ==
  ASSUME AdapterConstants, AdapterInv, OpenSession
  PROVE  AdapterInv'
<1>1. /\ taskStatus' = taskStatus /\ log' = log /\ live' = live /\ hub' = hub /\ awaited' = awaited
      /\ overflow' = overflow /\ observed' = observed /\ conn' = conn /\ loads' = loads /\ out' = out
      /\ open' = open /\ binding' = Fresh(0, 0, 0) /\ handler' = handler /\ streams' = streams
      /\ prompts' = prompts /\ ~binding.bound /\ handler = IdleHandler /\ Started = {}
  BY DEF OpenSession, ownerVars, Ready
<1>2. Current = 0
  <2>1. \A t \in Tasks : taskStatus[t] = "none"
    BY <1>1 DEF Started
  <2>2. QED
    BY <2>1, CurrentIsLast
<1>3. log \in Seq(Events) /\ Len(log) \in Nat /\ DOMAIN log = 1..Len(log) /\ out \in Received /\ loads \in Nat
  BY DEF AdapterInv, AdapterTypeOK
<1>4. DOMAIN log = {}
  <2>1. ASSUME NEW n \in DOMAIN log PROVE FALSE
    <3>1. log[n] \in Events
      BY <1>3, ElementOfSeq
    <3>2. log[n].task \in Tasks
      BY <3>1 DEF Events
    <3>3. QED
      BY <1>1, <3>2 DEF AdapterInv, LogInOrder, Started
  <2>2. QED
    BY <2>1
<1>5. out.events = {}
  BY <1>4 DEF AdapterInv, NoHoles
<1>6. SentTo(log, out, 0, 0) /\ Reached(out, 0)
  BY <1>4, <1>5 DEF SentTo, Reached
<1>7. handler'.clone = NoBinding /\ handler'.op = "idle" /\ handler' \in [op : HandlerOps, clone : Bindings]
  BY <1>1, IdleTyped DEF IdleHandler
<1>8. QED
  BY <1>1, <1>2, <1>3, <1>6, <1>7, BindsFresh

\* The last event the client was given is a cursor of the last task.
LEMMA ResumesEvents ==
  ASSUME AdapterConstants, AdapterInv
  PROVE  /\ EventCursor \in Nat /\ SentTo(log, out, Current, EventCursor)
         /\ \A m \in out.events : m <= EventCursor
<1> DEFINE S == {0} \cup out.events
<1>1. /\ log \in Seq(Events) /\ Len(log) \in Nat /\ DOMAIN log = 1..Len(log) /\ out \in Received
      /\ out.events \subseteq DOMAIN log
  BY DEF AdapterInv, AdapterTypeOK, NoHoles
<1>2. Max(S) \in S /\ \A m \in S : m <= Max(S)
  <2>1. S \subseteq Nat /\ S # {} /\ \A m \in S : m <= Len(log)
    BY <1>1
  <2> HIDE DEF S
  <2>2. QED
    BY <1>1, <2>1, MaxIsLargest
<1>3. EventCursor = Max(S)
  BY DEF EventCursor
<1>4. EventCursor \in Nat /\ (EventCursor = 0 \/ EventCursor \in out.events)
  BY <1>1, <1>2, <1>3
<1>5. \A m \in out.events : m <= EventCursor
  BY <1>2, <1>3
<1>6. Current \in 0..MaxTask /\ Current \in Nat
  BY CurrentIsLast DEF AdapterConstants
<1>7. CASE EventCursor = 0
  <2>1. \A n \in DOMAIN log : ~(n <= 0)
    BY <1>1
  <2>2. QED
    BY <1>4, <1>5, <1>7, <2>1 DEF SentTo
<1>8. CASE EventCursor \in out.events
  <2> DEFINE c == EventCursor
  <2>1. c \in DOMAIN log /\ SentTo(log, out, log[c].task, c)
    BY <1>8 DEF AdapterInv, NoHoles
  <2>2. log[c].task \in Tasks /\ log[c].task \in Nat
    <3>1. log[c] \in Events
      BY <1>1, <2>1, ElementOfSeq
    <3>2. QED
      BY <3>1 DEF Events, Tasks, AdapterConstants
  <2>3. log[c].task <= Current
    BY <2>1, <2>2, CurrentIsLast DEF AdapterInv, LogInOrder
  <2>4. \A n \in DOMAIN log : n <= c => log[n].task <= log[c].task
    BY <2>1 DEF AdapterInv, LogInOrder
  <2> HIDE DEF c
  <2>5. ASSUME NEW n \in DOMAIN log, n <= c, log[n].task = Current, log[n].shown
        PROVE  n \in out.events
    <3>1. log[n].task = log[c].task
      BY <1>6, <2>2, <2>3, <2>4, <2>5
    <3>2. QED
      BY <2>1, <2>5, <3>1 DEF SentTo
  <2>6. SentTo(log, out, Current, c)
    BY <2>1, <2>3, <2>5 DEF SentTo
  <2>7. QED
    BY <1>4, <1>5, <2>6 DEF c
<1>9. QED
  BY <1>4, <1>7, <1>8

\* So is the last live cursor it was given.
LEMMA ResumesLives ==
  ASSUME AdapterConstants, AdapterInv, NEW t \in Tasks
  PROVE  LiveCursor(t) \in Nat /\ LiveTo(live, out, t, LiveCursor(t))
<1> DEFINE S == {0, out.snapshot[t]} \cup {u[2] : u \in {v \in out.lives : v[1] = t}}
           k == LiveCursor(t)
<1>1. /\ live[t] \in Seq(LiveKinds) /\ Len(live[t]) \in Nat /\ DOMAIN live[t] = 1..Len(live[t])
      /\ out \in Received
  BY LenProperties DEF AdapterInv, AdapterTypeOK
<1>2. out.snapshot[t] \in Nat /\ out.carried[t] \in Nat /\ out.lives \subseteq Tasks \X Nat
  BY <1>1 DEF Received
<1>3. ASSUME NEW m \in S PROVE m \in Nat /\ (m = 0 \/ m = out.snapshot[t] \/ <<t, m>> \in out.lives)
  <2>1. CASE m \in {u[2] : u \in {v \in out.lives : v[1] = t}}
    <3>1. PICK u \in out.lives : u[1] = t /\ m = u[2]
      BY <2>1
    <3>2. u = <<t, m>> /\ m \in Nat
      BY <1>2, <3>1
    <3>3. QED
      BY <3>1, <3>2
  <2>2. CASE m \in {0, out.snapshot[t]}
    BY <1>2, <2>2
  <2>3. QED
    BY <2>1, <2>2
<1>4. \A m \in S : m <= Len(live[t]) + out.snapshot[t]
  <2> TAKE m \in S
  <2>1. CASE <<t, m>> \in out.lives
    <3>1. m \in DOMAIN live[t]
      BY <2>1 DEF AdapterInv, NoHoles
    <3>2. QED
      BY <1>1, <1>2, <3>1
  <2>2. CASE m = 0 \/ m = out.snapshot[t]
    BY <1>1, <1>2, <2>2
  <2>3. QED
    BY <1>3, <2>1, <2>2
<1>5. k \in S /\ k = Max(S)
  <2>1. S \subseteq Nat /\ S # {} /\ Len(live[t]) + out.snapshot[t] \in Nat
    BY <1>1, <1>2, <1>3
  <2>2. k = Max(S)
    BY DEF LiveCursor
  <2> HIDE DEF S, k
  <2>3. QED
    BY <1>4, <2>1, <2>2, MaxIsLargest
<1>6. k \in Nat /\ (k = 0 \/ k = out.snapshot[t] \/ <<t, k>> \in out.lives)
  BY <1>3, <1>5
<1> HIDE DEF k
<1>7. CASE k = 0
  <2>1. \A n \in DOMAIN live[t] : ~(n <= 0)
    BY <1>1
  <2>2. LiveTo(live, out, t, k)
    BY <1>1, <1>7, <2>1 DEF LiveTo
  <2>3. QED
    BY <1>6, <2>2 DEF k
<1>8. CASE k = out.snapshot[t]
  <2>1. k <= Len(live[t]) \/ k <= out.carried[t]
    BY <1>8 DEF AdapterInv, NoHoles
  <2>2. LiveTo(live, out, t, k)
    BY <1>8, <2>1 DEF LiveTo
  <2>3. QED
    BY <1>6, <2>2 DEF k
<1>9. CASE <<t, k>> \in out.lives
  <2>1. LiveTo(live, out, t, k)
    BY <1>9 DEF AdapterInv, NoHoles
  <2>2. QED
    BY <1>6, <2>1 DEF k
<1>10. QED
  BY <1>6, <1>7, <1>8, <1>9

\* It survives session/load, once on a connection.
LEMMA LoadSessionStep ==
  ASSUME AdapterConstants, "reload" \notin Ops, AdapterInv, LoadSession
  PROVE  AdapterInv'
<1>1. /\ taskStatus' = taskStatus /\ log' = log /\ live' = live /\ hub' = hub /\ awaited' = awaited
      /\ overflow' = overflow /\ observed' = observed /\ conn' = conn /\ loads' = loads + 1
      /\ out' = [out EXCEPT !.back = MaxLog] /\ open' = open /\ streams' = streams /\ prompts' = prompts
      /\ binding' = Fresh(Current, EventCursor, LiveCursor(Current))
      /\ handler' = [op |-> "replay", clone |-> NoBinding]
      /\ ~binding.bound /\ Started # {}
  BY DEF LoadSession, ownerVars
<1>2. out \in Received /\ loads' \in Nat
  BY <1>1 DEF AdapterInv, AdapterTypeOK
<1>3. /\ out' \in Received /\ out'.events = out.events /\ out'.again = out.again
      /\ out'.lives = out.lives /\ out'.snapshot = out.snapshot /\ out'.carried = out.carried
  BY <1>1, <1>2, BackChanges DEF AdapterConstants
<1>4. Current # 0 /\ Current \in Tasks
  <2>1. PICK t \in Tasks : taskStatus[t] # "none"
    BY <1>1 DEF Started
  <2>2. t <= Current /\ Current \in 0..MaxTask
    BY <2>1, CurrentIsLast
  <2>3. Current # 0
    BY <2>2 DEF Tasks, AdapterConstants
  <2>4. QED
    BY <2>3, CurrentIsLast
<1>5. /\ EventCursor \in Nat /\ SentTo(log, out, Current, EventCursor)
      /\ \A m \in out.events : m <= EventCursor
  BY ResumesEvents
<1>6. LiveCursor(Current) \in Nat /\ LiveTo(live, out, Current, LiveCursor(Current))
  BY <1>4, ResumesLives
<1>7. SentTo(log, out', Current, EventCursor) /\ Reached(out', EventCursor)
  BY <1>3, <1>5 DEF SentTo, Reached
<1>8. LiveTo(live, out', Current, LiveCursor(Current))
  BY <1>3, <1>6 DEF LiveTo
<1>9. /\ handler'.clone = NoBinding /\ handler'.op = "replay"
      /\ handler' \in [op : HandlerOps, clone : Bindings]
  BY <1>1, IdleTyped DEF HandlerOps
<1>10. QED
  BY <1>1, <1>2, <1>3, <1>4, <1>5, <1>6, <1>7, <1>8, <1>9, BindsFresh

-----------------------------------------------------------------------------
(* A copy stored, a stream started.                                        *)

\* The stored copy keeps generation and task; its older cursors are good too, and
\* how far they go back is noted.
LEMMA StoreKeeps ==
  ASSUME AdapterConstants, AdapterInv, NEW b \in Bindings, Store(b),
         b.bound, binding.bound, b.gen = binding.gen, b.task = binding.task, binding.task = Current,
         b.pending # NoPending => b.task # 0,
         BoundTo(log, live, out, b), handler' = IdleHandler,
         taskStatus' = taskStatus, log' = log, live' = live, hub' = hub, awaited' = awaited,
         overflow' = overflow, observed' = observed, open' = open, conn' = conn, loads' = loads,
         streams' = streams, prompts' \in Seq(Outcomes)
  PROVE  AdapterInv'
<1> DEFINE k == IF b.event < binding.event /\ b.event < out.back THEN b.event ELSE out.back
<1>1. out \in Received /\ binding \in Bindings /\ streams \subseteq Streams
  BY DEF AdapterInv, AdapterTypeOK
<1>2. b.event \in Nat /\ binding.event \in Nat /\ out.back \in Nat /\ k \in Nat
  BY <1>1 DEF Bindings, Received
<1>3. out' = [out EXCEPT !.back = k] /\ binding' = b
  BY DEF Store
<1>4. /\ out' \in Received /\ out'.events = out.events /\ out'.again = out.again
      /\ out'.lives = out.lives /\ out'.snapshot = out.snapshot /\ out'.carried = out.carried
      /\ out'.back = k
  <2> HIDE DEF k
  <2>1. QED
    BY <1>1, <1>2, <1>3, BackChanges
<1>5. AdapterTypeOK'
  BY <1>3, <1>4, IdleTyped DEF AdapterInv, AdapterTypeOK
<1>6. TasksInOrder' /\ LogInOrder'
  BY DEF AdapterInv, TasksInOrder, LogInOrder
<1>7. Current' = Current
  BY CurrentStays
<1>8. handler'.op = "idle" /\ handler'.clone.pending = NoPending
  BY DEF IdleHandler, NoBinding
<1>9. HandlerKnows'
  BY <1>3, <1>7, <1>8 DEF HandlerKnows, Cloned
<1>10. StreamsKnow'
  BY <1>3 DEF AdapterInv, StreamsKnow
<1>11. \A m \in out.events : m \in Nat
  BY <1>1 DEF Received
<1>12. BoundTo(log, live, out', b)
  BY <1>4 DEF BoundTo, SentTo, LiveTo
<1>13. Reached(out', b.event)
  <2>1. \A m \in out.events : m <= binding.event \/ out.back <= binding.event
    BY DEF AdapterInv, CursorsHold, Reached
  <2>2. ASSUME NEW m \in out.events PROVE m <= b.event \/ k <= b.event
    BY <1>2, <1>11, <2>1
  <2>3. QED
    BY <1>4, <2>2 DEF Reached
<1>14. ASSUME NEW s \in streams, binding.gen = s.gen
       PROVE  s.task = b.task /\ StreamTo(log, live, out', s)
  <2>1. s.task = binding.task /\ StreamTo(log, live, out, s)
    BY <1>14 DEF AdapterInv, CursorsHold, Owns
  <2>2. s.event \in Nat
    BY <1>1 DEF Streams
  <2>3. ASSUME NEW m \in out.events PROVE m <= s.event \/ k <= s.event
    <3>1. m <= s.event \/ out.back <= s.event
      BY <2>1 DEF StreamTo, Reached
    <3>2. QED
      BY <1>2, <1>11, <2>2, <3>1
  <2>4. Reached(out', s.event)
    BY <1>4, <2>3 DEF Reached
  <2>5. SentTo(log, out', s.task, s.event) /\ LiveTo(live, out', s.task, s.live)
    BY <1>4, <2>1 DEF StreamTo, SentTo, LiveTo
  <2>6. QED
    BY <2>1, <2>4, <2>5 DEF StreamTo
<1>15. CursorsHold'
  BY <1>3, <1>8, <1>12, <1>13, <1>14 DEF CursorsHold, Owns
<1>16. NoHoles'
  BY <1>4, HolesStay DEF AdapterInv
<1>17. QED
  BY <1>5, <1>6, <1>9, <1>10, <1>15, <1>16 DEF AdapterInv

\* The invariant survives the configuration that is stored.
LEMMA StoreConfigStep ==
  ASSUME AdapterConstants, AdapterInv, StoreConfig
  PROVE  AdapterInv'
<1> DEFINE b == handler.clone
<1>1. handler.op = "config" /\ handler \in [op : HandlerOps, clone : Bindings] /\ Store(b) /\ handler' = IdleHandler
  BY DEF AdapterInv, AdapterTypeOK, StoreConfig
<1>2. /\ b.bound /\ binding.bound /\ b.gen = binding.gen /\ b.task = binding.task
      /\ binding.task = Current /\ (b.pending # NoPending => b.task # 0) /\ b \in Bindings
  BY <1>1 DEF AdapterInv, HandlerKnows, Cloned
<1>3. BoundTo(log, live, out, b)
  BY <1>1 DEF AdapterInv, CursorsHold
<1>4. /\ taskStatus' = taskStatus /\ log' = log /\ live' = live /\ hub' = hub /\ awaited' = awaited
      /\ overflow' = overflow /\ observed' = observed /\ open' = open /\ conn' = conn
      /\ loads' = loads /\ streams' = streams /\ prompts' \in Seq(Outcomes)
  BY DEF StoreConfig, ownerVars, AdapterInv, AdapterTypeOK
<1> HIDE DEF b
<1>5. QED
  BY <1>1, <1>2, <1>3, <1>4, StoreKeeps

\* It survives the permission mode that is stored.
LEMMA StoreModeStep ==
  ASSUME AdapterConstants, AdapterInv, StoreMode
  PROVE  AdapterInv'
<1> DEFINE c == handler.clone
           b == [handler.clone EXCEPT !.mode = 1]
<1>1. handler.op = "mode" /\ handler \in [op : HandlerOps, clone : Bindings] /\ Store(b) /\ handler' = IdleHandler
  BY DEF AdapterInv, AdapterTypeOK, StoreMode
<1>2. /\ c.bound /\ binding.bound /\ c.gen = binding.gen /\ c.task = binding.task
      /\ binding.task = Current /\ (c.pending # NoPending => c.task # 0) /\ c \in Bindings
  BY <1>1 DEF AdapterInv, HandlerKnows, Cloned
<1>3. /\ b \in Bindings /\ b.bound = c.bound /\ b.gen = c.gen /\ b.task = c.task
      /\ b.pending = c.pending /\ b.event = c.event /\ b.live = c.live
  <2>1. handler.clone \in Bindings
    BY <1>2
  <2>2. b \in Bindings
    BY <2>1 DEF Bindings
  <2>3. QED
    BY <2>1, <2>2 DEF Bindings
<1>4. BoundTo(log, live, out, b)
  BY <1>1, <1>3 DEF AdapterInv, CursorsHold, BoundTo
<1>5. /\ taskStatus' = taskStatus /\ log' = log /\ live' = live /\ hub' = hub /\ awaited' = awaited
      /\ overflow' = overflow /\ observed' = observed /\ open' = open /\ conn' = conn
      /\ loads' = loads /\ streams' = streams
  BY DEF StoreMode, ownerVars
<1>6. prompts' \in Seq(Outcomes)
  BY OutcomeTyped DEF StoreMode, Outcome, Outcomes, AdapterInv, AdapterTypeOK
<1> HIDE DEF b, c
<1>7. QED
  BY <1>1, <1>2, <1>3, <1>4, <1>5, <1>6, StoreKeeps

\* A stream of the next generation takes the session over from its cursors.
LEMMA StreamStarts ==
  ASSUME AdapterConstants, AdapterInv, NEW b \in Bindings, b.bound, binding.bound,
         b.gen = binding.gen + 1, b.task = Current, Current # 0,
         NEW kind \in {"prompt", "replay"}, NEW id \in Nat,
         binding' = b, streams' = streams \cup {Stream(kind, id, b)}, handler' = IdleHandler,
         taskStatus' = taskStatus, log' = log, live' = live, hub' = hub, awaited' = awaited,
         overflow' = overflow, observed' = observed, open' = open, conn' = conn, loads' = loads,
         prompts' \in Seq(Outcomes), out' \in Received,
         BoundTo(log, live, out', b), Reached(out', b.event), NoHoles'
  PROVE  AdapterInv'
<1> DEFINE r == Stream(kind, id, b)
<1>1. /\ binding \in Bindings /\ streams \subseteq Streams /\ live \in [Tasks -> Seq(LiveKinds)]
      /\ Len(log) \in Nat
  BY DEF AdapterInv, AdapterTypeOK
<1>2. b.task \in Tasks /\ b.event \in Nat /\ b.live \in Nat /\ b.gen \in Nat /\ binding.gen \in Nat
  BY <1>1, CurrentIsLast DEF Bindings
<1>3. /\ r \in Streams /\ r.task = b.task /\ r.event = b.event /\ r.live = b.live /\ r.gen = b.gen
      /\ r.pc = "events" /\ r.upto = 0 /\ r.page.updates = {}
  BY <1>2 DEF Stream, Streams, Pages
<1>4. streams' = streams \cup {r}
  OBVIOUS
<1> HIDE DEF r
<1>5. AdapterTypeOK'
  BY <1>1, <1>3, <1>4, IdleTyped DEF AdapterInv, AdapterTypeOK
<1>6. TasksInOrder' /\ LogInOrder'
  BY DEF AdapterInv, TasksInOrder, LogInOrder
<1>7. handler'.op = "idle" /\ handler'.clone.pending = NoPending /\ Current' = Current
  BY CurrentStays DEF IdleHandler, NoBinding
<1>8. HandlerKnows'
  BY <1>7 DEF HandlerKnows, Cloned
<1>9. \A s \in streams : s.gen \in Nat /\ s.gen <= binding.gen
  BY <1>1 DEF Streams, AdapterInv, StreamsKnow
<1>10. \A s \in streams : s.gen <= b.gen /\ s.gen # b.gen
  BY <1>2, <1>9
<1>11. StreamsKnow'
  <2>1. \A s \in streams' : s.gen <= b.gen /\ s.upto <= Len(log)
    <3>1. \A s \in streams : s.upto <= Len(log)
      BY DEF AdapterInv, StreamsKnow
    <3>2. r.gen <= b.gen /\ r.upto <= Len(log)
      BY <1>1, <1>2, <1>3
    <3>3. QED
      BY <1>4, <1>10, <3>1, <3>2
  <2>2. \A s, q \in streams' : s.gen = q.gen => s = q
    BY <1>3, <1>4, <1>10 DEF AdapterInv, StreamsKnow
  <2>3. \A s \in streams' : s.page.updates \subseteq DOMAIN live[s.task]
    BY <1>3, <1>4 DEF AdapterInv, StreamsKnow
  <2>4. QED
    BY <2>1, <2>2, <2>3 DEF StreamsKnow
<1>12. SentTo(log, out', b.task, b.event) /\ LiveTo(live, out', b.task, b.live)
  BY DEF BoundTo
<1>13. StreamTo(log, live, out', r)
  BY <1>3, <1>12 DEF StreamTo
<1>14. \A s \in streams' : b.gen = s.gen => s = r
  BY <1>4, <1>10
<1>15. CursorsHold'
  BY <1>3, <1>7, <1>13, <1>14 DEF CursorsHold, Owns
<1>16. QED
  BY <1>5, <1>6, <1>8, <1>11, <1>15 DEF AdapterInv

\* It survives the start of a replay.
LEMMA StartReplayStep ==
  ASSUME AdapterConstants, AdapterInv, StartReplay
  PROVE  AdapterInv'
<1> DEFINE b == [binding EXCEPT !.gen = @ + 1]
<1>1. handler.op = "replay" /\ binding \in Bindings /\ loads \in Nat /\ out \in Received
  BY DEF AdapterInv, AdapterTypeOK, StartReplay
<1>2. binding.bound /\ binding.task = Current /\ Current # 0
  BY <1>1 DEF AdapterInv, HandlerKnows
<1>3. /\ b \in Bindings /\ b.bound /\ b.gen = binding.gen + 1 /\ b.task = binding.task
      /\ b.event = binding.event /\ b.live = binding.live
  BY <1>1, <1>2 DEF Bindings
<1>4. BoundTo(log, live, out, b) /\ Reached(out, b.event)
  BY <1>2, <1>3 DEF AdapterInv, CursorsHold, BoundTo
<1>5. /\ taskStatus' = taskStatus /\ log' = log /\ live' = live /\ hub' = hub /\ awaited' = awaited
      /\ overflow' = overflow /\ observed' = observed /\ open' = open /\ conn' = conn
      /\ loads' = loads /\ prompts' \in Seq(Outcomes) /\ out' = out /\ handler' = IdleHandler
      /\ binding' = b /\ streams' = streams \cup {Stream("replay", loads, b)}
  BY DEF StartReplay, ownerVars, AdapterInv, AdapterTypeOK
<1>6. NoHoles'
  BY <1>5 DEF AdapterInv, NoHoles
<1> HIDE DEF b
<1>7. QED
  BY <1>1, <1>2, <1>3, <1>4, <1>5, <1>6, StreamStarts

\* It survives the binding of a prompt, which may be to a new task.
LEMMA BindPromptStep ==
  ASSUME AdapterConstants, AdapterInv, BindPrompt
  PROVE  AdapterInv'
<1> DEFINE b == [handler.clone EXCEPT !.active = TRUE, !.gen = binding.gen + 1,
                   !.event = binding.event, !.live = binding.live]
<1>1. /\ handler.op = "bind" /\ handler \in [op : HandlerOps, clone : Bindings] /\ binding \in Bindings
      /\ prompts \in Seq(Outcomes) /\ out \in Received /\ log \in Seq(Events)
      /\ live \in [Tasks -> Seq(LiveKinds)] /\ handler.clone \in Bindings
  BY DEF AdapterInv, AdapterTypeOK, BindPrompt
<1>2. /\ binding.bound /\ handler.clone.bound /\ handler.clone.task = Current /\ Current # 0
      /\ binding.task <= Current
  BY <1>1 DEF AdapterInv, HandlerKnows
<1>3. /\ b \in Bindings /\ b.bound /\ b.gen = binding.gen + 1 /\ b.task = Current
      /\ b.event = binding.event /\ b.live = binding.live
  <2>1. handler.clone \in Bindings /\ binding.gen \in Nat /\ binding.event \in Nat /\ binding.live \in Nat
    BY <1>1 DEF Bindings
  <2>2. b \in Bindings
    <3> DEFINE b1 == [handler.clone EXCEPT !.active = TRUE]
               b2 == [b1 EXCEPT !.gen = binding.gen + 1]
               b3 == [b2 EXCEPT !.event = binding.event]
               b4 == [b3 EXCEPT !.live = binding.live]
    <3>1. b1 \in Bindings
      BY <2>1 DEF Bindings
    <3>2. b2 \in Bindings
      <4> HIDE DEF b1
      <4>1. QED
        BY <2>1, <3>1 DEF Bindings
    <3>3. b3 \in Bindings
      <4> HIDE DEF b2
      <4>1. QED
        BY <2>1, <3>2 DEF Bindings
    <3>4. b4 \in Bindings
      <4> HIDE DEF b3
      <4>1. QED
        BY <2>1, <3>3 DEF Bindings
    <3>5. b = b4
      BY <2>1 DEF Bindings
    <3>6. QED
      BY <3>4, <3>5
  <2>3. b.gen = binding.gen + 1 /\ b.event = binding.event /\ b.live = binding.live
    BY <2>1 DEF Bindings
  <2>4. b.bound = handler.clone.bound /\ b.task = handler.clone.task
    BY <2>1 DEF Bindings
  <2>5. QED
    BY <1>2, <2>2, <2>3, <2>4
<1>4. /\ taskStatus' = taskStatus /\ log' = log /\ live' = live /\ hub' = hub /\ awaited' = awaited
      /\ overflow' = overflow /\ observed' = observed /\ open' = open /\ conn' = conn
      /\ loads' = loads /\ handler' = IdleHandler
      /\ binding' = b /\ streams' = streams \cup {Stream("prompt", Len(prompts), b)}
      /\ out' = IF b.task # binding.task
                  THEN [out EXCEPT !.carried[b.task] = Larger(@, b.live)]
                  ELSE out
  BY DEF BindPrompt, ownerVars
<1>5. prompts' \in Seq(Outcomes) /\ Len(prompts) \in Nat
  BY <1>1, OutcomeTyped DEF BindPrompt, Outcome, Outcomes
<1> HIDE DEF b
<1>6. BoundTo(log, live, out, binding) /\ Reached(out, binding.event)
  BY <1>2 DEF AdapterInv, CursorsHold
<1>7. Current \in Tasks /\ Current \in Nat /\ binding.task \in Nat
  BY <1>1, <1>2, CurrentIsLast DEF Bindings, AdapterConstants
<1>8. CASE b.task = binding.task
  <2>1. out' = out
    BY <1>4, <1>8
  <2>2. BoundTo(log, live, out', b) /\ Reached(out', b.event)
    BY <1>3, <1>6, <1>8, <2>1 DEF BoundTo
  <2>3. NoHoles'
    BY <1>4, <2>1 DEF AdapterInv, NoHoles
  <2>4. "prompt" \in {"prompt", "replay"}
    OBVIOUS
  <2>5. QED
    BY <1>1, <1>2, <1>3, <1>4, <1>5, <2>1, <2>2, <2>3, <2>4, StreamStarts
<1>9. CASE b.task # binding.task
  <2> DEFINE t == b.task
             c == [out.carried EXCEPT ![t] = Larger(@, b.live)]
  <2>1. out' = [out EXCEPT !.carried = c] /\ t \in Tasks /\ b.live \in Nat /\ b.event \in Nat
    BY <1>1, <1>3, <1>4, <1>7, <1>9 DEF Bindings
  <2>2. out.carried \in [Tasks -> Nat] /\ out.snapshot \in [Tasks -> Nat]
    BY <1>1 DEF Received
  <2>3. /\ c \in [Tasks -> Nat] /\ b.live <= c[t]
        /\ \A u \in Tasks : out.carried[u] <= c[u]
    <3>1. c[t] = Larger(out.carried[t], b.live) /\ \A u \in Tasks : u # t => c[u] = out.carried[u]
      BY <2>1, <2>2
    <3>2. c[t] \in Nat /\ b.live <= c[t] /\ out.carried[t] <= c[t]
      BY <2>1, <2>2, <3>1 DEF Larger
    <3>3. c \in [Tasks -> Nat]
      BY <2>1, <2>2 DEF Larger
    <3>4. ASSUME NEW u \in Tasks PROVE out.carried[u] <= c[u]
      <4>1. out.carried[u] \in Nat
        BY <2>2
      <4>2. QED
        BY <3>1, <3>2, <4>1
    <3>5. QED
      BY <3>2, <3>3, <3>4
  <2> HIDE DEF c, t
  <2>4. /\ out' \in Received /\ out'.events = out.events /\ out'.again = out.again /\ out'.back = out.back
        /\ out'.lives = out.lives /\ out'.snapshot = out.snapshot /\ out'.carried = c
    BY <1>1, <2>1, <2>3 DEF Received
  <2>5. OutGrows(out, out')
    <3>1. \A u \in Tasks : out.snapshot[u] \in Nat /\ out.snapshot[u] <= out'.snapshot[u]
      BY <2>2, <2>4
    <3>2. QED
      BY <2>3, <2>4, <3>1 DEF OutGrows
  <2>6. SentTo(log, out', t, b.event)
    <3>1. t \in Nat /\ binding.task < t
      BY <1>2, <1>3, <1>7, <1>9 DEF t
    <3>2. b.event = 0 \/ (b.event \in DOMAIN log /\ log[b.event].task <= binding.task)
      BY <1>3, <1>6 DEF BoundTo, SentTo
    <3>3. \A n \in DOMAIN log : log[n].task \in Nat /\ n \in Nat /\ n # 0
      <4> TAKE n \in DOMAIN log
      <4>1. n \in 1..Len(log) /\ Len(log) \in Nat
        BY <1>1
      <4>2. log[n] \in Events
        BY <1>1, <4>1, ElementOfSeq
      <4>3. QED
        BY <4>1, <4>2 DEF Events, Tasks, AdapterConstants
    <3>4. b.event = 0 \/ (b.event \in DOMAIN log /\ log[b.event].task <= t)
      BY <1>7, <3>1, <3>2, <3>3
    <3>5. ASSUME NEW n \in DOMAIN log, n <= b.event, log[n].task = t PROVE FALSE
      <4>1. b.event \in DOMAIN log /\ log[b.event].task <= binding.task
        BY <2>1, <3>2, <3>3, <3>5
      <4>2. log[n].task <= log[b.event].task
        BY <3>5, <4>1 DEF AdapterInv, LogInOrder
      <4>3. QED
        BY <1>7, <3>1, <3>3, <3>5, <4>1, <4>2
    <3>6. QED
      BY <3>4, <3>5 DEF SentTo
  <2>7. LiveTo(live, out', t, b.live)
    <3>1. \A n \in DOMAIN live[t] : n <= b.live => n <= c[t]
      <4> TAKE n \in DOMAIN live[t]
      <4>1. live[t] \in Seq(LiveKinds)
        BY <1>1, <2>1
      <4>2. n \in Nat /\ c[t] \in Nat
        BY <2>1, <2>3, <4>1
      <4>3. QED
        BY <2>1, <2>3, <4>2
    <3>2. QED
      BY <2>3, <2>4, <3>1 DEF LiveTo
  <2>8. BoundTo(log, live, out', b) /\ Reached(out', b.event)
    <3>1. Reached(out', b.event)
      BY <1>3, <1>6, <2>4 DEF Reached
    <3>2. QED
      BY <2>6, <2>7, <3>1 DEF BoundTo, t
  <2>9. NoHoles'
    <3>1. \A m \in out.events : m \in DOMAIN log /\ SentTo(log, out', log[m].task, m)
      BY <2>4 DEF AdapterInv, NoHoles, SentTo
    <3>2. ASSUME NEW u \in out.lives PROVE u[2] \in DOMAIN live[u[1]] /\ LiveTo(live, out', u[1], u[2])
      <4>1. u[1] \in Tasks /\ u[2] \in Nat
        BY <1>1 DEF Received
      <4>2. u[2] \in DOMAIN live[u[1]] /\ LiveTo(live, out, u[1], u[2])
        BY DEF AdapterInv, NoHoles
      <4>3. LivesGrow(live, live)
        BY NothingNew DEF AdapterInv
      <4>4. QED
        BY <1>1, <2>4, <2>5, <4>1, <4>2, <4>3, LiveGrows
    <3>3. ASSUME NEW u \in Tasks PROVE out.snapshot[u] <= Len(live[u]) \/ out.snapshot[u] <= c[u]
      <4>1. out.snapshot[u] <= Len(live[u]) \/ out.snapshot[u] <= out.carried[u]
        BY DEF AdapterInv, NoHoles
      <4>2. out.snapshot[u] \in Nat /\ out.carried[u] \in Nat /\ c[u] \in Nat /\ out.carried[u] <= c[u]
        BY <2>2, <2>3
      <4>3. QED
        BY <4>1, <4>2
    <3>4. out'.again = {} /\ \A u \in Tasks : hub[u] <= Len(live[u])
      BY <2>4 DEF AdapterInv, NoHoles
    <3>5. QED
      BY <1>4, <2>4, <3>1, <3>2, <3>3, <3>4 DEF NoHoles
  <2>10. "prompt" \in {"prompt", "replay"}
    OBVIOUS
  <2>11. QED
    BY <1>1, <1>2, <1>3, <1>4, <1>5, <2>4, <2>8, <2>9, <2>10, StreamStarts
<1>10. QED
  BY <1>8, <1>9

-----------------------------------------------------------------------------
(* Pages of live updates.                                                  *)

\* A page g of the updates U ends at the last of them.
EndsWith(g, U, after) ==
  /\ g \in Pages /\ g.updates = U /\ ~g.snapshot
  /\ U = {} => g.next = after
  /\ U # {} => g.next \in U
  /\ \A n \in U : n <= g.next

\* So does every page of updates.
LEMMA UpdatePageEnds ==
  ASSUME NEW L \in Nat, NEW U, U \subseteq 1..L, NEW after \in Nat
  PROVE  EndsWith(UpdatePage(U, after), U, after)
<1> DEFINE x == IF U = {} THEN after ELSE Max(U)
<1>1. /\ U = {} => x = after
      /\ U # {} => x \in U /\ \A n \in U : n <= x
  <2>1. ASSUME U # {} PROVE Max(U) \in U /\ \A n \in U : n <= Max(U)
    <3>1. U \subseteq Nat /\ \A n \in U : n <= L
      OBVIOUS
    <3>2. QED
      BY <2>1, <3>1, MaxIsLargest
  <2>2. QED
    BY <2>1
<1>2. x \in Nat /\ U \in SUBSET Nat
  <2>1. U \subseteq Nat
    OBVIOUS
  <2>2. CASE U = {}
    BY <1>1, <2>1, <2>2
  <2>3. CASE U # {}
    <3> HIDE DEF x
    <3>1. QED
      BY <1>1, <2>1, <2>3
  <2>4. QED
    BY <2>2, <2>3
<1>3. UpdatePage(U, after) = [updates |-> U, next |-> x, snapshot |-> FALSE]
  BY DEF UpdatePage
<1> HIDE DEF x
<1>4. QED
  BY <1>1, <1>2, <1>3 DEF Pages, EndsWith

\* A page leaves nothing out between the cursor it was read at and its own
\* (live_update_page).
LEMMA PageIsWhole ==
  ASSUME AdapterConstants, AdapterInv, NEW t \in Tasks, NEW after \in Nat
  PROVE  /\ Page(t, after) \in Pages /\ Page(t, after).updates \subseteq DOMAIN live[t]
         /\ Page(t, after).next <= Len(live[t]) \/ Page(t, after).next <= after
         /\ Page(t, after).snapshot => Page(t, after).updates = {}
         /\ ~Page(t, after).snapshot =>
              \A n \in DOMAIN live[t] :
                after < n /\ n <= Page(t, after).next => n \in Page(t, after).updates
         /\ \A n \in Page(t, after).updates : n <= Page(t, after).next
<1> DEFINE L == Len(live[t])
           F == FirstAfter(t, after)
           again == F = {} /\ hub[t] # 0 /\ hub[t] <= after
           U == IF again THEN {hub[t]} ELSE F
           P == Page(t, after)
<1>1. live[t] \in Seq(LiveKinds) /\ L \in Nat /\ DOMAIN live[t] = 1..L /\ hub[t] \in Nat /\ hub[t] <= L
  BY LenProperties DEF AdapterInv, AdapterTypeOK, NoHoles
<1>2. LiveCapacity \in Nat /\ PageLimit \in Nat
  BY DEF AdapterConstants
<1>3. Ring(t) = {n \in 1..L : n + LiveCapacity > L}
  BY <1>1 DEF Ring
<1>4. CASE overflow > observed[t] \/ Gap(t, after)
  <2>1. P = SnapshotPage(t, after)
    BY <1>4 DEF Page
  <2>2. CASE Ring(t) = {}
    <3>1. P = [updates |-> {}, next |-> after, snapshot |-> TRUE]
      BY <2>1, <2>2 DEF SnapshotPage
    <3> HIDE DEF P
    <3>2. P \in Pages /\ P.updates = {} /\ P.next <= after /\ P.snapshot
      BY <3>1 DEF Pages
    <3>3. QED
      BY <3>2 DEF P
  <2>3. CASE Ring(t) # {}
    <3>1. P = [updates |-> {}, next |-> L, snapshot |-> TRUE]
      BY <2>1, <2>3 DEF SnapshotPage
    <3> HIDE DEF P
    <3>2. P \in Pages /\ P.updates = {} /\ P.next <= L /\ P.snapshot
      BY <1>1, <3>1 DEF Pages
    <3>3. QED
      BY <3>2 DEF P
  <2>4. QED
    BY <2>2, <2>3
<1>5. CASE ~(overflow > observed[t] \/ Gap(t, after))
  <2>1. P = UpdatePage(U, after)
    BY <1>5 DEF Page
  <2>2. F = {n \in Ring(t) : after < n /\ n <= after + PageLimit}
    BY DEF FirstAfter
  <2>3. U \in SUBSET (1..L)
    BY <1>1, <1>3, <2>2
  <2>4. again => U = {hub[t]} /\ hub[t] <= after
    OBVIOUS
  <2>5. ~again => U = F
    OBVIOUS
  <2> HIDE DEF U, P, L, F, again
  <2>6. /\ P \in Pages /\ P.updates = U /\ ~P.snapshot /\ (U = {} => P.next = after)
        /\ (U # {} => P.next \in U) /\ \A n \in U : n <= P.next
    <3>1. L \in Nat
      BY <1>1
    <3>2. U \subseteq 1..L
      BY <2>3
    <3>3. EndsWith(P, U, after)
      BY <2>1, <3>1, <3>2, UpdatePageEnds
    <3>4. QED
      BY <3>3 DEF EndsWith
  <2>7. P.next <= L \/ P.next <= after
    <3>1. CASE U = {}
      BY <2>6, <3>1
    <3>2. CASE U # {}
      <4>1. P.next \in 1..L
        BY <2>3, <2>6, <3>2
      <4>2. QED
        BY <4>1
    <3>3. QED
      BY <3>1, <3>2
  <2>8. ASSUME NEW n \in 1..L, after < n, n <= P.next PROVE n \in U
    <3>1. U # {} /\ P.next \in U /\ P.next \in 1..L
      <4>1. L \in Nat
        BY <1>1
      <4>2. U # {}
        BY <2>6, <2>8, <4>1
      <4>3. QED
        BY <2>3, <2>6, <4>2
    <3>2. ~again
      <4>1. ASSUME again PROVE FALSE
        <5>1. P.next = hub[t] /\ hub[t] <= after
          BY <2>4, <3>1, <4>1
        <5>2. QED
          BY <1>1, <2>8, <5>1
      <4>2. QED
        BY <4>1
    <3>3. P.next \in Ring(t) /\ P.next <= after + PageLimit
      BY <2>2, <2>5, <3>1, <3>2
    <3>4. PICK k \in Ring(t) : k <= after + 1
      <4>1. Ring(t) # {} /\ ~(after + 1 < Min(Ring(t)))
        BY <1>5, <3>3 DEF Gap
      <4>2. Ring(t) \subseteq Nat
        BY <1>1, <1>3
      <4>3. Min(Ring(t)) \in Ring(t)
        BY <4>1, <4>2, MinIsLeast
      <4>4. QED
        BY <4>1, <4>2, <4>3
    <3>5. k \in 1..L /\ k + LiveCapacity > L
      BY <1>3, <3>4
    <3>6. n + LiveCapacity > L
      BY <1>1, <1>2, <2>8, <3>4, <3>5
    <3>7. n \in Ring(t)
      BY <1>3, <3>6
    <3>8. n <= after + PageLimit
      BY <1>1, <1>2, <2>8, <3>1, <3>3
    <3>9. QED
      BY <2>2, <2>5, <2>8, <3>2, <3>7, <3>8
  <2>9. QED
    BY <1>1, <2>3, <2>6, <2>7, <2>8 DEF P, L
<1>6. QED
  BY <1>4, <1>5

-----------------------------------------------------------------------------
(* Streams that end or go on without storing anything.                     *)

\* What a stream leaves alone.
StreamOnly ==
  /\ taskStatus' = taskStatus /\ log' = log /\ live' = live /\ hub' = hub /\ awaited' = awaited
  /\ overflow' = overflow /\ observed' \in [Tasks -> Nat] /\ open' = open /\ conn' = conn /\ loads' = loads
  /\ handler' = handler /\ prompts' \in Seq(Outcomes)

\* A stream goes on as r, or ends.
LEMMA StreamMoves ==
  ASSUME AdapterConstants, AdapterInv, StreamOnly, binding' = binding, out' = out,
         NEW s \in streams, NEW r \in Streams, streams' \subseteq (streams \ {s}) \cup {r},
         r.gen = s.gen, r.task = s.task, r.event = s.event, r.live = s.live, r.upto <= Len(log),
         r.page.updates \subseteq DOMAIN live[r.task],
         r.pc = "live" => r = s \/ PageFits(live, r)
  PROVE  AdapterInv'
<1> USE DEF StreamOnly
<1>1. AdapterTypeOK'
  BY DEF AdapterInv, AdapterTypeOK
<1>2. TasksInOrder' /\ LogInOrder'
  BY DEF AdapterInv, TasksInOrder, LogInOrder
<1>3. Current' = Current
  BY CurrentStays
<1>4. HandlerKnows'
  BY <1>3 DEF AdapterInv, HandlerKnows
<1>5. \A q \in streams' : q = r \/ (q \in streams /\ q # s)
  OBVIOUS
<1>6. StreamsKnow'
  <2>1. ~binding.bound => streams' = {}
    BY DEF AdapterInv, StreamsKnow
  <2>2. \A q \in streams' : q.gen <= binding.gen /\ q.upto <= Len(log)
    BY <1>5 DEF AdapterInv, StreamsKnow
  <2>3. \A q, p \in streams' : q.gen = p.gen => q = p
    BY <1>5 DEF AdapterInv, StreamsKnow
  <2>4. \A q \in streams' : q.page.updates \subseteq DOMAIN live[q.task]
    BY <1>5 DEF AdapterInv, StreamsKnow
  <2>5. QED
    BY <2>1, <2>2, <2>3, <2>4 DEF StreamsKnow
<1>7. ASSUME NEW q \in streams', Owns(q) PROVE q.task = binding.task /\ StreamTo(log, live, out, q)
  <2>1. CASE q # r
    BY <1>5, <1>7, <2>1 DEF AdapterInv, CursorsHold
  <2>2. CASE q = r
    <3>1. s.task = binding.task /\ StreamTo(log, live, out, s)
      BY <1>7, <2>2 DEF AdapterInv, CursorsHold, Owns
    <3>2. r.pc = "live" => PageFits(live, r)
      BY <3>1 DEF StreamTo
    <3>3. QED
      BY <2>2, <3>1, <3>2 DEF StreamTo
  <2>3. QED
    BY <2>1, <2>2
<1>8. CursorsHold'
  BY <1>7 DEF AdapterInv, CursorsHold, Owns
<1>9. NoHoles'
  BY DEF AdapterInv, NoHoles
<1>10. QED
  BY <1>1, <1>2, <1>4, <1>6, <1>8, <1>9 DEF AdapterInv

\* A stream ends.
LEMMA StreamEnds ==
  ASSUME AdapterConstants, AdapterInv, StreamOnly, binding' = binding, out' = out,
         NEW s \in streams, Quit(s)
  PROVE  AdapterInv'
<1>1. s \in Streams /\ s.upto <= Len(log) /\ s.page.updates \subseteq DOMAIN live[s.task]
  BY DEF AdapterInv, AdapterTypeOK, StreamsKnow
<1>2. streams' \subseteq (streams \ {s}) \cup {s}
  BY DEF Quit
<1>3. QED
  BY <1>1, <1>2, StreamMoves

\* The answer a stream gives is an outcome.
LEMMA AnswerTyped ==
  ASSUME AdapterInv, NEW s, NEW what \in Outcomes, AnswerPrompt(s, what) \/ UNCHANGED prompts
  PROVE  prompts' \in Seq(Outcomes)
<1>1. prompts \in Seq(Outcomes)
  BY DEF AdapterInv, AdapterTypeOK
<1>2. CASE UNCHANGED prompts
  BY <1>1, <1>2
<1>3. CASE prompts' = [prompts EXCEPT ![s.id] = what]
  BY <1>1, <1>3, OutcomeTyped
<1>4. QED
  BY <1>2, <1>3 DEF AnswerPrompt, Outcome

\* The invariant survives a stream that lost the session, failed, or failed to publish.
LEMMA QuitStep ==
  ASSUME AdapterConstants, AdapterInv, NEW s \in streams,
         LoseStream(s) \/ FailStream(s) \/ FailPublisher(s)
  PROVE  AdapterInv'
<1>1. Quit(s) /\ binding' = binding /\ out' = out
  BY DEF LoseStream, FailStream, FailPublisher
<1>2. prompts' \in Seq(Outcomes)
  <2>1. AnswerPrompt(s, "failed") \/ UNCHANGED prompts
    BY DEF LoseStream, FailStream, FailPublisher
  <2>2. "failed" \in Outcomes
    BY DEF Outcomes
  <2>3. QED
    BY <2>1, <2>2, AnswerTyped
<1>3. observed' = observed /\ observed \in [Tasks -> Nat]
  BY DEF LoseStream, FailStream, FailPublisher, ownerVars, AdapterInv, AdapterTypeOK
<1>4. StreamOnly
  BY <1>2, <1>3 DEF StreamOnly, LoseStream, FailStream, FailPublisher, ownerVars
<1>5. QED
  BY <1>1, <1>4, StreamEnds

\* It survives the reading of events, updates and status.
LEMMA FetchStep ==
  ASSUME AdapterConstants, AdapterInv, NEW s \in streams,
         FetchEvents(s) \/ FetchLive(s) \/ FetchStatus(s)
  PROVE  AdapterInv'
<1>1. /\ s \in Streams /\ s.upto <= Len(log) /\ s.page.updates \subseteq DOMAIN live[s.task]
      /\ Len(log) \in Nat /\ s.task \in Tasks /\ s.live \in Nat
      /\ observed \in [Tasks -> Nat] /\ overflow \in Nat /\ prompts \in Seq(Outcomes)
  BY DEF AdapterInv, AdapterTypeOK, StreamsKnow, Streams
<1>2. CASE FetchEvents(s)
  <2> DEFINE r == [s EXCEPT !.pc = "deliver", !.upto = Len(log)]
  <2>1. /\ r \in Streams /\ r.gen = s.gen /\ r.task = s.task /\ r.event = s.event /\ r.live = s.live
        /\ r.upto = Len(log) /\ r.page = s.page /\ r.pc = "deliver"
    BY <1>1 DEF Streams
  <2>2. streams' = (streams \ {s}) \cup {r} /\ binding' = binding /\ out' = out
    BY <1>2 DEF FetchEvents, Become
  <2>3. StreamOnly
    BY <1>1, <1>2 DEF StreamOnly, FetchEvents, ownerVars
  <2> HIDE DEF r
  <2>4. r.upto <= Len(log) /\ r.page.updates \subseteq DOMAIN live[r.task]
    BY <1>1, <2>1
  <2>5. QED
    BY <2>1, <2>2, <2>3, <2>4, StreamMoves
<1>3. CASE FetchLive(s)
  <2> DEFINE g == Page(s.task, s.live)
             r == [s EXCEPT !.pc = "live", !.page = g]
  <2>1. /\ g \in Pages /\ g.updates \subseteq DOMAIN live[s.task]
        /\ g.next <= Len(live[s.task]) \/ g.next <= s.live
        /\ g.snapshot => g.updates = {}
        /\ ~g.snapshot => \A n \in DOMAIN live[s.task] : s.live < n /\ n <= g.next => n \in g.updates
        /\ \A n \in g.updates : n <= g.next
    BY <1>1, PageIsWhole
  <2>2. streams' = (streams \ {s}) \cup {r} /\ binding' = binding /\ out' = out
    BY <1>3 DEF FetchLive, Become
  <2> HIDE DEF g
  <2>3. /\ r \in Streams /\ r.gen = s.gen /\ r.task = s.task /\ r.event = s.event /\ r.live = s.live
        /\ r.upto = s.upto /\ r.page = g /\ r.pc = "live"
    BY <1>1, <2>1 DEF Streams
  <2> HIDE DEF r
  <2>4. PageFits(live, r)
    BY <2>1, <2>3 DEF PageFits
  <2>5. observed' \in [Tasks -> Nat]
    BY <1>1, <1>3 DEF FetchLive
  <2>6. StreamOnly
    BY <1>1, <1>3, <2>5 DEF StreamOnly, FetchLive
  <2>7. r.upto <= Len(log) /\ r.page.updates \subseteq DOMAIN live[r.task]
    BY <1>1, <2>1, <2>3
  <2>8. QED
    BY <2>2, <2>3, <2>4, <2>6, <2>7, StreamMoves
<1>4. CASE FetchStatus(s)
  <2>1. PICK pc \in {"events", "finish"} : streams' = (streams \ {s}) \cup {[s EXCEPT !.pc = pc]}
    BY <1>4 DEF FetchStatus, Become
  <2> DEFINE r == [s EXCEPT !.pc = pc]
  <2>2. /\ r \in Streams /\ r.gen = s.gen /\ r.task = s.task /\ r.event = s.event /\ r.live = s.live
        /\ r.upto = s.upto /\ r.page = s.page /\ r.pc = pc
    BY <1>1 DEF Streams
  <2>3. streams' = (streams \ {s}) \cup {r} /\ binding' = binding /\ out' = out
    BY <1>4, <2>1 DEF FetchStatus
  <2>4. StreamOnly
    BY <1>1, <1>4 DEF StreamOnly, FetchStatus, ownerVars
  <2> HIDE DEF r
  <2>5. r.upto <= Len(log) /\ r.page.updates \subseteq DOMAIN live[r.task] /\ r.pc # "live"
    BY <1>1, <2>2
  <2>6. QED
    BY <2>2, <2>3, <2>4, <2>5, StreamMoves
<1>5. QED
  BY <1>2, <1>3, <1>4

-----------------------------------------------------------------------------
(* Streams that write to the client and store their cursors.               *)

\* The stream that owns the session stores a binding and goes on as r, or ends.
LEMMA OwnerStores ==
  ASSUME AdapterConstants, AdapterInv, StreamOnly, NEW s \in streams, Owns(s),
         NEW b \in Bindings, binding' = b, b.bound, b.gen = binding.gen, b.task = binding.task,
         b.pending # NoPending => b.task # 0,
         out' \in Received, OutGrows(out, out'),
         BoundTo(log, live, out', b), Reached(out', b.event),
         NEW r \in Streams, streams' \subseteq (streams \ {s}) \cup {r},
         r.gen = s.gen, r.task = s.task, r.upto <= Len(log),
         r.page.updates \subseteq DOMAIN live[r.task],
         r \in streams' => StreamTo(log, live, out', r),
         NoHoles'
  PROVE  AdapterInv'
<1>1. /\ taskStatus' = taskStatus /\ log' = log /\ live' = live /\ handler' = handler
      /\ binding.bound /\ binding.gen = s.gen
  BY DEF StreamOnly, Owns
<1>2. AdapterTypeOK'
  BY DEF StreamOnly, AdapterInv, AdapterTypeOK
<1>3. TasksInOrder' /\ LogInOrder'
  BY <1>1 DEF AdapterInv, TasksInOrder, LogInOrder
<1>4. Current' = Current
  BY <1>1, CurrentStays
<1>5. HandlerKnows'
  BY <1>1, <1>4 DEF AdapterInv, HandlerKnows
<1>6. \A q \in streams' : q = r \/ (q \in streams /\ q # s)
  OBVIOUS
<1>7. StreamsKnow'
  <2>1. \A q \in streams' : q.gen <= b.gen /\ q.upto <= Len(log)
    BY <1>6 DEF AdapterInv, StreamsKnow
  <2>2. \A q, p \in streams' : q.gen = p.gen => q = p
    BY <1>6 DEF AdapterInv, StreamsKnow
  <2>3. \A q \in streams' : q.page.updates \subseteq DOMAIN live[q.task]
    BY <1>6 DEF AdapterInv, StreamsKnow
  <2>4. QED
    BY <1>1, <2>1, <2>2, <2>3 DEF StreamsKnow
<1>8. ASSUME NEW q \in streams', b.gen = q.gen
      PROVE  q.task = b.task /\ StreamTo(log, live, out', q)
  <2>1. q = r
    BY <1>1, <1>6, <1>8 DEF AdapterInv, StreamsKnow
  <2>2. s.task = binding.task
    BY DEF AdapterInv, CursorsHold
  <2>3. QED
    BY <2>1, <2>2
<1>9. ASSUME handler.op \in {"config", "mode"} PROVE BoundTo(log, live, out', handler.clone)
  <2>1. BoundTo(log, live, out, handler.clone) /\ handler.clone \in Bindings
    BY <1>9 DEF AdapterInv, CursorsHold, AdapterTypeOK
  <2>2. /\ log \in Seq(Events) /\ live \in [Tasks -> Seq(LiveKinds)] /\ out \in Received
        /\ LogGrows(log, log) /\ LivesGrow(live, live)
    BY NothingNew DEF AdapterInv, AdapterTypeOK
  <2>3. QED
    BY <2>1, <2>2, BoundGrows
<1>10. CursorsHold'
  BY <1>1, <1>8, <1>9 DEF CursorsHold, Owns
<1>11. QED
  BY <1>2, <1>3, <1>5, <1>7, <1>10 DEF AdapterInv

\* What the owner of the session knows of itself.
LEMMA OwnerKnows ==
  ASSUME AdapterConstants, AdapterInv, NEW s \in streams, Owns(s)
  PROVE  /\ s \in Streams /\ s.task \in Tasks /\ s.task \in Nat /\ s.task # 0
         /\ s.event \in Nat /\ s.live \in Nat /\ s.upto \in Nat
         /\ binding \in Bindings /\ binding.bound /\ binding.task = s.task
         /\ binding.event \in Nat /\ binding.live \in Nat
         /\ out \in Received /\ log \in Seq(Events) /\ live \in [Tasks -> Seq(LiveKinds)]
         /\ Len(log) \in Nat /\ DOMAIN log = 1..Len(log) /\ s.upto <= Len(log)
         /\ Len(live[s.task]) \in Nat /\ DOMAIN live[s.task] = 1..Len(live[s.task])
         /\ s.page.updates \subseteq DOMAIN live[s.task]
         /\ s.page \in Pages /\ s.page.next \in Nat
         /\ StreamTo(log, live, out, s)
         /\ BoundTo(log, live, out, binding) /\ Reached(out, binding.event)
         /\ LogGrows(log, log) /\ LivesGrow(live, live)
         /\ observed \in [Tasks -> Nat] /\ prompts \in Seq(Outcomes)
<1>1. /\ s \in Streams /\ binding \in Bindings /\ out \in Received /\ log \in Seq(Events)
      /\ live \in [Tasks -> Seq(LiveKinds)] /\ observed \in [Tasks -> Nat] /\ prompts \in Seq(Outcomes)
  BY DEF AdapterInv, AdapterTypeOK
<1>2. /\ s.task \in Tasks /\ s.event \in Nat /\ s.live \in Nat /\ s.upto \in Nat
      /\ s.page \in Pages /\ binding.event \in Nat /\ binding.live \in Nat
  BY <1>1 DEF Streams, Bindings
<1>3. s.task \in Nat /\ s.task # 0 /\ s.page.next \in Nat
  BY <1>2 DEF Tasks, AdapterConstants, Pages
<1>4. binding.bound /\ binding.task = s.task /\ StreamTo(log, live, out, s)
  BY DEF AdapterInv, CursorsHold, Owns
<1>5. BoundTo(log, live, out, binding) /\ Reached(out, binding.event)
  BY <1>4 DEF AdapterInv, CursorsHold
<1>6. s.upto <= Len(log) /\ s.page.updates \subseteq DOMAIN live[s.task]
  BY DEF AdapterInv, StreamsKnow
<1>7. /\ Len(log) \in Nat /\ DOMAIN log = 1..Len(log)
      /\ Len(live[s.task]) \in Nat /\ DOMAIN live[s.task] = 1..Len(live[s.task])
  BY <1>1, <1>2, LenProperties
<1>8. LogGrows(log, log) /\ LivesGrow(live, live)
  BY NothingNew DEF AdapterInv
<1>9. QED
  BY <1>1, <1>2, <1>3, <1>4, <1>5, <1>6, <1>7, <1>8

\* The next event of a page is the first one of the task after the cursor.
LEMMA NextEvent ==
  ASSUME AdapterConstants, AdapterInv, NEW s \in streams, Owns(s), Fetched(s) # {}
  PROVE  /\ Min(Fetched(s)) \in DOMAIN log /\ Min(Fetched(s)) \in Nat /\ s.event < Min(Fetched(s))
         /\ log[Min(Fetched(s))].task = s.task
         /\ \A m \in DOMAIN log : m < Min(Fetched(s)) /\ log[m].task = s.task => m <= s.event
<1> DEFINE F == Fetched(s)
           n == Min(F)
<1>1. F = {m \in (s.event + 1)..s.upto : log[m].task = s.task} /\ F # {}
  BY DEF Fetched
<1>2. s.event \in Nat /\ s.upto \in Nat /\ Len(log) \in Nat /\ DOMAIN log = 1..Len(log) /\ s.upto <= Len(log)
  BY OwnerKnows
<1> HIDE DEF F
<1>3. F \subseteq Nat
  BY <1>1, <1>2
<1>4. n \in F /\ \A m \in F : n <= m
  BY <1>1, <1>3, MinIsLeast
<1> HIDE DEF n
<1>5. n \in (s.event + 1)..s.upto /\ log[n].task = s.task
  BY <1>1, <1>4
<1>6. n \in Nat /\ n \in DOMAIN log /\ s.event < n /\ n <= s.upto
  BY <1>2, <1>5
<1>7. ASSUME NEW m \in DOMAIN log, m < n, log[m].task = s.task, ~(m <= s.event) PROVE FALSE
  <2>1. m \in Nat
    BY <1>2
  <2>2. m \in (s.event + 1)..s.upto
    BY <1>2, <1>6, <1>7, <2>1
  <2>3. m \in F
    BY <1>1, <1>7, <2>2
  <2>4. QED
    BY <1>4, <1>6, <1>7, <2>1, <2>3
<1>8. QED
  BY <1>5, <1>6, <1>7 DEF n, F

\* The invariant survives the delivery of an event.
LEMMA DeliverEventStep ==
  ASSUME AdapterConstants, AdapterInv, NEW s \in streams, DeliverEvent(s)
  PROVE  AdapterInv'
<1> DEFINE n == Min(Fetched(s))
           r == [s EXCEPT !.event = n]
           b == [binding EXCEPT !.event = n]
<1>1. Owns(s) /\ s.pc = "deliver" /\ Fetched(s) # {}
  BY DEF DeliverEvent
<1>2. /\ streams' = (streams \ {s}) \cup {r} /\ binding' = b
      /\ out' = IF log[n].shown THEN Seen(n) ELSE out
  BY DEF DeliverEvent, Become
<1>3. /\ n \in DOMAIN log /\ n \in Nat /\ s.event < n /\ log[n].task = s.task
      /\ \A m \in DOMAIN log : m < n /\ log[m].task = s.task => m <= s.event
  BY <1>1, NextEvent
<1> HIDE DEF n
<1>4. /\ s \in Streams /\ s.task \in Tasks /\ s.task \in Nat /\ s.task # 0 /\ s.event \in Nat
      /\ binding \in Bindings /\ binding.bound /\ binding.task = s.task /\ binding.live \in Nat
      /\ out \in Received /\ log \in Seq(Events) /\ live \in [Tasks -> Seq(LiveKinds)]
      /\ s.upto <= Len(log) /\ s.page.updates \subseteq DOMAIN live[s.task]
      /\ s.live \in Nat /\ DOMAIN log = 1..Len(log) /\ Len(log) \in Nat
  BY <1>1, OwnerKnows
<1>5. /\ StreamTo(log, live, out, s) /\ BoundTo(log, live, out, binding)
      /\ LogGrows(log, log) /\ LivesGrow(live, live)
  BY <1>1, OwnerKnows
<1>6. /\ r \in Streams /\ r.gen = s.gen /\ r.task = s.task /\ r.upto = s.upto /\ r.page = s.page
      /\ r.event = n /\ r.live = s.live /\ r.pc = "deliver"
  BY <1>1, <1>3, <1>4 DEF Streams
<1>7. /\ b \in Bindings /\ b.bound /\ b.gen = binding.gen /\ b.task = binding.task
      /\ b.pending = binding.pending /\ b.event = n /\ b.live = binding.live
  BY <1>3, <1>4 DEF Bindings
<1> HIDE DEF r, b
<1>8. StreamOnly
  BY <1>1, OwnerKnows DEF StreamOnly, DeliverEvent, ownerVars
<1>9. ~SentBefore(n)
  <2>1. ASSUME NEW m \in out.events, n <= m, n <= out.back PROVE FALSE
    <3>1. m <= s.event \/ out.back <= s.event
      BY <1>5 DEF StreamTo, Reached
    <3>2. m \in Nat /\ out.back \in Nat
      BY <1>4 DEF Received
    <3>3. QED
      BY <1>3, <1>4, <2>1, <3>1, <3>2
  <2>2. QED
    BY <2>1 DEF SentBefore
<1>10. /\ out' \in Received /\ out'.again = out.again /\ out'.back = out.back
       /\ out'.lives = out.lives /\ out'.snapshot = out.snapshot /\ out'.carried = out.carried
       /\ out'.events = IF log[n].shown THEN out.events \cup {n} ELSE out.events
  <2>1. CASE log[n].shown
    <3>1. {m \in {n} : SentBefore(m)} = {}
      BY <1>9
    <3>2. out' = [out EXCEPT !.events = @ \cup {n}, !.again = @ \cup {}]
      BY <1>2, <2>1, <3>1 DEF Seen
    <3>3. QED
      BY <1>3, <1>4, <2>1, <3>2 DEF Received
  <2>2. CASE ~log[n].shown
    BY <1>2, <1>4, <2>2
  <2>3. QED
    BY <2>1, <2>2
<1>11. OutGrows(out, out')
  <2>1. \A t \in Tasks : out.snapshot[t] \in Nat /\ out.carried[t] \in Nat
    BY <1>4 DEF Received
  <2>2. QED
    BY <1>10, <2>1 DEF OutGrows
<1>12. SentTo(log, out', s.task, n)
  <2>1. ASSUME NEW m \in DOMAIN log, m <= n, log[m].task = s.task, log[m].shown PROVE m \in out'.events
    <3>1. CASE m = n
      BY <1>10, <2>1, <3>1
    <3>2. CASE m # n
      <4>1. m < n
        BY <1>3, <1>4, <2>1, <3>2
      <4>2. m <= s.event
        BY <1>3, <2>1, <4>1
      <4>3. m \in out.events
        BY <1>5, <2>1, <4>2 DEF StreamTo, SentTo
      <4>4. QED
        BY <1>10, <4>3
    <3>3. QED
      BY <3>1, <3>2
  <2>2. n \in DOMAIN log /\ log[n].task <= s.task
    BY <1>3, <1>4
  <2>3. QED
    BY <2>1, <2>2 DEF SentTo
<1>13. Reached(out', n)
  <2>1. ASSUME NEW m \in out'.events PROVE m <= n \/ out'.back <= n
    <3>1. CASE m = n
      BY <1>3, <3>1
    <3>2. CASE m \in out.events
      <4>1. m <= s.event \/ out.back <= s.event
        BY <1>5, <3>2 DEF StreamTo, Reached
      <4>2. m \in Nat /\ out.back \in Nat
        BY <1>4, <3>2 DEF Received
      <4>3. QED
        BY <1>3, <1>4, <1>10, <4>1, <4>2
    <3>3. QED
      BY <1>10, <2>1, <3>1, <3>2
  <2>2. QED
    BY <2>1 DEF Reached
<1>14. LiveTo(live, out', s.task, s.live) /\ LiveTo(live, out', s.task, binding.live)
  <2>1. LiveTo(live, out, s.task, s.live)
    BY <1>5 DEF StreamTo
  <2>2. LiveTo(live, out, s.task, binding.live)
    BY <1>4, <1>5 DEF BoundTo
  <2>3. QED
    BY <1>10, <2>1, <2>2 DEF LiveTo
<1>15. BoundTo(log, live, out', b) /\ StreamTo(log, live, out', r)
  BY <1>4, <1>6, <1>7, <1>12, <1>13, <1>14 DEF BoundTo, StreamTo
<1>16. NoHoles'
  <2>1. ASSUME NEW m \in out'.events PROVE m \in DOMAIN log /\ SentTo(log, out', log[m].task, m)
    <3>1. CASE m = n
      BY <1>3, <1>12, <3>1
    <3>2. CASE m \in out.events
      <4>1. m \in DOMAIN log /\ SentTo(log, out, log[m].task, m)
        BY <3>2 DEF AdapterInv, NoHoles
      <4>2. out.events \subseteq out'.events
        BY <1>10
      <4>3. QED
        BY <4>1, <4>2 DEF SentTo
    <3>3. QED
      BY <1>10, <2>1, <3>1, <3>2
  <2>2. \A u \in out.lives : u[2] \in DOMAIN live[u[1]] /\ LiveTo(live, out', u[1], u[2])
    BY <1>10 DEF AdapterInv, NoHoles, LiveTo
  <2>3. /\ out'.again = {} /\ \A t \in Tasks : hub[t] <= Len(live[t])
        /\ \A t \in Tasks : out'.snapshot[t] <= Len(live[t]) \/ out'.snapshot[t] <= out'.carried[t]
    BY <1>10 DEF AdapterInv, NoHoles
  <2>4. log' = log /\ live' = live /\ hub' = hub
    BY <1>8 DEF StreamOnly
  <2>5. QED
    BY <1>10, <2>1, <2>2, <2>3, <2>4 DEF NoHoles
<1>17. /\ streams' \subseteq (streams \ {s}) \cup {r} /\ r.upto <= Len(log)
       /\ r.page.updates \subseteq DOMAIN live[r.task] /\ Reached(out', b.event)
       /\ b.pending # NoPending => b.task # 0
  BY <1>2, <1>4, <1>6, <1>7, <1>13
<1>18. QED
  BY <1>1, <1>2, <1>6, <1>7, <1>8, <1>10, <1>11, <1>15, <1>16, <1>17, OwnerStores

\* The approval a page asks for is a cursor.
LEMMA AskedTyped ==
  ASSUME AdapterConstants, AdapterInv, NEW s \in streams, Owns(s)
  PROVE  Asked(s.task, s.page) \in Nat
<1> DEFINE L == Len(live[s.task])
           S == {0} \cup {n \in s.page.updates : live[s.task][n] = "approval"}
<1>1. L \in Nat /\ s.page.updates \subseteq 1..L
  BY OwnerKnows
<1>2. S \subseteq Nat /\ S # {} /\ \A m \in S : m <= L
  BY <1>1
<1>3. Max(S) \in S
  <2> HIDE DEF S, L
  <2>1. QED
    BY <1>1, <1>2, MaxIsLargest
<1>4. Asked(s.task, s.page) = Max(S)
  BY DEF Asked
<1> HIDE DEF S
<1>5. QED
  BY <1>2, <1>3, <1>4

\* What a page shows the client covers the page's own cursor.
LEMMA ShownCovers ==
  ASSUME AdapterConstants, AdapterInv, NEW s \in streams, Owns(s), s.pc = "live"
  PROVE  /\ Shown(s) \in Received /\ OutGrows(out, Shown(s))
         /\ Shown(s).events = out.events /\ Shown(s).again = out.again /\ Shown(s).back = out.back
         /\ Shown(s).carried = out.carried
         /\ LiveTo(live, Shown(s), s.task, s.page.next)
         /\ \A u \in Shown(s).lives : u[2] \in DOMAIN live[u[1]] /\ LiveTo(live, Shown(s), u[1], u[2])
         /\ \A t \in Tasks : Shown(s).snapshot[t] <= Len(live[t]) \/ Shown(s).snapshot[t] <= out.carried[t]
<1> DEFINE t == s.task
           c == s.page.next
           W == {<<t, n>> : n \in s.page.updates \cap Visible(t)}
           z == [out.snapshot EXCEPT ![t] = IF s.page.snapshot THEN Larger(@, c) ELSE @]
           o == Shown(s)
<1>1. /\ s \in Streams /\ t \in Tasks /\ s.live \in Nat /\ c \in Nat /\ out \in Received
      /\ live \in [Tasks -> Seq(LiveKinds)] /\ Len(live[t]) \in Nat /\ DOMAIN live[t] = 1..Len(live[t])
      /\ s.page.updates \subseteq DOMAIN live[t] /\ LivesGrow(live, live)
  BY OwnerKnows
<1>2. LiveTo(live, out, t, s.live) /\ PageFits(live, s)
  BY OwnerKnows DEF StreamTo
<1>3. /\ out.snapshot \in [Tasks -> Nat] /\ out.carried \in [Tasks -> Nat]
      /\ out.lives \subseteq Tasks \X Nat
  BY <1>1 DEF Received
<1>4. o = [out EXCEPT !.lives = @ \cup W, !.snapshot = z]
  BY <1>1, <1>3 DEF Shown, Received
<1>5. \A u \in W : \E n \in s.page.updates \cap Visible(t) : u = <<t, n>>
  OBVIOUS
<1>6. W \subseteq Tasks \X Nat
  BY <1>1, <1>5
<1>7. \A n \in DOMAIN live[t] : n \in s.page.updates /\ live[t][n] # "status" => <<t, n>> \in W
  BY DEF Visible
<1>8. /\ z \in [Tasks -> Nat] /\ (s.page.snapshot => c <= z[t])
      /\ \A u \in Tasks : out.snapshot[u] <= z[u] /\ (z[u] = out.snapshot[u] \/ (u = t /\ z[u] = c))
  <2>1. z \in [Tasks -> Nat]
    BY <1>1, <1>3 DEF Larger
  <2>2. /\ z[t] = IF s.page.snapshot THEN Larger(out.snapshot[t], c) ELSE out.snapshot[t]
        /\ \A u \in Tasks : u # t => z[u] = out.snapshot[u]
    BY <1>1, <1>3
  <2>3. out.snapshot[t] <= z[t] /\ (z[t] = out.snapshot[t] \/ z[t] = c) /\ (s.page.snapshot => c <= z[t])
    BY <1>1, <1>3, <2>2 DEF Larger
  <2>4. ASSUME NEW u \in Tasks
        PROVE  out.snapshot[u] <= z[u] /\ (z[u] = out.snapshot[u] \/ (u = t /\ z[u] = c))
    <3>1. out.snapshot[u] \in Nat
      BY <1>3
    <3>2. QED
      BY <2>2, <2>3, <3>1
  <2>5. QED
    BY <2>1, <2>3, <2>4
<1> HIDE DEF W, z, o
<1>9. /\ o \in Received /\ o.events = out.events /\ o.again = out.again /\ o.back = out.back
      /\ o.carried = out.carried /\ o.lives = out.lives \cup W /\ o.snapshot = z
  <2> DEFINE o1 == [out EXCEPT !.lives = @ \cup W]
  <2>1. /\ o1 \in Received /\ o1.events = out.events /\ o1.again = out.again /\ o1.back = out.back
        /\ o1.carried = out.carried /\ o1.lives = out.lives \cup W
    BY <1>1, <1>6 DEF Received
  <2>2. o = [o1 EXCEPT !.snapshot = z]
    BY <1>1, <1>4 DEF Received
  <2> HIDE DEF o1
  <2>3. QED
    BY <1>8, <2>1, <2>2 DEF Received
<1>10. OutGrows(out, o)
  <2>1. \A u \in Tasks : out.carried[u] \in Nat /\ out.carried[u] <= o.carried[u]
    BY <1>3, <1>9
  <2>2. QED
    BY <1>8, <1>9, <2>1 DEF OutGrows
<1>11. LiveTo(live, o, t, s.live)
  BY <1>1, <1>2, <1>9, <1>10, LiveGrows
<1>12. c <= Len(live[t]) \/ c <= out.carried[t]
  <2>1. out.carried[t] \in Nat
    BY <1>1, <1>3
  <2>2. c <= Len(live[t]) \/ c <= s.live
    BY <1>2 DEF PageFits
  <2>3. s.live <= Len(live[t]) \/ s.live <= out.carried[t]
    BY <1>2 DEF LiveTo
  <2>4. QED
    BY <1>1, <2>1, <2>2, <2>3
<1>13. ASSUME NEW n \in DOMAIN live[t], n <= c \/ n <= s.live, live[t][n] # "status"
       PROVE  <<t, n>> \in o.lives \/ n <= o.snapshot[t] \/ n <= o.carried[t]
  <2>1. n \in Nat /\ z[t] \in Nat
    BY <1>1, <1>8
  <2>2. CASE n <= s.live
    BY <1>11, <1>13, <2>2 DEF LiveTo
  <2>3. CASE ~(n <= s.live) /\ s.page.snapshot
    BY <1>1, <1>8, <1>9, <1>13, <2>1, <2>3
  <2>4. CASE ~(n <= s.live) /\ ~s.page.snapshot
    <3>1. s.live < n /\ n <= c
      BY <1>1, <1>13, <2>1, <2>4
    <3>2. n \in s.page.updates
      BY <1>2, <1>13, <2>4, <3>1 DEF PageFits
    <3>3. QED
      BY <1>7, <1>9, <1>13, <3>2
  <2>5. QED
    BY <2>2, <2>3, <2>4
<1>14. LiveTo(live, o, t, c)
  BY <1>9, <1>12, <1>13 DEF LiveTo
<1>15. ASSUME NEW u \in o.lives PROVE u[2] \in DOMAIN live[u[1]] /\ LiveTo(live, o, u[1], u[2])
  <2>1. CASE u \in out.lives
    <3>1. u[1] \in Tasks /\ u[2] \in Nat
      BY <1>3, <2>1
    <3>2. u[2] \in DOMAIN live[u[1]] /\ LiveTo(live, out, u[1], u[2])
      BY <2>1 DEF AdapterInv, NoHoles
    <3>3. QED
      BY <1>1, <1>9, <1>10, <3>1, <3>2, LiveGrows
  <2>2. CASE u \in W
    <3>1. PICK n \in s.page.updates \cap Visible(t) : u = <<t, n>>
      BY <1>5, <2>2
    <3>2. n \in DOMAIN live[t] /\ n \in s.page.updates
      BY <1>1, <3>1
    <3>3. n <= c \/ n <= s.live
      BY <1>2, <3>2 DEF PageFits
    <3>4. n \in Nat /\ n <= Len(live[t])
      BY <1>1, <3>2
    <3>5. ASSUME NEW m \in DOMAIN live[t], m <= n PROVE m <= c \/ m <= s.live
      <4>1. m \in Nat
        BY <1>1
      <4>2. QED
        BY <1>1, <3>3, <3>4, <3>5, <4>1
    <3>6. LiveTo(live, o, t, n)
      BY <1>13, <3>4, <3>5 DEF LiveTo
    <3>7. QED
      BY <3>1, <3>2, <3>6
  <2>3. QED
    BY <1>9, <1>15, <2>1, <2>2
<1>16. ASSUME NEW u \in Tasks PROVE z[u] <= Len(live[u]) \/ z[u] <= out.carried[u]
  <2>1. CASE z[u] = out.snapshot[u]
    BY <2>1 DEF AdapterInv, NoHoles
  <2>2. CASE u = t /\ z[u] = c
    BY <1>12, <2>2
  <2>3. QED
    BY <1>8, <2>1, <2>2
<1>17. QED
  BY <1>9, <1>10, <1>14, <1>15, <1>16 DEF o

\* The invariant survives the delivery of a page of live updates.
LEMMA DeliverLiveStep ==
  ASSUME AdapterConstants, AdapterInv, NEW s \in streams, DeliverLive(s)
  PROVE  AdapterInv'
<1> DEFINE c == s.page.next
           e == IF s.kind = "replay" THEN s.event ELSE binding.event
           n == Asked(s.task, s.page)
           r == [s EXCEPT !.live = c, !.pc = "status"]
           b == [binding EXCEPT !.live = c, !.event = e]
           a == [b EXCEPT !.pending = <<s.task, n>>, !.active = @ /\ s.kind # "prompt"]
<1>1. Owns(s) /\ s.pc = "live" /\ out' = Shown(s)
  BY DEF DeliverLive
<1>2. /\ s \in Streams /\ s.task \in Tasks /\ s.task \in Nat /\ s.task # 0 /\ s.event \in Nat
      /\ binding \in Bindings /\ binding.bound /\ binding.task = s.task /\ binding.event \in Nat
      /\ out \in Received /\ log \in Seq(Events) /\ c \in Nat
      /\ s.upto <= Len(log) /\ s.page.updates \subseteq DOMAIN live[s.task]
  BY <1>1, OwnerKnows
<1>3. StreamTo(log, live, out, s) /\ BoundTo(log, live, out, binding) /\ Reached(out, binding.event)
  BY <1>1, OwnerKnows
<1>4. e \in Nat /\ SentTo(log, out, s.task, e) /\ Reached(out, e)
  BY <1>2, <1>3 DEF BoundTo, StreamTo
<1>5. /\ out' \in Received /\ OutGrows(out, out') /\ out'.events = out.events /\ out'.again = out.again
      /\ out'.back = out.back /\ out'.carried = out.carried
      /\ LiveTo(live, out', s.task, c)
      /\ \A u \in out'.lives : u[2] \in DOMAIN live[u[1]] /\ LiveTo(live, out', u[1], u[2])
      /\ \A t \in Tasks : out'.snapshot[t] <= Len(live[t]) \/ out'.snapshot[t] <= out.carried[t]
  BY <1>1, ShownCovers
<1>6. n \in Nat
  BY <1>1, AskedTyped
<1>7. \/ streams' = streams \ {s} /\ binding' = a
      \/ streams' = (streams \ {s}) \cup {r} /\ binding' = b
  BY <1>2 DEF DeliverLive, Quit, Become, Bindings
<1>8. prompts' \in Seq(Outcomes)
  <2>1. AnswerPrompt(s, "answered") \/ UNCHANGED prompts
    BY DEF DeliverLive
  <2>2. "answered" \in Outcomes
    BY DEF Outcomes
  <2>3. QED
    BY <2>1, <2>2, AnswerTyped
<1>9. StreamOnly
  BY <1>1, <1>8, OwnerKnows DEF StreamOnly, DeliverLive, ownerVars
<1> HIDE DEF c, e, n
<1>10. /\ r \in Streams /\ r.gen = s.gen /\ r.task = s.task /\ r.upto = s.upto /\ r.page = s.page
       /\ r.event = s.event /\ r.live = c /\ r.pc = "status"
  BY <1>2 DEF Streams
<1>11. /\ b \in Bindings /\ b.bound /\ b.gen = binding.gen /\ b.task = binding.task
       /\ b.pending = binding.pending /\ b.event = e /\ b.live = c
  BY <1>2, <1>4 DEF Bindings
<1> HIDE DEF r, b
<1>12. /\ a \in Bindings /\ a.bound /\ a.gen = binding.gen /\ a.task = binding.task
       /\ a.event = e /\ a.live = c
  <2> DEFINE a1 == [b EXCEPT !.pending = <<s.task, n>>]
             d == b.active /\ s.kind # "prompt"
  <2>1. <<s.task, n>> \in Tasks \X Nat
    BY <1>2, <1>6
  <2>2. /\ a1 \in Bindings /\ a1.bound /\ a1.gen = binding.gen /\ a1.task = binding.task
        /\ a1.event = e /\ a1.live = c /\ a1.active = b.active
    BY <1>11, <2>1 DEF Bindings
  <2>3. a = [a1 EXCEPT !.active = d]
    BY <1>11 DEF Bindings
  <2>4. d \in BOOLEAN
    OBVIOUS
  <2> HIDE DEF a1, d
  <2>5. QED
    BY <2>2, <2>3, <2>4 DEF Bindings
<1> HIDE DEF a
<1>13. SentTo(log, out', s.task, e) /\ Reached(out', e) /\ SentTo(log, out', s.task, s.event) /\ Reached(out', s.event)
  BY <1>3, <1>4, <1>5 DEF SentTo, Reached, StreamTo
<1>14. NoHoles'
  <2>1. log' = log /\ live' = live /\ hub' = hub
    BY <1>9 DEF StreamOnly
  <2>2. \A m \in out'.events : m \in DOMAIN log /\ SentTo(log, out', log[m].task, m)
    BY <1>5 DEF AdapterInv, NoHoles, SentTo
  <2>3. out'.again = {} /\ \A t \in Tasks : hub[t] <= Len(live[t])
    BY <1>5 DEF AdapterInv, NoHoles
  <2>4. QED
    BY <1>5, <2>1, <2>2, <2>3 DEF NoHoles
<1>15. CASE streams' = streams \ {s} /\ binding' = a
  <2>1. BoundTo(log, live, out', a) /\ Reached(out', a.event)
    BY <1>2, <1>5, <1>12, <1>13 DEF BoundTo
  <2>2. streams' \subseteq (streams \ {s}) \cup {s} /\ s \notin streams' /\ a.task # 0
    BY <1>2, <1>12, <1>15
  <2>3. QED
    BY <1>1, <1>2, <1>5, <1>9, <1>12, <1>14, <1>15, <2>1, <2>2, OwnerStores
<1>16. CASE streams' = (streams \ {s}) \cup {r} /\ binding' = b
  <2>1. BoundTo(log, live, out', b) /\ Reached(out', b.event)
    BY <1>2, <1>5, <1>11, <1>13 DEF BoundTo
  <2>2. StreamTo(log, live, out', r)
    BY <1>5, <1>10, <1>13 DEF StreamTo
  <2>3. /\ streams' \subseteq (streams \ {s}) \cup {r} /\ b.task # 0
        /\ r.upto <= Len(log) /\ r.page.updates \subseteq DOMAIN live[r.task]
    BY <1>2, <1>10, <1>11, <1>16
  <2>4. QED
    BY <1>1, <1>2, <1>5, <1>9, <1>10, <1>11, <1>14, <1>16, <2>1, <2>2, <2>3, OwnerStores
<1>17. QED
  BY <1>7, <1>15, <1>16

\* It survives the end of a stream, which stores its cursors when it is a prompt's.
LEMMA FinishStep ==
  ASSUME AdapterConstants, AdapterInv, NEW s \in streams, FinishStream(s)
  PROVE  AdapterInv'
<1> DEFINE b == [binding EXCEPT !.event = s.event, !.live = s.live, !.active = FALSE]
<1>1. Quit(s) /\ out' = out
  BY DEF FinishStream
<1>2. prompts' \in Seq(Outcomes)
  <2>1. AnswerPrompt(s, "answered")
    BY DEF FinishStream
  <2>2. "answered" \in Outcomes
    BY DEF Outcomes
  <2>3. QED
    BY <2>1, <2>2, AnswerTyped
<1>3. observed' = observed /\ observed \in [Tasks -> Nat]
  BY DEF FinishStream, ownerVars, AdapterInv, AdapterTypeOK
<1>4. StreamOnly
  BY <1>2, <1>3 DEF StreamOnly, FinishStream, ownerVars
<1>5. CASE s.kind = "prompt" /\ Owns(s)
  <2>1. /\ s \in Streams /\ s.task # 0 /\ s.event \in Nat /\ s.live \in Nat
        /\ binding \in Bindings /\ binding.bound /\ binding.task = s.task
        /\ s.upto <= Len(log) /\ s.page.updates \subseteq DOMAIN live[s.task] /\ out \in Received
        /\ StreamTo(log, live, out, s)
    BY <1>5, OwnerKnows
  <2>2. binding' = b
    BY <1>5 DEF FinishStream
  <2>3. /\ b \in Bindings /\ b.bound /\ b.gen = binding.gen /\ b.task = binding.task
        /\ b.event = s.event /\ b.live = s.live
    BY <2>1 DEF Bindings
  <2> HIDE DEF b
  <2>4. BoundTo(log, live, out', b) /\ Reached(out', b.event)
    BY <1>1, <2>1, <2>3 DEF BoundTo, StreamTo
  <2>5. OutGrows(out, out')
    <3>1. \A t \in Tasks : out.snapshot[t] \in Nat /\ out.carried[t] \in Nat
      BY <2>1 DEF Received
    <3>2. QED
      BY <1>1, <3>1 DEF OutGrows
  <2>6. NoHoles'
    BY <1>1, <1>4 DEF AdapterInv, NoHoles, StreamOnly
  <2>7. streams' \subseteq (streams \ {s}) \cup {s} /\ s \notin streams' /\ b.task # 0
    BY <1>1, <2>1, <2>3 DEF Quit
  <2>8. out' \in Received
    BY <1>1, <2>1
  <2>9. QED
    BY <1>4, <1>5, <2>1, <2>2, <2>3, <2>4, <2>5, <2>6, <2>7, <2>8, OwnerStores
<1>6. CASE ~(s.kind = "prompt" /\ Owns(s))
  <2>1. binding' = binding
    BY <1>6 DEF FinishStream
  <2>2. QED
    BY <1>1, <1>4, <2>1, StreamEnds
<1>7. QED
  BY <1>5, <1>6

-----------------------------------------------------------------------------
(* The theorems.                                                           *)

\* The invariant holds when the adapter starts.
LEMMA AdapterStarts ==
  ASSUME AdapterConstants, AdapterInit
  PROVE  AdapterInv
<1> USE DEF AdapterInit
<1>1. NoBinding \in Bindings
  BY DEF NoBinding, Bindings, AdapterConstants, NoPending
<1>2. handler \in [op : HandlerOps, clone : Bindings] /\ handler.op = "idle" /\ handler.clone = NoBinding
  BY <1>1 DEF IdleHandler, HandlerOps
<1>3. out \in Received
  BY DEF Received, AdapterConstants
<1>4. AdapterTypeOK
  <2>1. log \in Seq(Events) /\ prompts \in Seq(Outcomes)
    BY EmptySeq
  <2>2. live \in [Tasks -> Seq(LiveKinds)]
    BY EmptySeq
  <2>3. QED
    BY <1>1, <1>2, <1>3, <2>1, <2>2 DEF AdapterTypeOK
<1>5. TasksInOrder /\ LogInOrder
  BY DEF TasksInOrder, LogInOrder
<1>6. binding.bound = FALSE /\ binding.pending = NoPending
  BY DEF NoBinding
<1>7. HandlerKnows
  BY <1>2, <1>6 DEF HandlerKnows, Cloned
<1>8. StreamsKnow /\ CursorsHold
  BY <1>2, <1>6 DEF StreamsKnow, CursorsHold
<1>9. NoHoles
  <2>1. \A t \in Tasks : live[t] = <<>> /\ Len(live[t]) = 0
    OBVIOUS
  <2>2. QED
    BY <2>1 DEF NoHoles
<1>10. QED
  BY <1>4, <1>5, <1>7, <1>8, <1>9 DEF AdapterInv

\* Every step of the adapter, the service and the client keeps it.
LEMMA AdapterStep ==
  ASSUME AdapterConstants, "reload" \notin Ops, AdapterInv, AdapterNext
  PROVE  AdapterInv'
<1>1. CASE \E t \in Tasks : Engine(t)
  BY <1>1, EngineStep
<1>2. CASE OwnerOverflow
  BY <1>2, OverflowStep
<1>3. CASE Client
  <2>1. CASE Connect \/ Disconnect \/ OpenSession
    BY <2>1, ConnectStep, DisconnectStep, OpenSessionStep
  <2>2. CASE LoadSession \/ SetConfig
    BY <2>2, LoadSessionStep, SetConfigStep
  <2>3. CASE CancelTask \/ ResumeTask
    BY <2>3, ControlStep
  <2>4. CASE \E kind \in PromptKinds : SendPrompt(kind)
    BY <2>4, PromptStep
  <2>5. QED
    BY <1>3, <2>1, <2>2, <2>3, <2>4 DEF Client
<1>4. CASE Handler
  <2>1. CASE StartReplay \/ StoreConfig \/ StoreMode
    BY <2>1, StartReplayStep, StoreConfigStep, StoreModeStep
  <2>2. CASE ResolveApproval \/ ClearApproval
    BY <2>2, ResolveStep, ClearStep
  <2>3. CASE PromptStatus \/ SteerTask
    BY <2>3, PromptStatusStep, SteerStep
  <2>4. CASE StartTask \/ BindPrompt
    BY <2>4, StartStep, BindPromptStep
  <2>5. QED
    BY <1>4, <2>1, <2>2, <2>3, <2>4 DEF Handler
<1>5. ASSUME NEW s \in streams, Polls(s) \/ FailStream(s) \/ FailPublisher(s) PROVE AdapterInv'
  <2>1. CASE FetchEvents(s) \/ FetchLive(s) \/ FetchStatus(s)
    BY <2>1, FetchStep
  <2>2. CASE DeliverEvent(s)
    BY <2>2, DeliverEventStep
  <2>3. CASE DeliverLive(s)
    BY <2>3, DeliverLiveStep
  <2>4. CASE FinishStream(s)
    BY <2>4, FinishStep
  <2>5. CASE LoseStream(s) \/ FailStream(s) \/ FailPublisher(s)
    BY <2>5, QuitStep
  <2>6. QED
    BY <1>5, <2>1, <2>2, <2>3, <2>4, <2>5 DEF Polls
<1>6. QED
  BY <1>1, <1>2, <1>3, <1>4, <1>5 DEF AdapterNext

\* A step that changes nothing keeps it.
LEMMA AdapterStutters ==
  ASSUME AdapterInv, UNCHANGED adapterVars
  PROVE  AdapterInv'
<1>1. /\ taskStatus' = taskStatus /\ log' = log /\ live' = live /\ hub' = hub /\ awaited' = awaited
      /\ overflow' = overflow /\ observed' = observed /\ open' = open /\ conn' = conn /\ loads' = loads
      /\ binding' = binding /\ handler' = handler /\ streams' = streams /\ prompts' = prompts /\ out' = out
  BY DEF adapterVars, ownerVars, sessionVars
<1>2. AdapterTypeOK' /\ TasksInOrder' /\ LogInOrder'
  BY <1>1 DEF AdapterInv, AdapterTypeOK, TasksInOrder, LogInOrder
<1>3. HandlerKnows' /\ StreamsKnow'
  BY <1>1, CurrentStays DEF AdapterInv, HandlerKnows, StreamsKnow
<1>4. CursorsHold' /\ NoHoles'
  BY <1>1 DEF AdapterInv, CursorsHold, NoHoles, Owns
<1>5. QED
  BY <1>2, <1>3, <1>4 DEF AdapterInv

\* For any number of tasks, events, updates, prompts and connections, every
\* cursor the adapter stores, copies or polls from has passed only what the
\* client was sent, as long as a session that is bound is not loaded again
\* (acp/server.rs, ServiceSession and ServicePromptState).
THEOREM AdapterInvariant ==
  ASSUME AdapterConstants, "reload" \notin Ops
  PROVE  AdapterSpec => []AdapterInv
<1>1. AdapterInit => AdapterInv
  BY AdapterStarts
<1>2. AdapterInv /\ [AdapterNext]_adapterVars => AdapterInv'
  BY AdapterStep, AdapterStutters
<1>3. QED
  BY <1>1, <1>2, PTL DEF AdapterSpec

\* The client gets the durable events of its task in order, none twice and none
\* passed over by the stored cursor, from one stream at a time, and no live
\* update is passed over either, whatever streams fail, tasks start or stop and
\* connections come and go (poll_service_prompt, replay_service_events).
THEOREM EventsComeOnce ==
  ASSUME AdapterConstants, "reload" \notin Ops
  PROVE  AdapterSpec => []EventsOnce
<1>1. AdapterInv => EventsOnce
  <2> SUFFICES ASSUME AdapterInv PROVE EventsOnce
    OBVIOUS
  <2>1. AdapterTypeOK /\ InOrderOnce
    BY DEF AdapterInv, NoHoles, InOrderOnce
  <2>2. OneStream
    BY DEF AdapterInv, StreamsKnow, OneStream, Owns
  <2>3. NoEventSkipped
    BY DEF AdapterInv, CursorsHold, BoundTo, SentTo, NoEventSkipped, EventsSent
  <2>4. NoLiveSkipped
    <3>1. binding.bound /\ binding.task # 0 => LiveTo(live, out, binding.task, binding.live)
      BY DEF AdapterInv, CursorsHold, BoundTo
    <3>2. QED
      BY <3>1 DEF NoLiveSkipped, LivesSent, LiveTo, Visible
  <2>5. QED
    BY <2>1, <2>2, <2>3, <2>4 DEF EventsOnce
<1>2. QED
  BY <1>1, AdapterInvariant, PTL
=============================================================================
