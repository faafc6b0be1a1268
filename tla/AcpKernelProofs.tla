--------------------------- MODULE AcpKernelProofs ---------------------------
(***************************************************************************)
(* Theorems about the kernel actor for any sessions, requests, bounds and   *)
(* faults.  Order and exact approval are not inductive as they stand: that  *)
(* a turn meets its events in order rests on what waits for it while other  *)
(* sessions read the port, and that a request is answered once rests on the *)
(* requests in the backlogs and behind paused turns being untouched.  So    *)
(* KernelInv relates the turn, the backlog and the epochs of every session  *)
(* and the requests that are its own (SessionInv).                          *)
(***************************************************************************)
EXTENDS AcpKernel, TLAPS, FiniteSetTheorems, SequenceTheorems

\* The sets the kernel's values are of.
States == {"none", "running", "interrupted", "stopped"}
\* The kinds of events that carry a request.
EffectKinds == {"effect", "badEffect"}
\* The permission modes.
ModeSet == Modes \cup Switches \cup {"none", "FullAccess", "Bypass"}

\* A provider event: epoch, number in it, kind and request.
Event == [ep : Epochs, num : Nat, kind : Kinds, req : Requests \cup {NoRequest}]
\* An epoch of a session.
EpochRecord == [state : States, emitted : Nat, ended : Nat]
\* The turn of a session.
TurnRecord == [epoch : 0..MaxEpochs, on : Requests \cup {NoRequest}, item : BOOLEAN, log : Seq(Nat)]
\* The configuration of a session.
ConfRecord ==
  [mode : ModeSet, pending : Switches \cup {"none"}, durable : ModeSet, reported : ModeSet,
   bypass : BOOLEAN, codes : Nat, consumed : Nat, admitted : BOOLEAN]
\* An effect request.
RequestRecord ==
  [owner : Sessions \cup {NoSession}, epoch : 0..MaxEpochs,
   grant : {"none", "pending", "auto", "allowed", "denied"},
   code : {"none", "live", "used", "expired"}, decision : {"open", "allow", "deny"}]

\* The types of all of the kernel's state but alive.
Types ==
  /\ conf \in [Sessions -> ConfRecord]
  /\ turn \in [Sessions -> TurnRecord]
  /\ driver \in Sessions \cup {NoSession}
  /\ routed \in [Sessions -> Seq(Event)]
  /\ routedCount \in Nat /\ failures \subseteq Sessions
  /\ epoch \in [Sessions -> [Epochs -> EpochRecord]]
  /\ req \in [Requests -> RequestRecord]

\* The backlogs are counted and bounded.
CountInv ==
  /\ IsFiniteSet(Waiting) /\ routedCount = Cardinality(Waiting)
  /\ routedCount <= RoutedCapacity
  /\ \A s \in Sessions : Len(routed[s]) <= RoutedPerSession

\* What is driven has a turn, what overflowed has neither turn nor backlog.
DriverInv ==
  /\ driver # NoSession => ~Idle(driver)
  /\ \A s \in failures : routed[s] = <<>> /\ Idle(s)

\* Turn t and the epochs eps of its session: a turn not begun has no end, and
\* an active one neither.
EndsOf(t, eps) ==
  \A n \in Epochs :
    /\ eps[n].ended <= 1
    /\ eps[n].state = "none" => eps[n].emitted = 0 /\ eps[n].ended = 0
    /\ t.epoch = n => eps[n].ended = 0 /\ eps[n].state # "none"

\* Turn t, the backlog q and the epochs eps of its session: the turn has seen
\* the first events of its epoch in order, and the others it sent wait in q in
\* their order, possibly among events of epochs left behind.
OrderOf(t, q, eps) ==
  /\ \A i \in 1..Len(t.log) : t.log[i] = i
  /\ \A i \in 1..Len(q) : 0 < q[i].num /\ q[i].num <= eps[q[i].ep].emitted
  /\ t.epoch # 0 =>
       /\ Len(t.log) <= eps[t.epoch].emitted
       /\ \A x \in Nat : Len(t.log) < x /\ x <= eps[t.epoch].emitted =>
            \E i \in 1..Len(q) : q[i].ep = t.epoch /\ q[i].num = x
       /\ \A i \in 1..Len(q) : q[i].ep = t.epoch => Len(t.log) < q[i].num
       /\ \A i, j \in 1..Len(q) :
            i < j /\ q[i].ep = t.epoch /\ q[j].ep = t.epoch => q[i].num < q[j].num

\* A request nobody has handled.
Untouched(r) == r.grant = "none" /\ r.code = "none" /\ r.decision = "open"

\* The requests that wait in the backlog of s are its own and untouched.
QueueOf(s, q, rq) ==
  /\ \A i \in 1..Len(q) :
       /\ q[i].kind \in EffectKinds <=> q[i].req # NoRequest
       /\ q[i].req # NoRequest =>
            /\ rq[q[i].req].owner = s /\ rq[q[i].req].epoch = q[i].ep
            /\ Untouched(rq[q[i].req])
  /\ \A i, j \in 1..Len(q) : i # j /\ q[i].req # NoRequest => q[i].req # q[j].req

\* The request a turn waits on is its own, and open while its code is live.
PausedOf(s, t, rq) ==
  t.on # NoRequest =>
    /\ t.epoch # 0
    /\ rq[t.on].owner = s /\ rq[t.on].epoch = t.epoch /\ rq[t.on].code # "none"
    /\ rq[t.on].code = "live" => rq[t.on].grant = "pending" /\ rq[t.on].decision = "open"

\* A request that was not sent is untouched.
AskedOf(rq) == \A r \in Requests : rq[r].owner = NoSession => Untouched(rq[r])

\* What is known of session s with turn t, backlog q and epochs eps.
SessionInv(s, t, q, eps, rq) ==
  /\ t \in TurnRecord /\ q \in Seq(Event) /\ eps \in [Epochs -> EpochRecord]
  /\ EndsOf(t, eps) /\ OrderOf(t, q, eps) /\ QueueOf(s, q, rq) /\ PausedOf(s, t, rq)

\* The inductive invariant.
KernelInv ==
  /\ Types /\ CountInv /\ DriverInv /\ AskedOf(req)
  /\ \A s \in Sessions : SessionInv(s, turn[s], routed[s], epoch[s], req)

-----------------------------------------------------------------------------
(* Events of one session *)

\* An epoch sends its next event, which waits at the end of the backlog.
LEMMA SentInOrder ==
  ASSUME KernelConstants,
         NEW t \in TurnRecord, NEW q \in Seq(Event), NEW eps \in [Epochs -> EpochRecord],
         NEW eps2 \in [Epochs -> EpochRecord], NEW n \in Epochs, NEW e \in Event,
         e.ep = n, e.num = eps[n].emitted + 1,
         \A m \in Epochs : eps2[m].emitted = IF m = n THEN eps[m].emitted + 1 ELSE eps[m].emitted,
         OrderOf(t, q, eps)
  PROVE  OrderOf(t, Append(q, e), eps2)
<1> DEFINE q2 == Append(q, e)
<1>1. /\ q2 \in Seq(Event) /\ Len(q2) = Len(q) + 1 /\ Len(q) \in Nat
      /\ \A i \in 1..Len(q) : q2[i] = q[i]
      /\ q2[Len(q) + 1] = e
  BY AppendProperties, LenProperties
<1>2. \A i \in 1..Len(q) : q[i] \in Event
  BY ElementOfSeq
<1>3. /\ Epochs \subseteq Nat /\ 0 \notin Epochs /\ t.epoch \in Nat /\ Len(t.log) \in Nat
      /\ t.epoch # 0 => t.epoch \in Epochs
      /\ \A m \in Epochs : eps[m].emitted \in Nat
  <2>1. t.log \in Seq(Nat) /\ t.epoch \in 0..MaxEpochs /\ MaxEpochs \in Nat
    BY DEF TurnRecord, KernelConstants
  <2>2. Len(t.log) \in Nat
    BY <2>1, LenProperties
  <2>3. \A m \in Epochs : eps[m].emitted \in Nat
    BY DEF EpochRecord
  <2>4. QED
    BY <2>1, <2>2, <2>3 DEF Epochs
<1> HIDE DEF q2
<1>4. \A i \in 1..Len(q2) : 0 < q2[i].num /\ q2[i].num <= eps2[q2[i].ep].emitted
  <2>1. ASSUME NEW i \in 1..Len(q)
        PROVE  0 < q2[i].num /\ q2[i].num <= eps2[q2[i].ep].emitted
    <3>1. q[i].num \in Nat /\ q[i].ep \in Epochs /\ q2[i] = q[i]
      BY <1>1, <1>2 DEF Event
    <3>2. 0 < q[i].num /\ q[i].num <= eps[q[i].ep].emitted
      BY DEF OrderOf
    <3>3. eps2[q[i].ep].emitted \in {eps[q[i].ep].emitted, eps[q[i].ep].emitted + 1}
      BY <3>1
    <3>4. eps[q[i].ep].emitted \in Nat
      BY <1>3, <3>1
    <3>5. QED
      BY <3>1, <3>2, <3>3, <3>4
  <2>2. 0 < q2[Len(q) + 1].num /\ q2[Len(q) + 1].num <= eps2[q2[Len(q) + 1].ep].emitted
    BY <1>1, <1>3
  <2>3. QED
    BY <1>1, <2>1, <2>2
<1>5. ASSUME t.epoch # 0
      PROVE  /\ Len(t.log) <= eps2[t.epoch].emitted
             /\ \A x \in Nat : Len(t.log) < x /\ x <= eps2[t.epoch].emitted =>
                  \E i \in 1..Len(q2) : q2[i].ep = t.epoch /\ q2[i].num = x
             /\ \A i \in 1..Len(q2) : q2[i].ep = t.epoch => Len(t.log) < q2[i].num
             /\ \A i, j \in 1..Len(q2) :
                  i < j /\ q2[i].ep = t.epoch /\ q2[j].ep = t.epoch => q2[i].num < q2[j].num
  <2>1. /\ Len(t.log) <= eps[t.epoch].emitted
        /\ \A x \in Nat : Len(t.log) < x /\ x <= eps[t.epoch].emitted =>
             \E i \in 1..Len(q) : q[i].ep = t.epoch /\ q[i].num = x
        /\ \A i \in 1..Len(q) : q[i].ep = t.epoch => Len(t.log) < q[i].num
        /\ \A i, j \in 1..Len(q) :
             i < j /\ q[i].ep = t.epoch /\ q[j].ep = t.epoch => q[i].num < q[j].num
    BY <1>5 DEF OrderOf
  <2>2. Len(t.log) <= eps2[t.epoch].emitted
    BY <1>3, <1>5, <2>1
  <2>3. ASSUME NEW x \in Nat, Len(t.log) < x, x <= eps2[t.epoch].emitted
        PROVE  \E i \in 1..Len(q2) : q2[i].ep = t.epoch /\ q2[i].num = x
    <3>1. CASE x <= eps[t.epoch].emitted
      <4>1. PICK i \in 1..Len(q) : q[i].ep = t.epoch /\ q[i].num = x
        BY <2>1, <2>3, <3>1
      <4>2. i \in 1..Len(q2) /\ q2[i] = q[i]
        BY <1>1
      <4>3. QED
        BY <4>1, <4>2
    <3>2. CASE x > eps[t.epoch].emitted
      <4>1. t.epoch = n /\ x = eps[n].emitted + 1
        BY <1>3, <1>5, <2>3, <3>2
      <4>2. Len(q) + 1 \in 1..Len(q2)
        BY <1>1
      <4>3. QED
        BY <1>1, <4>1, <4>2
    <3>3. QED
      BY <1>3, <1>5, <3>1, <3>2
  <2>4. ASSUME NEW i \in 1..Len(q2), q2[i].ep = t.epoch
        PROVE  Len(t.log) < q2[i].num
    <3>1. CASE i \in 1..Len(q)
      BY <1>1, <2>1, <2>4, <3>1
    <3>2. CASE i = Len(q) + 1
      BY <1>1, <1>3, <2>1, <2>4, <3>2
    <3>3. QED
      BY <1>1, <3>1, <3>2
  <2>5. ASSUME NEW i \in 1..Len(q2), NEW j \in 1..Len(q2), i < j,
               q2[i].ep = t.epoch, q2[j].ep = t.epoch
        PROVE  q2[i].num < q2[j].num
    <3>1. i \in 1..Len(q)
      BY <1>1, <2>5
    <3>2. CASE j \in 1..Len(q)
      BY <1>1, <2>1, <2>5, <3>1, <3>2
    <3>3. CASE j = Len(q) + 1
      <4>1. q[i].num <= eps[n].emitted /\ q[i].num \in Nat
        <5>1. q2[i] = q[i] /\ q[i] \in Event /\ q2[j] = e
          BY <1>1, <1>2, <3>1, <3>3
        <5>2. q[i].ep = n
          BY <2>5, <5>1
        <5>3. q[i].num <= eps[q[i].ep].emitted
          BY <3>1 DEF OrderOf
        <5>4. QED
          BY <5>1, <5>2, <5>3 DEF Event
      <4>2. QED
        BY <1>1, <1>3, <3>1, <3>3, <4>1
    <3>4. QED
      BY <1>1, <3>2, <3>3
  <2>6. QED
    BY <2>2, <2>3, <2>4, <2>5
<1>6. \A i \in 1..Len(t.log) : t.log[i] = i
  BY DEF OrderOf
<1>7. OrderOf(t, q2, eps2)
  BY <1>4, <1>5, <1>6 DEF OrderOf
<1>8. QED
  BY <1>7 DEF q2

\* The turn takes the oldest event that waits: it is the next of its epoch, or of
\* an epoch left behind.
LEMMA TakenInOrder ==
  ASSUME KernelConstants,
         NEW t \in TurnRecord, NEW q \in Seq(Event), NEW eps \in [Epochs -> EpochRecord],
         q # <<>>, OrderOf(t, q, eps)
  PROVE  /\ \A t2 \in TurnRecord :
              t2.epoch = t.epoch /\ t2.epoch # 0 /\ Head(q).ep = t.epoch
                /\ t2.log = Append(t.log, Head(q).num) => OrderOf(t2, Tail(q), eps)
         /\ \A t2 \in TurnRecord :
              t2.epoch = t.epoch /\ Head(q).ep # t.epoch /\ t2.log = t.log => OrderOf(t2, Tail(q), eps)
         /\ \A t2 \in TurnRecord : t2.epoch = 0 /\ t2.log = <<>> => OrderOf(t2, Tail(q), eps)
<1> DEFINE q2 == Tail(q)
<1> DEFINE h == Head(q)
<1> DEFINE k == Len(t.log)
<1>1. /\ q2 \in Seq(Event) /\ Len(q) \in Nat \ {0} /\ Len(q2) = Len(q) - 1
      /\ \A i \in 1..Len(q2) : q2[i] = q[i + 1]
      /\ q[1] = h /\ h \in Event
  BY HeadTailProperties, EmptySeq, LenProperties
<1>2. \A i \in 1..Len(q) : q[i] \in Event /\ q[i].num \in Nat
  <2>1. \A i \in 1..Len(q) : q[i] \in Event
    BY ElementOfSeq
  <2>2. QED
    BY <2>1 DEF Event
<1>3. t.log \in Seq(Nat) /\ k \in Nat
  BY LenProperties DEF TurnRecord
<1>4. \A i \in 1..Len(q2) : 0 < q2[i].num /\ q2[i].num <= eps[q2[i].ep].emitted
  BY <1>1 DEF OrderOf
<1>5. \A i \in 1..Len(t.log) : t.log[i] = i
  BY DEF OrderOf
<1> HIDE DEF q2, h, k
<1>6. ASSUME NEW t2 \in TurnRecord, t2.epoch = 0, t2.log = <<>>
      PROVE  OrderOf(t2, q2, eps)
  BY <1>4, <1>6 DEF OrderOf
<1>7. ASSUME t.epoch # 0
      PROVE  /\ k <= eps[t.epoch].emitted
             /\ \A x \in Nat : k < x /\ x <= eps[t.epoch].emitted =>
                  \E i \in 1..Len(q) : q[i].ep = t.epoch /\ q[i].num = x
             /\ \A i \in 1..Len(q) : q[i].ep = t.epoch => k < q[i].num
             /\ \A i, j \in 1..Len(q) :
                  i < j /\ q[i].ep = t.epoch /\ q[j].ep = t.epoch => q[i].num < q[j].num
             /\ t.epoch \in Epochs /\ eps[t.epoch].emitted \in Nat
  <2>1. t.epoch \in Epochs
    BY <1>7 DEF TurnRecord, Epochs, KernelConstants
  <2>2. eps[t.epoch].emitted \in Nat
    BY <2>1 DEF EpochRecord
  <2>3. QED
    BY <1>7, <2>1, <2>2 DEF OrderOf, k
<1>8. ASSUME NEW i \in 1..Len(q), i # 1
      PROVE  i - 1 \in 1..Len(q2) /\ q2[i - 1] = q[i]
  <2>1. i - 1 \in 1..Len(q2) /\ (i - 1) + 1 = i
    BY <1>1, <1>8
  <2>2. QED
    BY <1>1, <2>1
<1>9. ASSUME NEW i \in 1..Len(q2)
      PROVE  i + 1 \in 1..Len(q) /\ 1 \in 1..Len(q) /\ 1 < i + 1 /\ q2[i] = q[i + 1]
  BY <1>1
<1>10. ASSUME NEW t2 \in TurnRecord, t2.epoch = t.epoch, h.ep # t.epoch, t2.log = t.log
       PROVE  OrderOf(t2, q2, eps)
  <2>1. ASSUME t.epoch # 0, NEW x \in Nat, k < x, x <= eps[t.epoch].emitted
        PROVE  \E i \in 1..Len(q2) : q2[i].ep = t.epoch /\ q2[i].num = x
    <3>1. PICK i \in 1..Len(q) : q[i].ep = t.epoch /\ q[i].num = x
      BY <1>7, <2>1
    <3>2. i # 1
      BY <1>1, <1>10, <3>1
    <3>3. QED
      BY <1>8, <3>1, <3>2
  <2>2. ASSUME t.epoch # 0
        PROVE  /\ \A i \in 1..Len(q2) : q2[i].ep = t.epoch => k < q2[i].num
               /\ \A i, j \in 1..Len(q2) :
                    i < j /\ q2[i].ep = t.epoch /\ q2[j].ep = t.epoch => q2[i].num < q2[j].num
    <3>1. \A i \in 1..Len(q2) : q2[i].ep = t.epoch => k < q2[i].num
      BY <1>7, <1>9, <2>2
    <3>2. ASSUME NEW i \in 1..Len(q2), NEW j \in 1..Len(q2), i < j,
                 q2[i].ep = t.epoch, q2[j].ep = t.epoch
          PROVE  q2[i].num < q2[j].num
      <4>1. /\ i + 1 \in 1..Len(q) /\ j + 1 \in 1..Len(q) /\ i + 1 < j + 1
            /\ q2[i] = q[i + 1] /\ q2[j] = q[j + 1]
        BY <1>1, <3>2
      <4>2. QED
        BY <1>7, <2>2, <3>2, <4>1
    <3>3. QED
      BY <3>1, <3>2
  <2>3. QED
    BY <1>4, <1>5, <1>7, <1>10, <2>1, <2>2 DEF OrderOf, k
<1>11. ASSUME NEW t2 \in TurnRecord, t2.epoch = t.epoch, t2.epoch # 0, h.ep = t.epoch,
              t2.log = Append(t.log, h.num)
       PROVE  OrderOf(t2, q2, eps)
  <2>1. h.num = k + 1
    <3>1. k < h.num /\ h.num <= eps[t.epoch].emitted /\ h.num \in Nat /\ 1 \in 1..Len(q)
      <4>1. 1 \in 1..Len(q)
        BY <1>1
      <4>2. k < q[1].num /\ q[1].num \in Nat
        BY <1>1, <1>2, <1>7, <1>11, <4>1
      <4>3. q[1].num <= eps[q[1].ep].emitted
        BY <4>1 DEF OrderOf
      <4>4. QED
        BY <1>1, <1>11, <4>1, <4>2, <4>3
    <3>2. k + 1 \in Nat /\ k < k + 1 /\ k + 1 <= eps[t.epoch].emitted
      BY <1>3, <1>7, <1>11, <3>1
    <3>3. PICK i \in 1..Len(q) : q[i].ep = t.epoch /\ q[i].num = k + 1
      BY <1>7, <1>11, <3>2
    <3>4. CASE i = 1
      BY <1>1, <3>3, <3>4
    <3>5. CASE i # 1
      <4>1. 1 < i
        BY <3>3, <3>5
      <4>2. q[1].num < q[i].num
        BY <1>1, <1>7, <1>11, <3>1, <3>3, <4>1
      <4>3. h.num < k + 1
        BY <1>1, <3>3, <4>2
      <4>4. QED
        BY <1>3, <3>1, <4>3
    <3>6. QED
      BY <3>4, <3>5
  <2>2. /\ Len(t2.log) = k + 1
        /\ \A i \in 1..Len(t2.log) : t2.log[i] = i
    <3>1. /\ Len(Append(t.log, h.num)) = Len(t.log) + 1
          /\ \A i \in 1..Len(t.log) : Append(t.log, h.num)[i] = t.log[i]
          /\ Append(t.log, h.num)[Len(t.log) + 1] = h.num
      BY <1>1, <1>3, AppendProperties DEF Event
    <3>2. QED
      BY <1>3, <1>5, <1>11, <2>1, <3>1 DEF k
  <2>3. k + 1 <= eps[t.epoch].emitted
    BY <1>1, <1>7, <1>11, <2>1 DEF OrderOf
  <2>4. ASSUME NEW x \in Nat, k + 1 < x, x <= eps[t.epoch].emitted
        PROVE  \E i \in 1..Len(q2) : q2[i].ep = t.epoch /\ q2[i].num = x
    <3>1. PICK i \in 1..Len(q) : q[i].ep = t.epoch /\ q[i].num = x
      <4>1. k < x
        BY <1>3, <2>4
      <4>2. QED
        BY <1>7, <1>11, <2>4, <4>1
    <3>2. i # 1
      BY <1>1, <1>3, <2>1, <2>4, <3>1
    <3>3. QED
      BY <1>8, <3>1, <3>2
  <2>5. ASSUME NEW i \in 1..Len(q2), q2[i].ep = t.epoch
        PROVE  k + 1 < q2[i].num
    BY <1>1, <1>7, <1>9, <1>11, <2>1, <2>5, ZenonT(90)
  <2>6. ASSUME NEW i \in 1..Len(q2), NEW j \in 1..Len(q2), i < j,
               q2[i].ep = t.epoch, q2[j].ep = t.epoch
        PROVE  q2[i].num < q2[j].num
    <3>1. /\ i + 1 \in 1..Len(q) /\ j + 1 \in 1..Len(q) /\ i + 1 < j + 1
          /\ q2[i] = q[i + 1] /\ q2[j] = q[j + 1]
      BY <1>1, <2>6
    <3>2. QED
      BY <1>7, <1>11, <2>6, <3>1
  <2>7. QED
    BY <1>4, <1>11, <2>2, <2>3, <2>4, <2>5, <2>6 DEF OrderOf
<1>12. QED
  BY <1>6, <1>10, <1>11 DEF q2, h

\* Only the numbers of the events sent matter to the order.
LEMMA OrderFrame ==
  ASSUME KernelConstants,
         NEW t \in TurnRecord, NEW t2 \in TurnRecord, NEW q \in Seq(Event),
         NEW eps \in [Epochs -> EpochRecord], NEW eps2 \in [Epochs -> EpochRecord],
         \A m \in Epochs : eps2[m].emitted = eps[m].emitted,
         OrderOf(t, q, eps),
         \/ t2.epoch = t.epoch /\ t2.log = t.log
         \/ t2.epoch = 0 /\ t2.log = <<>>
  PROVE  OrderOf(t2, q, eps2)
<1>1. \A i \in 1..Len(q) : q[i] \in Event
  BY ElementOfSeq
<1>2. \A i \in 1..Len(q) : q[i].ep \in Epochs
  BY <1>1 DEF Event
<1>3. t.epoch # 0 => t.epoch \in Epochs
  BY DEF TurnRecord, Epochs, KernelConstants
<1>4. CASE t2.epoch = t.epoch /\ t2.log = t.log
  BY <1>2, <1>3, <1>4 DEF OrderOf
<1>5. CASE t2.epoch = 0 /\ t2.log = <<>>
  BY <1>2, <1>5 DEF OrderOf
<1>6. QED
  BY <1>4, <1>5

\* What is known of the requests of a session does not depend on the others.
LEMMA RequestFrame ==
  ASSUME KernelConstants, NEW s \in Sessions, NEW q \in Seq(Event), NEW t \in TurnRecord,
         NEW rq, NEW rq2, \A r \in Requests : rq[r].owner = s => rq2[r] = rq[r],
         QueueOf(s, q, rq), PausedOf(s, t, rq)
  PROVE  QueueOf(s, q, rq2) /\ PausedOf(s, t, rq2)
<1>1. \A i \in 1..Len(q) : q[i] \in Event
  BY ElementOfSeq
<1>2. \A i \in 1..Len(q) : q[i].req # NoRequest => q[i].req \in Requests
  BY <1>1 DEF Event
<1>3. t.on # NoRequest => t.on \in Requests
  BY DEF TurnRecord
<1>4. QueueOf(s, q, rq2)
  BY <1>2 DEF QueueOf
<1>5. PausedOf(s, t, rq2)
  BY <1>3 DEF PausedOf
<1>6. QED
  BY <1>4, <1>5

\* A new event brings a new request, or none.
LEMMA SentRequest ==
  ASSUME KernelConstants, NEW s \in Sessions, NEW q \in Seq(Event), NEW e \in Event,
         NEW rq, NEW rq2, QueueOf(s, q, rq),
         e.kind \in EffectKinds <=> e.req # NoRequest,
         e.req # NoRequest =>
           /\ rq[e.req].owner = NoSession
           /\ rq2[e.req].owner = s /\ rq2[e.req].epoch = e.ep /\ Untouched(rq2[e.req]),
         \A r \in Requests : r # e.req => rq2[r] = rq[r]
  PROVE  QueueOf(s, Append(q, e), rq2)
<1> DEFINE q2 == Append(q, e)
<1>1. /\ q2 \in Seq(Event) /\ Len(q2) = Len(q) + 1 /\ Len(q) \in Nat
      /\ \A i \in 1..Len(q) : q2[i] = q[i]
      /\ q2[Len(q) + 1] = e
  BY AppendProperties, LenProperties
<1>2. \A i \in 1..Len(q) : q[i] \in Event
  BY ElementOfSeq
<1>3. \A i \in 1..Len(q) : q[i].req # NoRequest => q[i].req \in Requests
  BY <1>2 DEF Event
<1>4. \A i \in 1..Len(q) : q[i].req # NoRequest => q[i].req # e.req /\ rq2[q[i].req] = rq[q[i].req]
  <2>1. ASSUME NEW i \in 1..Len(q), q[i].req # NoRequest
        PROVE  q[i].req # e.req /\ rq2[q[i].req] = rq[q[i].req]
    <3>1. rq[q[i].req].owner = s /\ q[i].req \in Requests
      BY <1>3, <2>1 DEF QueueOf
    <3>2. s # NoSession
      BY DEF KernelConstants
    <3>3. q[i].req # e.req
      BY <2>1, <3>1, <3>2
    <3>4. QED
      BY <3>1, <3>3
  <2>2. QED
    BY <2>1
<1>5. e.req # NoRequest =>
        /\ rq2[e.req].owner = s /\ rq2[e.req].epoch = e.ep /\ Untouched(rq2[e.req])
  OBVIOUS
<1> HIDE DEF q2
<1>6. ASSUME NEW i \in 1..Len(q2)
      PROVE  /\ q2[i].kind \in EffectKinds <=> q2[i].req # NoRequest
             /\ q2[i].req # NoRequest =>
                  /\ rq2[q2[i].req].owner = s /\ rq2[q2[i].req].epoch = q2[i].ep
                  /\ Untouched(rq2[q2[i].req])
  <2>1. CASE i \in 1..Len(q)
    <3>1. q2[i] = q[i]
      BY <1>1, <2>1
    <3>2. /\ q[i].kind \in EffectKinds <=> q[i].req # NoRequest
          /\ q[i].req # NoRequest =>
               /\ rq[q[i].req].owner = s /\ rq[q[i].req].epoch = q[i].ep
               /\ Untouched(rq[q[i].req])
      BY <2>1 DEF QueueOf
    <3>3. QED
      BY <1>4, <2>1, <3>1, <3>2
  <2>2. CASE i = Len(q) + 1
    BY <1>1, <1>5, <2>2
  <2>3. QED
    BY <1>1, <2>1, <2>2
<1>7. ASSUME NEW i \in 1..Len(q2), NEW j \in 1..Len(q2), i # j, q2[i].req # NoRequest
      PROVE  q2[i].req # q2[j].req
  <2>1. CASE i \in 1..Len(q) /\ j \in 1..Len(q)
    BY <1>1, <1>7, <2>1 DEF QueueOf
  <2>2. CASE i = Len(q) + 1
    <3>1. j \in 1..Len(q)
      BY <1>1, <1>7, <2>2
    <3>2. QED
      BY <1>1, <1>4, <1>7, <2>2, <3>1
  <2>3. CASE j = Len(q) + 1
    <3>1. i \in 1..Len(q)
      BY <1>1, <1>7, <2>3
    <3>2. QED
      BY <1>1, <1>4, <1>7, <2>3, <3>1
  <2>4. QED
    BY <1>1, <2>1, <2>2, <2>3
<1>8. QueueOf(s, q2, rq2)
  BY <1>6, <1>7 DEF QueueOf
<1>9. QED
  BY <1>8 DEF q2

\* Handling the oldest event leaves the requests of the others alone.
LEMMA TakenRequest ==
  ASSUME NEW s \in Sessions, NEW q \in Seq(Event), q # <<>>, NEW rq, NEW rq2,
         QueueOf(s, q, rq),
         \A r \in Requests : r # Head(q).req => rq2[r] = rq[r]
  PROVE  /\ QueueOf(s, Tail(q), rq2)
         /\ Head(q) \in Event
         /\ Head(q).kind \in EffectKinds <=> Head(q).req # NoRequest
         /\ Head(q).req # NoRequest =>
              /\ rq[Head(q).req].owner = s /\ rq[Head(q).req].epoch = Head(q).ep
              /\ Untouched(rq[Head(q).req])
<1> DEFINE q2 == Tail(q)
<1> DEFINE h == Head(q)
<1>1. /\ q2 \in Seq(Event) /\ Len(q) \in Nat \ {0} /\ Len(q2) = Len(q) - 1
      /\ \A i \in 1..Len(q2) : q2[i] = q[i + 1]
      /\ q[1] = h /\ h \in Event
  BY HeadTailProperties, EmptySeq, LenProperties
<1>2. \A i \in 1..Len(q) : q[i] \in Event
  BY ElementOfSeq
<1>3. \A i \in 1..Len(q) : q[i].req # NoRequest => q[i].req \in Requests
  BY <1>2 DEF Event
<1>4. 1 \in 1..Len(q)
  BY <1>1
<1> HIDE DEF q2, h
<1>5. /\ h.kind \in EffectKinds <=> h.req # NoRequest
      /\ h.req # NoRequest =>
           /\ rq[h.req].owner = s /\ rq[h.req].epoch = h.ep /\ Untouched(rq[h.req])
  BY <1>1, <1>4 DEF QueueOf
<1>6. ASSUME NEW i \in 1..Len(q2)
      PROVE  /\ q2[i].kind \in EffectKinds <=> q2[i].req # NoRequest
             /\ q2[i].req # NoRequest =>
                  /\ rq2[q2[i].req].owner = s /\ rq2[q2[i].req].epoch = q2[i].ep
                  /\ Untouched(rq2[q2[i].req])
  <2>1. i + 1 \in 1..Len(q) /\ q2[i] = q[i + 1] /\ i + 1 # 1
    BY <1>1
  <2>2. q[i + 1].req # NoRequest => q[i + 1].req # h.req
    BY <1>1, <1>4, <2>1 DEF QueueOf
  <2>3. q[i + 1].req # NoRequest => rq2[q[i + 1].req] = rq[q[i + 1].req]
    BY <1>3, <2>1, <2>2 DEF h
  <2>4. QED
    BY <2>1, <2>3 DEF QueueOf
<1>7. ASSUME NEW i \in 1..Len(q2), NEW j \in 1..Len(q2), i # j, q2[i].req # NoRequest
      PROVE  q2[i].req # q2[j].req
  <2>1. /\ i + 1 \in 1..Len(q) /\ q2[i] = q[i + 1] /\ i + 1 # j + 1
        /\ j + 1 \in 1..Len(q) /\ q2[j] = q[j + 1]
    BY <1>1, <1>7
  <2>2. QED
    BY <1>7, <2>1 DEF QueueOf
<1>8. QueueOf(s, q2, rq2)
  BY <1>6, <1>7 DEF QueueOf
<1>9. QED
  BY <1>1, <1>5, <1>8 DEF q2, h

-----------------------------------------------------------------------------
(* One event *)

\* Request r gets grant g, code c and decision d, the others stay.
Changed(rq, rq2, r, g, c, d) ==
  /\ rq2 \in [Requests -> RequestRecord]
  /\ \A x \in Requests \ {r} : rq2[x] = rq[x]
  /\ rq2[r].owner = rq[r].owner /\ rq2[r].epoch = rq[r].epoch
  /\ rq2[r].grant = g /\ rq2[r].code = c /\ rq2[r].decision = d

\* What the operators on the requests do.
LEMMA RequestUpdates ==
  ASSUME NEW rq \in [Requests -> RequestRecord], NEW r \in Requests,
         NEW d \in {"open", "allow", "deny"}, NEW g \in {"none", "pending", "auto", "allowed", "denied"}
  PROVE  /\ Changed(rq, Decided(rq, r, d), r, rq[r].grant, rq[r].code, d)
         /\ Changed(rq, Granted(rq, r, g), r, g, rq[r].code, rq[r].decision)
         /\ Changed(rq, Coded(rq, r), r, "pending", "live", rq[r].decision)
<1>1. rq[r] \in RequestRecord
  OBVIOUS
<1>2. Changed(rq, Decided(rq, r, d), r, rq[r].grant, rq[r].code, d)
  BY <1>1 DEF Changed, Decided, RequestRecord
<1>3. Changed(rq, Granted(rq, r, g), r, g, rq[r].code, rq[r].decision)
  BY <1>1 DEF Changed, Granted, RequestRecord
<1>4. Changed(rq, Coded(rq, r), r, "pending", "live", rq[r].decision)
  BY <1>1 DEF Changed, Coded, RequestRecord
<1>5. QED
  BY <1>2, <1>3, <1>4

\* Two updates of one request.
LEMMA UpdatedTwice ==
  ASSUME NEW rq, NEW rq2, NEW rq3, NEW r \in Requests, NEW g, NEW c, NEW d, NEW g2, NEW c2, NEW d2,
         Changed(rq, rq2, r, g, c, d), Changed(rq2, rq3, r, g2, c2, d2)
  PROVE  Changed(rq, rq3, r, g2, c2, d2)
  BY DEF Changed

\* The event is of an epoch left behind, or tells of its context only.
Ignored(s, e, ep, rq) ==
  /\ e.ep # turn[s].epoch
  /\ turn' = turn /\ driver' = driver /\ epoch' = ep /\ req' = rq /\ conf' = conf

\* The turn goes on; an effect may have been allowed.
Advanced(s, e, ep, rq) ==
  /\ e.ep = turn[s].epoch
  /\ \E item \in BOOLEAN :
       turn' = [turn EXCEPT ![s] = [epoch |-> turn[s].epoch, on |-> turn[s].on, item |-> item,
                                    log |-> Append(turn[s].log, e.num)]]
  /\ driver' = driver /\ epoch' = ep /\ conf' = conf
  /\ \/ req' = rq
     \/ e.kind = "effect" /\ Changed(rq, req', e.req, "auto", "none", "allow")

\* The turn waits for the owner's decision.
Pauses(s, e, ep, rq) ==
  /\ e.ep = turn[s].epoch /\ e.kind = "effect"
  /\ turn' = [turn EXCEPT ![s] = [epoch |-> turn[s].epoch, on |-> e.req, item |-> turn[s].item,
                                  log |-> Append(turn[s].log, e.num)]]
  /\ driver' = NoSession /\ epoch' = ep /\ conf' = conf
  /\ Changed(rq, req', e.req, "pending", "live", "open")

\* The turn ends, recorded or not.
Ends(s, e, ep, rq) ==
  /\ turn' = [turn EXCEPT ![s] = NoTurn] /\ driver' = NoSession
  /\ epoch' = ep \/ epoch' = [ep EXCEPT ![s][turn[s].epoch].ended = @ + 1]
  /\ conf' = conf \/ \E saved \in BOOLEAN : conf' = [conf EXCEPT ![s] = AppliedPending(@, saved)]
  /\ \/ req' = rq
     \/ /\ e.kind \in EffectKinds
        /\ \/ Changed(rq, req', e.req, "none", "none", "deny")
           \/ Changed(rq, req', e.req, "auto", "none", "open")
           \/ Changed(rq, req', e.req, "pending", "live", "deny")
           \/ Changed(rq, req', e.req, "pending", "live", "open")

\* process_provider_event comes to one of these.
LEMMA ProcessOutcome ==
  ASSUME KernelConstants, Types, NEW s \in Sessions, NEW e \in Event, NEW ep,
         NEW rq \in [Requests -> RequestRecord],
         e.kind \in EffectKinds <=> e.req # NoRequest,
         e.req # NoRequest => Untouched(rq[e.req]),
         Process(s, e, ep, rq)
  PROVE  \/ Ignored(s, e, ep, rq) \/ Advanced(s, e, ep, rq)
         \/ Pauses(s, e, ep, rq) \/ Ends(s, e, ep, rq)
<1> DEFINE t == [turn[s] EXCEPT !.log = Append(@, e.num)]
<1> DEFINE log == Append(turn[s].log, e.num)
<1>1. turn \in [Sessions -> TurnRecord] /\ turn[s] \in TurnRecord
  BY DEF Types
<1>2. /\ t = [epoch |-> turn[s].epoch, on |-> turn[s].on, item |-> turn[s].item, log |-> log]
      /\ \A b \in BOOLEAN : [t EXCEPT !.item = b] =
           [epoch |-> turn[s].epoch, on |-> turn[s].on, item |-> b, log |-> log]
      /\ \A r : [t EXCEPT !.on = r] =
           [epoch |-> turn[s].epoch, on |-> r, item |-> turn[s].item, log |-> log]
      /\ t.item = turn[s].item /\ turn[s].item \in BOOLEAN
  <2>1. ASSUME NEW a \in TurnRecord, NEW lg
        PROVE  [a EXCEPT !.log = lg] = [epoch |-> a.epoch, on |-> a.on, item |-> a.item, log |-> lg]
    BY DEF TurnRecord
  <2>2. t = [epoch |-> turn[s].epoch, on |-> turn[s].on, item |-> turn[s].item, log |-> log]
    BY <1>1, <2>1
  <2> HIDE DEF t, log
  <2>3. turn[s].item \in BOOLEAN
    BY <1>1 DEF TurnRecord
  <2>4. QED
    BY <2>2, <2>3
<1>3. [turn EXCEPT ![s] = turn[s]] = turn
  BY <1>1
<1>4. e.kind \in EffectKinds =>
        /\ Changed(rq, Decided(rq, e.req, "deny"), e.req, "none", "none", "deny")
        /\ Changed(rq, Granted(rq, e.req, "auto"), e.req, "auto", "none", "open")
        /\ Changed(rq, Decided(Granted(rq, e.req, "auto"), e.req, "allow"), e.req, "auto", "none", "allow")
        /\ Changed(rq, Coded(rq, e.req), e.req, "pending", "live", "open")
        /\ Changed(rq, Decided(Coded(rq, e.req), e.req, "deny"), e.req, "pending", "live", "deny")
  <2>1. SUFFICES ASSUME e.kind \in EffectKinds
                 PROVE  /\ Changed(rq, Decided(rq, e.req, "deny"), e.req, "none", "none", "deny")
                        /\ Changed(rq, Granted(rq, e.req, "auto"), e.req, "auto", "none", "open")
                        /\ Changed(rq, Decided(Granted(rq, e.req, "auto"), e.req, "allow"), e.req, "auto", "none", "allow")
                        /\ Changed(rq, Coded(rq, e.req), e.req, "pending", "live", "open")
                        /\ Changed(rq, Decided(Coded(rq, e.req), e.req, "deny"), e.req, "pending", "live", "deny")
    OBVIOUS
  <2>2. e.req \in Requests /\ e.req # NoRequest
    BY <2>1 DEF Event
  <2>3. rq[e.req].grant = "none" /\ rq[e.req].code = "none" /\ rq[e.req].decision = "open"
    BY <2>2 DEF Untouched
  <2>4. /\ Changed(rq, Decided(rq, e.req, "deny"), e.req, "none", "none", "deny")
        /\ Changed(rq, Granted(rq, e.req, "auto"), e.req, "auto", "none", "open")
        /\ Changed(rq, Coded(rq, e.req), e.req, "pending", "live", "open")
    BY <2>2, <2>3, RequestUpdates
  <2>5. Changed(rq, Decided(Granted(rq, e.req, "auto"), e.req, "allow"), e.req, "auto", "none", "allow")
    <3> DEFINE rq2 == Granted(rq, e.req, "auto")
    <3>1. /\ rq2 \in [Requests -> RequestRecord]
          /\ rq2[e.req].grant = "auto" /\ rq2[e.req].code = "none"
      BY <2>4 DEF Changed
    <3> HIDE DEF rq2
    <3>2. Changed(rq2, Decided(rq2, e.req, "allow"), e.req, "auto", "none", "allow")
      BY <2>2, <3>1, RequestUpdates
    <3>3. QED
      BY <2>2, <2>4, <3>2, UpdatedTwice DEF rq2
  <2>6. Changed(rq, Decided(Coded(rq, e.req), e.req, "deny"), e.req, "pending", "live", "deny")
    <3> DEFINE rq2 == Coded(rq, e.req)
    <3>1. /\ rq2 \in [Requests -> RequestRecord]
          /\ rq2[e.req].grant = "pending" /\ rq2[e.req].code = "live"
      BY <2>4 DEF Changed
    <3> HIDE DEF rq2
    <3>2. Changed(rq2, Decided(rq2, e.req, "deny"), e.req, "pending", "live", "deny")
      BY <2>2, <3>1, RequestUpdates
    <3>3. QED
      BY <2>2, <2>4, <3>2, UpdatedTwice DEF rq2
  <2>7. QED
    BY <2>4, <2>5, <2>6
<1> HIDE DEF t, log
<1>5. CASE e.ep # turn[s].epoch
  <2>1. CASE e.kind # "context"
    BY <1>3, <1>5, <2>1 DEF Process, ActiveEventMatches, Continues, Ignored
  <2>2. CASE e.kind = "context"
    <3>1. Continues(s, turn[s], ep, rq) \/ Failed(s, ep, rq)
      BY <1>5, <2>2 DEF Process, ActiveEventMatches
    <3>2. QED
      BY <1>3, <1>5, <3>1 DEF Continues, Ignored, Failed, FailTurn, Ends
  <2>3. QED
    BY <2>1, <2>2
<1>6. CASE e.ep = turn[s].epoch
  <2> DEFINE done == \/ Ignored(s, e, ep, rq) \/ Advanced(s, e, ep, rq)
                     \/ Pauses(s, e, ep, rq) \/ Ends(s, e, ep, rq)
  <2> SUFFICES done
    OBVIOUS
  <2>1. e.kind \in {"item", "itemEnd", "content", "context", "effect", "badEffect",
                     "done", "failed"}
    BY DEF Event, KernelConstants
  <2>2. Failed(s, ep, rq) => done
    BY DEF Failed, FailTurn, Ends
  <2>3. ASSUME NEW b \in BOOLEAN, Continues(s, [t EXCEPT !.item = b], ep, rq)
        PROVE  done
    BY <1>2, <1>6, <2>3 DEF Continues, Advanced, log
  <2>4. Continues(s, t, ep, rq) => done
    BY <1>2, <1>6 DEF Continues, Advanced, log
  <2>5. e.kind \in EffectKinds /\ DenyEffect(s, e.req, ep, rq) => done
    BY <1>4 DEF DenyEffect, Failed, FailTurn, Ends
  <2>6. e.kind = "effect" /\ AutoAllow(s, e.req, t, ep, rq) => done
    BY <1>2, <1>4, <1>6 DEF AutoAllow, Continues, Failed, FailTurn, Ends, Advanced, EffectKinds, log
  <2>7. e.kind = "effect" /\ Pause(s, e.req, t, ep, rq) => done
    BY <1>2, <1>4, <1>6 DEF Pause, Failed, FailTurn, Ends, Pauses, EffectKinds, log
  <2>8. Completes(s, ep, rq) => done
    BY DEF Completes, Failed, FailTurn, Ends, Saves
  <2>9. ActiveEventMatches(s, e)
    BY <1>6 DEF ActiveEventMatches
  <2> HIDE DEF done
  <2>10. CASE e.kind = "item"
    BY <2>2, <2>3, <2>9, <2>10 DEF Process, t
  <2>11. CASE e.kind = "itemEnd"
    BY <2>2, <2>3, <2>9, <2>11 DEF Process, t
  <2>12. CASE e.kind = "content"
    BY <2>2, <2>4, <2>9, <2>12 DEF Process, t
  <2>13. CASE e.kind = "badEffect"
    BY <2>5, <2>9, <2>13 DEF Process, EffectKinds
  <2>14. CASE e.kind = "effect"
    BY <2>5, <2>6, <2>7, <2>9, <2>14 DEF Process, EffectKinds, t
  <2>15. CASE e.kind = "done"
    BY <2>8, <2>9, <2>15 DEF Process
  <2>16. CASE e.kind = "failed"
    BY <2>2, <2>9, <2>16 DEF Process
  <2>17. CASE e.kind = "context"
    BY <1>6, <2>2, <2>4, <2>9, <2>17 DEF Process, t
  <2>18. QED
    BY <2>1, <2>10, <2>11, <2>12, <2>13, <2>14, <2>15, <2>16, <2>17
<1>7. QED
  BY <1>5, <1>6

\* Requests only the handled one of which changes, to no less than it was.
Handled(e, rq, rq2) ==
  /\ rq2 \in [Requests -> RequestRecord]
  /\ \A r \in Requests : r # e.req => rq2[r] = rq[r]
  /\ e.req # NoRequest => rq2[e.req].owner = rq[e.req].owner /\ rq2[e.req].epoch = rq[e.req].epoch

\* The turn that handled the oldest event of q, and the epochs it left.
Handles(s, ep) ==
  /\ turn' \in [Sessions -> TurnRecord] /\ epoch' \in [Sessions -> [Epochs -> EpochRecord]]
  /\ \A x \in Sessions \ {s} : turn'[x] = turn[x] /\ epoch'[x] = ep[x]
  /\ driver' \in {driver, NoSession}
  /\ driver' # NoSession => turn'[s].epoch = turn[s].epoch

\* The empty turn is a turn.
LEMMA NoTurnType ==
  ASSUME KernelConstants
  PROVE  /\ NoTurn \in TurnRecord /\ NoTurn.epoch = 0 /\ NoTurn.log = <<>> /\ NoTurn.on = NoRequest
<1>1. <<>> \in Seq(Nat)
  OBVIOUS
<1>2. QED
  BY <1>1 DEF NoTurn, TurnRecord, KernelConstants

\* The record of an epoch whose turn has ended.
LEMMA EndedRecord ==
  ASSUME NEW a \in EpochRecord
  PROVE  /\ [a EXCEPT !.ended = a.ended + 1] \in EpochRecord
         /\ [a EXCEPT !.ended = a.ended + 1].emitted = a.emitted
         /\ [a EXCEPT !.ended = a.ended + 1].state = a.state
         /\ [a EXCEPT !.ended = a.ended + 1].ended = a.ended + 1
<1>1. a.ended \in Nat /\ a.ended + 1 \in Nat
  BY DEF EpochRecord
<1>2. [a EXCEPT !.ended = a.ended + 1] = [state |-> a.state, emitted |-> a.emitted, ended |-> a.ended + 1]
  BY DEF EpochRecord
<1>3. a.state \in States /\ a.emitted \in Nat
  BY DEF EpochRecord
<1>4. QED
  BY <1>1, <1>2, <1>3 DEF EpochRecord

\* The record of epoch n of s is replaced.
LEMMA EpochUpdate ==
  ASSUME NEW ep \in [Sessions -> [Epochs -> EpochRecord]], NEW s \in Sessions, NEW n \in Epochs,
         NEW b \in EpochRecord
  PROVE  /\ [ep EXCEPT ![s][n] = b] \in [Sessions -> [Epochs -> EpochRecord]]
         /\ \A x \in Sessions \ {s} : [ep EXCEPT ![s][n] = b][x] = ep[x]
         /\ [ep EXCEPT ![s][n] = b][s][n] = b
         /\ \A m \in Epochs \ {n} : [ep EXCEPT ![s][n] = b][s][m] = ep[s][m]
<1> DEFINE w == [ep[s] EXCEPT ![n] = b]
<1>1. w \in [Epochs -> EpochRecord] /\ w[n] = b /\ \A m \in Epochs \ {n} : w[m] = ep[s][m]
  OBVIOUS
<1>2. [ep EXCEPT ![s][n] = b] = [ep EXCEPT ![s] = w]
  OBVIOUS
<1> HIDE DEF w
<1>3. /\ [ep EXCEPT ![s] = w] \in [Sessions -> [Epochs -> EpochRecord]]
      /\ \A x \in Sessions \ {s} : [ep EXCEPT ![s] = w][x] = ep[x]
      /\ [ep EXCEPT ![s] = w][s] = w
  BY <1>1
<1>4. QED
  BY <1>1, <1>2, <1>3

\* The epoch n of s is ended.
LEMMA EndedEpoch ==
  ASSUME NEW ep \in [Sessions -> [Epochs -> EpochRecord]], NEW s \in Sessions, NEW n \in Epochs
  PROVE  \E b \in EpochRecord :
           /\ [ep EXCEPT ![s][n].ended = @ + 1] = [ep EXCEPT ![s][n] = b]
           /\ b.emitted = ep[s][n].emitted /\ b.state = ep[s][n].state
           /\ b.ended = ep[s][n].ended + 1
<1>1. ep[s][n] \in EpochRecord
  OBVIOUS
<1> DEFINE b == [ep[s][n] EXCEPT !.ended = ep[s][n].ended + 1]
<1>2. /\ b \in EpochRecord /\ b.emitted = ep[s][n].emitted /\ b.state = ep[s][n].state
      /\ b.ended = ep[s][n].ended + 1
  BY <1>1, EndedRecord
<1>3. [ep EXCEPT ![s][n].ended = @ + 1] = [ep EXCEPT ![s][n] = b]
  OBVIOUS
<1> HIDE DEF b
<1>4. QED
  BY <1>2, <1>3

\* The handled event leaves the session in order.
LEMMA TakenKeeps ==
  ASSUME KernelConstants, Types, NEW s \in Sessions, ~Idle(s),
         NEW ep \in [Sessions -> [Epochs -> EpochRecord]], NEW rq \in [Requests -> RequestRecord],
         NEW q \in Seq(Event), q # <<>>,
         SessionInv(s, turn[s], q, ep[s], rq), Process(s, Head(q), ep, rq)
  PROVE  /\ Handles(s, ep) /\ Handled(Head(q), rq, req')
         /\ SessionInv(s, turn'[s], Tail(q), epoch'[s], req')
<1> DEFINE e == Head(q)
<1> DEFINE t == turn[s]
<1> DEFINE n == turn[s].epoch
<1>1. /\ t \in TurnRecord /\ t.epoch = n /\ n \in Epochs /\ n # 0 /\ turn \in [Sessions -> TurnRecord]
      /\ t.log \in Seq(Nat) /\ t.on \in Requests \cup {NoRequest} /\ n \in 0..MaxEpochs
  BY DEF Types, TurnRecord, Idle, Epochs, KernelConstants
<1>2. /\ EndsOf(t, ep[s]) /\ OrderOf(t, q, ep[s]) /\ QueueOf(s, q, rq) /\ PausedOf(s, t, rq)
      /\ ep[s] \in [Epochs -> EpochRecord]
  BY DEF SessionInv
<1>3. /\ e \in Event /\ Tail(q) \in Seq(Event)
      /\ e.kind \in EffectKinds <=> e.req # NoRequest
      /\ e.req # NoRequest =>
           rq[e.req].owner = s /\ rq[e.req].epoch = e.ep /\ Untouched(rq[e.req])
  BY <1>2, TakenRequest, HeadTailProperties
<1>4. \/ Ignored(s, e, ep, rq) \/ Advanced(s, e, ep, rq)
      \/ Pauses(s, e, ep, rq) \/ Ends(s, e, ep, rq)
  BY <1>3, ProcessOutcome
<1>5. e.num \in Nat /\ (e.req # NoRequest => e.req \in Requests) /\ e.req \in Requests \cup {NoRequest}
  BY <1>3 DEF Event
<1>6. Append(t.log, e.num) \in Seq(Nat)
  BY <1>1, <1>5, AppendProperties
<1> HIDE DEF e, t, n
<1>7. Handled(e, rq, req')
  <2>1. CASE req' = rq
    BY <2>1 DEF Handled
  <2>2. CASE \E g, c, d : e.req # NoRequest /\ Changed(rq, req', e.req, g, c, d)
    BY <1>5, <2>2 DEF Handled, Changed
  <2>3. QED
    BY <1>3, <1>4, <2>1, <2>2 DEF Ignored, Advanced, Pauses, Ends, EffectKinds
<1>8. QueueOf(s, Tail(q), req')
  BY <1>2, <1>7, TakenRequest DEF Handled, e
<1>9. CASE Ignored(s, e, ep, rq)
  <2>1. turn'[s] = t /\ epoch'[s] = ep[s] /\ req' = rq /\ Handles(s, ep) /\ e.ep # t.epoch
    BY <1>1, <1>9 DEF Ignored, Handles, t, Types, n
  <2>2. OrderOf(t, Tail(q), ep[s])
    BY <1>1, <1>2, <2>1, TakenInOrder DEF e
  <2>3. SessionInv(s, t, Tail(q), ep[s], rq)
    BY <1>1, <1>2, <1>3, <1>8, <2>1, <2>2 DEF SessionInv
  <2>4. QED
    BY <1>7, <2>1, <2>3 DEF e
<1>10. ASSUME NEW t2, NEW on \in Requests \cup {NoRequest}, NEW item \in BOOLEAN,
              t2 = [epoch |-> n, on |-> on, item |-> item, log |-> Append(t.log, e.num)],
              turn' = [turn EXCEPT ![s] = t2], epoch' = ep, e.ep = n,
              driver' \in {driver, NoSession}, PausedOf(s, t2, req')
       PROVE  Handles(s, ep) /\ SessionInv(s, turn'[s], Tail(q), epoch'[s], req')
  <2>1. t2 \in TurnRecord
    BY <1>1, <1>6, <1>10 DEF TurnRecord
  <2>2. t2.epoch = n /\ t2.log = Append(t.log, e.num)
    BY <1>10
  <2>3. turn'[s] = t2 /\ turn' \in [Sessions -> TurnRecord] /\ \A x \in Sessions \ {s} : turn'[x] = turn[x]
    BY <1>1, <1>10, <2>1
  <2>4. Handles(s, ep)
    BY <1>10, <2>2, <2>3 DEF Handles, n
  <2>5. OrderOf(t2, Tail(q), ep[s])
    BY <1>1, <1>2, <1>10, <2>1, <2>2, TakenInOrder DEF e
  <2>6. EndsOf(t2, ep[s])
    BY <1>1, <1>2, <2>2 DEF EndsOf
  <2>7. QED
    BY <1>2, <1>3, <1>8, <1>10, <2>1, <2>3, <2>4, <2>5, <2>6 DEF SessionInv
<1>11. CASE Advanced(s, e, ep, rq)
  <2>1. PICK item \in BOOLEAN :
          turn' = [turn EXCEPT ![s] = [epoch |-> n, on |-> t.on, item |-> item,
                                       log |-> Append(t.log, e.num)]]
    BY <1>11 DEF Advanced, t, n
  <2> DEFINE t2 == [epoch |-> n, on |-> t.on, item |-> item, log |-> Append(t.log, e.num)]
  <2>2. t2.on = t.on /\ t2.epoch = t.epoch
    BY <1>1
  <2>3. t.on # NoRequest => req'[t.on] = rq[t.on]
    <3>1. SUFFICES ASSUME t.on # NoRequest
                   PROVE  req'[t.on] = rq[t.on]
      OBVIOUS
    <3>2. t.on \in Requests /\ rq[t.on].code # "none"
      BY <1>1, <1>2, <3>1 DEF PausedOf
    <3>3. t.on # e.req
      BY <1>3, <3>1, <3>2 DEF Untouched
    <3>4. QED
      BY <1>7, <3>2, <3>3 DEF Handled
  <2>4. PausedOf(s, t2, req')
    BY <1>2, <2>2, <2>3 DEF PausedOf
  <2>5. e.ep = n /\ driver' = driver /\ epoch' = ep
    BY <1>11 DEF Advanced, n
  <2> HIDE DEF t2
  <2>6. Handles(s, ep) /\ SessionInv(s, turn'[s], Tail(q), epoch'[s], req')
    BY <1>1, <1>10, <2>1, <2>4, <2>5 DEF t2
  <2>7. QED
    BY <1>7, <2>6 DEF e
<1>12. CASE Pauses(s, e, ep, rq)
  <2> DEFINE t2 == [epoch |-> n, on |-> e.req, item |-> t.item, log |-> Append(t.log, e.num)]
  <2>1. /\ turn' = [turn EXCEPT ![s] = t2] /\ e.ep = n /\ driver' = NoSession /\ epoch' = ep
        /\ Changed(rq, req', e.req, "pending", "live", "open") /\ e.req # NoRequest
        /\ t.item \in BOOLEAN
    BY <1>1, <1>3, <1>12 DEF Pauses, t, n, EffectKinds, TurnRecord
  <2>2. t2.on = e.req /\ t2.epoch = n
    OBVIOUS
  <2>3. PausedOf(s, t2, req')
    BY <1>1, <1>3, <2>1, <2>2 DEF PausedOf, Changed
  <2> HIDE DEF t2
  <2>4. Handles(s, ep) /\ SessionInv(s, turn'[s], Tail(q), epoch'[s], req')
    BY <1>5, <1>10, <2>1, <2>3 DEF t2
  <2>5. QED
    BY <1>7, <2>4 DEF e
<1>13. CASE Ends(s, e, ep, rq)
  <2>1. /\ turn' = [turn EXCEPT ![s] = NoTurn] /\ driver' = NoSession
        /\ epoch' = ep \/ epoch' = [ep EXCEPT ![s][n].ended = @ + 1]
    BY <1>13 DEF Ends, n
  <2>2. /\ epoch' \in [Sessions -> [Epochs -> EpochRecord]]
        /\ \A x \in Sessions \ {s} : epoch'[x] = ep[x]
        /\ \A m \in Epochs : /\ epoch'[s][m].emitted = ep[s][m].emitted
                             /\ epoch'[s][m].state = ep[s][m].state
                             /\ \/ epoch'[s][m].ended = ep[s][m].ended
                                \/ m = n /\ epoch'[s][m].ended = ep[s][m].ended + 1
    <3>1. CASE epoch' = ep
      BY <3>1
    <3>2. CASE epoch' = [ep EXCEPT ![s][n].ended = @ + 1]
      <4>1. PICK b \in EpochRecord :
              /\ epoch' = [ep EXCEPT ![s][n] = b]
              /\ b.emitted = ep[s][n].emitted /\ b.state = ep[s][n].state
              /\ b.ended = ep[s][n].ended + 1
        <5>1. \E b \in EpochRecord :
                /\ [ep EXCEPT ![s][n].ended = @ + 1] = [ep EXCEPT ![s][n] = b]
                /\ b.emitted = ep[s][n].emitted /\ b.state = ep[s][n].state
                /\ b.ended = ep[s][n].ended + 1
          BY <1>1, EndedEpoch, ZenonT(90)
        <5>2. QED
          BY <3>2, <5>1, Zenon
      <4>2. /\ [ep EXCEPT ![s][n] = b] \in [Sessions -> [Epochs -> EpochRecord]]
            /\ \A x \in Sessions \ {s} : [ep EXCEPT ![s][n] = b][x] = ep[x]
            /\ [ep EXCEPT ![s][n] = b][s][n] = b
            /\ \A m \in Epochs \ {n} : [ep EXCEPT ![s][n] = b][s][m] = ep[s][m]
        BY <1>1, <4>1, EpochUpdate
      <4>3. QED
        BY <4>1, <4>2, Zenon
    <3>3. QED
      BY <2>1, <3>1, <3>2
  <2>3. /\ turn'[s] = NoTurn /\ turn' \in [Sessions -> TurnRecord]
        /\ \A x \in Sessions \ {s} : turn'[x] = turn[x]
    BY <1>1, <2>1, NoTurnType
  <2>4. Handles(s, ep)
    BY <2>1, <2>2, <2>3 DEF Handles
  <2>5. EndsOf(NoTurn, epoch'[s])
    <3>1. ASSUME NEW m \in Epochs
          PROVE  /\ epoch'[s][m].ended <= 1
                 /\ epoch'[s][m].state = "none" => epoch'[s][m].emitted = 0 /\ epoch'[s][m].ended = 0
      <4>1. /\ ep[s][m].ended <= 1
            /\ ep[s][m].state = "none" => ep[s][m].emitted = 0 /\ ep[s][m].ended = 0
            /\ n = m => ep[s][m].ended = 0 /\ ep[s][m].state # "none"
        BY <1>1, <1>2 DEF EndsOf
      <4>2. QED
        BY <2>2, <4>1
    <3>2. 0 \notin Epochs
      BY DEF Epochs, KernelConstants
    <3>3. QED
      BY <3>1, <3>2, NoTurnType DEF EndsOf
  <2>6. OrderOf(NoTurn, Tail(q), epoch'[s])
    <3>1. OrderOf(NoTurn, Tail(q), ep[s])
      BY <1>1, <1>2, NoTurnType, TakenInOrder
    <3> DEFINE E == epoch'[s]
    <3>2. E \in [Epochs -> EpochRecord] /\ \A m \in Epochs : E[m].emitted = ep[s][m].emitted
      BY <2>2
    <3> HIDE DEF E
    <3>3. NoTurn \in TurnRecord /\ NoTurn.epoch = 0 /\ NoTurn.log = <<>>
      BY NoTurnType
    <3>4. OrderOf(NoTurn, Tail(q), E)
      BY <1>2, <1>3, <3>1, <3>2, <3>3, OrderFrame
    <3>5. QED
      BY <3>4 DEF E
  <2>7. PausedOf(s, NoTurn, req')
    BY NoTurnType DEF PausedOf
  <2>8. QED
    BY <1>3, <1>7, <1>8, <2>2, <2>3, <2>4, <2>5, <2>6, <2>7, NoTurnType DEF SessionInv, e
<1>14. QED
  BY <1>4, <1>9, <1>11, <1>12, <1>13

-----------------------------------------------------------------------------
(* The count of what waits *)

\* The places of the backlogs q.
Slots(q) == UNION {{s} \X DOMAIN q[s] : s \in Sessions}

\* A place is a session and a position in its backlog.
LEMMA SlotsAre ==
  ASSUME NEW q \in [Sessions -> Seq(Event)]
  PROVE  Slots(q) = {w \in Sessions \X Nat : w[2] \in 1..Len(q[w[1]])}
<1>1. \A s \in Sessions : DOMAIN q[s] = 1..Len(q[s])
  BY LenProperties
<1>2. \A s \in Sessions : 1..Len(q[s]) \subseteq Nat
  OBVIOUS
<1>3. QED
  BY <1>1, <1>2 DEF Slots

\* One more event waits.
LEMMA CountMore ==
  ASSUME NEW q \in [Sessions -> Seq(Event)], NEW q2 \in [Sessions -> Seq(Event)], NEW s \in Sessions,
         IsFiniteSet(Slots(q)), Len(q2[s]) = Len(q[s]) + 1, \A x \in Sessions \ {s} : q2[x] = q[x]
  PROVE  IsFiniteSet(Slots(q2)) /\ Cardinality(Slots(q2)) = Cardinality(Slots(q)) + 1
<1>1. Len(q[s]) \in Nat
  BY LenProperties
<1> DEFINE k == Len(q[s]) + 1
<1>2. Slots(q2) = Slots(q) \cup {<<s, k>>} /\ <<s, k>> \notin Slots(q)
  <2>1. \A x \in Sessions, i \in Nat :
          i \in 1..Len(q2[x]) <=> i \in 1..Len(q[x]) \/ (x = s /\ i = k)
    BY <1>1
  <2>2. <<s, k>> \notin Slots(q)
    BY <1>1, SlotsAre
  <2>3. ASSUME NEW w
        PROVE  w \in Slots(q2) <=> w \in Slots(q) \cup {<<s, k>>}
    BY <1>1, <2>1, SlotsAre, SMTT(60)
  <2>4. QED
    BY <2>2, <2>3
<1> HIDE DEF k
<1>3. QED
  BY <1>2, FS_AddElement

\* One event fewer waits.
LEMMA CountLess ==
  ASSUME NEW q \in [Sessions -> Seq(Event)], NEW q2 \in [Sessions -> Seq(Event)], NEW s \in Sessions,
         IsFiniteSet(Slots(q)), q[s] # <<>>, Len(q2[s]) = Len(q[s]) - 1,
         \A x \in Sessions \ {s} : q2[x] = q[x]
  PROVE  IsFiniteSet(Slots(q2)) /\ Cardinality(Slots(q2)) = Cardinality(Slots(q)) - 1
<1>1. Len(q[s]) \in Nat \ {0}
  BY EmptySeq
<1> DEFINE k == Len(q[s])
<1>2. Slots(q2) = Slots(q) \ {<<s, k>>} /\ <<s, k>> \in Slots(q)
  <2>1. \A x \in Sessions, i \in Nat :
          i \in 1..Len(q2[x]) <=> i \in 1..Len(q[x]) /\ ~(x = s /\ i = k)
    BY <1>1
  <2>2. <<s, k>> \in Slots(q)
    <3>1. k \in Nat /\ k \in 1..Len(q[s])
      BY <1>1
    <3>2. QED
      BY <3>1, SlotsAre
  <2>3. ASSUME NEW w
        PROVE  w \in Slots(q2) <=> w \in Slots(q) \ {<<s, k>>}
    BY <1>1, <2>1, SlotsAre, SMTT(60)
  <2>4. QED
    BY <2>2, <2>3
<1> HIDE DEF k
<1>3. QED
  BY <1>2, FS_RemoveElement

\* A backlog is thrown away.
LEMMA CountCleared ==
  ASSUME NEW q \in [Sessions -> Seq(Event)], NEW q2 \in [Sessions -> Seq(Event)], NEW s \in Sessions,
         IsFiniteSet(Slots(q)), q2[s] = <<>>, \A x \in Sessions \ {s} : q2[x] = q[x]
  PROVE  /\ IsFiniteSet(Slots(q2))
         /\ Cardinality(Slots(q2)) \in Nat
         /\ Cardinality(Slots(q)) = Cardinality(Slots(q2)) + Len(q[s])
<1> DEFINE n == Len(q[s])
<1> DEFINE gone == {s} \X (1..n)
<1>1. n \in Nat /\ Len(q2[s]) = 0
  BY LenProperties
<1> HIDE DEF n
<1>2. IsFiniteSet(gone) /\ Cardinality(gone) = n
  <2> DEFINE f == [i \in 1..n |-> <<s, i>>]
  <2>1. f \in Bijection(1..n, gone)
    <3>1. f \in [1..n -> gone]
      OBVIOUS
    <3>2. \A i, j \in 1..n : f[i] = f[j] => i = j
      OBVIOUS
    <3>3. \A w \in gone : \E i \in 1..n : f[i] = w
      OBVIOUS
    <3>4. QED
      BY <3>1, <3>2, <3>3 DEF Bijection, Injection, Surjection, IsInjective
  <2>2. ExistsBijection(1..n, gone)
    BY <2>1 DEF ExistsBijection
  <2>3. QED
    BY <1>1, <2>2, FS_NatBijection, FS_CountingElements
<1>3. /\ Slots(q) = Slots(q2) \cup gone /\ Slots(q2) \cap gone = {} /\ Slots(q2) \subseteq Slots(q)
  <2>1. \A x \in Sessions, i \in Nat :
          /\ i \in 1..Len(q[x]) <=> i \in 1..Len(q2[x]) \/ (x = s /\ i \in 1..n)
          /\ ~(i \in 1..Len(q2[x]) /\ x = s)
    BY <1>1 DEF n
  <2>2. ASSUME NEW w
        PROVE  /\ w \in Slots(q) <=> w \in Slots(q2) \cup gone
               /\ ~(w \in Slots(q2) /\ w \in gone)
    <3>1. w \in Slots(q) <=> w \in Sessions \X Nat /\ w[2] \in 1..Len(q[w[1]])
      BY SlotsAre
    <3>2. w \in Slots(q2) <=> w \in Sessions \X Nat /\ w[2] \in 1..Len(q2[w[1]])
      BY SlotsAre
    <3>3. w \in gone <=> w \in Sessions \X Nat /\ w[1] = s /\ w[2] \in 1..n
      BY <1>1
    <3> HIDE DEF gone
    <3>4. CASE w \in Sessions \X Nat
      <4>1. w[1] \in Sessions /\ w[2] \in Nat
        BY <3>4
      <4>2. /\ w[2] \in 1..Len(q[w[1]]) <=> w[2] \in 1..Len(q2[w[1]]) \/ (w[1] = s /\ w[2] \in 1..n)
            /\ ~(w[2] \in 1..Len(q2[w[1]]) /\ w[1] = s)
        BY <2>1, <4>1, Zenon
      <4>3. QED
        BY <3>1, <3>2, <3>3, <3>4, <4>2, Zenon
    <3>5. CASE w \notin Sessions \X Nat
      BY <3>1, <3>2, <3>3, <3>5, Zenon
    <3>6. QED
      BY <3>4, <3>5
  <2>3. QED
    BY <2>2
<1> HIDE DEF gone
<1>4. IsFiniteSet(Slots(q2))
  BY <1>3, FS_Subset
<1>5. /\ Cardinality(Slots(q2) \cup gone) = Cardinality(Slots(q2)) + Cardinality(gone) - Cardinality(Slots(q2) \cap gone)
      /\ Cardinality(Slots(q2)) \in Nat
  BY <1>2, <1>4, FS_Union, FS_CardinalityType
<1>6. Cardinality(Slots(q2) \cap gone) = 0
  BY <1>3, FS_EmptySet
<1>7. QED
  BY <1>1, <1>2, <1>3, <1>4, <1>5, <1>6 DEF n

-----------------------------------------------------------------------------
(* One session *)

\* The turn t became t2, itself or the empty turn, and its epochs went on: none
\* began, and none ended but the one of a turn that did.
EpochsFrom(t, t2, eps, eps2) ==
  /\ eps2 \in [Epochs -> EpochRecord]
  /\ t2 = t \/ t2 = NoTurn
  /\ \A m \in Epochs :
       /\ eps2[m].emitted = eps[m].emitted
       /\ eps2[m].state = "none" <=> eps[m].state = "none"
       /\ \/ eps2[m].ended = eps[m].ended
          \/ t2 = NoTurn /\ m = t.epoch /\ eps2[m].ended = eps[m].ended + 1

\* Such a step keeps what is known of ends and order.
LEMMA EpochsKeep ==
  ASSUME KernelConstants, NEW t \in TurnRecord, NEW t2, NEW q \in Seq(Event),
         NEW eps \in [Epochs -> EpochRecord], NEW eps2,
         EndsOf(t, eps), OrderOf(t, q, eps), EpochsFrom(t, t2, eps, eps2)
  PROVE  t2 \in TurnRecord /\ EndsOf(t2, eps2) /\ OrderOf(t2, q, eps2)
<1>1. /\ t2 \in TurnRecord
      /\ \/ t2.epoch = t.epoch /\ t2.log = t.log
         \/ t2 = NoTurn /\ t2.epoch = 0 /\ t2.log = <<>>
  BY NoTurnType DEF EpochsFrom
<1>2. OrderOf(t2, q, eps2)
  BY <1>1, OrderFrame DEF EpochsFrom
<1>3. ASSUME NEW m \in Epochs
      PROVE  /\ eps2[m].ended <= 1
             /\ eps2[m].state = "none" => eps2[m].emitted = 0 /\ eps2[m].ended = 0
             /\ t2.epoch = m => eps2[m].ended = 0 /\ eps2[m].state # "none"
  <2>1. /\ eps[m].ended <= 1
        /\ eps[m].state = "none" => eps[m].emitted = 0 /\ eps[m].ended = 0
        /\ t.epoch = m => eps[m].ended = 0 /\ eps[m].state # "none"
    BY DEF EndsOf
  <2>2. /\ eps2[m].emitted = eps[m].emitted
        /\ eps2[m].state = "none" <=> eps[m].state = "none"
        /\ \/ eps2[m].ended = eps[m].ended
           \/ t2 = NoTurn /\ m = t.epoch /\ eps2[m].ended = eps[m].ended + 1
    BY DEF EpochsFrom
  <2>3. m # 0
    BY DEF Epochs, KernelConstants
  <2>4. NoTurn.epoch = 0
    BY NoTurnType
  <2>5. QED
    BY <1>1, <2>1, <2>2, <2>3, <2>4
<1>4. QED
  BY <1>1, <1>2, <1>3 DEF EndsOf

\* A session that goes on, or whose turn ends, while requests of others change.
LEMMA SessionFrame ==
  ASSUME KernelConstants, NEW s \in Sessions, NEW t, NEW t2, NEW q, NEW eps, NEW eps2, NEW rq, NEW rq2,
         SessionInv(s, t, q, eps, rq), EpochsFrom(t, t2, eps, eps2),
         \A r \in Requests : rq[r].owner = s => rq2[r] = rq[r]
  PROVE  SessionInv(s, t2, q, eps2, rq2)
<1>1. /\ t \in TurnRecord /\ q \in Seq(Event) /\ eps \in [Epochs -> EpochRecord]
      /\ EndsOf(t, eps) /\ OrderOf(t, q, eps) /\ QueueOf(s, q, rq) /\ PausedOf(s, t, rq)
  BY DEF SessionInv
<1>2. t2 \in TurnRecord /\ EndsOf(t2, eps2) /\ OrderOf(t2, q, eps2)
  BY <1>1, EpochsKeep
<1>3. QueueOf(s, q, rq2) /\ PausedOf(s, t, rq2)
  BY <1>1, RequestFrame
<1>4. PausedOf(s, t2, rq2)
  BY <1>3, NoTurnType DEF PausedOf, EpochsFrom
<1>5. eps2 \in [Epochs -> EpochRecord]
  BY DEF EpochsFrom
<1>6. QED
  BY <1>1, <1>2, <1>3, <1>4, <1>5 DEF SessionInv

\* A session without a turn whose backlog is empty or thrown away.
LEMMA SessionCleared ==
  ASSUME KernelConstants, NEW s \in Sessions, NEW t, NEW t2, NEW q, NEW eps, NEW eps2, NEW rq, NEW rq2,
         SessionInv(s, t, q, eps, rq), EpochsFrom(t, t2, eps, eps2),
         t2 = NoTurn \/ t.epoch = 0
  PROVE  SessionInv(s, t2, <<>>, eps2, rq2)
<1>1. /\ t \in TurnRecord /\ q \in Seq(Event) /\ eps \in [Epochs -> EpochRecord]
      /\ EndsOf(t, eps) /\ OrderOf(t, q, eps) /\ PausedOf(s, t, rq)
  BY DEF SessionInv
<1>2. t2 \in TurnRecord /\ EndsOf(t2, eps2) /\ OrderOf(t2, q, eps2)
  BY <1>1, EpochsKeep
<1>3. t2.epoch = 0 /\ t2.on = NoRequest
  BY <1>1, NoTurnType DEF PausedOf, EpochsFrom
<1>4. <<>> \in Seq(Event) /\ Len(<<>>) = 0
  OBVIOUS
<1>5. OrderOf(t2, <<>>, eps2)
  BY <1>2, <1>3, <1>4 DEF OrderOf
<1>6. QueueOf(s, <<>>, rq2) /\ PausedOf(s, t2, rq2)
  BY <1>3, <1>4 DEF QueueOf, PausedOf
<1>7. eps2 \in [Epochs -> EpochRecord]
  BY DEF EpochsFrom
<1>8. QED
  BY <1>2, <1>4, <1>5, <1>6, <1>7 DEF SessionInv

\* The record of an epoch that sends an event, or whose state changes.
LEMMA EpochRecords ==
  ASSUME NEW a \in EpochRecord, NEW st \in States
  PROVE  /\ [a EXCEPT !.emitted = a.emitted + 1, !.state = st] =
              [state |-> st, emitted |-> a.emitted + 1, ended |-> a.ended]
         /\ [a EXCEPT !.state = st] = [state |-> st, emitted |-> a.emitted, ended |-> a.ended]
         /\ [state |-> st, emitted |-> a.emitted + 1, ended |-> a.ended] \in EpochRecord
         /\ [state |-> st, emitted |-> a.emitted, ended |-> a.ended] \in EpochRecord
<1>1. a.ended \in Nat /\ a.emitted \in Nat /\ a.emitted + 1 \in Nat
  BY DEF EpochRecord
<1>2. [a EXCEPT !.emitted = a.emitted + 1, !.state = st] =
        [state |-> st, emitted |-> a.emitted + 1, ended |-> a.ended]
  <2> DEFINE c == [a EXCEPT !.emitted = a.emitted + 1]
  <2>1. c = [state |-> a.state, emitted |-> a.emitted + 1, ended |-> a.ended]
    BY DEF EpochRecord
  <2>2. [a EXCEPT !.emitted = a.emitted + 1, !.state = st] = [c EXCEPT !.state = st]
    OBVIOUS
  <2> HIDE DEF c
  <2>3. [c EXCEPT !.state = st] = [state |-> st, emitted |-> a.emitted + 1, ended |-> a.ended]
    BY <2>1
  <2>4. QED
    BY <2>2, <2>3
<1>3. [a EXCEPT !.state = st] = [state |-> st, emitted |-> a.emitted, ended |-> a.ended]
  BY DEF EpochRecord
<1>4. /\ [state |-> st, emitted |-> a.emitted + 1, ended |-> a.ended] \in EpochRecord
      /\ [state |-> st, emitted |-> a.emitted, ended |-> a.ended] \in EpochRecord
  BY <1>1 DEF EpochRecord
<1>5. QED
  BY <1>2, <1>3, <1>4

\* What an event changes in the epochs.
LEMMA EmittedIs ==
  ASSUME Types, NEW s \in Sessions, NEW n \in Epochs, NEW kind,
         epoch[s][n].state \in {"running", "interrupted"}
  PROVE  LET ep == Emitted(s, n, kind) IN
         /\ ep \in [Sessions -> [Epochs -> EpochRecord]]
         /\ \A x \in Sessions \ {s} : ep[x] = epoch[x]
         /\ \A m \in Epochs :
              /\ ep[s][m].emitted = IF m = n THEN epoch[s][m].emitted + 1 ELSE epoch[s][m].emitted
              /\ ep[s][m].state = "none" <=> epoch[s][m].state = "none"
              /\ ep[s][m].ended = epoch[s][m].ended
         /\ ep[s][n].state # "none"
<1> DEFINE a == epoch[s][n]
<1> DEFINE st == IF kind \in {"done", "failed"} THEN "stopped" ELSE a.state
<1> DEFINE b == [state |-> st, emitted |-> a.emitted + 1, ended |-> a.ended]
<1>1. epoch \in [Sessions -> [Epochs -> EpochRecord]] /\ a \in EpochRecord
  BY DEF Types
<1>2. st \in States /\ st # "none"
  BY DEF States
<1>3. /\ [a EXCEPT !.emitted = a.emitted + 1, !.state = st] = b /\ b \in EpochRecord
  BY <1>1, <1>2, EpochRecords
<1>4. Emitted(s, n, kind) = [epoch EXCEPT ![s][n] = b]
  <2>1. Emitted(s, n, kind) = [epoch EXCEPT ![s][n] = [a EXCEPT !.emitted = a.emitted + 1, !.state = st]]
    BY <1>1 DEF Emitted
  <2>2. QED
    BY <1>3, <2>1
<1>5. b.emitted = a.emitted + 1 /\ b.state = st /\ b.ended = a.ended
  OBVIOUS
<1> HIDE DEF b
<1>6. /\ [epoch EXCEPT ![s][n] = b] \in [Sessions -> [Epochs -> EpochRecord]]
      /\ \A x \in Sessions \ {s} : [epoch EXCEPT ![s][n] = b][x] = epoch[x]
      /\ [epoch EXCEPT ![s][n] = b][s][n] = b
      /\ \A m \in Epochs \ {n} : [epoch EXCEPT ![s][n] = b][s][m] = epoch[s][m]
  BY <1>1, <1>3, EpochUpdate
<1> DEFINE ep == Emitted(s, n, kind)
<1>7. /\ ep \in [Sessions -> [Epochs -> EpochRecord]]
      /\ \A x \in Sessions \ {s} : ep[x] = epoch[x]
      /\ ep[s][n] = b /\ \A m \in Epochs \ {n} : ep[s][m] = epoch[s][m]
  BY <1>4, <1>6
<1> HIDE DEF ep
<1>8. ASSUME NEW m \in Epochs
      PROVE  /\ ep[s][m].emitted = IF m = n THEN epoch[s][m].emitted + 1 ELSE epoch[s][m].emitted
             /\ ep[s][m].state = "none" <=> epoch[s][m].state = "none"
             /\ ep[s][m].ended = epoch[s][m].ended
  <2>1. CASE m = n
    BY <1>2, <1>5, <1>7, <2>1
  <2>2. CASE m # n
    BY <1>7, <2>2
  <2>3. QED
    BY <2>1, <2>2
<1>9. QED
  BY <1>2, <1>5, <1>7, <1>8 DEF ep

\* What an event changes in the requests.
LEMMA RequestedIs ==
  ASSUME KernelConstants, Types, NEW s \in Sessions, NEW n \in Epochs, NEW r \in Requests \cup {NoRequest}
  PROVE  LET rq == Requested(r, s, n) IN
         /\ rq \in [Requests -> RequestRecord]
         /\ \A x \in Requests : x # r => rq[x] = req[x]
         /\ r # NoRequest =>
              /\ rq[r].owner = s /\ rq[r].epoch = n
              /\ rq[r].grant = req[r].grant /\ rq[r].code = req[r].code
              /\ rq[r].decision = req[r].decision
<1>1. req \in [Requests -> RequestRecord]
  BY DEF Types
<1>2. CASE r = NoRequest
  BY <1>1, <1>2 DEF Requested, KernelConstants
<1>3. CASE r # NoRequest
  <2> DEFINE a == req[r]
  <2> DEFINE b == [a EXCEPT !.owner = s, !.epoch = n]
  <2>1. r \in Requests /\ a \in RequestRecord
    BY <1>1, <1>3
  <2>2. n \in 0..MaxEpochs
    BY DEF Epochs, KernelConstants
  <2>3. b = [owner |-> s, epoch |-> n, grant |-> a.grant, code |-> a.code, decision |-> a.decision]
    <3> DEFINE c == [a EXCEPT !.owner = s]
    <3> HIDE DEF a
    <3>1. c = [owner |-> s, epoch |-> a.epoch, grant |-> a.grant, code |-> a.code, decision |-> a.decision]
      BY <2>1 DEF RequestRecord
    <3>2. b = [c EXCEPT !.epoch = n]
      OBVIOUS
    <3> HIDE DEF c, b
    <3>3. [c EXCEPT !.epoch = n] =
            [owner |-> s, epoch |-> n, grant |-> a.grant, code |-> a.code, decision |-> a.decision]
      BY <3>1
    <3>4. QED
      BY <3>2, <3>3
  <2>4. b \in RequestRecord
    <3> HIDE DEF a, b
    <3>1. QED
      BY <2>1, <2>2, <2>3 DEF RequestRecord
  <2>5. Requested(r, s, n) = [req EXCEPT ![r] = b]
    BY <1>1, <1>3, <2>1 DEF Requested
  <2> HIDE DEF b
  <2>6. QED
    BY <1>1, <2>1, <2>3, <2>4, <2>5
<1>4. QED
  BY <1>2, <1>3

\* An event under way: it waits for its session, nothing else has changed.
LEMMA SentKeeps ==
  ASSUME KernelConstants, KernelInv, NEW s \in Sessions, NEW n \in Epochs, NEW kind \in Kinds,
         NEW r \in Requests \cup {NoRequest}, NEW e, NEW ep, NEW rq,
         epoch[s][n].state \in {"running", "interrupted"},
         kind \in EffectKinds <=> r # NoRequest,
         r # NoRequest => req[r].owner = NoSession,
         e = [ep |-> n, num |-> epoch[s][n].emitted + 1, kind |-> kind, req |-> r],
         ep = Emitted(s, n, kind), rq = Requested(r, s, n)
  PROVE  /\ e \in Event
         /\ ep \in [Sessions -> [Epochs -> EpochRecord]] /\ rq \in [Requests -> RequestRecord]
         /\ \A x \in Sessions \ {s} : ep[x] = epoch[x] /\ SessionInv(x, turn[x], routed[x], ep[x], rq)
         /\ SessionInv(s, turn[s], Append(routed[s], e), ep[s], rq)
         /\ AskedOf(rq)
         /\ \A x \in Requests : x # r => rq[x] = req[x]
         /\ r # NoRequest => /\ rq[r].grant = req[r].grant /\ rq[r].decision = req[r].decision
                             /\ rq[r].owner = s /\ rq[r].epoch = n
<1>1. Types /\ AskedOf(req) /\ \A x \in Sessions : SessionInv(x, turn[x], routed[x], epoch[x], req)
  BY DEF KernelInv
<1>2. /\ ep \in [Sessions -> [Epochs -> EpochRecord]]
      /\ \A x \in Sessions \ {s} : ep[x] = epoch[x]
      /\ \A m \in Epochs :
           /\ ep[s][m].emitted = IF m = n THEN epoch[s][m].emitted + 1 ELSE epoch[s][m].emitted
           /\ ep[s][m].state = "none" <=> epoch[s][m].state = "none"
           /\ ep[s][m].ended = epoch[s][m].ended
      /\ ep[s][n].state # "none"
  BY <1>1, EmittedIs
<1>3. /\ rq \in [Requests -> RequestRecord]
      /\ \A x \in Requests : x # r => rq[x] = req[x]
      /\ r # NoRequest =>
           /\ rq[r].owner = s /\ rq[r].epoch = n
           /\ rq[r].grant = req[r].grant /\ rq[r].code = req[r].code
           /\ rq[r].decision = req[r].decision
  BY <1>1, RequestedIs
<1>4. epoch[s][n].emitted \in Nat /\ epoch[s] \in [Epochs -> EpochRecord]
  BY <1>1 DEF Types, EpochRecord
<1>5. e \in Event /\ e.ep = n /\ e.num = epoch[s][n].emitted + 1 /\ e.kind = kind /\ e.req = r
  BY <1>4 DEF Event
<1>6. NoSession \notin Sessions /\ s # NoSession /\ NoRequest \notin Requests
  BY DEF KernelConstants
<1>7. r # NoRequest => Untouched(req[r]) /\ Untouched(rq[r])
  BY <1>1, <1>3 DEF AskedOf, Untouched
<1>8. AskedOf(rq)
  BY <1>1, <1>3, <1>6 DEF AskedOf
<1>9. ASSUME NEW x \in Sessions, x # s
      PROVE  SessionInv(x, turn[x], routed[x], ep[x], rq)
  <2>1. \A y \in Requests : req[y].owner = x => rq[y] = req[y]
    BY <1>3, <1>6
  <2>2. ep[x] = epoch[x] /\ epoch[x] \in [Epochs -> EpochRecord]
    BY <1>1, <1>2, <1>9 DEF Types
  <2>3. EpochsFrom(turn[x], turn[x], epoch[x], ep[x])
    BY <2>2 DEF EpochsFrom
  <2>4. QED
    BY <1>1, <2>1, <2>3, SessionFrame
<1>10. SessionInv(s, turn[s], Append(routed[s], e), ep[s], rq)
  <2> DEFINE t == turn[s]
  <2> DEFINE q == routed[s]
  <2>1. /\ t \in TurnRecord /\ q \in Seq(Event)
        /\ EndsOf(t, epoch[s]) /\ OrderOf(t, q, epoch[s]) /\ QueueOf(s, q, req) /\ PausedOf(s, t, req)
    BY <1>1 DEF SessionInv
  <2>2. ep[s] \in [Epochs -> EpochRecord]
    BY <1>2
  <2> HIDE DEF t, q
  <2>3. Append(q, e) \in Seq(Event)
    BY <1>5, <2>1, AppendProperties
  <2>4. OrderOf(t, Append(q, e), ep[s])
    <3> DEFINE E == epoch[s]
    <3> DEFINE E2 == ep[s]
    <3>1. /\ E \in [Epochs -> EpochRecord] /\ E2 \in [Epochs -> EpochRecord] /\ OrderOf(t, q, E)
          /\ e.num = E[n].emitted + 1
          /\ \A m \in Epochs : E2[m].emitted = IF m = n THEN E[m].emitted + 1 ELSE E[m].emitted
      BY <1>2, <1>4, <1>5, <2>1, <2>2
    <3> HIDE DEF E, E2
    <3>2. OrderOf(t, Append(q, e), E2)
      BY <1>5, <2>1, <3>1, SentInOrder
    <3>3. QED
      BY <3>2 DEF E2
  <2>5. QueueOf(s, Append(q, e), rq)
    <3>1. e.kind \in EffectKinds <=> e.req # NoRequest
      BY <1>5
    <3>2. e.req # NoRequest =>
            /\ req[e.req].owner = NoSession
            /\ rq[e.req].owner = s /\ rq[e.req].epoch = e.ep /\ Untouched(rq[e.req])
      BY <1>3, <1>5, <1>7
    <3>3. \A y \in Requests : y # e.req => rq[y] = req[y]
      BY <1>3, <1>5
    <3>4. QED
      BY <1>5, <2>1, <3>1, <3>2, <3>3, SentRequest
  <2>6. PausedOf(s, t, rq)
    BY <1>3, <1>6, <2>1 DEF PausedOf, TurnRecord
  <2>7. EndsOf(t, ep[s])
    <3>1. ASSUME NEW m \in Epochs
          PROVE  /\ ep[s][m].ended <= 1
                 /\ ep[s][m].state = "none" => ep[s][m].emitted = 0 /\ ep[s][m].ended = 0
                 /\ t.epoch = m => ep[s][m].ended = 0 /\ ep[s][m].state # "none"
      BY <1>2, <2>1 DEF EndsOf
    <3>2. QED
      BY <3>1 DEF EndsOf
  <2>8. QED
    BY <2>1, <2>2, <2>3, <2>4, <2>5, <2>6, <2>7 DEF SessionInv, t, q
<1>11. QED
  BY <1>2, <1>3, <1>5, <1>8, <1>9, <1>10

-----------------------------------------------------------------------------
(* The steps *)

\* The parts of the state only one session is concerned by.
Sane == conf' \in [Sessions -> ConfRecord]

\* A step that changes no backlog and no request, and begins no turn.
LEMMA QuietStep ==
  ASSUME KernelConstants, KernelInv, Sane,
         UNCHANGED <<routed, routedCount, req>>, failures' \subseteq failures,
         DOMAIN turn' = Sessions, turn' = [x \in Sessions |-> turn'[x]],
         epoch' = [x \in Sessions |-> epoch'[x]],
         \A x \in Sessions : EpochsFrom(turn[x], turn'[x], epoch[x], epoch'[x]),
         driver' = NoSession \/ (driver' = driver /\ (driver # NoSession => turn'[driver] = turn[driver]))
  PROVE  KernelInv'
<1>1. /\ Types /\ CountInv /\ DriverInv /\ AskedOf(req)
      /\ \A x \in Sessions : SessionInv(x, turn[x], routed[x], epoch[x], req)
  BY DEF KernelInv
<1>2. \A x \in Sessions : SessionInv(x, turn'[x], routed[x], epoch'[x], req)
  <2>1. ASSUME NEW x \in Sessions
        PROVE  SessionInv(x, turn'[x], routed[x], epoch'[x], req)
    <3> DEFINE t2 == turn'[x]
    <3> DEFINE eps2 == epoch'[x]
    <3>1. EpochsFrom(turn[x], t2, epoch[x], eps2)
      OBVIOUS
    <3> HIDE DEF t2, eps2
    <3>2. SessionInv(x, t2, routed[x], eps2, req)
      BY <1>1, <3>1, SessionFrame
    <3>3. QED
      BY <3>2 DEF t2, eps2
  <2>2. QED
    BY <2>1
<1>3. \A x \in Sessions : turn'[x] \in TurnRecord /\ epoch'[x] \in [Epochs -> EpochRecord]
  BY <1>2 DEF SessionInv
<1>4. turn' \in [Sessions -> TurnRecord] /\ epoch' \in [Sessions -> [Epochs -> EpochRecord]]
  BY <1>3
<1>5. Types'
  BY <1>1, <1>4 DEF Types, Sane
<1>6. CountInv'
  BY <1>1 DEF CountInv, Waiting
<1>7. DriverInv'
  <2>1. driver' # NoSession => ~Idle(driver)'
    BY <1>1 DEF DriverInv, Idle
  <2>2. ASSUME NEW x \in failures'
        PROVE  routed'[x] = <<>> /\ Idle(x)'
    <3>1. x \in Sessions /\ routed[x] = <<>> /\ turn[x].epoch = 0
      BY <1>1 DEF DriverInv, Types, Idle
    <3>2. turn'[x] = turn[x] \/ turn'[x] = NoTurn
      BY <3>1 DEF EpochsFrom
    <3>3. QED
      BY <3>1, <3>2, NoTurnType DEF Idle
  <2>3. QED
    BY <2>1, <2>2 DEF DriverInv
<1>8. QED
  BY <1>1, <1>2, <1>5, <1>6, <1>7 DEF KernelInv, AskedOf

\* Nothing happens to the epochs of a session.
LEMMA SameEpochs ==
  ASSUME NEW t, NEW eps \in [Epochs -> EpochRecord]
  PROVE  EpochsFrom(t, t, eps, eps)
  BY DEF EpochsFrom

\* A step of the configuration alone.
LEMMA SettingsStep ==
  ASSUME KernelConstants, KernelInv, Sane, UNCHANGED <<turn, driver, routeVars, epoch, req>>
  PROVE  KernelInv'
<1>1. Types
  BY DEF KernelInv
<1>2. /\ UNCHANGED <<routed, routedCount, req>> /\ failures' \subseteq failures
      /\ DOMAIN turn' = Sessions /\ turn' = [x \in Sessions |-> turn'[x]]
      /\ epoch' = [x \in Sessions |-> epoch'[x]]
      /\ driver' = NoSession \/ (driver' = driver /\ (driver # NoSession => turn'[driver] = turn[driver]))
  BY <1>1 DEF Types, routeVars
<1>3. \A x \in Sessions : EpochsFrom(turn[x], turn'[x], epoch[x], epoch'[x])
  BY <1>1, SameEpochs DEF Types
<1>4. QED
  BY <1>2, <1>3, QuietStep

\* The epoch n of s changes its state, and nothing begins.
LEMMA StateChanged ==
  ASSUME Types, NEW ep0 \in [Sessions -> [Epochs -> EpochRecord]],
         NEW s \in Sessions, NEW n \in Epochs, NEW st \in States \ {"none"},
         ep0[s][n].state # "none", NEW ep2, ep2 = [ep0 EXCEPT ![s][n].state = st]
  PROVE  /\ ep2 \in [Sessions -> [Epochs -> EpochRecord]]
         /\ \A x \in Sessions : EpochsFrom(turn[x], turn[x], ep0[x], ep2[x])
<1> DEFINE a == ep0[s][n]
<1> DEFINE b == [state |-> st, emitted |-> a.emitted, ended |-> a.ended]
<1>1. ep0 \in [Sessions -> [Epochs -> EpochRecord]] /\ a \in EpochRecord
  OBVIOUS
<1>2. [a EXCEPT !.state = st] = b /\ b \in EpochRecord
  <2>1. st \in States
    OBVIOUS
  <2>2. QED
    BY <1>1, <2>1, EpochRecords, Zenon
<1>3. ep2 = [ep0 EXCEPT ![s][n] = b]
  BY <1>1, <1>2
<1>4. b.emitted = a.emitted /\ b.state = st /\ b.ended = a.ended
  OBVIOUS
<1> HIDE DEF b
<1>5. /\ [ep0 EXCEPT ![s][n] = b] \in [Sessions -> [Epochs -> EpochRecord]]
      /\ \A x \in Sessions \ {s} : [ep0 EXCEPT ![s][n] = b][x] = ep0[x]
      /\ [ep0 EXCEPT ![s][n] = b][s][n] = b
      /\ \A m \in Epochs \ {n} : [ep0 EXCEPT ![s][n] = b][s][m] = ep0[s][m]
  BY <1>1, <1>2, EpochUpdate
<1>6. /\ ep2 \in [Sessions -> [Epochs -> EpochRecord]]
      /\ \A x \in Sessions \ {s} : ep2[x] = ep0[x]
      /\ ep2[s][n] = b /\ \A m \in Epochs \ {n} : ep2[s][m] = ep0[s][m]
  BY <1>3, <1>5
<1>7. ASSUME NEW x \in Sessions
      PROVE  EpochsFrom(turn[x], turn[x], ep0[x], ep2[x])
  <2>1. CASE x # s
    BY <1>6, <2>1, SameEpochs
  <2>2. CASE x = s
    <3>1. ASSUME NEW m \in Epochs
          PROVE  /\ ep2[s][m].emitted = ep0[s][m].emitted
                 /\ ep2[s][m].state = "none" <=> ep0[s][m].state = "none"
                 /\ ep2[s][m].ended = ep0[s][m].ended
      <4>1. CASE m = n
        BY <1>4, <1>6, <4>1
      <4>2. CASE m # n
        BY <1>6, <4>2
      <4>3. QED
        BY <4>1, <4>2
    <3>2. ep2[s] \in [Epochs -> EpochRecord]
      BY <1>6
    <3>3. QED
      BY <2>2, <3>1, <3>2 DEF EpochsFrom
  <2>3. QED
    BY <2>1, <2>2
<1>8. QED
  BY <1>6, <1>7

\* From epochs ep0 to ep2 and in turn2 the turn of s ends, recorded or not, once
\* the epochs are ep.
Ending(s, ep0, ep, ep2, turn2) ==
  /\ ep0 \in [Sessions -> [Epochs -> EpochRecord]] /\ ep \in [Sessions -> [Epochs -> EpochRecord]]
  /\ \A x \in Sessions : EpochsFrom(turn[x], turn[x], ep0[x], ep[x])
  /\ ep2 = ep \/ ep2 = [ep EXCEPT ![s][turn[s].epoch].ended = @ + 1]
  /\ turn2 = [turn EXCEPT ![s] = NoTurn]

\* What the end of a turn leaves.
LEMMA TurnEnded ==
  ASSUME KernelConstants, Types, NEW s \in Sessions, ~Idle(s), NEW ep0, NEW ep, NEW ep2, NEW turn2,
         Ending(s, ep0, ep, ep2, turn2)
  PROVE  /\ ep2 \in [Sessions -> [Epochs -> EpochRecord]] /\ turn2 \in [Sessions -> TurnRecord]
         /\ turn2[s] = NoTurn /\ \A x \in Sessions \ {s} : turn2[x] = turn[x]
         /\ \A x \in Sessions : EpochsFrom(turn[x], turn2[x], ep0[x], ep2[x])
<1> USE DEF Ending
<1> DEFINE n == turn[s].epoch
<1>1. turn \in [Sessions -> TurnRecord] /\ n \in Epochs
  BY DEF Types, TurnRecord, Idle, Epochs, KernelConstants
<1>2. /\ turn2 \in [Sessions -> TurnRecord] /\ turn2[s] = NoTurn
      /\ \A x \in Sessions \ {s} : turn2[x] = turn[x]
  BY <1>1, NoTurnType
<1>3. /\ ep2 \in [Sessions -> [Epochs -> EpochRecord]]
      /\ \A x \in Sessions \ {s} : ep2[x] = ep[x]
      /\ \A m \in Epochs : /\ ep2[s][m].emitted = ep[s][m].emitted
                           /\ ep2[s][m].state = ep[s][m].state
                           /\ \/ ep2[s][m].ended = ep[s][m].ended
                              \/ m = n /\ ep2[s][m].ended = ep[s][m].ended + 1
  <2>1. CASE ep2 = ep
    BY <2>1
  <2>2. CASE ep2 = [ep EXCEPT ![s][turn[s].epoch].ended = @ + 1]
    <3> HIDE DEF n
    <3>1. PICK b \in EpochRecord :
            /\ ep2 = [ep EXCEPT ![s][n] = b]
            /\ b.emitted = ep[s][n].emitted /\ b.state = ep[s][n].state
            /\ b.ended = ep[s][n].ended + 1
      <4>1. ep2 = [ep EXCEPT ![s][n].ended = @ + 1]
        BY <2>2 DEF n
      <4>2. \E b \in EpochRecord :
              /\ [ep EXCEPT ![s][n].ended = @ + 1] = [ep EXCEPT ![s][n] = b]
              /\ b.emitted = ep[s][n].emitted /\ b.state = ep[s][n].state
              /\ b.ended = ep[s][n].ended + 1
        <5>1. ep \in [Sessions -> [Epochs -> EpochRecord]]
          OBVIOUS
        <5> HIDE DEF Ending
        <5>2. QED
          BY <1>1, <5>1, EndedEpoch, Zenon
      <4>3. QED
        BY <4>1, <4>2, Zenon
    <3>2. /\ [ep EXCEPT ![s][n] = b] \in [Sessions -> [Epochs -> EpochRecord]]
          /\ \A x \in Sessions \ {s} : [ep EXCEPT ![s][n] = b][x] = ep[x]
          /\ [ep EXCEPT ![s][n] = b][s][n] = b
          /\ \A m \in Epochs \ {n} : [ep EXCEPT ![s][n] = b][s][m] = ep[s][m]
      BY <1>1, <3>1, EpochUpdate
    <3>3. QED
      BY <3>1, <3>2, Zenon
  <2>3. QED
    BY <2>1, <2>2
<1>4. ASSUME NEW x \in Sessions, x # s
      PROVE  EpochsFrom(turn[x], turn2[x], ep0[x], ep2[x])
  BY <1>2, <1>3, <1>4
<1>5. EpochsFrom(turn[s], NoTurn, ep0[s], ep2[s])
  <2>1. EpochsFrom(turn[s], turn[s], ep0[s], ep[s])
    OBVIOUS
  <2>2. ASSUME NEW m \in Epochs
        PROVE  /\ ep2[s][m].emitted = ep0[s][m].emitted
               /\ ep2[s][m].state = "none" <=> ep0[s][m].state = "none"
               /\ \/ ep2[s][m].ended = ep0[s][m].ended
                  \/ m = turn[s].epoch /\ ep2[s][m].ended = ep0[s][m].ended + 1
    <3>1. /\ ep[s][m].emitted = ep0[s][m].emitted
          /\ ep[s][m].state = "none" <=> ep0[s][m].state = "none"
          /\ \/ ep[s][m].ended = ep0[s][m].ended
             \/ turn[s] = NoTurn
      BY <2>1 DEF EpochsFrom
    <3>2. turn[s] # NoTurn
      BY NoTurnType DEF Idle
    <3>3. QED
      BY <1>3, <3>1, <3>2
  <2>3. ep2[s] \in [Epochs -> EpochRecord]
    BY <1>3
  <2>4. QED
    BY <2>2, <2>3 DEF EpochsFrom
<1>6. QED
  BY <1>2, <1>3, <1>4, <1>5

\* The mode becomes Bypass only where a code is used up.
BypassStep ==
  \A s \in Sessions :
    conf'[s].mode = "Bypass" /\ conf[s].mode # "Bypass" => conf'[s].consumed > conf[s].consumed

\* A configuration c2 that follows c.
Follows(c, c2) ==
  /\ c2 \in ConfRecord
  /\ c2.mode = "Bypass" /\ c.mode # "Bypass" => c2.consumed > c.consumed

\* The configuration of s is replaced by one that follows it.
LEMMA ConfStep ==
  ASSUME Types, NEW s \in Sessions, NEW c2, Follows(conf[s], c2),
         conf' = [conf EXCEPT ![s] = c2]
  PROVE  Sane /\ BypassStep
  BY DEF Types, Follows, Sane, BypassStep

\* A mode m other than Bypass, also while it waits.
LEMMA ModesFollow ==
  ASSUME KernelConstants, NEW c \in ConfRecord, NEW m \in Modes \cup Switches, NEW b \in BOOLEAN
  PROVE  /\ Follows(c, c)
         /\ Follows(c, [c EXCEPT !.mode = m, !.durable = m, !.reported = m])
         /\ Follows(c, [c EXCEPT !.mode = m])
         /\ Follows(c, [NoConf EXCEPT !.mode = m, !.durable = m, !.reported = m, !.admitted = b])
         /\ m \in Switches => Follows(c, [c EXCEPT !.pending = m, !.reported = m])
<1>1. m # "Bypass" /\ m \in ModeSet /\ "none" \in ModeSet
  BY DEF KernelConstants, ModeSet
<1>2. Follows(c, c)
  BY DEF Follows
<1>3. Follows(c, [c EXCEPT !.mode = m, !.durable = m, !.reported = m])
  BY <1>1 DEF Follows, ConfRecord
<1>4. Follows(c, [c EXCEPT !.mode = m])
  BY <1>1 DEF Follows, ConfRecord
<1>5. Follows(c, [NoConf EXCEPT !.mode = m, !.durable = m, !.reported = m, !.admitted = b])
  BY <1>1 DEF Follows, ConfRecord, NoConf
<1>6. m \in Switches => Follows(c, [c EXCEPT !.pending = m, !.reported = m])
  BY <1>1 DEF Follows, ConfRecord
<1>7. QED
  BY <1>2, <1>3, <1>4, <1>5, <1>6

\* Full access for an admitted session, a code shown, a code used up.
LEMMA CodesFollow ==
  ASSUME NEW c \in ConfRecord
  PROVE  /\ Follows(c, [c EXCEPT !.admitted = TRUE, !.mode = "FullAccess", !.durable = "FullAccess",
                                 !.reported = "FullAccess"])
         /\ Follows(c, [c EXCEPT !.bypass = TRUE, !.codes = c.codes + 1])
         /\ c.codes > 0 =>
              LET d == [c EXCEPT !.bypass = FALSE, !.codes = c.codes - 1, !.consumed = c.consumed + 1] IN
              /\ Follows(c, [d EXCEPT !.mode = "Bypass", !.durable = "Bypass", !.reported = "Bypass"])
              /\ Follows(c, [d EXCEPT !.mode = "Bypass"])
<1>1. /\ "FullAccess" \in ModeSet /\ "Bypass" \in ModeSet
      /\ c.codes \in Nat /\ c.consumed \in Nat /\ c.consumed + 1 \in Nat /\ c.consumed + 1 > c.consumed
      /\ c.codes + 1 \in Nat /\ (c.codes > 0 => c.codes - 1 \in Nat)
  BY DEF ModeSet, ConfRecord
<1>2. Follows(c, [c EXCEPT !.admitted = TRUE, !.mode = "FullAccess", !.durable = "FullAccess",
                           !.reported = "FullAccess"])
  BY <1>1 DEF Follows, ConfRecord
<1>3. Follows(c, [c EXCEPT !.bypass = TRUE, !.codes = c.codes + 1])
  BY <1>1 DEF Follows, ConfRecord
<1> DEFINE d == [c EXCEPT !.bypass = FALSE, !.codes = c.codes - 1, !.consumed = c.consumed + 1]
<1>4. ASSUME c.codes > 0
      PROVE  d \in ConfRecord /\ d.consumed = c.consumed + 1
  BY <1>1, <1>4 DEF ConfRecord
<1> HIDE DEF d
<1>5. ASSUME c.codes > 0
      PROVE  /\ Follows(c, [d EXCEPT !.mode = "Bypass", !.durable = "Bypass", !.reported = "Bypass"])
             /\ Follows(c, [d EXCEPT !.mode = "Bypass"])
  BY <1>1, <1>4, <1>5 DEF Follows, ConfRecord
<1>6. QED
  BY <1>2, <1>3, <1>5 DEF d

\* What waited is applied: it is one of the modes clients switch to.
LEMMA PendingFollows ==
  ASSUME KernelConstants, NEW c \in ConfRecord, NEW saved \in BOOLEAN
  PROVE  Follows(c, AppliedPending(c, saved))
<1>1. CASE c.pending = "none"
  BY <1>1 DEF AppliedPending, Follows
<1>2. CASE c.pending # "none"
  <2>1. c.pending \in Switches /\ c.pending # "Bypass" /\ c.pending \in ModeSet
    BY <1>2 DEF ConfRecord, KernelConstants, ModeSet
  <2>2. QED
    BY <1>2, <2>1 DEF AppliedPending, Follows, ConfRecord
<1>3. QED
  BY <1>1, <1>2

\* new_session, attach_buzz_context, set_config and confirm_bypass.
LEMMA ConfigurationStep ==
  ASSUME KernelConstants, KernelInv, NEW s \in Sessions,
         \/ \E m \in Modes : NewSession(s, m)
         \/ AttachBuzz(s)
         \/ \E m \in Switches : SetConfigIdle(s, m)
         \/ RequestBypass(s)
         \/ ConfirmBypass(s)
  PROVE  KernelInv' /\ BypassStep /\ UNCHANGED req
<1>1. Types /\ conf \in [Sessions -> ConfRecord] /\ conf[s] \in ConfRecord
  BY DEF KernelInv, Types
<1>2. UNCHANGED <<turn, driver, routeVars, epoch, req>>
  BY Zenon DEF NewSession, AttachBuzz, SetConfigIdle, RequestBypass, ConfirmBypass
<1>3. \E c2 : Follows(conf[s], c2) /\ conf' = [conf EXCEPT ![s] = c2]
  <2>1. CASE \E m \in Modes : NewSession(s, m)
    <3>1. PICK m \in Modes : NewSession(s, m)
      BY <2>1
    <3> DEFINE b == s \notin BuzzSessions
    <3> DEFINE c2 == [NoConf EXCEPT !.mode = m, !.durable = m, !.reported = m, !.admitted = b]
    <3>2. b \in BOOLEAN /\ m \in Modes \cup Switches
      OBVIOUS
    <3>3. conf' = [conf EXCEPT ![s] = c2]
      BY <3>1, Zenon DEF NewSession
    <3> HIDE DEF b
    <3>4. Follows(conf[s], c2)
      BY <1>1, <3>2, ModesFollow, Zenon
    <3> HIDE DEF c2
    <3>5. QED
      BY <3>3, <3>4, Zenon
  <2>2. CASE AttachBuzz(s)
    <3> DEFINE c2 == [conf[s] EXCEPT !.admitted = TRUE, !.mode = "FullAccess", !.durable = "FullAccess",
                                     !.reported = "FullAccess"]
    <3>1. Follows(conf[s], c2)
      BY <1>1, CodesFollow, Zenon
    <3>2. conf' = [conf EXCEPT ![s] = c2]
      BY <1>1, <2>2 DEF AttachBuzz
    <3> HIDE DEF c2
    <3>3. QED
      BY <3>1, <3>2, ZenonT(90)
  <2>3. CASE \E m \in Switches : SetConfigIdle(s, m)
    <3>1. PICK m \in Switches : SetConfigIdle(s, m)
      BY <2>3
    <3>2. m \in Modes \cup Switches /\ TRUE \in BOOLEAN
      OBVIOUS
    <3>3. /\ Follows(conf[s], [conf[s] EXCEPT !.mode = m, !.durable = m, !.reported = m])
          /\ Follows(conf[s], [conf[s] EXCEPT !.mode = m])
      BY <1>1, <3>2, ModesFollow, Zenon
    <3>4. QED
      BY <3>1, <3>3, Zenon DEF SetConfigIdle, Persisted
  <2>4. CASE RequestBypass(s)
    <3> DEFINE c2 == [conf[s] EXCEPT !.bypass = TRUE, !.codes = conf[s].codes + 1]
    <3>1. Follows(conf[s], c2)
      BY <1>1, CodesFollow, Zenon
    <3>2. conf' = [conf EXCEPT ![s] = c2]
      <4>1. conf' = [conf EXCEPT ![s].bypass = TRUE, ![s].codes = @ + 1]
        BY <2>4, Zenon DEF RequestBypass
      <4>2. QED
        BY <1>1, <4>1, Zenon
    <3> HIDE DEF c2
    <3>3. QED
      BY <3>1, <3>2, Zenon
  <2>5. CASE ConfirmBypass(s)
    <3> DEFINE c == conf[s]
    <3> DEFINE d == [c EXCEPT !.bypass = FALSE, !.codes = c.codes - 1, !.consumed = c.consumed + 1]
    <3>1. /\ Follows(c, [d EXCEPT !.mode = "Bypass", !.durable = "Bypass", !.reported = "Bypass"])
          /\ Follows(c, [d EXCEPT !.mode = "Bypass"])
      BY <1>1, <2>5, CodesFollow, Zenon DEF ConfirmBypass
    <3>2. Persisted(s, d, "Bypass")
      BY <2>5 DEF ConfirmBypass
    <3> HIDE DEF d
    <3>3. QED
      BY <3>1, <3>2, SMTT(60) DEF Persisted
  <2>6. QED
    BY <2>1, <2>2, <2>3, <2>4, <2>5
<1>4. Sane /\ BypassStep
  BY <1>1, <1>3, ConfStep
<1>5. QED
  BY <1>2, <1>4, SettingsStep

\* A step that leaves the configuration alone.
LEMMA ConfSame ==
  ASSUME Types, conf' = conf
  PROVE  Sane /\ BypassStep
  BY DEF Types, Sane, BypassStep

\* The epoch of an active turn has begun.
LEMMA ActiveEpoch ==
  ASSUME KernelConstants, KernelInv, NEW s \in Sessions, ~Idle(s)
  PROVE  turn[s].epoch \in Epochs /\ epoch[s][turn[s].epoch].state \in States \ {"none"}
<1>1. /\ turn[s].epoch \in Epochs /\ EndsOf(turn[s], epoch[s])
  BY DEF KernelInv, SessionInv, Types, TurnRecord, Epochs, KernelConstants, Idle
<1>2. epoch[s][turn[s].epoch] \in EpochRecord
  BY <1>1 DEF KernelInv, Types
<1>3. QED
  BY <1>1, <1>2 DEF EndsOf, EpochRecord

\* set_config on a session with a turn.
LEMMA SetConfigActiveStep ==
  ASSUME KernelConstants, KernelInv, NEW s \in Sessions, NEW m \in Switches, SetConfigActive(s, m)
  PROVE  KernelInv' /\ BypassStep /\ UNCHANGED req
<1>1. /\ Types /\ conf \in [Sessions -> ConfRecord] /\ conf[s] \in ConfRecord
      /\ epoch \in [Sessions -> [Epochs -> EpochRecord]]
  BY DEF KernelInv, Types
<1>2. UNCHANGED <<turn, driver, routeVars, req>> /\ ~Idle(s)
  BY DEF SetConfigActive
<1>3. Sane /\ BypassStep
  <2> DEFINE c2 == [conf[s] EXCEPT !.pending = m, !.reported = m]
  <2>1. Follows(conf[s], c2)
    <3>1. m \in Modes \cup Switches /\ TRUE \in BOOLEAN
      OBVIOUS
    <3>2. m \in Switches => Follows(conf[s], [conf[s] EXCEPT !.pending = m, !.reported = m])
      BY <1>1, <3>1, ModesFollow, Zenon
    <3>3. QED
      BY <3>2
  <2>2. conf' = [conf EXCEPT ![s] = c2]
    BY <1>1 DEF SetConfigActive
  <2> HIDE DEF c2
  <2>3. QED
    BY <1>1, <2>1, <2>2, ConfStep
<1>4. CASE epoch' = epoch
  BY <1>2, <1>3, <1>4, SettingsStep
<1>5. CASE epoch' = [epoch EXCEPT ![s][turn[s].epoch].state = "interrupted"]
  <2> DEFINE n == turn[s].epoch
  <2> DEFINE ep2 == epoch'
  <2>1. n \in Epochs /\ epoch[s][n].state # "none" /\ "interrupted" \in States \ {"none"}
    BY <1>2, ActiveEpoch DEF States
  <2>2. ep2 = [epoch EXCEPT ![s][n].state = "interrupted"]
    BY <1>5
  <2> HIDE DEF n, ep2
  <2>3. /\ ep2 \in [Sessions -> [Epochs -> EpochRecord]]
        /\ \A x \in Sessions : EpochsFrom(turn[x], turn[x], epoch[x], ep2[x])
    BY <1>1, <2>1, <2>2, StateChanged, Zenon
  <2>4. /\ UNCHANGED <<routed, routedCount, req>> /\ failures' \subseteq failures
        /\ DOMAIN turn' = Sessions /\ turn' = [x \in Sessions |-> turn'[x]]
        /\ epoch' = [x \in Sessions |-> epoch'[x]]
        /\ \A x \in Sessions : EpochsFrom(turn[x], turn'[x], epoch[x], epoch'[x])
        /\ driver' = NoSession \/ (driver' = driver /\ (driver # NoSession => turn'[driver] = turn[driver]))
    BY <1>1, <1>2, <2>3 DEF Types, routeVars, ep2
  <2>5. QED
    BY <1>2, <1>3, <2>4, QuietStep
<1>6. QED
  BY <1>4, <1>5 DEF SetConfigActive

\* begin_prompt on a session whose backlog overflowed.
LEMMA PromptAfterOverflowStep ==
  ASSUME KernelConstants, KernelInv, NEW s \in Sessions, PromptAfterOverflow(s)
  PROVE  KernelInv' /\ BypassStep /\ UNCHANGED req
<1>1. Types
  BY DEF KernelInv
<1>2. Sane /\ BypassStep
  BY <1>1, ConfSame DEF PromptAfterOverflow
<1>3. /\ UNCHANGED <<routed, routedCount, req>> /\ failures' \subseteq failures
      /\ DOMAIN turn' = Sessions /\ turn' = [x \in Sessions |-> turn'[x]]
      /\ epoch' = [x \in Sessions |-> epoch'[x]]
      /\ driver' = NoSession \/ (driver' = driver /\ (driver # NoSession => turn'[driver] = turn[driver]))
      /\ turn' = turn /\ epoch' = epoch
  BY <1>1 DEF PromptAfterOverflow, Types
<1>4. \A x \in Sessions : EpochsFrom(turn[x], turn'[x], epoch[x], epoch'[x])
  BY <1>1, <1>3, SameEpochs DEF Types
<1>5. QED
  BY <1>2, <1>3, <1>4, QuietStep

\* The provider stops an interrupted epoch.
LEMMA EpochStopsStep ==
  ASSUME KernelConstants, KernelInv, NEW s \in Sessions, NEW n \in Epochs, EpochStops(s, n)
  PROVE  KernelInv' /\ BypassStep /\ UNCHANGED req
<1>1. Types
  BY DEF KernelInv
<1>2. Sane /\ BypassStep
  BY <1>1, ConfSame DEF EpochStops
<1> DEFINE ep2 == epoch'
<1>3. epoch[s][n].state # "none" /\ "stopped" \in States \ {"none"}
  BY DEF EpochStops, States
<1>4. ep2 = [epoch EXCEPT ![s][n].state = "stopped"]
  BY DEF EpochStops
<1> HIDE DEF ep2
<1>5. /\ ep2 \in [Sessions -> [Epochs -> EpochRecord]]
      /\ \A x \in Sessions : EpochsFrom(turn[x], turn[x], epoch[x], ep2[x])
  <2>1. epoch \in [Sessions -> [Epochs -> EpochRecord]]
    BY <1>1 DEF Types
  <2>2. QED
    BY <1>1, <1>3, <1>4, <2>1, StateChanged, Zenon
<1>6. /\ UNCHANGED <<routed, routedCount, req>> /\ failures' \subseteq failures
      /\ DOMAIN turn' = Sessions /\ turn' = [x \in Sessions |-> turn'[x]]
      /\ epoch' = [x \in Sessions |-> epoch'[x]]
      /\ \A x \in Sessions : EpochsFrom(turn[x], turn'[x], epoch[x], epoch'[x])
      /\ driver' = NoSession \/ (driver' = driver /\ (driver # NoSession => turn'[driver] = turn[driver]))
  BY <1>1, <1>5 DEF EpochStops, Types, routeVars, ep2
<1>7. QED
  BY <1>2, <1>6, QuietStep

\* fail_active_turn of the driven turn, outside of an event.
LEMMA ProviderFailsStep ==
  ASSUME KernelConstants, KernelInv, ProviderFails
  PROVE  KernelInv' /\ BypassStep /\ UNCHANGED req
<1>1. Types /\ driver \in Sessions /\ ~Idle(driver)
  BY DEF KernelInv, Types, DriverInv, ProviderFails
<1>2. Sane /\ BypassStep
  BY <1>1, ConfSame DEF ProviderFails, Failed
<1> DEFINE ep2 == epoch'
<1> DEFINE turn2 == turn'
<1>3. ep2 = epoch \/ ep2 = [epoch EXCEPT ![driver][turn[driver].epoch].ended = @ + 1]
  BY DEF ProviderFails, Failed, FailTurn
<1>4. turn2 = [turn EXCEPT ![driver] = NoTurn]
  BY DEF ProviderFails, Failed, FailTurn
<1>5. \A x \in Sessions : EpochsFrom(turn[x], turn[x], epoch[x], epoch[x])
  BY <1>1, SameEpochs DEF Types
<1>6. epoch \in [Sessions -> [Epochs -> EpochRecord]]
  BY <1>1 DEF Types
<1> HIDE DEF ep2, turn2
<1>7. /\ ep2 \in [Sessions -> [Epochs -> EpochRecord]] /\ turn2 \in [Sessions -> TurnRecord]
      /\ \A x \in Sessions : EpochsFrom(turn[x], turn2[x], epoch[x], ep2[x])
  <2>1. Ending(driver, epoch, epoch, ep2, turn2)
    BY <1>3, <1>4, <1>5, <1>6 DEF Ending
  <2>2. QED
    BY <1>1, <2>1, TurnEnded
<1>8. /\ UNCHANGED <<routed, routedCount, req>> /\ failures' \subseteq failures /\ driver' = NoSession
  BY DEF ProviderFails, Failed, routeVars
<1>9. /\ DOMAIN turn' = Sessions /\ turn' = [x \in Sessions |-> turn'[x]]
      /\ epoch' = [x \in Sessions |-> epoch'[x]]
      /\ \A x \in Sessions : EpochsFrom(turn[x], turn'[x], epoch[x], epoch'[x])
  BY <1>7 DEF ep2, turn2
<1>10. QED
  BY <1>2, <1>8, <1>9, QuietStep

\* cancel_session of a paused or of the driven turn.
LEMMA CancelStep ==
  ASSUME KernelConstants, KernelInv, NEW s \in Sessions, Cancel(s)
  PROVE  KernelInv' /\ BypassStep /\ UNCHANGED req
<1> DEFINE n == turn[s].epoch
<1> DEFINE st == IF epoch[s][n].state = "running" THEN "interrupted" ELSE epoch[s][n].state
<1> DEFINE ep == [epoch EXCEPT ![s][n].state = IF @ = "running" THEN "interrupted" ELSE @]
<1>1. Types /\ ~Idle(s) /\ conf[s] \in ConfRecord /\ conf \in [Sessions -> ConfRecord]
      /\ epoch \in [Sessions -> [Epochs -> EpochRecord]]
  BY DEF KernelInv, Types, Cancel
<1>2. n \in Epochs /\ epoch[s][n].state \in States \ {"none"}
  BY <1>1, ActiveEpoch
<1>3. st \in States \ {"none"}
  BY <1>2 DEF States
<1>4. ep = [epoch EXCEPT ![s][n].state = st]
  BY <1>1, <1>2
<1>5. \/ /\ epoch' = [ep EXCEPT ![s][n].ended = @ + 1]
         /\ turn' = [turn EXCEPT ![s] = NoTurn]
         /\ driver' = NoSession
         /\ \/ conf' = conf
            \/ \E saved \in BOOLEAN : conf' = [conf EXCEPT ![s] = AppliedPending(@, saved)]
      \/ /\ epoch' = ep
         /\ UNCHANGED <<turn, driver, conf>>
  BY DEF Cancel, Saves
<1>6. UNCHANGED <<routed, routedCount, failures, req>>
  BY DEF Cancel, routeVars
<1>7. Sane /\ BypassStep
  <2>1. CASE conf' = conf
    BY <1>1, <2>1, ConfSame
  <2>2. CASE \E saved \in BOOLEAN : conf' = [conf EXCEPT ![s] = AppliedPending(@, saved)]
    <3>0. PICK saved \in BOOLEAN : conf' = [conf EXCEPT ![s] = AppliedPending(@, saved)]
      BY <2>2
    <3> DEFINE c2 == AppliedPending(conf[s], saved)
    <3>1. Follows(conf[s], c2)
      BY <1>1, PendingFollows
    <3>2. conf' = [conf EXCEPT ![s] = c2]
      BY <3>0
    <3> HIDE DEF c2
    <3>3. QED
      BY <1>1, <3>1, <3>2, ConfStep
  <2>3. QED
    BY <1>5, <2>1, <2>2
<1> HIDE DEF ep, st, n
<1>8. /\ ep \in [Sessions -> [Epochs -> EpochRecord]]
      /\ \A x \in Sessions : EpochsFrom(turn[x], turn[x], epoch[x], ep[x])
  BY <1>1, <1>2, <1>3, <1>4, StateChanged
<1>9. CASE /\ epoch' = ep
           /\ UNCHANGED <<turn, driver, conf>>
  <2>1. /\ DOMAIN turn' = Sessions /\ turn' = [x \in Sessions |-> turn'[x]]
        /\ epoch' = [x \in Sessions |-> epoch'[x]]
        /\ \A x \in Sessions : EpochsFrom(turn[x], turn'[x], epoch[x], epoch'[x])
        /\ driver' = driver /\ (driver # NoSession => turn'[driver] = turn[driver])
    BY <1>1, <1>8, <1>9 DEF Types
  <2>2. QED
    BY <1>6, <1>7, <2>1, QuietStep
<1>10. CASE /\ epoch' = [ep EXCEPT ![s][n].ended = @ + 1]
            /\ turn' = [turn EXCEPT ![s] = NoTurn]
            /\ driver' = NoSession
  <2> DEFINE ep2 == epoch'
  <2> DEFINE turn2 == turn'
  <2>1. ep2 = [ep EXCEPT ![s][turn[s].epoch].ended = @ + 1] /\ turn2 = [turn EXCEPT ![s] = NoTurn]
    BY <1>10 DEF n
  <2> HIDE DEF ep2, turn2
  <2>2. /\ ep2 \in [Sessions -> [Epochs -> EpochRecord]] /\ turn2 \in [Sessions -> TurnRecord]
        /\ \A x \in Sessions : EpochsFrom(turn[x], turn2[x], epoch[x], ep2[x])
    <3>1. Ending(s, epoch, ep, ep2, turn2)
      BY <1>1, <1>8, <2>1 DEF Ending
    <3>2. QED
      BY <1>1, <3>1, TurnEnded
  <2>3. /\ DOMAIN turn' = Sessions /\ turn' = [x \in Sessions |-> turn'[x]]
        /\ epoch' = [x \in Sessions |-> epoch'[x]]
        /\ \A x \in Sessions : EpochsFrom(turn[x], turn'[x], epoch[x], epoch'[x])
    BY <2>2 DEF ep2, turn2
  <2>4. QED
    BY <1>6, <1>7, <1>10, <2>3, QuietStep
<1>11. QED
  BY <1>5, <1>9, <1>10

\* Shutdown: every epoch stops and the driven turn is recorded as cancelled, or
\* stays when it cannot be recorded.
LEMMA ShutdownStep ==
  ASSUME KernelConstants, KernelInv, Shutdown
  PROVE  KernelInv' /\ BypassStep /\ UNCHANGED req
<1>1. /\ Types /\ turn \in [Sessions -> TurnRecord] /\ driver \in Sessions \cup {NoSession}
      /\ epoch \in [Sessions -> [Epochs -> EpochRecord]]
      /\ driver # NoSession => ~Idle(driver)
  BY DEF KernelInv, Types, DriverInv
<1>2. Sane /\ BypassStep
  BY <1>1, ConfSame DEF Shutdown
<1>3. /\ UNCHANGED <<routed, routedCount, req>> /\ failures' \subseteq failures /\ driver' = NoSession
  BY DEF Shutdown, routeVars
<1> DEFINE StoppedBy(who) == [x \in Sessions |-> [n \in Epochs |->
       [state |-> IF epoch[x][n].state = "none" THEN "none" ELSE "stopped",
        emitted |-> epoch[x][n].emitted,
        ended |-> epoch[x][n].ended + (IF x = who /\ n = turn[x].epoch THEN 1 ELSE 0)]]]
<1>0. PICK who \in {driver, NoSession} :
        /\ epoch' = StoppedBy(who)
        /\ turn' = IF who = NoSession THEN turn ELSE [turn EXCEPT ![who] = NoTurn]
  <2>1. {driver} \cup (IF "append" \in Faults THEN {NoSession} ELSE {}) \subseteq {driver, NoSession}
    OBVIOUS
  <2>2. PICK who \in {driver} \cup (IF "append" \in Faults THEN {NoSession} ELSE {}) :
          /\ epoch' = StoppedBy(who)
          /\ turn' = IF who = NoSession THEN turn ELSE [turn EXCEPT ![who] = NoTurn]
    BY Zenon DEF Shutdown
  <2>3. who \in {driver, NoSession}
    BY <2>1
  <2> HIDE DEF StoppedBy
  <2>4. QED
    BY <2>2, <2>3
<1>4. /\ turn' \in [Sessions -> TurnRecord]
      /\ \A x \in Sessions : turn'[x] = IF x = who THEN NoTurn ELSE turn[x]
  BY <1>0, <1>1, NoTurnType DEF KernelConstants
<1>5. /\ epoch' = [x \in Sessions |-> epoch'[x]]
      /\ \A x \in Sessions : epoch'[x] = [n \in Epochs |->
           [state |-> IF epoch[x][n].state = "none" THEN "none" ELSE "stopped",
            emitted |-> epoch[x][n].emitted,
            ended |-> epoch[x][n].ended + (IF x = who /\ n = turn[x].epoch THEN 1 ELSE 0)]]
  BY <1>0
<1>6. ASSUME NEW x \in Sessions
      PROVE  EpochsFrom(turn[x], turn'[x], epoch[x], epoch'[x])
  <2> DEFINE eps == epoch[x]
  <2> DEFINE eps2 == epoch'[x]
  <2>1. \A m \in Epochs : eps[m] \in EpochRecord
    BY <1>1
  <2>2. ASSUME NEW m \in Epochs
        PROVE  /\ eps2[m] \in EpochRecord
               /\ eps2[m].emitted = eps[m].emitted
               /\ eps2[m].state = "none" <=> eps[m].state = "none"
               /\ eps2[m].ended = IF x = who /\ m = turn[x].epoch THEN eps[m].ended + 1 ELSE eps[m].ended
    <3> DEFINE a == eps[m]
    <3> DEFINE st == IF a.state = "none" THEN "none" ELSE "stopped"
    <3> DEFINE k == a.ended + (IF x = who /\ m = turn[x].epoch THEN 1 ELSE 0)
    <3>1. a \in EpochRecord
      BY <2>1
    <3>2. eps2[m] = [state |-> st, emitted |-> a.emitted, ended |-> k]
      BY <1>5
    <3>3. a.state \in States /\ a.emitted \in Nat /\ a.ended \in Nat
      BY <3>1 DEF EpochRecord
    <3>4. st \in States /\ (st = "none" <=> a.state = "none") /\ k \in Nat
      BY <3>3 DEF States
    <3>5. k = IF x = who /\ m = turn[x].epoch THEN a.ended + 1 ELSE a.ended
      BY <3>3
    <3> HIDE DEF a, st, k
    <3>6. /\ eps2[m] \in EpochRecord /\ eps2[m].emitted = a.emitted
          /\ eps2[m].state = "none" <=> a.state = "none"
          /\ eps2[m].ended = k
      BY <3>2, <3>3, <3>4 DEF EpochRecord
    <3>7. QED
      BY <3>5, <3>6 DEF a
  <2>3. eps2 \in [Epochs -> EpochRecord]
    <3>1. eps2 = [m \in Epochs |-> eps2[m]]
      BY <1>5
    <3>2. QED
      BY <2>2, <3>1
  <2>4. turn'[x] = turn[x] \/ turn'[x] = NoTurn
    BY <1>4
  <2>5. ASSUME NEW m \in Epochs
        PROVE  \/ eps2[m].ended = eps[m].ended
               \/ turn'[x] = NoTurn /\ m = turn[x].epoch /\ eps2[m].ended = eps[m].ended + 1
    BY <1>4, <2>2
  <2> HIDE DEF eps, eps2
  <2>6. EpochsFrom(turn[x], turn'[x], eps, eps2)
    BY <2>2, <2>3, <2>4, <2>5 DEF EpochsFrom
  <2>7. QED
    BY <2>6 DEF eps, eps2
<1>7. /\ DOMAIN turn' = Sessions /\ turn' = [x \in Sessions |-> turn'[x]]
  BY <1>4
<1>8. QED
  BY <1>2, <1>3, <1>5, <1>6, <1>7, QuietStep

\* begin_prompt: a fresh epoch, none of whose events can wait.
LEMMA BeginPromptStep ==
  ASSUME KernelConstants, KernelInv, NEW s \in Sessions, BeginPrompt(s)
  PROVE  KernelInv' /\ BypassStep /\ UNCHANGED req
<1>1. /\ Types /\ CountInv /\ DriverInv /\ AskedOf(req)
      /\ \A x \in Sessions : SessionInv(x, turn[x], routed[x], epoch[x], req)
  BY DEF KernelInv
<1>2. Sane /\ BypassStep
  BY <1>1, ConfSame DEF BeginPrompt
<1>3. UNCHANGED <<conf, routed, routedCount, failures, req>> /\ driver' = s /\ s \notin failures
  BY DEF BeginPrompt, routeVars
<1>4. PICK n \in Epochs :
        /\ epoch[s][n].state = "none"
        /\ epoch' = [epoch EXCEPT ![s][n].state = "running"]
        /\ turn' = [turn EXCEPT ![s] = [NoTurn EXCEPT !.epoch = n]]
  BY DEF BeginPrompt
<1> DEFINE t2 == [NoTurn EXCEPT !.epoch = n]
<1>5. /\ n \in Nat \ {0} /\ n \in 0..MaxEpochs
      /\ t2 \in TurnRecord /\ t2.epoch = n /\ t2.log = <<>> /\ t2.on = NoRequest
  <2>1. n \in Nat \ {0} /\ n \in 0..MaxEpochs
    BY <1>4 DEF Epochs, KernelConstants
  <2>2. <<>> \in Seq(Nat)
    OBVIOUS
  <2>3. QED
    BY <2>1, <2>2 DEF NoTurn, TurnRecord
<1>6. /\ turn' \in [Sessions -> TurnRecord] /\ turn'[s] = t2
      /\ \A x \in Sessions \ {s} : turn'[x] = turn[x]
  BY <1>1, <1>4, <1>5 DEF Types
<1> HIDE DEF t2
<1> DEFINE a == epoch[s][n]
<1> DEFINE b == [state |-> "running", emitted |-> a.emitted, ended |-> a.ended]
<1> DEFINE ep2 == epoch'
<1>7. epoch \in [Sessions -> [Epochs -> EpochRecord]] /\ a \in EpochRecord /\ "running" \in States
  BY <1>1 DEF Types, States
<1>8. [a EXCEPT !.state = "running"] = b /\ b \in EpochRecord
  BY <1>7, EpochRecords, Zenon
<1>9. ep2 = [epoch EXCEPT ![s][n] = b]
  BY <1>4, <1>7, <1>8
<1>10. b.emitted = a.emitted /\ b.state = "running" /\ b.ended = a.ended
  OBVIOUS
<1> HIDE DEF b, ep2
<1>11. /\ [epoch EXCEPT ![s][n] = b] \in [Sessions -> [Epochs -> EpochRecord]]
       /\ \A x \in Sessions \ {s} : [epoch EXCEPT ![s][n] = b][x] = epoch[x]
       /\ [epoch EXCEPT ![s][n] = b][s][n] = b
       /\ \A m \in Epochs \ {n} : [epoch EXCEPT ![s][n] = b][s][m] = epoch[s][m]
  BY <1>7, <1>8, EpochUpdate
<1>12. /\ ep2 \in [Sessions -> [Epochs -> EpochRecord]]
       /\ \A x \in Sessions \ {s} : ep2[x] = epoch[x]
       /\ ep2[s][n] = b /\ \A m \in Epochs \ {n} : ep2[s][m] = epoch[s][m]
  BY <1>9, <1>11
<1>13. SessionInv(s, t2, routed[s], ep2[s], req)
  <2> DEFINE q == routed[s]
  <2> DEFINE eps == epoch[s]
  <2> DEFINE eps2 == ep2[s]
  <2>1. /\ EndsOf(turn[s], eps) /\ OrderOf(turn[s], q, eps) /\ QueueOf(s, q, req)
        /\ q \in Seq(Event) /\ eps2 \in [Epochs -> EpochRecord]
    BY <1>1, <1>12 DEF SessionInv
  <2>2. a.emitted = 0 /\ a.ended = 0
    BY <1>4, <2>1 DEF EndsOf
  <2>3. /\ eps2[n].emitted = 0 /\ eps2[n].ended = 0 /\ eps2[n].state = "running"
        /\ \A m \in Epochs \ {n} : eps2[m] = eps[m]
    BY <1>10, <1>12, <2>2
  <2> HIDE DEF q, eps, eps2
  <2>4. EndsOf(t2, eps2)
    <3>1. ASSUME NEW m \in Epochs, m # n
          PROVE  /\ eps2[m].ended <= 1
                 /\ eps2[m].state = "none" => eps2[m].emitted = 0 /\ eps2[m].ended = 0
      BY <2>1, <2>3, <3>1 DEF EndsOf
    <3>2. QED
      BY <1>5, <2>3, <3>1 DEF EndsOf
  <2>5. OrderOf(t2, q, eps2)
    <3>1. \A i \in 1..Len(q) : q[i] \in Event
      BY <2>1, ElementOfSeq
    <3>2. \A i \in 1..Len(q) : q[i].num \in Nat /\ q[i].ep \in Epochs
      BY <3>1 DEF Event
    <3>3. \A i \in 1..Len(q) : 0 < q[i].num /\ q[i].num <= eps[q[i].ep].emitted
      BY <2>1 DEF OrderOf
    <3>4. eps[n].emitted = 0
      BY <2>2 DEF eps
    <3>5. \A i \in 1..Len(q) : q[i].ep # n
      BY <3>2, <3>3, <3>4
    <3>6. \A i \in 1..Len(q) : 0 < q[i].num /\ q[i].num <= eps2[q[i].ep].emitted
      BY <2>3, <3>2, <3>3, <3>5
    <3>7. Len(t2.log) = 0
      BY <1>5
    <3>8. /\ Len(t2.log) <= eps2[n].emitted
          /\ \A x \in Nat : ~(Len(t2.log) < x /\ x <= eps2[n].emitted)
          /\ \A i \in 1..Len(t2.log) : t2.log[i] = i
      BY <2>3, <3>7
    <3>9. QED
      BY <1>5, <3>5, <3>6, <3>8 DEF OrderOf
  <2>6. PausedOf(s, t2, req)
    BY <1>5 DEF PausedOf
  <2>7. QED
    BY <1>5, <2>1, <2>4, <2>5, <2>6 DEF SessionInv, q, eps2
<1>14. \A x \in Sessions : SessionInv(x, turn'[x], routed[x], ep2[x], req)
  BY <1>1, <1>6, <1>12, <1>13
<1>15. Types'
  BY <1>1, <1>2, <1>3, <1>6, <1>12 DEF Types, Sane, ep2
<1>16. CountInv'
  BY <1>1, <1>3 DEF CountInv, Waiting
<1>17. DriverInv'
  <2>1. ~Idle(driver)'
    BY <1>3, <1>5, <1>6 DEF Idle
  <2>2. ASSUME NEW x \in failures'
        PROVE  routed'[x] = <<>> /\ Idle(x)'
    <3>1. x \in Sessions \ {s} /\ routed[x] = <<>> /\ turn[x].epoch = 0
      BY <1>1, <1>3 DEF DriverInv, Types, Idle
    <3>2. QED
      BY <1>3, <1>6, <3>1 DEF Idle
  <2>3. QED
    BY <2>1, <2>2 DEF DriverInv
<1>18. AskedOf(req')
  BY <1>1, <1>3
<1>19. \A x \in Sessions : SessionInv(x, turn'[x], routed'[x], epoch'[x], req')
  BY <1>3, <1>14 DEF ep2
<1>20. QED
  BY <1>2, <1>3, <1>15, <1>16, <1>17, <1>18, <1>19 DEF KernelInv

-----------------------------------------------------------------------------
(* Grants and answers *)

\* A grant as the owner sees it: one that waits is none.
Seen(g) == IF g = "pending" THEN "none" ELSE g

\* Request records a and b do not differ in grant and answer.
SameAnswer(a, b) == Seen(b.grant) = Seen(a.grant) /\ b.decision = a.decision

\* From a to b the request is granted, and perhaps answered.
Granting(a, b) ==
  /\ Seen(a.grant) = "none" /\ a.decision = "open"
  /\ Seen(b.grant) \in {"auto", "allowed", "denied"}
  /\ \/ b.decision = "open"
     \/ b.decision = IF Seen(b.grant) = "denied" THEN "deny" ELSE "allow"

\* From a to b the request is answered.
Answering(a, b) ==
  /\ a.decision = "open" /\ b.decision \in {"allow", "deny"}
  /\ b.decision = "allow" => Seen(a.grant) \in {"auto", "allowed"}
  /\ Seen(b.grant) = Seen(a.grant)

\* At most one request is granted or answered.
AnswerStep ==
  \/ \A x \in Requests : SameAnswer(req[x], req'[x])
  \/ \E r \in Requests :
       /\ Granting(req[r], req'[r]) \/ Answering(req[r], req'[r])
       /\ \A x \in Requests \ {r} : SameAnswer(req[x], req'[x])

\* The provider is told to go ahead by the turn the request is of.
TimelyStep ==
  \A r \in Requests :
    req'[r].decision = "allow" /\ req[r].decision # "allow" =>
      LET s == req'[r].owner IN
      /\ turn[s].epoch = req'[r].epoch
      /\ driver = s \/ (driver = NoSession /\ turn[s].on = r)

\* What every step does besides keeping the invariant.
StepKeeps == BypassStep /\ AnswerStep /\ TimelyStep

\* A step that leaves the requests alone.
LEMMA RequestsSame ==
  ASSUME BypassStep, req' = req
  PROVE  StepKeeps
  BY DEF StepKeeps, AnswerStep, SameAnswer, TimelyStep

\* A step of ApprovalNext, or one it does not see.
LEMMA AnswerStepRefines ==
  ASSUME Types, Types', AnswerStep
  PROVE  [Approval!ApprovalNext]_(Approval!approvalVars)
<1> DEFINE g1 == [r \in Requests |-> IF req[r].grant = "pending" THEN "none" ELSE req[r].grant]
<1> DEFINE d1 == [r \in Requests |-> req[r].decision]
<1> DEFINE g2 == [r \in Requests |-> IF req'[r].grant = "pending" THEN "none" ELSE req'[r].grant]
<1> DEFINE d2 == [r \in Requests |-> req'[r].decision]
<1>1. \A r \in Requests : /\ g1[r] = Seen(req[r].grant) /\ d1[r] = req[r].decision
                          /\ g2[r] = Seen(req'[r].grant) /\ d2[r] = req'[r].decision
  BY DEF Seen
<1>2. /\ DOMAIN g1 = Requests /\ DOMAIN d1 = Requests
      /\ g2 = [r \in Requests |-> g2[r]] /\ d2 = [r \in Requests |-> d2[r]]
      /\ g1 = [r \in Requests |-> g1[r]] /\ d1 = [r \in Requests |-> d1[r]]
  OBVIOUS
<1>3. /\ Approval!approvalVars = <<g1, d1>> /\ Approval!approvalVars' = <<g2, d2>>
  BY DEF Approval!approvalVars
<1>4. CASE \A x \in Requests : SameAnswer(req[x], req'[x])
  <2>1. \A x \in Requests : g2[x] = g1[x] /\ d2[x] = d1[x]
    BY <1>1, <1>4 DEF SameAnswer
  <2> HIDE DEF g1, g2, d1, d2
  <2>2. g2 = g1 /\ d2 = d1
    BY <1>2, <2>1
  <2>3. QED
    BY <1>3, <2>2
<1>5. CASE \E r \in Requests :
             /\ Granting(req[r], req'[r]) \/ Answering(req[r], req'[r])
             /\ \A x \in Requests \ {r} : SameAnswer(req[x], req'[x])
  <2>1. PICK r \in Requests :
               /\ Granting(req[r], req'[r]) \/ Answering(req[r], req'[r])
               /\ \A x \in Requests \ {r} : SameAnswer(req[x], req'[x])
    BY <1>5
  <2>2. \A x \in Requests \ {r} : g2[x] = g1[x] /\ d2[x] = d1[x]
    BY <1>1, <2>1 DEF SameAnswer
  <2>3. CASE Granting(req[r], req'[r])
    <3>1. /\ g1[r] = "none" /\ d1[r] = "open" /\ g2[r] \in {"auto", "allowed", "denied"}
          /\ d2[r] = "open" \/ d2[r] = IF g2[r] = "denied" THEN "deny" ELSE "allow"
      BY <1>1, <2>3 DEF Granting
    <3> DEFINE step == \E r1 \in Requests :
                 \/ \E g \in {"auto", "allowed", "denied"} :
                      /\ g1[r1] = "none" /\ d1[r1] = "open"
                      /\ g2 = [g1 EXCEPT ![r1] = g] /\ d2 = d1
                 \/ \E g \in {"auto", "allowed", "denied"} :
                      /\ g1[r1] = "none" /\ d1[r1] = "open"
                      /\ g2 = [g1 EXCEPT ![r1] = g]
                      /\ d2 = [d1 EXCEPT ![r1] = IF g = "denied" THEN "deny" ELSE "allow"]
    <3> HIDE DEF g1, g2, d1, d2
    <3>2. g2 = [g1 EXCEPT ![r] = g2[r]] /\ d2 = [d1 EXCEPT ![r] = d2[r]]
      BY <1>2, <2>2
    <3>3. d2[r] = "open" => d2 = d1
      BY <1>2, <2>2, <3>1
    <3>4. step
      BY <3>1, <3>2, <3>3
    <3>5. QED
      BY <3>4 DEF Approval!ApprovalNext, Approval!Grant, Approval!GrantAndAnswer, g1, g2, d1, d2
  <2>4. CASE Answering(req[r], req'[r])
    <3>1. /\ d1[r] = "open" /\ d2[r] \in {"allow", "deny"} /\ g2[r] = g1[r]
          /\ d2[r] = "allow" => g1[r] \in {"auto", "allowed"}
      BY <1>1, <2>4 DEF Answering
    <3> DEFINE step == \E r1 \in Requests :
                 /\ d1[r1] = "open"
                 /\ \E d \in {"allow", "deny"} :
                      /\ d = "allow" => g1[r1] \in {"auto", "allowed"}
                      /\ d2 = [d1 EXCEPT ![r1] = d]
                 /\ g2 = g1
    <3> HIDE DEF g1, g2, d1, d2
    <3>2. g2 = g1 /\ d2 = [d1 EXCEPT ![r] = d2[r]]
      BY <1>2, <2>2, <3>1
    <3>3. step
      BY <3>1, <3>2
    <3>4. QED
      BY <3>3 DEF Approval!ApprovalNext, Approval!Answer, g1, g2, d1, d2
  <2>5. QED
    BY <2>1, <2>3, <2>4
<1>6. QED
  BY <1>4, <1>5 DEF AnswerStep

\* A request whose code was shown changes, and its code is no longer live.
LEMMA ShownChanges ==
  ASSUME KernelConstants, NEW s \in Sessions, NEW t, NEW q, NEW eps, NEW rq, NEW rq2, NEW r \in Requests,
         SessionInv(s, t, q, eps, rq), rq[r].code # "none",
         \A x \in Requests \ {r} : rq2[x] = rq[x],
         rq2[r].owner = rq[r].owner, rq2[r].epoch = rq[r].epoch, rq2[r].code \in {"used", "expired"}
  PROVE  SessionInv(s, t, q, eps, rq2)
<1>1. /\ t \in TurnRecord /\ q \in Seq(Event) /\ eps \in [Epochs -> EpochRecord]
      /\ EndsOf(t, eps) /\ OrderOf(t, q, eps) /\ QueueOf(s, q, rq) /\ PausedOf(s, t, rq)
  BY DEF SessionInv
<1>2. \A i \in 1..Len(q) : q[i] \in Event
  BY <1>1, ElementOfSeq
<1>3. \A i \in 1..Len(q) : q[i].req # NoRequest => q[i].req \in Requests
  BY <1>2 DEF Event
<1>4. \A i \in 1..Len(q) : q[i].req # NoRequest => rq2[q[i].req] = rq[q[i].req]
  BY <1>1, <1>3 DEF QueueOf, Untouched
<1>5. QueueOf(s, q, rq2)
  BY <1>1, <1>4 DEF QueueOf
<1>6. t.on # NoRequest => t.on \in Requests
  BY <1>1 DEF TurnRecord
<1>7. PausedOf(s, t, rq2)
  <2>1. CASE t.on = r
    BY <1>1, <2>1 DEF PausedOf
  <2>2. CASE t.on # r
    BY <1>1, <1>6, <2>2 DEF PausedOf
  <2>3. QED
    BY <2>1, <2>2
<1>8. QED
  BY <1>1, <1>5, <1>7 DEF SessionInv

\* A code expires.
LEMMA ExpireStep ==
  ASSUME KernelConstants, KernelInv, NEW r \in Requests, Expire(r)
  PROVE  KernelInv' /\ StepKeeps
<1>1. /\ Types /\ CountInv /\ DriverInv /\ AskedOf(req)
      /\ \A x \in Sessions : SessionInv(x, turn[x], routed[x], epoch[x], req)
  BY DEF KernelInv
<1>2. UNCHANGED <<conf, turn, driver, routed, routedCount, failures, epoch>> /\ req[r].code = "live"
  BY DEF Expire, routeVars
<1>3. Sane /\ BypassStep
  BY <1>1, <1>2, ConfSame
<1> DEFINE a == req[r]
<1> DEFINE b == [a EXCEPT !.code = "expired"]
<1> DEFINE rq2 == req'
<1>4. req \in [Requests -> RequestRecord] /\ a \in RequestRecord
  BY <1>1 DEF Types
<1>5. /\ b \in RequestRecord /\ b.owner = a.owner /\ b.epoch = a.epoch /\ b.grant = a.grant
      /\ b.decision = a.decision /\ b.code = "expired"
  BY <1>4 DEF RequestRecord
<1>6. rq2 = [req EXCEPT ![r] = b]
  BY DEF Expire
<1> HIDE DEF b, rq2
<1>7. /\ rq2 \in [Requests -> RequestRecord] /\ rq2[r] = b
      /\ \A x \in Requests \ {r} : rq2[x] = req[x]
  BY <1>4, <1>5, <1>6
<1>8. \A x \in Sessions : SessionInv(x, turn[x], routed[x], epoch[x], rq2)
  <2>1. /\ req[r].code # "none" /\ rq2[r].owner = req[r].owner /\ rq2[r].epoch = req[r].epoch
        /\ rq2[r].code \in {"used", "expired"}
    BY <1>2, <1>5, <1>7
  <2>2. QED
    BY <1>1, <1>7, <2>1, ShownChanges
<1>9. AskedOf(rq2)
  BY <1>1, <1>2, <1>5, <1>7 DEF AskedOf, Untouched
<1>10. \A x \in Requests : SameAnswer(req[x], rq2[x])
  BY <1>5, <1>7 DEF SameAnswer
<1>11. AnswerStep /\ TimelyStep
  BY <1>10 DEF AnswerStep, TimelyStep, SameAnswer, rq2
<1>12. Types'
  BY <1>1, <1>2, <1>3, <1>7 DEF Types, Sane, rq2
<1>13. CountInv' /\ DriverInv'
  BY <1>1, <1>2 DEF CountInv, Waiting, DriverInv, Idle
<1>14. \A x \in Sessions : SessionInv(x, turn'[x], routed'[x], epoch'[x], req')
  BY <1>2, <1>8 DEF rq2
<1>15. AskedOf(req')
  BY <1>9 DEF rq2
<1>16. QED
  BY <1>3, <1>11, <1>12, <1>13, <1>14, <1>15 DEF KernelInv, StepKeeps

\* resume_approval: the code is used up, the provider answered or not.
LEMMA ResumeApprovalStep ==
  ASSUME KernelConstants, KernelInv, NEW s \in Sessions, NEW g \in {"allowed", "denied"},
         ResumeApproval(s, g)
  PROVE  KernelInv' /\ StepKeeps
<1> DEFINE r == turn[s].on
<1> DEFINE d == IF g = "allowed" THEN "allow" ELSE "deny"
<1> DEFINE a == req[r]
<1> DEFINE b == [a EXCEPT !.grant = g, !.code = "used"]
<1> DEFINE consumed == [req EXCEPT ![r].grant = g, ![r].code = "used"]
<1> DEFINE rq2 == req'
<1>1. /\ Types /\ CountInv /\ DriverInv /\ AskedOf(req)
      /\ \A x \in Sessions : SessionInv(x, turn[x], routed[x], epoch[x], req)
  BY DEF KernelInv
<1>2. /\ UNCHANGED <<conf, routed, routedCount, failures, epoch>> /\ a.code = "live"
      /\ driver = NoSession /\ s \notin failures /\ r # NoRequest
  BY DEF ResumeApproval, routeVars
<1>3. Sane /\ BypassStep
  BY <1>1, <1>2, ConfSame
<1>4. /\ req \in [Requests -> RequestRecord] /\ turn \in [Sessions -> TurnRecord]
      /\ turn[s] \in TurnRecord
  BY <1>1 DEF Types
<1>5. r \in Requests /\ a \in RequestRecord
  BY <1>2, <1>4 DEF TurnRecord
<1>6. /\ turn[s].epoch # 0 /\ a.owner = s /\ a.epoch = turn[s].epoch
      /\ a.grant = "pending" /\ a.decision = "open"
  BY <1>1, <1>2 DEF SessionInv, PausedOf
<1>7. /\ b \in RequestRecord /\ b.owner = a.owner /\ b.epoch = a.epoch /\ b.grant = g
      /\ b.decision = "open" /\ b.code = "used"
  BY <1>5, <1>6 DEF RequestRecord
<1>8. d \in {"allow", "deny"} /\ (d = "allow" <=> g = "allowed")
  OBVIOUS
<1>9. consumed = [req EXCEPT ![r] = b]
  BY <1>4, <1>5
<1>10. /\ rq2 = consumed \/ rq2 = Decided(consumed, r, d)
       /\ \/ UNCHANGED <<turn, driver>>
          \/ turn' = [turn EXCEPT ![s].on = NoRequest] /\ driver' = s
  BY DEF ResumeApproval
<1> HIDE DEF b, rq2, consumed, r, d
<1>11. /\ consumed \in [Requests -> RequestRecord] /\ consumed[r] = b
       /\ \A x \in Requests \ {r} : consumed[x] = req[x]
  BY <1>4, <1>5, <1>7, <1>9
<1>12. /\ rq2 \in [Requests -> RequestRecord]
       /\ \A x \in Requests \ {r} : rq2[x] = req[x]
       /\ rq2[r].owner = s /\ rq2[r].epoch = turn[s].epoch
       /\ rq2[r].grant = g /\ rq2[r].code = "used" /\ rq2[r].decision \in {"open", d}
  <2>1. CASE rq2 = consumed
    BY <1>6, <1>7, <1>11, <2>1
  <2>2. CASE rq2 = Decided(consumed, r, d)
    <3>1. d \in {"open", "allow", "deny"} /\ "none" \in {"none", "pending", "auto", "allowed", "denied"}
      BY <1>8
    <3>2. Changed(consumed, Decided(consumed, r, d), r, consumed[r].grant, consumed[r].code, d)
      BY <1>5, <1>11, <3>1, RequestUpdates, Zenon
    <3>3. QED
      BY <1>6, <1>7, <1>11, <2>2, <3>2 DEF Changed
  <2>3. QED
    BY <1>10, <2>1, <2>2
<1>13. \A x \in Sessions : SessionInv(x, turn[x], routed[x], epoch[x], rq2)
  <2>1. /\ req[r].code # "none" /\ rq2[r].owner = req[r].owner /\ rq2[r].epoch = req[r].epoch
        /\ rq2[r].code \in {"used", "expired"}
    BY <1>2, <1>6, <1>12
  <2>2. QED
    BY <1>1, <1>5, <1>12, <2>1, ShownChanges
<1>14. AskedOf(rq2)
  BY <1>1, <1>6, <1>12 DEF AskedOf, KernelConstants
<1>15. AnswerStep
  <2>1. Granting(req[r], rq2[r])
    BY <1>6, <1>8, <1>12 DEF Granting, Seen
  <2>2. \A x \in Requests \ {r} : SameAnswer(req[x], rq2[x])
    BY <1>12 DEF SameAnswer
  <2>3. QED
    BY <1>5, <2>1, <2>2 DEF AnswerStep, rq2
<1>16. TimelyStep
  <2>1. ASSUME NEW x \in Requests, rq2[x].decision = "allow", req[x].decision # "allow"
        PROVE  /\ turn[rq2[x].owner].epoch = rq2[x].epoch
               /\ driver = rq2[x].owner \/ (driver = NoSession /\ turn[rq2[x].owner].on = x)
    <3>1. x = r
      BY <1>12, <2>1
    <3>2. QED
      BY <1>2, <1>12, <3>1 DEF r
  <2>2. QED
    BY <2>1 DEF TimelyStep, rq2
<1>17. CountInv'
  BY <1>1, <1>2 DEF CountInv, Waiting
<1>18. AskedOf(req')
  BY <1>14 DEF rq2
<1>19. CASE UNCHANGED <<turn, driver>>
  <2>1. Types'
    BY <1>1, <1>2, <1>3, <1>12, <1>19 DEF Types, Sane, rq2
  <2>2. DriverInv'
    BY <1>1, <1>2, <1>19 DEF DriverInv, Idle
  <2>3. \A x \in Sessions : SessionInv(x, turn'[x], routed'[x], epoch'[x], req')
    BY <1>2, <1>13, <1>19 DEF rq2
  <2>4. QED
    BY <1>3, <1>15, <1>16, <1>17, <1>18, <2>1, <2>2, <2>3 DEF KernelInv, StepKeeps
<1>20. CASE turn' = [turn EXCEPT ![s].on = NoRequest] /\ driver' = s
  <2> DEFINE t == turn[s]
  <2> DEFINE t2 == [t EXCEPT !.on = NoRequest]
  <2>1. /\ t2 \in TurnRecord /\ t2.epoch = t.epoch /\ t2.log = t.log /\ t2.on = NoRequest
    BY <1>4 DEF TurnRecord
  <2>2. turn' = [turn EXCEPT ![s] = t2]
    BY <1>4, <1>20
  <2> HIDE DEF t2
  <2>3. /\ turn' \in [Sessions -> TurnRecord] /\ turn'[s] = t2
        /\ \A x \in Sessions \ {s} : turn'[x] = turn[x]
    BY <1>4, <2>1, <2>2
  <2>4. SessionInv(s, t2, routed[s], epoch[s], rq2)
    <3>1. SessionInv(s, t, routed[s], epoch[s], rq2)
      BY <1>13
    <3>2. EndsOf(t2, epoch[s])
      BY <2>1, <3>1 DEF SessionInv, EndsOf
    <3>3. OrderOf(t2, routed[s], epoch[s])
      BY <2>1, <3>1 DEF SessionInv, OrderOf
    <3>4. PausedOf(s, t2, rq2)
      BY <2>1 DEF PausedOf
    <3>5. QED
      BY <2>1, <3>1, <3>2, <3>3, <3>4 DEF SessionInv
  <2>5. Types'
    BY <1>1, <1>2, <1>3, <1>12, <1>20, <2>3 DEF Types, Sane, rq2
  <2>6. DriverInv'
    <3>1. ~Idle(driver)'
      BY <1>6, <1>20, <2>1, <2>3 DEF Idle
    <3>2. ASSUME NEW x \in failures'
          PROVE  routed'[x] = <<>> /\ Idle(x)'
      <4>1. x \in Sessions \ {s} /\ routed[x] = <<>> /\ turn[x].epoch = 0
        BY <1>1, <1>2 DEF DriverInv, Types, Idle
      <4>2. QED
        BY <1>2, <2>3, <4>1 DEF Idle
    <3>3. QED
      BY <3>1, <3>2 DEF DriverInv
  <2>7. \A x \in Sessions : SessionInv(x, turn'[x], routed'[x], epoch'[x], req')
    BY <1>2, <1>13, <2>3, <2>4 DEF rq2
  <2>8. QED
    BY <1>3, <1>15, <1>16, <1>17, <1>18, <2>5, <2>6, <2>7 DEF KernelInv, StepKeeps
<1>21. QED
  BY <1>10, <1>19, <1>20

-----------------------------------------------------------------------------
(* Events *)

\* What process_provider_event does to the configuration and to the request.
LEMMA ProcessAnswers ==
  ASSUME KernelConstants, Types, NEW s \in Sessions, driver = s, NEW e \in Event, NEW ep,
         NEW rq \in [Requests -> RequestRecord],
         e.kind \in EffectKinds <=> e.req # NoRequest,
         e.req # NoRequest => rq[e.req].owner = s /\ rq[e.req].epoch = e.ep /\ Untouched(rq[e.req]),
         \A x \in Requests : SameAnswer(req[x], rq[x]),
         Process(s, e, ep, rq)
  PROVE  Sane /\ StepKeeps
<1> DEFINE r == e.req
<1> DEFINE rq2 == req'
<1>1. \/ Ignored(s, e, ep, rq) \/ Advanced(s, e, ep, rq)
      \/ Pauses(s, e, ep, rq) \/ Ends(s, e, ep, rq)
  BY ProcessOutcome
<1>2. Sane /\ BypassStep
  <2>1. conf \in [Sessions -> ConfRecord] /\ conf[s] \in ConfRecord
    BY DEF Types
  <2>2. conf' = conf \/ \E saved \in BOOLEAN : conf' = [conf EXCEPT ![s] = AppliedPending(@, saved)]
    BY <1>1 DEF Ignored, Advanced, Pauses, Ends
  <2>3. CASE conf' = conf
    BY <2>3, ConfSame
  <2>4. CASE \E saved \in BOOLEAN : conf' = [conf EXCEPT ![s] = AppliedPending(@, saved)]
    <3>0. PICK saved \in BOOLEAN : conf' = [conf EXCEPT ![s] = AppliedPending(@, saved)]
      BY <2>4
    <3> DEFINE c2 == AppliedPending(conf[s], saved)
    <3>1. Follows(conf[s], c2)
      BY <2>1, PendingFollows
    <3>2. conf' = [conf EXCEPT ![s] = c2]
      BY <3>0
    <3> HIDE DEF c2
    <3>3. QED
      BY <3>1, <3>2, ConfStep
  <2>5. QED
    BY <2>2, <2>3, <2>4
<1>3. e.req \in Requests \cup {NoRequest}
  BY DEF Event
<1>4. ASSUME rq2 = rq
      PROVE  AnswerStep /\ TimelyStep
  BY <1>4 DEF AnswerStep, TimelyStep, SameAnswer, rq2
<1>5. ASSUME r \in Requests
      PROVE  /\ rq[r].owner = s /\ rq[r].epoch = e.ep
             /\ Seen(req[r].grant) = "none" /\ req[r].decision = "open"
  BY <1>5 DEF SameAnswer, Untouched, Seen, KernelConstants
<1>6. ASSUME e.kind \in EffectKinds
      PROVE  r \in Requests
  BY <1>3, <1>6
<1> HIDE DEF r, rq2
<1>7. ASSUME NEW g, NEW c, NEW d, r \in Requests, Changed(rq, rq2, r, g, c, d)
      PROVE  /\ rq2[r].grant = g /\ rq2[r].decision = d /\ rq2[r].owner = s /\ rq2[r].epoch = e.ep
             /\ \A x \in Requests \ {r} : SameAnswer(req[x], rq2[x])
  BY <1>5, <1>7 DEF Changed, SameAnswer
<1>8. ASSUME r \in Requests, \A x \in Requests \ {r} : SameAnswer(req[x], rq2[x]),
             rq2[r].decision # "allow"
      PROVE  TimelyStep
  <2>1. \A x \in Requests : ~(rq2[x].decision = "allow" /\ req[x].decision # "allow")
    BY <1>8 DEF SameAnswer
  <2>2. QED
    BY <2>1 DEF TimelyStep, rq2
<1>9. ASSUME r \in Requests, Changed(rq, rq2, r, "none", "none", "deny")
      PROVE  AnswerStep /\ TimelyStep
  <2>1. /\ rq2[r].grant = "none" /\ rq2[r].decision = "deny"
        /\ \A x \in Requests \ {r} : SameAnswer(req[x], rq2[x])
    BY <1>7, <1>9
  <2>2. Answering(req[r], rq2[r])
    BY <1>5, <1>9, <2>1 DEF Answering, Seen
  <2>3. QED
    BY <1>8, <1>9, <2>1, <2>2 DEF AnswerStep, rq2
<1>10. ASSUME r \in Requests, Changed(rq, rq2, r, "pending", "live", "deny")
       PROVE  AnswerStep /\ TimelyStep
  <2>1. /\ rq2[r].grant = "pending" /\ rq2[r].decision = "deny"
        /\ \A x \in Requests \ {r} : SameAnswer(req[x], rq2[x])
    BY <1>7, <1>10
  <2>2. Answering(req[r], rq2[r])
    BY <1>5, <1>10, <2>1 DEF Answering, Seen
  <2>3. QED
    BY <1>8, <1>10, <2>1, <2>2 DEF AnswerStep, rq2
<1>11. ASSUME r \in Requests, Changed(rq, rq2, r, "auto", "none", "open")
       PROVE  AnswerStep /\ TimelyStep
  <2>1. /\ rq2[r].grant = "auto" /\ rq2[r].decision = "open"
        /\ \A x \in Requests \ {r} : SameAnswer(req[x], rq2[x])
    BY <1>7, <1>11
  <2>2. Granting(req[r], rq2[r])
    BY <1>5, <1>11, <2>1 DEF Granting, Seen
  <2>3. QED
    BY <1>8, <1>11, <2>1, <2>2 DEF AnswerStep, rq2
<1>12. ASSUME r \in Requests, Changed(rq, rq2, r, "pending", "live", "open")
       PROVE  AnswerStep /\ TimelyStep
  <2>1. /\ rq2[r].grant = "pending" /\ rq2[r].decision = "open"
        /\ \A x \in Requests \ {r} : SameAnswer(req[x], rq2[x])
    BY <1>7, <1>12
  <2>2. SameAnswer(req[r], rq2[r])
    BY <1>5, <1>12, <2>1 DEF SameAnswer, Seen
  <2>3. QED
    BY <1>8, <1>12, <2>1, <2>2 DEF AnswerStep, rq2
<1>13. ASSUME r \in Requests, e.ep = turn[s].epoch, Changed(rq, rq2, r, "auto", "none", "allow")
       PROVE  AnswerStep /\ TimelyStep
  <2>1. /\ rq2[r].grant = "auto" /\ rq2[r].decision = "allow"
        /\ rq2[r].owner = s /\ rq2[r].epoch = e.ep
        /\ \A x \in Requests \ {r} : SameAnswer(req[x], rq2[x])
    BY <1>7, <1>13
  <2>2. Granting(req[r], rq2[r])
    BY <1>5, <1>13, <2>1 DEF Granting, Seen
  <2>3. ASSUME NEW x \in Requests, rq2[x].decision = "allow", req[x].decision # "allow"
        PROVE  turn[rq2[x].owner].epoch = rq2[x].epoch /\ driver = rq2[x].owner
    <3>1. x = r
      BY <2>1, <2>3 DEF SameAnswer
    <3>2. QED
      BY <1>13, <2>1, <3>1
  <2>4. TimelyStep
    BY <2>3 DEF TimelyStep, rq2
  <2>5. QED
    BY <1>13, <2>1, <2>2, <2>4 DEF AnswerStep, rq2
<1>14. AnswerStep /\ TimelyStep
  <2>1. CASE Ignored(s, e, ep, rq)
    BY <1>4, <2>1 DEF Ignored, rq2
  <2>2. CASE Advanced(s, e, ep, rq)
    <3>1. /\ e.ep = turn[s].epoch
          /\ \/ rq2 = rq
             \/ e.kind = "effect" /\ Changed(rq, rq2, r, "auto", "none", "allow")
      BY <2>2 DEF Advanced, r, rq2
    <3>2. QED
      BY <1>4, <1>6, <1>13, <3>1 DEF EffectKinds
  <2>3. CASE Pauses(s, e, ep, rq)
    <3>1. e.kind = "effect" /\ Changed(rq, rq2, r, "pending", "live", "open")
      BY <2>3 DEF Pauses, r, rq2
    <3>2. QED
      BY <1>6, <1>12, <3>1 DEF EffectKinds
  <2>4. CASE Ends(s, e, ep, rq)
    <3>1. \/ rq2 = rq
          \/ /\ e.kind \in EffectKinds
             /\ \/ Changed(rq, rq2, r, "none", "none", "deny")
                \/ Changed(rq, rq2, r, "auto", "none", "open")
                \/ Changed(rq, rq2, r, "pending", "live", "deny")
                \/ Changed(rq, rq2, r, "pending", "live", "open")
      BY <2>4 DEF Ends, r, rq2
    <3>2. QED
      BY <1>4, <1>6, <1>9, <1>10, <1>11, <1>12, <3>1
  <2>5. QED
    BY <1>1, <2>1, <2>2, <2>3, <2>4
<1>15. QED
  BY <1>2, <1>14 DEF StepKeeps

\* The driven turn handles the oldest event of q.
LEMMA ProcessStep ==
  ASSUME KernelConstants, KernelInv, NEW s \in Sessions, driver = s,
         NEW ep \in [Sessions -> [Epochs -> EpochRecord]], NEW rq \in [Requests -> RequestRecord],
         NEW q \in Seq(Event), q # <<>>,
         SessionInv(s, turn[s], q, ep[s], rq),
         \A x \in Sessions \ {s} : SessionInv(x, turn[x], routed[x], ep[x], rq),
         AskedOf(rq), \A x \in Requests : SameAnswer(req[x], rq[x]),
         Process(s, Head(q), ep, rq),
         routed' \in [Sessions -> Seq(Event)], routed'[s] = Tail(q),
         \A x \in Sessions \ {s} : routed'[x] = routed[x],
         failures' = failures, routedCount' \in Nat, CountInv'
  PROVE  KernelInv' /\ StepKeeps
<1> DEFINE e == Head(q)
<1> DEFINE rq2 == req'
<1>1. Types /\ DriverInv /\ ~Idle(s)
  BY DEF KernelInv, DriverInv, KernelConstants
<1>2. /\ Handles(s, ep) /\ Handled(e, rq, rq2)
      /\ SessionInv(s, turn'[s], Tail(q), epoch'[s], rq2)
  BY <1>1, TakenKeeps
<1>3. /\ e \in Event
      /\ e.kind \in EffectKinds <=> e.req # NoRequest
      /\ e.req # NoRequest => rq[e.req].owner = s /\ rq[e.req].epoch = e.ep /\ Untouched(rq[e.req])
  <2>1. QueueOf(s, q, rq)
    BY DEF SessionInv
  <2>2. QED
    BY <2>1, TakenRequest
<1> HIDE DEF e
<1>4. Sane /\ StepKeeps
  <2>1. Process(s, e, ep, rq)
    BY DEF e
  <2>2. QED
    BY <1>1, <1>3, <2>1, ProcessAnswers
<1>5. /\ turn' \in [Sessions -> TurnRecord] /\ epoch' \in [Sessions -> [Epochs -> EpochRecord]]
      /\ \A x \in Sessions \ {s} : turn'[x] = turn[x] /\ epoch'[x] = ep[x]
      /\ driver' \in {driver, NoSession}
      /\ driver' # NoSession => turn'[s].epoch = turn[s].epoch
  BY <1>2 DEF Handles
<1>6. rq2 \in [Requests -> RequestRecord]
  BY <1>2 DEF Handled
<1> HIDE DEF rq2
<1>7. ASSUME NEW r \in Requests, rq[r].owner # s
      PROVE  rq2[r] = rq[r]
  BY <1>2, <1>3, <1>7 DEF Handled, KernelConstants
<1>8. ASSUME NEW x \in Sessions, x # s
      PROVE  SessionInv(x, turn[x], routed[x], ep[x], rq2)
  <2>1. SessionInv(x, turn[x], routed[x], ep[x], rq)
    BY <1>8
  <2>2. EpochsFrom(turn[x], turn[x], ep[x], ep[x])
    BY SameEpochs
  <2>3. \A r \in Requests : rq[r].owner = x => rq2[r] = rq[r]
    BY <1>7, <1>8
  <2>4. QED
    BY <2>1, <2>2, <2>3, SessionFrame
<1>9. \A x \in Sessions : SessionInv(x, turn'[x], routed'[x], epoch'[x], req')
  BY <1>2, <1>5, <1>8 DEF rq2
<1>10. AskedOf(rq2)
  <2>1. ASSUME NEW r \in Requests, rq2[r].owner = NoSession
        PROVE  Untouched(rq2[r])
    <3>1. rq[r].owner = rq2[r].owner
      <4>1. r # NoRequest
        BY DEF KernelConstants
      <4>2. CASE r = e.req
        BY <1>2, <4>1, <4>2 DEF Handled
      <4>3. CASE r # e.req
        BY <1>2, <4>3 DEF Handled
      <4>4. QED
        BY <4>2, <4>3
    <3>2. rq2[r] = rq[r]
      BY <1>7, <2>1, <3>1 DEF KernelConstants
    <3>3. QED
      BY <2>1, <3>2 DEF AskedOf
  <2>2. QED
    BY <2>1 DEF AskedOf
<1>11. Types'
  BY <1>1, <1>4, <1>5, <1>6 DEF Types, Sane, rq2
<1>12. DriverInv'
  <2>1. driver' # NoSession => ~Idle(driver)'
    BY <1>1, <1>5 DEF Idle
  <2>2. ASSUME NEW x \in failures'
        PROVE  routed'[x] = <<>> /\ Idle(x)'
    <3>1. x \in Sessions \ {s} /\ routed[x] = <<>> /\ turn[x].epoch = 0
      BY <1>1 DEF DriverInv, Types, Idle
    <3>2. QED
      BY <1>5, <3>1 DEF Idle
  <2>3. QED
    BY <2>1, <2>2 DEF DriverInv
<1>13. AskedOf(req')
  BY <1>10 DEF rq2
<1>14. QED
  BY <1>4, <1>9, <1>11, <1>12, <1>13 DEF KernelInv

\* drive_turn takes the oldest event of the backlog.
LEMMA TakeRoutedStep ==
  ASSUME KernelConstants, KernelInv, TakeRouted
  PROVE  KernelInv' /\ StepKeeps
<1>1. PICK s \in Sessions : s = driver
  BY DEF KernelInv, Types, TakeRouted
<1> DEFINE q == routed[s]
<1> DEFINE routed2 == routed'
<1>2. /\ Types /\ CountInv /\ AskedOf(req) /\ SessionInv(s, turn[s], q, epoch[s], req)
      /\ \A x \in Sessions \ {s} : SessionInv(x, turn[x], routed[x], epoch[x], req)
  BY <1>1 DEF KernelInv
<1>3. /\ routed \in [Sessions -> Seq(Event)] /\ q \in Seq(Event)
      /\ epoch \in [Sessions -> [Epochs -> EpochRecord]] /\ req \in [Requests -> RequestRecord]
  BY <1>2 DEF Types
<1>4. /\ q # <<>> /\ routed2 = [routed EXCEPT ![s] = Tail(q)] /\ routedCount' = routedCount - 1
      /\ Process(s, Head(q), epoch, req) /\ failures' = failures
  BY <1>1 DEF TakeRouted
<1>5. Tail(q) \in Seq(Event) /\ Len(Tail(q)) = Len(q) - 1 /\ Len(q) \in Nat \ {0}
  BY <1>3, <1>4, HeadTailProperties, EmptySeq, LenProperties
<1> HIDE DEF routed2
<1>6. /\ routed2 \in [Sessions -> Seq(Event)] /\ routed2[s] = Tail(q)
      /\ \A x \in Sessions \ {s} : routed2[x] = routed[x]
  BY <1>3, <1>4, <1>5
<1>7. CountInv' /\ routedCount' \in Nat
  <2>1. IsFiniteSet(Slots(routed)) /\ routedCount = Cardinality(Slots(routed))
        /\ routedCount <= RoutedCapacity /\ routedCount \in Nat
        /\ \A x \in Sessions : Len(routed[x]) <= RoutedPerSession
    BY <1>2 DEF CountInv, Waiting, Slots, Types
  <2>2. IsFiniteSet(Slots(routed2)) /\ Cardinality(Slots(routed2)) = Cardinality(Slots(routed)) - 1
    <3>1. routed[s] # <<>> /\ Len(routed2[s]) = Len(routed[s]) - 1
      BY <1>4, <1>5, <1>6
    <3>2. QED
      BY <1>3, <1>6, <2>1, <3>1, CountLess
  <2>3. Cardinality(Slots(routed2)) \in Nat
    BY <2>2, FS_CardinalityType
  <2>4. routedCount' = Cardinality(Slots(routed2)) /\ routedCount' \in Nat
        /\ routedCount' <= RoutedCapacity
    BY <1>4, <2>1, <2>2, <2>3 DEF KernelConstants
  <2>5. \A x \in Sessions : Len(routed2[x]) <= RoutedPerSession
    <3>1. Len(routed2[s]) <= RoutedPerSession
      BY <1>5, <1>6, <2>1 DEF KernelConstants
    <3>2. QED
      BY <1>6, <2>1, <3>1
  <2>6. QED
    BY <2>2, <2>4, <2>5 DEF CountInv, Waiting, Slots, routed2
<1>8. \A x \in Requests : SameAnswer(req[x], req[x])
  BY DEF SameAnswer
<1>9. QED
  BY <1>1, <1>2, <1>3, <1>4, <1>6, <1>7, <1>8, ProcessStep DEF routed2

\* drive_turn reads an event of the driven session.
LEMMA OwnEventStep ==
  ASSUME KernelConstants, KernelInv, NEW s \in Sessions, driver = s, routed[s] = <<>>,
         NEW e \in Event, NEW ep \in [Sessions -> [Epochs -> EpochRecord]],
         NEW rq \in [Requests -> RequestRecord],
         \A x \in Sessions \ {s} : SessionInv(x, turn[x], routed[x], ep[x], rq),
         SessionInv(s, turn[s], Append(routed[s], e), ep[s], rq),
         AskedOf(rq), \A x \in Requests : SameAnswer(req[x], rq[x]),
         Process(s, e, ep, rq), UNCHANGED routeVars
  PROVE  KernelInv' /\ StepKeeps
<1> DEFINE q == Append(routed[s], e)
<1>1. Types /\ CountInv /\ routed \in [Sessions -> Seq(Event)] /\ <<>> \in Seq(Event)
  BY DEF KernelInv, Types
<1>2. /\ q \in Seq(Event) /\ q # <<>> /\ Head(q) = e /\ Tail(q) = <<>>
  <2>1. q = <<e>>
    BY <1>1
  <2>2. QED
    BY <2>1
<1> HIDE DEF q
<1>3. /\ routed' = routed /\ routedCount' = routedCount /\ failures' = failures
  BY DEF routeVars
<1>4. CountInv' /\ routedCount' \in Nat
  BY <1>1, <1>3 DEF CountInv, Waiting, Types
<1>5. SessionInv(s, turn[s], q, ep[s], rq) /\ Process(s, Head(q), ep, rq)
  BY <1>2 DEF q
<1>6. routed' \in [Sessions -> Seq(Event)] /\ routed'[s] = Tail(q)
      /\ \A x \in Sessions \ {s} : routed'[x] = routed[x]
  BY <1>1, <1>2, <1>3
<1>7. QED
  BY <1>2, <1>3, <1>4, <1>5, <1>6, ProcessStep

\* route_event of a session that overflowed, or that has room.
LEMMA RouteKeptStep ==
  ASSUME KernelConstants, KernelInv, NEW s \in Sessions, driver # s,
         NEW e \in Event, NEW ep \in [Sessions -> [Epochs -> EpochRecord]],
         NEW rq \in [Requests -> RequestRecord],
         \A x \in Sessions \ {s} : SessionInv(x, turn[x], routed[x], ep[x], rq),
         SessionInv(s, turn[s], Append(routed[s], e), ep[s], rq),
         AskedOf(rq), \A x \in Requests : SameAnswer(req[x], rq[x]),
         UNCHANGED <<conf, driver, turn, failures>>, epoch' = ep, req' = rq,
         \/ s \in failures /\ routed' = routed /\ routedCount' = routedCount
         \/ /\ s \notin failures
            /\ routedCount < RoutedCapacity /\ Len(routed[s]) < RoutedPerSession
            /\ routed' = [routed EXCEPT ![s] = Append(routed[s], e)]
            /\ routedCount' = routedCount + 1
  PROVE  KernelInv' /\ StepKeeps
<1>1. Types /\ CountInv /\ DriverInv /\ routed \in [Sessions -> Seq(Event)] /\ routed[s] \in Seq(Event)
  BY DEF KernelInv, Types
<1>2. Sane /\ BypassStep
  BY <1>1, ConfSame
<1>3. AnswerStep /\ TimelyStep
  BY DEF AnswerStep, TimelyStep, SameAnswer
<1>4. AskedOf(req')
  OBVIOUS
<1>5. CASE s \in failures /\ routed' = routed /\ routedCount' = routedCount
  <2>1. routed[s] = <<>> /\ turn[s].epoch = 0
    BY <1>1, <1>5 DEF DriverInv, Idle
  <2>2. EpochsFrom(turn[s], turn[s], ep[s], ep[s])
    BY SameEpochs
  <2>3. SessionInv(s, turn[s], <<>>, ep[s], rq)
    BY <2>1, <2>2, SessionCleared
  <2>4. \A x \in Sessions : SessionInv(x, turn'[x], routed'[x], epoch'[x], req')
    BY <1>5, <2>1, <2>3
  <2>5. Types'
    BY <1>1, <1>2, <1>5 DEF Types, Sane
  <2>6. CountInv' /\ DriverInv'
    BY <1>1, <1>5 DEF CountInv, Waiting, DriverInv, Idle
  <2>7. QED
    BY <1>2, <1>3, <1>4, <2>4, <2>5, <2>6 DEF KernelInv, StepKeeps
<1>6. CASE /\ s \notin failures
           /\ routedCount < RoutedCapacity /\ Len(routed[s]) < RoutedPerSession
           /\ routed' = [routed EXCEPT ![s] = Append(routed[s], e)]
           /\ routedCount' = routedCount + 1
  <2> DEFINE q2 == Append(routed[s], e)
  <2> DEFINE routed2 == routed'
  <2>1. q2 \in Seq(Event) /\ Len(q2) = Len(routed[s]) + 1 /\ Len(routed[s]) \in Nat
    BY <1>1, AppendProperties, LenProperties
  <2>2. routed2 = [routed EXCEPT ![s] = q2]
    BY <1>6
  <2>3. SessionInv(s, turn[s], q2, ep[s], rq)
    OBVIOUS
  <2> HIDE DEF q2, routed2
  <2>4. /\ routed2 \in [Sessions -> Seq(Event)] /\ routed2[s] = q2
        /\ \A x \in Sessions \ {s} : routed2[x] = routed[x]
    BY <1>1, <2>1, <2>2
  <2>5. \A x \in Sessions : SessionInv(x, turn'[x], routed'[x], epoch'[x], req')
    BY <2>3, <2>4 DEF routed2
  <2>6. CountInv' /\ routedCount' \in Nat
    <3>1. IsFiniteSet(Slots(routed)) /\ routedCount = Cardinality(Slots(routed)) /\ routedCount \in Nat
          /\ \A x \in Sessions : Len(routed[x]) <= RoutedPerSession
      BY <1>1 DEF CountInv, Waiting, Slots, Types
    <3>2. Len(routed2[s]) = Len(routed[s]) + 1
      BY <2>1, <2>4
    <3>3. IsFiniteSet(Slots(routed2)) /\ Cardinality(Slots(routed2)) = Cardinality(Slots(routed)) + 1
      BY <1>1, <2>4, <3>1, <3>2, CountMore
    <3>4. routedCount' = Cardinality(Slots(routed2)) /\ routedCount' \in Nat
          /\ routedCount' <= RoutedCapacity
      BY <1>6, <3>1, <3>3 DEF KernelConstants
    <3>5. \A x \in Sessions : Len(routed2[x]) <= RoutedPerSession
      <4>1. Len(routed2[s]) <= RoutedPerSession
        BY <1>6, <2>1, <2>4 DEF KernelConstants
      <4>2. QED
        BY <2>4, <3>1, <4>1
    <3>6. QED
      BY <3>3, <3>4, <3>5 DEF CountInv, Waiting, Slots, routed2
  <2>7. Types'
    BY <1>1, <1>2, <2>4, <2>6 DEF Types, Sane, routed2
  <2>8. DriverInv'
    <3>1. driver' # NoSession => ~Idle(driver)'
      BY <1>1 DEF DriverInv, Idle
    <3>2. ASSUME NEW x \in failures'
          PROVE  routed'[x] = <<>> /\ Idle(x)'
      <4>1. x \in Sessions \ {s} /\ routed[x] = <<>> /\ turn[x].epoch = 0
        BY <1>1, <1>6 DEF DriverInv, Types, Idle
      <4>2. QED
        BY <2>4, <4>1 DEF Idle, routed2
    <3>3. QED
      BY <3>1, <3>2 DEF DriverInv
  <2>9. QED
    BY <1>2, <1>3, <1>4, <2>5, <2>6, <2>7, <2>8 DEF KernelInv, StepKeeps
<1>7. QED
  BY <1>5, <1>6

\* route_event of a session without room: the backlog is thrown away, a turn fails,
\* its epoch is interrupted and the request it waits on denied.
LEMMA RouteOverflowStep ==
  ASSUME KernelConstants, KernelInv, NEW s \in Sessions, driver # s,
         NEW e \in Event, NEW ep \in [Sessions -> [Epochs -> EpochRecord]],
         NEW rq \in [Requests -> RequestRecord],
         \A x \in Sessions \ {s} : SessionInv(x, turn[x], routed[x], ep[x], rq),
         SessionInv(s, turn[s], Append(routed[s], e), ep[s], rq),
         AskedOf(rq), \A x \in Requests : SameAnswer(req[x], rq[x]),
         UNCHANGED <<conf, driver>>,
         routed' = [routed EXCEPT ![s] = <<>>], routedCount' = routedCount - Len(routed[s]),
         failures' = failures \cup {s},
         \/ Idle(s) /\ epoch' = ep /\ req' = rq /\ turn' = turn
         \/ /\ ~Idle(s)
            /\ FailTurn(s, [ep EXCEPT ![s][turn[s].epoch].state =
                              IF @ = "running" THEN "interrupted" ELSE @])
            /\ \/ req' = rq
               \/ /\ turn[s].on # NoRequest /\ rq[turn[s].on].decision = "open"
                  /\ req' = Decided(rq, turn[s].on, "deny")
  PROVE  KernelInv' /\ StepKeeps
<1> DEFINE turn2 == turn'
<1> DEFINE ep2 == epoch'
<1> DEFINE rq2 == req'
<1> DEFINE routed2 == routed'
<1>1. /\ Types /\ CountInv /\ DriverInv /\ routed \in [Sessions -> Seq(Event)]
      /\ turn \in [Sessions -> TurnRecord] /\ turn[s] \in TurnRecord /\ driver \in Sessions \cup {NoSession}
      /\ <<>> \in Seq(Event)
  BY DEF KernelInv, Types
<1>2. Sane /\ BypassStep
  BY <1>1, ConfSame
<1>3. /\ turn2 \in [Sessions -> TurnRecord] /\ ep2 \in [Sessions -> [Epochs -> EpochRecord]]
      /\ turn2[s] = NoTurn \/ (turn[s].epoch = 0 /\ turn2[s] = turn[s])
      /\ \A x \in Sessions \ {s} : turn2[x] = turn[x]
      /\ \A x \in Sessions : EpochsFrom(turn[x], turn2[x], ep[x], ep2[x])
  <2>1. CASE Idle(s)
    <3>1. turn2 = turn /\ ep2 = ep
      BY <2>1
    <3> HIDE DEF turn2, ep2
    <3>2. \A x \in Sessions : EpochsFrom(turn[x], turn[x], ep[x], ep[x])
      BY SameEpochs
    <3>3. QED
      BY <1>1, <2>1, <3>1, <3>2 DEF Idle
  <2>2. CASE ~Idle(s)
    <3> DEFINE n == turn[s].epoch
    <3> DEFINE st == IF ep[s][n].state = "running" THEN "interrupted" ELSE ep[s][n].state
    <3> DEFINE ep3 == [ep EXCEPT ![s][n].state = IF @ = "running" THEN "interrupted" ELSE @]
    <3>1. n \in Epochs /\ EndsOf(turn[s], ep[s])
      BY <1>1, <2>2 DEF SessionInv, TurnRecord, Epochs, KernelConstants, Idle
    <3>2. ep[s][n] \in EpochRecord
      BY <3>1
    <3>3. ep[s][n].state \in States \ {"none"}
      BY <3>1, <3>2 DEF EndsOf, EpochRecord
    <3>4. st \in States \ {"none"}
      BY <3>3 DEF States
    <3>5. ep3 = [ep EXCEPT ![s][n].state = st]
      BY <3>1
    <3>6. /\ ep2 = ep3 \/ ep2 = [ep3 EXCEPT ![s][turn[s].epoch].ended = @ + 1]
          /\ turn2 = [turn EXCEPT ![s] = NoTurn]
      BY <2>2 DEF FailTurn
    <3>7. ep[s][n].state # "none"
      BY <3>3
    <3> HIDE DEF n, st, ep3, turn2, ep2
    <3>8. /\ ep3 \in [Sessions -> [Epochs -> EpochRecord]]
          /\ \A x \in Sessions : EpochsFrom(turn[x], turn[x], ep[x], ep3[x])
      BY <1>1, <3>1, <3>4, <3>5, <3>7, StateChanged, Zenon
    <3>9. Ending(s, ep, ep3, ep2, turn2)
      BY <3>6, <3>8 DEF Ending
    <3>10. QED
      BY <1>1, <2>2, <3>9, TurnEnded
  <2>3. QED
    BY <2>1, <2>2
<1>4. \/ rq2 = rq
      \/ /\ turn[s].on # NoRequest /\ rq[turn[s].on].decision = "open"
         /\ rq2 = Decided(rq, turn[s].on, "deny")
  OBVIOUS
<1> HIDE DEF turn2, ep2, rq2, routed2
<1> DEFINE r == turn[s].on
<1>5. /\ rq2 \in [Requests -> RequestRecord] /\ AnswerStep /\ TimelyStep
      /\ \A x \in Requests : rq[x].owner # s => rq2[x] = rq[x]
      /\ \A x \in Requests : rq2[x].owner = rq[x].owner
  <2>1. CASE rq2 = rq
    BY <2>1 DEF AnswerStep, TimelyStep, SameAnswer, rq2
  <2>2. CASE /\ turn[s].on # NoRequest /\ rq[turn[s].on].decision = "open"
             /\ rq2 = Decided(rq, turn[s].on, "deny")
    <3>1. r \in Requests
      BY <1>1, <2>2 DEF TurnRecord
    <3>2. rq[r].owner = s
      BY <2>2 DEF SessionInv, PausedOf
    <3>3. Changed(rq, rq2, r, rq[r].grant, rq[r].code, "deny")
      <4>1. "deny" \in {"open", "allow", "deny"} /\ "none" \in {"none", "pending", "auto", "allowed", "denied"}
        OBVIOUS
      <4>2. Changed(rq, Decided(rq, r, "deny"), r, rq[r].grant, rq[r].code, "deny")
        BY <3>1, <4>1, RequestUpdates, Zenon
      <4>3. QED
        BY <2>2, <4>2
    <3> HIDE DEF r
    <3>4. /\ rq2 \in [Requests -> RequestRecord] /\ \A x \in Requests \ {r} : rq2[x] = rq[x]
          /\ rq2[r].owner = rq[r].owner /\ rq2[r].grant = rq[r].grant /\ rq2[r].decision = "deny"
      BY <3>3 DEF Changed
    <3>5. \A x \in Requests \ {r} : SameAnswer(req[x], rq2[x])
      BY <3>4
    <3>6. Answering(req[r], rq2[r])
      BY <2>2, <3>1, <3>4 DEF Answering, SameAnswer, r
    <3>7. AnswerStep
      BY <3>1, <3>5, <3>6 DEF AnswerStep, rq2
    <3>8. \A x \in Requests : ~(rq2[x].decision = "allow" /\ req[x].decision # "allow")
      BY <3>4, <3>5 DEF SameAnswer
    <3>9. TimelyStep
      BY <3>8 DEF TimelyStep, rq2
    <3>10. QED
      BY <3>2, <3>4, <3>7, <3>9
  <2>3. QED
    BY <1>4, <2>1, <2>2
<1>6. /\ routed2 \in [Sessions -> Seq(Event)] /\ routed2[s] = <<>>
      /\ \A x \in Sessions \ {s} : routed2[x] = routed[x]
  BY <1>1 DEF routed2
<1>7. SessionInv(s, turn2[s], <<>>, ep2[s], rq2)
  <2>1. EpochsFrom(turn[s], turn2[s], ep[s], ep2[s]) /\ (turn2[s] = NoTurn \/ turn[s].epoch = 0)
    BY <1>3
  <2>2. QED
    BY <2>1, SessionCleared
<1>8. ASSUME NEW x \in Sessions, x # s
      PROVE  SessionInv(x, turn2[x], routed2[x], ep2[x], rq2)
  <2>1. SessionInv(x, turn[x], routed[x], ep[x], rq)
    BY <1>8
  <2>2. EpochsFrom(turn[x], turn2[x], ep[x], ep2[x])
    BY <1>3
  <2>3. \A y \in Requests : rq[y].owner = x => rq2[y] = rq[y]
    BY <1>5, <1>8
  <2>4. SessionInv(x, turn2[x], routed[x], ep2[x], rq2)
    BY <2>1, <2>2, <2>3, SessionFrame
  <2>5. QED
    BY <1>6, <1>8, <2>4
<1>9. \A x \in Sessions : SessionInv(x, turn'[x], routed'[x], epoch'[x], req')
  BY <1>6, <1>7, <1>8 DEF turn2, routed2, ep2, rq2
<1>10. AskedOf(rq2)
  BY <1>5 DEF AskedOf, KernelConstants
<1>11. CountInv' /\ routedCount' \in Nat
  <2>1. IsFiniteSet(Slots(routed)) /\ routedCount = Cardinality(Slots(routed)) /\ routedCount \in Nat
        /\ routedCount <= RoutedCapacity /\ \A x \in Sessions : Len(routed[x]) <= RoutedPerSession
    BY <1>1 DEF CountInv, Waiting, Slots, Types
  <2>2. /\ IsFiniteSet(Slots(routed2)) /\ Cardinality(Slots(routed2)) \in Nat
        /\ Cardinality(Slots(routed)) = Cardinality(Slots(routed2)) + Len(routed[s])
    BY <1>1, <1>6, <2>1, CountCleared
  <2>3. Len(routed[s]) \in Nat /\ Len(<<>>) = 0
    BY <1>1, LenProperties
  <2>4. routedCount' = Cardinality(Slots(routed2)) /\ routedCount' \in Nat
        /\ routedCount' <= RoutedCapacity
    BY <2>1, <2>2, <2>3 DEF KernelConstants
  <2>5. \A x \in Sessions : Len(routed2[x]) <= RoutedPerSession
    <3>1. Len(routed2[s]) <= RoutedPerSession
      BY <1>6, <2>3 DEF KernelConstants
    <3>2. QED
      BY <1>6, <2>1, <3>1
  <2>6. QED
    BY <2>2, <2>4, <2>5 DEF CountInv, Waiting, Slots, routed2
<1>12. Types'
  BY <1>1, <1>2, <1>3, <1>5, <1>6, <1>11 DEF Types, Sane, turn2, ep2, rq2, routed2
<1>13. DriverInv'
  <2>1. driver' # NoSession => ~Idle(driver)'
    BY <1>1, <1>3 DEF DriverInv, Idle, turn2
  <2>2. ASSUME NEW x \in failures'
        PROVE  routed2[x] = <<>> /\ turn2[x].epoch = 0
    <3>1. CASE x = s
      BY <1>3, <1>6, <3>1, NoTurnType
    <3>2. CASE x # s
      BY <1>1, <1>3, <1>6, <3>2 DEF DriverInv, Types, Idle
    <3>3. QED
      BY <3>1, <3>2
  <2>3. QED
    BY <2>1, <2>2 DEF DriverInv, Idle, turn2, routed2
<1>14. AskedOf(req')
  BY <1>10 DEF rq2
<1>15. QED
  BY <1>2, <1>5, <1>9, <1>11, <1>12, <1>13, <1>14 DEF KernelInv, StepKeeps

\* drive_turn reads an event of the port, its own or another session's.
LEMMA ProviderEventStep ==
  ASSUME KernelConstants, KernelInv, NEW s \in Sessions, NEW n \in Epochs, NEW kind \in Kinds,
         NEW r \in Requests \cup {NoRequest}, ProviderEvent(s, n, kind, r)
  PROVE  KernelInv' /\ StepKeeps
<1> DEFINE e == [ep |-> n, num |-> epoch[s][n].emitted + 1, kind |-> kind, req |-> r]
<1> DEFINE ep == Emitted(s, n, kind)
<1> DEFINE rq == Requested(r, s, n)
<1>1. /\ driver # NoSession /\ routed[driver] = <<>>
      /\ epoch[s][n].state \in {"running", "interrupted"}
      /\ kind \in EffectKinds <=> r # NoRequest
      /\ r # NoRequest => req[r].owner = NoSession
  BY DEF ProviderEvent, EffectKinds
<1>2. \/ s # driver /\ RouteEvent(s, e, ep, rq) /\ UNCHANGED <<conf, driver>>
      \/ s = driver /\ Process(s, e, ep, rq) /\ UNCHANGED routeVars
  BY DEF ProviderEvent, IsForeign
<1>3. e = [ep |-> n, num |-> epoch[s][n].emitted + 1, kind |-> kind, req |-> r]
      /\ ep = Emitted(s, n, kind) /\ rq = Requested(r, s, n)
  OBVIOUS
<1> HIDE DEF e, ep, rq
<1>4. /\ e \in Event
      /\ ep \in [Sessions -> [Epochs -> EpochRecord]] /\ rq \in [Requests -> RequestRecord]
      /\ \A x \in Sessions \ {s} : ep[x] = epoch[x] /\ SessionInv(x, turn[x], routed[x], ep[x], rq)
      /\ SessionInv(s, turn[s], Append(routed[s], e), ep[s], rq)
      /\ AskedOf(rq)
      /\ \A x \in Requests : x # r => rq[x] = req[x]
      /\ r # NoRequest => /\ rq[r].grant = req[r].grant /\ rq[r].decision = req[r].decision
                          /\ rq[r].owner = s /\ rq[r].epoch = n
  BY <1>1, <1>3, SentKeeps
<1>5. \A x \in Requests : SameAnswer(req[x], rq[x])
  BY <1>4 DEF SameAnswer, KernelConstants
<1>6. CASE s = driver /\ Process(s, e, ep, rq) /\ UNCHANGED routeVars
  BY <1>1, <1>4, <1>5, <1>6, OwnEventStep
<1>7. CASE s # driver /\ RouteEvent(s, e, ep, rq) /\ UNCHANGED <<conf, driver>>
  <2>1. CASE s \in failures
    <3>1. epoch' = ep /\ req' = rq /\ UNCHANGED <<turn, routeVars>>
      BY <1>7, <2>1 DEF RouteEvent
    <3>2. QED
      BY <1>4, <1>5, <1>7, <2>1, <3>1, RouteKeptStep DEF routeVars
  <2>2. CASE s \notin failures /\ ~(routedCount >= RoutedCapacity \/ Len(routed[s]) >= RoutedPerSession)
    <3>1. /\ routed' = [routed EXCEPT ![s] = Append(routed[s], e)]
          /\ routedCount' = routedCount + 1
          /\ epoch' = ep /\ req' = rq
          /\ UNCHANGED <<turn, failures>>
      BY <1>7, <2>2 DEF RouteEvent
    <3>2. routedCount < RoutedCapacity /\ Len(routed[s]) < RoutedPerSession
      <4>1. /\ routedCount \in Nat /\ RoutedCapacity \in Nat /\ RoutedPerSession \in Nat
            /\ routed[s] \in Seq(Event)
        BY DEF KernelInv, Types, KernelConstants
      <4>2. Len(routed[s]) \in Nat
        BY <4>1, LenProperties
      <4>3. QED
        BY <2>2, <4>1, <4>2
    <3>3. QED
      BY <1>4, <1>5, <1>7, <2>2, <3>1, <3>2, RouteKeptStep
  <2>3. CASE s \notin failures /\ (routedCount >= RoutedCapacity \/ Len(routed[s]) >= RoutedPerSession)
    <3>1. /\ routed' = [routed EXCEPT ![s] = <<>>] /\ routedCount' = routedCount - Len(routed[s])
          /\ failures' = failures \cup {s}
          /\ \/ Idle(s) /\ epoch' = ep /\ req' = rq /\ turn' = turn
             \/ /\ ~Idle(s)
                /\ FailTurn(s, [ep EXCEPT ![s][turn[s].epoch].state =
                                  IF @ = "running" THEN "interrupted" ELSE @])
                /\ \/ req' = rq
                   \/ /\ turn[s].on # NoRequest /\ rq[turn[s].on].decision = "open"
                      /\ req' = Decided(rq, turn[s].on, "deny")
      BY <1>7, <2>3, Zenon DEF RouteEvent
    <3>2. driver # s /\ UNCHANGED <<conf, driver>>
      BY <1>7
    <3>3. \A x \in Sessions \ {s} : SessionInv(x, turn[x], routed[x], ep[x], rq)
      BY <1>4
    <3>4. QED
      BY <1>4, <1>5, <3>1, <3>2, <3>3, RouteOverflowStep, Zenon
  <2>4. QED
    BY <2>1, <2>2, <2>3
<1>8. QED
  BY <1>2, <1>6, <1>7

-----------------------------------------------------------------------------
(* The theorems *)

\* KernelInit.
LEMMA KernelStarts ==
  ASSUME KernelConstants, KernelInit
  PROVE  KernelInv
<1>1. <<>> \in Seq(Event)
  OBVIOUS
<1>2. Types
  <2>1. NoConf \in ConfRecord
    BY DEF NoConf, ConfRecord, ModeSet
  <2>2. conf \in [Sessions -> ConfRecord] /\ turn \in [Sessions -> TurnRecord]
    BY <2>1, NoTurnType DEF KernelInit
  <2>3. epoch \in [Sessions -> [Epochs -> EpochRecord]]
    BY DEF KernelInit, EpochRecord, States
  <2>4. req \in [Requests -> RequestRecord]
    BY DEF KernelInit, RequestRecord, KernelConstants
  <2>5. QED
    BY <1>1, <2>2, <2>3, <2>4 DEF Types, KernelInit
<1>3. CountInv
  <2>1. \A x \in Sessions : routed[x] = <<>>
    BY DEF KernelInit
  <2>2. Waiting = {}
    BY <2>1 DEF Waiting
  <2>3. IsFiniteSet(Waiting) /\ Cardinality(Waiting) = 0
    BY <2>2, FS_EmptySet
  <2>4. routedCount = 0
    BY DEF KernelInit
  <2>5. QED
    BY <2>1, <2>3, <2>4 DEF CountInv, KernelConstants
<1>4. DriverInv
  BY DEF DriverInv, KernelInit
<1>5. AskedOf(req)
  BY DEF AskedOf, Untouched, KernelInit
<1>6. ASSUME NEW s \in Sessions
      PROVE  SessionInv(s, turn[s], routed[s], epoch[s], req)
  <2>1. turn[s] = NoTurn /\ routed[s] = <<>> /\ epoch[s] \in [Epochs -> EpochRecord]
    BY <1>2 DEF KernelInit, Types
  <2>2. EndsOf(NoTurn, epoch[s])
    <3>1. \A n \in Epochs : n # 0
      BY DEF Epochs, KernelConstants
    <3>2. \A n \in Epochs : epoch[s][n].ended = 0 /\ epoch[s][n].emitted = 0
      BY DEF KernelInit
    <3>3. QED
      BY <3>1, <3>2, NoTurnType DEF EndsOf
  <2>3. OrderOf(NoTurn, <<>>, epoch[s])
    BY NoTurnType DEF OrderOf
  <2>4. QueueOf(s, <<>>, req) /\ PausedOf(s, NoTurn, req)
    BY NoTurnType DEF QueueOf, PausedOf
  <2>5. QED
    BY <1>1, <2>1, <2>2, <2>3, <2>4, NoTurnType DEF SessionInv
<1>7. QED
  BY <1>2, <1>3, <1>4, <1>5, <1>6 DEF KernelInv

\* Every step keeps the invariant, grants and answers one request at most, lets
\* the provider go ahead in time and uses up a code for the bypass mode.
LEMMA KernelStep ==
  ASSUME KernelConstants, KernelInv, [KernelNext]_kernelVars
  PROVE  KernelInv' /\ StepKeeps
<1>1. CASE UNCHANGED kernelVars
  <2>1. UNCHANGED <<turn, driver, routeVars, epoch, req, conf>>
    BY <1>1 DEF kernelVars, routeVars
  <2>2. Sane /\ BypassStep
    BY <2>1, ConfSame DEF KernelInv
  <2>3. QED
    BY <2>1, <2>2, SettingsStep, RequestsSame
<1>2. CASE TakeRouted \/ ProviderFails \/ Shutdown
  BY <1>2, TakeRoutedStep, ProviderFailsStep, ShutdownStep, RequestsSame
<1>3. CASE \E r \in Requests : Expire(r)
  BY <1>3, ExpireStep
<1>4. ASSUME NEW s \in Sessions,
             \/ \E m \in Modes : NewSession(s, m)
             \/ \E m \in Switches : SetConfigIdle(s, m)
             \/ AttachBuzz(s) \/ RequestBypass(s) \/ ConfirmBypass(s)
      PROVE  KernelInv' /\ StepKeeps
  BY <1>4, ConfigurationStep, RequestsSame
<1>5. ASSUME NEW s \in Sessions, NEW m \in Switches, SetConfigActive(s, m)
      PROVE  KernelInv' /\ StepKeeps
  BY <1>5, SetConfigActiveStep, RequestsSame
<1>6. ASSUME NEW s \in Sessions, PromptAfterOverflow(s) \/ BeginPrompt(s) \/ Cancel(s)
      PROVE  KernelInv' /\ StepKeeps
  BY <1>6, PromptAfterOverflowStep, BeginPromptStep, CancelStep, RequestsSame
<1>7. ASSUME NEW s \in Sessions, NEW g \in {"allowed", "denied"}, ResumeApproval(s, g)
      PROVE  KernelInv' /\ StepKeeps
  BY <1>7, ResumeApprovalStep
<1>8. ASSUME NEW s \in Sessions, NEW n \in Epochs, EpochStops(s, n)
      PROVE  KernelInv' /\ StepKeeps
  BY <1>8, EpochStopsStep, RequestsSame
<1>9. ASSUME NEW s \in Sessions, NEW n \in Epochs, NEW kind \in Kinds,
             NEW r \in Requests \cup {NoRequest}, ProviderEvent(s, n, kind, r)
      PROVE  KernelInv' /\ StepKeeps
  BY <1>9, ProviderEventStep
<1>10. QED
  BY <1>1, <1>2, <1>3, <1>4, <1>5, <1>6, <1>7, <1>8, <1>9, Zenon DEF KernelNext

\* What the invariant says of turns and backlogs.
LEMMA KernelInvSays ==
  ASSUME KernelConstants, KernelInv
  PROVE  TurnsInOrder
<1>1. /\ Types /\ CountInv /\ DriverInv
      /\ \A s \in Sessions : SessionInv(s, turn[s], routed[s], epoch[s], req)
  BY DEF KernelInv
<1>2. KernelTypeOK
  <2>1. ASSUME NEW s \in Sessions
        PROVE  /\ conf[s].mode \in Modes \cup Switches \cup {"none", "FullAccess", "Bypass"}
               /\ turn[s].epoch \in 0..MaxEpochs
               /\ turn[s].on \in Requests \cup {NoRequest}
               /\ \A n \in Epochs : epoch[s][n].state \in {"none", "running", "interrupted", "stopped"}
    <3>1. conf[s] \in ConfRecord /\ turn[s] \in TurnRecord /\ \A n \in Epochs : epoch[s][n] \in EpochRecord
      BY <1>1 DEF Types
    <3>2. QED
      BY <3>1 DEF ConfRecord, ModeSet, TurnRecord, EpochRecord, States
  <2>2. QED
    BY <1>1, <2>1 DEF KernelTypeOK, Types
<1>3. RoutedCounted
  BY <1>1 DEF CountInv, DriverInv, RoutedCounted
<1>4. EventsInOrder
  <2>1. ASSUME NEW s \in Sessions
        PROVE  turn[s].log = [i \in 1..Len(turn[s].log) |-> i]
    <3> DEFINE log == turn[s].log
    <3>1. log \in Seq(Nat) /\ \A i \in 1..Len(log) : log[i] = i
      BY <1>1 DEF SessionInv, OrderOf, TurnRecord
    <3> HIDE DEF log
    <3>2. log = [i \in 1..Len(log) |-> log[i]]
      BY <3>1
    <3>3. log = [i \in 1..Len(log) |-> i]
      BY <3>1, <3>2
    <3>4. QED
      BY <3>3 DEF log
  <2>2. QED
    BY <2>1 DEF EventsInOrder
<1>5. TurnEndsOnce
  BY <1>1 DEF SessionInv, EndsOf, TurnEndsOnce
<1>6. QED
  BY <1>2, <1>3, <1>4, <1>5 DEF TurnsInOrder

\* The inductive invariant holds in every state of the kernel actor.
THEOREM KernelInvariant ==
  ASSUME KernelConstants
  PROVE  KernelSpec => []KernelInv
<1>1. KernelInit => KernelInv
  BY KernelStarts
<1>2. KernelInv /\ [KernelNext]_kernelVars => KernelInv'
  BY KernelStep
<1>3. QED
  BY <1>1, <1>2, PTL DEF KernelSpec

\* For any number of sessions, requests, turns and events, and any size of the
\* backlogs: a turn handles the events of its epoch once each and in order, the
\* events that wait are counted and bounded, and the journal holds one end of a
\* turn at most (drive_turn, route_event).
THEOREM TurnsAreInOrder ==
  ASSUME KernelConstants
  PROVE  KernelSpec => []TurnsInOrder
<1>1. KernelInv => TurnsInOrder
  BY KernelInvSays
<1>2. QED
  BY <1>1, KernelInvariant, PTL

\* The kernel implements the exact approval of effects, tells the provider to go
\* ahead only on behalf of the turn a request belongs to, and enters the bypass
\* mode only by using up a code (handle_effect, resume_approval, confirm_bypass).
THEOREM ApprovalsAreExact ==
  ASSUME KernelConstants
  PROVE  KernelSpec => ApprovalIsExact
<1>1. KernelInit => Approval!ApprovalInit
  BY DEF KernelInit, Approval!ApprovalInit
<1>2. KernelInv /\ KernelInv' /\ [KernelNext]_kernelVars =>
        [Approval!ApprovalNext]_(Approval!approvalVars)
  <2>1. KernelInv /\ KernelInv' => Types /\ Types'
    BY DEF KernelInv
  <2>2. QED
    BY <2>1, KernelStep, AnswerStepRefines DEF StepKeeps
<1>3. KernelInv /\ [KernelNext]_kernelVars =>
        [\A r \in Requests :
           req'[r].decision = "allow" /\ req[r].decision # "allow" =>
             LET s == req'[r].owner IN
             /\ turn[s].epoch = req'[r].epoch
             /\ driver = s \/ (driver = NoSession /\ turn[s].on = r)]_kernelVars
  BY KernelStep DEF StepKeeps, TimelyStep
<1>4. KernelInv /\ [KernelNext]_kernelVars =>
        [\A s \in Sessions :
           conf'[s].mode = "Bypass" /\ conf[s].mode # "Bypass" =>
             conf'[s].consumed > conf[s].consumed]_kernelVars
  BY KernelStep DEF StepKeeps, BypassStep
<1>5. QED
  BY <1>1, <1>2, <1>3, <1>4, KernelInvariant, PTL
     DEF KernelSpec, ApprovalIsExact, Approval!ApprovalSpec, AllowIsTimely, BypassNeedsCode

=============================================================================
