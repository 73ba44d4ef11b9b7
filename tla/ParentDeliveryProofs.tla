------------------------ MODULE ParentDeliveryProofs ------------------------
(***************************************************************************)
(* Theorems about ParentDelivery, for every finite set of deliveries, every *)
(* ledger capacity and all bounds: its types, that a delivery is queued     *)
(* once, that no unacknowledged consumption is evicted, that it implements  *)
(* ParentNotice, and that an acknowledged consumption is durable.           *)
(***************************************************************************)
EXTENDS ParentDelivery, SequenceFacts, FiniteSetTheorems, TLAPS

-----------------------------------------------------------------------------
(* The inductive invariant.                                                *)

Shown == {d \in Deliveries : seen[d] > 0}

Distinct(s) == \A i, j \in DOMAIN s : s[i].id = s[j].id => i = j

\* A ledger is within its capacity and records what was shown, once.
LedgerOK(l, sh) ==
    /\ l \in Seq(Consumed) /\ Len(l) <= LedgerCapacity
    /\ Distinct(l) /\ Ids(l) \subseteq sh

SnapOK(s, sh) ==
    s # None => /\ s \in Stored
                /\ Distinct(s.queue)
                /\ LedgerOK(s.ledger, sh)

Holds(s, d) == s # None /\ d \in Ids(s.ledger)

\* The delivery for which the dispatcher waits in persist, or None.
Addressee == IF disp.stage = "persisting" THEN disp.at ELSE None

\* A write that acknowledges, or answers AlreadyConsumed, carries the consumption.
WriteOK(x, sh, a) ==
    /\ x \in Write /\ SnapOK(x.snap, sh)
    /\ x.to = "submission" => x.id \in Deliveries
    /\ x.to = "ack" => x.id \in Deliveries /\ Holds(x.snap, x.id)
    /\ x.to = "reply" =>
          /\ x.id = a /\ x.id \in Deliveries
          /\ x.result \in {"Inserted", "AlreadyPresent", "AlreadyConsumed"}
          /\ x.result = "AlreadyConsumed" => Holds(x.snap, x.id)

OneReply(ws) == \A i, j \in DOMAIN ws : ws[i].to = "reply" /\ ws[j].to = "reply" => i = j

WritesOK(ws, sh, a) ==
    /\ ws \in Seq(Write)
    /\ \A i \in DOMAIN ws : WriteOK(ws[i], sh, a)
    /\ OneReply(ws)

AgentState == [pc : {"idle", "turn", "ending"}, cur : BOOLEAN]
Event      == [kind : {"consumed", "done"}, id : Deliveries \cup {None}, cur : BOOLEAN]
Completed  == [id : Deliveries, ok : BOOLEAN, cur : BOOLEAN]
Dispatcher == [stage : {"idle", "batch", "offered", "persisting", "replied"},
               todo : SUBSET Deliveries, at : Deliveries \cup {None},
               result : Results \cup {None}]

EventsOK(es, sh) ==
    /\ es \in Seq(Event)
    /\ \A i \in DOMAIN es : es[i].kind = "consumed" => es[i].id \in sh

Types ==
    /\ outbox \in [Deliveries -> OutboxStates]
    /\ live \in BOOLEAN /\ streaming \in BOOLEAN
    /\ agent \in AgentState /\ persisted \in Seq(Completed)
    /\ acked \subseteq Deliveries /\ faults \in 0..MaxFaults
    /\ seen \in [Deliveries -> 0..MaxSeen]

\* A session that is not open has no queue, no ledger and no agent at work.
Closed == ~live => queue = <<>> /\ ledger = <<>> /\ agent.pc = "idle" /\ events = <<>>

AllDrops(ws)  == \A i \in DOMAIN ws : ws[i].snap = None
NoDrops(ws)   == \A i \in DOMAIN ws : ws[i].snap # None
DropsLast(ws) == \A i, j \in DOMAIN ws : ws[i].snap = None /\ i <= j => ws[j].snap = None

\* Nothing is written after a deletion, and a deleted session stays deleted.
Deletion ==
    /\ DropsLast(writes)
    /\ live => NoDrops(writes)
    /\ disk = None => ~live /\ unsaved = None /\ AllDrops(writes)

QueueInv  == queue \in Seq(Item) /\ Distinct(queue)
LedgerInv == LedgerOK(ledger, Shown)
DiskInv   == SnapOK(disk, Shown) /\ SnapOK(unsaved, Shown)
WritesInv == WritesOK(writes, Shown, Addressee) /\ Len(writes) <= MaxWrites
EventsInv == EventsOK(events, Shown)
AcksInv   == acks \subseteq Shown

\* What the dispatcher is told of a consumption or a deletion is true.
DispInv ==
    /\ disp \in Dispatcher
    /\ disp.stage \in {"offered", "persisting", "replied"} => disp.at \in Deliveries
    /\ disp.stage = "replied" =>
          /\ disp.result = "AlreadyConsumed" => disp.at \in Shown
          /\ disp.result = "Unavailable" => disk = None

Inv ==
    /\ Types /\ Closed /\ Deletion /\ QueueInv /\ LedgerInv /\ DiskInv /\ WritesInv
    /\ EventsInv /\ AcksInv /\ DispInv

-----------------------------------------------------------------------------
(* Sequences.                                                              *)

\* Without one entry distinct ids stay distinct, and no id is new.
LEMMA RemoveAtDistinct ==
    ASSUME NEW S, NEW s \in Seq(S), NEW i \in DOMAIN s
    PROVE  /\ Distinct(s) => Distinct(RemoveAt(s, i))
           /\ Ids(RemoveAt(s, i)) \subseteq Ids(s)
           /\ \A k \in DOMAIN s : k # i => s[k].id \in Ids(RemoveAt(s, i))
<1> DEFINE t == RemoveAt(s, i)
<1>1. /\ t \in Seq(S) /\ Len(t) = Len(s) - 1 /\ i \in 1..Len(s) /\ Len(s) \in Nat
      /\ \A k \in 1..(Len(s) - 1) : t[k] = IF k < i THEN s[k] ELSE s[k + 1]
    BY RemoveAtFacts
<1> HIDE DEF t
<1>2. DOMAIN t = 1..(Len(s) - 1) /\ DOMAIN s = 1..Len(s)
    BY <1>1
<1>3. ASSUME Distinct(s), NEW j \in DOMAIN t, NEW k \in DOMAIN t, t[j].id = t[k].id
      PROVE  j = k
    <2> DEFINE jj == IF j < i THEN j ELSE j + 1
               kk == IF k < i THEN k ELSE k + 1
    <2>1. jj \in DOMAIN s /\ kk \in DOMAIN s /\ t[j] = s[jj] /\ t[k] = s[kk]
        BY <1>1, <1>2
    <2>2. jj = kk
        BY <1>3, <2>1 DEF Distinct
    <2> QED
        BY <1>1, <1>2, <2>2
<1>4. ASSUME NEW k \in DOMAIN t
      PROVE  t[k].id \in Ids(s)
    <2> DEFINE kk == IF k < i THEN k ELSE k + 1
    <2>1. kk \in DOMAIN s /\ t[k] = s[kk]
        BY <1>1, <1>2
    <2> QED
        BY <2>1 DEF Ids
<1>5. ASSUME NEW k \in DOMAIN s, k # i
      PROVE  s[k].id \in Ids(t)
    <2> DEFINE kk == IF k < i THEN k ELSE k - 1
    <2>1. kk \in DOMAIN t /\ t[kk] = s[k]
        BY <1>1, <1>2, <1>5
    <2> QED
        BY <2>1 DEF Ids
<1>6. Distinct(s) => Distinct(t)
    BY <1>3 DEF Distinct
<1>7. Ids(t) \subseteq Ids(s)
    BY <1>4 DEF Ids
<1> QED
    BY <1>5, <1>6, <1>7 DEF t

\* A new id may be appended.
LEMMA AppendDistinct ==
    ASSUME NEW S, NEW s \in Seq(S), NEW x \in S
    PROVE  /\ Append(s, x) \in Seq(S) /\ Len(Append(s, x)) = Len(s) + 1
           /\ Distinct(s) /\ x.id \notin Ids(s) => Distinct(Append(s, x))
           /\ Ids(Append(s, x)) = Ids(s) \cup {x.id}
<1> DEFINE t == Append(s, x)
<1>1. /\ t \in Seq(S) /\ Len(t) = Len(s) + 1 /\ Len(s) \in Nat
      /\ DOMAIN t = 1..(Len(s) + 1) /\ DOMAIN s = 1..Len(s)
      /\ t[Len(s) + 1] = x /\ \A k \in 1..Len(s) : t[k] = s[k]
    OBVIOUS
<1> HIDE DEF t
<1>2. ASSUME Distinct(s), x.id \notin Ids(s)
      PROVE  Distinct(t)
    BY <1>1, <1>2 DEF Distinct, Ids
<1>3. Ids(t) = Ids(s) \cup {x.id}
    BY <1>1 DEF Ids
<1> QED
    BY <1>1, <1>2, <1>3 DEF t

\* A snapshot of a well-formed queue and ledger is well formed.
LEMMA SnapshotFacts ==
    ASSUME NEW q \in Seq(Item), NEW l, NEW sh, Distinct(q), LedgerOK(l, sh)
    PROVE  /\ SnapshotOf(q, l) \in Stored /\ SnapshotOf(q, l) # None
           /\ SnapshotOf(q, l).ledger = l
           /\ SnapOK(SnapshotOf(q, l), sh)
<1> DEFINE p == [i \in DOMAIN q |-> [id |-> q[i].id, kind |-> q[i].kind]]
<1>1. \A i \in DOMAIN q : q[i] \in Item
    OBVIOUS
<1>2. p \in Seq([id : Deliveries, kind : Kinds]) /\ DOMAIN p = DOMAIN q
    <2>1. \A i \in 1..Len(q) : q[i].id \in Deliveries /\ q[i].kind \in Kinds
        BY <1>1 DEF Item
    <2>2. p = [i \in 1..Len(q) |-> [id |-> q[i].id, kind |-> q[i].kind]] /\ Len(q) \in Nat
        OBVIOUS
    <2> QED
        BY <2>1, <2>2
<1>3. Distinct(p)
    BY <1>2 DEF Distinct
<1>4. SnapshotOf(q, l) = [queue |-> p, ledger |-> l]
    BY DEF SnapshotOf
<1> HIDE DEF p
<1>5. SnapshotOf(q, l) \in Stored
    BY <1>2, <1>4 DEF Stored, LedgerOK
<1> QED
    BY <1>3, <1>4, <1>5, NoneAssumption DEF SnapOK

\* Nothing shown is forgotten, so what was well formed stays so.
LEMMA SnapMonotone ==
    ASSUME NEW s, NEW sh, NEW th, sh \subseteq th, SnapOK(s, sh)
    PROVE  SnapOK(s, th)
BY DEF SnapOK, LedgerOK

\* A write that is right stays right as more deliveries are shown.
LEMMA WritesMonotone ==
    ASSUME NEW ws, NEW sh, NEW th, NEW a, sh \subseteq th, WritesOK(ws, sh, a)
    PROVE  WritesOK(ws, th, a)
BY SnapMonotone DEF WritesOK, WriteOK

\* While the dispatcher waits for no write, no write answers it.
LEMMA WritesFree ==
    ASSUME NEW ws, NEW sh, NEW a, WritesOK(ws, sh, None)
    PROVE  WritesOK(ws, sh, a) /\ \A i \in DOMAIN ws : ws[i].to # "reply"
BY NoneAssumption DEF WritesOK, WriteOK

\* A channel of right writes takes one more, if at most one is an answer.
LEMMA WritesAppend ==
    ASSUME NEW ws, NEW sh, NEW a, NEW x, WritesOK(ws, sh, a), WriteOK(x, sh, a),
           x.to = "reply" => \A i \in DOMAIN ws : ws[i].to # "reply"
    PROVE  WritesOK(Append(ws, x), sh, a)
<1>1. ws \in Seq(Write) /\ x \in Write
    BY DEF WritesOK, WriteOK
<1> DEFINE t == Append(ws, x)
<1>2. /\ t \in Seq(Write) /\ Len(ws) \in Nat
      /\ DOMAIN ws = 1..Len(ws) /\ DOMAIN t = 1..(Len(ws) + 1)
      /\ t[Len(ws) + 1] = x /\ \A k \in 1..Len(ws) : t[k] = ws[k]
    BY <1>1, AppendEntries
<1> HIDE DEF t
<1>3. \A i \in DOMAIN t : i = Len(ws) + 1 \/ i \in DOMAIN ws
    BY <1>2
<1>4. \A i \in DOMAIN t : WriteOK(t[i], sh, a)
    BY <1>2, <1>3 DEF WritesOK
<1>5. OneReply(t)
    BY <1>2, <1>3 DEF WritesOK, OneReply
<1> QED
    BY <1>2, <1>4, <1>5 DEF WritesOK, t

\* Taking the first write: the rest is right, and waits for no answer once that is gone.
LEMMA WritesTail ==
    ASSUME NEW ws, NEW sh, NEW a, WritesOK(ws, sh, a), ws # <<>>
    PROVE  /\ WriteOK(Head(ws), sh, a)
           /\ WritesOK(Tail(ws), sh, IF Head(ws).to = "reply" THEN None ELSE a)
<1>1. ws \in Seq(Write)
    BY DEF WritesOK
<1> DEFINE t == Tail(ws)
           b == IF Head(ws).to = "reply" THEN None ELSE a
<1>2. /\ t \in Seq(Write) /\ 1 \in DOMAIN ws /\ Head(ws) = ws[1]
      /\ DOMAIN t \subseteq Nat \ {0}
      /\ \A k \in DOMAIN t : t[k] = ws[k + 1] /\ k + 1 \in DOMAIN ws
    BY <1>1, TailEntries
<1> HIDE DEF t
<1>3. \A k \in DOMAIN t : WriteOK(ws[k + 1], sh, a) /\ t[k] = ws[k + 1]
    BY <1>2 DEF WritesOK
<1>4. Head(ws).to = "reply" => \A k \in DOMAIN t : t[k].to # "reply"
    <2> SUFFICES ASSUME Head(ws).to = "reply", NEW k \in DOMAIN t, t[k].to = "reply"
                 PROVE  FALSE
        OBVIOUS
    <2>1. k + 1 = 1
        BY <1>2 DEF WritesOK, OneReply
    <2> QED
        BY <1>2, <2>1
<1>5. \A k \in DOMAIN t : WriteOK(t[k], sh, b)
    <2> SUFFICES ASSUME NEW k \in DOMAIN t
                 PROVE  WriteOK(t[k], sh, b)
        OBVIOUS
    <2>1. WriteOK(t[k], sh, a)
        BY <1>3
    <2>2. CASE Head(ws).to = "reply"
        BY <1>4, <2>1, <2>2 DEF WriteOK
    <2>3. CASE Head(ws).to # "reply"
        BY <2>1, <2>3
    <2> QED
        BY <2>2, <2>3
<1>6. OneReply(t)
    <2> SUFFICES ASSUME NEW j \in DOMAIN t, NEW k \in DOMAIN t,
                        t[j].to = "reply", t[k].to = "reply"
                 PROVE  j = k
        BY DEF OneReply
    <2>1. j + 1 = k + 1
        BY <1>2 DEF WritesOK, OneReply
    <2> QED
        BY <1>2, <2>1
<1>7. WriteOK(Head(ws), sh, a)
    BY <1>2 DEF WritesOK
<1> QED
    BY <1>2, <1>5, <1>6, <1>7 DEF WritesOK, t

\* A new run id leaves the writes as they are, but for the run they belong to.
LEMMA WritesAge ==
    ASSUME NEW ws, NEW sh, NEW a, WritesOK(ws, sh, a)
    PROVE  /\ WritesOK(Age(ws), sh, a) /\ Len(Age(ws)) = Len(ws)
           /\ DOMAIN Age(ws) = DOMAIN ws
           /\ \A i \in DOMAIN ws : Age(ws)[i].snap = ws[i].snap /\ Age(ws)[i].to = ws[i].to
<1>1. ws \in Seq(Write)
    BY DEF WritesOK
<1> DEFINE t == Age(ws)
<1>2. /\ DOMAIN t = DOMAIN ws
      /\ \A i \in DOMAIN ws : /\ t[i] = [ws[i] EXCEPT !.cur = FALSE]
                                /\ ws[i] \in Write
    BY <1>1 DEF Age
<1>3. \A i \in DOMAIN ws : /\ t[i] \in Write /\ t[i].snap = ws[i].snap /\ t[i].to = ws[i].to
                            /\ t[i].id = ws[i].id /\ t[i].result = ws[i].result
    BY <1>2 DEF Write
<1>4. t \in Seq(Write) /\ Len(t) = Len(ws)
    BY <1>1, <1>3 DEF Age
<1> HIDE DEF t
<1>5. \A i \in DOMAIN t : WriteOK(t[i], sh, a)
    BY <1>2, <1>3 DEF WritesOK, WriteOK
<1>6. OneReply(t)
    BY <1>2, <1>3 DEF WritesOK, OneReply
<1> QED
    BY <1>2, <1>3, <1>4, <1>5, <1>6 DEF WritesOK, t

\* A new run id leaves the agent's events as they are, but for the run they belong to ...
LEMMA EventsAge ==
    ASSUME NEW es, NEW sh, EventsOK(es, sh)
    PROVE  EventsOK(Age(es), sh)
<1>1. /\ es \in Seq(Event) /\ DOMAIN Age(es) = DOMAIN es
      /\ \A i \in DOMAIN es : Age(es)[i] = [es[i] EXCEPT !.cur = FALSE] /\ es[i] \in Event
    BY DEF EventsOK, Age
<1>2. \A i \in DOMAIN es : /\ Age(es)[i] \in Event /\ Age(es)[i].kind = es[i].kind
                            /\ Age(es)[i].id = es[i].id
    BY <1>1 DEF Event
<1>3. Age(es) \in Seq(Event)
    BY <1>1, <1>2 DEF Age
<1> QED
    BY <1>1, <1>2, <1>3 DEF EventsOK

\* ... and so the queue ...
LEMMA QueueAge ==
    ASSUME NEW q \in Seq(Item), Distinct(q)
    PROVE  Age(q) \in Seq(Item) /\ Distinct(Age(q)) /\ Ids(Age(q)) = Ids(q)
<1>1. /\ DOMAIN Age(q) = DOMAIN q
      /\ \A i \in DOMAIN q : Age(q)[i] = [q[i] EXCEPT !.cur = FALSE] /\ q[i] \in Item
    BY DEF Age
<1>2. \A i \in DOMAIN q : Age(q)[i] \in Item /\ Age(q)[i].id = q[i].id
    BY <1>1 DEF Item
<1>3. Age(q) \in Seq(Item)
    BY <1>1, <1>2 DEF Age
<1> QED
    BY <1>1, <1>2, <1>3 DEF Distinct, Ids

\* ... and the completions.
LEMMA CompletedAge ==
    ASSUME NEW ps \in Seq(Completed)
    PROVE  Age(ps) \in Seq(Completed)
<1>1. \A i \in DOMAIN ps : ps[i] \in Completed
    OBVIOUS
<1>2. \A i \in DOMAIN ps : [ps[i] EXCEPT !.cur = FALSE] \in Completed
    BY <1>1 DEF Completed
<1> QED
    BY <1>2 DEF Age

\* record_consumed_run_delivery keeps the ledger well formed, records the delivery
\* and evicts nothing that is unacknowledged.
LEMMA RecordedFacts ==
    ASSUME NEW l, NEW sh, NEW d, LedgerOK(l, sh), d \in Deliveries, d \in sh,
           NEW r \in Recorded(l, d)
    PROVE  /\ LedgerOK(r, sh) /\ d \in Ids(r)
           /\ \A i \in DOMAIN l : ~l[i].acknowledged => l[i].id \in Ids(r)
           /\ Len(l) < LedgerCapacity => Ids(l) \subseteq Ids(r)
<1> DEFINE new == [id |-> d, acknowledged |-> FALSE]
<1>1. new \in Consumed /\ new.id = d /\ l \in Seq(Consumed) /\ Len(l) \in Nat
    BY DEF Consumed, LedgerOK
<1>2. CASE d \in Ids(l)
    BY <1>2 DEF Recorded, Ids
<1>3. CASE d \notin Ids(l) /\ Len(l) < LedgerCapacity
    <2>1. r = Append(l, new)
        BY <1>3 DEF Recorded
    <2> HIDE DEF new
    <2>2. /\ r \in Seq(Consumed) /\ Len(r) = Len(l) + 1 /\ Distinct(r)
          /\ Ids(r) = Ids(l) \cup {d}
        BY <1>1, <1>3, <2>1, AppendDistinct DEF LedgerOK
    <2>3. Len(r) <= LedgerCapacity
        BY <1>1, <1>3, <2>2, DeliveryAssumption
    <2> QED
        BY <2>2, <2>3 DEF LedgerOK, Ids
<1>4. CASE d \notin Ids(l) /\ ~(Len(l) < LedgerCapacity)
    <2>1. PICK i \in DOMAIN l : l[i].acknowledged /\ r = Append(RemoveAt(l, i), new)
        BY <1>4 DEF Recorded
    <2> DEFINE t == RemoveAt(l, i)
    <2>2. /\ t \in Seq(Consumed) /\ Len(t) = Len(l) - 1 /\ Distinct(t) /\ Ids(t) \subseteq Ids(l)
          /\ \A k \in DOMAIN l : k # i => l[k].id \in Ids(t)
        BY <1>1, RemoveAtFacts, RemoveAtDistinct DEF LedgerOK
    <2> HIDE DEF new, t
    <2>3. /\ r \in Seq(Consumed) /\ Len(r) = Len(t) + 1 /\ Distinct(r)
          /\ Ids(r) = Ids(t) \cup {d}
        <3>1. d \notin Ids(t) /\ r = Append(t, new)
            BY <1>4, <2>1, <2>2 DEF t
        <3> QED
            BY <1>1, <2>2, <3>1, AppendDistinct
    <2>4. Len(r) <= LedgerCapacity
        BY <1>1, <2>2, <2>3 DEF LedgerOK
    <2>5. \A k \in DOMAIN l : ~l[k].acknowledged => l[k].id \in Ids(r)
        BY <2>1, <2>2, <2>3
    <2> QED
        BY <1>4, <2>2, <2>3, <2>4, <2>5 DEF LedgerOK
<1> QED
    BY <1>2, <1>3, <1>4

\* mark_run_delivery_acknowledged changes no id.
LEMMA MarkedFacts ==
    ASSUME NEW l, NEW sh, NEW d, LedgerOK(l, sh)
    PROVE  LedgerOK(Marked(l, d), sh) /\ Ids(Marked(l, d)) = Ids(l)
<1> DEFINE m == Marked(l, d)
<1>1. l \in Seq(Consumed) /\ DOMAIN l = 1..Len(l) /\ Len(l) \in Nat
    BY DEF LedgerOK
<1>2. m = [i \in 1..Len(l) |-> IF l[i].id = d THEN [l[i] EXCEPT !.acknowledged = TRUE]
                                ELSE l[i]]
    BY <1>1 DEF Marked
<1> HIDE DEF m
<1>3. \A i \in 1..Len(l) : m[i] \in Consumed /\ m[i].id = l[i].id
    <2>1. ASSUME NEW c \in Consumed
          PROVE  [c EXCEPT !.acknowledged = TRUE] \in Consumed
                 /\ [c EXCEPT !.acknowledged = TRUE].id = c.id
        BY DEF Consumed
    <2>2. ASSUME NEW i \in 1..Len(l)
          PROVE  m[i] \in Consumed /\ m[i].id = l[i].id
        <3>1. l[i] \in Consumed
            BY <1>1
        <3>2. m[i] = IF l[i].id = d THEN [l[i] EXCEPT !.acknowledged = TRUE] ELSE l[i]
            BY <1>2
        <3> QED
            BY <2>1, <3>1, <3>2
    <2> QED
        BY <2>2
<1>4. m \in Seq(Consumed) /\ Len(m) = Len(l) /\ DOMAIN m = 1..Len(l)
    <2>1. m = [i \in 1..Len(l) |-> m[i]]
        BY <1>2
    <2> QED
        BY <1>1, <1>3, <2>1
<1>5. Distinct(m) /\ Ids(m) = Ids(l)
    BY <1>1, <1>3, <1>4 DEF LedgerOK, Distinct, Ids
<1> QED
    BY <1>4, <1>5 DEF LedgerOK, m

\* contains_run_delivery and has_consumed_run_delivery.
LEMMA InsertResultFacts ==
    ASSUME NEW q, NEW l, NEW d
    PROVE  /\ InsertResult(q, l, d) \in {"Inserted", "AlreadyPresent", "AlreadyConsumed"}
           /\ InsertResult(q, l, d) = "AlreadyConsumed" => d \in Ids(l)
           /\ InsertResult(q, l, d) = "Inserted" => d \notin Ids(q)
<1>1. CASE d \in Ids(l)
    BY <1>1 DEF InsertResult
<1>2. CASE d \in Ids(q) \ Ids(l)
    BY <1>2 DEF InsertResult
<1>3. CASE d \notin Ids(q) \cup Ids(l)
    BY <1>3 DEF InsertResult
<1> QED
    BY <1>1, <1>2, <1>3

\* A plain save.
LEMMA SaveOK ==
    ASSUME NEW q \in Seq(Item), NEW l, NEW sh, NEW a, Distinct(q), LedgerOK(l, sh)
    PROVE  /\ WriteOK(Save(q, l), sh, a)
           /\ Save(q, l).snap = SnapshotOf(q, l) /\ Save(q, l).to = "nobody"
<1>1. SnapshotOf(q, l) \in Stored /\ SnapOK(SnapshotOf(q, l), sh)
    BY SnapshotFacts
<1>2. Save(q, l) \in Write
    BY <1>1 DEF Save, Put, Write
<1> QED
    BY <1>1, <1>2 DEF Save, Put, WriteOK

\* The answer to the dispatcher that waits for d.
LEMMA ReplyOK ==
    ASSUME NEW s, NEW sh, NEW d \in Deliveries, NEW r, s \in Stored, s # None, SnapOK(s, sh),
           r \in {"Inserted", "AlreadyPresent", "AlreadyConsumed"},
           r = "AlreadyConsumed" => d \in Ids(s.ledger)
    PROVE  /\ WriteOK(Reply(s, d, r), sh, d)
           /\ Reply(s, d, r).snap = s /\ Reply(s, d, r).to = "reply"
<1>1. Reply(s, d, r) \in Write
    BY DEF Reply, Write, Results
<1> QED
    BY <1>1 DEF Reply, WriteOK, Holds

\* Deletions in the writer's channel.
LEMMA DropsFacts ==
    ASSUME NEW ws \in Seq(Write)
    PROVE  /\ NoDrops(ws) => DropsLast(ws)
           /\ \A x \in Write : NoDrops(ws) /\ x.snap # None => NoDrops(Append(ws, x))
           /\ \A x \in Write : DropsLast(ws) /\ x.snap = None => DropsLast(Append(ws, x))
           /\ ws # <<>> => /\ DropsLast(ws) => DropsLast(Tail(ws))
                           /\ NoDrops(ws) => NoDrops(Tail(ws)) /\ Head(ws).snap # None
                           /\ AllDrops(ws) => AllDrops(Tail(ws)) /\ Head(ws).snap = None
                           /\ DropsLast(ws) /\ Head(ws).snap = None => AllDrops(Tail(ws))
<1>1. NoDrops(ws) => DropsLast(ws)
    BY DEF NoDrops, DropsLast
<1>2. ASSUME NEW x \in Write
      PROVE  /\ NoDrops(ws) /\ x.snap # None => NoDrops(Append(ws, x))
             /\ DropsLast(ws) /\ x.snap = None => DropsLast(Append(ws, x))
    <2> DEFINE t == Append(ws, x)
    <2>1. /\ t \in Seq(Write) /\ Len(ws) \in Nat
          /\ DOMAIN ws = 1..Len(ws) /\ DOMAIN t = 1..(Len(ws) + 1)
          /\ t[Len(ws) + 1] = x /\ \A k \in 1..Len(ws) : t[k] = ws[k]
        BY AppendEntries
    <2> HIDE DEF t
    <2>2. NoDrops(ws) /\ x.snap # None => NoDrops(t)
        BY <2>1 DEF NoDrops
    <2>3. DropsLast(ws) /\ x.snap = None => DropsLast(t)
        BY <2>1 DEF DropsLast
    <2> QED
        BY <2>2, <2>3 DEF t
<1>3. ASSUME ws # <<>>
      PROVE  /\ DropsLast(ws) => DropsLast(Tail(ws))
             /\ NoDrops(ws) => NoDrops(Tail(ws)) /\ Head(ws).snap # None
             /\ AllDrops(ws) => AllDrops(Tail(ws)) /\ Head(ws).snap = None
             /\ DropsLast(ws) /\ Head(ws).snap = None => AllDrops(Tail(ws))
    <2> DEFINE t == Tail(ws)
               h == Head(ws)
    <2>1. /\ 1 \in DOMAIN ws /\ h = ws[1] /\ DOMAIN t \subseteq Nat \ {0}
          /\ \A k \in DOMAIN t : t[k] = ws[k + 1] /\ k + 1 \in DOMAIN ws
        BY <1>3, TailEntries
    <2> HIDE DEF t, h
    <2>2. DropsLast(ws) => DropsLast(t)
        BY <2>1 DEF DropsLast
    <2>3. NoDrops(ws) => NoDrops(t) /\ h.snap # None
        BY <2>1 DEF NoDrops
    <2>4. AllDrops(ws) => AllDrops(t) /\ h.snap = None
        BY <2>1 DEF AllDrops
    <2>5. DropsLast(ws) /\ h.snap = None => AllDrops(t)
        BY <2>1 DEF DropsLast, AllDrops
    <2> QED
        BY <2>2, <2>3, <2>4, <2>5 DEF t, h
<1> QED
    BY <1>1, <1>2, <1>3

-----------------------------------------------------------------------------
(* The steps of the dispatcher, and what a step leaves alone.              *)

\* A part of the invariant holds on while its variables do not change.
LEMMA Frame ==
    ASSUME Inv, UNCHANGED seen
    PROVE  /\ Shown' = Shown
           /\ UNCHANGED queue => QueueInv'
           /\ UNCHANGED ledger => LedgerInv'
           /\ UNCHANGED <<disk, unsaved>> => DiskInv'
           /\ UNCHANGED writes /\ Addressee' = Addressee => WritesInv'
           /\ UNCHANGED events => EventsInv'
           /\ UNCHANGED acks => AcksInv'
           /\ UNCHANGED <<disk, disp>> => DispInv'
           /\ UNCHANGED <<live, queue, ledger, events>> /\ agent'.pc = agent.pc => Closed'
           /\ UNCHANGED <<live, disk, unsaved, writes>> => Deletion'
<1>1. Shown' = Shown
    BY DEF Shown
<1> QED
    BY <1>1 DEF Inv, QueueInv, LedgerInv, DiskInv, WritesInv, EventsInv, AcksInv, DispInv,
                Closed, Deletion

\* The number of faults stays within its bound.
LEMMA FaultTyped ==
    ASSUME Inv, Fault
    PROVE  faults' \in 0..MaxFaults
BY DeliveryAssumption DEF Inv, Types, Fault

\* A step of the dispatcher that neither begins nor ends a wait for the writer.
LEMMA DispatcherStep ==
    ASSUME Inv,
           UNCHANGED <<disk, session, agent, events, persisted, writes, unsaved, acks, acked, seen>>,
           outbox' \in [Deliveries -> OutboxStates], faults' \in 0..MaxFaults,
           disp.stage # "persisting", disp'.stage # "persisting", DispInv'
    PROVE  Inv'
<1>1. Addressee' = Addressee
    BY DEF Addressee
<1>2. Types'
    BY DEF Inv, Types, session
<1>3. /\ QueueInv' /\ LedgerInv' /\ DiskInv' /\ WritesInv' /\ EventsInv' /\ AcksInv'
      /\ Closed' /\ Deletion'
    BY <1>1, Frame DEF session
<1> QED
    BY <1>2, <1>3 DEF Inv

\* dispatchable_outbox.
LEMMA ScanStep ==
    ASSUME Inv, Scan
    PROVE  Inv'
<1> DEFINE due == {d \in Deliveries : outbox[d] \in Open}
<1>1. disp' = [stage |-> "batch", todo |-> due, at |-> None, result |-> None]
    BY DEF Scan, IdleDispatcher
<1>2. due \in SUBSET Deliveries
    OBVIOUS
<1> HIDE DEF due
<1>3. DispInv'
    BY <1>1, <1>2 DEF DispInv, Dispatcher
<1>4. disp.stage # "persisting" /\ disp'.stage # "persisting"
    BY <1>1 DEF Scan
<1> QED
    BY <1>3, <1>4, DispatcherStep DEF Scan, Inv, Types

\* TuiParentInbox::insert.
LEMMA OfferStep ==
    ASSUME Inv, NEW d \in Deliveries, Offer(d)
    PROVE  Inv'
<1>1. disp \in Dispatcher
    BY DEF Inv, DispInv
<1>2. disp' = [disp EXCEPT !.stage = "offered", !.todo = @ \ {d}, !.at = d]
    BY DEF Offer
<1>3. disp' \in Dispatcher /\ disp'.stage = "offered" /\ disp'.at = d
    BY <1>1, <1>2 DEF Dispatcher
<1>4. DispInv'
    BY <1>3 DEF DispInv
<1> QED
    BY <1>3, <1>4, DispatcherStep DEF Offer, Inv, Types

\* The store update for a reply.
LEMMA ApplyStep ==
    ASSUME Inv, Apply
    PROVE  Inv'
<1>1. disp \in Dispatcher /\ outbox \in [Deliveries -> OutboxStates]
    BY DEF Inv, DispInv, Types
<1>2. Outcome(disp.result) \in OutboxStates \cup {"retry"}
    BY DEF Outcome, OutboxStates
<1>3. outbox' \in [Deliveries -> OutboxStates]
    BY <1>1, <1>2 DEF Apply
<1>4. \/ disp' = IdleDispatcher
      \/ disp' = [disp EXCEPT !.stage = "batch", !.at = None, !.result = None]
    BY DEF Apply
<1>5. disp' \in Dispatcher /\ disp'.stage \in {"idle", "batch"}
    <2>1. IdleDispatcher \in Dispatcher /\ IdleDispatcher.stage = "idle"
        BY DEF Dispatcher, IdleDispatcher
    <2>2. CASE disp' = [disp EXCEPT !.stage = "batch", !.at = None, !.result = None]
        BY <1>1, <2>2 DEF Dispatcher
    <2> QED
        BY <1>4, <2>1, <2>2
<1>6. DispInv'
    BY <1>5 DEF DispInv
<1> QED
    BY <1>3, <1>5, <1>6, DispatcherStep DEF Apply, Inv, Types

\* The parent is deleted or cannot be loaded: the dispatcher is answered at once.
LEMMA InsertDeletedStep ==
    ASSUME Inv, NEW d \in Deliveries, InsertDeleted(d) \/ InsertFails(d)
    PROVE  Inv'
<1>1. disp \in Dispatcher /\ disp.stage = "offered" /\ disp.at = d
    BY DEF Inv, DispInv, InsertDeleted, InsertFails, Offered
<1>2. PICK r \in {"Unavailable", "Err"} :
            /\ disp' = [disp EXCEPT !.stage = "replied", !.result = r]
            /\ r = "Unavailable" => disk' = None
    <2>1. CASE InsertDeleted(d)
        BY <2>1 DEF InsertDeleted, Answer, Loaded
    <2>2. CASE InsertFails(d)
        BY <2>2 DEF InsertFails, Answer
    <2> QED
        BY <2>1, <2>2
<1>3. disp' \in Dispatcher /\ disp'.stage = "replied" /\ disp'.at = d /\ disp'.result = r
    BY <1>1, <1>2 DEF Dispatcher, Results
<1>4. DispInv'
    BY <1>2, <1>3 DEF DispInv
<1>5. faults' \in 0..MaxFaults
    BY FaultTyped DEF InsertDeleted, InsertFails, Inv, Types
<1> QED
    BY <1>1, <1>3, <1>4, <1>5, DispatcherStep DEF InsertDeleted, InsertFails, Inv, Types

-----------------------------------------------------------------------------
(* Insertions.                                                             *)

\* An insertion begins the dispatcher's wait for a write that answers it.
LEMMA PersistingFacts ==
    ASSUME Inv, NEW d \in Deliveries, Offered(d), Persisting
    PROVE  DispInv' /\ Addressee = None /\ Addressee' = d
<1>1. disp \in Dispatcher /\ disp.stage = "offered" /\ disp.at = d
    BY DEF Inv, DispInv, Offered
<1>2. disp' = [disp EXCEPT !.stage = "persisting"]
    BY DEF Persisting
<1>3. disp' \in Dispatcher /\ disp'.stage = "persisting" /\ disp'.at = d
    BY <1>1, <1>2 DEF Dispatcher
<1> QED
    BY <1>1, <1>3 DEF DispInv, Addressee

\* An answer that waits for a write of the open session.
LEMMA ReplyStep ==
    ASSUME Inv, NEW d \in Deliveries, Offered(d), Persisting, UNCHANGED <<disk, unsaved, seen>>,
           disk # None,
           NEW ws, WritesOK(ws, Shown, None), NoDrops(ws), Len(ws) + 1 <= MaxWrites,
           NEW s, s \in Stored, s # None, SnapOK(s, Shown),
           NEW r \in {"Inserted", "AlreadyPresent", "AlreadyConsumed"},
           r = "AlreadyConsumed" => d \in Ids(s.ledger),
           writes' = Append(ws, Reply(s, d, r))
    PROVE  WritesInv' /\ Deletion' /\ DispInv'
<1> DEFINE x == Reply(s, d, r)
<1>1. WriteOK(x, Shown, d) /\ x.snap = s /\ x.to = "reply"
    BY ReplyOK
<1>2. WritesOK(ws, Shown, d) /\ \A i \in DOMAIN ws : ws[i].to # "reply"
    BY WritesFree
<1> HIDE DEF x
<1>3. WritesOK(Append(ws, x), Shown, d)
    BY <1>1, <1>2, WritesAppend
<1>4. ws \in Seq(Write) /\ x \in Write
    BY <1>1, <1>2 DEF WritesOK, WriteOK
<1>5. NoDrops(Append(ws, x)) /\ Append(ws, x) \in Seq(Write) /\ Len(Append(ws, x)) = Len(ws) + 1
    BY <1>1, <1>4, DropsFacts
<1>6. DropsLast(Append(ws, x))
    BY <1>5, DropsFacts
<1>7. writes' = Append(ws, x) /\ Shown' = Shown /\ Addressee' = d /\ DispInv'
    BY PersistingFacts, Frame DEF x
<1>8. WritesInv'
    BY <1>3, <1>5, <1>7 DEF WritesInv
<1>9. Deletion'
    BY <1>5, <1>6, <1>7 DEF Deletion
<1> QED
    BY <1>7, <1>8, <1>9

\* What an open session knows of its writes.
LEMMA LiveWrites ==
    ASSUME Inv, live
    PROVE  /\ WritesOK(writes, Shown, Addressee) /\ NoDrops(writes) /\ disk # None
           /\ WritesOK(Age(writes), Shown, Addressee) /\ NoDrops(Age(writes))
           /\ Len(Age(writes)) = Len(writes) /\ Len(writes) \in Nat /\ Len(persisted) \in Nat
           /\ queue \in Seq(Item) /\ Distinct(queue) /\ LedgerOK(ledger, Shown)
<1>1. /\ WritesOK(writes, Shown, Addressee) /\ NoDrops(writes) /\ disk # None
      /\ queue \in Seq(Item) /\ Distinct(queue) /\ LedgerOK(ledger, Shown)
      /\ persisted \in Seq(Completed)
    BY DEF Inv, WritesInv, Deletion, QueueInv, LedgerInv, Types
<1>2. /\ WritesOK(Age(writes), Shown, Addressee) /\ Len(Age(writes)) = Len(writes)
      /\ DOMAIN Age(writes) = DOMAIN writes
      /\ \A i \in DOMAIN writes : Age(writes)[i].snap = writes[i].snap
    BY <1>1, WritesAge
<1>3. NoDrops(Age(writes))
    BY <1>1, <1>2 DEF NoDrops
<1>4. Len(writes) \in Nat /\ Len(persisted) \in Nat
    BY <1>1 DEF WritesOK
<1> QED
    BY <1>1, <1>2, <1>3, <1>4

\* The delivery is already queued or consumed.
LEMMA InsertKnownStep ==
    ASSUME Inv, NEW d \in Deliveries, InsertKnown(d)
    PROVE  Inv'
<1> DEFINE s == SnapshotOf(queue, ledger)
           r == InsertResult(queue, ledger, d)
<1>1. /\ WritesOK(writes, Shown, Addressee) /\ NoDrops(writes) /\ disk # None
      /\ queue \in Seq(Item) /\ Distinct(queue) /\ LedgerOK(ledger, Shown)
      /\ Len(writes) \in Nat /\ Len(persisted) \in Nat
    BY LiveWrites DEF InsertKnown
<1>2. s \in Stored /\ s # None /\ s.ledger = ledger /\ SnapOK(s, Shown)
    BY <1>1, SnapshotFacts
<1>3. /\ r \in {"Inserted", "AlreadyPresent", "AlreadyConsumed"}
      /\ r = "AlreadyConsumed" => d \in Ids(ledger)
    BY InsertResultFacts
<1>4. writes' = Append(writes, Reply(s, d, r)) /\ Len(writes) + 1 <= MaxWrites
    BY <1>1, DeliveryAssumption DEF InsertKnown, Room
<1> HIDE DEF s, r
<1>5. Addressee = None
    BY PersistingFacts DEF InsertKnown
<1>6. WritesInv' /\ Deletion' /\ DispInv'
    BY <1>1, <1>2, <1>3, <1>4, <1>5, ReplyStep DEF InsertKnown, session
<1>7. QueueInv' /\ LedgerInv' /\ DiskInv' /\ EventsInv' /\ AcksInv' /\ Closed'
    BY Frame DEF InsertKnown, session
<1>8. Types'
    BY DEF InsertKnown, session, Inv, Types
<1> QED
    BY <1>6, <1>7, <1>8 DEF Inv

\* submit_control_prompt while the session streams.
LEMMA InsertSteeringStep ==
    ASSUME Inv, NEW d \in Deliveries, InsertSteering(d)
    PROVE  Inv'
<1> DEFINE x == [id |-> d, kind |-> "Steering", ready |-> TRUE, cur |-> TRUE]
           s == SnapshotOf(queue', ledger)
<1>1. /\ WritesOK(writes, Shown, Addressee) /\ NoDrops(writes) /\ disk # None
      /\ queue \in Seq(Item) /\ Distinct(queue) /\ LedgerOK(ledger, Shown)
      /\ Len(writes) \in Nat /\ Len(persisted) \in Nat
    BY LiveWrites DEF InsertSteering
<1>2. x \in Item /\ x.id = d /\ d \notin Ids(queue) /\ queue' = Append(queue, x)
    BY InsertResultFacts DEF Item, Kinds, InsertSteering
<1> HIDE DEF x
<1>3. queue' \in Seq(Item) /\ Distinct(queue')
    BY <1>1, <1>2, AppendDistinct
<1>4. s \in Stored /\ s # None /\ s.ledger = ledger /\ SnapOK(s, Shown)
    BY <1>1, <1>3, SnapshotFacts
<1>5. writes' = Append(writes, Reply(s, d, "Inserted")) /\ Len(writes) + 1 <= MaxWrites
    BY <1>1, DeliveryAssumption DEF InsertSteering, Room
<1> HIDE DEF s
<1>6. Addressee = None
    BY PersistingFacts DEF InsertSteering
<1>7. WritesInv' /\ Deletion' /\ DispInv'
    BY <1>1, <1>4, <1>5, <1>6, ReplyStep DEF InsertSteering
<1>8. LedgerInv' /\ DiskInv' /\ EventsInv' /\ AcksInv'
    BY Frame DEF InsertSteering
<1>9. QueueInv' /\ Closed'
    BY <1>3 DEF QueueInv, Closed, InsertSteering
<1>10. Types'
    BY DEF InsertSteering, Inv, Types
<1> QED
    BY <1>7, <1>8, <1>9, <1>10 DEF Inv

\* What a new run id leaves of the agent, its events and the completions.
LEMMA AgedFacts ==
    ASSUME Inv
    PROVE  /\ [agent EXCEPT !.cur = FALSE] \in AgentState
           /\ Age(persisted) \in Seq(Completed) /\ EventsOK(Age(events), Shown)
           /\ Age(queue) \in Seq(Item) /\ Distinct(Age(queue)) /\ Ids(Age(queue)) = Ids(queue)
<1>1. agent \in AgentState /\ persisted \in Seq(Completed) /\ EventsOK(events, Shown)
      /\ queue \in Seq(Item) /\ Distinct(queue)
    BY DEF Inv, Types, EventsInv, QueueInv
<1>2. [agent EXCEPT !.cur = FALSE] \in AgentState
    BY <1>1 DEF AgentState
<1> QED
    BY <1>1, <1>2, CompletedAge, EventsAge, QueueAge

\* submit_control_prompt begins a turn: two writes, the second with the answer.
LEMMA InsertStartingStep ==
    ASSUME Inv, NEW d \in Deliveries, InsertStarting(d)
    PROVE  Inv'
<1> DEFINE x == [id |-> d, kind |-> "TurnEnd", ready |-> FALSE, cur |-> TRUE]
           s == SnapshotOf(queue', ledger)
           y == [snap |-> s, to |-> "submission", id |-> d, result |-> None, cur |-> TRUE]
<1>1. /\ WritesOK(Age(writes), Shown, Addressee) /\ NoDrops(Age(writes)) /\ disk # None
      /\ LedgerOK(ledger, Shown) /\ Len(Age(writes)) = Len(writes)
      /\ Len(writes) \in Nat /\ Len(persisted) \in Nat
    BY LiveWrites DEF InsertStarting
<1>2. /\ x \in Item /\ x.id = d /\ d \notin Ids(Age(queue)) /\ queue' = Append(Age(queue), x)
    BY InsertResultFacts, AgedFacts DEF Item, Kinds, InsertStarting
<1> HIDE DEF x
<1>3. queue' \in Seq(Item) /\ Distinct(queue')
    BY <1>2, AgedFacts, AppendDistinct
<1>4. s \in Stored /\ s # None /\ s.ledger = ledger /\ SnapOK(s, Shown)
    BY <1>1, <1>3, SnapshotFacts
<1>5. writes' = Age(writes) \o <<y, Reply(s, d, "Inserted")>> /\ Len(writes) + 2 <= MaxWrites
    BY <1>1, DeliveryAssumption DEF InsertStarting, Room
<1> HIDE DEF s
<1>6. WriteOK(y, Shown, None) /\ y.snap # None /\ y.to = "submission"
    BY <1>4 DEF WriteOK, Write, Holds
<1>7. Addressee = None
    BY PersistingFacts DEF InsertStarting
<1> DEFINE ws == Append(Age(writes), y)
<1> HIDE DEF y
<1>8. Age(writes) \in Seq(Write) /\ y \in Write /\ Reply(s, d, "Inserted") \in Write
    <2>1. WriteOK(Reply(s, d, "Inserted"), Shown, d)
        BY <1>4, ReplyOK
    <2> QED
        BY <1>1, <1>6, <2>1 DEF WritesOK, WriteOK
<1>9. writes' = Append(ws, Reply(s, d, "Inserted"))
    BY <1>5, <1>8
<1>10. WritesOK(ws, Shown, None)
    BY <1>1, <1>6, <1>7, WritesAppend
<1>11. NoDrops(ws) /\ Len(ws) + 1 <= MaxWrites
    BY <1>1, <1>5, <1>6, <1>8, DropsFacts, DeliveryAssumption
<1> HIDE DEF ws
<1>12. WritesInv' /\ Deletion' /\ DispInv'
    BY <1>1, <1>4, <1>9, <1>10, <1>11, ReplyStep DEF InsertStarting
<1>13. Shown' = Shown /\ LedgerInv' /\ DiskInv' /\ AcksInv'
    BY Frame DEF InsertStarting
<1>14. QueueInv' /\ Closed' /\ EventsInv'
    BY <1>3, <1>13, AgedFacts DEF QueueInv, Closed, EventsInv, InsertStarting
<1>15. Types'
    BY AgedFacts DEF InsertStarting, Inv, Types
<1> QED
    BY <1>12, <1>13, <1>14, <1>15 DEF Inv

\* The turn cannot begin and the entry is removed again.
LEMMA InsertNotStartedStep ==
    ASSUME Inv, NEW d \in Deliveries, InsertNotStarted(d)
    PROVE  Inv'
<1> DEFINE s == SnapshotOf(queue', ledger)
<1>1. /\ WritesOK(Age(writes), Shown, Addressee) /\ NoDrops(Age(writes)) /\ disk # None
      /\ LedgerOK(ledger, Shown) /\ Len(Age(writes)) = Len(writes)
      /\ Len(writes) \in Nat /\ Len(persisted) \in Nat
    BY LiveWrites DEF InsertNotStarted
<1>2. queue' = Age(queue) /\ queue' \in Seq(Item) /\ Distinct(queue')
    BY AgedFacts DEF InsertNotStarted
<1>3. s \in Stored /\ s # None /\ s.ledger = ledger /\ SnapOK(s, Shown)
    BY <1>1, <1>2, SnapshotFacts
<1>4. /\ writes' = Append(Age(writes), Reply(s, d, "Inserted"))
      /\ Len(Age(writes)) + 1 <= MaxWrites
    BY <1>1, DeliveryAssumption DEF InsertNotStarted, Room
<1> HIDE DEF s
<1>5. Addressee = None
    BY PersistingFacts DEF InsertNotStarted
<1>6. WritesInv' /\ Deletion' /\ DispInv'
    BY <1>1, <1>3, <1>4, <1>5, ReplyStep DEF InsertNotStarted
<1>7. Shown' = Shown /\ LedgerInv' /\ DiskInv' /\ AcksInv'
    BY Frame DEF InsertNotStarted
<1>8. QueueInv' /\ Closed' /\ EventsInv'
    BY <1>2, <1>7, AgedFacts DEF QueueInv, Closed, EventsInv, InsertNotStarted
<1>9. Types'
    BY AgedFacts, FaultTyped DEF InsertNotStarted, Inv, Types
<1> QED
    BY <1>6, <1>7, <1>8, <1>9 DEF Inv

\* What the writer's latest snapshot, or else the file, holds.
LEMMA LoadedFacts ==
    ASSUME Inv, Loaded # None
    PROVE  /\ Loaded \in Stored /\ SnapOK(Loaded, Shown) /\ disk # None
           /\ Loaded.queue \in Seq([id : Deliveries, kind : Kinds]) /\ Distinct(Loaded.queue)
           /\ LedgerOK(Loaded.ledger, Shown)
<1>1. Loaded = unsaved \/ Loaded = disk
    BY DEF Loaded
<1>2. SnapOK(Loaded, Shown)
    BY <1>1 DEF Inv, DiskInv
<1>3. disk # None
    BY DEF Loaded, Inv, Deletion
<1>4. Loaded \in Stored /\ Distinct(Loaded.queue) /\ LedgerOK(Loaded.ledger, Shown)
    BY <1>2 DEF SnapOK
<1> QED
    BY <1>2, <1>3, <1>4 DEF Stored

\* Empty queues, ledgers and channels are right.
LEMMA EmptyFacts ==
    /\ WritesOK(<<>>, Shown, Addressee) /\ WritesOK(<<>>, Shown, None)
    /\ NoDrops(<<>>) /\ AllDrops(<<>>) /\ DropsLast(<<>>) /\ Len(<<>>) = 0
    /\ <<>> \in Seq(Item) /\ Distinct(<<>>)
    /\ LedgerOK(<<>>, Shown) /\ EventsOK(<<>>, Shown) /\ <<>> \in Seq(Completed)
<1>1. <<>> \in Seq(Write) /\ <<>> \in Seq(Item) /\ <<>> \in Seq(Consumed) /\ <<>> \in Seq(Event)
      /\ <<>> \in Seq(Completed) /\ DOMAIN <<>> = {} /\ Len(<<>>) = 0
    OBVIOUS
<1>2. Ids(<<>>) = {}
    BY DEF Ids
<1> QED
    BY <1>1, <1>2, DeliveryAssumption
       DEF WritesOK, OneReply, NoDrops, AllDrops, DropsLast, Distinct, LedgerOK, EventsOK

\* The delivery is inserted into the stored session.
LEMMA InsertStoredStep ==
    ASSUME Inv, NEW d \in Deliveries, InsertStored(d)
    PROVE  Inv'
<1> DEFINE r == InsertResult(Loaded.queue, Loaded.ledger, d)
           x == [id |-> d, kind |-> "Steering"]
           q == IF r = "Inserted" THEN Append(Loaded.queue, x) ELSE Loaded.queue
           s == [Loaded EXCEPT !.queue = q]
<1>1. /\ Loaded \in Stored /\ disk # None /\ Distinct(Loaded.queue)
      /\ Loaded.queue \in Seq([id : Deliveries, kind : Kinds]) /\ LedgerOK(Loaded.ledger, Shown)
    BY LoadedFacts DEF InsertStored
<1>2. x \in [id : Deliveries, kind : Kinds] /\ x.id = d
    BY DEF Kinds
<1>3. /\ r \in {"Inserted", "AlreadyPresent", "AlreadyConsumed"}
      /\ r = "AlreadyConsumed" => d \in Ids(Loaded.ledger)
      /\ r = "Inserted" => d \notin Ids(Loaded.queue)
    BY InsertResultFacts
<1>4. writes = <<>> /\ writes' = <<Reply(s, d, r)>>
    BY DEF InsertStored
<1> HIDE DEF r, x
<1>5. q \in Seq([id : Deliveries, kind : Kinds]) /\ Distinct(q)
    BY <1>1, <1>2, <1>3, AppendDistinct
<1> HIDE DEF q
<1>6. s \in Stored /\ s.queue = q /\ s.ledger = Loaded.ledger
    BY <1>1, <1>5 DEF Stored
<1> HIDE DEF s
<1>7. s # None /\ SnapOK(s, Shown)
    BY <1>1, <1>5, <1>6, NoneAssumption DEF SnapOK
<1>8. writes' = Append(<<>>, Reply(s, d, r)) /\ Len(<<>>) + 1 <= MaxWrites
    BY <1>4, DeliveryAssumption
<1>9. WritesInv' /\ Deletion' /\ DispInv'
    BY <1>1, <1>3, <1>6, <1>7, <1>8, EmptyFacts, ReplyStep DEF InsertStored
<1>10. QueueInv' /\ LedgerInv' /\ DiskInv' /\ EventsInv' /\ AcksInv' /\ Closed'
    BY Frame DEF InsertStored, session
<1>11. Types'
    BY DEF InsertStored, session, Inv, Types
<1> QED
    BY <1>9, <1>10, <1>11 DEF Inv

-----------------------------------------------------------------------------
(* The other handlers of the event loop.                                   *)

\* A write that does not answer the dispatcher.
LEMMA AppendStep ==
    ASSUME Inv, UNCHANGED <<disk, unsaved, disp, seen>>, disk # None,
           NEW ws, WritesOK(ws, Shown, Addressee), NoDrops(ws), Len(ws) + 1 <= MaxWrites,
           NEW x, WriteOK(x, Shown, Addressee), x.to # "reply", x.snap # None,
           writes' = Append(ws, x)
    PROVE  WritesInv' /\ Deletion' /\ DispInv'
<1>1. WritesOK(Append(ws, x), Shown, Addressee)
    BY WritesAppend
<1>2. ws \in Seq(Write) /\ x \in Write
    BY DEF WritesOK, WriteOK
<1>3. NoDrops(Append(ws, x)) /\ Append(ws, x) \in Seq(Write) /\ Len(Append(ws, x)) = Len(ws) + 1
    BY <1>2, DropsFacts
<1>4. DropsLast(Append(ws, x))
    BY <1>3, DropsFacts
<1>5. Shown' = Shown /\ Addressee' = Addressee /\ DispInv'
    BY Frame DEF Addressee
<1>6. WritesInv'
    BY <1>1, <1>3, <1>5 DEF WritesInv
<1>7. Deletion'
    BY <1>3, <1>4 DEF Deletion
<1> QED
    BY <1>5, <1>6, <1>7

\* An event is there only for an open session, and announces what was shown.
LEMMA EventsTail ==
    ASSUME Inv, events # <<>>
    PROVE  /\ live /\ EventsOK(Tail(events), Shown) /\ Head(events) \in Event
           /\ Head(events).kind = "consumed" => Head(events).id \in Shown
<1>1. events \in Seq(Event) /\ \A i \in DOMAIN events :
                                events[i].kind = "consumed" => events[i].id \in Shown
    BY DEF Inv, EventsInv, EventsOK
<1> DEFINE t == Tail(events)
<1>2. /\ t \in Seq(Event) /\ 1 \in DOMAIN events /\ Head(events) = events[1]
      /\ \A k \in DOMAIN t : t[k] = events[k + 1] /\ k + 1 \in DOMAIN events
    BY <1>1, TailEntries
<1> HIDE DEF t
<1>3. EventsOK(t, Shown)
    BY <1>1, <1>2 DEF EventsOK
<1>4. live
    BY DEF Inv, Closed
<1>5. events[1] \in Event
    BY <1>1, <1>2
<1> QED
    BY <1>1, <1>2, <1>3, <1>4, <1>5 DEF t

\* acknowledge_consumed_run_delivery.
LEMMA HandleConsumedStep ==
    ASSUME Inv, HandleConsumed
    PROVE  Inv'
<1> DEFINE m == Head(events)
<1>1. /\ live /\ EventsOK(Tail(events), Shown) /\ m.id \in Shown /\ m.id \in Deliveries
      /\ events' = Tail(events)
    BY EventsTail DEF HandleConsumed, Shown
<1> HIDE DEF m
<1>2. Shown' = Shown /\ QueueInv' /\ DiskInv' /\ AcksInv'
    BY Frame DEF HandleConsumed
<1>3. EventsInv' /\ Closed'
    BY <1>1, <1>2 DEF EventsInv, Closed, HandleConsumed
<1>4. Types'
    BY DEF HandleConsumed, Inv, Types
<1>5. LedgerInv' /\ WritesInv' /\ Deletion' /\ DispInv'
    <2>1. CASE UNCHANGED <<ledger, writes>>
        BY <2>1, Frame DEF HandleConsumed, Addressee
    <2>2. CASE \E l \in Recorded(ledger, m.id) :
                  /\ ledger' = l
                  /\ writes' = Append(writes, [snap |-> SnapshotOf(queue, l), to |-> "ack",
                                               id |-> m.id, result |-> None, cur |-> FALSE])
        <3>1. PICK l \in Recorded(ledger, m.id) :
                  /\ ledger' = l
                  /\ writes' = Append(writes, [snap |-> SnapshotOf(queue, l), to |-> "ack",
                                               id |-> m.id, result |-> None, cur |-> FALSE])
            BY <2>2
        <3>2. /\ WritesOK(writes, Shown, Addressee) /\ NoDrops(writes) /\ disk # None
              /\ queue \in Seq(Item) /\ Distinct(queue) /\ LedgerOK(ledger, Shown)
              /\ Len(writes) \in Nat /\ Len(persisted) \in Nat
            BY <1>1, LiveWrites
        <3>3. LedgerOK(l, Shown) /\ m.id \in Ids(l)
            BY <1>1, <3>2, RecordedFacts
        <3> DEFINE s == SnapshotOf(queue, l)
                   x == [snap |-> s, to |-> "ack", id |-> m.id, result |-> None, cur |-> FALSE]
        <3>4. s \in Stored /\ s # None /\ s.ledger = l /\ SnapOK(s, Shown)
            BY <3>2, <3>3, SnapshotFacts
        <3>5. writes' = Append(writes, x) /\ Len(writes) + 1 <= MaxWrites
            BY <3>1, <3>2, DeliveryAssumption DEF HandleConsumed, Room
        <3> HIDE DEF s
        <3>6. WriteOK(x, Shown, Addressee) /\ x.to # "reply" /\ x.snap # None
            BY <1>1, <3>3, <3>4 DEF WriteOK, Write, Holds
        <3> HIDE DEF x
        <3>7. WritesInv' /\ Deletion' /\ DispInv'
            BY <3>2, <3>5, <3>6, AppendStep DEF HandleConsumed
        <3>8. LedgerInv'
            BY <1>2, <3>1, <3>3 DEF LedgerInv
        <3> QED
            BY <3>7, <3>8
    <2> QED
        BY <2>1, <2>2 DEF HandleConsumed, m
<1> QED
    BY <1>2, <1>3, <1>4, <1>5 DEF Inv

\* A save of the open session.
LEMMA SaveStep ==
    ASSUME Inv, UNCHANGED <<disk, unsaved, disp, seen>>, disk # None,
           NEW ws, WritesOK(ws, Shown, Addressee), NoDrops(ws), Len(ws) + 1 <= MaxWrites,
           NEW q \in Seq(Item), Distinct(q), LedgerOK(ledger, Shown),
           writes' = Append(ws, Save(q, ledger))
    PROVE  WritesInv' /\ Deletion' /\ DispInv'
<1>1. WriteOK(Save(q, ledger), Shown, Addressee) /\ Save(q, ledger).to # "reply"
      /\ Save(q, ledger).snap # None
    BY SaveOK, SnapshotFacts
<1> QED
    BY <1>1, AppendStep

\* The end of a run.
LEMMA HandleDoneStep ==
    ASSUME Inv, HandleDone
    PROVE  Inv'
<1>1. /\ live /\ EventsOK(Tail(events), Shown) /\ Head(events) \in Event
      /\ events' = Tail(events)
    BY EventsTail DEF HandleDone
<1>2. /\ WritesOK(writes, Shown, Addressee) /\ NoDrops(writes) /\ disk # None
      /\ queue \in Seq(Item) /\ Distinct(queue) /\ LedgerOK(ledger, Shown)
      /\ Len(writes) \in Nat /\ Len(persisted) \in Nat
    BY <1>1, LiveWrites
<1>3. writes' = Append(writes, Save(queue, ledger)) /\ Len(writes) + 1 <= MaxWrites
    BY <1>2, DeliveryAssumption DEF HandleDone, Room
<1>4. WritesInv' /\ Deletion' /\ DispInv'
    BY <1>2, <1>3, SaveStep DEF HandleDone
<1>5. Shown' = Shown /\ QueueInv' /\ LedgerInv' /\ DiskInv' /\ AcksInv'
    BY Frame DEF HandleDone
<1>6. EventsInv' /\ Closed'
    BY <1>1, <1>5 DEF EventsInv, Closed, HandleDone
<1>7. Types'
    BY DEF HandleDone, Inv, Types
<1> QED
    BY <1>4, <1>5, <1>6, <1>7 DEF Inv

\* save_sessions_periodically.
LEMMA PeriodicSaveStep ==
    ASSUME Inv, PeriodicSave
    PROVE  Inv'
<1>1. /\ disk # None /\ queue \in Seq(Item) /\ Distinct(queue) /\ LedgerOK(ledger, Shown)
    BY LiveWrites DEF PeriodicSave
<1>2. writes' = Append(<<>>, Save(queue, ledger)) /\ Len(<<>>) + 1 <= MaxWrites
    BY DeliveryAssumption DEF PeriodicSave
<1>3. WritesInv' /\ Deletion' /\ DispInv'
    BY <1>1, <1>2, EmptyFacts, SaveStep DEF PeriodicSave
<1>4. QueueInv' /\ LedgerInv' /\ DiskInv' /\ EventsInv' /\ AcksInv' /\ Closed'
    BY Frame DEF PeriodicSave, session
<1>5. Types'
    BY DEF PeriodicSave, session, Inv, Types
<1> QED
    BY <1>3, <1>4, <1>5 DEF Inv

\* remove_submission and mark_submission_ready, of the entries at S.
LEMMA ReleasedFacts ==
    ASSUME NEW q \in Seq(Item), Distinct(q), NEW S \in SUBSET DOMAIN q
    PROVE  /\ LET p == IF S = {} THEN q ELSE RemoveAt(q, CHOOSE i \in S : TRUE)
              IN  p \in Seq(Item) /\ Distinct(p)
           /\ LET p == [i \in DOMAIN q |-> IF i \in S THEN [q[i] EXCEPT !.ready = TRUE] ELSE q[i]]
              IN  p \in Seq(Item) /\ Distinct(p)
<1>1. CASE S = {}
    BY <1>1
<1>2. ASSUME S # {}
      PROVE  RemoveAt(q, CHOOSE i \in S : TRUE) \in Seq(Item)
             /\ Distinct(RemoveAt(q, CHOOSE i \in S : TRUE))
    <2>1. (CHOOSE i \in S : TRUE) \in DOMAIN q
        BY <1>2
    <2> QED
        BY <2>1, RemoveAtFacts, RemoveAtDistinct
<1> DEFINE p == [i \in DOMAIN q |-> IF i \in S THEN [q[i] EXCEPT !.ready = TRUE] ELSE q[i]]
<1>3. p \in Seq(Item) /\ Distinct(p)
    <2>1. DOMAIN q = 1..Len(q) /\ Len(q) \in Nat /\ \A i \in DOMAIN q : q[i] \in Item
        OBVIOUS
    <2>2. p = [i \in 1..Len(q) |-> IF i \in S THEN [q[i] EXCEPT !.ready = TRUE] ELSE q[i]]
        BY <2>1
    <2> HIDE DEF p
    <2>3. ASSUME NEW i \in 1..Len(q)
          PROVE  p[i] \in Item /\ p[i].id = q[i].id
        <3>1. ASSUME NEW x \in Item
              PROVE  [x EXCEPT !.ready = TRUE] \in Item /\ [x EXCEPT !.ready = TRUE].id = x.id
            BY DEF Item
        <3>2. p[i] = IF i \in S THEN [q[i] EXCEPT !.ready = TRUE] ELSE q[i]
            BY <2>2
        <3> QED
            BY <2>1, <3>1, <3>2
    <2>4. p \in Seq(Item) /\ DOMAIN p = 1..Len(q)
        <3>1. p = [i \in 1..Len(q) |-> p[i]]
            BY <2>2
        <3> QED
            BY <2>1, <2>3, <3>1
    <2> QED
        BY <2>1, <2>3, <2>4 DEF Distinct
<1> QED
    BY <1>1, <1>2, <1>3

\* handle_submission_persisted.
LEMMA SubmissionPersistedStep ==
    ASSUME Inv, SubmissionPersisted
    PROVE  Inv'
<1> DEFINE m == Head(persisted)
           S == {i \in DOMAIN queue : queue[i].id = m.id /\ ~queue[i].ready /\ queue[i].cur = m.cur}
           kept == IF S = {} THEN queue ELSE RemoveAt(queue, CHOOSE i \in S : TRUE)
           freed == [i \in DOMAIN queue |-> IF i \in S THEN [queue[i] EXCEPT !.ready = TRUE]
                                            ELSE queue[i]]
<1>1. queue \in Seq(Item) /\ Distinct(queue) /\ persisted \in Seq(Completed) /\ persisted # <<>>
      /\ streaming \in BOOLEAN
    BY DEF Inv, QueueInv, Types, SubmissionPersisted
<1>2. persisted' = Tail(persisted) /\ persisted' \in Seq(Completed) /\ m \in Completed
    BY <1>1, TailEntries DEF SubmissionPersisted
<1>3. /\ kept \in Seq(Item) /\ Distinct(kept) /\ freed \in Seq(Item) /\ Distinct(freed)
      /\ S \in SUBSET DOMAIN queue
    <2>1. S \in SUBSET DOMAIN queue
        OBVIOUS
    <2> HIDE DEF S
    <2> QED
        BY <1>1, <2>1, ReleasedFacts
<1>4. \/ S # {} /\ queue' = freed /\ UNCHANGED <<streaming, writes>>
      \/ live /\ Room(1) /\ queue' = kept /\ writes' = Append(writes, Save(kept, ledger))
              /\ UNCHANGED streaming
      \/ live /\ queue' = kept /\ streaming' = (streaming /\ ~m.cur) /\ UNCHANGED writes
      \/ UNCHANGED <<streaming, queue, writes>>
    BY DEF SubmissionPersisted
<1> HIDE DEF m, S, kept, freed
<1>5. Shown' = Shown /\ LedgerInv' /\ DiskInv' /\ AcksInv' /\ EventsInv' /\ DispInv'
    BY Frame DEF SubmissionPersisted
<1>6. QueueInv'
    BY <1>3, <1>4, <1>1 DEF QueueInv
<1>7. live \/ queue' = queue
    <2>1. S # {} => live
        <3>1. ~live => DOMAIN queue = {}
            BY DEF Inv, Closed
        <3> QED
            BY <1>3, <3>1
    <2> QED
        BY <1>4, <2>1
<1>8. Closed'
    BY <1>7 DEF Inv, Closed, SubmissionPersisted
<1>9. streaming' \in BOOLEAN
    BY <1>1, <1>4
<1>10. Types'
    BY <1>2, <1>9 DEF SubmissionPersisted, Inv, Types
<1>11. WritesInv' /\ Deletion'
    <2>1. CASE UNCHANGED writes
        BY <2>1, Frame DEF SubmissionPersisted, Addressee
    <2>2. CASE live /\ Room(1) /\ writes' = Append(writes, Save(kept, ledger))
        <3>1. /\ WritesOK(writes, Shown, Addressee) /\ NoDrops(writes) /\ disk # None
              /\ LedgerOK(ledger, Shown)
              /\ Len(writes) \in Nat /\ Len(persisted) \in Nat
            BY <2>2, LiveWrites
        <3>2. Len(writes) + 1 <= MaxWrites
            BY <2>2, <3>1, DeliveryAssumption DEF Room
        <3> QED
            BY <1>3, <2>2, <3>1, <3>2, SaveStep DEF SubmissionPersisted
    <2> QED
        BY <1>4, <2>1, <2>2
<1> QED
    BY <1>5, <1>6, <1>8, <1>10, <1>11 DEF Inv

\* mark_run_delivery_acknowledged.
LEMMA MarkAcknowledgedStep ==
    ASSUME Inv, NEW d \in Deliveries, MarkAcknowledged(d)
    PROVE  Inv'
<1>1. Shown' = Shown /\ QueueInv' /\ DiskInv' /\ EventsInv' /\ AcksInv' /\ DispInv'
    BY Frame DEF MarkAcknowledged
<1>2. Types'
    BY DEF MarkAcknowledged, Inv, Types
<1>3. Addressee' = Addressee
    BY DEF MarkAcknowledged, Addressee
<1>4. LedgerInv' /\ WritesInv' /\ Deletion' /\ Closed'
    <2>1. CASE live /\ ledger' = Marked(ledger, d) /\ UNCHANGED writes
        <3>1. LedgerInv'
            BY <1>1, <2>1, MarkedFacts DEF LedgerInv, Inv
        <3>2. WritesInv' /\ Deletion'
            BY <1>3, <2>1, Frame DEF MarkAcknowledged
        <3>3. Closed'
            BY <2>1 DEF Closed, MarkAcknowledged
        <3> QED
            BY <3>1, <3>2, <3>3
    <2>2. CASE UNCHANGED <<ledger, writes>>
        BY <1>3, <2>2, Frame DEF MarkAcknowledged
    <2>3. CASE /\ ~live /\ writes = <<>> /\ d \in Ids(LoadedLedger)
               /\ writes' = <<Put([Loaded EXCEPT !.ledger = Marked(Loaded.ledger, d)])>>
               /\ UNCHANGED ledger
        <3>1. Loaded # None
            BY <2>3 DEF LoadedLedger, Ids
        <3>2. /\ Loaded \in Stored /\ disk # None /\ Distinct(Loaded.queue)
              /\ LedgerOK(Loaded.ledger, Shown)
            BY <3>1, LoadedFacts
        <3> DEFINE l == Marked(Loaded.ledger, d)
                   s == [Loaded EXCEPT !.ledger = l]
                   x == Put(s)
        <3>3. LedgerOK(l, Shown)
            BY <3>2, MarkedFacts
        <3>4. writes' = <<x>>
            BY <2>3
        <3> HIDE DEF l
        <3>5. s \in Stored /\ s.queue = Loaded.queue /\ s.ledger = l
            BY <3>2, <3>3 DEF Stored, LedgerOK
        <3> HIDE DEF s
        <3>6. s # None /\ SnapOK(s, Shown)
            BY <3>2, <3>3, <3>5, NoneAssumption DEF SnapOK
        <3>7. x = [snap |-> s, to |-> "nobody", id |-> None, result |-> None, cur |-> FALSE]
            BY DEF Put
        <3> HIDE DEF x
        <3>8. WriteOK(x, Shown, Addressee) /\ x.to # "reply" /\ x.snap # None
            BY <3>5, <3>6, <3>7 DEF WriteOK, Write
        <3>9. writes' = Append(<<>>, x) /\ Len(<<>>) + 1 <= MaxWrites
            BY <3>4, DeliveryAssumption
        <3>10. WritesInv' /\ Deletion'
            BY <3>2, <3>8, <3>9, EmptyFacts, AppendStep DEF MarkAcknowledged
        <3> QED
            BY <2>3, <3>10, Frame DEF MarkAcknowledged
    <2> QED
        BY <2>1, <2>2, <2>3 DEF MarkAcknowledged
<1> QED
    BY <1>1, <1>2, <1>4 DEF Inv

-----------------------------------------------------------------------------
(* What the user does.                                                     *)

\* restore_from_session.
LEMMA OpenSessionStep ==
    ASSUME Inv, OpenSession
    PROVE  Inv'
<1>1. /\ disk # None /\ Distinct(Loaded.queue) /\ LedgerOK(Loaded.ledger, Shown)
      /\ Loaded.queue \in Seq([id : Deliveries, kind : Kinds])
    BY LoadedFacts DEF OpenSession
<1> DEFINE p == Loaded.queue
<1>2. queue' = [i \in DOMAIN p |-> [id |-> p[i].id, kind |-> p[i].kind, ready |-> TRUE,
                                    cur |-> TRUE]]
    BY DEF OpenSession
<1> HIDE DEF p
<1>3. p \in Seq([id : Deliveries, kind : Kinds]) /\ Distinct(p)
    BY <1>1 DEF p
<1>4. QueueInv'
    <2>1. /\ DOMAIN p = 1..Len(p) /\ Len(p) \in Nat
          /\ \A i \in 1..Len(p) : p[i].id \in Deliveries /\ p[i].kind \in Kinds
        <3> DEFINE E == [id : Deliveries, kind : Kinds]
        <3>1. p \in Seq(E)
            BY <1>3
        <3> HIDE DEF E
        <3>2. DOMAIN p = 1..Len(p) /\ Len(p) \in Nat /\ \A i \in 1..Len(p) : p[i] \in E
            BY <3>1
        <3> QED
            BY <3>2 DEF E
    <2>2. \A i \in 1..Len(p) : [id |-> p[i].id, kind |-> p[i].kind, ready |-> TRUE,
                                 cur |-> TRUE] \in Item
        BY <2>1 DEF Item
    <2>3. queue' \in Seq(Item) /\ DOMAIN queue' = DOMAIN p
          /\ \A i \in DOMAIN p : queue'[i].id = p[i].id
        BY <1>2, <2>1, <2>2
    <2> QED
        BY <1>3, <2>3 DEF QueueInv, Distinct
<1>5. Shown' = Shown /\ DiskInv' /\ EventsInv' /\ AcksInv' /\ DispInv' /\ WritesInv'
    BY Frame DEF OpenSession, Addressee
<1>6. LedgerInv' /\ Closed'
    BY <1>1, <1>5 DEF OpenSession, LedgerInv, Closed
<1>7. Deletion'
    BY <1>1, EmptyFacts DEF OpenSession, Deletion
<1>8. Types'
    BY DEF OpenSession, Inv, Types
<1> QED
    BY <1>4, <1>5, <1>6, <1>7, <1>8 DEF Inv

\* A turn of the user's.
LEMMA UserTurnStep ==
    ASSUME Inv, UserTurn
    PROVE  Inv'
<1>1. Shown' = Shown /\ LedgerInv' /\ DiskInv' /\ AcksInv' /\ DispInv'
    BY Frame DEF UserTurn
<1>2. QueueInv' /\ EventsInv' /\ Closed'
    BY <1>1, AgedFacts DEF UserTurn, QueueInv, EventsInv, Closed
<1>3. /\ WritesOK(Age(writes), Shown, Addressee) /\ NoDrops(Age(writes)) /\ disk # None
      /\ Len(Age(writes)) = Len(writes)
    BY LiveWrites DEF UserTurn
<1>4. WritesInv'
    BY <1>1, <1>3 DEF UserTurn, WritesInv, Addressee, Inv
<1>5. Deletion'
    BY <1>3, DropsFacts DEF UserTurn, Deletion, WritesOK
<1>6. agent' \in AgentState
    BY DEF UserTurn, AgentState
<1>7. Types'
    BY <1>6, AgedFacts DEF UserTurn, Inv, Types
<1> QED
    BY <1>1, <1>2, <1>4, <1>5, <1>7 DEF Inv

\* handle_cancel.
LEMMA UserCancelStep ==
    ASSUME Inv, UserCancel
    PROVE  Inv'
<1>1. Shown' = Shown /\ LedgerInv' /\ DiskInv' /\ AcksInv'
    BY Frame DEF UserCancel
<1>2. QueueInv' /\ EventsInv' /\ Closed'
    BY <1>1, AgedFacts, EmptyFacts DEF UserCancel, QueueInv, EventsInv, Closed
<1>3. /\ WritesOK(Age(writes), Shown, Addressee) /\ NoDrops(Age(writes)) /\ disk # None
      /\ LedgerOK(ledger, Shown) /\ Len(Age(writes)) = Len(writes)
      /\ Len(writes) \in Nat /\ Len(persisted) \in Nat
    BY LiveWrites DEF UserCancel
<1>4. Len(Age(writes)) + 1 <= MaxWrites /\ writes' = Append(Age(writes), Save(<<>>, ledger))
    BY <1>3, DeliveryAssumption DEF UserCancel, Room
<1>5. WritesInv' /\ Deletion' /\ DispInv'
    BY <1>3, <1>4, EmptyFacts, SaveStep DEF UserCancel
<1>6. agent' \in AgentState
    BY DEF UserCancel, AgentState, Inv, Types
<1>7. Types'
    BY <1>6, AgedFacts, FaultTyped DEF UserCancel, Inv, Types
<1> QED
    BY <1>1, <1>2, <1>5, <1>7 DEF Inv

\* The session is closed and its deletion queued.
LEMMA DeleteSessionStep ==
    ASSUME Inv, DeleteSession
    PROVE  Inv'
<1>1. Shown' = Shown /\ DiskInv' /\ AcksInv' /\ DispInv' /\ Addressee' = Addressee
    BY Frame DEF DeleteSession, Addressee
<1>2. QueueInv' /\ LedgerInv' /\ EventsInv' /\ Closed'
    BY <1>1, EmptyFacts DEF DeleteSession, QueueInv, LedgerInv, EventsInv, Closed, IdleAgent
<1> DEFINE x == [snap |-> None, to |-> "nobody", id |-> None, result |-> None, cur |-> FALSE]
<1>3. writes' = Append(writes, x)
    BY DEF DeleteSession, Put
<1>4. WriteOK(x, Shown, Addressee) /\ x.to # "reply" /\ x.snap = None
    BY DEF WriteOK, Write, SnapOK
<1> HIDE DEF x
<1>5. WritesOK(writes, Shown, Addressee) /\ writes \in Seq(Write) /\ x \in Write
      /\ DropsLast(writes) /\ disk # None /\ persisted \in Seq(Completed)
    BY <1>4 DEF Inv, WritesInv, WritesOK, WriteOK, Deletion, DeleteSession, Types
<1>6. WritesOK(writes', Shown, Addressee)
    BY <1>3, <1>4, <1>5, WritesAppend
<1>7. Len(writes') <= MaxWrites
    <2>1. Len(writes) \in Nat /\ Len(persisted) \in Nat /\ Len(writes') = Len(writes) + 1
        BY <1>3, <1>5
    <2> QED
        BY <2>1, DeliveryAssumption DEF DeleteSession, Room
<1>8. DropsLast(writes')
    BY <1>3, <1>4, <1>5, DropsFacts
<1>9. WritesInv' /\ Deletion'
    BY <1>1, <1>5, <1>6, <1>7, <1>8 DEF WritesInv, Deletion, DeleteSession
<1>10. Types'
    BY EmptyFacts, FaultTyped DEF DeleteSession, Inv, Types, IdleAgent, AgentState
<1> QED
    BY <1>1, <1>2, <1>9, <1>10 DEF Inv

-----------------------------------------------------------------------------
(* The agent task.                                                         *)

\* What enters the conversation has been shown from then on.
LEMMA SawFacts ==
    ASSUME Inv, NEW d \in Deliveries, Saw(d)
    PROVE  /\ Shown' = Shown \cup {d} /\ seen' \in [Deliveries -> 0..MaxSeen]
           /\ seen'[d] > 0 /\ \A e \in Deliveries : e # d => seen'[e] = seen[e]
<1>1. seen \in [Deliveries -> 0..MaxSeen]
    BY DEF Inv, Types
<1>2. seen' = [seen EXCEPT ![d] = IF seen[d] < MaxSeen THEN seen[d] + 1 ELSE seen[d]]
    BY DEF Saw
<1>3. seen' \in [Deliveries -> 0..MaxSeen] /\ seen'[d] > 0
    BY <1>1, <1>2, DeliveryAssumption
<1>4. \A e \in Deliveries : e # d => seen'[e] = seen[e]
    BY <1>1, <1>2
<1>5. Shown' = {e \in Deliveries : seen'[e] > 0}
    BY DEF Shown
<1> QED
    BY <1>1, <1>3, <1>4, <1>5 DEF Shown

\* The agent takes the entry at i and tells the event loop.
LEMMA TakenStep ==
    ASSUME Inv, NEW i \in DOMAIN queue, NEW c \in BOOLEAN,
           events' = Append(events, [kind |-> "consumed", id |-> queue[i].id, cur |-> c]),
           Saw(queue[i].id), queue' = RemoveAt(queue, i), agent' \in AgentState,
           UNCHANGED <<outbox, disk, live, streaming, ledger, persisted, writes, unsaved, disp,
                       acks, acked, faults>>
    PROVE  Inv'
<1> DEFINE d == queue[i].id
           e == [kind |-> "consumed", id |-> d, cur |-> c]
<1>1. queue \in Seq(Item) /\ Distinct(queue) /\ queue[i] \in Item
    BY DEF Inv, QueueInv
<1>2. d \in Deliveries
    BY <1>1 DEF Item
<1>3. /\ Shown' = Shown \cup {d} /\ seen' \in [Deliveries -> 0..MaxSeen]
    BY <1>2, SawFacts
<1>4. e \in Event /\ e.id = d /\ events' = Append(events, e) /\ events \in Seq(Event)
      /\ EventsOK(events, Shown)
    BY <1>2 DEF Event, Inv, EventsInv, EventsOK
<1> HIDE DEF d, e
<1>5. EventsInv'
    <2>1. /\ events' \in Seq(Event) /\ Len(events) \in Nat
          /\ DOMAIN events = 1..Len(events) /\ DOMAIN events' = 1..(Len(events) + 1)
          /\ events'[Len(events) + 1] = e /\ \A k \in 1..Len(events) : events'[k] = events[k]
        BY <1>4, AppendEntries
    <2> QED
        BY <1>3, <1>4, <2>1 DEF EventsInv, EventsOK
<1>6. QueueInv'
    BY <1>1, RemoveAtFacts, RemoveAtDistinct DEF QueueInv
<1>7. live
    BY DEF Inv, Closed
<1>8. Closed' /\ Deletion'
    BY <1>7 DEF Inv, Closed, Deletion
<1>9. Shown \subseteq Shown'
    BY <1>3
<1>10. LedgerInv' /\ AcksInv' /\ DispInv'
    BY <1>9 DEF Inv, LedgerInv, LedgerOK, AcksInv, DispInv
<1>11. DiskInv'
    BY <1>9, SnapMonotone DEF Inv, DiskInv
<1>12. WritesInv'
    BY <1>9, WritesMonotone DEF Inv, WritesInv, Addressee
<1>13. Types'
    BY <1>3 DEF Inv, Types
<1> QED
    BY <1>5, <1>6, <1>8, <1>10, <1>11, <1>12, <1>13 DEF Inv

\* The agent task.
LEMMA AgentStep ==
    ASSUME Inv, Agent
    PROVE  Inv'
<1>1. agent \in AgentState /\ queue \in Seq(Item)
    BY DEF Inv, Types, QueueInv
<1>2. CASE AgentPop
    <2>1. PICK i \in Dispatchable("TurnEnd") :
            /\ agent' = [pc |-> "turn", cur |-> queue[i].cur]
            /\ events' = Append(events, [kind |-> "consumed", id |-> queue[i].id,
                                         cur |-> queue[i].cur])
            /\ Saw(queue[i].id)
            /\ queue' = RemoveAt(queue, i)
            /\ UNCHANGED <<outbox, disk, live, streaming, ledger, persisted, writes, unsaved, disp,
                           acks, acked, faults>>
        BY <1>2 DEF AgentPop
    <2>2. i \in DOMAIN queue /\ queue[i] \in Item
        BY <1>1 DEF Dispatchable
    <2>3. queue[i].cur \in BOOLEAN
        BY <2>2 DEF Item
    <2>4. agent' \in AgentState
        BY <2>1, <2>3 DEF AgentState
    <2> QED
        BY <2>1, <2>2, <2>3, <2>4, TakenStep
<1>3. CASE AgentPoll
    <2>1. PICK i \in Dispatchable("Steering") :
            /\ events' = Append(events, [kind |-> "consumed", id |-> queue[i].id,
                                         cur |-> agent.cur])
            /\ Saw(queue[i].id)
            /\ queue' = RemoveAt(queue, i)
            /\ UNCHANGED <<outbox, disk, live, streaming, ledger, agent, persisted, writes, unsaved,
                           disp, acks, acked, faults>>
        BY <1>3 DEF AgentPoll
    <2>2. i \in DOMAIN queue /\ agent.cur \in BOOLEAN
        BY <1>1 DEF Dispatchable, AgentState
    <2> QED
        BY <1>1, <2>1, <2>2, TakenStep
<1>4. CASE AgentEnds \/ AgentFails
    <2>1. agent' \in AgentState /\ live
        BY <1>1, <1>4 DEF AgentEnds, AgentFails, AgentState, Inv, Closed
    <2>2. /\ QueueInv' /\ LedgerInv' /\ DiskInv' /\ WritesInv' /\ EventsInv' /\ AcksInv'
          /\ DispInv' /\ Deletion'
        BY <1>4, Frame DEF AgentEnds, AgentFails, session, Addressee
    <2>3. Closed'
        BY <1>4, <2>1 DEF AgentEnds, AgentFails, session, Closed
    <2>4. Types'
        BY <1>4, <2>1, FaultTyped DEF AgentEnds, AgentFails, session, Inv, Types
    <2> QED
        BY <2>2, <2>3, <2>4 DEF Inv
<1>5. CASE AgentDone
    <2> DEFINE e == [kind |-> "done", id |-> None, cur |-> agent.cur]
    <2>1. e \in Event /\ e.kind = "done" /\ events' = Append(events, e) /\ events \in Seq(Event)
          /\ live
        BY <1>1, <1>5 DEF Event, AgentState, AgentDone, Inv, EventsInv, EventsOK, Closed
    <2> HIDE DEF e
    <2>2. /\ Shown' = Shown /\ QueueInv' /\ LedgerInv' /\ DiskInv' /\ WritesInv' /\ AcksInv'
          /\ DispInv' /\ Deletion'
        BY <1>5, Frame DEF AgentDone, session, Addressee
    <2>3. EventsInv'
        <3>1. /\ events' \in Seq(Event) /\ Len(events) \in Nat
              /\ DOMAIN events = 1..Len(events) /\ DOMAIN events' = 1..(Len(events) + 1)
              /\ events'[Len(events) + 1] = e /\ \A k \in 1..Len(events) : events'[k] = events[k]
            BY <2>1, AppendEntries
        <3> QED
            BY <2>1, <2>2, <3>1 DEF EventsInv, EventsOK, Inv
    <2>4. Closed'
        BY <1>5, <2>1 DEF AgentDone, session, Closed
    <2>5. Types'
        BY <1>5 DEF AgentDone, session, Inv, Types, IdleAgent, AgentState
    <2> QED
        BY <2>2, <2>3, <2>4, <2>5 DEF Inv
<1> QED
    BY <1>2, <1>3, <1>4, <1>5 DEF Agent

-----------------------------------------------------------------------------
(* The storage writer, the acknowledgement tasks and crashes.              *)

\* What a write's callback does, when the file afterwards is the new one or, after a
\* failure, the old one.
LEMMA CallbackStep ==
    ASSUME Inv, writes # <<>>, writes' = Tail(writes), NEW ok \in BOOLEAN,
           Callback(Head(writes), ok), UNCHANGED <<seen>>,
           disk = None => disk' = None
    PROVE  /\ WritesInv' /\ AcksInv' /\ DispInv' /\ persisted' \in Seq(Completed)
<1> DEFINE x == Head(writes)
<1>1. WritesOK(writes, Shown, Addressee) /\ Shown' = Shown /\ Len(writes) <= MaxWrites
      /\ writes \in Seq(Write)
    BY Frame DEF Inv, WritesInv, WritesOK
<1>2. WriteOK(x, Shown, Addressee)
      /\ WritesOK(writes', Shown, IF x.to = "reply" THEN None ELSE Addressee)
    BY <1>1, WritesTail
<1>3. Len(writes') = Len(writes) - 1 /\ Len(writes) \in Nat
    BY <1>1, TailEntries
<1>4. Len(writes') <= MaxWrites
    BY <1>1, <1>3, DeliveryAssumption
<1>5. x.to \in {"nobody", "submission", "reply", "ack"} /\ x.cur \in BOOLEAN
      /\ x.result \in Results \cup {None}
    BY <1>2 DEF WriteOK, Write
<1>6. /\ persisted' = IF x.to = "submission"
                      THEN Append(persisted, [id |-> x.id, ok |-> ok, cur |-> x.cur])
                      ELSE persisted
      /\ disp' = IF x.to = "reply"
                 THEN [disp EXCEPT !.stage = "replied", !.result = IF ok THEN x.result ELSE "Err"]
                 ELSE disp
      /\ acks' = IF x.to = "ack" /\ ok THEN acks \cup {x.id} ELSE acks
    BY DEF Callback
<1> HIDE DEF x
<1>7. persisted' \in Seq(Completed)
    <2>1. x.to = "submission" => [id |-> x.id, ok |-> ok, cur |-> x.cur] \in Completed
        BY <1>2, <1>5 DEF WriteOK, Completed
    <2>2. persisted \in Seq(Completed)
        BY DEF Inv, Types
    <2> DEFINE m == [id |-> x.id, ok |-> ok, cur |-> x.cur]
    <2>3. x.to = "submission" => m \in Completed
        BY <2>1
    <2>4. persisted' = IF x.to = "submission" THEN Append(persisted, m) ELSE persisted
        BY <1>6
    <2> HIDE DEF m
    <2> QED
        BY <2>2, <2>3, <2>4
<1>8. AcksInv'
    <2>1. x.to = "ack" => x.id \in Shown
        BY <1>2 DEF WriteOK, SnapOK, Holds, LedgerOK
    <2> QED
        BY <1>1, <1>6, <2>1 DEF AcksInv, Inv
<1>9. disp \in Dispatcher
    BY DEF Inv, DispInv
<1>10. CASE x.to = "reply"
    <2> DEFINE r == IF ok THEN x.result ELSE "Err"
    <2>1. /\ x.id = Addressee /\ x.id \in Deliveries
          /\ x.result \in {"Inserted", "AlreadyPresent", "AlreadyConsumed"}
          /\ x.result = "AlreadyConsumed" => x.id \in Shown
        BY <1>2, <1>10 DEF WriteOK, SnapOK, Holds, LedgerOK
    <2>2. disp.stage = "persisting" /\ disp.at = x.id
        BY <2>1, NoneAssumption DEF Addressee
    <2>3. /\ r \in {"Inserted", "AlreadyPresent", "AlreadyConsumed", "Err"}
          /\ r = "AlreadyConsumed" => x.id \in Shown
          /\ disp' = [disp EXCEPT !.stage = "replied", !.result = r]
        BY <1>6, <1>10, <2>1
    <2> HIDE DEF r
    <2>4. disp' \in Dispatcher /\ disp'.stage = "replied" /\ disp'.at = x.id /\ disp'.result = r
        BY <1>9, <2>2, <2>3 DEF Dispatcher, Results
    <2>5. Addressee' = None /\ DispInv'
        BY <1>1, <2>1, <2>3, <2>4 DEF Addressee, DispInv
    <2>6. WritesInv'
        BY <1>1, <1>2, <1>4, <1>10, <2>5 DEF WritesInv
    <2> QED
        BY <1>7, <1>8, <2>5, <2>6
<1>11. CASE x.to # "reply"
    <2>1. disp' = disp /\ Addressee' = Addressee
        BY <1>6, <1>11 DEF Addressee
    <2>2. DispInv'
        BY <1>1, <2>1 DEF Inv, DispInv
    <2>3. WritesInv'
        BY <1>1, <1>2, <1>4, <1>11, <2>1 DEF WritesInv
    <2> QED
        BY <1>7, <1>8, <2>2, <2>3
<1> QED
    BY <1>10, <1>11

\* The storage writer.
LEMMA StorageStep ==
    ASSUME Inv, Storage
    PROVE  Inv'
<1>1. DropsLast(writes) /\ (live => NoDrops(writes)) /\ writes \in Seq(Write)
      /\ (disk = None => ~live /\ unsaved = None /\ AllDrops(writes))
      /\ SnapOK(disk, Shown) /\ SnapOK(unsaved, Shown)
    BY DEF Inv, Deletion, WritesInv, WritesOK, DiskInv
<1>2. ASSUME writes # <<>>
      PROVE  /\ DropsLast(Tail(writes)) /\ (live => NoDrops(Tail(writes)) /\ Head(writes).snap # None)
             /\ disk = None => AllDrops(Tail(writes)) /\ Head(writes).snap = None
             /\ Head(writes).snap = None => AllDrops(Tail(writes))
             /\ SnapOK(Head(writes).snap, Shown)
    <2>1. WriteOK(Head(writes), Shown, Addressee)
        BY <1>2, WritesTail DEF Inv, WritesInv
    <2> QED
        BY <1>1, <1>2, <2>1, DropsFacts DEF WriteOK
<1>3. CASE WriteSucceeds
    <2>1. writes # <<>> /\ writes' = Tail(writes) /\ disk' = Head(writes).snap /\ unsaved' = None
          /\ Callback(Head(writes), TRUE) /\ UNCHANGED seen
        BY <1>3 DEF WriteSucceeds
    <2>2. WritesInv' /\ AcksInv' /\ DispInv' /\ persisted' \in Seq(Completed)
        BY <1>2, <2>1, CallbackStep
    <2>3. Shown' = Shown /\ QueueInv' /\ LedgerInv' /\ EventsInv' /\ Closed'
        BY <1>3, <2>1, Frame DEF WriteSucceeds, session
    <2>4. DiskInv'
        BY <1>2, <2>1, <2>3 DEF DiskInv, SnapOK
    <2>5. Deletion'
        BY <1>2, <1>3, <2>1 DEF Deletion, WriteSucceeds, session
    <2>6. Types'
        BY <1>3, <2>2 DEF WriteSucceeds, session, Inv, Types
    <2> QED
        BY <2>2, <2>3, <2>4, <2>5, <2>6 DEF Inv
<1>4. CASE WriteFails
    <2>1. writes # <<>> /\ writes' = Tail(writes) /\ UNCHANGED <<disk, seen>>
          /\ unsaved' = (IF Head(writes).snap = None THEN unsaved ELSE Head(writes).snap)
          /\ Callback(Head(writes), FALSE)
        BY <1>4 DEF WriteFails
    <2>2. WritesInv' /\ AcksInv' /\ DispInv' /\ persisted' \in Seq(Completed)
        BY <2>1, CallbackStep
    <2>3. Shown' = Shown /\ QueueInv' /\ LedgerInv' /\ EventsInv' /\ Closed'
        BY <1>4, <2>1, Frame DEF WriteFails, session
    <2>4. DiskInv'
        BY <1>1, <1>2, <2>1, <2>3 DEF DiskInv
    <2>5. Deletion'
        BY <1>1, <1>2, <1>4, <2>1 DEF Deletion, WriteFails, session
    <2>6. Types'
        BY <1>4, <2>2, FaultTyped DEF WriteFails, session, Inv, Types
    <2> QED
        BY <2>2, <2>3, <2>4, <2>5, <2>6 DEF Inv
<1>5. CASE Flush
    <2>1. disk # None /\ disk' # None /\ unsaved' = None
        BY <1>1, <1>5 DEF Flush
    <2>2. Shown' = Shown /\ QueueInv' /\ LedgerInv' /\ EventsInv' /\ Closed' /\ AcksInv' /\ WritesInv'
        BY <1>5, Frame DEF Flush, session, Addressee
    <2>3. DiskInv'
        BY <1>1, <1>5, <2>1, <2>2 DEF DiskInv, Flush, SnapOK
    <2>4. Deletion'
        BY <1>1, <1>5, <2>1 DEF Deletion, Flush, session
    <2>5. DispInv'
        BY <1>5, <2>1, <2>2 DEF Inv, DispInv, Flush
    <2>6. Types'
        BY <1>5 DEF Flush, session, Inv, Types
    <2> QED
        BY <2>2, <2>3, <2>4, <2>5, <2>6 DEF Inv
<1> QED
    BY <1>3, <1>4, <1>5 DEF Storage

\* acknowledge_parent_delivery.
LEMMA AcknowledgeStep ==
    ASSUME Inv, NEW d \in Deliveries, Acknowledge(d)
    PROVE  Inv'
<1>1. /\ Shown' = Shown /\ QueueInv' /\ LedgerInv' /\ EventsInv' /\ Closed' /\ DiskInv'
      /\ WritesInv' /\ DispInv' /\ Deletion'
    BY Frame DEF Acknowledge, session, Addressee
<1>2. AcksInv'
    BY <1>1 DEF Acknowledge, Inv, AcksInv
<1>3. outbox' \in [Deliveries -> OutboxStates] /\ acked' \subseteq Deliveries
    BY DEF Acknowledge, Inv, Types, OutboxStates
<1>4. Types'
    BY <1>3 DEF Acknowledge, session, Inv, Types
<1> QED
    BY <1>1, <1>2, <1>4 DEF Inv

\* A crash and a restart.
LEMMA CrashStep ==
    ASSUME Inv, Crash
    PROVE  Inv'
<1>1. Shown' = Shown
    BY Frame DEF Crash
<1>2. disp' = IdleDispatcher /\ disp' \in Dispatcher /\ disp'.stage = "idle" /\ Addressee' = None
    BY DEF Crash, IdleDispatcher, Dispatcher, Addressee
<1>3. QueueInv' /\ LedgerInv' /\ EventsInv' /\ Closed' /\ AcksInv' /\ Deletion'
    BY <1>1, EmptyFacts DEF Crash, QueueInv, LedgerInv, EventsInv, Closed, AcksInv, Deletion,
                            IdleAgent
<1>4. DiskInv'
    BY <1>1 DEF Crash, Inv, DiskInv, SnapOK
<1>5. WritesInv'
    BY <1>1, <1>2, EmptyFacts, DeliveryAssumption DEF Crash, WritesInv
<1>6. DispInv'
    BY <1>2 DEF DispInv
<1>7. Types'
    BY EmptyFacts, FaultTyped DEF Crash, Inv, Types, IdleAgent, AgentState
<1> QED
    BY <1>3, <1>4, <1>5, <1>6, <1>7 DEF Inv

-----------------------------------------------------------------------------
(* The theorems.                                                           *)

\* The invariant holds initially ...
LEMMA InitInv == Init => Inv
<1> SUFFICES ASSUME Init PROVE Inv
    OBVIOUS
<1>1. Shown = {}
    BY DEF Init, Shown
<1>2. QueueInv /\ LedgerInv /\ EventsInv /\ Closed /\ AcksInv
    BY EmptyFacts DEF Init, QueueInv, LedgerInv, EventsInv, Closed, AcksInv, IdleAgent
<1>3. EmptySession \in Stored /\ EmptySession.queue = <<>> /\ EmptySession.ledger = <<>>
    BY DEF EmptySession, Stored
<1>4. EmptySession # None /\ SnapOK(EmptySession, Shown)
    BY <1>3, EmptyFacts, NoneAssumption DEF SnapOK
<1>5. DiskInv /\ Deletion
    BY <1>4, EmptyFacts DEF Init, DiskInv, SnapOK, Deletion
<1>6. disp \in Dispatcher /\ disp.stage = "idle"
    BY DEF Init, IdleDispatcher, Dispatcher
<1>7. DispInv /\ WritesInv
    BY <1>6, EmptyFacts, DeliveryAssumption DEF DispInv, Init, WritesInv
<1>8. Types
    <2>1. outbox \in [Deliveries -> OutboxStates]
        BY DEF Init, OutboxStates
    <2>2. 0 \in 0..MaxFaults /\ 0 \in 0..MaxSeen
        BY DeliveryAssumption
    <2>3. seen \in [Deliveries -> 0..MaxSeen] /\ faults \in 0..MaxFaults
        BY <2>2 DEF Init
    <2>4. agent \in AgentState
        BY DEF Init, IdleAgent, AgentState
    <2> QED
        BY <2>1, <2>3, <2>4, EmptyFacts DEF Init, Types
<1> QED
    BY <1>2, <1>5, <1>7, <1>8 DEF Inv

\* ... and every step keeps it.
LEMMA NextInv == Inv /\ [Next]_vars => Inv'
<1> SUFFICES ASSUME Inv, [Next]_vars PROVE Inv'
    OBVIOUS
<1>1. CASE Dispatch
    BY <1>1, ScanStep, OfferStep, ApplyStep DEF Dispatch
<1>2. CASE Loop
    <2>1. ASSUME NEW d \in Deliveries, InsertDelivery(d)
          PROVE  Inv'
        BY <2>1, InsertKnownStep, InsertSteeringStep, InsertStartingStep, InsertNotStartedStep,
           InsertStoredStep, InsertDeletedStep DEF InsertDelivery
    <2> QED
        BY <1>2, <2>1, MarkAcknowledgedStep, SubmissionPersistedStep, HandleConsumedStep,
           HandleDoneStep, PeriodicSaveStep DEF Loop
<1>3. CASE User
    BY <1>3, OpenSessionStep, UserTurnStep, UserCancelStep, DeleteSessionStep DEF User
<1>4. CASE UNCHANGED vars
    <2>1. UNCHANGED <<outbox, disk, live, streaming, queue, ledger, agent, events, persisted, writes,
                      unsaved, disp, acks, acked, faults, seen>>
        BY <1>4 DEF vars, session
    <2>2. Types'
        BY <2>1 DEF Inv, Types
    <2> QED
        BY <2>1, <2>2, Frame DEF Inv, Addressee
<1> QED
    BY <1>1, <1>2, <1>3, <1>4, AgentStep, StorageStep, CrashStep, AcknowledgeStep DEF Next

\* The inductive invariant: what the session, its snapshots, the writes in flight and
\* the dispatcher know of a delivery is true, whatever crashes and fails meanwhile.
THEOREM DeliveryInvariant == Spec => []Inv
BY InitInv, NextInv, PTL DEF Spec

\* Every channel, queue and record has its type, and the ledger stays within
\* MAX_CONTROL_DELIVERY_RECORDS.
THEOREM DeliveryTypeCorrect == Spec => []TypeOK
<1>1. Inv => TypeOK
    <2> SUFFICES ASSUME Inv PROVE TypeOK
        OBVIOUS
    <2>1. SnapOK(disk, Shown) /\ SnapOK(unsaved, Shown) /\ acks \subseteq Deliveries
        BY DEF Inv, DiskInv, AcksInv, Shown
    <2>2. disk \in Stored \cup {None} /\ unsaved \in Stored \cup {None}
        BY <2>1 DEF SnapOK
    <2> QED
        BY <2>1, <2>2 DEF Inv, Types, QueueInv, LedgerInv, LedgerOK, WritesInv, WritesOK, EventsInv,
                          EventsOK, DispInv, TypeOK, AgentState, Event, Completed, Dispatcher
<1> QED
    BY <1>1, DeliveryInvariant, PTL

\* However often the dispatcher repeats a delivery, the shared queue and the queue on
\* disk hold it at most once (contains_run_delivery).
THEOREM DeliveryQueuedOnce == Spec => []QueuedOnce
<1>1. Inv => QueuedOnce
    BY DEF Inv, QueueInv, DiskInv, SnapOK, Distinct, QueuedOnce
<1> QED
    BY <1>1, DeliveryInvariant, PTL

\* No step evicts an unacknowledged consumption from the ledger of an open session
\* (record_consumed_run_delivery).
THEOREM DeliveryUnacknowledgedKept == Spec => UnacknowledgedKept
<1> DEFINE Kept == \A i \in DOMAIN ledger :
                      ~ledger[i].acknowledged /\ live' => ledger[i].id \in Ids(ledger')
<1>1. ASSUME Inv, Next
      PROVE  Kept
    <2>1. CASE UNCHANGED ledger
        BY <2>1 DEF Ids
    <2>2. CASE ~live'
        BY <2>2
    <2>3. CASE HandleConsumed
        <3> DEFINE m == Head(events)
        <3>1. m.id \in Shown /\ m.id \in Deliveries /\ LedgerOK(ledger, Shown)
            BY <1>1, <2>3, EventsTail DEF HandleConsumed, Shown, Inv, LedgerInv
        <3>2. UNCHANGED ledger \/ ledger' \in Recorded(ledger, m.id)
            BY <2>3 DEF HandleConsumed
        <3> HIDE DEF m
        <3> QED
            BY <2>1, <3>1, <3>2, RecordedFacts
    <2>4. CASE \E d \in Deliveries : MarkAcknowledged(d)
        <3>1. PICK d \in Deliveries : UNCHANGED ledger \/ ledger' = Marked(ledger, d)
            BY <2>4 DEF MarkAcknowledged
        <3>2. LedgerOK(ledger, Shown)
            BY <1>1 DEF Inv, LedgerInv
        <3>3. ledger' = Marked(ledger, d) => Ids(ledger') = Ids(ledger)
            BY <3>2, MarkedFacts
        <3> QED
            BY <2>1, <3>1, <3>3 DEF Ids
    <2>5. CASE OpenSession
        BY <1>1, <2>5 DEF OpenSession, Inv, Closed
    <2>6. CASE Dispatch
        BY <2>1, <2>6 DEF Dispatch, Scan, Offer, Apply, session
    <2>7. CASE Agent
        BY <2>1, <2>7 DEF Agent, AgentPop, AgentPoll, AgentEnds, AgentFails, AgentDone, session
    <2>8. CASE \E d \in Deliveries : InsertDelivery(d)
        BY <2>1, <2>8 DEF InsertDelivery, InsertKnown, InsertSteering, InsertStarting,
                          InsertNotStarted, InsertStored, InsertDeleted, InsertFails, session
    <2>9. CASE SubmissionPersisted \/ HandleDone \/ PeriodicSave \/ UserTurn \/ UserCancel
        BY <2>1, <2>9 DEF SubmissionPersisted, HandleDone, PeriodicSave, UserTurn, UserCancel,
                          session
    <2>10. CASE DeleteSession \/ Crash
        BY <2>2, <2>10 DEF DeleteSession, Crash
    <2>11. CASE Storage
        BY <2>1, <2>11 DEF Storage, WriteSucceeds, WriteFails, Flush, session
    <2>12. CASE \E d \in Deliveries : Acknowledge(d)
        BY <2>1, <2>12 DEF Acknowledge, session
    <2> HIDE DEF Kept
    <2> QED
        BY <1>1, <2>3, <2>4, <2>5, <2>6, <2>7, <2>8, <2>9, <2>10, <2>11, <2>12 DEF Next, Loop, User
<1>2. Inv /\ [Next]_vars => [Kept]_vars
    BY <1>1
<1>3. Spec => [][Kept]_vars
    BY <1>2, DeliveryInvariant, PTL DEF Spec
<1> QED
    BY <1>3 DEF UnacknowledgedKept

-----------------------------------------------------------------------------
(* The refinement of ParentNotice.                                         *)

\* A step that neither shows, settles nor deletes is a stuttering step.
LEMMA NoticeStutters ==
    ASSUME UNCHANGED <<outbox, seen>>, disk' = None <=> disk = None
    PROVE  UNCHANGED Notice!vars
BY DEF Notice!vars, NoticeStatus

\* The statuses of the open and of the resolved states.
LEMMA StatusFacts ==
    /\ \A o \in Open : StatusOf(o) = "owed"
    /\ StatusOf("acknowledged") = "settled" /\ StatusOf("dead_letter") = "abandoned"
BY DEF StatusOf, Open

\* A row that leaves the open states settles or abandons its notice.
LEMMA NoticeResolved ==
    ASSUME Inv, NEW d \in Deliveries, NEW to \in {"acknowledged", "dead_letter"},
           outbox[d] \in Open, outbox' = [outbox EXCEPT ![d] = to], UNCHANGED <<disk, seen>>,
           to = "acknowledged" => d \in Shown, to = "dead_letter" => disk = None
    PROVE  Notice!Next
<1>1. outbox \in [Deliveries -> OutboxStates]
    BY DEF Inv, Types
<1> DEFINE v == IF to = "acknowledged" THEN "settled" ELSE "abandoned"
<1>2. NoticeStatus' = [NoticeStatus EXCEPT ![d] = v] /\ NoticeStatus[d] = "owed"
    <2>1. ASSUME NEW e \in Deliveries
          PROVE  StatusOf(outbox'[e]) = IF e = d THEN v ELSE StatusOf(outbox[e])
        <3>1. outbox'[e] = IF e = d THEN to ELSE outbox[e]
            BY <1>1
        <3> QED
            BY <3>1, StatusFacts
    <2>2. NoticeStatus' = [e \in Deliveries |-> StatusOf(outbox'[e])]
        BY DEF NoticeStatus
    <2> HIDE DEF v
    <2>3. NoticeStatus[d] = "owed"
        BY StatusFacts DEF NoticeStatus
    <2> QED
        BY <2>1, <2>2, <2>3 DEF NoticeStatus
<1>3. CASE to = "acknowledged"
    BY <1>2, <1>3 DEF Notice!Next, Notice!Settle, Shown
<1>4. CASE to = "dead_letter"
    BY <1>2, <1>4 DEF Notice!Next, Notice!Abandon
<1> QED
    BY <1>3, <1>4

\* An agent that takes an entry shows its notice, to a parent that exists.
LEMMA NoticeShown ==
    ASSUME Inv, NEW i \in DOMAIN queue, Saw(queue[i].id), UNCHANGED <<outbox, disk>>
    PROVE  Notice!Next
<1>1. queue[i] \in Item
    BY DEF Inv, QueueInv
<1>2. queue[i].id \in Deliveries
    BY <1>1 DEF Item
<1> PICK d \in Deliveries : d = queue[i].id
    BY <1>2
<1>3. Shown' = Shown \cup {d}
    BY SawFacts
<1>4. disk # None
    BY DEF Inv, Closed, Deletion
<1>5. Notice!Show(d)
    <2>1. NoticeStatus' = NoticeStatus
        BY DEF NoticeStatus
    <2>2. {e \in Deliveries : seen[e] > 0}' = {e \in Deliveries : seen[e] > 0} \cup {d}
        BY <1>3 DEF Shown
    <2> QED
        BY <1>4, <2>1, <2>2 DEF Notice!Show
<1> QED
    BY <1>5 DEF Notice!Next

\* Every step of the machinery is a step of ParentNotice, or none.
LEMMA NoticeStep == Inv /\ [Next]_vars => [Notice!Next]_(Notice!vars)
<1> SUFFICES ASSUME Inv, [Next]_vars PROVE Notice!Next \/ UNCHANGED Notice!vars
    OBVIOUS
<1>1. CASE Apply
    <2> DEFINE d == disp.at
               to == Outcome(disp.result)
    <2>1. d \in Deliveries /\ outbox \in [Deliveries -> OutboxStates] /\ disp.stage = "replied"
          /\ UNCHANGED <<disk, seen>>
        BY <1>1 DEF Inv, DispInv, Types, Apply
    <2>2. /\ to \in {"delivered", "acknowledged", "dead_letter", "retry"}
          /\ to = "acknowledged" => d \in Shown
          /\ to = "dead_letter" => disk = None
        <3>1. disp.result \in Results \cup {None}
            BY DEF Inv, DispInv, Dispatcher
        <3> QED
            BY <2>1, <3>1 DEF Inv, DispInv, Outcome, Results
    <2>3. \/ UNCHANGED outbox
          \/ outbox[d] \in Open \cup {to} /\ to # "retry" /\ outbox' = [outbox EXCEPT ![d] = to]
        BY <1>1, <2>1 DEF Apply
    <2> HIDE DEF d, to
    <2>4. CASE UNCHANGED outbox
        BY <2>1, <2>4, NoticeStutters
    <2>5. CASE outbox[d] = to /\ outbox' = [outbox EXCEPT ![d] = to]
        BY <2>1, <2>5, NoticeStutters
    <2>6. CASE outbox[d] \in Open /\ to \in {"acknowledged", "dead_letter"}
                 /\ outbox' = [outbox EXCEPT ![d] = to]
        BY <2>1, <2>2, <2>6, NoticeResolved
    <2>7. CASE outbox[d] \in Open /\ to = "delivered" /\ outbox' = [outbox EXCEPT ![d] = to]
        <3>1. \A e \in Deliveries : outbox'[e] = outbox[e]
                                    \/ (outbox'[e] \in Open /\ outbox[e] \in Open)
            BY <2>1, <2>7 DEF Open
        <3>2. NoticeStatus' = NoticeStatus
            BY <3>1, StatusFacts DEF NoticeStatus
        <3> QED
            BY <2>1, <3>2 DEF Notice!vars
    <2> QED
        BY <2>2, <2>3, <2>4, <2>5, <2>6, <2>7
<1>2. CASE \E d \in Deliveries : Acknowledge(d)
    <2>1. PICK d \in Deliveries : Acknowledge(d)
        BY <1>2
    <2>2. d \in Shown /\ outbox \in [Deliveries -> OutboxStates] /\ UNCHANGED <<disk, seen>>
        BY <2>1 DEF Acknowledge, Inv, AcksInv, Types
    <2>3. UNCHANGED outbox \/ (outbox[d] # "dead_letter"
                               /\ outbox' = [outbox EXCEPT ![d] = "acknowledged"])
        BY <2>1 DEF Acknowledge
    <2>4. CASE UNCHANGED outbox
        BY <2>2, <2>4, NoticeStutters
    <2>5. CASE outbox[d] = "acknowledged" /\ outbox' = [outbox EXCEPT ![d] = "acknowledged"]
        BY <2>2, <2>5, NoticeStutters
    <2>6. CASE outbox[d] \in Open /\ outbox' = [outbox EXCEPT ![d] = "acknowledged"]
        BY <2>2, <2>6, NoticeResolved
    <2>7. outbox[d] = "dead_letter" \/ outbox[d] = "acknowledged" \/ outbox[d] \in Open
        BY <2>2 DEF OutboxStates, Open
    <2> QED
        BY <2>3, <2>4, <2>5, <2>6, <2>7
<1>3. CASE Agent
    <2>1. CASE AgentPop
        <3>1. PICK i \in Dispatchable("TurnEnd") : Saw(queue[i].id) /\ UNCHANGED <<outbox, disk>>
            BY <2>1 DEF AgentPop
        <3>2. i \in DOMAIN queue
            BY DEF Dispatchable
        <3> QED
            BY <3>1, <3>2, NoticeShown
    <2>2. CASE AgentPoll
        <3>1. PICK i \in Dispatchable("Steering") : Saw(queue[i].id) /\ UNCHANGED <<outbox, disk>>
            BY <2>2 DEF AgentPoll
        <3>2. i \in DOMAIN queue
            BY DEF Dispatchable
        <3> QED
            BY <3>1, <3>2, NoticeShown
    <2>3. CASE AgentEnds \/ AgentFails \/ AgentDone
        BY <2>3, NoticeStutters DEF AgentEnds, AgentFails, AgentDone
    <2> QED
        BY <1>3, <2>1, <2>2, <2>3 DEF Agent
<1>4. CASE Storage
    <2>1. UNCHANGED <<outbox, seen>> /\ (disk = None => disk' = None)
        <3>1. CASE WriteSucceeds
            <4>1. AllDrops(writes) => Head(writes).snap = None
                BY <3>1, DropsFacts DEF WriteSucceeds, Inv, WritesInv, WritesOK
            <4> QED
                BY <3>1, <4>1 DEF WriteSucceeds, Inv, Deletion
        <3>2. CASE WriteFails
            BY <3>2 DEF WriteFails
        <3>3. CASE Flush
            BY <3>3 DEF Flush, Inv, Deletion
        <3> QED
            BY <1>4, <3>1, <3>2, <3>3 DEF Storage
    <2>2. CASE disk' = None <=> disk = None
        BY <2>1, <2>2, NoticeStutters
    <2>3. CASE disk' = None /\ disk # None
        BY <2>1, <2>3 DEF Notice!Next, Notice!ParentGone, NoticeStatus
    <2> QED
        BY <2>1, <2>2, <2>3
<1>5. CASE Scan \/ \E d \in Deliveries : Offer(d)
    BY <1>5, NoticeStutters DEF Scan, Offer
<1>6. CASE \E d \in Deliveries : InsertDelivery(d)
    BY <1>6, NoticeStutters DEF InsertDelivery, InsertKnown, InsertSteering, InsertStarting,
             InsertNotStarted, InsertStored, InsertDeleted, InsertFails
<1>7. CASE \E d \in Deliveries : MarkAcknowledged(d)
    BY <1>7, NoticeStutters DEF MarkAcknowledged
<1>8. CASE SubmissionPersisted \/ HandleConsumed \/ HandleDone \/ PeriodicSave
    BY <1>8, NoticeStutters DEF SubmissionPersisted, HandleConsumed, HandleDone, PeriodicSave
<1>9. CASE User
    BY <1>9, NoticeStutters DEF User, OpenSession, UserTurn, UserCancel, DeleteSession
<1>10. CASE Crash \/ UNCHANGED vars
    BY <1>10, NoticeStutters DEF Crash, vars
<1> QED
    BY <1>1, <1>2, <1>3, <1>4, <1>5, <1>6, <1>7, <1>8, <1>9, <1>10 DEF Next, Dispatch, Loop

\* The delivery machinery implements ParentNotice: across crashes, failed writes,
\* cancels and deletions no row is acknowledged before its notice entered the parent's
\* conversation, none is dead-lettered while the parent exists, and a resolved row and
\* a deleted parent stay as they are (dispatch_parent_outbox).
THEOREM DeliveryImplementsNotice == Spec => ImplementsNotice
<1>1. Init => Notice!Init
    <2> SUFFICES ASSUME Init PROVE Notice!Init
        OBVIOUS
    <2>1. disk # None
        <3>1. EmptySession \in Stored
            BY DEF EmptySession, Stored
        <3> QED
            BY <3>1, NoneAssumption DEF Init
    <2>2. NoticeStatus = [d \in Deliveries |-> "owed"]
        <3>1. \A d \in Deliveries : outbox[d] = "pending"
            BY DEF Init
        <3>2. "pending" \in Open
            BY DEF Open
        <3> QED
            BY <3>1, <3>2, StatusFacts DEF NoticeStatus
    <2>3. {d \in Deliveries : seen[d] > 0} = {}
        BY DEF Init
    <2> QED
        BY <2>1, <2>2, <2>3 DEF Notice!Init
<1> QED
    BY <1>1, NoticeStep, DeliveryInvariant, PTL DEF Spec, ImplementsNotice, Notice!Spec

-----------------------------------------------------------------------------
(* Acknowledged consumptions are durable.  The invariant says that a       *)
(* consumption the file holds is held by everything that may yet replace   *)
(* it: the unsaved snapshot, the writes in flight, the open session.       *)

Later(s, d)     == s # None => d \in Ids(s.ledger)
AllLater(ws, d) == \A i \in DOMAIN ws : Later(ws[i].snap, d)
SomeHolds(ws, d) == \E i \in DOMAIN ws : Holds(ws[i].snap, d)
Ordered(ws, d)  == \A i, j \in DOMAIN ws : Holds(ws[i].snap, d) /\ i <= j => Later(ws[j].snap, d)

Chain(d) ==
    /\ Holds(disk, d) => Later(unsaved, d) /\ AllLater(writes, d)
    /\ Holds(unsaved, d) => AllLater(writes, d)
    /\ Ordered(writes, d)
    /\ live /\ (Holds(disk, d) \/ Holds(unsaved, d) \/ SomeHolds(writes, d)) => d \in Ids(ledger)

\* d is acknowledged, or is about to be.
Settled(d) ==
    \/ outbox[d] = "acknowledged"
    \/ d \in acks
    \/ disp.stage = "replied" /\ disp.result = "AlreadyConsumed" /\ disp.at = d

RoomForAll == Cardinality(Deliveries) <= LedgerCapacity

DurableInv == \A d \in Deliveries : Chain(d) /\ (Settled(d) => Later(disk, d))

\* A ledger with room for every delivery evicts none.
LEMMA LedgerRoom ==
    ASSUME RoomForAll, NEW l, NEW sh, LedgerOK(l, sh), NEW d \in Deliveries, d \notin Ids(l)
    PROVE  Len(l) < LedgerCapacity
<1>1. l \in Seq(Consumed) /\ Len(l) \in Nat /\ DOMAIN l = 1..Len(l) /\ Distinct(l)
    BY DEF LedgerOK
<1>2. \A i \in DOMAIN l : l[i].id \in Deliveries \ {d}
    <2>1. \A i \in DOMAIN l : l[i] \in Consumed
        BY <1>1
    <2> QED
        BY <2>1 DEF Consumed, Ids
<1> DEFINE f == [i \in 1..Len(l) |-> l[i].id]
           T == Deliveries \ {d}
<1>3. f \in [1..Len(l) -> T]
    BY <1>1, <1>2
<1>4. \A i, j \in 1..Len(l) : f[i] = f[j] => i = j
    BY <1>1 DEF Distinct
<1>5. IsFiniteSet(T) /\ Cardinality(T) = Cardinality(Deliveries) - 1
    BY FS_RemoveElement, DeliveryAssumption
<1>6. Cardinality(Deliveries) \in Nat
    BY FS_CardinalityType, DeliveryAssumption
<1>7. IsFiniteSet(1..Len(l)) /\ Cardinality(1..Len(l)) = Len(l)
    <2>1. IsFiniteSet(1..Len(l)) /\ Cardinality(1..Len(l)) = IF 1 > Len(l) THEN 0 ELSE Len(l) - 1 + 1
        BY <1>1, FS_Interval
    <2> QED
        BY <1>1, <2>1
<1> HIDE DEF f, T
<1>8. ~(Cardinality(T) < Cardinality(1..Len(l)))
    BY <1>3, <1>4, <1>5, <1>7, FS_PigeonHole
<1> QED
    BY <1>1, <1>5, <1>6, <1>7, <1>8, DeliveryAssumption DEF RoomForAll

\* Appending keeps the order when the new snapshot holds what the others hold.
LEMMA OrderedAppend ==
    ASSUME NEW ws \in Seq(Write), NEW x \in Write, NEW d
    PROVE  /\ Ordered(ws, d) /\ (SomeHolds(ws, d) => Later(x.snap, d)) => Ordered(Append(ws, x), d)
           /\ AllLater(ws, d) /\ Later(x.snap, d) => AllLater(Append(ws, x), d)
           /\ SomeHolds(Append(ws, x), d) => SomeHolds(ws, d) \/ Holds(x.snap, d)
<1> DEFINE t == Append(ws, x)
<1>1. /\ t \in Seq(Write) /\ Len(ws) \in Nat
      /\ DOMAIN ws = 1..Len(ws) /\ DOMAIN t = 1..(Len(ws) + 1)
      /\ t[Len(ws) + 1] = x /\ \A k \in 1..Len(ws) : t[k] = ws[k]
    BY AppendEntries
<1> HIDE DEF t
<1>2. \A i \in DOMAIN t : (i = Len(ws) + 1 /\ t[i] = x) \/ (i \in DOMAIN ws /\ t[i] = ws[i] /\ i <= Len(ws))
    BY <1>1
<1>3. AllLater(ws, d) /\ Later(x.snap, d) => AllLater(t, d)
    BY <1>2 DEF AllLater
<1>4. SomeHolds(t, d) => SomeHolds(ws, d) \/ Holds(x.snap, d)
    BY <1>2 DEF SomeHolds
<1>5. ASSUME Ordered(ws, d), SomeHolds(ws, d) => Later(x.snap, d),
             NEW i \in DOMAIN t, NEW j \in DOMAIN t, Holds(t[i].snap, d), i <= j
      PROVE  Later(t[j].snap, d)
    <2>1. CASE j = Len(ws) + 1
        <3>1. CASE i = Len(ws) + 1
            BY <1>5, <2>1, <3>1 DEF Holds, Later
        <3>2. CASE i \in DOMAIN ws /\ t[i] = ws[i]
            BY <1>2, <1>5, <2>1, <3>2, <1>1 DEF SomeHolds
        <3> QED
            BY <1>2, <3>1, <3>2
    <2>2. CASE j \in DOMAIN ws /\ t[j] = ws[j] /\ j <= Len(ws)
        <3>1. i \in DOMAIN ws /\ t[i] = ws[i]
            BY <1>1, <1>2, <1>5, <2>2
        <3> QED
            BY <1>5, <2>2, <3>1 DEF Ordered
    <2> QED
        BY <1>2, <2>1, <2>2
<1>6. Ordered(ws, d) /\ (SomeHolds(ws, d) => Later(x.snap, d)) => Ordered(t, d)
    BY <1>5 DEF Ordered
<1> QED
    BY <1>3, <1>4, <1>6 DEF t

\* Taking the first write keeps the order, and what it holds the rest holds.
LEMMA OrderedTail ==
    ASSUME NEW ws \in Seq(Write), ws # <<>>, NEW d
    PROVE  /\ Ordered(ws, d) => Ordered(Tail(ws), d)
           /\ Ordered(ws, d) /\ Holds(Head(ws).snap, d) => AllLater(Tail(ws), d)
           /\ AllLater(ws, d) => AllLater(Tail(ws), d) /\ Later(Head(ws).snap, d)
           /\ SomeHolds(Tail(ws), d) => SomeHolds(ws, d)
           /\ Holds(Head(ws).snap, d) => SomeHolds(ws, d)
<1> DEFINE t == Tail(ws)
           h == Head(ws)
<1>1. /\ 1 \in DOMAIN ws /\ h = ws[1] /\ DOMAIN t \subseteq Nat \ {0}
      /\ \A k \in DOMAIN t : t[k] = ws[k + 1] /\ k + 1 \in DOMAIN ws
    BY TailEntries
<1> HIDE DEF t, h
<1>2. \A k \in DOMAIN t : k \in Nat /\ 1 <= k + 1
    BY <1>1
<1>3. Ordered(ws, d) => Ordered(t, d)
    <2> SUFFICES ASSUME Ordered(ws, d), NEW i \in DOMAIN t, NEW j \in DOMAIN t,
                        Holds(t[i].snap, d), i <= j
                 PROVE  Later(t[j].snap, d)
        BY DEF Ordered
    <2>1. i + 1 \in DOMAIN ws /\ j + 1 \in DOMAIN ws /\ i + 1 <= j + 1
          /\ t[i] = ws[i + 1] /\ t[j] = ws[j + 1]
        BY <1>1, <1>2
    <2> QED
        BY <2>1 DEF Ordered
<1>4. Ordered(ws, d) /\ Holds(h.snap, d) => AllLater(t, d)
    BY <1>1, <1>2 DEF Ordered, AllLater
<1>5. AllLater(ws, d) => AllLater(t, d) /\ Later(h.snap, d)
    BY <1>1 DEF AllLater
<1>6. (SomeHolds(t, d) => SomeHolds(ws, d)) /\ (Holds(h.snap, d) => SomeHolds(ws, d))
    BY <1>1 DEF SomeHolds
<1> QED
    BY <1>3, <1>4, <1>5, <1>6 DEF t, h

\* A new run id does not touch the snapshots.
LEMMA OrderedAge ==
    ASSUME NEW ws, NEW sh, NEW a, WritesOK(ws, sh, a), NEW d
    PROVE  /\ Ordered(Age(ws), d) <=> Ordered(ws, d)
           /\ AllLater(Age(ws), d) <=> AllLater(ws, d)
           /\ SomeHolds(Age(ws), d) <=> SomeHolds(ws, d)
<1> DEFINE t == Age(ws)
<1>1. DOMAIN t = DOMAIN ws /\ \A i \in DOMAIN ws : t[i].snap = ws[i].snap
    BY WritesAge
<1> HIDE DEF t
<1>2. (Ordered(t, d) <=> Ordered(ws, d)) /\ (AllLater(t, d) <=> AllLater(ws, d))
      /\ (SomeHolds(t, d) <=> SomeHolds(ws, d))
    BY <1>1 DEF Ordered, AllLater, SomeHolds
<1> QED
    BY <1>2 DEF t

\* No writes are in order.
LEMMA OrderedEmpty ==
    ASSUME NEW d
    PROVE  Ordered(<<>>, d) /\ AllLater(<<>>, d) /\ ~SomeHolds(<<>>, d)
BY DEF Ordered, AllLater, SomeHolds

\* The writes ws lead to the ledger l.
Fits(ws, l, d) ==
    /\ Ordered(ws, d)
    /\ Holds(disk, d) \/ Holds(unsaved, d) => AllLater(ws, d) /\ d \in Ids(l)
    /\ SomeHolds(ws, d) => d \in Ids(l)

\* Writing the session once more.
LEMMA FitsAppend ==
    ASSUME NEW ws \in Seq(Write), NEW l, NEW d, Fits(ws, l, d),
           NEW x \in Write, x.snap # None, x.snap.ledger = l
    PROVE  Fits(Append(ws, x), l, d)
<1>1. (d \in Ids(l) => Later(x.snap, d)) /\ (Holds(x.snap, d) => d \in Ids(l))
    BY DEF Later, Holds
<1> QED
    BY <1>1, OrderedAppend DEF Fits

\* What is in flight leads to the ledger of the open session.
LEMMA FitsNow ==
    ASSUME Inv, live, NEW d, Chain(d)
    PROVE  /\ Fits(writes, ledger, d) /\ Fits(Age(writes), ledger, d)
           /\ writes \in Seq(Write) /\ Age(writes) \in Seq(Write)
<1>1. WritesOK(writes, Shown, Addressee) /\ WritesOK(Age(writes), Shown, Addressee)
    BY LiveWrites
<1>2. Fits(writes, ledger, d)
    BY DEF Chain, Fits
<1> QED
    BY <1>1, <1>2, OrderedAge DEF Fits, WritesOK

\* A step that replaces neither file nor unsaved snapshot.
LEMMA FitsChain ==
    ASSUME NEW d, Chain(d), UNCHANGED <<disk, unsaved>>, Fits(writes', ledger', d)
    PROVE  Chain(d)'
BY DEF Chain, Fits

\* A step that touches neither the snapshots nor the ledger.
LEMMA ChainSame ==
    ASSUME NEW d, Chain(d), UNCHANGED <<disk, unsaved, writes, live, ledger>>
    PROVE  Chain(d)'
BY DEF Chain

\* A write of the open session.
LEMMA ChainReply ==
    ASSUME Inv, live, NEW d, Chain(d), UNCHANGED <<disk, unsaved, ledger>>,
           NEW ws \in Seq(Write), Fits(ws, ledger, d),
           NEW q \in Seq(Item), Distinct(q), NEW e \in Deliveries,
           NEW r \in {"Inserted", "AlreadyPresent", "AlreadyConsumed"},
           writes' = Append(ws, Reply(SnapshotOf(q, ledger), e, r))
    PROVE  Chain(d)'
<1>1. LedgerOK(ledger, Shown)
    BY DEF Inv, LedgerInv
<1> DEFINE s == SnapshotOf(q, ledger)
           x == Reply(s, e, r)
<1>2. s \in Stored /\ s # None /\ s.ledger = ledger
    BY <1>1, SnapshotFacts
<1> HIDE DEF s
<1>3. x \in Write /\ x.snap = s
    BY <1>2 DEF Reply, Write, Results
<1>4. writes' = Append(ws, x)
    BY DEF s
<1> HIDE DEF x
<1>5. Fits(writes', ledger, d)
    BY <1>2, <1>3, <1>4, FitsAppend
<1> QED
    BY <1>5, FitsChain

\* A save of the open session.
LEMMA ChainSave ==
    ASSUME Inv, live, NEW d, Chain(d), UNCHANGED <<disk, unsaved, ledger>>,
           NEW ws \in Seq(Write), Fits(ws, ledger, d), NEW q \in Seq(Item), Distinct(q),
           writes' = Append(ws, Save(q, ledger))
    PROVE  Chain(d)'
<1>1. LedgerOK(ledger, Shown)
    BY DEF Inv, LedgerInv
<1>2. Save(q, ledger) \in Write /\ Save(q, ledger).snap # None /\ Save(q, ledger).snap.ledger = ledger
    <2>1. WriteOK(Save(q, ledger), Shown, None) /\ Save(q, ledger).snap = SnapshotOf(q, ledger)
        BY <1>1, SaveOK
    <2> QED
        BY <1>1, <2>1, SnapshotFacts DEF WriteOK
<1>3. Fits(writes', ledger, d)
    BY <1>2, FitsAppend
<1> QED
    BY <1>3, FitsChain

\* handle_parent_run_delivery.
LEMMA ChainInsert ==
    ASSUME Inv, Inv', NEW d \in Deliveries, Chain(d), NEW e \in Deliveries, InsertDelivery(e)
    PROVE  Chain(d)'
<1>1. queue \in Seq(Item) /\ Distinct(queue) /\ queue' \in Seq(Item) /\ Distinct(queue')
    BY DEF Inv, QueueInv
<1>2. CASE InsertKnown(e)
    <2>1. InsertResult(queue, ledger, e) \in {"Inserted", "AlreadyPresent", "AlreadyConsumed"}
        BY InsertResultFacts
    <2> QED
        BY <1>1, <1>2, <2>1, FitsNow, ChainReply DEF InsertKnown, session
<1>3. CASE InsertSteering(e)
    BY <1>1, <1>3, FitsNow, ChainReply DEF InsertSteering
<1>4. CASE InsertStarting(e)
    <2> DEFINE s == SnapshotOf(queue', ledger)
               y == [snap |-> s, to |-> "submission", id |-> e, result |-> None, cur |-> TRUE]
               z == Reply(s, e, "Inserted")
    <2>1. writes' = Age(writes) \o <<y, z>> /\ live
        BY <1>4 DEF InsertStarting
    <2>2. LedgerOK(ledger, Shown)
        BY DEF Inv, LedgerInv
    <2>3. s \in Stored /\ s # None /\ s.ledger = ledger
        BY <1>1, <2>2, SnapshotFacts
    <2> HIDE DEF s
    <2>4. y \in Write /\ y.snap = s /\ z \in Write
        BY <2>3 DEF Write, Reply, Results
    <2>5. Fits(Age(writes), ledger, d) /\ Age(writes) \in Seq(Write)
        BY <2>1, FitsNow
    <2> HIDE DEF y, z
    <2>6. Fits(Append(Age(writes), y), ledger, d) /\ Append(Age(writes), y) \in Seq(Write)
        BY <2>3, <2>4, <2>5, FitsAppend
    <2>7. writes' = Append(Append(Age(writes), y), z)
        BY <2>1, <2>4, <2>5
    <2> QED
        BY <1>1, <1>4, <2>1, <2>6, <2>7, ChainReply DEF InsertStarting, z, s
<1>5. CASE InsertNotStarted(e)
    BY <1>1, <1>5, FitsNow, ChainReply DEF InsertNotStarted
<1>6. CASE InsertStored(e)
    <2> DEFINE r == InsertResult(Loaded.queue, Loaded.ledger, e)
               q == IF r = "Inserted" THEN Append(Loaded.queue, [id |-> e, kind |-> "Steering"])
                    ELSE Loaded.queue
               s == [Loaded EXCEPT !.queue = q]
    <2>1. writes' = <<Reply(s, e, r)>> /\ UNCHANGED <<disk, unsaved, live>> /\ ~live
        BY <1>6 DEF InsertStored, session
    <2>2. Loaded \in Stored /\ Loaded # None
        BY <1>6, LoadedFacts DEF InsertStored
    <2>3. s.ledger = Loaded.ledger
        BY <2>2 DEF Stored
    <2> HIDE DEF s, r
    <2>4. DOMAIN writes' = {1} /\ writes'[1].snap = s
        BY <2>1 DEF Reply
    <2>5. Holds(disk, d) \/ Holds(unsaved, d) => Later(s, d)
        BY <2>2, <2>3 DEF Loaded, Chain, Holds, Later
    <2>6. Ordered(writes', d) /\ (Later(s, d) => AllLater(writes', d))
        BY <2>4 DEF Ordered, AllLater, Holds, Later
    <2> QED
        BY <2>1, <2>5, <2>6 DEF Chain
<1>7. CASE InsertDeleted(e) \/ InsertFails(e)
    BY <1>7, ChainSame DEF InsertDeleted, InsertFails, session
<1> QED
    BY <1>2, <1>3, <1>4, <1>5, <1>6, <1>7 DEF InsertDelivery

\* The event loop's other handlers: with room for all, the ledger only grows.
LEMMA ChainLoop ==
    ASSUME Inv, Inv', RoomForAll, NEW d \in Deliveries, Chain(d),
           \/ SubmissionPersisted \/ HandleConsumed \/ HandleDone \/ PeriodicSave
           \/ \E e \in Deliveries : MarkAcknowledged(e)
    PROVE  Chain(d)'
<1>1. queue \in Seq(Item) /\ Distinct(queue) /\ queue' \in Seq(Item) /\ Distinct(queue')
      /\ LedgerOK(ledger, Shown) /\ LedgerOK(ledger', Shown')
    BY DEF Inv, QueueInv, LedgerInv
<1>2. CASE SubmissionPersisted
    <2>1. \/ UNCHANGED writes
          \/ live /\ writes' = Append(writes, Save(queue', ledger))
        BY <1>2 DEF SubmissionPersisted
    <2>2. UNCHANGED <<disk, unsaved, live, ledger>>
        BY <1>2 DEF SubmissionPersisted
    <2> QED
        BY <1>1, <2>1, <2>2, ChainSame, FitsNow, ChainSave
<1>3. CASE HandleConsumed
    <2> DEFINE m == Head(events)
               x == [snap |-> SnapshotOf(queue, ledger'), to |-> "ack", id |-> m.id,
                     result |-> None, cur |-> FALSE]
    <2>1. live /\ m.id \in Shown /\ m.id \in Deliveries
        BY <1>3, EventsTail DEF HandleConsumed, Shown
    <2>2. UNCHANGED <<disk, unsaved, live>>
          /\ \/ UNCHANGED <<ledger, writes>>
             \/ ledger' \in Recorded(ledger, m.id) /\ writes' = Append(writes, x)
        BY <1>3 DEF HandleConsumed
    <2>3. CASE ledger' \in Recorded(ledger, m.id) /\ writes' = Append(writes, x)
        <3>1. Ids(ledger) \subseteq Ids(ledger')
            <4>1. CASE m.id \in Ids(ledger)
                BY <2>3, <4>1 DEF Recorded
            <4>2. CASE m.id \notin Ids(ledger)
                BY <1>1, <2>1, <2>3, <4>2, LedgerRoom, RecordedFacts
            <4> QED
                BY <4>1, <4>2
        <3> DEFINE s == SnapshotOf(queue, ledger')
        <3>2. s \in Stored /\ s # None /\ s.ledger = ledger'
            BY <1>1, SnapshotFacts
        <3> HIDE DEF m, s
        <3>3. x \in Write /\ x.snap # None /\ x.snap.ledger = ledger'
            BY <2>1, <3>2 DEF Write, s
        <3>4. writes \in Seq(Write) /\ Fits(writes, ledger', d)
            <4>1. Fits(writes, ledger, d) /\ writes \in Seq(Write)
                BY <2>1, FitsNow
            <4> QED
                BY <3>1, <4>1 DEF Fits
        <3> HIDE DEF x
        <3>5. Fits(writes', ledger', d)
            BY <2>3, <3>3, <3>4, FitsAppend
        <3> QED
            BY <2>2, <3>5, FitsChain
    <2> QED
        BY <2>2, <2>3, ChainSame
<1>4. CASE HandleDone
    <2>1. live
        BY <1>4, EventsTail DEF HandleDone
    <2> QED
        BY <1>1, <1>4, <2>1, FitsNow, ChainSave DEF HandleDone
<1>5. CASE PeriodicSave
    <2>1. writes' = Append(writes, Save(queue, ledger))
        BY <1>5 DEF PeriodicSave
    <2> QED
        BY <1>1, <1>5, <2>1, FitsNow, ChainSave DEF PeriodicSave, session
<1>6. CASE \E e \in Deliveries : MarkAcknowledged(e)
    <2>1. PICK e \in Deliveries : MarkAcknowledged(e)
        BY <1>6
    <2>2. UNCHANGED <<disk, unsaved, live>>
        BY <2>1 DEF MarkAcknowledged
    <2>3. CASE live /\ ledger' = Marked(ledger, e) /\ UNCHANGED writes
        <3>1. Ids(ledger') = Ids(ledger)
            BY <1>1, <2>3, MarkedFacts
        <3> QED
            BY <2>2, <2>3, <3>1 DEF Chain
    <2>4. CASE UNCHANGED <<ledger, writes>>
        BY <2>2, <2>4, ChainSame
    <2>5. CASE /\ ~live /\ writes = <<>> /\ e \in Ids(LoadedLedger)
               /\ writes' = <<Put([Loaded EXCEPT !.ledger = Marked(Loaded.ledger, e)])>>
        <3> DEFINE s == [Loaded EXCEPT !.ledger = Marked(Loaded.ledger, e)]
        <3>1. Loaded # None
            BY <2>5 DEF LoadedLedger, Ids
        <3>2. Loaded \in Stored /\ LedgerOK(Loaded.ledger, Shown)
            BY <3>1, LoadedFacts
        <3>3. s.ledger = Marked(Loaded.ledger, e)
            BY <3>2 DEF Stored
        <3>4. Ids(s.ledger) = Ids(Loaded.ledger)
            BY <3>2, <3>3, MarkedFacts
        <3>5. writes' = <<Put(s)>>
            BY <2>5
        <3> HIDE DEF s
        <3>6. DOMAIN writes' = {1} /\ writes'[1].snap = s
            BY <3>5 DEF Put
        <3>7. Holds(disk, d) \/ Holds(unsaved, d) => Later(s, d)
            BY <3>1, <3>4 DEF Loaded, Chain, Holds, Later
        <3>8. Ordered(writes', d) /\ (Later(s, d) => AllLater(writes', d))
            BY <3>6 DEF Ordered, AllLater, Holds, Later
        <3> QED
            BY <2>2, <2>5, <3>7, <3>8 DEF Chain
    <2> QED
        BY <2>1, <2>3, <2>4, <2>5 DEF MarkAcknowledged
<1> QED
    BY <1>2, <1>3, <1>4, <1>5, <1>6

\* The user's steps.
LEMMA ChainUser ==
    ASSUME Inv, Inv', NEW d \in Deliveries, Chain(d), User
    PROVE  Chain(d)'
<1>1. CASE OpenSession
    <2>1. writes = <<>> /\ UNCHANGED <<disk, unsaved, writes>> /\ ledger' = Loaded.ledger
          /\ Loaded # None
        BY <1>1 DEF OpenSession
    <2>2. ~SomeHolds(writes, d)
        BY <2>1, OrderedEmpty
    <2>3. Holds(disk, d) \/ Holds(unsaved, d) => d \in Ids(Loaded.ledger)
        BY <2>1 DEF Loaded, Chain, Holds, Later
    <2> QED
        BY <2>1, <2>2, <2>3 DEF Chain
<1>2. CASE UserTurn
    <2>1. Fits(writes', ledger', d)
        BY <1>2, FitsNow DEF UserTurn
    <2> QED
        BY <1>2, <2>1, FitsChain DEF UserTurn
<1>3. CASE UserCancel
    BY <1>3, FitsNow, EmptyFacts, ChainSave DEF UserCancel
<1>4. CASE DeleteSession
    <2>1. Put(None) \in Write /\ Put(None).snap = None /\ writes \in Seq(Write)
        BY DEF Put, Write, Inv, WritesInv, WritesOK
    <2>2. writes' = Append(writes, Put(None)) /\ ~live' /\ UNCHANGED <<disk, unsaved>>
        BY <1>4 DEF DeleteSession
    <2>3. Later(None, d)
        BY DEF Later
    <2>4. /\ Ordered(writes, d) => Ordered(writes', d)
          /\ AllLater(writes, d) => AllLater(writes', d)
        BY <2>1, <2>2, <2>3, OrderedAppend
    <2> QED
        BY <2>2, <2>4 DEF Chain
<1> QED
    BY <1>1, <1>2, <1>3, <1>4 DEF User

\* The writer's steps: the file never loses what it holds, unless it is deleted.
LEMMA ChainStorage ==
    ASSUME Inv, NEW d \in Deliveries, Chain(d), Storage
    PROVE  Chain(d)' /\ (Later(disk, d) => Later(disk', d))
<1>1. writes \in Seq(Write) /\ (disk = None => unsaved = None /\ AllDrops(writes))
    BY DEF Inv, WritesInv, WritesOK, Deletion
<1>2. CASE WriteSucceeds
    <2>1. writes # <<>> /\ writes' = Tail(writes) /\ disk' = Head(writes).snap /\ unsaved' = None
          /\ UNCHANGED <<live, ledger>>
        BY <1>2 DEF WriteSucceeds, session
    <2>2. Ordered(writes', d) /\ (Holds(disk', d) => AllLater(writes', d))
        BY <1>1, <2>1, OrderedTail DEF Chain
    <2>3. ~Holds(unsaved', d) /\ Later(unsaved', d)
        BY <2>1 DEF Holds, Later
    <2>4. Holds(disk', d) \/ SomeHolds(writes', d) => SomeHolds(writes, d)
        BY <1>1, <2>1, OrderedTail
    <2>5. Later(disk, d) => Later(disk', d)
        <3>1. CASE disk = None
            BY <1>1, <2>1, <3>1, DropsFacts DEF Later
        <3>2. CASE Holds(disk, d)
            BY <1>1, <2>1, <3>2, OrderedTail DEF Chain
        <3> QED
            BY <3>1, <3>2 DEF Later, Holds
    <2> QED
        BY <2>1, <2>2, <2>3, <2>4, <2>5 DEF Chain
<1>3. CASE WriteFails
    <2>1. writes # <<>> /\ writes' = Tail(writes) /\ UNCHANGED <<disk, live, ledger>>
          /\ unsaved' = (IF Head(writes).snap = None THEN unsaved ELSE Head(writes).snap)
        BY <1>3 DEF WriteFails, session
    <2>2. /\ Ordered(writes', d) /\ (Holds(disk, d) => Later(Head(writes).snap, d))
          /\ AllLater(writes, d) => AllLater(writes', d)
          /\ Holds(Head(writes).snap, d) => AllLater(writes', d) /\ SomeHolds(writes, d)
          /\ SomeHolds(writes', d) => SomeHolds(writes, d)
        BY <1>1, <2>1, OrderedTail DEF Chain
    <2>3. CASE Head(writes).snap = None
        BY <2>1, <2>2, <2>3 DEF Chain
    <2>4. CASE Head(writes).snap # None
        BY <2>1, <2>2, <2>4 DEF Chain
    <2> QED
        BY <2>1, <2>3, <2>4
<1>4. CASE Flush
    <2>1. writes = <<>> /\ UNCHANGED <<writes, live, ledger>> /\ unsaved' = None /\ unsaved # None
          /\ disk' \in {disk, unsaved}
        BY <1>4 DEF Flush, session
    <2>2. Ordered(writes', d) /\ AllLater(writes', d) /\ ~SomeHolds(writes', d)
        BY <2>1, OrderedEmpty
    <2>3. ~Holds(unsaved', d) /\ Later(unsaved', d)
        BY <2>1 DEF Holds, Later
    <2>4. Later(disk, d) => Later(disk', d)
        BY <1>1, <2>1 DEF Chain, Later, Holds
    <2>5. live' /\ Holds(disk', d) => d \in Ids(ledger')
        BY <2>1 DEF Chain
    <2> QED
        BY <2>2, <2>3, <2>4, <2>5 DEF Chain
<1> QED
    BY <1>2, <1>3, <1>4 DEF Storage

\* Without a write, nothing becomes settled that was not.
LEMMA SettledSame ==
    ASSUME NEW d, UNCHANGED <<outbox, acks>>,
           disp' = disp \/ disp'.stage # "replied" \/ disp'.result # "AlreadyConsumed"
    PROVE  Settled(d)' => Settled(d)
BY DEF Settled

\* An acknowledgement is an answer of the store, or follows one.
LEMMA SettledDispatch ==
    ASSUME Inv, NEW d \in Deliveries, Dispatch \/ \E e \in Deliveries : Acknowledge(e)
    PROVE  Settled(d)' => Settled(d)
<1>1. outbox \in [Deliveries -> OutboxStates] /\ disp \in Dispatcher
    BY DEF Inv, Types, DispInv
<1>2. CASE Scan
    <2>1. disp'.stage = "batch" /\ UNCHANGED <<outbox, acks>>
        BY <1>2 DEF Scan, IdleDispatcher
    <2> QED
        BY <2>1, SettledSame
<1>3. CASE \E e \in Deliveries : Offer(e)
    <2>1. disp'.stage = "offered" /\ UNCHANGED <<outbox, acks>>
        BY <1>1, <1>3 DEF Offer, Dispatcher
    <2> QED
        BY <2>1, SettledSame
<1>4. CASE Apply
    <2>1. disp.stage = "replied" /\ UNCHANGED acks
        BY <1>4 DEF Apply
    <2>2. disp'.stage # "replied"
        <3>1. \/ disp' = IdleDispatcher
              \/ disp' = [disp EXCEPT !.stage = "batch", !.at = None, !.result = None]
            BY <1>4 DEF Apply
        <3>2. CASE disp' = IdleDispatcher
            BY <3>2 DEF IdleDispatcher
        <3>3. CASE disp' = [disp EXCEPT !.stage = "batch", !.at = None, !.result = None]
            BY <1>1, <3>3 DEF Dispatcher
        <3> QED
            BY <3>1, <3>2, <3>3
    <2>3. disp.at \in Deliveries
        BY <2>1 DEF Inv, DispInv
    <2>4. Outcome(disp.result) = "acknowledged" => disp.result = "AlreadyConsumed"
        BY DEF Outcome
    <2>5. outbox'[d] = "acknowledged" =>
              outbox[d] = "acknowledged" \/ (d = disp.at /\ disp.result = "AlreadyConsumed")
        <3> DEFINE to == Outcome(disp.result)
        <3>1. \/ outbox' = outbox
              \/ outbox' = [outbox EXCEPT ![disp.at] = IF to = "retry" THEN @ ELSE to]
            BY <1>4 DEF Apply
        <3> HIDE DEF to
        <3>2. to = "acknowledged" => disp.result = "AlreadyConsumed"
            BY <2>4 DEF to
        <3> QED
            BY <1>1, <2>3, <3>1, <3>2
    <2> QED
        BY <2>1, <2>2, <2>5 DEF Settled
<1>5. CASE \E e \in Deliveries : Acknowledge(e)
    <2>1. PICK e \in Deliveries : Acknowledge(e)
        BY <1>5
    <2>2. e \in acks /\ acks' \subseteq acks /\ UNCHANGED disp
          /\ (outbox' = outbox \/ outbox' = [outbox EXCEPT ![e] = "acknowledged"])
        BY <2>1 DEF Acknowledge
    <2> QED
        BY <1>1, <2>2 DEF Settled
<1> QED
    BY <1>2, <1>3, <1>4, <1>5 DEF Dispatch

\* The event loop answers the dispatcher itself only with a failure or a deletion.
LEMMA SettledLoop ==
    ASSUME Inv, NEW d \in Deliveries, Agent \/ Loop \/ User \/ Crash \/ UNCHANGED vars
    PROVE  Settled(d)' => Settled(d)
<1>1. disp \in Dispatcher
    BY DEF Inv, DispInv
<1>2. ASSUME NEW e \in Deliveries, InsertDelivery(e)
      PROVE  Settled(d)' => Settled(d)
    <2>1. Persisting => disp'.stage = "persisting"
        BY <1>1 DEF Persisting, Dispatcher
    <2>2. \A r \in {"Unavailable", "Err"} : Answer(r) => disp'.result = r
        BY <1>1 DEF Answer, Dispatcher
    <2>3. UNCHANGED <<outbox, acks>>
        BY <1>2 DEF InsertDelivery, InsertKnown, InsertSteering, InsertStarting, InsertNotStarted,
                    InsertStored, InsertDeleted, InsertFails
    <2>4. Persisting \/ \E r \in {"Unavailable", "Err"} : Answer(r)
        BY <1>2 DEF InsertDelivery, InsertKnown, InsertSteering, InsertStarting, InsertNotStarted,
                    InsertStored, InsertDeleted, InsertFails
    <2> QED
        BY <2>1, <2>2, <2>3, <2>4, SettledSame
<1>3. CASE Agent
    <2>1. UNCHANGED <<outbox, acks, disp>>
        BY <1>3 DEF Agent, AgentPop, AgentPoll, AgentEnds, AgentFails, AgentDone
    <2> QED
        BY <2>1, SettledSame
<1>4. CASE User
    <2>1. UNCHANGED <<outbox, acks, disp>>
        BY <1>4 DEF User, OpenSession, UserTurn, UserCancel, DeleteSession
    <2> QED
        BY <2>1, SettledSame
<1>5. ASSUME SubmissionPersisted \/ HandleConsumed \/ HandleDone \/ PeriodicSave
             \/ \E e \in Deliveries : MarkAcknowledged(e)
      PROVE  Settled(d)' => Settled(d)
    <2>1. UNCHANGED <<outbox, acks, disp>>
        BY <1>5 DEF SubmissionPersisted, HandleConsumed, HandleDone, PeriodicSave, MarkAcknowledged
    <2> QED
        BY <2>1, SettledSame
<1>6. CASE Crash
    <2>1. UNCHANGED outbox /\ acks' = {} /\ disp'.stage = "idle"
        BY <1>6 DEF Crash, IdleDispatcher
    <2> QED
        BY <2>1 DEF Settled
<1>7. CASE UNCHANGED vars
    BY <1>7, SettledSame DEF vars
<1> QED
    BY <1>2, <1>3, <1>4, <1>5, <1>6, <1>7 DEF Loop

\* A callback settles a delivery only when the file that was written records it.
LEMMA SettledStorage ==
    ASSUME Inv, NEW d \in Deliveries, Storage
    PROVE  Settled(d)' => Settled(d) \/ Holds(disk', d)
<1>1. disp \in Dispatcher
    BY DEF Inv, DispInv
<1>2. CASE Flush
    <2>1. UNCHANGED <<outbox, acks, disp>>
        BY <1>2 DEF Flush
    <2> QED
        BY <2>1, SettledSame
<1>3. ASSUME NEW ok \in BOOLEAN, writes # <<>>, Callback(Head(writes), ok), UNCHANGED outbox,
             ok => disk' = Head(writes).snap
      PROVE  Settled(d)' => Settled(d) \/ Holds(disk', d)
    <2> DEFINE x == Head(writes)
               r == IF ok THEN x.result ELSE "Err"
    <2>1. WriteOK(x, Shown, Addressee)
        BY <1>3, WritesTail DEF Inv, WritesInv
    <2>2. /\ disp' = IF x.to = "reply" THEN [disp EXCEPT !.stage = "replied", !.result = r] ELSE disp
          /\ acks' = IF x.to = "ack" /\ ok THEN acks \cup {x.id} ELSE acks
        BY <1>3 DEF Callback
    <2>3. r = "AlreadyConsumed" => ok /\ x.result = "AlreadyConsumed"
        OBVIOUS
    <2>4. ok => disk' = x.snap
        BY <1>3
    <2> HIDE DEF x, r
    <2>5. CASE x.to = "reply"
        <3>1. x.id = Addressee /\ x.id \in Deliveries
              /\ (x.result = "AlreadyConsumed" => Holds(x.snap, x.id))
            BY <2>1, <2>5 DEF WriteOK
        <3>2. disp.at = x.id
            BY <3>1, NoneAssumption DEF Addressee
        <3>3. disp'.result = r /\ disp'.at = x.id
            BY <1>1, <2>2, <2>5, <3>2 DEF Dispatcher
        <3>4. acks' = acks
            BY <2>2, <2>5
        <3> QED
            BY <1>3, <2>3, <2>4, <3>1, <3>3, <3>4 DEF Settled
    <2>6. CASE x.to = "ack"
        <3>1. Holds(x.snap, x.id) /\ disp' = disp
            BY <2>1, <2>2, <2>6 DEF WriteOK
        <3> QED
            BY <1>3, <2>2, <2>4, <3>1 DEF Settled
    <2>7. CASE x.to \notin {"reply", "ack"}
        BY <1>3, <2>2, <2>7, SettledSame
    <2> QED
        BY <2>5, <2>6, <2>7
<1>4. CASE WriteSucceeds
    BY <1>3, <1>4 DEF WriteSucceeds
<1>5. CASE WriteFails
    <2>1. writes # <<>> /\ Callback(Head(writes), FALSE) /\ UNCHANGED outbox
        BY <1>5 DEF WriteFails
    <2> QED
        BY <1>3, <2>1
<1> QED
    BY <1>2, <1>4, <1>5 DEF Storage

\* Initially nothing is consumed.
LEMMA InitDurable == Init => DurableInv
<1> SUFFICES ASSUME Init, NEW d \in Deliveries
             PROVE  Chain(d) /\ (Settled(d) => Later(disk, d))
    BY DEF DurableInv
<1>1. Ids(<<>>) = {} /\ EmptySession.ledger = <<>>
    BY DEF Ids, EmptySession
<1>2. ~Holds(disk, d) /\ ~Holds(unsaved, d) /\ writes = <<>>
    BY <1>1 DEF Init, Holds
<1>3. Chain(d)
    BY <1>2, OrderedEmpty DEF Init, Chain
<1>4. ~Settled(d)
    BY DEF Init, Settled, IdleDispatcher
<1> QED
    BY <1>3, <1>4

\* Every step keeps the order of the snapshots, and settles only what the file holds.
LEMMA NextDurable ==
    ASSUME Inv, Inv', RoomForAll, DurableInv, [Next]_vars
    PROVE  DurableInv'
<1> SUFFICES ASSUME NEW d \in Deliveries
             PROVE  Chain(d)' /\ (Settled(d)' => Later(disk', d))
    BY DEF DurableInv
<1>1. Chain(d) /\ (Settled(d) => Later(disk, d))
    BY DEF DurableInv
<1>2. CASE Storage
    BY <1>1, <1>2, ChainStorage, SettledStorage DEF Later, Holds
<1>3. CASE Dispatch \/ \E e \in Deliveries : Acknowledge(e)
    <2>1. UNCHANGED <<disk, unsaved, writes, live, ledger>>
        BY <1>3 DEF Dispatch, Scan, Offer, Apply, Acknowledge, session
    <2> QED
        BY <1>1, <1>3, <2>1, ChainSame, SettledDispatch
<1>4. CASE Agent \/ UNCHANGED vars
    <2>1. UNCHANGED <<disk, unsaved, writes, live, ledger>>
        BY <1>4 DEF Agent, AgentPop, AgentPoll, AgentEnds, AgentFails, AgentDone, session, vars
    <2> QED
        BY <1>1, <1>4, <2>1, ChainSame, SettledLoop
<1>5. CASE Loop
    <2>1. Chain(d)'
        BY <1>1, <1>5, ChainInsert, ChainLoop DEF Loop
    <2>2. UNCHANGED disk
        BY <1>5 DEF Loop, InsertDelivery, InsertKnown, InsertSteering, InsertStarting,
                    InsertNotStarted, InsertStored, InsertDeleted, InsertFails, MarkAcknowledged,
                    SubmissionPersisted, HandleConsumed, HandleDone, PeriodicSave
    <2> QED
        BY <1>1, <1>5, <2>1, <2>2, SettledLoop
<1>6. CASE User
    <2>1. UNCHANGED disk
        BY <1>6 DEF User, OpenSession, UserTurn, UserCancel, DeleteSession
    <2> QED
        BY <1>1, <1>6, <2>1, ChainUser, SettledLoop
<1>7. CASE Crash
    <2>1. UNCHANGED disk /\ unsaved' = None /\ writes' = <<>> /\ ~live'
        BY <1>7 DEF Crash
    <2>2. Chain(d)'
        BY <2>1, OrderedEmpty DEF Chain, Holds, Later
    <2> QED
        BY <1>1, <1>7, <2>1, <2>2, SettledLoop
<1> QED
    BY <1>2, <1>3, <1>4, <1>5, <1>6, <1>7 DEF Next

\* When the ledger has room for every delivery, an acknowledged one is recorded in the
\* session on disk until that is deleted, through crashes, failed writes and
\* reopenings (acknowledge_consumed_run_delivery persists before it acknowledges).
THEOREM DeliveryAcknowledgedDurable == Spec => []AcknowledgedIsDurable
<1> DEFINE D == RoomForAll => DurableInv
<1>1. Init => D
    BY InitDurable
<1>2. Inv /\ Inv' /\ D /\ [Next]_vars => D'
    BY NextDurable DEF RoomForAll
<1>3. Inv /\ D => AcknowledgedIsDurable
    BY DEF RoomForAll, DurableInv, Settled, Later, AcknowledgedIsDurable
<1> HIDE DEF D
<1> QED
    BY <1>1, <1>2, <1>3, DeliveryInvariant, PTL DEF Spec
=============================================================================
