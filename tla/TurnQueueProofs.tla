--------------------------- MODULE TurnQueueProofs ---------------------------
(***************************************************************************)
(* Theorems about TurnQueue, for any number of submissions, cancellations  *)
(* and failures: its types, that nothing restored, unsaved or cancelled is *)
(* sent, that the order is kept, and that a session is released only when  *)
(* its agent has nothing left to do.                                       *)
(***************************************************************************)
EXTENDS TurnQueue, SequenceFacts, FiniteSetTheorems, TLAPS

-----------------------------------------------------------------------------
(* The inductive invariant.                                                *)

\* A submission with a turn of its own, which waits for its write.
Started(su, i) == su[i].how # "queued"

\* The runs that are cancelled, whether or not the router has heard of it.
Dead == routed \cup {cmds[k] : k \in DOMAIN cmds}

Counters ==
    /\ gen \in Nat /\ wake \in BOOLEAN /\ astray \in BOOLEAN
    /\ cancels \in 0..MaxCancels /\ faults \in 0..MaxFaults

UiState == [status : {"idle", "streaming", "error"}, run : Nat, pending : Nat, active : BOOLEAN]

\* Every run was begun by a submission, a restore or a cancellation.
UiInv ==
    /\ ui \in UiState
    /\ ui.pending # 0 => ui.pending \in DOMAIN subs /\ Painted(ui.pending)
    /\ IsFiniteSet(back) /\ ui.run <= Len(subs) + Cardinality(back) + cancels

\* A submission is cancelled before it is stored or by leaving its run.
SubOK(s, r, written) ==
    /\ s.run <= r
    /\ s.how = "queued" => s.st = "settled" /\ s.gate # "cancelled"
    /\ written => s.st = "settled"
    /\ s.gate = "cancelled" /\ (s.st # "settled" \/ written) => s.run < r

SubsInv ==
    /\ subs \in Seq(Submission) /\ Len(subs) <= MaxSubs
    /\ stored \subseteq DOMAIN subs /\ back \subseteq DOMAIN subs
    /\ \A i \in DOMAIN subs : SubOK(subs[i], ui.run, i \in stored)
    /\ \A i \in back : subs[i].gate = "cancelled" /\ subs[i].how = "painted"

Increasing(q) == \A j, k \in DOMAIN q : j < k => q[j].id < q[k].id

\* An entry is that of its submission, and is ready once that is stored.
EntryOK(e, su, sto, dead) ==
    /\ e.id \in DOMAIN su /\ e.run = su[e.id].run /\ e.run \notin dead
    /\ e.kind # "turn" => ~Started(su, e.id)
    /\ ~Started(su, e.id) => e.ready
    /\ e.ready /\ Started(su, e.id) => e.id \in sto

EntriesOK(q, su, sto, dead) == \A k \in DOMAIN q : EntryOK(q[k], su, sto, dead)

QueueInv ==
    /\ queue \in Seq(QueueItem) /\ Increasing(queue)
    /\ EntriesOK(queue, subs, stored, Dead)

\* What the agent has sent or is about to send.
InHand == IF agent.pc = "register" THEN <<agent.id>> ELSE agent.batch
Order  == sent \o InHand

InLine(o, su) ==
    \A j, k \in DOMAIN o : j < k =>
        /\ o[j] # o[k]
        /\ Started(su, o[j]) /\ Started(su, o[k]) => o[j] < o[k]

\* An entry of the queue may still come after x.
After(e, x, su) ==
    /\ e.id # x
    /\ e.ready \/ e.id > x
    /\ Started(su, x) /\ Started(su, e.id) => e.id > x

Ahead(o, q, su) == \A j \in DOMAIN o : \A k \in DOMAIN q : After(q[k], o[j], su)

OrderOK(o, q, su) ==
    /\ o \in Seq(Ids) /\ \A k \in DOMAIN o : o[k] \in DOMAIN su
    /\ InLine(o, su)
    /\ Ahead(o, q, su)

OrderInv == sent \in Seq(Ids) /\ OrderOK(Order, queue, subs)

Busy    == InRun \cup {"register"}
Batched == {"prepare", "turn", "stream", "tool", "safe"}

\* A run belongs to its submission, and what it sends has claimed its gate.
AgentInv ==
    /\ agent \in Agent /\ minRun \in Nat /\ minRun <= ui.run
    /\ agent.pc \notin Batched => agent.batch = <<>>
    /\ agent.pc \in Busy =>
          /\ agent.id \in DOMAIN subs /\ agent.run = subs[agent.id].run
          /\ Started(subs, agent.id) => agent.id \in stored
    /\ \A k \in DOMAIN agent.batch : agent.batch[k] = agent.id \/ ~Started(subs, agent.batch[k])

SentInv ==
    \A k \in DOMAIN sent :
        Started(subs, sent[k]) => subs[sent[k]].gate = "committed" /\ sent[k] \in stored

\* A cancelled run has its cancellation in the map or in its token.
MapInv ==
    /\ map \in [Runs -> {"none", "live", "pre"}] /\ cmds \in Seq(Runs) /\ routed \subseteq Runs
    /\ \A r \in Dead : r < ui.run
    /\ \A r \in Runs : /\ map[r] = "live" => r = agent.run /\ agent.pc \in InRun
                       /\ map[r] = "pre" => r \in routed
    /\ agent.pc = "register" /\ agent.run \in routed => map[agent.run] = "pre"
    /\ agent.pc \in InRun => /\ map[agent.run] = "live" \/ agent.tok
                             /\ agent.tok <=> agent.run \in routed

Resting == {"wait", "pop", "drain"}

\* A drain that is still true finds the agent at rest.
EventsOK(es, g, empty, pc) ==
    \A k \in DOMAIN es : es[k].t = "drained" =>
        es[k].gen <= g /\ (es[k].gen = g => empty /\ pc \in Resting)

EventsInv == events \in Seq(Event) /\ EventsOK(events, gen, queue = <<>>, agent.pc)

Inv ==
    /\ Counters /\ UiInv /\ SubsInv /\ QueueInv /\ OrderInv /\ AgentInv /\ SentInv
    /\ MapInv /\ EventsInv

-----------------------------------------------------------------------------
(* Submissions and queues.                                                 *)

\* su is what becomes of ss: a submission keeps its run and its kind, and a gate that
\* is committed stays so.
Grows(ss, su) ==
    /\ DOMAIN ss \subseteq DOMAIN su
    /\ \A i \in DOMAIN ss : /\ su[i].how = ss[i].how /\ su[i].run = ss[i].run
                            /\ ss[i].gate = "committed" => su[i].gate = "committed"

\* q holds entries of p, ready or made ready, and otherwise later submissions than n.
Derived(q, p, n) ==
    \A k \in DOMAIN q :
        \/ q[k].id > n
        \/ \E j \in DOMAIN p : q[k].id = p[j].id /\ (p[j].ready => q[k].ready)

\* Submit.
LEMMA SubmitFacts ==
    ASSUME NEW ss \in Seq(Submission), NEW s \in Submission
    PROVE  /\ Append(ss, s) \in Seq(Submission) /\ Len(Append(ss, s)) = Len(ss) + 1
           /\ DOMAIN Append(ss, s) = 1..(Len(ss) + 1) /\ Append(ss, s)[Len(ss) + 1] = s
           /\ \A i \in DOMAIN ss : Append(ss, s)[i] = ss[i]
           /\ Grows(ss, Append(ss, s))
<1> DEFINE su == Append(ss, s)
<1>1. /\ su \in Seq(Submission) /\ Len(ss) \in Nat /\ Len(su) = Len(ss) + 1
      /\ DOMAIN ss = 1..Len(ss) /\ DOMAIN su = 1..(Len(ss) + 1)
      /\ su[Len(ss) + 1] = s /\ \A i \in 1..Len(ss) : su[i] = ss[i]
    BY AppendEntries
<1> HIDE DEF su
<1>2. Grows(ss, su) /\ \A i \in DOMAIN ss : su[i] = ss[i]
    BY <1>1 DEF Grows
<1> QED
    BY <1>1, <1>2 DEF su

\* An entry keeps its submission.
LEMMA EntryKept ==
    ASSUME NEW e, NEW ss, NEW su, NEW sto, NEW sto2, NEW dead, NEW dead2,
           EntryOK(e, ss, sto, dead), Grows(ss, su), sto \subseteq sto2, e.run \notin dead2
    PROVE  EntryOK(e, su, sto2, dead2)
<1>1. su[e.id].how = ss[e.id].how /\ su[e.id].run = ss[e.id].run /\ e.id \in DOMAIN su
    BY DEF EntryOK, Grows
<1> QED
    BY <1>1 DEF EntryOK, Started

\* Taking one entry out of the queue.
LEMMA RemoveEntry ==
    ASSUME NEW q \in Seq(QueueItem), NEW i \in DOMAIN q, NEW r, r = RemoveAt(q, i)
    PROVE  /\ r \in Seq(QueueItem)
           /\ \A k \in DOMAIN r : \E m \in DOMAIN q : m # i /\ r[k] = q[m]
           /\ Increasing(q) => Increasing(r)
           /\ \A n : Derived(r, q, n)
<1>1. /\ r \in Seq(QueueItem) /\ Len(r) = Len(q) - 1 /\ i \in 1..Len(q) /\ Len(q) \in Nat
      /\ DOMAIN r = 1..(Len(q) - 1) /\ DOMAIN q = 1..Len(q)
      /\ \A k \in 1..(Len(q) - 1) : r[k] = IF k < i THEN q[k] ELSE q[k + 1]
    BY RemoveAtFacts
<1>2. \A k \in DOMAIN r : \E m \in DOMAIN q : m # i /\ r[k] = q[m]
    <2> SUFFICES ASSUME NEW k \in DOMAIN r
                 PROVE  \E m \in DOMAIN q : m # i /\ r[k] = q[m]
        OBVIOUS
    <2>1. CASE k < i
        <3>1. k \in DOMAIN q /\ k # i /\ r[k] = q[k]
            BY <1>1, <2>1
        <3> QED
            BY <3>1
    <2>2. CASE ~(k < i)
        <3>1. k + 1 \in DOMAIN q /\ k + 1 # i /\ r[k] = q[k + 1]
            BY <1>1, <2>2
        <3> QED
            BY <3>1
    <2> QED
        BY <2>1, <2>2
<1>3. ASSUME Increasing(q), NEW j \in DOMAIN r, NEW k \in DOMAIN r, j < k
      PROVE  r[j].id < r[k].id
    <2> DEFINE jj == IF j < i THEN j ELSE j + 1
               kk == IF k < i THEN k ELSE k + 1
    <2>1. jj \in DOMAIN q /\ kk \in DOMAIN q /\ r[j] = q[jj] /\ r[k] = q[kk] /\ jj < kk
        BY <1>1, <1>3
    <2> HIDE DEF jj, kk
    <2> QED
        BY <1>3, <2>1 DEF Increasing
<1>4. Increasing(q) => Increasing(r)
    BY <1>3 DEF Increasing
<1>5. ASSUME NEW n
      PROVE  Derived(r, q, n)
    BY <1>2 DEF Derived
<1> QED
    BY <1>1, <1>2, <1>4, <1>5

\* Pushing the entry of a new submission.
LEMMA PushEntry ==
    ASSUME NEW q \in Seq(QueueItem), NEW e \in QueueItem, Increasing(q),
           \A m \in DOMAIN q : q[m].id < e.id, NEW n, n < e.id
    PROVE  /\ Append(q, e) \in Seq(QueueItem) /\ Increasing(Append(q, e))
           /\ \A k \in DOMAIN Append(q, e) :
                 Append(q, e)[k] = e \/ \E m \in DOMAIN q : Append(q, e)[k] = q[m]
           /\ Derived(Append(q, e), q, n)
<1> DEFINE r == Append(q, e)
<1>1. /\ r \in Seq(QueueItem) /\ Len(q) \in Nat /\ DOMAIN r = 1..(Len(q) + 1)
      /\ DOMAIN q = 1..Len(q) /\ r[Len(q) + 1] = e /\ \A k \in 1..Len(q) : r[k] = q[k]
    BY AppendEntries
<1> HIDE DEF r
<1>3. \A k \in DOMAIN r : (k = Len(q) + 1 /\ r[k] = e) \/ (k \in DOMAIN q /\ r[k] = q[k])
    BY <1>1
<1>4. Increasing(r)
    <2> SUFFICES ASSUME NEW j \in DOMAIN r, NEW k \in DOMAIN r, j < k
                 PROVE  r[j].id < r[k].id
        BY DEF Increasing
    <2>1. j \in DOMAIN q /\ r[j] = q[j]
        BY <1>1
    <2>2. CASE k = Len(q) + 1
        BY <1>1, <2>1, <2>2
    <2>3. CASE k # Len(q) + 1
        BY <1>1, <2>1, <2>3 DEF Increasing
    <2> QED
        BY <2>2, <2>3
<1>5. Derived(r, q, n)
    <2> SUFFICES ASSUME NEW k \in DOMAIN r
                 PROVE  \/ r[k].id > n
                        \/ \E j \in DOMAIN q : r[k].id = q[j].id /\ (q[j].ready => r[k].ready)
        BY DEF Derived
    <2> QED
        BY <1>3
<1> QED
    BY <1>1, <1>3, <1>4, <1>5 DEF r

\* A change of the entries that leaves their ids.
LEMMA SameEntries ==
    ASSUME NEW q \in Seq(QueueItem), NEW r \in Seq(QueueItem), DOMAIN r = DOMAIN q,
           \A k \in DOMAIN q : r[k].id = q[k].id /\ (q[k].ready => r[k].ready)
    PROVE  /\ Increasing(q) => Increasing(r)
           /\ \A n : Derived(r, q, n)
<1>1. Increasing(q) => Increasing(r)
    BY DEF Increasing
<1>2. \A n : Derived(r, q, n)
    BY DEF Derived
<1> QED
    BY <1>1, <1>2

\* An empty queue.
LEMMA EmptyQueue ==
    ASSUME NEW su, NEW sto, NEW dead, NEW p, NEW n
    PROVE  <<>> \in Seq(QueueItem) /\ Increasing(<<>>) /\ EntriesOK(<<>>, su, sto, dead)
           /\ Derived(<<>>, p, n)
<1>1. <<>> \in Seq(QueueItem)
    OBVIOUS
<1> QED
    BY <1>1 DEF Increasing, EntriesOK, Derived

\* remove_submission: at most one entry goes.
LEMMA WithoutFacts ==
    ASSUME QueueInv, NEW i
    PROVE  /\ Without(i) \in Seq(QueueItem) /\ Increasing(Without(i))
           /\ EntriesOK(Without(i), subs, stored, Dead)
           /\ \A n : Derived(Without(i), queue, n)
           /\ \A k \in DOMAIN Without(i) : Without(i)[k].id # i
           /\ queue = <<>> => Without(i) = <<>>
<1> DEFINE r == Without(i)
<1>1. queue \in Seq(QueueItem) /\ Increasing(queue) /\ EntriesOK(queue, subs, stored, Dead)
    BY DEF QueueInv
<1>2. CASE InQueue(i)
    <2>1. PICK m \in DOMAIN queue : m = CHOOSE k \in DOMAIN queue : queue[k].id = i
        BY <1>2 DEF InQueue
    <2>2. queue[m].id = i
        BY <1>2, <2>1 DEF InQueue
    <2>3. r = RemoveAt(queue, m)
        BY <1>2, <2>1 DEF Without
    <2> HIDE DEF r
    <2>4. /\ r \in Seq(QueueItem) /\ Increasing(r) /\ \A n : Derived(r, queue, n)
          /\ \A k \in DOMAIN r : \E j \in DOMAIN queue : j # m /\ r[k] = queue[j]
        BY <1>1, <2>3, RemoveEntry
    <2>5. EntriesOK(r, subs, stored, Dead)
        BY <1>1, <2>4 DEF EntriesOK
    <2>6. \A k \in DOMAIN r : r[k].id # i
        <3> SUFFICES ASSUME NEW k \in DOMAIN r
                     PROVE  r[k].id # i
            OBVIOUS
        <3>1. PICK j \in DOMAIN queue : j # m /\ r[k] = queue[j]
            BY <2>4
        <3>2. j \in Int /\ m \in Int /\ queue[j].id \in Int /\ queue[m].id \in Int
            <4>1. queue[j] \in QueueItem /\ queue[m] \in QueueItem /\ DOMAIN queue = 1..Len(queue)
                BY <1>1
            <4> QED
                BY <4>1 DEF QueueItem, Ids
        <3> QED
            BY <1>1, <2>2, <3>1, <3>2 DEF Increasing
    <2>7. queue # <<>>
        BY <1>1, <2>1
    <2> QED
        BY <2>4, <2>5, <2>6, <2>7 DEF r
<1>3. CASE ~InQueue(i)
    <2>1. r = queue
        BY <1>3 DEF Without
    <2> HIDE DEF r
    <2>2. \A n : Derived(r, queue, n)
        BY <2>1 DEF Derived
    <2>3. \A k \in DOMAIN r : r[k].id # i
        BY <1>3, <2>1 DEF InQueue
    <2> QED
        BY <1>1, <2>1, <2>2, <2>3 DEF r
<1> QED
    BY <1>2, <1>3

-----------------------------------------------------------------------------
(* The order of what is sent.                                              *)

\* A queue whose entries are older ones or those of new submissions keeps the order.
LEMMA OrderKept ==
    ASSUME NEW o, NEW q \in Seq(QueueItem), NEW r \in Seq(QueueItem), NEW ss, NEW su,
           NEW sto, NEW dead, EntriesOK(q, ss, sto, dead),
           OrderOK(o, q, ss), Grows(ss, su), NEW n \in Nat, DOMAIN ss = 1..n, Derived(r, q, n)
    PROVE  OrderOK(o, r, su)
<1>1. o \in Seq(Ids) /\ \A k \in DOMAIN o : o[k] \in DOMAIN ss /\ o[k] \in Nat /\ o[k] <= n
    BY DEF OrderOK
<1>2. \A i \in DOMAIN ss : i \in DOMAIN su /\ (Started(su, i) <=> Started(ss, i))
    BY DEF Grows, Started
<1>3. InLine(o, su)
    BY <1>1, <1>2 DEF OrderOK, InLine
<1>4. ASSUME NEW j \in DOMAIN o, NEW k \in DOMAIN r
      PROVE  After(r[k], o[j], su)
    <2>1. r[k].id \in Nat
        <3>1. r[k] \in QueueItem
            OBVIOUS
        <3> QED
            BY <3>1 DEF QueueItem, Ids
    <2>2. CASE r[k].id > n
        BY <1>1, <2>1, <2>2 DEF After
    <2>3. CASE ~(r[k].id > n)
        <3>1. PICK m \in DOMAIN q : r[k].id = q[m].id /\ (q[m].ready => r[k].ready)
            BY <2>3 DEF Derived
        <3>2. After(q[m], o[j], ss)
            BY DEF OrderOK, Ahead
        <3>3. q[m].id \in DOMAIN ss
            BY DEF EntriesOK, EntryOK
        <3> QED
            BY <1>1, <1>2, <3>1, <3>2, <3>3 DEF After
    <2> QED
        BY <2>2, <2>3
<1> QED
    BY <1>1, <1>2, <1>3, <1>4 DEF OrderOK, Ahead

\* The agent takes an entry: none that waits for its write, and none of a started
\* submission, is before it.
LEMMA OrderTaken ==
    ASSUME NEW o, NEW q \in Seq(QueueItem), NEW su, NEW sto, NEW dead, EntriesOK(q, su, sto, dead),
           OrderOK(o, q, su), Increasing(q), NEW i \in DOMAIN q,
           \A j \in 1..i : q[j].ready,
           Started(su, q[i].id) => \A j \in DOMAIN q : j < i => ~Started(su, q[j].id)
    PROVE  OrderOK(Append(o, q[i].id), RemoveAt(q, i), su)
<1> DEFINE x == q[i].id
           p == Append(o, x)
           r == RemoveAt(q, i)
<1>1. x \in Ids /\ x \in DOMAIN su
    <2>1. q[i] \in QueueItem
        OBVIOUS
    <2> QED
        BY <2>1 DEF QueueItem, EntriesOK, EntryOK
<1>2. r \in Seq(QueueItem) /\ \A k \in DOMAIN r : \E m \in DOMAIN q : m # i /\ r[k] = q[m]
    BY RemoveEntry
<1>3. /\ o \in Seq(Ids) /\ InLine(o, su) /\ Ahead(o, q, su)
      /\ \A k \in DOMAIN o : o[k] \in DOMAIN su
    BY DEF OrderOK
<1>4. \A j \in DOMAIN o : After(q[i], o[j], su)
    BY <1>3 DEF Ahead
<1>5. \A m \in DOMAIN q : q[m].id \in Nat /\ m \in Nat
    <2>1. \A m \in DOMAIN q : q[m] \in QueueItem /\ m \in Nat
        OBVIOUS
    <2> QED
        BY <2>1 DEF QueueItem, Ids
<1>6. \A m \in DOMAIN q : m # i => After(q[m], x, su)
    <2> SUFFICES ASSUME NEW m \in DOMAIN q, m # i
                 PROVE  After(q[m], x, su)
        OBVIOUS
    <2>1. CASE m < i
        <3>1. q[m].id < x
            BY <2>1 DEF Increasing
        <3>2. q[m].ready
            <4>1. m \in 1..i
                BY <1>5, <2>1
            <4> QED
                BY <4>1
        <3>3. ~(Started(su, x) /\ Started(su, q[m].id))
            BY <2>1
        <3> QED
            BY <1>5, <3>1, <3>2, <3>3 DEF After
    <2>2. CASE i < m
        <3>1. x < q[m].id
            BY <2>2 DEF Increasing
        <3> QED
            BY <1>5, <3>1 DEF After
    <2> QED
        BY <1>5, <2>1, <2>2
<1> HIDE DEF x
<1>7. /\ p \in Seq(Ids) /\ Len(o) \in Nat /\ DOMAIN p = 1..(Len(o) + 1) /\ DOMAIN o = 1..Len(o)
      /\ p[Len(o) + 1] = x /\ \A k \in 1..Len(o) : p[k] = o[k]
    BY <1>1, <1>3, AppendEntries
<1> HIDE DEF p, r
<1>8. \A k \in DOMAIN p : (k = Len(o) + 1 /\ p[k] = x) \/ (k \in DOMAIN o /\ p[k] = o[k])
    BY <1>7
<1>9. InLine(p, su)
    <2> SUFFICES ASSUME NEW j \in DOMAIN p, NEW k \in DOMAIN p, j < k
                 PROVE  /\ p[j] # p[k]
                        /\ Started(su, p[j]) /\ Started(su, p[k]) => p[j] < p[k]
        BY DEF InLine
    <2>1. j \in DOMAIN o /\ p[j] = o[j]
        BY <1>7
    <2>2. CASE k = Len(o) + 1
        <3>1. After(q[i], o[j], su) /\ p[k] = x /\ o[j] \in Nat /\ x \in Nat
            <4>1. o[j] \in Ids
                BY <1>3, <2>1
            <4> QED
                BY <1>1, <1>4, <1>7, <2>1, <2>2, <4>1 DEF Ids
        <3> QED
            BY <2>1, <3>1 DEF After, x
    <2>3. CASE k \in DOMAIN o /\ p[k] = o[k]
        BY <1>3, <2>1, <2>3 DEF InLine
    <2> QED
        BY <1>8, <2>2, <2>3
<1>10. Ahead(p, r, su)
    <2> SUFFICES ASSUME NEW j \in DOMAIN p, NEW k \in DOMAIN r
                 PROVE  After(r[k], p[j], su)
        BY DEF Ahead
    <2>1. PICK m \in DOMAIN q : m # i /\ r[k] = q[m]
        BY <1>2
    <2> QED
        BY <1>3, <1>6, <1>8, <2>1 DEF Ahead
<1>11. \A k \in DOMAIN p : p[k] \in DOMAIN su
    BY <1>1, <1>3, <1>8
<1>12. OrderOK(p, r, su)
    BY <1>7, <1>9, <1>10, <1>11 DEF OrderOK
<1> QED
    BY <1>12 DEF p, r, x

\* What was in hand is dropped.
LEMMA OrderDropped ==
    ASSUME NEW s \in Seq(Ids), NEW t \in Seq(Ids), NEW q, NEW su, OrderOK(s \o t, q, su)
    PROVE  OrderOK(s, q, su)
<1> DEFINE o == s \o t
<1>1. DOMAIN s \subseteq DOMAIN o /\ \A k \in DOMAIN s : o[k] = s[k]
    BY ConcatEntries
<1>2. (\A k \in DOMAIN o : o[k] \in DOMAIN su) /\ InLine(o, su) /\ Ahead(o, q, su)
    BY DEF OrderOK
<1> HIDE DEF o
<1>3. InLine(s, su)
    BY <1>1, <1>2 DEF InLine
<1>4. Ahead(s, q, su)
    BY <1>1, <1>2 DEF Ahead
<1> QED
    BY <1>1, <1>2, <1>3, <1>4 DEF OrderOK

-----------------------------------------------------------------------------
(* The steps of the UI.                                                    *)

\* Only submissions are returned to the input box.
LEMMA BackCount ==
    ASSUME SubsInv, UiInv
    PROVE  /\ subs \in Seq(Submission) /\ DOMAIN subs = 1..Len(subs) /\ Len(subs) \in Nat
           /\ Cardinality(back) \in Nat /\ Cardinality(back) <= Len(subs)
<1>1. subs \in Seq(Submission) /\ back \subseteq DOMAIN subs
    BY DEF SubsInv
<1>2. DOMAIN subs = 1..Len(subs) /\ Len(subs) \in Nat
    BY <1>1
<1>3. IsFiniteSet(1..Len(subs)) /\ Cardinality(1..Len(subs)) = Len(subs)
    <2>1. IsFiniteSet(1..Len(subs))
          /\ Cardinality(1..Len(subs)) = IF 1 > Len(subs) THEN 0 ELSE Len(subs) - 1 + 1
        BY <1>2, FS_Interval
    <2> QED
        BY <1>2, <2>1
<1>4. Cardinality(back) <= Len(subs)
    BY <1>1, <1>2, <1>3, FS_Subset
<1>5. Cardinality(back) \in Nat
    BY FS_CardinalityType DEF UiInv
<1> QED
    BY <1>1, <1>2, <1>4, <1>5

\* The numbers of the runs.
LEMMA RunFacts ==
    ASSUME Inv
    PROVE  /\ \A i \in DOMAIN subs : subs[i] \in Submission /\ i \in Ids
           /\ DOMAIN subs = 1..Len(subs) /\ Len(subs) \in Nat /\ Len(subs) <= MaxSubs
           /\ Runs \subseteq Nat /\ MaxSubs \in Nat /\ ui.run \in Nat /\ cancels \in Nat
           /\ Cardinality(back) \in Nat /\ Cardinality(back) <= Len(subs)
<1>1. /\ subs \in Seq(Submission) /\ DOMAIN subs = 1..Len(subs) /\ Len(subs) \in Nat
      /\ Cardinality(back) \in Nat /\ Cardinality(back) <= Len(subs)
    BY BackCount DEF Inv
<1>2. Len(subs) <= MaxSubs /\ \A i \in DOMAIN subs : subs[i] \in Submission
    BY <1>1 DEF Inv, SubsInv
<1>3. Runs \subseteq Nat /\ MaxSubs \in Nat
    BY QueueAssumption DEF Runs
<1>4. \A i \in DOMAIN subs : i \in Ids
    BY <1>1, <1>2, <1>3 DEF Ids
<1>5. ui.run \in Nat /\ cancels \in Nat
    BY DEF Inv, UiInv, UiState, Counters
<1> QED
    BY <1>1, <1>2, <1>3, <1>4, <1>5

\* A run that the counts allow is a number of Runs.
LEMMA RunTyped ==
    ASSUME SubsInv, UiInv, Counters
    PROVE  ui.run \in Runs
<1>1. ui.run \in Nat /\ ui.run <= Len(subs) + Cardinality(back) + cancels
      /\ cancels \in Nat /\ cancels <= MaxCancels /\ Len(subs) <= MaxSubs
    BY QueueAssumption DEF UiInv, UiState, Counters, SubsInv
<1> QED
    BY <1>1, BackCount, QueueAssumption DEF Runs

\* What is sent, and what is in hand, are submissions.
LEMMA SentInOrder ==
    ASSUME Inv
    PROVE  /\ sent \in Seq(Ids) /\ agent.batch \in Seq(Ids)
           /\ \A k \in DOMAIN sent : sent[k] \in DOMAIN subs
           /\ \A k \in DOMAIN agent.batch : agent.batch[k] \in DOMAIN subs
<1>1. agent \in Agent /\ (agent.pc \notin Batched => agent.batch = <<>>)
    BY DEF Inv, AgentInv
<1>2. agent.batch \in Seq(Ids) /\ sent \in Seq(Ids)
    BY <1>1 DEF Agent, Inv, OrderInv
<1>3. \A k \in DOMAIN Order : Order[k] \in DOMAIN subs
    BY DEF Inv, OrderInv, OrderOK
<1>4. InHand \in Seq(Ids)
    <2>1. agent.pc = "register" => agent.id \in Ids
        BY RunFacts DEF Inv, AgentInv, Busy
    <2> QED
        BY <1>2, <2>1 DEF InHand
<1>5. \A k \in DOMAIN sent : sent[k] \in DOMAIN subs
    <2>1. \A k \in DOMAIN sent : k \in DOMAIN Order /\ Order[k] = sent[k]
        BY <1>2, <1>4, ConcatEntries DEF Order
    <2> QED
        BY <1>3, <2>1
<1>6. \A k \in DOMAIN agent.batch : agent.batch[k] \in DOMAIN subs
    <2>1. CASE agent.pc = "register"
        BY <1>1, <2>1 DEF Batched
    <2>2. CASE agent.pc # "register"
        <3>1. InHand = agent.batch
            BY <2>2 DEF InHand
        <3>2. \A k \in DOMAIN InHand : Len(sent) + k \in DOMAIN Order /\ Order[Len(sent) + k] = InHand[k]
            BY <1>2, <1>4, ConcatEntries DEF Order
        <3> QED
            BY <1>3, <3>1, <3>2
    <2> QED
        BY <2>1, <2>2
<1> QED
    BY <1>2, <1>5, <1>6

\* A step of the UI leaves the agent alone, and the parts of the invariant about the
\* agent hold on.
LEMMA UserStep ==
    ASSUME Inv, UNCHANGED <<agent, minRun, map, events, sent, routed>>,
           cancels' \in 0..MaxCancels, cmds' \in Seq(Runs), \A r \in Dead' : r < ui'.run,
           Grows(subs, subs'), stored \subseteq stored',
           ui'.run \in Nat, ui.run <= ui'.run, gen' \in Nat,
           gen < gen' \/ (gen' = gen /\ (queue = <<>> => queue' = <<>>)),
           wake' \in BOOLEAN, astray' \in BOOLEAN, faults' \in 0..MaxFaults,
           UiInv', SubsInv', queue' \in Seq(QueueItem), Increasing(queue'),
           EntriesOK(queue', subs', stored', Dead'), Derived(queue', queue, Len(subs))
    PROVE  Inv'
<1>1. UNCHANGED <<agent, minRun, map, events, sent, routed>>
    OBVIOUS
<1>2. Order' = Order
    BY <1>1 DEF Order, InHand
<1>3. Counters'
    BY <1>1 DEF Inv, Counters
<1>4. QueueInv'
    BY DEF QueueInv
<1>5. OrderInv'
    <2>1. /\ queue \in Seq(QueueItem) /\ EntriesOK(queue, subs, stored, Dead)
          /\ sent \in Seq(Ids) /\ OrderOK(Order, queue, subs)
        BY DEF Inv, QueueInv, OrderInv
    <2>2. Len(subs) \in Nat /\ DOMAIN subs = 1..Len(subs)
        BY RunFacts
    <2>3. OrderOK(Order, queue', subs')
        BY <2>1, <2>2, OrderKept
    <2> QED
        BY <1>1, <1>2, <2>1, <2>3 DEF OrderInv
<1>6. \A i \in DOMAIN subs : i \in DOMAIN subs' /\ (Started(subs', i) <=> Started(subs, i))
                             /\ subs'[i].run = subs[i].run
    BY DEF Grows, Started
<1>7. AgentInv'
    <2>1. /\ agent \in Agent /\ minRun \in Nat /\ minRun <= ui.run
          /\ agent.pc \notin Batched => agent.batch = <<>>
          /\ agent.pc \in Busy =>
                /\ agent.id \in DOMAIN subs /\ agent.run = subs[agent.id].run
                /\ Started(subs, agent.id) => agent.id \in stored
          /\ \A k \in DOMAIN agent.batch : agent.batch[k] = agent.id \/ ~Started(subs, agent.batch[k])
        BY DEF Inv, AgentInv
    <2>2. minRun <= ui'.run
        BY <2>1, RunFacts
    <2>3. \A k \in DOMAIN agent.batch : agent.batch[k] \in DOMAIN subs
        BY SentInOrder
    <2>4. \A k \in DOMAIN agent.batch : agent.batch[k] = agent.id \/ ~Started(subs', agent.batch[k])
        BY <1>6, <2>1, <2>3
    <2>5. agent.pc \in Busy =>
                /\ agent.id \in DOMAIN subs' /\ agent.run = subs'[agent.id].run
                /\ Started(subs', agent.id) => agent.id \in stored'
        BY <1>6, <2>1
    <2> QED
        BY <1>1, <2>1, <2>2, <2>4, <2>5 DEF AgentInv
<1>8. SentInv'
    <2>1. \A k \in DOMAIN sent : sent[k] \in DOMAIN subs
        BY SentInOrder
    <2> QED
        BY <1>1, <1>6, <2>1 DEF Inv, SentInv, Grows
<1>9. MapInv'
    BY <1>1 DEF Inv, MapInv
<1>10. EventsInv'
    <2>1. events \in Seq(Event) /\ EventsOK(events, gen, queue = <<>>, agent.pc)
        BY DEF Inv, EventsInv
    <2>2. \A k \in DOMAIN events : events[k].gen \in Nat
        <3>1. \A k \in DOMAIN events : events[k] \in Event
            BY <2>1
        <3> QED
            BY <3>1 DEF Event
    <2>3. gen \in Nat
        BY DEF Inv, Counters
    <2>4. EventsOK(events, gen', queue' = <<>>, agent.pc)
        BY <2>1, <2>2, <2>3 DEF EventsOK
    <2> QED
        BY <1>1, <2>1, <2>4 DEF EventsInv
<1> QED
    BY <1>3, <1>4, <1>5, <1>7, <1>8, <1>9, <1>10 DEF Inv

\* A step of the UI that cancels nothing.
LEMMA UIStep ==
    ASSUME Inv, UIOnly, Grows(subs, subs'), stored \subseteq stored',
           ui'.run \in Nat, ui.run <= ui'.run, gen' \in Nat,
           gen < gen' \/ (gen' = gen /\ (queue = <<>> => queue' = <<>>)),
           wake' \in BOOLEAN, astray' \in BOOLEAN, faults' \in 0..MaxFaults,
           UiInv', SubsInv', queue' \in Seq(QueueItem), Increasing(queue'),
           EntriesOK(queue', subs', stored', Dead), Derived(queue', queue, Len(subs))
    PROVE  Inv'
<1>1. UNCHANGED <<agent, minRun, map, cmds, events, sent, routed, cancels>>
    BY DEF UIOnly
<1>2. Dead' = Dead
    BY <1>1 DEF Dead
<1>3. \A r \in Dead : r \in Nat /\ r < ui.run
    <2>1. routed \subseteq Runs /\ cmds \in Seq(Runs) /\ \A r \in Dead : r < ui.run
        BY DEF Inv, MapInv
    <2> QED
        BY <2>1, RunFacts DEF Dead
<1>4. \A r \in Dead' : r < ui'.run
    BY <1>2, <1>3, RunFacts
<1>5. EntriesOK(queue', subs', stored', Dead')
    BY <1>2
<1>6. cancels' \in 0..MaxCancels /\ cmds' \in Seq(Runs)
    BY <1>1 DEF Inv, Counters, MapInv
<1> QED
    BY <1>1, <1>4, <1>5, <1>6, UserStep

\* A new submission, with or without its entry in the queue.
LEMMA SubmitStep ==
    ASSUME Inv, UIOnly, Room, UNCHANGED <<stored, back>>,
           NEW r \in {ui.run, ui.run + 1}, NEW how \in {"painted", "background", "queued"},
           NEW gate \in {"pending", "cancelled"}, NEW st \in {"draw", "persist", "settled"},
           NEW started \in BOOLEAN, Submit(r, how, gate, st, started),
           how = "queued" => st = "settled" /\ gate = "pending",
           gate = "cancelled" => st = "settled",
           ui' \in UiState, ui'.run = r,
           ui'.pending = ui.pending \/ (how = "painted" /\ ui'.pending = NextId),
           gen' = gen + 1, wake' = TRUE, astray' \in BOOLEAN, faults' \in 0..MaxFaults,
           \/ queue' = queue
           \/ \E kind \in {"turn", "steer", "now", "compact"}, ready \in BOOLEAN :
                 /\ queue' = Append(queue, Item(kind, NextId, r, ready))
                 /\ kind # "turn" => how = "queued"
                 /\ ready <=> how = "queued"
    PROVE  Inv'
<1> DEFINE s == [run |-> r, how |-> how, gate |-> gate, st |-> st, started |-> started]
           n == Len(subs) + 1
<1>1. /\ subs \in Seq(Submission) /\ Len(subs) \in Nat /\ DOMAIN subs = 1..Len(subs)
      /\ Len(subs) <= MaxSubs /\ MaxSubs \in Nat /\ ui.run \in Nat /\ cancels \in Nat
      /\ Cardinality(back) \in Nat /\ Cardinality(back) <= Len(subs)
    BY RunFacts DEF Inv, SubsInv
<1>2. n \in Ids /\ n \in Nat /\ n <= MaxSubs
    BY <1>1 DEF Ids, Room
<1>3. r \in Nat /\ ui.run <= r /\ r <= ui.run + 1
    BY <1>1
<1>4. r \in Runs
    <2>1. ui.run <= Len(subs) + Cardinality(back) + cancels /\ cancels <= MaxCancels
        BY <1>1, QueueAssumption DEF Inv, UiInv, Counters
    <2> QED
        BY <1>1, <1>2, <1>3, <2>1, QueueAssumption DEF Runs
<1>5. s \in Submission
    BY <1>4 DEF Submission
<1>6. subs' = Append(subs, s)
    BY DEF Submit
<1> HIDE DEF s
<1>7. /\ subs' \in Seq(Submission) /\ Len(subs') = n /\ DOMAIN subs' = 1..n
      /\ subs'[n] = s /\ \A i \in DOMAIN subs : subs'[i] = subs[i]
      /\ Grows(subs, subs')
    BY <1>1, <1>5, <1>6, SubmitFacts
<1>8. s.run = r /\ s.how = how /\ s.gate = gate /\ s.st = st
    BY DEF s
<1>9. \A i \in DOMAIN subs' : i = n \/ i \in DOMAIN subs
    BY <1>1, <1>7
<1>10. SubsInv'
    <2>1. /\ stored \subseteq DOMAIN subs /\ back \subseteq DOMAIN subs
          /\ \A i \in DOMAIN subs : SubOK(subs[i], ui.run, i \in stored)
          /\ \A i \in back : subs[i].gate = "cancelled" /\ subs[i].how = "painted"
        BY DEF Inv, SubsInv
    <2>2. n \notin stored
        BY <1>1, <2>1
    <2>3. SubOK(s, r, n \in stored)
        BY <1>3, <1>8, <2>2 DEF SubOK
    <2>4. \A i \in DOMAIN subs : SubOK(subs[i], r, i \in stored)
        <3> SUFFICES ASSUME NEW i \in DOMAIN subs
                     PROVE  SubOK(subs[i], r, i \in stored)
            OBVIOUS
        <3>1. subs[i].run \in Nat
            BY RunFacts DEF Submission
        <3> QED
            BY <1>1, <1>3, <2>1, <3>1 DEF SubOK
    <2>5. \A i \in DOMAIN subs' : SubOK(subs'[i], ui'.run, i \in stored')
        BY <1>7, <1>9, <2>3, <2>4
    <2> QED
        BY <1>2, <1>7, <2>1, <2>5 DEF SubsInv, Grows
<1>11. UiInv'
    <2>1. ui'.pending # 0 => ui'.pending \in DOMAIN subs' /\ subs'[ui'.pending].how = "painted"
        <3>1. CASE ui'.pending = ui.pending
            BY <1>7, <3>1 DEF Inv, UiInv, Painted, Grows
        <3>2. CASE how = "painted" /\ ui'.pending = n
            BY <1>2, <1>7, <1>8, <3>2
        <3> QED
            BY <3>1, <3>2 DEF NextId
    <2>2. r <= Len(subs') + Cardinality(back) + cancels
        BY <1>1, <1>3, <1>7 DEF Inv, UiInv
    <2>3. cancels' = cancels
        BY DEF UIOnly
    <2> QED
        BY <2>1, <2>2, <2>3 DEF Inv, UiInv, Painted
<1>12. /\ queue \in Seq(QueueItem) /\ Increasing(queue) /\ EntriesOK(queue, subs, stored, Dead)
    BY DEF Inv, QueueInv
<1>13. EntriesOK(queue, subs', stored', Dead)
    <2> SUFFICES ASSUME NEW k \in DOMAIN queue
                 PROVE  EntryOK(queue[k], subs', stored', Dead)
        BY DEF EntriesOK
    <2>1. EntryOK(queue[k], subs, stored, Dead)
        BY <1>12 DEF EntriesOK
    <2>2. queue[k].run \notin Dead
        BY <2>1 DEF EntryOK
    <2> QED
        BY <1>7, <2>1, <2>2, EntryKept
<1>14. CASE queue' = queue
    <2>1. Derived(queue', queue, Len(subs))
        BY <1>14 DEF Derived
    <2>2. gen \in Nat
        BY DEF Inv, Counters
    <2> QED
        BY <1>3, <1>7, <1>10, <1>11, <1>12, <1>13, <1>14, <2>1, <2>2, UIStep
<1>15. ASSUME NEW kind \in {"turn", "steer", "now", "compact"}, NEW ready \in BOOLEAN,
              queue' = Append(queue, Item(kind, NextId, r, ready)),
              kind # "turn" => how = "queued", ready <=> how = "queued"
       PROVE  Inv'
    <2> DEFINE e == Item(kind, n, r, ready)
    <2>1. e \in QueueItem /\ e.id = n /\ e.run = r /\ e.kind = kind /\ e.ready = ready
        BY <1>2, <1>4 DEF Item, QueueItem
    <2>2. queue' = Append(queue, e)
        BY <1>15 DEF NextId
    <2> HIDE DEF e
    <2>3. \A m \in DOMAIN queue : queue[m].id < n
        BY <1>1, <1>12 DEF EntriesOK, EntryOK
    <2>4. Len(subs) < n
        BY <1>1
    <2>5. /\ queue' \in Seq(QueueItem) /\ Increasing(queue') /\ Derived(queue', queue, Len(subs))
          /\ \A k \in DOMAIN queue' : queue'[k] = e \/ \E m \in DOMAIN queue : queue'[k] = queue[m]
        BY <1>12, <2>1, <2>2, <2>3, <2>4, PushEntry
    <2>6. EntryOK(e, subs', stored', Dead)
        <3>1. r \notin Dead
            <4>1. \A d \in Dead : d < ui.run
                BY DEF Inv, MapInv
            <4>2. \A d \in Dead : d \in Nat
                BY RunFacts DEF Inv, MapInv, Dead
            <4> QED
                BY <1>1, <1>3, <4>1, <4>2
        <3>2. n \in DOMAIN subs'
            BY <1>2, <1>7
        <3> QED
            BY <1>7, <1>8, <1>15, <2>1, <3>1, <3>2 DEF EntryOK, Started
    <2>7. EntriesOK(queue', subs', stored', Dead)
        BY <1>13, <2>5, <2>6 DEF EntriesOK
    <2>8. gen \in Nat
        BY DEF Inv, Counters
    <2> QED
        BY <1>3, <1>7, <1>10, <1>11, <2>5, <2>7, <2>8, UIStep
<1> QED
    BY <1>14, <1>15

\* start_submission.
LEMMA StartStep ==
    ASSUME Inv, NEW paint \in BOOLEAN, NEW requested \in BOOLEAN, Start(paint, requested)
    PROVE  Inv'
<1> DEFINE how == IF paint THEN "painted" ELSE "background"
           st == IF paint THEN "draw" ELSE "persist"
           started == ~paint /\ ~requested /\ ~ui.active
<1>1. ui \in UiState /\ ui.run \in Nat /\ NextId \in Nat /\ faults \in 0..MaxFaults
    BY RunFacts DEF Inv, UiInv, UiState, NextId, Counters
<1>2. ui' = [status |-> "streaming", run |-> ui.run + 1,
             pending |-> IF paint THEN NextId ELSE ui.pending, active |-> ui.active \/ ~paint]
    BY DEF Start
<1>3. /\ ui' \in UiState /\ ui'.run = ui.run + 1
      /\ ui'.pending = ui.pending \/ (how = "painted" /\ ui'.pending = NextId)
    BY <1>1, <1>2 DEF UiState
<1>4. /\ how \in {"painted", "background", "queued"} /\ how # "queued"
      /\ st \in {"draw", "persist", "settled"} /\ started \in BOOLEAN
    BY <1>1 DEF UiState
<1>5. /\ Room /\ UIOnly /\ UNCHANGED <<stored, back, faults>> /\ astray' = FALSE
      /\ Submit(ui.run + 1, how, "pending", st, started)
      /\ queue' = Append(queue, Item("turn", NextId, ui.run + 1, FALSE))
      /\ gen' = gen + 1 /\ wake' = TRUE
    BY DEF Start, Push
<1> HIDE DEF how, st, started
<1> QED
    BY <1>1, <1>3, <1>4, <1>5, SubmitStep

\* A refused submission has no entry.
LEMMA StartRefusedStep ==
    ASSUME Inv, StartRefused
    PROVE  Inv'
<1>1. ui \in UiState /\ ui.run \in Nat
    BY DEF Inv, UiInv, UiState
<1>2. ui' = [ui EXCEPT !.status = "error", !.run = @ + 1]
    BY DEF StartRefused
<1>3. ui' \in UiState /\ ui'.run = ui.run + 1 /\ ui'.pending = ui.pending
    <2>1. ui.run + 1 \in Nat
        BY <1>1
    <2> QED
        BY <1>1, <1>2, <2>1 DEF UiState
<1>4. faults' \in 0..MaxFaults
    BY QueueAssumption DEF Inv, Counters, StartRefused, Fault
<1>5. /\ Room /\ UIOnly /\ UNCHANGED <<queue, stored, back>> /\ astray' = FALSE
      /\ Submit(ui.run + 1, "background", "cancelled", "settled", FALSE)
      /\ gen' = gen + 1 /\ wake' = TRUE
    BY DEF StartRefused
<1> QED
    BY <1>1, <1>3, <1>4, <1>5, SubmitStep

\* queue_with_delivery and queue_compact.
LEMMA QueueMessageStep ==
    ASSUME Inv, \/ Compact
                \/ \E kind \in {"turn", "steer"}, requested \in BOOLEAN : QueueMessage(kind, requested)
    PROVE  Inv'
<1>1. ui \in UiState /\ ui.run \in Nat
    BY DEF Inv, UiInv, UiState
<1>2. /\ ui' \in UiState /\ ui'.run = ui.run /\ ui'.pending = ui.pending
    <2>1. CASE Compact
        BY <1>1, <2>1 DEF Compact, UiState
    <2>2. ASSUME NEW kind \in {"turn", "steer"}, NEW requested \in BOOLEAN,
                 QueueMessage(kind, requested)
          PROVE  ui' \in UiState /\ ui'.run = ui.run /\ ui'.pending = ui.pending
        BY <1>1, <2>2 DEF QueueMessage, UiState
    <2> QED
        BY <2>1, <2>2
<1>3. /\ Room /\ UIOnly /\ UNCHANGED <<stored, back, astray, faults>>
      /\ Submit(ui.run, "queued", "pending", "settled", FALSE)
      /\ gen' = gen + 1 /\ wake' = TRUE
      /\ \E kind \in {"turn", "steer", "now", "compact"} :
            queue' = Append(queue, Item(kind, NextId, ui.run, TRUE))
    BY DEF QueueMessage, Compact, Push
<1>4. faults' \in 0..MaxFaults /\ astray' \in BOOLEAN
    BY <1>3 DEF Inv, Counters
<1> QED
    BY <1>1, <1>2, <1>3, <1>4, SubmitStep

\* The entries of a queue keep their submissions.
LEMMA EntriesKept ==
    ASSUME NEW q, NEW ss, NEW su, NEW sto, NEW sto2, NEW dead, EntriesOK(q, ss, sto, dead),
           Grows(ss, su), sto \subseteq sto2
    PROVE  EntriesOK(q, su, sto2, dead)
<1> SUFFICES ASSUME NEW k \in DOMAIN q
             PROVE  EntryOK(q[k], su, sto2, dead)
    BY DEF EntriesOK
<1>1. EntryOK(q[k], ss, sto, dead)
    BY DEF EntriesOK
<1>2. q[k].run \notin dead
    BY <1>1 DEF EntryOK
<1> QED
    BY <1>1, <1>2, EntryKept

\* A submission that is as good as its stage, its gate and its run.
LEMMA SubsChanged ==
    ASSUME Inv, NEW i \in DOMAIN subs, NEW s \in Submission,
           s.how = subs[i].how, s.run = subs[i].run,
           subs[i].gate = "committed" => s.gate = "committed",
           subs' = [subs EXCEPT ![i] = s],
           ui'.run \in Nat, ui.run <= ui'.run,
           stored' = stored \/ stored' = stored \cup {i},
           back' = back \/ (back' = back \cup {i} /\ s.how = "painted"),
           i \in back' => s.gate = "cancelled",
           SubOK(s, ui'.run, i \in stored')
    PROVE  /\ SubsInv' /\ Grows(subs, subs') /\ stored \subseteq stored'
           /\ Len(subs') = Len(subs) /\ DOMAIN subs' = DOMAIN subs
<1>1. /\ subs \in Seq(Submission) /\ Len(subs) <= MaxSubs
      /\ stored \subseteq DOMAIN subs /\ back \subseteq DOMAIN subs
      /\ \A k \in DOMAIN subs : SubOK(subs[k], ui.run, k \in stored)
      /\ \A k \in back : subs[k].gate = "cancelled" /\ subs[k].how = "painted"
    BY DEF Inv, SubsInv
<1>2. /\ subs' \in Seq(Submission) /\ Len(subs') = Len(subs) /\ DOMAIN subs' = DOMAIN subs
      /\ subs'[i] = s /\ \A k \in DOMAIN subs : k # i => subs'[k] = subs[k]
      /\ Grows(subs, subs')
    <2>1. /\ subs' \in Seq(Submission) /\ Len(subs') = Len(subs) /\ DOMAIN subs' = DOMAIN subs
          /\ subs'[i] = s /\ \A k \in DOMAIN subs : k # i => subs'[k] = subs[k]
        BY <1>1, ExceptEntries
    <2> QED
        BY <2>1 DEF Grows
<1>3. \A k \in DOMAIN subs' : SubOK(subs'[k], ui'.run, k \in stored')
    <2> SUFFICES ASSUME NEW k \in DOMAIN subs', k # i
                 PROVE  SubOK(subs[k], ui'.run, k \in stored')
        BY <1>2
    <2>1. subs[k].run \in Nat /\ ui.run \in Nat
        BY <1>2, RunFacts DEF Submission
    <2>2. k \in stored' <=> k \in stored
        OBVIOUS
    <2>3. SubOK(subs[k], ui.run, k \in stored)
        BY <1>1, <1>2
    <2> QED
        BY <2>1, <2>2, <2>3 DEF SubOK
<1>4. \A k \in back' : subs'[k].gate = "cancelled" /\ subs'[k].how = "painted"
    <2> SUFFICES ASSUME NEW k \in back'
                 PROVE  subs'[k].gate = "cancelled" /\ subs'[k].how = "painted"
        OBVIOUS
    <2>1. CASE k = i
        BY <1>1, <1>2, <2>1
    <2>2. CASE k # i
        BY <1>1, <1>2, <2>2
    <2> QED
        BY <2>1, <2>2
<1> QED
    BY <1>1, <1>2, <1>3, <1>4 DEF SubsInv

\* The panel and an empty submission change only the queue.
LEMMA PanelStep ==
    ASSUME Inv, QueuePop \/ Promote
    PROVE  Inv'
<1>1. UIOnly /\ UNCHANGED <<ui, subs, stored, back, faults>> /\ gen' = gen + 1 /\ wake' = TRUE
    BY DEF QueuePop, Promote
<1>2. queue \in Seq(QueueItem) /\ Increasing(queue) /\ EntriesOK(queue, subs, stored, Dead)
    BY DEF Inv, QueueInv
<1>3. astray' \in BOOLEAN
    BY DEF Inv, Counters, QueuePop, Promote
<1>4. UiInv' /\ SubsInv'
    BY <1>1 DEF Inv, UiInv, SubsInv, UIOnly, Painted
<1>5. Grows(subs, subs') /\ gen \in Nat /\ faults \in 0..MaxFaults /\ ui.run \in Nat /\ Len(subs) \in Nat
    BY <1>1, RunFacts DEF Grows, Inv, Counters
<1>6. /\ queue' \in Seq(QueueItem) /\ Increasing(queue') /\ Derived(queue', queue, Len(subs))
      /\ EntriesOK(queue', subs, stored, Dead)
    <2>1. CASE QueuePop
        <3>1. PICK i \in DOMAIN queue : queue' = RemoveAt(queue, i)
            BY <2>1 DEF QueuePop, Earliest, InPanel
        <3>3. /\ queue' \in Seq(QueueItem) /\ Increasing(queue') /\ Derived(queue', queue, Len(subs))
              /\ \A k \in DOMAIN queue' : \E m \in DOMAIN queue : m # i /\ queue'[k] = queue[m]
            BY <1>2, <3>1, RemoveEntry
        <3> QED
            BY <1>2, <3>3 DEF EntriesOK
    <2>2. CASE Promote
        <3>2. PICK i \in DOMAIN queue : /\ queue[i].kind = "steer"
                                        /\ queue' = [queue EXCEPT ![i].kind = "now"]
            BY <2>2 DEF Promote
        <3> DEFINE e == [queue[i] EXCEPT !.kind = "now"]
        <3>3. queue[i] \in QueueItem
            BY <1>2
        <3>4. /\ e \in QueueItem /\ e.kind = "now" /\ e.id = queue[i].id /\ e.run = queue[i].run
              /\ e.ready = queue[i].ready
            BY <3>3 DEF QueueItem
        <3>5. queue' = [queue EXCEPT ![i] = e]
            BY <3>2
        <3> HIDE DEF e
        <3>6. /\ queue' \in Seq(QueueItem) /\ DOMAIN queue' = DOMAIN queue /\ queue'[i] = e
              /\ \A k \in DOMAIN queue : k # i => queue'[k] = queue[k]
            BY <1>2, <3>4, <3>5, ExceptEntries
        <3>7. Increasing(queue') /\ Derived(queue', queue, Len(subs))
            BY <1>2, <3>4, <3>6, SameEntries
        <3>8. EntryOK(queue[i], subs, stored, Dead)
            BY <1>2 DEF EntriesOK
        <3>9. EntryOK(e, subs, stored, Dead)
            BY <3>2, <3>4, <3>8 DEF EntryOK
        <3> QED
            BY <1>2, <3>6, <3>7, <3>9 DEF EntriesOK
    <2> QED
        BY <2>1, <2>2
<1>7. EntriesOK(queue', subs', stored', Dead)
    BY <1>1, <1>6
<1>8. gen' \in Nat /\ gen < gen'
    BY <1>1, <1>5
<1> QED
    BY <1>1, <1>3, <1>4, <1>5, <1>6, <1>7, <1>8, UIStep

\* A submission moves on, and at most its own entry leaves the queue.
LEMMA SettleStep ==
    ASSUME Inv, UIOnly, NEW i \in DOMAIN subs, NEW s \in Submission,
           s.how = subs[i].how, s.run = subs[i].run,
           subs[i].gate = "committed" => s.gate = "committed",
           subs' = [subs EXCEPT ![i] = s],
           stored' = stored \/ stored' = stored \cup {i},
           i \in back => s.gate = "cancelled",
           SubOK(s, ui'.run, i \in stored'),
           ui' \in UiState, ui'.pending \in {0, ui.pending},
           \/ ui'.run = ui.run /\ back' = back
           \/ /\ ui'.run = ui.run + 1 /\ back' = back \cup {i} /\ i \notin back
              /\ s.gate = "cancelled" /\ s.how = "painted",
           gen' = gen, wake' \in BOOLEAN, queue' \in {queue, Without(i)},
           astray' \in BOOLEAN, faults' \in 0..MaxFaults
    PROVE  Inv'
<1>1. ui.run \in Nat /\ ui'.run \in Nat /\ ui.run <= ui'.run /\ gen \in Nat
    BY RunFacts DEF UiState, Inv, Counters
<1>2. back' = back \/ (back' = back \cup {i} /\ s.how = "painted")
    OBVIOUS
<1>3. i \in back' => s.gate = "cancelled"
    OBVIOUS
<1>4. /\ SubsInv' /\ Grows(subs, subs') /\ stored \subseteq stored'
      /\ Len(subs') = Len(subs) /\ DOMAIN subs' = DOMAIN subs
    BY <1>1, <1>2, <1>3, SubsChanged
<1>5. UiInv'
    <2>1. /\ ui.pending # 0 => ui.pending \in DOMAIN subs /\ subs[ui.pending].how = "painted"
          /\ IsFiniteSet(back) /\ ui.run <= Len(subs) + Cardinality(back) + cancels
        BY DEF Inv, UiInv, Painted
    <2>2. ui'.pending # 0 => ui'.pending \in DOMAIN subs' /\ subs'[ui'.pending].how = "painted"
        BY <1>4, <2>1 DEF Grows
    <2>3. cancels' = cancels /\ cancels \in Nat /\ Len(subs) \in Nat /\ Cardinality(back) \in Nat
        BY RunFacts DEF UIOnly
    <2>4. IsFiniteSet(back') /\ ui'.run <= Len(subs') + Cardinality(back') + cancels'
        <3>1. CASE ui'.run = ui.run /\ back' = back
            BY <1>4, <2>1, <2>3, <3>1
        <3>2. CASE ui'.run = ui.run + 1 /\ back' = back \cup {i} /\ i \notin back
            <4>1. IsFiniteSet(back') /\ Cardinality(back') = Cardinality(back) + 1
                BY <2>1, <3>2, FS_AddElement
            <4> QED
                BY <1>1, <1>4, <2>1, <2>3, <3>2, <4>1
        <3> QED
            BY <3>1, <3>2
    <2> QED
        BY <2>2, <2>4 DEF UiInv, Painted
<1>6. QueueInv /\ queue \in Seq(QueueItem) /\ Increasing(queue) /\ EntriesOK(queue, subs, stored, Dead)
    BY DEF Inv, QueueInv
<1>7. /\ queue' \in Seq(QueueItem) /\ Increasing(queue') /\ Derived(queue', queue, Len(subs))
      /\ EntriesOK(queue', subs, stored, Dead) /\ (queue = <<>> => queue' = <<>>)
    <2>1. CASE queue' = queue
        BY <1>6, <2>1 DEF Derived
    <2>2. CASE queue' = Without(i)
        BY <1>6, <2>2, WithoutFacts
    <2> QED
        BY <2>1, <2>2
<1>8. EntriesOK(queue', subs', stored', Dead)
    BY <1>4, <1>7, EntriesKept
<1> QED
    BY <1>1, <1>4, <1>5, <1>7, <1>8, UIStep

\* after_terminal_draw.
LEMMA DrawStep ==
    ASSUME Inv, NEW i \in DOMAIN subs, Draw(i)
    PROVE  Inv'
<1>1. subs[i] \in Submission /\ SubOK(subs[i], ui.run, i \in stored) /\ subs[i].st = "draw"
    BY RunFacts DEF Inv, SubsInv, Draw
<1>2. i \notin stored /\ subs[i].how # "queued"
    BY <1>1 DEF SubOK
<1>3. UIOnly /\ UNCHANGED <<stored, back, astray, faults>>
    BY DEF Draw
<1>4. ui \in UiState /\ wake \in BOOLEAN /\ astray \in BOOLEAN /\ faults \in 0..MaxFaults
    BY DEF Inv, UiInv, Counters
<1>5. i \in back => subs[i].gate = "cancelled"
    BY DEF Inv, SubsInv
<1> DEFINE staged == ui.pending = i /\ subs[i].run = ui.run /\ subs[i].gate # "cancelled"
<1>6. CASE staged
    <2> DEFINE s == [subs[i] EXCEPT !.st = "persist", !.started = ~ui.active]
    <2>1. /\ s \in Submission /\ s.how = subs[i].how /\ s.run = subs[i].run /\ s.gate = subs[i].gate
          /\ s.st = "persist"
        BY <1>1, <1>4 DEF Submission, UiState
    <2>2. subs' = [subs EXCEPT ![i] = s]
        BY <1>6 DEF Draw
    <2>3. ui' = [ui EXCEPT !.active = TRUE] /\ UNCHANGED <<queue, gen, wake>>
        BY <1>6 DEF Draw, shared
    <2>4. ui' \in UiState /\ ui'.run = ui.run /\ ui'.pending = ui.pending
        BY <1>4, <2>3 DEF UiState
    <2> HIDE DEF s
    <2>5. SubOK(s, ui'.run, i \in stored')
        BY <1>1, <1>2, <1>3, <1>6, <2>1, <2>4 DEF SubOK
    <2> QED
        BY <1>3, <1>4, <1>5, <2>1, <2>2, <2>3, <2>4, <2>5, SettleStep
<1>7. CASE ~staged
    <2> DEFINE s == [subs[i] EXCEPT !.st = "settled"]
    <2>1. /\ s \in Submission /\ s.how = subs[i].how /\ s.run = subs[i].run /\ s.gate = subs[i].gate
          /\ s.st = "settled"
        BY <1>1 DEF Submission
    <2>2. subs' = [subs EXCEPT ![i] = s]
        BY <1>7 DEF Draw
    <2>3. ui' = ui /\ queue' = Without(i) /\ gen' = gen /\ wake' \in BOOLEAN
        BY <1>4, <1>7 DEF Draw, RemoveSubmission
    <2> HIDE DEF s
    <2>4. SubOK(s, ui'.run, i \in stored')
        BY <1>1, <1>2, <1>3, <2>1, <2>3 DEF SubOK
    <2> QED
        BY <1>3, <1>4, <1>5, <2>1, <2>2, <2>3, <2>4, SettleStep
<1> QED
    BY <1>6, <1>7

\* handle_submission_failure.
LEMMA FailedStep ==
    ASSUME Inv, NEW i \in DOMAIN subs, DrawRefused(i) \/ PersistFailed(i)
    PROVE  Inv'
<1>1. /\ UIOnly /\ UNCHANGED stored /\ Fault /\ subs[i].st # "settled"
      /\ \E release \in BOOLEAN : SubmissionFailed(i, release)
    <2>1. subs[i].started \in BOOLEAN
        BY RunFacts DEF Submission
    <2> QED
        BY <2>1 DEF DrawRefused, PersistFailed
<1>2. PICK release \in BOOLEAN : SubmissionFailed(i, release)
    BY <1>1
<1>3. subs[i] \in Submission /\ SubOK(subs[i], ui.run, i \in stored)
    BY RunFacts DEF Inv, SubsInv
<1>4. i \notin stored /\ subs[i].how # "queued"
    BY <1>1, <1>3 DEF SubOK
<1>5. /\ ui \in UiState /\ wake \in BOOLEAN /\ astray \in BOOLEAN /\ faults' \in 0..MaxFaults
      /\ ui.run \in Nat
    BY <1>1, QueueAssumption DEF Inv, UiInv, UiState, Counters, Fault
<1>6. i \in back => subs[i].gate = "cancelled"
    BY DEF Inv, SubsInv
<1> DEFINE restores == Painted(i) /\ ui.pending = i /\ Claimable(i) /\ subs[i].run = ui.run
           errs == ~Painted(i) /\ subs[i].run = ui.run /\ ui.status = "streaming"
           claims == Painted(i) => ui.pending = i
           gate == IF claims /\ subs[i].gate = "pending" THEN "cancelled" ELSE subs[i].gate
           s == [subs[i] EXCEPT !.st = "settled", !.gate = gate]
<1>7. /\ s \in Submission /\ s.how = subs[i].how /\ s.run = subs[i].run /\ s.gate = gate
      /\ s.st = "settled"
    BY <1>3 DEF Submission
<1>8. subs' = [subs EXCEPT ![i] = s]
    BY <1>2 DEF SubmissionFailed
<1>9. queue' = Without(i) /\ gen' = gen /\ wake' \in BOOLEAN
    BY <1>2, <1>5 DEF SubmissionFailed, RemoveSubmission
<1>10. ui' = [ui EXCEPT !.run = IF restores THEN @ + 1 ELSE @,
                        !.status = IF restores THEN "idle" ELSE IF errs THEN "error" ELSE @,
                        !.pending = IF restores THEN 0 ELSE @,
                        !.active = @ /\ ~(release /\ queue' = <<>>)]
       /\ back' = (IF restores THEN back \cup {i} ELSE back)
       /\ astray' = (astray /\ ~restores)
    BY <1>2 DEF SubmissionFailed
<1>11. /\ ui' \in UiState /\ ui'.pending \in {0, ui.pending} /\ astray' \in BOOLEAN
       /\ \/ ui'.run = ui.run /\ back' = back
          \/ ui'.run = ui.run + 1 /\ back' = back \cup {i} /\ restores
    <2>1. ui.run + 1 \in Nat
        BY <1>5
    <2>2. CASE restores
        <3>1. ui' = [ui EXCEPT !.run = ui.run + 1, !.status = "idle", !.pending = 0,
                               !.active = ui.active /\ ~(release /\ queue' = <<>>)]
              /\ back' = back \cup {i} /\ astray' = FALSE
            BY <1>10, <2>2
        <3> QED
            BY <1>5, <2>1, <2>2, <3>1 DEF UiState
    <2>3. CASE ~restores
        <3>1. ui' = [ui EXCEPT !.run = ui.run, !.status = IF errs THEN "error" ELSE ui.status,
                               !.pending = ui.pending,
                               !.active = ui.active /\ ~(release /\ queue' = <<>>)]
              /\ back' = back /\ astray' = astray
            BY <1>5, <1>10, <2>3
        <3> QED
            BY <1>5, <3>1 DEF UiState
    <2> QED
        BY <2>2, <2>3
<1>12. restores => gate = "cancelled" /\ subs[i].how = "painted" /\ i \notin back
    BY <1>6 DEF Painted, Claimable
<1>13. (subs[i].gate = "committed" => gate = "committed") /\ (i \in back => gate = "cancelled")
    BY <1>6
<1> HIDE DEF s, gate, restores, errs, claims
<1>14. SubOK(s, ui'.run, i \in stored')
    <2>1. ui.run <= ui'.run /\ subs[i].run \in Nat /\ ui'.run \in Nat
        <3>1. subs[i].run \in Nat
            BY <1>3, RunFacts DEF Submission
        <3> QED
            BY <1>5, <1>11, <3>1
    <2> QED
        BY <1>1, <1>3, <1>4, <1>5, <1>7, <2>1 DEF SubOK
<1> QED
    BY <1>1, <1>5, <1>7, <1>8, <1>9, <1>11, <1>12, <1>13, <1>14, SettleStep

\* handle_submission_persisted: the entry is made ready, or goes.
LEMMA PersistedStep ==
    ASSUME Inv, NEW i \in DOMAIN subs, Persisted(i)
    PROVE  Inv'
<1>1. subs[i] \in Submission /\ SubOK(subs[i], ui.run, i \in stored) /\ subs[i].st = "persist"
    BY RunFacts DEF Inv, SubsInv, Persisted
<1>2. UIOnly /\ UNCHANGED <<back, astray, faults>> /\ stored' = stored \cup {i}
    BY DEF Persisted
<1>3. /\ ui \in UiState /\ wake \in BOOLEAN /\ astray \in BOOLEAN /\ faults \in 0..MaxFaults
      /\ gen \in Nat
    BY DEF Inv, UiInv, Counters
<1>4. i \in back => subs[i].gate = "cancelled"
    BY DEF Inv, SubsInv
<1> DEFINE s == [subs[i] EXCEPT !.st = "settled"]
<1>5. /\ s \in Submission /\ s.how = subs[i].how /\ s.run = subs[i].run /\ s.gate = subs[i].gate
      /\ s.st = "settled"
    BY <1>1 DEF Submission
<1>6. subs' = [subs EXCEPT ![i] = s]
    BY DEF Persisted
<1> HIDE DEF s
<1>7. SubOK(s, ui.run, TRUE)
    BY <1>1, <1>5 DEF SubOK
<1>8. CASE Accepts(i) /\ InQueue(i)
    <2>1. MarkReady(i) /\ ui' = ui
        BY <1>8 DEF Persisted
    <2>2. ui'.run \in Nat /\ ui.run <= ui'.run
        BY <2>1, RunFacts
    <2>3. SubOK(s, ui'.run, i \in stored')
        BY <1>2, <1>7, <2>1
    <2>4. /\ SubsInv' /\ Grows(subs, subs') /\ stored \subseteq stored'
          /\ Len(subs') = Len(subs) /\ DOMAIN subs' = DOMAIN subs
        BY <1>2, <1>4, <1>5, <1>6, <2>2, <2>3, SubsChanged
    <2>5. UiInv'
        BY <1>2, <2>1, <2>4 DEF Inv, UiInv, UIOnly, Painted, Grows
    <2>6. queue \in Seq(QueueItem) /\ Increasing(queue) /\ EntriesOK(queue, subs, stored, Dead)
        BY DEF Inv, QueueInv
    <2>7. /\ DOMAIN queue = 1..Len(queue) /\ Len(queue) \in Nat
          /\ \A k \in DOMAIN queue : queue[k] \in QueueItem
        BY <2>6
    <2> DEFINE q == [k \in DOMAIN queue |->
                        IF queue[k].id = i THEN [queue[k] EXCEPT !.ready = TRUE] ELSE queue[k]]
    <2>8. queue' = q /\ gen' = gen + 1 /\ wake' = TRUE
        BY <2>1 DEF MarkReady
    <2>9. \A k \in DOMAIN queue :
             /\ q[k] \in QueueItem /\ q[k].id = queue[k].id /\ q[k].run = queue[k].run
             /\ q[k].kind = queue[k].kind
             /\ \/ q[k].ready = queue[k].ready
                \/ q[k].ready /\ queue[k].id = i
        <3> SUFFICES ASSUME NEW k \in DOMAIN queue
                     PROVE  /\ q[k] \in QueueItem /\ q[k].id = queue[k].id /\ q[k].run = queue[k].run
                            /\ q[k].kind = queue[k].kind
                            /\ \/ q[k].ready = queue[k].ready
                               \/ q[k].ready /\ queue[k].id = i
            OBVIOUS
        <3>1. queue[k] \in QueueItem
            BY <2>7
        <3>2. CASE queue[k].id = i
            <4>1. q[k] = [queue[k] EXCEPT !.ready = TRUE]
                BY <3>2
            <4> QED
                BY <3>1, <3>2, <4>1 DEF QueueItem
        <3>3. CASE queue[k].id # i
            <4>1. q[k] = queue[k]
                BY <3>3
            <4> QED
                BY <3>1, <4>1
        <3> QED
            BY <3>2, <3>3
    <2>10. q \in Seq(QueueItem) /\ DOMAIN q = DOMAIN queue
        <3>1. q = [k \in 1..Len(queue) |-> q[k]] /\ \A k \in 1..Len(queue) : q[k] \in QueueItem
            BY <2>7, <2>9
        <3> HIDE DEF q
        <3>2. q \in Seq(QueueItem) /\ DOMAIN q = 1..Len(queue)
            BY <2>7, <3>1, MapEntries
        <3> QED
            BY <2>7, <3>2
    <2> HIDE DEF q
    <2>11. Increasing(q) /\ Derived(q, queue, Len(subs))
        BY <2>6, <2>9, <2>10, SameEntries
    <2>12. EntriesOK(queue, subs', stored', Dead)
        BY <2>4, <2>6, EntriesKept
    <2>13. EntriesOK(q, subs', stored', Dead)
        <3> SUFFICES ASSUME NEW k \in DOMAIN q
                     PROVE  EntryOK(q[k], subs', stored', Dead)
            BY DEF EntriesOK
        <3>1. EntryOK(queue[k], subs', stored', Dead)
            BY <2>10, <2>12 DEF EntriesOK
        <3>2. i \in stored'
            BY <1>2
        <3> QED
            BY <2>9, <2>10, <3>1, <3>2 DEF EntryOK
    <2>14. gen' \in Nat /\ gen < gen'
        BY <1>3, <2>8
    <2> QED
        BY <1>2, <1>3, <2>2, <2>4, <2>5, <2>8, <2>10, <2>11, <2>13, <2>14, UIStep
<1>9. CASE ~(Accepts(i) /\ InQueue(i))
    <2>1. /\ queue' = Without(i) /\ gen' = gen /\ wake' \in BOOLEAN
          /\ ui' = [ui EXCEPT !.active = @ /\ ~(subs[i].started /\ queue' = <<>>)]
        BY <1>3, <1>9 DEF Persisted, RemoveSubmission
    <2>2. ui' \in UiState /\ ui'.run = ui.run /\ ui'.pending = ui.pending
        BY <1>3, <2>1 DEF UiState
    <2>3. SubOK(s, ui'.run, i \in stored')
        BY <1>2, <1>7, <2>2
    <2> QED
        BY <1>2, <1>3, <1>4, <1>5, <1>6, <2>1, <2>2, <2>3, SettleStep
<1> QED
    BY <1>8, <1>9

\* try_restore_pending_submission.
LEMMA RestoreStep ==
    ASSUME Inv, Restore
    PROVE  Inv'
<1>1. PICK i \in DOMAIN subs : i = ui.pending /\ subs[i].how = "painted" /\ subs[i].run = ui.run
    BY DEF Inv, UiInv, Restore, Painted
<1>2. subs[i] \in Submission /\ SubOK(subs[i], ui.run, i \in stored)
    BY RunFacts DEF Inv, SubsInv
<1>3. UIOnly /\ UNCHANGED <<stored, faults>>
    BY DEF Restore
<1>4. /\ ui \in UiState /\ wake \in BOOLEAN /\ astray \in BOOLEAN /\ faults \in 0..MaxFaults
      /\ gen \in Nat /\ ui.run \in Nat
    BY DEF Inv, UiInv, UiState, Counters
<1>5. CASE Claimable(i)
    <2> DEFINE s == [subs[i] EXCEPT !.gate = "cancelled"]
    <2>1. /\ s \in Submission /\ s.how = subs[i].how /\ s.run = subs[i].run /\ s.gate = "cancelled"
          /\ s.st = subs[i].st
        BY <1>2 DEF Submission
    <2>2. CancelGate(i) = [subs EXCEPT ![i] = s] /\ subs[i].gate = "pending"
        BY <1>5 DEF CancelGate, Claimable
    <2>3. /\ subs' = CancelGate(i) /\ RemoveSubmission(i) /\ Restored(i)
        BY <1>1, <1>5 DEF Restore
    <2> HIDE DEF s
    <2>4. queue' = Without(i) /\ gen' = gen /\ wake' \in BOOLEAN
        BY <1>4, <2>3 DEF RemoveSubmission
    <2>5. /\ ui' = [ui EXCEPT !.run = @ + 1, !.status = "idle", !.pending = 0]
          /\ back' = back \cup {i} /\ astray' = FALSE
        BY <2>3 DEF Restored
    <2>6. ui' \in UiState /\ ui'.run = ui.run + 1 /\ ui'.pending = 0
        <3>1. ui.run + 1 \in Nat
            BY <1>4
        <3> QED
            BY <1>4, <2>5, <3>1 DEF UiState
    <2>7. i \notin back
        BY <2>2 DEF Inv, SubsInv
    <2>8. SubOK(s, ui'.run, i \in stored')
        BY <1>1, <1>2, <1>3, <1>4, <2>1, <2>6 DEF SubOK
    <2>9. /\ subs' = [subs EXCEPT ![i] = s] /\ s.how = "painted"
          /\ ~(subs[i].gate = "committed") /\ back' = back \cup {i} /\ astray' \in BOOLEAN
        BY <1>1, <2>1, <2>2, <2>3, <2>5
    <2>10. stored' = stored /\ faults' \in 0..MaxFaults
        BY <1>3, <1>4
    <2> QED
        BY <1>3, <2>1, <2>4, <2>6, <2>7, <2>8, <2>9, <2>10, SettleStep
<1>6. CASE ~Claimable(i)
    <2>1. ui' = [ui EXCEPT !.pending = 0] /\ UNCHANGED <<subs, queue, gen, wake, back, astray>>
        BY <1>1, <1>6 DEF Restore, shared
    <2>2. ui' \in UiState /\ ui'.run = ui.run /\ ui'.pending = 0
        BY <1>4, <2>1 DEF UiState
    <2>3. UiInv' /\ SubsInv' /\ Grows(subs, subs')
        BY <1>3, <2>1, <2>2 DEF Inv, UiInv, SubsInv, UIOnly, Grows
    <2>4. queue \in Seq(QueueItem) /\ Increasing(queue) /\ EntriesOK(queue, subs, stored, Dead)
        BY DEF Inv, QueueInv
    <2>5. Derived(queue', queue, Len(subs))
        BY <2>1, <2>4 DEF Derived
    <2> QED
        BY <1>3, <1>4, <2>1, <2>2, <2>3, <2>4, <2>5, UIStep
<1> QED
    BY <1>5, <1>6

\* handle_cancel: the queue is cleared, so no entry of a cancelled run is left.
LEMMA CancelStep ==
    ASSUME Inv, Cancel
    PROVE  Inv'
<1>1. /\ cancels < MaxCancels /\ cancels' = cancels + 1
      /\ subs' = IF ui.pending = 0 THEN subs ELSE CancelGate(ui.pending)
      /\ ui' = [status |-> "idle", run |-> ui.run + 1, pending |-> 0, active |-> FALSE]
      /\ queue' = <<>> /\ cmds' = Append(cmds, ui.run) /\ astray' = FALSE
      /\ UNCHANGED <<gen, wake, agent, minRun, map, events, sent, stored, back, routed, faults>>
    BY DEF Cancel, ghosts
<1>2. /\ wake \in BOOLEAN /\ faults \in 0..MaxFaults /\ gen \in Nat /\ ui.run \in Nat
      /\ cancels' \in 0..MaxCancels /\ cancels \in Nat
    BY <1>1, QueueAssumption DEF Inv, UiInv, UiState, Counters
<1>3. ui' \in UiState /\ ui'.run = ui.run + 1 /\ ui'.pending = 0
    BY <1>1, <1>2 DEF UiState
<1>4. SubsInv' /\ Grows(subs, subs') /\ Len(subs') = Len(subs)
    <2>1. /\ \A i \in DOMAIN subs : SubOK(subs[i], ui.run, i \in stored) /\ subs[i].run \in Nat
                                    /\ subs[i] \in Submission
          /\ \A i \in back : subs[i].gate = "cancelled" /\ subs[i].how = "painted"
          /\ subs \in Seq(Submission) /\ stored \subseteq DOMAIN subs /\ back \subseteq DOMAIN subs
        BY RunFacts DEF Inv, SubsInv, Submission
    <2>2. \A i \in DOMAIN subs : SubOK(subs[i], ui'.run, i \in stored)
        BY <1>2, <1>3, <2>1 DEF SubOK
    <2>3. CASE subs' = subs
        BY <1>1, <2>2, <2>3 DEF Inv, SubsInv, Grows
    <2>4. CASE subs' # subs
        <3>1. ui.pending # 0
            BY <1>1, <2>4
        <3>2. PICK i \in DOMAIN subs : i = ui.pending /\ subs[i].how = "painted"
            BY <3>1 DEF Inv, UiInv, Painted
        <3> DEFINE gate == IF subs[i].gate = "pending" THEN "cancelled" ELSE subs[i].gate
                   s == [subs[i] EXCEPT !.gate = gate]
        <3>3. /\ s \in Submission /\ s.how = subs[i].how /\ s.run = subs[i].run /\ s.gate = gate
              /\ s.st = subs[i].st
            BY <2>1 DEF Submission
        <3>4. subs' = [subs EXCEPT ![i] = s]
            BY <1>1, <3>1, <3>2 DEF CancelGate
        <3>5. (subs[i].gate = "committed" => gate = "committed") /\ (i \in back => gate = "cancelled")
            BY <2>1
        <3> HIDE DEF s, gate
        <3>6. SubOK(s, ui'.run, i \in stored')
            BY <1>1, <1>2, <1>3, <2>1, <3>2, <3>3 DEF SubOK
        <3>7. ui'.run \in Nat /\ ui.run <= ui'.run
            BY <1>2, <1>3
        <3> QED
            BY <1>1, <3>3, <3>4, <3>5, <3>6, <3>7, SubsChanged
    <2> QED
        BY <2>3, <2>4
<1>5. UiInv'
    <2>1. IsFiniteSet(back) /\ ui.run <= Len(subs) + Cardinality(back) + cancels
        BY DEF Inv, UiInv
    <2> QED
        BY <1>1, <1>2, <1>3, <1>4, <2>1, RunFacts DEF UiInv
<1>6. ui.run \in Runs
    BY RunTyped DEF Inv
<1>7. cmds \in Seq(Runs) /\ routed \subseteq Runs /\ \A r \in Dead : r < ui.run
    BY DEF Inv, MapInv
<1>8. cmds' \in Seq(Runs) /\ \A r \in Dead' : r < ui'.run
    <2>1. /\ cmds' \in Seq(Runs) /\ DOMAIN cmds' = 1..(Len(cmds) + 1) /\ DOMAIN cmds = 1..Len(cmds)
          /\ cmds'[Len(cmds) + 1] = ui.run /\ \A k \in 1..Len(cmds) : cmds'[k] = cmds[k]
          /\ Len(cmds) \in Nat
        BY <1>1, <1>6, <1>7, AppendEntries
    <2>2. \A k \in DOMAIN cmds' : cmds'[k] = ui.run \/ \E j \in DOMAIN cmds : cmds'[k] = cmds[j]
        BY <2>1
    <2>3. \A r \in Dead' : r = ui.run \/ r \in Dead
        BY <1>1, <2>2 DEF Dead
    <2>4. \A r \in Dead : r \in Nat
        BY <1>7, RunFacts DEF Dead
    <2> QED
        BY <1>2, <1>3, <1>7, <2>1, <2>3, <2>4
<1>9. /\ queue' \in Seq(QueueItem) /\ Increasing(queue') /\ EntriesOK(queue', subs', stored', Dead')
      /\ Derived(queue', queue, Len(subs))
    BY <1>1, EmptyQueue
<1>10. ui'.run \in Nat /\ ui.run <= ui'.run
    BY <1>2, <1>3
<1> QED
    BY <1>1, <1>2, <1>4, <1>5, <1>8, <1>9, <1>10, UserStep

\* handle_agent.
LEMMA HandleEventStep ==
    ASSUME Inv, HandleEvent
    PROVE  Inv'
<1> DEFINE e == Head(events)
<1>1. /\ events # <<>> /\ events' = Tail(events)
      /\ UNCHANGED <<subs, queue, gen, wake, agent, minRun, map, cmds, sent, stored, back, routed,
                     astray, cancels, faults>>
      /\ ui' = IF e.t = "drained" THEN [ui EXCEPT !.active = @ /\ ~IsDrained(e.gen)]
               ELSE IF e.run # ui.run THEN ui
               ELSE [ui EXCEPT !.status = IF e.t = "done" THEN "idle" ELSE "error"]
    BY DEF HandleEvent, shared, ghosts, bounds
<1>2. ui \in UiState
    BY DEF Inv, UiInv
<1>3. ui' \in UiState /\ ui'.run = ui.run /\ ui'.pending = ui.pending
    <2>1. CASE e.t = "drained"
        BY <1>1, <1>2, <2>1 DEF UiState, IsDrained
    <2>2. CASE e.t # "drained"
        BY <1>1, <1>2, <2>2 DEF UiState
    <2> QED
        BY <2>1, <2>2
<1> HIDE DEF e
<1>4. UiInv' /\ SubsInv' /\ Counters'
    BY <1>1, <1>3 DEF Inv, UiInv, SubsInv, Counters, Painted
<1>5. Dead' = Dead /\ Order' = Order
    BY <1>1 DEF Dead, Order, InHand
<1>6. QueueInv' /\ OrderInv'
    BY <1>1, <1>5 DEF Inv, QueueInv, OrderInv
<1>7. AgentInv'
    BY <1>1, <1>3 DEF Inv, AgentInv
<1>8. SentInv' /\ MapInv'
    BY <1>1, <1>3, <1>5 DEF Inv, SentInv, MapInv
<1>9. EventsInv'
    <2>1. events \in Seq(Event) /\ EventsOK(events, gen, queue = <<>>, agent.pc)
        BY DEF Inv, EventsInv
    <2>2. /\ events' \in Seq(Event)
          /\ \A k \in DOMAIN events' : k + 1 \in DOMAIN events /\ events'[k] = events[k + 1]
        BY <1>1, <2>1, TailEntries
    <2>3. EventsOK(events', gen, queue = <<>>, agent.pc)
        BY <2>1, <2>2 DEF EventsOK
    <2> QED
        BY <1>1, <2>2, <2>3 DEF EventsInv
<1> QED
    BY <1>4, <1>6, <1>7, <1>8, <1>9 DEF Inv

-----------------------------------------------------------------------------
(* The steps of the agent and of the router.                               *)

\* The router turns a command into a cancelled token, or leaves it in the map for
\* the run that has not registered.
LEMMA RouteStep ==
    ASSUME Inv, Route
    PROVE  Inv'
<1>1. PICK r \in Runs : r = Head(cmds)
    BY TailEntries DEF Inv, MapInv, Route
<1>2. /\ cmds # <<>> /\ cmds' = Tail(cmds)
      /\ map' = [map EXCEPT ![r] = IF @ = "live" THEN "none" ELSE "pre"]
      /\ agent' = IF map[r] = "live" THEN [agent EXCEPT !.tok = TRUE] ELSE agent
      /\ routed' = routed \cup {r}
      /\ UNCHANGED <<ui, subs, queue, gen, wake, minRun, events, sent, stored, back, astray,
                     cancels, faults>>
    BY <1>1 DEF Route, shared, bounds
<1>3. /\ map \in [Runs -> {"none", "live", "pre"}] /\ cmds \in Seq(Runs) /\ routed \subseteq Runs
      /\ \A x \in Dead : x < ui.run
      /\ \A x \in Runs : /\ map[x] = "live" => x = agent.run /\ agent.pc \in InRun
                         /\ map[x] = "pre" => x \in routed
      /\ agent.pc = "register" /\ agent.run \in routed => map[agent.run] = "pre"
      /\ agent.pc \in InRun => /\ map[agent.run] = "live" \/ agent.tok
                               /\ agent.tok <=> agent.run \in routed
    BY DEF Inv, MapInv
<1>4. agent \in Agent
    BY DEF Inv, AgentInv
<1>5. /\ agent' \in Agent /\ agent'.pc = agent.pc /\ agent'.id = agent.id /\ agent'.run = agent.run
      /\ agent'.batch = agent.batch
      /\ agent'.tok = (agent.tok \/ map[r] = "live")
    BY <1>2, <1>4 DEF Agent
<1>6. cmds' \in Seq(Runs) /\ Dead' = Dead
    <2>1. /\ Tail(cmds) \in Seq(Runs) /\ 1 \in DOMAIN cmds /\ r = cmds[1] /\ Len(cmds) \in Nat \ {0}
          /\ DOMAIN cmds = 1..Len(cmds) /\ DOMAIN Tail(cmds) = 1..(Len(cmds) - 1)
          /\ \A k \in DOMAIN Tail(cmds) : Tail(cmds)[k] = cmds[k + 1] /\ k + 1 \in DOMAIN cmds
        BY <1>1, <1>2, <1>3, TailEntries
    <2>2. \A x : (\E k \in DOMAIN cmds' : x = cmds'[k]) => \E k \in DOMAIN cmds : x = cmds[k]
        BY <1>2, <2>1
    <2>3. ASSUME NEW k \in DOMAIN cmds
          PROVE  cmds[k] = r \/ \E j \in DOMAIN cmds' : cmds[k] = cmds'[j]
        <3>1. CASE k = 1
            BY <2>1, <3>1
        <3>2. CASE k # 1
            <4>1. k - 1 \in DOMAIN Tail(cmds) /\ (k - 1) + 1 = k
                BY <2>1, <3>2
            <4> QED
                BY <1>2, <2>1, <4>1
        <3> QED
            BY <3>1, <3>2
    <2>4. \A x : x \in Dead' <=> x \in Dead
        BY <1>2, <2>1, <2>2, <2>3 DEF Dead
    <2> QED
        BY <1>2, <2>1, <2>4
<1>7. MapInv'
    <2>1. map' \in [Runs -> {"none", "live", "pre"}] /\ routed' \subseteq Runs
        BY <1>2, <1>3
    <2>2. \A x \in Runs : map'[x] = IF x = r THEN IF map[r] = "live" THEN "none" ELSE "pre"
                                    ELSE map[x]
        BY <1>2, <1>3
    <2>3. \A x \in Runs : /\ map'[x] = "live" => x = agent'.run /\ agent'.pc \in InRun
                          /\ map'[x] = "pre" => x \in routed'
        BY <1>2, <1>3, <1>5, <2>2
    <2>4. agent.run \in Runs /\ agent.tok \in BOOLEAN
        BY <1>4 DEF Agent
    <2>5. agent'.pc = "register" /\ agent'.run \in routed' => map'[agent'.run] = "pre"
        <3>1. agent.pc = "register" => map[r] # "live"
            BY <1>3 DEF InRun
        <3> QED
            BY <1>2, <1>3, <1>5, <2>2, <2>4, <3>1
    <2>6. agent.pc \in InRun => /\ map'[agent.run] = "live" \/ agent'.tok
                                /\ agent'.tok <=> agent.run \in routed'
        <3> SUFFICES ASSUME agent.pc \in InRun
                     PROVE  /\ map'[agent.run] = "live" \/ agent'.tok
                            /\ agent'.tok <=> agent.run \in routed'
            OBVIOUS
        <3>1. CASE r = agent.run
            BY <1>2, <1>3, <1>5, <2>2, <2>4, <3>1
        <3>2. CASE r # agent.run
            BY <1>2, <1>3, <1>5, <2>2, <2>4, <3>2
        <3> QED
            BY <3>1, <3>2
    <2> QED
        BY <1>2, <1>3, <1>5, <1>6, <2>1, <2>3, <2>5, <2>6 DEF MapInv
<1>8. Counters' /\ UiInv' /\ SubsInv' /\ SentInv'
    BY <1>2 DEF Inv, Counters, UiInv, SubsInv, SentInv, Painted
<1>9. QueueInv'
    BY <1>2, <1>6 DEF Inv, QueueInv
<1>10. Order' = Order
    BY <1>2, <1>5 DEF Order, InHand
<1>11. OrderInv' /\ EventsInv'
    BY <1>2, <1>5, <1>10 DEF Inv, OrderInv, EventsInv
<1>12. AgentInv'
    BY <1>2, <1>5 DEF Inv, AgentInv
<1> QED
    BY <1>7, <1>8, <1>9, <1>11, <1>12 DEF Inv

\* What a step of the agent may do to the events.
LEMMA EventsKept ==
    ASSUME Inv, gen' = gen,
           queue = <<>> /\ agent.pc \in Resting => queue' = <<>> /\ agent'.pc \in Resting,
           \/ events' = events
           \/ \E e \in Event : /\ events' = Append(events, e)
                               /\ e.t = "drained" => /\ e.gen = gen /\ queue' = <<>>
                                                     /\ agent'.pc \in Resting
    PROVE  EventsInv'
<1>1. events \in Seq(Event) /\ EventsOK(events, gen, queue = <<>>, agent.pc) /\ gen \in Nat
    BY DEF Inv, EventsInv, Counters
<1>2. EventsOK(events, gen', queue' = <<>>, agent'.pc)
    BY <1>1 DEF EventsOK
<1>3. CASE events' = events
    BY <1>1, <1>2, <1>3 DEF EventsInv
<1>4. ASSUME NEW e \in Event, events' = Append(events, e),
             e.t = "drained" => e.gen = gen /\ queue' = <<>> /\ agent'.pc \in Resting
      PROVE  EventsInv'
    <2>1. /\ events' \in Seq(Event) /\ Len(events) \in Nat /\ DOMAIN events' = 1..(Len(events) + 1)
          /\ DOMAIN events = 1..Len(events) /\ events'[Len(events) + 1] = e
          /\ \A k \in 1..Len(events) : events'[k] = events[k]
        BY <1>1, <1>4, AppendEntries
    <2>2. \A k \in DOMAIN events' : events'[k] = e \/ (k \in DOMAIN events /\ events'[k] = events[k])
        BY <2>1
    <2>3. EventsOK(events', gen', queue' = <<>>, agent'.pc)
        BY <1>1, <1>2, <1>4, <2>2 DEF EventsOK
    <2> QED
        BY <2>1, <2>3 DEF EventsInv
<1> QED
    BY <1>3, <1>4

\* What a step of the agent that sends nothing has to keep.
LEMMA AgentFrame ==
    ASSUME Inv, PollStep, UNCHANGED <<subs, gen, sent>>,
           wake' \in BOOLEAN, astray' \in BOOLEAN, faults' \in 0..MaxFaults,
           queue' \in Seq(QueueItem), Increasing(queue'), EntriesOK(queue', subs, stored, Dead),
           OrderOK(Order', queue', subs), AgentInv', MapInv', EventsInv'
    PROVE  Inv'
<1>1. UNCHANGED <<ui, cmds, stored, back, routed, cancels>>
    BY DEF PollStep
<1>2. Dead' = Dead
    BY <1>1 DEF Dead
<1>3. Counters' /\ UiInv' /\ SubsInv' /\ SentInv'
    BY <1>1 DEF Inv, Counters, UiInv, SubsInv, SentInv, Painted
<1>4. QueueInv' /\ OrderInv'
    BY <1>1, <1>2 DEF Inv, QueueInv, OrderInv
<1> QED
    BY <1>3, <1>4 DEF Inv

\* A step that leaves the queue alone, and keeps or drops what is in hand.
LEMMA QuietStep ==
    ASSUME Inv, PollStep, UNCHANGED <<subs, queue, gen, sent>>,
           wake' \in BOOLEAN, astray' \in BOOLEAN, faults' \in 0..MaxFaults,
           InHand' = InHand \/ InHand' = <<>>, AgentInv', MapInv', EventsInv'
    PROVE  Inv'
<1>1. queue \in Seq(QueueItem) /\ Increasing(queue) /\ EntriesOK(queue, subs, stored, Dead)
    BY DEF Inv, QueueInv
<1>2. sent \in Seq(Ids) /\ OrderOK(Order, queue, subs)
    BY DEF Inv, OrderInv
<1>3. InHand \in Seq(Ids)
    <2>1. agent.pc = "register" => agent.id \in Ids
        BY RunFacts DEF Inv, AgentInv, Busy
    <2>2. agent.batch \in Seq(Ids)
        BY SentInOrder
    <2> QED
        BY <2>1, <2>2 DEF InHand
<1>4. OrderOK(Order', queue, subs)
    <2>1. CASE InHand' = InHand
        <3>1. Order' = Order
            BY <2>1 DEF Order
        <3> QED
            BY <1>2, <3>1
    <2>2. CASE InHand' = <<>>
        <3>1. Order' = sent
            BY <1>2, <2>2 DEF Order
        <3>2. OrderOK(sent, queue, subs)
            BY <1>2, <1>3, OrderDropped DEF Order
        <3> QED
            BY <3>1, <3>2
    <2> QED
        BY <2>1, <2>2
<1>5. OrderOK(Order', queue', subs)
    BY <1>4
<1> QED
    BY <1>1, <1>5, AgentFrame

\* The event of a run.
LEMMA EmitFacts ==
    ASSUME Inv, NEW t \in {"done", "error", "drained"}, Emit(t)
    PROVE  \E e \in Event : events' = Append(events, e) /\ e.t = t /\ e.gen = gen
<1> DEFINE e == [t |-> t, run |-> agent.run, gen |-> gen]
<1>1. agent.run \in Runs /\ gen \in Nat
    BY DEF Inv, AgentInv, Agent, Counters
<1>2. e \in Event /\ events' = Append(events, e) /\ e.t = t /\ e.gen = gen
    BY <1>1 DEF Event, Emit
<1> QED
    BY <1>2

\* The parts of the invariant about the agent, as facts to cite.
LEMMA AgentFacts ==
    ASSUME Inv
    PROVE  /\ agent \in Agent /\ minRun \in Nat /\ minRun <= ui.run /\ agent.run \in Runs
           /\ agent.batch \in Seq(Ids)
           /\ agent.pc \notin Batched => agent.batch = <<>>
           /\ agent.pc \in Busy =>
                 /\ agent.id \in DOMAIN subs /\ agent.run = subs[agent.id].run
                 /\ Started(subs, agent.id) => agent.id \in stored
           /\ \A k \in DOMAIN agent.batch :
                 agent.batch[k] = agent.id \/ ~Started(subs, agent.batch[k])
BY DEF Inv, AgentInv, Agent

\* Between two entries: recv_notify, an empty pop and drain_generation.
LEMMA RestStep ==
    ASSUME Inv, PollStep, UNCHANGED <<subs, queue, gen, sent, minRun, map, astray, faults>>,
           wake' \in BOOLEAN, agent.pc \in Resting,
           agent' \in Agent, agent'.pc \in Resting, agent'.batch = <<>>,
           \/ events' = events
           \/ Emit("drained") /\ queue = <<>>
    PROVE  Inv'
<1>1. astray' \in BOOLEAN /\ faults' \in 0..MaxFaults
    BY DEF Inv, Counters
<1>2. UNCHANGED <<ui, cmds, stored, back, routed, cancels>>
    BY DEF PollStep
<1>3. Dead' = Dead
    BY <1>2 DEF Dead
<1>4. InHand' = <<>>
    BY DEF InHand, Resting
<1>5. AgentInv'
    BY <1>2, AgentFacts DEF AgentInv, Resting, Busy, InRun
<1>6. MapInv'
    BY <1>2, <1>3 DEF Inv, MapInv, Resting, InRun
<1>7. \/ events' = events
      \/ \E e \in Event : events' = Append(events, e) /\ e.gen = gen /\ queue = <<>>
    BY EmitFacts
<1>8. EventsInv'
    BY <1>7, EventsKept
<1> QED
    BY <1>1, <1>4, <1>5, <1>6, <1>8, QuietStep

\* From one point of a run to another.
LEMMA RunStep ==
    ASSUME Inv, PollStep, UNCHANGED <<subs, queue, gen, wake, sent, minRun, map, astray, faults>>,
           agent.pc \in InRun, agent' \in Agent, agent'.pc \in InRun,
           agent'.id = agent.id, agent'.run = agent.run, agent'.tok = agent.tok,
           agent'.batch = agent.batch \/ agent'.batch = <<>>,
           agent'.pc = "finish" => agent'.batch = <<>>,
           \/ events' = events
           \/ \E t \in {"done", "error"} : Emit(t)
    PROVE  Inv'
<1>1. wake' \in BOOLEAN /\ astray' \in BOOLEAN /\ faults' \in 0..MaxFaults
    BY DEF Inv, Counters
<1>2. UNCHANGED <<ui, cmds, stored, back, routed, cancels>>
    BY DEF PollStep
<1>3. Dead' = Dead
    BY <1>2 DEF Dead
<1>4. InHand' = InHand \/ InHand' = <<>>
    BY DEF InHand, InRun
<1>5. AgentInv'
    <2>1. agent'.pc \notin Batched => agent'.batch = <<>>
        BY DEF Batched, InRun
    <2>2. agent.pc \in Busy
        BY DEF Busy
    <2>3. \A k \in DOMAIN agent'.batch :
             agent'.batch[k] = agent'.id \/ ~Started(subs, agent'.batch[k])
        BY AgentFacts
    <2> QED
        BY <1>2, <2>1, <2>2, <2>3, AgentFacts DEF AgentInv
<1>6. MapInv'
    BY <1>2, <1>3 DEF Inv, MapInv, InRun
<1>7. \/ events' = events
      \/ \E e \in Event : events' = Append(events, e) /\ e.t # "drained"
    BY EmitFacts
<1>8. agent.pc \notin Resting
    BY DEF Resting, InRun
<1>9. EventsInv'
    BY <1>7, <1>8, EventsKept
<1> QED
    BY <1>1, <1>4, <1>5, <1>6, <1>9, QuietStep

\* The end of a run or of a compaction: its trigger leaves the map.
LEMMA EndStep ==
    ASSUME Inv, PollStep, UNCHANGED <<subs, queue, gen, wake, sent, astray>>,
           faults' \in 0..MaxFaults, minRun' \in Nat, minRun' <= ui.run,
           agent' \in Agent, agent'.pc = "pop", agent'.batch = <<>>,
           \/ agent.pc \in InRun /\ map' = [map EXCEPT ![agent.run] = "none"]
           \/ agent.pc = "compact" /\ map' = map,
           \/ events' = events
           \/ \E t \in {"done", "error"} : Emit(t)
    PROVE  Inv'
<1>1. wake' \in BOOLEAN /\ astray' \in BOOLEAN
    BY DEF Inv, Counters
<1>2. UNCHANGED <<ui, cmds, stored, back, routed, cancels>>
    BY DEF PollStep
<1>3. Dead' = Dead
    BY <1>2 DEF Dead
<1>4. InHand' = <<>>
    BY DEF InHand
<1>5. AgentInv'
    BY <1>2 DEF AgentInv, Busy, InRun
<1>6. MapInv'
    <2>1. /\ map \in [Runs -> {"none", "live", "pre"}]
          /\ \A r \in Runs : /\ map[r] = "live" => r = agent.run /\ agent.pc \in InRun
                             /\ map[r] = "pre" => r \in routed
        BY DEF Inv, MapInv
    <2>2. /\ map' \in [Runs -> {"none", "live", "pre"}]
          /\ \A r \in Runs : map'[r] # "live" /\ (map'[r] = "pre" => r \in routed)
        <3>1. CASE agent.pc \in InRun /\ map' = [map EXCEPT ![agent.run] = "none"]
            BY <2>1, <3>1
        <3>2. CASE agent.pc = "compact" /\ map' = map
            BY <2>1, <3>2 DEF InRun
        <3> QED
            BY <3>1, <3>2
    <2> QED
        BY <1>2, <1>3, <2>2 DEF Inv, MapInv, InRun
<1>7. \/ events' = events
      \/ \E e \in Event : events' = Append(events, e) /\ e.t # "drained"
    BY EmitFacts
<1>8. agent.pc \notin Resting
    BY DEF Resting, InRun
<1>9. EventsInv'
    BY <1>7, <1>8, EventsKept
<1> QED
    BY <1>1, <1>4, <1>5, <1>6, <1>9, QuietStep

\* What a cancelled run has behind it.
LEMMA CancelledRun ==
    ASSUME Inv, agent.pc \in InRun, agent.tok \/ subs[agent.id].gate = "cancelled"
    PROVE  agent.run + 1 \in Nat /\ agent.run + 1 <= ui.run
<1>1. agent.run \in Nat /\ ui.run \in Nat
    BY AgentFacts, RunFacts
<1>2. CASE agent.tok
    <2>1. agent.run \in Dead /\ \A r \in Dead : r < ui.run
        BY <1>2 DEF Inv, MapInv, Dead
    <2> QED
        BY <1>1, <2>1
<1>3. CASE subs[agent.id].gate = "cancelled"
    <2>1. /\ agent.id \in DOMAIN subs /\ agent.run = subs[agent.id].run
          /\ Started(subs, agent.id) => agent.id \in stored
        BY AgentFacts DEF Busy
    <2>2. SubOK(subs[agent.id], ui.run, agent.id \in stored)
        BY <2>1 DEF Inv, SubsInv
    <2> QED
        BY <1>1, <1>3, <2>1, <2>2 DEF SubOK, Started
<1> QED
    BY <1>2, <1>3

\* recv_notify and drain_generation.
LEMMA WaitStep ==
    ASSUME Inv, Wake \/ Drain
    PROVE  Inv'
<1>1. PollStep /\ UNCHANGED <<subs, queue, gen, sent, minRun, map, astray, faults>>
    BY DEF Wake, Drain, AgentStep, shared
<1>2. agent \in Agent /\ wake \in BOOLEAN
    BY AgentFacts DEF Inv, Counters
<1>3. CASE Wake
    <2>1. /\ agent.pc = "wait" /\ wake' = FALSE /\ events' = events
          /\ agent' = [agent EXCEPT !.pc = "pop", !.any = FALSE]
        BY <1>3 DEF Wake
    <2>2. agent' \in Agent /\ agent'.pc = "pop" /\ agent'.batch = agent.batch
        BY <1>2, <2>1 DEF Agent
    <2>3. agent'.batch = <<>>
        BY <2>1, <2>2, AgentFacts DEF Batched
    <2> QED
        BY <1>1, <2>1, <2>2, <2>3, RestStep DEF Resting
<1>4. CASE Drain
    <2>1. /\ agent.pc = "drain" /\ wake' = wake /\ agent' = Idle
          /\ events' = events \/ (Emit("drained") /\ queue = <<>>)
        BY <1>4 DEF Drain, shared
    <2>2. agent' \in Agent /\ agent'.pc = "wait" /\ agent'.batch = <<>>
        <3>1. 0 \in Runs /\ 0 \in 0..MaxSubs
            BY QueueAssumption DEF Runs
        <3>2. <<>> \in Seq(Ids)
            OBVIOUS
        <3> QED
            BY <2>1, <3>1, <3>2 DEF Idle, Agent
    <2> QED
        BY <1>1, <1>2, <2>1, <2>2, RestStep DEF Resting
<1> QED
    BY <1>3, <1>4

\* The steps within a run that take nothing from the queue.
LEMMA WithinRunStep ==
    ASSUME Inv, \/ Prepared \/ Continue \/ EmitDone
                \/ \E next \in {"turn", "tool", "safe"} : Respond(next)
    PROVE  Inv'
<1>1. PollStep /\ UNCHANGED <<subs, queue, gen, wake, sent, minRun, map, astray, faults>>
    BY DEF Prepared, Continue, EmitDone, Respond, AgentStep, shared
<1>2. agent \in Agent
    BY AgentFacts
<1>3. \/ events' = events
      \/ \E t \in {"done", "error"} : Emit(t)
    BY DEF Prepared, Continue, EmitDone, Respond
<1>4. agent.pc \in InRun
    BY DEF Prepared, Continue, EmitDone, Respond, InRun
<1>5. CASE EmitDone
    <2>1. agent' = [agent EXCEPT !.pc = "finish", !.batch = <<>>] /\ <<>> \in Seq(Ids)
        BY <1>5 DEF EmitDone
    <2>2. /\ agent' \in Agent /\ agent'.pc = "finish" /\ agent'.batch = <<>>
          /\ agent'.id = agent.id /\ agent'.run = agent.run /\ agent'.tok = agent.tok
        BY <1>2, <2>1 DEF Agent
    <2>3. agent'.pc \in InRun
        BY <2>2 DEF InRun
    <2> QED
        BY <1>1, <1>3, <1>4, <2>2, <2>3, RunStep
<1>6. CASE ~EmitDone
    <2>1. PICK pc \in {"turn", "tool", "safe"} : agent' = [agent EXCEPT !.pc = pc]
        BY <1>6 DEF Prepared, Continue, Respond
    <2>2. /\ agent' \in Agent /\ agent'.pc = pc /\ agent'.batch = agent.batch
          /\ agent'.id = agent.id /\ agent'.run = agent.run /\ agent'.tok = agent.tok
        BY <1>2, <2>1 DEF Agent
    <2>3. agent'.pc \in InRun /\ agent'.pc # "finish"
        BY <2>2 DEF InRun
    <2> QED
        BY <1>1, <1>3, <1>4, <2>2, <2>3, RunStep
<1> QED
    BY <1>5, <1>6

\* The ends of a run.
LEMMA RunEndsStep ==
    ASSUME Inv, PrepareCancelled \/ PrepareFailed \/ RunCancelled \/ RunFailed
    PROVE  Inv'
<1>1. PICK event \in {"done", "error"} : RunEnds(event)
    BY DEF PrepareCancelled, PrepareFailed, RunCancelled, RunFailed
<1>2. /\ PollStep /\ UNCHANGED <<subs, queue, gen, wake, sent, astray>> /\ Emit(event)
      /\ map' = [map EXCEPT ![agent.run] = "none"]
      /\ agent' = [agent EXCEPT !.pc = "pop", !.batch = <<>>, !.more = FALSE, !.tok = FALSE]
    BY <1>1 DEF RunEnds, AgentStep, shared
<1>3. agent.pc \in InRun
    BY DEF PrepareCancelled, PrepareFailed, RunCancelled, RunFailed, InRun
<1>4. faults' \in 0..MaxFaults
    BY QueueAssumption DEF Inv, Counters, PrepareCancelled, PrepareFailed, RunCancelled, RunFailed, Fault
<1>5. minRun' \in Nat /\ minRun' <= ui.run
    <2>1. CASE RunCancelled
        <3>1. minRun' = agent.run + 1 /\ (agent.tok \/ subs[agent.id].gate = "cancelled")
            BY <2>1 DEF RunCancelled, Cancelled
        <3> QED
            BY <1>3, <3>1, CancelledRun
    <2>2. CASE ~RunCancelled
        <3>1. minRun' = minRun
            BY <2>2 DEF PrepareCancelled, PrepareFailed, RunFailed
        <3> QED
            BY <3>1, AgentFacts
    <2> QED
        BY <2>1, <2>2
<1>6. agent' \in Agent /\ agent'.pc = "pop" /\ agent'.batch = <<>>
    <2>1. agent \in Agent /\ <<>> \in Seq(Ids)
        BY AgentFacts
    <2> QED
        BY <1>2, <2>1 DEF Agent
<1> QED
    BY <1>2, <1>3, <1>4, <1>5, <1>6, EndStep

\* clear_cancel_trigger and do_compact.
LEMMA ClearStep ==
    ASSUME Inv, \/ ClearTrigger
                \/ \E event \in {"done", "error"} : CompactEnds(event)
    PROVE  Inv'
<1>1. PollStep /\ UNCHANGED <<subs, queue, gen, wake, sent, astray, minRun>>
    BY DEF ClearTrigger, CompactEnds, AgentStep, shared
<1>2. faults' \in 0..MaxFaults
    BY QueueAssumption DEF Inv, Counters, ClearTrigger, CompactEnds, Fault
<1>3. minRun' \in Nat /\ minRun' <= ui.run
    BY <1>1, AgentFacts
<1>4. \/ agent.pc \in InRun /\ map' = [map EXCEPT ![agent.run] = "none"]
      \/ agent.pc = "compact" /\ map' = map
    BY DEF ClearTrigger, CompactEnds, InRun
<1>5. \/ events' = events
      \/ \E t \in {"done", "error"} : Emit(t)
    BY DEF ClearTrigger, CompactEnds
<1>6. agent' \in Agent /\ agent'.pc = "pop" /\ agent'.batch = agent.batch
    BY AgentFacts DEF ClearTrigger, CompactEnds, Agent
<1>7. agent'.batch = <<>>
    BY <1>6, AgentFacts DEF ClearTrigger, CompactEnds, Batched
<1> QED
    BY <1>1, <1>2, <1>3, <1>4, <1>5, <1>6, <1>7, EndStep

\* CancelMap::insert.
LEMMA RegisterStep ==
    ASSUME Inv, Register
    PROVE  Inv'
<1>1. /\ PollStep /\ UNCHANGED <<subs, queue, gen, wake, sent, minRun, astray, faults, events>>
      /\ agent.pc = "register"
      /\ agent' = [agent EXCEPT !.pc = "prepare", !.batch = <<agent.id>>,
                                !.tok = map[agent.run] = "pre"]
      /\ map' = [map EXCEPT ![agent.run] = IF @ = "pre" THEN "none" ELSE "live"]
    BY DEF Register, Insert, AgentStep, shared
<1>2. wake' \in BOOLEAN /\ astray' \in BOOLEAN /\ faults' \in 0..MaxFaults
    BY <1>1 DEF Inv, Counters
<1>3. UNCHANGED <<ui, cmds, stored, back, routed, cancels>>
    BY <1>1 DEF PollStep
<1>4. Dead' = Dead
    BY <1>3 DEF Dead
<1>5. agent \in Agent /\ agent.id \in Ids /\ agent.run \in Runs
    BY <1>1, AgentFacts, RunFacts DEF Busy
<1>6. /\ agent' \in Agent /\ agent'.pc = "prepare" /\ agent'.batch = <<agent.id>>
      /\ agent'.id = agent.id /\ agent'.run = agent.run
      /\ agent'.tok <=> map[agent.run] = "pre"
    <2>1. <<agent.id>> \in Seq(Ids)
        BY <1>5
    <2> QED
        BY <1>1, <1>5, <2>1 DEF Agent
<1>7. InHand' = InHand
    BY <1>1, <1>6 DEF InHand
<1>8. AgentInv'
    <2>1. \A k \in DOMAIN <<agent.id>> : <<agent.id>>[k] = agent.id
        OBVIOUS
    <2> QED
        BY <1>1, <1>3, <1>6, <2>1, AgentFacts DEF AgentInv, Busy, Batched
<1>9. MapInv'
    <2>1. /\ map \in [Runs -> {"none", "live", "pre"}]
          /\ \A r \in Runs : map[r] # "live" /\ (map[r] = "pre" => r \in routed)
          /\ agent.run \in routed => map[agent.run] = "pre"
        BY <1>1 DEF Inv, MapInv, InRun
    <2>2. map' \in [Runs -> {"none", "live", "pre"}]
        BY <1>1, <2>1
    <2>3. \A r \in Runs : map'[r] = IF r = agent.run
                                    THEN IF map[r] = "pre" THEN "none" ELSE "live" ELSE map[r]
        BY <1>1, <1>5, <2>1
    <2> QED
        BY <1>3, <1>4, <1>5, <1>6, <2>1, <2>2, <2>3 DEF Inv, MapInv, InRun
<1>10. EventsInv'
    BY <1>1, EventsKept DEF Resting
<1> QED
    BY <1>1, <1>2, <1>7, <1>8, <1>9, <1>10, QuietStep

\* The queue without an entry that the agent has taken.
LEMMA TakenFacts ==
    ASSUME Inv, NEW i \in DOMAIN queue, queue' = RemoveAt(queue, i)
    PROVE  /\ queue' \in Seq(QueueItem) /\ Increasing(queue') /\ EntriesOK(queue', subs, stored, Dead)
           /\ OrderOK(Order, queue', subs) /\ queue # <<>>
           /\ queue[i] \in QueueItem /\ EntryOK(queue[i], subs, stored, Dead)
<1>1. queue \in Seq(QueueItem) /\ Increasing(queue) /\ EntriesOK(queue, subs, stored, Dead)
    BY DEF Inv, QueueInv
<1>2. /\ queue' \in Seq(QueueItem) /\ Increasing(queue') /\ Derived(queue', queue, Len(subs))
      /\ \A k \in DOMAIN queue' : \E m \in DOMAIN queue : m # i /\ queue'[k] = queue[m]
    BY <1>1, RemoveEntry
<1>3. EntriesOK(queue', subs, stored, Dead)
    BY <1>1, <1>2 DEF EntriesOK
<1>4. OrderOK(Order, queue', subs)
    <2>1. OrderOK(Order, queue, subs) /\ Len(subs) \in Nat /\ DOMAIN subs = 1..Len(subs)
        BY RunFacts DEF Inv, OrderInv
    <2>2. Grows(subs, subs)
        BY DEF Grows
    <2> QED
        BY <1>1, <1>2, <2>1, <2>2, OrderKept
<1>5. queue # <<>> /\ queue[i] \in QueueItem
    BY <1>1
<1> QED
    BY <1>1, <1>2, <1>3, <1>4, <1>5 DEF EntriesOK

\* The first dispatchable entry of the end of a turn is the first started one.
LEMMA FirstStarted ==
    ASSUME Inv, NEW i \in Earliest(Dispatchable(TurnEnd))
    PROVE  /\ i \in DOMAIN queue /\ queue[i].kind \in TurnEnd /\ \A j \in 1..i : queue[j].ready
           /\ \A j \in DOMAIN queue : j < i => ~Started(subs, queue[j].id)
<1>1. /\ i \in DOMAIN queue /\ queue[i].kind \in TurnEnd /\ \A j \in 1..i : queue[j].ready
      /\ \A j \in Dispatchable(TurnEnd) : i <= j
    BY DEF Earliest, Dispatchable
<1>2. ASSUME NEW j \in DOMAIN queue, j < i, Started(subs, queue[j].id)
      PROVE  FALSE
    <2>1. i \in Nat /\ j \in Nat
        BY <1>1 DEF Inv, QueueInv
    <2>2. queue[j].kind = "turn"
        BY <1>2 DEF Inv, QueueInv, EntriesOK, EntryOK
    <2>3. \A k \in 1..j : queue[k].ready
        BY <1>1, <1>2, <2>1
    <2>4. j \in Dispatchable(TurnEnd)
        BY <2>2, <2>3 DEF Dispatchable, TurnEnd
    <2> QED
        BY <1>1, <1>2, <2>1, <2>4
<1> QED
    BY <1>1, <1>2

\* QueueReceiver::pop.
LEMMA PopStep ==
    ASSUME Inv, Pop
    PROVE  Inv'
<1>1. /\ PollStep /\ UNCHANGED <<subs, gen, wake, sent, minRun, map, astray, faults, events>>
      /\ agent.pc = "pop"
    BY DEF Pop, AgentStep
<1>2. agent \in Agent /\ agent.batch = <<>>
    BY <1>1, AgentFacts DEF Batched
<1>3. wake' \in BOOLEAN /\ astray' \in BOOLEAN /\ faults' \in 0..MaxFaults
    BY <1>1 DEF Inv, Counters
<1>4. UNCHANGED <<ui, cmds, stored, back, routed, cancels>>
    BY <1>1 DEF PollStep
<1>5. Dead' = Dead
    BY <1>4 DEF Dead
<1>6. CASE agent' = [agent EXCEPT !.pc = "drain"] /\ UNCHANGED queue
    <2>1. agent' \in Agent /\ agent'.pc = "drain" /\ agent'.batch = <<>>
        BY <1>2, <1>6 DEF Agent
    <2> QED
        BY <1>1, <1>3, <1>6, <2>1, RestStep DEF Resting
<1>7. ASSUME NEW i \in Earliest(Dispatchable(TurnEnd)), queue' = RemoveAt(queue, i),
             NEW e, e = queue[i],
             agent' = IF e.run < minRun THEN agent
                      ELSE [pc |-> IF e.kind = "turn" THEN "register" ELSE "compact", id |-> e.id,
                            run |-> e.run, tok |-> FALSE, more |-> FALSE, any |-> TRUE,
                            batch |-> <<>>]
      PROVE  Inv'
    <2>1. /\ i \in DOMAIN queue /\ \A j \in 1..i : queue[j].ready
          /\ \A j \in DOMAIN queue : j < i => ~Started(subs, queue[j].id)
        BY FirstStarted
    <2>2. /\ queue' \in Seq(QueueItem) /\ Increasing(queue') /\ EntriesOK(queue', subs, stored, Dead)
          /\ OrderOK(Order, queue', subs) /\ queue # <<>>
          /\ e \in QueueItem /\ EntryOK(e, subs, stored, Dead)
        BY <1>7, <2>1, TakenFacts
    <2>3. EventsInv'
        BY <1>1, <2>2, EventsKept
    <2>4. sent \in Seq(Ids)
        BY SentInOrder
    <2>5. Order = sent
        BY <1>1, <1>2, <2>4 DEF Order, InHand
    <2>6. CASE e.run < minRun
        <3>1. agent' = agent
            BY <1>7, <2>6
        <3>2. Order' = Order
            BY <1>1, <3>1 DEF Order, InHand
        <3>3. AgentInv' /\ MapInv'
            BY <1>1, <1>4, <1>5, <3>1 DEF Inv, AgentInv, MapInv
        <3>4. OrderOK(Order', queue', subs)
            BY <2>2, <3>2
        <3> QED
            BY <1>1, <1>3, <2>2, <2>3, <3>3, <3>4, AgentFrame
    <2>7. CASE ~(e.run < minRun)
        <3>1. agent' = [pc |-> IF e.kind = "turn" THEN "register" ELSE "compact", id |-> e.id,
                        run |-> e.run, tok |-> FALSE, more |-> FALSE, any |-> TRUE, batch |-> <<>>]
            BY <1>7, <2>7
        <3>2. e.id \in Ids /\ e.id \in 0..MaxSubs /\ e.run \in Runs /\ <<>> \in Seq(Ids)
            BY <2>2, QueueAssumption DEF QueueItem, Ids
        <3>3. /\ agent' \in Agent /\ agent'.id = e.id /\ agent'.run = e.run /\ agent'.batch = <<>>
              /\ agent'.pc = IF e.kind = "turn" THEN "register" ELSE "compact"
            BY <3>1, <3>2 DEF Agent
        <3>4. e.ready
            <4>1. i \in 1..i
                BY <2>1 DEF Inv, QueueInv
            <4> QED
                BY <1>7, <2>1, <4>1
        <3>5. AgentInv'
            <4>1. minRun \in Nat /\ minRun <= ui.run
                BY AgentFacts
            <4>2. /\ e.id \in DOMAIN subs /\ e.run = subs[e.id].run
                  /\ Started(subs, e.id) => e.id \in stored
                BY <2>2, <3>4 DEF EntryOK
            <4> QED
                BY <1>1, <1>4, <3>3, <4>1, <4>2 DEF AgentInv
        <3>6. MapInv'
            <4>1. e.run \notin routed
                BY <2>2 DEF EntryOK, Dead
            <4>2. \A r \in Runs : map[r] # "live"
                BY <1>1 DEF Inv, MapInv, InRun
            <4>3. agent'.pc \notin InRun
                BY <3>3 DEF InRun
            <4> QED
                BY <1>1, <1>4, <1>5, <3>3, <4>1, <4>2, <4>3 DEF Inv, MapInv
        <3>7. OrderOK(Order', queue', subs)
            <4>1. CASE e.kind = "turn"
                <5>1. Order' = Append(sent, e.id)
                    <6>1. InHand' = <<e.id>>
                        BY <3>3, <4>1 DEF InHand
                    <6> QED
                        BY <1>1, <2>4, <3>2, <6>1 DEF Order
                <5>2. /\ queue \in Seq(QueueItem) /\ Increasing(queue)
                      /\ EntriesOK(queue, subs, stored, Dead) /\ OrderOK(sent, queue, subs)
                    BY <2>5 DEF Inv, QueueInv, OrderInv
                <5>3. OrderOK(Append(sent, queue[i].id), RemoveAt(queue, i), subs)
                    BY <2>1, <5>2, OrderTaken
                <5> QED
                    BY <1>7, <5>1, <5>3
            <4>2. CASE e.kind # "turn"
                <5>1. InHand' = <<>>
                    BY <3>3, <4>2 DEF InHand
                <5>2. Order' = sent
                    BY <1>1, <2>4, <5>1 DEF Order
                <5> QED
                    BY <2>2, <2>5, <5>2
            <4> QED
                BY <4>1, <4>2
        <3> QED
            BY <1>1, <1>3, <2>2, <2>3, <3>5, <3>6, <3>7, AgentFrame
    <2> QED
        BY <2>6, <2>7
<1>8. \/ agent' = [agent EXCEPT !.pc = "drain"] /\ UNCHANGED queue
      \/ \E i \in Earliest(Dispatchable(TurnEnd)) :
            /\ queue' = RemoveAt(queue, i)
            /\ agent' = IF queue[i].run < minRun THEN agent
                        ELSE [pc |-> IF queue[i].kind = "turn" THEN "register" ELSE "compact",
                              id |-> queue[i].id, run |-> queue[i].run, tok |-> FALSE,
                              more |-> FALSE, any |-> TRUE, batch |-> <<>>]
    BY DEF Pop
<1> QED
    BY <1>6, <1>7, <1>8

\* handle_queued_commands: what is taken here is no started submission.
LEMMA PollInv ==
    ASSUME Inv, Poll
    PROVE  Inv'
<1>1. /\ PollStep /\ UNCHANGED <<subs, gen, wake, sent, minRun, map, faults, events>>
      /\ agent.pc \in {"tool", "safe"}
    BY DEF Poll
<1>2. PICK i \in Earliest(Dispatchable(PollKinds(agent.pc))) :
         /\ queue' = RemoveAt(queue, i)
         /\ agent' = [agent EXCEPT !.more = TRUE,
                                   !.batch = IF queue[i].kind = "compact" THEN @
                                             ELSE Append(@, queue[i].id)]
         /\ astray' = (astray \/ (queue[i].kind = "compact" /\ queue[i].run = ui.run
                                    /\ agent.run # ui.run))
    BY DEF Poll
<1>3. i \in DOMAIN queue /\ queue[i].kind # "turn" /\ \A j \in 1..i : queue[j].ready
    BY DEF Earliest, Dispatchable, PollKinds
<1>4. /\ queue' \in Seq(QueueItem) /\ Increasing(queue') /\ EntriesOK(queue', subs, stored, Dead)
      /\ OrderOK(Order, queue', subs) /\ queue # <<>>
      /\ queue[i] \in QueueItem /\ EntryOK(queue[i], subs, stored, Dead)
    BY <1>2, <1>3, TakenFacts
<1>5. wake' \in BOOLEAN /\ astray' \in BOOLEAN /\ faults' \in 0..MaxFaults
    BY <1>1, <1>2 DEF Inv, Counters
<1>6. UNCHANGED <<ui, cmds, stored, back, routed, cancels>>
    BY <1>1 DEF PollStep
<1>7. Dead' = Dead
    BY <1>6 DEF Dead
<1>8. agent \in Agent /\ agent.batch \in Seq(Ids) /\ sent \in Seq(Ids)
    BY AgentFacts, SentInOrder
<1> DEFINE x == queue[i].id
           b == IF queue[i].kind = "compact" THEN agent.batch ELSE Append(agent.batch, x)
<1>9. x \in Ids /\ x \in DOMAIN subs /\ ~Started(subs, x)
    BY <1>3, <1>4 DEF QueueItem, EntryOK
<1>10. /\ agent' \in Agent /\ agent'.batch = b /\ agent'.pc = agent.pc /\ agent'.id = agent.id
       /\ agent'.run = agent.run /\ agent'.tok = agent.tok
    <2>1. b \in Seq(Ids)
        BY <1>8, <1>9
    <2>2. agent' = [agent EXCEPT !.more = TRUE, !.batch = b]
        BY <1>2
    <2> HIDE DEF b
    <2> QED
        BY <1>8, <2>1, <2>2 DEF Agent
<1>11. InHand = agent.batch /\ InHand' = b
    BY <1>1, <1>10 DEF InHand
<1>12. AgentInv'
    <2>1. \A k \in DOMAIN b : b[k] = x \/ \E m \in DOMAIN agent.batch : b[k] = agent.batch[m]
        BY <1>8, <1>9, AppendEntries
    <2> HIDE DEF b, x
    <2>2. \A k \in DOMAIN b : b[k] = agent.id \/ ~Started(subs, b[k])
        BY <1>9, <2>1, AgentFacts
    <2> QED
        BY <1>1, <1>6, <1>10, <2>2, AgentFacts DEF AgentInv, Batched
<1>13. MapInv'
    BY <1>1, <1>6, <1>7, <1>10 DEF Inv, MapInv
<1>14. EventsInv'
    BY <1>1, <1>4, EventsKept
<1>15. OrderOK(Order', queue', subs)
    <2>1. CASE queue[i].kind = "compact"
        <3>1. Order' = Order
            BY <1>1, <1>11, <2>1 DEF Order
        <3> QED
            BY <1>4, <3>1
    <2>2. CASE queue[i].kind # "compact"
        <3>1. Order' = sent \o Append(agent.batch, x) /\ Order = sent \o agent.batch
            BY <1>1, <1>11, <2>2 DEF Order
        <3>2. Order' = Append(Order, x)
            BY <1>8, <1>9, <3>1, ConcatAppend
        <3>3. /\ queue \in Seq(QueueItem) /\ Increasing(queue)
              /\ EntriesOK(queue, subs, stored, Dead) /\ OrderOK(Order, queue, subs)
            BY DEF Inv, QueueInv, OrderInv
        <3>4. OrderOK(Append(Order, queue[i].id), RemoveAt(queue, i), subs)
            BY <1>3, <1>9, <3>3, OrderTaken
        <3> QED
            BY <1>2, <3>2, <3>4
    <2> QED
        BY <2>1, <2>2
<1> QED
    BY <1>1, <1>4, <1>5, <1>12, <1>13, <1>14, <1>15, AgentFrame

\* PreDispatchGate::try_commit, and the request.
LEMMA DispatchStep ==
    ASSUME Inv, Dispatch
    PROVE  Inv'
<1>1. /\ PollStep /\ UNCHANGED <<queue, gen, wake, minRun, map, astray, faults, events>>
      /\ agent.pc = "turn" /\ subs[agent.id].gate # "cancelled"
      /\ subs' = [subs EXCEPT ![agent.id].gate = "committed"]
      /\ sent' = sent \o agent.batch
      /\ agent' = [agent EXCEPT !.pc = "stream", !.batch = <<>>, !.more = FALSE]
    BY DEF Dispatch, Commit, AgentStep, shared
<1>2. UNCHANGED <<ui, cmds, stored, back, routed, cancels>>
    BY <1>1 DEF PollStep
<1>3. Dead' = Dead
    BY <1>2 DEF Dead
<1>4. PICK i \in DOMAIN subs : i = agent.id /\ (Started(subs, i) => i \in stored)
    BY <1>1, AgentFacts DEF Busy, InRun
<1>5. subs[i] \in Submission /\ SubOK(subs[i], ui.run, i \in stored)
    BY RunFacts DEF Inv, SubsInv
<1> DEFINE s == [subs[i] EXCEPT !.gate = "committed"]
<1>6. /\ s \in Submission /\ s.how = subs[i].how /\ s.run = subs[i].run /\ s.gate = "committed"
      /\ s.st = subs[i].st
    BY <1>5 DEF Submission
<1>7. subs' = [subs EXCEPT ![i] = s]
    BY <1>1, <1>4
<1> HIDE DEF s
<1>8. /\ SubsInv' /\ Grows(subs, subs') /\ Len(subs') = Len(subs) /\ DOMAIN subs' = DOMAIN subs
      /\ subs'[i].gate = "committed"
    <2>1. i \notin back
        BY <1>1, <1>4 DEF Inv, SubsInv
    <2>2. SubOK(s, ui'.run, i \in stored')
        BY <1>2, <1>5, <1>6 DEF SubOK
    <2>3. ui'.run \in Nat /\ ui.run <= ui'.run
        BY <1>2, RunFacts
    <2>4. SubsInv' /\ Grows(subs, subs') /\ Len(subs') = Len(subs) /\ DOMAIN subs' = DOMAIN subs
        BY <1>2, <1>6, <1>7, <2>1, <2>2, <2>3, SubsChanged
    <2>5. subs \in Seq(Submission)
        BY DEF Inv, SubsInv
    <2>6. subs'[i] = s
        BY <1>6, <1>7, <2>5, ExceptEntries
    <2> QED
        BY <1>6, <2>4, <2>6
<1>9. \A k \in DOMAIN subs : Started(subs', k) <=> Started(subs, k)
    BY <1>8 DEF Grows, Started
<1>10. agent \in Agent /\ agent.batch \in Seq(Ids) /\ sent \in Seq(Ids)
    BY AgentFacts, SentInOrder
<1>11. /\ agent' \in Agent /\ agent'.pc = "stream" /\ agent'.batch = <<>> /\ agent'.id = agent.id
       /\ agent'.run = agent.run /\ agent'.tok = agent.tok
    <2>1. <<>> \in Seq(Ids)
        OBVIOUS
    <2> QED
        BY <1>1, <1>10, <2>1 DEF Agent
<1>12. Counters' /\ UiInv'
    BY <1>1, <1>2, <1>8 DEF Inv, Counters, UiInv, Painted, Grows
<1>13. QueueInv'
    <2>1. EntriesOK(queue, subs, stored, Dead)
        BY DEF Inv, QueueInv
    <2>2. EntriesOK(queue, subs', stored, Dead)
        BY <1>8, <2>1, EntriesKept
    <2> QED
        BY <1>1, <1>2, <1>3, <2>2 DEF Inv, QueueInv
<1>14. OrderInv'
    <2>1. /\ queue \in Seq(QueueItem) /\ EntriesOK(queue, subs, stored, Dead)
          /\ OrderOK(Order, queue, subs) /\ Len(subs) \in Nat /\ DOMAIN subs = 1..Len(subs)
        BY RunFacts DEF Inv, QueueInv, OrderInv
    <2>2. Derived(queue, queue, Len(subs))
        BY DEF Derived
    <2>3. OrderOK(Order, queue, subs')
        BY <1>8, <2>1, <2>2, OrderKept
    <2>4. Order = sent \o agent.batch /\ sent' \in Seq(Ids)
        BY <1>1, <1>10 DEF Order, InHand
    <2>5. Order' = sent'
        <3>1. InHand' = <<>>
            BY <1>11 DEF InHand
        <3> QED
            BY <2>4, <3>1 DEF Order
    <2> QED
        BY <1>1, <2>3, <2>4, <2>5 DEF OrderInv
<1>15. AgentInv'
    <2>1. minRun' \in Nat /\ minRun' <= ui'.run
        BY <1>1, <1>2, AgentFacts
    <2>2. /\ agent.id \in DOMAIN subs /\ agent.run = subs[agent.id].run
          /\ Started(subs, agent.id) => agent.id \in stored
        BY <1>1, AgentFacts DEF Busy, InRun
    <2>3. /\ agent.id \in DOMAIN subs' /\ agent.run = subs'[agent.id].run
          /\ Started(subs', agent.id) => agent.id \in stored
        BY <1>8, <1>9, <2>2 DEF Grows
    <2> QED
        BY <1>2, <1>11, <2>1, <2>3 DEF AgentInv
<1>16. SentInv'
    <2> SUFFICES ASSUME NEW k \in DOMAIN sent', Started(subs', sent'[k])
                 PROVE  subs'[sent'[k]].gate = "committed" /\ sent'[k] \in stored
        BY <1>2 DEF SentInv
    <2>1. \/ \E j \in DOMAIN sent : sent'[k] = sent[j]
          \/ \E j \in DOMAIN agent.batch : sent'[k] = agent.batch[j]
        <3>1. /\ DOMAIN sent' = 1..(Len(sent) + Len(agent.batch)) /\ DOMAIN sent = 1..Len(sent)
              /\ DOMAIN agent.batch = 1..Len(agent.batch) /\ Len(sent) \in Nat /\ Len(agent.batch) \in Nat
              /\ \A j \in 1..Len(sent) : sent'[j] = sent[j]
              /\ \A j \in 1..Len(agent.batch) : sent'[Len(sent) + j] = agent.batch[j]
            BY <1>1, <1>10, ConcatEntries
        <3>2. CASE k <= Len(sent)
            BY <3>1, <3>2
        <3>3. CASE ~(k <= Len(sent))
            <4>1. k - Len(sent) \in 1..Len(agent.batch) /\ Len(sent) + (k - Len(sent)) = k
                BY <3>1, <3>3
            <4>2. sent'[k] = agent.batch[k - Len(sent)]
                BY <3>1, <4>1
            <4> QED
                BY <3>1, <4>1, <4>2
        <3> QED
            BY <3>2, <3>3
    <2>2. CASE \E j \in DOMAIN sent : sent'[k] = sent[j]
        <3>1. PICK j \in DOMAIN sent : sent'[k] = sent[j]
            BY <2>2
        <3>2. sent[j] \in DOMAIN subs
            BY SentInOrder
        <3>3. subs[sent[j]].gate = "committed" /\ sent[j] \in stored
            BY <1>9, <3>1, <3>2 DEF Inv, SentInv
        <3> QED
            BY <1>8, <3>1, <3>2, <3>3 DEF Grows
    <2>3. CASE \E j \in DOMAIN agent.batch : sent'[k] = agent.batch[j]
        <3>1. PICK j \in DOMAIN agent.batch : sent'[k] = agent.batch[j]
            BY <2>3
        <3>2. agent.batch[j] \in DOMAIN subs
            BY SentInOrder
        <3>3. agent.batch[j] = i
            BY <1>4, <1>9, <3>1, <3>2, AgentFacts
        <3> QED
            BY <1>4, <1>8, <1>9, <3>1, <3>3
    <2> QED
        BY <2>1, <2>2, <2>3
<1>17. MapInv'
    BY <1>1, <1>2, <1>3, <1>11 DEF Inv, MapInv, InRun
<1>18. EventsInv'
    BY <1>1, EventsKept DEF Resting
<1> QED
    BY <1>8, <1>12, <1>13, <1>14, <1>15, <1>16, <1>17, <1>18 DEF Inv

-----------------------------------------------------------------------------
(* The invariant and its consequences.                                     *)

\* An idle session.
LEMMA InitInv ==
    ASSUME Init
    PROVE  Inv
<1>1. /\ ui = [status |-> "idle", run |-> 0, pending |-> 0, active |-> FALSE]
      /\ subs = <<>> /\ queue = <<>> /\ gen = 0 /\ wake = FALSE
      /\ agent = Idle /\ minRun = 0 /\ map = [r \in Runs |-> "none"]
      /\ cmds = <<>> /\ events = <<>>
      /\ sent = <<>> /\ stored = {} /\ back = {} /\ routed = {} /\ astray = FALSE
      /\ cancels = 0 /\ faults = 0
    BY DEF Init
<1>2. Counters
    <2>1. wake \in BOOLEAN /\ astray \in BOOLEAN
        BY <1>1
    <2>2. gen \in Nat /\ cancels \in 0..MaxCancels /\ faults \in 0..MaxFaults
        BY <1>1, QueueAssumption
    <2> QED
        BY <2>1, <2>2 DEF Counters
<1>3. Len(subs) = 0 /\ DOMAIN subs = {}
    BY <1>1
<1>4. UiInv
    <2>1. IsFiniteSet(back) /\ Cardinality(back) = 0
        BY <1>1, FS_EmptySet
    <2> QED
        BY <1>1, <1>3, <2>1 DEF UiInv, UiState
<1>5. SubsInv
    <2>1. subs \in Seq(Submission)
        BY <1>1
    <2> QED
        BY <1>1, <1>3, <2>1, QueueAssumption DEF SubsInv
<1>6. QueueInv
    BY <1>1, EmptyQueue DEF QueueInv
<1>7. /\ agent \in Agent /\ agent.pc = "wait" /\ agent.batch = <<>> /\ agent.run = 0
    <2>1. 0 \in Runs /\ 0 \in 0..MaxSubs
        BY QueueAssumption DEF Runs
    <2>2. <<>> \in Seq(Ids)
        OBVIOUS
    <2> QED
        BY <1>1, <2>1, <2>2 DEF Idle, Agent
<1>8. OrderInv
    <2>1. InHand = <<>>
        BY <1>7 DEF InHand
    <2>2. Order = <<>>
        BY <1>1, <2>1 DEF Order
    <2>3. <<>> \in Seq(Ids)
        OBVIOUS
    <2>4. OrderOK(<<>>, queue, subs)
        BY <2>3 DEF OrderOK, InLine, Ahead
    <2> QED
        BY <1>1, <2>2, <2>3, <2>4 DEF OrderInv
<1>9. AgentInv
    BY <1>1, <1>7 DEF AgentInv, Busy, InRun
<1>10. SentInv
    BY <1>1 DEF SentInv
<1>11. MapInv
    <2>1. cmds \in Seq(Runs) /\ Dead = {}
        BY <1>1 DEF Dead
    <2>2. map \in [Runs -> {"none", "live", "pre"}] /\ \A r \in Runs : map[r] = "none"
        BY <1>1
    <2> QED
        BY <1>1, <1>7, <2>1, <2>2 DEF MapInv, InRun
<1>12. EventsInv
    <2>1. events \in Seq(Event)
        BY <1>1
    <2> QED
        BY <1>1, <2>1 DEF EventsInv, EventsOK
<1> QED
    BY <1>2, <1>4, <1>5, <1>6, <1>8, <1>9, <1>10, <1>11, <1>12 DEF Inv

\* Every step keeps the invariant.
LEMMA NextInv ==
    ASSUME Inv, [Next]_vars
    PROVE  Inv'
<1>1. CASE UserNext
    <2>1. ASSUME NEW paint \in BOOLEAN, NEW requested \in BOOLEAN, Start(paint, requested)
          PROVE  Inv'
        BY <2>1, StartStep
    <2> QED
        BY <1>1, <2>1, StartRefusedStep, QueueMessageStep, PanelStep, RestoreStep, CancelStep
        DEF UserNext
<1>2. ASSUME NEW i \in DOMAIN subs, Settle(i) \/ DrawRefused(i) \/ PersistFailed(i)
      PROVE  Inv'
    BY <1>2, DrawStep, PersistedStep, FailedStep DEF Settle
<1>3. CASE HandleEvent
    BY <1>3, HandleEventStep
<1>4. CASE AgentNext
    <2>1. CASE Wake \/ Drain
        BY <2>1, WaitStep
    <2>2. CASE Pop
        BY <2>2, PopStep
    <2>3. CASE Register
        BY <2>3, RegisterStep
    <2>4. CASE PrepareCancelled \/ PrepareFailed \/ RunCancelled \/ RunFailed
        BY <2>4, RunEndsStep
    <2>5. CASE \/ Prepared \/ Continue \/ EmitDone
               \/ \E next \in {"turn", "tool", "safe"} : Respond(next)
        BY <2>5, WithinRunStep
    <2>6. CASE Dispatch
        BY <2>6, DispatchStep
    <2>7. CASE Poll
        BY <2>7, PollInv
    <2>8. CASE \/ ClearTrigger
               \/ \E event \in {"done", "error"} : CompactEnds(event)
        BY <2>8, ClearStep
    <2> QED
        BY <1>4, <2>1, <2>2, <2>3, <2>4, <2>5, <2>6, <2>7, <2>8 DEF AgentNext
<1>5. CASE Route
    BY <1>5, RouteStep
<1>6. CASE UNCHANGED vars
    <2>1. /\ UNCHANGED <<ui, subs, queue, gen, wake, agent, minRun, map, cmds, events>>
          /\ UNCHANGED <<sent, stored, back, routed, astray, cancels, faults>>
        BY <1>6 DEF vars, shared, ghosts, bounds
    <2>2. Dead' = Dead /\ Order' = Order
        BY <2>1 DEF Dead, Order, InHand
    <2>3. Counters' /\ UiInv' /\ SubsInv' /\ QueueInv' /\ OrderInv'
        BY <2>1, <2>2 DEF Inv, Counters, UiInv, SubsInv, QueueInv, OrderInv, Painted
    <2>4. AgentInv' /\ SentInv' /\ MapInv' /\ EventsInv'
        BY <2>1, <2>2 DEF Inv, AgentInv, SentInv, MapInv, EventsInv
    <2> QED
        BY <2>3, <2>4 DEF Inv
<1> QED
    BY <1>1, <1>2, <1>3, <1>4, <1>5, <1>6 DEF Next

\* The invariant holds in every reachable state, for any bounds.
THEOREM QueueInvariant == Spec => []Inv
<1>1. Init => Inv
    BY InitInv
<1>2. Inv /\ [Next]_vars => Inv'
    BY NextInv
<1> QED
    BY <1>1, <1>2, PTL DEF Spec

\* The types, with the runs that the counts allow and a CancelMap that keeps no
\* trigger of a run that has ended.
THEOREM QueueTypeCorrect == Spec => []TypeOK
<1>1. Inv => TypeOK
    <2> SUFFICES ASSUME Inv
                 PROVE  TypeOK
        OBVIOUS
    <2>1. ui.run \in Runs
        BY RunTyped DEF Inv
    <2>2. /\ ui.status \in {"idle", "streaming", "error"} /\ ui.active \in BOOLEAN
          /\ ui.pending \in Nat /\ (ui.pending # 0 => ui.pending \in DOMAIN subs)
        BY DEF Inv, UiInv, UiState
    <2>3. ui.pending \in 0..Len(subs)
        BY <2>2, RunFacts
    <2>4. minRun \in Runs
        <3>1. minRun \in Nat /\ minRun <= ui.run
            BY AgentFacts
        <3> QED
            BY <2>1, <3>1, QueueAssumption DEF Runs
    <2>5. stored \subseteq Ids /\ back \subseteq Ids
        BY RunFacts DEF Inv, SubsInv
    <2>6. subs \in Seq(Submission) /\ Len(subs) <= MaxSubs /\ queue \in Seq(QueueItem)
        BY DEF Inv, SubsInv, QueueInv
    <2>7. /\ gen \in Nat /\ wake \in BOOLEAN /\ astray \in BOOLEAN
          /\ cancels \in 0..MaxCancels /\ faults \in 0..MaxFaults
        BY DEF Inv, Counters
    <2>8. agent \in Agent /\ sent \in Seq(Ids) /\ events \in Seq(Event)
        BY DEF Inv, AgentInv, OrderInv, EventsInv
    <2>9. /\ map \in [Runs -> {"none", "live", "pre"}]
          /\ \A r \in Runs : map[r] = "live" => r = agent.run /\ agent.pc \in InRun
          /\ cmds \in Seq(Runs) /\ routed \subseteq Runs
        BY DEF Inv, MapInv
    <2> QED
        BY <2>1, <2>2, <2>3, <2>4, <2>5, <2>6, <2>7, <2>8, <2>9 DEF TypeOK
<1> QED
    BY <1>1, QueueInvariant, PTL

\* What Esc or a failure returned to the input box is never sent.
THEOREM QueueRestoredNotSent == Spec => []RestoredNotSent
<1>1. Inv => RestoredNotSent
    <2> SUFFICES ASSUME Inv, NEW k \in DOMAIN sent, sent[k] \in back
                 PROVE  FALSE
        BY DEF RestoredNotSent
    <2>1. subs[sent[k]].gate = "cancelled" /\ subs[sent[k]].how = "painted"
        BY DEF Inv, SubsInv
    <2>2. subs[sent[k]].gate = "committed"
        BY <2>1 DEF Inv, SentInv, Started
    <2> QED
        BY <2>1, <2>2
<1> QED
    BY <1>1, QueueInvariant, PTL

\* A started submission is on disk before it is sent.
THEOREM QueueSentStored == Spec => []SentIsStored
<1>1. Inv => SentIsStored
    BY DEF Inv, SentInv, SentIsStored, Started
<1> QED
    BY <1>1, QueueInvariant, PTL

\* Nothing is sent twice, and started submissions are sent in their order, past none
\* that waits for its write.
THEOREM QueueInOrder == Spec => []InOrder
<1>1. Inv => InOrder
    <2> SUFFICES ASSUME Inv
                 PROVE  InOrder
        OBVIOUS
    <2>1. sent \in Seq(Ids) /\ OrderOK(sent \o InHand, queue, subs)
        BY DEF Inv, OrderInv, Order
    <2>2. InHand \in Seq(Ids)
        <3>1. agent.pc = "register" => agent.id \in Ids
            BY RunFacts, AgentFacts DEF Busy
        <3> QED
            BY <3>1, AgentFacts DEF InHand
    <2>3. InLine(sent, subs) /\ Ahead(sent, queue, subs)
        BY <2>1, <2>2, OrderDropped DEF OrderOK
    <2> QED
        BY <2>3 DEF InOrder, InLine, Ahead, After, Started
<1> QED
    BY <1>1, QueueInvariant, PTL

\* A run whose cancellation the router has handled makes no further request.
THEOREM QueueCancelStops == Spec => CancelStops
<1> DEFINE A == agent.pc = "turn" /\ agent'.pc = "stream" => agent.run \notin routed
<1>1. Inv /\ [Next]_vars => [A]_vars
    <2> SUFFICES ASSUME Inv, Next, agent.pc = "turn", agent'.pc = "stream"
                 PROVE  agent.run \notin routed
        OBVIOUS
    <2>1. agent \in Agent
        BY AgentFacts
    <2>2. ~UserNext
        BY DEF UserNext, Start, StartRefused, QueueMessage, Compact, Promote, QueuePop, Restore,
               Cancel, UIOnly
    <2>3. ASSUME NEW i \in DOMAIN subs, Settle(i) \/ DrawRefused(i) \/ PersistFailed(i)
          PROVE  FALSE
        BY <2>3 DEF Settle, Draw, Persisted, DrawRefused, PersistFailed, UIOnly
    <2>4. ~HandleEvent
        BY DEF HandleEvent
    <2>5. ~Route
        BY <2>1 DEF Route, Agent
    <2>6. CASE AgentNext
        <3>1. ~Wake /\ ~Pop /\ ~Drain /\ ~Register /\ ~ClearTrigger /\ ~Poll
            BY DEF Wake, Pop, Drain, Register, ClearTrigger, Poll
        <3>2. ~PrepareCancelled /\ ~PrepareFailed /\ ~Prepared
            BY DEF PrepareCancelled, PrepareFailed, Prepared
        <3>3. ~RunCancelled /\ ~RunFailed
            BY <2>1 DEF RunCancelled, RunFailed, RunEnds, Agent
        <3>4. ~EmitDone /\ ~Continue
            BY <2>1 DEF EmitDone, Continue, Agent
        <3>5. Dispatch
            BY <2>6, <3>1, <3>2, <3>3, <3>4 DEF AgentNext, Respond, CompactEnds
        <3> QED
            BY <3>5 DEF Dispatch, Inv, MapInv, InRun
    <2> QED
        BY <2>2, <2>3, <2>4, <2>5, <2>6 DEF Next
<1> QED
    BY <1>1, QueueInvariant, PTL DEF Spec, CancelStops

\* QueueDrained releases a session only when its agent has nothing left to do.
THEOREM QueueDrainReleases == Spec => DrainReleasesIdle
<1> DEFINE A == ui.active /\ ~ui'.active /\ events' # events
                    => queue = <<>> /\ agent.pc \in {"wait", "pop", "drain"}
<1>1. Inv /\ [Next]_vars => [A]_vars
    <2> SUFFICES ASSUME Inv, Next, ui.active, ~ui'.active, events' # events
                 PROVE  queue = <<>> /\ agent.pc \in {"wait", "pop", "drain"}
        OBVIOUS
    <2>1. ~UserNext
        BY DEF UserNext, Start, StartRefused, QueueMessage, Compact, Promote, QueuePop, Restore,
               Cancel, UIOnly
    <2>2. ASSUME NEW i \in DOMAIN subs, Settle(i) \/ DrawRefused(i) \/ PersistFailed(i)
          PROVE  FALSE
        BY <2>2 DEF Settle, Draw, Persisted, DrawRefused, PersistFailed, UIOnly
    <2>3. ~AgentNext
        <3>1. ~Wake /\ ~Pop /\ ~Drain /\ ~Register /\ ~ClearTrigger /\ ~Poll
            BY DEF Wake, Pop, Drain, Register, ClearTrigger, Poll, AgentStep, PollStep
        <3>2. ~PrepareCancelled /\ ~PrepareFailed /\ ~Prepared /\ ~RunCancelled /\ ~RunFailed
            BY DEF PrepareCancelled, PrepareFailed, Prepared, RunCancelled, RunFailed, RunEnds,
                   AgentStep, PollStep
        <3>3. ~EmitDone /\ ~Continue /\ ~Dispatch
            BY DEF EmitDone, Continue, Dispatch, AgentStep, PollStep
        <3> QED
            BY <3>1, <3>2, <3>3 DEF AgentNext, Respond, CompactEnds, AgentStep, PollStep
    <2>4. CASE HandleEvent
        <3> DEFINE e == Head(events)
        <3>1. /\ events # <<>>
              /\ ui' = IF e.t = "drained" THEN [ui EXCEPT !.active = @ /\ ~IsDrained(e.gen)]
                       ELSE IF e.run # ui.run THEN ui
                       ELSE [ui EXCEPT !.status = IF e.t = "done" THEN "idle" ELSE "error"]
            BY <2>4 DEF HandleEvent
        <3>2. ui \in UiState /\ events \in Seq(Event) /\ EventsOK(events, gen, queue = <<>>, agent.pc)
            BY DEF Inv, UiInv, EventsInv
        <3>3. 1 \in DOMAIN events /\ e = events[1]
            BY <3>1, <3>2, TailEntries
        <3> HIDE DEF e
        <3>4. e.t = "drained" /\ IsDrained(e.gen)
            <4>1. CASE e.t = "drained"
                BY <3>1, <3>2, <4>1 DEF UiState, IsDrained
            <4>2. CASE e.t # "drained"
                BY <3>1, <3>2, <4>2 DEF UiState
            <4> QED
                BY <4>1, <4>2
        <3> QED
            BY <3>2, <3>3, <3>4 DEF EventsOK, IsDrained, Resting
    <2>5. ~Route
        BY DEF Route
    <2> QED
        BY <2>1, <2>2, <2>3, <2>4, <2>5 DEF Next
<1> QED
    BY <1>1, QueueInvariant, PTL DEF Spec, DrainReleasesIdle
=============================================================================
