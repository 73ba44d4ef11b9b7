--------------------------- MODULE SessionLogProofs ---------------------------
(***************************************************************************)
(* Theorems about the log of one session, for any number of messages,      *)
(* subagents, snapshots, frames and faults.                                *)
(***************************************************************************)
EXTENDS SessionLog, SequenceFacts, TLAPS

-----------------------------------------------------------------------------
(* What can be read.                                                       *)

\* The function by which Readable is defined.
Reader(ms, r) ==
    r = [i \in 0..Len(ms) |->
            IF i = 0 THEN <<>>
            ELSE IF ms[i] \in Big THEN r[i - 1] ELSE Append(r[i - 1], ms[i])]

\* It reads a message more, or skips its tombstone.
LEMMA ReaderStep ==
    ASSUME NEW ms \in Seq(Nat), NEW m \in Nat, NEW r, Reader(ms, r)
    PROVE  \E t : Reader(Append(ms, m), t)
<1> DEFINE n == Len(ms)
           last == IF m \in Big THEN r[n] ELSE Append(r[n], m)
           t == [i \in 0..(n + 1) |-> IF i = n + 1 THEN last ELSE r[i]]
<1>1. n \in Nat /\ Len(Append(ms, m)) = n + 1 /\ Append(ms, m)[n + 1] = m
      /\ \A i \in 1..n : Append(ms, m)[i] = ms[i]
  OBVIOUS
<1>2. \A i \in 0..n : r[i] = IF i = 0 THEN <<>>
                            ELSE IF ms[i] \in Big THEN r[i - 1] ELSE Append(r[i - 1], ms[i])
  BY DEF Reader
<1> DEFINE u == [i \in 0..(n + 1) |->
                    IF i = 0 THEN <<>>
                    ELSE IF Append(ms, m)[i] \in Big THEN t[i - 1]
                    ELSE Append(t[i - 1], Append(ms, m)[i])]
<1>3. \A i \in 0..(n + 1) : t[i] = u[i]
  <2> TAKE i \in 0..(n + 1)
  <2>1. CASE i = 0
    BY <1>1, <1>2, <2>1
  <2>2. CASE i \in 1..n
    <3>1. t[i] = r[i] /\ t[i - 1] = r[i - 1] /\ i # 0 /\ i \in 0..n
      BY <1>1, <2>2
    <3>2. Append(ms, m)[i] = ms[i]
      BY <1>1, <2>2
    <3> HIDE DEF t, n
    <3>3. u[i] = IF ms[i] \in Big THEN t[i - 1] ELSE Append(t[i - 1], ms[i])
      BY <3>1, <3>2
    <3> QED BY <3>1, <3>3, <1>2
  <2>3. CASE i = n + 1
    <3>1. t[i] = last /\ t[i - 1] = r[n] /\ i # 0
      BY <1>1, <2>3
    <3> QED BY <3>1, <1>1, <2>3
  <2> QED BY <1>1, <2>1, <2>2, <2>3
<1>4. t = u
  BY <1>3
<1> HIDE DEF t
<1>5. Reader(Append(ms, m), t)
  BY <1>1, <1>4 DEF Reader
<1> QED BY <1>5

\* There is such a function for every sequence.
LEMMA ReaderExists == \A ms \in Seq(Nat) : \E r : Reader(ms, r)
<1> DEFINE P == {ms \in Seq(Nat) : \E r : Reader(ms, r)}
<1>1. <<>> \in P
  <2>1. Reader(<<>>, [i \in 0..0 |-> <<>>])
    BY DEF Reader
  <2> QED BY <2>1
<1>2. \A ms \in Seq(Nat), m \in Nat : ms \in P => Append(ms, m) \in P
  <2> SUFFICES ASSUME NEW ms \in Seq(Nat), NEW m \in Nat, NEW r, Reader(ms, r)
               PROVE  Append(ms, m) \in P
    OBVIOUS
  <2> QED BY ReaderStep
<1> HIDE DEF P
<1>3. \A ms \in Seq(Nat) : ms \in P
  BY <1>1, <1>2, SequenceInduction
<1> QED BY <1>3 DEF P

\* Readable is its last value.
LEMMA ReadableValue ==
    ASSUME NEW ms \in Seq(Nat)
    PROVE  \E r : Reader(ms, r) /\ Readable(ms) = r[Len(ms)]
<1> DEFINE r == CHOOSE q : Reader(ms, q)
<1>1. Reader(ms, r)
  BY ReaderExists
<1>2. Readable(ms) = r[Len(ms)]
  BY DEF Readable, Reader
<1> QED BY <1>1, <1>2

\* Two such functions agree on what the sequences have in common.
LEMMA ReadersAgree ==
    ASSUME NEW ms \in Seq(Nat), NEW m \in Nat, NEW r, NEW t,
           Reader(ms, r), Reader(Append(ms, m), t)
    PROVE  \A i \in 0..Len(ms) : r[i] = t[i]
<1> DEFINE n == Len(ms)
           N == {i \in Nat : i <= n => r[i] = t[i]}
<1>1. n \in Nat /\ Len(Append(ms, m)) = n + 1 /\ \A i \in 1..n : Append(ms, m)[i] = ms[i]
  OBVIOUS
<1>2. \A i \in 0..n : r[i] = IF i = 0 THEN <<>>
                            ELSE IF ms[i] \in Big THEN r[i - 1] ELSE Append(r[i - 1], ms[i])
  BY DEF Reader
<1>3. \A i \in 0..(n + 1) :
          t[i] = IF i = 0 THEN <<>>
                 ELSE IF Append(ms, m)[i] \in Big THEN t[i - 1]
                 ELSE Append(t[i - 1], Append(ms, m)[i])
  BY <1>1 DEF Reader
<1>4. 0 \in N
  BY <1>1, <1>2, <1>3
<1>5. \A i \in Nat : i \in N => i + 1 \in N
  <2> SUFFICES ASSUME NEW i \in Nat, i + 1 <= n, r[i] = t[i]
               PROVE  r[i + 1] = t[i + 1]
    BY <1>1
  <2>1. i + 1 \in 0..n /\ i + 1 \in 0..(n + 1) /\ i + 1 # 0 /\ (i + 1) - 1 = i
        /\ Append(ms, m)[i + 1] = ms[i + 1]
    BY <1>1
  <2> HIDE DEF n
  <2> QED BY <2>1, <1>2, <1>3
<1> HIDE DEF N
<1>6. \A i \in Nat : i \in N
  BY <1>4, <1>5, SetInduction
<1> QED BY <1>1, <1>6 DEF N

\* Reading goes message by message.
LEMMA ReadableAppend ==
    ASSUME NEW ms \in Seq(Nat), NEW m \in Nat
    PROVE  Readable(Append(ms, m)) =
               IF m \in Big THEN Readable(ms) ELSE Append(Readable(ms), m)
<1> DEFINE n == Len(ms)
<1>1. n \in Nat /\ Append(ms, m) \in Seq(Nat) /\ Len(Append(ms, m)) = n + 1
      /\ Append(ms, m)[n + 1] = m
  OBVIOUS
<1>2. PICK r : Reader(ms, r) /\ Readable(ms) = r[n]
  BY ReadableValue
<1>3. PICK t : Reader(Append(ms, m), t) /\ Readable(Append(ms, m)) = t[n + 1]
  BY <1>1, ReadableValue
<1>4. r[n] = t[n]
  BY <1>1, <1>2, <1>3, ReadersAgree
<1>5. t[n + 1] = IF m \in Big THEN t[n] ELSE Append(t[n], m)
  <2>1. n + 1 \in 0..(n + 1) /\ n + 1 # 0 /\ (n + 1) - 1 = n
    BY <1>1
  <2> QED BY <1>1, <1>3, <2>1 DEF Reader
<1> QED BY <1>2, <1>3, <1>4, <1>5

\* There is nothing to read in an empty log.
LEMMA ReadableEmpty == Readable(<<>>) = <<>>
<1>1. <<>> \in Seq(Nat) /\ Len(<<>>) = 0
  OBVIOUS
<1>2. PICK r : Reader(<<>>, r) /\ Readable(<<>>) = r[0]
  BY <1>1, ReadableValue
<1> QED BY <1>1, <1>2 DEF Reader

\* Nothing is invented, and nothing is read that is over the limit.
LEMMA ReadableWithin ==
    ASSUME NEW S \in SUBSET Nat, NEW ms \in Seq(S)
    PROVE  Readable(ms) \in Seq(S \ Big)
<1> DEFINE T == S \ Big
           P == {q \in Seq(S) : Readable(q) \in Seq(T)}
<1>1. <<>> \in P
  <2>1. <<>> \in Seq(S) /\ <<>> \in Seq(T)
    OBVIOUS
  <2> QED BY <2>1, ReadableEmpty
<1>2. \A q \in Seq(S), m \in S : q \in P => Append(q, m) \in P
  <2> SUFFICES ASSUME NEW q \in Seq(S), NEW m \in S, Readable(q) \in Seq(T)
               PROVE  Append(q, m) \in Seq(S) /\ Readable(Append(q, m)) \in Seq(T)
    OBVIOUS
  <2>1. m \in Nat /\ Append(q, m) \in Seq(S) /\ S \subseteq Nat
    OBVIOUS
  <2>2. q \in Seq(Nat)
    BY <2>1, SequenceWiden
  <2>3. Readable(Append(q, m)) = IF m \in Big THEN Readable(q) ELSE Append(Readable(q), m)
    BY <2>1, <2>2, ReadableAppend
  <2>4. m \notin Big => m \in T
    OBVIOUS
  <2> HIDE DEF T
  <2>5. m \notin Big => Append(Readable(q), m) \in Seq(T)
    BY <2>4
  <2> QED BY <2>1, <2>3, <2>5
<1> HIDE DEF P
<1>3. \A q \in Seq(S) : q \in P
  BY <1>1, <1>2, SequenceInduction
<1> QED BY <1>3 DEF P

\* In particular, nothing is invented.
LEMMA ReadableType ==
    ASSUME NEW S \in SUBSET Nat, NEW ms \in Seq(S)
    PROVE  Readable(ms) \in Seq(S)
<1>1. Readable(ms) \in Seq(S \ Big) /\ S \ Big \subseteq S
  BY ReadableWithin
<1> QED BY <1>1, SequenceWiden

\* What is within the limit is read as it is.
LEMMA ReadableWhole ==
    ASSUME NEW ms \in Seq(Nat \ Big)
    PROVE  Readable(ms) = ms
<1> DEFINE P == {q \in Seq(Nat \ Big) : Readable(q) = q}
<1>1. <<>> \in P
  BY ReadableEmpty
<1>2. \A q \in Seq(Nat \ Big), m \in Nat \ Big : q \in P => Append(q, m) \in P
  <2> SUFFICES ASSUME NEW q \in Seq(Nat \ Big), NEW m \in Nat \ Big, Readable(q) = q
               PROVE  Append(q, m) \in Seq(Nat \ Big) /\ Readable(Append(q, m)) = Append(q, m)
    OBVIOUS
  <2>1. Nat \ Big \subseteq Nat /\ Append(q, m) \in Seq(Nat \ Big) /\ m \in Nat /\ m \notin Big
    OBVIOUS
  <2>2. q \in Seq(Nat)
    BY <2>1, SequenceWiden
  <2> QED BY <2>1, <2>2, ReadableAppend
<1> HIDE DEF P
<1>3. \A q \in Seq(Nat \ Big) : q \in P
  BY <1>1, <1>2, SequenceInduction
<1> QED BY <1>3 DEF P

\* What is appended is read after what was there.
LEMMA ReadableConcat ==
    ASSUME NEW a \in Seq(Nat), NEW b \in Seq(Nat)
    PROVE  Readable(a \o b) = Readable(a) \o Readable(b)
<1> DEFINE P == {q \in Seq(Nat) : Readable(a \o q) = Readable(a) \o Readable(q)}
<1>0. Nat \in SUBSET Nat
  OBVIOUS
<1>1. <<>> \in P
  <2>1. Readable(a) \in Seq(Nat)
    BY <1>0, ReadableType
  <2>2. a \o <<>> = a /\ Readable(a) \o <<>> = Readable(a) /\ <<>> \in Seq(Nat)
    BY <2>1
  <2>3. Readable(a \o <<>>) = Readable(a) \o Readable(<<>>)
    BY <2>2, ReadableEmpty
  <2> QED BY <2>2, <2>3
<1>2. \A q \in Seq(Nat), m \in Nat : q \in P => Append(q, m) \in P
  <2> SUFFICES ASSUME NEW q \in Seq(Nat), NEW m \in Nat,
                      Readable(a \o q) = Readable(a) \o Readable(q)
               PROVE  Append(q, m) \in Seq(Nat) /\
                      Readable(a \o Append(q, m)) = Readable(a) \o Readable(Append(q, m))
    OBVIOUS
  <2>0. Readable(a) \in Seq(Nat) /\ Readable(q) \in Seq(Nat)
    BY <1>0, ReadableType
  <2>1. Append(q, m) \in Seq(Nat) /\ a \o q \in Seq(Nat)
    OBVIOUS
  <2>2. a \o Append(q, m) = Append(a \o q, m)
    BY ConcatAppend
  <2>3. Readable(Append(a \o q, m)) =
            IF m \in Big THEN Readable(a \o q) ELSE Append(Readable(a \o q), m)
    BY <2>1, ReadableAppend
  <2>4. Readable(Append(q, m)) = IF m \in Big THEN Readable(q) ELSE Append(Readable(q), m)
    BY ReadableAppend
  <2>5. \A x, y \in Seq(Nat) : x \o Append(y, m) = Append(x \o y, m)
    <3> TAKE x, y \in Seq(Nat)
    <3> QED OBVIOUS
  <2>6. Readable(a) \o Append(Readable(q), m) = Append(Readable(a) \o Readable(q), m)
    BY <2>0, <2>5
  <2> QED BY <2>1, <2>2, <2>3, <2>4, <2>6, Zenon
<1> HIDE DEF P
<1>3. \A q \in Seq(Nat) : q \in P
  BY <1>1, <1>2, SequenceInduction
<1> QED BY <1>3 DEF P

\* What was read can be read again.
LEMMA ReadableTwice ==
    ASSUME NEW ms \in Seq(Nat)
    PROVE  Readable(Readable(ms)) = Readable(ms)
<1> DEFINE P == {q \in Seq(Nat) : Readable(Readable(q)) = Readable(q)}
<1>0. Nat \in SUBSET Nat
  OBVIOUS
<1>1. <<>> \in P
  BY ReadableEmpty
<1>2. \A q \in Seq(Nat), m \in Nat : q \in P => Append(q, m) \in P
  <2> SUFFICES ASSUME NEW q \in Seq(Nat), NEW m \in Nat, Readable(Readable(q)) = Readable(q)
               PROVE  Append(q, m) \in Seq(Nat) /\
                      Readable(Readable(Append(q, m))) = Readable(Append(q, m))
    OBVIOUS
  <2>0. Readable(q) \in Seq(Nat)
    BY <1>0, ReadableType
  <2>1. Append(q, m) \in Seq(Nat)
    OBVIOUS
  <2>2. Readable(Append(q, m)) = IF m \in Big THEN Readable(q) ELSE Append(Readable(q), m)
    BY ReadableAppend
  <2>3. Readable(Append(Readable(q), m)) =
            IF m \in Big THEN Readable(Readable(q)) ELSE Append(Readable(Readable(q)), m)
    BY <2>0, ReadableAppend
  <2> QED BY <2>1, <2>2, <2>3
<1> HIDE DEF P
<1>3. \A q \in Seq(Nat) : q \in P
  BY <1>1, <1>2, SequenceInduction
<1> QED BY <1>3 DEF P

\* What can be read of a history and of its parts, whose first message is within the
\* limit.
LEMMA ReadableHistory ==
    ASSUME NEW k \in Subs, k \notin Big
    PROVE  /\ k \in Nat /\ Readable(<<>>) = <<>> /\ Readable(<<k>>) = <<k>>
           /\ Readable(<<k + 1>>) = IF k + 1 \in Big THEN <<>> ELSE <<k + 1>>
           /\ Readable(History(k)) = IF k + 1 \in Big THEN <<k>> ELSE <<k, k + 1>>
<1>1. k \in Nat /\ k + 1 \in Nat /\ k \notin Big
  BY LogAssumption
<1>2. <<>> \in Seq(Nat) /\ <<k>> = Append(<<>>, k) /\ <<k + 1>> = Append(<<>>, k + 1)
      /\ <<k, k + 1>> = Append(<<k>>, k + 1) /\ <<k>> \in Seq(Nat)
  BY <1>1
<1>3. Readable(<<k>>) = <<k>>
  <2>1. Readable(Append(<<>>, k)) = IF k \in Big THEN Readable(<<>>) ELSE Append(Readable(<<>>), k)
    BY <1>1, <1>2, ReadableAppend
  <2> QED BY <1>1, <1>2, <2>1, ReadableEmpty
<1>4. Readable(<<k + 1>>) = IF k + 1 \in Big THEN <<>> ELSE <<k + 1>>
  <2>1. Readable(Append(<<>>, k + 1)) =
            IF k + 1 \in Big THEN Readable(<<>>) ELSE Append(Readable(<<>>), k + 1)
    BY <1>1, <1>2, ReadableAppend
  <2> QED BY <1>2, <2>1, ReadableEmpty
<1>5. Readable(History(k)) = IF k + 1 \in Big THEN <<k>> ELSE <<k, k + 1>>
  <2>1. Readable(Append(<<k>>, k + 1)) =
            IF k + 1 \in Big THEN Readable(<<k>>) ELSE Append(Readable(<<k>>), k + 1)
    BY <1>1, <1>2, ReadableAppend
  <2> QED BY <1>2, <1>3, <2>1 DEF History
<1> QED BY <1>1, <1>3, <1>4, <1>5, ReadableEmpty

-----------------------------------------------------------------------------
(* The inductive invariant.                                                *)

\* What can be read of a history that begins with a tombstone.
Rest(k) == Seq({k + 1} \ Big)

\* The values of a history in memory, and in a file.
Kinds(k) == IF k \in Big THEN {History(k)} \cup Rest(k) ELSE {<<>>, <<k>>, History(k)}
Traces(k) == IF k \in Big THEN Rest(k) ELSE {<<>>, <<k>>, Readable(History(k))}

\* A session in memory, when messages up to c exist and the subagents and nested calls
\* of R have ended.  A history is whole, or what a crash has left of it; of one that
\* begins with a tombstone, it is whole or what was read back.
HasSession(s, c, R) ==
    /\ s \in Session
    /\ s.msgs \in Seq(1..c) /\ s.outs \cup s.evOuts \subseteq (1..c) \cup R
    /\ \A k \in Subs : s.subs[k] \in Kinds(k)
    /\ \A k \in Subs \ R : s.subs[k] = <<>>
    /\ s.evSubs \subseteq R
    /\ \A k \in s.evSubs : s.subs[k] = <<>>

\* A file at that time: only what is within the record limit can be read.
HasFile(f, c, R) ==
    /\ f \in File
    /\ f.msgs \in Seq(1..c) /\ f.outs \subseteq (1..c) \cup R
    /\ Readable(f.msgs) = f.msgs /\ f.outs \cap Big = {}
    /\ \A k \in Subs : f.subs[k] \in Traces(k)
    /\ \A k \in Subs \ R : f.subs[k] = <<>>

HasCursor(l, R) == l \in Cursor /\ \A k \in Subs \ R : l.subs[k] = 0

\* The file has nothing of a history only if nothing of it can be read.
Present(f, k) == k \in Legible => f.subs[k] # <<>>

\* The position of the cursor in a history is what the file has of it; in one that begins
\* with a tombstone, a position after the start means that the file has the rest.
Aligned(l, f, k) ==
    IF k \in Big THEN l.subs[k] = 0 \/ Present(f, k)
    ELSE \/ l.subs[k] = 0 /\ f.subs[k] = <<>>
         \/ l.subs[k] = 1 /\ f.subs[k] = <<k>>
         \/ l.subs[k] = 2 /\ f.subs[k] = Readable(History(k))

\* A cursor that is current describes the file, and its positions in the histories of K.
Follows(l, f, K) ==
    l.fresh => /\ Exists(f) /\ ~f.torn /\ f.rev = l.rev
               /\ f.msgs = Readable(l.msgs) /\ f.outs = l.outs \ Big
               /\ \A k \in K : Aligned(l, f, k)

\* What a session has evicted is in the file.
OnFile(s, f) == s.evOuts \ Big \subseteq f.outs /\ \A k \in s.evSubs : Present(f, k)

Shapes ==
    /\ HasSession(live, clock, ran) /\ HasSession(pending, clock, ran)
    /\ HasSession(acked, clock, ran)
    /\ HasFile(file, clock, ran) /\ HasCursor(log, ran)
    /\ ledger \in [outs : SUBSET Outputs, subs : SUBSET Subs]
    /\ ledger.outs \subseteq (1..clock) \cup ran /\ ledger.subs \subseteq ran

\* A process that is down has nothing but the file.
Down == ~up => pending = NoSession /\ log = NoLog /\ dirty /\ ledger.outs = {} /\ ledger.subs = {}

\* Revisions grow from what was written to the file, the snapshot and the session; a
\* session that has not changed is its last snapshot.
Revisions ==
    /\ acked.rev <= file.rev /\ durable <= file.rev /\ file.rev <= MaxRevision
    /\ live.rev \in 0..MaxRevision
    /\ up => file.rev <= live.rev
    /\ (~dirty /\ acked.rev = live.rev) => acked = live

\* The ledger names what is in the file, as long as it is in memory.
Ledger ==
    /\ (ledger.outs \cap live.outs) \ Big \subseteq file.outs
    /\ \A k \in ledger.subs \cap Resident(live) : Present(file, k)
    /\ ledger.outs \cap ToSet(live.msgs) \subseteq live.outs \cup live.evOuts

\* What is kept of a pending snapshot until it is written: a rewrite with it keeps what
\* the live session has evicted and may evict.
Pending ==
    pending # NoSession =>
        /\ file.rev <= pending.rev /\ 0 <= pending.rev /\ pending.rev <= live.rev
        /\ OnFile(pending, file)
        /\ live.evOuts \cup (ledger.outs \cap live.outs) \subseteq pending.outs \cup pending.evOuts
        /\ live.evSubs \cup (ledger.subs \cap Resident(live))
               \subseteq Resident(pending) \cup pending.evSubs
        /\ pending.evSubs \cap Resident(live) = {}
        /\ pending.outs \cap ToSet(live.msgs) \subseteq live.outs \cup live.evOuts
        /\ pending.rev = acked.rev => pending = acked
        /\ (~dirty /\ pending.rev = live.rev) => pending = live

Positions == Follows(log, file, Resident(live) \cup Resident(pending))

LogInv ==
    /\ Shapes /\ Down /\ Revisions /\ Ledger /\ Pending /\ Positions /\ OnFile(live, file)
    /\ AckedSurvives /\ LogIsSnapshot

-----------------------------------------------------------------------------
(* What a write leaves.                                                    *)

\* The file holds all of a snapshot.
Complete(g, s) ==
    /\ g.rev = s.rev /\ g.msgs = Readable(s.msgs) /\ g.outs = (s.outs \cup s.evOuts) \ Big
    /\ \A k \in Resident(s) : Present(g, k) /\ (k \notin Big => g.subs[k] = Readable(s.subs[k]))
    /\ \A k \in s.evSubs : Present(g, k)

\* The file holds all that it held, and perhaps the beginning of a frame.
Grows(g, f) ==
    /\ g.rev = f.rev /\ IsPrefix(f.msgs, g.msgs) /\ f.outs \subseteq g.outs
    /\ \A k \in Subs : IsPrefix(f.subs[k], g.subs[k])

\* A snapshot that can be written to a file.
Writable(s, f, c, R) ==
    /\ c \in 0..MaxMessages /\ R \subseteq Subs \cup Nested
    /\ HasSession(s, c, R) /\ HasFile(f, c, R) /\ OnFile(s, f)
    /\ s.rev \in Nat

\* The histories whose position a cursor must know: those of the snapshot, and others
\* that it has not evicted.
Tracked(K, s) == K \subseteq Subs /\ Resident(s) \subseteq K /\ K \cap s.evSubs = {}

\* A history that begins with a tombstone: all of it that is ever read is the rest, and
\* of a history in memory the rest is read unless it is a tombstone too.
LEMMA BigHistory ==
    ASSUME NEW k \in Subs, k \in Big
    PROVE  /\ {k, k + 1} \in SUBSET Nat /\ <<>> \in Rest(k) /\ Rest(k) \subseteq Seq(Nat)
           /\ Kinds(k) \subseteq Seq({k, k + 1})
           /\ \A h \in Seq({k, k + 1}) : Readable(h) \in Rest(k)
           /\ \A a, b \in Rest(k) : a \o b \in Rest(k)
           /\ \A h \in Kinds(k) : h # <<>> /\ k \in Legible => Readable(h) # <<>>
           /\ k \notin Legible => k + 1 \in Big
<1> DEFINE T == {k + 1} \ Big
<1>1. k \in Nat /\ k + 1 \in Nat /\ {k, k + 1} \in SUBSET Nat
  BY LogAssumption
<1>2. T \subseteq Nat /\ T \subseteq {k, k + 1} /\ {k, k + 1} \ Big = T /\ T \subseteq Nat \ Big
      /\ Rest(k) = Seq(T)
  BY <1>1 DEF Rest
<1> HIDE DEF T
<1>3. <<>> \in Rest(k) /\ \A a, b \in Rest(k) : a \o b \in Rest(k)
  <2>1. \A a, b \in Seq(T) : a \o b \in Seq(T)
    BY ConcatEntries
  <2>2. <<>> \in Seq(T)
    OBVIOUS
  <2> QED BY <1>2, <2>1, <2>2
<1>4. Rest(k) \subseteq Seq(Nat) /\ Rest(k) \subseteq Seq({k, k + 1}) /\ Rest(k) \subseteq Seq(Nat \ Big)
  BY <1>2, SequenceWiden
<1>5. History(k) \in Seq({k, k + 1}) /\ History(k) # <<>>
  BY DEF History
<1>6. Kinds(k) \subseteq Seq({k, k + 1})
  BY <1>4, <1>5 DEF Kinds
<1>7. \A h \in Seq({k, k + 1}) : Readable(h) \in Rest(k)
  <2> TAKE h \in Seq({k, k + 1})
  <2>1. Readable(h) \in Seq({k, k + 1} \ Big)
    BY <1>1, ReadableWithin
  <2> QED BY <1>2, <2>1
<1>8. \A h \in Kinds(k) : h # <<>> /\ k \in Legible => Readable(h) # <<>>
  <2> SUFFICES ASSUME NEW h \in Kinds(k), h # <<>>, k \in Legible
               PROVE  Readable(h) # <<>>
    OBVIOUS
  <2>1. CASE h = History(k)
    BY <2>1 DEF Legible
  <2>2. CASE h \in Rest(k)
    <3>1. Readable(h) = h
      BY <1>4, <2>2, ReadableWhole
    <3> QED BY <3>1
  <2> QED BY <2>1, <2>2 DEF Kinds
<1>9. k \notin Legible => k + 1 \in Big
  <2> SUFFICES ASSUME k + 1 \notin Big
               PROVE  Readable(History(k)) # <<>>
    BY DEF Legible
  <2>1. <<k>> \in Seq(Nat) /\ <<k, k + 1>> = Append(<<k>>, k + 1)
    BY <1>1
  <2>2. Nat \in SUBSET Nat /\ Readable(<<k>>) \in Seq(Nat)
    BY <2>1, ReadableType
  <2>3. Readable(History(k)) = Append(Readable(<<k>>), k + 1)
    BY <1>1, <2>1, ReadableAppend DEF History
  <2>4. \A q \in Seq(Nat) : Append(q, k + 1) # <<>>
    BY <1>1
  <2> QED BY <2>2, <2>3, <2>4
<1> QED BY <1>1, <1>3, <1>4, <1>6, <1>7, <1>8, <1>9

\* The values of a history within the limit.
LEMMA SmallHistory ==
    ASSUME NEW k \in Subs, k \notin Big
    PROVE  /\ Readable(History(k)) \in {<<k>>, History(k)} /\ k \in Legible
           /\ {<<>>, <<k>>, History(k)} \subseteq Seq(Nat)
           /\ \A h \in {<<>>, <<k>>, History(k)} :
                 /\ Readable(h) \in {<<>>, <<k>>, Readable(History(k))}
                 /\ h # <<>> => Readable(h) # <<>>
<1>1. k \in Nat /\ k + 1 \in Nat
  BY LogAssumption
<1>2. {<<>>, <<k>>, History(k)} \subseteq Seq(Nat)
  BY <1>1 DEF History
<1>3. Readable(History(k)) \in {<<k>>, <<k, k + 1>>} /\ History(k) = <<k, k + 1>>
  BY ReadableHistory DEF History
<1>4. <<k>> # <<>> /\ <<k, k + 1>> # <<>>
  OBVIOUS
<1>5. k \in Legible
  BY <1>3, <1>4 DEF Legible
<1>6. \A h \in {<<>>, <<k>>, History(k)} :
         /\ Readable(h) \in {<<>>, <<k>>, Readable(History(k))}
         /\ h # <<>> => Readable(h) # <<>>
  <2>1. Readable(<<>>) = <<>> /\ Readable(<<k>>) = <<k>>
    BY ReadableHistory
  <2> QED BY <1>3, <1>4, <2>1, Zenon
<1> QED BY <1>2, <1>3, <1>5, <1>6

\* A history of a session, and of a file.
LEMMA HistoryValues ==
    ASSUME NEW k \in Subs
    PROVE  /\ <<>> \in Traces(k) /\ Traces(k) \subseteq Kinds(k) /\ Kinds(k) \subseteq Seq(Nat)
           /\ History(k) \in Kinds(k) /\ (k \notin Big => k \in Legible)
           /\ \A h \in Kinds(k) : /\ Readable(h) \in Traces(k)
                                  /\ h # <<>> /\ k \in Legible => Readable(h) # <<>>
<1>1. CASE k \in Big
  <2>1. Kinds(k) \subseteq Seq(Nat)
    <3>1. Kinds(k) \subseteq Seq({k, k + 1}) /\ {k, k + 1} \subseteq Nat
      BY <1>1, BigHistory
    <3> QED BY <3>1, SequenceWiden
  <2> QED BY <1>1, <2>1, BigHistory DEF Kinds, Traces
<1>2. CASE k \notin Big
  BY <1>2, SmallHistory, Zenon DEF Kinds, Traces
<1> QED BY <1>1, <1>2

\* Messages that exist are numbers.
LEMMA MessagesAreNumbers ==
    ASSUME NEW c, NEW ms \in Seq(1..c), c \in 0..MaxMessages
    PROVE  ms \in Seq(Nat) /\ ms \in Seq(Messages) /\ 1..c \in SUBSET Nat
<1>1. 1..c \subseteq Nat /\ 1..c \subseteq Messages
  BY LogAssumption DEF Messages
<1> QED BY <1>1, SequenceWiden

\* A full rewrite puts the snapshot into the file.
LEMMA RewriteFile ==
    ASSUME NEW s, NEW f, NEW c, NEW R, Writable(s, f, c, R)
    PROVE  /\ HasFile(FullSession(s, f), c, R) /\ Complete(FullSession(s, f), s)
           /\ Exists(FullSession(s, f)) /\ ~FullSession(s, f).torn
<1> DEFINE g == FullSession(s, f)
<1>1. s \in Session /\ f \in File /\ s.msgs \in Seq(1..c)
      /\ s.outs \cup s.evOuts \subseteq (1..c) \cup R /\ f.outs \subseteq (1..c) \cup R
  BY DEF Writable, HasSession, HasFile
<1>2. c \in 0..MaxMessages /\ s.rev \in Nat
  BY DEF Writable
<1>3. s.msgs \in Seq(Nat) /\ 1..c \in SUBSET Nat
  BY <1>1, <1>2, MessagesAreNumbers
<1>4. Readable(s.msgs) \in Seq(1..c) /\ Readable(Readable(s.msgs)) = Readable(s.msgs)
  BY <1>1, <1>3, ReadableType, ReadableTwice
<1>5. Readable(s.msgs) \in Seq(Messages)
  BY <1>2, <1>4, MessagesAreNumbers
<1>6. g.msgs = Readable(s.msgs) /\ g.title = s.title /\ g.rev = s.rev /\ g.frames = 0 /\ g.torn = FALSE
      /\ g.outs = ((s.outs \ s.evOuts) \ Big) \cup (f.outs \cap s.evOuts)
      /\ g.subs = [k \in Subs |-> IF k \in s.evSubs THEN f.subs[k] ELSE Readable(s.subs[k])]
  BY DEF FullSession
<1>7. f.outs \cap Big = {} /\ s.evOuts \ Big \subseteq f.outs
  BY DEF Writable, HasFile, OnFile
<1>8. g.outs = (s.outs \cup s.evOuts) \ Big
  BY <1>6, <1>7
<1>9. s.outs \subseteq Outputs /\ f.outs \subseteq Outputs /\ s.title \in BOOLEAN
      /\ s.subs \in [Subs -> Seq(Nat)] /\ f.subs \in [Subs -> Seq(Nat)] /\ s.evSubs \subseteq Subs
  BY <1>1 DEF Session, File
<1>10. \A k \in Subs : /\ s.subs[k] \in Kinds(k) /\ f.subs[k] \in Traces(k)
                       /\ k \notin R => s.subs[k] = <<>> /\ f.subs[k] = <<>>
                       /\ k \in s.evSubs => Present(f, k) /\ s.subs[k] = <<>>
  BY DEF Writable, HasSession, HasFile, OnFile
<1>11. \A k \in Subs : g.subs[k] = IF k \in s.evSubs THEN f.subs[k] ELSE Readable(s.subs[k])
  BY <1>6
<1>12. \A k \in Subs : /\ g.subs[k] \in Traces(k) /\ g.subs[k] \in Seq(Nat)
                       /\ k \notin R => g.subs[k] = <<>>
                       /\ k \in s.evSubs => Present(g, k)
                       /\ s.subs[k] # <<>> => g.subs[k] = Readable(s.subs[k]) /\ Present(g, k)
  <2> TAKE k \in Subs
  <2>1. g.subs[k] = IF k \in s.evSubs THEN f.subs[k] ELSE Readable(s.subs[k])
    BY <1>11
  <2>2. Readable(s.subs[k]) \in Traces(k)
        /\ (s.subs[k] # <<>> /\ k \in Legible => Readable(s.subs[k]) # <<>>)
    BY <1>10, HistoryValues
  <2>3. Traces(k) \subseteq Seq(Nat) /\ Readable(<<>>) = <<>>
    BY HistoryValues, ReadableEmpty
  <2> HIDE DEF g
  <2>4. CASE k \in s.evSubs
    BY <2>1, <2>3, <2>4, <1>10, Zenon DEF Present
  <2>5. CASE k \notin s.evSubs
    <3>1. g.subs[k] = Readable(s.subs[k])
      BY <2>1, <2>5
    <3> QED BY <3>1, <2>2, <2>3, <2>5, <1>10, Zenon DEF Present
  <2> QED BY <2>4, <2>5
<1>13. g.subs \in [Subs -> Seq(Nat)]
  <2>1. g.subs = [k \in Subs |-> g.subs[k]]
    BY <1>6, <1>11
  <2> HIDE DEF g
  <2> QED BY <2>1, <1>12
<1>14. g \in File
  <2>1. g.outs \subseteq Outputs
    BY <1>6, <1>9
  <2>2. g = [msgs |-> g.msgs, outs |-> g.outs, subs |-> g.subs, title |-> g.title,
             rev |-> g.rev, frames |-> g.frames, torn |-> g.torn]
    BY DEF FullSession
  <2> HIDE DEF g
  <2>3. g.title \in BOOLEAN /\ g.torn \in BOOLEAN /\ g.msgs \in Seq(Messages)
    BY <1>5, <1>6, <1>9, Zenon
  <2>4. g.rev \in Int /\ g.frames \in Nat
    BY <1>2, <1>6
  <2> QED BY <1>13, <2>1, <2>2, <2>3, <2>4 DEF File
<1>15. g.outs \subseteq (1..c) \cup R /\ g.outs \cap Big = {}
  BY <1>1, <1>8
<1> HIDE DEF g
<1>16. HasFile(g, c, R)
  BY <1>4, <1>6, <1>12, <1>14, <1>15 DEF HasFile
<1>17. Complete(g, s)
  BY <1>6, <1>8, <1>9, <1>12 DEF Complete, Resident
<1>18. Exists(g) /\ ~g.torn
  BY <1>2, <1>6 DEF Exists
<1> QED BY <1>16, <1>17, <1>18 DEF g

\* After a rewrite the cursor describes the file.
LEMMA RewriteCursor ==
    ASSUME NEW s, NEW f, NEW c, NEW R, NEW K, Writable(s, f, c, R), Tracked(K, s)
    PROVE  /\ HasCursor(CursorFrom(s, 0), R)
           /\ Follows(CursorFrom(s, 0), FullSession(s, f), K)
<1> DEFINE g == FullSession(s, f)
           l == CursorFrom(s, 0)
<1>1. s \in Session /\ \A k \in Subs : s.subs[k] \in Kinds(k) /\ s.subs[k] \in Seq(Nat)
      /\ (k \notin R => s.subs[k] = <<>>)
  BY DEF Writable, HasSession, Session
<1>2. l.fresh = TRUE /\ l.msgs = s.msgs /\ l.outs = s.outs \cup s.evOuts /\ l.rev = s.rev
      /\ l.title = s.title /\ l.frames = 0 /\ l.subs = [k \in Subs |-> Len(s.subs[k])]
  BY DEF CursorFrom
<1>3. \A k \in Subs : l.subs[k] = Len(s.subs[k])
  BY <1>2
<1>4. \A k \in Subs : /\ s.subs[k] = <<>> => l.subs[k] = 0
                      /\ s.subs[k] = <<k>> => l.subs[k] = 1
                      /\ s.subs[k] = History(k) => l.subs[k] = 2
  <2> TAKE k \in Subs
  <2>1. Len(<<>>) = 0 /\ Len(<<k>>) = 1 /\ Len(<<k, k + 1>>) = 2
    OBVIOUS
  <2> QED BY <1>3, <2>1 DEF History
<1>5. l \in Cursor
  <2>1. l.subs \in [Subs -> Nat]
    BY <1>1, <1>2, <1>3, <1>4
  <2>2. l = [fresh |-> l.fresh, msgs |-> l.msgs, outs |-> l.outs, subs |-> l.subs,
             frames |-> l.frames, title |-> l.title, rev |-> l.rev]
    BY DEF CursorFrom
  <2>3. s.msgs \in Seq(Messages) /\ s.outs \cup s.evOuts \in SUBSET Outputs /\ s.title \in BOOLEAN
        /\ s.rev \in Int
    BY <1>1 DEF Session
  <2> HIDE DEF l
  <2>4. l.title \in BOOLEAN /\ l.fresh \in BOOLEAN
    BY <1>2, <2>3, Zenon
  <2> QED BY <1>2, <2>1, <2>2, <2>3, <2>4 DEF Cursor
<1>6. HasFile(g, c, R) /\ Complete(g, s) /\ Exists(g) /\ ~g.torn
  BY RewriteFile
<1>7. \A k \in Subs : g.subs[k] = IF k \in s.evSubs THEN f.subs[k] ELSE Readable(s.subs[k])
  BY DEF FullSession
<1>8. \A k \in K : Aligned(l, g, k)
  <2> TAKE k \in K
  <2>1. k \in Subs /\ k \notin s.evSubs
    BY DEF Tracked
  <2>2. g.subs[k] = Readable(s.subs[k]) /\ s.subs[k] \in Kinds(k)
    BY <1>1, <1>7, <2>1
  <2> HIDE DEF l, g
  <2>3. CASE k \in Big
    <3>1. s.subs[k] # <<>> => Present(g, k)
      BY <2>1, <2>2, HistoryValues DEF Present
    <3> QED BY <1>4, <2>1, <2>3, <3>1 DEF Aligned
  <2>4. CASE k \notin Big
    <3>1. Readable(<<>>) = <<>> /\ Readable(<<k>>) = <<k>>
      BY <2>1, <2>4, ReadableHistory
    <3> QED BY <1>4, <2>1, <2>2, <2>4, <3>1 DEF Aligned, Kinds
  <2> QED BY <2>3, <2>4
<1>9. HasCursor(l, R)
  <2> HIDE DEF l
  <2> QED BY <1>1, <1>4, <1>5 DEF HasCursor
<1>10. Follows(l, g, K)
  <2> HIDE DEF l, g
  <2> QED BY <1>2, <1>6, <1>8 DEF Follows, Complete
<1> QED BY <1>9, <1>10

\* What a write of the snapshot s can leave of the file f and the log l: the file is
\* grown or complete, a cursor that is current describes it, and success means that it
\* is complete.
Outcome(e, l, f, s, c, R, K) ==
    /\ e = Ended(e.file, e.log, e.err) /\ e.err \in BOOLEAN
    /\ e.err /\ (l = NoLog \/ l.fresh) => faults # MaxFaults
    /\ HasFile(e.file, c, R) /\ HasCursor(e.log, R) /\ Follows(e.log, e.file, K)
    /\ Grows(e.file, f) \/ Complete(e.file, s)
    /\ ~e.err => Complete(e.file, s)
    /\ e.log.fresh => Complete(e.file, s) \/ (e.file = f /\ e.log = l)

\* A file grows to itself.
LEMMA GrowsSelf ==
    ASSUME NEW f, NEW c, NEW R, HasFile(f, c, R)
    PROVE  Grows(f, f)
<1>1. f.msgs \in Seq(1..c) /\ f.subs \in [Subs -> Seq(Nat)]
  BY DEF HasFile, File
<1>2. IsPrefix(f.msgs, f.msgs)
  BY <1>1, PrefixOrder
<1>3. \A k \in Subs : IsPrefix(f.subs[k], f.subs[k])
  <2> TAKE k \in Subs
  <2>1. f.subs[k] \in Seq(Nat)
    BY <1>1
  <2> QED BY <2>1, PrefixOrder
<1> QED BY <1>2, <1>3 DEF Grows

\* A cursor that is not current says nothing.
LEMMA StaleCursor ==
    ASSUME NEW l, NEW R, HasCursor(l, R), NEW f, NEW K
    PROVE  HasCursor(Stale(l), R) /\ Follows(Stale(l), f, K) /\ ~Stale(l).fresh
<1>1. l \in Cursor
  BY DEF HasCursor
<1>2. Stale(l) \in Cursor /\ Stale(l).fresh = FALSE /\ Stale(l).subs = l.subs
  BY <1>1 DEF Stale, Cursor
<1> QED BY <1>2 DEF HasCursor, Follows

\* Nor does a log that is not open.
LEMMA NoCursor ==
    ASSUME NEW R, NEW f, NEW K
    PROVE  HasCursor(NoLog, R) /\ Follows(NoLog, f, K) /\ ~NoLog.fresh
<1>1. NoLog.fresh = FALSE /\ \A k \in Subs : NoLog.subs[k] = 0
  BY DEF NoLog
<1>2. NoLog \in Cursor
  BY DEF NoLog, Cursor
<1> QED BY <1>1, <1>2 DEF HasCursor, Follows

\* compact and create.
LEMMA RewriteOutcome ==
    ASSUME NEW l, NEW f, NEW s, NEW c, NEW R, NEW K, NEW e \in Rewrite(l, f, s),
           Writable(s, f, c, R), Tracked(K, s), HasCursor(l, R), Follows(l, f, K)
    PROVE  /\ Outcome(e, l, f, s, c, R, K) /\ (e.file = f \/ Complete(e.file, s))
           /\ ~e.err => e.log = CursorFrom(s, 0) /\ e.file = FullSession(s, f)
<1> DEFINE g == FullSession(s, f)
           d == CursorFrom(s, 0)
<1>1. HasFile(g, c, R) /\ Complete(g, s)
  BY RewriteFile
<1>2. HasCursor(d, R) /\ Follows(d, g, K)
  BY RewriteCursor
<1>3. HasFile(f, c, R) /\ Grows(f, f)
  BY GrowsSelf DEF Writable
<1>4. HasCursor(Stale(l), R) /\ Follows(Stale(l), g, K) /\ ~Stale(l).fresh
  BY StaleCursor
<1>5. \/ e = Ended(g, d, FALSE)
      \/ faults # MaxFaults /\ e \in {Ended(f, l, TRUE), Ended(g, Stale(l), TRUE), Ended(g, d, TRUE)}
  BY DEF Rewrite
<1> HIDE DEF g, d
<1>6. CASE e = Ended(g, d, FALSE)
  <2>1. e.file = g /\ e.log = d /\ e.err = FALSE /\ e = Ended(e.file, e.log, e.err)
    BY <1>6 DEF Ended
  <2> QED BY <1>1, <1>2, <2>1 DEF Outcome, g, d
<1>7. CASE faults # MaxFaults /\ e = Ended(f, l, TRUE)
  <2>1. e.file = f /\ e.log = l /\ e.err = TRUE /\ e = Ended(e.file, e.log, e.err)
    BY <1>7 DEF Ended
  <2> QED BY <1>3, <1>7, <2>1 DEF Outcome
<1>8. CASE faults # MaxFaults /\ e = Ended(g, Stale(l), TRUE)
  <2>1. e.file = g /\ e.log = Stale(l) /\ e.err = TRUE /\ e = Ended(e.file, e.log, e.err)
    BY <1>8 DEF Ended
  <2> QED BY <1>1, <1>4, <1>8, <2>1 DEF Outcome
<1>9. CASE faults # MaxFaults /\ e = Ended(g, d, TRUE)
  <2>1. e.file = g /\ e.log = d /\ e.err = TRUE /\ e = Ended(e.file, e.log, e.err)
    BY <1>9 DEF Ended
  <2> QED BY <1>1, <1>2, <1>9, <2>1 DEF Outcome
<1> QED BY <1>5, <1>6, <1>7, <1>8, <1>9

\* Sequences of one and two entries.
LEMMA ShortSequences ==
    ASSUME NEW q \in Seq(Nat)
    PROVE  /\ Len(q) = 0 <=> q = <<>>
           /\ Len(q) = 1 => q = <<q[1]>>
           /\ Len(q) = 2 => q = <<q[1], q[2]>>
OBVIOUS

\* The parts of a history.
LEMMA HistoryParts ==
    ASSUME NEW k \in Nat
    PROVE  /\ Len(<<>>) = 0 /\ Len(<<k>>) = 1 /\ Len(<<k, k + 1>>) = 2
           /\ \A n \in Nat : SubSeq(<<>>, n + 1, 0) = <<>>
           /\ SubSeq(<<k>>, 1, 1) = <<k>> /\ SubSeq(<<k>>, 2, 1) = <<>>
           /\ SubSeq(<<k, k + 1>>, 1, 2) = <<k, k + 1>> /\ SubSeq(<<k, k + 1>>, 2, 2) = <<k + 1>>
           /\ SubSeq(<<k, k + 1>>, 3, 2) = <<>>
           /\ <<k>> \o <<>> = <<k>> /\ <<k>> \o <<k + 1>> = <<k, k + 1>>
<1>1. Len(<<>>) = 0 /\ Len(<<k>>) = 1 /\ Len(<<k, k + 1>>) = 2
  OBVIOUS
<1>2. <<>> \in Seq(Nat) /\ <<k>> \in Seq(Nat) /\ <<k, k + 1>> \in Seq(Nat) /\ <<k + 1>> \in Seq(Nat)
  OBVIOUS
<1>3. \A n \in Nat : SubSeq(<<>>, n + 1, 0) = <<>>
  OBVIOUS
<1>t. <<k>>[1] = k /\ <<k, k + 1>>[1] = k /\ <<k, k + 1>>[2] = k + 1
  OBVIOUS
<1>4. SubSeq(<<k>>, 1, 1) = <<k>> /\ SubSeq(<<k>>, 2, 1) = <<>>
  <2> DEFINE a == <<k>>
  <2>1. a \in Seq(Nat) /\ Len(a) = 1 /\ a[1] = k
    BY <1>1, <1>2, <1>t
  <2> HIDE DEF a
  <2>2. SubSeq(a, 1, 1) \in Seq(Nat) /\ Len(SubSeq(a, 1, 1)) = 1 /\ SubSeq(a, 1, 1)[1] = k
        /\ SubSeq(a, 2, 1) = <<>>
    BY <2>1
  <2>3. SubSeq(a, 1, 1) = <<k>>
    BY <2>2, ShortSequences
  <2> QED BY <2>2, <2>3 DEF a
<1> DEFINE b == <<k, k + 1>>
<1>b. b \in Seq(Nat) /\ Len(b) = 2 /\ b[1] = k /\ b[2] = k + 1
  BY <1>1, <1>2, <1>t
<1> HIDE DEF b
<1>5. SubSeq(b, 1, 2) = <<k, k + 1>>
  <2>1. SubSeq(b, 1, 2) \in Seq(Nat) /\ Len(SubSeq(b, 1, 2)) = 2
        /\ SubSeq(b, 1, 2)[1] = k /\ SubSeq(b, 1, 2)[2] = k + 1
    BY <1>b
  <2> QED BY <2>1, ShortSequences
<1>6. SubSeq(b, 2, 2) = <<k + 1>>
  <2>1. SubSeq(b, 2, 2) \in Seq(Nat) /\ Len(SubSeq(b, 2, 2)) = 1 /\ SubSeq(b, 2, 2)[1] = k + 1
    BY <1>b
  <2> QED BY <2>1, ShortSequences
<1>7. SubSeq(b, 3, 2) = <<>>
  BY <1>b
<1>8. <<k>> \o <<>> = <<k>>
  BY <1>2
<1>9. <<k>> \o <<k + 1>> = <<k, k + 1>>
  <2>1. <<k>> \o <<k + 1>> \in Seq(Nat) /\ Len(<<k>> \o <<k + 1>>) = 2
    BY <1>2
  <2>2. (<<k>> \o <<k + 1>>)[1] = k /\ (<<k>> \o <<k + 1>>)[2] = k + 1
    BY <1>2
  <2> QED BY <2>1, <2>2, ShortSequences
<1> QED BY <1>1, <1>3, <1>4, <1>5, <1>6, <1>7, <1>8, <1>9 DEF b

\* And their prefixes.
LEMMA HistoryPrefixes ==
    ASSUME NEW k \in Nat, NEW p \in Seq(Nat)
    PROVE  /\ IsPrefix(p, <<>>) => p = <<>>
           /\ IsPrefix(p, <<k>>) => p \in {<<>>, <<k>>}
           /\ IsPrefix(p, <<k, k + 1>>) => p \in {<<>>, <<k>>, <<k, k + 1>>}
<1>1. \A t \in Seq(Nat) : IsPrefix(p, t) =>
          Len(p) \in Nat /\ Len(p) <= Len(t) /\ \A i \in 1..Len(p) : p[i] = t[i]
  <2> SUFFICES ASSUME NEW t \in Seq(Nat), IsPrefix(p, t)
               PROVE  Len(p) \in Nat /\ Len(p) <= Len(t) /\ \A i \in 1..Len(p) : p[i] = t[i]
    OBVIOUS
  <2> DEFINE r == SubSeq(t, Len(p) + 1, Len(t))
  <2>1. r \in Seq(Nat) /\ t = p \o r
    BY PrefixRest
  <2> HIDE DEF r
  <2> QED BY <2>1
<1>2. p = <<>> <=> Len(p) = 0
  OBVIOUS
<1>3. ASSUME IsPrefix(p, <<>>)
      PROVE  p = <<>>
  <2>1. <<>> \in Seq(Nat) /\ Len(<<>>) = 0
    OBVIOUS
  <2>2. Len(p) \in Nat /\ Len(p) <= 0
    BY <1>1, <1>3, <2>1
  <2> QED BY <1>2, <2>2
<1>4. ASSUME IsPrefix(p, <<k>>)
      PROVE  p \in {<<>>, <<k>>}
  <2>1. <<k>> \in Seq(Nat) /\ Len(<<k>>) = 1 /\ <<k>>[1] = k
    OBVIOUS
  <2>2. Len(p) \in {0, 1} /\ (Len(p) = 1 => p[1] = k)
    <3>1. Len(p) \in Nat /\ Len(p) <= Len(<<k>>) /\ \A i \in 1..Len(p) : p[i] = <<k>>[i]
      BY <1>1, <1>4, <2>1
    <3> QED BY <2>1, <3>1
  <2>3. Len(p) = 1 => p = <<k>>
    BY <2>2
  <2> QED BY <1>2, <2>2, <2>3
<1>5. ASSUME IsPrefix(p, <<k, k + 1>>)
      PROVE  p \in {<<>>, <<k>>, <<k, k + 1>>}
  <2>1. <<k, k + 1>> \in Seq(Nat) /\ Len(<<k, k + 1>>) = 2
        /\ <<k, k + 1>>[1] = k /\ <<k, k + 1>>[2] = k + 1
    OBVIOUS
  <2>2. Len(p) \in {0, 1, 2} /\ (Len(p) >= 1 => p[1] = k) /\ (Len(p) = 2 => p[2] = k + 1)
    <3> DEFINE b == <<k, k + 1>>
    <3> HIDE DEF b
    <3>1. Len(p) \in Nat /\ Len(p) <= Len(b) /\ \A i \in 1..Len(p) : p[i] = b[i]
      BY <1>1, <1>5, <2>1 DEF b
    <3>2. Len(b) = 2 /\ b[1] = k /\ b[2] = k + 1
      BY <2>1 DEF b
    <3>6. Len(p) \in Nat /\ Len(p) <= 2
      BY <3>1, <3>2, Zenon
    <3>3. Len(p) \in {0, 1, 2}
      <4>1. \A n \in Nat : n <= 2 => n \in {0, 1, 2}
        OBVIOUS
      <4> QED BY <3>6, <4>1, Zenon
    <3>4. Len(p) >= 1 => p[1] = k
      BY <3>1, <3>2
    <3>5. Len(p) = 2 => p[2] = k + 1
      BY <3>1, <3>2
    <3> QED BY <3>3, <3>4, <3>5
  <2>3. Len(p) = 1 => p = <<k>>
    BY <2>2
  <2>4. Len(p) = 2 => p = <<k, k + 1>>
    BY <2>2
  <2> QED BY <1>2, <2>2, <2>3, <2>4
<1> QED BY <1>3, <1>4, <1>5

\* A cursor that can append a snapshot: it is current, and not ahead.
Appends(l, f, s, K) ==
    /\ l.fresh /\ Follows(l, f, K) /\ IsPrefix(l.msgs, s.msgs) /\ ~CursorAhead(l, s)

\* The records h of a history continue what the file has of it, and complete it.
Continues(f, s, k, h) ==
    /\ IF k \in Big THEN h \in Seq({k, k + 1})
       ELSE \/ h = <<>>
            \/ f.subs[k] = <<>> /\ h \in {<<k>>, History(k)}
            \/ f.subs[k] = <<k>> /\ h = <<k + 1>>
    /\ s.subs[k] = <<>> => h = <<>>
    /\ s.subs[k] # <<>> => IF k \in Big THEN k \in Legible => f.subs[k] \o Readable(h) # <<>>
                           ELSE f.subs[k] \o Readable(h) = Readable(s.subs[k])

\* So do those the cursor has not seen, of a history that begins with a tombstone.
LEMMA NewBigHistory ==
    ASSUME NEW l, NEW f, NEW s, NEW c, NEW R, NEW K, NEW k \in Subs, k \in Big,
           Writable(s, f, c, R), Tracked(K, s), HasCursor(l, R), Appends(l, f, s, K)
    PROVE  Continues(f, s, k, NewHistories(l, s)[k])
<1> DEFINE q == s.subs[k]
           n == l.subs[k]
           h == NewHistories(l, s)[k]
<1>1. q \in Kinds(k) /\ n \in Nat /\ f.subs[k] \in Rest(k)
  BY DEF Writable, HasSession, HasFile, HasCursor, Cursor, Traces
<1>2. h = IF k \in s.evSubs THEN <<>> ELSE SubSeq(q, n + 1, Len(q))
  BY DEF NewHistories
<1>3. k \in s.evSubs => q = <<>>
  BY DEF Writable, HasSession
<1>4. q # <<>> => k \notin s.evSubs /\ Aligned(l, f, k)
  BY <1>3 DEF Tracked, Resident, Appends, Follows
<1>5. q \in Seq({k, k + 1}) /\ \A p \in Seq({k, k + 1}) : Readable(p) \in Rest(k)
  BY <1>1, BigHistory
<1>a. n = 0 \/ q = <<>> \/ Present(f, k)
  BY <1>4 DEF Aligned
<1> HIDE DEF h, q, n
<1>6. h \in Seq({k, k + 1}) /\ (q = <<>> => h = <<>>) /\ (n = 0 /\ q # <<>> => h = q)
  <2>1. <<>> \in Seq({k, k + 1})
    OBVIOUS
  <2>2. n + 1 \in Nat \ {0} /\ Len(q) \in 0..Len(q)
    BY <1>1, <1>5
  <2>3. SubSeq(q, n + 1, Len(q)) \in Seq({k, k + 1})
    BY <1>5, <2>2, SubSeqType
  <2>4. q = <<>> => SubSeq(q, n + 1, Len(q)) = <<>>
    BY <1>1
  <2>5. n = 0 => SubSeq(q, n + 1, Len(q)) = q
    BY <1>5
  <2> QED BY <1>2, <1>4, <2>1, <2>3, <2>4, <2>5
<1>7. ASSUME q # <<>>, k \in Legible
      PROVE  f.subs[k] \o Readable(h) # <<>>
  <2>1. f.subs[k] \in Seq(Nat) /\ Readable(h) \in Seq(Nat)
    BY <1>1, <1>5, <1>6, BigHistory
  <2>2. \A a, b \in Seq(Nat) : a # <<>> \/ b # <<>> => a \o b # <<>>
    OBVIOUS
  <2>3. CASE n = 0
    <3>1. Readable(h) # <<>>
      BY <1>1, <1>6, <1>7, <2>3, HistoryValues
    <3> QED BY <2>1, <2>2, <3>1
  <2>4. CASE n # 0
    <3>1. f.subs[k] # <<>>
      BY <1>7, <1>a, <2>4 DEF Present
    <3> QED BY <2>1, <2>2, <3>1
  <2> QED BY <2>3, <2>4
<1> QED BY <1>6, <1>7 DEF Continues, h, q

\* And of one within the limit.
LEMMA NewSmallHistory ==
    ASSUME NEW l, NEW f, NEW s, NEW c, NEW R, NEW K, NEW k \in Subs, k \notin Big,
           Writable(s, f, c, R), Tracked(K, s), HasCursor(l, R), Appends(l, f, s, K)
    PROVE  Continues(f, s, k, NewHistories(l, s)[k])
<1> DEFINE h == NewHistories(l, s)[k]
<1> SUFFICES Continues(f, s, k, h)
  OBVIOUS
<1>1. /\ k \in Nat /\ s.subs[k] \in {<<>>, <<k>>, History(k)} /\ (k \in s.evSubs => s.subs[k] = <<>>)
      /\ l.subs[k] \in Nat
  BY LogAssumption DEF Writable, HasSession, HasCursor, Cursor, Kinds
<1>2. h = IF k \in s.evSubs THEN <<>> ELSE SubSeq(s.subs[k], l.subs[k] + 1, Len(s.subs[k]))
  BY DEF NewHistories
<1> HIDE DEF h
<1>3. CASE s.subs[k] = <<>>
  <2>1. h = <<>>
    BY <1>1, <1>2, <1>3, HistoryParts
  <2> QED BY <1>3, <2>1 DEF Continues
<1>4. CASE s.subs[k] # <<>>
  <2>1. k \notin s.evSubs /\ k \in K /\ s.subs[k] \in {<<k>>, <<k, k + 1>>}
    BY <1>1, <1>4 DEF Tracked, Resident, History
  <2>2. l.subs[k] <= Len(s.subs[k])
    <3>1. Len(s.subs[k]) \in Nat
      BY <1>1, <2>1, HistoryParts
    <3> QED BY <1>1, <2>1, <3>1 DEF Appends, CursorAhead
  <2>3. h = SubSeq(s.subs[k], l.subs[k] + 1, Len(s.subs[k]))
    BY <1>2, <2>1
  <2>4. Aligned(l, f, k)
    BY <2>1 DEF Appends, Follows
  <2>5. /\ Readable(<<>>) = <<>> /\ Readable(<<k>>) = <<k>>
        /\ Readable(<<k + 1>>) = IF k + 1 \in Big THEN <<>> ELSE <<k + 1>>
        /\ Readable(History(k)) = IF k + 1 \in Big THEN <<k>> ELSE <<k, k + 1>>
        /\ History(k) = <<k, k + 1>>
    BY ReadableHistory DEF History
  <2>6. <<>> \o Readable(History(k)) = Readable(History(k)) /\ <<>> \o <<k>> = <<k>>
        /\ Readable(History(k)) \o <<>> = Readable(History(k))
    BY <1>1, SmallHistory
  <2>7. CASE s.subs[k] = <<k>>
    <3>1. l.subs[k] \in {0, 1}
      <4>1. Len(<<k>>) = 1
        OBVIOUS
      <4> QED BY <1>1, <2>2, <2>7, <4>1
    <3>2. CASE l.subs[k] = 0
      <4>1. h = <<k>> /\ f.subs[k] = <<>>
        <5>1. l.subs[k] + 1 = 1 /\ Len(<<k>>) = 1 /\ f.subs[k] = <<>>
          BY <2>4, <3>2 DEF Aligned
        <5> QED BY <1>1, <2>3, <2>7, <5>1, HistoryParts
      <4> QED BY <2>1, <2>5, <2>6, <2>7, <4>1 DEF Continues
    <3>3. CASE l.subs[k] = 1
      <4>1. h = <<>> /\ f.subs[k] = <<k>>
        BY <1>1, <2>3, <2>4, <2>7, <3>3, HistoryParts DEF Aligned
      <4> QED BY <1>1, <2>1, <2>5, <2>7, <4>1, HistoryParts DEF Continues
    <3> QED BY <3>1, <3>2, <3>3
  <2>8. CASE s.subs[k] = <<k, k + 1>>
    <3>1. l.subs[k] \in {0, 1, 2}
      BY <2>4 DEF Aligned
    <3>2. CASE l.subs[k] = 0
      <4>1. h = <<k, k + 1>> /\ f.subs[k] = <<>>
        <5>1. l.subs[k] + 1 = 1 /\ Len(<<k, k + 1>>) = 2 /\ f.subs[k] = <<>>
          BY <2>4, <3>2 DEF Aligned
        <5> QED BY <1>1, <2>3, <2>8, <5>1, HistoryParts
      <4> QED BY <2>1, <2>5, <2>6, <2>8, <4>1 DEF Continues
    <3>3. CASE l.subs[k] = 1
      <4>0. f.subs[k] = <<k>>
        BY <2>4, <3>3 DEF Aligned
      <4>1. h = <<k + 1>> /\ f.subs[k] = <<k>>
        <5>1. l.subs[k] + 1 = 2 /\ Len(<<k, k + 1>>) = 2
          BY <3>3
        <5> QED BY <1>1, <2>3, <2>8, <4>0, <5>1, HistoryParts
      <4>2. <<k>> \o Readable(<<k + 1>>) = Readable(History(k))
        BY <1>1, <2>5, HistoryParts
      <4>3. f.subs[k] \o Readable(h) = Readable(s.subs[k]) /\ s.subs[k] # <<>>
        BY <2>1, <2>5, <2>8, <4>1, <4>2
      <4> QED BY <4>1, <4>3 DEF Continues
    <3>4. CASE l.subs[k] = 2
      <4>1. h = <<>> /\ f.subs[k] = Readable(History(k))
        BY <1>1, <2>3, <2>4, <2>8, <3>4, HistoryParts DEF Aligned
      <4> QED BY <2>1, <2>5, <2>6, <2>8, <4>1 DEF Continues
    <3> QED BY <3>1, <3>2, <3>3, <3>4
  <2> QED BY <2>1, <2>7, <2>8
<1> QED BY <1>3, <1>4

\* Of every history.
LEMMA NewHistory ==
    ASSUME NEW l, NEW f, NEW s, NEW c, NEW R, NEW K, NEW k \in Subs,
           Writable(s, f, c, R), Tracked(K, s), HasCursor(l, R), Appends(l, f, s, K)
    PROVE  Continues(f, s, k, NewHistories(l, s)[k])
BY NewBigHistory, NewSmallHistory

\* A part p of a history continues what the file has of it.
Fits(f, R, k, p) ==
    /\ f.subs[k] \o Readable(p) \in Traces(k)
    /\ k \notin R => p = <<>>

\* So does every part of the records that the cursor has not seen, of a history that
\* begins with a tombstone.
LEMMA PartOfBigHistory ==
    ASSUME NEW l, NEW f, NEW s, NEW c, NEW R, NEW K, NEW k \in Subs, NEW p \in Seq(Nat), k \in Big,
           Writable(s, f, c, R), Tracked(K, s), HasCursor(l, R), Appends(l, f, s, K),
           IsPrefix(p, NewHistories(l, s)[k])
    PROVE  Fits(f, R, k, p)
<1> DEFINE h == NewHistories(l, s)[k]
<1>1. f.subs[k] \in Rest(k) /\ (k \notin R => s.subs[k] = <<>>)
  BY DEF Writable, HasSession, HasFile, Traces
<1>2. h \in Seq({k, k + 1}) /\ (s.subs[k] = <<>> => h = <<>>)
  BY NewHistory DEF Continues
<1>3. IsPrefix(p, h) /\ {k, k + 1} \subseteq Nat
  BY BigHistory
<1> HIDE DEF h
<1>4. h \in Seq(Nat)
  BY <1>2, <1>3, SequenceWiden
<1> DEFINE r == SubSeq(h, Len(p) + 1, Len(h))
<1>5. r \in Seq(Nat) /\ h = p \o r
  BY <1>3, <1>4, PrefixRest
<1> HIDE DEF r
<1>6. Len(p) \in Nat /\ p = [i \in 1..Len(p) |-> p[i]] /\ \A i \in 1..Len(p) : p[i] \in {k, k + 1}
  <2>1. Len(p) \in Nat /\ p = [i \in 1..Len(p) |-> p[i]]
        /\ \A i \in 1..Len(p) : i \in 1..Len(h) /\ h[i] = p[i]
    BY <1>5
  <2> QED BY <1>2, <2>1
<1>7. p \in Seq({k, k + 1})
  BY <1>6, MapEntries
<1>8. f.subs[k] \o Readable(p) \in Traces(k)
  BY <1>1, <1>7, BigHistory DEF Traces
<1>9. k \notin R => p = <<>>
  BY <1>1, <1>2, <1>5
<1> QED BY <1>8, <1>9 DEF Fits

\* And of one within the limit.
LEMMA PartOfSmallHistory ==
    ASSUME NEW l, NEW f, NEW s, NEW c, NEW R, NEW K, NEW k \in Subs, NEW p \in Seq(Nat), k \notin Big,
           Writable(s, f, c, R), Tracked(K, s), HasCursor(l, R), Appends(l, f, s, K),
           IsPrefix(p, NewHistories(l, s)[k])
    PROVE  Fits(f, R, k, p)
<1> SUFFICES /\ f.subs[k] \o Readable(p) \in {<<>>, <<k>>, Readable(History(k))}
             /\ k \notin R => p = <<>>
  BY DEF Fits, Traces
<1> DEFINE h == NewHistories(l, s)[k]
<1>1. k \in Nat /\ f.subs[k] \in {<<>>, <<k>>, Readable(History(k))}
      /\ (k \notin R => s.subs[k] = <<>>)
  BY LogAssumption DEF Writable, HasSession, HasFile, Traces
<1>c. Continues(f, s, k, h)
  BY NewHistory
<1>3. IsPrefix(p, h)
  OBVIOUS
<1> HIDE DEF h
<1>2. /\ \/ h = <<>>
         \/ f.subs[k] = <<>> /\ h \in {<<k>>, History(k)}
         \/ f.subs[k] = <<k>> /\ h = <<k + 1>>
      /\ s.subs[k] = <<>> => h = <<>>
  BY <1>c DEF Continues
<1>4. /\ Readable(<<>>) = <<>> /\ Readable(<<k>>) = <<k>> /\ History(k) = <<k, k + 1>>
      /\ Readable(<<k + 1>>) = IF k + 1 \in Big THEN <<>> ELSE <<k + 1>>
      /\ Readable(History(k)) = IF k + 1 \in Big THEN <<k>> ELSE <<k, k + 1>>
  BY ReadableHistory DEF History
<1>5. h = <<>> => p = <<>>
  BY <1>1, <1>3, HistoryPrefixes
<1>6. \A x \in {<<>>, <<k>>, Readable(History(k))} : x \o <<>> = x /\ <<>> \o x = x
  <2>1. \A x \in Seq(Nat) : x \o <<>> = x /\ <<>> \o x = x
    OBVIOUS
  <2>2. <<>> \in Seq(Nat) /\ <<k>> \in Seq(Nat) /\ Readable(History(k)) \in Seq(Nat)
    BY SmallHistory
  <2> QED BY <2>1, <2>2
<1>7. CASE p = <<>>
  BY <1>1, <1>4, <1>6, <1>7
<1>8. CASE p # <<>> /\ f.subs[k] = <<>> /\ h \in {<<k>>, History(k)}
  <2>1. p \in {<<k>>, History(k)}
    BY <1>1, <1>3, <1>4, <1>8, HistoryPrefixes
  <2> QED BY <1>1, <1>2, <1>4, <1>5, <1>6, <1>8, <2>1
<1>9. CASE p # <<>> /\ f.subs[k] = <<k>> /\ h = <<k + 1>>
  <2>1. p = <<k + 1>>
    <3>1. k + 1 \in Nat
      BY <1>1
    <3> QED BY <3>1, <1>3, <1>9, HistoryPrefixes
  <2>2. <<k>> \o Readable(<<k + 1>>) = Readable(History(k))
    BY <1>1, <1>4, HistoryParts
  <2> QED BY <1>1, <1>2, <1>5, <1>9, <2>1, <2>2
<1> QED BY <1>2, <1>5, <1>7, <1>8, <1>9

\* Of every history.
LEMMA PartOfHistory ==
    ASSUME NEW l, NEW f, NEW s, NEW c, NEW R, NEW K, NEW k \in Subs, NEW p \in Seq(Nat),
           Writable(s, f, c, R), Tracked(K, s), HasCursor(l, R), Appends(l, f, s, K),
           IsPrefix(p, NewHistories(l, s)[k])
    PROVE  Fits(f, R, k, p)
BY PartOfBigHistory, PartOfSmallHistory

\* Records that continue a file make it grow.
LEMMA GrownFile ==
    ASSUME NEW f, NEW c, NEW R, NEW ms \in Seq(1..c), NEW os, NEW hs \in [Subs -> Seq(Nat)],
           HasFile(f, c, R), c \in 0..MaxMessages,
           os \subseteq Outputs, os \subseteq (1..c) \cup R,
           \A k \in Subs : f.subs[k] \o Readable(hs[k]) \in Traces(k),
           \A k \in Subs \ R : hs[k] = <<>>
    PROVE  HasFile(Grown(f, ms, os, hs), c, R) /\ Grows(Grown(f, ms, os, hs), f)
<1> DEFINE g == Grown(f, ms, os, hs)
<1>1. f \in File /\ f.msgs \in Seq(1..c) /\ f.outs \subseteq (1..c) \cup R
      /\ Readable(f.msgs) = f.msgs /\ f.outs \cap Big = {} /\ f.subs \in [Subs -> Seq(Nat)]
      /\ \A k \in Subs \ R : f.subs[k] = <<>>
  BY DEF HasFile, File
<1>2. /\ g.msgs = f.msgs \o Readable(ms) /\ g.outs = f.outs \cup (os \ Big)
      /\ g.subs = [k \in Subs |-> f.subs[k] \o Readable(hs[k])]
      /\ g.rev = f.rev /\ g.title = f.title /\ g.frames = f.frames /\ g.torn = f.torn
      /\ g = [f EXCEPT !.msgs = g.msgs, !.outs = g.outs, !.subs = g.subs]
  BY <1>1 DEF Grown, File
<1>3. ms \in Seq(Nat) /\ f.msgs \in Seq(Nat) /\ 1..c \in SUBSET Nat
  BY <1>1, MessagesAreNumbers
<1>4. Readable(ms) \in Seq(1..c)
  BY <1>3, ReadableType
<1>5. Readable(ms) \in Seq(Nat)
  BY <1>4, MessagesAreNumbers
<1>6. g.msgs \in Seq(1..c) /\ IsPrefix(f.msgs, g.msgs)
  <2> DEFINE a == f.msgs
             b == Readable(ms)
  <2>1. a \in Seq(1..c) /\ b \in Seq(1..c) /\ g.msgs = a \o b
    BY <1>1, <1>2, <1>4
  <2> HIDE DEF a, b, g
  <2>2. a \o b \in Seq(1..c) /\ IsPrefix(a, a \o b)
    BY <2>1, ConcatPrefix, ConcatEntries
  <2> QED BY <2>1, <2>2 DEF a
<1>7. Readable(g.msgs) = g.msgs
  <2>1. Readable(f.msgs \o Readable(ms)) = Readable(f.msgs) \o Readable(Readable(ms))
    BY <1>3, <1>5, ReadableConcat
  <2>2. Readable(Readable(ms)) = Readable(ms)
    BY <1>3, ReadableTwice
  <2> HIDE DEF g
  <2> QED BY <1>1, <1>2, <2>1, <2>2
<1>8. g.msgs \in Seq(Messages)
  BY <1>6, MessagesAreNumbers
<1> HIDE DEF g
<1>9. \A k \in Subs : /\ g.subs[k] \in Traces(k)
                      /\ g.subs[k] \in Seq(Nat) /\ IsPrefix(f.subs[k], g.subs[k])
                      /\ k \notin R => g.subs[k] = <<>>
  <2> TAKE k \in Subs
  <2>1. Nat \in SUBSET Nat /\ hs[k] \in Seq(Nat) /\ f.subs[k] \in Seq(Nat)
    BY <1>1
  <2>2. Readable(hs[k]) \in Seq(Nat)
    BY <2>1, ReadableType
  <2>3. g.subs[k] = f.subs[k] \o Readable(hs[k])
    BY <1>2
  <2>4. g.subs[k] \in Seq(Nat) /\ IsPrefix(f.subs[k], g.subs[k])
    <3> DEFINE a == f.subs[k]
               b == Readable(hs[k])
    <3>1. a \in Seq(Nat) /\ b \in Seq(Nat) /\ g.subs[k] = a \o b
      BY <2>1, <2>2, <2>3
    <3> HIDE DEF a, b
    <3>2. a \o b \in Seq(Nat) /\ IsPrefix(a, a \o b)
      BY <3>1, ConcatPrefix, ConcatEntries
    <3> QED BY <3>1, <3>2 DEF a
  <2>5. k \notin R => g.subs[k] = <<>>
    <3>1. <<>> \o <<>> = <<>>
      OBVIOUS
    <3> QED BY <1>1, <2>3, <3>1, ReadableEmpty
  <2> QED BY <2>3, <2>4, <2>5
<1>10. g.subs \in [Subs -> Seq(Nat)]
  BY <1>2, <1>9
<1>11. g.outs \subseteq Outputs /\ g.outs \subseteq (1..c) \cup R /\ g.outs \cap Big = {}
  BY <1>1, <1>2 DEF File
<1>12. g \in File
  BY <1>1, <1>2, <1>8, <1>10, <1>11 DEF File
<1>13. HasFile(g, c, R)
  BY <1>6, <1>7, <1>9, <1>11, <1>12 DEF HasFile
<1>14. Grows(g, f)
  BY <1>2, <1>6, <1>9 DEF Grows
<1> QED BY <1>13, <1>14 DEF g

\* The meta and a torn end are not among the records.
LEMMA SameRecords ==
    ASSUME NEW g, NEW h \in File, NEW c, NEW R, HasFile(g, c, R),
           h.msgs = g.msgs, h.outs = g.outs, h.subs = g.subs
    PROVE  HasFile(h, c, R) /\ \A f : Grows(g, f) /\ h.rev = g.rev => Grows(h, f)
<1>1. HasFile(h, c, R)
  BY DEF HasFile
<1>2. \A f : Grows(g, f) /\ h.rev = g.rev => Grows(h, f)
  BY DEF Grows
<1> QED BY <1>1, <1>2

\* The parts of a frame.
LEMMA NewParts ==
    ASSUME NEW l, NEW f, NEW s, NEW c, NEW R, NEW K,
           Writable(s, f, c, R), Tracked(K, s), HasCursor(l, R), Appends(l, f, s, K)
    PROVE  /\ NewMessages(l, s) \in Seq(1..c)
           /\ Readable(s.msgs) = f.msgs \o Readable(NewMessages(l, s))
           /\ NewOutputs(l, s) \subseteq Outputs /\ NewOutputs(l, s) \subseteq (1..c) \cup R
           /\ NewHistories(l, s) \in [Subs -> Seq(Nat)]
           /\ \A k \in Subs : Continues(f, s, k, NewHistories(l, s)[k])
<1>1. s \in Session /\ s.msgs \in Seq(1..c) /\ s.outs \subseteq (1..c) \cup R
      /\ c \in 0..MaxMessages /\ f.msgs = Readable(l.msgs) /\ l \in Cursor
  BY DEF Writable, HasSession, Appends, Follows, HasCursor
<1>2. s.msgs \in Seq(Nat) /\ l.msgs \in Seq(Messages)
  BY <1>1, MessagesAreNumbers DEF Cursor
<1>3. l.msgs \in Seq(Nat)
  <2>1. Messages \subseteq Nat
    BY LogAssumption DEF Messages
  <2> QED BY <1>2, <2>1, SequenceWiden
<1>4. NewMessages(l, s) \in Seq(1..c)
  <2> DEFINE ms == s.msgs
             n == Len(l.msgs)
  <2>1. ms \in Seq(1..c) /\ n \in Nat
    BY <1>1, <1>3
  <2> HIDE DEF ms, n
  <2>2. n + 1 \in Nat \ {0} /\ Len(ms) \in 0..Len(ms)
    BY <2>1
  <2>3. SubSeq(ms, n + 1, Len(ms)) \in Seq(1..c)
    BY <2>1, <2>2, SubSeqType
  <2> QED BY <2>3 DEF NewMessages, ms, n
<1>5. NewMessages(l, s) \in Seq(Nat) /\ s.msgs = l.msgs \o NewMessages(l, s)
  <2> DEFINE a == l.msgs
             b == s.msgs
  <2>1. a \in Seq(Nat) /\ b \in Seq(Nat) /\ IsPrefix(a, b)
    BY <1>2, <1>3 DEF Appends
  <2> HIDE DEF a, b
  <2>2. SubSeq(b, Len(a) + 1, Len(b)) \in Seq(Nat) /\ b = a \o SubSeq(b, Len(a) + 1, Len(b))
    BY <2>1, PrefixRest
  <2> QED BY <2>2 DEF NewMessages, a, b
<1>6. Readable(s.msgs) = f.msgs \o Readable(NewMessages(l, s))
  <2> DEFINE a == l.msgs
             b == NewMessages(l, s)
  <2>1. a \in Seq(Nat) /\ b \in Seq(Nat) /\ s.msgs = a \o b
    BY <1>3, <1>5
  <2> HIDE DEF a, b
  <2>2. Readable(a \o b) = Readable(a) \o Readable(b)
    BY <2>1, ReadableConcat
  <2> QED BY <1>1, <2>1, <2>2 DEF a, b
<1>7. NewOutputs(l, s) \subseteq Outputs /\ NewOutputs(l, s) \subseteq (1..c) \cup R
  BY <1>1 DEF NewOutputs, Session
<1>8. \A k \in Subs : Continues(f, s, k, NewHistories(l, s)[k])
  BY NewHistory
<1>9. NewHistories(l, s) \in [Subs -> Seq(Nat)]
  <2>1. \A k \in Subs : NewHistories(l, s)[k] \in Seq(Nat)
    <3> TAKE k \in Subs
    <3>1. k \in Nat /\ <<>> \in Seq(Nat) /\ <<k>> \in Seq(Nat) /\ <<k + 1>> \in Seq(Nat)
          /\ History(k) \in Seq(Nat) /\ {k, k + 1} \subseteq Nat
      BY LogAssumption DEF History
    <3>2. \A h \in Seq({k, k + 1}) : h \in Seq(Nat)
      BY <3>1, SequenceWiden
    <3> QED BY <1>8, <3>1, <3>2, Zenon DEF Continues
  <2>2. NewHistories(l, s) = [k \in Subs |-> NewHistories(l, s)[k]]
    BY DEF NewHistories
  <2> QED BY <2>1, <2>2
<1> QED BY <1>4, <1>6, <1>7, <1>8, <1>9

\* A frame that is written completes the file, and the cursor follows.
LEMMA WholeFrame ==
    ASSUME NEW l, NEW f, NEW s, NEW c, NEW R, NEW K,
           Writable(s, f, c, R), Tracked(K, s), HasCursor(l, R), Appends(l, f, s, K)
    PROVE  /\ HasFile(Appended(l, f, s), c, R) /\ Complete(Appended(l, f, s), s)
           /\ HasCursor(Advanced(l, s), R) /\ Follows(Advanced(l, s), Appended(l, f, s), K)
<1> DEFINE ms == NewMessages(l, s)
           os == NewOutputs(l, s)
           hs == NewHistories(l, s)
           g == Grown(f, ms, os, hs)
           w == Appended(l, f, s)
           a == Advanced(l, s)
<1>1. ms \in Seq(1..c) /\ Readable(s.msgs) = f.msgs \o Readable(ms)
      /\ os \subseteq Outputs /\ os \subseteq (1..c) \cup R /\ hs \in [Subs -> Seq(Nat)]
      /\ \A k \in Subs : Continues(f, s, k, hs[k])
  BY NewParts
<1>2. HasFile(f, c, R) /\ c \in 0..MaxMessages /\ s \in Session /\ l \in Cursor /\ f \in File
      /\ s.rev \in Nat
  BY DEF Writable, HasCursor, HasSession, HasFile
<1>3. \A k \in Subs : /\ f.subs[k] \o Readable(hs[k]) \in Traces(k)
                      /\ k \notin R => hs[k] = <<>>
  <2> TAKE k \in Subs
  <2> DEFINE p == hs[k]
  <2>1. p \in Seq(Nat)
    BY <1>1
  <2>2. IsPrefix(p, NewHistories(l, s)[k])
    BY <2>1, PrefixOrder
  <2> HIDE DEF p
  <2>3. Fits(f, R, k, p)
    BY <2>1, <2>2, PartOfHistory
  <2> QED BY <2>3 DEF p, Fits
<1>4. HasFile(g, c, R)
  <2> HIDE DEF ms, os, hs
  <2> QED BY <1>1, <1>2, <1>3, GrownFile
<1>5. g.msgs = f.msgs \o Readable(ms) /\ g.outs = f.outs \cup (os \ Big)
      /\ g.subs = [k \in Subs |-> f.subs[k] \o Readable(hs[k])]
  BY <1>2 DEF Grown, File
<1>6. /\ w = [g EXCEPT !.title = s.title, !.rev = s.rev, !.frames = l.frames + 1]
      /\ g \in File /\ s.title \in BOOLEAN /\ l.frames + 1 \in Nat
  BY <1>2, <1>4 DEF Appended, HasFile, Session, Cursor
<1>7. w \in File /\ w.msgs = g.msgs /\ w.outs = g.outs /\ w.subs = g.subs /\ w.rev = s.rev
      /\ w.torn = g.torn
  <2> HIDE DEF g, w
  <2>1. w.msgs = g.msgs /\ w.outs = g.outs /\ w.subs = g.subs /\ w.rev = s.rev
        /\ w.torn = g.torn /\ w.title = s.title /\ w.frames = l.frames + 1
        /\ w = [msgs |-> w.msgs, outs |-> w.outs, subs |-> w.subs, title |-> w.title,
                rev |-> w.rev, frames |-> w.frames, torn |-> w.torn]
    BY <1>6 DEF File
  <2>2. w.title \in BOOLEAN
    BY <1>6, <2>1, Zenon
  <2>3. w.torn \in BOOLEAN
    BY <1>6, <2>1 DEF File
  <2>4. w \in File
    BY <1>2, <1>6, <2>1, <2>2, <2>3 DEF File
  <2> QED BY <2>1, <2>4
<1>8. HasFile(w, c, R)
  <2> HIDE DEF g, w
  <2> QED BY <1>4, <1>7, SameRecords
<1>9. f.outs = l.outs \ Big /\ s.evOuts \ Big \subseteq f.outs
      /\ l.outs \subseteq s.outs \cup s.evOuts
  BY DEF Appends, Follows, CursorAhead, Writable, OnFile
<1>10. w.outs = (s.outs \cup s.evOuts) \ Big /\ w.outs = (l.outs \cup s.outs) \ Big
  <2>1. w.outs = f.outs \cup (os \ Big) /\ os = s.outs \ l.outs
    BY <1>5, <1>7 DEF NewOutputs
  <2> HIDE DEF w, os
  <2> QED BY <1>9, <2>1
<1>11. \A k \in Subs : w.subs[k] = f.subs[k] \o Readable(hs[k])
  BY <1>5, <1>7
<1>12. \A k \in Subs : /\ s.subs[k] # <<>> /\ k \notin Big => w.subs[k] = Readable(s.subs[k])
                       /\ s.subs[k] # <<>> => Present(w, k)
                       /\ s.subs[k] = <<>> => w.subs[k] = f.subs[k]
  <2> TAKE k \in Subs
  <2>1. f.subs[k] \in Seq(Nat)
    BY <1>2 DEF File
  <2>2. f.subs[k] \o <<>> = f.subs[k]
    BY <2>1
  <2>3. s.subs[k] \in Kinds(k)
    BY DEF Writable, HasSession
  <2> HIDE DEF w, hs
  <2>4. s.subs[k] # <<>> /\ k \notin Big => w.subs[k] = Readable(s.subs[k])
    BY <1>1, <1>11 DEF Continues
  <2>5. s.subs[k] # <<>> /\ k \notin Big => Present(w, k)
    BY <2>3, <2>4, HistoryValues DEF Present
  <2>6. s.subs[k] # <<>> /\ k \in Big => Present(w, k)
    BY <1>1, <1>11 DEF Continues, Present
  <2> QED BY <1>1, <1>11, <2>2, <2>4, <2>5, <2>6, ReadableEmpty DEF Continues
<1>13. \A k \in s.evSubs : k \in Subs /\ s.subs[k] = <<>> /\ Present(f, k)
  BY <1>2 DEF Writable, HasSession, OnFile, Session
<1>14. Complete(w, s)
  <2>1. w.msgs = Readable(s.msgs)
    BY <1>1, <1>5, <1>7
  <2> HIDE DEF w
  <2>2. \A k \in s.evSubs : Present(w, k)
    BY <1>12, <1>13 DEF Present
  <2> QED BY <1>7, <1>10, <1>12, <2>1, <2>2 DEF Complete, Resident
<1>15. /\ a.fresh = l.fresh /\ a.msgs = s.msgs /\ a.outs = l.outs \cup s.outs /\ a.rev = s.rev
       /\ a.subs = [k \in Subs |-> IF k \notin s.evSubs /\ Len(s.subs[k]) > l.subs[k]
                                   THEN Len(s.subs[k]) ELSE l.subs[k]]
       /\ a.frames = l.frames + 1 /\ a.title = s.title
       /\ a = [l EXCEPT !.msgs = a.msgs, !.outs = a.outs, !.subs = a.subs, !.frames = a.frames,
                        !.rev = a.rev, !.title = a.title]
  BY <1>2 DEF Advanced, Cursor
<1>16. \A k \in Subs : Len(s.subs[k]) \in Nat /\ l.subs[k] \in Nat
  <2> TAKE k \in Subs
  <2>1. s.subs[k] \in Seq(Nat) /\ l.subs[k] \in Nat
    BY <1>2 DEF Session, Cursor
  <2> QED BY <2>1
<1>17. HasCursor(a, R)
  <2>1. a.subs \in [Subs -> Nat]
    BY <1>15, <1>16
  <2>2. s.msgs \in Seq(Messages) /\ l.outs \cup s.outs \in SUBSET Outputs /\ s.title \in BOOLEAN
    BY <1>2 DEF Session, Cursor
  <2> HIDE DEF a
  <2>5. a = [fresh |-> a.fresh, msgs |-> a.msgs, outs |-> a.outs, subs |-> a.subs,
             frames |-> a.frames, title |-> a.title, rev |-> a.rev]
    BY <1>2, <1>15 DEF Cursor
  <2>6. a.fresh \in BOOLEAN /\ a.title \in BOOLEAN
    <3>1. l.fresh \in BOOLEAN
      BY <1>2 DEF Cursor
    <3> QED BY <1>15, <2>2, <3>1, Zenon
  <2>7. a.msgs \in Seq(Messages) /\ a.outs \in SUBSET Outputs
    BY <1>15, <2>2, Zenon
  <2>8. a.frames \in Nat /\ a.rev \in Int
    <3>1. s.rev \in Int
      BY <1>2
    <3> QED BY <1>6, <1>15, <3>1, Zenon
  <2>3. a \in Cursor
    BY <2>1, <2>5, <2>6, <2>7, <2>8 DEF Cursor
  <2>4. \A k \in Subs \ R : a.subs[k] = 0
    <3> TAKE k \in Subs \ R
    <3>1. s.subs[k] = <<>> /\ l.subs[k] = 0 /\ Len(<<>>) = 0
      BY DEF Writable, HasSession, HasCursor
    <3> QED BY <1>15, <3>1
  <2> QED BY <2>3, <2>4 DEF HasCursor
<1>18. \A k \in K : Aligned(a, w, k)
  <2> TAKE k \in K
  <2>1. k \in Subs /\ k \notin s.evSubs /\ Aligned(l, f, k)
    BY DEF Tracked, Appends, Follows
  <2>2. l.subs[k] <= Len(s.subs[k])
    BY <1>16, <2>1 DEF Appends, CursorAhead
  <2>3. a.subs[k] = Len(s.subs[k])
    <3>1. a.subs[k] = IF k \notin s.evSubs /\ Len(s.subs[k]) > l.subs[k]
                      THEN Len(s.subs[k]) ELSE l.subs[k]
      BY <1>15, <2>1
    <3> HIDE DEF a
    <3> QED BY <1>16, <2>1, <2>2, <3>1
  <2>4. k \in Nat /\ s.subs[k] \in Kinds(k) /\ History(k) = <<k, k + 1>>
    BY <2>1, LogAssumption DEF Writable, HasSession, History
  <2>5. Len(<<>>) = 0 /\ Len(<<k>>) = 1 /\ Len(<<k, k + 1>>) = 2
    BY <2>1, <2>4, HistoryParts
  <2> HIDE DEF a, w
  <2>6. CASE s.subs[k] = <<>>
    <3>1. a.subs[k] = 0 /\ l.subs[k] = 0 /\ w.subs[k] = f.subs[k]
      BY <1>12, <1>16, <2>1, <2>2, <2>3, <2>5, <2>6
    <3> QED BY <2>1, <3>1 DEF Aligned
  <2>7. CASE k \in Big /\ s.subs[k] # <<>>
    BY <1>12, <2>1, <2>7 DEF Aligned
  <2>8. CASE k \notin Big /\ s.subs[k] = <<k>> /\ s.subs[k] # <<>>
    <3>1. Readable(<<k>>) = <<k>>
      BY <2>1, <2>8, ReadableHistory
    <3> QED BY <1>12, <2>1, <2>3, <2>5, <2>8, <3>1 DEF Aligned
  <2>9. CASE k \notin Big /\ s.subs[k] = History(k) /\ s.subs[k] # <<>>
    BY <1>12, <2>1, <2>3, <2>4, <2>5, <2>9 DEF Aligned
  <2> QED BY <2>4, <2>6, <2>7, <2>8, <2>9 DEF Kinds
<1>19. Follows(a, w, K)
  <2>1. w.torn = f.torn
    BY <1>2, <1>7 DEF Grown, File
  <2>2. Exists(w) /\ ~w.torn
    <3> HIDE DEF w
    <3> QED BY <1>2, <1>7, <2>1 DEF Exists, Appends, Follows
  <2>3. w.msgs = Readable(s.msgs)
    BY <1>14 DEF Complete
  <2> HIDE DEF a, w
  <2> QED BY <1>7, <1>10, <1>15, <1>18, <2>2, <2>3 DEF Follows
<1> QED BY <1>8, <1>14, <1>17, <1>19

\* A torn frame lets the file grow.
LEMMA TornFrame ==
    ASSUME NEW l, NEW f, NEW s, NEW c, NEW R, NEW K, NEW t \in Torn(l, f, s),
           Writable(s, f, c, R), Tracked(K, s), HasCursor(l, R), Appends(l, f, s, K)
    PROVE  HasFile(t, c, R) /\ Grows(t, f)
<1> DEFINE ms == NewMessages(l, s)
           os == NewOutputs(l, s)
           hs == NewHistories(l, s)
<1>1. ms \in Seq(1..c) /\ os \subseteq Outputs /\ os \subseteq (1..c) \cup R
      /\ hs \in [Subs -> Seq(Nat)]
  BY NewParts
<1>2. HasFile(f, c, R) /\ c \in 0..MaxMessages /\ f.subs \in [Subs -> Seq(Nat)]
  BY DEF Writable, HasFile, File
<1>3. PICK g : /\ t = [g EXCEPT !.torn = TRUE]
               /\ \/ \E n \in 0..Len(ms) : g = Grown(f, SubSeq(ms, 1, n), {}, NoHistory)
                  \/ \E some \in SUBSET os : g = Grown(f, ms, some, NoHistory)
                  \/ \E cs \in CutWithin(hs) : g = Grown(f, ms, os, cs)
  BY DEF Torn
<1> HIDE DEF ms, os
<1>4. /\ NoHistory \in [Subs -> Seq(Nat)]
      /\ \A k \in Subs : f.subs[k] \o Readable(NoHistory[k]) \in Traces(k) /\ NoHistory[k] = <<>>
  <2>1. \A k \in Subs : NoHistory[k] = <<>> /\ <<>> \in Seq(Nat)
    BY DEF NoHistory
  <2>2. \A k \in Subs : f.subs[k] \o Readable(NoHistory[k]) \in Traces(k)
    <3> TAKE k \in Subs
    <3>1. f.subs[k] \in Seq(Nat) /\ f.subs[k] \in Traces(k)
      BY <1>2 DEF HasFile
    <3>2. f.subs[k] \o <<>> = f.subs[k]
      BY <3>1
    <3> QED BY <2>1, <3>1, <3>2, ReadableEmpty
  <2> QED BY <2>1, <2>2 DEF NoHistory
<1>5. HasFile(g, c, R) /\ Grows(g, f)
  <2>1. ASSUME NEW n \in 0..Len(ms), g = Grown(f, SubSeq(ms, 1, n), {}, NoHistory)
        PROVE  HasFile(g, c, R) /\ Grows(g, f)
    <3> DEFINE m == SubSeq(ms, 1, n)
    <3>0. 1 \in Nat \ {0} /\ ms \in Seq(1..c)
      BY <1>1
    <3>1. m \in Seq(1..c)
      BY <3>0, SubSeqType
    <3> HIDE DEF m
    <3>2. HasFile(Grown(f, m, {}, NoHistory), c, R) /\ Grows(Grown(f, m, {}, NoHistory), f)
      BY <1>2, <1>4, <3>1, GrownFile
    <3> QED BY <2>1, <3>2 DEF m
  <2>2. ASSUME NEW some \in SUBSET os, g = Grown(f, ms, some, NoHistory)
        PROVE  HasFile(g, c, R) /\ Grows(g, f)
    <3>1. some \subseteq Outputs /\ some \subseteq (1..c) \cup R
      BY <1>1
    <3> QED BY <1>1, <1>2, <1>4, <2>2, <3>1, GrownFile
  <2>3. ASSUME NEW cs \in CutWithin(hs), g = Grown(f, ms, os, cs)
        PROVE  HasFile(g, c, R) /\ Grows(g, f)
    <3>1. /\ cs \in [Subs -> UNION {Part(k) : k \in Subs}]
          /\ \A k \in Subs : IsPrefix(cs[k], hs[k])
      BY DEF CutWithin
    <3>2. \A k \in Subs : cs[k] \in Seq(Nat)
      <4> TAKE k \in Subs
      <4>1. PICK j \in Subs : cs[k] \in Part(j)
        BY <3>1
      <4>2. j \in Nat /\ j + 1 \in Nat
        BY LogAssumption
      <4> DEFINE q == History(j)
      <4>3. q \in Seq(Nat) /\ Len(q) = 2
        BY <4>2 DEF History
      <4> HIDE DEF q
      <4>4. PICK a \in 1..2, b \in 0..2 : cs[k] = SubSeq(q, a, b)
        BY <4>1 DEF Part, q
      <4>5. a \in Nat \ {0} /\ b \in 0..Len(q)
        BY <4>3, <4>4
      <4>6. SubSeq(q, a, b) \in Seq(Nat)
        BY <4>3, <4>5, SubSeqType
      <4> QED BY <4>4, <4>6
    <3>3. \A k \in Subs : Fits(f, R, k, cs[k])
      <4> TAKE k \in Subs
      <4> DEFINE p == cs[k]
      <4>1. p \in Seq(Nat) /\ IsPrefix(p, NewHistories(l, s)[k])
        BY <3>1, <3>2
      <4> HIDE DEF p
      <4>2. Fits(f, R, k, p)
        BY <4>1, PartOfHistory
      <4> QED BY <4>2 DEF p
    <3>4. cs \in [Subs -> Seq(Nat)]
      BY <3>1, <3>2
    <3>5. /\ \A k \in Subs : f.subs[k] \o Readable(cs[k]) \in Traces(k)
          /\ \A k \in Subs \ R : cs[k] = <<>>
      BY <3>3 DEF Fits
    <3> QED BY <1>1, <1>2, <2>3, <3>4, <3>5, GrownFile
  <2> QED BY <1>3, <2>1, <2>2, <2>3
<1>6. t \in File /\ t.msgs = g.msgs /\ t.outs = g.outs /\ t.subs = g.subs /\ t.rev = g.rev
  BY <1>3, <1>5 DEF HasFile, File
<1> QED BY <1>5, <1>6, SameRecords

\* One frame is appended.
LEMMA FrameOutcome ==
    ASSUME NEW l, NEW f, NEW s, NEW c, NEW R, NEW K, NEW e \in Frame(l, f, s),
           Writable(s, f, c, R), Tracked(K, s), HasCursor(l, R), Appends(l, f, s, K)
    PROVE  Outcome(e, l, f, s, c, R, K)
<1> DEFINE w == Appended(l, f, s)
           a == Advanced(l, s)
<1>1. HasFile(w, c, R) /\ Complete(w, s) /\ HasCursor(a, R) /\ Follows(a, w, K)
  BY WholeFrame
<1>2. HasFile(f, c, R) /\ Grows(f, f)
  BY GrowsSelf DEF Writable
<1>3. ~f.torn /\ Follows(l, f, K)
  BY DEF Appends, Follows
<1>4. Extended(f, w) = w /\ \A g : Extended(f, g) = g
  BY <1>3 DEF Extended
<1>5. \/ e = Ended(w, a, FALSE)
      \/ faults # MaxFaults /\ e = Ended(f, l, TRUE)
      \/ faults # MaxFaults /\ e = Ended(w, Stale(l), TRUE)
      \/ faults # MaxFaults /\ \E g \in Torn(l, f, s) : e = Ended(g, Stale(l), TRUE)
  BY <1>4 DEF Frame
<1> HIDE DEF w, a
<1>6. CASE e = Ended(w, a, FALSE)
  <2>1. e.file = w /\ e.log = a /\ e.err = FALSE /\ e = Ended(e.file, e.log, e.err)
    BY <1>6 DEF Ended
  <2> QED BY <1>1, <2>1 DEF Outcome
<1>7. CASE faults # MaxFaults /\ e = Ended(f, l, TRUE)
  <2>1. e.file = f /\ e.log = l /\ e.err = TRUE /\ e = Ended(e.file, e.log, e.err)
    BY <1>7 DEF Ended
  <2> QED BY <1>2, <1>3, <1>7, <2>1 DEF Outcome
<1>8. CASE faults # MaxFaults /\ e = Ended(w, Stale(l), TRUE)
  <2>1. e.file = w /\ e.log = Stale(l) /\ e.err = TRUE /\ e = Ended(e.file, e.log, e.err)
    BY <1>8 DEF Ended
  <2>2. HasCursor(Stale(l), R) /\ Follows(Stale(l), w, K) /\ ~Stale(l).fresh
    BY StaleCursor
  <2> QED BY <1>1, <1>8, <2>1, <2>2 DEF Outcome
<1>9. ASSUME faults # MaxFaults, NEW g \in Torn(l, f, s), e = Ended(g, Stale(l), TRUE)
      PROVE  Outcome(e, l, f, s, c, R, K)
  <2>1. e.file = g /\ e.log = Stale(l) /\ e.err = TRUE /\ e = Ended(e.file, e.log, e.err)
    BY <1>9 DEF Ended
  <2>2. HasCursor(Stale(l), R) /\ Follows(Stale(l), g, K) /\ ~Stale(l).fresh
    BY StaleCursor
  <2>3. HasFile(g, c, R) /\ Grows(g, f)
    BY TornFrame
  <2> QED BY <1>9, <2>1, <2>2, <2>3 DEF Outcome
<1> QED BY <1>5, <1>6, <1>7, <1>8, <1>9

\* A cursor that has nothing to append has the whole snapshot in its file.
LEMMA NothingToAppend ==
    ASSUME NEW l, NEW f, NEW s, NEW c, NEW R, NEW K,
           Writable(s, f, c, R), Tracked(K, s), HasCursor(l, R), Appends(l, f, s, K),
           NothingNew(l, s), l.rev = s.rev
    PROVE  Complete(f, s)
<1>1. Readable(s.msgs) = f.msgs \o Readable(NewMessages(l, s))
      /\ \A k \in Subs : Continues(f, s, k, NewHistories(l, s)[k])
  BY NewParts
<1>2. NewMessages(l, s) = <<>> /\ NewOutputs(l, s) = {} /\ \A k \in Subs : NewHistories(l, s)[k] = <<>>
  BY DEF NothingNew, NoHistory
<1>3. f.msgs \in Seq(1..c) /\ \A k \in Subs : f.subs[k] \in Seq(Nat)
  BY DEF Writable, HasFile, File
<1>4. f.msgs = Readable(s.msgs)
  <2>1. f.msgs \o <<>> = f.msgs
    BY <1>3
  <2> QED BY <1>1, <1>2, <2>1, ReadableEmpty
<1>5. \A k \in Resident(s) : Present(f, k) /\ (k \notin Big => f.subs[k] = Readable(s.subs[k]))
  <2> TAKE k \in Resident(s)
  <2>1. k \in Subs /\ s.subs[k] # <<>> /\ s.subs[k] \in Kinds(k)
    BY DEF Resident, Writable, HasSession
  <2>2. f.subs[k] \o <<>> = f.subs[k]
    BY <1>3, <2>1
  <2>3. k \notin Big => f.subs[k] = Readable(s.subs[k])
    BY <1>1, <1>2, <2>1, <2>2, ReadableEmpty DEF Continues
  <2>4. k \in Big => Present(f, k)
    BY <1>1, <1>2, <2>1, <2>2, ReadableEmpty DEF Continues, Present
  <2> QED BY <2>1, <2>3, <2>4, HistoryValues DEF Present
<1>6. f.outs = (s.outs \cup s.evOuts) \ Big
  BY <1>2 DEF NewOutputs, Appends, Follows, CursorAhead, Writable, OnFile
<1>7. f.rev = s.rev /\ \A k \in s.evSubs : Present(f, k)
  BY DEF Appends, Follows, Writable, OnFile
<1> QED BY <1>4, <1>5, <1>6, <1>7 DEF Complete

\* append, or compact when the cursor is ahead.
LEMMA AppendOutcome ==
    ASSUME NEW l, NEW f, NEW s, NEW c, NEW R, NEW K, NEW e \in AppendOrCompact(l, f, s),
           Writable(s, f, c, R), Tracked(K, s), HasCursor(l, R), Follows(l, f, K), l.fresh
    PROVE  Outcome(e, l, f, s, c, R, K)
<1>1. HasFile(f, c, R) /\ Grows(f, f)
  BY GrowsSelf DEF Writable
<1>2. CASE s.title # l.title \/ ~IsPrefix(l.msgs, s.msgs) \/ CursorAhead(l, s) \/ l.frames >= MaxFrames
  <2>1. e \in Rewrite(l, f, s)
    BY <1>2 DEF AppendOrCompact
  <2> QED BY <2>1, RewriteOutcome
<1>3. CASE ~(s.title # l.title \/ ~IsPrefix(l.msgs, s.msgs) \/ CursorAhead(l, s) \/ l.frames >= MaxFrames)
  <2>1. Appends(l, f, s, K)
    BY <1>3 DEF Appends
  <2>2. CASE NothingNew(l, s) /\ l.rev = s.rev
    <3>1. e = Ended(f, l, FALSE)
      BY <1>3, <2>2 DEF AppendOrCompact
    <3>2. e.file = f /\ e.log = l /\ e.err = FALSE /\ e = Ended(e.file, e.log, e.err)
      BY <3>1 DEF Ended
    <3>3. Complete(f, s)
      BY <2>1, <2>2, NothingToAppend
    <3> QED BY <1>1, <3>2, <3>3 DEF Outcome
  <2>3. CASE ~(NothingNew(l, s) /\ l.rev = s.rev)
    <3>1. e \in Frame(l, f, s)
      BY <1>3, <2>3 DEF AppendOrCompact
    <3> QED BY <2>1, <3>1, FrameOutcome
  <2> QED BY <2>2, <2>3
<1> QED BY <1>2, <1>3

\* compact.
LEMMA CompactOutcome ==
    ASSUME NEW l, NEW f, NEW s, NEW c, NEW R, NEW K, NEW e \in Compact(l, f, s),
           Writable(s, f, c, R), Tracked(K, s), HasCursor(l, R), Follows(l, f, K), l.fresh
    PROVE  Outcome(e, l, f, s, c, R, K) /\ (e.file = f \/ Complete(e.file, s))
<1>1. e \in Rewrite(l, f, s)
  BY DEF Compact
<1> QED BY <1>1, RewriteOutcome

\* A log that is not current is not written to.
LEMMA StaleOutcome ==
    ASSUME NEW l, NEW f, NEW s, NEW c, NEW R, NEW K, NEW e,
           e \in Compact(l, f, s) \/ e \in AppendOrCompact(l, f, s),
           Writable(s, f, c, R), HasCursor(l, R), ~l.fresh, l # NoLog
    PROVE  Outcome(e, l, f, s, c, R, K)
<1>1. e = Ended(f, l, TRUE)
  BY DEF Compact, AppendOrCompact
<1>2. e.file = f /\ e.log = l /\ e.err = TRUE /\ e = Ended(e.file, e.log, e.err)
  BY <1>1 DEF Ended
<1>3. HasFile(f, c, R) /\ Grows(f, f)
  BY GrowsSelf DEF Writable
<1>4. Follows(l, f, K)
  BY DEF Follows
<1> QED BY <1>2, <1>3, <1>4 DEF Outcome

\* Everything that is read from a file is on it.
LEMMA DiskWritable ==
    ASSUME NEW f, NEW c, NEW R, HasFile(f, c, R), c \in 0..MaxMessages,
           R \subseteq Subs \cup Nested, f.rev \in Nat
    PROVE  Writable(OnDisk(f), f, c, R)
<1> DEFINE s == OnDisk(f)
           D == {k \in Subs : f.subs[k] # <<>>}
<1>1. f \in File
  BY DEF HasFile
<1>2. /\ s.msgs = f.msgs /\ s.outs = {} /\ s.subs = NoHistory /\ s.evOuts = f.outs
      /\ s.evSubs = D /\ s.title = f.title /\ s.rev = f.rev
      /\ s = [msgs |-> s.msgs, outs |-> s.outs, subs |-> s.subs, evOuts |-> s.evOuts,
              evSubs |-> s.evSubs, title |-> s.title, rev |-> s.rev]
  BY DEF OnDisk, Resident
<1>3. f.msgs \in Seq(Messages) /\ f.outs \in SUBSET Outputs /\ f.title \in BOOLEAN /\ D \in SUBSET Subs
  BY <1>1 DEF File
<1>4. NoHistory \in [Subs -> Seq(Nat)] /\ \A k \in Subs : NoHistory[k] = <<>>
  BY DEF NoHistory
<1> HIDE DEF s
<1>5. s.title \in BOOLEAN
  BY <1>2, <1>3, Zenon
<1>6. s \in Session
  BY <1>2, <1>3, <1>4, <1>5 DEF Session
<1>7. D \subseteq R
  BY DEF HasFile
<1>8. HasSession(s, c, R)
  <2>1. \A k \in Subs : <<>> \in Kinds(k)
    BY HistoryValues
  <2> QED BY <1>2, <1>4, <1>6, <1>7, <2>1 DEF HasSession, HasFile
<1>9. OnFile(s, f)
  BY <1>2 DEF OnFile, Present
<1> QED BY <1>2, <1>8, <1>9 DEF Writable, s

\* Two files with the same records.
SameFile(g, f) == g.msgs = f.msgs /\ g.outs = f.outs /\ g.subs = f.subs /\ g.rev = f.rev

\* A cursor that was made for a file.
Current(l, f, R) == l.fresh /\ HasCursor(l, R) /\ Follows(l, f, Subs)

\* To open the log leaves the records, and a cursor that describes the file.
LEMMA OpenOutcome ==
    ASSUME NEW f, NEW c, NEW R, NEW e \in OpenCursor(f), HasFile(f, c, R), c \in 0..MaxMessages,
           R \subseteq Subs \cup Nested, f.rev \in Nat
    PROVE  /\ e = Ended(e.file, e.log, e.err) /\ e.err \in BOOLEAN
           /\ e.err => faults # MaxFaults
           /\ HasFile(e.file, c, R) /\ SameFile(e.file, f)
           /\ ~e.err => Current(e.log, e.file, R)
<1> DEFINE s == OnDisk(f)
           counts == [k \in Subs |-> Len(f.subs[k])]
           D == {k \in Subs : f.subs[k] # <<>>}
<1>1. Writable(s, f, c, R)
  BY DiskWritable
<1>2. /\ s.msgs = f.msgs /\ s.outs = {} /\ s.subs = NoHistory /\ s.evOuts = f.outs
      /\ s.evSubs = D /\ s.title = f.title /\ s.rev = f.rev
  BY DEF OnDisk, Resident
<1>3. f \in File /\ Readable(f.msgs) = f.msgs /\ f.outs \cap Big = {} /\ f.subs \in [Subs -> Seq(Nat)]
  BY DEF HasFile, File
<1>4. \A k \in Subs : /\ counts[k] = Len(f.subs[k]) /\ counts[k] \in Nat
                      /\ k \notin R => counts[k] = 0
                      /\ \/ counts[k] = 0 /\ f.subs[k] = <<>>
                         \/ k \in Big /\ f.subs[k] # <<>>
                         \/ counts[k] = 1 /\ f.subs[k] = <<k>>
                         \/ counts[k] = 2 /\ f.subs[k] = Readable(History(k))
  <2> TAKE k \in Subs
  <2>1. f.subs[k] \in Seq(Nat) /\ (k \notin R => f.subs[k] = <<>>) /\ k \in Nat
    BY <1>3, LogAssumption DEF HasFile
  <2>3. Len(<<>>) = 0 /\ Len(<<k>>) = 1 /\ Len(<<k, k + 1>>) = 2
    BY <2>1, HistoryParts
  <2>4. counts[k] = Len(f.subs[k]) /\ Len(f.subs[k]) \in Nat
    BY <2>1
  <2> HIDE DEF counts
  <2>5. CASE f.subs[k] = <<>>
    BY <2>3, <2>4, <2>5
  <2>6. CASE f.subs[k] # <<>> /\ k \in Big
    BY <2>1, <2>4, <2>6
  <2>7. CASE f.subs[k] # <<>> /\ k \notin Big
    <3>1. f.subs[k] \in {<<k>>, Readable(History(k))}
      BY <2>7 DEF HasFile, Traces
    <3>2. Readable(History(k)) = IF k + 1 \in Big THEN <<k>> ELSE <<k, k + 1>>
      BY <2>7, ReadableHistory
    <3>3. CASE f.subs[k] = <<k>>
      BY <2>1, <2>3, <2>4, <2>7, <3>3
    <3>4. CASE f.subs[k] = <<k, k + 1>> /\ Readable(History(k)) = <<k, k + 1>>
      BY <2>1, <2>3, <2>4, <2>7, <3>4
    <3> QED BY <3>1, <3>2, <3>3, <3>4
  <2> QED BY <2>5, <2>6, <2>7
<1>5. counts \in [Subs -> Nat]
  BY <1>4
<1> HIDE DEF s, counts
<1>6. ASSUME NEW n \in Nat, NEW g, SameFile(g, f), ~g.torn
      PROVE  Current([CursorFrom(s, n) EXCEPT !.subs = counts], g, R)
  <2> DEFINE d == [CursorFrom(s, n) EXCEPT !.subs = counts]
             b == CursorFrom(s, n)
  <2>0. /\ b.fresh = TRUE /\ b.msgs = f.msgs /\ b.outs = f.outs /\ b.frames = n
        /\ b.title = f.title /\ b.rev = f.rev
        /\ b = [fresh |-> b.fresh, msgs |-> b.msgs, outs |-> b.outs, subs |-> b.subs,
                frames |-> b.frames, title |-> b.title, rev |-> b.rev]
    BY <1>2 DEF CursorFrom
  <2> HIDE DEF b
  <2>1. /\ d.fresh = TRUE /\ d.msgs = f.msgs /\ d.outs = f.outs /\ d.subs = counts /\ d.frames = n
        /\ d.title = f.title /\ d.rev = f.rev
        /\ d = [fresh |-> d.fresh, msgs |-> d.msgs, outs |-> d.outs, subs |-> d.subs,
                frames |-> d.frames, title |-> d.title, rev |-> d.rev]
    BY <2>0 DEF b
  <2>2. f.msgs \in Seq(Messages) /\ f.outs \in SUBSET Outputs /\ f.title \in BOOLEAN /\ f.rev \in Int
    BY <1>3 DEF File
  <2> HIDE DEF d
  <2>3. d.title \in BOOLEAN /\ d.fresh \in BOOLEAN
    BY <2>1, <2>2, Zenon
  <2>4. d \in Cursor
    BY <1>5, <2>1, <2>2, <2>3 DEF Cursor
  <2>5. HasCursor(d, R)
    BY <1>4, <2>1, <2>4 DEF HasCursor
  <2>6. \A k \in Subs : Aligned(d, g, k)
    <3> TAKE k \in Subs
    <3>1. d.subs[k] = counts[k] /\ g.subs[k] = f.subs[k]
      BY <1>6, <2>1 DEF SameFile
    <3>2. k \in Big => Aligned(d, g, k)
      BY <1>4, <3>1 DEF Aligned, Present
    <3>3. k \notin Big => Aligned(d, g, k)
      BY <1>4, <3>1 DEF Aligned
    <3> QED BY <3>2, <3>3
  <2>7. Exists(g)
    BY <1>6 DEF Exists, SameFile
  <2>8. Follows(d, g, Subs)
    BY <1>3, <1>6, <2>1, <2>6, <2>7 DEF Follows, SameFile
  <2> QED BY <2>1, <2>5, <2>8 DEF d, b, Current
<1>7. CASE ~f.torn
  <2> DEFINE d == [CursorFrom(s, f.frames) EXCEPT !.subs = counts]
  <2>1. e = Ended(f, d, FALSE)
    BY <1>7 DEF OpenCursor, counts, s
  <2>2. f.frames \in Nat /\ SameFile(f, f)
    BY <1>3 DEF File, SameFile
  <2>3. Current(d, f, R)
    BY <1>6, <1>7, <2>2
  <2> HIDE DEF d
  <2>4. e.file = f /\ e.log = d /\ e.err = FALSE /\ e = Ended(e.file, e.log, e.err)
    BY <2>1 DEF Ended
  <2> QED BY <2>2, <2>3, <2>4
<1>8. CASE f.torn
  <2> DEFINE g == FullSession(s, f)
             d == [CursorFrom(s, 0) EXCEPT !.subs = counts]
  <2>1. PICK b \in Rewrite(NoLog, f, s) : e = [b EXCEPT !.log.subs = counts]
    BY <1>8 DEF OpenCursor, counts, s
  <2>2. HasFile(g, c, R) /\ ~g.torn
    BY <1>1, RewriteFile
  <2>3. SameFile(g, f)
    <3>1. g.msgs = Readable(s.msgs) /\ g.rev = s.rev
          /\ g.outs = ((s.outs \ s.evOuts) \ Big) \cup (f.outs \cap s.evOuts)
          /\ g.subs = [k \in Subs |-> IF k \in s.evSubs THEN f.subs[k] ELSE Readable(s.subs[k])]
      BY DEF FullSession
    <3>2. \A k \in Subs : g.subs[k] = f.subs[k]
      <4> TAKE k \in Subs
      <4>1. k \notin D => f.subs[k] = <<>> /\ s.subs[k] = <<>>
        BY <1>2 DEF NoHistory
      <4> QED BY <1>2, <3>1, <4>1, ReadableEmpty
    <3>3. g.subs = f.subs
      BY <1>3, <3>1, <3>2
    <3> HIDE DEF g
    <3> QED BY <1>2, <1>3, <3>1, <3>3 DEF SameFile
  <2>4. Current(d, g, R)
    BY <1>6, <2>2, <2>3
  <2>5. \/ b = Ended(g, CursorFrom(s, 0), FALSE)
        \/ faults # MaxFaults /\ b = Ended(f, NoLog, TRUE)
        \/ faults # MaxFaults /\ b = Ended(g, Stale(NoLog), TRUE)
        \/ faults # MaxFaults /\ b = Ended(g, CursorFrom(s, 0), TRUE)
    BY <2>1 DEF Rewrite
  <2>6. SameFile(f, f)
    BY DEF SameFile
  <2>7. CASE b = Ended(g, CursorFrom(s, 0), FALSE)
    <3>1. e = Ended(g, d, FALSE)
      BY <2>1, <2>7 DEF Ended
    <3> HIDE DEF d, g
    <3>2. e.file = g /\ e.log = d /\ e.err = FALSE /\ e = Ended(e.file, e.log, e.err)
      BY <3>1 DEF Ended
    <3> QED BY <2>2, <2>3, <2>4, <3>2
  <2>8. ASSUME NEW x \in {f, g}, NEW y, b = Ended(x, y, TRUE)
        PROVE  /\ e = Ended(e.file, e.log, e.err) /\ e.err = TRUE
               /\ e.file \in {f, g}
    <3> DEFINE z == [y EXCEPT !.subs = counts]
    <3>1. e = Ended(x, z, TRUE)
      BY <2>1, <2>8 DEF Ended
    <3> HIDE DEF d, g, z
    <3>2. e.file = x /\ e.log = z /\ e.err = TRUE
      BY <3>1 DEF Ended
    <3> QED BY <2>8, <3>1, <3>2
  <2>9. \/ b = Ended(g, CursorFrom(s, 0), FALSE)
        \/ faults # MaxFaults /\ e = Ended(e.file, e.log, e.err) /\ e.err = TRUE /\ e.file \in {f, g}
    <3> DEFINE y1 == NoLog
               y2 == Stale(NoLog)
               y3 == CursorFrom(s, 0)
    <3>1. f \in {f, g} /\ g \in {f, g}
      OBVIOUS
    <3> HIDE DEF g, y1, y2, y3
    <3>2. \/ b = Ended(g, y3, FALSE)
          \/ faults # MaxFaults /\ b = Ended(f, y1, TRUE)
          \/ faults # MaxFaults /\ b = Ended(g, y2, TRUE)
          \/ faults # MaxFaults /\ b = Ended(g, y3, TRUE)
      BY <2>5 DEF y1, y2, y3
    <3> QED BY <2>8, <3>1, <3>2 DEF y3
  <2> HIDE DEF d, g
  <2> QED BY <2>2, <2>3, <2>6, <2>7, <2>9
<1> QED BY <1>7, <1>8

\* A file with the same records takes what the other one took, and grows as it does.
LEMMA SameFileGrows ==
    ASSUME NEW g, NEW f, SameFile(g, f)
    PROVE  /\ \A s, c, R : Writable(s, f, c, R) /\ HasFile(g, c, R) => Writable(s, g, c, R)
           /\ \A h : Grows(h, g) => Grows(h, f)
           /\ \A c, R : HasFile(g, c, R) => Grows(g, f)
<1>1. ASSUME NEW s, NEW c, NEW R, Writable(s, f, c, R), HasFile(g, c, R)
      PROVE  Writable(s, g, c, R)
  BY <1>1 DEF Writable, OnFile, SameFile, Present
<1>2. ASSUME NEW h, Grows(h, g)
      PROVE  Grows(h, f)
  BY <1>2 DEF Grows, SameFile
<1>3. ASSUME NEW c, NEW R, HasFile(g, c, R)
      PROVE  Grows(g, f)
  <2>1. Grows(g, g)
    BY <1>3, GrowsSelf
  <2> QED BY <1>2, <2>1
<1> QED BY <1>1, <1>2, <1>3

\* A log that was opened for a write is kept when the write succeeds.
LEMMA KeptOutcome ==
    ASSUME NEW e, NEW l, NEW g, NEW f, NEW s, NEW c, NEW R, NEW K, NEW k,
           Outcome(e, l, g, s, c, R, K), l.fresh \/ l = NoLog,
           Grows(e.file, f) \/ Complete(e.file, s),
           k = IF e.err THEN [e EXCEPT !.log = NoLog] ELSE e
    PROVE  Outcome(k, NoLog, f, s, c, R, K) /\ k.err = e.err
<1>1. CASE e.err
  <2>1. e = Ended(e.file, e.log, e.err) /\ HasFile(e.file, c, R) /\ faults # MaxFaults /\ e.err \in BOOLEAN
    BY <1>1 DEF Outcome
  <2>2. k = [e EXCEPT !.log = NoLog]
    BY <1>1
  <2> DEFINE h == e.file
             r == e.err
  <2>4. e = Ended(h, e.log, r)
    BY <2>1
  <2> HIDE DEF h, r
  <2>3. k.file = h /\ k.log = NoLog /\ k.err = r /\ k = Ended(k.file, k.log, k.err)
    BY <2>2, <2>4 DEF Ended
  <2>5. HasCursor(NoLog, R) /\ Follows(NoLog, h, K) /\ ~NoLog.fresh
    BY NoCursor
  <2> QED BY <1>1, <2>1, <2>3, <2>5 DEF Outcome, h, r
<1>2. CASE ~e.err
  <2>1. k = e
    BY <1>2
  <2> QED BY <1>2, <2>1 DEF Outcome
<1> QED BY <1>1, <1>2

\* write_session with a snapshot that is not older than the file.
LEMMA WriteOutcome ==
    ASSUME NEW s, NEW c, NEW R, NEW K, NEW x \in WriteSession(s),
           Writable(s, file, c, R), Tracked(K, s), HasCursor(log, R), Follows(log, file, K),
           durable \in Int, durable <= file.rev, file.rev <= s.rev,
           file.rev \in Nat \cup {-1}
    PROVE  Outcome(x.e, log, file, s, c, R, K) /\ x.wrote = ~x.e.err
<1> DEFINE Wrote(es) == {[e |-> e, wrote |-> ~e.err] : e \in es}
           Opened(e) ==
            IF e.err THEN {[e |-> [e EXCEPT !.log = NoLog], wrote |-> FALSE]}
            ELSE IF e.file.rev > s.rev
                 THEN {[e |-> [e EXCEPT !.log = NoLog], wrote |-> FALSE]}
                 ELSE Wrote(Kept(IF e.file.rev = s.rev THEN Compact(e.log, e.file, s)
                                 ELSE AppendOrCompact(e.log, e.file, s)))
<1>1. HasFile(file, c, R) /\ s.rev \in Nat /\ c \in 0..MaxMessages /\ R \subseteq Subs \cup Nested
  BY DEF Writable
<1>2. ~(durable > s.rev)
  BY <1>1
<1>3. CASE log # NoLog
  <2>1. PICK e : /\ e \in Compact(log, file, s) \/ e \in AppendOrCompact(log, file, s)
                 /\ x = [e |-> e, wrote |-> ~e.err]
    BY <1>2, <1>3 DEF WriteSession
  <2>2. x.e = e /\ x.wrote = ~e.err
    BY <2>1
  <2>3. CASE log.fresh
    BY <2>1, <2>2, <2>3, CompactOutcome, AppendOutcome
  <2>4. CASE ~log.fresh
    BY <1>3, <2>1, <2>2, <2>4, StaleOutcome
  <2> QED BY <2>3, <2>4
\* An opened log.
<1>4. ASSUME NEW e, NEW g, NEW l, NEW y \in Opened(e), log = NoLog,
             e = Ended(g, l, FALSE), Writable(s, g, c, R), g.rev <= s.rev,
             l.fresh, HasCursor(l, R), Follows(l, g, K),
             \/ \A h : Grows(h, g) => Grows(h, file)
             \/ Complete(g, s)
      PROVE  Outcome(y.e, log, file, s, c, R, K) /\ y.wrote = ~y.e.err
  <2>1. e.file = g /\ e.log = l /\ e.err = FALSE
    BY <1>4 DEF Ended
  <2>2. g.rev \in Int
    BY <1>4 DEF Writable, HasFile, File
  <2>3. ~(g.rev > s.rev)
    BY <1>1, <1>4, <2>2
  <2>4. PICK d : /\ IF g.rev = s.rev THEN d \in Compact(l, g, s) ELSE d \in AppendOrCompact(l, g, s)
                 /\ y = [e |-> IF d.err THEN [d EXCEPT !.log = NoLog] ELSE d,
                         wrote |-> ~(IF d.err THEN [d EXCEPT !.log = NoLog] ELSE d).err]
    BY <2>1, <2>3 DEF Kept
  <2> DEFINE k == IF d.err THEN [d EXCEPT !.log = NoLog] ELSE d
  <2>5. y.e = k /\ y.wrote = ~k.err
    BY <2>4
  <2>6. Outcome(d, l, g, s, c, R, K)
    BY <1>4, <2>4, CompactOutcome, AppendOutcome
  <2>7. Grows(d.file, file) \/ Complete(d.file, s)
    <3>1. CASE \A h : Grows(h, g) => Grows(h, file)
      BY <2>6, <3>1 DEF Outcome
    <3>2. CASE Complete(g, s)
      <4>1. d \in Compact(l, g, s)
        BY <2>4, <3>2 DEF Complete
      <4> QED BY <1>4, <3>2, <4>1, CompactOutcome
    <3> QED BY <1>4, <3>1, <3>2
  <2>8. Outcome(k, NoLog, file, s, c, R, K)
    BY <1>4, <2>6, <2>7, KeptOutcome
  <2> HIDE DEF k
  <2> QED BY <1>4, <2>5, <2>8
\* A log that could not be opened.
<1>5. ASSUME NEW e, NEW y \in Opened(e), log = NoLog, e = Ended(e.file, e.log, e.err), e.err = TRUE,
             faults # MaxFaults,
             HasFile(e.file, c, R), Grows(e.file, file) \/ Complete(e.file, s)
      PROVE  Outcome(y.e, log, file, s, c, R, K) /\ y.wrote = ~y.e.err
  <2> DEFINE g == e.file
             m == e.log
             d == [e EXCEPT !.log = NoLog]
  <2>1. y.e = d /\ y.wrote = FALSE
    BY <1>5
  <2>2. e = Ended(g, m, TRUE)
    BY <1>5
  <2>3. d = [e EXCEPT !.log = NoLog]
    OBVIOUS
  <2> HIDE DEF g, m, d
  <2>5. d.file = g /\ d.log = NoLog /\ d.err = TRUE /\ d = Ended(d.file, d.log, d.err)
    BY <2>2, <2>3 DEF Ended
  <2>6. HasCursor(NoLog, R) /\ Follows(NoLog, g, K) /\ ~NoLog.fresh
    BY NoCursor
  <2>7. HasFile(g, c, R) /\ (Grows(g, file) \/ Complete(g, s))
    BY <1>5 DEF g
  <2>8. Outcome(d, NoLog, file, s, c, R, K)
    BY <1>5, <2>5, <2>6, <2>7 DEF Outcome
  <2> QED BY <1>5, <2>1, <2>5, <2>8
<1>6. CASE log = NoLog /\ Exists(file)
  <2>1. PICK e \in OpenCursor(file) : x \in Opened(e)
    BY <1>2, <1>6 DEF WriteSession
  <2>2. file.rev \in Nat
    BY <1>6 DEF Exists
  <2>3. /\ e = Ended(e.file, e.log, e.err) /\ e.err \in BOOLEAN
        /\ e.err => faults # MaxFaults
        /\ HasFile(e.file, c, R) /\ SameFile(e.file, file)
        /\ ~e.err => Current(e.log, e.file, R)
    BY <1>1, <2>1, <2>2, OpenOutcome
  <2> DEFINE g == e.file
             l == e.log
  <2>4. Writable(s, g, c, R) /\ (\A h : Grows(h, g) => Grows(h, file)) /\ Grows(g, file)
    BY <2>3, SameFileGrows
  <2>5. g.rev <= s.rev
    BY <2>3 DEF SameFile
  <2>6. CASE e.err
    <3>1. e.err = TRUE
      BY <2>3, <2>6
    <3> HIDE DEF Opened
    <3> QED BY <1>5, <1>6, <2>1, <2>3, <2>4, <3>1
  <2>7. CASE ~e.err
    <3>1. e = Ended(g, l, FALSE)
      BY <2>3, <2>7
    <3>2. l.fresh /\ HasCursor(l, R) /\ Follows(l, g, K)
      BY <2>3, <2>7 DEF Current, Follows, Tracked
    <3> HIDE DEF g, l, Opened
    <3> QED BY <1>4, <1>6, <2>1, <2>4, <2>5, <3>1, <3>2
  <2> QED BY <2>6, <2>7
<1>7. CASE log = NoLog /\ ~Exists(file)
  <2>1. PICK e \in Rewrite(NoLog, file, s) : x \in Opened(e)
    BY <1>2, <1>7 DEF WriteSession
  <2>2. /\ Outcome(e, NoLog, file, s, c, R, K)
        /\ ~e.err => e.log = CursorFrom(s, 0) /\ e.file = FullSession(s, file)
    <3>1. HasCursor(NoLog, R) /\ Follows(NoLog, file, K)
      BY NoCursor
    <3> QED BY <2>1, <3>1, RewriteOutcome
  <2>3. CASE e.err
    <3>1. /\ e = Ended(e.file, e.log, e.err) /\ e.err = TRUE /\ faults # MaxFaults
          /\ HasFile(e.file, c, R) /\ (Grows(e.file, file) \/ Complete(e.file, s))
      BY <2>2, <2>3 DEF Outcome
    <3> HIDE DEF Opened
    <3> QED BY <1>5, <1>7, <2>1, <3>1
  <2>4. CASE ~e.err
    <3> DEFINE g == e.file
               l == e.log
    <3>1. e = Ended(g, l, FALSE) /\ HasCursor(l, R) /\ Follows(l, g, K) /\ Complete(g, s)
          /\ HasFile(g, c, R)
      BY <2>2, <2>4 DEF Outcome
    <3>2. l.fresh
      BY <2>2, <2>4 DEF CursorFrom
    <3> HIDE DEF g, l, Opened
    <3>3. OnFile(s, g) /\ g.rev <= s.rev
      BY <1>1, <3>1 DEF Complete, OnFile
    <3>4. Writable(s, g, c, R)
      BY <3>1, <3>3 DEF Writable
    <3> QED BY <1>4, <1>7, <2>1, <3>1, <3>2, <3>3, <3>4
  <2> QED BY <2>3, <2>4
<1> QED BY <1>3, <1>6, <1>7

-----------------------------------------------------------------------------
(* The steps of the live session.                                          *)

Bounds ==
    /\ up \in BOOLEAN /\ dirty \in BOOLEAN /\ clock \in 0..MaxMessages
    /\ ran \subseteq Subs \cup Nested /\ launch \in [Subs -> 0..MaxMessages]
    /\ durable \in -1..MaxRevision /\ faults \in 0..MaxFaults

IInv == Bounds /\ LogInv

\* As time goes on, what is a session, a file or a cursor stays one.
LEMMA Growth ==
    ASSUME NEW c \in 0..MaxMessages, NEW d \in 0..MaxMessages, c <= d, NEW R, NEW Q, R \subseteq Q
    PROVE  /\ \A s : HasSession(s, c, R) => HasSession(s, d, Q)
           /\ \A f : HasFile(f, c, R) => HasFile(f, d, Q)
           /\ \A l : HasCursor(l, R) => HasCursor(l, Q)
<1>1. 1..c \subseteq 1..d
  BY LogAssumption
<1>2. \A ms \in Seq(1..c) : ms \in Seq(1..d)
  BY <1>1, SequenceWiden
<1>3. ASSUME NEW s, HasSession(s, c, R)
      PROVE  HasSession(s, d, Q)
  <2>1. s.msgs \in Seq(1..d)
    BY <1>2, <1>3 DEF HasSession
  <2>2. s.outs \cup s.evOuts \subseteq (1..d) \cup Q
    BY <1>1, <1>3 DEF HasSession
  <2> QED BY <1>3, <2>1, <2>2 DEF HasSession
<1>4. ASSUME NEW f, HasFile(f, c, R)
      PROVE  HasFile(f, d, Q)
  <2>1. f.msgs \in Seq(1..d)
    BY <1>2, <1>4 DEF HasFile
  <2>2. f.outs \subseteq (1..d) \cup Q
    BY <1>1, <1>4 DEF HasFile
  <2> QED BY <1>4, <2>1, <2>2 DEF HasFile
<1>5. ASSUME NEW l, HasCursor(l, R)
      PROVE  HasCursor(l, Q)
  BY <1>5 DEF HasCursor
<1> QED BY <1>3, <1>4, <1>5

\* The messages of a session that is extended or truncated.
LEMMA MessageSets ==
    ASSUME NEW S, NEW q \in Seq(S)
    PROVE  /\ ToSet(q) \subseteq S
           /\ \A m \in S : ToSet(Append(q, m)) \subseteq ToSet(q) \cup {m}
           /\ \A n \in 0..Len(q) : ToSet(SubSeq(q, 1, n)) \subseteq ToSet(q)
           /\ q # <<>> => Last(q) \in S
<1>1. ToSet(q) \subseteq S
  BY DEF ToSet
<1>2. ASSUME NEW m \in S
      PROVE  ToSet(Append(q, m)) \subseteq ToSet(q) \cup {m}
  <2>1. /\ Append(q, m) \in Seq(S) /\ Len(q) \in Nat
        /\ DOMAIN q = 1..Len(q) /\ DOMAIN Append(q, m) = 1..(Len(q) + 1)
        /\ Append(q, m)[Len(q) + 1] = m
        /\ \A k \in 1..Len(q) : Append(q, m)[k] = q[k]
    BY AppendEntries
  <2>2. \A i \in 1..(Len(q) + 1) : i \in 1..Len(q) \/ i = Len(q) + 1
    BY <2>1
  <2> QED BY <2>1, <2>2, Zenon DEF ToSet
<1>3. ASSUME NEW n \in 0..Len(q)
      PROVE  ToSet(SubSeq(q, 1, n)) \subseteq ToSet(q)
  <2>1. DOMAIN SubSeq(q, 1, n) = 1..n /\ \A i \in 1..n : SubSeq(q, 1, n)[i] = q[i] /\ i \in DOMAIN q
    OBVIOUS
  <2> QED BY <2>1 DEF ToSet
<1>4. q # <<>> => Last(q) \in S
  BY DEF Last
<1> QED BY <1>1, <1>2, <1>3, <1>4

\* What a step of the live session may do: it adds messages, outputs and histories that
\* are new.
Works(s, c, R) ==
    /\ c \in 0..MaxMessages /\ clock <= c /\ ran \subseteq R /\ R \subseteq Subs \cup Nested
    /\ HasSession(s, c, R) /\ s.rev = live.rev
    /\ s.evOuts = live.evOuts /\ s.evSubs = live.evSubs /\ live.outs \subseteq s.outs
    /\ (s.outs \ live.outs) \cap ledger.outs = {}
    /\ (Resident(s) \ Resident(live)) \cap ran = {}
    /\ (ToSet(s.msgs) \ ToSet(live.msgs)) \cap ((1..clock) \cup ran) = {}

\* Such a step keeps the invariant.
LEMMA WorkingStep ==
    ASSUME IInv, up, NEW s, Works(s, clock', ran'), Working(s),
           launch' \in [Subs -> 0..MaxMessages]
    PROVE  IInv'
<1>1. /\ live' = s /\ dirty' = TRUE /\ up' = up /\ pending' = pending /\ file' = file
      /\ log' = log /\ durable' = durable /\ ledger' = ledger /\ acked' = acked /\ faults' = faults
  BY DEF Working, writer
<1>2. Bounds' /\ Bounds
  BY <1>1 DEF IInv, Bounds, Works
<1>3. /\ Shapes /\ Down /\ Revisions /\ Ledger /\ Pending /\ Positions /\ OnFile(live, file)
      /\ AckedSurvives /\ LogIsSnapshot
  BY DEF IInv, LogInv
<1>4. clock \in 0..MaxMessages /\ clock' \in 0..MaxMessages /\ clock <= clock' /\ ran \subseteq ran'
  BY <1>2 DEF Bounds, Works
<1>5. Shapes'
  <2>1. HasSession(pending, clock', ran') /\ HasSession(acked, clock', ran')
        /\ HasFile(file, clock', ran') /\ HasCursor(log, ran')
    <3> DEFINE d == clock'
               Q == ran'
    <3>1. d \in 0..MaxMessages /\ clock <= d /\ ran \subseteq Q
      BY <1>4
    <3> HIDE DEF d, Q
    <3>2. HasSession(pending, d, Q) /\ HasSession(acked, d, Q) /\ HasFile(file, d, Q)
          /\ HasCursor(log, Q)
      BY <1>3, <1>4, <3>1, Growth DEF Shapes
    <3> QED BY <3>2 DEF d, Q
  <2>2. ledger.outs \subseteq (1..clock') \cup ran' /\ ledger.subs \subseteq ran'
    BY <1>3, <1>4, LogAssumption DEF Shapes
  <2> QED BY <1>1, <1>3, <2>1, <2>2 DEF Shapes, Works
<1>6. Down'
  BY <1>1 DEF Down
<1>7. Revisions'
  BY <1>1, <1>3 DEF Revisions, Works
<1>8. Ledger'
  <2>1. (ledger.outs \cap s.outs) \ Big \subseteq file.outs
    BY <1>3 DEF Ledger, Works
  <2>2. \A k \in ledger.subs \cap Resident(s) : Present(file, k)
    BY <1>3 DEF Ledger, Works, Shapes
  <2>3. ledger.outs \cap ToSet(s.msgs) \subseteq s.outs \cup s.evOuts
    BY <1>3 DEF Ledger, Works, Shapes
  <2> QED BY <1>1, <2>1, <2>2, <2>3 DEF Ledger
<1>9. Pending'
  <2> SUFFICES ASSUME pending # NoSession
               PROVE  /\ file.rev <= pending.rev /\ 0 <= pending.rev /\ pending.rev <= s.rev
                      /\ OnFile(pending, file)
                      /\ s.evOuts \cup (ledger.outs \cap s.outs) \subseteq pending.outs \cup pending.evOuts
                      /\ s.evSubs \cup (ledger.subs \cap Resident(s))
                             \subseteq Resident(pending) \cup pending.evSubs
                      /\ pending.evSubs \cap Resident(s) = {}
                      /\ pending.outs \cap ToSet(s.msgs) \subseteq s.outs \cup s.evOuts
                      /\ pending.rev = acked.rev => pending = acked
    BY <1>1 DEF Pending
  <2>0. /\ file.rev <= pending.rev /\ 0 <= pending.rev /\ pending.rev <= live.rev
        /\ OnFile(pending, file)
        /\ live.evOuts \cup (ledger.outs \cap live.outs) \subseteq pending.outs \cup pending.evOuts
        /\ live.evSubs \cup (ledger.subs \cap Resident(live))
               \subseteq Resident(pending) \cup pending.evSubs
        /\ pending.evSubs \cap Resident(live) = {}
        /\ pending.outs \cap ToSet(live.msgs) \subseteq live.outs \cup live.evOuts
        /\ pending.rev = acked.rev => pending = acked
    BY <1>3 DEF Pending
  <2>1. s.evOuts \cup (ledger.outs \cap s.outs) \subseteq pending.outs \cup pending.evOuts
    BY <2>0 DEF Works
  <2>2. s.evSubs \cup (ledger.subs \cap Resident(s)) \subseteq Resident(pending) \cup pending.evSubs
    BY <1>3, <2>0 DEF Works, Shapes
  <2>3. pending.evSubs \cap Resident(s) = {}
    BY <1>3, <2>0 DEF Works, Shapes, HasSession
  <2>4. pending.outs \cap ToSet(s.msgs) \subseteq s.outs \cup s.evOuts
    BY <1>3, <2>0 DEF Works, Shapes, HasSession
  <2> QED BY <2>0, <2>1, <2>2, <2>3, <2>4 DEF Works
<1>10. Positions'
  <2>1. ASSUME NEW k \in Resident(s) \ Resident(live)
        PROVE  Aligned(log, file, k)
    <3>1. k \in Subs \ ran
      BY DEF Works, Resident
    <3> QED BY <1>3, <3>1 DEF Shapes, HasCursor, HasFile, Aligned
  <2> QED BY <1>1, <1>3, <2>1 DEF Positions, Follows
<1>11. OnFile(live, file)'
  BY <1>1, <1>3 DEF OnFile, Works
<1>12. AckedSurvives' /\ LogIsSnapshot'
  BY <1>1, <1>3 DEF AckedSurvives, LogIsSnapshot
<1> QED BY <1>2, <1>5, <1>6, <1>7, <1>8, <1>9, <1>10, <1>11, <1>12 DEF IInv, LogInv

\* The live session is a session, and its ended subagents and calls are no messages.
LEMMA LiveSession ==
    ASSUME IInv
    PROVE  /\ clock \in 0..MaxMessages /\ ran \subseteq Subs \cup Nested
           /\ launch \in [Subs -> 0..MaxMessages]
           /\ HasSession(live, clock, ran) /\ live \in Session /\ live.msgs \in Seq(1..clock)
           /\ ToSet(live.msgs) \subseteq 1..clock
           /\ live = [msgs |-> live.msgs, outs |-> live.outs, subs |-> live.subs,
                      evOuts |-> live.evOuts, evSubs |-> live.evSubs,
                      title |-> live.title, rev |-> live.rev]
           /\ ledger.outs \subseteq (1..clock) \cup ran /\ ledger.subs \subseteq ran
           /\ (1..MaxMessages) \cap ran = {} /\ 1..clock \subseteq Messages
<1>1. /\ clock \in 0..MaxMessages /\ ran \subseteq Subs \cup Nested
      /\ launch \in [Subs -> 0..MaxMessages]
      /\ HasSession(live, clock, ran) /\ ledger.outs \subseteq (1..clock) \cup ran
      /\ ledger.subs \subseteq ran
  BY DEF IInv, Bounds, LogInv, Shapes
<1>2. live \in Session /\ live.msgs \in Seq(1..clock)
  BY <1>1 DEF HasSession
<1>3. ToSet(live.msgs) \subseteq 1..clock
  BY <1>2, MessageSets
<1>4. (1..MaxMessages) \cap ran = {} /\ 1..clock \subseteq Messages
  BY <1>1, LogAssumption DEF Messages
<1>5. live = [msgs |-> live.msgs, outs |-> live.outs, subs |-> live.subs,
              evOuts |-> live.evOuts, evSubs |-> live.evSubs,
              title |-> live.title, rev |-> live.rev]
  BY <1>2 DEF Session
<1> QED BY <1>1, <1>2, <1>3, <1>4, <1>5

\* A message is new, so it is in no ledger and in no snapshot.
LEMMA TurnStep == IInv /\ Turn => IInv'
<1> SUFFICES ASSUME IInv, Turn PROVE IInv'
  OBVIOUS
<1> DEFINE ms == Append(live.msgs, clock + 1)
           s == [live EXCEPT !.msgs = ms]
<1>1. /\ up /\ clock < MaxMessages /\ clock' = clock + 1 /\ ran' = ran /\ launch' = launch
      /\ Working(s)
  BY DEF Turn
<1>2. /\ clock \in 0..MaxMessages /\ ran \subseteq Subs \cup Nested
      /\ HasSession(live, clock, ran) /\ live \in Session /\ live.msgs \in Seq(1..clock)
      /\ (1..MaxMessages) \cap ran = {} /\ launch \in [Subs -> 0..MaxMessages]
  BY LiveSession
<1>d. s = [live EXCEPT !.msgs = ms]
  OBVIOUS
<1> HIDE DEF ms, s
<1>r. live = [msgs |-> live.msgs, outs |-> live.outs, subs |-> live.subs,
              evOuts |-> live.evOuts, evSubs |-> live.evSubs,
              title |-> live.title, rev |-> live.rev]
  BY LiveSession
<1>3. /\ s.msgs = ms /\ s.outs = live.outs /\ s.subs = live.subs
      /\ s.evOuts = live.evOuts /\ s.evSubs = live.evSubs /\ s.rev = live.rev
      /\ s.title = live.title
      /\ s = [msgs |-> s.msgs, outs |-> s.outs, subs |-> s.subs, evOuts |-> s.evOuts,
              evSubs |-> s.evSubs, title |-> s.title, rev |-> s.rev]
  BY <1>d, <1>r
<1>4. clock + 1 \in 0..MaxMessages /\ 1..clock \subseteq 1..(clock + 1) /\ clock + 1 \in 1..(clock + 1)
      /\ 1..(clock + 1) \subseteq Messages /\ clock + 1 \notin 1..clock /\ clock + 1 \in 1..MaxMessages
  BY <1>1, <1>2, LogAssumption DEF Messages
<1>5. s.msgs \in Seq(1..(clock + 1)) /\ ToSet(s.msgs) \subseteq ToSet(live.msgs) \cup {clock + 1}
  <2>1. live.msgs \in Seq(1..(clock + 1))
    BY <1>2, <1>4, SequenceWiden
  <2> DEFINE q == live.msgs
             m == clock + 1
  <2> HIDE DEF q, m
  <2>2. q \in Seq(1..m) /\ m \in 1..m
    BY <1>4, <2>1 DEF q, m
  <2>3. Append(q, m) \in Seq(1..m) /\ ToSet(Append(q, m)) \subseteq ToSet(q) \cup {m}
    BY <2>2, MessageSets, AppendEntries
  <2> QED BY <1>3, <2>3 DEF q, m, ms
<1>6. s.msgs \in Seq(Messages)
  BY <1>4, <1>5, SequenceWiden
<1>7. s \in Session
  <2>1. live.title \in BOOLEAN /\ live.outs \in SUBSET Outputs /\ live.subs \in [Subs -> Seq(Nat)]
        /\ live.evOuts \in SUBSET Outputs /\ live.evSubs \in SUBSET Subs /\ live.rev \in Int
    BY <1>2 DEF Session
  <2>2. s.title \in BOOLEAN
    BY <1>3, <2>1, Zenon
  <2> QED BY <1>3, <1>6, <2>1, <2>2 DEF Session
<1>8. HasSession(s, clock + 1, ran)
  <2>1. s.outs \cup s.evOuts \subseteq (1..(clock + 1)) \cup ran
    BY <1>2, <1>3, <1>4 DEF HasSession
  <2> QED BY <1>2, <1>3, <1>5, <1>7, <2>1 DEF HasSession
<1>9. Resident(s) = Resident(live)
  BY <1>3 DEF Resident
<1>10. Works(s, clock', ran')
  <2>1. (ToSet(s.msgs) \ ToSet(live.msgs)) \cap ((1..clock) \cup ran) = {}
    BY <1>2, <1>4, <1>5
  <2> QED BY <1>1, <1>2, <1>3, <1>4, <1>8, <1>9, <2>1 DEF Works
<1> QED BY <1>1, <1>2, <1>10, WorkingStep

\* Of the steps that leave the messages, what they add.
LEMMA SameMessages ==
    ASSUME IInv, NEW s, NEW R, s \in Session, s.msgs = live.msgs, s.rev = live.rev,
           s.evOuts = live.evOuts, s.evSubs = live.evSubs, live.outs \subseteq s.outs,
           ran \subseteq R, R \subseteq Subs \cup Nested,
           s.outs \subseteq (1..clock) \cup R, (s.outs \ live.outs) \cap ledger.outs = {},
           \A k \in Subs : s.subs[k] # live.subs[k] => s.subs[k] = History(k) /\ k \in R \ ran
    PROVE  Works(s, clock, R)
<1>1. clock \in 0..MaxMessages /\ HasSession(live, clock, ran)
  BY LiveSession
<1>2. \A k \in Subs : /\ s.subs[k] \in Kinds(k)
                      /\ k \notin R => s.subs[k] = <<>>
                      /\ k \in ran => s.subs[k] = live.subs[k]
  BY <1>1, HistoryValues DEF HasSession
<1>3. HasSession(s, clock, R)
  <2>1. live.msgs \in Seq(1..clock) /\ live.outs \cup live.evOuts \subseteq (1..clock) \cup ran
        /\ live.evSubs \subseteq ran /\ \A k \in live.evSubs : live.subs[k] = <<>>
    BY <1>1 DEF HasSession
  <2>2. s.outs \cup s.evOuts \subseteq (1..clock) \cup R /\ s.evSubs \subseteq R
    BY <2>1
  <2>3. \A k \in s.evSubs : s.subs[k] = <<>>
    BY <1>2, <2>1 DEF Session
  <2> QED BY <1>2, <2>1, <2>2, <2>3 DEF HasSession
<1>4. (Resident(s) \ Resident(live)) \cap ran = {}
  BY <1>2 DEF Resident
<1> QED BY <1>1, <1>3, <1>4 DEF Works

\* A call that is done now was not done in any snapshot that was written.
LEMMA ToolStep == ASSUME NEW id \in Messages PROVE IInv /\ ToolDone(id) => IInv'
<1> SUFFICES ASSUME IInv, ToolDone(id) PROVE IInv'
  OBVIOUS
<1> DEFINE s == [live EXCEPT !.outs = @ \cup {id}]
<1>1. /\ up /\ clock' = clock /\ ran' = ran /\ launch' = launch /\ Working(s)
      /\ id \in ToSet(live.msgs) /\ id \notin live.outs \cup live.evOuts
  BY DEF ToolDone
<1>2. /\ live \in Session /\ ToSet(live.msgs) \subseteq 1..clock /\ ran \subseteq Subs \cup Nested
      /\ HasSession(live, clock, ran) /\ launch \in [Subs -> 0..MaxMessages]
  BY LiveSession
<1>3. s \in Session /\ s.msgs = live.msgs /\ s.outs = live.outs \cup {id} /\ s.subs = live.subs
      /\ s.evOuts = live.evOuts /\ s.evSubs = live.evSubs /\ s.rev = live.rev
  BY <1>2 DEF Session, Outputs
<1>4. id \notin ledger.outs
  BY <1>1 DEF IInv, LogInv, Ledger
<1>5. s.outs \subseteq (1..clock) \cup ran
  BY <1>1, <1>2, <1>3 DEF HasSession
<1> HIDE DEF s
<1>6. Works(s, clock, ran)
  BY <1>2, <1>3, <1>4, <1>5, SameMessages
<1>7. Works(s, clock', ran')
  BY <1>1, <1>6
<1> QED BY <1>1, <1>2, <1>7, WorkingStep

\* So for a call of a subagent.
LEMMA NestedStep == ASSUME NEW id \in Nested PROVE IInv /\ NestedDone(id) => IInv'
<1> SUFFICES ASSUME IInv, NestedDone(id) PROVE IInv'
  OBVIOUS
<1> DEFINE s == [live EXCEPT !.outs = @ \cup {id}]
<1>1. /\ up /\ clock' = clock /\ ran' = ran \cup {id} /\ launch' = launch /\ Working(s)
      /\ id \notin ran
  BY DEF NestedDone
<1>2. /\ live \in Session /\ ran \subseteq Subs \cup Nested /\ clock \in 0..MaxMessages
      /\ HasSession(live, clock, ran) /\ launch \in [Subs -> 0..MaxMessages]
      /\ ledger.outs \subseteq (1..clock) \cup ran
  BY LiveSession
<1>3. s \in Session /\ s.msgs = live.msgs /\ s.outs = live.outs \cup {id} /\ s.subs = live.subs
      /\ s.evOuts = live.evOuts /\ s.evSubs = live.evSubs /\ s.rev = live.rev
  BY <1>2 DEF Session, Outputs
<1>4. id \notin ledger.outs
  BY <1>1, <1>2, LogAssumption
<1>5. s.outs \subseteq (1..clock) \cup (ran \cup {id})
  BY <1>1, <1>2, <1>3 DEF HasSession
<1> HIDE DEF s
<1>6. Works(s, clock, ran \cup {id})
  <2> DEFINE Q == ran \cup {id}
  <2>1. ran \subseteq Q /\ Q \subseteq Subs \cup Nested /\ s.outs \subseteq (1..clock) \cup Q
    BY <1>2, <1>5
  <2> HIDE DEF Q
  <2>2. Works(s, clock, Q)
    BY <1>2, <1>3, <1>4, <2>1, SameMessages
  <2> QED BY <2>2 DEF Q
<1>7. Works(s, clock', ran')
  BY <1>1, <1>6
<1> QED BY <1>1, <1>2, <1>7, WorkingStep

\* A history that is new is not in the file, and the cursor is at its beginning.
LEMMA HistoryStep == ASSUME NEW k \in Subs PROVE IInv /\ SubagentHistory(k) => IInv'
<1> SUFFICES ASSUME IInv, SubagentHistory(k) PROVE IInv'
  OBVIOUS
<1> DEFINE s == [live EXCEPT !.subs[k] = History(k)]
<1>1. /\ up /\ clock' = clock /\ ran' = ran \cup {k} /\ Working(s)
      /\ launch' = [launch EXCEPT ![k] = Last(live.msgs)]
      /\ k \notin ran /\ live.msgs # <<>>
  BY DEF SubagentHistory
<1>2. /\ live \in Session /\ ran \subseteq Subs \cup Nested /\ clock \in 0..MaxMessages
      /\ HasSession(live, clock, ran) /\ launch \in [Subs -> 0..MaxMessages]
      /\ live.msgs \in Seq(1..clock)
  BY LiveSession
<1>3. launch' \in [Subs -> 0..MaxMessages]
  <2>1. Last(live.msgs) \in 1..clock
    BY <1>1, <1>2, MessageSets
  <2>2. Last(live.msgs) \in 0..MaxMessages
    BY <1>2, <2>1, LogAssumption
  <2> QED BY <1>1, <1>2, <2>2
<1>4. History(k) \in Seq(Nat) /\ live.subs \in [Subs -> Seq(Nat)]
  BY <1>2, HistoryValues DEF Session
<1>5. /\ s \in Session /\ s.msgs = live.msgs /\ s.outs = live.outs
      /\ s.subs = [live.subs EXCEPT ![k] = History(k)]
      /\ s.evOuts = live.evOuts /\ s.evSubs = live.evSubs /\ s.rev = live.rev
  BY <1>2, <1>4 DEF Session
<1>6. \A j \in Subs : s.subs[j] # live.subs[j] => s.subs[j] = History(j) /\ j = k
  BY <1>4, <1>5
<1>7. s.outs \subseteq (1..clock) \cup ran
  BY <1>2, <1>5 DEF HasSession
<1> HIDE DEF s
<1>8. Works(s, clock, ran \cup {k})
  <2> DEFINE Q == ran \cup {k}
  <2>1. ran \subseteq Q /\ Q \subseteq Subs \cup Nested /\ s.outs \subseteq (1..clock) \cup Q
        /\ k \in Q \ ran
    BY <1>1, <1>2, <1>7
  <2> HIDE DEF Q
  <2>2. Works(s, clock, Q)
    BY <1>5, <1>6, <2>1, SameMessages
  <2> QED BY <2>2 DEF Q
<1>9. Works(s, clock', ran')
  BY <1>1, <1>8
<1> QED BY <1>1, <1>3, <1>9, WorkingStep

\* The title is in no relation to the records.
LEMMA RenameStep == IInv /\ Rename => IInv'
<1> SUFFICES ASSUME IInv, Rename PROVE IInv'
  OBVIOUS
<1> DEFINE s == [live EXCEPT !.title = TRUE]
<1>1. up /\ clock' = clock /\ ran' = ran /\ launch' = launch /\ Working(s)
  BY DEF Rename
<1>2. /\ live \in Session /\ ran \subseteq Subs \cup Nested
      /\ HasSession(live, clock, ran) /\ launch \in [Subs -> 0..MaxMessages]
  BY LiveSession
<1>3. s \in Session /\ s.msgs = live.msgs /\ s.outs = live.outs /\ s.subs = live.subs
      /\ s.evOuts = live.evOuts /\ s.evSubs = live.evSubs /\ s.rev = live.rev
  BY <1>2 DEF Session
<1>4. s.outs \subseteq (1..clock) \cup ran
  BY <1>2, <1>3 DEF HasSession
<1> HIDE DEF s
<1>5. Works(s, clock, ran)
  BY <1>2, <1>3, <1>4, SameMessages
<1>6. Works(s, clock', ran')
  BY <1>1, <1>5
<1> QED BY <1>1, <1>2, <1>6, WorkingStep

\* A session with another revision.
LEMMA Renumbered ==
    ASSUME NEW s, NEW c, NEW R, HasSession(s, c, R), NEW r \in Int, NEW v, v = [s EXCEPT !.rev = r]
    PROVE  /\ HasSession(v, c, R) /\ v.rev = r /\ v.msgs = s.msgs /\ v.outs = s.outs
           /\ v.subs = s.subs /\ v.evOuts = s.evOuts /\ v.evSubs = s.evSubs
           /\ Resident(v) = Resident(s) /\ (r = s.rev => v = s)
<1>1. s \in Session
  BY DEF HasSession
<1>2. s = [msgs |-> s.msgs, outs |-> s.outs, subs |-> s.subs, evOuts |-> s.evOuts,
           evSubs |-> s.evSubs, title |-> s.title, rev |-> s.rev]
  BY <1>1 DEF Session
<1>3. /\ v.rev = r /\ v.msgs = s.msgs /\ v.outs = s.outs
      /\ v.subs = s.subs /\ v.evOuts = s.evOuts /\ v.evSubs = s.evSubs /\ v.title = s.title
      /\ v = [msgs |-> v.msgs, outs |-> v.outs, subs |-> v.subs, evOuts |-> v.evOuts,
              evSubs |-> v.evSubs, title |-> v.title, rev |-> v.rev]
  BY <1>2
<1>4. v \in Session
  BY <1>1 DEF Session
<1>5. HasSession(v, c, R) /\ Resident(v) = Resident(s)
  BY <1>3, <1>4 DEF HasSession, Resident
<1>6. r = s.rev => v = s
  BY <1>2, <1>3
<1> QED BY <1>3, <1>5, <1>6

\* What an eviction leaves.
Evicted(v, s, e) ==
    /\ v.msgs = s.msgs /\ v.outs = s.outs \ e.outs /\ v.evOuts = s.evOuts \cup e.outs
    /\ v.evSubs = s.evSubs \cup e.subs /\ v.rev = s.rev
    /\ Resident(v) = Resident(s) \ e.subs
    /\ (e.outs \cup e.subs = {} => v = s)

\* evict_retained leaves a session, with records moved from memory to the evicted ones.
LEMMA EvictionKeeps ==
    ASSUME NEW s, NEW c, NEW R, HasSession(s, c, R), NEW e,
           e.outs \subseteq s.outs, e.subs \subseteq Resident(s)
    PROVE  HasSession(EvictRetained(s, e), c, R) /\ Evicted(EvictRetained(s, e), s, e)
<1> DEFINE v == EvictRetained(s, e)
           h == [k \in Subs |-> IF k \in e.subs THEN <<>> ELSE s.subs[k]]
<1>1. s \in Session
  BY DEF HasSession
<1>2. s = [msgs |-> s.msgs, outs |-> s.outs, subs |-> s.subs, evOuts |-> s.evOuts,
           evSubs |-> s.evSubs, title |-> s.title, rev |-> s.rev]
      /\ s.subs \in [Subs -> Seq(Nat)] /\ s.evSubs \subseteq Subs /\ s.outs \subseteq Outputs
      /\ s.evOuts \subseteq Outputs /\ s.title \in BOOLEAN /\ s.msgs \in Seq(Messages) /\ s.rev \in Int
  BY <1>1 DEF Session
<1>3. \A k \in Subs : h[k] = IF k \in e.subs THEN <<>> ELSE s.subs[k]
  OBVIOUS
<1>4. h \in [Subs -> Seq(Nat)]
  <2>1. <<>> \in Seq(Nat)
    OBVIOUS
  <2> QED BY <1>2, <1>3, <2>1
<1>5. v = [s EXCEPT !.outs = s.outs \ e.outs, !.evOuts = s.evOuts \cup e.outs,
                    !.subs = h, !.evSubs = s.evSubs \cup e.subs]
  BY DEF EvictRetained
<1> HIDE DEF v, h
<1>6. /\ v.msgs = s.msgs /\ v.outs = s.outs \ e.outs /\ v.evOuts = s.evOuts \cup e.outs
      /\ v.evSubs = s.evSubs \cup e.subs /\ v.rev = s.rev /\ v.subs = h /\ v.title = s.title
      /\ v = [msgs |-> v.msgs, outs |-> v.outs, subs |-> v.subs, evOuts |-> v.evOuts,
              evSubs |-> v.evSubs, title |-> v.title, rev |-> v.rev]
  BY <1>2, <1>5
<1>7. v \in Session
  <2>1. v.title \in BOOLEAN
    BY <1>2, <1>6, Zenon
  <2>2. v.evSubs \subseteq Subs /\ v.evOuts \subseteq Outputs /\ v.outs \subseteq Outputs
    BY <1>2, <1>6 DEF Resident
  <2> QED BY <1>2, <1>4, <1>6, <2>1, <2>2 DEF Session
<1>8. e.subs \subseteq R /\ e.subs \subseteq Subs
  BY DEF Resident, HasSession
<1>9. HasSession(v, c, R)
  <2>1. \A k \in Subs : v.subs[k] \in Kinds(k) /\ (k \notin R => v.subs[k] = <<>>)
    BY <1>3, <1>6, HistoryValues DEF HasSession
  <2>2. v.evSubs \subseteq R /\ v.outs \cup v.evOuts \subseteq (1..c) \cup R
    BY <1>6, <1>8 DEF HasSession
  <2>3. \A k \in v.evSubs : v.subs[k] = <<>>
    BY <1>2, <1>3, <1>6, <1>8 DEF HasSession
  <2>4. v.msgs \in Seq(1..c)
    BY <1>6 DEF HasSession
  <2> QED BY <1>7, <2>1, <2>2, <2>3, <2>4 DEF HasSession
<1>10. Resident(v) = Resident(s) \ e.subs
  BY <1>3, <1>6 DEF Resident
<1>11. ASSUME e.outs \cup e.subs = {}
       PROVE  v = s
  <2>1. e.outs = {} /\ e.subs = {}
    BY <1>11
  <2>2. h = s.subs
    BY <1>2, <1>3, <1>4, <2>1
  <2>3. v.outs = s.outs /\ v.evOuts = s.evOuts /\ v.evSubs = s.evSubs
    BY <1>6, <2>1
  <2> QED BY <1>2, <1>6, <2>2, <2>3
<1>12. Evicted(v, s, e)
  BY <1>6, <1>10, <1>11 DEF Evicted
<1> QED BY <1>9, <1>12 DEF v

\* The session that is saved: the live one, or what a rewind leaves of it.
Saved(s, changed) ==
    /\ HasSession(s, clock, ran) /\ s.rev = live.rev
    /\ s.outs \subseteq live.outs /\ s.evOuts \subseteq live.evOuts
    /\ Resident(s) \subseteq Resident(live) /\ s.evSubs \subseteq live.evSubs
    /\ ToSet(s.msgs) \subseteq ToSet(live.msgs)
    /\ (live.outs \cup live.evOuts) \cap ToSet(s.msgs) \subseteq s.outs \cup s.evOuts
    /\ changed \/ (s = live /\ ~dirty)

\* The snapshot of s is given to the writer, and what e names is evicted.
SaveOf(s, changed, e) ==
    LET snapshot == [s EXCEPT !.rev = IF changed THEN @ + 1 ELSE @]
    IN  /\ snapshot.rev <= MaxRevision
        /\ pending' = snapshot
        /\ live' = EvictRetained(snapshot, e)
        /\ dirty' = (e.outs \cup e.subs # {})
        /\ UNCHANGED <<up, file, writer, acked, faults, clock, ran, launch>>

\* A save keeps the invariant.
LEMMA SavedStep ==
    ASSUME IInv, up, NEW s, NEW changed \in BOOLEAN, NEW e, Saved(s, changed),
           SaveOf(s, changed, e),
           e.outs \subseteq s.outs \cap ledger.outs, e.subs \subseteq Resident(s) \cap ledger.subs
    PROVE  IInv'
<1> DEFINE r == IF changed THEN s.rev + 1 ELSE s.rev
           n == [s EXCEPT !.rev = r]
           v == EvictRetained(n, e)
<1>1. /\ n.rev <= MaxRevision /\ pending' = n /\ live' = v /\ dirty' = (e.outs \cup e.subs # {})
      /\ up' = up /\ file' = file /\ log' = log /\ durable' = durable /\ ledger' = ledger
      /\ acked' = acked /\ faults' = faults /\ clock' = clock /\ ran' = ran /\ launch' = launch
  BY DEF SaveOf, writer
<1>2. /\ Shapes /\ Down /\ Revisions /\ Ledger /\ Pending /\ Positions /\ OnFile(live, file)
      /\ AckedSurvives /\ LogIsSnapshot /\ Bounds
  BY DEF IInv, LogInv
<1>3. s.rev \in 0..MaxRevision /\ file.rev <= s.rev /\ s.rev = live.rev /\ acked.rev <= file.rev
      /\ file.rev \in Int /\ acked.rev \in Int
  BY <1>2 DEF Saved, Revisions, Shapes, HasFile, HasSession, File, Session
<1>4. r \in Int /\ s.rev <= r /\ (changed => r = s.rev + 1) /\ (~changed => r = s.rev)
  BY <1>3, LogAssumption
<1>5. HasSession(s, clock, ran)
  BY DEF Saved
<1>n. n = [s EXCEPT !.rev = r]
  OBVIOUS
<1> HIDE DEF r, n
<1>6. /\ HasSession(n, clock, ran) /\ n.rev = r /\ n.msgs = s.msgs /\ n.outs = s.outs
      /\ n.subs = s.subs /\ n.evOuts = s.evOuts /\ n.evSubs = s.evSubs
      /\ Resident(n) = Resident(s) /\ (r = s.rev => n = s)
  BY <1>4, <1>5, <1>n, Renumbered
<1>7. e.outs \subseteq n.outs \cap ledger.outs /\ e.subs \subseteq Resident(n) \cap ledger.subs
  BY <1>6
<1>8. HasSession(v, clock, ran) /\ Evicted(v, n, e)
  BY <1>6, <1>7, EvictionKeeps
<1> HIDE DEF v
<1>9. /\ v.msgs = n.msgs /\ v.outs = n.outs \ e.outs /\ v.evOuts = n.evOuts \cup e.outs
      /\ v.evSubs = n.evSubs \cup e.subs /\ v.rev = n.rev
      /\ Resident(v) = Resident(n) \ e.subs
      /\ (e.outs \cup e.subs = {} => v = n)
  BY <1>8 DEF Evicted
<1>10. acked.rev = r => ~changed /\ n = live /\ ~dirty /\ acked = live
  <2> SUFFICES ASSUME acked.rev = r
               PROVE  ~changed /\ n = live /\ ~dirty /\ acked = live
    OBVIOUS
  <2>1. ~changed
    BY <1>3, <1>4
  <2>2. s = live /\ ~dirty /\ n = live
    BY <1>4, <1>6, <2>1 DEF Saved
  <2> QED BY <1>2, <1>3, <1>4, <2>1, <2>2 DEF Revisions
<1>11. Bounds'
  BY <1>1, <1>2 DEF Bounds
<1>12. Shapes'
  BY <1>1, <1>2, <1>6, <1>8 DEF Shapes
<1>13. Down'
  BY <1>1 DEF Down
<1>14. Revisions'
  <2>1. v.rev = r /\ r \in 0..MaxRevision /\ file.rev <= r
    BY <1>1, <1>3, <1>4, <1>6, <1>9, LogAssumption
  <2>2. (~(e.outs \cup e.subs # {}) /\ acked.rev = r) => acked = v
    BY <1>9, <1>10
  <2> QED BY <1>1, <1>2, <2>1, <2>2 DEF Revisions
<1>15. Ledger'
  <2>1. (ledger.outs \cap v.outs) \ Big \subseteq file.outs
    BY <1>2, <1>6, <1>9 DEF Ledger, Saved
  <2>2. \A k \in ledger.subs \cap Resident(v) : Present(file, k)
    BY <1>2, <1>6, <1>9 DEF Ledger, Saved
  <2>3. ledger.outs \cap ToSet(v.msgs) \subseteq v.outs \cup v.evOuts
    BY <1>2, <1>6, <1>9 DEF Ledger, Saved
  <2> QED BY <1>1, <2>1, <2>2, <2>3 DEF Ledger
<1>16. Pending'
  <2>1. file.rev <= n.rev /\ 0 <= n.rev /\ n.rev <= v.rev
    BY <1>3, <1>4, <1>6, <1>9
  <2>2. OnFile(n, file)
    BY <1>2, <1>6 DEF OnFile, Saved
  <2>3. v.evOuts \cup (ledger.outs \cap v.outs) \subseteq n.outs \cup n.evOuts
    BY <1>7, <1>9
  <2>4. v.evSubs \cup (ledger.subs \cap Resident(v)) \subseteq Resident(n) \cup n.evSubs
    BY <1>7, <1>9
  <2>5. n.evSubs \cap Resident(v) = {}
    BY <1>6, <1>9 DEF HasSession, Resident
  <2>6. n.outs \cap ToSet(v.msgs) \subseteq v.outs \cup v.evOuts
    BY <1>9
  <2>7. n.rev = acked.rev => n = acked
    BY <1>6, <1>10
  <2>8. ~(e.outs \cup e.subs # {}) => n = v
    BY <1>9
  <2> QED BY <1>1, <2>1, <2>2, <2>3, <2>4, <2>5, <2>6, <2>7, <2>8 DEF Pending
<1>17. Positions'
  <2>1. Resident(v) \cup Resident(n) \subseteq Resident(live)
    BY <1>6, <1>9 DEF Saved
  <2> QED BY <1>1, <1>2, <2>1 DEF Positions, Follows
<1>18. OnFile(live, file)'
  <2>1. v.evOuts \ Big \subseteq file.outs
    BY <1>2, <1>6, <1>7, <1>9 DEF Ledger, Saved, OnFile
  <2>2. \A k \in v.evSubs : Present(file, k)
    BY <1>2, <1>6, <1>7, <1>9 DEF Ledger, Saved, OnFile
  <2> QED BY <1>1, <2>1, <2>2 DEF OnFile
<1>19. AckedSurvives' /\ LogIsSnapshot'
  BY <1>1, <1>2 DEF AckedSurvives, LogIsSnapshot
<1> QED BY <1>11, <1>12, <1>13, <1>14, <1>15, <1>16, <1>17, <1>18, <1>19 DEF IInv, LogInv

\* The live session can be saved.
LEMMA SaveStep == IInv /\ Save => IInv'
<1> SUFFICES ASSUME IInv, Save PROVE IInv'
  OBVIOUS
<1> DEFINE r == IF dirty THEN live.rev + 1 ELSE live.rev
           n == [live EXCEPT !.rev = r]
           e == Evictable(n)
<1>1. up /\ SaveOf(live, dirty, e) /\ dirty \in BOOLEAN
  BY DEF Save, SaveOf, IInv, Bounds
<1>2. HasSession(live, clock, ran)
  BY LiveSession
<1>3. Saved(live, dirty)
  BY <1>1, <1>2 DEF Saved
<1>4. /\ e.outs = OldestBeyond(n.msgs, n.outs) \cap ledger.outs
      /\ e.subs = OldestBeyond(n.msgs, Resident(n)) \cap ledger.subs
  BY DEF Evictable
<1>5. \A order, present : OldestBeyond(order, present) \subseteq present
  BY DEF OldestBeyond
<1>6. r \in Int /\ n = [live EXCEPT !.rev = r]
  BY <1>2 DEF HasSession, Session
<1> HIDE DEF r, n, e
<1>7. n.outs = live.outs /\ Resident(n) = Resident(live)
  BY <1>2, <1>6, Renumbered
<1> QED BY <1>1, <1>3, <1>4, <1>5, <1>7, SavedStep

\* A rewind drops every history, and the evicted outputs of what it cuts off.
LEMMA RewindStep == ASSUME NEW n \in Messages PROVE IInv /\ Rewind(n) => IInv'
<1> SUFFICES ASSUME IInv, Rewind(n) PROVE IInv'
  OBVIOUS
<1> DEFINE ms == SubSeq(live.msgs, 1, n)
           t == [live EXCEPT !.msgs = ms]
           p == PruneOrphans(t)
           s == [p EXCEPT !.outs = live.outs]
           v == [p EXCEPT !.outs = live.outs, !.rev = @ + 1]
           e == [outs |-> {}, subs |-> {}]
<1>1. /\ up /\ n \in 1..Len(live.msgs) - 1 /\ live.rev < MaxRevision
      /\ pending' = v /\ live' = v /\ dirty' = FALSE
      /\ UNCHANGED <<up, file, writer, acked, faults, clock, ran, launch>>
  BY DEF Rewind
<1>2. /\ HasSession(live, clock, ran) /\ live \in Session /\ live.msgs \in Seq(1..clock)
      /\ clock \in 0..MaxMessages /\ ToSet(live.msgs) \subseteq 1..clock
      /\ live = [msgs |-> live.msgs, outs |-> live.outs, subs |-> live.subs,
                 evOuts |-> live.evOuts, evSubs |-> live.evSubs,
                 title |-> live.title, rev |-> live.rev]
  BY LiveSession
<1>3. ms \in Seq(1..clock) /\ ToSet(ms) \subseteq ToSet(live.msgs)
  <2> DEFINE q == live.msgs
  <2> HIDE DEF q
  <2>1. q \in Seq(1..clock) /\ n \in 0..Len(q) /\ 1 \in Nat \ {0}
    <3>1. q \in Seq(1..clock) /\ n \in 1..Len(q) - 1
      BY <1>1, <1>2 DEF q
    <3> QED BY <3>1
  <2>2. SubSeq(q, 1, n) \in Seq(1..clock) /\ ToSet(SubSeq(q, 1, n)) \subseteq ToSet(q)
    BY <2>1, SubSeqType, MessageSets
  <2> QED BY <2>2 DEF q
<1>4. ms \in Seq(Messages)
  BY <1>2, <1>3, MessagesAreNumbers
<1>t. t = [live EXCEPT !.msgs = ms]
  OBVIOUS
<1>s. p = PruneOrphans(t) /\ s = [p EXCEPT !.outs = live.outs]
      /\ v = [p EXCEPT !.outs = live.outs, !.rev = @ + 1]
  OBVIOUS
<1> HIDE DEF ms, t, p, s, v
<1>5. /\ t.msgs = ms /\ t.outs = live.outs /\ t.subs = live.subs /\ t.evOuts = live.evOuts
      /\ t.evSubs = live.evSubs /\ t.title = live.title /\ t.rev = live.rev
      /\ t = [msgs |-> t.msgs, outs |-> t.outs, subs |-> t.subs, evOuts |-> t.evOuts,
              evSubs |-> t.evSubs, title |-> t.title, rev |-> t.rev]
  BY <1>2, <1>t
<1> DEFINE M == ToSet(ms)
<1>6. M \cap Subs = {}
  BY <1>2, <1>3, LogAssumption
<1> HIDE DEF M
<1>7. /\ {k \in Resident(t) : k \in M} = {} /\ t.evSubs \cap M = {}
  BY <1>2, <1>5, <1>6 DEF Resident, Session
<1>8. p = [t EXCEPT !.subs = NoHistory, !.evSubs = {}, !.outs = t.outs \cap M, !.evOuts = t.evOuts \cap M]
  <2>1. [k \in Subs |-> IF k \in {} THEN t.subs[k] ELSE <<>>] = NoHistory
    BY DEF NoHistory
  <2>2. M \cup UNION {ToSet(t.subs[k]) : k \in {}} = M /\ ToSet(t.msgs) = M
    BY <1>5 DEF M
  <2>3. p = [t EXCEPT !.subs = [k \in Subs |-> IF k \in {} THEN @[k] ELSE <<>>],
                      !.evSubs = @ \cap M,
                      !.outs = @ \cap (M \cup UNION {ToSet(t.subs[k]) : k \in {}}),
                      !.evOuts = @ \cap (M \cup UNION {ToSet(t.subs[k]) : k \in {}})]
    BY <1>s, <1>7, <2>2 DEF PruneOrphans
  <2> QED BY <1>7, <2>1, <2>2, <2>3
<1>9. /\ s.msgs = ms /\ s.outs = live.outs /\ s.subs = NoHistory
      /\ s.evOuts = live.evOuts \cap M /\ s.evSubs = {} /\ s.title = live.title /\ s.rev = live.rev
      /\ s = [msgs |-> s.msgs, outs |-> s.outs, subs |-> s.subs, evOuts |-> s.evOuts,
              evSubs |-> s.evSubs, title |-> s.title, rev |-> s.rev]
      /\ v = [s EXCEPT !.rev = live.rev + 1]
  BY <1>5, <1>8, <1>s
<1>10. \A k \in Subs : NoHistory[k] = <<>> /\ NoHistory \in [Subs -> Seq(Nat)]
  BY DEF NoHistory
<1>11. s \in Session
  <2>1. live.title \in BOOLEAN /\ live.outs \subseteq Outputs /\ live.evOuts \subseteq Outputs
        /\ live.rev \in Int
    BY <1>2 DEF Session
  <2>2. s.title \in BOOLEAN
    BY <1>9, <2>1, Zenon
  <2>3. NoHistory \in [Subs -> Seq(Nat)]
    BY DEF NoHistory
  <2> QED BY <1>4, <1>9, <2>1, <2>2, <2>3 DEF Session
<1>12. HasSession(s, clock, ran)
  <2>1. s.outs \cup s.evOuts \subseteq (1..clock) \cup ran
    BY <1>2, <1>9 DEF HasSession
  <2>2. \A k \in Subs : s.subs[k] \in Kinds(k) /\ s.subs[k] = <<>>
    BY <1>9, <1>10, HistoryValues
  <2> QED BY <1>3, <1>9, <1>11, <2>1, <2>2 DEF HasSession
<1>13. Resident(s) = {}
  BY <1>9, <1>10 DEF Resident
<1>14. Saved(s, TRUE)
  BY <1>3, <1>9, <1>12, <1>13 DEF Saved, M
<1>15. live.rev \in Int /\ e.outs = {} /\ e.subs = {}
  BY <1>2 DEF Session
<1>16. HasSession(v, clock, ran) /\ v.rev = live.rev + 1
  <2>1. live.rev + 1 \in Int
    BY <1>15
  <2> QED BY <1>9, <1>12, <2>1, Renumbered
<1>17. EvictRetained(v, e) = v
  <2>1. Evicted(EvictRetained(v, e), v, e)
    BY <1>15, <1>16, EvictionKeeps
  <2> QED BY <1>15, <2>1 DEF Evicted
<1>18. SaveOf(s, TRUE, e)
  <2>1. v.rev <= MaxRevision
    BY <1>1, <1>15, <1>16, LogAssumption
  <2>2. v = [s EXCEPT !.rev = IF TRUE THEN @ + 1 ELSE @]
    BY <1>9
  <2>3. dirty' = (e.outs \cup e.subs # {})
    BY <1>1, <1>15
  <2> HIDE DEF e
  <2> QED BY <1>1, <1>17, <2>1, <2>2, <2>3 DEF SaveOf
<1> QED BY <1>1, <1>14, <1>15, <1>18, SavedStep

-----------------------------------------------------------------------------
(* The steps of the writer, crashes and restarts.                          *)

\* The snapshot a is in the file, or was replaced.
Survives(a, g) ==
    \/ g.rev > a.rev
    \/ /\ IsPrefix(Readable(a.msgs), g.msgs) /\ (a.outs \cup a.evOuts) \ Big \subseteq g.outs
       /\ \A k \in Subs : Holds(g, a.subs[k], k)
       /\ a.evSubs \cap Legible \subseteq Resident(g)

\* The messages that can be read of a history which begins with a tombstone: the rest,
\* or none.
LEMMA RestMessages ==
    ASSUME NEW k \in Subs, k \in Big, NEW a \in Rest(k)
    PROVE  /\ a = <<>> => ToSet(a) = {}
           /\ a # <<>> => ToSet(a) = {k + 1}
           /\ k \notin Legible => a = <<>>
<1>1. ToSet(<<>>) = {}
  BY DEF ToSet
<1>2. ASSUME a # <<>>
      PROVE  ToSet(a) = {k + 1} /\ k + 1 \notin Big
  <2>1. a \in Seq({k + 1} \ Big) /\ Len(a) \in Nat /\ Len(a) # 0
    BY <1>2 DEF Rest
  <2>2. \A i \in 1..Len(a) : a[i] \in {k + 1} \ Big
    BY <2>1
  <2>3. 1 \in 1..Len(a) /\ DOMAIN a = 1..Len(a)
    BY <2>1
  <2> QED BY <2>2, <2>3 DEF ToSet
<1>3. k \notin Legible => k + 1 \in Big
  BY BigHistory
<1> QED BY <1>1, <1>2, <1>3

\* A file that is complete has a history of the snapshot, and nothing else of it.
LEMMA CompleteHistory ==
    ASSUME NEW s, NEW g, NEW c, NEW R, HasSession(s, c, R), HasFile(g, c, R),
           Complete(g, s), NEW k \in Subs
    PROVE  /\ Holds(g, s.subs[k], k)
           /\ k \in Resident(s) => /\ ToSet(g.subs[k]) \subseteq ToSet(Readable(s.subs[k]))
                                   /\ k \notin Big => g.subs[k] = Readable(s.subs[k])
<1>1. s.subs[k] \in Kinds(k) /\ g.subs[k] \in Traces(k) /\ g.subs[k] \in Seq(Nat)
  BY DEF HasSession, HasFile, File
<1>2. k \in Resident(s) => Present(g, k) /\ (k \notin Big => g.subs[k] = Readable(s.subs[k]))
  BY DEF Complete
<1>3. k \in Resident(s) <=> s.subs[k] # <<>>
  BY DEF Resident
<1>4. CASE k \notin Big
  <2>1. IsPrefix(g.subs[k], g.subs[k]) /\ IsPrefix(<<>>, g.subs[k])
    BY <1>1, PrefixOrder
  <2> QED BY <1>2, <1>3, <1>4, <2>1, ReadableEmpty DEF Holds
<1>5. CASE k \in Big
  <2> DEFINE a == Readable(s.subs[k])
             b == g.subs[k]
  <2>1. a \in Rest(k) /\ b \in Rest(k)
    BY <1>1, <1>5, HistoryValues DEF Traces
  <2>2. s.subs[k] # <<>> /\ k \in Legible => a # <<>> /\ b # <<>>
    BY <1>1, <1>2, <1>3, HistoryValues DEF Present
  <2>3. s.subs[k] = <<>> => a = <<>>
    BY ReadableEmpty
  <2>4. Holds(g, s.subs[k], k) <=> ToSet(a) \subseteq ToSet(b)
    BY <1>5 DEF Holds
  <2> HIDE DEF a, b
  <2>5. ToSet(a) \subseteq ToSet(b) /\ (s.subs[k] # <<>> => ToSet(b) \subseteq ToSet(a))
    <3>1. CASE k \notin Legible
      BY <1>5, <2>1, <3>1, RestMessages
    <3>2. CASE k \in Legible /\ s.subs[k] # <<>>
      BY <1>5, <2>1, <2>2, <3>2, RestMessages
    <3>3. CASE k \in Legible /\ s.subs[k] = <<>>
      BY <1>5, <2>1, <2>3, <3>3, RestMessages
    <3> QED BY <3>1, <3>2, <3>3
  <2> QED BY <1>3, <1>5, <2>4, <2>5 DEF a, b
<1> QED BY <1>4, <1>5

\* What is complete survives.
LEMMA CompleteSurvives ==
    ASSUME NEW s, NEW g, NEW c \in 0..MaxMessages, NEW R, HasSession(s, c, R), HasFile(g, c, R),
           Complete(g, s)
    PROVE  Survives(s, g)
<1>1. g.msgs = Readable(s.msgs) /\ g.msgs \in Seq(1..c) /\ s.evSubs \subseteq Subs
  BY DEF Complete, HasFile, HasSession, Session
<1>2. IsPrefix(g.msgs, g.msgs)
  BY <1>1, PrefixOrder
<1>3. \A k \in Subs : Holds(g, s.subs[k], k)
  BY CompleteHistory
<1>4. s.evSubs \cap Legible \subseteq Resident(g)
  BY <1>1 DEF Complete, Resident, Present
<1> QED BY <1>1, <1>2, <1>3, <1>4 DEF Survives, Complete

\* A history in a file is not lost while it grows.
LEMMA GrowthKeeps ==
    ASSUME NEW f, NEW g, NEW c, NEW R, HasFile(f, c, R), HasFile(g, c, R), Grows(g, f),
           NEW k \in Subs, f.subs[k] # <<>>
    PROVE  g.subs[k] # <<>>
<1>1. f.subs[k] \in Seq(Nat) /\ g.subs[k] \in Seq(Nat) /\ IsPrefix(f.subs[k], g.subs[k])
      /\ k \in Nat
  BY LogAssumption DEF Grows, HasFile, File
<1> DEFINE p == f.subs[k]
<1>2. g.subs[k] = <<>> => p = <<>>
  <2> HIDE DEF p
  <2>1. p \in Seq(Nat) /\ IsPrefix(p, g.subs[k])
    BY <1>1 DEF p
  <2> QED BY <1>1, <2>1, HistoryPrefixes
<1> QED BY <1>2

\* What is in a file survives while the file grows.
LEMMA GrowthSurvives ==
    ASSUME NEW a, NEW f, NEW g, NEW c \in 0..MaxMessages, NEW R, HasSession(a, c, R),
           HasFile(f, c, R), HasFile(g, c, R), Survives(a, f), Grows(g, f)
    PROVE  Survives(a, g)
<1>1. CASE f.rev > a.rev
  BY <1>1 DEF Grows, Survives
<1>2. CASE ~(f.rev > a.rev)
  <2>1. /\ IsPrefix(Readable(a.msgs), f.msgs) /\ (a.outs \cup a.evOuts) \ Big \subseteq f.outs
        /\ \A k \in Subs : Holds(f, a.subs[k], k)
        /\ a.evSubs \cap Legible \subseteq Resident(f)
    BY <1>2 DEF Survives
  <2>2. a.msgs \in Seq(1..c) /\ f.msgs \in Seq(1..c) /\ g.msgs \in Seq(1..c)
        /\ a.subs \in [Subs -> Seq(Nat)] /\ f.subs \in [Subs -> Seq(Nat)]
        /\ g.subs \in [Subs -> Seq(Nat)]
    BY DEF HasSession, HasFile, Session, File
  <2>3. 1..c \in SUBSET Nat
    BY <2>2, MessagesAreNumbers
  <2>4. IsPrefix(Readable(a.msgs), g.msgs)
    <3>1. Readable(a.msgs) \in Seq(1..c)
      BY <2>2, <2>3, ReadableType
    <3> QED BY <2>1, <2>2, <3>1, PrefixOrder DEF Grows
  <2>5. \A k \in Subs : Holds(g, a.subs[k], k)
    <3> TAKE k \in Subs
    <3>1. a.subs[k] \in Seq(Nat) /\ f.subs[k] \in Seq(Nat) /\ g.subs[k] \in Seq(Nat)
          /\ Nat \in SUBSET Nat
      BY <2>2
    <3>2. Readable(a.subs[k]) \in Seq(Nat)
      BY <3>1, ReadableType
    <3>3. Holds(f, a.subs[k], k) /\ IsPrefix(f.subs[k], g.subs[k])
      BY <2>1 DEF Grows
    <3>4. CASE k \notin Big
      <4>1. IsPrefix(Readable(a.subs[k]), f.subs[k])
        BY <3>3, <3>4 DEF Holds
      <4>2. IsPrefix(Readable(a.subs[k]), g.subs[k])
        BY <3>1, <3>2, <3>3, <4>1, PrefixOrder
      <4> QED BY <3>4, <4>2 DEF Holds
    <3>5. CASE k \in Big
      <4> DEFINE p == f.subs[k]
                 q == g.subs[k]
      <4>1. p \in Rest(k) /\ q \in Rest(k)
        BY <3>5 DEF HasFile, Traces
      <4>2. p # <<>> => q # <<>>
        BY GrowthKeeps
      <4>3. ToSet(Readable(a.subs[k])) \subseteq ToSet(p)
        BY <3>3, <3>5 DEF Holds
      <4> HIDE DEF p, q
      <4>4. ToSet(p) \subseteq ToSet(q)
        <5>1. CASE p = <<>>
          BY <3>5, <4>1, <5>1, RestMessages
        <5>2. CASE p # <<>>
          BY <3>5, <4>1, <4>2, <5>2, RestMessages
        <5> QED BY <5>1, <5>2
      <4> QED BY <3>5, <4>3, <4>4 DEF Holds, q
    <3> QED BY <3>4, <3>5
  <2>6. \A k \in Subs : f.subs[k] # <<>> => g.subs[k] # <<>>
    BY GrowthKeeps
  <2> QED BY <2>1, <2>4, <2>5, <2>6 DEF Survives, Resident, Grows
<1> QED BY <1>1, <1>2

\* What a file that replaces the current one keeps.
Replaces(g) ==
    /\ HasFile(g, clock, ran)
    /\ acked.rev <= g.rev /\ durable <= g.rev /\ g.rev <= MaxRevision /\ g.rev <= live.rev
    /\ pending # NoSession => g.rev <= pending.rev /\ OnFile(pending, g)
    /\ OnFile(live, g)
    /\ (ledger.outs \cap live.outs) \ Big \subseteq g.outs
    /\ \A k \in ledger.subs \cap Resident(live) : Present(g, k)
    /\ acked # NoSession => Survives(acked, g)

\* A file that has grown, or that holds the pending snapshot, keeps it all.
LEMMA Replacement ==
    ASSUME IInv, up, NEW g, HasFile(g, clock, ran),
           Grows(g, file) \/ (pending # NoSession /\ Complete(g, pending))
    PROVE  Replaces(g)
<1>1. /\ Shapes /\ Revisions /\ Ledger /\ Pending /\ OnFile(live, file) /\ AckedSurvives
      /\ clock \in 0..MaxMessages /\ durable \in Int
  BY DEF IInv, LogInv, Bounds
<1>2. /\ HasSession(live, clock, ran) /\ HasSession(pending, clock, ran)
      /\ HasSession(acked, clock, ran) /\ HasFile(file, clock, ran)
  BY <1>1 DEF Shapes
<1>3. live.rev \in Int /\ pending.rev \in Int /\ acked.rev \in Int /\ file.rev \in Int /\ g.rev \in Int
      /\ live.evSubs \subseteq Subs /\ pending.evSubs \subseteq Subs /\ MaxRevision \in Int
  BY <1>2, LogAssumption DEF HasSession, HasFile, Session, File
<1>4. acked # NoSession => Survives(acked, file)
  BY <1>1 DEF AckedSurvives, Survives
<1>5. CASE Grows(g, file)
  <2>1. g.rev = file.rev /\ file.outs \subseteq g.outs
    BY <1>5 DEF Grows
  <2>2. \A k \in Subs : file.subs[k] # <<>> => g.subs[k] # <<>>
    BY <1>2, <1>5, GrowthKeeps
  <2>3. OnFile(live, g) /\ (pending # NoSession => OnFile(pending, g))
    BY <1>1, <1>3, <2>1, <2>2 DEF OnFile, Pending, Present
  <2>4. acked # NoSession => Survives(acked, g)
    BY <1>1, <1>2, <1>4, <1>5, GrowthSurvives
  <2>5. (ledger.outs \cap live.outs) \ Big \subseteq g.outs
        /\ \A k \in ledger.subs \cap Resident(live) : Present(g, k)
    BY <1>1, <2>1, <2>2 DEF Ledger, Resident, Present
  <2>6. acked.rev <= g.rev /\ durable <= g.rev /\ g.rev <= MaxRevision /\ g.rev <= live.rev
        /\ (pending # NoSession => g.rev <= pending.rev)
    BY <1>1, <2>1 DEF Revisions, Pending
  <2> QED BY <2>3, <2>4, <2>5, <2>6 DEF Replaces
<1>6. CASE pending # NoSession /\ Complete(g, pending)
  <2>1. /\ file.rev <= pending.rev /\ 0 <= pending.rev /\ pending.rev <= live.rev
        /\ live.evOuts \cup (ledger.outs \cap live.outs) \subseteq pending.outs \cup pending.evOuts
        /\ live.evSubs \cup (ledger.subs \cap Resident(live))
               \subseteq Resident(pending) \cup pending.evSubs
        /\ pending.rev = acked.rev => pending = acked
    BY <1>1, <1>6 DEF Pending
  <2>2. g.rev = pending.rev /\ g.outs = (pending.outs \cup pending.evOuts) \ Big
    BY <1>6 DEF Complete
  <2>3. \A k \in Resident(pending) \cup pending.evSubs : Present(g, k)
    BY <1>6 DEF Complete
  <2>4. OnFile(live, g) /\ OnFile(pending, g)
    BY <2>1, <2>2, <2>3 DEF OnFile
  <2>5. acked # NoSession => Survives(acked, g)
    <3>1. CASE g.rev > acked.rev
      BY <3>1 DEF Survives
    <3>2. CASE ~(g.rev > acked.rev)
      <4>1. pending = acked
        BY <1>1, <1>3, <2>1, <2>2, <3>2 DEF Revisions
      <4>2. Survives(pending, g)
        BY <1>1, <1>2, <1>6, CompleteSurvives
      <4> QED BY <4>1, <4>2
    <3> QED BY <3>1, <3>2
  <2>6. (ledger.outs \cap live.outs) \ Big \subseteq g.outs
        /\ \A k \in ledger.subs \cap Resident(live) : Present(g, k)
    BY <2>1, <2>2, <2>3
  <2>7. acked.rev <= g.rev /\ durable <= g.rev /\ g.rev <= MaxRevision /\ g.rev <= live.rev
        /\ g.rev <= pending.rev
    BY <1>1, <1>3, <2>1, <2>2 DEF Revisions
  <2> QED BY <2>4, <2>5, <2>6, <2>7 DEF Replaces
<1> QED BY <1>5, <1>6

\* What a write of the pending snapshot leaves.
LEMMA PendingOutcome ==
    ASSUME IInv, up, pending # NoSession, NEW x \in WriteSession(pending)
    PROVE  /\ Outcome(x.e, log, file, pending, clock, ran, Resident(live) \cup Resident(pending))
           /\ x.wrote = ~x.e.err
<1> DEFINE K == Resident(live) \cup Resident(pending)
<1>1. /\ Shapes /\ Revisions /\ Pending /\ Positions /\ clock \in 0..MaxMessages
      /\ durable \in -1..MaxRevision /\ ran \subseteq Subs \cup Nested
  BY DEF IInv, LogInv, Bounds
<1>2. /\ HasSession(pending, clock, ran) /\ HasFile(file, clock, ran) /\ HasCursor(log, ran)
      /\ OnFile(pending, file) /\ Follows(log, file, K)
  BY <1>1 DEF Shapes, Pending, Positions
<1>3. pending.rev \in Nat /\ durable \in Int /\ durable <= file.rev /\ file.rev <= pending.rev
      /\ file.rev \in Nat \cup {-1}
  <2>1. pending.rev \in Int /\ file.rev \in Int /\ MaxRevision \in Nat
    BY <1>2, LogAssumption DEF HasSession, HasFile, Session, File
  <2>2. 0 <= pending.rev /\ durable <= file.rev /\ file.rev <= pending.rev
    BY <1>1 DEF Revisions, Pending
  <2> QED BY <1>1, <2>1, <2>2
<1>4. Writable(pending, file, clock, ran)
  BY <1>1, <1>2, <1>3 DEF Writable
<1>5. Tracked(K, pending)
  <2>1. pending.evSubs \cap Resident(live) = {} /\ pending.evSubs \cap Resident(pending) = {}
    BY <1>1, <1>2 DEF Pending, HasSession, Resident
  <2>2. K \subseteq Subs
    BY DEF Resident
  <2> QED BY <2>1, <2>2 DEF Tracked
<1> HIDE DEF K
<1>6. Outcome(x.e, log, file, pending, clock, ran, K) /\ x.wrote = ~x.e.err
  BY <1>2, <1>3, <1>4, <1>5, WriteOutcome
<1> QED BY <1>6 DEF K

\* What a file has of a history that does not begin with a tombstone is the beginning of it.
LEMMA FilePrefix ==
    ASSUME NEW f, NEW c, NEW R, HasFile(f, c, R), NEW k \in Subs \ Big
    PROVE  IsPrefix(f.subs[k], Readable(History(k)))
<1>1. f.subs[k] \in {<<>>, <<k>>, Readable(History(k))} /\ k \in Nat
  BY LogAssumption DEF HasFile, Traces
<1>2. Readable(History(k)) = IF k + 1 \in Big THEN <<k>> ELSE <<k, k + 1>>
  BY ReadableHistory
<1>3. <<k>> \in Seq(Nat) /\ <<k + 1>> \in Seq(Nat) /\ <<>> \in Seq(Nat)
      /\ Readable(History(k)) \in Seq(Nat)
  <2>1. <<k + 1>> \in Seq(Nat)
    BY <1>1
  <2> QED BY <2>1, SmallHistory
<1>4. IsPrefix(<<>>, Readable(History(k))) /\ IsPrefix(Readable(History(k)), Readable(History(k)))
      /\ IsPrefix(<<k>>, <<k>>)
  BY <1>3, PrefixOrder
<1>5. IsPrefix(<<k>>, <<k, k + 1>>)
  <2> DEFINE a == <<k>>
             b == <<k + 1>>
  <2>1. a \in Seq(Nat) /\ b \in Seq(Nat) /\ a \o b = <<k, k + 1>>
    BY <1>1, <1>3, HistoryParts
  <2> HIDE DEF a, b
  <2>2. IsPrefix(a, a \o b)
    BY <2>1, ConcatPrefix
  <2> QED BY <2>1, <2>2 DEF a
<1> QED BY <1>1, <1>2, <1>4, <1>5

\* The file reads back as the snapshot.
Agrees(g, a) ==
    /\ g.msgs = Readable(a.msgs) /\ g.outs = (a.outs \cup a.evOuts) \ Big
    /\ \A k \in Resident(a) : /\ Holds(g, a.subs[k], k)
                              /\ ToSet(g.subs[k]) \subseteq ToSet(Readable(a.subs[k]))
                              /\ k \notin Big => g.subs[k] = Readable(a.subs[k])
    /\ \A k \in (Subs \ Resident(a)) \ Big : IsPrefix(g.subs[k], Readable(History(k)))

\* A file that is complete reads back as the snapshot.
LEMMA CompleteAgrees ==
    ASSUME NEW s, NEW g, NEW c, NEW R, HasSession(s, c, R), HasFile(g, c, R), Complete(g, s)
    PROVE  Agrees(g, s)
<1>1. \A k \in Subs \ Big : IsPrefix(g.subs[k], Readable(History(k)))
  BY FilePrefix
<1>2. \A k \in Resident(s) : /\ Holds(g, s.subs[k], k)
                             /\ ToSet(g.subs[k]) \subseteq ToSet(Readable(s.subs[k]))
                             /\ k \notin Big => g.subs[k] = Readable(s.subs[k])
  <2>1. Resident(s) \subseteq Subs
    BY DEF Resident
  <2> QED BY <2>1, CompleteHistory
<1> QED BY <1>1, <1>2 DEF Agrees, Complete

\* No session, no file and no record to evict.
LEMMA NoRecords ==
    ASSUME NEW c \in 0..MaxMessages, NEW R
    PROVE  /\ HasSession(Fresh, c, R) /\ HasSession(NoSession, c, R) /\ HasFile(NoFile, c, R)
           /\ Resident(Fresh) = {} /\ Resident(NoSession) = {}
           /\ \A f : OnFile(Fresh, f)
           /\ Fresh.rev = 0 /\ NoSession.rev = -1 /\ NoFile.rev = -1
           /\ Fresh.outs = {} /\ Fresh.msgs = <<>>
<1>1. /\ Fresh.msgs = <<>> /\ Fresh.outs = {} /\ Fresh.subs = NoHistory /\ Fresh.evOuts = {}
      /\ Fresh.evSubs = {} /\ Fresh.title = FALSE /\ Fresh.rev = 0
  BY DEF Fresh
<1>3. NoHistory \in [Subs -> Seq(Nat)] /\ \A k \in Subs : NoHistory[k] = <<>>
  BY DEF NoHistory
<1>4. <<>> \in Seq(Messages) /\ <<>> \in Seq(1..c)
  OBVIOUS
<1>5. Fresh \in Session
  BY <1>3, <1>4 DEF Fresh, Session
<1>k. \A k \in Subs : <<>> \in Kinds(k) /\ <<>> \in Traces(k)
  BY HistoryValues
<1>6. HasSession(Fresh, c, R) /\ Resident(Fresh) = {}
  BY <1>1, <1>3, <1>4, <1>5, <1>k DEF HasSession, Resident
<1>7. HasSession(NoSession, c, R) /\ Resident(NoSession) = {} /\ NoSession.rev = -1
  <2>1. -1 \in Int /\ NoSession = [Fresh EXCEPT !.rev = -1]
    BY DEF NoSession
  <2> QED BY <1>6, <2>1, Renumbered
<1>8. NoFile \in File /\ NoFile.msgs = <<>> /\ NoFile.outs = {} /\ NoFile.subs = NoHistory
      /\ NoFile.rev = -1
  BY <1>3, <1>4 DEF NoFile, File
<1>9. HasFile(NoFile, c, R)
  BY <1>3, <1>4, <1>8, <1>k, ReadableEmpty DEF HasFile
<1>10. \A f : OnFile(Fresh, f)
  BY <1>1 DEF OnFile
<1> QED BY <1>1, <1>6, <1>7, <1>8, <1>9, <1>10

\* A flush, with any outcome of the write.
LEMMA WriteStep == IInv /\ Write => IInv'
<1> SUFFICES ASSUME IInv, Write PROVE IInv'
  OBVIOUS
<1> DEFINE K == Resident(live) \cup Resident(pending)
<1>1. PICK x \in WriteSession(pending) :
         /\ file' = x.e.file /\ log' = x.e.log
         /\ ledger' = IF x.wrote THEN Durable(pending) ELSE ledger
         /\ durable' = IF x.wrote THEN pending.rev
                       ELSE IF x.e.err THEN durable
                       ELSE IF durable > pending.rev THEN durable ELSE x.e.file.rev
         /\ acked' = IF x.wrote THEN pending ELSE acked
         /\ faults' = IF x.e.err /\ (log = NoLog \/ log.fresh) THEN faults + 1 ELSE faults
         /\ pending' \in IF ~x.e.err THEN {NoSession}
                         ELSE IF log # NoLog /\ ~log.fresh THEN {NoSession}
                         ELSE {pending, NoSession}
  BY DEF Write
<1>2. /\ up /\ pending # NoSession /\ up' = up /\ live' = live /\ clock' = clock /\ dirty' = dirty
      /\ ran' = ran /\ launch' = launch
  BY DEF Write, user
<1>3. /\ Shapes /\ Revisions /\ Ledger /\ Pending /\ Positions /\ LogIsSnapshot /\ Bounds
  BY DEF IInv, LogInv
<1>4. Outcome(x.e, log, file, pending, clock, ran, K) /\ x.wrote = ~x.e.err
  BY <1>1, <1>2, PendingOutcome
<1> HIDE DEF K
<1> DEFINE g == x.e.file
           m == x.e.log
<1>5. /\ HasFile(g, clock, ran) /\ HasCursor(m, ran) /\ Follows(m, g, K)
      /\ Grows(g, file) \/ Complete(g, pending)
      /\ ~x.e.err => Complete(g, pending)
      /\ m.fresh => Complete(g, pending) \/ (g = file /\ m = log)
      /\ x.e.err /\ (log = NoLog \/ log.fresh) => faults # MaxFaults
      /\ x.e.err \in BOOLEAN
  BY <1>4 DEF Outcome
<1>6. /\ file' = g /\ log' = m
      /\ x.e.err => /\ ledger' = ledger /\ durable' = durable /\ acked' = acked
                    /\ pending' \in {pending, NoSession}
      /\ ~x.e.err => /\ ledger' = Durable(pending) /\ durable' = pending.rev /\ acked' = pending
                     /\ pending' = NoSession
  BY <1>1, <1>4
<1>7. faults' \in 0..MaxFaults
  BY <1>1, <1>3, <1>5, LogAssumption DEF Bounds
<1> HIDE DEF g, m
<1>8. Replaces(g)
  BY <1>2, <1>5, Replacement
<1>9. /\ HasSession(live, clock, ran) /\ HasSession(pending, clock, ran)
      /\ HasSession(acked, clock, ran) /\ clock \in 0..MaxMessages
  BY <1>3 DEF Shapes, Bounds
<1>10. HasSession(NoSession, clock, ran) /\ Resident(NoSession) = {}
  BY <1>9, NoRecords
<1>11. /\ file.rev <= pending.rev /\ 0 <= pending.rev /\ pending.rev <= live.rev
       /\ live.rev \in 0..MaxRevision /\ pending.rev \in Int /\ acked.rev \in Int /\ g.rev \in Int
  BY <1>2, <1>3, <1>5, <1>9 DEF Pending, Revisions, HasSession, Session, HasFile, File
<1>12. Durable(pending).outs = pending.outs /\ Durable(pending).subs = Resident(pending)
       /\ Durable(pending) \in [outs : SUBSET Outputs, subs : SUBSET Subs]
       /\ pending.outs \subseteq (1..clock) \cup ran /\ Resident(pending) \subseteq ran
  BY <1>9 DEF Durable, HasSession, Session, Resident
<1>c. CASE ~x.e.err
  <2>1. Complete(g, pending) /\ ledger' = Durable(pending) /\ durable' = pending.rev
        /\ acked' = pending /\ pending' = NoSession
    BY <1>5, <1>6, <1>c
  <2>2. g.rev = pending.rev /\ g.msgs = Readable(pending.msgs)
        /\ g.outs = (pending.outs \cup pending.evOuts) \ Big
        /\ \A k \in Resident(pending) : Present(g, k)
    BY <2>1 DEF Complete
  <2>3. Bounds'
    BY <1>2, <1>3, <1>7, <1>11, <2>1, LogAssumption DEF Bounds
  <2>4. Shapes'
    BY <1>2, <1>5, <1>6, <1>9, <1>10, <1>12, <2>1 DEF Shapes
  <2>5. Down'
    BY <1>2 DEF Down
  <2>6. Revisions'
    <3>1. (~dirty /\ pending.rev = live.rev) => pending = live
      BY <1>2, <1>3 DEF Pending
    <3>2. g.rev <= MaxRevision /\ g.rev <= live.rev
      BY <1>8 DEF Replaces
    <3> QED BY <1>2, <1>6, <1>11, <2>1, <2>2, <3>1, <3>2 DEF Revisions
  <2>7. Ledger'
    <3>1. \A k \in Resident(pending) \cap Resident(live) : Present(g, k)
      BY <2>2
    <3>2. pending.outs \cap ToSet(live.msgs) \subseteq live.outs \cup live.evOuts
      BY <1>2, <1>3 DEF Pending
    <3>3. (pending.outs \cap live.outs) \ Big \subseteq g.outs
      BY <2>2
    <3> QED BY <1>2, <1>6, <1>12, <2>1, <3>1, <3>2, <3>3 DEF Ledger
  <2>8. Pending'
    BY <2>1 DEF Pending
  <2>9. Positions'
    BY <1>2, <1>5, <1>6, <1>10, <2>1 DEF Positions, Follows, K
  <2>10. OnFile(live, file)'
    BY <1>2, <1>6, <1>8 DEF OnFile, Replaces
  <2>11. AckedSurvives'
    <3>1. Survives(pending, g)
      BY <1>5, <1>9, <2>1, CompleteSurvives
    <3> QED BY <1>6, <2>1, <3>1 DEF AckedSurvives, Survives
  <2>12. LogIsSnapshot'
    <3>1. Agrees(g, pending)
      BY <1>5, <1>9, <2>1, CompleteAgrees
    <3> QED BY <1>6, <2>1, <3>1 DEF LogIsSnapshot, Agrees
  <2> QED BY <2>3, <2>4, <2>5, <2>6, <2>7, <2>8, <2>9, <2>10, <2>11, <2>12 DEF IInv, LogInv
<1>d. CASE x.e.err
  <2>1. /\ ledger' = ledger /\ durable' = durable /\ acked' = acked
        /\ pending' \in {pending, NoSession}
    BY <1>6, <1>d
  <2>3. Bounds'
    BY <1>2, <1>3, <1>7, <2>1 DEF Bounds
  <2>4. Shapes'
    BY <1>2, <1>3, <1>5, <1>6, <1>10, <2>1 DEF Shapes
  <2>5. Down'
    BY <1>2 DEF Down
  <2>6. Revisions'
    BY <1>2, <1>3, <1>6, <1>8, <2>1 DEF Revisions, Replaces
  <2>7. Ledger'
    BY <1>2, <1>3, <1>6, <1>8, <2>1 DEF Ledger, Replaces
  <2>8. Pending'
    <3>1. CASE pending' = NoSession
      BY <3>1 DEF Pending
    <3>2. CASE pending' = pending
      <4>1. g.rev <= pending.rev /\ OnFile(pending, g)
        BY <1>2, <1>8 DEF Replaces
      <4> QED BY <1>2, <1>3, <1>6, <2>1, <3>2, <4>1 DEF Pending
    <3> QED BY <2>1, <3>1, <3>2
  <2>9. Positions'
    <3>1. Resident(live') \cup Resident(pending') \subseteq K
      BY <1>2, <1>10, <2>1 DEF K
    <3> QED BY <1>5, <1>6, <3>1 DEF Positions, Follows
  <2>10. OnFile(live, file)'
    BY <1>2, <1>6, <1>8 DEF OnFile, Replaces
  <2>11. AckedSurvives'
    BY <1>6, <1>8, <2>1 DEF AckedSurvives, Survives, Replaces
  <2>12. LogIsSnapshot'
    <3> SUFFICES ASSUME m.fresh, m.rev = acked.rev
                 PROVE  Agrees(g, acked)
      BY <1>6, <2>1 DEF LogIsSnapshot, Agrees
    <3>1. CASE g = file /\ m = log
      BY <1>3, <3>1 DEF LogIsSnapshot, Agrees
    <3>2. CASE Complete(g, pending)
      <4>1. g.rev = acked.rev /\ g.rev = pending.rev
        BY <1>5, <3>2 DEF Follows, Complete
      <4>2. pending = acked
        BY <1>2, <1>3, <4>1 DEF Pending
      <4>3. Agrees(g, pending)
        BY <1>5, <1>9, <3>2, CompleteAgrees
      <4> QED BY <4>2, <4>3
    <3> QED BY <1>5, <3>1, <3>2
  <2> QED BY <2>3, <2>4, <2>5, <2>6, <2>7, <2>8, <2>9, <2>10, <2>11, <2>12 DEF IInv, LogInv
<1> QED BY <1>c, <1>d

\* A crash leaves a file that replaces the current one.
LEMMA CrashStep == IInv /\ Crash => IInv'
<1> SUFFICES ASSUME IInv, Crash PROVE IInv'
  OBVIOUS
<1>1. /\ up /\ faults < MaxFaults /\ faults' = faults + 1 /\ up' = FALSE /\ live' = Fresh
      /\ pending' = NoSession /\ log' = NoLog /\ durable' = -1
      /\ ledger' = [outs |-> {}, subs |-> {}] /\ dirty' = TRUE
      /\ clock' = clock /\ ran' = ran /\ launch' = launch /\ acked' = acked
  BY DEF Crash
<1>2. \/ file' = file
      \/ pending # NoSession /\ \E x \in WriteSession(pending) : file' = x.e.file
  BY DEF Crash
<1>3. Shapes /\ Revisions /\ Bounds
  BY DEF IInv, LogInv
<1>4. clock \in 0..MaxMessages /\ HasFile(file, clock, ran) /\ HasSession(acked, clock, ran)
  BY <1>3 DEF Shapes, Bounds
<1> DEFINE g == file'
<1>5. HasFile(g, clock, ran) /\ (Grows(g, file) \/ (pending # NoSession /\ Complete(g, pending)))
  <2>1. CASE file' = file
    BY <1>4, <2>1, GrowsSelf
  <2>2. ASSUME pending # NoSession, NEW x \in WriteSession(pending), file' = x.e.file
        PROVE  HasFile(g, clock, ran) /\ (Grows(g, file) \/ Complete(g, pending))
    <3>1. Outcome(x.e, log, file, pending, clock, ran, Resident(live) \cup Resident(pending))
      BY <1>1, <2>2, PendingOutcome
    <3> QED BY <2>2, <3>1 DEF Outcome
  <2> QED BY <1>2, <2>1, <2>2
<1>f. file' = g
  OBVIOUS
<1> HIDE DEF g
<1>6. Replaces(g)
  BY <1>1, <1>5, Replacement
<1>7. /\ HasSession(Fresh, clock, ran) /\ HasSession(NoSession, clock, ran)
      /\ Resident(Fresh) = {} /\ Resident(NoSession) = {} /\ (\A f : OnFile(Fresh, f))
      /\ Fresh.rev = 0 /\ Fresh.outs = {} /\ Fresh.msgs = <<>>
  BY <1>4, NoRecords
<1>8. \A K : HasCursor(NoLog, ran) /\ Follows(NoLog, g, K) /\ ~NoLog.fresh
  BY NoCursor
<1>9. ledger'.outs = {} /\ ledger'.subs = {} /\ ledger' \in [outs : SUBSET Outputs, subs : SUBSET Subs]
  BY <1>1
<1>10. Bounds'
  <2>1. faults \in 0..MaxFaults /\ MaxFaults \in Nat /\ MaxRevision \in Nat
    BY <1>3, LogAssumption DEF Bounds
  <2>2. faults + 1 \in 0..MaxFaults /\ -1 \in -1..MaxRevision
    BY <1>1, <2>1
  <2> QED BY <1>1, <1>3, <2>2 DEF Bounds
<1>11. Shapes'
  BY <1>1, <1>4, <1>5, <1>7, <1>8, <1>9, <1>f DEF Shapes
<1>12. Down'
  BY <1>1, <1>9 DEF Down
<1>13. Revisions'
  <2>1. -1 <= g.rev /\ g.rev <= MaxRevision /\ acked.rev <= g.rev
    <3>1. g.rev \in Int /\ durable \in -1..MaxRevision /\ durable <= g.rev
      BY <1>3, <1>5, <1>6 DEF Bounds, Replaces, HasFile, File
    <3> QED BY <1>6, <3>1, LogAssumption DEF Replaces
  <2> QED BY <1>1, <1>7, <1>f, <2>1, LogAssumption DEF Revisions
<1>14. Ledger'
  BY <1>9 DEF Ledger
<1>15. Pending'
  BY <1>1 DEF Pending
<1>16. Positions'
  BY <1>1, <1>8, <1>f DEF Positions
<1>17. OnFile(live, file)'
  BY <1>1, <1>7, <1>f DEF OnFile
<1>18. AckedSurvives'
  BY <1>1, <1>6, <1>f DEF AckedSurvives, Survives, Replaces
<1>19. LogIsSnapshot'
  BY <1>1, <1>8 DEF LogIsSnapshot
<1> QED BY <1>10, <1>11, <1>12, <1>13, <1>14, <1>15, <1>16, <1>17, <1>18, <1>19 DEF IInv, LogInv

\* A session that is loaded from the file.
LEMMA LoadedSession ==
    ASSUME NEW f, NEW c, NEW R, HasFile(f, c, R)
    PROVE  HasSession(Parsed(f), c, R) /\ Resident(Parsed(f)) = Resident(f)
<1> DEFINE p == Parsed(f)
<1>1. f \in File
  BY DEF HasFile
<1>2. /\ p.msgs = f.msgs /\ p.outs = f.outs /\ p.subs = f.subs /\ p.evOuts = {} /\ p.evSubs = {}
      /\ p.title = f.title /\ p.rev = f.rev /\ p \in Session
  BY <1>1 DEF Parsed, File, Session
<1> HIDE DEF p
<1>3. \A k \in Subs : p.subs[k] \in Kinds(k)
  BY <1>2, HistoryValues DEF HasFile
<1>4. HasSession(p, c, R)
  BY <1>2, <1>3 DEF HasSession, HasFile
<1>5. Resident(p) = Resident(f)
  BY <1>2 DEF Resident
<1> QED BY <1>4, <1>5 DEF p

\* What is loaded is on the file, and so is what is evicted from it.
LEMMA RestartStep == IInv /\ Restart => IInv'
<1> SUFFICES ASSUME IInv, Restart PROVE IInv'
  OBVIOUS
<1> DEFINE p == Parsed(file)
           e == [outs |-> OldestBeyond(p.msgs, p.outs), subs |-> OldestBeyond(p.msgs, Resident(p))]
           v == EvictRetained(p, e)
<1>1. /\ ~up /\ Exists(file) /\ up' = TRUE /\ live' = v /\ ledger' = Durable(v)
      /\ clock' = clock /\ dirty' = dirty /\ ran' = ran /\ launch' = launch /\ pending' = pending
      /\ file' = file /\ log' = log /\ durable' = durable /\ acked' = acked /\ faults' = faults
  BY DEF Restart
<1>2. /\ Shapes /\ Down /\ Revisions /\ Bounds /\ AckedSurvives /\ LogIsSnapshot
  BY DEF IInv, LogInv
<1>3. clock \in 0..MaxMessages /\ HasFile(file, clock, ran) /\ pending = NoSession /\ log = NoLog /\ dirty
  BY <1>1, <1>2 DEF Shapes, Bounds, Down
<1>4. HasSession(p, clock, ran) /\ Resident(p) = Resident(file)
  BY <1>3, LoadedSession
<1>5. p.outs = file.outs /\ p.evOuts = {} /\ p.evSubs = {} /\ p.rev = file.rev
  BY DEF Parsed
<1>6. e.outs \subseteq p.outs /\ e.subs \subseteq Resident(p)
  <2>1. \A order, present : OldestBeyond(order, present) \subseteq present
    BY DEF OldestBeyond
  <2> QED BY <2>1
<1> HIDE DEF p, e
<1>7. HasSession(v, clock, ran) /\ Evicted(v, p, e)
  BY <1>4, <1>6, EvictionKeeps
<1> HIDE DEF v
<1>8. /\ v.outs \subseteq file.outs /\ v.evOuts \subseteq file.outs
      /\ v.evSubs \subseteq Resident(file) /\ Resident(v) \subseteq Resident(file)
      /\ v.rev = file.rev
  BY <1>4, <1>5, <1>6, <1>7 DEF Evicted
<1>9. Durable(v).outs = v.outs /\ Durable(v).subs = Resident(v)
      /\ Durable(v) \in [outs : SUBSET Outputs, subs : SUBSET Subs]
      /\ v.outs \subseteq (1..clock) \cup ran /\ Resident(v) \subseteq ran
  BY <1>7 DEF Durable, HasSession, Session, Resident
<1>10. Bounds'
  BY <1>1, <1>2 DEF Bounds
<1>11. Shapes'
  BY <1>1, <1>2, <1>7, <1>9 DEF Shapes
<1>12. Down'
  BY <1>1 DEF Down
<1>13. Revisions'
  <2>1. file.rev \in 0..MaxRevision
    <3>1. file.rev \in Int /\ durable \in -1..MaxRevision /\ durable <= file.rev
          /\ file.rev <= MaxRevision
      BY <1>2, <1>3 DEF Bounds, Revisions, HasFile, File
    <3> QED BY <1>1, <3>1, LogAssumption DEF Exists
  <2> QED BY <1>1, <1>2, <1>3, <1>8, <2>1 DEF Revisions
<1>14. Ledger'
  BY <1>1, <1>8, <1>9 DEF Ledger, Resident, Present
<1>15. Pending'
  BY <1>1, <1>3 DEF Pending
<1>16. Positions'
  <2>1. \A K : Follows(NoLog, file, K)
    BY NoCursor
  <2> QED BY <1>1, <1>3, <2>1 DEF Positions
<1>17. OnFile(live, file)'
  BY <1>1, <1>8 DEF OnFile, Resident, Present
<1>18. AckedSurvives' /\ LogIsSnapshot'
  BY <1>1, <1>2 DEF AckedSurvives, LogIsSnapshot
<1> QED BY <1>10, <1>11, <1>12, <1>13, <1>14, <1>15, <1>16, <1>17, <1>18 DEF IInv, LogInv

-----------------------------------------------------------------------------
(* The theorems.                                                           *)

\* The invariant holds for a session that is new.
LEMMA LogInit == Init => IInv
<1> SUFFICES ASSUME Init PROVE IInv
  OBVIOUS
<1>1. /\ live = Fresh /\ up = TRUE /\ clock = 0 /\ dirty = TRUE /\ ran = {}
      /\ launch = [k \in Subs |-> 0] /\ pending = NoSession /\ file = NoFile /\ log = NoLog
      /\ durable = -1 /\ ledger = [outs |-> {}, subs |-> {}] /\ acked = NoSession /\ faults = 0
  BY DEF Init
<1>2. 0 \in 0..MaxMessages /\ 0 \in 0..MaxRevision /\ -1 \in -1..MaxRevision /\ 0 \in 0..MaxFaults
      /\ -1 <= MaxRevision
  BY LogAssumption
<1>3. /\ HasSession(Fresh, 0, {}) /\ HasSession(NoSession, 0, {}) /\ HasFile(NoFile, 0, {})
      /\ Resident(Fresh) = {} /\ Resident(NoSession) = {} /\ (\A f : OnFile(Fresh, f))
      /\ Fresh.rev = 0 /\ NoSession.rev = -1 /\ NoFile.rev = -1
      /\ Fresh.outs = {} /\ Fresh.msgs = <<>>
  BY <1>2, NoRecords
<1>4. \A K : HasCursor(NoLog, {}) /\ Follows(NoLog, NoFile, K) /\ ~NoLog.fresh
  BY NoCursor
<1>5. ledger.outs = {} /\ ledger.subs = {} /\ ledger \in [outs : SUBSET Outputs, subs : SUBSET Subs]
  BY <1>1
<1>6. Bounds
  BY <1>1, <1>2 DEF Bounds
<1>7. Shapes
  BY <1>1, <1>3, <1>4, <1>5 DEF Shapes
<1>8. Down /\ Pending /\ AckedSurvives
  BY <1>1 DEF Down, Pending, AckedSurvives
<1>9. Revisions
  BY <1>1, <1>2, <1>3 DEF Revisions
<1>10. Ledger
  BY <1>5 DEF Ledger
<1>11. Positions /\ LogIsSnapshot
  BY <1>1, <1>4 DEF Positions, LogIsSnapshot
<1>12. OnFile(live, file)
  BY <1>1, <1>3
<1> QED BY <1>6, <1>7, <1>8, <1>9, <1>10, <1>11, <1>12 DEF IInv, LogInv

\* And while nothing happens.
LEMMA LogStutter == IInv /\ UNCHANGED vars => IInv'
<1> SUFFICES ASSUME IInv, UNCHANGED vars PROVE IInv'
  OBVIOUS
<1>1. /\ live' = live /\ clock' = clock /\ dirty' = dirty /\ ran' = ran /\ launch' = launch
      /\ up' = up /\ pending' = pending /\ file' = file /\ log' = log /\ durable' = durable
      /\ ledger' = ledger /\ acked' = acked /\ faults' = faults
  BY DEF vars, user, writer
<1>2. Bounds' /\ Shapes'
  BY <1>1 DEF IInv, LogInv, Bounds, Shapes
<1>3. Down' /\ Revisions' /\ Ledger' /\ Pending' /\ Positions' /\ OnFile(live, file)'
  BY <1>1 DEF IInv, LogInv, Down, Revisions, Ledger, Pending, Positions, OnFile
<1>4. AckedSurvives' /\ LogIsSnapshot'
  BY <1>1 DEF IInv, LogInv, AckedSurvives, LogIsSnapshot
<1> QED BY <1>2, <1>3, <1>4 DEF IInv, LogInv

\* The invariant holds at any time, whatever is written, torn, recovered or evicted.
THEOREM LogInvariant == Spec => []IInv
<1>1. IInv /\ [Next]_vars => IInv'
  <2> SUFFICES ASSUME IInv, [Next]_vars PROVE IInv'
    OBVIOUS
  <2>1. CASE Turn
    BY <2>1, TurnStep
  <2>2. CASE Rename
    BY <2>2, RenameStep
  <2>3. CASE Save
    BY <2>3, SaveStep
  <2>4. CASE \E id \in Messages : ToolDone(id)
    BY <2>4, ToolStep
  <2>5. CASE \E id \in Nested : NestedDone(id)
    BY <2>5, NestedStep
  <2>6. CASE \E k \in Subs : SubagentHistory(k)
    BY <2>6, HistoryStep
  <2>7. CASE \E n \in Messages : Rewind(n)
    BY <2>7, RewindStep
  <2>8. CASE Write
    BY <2>8, WriteStep
  <2>9. CASE Crash
    BY <2>9, CrashStep
  <2>10. CASE Restart
    BY <2>10, RestartStep
  <2>11. CASE UNCHANGED vars
    BY <2>11, LogStutter
  <2> QED BY <2>1, <2>2, <2>3, <2>4, <2>5, <2>6, <2>7, <2>8, <2>9, <2>10, <2>11 DEF Next
<1> QED BY <1>1, LogInit, PTL DEF Spec

\* Every variable keeps its type: the cursor, the file and the sessions in memory stay
\* within what append, compact and parse_records can produce.
THEOREM LogTypeCorrect == Spec => []TypeOK
<1>1. IInv => TypeOK
  BY DEF IInv, LogInv, Shapes, Bounds, HasSession, HasFile, HasCursor, TypeOK
<1> QED BY <1>1, LogInvariant, PTL

\* While the log is open and current the file reads back as the snapshot that append or
\* compact was last given, nothing missing and nothing twice but for the histories that
\* begin with a tombstone: for every number of messages, histories, frames between
\* compactions, failed writes and crashes, and whichever records exceed the limit.
THEOREM LogReadsBack == Spec => []LogIsSnapshot
<1>1. IInv => LogIsSnapshot
  BY DEF IInv, LogInv
<1> QED BY <1>1, LogInvariant, PTL

\* A snapshot whose write the writer has acknowledged is never lost to a failed write, a
\* crash within a write, the recovery of a torn tail or a rewrite: the file holds it, or
\* a later one.
THEOREM LogKeepsAcked == Spec => []AckedSurvives
<1>1. IInv => AckedSurvives
  BY DEF IInv, LogInv
<1> QED BY <1>1, LogInvariant, PTL

\* What the retention budget has evicted from memory can be read back from the file at
\* any time, whichever records exceed the limit: only what left a tombstone cannot.
THEOREM LogKeepsEvicted == Spec => []EvictedOnDisk
<1>1. IInv => EvictedOnDisk
  <2> SUFFICES ASSUME IInv PROVE EvictedOnDisk
    OBVIOUS
  <2>1. OnFile(live, file) /\ HasFile(file, clock, ran) /\ live.evSubs \subseteq Subs
    BY DEF IInv, LogInv, Shapes, HasSession, Session
  <2>2. \A k \in live.evSubs \ Big : IsPrefix(file.subs[k], Readable(History(k)))
    BY <2>1, FilePrefix
  <2>3. live.evSubs \cap Legible \subseteq Resident(file)
    BY <2>1 DEF OnFile, Present, Resident
  <2> QED BY <2>1, <2>2, <2>3 DEF OnFile, EvictedOnDisk
<1> QED BY <1>1, LogInvariant, PTL

=============================================================================
