------------------------- MODULE StorageWriterProofs -------------------------
(***************************************************************************)
(* Theorems about StorageWriter, for any number of commands, revisions and *)
(* faults: a deletion that was answered holds, an answered save survives,  *)
(* a load sees every save, and a clean shutdown has lost none.             *)
(***************************************************************************)
EXTENDS StorageWriter, SequenceFacts, TLAPS

-----------------------------------------------------------------------------
(* The inductive invariant.  Its parts about the writer take the commands  *)
(* c, the outstanding generations O, the state s of the writer and the     *)
(* file d as parameters, since one step of the writer composes several     *)
(* operators.                                                              *)

\* v is the snapshot of a save.
IsSave(c, v) ==
    v.gen \in DOMAIN c /\ c[v.gen].kind # "delete" /\ v.rev = c[v.gen].rev

CommandsOK(c) ==
    /\ c \in Seq(Command) /\ Len(c) <= MaxGeneration
    /\ \A g, h \in DOMAIN c :
          g <= h /\ c[g].kind # "delete" /\ c[h].kind # "delete" => c[g].rev <= c[h].rev
    /\ \A g \in DOMAIN c : c[g].kind # "delete" => c[g].rev >= 1

TypesOK(s, d) == s \in WriterState /\ d \in Version

VersionsOK(c, s, d) ==
    /\ s.pending = Nothing \/ IsSave(c, s.pending)
    /\ s.latest = Nothing \/ IsSave(c, s.latest)
    /\ s.exhausted = Nothing \/ IsSave(c, s.exhausted)
    /\ d.gen = 0 \/ IsSave(c, d)
    /\ s.deleteGen # 0 => s.deleteGen \in DOMAIN c /\ c[s.deleteGen].kind = "delete"

\* What is in the writer's hands is not older than the file, and what is known of
\* the file is not newer than it.
OrderOK(s, d) ==
    /\ s.durable.gen <= d.gen /\ s.durable.rev <= d.rev
    /\ s.log => d.gen # 0
    /\ s.pending # Nothing => s.pending.gen >= d.gen /\ s.pending.gen >= s.exhausted.gen
    /\ s.latest # Nothing => /\ s.latest.gen >= d.gen /\ s.latest.gen >= s.exhausted.gen
                             /\ s.latest.gen >= s.pending.gen

\* A generation up to x will be rejected, or none is outstanding.
Barred(O, b, x) == b >= x \/ \A o \in O : o > x

BarriersOK(O, s, d) ==
    /\ Barred(O, s.latestGen, s.pending.gen) /\ Barred(O, s.latestGen, s.latest.gen)
    /\ Barred(O, s.latestGen, s.exhausted.gen) /\ Barred(O, s.latestGen, d.gen)

\* Revision r is in the file, pending, or counted as given up.
Stored(s, d, r) == d.rev >= r \/ s.pending.rev >= r \/ s.exhausted.rev >= r

DeletedSince(c, x) == \E h \in DOMAIN c : h >= x /\ c[h].kind = "delete"

\* A save of generation x is durable, offered to loads, or deleted.
Survives(c, s, x) == s.durable.gen >= x \/ s.latest.gen >= x \/ DeletedSince(c, x)

\* No snapshot up to the deletion x is left, and none will be accepted.
Gone(O, s, d, x) ==
    /\ s.pending = Nothing \/ s.pending.gen > x
    /\ s.latest = Nothing \/ s.latest.gen > x
    /\ d = Nothing \/ d.gen > x
    /\ Barred(O, s.deleteGen, x)

WriterInv(c, O, s, d) ==
    /\ TypesOK(s, d) /\ VersionsOK(c, s, d) /\ OrderOK(s, d) /\ BarriersOK(O, s, d)
    /\ Stored(s, d, s.latest.rev) /\ Survives(c, s, s.latestGen)

-----------------------------------------------------------------------------
(* Versions.                                                               *)

\* The fields of a version are numbers, and it is Nothing when both are zero.
LEMMA VersionFacts ==
    ASSUME NEW v \in Version
    PROVE  /\ v.gen \in Nat /\ v.rev \in Nat
           /\ v.gen <= MaxGeneration /\ v.rev <= MaxRevision
           /\ v = Nothing <=> v.gen = 0 /\ v.rev = 0
    BY WriterAssumption DEF Version, Nothing

\* The fields of a writer's state.
LEMMA WriterFacts ==
    ASSUME NEW s \in WriterState
    PROVE  /\ s.pending \in Version /\ s.latest \in Version /\ s.exhausted \in Version
           /\ s.durable \in Version /\ s.log \in BOOLEAN
           /\ s.latestGen \in Nat /\ s.deleteGen \in Nat
           /\ s.latestGen <= MaxGeneration /\ s.deleteGen <= MaxGeneration
    BY WriterAssumption DEF WriterState

\* A save has a generation and a revision.
LEMMA SaveFacts ==
    ASSUME NEW c, CommandsOK(c), NEW v \in Version, IsSave(c, v)
    PROVE  v.gen >= 1 /\ v.rev >= 1 /\ v # Nothing /\ v.gen <= Len(c)
    BY VersionFacts DEF CommandsOK, IsSave, Nothing

\* A later save has no lower revision.
LEMMA SaveOrder ==
    ASSUME NEW c, CommandsOK(c), NEW u \in Version, NEW v \in Version,
           IsSave(c, u), IsSave(c, v), u.gen <= v.gen
    PROVE  u.rev <= v.rev
    BY DEF CommandsOK, IsSave

-----------------------------------------------------------------------------
(* Staging.                                                                *)

\* stage_snapshot leaves the state, or makes v the latest snapshot.
LEMMA StageFields ==
    ASSUME NEW s \in WriterState, NEW v \in Version, NEW t, t = StageSnapshot(s, v)
    PROVE  /\ t \in WriterState
           /\ \/ t = s /\ (s.latestGen >= v.gen \/ s.deleteGen >= v.gen)
              \/ /\ s.latestGen < v.gen /\ s.deleteGen < v.gen
                 /\ t.latestGen = v.gen /\ t.latest = v
                 /\ t.deleteGen = s.deleteGen /\ t.durable = s.durable
                 /\ t.log = s.log /\ t.exhausted = s.exhausted
                 /\ \/ t.pending = v
                    \/ t.pending = s.pending /\ s.pending # Nothing /\ s.pending.rev >= v.rev
<1>1. CASE s.latestGen >= v.gen \/ s.deleteGen >= v.gen
    BY <1>1 DEF StageSnapshot
<1>2. CASE ~(s.latestGen >= v.gen \/ s.deleteGen >= v.gen)
    <2> DEFINE u == [s EXCEPT !.latestGen = v.gen, !.latest = v]
    <2>1. s.latestGen < v.gen /\ s.deleteGen < v.gen /\ v.gen \in 0..MaxGeneration
        BY <1>2, WriterFacts, VersionFacts DEF Version
    <2>2. /\ u \in WriterState /\ u.latestGen = v.gen /\ u.latest = v
          /\ u.deleteGen = s.deleteGen /\ u.durable = s.durable /\ u.pending = s.pending
          /\ u.log = s.log /\ u.exhausted = s.exhausted
        BY <2>1 DEF WriterState
    <2>3. t = QueuePending(u, v)
        BY <1>2 DEF StageSnapshot
    <2> HIDE DEF u
    <2>4. CASE t = [u EXCEPT !.pending = v]
        <3>1. /\ t \in WriterState /\ t.pending = v /\ t.latestGen = u.latestGen
              /\ t.latest = u.latest /\ t.deleteGen = u.deleteGen /\ t.durable = u.durable
              /\ t.log = u.log /\ t.exhausted = u.exhausted
            BY <2>2, <2>4 DEF WriterState
        <3> QED
            BY <2>1, <2>2, <3>1
    <2>5. CASE t = u /\ u.pending # Nothing /\ u.pending.rev >= v.rev
        BY <2>1, <2>2, <2>5
    <2>6. u.pending.rev \in Nat /\ v.rev \in Nat
        BY <2>2, WriterFacts, VersionFacts
    <2> QED
        BY <2>3, <2>4, <2>5, <2>6 DEF QueuePending
<1> QED
    BY <1>1, <1>2

\* A staged save keeps the writer's invariant: it is accepted only when it is newer
\* than everything the writer and the file hold.
LEMMA StageInv ==
    ASSUME NEW c, NEW O, NEW s, NEW d, NEW v \in Version, NEW t,
           CommandsOK(c), WriterInv(c, O, s, d), IsSave(c, v), v.gen \in O,
           O \subseteq Nat, t = StageSnapshot(s, v)
    PROVE  WriterInv(c, O, t, d)
<1>0. s \in WriterState /\ d \in Version
    BY DEF WriterInv, TypesOK
<1>1. CASE t = s
    BY <1>1
<1>2. CASE t # s
    <2>1. /\ t \in WriterState
          /\ s.latestGen < v.gen /\ s.deleteGen < v.gen
          /\ t.latestGen = v.gen /\ t.latest = v
          /\ t.deleteGen = s.deleteGen /\ t.durable = s.durable
          /\ t.log = s.log /\ t.exhausted = s.exhausted
          /\ \/ t.pending = v
             \/ t.pending = s.pending /\ s.pending # Nothing /\ s.pending.rev >= v.rev
        BY <1>0, <1>2, StageFields
    <2>2. /\ s.pending.gen \in Nat /\ s.latest.gen \in Nat /\ s.exhausted.gen \in Nat
          /\ d.gen \in Nat /\ v.gen \in Nat /\ s.latestGen \in Nat
          /\ v.rev \in Nat /\ s.pending.rev \in Nat
        BY <1>0, WriterFacts, VersionFacts
    <2>3. /\ s.pending.gen < v.gen /\ s.latest.gen < v.gen /\ s.exhausted.gen < v.gen
          /\ d.gen < v.gen
        BY <2>1, <2>2 DEF WriterInv, BarriersOK, Barred
    <2>4. TypesOK(t, d) /\ VersionsOK(c, t, d)
        BY <1>0, <2>1 DEF WriterInv, TypesOK, VersionsOK
    <2>5. OrderOK(t, d)
        BY <2>1, <2>2, <2>3 DEF WriterInv, OrderOK
    <2>6. BarriersOK(O, t, d)
        BY <2>1, <2>2, <2>3 DEF BarriersOK, Barred
    <2>7. Stored(t, d, t.latest.rev)
        BY <2>1, <2>2 DEF Stored
    <2>8. Survives(c, t, t.latestGen)
        BY <2>1, <2>2 DEF Survives
    <2> QED
        BY <2>4, <2>5, <2>6, <2>7, <2>8 DEF WriterInv
<1> QED
    BY <1>1, <1>2

\* What survives an earlier version of the writer's state survives the later one.
Passes(c, s, t) == \A x \in Nat : Survives(c, s, x) => Survives(c, t, x)

\* A deletion that holds for one state and file holds for the other.
StaysGone(O, s, d, P, t, e) == \A x \in Nat : Gone(O, s, d, x) => Gone(P, t, e, x)

\* A staged save survives, with all that did before, and no deletion is undone: a
\* rejected one is older than what survives, or deleted.
LEMMA StageSurvives ==
    ASSUME NEW c, NEW O, NEW s, NEW d, NEW v \in Version, NEW t,
           CommandsOK(c), WriterInv(c, O, s, d), IsSave(c, v), v.gen \in O,
           O \subseteq Nat, t = StageSnapshot(s, v)
    PROVE  Survives(c, t, v.gen) /\ Passes(c, s, t) /\ StaysGone(O, s, d, O, t, d)
<1>0. s \in WriterState /\ d \in Version
    BY DEF WriterInv, TypesOK
<1>1. /\ s.pending.gen \in Nat /\ s.latest.gen \in Nat /\ s.durable.gen \in Nat
      /\ d.gen \in Nat /\ v.gen \in Nat /\ s.latestGen \in Nat /\ s.deleteGen \in Nat
    BY <1>0, WriterFacts, VersionFacts
<1>a. \/ t = s /\ (s.latestGen >= v.gen \/ s.deleteGen >= v.gen)
      \/ s.latestGen < v.gen /\ t.latestGen = v.gen
    BY <1>0, StageFields
<1>2. CASE t = s
    <2>1. s.latestGen >= v.gen \/ s.deleteGen >= v.gen
        BY <1>1, <1>2, <1>a
    <2>2. CASE s.latestGen >= v.gen
        <3>1. Survives(c, s, s.latestGen)
            BY DEF WriterInv
        <3>2. CASE DeletedSince(c, s.latestGen)
            <4>1. PICK h \in DOMAIN c : h >= s.latestGen /\ c[h].kind = "delete"
                BY <3>2 DEF DeletedSince
            <4>2. h \in Nat
                BY DEF CommandsOK
            <4> QED
                BY <1>1, <1>2, <2>2, <4>1, <4>2 DEF Survives, DeletedSince, Passes, StaysGone
        <3> QED
            BY <1>1, <1>2, <2>2, <3>1, <3>2 DEF Survives, Passes, StaysGone
    <2>3. CASE s.deleteGen >= v.gen
        <3>1. v.gen >= 1
            BY SaveFacts
        <3>2. s.deleteGen \in DOMAIN c /\ c[s.deleteGen].kind = "delete"
            BY <1>1, <2>3, <3>1 DEF WriterInv, VersionsOK
        <3> QED
            BY <1>2, <2>3, <3>2 DEF Survives, DeletedSince, Passes, StaysGone
    <2> QED
        BY <2>1, <2>2, <2>3
<1>3. CASE t # s
    <2>1. /\ s.latestGen < v.gen /\ s.deleteGen < v.gen
          /\ t.latestGen = v.gen /\ t.latest = v
          /\ t.deleteGen = s.deleteGen /\ t.durable = s.durable
          /\ t.pending = v \/ t.pending = s.pending
        BY <1>0, <1>3, StageFields
    <2>2. s.latest.gen < v.gen
        BY <1>1, <2>1 DEF WriterInv, BarriersOK, Barred
    <2>3. Survives(c, t, v.gen)
        BY <1>1, <2>1 DEF Survives
    <2>4. Passes(c, s, t)
        BY <1>1, <2>1, <2>2 DEF Survives, Passes
    <2>5. ASSUME NEW x \in Nat, Gone(O, s, d, x)
          PROVE  Gone(O, t, d, x)
        <3>1. v.gen > x
            BY <1>1, <2>1, <2>5 DEF Gone, Barred
        <3> QED
            BY <2>1, <2>5, <3>1 DEF Gone
    <2> QED
        BY <2>3, <2>4, <2>5 DEF StaysGone
<1> QED
    BY <1>2, <1>3

\* A barrier that is collected is no longer needed.
LEMMA BarredKept ==
    ASSUME NEW O, NEW P, P \subseteq O, O \subseteq Nat, NEW b \in Nat, NEW e \in Nat,
           NEW x \in Nat, Barred(O, b, x), e = b \/ (e = 0 /\ \A o \in P : o > b)
    PROVE  Barred(P, e, x)
    BY DEF Barred

\* Collecting barriers when commands have completed keeps the invariant and undoes
\* no deletion.
LEMMA CollectInv ==
    ASSUME NEW c, NEW O, NEW P, NEW s, NEW d, NEW t,
           CommandsOK(c), WriterInv(c, O, s, d), O \subseteq Nat, P \subseteq O,
           t = CollectBarriers(s, P)
    PROVE  WriterInv(c, P, t, d) /\ Passes(c, s, t) /\ StaysGone(O, s, d, P, t, d)
<1>0. s \in WriterState /\ d \in Version
    BY DEF WriterInv, TypesOK
<1>1. /\ t \in WriterState
      /\ t.pending = s.pending /\ t.latest = s.latest /\ t.durable = s.durable
      /\ t.log = s.log /\ t.exhausted = s.exhausted
      /\ t.latestGen = s.latestGen \/ (t.latestGen = 0 /\ \A o \in P : o > s.latestGen)
      /\ t.deleteGen = s.deleteGen \/ (t.deleteGen = 0 /\ \A o \in P : o > s.deleteGen)
    <2> DEFINE Held(b) == \E g \in P : g <= b
               x == IF Held(s.latestGen) THEN s.latestGen ELSE 0
               y == IF Held(s.deleteGen) THEN s.deleteGen ELSE 0
    <2>1. t = [s EXCEPT !.latestGen = x, !.deleteGen = y]
        BY DEF CollectBarriers
    <2>2. /\ x = s.latestGen \/ (x = 0 /\ \A o \in P : o > s.latestGen)
          /\ y = s.deleteGen \/ (y = 0 /\ \A o \in P : o > s.deleteGen)
        BY <1>0, WriterFacts
    <2> HIDE DEF x, y
    <2>3. x \in 0..MaxGeneration /\ y \in 0..MaxGeneration
        BY <1>0, <2>2, WriterAssumption DEF WriterState
    <2> QED
        BY <1>0, <2>1, <2>2, <2>3 DEF WriterState
<1>2. /\ s.pending.gen \in Nat /\ s.latest.gen \in Nat /\ s.exhausted.gen \in Nat
      /\ d.gen \in Nat /\ s.latestGen \in Nat /\ s.deleteGen \in Nat
      /\ t.latestGen \in Nat /\ t.deleteGen \in Nat /\ s.durable.gen \in Nat
    BY <1>0, <1>1, WriterFacts, VersionFacts
<1>3. TypesOK(t, d) /\ VersionsOK(c, t, d) /\ OrderOK(t, d) /\ Stored(t, d, t.latest.rev)
    BY <1>0, <1>1 DEF WriterInv, TypesOK, VersionsOK, OrderOK, Stored
<1>4. BarriersOK(P, t, d)
    <2>1. /\ Barred(O, s.latestGen, s.pending.gen) /\ Barred(O, s.latestGen, s.latest.gen)
          /\ Barred(O, s.latestGen, s.exhausted.gen) /\ Barred(O, s.latestGen, d.gen)
        BY DEF WriterInv, BarriersOK
    <2>2. \A x \in Nat : Barred(O, s.latestGen, x) => Barred(P, t.latestGen, x)
        BY <1>1, <1>2, BarredKept
    <2> QED
        BY <1>1, <1>2, <2>1, <2>2 DEF BarriersOK
<1>5. Passes(c, s, t)
    BY <1>1 DEF Passes, Survives
<1>6. Survives(c, t, t.latestGen)
    <2>1. Survives(c, s, s.latestGen)
        BY DEF WriterInv
    <2>2. CASE t.latestGen = 0
        BY <1>1, <1>2, <2>2 DEF Survives
    <2> QED
        BY <1>1, <1>2, <1>5, <2>1, <2>2 DEF Passes
<1>7. ASSUME NEW x \in Nat, Gone(O, s, d, x)
      PROVE  Gone(P, t, d, x)
    <2>1. Barred(O, s.deleteGen, x)
        BY <1>7 DEF Gone
    <2>2. Barred(P, t.deleteGen, x)
        BY <1>1, <1>2, <2>1, BarredKept
    <2> QED
        BY <1>1, <1>7, <2>2 DEF Gone
<1> QED
    BY <1>3, <1>4, <1>5, <1>6, <1>7 DEF WriterInv, StaysGone

-----------------------------------------------------------------------------
(* Writing.                                                                *)

\* What a write of v changes in the writer's state besides the durable version.
WriteRecorded(s, v, t) ==
    /\ t \in WriterState /\ t.pending = Nothing
    /\ t.latestGen = s.latestGen /\ t.deleteGen = s.deleteGen
    /\ t.durable = s.durable /\ t.log = s.log
    /\ t.latest = s.latest \/ (t.latest = Nothing /\ s.durable = v /\ s.latest = v)
    /\ t.exhausted = s.exhausted \/ (t.exhausted = Nothing /\ s.exhausted.rev <= v.rev)

\* Persisted changes no more than that.
LEMMA PersistedFields ==
    ASSUME NEW s \in WriterState, NEW v \in Version
    PROVE  WriteRecorded(s, v, Persisted(s, v))
<1> DEFINE x == IF s.durable = v /\ s.latest = v THEN Nothing ELSE s.latest
           y == IF s.exhausted.gen # v.gen /\ s.exhausted.rev <= v.rev
                THEN Nothing ELSE s.exhausted
           t == [s EXCEPT !.pending = Nothing, !.latest = x, !.exhausted = y]
<1>1. t = Persisted(s, v)
    BY DEF Persisted
<1>2. /\ x = s.latest \/ (x = Nothing /\ s.durable = v /\ s.latest = v)
      /\ y = s.exhausted \/ (y = Nothing /\ s.exhausted.rev <= v.rev)
    OBVIOUS
<1>3. Nothing \in Version
    BY WriterAssumption DEF Nothing, Version
<1> HIDE DEF x, y
<1>4. x \in Version /\ y \in Version
    BY <1>2, <1>3, WriterFacts
<1>5. WriteRecorded(s, v, t)
    BY <1>2, <1>3, <1>4 DEF WriterState, WriteRecorded
<1> QED
    BY <1>1, <1>5

\* The pending snapshot is not older than a file of this process.
LEMMA PendingNewer ==
    ASSUME NEW c, NEW O, NEW s, NEW d, CommandsOK(c), WriterInv(c, O, s, d),
           s.pending # Nothing
    PROVE  /\ IsSave(c, s.pending)
           /\ d.gen # 0 => d.rev <= s.pending.rev
           /\ s.exhausted.rev <= s.pending.rev
<1>1. s \in WriterState /\ d \in Version
    BY DEF WriterInv, TypesOK
<1>2. IsSave(c, s.pending) /\ (d.gen = 0 \/ IsSave(c, d))
    BY DEF WriterInv, VersionsOK
<1>3. s.pending.gen >= d.gen /\ s.pending.gen >= s.exhausted.gen
    BY DEF WriterInv, OrderOK
<1>4. /\ s.pending \in Version /\ s.exhausted \in Version
      /\ s.pending.rev \in Nat /\ s.pending.gen \in Nat /\ s.exhausted.gen \in Nat
      /\ d.gen \in Nat
    BY <1>1, WriterFacts, VersionFacts
<1>5. d.gen # 0 => d.rev <= s.pending.rev
    BY <1>1, <1>2, <1>3, <1>4, SaveOrder
<1>6. CASE s.exhausted = Nothing
    BY <1>2, <1>4, <1>5, <1>6 DEF Nothing
<1>7. CASE IsSave(c, s.exhausted)
    BY <1>2, <1>3, <1>4, <1>5, <1>7, SaveOrder
<1> QED
    BY <1>6, <1>7 DEF WriterInv, VersionsOK

\* What write_session may leave when it succeeds with the pending snapshot v: the
\* known durable version is newer, the file is found to be newer, or v is written.
WriteOutcome(s, d, v, t, e) ==
    /\ t \in WriterState /\ e \in Version /\ t.pending = Nothing
    /\ t.latestGen = s.latestGen /\ t.deleteGen = s.deleteGen
    /\ t.latest = s.latest \/ (t.latest = Nothing /\ t.durable = v /\ s.latest = v)
    /\ t.exhausted = s.exhausted \/ (t.exhausted = Nothing /\ s.exhausted.rev <= v.rev)
    /\ \/ /\ t.durable = s.durable /\ t.log = s.log /\ e = d
          /\ s.durable.rev > v.rev
       \/ /\ t.durable.gen = 0 /\ t.durable.rev = d.rev /\ t.log = s.log /\ e = d
          /\ ~s.log /\ d.rev > v.rev
       \/ /\ t.durable = v /\ e = v
          /\ s.log \/ d.rev <= v.rev

\* A write that succeeds, or that the file makes superfluous, keeps the invariant:
\* the file is then as new as what was pending.
LEMMA WriteInv ==
    ASSUME NEW c, NEW O, NEW s, NEW d, NEW v, NEW t, NEW e,
           CommandsOK(c), WriterInv(c, O, s, d), O \subseteq Nat,
           s.pending # Nothing, v = s.pending, WriteOutcome(s, d, v, t, e)
    PROVE  WriterInv(c, O, t, e) /\ Passes(c, s, t) /\ StaysGone(O, s, d, O, t, e)
<1> USE DEF WriteOutcome
<1>0. s \in WriterState /\ d \in Version
    BY DEF WriterInv, TypesOK
<1>1. /\ s.pending.gen \in Nat /\ s.latest.gen \in Nat /\ s.exhausted.gen \in Nat
      /\ d.gen \in Nat /\ s.latestGen \in Nat /\ s.durable.gen \in Nat /\ s.durable.rev \in Nat
      /\ s.pending.rev \in Nat /\ s.latest.rev \in Nat /\ s.exhausted.rev \in Nat
      /\ d.rev \in Nat /\ Nothing.gen = 0 /\ Nothing.rev = 0
    BY <1>0, WriterFacts, VersionFacts DEF Nothing
<1>2. IsSave(c, v) /\ (d.gen # 0 => d.rev <= v.rev) /\ s.exhausted.rev <= v.rev /\ v.gen >= 1
    BY <1>0, PendingNewer, WriterFacts, SaveFacts
<1>3. /\ s.durable.gen <= d.gen /\ s.durable.rev <= d.rev /\ (s.log => d.gen # 0)
      /\ v.gen >= d.gen /\ v.gen >= s.exhausted.gen
      /\ s.latest # Nothing => /\ s.latest.gen >= d.gen /\ s.latest.gen >= s.exhausted.gen
                               /\ s.latest.gen >= v.gen
    BY DEF WriterInv, OrderOK
<1>4. /\ Barred(O, s.latestGen, v.gen) /\ Barred(O, s.latestGen, s.latest.gen)
      /\ Barred(O, s.latestGen, s.exhausted.gen) /\ Barred(O, s.latestGen, d.gen)
    BY DEF WriterInv, BarriersOK
<1>5. Barred(O, s.latestGen, 0)
    BY <1>1 DEF Barred
\* The file only grows, and covers what was pending.
<1>6. e.rev >= d.rev /\ e.rev >= v.rev /\ (e = d \/ e = v)
    BY <1>1, <1>2, <1>3
<1>7. TypesOK(t, e) /\ VersionsOK(c, t, e)
    BY <1>2, <1>6 DEF WriterInv, TypesOK, VersionsOK
<1>8. OrderOK(t, e)
    <2>1. t.durable.gen <= e.gen /\ t.durable.rev <= e.rev
        BY <1>1, <1>3
    <2>2. t.log => e.gen # 0
        <3>1. CASE e = v
            BY <1>1, <1>2, <3>1
        <3>2. CASE e # v
            <4>1. t.log = s.log /\ e = d
                BY <3>2, Zenon
            <4>2. s.log => d.gen # 0
                BY <1>3
            <4> QED
                BY <4>1, <4>2, Zenon
        <3> QED
            BY <3>1, <3>2
    <2>3. t.latest # Nothing => t.latest = s.latest
        OBVIOUS
    <2> QED
        BY <1>1, <1>3, <1>6, <2>1, <2>2, <2>3 DEF OrderOK
<1>9. BarriersOK(O, t, e)
    BY <1>1, <1>4, <1>5, <1>6 DEF BarriersOK
<1>10. Stored(t, e, t.latest.rev)
    <2>1. Stored(s, d, s.latest.rev)
        BY DEF WriterInv
    <2>2. e.rev \in Nat
        BY <1>1, <1>6
    <2>3. CASE t.latest = Nothing
        BY <1>1, <2>2, <2>3 DEF Stored
    <2>4. CASE t.latest = s.latest
        <3>1. d.rev >= s.latest.rev \/ v.rev >= s.latest.rev \/ s.exhausted.rev >= s.latest.rev
            BY <2>1 DEF Stored
        <3>2. e.rev >= s.latest.rev
            BY <1>1, <1>2, <1>6, <2>2, <3>1
        <3> QED
            BY <2>4, <3>2 DEF Stored
    <2> QED
        BY <2>3, <2>4
<1>11. Passes(c, s, t)
    <2>1. t.durable.gen \in Nat /\ t.latest.gen \in Nat
        BY WriterFacts, VersionFacts
    <2>2. t.durable.gen >= s.durable.gen
        BY <1>1, <1>2, <1>3, <2>1
    <2>3. s.latest.gen <= t.latest.gen \/ s.latest.gen <= t.durable.gen
        BY <1>1, <2>1
    <2> QED
        BY <1>1, <2>1, <2>2, <2>3 DEF Passes, Survives
<1>12. Survives(c, t, t.latestGen)
    BY <1>1, <1>11 DEF WriterInv, Passes
<1>13. StaysGone(O, s, d, O, t, e)
    BY <1>6 DEF StaysGone, Gone
<1> QED
    BY <1>7, <1>8, <1>9, <1>10, <1>11, <1>12, <1>13 DEF WriterInv

\* A write that fails keeps the invariant, whether or not it reached the file and
\* whether the snapshot stays pending or is given up.
LEMMA FailInv ==
    ASSUME NEW c, NEW O, NEW s, NEW d, NEW v, NEW t, NEW e,
           CommandsOK(c), WriterInv(c, O, s, d), O \subseteq Nat,
           s.pending # Nothing, v = s.pending,
           \/ t = s
           \/ /\ t \in WriterState /\ t.pending = Nothing /\ t.exhausted = v
              /\ t.latestGen = s.latestGen /\ t.deleteGen = s.deleteGen
              /\ t.latest = s.latest /\ t.durable = s.durable /\ t.log = s.log,
           e = d \/ (e = v /\ (s.log \/ d.rev <= v.rev))
    PROVE  WriterInv(c, O, t, e) /\ Passes(c, s, t) /\ StaysGone(O, s, d, O, t, e)
<1>0. s \in WriterState /\ d \in Version
    BY DEF WriterInv, TypesOK
<1>1. /\ s.pending.gen \in Nat /\ s.latest.gen \in Nat /\ s.exhausted.gen \in Nat
      /\ d.gen \in Nat /\ s.latestGen \in Nat /\ s.durable.gen \in Nat /\ s.durable.rev \in Nat
      /\ s.pending.rev \in Nat /\ s.latest.rev \in Nat /\ s.exhausted.rev \in Nat
      /\ d.rev \in Nat /\ Nothing.gen = 0 /\ Nothing.rev = 0 /\ v \in Version
    BY <1>0, WriterFacts, VersionFacts DEF Nothing
<1>2. IsSave(c, v) /\ (d.gen # 0 => d.rev <= v.rev) /\ s.exhausted.rev <= v.rev /\ v.gen >= 1
    BY <1>0, PendingNewer, WriterFacts, SaveFacts
<1>3. /\ s.durable.gen <= d.gen /\ s.durable.rev <= d.rev /\ (s.log => d.gen # 0)
      /\ v.gen >= d.gen /\ v.gen >= s.exhausted.gen
      /\ s.latest # Nothing => /\ s.latest.gen >= d.gen /\ s.latest.gen >= s.exhausted.gen
                               /\ s.latest.gen >= v.gen
    BY DEF WriterInv, OrderOK
<1>4. /\ Barred(O, s.latestGen, v.gen) /\ Barred(O, s.latestGen, s.latest.gen)
      /\ Barred(O, s.latestGen, s.exhausted.gen) /\ Barred(O, s.latestGen, d.gen)
    BY DEF WriterInv, BarriersOK
<1>5. Barred(O, s.latestGen, 0)
    BY <1>1 DEF Barred
<1>6. /\ t \in WriterState /\ t.latestGen = s.latestGen /\ t.deleteGen = s.deleteGen
      /\ t.latest = s.latest /\ t.durable = s.durable /\ t.log = s.log
      /\ \/ t.pending = v /\ t.exhausted = s.exhausted
         \/ t.pending = Nothing /\ t.exhausted = v
    BY <1>0, Zenon
<1>7. e \in Version /\ e.rev >= d.rev /\ (e = d \/ e = v)
    BY <1>0, <1>1, <1>2, <1>3
<1>8. TypesOK(t, e) /\ VersionsOK(c, t, e)
    BY <1>2, <1>6, <1>7 DEF WriterInv, TypesOK, VersionsOK
<1>9. OrderOK(t, e)
    <2>1. t.durable.gen <= e.gen /\ t.durable.rev <= e.rev
        BY <1>1, <1>3, <1>6, <1>7
    <2>2. t.log => e.gen # 0
        <3>1. s.log => e.gen # 0
            BY <1>1, <1>2, <1>3, <1>7
        <3> QED
            BY <1>6, <3>1, Zenon
    <2>3. t.pending # Nothing => t.pending.gen >= e.gen /\ t.pending.gen >= t.exhausted.gen
        BY <1>1, <1>3, <1>6, <1>7
    <2>4. t.latest # Nothing => /\ t.latest.gen >= e.gen /\ t.latest.gen >= t.exhausted.gen
                                /\ t.latest.gen >= t.pending.gen
        BY <1>1, <1>3, <1>6, <1>7
    <2> QED
        BY <2>1, <2>2, <2>3, <2>4 DEF OrderOK
<1>10. BarriersOK(O, t, e)
    BY <1>1, <1>4, <1>5, <1>6, <1>7 DEF BarriersOK
<1>11. Stored(t, e, t.latest.rev)
    <2>1. d.rev >= s.latest.rev \/ v.rev >= s.latest.rev \/ s.exhausted.rev >= s.latest.rev
        BY DEF WriterInv, Stored
    <2>2. e.rev \in Nat /\ v.rev \in Nat
        BY <1>1, <1>7
    <2> QED
        BY <1>1, <1>2, <1>6, <1>7, <2>1, <2>2 DEF Stored
<1>12. Passes(c, s, t)
    BY <1>6 DEF Passes, Survives
<1>13. Survives(c, t, t.latestGen)
    BY <1>1, <1>6, <1>12 DEF WriterInv, Passes
<1>14. StaysGone(O, s, d, O, t, e)
    BY <1>6, <1>7 DEF StaysGone, Gone
<1> QED
    BY <1>8, <1>9, <1>10, <1>11, <1>12, <1>13, <1>14 DEF WriterInv

\* write_session has no other outcome.
LEMMA WrittenFields ==
    ASSUME NEW s \in WriterState, NEW d \in Version, NEW v, v = s.pending,
           NEW r, r = Written(s, d)
    PROVE  WriteOutcome(s, d, v, r.w, r.disk) /\ r.failed = FALSE /\ r.faults = faults
<1> DEFINE found == [s EXCEPT !.durable = [gen |-> 0, rev |-> d.rev]]
           stored == [s EXCEPT !.durable = v, !.log = TRUE]
<1>1. v \in Version /\ d.rev \in Nat /\ v.rev \in Nat /\ d.rev <= MaxRevision
    BY WriterFacts, VersionFacts
<1>2. CASE s.durable.rev > v.rev
    <2>1. r = Result(Persisted(s, v), d, FALSE, faults)
        BY <1>2 DEF Written
    <2>2. r.w = Persisted(s, v) /\ r.disk = d /\ r.failed = FALSE /\ r.faults = faults
        BY <2>1 DEF Result
    <2>3. WriteRecorded(s, v, r.w)
        BY <1>1, <2>2, PersistedFields
    <2>4. PICK t : t = r.w
        OBVIOUS
    <2>5. WriteOutcome(s, d, v, t, d)
        BY <1>2, <2>3, <2>4 DEF WriteRecorded, WriteOutcome
    <2> QED
        BY <2>2, <2>4, <2>5
<1>3. CASE ~(s.durable.rev > v.rev) /\ ~s.log /\ d.rev > v.rev
    <2>1. r = Result(Persisted(found, v), d, FALSE, faults)
        BY <1>3 DEF Written
    <2>2. r.w = Persisted(found, v) /\ r.disk = d /\ r.failed = FALSE /\ r.faults = faults
        BY <2>1 DEF Result
    <2>3. [gen |-> 0, rev |-> d.rev] \in Version
        BY <1>1, WriterAssumption DEF Version
    <2>4. /\ found \in WriterState /\ found.latestGen = s.latestGen
          /\ found.deleteGen = s.deleteGen /\ found.latest = s.latest
          /\ found.exhausted = s.exhausted /\ found.durable = [gen |-> 0, rev |-> d.rev]
        BY <2>3 DEF WriterState
    <2>5. found.log = s.log
        BY DEF WriterState
    <2> HIDE DEF found
    <2>6. found.durable.gen = 0 /\ found.durable.rev = d.rev
        BY <2>4
    <2>7. WriteRecorded(found, v, r.w)
        BY <1>1, <2>2, <2>4, PersistedFields
    <2>8. PICK t : t = r.w
        OBVIOUS
    <2>9. WriteOutcome(s, d, v, t, d)
        BY <1>3, <2>4, <2>5, <2>6, <2>7, <2>8 DEF WriteRecorded, WriteOutcome
    <2> QED
        BY <2>2, <2>8, <2>9
<1>4. CASE ~(s.durable.rev > v.rev) /\ (s.log \/ ~(d.rev > v.rev))
    <2>1. r = Result(Persisted(stored, v), v, FALSE, faults)
        BY <1>4 DEF Written
    <2>2. r.w = Persisted(stored, v) /\ r.disk = v /\ r.failed = FALSE /\ r.faults = faults
        BY <2>1 DEF Result
    <2>3. /\ stored \in WriterState /\ stored.latestGen = s.latestGen
          /\ stored.deleteGen = s.deleteGen /\ stored.latest = s.latest
          /\ stored.exhausted = s.exhausted /\ stored.durable = v
        BY <1>1 DEF WriterState
    <2> HIDE DEF stored
    <2>4. WriteRecorded(stored, v, r.w)
        BY <1>1, <2>2, <2>3, PersistedFields
    <2>5. PICK t : t = r.w
        OBVIOUS
    <2>6. s.log \/ d.rev <= v.rev
        BY <1>1, <1>4
    <2>7. WriteOutcome(s, d, v, t, v)
        BY <1>1, <2>3, <2>4, <2>5, <2>6 DEF WriteRecorded, WriteOutcome
    <2> QED
        BY <2>2, <2>5, <2>7
<1> QED
    BY <1>2, <1>3, <1>4

\* A flush that did not fail leaves nothing pending.
Quiet(r) == r.failed \/ r.w.pending = Nothing

\* Every way in which flush can end keeps the invariant, whatever survives it does,
\* and no deletion is undone.
LEMMA FlushInv ==
    ASSUME NEW c, NEW O, NEW s, NEW d, CommandsOK(c), WriterInv(c, O, s, d),
           O \subseteq Nat, faults \in 0..MaxFaults, NEW r, r \in Flush(s, d)
    PROVE  /\ WriterInv(c, O, r.w, r.disk) /\ Passes(c, s, r.w)
           /\ StaysGone(O, s, d, O, r.w, r.disk)
           /\ r.faults \in 0..MaxFaults /\ r.failed \in BOOLEAN
           /\ Quiet(r)
<1>0. s \in WriterState /\ d \in Version /\ s.pending \in Version
    <2>1. s \in WriterState /\ d \in Version
        BY DEF WriterInv, TypesOK
    <2> QED
        BY <2>1, WriterFacts
<1>1. CASE s.pending = Nothing
    <2>1. r.w = s /\ r.disk = d /\ r.failed = FALSE /\ r.faults = faults
        BY <1>1 DEF Flush, Result
    <2> QED
        BY <1>1, <2>1 DEF Passes, StaysGone, Quiet
<1>2. CASE s.pending # Nothing /\ r = Written(s, d)
    <2>0. PICK v : v = s.pending
        OBVIOUS
    <2>1. WriteOutcome(s, d, v, r.w, r.disk) /\ r.failed = FALSE /\ r.faults = faults
        BY <1>0, <1>2, <2>0, WrittenFields
    <2>2. /\ WriterInv(c, O, r.w, r.disk) /\ Passes(c, s, r.w)
          /\ StaysGone(O, s, d, O, r.w, r.disk)
        BY <1>2, <2>0, <2>1, WriteInv
    <2> QED
        BY <2>1, <2>2 DEF WriteOutcome, Quiet
<1>3. CASE s.pending # Nothing /\ faults < MaxFaults /\ r \in Failures(s, d)
    <2> DEFINE given == [s EXCEPT !.pending = Nothing, !.exhausted = s.pending]
    <2>0. PICK v : v = s.pending
        OBVIOUS
    <2>1. PICK t \in {s, given}, e \in {d, Written(s, d).disk} : r = Result(t, e, TRUE, faults + 1)
        BY <1>3 DEF Failures, Result
    <2>2. r.w = t /\ r.disk = e /\ r.failed = TRUE /\ r.faults = faults + 1
        BY <2>1 DEF Result
    <2>3. Nothing \in Version
        BY WriterAssumption DEF Nothing, Version
    <2>4. /\ given \in WriterState /\ given.pending = Nothing /\ given.exhausted = v
          /\ given.latestGen = s.latestGen /\ given.deleteGen = s.deleteGen
          /\ given.latest = s.latest /\ given.durable = s.durable
        BY <1>0, <2>0, <2>3 DEF WriterState
    <2>5. given.log = s.log
        BY <1>0 DEF WriterState
    <2> HIDE DEF given
    <2>6. t = s \/ t = given
        BY <2>1
    <2>7. e = d \/ (e = v /\ (s.log \/ d.rev <= v.rev))
        <3>1. PICK q : q = Written(s, d)
            OBVIOUS
        <3>2. WriteOutcome(s, d, v, q.w, q.disk)
            BY <1>0, <2>0, <3>1, WrittenFields
        <3>3. q.disk = d \/ (q.disk = v /\ (s.log \/ d.rev <= v.rev))
            BY <3>2, Zenon DEF WriteOutcome
        <3> QED
            BY <2>1, <3>1, <3>3, Zenon
    <2>8. /\ WriterInv(c, O, t, e) /\ Passes(c, s, t) /\ StaysGone(O, s, d, O, t, e)
        BY <1>3, <2>0, <2>4, <2>5, <2>6, <2>7, FailInv
    <2>9. faults + 1 \in 0..MaxFaults
        BY <1>3, WriterAssumption
    <2> QED
        BY <2>2, <2>8, <2>9 DEF Quiet
<1> QED
    BY <1>1, <1>2, <1>3 DEF Flush

-----------------------------------------------------------------------------
(* Deleting.                                                               *)

\* What the deletion g leaves staged: u is t, whose pending snapshot may be replaced
\* by the latest one.
Withdrawn(s, g, u) ==
    /\ u \in WriterState
    /\ u.deleteGen = Raised(s.deleteGen, g) /\ u.latestGen = Raised(s.latestGen, g)
    /\ u.durable = s.durable /\ u.log = s.log /\ u.exhausted = s.exhausted
    /\ u.latest = IF s.latest.gen > u.deleteGen THEN s.latest ELSE Nothing
    /\ \/ u.pending = IF s.pending.gen > u.deleteGen THEN s.pending ELSE Nothing
       \/ u.latest # Nothing /\ u.pending = u.latest

\* Superseded withdraws what the deletion covers.
LEMMA SupersededFields ==
    ASSUME NEW s \in WriterState, NEW g \in 1..MaxGeneration
    PROVE  /\ Withdrawn(s, g, Superseded(s, g))
           /\ Superseded(s, g).pending =
                IF s.pending.gen > Superseded(s, g).deleteGen THEN s.pending ELSE Nothing
<1> DEFINE t == [s EXCEPT !.deleteGen = Raised(@, g), !.latestGen = Raised(@, g)]
           x == IF t.pending.gen > t.deleteGen THEN t.pending ELSE Nothing
           y == IF t.latest.gen > t.deleteGen THEN t.latest ELSE Nothing
           u == [t EXCEPT !.pending = x, !.latest = y]
<1>1. Superseded(s, g) = u
    BY DEF Superseded
<1>2. Raised(s.deleteGen, g) \in 0..MaxGeneration /\ Raised(s.latestGen, g) \in 0..MaxGeneration
    BY WriterAssumption DEF Raised, WriterState
<1>3. /\ t \in WriterState
      /\ t.deleteGen = Raised(s.deleteGen, g) /\ t.latestGen = Raised(s.latestGen, g)
      /\ t.durable = s.durable /\ t.log = s.log /\ t.exhausted = s.exhausted
      /\ t.latest = s.latest /\ t.pending = s.pending
    BY <1>2 DEF WriterState
<1>4. Nothing \in Version
    BY WriterAssumption DEF Nothing, Version
<1>5. x \in Version /\ y \in Version
    BY <1>3, <1>4, WriterFacts
<1> HIDE DEF t
<1>6. /\ x = IF s.pending.gen > t.deleteGen THEN s.pending ELSE Nothing
      /\ y = IF s.latest.gen > t.deleteGen THEN s.latest ELSE Nothing
    BY <1>3
<1> HIDE DEF x, y
<1>7. /\ u \in WriterState /\ u.pending = x /\ u.latest = y
      /\ u.deleteGen = t.deleteGen /\ u.latestGen = t.latestGen
      /\ u.durable = t.durable /\ u.log = t.log /\ u.exhausted = t.exhausted
    BY <1>3, <1>5 DEF WriterState
<1> HIDE DEF u
<1> QED
    BY <1>1, <1>3, <1>6, <1>7 DEF Withdrawn

\* A barrier is raised to the deletion or stays above it.
LEMMA RaisedFacts ==
    ASSUME NEW b \in Nat, NEW g \in Nat
    PROVE  /\ Raised(b, g) \in Nat /\ Raised(b, g) >= b /\ Raised(b, g) >= g
           /\ Raised(b, g) = b \/ Raised(b, g) = g
    BY DEF Raised

\* Withdrawing what a deletion covers keeps the invariant, when the latest snapshot,
\* if it is newer than the deletion, is pending or the file is newer too.
LEMMA WithdrawInv ==
    ASSUME NEW c, NEW O, NEW s, NEW d, NEW g, NEW u,
           CommandsOK(c), WriterInv(c, O, s, d), O \subseteq Nat,
           g \in DOMAIN c, c[g].kind = "delete", Withdrawn(s, g, u),
           \/ u.latest = Nothing \/ u.pending.rev >= u.latest.rev
           \/ u.durable.gen > u.deleteGen
    PROVE  /\ WriterInv(c, O, u, d) /\ Passes(c, s, u) /\ StaysGone(O, s, d, O, u, d)
           /\ u.deleteGen >= g
           /\ u.pending = Nothing \/ u.pending.gen > g
           /\ u.latest = Nothing \/ u.latest.gen > g
<1>0. s \in WriterState /\ d \in Version
    BY DEF WriterInv, TypesOK
<1>1. /\ s.pending.gen \in Nat /\ s.latest.gen \in Nat /\ s.exhausted.gen \in Nat
      /\ d.gen \in Nat /\ s.latestGen \in Nat /\ s.durable.gen \in Nat /\ s.deleteGen \in Nat
      /\ s.pending.rev \in Nat /\ s.latest.rev \in Nat /\ s.exhausted.rev \in Nat
      /\ d.rev \in Nat /\ Nothing.gen = 0 /\ Nothing.rev = 0
    BY <1>0, WriterFacts, VersionFacts DEF Nothing
<1>2. g \in Nat /\ g >= 1 /\ g <= MaxGeneration
    BY WriterAssumption DEF CommandsOK
<1>3. /\ u.deleteGen \in Nat /\ u.deleteGen >= s.deleteGen /\ u.deleteGen >= g
      /\ u.deleteGen = s.deleteGen \/ u.deleteGen = g
      /\ u.latestGen \in Nat /\ u.latestGen >= s.latestGen
      /\ u.latestGen = s.latestGen \/ u.latestGen = g
    <2>1. u.deleteGen = Raised(s.deleteGen, g) /\ u.latestGen = Raised(s.latestGen, g)
        BY DEF Withdrawn
    <2>2. /\ Raised(s.deleteGen, g) \in Nat /\ Raised(s.deleteGen, g) >= s.deleteGen
          /\ Raised(s.deleteGen, g) >= g
          /\ Raised(s.deleteGen, g) = s.deleteGen \/ Raised(s.deleteGen, g) = g
        BY <1>1, <1>2, RaisedFacts
    <2>3. /\ Raised(s.latestGen, g) \in Nat /\ Raised(s.latestGen, g) >= s.latestGen
          /\ Raised(s.latestGen, g) = s.latestGen \/ Raised(s.latestGen, g) = g
        BY <1>1, <1>2, RaisedFacts
    <2> QED
        BY <2>1, <2>2, <2>3
<1>4. u.deleteGen \in DOMAIN c /\ c[u.deleteGen].kind = "delete"
    BY <1>1, <1>2, <1>3 DEF WriterInv, VersionsOK
<1>5. /\ u \in WriterState /\ u.durable = s.durable /\ u.exhausted = s.exhausted
      /\ (u.latest = s.latest /\ s.latest.gen > u.deleteGen) \/ u.latest = Nothing
      /\ \/ u.pending = s.pending /\ s.pending.gen > u.deleteGen
         \/ u.pending = Nothing
         \/ u.pending = u.latest /\ u.latest # Nothing
      /\ s.pending.gen > u.deleteGen => u.pending = s.pending \/ u.pending = u.latest
    BY DEF Withdrawn
<1>6. /\ s.durable.gen <= d.gen /\ s.durable.rev <= d.rev
      /\ s.pending # Nothing => s.pending.gen >= d.gen /\ s.pending.gen >= s.exhausted.gen
      /\ s.latest # Nothing => /\ s.latest.gen >= d.gen /\ s.latest.gen >= s.exhausted.gen
                               /\ s.latest.gen >= s.pending.gen
    BY DEF WriterInv, OrderOK
<1>7. u.log => d.gen # 0
    BY Zenon DEF WriterInv, OrderOK, Withdrawn
<1>8. TypesOK(u, d) /\ VersionsOK(c, u, d)
    BY <1>4, <1>5 DEF WriterInv, TypesOK, VersionsOK
<1>9. OrderOK(u, d)
    <2>1. u.pending # Nothing => u.pending.gen >= d.gen /\ u.pending.gen >= u.exhausted.gen
        BY <1>1, <1>3, <1>5, <1>6
    <2>2. u.latest # Nothing => /\ u.latest.gen >= d.gen /\ u.latest.gen >= u.exhausted.gen
                                /\ u.latest.gen >= u.pending.gen
        BY <1>1, <1>3, <1>5, <1>6
    <2> QED
        BY <1>5, <1>6, <1>7, <2>1, <2>2 DEF OrderOK
<1>10. BarriersOK(O, u, d)
    <2>1. /\ Barred(O, s.latestGen, s.pending.gen) /\ Barred(O, s.latestGen, s.latest.gen)
          /\ Barred(O, s.latestGen, s.exhausted.gen) /\ Barred(O, s.latestGen, d.gen)
        BY DEF WriterInv, BarriersOK
    <2>2. \A x \in Nat : Barred(O, s.latestGen, x) => Barred(O, u.latestGen, x)
        BY <1>1, <1>3 DEF Barred
    <2>3. Barred(O, u.latestGen, 0)
        BY <1>3 DEF Barred
    <2>4. /\ Barred(O, u.latestGen, s.pending.gen) /\ Barred(O, u.latestGen, s.latest.gen)
          /\ Barred(O, u.latestGen, s.exhausted.gen) /\ Barred(O, u.latestGen, d.gen)
        BY <1>1, <2>1, <2>2
    <2> QED
        BY <1>1, <1>5, <2>3, <2>4 DEF BarriersOK
<1>11. Stored(u, d, u.latest.rev)
    <2>1. Stored(s, d, s.latest.rev)
        BY DEF WriterInv
    <2>2. CASE u.latest = Nothing
        BY <1>1, <2>2 DEF Stored
    <2>3. CASE u.pending.rev >= u.latest.rev
        BY <2>3 DEF Stored
    <2>4. CASE u.latest = s.latest /\ u.durable.gen > u.deleteGen
        <3>1. CASE s.pending = Nothing
            BY <1>1, <1>5, <2>1, <2>4, <3>1 DEF Stored
        <3>2. CASE s.pending # Nothing
            <4>1. s.pending.gen > u.deleteGen
                BY <1>1, <1>3, <1>5, <1>6, <2>4, <3>2
            <4>2. u.pending = s.pending \/ u.pending = u.latest
                BY <1>5, <4>1
            <4> QED
                BY <1>1, <1>5, <2>1, <2>4, <4>2 DEF Stored
        <3> QED
            BY <3>1, <3>2
    <2> QED
        BY <1>5, <2>2, <2>3, <2>4
<1>12. Passes(c, s, u)
    <2> SUFFICES ASSUME NEW x \in Nat, Survives(c, s, x)
                 PROVE  Survives(c, u, x)
        BY DEF Passes
    <2>1. CASE s.latest.gen >= x
        <3>1. CASE u.latest = s.latest
            BY <2>1, <3>1 DEF Survives
        <3>2. CASE ~(s.latest.gen > u.deleteGen)
            <4>1. u.deleteGen >= x
                BY <1>1, <1>3, <2>1, <3>2
            <4> QED
                BY <1>4, <4>1 DEF Survives, DeletedSince
        <3> QED
            BY <3>1, <3>2 DEF Withdrawn
    <2> QED
        BY <1>5, <2>1 DEF Survives
<1>13. Survives(c, u, u.latestGen)
    <2>1. CASE u.latestGen = s.latestGen
        BY <1>1, <1>12, <2>1 DEF Passes, WriterInv
    <2>2. CASE u.latestGen = g
        BY <1>2, <2>2 DEF Survives, DeletedSince
    <2> QED
        BY <1>3, <2>1, <2>2
<1>14. StaysGone(O, s, d, O, u, d)
    <2> SUFFICES ASSUME NEW x \in Nat, Gone(O, s, d, x)
                 PROVE  Gone(O, u, d, x)
        BY DEF StaysGone
    <2>1. Barred(O, u.deleteGen, x)
        BY <1>1, <1>3 DEF Gone, Barred
    <2>2. u.latest = Nothing \/ u.latest.gen > x
        BY <1>5 DEF Gone
    <2>3. u.pending = Nothing \/ u.pending.gen > x
        BY <1>5, <2>2 DEF Gone
    <2> QED
        BY <2>1, <2>2, <2>3 DEF Gone
<1>15. u.latest = Nothing \/ u.latest.gen > g
    BY <1>1, <1>2, <1>3, <1>5
<1>16. u.pending = Nothing \/ u.pending.gen > g
    BY <1>1, <1>2, <1>3, <1>5, <1>15
<1> QED
    BY <1>3, <1>8, <1>9, <1>10, <1>11, <1>12, <1>13, <1>14, <1>15, <1>16 DEF WriterInv

\* The state without what was known of the file.
Forgotten(s, t) ==
    /\ t \in WriterState /\ t.log = FALSE /\ t.durable = Nothing /\ t.exhausted = Nothing
    /\ t.pending = s.pending /\ t.latest = s.latest
    /\ t.latestGen = s.latestGen /\ t.deleteGen = s.deleteGen

\* Erased forgets the file and nothing else.
LEMMA ErasedFields ==
    ASSUME NEW s \in WriterState
    PROVE  Forgotten(s, Erased(s))
<1>1. Nothing \in Version
    BY WriterAssumption DEF Nothing, Version
<1> QED
    BY <1>1 DEF Forgotten, Erased, WriterState

\* Removing a file that is not newer than the deletion keeps the invariant, when
\* the latest snapshot is pending.
LEMMA EraseInv ==
    ASSUME NEW c, NEW O, NEW s, NEW d, NEW t,
           CommandsOK(c), WriterInv(c, O, s, d), O \subseteq Nat,
           s.deleteGen # 0, s.durable.gen <= s.deleteGen,
           s.latest = Nothing \/ s.pending.rev >= s.latest.rev, Forgotten(s, t)
    PROVE  /\ WriterInv(c, O, t, Nothing) /\ Passes(c, s, t)
           /\ StaysGone(O, s, d, O, t, Nothing)
<1>0. s \in WriterState /\ d \in Version
    BY DEF WriterInv, TypesOK
<1>1. /\ s.pending.gen \in Nat /\ s.latest.gen \in Nat /\ s.latestGen \in Nat
      /\ s.durable.gen \in Nat /\ s.deleteGen \in Nat
      /\ s.pending.rev \in Nat /\ s.latest.rev \in Nat
      /\ Nothing.gen = 0 /\ Nothing.rev = 0 /\ Nothing \in Version
    BY <1>0, WriterFacts, VersionFacts, WriterAssumption DEF Nothing, Version
<1>2. /\ t \in WriterState /\ t.durable = Nothing /\ t.exhausted = Nothing
      /\ t.pending = s.pending /\ t.latest = s.latest
      /\ t.latestGen = s.latestGen /\ t.deleteGen = s.deleteGen
    BY DEF Forgotten
<1>3. ~t.log
    BY Zenon DEF Forgotten
<1>4. TypesOK(t, Nothing) /\ VersionsOK(c, t, Nothing)
    BY <1>1, <1>2 DEF WriterInv, TypesOK, VersionsOK
<1>5. OrderOK(t, Nothing)
    BY <1>1, <1>2, <1>3 DEF WriterInv, OrderOK
<1>6. BarriersOK(O, t, Nothing)
    <2>1. Barred(O, s.latestGen, 0)
        BY <1>1 DEF Barred
    <2> QED
        BY <1>1, <1>2, <2>1 DEF WriterInv, BarriersOK
<1>7. Stored(t, Nothing, t.latest.rev)
    BY <1>1, <1>2 DEF Stored
<1>8. s.deleteGen \in DOMAIN c /\ c[s.deleteGen].kind = "delete"
    BY DEF WriterInv, VersionsOK
<1>9. Passes(c, s, t)
    BY <1>1, <1>2, <1>8 DEF Passes, Survives, DeletedSince
<1>10. Survives(c, t, t.latestGen)
    BY <1>1, <1>2, <1>9 DEF Passes, WriterInv
<1>11. StaysGone(O, s, d, O, t, Nothing)
    BY <1>2 DEF StaysGone, Gone
<1> QED
    BY <1>4, <1>5, <1>6, <1>7, <1>9, <1>10, <1>11 DEF WriterInv

\* A step of the writer that keeps the invariant, what survives, and the deletions.
Keeps(c, O, s, d, P, t, e) ==
    WriterInv(c, P, t, e) /\ Passes(c, s, t) /\ StaysGone(O, s, d, P, t, e)

\* Such steps compose.
LEMMA KeepsTwice ==
    ASSUME NEW c, NEW O, NEW s, NEW d, NEW P, NEW t, NEW e, NEW Q, NEW u, NEW f,
           Keeps(c, O, s, d, P, t, e), Keeps(c, P, t, e, Q, u, f)
    PROVE  Keeps(c, O, s, d, Q, u, f)
    BY DEF Keeps, Passes, StaysGone

\* A newer snapshot that crosses the deletion is pending again.
LEMMA CrossingFields ==
    ASSUME NEW s \in WriterState, NEW g \in 1..MaxGeneration, NEW t, t = Superseded(s, g),
           t.latest # Nothing, NEW u, u = QueuePending(t, t.latest)
    PROVE  /\ Withdrawn(s, g, u) /\ u.pending.rev >= u.latest.rev
           /\ u.deleteGen = t.deleteGen /\ u.durable = t.durable
<1>1. /\ Withdrawn(s, g, t)
      /\ t.pending = IF s.pending.gen > t.deleteGen THEN s.pending ELSE Nothing
    BY SupersededFields
<1>2. t \in WriterState
    BY <1>1 DEF Withdrawn
<1>3. /\ t.latest \in Version /\ t.pending \in Version
      /\ t.latest.rev \in Nat /\ t.pending.rev \in Nat
    BY <1>2, WriterFacts, VersionFacts
<1>4. CASE u = [t EXCEPT !.pending = t.latest]
    <2>1. /\ u \in WriterState /\ u.pending = t.latest /\ u.latest = t.latest
          /\ u.deleteGen = t.deleteGen /\ u.latestGen = t.latestGen
          /\ u.durable = t.durable /\ u.log = t.log /\ u.exhausted = t.exhausted
        BY <1>2, <1>3, <1>4 DEF WriterState
    <2>2. u.pending.rev >= u.latest.rev
        BY <1>3, <2>1
    <2>3. Withdrawn(s, g, u)
        BY <1>1, <2>1, Zenon DEF Withdrawn
    <2> QED
        BY <2>1, <2>2, <2>3
<1>5. CASE u = t /\ t.pending.rev >= t.latest.rev
    BY <1>1, <1>5
<1> QED
    BY <1>3, <1>4, <1>5 DEF QueuePending

\* Every way in which a deletion can end keeps the invariant and undoes no earlier
\* deletion, and one that succeeds holds itself.
LEMMA DeleteInv ==
    ASSUME NEW c, NEW O, NEW s, CommandsOK(c), WriterInv(c, O, s, disk), O \subseteq Nat,
           faults \in 0..MaxFaults, NEW g, g \in DOMAIN c, c[g].kind = "delete",
           NEW x, x \in DeleteResults(s, g)
    PROVE  /\ Keeps(c, O, s, disk, O, x.r.w, x.r.disk)
           /\ x.r.faults \in 0..MaxFaults /\ x.ok \in BOOLEAN
           /\ x.ok = FALSE \/ Gone(O, x.r.w, x.r.disk, g)
<1>0. s \in WriterState /\ disk \in Version /\ g \in 1..MaxGeneration /\ g \in Nat
    BY WriterAssumption DEF WriterInv, TypesOK, CommandsOK
<1>1. PICK t : t = Superseded(s, g)
    OBVIOUS
<1>2. PICK u : u = IF t.latest = Nothing THEN t ELSE QueuePending(t, t.latest)
    OBVIOUS
<1>3. /\ Withdrawn(s, g, t) /\ t \in WriterState
    BY <1>0, <1>1, SupersededFields DEF Withdrawn
<1>4. /\ Withdrawn(s, g, u) /\ u.deleteGen = t.deleteGen /\ u.durable = t.durable
      /\ u.latest = Nothing \/ u.pending.rev >= u.latest.rev
    <2>1. CASE t.latest = Nothing
        BY <1>2, <1>3, <2>1
    <2>2. CASE t.latest # Nothing
        BY <1>0, <1>1, <1>2, <2>2, CrossingFields
    <2> QED
        BY <2>1, <2>2
<1>5. /\ Keeps(c, O, s, disk, O, u, disk) /\ u.deleteGen >= g
      /\ u.pending = Nothing \/ u.pending.gen > g
      /\ u.latest = Nothing \/ u.latest.gen > g
    BY <1>4, WithdrawInv DEF Keeps
<1>6. u \in WriterState /\ u.deleteGen \in Nat /\ u.durable.gen \in Nat
    <2>1. u \in WriterState
        BY <1>4 DEF Withdrawn
    <2> QED
        BY <2>1, WriterFacts, VersionFacts
\* The file is removed.
<1>7. ASSUME t.durable.gen <= t.deleteGen
      PROVE  Keeps(c, O, s, disk, O, Erased(u), Nothing) /\ Gone(O, Erased(u), Nothing, g)
    <2>1. PICK e : e = Erased(u)
        OBVIOUS
    <2>2. Forgotten(u, e)
        BY <1>6, <2>1, ErasedFields
    <2>3. Keeps(c, O, u, disk, O, e, Nothing)
        <3>1. u.deleteGen # 0 /\ u.durable.gen <= u.deleteGen
            BY <1>0, <1>4, <1>5, <1>6, <1>7
        <3>2. WriterInv(c, O, u, disk)
            BY <1>5 DEF Keeps
        <3> QED
            BY <1>4, <2>2, <3>1, <3>2, EraseInv DEF Keeps
    <2>4. Keeps(c, O, s, disk, O, e, Nothing)
        BY <1>5, <2>3, KeepsTwice
    <2>5. Gone(O, e, Nothing, g)
        <3>1. e.pending = u.pending /\ e.latest = u.latest /\ e.deleteGen = u.deleteGen
            BY <2>2 DEF Forgotten
        <3>2. Barred(O, e.deleteGen, g)
            BY <1>0, <1>5, <3>1 DEF Barred
        <3> QED
            BY <1>5, <3>1, <3>2 DEF Gone
    <2> QED
        BY <2>1, <2>4, <2>5
\* The file is newer than the deletion.
<1>8. CASE t.durable.gen > t.deleteGen /\ x = [r |-> Result(t, disk, FALSE, faults), ok |-> TRUE]
    <2>1. x.r.w = t /\ x.r.disk = disk /\ x.r.faults = faults /\ x.ok = TRUE
        BY <1>8 DEF Result
    <2>2. /\ Keeps(c, O, s, disk, O, t, disk) /\ t.deleteGen >= g
          /\ t.pending = Nothing \/ t.pending.gen > g
          /\ t.latest = Nothing \/ t.latest.gen > g
        BY <1>3, <1>8, WithdrawInv DEF Keeps
    <2>3. t.durable.gen \in Nat /\ t.deleteGen \in Nat /\ disk.gen \in Nat
        BY <1>0, <1>3, WriterFacts, VersionFacts
    <2>4. t.durable.gen <= disk.gen
        BY <2>2 DEF Keeps, WriterInv, OrderOK
    <2>5. disk.gen > g
        BY <1>0, <1>8, <2>2, <2>3, <2>4
    <2>6. Gone(O, t, disk, g)
        BY <2>2, <2>5 DEF Gone, Barred
    <2> QED
        BY <2>1, <2>2, <2>6
\* There is nothing to write after the removal.
<1>9. CASE /\ ~(t.durable.gen > t.deleteGen) /\ t.latest = Nothing
           /\ x.r = Result(Erased(t), Nothing, FALSE, faults) /\ x.ok \in BOOLEAN
    <2>1. x.r.w = Erased(u) /\ x.r.disk = Nothing /\ x.r.faults = faults
        BY <1>2, <1>9 DEF Result
    <2>2. t.durable.gen <= t.deleteGen
        BY <1>4, <1>6, <1>9
    <2> QED
        BY <1>7, <1>9, <2>1, <2>2
\* The crossing snapshot is written after the removal.
<1>10. CASE /\ ~(t.durable.gen > t.deleteGen) /\ t.latest # Nothing
            /\ x.r \in Flush(Erased(u), Nothing) /\ x.ok \in BOOLEAN
    <2>1. t.durable.gen <= t.deleteGen
        BY <1>4, <1>6, <1>10
    <2>2. Keeps(c, O, s, disk, O, Erased(u), Nothing) /\ Gone(O, Erased(u), Nothing, g)
        BY <1>7, <2>1
    <2>3. PICK e, r : e = Erased(u) /\ r = x.r
        OBVIOUS
    <2>4. WriterInv(c, O, e, Nothing) /\ r \in Flush(e, Nothing)
        BY <1>10, <2>2, <2>3 DEF Keeps
    <2>5. Keeps(c, O, e, Nothing, O, r.w, r.disk) /\ r.faults \in 0..MaxFaults
        BY <2>4, FlushInv DEF Keeps
    <2>6. Keeps(c, O, s, disk, O, r.w, r.disk)
        BY <2>2, <2>3, <2>5, KeepsTwice
    <2>7. Gone(O, r.w, r.disk, g)
        BY <1>0, <2>2, <2>3, <2>5 DEF Keeps, StaysGone
    <2> QED
        BY <1>10, <2>3, <2>5, <2>6, <2>7
\* The removal failed.
<1>11. CASE /\ ~(t.durable.gen > t.deleteGen) /\ faults # MaxFaults /\ x.ok = FALSE
            /\ \E d \in {disk, Nothing} :
                 x.r = Result(IF d = Nothing THEN Erased(u) ELSE [u EXCEPT !.log = FALSE],
                              d, TRUE, faults + 1)
    <2>1. t.durable.gen <= t.deleteGen /\ faults + 1 \in 0..MaxFaults
        BY <1>4, <1>6, <1>11, WriterAssumption
    <2>2. PICK d \in {disk, Nothing} :
                 x.r = Result(IF d = Nothing THEN Erased(u) ELSE [u EXCEPT !.log = FALSE],
                              d, TRUE, faults + 1)
        BY <1>11
    <2>3. CASE d = Nothing
        <3>1. x.r.w = Erased(u) /\ x.r.disk = Nothing /\ x.r.faults = faults + 1
            BY <2>2, <2>3 DEF Result
        <3> QED
            BY <1>7, <1>11, <2>1, <3>1
    <2>4. CASE d = disk /\ d # Nothing
        <3> DEFINE e == [u EXCEPT !.log = FALSE]
        <3>1. x.r.w = e /\ x.r.disk = disk /\ x.r.faults = faults + 1
            BY <2>2, <2>4 DEF Result
        <3>2. /\ e \in WriterState /\ e.pending = u.pending /\ e.latest = u.latest
              /\ e.exhausted = u.exhausted /\ e.durable = u.durable
              /\ e.latestGen = u.latestGen /\ e.deleteGen = u.deleteGen
            BY <1>6 DEF WriterState
        <3>3. ~e.log
            BY <1>6 DEF WriterState
        <3> HIDE DEF e
        <3>4. WriterInv(c, O, u, disk)
            BY <1>5 DEF Keeps
        <3>5. OrderOK(e, disk)
            BY <3>2, <3>3, <3>4 DEF WriterInv, OrderOK
        <3>6. WriterInv(c, O, e, disk)
            BY <3>2, <3>4, <3>5 DEF WriterInv, TypesOK, VersionsOK, BarriersOK, Stored, Survives
        <3>7. Keeps(c, O, u, disk, O, e, disk)
            BY <3>2, <3>6 DEF Keeps, Passes, Survives, StaysGone, Gone
        <3>8. Keeps(c, O, s, disk, O, e, disk)
            BY <1>5, <3>7, KeepsTwice
        <3> QED
            BY <1>11, <2>1, <3>1, <3>8
    <2> QED
        BY <2>2, <2>3, <2>4
<1>12. \/ t.durable.gen > t.deleteGen /\ x = [r |-> Result(t, disk, FALSE, faults), ok |-> TRUE]
       \/ /\ ~(t.durable.gen > t.deleteGen)
          /\ \/ /\ t.latest = Nothing
                /\ x.r = Result(Erased(t), Nothing, FALSE, faults) /\ x.ok \in BOOLEAN
             \/ /\ t.latest # Nothing
                /\ x.r \in Flush(Erased(u), Nothing) /\ x.ok \in BOOLEAN
             \/ /\ faults # MaxFaults /\ x.ok = FALSE
                /\ \E d \in {disk, Nothing} :
                     x.r = Result(IF d = Nothing THEN Erased(u) ELSE [u EXCEPT !.log = FALSE],
                                  d, TRUE, faults + 1)
    <2> DEFINE A == IF t.latest = Nothing THEN {Result(Erased(t), Nothing, FALSE, faults)}
                    ELSE Flush(Erased(u), Nothing)
               F(d) == [r |-> Result(IF d = Nothing THEN Erased(u) ELSE [u EXCEPT !.log = FALSE],
                                     d, TRUE, faults + 1), ok |-> FALSE]
               B == IF faults = MaxFaults THEN {} ELSE {F(d) : d \in {disk, Nothing}}
    <2>1. DeleteResults(s, g) =
            IF t.durable.gen > t.deleteGen
            THEN {[r |-> Result(t, disk, FALSE, faults), ok |-> TRUE]}
            ELSE {[r |-> r, ok |-> ~r.failed] : r \in A} \cup B
        BY <1>1, <1>2, Zenon DEF DeleteResults
    <2>2. CASE t.durable.gen > t.deleteGen
        BY <2>1, <2>2
    <2>3. CASE ~(t.durable.gen > t.deleteGen)
        <3> HIDE DEF A, B
        <3>1. x \in {[r |-> r, ok |-> ~r.failed] : r \in A} \/ x \in B
            BY <2>1, <2>3
        <3>2. CASE x \in B
            <4>1. faults # MaxFaults /\ \E d \in {disk, Nothing} : x = F(d)
                BY <3>2 DEF B
            <4>2. PICK d \in {disk, Nothing} : x = F(d)
                BY <4>1
            <4>3. x.ok = FALSE
                BY <4>2
            <4>4. x.r = Result(IF d = Nothing THEN Erased(u) ELSE [u EXCEPT !.log = FALSE],
                               d, TRUE, faults + 1)
                BY <4>2
            <4> QED
                BY <2>3, <4>1, <4>3, <4>4
        <3>3. CASE x \in {[r |-> r, ok |-> ~r.failed] : r \in A}
            <4>1. PICK r \in A : x = [r |-> r, ok |-> ~r.failed]
                BY <3>3
            <4>2. x.r = r /\ x.ok \in BOOLEAN
                BY <4>1
            <4> QED
                BY <2>3, <4>1, <4>2 DEF A
        <3> QED
            BY <3>1, <3>2, <3>3
    <2> QED
        BY <2>2, <2>3
<1> QED
    BY <1>8, <1>9, <1>10, <1>11, <1>12

-----------------------------------------------------------------------------
(* The callers' side of the invariant.                                     *)

\* Where a command can be, and that it is outstanding until it is staged; a caller
\* completes only a generation that has left the inbox.
RowOK(c, i, O, g) ==
    /\ c[g].kind = "send" => c[g].pc \in {"reserved", "filling", "sent"}
    /\ c[g].kind # "send" => c[g].pc \in {"reserved", "queued", "ok", "err"}
    /\ c[g].pc \in {"reserved", "queued"} => g \in O
    /\ c[g].drop # 0 => /\ c[g].drop \in DOMAIN c /\ c[g].drop # i.gen
                        /\ c[c[g].drop].kind = "send" /\ c[c[g].drop].pc # "reserved"

RowsOK(c, i, O) == \A g \in DOMAIN c : RowOK(c, i, O, g)

InboxOK(c, i, O) ==
    i = Nothing \/ (/\ IsSave(c, i) /\ i.gen \in O
                    /\ c[i.gen].kind = "send" /\ c[i.gen].pc # "reserved")

\* Queued commands are in the channel, once each.
OpsOK(c, q) ==
    /\ \A i \in DOMAIN q : q[i].op \in {"persist", "delete"} =>
          /\ q[i].gen \in DOMAIN c
          /\ c[q[i].gen].pc = "queued" /\ c[q[i].gen].kind = q[i].op
    /\ \A i, j \in DOMAIN q :
          /\ q[i].op \in {"persist", "delete"} /\ q[j].op \in {"persist", "delete"}
          /\ q[i].gen = q[j].gen
          => i = j
    /\ \A g \in DOMAIN c : c[g].pc = "queued" =>
          \E i \in DOMAIN q : q[i].op \in {"persist", "delete"} /\ q[i].gen = g

\* A save that has left its caller is in the inbox, replaced there, or survives.
SavesOK(c, i, s) == \A g \in DOMAIN c : c[g].kind # "delete" =>
    /\ c[g].pc \in {"filling", "sent"} => i.gen >= g \/ Survives(c, s, g)
    /\ c[g].pc \in {"ok", "err"} => Survives(c, s, g)

DeletesOK(c, O, s, d) ==
    \A g \in DOMAIN c : c[g].kind = "delete" /\ c[g].pc = "ok" => Gone(O, s, d, g)

\* After the sender is dropped no call is under way.
EndOK(c, st) ==
    st # "running" => \A g \in DOMAIN c : c[g].pc \notin {"reserved", "filling"}

StaticOK ==
    /\ open \subseteq DOMAIN cmds /\ inbox \in Version /\ wake \in BOOLEAN
    /\ ops \in Seq(Op) /\ faults \in 0..MaxFaults
    /\ status \in {"running", "closed", "ok", "err"}

CallsInv ==
    /\ CommandsOK(cmds) /\ StaticOK
    /\ RowsOK(cmds, inbox, open) /\ InboxOK(cmds, inbox, open)
    /\ OpsOK(cmds, ops) /\ EndOK(cmds, status)

Inv ==
    /\ CallsInv /\ WriterInv(cmds, open, w, disk)
    /\ SavesOK(cmds, inbox, w) /\ DeletesOK(cmds, open, w, disk)
    /\ CleanShutdown

\* Commands are added and move on; their kinds and revisions stay.
Extends(c, e) ==
    \A g \in DOMAIN c : g \in DOMAIN e /\ e[g].kind = c[g].kind /\ e[g].rev = c[g].rev

\* What the writer holds depends on the callers only through kinds, revisions and
\* outstanding generations, and a new generation is above every barrier.
LEMMA CallersInv ==
    ASSUME NEW c, NEW O, NEW s, NEW d, NEW e, NEW P,
           CommandsOK(c), CommandsOK(e), WriterInv(c, O, s, d), Extends(c, e), P \subseteq Nat,
           \A o \in P : o \in O \/ o > Len(c)
    PROVE  /\ WriterInv(e, P, s, d)
           /\ \A x \in Nat : Survives(c, s, x) => Survives(e, s, x)
           /\ \A x \in DOMAIN c : Gone(O, s, d, x) => Gone(P, s, d, x)
<1>0. s \in WriterState /\ d \in Version
    BY DEF WriterInv, TypesOK
<1>1. /\ s.pending \in Version /\ s.latest \in Version /\ s.exhausted \in Version
      /\ s.pending.gen \in Nat /\ s.latest.gen \in Nat /\ s.exhausted.gen \in Nat
      /\ d.gen \in Nat /\ s.latestGen \in Nat /\ s.deleteGen \in Nat
      /\ Len(c) \in Nat /\ Nothing.gen = 0 /\ DOMAIN c = 1..Len(c)
    BY <1>0, WriterFacts, VersionFacts DEF Nothing, CommandsOK
<1>2. VersionsOK(e, s, d)
    BY DEF WriterInv, VersionsOK, IsSave, Extends
<1>3. \A b, x \in Nat : Barred(O, b, x) /\ x <= Len(c) => Barred(P, b, x)
    BY <1>1 DEF Barred
<1>4. BarriersOK(P, s, d)
    <2>1. /\ s.pending.gen <= Len(c) /\ s.latest.gen <= Len(c) /\ s.exhausted.gen <= Len(c)
          /\ d.gen <= Len(c)
        BY <1>0, <1>1 DEF WriterInv, VersionsOK, IsSave
    <2> QED
        BY <1>1, <1>3, <2>1 DEF WriterInv, BarriersOK
<1>5. \A x \in Nat : Survives(c, s, x) => Survives(e, s, x)
    BY DEF Survives, DeletedSince, Extends
<1>6. \A x \in DOMAIN c : Gone(O, s, d, x) => Gone(P, s, d, x)
    BY <1>1, <1>3 DEF Gone
<1> QED
    BY <1>1, <1>2, <1>4, <1>5, <1>6 DEF WriterInv

\* A generation up to one that survives does.
LEMMA SurvivesDown ==
    ASSUME NEW c, NEW s, CommandsOK(c), s \in WriterState, NEW x \in Nat, NEW y \in Nat,
           x <= y, Survives(c, s, y)
    PROVE  Survives(c, s, x)
<1>1. s.durable.gen \in Nat /\ s.latest.gen \in Nat
    BY WriterFacts, VersionFacts
<1>2. ASSUME DeletedSince(c, y)
      PROVE  DeletedSince(c, x)
    <2>1. PICK h \in DOMAIN c : h >= y /\ c[h].kind = "delete"
        BY <1>2 DEF DeletedSince
    <2>2. h \in Nat /\ h >= x
        BY <2>1 DEF CommandsOK
    <2> QED
        BY <2>1, <2>2 DEF DeletedSince
<1> QED
    BY <1>1, <1>2 DEF Survives

\* When the inbox is taken and staged, every save that has left its caller survives.
LEMMA SavesTaken ==
    ASSUME NEW c, NEW i, NEW s, NEW t, CommandsOK(c), i \in Version, t \in WriterState,
           SavesOK(c, i, s), Passes(c, s, t), i = Nothing \/ Survives(c, t, i.gen)
    PROVE  \A g \in DOMAIN c : c[g].kind # "delete" /\ c[g].pc \in {"filling", "sent", "ok", "err"}
                               => Survives(c, t, g)
<1> SUFFICES ASSUME NEW g \in DOMAIN c, c[g].kind # "delete",
                    c[g].pc \in {"filling", "sent", "ok", "err"}
             PROVE  Survives(c, t, g)
    OBVIOUS
<1>1. g \in Nat /\ g >= 1 /\ i.gen \in Nat /\ Nothing.gen = 0
    BY VersionFacts DEF CommandsOK, Nothing
<1>2. CASE Survives(c, s, g)
    BY <1>1, <1>2 DEF Passes
<1>3. CASE i.gen >= g
    <2>1. i # Nothing
        BY <1>1, <1>3
    <2> QED
        BY <1>1, <1>3, <2>1, SurvivesDown
<1> QED
    BY <1>2, <1>3 DEF SavesOK

\* Only command g moves on.
Moved(c, e, g) ==
    /\ CommandsOK(e) /\ DOMAIN e = DOMAIN c /\ Extends(c, e)
    /\ \A h \in DOMAIN c : h # g => e[h] = c[h]

\* Replacing the row of g by one of the same kind and revision.
LEMMA MovedRow ==
    ASSUME NEW c, NEW e, CommandsOK(c), NEW g \in DOMAIN c, NEW r \in Command,
           r.kind = c[g].kind, r.rev = c[g].rev, e = [c EXCEPT ![g] = r]
    PROVE  Moved(c, e, g) /\ e[g] = r
<1>1. c \in Seq(Command)
    BY DEF CommandsOK
<1>2. /\ e \in Seq(Command) /\ Len(e) = Len(c) /\ DOMAIN e = DOMAIN c /\ e[g] = r
      /\ \A k \in DOMAIN c : k # g => e[k] = c[k]
    BY <1>1, ExceptEntries
<1>3. Extends(c, e)
    BY <1>2 DEF Extends
<1>4. CommandsOK(e)
    BY <1>2, <1>3 DEF CommandsOK, Extends
<1> QED
    BY <1>2, <1>3, <1>4 DEF Moved

\* The channel after a step that neither queues nor answers a command.
LEMMA OpsSame ==
    ASSUME NEW c, NEW e, NEW q, NEW g, g \in DOMAIN c, Moved(c, e, g), OpsOK(c, q),
           c[g].pc # "queued", e[g].pc # "queued"
    PROVE  OpsOK(e, q)
<1>1. \A h \in DOMAIN c : (e[h].pc = "queued" <=> c[h].pc = "queued") /\ e[h].kind = c[h].kind
    BY DEF Moved, Extends
<1> QED
    BY <1>1 DEF OpsOK, Moved

\* A wake or a load in the channel.
LEMMA OpsOther ==
    ASSUME NEW c, NEW q \in Seq(Op), OpsOK(c, q), NEW o \in Op, o.op \notin {"persist", "delete"}
    PROVE  OpsOK(c, Append(q, o))
<1>1. PICK t : t = Append(q, o)
    OBVIOUS
<1>2. /\ Len(q) \in Nat /\ DOMAIN q = 1..Len(q) /\ DOMAIN t = 1..(Len(q) + 1)
      /\ t[Len(q) + 1] = o /\ \A k \in 1..Len(q) : t[k] = q[k]
    BY <1>1, AppendEntries
<1>3. \A k \in DOMAIN t : t[k].op \in {"persist", "delete"} => k \in DOMAIN q /\ t[k] = q[k]
    BY <1>2
<1>4. \A k \in DOMAIN q : k \in DOMAIN t /\ t[k] = q[k]
    BY <1>2
<1>5. OpsOK(c, t)
    BY <1>3, <1>4 DEF OpsOK
<1> QED
    BY <1>1, <1>5

\* A command enters the channel.
LEMMA OpsSubmitted ==
    ASSUME NEW c, NEW e, NEW q \in Seq(Op), NEW g, g \in DOMAIN c, Moved(c, e, g), OpsOK(c, q),
           c[g].pc # "queued", e[g].pc = "queued", NEW o \in Op, o.gen = g,
           o.op \in {"persist", "delete"}, c[g].kind = o.op
    PROVE  OpsOK(e, Append(q, o))
<1>1. PICK t : t = Append(q, o)
    OBVIOUS
<1>2. /\ Len(q) \in Nat /\ DOMAIN q = 1..Len(q) /\ DOMAIN t = 1..(Len(q) + 1)
      /\ t[Len(q) + 1] = o /\ \A k \in 1..Len(q) : t[k] = q[k]
    BY <1>1, AppendEntries
<1>3. PICK n : n = Len(q) + 1
    OBVIOUS
<1>4. /\ n \in DOMAIN t /\ t[n] = o
      /\ \A k \in DOMAIN t : k # n => k \in DOMAIN q /\ t[k] = q[k]
      /\ \A k \in DOMAIN q : k # n /\ k \in DOMAIN t /\ t[k] = q[k]
    BY <1>2, <1>3
<1>5. /\ DOMAIN e = DOMAIN c /\ \A h \in DOMAIN c : h # g => e[h] = c[h]
      /\ e[g].kind = c[g].kind
    BY DEF Moved, Extends
<1>6. \A k \in DOMAIN q : q[k].op \in {"persist", "delete"} => q[k].gen # g
    BY DEF OpsOK
<1>7. ASSUME NEW k \in DOMAIN t, t[k].op \in {"persist", "delete"}
      PROVE  /\ t[k].gen \in DOMAIN e /\ e[t[k].gen].pc = "queued"
             /\ e[t[k].gen].kind = t[k].op
    BY <1>4, <1>5, <1>6, <1>7 DEF OpsOK
<1>8. ASSUME NEW k \in DOMAIN t, NEW j \in DOMAIN t, t[k].op \in {"persist", "delete"},
             t[j].op \in {"persist", "delete"}, t[k].gen = t[j].gen
      PROVE  k = j
    BY <1>4, <1>6, <1>8 DEF OpsOK
<1>9. ASSUME NEW h \in DOMAIN e, e[h].pc = "queued"
      PROVE  \E k \in DOMAIN t : t[k].op \in {"persist", "delete"} /\ t[k].gen = h
    BY <1>4, <1>5, <1>9 DEF OpsOK
<1>10. OpsOK(e, t)
    BY <1>7, <1>8, <1>9 DEF OpsOK
<1> QED
    BY <1>1, <1>10

\* The head of the channel is taken: a wake, a load, or a command that is answered.
LEMMA OpsTaken ==
    ASSUME NEW c, NEW e, NEW q \in Seq(Op), q # <<>>, OpsOK(c, q),
           \/ e = c /\ Head(q).op \notin {"persist", "delete"}
           \/ /\ Head(q).op \in {"persist", "delete"}
              /\ Moved(c, e, Head(q).gen) /\ e[Head(q).gen].pc # "queued"
    PROVE  OpsOK(e, Tail(q))
<1>1. PICK t : t = Tail(q)
    OBVIOUS
<1>2. /\ Len(q) \in Nat \ {0} /\ 1 \in DOMAIN q /\ Head(q) = q[1]
      /\ DOMAIN q = 1..Len(q) /\ DOMAIN t = 1..(Len(q) - 1)
      /\ \A k \in DOMAIN t : t[k] = q[k + 1] /\ k + 1 \in DOMAIN q
    BY <1>1, TailEntries
<1>3. \A k \in DOMAIN t : k \in Nat /\ k + 1 # 1
    BY <1>2
<1>4. \A k \in DOMAIN q : k = 1 \/ \E j \in DOMAIN t : j + 1 = k
    <2> TAKE k \in DOMAIN q
    <2>1. CASE k # 1
        <3>1. k - 1 \in DOMAIN t /\ (k - 1) + 1 = k
            BY <1>2, <2>1
        <3> QED
            BY <3>1
    <2> QED
        BY <2>1
<1>5. \A k, j \in DOMAIN t : k + 1 = j + 1 => k = j
    BY <1>3
<1>6. ASSUME NEW k \in DOMAIN t, t[k].op \in {"persist", "delete"}
      PROVE  /\ t[k].gen \in DOMAIN e /\ e[t[k].gen].pc = "queued"
             /\ e[t[k].gen].kind = t[k].op
    <2>1. /\ t[k].gen \in DOMAIN c /\ c[t[k].gen].pc = "queued"
          /\ c[t[k].gen].kind = t[k].op
        BY <1>2, <1>6 DEF OpsOK
    <2>2. Head(q).op \in {"persist", "delete"} => t[k].gen # Head(q).gen
        BY <1>2, <1>3, <1>6 DEF OpsOK
    <2> QED
        BY <2>1, <2>2 DEF Moved
<1>7. ASSUME NEW k \in DOMAIN t, NEW j \in DOMAIN t, t[k].op \in {"persist", "delete"},
             t[j].op \in {"persist", "delete"}, t[k].gen = t[j].gen
      PROVE  k = j
    <2>1. k + 1 = j + 1
        BY <1>2, <1>7 DEF OpsOK
    <2> QED
        BY <1>5, <2>1
<1>8. ASSUME NEW h \in DOMAIN e, e[h].pc = "queued"
      PROVE  \E k \in DOMAIN t : t[k].op \in {"persist", "delete"} /\ t[k].gen = h
    <2>1. h \in DOMAIN c /\ c[h].pc = "queued"
        BY <1>8 DEF Moved
    <2>2. PICK k \in DOMAIN q : q[k].op \in {"persist", "delete"} /\ q[k].gen = h
        BY <2>1 DEF OpsOK
    <2>3. k # 1
        BY <1>2, <1>8, <2>2
    <2>4. PICK j \in DOMAIN t : j + 1 = k
        BY <1>4, <2>3
    <2> QED
        BY <1>2, <2>2, <2>4
<1>9. OpsOK(e, t)
    BY <1>6, <1>7, <1>8 DEF OpsOK
<1> QED
    BY <1>1, <1>9

-----------------------------------------------------------------------------
(* The initial state and the callers' steps.                               *)

\* The initial states satisfy the invariant.
LEMMA InitInv ==
    Init => Inv
<1> SUFFICES ASSUME Init
             PROVE  Inv
    OBVIOUS
<1> USE DEF Init
<1>0. cmds = <<>> /\ DOMAIN cmds = {} /\ Len(cmds) = 0 /\ cmds \in Seq(Command)
    OBVIOUS
<1>1. CommandsOK(cmds)
    BY <1>0, WriterAssumption DEF CommandsOK
<1>2. Nothing \in Version /\ Nothing.gen = 0 /\ Nothing.rev = 0
    BY WriterAssumption DEF Nothing, Version
<1>3. ops \in Seq(Op) /\ DOMAIN ops = {}
    OBVIOUS
<1>4. StaticOK
    <2>1. wake \in BOOLEAN
        BY Zenon
    <2>2. /\ open \subseteq DOMAIN cmds /\ inbox \in Version /\ faults \in 0..MaxFaults
          /\ status \in {"running", "closed", "ok", "err"}
        BY <1>2, WriterAssumption
    <2> QED
        BY <1>3, <2>1, <2>2, Zenon DEF StaticOK
<1>5. CallsInv
    BY <1>0, <1>1, <1>3, <1>4 DEF CallsInv, RowsOK, InboxOK, OpsOK, EndOK
<1>6. disk \in Version /\ disk.gen = 0 /\ disk.rev \in Nat
    BY WriterAssumption DEF Version
<1>7. /\ w \in WriterState /\ w.pending = Nothing /\ w.latest = Nothing
      /\ w.durable = Nothing /\ w.exhausted = Nothing /\ w.latestGen = 0 /\ w.deleteGen = 0
    BY <1>2, WriterAssumption DEF FreshWriter, WriterState
<1>8. ~w.log
    BY DEF FreshWriter
<1>9. WriterInv(cmds, open, w, disk)
    <2>1. TypesOK(w, disk) /\ VersionsOK(cmds, w, disk)
        BY <1>6, <1>7 DEF TypesOK, VersionsOK
    <2>2. OrderOK(w, disk)
        BY <1>2, <1>6, <1>7, <1>8 DEF OrderOK
    <2>3. BarriersOK(open, w, disk)
        BY <1>2, <1>6, <1>7 DEF BarriersOK, Barred
    <2>4. Stored(w, disk, w.latest.rev) /\ Survives(cmds, w, w.latestGen)
        BY <1>2, <1>6, <1>7 DEF Stored, Survives
    <2> QED
        BY <2>1, <2>2, <2>3, <2>4 DEF WriterInv
<1>10. SavesOK(cmds, inbox, w) /\ DeletesOK(cmds, open, w, disk) /\ CleanShutdown
    BY <1>0 DEF SavesOK, DeletesOK, CleanShutdown
<1> QED
    BY <1>5, <1>9, <1>10 DEF Inv

\* Reserving a generation keeps the invariant.
LEMMA ReserveInv ==
    ASSUME Inv, NEW kind \in Kinds, NEW rev \in 0..MaxRevision, kind # "delete" => rev >= 1,
           Reserve(kind, rev)
    PROVE  Inv'
<1> DEFINE row == [kind |-> kind, rev |-> rev, pc |-> "reserved", drop |-> 0, rouse |-> FALSE]
<1>0. PICK n : n = Len(cmds) + 1
    OBVIOUS
<1>1. /\ cmds' = Append(cmds, row) /\ open' = open \cup {n} /\ status = "running"
      /\ Len(cmds) < MaxGeneration
      /\ inbox' = inbox /\ wake' = wake /\ ops' = ops /\ w' = w /\ disk' = disk
      /\ faults' = faults /\ status' = status
      /\ kind # "delete" => Current(rev)
    BY <1>0 DEF Reserve
<1>2. row \in Command /\ row.kind = kind /\ row.rev = rev /\ row.pc = "reserved" /\ row.drop = 0
    BY WriterAssumption DEF Command, Stages
<1> HIDE DEF row
<1>3. /\ CommandsOK(cmds) /\ StaticOK /\ RowsOK(cmds, inbox, open) /\ InboxOK(cmds, inbox, open)
      /\ OpsOK(cmds, ops) /\ EndOK(cmds, status) /\ cmds \in Seq(Command)
    BY DEF Inv, CallsInv, CommandsOK
<1>4. /\ cmds' \in Seq(Command) /\ Len(cmds) \in Nat /\ DOMAIN cmds = 1..Len(cmds)
      /\ DOMAIN cmds' = 1..(Len(cmds) + 1) /\ cmds'[n] = row
      /\ \A k \in 1..Len(cmds) : cmds'[k] = cmds[k]
    BY <1>0, <1>1, <1>2, <1>3, AppendEntries
<1>5. /\ DOMAIN cmds' = DOMAIN cmds \cup {n} /\ n \notin DOMAIN cmds /\ n \in Nat /\ n > Len(cmds)
      /\ \A k \in DOMAIN cmds : cmds'[k] = cmds[k] /\ k < n
    BY <1>0, <1>4
<1>6. Extends(cmds, cmds')
    BY <1>5 DEF Extends
<1>7. CommandsOK(cmds')
    <2>1. Len(cmds') <= MaxGeneration
        BY <1>1, <1>3, <1>2, WriterAssumption
    <2>2. \A g \in DOMAIN cmds' : cmds'[g].kind # "delete" => cmds'[g].rev >= 1
        BY <1>2, <1>3, <1>4, <1>5 DEF CommandsOK
    <2>3. ASSUME NEW g \in DOMAIN cmds', NEW h \in DOMAIN cmds', g <= h,
                 cmds'[g].kind # "delete", cmds'[h].kind # "delete"
          PROVE  cmds'[g].rev <= cmds'[h].rev
        <3>1. CASE h = n /\ g # n
            <4>1. g \in DOMAIN cmds /\ cmds[g].rev <= rev
                BY <1>1, <1>2, <1>4, <1>5, <2>3, <3>1 DEF Current
            <4> QED
                BY <1>2, <1>4, <1>5, <3>1, <4>1
        <3>2. CASE h = n /\ g = n
            BY <1>2, <1>4, <3>2
        <3>3. CASE h # n
            <4>1. h \in DOMAIN cmds /\ h < n
                BY <1>5, <3>3
            <4>a. g # n /\ g \in DOMAIN cmds
                BY <1>4, <1>5, <2>3, <4>1
            <4> QED
                BY <1>3, <1>5, <2>3, <4>1, <4>a DEF CommandsOK
        <3> QED
            BY <3>1, <3>2, <3>3
    <2> QED
        BY <1>4, <2>1, <2>2, <2>3 DEF CommandsOK
<1>8. StaticOK'
    BY <1>1, <1>3, <1>5 DEF StaticOK
<1>9. RowsOK(cmds', inbox', open')
    <2>1. RowOK(cmds', inbox', open', n)
        BY <1>1, <1>2, <1>4 DEF RowOK
    <2>2. ASSUME NEW g \in DOMAIN cmds
          PROVE  RowOK(cmds', inbox', open', g)
        <3>1. RowOK(cmds, inbox, open, g)
            BY <1>3 DEF RowsOK
        <3> QED
            BY <1>1, <1>5, <3>1 DEF RowOK
    <2> QED
        BY <1>5, <2>1, <2>2 DEF RowsOK
<1>10. InboxOK(cmds', inbox', open')
    BY <1>1, <1>3, <1>5 DEF InboxOK, IsSave
<1>11. OpsOK(cmds', ops')
    BY <1>1, <1>2, <1>3, <1>4, <1>5 DEF OpsOK
<1>12. EndOK(cmds', status')
    BY <1>1 DEF EndOK
<1>13. /\ WriterInv(cmds', open', w, disk)
       /\ \A x \in Nat : Survives(cmds, w, x) => Survives(cmds', w, x)
       /\ \A x \in DOMAIN cmds : Gone(open, w, disk, x) => Gone(open', w, disk, x)
    <2>1. open' \subseteq Nat /\ \A o \in open' : o \in open \/ o > Len(cmds)
        BY <1>1, <1>3, <1>4, <1>5 DEF StaticOK
    <2>2. WriterInv(cmds, open, w, disk)
        BY DEF Inv
    <2> QED
        BY <1>3, <1>6, <1>7, <2>1, <2>2, CallersInv
<1>14. SavesOK(cmds', inbox', w')
    <2>1. SavesOK(cmds, inbox, w)
        BY DEF Inv
    <2>2. \A g \in DOMAIN cmds : g \in Nat
        BY <1>4
    <2> QED
        BY <1>1, <1>2, <1>4, <1>5, <1>13, <2>1, <2>2 DEF SavesOK
<1>15. DeletesOK(cmds', open', w', disk')
    <2>1. DeletesOK(cmds, open, w, disk)
        BY DEF Inv
    <2> QED
        BY <1>1, <1>2, <1>4, <1>5, <1>13, <2>1 DEF DeletesOK
<1>16. CleanShutdown'
    BY <1>1 DEF CleanShutdown
<1> QED
    BY <1>1, <1>7, <1>8, <1>9, <1>10, <1>11, <1>12, <1>13, <1>14, <1>15, <1>16 DEF Inv, CallsInv

\* What a caller's step with command g means for the writer's side.
LEMMA MoveInv ==
    ASSUME Inv, NEW g, g \in DOMAIN cmds, Moved(cmds, cmds', g), open' \subseteq open,
           w' = w, disk' = disk
    PROVE  /\ WriterInv(cmds', open', w', disk')
           /\ \A h \in DOMAIN cmds : Survives(cmds, w, h) => Survives(cmds', w', h)
           /\ \A h \in DOMAIN cmds : Gone(open, w, disk, h) => Gone(open', w', disk', h)
<1>1. CommandsOK(cmds) /\ WriterInv(cmds, open, w, disk) /\ StaticOK
    BY DEF Inv, CallsInv
<1>2. DOMAIN cmds \subseteq Nat
    BY <1>1 DEF CommandsOK
<1>3. CommandsOK(cmds') /\ Extends(cmds, cmds')
    BY DEF Moved
<1>4. open' \subseteq Nat /\ \A o \in open' : o \in open \/ o > Len(cmds)
    BY <1>1, <1>2 DEF StaticOK
<1>5. /\ WriterInv(cmds', open', w, disk)
      /\ \A x \in Nat : Survives(cmds, w, x) => Survives(cmds', w, x)
      /\ \A x \in DOMAIN cmds : Gone(open, w, disk, x) => Gone(open', w, disk, x)
    BY <1>1, <1>3, <1>4, CallersInv
<1> QED
    BY <1>2, <1>5

\* A snapshot put in the inbox, or left out for a newer one, keeps the invariant.
LEMMA EnqueueInv ==
    ASSUME Inv, NEW g \in DOMAIN cmds, Enqueue(g)
    PROVE  Inv'
<1> DEFINE newer == inbox.gen < g
<1>0. /\ CommandsOK(cmds) /\ StaticOK /\ RowsOK(cmds, inbox, open) /\ InboxOK(cmds, inbox, open)
      /\ OpsOK(cmds, ops) /\ EndOK(cmds, status) /\ SavesOK(cmds, inbox, w)
      /\ DeletesOK(cmds, open, w, disk) /\ cmds \in Seq(Command)
    BY DEF Inv, CallsInv, CommandsOK
<1>1. /\ cmds[g].kind = "send" /\ cmds[g].pc = "reserved" /\ cmds[g] \in Command
      /\ g \in Nat /\ g >= 1 /\ g <= MaxGeneration
      /\ inbox.gen \in Nat /\ inbox.gen <= MaxGeneration /\ Nothing.gen = 0
    BY <1>0, VersionFacts, WriterAssumption DEF Enqueue, CommandsOK, StaticOK, Nothing
<1>2. /\ open' = open /\ ops' = ops /\ w' = w /\ disk' = disk /\ faults' = faults
      /\ status' = status
    BY DEF Enqueue
<1>3. inbox' = IF newer THEN V(g) ELSE inbox
    BY DEF Enqueue
<1>4. wake' \in BOOLEAN
    BY <1>0 DEF Enqueue, StaticOK
<1>5. PICK r \in Command :
         /\ cmds' = [cmds EXCEPT ![g] = r] /\ r.kind = cmds[g].kind /\ r.rev = cmds[g].rev
         /\ r.pc = "filling" /\ r.drop = IF newer THEN inbox.gen ELSE g
    <2> DEFINE r == [cmds[g] EXCEPT !.pc = "filling",
                                    !.drop = IF newer THEN inbox.gen ELSE g,
                                    !.rouse = newer /\ ~wake]
    <2>1. cmds' = [cmds EXCEPT ![g] = r]
        BY <1>0, <1>1 DEF Enqueue
    <2>2. PICK k, b : k = (IF newer THEN inbox.gen ELSE g) /\ b = (newer /\ ~wake)
        OBVIOUS
    <2>3. k \in 0..MaxGeneration
        BY <1>1, <2>2
    <2>4. b \in BOOLEAN
        BY <2>2
    <2>5. r = [cmds[g] EXCEPT !.pc = "filling", !.drop = k, !.rouse = b]
        BY <2>2, Zenon
    <2> HIDE DEF r
    <2>6. /\ r \in Command /\ r.kind = cmds[g].kind /\ r.rev = cmds[g].rev
          /\ r.pc = "filling" /\ r.drop = k
        BY <1>1, <2>3, <2>4, <2>5 DEF Command, Stages
    <2> QED
        BY <2>1, <2>2, <2>6
<1>6. Moved(cmds, cmds', g) /\ cmds'[g] = r
    BY <1>0, <1>5, MovedRow
<1>7. /\ CommandsOK(cmds') /\ DOMAIN cmds' = DOMAIN cmds
      /\ \A h \in DOMAIN cmds : /\ h # g => cmds'[h] = cmds[h]
                                /\ cmds'[h].kind = cmds[h].kind /\ cmds'[h].rev = cmds[h].rev
    BY <1>6 DEF Moved, Extends
<1>8. status = "running"
    BY <1>0, <1>1 DEF EndOK
<1>9. inbox # Nothing => inbox.gen >= 1 /\ inbox.gen # g
    <2> SUFFICES ASSUME inbox # Nothing
                 PROVE  inbox.gen >= 1 /\ inbox.gen # g
        OBVIOUS
    <2>1. inbox.gen \in DOMAIN cmds /\ cmds[inbox.gen].pc # "reserved"
        BY <1>0 DEF InboxOK, IsSave
    <2>2. \A h \in DOMAIN cmds : h >= 1
        BY <1>0
    <2> QED
        BY <1>1, <2>1, <2>2
<1>10. inbox'.gen = IF newer THEN g ELSE inbox.gen
    BY <1>3 DEF V
<1>11. V(g) \in Version /\ V(g).gen = g /\ V(g).rev = cmds[g].rev
    BY <1>1 DEF V, Version, Command
<1>12. StaticOK'
    BY <1>0, <1>2, <1>3, <1>4, <1>7, <1>11 DEF StaticOK
<1>13. InboxOK(cmds', inbox', open')
    <2>1. CASE newer
        <3>1. g \in open
            BY <1>0, <1>1 DEF RowsOK, RowOK
        <3> QED
            BY <1>1, <1>2, <1>3, <1>5, <1>6, <1>7, <1>11, <2>1, <3>1 DEF InboxOK, IsSave
    <2>2. CASE ~newer
        BY <1>0, <1>2, <1>3, <1>7, <1>9, <2>2 DEF InboxOK, IsSave
    <2> QED
        BY <2>1, <2>2
<1>14. RowsOK(cmds', inbox', open')
    <2> SUFFICES ASSUME NEW h \in DOMAIN cmds
                 PROVE  RowOK(cmds', inbox', open', h)
        BY <1>7 DEF RowsOK
    <2>0. RowOK(cmds, inbox, open, h)
        BY <1>0 DEF RowsOK
    <2>1. CASE h = g
        <3>1. CASE newer /\ inbox = Nothing
            BY <1>1, <1>2, <1>5, <1>6, <2>1, <3>1 DEF RowOK
        <3>2. CASE newer /\ inbox # Nothing
            <4>1. /\ inbox.gen \in DOMAIN cmds /\ cmds[inbox.gen].kind = "send"
                  /\ cmds[inbox.gen].pc # "reserved" /\ inbox.gen # g
                BY <1>0, <1>9, <3>2 DEF InboxOK, IsSave
            <4> QED
                BY <1>1, <1>2, <1>5, <1>6, <1>7, <1>10, <2>1, <3>2, <4>1 DEF RowOK
        <3>3. CASE ~newer
            <4>1. inbox # Nothing
                BY <1>1, <3>3
            <4> QED
                BY <1>1, <1>2, <1>5, <1>6, <1>7, <1>9, <1>10, <2>1, <3>3, <4>1 DEF RowOK
        <3> QED
            BY <3>1, <3>2, <3>3
    <2>2. CASE h # g
        <3>1. cmds'[h] = cmds[h]
            BY <1>7, <2>2
        <3>2. ASSUME cmds[h].drop # 0
              PROVE  /\ cmds[h].drop # g /\ cmds[h].drop # inbox'.gen
                     /\ cmds'[cmds[h].drop] = cmds[cmds[h].drop]
            BY <1>1, <1>7, <1>10, <2>0, <3>2 DEF RowOK
        <3> QED
            BY <1>2, <1>7, <2>0, <3>1, <3>2 DEF RowOK
    <2> QED
        BY <2>1, <2>2
<1>15. OpsOK(cmds', ops')
    BY <1>0, <1>1, <1>2, <1>5, <1>6, OpsSame
<1>16. EndOK(cmds', status') /\ CleanShutdown'
    BY <1>2, <1>8 DEF EndOK, CleanShutdown
<1>17. /\ WriterInv(cmds', open', w', disk')
       /\ \A h \in DOMAIN cmds : Survives(cmds, w, h) => Survives(cmds', w', h)
       /\ \A h \in DOMAIN cmds : Gone(open, w, disk, h) => Gone(open', w', disk', h)
    BY <1>2, <1>6, MoveInv
<1>18. SavesOK(cmds', inbox', w')
    <2>1. inbox'.gen >= inbox.gen /\ inbox'.gen >= g /\ inbox'.gen \in Nat
        BY <1>1, <1>10
    <2>2. \A h \in DOMAIN cmds : h \in Nat
        BY <1>0
    <2> SUFFICES ASSUME NEW h \in DOMAIN cmds, cmds'[h].kind # "delete"
                 PROVE  /\ cmds'[h].pc \in {"filling", "sent"}
                             => inbox'.gen >= h \/ Survives(cmds', w', h)
                        /\ cmds'[h].pc \in {"ok", "err"} => Survives(cmds', w', h)
        BY <1>7 DEF SavesOK
    <2>3. CASE h = g
        BY <1>5, <1>6, <2>1, <2>3
    <2>4. CASE h # g
        <3>1. cmds'[h] = cmds[h]
            BY <1>7, <2>4
        <3> QED
            BY <1>0, <1>1, <1>17, <2>1, <2>2, <3>1 DEF SavesOK
    <2> QED
        BY <2>3, <2>4
<1>19. DeletesOK(cmds', open', w', disk')
    BY <1>0, <1>1, <1>7, <1>17 DEF DeletesOK
<1> QED
    BY <1>7, <1>12, <1>13, <1>14, <1>15, <1>16, <1>17, <1>18, <1>19 DEF Inv, CallsInv

\* A caller that leaves the inbox completes a generation that is no longer there.
LEMMA LeaveInv ==
    ASSUME Inv, NEW g \in DOMAIN cmds, Leave(g)
    PROVE  Inv'
<1>0. /\ CommandsOK(cmds) /\ StaticOK /\ RowsOK(cmds, inbox, open) /\ InboxOK(cmds, inbox, open)
      /\ OpsOK(cmds, ops) /\ EndOK(cmds, status) /\ SavesOK(cmds, inbox, w)
      /\ DeletesOK(cmds, open, w, disk) /\ cmds \in Seq(Command)
    BY DEF Inv, CallsInv, CommandsOK
<1>1. /\ cmds[g].pc = "filling" /\ cmds[g] \in Command /\ g \in Nat
      /\ \A h \in DOMAIN cmds : h # 0
    BY <1>0 DEF Leave
<1>2. /\ inbox' = inbox /\ wake' = wake /\ w' = w /\ disk' = disk /\ faults' = faults
      /\ status' = status
    BY DEF Leave
<1>3. PICK k : k = cmds[g].drop
    OBVIOUS
<1>4. open' = open \ {k}
    BY <1>3 DEF Leave
<1>5. PICK r \in Command :
         /\ cmds' = [cmds EXCEPT ![g] = r] /\ r.kind = cmds[g].kind /\ r.rev = cmds[g].rev
         /\ r.pc = "sent" /\ r.drop = 0
    <2> DEFINE r == [cmds[g] EXCEPT !.pc = "sent", !.drop = 0, !.rouse = FALSE]
    <2>1. cmds' = [cmds EXCEPT ![g] = r]
        BY <1>0, <1>1 DEF Leave
    <2>2. PICK n, b : n = 0 /\ b = FALSE
        OBVIOUS
    <2>3. n \in 0..MaxGeneration
        BY <2>2, WriterAssumption
    <2>4. b \in BOOLEAN
        BY <2>2, Zenon
    <2>5. r = [cmds[g] EXCEPT !.pc = "sent", !.drop = n, !.rouse = b]
        BY <2>2, Zenon
    <2> HIDE DEF r
    <2>6. /\ r \in Command /\ r.kind = cmds[g].kind /\ r.rev = cmds[g].rev
          /\ r.pc = "sent" /\ r.drop = n
        BY <1>1, <2>3, <2>4, <2>5 DEF Command, Stages
    <2> QED
        BY <2>1, <2>2, <2>6
<1>6. Moved(cmds, cmds', g) /\ cmds'[g] = r
    BY <1>0, <1>5, MovedRow
<1>7. /\ CommandsOK(cmds') /\ DOMAIN cmds' = DOMAIN cmds
      /\ \A h \in DOMAIN cmds : /\ h # g => cmds'[h] = cmds[h]
                                /\ cmds'[h].kind = cmds[h].kind /\ cmds'[h].rev = cmds[h].rev
                                /\ cmds'[h].pc = "reserved" <=> cmds[h].pc = "reserved"
    BY <1>1, <1>5, <1>6 DEF Moved, Extends
<1>8. status = "running"
    BY <1>0, <1>1 DEF EndOK
<1>9. k # 0 => /\ k \in DOMAIN cmds /\ k # inbox.gen /\ cmds[k].kind = "send"
               /\ cmds[k].pc \in {"filling", "sent"}
    <2>1. k # 0 => k \in DOMAIN cmds /\ k # inbox.gen /\ cmds[k].kind = "send"
                   /\ cmds[k].pc # "reserved"
        BY <1>0, <1>3 DEF RowsOK, RowOK
    <2> QED
        BY <1>0, <2>1 DEF RowsOK, RowOK
<1>10. ops' \in Seq(Op) /\ OpsOK(cmds, ops')
    <2> DEFINE o == [op |-> "wake", gen |-> 0]
    <2>1. o \in Op /\ o.op \notin {"persist", "delete"}
        BY WriterAssumption DEF Op
    <2>2. ops' = Append(ops, o) \/ ops' = ops
        BY DEF Leave
    <2> HIDE DEF o
    <2>3. ops \in Seq(Op)
        BY <1>0 DEF StaticOK
    <2>4. Append(ops, o) \in Seq(Op)
        BY <2>1, <2>3
    <2> QED
        BY <1>0, <2>1, <2>2, <2>3, <2>4, OpsOther
<1>11. OpsOK(cmds', ops')
    BY <1>1, <1>5, <1>6, <1>10, OpsSame
<1>12. StaticOK'
    BY <1>0, <1>2, <1>4, <1>7, <1>10 DEF StaticOK
<1>13. InboxOK(cmds', inbox', open')
    <2>1. CASE inbox = Nothing
        BY <1>2, <2>1 DEF InboxOK
    <2>2. CASE inbox # Nothing
        <3>1. /\ inbox.gen \in DOMAIN cmds /\ cmds[inbox.gen].pc # "reserved"
              /\ inbox.gen \in open /\ IsSave(cmds, inbox) /\ cmds[inbox.gen].kind = "send"
            BY <1>0, <2>2 DEF InboxOK, IsSave
        <3>2. inbox.gen # k
            BY <1>1, <1>9, <3>1
        <3> QED
            BY <1>2, <1>4, <1>7, <3>1, <3>2 DEF InboxOK, IsSave
    <2> QED
        BY <2>1, <2>2
<1>14. RowsOK(cmds', inbox', open')
    <2> SUFFICES ASSUME NEW h \in DOMAIN cmds
                 PROVE  RowOK(cmds', inbox', open', h)
        BY <1>7 DEF RowsOK
    <2>0. RowOK(cmds, inbox, open, h)
        BY <1>0 DEF RowsOK
    <2>1. CASE h = g
        BY <1>1, <1>5, <1>6, <1>7, <2>0, <2>1 DEF RowOK
    <2>2. CASE h # g
        <3>1. cmds'[h] = cmds[h]
            BY <1>7, <2>2
        <3>2. cmds[h].pc \in {"reserved", "queued"} => h \in open'
            BY <1>4, <1>1, <1>9, <2>0 DEF RowOK
        <3> QED
            BY <1>2, <1>7, <2>0, <3>1, <3>2 DEF RowOK
    <2> QED
        BY <2>1, <2>2
<1>15. EndOK(cmds', status') /\ CleanShutdown'
    BY <1>2, <1>8 DEF EndOK, CleanShutdown
<1>16. /\ WriterInv(cmds', open', w', disk')
       /\ \A h \in DOMAIN cmds : Survives(cmds, w, h) => Survives(cmds', w', h)
       /\ \A h \in DOMAIN cmds : Gone(open, w, disk, h) => Gone(open', w', disk', h)
    BY <1>2, <1>4, <1>6, MoveInv
<1>17. SavesOK(cmds', inbox', w')
    BY <1>0, <1>1, <1>2, <1>5, <1>6, <1>7, <1>16 DEF SavesOK
<1>18. DeletesOK(cmds', open', w', disk')
    BY <1>0, <1>1, <1>5, <1>6, <1>7, <1>16 DEF DeletesOK
<1> QED
    BY <1>7, <1>11, <1>12, <1>13, <1>14, <1>15, <1>16, <1>17, <1>18 DEF Inv, CallsInv

\* A command that enters the channel keeps the invariant.
LEMMA SubmitInv ==
    ASSUME Inv, NEW g \in DOMAIN cmds, Submit(g)
    PROVE  Inv'
<1>0. /\ CommandsOK(cmds) /\ StaticOK /\ RowsOK(cmds, inbox, open) /\ InboxOK(cmds, inbox, open)
      /\ OpsOK(cmds, ops) /\ EndOK(cmds, status) /\ SavesOK(cmds, inbox, w)
      /\ DeletesOK(cmds, open, w, disk) /\ cmds \in Seq(Command)
    BY DEF Inv, CallsInv, CommandsOK
<1>1. /\ cmds[g].kind \in {"persist", "delete"} /\ cmds[g].pc = "reserved"
      /\ cmds[g] \in Command /\ g \in 0..MaxGeneration
    <2>1. cmds[g] \in Command /\ g \in 0..MaxGeneration
        BY <1>0, WriterAssumption DEF CommandsOK
    <2>2. cmds[g].kind \in Kinds
        BY <2>1 DEF Command
    <2>3. cmds[g].kind # "send" /\ cmds[g].pc = "reserved"
        BY DEF Submit
    <2> QED
        BY <2>1, <2>2, <2>3 DEF Kinds
<1>2. /\ open' = open /\ inbox' = inbox /\ wake' = wake /\ w' = w /\ disk' = disk
      /\ faults' = faults /\ status' = status
    BY DEF Submit
<1>3. PICK r \in Command :
         /\ cmds' = [cmds EXCEPT ![g] = r] /\ r.kind = cmds[g].kind /\ r.rev = cmds[g].rev
         /\ r.pc = "queued" /\ r.drop = cmds[g].drop
    <2> DEFINE r == [cmds[g] EXCEPT !.pc = "queued"]
    <2>1. cmds' = [cmds EXCEPT ![g] = r]
        BY <1>0, <1>1 DEF Submit
    <2>2. /\ r \in Command /\ r.kind = cmds[g].kind /\ r.rev = cmds[g].rev
          /\ r.pc = "queued" /\ r.drop = cmds[g].drop
        BY <1>1 DEF Command, Stages
    <2> QED
        BY <2>1, <2>2
<1>4. Moved(cmds, cmds', g) /\ cmds'[g] = r
    BY <1>0, <1>3, MovedRow
<1>5. /\ CommandsOK(cmds') /\ DOMAIN cmds' = DOMAIN cmds
      /\ \A h \in DOMAIN cmds : /\ h # g => cmds'[h] = cmds[h]
                                /\ cmds'[h].kind = cmds[h].kind /\ cmds'[h].rev = cmds[h].rev
                                /\ cmds'[h].pc = "reserved" => cmds[h].pc = "reserved"
                                /\ cmds'[h].drop = cmds[h].drop
    BY <1>3, <1>4 DEF Moved, Extends
<1>6. status = "running"
    BY <1>0, <1>1 DEF EndOK
<1>7. ops' \in Seq(Op) /\ OpsOK(cmds', ops')
    <2> DEFINE o == [op |-> cmds[g].kind, gen |-> g]
    <2>1. o \in Op /\ o.gen = g /\ o.op = cmds[g].kind
        BY <1>1 DEF Op
    <2>2. ops' = Append(ops, o)
        BY DEF Submit
    <2> HIDE DEF o
    <2>3. ops \in Seq(Op)
        BY <1>0 DEF StaticOK
    <2>4. Append(ops, o) \in Seq(Op)
        BY <2>1, <2>3
    <2>5. OpsOK(cmds', Append(ops, o))
        BY <1>0, <1>1, <1>3, <1>4, <2>1, <2>3, OpsSubmitted
    <2> QED
        BY <2>2, <2>4, <2>5
<1>8. StaticOK'
    BY <1>0, <1>2, <1>5, <1>7 DEF StaticOK
<1>9. InboxOK(cmds', inbox', open')
    BY <1>0, <1>2, <1>5 DEF InboxOK, IsSave
<1>10. RowsOK(cmds', inbox', open')
    <2> SUFFICES ASSUME NEW h \in DOMAIN cmds
                 PROVE  RowOK(cmds', inbox', open', h)
        BY <1>5 DEF RowsOK
    <2>0. RowOK(cmds, inbox, open, h)
        BY <1>0 DEF RowsOK
    <2>1. CASE h = g
        BY <1>1, <1>2, <1>3, <1>4, <1>5, <2>0, <2>1 DEF RowOK
    <2>2. CASE h # g
        BY <1>2, <1>5, <2>0, <2>2 DEF RowOK
    <2> QED
        BY <2>1, <2>2
<1>11. EndOK(cmds', status') /\ CleanShutdown'
    BY <1>2, <1>6 DEF EndOK, CleanShutdown
<1>12. /\ WriterInv(cmds', open', w', disk')
       /\ \A h \in DOMAIN cmds : Survives(cmds, w, h) => Survives(cmds', w', h)
       /\ \A h \in DOMAIN cmds : Gone(open, w, disk, h) => Gone(open', w', disk', h)
    BY <1>2, <1>4, MoveInv
<1>13. SavesOK(cmds', inbox', w')
    BY <1>0, <1>1, <1>2, <1>3, <1>4, <1>5, <1>12 DEF SavesOK
<1>14. DeletesOK(cmds', open', w', disk')
    BY <1>0, <1>1, <1>3, <1>4, <1>5, <1>12 DEF DeletesOK
<1> QED
    BY <1>5, <1>7, <1>8, <1>9, <1>10, <1>11, <1>12, <1>13, <1>14 DEF Inv, CallsInv

\* Loads and the end of the last handle keep the invariant.
LEMMA AskCloseInv ==
    ASSUME Inv, AskLatest \/ Close
    PROVE  Inv'
<1>0. /\ StaticOK /\ OpsOK(cmds, ops)
    BY DEF Inv, CallsInv
<1>1. CASE AskLatest
    <2>1. /\ cmds' = cmds /\ open' = open /\ inbox' = inbox /\ wake' = wake /\ w' = w
          /\ disk' = disk /\ faults' = faults /\ status' = status
        BY <1>1 DEF AskLatest
    <2> DEFINE o == [op |-> "latest", gen |-> 0]
    <2>2. o \in Op /\ o.op \notin {"persist", "delete"}
        BY WriterAssumption DEF Op
    <2>3. ops' = Append(ops, o)
        BY <1>1 DEF AskLatest
    <2> HIDE DEF o
    <2>4. ops \in Seq(Op)
        BY <1>0 DEF StaticOK
    <2>5. ops' \in Seq(Op) /\ OpsOK(cmds, ops')
        BY <1>0, <2>2, <2>3, <2>4, OpsOther, AppendEntries
    <2>6. StaticOK'
        BY <1>0, <2>1, <2>5 DEF StaticOK
    <2>7. CleanShutdown'
        BY <2>1 DEF Inv, CleanShutdown, Saves, Covers, DeletedAfter
    <2> QED
        BY <2>1, <2>5, <2>6, <2>7 DEF Inv, CallsInv
<1>2. CASE Close
    <2>1. /\ cmds' = cmds /\ open' = open /\ inbox' = inbox /\ wake' = wake /\ w' = w
          /\ ops' = ops /\ disk' = disk /\ faults' = faults /\ status' = "closed"
        BY <1>2 DEF Close, caller
    <2>2. StaticOK'
        BY <1>0, <2>1 DEF StaticOK
    <2>3. EndOK(cmds', status')
        BY <1>2, <2>1 DEF EndOK, Close
    <2>4. CleanShutdown'
        BY <2>1 DEF CleanShutdown
    <2> QED
        BY <2>1, <2>2, <2>3, <2>4 DEF Inv, CallsInv
<1> QED
    BY <1>1, <1>2

-----------------------------------------------------------------------------
(* The writer's steps.                                                     *)

\* Taking the snapshot of the inbox: it survives, with all that did before.
LEMMA StagedInv ==
    ASSUME Inv, NEW s, s = Staged, NEW P, P = open \ {inbox.gen}
    PROVE  /\ Keeps(cmds, open, w, disk, P, s, disk)
           /\ inbox = Nothing \/ Survives(cmds, s, inbox.gen)
<1>0. /\ CommandsOK(cmds) /\ WriterInv(cmds, open, w, disk) /\ InboxOK(cmds, inbox, open)
      /\ inbox \in Version /\ open \subseteq DOMAIN cmds
    BY DEF Inv, CallsInv, StaticOK
<1>1. open \subseteq Nat /\ 0 \notin open /\ P \subseteq open
    BY <1>0 DEF CommandsOK
<1>2. CASE inbox = Nothing
    <2>1. s = w /\ P = open
        BY <1>1, <1>2 DEF Staged, Nothing
    <2> QED
        BY <1>0, <1>2, <2>1 DEF Keeps, Passes, StaysGone
<1>3. CASE inbox # Nothing
    <2>1. IsSave(cmds, inbox) /\ inbox.gen \in open /\ inbox.gen \in Nat
        BY <1>0, <1>3, VersionFacts DEF InboxOK
    <2>2. PICK v \in Version : v = inbox
        BY <1>0
    <2>3. PICK t : t = StageSnapshot(w, v)
        OBVIOUS
    <2>4. WriterInv(cmds, open, t, disk)
        BY <1>0, <1>1, <2>1, <2>2, <2>3, StageInv
    <2>5. Survives(cmds, t, v.gen) /\ Passes(cmds, w, t) /\ StaysGone(open, w, disk, open, t, disk)
        BY <1>0, <1>1, <2>1, <2>2, <2>3, StageSurvives
    <2>6. s = CollectBarriers(t, P)
        BY <1>3, <2>2, <2>3 DEF Staged
    <2>7. WriterInv(cmds, P, s, disk) /\ Passes(cmds, t, s) /\ StaysGone(open, t, disk, P, s, disk)
        BY <1>0, <1>1, <2>4, <2>6, CollectInv
    <2>8. Survives(cmds, s, inbox.gen)
        BY <2>1, <2>2, <2>5, <2>7 DEF Passes
    <2> QED
        BY <2>5, <2>7, <2>8 DEF Keeps, Passes, StaysGone
<1> QED
    BY <1>2, <1>3

\* The command g of the writer's step is answered: it is no longer outstanding, a
\* save survives, and a deletion that succeeded holds.
Answered(g) ==
    /\ g \in DOMAIN cmds /\ Moved(cmds, cmds', g) /\ open' = open \ {inbox.gen, g}
    /\ cmds[g].kind # "send" /\ cmds'[g].pc \in {"ok", "err"} /\ cmds'[g].drop = cmds[g].drop
    /\ cmds[g].kind # "delete" => Survives(cmds, w', g)
    /\ cmds[g].kind = "delete" => cmds'[g].pc # "ok" \/ Gone(open', w', disk', g)

\* A step of the writer that takes the inbox, and answers a command or none.
TakenBy(g) ==
    /\ inbox' = Nothing /\ wake' = FALSE /\ faults' \in 0..MaxFaults
    /\ ops' \in Seq(Op) /\ OpsOK(cmds', ops')
    /\ status' \in {"running", "closed", "ok", "err"} /\ (status' = status \/ status = "closed")
    /\ Keeps(cmds, open, w, disk, open', w', disk')
    /\ inbox = Nothing \/ Survives(cmds, w', inbox.gen)
    /\ Answered(g) \/ (cmds' = cmds /\ open' = open \ {inbox.gen})

\* Such a step keeps the invariant.
LEMMA TakenInv ==
    ASSUME Inv, NEW g, TakenBy(g), CleanShutdown'
    PROVE  Inv'
<1>0. /\ CommandsOK(cmds) /\ StaticOK /\ RowsOK(cmds, inbox, open) /\ InboxOK(cmds, inbox, open)
      /\ EndOK(cmds, status) /\ SavesOK(cmds, inbox, w) /\ DeletesOK(cmds, open, w, disk)
      /\ inbox \in Version /\ Nothing.gen = 0 /\ Nothing \in Version
    BY WriterAssumption DEF Inv, CallsInv, StaticOK, Nothing, Version
<1>1. DOMAIN cmds \subseteq Nat /\ 0 \notin DOMAIN cmds
    BY <1>0 DEF CommandsOK
<1>2. /\ inbox' = Nothing /\ inbox'.gen = 0
      /\ Keeps(cmds, open, w, disk, open', w', disk')
      /\ inbox = Nothing \/ Survives(cmds, w', inbox.gen)
      /\ status' = status \/ status = "closed"
    BY <1>0 DEF TakenBy
<1>3. /\ CommandsOK(cmds') /\ DOMAIN cmds' = DOMAIN cmds /\ Extends(cmds, cmds')
      /\ open' \subseteq open
    BY <1>0 DEF TakenBy, Answered, Moved, Extends
<1>4. \A h \in DOMAIN cmds : cmds'[h] = cmds[h] \/ (h = g /\ Answered(g))
    BY DEF TakenBy, Answered, Moved
<1>5. \A h \in DOMAIN cmds :
         /\ cmds'[h].kind = cmds[h].kind /\ cmds'[h].drop = cmds[h].drop
         /\ cmds[h].pc # "reserved" => cmds'[h].pc # "reserved"
    BY <1>3, <1>4 DEF Extends, Answered
<1>6. WriterInv(cmds, open', w', disk') /\ w' \in WriterState
    BY <1>2 DEF Keeps, WriterInv, TypesOK
<1>7. StaticOK'
    BY <1>0, <1>3 DEF TakenBy, StaticOK
<1>8. /\ WriterInv(cmds', open', w', disk')
      /\ \A x \in Nat : Survives(cmds, w', x) => Survives(cmds', w', x)
    <2>1. open' \subseteq Nat
        BY <1>0, <1>1, <1>3 DEF StaticOK
    <2> QED
        BY <1>0, <1>3, <1>6, <2>1, CallersInv
<1>9. \A h \in DOMAIN cmds : h \in open /\ h \notin open' => h = inbox.gen \/ (h = g /\ Answered(g))
    BY DEF TakenBy, Answered
<1>10. \A h \in DOMAIN cmds : h = inbox.gen => cmds[h].kind = "send" /\ cmds[h].pc # "reserved"
    BY <1>0, <1>1 DEF InboxOK
<1>11. RowsOK(cmds', inbox', open')
    <2> SUFFICES ASSUME NEW h \in DOMAIN cmds
                 PROVE  RowOK(cmds', inbox', open', h)
        BY <1>3 DEF RowsOK
    <2>0. RowOK(cmds, inbox, open, h)
        BY <1>0 DEF RowsOK
    <2>1. /\ cmds'[h].drop # 0 =>
               /\ cmds'[h].drop \in DOMAIN cmds' /\ cmds'[h].drop # inbox'.gen
               /\ cmds'[cmds'[h].drop].kind = "send" /\ cmds'[cmds'[h].drop].pc # "reserved"
        BY <1>2, <1>3, <1>5, <2>0 DEF RowOK
    <2>2. CASE h = g /\ Answered(g)
        BY <1>5, <2>1, <2>2 DEF RowOK, Answered
    <2>3. CASE cmds'[h] = cmds[h] /\ ~(h = g /\ Answered(g))
        <3>1. cmds[h].pc \in {"reserved", "queued"} => h \in open'
            BY <1>9, <1>10, <2>0, <2>3 DEF RowOK
        <3> QED
            BY <2>0, <2>1, <2>3, <3>1 DEF RowOK
    <2> QED
        BY <1>4, <2>2, <2>3
<1>12. InboxOK(cmds', inbox', open')
    BY <1>2 DEF InboxOK
<1>13. EndOK(cmds', status')
    <2> SUFFICES ASSUME status' # "running", NEW h \in DOMAIN cmds
                 PROVE  cmds'[h].pc \notin {"reserved", "filling"}
        BY <1>3 DEF EndOK
    <2>1. cmds[h].pc \notin {"reserved", "filling"}
        BY <1>0, <1>2 DEF EndOK
    <2> QED
        BY <1>4, <2>1 DEF Answered
<1>14. SavesOK(cmds', inbox', w')
    <2>1. \A h \in DOMAIN cmds :
             cmds[h].kind # "delete" /\ cmds[h].pc \in {"filling", "sent", "ok", "err"}
             => Survives(cmds, w', h)
        <3>1. Passes(cmds, w, w')
            BY <1>2 DEF Keeps
        <3> QED
            BY <1>0, <1>2, <1>6, <3>1, SavesTaken
    <2>2. ASSUME NEW h \in DOMAIN cmds, cmds'[h].kind # "delete",
                 cmds'[h].pc \in {"filling", "sent", "ok", "err"}
          PROVE  Survives(cmds, w', h)
        BY <1>4, <1>5, <2>1, <2>2 DEF Answered
    <2> QED
        BY <1>1, <1>3, <1>8, <2>2 DEF SavesOK
<1>15. DeletesOK(cmds', open', w', disk')
    <2> SUFFICES ASSUME NEW h \in DOMAIN cmds, cmds'[h].kind = "delete", cmds'[h].pc = "ok"
                 PROVE  Gone(open', w', disk', h)
        BY <1>3 DEF DeletesOK
    <2>1. CASE h = g /\ Answered(g)
        BY <1>5, <2>1 DEF Answered
    <2>2. CASE cmds'[h] = cmds[h]
        <3>1. Gone(open, w, disk, h) /\ h \in Nat
            BY <1>0, <1>1, <2>2 DEF DeletesOK
        <3> QED
            BY <1>2, <3>1 DEF Keeps, StaysGone
    <2> QED
        BY <1>4, <2>1, <2>2
<1>16. OpsOK(cmds', ops')
    BY DEF TakenBy
<1> QED
    BY <1>3, <1>7, <1>8, <1>11, <1>12, <1>13, <1>14, <1>15, <1>16 DEF Inv, CallsInv

\* The command at the head of the channel, and the channel after it.
LEMMA HeadOp ==
    ASSUME Inv, ops # <<>>
    PROVE  /\ ops \in Seq(Op) /\ Tail(ops) \in Seq(Op) /\ Head(ops) \in Op
           /\ Head(ops).op \in {"persist", "delete"} =>
                /\ Head(ops).gen \in DOMAIN cmds /\ cmds[Head(ops).gen].pc = "queued"
                /\ cmds[Head(ops).gen].kind = Head(ops).op
<1>1. ops \in Seq(Op) /\ OpsOK(cmds, ops)
    BY DEF Inv, CallsInv, StaticOK
<1>2. 1 \in DOMAIN ops /\ Head(ops) = ops[1]
    BY <1>1
<1>3. Tail(ops) \in Seq(Op) /\ ops[1] \in Op
    BY <1>1
<1> QED
    BY <1>1, <1>2, <1>3 DEF OpsOK

\* Taking the inbox and flushing.
LEMMA FlushStaged ==
    ASSUME Inv, NEW P, P = open \ {inbox.gen}, NEW r, r \in Flush(Staged, disk)
    PROVE  /\ Keeps(cmds, open, w, disk, P, r.w, r.disk)
           /\ inbox = Nothing \/ Survives(cmds, r.w, inbox.gen)
           /\ r.faults \in 0..MaxFaults
           /\ Quiet(r)
<1>0. /\ CommandsOK(cmds) /\ faults \in 0..MaxFaults /\ inbox \in Version
      /\ open \subseteq DOMAIN cmds /\ inbox.gen \in Nat
    BY VersionFacts DEF Inv, CallsInv, StaticOK
<1>1. P \subseteq Nat
    BY <1>0 DEF CommandsOK
<1>2. PICK s : s = Staged
    OBVIOUS
<1>3. /\ Keeps(cmds, open, w, disk, P, s, disk)
      /\ inbox = Nothing \/ Survives(cmds, s, inbox.gen)
    BY <1>2, StagedInv
<1>4. WriterInv(cmds, P, s, disk)
    BY <1>3 DEF Keeps
<1>5. /\ WriterInv(cmds, P, r.w, r.disk) /\ Passes(cmds, s, r.w)
      /\ StaysGone(P, s, disk, P, r.w, r.disk)
      /\ r.faults \in 0..MaxFaults
      /\ Quiet(r)
    BY <1>0, <1>1, <1>2, <1>4, FlushInv
<1>6. Keeps(cmds, P, s, disk, P, r.w, r.disk)
    BY <1>5 DEF Keeps
<1>7. Keeps(cmds, open, w, disk, P, r.w, r.disk)
    BY <1>3, <1>6, KeepsTwice
<1>8. inbox = Nothing \/ Survives(cmds, r.w, inbox.gen)
    BY <1>0, <1>3, <1>5 DEF Passes
<1> QED
    BY <1>5, <1>7, <1>8

\* A wake and a load take the inbox; the wake flushes when nothing else waits.
LEMMA WakeInv ==
    ASSUME Inv, HandleWake \/ HandleLatest
    PROVE  Inv'
<1>1. /\ Running /\ ops # <<>> /\ Head(ops).op \in {"wake", "latest"} /\ ops' = Tail(ops)
      /\ inbox' = Nothing /\ wake' = FALSE /\ open' = open \ {inbox.gen}
      /\ cmds' = cmds /\ status' = status
    BY DEF HandleWake, HandleLatest, Next_op, Taken
<1>2. PICK P, s : P = open \ {inbox.gen} /\ s = Staged
    OBVIOUS
<1>3. faults \in 0..MaxFaults /\ status \in {"running", "closed", "ok", "err"} /\ OpsOK(cmds, ops)
    BY DEF Inv, CallsInv, StaticOK
<1>4. /\ Keeps(cmds, open, w, disk, P, s, disk)
      /\ inbox = Nothing \/ Survives(cmds, s, inbox.gen)
    BY <1>2, StagedInv
<1>5. /\ Keeps(cmds, open, w, disk, open', w', disk')
      /\ inbox = Nothing \/ Survives(cmds, w', inbox.gen)
      /\ faults' \in 0..MaxFaults
    <2>1. CASE w' = s /\ disk' = disk /\ faults' = faults
        BY <1>1, <1>2, <1>3, <1>4, <2>1
    <2>2. CASE \E r \in Flush(Staged, disk) : Becomes(r)
        <3>1. PICK r \in Flush(Staged, disk) : Becomes(r)
            BY <2>2
        <3>2. w' = r.w /\ disk' = r.disk /\ faults' = r.faults
            BY <3>1 DEF Becomes
        <3> QED
            BY <1>1, <1>2, <3>2, FlushStaged
    <2>3. HandleLatest => w' = s /\ disk' = disk /\ faults' = faults
        BY <1>2 DEF HandleLatest
    <2>4. HandleWake => \/ \E r \in Flush(Staged, disk) : Becomes(r)
                        \/ \E r \in {Result(Staged, disk, FALSE, faults)} : Becomes(r)
        BY DEF HandleWake
    <2>5. ASSUME NEW r, r = Result(Staged, disk, FALSE, faults), Becomes(r)
          PROVE  w' = s /\ disk' = disk /\ faults' = faults
        BY <1>2, <2>5 DEF Becomes, Result
    <2> QED
        BY <2>1, <2>2, <2>3, <2>4, <2>5
<1>6. ops' \in Seq(Op) /\ OpsOK(cmds', ops')
    <2>1. PICK q \in Seq(Op) : q = ops /\ q # <<>>
        BY <1>1, HeadOp
    <2>2. OpsOK(cmds, Tail(q))
        BY <1>1, <1>3, <2>1, OpsTaken
    <2> QED
        BY <1>1, <2>1, <2>2, HeadOp
<1>7. TakenBy(0)
    BY <1>1, <1>3, <1>5, <1>6 DEF TakenBy
<1>8. CleanShutdown'
    BY <1>1 DEF CleanShutdown, Running
<1> QED
    BY <1>7, <1>8, TakenInv

\* The answer of a command whose handling kept the invariant.
LEMMA AnswerInv ==
    ASSUME Inv, Running, ops # <<>>, NEW g, g = Head(ops).gen,
           Head(ops).op \in {"persist", "delete"},
           ops' = Tail(ops), status' = status, NEW r, NEW ok, Answer(g, r, ok),
           Keeps(cmds, open, w, disk, open \ {inbox.gen}, r.w, r.disk),
           r.faults \in 0..MaxFaults,
           inbox = Nothing \/ Survives(cmds, r.w, inbox.gen),
           cmds[g].kind # "delete" => Survives(cmds, r.w, g),
           cmds[g].kind = "delete" /\ ok => Gone(open \ {inbox.gen}, r.w, r.disk, g)
    PROVE  Inv'
<1>0. /\ CommandsOK(cmds) /\ StaticOK /\ OpsOK(cmds, ops) /\ cmds \in Seq(Command)
    BY DEF Inv, CallsInv, CommandsOK
<1>1. /\ g \in DOMAIN cmds /\ cmds[g].pc = "queued" /\ cmds[g].kind \in {"persist", "delete"}
      /\ cmds[g] \in Command /\ g \in Nat
    BY <1>0, HeadOp
<1>2. /\ inbox' = Nothing /\ wake' = FALSE /\ open' = open \ {inbox.gen, g}
      /\ disk' = r.disk /\ faults' = r.faults
    BY DEF Answer
<1>3. PICK P, Q, u, p :
         /\ P = open \ {inbox.gen} /\ Q = open' /\ u = r.w
         /\ p = IF ok THEN "ok" ELSE "err"
    OBVIOUS
<1>4. p \in {"ok", "err"} /\ (p = "ok" => ok)
    BY <1>3
<1>5. w' = CollectBarriers(u, Q)
    BY <1>3 DEF Answer
<1>6. inbox.gen \in Nat /\ P \subseteq Nat /\ Q \subseteq P
    BY <1>0, <1>2, <1>3, VersionFacts DEF StaticOK
<1>7. PICK y \in Command :
         /\ cmds' = [cmds EXCEPT ![g] = y] /\ y.kind = cmds[g].kind /\ y.rev = cmds[g].rev
         /\ y.pc = p /\ y.drop = cmds[g].drop
    <2> DEFINE y == [cmds[g] EXCEPT !.pc = p]
    <2>1. cmds' = [cmds EXCEPT ![g] = y]
        BY <1>0, <1>1, <1>3 DEF Answer
    <2>2. /\ y \in Command /\ y.kind = cmds[g].kind /\ y.rev = cmds[g].rev
          /\ y.pc = p /\ y.drop = cmds[g].drop
        BY <1>1, <1>4 DEF Command, Stages
    <2> QED
        BY <2>1, <2>2
<1>8. Moved(cmds, cmds', g) /\ cmds'[g] = y
    BY <1>0, <1>1, <1>7, MovedRow
<1>9. Keeps(cmds, P, r.w, r.disk, Q, w', disk')
    <2>1. WriterInv(cmds, P, u, disk')
        BY <1>2, <1>3 DEF Keeps
    <2>2. /\ WriterInv(cmds, Q, w', disk') /\ Passes(cmds, u, w')
          /\ StaysGone(P, u, disk', Q, w', disk')
        BY <1>0, <1>5, <1>6, <2>1, CollectInv
    <2> QED
        BY <1>2, <1>3, <2>2 DEF Keeps
<1>10. Keeps(cmds, open, w, disk, open', w', disk')
    <2>1. Keeps(cmds, open, w, disk, P, r.w, r.disk)
        BY <1>3
    <2> QED
        BY <1>3, <1>9, <2>1, KeepsTwice
<1>11. inbox = Nothing \/ Survives(cmds, w', inbox.gen)
    BY <1>6, <1>9 DEF Keeps, Passes
<1>12. Answered(g)
    <2>1. cmds[g].kind # "delete" => Survives(cmds, w', g)
        BY <1>1, <1>9 DEF Keeps, Passes
    <2>2. cmds[g].kind = "delete" /\ cmds'[g].pc = "ok" => Gone(open', w', disk', g)
        BY <1>1, <1>3, <1>4, <1>7, <1>8, <1>9 DEF Keeps, StaysGone
    <2> QED
        BY <1>1, <1>2, <1>4, <1>7, <1>8, <2>1, <2>2 DEF Answered
<1>13. ops' \in Seq(Op) /\ OpsOK(cmds', ops')
    <2>1. PICK q \in Seq(Op) : q = ops /\ q # <<>>
        BY HeadOp
    <2>2. cmds'[g].pc # "queued"
        BY <1>4, <1>7, <1>8
    <2>3. OpsOK(cmds', Tail(q))
        BY <1>0, <1>8, <2>1, <2>2, OpsTaken
    <2> QED
        BY <2>1, <2>3, HeadOp
<1>14. TakenBy(g)
    BY <1>0, <1>2, <1>10, <1>11, <1>12, <1>13 DEF TakenBy, StaticOK
<1>15. CleanShutdown'
    BY DEF CleanShutdown, Running
<1> QED
    BY <1>14, <1>15, TakenInv

\* A persist stages its snapshot after the one of the inbox, and flushes.
LEMMA PersistInv ==
    ASSUME Inv, HandlePersist
    PROVE  Inv'
<1>1. Running /\ ops # <<>> /\ Head(ops).op = "persist" /\ ops' = Tail(ops) /\ status' = status
    BY DEF HandlePersist, Next_op
<1>2. PICK g, P, s : g = Head(ops).gen /\ P = open \ {inbox.gen} /\ s = Staged
    OBVIOUS
<1>3. g \in DOMAIN cmds /\ cmds[g].pc = "queued" /\ cmds[g].kind = "persist"
    BY <1>1, <1>2, HeadOp
<1>4. /\ CommandsOK(cmds) /\ cmds \in Seq(Command) /\ RowsOK(cmds, inbox, open)
      /\ InboxOK(cmds, inbox, open) /\ open \subseteq DOMAIN cmds /\ faults \in 0..MaxFaults
      /\ inbox \in Version
    BY DEF Inv, CallsInv, StaticOK, CommandsOK
<1>5. /\ g \in Nat /\ g <= MaxGeneration /\ g # 0 /\ cmds[g] \in Command /\ inbox.gen \in Nat
      /\ P \subseteq Nat
    <2>1. inbox.gen \in Nat
        BY <1>4, VersionFacts
    <2>2. DOMAIN cmds = 1..Len(cmds) /\ Len(cmds) \in Nat /\ Len(cmds) <= MaxGeneration
        BY <1>4 DEF CommandsOK
    <2>3. P \subseteq Nat
        BY <1>2, <1>4, <2>2
    <2> QED
        BY <1>3, <1>4, <2>1, <2>2, <2>3, WriterAssumption
<1>6. g \in P
    <2>1. g \in open
        BY <1>3, <1>4 DEF RowsOK, RowOK
    <2>2. g # inbox.gen
        BY <1>3, <1>4, <1>5 DEF InboxOK, Nothing
    <2> QED
        BY <1>2, <2>1, <2>2
<1>7. PICK v : v = V(g)
    OBVIOUS
<1>8. v \in Version /\ v.gen = g /\ IsSave(cmds, v)
    <2>1. cmds[g].rev \in 0..MaxRevision
        BY <1>5 DEF Command
    <2> QED
        BY <1>3, <1>5, <1>7, <2>1 DEF V, Version, IsSave
<1>9. /\ Keeps(cmds, open, w, disk, P, s, disk)
      /\ inbox = Nothing \/ Survives(cmds, s, inbox.gen)
    BY <1>2, StagedInv
<1>10. WriterInv(cmds, P, s, disk)
    BY <1>9 DEF Keeps
<1>11. PICK t : t = StageSnapshot(s, v)
    OBVIOUS
<1>12. Keeps(cmds, P, s, disk, P, t, disk) /\ Survives(cmds, t, g)
    <2>1. WriterInv(cmds, P, t, disk)
        BY <1>4, <1>5, <1>6, <1>8, <1>10, <1>11, StageInv
    <2>2. Survives(cmds, t, v.gen) /\ Passes(cmds, s, t) /\ StaysGone(P, s, disk, P, t, disk)
        BY <1>4, <1>5, <1>6, <1>8, <1>10, <1>11, StageSurvives
    <2> QED
        BY <1>8, <2>1, <2>2 DEF Keeps
<1>13. PICK r \in Flush(t, disk) : Answer(g, r, PersistOk(r))
    BY <1>2, <1>7, <1>11 DEF HandlePersist
<1>14. Keeps(cmds, P, t, disk, P, r.w, r.disk) /\ r.faults \in 0..MaxFaults
    <2>1. WriterInv(cmds, P, t, disk)
        BY <1>12 DEF Keeps
    <2> QED
        BY <1>4, <1>5, <1>13, <2>1, FlushInv DEF Keeps
<1>15. Keeps(cmds, open, w, disk, P, r.w, r.disk)
    <2>1. Keeps(cmds, open, w, disk, P, t, disk)
        BY <1>9, <1>12, KeepsTwice
    <2> QED
        BY <1>14, <2>1, KeepsTwice
<1>16. Passes(cmds, s, r.w) /\ Survives(cmds, r.w, g)
    BY <1>5, <1>12, <1>14 DEF Keeps, Passes
<1>17. inbox = Nothing \/ Survives(cmds, r.w, inbox.gen)
    BY <1>5, <1>9, <1>16 DEF Passes
<1>18. PICK ok : ok = PersistOk(r)
    OBVIOUS
<1>19. Answer(g, r, ok)
    BY <1>13, <1>18
<1>20. Keeps(cmds, open, w, disk, open \ {inbox.gen}, r.w, r.disk)
    BY <1>2, <1>15
<1> QED
    BY <1>1, <1>2, <1>3, <1>14, <1>16, <1>17, <1>19, <1>20, AnswerInv

\* A deletion holds from its answer on, when it succeeds.
LEMMA DeleteStepInv ==
    ASSUME Inv, HandleDelete
    PROVE  Inv'
<1>1. Running /\ ops # <<>> /\ Head(ops).op = "delete" /\ ops' = Tail(ops) /\ status' = status
    BY DEF HandleDelete, Next_op
<1>2. PICK g, P, s : g = Head(ops).gen /\ P = open \ {inbox.gen} /\ s = Staged
    OBVIOUS
<1>3. g \in DOMAIN cmds /\ cmds[g].kind = "delete"
    BY <1>1, <1>2, HeadOp
<1>4. /\ CommandsOK(cmds) /\ open \subseteq DOMAIN cmds /\ faults \in 0..MaxFaults
      /\ inbox.gen \in Nat /\ P \subseteq Nat
    BY <1>2, VersionFacts DEF Inv, CallsInv, StaticOK, CommandsOK
<1>5. /\ Keeps(cmds, open, w, disk, P, s, disk)
      /\ inbox = Nothing \/ Survives(cmds, s, inbox.gen)
    BY <1>2, StagedInv
<1>6. WriterInv(cmds, P, s, disk)
    BY <1>5 DEF Keeps
<1>7. PICK x \in DeleteResults(s, g) : Answer(g, x.r, x.ok)
    BY <1>2 DEF HandleDelete
<1>8. /\ Keeps(cmds, P, s, disk, P, x.r.w, x.r.disk) /\ x.r.faults \in 0..MaxFaults
      /\ x.ok \in BOOLEAN /\ (x.ok = FALSE \/ Gone(P, x.r.w, x.r.disk, g))
    BY <1>3, <1>4, <1>6, <1>7, DeleteInv
<1>9. PICK r, ok : r = x.r /\ ok = x.ok
    OBVIOUS
<1>10. Answer(g, r, ok) /\ Keeps(cmds, P, s, disk, P, r.w, r.disk) /\ r.faults \in 0..MaxFaults
    BY <1>7, <1>8, <1>9, Zenon
<1>11. ok => Gone(P, r.w, r.disk, g)
    BY <1>8, <1>9, Zenon
<1>12. Keeps(cmds, open, w, disk, open \ {inbox.gen}, r.w, r.disk)
    BY <1>2, <1>5, <1>10, KeepsTwice
<1>13. inbox = Nothing \/ Survives(cmds, r.w, inbox.gen)
    BY <1>4, <1>5, <1>10 DEF Keeps, Passes
<1>14. cmds[g].kind = "delete" /\ ok => Gone(open \ {inbox.gen}, r.w, r.disk, g)
    BY <1>2, <1>11
<1> QED
    BY <1>1, <1>2, <1>3, <1>10, <1>12, <1>13, <1>14, AnswerInv

\* A save that survives can be read, in the writer's memory or in the file, and is
\* in the file, pending, or counted as given up; or it is deleted.
LEMMA Readable ==
    ASSUME CommandsOK(cmds), NEW O, NEW s, NEW d, WriterInv(cmds, O, s, d),
           NEW g \in DOMAIN cmds, cmds[g].kind # "delete", Survives(cmds, s, g)
    PROVE  \/ DeletedAfter(g)
           \/ /\ Covers(IF s.latest # Nothing THEN s.latest ELSE d, g)
              /\ Covers(d, g) \/ Covers(s.pending, g) \/ Covers(s.exhausted, g)
<1>0. /\ s \in WriterState /\ d \in Version /\ cmds \in Seq(Command)
      /\ VersionsOK(cmds, s, d) /\ OrderOK(s, d) /\ Stored(s, d, s.latest.rev)
    BY DEF WriterInv, TypesOK, CommandsOK
<1>1. /\ s.latest \in Version /\ s.pending \in Version /\ s.exhausted \in Version
      /\ s.latest.gen \in Nat /\ s.latest.rev \in Nat /\ s.pending.rev \in Nat
      /\ s.exhausted.rev \in Nat /\ d.gen \in Nat /\ d.rev \in Nat /\ s.durable.gen \in Nat
      /\ Nothing.gen = 0 /\ Nothing.rev = 0 /\ g \in Nat /\ g >= 1
      /\ cmds[g].rev \in Nat /\ cmds[g].rev >= 1
    <2>1. s.latest \in Version /\ s.pending \in Version /\ s.exhausted \in Version /\ s.durable \in Version
        BY <1>0, WriterFacts
    <2>2. Nothing.gen = 0 /\ Nothing.rev = 0 /\ g \in Nat /\ g >= 1 /\ cmds[g] \in Command
        BY <1>0 DEF Nothing
    <2>3. cmds[g].rev \in Nat /\ cmds[g].rev >= 1
        BY <2>2 DEF Command, CommandsOK
    <2> QED
        BY <1>0, <2>1, <2>2, <2>3, VersionFacts
<1>2. ASSUME NEW v \in Version, IsSave(cmds, v), v.gen >= g
      PROVE  v # Nothing /\ v.rev >= cmds[g].rev
    <2>1. v.gen \in DOMAIN cmds /\ cmds[v.gen].kind # "delete" /\ v.rev = cmds[v.gen].rev
        BY <1>2 DEF IsSave
    <2> QED
        BY <1>1, <1>2, <2>1 DEF CommandsOK
<1>3. ASSUME NEW v \in Version, v.rev >= cmds[g].rev
      PROVE  Covers(v, g)
    BY <1>1, <1>3 DEF Covers
<1>4. CASE DeletedSince(cmds, g)
    <2>1. PICK h \in DOMAIN cmds : h >= g /\ cmds[h].kind = "delete"
        BY <1>4 DEF DeletedSince
    <2>2. h > g
        BY <1>0, <2>1
    <2> QED
        BY <2>1, <2>2 DEF DeletedAfter
<1>5. CASE s.durable.gen >= g
    <2>1. d.gen >= g /\ IsSave(cmds, d)
        BY <1>0, <1>1, <1>5 DEF OrderOK, VersionsOK
    <2>2. Covers(d, g)
        BY <1>0, <1>2, <1>3, <2>1
    <2>3. s.latest # Nothing => IsSave(cmds, s.latest) /\ s.latest.gen >= g
        BY <1>0, <1>1, <2>1 DEF OrderOK, VersionsOK
    <2>4. s.latest # Nothing => Covers(s.latest, g)
        BY <1>1, <1>2, <1>3, <2>3
    <2> QED
        BY <2>2, <2>4
<1>6. CASE s.latest.gen >= g
    <2>1. s.latest # Nothing /\ IsSave(cmds, s.latest)
        BY <1>0, <1>1, <1>6 DEF VersionsOK
    <2>2. s.latest.rev >= cmds[g].rev
        BY <1>1, <1>2, <1>6, <2>1
    <2>3. d.rev >= cmds[g].rev \/ s.pending.rev >= cmds[g].rev \/ s.exhausted.rev >= cmds[g].rev
        BY <1>0, <1>1, <2>2 DEF Stored
    <2> QED
        BY <1>0, <1>1, <1>3, <2>1, <2>2, <2>3
<1> QED
    BY <1>4, <1>5, <1>6 DEF Survives

\* A retry flushes what the writer holds.
LEMMA RetryInv ==
    ASSUME Inv, Retry
    PROVE  Inv'
<1>0. /\ CommandsOK(cmds) /\ WriterInv(cmds, open, w, disk) /\ StaticOK
      /\ faults \in 0..MaxFaults /\ open \subseteq DOMAIN cmds
      /\ SavesOK(cmds, inbox, w) /\ DeletesOK(cmds, open, w, disk)
    BY DEF Inv, CallsInv, StaticOK
<1>1. DOMAIN cmds \subseteq Nat /\ open \subseteq Nat
    BY <1>0 DEF CommandsOK
<1>2. /\ cmds' = cmds /\ open' = open /\ inbox' = inbox /\ wake' = wake /\ ops' = ops
      /\ status' = status /\ Running
    BY DEF Retry, caller
<1>3. PICK r \in Flush(w, disk) : w' = r.w /\ disk' = r.disk /\ faults' = r.faults
    BY DEF Retry, Becomes
<1>4. /\ WriterInv(cmds, open, r.w, r.disk) /\ Passes(cmds, w, r.w)
      /\ StaysGone(open, w, disk, open, r.w, r.disk) /\ r.faults \in 0..MaxFaults
    BY <1>0, <1>1, FlushInv
<1>5. WriterInv(cmds', open', w', disk')
    BY <1>2, <1>3, <1>4
<1>6. SavesOK(cmds', inbox', w')
    BY <1>0, <1>1, <1>2, <1>3, <1>4 DEF SavesOK, Passes
<1>7. DeletesOK(cmds', open', w', disk')
    BY <1>0, <1>1, <1>2, <1>3, <1>4 DEF DeletesOK, StaysGone
<1>8. CallsInv'
    BY <1>0, <1>2, <1>3, <1>4 DEF Inv, CallsInv, StaticOK
<1>9. CleanShutdown'
    BY <1>2 DEF CleanShutdown, Running
<1> QED
    BY <1>5, <1>6, <1>7, <1>8, <1>9 DEF Inv

\* The writer stops: with nothing pending or given up, every save is in the file.
LEMMA StopInv ==
    ASSUME Inv, Stop
    PROVE  Inv'
<1>0. /\ CommandsOK(cmds) /\ StaticOK /\ RowsOK(cmds, inbox, open) /\ OpsOK(cmds, ops)
      /\ EndOK(cmds, status) /\ SavesOK(cmds, inbox, w) /\ inbox \in Version
      /\ ops \in Seq(Op)
    BY DEF Inv, CallsInv, StaticOK
<1>1. /\ status = "closed" /\ ops = <<>> /\ inbox' = Nothing /\ wake' = FALSE
      /\ open' = open \ {inbox.gen} /\ cmds' = cmds /\ ops' = ops
    BY DEF Stop, Taken
<1>2. PICK r \in Flush(Staged, disk) : Becomes(r) /\ status' = Completion(r)
    BY DEF Stop
<1>3. w' = r.w /\ disk' = r.disk /\ faults' = r.faults
    BY <1>2 DEF Becomes
<1>4. PICK P : P = open \ {inbox.gen}
    OBVIOUS
<1>5. /\ Keeps(cmds, open, w, disk, P, r.w, r.disk)
      /\ inbox = Nothing \/ Survives(cmds, r.w, inbox.gen)
      /\ r.faults \in 0..MaxFaults /\ Quiet(r)
    BY <1>4, FlushStaged
<1>6. status' \in {"ok", "err"}
    BY <1>2 DEF Completion
<1>7. status' = "ok" => r.w.exhausted = Nothing /\ r.w.pending = Nothing
    <2>1. status' = "ok" => ~r.failed /\ r.w.exhausted = Nothing
        BY <1>2, Zenon DEF Completion
    <2> QED
        BY <1>5, <2>1 DEF Quiet
<1>8. TakenBy(0)
    BY <1>0, <1>1, <1>3, <1>4, <1>5, <1>6 DEF TakenBy
<1>9. CleanShutdown'
    <2> SUFFICES ASSUME status' = "ok", NEW g \in DOMAIN cmds, cmds[g].kind # "delete"
                 PROVE  Covers(r.disk, g) \/ DeletedAfter(g)
        BY <1>1, <1>3 DEF CleanShutdown, Saves, Covers, DeletedAfter
    <2>1. WriterInv(cmds, P, r.w, r.disk) /\ Passes(cmds, w, r.w) /\ r.w \in WriterState
        BY <1>5 DEF Keeps, WriterInv, TypesOK
    <2>2. cmds[g].pc \in {"filling", "sent", "ok", "err"}
        <3>1. cmds[g].pc \notin {"reserved", "queued"}
            BY <1>0, <1>1 DEF EndOK, OpsOK
        <3> QED
            BY <1>0, <3>1 DEF RowsOK, RowOK
    <2>3. PICK t : t = r.w
        OBVIOUS
    <2>4. Survives(cmds, r.w, g)
        BY <1>0, <1>5, <2>1, <2>2, <2>3, SavesTaken
    <2>5. \/ DeletedAfter(g)
          \/ Covers(r.disk, g) \/ Covers(r.w.pending, g) \/ Covers(r.w.exhausted, g)
        BY <1>0, <2>1, <2>4, Readable
    <2> QED
        BY <1>7, <2>5 DEF Covers
<1> QED
    BY <1>8, <1>9, TakenInv

-----------------------------------------------------------------------------
(* The theorems.                                                           *)

\* Every step keeps the invariant.
LEMMA NextInv ==
    ASSUME Inv, [Next]_vars
    PROVE  Inv'
<1>1. CASE \E rev \in 1..MaxRevision, kind \in {"send", "persist"} : Reserve(kind, rev)
    <2>1. PICK rev \in 1..MaxRevision, kind \in {"send", "persist"} : Reserve(kind, rev)
        BY <1>1
    <2>2. rev \in 0..MaxRevision /\ rev >= 1 /\ kind \in Kinds
        BY WriterAssumption DEF Kinds
    <2> QED
        BY <2>1, <2>2, ReserveInv
<1>2. CASE Reserve("delete", 0)
    <2>1. 0 \in 0..MaxRevision /\ "delete" \in Kinds
        BY WriterAssumption DEF Kinds
    <2> QED
        BY <1>2, <2>1, ReserveInv
<1>3. CASE AskLatest \/ Close
    BY <1>3, AskCloseInv
<1>4. CASE Proceed
    BY <1>4, EnqueueInv, LeaveInv, SubmitInv DEF Proceed
<1>5. CASE Writer
    BY <1>5, WakeInv, PersistInv, DeleteStepInv, RetryInv, StopInv DEF Writer
<1>6. CASE UNCHANGED vars
    <2>1. /\ cmds' = cmds /\ open' = open /\ inbox' = inbox /\ wake' = wake /\ ops' = ops
          /\ w' = w /\ disk' = disk /\ faults' = faults /\ status' = status
        BY <1>6 DEF vars, caller
    <2>2. CallsInv'
        BY <2>1 DEF Inv, CallsInv, StaticOK
    <2>3. CleanShutdown'
        BY <2>1 DEF Inv, CleanShutdown, Saves, Covers, DeletedAfter
    <2> QED
        BY <2>1, <2>2, <2>3 DEF Inv
<1> QED
    BY <1>1, <1>2, <1>3, <1>4, <1>5, <1>6 DEF Next, Call, Halted

\* The inductive invariant of the writer and its callers.
THEOREM WriterInvariant == Spec => []Inv
<1>1. Init => Inv
    BY InitInv
<1>2. Inv /\ [Next]_vars => Inv'
    BY NextInv
<1> QED
    BY <1>1, <1>2, PTL DEF Spec

\* The state of the callers, the writer and the file is well formed.
THEOREM WriterTypeCorrect == Spec => []TypeOK
<1>1. Inv => TypeOK
    BY DEF Inv, CallsInv, CommandsOK, StaticOK, WriterInv, TypesOK, TypeOK
<1> QED
    BY <1>1, WriterInvariant, PTL

\* A deletion that WriterState::delete answered with success holds: no snapshot that
\* was reserved before it returns to the file, by a late send, a retry or a crossing
\* write.
THEOREM WriterNoResurrection == Spec => []NoResurrection
<1>1. Inv => NoResurrection
    BY DEF Inv, DeletesOK, Gone, NoResurrection
<1> QED
    BY <1>1, WriterInvariant, PTL

\* A save that WriterState::persist answered with success is in the file, pending, or
\* counted as given up, until it is deleted.
THEOREM WriterPersistedDurable == Spec => []PersistedIsDurable
<1>1. Inv => PersistedIsDurable
    <2> SUFFICES ASSUME Inv, NEW g \in DOMAIN cmds, cmds[g].kind = "persist", cmds[g].pc = "ok"
                 PROVE  \/ Covers(disk, g) \/ DeletedAfter(g)
                        \/ Covers(w.pending, g) \/ Covers(w.exhausted, g)
        BY DEF PersistedIsDurable, Saves
    <2>1. CommandsOK(cmds) /\ WriterInv(cmds, open, w, disk) /\ Survives(cmds, w, g)
        BY DEF Inv, CallsInv, SavesOK
    <2> QED
        BY <2>1, Readable
<1> QED
    BY <1>1, WriterInvariant, PTL

\* A load, which takes the writer's latest snapshot or else the file, sees every save
\* whose call has returned and that is not deleted.
THEOREM WriterLoadSees == Spec => []LoadSeesSaves
<1>1. Inv => LoadSeesSaves
    <2> SUFFICES ASSUME Inv, NEW g \in DOMAIN cmds, cmds[g].kind # "delete",
                        cmds[g].pc \in {"sent", "ok", "err"}
                 PROVE  \/ Covers(IF Staged.latest # Nothing THEN Staged.latest ELSE disk, g)
                        \/ DeletedAfter(g)
        BY DEF LoadSeesSaves, Saves
    <2>1. PICK s, P : s = Staged /\ P = open \ {inbox.gen}
        OBVIOUS
    <2>2. /\ Keeps(cmds, open, w, disk, P, s, disk)
          /\ inbox = Nothing \/ Survives(cmds, s, inbox.gen)
        BY <2>1, StagedInv
    <2>3. WriterInv(cmds, P, s, disk) /\ Passes(cmds, w, s) /\ s \in WriterState
        BY <2>2 DEF Keeps, WriterInv, TypesOK
    <2>4. CommandsOK(cmds) /\ SavesOK(cmds, inbox, w) /\ inbox \in Version
        BY DEF Inv, CallsInv, StaticOK
    <2>5. Survives(cmds, s, g)
        BY <2>2, <2>3, <2>4, SavesTaken
    <2> QED
        BY <2>1, <2>3, <2>4, <2>5, Readable
<1> QED
    BY <1>1, WriterInvariant, PTL

\* When wait_for_shutdown reports success, every save that is not deleted is in the
\* file.
THEOREM WriterCleanShutdown == Spec => []CleanShutdown
<1>1. Inv => CleanShutdown
    BY DEF Inv
<1> QED
    BY <1>1, WriterInvariant, PTL
=============================================================================
