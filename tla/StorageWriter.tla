----------------------------- MODULE StorageWriter -----------------------------
(***************************************************************************)
(* The write-behind cache of session snapshots (n00n-ui storage_writer.rs) *)
(* for one session.  Callers reserve a generation, then put a snapshot in  *)
(* the inbox or a command in the channel, in any order; the writer thread  *)
(* stages snapshots, coalesces them by revision, writes, deletes and       *)
(* retries.  A snapshot is its version: its generation and its revision.   *)
(*                                                                         *)
(* A step of the writer is one iteration of its loop.  What a caller may   *)
(* do meanwhile commutes with it: a new generation is above every barrier, *)
(* and the inbox is emptied once, at the start.                            *)
(***************************************************************************)
EXTENDS Naturals, FiniteSets, Sequences

CONSTANTS
    MaxGeneration,  \* bound on the commands of a behaviour
    MaxRevision,    \* the revisions are 1..MaxRevision
    MaxFaults       \* bound on failed writes and deletes

ASSUME WriterAssumption ==
    MaxGeneration \in Nat /\ MaxRevision \in Nat \ {0} /\ MaxFaults \in Nat

VARIABLES
    cmds,    \* the commands reserved so far: the index of one is its generation
    open,    \* the tracker's outstanding generations
    inbox,   \* the snapshot in the inbox, or Nothing
    wake,    \* wake_queued
    ops,     \* the channel of commands
    w,       \* the WriterState
    disk,    \* the version in the session's file, or Nothing
    faults,  \* how many of the MaxFaults faults have happened
    status   \* "running", "closed": the sender is dropped, "ok" or "err": stopped

caller == <<cmds, open, inbox, wake, ops>>
vars   == <<caller, w, disk, faults, status>>

Version == [gen : 0..MaxGeneration, rev : 0..MaxRevision]
Nothing == [gen |-> 0, rev |-> 0]
V(g)    == [gen |-> g, rev |-> cmds[g].rev]

Kinds   == {"send", "persist", "delete"}
\* filling: the snapshot is in the inbox, its caller has not left enqueue yet.
Stages  == {"reserved", "filling", "sent", "queued", "ok", "err"}
Command == [kind : Kinds, rev : 0..MaxRevision, pc : Stages,
            drop : 0..MaxGeneration, rouse : BOOLEAN]
Op      == [op : {"wake", "latest", "persist", "delete"}, gen : 0..MaxGeneration]

WriterState == [pending : Version, latestGen : 0..MaxGeneration, latest : Version,
                deleteGen : 0..MaxGeneration, durable : Version, log : BOOLEAN,
                exhausted : Version]

FreshWriter == [pending |-> Nothing, latestGen |-> 0, latest |-> Nothing, deleteGen |-> 0,
                durable |-> Nothing, log |-> FALSE, exhausted |-> Nothing]

TypeOK ==
    /\ cmds \in Seq(Command) /\ Len(cmds) <= MaxGeneration
    /\ open \subseteq DOMAIN cmds
    /\ inbox \in Version /\ wake \in BOOLEAN /\ ops \in Seq(Op)
    /\ w \in WriterState /\ disk \in Version
    /\ faults \in 0..MaxFaults
    /\ status \in {"running", "closed", "ok", "err"}

\* The file may have been written by an earlier process.
Init ==
    /\ cmds = <<>> /\ open = {} /\ inbox = Nothing /\ wake = FALSE /\ ops = <<>>
    /\ w = FreshWriter
    /\ disk \in [gen : {0}, rev : 0..MaxRevision]
    /\ faults = 0 /\ status = "running"

-----------------------------------------------------------------------------
(* Callers.                                                                *)

\* The event loop makes every snapshot of a session, each one from its last: either
\* the session at hand, whose revision finish_snapshot counts up, or what a load
\* returned.  So the revisions of saves do not fall as their generations grow.
Current(rev) == \A g \in DOMAIN cmds : cmds[g].rev <= rev

\* send, persist and delete begin alike: reserve_command.
Reserve(kind, rev) ==
    /\ status = "running" /\ Len(cmds) < MaxGeneration
    /\ kind # "delete" => Current(rev)
    /\ cmds' = Append(cmds, [kind |-> kind, rev |-> rev, pc |-> "reserved",
                             drop |-> 0, rouse |-> FALSE])
    /\ open' = open \cup {Len(cmds) + 1}
    /\ UNCHANGED <<inbox, wake, ops, w, disk, faults, status>>

\* enqueue_reserved_snapshot under the inbox lock: the newer generation stays, and
\* the caller remembers the one it replaced and whether it set wake_queued.
Enqueue(g) ==
    LET newer == inbox.gen < g
    IN  /\ cmds[g].kind = "send" /\ cmds[g].pc = "reserved"
        /\ inbox' = IF newer THEN V(g) ELSE inbox
        /\ wake' = (wake \/ newer)
        /\ cmds' = [cmds EXCEPT ![g].pc = "filling",
                                ![g].drop = IF newer THEN inbox.gen ELSE g,
                                ![g].rouse = newer /\ ~wake]
        /\ UNCHANGED <<open, ops, w, disk, faults, status>>

\* ... and after it: complete the replaced generation, then send the wake.
Leave(g) ==
    /\ cmds[g].pc = "filling"
    /\ open' = open \ {cmds[g].drop}
    /\ ops' = IF cmds[g].rouse THEN Append(ops, [op |-> "wake", gen |-> 0]) ELSE ops
    /\ cmds' = [cmds EXCEPT ![g].pc = "sent", ![g].drop = 0, ![g].rouse = FALSE]
    /\ UNCHANGED <<inbox, wake, w, disk, faults, status>>

Submit(g) ==
    /\ cmds[g].kind # "send" /\ cmds[g].pc = "reserved"
    /\ ops' = Append(ops, [op |-> cmds[g].kind, gen |-> g])
    /\ cmds' = [cmds EXCEPT ![g].pc = "queued"]
    /\ UNCHANGED <<open, inbox, wake, w, disk, faults, status>>

\* latest_snapshot (one at a time: the event loop waits for the answer).
AskLatest ==
    /\ status = "running"
    /\ \A i \in DOMAIN ops : ops[i].op # "latest"
    /\ ops' = Append(ops, [op |-> "latest", gen |-> 0])
    /\ UNCHANGED <<cmds, open, inbox, wake, w, disk, faults, status>>

\* wait_for_shutdown consumes the last handle: no call is under way.
Close ==
    /\ status = "running"
    /\ \A g \in DOMAIN cmds : cmds[g].pc \notin {"reserved", "filling"}
    /\ status' = "closed"
    /\ UNCHANGED <<caller, w, disk, faults>>

-----------------------------------------------------------------------------
(* The writer's state.                                                     *)

\* queue_pending_snapshot: the higher revision, then the higher generation, stays.
QueuePending(s, v) ==
    IF \/ s.pending = Nothing
       \/ s.pending.rev < v.rev
       \/ s.pending.rev = v.rev /\ s.pending.gen < v.gen
    THEN [s EXCEPT !.pending = v] ELSE s

\* stage_snapshot.  A barrier that is absent is 0.
StageSnapshot(s, v) ==
    IF s.latestGen >= v.gen \/ s.deleteGen >= v.gen THEN s
    ELSE QueuePending([s EXCEPT !.latestGen = v.gen, !.latest = v], v)

\* collect_barriers: a barrier stays while a generation up to it is outstanding.
CollectBarriers(s, outstanding) ==
    LET Held(b) == \E g \in outstanding : g <= b
    IN  [s EXCEPT !.latestGen = IF Held(@) THEN @ ELSE 0,
                  !.deleteGen = IF Held(@) THEN @ ELSE 0]

\* stage_snapshots(take_snapshots(inbox)).
Staged ==
    IF inbox = Nothing THEN w
    ELSE CollectBarriers(StageSnapshot(w, inbox), open \ {inbox.gen})

\* The channel is drained, but the flag stays: the next sender sends no wake.
BugTaken == inbox' = Nothing /\ wake' = wake /\ open' = open \ {inbox.gen}

Taken == inbox' = Nothing /\ wake' = FALSE /\ open' = open \ {inbox.gen}

\* What flush leaves: the state, the file, whether a write failed, the faults.
Result(s, d, failed, f) == [w |-> s, disk |-> d, failed |-> failed, faults |-> f]

\* After a write: latest_snapshots loses the version that is durable, and
\* record_successes the exhausted one that it supersedes.
Persisted(s, v) ==
    [s EXCEPT !.pending = Nothing,
              !.latest = IF s.durable = v /\ @ = v THEN Nothing ELSE @,
              !.exhausted = IF @.gen # v.gen /\ @.rev <= v.rev THEN Nothing ELSE @]

\* write_session for the pending snapshot v: what a newer revision on disk, known or
\* found on opening the file, supersedes is not written.
Written(s, d) ==
    LET v == s.pending
        found == [s EXCEPT !.durable = [gen |-> 0, rev |-> d.rev]]
        stored == [s EXCEPT !.durable = v, !.log = TRUE]
    IN  IF s.durable.rev > v.rev
        THEN Result(Persisted(s, v), d, FALSE, faults)
        ELSE IF ~s.log /\ d.rev > v.rev
             THEN Result(Persisted(found, v), d, FALSE, faults)
             ELSE Result(Persisted(stored, v), v, FALSE, faults)

\* A snapshot that is given up is no longer offered to loads.
BugFailures(s, d) ==
    {Result(t, e, TRUE, faults + 1) :
        t \in {s, [s EXCEPT !.pending = Nothing, !.exhausted = s.pending, !.latest = Nothing]},
        e \in {d, Written(s, d).disk}}

\* record_failures: the snapshot stays for a retry or, after the last attempt, a
\* record too large or a concurrent modification, is dropped and remembered.
Failures(s, d) ==
    {Result(t, e, TRUE, faults + 1) :
        t \in {s, [s EXCEPT !.pending = Nothing, !.exhausted = s.pending]},
        e \in {d, Written(s, d).disk}}

\* flush: every way it can end.
Flush(s, d) ==
    IF s.pending = Nothing THEN {Result(s, d, FALSE, faults)}
    ELSE {Written(s, d)} \cup
         (IF faults < MaxFaults THEN Failures(s, d) ELSE {})

-----------------------------------------------------------------------------
(* The writer thread.                                                      *)

Running == status \in {"running", "closed"}
Next_op(kind) == Running /\ ops # <<>> /\ Head(ops).op = kind

Becomes(r) == w' = r.w /\ disk' = r.disk /\ faults' = r.faults

HandleWake ==
    /\ Next_op("wake")
    /\ ops' = Tail(ops) /\ Taken
    /\ \E r \in (IF Tail(ops) = <<>> THEN Flush(Staged, disk)
                 ELSE {Result(Staged, disk, FALSE, faults)}) : Becomes(r)
    /\ UNCHANGED <<cmds, status>>

HandleLatest ==
    /\ Next_op("latest")
    /\ ops' = Tail(ops) /\ Taken
    /\ w' = Staged
    /\ UNCHANGED <<cmds, disk, faults, status>>

\* The answer of a command g whose handling ended in r: complete_command,
\* collect_barriers, done.
Answer(g, r, ok) ==
    /\ inbox' = Nothing /\ wake' = FALSE
    /\ open' = open \ {inbox.gen, g}
    /\ w' = CollectBarriers(r.w, open')
    /\ disk' = r.disk /\ faults' = r.faults
    /\ cmds' = [cmds EXCEPT ![g].pc = IF ok THEN "ok" ELSE "err"]

\* WriterState::persist answers an error when what was pending could not be written,
\* or an earlier snapshot was given up.
PersistOk(r) == ~r.failed /\ r.w.exhausted = Nothing

HandlePersist ==
    LET g == Head(ops).gen
    IN  /\ Next_op("persist")
        /\ ops' = Tail(ops)
        /\ \E r \in Flush(StageSnapshot(Staged, V(g)), disk) : Answer(g, r, PersistOk(r))
        /\ UNCHANGED status

Raised(b, g) == IF b < g THEN g ELSE b

\* The deletion leaves no barrier behind.
BugSuperseded(s, g) ==
    [s EXCEPT !.pending = IF @.gen > g THEN @ ELSE Nothing,
              !.latest  = IF @.gen > g THEN @ ELSE Nothing]

\* Only what is newer than the deletion stays staged.
Superseded(s, g) ==
    LET t == [s EXCEPT !.deleteGen = Raised(@, g), !.latestGen = Raised(@, g)]
    IN  [t EXCEPT !.pending = IF @.gen > t.deleteGen THEN @ ELSE Nothing,
                  !.latest  = IF @.gen > t.deleteGen THEN @ ELSE Nothing]

\* The file goes: its log is closed, and what was known of it forgotten.
Erased(s) == [s EXCEPT !.log = FALSE, !.durable = Nothing, !.exhausted = Nothing]

\* The deletion ignores a newer snapshot that is already durable.
BugDeleteResults(s, g) ==
    LET t == Superseded(s, g)
    IN  {[r |-> r, ok |-> ~r.failed] : r \in Flush(Erased(t), Nothing)}

\* WriterState::delete: nothing to do when the file is newer than the deletion;
\* otherwise a newer snapshot crossing it is queued again, the file is removed, and
\* the crossing snapshot written.  A failed deletion may or may not remove the file.
DeleteResults(s, g) ==
    LET t == Superseded(s, g)
        crossing == IF t.latest = Nothing THEN t ELSE QueuePending(t, t.latest)
    IN  IF t.durable.gen > t.deleteGen
        THEN {[r |-> Result(t, disk, FALSE, faults), ok |-> TRUE]}
        ELSE {[r |-> r, ok |-> ~r.failed] : r \in
                 (IF t.latest = Nothing THEN {Result(Erased(t), Nothing, FALSE, faults)}
                  ELSE Flush(Erased(crossing), Nothing))} \cup
             (IF faults = MaxFaults THEN {}
              ELSE {[r |-> Result(IF d = Nothing THEN Erased(crossing)
                                  ELSE [crossing EXCEPT !.log = FALSE],
                                  d, TRUE, faults + 1), ok |-> FALSE] : d \in {disk, Nothing}})

HandleDelete ==
    LET g == Head(ops).gen
    IN  /\ Next_op("delete")
        /\ ops' = Tail(ops)
        /\ \E x \in DeleteResults(Staged, g) : Answer(g, x.r, x.ok)
        /\ UNCHANGED status

\* recv_timeout(RETRY_DELAY) ran out while something is pending.
Retry ==
    /\ Running /\ ops = <<>> /\ w.pending # Nothing
    /\ \E r \in Flush(w, disk) : Becomes(r)
    /\ UNCHANGED <<caller, status>>

\* Snapshots that were given up are not counted.
BugCompletion(r) == IF r.failed THEN "err" ELSE "ok"

\* unpersisted_count.
Completion(r) == IF r.failed \/ r.w.exhausted # Nothing THEN "err" ELSE "ok"

\* The channel is disconnected and drained: stage, flush, report what is unpersisted.
Stop ==
    /\ status = "closed" /\ ops = <<>>
    /\ Taken
    /\ \E r \in Flush(Staged, disk) :
         /\ Becomes(r)
         /\ status' = Completion(r)
    /\ UNCHANGED <<cmds, ops>>

Halted == status \in {"ok", "err"} /\ UNCHANGED vars

Call ==
    \/ \E rev \in 1..MaxRevision, kind \in {"send", "persist"} : Reserve(kind, rev)
    \/ Reserve("delete", 0)
    \/ AskLatest
    \/ Close

Proceed == \E g \in DOMAIN cmds : Enqueue(g) \/ Leave(g) \/ Submit(g)

Writer ==
    \/ HandleWake \/ HandleLatest \/ HandlePersist \/ HandleDelete
    \/ Retry
    \/ Stop

Next == Call \/ Proceed \/ Writer \/ Halted

Spec == Init /\ [][Next]_vars

\* Calls once begun return, the writer thread keeps taking commands, and loads of
\* the latest snapshot, which a user asks for, are not repeated within RETRY_DELAY
\* for ever: each one restarts the wait that ends in a retry.
Fairness == WF_vars(Proceed) /\ WF_vars(Writer) /\ SF_vars(Retry)

FairSpec == Spec /\ Fairness

-----------------------------------------------------------------------------
(* Properties.                                                             *)

Saves == {g \in DOMAIN cmds : cmds[g].kind # "delete"}

\* A version stands for a save when it has a newer generation or as high a revision.
Covers(v, g) == v # Nothing /\ (v.gen > g \/ v.rev >= cmds[g].rev)

DeletedAfter(g) == \E h \in DOMAIN cmds : h > g /\ cmds[h].kind = "delete"

\* "Deletes a session after superseded commands have been rejected by generation":
\* once a deletion is answered with success, no snapshot reserved before it comes
\* back to the file, in whatever order the commands reached the writer.
NoResurrection ==
    \A g \in DOMAIN cmds :
        (cmds[g].kind = "delete" /\ cmds[g].pc = "ok") => (disk = Nothing \/ disk.gen > g)

\* A persist that was answered with success stays readable, unless it is deleted:
\* the file covers it, or, when a crossing deletion removed the file and its rewrite
\* failed, the snapshot is still pending or counted as unpersisted.
PersistedIsDurable ==
    \A g \in Saves :
        (cmds[g].kind = "persist" /\ cmds[g].pc = "ok") =>
            \/ Covers(disk, g) \/ DeletedAfter(g)
            \/ Covers(w.pending, g) \/ Covers(w.exhausted, g)

\* What load_pending_or_stored_session reads (the writer's latest snapshot, or else
\* the file) covers every save whose call has returned or been answered.
LoadSeesSaves ==
    \A g \in Saves :
        cmds[g].pc \in {"sent", "ok", "err"} =>
            Covers(IF Staged.latest # Nothing THEN Staged.latest ELSE disk, g)
            \/ DeletedAfter(g)

\* A shutdown that reports success has lost no save: the file covers every one that
\* is not deleted.
CleanShutdown ==
    status = "ok" => \A g \in Saves : Covers(disk, g) \/ DeletedAfter(g)

\* The writer catches up: every save reaches the file, or is reported as given up,
\* so no wake is lost between the flag of the inbox and the channel.
EventuallyWritten ==
    []<>(\/ \A g \in Saves : Covers(disk, g) \/ DeletedAfter(g)
         \/ w.exhausted # Nothing \/ status = "err")
=============================================================================
