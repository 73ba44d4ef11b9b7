------------------------------ MODULE SessionLog ------------------------------
(***************************************************************************)
(* The append-only log of one session (n00n-storage sessions.rs), the      *)
(* writer's decision between appending and rewriting it (n00n-ui           *)
(* storage_writer.rs, write_session) and the live session, which evicts    *)
(* from memory what the log already holds (n00n-ui app/session.rs).        *)
(*                                                                         *)
(* A file is what its reader makes of the records, and whether it ends in  *)
(* a torn zstd frame, of which a prefix of the records is recovered.  The  *)
(* transcript, which has a cursor like that of the messages, the byte      *)
(* budgets and the cwd index are left out; so is a second process.         *)
(***************************************************************************)
EXTENDS Integers, FiniteSets, Sequences, SequencesExt

CONSTANTS
    MaxMessages,  \* bound on the messages of a behaviour, which are 1..MaxMessages
    MaxRevision,  \* bound on the snapshots that differ
    MaxFrames,    \* MAX_INCREMENTAL_FRAMES
    Subs,         \* ids of subagent sessions
    Nested,       \* tool calls of subagents
    Keep,         \* RetentionBudget, of tool outputs and of subagent histories
    Big,          \* the messages that exceed the record limit
    MaxFaults     \* bound on failed writes and crashes

ASSUME LogAssumption ==
    /\ MaxMessages \in Nat /\ MaxRevision \in Nat /\ MaxFrames \in Nat
    /\ Keep \in Nat /\ MaxFaults \in Nat
    /\ Subs \subseteq Nat /\ Nested \subseteq Nat /\ Big \subseteq Nat
    /\ IsFiniteSet(Subs) /\ IsFiniteSet(Nested)
    /\ (Subs \cup Nested) \cap (1..MaxMessages) = {} /\ Subs \cap Nested = {}

VARIABLES
    live,     \* the Session in memory
    up,       \* the process runs
    clock,    \* the messages so far
    dirty,    \* the session differs from its last snapshot
    ran,      \* the subagents and nested calls that have ended
    launch,   \* the message whose call started each subagent
    pending,  \* the snapshot the writer has to write, or NoSession
    file,     \* the log on disk
    log,      \* the writer's SessionLog, or NoLog
    durable,  \* durable_versions: the revision the writer knows to be on disk
    ledger,   \* the DurableLedger: records that may be evicted
    acked,    \* the last snapshot written with success, or NoSession
    faults    \* how many of the MaxFaults faults have happened

user   == <<live, clock, dirty, ran, launch>>
writer == <<log, durable, ledger>>
vars   == <<user, up, pending, file, writer, acked, faults>>

\* A message that calls a tool is the call, and its number the tool_use_id.
Messages == 1..MaxMessages
Outputs  == Messages \cup Nested
\* The history of a subagent: two messages, named after it.
History(k) == <<k, k + 1>>
NoHistory  == [k \in Subs |-> <<>>]

Session == [msgs : Seq(Messages), outs : SUBSET Outputs, subs : [Subs -> Seq(Nat)],
            evOuts : SUBSET Outputs, evSubs : SUBSET Subs,
            title : BOOLEAN, rev : Int]

Fresh == [msgs |-> <<>>, outs |-> {}, subs |-> NoHistory, evOuts |-> {}, evSubs |-> {},
          title |-> FALSE, rev |-> 0]
NoSession == [Fresh EXCEPT !.rev = -1]

\* The log on disk as parse_records reads it; the revision, the title and the count of
\* appended frames are those of the last meta record.
File == [msgs : Seq(Messages), outs : SUBSET Outputs, subs : [Subs -> Seq(Nat)],
         title : BOOLEAN, rev : Int, frames : Nat, torn : BOOLEAN]
NoFile == [msgs |-> <<>>, outs |-> {}, subs |-> NoHistory, title |-> FALSE, rev |-> -1,
           frames |-> 0, torn |-> FALSE]
Exists(f) == f.rev # -1

Cursor == [fresh : BOOLEAN, msgs : Seq(Messages), outs : SUBSET Outputs,
           subs : [Subs -> Nat], frames : Nat, title : BOOLEAN, rev : Int]
NoLog  == [fresh |-> FALSE, msgs |-> <<>>, outs |-> {}, subs |-> [k \in Subs |-> 0],
           frames |-> 0, title |-> FALSE, rev |-> -1]

TypeOK ==
    /\ live \in Session /\ pending \in Session /\ acked \in Session
    /\ up \in BOOLEAN /\ dirty \in BOOLEAN /\ clock \in 0..MaxMessages
    /\ ran \subseteq Subs \cup Nested /\ launch \in [Subs -> 0..MaxMessages]
    /\ file \in File
    /\ log \in Cursor /\ durable \in -1..MaxRevision
    /\ ledger.outs \subseteq Outputs /\ ledger.subs \subseteq Subs
    /\ faults \in 0..MaxFaults

Init ==
    /\ live = Fresh /\ up = TRUE /\ clock = 0 /\ dirty = TRUE
    /\ ran = {} /\ launch = [k \in Subs |-> 0]
    /\ pending = NoSession /\ file = NoFile
    /\ log = NoLog /\ durable = -1 /\ ledger = [outs |-> {}, subs |-> {}]
    /\ acked = NoSession /\ faults = 0

-----------------------------------------------------------------------------
(* Reading and writing the records.                                        *)

Resident(s) == {k \in Subs : s.subs[k] # <<>>}

\* append_record_or_tombstone: a message over the record limit leaves a tombstone, which
\* the reader skips.
Readable(ms) ==
    LET R[i \in 0..Len(ms)] ==
            IF i = 0 THEN <<>>
            ELSE IF ms[i] \in Big THEN R[i - 1] ELSE Append(R[i - 1], ms[i])
    IN  R[Len(ms)]

\* serialize_full_session.  copy_evicted_records takes what the session has evicted from
\* the readable part of the file that is replaced.
FullSession(s, f) ==
    [msgs |-> Readable(s.msgs),
     outs |-> ((s.outs \ s.evOuts) \ Big) \cup (f.outs \cap s.evOuts),
     subs |-> [k \in Subs |-> IF k \in s.evSubs THEN f.subs[k] ELSE Readable(s.subs[k])],
     title |-> s.title, rev |-> s.rev, frames |-> 0, torn |-> FALSE]

\* parse_records: the session that is loaded from a file.
Parsed(f) ==
    [msgs |-> f.msgs, outs |-> f.outs, subs |-> f.subs, evOuts |-> {}, evSubs |-> {},
     title |-> f.title, rev |-> f.rev]

-----------------------------------------------------------------------------
(* The SessionLog.                                                         *)

\* cursor_from.
CursorFrom(s, frames) ==
    [fresh |-> TRUE, msgs |-> s.msgs, outs |-> s.outs \cup s.evOuts,
     subs |-> [k \in Subs |-> Len(s.subs[k])],
     frames |-> frames, title |-> s.title, rev |-> s.rev]

\* What a write leaves: the file, the cursor, the error.
Ended(f, l, err) == [file |-> f, log |-> l, err |-> err]
Stale(l) == [l EXCEPT !.fresh = FALSE]

\* The log is rewritten in place.
BugRewrite(l, f, s) ==
    LET g == FullSession(s, f)
    IN  {Ended(g, CursorFrom(s, 0), FALSE)} \cup
        (IF faults = MaxFaults THEN {}
         ELSE {Ended([NoFile EXCEPT !.msgs = SubSeq(g.msgs, 1, n), !.rev = 0, !.torn = TRUE],
                     Stale(l), TRUE) : n \in 0..Len(g.msgs)})

\* compact_with_limits_locked and create: an atomic rename, then the cursor, then the
\* cwd index; each may be the one that fails.
Rewrite(l, f, s) ==
    LET g == FullSession(s, f)
    IN  {Ended(g, CursorFrom(s, 0), FALSE)} \cup
        (IF faults = MaxFaults THEN {}
         ELSE {Ended(f, l, TRUE), Ended(g, Stale(l), TRUE),
               Ended(g, CursorFrom(s, 0), TRUE)})

\* cursor_ahead.
CursorAhead(l, s) ==
    \/ ~(l.outs \subseteq s.outs \cup s.evOuts)
    \/ \E k \in Subs \ s.evSubs : l.subs[k] > Len(s.subs[k])

\* The records the cursor has not seen.
NewMessages(l, s) == SubSeq(s.msgs, Len(l.msgs) + 1, Len(s.msgs))
NewOutputs(l, s)  == s.outs \ l.outs
NewHistories(l, s) ==
    [k \in Subs |-> IF k \in s.evSubs THEN <<>>
                    ELSE SubSeq(s.subs[k], l.subs[k] + 1, Len(s.subs[k]))]
NothingNew(l, s) ==
    NewMessages(l, s) = <<>> /\ NewOutputs(l, s) = {} /\ NewHistories(l, s) = NoHistory

\* After an append: what the cursor has seen.
Advanced(l, s) ==
    [l EXCEPT !.msgs = s.msgs, !.outs = @ \cup s.outs,
              !.subs = [k \in Subs |-> IF k \notin s.evSubs /\ Len(s.subs[k]) > @[k]
                                       THEN Len(s.subs[k]) ELSE @[k]],
              !.frames = @ + 1, !.rev = s.rev, !.title = s.title]

\* The file after the records of a frame, up to its meta.
Grown(f, ms, os, hs) ==
    [f EXCEPT !.msgs = @ \o Readable(ms), !.outs = @ \cup (os \ Big),
              !.subs = [k \in Subs |-> @[k] \o Readable(hs[k])]]

Appended(l, f, s) ==
    [Grown(f, NewMessages(l, s), NewOutputs(l, s), NewHistories(l, s))
        EXCEPT !.title = s.title, !.rev = s.rev, !.frames = l.frames + 1]

\* What is written of the histories hs when a frame is cut within them: at most one is
\* cut itself, since they are written one after the other, in any order of the map.
Part(k) == {SubSeq(History(k), i, j) : i \in 1..2, j \in 0..2}
CutWithin(hs) ==
    {cs \in [Subs -> UNION {Part(k) : k \in Subs}] :
        /\ \A k \in Subs : IsPrefix(cs[k], hs[k])
        /\ Cardinality({k \in Subs : cs[k] \notin {<<>>, hs[k]}}) <= 1}

\* A torn frame: some of the messages; or all of them and some of the outputs; or all of
\* both and some of the histories.  The meta, which is written last, is not in it.
Torn(l, f, s) ==
    LET ms == NewMessages(l, s)
        os == NewOutputs(l, s)
    IN  {[g EXCEPT !.torn = TRUE] : g \in
            {Grown(f, SubSeq(ms, 1, n), {}, NoHistory) : n \in 0..Len(ms)}
            \cup {Grown(f, ms, some, NoHistory) : some \in SUBSET os}
            \cup {Grown(f, ms, os, cs) : cs \in CutWithin(NewHistories(l, s))}}

\* A reader does not get past a torn frame.
Extended(f, g) == IF f.torn THEN f ELSE g

\* One frame is written and synced.  When that fails set_len takes it back, or, if it
\* fails too, some of the frame stays and the cursor no longer matches the file.
Frame(l, f, s) ==
    LET whole == Extended(f, Appended(l, f, s))
    IN  {Ended(whole, Advanced(l, s), FALSE)} \cup
        (IF faults = MaxFaults THEN {}
         ELSE {Ended(f, l, TRUE), Ended(whole, Stale(l), TRUE)} \cup
              {Ended(Extended(f, g), Stale(l), TRUE) : g \in Torn(l, f, s)})

\* append, or compact when the cursor is ahead (append_or_compact_result).
AppendOrCompact(l, f, s) ==
    IF ~l.fresh THEN {Ended(f, l, TRUE)}
    ELSE IF \/ s.title # l.title
            \/ ~IsPrefix(l.msgs, s.msgs)
            \/ CursorAhead(l, s)
            \/ l.frames >= MaxFrames
         THEN Rewrite(l, f, s)
         ELSE IF NothingNew(l, s) /\ l.rev = s.rev
              THEN {Ended(f, l, FALSE)}
              ELSE Frame(l, f, s)

Compact(l, f, s) == IF l.fresh THEN Rewrite(l, f, s) ELSE {Ended(f, l, TRUE)}

\* The session that open_cursor rewrites: every record of the maps is evicted.
OnDisk(f) ==
    [msgs |-> f.msgs, outs |-> {}, subs |-> NoHistory, evOuts |-> f.outs,
     evSubs |-> Resident(f), title |-> f.title, rev |-> f.rev]

\* open_cursor sees the torn tail, and appends after it.
BugOpenCursor(f) ==
    {Ended(f, [CursorFrom(OnDisk(f), f.frames)
                  EXCEPT !.subs = [k \in Subs |-> Len(f.subs[k])]], FALSE)}

\* open_cursor: a torn tail is rewritten before anything is appended after it.
OpenCursor(f) ==
    LET counts == [k \in Subs |-> Len(f.subs[k])]
    IN  IF f.torn
        THEN {[e EXCEPT !.log.subs = counts] : e \in Rewrite(NoLog, f, OnDisk(f))}
        ELSE {Ended(f, [CursorFrom(OnDisk(f), f.frames) EXCEPT !.subs = counts], FALSE)}

\* A log that was opened for a write that failed is not kept.
Kept(es) == {IF e.err THEN [e EXCEPT !.log = NoLog] ELSE e : e \in es}

\* write_session: the results, and whether the snapshot was written or superseded.
WriteSession(s) ==
    LET Wrote(es) == {[e |-> e, wrote |-> ~e.err] : e \in es}
        Opened(e) ==
            IF e.err THEN {[e |-> [e EXCEPT !.log = NoLog], wrote |-> FALSE]}
            ELSE IF e.file.rev > s.rev
                 THEN {[e |-> [e EXCEPT !.log = NoLog], wrote |-> FALSE]}
                 ELSE Wrote(Kept(IF e.file.rev = s.rev THEN Compact(e.log, e.file, s)
                                 ELSE AppendOrCompact(e.log, e.file, s)))
    IN  IF durable > s.rev THEN {[e |-> Ended(file, log, FALSE), wrote |-> FALSE]}
        ELSE IF log # NoLog
             THEN Wrote(IF durable = s.rev THEN Compact(log, file, s)
                        ELSE AppendOrCompact(log, file, s))
             ELSE IF Exists(file) THEN UNION {Opened(e) : e \in OpenCursor(file)}
                  ELSE UNION {Opened(e) : e \in Rewrite(NoLog, file, s)}

-----------------------------------------------------------------------------
(* The live session.                                                       *)

Working(s) == live' = s /\ dirty' = TRUE /\ UNCHANGED <<up, pending, file, writer, acked, faults>>

Turn ==
    /\ up /\ clock < MaxMessages
    /\ clock' = clock + 1
    /\ Working([live EXCEPT !.msgs = Append(@, clock + 1)])
    /\ UNCHANGED <<ran, launch>>

\* A tool of the main agent is done.
ToolDone(id) ==
    /\ up /\ id \in ToSet(live.msgs) \ (live.outs \cup live.evOuts)
    /\ Working([live EXCEPT !.outs = @ \cup {id}])
    /\ UNCHANGED <<clock, ran, launch>>

\* A tool of a subagent is done: its output is kept in the same map.
NestedDone(id) ==
    /\ up /\ id \in Nested \ ran /\ live.msgs # <<>>
    /\ ran' = ran \cup {id}
    /\ Working([live EXCEPT !.outs = @ \cup {id}])
    /\ UNCHANGED <<clock, launch>>

\* SubagentHistory: the subagent that the last message started is closed.  Its key is
\* the id of its own session.
SubagentHistory(k) ==
    /\ up /\ k \in Subs \ ran /\ live.msgs # <<>>
    /\ ran' = ran \cup {k}
    /\ launch' = [launch EXCEPT ![k] = Last(live.msgs)]
    /\ Working([live EXCEPT !.subs[k] = History(k)])
    /\ UNCHANGED clock

\* The title is generated or edited.
Rename ==
    /\ up /\ ~live.title /\ live.msgs # <<>>
    /\ Working([live EXCEPT !.title = TRUE])
    /\ UNCHANGED <<clock, ran, launch>>

\* oldest_beyond_budget: all but the Keep youngest.  Calls are in the order of the
\* messages, which are numbered in it; the others are younger, in the order of their ids.
OldestBeyond(order, present) ==
    LET calls == present \cap ToSet(order)
        Older(a, b) == \/ a \in calls /\ b \notin calls
                       \/ (a \in calls <=> b \in calls) /\ a < b
    IN  {id \in present : Cardinality({o \in present : Older(id, o)}) >= Keep}

\* The budget evicts what is over it, written or not.
BugEvictable(s) ==
    [outs |-> OldestBeyond(s.msgs, s.outs), subs |-> OldestBeyond(s.msgs, Resident(s))]

\* retention_eviction_candidates narrowed by retain_durable.
Evictable(s) ==
    [outs |-> OldestBeyond(s.msgs, s.outs) \cap ledger.outs,
     subs |-> OldestBeyond(s.msgs, Resident(s)) \cap ledger.subs]

\* evict_retained.
EvictRetained(s, e) ==
    [s EXCEPT !.outs = @ \ e.outs, !.evOuts = @ \cup e.outs,
              !.subs = [k \in Subs |-> IF k \in e.subs THEN <<>> ELSE @[k]],
              !.evSubs = @ \cup e.subs]

\* save_snapshot: finish_snapshot, send, and enforce_retention_budget.  The revision
\* advances when the session has changed, and an eviction is a change.
Save ==
    LET snapshot == [live EXCEPT !.rev = IF dirty THEN @ + 1 ELSE @]
        e == Evictable(snapshot)
    IN  /\ up /\ live.msgs # <<>> /\ snapshot.rev <= MaxRevision
        /\ pending' = snapshot
        /\ live' = EvictRetained(snapshot, e)
        /\ dirty' = (e.outs \cup e.subs # {})
        /\ UNCHANGED <<up, file, writer, acked, faults, clock, ran, launch>>

\* prune_orphans: what is keyed by a call that is not in the messages goes.
PruneOrphans(s) ==
    LET main == ToSet(s.msgs)
        kept == {k \in Resident(s) : k \in main}
        alive == main \cup UNION {ToSet(s.subs[k]) : k \in kept}
    IN  [s EXCEPT !.subs = [k \in Subs |-> IF k \in kept THEN @[k] ELSE <<>>],
                  !.evSubs = @ \cap main,
                  !.outs = @ \cap alive, !.evOuts = @ \cap alive]

\* rewind_to: truncate, prune, and enqueue_save, which evicts nothing.  The snapshot is
\* synced with shared_tool_outputs, so the outputs in memory come back unpruned.
Rewind(n) ==
    LET pruned   == PruneOrphans([live EXCEPT !.msgs = SubSeq(@, 1, n)])
        snapshot == [pruned EXCEPT !.outs = live.outs, !.rev = @ + 1]
    IN  /\ up /\ n \in 1..Len(live.msgs) - 1 /\ live.rev < MaxRevision
        /\ pending' = snapshot /\ live' = snapshot /\ dirty' = FALSE
        /\ UNCHANGED <<up, file, writer, acked, faults, clock, ran, launch>>

-----------------------------------------------------------------------------
(* The writer thread, crashes and restarts.                                *)

\* record_durable.
Durable(s) == [outs |-> s.outs, subs |-> Resident(s)]

\* flush for the session.  A snapshot that failed is tried again, or dropped when the
\* file is not the one the log knows.
Write ==
    /\ up /\ pending # NoSession
    /\ \E x \in WriteSession(pending) :
         /\ file' = x.e.file /\ log' = x.e.log
         /\ ledger' = IF x.wrote THEN Durable(pending) ELSE ledger
         /\ durable' = IF x.wrote THEN pending.rev
                       ELSE IF x.e.err THEN durable
                       ELSE IF durable > pending.rev THEN durable ELSE x.e.file.rev
         /\ acked' = IF x.wrote THEN pending ELSE acked
         /\ faults' = IF x.e.err /\ (log = NoLog \/ log.fresh) THEN faults + 1 ELSE faults
         /\ pending' \in IF ~x.e.err THEN {NoSession}
                         ELSE IF log # NoLog /\ ~log.fresh THEN {NoSession}
                         ELSE {pending, NoSession}
    /\ UNCHANGED <<user, up>>

\* The process dies, between two writes or in one: the file is what a failed write can
\* leave, and no set_len takes a torn frame back.
Crash ==
    /\ up /\ faults < MaxFaults
    /\ file' \in {file} \cup
                 (IF pending = NoSession THEN {}
                  ELSE {x.e.file : x \in WriteSession(pending)})
    /\ faults' = faults + 1
    /\ up' = FALSE
    /\ live' = Fresh /\ pending' = NoSession /\ log' = NoLog /\ durable' = -1
    /\ ledger' = [outs |-> {}, subs |-> {}] /\ dirty' = TRUE
    /\ UNCHANGED <<clock, ran, launch, acked>>

\* load_from_with_retention and register_loaded.
Restart ==
    LET p == Parsed(file)
        e == [outs |-> OldestBeyond(p.msgs, p.outs),
              subs |-> OldestBeyond(p.msgs, Resident(p))]
    IN  /\ ~up /\ Exists(file)
        /\ up' = TRUE
        /\ live' = EvictRetained(p, e)
        /\ ledger' = Durable(EvictRetained(p, e))
        /\ UNCHANGED <<clock, dirty, ran, launch, pending, file, log, durable, acked, faults>>

Next ==
    \/ Turn \/ Rename \/ Save
    \/ \E id \in Messages : ToolDone(id)
    \/ \E id \in Nested : NestedDone(id)
    \/ \E k \in Subs : SubagentHistory(k)
    \/ \E n \in Messages : Rewind(n)
    \/ Write \/ Crash \/ Restart

Spec == Init /\ [][Next]_vars

-----------------------------------------------------------------------------
(* Properties.                                                             *)

\* The histories of which a message can be read back: the others leave only tombstones.
Legible == {k \in Subs : Readable(History(k)) # <<>>}

\* The file f has the history h of subagent k: its readable messages, in their order.  A
\* tombstone names no history, so the count that open_cursor takes of one that begins
\* with a tombstone is short, and a message of it may be there twice.
Holds(f, h, k) == IF k \in Big THEN ToSet(Readable(h)) \subseteq ToSet(f.subs[k])
                  ELSE IsPrefix(Readable(h), f.subs[k])

\* What the live session has evicted from memory can be read back from the file at any
\* time, whatever is rewritten, torn or recovered meanwhile, but for the records over the
\* limit, of which the file has a tombstone (OnlyWrittenEvicted makes no exception).  Of
\* a history whose frame a crash has torn, it is the part which was recovered.
EvictedOnDisk ==
    /\ live.evOuts \ Big \subseteq file.outs
    /\ live.evSubs \cap Legible \subseteq Resident(file)
    /\ \A k \in live.evSubs \ Big : IsPrefix(file.subs[k], Readable(History(k)))

\* A snapshot that was written with success is never lost: after failed writes, crashes
\* within a write, recovery of a torn tail and rewrites, the file holds its messages, its
\* tool outputs and its histories, evicted ones included, or a snapshot that replaced it.
AckedSurvives ==
    acked # NoSession =>
        \/ file.rev > acked.rev
        \/ /\ IsPrefix(Readable(acked.msgs), file.msgs)
           /\ (acked.outs \cup acked.evOuts) \ Big \subseteq file.outs
           /\ \A k \in Subs : Holds(file, acked.subs[k], k)
           /\ acked.evSubs \cap Legible \subseteq Resident(file)

\* While the log is open and current, the file reads back as the snapshot it was last
\* given, with nothing missing, nothing foreign and nothing twice, except that a history
\* which begins with a tombstone may have a message twice (CursorsAligned makes no
\* exception).  A history that is not in memory is evicted, or a rewind pruned it after
\* its eviction: the cursor has forgotten it, and the file keeps it.
LogIsSnapshot ==
    (log.fresh /\ log.rev = acked.rev) =>
        /\ file.msgs = Readable(acked.msgs)
        /\ file.outs = (acked.outs \cup acked.evOuts) \ Big
        /\ \A k \in Resident(acked) :
              /\ Holds(file, acked.subs[k], k)
              /\ ToSet(file.subs[k]) \subseteq ToSet(Readable(acked.subs[k]))
              /\ k \notin Big => file.subs[k] = Readable(acked.subs[k])
        /\ \A k \in (Subs \ Resident(acked)) \ Big :
              IsPrefix(file.subs[k], Readable(History(k)))

\* "The tombstone occupies the same sequence position, so cursors stay aligned and later
\* saves keep appending": after an append, no history of the snapshot is in the file with
\* a message twice or missing.
CursorsAligned ==
    (log.fresh /\ log.rev = acked.rev) =>
        \A k \in Resident(acked) : file.subs[k] = Readable(acked.subs[k])

\* "Only records the writer already put on disk are dropped, so the log stays the
\* complete history": every output and history that the live session has evicted can be
\* read back from the file.
OnlyWrittenEvicted ==
    /\ live.evOuts \subseteq file.outs
    /\ live.evSubs \subseteq Resident(file)

\* "drops everything not reachable from `messages` or the saved `transcript`": a rewind
\* keeps the history of every subagent whose call is still in the messages.
RewindKeepsHistories ==
    [][\A n \in Messages : Rewind(n) =>
         \A k \in Resident(live) \cup live.evSubs :
             launch[k] \in ToSet(live'.msgs) => k \in Resident(live') \cup live'.evSubs]_vars
=============================================================================
