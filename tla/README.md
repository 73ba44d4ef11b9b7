# n00n: specifications of runs, turns and sessions

n00n is a terminal coding agent.  A TUI process runs agent sessions; a session
can start background runs in child sessions; runs are recorded in a SQLite
database that several processes of a project share; when a run ends or needs
somebody, its parent session is told.  Sessions are kept in files by a
write-behind writer thread.

These modules specify the part of the system in which several actors share
durable state: the run store, the delivery of notices to the parent, the
projection of a child session's events onto its run, the waiting for a run, the
session writer and the log it writes, the queue of submissions between a session
and its agent loop, and the tree of sessions with its limits.  TLC checks small
instances.  TLAPS proves for every value of the constants all the safety
properties that hold in the runs: those of the run store, the run projection, the
delivery of notices (with its refinement of `ParentNotice`), the session writer,
the session log, the turn queue and the session tree.  The liveness properties,
the waiting for a run among them, are model-checked only (section 6).

## 1. Inventory

| Component | State | Operations | Hard behaviour | What makes it correct |
|---|---|---|---|---|
| Run domain (`n00n-runs/domain.rs`) | none: the lifecycle relation and the rules of a transition | `can_transition_to`, `validate_transition`, `outcome_matches` | corner cases of the relation | a terminal run never moves |
| Run store (`n00n-runs/store.rs`) | tables `runs`, `run_events`, `parent_outbox`, `run_chains`, `host_instances` | create, transition, resume, transfer, hosts, reconcile, import, compact, outbox updates, waits | retries with the same operation id; owners replaced while they write; reconciliation in several transactions; pruning | complete event log, one effect per operation id, fences only grow, nothing still owed is pruned |
| Run service and adapters (`n00n-runs/service.rs`, `adapter.rs`) | the adapters' registry | `dispatch_parent_outbox`, acknowledge, send, answer, cancel, pause, resume | a pass over rows other tasks finish | at-least-once notices |
| Parent notification (`n00n-ui/event_loop.rs`, `app/queue.rs`, `agent/shared_queue.rs`) | session queue, ledger of consumed deliveries, run ids, completions on their way | insert, submit, persist, poll, pop, record, acknowledge | five tasks and a crash between any two of their steps | queued once, acknowledged only when durable, never lost |
| Run projection (`n00n-ui/event_loop.rs`, `n00n-lua/api/run.rs`) | tracker of the last projection, the writer's channel | start, project, cancel, interrupt, write | late events, store failures, exit | the stored end is the decided end |
| Session writer (`n00n-ui/storage_writer.rs`) | inbox, tracker of generations, channel, pending and durable versions, barriers | send, persist, delete, load, shutdown, retry | commands arrive out of order; failed writes; deletes crossing saves | no resurrection, no lost save |
| Session log (`n00n-storage/sessions.rs`, `n00n-ui/storage_writer.rs`, `app/session.rs`) | append-only file of zstd frames, positional cursors, ledger of durable ids, evicted ids | append, rewrite, evict, rewind, load | failed and torn appends, a rewrite that copies what only the old file holds, eviction against the file | a written snapshot survives; what memory dropped is on disk |
| Turn queue (`n00n-ui/agent/shared_queue.rs`, `agent/agent_loop.rs`, `app/queue.rs`, `app/mod.rs`, `n00n-agent/agent/run.rs`) | items with a ready flag, generation, one-slot wake, status and run id of the UI, position of the agent | start, queue, draw, persist, restore, cancel, pop, poll, dispatch, drain | Esc against dispatch, late events, coalesced wakes, a blocked head | nothing taken back is sent; order; a session does not stay streaming |
| Cancellation (`n00n-agent/cancel.rs`) | tokens, map of triggers, dispatch gate | insert, cancel or pre-cancel, try_cancel, try_commit | cancel before registration | a cancel stops exactly its run |
| Session lineage (`n00n-ui/session_lineage.rs`, handlers of `event_loop.rs`) | tree of sessions, runtimes, active executions, files, chains of deletions | new, prompt, focus, reset, cancel, kill, reap, delete, restart | limits checked on several paths, deletions that fail half way, what a start finds | limits hold; no session without its ancestors |
| Tool admission, registry, permissions (`n00n-agent`) | permits, rules, open requests | admit, ask, answer | answers after a cancel | bounded concurrency |
| MCP clients (`n00n-agent/mcp`) | open requests, child process | call, answer, restart | late answers, process exit | every call ends |
| Provider admission and retry (`n00n-providers`) | two semaphores | acquire, release, back off | a permit held while waiting for another | no permit is lost |
| Daemon (`n00n-daemon`) | `daemon.lock`, listener, registry | sweep, write, connect | two processes at once | one listener |
| Interpreter worker (`n00n-interpreter`) | child process, open request | run, time out, kill | answer against time-out | one answer per request |
| Providers, Lua runtime, plugins, TUI widgets, ACP, search, configuration, documentation | | | | conversions, presentation and I/O: not modelled |

`PROJECT.json` lists every component with its sources and status, and the
hazards with the line where each one bites.

How the modelled components interact:

    n00n.run.start --create/transition--> run store <--transition-- RunTransitionWriter
          |                                   |  row in parent_outbox        ^
          +--SessionRequest::New--> event loop |                              | channel
                                        |  ^   v                              |
                          child's events+  |  dispatch_parent_outbox   RunProjectionTracker
                                           |   |
                     insert, submit, record|   | ParentInsert request and reply
                                           +---+
                        shared queue <--> agent task      storage writer --> session log
                             ^               ^                  ^
                             |    CancelMap, gate               |  snapshots, deletions
                             +--- session (app) ----------------+
                                     |
                               lineage guard: may a session be created, started, reaped

## 2. Modules

| Module | Models | State |
|---|---|---|
| `RunDomain` | the lifecycle relation and `validate_transition` | none |
| `RunStore` (EXTENDS `RunDomain`) | the store of one project shared by processes | tables as sets of rows; each reconciler's position |
| `RunStoreProofs` (EXTENDS `RunStore`) | theorems: event log, operation ids, terminal rows, attempts; references, fences, reconciliation, notifications, deliveries | |
| `RunWait` | `wait_for_revision` against commits and notifications | the run, waiters |
| `ParentNotice` | abstract: what the outbox promises | owed, settled or abandoned; shown; parent gone |
| `ParentDelivery` (INSTANCE `ParentNotice`) | dispatcher, event loop, queue, agent, writer and acknowledgement of one parent session | see the VARIABLES |
| `ParentDeliveryProofs` (EXTENDS `ParentDelivery`) | theorems about it, and that it implements `ParentNotice` | |
| `RunProjection` (EXTENDS `RunDomain`) | start, tracker and transition writer of one run | run, tracker, channel |
| `RunProjectionProofs` (EXTENDS `RunProjection`) | theorems about it | |
| `StorageWriter` | callers and writer thread for one session | commands, inbox, channel, writer state, file |
| `StorageWriterProofs` (EXTENDS `StorageWriter`) | theorems about it | |
| `SessionLog` | the log file of one session, the writer's choice between append and rewrite, eviction and rewind in memory | live session, pending snapshot, file, cursor, ledger |
| `SessionLogProofs` (EXTENDS `SessionLog`) | theorems about it | |
| `TurnQueue` | one session of the TUI, its queue, its agent loop and the router of cancellations | see the VARIABLES |
| `TurnQueueProofs` (EXTENDS `TurnQueue`) | theorems about it | |
| `SessionLineage` | the tree of sessions, the requests that change it, the files and their deletion | state, path, activity of each session; disk; chains of deletions |
| `SessionLineageProofs` (EXTENDS `SessionLineage`) | theorems about it | |
| `SequenceFacts` | lemmas about sequences, and induction over numbers and over sequences, that the proofs share | |
| `MCRunStore`, `MCRunProgress`, `MCParentDelivery`, `MCSessionLog` | instances for TLC: symmetry sets, and which behaviours of a large specification are explored (section 3) | |

Correspondence and abstraction:

* **RunStore.**  A method of the store runs in one `BEGIN IMMEDIATE` transaction,
  so it is one action.  A refused call commits nothing and is not a step.
  `reconcile_stale` is several transactions: it scans (`ScanStaleHosts`),
  verifies a host and lists its runs (`VerifyGone`, `VerifyNotGone`), and
  interrupts them one by one (`InterruptRun`, `SkipRun`, `AbortPass` for the
  error that ends the pass), interleaved with everything else.  Timestamps are
  left out: compaction takes any subset of the rows its `WHERE` clauses admit.
  Operation ids keep their structure (`create`, `legacy`, `reconcile`, client),
  because idempotency compares them; an event keeps the request that made it,
  which stands for the request's fingerprint.  Titles, summaries and outputs are
  left out.  `MaxRevision` stands for the largest value of the column; a write
  that would pass it is refused, as `u64_to_i64` and the checked addition do.
* **RunWait.**  A read, the decision, the sleep, the wake and the poll are
  separate steps; a commit and its `notify` are separate steps too; a commit of
  another process is never notified.
* **ParentDelivery.**  A handler of the event loop is one step because the loop
  is one thread; the agent task, the writer thread, the dispatcher and the
  acknowledgement tasks interleave.  Run ids are reduced to whether they equal
  the application's current one, which is all the code asks of them.  The storage
  writer is a queue of snapshots here with success and failure;  `StorageWriter`
  models its inside.  A crash keeps the outbox and the file.  The set of
  deliveries is finite: a project has finitely many outbox rows.
* **RunProjection.**  An agent event is reduced to the projection it makes.  The
  writer reads a run and then writes it by revision, in two steps.
* **StorageWriter.**  A snapshot is its generation and revision.  A caller
  reserves a generation, fills the inbox, completes the generation it replaced
  and sends a wake or a command, in separate steps, so commands arrive in any
  order.  A step of the writer is one iteration of its loop.  `Current` says that
  the revisions of saves do not fall as their generations grow: the event loop
  makes every snapshot of a session from the last one, `finish_snapshot` counts
  the revision up, `app/session.rs:884` and `event_loop.rs:764` take the maximum
  of what they know, and a load returns the pending snapshot or else the stored
  one.  The unit tests of the writer call it with falling revisions, which the
  callers modelled here never do.  `PersistedIsDurable` needs it: with a file of
  revision 2 from an earlier process, a persist of revision 3 (generation 1) that
  reaches the writer after a send of revision 1 (generation 2) is rejected by its
  generation, and the send is superseded by the revision in the file.
* **SessionLog.**  A file is what its reader makes of it: the messages, the
  outputs and the histories it can read, the last meta record, and whether the
  file ends in a torn frame, past which nothing is read.  `FullSession` and
  `Appended` are what a rewrite and an append make readable;  `Torn` is every
  prefix of a frame, in the order in which its records are written, with the
  histories in any order of the map and at most one of them cut.  A message over
  the record limit (`Big`) leaves a tombstone, which `Readable` skips.
  `WriteSession` gives every outcome of one attempt: append, append that fails
  and is taken back with `set_len`, the same with a failing `set_len`, rewrite,
  rewrite that fails before the rename or after it.  `Crash` may leave the file
  of any of them.  The writer's inbox, retries and deletions are those of
  `StorageWriter` and appear here as one pending snapshot.  `Rewind` ends in
  `enqueue_save`, which evicts nothing, and its snapshot takes back the outputs
  in memory that the pruning removed, since `session_state.rs:227` copies them
  from `shared_tool_outputs`.  A history of a subagent has two messages, so that
  a torn frame can cut it.  `OldestBeyond` is the set that the budget evicts:
  what has `Keep` younger ones.  The transcript is left out: its cursor works
  like that of the messages.
* **TurnQueue.**  The UI thread's handlers are one step each; the agent takes one
  step per await.  `Draw` and `Persisted` are the two completions a started
  submission waits for before its item is ready; each may be refused or fail.  A
  cancellation is sent as a command and reaches the map when `Route` runs.
  `sent`, `stored`, `back` and `routed` record what has happened, for the
  properties; no guard reads them.  `Without` removes one entry, where
  `remove_submission` retains all others: an id is pushed once.  A turn's stream,
  retries and tools are one response that asks for tools, for another turn, or
  ends.
* **SessionLineage.**  The event loop answers a request in one step, with the
  guard's `reserve_new` and `commit_new` in it; on an error the reservation is
  released and nothing changes.  Paths replace the walk along parents, which
  `resolve_cached_lineage` caches.  Any live session may ask for a child, a blank
  one too, which `save_snapshot` does not write.  The return of `New` between the
  reservation and its release, for a requested id that does not parse, is not
  modelled because it cannot happen: a `SessionRef` is built only from text that
  parses (`n00n-storage/src/id.rs`).  `Delete` is wider than
  `authorize_ui_delete`, which refuses a callback that carries a session's
  identity.  Deletions are chains the writer works on one file at a time;
  `Ordered` is every order of a chain that the sort by depth can give, with
  siblings in any order.  `left` and `revived` name the sessions, and `written`
  has those that ever had a file, for the three cases of 5 that the properties
  exclude.

## 3. Runs

| Run | Question | Instance | States |
|---|---|---|---|
| `store` | event log, operation ids, references, attempts, notices, terminal rows, forward deliveries; types at the revision bound, fences, reconciliation against live owners | one created, one resumed and one legacy run, three client operation ids, compaction of any rows; or one run of four revisions, two hosts, two reconcilers, three operation ids | 145,515 |
| `run_progress` | cancelled and interrupted runs end so, the stored end is the decided end, a requested run leaves its starting states; a waiter whose revision has been passed returns | one run, two wait reasons, one store failure; or two waiters, commits of two processes | 19,096 |
| `delivery_crash` | queued once, acknowledged only when durable, implements `ParentNotice`, a pending row is dispatched | one delivery, two faults (crash, cancel, deletion, failed write) anywhere | 433,366 |
| `delivery_two` | a ledger of one entry with two deliveries never evicts what is not acknowledged | two deliveries | 111,436 |
| `delivery_once` | violation, see 5 | one delivery, no fault | |
| `writer_order` | no resurrection, answered saves survive, loads see saves, a clean shutdown lost nothing, the writer catches up with every save or reports it | three commands of any kind and order, two revisions, one fault | 455,903 |
| `session_log` | the file reads back as the snapshot, a written snapshot survives, what memory evicted is on disk | two messages (one over the record limit), a subagent, whose history may begin with a message over the limit, a nested call, three snapshots, a rewrite after one frame, two faults | 1,977,354 |
| `session_cursor` | violation, see 5 | one message, one subagent with an oversized first message, one fault | |
| `session_evict` | violation, see 5 | one message, one nested call with an oversized output, no fault | |
| `session_rewind` | violation, see 5 | two messages, one subagent, no fault | |
| `turn_queue` | nothing restored is sent, sent only when stored, order, cancellation, release of activity; a session settles, a turn is taken | two submissions of any kind, one cancellation, one fault | 316,138 |
| `lineage` | limits of depth, activity and number, the focused session, no session below a deleted one, ancestors on disk | four sessions, depth two, two descendants, one active, one chain of deletions at a time, one fault | 1,375,671 |

Why the bounds are enough for the cases they are meant for: a retried operation
needs two uses of one id and another write between them (three ids, two
revisions); a fence needs an owner, a successor and the first owner's late write
(two hosts, four revisions); two reconcilers are needed for one to act on what
the other has changed; a second crash lets the recovery itself be interrupted;
a snapshot, a deletion and a newer snapshot are the shortest sequence in which a
deletion crosses both an older and a newer save.  The bound `MaxWrites` of
`ParentDelivery` lets an insertion, a consumption and a periodic save be in
flight at once; `MaxEvents` and `MaxSeen` allow one more event and insertion
than the properties count.  In `RunProjection` five queued commands hold the
longest burst (running, waiting, running, cancelling, cancelled).
In `SessionLog` the shortest loss is a snapshot, its eviction and a second
snapshot that rewrites the file, with a failure in the rewrite and a crash after
it: three revisions, one incremental frame and two faults.  In `TurnQueue` one
submission runs while another waits, is promoted, overtakes or is taken back,
with a cancellation of either; run ids count to one more than that needs.  In
`SessionLineage` four sessions make a chain of three, a sibling or a second
root; both limits are reached at once.  A second chain of deletions begins when
the first has ended or failed; with `MaxJobs` at two they also overlap, and the
same properties hold on 3.32 million states in about twice the time.

Three runs explore part of what their specification allows.  In `MCRunStore` a
behaviour is about attempts, outbox and compaction with short runs and no host,
or about the owners of one run; in `MCSessionLog` it has one subagent, of one kind
or the other (`OneHistory`); `MCRunProgress` runs `RunProjection` or `RunWait`,
which share no variable.  The theorems of section 6 are about the whole
specifications.

`TypeOK` is an invariant of the runs of `RunStore`, where it includes the bound
of the revision, and of `TurnQueue`, where it says that no trigger outlives its
run.  In the other modules it documents the types of the variables; it holds on
the same instances and can be added to any of the cfgs.

Deadlock checking is off where the modelled part may really stop: all runs have
ended, all notices are settled, all waiters have returned.  `StorageWriter` runs
with it: its only final state is the stopped writer (`Halted`).

Symmetry is used for ids that are only compared, and only in runs without
liveness properties.  Session ids and messages are numbers, because the code
orders them, and have no symmetry.

## 4. Fairness

* `RunWait`: threads run and `wait_timeout` ends after `CROSS_PROCESS_POLL`
  (weak); the database is not busy at every read (strong, on `Read`).  Deadlines
  and commits have no fairness: a waiter must return without them.
* `ParentDelivery`: the dispatcher, the event loop, the agent, the writer and
  the acknowledgement tasks go on (weak); a turn ends.  The user, faults and
  crashes have no fairness.  Insertion has strong fairness only because
  `MaxWrites` bounds a channel that in the code is unbounded: it is disabled now
  and then by the bound.
* `RunProjection`: the start, the writer and the exit go on (weak).  Nothing is
  assumed of the child or the user.
* `StorageWriter`: callers that have begun and the writer thread go on (weak);
  the retry has strong fairness, since every load or command restarts the wait
  of `RETRY_DELAY` and a bounded number of them can happen.
* `TurnQueue`: the UI draws, the writer answers each submission, the event loop,
  the agent task and the router of cancellations go on (weak).  A model that is
  asked again and again ends its turn some time (strong, on `Respond("safe")`);
  without it a model may ask for tools for ever, which the code permits up to
  `max_turns`.  Nothing is assumed of the user.
* `SessionLog` and `SessionLineage` are checked for safety only.

## 5. Disagreements between the code and what is said of it

Four have a run of their own:

* `delivery_once`: a row offered again between the agent taking the entry and
  the event loop recording its consumption is in neither the queue nor the
  ledger, and enters the conversation twice, without a crash.
* `session_rewind`: `prune_orphans` keeps a subagent's history only if its key is
  the id of a call in the messages, but the keys are ids of subagent sessions.
  Every rewind drops the histories of subagents whose calls it keeps; the doc
  comment says it "drops everything not reachable from `messages` or the saved
  `transcript`".

* `session_cursor`: a tombstone names no history, so `open_cursor` does not count
  it.  When the first message of a subagent's history is over the record limit,
  the position of a reopened cursor in that history is one short, and the next
  append writes the rest of it a second time: a turn, the history, a save whose
  write fails after the rename, so that the log is dropped, and another save.
  The comment at `sessions.rs:3028` says "The tombstone occupies the same
  sequence position, so cursors stay aligned and later saves keep appending".
  `LogIsSnapshot` states, and the proofs show, what is left: such a history may
  have a message twice, and no other has.  After an oversized second message the
  count is short as well, but only a tombstone is written again.
* `session_evict`:  `record_durable` lists every output of a written snapshot,
  also one over the record limit, of which the log has only a tombstone.  The
  next save evicts it, and no copy is left.  `app/session.rs:319` says "Only
  records the writer already put on disk are dropped, so the log stays the
  complete history", and `storage_writer.rs:322` that a snapshot "can never take
  the only copy of a record with it".  `EvictedOnDisk` states it for the records
  within the limit.

The others were met while modelling.  Where a model has the behaviour, its
module is named.

* An import is refused only while the run's row exists, and compaction deletes
  it, so a legacy session is imported and announced again; the comment at
  `store.rs:799` says "once" (`RunStore`).
* A steering entry that arrives after the agent's last poll, or is restored into
  an idle session, stays in the queue, because `pop` takes only turn-end entries;
  the comment at `app/queue.rs:276` promises to "otherwise start a new turn"
  (`ParentDelivery`, `TurnQueue`).
* A child that ends while its run is recorded as waiting sends a transition that
  `can_transition_to` refuses; the writer logs it, the tracker is settled, and
  the run waits for ever (`RunProjection`).
* A notification between a waiter's read and its sleep wakes nobody, so an
  in-process change may be seen only at the next poll (`RunWait`).
* The transition writer drops a projection that changes only the wait reason
  (`RunProjection`).
* A caller that completes a replaced generation after the writer collected
  barriers leaves a barrier until the session's next command (`StorageWriter`).
* A failed append is taken back with `set_len`; when that fails too, the log is
  stale and every later snapshot is dropped until a restart, although the comment
  at `sessions.rs:2702` expects a retry to append cleanly (`SessionLog`).
* A history that was evicted and then pruned by a rewind stays in the file, and a
  load brings it back (`SessionLog`).
* A session stays streaming until it is cancelled when the user removes the entry
  of a background start, or an idle `/compact`, from the queue; or when a
  compaction queued after a cancellation is polled by the cancelled run that is
  still winding down (`TurnQueue`:  `astray`).  The same run may take a steering
  entry submitted after the cancellation.
* A manual compaction registers no trigger, so a cancellation does not stop it
  (`TurnQueue`:  `CompactEnds`).
* The activity of a session is not always released: a requested background start
  is not marked as started, and Esc after the write has ended restores the text
  without releasing it (`TurnQueue`).
* While the agent runs a turn it took from the queue, the status can be idle:
  reaping, documented as deleting idle sessions, may then delete a session that
  works (`SessionLineage`).
* Reaping leaves out sessions already marked deleted.  If the deletion of such a
  child has failed or is still waiting, its ancestor's file may go first, and the
  child stays on disk where a start skips it, while `changelog.d/509.fixed.md:6`
  says that reaping "no longer orphans saved child sessions" (`SessionLineage`:
  `left`).  A crash before a chain ends brings deleted sessions back (`revived`).
* A blank session has no file, because `save_snapshot` returns early
  (`app/session.rs:283`), and may have a child:  Ctrl+N in the picker that
  `/sessions` opens calls `session.new` in its name.  The child is written with
  its first submission and names a parent that is not on disk; the next start
  skips it, or, asked to open it, reports `MissingParent` (`event_loop.rs:542`).
  Nothing in the repository promises otherwise, so there is no run for it;
  `StoredHaveParents` excludes exactly the sessions below one that never had a
  file (`SessionLineage`:  `written`).

## 6. Proofs

`RunStoreProofs` proves, from `StoreAssumption` and `RowAssumption` (the id
pools do not meet, `None` is not an id or a row, the bound is positive):

* `StoreTypeCorrect`: `Spec => []TypeOK`.
* `StoreLogComplete`: `Spec => []EventLogComplete`.  Every stored run has exactly
  one event for each revision from 1 to its own, the last one shows the run's
  lifecycle, and a deleted run leaves no event.
* `StoreOperationOnce`: `Spec => []OperationAppliedOnce`.
* `StoreTerminalImmutable`: `Spec => TerminalImmutable`.
* `StoreAttempts`: `Spec => []AttemptsFollowTerminal`.

All of them rest on `StoreInvariant`: `TypeInv /\ LogInv` is inductive.
`EventLogComplete` alone is not: `resume_run` inserts under a generated id, which
needs `FreshUnused` (an id not handed out names no run), or the new first event
could collide with an old one; create and import use ids they derive from the
run, which needs `OpsNamed` (such an id occurs only in that run's log), so a
missing row implies an unused operation id; and a reconciler writes a request it
stored steps ago, which needs `PassRequests` (only fenced interrupt requests are
held).  The argument has one lemma for what every writer does (`AppendEvent`: one
event under a new id, at the next revision of a stored run or the first of a new
one, keeps the log), applied once per action, and one for compaction
(`CompactLog`: events go exactly with their runs).

`StoreTerminalImmutable` is a case split over the actions: an operation writes at
most one row (`OneRowKept`), which was absent or active; for `resume_run` that
needs `FreshUnused` again.  `AttemptsFollowTerminal` needs `AttemptInv`: the run
an attempt continues is still stored.  Without that, its id could be created
anew as a queued run under an attempt that continues it; compaction keeps it
because it spares every run that a stored one names.

From the same assumptions it proves:

* `StoreReferences`: `Spec => []ReferencesResolve`.
* `StoreFences`: `Spec => []FenceMonotone`.
* `StoreReconciled`: `Spec => []ReconciledOwnersGone`.
* `StoreNotifications`: `Spec => []NoLostNotification`.
* `StoreDeliveries`: `Spec => DeliveryForward`.

Every action is first reduced to one of a few shapes (an insertion, a transition,
a transfer, a compaction, a step of a host, a reconciler or the outbox), so that
each invariant is argued over shapes.  `FenceMonotone` compares events with each
other and says nothing of the row that the next write is fenced by;  `FenceInv`
adds that no fence in the log is ahead of the row's, and that the events of the
row's epoch are its owner's.  `ReconciledOwnersGone` is about a check made
several transactions before the write, so `PassGone` says that what a reconciler
has remembered stays true: a registered host that is gone stays gone, whatever is
pruned.  `NoLostNotification` needs `OutboxUnique` and `FinalisedClosed`, or a
compaction of a finalised delivery could take an open one with it.

`RunProjectionProofs` proves:

* `ProjectionTypeCorrect`: `Spec => []TypeOK`.
* `ProjectionEnds`: `Spec => []EndAgrees`.
* `ProjectionCancels`: `Spec => []CancelLands`.

`Turns` orders start, session, tracker and channel, and says that the revision
the writer holds is still the run's.  `EndAgrees` needs the ends that are still
in the channel (`EndInv`).  `CancelLands` speaks of a drained channel only, so
`PathInv` says what the channel must hold before: while no store error has
happened, the commands that are left lead from the run's present state to the end
the tracker settled on, by way of `Cancelling` for a cancel.

`ParentDeliveryProofs` proves, from `DeliveryAssumption` (positive capacity and
bounds, finitely many deliveries):

* `DeliveryTypeCorrect`, the types, and that the ledger keeps within its capacity.
* `DeliveryQueuedOnce`: `Spec => []QueuedOnce`.
* `DeliveryUnacknowledgedKept`: `Spec => UnacknowledgedKept`.
* `DeliveryImplementsNotice`: `Spec => ImplementsNotice`, that is `Spec` implies
  the specification of `ParentNotice` under the mapping of the module.
* `DeliveryAcknowledgedDurable`: `Spec => []AcknowledgedIsDurable`.

The invariant follows a consumption through the places it passes: every snapshot
(in the file, unsaved, or in a write) records only what was shown, a write that
answers `AlreadyConsumed` or acknowledges carries the record, nothing is written
after a deletion, and what the dispatcher was told is true.  The refinement needs
exactly the last two: a row is acknowledged only for a shown delivery, and
dead-lettered only when the parent is gone.  `AcknowledgedIsDurable` needs in
addition `Chain`: once a snapshot holds a delivery, every later one on its way to
the file does, since otherwise an older snapshot could be written over the
record.  With a full ledger an entry whose acknowledgement is durable may be
evicted, which is why the property is about ledgers with room for every delivery.

`TurnQueueProofs` proves:

* `QueueTypeCorrect`: `Spec => []TypeOK`, which includes that no trigger outlives
  its run.
* `QueueRestoredNotSent`: `Spec => []RestoredNotSent`.
* `QueueSentStored`: `Spec => []SentIsStored`.
* `QueueInOrder`: `Spec => []InOrder`.
* `QueueCancelStops`: `Spec => CancelStops`.
* `QueueDrainReleases`: `Spec => DrainReleasesIdle`.

The bound of run ids is part of the types, so the invariant accounts for every
increment: one for each submission, each text taken back and each cancellation.
A text that is taken back has its gate cancelled (`SubsInv`) and a text that was
sent its gate committed (`SentInv`); no gate is both.  `OrderInv` relates what is
sent, what the agent has in hand and what is queued: an entry in the queue is not
sent, is ready or younger than all that was sent, and a started one is younger
than every started one that was sent.  `CancelStops` needs `MapInv`: a routed
cancellation is in the map until the run registers, and in its token from then
on.  `DrainReleasesIdle` is about an event handled late, so `EventsInv` says that
a drain whose generation is still current finds the queue empty and the agent at
rest.

`StorageWriterProofs` proves, from `WriterAssumption` (the bounds are numbers):

* `WriterTypeCorrect`: `Spec => []TypeOK`.
* `WriterNoResurrection`: `Spec => []NoResurrection`.
* `WriterPersistedDurable`: `Spec => []PersistedIsDurable`.
* `WriterLoadSees`: `Spec => []LoadSeesSaves`.
* `WriterCleanShutdown`: `Spec => []CleanShutdown`.

A step of the writer takes the inbox, stages, flushes or deletes, and collects
barriers, so the invariant is stated for any state, file and set of outstanding
generations (`WriterInv(c, O, s, d)`), each operator is shown to keep it, to keep
what survives (`Passes`) and to undo no deletion (`StaysGone`), and a step is the
composition (`KeepsTwice`).  Its heart is `Barred`: for whatever the writer or
the file holds, either a barrier rejects every older generation or no older
generation is outstanding; that is why `collect_barriers` may forget a barrier.
`Gone` says the same of a deletion.  Besides, what is pending, latest or given up
is ordered by generation against the file (`OrderOK`), a latest snapshot is in
the file, pending or given up (`Stored`), and a save that has left its caller is
in the inbox, replaced there, or `Survives`: durable, offered to loads, or
deleted.  A rejected snapshot survives because the generation that rejected it
does.  `Readable` turns `Survives` into the three properties about saves.

`SessionLineageProofs` proves, from `LineageAssumption` (finitely many session
ids, limits that are numbers, at least one active execution allowed):

* `LineageWithinLimits`: `Spec => []WithinLimits`.
* `LineageFocused`: `Spec => []FocusedLive`.
* `LineageNoneBelowDeleted`: `Spec => []NoneBelowDeleted`.
* `LineageStoredHaveParents`: `Spec => []StoredHaveParents`.

They rest on `LineageInvariant`.  The limits are counted over the descendants of
a root, so a step must be known to change the descendants of one root only:
`Forest` says that paths are closed under ancestors, have no cycles and end in
one root.  `KnownPaths` says that what the guard or the disk knows has a path.
`NoneBelowDeleted` is not inductive either: a restart forgets stored sessions
whose ancestors are missing, and the next restart must not find such a session
again under an ancestor it does not know; `SkippedStays` says that one of the
missing ancestors is neither on disk nor known, so it is never written again.
Steps that begin an execution or reserve a session are counted with `CountAdd`
against the check made in the same step; all others shrink the counted sets
(`LimitsShrink`).

`StoredHaveParents` is about files that go one at a time while requests, failures
and restarts go on, so `FilesInv` adds what makes the next deletion of a chain
harmless: every stored session below a session that is still to be deleted comes
before it in the same chain (`Chain`), and what is open, or may be opened, and
ever had a file still has it (`OpenKept`).  Both cannot be said of a session
below one that closed before it had a file: a start skips it, and a later
deletion of its parent does not know of it.  They are said of the others
(`Hopeful`: every ancestor has had a file or may still get one), and no step
makes a session hopeful again (`HopefulBefore`).  A chain keeps that while others
write and delete files, because its sessions are closed for good (`ChainStays`).
That the sessions of a request can always be put into such an order
(`OrderExists`), so that a deletion is never blocked in the model, is proved by
induction over their number.  The provers cannot use the library's induction
theorems, whose parameter is an operator;  `SetInduction` of `SequenceFacts`
states induction for a set of numbers and is proved from the existence of a least
number outside it.

`SessionLogProofs` proves, from `LogAssumption` (bounds that are numbers, finitely
many subagents and nested calls, ids of different kinds that differ; any records
may be over the limit):

* `LogTypeCorrect`: `Spec => []TypeOK`.
* `LogReadsBack`: `Spec => []LogIsSnapshot`.
* `LogKeepsAcked`: `Spec => []AckedSurvives`.
* `LogKeepsEvicted`: `Spec => []EvictedOnDisk`.

They rest on `LogInvariant`: `IInv` is inductive.  None of the three properties
is so by itself.

* An append copies nothing that memory has dropped, so a write is harmless only
  if the cursor tells what the file has.  `Positions` says that a current cursor
  has the file's revision, messages and outputs, and the position in each history
  that the session or its snapshot still holds.  For other histories it may be
  wrong, after a rewrite that left an evicted one in the file; it is not used
  then.
* A rewrite keeps of the file only what the snapshot names.  The live session may
  have evicted more since the snapshot was taken, so `Pending` says that the
  snapshot holds or names all that the session has evicted or may evict; and two
  snapshots of one revision are the same, or a late one could replace what was
  acknowledged.
* Eviction trusts the ledger, which was filled by an earlier write.  `Ledger`
  says that what it names and memory still holds is in the file, and that a
  rewound message does not come back under an id it names.
* `Shapes` limits a history, in memory and in the file, to nothing, its first
  message, or all of it, and what is readable to what is within the limit; of a
  history that begins with a tombstone the file has the rest, any number of
  times, and a cursor beyond its start means that the file has it at least once
  (`Aligned`);  `Revisions` orders the revisions of what is acknowledged, stored
  and live;  `Down` says that a process that is down has only the file.

A write is analysed once for all the ways `WriteSession` may take (`Outcome`): it
leaves a file that holds all that the old one held (`Grows`) or all of the
snapshot (`Complete`); success means the second; and a cursor that is still
current describes the file.  `Write` and `Crash` both follow from that.  A crash
in the middle of a frame only adds records to what can be read, and the recovery
of a torn tail rewrites exactly what was read, so both leave a file that
`Grows`.  TLC checked `IInv` on instances with other budgets, limits, subagents
and nested calls before it was proved.

`Readable` is a recursive function over a sequence.  What it computes is proved
through `SequenceInduction` of `SequenceFacts`, which states induction over
sequences for a set of them and is proved from `SetInduction` on their lengths:
the function exists for every sequence (`ReaderExists`), reads message by message
(`ReadableAppend`), and therefore distributes over concatenation, keeps prefixes
and changes nothing the second time.

Only model-checked are the liveness properties (`WaiterReturns`,
`EventuallyDispatched`, `StartLeaves`, `EventuallyWritten`, `Settles`,
`TurnsTaken`): fairness is outside the prover's reach.  `RunWait` has no other
property, and so no theorem.

## 7. What could follow

The modules, runs and theorems above are complete in themselves.  Worth adding,
in this order:

1. The remaining operations of the run service with an abstract adapter.
2. Direct tools, edits and a respawn of the agent in `TurnQueue`, and its
   composition with `SessionLineage`, where the release of activity meets the
   limits.
3. Compaction checkpoints of the event loop, MCP requests over stdio, the
   daemon's lock, the interpreter worker, provider admission.

## 8. Not modelled

Model providers, stream parsers, the Lua runtime and plugins, widgets and
rendering, search and index tools, configuration, redaction, markdown and
documentation tools convert data or present it; they keep no state that several
actors share.  Schema migration is one transaction.  Inside the modelled parts,
listings and event pages are left out because they change nothing, and the
adapters' send, answer, pause and resume because their effect is a
revision-checked transition of the store.
