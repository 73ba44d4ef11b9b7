------------------------------ MODULE RunStore ------------------------------
(***************************************************************************)
(* The durable run store (crates/n00n-runs/src/store.rs): runs, their      *)
(* event log, the parent outbox, run chains and host instances, seen by    *)
(* the processes of one project that share one SQLite database.            *)
(*                                                                         *)
(* Every mutating method runs in one BEGIN IMMEDIATE transaction, so it is *)
(* one atomic action here; a call that the store refuses (conflict, fence, *)
(* invalid transition, repeated operation id) commits nothing and is not a *)
(* step.  reconcile_stale is not one transaction: it scans, verifies a     *)
(* host, snapshots its runs and interrupts them one transition at a time,  *)
(* so it is an actor with its own state (pass) whose steps interleave with *)
(* everything else.                                                        *)
(*                                                                         *)
(* Timestamps are left out: which rows a compaction selects by age and     *)
(* LIMIT is any subset of the rows its WHERE clause admits.                *)
(***************************************************************************)
EXTENDS RunDomain, Naturals, FiniteSets

CONSTANTS
    CreateIds,    \* run ids carried by NewRunSpec values; a caller may retry one
    ResumeIds,    \* run ids RunId::generate hands out inside resume_run
    LegacyIds,    \* the deterministic ids import_legacy_one derives from a session
    HostIds,      \* host instance ids
    OpIds,        \* operation ids chosen by clients
    Targets,      \* the lifecycles clients ask for
    Parented,     \* whether a NewRunSpec names a parent session: \subseteq BOOLEAN
    Resumable,    \* whether it declares capabilities.resume: \subseteq BOOLEAN
    Reconcilers,  \* processes that call reconcile_stale
    MaxRevision,  \* the largest revision the i64 column holds (RevisionOverflow)
    None          \* SQL NULL / Rust None

RunIds == CreateIds \cup ResumeIds \cup LegacyIds

\* The three id pools do not meet (random v4 ids against a v5 namespace), the
\* clients ask for lifecycles, and None is not an id.
ASSUME StoreAssumption ==
    /\ CreateIds \cap ResumeIds = {}
    /\ CreateIds \cap LegacyIds = {}
    /\ ResumeIds \cap LegacyIds = {}
    /\ Targets \subseteq Lifecycles
    /\ Parented \subseteq BOOLEAN /\ Resumable \subseteq BOOLEAN
    /\ MaxRevision \in Nat \ {0}
    /\ None \notin RunIds \cup HostIds \cup Lifecycles

VARIABLES
    run,      \* the runs table: RunIds -> row or None
    event,    \* the run_events table
    outbox,   \* the parent_outbox table
    chain,    \* the run_chains table, a chain named after its first attempt
    host,     \* the host_instances table and the state of the host process
    fresh,    \* ids RunId::generate has not returned yet
    pass,     \* each reconciler's position in reconcile_stale
    closed    \* history: <<run, revision>> whose delivery was ever finalised

table == <<run, event, outbox, chain>>
vars  == <<run, event, outbox, chain, host, fresh, pass, closed>>

-----------------------------------------------------------------------------
(* Rows, requests and operation ids.                                       *)

Opt(S) == S \cup {None}

Row == [lifecycle : Lifecycles, revision : 1..MaxRevision,
        owner : Opt(HostIds), epoch : 0..MaxRevision,
        pred : Opt(RunIds), parentRun : Opt(RunIds), chain : RunIds,
        parent : BOOLEAN,       \* parent_session_id is set
        resumable : BOOLEAN]    \* capabilities.resume

\* What an operation fingerprint is computed from: arg is the target lifecycle
\* of a transition and the new owner of a transfer.
Request == [kind : {"create", "transition", "resume", "transfer", "legacy"},
            run : RunIds, rev : 0..MaxRevision,
            owner : Opt(HostIds), epoch : 0..MaxRevision,
            arg : Opt(HostIds \cup Lifecycles)]

\* "create:<run>", "legacy:<run>", "reconcile:<run>:<host>:<epoch>" and the
\* ids clients choose.
CreateOp(r)          == <<"create", r>>
LegacyOp(r)          == <<"legacy", r>>
ReconcileOp(r, h, e) == <<"reconcile", r, h, e>>
ClientOp(o)          == <<"client", o>>

OperationIds ==
    {CreateOp(r) : r \in RunIds} \cup {LegacyOp(r) : r \in RunIds}
      \cup {ReconcileOp(r, h, e) : r \in RunIds, h \in HostIds, e \in 0..MaxRevision}
      \cup {ClientOp(o) : o \in OpIds}

Event == [run : RunIds, rev : 1..MaxRevision, op : OperationIds,
          req : Request, life : Lifecycles]

OutboxStates == {"pending", "delivered", "acknowledged", "dead_letter"}
Finalised    == {"acknowledged", "dead_letter"}

Delivery == [run : RunIds, rev : 1..MaxRevision, state : OutboxStates]

\* A row of host_instances ("none": not registered, "pruned": deleted) and what
\* the operating system knows: heartbeat age and whether the process runs.
Host == [row : {"none", "live", "shutdown", "pruned"}, beating : BOOLEAN, alive : BOOLEAN]

\* A reconciler's position: the candidates left, those of them the scan found
\* shut down, and the requests left for the host in hand.
Pass == [hosts : SUBSET HostIds, down : SUBSET HostIds, todo : SUBSET Request]
IdlePass == [hosts |-> {}, down |-> {}, todo |-> {}]

Stored == {r \in RunIds : run[r] # None}

\* NULL is not a row.
ASSUME RowAssumption == None \notin Row

-----------------------------------------------------------------------------
(* The helpers of store.rs.  The operators named Bug... are mutations of   *)
(* the definition that follows them; no action uses them.                  *)

\* The lookup forgets the operations of resumed attempts.
BugSeen(op) == \E e \in event : e.op = op /\ e.req.kind # "resume"

\* idempotent_result finds an event of the project with this operation id; the
\* caller gets the stored record or IdempotencyConflict, never a second effect.
Seen(op) == \E e \in event : e.op = op

\* The epoch of the fence is not compared.
BugVerify(row, rev, owner, epoch) == row.revision = rev /\ row.owner = owner

\* verify_revision_and_owner: optimistic revision and exact owner fence.
VerifyRevisionAndOwner(row, rev, owner, epoch) ==
    /\ row.revision = rev
    /\ row.owner = owner
    /\ row.epoch = epoch

\* The last revision is off by one.
BugFits(rev) == rev <= MaxRevision

\* checked_add and u64_to_i64: the next revision fits its column.
Fits(rev) == rev < MaxRevision

\* require_live_host: registered and never shut down.
RequireLiveHost(h) == h \in Opt({g \in HostIds : host[g].row = "live"})

\* insert_event: the event row of revision rev.
InsertEvent(q, r, rev, op, life) ==
    event' = event \cup {[run |-> r, rev |-> rev, op |-> op, req |-> q, life |-> life]}

\* insert_outbox_if_parent guarded by should_notify_parent.
InsertOutboxIfParent(r, hasParent, rev, life) ==
    outbox' = outbox \cup (IF hasParent /\ life \in Notifiable
                           THEN {[run |-> r, rev |-> rev, state |-> "pending"]}
                           ELSE {})

\* A queued first revision, as create_run and resume_run insert it.
QueuedRow(owner, pred, parentRun, ch, hasParent, resumable) ==
    [lifecycle |-> "Queued", revision |-> 1, owner |-> owner,
     epoch |-> IF owner = None THEN 0 ELSE 1,
     pred |-> pred, parentRun |-> parentRun, chain |-> ch,
     parent |-> hasParent, resumable |-> resumable]

\* A gone host is one whose clean shutdown or whose process exit is proven.
Gone(h) == host[h].row \in {"shutdown", "pruned"} \/ ~host[h].alive

-----------------------------------------------------------------------------
(* Runs.                                                                   *)

\* create_run: a known run id returns the stored record (no step); a leftover
\* chain row of the same spec makes the INSERT fail.
CreateRun(r, owner, parentRun, hasParent, resumable) ==
    /\ run[r] = None
    /\ parentRun \in Opt(Stored)
    /\ RequireLiveHost(owner)
    /\ r \notin chain
    /\ chain' = chain \cup {r}
    /\ run' = [run EXCEPT ![r] = QueuedRow(owner, None, parentRun, r, hasParent, resumable)]
    /\ InsertEvent([kind |-> "create", run |-> r, rev |-> 0, owner |-> None,
                    epoch |-> 0, arg |-> None], r, 1, CreateOp(r), "Queued")
    /\ UNCHANGED <<outbox, host, fresh, pass, closed>>

\* The checks of a transition after the idempotency lookup: require_run,
\* verify_revision_and_owner and validate_transition.
Admits(q) ==
    /\ run[q.run] # None
    /\ VerifyRevisionAndOwner(run[q.run], q.rev, q.owner, q.epoch)
    /\ CanTransitionTo(run[q.run].lifecycle, q.arg)

\* transition_with_failure for request q under operation id op: the idempotency
\* lookup and the checks, then the run row, its event and the parent delivery in
\* one transaction; a revision that does not fit its column is an error.
Commit(q, op) ==
    /\ ~Seen(op)
    /\ Admits(q)
    /\ Fits(q.rev)
    /\ run' = [run EXCEPT ![q.run].lifecycle = q.arg, ![q.run].revision = q.rev + 1]
    /\ InsertEvent(q, q.run, q.rev + 1, op, q.arg)
    /\ InsertOutboxIfParent(q.run, run[q.run].parent, q.rev + 1, q.arg)

\* A client's transition.  A fence is used by the running process it names,
\* which need not be the owner any more, nor registered as live.
Transition(q, o) ==
    /\ q.owner \in Opt({h \in HostIds : host[h].alive})
    /\ Commit(q, ClientOp(o))
    /\ UNCHANGED <<chain, host, fresh, pass, closed>>

\* A running attempt can be resumed.
BugResumeAllowed(row) == row.resumable

\* resume_run's demands on the prior attempt.
ResumeAllowed(row) == row.lifecycle \in Terminal /\ row.resumable

\* resume_run: a new queued attempt in the chain of a terminal run, which is
\* itself left alone.
ResumeRun(prior, r, owner, o) ==
    /\ ~Seen(ClientOp(o))
    /\ run[prior] # None
    /\ ResumeAllowed(run[prior])
    /\ RequireLiveHost(owner)
    /\ r \in fresh
    /\ fresh' = fresh \ {r}
    /\ run' = [run EXCEPT ![r] = QueuedRow(owner, prior, run[prior].parentRun,
                                           run[prior].chain, run[prior].parent, TRUE)]
    /\ InsertEvent([kind |-> "resume", run |-> prior, rev |-> run[prior].revision,
                    owner |-> owner, epoch |-> 0, arg |-> None],
                   r, 1, ClientOp(o), "Queued")
    /\ UNCHANGED <<outbox, chain, host, pass, closed>>

\* transfer_owner: fences the exact prior owner and bumps the epoch.
TransferOwner(q, o) ==
    /\ ~Seen(ClientOp(o))
    /\ q.arg \in HostIds /\ RequireLiveHost(q.arg)
    /\ q.owner # None /\ host[q.owner].alive
    /\ run[q.run] # None
    /\ VerifyRevisionAndOwner(run[q.run], q.rev, q.owner, q.epoch)
    /\ run[q.run].lifecycle \notin Terminal
    /\ Fits(q.rev) /\ Fits(q.epoch)
    /\ run' = [run EXCEPT ![q.run].owner = q.arg, ![q.run].epoch = q.epoch + 1,
                          ![q.run].revision = q.rev + 1]
    /\ InsertEvent(q, q.run, q.rev + 1, ClientOp(o), run[q.run].lifecycle)
    /\ UNCHANGED <<outbox, chain, host, fresh, pass, closed>>

\* import_legacy_one: a terminal run under a deterministic id, with its event
\* and the delivery to the parent every legacy child has.
ImportLegacyOne(r, life) ==
    /\ run[r] = None
    /\ r \notin chain
    /\ chain' = chain \cup {r}
    /\ run' = [run EXCEPT ![r] = [QueuedRow(None, None, None, r, TRUE, FALSE)
                                    EXCEPT !.lifecycle = life]]
    /\ InsertEvent([kind |-> "legacy", run |-> r, rev |-> 0, owner |-> None,
                    epoch |-> 0, arg |-> None], r, 1, LegacyOp(r), life)
    /\ InsertOutboxIfParent(r, TRUE, 1, life)
    /\ UNCHANGED <<host, fresh, pass, closed>>

\* legacy_outcome: what a stored session's lifecycle becomes.
LegacyOutcomes == {"Succeeded", "Failed", "Cancelled", "Interrupted"}

-----------------------------------------------------------------------------
(* Hosts.  Register, heartbeat and shutdown are the store's; ProcessExit   *)
(* and HeartbeatAges are the operating system's and the clock's.           *)

RegisterHost(h) ==
    /\ host[h].row = "none"
    /\ host' = [host EXCEPT ![h] = [row |-> "live", beating |-> TRUE, alive |-> TRUE]]
    /\ UNCHANGED <<table, fresh, pass, closed>>

\* heartbeat_host never revives a shut-down host.
HeartbeatHost(h) ==
    /\ host[h].row = "live" /\ host[h].alive /\ ~host[h].beating
    /\ host' = [host EXCEPT ![h].beating = TRUE]
    /\ UNCHANGED <<table, fresh, pass, closed>>

HeartbeatAges(h) ==
    /\ host[h].beating
    /\ host' = [host EXCEPT ![h].beating = FALSE]
    /\ UNCHANGED <<table, fresh, pass, closed>>

ShutdownHost(h) ==
    /\ host[h].row = "live" /\ host[h].alive
    /\ host' = [host EXCEPT ![h].row = "shutdown"]
    /\ UNCHANGED <<table, fresh, pass, closed>>

ProcessExit(h) ==
    /\ host[h].alive
    /\ host' = [host EXCEPT ![h].alive = FALSE]
    /\ UNCHANGED <<table, fresh, pass, closed>>

-----------------------------------------------------------------------------
(* reconcile_stale.                                                        *)

OwnsActiveRun(h) == \E r \in Stored : run[r].owner = h /\ run[r].lifecycle \notin Terminal

\* stale_hosts: hosts that own an active run and are shut down or silent.
StaleHosts == {h \in HostIds : /\ OwnsActiveRun(h)
                               /\ host[h].row = "shutdown" \/ ~host[h].beating}

ScanStaleHosts(p) ==
    /\ pass[p] = IdlePass
    /\ StaleHosts # {}
    /\ pass' = [pass EXCEPT ![p] = [hosts |-> StaleHosts, todo |-> {},
                                    down |-> {h \in StaleHosts : host[h].row = "shutdown"}]]
    /\ UNCHANGED <<table, host, fresh, closed>>

\* active_runs_for_owner: the fenced requests built from the snapshot.
InterruptRequests(h) ==
    {[kind |-> "transition", run |-> r, rev |-> run[r].revision, owner |-> h,
      epoch |-> run[r].epoch, arg |-> "Interrupted"] :
        r \in {s \in Stored : run[s].owner = h /\ run[s].lifecycle \notin Terminal}}

\* A silent heartbeat is taken for proof.
BugVerifiedGone(p, h) == h \in pass[p].down \/ ~host[h].beating

\* The liveness a reconciler acts on: the shutdown its scan read, or the
\* verifier's proof that the process exited.
VerifiedGone(p, h) == h \in pass[p].down \/ ~host[h].alive

VerifyGone(p, h) ==
    /\ pass[p].todo = {}
    /\ h \in pass[p].hosts
    /\ VerifiedGone(p, h)
    /\ pass' = [pass EXCEPT ![p] = [hosts |-> @.hosts \ {h}, down |-> @.down \ {h},
                                    todo |-> InterruptRequests(h)]]
    /\ UNCHANGED <<table, host, fresh, closed>>

\* The verifier answers Live or Unknown: the host is only counted.
VerifyNotGone(p, h) ==
    /\ pass[p].todo = {}
    /\ h \in pass[p].hosts \ pass[p].down
    /\ pass' = [pass EXCEPT ![p].hosts = @ \ {h}]
    /\ UNCHANGED <<table, host, fresh, closed>>

ReconcileOpOf(q) == ReconcileOp(q.run, q.owner, q.epoch)

\* One transition of the pass that the store accepts.
InterruptRun(p, q) ==
    /\ q \in pass[p].todo
    /\ Commit(q, ReconcileOpOf(q))
    /\ pass' = [pass EXCEPT ![p].todo = @ \ {q}]
    /\ UNCHANGED <<chain, host, fresh, closed>>

\* A transition of the pass that is passed over: an identical request already
\* committed, or a conflict, fence, lifecycle or not-found refusal.
SkipRun(p, q) ==
    /\ q \in pass[p].todo
    /\ IF Seen(ReconcileOpOf(q))
       THEN \E e \in event : e.op = ReconcileOpOf(q) /\ e.req = q
       ELSE ~Admits(q)
    /\ pass' = [pass EXCEPT ![p].todo = @ \ {q}]
    /\ UNCHANGED <<table, host, fresh, closed>>

\* Any other error ends the pass and leaves the rest of its hosts to the next
\* one: the operation id under another fingerprint (IdempotencyConflict), a
\* revision overflow, a database error; so does the exit of the process.
AbortPass(p) ==
    /\ pass[p] # IdlePass
    /\ pass' = [pass EXCEPT ![p] = IdlePass]
    /\ UNCHANGED <<table, host, fresh, closed>>

-----------------------------------------------------------------------------
(* The outbox and retention.                                               *)

SetState(d, s) == outbox' = (outbox \ {d}) \cup {[d EXCEPT !.state = s]}

\* A late delivery report reopens a finalised row.
BugMarkOutboxDelivered(d) ==
    /\ SetState(d, "delivered")
    /\ UNCHANGED <<run, event, chain, host, fresh, pass, closed>>

\* mark_outbox_delivered
MarkOutboxDelivered(d) ==
    /\ d.state = "pending"
    /\ SetState(d, "delivered")
    /\ UNCHANGED <<run, event, chain, host, fresh, pass, closed>>

\* acknowledge_outbox, also straight from pending (the crash boundary before
\* the delivery was recorded).
AcknowledgeOutbox(d) ==
    /\ d.state \in {"pending", "delivered"}
    /\ SetState(d, "acknowledged")
    /\ closed' = closed \cup {<<d.run, d.rev>>}
    /\ UNCHANGED <<run, event, chain, host, fresh, pass>>

\* dead_letter_outbox
DeadLetterOutbox(d) ==
    /\ d.state \in {"pending", "delivered"}
    /\ SetState(d, "dead_letter")
    /\ closed' = closed \cup {<<d.run, d.rev>>}
    /\ UNCHANGED <<run, event, chain, host, fresh, pass>>

\* Delivered but unacknowledged rows count as finalised.
BugPrunableDeliveries == {d \in outbox : d.state # "pending"}

\* Only the parent reference protects a run.
BugPrunableRuns(rows) ==
    {r \in Stored : /\ run[r].lifecycle \in Terminal
                    /\ \A d \in rows : d.run # r
                    /\ \A s \in Stored : run[s].parentRun # r}

\* The WHERE clauses of compact's four DELETEs, each on what the previous ones
\* left.
PrunableDeliveries == {d \in outbox : d.state \in Finalised}

PrunableRuns(rows) ==
    {r \in Stored : /\ run[r].lifecycle \in Terminal
                    /\ \A d \in rows : d.run # r
                    /\ \A s \in Stored : run[s].pred # r /\ run[s].parentRun # r}

PrunableChains(kept) == {c \in chain : \A r \in kept : run[r].chain # c}

PrunableHosts(kept) ==
    {h \in HostIds : host[h].row = "shutdown" /\ \A r \in kept : run[r].owner # h}

\* Events stay behind their run.
BugRemainingEvents(rs) == event

\* ON DELETE CASCADE from runs to run_events.
RemainingEvents(rs) == {e \in event : e.run \notin rs}

\* compact: one transaction; deleting a run cascades to its events.
Compact(ds, rs, cs, hs) ==
    /\ ds \cup rs \cup cs \cup hs # {}
    /\ outbox' = outbox \ ds
    /\ run' = [r \in RunIds |-> IF r \in rs THEN None ELSE run[r]]
    /\ event' = RemainingEvents(rs)
    /\ chain' = chain \ cs
    /\ host' = [h \in HostIds |-> IF h \in hs THEN [host[h] EXCEPT !.row = "pruned"] ELSE host[h]]
    /\ UNCHANGED <<fresh, pass, closed>>

CompactSome ==
    \E ds \in SUBSET PrunableDeliveries :
      \E rs \in SUBSET PrunableRuns(outbox \ ds) :
        \E cs \in SUBSET PrunableChains(Stored \ rs) :
          \E hs \in SUBSET PrunableHosts(Stored \ rs) : Compact(ds, rs, cs, hs)

-----------------------------------------------------------------------------
Init ==
    /\ run = [r \in RunIds |-> None]
    /\ event = {}
    /\ outbox = {}
    /\ chain = {}
    /\ host = [h \in HostIds |-> [row |-> "none", beating |-> FALSE, alive |-> FALSE]]
    /\ fresh = ResumeIds
    /\ pass = [p \in Reconcilers |-> IdlePass]
    /\ closed = {}

\* Requests for a run that has no row are refused and change nothing.
TransitionRequests ==
    [kind : {"transition"}, run : Stored, rev : 1..MaxRevision,
     owner : Opt(HostIds), epoch : 0..MaxRevision, arg : Targets]

TransferRequests ==
    [kind : {"transfer"}, run : Stored, rev : 1..MaxRevision,
     owner : HostIds, epoch : 0..MaxRevision, arg : HostIds]

RunStep ==
    \/ \E r \in CreateIds, owner \in Opt(HostIds), parentRun \in Opt(RunIds),
          hasParent \in Parented, resumable \in Resumable :
            CreateRun(r, owner, parentRun, hasParent, resumable)
    \/ \E q \in TransitionRequests, o \in OpIds : Transition(q, o)
    \/ \E prior \in RunIds, r \in ResumeIds, owner \in Opt(HostIds), o \in OpIds :
            ResumeRun(prior, r, owner, o)
    \/ \E q \in TransferRequests, o \in OpIds : TransferOwner(q, o)
    \/ \E r \in LegacyIds, life \in LegacyOutcomes : ImportLegacyOne(r, life)

HostStep ==
    \E h \in HostIds : \/ RegisterHost(h) \/ HeartbeatHost(h) \/ HeartbeatAges(h)
                       \/ ShutdownHost(h) \/ ProcessExit(h)

ReconcileStep ==
    \E p \in Reconcilers :
        \/ ScanStaleHosts(p) \/ AbortPass(p)
        \/ \E h \in HostIds : VerifyGone(p, h) \/ VerifyNotGone(p, h)
        \/ \E q \in pass[p].todo : InterruptRun(p, q) \/ SkipRun(p, q)

OutboxStep ==
    \E d \in outbox : MarkOutboxDelivered(d) \/ AcknowledgeOutbox(d) \/ DeadLetterOutbox(d)

Next == RunStep \/ HostStep \/ ReconcileStep \/ OutboxStep \/ CompactSome

Spec == Init /\ [][Next]_vars

-----------------------------------------------------------------------------
(* Properties.                                                             *)

\* Every table holds rows of its type.
TypeOK ==
    /\ run \in [RunIds -> Opt(Row)]
    /\ event \subseteq Event
    /\ outbox \subseteq Delivery
    /\ chain \subseteq RunIds
    /\ host \in [HostIds -> Host]
    /\ fresh \subseteq ResumeIds
    /\ pass \in [Reconcilers -> Pass]
    /\ closed \subseteq RunIds \X (1..MaxRevision)

\* The event log of a stored run holds exactly one event per revision from 1 to
\* the run's revision, whose last lifecycle is the run's; a deleted run leaves
\* none (events() pages by revision, wait_for_revision compares revisions).
EventLogComplete ==
    /\ \A e \in event : run[e.run] # None /\ e.rev <= run[e.run].revision
    /\ \A e, f \in event : e.run = f.run /\ e.rev = f.rev => e = f
    /\ \A r \in Stored : \A n \in 1..run[r].revision : \E e \in event : e.run = r /\ e.rev = n
    /\ \A e \in event : e.rev = run[e.run].revision => e.life = run[e.run].lifecycle

\* An operation id has at most one effect among the stored events, over all runs
\* of the project, whatever is retried and by whom (idempotent_result).
OperationAppliedOnce == \A e, f \in event : e.op = f.op => e = f

\* Every reference of one table to another resolves, so no DELETE of compact can
\* fail on a foreign key: a predecessor and a parent run outlive the runs that
\* name them, an owner's host row outlives its runs, a chain row its runs, and a
\* delivery's source event the delivery.
ReferencesResolve ==
    /\ \A r \in Stored :
          /\ run[r].chain \in chain
          /\ run[r].pred # None => run[r].pred \in Stored
          /\ run[r].parentRun # None => run[r].parentRun \in Stored
          /\ run[r].owner # None => host[run[r].owner].row \in {"live", "shutdown"}
    /\ \A d \in outbox : \E e \in event : e.run = d.run /\ e.rev = d.rev

\* A resumed attempt continues a finished run of its own chain.
AttemptsFollowTerminal ==
    \A r \in Stored : run[r].pred \in Stored =>
        /\ run[run[r].pred].lifecycle \in Terminal
        /\ run[run[r].pred].chain = run[r].chain

\* After a transfer to epoch k+1 nothing is written under epoch k or less, and
\* each epoch has one owner: the log's fences never go back.
FenceMonotone ==
    \A e, f \in event :
        /\ e.run = f.run /\ e.rev < f.rev
        /\ e.req.kind \in {"transition", "transfer"}
        /\ f.req.kind \in {"transition", "transfer"}
        => /\ e.req.epoch <= f.req.epoch
           /\ e.req.epoch = f.req.epoch => e.req.owner = f.req.owner
           /\ e.req.kind = "transfer" => e.req.epoch < f.req.epoch

\* A run is interrupted by reconciliation only if the host it belonged to has
\* shut down or its process has exited, although the host was checked several
\* steps before the write.
ReconciledOwnersGone ==
    \A e \in event : (\E h \in HostIds, k \in 0..MaxRevision : e.op = ReconcileOp(e.run, h, k))
        => Gone(e.req.owner)

\* Every entry into a terminal or waiting state of a run with a parent session
\* still has its delivery or that delivery was once finalised: compaction and
\* concurrent writers never lose a notification.
NoLostNotification ==
    \A e \in event : e.life \in Notifiable /\ e.req.kind # "transfer" /\ run[e.run].parent
        => \/ \E d \in outbox : d.run = e.run /\ d.rev = e.rev
           \/ <<e.run, e.rev>> \in closed

\* A terminal run's row never changes again; it can only be deleted.
TerminalImmutable ==
    [][\A r \in Stored : run[r].lifecycle \in Terminal => run'[r] \in {run[r], None}]_vars

\* A delivery only moves forward; a finalised one never becomes deliverable
\* again, and only a finalised one is deleted.
DeliveryForward ==
    [][\A d \in outbox :
          LET now == {c \in outbox' : c.run = d.run /\ c.rev = d.rev}
          IN  \/ d \in now
              \/ d.state = "pending" /\ now # {}
              \/ d.state = "delivered" /\ \E c \in now : c.state \in Finalised
              \/ d.state \in Finalised /\ now = {}]_vars
=============================================================================
