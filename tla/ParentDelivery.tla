---------------------------- MODULE ParentDelivery ----------------------------
(***************************************************************************)
(* How a finished or waiting background run is announced to its parent     *)
(* session: the outbox dispatcher (n00n-runs service.rs), the TUI event    *)
(* loop that inserts the announcement as a control prompt (n00n-ui         *)
(* event_loop.rs, app/queue.rs), the agent that takes it from the shared   *)
(* queue (shared_queue.rs, agent_loop.rs, run.rs), the storage writer that *)
(* persists the session (storage_writer.rs) and the ledger of consumed     *)
(* deliveries (n00n-storage sessions.rs).                                  *)
(*                                                                         *)
(* One parent session in one TUI process.  Each handler of the event loop  *)
(* is one step, because the loop is one thread; the agent task, the writer *)
(* thread, the dispatcher task and the acknowledgement tasks interleave    *)
(* with it.  A crash loses everything but the outbox table and the session *)
(* on disk.                                                                *)
(***************************************************************************)
EXTENDS Naturals, FiniteSets, SequencesExt

CONSTANTS
    Deliveries,      \* the rows of parent_outbox addressed to this session
    LedgerCapacity,  \* MAX_CONTROL_DELIVERY_RECORDS
    MaxWrites,       \* bound on the storage writer's commands and completions
    MaxEvents,       \* bound on the agent's event channel
    MaxFaults,       \* bound on crashes, cancels, deletions and failed operations
    MaxSeen,         \* bound on the history of insertions into the conversation
    None

ASSUME DeliveryAssumption ==
    /\ LedgerCapacity \in Nat \ {0}
    /\ MaxWrites \in Nat \ {0} /\ MaxEvents \in Nat /\ MaxFaults \in Nat /\ MaxSeen \in Nat \ {0}
    /\ IsFiniteSet(Deliveries)

VARIABLES
    outbox,    \* durable: the state of each row
    disk,      \* durable: the parent session's queue and ledger, or None: deleted
    live,      \* the session is open in the event loop
    streaming, \* its status is Streaming
    queue,     \* its shared queue
    ledger,    \* its consumed_run_deliveries
    agent,     \* the agent task: where it is, and whether its run id is the app's
    events,    \* the agent's event channel to the event loop
    persisted, \* the channel of SubmissionPersistence completions
    writes,    \* the storage writer's commands
    unsaved,   \* the snapshot a failed write left for a retry, or None
    disp,      \* the dispatcher task
    acks,      \* acknowledgement tasks and ...
    acked,     \* ... the acknowledgements the event loop has not recorded yet
    faults,    \* how many of the MaxFaults faults have happened
    seen       \* history: how often a delivery entered the conversation

session == <<live, streaming, queue, ledger>>
vars    == <<outbox, disk, session, agent, events, persisted, writes, unsaved,
             disp, acks, acked, faults, seen>>

-----------------------------------------------------------------------------
(* Records.  cur tells whether a run id equals the app's current one: that *)
(* comparison is all the code makes of run ids.                            *)

OutboxStates == {"pending", "delivered", "acknowledged", "dead_letter"}
Open         == {"pending", "delivered"}

Kinds    == {"TurnEnd", "Steering"}
Item     == [id : Deliveries, kind : Kinds, ready : BOOLEAN, cur : BOOLEAN]
Consumed == [id : Deliveries, acknowledged : BOOLEAN]
Stored   == [queue : Seq([id : Deliveries, kind : Kinds]), ledger : Seq(Consumed)]
Results  == {"Inserted", "AlreadyPresent", "AlreadyConsumed", "Unavailable", "Err"}

ASSUME NoneAssumption == None \notin Deliveries /\ None \notin Stored

\* A write: the session to persist (None: delete it) and what its callback does:
\* nothing, release a submission, answer the dispatcher, or acknowledge.
Write == [snap : Stored \cup {None}, to : {"nobody", "submission", "reply", "ack"},
          id : Deliveries \cup {None}, result : Results \cup {None}, cur : BOOLEAN]

IdleDispatcher == [stage |-> "idle", todo |-> {}, at |-> None, result |-> None]
IdleAgent      == [pc |-> "idle", cur |-> FALSE]
EmptySession   == [queue |-> <<>>, ledger |-> <<>>]

Ids(s) == {s[i].id : i \in DOMAIN s}

\* Everything in flight belongs to an earlier run id.
Age(s) == [i \in DOMAIN s |-> [s[i] EXCEPT !.cur = FALSE]]

\* session_snapshot: every queued message, ready or not, and the ledger.
SnapshotOf(q, l) ==
    [queue |-> [i \in DOMAIN q |-> [id |-> q[i].id, kind |-> q[i].kind]], ledger |-> l]

\* A write nobody waits for.
Put(s)     == [snap |-> s, to |-> "nobody", id |-> None, result |-> None, cur |-> FALSE]
Save(q, l) == Put(SnapshotOf(q, l))
Room(n)    == Len(writes) + Len(persisted) + n <= MaxWrites
Fault      == faults < MaxFaults /\ faults' = faults + 1
Heard      == Len(events) < MaxEvents

\* Only the ledger is asked, so that a queued delivery is inserted again.
BugInsertResult(q, l, d) == IF d \in Ids(l) THEN "AlreadyConsumed" ELSE "Inserted"

\* The result of an insertion: contains_run_delivery, has_consumed_run_delivery.
InsertResult(q, l, d) ==
    CASE d \in Ids(l)               -> "AlreadyConsumed"
      [] d \in Ids(q) \ Ids(l)      -> "AlreadyPresent"
      [] d \notin Ids(q) \cup Ids(l) -> "Inserted"

Reply(s, d, r) == [snap |-> s, to |-> "reply", id |-> d, result |-> r, cur |-> FALSE]

\* The position of the entry of this kind that the agent may take: ready, the
\* first of its kind, no blocked entry before it.
Dispatchable(kind) ==
    {i \in DOMAIN queue : /\ queue[i].kind = kind
                          /\ \A j \in 1..i : queue[j].ready
                          /\ \A j \in 1..(i - 1) : queue[j].kind # kind}

Saw(d) == seen' = [seen EXCEPT ![d] = IF @ < MaxSeen THEN @ + 1 ELSE @]

-----------------------------------------------------------------------------
(* The dispatcher: spawn_parent_outbox_dispatcher, dispatch_parent_outbox. *)

\* dispatchable_outbox: delivered but unacknowledged rows are offered again.
Scan ==
    /\ disp.stage = "idle"
    /\ \E d \in Deliveries : outbox[d] \in Open
    /\ disp' = [IdleDispatcher EXCEPT !.stage = "batch",
                                      !.todo = {d \in Deliveries : outbox[d] \in Open}]
    /\ UNCHANGED <<outbox, disk, session, agent, events, persisted, writes, unsaved,
                   acks, acked, faults, seen>>

\* TuiParentInbox::insert sends the delivery to the event loop and waits.
Offer(d) ==
    /\ disp.stage = "batch" /\ d \in disp.todo
    /\ disp' = [disp EXCEPT !.stage = "offered", !.todo = @ \ {d}, !.at = d]
    /\ UNCHANGED <<outbox, disk, session, agent, events, persisted, writes, unsaved,
                   acks, acked, faults, seen>>

\* The store update for each reply and the states its WHERE clause admits; any
\* other state is OutboxNotFound, which ends the pass.
Outcome(result) ==
    CASE result \in {"Inserted", "AlreadyPresent"} -> "delivered"
      [] result = "AlreadyConsumed"                -> "acknowledged"
      [] result = "Unavailable"                    -> "dead_letter"
      [] OTHER                                     -> "retry"

Apply ==
    LET d == disp.at
        to == Outcome(disp.result)
    IN  /\ disp.stage = "replied"
        /\ IF outbox[d] \in Open \cup {to}
           THEN /\ outbox' = [outbox EXCEPT ![d] = IF to = "retry" THEN @ ELSE to]
                /\ disp' = IF disp.todo = {} THEN IdleDispatcher
                           ELSE [disp EXCEPT !.stage = "batch", !.at = None, !.result = None]
           ELSE /\ disp' = IdleDispatcher
                /\ UNCHANGED outbox
        /\ UNCHANGED <<disk, session, agent, events, persisted, writes, unsaved,
                       acks, acked, faults, seen>>

-----------------------------------------------------------------------------
(* The event loop: handle_parent_run_delivery.                             *)

Offered(d) == disp.stage = "offered" /\ disp.at = d
Persisting == disp' = [disp EXCEPT !.stage = "persisting"]
Answer(r)  == disp' = [disp EXCEPT !.stage = "replied", !.result = r]

\* The live session already holds the delivery: only persisted and answered.
InsertKnown(d) ==
    /\ Offered(d) /\ live /\ Room(1)
    /\ InsertResult(queue, ledger, d) # "Inserted"
    /\ writes' = Append(writes, Reply(SnapshotOf(queue, ledger), d, InsertResult(queue, ledger, d)))
    /\ Persisting
    /\ UNCHANGED <<outbox, disk, session, agent, events, persisted, unsaved, acks, acked,
                   faults, seen>>

\* submit_control_prompt while streaming: a ready steering entry.
InsertSteering(d) ==
    /\ Offered(d) /\ live /\ Room(1) /\ streaming
    /\ InsertResult(queue, ledger, d) = "Inserted"
    /\ queue' = Append(queue, [id |-> d, kind |-> "Steering", ready |-> TRUE, cur |-> TRUE])
    /\ writes' = Append(writes, Reply(SnapshotOf(queue', ledger), d, "Inserted"))
    /\ Persisting
    /\ UNCHANGED <<outbox, disk, live, streaming, ledger, agent, events, persisted, unsaved,
                   acks, acked, faults, seen>>

\* submit_control_prompt while idle: a new run id, a blocked entry whose release
\* waits for the first write, and the answer on the second.
InsertStarting(d) ==
    /\ Offered(d) /\ live /\ Room(2) /\ ~streaming
    /\ InsertResult(queue, ledger, d) = "Inserted"
    /\ streaming' = TRUE
    /\ queue' = Append(Age(queue), [id |-> d, kind |-> "TurnEnd", ready |-> FALSE, cur |-> TRUE])
    /\ agent' = [agent EXCEPT !.cur = FALSE]
    /\ events' = Age(events) /\ persisted' = Age(persisted)
    /\ LET s == SnapshotOf(queue', ledger)
       IN  writes' = Age(writes) \o <<[snap |-> s, to |-> "submission", id |-> d,
                                       result |-> None, cur |-> TRUE],
                                      Reply(s, d, "Inserted")>>
    /\ Persisting
    /\ UNCHANGED <<outbox, disk, live, ledger, unsaved, acks, acked, faults, seen>>

\* As above, but lineage.begin_execution fails: the entry is removed again, and
\* the dispatcher is still told Inserted.
InsertNotStarted(d) ==
    /\ Fault
    /\ Offered(d) /\ live /\ Room(1) /\ ~streaming
    /\ InsertResult(queue, ledger, d) = "Inserted"
    /\ queue' = Age(queue)
    /\ agent' = [agent EXCEPT !.cur = FALSE]
    /\ events' = Age(events) /\ persisted' = Age(persisted)
    /\ writes' = Append(Age(writes), Reply(SnapshotOf(queue', ledger), d, "Inserted"))
    /\ Persisting
    /\ UNCHANGED <<outbox, disk, live, streaming, ledger, unsaved, acks, acked, seen>>

\* latest_snapshot goes through the writer's queue, so what is loaded is newer
\* than every earlier command.
Loaded       == IF unsaved # None THEN unsaved ELSE disk
LoadedLedger == IF Loaded = None THEN <<>> ELSE Loaded.ledger

\* The session is not open: the stored one gets the entry.
InsertStored(d) ==
    /\ Offered(d) /\ ~live /\ writes = <<>> /\ Loaded # None
    /\ LET s == Loaded
           r == InsertResult(s.queue, s.ledger, d)
           q == IF r = "Inserted" THEN Append(s.queue, [id |-> d, kind |-> "Steering"])
                ELSE s.queue
       IN  writes' = <<Reply([s EXCEPT !.queue = q], d, r)>>
    /\ Persisting
    /\ UNCHANGED <<outbox, disk, session, agent, events, persisted, unsaved, acks, acked,
                   faults, seen>>

\* Any parent that is not open is taken for a deleted one.
BugInsertDeleted(d) ==
    /\ Offered(d) /\ ~live
    /\ Answer("Unavailable")
    /\ UNCHANGED <<outbox, disk, session, agent, events, persisted, writes, unsaved, acks,
                   acked, faults, seen>>

\* SessionError NotFound: the parent was deleted.
InsertDeleted(d) ==
    /\ Offered(d) /\ ~live /\ writes = <<>> /\ Loaded = None
    /\ Answer("Unavailable")
    /\ UNCHANGED <<outbox, disk, session, agent, events, persisted, writes, unsaved, acks,
                   acked, faults, seen>>

\* Rejected by the queue, or the stored session could not be loaded.
InsertFails(d) ==
    /\ Fault
    /\ Offered(d)
    /\ Answer("Err")
    /\ UNCHANGED <<outbox, disk, session, agent, events, persisted, writes, unsaved, acks,
                   acked, seen>>

InsertDelivery(d) ==
    \/ InsertKnown(d) \/ InsertSteering(d) \/ InsertStarting(d) \/ InsertNotStarted(d)
    \/ InsertStored(d) \/ InsertDeleted(d) \/ InsertFails(d)

-----------------------------------------------------------------------------
(* The event loop: other handlers.                                         *)

\* handle_submission_persisted: a completion of the current run releases its
\* entry, one of an earlier run or a failed write removes it (remove_submission; a
\* delivery is queued at most once, so there is one entry to remove).
SubmissionPersisted ==
    /\ persisted # <<>>
    /\ persisted' = Tail(persisted)
    /\ LET m == Head(persisted)
           mine(x) == x.id = m.id /\ ~x.ready /\ x.cur = m.cur
           mineAt == {i \in DOMAIN queue : mine(queue[i])}
           kept == IF mineAt = {} THEN queue ELSE RemoveAt(queue, CHOOSE i \in mineAt : TRUE)
       IN  \/ /\ m.ok /\ m.cur /\ mineAt # {}
              /\ queue' = [i \in DOMAIN queue |->
                             IF i \in mineAt THEN [queue[i] EXCEPT !.ready = TRUE]
                             ELSE queue[i]]
              /\ UNCHANGED <<streaming, writes>>
           \/ /\ m.ok /\ live /\ Room(1) /\ (m.cur => mineAt = {})
              /\ queue' = kept
              /\ writes' = Append(writes, Save(kept, ledger))
              /\ UNCHANGED streaming
           \/ /\ ~m.ok /\ live
              /\ queue' = kept
              /\ streaming' = (streaming /\ ~m.cur)
              /\ UNCHANGED writes
           \/ /\ ~live
              /\ UNCHANGED <<streaming, queue, writes>>
    /\ UNCHANGED <<outbox, disk, live, ledger, agent, events, unsaved, disp, acks, acked,
                   faults, seen>>

\* The ledger gives up the oldest entry whether or not it is acknowledged.
BugRecorded(l, d) ==
    IF d \in Ids(l) THEN {l}
    ELSE IF Len(l) < LedgerCapacity THEN {Append(l, [id |-> d, acknowledged |-> FALSE])}
    ELSE {Append(Tail(l), [id |-> d, acknowledged |-> FALSE])}

\* record_consumed_run_delivery: at capacity the oldest acknowledged entry makes
\* room; with none, ControlDeliveryCapacity (no ledger in the set).
Recorded(l, d) ==
    LET new == [id |-> d, acknowledged |-> FALSE]
        evictable == {i \in DOMAIN l : /\ l[i].acknowledged
                                       /\ \A j \in 1..(i - 1) : ~l[j].acknowledged}
    IN  IF d \in Ids(l) THEN {l}
        ELSE IF Len(l) < LedgerCapacity THEN {Append(l, new)}
        ELSE {Append(RemoveAt(l, i), new) : i \in evictable}

\* handle_agent with QueueItemConsumed: acknowledge_consumed_run_delivery.  An
\* event of an earlier run is ignored.
HandleConsumed ==
    /\ events # <<>> /\ Head(events).kind = "consumed" /\ Room(1)
    /\ events' = Tail(events)
    /\ LET m == Head(events)
       IN  IF m.cur /\ Recorded(ledger, m.id) # {}
           THEN \E l \in Recorded(ledger, m.id) :
                  /\ ledger' = l
                  /\ writes' = Append(writes, [snap |-> SnapshotOf(queue, l), to |-> "ack",
                                               id |-> m.id, result |-> None, cur |-> FALSE])
           ELSE UNCHANGED <<ledger, writes>>
    /\ UNCHANGED <<outbox, disk, live, streaming, queue, agent, persisted, unsaved, disp,
                   acks, acked, faults, seen>>

\* handle_agent with Done or Error: the session is saved, the current run's end
\* makes it idle.
HandleDone ==
    /\ events # <<>> /\ Head(events).kind = "done" /\ Room(1)
    /\ events' = Tail(events)
    /\ streaming' = (streaming /\ ~Head(events).cur)
    /\ writes' = Append(writes, Save(queue, ledger))
    /\ UNCHANGED <<outbox, disk, live, queue, ledger, agent, persisted, unsaved, disp,
                   acks, acked, faults, seen>>

\* save_sessions_periodically: a streaming session is saved from time to time.
PeriodicSave ==
    /\ live /\ streaming /\ writes = <<>> /\ Room(1)
    /\ writes' = <<Save(queue, ledger)>>
    /\ UNCHANGED <<outbox, disk, session, agent, events, persisted, unsaved, disp, acks, acked,
                   faults, seen>>

\* mark_run_delivery_acknowledged.
Marked(l, d) ==
    [i \in DOMAIN l |-> IF l[i].id = d THEN [l[i] EXCEPT !.acknowledged = TRUE] ELSE l[i]]

\* ... on the open session or on the stored one.
MarkAcknowledged(d) ==
    /\ d \in acked
    /\ acked' = acked \ {d}
    /\ \/ /\ live
          /\ ledger' = Marked(ledger, d)
          /\ UNCHANGED writes
       \/ /\ ~live /\ writes = <<>> /\ d \in Ids(LoadedLedger)
          /\ writes' = <<Put([Loaded EXCEPT !.ledger = Marked(Loaded.ledger, d)])>>
          /\ UNCHANGED ledger
       \/ /\ ~live /\ writes = <<>> /\ d \notin Ids(LoadedLedger)
          /\ UNCHANGED <<ledger, writes>>
    /\ UNCHANGED <<outbox, disk, live, streaming, queue, agent, events, persisted, unsaved,
                   disp, acks, faults, seen>>

\* The user opens the stored session: restore_from_session requeues its messages
\* as they were stored, under the current run id and ready.
OpenSession ==
    /\ ~live /\ writes = <<>> /\ Loaded # None
    /\ live' = TRUE
    /\ queue' = [i \in DOMAIN Loaded.queue |->
                    [id |-> Loaded.queue[i].id, kind |-> Loaded.queue[i].kind,
                     ready |-> TRUE, cur |-> TRUE]]
    /\ ledger' = Loaded.ledger
    /\ UNCHANGED <<outbox, disk, streaming, agent, events, persisted, writes, unsaved, disp,
                   acks, acked, faults, seen>>

\* The user's own prompt to an idle agent begins a turn under a new run id.
UserTurn ==
    /\ live /\ ~streaming /\ agent.pc = "idle"
    /\ streaming' = TRUE
    /\ agent' = [pc |-> "turn", cur |-> TRUE]
    /\ queue' = Age(queue) /\ events' = Age(events)
    /\ persisted' = Age(persisted) /\ writes' = Age(writes)
    /\ UNCHANGED <<outbox, disk, live, ledger, unsaved, disp, acks, acked, faults, seen>>

\* handle_cancel and Action::CancelAgent: a new run id, the queue is dropped,
\* the session saved, the agent's run ends.
UserCancel ==
    /\ Fault
    /\ live /\ streaming /\ Room(1)
    /\ streaming' = FALSE
    /\ queue' = <<>>
    /\ agent' = [pc |-> IF agent.pc = "turn" THEN "ending" ELSE agent.pc, cur |-> FALSE]
    /\ events' = Age(events) /\ persisted' = Age(persisted)
    /\ writes' = Append(Age(writes), Save(<<>>, ledger))
    /\ UNCHANGED <<outbox, disk, live, ledger, unsaved, disp, acks, acked, seen>>

\* The session is closed and deleted: the runtime goes, the writer deletes.
DeleteSession ==
    /\ Fault
    /\ Room(1)
    /\ disk # None
    /\ live' = FALSE /\ streaming' = FALSE /\ queue' = <<>> /\ ledger' = <<>>
    /\ agent' = IdleAgent /\ events' = <<>> /\ persisted' = <<>>
    /\ writes' = Append(writes, Put(None))
    /\ UNCHANGED <<outbox, disk, unsaved, disp, acks, acked, seen>>

-----------------------------------------------------------------------------
(* The agent task.                                                         *)

\* AgentLoop::run: pop takes a turn-end entry and its run begins.
AgentPop ==
    \E i \in Dispatchable("TurnEnd") :
        /\ agent.pc = "idle" /\ Heard
        /\ agent' = [pc |-> "turn", cur |-> queue[i].cur]
        /\ events' = Append(events, [kind |-> "consumed", id |-> queue[i].id, cur |-> queue[i].cur])
        /\ Saw(queue[i].id)
        /\ queue' = RemoveAt(queue, i)
        /\ UNCHANGED <<outbox, disk, live, streaming, ledger, persisted, writes, unsaved, disp,
                       acks, acked, faults>>

\* handle_queued_commands: a steering entry joins the turn under way.
AgentPoll ==
    \E i \in Dispatchable("Steering") :
        /\ agent.pc = "turn" /\ Heard
        /\ events' = Append(events, [kind |-> "consumed", id |-> queue[i].id, cur |-> agent.cur])
        /\ Saw(queue[i].id)
        /\ queue' = RemoveAt(queue, i)
        /\ UNCHANGED <<outbox, disk, live, streaming, ledger, agent, persisted, writes, unsaved,
                       disp, acks, acked, faults>>

\* The last poll of the turn finds no steering entry: none is taken any more.
AgentEnds ==
    /\ agent.pc = "turn" /\ Dispatchable("Steering") = {}
    /\ agent' = [agent EXCEPT !.pc = "ending"]
    /\ UNCHANGED <<outbox, disk, session, events, persisted, writes, unsaved, disp, acks, acked,
                   faults, seen>>

\* The turn fails (a provider error) before its next poll.
AgentFails ==
    /\ Fault
    /\ agent.pc = "turn"
    /\ agent' = [agent EXCEPT !.pc = "ending"]
    /\ UNCHANGED <<outbox, disk, session, events, persisted, writes, unsaved, disp, acks, acked,
                   seen>>

\* Done or Error is sent; the loop waits for the next turn-end entry.
AgentDone ==
    /\ agent.pc = "ending" /\ Heard
    /\ events' = Append(events, [kind |-> "done", id |-> None, cur |-> agent.cur])
    /\ agent' = IdleAgent
    /\ UNCHANGED <<outbox, disk, session, persisted, writes, unsaved, disp, acks, acked, faults,
                   seen>>

-----------------------------------------------------------------------------
(* The storage writer, the acknowledgement tasks and crashes.             *)

\* The dispatcher hears only of writes that succeed.
BugCallback(w, ok) ==
    /\ persisted' = IF w.to = "submission"
                    THEN Append(persisted, [id |-> w.id, ok |-> ok, cur |-> w.cur])
                    ELSE persisted
    /\ disp' = IF w.to = "reply" /\ ok
               THEN [disp EXCEPT !.stage = "replied", !.result = w.result] ELSE disp
    /\ acks' = IF w.to = "ack" /\ ok THEN acks \cup {w.id} ELSE acks

\* What a write's callback does; a failed acknowledgement write is only logged.
Callback(w, ok) ==
    /\ persisted' = IF w.to = "submission"
                    THEN Append(persisted, [id |-> w.id, ok |-> ok, cur |-> w.cur])
                    ELSE persisted
    /\ disp' = IF w.to = "reply"
               THEN [disp EXCEPT !.stage = "replied", !.result = IF ok THEN w.result ELSE "Err"]
               ELSE disp
    /\ acks' = IF w.to = "ack" /\ ok THEN acks \cup {w.id} ELSE acks

\* The callback runs before the write has succeeded.
BugWriteFails ==
    /\ Fault
    /\ writes # <<>>
    /\ writes' = Tail(writes)
    /\ unsaved' = IF Head(writes).snap = None THEN unsaved ELSE Head(writes).snap
    /\ Callback(Head(writes), TRUE)
    /\ UNCHANGED <<outbox, disk, session, agent, events, acked, seen>>

\* StorageWriter::persist and delete, in the order of their generations.
WriteSucceeds ==
    /\ writes # <<>>
    /\ writes' = Tail(writes)
    /\ disk' = Head(writes).snap
    /\ unsaved' = None
    /\ Callback(Head(writes), TRUE)
    /\ UNCHANGED <<outbox, session, agent, events, acked, faults, seen>>

\* The write fails: the snapshot stays pending, the callback gets the error.
WriteFails ==
    /\ Fault
    /\ writes # <<>>
    /\ writes' = Tail(writes)
    /\ unsaved' = IF Head(writes).snap = None THEN unsaved ELSE Head(writes).snap
    /\ Callback(Head(writes), FALSE)
    /\ UNCHANGED <<outbox, disk, session, agent, events, acked, seen>>

\* Op::Flush writes what is pending, or gives it up after MAX_RETRY_ATTEMPTS.
Flush ==
    /\ writes = <<>> /\ unsaved # None
    /\ unsaved' = None
    /\ disk' \in {disk, unsaved}
    /\ UNCHANGED <<outbox, session, agent, events, persisted, writes, disp, acks, acked, faults,
                   seen>>

\* acknowledge_parent_delivery in its own task, then ack_tx.
Acknowledge(d) ==
    /\ d \in acks
    /\ acks' = acks \ {d}
    /\ IF outbox[d] = "dead_letter"
       THEN UNCHANGED <<outbox, acked>>
       ELSE /\ outbox' = [outbox EXCEPT ![d] = "acknowledged"]
            /\ acked' = acked \cup {d}
    /\ UNCHANGED <<disk, session, agent, events, persisted, writes, unsaved, disp, faults, seen>>

\* The process dies and is started again with no session open.
Crash ==
    /\ Fault
    /\ live' = FALSE /\ streaming' = FALSE /\ queue' = <<>> /\ ledger' = <<>>
    /\ agent' = IdleAgent /\ events' = <<>> /\ persisted' = <<>>
    /\ writes' = <<>> /\ unsaved' = None /\ disp' = IdleDispatcher
    /\ acks' = {} /\ acked' = {}
    /\ UNCHANGED <<outbox, disk, seen>>

-----------------------------------------------------------------------------
Init ==
    /\ outbox = [d \in Deliveries |-> "pending"]
    /\ disk = EmptySession
    /\ live = FALSE /\ streaming = FALSE /\ queue = <<>> /\ ledger = <<>>
    /\ agent = IdleAgent
    /\ events = <<>> /\ persisted = <<>> /\ writes = <<>> /\ unsaved = None
    /\ disp = IdleDispatcher
    /\ acks = {} /\ acked = {}
    /\ faults = 0
    /\ seen = [d \in Deliveries |-> 0]

Dispatch == Scan \/ Apply \/ \E d \in Deliveries : Offer(d)

Agent == AgentPop \/ AgentPoll \/ AgentEnds \/ AgentFails \/ AgentDone

Loop == \/ \E d \in Deliveries : InsertDelivery(d) \/ MarkAcknowledged(d)
        \/ SubmissionPersisted \/ HandleConsumed \/ HandleDone \/ PeriodicSave

User == OpenSession \/ UserTurn \/ UserCancel \/ DeleteSession

Storage == WriteSucceeds \/ WriteFails \/ Flush

Next == Dispatch \/ Agent \/ Loop \/ User \/ Storage \/ Crash
          \/ \E d \in Deliveries : Acknowledge(d)

Spec == Init /\ [][Next]_vars

\* The tasks keep running: the dispatcher polls, the event loop serves each of its
\* channels, a turn ends, the writer thread and the tasks it starts finish.  The
\* user need not do anything.  (Strong fairness makes up for the bound MaxWrites:
\* the writer's channel is never full.)
Fairness ==
    /\ WF_vars(Scan) /\ WF_vars(Apply)
    /\ \A d \in Deliveries : /\ WF_vars(Offer(d)) /\ SF_vars(InsertDelivery(d))
                             /\ WF_vars(MarkAcknowledged(d)) /\ WF_vars(Acknowledge(d))
    /\ WF_vars(SubmissionPersisted) /\ WF_vars(HandleConsumed) /\ WF_vars(HandleDone)
    /\ WF_vars(AgentPop) /\ WF_vars(AgentPoll) /\ WF_vars(AgentEnds) /\ WF_vars(AgentDone)
    /\ WF_vars(WriteSucceeds \/ WriteFails)

FairSpec == Spec /\ Fairness

-----------------------------------------------------------------------------
(* Properties.                                                             *)

\* Every channel, queue and record has its type, and the bounds hold.
TypeOK ==
    /\ outbox \in [Deliveries -> OutboxStates]
    /\ disk \in Stored \cup {None} /\ unsaved \in Stored \cup {None}
    /\ live \in BOOLEAN /\ streaming \in BOOLEAN
    /\ queue \in Seq(Item) /\ ledger \in Seq(Consumed) /\ Len(ledger) <= LedgerCapacity
    /\ agent \in [pc : {"idle", "turn", "ending"}, cur : BOOLEAN]
    /\ events \in Seq([kind : {"consumed", "done"}, id : Deliveries \cup {None}, cur : BOOLEAN])
    /\ persisted \in Seq([id : Deliveries, ok : BOOLEAN, cur : BOOLEAN])
    /\ writes \in Seq(Write) /\ Len(writes) <= MaxWrites
    /\ disp \in [stage : {"idle", "batch", "offered", "persisting", "replied"},
                  todo : SUBSET Deliveries, at : Deliveries \cup {None},
                  result : Results \cup {None}]
    /\ acks \subseteq Deliveries /\ acked \subseteq Deliveries
    /\ faults \in 0..MaxFaults
    /\ seen \in [Deliveries -> 0..MaxSeen]

\* The shared queue, and the queue restored from disk, hold a delivery at most
\* once, however often the dispatcher repeats it (contains_run_delivery).
QueuedOnce ==
    /\ \A i, j \in DOMAIN queue : queue[i].id = queue[j].id => i = j
    /\ disk # None => \A i, j \in DOMAIN disk.queue : disk.queue[i].id = disk.queue[j].id => i = j

\* An acknowledged row is one whose consumption survives a crash: the session on
\* disk records it, unless the session was deleted or the ledger had to evict it
\* (acknowledge_consumed_run_delivery persists before it acknowledges).
AcknowledgedIsDurable ==
    \A d \in Deliveries :
        outbox[d] = "acknowledged" /\ disk # None /\ Cardinality(Deliveries) <= LedgerCapacity
            => d \in Ids(disk.ledger)

\* An unacknowledged consumption is never evicted from the ledger, so a repeated
\* offer of it is still recognised (record_consumed_run_delivery).
UnacknowledgedKept ==
    [][\A i \in DOMAIN ledger :
          ~ledger[i].acknowledged /\ live' => ledger[i].id \in Ids(ledger')]_vars

\* A run's announcement does not stay undispatched: a pending row is delivered,
\* acknowledged or dead-lettered, whatever crashes, cancels and failed writes
\* happen meanwhile (dispatch_parent_outbox and its callers).
EventuallyDispatched ==
    \A d \in Deliveries : outbox[d] = "pending" ~> outbox[d] # "pending"

\* A delivery enters the conversation once, however often it is offered
\* (record_consumed_run_delivery, "idempotency").
ConsumedOnce == \A d \in Deliveries : seen[d] <= 1

\* The delivery machinery implements ParentNotice: no row is acknowledged before
\* its notice entered the parent's conversation, and none is dead-lettered while
\* the parent exists (dispatch_parent_outbox, acknowledge_consumed_run_delivery).
StatusOf(state) == CASE state \in Open          -> "owed"
                     [] state = "acknowledged"  -> "settled"
                     [] state = "dead_letter"   -> "abandoned"
NoticeStatus == [d \in Deliveries |-> StatusOf(outbox[d])]
Notice == INSTANCE ParentNotice
            WITH Notices <- Deliveries, status <- NoticeStatus,
                 shown <- {d \in Deliveries : seen[d] > 0}, gone <- (disk = None)
ImplementsNotice == Notice!Spec
=============================================================================
