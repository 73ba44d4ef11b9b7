------------------------------ MODULE TurnQueue ------------------------------
(***************************************************************************)
(* One session of the TUI and its agent loop, which share the queue of     *)
(* submissions (n00n-ui agent/shared_queue.rs).  The UI starts, queues,    *)
(* restores and cancels submissions (app/queue.rs, app/mod.rs,             *)
(* event_loop.rs); the agent loop takes them (agent/agent_loop.rs) and     *)
(* runs turns (n00n-agent agent/run.rs); a router task turns cancel        *)
(* commands into triggers of a CancelMap (n00n-agent cancel.rs).           *)
(*                                                                         *)
(* Left out: direct tools, editing a queued entry, a respawn of the agent, *)
(* re-authentication, and the text of everything.                          *)
(***************************************************************************)
EXTENDS Integers, Sequences, SequencesExt

CONSTANTS
    MaxSubs,     \* bound on submissions and compactions
    MaxCancels,  \* bound on cancellations
    MaxFaults    \* bound on refusals, failed writes and failed requests

ASSUME QueueAssumption == MaxSubs \in Nat /\ MaxCancels \in Nat /\ MaxFaults \in Nat

VARIABLES
    ui,        \* status, run_id, pending_submission (0: none), execution_active
    subs,      \* the submissions so far, by submission_id
    queue,     \* the shared items
    gen,       \* the generation of the queue
    wake,      \* the one slot of the notify channel
    agent,     \* where the agent loop is
    minRun,    \* AgentLoop::min_run_id
    map,       \* RunCancelMap: run -> none, live or pre (PreCancelled)
    cmds,      \* runs whose AgentCommand::Cancel is not routed yet
    events,    \* AgentEvents for the UI
    sent,      \* submissions a provider request has carried, in order
    stored,    \* submissions whose snapshot was written
    back,      \* submissions returned to the input box
    routed,    \* runs whose cancellation has been routed
    astray,    \* an entry of the current run was removed by hand or taken by another run
    cancels, faults

ghosts == <<sent, stored, back, routed>>
bounds == <<cancels, faults>>
shared == <<queue, gen, wake>>
vars   == <<ui, subs, shared, agent, minRun, map, cmds, events, ghosts, astray, bounds>>

Runs == 0..(2 * MaxSubs + MaxCancels)   \* a start, a restore and a cancel take a run each
Ids  == 1..MaxSubs

Submission == [run : Runs, how : {"painted", "background", "queued"},
               gate : {"pending", "committed", "cancelled"},
               st : {"draw", "persist", "settled"}, started : BOOLEAN]
QueueItem  == [kind : {"turn", "steer", "now", "compact"}, id : Ids, run : Runs, ready : BOOLEAN]
Agent      == [pc : {"wait", "pop", "drain", "register", "prepare", "turn", "stream", "tool",
                     "safe", "finish", "compact"},
               id : 0..MaxSubs, run : Runs, tok : BOOLEAN, more : BOOLEAN, any : BOOLEAN,
               batch : Seq(Ids)]
Event      == [t : {"done", "error", "drained"}, run : Runs, gen : Nat]

Idle == [pc |-> "wait", id |-> 0, run |-> 0, tok |-> FALSE, more |-> FALSE, any |-> FALSE,
         batch |-> <<>>]

\* Where the agent runs the turns of a submission.
InRun == {"prepare", "turn", "stream", "tool", "safe", "finish"}

\* The types of the variables, and a CancelMap that keeps no trigger of a run that
\* has ended.
TypeOK ==
    /\ ui.status \in {"idle", "streaming", "error"} /\ ui.run \in Runs
    /\ ui.pending \in 0..Len(subs) /\ ui.active \in BOOLEAN
    /\ subs \in Seq(Submission) /\ Len(subs) <= MaxSubs
    /\ queue \in Seq(QueueItem) /\ gen \in Nat /\ wake \in BOOLEAN
    /\ agent \in Agent /\ minRun \in Runs
    /\ map \in [Runs -> {"none", "live", "pre"}]
    /\ \A r \in Runs : map[r] = "live" => r = agent.run /\ agent.pc \in InRun
    /\ cmds \in Seq(Runs) /\ events \in Seq(Event)
    /\ sent \in Seq(Ids) /\ stored \subseteq Ids /\ back \subseteq Ids
    /\ routed \subseteq Runs /\ astray \in BOOLEAN
    /\ cancels \in 0..MaxCancels /\ faults \in 0..MaxFaults

Init ==
    /\ ui = [status |-> "idle", run |-> 0, pending |-> 0, active |-> FALSE]
    /\ subs = <<>> /\ queue = <<>> /\ gen = 0 /\ wake = FALSE
    /\ agent = Idle /\ minRun = 0 /\ map = [r \in Runs |-> "none"]
    /\ cmds = <<>> /\ events = <<>>
    /\ sent = <<>> /\ stored = {} /\ back = {} /\ routed = {} /\ astray = FALSE
    /\ cancels = 0 /\ faults = 0

Fault == faults < MaxFaults /\ faults' = faults + 1

-----------------------------------------------------------------------------
(* The shared queue.                                                       *)

Painted(i) == subs[i].how = "painted"
InQueue(i) == \E k \in DOMAIN queue : queue[k].id = i

Item(kind, i, r, ready) == [kind |-> kind, id |-> i, run |-> r, ready |-> ready]

\* QueueSender::push.
Push(item) == queue' = Append(queue, item) /\ gen' = gen + 1 /\ wake' = TRUE

\* The queue without submission i, which is in it once at most.
Without(i) ==
    IF InQueue(i) THEN RemoveAt(queue, CHOOSE k \in DOMAIN queue : queue[k].id = i) ELSE queue

\* A removed submission does not wake the agent.
BugRemoveSubmission(i) ==
    /\ queue' = Without(i)
    /\ UNCHANGED <<gen, wake>>

\* QueueSender::remove_submission.
RemoveSubmission(i) ==
    /\ queue' = Without(i)
    /\ wake' = (wake \/ InQueue(i))
    /\ gen' = gen

\* QueueSender::mark_submission_ready.
MarkReady(i) ==
    /\ queue' = [k \in DOMAIN queue |->
                    IF queue[k].id = i THEN [queue[k] EXCEPT !.ready = TRUE] ELSE queue[k]]
    /\ gen' = gen + 1 /\ wake' = TRUE

\* An entry may be taken whatever waits before it.
BugDispatchable(kinds) ==
    {k \in DOMAIN queue : queue[k].kind \in kinds /\ queue[k].ready}

\* The entries of these kinds that may be taken: no submission that waits for
\* its write is before them.
Dispatchable(kinds) ==
    {k \in DOMAIN queue : queue[k].kind \in kinds /\ \A j \in 1..k : queue[j].ready}

\* The first of these positions, if there is one.
Earliest(S) == {k \in S : \A j \in S : k <= j}

TurnEnd  == {"turn", "compact"}
\* next_dispatchable_index at an InterruptPoint.
PollKinds(point) == {"steer", "now"} \cup (IF point = "safe" THEN {"compact"} ELSE {})

\* The first entry the panel shows; it hides what the chat already shows.
InPanel == {k \in DOMAIN queue : queue[k].kind = "compact" \/ ~Painted(queue[k].id)}

-----------------------------------------------------------------------------
(* The UI: submissions.                                                    *)

NextId == Len(subs) + 1
Room   == Len(subs) < MaxSubs

Submit(r, how, gate, st, started) ==
    subs' = Append(subs, [run |-> r, how |-> how, gate |-> gate, st |-> st,
                          started |-> started])

UIOnly == UNCHANGED <<agent, minRun, map, cmds, events, sent, routed, cancels>>

\* A started submission is ready before its write.
BugStart(paint, requested) ==
    /\ Room /\ ui.status # "streaming"
    /\ ui' = [status |-> "streaming", run |-> ui.run + 1,
              pending |-> IF paint THEN NextId ELSE ui.pending, active |-> ui.active \/ ~paint]
    /\ Submit(ui.run + 1, IF paint THEN "painted" ELSE "background", "pending",
              IF paint THEN "draw" ELSE "persist", ~paint /\ ~requested /\ ~ui.active)
    /\ Push(Item("turn", NextId, ui.run + 1, TRUE))
    /\ astray' = FALSE
    /\ UIOnly /\ UNCHANGED <<stored, back, faults>>

\* start_submission.  A painted one waits for a terminal draw; a background one
\* is handed to the writer at once, and one from SessionRequest::Prompt finds
\* the session already active.
Start(paint, requested) ==
    /\ Room /\ ui.status # "streaming"
    /\ ui' = [status |-> "streaming", run |-> ui.run + 1,
              pending |-> IF paint THEN NextId ELSE ui.pending, active |-> ui.active \/ ~paint]
    /\ Submit(ui.run + 1, IF paint THEN "painted" ELSE "background", "pending",
              IF paint THEN "draw" ELSE "persist", ~paint /\ ~requested /\ ~ui.active)
    /\ Push(Item("turn", NextId, ui.run + 1, FALSE))
    /\ astray' = FALSE
    /\ UIOnly /\ UNCHANGED <<stored, back, faults>>

\* A background submission the lineage refuses: pushed and removed again.
StartRefused ==
    /\ Fault /\ Room /\ ui.status # "streaming" /\ ~ui.active
    /\ ui' = [ui EXCEPT !.status = "error", !.run = @ + 1]
    /\ Submit(ui.run + 1, "background", "cancelled", "settled", FALSE)
    /\ gen' = gen + 1 /\ wake' = TRUE /\ astray' = FALSE
    /\ UIOnly /\ UNCHANGED <<queue, stored, back>>

\* queue_with_delivery and queue_and_notify, of a busy session.
QueueMessage(kind, requested) ==
    /\ Room /\ ui.status = "streaming"
    /\ kind = "turn" => requested
    /\ ui' = [ui EXCEPT !.active = @ \/ requested]
    /\ Submit(ui.run, "queued", "pending", "settled", FALSE)
    /\ Push(Item(kind, NextId, ui.run, TRUE))
    /\ UIOnly /\ UNCHANGED <<stored, back, astray, faults>>

\* /compact and queue_compact: no run of its own, and no activity.
Compact ==
    /\ Room
    /\ ui' = [ui EXCEPT !.status = "streaming"]
    /\ Submit(ui.run, "queued", "pending", "settled", FALSE)
    /\ Push(Item("compact", NextId, ui.run, TRUE))
    /\ UIOnly /\ UNCHANGED <<stored, back, astray, faults>>

\* promote_latest_steering, by an empty submission.
Promote ==
    LET steering == {k \in DOMAIN queue : queue[k].kind = "steer"} IN
    /\ ui.status = "streaming"
    /\ \E k \in steering : /\ \A j \in steering : j <= k
                          /\ queue' = [queue EXCEPT ![k].kind = "now"]
    /\ gen' = gen + 1 /\ wake' = TRUE
    /\ UIOnly /\ UNCHANGED <<ui, subs, stored, back, astray, faults>>

\* KeyAction::QueuePop.
QueuePop ==
    /\ \E k \in Earliest(InPanel) : /\ queue' = RemoveAt(queue, k)
                                   /\ astray' = (astray \/ queue[k].run = ui.run)
    /\ gen' = gen + 1 /\ wake' = TRUE
    /\ UIOnly /\ UNCHANGED <<ui, subs, stored, back, faults>>

-----------------------------------------------------------------------------
(* The UI: what becomes of a submission.                                   *)

Claimable(i) == subs[i].gate = "pending"
CancelGate(i) == [subs EXCEPT ![i].gate = IF @ = "pending" THEN "cancelled" ELSE @]

\* restore_pending_submission, of a submission of the current run.
Restored(i) ==
    /\ ui' = [ui EXCEPT !.run = @ + 1, !.status = "idle", !.pending = 0]
    /\ back' = back \cup {i} /\ astray' = FALSE

\* handle_submission_failure, the submission being i; what its activity becomes
\* is in release.
SubmissionFailed(i, release) ==
    LET s == subs[i]
        restores == Painted(i) /\ ui.pending = i /\ Claimable(i) /\ s.run = ui.run
        errs == ~Painted(i) /\ s.run = ui.run /\ ui.status = "streaming"
        claims == Painted(i) => ui.pending = i
    IN /\ RemoveSubmission(i)
       /\ subs' = [subs EXCEPT ![i].st = "settled",
                               ![i].gate = IF claims /\ @ = "pending" THEN "cancelled" ELSE @]
       /\ ui' = [ui EXCEPT !.run = IF restores THEN @ + 1 ELSE @,
                           !.status = IF restores THEN "idle" ELSE IF errs THEN "error" ELSE @,
                           !.pending = IF restores THEN 0 ELSE @,
                           !.active = @ /\ ~(release /\ queue' = <<>>)]
       /\ back' = IF restores THEN back \cup {i} ELSE back
       /\ astray' = (astray /\ ~restores)

\* after_terminal_draw: the snapshot of a painted submission goes to the writer,
\* unless the submission has been restored or cancelled.
Draw(i) ==
    LET staged == ui.pending = i /\ subs[i].run = ui.run /\ subs[i].gate # "cancelled" IN
    /\ subs[i].st = "draw"
    /\ IF staged
       THEN /\ subs' = [subs EXCEPT ![i].st = "persist", ![i].started = ~ui.active]
            /\ ui' = [ui EXCEPT !.active = TRUE]
            /\ UNCHANGED shared
       ELSE /\ subs' = [subs EXCEPT ![i].st = "settled"]
            /\ RemoveSubmission(i)
            /\ UNCHANGED ui
    /\ UIOnly /\ UNCHANGED <<stored, back, astray, faults>>

\* The lineage refuses the activity of a drawn submission.
DrawRefused(i) ==
    /\ Fault /\ subs[i].st = "draw" /\ ~ui.active
    /\ SubmissionFailed(i, FALSE)
    /\ UIOnly /\ UNCHANGED stored

\* handle_submission_persisted with an error.
PersistFailed(i) ==
    /\ Fault /\ subs[i].st = "persist"
    /\ SubmissionFailed(i, subs[i].started)
    /\ UIOnly /\ UNCHANGED stored

\* accepts_submission_persistence.
Accepts(i) ==
    /\ subs[i].run = ui.run /\ subs[i].gate # "cancelled"
    /\ Painted(i) => ui.pending = i

\* handle_submission_persisted: the agent may take the entry now, or the entry
\* was superseded or removed and its activity is released.
Persisted(i) ==
    /\ subs[i].st = "persist"
    /\ subs' = [subs EXCEPT ![i].st = "settled"]
    /\ stored' = stored \cup {i}
    /\ IF Accepts(i) /\ InQueue(i)
       THEN MarkReady(i) /\ UNCHANGED ui
       ELSE /\ RemoveSubmission(i)
            /\ ui' = [ui EXCEPT !.active = @ /\ ~(subs[i].started /\ queue' = <<>>)]
    /\ UIOnly /\ UNCHANGED <<back, astray, faults>>

\* try_restore_pending_submission: Esc takes the submission back if the agent has
\* not sent it.  The escape window and the input box only narrow when.
Restore ==
    LET i == ui.pending IN
    /\ ui.status # "idle" /\ i # 0
    /\ subs[i].run = ui.run
    /\ IF Claimable(i)
       THEN /\ subs' = CancelGate(i)
            /\ RemoveSubmission(i)
            /\ Restored(i)
       ELSE /\ ui' = [ui EXCEPT !.pending = 0]
            /\ UNCHANGED <<subs, shared, back, astray>>
    /\ UIOnly /\ UNCHANGED <<stored, faults>>

\* handle_cancel and Action::CancelAgent.
Cancel ==
    /\ cancels < MaxCancels /\ cancels' = cancels + 1
    /\ subs' = IF ui.pending = 0 THEN subs ELSE CancelGate(ui.pending)
    /\ ui' = [status |-> "idle", run |-> ui.run + 1, pending |-> 0, active |-> FALSE]
    /\ queue' = <<>>
    /\ cmds' = Append(cmds, ui.run)
    /\ astray' = FALSE
    /\ UNCHANGED <<gen, wake, agent, minRun, map, events, ghosts, faults>>

\* The generation of the event does not count.
BugIsDrained(g) == queue = <<>>

\* QueueSender::is_drained.
IsDrained(g) == queue = <<>> /\ gen = g

\* handle_agent: QueueDrained releases the activity of the session; an event of
\* another run than the current one changes no status.
HandleEvent ==
    LET e == Head(events) IN
    /\ events # <<>> /\ events' = Tail(events)
    /\ ui' = IF e.t = "drained" THEN [ui EXCEPT !.active = @ /\ ~IsDrained(e.gen)]
             ELSE IF e.run # ui.run THEN ui
             ELSE [ui EXCEPT !.status = IF e.t = "done" THEN "idle" ELSE "error"]
    /\ UNCHANGED <<subs, shared, agent, minRun, map, cmds, ghosts, astray, bounds>>

-----------------------------------------------------------------------------
(* The agent loop and its turns.                                           *)

Emit(t) == events' = Append(events, [t |-> t, run |-> agent.run, gen |-> gen])

PollStep  == UNCHANGED <<ui, cmds, stored, back, routed, cancels>>
AgentStep == PollStep /\ UNCHANGED astray

\* recv_notify.
Wake ==
    /\ agent.pc = "wait" /\ wake
    /\ wake' = FALSE
    /\ agent' = [agent EXCEPT !.pc = "pop", !.any = FALSE]
    /\ AgentStep /\ UNCHANGED <<subs, queue, gen, minRun, map, events, sent, faults>>

\* QueueReceiver::pop; an entry of a run before min_run_id is dropped.
Pop ==
    LET ready == Dispatchable(TurnEnd)
        Begun(e) == [pc |-> IF e.kind = "turn" THEN "register" ELSE "compact", id |-> e.id,
                     run |-> e.run, tok |-> FALSE, more |-> FALSE, any |-> TRUE, batch |-> <<>>]
    IN /\ agent.pc = "pop"
       /\ \/ ready = {} /\ agent' = [agent EXCEPT !.pc = "drain"] /\ UNCHANGED queue
          \/ \E k \in Earliest(ready) :
                /\ queue' = RemoveAt(queue, k)
                /\ agent' = IF queue[k].run < minRun THEN agent ELSE Begun(queue[k])
       /\ AgentStep /\ UNCHANGED <<subs, gen, wake, minRun, map, events, sent, faults>>

\* drain_generation, and QueueDrained when something has been processed.
Drain ==
    /\ agent.pc = "drain"
    /\ agent' = Idle
    /\ IF agent.any /\ queue = <<>> THEN Emit("drained") ELSE UNCHANGED events
    /\ AgentStep /\ UNCHANGED <<subs, shared, minRun, map, sent, faults>>

\* A cancellation that came first is not seen.
BugInsert(r) ==
    /\ agent' = [agent EXCEPT !.pc = "prepare", !.batch = <<agent.id>>]
    /\ map' = [map EXCEPT ![r] = "live"]

\* CancelMap::insert: a cancellation that came first cancels the new trigger.
Insert(r) ==
    /\ agent' = [agent EXCEPT !.pc = "prepare", !.batch = <<agent.id>>, !.tok = map[r] = "pre"]
    /\ map' = [map EXCEPT ![r] = IF @ = "pre" THEN "none" ELSE "live"]

\* do_agent_run up to set_cancel_trigger.
Register ==
    /\ agent.pc = "register"
    /\ Insert(agent.run)
    /\ AgentStep /\ UNCHANGED <<subs, shared, minRun, events, sent, faults>>

\* The error that ends a run is not reported.
BugRunEnds(event) ==
    /\ map' = [map EXCEPT ![agent.run] = "none"]
    /\ agent' = [agent EXCEPT !.pc = "pop", !.batch = <<>>, !.more = FALSE, !.tok = FALSE]
    /\ AgentStep /\ UNCHANGED <<events, subs, shared, sent>>

\* clear_cancel_trigger and the event of a run that has ended.
RunEnds(event) ==
    /\ map' = [map EXCEPT ![agent.run] = "none"]
    /\ agent' = [agent EXCEPT !.pc = "pop", !.batch = <<>>, !.more = FALSE, !.tok = FALSE]
    /\ Emit(event)
    /\ AgentStep /\ UNCHANGED <<subs, shared, sent>>

Cancelled == agent.tok \/ subs[agent.id].gate = "cancelled"

\* do_agent_run after get_prompt: cancelled here, it leaves min_run_id.
PrepareCancelled ==
    /\ agent.pc = "prepare" /\ Cancelled
    /\ RunEnds("done") /\ UNCHANGED <<minRun, faults>>

PrepareFailed ==
    /\ Fault /\ agent.pc = "prepare" /\ ~Cancelled
    /\ RunEnds("error") /\ UNCHANGED minRun

Prepared ==
    /\ agent.pc = "prepare" /\ ~Cancelled
    /\ agent' = [agent EXCEPT !.pc = "turn"]
    /\ AgentStep /\ UNCHANGED <<subs, shared, minRun, map, events, sent, faults>>

\* The submission is sent without a claim on its gate.
BugCommit == subs[agent.id].gate # "cancelled" /\ UNCHANGED subs

\* PreDispatchGate::try_commit.
Commit ==
    /\ subs[agent.id].gate # "cancelled"
    /\ subs' = [subs EXCEPT ![agent.id].gate = "committed"]

\* Agent::turn, up to the provider request.
Dispatch ==
    /\ agent.pc = "turn" /\ ~agent.tok
    /\ Commit
    /\ sent' = sent \o agent.batch
    /\ agent' = [agent EXCEPT !.pc = "stream", !.batch = <<>>, !.more = FALSE]
    /\ AgentStep /\ UNCHANGED <<shared, minRun, map, events, faults>>

\* The run sees its cancellation, at the next turn or while it waits.
RunCancelled ==
    /\ \/ agent.pc = "turn" /\ Cancelled
       \/ agent.pc \in {"stream", "tool", "safe"} /\ agent.tok
    /\ minRun' = agent.run + 1
    /\ RunEnds("done") /\ UNCHANGED faults

RunFailed ==
    /\ Fault /\ agent.pc \in {"turn", "stream", "tool", "safe"}
    /\ RunEnds("error") /\ UNCHANGED minRun

\* finish_turn: the response calls tools, ends, or is continued without a look
\* at the queue (a nudge, max_tokens or an automatic compaction).
Respond(next) ==
    /\ agent.pc = "stream"
    /\ agent' = [agent EXCEPT !.pc = next]
    /\ AgentStep /\ UNCHANGED <<subs, shared, minRun, map, events, sent, faults>>

\* handle_queued_commands: no look at the run or the gate of what is taken.
Poll ==
    /\ agent.pc \in {"tool", "safe"}
    /\ \E k \in Earliest(Dispatchable(PollKinds(agent.pc))) :
          LET e == queue[k] IN
          /\ queue' = RemoveAt(queue, k)
          /\ agent' = [agent EXCEPT !.more = TRUE,
                                    !.batch = IF e.kind = "compact" THEN @ ELSE Append(@, e.id)]
          /\ astray' = (astray \/ (e.kind = "compact" /\ e.run = ui.run /\ agent.run # ui.run))
    /\ PollStep /\ UNCHANGED <<subs, gen, wake, minRun, map, events, sent, faults>>

Continue ==
    /\ \/ agent.pc = "tool"
       \/ agent.pc = "safe" /\ agent.more
    /\ Dispatchable(PollKinds(agent.pc)) = {}
    /\ agent' = [agent EXCEPT !.pc = "turn"]
    /\ AgentStep /\ UNCHANGED <<subs, shared, minRun, map, events, sent, faults>>

\* emit_done, of a run that is complete or has reached max_turns; the trigger is
\* cleared afterwards.
EmitDone ==
    /\ \/ agent.pc = "safe" /\ ~agent.more /\ Dispatchable(PollKinds("safe")) = {}
       \/ agent.pc = "turn" /\ subs[agent.id].gate = "committed"
    /\ agent' = [agent EXCEPT !.pc = "finish", !.batch = <<>>]
    /\ Emit("done")
    /\ AgentStep /\ UNCHANGED <<subs, shared, minRun, map, sent, faults>>

\* A run that ends well leaves its trigger in the map.
BugClearTrigger ==
    /\ agent.pc = "finish"
    /\ agent' = [agent EXCEPT !.pc = "pop", !.more = FALSE, !.tok = FALSE]
    /\ AgentStep /\ UNCHANGED <<subs, shared, minRun, map, events, sent, faults>>

ClearTrigger ==
    /\ agent.pc = "finish"
    /\ map' = [map EXCEPT ![agent.run] = "none"]
    /\ agent' = [agent EXCEPT !.pc = "pop", !.more = FALSE, !.tok = FALSE]
    /\ AgentStep /\ UNCHANGED <<subs, shared, minRun, events, sent, faults>>

\* AgentLoop::do_compact: it has no trigger.
CompactEnds(event) ==
    /\ agent.pc = "compact"
    /\ IF event = "error" THEN Fault ELSE UNCHANGED faults
    /\ agent' = [agent EXCEPT !.pc = "pop"]
    /\ Emit(event)
    /\ AgentStep /\ UNCHANGED <<subs, shared, minRun, map, sent>>

\* The router task: CancelMap::cancel_or_precancel.
Route ==
    LET r == Head(cmds) IN
    /\ cmds # <<>> /\ cmds' = Tail(cmds)
    /\ map' = [map EXCEPT ![r] = IF @ = "live" THEN "none" ELSE "pre"]
    /\ agent' = IF map[r] = "live" THEN [agent EXCEPT !.tok = TRUE] ELSE agent
    /\ routed' = routed \cup {r}
    /\ UNCHANGED <<ui, subs, shared, minRun, events, sent, stored, back, astray, bounds>>

-----------------------------------------------------------------------------
AgentNext ==
    \/ Wake \/ Pop \/ Drain \/ Register
    \/ PrepareCancelled \/ PrepareFailed \/ Prepared
    \/ Dispatch \/ RunCancelled \/ RunFailed
    \/ \E next \in {"turn", "tool", "safe"} : Respond(next)
    \/ Poll \/ Continue \/ EmitDone \/ ClearTrigger
    \/ \E event \in {"done", "error"} : CompactEnds(event)

UserNext ==
    \/ Start(TRUE, FALSE)
    \/ \E requested \in BOOLEAN : Start(FALSE, requested)
    \/ StartRefused
    \/ \E kind \in {"turn", "steer"}, requested \in BOOLEAN : QueueMessage(kind, requested)
    \/ Compact \/ Promote \/ QueuePop \/ Restore \/ Cancel

Settle(i) == Draw(i) \/ Persisted(i)

Next ==
    \/ UserNext
    \/ \E i \in DOMAIN subs : Settle(i) \/ DrawRefused(i) \/ PersistFailed(i)
    \/ HandleEvent \/ AgentNext \/ Route

Spec == Init /\ [][Next]_vars

\* The UI draws, the writer answers, the tasks of the agent and of the router are
\* scheduled, and a model that is asked often enough ends its turn.
Fairness ==
    /\ \A i \in Ids : WF_vars(i \in DOMAIN subs /\ Settle(i))
    /\ WF_vars(HandleEvent) /\ WF_vars(Route) /\ WF_vars(AgentNext)
    /\ SF_vars(Respond("safe"))

FairSpec == Spec /\ Fairness

-----------------------------------------------------------------------------
(* Properties.                                                             *)

\* A submission that Esc or a failure returned to the input box never reaches the
\* provider, however the restore races the agent that takes it: PreDispatchGate
\* lets one of try_cancel and try_commit win.
RestoredNotSent == \A k \in DOMAIN sent : sent[k] \notin back

\* A started submission reaches the provider only after the snapshot that holds
\* it is on disk (handle_submission_persisted, ready).
SentIsStored ==
    \A k \in DOMAIN sent, i \in DOMAIN subs :
        i = sent[k] /\ subs[i].how # "queued" => i \in stored

\* No submission is sent twice, the started ones are sent in the order in which they
\* were submitted, and nothing overtakes one that still waits in the queue for its
\* write (QueueItem::blocks_dispatch).
InOrder ==
    /\ \A j, k \in DOMAIN sent :
        j < k => /\ sent[j] # sent[k]
                 /\ subs[sent[j]].how # "queued" /\ subs[sent[k]].how # "queued"
                        => sent[j] < sent[k]
    /\ \A k \in DOMAIN sent, q \in DOMAIN queue : queue[q].ready \/ queue[q].id > sent[k]

\* Once the router has handled the cancellation of a run, the run makes no further
\* provider request: whether it is still queued, has not registered its trigger
\* yet, or is between two turns (CancelMap, min_run_id).
CancelStops ==
    [][agent.pc = "turn" /\ agent'.pc = "stream" => agent.run \notin routed]_vars

\* QueueDrained releases the activity of the session only when the agent has
\* nothing left to do, although it may be handled long after it was sent.
DrainReleasesIdle ==
    [][ui.active /\ ~ui'.active /\ events' # events
            => queue = <<>> /\ agent.pc \in {"wait", "pop", "drain"}]_vars

\* A session does not stay streaming: the run it waits for ends or fails.  Two cases
\* leave it streaming until it is cancelled, and are excluded: the user took the
\* entry of the run out of the queue, or the run before it, which was cancelled and
\* had not seen it yet, took its compaction.
Settles == (ui.status = "streaming" /\ ~astray) ~> (ui.status # "streaming" \/ astray)

\* The agent takes every turn-end entry, or the UI removes it: no wake-up of the
\* notify channel, which has one slot, is lost.
TurnsTaken ==
    \A i \in Ids :
        (\E k \in DOMAIN queue : queue[k].id = i /\ queue[k].kind = "turn") ~> ~InQueue(i)

=============================================================================
