--------------------------- MODULE RunProjection ---------------------------
(***************************************************************************)
(* How the TUI keeps the durable record of a background task it executes   *)
(* in a child session: n00n.run.start creates the run and asks the event   *)
(* loop for the session (n00n-lua run.rs), the event loop maps the child's *)
(* agent events to lifecycle projections that RunProjectionTracker filters *)
(* (n00n-ui event_loop.rs), and the RunTransitionWriter task reads the run *)
(* and applies each projection to the store in turn.                       *)
(*                                                                         *)
(* One run in one TUI process.  The event loop takes an agent event and    *)
(* projects it in one step.  Store operations may fail; the run's rules    *)
(* are those of RunDomain.                                                 *)
(***************************************************************************)
EXTENDS RunDomain, Naturals, Sequences

CONSTANTS
    WaitCodes,      \* WaitReasonCode: what a child waits for
    MaxQueued,      \* bound on the writer's command channel
    MaxRevision,    \* bound on the revision of the run
    MaxErrors,      \* bound on failed store operations and shutdown timeouts
    None

\* A run as the store keeps it, a lifecycle projection, and what the tracker keeps of
\* one ("" is Rust's None).
Waits       == WaitCodes \cup {""}
Runs        == [life : Lifecycles, revision : Nat, wait : Waits]
Projections == [target : Lifecycles, wait : Waits, outcome : Lifecycles \cup {""}]
Keys        == [target : Lifecycles, wait : Waits]

ASSUME ProjectionAssumption ==
    /\ MaxQueued \in Nat /\ MaxRevision \in Nat /\ MaxErrors \in Nat
    /\ "" \notin WaitCodes
    /\ None \notin Runs /\ None \notin Keys /\ None \notin Nat

VARIABLES
    run,       \* durable: lifecycle, wait reason and revision, or None
    start,     \* where n00n.run.start is
    tui,       \* up, closing (shutdown drains the writer) or down
    session,   \* the child session: none, open, removed
    last,      \* RunProjectionTracker::last, or None
    chan,      \* the commands sent to the RunTransitionWriter
    read,      \* the revision the writer read for its first command, or None
    errors     \* how many of the MaxErrors failures have happened

vars == <<run, start, tui, session, last, chan, read, errors>>

Projection(target, wait, outcome) == [target |-> target, wait |-> wait, outcome |-> outcome]
TerminalProjection(target)        == Projection(target, "", target)
RunningProjection                 == Projection("Running", "", "")

\* canonical_run_projection: what the agent events of the child project.
EventProjections ==
    {RunningProjection, TerminalProjection("Succeeded"), TerminalProjection("Failed")}
        \cup {Projection("WaitingInput", c, "") : c \in WaitCodes}

Key(p) == [target |-> p.target, wait |-> p.wait]

Error == errors < MaxErrors /\ errors' = errors + 1

-----------------------------------------------------------------------------
(* The tracker and the channel.                                            *)

\* A settled tracker still admits another terminal projection.
BugAdmits(t, p) == t # Key(p)

\* RunProjectionTracker::admit.
Admits(t, p) ==
    LET settled == IF t = None THEN FALSE ELSE t.target \in Terminal
    IN  ~settled /\ t # Key(p)

\* A projection that is admitted is sent to the writer.
Admit(st, p) ==
    IF Admits(st.last, p) THEN [last |-> Key(p), chan |-> Append(st.chan, p)] ELSE st

Tracked == [last |-> last, chan |-> chan]

Track(st) == last' = st.last /\ chan' = st.chan

\* project_run.
Project(p) == Track(Admit(Tracked, p))

Room == Len(chan) < MaxQueued

\* Three transitions (cancelling, cancelled; interrupted) may still follow.
Bounded == run.revision + Len(chan) + 3 < MaxRevision

\* The run is not first marked as cancelling.
BugCancel == Admit(Tracked, TerminalProjection("Cancelled"))

\* RunProjectionTracker::cancel, whose projections cancel_managed_run sends.
Cancel ==
    Admit(Admit(Tracked, Projection("Cancelling", "", "")), TerminalProjection("Cancelled"))

-----------------------------------------------------------------------------
(* The store: a transition with the revision the caller read.              *)

Moved(p) == [life |-> p.target, revision |-> run.revision + 1, wait |-> p.wait]

\* RunService::transition: refused on another revision or by validate_transition.
Transition(p, revision) ==
    IF /\ run.revision = revision
       /\ ValidTransition(run.life, p.target, p.wait, p.outcome)
    THEN run' = Moved(p)
    ELSE UNCHANGED run

-----------------------------------------------------------------------------
(* n00n.run.start.                                                         *)

Create ==
    /\ start = "create" /\ tui # "down"
    /\ run' = [life |-> "Queued", revision |-> 1, wait |-> ""]
    /\ start' = "mark"
    /\ UNCHANGED <<tui, session, last, chan, read, errors>>

MarkStarting ==
    /\ start = "mark" /\ tui # "down"
    /\ Transition(Projection("Starting", "", ""), 1)
    /\ start' = "request"
    /\ UNCHANGED <<tui, session, last, chan, read, errors>>

\* An error of create_run or of the transition is returned to the caller, one of
\* fail_start is dropped.
StartError ==
    /\ start \in {"create", "mark", "failing"} /\ tui # "down" /\ Error
    /\ start' = "done"
    /\ UNCHANGED <<run, tui, session, last, chan, read>>

\* SessionRequest::New is handled: the session opens and the run is running.
NewSession ==
    /\ start = "request" /\ tui = "up" /\ Room
    /\ session' = "open"
    /\ Project(RunningProjection)
    /\ start' = "done"
    /\ UNCHANGED <<run, tui, read, errors>>

\* The lineage or the runtime refuses the session, or the event loop is gone.
NewRefused ==
    /\ start = "request" /\ tui # "down"
    /\ start' = "failing"
    /\ UNCHANGED <<run, tui, session, last, chan, read, errors>>

\* The run is failed with an outcome that does not fit its state.
BugFailStart ==
    /\ start = "failing" /\ tui # "down"
    /\ Transition(TerminalProjection("Cancelled"), 2)
    /\ start' = "done"
    /\ UNCHANGED <<tui, session, last, chan, read, errors>>

\* fail_start, with the revision of the starting run; its refusal is ignored.
FailStart ==
    /\ start = "failing" /\ tui # "down"
    /\ Transition(TerminalProjection("Failed"), 2)
    /\ start' = "done"
    /\ UNCHANGED <<tui, session, last, chan, read, errors>>

-----------------------------------------------------------------------------
(* The event loop.                                                         *)

\* handle_agent: an event of the child's current run.
AgentEvent(p) ==
    /\ tui = "up" /\ session = "open" /\ Room /\ Bounded
    /\ Project(p)
    /\ UNCHANGED <<run, start, tui, session, read, errors>>

\* The user cancels the child (the session stays), or it is deleted, killed or
\* reaped (the session is removed).
CancelSession(left) ==
    /\ tui = "up" /\ session = "open" /\ Room
    /\ Track(Cancel)
    /\ session' = left
    /\ UNCHANGED <<run, start, tui, read, errors>>

\* shutdown: unfinished runs are interrupted, then the writer drains.
Shutdown ==
    /\ tui = "up"
    /\ tui' = "closing"
    /\ IF session = "open" THEN Project(TerminalProjection("Interrupted"))
       ELSE UNCHANGED <<last, chan>>
    /\ UNCHANGED <<run, start, session, read, errors>>

Exit ==
    /\ tui = "closing" /\ chan = <<>>
    /\ tui' = "down"
    /\ UNCHANGED <<run, start, session, last, chan, read, errors>>

\* RUN_TRANSITION_SHUTDOWN_TIMEOUT passes: the commands left are lost.
ExitTimeout ==
    /\ tui = "closing" /\ chan # <<>> /\ Error
    /\ tui' = "down"
    /\ chan' = <<>> /\ read' = None
    /\ UNCHANGED <<run, start, session, last>>

-----------------------------------------------------------------------------
(* The RunTransitionWriter task.                                           *)

\* get_run; a run already there or ended needs no transition.
WriterReads ==
    /\ chan # <<>> /\ read = None
    /\ IF run.life \in Terminal \cup {Head(chan).target}
       THEN /\ chan' = Tail(chan)
            /\ UNCHANGED read
       ELSE /\ read' = run.revision
            /\ UNCHANGED chan
    /\ UNCHANGED <<run, start, tui, session, last, errors>>

\* A refused transition is only logged.
WriterWrites ==
    /\ read # None
    /\ Transition(Head(chan), read)
    /\ chan' = Tail(chan) /\ read' = None
    /\ UNCHANGED <<start, tui, session, last, errors>>

\* get_run or the transition fails in the database: the command is dropped.
WriterFails ==
    /\ chan # <<>> /\ Error
    /\ chan' = Tail(chan) /\ read' = None
    /\ UNCHANGED <<run, start, tui, session, last>>

-----------------------------------------------------------------------------
Init ==
    /\ run = None
    /\ start = "create"
    /\ tui = "up"
    /\ session = "none"
    /\ last = None
    /\ chan = <<>> /\ read = None
    /\ errors = 0

Start == Create \/ MarkStarting \/ StartError \/ NewSession \/ NewRefused \/ FailStart

Loop == \/ \E p \in EventProjections : AgentEvent(p)
        \/ \E left \in {"open", "removed"} : CancelSession(left)
        \/ Shutdown \/ Exit \/ ExitTimeout

Writer == WriterReads \/ WriterWrites \/ WriterFails

Next == Start \/ Loop \/ Writer

Spec == Init /\ [][Next]_vars

\* The Lua task, the event loop and the writer task keep running; nobody need
\* cancel or leave.
Fairness == WF_vars(Start) /\ WF_vars(Writer) /\ WF_vars(Exit)

FairSpec == Spec /\ Fairness

-----------------------------------------------------------------------------
(* Properties.                                                             *)

\* Types; and a run has a wait reason exactly while it waits
\* (validate_transition), whatever projections were merged or dropped.
TypeOK ==
    /\ run \in Runs \cup {None}
    /\ run # None => ((run.life \in Waiting) <=> (run.wait # ""))
    /\ start \in {"create", "mark", "request", "failing", "done"}
    /\ tui \in {"up", "closing", "down"} /\ session \in {"none", "open", "removed"}
    /\ last \in Keys \cup {None} /\ chan \in Seq(Projections)
    /\ read \in Nat \cup {None}
    /\ errors \in 0..MaxErrors

Life == IF run = None THEN None ELSE run.life
Drained == chan = <<>> /\ run # None
Settled(t) == IF last = None THEN FALSE ELSE last.target = t

\* A run that was cancelled, or interrupted by leaving, ends that way in the
\* store once the writer has drained, when no store operation failed: the path
\* the tracker chose is a legal path from whatever state the run was left in
\* (RunProjectionTracker::cancel and interrupt against can_transition_to).
CancelLands ==
    Drained /\ errors = 0 => \A t \in {"Cancelled", "Interrupted"} : Settled(t) => run.life = t

\* The store never shows another end than the one the event loop decided, or the
\* failed start: a late Done cannot turn a cancelled run into a succeeded one.
EndAgrees ==
    run # None => (run.life \in Terminal => Settled(run.life) \/ session = "none")

\* A run whose session was requested leaves its starting states, unless the
\* process exits or a store operation fails: it runs, or fail_start fails it.
StartLeaves ==
    start = "request" ~> (Life \notin {"Queued", "Starting"} \/ tui = "down" \/ errors > 0)
=============================================================================
