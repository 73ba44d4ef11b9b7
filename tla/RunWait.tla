------------------------------- MODULE RunWait -------------------------------
(***************************************************************************)
(* RunStore::wait_for_revision (n00n-runs store.rs): threads that wait for *)
(* a run to pass a revision read the database, then sleep on a condition   *)
(* variable for at most CROSS_PROCESS_POLL.  A commit of this process is   *)
(* followed, in a step of its own, by notify; a commit of another process  *)
(* is not.  The run is its revision and whether it has ended.              *)
(***************************************************************************)
EXTENDS Naturals

CONSTANTS
    Waiters,
    Processes,    \* who commits: "own" and perhaps "other"
    MaxRevision,  \* bound on the revision of the run
    None

VARIABLES
    run,      \* durable: [revision, ended]
    unsaid,   \* commits of this process whose notify has not run yet
    pc,       \* where each waiter is
    after,    \* after_revision of each waiter
    late,     \* its deadline has passed
    last,     \* last_run: the last record it read, or None
    result    \* what it returned: [run, timedOut], or None

vars == <<run, unsaid, pc, after, late, last, result>>

Run == [revision : 1..MaxRevision, ended : BOOLEAN]

\* Types; and a waiter that has returned has a result.
TypeOK ==
    /\ run \in Run /\ unsaid \in 0..MaxRevision
    /\ pc \in [Waiters -> {"idle", "read", "decide", "sleep", "done"}]
    /\ after \in [Waiters -> 0..MaxRevision] /\ late \in [Waiters -> BOOLEAN]
    /\ last \in [Waiters -> Run \cup {None}]
    /\ \A t \in Waiters : IF pc[t] = "done"
                          THEN result[t] \in [run : Run, timedOut : BOOLEAN]
                          ELSE result[t] = None

Init ==
    /\ run = [revision |-> 1, ended |-> FALSE] /\ unsaid = 0
    /\ pc = [t \in Waiters |-> "idle"] /\ after = [t \in Waiters |-> 0]
    /\ late = [t \in Waiters |-> FALSE] /\ last = [t \in Waiters |-> None]
    /\ result = [t \in Waiters |-> None]

\* A caller knows a revision and waits for a later one.
Wait(t, revision) ==
    /\ pc[t] = "idle" /\ revision <= run.revision
    /\ pc' = [pc EXCEPT ![t] = "read"]
    /\ after' = [after EXCEPT ![t] = revision]
    /\ UNCHANGED <<run, unsaid, late, last, result>>

Return(t, r, timedOut) ==
    /\ pc' = [pc EXCEPT ![t] = "done"]
    /\ result' = [result EXCEPT ![t] = [run |-> r, timedOut |-> timedOut]]

\* get_run at the head of the loop.
Read(t) ==
    /\ pc[t] = "read"
    /\ IF run.revision > after[t] \/ run.ended
       THEN Return(t, run, FALSE) /\ UNCHANGED last
       ELSE /\ pc' = [pc EXCEPT ![t] = "decide"]
            /\ last' = [last EXCEPT ![t] = run]
            /\ UNCHANGED result
    /\ UNCHANGED <<run, unsaid, after, late>>

\* RunStoreError::Busy is passed over.
ReadBusy(t) ==
    /\ pc[t] = "read"
    /\ pc' = [pc EXCEPT ![t] = "decide"]
    /\ UNCHANGED <<run, unsaid, after, late, last, result>>

\* Past the deadline: the last record read, or one read now.
GiveUp(t) ==
    /\ pc[t] = "decide" /\ late[t]
    /\ Return(t, IF last[t] = None THEN run ELSE last[t], TRUE)
    /\ UNCHANGED <<run, unsaid, after, late, last>>

\* The generation is locked and wait_timeout entered, whatever its value is now.
Sleep(t) ==
    /\ pc[t] = "decide" /\ ~late[t]
    /\ pc' = [pc EXCEPT ![t] = "sleep"]
    /\ UNCHANGED <<run, unsaid, after, late, last, result>>

\* Only the deadline ends the sleep, not CROSS_PROCESS_POLL.
BugPoll(t) ==
    /\ pc[t] = "sleep" /\ late[t]
    /\ pc' = [pc EXCEPT ![t] = "read"]
    /\ UNCHANGED <<run, unsaid, after, late, last, result>>

\* wait_timeout ends after min(remaining, CROSS_PROCESS_POLL).
Poll(t) ==
    /\ pc[t] = "sleep"
    /\ pc' = [pc EXCEPT ![t] = "read"]
    /\ UNCHANGED <<run, unsaid, after, late, last, result>>

DeadlinePasses(t) ==
    /\ pc[t] # "idle" /\ ~late[t]
    /\ late' = [late EXCEPT ![t] = TRUE]
    /\ UNCHANGED <<run, unsaid, pc, after, last, result>>

\* A transition commits; a terminal run does not change again.
Commit(process, ends) ==
    /\ ~run.ended /\ run.revision < MaxRevision
    /\ run' = [revision |-> run.revision + 1, ended |-> ends]
    /\ unsaid' = IF process = "own" THEN unsaid + 1 ELSE unsaid
    /\ UNCHANGED <<pc, after, late, last, result>>

\* notify_all wakes the waiters that sleep now.
Notify ==
    /\ unsaid > 0
    /\ unsaid' = unsaid - 1
    /\ pc' = [t \in Waiters |-> IF pc[t] = "sleep" THEN "read" ELSE pc[t]]
    /\ UNCHANGED <<run, after, late, last, result>>

Waiter(t) == Read(t) \/ ReadBusy(t) \/ GiveUp(t) \/ Sleep(t)

Next ==
    \/ \E t \in Waiters : Waiter(t) \/ Poll(t) \/ DeadlinePasses(t)
    \/ \E t \in Waiters, r \in 0..MaxRevision : Wait(t, r)
    \/ \E p \in Processes, ends \in BOOLEAN : Commit(p, ends)
    \/ Notify

Spec == Init /\ [][Next]_vars

\* The threads run, the sleep is bounded, and the database is not busy for ever.
Fairness ==
    /\ WF_vars(Notify)
    /\ \A t \in Waiters : WF_vars(Waiter(t)) /\ WF_vars(Poll(t)) /\ SF_vars(Read(t))

FairSpec == Spec /\ Fairness

-----------------------------------------------------------------------------
(* Properties.                                                             *)

\* "Waits until a newer revision is durably readable": a waiter whose revision has
\* been passed returns, though the notification may have come between its read and
\* its sleep, and whether or not its deadline is far away.
WaiterReturns ==
    \A t \in Waiters :
        (pc[t] # "idle" /\ run.revision > after[t]) ~> pc[t] = "done"
=============================================================================
