--------------------------- MODULE MCRunProgress ---------------------------
(***************************************************************************)
(* RunProjection and RunWait for TLC.  A behaviour is one of the task that *)
(* keeps the record of a run, or one of the threads that wait for a run to *)
(* pass a revision: the waiters take the commits of any process, so they   *)
(* watch a run of their own.                                               *)
(***************************************************************************)
EXTENDS RunProjection

CONSTANTS
    Waiters, Processes,
    WaitRevisions    \* bound on the revision of the run that is watched

VARIABLES
    part,            \* whether the behaviour is one of the projection or of the waiters
    watched, unsaid, pc, after, late, lastRun, result

Wait == INSTANCE RunWait
          WITH MaxRevision <- WaitRevisions, run <- watched, last <- lastRun

waitVars == <<watched, unsaid, pc, after, late, lastRun, result>>
MCVars   == <<vars, waitVars, part>>

MCInit == Init /\ Wait!Init /\ part \in {"projection", "wait"}

Projects == part = "projection" /\ UNCHANGED <<waitVars, part>>
Awaits   == part = "wait" /\ UNCHANGED <<vars, part>>

\* The fairness of RunProjection and of RunWait.
MCFairness ==
    /\ WF_MCVars(Start /\ Projects) /\ WF_MCVars(Writer /\ Projects) /\ WF_MCVars(Exit /\ Projects)
    /\ WF_MCVars(Wait!Notify /\ Awaits)
    /\ \A t \in Waiters : /\ WF_MCVars(Wait!Waiter(t) /\ Awaits) /\ WF_MCVars(Wait!Poll(t) /\ Awaits)
                          /\ SF_MCVars(Wait!Read(t) /\ Awaits)

MCNext == (Next /\ Projects) \/ (Wait!Next /\ Awaits)

MCSpec == MCInit /\ [][MCNext]_MCVars /\ MCFairness

\* "Waits until a newer revision is durably readable": a waiter whose revision has
\* been passed returns, though the notification may have come between its read and
\* its sleep, and whether or not its deadline is far away.
WaiterReturns == Wait!WaiterReturns
=============================================================================
