---------------------------- MODULE SessionLineage ----------------------------
(***************************************************************************)
(* The lineage of the sessions of one TUI (n00n-ui session_lineage.rs) and *)
(* the requests of the event loop that create, start, focus, reset,        *)
(* cancel, kill, reap and delete them (event_loop.rs), with the chains of  *)
(* deletions that the storage writer carries out afterwards and what a     *)
(* start finds on disk.                                                    *)
(*                                                                         *)
(* The event loop answers a request in one step, so a reservation of       *)
(* reserve_new never outlives the request that made it and is not part of  *)
(* the state.                                                              *)
(***************************************************************************)
EXTENDS Integers, FiniteSets, Sequences, SequencesExt

CONSTANTS
    Sessions,   \* session ids, numbers; the first one is the first root
    MaxDepth, MaxTotal, MaxActive,   \* LineageLimits
    MaxJobs,    \* bound on chains of deletions at a time
    MaxFaults   \* bound on failed deletions and crashes

ASSUME LineageAssumption ==
    /\ IsFiniteSet(Sessions) /\ Sessions \subseteq Nat \ {0} /\ 1 \in Sessions
    /\ MaxDepth \in Nat /\ MaxTotal \in Nat /\ MaxActive \in Nat \ {0}
    /\ MaxJobs \in Nat /\ MaxFaults \in Nat

VARIABLES
    st,       \* none, stored (no runtime), live (runtime_present) or deleted
    path,     \* a session and its ancestors, {} if it was never created
    active,   \* execution_active
    busy,     \* the app streams or has entries in its queue
    focused,
    disk,     \* the sessions with a file
    written,  \* the sessions that ever had one
    jobs,     \* chains of deletions, in the order in which the writer gets to them
    left,     \* deleted sessions that a reap of their ancestor did not delete again
    revived,  \* deleted sessions that a restart found on disk
    faults

nodes == <<st, path, active, busy, focused>>
vars  == <<nodes, disk, written, jobs, left, revived, faults>>

Known == {s \in Sessions : st[s] # "none"}
Live  == {s \in Sessions : st[s] = "live"}

\* The types of the variables; only a session with a runtime counts as active.
TypeOK ==
    /\ st \in [Sessions -> {"none", "stored", "live", "deleted"}]
    /\ path \in [Sessions -> SUBSET Sessions]
    /\ active \in [Sessions -> BOOLEAN] /\ busy \in [Sessions -> BOOLEAN]
    /\ \A s \in Sessions : active[s] \/ busy[s] => s \in Live
    /\ focused \in Sessions /\ disk \subseteq Sessions /\ written \subseteq Sessions
    /\ jobs \in Seq(Seq(Sessions))
    /\ left \subseteq Sessions /\ revived \subseteq Sessions /\ faults \in 0..MaxFaults

Init ==
    /\ st = [s \in Sessions |-> IF s = 1 THEN "live" ELSE "none"]
    /\ path = [s \in Sessions |-> IF s = 1 THEN {1} ELSE {}]
    /\ active = [s \in Sessions |-> FALSE] /\ busy = [s \in Sessions |-> FALSE]
    /\ focused = 1 /\ disk = {} /\ written = {} /\ jobs = <<>>
    /\ left = {} /\ revived = {} /\ faults = 0

Fault == faults < MaxFaults /\ faults' = faults + 1

-----------------------------------------------------------------------------
(* The guard.                                                              *)

\* resolve_cached_lineage.
Depth(s) == Cardinality(path[s]) - 1
Root(s)  == CHOOSE r \in path[s] : path[r] = {r}

\* descendants_for_delete: the deleted ones too.
DescendantsForDelete(s) == {d \in Sessions : s \in path[d] /\ d # s /\ st[d] # "none"}

\* descendants.
Descendants(s) == {d \in DescendantsForDelete(s) : st[d] # "deleted"}

\* descendant_counts.
Total(root)  == Cardinality(Descendants(root))
Active(root) == Cardinality({d \in Descendants(root) : active[d]})

\* The limit lets one execution too many begin.
BugMayBegin(s) == active[s] \/ s = Root(s) \/ Active(Root(s)) <= MaxActive

\* begin_execution.
MayBegin(s) == active[s] \/ s = Root(s) \/ Active(Root(s)) < MaxActive

\* reserve_new, of a child of the caller.
MayReserve(caller, execution) ==
    /\ Depth(caller) + 1 <= MaxDepth
    /\ Total(Root(caller)) < MaxTotal
    /\ execution => Active(Root(caller)) < MaxActive

\* authorize_prompt: the target is the caller or one of its descendants.
Authorized(caller, target) ==
    caller \in path[target] /\ st[caller] = "live" /\ st[target] = "live"

-----------------------------------------------------------------------------
(* Requests.                                                               *)

Unused == {s \in Sessions : path[s] = {}}
Fresh  == CHOOSE s \in Unused : TRUE

NodesOnly == UNCHANGED <<disk, written, jobs, left, revived, faults>>

\* SessionRequest::New, of the agent or, from the session picker, of the user.  The
\* session that calls may be blank and have no file: save_snapshot skips a session
\* without content.  A failure releases the reservation or rolls the new session
\* back and leaves nothing.  The one return in between, for a requested id that does
\* not parse, is out of reach: a SessionRef holds only ids that do.
New(caller, execution, focus) ==
    /\ Unused # {} /\ caller \in Live
    /\ MayReserve(caller, execution)
    /\ st' = [st EXCEPT ![Fresh] = "live"]
    /\ path' = [path EXCEPT ![Fresh] = path[caller] \cup {Fresh}]
    /\ active' = [active EXCEPT ![Fresh] = execution]
    /\ busy' = [busy EXCEPT ![Fresh] = execution]
    /\ focused' = IF focus THEN Fresh ELSE focused
    /\ NodesOnly

\* A submission of the user, or SessionRequest::Prompt: begin_execution.
Begin(s) ==
    /\ s \in Live /\ ~busy[s]
    /\ MayBegin(s)
    /\ active' = [active EXCEPT ![s] = TRUE]
    /\ busy' = [busy EXCEPT ![s] = TRUE]
    /\ NodesOnly /\ UNCHANGED <<st, path, focused>>

\* Done of a turn: the status is idle although another turn may follow.
TurnDone(s) ==
    /\ busy[s] /\ busy' = [busy EXCEPT ![s] = FALSE]
    /\ NodesOnly /\ UNCHANGED <<st, path, active, focused>>

\* QueueDrained.
Release(s) ==
    /\ active[s] /\ ~busy[s]
    /\ active' = [active EXCEPT ![s] = FALSE]
    /\ NodesOnly /\ UNCHANGED <<st, path, busy, focused>>

\* SessionRequest::Cancel, of a session and its descendants.
Cancel(caller, target) ==
    LET targets == {target} \cup Descendants(target) IN
    /\ Authorized(caller, target)
    /\ \E s \in targets : active[s] \/ busy[s]
    /\ active' = [s \in Sessions |-> active[s] /\ s \notin targets]
    /\ busy' = [s \in Sessions |-> busy[s] /\ s \notin targets]
    /\ NodesOnly /\ UNCHANGED <<st, path, focused>>

\* activate_runtime: a deleted session is unknown.
Activate(s) ==
    /\ st[s] # "deleted" /\ path[s] \subseteq Known
    /\ st' = [st EXCEPT ![s] = "live"]

\* focus_session, of a live session or of one on disk, whose queued work resumes.
Focus(s, work) ==
    /\ s # focused
    /\ focused' = s
    /\ IF s \in Live
       THEN ~work /\ UNCHANGED <<st, active, busy>>
       ELSE /\ s \in disk /\ Activate(s)
            /\ work => MayBegin(s)
            /\ active' = [active EXCEPT ![s] = work] /\ busy' = [busy EXCEPT ![s] = work]
    /\ NodesOnly /\ UNCHANGED path

\* Action::NewSession: the focused session makes way for a fresh root.
Reset ==
    /\ Unused # {}
    /\ st' = [st EXCEPT ![focused] = "stored", ![Fresh] = "live"]
    /\ active' = [active EXCEPT ![focused] = FALSE] /\ busy' = [busy EXCEPT ![focused] = FALSE]
    /\ path' = [path EXCEPT ![Fresh] = {Fresh}]
    /\ focused' = Fresh
    /\ NodesOnly

-----------------------------------------------------------------------------
(* Deletion.                                                               *)

\* The parents go first.
BugOrdered(targets) ==
    {q \in SetToSeqs(targets) : \A i, j \in DOMAIN q : q[i] \in path[q[j]] => i <= j}

\* descendants_for_delete walks in post-order, siblings in whatever order: children
\* come before their parents.
Ordered(targets) ==
    {q \in SetToSeqs(targets) : \A i, j \in DOMAIN q : q[i] \in path[q[j]] => j <= i}

\* remove_runtime and remove_sessions, and delete_sessions_sequentially.
RemoveSessions(targets) ==
    /\ Len(jobs) < MaxJobs
    /\ st' = [s \in Sessions |-> IF s \in targets \cap Known THEN "deleted" ELSE st[s]]
    /\ active' = [s \in Sessions |-> active[s] /\ s \notin targets]
    /\ busy' = [s \in Sessions |-> busy[s] /\ s \notin targets]
    /\ \E chain \in Ordered(targets) : jobs' = Append(jobs, chain)
    /\ UNCHANGED <<path, focused, disk, written, revived, faults>>

\* SessionRequest::Delete, of the user: authorize_ui_delete admits a trusted callback
\* of the UI and refuses one that carries a session's identity.  Whose callback it is
\* makes no difference here.
Delete(s) ==
    LET targets == {s} \cup DescendantsForDelete(s) IN
    /\ s \in disk \cup Known /\ focused \notin targets
    /\ RemoveSessions(targets) /\ UNCHANGED left

\* SessionRequest::Kill.
Kill(caller, target) ==
    LET targets == {target} \cup DescendantsForDelete(target) IN
    /\ caller # target /\ Authorized(caller, target) /\ focused \notin targets
    /\ RemoveSessions(targets) /\ UNCHANGED left

\* The focused session may be reaped.
BugReapable(s, blocked) == IF s \in Live THEN ~busy[s] ELSE s \in disk \ blocked

\* reap_candidate; a stored session may hold work or a stale lifecycle (blocked).
Reapable(s, blocked) == IF s \in Live THEN s # focused /\ ~busy[s] ELSE s \in disk \ blocked

\* A session is reaped whatever its descendants do.
BugSelected(candidates, blocked) == {s \in candidates : Reapable(s, blocked)}

\* select_reapable_sessions.
Selected(candidates, blocked) ==
    {s \in candidates : \A d \in candidates : s \in path[d] => Reapable(d, blocked)}

\* SessionRequest::Reap, of the caller's descendants or of a target below it.
\* Deleted sessions are no candidates.
Reap(caller, target, blocked) ==
    LET below == Descendants(target) \cup (IF caller = target THEN {} ELSE {target})
        targets == Selected(below, blocked)
    IN /\ Authorized(caller, target) /\ targets # {}
       /\ caller # target => target \in targets
       /\ RemoveSessions(targets)
       /\ left' = left \cup {s \in disk : st[s] = "deleted" /\ path[s] \cap targets # {}}

-----------------------------------------------------------------------------
(* The storage writer and restarts.                                        *)

\* A save of a live session.
Store(s) ==
    /\ s \in Live \ disk
    /\ disk' = disk \cup {s} /\ written' = written \cup {s}
    /\ UNCHANGED <<nodes, jobs, left, revived, faults>>

\* The writer deletes a file and the chain asks for the next one.
DeleteFile ==
    LET rest == Tail(Head(jobs)) IN
    /\ jobs # <<>>
    /\ disk' = disk \ {Head(Head(jobs))}
    /\ jobs' = Tail(jobs) \o (IF rest = <<>> THEN <<>> ELSE <<rest>>)
    /\ UNCHANGED <<nodes, written, left, revived, faults>>

\* A deletion fails: the chain stops.
DeleteFails ==
    /\ Fault /\ jobs # <<>>
    /\ jobs' = Tail(jobs)
    /\ UNCHANGED <<nodes, disk, written, left, revived>>

\* A crash, and a start that opens one of the stored sessions or a new one.  It
\* skips stored sessions whose ancestors are not stored.
Restart(s, work) ==
    LET found == {d \in disk : path[d] \subseteq disk} IN
    /\ Fault
    /\ s \in found \/ (Unused # {} /\ s = Fresh /\ ~work)
    /\ st' = [d \in Sessions |-> IF d = s THEN "live" ELSE IF d \in found THEN "stored" ELSE "none"]
    /\ active' = [d \in Sessions |-> d = s /\ work] /\ busy' = active'
    /\ path' = IF s \in found THEN path ELSE [path EXCEPT ![s] = {s}]
    /\ focused' = s
    /\ jobs' = <<>>
    /\ revived' = revived \cup {d \in found : st[d] = "deleted"}
    /\ UNCHANGED <<disk, written, left>>

-----------------------------------------------------------------------------
Next ==
    \/ \E c \in Live, execution, focus \in BOOLEAN : New(c, execution, focus)
    \/ \E s \in Sessions : Begin(s) \/ TurnDone(s) \/ Release(s) \/ Delete(s) \/ Store(s)
    \/ \E s \in Sessions, work \in BOOLEAN : Focus(s, work) \/ Restart(s, work)
    \/ \E t \in Live : \E c \in Live \cap path[t] :
          \/ Cancel(c, t) \/ Kill(c, t)
          \/ \E blocked \in SUBSET (Descendants(t) \ Live) : Reap(c, t, blocked)
    \/ Reset \/ DeleteFile \/ DeleteFails

Spec == Init /\ [][Next]_vars

-----------------------------------------------------------------------------
(* Properties.                                                             *)

\* For every root: no session below max_depth, no more than max_active_descendants
\* active and no more than max_total_descendants retained, apart from deleted ones
\* that a crash brought back.  Requests, resumed work and restarts together keep
\* the limits that begin_execution and reserve_new check one by one.
WithinLimits ==
    \A s \in Known :
        /\ Depth(s) <= MaxDepth
        /\ path[s] = {s} => /\ Active(s) <= MaxActive
                            /\ Cardinality(Descendants(s) \ revived) <= MaxTotal

\* The focused session keeps its runtime, whatever is deleted, killed or reaped:
\* the event loop indexes its sessions by it.
FocusedLive == focused \in Live

\* No session outlives an ancestor: deleting, killing and reaping take every
\* descendant along, and no deleted session is opened again.
NoneBelowDeleted ==
    \A s \in Known : st[s] # "deleted" => \A a \in path[s] : st[a] \notin {"none", "deleted"}

\* Whatever deletion fails or is cut short by a crash, a stored session has its
\* ancestors on disk, without which a start skips it: chains delete children first,
\* and start over with what an earlier one has left.  Excluded are what a reap does
\* not start over with, and a session below one that never had a file: a child of a
\* blank session is stored, and skipped at the next start (MissingParent), although
\* nothing was deleted.
StoredHaveParents ==
    \A s \in disk \ left : path[s] \subseteq written => path[s] \subseteq disk

=============================================================================
