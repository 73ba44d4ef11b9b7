----------------------------- MODULE RunDomain -----------------------------
(***************************************************************************)
(* The lifecycle of a background run: the states of RunLifecycle, the      *)
(* transition relation can_transition_to and the well-formedness rules of  *)
(* validate_transition (crates/n00n-runs/src/domain.rs).  The module has   *)
(* no state; RunStore and RunProjection extend it.                         *)
(***************************************************************************)

\* The states in which a run still owes its caller an answer.
Active == {"Queued", "Starting", "Running", "WaitingInput", "Blocked",
           "Pausing", "Paused", "Cancelling"}

\* RunLifecycle::is_terminal: no transition leaves these.
Terminal == {"Succeeded", "Failed", "TimedOut", "Cancelled", "Interrupted", "Lost"}

Lifecycles == Active \cup Terminal

\* The states whose entry is announced to the parent session
\* (should_notify_parent in store.rs).
Notifiable == Terminal \cup {"WaitingInput", "Blocked"}

\* The states that carry a wait reason.
Waiting == {"WaitingInput", "Blocked"}

\* The match of can_transition_to on the source state.
Successors(from) ==
    CASE from = "Queued"       -> {"Starting", "Cancelling", "Cancelled", "TimedOut"}
      [] from = "Starting"     -> {"Running", "Cancelling", "Failed", "TimedOut"}
      [] from = "Running"      -> {"WaitingInput", "Blocked", "Pausing", "Cancelling",
                                   "Succeeded", "Failed", "TimedOut"}
      [] from \in {"WaitingInput", "Blocked", "Paused"} -> {"Running", "Cancelling"}
      [] from = "Pausing"      -> {"Paused", "Running", "Failed", "Cancelling"}
      [] from = "Cancelling"   -> {"Cancelled", "TimedOut", "Failed"}
      [] OTHER                 -> {}

\* Mutation of the next definition: a terminal state may still be left.
BugCanTransitionTo(from, to) ==
    from # to /\ to \in {"Interrupted", "Lost"} \cup Successors(from)

\* RunLifecycle::can_transition_to: terminal states and self loops are refused
\* first, then every active state may be Interrupted or Lost.
CanTransitionTo(from, to) ==
    /\ from \notin Terminal
    /\ from # to
    /\ to \in {"Interrupted", "Lost"} \cup Successors(from)

\* outcome_matches: a terminal state carries an outcome of the same name; an
\* Interrupted run may also carry Unknown (legacy imports).
OutcomeMatches(to, outcome) ==
    \/ outcome = to
    \/ to = "Interrupted" /\ outcome = "Unknown"

\* validate_transition: the wait reason is present exactly in a waiting state
\* and the outcome exactly in a terminal one ("" is Rust's None).
ValidTransition(from, to, wait, outcome) ==
    /\ CanTransitionTo(from, to)
    /\ (to \in Waiting) = (wait # "")
    /\ IF to \in Terminal THEN OutcomeMatches(to, outcome) ELSE outcome = ""
=============================================================================
