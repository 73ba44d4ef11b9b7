---------------------------- MODULE ParentNotice ----------------------------
(***************************************************************************)
(* What the parent outbox promises (dispatch_parent_outbox: "durable       *)
(* at-least-once attempts"): a notice is shown to the parent at least once *)
(* before it is settled, and given up only when the parent is gone.        *)
(***************************************************************************)
CONSTANT Notices

VARIABLES
    status,   \* owed, settled or abandoned
    shown,    \* the notices that entered the parent's conversation
    gone      \* the parent session was deleted

vars == <<status, shown, gone>>

Init == status = [n \in Notices |-> "owed"] /\ shown = {} /\ gone = FALSE

Show(n) == ~gone /\ shown' = shown \cup {n} /\ UNCHANGED <<status, gone>>

Settle(n) ==
    /\ n \in shown /\ status[n] = "owed"
    /\ status' = [status EXCEPT ![n] = "settled"]
    /\ UNCHANGED <<shown, gone>>

Abandon(n) ==
    /\ gone /\ status[n] = "owed"
    /\ status' = [status EXCEPT ![n] = "abandoned"]
    /\ UNCHANGED <<shown, gone>>

ParentGone == gone' = TRUE /\ UNCHANGED <<status, shown>>

Next == ParentGone \/ \E n \in Notices : Show(n) \/ Settle(n) \/ Abandon(n)

Spec == Init /\ [][Next]_vars
=============================================================================
