---------------------------- MODULE MCSessionLog ----------------------------
(***************************************************************************)
(* SessionLog for TLC.  One subagent ends in a behaviour, one whose        *)
(* history is within the record limit or one whose history begins with a   *)
(* tombstone; the nested call, whose output outlives the call that started *)
(* it, comes with the first.  Records of different keys meet only in the   *)
(* place where a frame is torn, which the proofs have for any of them.     *)
(***************************************************************************)
EXTENDS SessionLog

\* The behaviours that are explored.
OneHistory ==
    /\ Cardinality(ran' \cap Subs) <= 1
    /\ Cardinality(ran' \cap (Nested \cup Big)) <= 1

MCSpec == Init /\ [][Next /\ OneHistory]_vars
=============================================================================
