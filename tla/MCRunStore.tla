---------------------------- MODULE MCRunStore ----------------------------
(***************************************************************************)
(* RunStore for TLC.  A behaviour is about the attempts of runs, their     *)
(* outbox and compaction, with short runs and no host; or about owners,    *)
(* with one run of up to MaxRevision revisions, two hosts and two          *)
(* reconciliation passes.  Behaviours with both are left to the proofs.    *)
(***************************************************************************)
EXTENDS RunStore, TLC

VARIABLE part  \* which of the two the behaviour is about

StoreSymmetry == Permutations(HostIds) \cup Permutations(OpIds) \cup Permutations(Reconcilers)

Attempts ==
    /\ UNCHANGED host
    /\ \A r \in RunIds : run'[r] # None => run'[r].revision <= 2
    /\ \A e \in event' : e.life # "Starting"

Owners ==
    /\ \A r \in RunIds : run'[r] # None =>
          r \in CreateIds /\ ~run'[r].parent /\ ~run'[r].resumable
    /\ \A e \in event' : e.op[1] = "client" => e.life # "Interrupted"

MCInit == Init /\ part \in {"attempts", "owners"}

MCNext ==
    /\ Next
    /\ part = "attempts" => Attempts
    /\ part = "owners" => Owners
    /\ UNCHANGED part

MCSpec == MCInit /\ [][MCNext]_<<vars, part>>
=============================================================================
