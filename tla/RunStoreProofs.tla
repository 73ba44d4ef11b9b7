--------------------------- MODULE RunStoreProofs ---------------------------
(***************************************************************************)
(* Theorems about RunStore for every set of ids, hosts, operation ids and  *)
(* reconcilers and every revision bound.                                   *)
(*                                                                         *)
(* The inductive invariant is TypeInv /\ LogInv: the type invariant, the   *)
(* complete event log, one effect per operation id, and what these rest    *)
(* on: a pass holds only interrupt requests (PassRequests), an unspent     *)
(* generated id names no run (FreshUnused), and the store's own operation  *)
(* ids belong to the run they name (OpsNamed).  From it follow that a      *)
(* terminal row is never rewritten, and, with AttemptInv, that an attempt  *)
(* continues a run that has ended.                                         *)
(*                                                                         *)
(* What the store guards across its tables (references, owner fences,      *)
(* reconciliation, deliveries) rests on that invariant too.  A step of the *)
(* store is brought into one of six forms (StepForms), and each further    *)
(* invariant is shown for the forms.                                       *)
(***************************************************************************)
EXTENDS RunStore, TLAPS

\* An id RunId::generate has not returned names no stored run.
FreshUnused == \A r \in fresh : run[r] = None

\* "create:<run>" and "legacy:<run>" occur only in the log of that run.
OpsNamed == \A e \in event : \A r \in RunIds :
                e.op = CreateOp(r) \/ e.op = LegacyOp(r) => e.run = r

\* A reconciler only ever holds fenced requests to interrupt.
PassRequests == \A p \in Reconcilers : \A q \in pass[p].todo :
                    q.kind = "transition" /\ q.arg = "Interrupted" /\ q.owner \in HostIds

-----------------------------------------------------------------------------
(* Types.                                                                  *)

\* The lifecycles of RunLifecycle include every state this store writes itself.
LEMMA LifecycleFacts ==
    /\ "Queued" \in Lifecycles
    /\ "Interrupted" \in Lifecycles
    /\ LegacyOutcomes \subseteq Lifecycles
    /\ None \notin HostIds
    /\ MaxRevision \in Nat /\ MaxRevision >= 1
BY StoreAssumption DEF Lifecycles, Active, Terminal, LegacyOutcomes

\* A row that create_run or resume_run inserts is a row of the runs table.
LEMMA QueuedRowType ==
    ASSUME NEW owner \in Opt(HostIds), NEW pred \in Opt(RunIds),
           NEW parentRun \in Opt(RunIds), NEW ch \in RunIds,
           NEW hasParent \in BOOLEAN, NEW resumable \in BOOLEAN
    PROVE  QueuedRow(owner, pred, parentRun, ch, hasParent, resumable) \in Row
BY LifecycleFacts DEF QueuedRow, Row

\* A committed transition writes rows of the right types, for any well-typed
\* request and operation id (transition_with_failure).
LEMMA CommitType ==
    ASSUME TypeOK, NEW q \in Request, NEW op \in OperationIds,
           q.arg \in Lifecycles, Commit(q, op)
    PROVE  /\ run' \in [RunIds -> Opt(Row)]
           /\ event' \subseteq Event
           /\ outbox' \subseteq Delivery
<1>1. run[q.run] \in Row /\ q.rev \in Nat /\ q.rev + 1 \in 1..MaxRevision
      BY LifecycleFacts DEF Commit, Admits, Fits, TypeOK, Request, Opt
<1>2. [run[q.run] EXCEPT !.lifecycle = q.arg, !.revision = q.rev + 1] \in Row
      BY <1>1 DEF Row
<1>3. run' \in [RunIds -> Opt(Row)]
      BY <1>2 DEF Commit, TypeOK, Request, Opt
<1>4. event' \subseteq Event
  <2>1. q.run \in RunIds  BY DEF Request
  <2>2. [run |-> q.run, rev |-> q.rev + 1, op |-> op, req |-> q, life |-> q.arg] \in Event
        BY <1>1, <2>1 DEF Event
  <2>. QED BY <2>2 DEF Commit, InsertEvent, TypeOK
<1>5. outbox' \subseteq Delivery
      BY <1>1 DEF Commit, InsertOutboxIfParent, TypeOK, Delivery, OutboxStates, Request
<1>. QED BY <1>3, <1>4, <1>5

\* Each step of reconcile_stale that only moves the reconciler keeps its type.
LEMMA InterruptRequestsType ==
    ASSUME TypeOK, NEW h \in HostIds
    PROVE  /\ InterruptRequests(h) \subseteq Request
           /\ \A q \in InterruptRequests(h) : q.kind = "transition" /\ q.arg = "Interrupted" /\ q.owner \in HostIds
<1>1. ASSUME NEW r \in Stored
      PROVE  /\ run[r].revision \in 0..MaxRevision /\ run[r].epoch \in 0..MaxRevision
             /\ r \in RunIds
      BY LifecycleFacts DEF Stored, TypeOK, Opt, Row
<1>2. ASSUME NEW r \in Stored
      PROVE  [kind |-> "transition", run |-> r, rev |-> run[r].revision, owner |-> h,
              epoch |-> run[r].epoch, arg |-> "Interrupted"] \in Request
      BY <1>1, LifecycleFacts DEF Request, Opt
<1>. QED BY <1>2 DEF InterruptRequests

\* The type invariant, with the shape of the reconcilers' requests, is inductive.
TypeInv == TypeOK /\ PassRequests

\* A transition, by a client or a reconciler, keeps the types.
LEMMA RunStepType == TypeInv /\ RunStep => TypeInv'
<1>. SUFFICES ASSUME TypeOK, PassRequests, RunStep PROVE TypeOK' /\ PassRequests'
     BY DEF TypeInv
<1>1. ASSUME NEW r \in CreateIds, NEW owner \in Opt(HostIds), NEW parentRun \in Opt(RunIds),
             NEW hasParent \in Parented, NEW resumable \in Resumable,
             CreateRun(r, owner, parentRun, hasParent, resumable)
      PROVE  TypeOK' /\ PassRequests'
  <2>. DEFINE q == [kind |-> "create", run |-> r, rev |-> 0, owner |-> None,
                    epoch |-> 0, arg |-> None]
  <2>1. r \in RunIds /\ hasParent \in BOOLEAN /\ resumable \in BOOLEAN
        BY StoreAssumption DEF RunIds
  <2>2. QueuedRow(owner, None, parentRun, r, hasParent, resumable) \in Row
        BY <2>1, QueuedRowType DEF Opt
  <2>3. q \in Request  BY <2>1, LifecycleFacts DEF Request, Opt
  <2>4. CreateOp(r) \in OperationIds  BY <2>1 DEF OperationIds
  <2>5. [run |-> r, rev |-> 1, op |-> CreateOp(r), req |-> q, life |-> "Queued"] \in Event
        BY <2>1, <2>3, <2>4, LifecycleFacts DEF Event
  <2>6. run' \in [RunIds -> Opt(Row)]  BY <1>1, <2>2 DEF CreateRun, TypeOK, Opt
  <2>7. event' \subseteq Event  BY <1>1, <2>5 DEF CreateRun, InsertEvent, TypeOK
  <2>8. chain' \subseteq RunIds  BY <1>1, <2>1 DEF CreateRun, TypeOK
  <2>. QED BY <1>1, <2>6, <2>7, <2>8 DEF CreateRun, TypeOK, PassRequests
<1>2. ASSUME NEW q \in TransitionRequests, NEW o \in OpIds, Transition(q, o)
      PROVE  TypeOK' /\ PassRequests'
  <2>1. q \in Request /\ q.arg \in Lifecycles
        BY StoreAssumption DEF TransitionRequests, Stored, Request, Opt
  <2>2. ClientOp(o) \in OperationIds  BY DEF OperationIds
  <2>. QED BY <1>2, <2>1, <2>2, CommitType DEF Transition, TypeOK, PassRequests
<1>3. ASSUME NEW prior \in RunIds, NEW r \in ResumeIds, NEW owner \in Opt(HostIds),
             NEW o \in OpIds, ResumeRun(prior, r, owner, o)
      PROVE  TypeOK' /\ PassRequests'
  <2>. DEFINE q == [kind |-> "resume", run |-> prior, rev |-> run[prior].revision,
                    owner |-> owner, epoch |-> 0, arg |-> None]
  <2>1. r \in RunIds  BY DEF RunIds
  <2>2. run[prior] \in Row  BY <1>3 DEF ResumeRun, TypeOK, Opt
  <2>3. /\ run[prior].revision \in 0..MaxRevision /\ run[prior].parentRun \in Opt(RunIds)
        /\ run[prior].chain \in RunIds /\ run[prior].parent \in BOOLEAN
        BY <2>2, LifecycleFacts DEF Row
  <2>4. QueuedRow(owner, prior, run[prior].parentRun, run[prior].chain,
                  run[prior].parent, TRUE) \in Row
        BY <2>3, QueuedRowType DEF Opt
  <2>5. q \in Request  BY <2>3, LifecycleFacts DEF Request, Opt
  <2>6. ClientOp(o) \in OperationIds  BY DEF OperationIds
  <2>7. [run |-> r, rev |-> 1, op |-> ClientOp(o), req |-> q, life |-> "Queued"] \in Event
        BY <2>1, <2>5, <2>6, LifecycleFacts DEF Event
  <2>8. run' \in [RunIds -> Opt(Row)]  BY <1>3, <2>4 DEF ResumeRun, TypeOK, Opt
  <2>9. event' \subseteq Event  BY <1>3, <2>7 DEF ResumeRun, InsertEvent, TypeOK
  <2>10. fresh' \subseteq ResumeIds  BY <1>3 DEF ResumeRun, TypeOK
  <2>. QED BY <1>3, <2>8, <2>9, <2>10 DEF ResumeRun, TypeOK, PassRequests
<1>4. ASSUME NEW q \in TransferRequests, NEW o \in OpIds, TransferOwner(q, o)
      PROVE  TypeOK' /\ PassRequests'
  <2>1. q \in Request  BY DEF TransferRequests, Stored, Request, Opt
  <2>2. /\ q.run \in RunIds /\ q.arg \in HostIds
        /\ q.epoch + 1 \in 0..MaxRevision /\ q.rev + 1 \in 1..MaxRevision
        BY <1>4, LifecycleFacts DEF TransferRequests, Stored, TransferOwner, Fits
  <2>3. run[q.run] \in Row  BY <1>4, <2>2 DEF TransferOwner, TypeOK, Opt
  <2>4. [run[q.run] EXCEPT !.owner = q.arg, !.epoch = q.epoch + 1, !.revision = q.rev + 1]
           \in Row
        BY <2>2, <2>3 DEF Row, Opt
  <2>5. run[q.run].lifecycle \in Lifecycles  BY <2>3 DEF Row
  <2>6. ClientOp(o) \in OperationIds  BY DEF OperationIds
  <2>7. [run |-> q.run, rev |-> q.rev + 1, op |-> ClientOp(o), req |-> q,
         life |-> run[q.run].lifecycle] \in Event
        BY <2>1, <2>2, <2>5, <2>6 DEF Event
  <2>8. run' \in [RunIds -> Opt(Row)]  BY <1>4, <2>2, <2>4 DEF TransferOwner, TypeOK, Opt
  <2>9. event' \subseteq Event  BY <1>4, <2>7 DEF TransferOwner, InsertEvent, TypeOK
  <2>. QED BY <1>4, <2>8, <2>9 DEF TransferOwner, TypeOK, PassRequests
<1>5. ASSUME NEW r \in LegacyIds, NEW life \in LegacyOutcomes, ImportLegacyOne(r, life)
      PROVE  TypeOK' /\ PassRequests'
  <2>. DEFINE q == [kind |-> "legacy", run |-> r, rev |-> 0, owner |-> None,
                    epoch |-> 0, arg |-> None]
              row == QueuedRow(None, None, None, r, TRUE, FALSE)
  <2>1. r \in RunIds /\ life \in Lifecycles  BY LifecycleFacts DEF RunIds
  <2>2. row \in Row  BY <2>1, QueuedRowType DEF Opt
  <2>3. [row EXCEPT !.lifecycle = life] \in Row  BY <2>1, <2>2 DEF Row
  <2>4. q \in Request  BY <2>1, LifecycleFacts DEF Request, Opt
  <2>5. LegacyOp(r) \in OperationIds  BY <2>1 DEF OperationIds
  <2>6. [run |-> r, rev |-> 1, op |-> LegacyOp(r), req |-> q, life |-> life] \in Event
        BY <2>1, <2>4, <2>5, LifecycleFacts DEF Event
  <2>7. run' \in [RunIds -> Opt(Row)]  BY <1>5, <2>3 DEF ImportLegacyOne, TypeOK, Opt
  <2>8. event' \subseteq Event  BY <1>5, <2>6 DEF ImportLegacyOne, InsertEvent, TypeOK
  <2>9. outbox' \subseteq Delivery
        BY <1>5, <2>1, LifecycleFacts
        DEF ImportLegacyOne, InsertOutboxIfParent, TypeOK, Delivery, OutboxStates
  <2>10. chain' \subseteq RunIds  BY <1>5, <2>1 DEF ImportLegacyOne, TypeOK
  <2>. QED BY <1>5, <2>7, <2>8, <2>9, <2>10 DEF ImportLegacyOne, TypeOK, PassRequests
<1>. QED BY <1>1, <1>2, <1>3, <1>4, <1>5 DEF RunStep

\* Registration, heartbeats, shutdowns and exits keep the types.
LEMMA HostStepType == TypeInv /\ HostStep => TypeInv'
<1>. SUFFICES ASSUME TypeOK, PassRequests, NEW h \in HostIds,
                     \/ RegisterHost(h) \/ HeartbeatHost(h) \/ HeartbeatAges(h)
                     \/ ShutdownHost(h) \/ ProcessExit(h)
              PROVE  TypeOK' /\ PassRequests'
     BY DEF TypeInv, HostStep
<1>1. host' \in [HostIds -> Host]
  <2>1. host \in [HostIds -> Host] /\ host[h] \in Host  BY DEF TypeOK
  <2>2. /\ [row |-> "live", beating |-> TRUE, alive |-> TRUE] \in Host
        /\ [host[h] EXCEPT !.beating = TRUE] \in Host
        /\ [host[h] EXCEPT !.beating = FALSE] \in Host
        /\ [host[h] EXCEPT !.row = "shutdown"] \in Host
        /\ [host[h] EXCEPT !.alive = FALSE] \in Host
        BY <2>1 DEF Host
  <2>. QED BY <2>1, <2>2
           DEF RegisterHost, HeartbeatHost, HeartbeatAges, ShutdownHost, ProcessExit
<1>2. UNCHANGED <<run, event, outbox, chain, fresh, pass, closed>>
      BY DEF RegisterHost, HeartbeatHost, HeartbeatAges, ShutdownHost, ProcessExit, table
<1>. QED BY <1>1, <1>2 DEF TypeOK, PassRequests

\* The steps of a reconciler keep the types.
LEMMA ReconcileStepType == TypeInv /\ ReconcileStep => TypeInv'
<1>. SUFFICES ASSUME TypeOK, PassRequests, NEW p \in Reconcilers,
                     \/ ScanStaleHosts(p) \/ AbortPass(p)
                     \/ \E h \in HostIds : VerifyGone(p, h) \/ VerifyNotGone(p, h)
                     \/ \E q \in pass[p].todo : InterruptRun(p, q) \/ SkipRun(p, q)
              PROVE  TypeOK' /\ PassRequests'
     BY DEF TypeInv, ReconcileStep
<1>0. pass \in [Reconcilers -> Pass] /\ IdlePass \in Pass
      BY DEF TypeOK, Pass, IdlePass
<1>1. ASSUME NEW x \in Pass, pass' = [pass EXCEPT ![p] = x],
             \A q \in x.todo : q.kind = "transition" /\ q.arg = "Interrupted" /\ q.owner \in HostIds
      PROVE  pass' \in [Reconcilers -> Pass] /\ PassRequests'
      BY <1>0, <1>1 DEF PassRequests
<1>2. CASE ScanStaleHosts(p)
  <2>. DEFINE x == [hosts |-> StaleHosts, todo |-> {},
                    down |-> {h \in StaleHosts : host[h].row = "shutdown"}]
  <2>1. x \in Pass  BY DEF Pass, StaleHosts
  <2>2. pass' = [pass EXCEPT ![p] = x]  BY <1>2 DEF ScanStaleHosts
  <2>3. pass' \in [Reconcilers -> Pass] /\ PassRequests'  BY <1>1, <2>1, <2>2
  <2>. QED BY <1>2, <2>3 DEF ScanStaleHosts, TypeOK, table
<1>3. CASE AbortPass(p)
      BY <1>0, <1>3 DEF AbortPass, TypeOK, PassRequests, IdlePass, table
<1>4. ASSUME NEW h \in HostIds, VerifyGone(p, h)  PROVE TypeOK' /\ PassRequests'
  <2>. DEFINE x == [hosts |-> pass[p].hosts \ {h}, down |-> pass[p].down \ {h},
                    todo |-> InterruptRequests(h)]
  <2>1. x \in Pass  BY <1>0, InterruptRequestsType DEF Pass
  <2>2. pass' = [pass EXCEPT ![p] = x]  BY <1>4 DEF VerifyGone
  <2>3. pass' \in [Reconcilers -> Pass] /\ PassRequests'
        BY <1>1, <2>1, <2>2, InterruptRequestsType
  <2>. QED BY <1>4, <2>3 DEF VerifyGone, TypeOK, table
<1>5. ASSUME NEW h \in HostIds, VerifyNotGone(p, h)  PROVE TypeOK' /\ PassRequests'
      BY <1>0, <1>5 DEF VerifyNotGone, TypeOK, PassRequests, Pass, table
<1>6. ASSUME NEW q \in pass[p].todo, pass' = [pass EXCEPT ![p].todo = @ \ {q}]
      PROVE  pass' \in [Reconcilers -> Pass] /\ PassRequests'
      BY <1>0, <1>6 DEF PassRequests, Pass
<1>7. ASSUME NEW q \in pass[p].todo, InterruptRun(p, q)  PROVE TypeOK' /\ PassRequests'
  <2>1. q \in Request /\ q.arg \in Lifecycles
        BY <1>0, LifecycleFacts DEF PassRequests, Pass
  <2>2. ReconcileOpOf(q) \in OperationIds
        BY <1>0, <2>1 DEF ReconcileOpOf, OperationIds, PassRequests, Request
  <2>3. /\ run' \in [RunIds -> Opt(Row)] /\ event' \subseteq Event /\ outbox' \subseteq Delivery
        BY <1>7, <2>1, <2>2, CommitType DEF InterruptRun
  <2>. QED BY <1>6, <1>7, <2>3 DEF InterruptRun, TypeOK
<1>8. ASSUME NEW q \in pass[p].todo, SkipRun(p, q)  PROVE TypeOK' /\ PassRequests'
      BY <1>6, <1>8 DEF SkipRun, TypeOK, table
<1>. QED BY <1>2, <1>3, <1>4, <1>5, <1>7, <1>8

\* Delivery reports keep the types.
LEMMA OutboxStepType == TypeInv /\ OutboxStep => TypeInv'
<1>. SUFFICES ASSUME TypeOK, PassRequests, NEW d \in outbox,
                     MarkOutboxDelivered(d) \/ AcknowledgeOutbox(d) \/ DeadLetterOutbox(d)
              PROVE  TypeOK' /\ PassRequests'
     BY DEF TypeInv, OutboxStep
<1>1. d \in Delivery /\ <<d.run, d.rev>> \in RunIds \X (1..MaxRevision)
      BY DEF TypeOK, Delivery
<1>2. \A s \in OutboxStates : [d EXCEPT !.state = s] \in Delivery
      BY <1>1 DEF Delivery
<1>3. outbox' \subseteq Delivery
      BY <1>2 DEF MarkOutboxDelivered, AcknowledgeOutbox, DeadLetterOutbox, SetState, TypeOK,
                  OutboxStates
<1>4. closed' \subseteq RunIds \X (1..MaxRevision)
      BY <1>1 DEF MarkOutboxDelivered, AcknowledgeOutbox, DeadLetterOutbox, TypeOK
<1>5. UNCHANGED <<run, event, chain, host, fresh, pass>>
      BY DEF MarkOutboxDelivered, AcknowledgeOutbox, DeadLetterOutbox
<1>. QED BY <1>3, <1>4, <1>5 DEF TypeOK, PassRequests

\* Retention keeps the types.
LEMMA CompactType == TypeInv /\ CompactSome => TypeInv'
<1>. SUFFICES ASSUME TypeOK, PassRequests, NEW ds, NEW rs, NEW cs, NEW hs, Compact(ds, rs, cs, hs)
              PROVE  TypeOK' /\ PassRequests'
     BY DEF TypeInv, CompactSome
<1>1. run' \in [RunIds -> Opt(Row)]  BY DEF Compact, TypeOK, Opt
<1>2. host' \in [HostIds -> Host]  BY DEF Compact, TypeOK, Host
<1>3. event' \subseteq Event /\ outbox' \subseteq Delivery /\ chain' \subseteq RunIds
      BY DEF Compact, RemainingEvents, TypeOK
<1>. QED BY <1>1, <1>2, <1>3 DEF Compact, TypeOK, PassRequests

\* Every step keeps the types.
LEMMA NextType == TypeInv /\ [Next]_vars => TypeInv'
<1>1. CASE UNCHANGED vars  BY <1>1 DEF vars, TypeInv, TypeOK, PassRequests
<1>. QED BY <1>1, RunStepType, HostStepType, ReconcileStepType, OutboxStepType, CompactType
         DEF Next

\* The tables of the store hold only rows of their types: every revision and
\* epoch fits its column, every id is of its pool (the STRICT schema).
THEOREM StoreTypeCorrect == Spec => []TypeOK
<1>1. Init => TypeInv
      BY LifecycleFacts DEF Init, TypeInv, TypeOK, PassRequests, Opt, Host, Pass, IdlePass
<1>2. TypeInv => TypeOK  BY DEF TypeInv
<1>. QED BY <1>1, <1>2, NextType, PTL DEF Spec
-----------------------------------------------------------------------------
(* The event log.                                                          *)

\* The operation ids the store derives itself are told apart from each other and
\* from the clients'.
LEMMA OpsDistinct ==
    /\ \A r, s : CreateOp(r) = CreateOp(s) => r = s
    /\ \A r, s : LegacyOp(r) = LegacyOp(s) => r = s
    /\ \A r, s : CreateOp(r) # LegacyOp(s)
    /\ \A o, s : ClientOp(o) # CreateOp(s) /\ ClientOp(o) # LegacyOp(s)
    /\ \A r, h, e, s : ReconcileOp(r, h, e) # CreateOp(s) /\ ReconcileOp(r, h, e) # LegacyOp(s)
BY DEF CreateOp, LegacyOp, ClientOp, ReconcileOp

LogInv == FreshUnused /\ EventLogComplete /\ OpsNamed /\ OperationAppliedOnce

\* Every writing operation of the store appends one event under a new operation
\* id and sets the run's revision to the event's: the next revision of a stored
\* run or the first of a new one.  That keeps the log complete.
LEMMA AppendEvent ==
    ASSUME TypeOK, EventLogComplete, OperationAppliedOnce,
           NEW r \in RunIds, NEW row \in Row, NEW op, NEW q,
           ~Seen(op),
           \/ run[r] = None /\ row.revision = 1
           \/ run[r] # None /\ row.revision = run[r].revision + 1,
           run' = [run EXCEPT ![r] = row],
           event' = event \cup {[run |-> r, rev |-> row.revision, op |-> op, req |-> q,
                                 life |-> row.lifecycle]}
    PROVE  EventLogComplete' /\ OperationAppliedOnce'
<1>. DEFINE new == [run |-> r, rev |-> row.revision, op |-> op, req |-> q,
                    life |-> row.lifecycle]
<1>1. row # None /\ row.revision \in Nat /\ row.revision >= 1
      BY RowAssumption, LifecycleFacts DEF Row
<1>2. /\ run'[r] = row
      /\ \A s \in RunIds : s # r => run'[s] = run[s]
      BY DEF TypeOK
<1>3. \A s \in RunIds : run[s] # None => run[s].revision \in Nat
      BY LifecycleFacts DEF TypeOK, Opt, Row
<1>4. \A e \in event : e.run \in RunIds /\ e.rev \in Nat
      BY DEF TypeOK, Event
<1>5. \A e \in event : e.run = r => e.rev < row.revision
      BY <1>1, <1>3, <1>4 DEF EventLogComplete
<1>6. \A e \in event' : run'[e.run] # None /\ e.rev <= run'[e.run].revision
      BY <1>1, <1>2, <1>3, <1>4, <1>5 DEF EventLogComplete
<1>7. \A e, f \in event' : e.run = f.run /\ e.rev = f.rev => e = f
      BY <1>1, <1>4, <1>5 DEF EventLogComplete
<1>8. ASSUME NEW s \in Stored', NEW n \in 1..run'[s].revision
      PROVE  \E e \in event' : e.run = s /\ e.rev = n
  <2>1. CASE s # r
        BY <1>2, <1>8, <2>1 DEF Stored, EventLogComplete
  <2>2. CASE s = r /\ n = row.revision
    <3>1. new \in event' /\ new.run = r /\ new.rev = row.revision  OBVIOUS
    <3>. QED BY <2>2, <3>1
  <2>3. CASE s = r /\ n # row.revision
    <3>1. n \in Nat /\ n >= 1 /\ n < row.revision  BY <1>1, <1>2, <1>8, <2>3
    <3>2. run[r] # None /\ row.revision = run[r].revision + 1 /\ run[r].revision \in Nat
          BY <1>3, <3>1
    <3>3. n \in 1..run[r].revision /\ r \in Stored  BY <3>1, <3>2 DEF Stored
    <3>. QED BY <2>3, <3>3 DEF EventLogComplete
  <2>. QED BY <2>1, <2>2, <2>3
<1>9. \A e \in event' : e.rev = run'[e.run].revision => e.life = run'[e.run].lifecycle
      BY <1>1, <1>2, <1>4, <1>5 DEF EventLogComplete
<1>10. EventLogComplete'  BY <1>6, <1>7, <1>8, <1>9 DEF EventLogComplete
<1>11. OperationAppliedOnce'  BY DEF OperationAppliedOnce, Seen
<1>. QED BY <1>10, <1>11

\* Appending an event keeps the store's own operation ids with their runs.
LEMMA AppendNamed ==
    ASSUME OpsNamed, NEW x, event' = event \cup {x},
           \A s \in RunIds : x.op = CreateOp(s) \/ x.op = LegacyOp(s) => x.run = s
    PROVE  OpsNamed'
BY DEF OpsNamed

\* A transition, by a client or a reconciler, appends one event.
LEMMA CommitLog ==
    ASSUME TypeOK, LogInv, NEW q \in Request, NEW op \in OperationIds,
           q.arg \in Lifecycles, Commit(q, op),
           \A r \in RunIds : op # CreateOp(r) /\ op # LegacyOp(r),
           UNCHANGED fresh
    PROVE  LogInv'
<1>. DEFINE row == [run[q.run] EXCEPT !.lifecycle = q.arg, !.revision = q.rev + 1]
<1>1. /\ q.run \in RunIds /\ run[q.run] \in Row /\ run[q.run] # None
      /\ q.rev = run[q.run].revision /\ q.rev + 1 \in 1..MaxRevision
      BY LifecycleFacts
      DEF Commit, Admits, VerifyRevisionAndOwner, Fits, TypeOK, Request, Opt
<1>2. row \in Row /\ row.revision = q.rev + 1 /\ row.lifecycle = q.arg
      BY <1>1 DEF Row
<1>3. run' = [run EXCEPT ![q.run] = row]
      BY <1>1 DEF Commit, TypeOK
<1>4. event' = event \cup {[run |-> q.run, rev |-> row.revision, op |-> op, req |-> q,
                            life |-> row.lifecycle]}
      BY <1>2 DEF Commit, InsertEvent
<1>5. EventLogComplete' /\ OperationAppliedOnce'
      BY <1>1, <1>2, <1>3, <1>4, AppendEvent DEF LogInv, Commit
<1>6. OpsNamed'  BY <1>4 DEF LogInv, OpsNamed
<1>7. FreshUnused'
      BY <1>1, <1>3 DEF LogInv, FreshUnused, TypeOK, RunIds
<1>. QED BY <1>5, <1>6, <1>7 DEF LogInv

\* The operations on runs keep the log complete and operation ids unique.
LEMMA RunStepLog == TypeOK /\ LogInv /\ RunStep => LogInv'
<1>. SUFFICES ASSUME TypeOK, LogInv, RunStep PROVE LogInv'
     OBVIOUS
<1>1. ASSUME NEW r \in CreateIds, NEW owner \in Opt(HostIds), NEW parentRun \in Opt(RunIds),
             NEW hasParent \in Parented, NEW resumable \in Resumable,
             CreateRun(r, owner, parentRun, hasParent, resumable)
      PROVE  LogInv'
  <2>. DEFINE row == QueuedRow(owner, None, parentRun, r, hasParent, resumable)
  <2>1. /\ r \in RunIds /\ r \notin fresh
        /\ hasParent \in BOOLEAN /\ resumable \in BOOLEAN
        BY StoreAssumption DEF RunIds, TypeOK
  <2>2. row \in Row  BY <2>1, QueuedRowType DEF Opt
  <2>3. row.revision = 1 /\ row.lifecycle = "Queued"  BY DEF QueuedRow
  <2>4. ~Seen(CreateOp(r))
        BY <1>1, <2>1 DEF Seen, LogInv, OpsNamed, EventLogComplete, CreateRun
  <2>5. PICK q : event' = event \cup {[run |-> r, rev |-> row.revision, op |-> CreateOp(r),
                                       req |-> q, life |-> row.lifecycle]}
        BY <1>1, <2>3 DEF CreateRun, InsertEvent
  <2>6. EventLogComplete' /\ OperationAppliedOnce'
        BY <1>1, <2>1, <2>2, <2>3, <2>4, <2>5, AppendEvent DEF LogInv, CreateRun
  <2>7. OpsNamed'  BY <2>1, <2>5, OpsDistinct DEF LogInv, OpsNamed
  <2>8. FreshUnused'  BY <1>1, <2>1 DEF LogInv, FreshUnused, CreateRun, TypeOK, RunIds
  <2>. QED BY <2>6, <2>7, <2>8 DEF LogInv
<1>2. ASSUME NEW q \in TransitionRequests, NEW o \in OpIds, Transition(q, o)
      PROVE  LogInv'
  <2>1. q \in Request /\ q.arg \in Lifecycles
        BY StoreAssumption DEF TransitionRequests, Stored, Request, Opt
  <2>2. ClientOp(o) \in OperationIds  BY DEF OperationIds
  <2>3. \A r \in RunIds : ClientOp(o) # CreateOp(r) /\ ClientOp(o) # LegacyOp(r)
        BY OpsDistinct
  <2>. QED BY <1>2, <2>1, <2>2, <2>3, CommitLog DEF Transition
<1>3. ASSUME NEW prior \in RunIds, NEW r \in ResumeIds, NEW owner \in Opt(HostIds),
             NEW o \in OpIds, ResumeRun(prior, r, owner, o)
      PROVE  LogInv'
  <2>. DEFINE row == QueuedRow(owner, prior, run[prior].parentRun, run[prior].chain,
                               run[prior].parent, TRUE)
  <2>1. r \in RunIds /\ run[r] = None
        BY <1>3 DEF RunIds, ResumeRun, LogInv, FreshUnused
  <2>2. run[prior] \in Row  BY <1>3 DEF ResumeRun, TypeOK, Opt
  <2>3. row \in Row
    <3>1. /\ run[prior].parentRun \in Opt(RunIds)
          /\ run[prior].chain \in RunIds /\ run[prior].parent \in BOOLEAN
          BY <2>2 DEF Row
    <3>. QED BY <3>1, QueuedRowType DEF Opt
  <2>4. row.revision = 1 /\ row.lifecycle = "Queued"  BY DEF QueuedRow
  <2>5. PICK q : event' = event \cup {[run |-> r, rev |-> row.revision, op |-> ClientOp(o),
                                       req |-> q, life |-> row.lifecycle]}
        BY <1>3, <2>4 DEF ResumeRun, InsertEvent
  <2>6. EventLogComplete' /\ OperationAppliedOnce'
        BY <1>3, <2>1, <2>3, <2>4, <2>5, AppendEvent DEF LogInv, ResumeRun
  <2>7. OpsNamed'
    <3>. DEFINE x == [run |-> r, rev |-> row.revision, op |-> ClientOp(o), req |-> q,
                      life |-> row.lifecycle]
    <3>1. x.op = ClientOp(o)  OBVIOUS
    <3>. QED BY <2>5, <3>1, OpsDistinct, AppendNamed DEF LogInv
  <2>8. FreshUnused'  BY <1>3, <2>1 DEF LogInv, FreshUnused, ResumeRun, TypeOK, RunIds
  <2>. QED BY <2>6, <2>7, <2>8 DEF LogInv
<1>4. ASSUME NEW q \in TransferRequests, NEW o \in OpIds, TransferOwner(q, o)
      PROVE  LogInv'
  <2>. DEFINE row == [run[q.run] EXCEPT !.owner = q.arg, !.epoch = q.epoch + 1,
                                        !.revision = q.rev + 1]
  <2>1. /\ q.run \in RunIds /\ q.arg \in HostIds
        /\ q.epoch + 1 \in 0..MaxRevision /\ q.rev + 1 \in 1..MaxRevision
        BY <1>4, LifecycleFacts DEF TransferRequests, Stored, TransferOwner, Fits
  <2>2. run[q.run] \in Row /\ run[q.run] # None /\ q.rev = run[q.run].revision
        BY <1>4, <2>1 DEF TransferOwner, VerifyRevisionAndOwner, TypeOK, Opt
  <2>3. row \in Row /\ row.revision = q.rev + 1 /\ row.lifecycle = run[q.run].lifecycle
        BY <2>1, <2>2 DEF Row, Opt
  <2>4. run' = [run EXCEPT ![q.run] = row]  BY <1>4, <2>1 DEF TransferOwner, TypeOK
  <2>5. event' = event \cup {[run |-> q.run, rev |-> row.revision, op |-> ClientOp(o),
                              req |-> q, life |-> row.lifecycle]}
        BY <1>4, <2>3 DEF TransferOwner, InsertEvent
  <2>6. EventLogComplete' /\ OperationAppliedOnce'
    <3>1. ~Seen(ClientOp(o))  BY <1>4 DEF TransferOwner
    <3>2. row.revision = run[q.run].revision + 1  BY <2>2, <2>3
    <3>. QED BY <2>1, <2>2, <2>3, <2>4, <2>5, <3>1, <3>2, AppendEvent DEF LogInv
  <2>7. OpsNamed'  BY <2>5, OpsDistinct DEF LogInv, OpsNamed
  <2>8. FreshUnused'
        BY <1>4, <2>1, <2>2, <2>4 DEF LogInv, FreshUnused, TransferOwner, TypeOK, RunIds
  <2>. QED BY <2>6, <2>7, <2>8 DEF LogInv
<1>5. ASSUME NEW r \in LegacyIds, NEW life \in LegacyOutcomes, ImportLegacyOne(r, life)
      PROVE  LogInv'
  <2>. DEFINE base == QueuedRow(None, None, None, r, TRUE, FALSE)
              row == [base EXCEPT !.lifecycle = life]
  <2>1. r \in RunIds /\ r \notin fresh /\ life \in Lifecycles
        BY StoreAssumption, LifecycleFacts DEF RunIds, TypeOK
  <2>2. base \in Row  BY <2>1, QueuedRowType DEF Opt
  <2>3. row \in Row  BY <2>1, <2>2 DEF Row
  <2>4. row.revision = 1 /\ row.lifecycle = life  BY DEF QueuedRow
  <2>5. ~Seen(LegacyOp(r))
        BY <1>5, <2>1 DEF Seen, LogInv, OpsNamed, EventLogComplete, ImportLegacyOne
  <2>6. PICK q : event' = event \cup {[run |-> r, rev |-> row.revision, op |-> LegacyOp(r),
                                       req |-> q, life |-> row.lifecycle]}
        BY <1>5, <2>4 DEF ImportLegacyOne, InsertEvent
  <2>7. EventLogComplete' /\ OperationAppliedOnce'
        BY <1>5, <2>1, <2>3, <2>4, <2>5, <2>6, AppendEvent DEF LogInv, ImportLegacyOne
  <2>8. OpsNamed'
    <3>. DEFINE x == [run |-> r, rev |-> row.revision, op |-> LegacyOp(r), req |-> q,
                      life |-> row.lifecycle]
    <3>1. x.op = LegacyOp(r) /\ x.run = r  OBVIOUS
    <3>2. \A s \in RunIds : x.op = CreateOp(s) \/ x.op = LegacyOp(s) => x.run = s
          BY <3>1, OpsDistinct
    <3>. QED BY <2>6, <3>2, AppendNamed DEF LogInv
  <2>9. FreshUnused'  BY <1>5, <2>1 DEF LogInv, FreshUnused, ImportLegacyOne, TypeOK, RunIds
  <2>. QED BY <2>7, <2>8, <2>9 DEF LogInv
<1>. QED BY <1>1, <1>2, <1>3, <1>4, <1>5 DEF RunStep

\* The steps of a reconciler keep the log: it writes only by transitions.
LEMMA ReconcileStepLog == TypeInv /\ LogInv /\ ReconcileStep => LogInv'
<1>. SUFFICES ASSUME TypeOK, PassRequests, LogInv, NEW p \in Reconcilers,
                     \/ ScanStaleHosts(p) \/ AbortPass(p)
                     \/ \E h \in HostIds : VerifyGone(p, h) \/ VerifyNotGone(p, h)
                     \/ \E q \in pass[p].todo : InterruptRun(p, q) \/ SkipRun(p, q)
              PROVE  LogInv'
     BY DEF TypeInv, ReconcileStep
<1>1. ASSUME NEW q \in pass[p].todo, InterruptRun(p, q)  PROVE LogInv'
  <2>1. q \in Request /\ q.arg \in Lifecycles /\ q.owner \in HostIds
        BY LifecycleFacts DEF PassRequests, TypeOK, Pass
  <2>2. ReconcileOpOf(q) \in OperationIds
        BY <2>1 DEF ReconcileOpOf, OperationIds, Request
  <2>3. \A r \in RunIds : ReconcileOpOf(q) # CreateOp(r) /\ ReconcileOpOf(q) # LegacyOp(r)
        BY OpsDistinct DEF ReconcileOpOf
  <2>. QED BY <1>1, <2>1, <2>2, <2>3, CommitLog DEF InterruptRun
<1>2. ASSUME UNCHANGED <<run, event, fresh>>  PROVE LogInv'
      BY <1>2 DEF LogInv, FreshUnused, EventLogComplete, OpsNamed, OperationAppliedOnce, Stored
<1>. QED BY <1>1, <1>2
         DEF ScanStaleHosts, AbortPass, VerifyGone, VerifyNotGone, SkipRun, table

\* Deleting runs deletes exactly their events.
LEMMA CompactLog == TypeOK /\ LogInv /\ CompactSome => LogInv'
<1>. SUFFICES ASSUME TypeOK, LogInv, NEW ds, NEW rs, NEW cs, NEW hs, Compact(ds, rs, cs, hs)
              PROVE  LogInv'
     BY DEF CompactSome
<1>1. /\ \A r \in RunIds : run'[r] = IF r \in rs THEN None ELSE run[r]
      /\ event' = {e \in event : e.run \notin rs}
      /\ fresh' = fresh
      BY DEF Compact, RemainingEvents
<1>2. \A e \in event : e.run \in RunIds  BY DEF TypeOK, Event
<1>3. FreshUnused'  BY <1>1 DEF LogInv, FreshUnused, TypeOK, RunIds
<1>4. OpsNamed' /\ OperationAppliedOnce'
      BY <1>1 DEF LogInv, OpsNamed, OperationAppliedOnce
<1>5. EventLogComplete'
  <2>1. \A r \in Stored' : r \in Stored /\ r \notin rs /\ run'[r] = run[r]
        BY <1>1 DEF Stored
  <2>2. \A e \in event' : e \in event /\ e.run \in RunIds /\ run'[e.run] = run[e.run]
        BY <1>1, <1>2
  <2>3. \A r \in Stored' : \A n \in 1..run'[r].revision : \E e \in event' : e.run = r /\ e.rev = n
        BY <1>1, <2>1 DEF LogInv, EventLogComplete
  <2>. QED BY <2>2, <2>3 DEF LogInv, EventLogComplete
<1>. QED BY <1>3, <1>4, <1>5 DEF LogInv

\* Every step keeps the inductive invariant.
LEMMA NextLog == TypeInv /\ LogInv /\ [Next]_vars => LogInv'
<1>. SUFFICES ASSUME TypeInv, LogInv, [Next]_vars PROVE LogInv'
     OBVIOUS
<1>1. ASSUME UNCHANGED <<run, event, fresh>>  PROVE LogInv'
      BY <1>1 DEF LogInv, FreshUnused, EventLogComplete, OpsNamed, OperationAppliedOnce, Stored
<1>2. CASE HostStep
      BY <1>1, <1>2 DEF HostStep, RegisterHost, HeartbeatHost, HeartbeatAges, ShutdownHost,
                        ProcessExit, table
<1>3. CASE OutboxStep
      BY <1>1, <1>3 DEF OutboxStep, MarkOutboxDelivered, AcknowledgeOutbox, DeadLetterOutbox
<1>4. CASE UNCHANGED vars  BY <1>1, <1>4 DEF vars
<1>. QED BY <1>2, <1>3, <1>4, RunStepLog, ReconcileStepLog, CompactLog DEF Next, TypeInv

\* The invariant the theorems rest on holds throughout.
THEOREM StoreInvariant == Spec => [](TypeInv /\ LogInv)
<1>1. Init => TypeInv
      BY LifecycleFacts DEF Init, TypeInv, TypeOK, PassRequests, Opt, Host, Pass, IdlePass
<1>2. Init => LogInv
      BY DEF Init, LogInv, FreshUnused, EventLogComplete, OpsNamed, OperationAppliedOnce, Stored,
             RunIds
<1>. QED BY <1>1, <1>2, NextType, NextLog, PTL DEF Spec

\* The event log of every stored run is complete: one event per revision, no gap
\* and no leftover, under any interleaving of writers, reconcilers and
\* compactions.
THEOREM StoreLogComplete == Spec => []EventLogComplete
<1>1. LogInv => EventLogComplete  BY DEF LogInv
<1>. QED BY <1>1, StoreInvariant, PTL

\* No two stored events of the project carry the same operation id.
THEOREM StoreOperationOnce == Spec => []OperationAppliedOnce
<1>1. LogInv => OperationAppliedOnce  BY DEF LogInv
<1>. QED BY <1>1, StoreInvariant, PTL
-----------------------------------------------------------------------------
(* Terminal runs.                                                          *)

TerminalKept == \A r \in Stored : run[r].lifecycle \in Terminal => run'[r] \in {run[r], None}

\* A change of one row that had no terminal run in it keeps the terminal rows.
LEMMA OneRowKept ==
    ASSUME TypeOK, NEW s \in RunIds, NEW row, run' = [run EXCEPT ![s] = row],
           run[s] = None \/ run[s].lifecycle \notin Terminal
    PROVE  TerminalKept
BY DEF TerminalKept, Stored, TypeOK

\* A transition is admitted only from a state that is not terminal.
LEMMA CommitKeeps ==
    ASSUME TypeOK, NEW q \in Request, NEW op, Commit(q, op)
    PROVE  TerminalKept
<1>1. q.run \in RunIds  BY DEF Request
<1>2. run' = [run EXCEPT ![q.run] = [run[q.run] EXCEPT !.lifecycle = q.arg,
                                                       !.revision = q.rev + 1]]
      BY <1>1 DEF Commit, TypeOK
<1>3. run[q.run].lifecycle \notin Terminal  BY DEF Commit, Admits, CanTransitionTo
<1>. QED BY <1>1, <1>2, <1>3, OneRowKept

\* No operation of the store rewrites a terminal row.
LEMMA StepKeepsTerminal == TypeInv /\ LogInv /\ [Next]_vars => TerminalKept
<1>. SUFFICES ASSUME TypeOK, PassRequests, LogInv, [Next]_vars PROVE TerminalKept
     BY DEF TypeInv
<1>1. ASSUME UNCHANGED run  PROVE TerminalKept  BY <1>1 DEF TerminalKept
<1>2. ASSUME RunStep  PROVE TerminalKept
  <2>1. ASSUME NEW r \in CreateIds, NEW owner, NEW parentRun, NEW hasParent, NEW resumable,
               CreateRun(r, owner, parentRun, hasParent, resumable)
        PROVE  TerminalKept
        BY <2>1, OneRowKept DEF CreateRun, RunIds
  <2>2. ASSUME NEW q \in TransitionRequests, NEW o \in OpIds, Transition(q, o)
        PROVE  TerminalKept
    <3>1. q \in Request  BY StoreAssumption DEF TransitionRequests, Stored, Request, Opt
    <3>. QED BY <2>2, <3>1, CommitKeeps DEF Transition
  <2>3. ASSUME NEW prior \in RunIds, NEW r \in ResumeIds, NEW owner, NEW o,
               ResumeRun(prior, r, owner, o)
        PROVE  TerminalKept
        BY <2>3, OneRowKept DEF ResumeRun, RunIds, LogInv, FreshUnused
  <2>4. ASSUME NEW q \in TransferRequests, NEW o \in OpIds, TransferOwner(q, o)
        PROVE  TerminalKept
    <3>1. q.run \in RunIds  BY DEF TransferRequests, Stored
    <3>2. run' = [run EXCEPT ![q.run] = [run[q.run] EXCEPT !.owner = q.arg,
                                            !.epoch = q.epoch + 1, !.revision = q.rev + 1]]
          BY <2>4, <3>1 DEF TransferOwner, TypeOK
    <3>. QED BY <2>4, <3>1, <3>2, OneRowKept DEF TransferOwner
  <2>5. ASSUME NEW r \in LegacyIds, NEW life, ImportLegacyOne(r, life)  PROVE TerminalKept
        BY <2>5, OneRowKept DEF ImportLegacyOne, RunIds
  <2>. QED BY <1>2, <2>1, <2>2, <2>3, <2>4, <2>5 DEF RunStep
<1>3. ASSUME ReconcileStep  PROVE TerminalKept
  <2>1. ASSUME NEW p \in Reconcilers, NEW q \in pass[p].todo, InterruptRun(p, q)
        PROVE  TerminalKept
    <3>1. q \in Request  BY DEF TypeOK, Pass
    <3>. QED BY <2>1, <3>1, CommitKeeps DEF InterruptRun
  <2>. QED BY <1>1, <1>3, <2>1
           DEF ReconcileStep, ScanStaleHosts, AbortPass, VerifyGone, VerifyNotGone, SkipRun, table
<1>4. ASSUME CompactSome  PROVE TerminalKept
      BY <1>4 DEF CompactSome, Compact, TerminalKept, Stored
<1>5. ASSUME HostStep  PROVE TerminalKept
      BY <1>1, <1>5 DEF HostStep, RegisterHost, HeartbeatHost, HeartbeatAges, ShutdownHost,
                        ProcessExit, table
<1>6. ASSUME OutboxStep  PROVE TerminalKept
      BY <1>1, <1>6 DEF OutboxStep, MarkOutboxDelivered, AcknowledgeOutbox, DeadLetterOutbox
<1>7. CASE UNCHANGED vars  BY <1>1, <1>7 DEF vars
<1>. QED BY <1>2, <1>3, <1>4, <1>5, <1>6, <1>7 DEF Next

\* A run that has ended is never changed again, by whomever and after whatever
\* retries, transfers and reconciliations; it can only be pruned.
THEOREM StoreTerminalImmutable == Spec => TerminalImmutable
<1>1. TypeInv /\ LogInv /\ [Next]_vars => [TerminalKept]_vars  BY StepKeepsTerminal
<1>2. Spec => [][TerminalKept]_vars  BY <1>1, StoreInvariant, PTL DEF Spec
<1>. QED BY <1>2 DEF TerminalImmutable, TerminalKept
-----------------------------------------------------------------------------
(* Attempts.                                                               *)

\* The attempt a row continues, as long as the row is stored.
Continues(row, s) ==
    row.pred # None =>
        /\ row.pred \in Stored /\ row.pred # s
        /\ run[row.pred].lifecycle \in Terminal /\ run[row.pred].chain = row.chain

\* Inductive form of AttemptsFollowTerminal: the earlier attempt is still stored, or
\* its id could be created anew, as a run that has not ended.
AttemptInv == \A r \in Stored : Continues(run[r], r)

\* Writing one row that was absent or active, under a row that continues an ended
\* attempt, disturbs no other attempt: nobody continues an absent or active run.
LEMMA OneRowContinues ==
    ASSUME TypeOK, AttemptInv, NEW s \in RunIds, NEW row, run' = [run EXCEPT ![s] = row],
           row # None, run[s] = None \/ run[s].lifecycle \notin Terminal, Continues(row, s)
    PROVE  AttemptInv'
<1>1. \A r \in RunIds : run'[r] = IF r = s THEN row ELSE run[r]  BY DEF TypeOK
<1>2. Stored' = Stored \cup {s}  BY <1>1 DEF Stored
<1>3. \A r \in Stored : run[r].pred # None => run[r].pred # s
      BY DEF AttemptInv, Continues, Stored
<1>4. Stored \subseteq RunIds  BY DEF Stored
<1>. QED BY <1>1, <1>2, <1>3, <1>4 DEF AttemptInv, Continues

\* A transition leaves the predecessor and the chain of its row alone.
LEMMA CommitContinues ==
    ASSUME TypeOK, AttemptInv, NEW q \in Request, q.arg \in Lifecycles, NEW op, Commit(q, op)
    PROVE  AttemptInv'
<1>. DEFINE row == [run[q.run] EXCEPT !.lifecycle = q.arg, !.revision = q.rev + 1]
<1>1. q.run \in RunIds /\ run[q.run] \in Row /\ q.run \in Stored
      BY DEF Request, Commit, Admits, TypeOK, Opt, Stored
<1>2. run' = [run EXCEPT ![q.run] = row]  BY <1>1 DEF Commit, TypeOK
<1>3. row.pred = run[q.run].pred /\ row.chain = run[q.run].chain  BY <1>1 DEF Row
<1>4. row \in Row
  <2>1. q.rev + 1 \in 1..MaxRevision  BY LifecycleFacts DEF Commit, Fits, Request
  <2>. QED BY <1>1, <2>1 DEF Row
<1>5. Continues(row, q.run)  BY <1>1, <1>3 DEF AttemptInv, Continues
<1>6. run[q.run].lifecycle \notin Terminal  BY DEF Commit, Admits, CanTransitionTo
<1>. QED BY <1>1, <1>2, <1>4, <1>5, <1>6, OneRowContinues, RowAssumption

\* Every step keeps the attempts; compaction spares a run that another one continues.
LEMMA NextAttempts == TypeInv /\ LogInv /\ AttemptInv /\ [Next]_vars => AttemptInv'
<1>. SUFFICES ASSUME TypeOK, PassRequests, LogInv, AttemptInv, [Next]_vars PROVE AttemptInv'
     BY DEF TypeInv
<1>1. ASSUME UNCHANGED run  PROVE AttemptInv'
      BY <1>1 DEF AttemptInv, Continues, Stored
<1>2. ASSUME RunStep  PROVE AttemptInv'
  <2>1. ASSUME NEW r \in CreateIds, NEW owner \in Opt(HostIds), NEW parentRun \in Opt(RunIds),
               NEW hasParent \in Parented, NEW resumable \in Resumable,
               CreateRun(r, owner, parentRun, hasParent, resumable)
        PROVE  AttemptInv'
    <3>. DEFINE row == QueuedRow(owner, None, parentRun, r, hasParent, resumable)
    <3>1. r \in RunIds /\ hasParent \in BOOLEAN /\ resumable \in BOOLEAN
          BY StoreAssumption DEF RunIds
    <3>2. row \in Row  BY <3>1, QueuedRowType DEF Opt
    <3>3. row.pred = None  BY DEF QueuedRow
    <3>. QED BY <2>1, <3>1, <3>2, <3>3, OneRowContinues, RowAssumption DEF CreateRun, Continues
  <2>2. ASSUME NEW q \in TransitionRequests, NEW o \in OpIds, Transition(q, o)
        PROVE  AttemptInv'
    <3>1. q \in Request /\ q.arg \in Lifecycles
          BY StoreAssumption DEF TransitionRequests, Stored, Request, Opt
    <3>. QED BY <2>2, <3>1, CommitContinues DEF Transition
  <2>3. ASSUME NEW prior \in RunIds, NEW r \in ResumeIds, NEW owner \in Opt(HostIds),
               NEW o \in OpIds, ResumeRun(prior, r, owner, o)
        PROVE  AttemptInv'
    <3>. DEFINE row == QueuedRow(owner, prior, run[prior].parentRun, run[prior].chain,
                                 run[prior].parent, TRUE)
    <3>1. r \in RunIds /\ run[r] = None
          BY <2>3 DEF RunIds, ResumeRun, LogInv, FreshUnused
    <3>2. run[prior] \in Row /\ prior \in Stored
          BY <2>3 DEF ResumeRun, TypeOK, Opt, Stored
    <3>3. row \in Row
      <4>1. /\ run[prior].parentRun \in Opt(RunIds)
            /\ run[prior].chain \in RunIds /\ run[prior].parent \in BOOLEAN
            BY <3>2 DEF Row
      <4>. QED BY <4>1, QueuedRowType DEF Opt
    <3>4. row.pred = prior /\ row.chain = run[prior].chain  BY DEF QueuedRow
    <3>5. Continues(row, r)
          BY <2>3, <3>1, <3>2, <3>4 DEF Continues, ResumeRun, ResumeAllowed, Stored
    <3>. QED BY <2>3, <3>1, <3>3, <3>5, OneRowContinues, RowAssumption DEF ResumeRun
  <2>4. ASSUME NEW q \in TransferRequests, NEW o \in OpIds, TransferOwner(q, o)
        PROVE  AttemptInv'
    <3>. DEFINE row == [run[q.run] EXCEPT !.owner = q.arg, !.epoch = q.epoch + 1,
                                          !.revision = q.rev + 1]
    <3>1. /\ q.run \in RunIds /\ q.arg \in HostIds
          /\ q.epoch + 1 \in 0..MaxRevision /\ q.rev + 1 \in 1..MaxRevision
          BY <2>4, LifecycleFacts DEF TransferRequests, Stored, TransferOwner, Fits
    <3>2. run[q.run] \in Row /\ q.run \in Stored
          BY <2>4, <3>1 DEF TransferOwner, TypeOK, Opt, Stored
    <3>3. /\ row \in Row /\ row.pred = run[q.run].pred /\ row.chain = run[q.run].chain
          BY <3>1, <3>2 DEF Row, Opt
    <3>4. run' = [run EXCEPT ![q.run] = row]  BY <2>4, <3>1 DEF TransferOwner, TypeOK
    <3>5. Continues(row, q.run)  BY <3>2, <3>3 DEF AttemptInv, Continues
    <3>. QED BY <2>4, <3>1, <3>3, <3>4, <3>5, OneRowContinues, RowAssumption DEF TransferOwner
  <2>5. ASSUME NEW r \in LegacyIds, NEW life \in LegacyOutcomes, ImportLegacyOne(r, life)
        PROVE  AttemptInv'
    <3>. DEFINE base == QueuedRow(None, None, None, r, TRUE, FALSE)
                row == [base EXCEPT !.lifecycle = life]
    <3>1. r \in RunIds /\ life \in Lifecycles  BY LifecycleFacts DEF RunIds
    <3>2. base \in Row  BY <3>1, QueuedRowType DEF Opt
    <3>3. row \in Row  BY <3>1, <3>2 DEF Row
    <3>4. row.pred = None  BY DEF QueuedRow
    <3>. QED BY <2>5, <3>1, <3>3, <3>4, OneRowContinues, RowAssumption
             DEF ImportLegacyOne, Continues
  <2>. QED BY <1>2, <2>1, <2>2, <2>3, <2>4, <2>5 DEF RunStep
<1>3. ASSUME ReconcileStep  PROVE AttemptInv'
  <2>1. ASSUME NEW p \in Reconcilers, NEW q \in pass[p].todo, InterruptRun(p, q)
        PROVE  AttemptInv'
    <3>1. q \in Request /\ q.arg \in Lifecycles
          BY LifecycleFacts DEF PassRequests, TypeOK, Pass
    <3>. QED BY <2>1, <3>1, CommitContinues DEF InterruptRun
  <2>. QED BY <1>1, <1>3, <2>1
           DEF ReconcileStep, ScanStaleHosts, AbortPass, VerifyGone, VerifyNotGone, SkipRun, table
<1>4. ASSUME CompactSome  PROVE AttemptInv'
  <2>1. PICK ds, rs, cs, hs : /\ rs \subseteq PrunableRuns(outbox \ ds)
                              /\ Compact(ds, rs, cs, hs)
        BY <1>4 DEF CompactSome
  <2>2. \A r \in RunIds : run'[r] = IF r \in rs THEN None ELSE run[r]
        BY <2>1 DEF Compact
  <2>3. \A s \in Stored : run[s].pred \notin rs  BY <2>1 DEF PrunableRuns
  <2>4. Stored' = Stored \ rs  BY <2>2 DEF Stored
  <2>5. Stored \subseteq RunIds  BY DEF Stored
  <2>. QED BY <2>2, <2>3, <2>4, <2>5 DEF AttemptInv, Continues
<1>5. ASSUME HostStep  PROVE AttemptInv'
      BY <1>1, <1>5 DEF HostStep, RegisterHost, HeartbeatHost, HeartbeatAges, ShutdownHost,
                        ProcessExit, table
<1>6. ASSUME OutboxStep  PROVE AttemptInv'
      BY <1>1, <1>6 DEF OutboxStep, MarkOutboxDelivered, AcknowledgeOutbox, DeadLetterOutbox
<1>7. CASE UNCHANGED vars  BY <1>1, <1>7 DEF vars
<1>. QED BY <1>2, <1>3, <1>4, <1>5, <1>6, <1>7 DEF Next

\* A resumed attempt always continues a run of its own chain that has ended: no
\* compaction prunes the earlier run while the attempt is stored, so its id cannot be
\* created anew, and no late transition revives it.
THEOREM StoreAttempts == Spec => []AttemptsFollowTerminal
<1>1. Init => AttemptInv  BY DEF Init, AttemptInv, Stored
<1>2. AttemptInv => AttemptsFollowTerminal
      BY StoreAssumption DEF AttemptInv, Continues, AttemptsFollowTerminal, Stored
<1>3. Spec => []AttemptInv  BY <1>1, NextAttempts, StoreInvariant, PTL DEF Spec
<1>. QED BY <1>2, <1>3, PTL

-----------------------------------------------------------------------------
(* The forms of a step.                                                    *)

\* create_run, resume_run and import_legacy_one insert the first revision of a run
\* that is not stored, under references that resolve.
Inserted(r, row, op, q) ==
    /\ r \in RunIds /\ row \in Row /\ run[r] = None /\ row.revision = 1
    /\ run' = [run EXCEPT ![r] = row]
    /\ event' = event \cup {[run |-> r, rev |-> 1, op |-> op, req |-> q, life |-> row.lifecycle]}
    /\ InsertOutboxIfParent(r, row.parent, 1, row.lifecycle)
    /\ chain \subseteq chain' /\ row.chain \in chain'
    /\ row.pred \in Opt(Stored) /\ row.parentRun \in Opt(Stored)
    /\ RequireLiveHost(row.owner)
    /\ q.kind \notin {"transition", "transfer"}
    /\ \A s, h, e : op # ReconcileOp(s, h, e)
    /\ UNCHANGED <<host, pass, closed>>

\* A transition moves a stored run; only a reconciler uses its operation ids.
Moved(q, op) ==
    /\ q \in Request /\ q.kind = "transition" /\ q.arg \in Lifecycles
    /\ Commit(q, op)
    /\ \/ \A s, h, e : op # ReconcileOp(s, h, e)
       \/ \E p \in Reconcilers : q \in pass[p].todo
    /\ UNCHANGED <<chain, host, closed>>

\* transfer_owner.
Transferred(q, o) == q \in TransferRequests /\ TransferOwner(q, o)

\* The row that a transition leaves.
MovedRow(q) == [run[q.run] EXCEPT !.lifecycle = q.arg, !.revision = q.rev + 1]

\* The row that a transfer leaves.
TransferredRow(q) ==
    [run[q.run] EXCEPT !.owner = q.arg, !.epoch = q.epoch + 1, !.revision = q.rev + 1]

\* The parts of ReferencesResolve.
RowResolves(row) ==
    /\ row.chain \in chain
    /\ row.pred # None => row.pred \in Stored
    /\ row.parentRun # None => row.parentRun \in Stored
    /\ row.owner # None => host[row.owner].row \in {"live", "shutdown"}

\* Reconciliation's operation ids are neither the clients' nor those of inserts.
LEMMA ReconcileOpsDistinct ==
    /\ \A r, s, h, e : CreateOp(r) # ReconcileOp(s, h, e)
    /\ \A r, s, h, e : LegacyOp(r) # ReconcileOp(s, h, e)
    /\ \A o, s, h, e : ClientOp(o) # ReconcileOp(s, h, e)
BY DEF CreateOp, LegacyOp, ClientOp, ReconcileOp

\* An insert is one of the forms.
LEMMA InsertForm ==
    ASSUME TypeOK, LogInv, ReferencesResolve,
           \/ \E r \in CreateIds, owner \in Opt(HostIds), parentRun \in Opt(RunIds),
                 hasParent \in Parented, resumable \in Resumable :
                   CreateRun(r, owner, parentRun, hasParent, resumable)
           \/ \E prior \in RunIds, r \in ResumeIds, owner \in Opt(HostIds), o \in OpIds :
                   ResumeRun(prior, r, owner, o)
           \/ \E r \in LegacyIds, life \in LegacyOutcomes : ImportLegacyOne(r, life)
    PROVE  \E r, row, op, q : Inserted(r, row, op, q)
<1>1. ASSUME NEW r \in CreateIds, NEW owner \in Opt(HostIds), NEW parentRun \in Opt(RunIds),
             NEW hasParent \in Parented, NEW resumable \in Resumable,
             CreateRun(r, owner, parentRun, hasParent, resumable)
      PROVE  \E rr, row, op, q : Inserted(rr, row, op, q)
  <2>. DEFINE row == QueuedRow(owner, None, parentRun, r, hasParent, resumable)
              q == [kind |-> "create", run |-> r, rev |-> 0, owner |-> None,
                    epoch |-> 0, arg |-> None]
  <2>1. r \in RunIds /\ hasParent \in BOOLEAN /\ resumable \in BOOLEAN
        BY StoreAssumption DEF RunIds
  <2>2. row \in Row  BY <2>1, QueuedRowType DEF Opt
  <2>3. /\ row.revision = 1 /\ row.lifecycle = "Queued" /\ row.owner = owner
        /\ row.pred = None /\ row.parentRun = parentRun /\ row.chain = r
        /\ row.parent = hasParent
        BY DEF QueuedRow
  <2>4. "Queued" \notin Notifiable  BY DEF Notifiable, Terminal
  <2>5. InsertOutboxIfParent(r, row.parent, 1, row.lifecycle)
        BY <1>1, <2>3, <2>4 DEF CreateRun, InsertOutboxIfParent
  <2>6. q.kind = "create"  OBVIOUS
  <2>7. event' = event \cup {[run |-> r, rev |-> 1, op |-> CreateOp(r), req |-> q,
                              life |-> row.lifecycle]}
        BY <1>1, <2>3 DEF CreateRun, InsertEvent
  <2>8. /\ run[r] = None /\ run' = [run EXCEPT ![r] = row] /\ chain' = chain \cup {r}
        /\ parentRun \in Opt(Stored) /\ RequireLiveHost(owner)
        /\ UNCHANGED <<host, pass, closed>>
        BY <1>1 DEF CreateRun
  <2>9. None \in Opt(Stored)  BY DEF Opt
  <2>. HIDE DEF row, q
  <2>10. Inserted(r, row, CreateOp(r), q)
        BY <2>1, <2>2, <2>3, <2>5, <2>6, <2>7, <2>8, <2>9, ReconcileOpsDistinct DEF Inserted
  <2>. QED BY <2>10
<1>2. ASSUME NEW prior \in RunIds, NEW r \in ResumeIds, NEW owner \in Opt(HostIds),
             NEW o \in OpIds, ResumeRun(prior, r, owner, o)
      PROVE  \E rr, row, op, q : Inserted(rr, row, op, q)
  <2>. DEFINE row == QueuedRow(owner, prior, run[prior].parentRun, run[prior].chain,
                               run[prior].parent, TRUE)
              q == [kind |-> "resume", run |-> prior, rev |-> run[prior].revision,
                    owner |-> owner, epoch |-> 0, arg |-> None]
  <2>1. r \in RunIds /\ run[r] = None
        BY <1>2 DEF RunIds, ResumeRun, LogInv, FreshUnused
  <2>2. run[prior] \in Row /\ prior \in Stored
        BY <1>2 DEF ResumeRun, TypeOK, Opt, Stored
  <2>3. /\ run[prior].parentRun \in Opt(RunIds)
        /\ run[prior].chain \in RunIds /\ run[prior].parent \in BOOLEAN
        BY <2>2 DEF Row
  <2>4. row \in Row  BY <2>3, QueuedRowType DEF Opt
  <2>5. /\ row.revision = 1 /\ row.lifecycle = "Queued" /\ row.owner = owner
        /\ row.pred = prior /\ row.parentRun = run[prior].parentRun
        /\ row.chain = run[prior].chain
        BY DEF QueuedRow
  <2>6. row.pred \in Opt(Stored) /\ row.parentRun \in Opt(Stored) /\ row.chain \in chain
        BY <2>2, <2>5 DEF ReferencesResolve, Opt
  <2>7. "Queued" \notin Notifiable  BY DEF Notifiable, Terminal
  <2>8. InsertOutboxIfParent(r, row.parent, 1, row.lifecycle)
        BY <1>2, <2>5, <2>7 DEF ResumeRun, InsertOutboxIfParent
  <2>9. q.kind = "resume"  OBVIOUS
  <2>10. event' = event \cup {[run |-> r, rev |-> 1, op |-> ClientOp(o), req |-> q,
                               life |-> row.lifecycle]}
        BY <1>2, <2>5 DEF ResumeRun, InsertEvent
  <2>11. /\ run' = [run EXCEPT ![r] = row] /\ chain' = chain
         /\ RequireLiveHost(owner) /\ UNCHANGED <<host, pass, closed>>
        BY <1>2 DEF ResumeRun
  <2>. HIDE DEF row, q
  <2>12. Inserted(r, row, ClientOp(o), q)
        BY <2>1, <2>4, <2>5, <2>6, <2>8, <2>9, <2>10, <2>11, ReconcileOpsDistinct DEF Inserted
  <2>. QED BY <2>12
<1>3. ASSUME NEW r \in LegacyIds, NEW life \in LegacyOutcomes, ImportLegacyOne(r, life)
      PROVE  \E rr, row, op, q : Inserted(rr, row, op, q)
  <2>. DEFINE base == QueuedRow(None, None, None, r, TRUE, FALSE)
              row == [base EXCEPT !.lifecycle = life]
              q == [kind |-> "legacy", run |-> r, rev |-> 0, owner |-> None,
                    epoch |-> 0, arg |-> None]
  <2>1. r \in RunIds /\ life \in Lifecycles  BY LifecycleFacts DEF RunIds
  <2>2. base \in Row  BY <2>1, QueuedRowType DEF Opt
  <2>3. row \in Row  BY <2>1, <2>2 DEF Row
  <2>4. /\ row.revision = 1 /\ row.lifecycle = life /\ row.owner = None
        /\ row.pred = None /\ row.parentRun = None /\ row.chain = r /\ row.parent = TRUE
        BY DEF QueuedRow
  <2>5. InsertOutboxIfParent(r, row.parent, 1, row.lifecycle)
        BY <1>3, <2>4 DEF ImportLegacyOne
  <2>6. q.kind = "legacy"  OBVIOUS
  <2>7. event' = event \cup {[run |-> r, rev |-> 1, op |-> LegacyOp(r), req |-> q,
                              life |-> row.lifecycle]}
        BY <1>3, <2>4 DEF ImportLegacyOne, InsertEvent
  <2>8. /\ run[r] = None /\ run' = [run EXCEPT ![r] = row] /\ chain' = chain \cup {r}
        /\ UNCHANGED <<host, pass, closed>>
        BY <1>3 DEF ImportLegacyOne
  <2>9. None \in Opt(Stored) /\ RequireLiveHost(None)  BY DEF Opt, RequireLiveHost
  <2>. HIDE DEF row, q
  <2>10. Inserted(r, row, LegacyOp(r), q)
        BY <2>1, <2>3, <2>4, <2>5, <2>6, <2>7, <2>8, <2>9, ReconcileOpsDistinct DEF Inserted
  <2>. QED BY <2>10
<1>. QED BY <1>1, <1>2, <1>3

\* Every step inserts a run, moves one, transfers one, reports a delivery, compacts,
\* or leaves the tables alone.
LEMMA StepForms ==
    ASSUME TypeInv, LogInv, ReferencesResolve, [Next]_vars
    PROVE  \/ \E r, row, op, q : Inserted(r, row, op, q)
           \/ \E q, op : Moved(q, op)
           \/ \E q, o : Transferred(q, o)
           \/ OutboxStep
           \/ CompactSome
           \/ UNCHANGED <<table, closed>>
<1>. USE DEF TypeInv
<1>1. ASSUME RunStep
      PROVE  \/ \E r, row, op, q : Inserted(r, row, op, q)
             \/ \E q, op : Moved(q, op)
             \/ \E q, o : Transferred(q, o)
  <2>1. ASSUME NEW q \in TransitionRequests, NEW o \in OpIds, Transition(q, o)
        PROVE  Moved(q, ClientOp(o))
    <3>1. q \in Request /\ q.arg \in Lifecycles /\ q.kind = "transition"
          BY StoreAssumption DEF TransitionRequests, Stored, Request, Opt
    <3>. QED BY <2>1, <3>1, ReconcileOpsDistinct DEF Transition, Moved
  <2>. QED BY <1>1, <2>1, InsertForm DEF RunStep, Transferred
<1>2. ASSUME NEW p \in Reconcilers, NEW q \in pass[p].todo, InterruptRun(p, q)
      PROVE  Moved(q, ReconcileOpOf(q))
  <2>1. q \in Request /\ q.arg \in Lifecycles /\ q.kind = "transition"
        BY LifecycleFacts DEF PassRequests, TypeOK, Pass
  <2>. QED BY <1>2, <2>1 DEF InterruptRun, Moved
<1>3. ASSUME ReconcileStep
      PROVE  (\E q, op : Moved(q, op)) \/ UNCHANGED <<table, closed>>
      BY <1>2, <1>3
         DEF ReconcileStep, ScanStaleHosts, AbortPass, VerifyGone, VerifyNotGone, SkipRun, table
<1>4. ASSUME HostStep PROVE UNCHANGED <<table, closed>>
      BY <1>4 DEF HostStep, RegisterHost, HeartbeatHost, HeartbeatAges, ShutdownHost, ProcessExit
<1>5. ASSUME UNCHANGED vars PROVE UNCHANGED <<table, closed>>
      BY <1>5 DEF vars, table
<1>. QED BY <1>1, <1>3, <1>4, <1>5 DEF Next

\* The forms change one row.
LEMMA MovedFacts ==
    ASSUME TypeOK, NEW q, NEW op, Moved(q, op)
    PROVE  /\ q.run \in Stored /\ run[q.run] \in Row /\ MovedRow(q) \in Row
           /\ run' = [run EXCEPT ![q.run] = MovedRow(q)]
           /\ q.rev = run[q.run].revision /\ q.owner = run[q.run].owner
           /\ q.epoch = run[q.run].epoch /\ q.rev \in Nat
           /\ MovedRow(q).owner = run[q.run].owner /\ MovedRow(q).epoch = run[q.run].epoch
           /\ MovedRow(q).pred = run[q.run].pred /\ MovedRow(q).chain = run[q.run].chain
           /\ MovedRow(q).parentRun = run[q.run].parentRun
           /\ MovedRow(q).parent = run[q.run].parent
           /\ event' = event \cup {[run |-> q.run, rev |-> q.rev + 1, op |-> op, req |-> q,
                                    life |-> q.arg]}
<1>1. /\ q.run \in RunIds /\ run[q.run] \in Row /\ run[q.run] # None /\ q.run \in Stored
      /\ q.rev = run[q.run].revision /\ q.owner = run[q.run].owner
      /\ q.epoch = run[q.run].epoch
      /\ q.rev \in Nat /\ q.rev + 1 \in 1..MaxRevision
      BY LifecycleFacts
      DEF Moved, Commit, Admits, VerifyRevisionAndOwner, Fits, TypeOK, Request, Opt, Stored
<1>2. q.arg \in Lifecycles  BY DEF Moved
<1>3. MovedRow(q) \in Row  BY <1>1, <1>2 DEF Row, MovedRow
<1>4. /\ MovedRow(q).owner = run[q.run].owner /\ MovedRow(q).epoch = run[q.run].epoch
      /\ MovedRow(q).pred = run[q.run].pred /\ MovedRow(q).chain = run[q.run].chain
      /\ MovedRow(q).parentRun = run[q.run].parentRun
      /\ MovedRow(q).parent = run[q.run].parent
      BY <1>1 DEF Row, MovedRow
<1>5. run' = [run EXCEPT ![q.run] = MovedRow(q)]
      BY <1>1 DEF Moved, Commit, TypeOK, MovedRow
<1>. QED BY <1>1, <1>3, <1>4, <1>5 DEF Moved, Commit, InsertEvent

\* A transfer changes one row, and nothing but the row and the log.
LEMMA TransferredFacts ==
    ASSUME TypeOK, NEW q, NEW o, Transferred(q, o)
    PROVE  /\ q.run \in Stored /\ run[q.run] \in Row /\ TransferredRow(q) \in Row
           /\ run' = [run EXCEPT ![q.run] = TransferredRow(q)]
           /\ q.rev = run[q.run].revision /\ q.owner = run[q.run].owner
           /\ q.epoch = run[q.run].epoch /\ q.rev \in Nat /\ q.epoch \in Nat
           /\ q.kind = "transfer" /\ q.arg \in HostIds /\ host[q.arg].row = "live"
           /\ TransferredRow(q).owner = q.arg /\ TransferredRow(q).epoch = q.epoch + 1
           /\ TransferredRow(q).pred = run[q.run].pred
           /\ TransferredRow(q).chain = run[q.run].chain
           /\ TransferredRow(q).parentRun = run[q.run].parentRun
           /\ TransferredRow(q).parent = run[q.run].parent
           /\ event' = event \cup {[run |-> q.run, rev |-> q.rev + 1, op |-> ClientOp(o),
                                    req |-> q, life |-> run[q.run].lifecycle]}
           /\ UNCHANGED <<outbox, chain, host, pass, closed>>
<1>1. /\ q.run \in RunIds /\ q.arg \in HostIds /\ q.kind = "transfer"
      /\ q.rev \in Nat /\ q.epoch \in Nat
      /\ q.epoch + 1 \in 0..MaxRevision /\ q.rev + 1 \in 1..MaxRevision
      BY LifecycleFacts DEF Transferred, TransferRequests, Stored, TransferOwner, Fits
<1>2. /\ run[q.run] \in Row /\ run[q.run] # None /\ q.run \in Stored
      /\ q.rev = run[q.run].revision /\ q.owner = run[q.run].owner
      /\ q.epoch = run[q.run].epoch
      BY <1>1 DEF Transferred, TransferOwner, VerifyRevisionAndOwner, TypeOK, Opt, Stored
<1>3. TransferredRow(q) \in Row  BY <1>1, <1>2 DEF Row, Opt, TransferredRow
<1>4. /\ TransferredRow(q).owner = q.arg /\ TransferredRow(q).epoch = q.epoch + 1
      /\ TransferredRow(q).pred = run[q.run].pred
      /\ TransferredRow(q).chain = run[q.run].chain
      /\ TransferredRow(q).parentRun = run[q.run].parentRun
      /\ TransferredRow(q).parent = run[q.run].parent
      BY <1>2 DEF Row, TransferredRow
<1>5. run' = [run EXCEPT ![q.run] = TransferredRow(q)]
      BY <1>1 DEF Transferred, TransferOwner, TypeOK, TransferredRow
<1>6. host[q.arg].row = "live"
      BY <1>1, StoreAssumption DEF Transferred, TransferOwner, RequireLiveHost, Opt
<1>. QED BY <1>1, <1>2, <1>3, <1>4, <1>5, <1>6 DEF Transferred, TransferOwner, InsertEvent
-----------------------------------------------------------------------------
(* References.                                                             *)

\* Writing one row whose references resolve keeps the references of the runs.
LEMMA OneRowResolves ==
    ASSUME TypeOK, ReferencesResolve, NEW s \in RunIds, NEW row \in Row,
           run' = [run EXCEPT ![s] = row], chain \subseteq chain', UNCHANGED host,
           row.chain \in chain',
           row.pred \in Opt(Stored), row.parentRun \in Opt(Stored),
           row.owner # None => host[row.owner].row \in {"live", "shutdown"}
    PROVE  \A r \in Stored' : RowResolves(run[r])'
<1>1. \A r \in RunIds : run'[r] = IF r = s THEN row ELSE run[r]  BY DEF TypeOK
<1>2. Stored' = Stored \cup {s}  BY <1>1, RowAssumption DEF Stored
<1>3. Stored \subseteq RunIds  BY DEF Stored
<1>. QED BY <1>1, <1>2, <1>3 DEF ReferencesResolve, RowResolves, Opt

\* A delivery that comes with its event keeps the references of the outbox.
LEMMA OneDeliveryResolves ==
    ASSUME ReferencesResolve, NEW x, event' = event \cup {x}, NEW hasParent, NEW life,
           InsertOutboxIfParent(x.run, hasParent, x.rev, life)
    PROVE  \A d \in outbox' : \E e \in event' : e.run = d.run /\ e.rev = d.rev
BY DEF ReferencesResolve, InsertOutboxIfParent

\* Every step keeps the references; compaction deletes only what nothing names.
LEMMA NextReferences ==
    TypeInv /\ LogInv /\ ReferencesResolve /\ [Next]_vars => ReferencesResolve'
<1>. SUFFICES ASSUME TypeInv, TypeOK, LogInv, ReferencesResolve, [Next]_vars
              PROVE  /\ \A r \in Stored' : RowResolves(run[r])'
                     /\ \A d \in outbox' : \E e \in event' : e.run = d.run /\ e.rev = d.rev
     BY DEF TypeInv, RowResolves, ReferencesResolve
<1>1. ASSUME NEW r, NEW row, NEW op, NEW q, Inserted(r, row, op, q)
      PROVE  /\ \A s \in Stored' : RowResolves(run[s])'
             /\ \A d \in outbox' : \E e \in event' : e.run = d.run /\ e.rev = d.rev
  <2>1. row.owner # None => host[row.owner].row \in {"live", "shutdown"}
        BY <1>1 DEF Inserted, RequireLiveHost, Opt
  <2>2. \A s \in Stored' : RowResolves(run[s])'
        BY <1>1, <2>1, OneRowResolves DEF Inserted
  <2>. DEFINE x == [run |-> r, rev |-> 1, op |-> op, req |-> q, life |-> row.lifecycle]
  <2>3. x.run = r /\ x.rev = 1  OBVIOUS
  <2>4. event' = event \cup {x} /\ InsertOutboxIfParent(x.run, row.parent, x.rev, row.lifecycle)
        BY <1>1, <2>3 DEF Inserted
  <2>. HIDE DEF x
  <2>. QED BY <2>2, <2>4, OneDeliveryResolves
<1>2. ASSUME NEW q, NEW op, Moved(q, op)
      PROVE  /\ \A s \in Stored' : RowResolves(run[s])'
             /\ \A d \in outbox' : \E e \in event' : e.run = d.run /\ e.rev = d.rev
  <2>1. /\ q.run \in Stored /\ MovedRow(q) \in Row
        /\ run' = [run EXCEPT ![q.run] = MovedRow(q)]
        /\ MovedRow(q).owner = run[q.run].owner
        /\ MovedRow(q).pred = run[q.run].pred /\ MovedRow(q).chain = run[q.run].chain
        /\ MovedRow(q).parentRun = run[q.run].parentRun
        BY <1>2, MovedFacts
  <2>2. q.run \in RunIds /\ chain' = chain /\ host' = host
        BY <1>2, <2>1 DEF Moved, Stored
  <2>3. /\ MovedRow(q).chain \in chain
        /\ MovedRow(q).pred \in Opt(Stored) /\ MovedRow(q).parentRun \in Opt(Stored)
        /\ MovedRow(q).owner # None => host[MovedRow(q).owner].row \in {"live", "shutdown"}
        BY <2>1 DEF ReferencesResolve, Opt
  <2>4. \A s \in Stored' : RowResolves(run[s])'
        BY <2>1, <2>2, <2>3, OneRowResolves
  <2>. DEFINE x == [run |-> q.run, rev |-> q.rev + 1, op |-> op, req |-> q, life |-> q.arg]
  <2>5. x.run = q.run /\ x.rev = q.rev + 1  OBVIOUS
  <2>6. /\ event' = event \cup {x}
        /\ InsertOutboxIfParent(x.run, run[q.run].parent, x.rev, q.arg)
        BY <1>2, <2>5 DEF Moved, Commit, InsertEvent
  <2>. HIDE DEF x
  <2>. QED BY <2>4, <2>6, OneDeliveryResolves
<1>3. ASSUME NEW q, NEW o, Transferred(q, o)
      PROVE  /\ \A s \in Stored' : RowResolves(run[s])'
             /\ \A d \in outbox' : \E e \in event' : e.run = d.run /\ e.rev = d.rev
  <2>1. /\ q.run \in Stored /\ TransferredRow(q) \in Row
        /\ run' = [run EXCEPT ![q.run] = TransferredRow(q)]
        /\ TransferredRow(q).owner = q.arg /\ host[q.arg].row = "live"
        /\ TransferredRow(q).pred = run[q.run].pred
        /\ TransferredRow(q).chain = run[q.run].chain
        /\ TransferredRow(q).parentRun = run[q.run].parentRun
        /\ UNCHANGED <<outbox, chain, host>>
        /\ event \subseteq event'
        BY <1>3, TransferredFacts
  <2>2. q.run \in RunIds  BY <2>1 DEF Stored
  <2>3. /\ TransferredRow(q).chain \in chain
        /\ TransferredRow(q).pred \in Opt(Stored) /\ TransferredRow(q).parentRun \in Opt(Stored)
        BY <2>1 DEF ReferencesResolve, Opt
  <2>4. \A s \in Stored' : RowResolves(run[s])'
        BY <2>1, <2>2, <2>3, OneRowResolves
  <2>. QED BY <2>1, <2>4 DEF ReferencesResolve
<1>4. ASSUME OutboxStep
      PROVE  /\ \A s \in Stored' : RowResolves(run[s])'
             /\ \A d \in outbox' : \E e \in event' : e.run = d.run /\ e.rev = d.rev
  <2>1. UNCHANGED <<run, event, chain, host>>
        BY <1>4 DEF OutboxStep, MarkOutboxDelivered, AcknowledgeOutbox, DeadLetterOutbox
  <2>2. PICK d \in outbox, s \in OutboxStates : outbox' = (outbox \ {d}) \cup {[d EXCEPT !.state = s]}
        BY <1>4 DEF OutboxStep, MarkOutboxDelivered, AcknowledgeOutbox, DeadLetterOutbox, SetState,
               OutboxStates
  <2>3. [d EXCEPT !.state = s].run = d.run /\ [d EXCEPT !.state = s].rev = d.rev
        BY <2>2 DEF TypeOK, Delivery
  <2>. DEFINE x == [d EXCEPT !.state = s]
  <2>4. x.run = d.run /\ x.rev = d.rev /\ outbox' = (outbox \ {d}) \cup {x}  BY <2>2, <2>3
  <2>. HIDE DEF x
  <2>5. \A c \in outbox' : \E e \in event' : e.run = c.run /\ e.rev = c.rev
        BY <2>1, <2>2, <2>4 DEF ReferencesResolve
  <2>6. \A r \in Stored' : RowResolves(run[r])'
        BY <2>1 DEF ReferencesResolve, RowResolves, Stored
  <2>. QED BY <2>5, <2>6
<1>5. ASSUME CompactSome
      PROVE  /\ \A s \in Stored' : RowResolves(run[s])'
             /\ \A d \in outbox' : \E e \in event' : e.run = d.run /\ e.rev = d.rev
  <2>1. PICK ds, rs, cs, hs : /\ rs \subseteq PrunableRuns(outbox \ ds)
                              /\ cs \subseteq PrunableChains(Stored \ rs)
                              /\ hs \subseteq PrunableHosts(Stored \ rs)
                              /\ Compact(ds, rs, cs, hs)
        BY <1>5 DEF CompactSome
  <2>2. /\ \A r \in RunIds : run'[r] = IF r \in rs THEN None ELSE run[r]
        /\ event' = {e \in event : e.run \notin rs}
        /\ outbox' = outbox \ ds /\ chain' = chain \ cs
        /\ \A h \in HostIds : h \notin hs => host'[h] = host[h]
        BY <2>1 DEF Compact, RemainingEvents
  <2>3. Stored' = Stored \ rs /\ Stored \subseteq RunIds  BY <2>2 DEF Stored
  <2>4. \A r \in Stored \ rs : /\ run'[r] = run[r] /\ run[r].pred \notin rs
                               /\ run[r].parentRun \notin rs /\ run[r].chain \notin cs
                               /\ run[r].owner \notin hs
        BY <2>1, <2>2, <2>3 DEF PrunableRuns, PrunableChains, PrunableHosts
  <2>5. \A r \in Stored : run[r].owner \in Opt(HostIds)
        BY <2>3 DEF TypeOK, Opt, Row, Stored
  <2>6. \A r \in Stored' : RowResolves(run[r])'
        BY <2>2, <2>3, <2>4, <2>5 DEF ReferencesResolve, RowResolves, Opt
  <2>7. \A d \in outbox \ ds : d.run \notin rs  BY <2>1 DEF PrunableRuns
  <2>. QED BY <2>2, <2>6, <2>7 DEF ReferencesResolve
<1>6. ASSUME UNCHANGED <<table, closed>>
      PROVE  /\ \A s \in Stored' : RowResolves(run[s])'
             /\ \A d \in outbox' : \E e \in event' : e.run = d.run /\ e.rev = d.rev
  <2>1. \A h \in HostIds : host[h].row \in {"live", "shutdown"}
                              => host'[h].row \in {"live", "shutdown"} \/ CompactSome
    <3>1. ASSUME HostStep
          PROVE  \A h \in HostIds : host[h].row \in {"live", "shutdown"}
                                       => host'[h].row \in {"live", "shutdown"}
          BY <3>1 DEF HostStep, RegisterHost, HeartbeatHost, HeartbeatAges, ShutdownHost,
                      ProcessExit, TypeOK, Host
    <3>2. ASSUME RunStep \/ ReconcileStep \/ OutboxStep \/ UNCHANGED vars PROVE UNCHANGED host
          BY <3>2 DEF RunStep, CreateRun, Transition, ResumeRun, TransferOwner, ImportLegacyOne,
                      ReconcileStep, ScanStaleHosts, AbortPass, VerifyGone, VerifyNotGone,
                      InterruptRun, SkipRun, OutboxStep, MarkOutboxDelivered, AcknowledgeOutbox,
                      DeadLetterOutbox, vars
    <3>. QED BY <3>1, <3>2 DEF Next
  <2>2. \A r \in Stored : run[r].owner \in Opt(HostIds)
        BY DEF TypeOK, Opt, Row, Stored
  <2>. QED BY <1>5, <1>6, <2>1, <2>2 DEF ReferencesResolve, RowResolves, Stored, table, Opt
<1>. QED BY <1>1, <1>2, <1>3, <1>4, <1>5, <1>6, StepForms

\* What every later invariant builds on.
StoreInv == TypeInv /\ LogInv /\ ReferencesResolve

\* The common invariant holds always.
LEMMA StoreInvHolds == Spec => []StoreInv
<1>1. Init => ReferencesResolve  BY DEF Init, ReferencesResolve, Stored
<1>. QED BY <1>1, StoreInvariant, NextReferences, PTL DEF Spec, StoreInv

\* No DELETE of compact, and nothing else, leaves a row that names a missing run, chain,
\* host or event, under any interleaving of writers, hosts, reconcilers and compactions.
THEOREM StoreReferences == Spec => []ReferencesResolve
<1>1. StoreInv => ReferencesResolve  BY DEF StoreInv
<1>. QED BY <1>1, StoreInvHolds, PTL

-----------------------------------------------------------------------------
(* The owner fence.                                                        *)

\* The kinds of request that carry a fence.
Fenced == {"transition", "transfer"}

\* FenceMonotone, and what makes it inductive: no fence in the log of a run is ahead of
\* the row's, and the fences of the row's own epoch are transitions of its owner.
FenceInv ==
    /\ FenceMonotone
    /\ \A e \in event : e.req.kind \in Fenced =>
          /\ e.req.epoch <= run[e.run].epoch
          /\ e.req.epoch = run[e.run].epoch =>
                e.req.kind = "transition" /\ e.req.owner = run[e.run].owner

\* No event of the run was written under a fence past this one.
FencedBy(s, epoch, owner) ==
    \A e \in event : e.run = s /\ e.req.kind \in Fenced =>
        /\ e.req.epoch <= epoch
        /\ e.req.epoch = epoch => e.req.kind = "transition" /\ e.req.owner = owner

\* x is a new last event of the run s, and only the row of s changes.
Appended(s, x) ==
    /\ event' = event \cup {x} /\ x.run = s /\ x.rev \in Nat /\ x.req.epoch \in Nat
    /\ \A e \in event : e.run = s => e.rev < x.rev
    /\ \A r \in RunIds \ {s} : run'[r] = run[r]

\* What the types say of an event.
LEMMA EventFacts ==
    ASSUME TypeOK, NEW e \in event
    PROVE  e.rev \in Nat /\ e.run \in RunIds /\ e.req.epoch \in Nat
BY DEF TypeOK, Event, Request

\* One more event at the end of a run's log, written under the fence the row had, keeps
\* the fences in order if the row keeps that fence or moves to the next epoch.
LEMMA OneFence ==
    ASSUME TypeOK, FenceInv, NEW s \in RunIds, NEW x, NEW epoch \in Nat, NEW owner,
           Appended(s, x), FencedBy(s, epoch, owner),
           x.req.kind \in Fenced => x.req.epoch = epoch /\ x.req.owner = owner,
           \/ run'[s].epoch = epoch /\ run'[s].owner = owner /\ x.req.kind # "transfer"
           \/ run'[s].epoch = epoch + 1
    PROVE  FenceInv'
<1>. USE DEF Appended, FencedBy
<1>1. ASSUME NEW e \in event, NEW f \in event
      PROVE  /\ e.run = f.run /\ e.rev < f.rev /\ e.req.kind \in Fenced /\ f.req.kind \in Fenced
             => /\ e.req.epoch <= f.req.epoch
                /\ e.req.epoch = f.req.epoch => e.req.owner = f.req.owner
                /\ e.req.kind = "transfer" => e.req.epoch < f.req.epoch
      BY DEF FenceInv, FenceMonotone, Fenced
<1>2. ASSUME NEW e \in event, e.run = s, e.req.kind \in Fenced, x.req.kind \in Fenced
      PROVE  /\ e.req.epoch <= x.req.epoch
             /\ e.req.epoch = x.req.epoch => e.req.owner = x.req.owner
             /\ e.req.kind = "transfer" => e.req.epoch < x.req.epoch
      BY <1>2, EventFacts
<1>3. ASSUME NEW e \in event, e.run = s PROVE ~(x.rev < e.rev)
      BY <1>3, EventFacts
<1>4. FenceMonotone'
  <2>. SUFFICES ASSUME NEW e \in event', NEW f \in event', e.run = f.run, e.rev < f.rev,
                       e.req.kind \in Fenced, f.req.kind \in Fenced
                PROVE  /\ e.req.epoch <= f.req.epoch
                       /\ e.req.epoch = f.req.epoch => e.req.owner = f.req.owner
                       /\ e.req.kind = "transfer" => e.req.epoch < f.req.epoch
       BY DEF FenceMonotone, Fenced
  <2>1. CASE e \in event /\ f \in event  BY <2>1, <1>1
  <2>2. CASE e \in event /\ f = x  BY <2>2, <1>2
  <2>3. CASE e = x /\ f \in event  BY <2>3, <1>3
  <2>4. CASE e = x /\ f = x  BY <2>4
  <2>. QED BY <2>1, <2>2, <2>3, <2>4
<1>5. ASSUME NEW e \in event', e.req.kind \in Fenced
      PROVE  /\ e.req.epoch <= run'[e.run].epoch
             /\ e.req.epoch = run'[e.run].epoch =>
                   e.req.kind = "transition" /\ e.req.owner = run'[e.run].owner
  <2>1. CASE e = x  BY <1>5, <2>1 DEF Fenced
  <2>2. CASE e \in event /\ e.run = s  BY <1>5, <2>2, EventFacts
  <2>3. CASE e \in event /\ e.run # s  BY <1>5, <2>3, EventFacts DEF FenceInv
  <2>. QED BY <2>1, <2>2, <2>3
<1>. QED BY <1>4, <1>5 DEF FenceInv

\* Every step keeps the fences in order.
LEMMA NextFence == StoreInv /\ FenceInv /\ [Next]_vars => FenceInv'
<1>. SUFFICES ASSUME TypeInv, TypeOK, LogInv, ReferencesResolve, FenceInv, [Next]_vars
              PROVE  FenceInv'
     BY DEF StoreInv, TypeInv
<1>0. \A e \in event : run[e.run] # None /\ e.rev <= run[e.run].revision
      BY DEF LogInv, EventLogComplete
<1>1. ASSUME NEW r, NEW row, NEW op, NEW q, Inserted(r, row, op, q)
      PROVE  FenceInv'
  <2>1. \A e \in event : e.run # r  BY <1>0, <1>1 DEF Inserted
  <2>2. /\ event' = event \cup {[run |-> r, rev |-> 1, op |-> op, req |-> q,
                                 life |-> row.lifecycle]}
        /\ q.kind \notin Fenced /\ run' = [run EXCEPT ![r] = row] /\ r \in RunIds
        BY <1>1 DEF Inserted, Fenced
  <2>3. \A s \in RunIds : s # r => run'[s] = run[s]  BY <2>2 DEF TypeOK
  <2>4. \A e \in event' : e.req.kind \in Fenced => e \in event  BY <2>2
  <2>5. \A e \in event : run'[e.run] = run[e.run]  BY <2>1, <2>3, EventFacts
  <2>6. FenceMonotone'  BY <2>4 DEF FenceInv, FenceMonotone, Fenced
  <2>. QED BY <2>4, <2>5, <2>6 DEF FenceInv
<1>2. ASSUME NEW q, NEW op, Moved(q, op)
      PROVE  FenceInv'
  <2>. DEFINE x == [run |-> q.run, rev |-> q.rev + 1, op |-> op, req |-> q, life |-> q.arg]
  <2>1. /\ x.run = q.run /\ x.rev = q.rev + 1 /\ x.req = q /\ q.kind = "transition"
        /\ event' = event \cup {x}
        BY <1>2, MovedFacts DEF Moved
  <2>2. /\ q.run \in RunIds /\ q.rev \in Nat /\ q.epoch \in Nat
        /\ q.rev = run[q.run].revision /\ q.epoch = run[q.run].epoch
        /\ q.owner = run[q.run].owner
        /\ \A r \in RunIds \ {q.run} : run'[r] = run[r]
        /\ run'[q.run].epoch = q.epoch /\ run'[q.run].owner = q.owner
    <3>1. /\ q.run \in RunIds /\ q.rev \in Nat /\ run[q.run] \in Row
          /\ q.rev = run[q.run].revision /\ q.epoch = run[q.run].epoch
          /\ q.owner = run[q.run].owner /\ run' = [run EXCEPT ![q.run] = MovedRow(q)]
          /\ MovedRow(q).owner = run[q.run].owner /\ MovedRow(q).epoch = run[q.run].epoch
          BY <1>2, MovedFacts DEF Stored
    <3>2. q.epoch \in Nat  BY <3>1 DEF Row
    <3>3. \A r \in RunIds : run'[r] = IF r = q.run THEN MovedRow(q) ELSE run[r]
          BY <3>1 DEF TypeOK
    <3>. QED BY <3>1, <3>2, <3>3
  <2>. HIDE DEF x
  <2>3. \A e \in event : e.run = q.run => e.rev < x.rev
        BY <1>0, <2>1, <2>2, EventFacts
  <2>4. FencedBy(q.run, q.epoch, q.owner)  BY <2>2 DEF FenceInv, FencedBy
  <2>5. /\ Appended(q.run, x)
        /\ x.req.kind \in Fenced => x.req.epoch = q.epoch /\ x.req.owner = q.owner
        /\ x.req.kind # "transfer"
        BY <2>1, <2>2, <2>3 DEF Appended
  <2>. QED BY <2>2, <2>4, <2>5, OneFence
<1>3. ASSUME NEW q, NEW o, Transferred(q, o)
      PROVE  FenceInv'
  <2>. DEFINE x == [run |-> q.run, rev |-> q.rev + 1, op |-> ClientOp(o), req |-> q,
                    life |-> run[q.run].lifecycle]
  <2>1. /\ x.run = q.run /\ x.rev = q.rev + 1 /\ x.req = q
        /\ event' = event \cup {x}
        BY <1>3, TransferredFacts
  <2>2. /\ q.run \in RunIds /\ q.rev \in Nat /\ q.epoch \in Nat
        /\ q.rev = run[q.run].revision /\ q.epoch = run[q.run].epoch
        /\ q.owner = run[q.run].owner
        /\ \A r \in RunIds \ {q.run} : run'[r] = run[r]
        /\ run'[q.run].epoch = q.epoch + 1
        BY <1>3, TransferredFacts DEF Stored, TypeOK
  <2>. HIDE DEF x
  <2>3. \A e \in event : e.run = q.run => e.rev < x.rev
        BY <1>0, <2>1, <2>2, EventFacts
  <2>4. FencedBy(q.run, q.epoch, q.owner)  BY <2>2 DEF FenceInv, FencedBy
  <2>5. /\ Appended(q.run, x)
        /\ x.req.kind \in Fenced => x.req.epoch = q.epoch /\ x.req.owner = q.owner
        BY <2>1, <2>2, <2>3 DEF Appended
  <2>. QED BY <2>2, <2>4, <2>5, OneFence
<1>4. ASSUME OutboxStep \/ UNCHANGED <<table, closed>>
      PROVE  FenceInv'
  <2>1. UNCHANGED <<run, event>>
        BY <1>4 DEF OutboxStep, MarkOutboxDelivered, AcknowledgeOutbox, DeadLetterOutbox, table
  <2>. QED BY <2>1 DEF FenceInv, FenceMonotone
<1>5. ASSUME CompactSome
      PROVE  FenceInv'
  <2>1. PICK rs \in SUBSET RunIds :
                  /\ run' = [r \in RunIds |-> IF r \in rs THEN None ELSE run[r]]
                  /\ event' = {e \in event : e.run \notin rs}
        BY <1>5 DEF CompactSome, Compact, RemainingEvents, PrunableRuns, Stored
  <2>2. \A e \in event' : e \in event /\ run'[e.run] = run[e.run]  BY <2>1, EventFacts
  <2>3. FenceMonotone'  BY <2>2 DEF FenceInv, FenceMonotone
  <2>. QED BY <2>2, <2>3 DEF FenceInv
<1>. QED BY <1>1, <1>2, <1>3, <1>4, <1>5, StepForms

\* Once a run is transferred to a later epoch, nothing is ever written to it under an
\* earlier one, and every epoch has one writer (verify_revision_and_owner), whatever
\* clients, stale owners and reconcilers attempt.
THEOREM StoreFences == Spec => []FenceMonotone
<1>1. Init => FenceInv  BY DEF Init, FenceInv, FenceMonotone
<1>2. FenceInv => FenceMonotone  BY DEF FenceInv
<1>. QED BY <1>1, <1>2, NextFence, StoreInvHolds, PTL DEF Spec

-----------------------------------------------------------------------------
(* Reconciliation.                                                         *)

\* A registered host that is gone; once gone it stays so.
GoneForGood(h) == h \in HostIds /\ host[h].row # "none" /\ Gone(h)

\* What a reconciler remembers of its hosts stays true until it writes: its candidates
\* are registered, those it saw shut down are gone, and so are the owners of the runs it
\* is about to interrupt.
PassGone ==
    \A p \in Reconcilers :
        /\ \A h \in pass[p].hosts : host[h].row # "none"
        /\ \A h \in pass[p].down : host[h].row \in {"shutdown", "pruned"}
        /\ \A q \in pass[p].todo : GoneForGood(q.owner)

\* The owners of the runs it has interrupted are gone as well.
ReconciledGone ==
    \A e \in event : (\E r, h, k : e.op = ReconcileOp(r, h, k)) => GoneForGood(e.req.owner)

\* Only host steps and compaction touch the hosts.
LEMMA HostsUntouched ==
    ASSUME RunStep \/ ReconcileStep \/ OutboxStep \/ UNCHANGED vars
    PROVE  UNCHANGED host
BY DEF RunStep, CreateRun, Transition, ResumeRun, TransferOwner, ImportLegacyOne,
       ReconcileStep, ScanStaleHosts, AbortPass, VerifyGone, VerifyNotGone, InterruptRun,
       SkipRun, OutboxStep, MarkOutboxDelivered, AcknowledgeOutbox, DeadLetterOutbox, vars

\* A registered host never returns to "none", a shut-down one never comes back, and a
\* gone one stays gone: heartbeat_host does not revive, and ids are not registered twice.
LEMMA HostForward ==
    ASSUME TypeOK, [Next]_vars, NEW h \in HostIds
    PROVE  /\ host[h].row # "none" => host'[h].row # "none"
           /\ host[h].row \in {"shutdown", "pruned"} => host'[h].row \in {"shutdown", "pruned"}
           /\ GoneForGood(h) => GoneForGood(h)'
<1>. USE DEF GoneForGood, Gone
<1>1. CASE HostStep
  <2>1. PICK g \in HostIds : \/ RegisterHost(g) \/ HeartbeatHost(g) \/ HeartbeatAges(g)
                             \/ ShutdownHost(g) \/ ProcessExit(g)
        BY <1>1 DEF HostStep
  <2>2. host[g] \in Host /\ host[h] \in Host  BY DEF TypeOK
  <2>3. CASE h # g
        BY <2>1, <2>3 DEF RegisterHost, HeartbeatHost, HeartbeatAges, ShutdownHost, ProcessExit,
                          TypeOK
  <2>4. CASE h = g /\ RegisterHost(g)  BY <2>4 DEF RegisterHost, TypeOK
  <2>5. CASE h = g /\ HeartbeatHost(g)
    <3>1. host'[h] = [host[h] EXCEPT !.beating = TRUE]  BY <2>5 DEF HeartbeatHost, TypeOK
    <3>. QED BY <2>2, <3>1 DEF Host
  <2>6. CASE h = g /\ HeartbeatAges(g)
    <3>1. host'[h] = [host[h] EXCEPT !.beating = FALSE]  BY <2>6 DEF HeartbeatAges, TypeOK
    <3>. QED BY <2>2, <3>1 DEF Host
  <2>7. CASE h = g /\ ShutdownHost(g)
    <3>1. host'[h] = [host[h] EXCEPT !.row = "shutdown"]  BY <2>7 DEF ShutdownHost, TypeOK
    <3>. QED BY <2>2, <3>1 DEF Host
  <2>8. CASE h = g /\ ProcessExit(g)
    <3>1. host'[h] = [host[h] EXCEPT !.alive = FALSE]  BY <2>8 DEF ProcessExit, TypeOK
    <3>. QED BY <2>2, <3>1 DEF Host
  <2>. QED BY <2>1, <2>3, <2>4, <2>5, <2>6, <2>7, <2>8
<1>2. CASE CompactSome
  <2>1. \/ host'[h] = [host[h] EXCEPT !.row = "pruned"]
        \/ host'[h] = host[h]
        BY <1>2 DEF CompactSome, Compact
  <2>2. host[h] \in Host  BY DEF TypeOK
  <2>. QED BY <2>1, <2>2 DEF Host
<1>3. CASE RunStep \/ ReconcileStep \/ OutboxStep \/ UNCHANGED vars
      BY <1>3, HostsUntouched
<1>. QED BY <1>1, <1>2, <1>3 DEF Next

\* Every step keeps what the reconcilers remember true.
LEMMA NextPassGone == StoreInv /\ PassGone /\ [Next]_vars => PassGone'
<1>. SUFFICES ASSUME TypeOK, PassRequests, ReferencesResolve, PassGone, [Next]_vars,
                     NEW p \in Reconcilers
              PROVE  /\ \A h \in pass'[p].hosts : host'[h].row # "none"
                     /\ \A h \in pass'[p].down : host'[h].row \in {"shutdown", "pruned"}
                     /\ \A q \in pass'[p].todo : GoneForGood(q.owner)'
     BY DEF StoreInv, TypeInv, PassGone
<1>1. pass[p].hosts \subseteq HostIds /\ pass[p].down \subseteq HostIds
      BY DEF TypeOK, Pass
<1>2. /\ \A h \in pass[p].hosts : host[h].row # "none"
      /\ \A h \in pass[p].down : host[h].row \in {"shutdown", "pruned"}
      /\ \A q \in pass[p].todo : GoneForGood(q.owner)
      BY DEF PassGone
<1>3. CASE /\ pass'[p].hosts \subseteq pass[p].hosts
           /\ pass'[p].down \subseteq pass[p].down
           /\ pass'[p].todo \subseteq pass[p].todo
  <2>1. \A q \in pass'[p].todo : q.owner \in HostIds  BY <1>3 DEF PassRequests
  <2>. QED BY <1>1, <1>2, <1>3, <2>1, HostForward
<1>4. CASE ScanStaleHosts(p)
  <2>1. /\ pass'[p].hosts = StaleHosts /\ pass'[p].todo = {}
        /\ pass'[p].down = {h \in StaleHosts : host[h].row = "shutdown"}
        /\ host' = host
        BY <1>4 DEF ScanStaleHosts, TypeOK
  <2>2. \A h \in StaleHosts : host[h].row \in {"live", "shutdown"}
        BY StoreAssumption DEF StaleHosts, OwnsActiveRun, ReferencesResolve
  <2>. QED BY <2>1, <2>2
<1>5. ASSUME NEW h \in HostIds, VerifyGone(p, h)
      PROVE  /\ \A g \in pass'[p].hosts : host'[g].row # "none"
             /\ \A g \in pass'[p].down : host'[g].row \in {"shutdown", "pruned"}
             /\ \A q \in pass'[p].todo : GoneForGood(q.owner)'
  <2>1. /\ pass'[p].hosts \subseteq pass[p].hosts /\ pass'[p].down \subseteq pass[p].down
        /\ pass'[p].todo = InterruptRequests(h) /\ host' = host
        BY <1>5 DEF VerifyGone, TypeOK
  <2>2. h \in pass[p].hosts /\ VerifiedGone(p, h)  BY <1>5 DEF VerifyGone
  <2>3. GoneForGood(h)  BY <1>2, <2>2 DEF VerifiedGone, GoneForGood, Gone
  <2>4. \A q \in InterruptRequests(h) : q.owner = h  BY DEF InterruptRequests
  <2>5. GoneForGood(h)'  BY <2>1, <2>3 DEF GoneForGood, Gone
  <2>. QED BY <1>2, <2>1, <2>4, <2>5
<1>6. CASE ReconcileStep
  <2>1. PICK g \in Reconcilers :
            \/ ScanStaleHosts(g) \/ AbortPass(g)
            \/ \E h \in HostIds : VerifyGone(g, h) \/ VerifyNotGone(g, h)
            \/ \E q \in pass[g].todo : InterruptRun(g, q) \/ SkipRun(g, q)
        BY <1>6 DEF ReconcileStep
  <2>2. CASE g # p
    <3>1. pass'[p] = pass[p]
          BY <2>1, <2>2 DEF ScanStaleHosts, AbortPass, VerifyGone, VerifyNotGone, InterruptRun,
                            SkipRun, TypeOK
    <3>. QED BY <1>3, <3>1
  <2>3. CASE g = p /\ AbortPass(p)
    <3>1. pass'[p] = IdlePass  BY <2>3 DEF AbortPass, TypeOK
    <3>. QED BY <1>3, <3>1 DEF IdlePass
  <2>4. ASSUME NEW h \in HostIds, VerifyNotGone(p, h)
        PROVE  /\ pass'[p].hosts \subseteq pass[p].hosts
               /\ pass'[p].down \subseteq pass[p].down
               /\ pass'[p].todo \subseteq pass[p].todo
    <3>1. pass[p] \in Pass /\ pass'[p] = [pass[p] EXCEPT !.hosts = @ \ {h}]
          BY <2>4 DEF VerifyNotGone, TypeOK
    <3>. QED BY <3>1 DEF Pass
  <2>5. ASSUME NEW q \in pass[p].todo, InterruptRun(p, q) \/ SkipRun(p, q)
        PROVE  /\ pass'[p].hosts \subseteq pass[p].hosts
               /\ pass'[p].down \subseteq pass[p].down
               /\ pass'[p].todo \subseteq pass[p].todo
    <3>1. pass[p] \in Pass /\ pass'[p] = [pass[p] EXCEPT !.todo = @ \ {q}]
          BY <2>5 DEF InterruptRun, SkipRun, TypeOK
    <3>. QED BY <3>1 DEF Pass
  <2>. QED BY <1>3, <1>4, <1>5, <2>1, <2>2, <2>3, <2>4, <2>5
<1>7. CASE RunStep \/ HostStep \/ OutboxStep \/ CompactSome \/ UNCHANGED vars
  <2>1. pass' = pass
        BY <1>7 DEF RunStep, CreateRun, Transition, ResumeRun, TransferOwner, ImportLegacyOne,
               HostStep, RegisterHost, HeartbeatHost, HeartbeatAges, ShutdownHost, ProcessExit,
               OutboxStep, MarkOutboxDelivered, AcknowledgeOutbox, DeadLetterOutbox,
               CompactSome, Compact, vars
  <2>. QED BY <1>3, <2>1
<1>. QED BY <1>6, <1>7 DEF Next

\* Every step keeps the owners of reconciled runs gone.
LEMMA NextReconciledGone ==
    StoreInv /\ PassGone /\ ReconciledGone /\ [Next]_vars => ReconciledGone'
<1>. SUFFICES ASSUME TypeInv, TypeOK, LogInv, ReferencesResolve, PassGone, ReconciledGone,
                     [Next]_vars, NEW e \in event', NEW r, NEW h, NEW k,
                     e.op = ReconcileOp(r, h, k)
              PROVE  GoneForGood(e.req.owner)'
     BY DEF StoreInv, TypeInv, ReconciledGone
<1>1. CASE e \in event
      BY <1>1, HostForward DEF ReconciledGone, GoneForGood
<1>2. ASSUME NEW s, NEW row, NEW op, NEW q, Inserted(s, row, op, q)
      PROVE  e \in event
      BY <1>2 DEF Inserted
<1>3. ASSUME NEW q, NEW op, Moved(q, op), e \notin event
      PROVE  GoneForGood(e.req.owner)'
  <2>1. e.req = q /\ e.op = op  BY <1>3, MovedFacts
  <2>2. PICK p \in Reconcilers : q \in pass[p].todo  BY <1>3, <2>1 DEF Moved
  <2>3. GoneForGood(q.owner)  BY <2>2 DEF PassGone
  <2>. QED BY <2>1, <2>3, HostForward DEF GoneForGood
<1>4. ASSUME NEW q, NEW o, Transferred(q, o)
      PROVE  e \in event
  <2>1. e \in event \/ e.op = ClientOp(o)  BY <1>4, TransferredFacts
  <2>. QED BY <2>1, ReconcileOpsDistinct
<1>5. ASSUME OutboxStep \/ UNCHANGED <<table, closed>> \/ CompactSome
      PROVE  e \in event
      BY <1>5 DEF OutboxStep, MarkOutboxDelivered, AcknowledgeOutbox, DeadLetterOutbox, table,
                  CompactSome, Compact, RemainingEvents
<1>. QED BY <1>1, <1>2, <1>3, <1>4, <1>5, StepForms

\* reconcile_stale interrupts a run only if its owner has shut down or exited, although
\* the host was verified, and the run read, several steps before the write, and other
\* reconcilers, transfers and the host itself ran in between.
THEOREM StoreReconciled == Spec => []ReconciledOwnersGone
<1>1. Init => PassGone /\ ReconciledGone
      BY DEF Init, PassGone, ReconciledGone, IdlePass
<1>2. ReconciledGone => ReconciledOwnersGone
      BY DEF ReconciledGone, ReconciledOwnersGone, GoneForGood
<1>. QED BY <1>1, <1>2, NextPassGone, NextReconciledGone, StoreInvHolds, PTL DEF Spec

-----------------------------------------------------------------------------
(* Deliveries.                                                             *)

\* UNIQUE (run, revision) of parent_outbox.
OutboxUnique == \A c, d \in outbox : c.run = d.run /\ c.rev = d.rev => c = d

\* A finalised delivery is in the history.
FinalisedClosed == \A d \in outbox : d.state \in Finalised => <<d.run, d.rev>> \in closed

\* Every revision of a run is stored once: a delivery of a new revision is the first.
LEMMA NewDeliveryUnique ==
    ASSUME LogInv, ReferencesResolve, OutboxUnique, NEW r, NEW rev, NEW hasParent, NEW life,
           InsertOutboxIfParent(r, hasParent, rev, life),
           \A e \in event : ~(e.run = r /\ e.rev = rev)
    PROVE  OutboxUnique'
<1>1. \A d \in outbox : ~(d.run = r /\ d.rev = rev)  BY DEF ReferencesResolve
<1>. DEFINE x == [run |-> r, rev |-> rev, state |-> "pending"]
<1>2. x.run = r /\ x.rev = rev /\ (outbox' = outbox \/ outbox' = outbox \cup {x})
      BY DEF InsertOutboxIfParent
<1>. HIDE DEF x
<1>. QED BY <1>1, <1>2 DEF OutboxUnique

\* Reporting on a delivery rewrites its row in place.
LEMMA ReportForm ==
    ASSUME TypeOK, OutboxStep
    PROVE  \E d \in outbox, c \in Delivery :
              /\ c.run = d.run /\ c.rev = d.rev /\ outbox' = (outbox \ {d}) \cup {c}
              /\ d.state \in {"pending", "delivered"}
              /\ \/ d.state = "pending" /\ c.state = "delivered" /\ closed' = closed
                 \/ c.state \in Finalised /\ closed' = closed \cup {<<d.run, d.rev>>}
              /\ UNCHANGED <<run, event>>
<1>1. PICK d \in outbox : MarkOutboxDelivered(d) \/ AcknowledgeOutbox(d) \/ DeadLetterOutbox(d)
      BY DEF OutboxStep
<1>2. d \in Delivery  BY DEF TypeOK
<1>3. ASSUME NEW s \in OutboxStates
      PROVE  /\ [d EXCEPT !.state = s] \in Delivery /\ [d EXCEPT !.state = s].run = d.run
             /\ [d EXCEPT !.state = s].rev = d.rev /\ [d EXCEPT !.state = s].state = s
      BY <1>2 DEF Delivery
<1>4. CASE MarkOutboxDelivered(d)
  <2>. DEFINE c == [d EXCEPT !.state = "delivered"]
  <2>1. c \in Delivery /\ c.run = d.run /\ c.rev = d.rev /\ c.state = "delivered"
        BY <1>3 DEF OutboxStates
  <2>2. /\ outbox' = (outbox \ {d}) \cup {c} /\ d.state = "pending" /\ closed' = closed
        /\ UNCHANGED <<run, event>>
        BY <1>4 DEF MarkOutboxDelivered, SetState
  <2>. HIDE DEF c
  <2>. QED BY <2>1, <2>2
<1>5. CASE AcknowledgeOutbox(d)
  <2>. DEFINE c == [d EXCEPT !.state = "acknowledged"]
  <2>1. c \in Delivery /\ c.run = d.run /\ c.rev = d.rev /\ c.state \in Finalised
        BY <1>3 DEF OutboxStates, Finalised
  <2>2. /\ outbox' = (outbox \ {d}) \cup {c} /\ closed' = closed \cup {<<d.run, d.rev>>}
        /\ d.state \in {"pending", "delivered"} /\ UNCHANGED <<run, event>>
        BY <1>5 DEF AcknowledgeOutbox, SetState
  <2>. HIDE DEF c
  <2>. QED BY <2>1, <2>2
<1>6. CASE DeadLetterOutbox(d)
  <2>. DEFINE c == [d EXCEPT !.state = "dead_letter"]
  <2>1. c \in Delivery /\ c.run = d.run /\ c.rev = d.rev /\ c.state \in Finalised
        BY <1>3 DEF OutboxStates, Finalised
  <2>2. /\ outbox' = (outbox \ {d}) \cup {c} /\ closed' = closed \cup {<<d.run, d.rev>>}
        /\ d.state \in {"pending", "delivered"} /\ UNCHANGED <<run, event>>
        BY <1>6 DEF DeadLetterOutbox, SetState
  <2>. HIDE DEF c
  <2>. QED BY <2>1, <2>2
<1>. QED BY <1>1, <1>4, <1>5, <1>6

\* What compaction does to runs, events and deliveries.
LEMMA CompactForm ==
    ASSUME CompactSome
    PROVE  \E ds \in SUBSET outbox, rs \in SUBSET RunIds :
              /\ \A d \in ds : d.state \in Finalised
              /\ run' = [r \in RunIds |-> IF r \in rs THEN None ELSE run[r]]
              /\ event' = {e \in event : e.run \notin rs}
              /\ outbox' = outbox \ ds /\ closed' = closed
BY DEF CompactSome, Compact, RemainingEvents, PrunableRuns, PrunableDeliveries, Stored

\* The invariant of the outbox: deliveries are unique, the finalised ones are in the history,
\* and every notification still has its delivery or had it finalised.
OutboxInv == OutboxUnique /\ FinalisedClosed /\ NoLostNotification

\* One event with its delivery, and one row that keeps its parent.
LEMMA OneNotification ==
    ASSUME TypeOK, LogInv, ReferencesResolve, OutboxInv, NEW s \in RunIds, NEW x,
           event' = event \cup {x}, x.run = s, closed' = closed,
           NEW hasParent, NEW life, x.life = life, run'[s].parent = hasParent,
           InsertOutboxIfParent(s, hasParent, x.rev, life),
           \A e \in event : ~(e.run = s /\ e.rev = x.rev),
           \A r \in RunIds \ {s} : run'[r] = run[r],
           (\E e \in event : e.run = s) => run'[s].parent = run[s].parent
    PROVE  OutboxInv'
<1>1. OutboxUnique'  BY NewDeliveryUnique DEF OutboxInv
<1>. DEFINE y == [run |-> s, rev |-> x.rev, state |-> "pending"]
<1>2. y.run = s /\ y.rev = x.rev /\ y.state \notin Finalised  BY DEF Finalised
<1>3. outbox' = IF hasParent /\ life \in Notifiable THEN outbox \cup {y} ELSE outbox
      BY DEF InsertOutboxIfParent
<1>. HIDE DEF y
<1>4. FinalisedClosed'  BY <1>2, <1>3 DEF OutboxInv, FinalisedClosed
<1>5. ASSUME NEW e \in event', e.life \in Notifiable, e.req.kind # "transfer",
             run'[e.run].parent
      PROVE  \/ \E d \in outbox' : d.run = e.run /\ d.rev = e.rev
             \/ <<e.run, e.rev>> \in closed'
  <2>1. CASE e = x  BY <1>2, <1>3, <1>5, <2>1
  <2>2. CASE e \in event
    <3>1. run[e.run].parent  BY <1>5, <2>2, EventFacts
    <3>2. \/ \E d \in outbox : d.run = e.run /\ d.rev = e.rev
          \/ <<e.run, e.rev>> \in closed
          BY <1>5, <2>2, <3>1 DEF OutboxInv, NoLostNotification
    <3>. QED BY <1>3, <3>2
  <2>. QED BY <2>1, <2>2
<1>6. NoLostNotification'  BY <1>5 DEF NoLostNotification
<1>. QED BY <1>1, <1>4, <1>6 DEF OutboxInv

\* Every step keeps them.
LEMMA NextOutbox == StoreInv /\ OutboxInv /\ [Next]_vars => OutboxInv'
<1>. SUFFICES ASSUME TypeInv, TypeOK, LogInv, ReferencesResolve, OutboxInv, [Next]_vars
              PROVE  OutboxInv'
     BY DEF StoreInv, TypeInv
<1>0. \A e \in event : run[e.run] # None /\ e.rev <= run[e.run].revision
      BY DEF LogInv, EventLogComplete
<1>1. ASSUME NEW r, NEW row, NEW op, NEW q, Inserted(r, row, op, q)
      PROVE  OutboxInv'
  <2>. DEFINE x == [run |-> r, rev |-> 1, op |-> op, req |-> q, life |-> row.lifecycle]
  <2>1. \A e \in event : e.run # r  BY <1>0, <1>1 DEF Inserted
  <2>2. /\ event' = event \cup {x} /\ x.run = r /\ x.rev = 1 /\ x.life = row.lifecycle
        /\ r \in RunIds /\ run' = [run EXCEPT ![r] = row] /\ closed' = closed
        /\ InsertOutboxIfParent(r, row.parent, x.rev, row.lifecycle)
        BY <1>1 DEF Inserted
  <2>3. run'[r].parent = row.parent /\ \A s \in RunIds \ {r} : run'[s] = run[s]
        BY <2>2 DEF TypeOK
  <2>. HIDE DEF x
  <2>. QED BY <2>1, <2>2, <2>3, OneNotification
<1>2. ASSUME NEW q, NEW op, Moved(q, op)
      PROVE  OutboxInv'
  <2>. DEFINE x == [run |-> q.run, rev |-> q.rev + 1, op |-> op, req |-> q, life |-> q.arg]
  <2>1. /\ event' = event \cup {x} /\ x.run = q.run /\ x.rev = q.rev + 1 /\ x.life = q.arg
        /\ closed' = closed /\ InsertOutboxIfParent(q.run, run[q.run].parent, x.rev, q.arg)
        BY <1>2 DEF Moved, Commit, InsertEvent
  <2>2. /\ q.run \in RunIds /\ q.rev \in Nat /\ q.rev = run[q.run].revision
        /\ run' = [run EXCEPT ![q.run] = MovedRow(q)]
        /\ MovedRow(q).parent = run[q.run].parent
        BY <1>2, MovedFacts DEF Stored
  <2>3. /\ run'[q.run].parent = run[q.run].parent
        /\ \A s \in RunIds \ {q.run} : run'[s] = run[s]
        BY <2>2 DEF TypeOK
  <2>. HIDE DEF x
  <2>4. \A e \in event : ~(e.run = q.run /\ e.rev = x.rev)  BY <1>0, <2>1, <2>2, EventFacts
  <2>. QED BY <2>1, <2>2, <2>3, <2>4, OneNotification
<1>3. ASSUME NEW q, NEW o, Transferred(q, o)
      PROVE  OutboxInv'
  <2>1. /\ q.run \in RunIds /\ run' = [run EXCEPT ![q.run] = TransferredRow(q)]
        /\ TransferredRow(q).parent = run[q.run].parent
        /\ event' = event \cup {[run |-> q.run, rev |-> q.rev + 1, op |-> ClientOp(o),
                                 req |-> q, life |-> run[q.run].lifecycle]}
        /\ q.kind = "transfer" /\ UNCHANGED <<outbox, closed>>
        BY <1>3, TransferredFacts DEF Stored
  <2>2. \A e \in event' : e \in event \/ e.req.kind = "transfer"  BY <2>1
  <2>3. \A r \in RunIds : run'[r].parent = run[r].parent  BY <2>1 DEF TypeOK
  <2>4. NoLostNotification'
        BY <2>1, <2>2, <2>3, EventFacts DEF OutboxInv, NoLostNotification
  <2>. QED BY <2>1, <2>4 DEF OutboxInv, OutboxUnique, FinalisedClosed
<1>4. ASSUME OutboxStep
      PROVE  OutboxInv'
  <2>1. PICK d \in outbox, c \in Delivery :
              /\ c.run = d.run /\ c.rev = d.rev /\ outbox' = (outbox \ {d}) \cup {c}
              /\ \/ c.state = "delivered" /\ closed' = closed
                 \/ c.state \in Finalised /\ closed' = closed \cup {<<d.run, d.rev>>}
              /\ UNCHANGED <<run, event>>
        BY <1>4, ReportForm
  <2>2. OutboxUnique'  BY <2>1 DEF OutboxInv, OutboxUnique
  <2>3. FinalisedClosed'  BY <2>1 DEF OutboxInv, FinalisedClosed, Finalised
  <2>4. NoLostNotification'  BY <2>1 DEF OutboxInv, NoLostNotification
  <2>. QED BY <2>2, <2>3, <2>4 DEF OutboxInv
<1>5. ASSUME CompactSome
      PROVE  OutboxInv'
  <2>1. PICK ds \in SUBSET outbox, rs \in SUBSET RunIds :
              /\ \A d \in ds : d.state \in Finalised
              /\ run' = [r \in RunIds |-> IF r \in rs THEN None ELSE run[r]]
              /\ event' = {e \in event : e.run \notin rs}
              /\ outbox' = outbox \ ds /\ closed' = closed
        BY <1>5, CompactForm
  <2>2. \A e \in event' : e \in event /\ run'[e.run] = run[e.run]  BY <2>1, EventFacts
  <2>3. \A d \in ds : <<d.run, d.rev>> \in closed  BY <2>1 DEF OutboxInv, FinalisedClosed
  <2>4. NoLostNotification'  BY <2>1, <2>2, <2>3 DEF OutboxInv, NoLostNotification
  <2>. QED BY <2>1, <2>4 DEF OutboxInv, OutboxUnique, FinalisedClosed
<1>6. ASSUME UNCHANGED <<table, closed>>
      PROVE  OutboxInv'
      BY <1>6 DEF OutboxInv, OutboxUnique, FinalisedClosed, NoLostNotification, table
<1>. QED BY <1>1, <1>2, <1>3, <1>4, <1>5, <1>6, StepForms

\* The deliveries' invariant holds always.
LEMMA OutboxInvHolds == Spec => [](StoreInv /\ OutboxInv)
<1>1. Init => OutboxInv
      BY DEF Init, OutboxInv, OutboxUnique, FinalisedClosed, NoLostNotification
<1>. QED BY <1>1, NextOutbox, StoreInvHolds, PTL DEF Spec

\* A parent is told of every end and every wait of its child: compaction deletes a
\* delivery only once it is finalised, and no writer skips it.
THEOREM StoreNotifications == Spec => []NoLostNotification
<1>1. StoreInv /\ OutboxInv => NoLostNotification  BY DEF OutboxInv
<1>. QED BY <1>1, OutboxInvHolds, PTL

\* The deliveries that a step leaves of one, as DeliveryForward counts them.
After(d) == {c \in outbox' : c.run = d.run /\ c.rev = d.rev}

\* A step moves a delivery forward, and deletes it only when it is finalised.
Forward ==
    \A d \in outbox : \/ d \in After(d)
                      \/ d.state = "pending" /\ After(d) # {}
                      \/ d.state = "delivered" /\ \E c \in After(d) : c.state \in Finalised
                      \/ d.state \in Finalised /\ After(d) = {}

\* Every step does.
LEMMA StepForward == StoreInv /\ OutboxInv /\ [Next]_vars => Forward
<1>. SUFFICES ASSUME TypeInv, TypeOK, LogInv, ReferencesResolve, OutboxUnique, [Next]_vars,
                     NEW d \in outbox
              PROVE  \/ d \in After(d)
                     \/ d.state = "pending" /\ After(d) # {}
                     \/ d.state = "delivered" /\ \E c \in After(d) : c.state \in Finalised
                     \/ d.state \in Finalised /\ After(d) = {}
     BY DEF StoreInv, TypeInv, OutboxInv, Forward
<1>1. CASE outbox \subseteq outbox'  BY <1>1 DEF After
<1>2. CASE OutboxStep
  <2>1. PICK b \in outbox, c \in Delivery :
              /\ c.run = b.run /\ c.rev = b.rev /\ outbox' = (outbox \ {b}) \cup {c}
              /\ b.state \in {"pending", "delivered"}
              /\ \/ b.state = "pending" /\ c.state = "delivered"
                 \/ c.state \in Finalised
        BY <1>2, ReportForm
  <2>2. CASE b = d
    <3>1. c \in After(d)  BY <2>1, <2>2 DEF After
    <3>. QED BY <2>1, <2>2, <3>1
  <2>3. CASE b # d  BY <2>1, <2>3 DEF After
  <2>. QED BY <2>2, <2>3
<1>3. CASE CompactSome
  <2>1. PICK ds \in SUBSET outbox : outbox' = outbox \ ds /\ \A c \in ds : c.state \in Finalised
        BY <1>3, CompactForm
  <2>. QED BY <2>1 DEF After, OutboxUnique
<1>4. ASSUME NEW q, NEW o, Transferred(q, o) PROVE outbox \subseteq outbox'
      BY <1>4, TransferredFacts
<1>. QED BY <1>1, <1>2, <1>3, <1>4, StepForms
     DEF Inserted, Moved, Commit, InsertOutboxIfParent, table

\* The outbox state machine only moves forward, under late and repeated reports and
\* compaction: a finalised delivery is never handed out again (mark_outbox_delivered,
\* acknowledge_outbox and dead_letter_outbox test the state they replace).
THEOREM StoreDeliveries == Spec => DeliveryForward
<1>1. Forward => \A d \in outbox :
          LET now == {c \in outbox' : c.run = d.run /\ c.rev = d.rev}
          IN  \/ d \in now
              \/ d.state = "pending" /\ now # {}
              \/ d.state = "delivered" /\ \E c \in now : c.state \in Finalised
              \/ d.state \in Finalised /\ now = {}
      BY DEF Forward, After
<1>. QED BY <1>1, StepForward, OutboxInvHolds, PTL DEF Spec, DeliveryForward
=============================================================================
