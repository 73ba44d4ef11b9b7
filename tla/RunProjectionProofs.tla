-------------------------- MODULE RunProjectionProofs --------------------------
(***************************************************************************)
(* Theorems about RunProjection for every set of wait codes and every      *)
(* bound on the channel, the revisions and the failures.                   *)
(*                                                                         *)
(* The inductive invariant is that the run is only written by one of the   *)
(* starting task and the writer (Turns), that the channel carries no end   *)
(* but the one the tracker settled on (EndInv), and that, when nothing     *)
(* failed, the channel of a cancelled or interrupted run is a legal path   *)
(* from the state the run is in to that end (PathInv).                     *)
(***************************************************************************)
EXTENDS RunProjection, TLAPS

\* n00n.run.start is done before the session exists, the tracker and the channel are
\* empty until then, and the revision the writer holds is the run's.
Turns ==
    /\ start = "create" => run = None
    /\ start # "create" /\ start # "done" => run # None /\ run.life \in {"Queued", "Starting"}
    /\ session # "none" => start = "done" /\ run # None /\ last # None
    /\ session = "none" => last = None /\ chan = <<>>
    /\ read # None => /\ chan # <<>> /\ run # None /\ read = run.revision
                      /\ run.life \notin Terminal /\ run.life # chan[1].target

\* The ends in the channel and in the store are the one the tracker settled on.
EndInv ==
    /\ \A i \in 1..Len(chan) : chan[i].target \in Terminal => Settled(chan[i].target)
    /\ EndAgrees
    /\ ~Settled("Cancelling")

\* The channel leads from the state of the run to the end t.
LeadsTo(life, t) ==
    /\ chan # <<>> /\ life \notin Terminal
    /\ chan[Len(chan)] = TerminalProjection(t)
    /\ \A i \in 1..Len(chan) : i # Len(chan) => chan[i].target \notin Terminal
    /\ t = "Cancelled" => IF Len(chan) = 1 THEN life = "Cancelling"
                          ELSE chan[Len(chan) - 1] = Projection("Cancelling", "", "")

PathInv ==
    errors = 0 => \A t \in {"Cancelled", "Interrupted"} :
        Settled(t) => (chan = <<>> /\ run.life = t) \/ LeadsTo(run.life, t)

Inv == TypeOK /\ Turns /\ EndInv /\ PathInv

-----------------------------------------------------------------------------
(* The operators.                                                          *)

\* None is neither a run, nor a tracked projection, nor a revision.
LEMMA NoneFacts ==
    /\ \A r \in Runs : r # None
    /\ \A k \in Keys : k # None
    /\ \A n \in Nat : n # None
BY ProjectionAssumption

\* The projections of the child's events and of the event loop are projections, with a
\* wait reason exactly when they wait.
LEMMA ProjectionTypes ==
    /\ \A p \in EventProjections :
          /\ p \in Projections /\ Key(p) \in Keys /\ Key(p).target = p.target
          /\ p.target \in {"Running", "Succeeded", "Failed", "WaitingInput"}
    /\ \A t \in Terminal :
          /\ TerminalProjection(t) \in Projections
          /\ Key(TerminalProjection(t)) \in Keys /\ Key(TerminalProjection(t)).target = t
          /\ TerminalProjection(t).target = t /\ TerminalProjection(t).wait = ""
          /\ TerminalProjection(t).outcome = t
    /\ LET c == Projection("Cancelling", "", "")
       IN  /\ c \in Projections /\ c.target = "Cancelling" /\ c.wait = "" /\ c.outcome = ""
           /\ Key(c) \in Keys /\ Key(c).target = "Cancelling"
    /\ RunningProjection \in EventProjections
<1>1. ASSUME NEW t \in Terminal
      PROVE  /\ TerminalProjection(t) \in Projections
             /\ Key(TerminalProjection(t)) \in Keys /\ Key(TerminalProjection(t)).target = t
             /\ TerminalProjection(t).target = t /\ TerminalProjection(t).wait = ""
             /\ TerminalProjection(t).outcome = t
      BY DEF Projections, Keys, Key, Projection, Waits, Lifecycles, Active,
             TerminalProjection
<1>2. /\ RunningProjection \in Projections /\ Key(RunningProjection) \in Keys
      /\ Key(RunningProjection).target = "Running" /\ RunningProjection.target = "Running"
      BY DEF Projections, Keys, Key, Projection, Waits, Lifecycles, Active,
             RunningProjection
<1>3. ASSUME NEW w \in WaitCodes
      PROVE  LET p == Projection("WaitingInput", w, "")
             IN  /\ p \in Projections /\ Key(p) \in Keys /\ Key(p).target = p.target
                 /\ p.target = "WaitingInput"
      BY DEF Projections, Keys, Key, Projection, Waits, Lifecycles, Active
<1>4. "Succeeded" \in Terminal /\ "Failed" \in Terminal  BY DEF Terminal
<1>5. ASSUME NEW p \in EventProjections
      PROVE  /\ p \in Projections /\ Key(p) \in Keys /\ Key(p).target = p.target
             /\ p.target \in {"Running", "Succeeded", "Failed", "WaitingInput"}
  <2>1. CASE p = RunningProjection  BY <1>2, <2>1
  <2>2. ASSUME NEW t \in {"Succeeded", "Failed"}, p = TerminalProjection(t)
        PROVE  /\ p \in Projections /\ Key(p) \in Keys /\ Key(p).target = p.target
               /\ p.target \in {"Running", "Succeeded", "Failed", "WaitingInput"}
    <3>1. t \in Terminal  BY <1>4
    <3>. HIDE DEF Terminal
    <3>2. /\ TerminalProjection(t) \in Projections /\ Key(TerminalProjection(t)) \in Keys
          /\ Key(TerminalProjection(t)).target = t /\ TerminalProjection(t).target = t
          BY <1>1, <3>1
    <3>. QED BY <2>2, <3>2
  <2>3. CASE \E w \in WaitCodes : p = Projection("WaitingInput", w, "")
        BY <1>3, <2>3
  <2>. QED BY <2>1, <2>2, <2>3 DEF EventProjections
<1>6. LET c == Projection("Cancelling", "", "")
      IN  /\ c \in Projections /\ c.target = "Cancelling" /\ c.wait = "" /\ c.outcome = ""
          /\ Key(c) \in Keys /\ Key(c).target = "Cancelling"
      BY DEF Projections, Keys, Key, Projection, Waits, Lifecycles, Active
<1>7. RunningProjection \in EventProjections  BY DEF EventProjections
<1>. QED BY <1>1, <1>5, <1>6, <1>7

\* What Append does to a sequence.
LEMMA AppendFacts ==
    ASSUME NEW S, NEW s \in Seq(S), NEW x \in S
    PROVE  /\ Append(s, x) \in Seq(S) /\ Len(Append(s, x)) = Len(s) + 1 /\ Len(s) \in Nat
           /\ Append(s, x)[Len(s) + 1] = x
           /\ \A i \in 1..Len(s) : Append(s, x)[i] = s[i]
           /\ Append(s, x) # <<>>
OBVIOUS

\* The same for Tail.
LEMMA TailFacts ==
    ASSUME NEW S, NEW s \in Seq(S), s # <<>>
    PROVE  /\ Tail(s) \in Seq(S) /\ Len(Tail(s)) = Len(s) - 1 /\ Len(s) \in Nat /\ Len(s) > 0
           /\ \A i \in 1..Len(Tail(s)) : Tail(s)[i] = s[i + 1]
           /\ Head(s) = s[1] /\ Head(s) \in S
           /\ Tail(s) = <<>> <=> Len(s) = 1
<1>1. /\ Tail(s) \in Seq(S) /\ Len(Tail(s)) = Len(s) - 1 /\ Len(s) \in Nat /\ Len(s) > 0
      /\ Head(s) = s[1] /\ Head(s) \in S
      OBVIOUS
<1>2. \A i \in 1..Len(Tail(s)) : Tail(s)[i] = s[i + 1]  OBVIOUS
<1>3. \A t \in Seq(S) : t = <<>> <=> Len(t) = 0  OBVIOUS
<1>4. Tail(s) = <<>> <=> Len(s) = 1  BY <1>1, <1>3
<1>. QED BY <1>1, <1>2, <1>4

\* The tracker is settled.
AtEnd == IF last = None THEN FALSE ELSE last.target \in Terminal

\* A projection is dropped, or it is new and the tracker was not settled.
LEMMA ProjectForms ==
    ASSUME NEW p, Project(p)
    PROVE  \/ UNCHANGED <<last, chan>>
           \/ ~AtEnd /\ last' = Key(p) /\ chan' = Append(chan, p)
BY DEF Project, Track, Admit, Admits, Tracked, AtEnd

\* Cancelling is dropped as a whole by a settled tracker, and is sent as a whole otherwise.
LEMMA CancelForms ==
    ASSUME TypeOK, EndInv, Track(Cancel)
    PROVE  \/ UNCHANGED <<last, chan>> /\ AtEnd
           \/ /\ ~AtEnd
              /\ last' = Key(TerminalProjection("Cancelled"))
              /\ chan' = Append(Append(chan, Projection("Cancelling", "", "")),
                                TerminalProjection("Cancelled"))
<1>. DEFINE c == Projection("Cancelling", "", "")
            t == TerminalProjection("Cancelled")
<1>1. /\ Key(c).target = "Cancelling" /\ Key(t).target = "Cancelled"
      /\ Key(c) # None /\ Key(t) # None
      BY ProjectionTypes, NoneFacts DEF Terminal
<1>2. CASE AtEnd
  <2>1. Admit(Tracked, c) = Tracked  BY <1>2 DEF Admit, Admits, Tracked, AtEnd
  <2>2. Admit(Tracked, t) = Tracked  BY <1>2 DEF Admit, Admits, Tracked, AtEnd
  <2>3. Cancel = Tracked  BY <2>1, <2>2 DEF Cancel
  <2>4. Tracked.last = last /\ Tracked.chan = chan  BY DEF Tracked
  <2>. QED BY <1>2, <2>3, <2>4 DEF Track
<1>3. CASE ~AtEnd
  <2>1. last # Key(c)  BY <1>1, NoneFacts DEF EndInv, Settled
  <2>2. Admit(Tracked, c) = [last |-> Key(c), chan |-> Append(chan, c)]
        BY <1>3, <2>1 DEF Admit, Admits, Tracked, AtEnd
  <2>3. "Cancelling" \notin Terminal  BY DEF Terminal
  <2>. DEFINE k == Key(c)
              l == Key(t)
  <2>4. k # l /\ k # None /\ k.target \notin Terminal  BY <1>1, <2>3
  <2>5. Admit(Tracked, c) = [last |-> k, chan |-> Append(chan, c)]  BY <2>2
  <2>6. Cancel = Admit([last |-> k, chan |-> Append(chan, c)], t)  BY <2>5 DEF Cancel
  <2>. HIDE DEF k, c
  <2>7. Cancel = [last |-> Key(t), chan |-> Append(Append(chan, c), t)]
        BY <2>4, <2>6 DEF Admit, Admits
  <2>. USE DEF c
  <2>. QED BY <1>3, <2>7 DEF Track
<1>. QED BY <1>2, <1>3

\* What the store does with a projection: it moves the run, or refuses.
LEMMA TransitionForms ==
    ASSUME TypeOK, run # None, NEW p \in Projections, NEW rev, Transition(p, rev)
    PROVE  /\ run' \in Runs
           /\ ((run'.life \in Waiting) <=> (run'.wait # ""))
           /\ \/ run' = run
              \/ run'.life = p.target /\ run.life \notin Terminal
           /\ rev = run.revision /\ ValidTransition(run.life, p.target, p.wait, p.outcome)
                 => run'.life = p.target
<1>1. run \in Runs  BY DEF TypeOK
<1>2. Moved(p) \in Runs /\ Moved(p).life = p.target /\ Moved(p).wait = p.wait
  <2>1. p.target \in Lifecycles /\ p.wait \in Waits  BY DEF Projections
  <2>2. run.revision \in Nat  BY <1>1 DEF Runs
  <2>3. run.revision + 1 \in Nat  BY <2>2
  <2>. QED BY <2>1, <2>3 DEF Moved, Runs
<1>3. CASE run' = run
  <2>1. (run.life \in Waiting) <=> (run.wait # "")  BY DEF TypeOK
  <2>. QED BY <1>1, <1>2, <1>3, <2>1 DEF Transition
<1>4. CASE run' = Moved(p) /\ ValidTransition(run.life, p.target, p.wait, p.outcome)
  <2>1. ((p.target \in Waiting) <=> (p.wait # "")) /\ run.life \notin Terminal
        BY <1>4 DEF ValidTransition, CanTransitionTo
  <2>. QED BY <1>2, <1>4, <2>1
<1>. QED BY <1>3, <1>4 DEF Transition

-----------------------------------------------------------------------------
(* The steps.                                                              *)

\* While n00n.run.start is under way nothing else writes the run.
LEMMA StartKeeps ==
    ASSUME Inv, Create \/ MarkStarting \/ StartError \/ NewRefused \/ FailStart
    PROVE  Inv'
<1>. USE DEF Inv
<1>1. UNCHANGED <<tui, session, last, chan, read>>
      BY DEF Create, MarkStarting, StartError, NewRefused, FailStart
<1>2. errors' \in 0..MaxErrors
  <2>1. errors \in 0..MaxErrors /\ MaxErrors \in Nat  BY ProjectionAssumption DEF TypeOK
  <2>2. errors' = errors \/ Error  BY DEF Create, MarkStarting, StartError, NewRefused, FailStart
  <2>. QED BY <2>1, <2>2 DEF Error
<1>3. session = "none" /\ last = None /\ chan = <<>> /\ read = None
      BY DEF Turns, TypeOK, Create, MarkStarting, StartError, NewRefused, FailStart
<1>4. /\ start' \in {"create", "mark", "request", "failing", "done"}
      /\ run' \in Runs \cup {None}
      /\ run' # None => ((run'.life \in Waiting) <=> (run'.wait # ""))
      /\ start' = "create" => run' = None
      /\ start' # "create" /\ start' # "done" => run' # None /\ run'.life \in {"Queued", "Starting"}
  <2>1. CASE Create
    <3>1. run' = [life |-> "Queued", revision |-> 1, wait |-> ""] /\ start' = "mark"
          BY <2>1 DEF Create
    <3>2. run' \in Runs /\ run'.life = "Queued" /\ run'.wait = ""
          BY <3>1 DEF Runs, Lifecycles, Active, Waits
    <3>. QED BY <3>1, <3>2, NoneFacts DEF Waiting
  <2>2. CASE MarkStarting
    <3>1. /\ start' = "request" /\ run # None /\ run.life \in {"Queued", "Starting"}
          /\ Transition(Projection("Starting", "", ""), 1)
          BY <2>2 DEF MarkStarting, Turns
    <3>2. Projection("Starting", "", "") \in Projections /\ Projection("Starting", "", "").target = "Starting"
          BY DEF Projection, Projections, Lifecycles, Active, Waits
    <3>3. /\ run' \in Runs /\ ((run'.life \in Waiting) <=> (run'.wait # ""))
          /\ run' = run \/ run'.life = "Starting"
          BY <3>1, <3>2, TransitionForms
    <3>. QED BY <3>1, <3>3, NoneFacts
  <2>3. CASE FailStart
    <3>1. start' = "done" /\ run # None /\ Transition(TerminalProjection("Failed"), 2)
          BY <2>3 DEF FailStart, Turns
    <3>2. TerminalProjection("Failed") \in Projections  BY ProjectionTypes DEF Terminal
    <3>3. run' \in Runs /\ ((run'.life \in Waiting) <=> (run'.wait # ""))
          BY <3>1, <3>2, TransitionForms
    <3>. QED BY <3>1, <3>3, NoneFacts
  <2>4. CASE StartError \/ NewRefused
    <3>1. run' = run /\ start' \in {"failing", "done"}  BY <2>4 DEF StartError, NewRefused
    <3>2. start' = "failing" => start = "request"  BY <2>4 DEF StartError, NewRefused
    <3>. QED BY <3>1, <3>2 DEF TypeOK, Turns
  <2>. QED BY <2>1, <2>2, <2>3, <2>4
<1>5. TypeOK'  BY <1>1, <1>2, <1>4 DEF TypeOK
<1>6. Turns'  BY <1>1, <1>3, <1>4 DEF Turns
<1>7. EndInv'  BY <1>1, <1>3 DEF EndInv, EndAgrees, Settled
<1>8. PathInv'  BY <1>1, <1>3 DEF PathInv, Settled
<1>. QED BY <1>5, <1>6, <1>7, <1>8

\* Before the first projection nothing has ended, and a settled tracker is at the end.
LEMMA UnsettledFacts ==
    ASSUME TypeOK, EndInv, Turns, ~AtEnd
    PROVE  /\ \A i \in 1..Len(chan) : chan[i].target \notin Terminal
           /\ session # "none" => run # None /\ run.life \notin Terminal
BY DEF EndInv, EndAgrees, Settled, AtEnd, Turns

\* A new projection at the end of the channel; q stands before it when the run is
\* cancelled.
LEMMA Sent ==
    ASSUME TypeOK, Turns, EndInv, PathInv, ~AtEnd, NEW p \in Projections,
           Key(p) \in Keys, Key(p).target = p.target, p.target # "Cancelling",
           last' = Key(p), p.target # "Cancelled", chan' = Append(chan, p),
           p.target = "Interrupted" => p = TerminalProjection("Interrupted"),
           start' = "done", run # None, run.life \notin Terminal, session' # "none",
           read = None \/ chan # <<>>,
           UNCHANGED <<run, read, errors>>
    PROVE  Turns' /\ EndInv' /\ PathInv'
<1>1. chan \in Seq(Projections)  BY DEF TypeOK
<1>2. /\ Len(chan') = Len(chan) + 1 /\ chan'[Len(chan) + 1] = p /\ Len(chan) \in Nat
      /\ \A i \in 1..Len(chan) : chan'[i] = chan[i]
      /\ chan' # <<>>
      BY <1>1
<1>3. last' # None /\ last'.target = p.target  BY NoneFacts
<1>4. \A i \in 1..Len(chan) : chan[i].target \notin Terminal  BY UnsettledFacts
<1>5. chan # <<>> => chan'[1] = chan[1]  BY <1>1, <1>2
<1>6. Turns'  BY <1>2, <1>3, <1>5 DEF Turns
<1>7. EndInv'  BY <1>2, <1>3, <1>4 DEF EndInv, EndAgrees, Settled
<1>8. PathInv'
  <2>. SUFFICES ASSUME p.target = "Interrupted" PROVE LeadsTo(run.life, "Interrupted")'
       BY <1>3 DEF PathInv, Settled
  <2>. QED BY <1>2, <1>4 DEF LeadsTo
<1>. QED BY <1>6, <1>7, <1>8

\* NewSession, AgentEvent and Shutdown project one event.
LEMMA ProjectKeeps ==
    ASSUME Inv, NewSession \/ (\E p \in EventProjections : AgentEvent(p)) \/ Shutdown
    PROVE  Inv'
<1>. USE DEF Inv
<1>1. UNCHANGED <<run, read, errors>>  BY DEF NewSession, AgentEvent, Shutdown
<1>2. /\ start' = IF NewSession THEN "done" ELSE start
      /\ start' \in {"create", "mark", "request", "failing", "done"}
      /\ tui' \in {"up", "closing", "down"} /\ session' \in {"none", "open", "removed"}
      BY DEF NewSession, AgentEvent, Shutdown, TypeOK
<1>3. ASSUME UNCHANGED <<start, session, last, chan>> PROVE Inv'
      BY <1>1, <1>2, <1>3 DEF TypeOK, Turns, EndInv, EndAgrees, PathInv, Settled, LeadsTo
<1>4. ASSUME NEW p \in Projections, Key(p) \in Keys, Key(p).target = p.target,
             p.target \in {"Running", "Succeeded", "Failed", "WaitingInput", "Interrupted"},
             p.target = "Interrupted" => p = TerminalProjection("Interrupted"),
             ~AtEnd, last' = Key(p), chan' = Append(chan, p), session' = "open",
             start' = "done", run # None, run.life \notin Terminal
      PROVE  Inv'
  <2>1. Turns' /\ EndInv' /\ PathInv'  BY <1>1, <1>4, Sent DEF Turns
  <2>2. chan' \in Seq(Projections)
    <3>1. chan \in Seq(Projections)  BY DEF TypeOK
    <3>. QED BY <1>4, <3>1, AppendFacts
  <2>3. TypeOK'  BY <1>1, <1>2, <1>4, <2>2 DEF TypeOK
  <2>. QED BY <2>1, <2>3
<1>5. CASE NewSession
  <2>1. /\ start = "request" /\ session' = "open" /\ Project(RunningProjection)
        BY <1>5 DEF NewSession
  <2>2. /\ session = "none" /\ last = None /\ run # None /\ run.life \notin Terminal
        BY <2>1 DEF Turns, Terminal
  <2>3. ~AtEnd  BY <2>2 DEF AtEnd
  <2>4. /\ RunningProjection \in Projections /\ Key(RunningProjection) \in Keys
        /\ RunningProjection.target = "Running" /\ Key(RunningProjection).target = "Running"
        BY ProjectionTypes DEF RunningProjection, Projection
  <2>5. Key(RunningProjection) # None  BY <2>4, NoneFacts
  <2>6. last' = Key(RunningProjection) /\ chan' = Append(chan, RunningProjection)
        BY <2>1, <2>2, <2>5 DEF Project, Track, Admit, Admits, Tracked
  <2>. QED BY <1>2, <1>4, <1>5, <2>1, <2>2, <2>3, <2>4, <2>6
<1>6. ASSUME NEW p \in EventProjections, AgentEvent(p) PROVE Inv'
  <2>1. session = "open" /\ session' = session /\ start' = start /\ Project(p)
        BY <1>6 DEF AgentEvent
  <2>2. start = "done" /\ run # None  BY <2>1 DEF Turns
  <2>3. CASE UNCHANGED <<last, chan>>  BY <1>3, <2>1, <2>3
  <2>4. CASE ~AtEnd /\ last' = Key(p) /\ chan' = Append(chan, p)
    <3>1. run.life \notin Terminal  BY <2>1, <2>4, UnsettledFacts
    <3>2. /\ p \in Projections /\ Key(p) \in Keys /\ Key(p).target = p.target
          /\ p.target \in {"Running", "Succeeded", "Failed", "WaitingInput"}
          BY ProjectionTypes
    <3>. QED BY <1>4, <2>1, <2>2, <2>4, <3>1, <3>2
  <2>. QED BY <2>1, <2>3, <2>4, ProjectForms
<1>7. CASE Shutdown
  <2>. DEFINE p == TerminalProjection("Interrupted")
  <2>1. start' = start /\ session' = session  BY <1>7 DEF Shutdown
  <2>2. CASE UNCHANGED <<last, chan>>  BY <1>3, <2>1, <2>2
  <2>3. CASE session = "open" /\ ~AtEnd /\ last' = Key(p) /\ chan' = Append(chan, p)
    <3>1. start = "done" /\ run # None /\ run.life \notin Terminal
          BY <2>3, UnsettledFacts DEF Turns
    <3>2. "Interrupted" \in Terminal  BY DEF Terminal
    <3>3. /\ p \in Projections /\ Key(p) \in Keys /\ Key(p).target = p.target
          /\ p.target = "Interrupted"
          BY <3>2, ProjectionTypes
    <3>. QED BY <1>4, <2>1, <2>3, <3>1, <3>3
  <2>4. session = "open" => Project(p)  BY <1>7 DEF Shutdown
  <2>5. session # "open" => UNCHANGED <<last, chan>>  BY <1>7 DEF Shutdown
  <2>. QED BY <2>2, <2>3, <2>4, <2>5, ProjectForms
<1>. QED BY <1>5, <1>6, <1>7

\* A cancel sends its two projections, or the run has ended.
LEMMA CancelKeeps ==
    ASSUME Inv, NEW left \in {"open", "removed"}, CancelSession(left)
    PROVE  Inv'
<1>. USE DEF Inv
<1>. DEFINE c == Projection("Cancelling", "", "")
            t == TerminalProjection("Cancelled")
<1>1. /\ session = "open" /\ session' = left /\ Track(Cancel)
      /\ UNCHANGED <<run, start, tui, read, errors>>
      BY DEF CancelSession
<1>2. start = "done" /\ run # None /\ last # None  BY <1>1 DEF Turns
<1>3. CASE UNCHANGED <<last, chan>>
      BY <1>1, <1>2, <1>3 DEF TypeOK, Turns, EndInv, EndAgrees, PathInv, Settled, LeadsTo
<1>4. CASE ~AtEnd /\ last' = Key(t) /\ chan' = Append(Append(chan, c), t)
  <2>1. run.life \notin Terminal /\ \A i \in 1..Len(chan) : chan[i].target \notin Terminal
        BY <1>1, <1>4, UnsettledFacts
  <2>2. "Cancelled" \in Terminal /\ "Cancelling" \notin Terminal  BY DEF Terminal
  <2>3. /\ c \in Projections /\ t \in Projections /\ c.target = "Cancelling"
        /\ t.target = "Cancelled" /\ Key(t) \in Keys /\ Key(t).target = "Cancelled"
        BY <2>2, ProjectionTypes
  <2>4. last' # None /\ last'.target = "Cancelled"  BY <1>4, <2>3, NoneFacts
  <2>5. chan \in Seq(Projections) /\ Len(chan) \in Nat
    <3>1. chan \in Seq(Projections)  BY DEF TypeOK
    <3>. QED BY <3>1
  <2>. HIDE DEF c, t
  <2>. DEFINE mid == Append(chan, c)
  <2>6. /\ mid \in Seq(Projections) /\ Len(mid) = Len(chan) + 1 /\ mid[Len(chan) + 1] = c
        /\ \A i \in 1..Len(chan) : mid[i] = chan[i]
        BY <2>3, <2>5, AppendFacts
  <2>. HIDE DEF mid
  <2>7. chan' = Append(mid, t)  BY <1>4 DEF mid
  <2>8. /\ chan' \in Seq(Projections) /\ Len(chan') = Len(chan) + 2
        /\ chan'[Len(chan) + 2] = t /\ chan'[Len(chan) + 1] = c
        /\ \A i \in 1..Len(chan) : chan'[i] = chan[i]
        /\ chan' # <<>>
    <3>1. /\ chan' \in Seq(Projections) /\ Len(chan') = Len(mid) + 1 /\ chan'[Len(mid) + 1] = t
          /\ \A i \in 1..Len(mid) : chan'[i] = mid[i]
          /\ chan' # <<>>
          BY <2>3, <2>6, <2>7, AppendFacts
    <3>. QED BY <2>5, <2>6, <3>1
  <2>9. chan # <<>> => chan'[1] = chan[1]  BY <2>5, <2>8
  <2>10. TypeOK'  BY <1>1, <1>4, <2>3, <2>8 DEF TypeOK
  <2>11. Turns'  BY <1>1, <1>2, <2>4, <2>8, <2>9 DEF Turns
  <2>12. EndInv'
    <3>1. \A i \in 1..Len(chan') : chan'[i].target \in Terminal => chan'[i].target = "Cancelled"
          BY <2>1, <2>2, <2>3, <2>5, <2>8
    <3>. QED BY <1>1, <2>1, <2>4, <3>1 DEF EndInv, EndAgrees, Settled
  <2>13. PathInv'
    <3>1. LeadsTo(run.life, "Cancelled")'
      <4>1. \A i \in 1..Len(chan') : i # Len(chan') => chan'[i].target \notin Terminal
            BY <2>1, <2>2, <2>3, <2>5, <2>8
      <4>2. Len(chan') # 1 /\ Len(chan') - 1 = Len(chan) + 1  BY <2>5, <2>8
      <4>. QED BY <1>1, <2>1, <2>8, <4>1, <4>2 DEF LeadsTo, c, t
    <3>. QED BY <2>4, <3>1 DEF PathInv, Settled
  <2>. QED BY <2>10, <2>11, <2>12, <2>13
<1>. QED BY <1>1, <1>3, <1>4, CancelForms

\* Leaving only forgets: what is lost counts as a failure.
LEMMA ExitKeeps ==
    ASSUME Inv, Exit \/ ExitTimeout
    PROVE  Inv'
<1>. USE DEF Inv
<1>1. UNCHANGED <<run, start, session, last>> /\ tui' = "down"  BY DEF Exit, ExitTimeout
<1>2. CASE Exit
  <2>1. UNCHANGED <<chan, read, errors>>  BY <1>2 DEF Exit
  <2>. QED BY <1>1, <2>1 DEF TypeOK, Turns, EndInv, EndAgrees, PathInv, Settled, LeadsTo
<1>3. CASE ExitTimeout
  <2>1. chan' = <<>> /\ read' = None /\ errors < MaxErrors /\ errors' = errors + 1
        BY <1>3 DEF ExitTimeout, Error
  <2>2. errors \in 0..MaxErrors /\ MaxErrors \in Nat  BY ProjectionAssumption DEF TypeOK
  <2>3. errors' \in 0..MaxErrors /\ errors' # 0  BY <2>1, <2>2
  <2>4. TypeOK'
    <3>1. <<>> \in Seq(Projections)  OBVIOUS
    <3>. QED BY <1>1, <2>1, <2>3, <3>1 DEF TypeOK
  <2>5. Turns'  BY <1>1, <2>1 DEF Turns
  <2>6. EndInv'  BY <1>1, <2>1 DEF EndInv, EndAgrees, Settled
  <2>7. PathInv'  BY <2>3 DEF PathInv
  <2>. QED BY <2>4, <2>5, <2>6, <2>7
<1>. QED BY <1>2, <1>3

\* The channel without its first command.
Shifted ==
    /\ chan' \in Seq(Projections) /\ Len(chan) \in Nat /\ Len(chan') \in Nat
    /\ Len(chan) = Len(chan') + 1
    /\ \A i \in 1..Len(chan') : chan'[i] = chan[i + 1]
    /\ chan' = <<>> <=> Len(chan') = 0

\* Taking the first command shifts the rest.
LEMMA TailShifts ==
    ASSUME TypeOK, chan # <<>>, chan' = Tail(chan)
    PROVE  Shifted
<1>1. chan \in Seq(Projections)  BY DEF TypeOK
<1>2. /\ Tail(chan) \in Seq(Projections) /\ Len(Tail(chan)) = Len(chan) - 1
      /\ Len(chan) \in Nat /\ Len(chan) > 0
      /\ \A i \in 1..Len(Tail(chan)) : Tail(chan)[i] = chan[i + 1]
      /\ Tail(chan) = <<>> <=> Len(chan) = 1
      BY <1>1, TailFacts
<1>3. Len(Tail(chan)) \in Nat  BY <1>2
<1>. QED BY <1>2, <1>3 DEF Shifted

\* The writer is done with its first command: what it leaves of the run is the run, or
\* the command's target.  On a path to a cancel or an interruption it is the target
\* whenever the command is one of the last two.
Handled ==
    /\ run # None /\ run' \in Runs
    /\ (run'.life \in Waiting) <=> (run'.wait # "")
    /\ run' = run \/ (run'.life = chan[1].target /\ run.life \notin Terminal)
    /\ read' = None /\ UNCHANGED <<start, tui, session, last>>
    /\ errors' \in 0..MaxErrors
    /\ errors' = 0 => errors = 0
    /\ errors' = 0 /\ run.life \notin Terminal =>
          /\ chan[1] = TerminalProjection("Interrupted") => run'.life = "Interrupted"
          /\ chan[1] = Projection("Cancelling", "", "") => run'.life = "Cancelling"
          /\ chan[1] = TerminalProjection("Cancelled") /\ run.life = "Cancelling"
                => run'.life = "Cancelled"

\* That keeps the invariant.
LEMMA Popped ==
    ASSUME Inv, chan # <<>>, Shifted, Handled
    PROVE  Inv'
<1>1. TypeOK /\ Turns /\ EndInv /\ PathInv  BY DEF Inv
<1>2. /\ chan' \in Seq(Projections) /\ Len(chan) \in Nat /\ Len(chan') \in Nat
      /\ Len(chan) = Len(chan') + 1 /\ \A i \in 1..Len(chan') : chan'[i] = chan[i + 1]
      /\ chan' = <<>> <=> Len(chan') = 0
      BY DEF Shifted
<1>3. TypeOK'
  <2>1. UNCHANGED <<start, tui, session, last>>  BY DEF Handled
  <2>2. run' # None /\ run' \in Runs  BY NoneFacts DEF Handled
  <2>3. (run'.life \in Waiting) <=> (run'.wait # "")  BY DEF Handled
  <2>4. read' = None /\ errors' \in 0..MaxErrors  BY DEF Handled
  <2>. QED BY <1>1, <1>2, <2>1, <2>2, <2>3, <2>4 DEF TypeOK
<1>4. session # "none" /\ start = "done" /\ last # None  BY <1>1 DEF Turns, TypeOK
<1>5. Turns'  BY <1>4, NoneFacts DEF Turns, Handled
<1>6. EndInv'
  <2>1. \A i \in 1..Len(chan') : i + 1 \in 1..Len(chan)  BY <1>2
  <2>2. \A i \in 1..Len(chan') : chan'[i].target \in Terminal => Settled(chan'[i].target)
        BY <1>1, <1>2, <2>1 DEF EndInv
  <2>3. run'.life \in Terminal => Settled(run'.life)
    <3>1. 1 \in 1..Len(chan)  BY <1>2
    <3>2. chan[1].target \in Terminal => Settled(chan[1].target)  BY <1>1, <3>1 DEF EndInv
    <3>3. run.life \in Terminal => Settled(run.life)
          BY <1>1, <1>4 DEF EndInv, EndAgrees, Handled
    <3>. QED BY <3>2, <3>3 DEF Handled
  <2>. QED BY <1>1, <2>2, <2>3 DEF EndInv, EndAgrees, Settled, Handled
<1>7. ASSUME NEW t \in {"Cancelled", "Interrupted"}, errors' = 0, Settled(t)
      PROVE  (chan' = <<>> /\ run'.life = t) \/ LeadsTo(run.life, t)'
  <2>1. LeadsTo(run.life, t)  BY <1>1, <1>7 DEF PathInv, Handled
  <2>2. PICK n \in Nat : n = Len(chan')  BY <1>2
  <2>3. Len(chan) = n + 1 /\ (Len(chan) = 1 <=> n = 0) /\ Len(chan) - 1 = n  BY <1>2, <2>2
  <2>4. /\ run.life \notin Terminal /\ chan[n + 1] = TerminalProjection(t)
        /\ \A i \in 1..n : chan[i].target \notin Terminal
        /\ t = "Cancelled" => IF n = 0 THEN run.life = "Cancelling"
                              ELSE chan[n] = Projection("Cancelling", "", "")
    <3>1. \A i \in 1..n : i \in 1..(n + 1) /\ i # n + 1  BY <2>2
    <3>. QED BY <2>1, <2>3, <3>1 DEF LeadsTo
  <2>5. CASE n = 0
    <3>1. chan' = <<>> /\ chan[1] = TerminalProjection(t)
      <4>1. 0 + 1 = 1  OBVIOUS
      <4>. QED BY <1>2, <2>2, <2>4, <2>5, <4>1
    <3>2. run'.life = t  BY <1>7, <2>4, <2>5, <3>1 DEF Handled
    <3>. QED BY <3>1, <3>2
  <2>6. CASE n # 0
    <3>1. chan' # <<>> /\ n \in 1..n /\ 1 \in 1..n  BY <1>2, <2>2, <2>6
    <3>2. chan'[n] = TerminalProjection(t)  BY <1>2, <2>2, <2>4, <3>1
    <3>3. \A i \in 1..n : i # n => chan'[i].target \notin Terminal
      <4>1. \A i \in 1..n : i # n => i + 1 \in 1..n  OBVIOUS
      <4>. QED BY <1>2, <2>2, <2>4, <4>1
    <3>4. run'.life \notin Terminal  BY <2>4, <3>1 DEF Handled
    <3>5. t = "Cancelled" => IF n = 1 THEN run'.life = "Cancelling"
                             ELSE chan'[n - 1] = Projection("Cancelling", "", "")
      <4>1. CASE n = 1
        <5>1. t = "Cancelled" => chan[1] = Projection("Cancelling", "", "")
              BY <2>4, <2>6, <4>1
        <5>. QED BY <1>7, <2>4, <4>1, <5>1 DEF Handled
      <4>2. CASE n # 1
        <5>1. n - 1 \in 1..n /\ (n - 1) + 1 = n  BY <2>6, <4>2
        <5>2. chan'[n - 1] = chan[n]  BY <1>2, <2>2, <5>1
        <5>. QED BY <2>4, <2>6, <4>2, <5>2
      <4>. QED BY <4>1, <4>2
    <3>. QED BY <2>2, <3>1, <3>2, <3>3, <3>4, <3>5 DEF LeadsTo
  <2>. QED BY <2>5, <2>6
<1>8. PathInv'  BY <1>7 DEF PathInv, Settled, Handled
<1>. QED BY <1>3, <1>5, <1>6, <1>8 DEF Inv

\* From every state but its own a run can be interrupted and cancelled, and a cancelling
\* run becomes a cancelled one (can_transition_to).
LEMMA EndsReachable ==
    ASSUME NEW life \in Lifecycles \ Terminal
    PROVE  /\ ValidTransition(life, "Interrupted", "", "Interrupted")
           /\ life # "Cancelling" => ValidTransition(life, "Cancelling", "", "")
           /\ ValidTransition("Cancelling", "Cancelled", "", "Cancelled")
<1>1. /\ CanTransitionTo(life, "Interrupted")
      /\ life # "Cancelling" => CanTransitionTo(life, "Cancelling")
      /\ CanTransitionTo("Cancelling", "Cancelled")
      BY DEF CanTransitionTo, Successors, Lifecycles, Active, Terminal
<1>. QED BY <1>1 DEF ValidTransition, OutcomeMatches, Waiting, Terminal

\* The writer takes its commands one by one.
LEMMA WriterKeeps ==
    ASSUME Inv, Writer
    PROVE  Inv'
<1>. USE DEF Inv
<1>0. chan # <<>>  BY DEF Writer, WriterReads, WriterWrites, WriterFails, Turns
<1>1. chan \in Seq(Projections)  BY DEF TypeOK
<1>2. /\ Head(chan) = chan[1] /\ chan[1] \in Projections /\ Len(chan) \in Nat /\ Len(chan) > 0
      BY <1>0, <1>1, TailFacts
<1>3. run # None /\ run \in Runs /\ run.life \in Lifecycles
      /\ ((run.life \in Waiting) <=> (run.wait # ""))
  <2>1. run # None  BY <1>0 DEF Turns, TypeOK
  <2>. QED BY <2>1 DEF TypeOK, Runs
<1>4. errors \in 0..MaxErrors /\ MaxErrors \in Nat  BY ProjectionAssumption DEF TypeOK
<1>5. UNCHANGED <<start, tui, session, last>>  BY DEF Writer, WriterReads, WriterWrites, WriterFails
<1>6. CASE WriterReads /\ run.life \in Terminal \cup {Head(chan).target}
  <2>1. chan' = Tail(chan) /\ read' = None /\ UNCHANGED <<run, errors>>
        BY <1>6 DEF WriterReads
  <2>2. run.life \notin Terminal =>
              /\ chan[1] = TerminalProjection("Interrupted") => run.life = "Interrupted"
              /\ chan[1] = Projection("Cancelling", "", "") => run.life = "Cancelling"
              /\ chan[1] = TerminalProjection("Cancelled") => run.life = "Cancelled"
    <3>1. "Interrupted" \in Terminal /\ "Cancelled" \in Terminal  BY DEF Terminal
    <3>2. run.life \notin Terminal => run.life = chan[1].target  BY <1>2, <1>6
    <3>3. /\ TerminalProjection("Interrupted").target = "Interrupted"
          /\ TerminalProjection("Cancelled").target = "Cancelled"
          /\ Projection("Cancelling", "", "").target = "Cancelling"
          BY <3>1, ProjectionTypes
    <3>. QED BY <3>2, <3>3
  <2>. QED BY <1>0, <1>3, <1>4, <1>5, <2>1, <2>2, TailShifts, Popped DEF Handled
<1>7. CASE WriterReads /\ run.life \notin Terminal \cup {Head(chan).target}
  <2>1. read' = run.revision /\ UNCHANGED <<run, start, tui, session, last, chan, errors>>
        BY <1>7 DEF WriterReads
  <2>2. run.revision \in Nat  BY <1>3 DEF Runs
  <2>3. TypeOK'  BY <2>1, <2>2 DEF TypeOK
  <2>4. Turns'  BY <1>0, <1>2, <1>3, <1>7, <2>1 DEF Turns
  <2>5. EndInv' /\ PathInv'
        BY <2>1 DEF EndInv, EndAgrees, PathInv, Settled, LeadsTo
  <2>. QED BY <2>3, <2>4, <2>5
<1>8. CASE WriterWrites
  <2>1. /\ Transition(chan[1], read) /\ chan' = Tail(chan) /\ read' = None /\ errors' = errors
        /\ read # None
        BY <1>2, <1>8 DEF WriterWrites
  <2>2. read = run.revision /\ run.life \notin Terminal /\ run.life # chan[1].target
        BY <2>1 DEF Turns
  <2>3. /\ run' \in Runs /\ ((run'.life \in Waiting) <=> (run'.wait # ""))
        /\ run' = run \/ (run'.life = chan[1].target /\ run.life \notin Terminal)
        /\ ValidTransition(run.life, chan[1].target, chan[1].wait, chan[1].outcome)
              => run'.life = chan[1].target
        BY <1>2, <1>3, <2>1, <2>2, TransitionForms
  <2>4. /\ chan[1] = TerminalProjection("Interrupted") => run'.life = "Interrupted"
        /\ chan[1] = Projection("Cancelling", "", "") => run'.life = "Cancelling"
        /\ chan[1] = TerminalProjection("Cancelled") /\ run.life = "Cancelling"
              => run'.life = "Cancelled"
    <3>1. "Interrupted" \in Terminal /\ "Cancelled" \in Terminal  BY DEF Terminal
    <3>2. CASE chan[1] = TerminalProjection("Interrupted")
      <4>1. chan[1].target = "Interrupted" /\ chan[1].wait = "" /\ chan[1].outcome = "Interrupted"
            BY <3>1, <3>2, ProjectionTypes
      <4>2. run'.life = "Interrupted"  BY <1>3, <2>2, <2>3, <4>1, EndsReachable
      <4>3. chan[1] # Projection("Cancelling", "", "") /\ chan[1] # TerminalProjection("Cancelled")
            BY <3>1, <4>1, ProjectionTypes
      <4>. QED BY <4>2, <4>3
    <3>3. CASE chan[1] = Projection("Cancelling", "", "")
      <4>1. chan[1].target = "Cancelling" /\ chan[1].wait = "" /\ chan[1].outcome = ""
            BY <3>3, ProjectionTypes
      <4>2. run'.life = "Cancelling"  BY <1>3, <2>2, <2>3, <4>1, EndsReachable
      <4>3. chan[1] # TerminalProjection("Interrupted") /\ chan[1] # TerminalProjection("Cancelled")
            BY <3>1, <4>1, ProjectionTypes
      <4>. QED BY <4>2, <4>3
    <3>4. CASE chan[1] = TerminalProjection("Cancelled")
      <4>1. chan[1].target = "Cancelled" /\ chan[1].wait = "" /\ chan[1].outcome = "Cancelled"
            BY <3>1, <3>4, ProjectionTypes
      <4>2. run.life = "Cancelling" => run'.life = "Cancelled"
            BY <1>3, <2>2, <2>3, <4>1, EndsReachable
      <4>3. chan[1] # Projection("Cancelling", "", "") /\ chan[1] # TerminalProjection("Interrupted")
            BY <3>1, <4>1, ProjectionTypes
      <4>. QED BY <4>2, <4>3
    <3>. QED BY <3>2, <3>3, <3>4
  <2>. QED BY <1>0, <1>3, <1>4, <1>5, <2>1, <2>3, <2>4, TailShifts, Popped DEF Handled
<1>9. CASE WriterFails
  <2>1. chan' = Tail(chan) /\ read' = None /\ run' = run /\ errors < MaxErrors /\ errors' = errors + 1
        BY <1>9 DEF WriterFails, Error
  <2>2. errors' \in 0..MaxErrors /\ errors' # 0  BY <1>4, <2>1
  <2>. QED BY <1>0, <1>3, <1>5, <2>1, <2>2, TailShifts, Popped DEF Handled
<1>. QED BY <1>6, <1>7, <1>8, <1>9 DEF Writer

-----------------------------------------------------------------------------
\* The invariant is inductive.
LEMMA ProjectionInvariant == Spec => []Inv
<1>1. Init => Inv
  <2>. SUFFICES ASSUME Init PROVE Inv  OBVIOUS
  <2>1. TypeOK
    <3>1. <<>> \in Seq(Projections)  OBVIOUS
    <3>2. 0 \in 0..MaxErrors
      <4>1. MaxErrors \in Nat  BY ProjectionAssumption
      <4>. QED BY <4>1
    <3>. QED BY <3>1, <3>2 DEF Init, TypeOK
  <2>2. Turns  BY DEF Init, Turns
  <2>3. EndInv  BY DEF Init, EndInv, EndAgrees, Settled
  <2>4. PathInv  BY DEF Init, PathInv, Settled
  <2>. QED BY <2>1, <2>2, <2>3, <2>4 DEF Inv
<1>2. Inv /\ [Next]_vars => Inv'
  <2>. SUFFICES ASSUME Inv, [Next]_vars PROVE Inv'  OBVIOUS
  <2>1. CASE Start  BY <2>1, StartKeeps, ProjectKeeps DEF Start
  <2>2. CASE Loop  BY <2>2, ProjectKeeps, CancelKeeps, ExitKeeps DEF Loop
  <2>3. CASE Writer  BY <2>3, WriterKeeps
  <2>4. CASE UNCHANGED vars
        BY <2>4 DEF vars, Inv, TypeOK, Turns, EndInv, EndAgrees, PathInv, Settled, LeadsTo
  <2>. QED BY <2>1, <2>2, <2>3, <2>4 DEF Next
<1>. QED BY <1>1, <1>2, PTL DEF Spec

\* Every variable keeps its type, and the stored run has a wait reason exactly while it
\* waits, whatever projections are merged, dropped or refused (validate_transition).
THEOREM ProjectionTypeCorrect == Spec => []TypeOK
<1>1. Inv => TypeOK  BY DEF Inv
<1>. QED BY <1>1, ProjectionInvariant, PTL

\* The store shows no other end than the one the event loop settled on, or a failed start:
\* RunProjectionTracker::admit admits nothing after an end, so a late Done cannot turn a
\* cancelled run into a succeeded one, however far the writer lags behind.
THEOREM ProjectionEnds == Spec => []EndAgrees
<1>1. Inv => EndAgrees  BY DEF Inv, EndInv
<1>. QED BY <1>1, ProjectionInvariant, PTL

\* A cancelled or interrupted run ends as such once the writer has drained and nothing
\* failed: RunProjectionTracker::cancel and interrupt lead to their end from every state
\* in which the commands before them can leave the run.
THEOREM ProjectionCancels == Spec => []CancelLands
<1>1. Inv => CancelLands
      BY DEF Inv, PathInv, CancelLands, Drained, LeadsTo
<1>. QED BY <1>1, ProjectionInvariant, PTL
=============================================================================
