----------------------------- MODULE JobsProofs -----------------------------
(***************************************************************************)
(* Proofs about Jobs for any jobs, hours, ticks and staff: the types, that *)
(* no two ticks work on one date, and that a row in progress has somebody  *)
(* at work on it.                                                          *)
(***************************************************************************)
EXTENDS Jobs, TLAPS

\* What a request has in hand: a run that exists, of which there is a row by the
\* time it is at work; and ticks start a date only while it has no row.
InHand == \A p \in Process :
    /\ process[p].phase \in {"creating", "working", "telling"} => process[p].run \in Run
    /\ AtWork(p) => row[process[p].run].status # "none"

StartedOnce == \A r \in Run : row[r].status = "none" => starts[r] = 0

IInv == TypeOK /\ InHand /\ StartedOnce /\ ExclusiveRun /\ RowIsHonest

-----------------------------------------------------------------------------
\* The hours of the clock are numbers.
LEMMA ClockIsNatural == 0..LastClock \subseteq Nat /\ 0 \in 0..LastClock /\ 0 \in Nat
  BY BoundAssumption

\* At the start no date has a row and nobody is at work.
LEMMA InitHolds == Init => IInv
  BY BoundAssumption, ClockIsNatural
     DEF Init, IInv, TypeOK, InHand, StartedOnce, ExclusiveRun, RowIsHonest, NoRow, Row, Idle,
         ProcessState, Phase, AtWork, WorksOn

\* The one whom a request has to do with next is a run of its list.
LEMMA PickedIsARun ==
  ASSUME TypeOK, NEW p \in Process, NEW r \in Picked(p)
  PROVE  r \in process[p].todo /\ r \in Run /\ process[p].phase = "picking"
  BY DEF TypeOK, ProcessState, Picked

\* A step that changes one request and no row, and neither takes the request to
\* work nor from it, preserves the invariant.
LEMMA Aside ==
  ASSUME IInv, NEW p \in Process, NEW new \in ProcessState,
         process' = [process EXCEPT ![p] = new],
         process[p].phase # "working", new.phase # "working",
         new.phase \in {"creating", "telling"} => new.run \in Run,
         row' = row, overlapped' = overlapped, orphaned' = orphaned, starts' = starts
  PROVE  process' \in [Process -> ProcessState]
         /\ InHand' /\ StartedOnce' /\ ExclusiveRun' /\ RowIsHonest'
  <1>1. process' \in [Process -> ProcessState]
    BY DEF IInv, TypeOK
  <1>2. /\ process'[p] = new
        /\ \A q \in Process \ {p} : process'[q] = process[q]
    BY DEF IInv, TypeOK
  <1>3. \A q \in Process : \A r \in Run : WorksOn(q, r)' <=> WorksOn(q, r)
    BY <1>2 DEF WorksOn, AtWork
  <1>4. InHand'
    BY <1>2 DEF IInv, InHand, AtWork
  <1>5. StartedOnce'
    BY DEF IInv, StartedOnce
  <1>6. ExclusiveRun'
    BY <1>3 DEF IInv, ExclusiveRun
  <1>7. RowIsHonest'
    BY <1>3 DEF IInv, RowIsHonest
  <1> QED
    BY <1>1, <1>4, <1>5, <1>6, <1>7

\* The list a request goes through, and where it goes on from a run.
LEMMA GoesOnTyped ==
  ASSUME TypeOK, NEW p \in Process
  PROVE  LET new == [process[p] EXCEPT !.phase = "picking", !.todo = @ \ {process[p].run},
                                       !.run = NoRun]
         IN  /\ GoesOn(p) = [process EXCEPT ![p] = new]
             /\ new \in ProcessState /\ new.phase = "picking"
  <1>1. process[p] \in ProcessState
    BY DEF TypeOK
  <1> QED
    BY <1>1 DEF GoesOn, ProcessState, Phase, TypeOK

\* What the queue offers are runs.
LEMMA OwedAreRuns == Owed \subseteq Run
  BY DEF Owed

-----------------------------------------------------------------------------
(* The steps *)

\* Time changes no row.
LEMMA TimePassesHolds == IInv /\ TimePasses => IInv'
  <1> SUFFICES ASSUME IInv, TimePasses PROVE IInv'
    OBVIOUS
  <1>1. clock' \in 0..LastClock
    BY BoundAssumption DEF TimePasses, IInv, TypeOK
  <1>2. UNCHANGED <<row, process, task, alarmed, mishaps, starts, overlapped, orphaned, untold>>
    BY DEF TimePasses
  <1>3. TypeOK'
    BY <1>1, <1>2 DEF IInv, TypeOK
  <1>4. InHand' /\ StartedOnce' /\ ExclusiveRun' /\ RowIsHonest'
    BY <1>2 DEF IInv, InHand, StartedOnce, ExclusiveRun, RowIsHonest, WorksOn, AtWork
  <1> QED
    BY <1>3, <1>4 DEF IInv

\* A process that takes up a list of runs has none in hand yet.
LEMMA StartsHold ==
  ASSUME IInv, NEW p \in Process, process[p].phase = "idle",
         NEW todo \in SUBSET Run,
         process' = [process EXCEPT ![p] = [Idle EXCEPT !.phase = "picking", !.todo = todo,
                                                        !.began = clock]],
         mishaps' \in Nat,
         UNCHANGED <<clock, row, task, alarmed, starts, overlapped, orphaned, untold>>
  PROVE  IInv'
  <1> DEFINE new == [Idle EXCEPT !.phase = "picking", !.todo = todo, !.began = clock]
  <1>1. new \in ProcessState /\ new.phase = "picking"
    BY DEF Idle, ProcessState, Phase, IInv, TypeOK
  <1>2. process' = [process EXCEPT ![p] = new]
    OBVIOUS
  <1> HIDE DEF new
  <1>3. process' \in [Process -> ProcessState]
        /\ InHand' /\ StartedOnce' /\ ExclusiveRun' /\ RowIsHonest'
    BY <1>1, <1>2, Aside
  <1>4. TypeOK'
    BY <1>3 DEF IInv, TypeOK
  <1> QED
    BY <1>3, <1>4 DEF IInv

\* A tick takes up what is owed.
LEMMA StartTickHolds == ASSUME IInv, NEW p \in Tick, StartTick(p) PROVE IInv'
  <1>1. p \in Process /\ mishaps' \in Nat
    BY DEF Process, StartTick, IInv, TypeOK
  <1> QED
    BY <1>1, OwedAreRuns, StartsHold DEF StartTick

\* Staff take up one run, whatever its row says.
LEMMA ForceHolds == ASSUME IInv, NEW p \in Staff, NEW r \in Run, ForceRun(p, r) PROVE IInv'
  <1>1. p \in Process /\ mishaps' \in Nat /\ {r} \in SUBSET Run
    BY DEF Process, ForceRun, IInv, TypeOK
  <1> QED
    BY <1>1, StartsHold DEF ForceRun

\* Only the request moves, and it is not at work before or after.
LEMMA AsideHolds ==
  ASSUME IInv, NEW p \in Process, NEW new \in ProcessState,
         process' = [process EXCEPT ![p] = new],
         process[p].phase # "working", new.phase # "working",
         new.phase \in {"creating", "telling"} => new.run \in Run,
         mishaps' \in Nat, task' \subseteq Run, alarmed' \subseteq Job, untold' \subseteq Run,
         UNCHANGED <<clock, row, starts, overlapped, orphaned>>
  PROVE  IInv'
  <1>1. process' \in [Process -> ProcessState]
        /\ InHand' /\ StartedOnce' /\ ExclusiveRun' /\ RowIsHonest'
    BY Aside
  <1>2. TypeOK'
    BY <1>1 DEF IInv, TypeOK
  <1> QED
    BY <1>1, <1>2 DEF IInv

\* A run whose row forbids it is passed over.
LEMMA SkipHolds == ASSUME IInv, NEW p \in Process, Skip(p) PROVE IInv'
  <1> PICK r \in Picked(p) : process' = [process EXCEPT ![p].todo = @ \ {r}]
    BY DEF Skip
  <1> DEFINE new == [process[p] EXCEPT !.todo = @ \ {r}]
  <1>1. process[p] \in ProcessState /\ process[p].phase = "picking"
    BY PickedIsARun DEF IInv, TypeOK
  <1>2. new \in ProcessState /\ new.phase = "picking" /\ process' = [process EXCEPT ![p] = new]
    BY <1>1 DEF ProcessState
  <1> HIDE DEF new
  <1> QED
    BY <1>1, <1>2, AsideHolds DEF Skip, IInv, TypeOK

\* A run without a row is about to be inserted.
LEMMA FindNoneHolds == ASSUME IInv, NEW p \in Process, FindNone(p) PROVE IInv'
  <1> PICK r \in Picked(p) : process' = [process EXCEPT ![p].phase = "creating", ![p].run = r]
    BY DEF FindNone
  <1> DEFINE new == [process[p] EXCEPT !.phase = "creating", !.run = r]
  <1>1. process[p] \in ProcessState /\ process[p].phase = "picking" /\ r \in Run
    BY PickedIsARun DEF IInv, TypeOK
  <1>2. /\ new \in ProcessState /\ new.phase = "creating" /\ new.run = r
        /\ process' = [process EXCEPT ![p] = new]
    BY <1>1 DEF ProcessState, Phase
  <1> HIDE DEF new
  <1> QED
    BY <1>1, <1>2, AsideHolds DEF FindNone, IInv, TypeOK

\* The unique index lets one of two inserts pass; the other goes on to its next run.
LEMMA LoseTheInsertHolds == ASSUME IInv, NEW p \in Process, LoseTheInsert(p) PROVE IInv'
  BY GoesOnTyped, AsideHolds DEF LoseTheInsert, IInv, TypeOK

\* A task for staff is written, and the run is over.
LEMMA TellHolds == ASSUME IInv, NEW p \in Process, Tell(p) PROVE IInv'
  <1>1. task' \subseteq Run
    BY DEF Tell, IInv, InHand, TypeOK
  <1> QED
    BY <1>1, GoesOnTyped, AsideHolds DEF Tell, IInv, TypeOK

\* What the budget leaves for the next tick changes no row.
LEMMA DeferHolds == ASSUME IInv, NEW p \in Tick, Defer(p) PROVE IInv'
  <1> DEFINE new == [process[p] EXCEPT !.todo = {}]
  <1>1. p \in Process /\ process[p] \in ProcessState /\ process[p].phase = "picking"
    BY DEF Process, Defer, IInv, TypeOK
  <1>2. new \in ProcessState /\ new.phase = "picking" /\ process' = [process EXCEPT ![p] = new]
    BY <1>1 DEF ProcessState, Defer
  <1>3. mishaps' \in Nat
    BY DEF Defer, IInv, TypeOK
  <1> HIDE DEF new
  <1> QED
    BY <1>1, <1>2, <1>3, AsideHolds DEF Defer, IInv, TypeOK

\* A process at rest is well typed.
LEMMA IdleTyped == Idle \in ProcessState /\ Idle.phase = "idle"
  BY ClockIsNatural DEF Idle, ProcessState, Phase

\* A tick or a forced run that ends had nothing in hand.
LEMMA EndsHold == ASSUME IInv, NEW p \in Process, EndTick(p) \/ EndForce(p) PROVE IInv'
  <1>1. /\ process' = [process EXCEPT ![p] = Idle] /\ process[p].phase # "working"
        /\ alarmed' \subseteq Job
        /\ UNCHANGED <<clock, row, task, mishaps, starts, overlapped, orphaned, untold>>
    BY DEF EndTick, EndForce, IInv, TypeOK
  <1> QED
    BY <1>1, IdleTyped, AsideHolds DEF IInv, TypeOK

-----------------------------------------------------------------------------
(* The steps at work *)

\* A date gets its row, which nobody can have been at work on.
LEMMA CreateHolds == ASSUME IInv, NEW p \in Process, Create(p) PROVE IInv'
  <1> DEFINE r == process[p].run
             new == [process[p] EXCEPT !.phase = "working"]
  <1>1. /\ process[p] \in ProcessState /\ r \in Run /\ row[r].status = "none"
        /\ ~AtWork(p) /\ starts[r] = 0
    BY DEF Create, CanCreate, IInv, TypeOK, InHand, StartedOnce, AtWork
  <1>2. /\ new \in ProcessState /\ new.phase = "working" /\ new.run = r
        /\ process' = [process EXCEPT ![p] = new]
    BY <1>1 DEF ProcessState, Phase, Create
  <1>3. /\ row' = [row EXCEPT ![r] = [status |-> "running", at |-> 0]]
        /\ starts' = [starts EXCEPT ![r] = @ + 1]
        /\ UNCHANGED <<clock, task, alarmed, mishaps, overlapped, orphaned, untold>>
    BY DEF Create
  <1> HIDE DEF r, new
  <1>4. /\ process' \in [Process -> ProcessState] /\ process'[p] = new
        /\ \A q \in Process \ {p} : process'[q] = process[q]
    BY <1>2 DEF IInv, TypeOK
  <1>5. /\ row' \in [Run -> Row] /\ row'[r].status = "running"
        /\ \A s \in Run \ {r} : row'[s] = row[s]
    BY <1>1, <1>3, ClockIsNatural DEF IInv, TypeOK, Row
  <1>6. starts' \in [Run -> 0..1] /\ \A s \in Run \ {r} : starts'[s] = starts[s]
    BY <1>1, <1>3 DEF IInv, TypeOK
  <1>7. TypeOK'
    BY <1>3, <1>4, <1>5, <1>6 DEF IInv, TypeOK
  <1>8. \A q \in Process, s \in Run :
            WorksOn(q, s)' <=> (IF q = p THEN s = r ELSE WorksOn(q, s))
    BY <1>2, <1>4 DEF WorksOn, AtWork
  <1>9. \A q \in Process : ~WorksOn(q, r)
    BY <1>1 DEF WorksOn, IInv, InHand
  <1>10. InHand'
    BY <1>1, <1>2, <1>4, <1>5 DEF IInv, InHand, AtWork
  <1>11. StartedOnce'
    BY <1>5, <1>6 DEF IInv, StartedOnce
  <1>12. ExclusiveRun'
    BY <1>3, <1>8, <1>9 DEF IInv, ExclusiveRun
  <1>13. \A s \in Run \ {r} : (\E q \in Process : WorksOn(q, s))
                                  <=> (\E q \in Process : WorksOn(q, s)')
    BY <1>1, <1>8 DEF WorksOn
  <1>14. RowIsHonest'
    BY <1>1, <1>3, <1>5, <1>8, <1>13 DEF IInv, RowIsHonest
  <1> QED
    BY <1>7, <1>10, <1>11, <1>12, <1>14 DEF IInv

\* A forced run is on its own, or it is counted as an overlap.
LEMMA RestartHolds == ASSUME IInv, NEW p \in Process, Restart(p) PROVE IInv'
  <1> PICK r \in Picked(p) :
          /\ row[r].status # "none"
          /\ row' = [row EXCEPT ![r] = [status |-> "running", at |-> 0]]
          /\ process' = [process EXCEPT ![p].phase = "working", ![p].run = r]
          /\ overlapped' = IF \E q \in Process \ {p} : WorksOn(q, r)
                           THEN overlapped \cup {r} ELSE overlapped
    BY DEF Restart
  <1> DEFINE new == [process[p] EXCEPT !.phase = "working", !.run = r]
  <1>1. process[p] \in ProcessState /\ r \in Run /\ ~AtWork(p)
    BY PickedIsARun DEF IInv, TypeOK, AtWork
  <1>2. /\ new \in ProcessState /\ new.phase = "working" /\ new.run = r
        /\ process' = [process EXCEPT ![p] = new]
    BY <1>1 DEF ProcessState, Phase
  <1> HIDE DEF new
  <1>3. UNCHANGED <<clock, task, alarmed, mishaps, starts, orphaned, untold>>
    BY DEF Restart
  <1>4. /\ process' \in [Process -> ProcessState] /\ process'[p] = new
        /\ \A q \in Process \ {p} : process'[q] = process[q]
    BY <1>2 DEF IInv, TypeOK
  <1>5. /\ row' \in [Run -> Row] /\ row'[r].status = "running"
        /\ \A s \in Run \ {r} : row'[s] = row[s]
    BY <1>1, ClockIsNatural DEF IInv, TypeOK, Row
  <1>6. overlapped' \subseteq Run /\ overlapped \subseteq overlapped'
    BY <1>1 DEF IInv, TypeOK
  <1>7. TypeOK'
    BY <1>3, <1>4, <1>5, <1>6 DEF IInv, TypeOK
  <1>8. \A q \in Process, s \in Run :
            WorksOn(q, s)' <=> (IF q = p THEN s = r ELSE WorksOn(q, s))
    BY <1>2, <1>4 DEF WorksOn, AtWork
  <1>9. r \in overlapped' \/ \A q \in Process \ {p} : ~WorksOn(q, r)
    OBVIOUS
  <1>10. InHand'
    BY <1>1, <1>2, <1>4, <1>5 DEF IInv, InHand, AtWork
  <1>11. StartedOnce'
    BY <1>3, <1>5 DEF IInv, StartedOnce
  <1>12. ExclusiveRun'
    BY <1>6, <1>8, <1>9 DEF IInv, ExclusiveRun
  <1>13. \A s \in Run \ {r} : (\E q \in Process : WorksOn(q, s))
                                  <=> (\E q \in Process : WorksOn(q, s)')
    BY <1>1, <1>8 DEF WorksOn
  <1>14. RowIsHonest'
    BY <1>1, <1>3, <1>5, <1>6, <1>8, <1>13 DEF IInv, RowIsHonest
  <1> QED
    BY <1>7, <1>10, <1>11, <1>12, <1>14 DEF IInv

\* Who ends the work, whatever comes of it, was alone at it or was overlapped.
LEMMA FinishHolds == ASSUME IInv, NEW p \in Process, Finish(p) PROVE IInv'
  <1> DEFINE r == process[p].run
  <1>1. process[p] \in ProcessState /\ r \in Run /\ WorksOn(p, r)
    BY DEF Finish, IInv, TypeOK, InHand, WorksOn, AtWork
  <1>2. PICK new \in ProcessState :
            /\ new.phase \in {"picking", "telling"} /\ (new.phase = "telling" => new.run = r)
            /\ process' = [process EXCEPT ![p] = new]
    <2> DEFINE told == [process[p] EXCEPT !.phase = "telling"]
    <2>1. told \in ProcessState /\ told.phase = "telling" /\ told.run = r
      BY <1>1 DEF ProcessState, Phase
    <2>2. CASE process' = GoesOn(p)
      BY <2>2, GoesOnTyped DEF IInv
    <2>3. CASE process' = [process EXCEPT ![p] = told]
      BY <2>1, <2>3
    <2> QED
      BY <2>2, <2>3 DEF Finish
  <1>3. PICK end \in Row : end.status \notin {"none", "running"} /\ row' = [row EXCEPT ![r] = end]
    <2>1. \A outcome \in Outcome, time \in 0..LastClock :
              [status |-> outcome, at |-> time] \in Row
      BY DEF Row, Outcome
    <2>2. clock \in 0..LastClock /\ 0 \in 0..LastClock
      BY ClockIsNatural DEF IInv, TypeOK
    <2>3. \A outcome \in Outcome : outcome \notin {"none", "running"}
      BY DEF Outcome
    <2>4. "succeeded" \in Outcome
      BY DEF Outcome
    <2>5. CASE row' = [row EXCEPT ![r] = [status |-> "succeeded", at |-> clock]]
      BY <2>1, <2>2, <2>3, <2>4, <2>5
    <2>6. CASE \E outcome \in Outcome : row' = [row EXCEPT ![r] =
                     [status |-> outcome, at |-> IF outcome = "failed" THEN 0 ELSE clock]]
      <3> PICK outcome \in Outcome : row' = [row EXCEPT ![r] =
                     [status |-> outcome, at |-> IF outcome = "failed" THEN 0 ELSE clock]]
        BY <2>6
      <3> DEFINE time == IF outcome = "failed" THEN 0 ELSE clock
      <3>1. time \in 0..LastClock
        BY <2>2
      <3> QED
        BY <2>1, <2>3, <3>1
    <2> QED
      BY <2>5, <2>6 DEF Finish
  <1>4. UNCHANGED <<clock, task, alarmed, mishaps, starts, overlapped, orphaned, untold>>
    BY DEF Finish
  <1> HIDE DEF r
  <1>5. /\ process' \in [Process -> ProcessState] /\ process'[p] = new
        /\ \A q \in Process \ {p} : process'[q] = process[q]
    BY <1>2 DEF IInv, TypeOK
  <1>6. /\ row' \in [Run -> Row] /\ row'[r] = end
        /\ \A s \in Run \ {r} : row'[s] = row[s]
    BY <1>1, <1>3 DEF IInv, TypeOK
  <1>7. TypeOK'
    BY <1>4, <1>5, <1>6 DEF IInv, TypeOK
  <1>8. \A q \in Process, s \in Run : WorksOn(q, s)' <=> (q # p /\ WorksOn(q, s))
    BY <1>2, <1>5 DEF WorksOn, AtWork
  <1>9. InHand'
    BY <1>1, <1>2, <1>3, <1>5, <1>6 DEF IInv, InHand, AtWork
  <1>10. StartedOnce'
    BY <1>3, <1>4, <1>6 DEF IInv, StartedOnce
  <1>11. ExclusiveRun'
    BY <1>4, <1>8 DEF IInv, ExclusiveRun
  <1>12. \A s \in Run \ {r} : ~WorksOn(p, s)
    BY <1>1 DEF WorksOn
  <1>13. r \in overlapped \/ \A q \in Process \ {p} : ~WorksOn(q, r)
    BY <1>1 DEF IInv, ExclusiveRun
  <1>14. RowIsHonest'
    BY <1>1, <1>3, <1>4, <1>6, <1>8, <1>12, <1>13 DEF IInv, RowIsHonest
  <1> QED
    BY <1>7, <1>9, <1>10, <1>11, <1>14 DEF IInv

\* Who dies at work leaves its run behind.
LEMMA DieHolds == ASSUME IInv, NEW p \in Process, Die(p) PROVE IInv'
  <1>1. /\ process' = [process EXCEPT ![p] = Idle] /\ mishaps' \in Nat
        /\ UNCHANGED <<clock, row, task, alarmed, starts, overlapped>>
    BY DEF Die, IInv, TypeOK
  <1>2. untold' \subseteq Run
    BY DEF Die, IInv, TypeOK, InHand
  <1>3. orphaned' \subseteq Run /\ orphaned \subseteq orphaned'
        /\ \A s \in Run : WorksOn(p, s) => s \in orphaned'
    BY DEF Die, IInv, TypeOK, InHand, WorksOn, AtWork
  <1>4. /\ process' \in [Process -> ProcessState] /\ process'[p] = Idle
        /\ \A q \in Process \ {p} : process'[q] = process[q]
    BY <1>1, IdleTyped DEF IInv, TypeOK
  <1>5. TypeOK'
    BY <1>1, <1>2, <1>3, <1>4 DEF IInv, TypeOK
  <1>6. \A q \in Process, s \in Run : WorksOn(q, s)' <=> (q # p /\ WorksOn(q, s))
    BY <1>4, IdleTyped DEF WorksOn, AtWork
  <1>7. InHand' /\ StartedOnce'
    BY <1>1, <1>4, IdleTyped DEF IInv, InHand, StartedOnce, AtWork
  <1>8. ExclusiveRun'
    BY <1>1, <1>6 DEF IInv, ExclusiveRun
  <1>9. RowIsHonest'
    BY <1>1, <1>3, <1>6 DEF IInv, RowIsHonest
  <1> QED
    BY <1>5, <1>7, <1>8, <1>9 DEF IInv

\* Every step of the scheduler keeps the invariant.
LEMMA NextHolds == IInv /\ [Next]_vars => IInv'
  <1> SUFFICES ASSUME IInv, [Next]_vars PROVE IInv'
    OBVIOUS
  <1>1. CASE TimePasses
    BY <1>1, TimePassesHolds
  <1>2. CASE \E p \in Tick : StartTick(p) \/ Defer(p)
    BY <1>2, StartTickHolds, DeferHolds
  <1>3. CASE \E p \in Staff, r \in Run : ForceRun(p, r)
    BY <1>3, ForceHolds
  <1>4. CASE \E p \in Process : Goes(p)
    BY <1>4, SkipHolds, FindNoneHolds, CreateHolds, LoseTheInsertHolds, RestartHolds,
       FinishHolds, TellHolds, EndsHold DEF Goes
  <1>5. CASE \E p \in Process : Die(p)
    BY <1>5, DieHolds
  <1>6. CASE UNCHANGED vars
    BY <1>6 DEF vars, IInv, TypeOK, InHand, StartedOnce, ExclusiveRun, RowIsHonest, WorksOn, AtWork
  <1> QED
    BY <1>1, <1>2, <1>3, <1>4, <1>5, <1>6 DEF Next

-----------------------------------------------------------------------------
\* For any jobs, hours and requests the invariant holds in every state.
THEOREM InvariantHolds == Spec => []IInv
  <1> QED
    BY InitHolds, NextHolds, PTL DEF Spec

\* The variables have their types; in particular no date is started twice by
\* ticks: the unique index on the job, the facility and the date holds them off.
THEOREM JobsTyped == Spec => []TypeOK
  <1>1. IInv => TypeOK
    BY DEF IInv
  <1> QED
    BY InvariantHolds, <1>1, PTL

\* Two requests work on one date only if staff forced it while it was at work.
THEOREM JobsExclusive == Spec => []ExclusiveRun
  <1>1. IInv => ExclusiveRun
    BY DEF IInv
  <1> QED
    BY InvariantHolds, <1>1, PTL

\* A row says running exactly while somebody is at work on it, unless a process
\* died on it or it was forced while at work.
THEOREM JobsHonest == Spec => []RowIsHonest
  <1>1. IInv => RowIsHonest
    BY DEF IInv
  <1> QED
    BY InvariantHolds, <1>1, PTL
=============================================================================
