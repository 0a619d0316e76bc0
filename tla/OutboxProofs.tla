---------------------------- MODULE OutboxProofs ----------------------------
(***************************************************************************)
(* Proofs about Outbox for any set of events, any number of dispatchers,   *)
(* any batch limit and any number of process deaths: the claim is          *)
(* exclusive, settled rows are honest and final, and Outbox implements     *)
(* Delivery.                                                               *)
(***************************************************************************)
EXTENDS Outbox, TLAPS

\* A row that may still be claimed has attempts left.
RowsOpen == \A e \in Event :
    /\ delivery[e].status = "none" => delivery[e].attempts = 0
    /\ delivery[e].status = "failed" => delivery[e].attempts < MaxAttempts

\* So had the row a worker is about to claim, when the worker read it; and no
\* row, nor what was read of one, counts more attempts than claims were won.
SeenOpen == \A w \in Worker :
    worker[w].phase = "claiming" =>
        /\ worker[w].event \in Event
        /\ worker[w].seen.status \in {"none", "failed"}
        /\ worker[w].seen.attempts < MaxAttempts
        /\ worker[w].seen.attempts <= claims[worker[w].event]

AttemptsClaimed == \A e \in Event : delivery[e].attempts <= claims[e]

\* A claim is held by a live worker, which knows the attempt in its row, and
\* which took the handler for successful only if it did return.
HoldersKnow == \A w \in Worker :
    worker[w].phase \in {"handling", "marking"} =>
        /\ worker[w].event \in Event \ stranded
        /\ delivery[worker[w].event].attempts = worker[w].attempt
        /\ worker[w].phase = "marking" /\ worker[w].outcome = "ok" =>
               worker[w].event \in handled

IInv == /\ TypeOK /\ RowsOpen /\ SeenOpen /\ AttemptsClaimed /\ HoldersKnow
        /\ ExclusiveClaim /\ SettledHonestly
-----------------------------------------------------------------------------
\* The states a worker passes through are well typed.
LEMMA ResumeType ==
  ASSUME NEW batch \in SUBSET Event
  PROVE  /\ Resume(batch) \in WorkerState
         /\ Resume(batch).phase \in {"idle", "draining"}
  BY AttemptsAssumption DEF Resume, NoRow, Row, Status, WorkerState, Phase

\* A worker that has read a row to claim is well typed.
LEMMA ClaimingType ==
  ASSUME NEW batch \in SUBSET Event, NEW e \in Event, NEW row \in Row
  PROVE  [phase |-> "claiming", batch |-> batch, event |-> e, seen |-> row,
          attempt |-> 0, outcome |-> "ok"] \in WorkerState
  BY AttemptsAssumption DEF WorkerState, Phase

\* So is an idle worker.
LEMMA IdleType == Idle \in WorkerState /\ Idle.phase = "idle"
  BY ResumeType DEF Idle, Resume

\* The inductive invariant holds before any event is emitted.
LEMMA InitEstablishes == Init => IInv
  <1> SUFFICES ASSUME Init PROVE IInv
    OBVIOUS
  <1>1. TypeOK
    BY IdleType, AttemptsAssumption DEF Init, TypeOK, NoRow, Row, Status
  <1>2. \A w \in Worker : worker[w].phase = "idle"
    BY IdleType DEF Init
  <1> QED
    BY <1>1, <1>2, AttemptsAssumption
       DEF Init, IInv, RowsOpen, SeenOpen, AttemptsClaimed, HoldersKnow,
           ExclusiveClaim, SettledHonestly, Holds, NoRow

\* Every step of an emitter, a worker or the clock keeps it.
LEMMA StepPreserves == IInv /\ [Next]_vars => IInv'
  <1> SUFFICES ASSUME IInv, [Next]_vars PROVE IInv'
    OBVIOUS
  <1> USE EventAssumption, AttemptsAssumption DEF IInv
  <1>1. ASSUME NEW e \in Event, Emit(e) PROVE IInv'
    <2>1. TypeOK'
      BY <1>1 DEF Emit, TypeOK, RowsOpen, SeenOpen, AttemptsClaimed, HoldersKnow, ExclusiveClaim, SettledHonestly, Holds, Row, Status, WorkerState, Phase, NoRow
    <2>2. RowsOpen'
      BY <1>1 DEF Emit, TypeOK, RowsOpen, SeenOpen, AttemptsClaimed, HoldersKnow, ExclusiveClaim, SettledHonestly, Holds, Row, Status, WorkerState, Phase, NoRow
    <2>3. SeenOpen'
      BY <1>1 DEF Emit, TypeOK, RowsOpen, SeenOpen, AttemptsClaimed, HoldersKnow, ExclusiveClaim, SettledHonestly, Holds, Row, Status, WorkerState, Phase, NoRow
    <2>4. AttemptsClaimed'
      BY <1>1 DEF Emit, TypeOK, RowsOpen, SeenOpen, AttemptsClaimed, HoldersKnow, ExclusiveClaim, SettledHonestly, Holds, Row, Status, WorkerState, Phase, NoRow
    <2>5. HoldersKnow'
      BY <1>1 DEF Emit, TypeOK, RowsOpen, SeenOpen, AttemptsClaimed, HoldersKnow, ExclusiveClaim, SettledHonestly, Holds, Row, Status, WorkerState, Phase, NoRow
    <2>6. ExclusiveClaim'
      BY <1>1 DEF Emit, TypeOK, RowsOpen, SeenOpen, AttemptsClaimed, HoldersKnow, ExclusiveClaim, SettledHonestly, Holds, Row, Status, WorkerState, Phase, NoRow
    <2>7. SettledHonestly'
      BY <1>1 DEF Emit, TypeOK, RowsOpen, SeenOpen, AttemptsClaimed, HoldersKnow, ExclusiveClaim, SettledHonestly, Holds, Row, Status, WorkerState, Phase, NoRow
    <2> QED BY <2>1, <2>2, <2>3, <2>4, <2>5, <2>6, <2>7
  <1>2. ASSUME NEW e \in Event, RetryFallsDue(e) PROVE IInv'
    <2>1. TypeOK'
      <3>1. [delivery[e] EXCEPT !.due = TRUE] \in Row
        BY DEF TypeOK, Row
      <3>2. delivery' = [delivery EXCEPT ![e] = [delivery[e] EXCEPT !.due = TRUE]]
        BY <1>2 DEF RetryFallsDue, TypeOK
      <3> QED
        BY <1>2, <3>1, <3>2 DEF RetryFallsDue, TypeOK
    <2>2. RowsOpen'
      BY <1>2 DEF RetryFallsDue, TypeOK, RowsOpen, SeenOpen, AttemptsClaimed, HoldersKnow, ExclusiveClaim, SettledHonestly, Holds, Row, Status, WorkerState, Phase, NoRow
    <2>3. SeenOpen'
      BY <1>2 DEF RetryFallsDue, TypeOK, RowsOpen, SeenOpen, AttemptsClaimed, HoldersKnow, ExclusiveClaim, SettledHonestly, Holds, Row, Status, WorkerState, Phase, NoRow
    <2>4. AttemptsClaimed'
      BY <1>2 DEF RetryFallsDue, TypeOK, RowsOpen, SeenOpen, AttemptsClaimed, HoldersKnow, ExclusiveClaim, SettledHonestly, Holds, Row, Status, WorkerState, Phase, NoRow
    <2>5. HoldersKnow'
      BY <1>2 DEF RetryFallsDue, TypeOK, RowsOpen, SeenOpen, AttemptsClaimed, HoldersKnow, ExclusiveClaim, SettledHonestly, Holds, Row, Status, WorkerState, Phase, NoRow
    <2>6. ExclusiveClaim'
      BY <1>2 DEF RetryFallsDue, TypeOK, RowsOpen, SeenOpen, AttemptsClaimed, HoldersKnow, ExclusiveClaim, SettledHonestly, Holds, Row, Status, WorkerState, Phase, NoRow
    <2>7. SettledHonestly'
      BY <1>2 DEF RetryFallsDue, TypeOK, RowsOpen, SeenOpen, AttemptsClaimed, HoldersKnow, ExclusiveClaim, SettledHonestly, Holds, Row, Status, WorkerState, Phase, NoRow
    <2> QED BY <2>1, <2>2, <2>3, <2>4, <2>5, <2>6, <2>7
  <1>3. ASSUME NEW w \in Worker, StartDispatch(w) PROVE IInv'
    <2>1. Resume(FirstPending) \in WorkerState /\ Resume(FirstPending).phase \in {"idle", "draining"}
      BY ResumeType DEF FirstPending
    <2>2. TypeOK'
      BY <1>3, <2>1 DEF StartDispatch, TypeOK
    <2>3. (RowsOpen /\ AttemptsClaimed /\ SettledHonestly)'
      BY <1>3 DEF StartDispatch, RowsOpen, AttemptsClaimed, SettledHonestly
    <2>4. SeenOpen'
      BY <1>3, <2>1 DEF StartDispatch, TypeOK, SeenOpen
    <2>5. HoldersKnow'
      BY <1>3, <2>1 DEF StartDispatch, TypeOK, HoldersKnow
    <2>6. ExclusiveClaim'
      BY <1>3, <2>1 DEF StartDispatch, TypeOK, ExclusiveClaim, Holds
    <2> QED
      BY <2>1, <2>2, <2>3, <2>4, <2>5, <2>6
  <1>4. ASSUME NEW w \in Worker, NEW e \in Event, ReadRow(w, e) PROVE IInv'
    <2>1. PICK new \in WorkerState :
            /\ worker' = [worker EXCEPT ![w] = new]
            /\ new.phase \in {"idle", "draining", "claiming"}
            /\ new.phase = "claiming" => /\ delivery[e].status \in {"none", "failed"}
                                        /\ new.event = e /\ new.seen = delivery[e]
      <3>1. worker[w].batch \ {e} \in SUBSET Event /\ delivery[e] \in Row
        BY DEF TypeOK, WorkerState
      <3>2. CASE delivery[e].status \in {"none", "failed"}
        <4> DEFINE new == [phase |-> "claiming", batch |-> worker[w].batch \ {e}, event |-> e,
                           seen |-> delivery[e], attempt |-> 0, outcome |-> "ok"]
        <4>1. new \in WorkerState
          BY <3>1, ClaimingType
        <4>2. worker' = [worker EXCEPT ![w] = new]
          BY <1>4, <3>2 DEF ReadRow
        <4> QED
          BY <3>2, <4>1, <4>2
      <3>3. CASE delivery[e].status \notin {"none", "failed"}
        <4>1. worker' = [worker EXCEPT ![w] = Resume(worker[w].batch \ {e})]
          BY <1>4, <3>3 DEF ReadRow
        <4> QED
          BY <3>1, <4>1, ResumeType
      <3> QED
        BY <3>2, <3>3
    <2>2. worker[w].phase = "draining" /\ UNCHANGED <<committed, delivery, crashes, handled, claims, stranded>>
      BY <1>4 DEF ReadRow
    <2>3. TypeOK'
      BY <2>1, <2>2 DEF TypeOK
    <2>4. (RowsOpen /\ AttemptsClaimed /\ SettledHonestly)'
      BY <2>2 DEF RowsOpen, AttemptsClaimed, SettledHonestly
    <2>5. SeenOpen'
      BY <2>1, <2>2 DEF SeenOpen, RowsOpen, AttemptsClaimed, TypeOK, Row
    <2>6. HoldersKnow'
      BY <2>1, <2>2 DEF HoldersKnow, TypeOK
    <2>7. ExclusiveClaim'
      BY <2>1, <2>2 DEF ExclusiveClaim, TypeOK, Holds
    <2> QED
      BY <2>3, <2>4, <2>5, <2>6, <2>7
  <1>5. ASSUME NEW w \in Worker, WinClaim(w) PROVE IInv'
    <2>1. /\ worker[w].event \in Event
          /\ worker[w].seen.attempts + 1 \in 1..MaxAttempts
          /\ worker[w].seen.attempts + 1 <= claims[worker[w].event] + 1
      BY <1>5 DEF WinClaim, SeenOpen, TypeOK, WorkerState, Row
    <2>2. PICK new \in WorkerState :
            /\ worker' = [worker EXCEPT ![w] = new]
            /\ new.phase = "handling" /\ new.event = worker[w].event
            /\ new.attempt = worker[w].seen.attempts + 1
      <3> DEFINE new == [worker[w] EXCEPT !.phase = "handling",
                                          !.attempt = worker[w].seen.attempts + 1]
      <3>1. "handling" \in Phase /\ worker[w].seen.attempts + 1 \in 0..MaxAttempts
        BY <2>1 DEF Phase
      <3>2. new \in WorkerState /\ new.phase = "handling" /\ new.event = worker[w].event
            /\ new.attempt = worker[w].seen.attempts + 1
        BY <3>1 DEF TypeOK, WorkerState
      <3>3. worker' = [worker EXCEPT ![w] = new]
        BY <1>5 DEF WinClaim
      <3> QED
        BY <3>2, <3>3
    <2>3. TypeOK'
      BY <1>5, <2>1, <2>2 DEF WinClaim, TypeOK, Row, Status
    <2>4. RowsOpen'
      BY <1>5, <2>1 DEF WinClaim, TypeOK, RowsOpen
    <2>5. SeenOpen'
      BY <1>5, <2>1, <2>2 DEF WinClaim, TypeOK, SeenOpen, WorkerState, Row
    <2>6. AttemptsClaimed'
      BY <1>5, <2>1 DEF WinClaim, TypeOK, SeenOpen, AttemptsClaimed, WorkerState, Row
    <2>7. delivery[worker[w].event].status # "processing"
      BY <1>5 DEF WinClaim, CanClaim
    <2>8. HoldersKnow'
      BY <1>5, <2>1, <2>2, <2>7 DEF WinClaim, TypeOK, HoldersKnow, ExclusiveClaim, Holds
    <2>9. ExclusiveClaim'
      BY <1>5, <2>1, <2>2, <2>7 DEF WinClaim, TypeOK, ExclusiveClaim, Holds
    <2>10. SettledHonestly'
      BY <1>5, <2>1 DEF WinClaim, TypeOK, SettledHonestly
    <2> QED
      BY <2>3, <2>4, <2>5, <2>6, <2>8, <2>9, <2>10
  <1>6. ASSUME NEW w \in Worker, LoseClaim(w) PROVE IInv'
    <2>1. LET next == Resume(worker[w].batch)
         IN  next \in WorkerState /\ next.phase \in {"idle", "draining"}
      BY ResumeType DEF TypeOK, WorkerState
    <2>2. TypeOK'
      BY <1>6, <2>1 DEF LoseClaim, TypeOK
    <2>3. (RowsOpen /\ AttemptsClaimed /\ SettledHonestly)'
      BY <1>6 DEF LoseClaim, RowsOpen, AttemptsClaimed, SettledHonestly
    <2>4. SeenOpen'
      BY <1>6, <2>1 DEF LoseClaim, TypeOK, SeenOpen
    <2>5. HoldersKnow'
      BY <1>6, <2>1 DEF LoseClaim, TypeOK, HoldersKnow
    <2>6. ExclusiveClaim'
      BY <1>6, <2>1 DEF LoseClaim, TypeOK, ExclusiveClaim, Holds
    <2> QED
      BY <2>1, <2>2, <2>3, <2>4, <2>5, <2>6
  <1>7. ASSUME NEW w \in Worker, Handle(w) PROVE IInv'
    <2>1. PICK returned \in BOOLEAN, outcome \in {"ok", "threw"} :
           /\ outcome = "ok" => returned
           /\ handled' = IF returned THEN handled \cup {worker[w].event} ELSE handled
           /\ worker' = [worker EXCEPT ![w] = [@ EXCEPT !.phase = "marking", !.outcome = outcome]]
      BY <1>7 DEF Handle
    <2>2. /\ worker'[w] \in WorkerState
         /\ worker'[w].phase = "marking" /\ worker'[w].outcome = outcome
         /\ worker'[w].event = worker[w].event /\ worker'[w].attempt = worker[w].attempt
      <3> DEFINE new == [worker[w] EXCEPT !.phase = "marking", !.outcome = outcome]
      <3>1. new \in WorkerState /\ new.phase = "marking" /\ new.outcome = outcome
        BY DEF TypeOK, WorkerState, Phase
      <3>2. new.event = worker[w].event /\ new.attempt = worker[w].attempt
        BY DEF TypeOK, WorkerState
      <3>3. worker'[w] = new
        BY <2>1 DEF TypeOK
      <3> QED
        BY <3>1, <3>2, <3>3
    <2>3. /\ \A v \in Worker \ {w} : worker'[v] = worker[v]
         /\ worker' = [worker EXCEPT ![w] = worker'[w]]
         /\ worker[w].phase = "handling"
         /\ UNCHANGED <<committed, delivery, crashes, claims, stranded>>
      BY <1>7, <2>1 DEF Handle, TypeOK
    <2>4. worker[w].event \in Event
      BY <2>3 DEF HoldersKnow
    <2>5. TypeOK'
      BY <1>7, <2>1, <2>2, <2>3, <2>4 DEF TypeOK
    <2>6. (RowsOpen /\ AttemptsClaimed /\ SettledHonestly)'
      BY <1>7, <2>1, <2>3 DEF RowsOpen, AttemptsClaimed, SettledHonestly
    <2>7. SeenOpen'
      BY <1>7, <2>2, <2>3 DEF SeenOpen
    <2>8. HoldersKnow'
      BY <1>7, <2>1, <2>2, <2>3 DEF HoldersKnow
    <2>9. \A v \in Worker, f \in Event : Holds(v, f)' <=> Holds(v, f)
      BY <2>2, <2>3 DEF Holds
    <2>10. ExclusiveClaim'
      BY <1>7, <2>3, <2>9 DEF ExclusiveClaim
    <2> QED
      BY <2>1, <2>2, <2>3, <2>4, <2>5, <2>6, <2>7, <2>8, <2>9, <2>10
  <1>8. ASSUME NEW w \in Worker, Mark(w) PROVE IInv'
    <2>1. LET next == Resume(worker[w].batch)
         IN  next \in WorkerState /\ next.phase \in {"idle", "draining"}
      BY ResumeType DEF TypeOK, WorkerState
    <2>2. worker[w].event \in Event /\ Holds(w, worker[w].event)
      BY <1>8 DEF Mark, HoldersKnow, Holds
    <2>3. TypeOK'
      BY <1>8, <2>1, <2>2 DEF Mark, TypeOK, Row, Status
    <2>4. RowsOpen'
      BY <1>8, <2>2 DEF Mark, TypeOK, RowsOpen, HoldersKnow, Exhausted, WorkerState, Row
    <2>5. SeenOpen'
      BY <1>8, <2>1 DEF Mark, TypeOK, SeenOpen
    <2>6. AttemptsClaimed'
      BY <1>8, <2>2 DEF Mark, TypeOK, AttemptsClaimed, Row
    <2>7. HoldersKnow'
      BY <1>8, <2>1, <2>2 DEF Mark, TypeOK, HoldersKnow, ExclusiveClaim, Holds, Row
    <2>8. ExclusiveClaim'
      BY <1>8, <2>1, <2>2 DEF Mark, TypeOK, ExclusiveClaim, HoldersKnow, Holds, Row
    <2>9. SettledHonestly'
      BY <1>8, <2>2 DEF Mark, TypeOK, SettledHonestly, HoldersKnow, AttemptsClaimed, Exhausted, WorkerState, Row
    <2> QED
      BY <2>1, <2>2, <2>3, <2>4, <2>5, <2>6, <2>7, <2>8, <2>9
  <1>9. ASSUME NEW w \in Worker, Crash(w) PROVE IInv'
    <2>1. stranded' \subseteq Event
      BY <1>9, Zenon DEF Crash, TypeOK
    <2>2. TypeOK'
      BY <1>9, <2>1, IdleType DEF Crash, TypeOK
    <2>3. (RowsOpen /\ AttemptsClaimed /\ SettledHonestly)'
      BY <1>9 DEF Crash, RowsOpen, AttemptsClaimed, SettledHonestly
    <2>4. SeenOpen'
      BY <1>9, IdleType DEF Crash, TypeOK, SeenOpen
    <2>5. \A v \in Worker, e \in Event : Holds(v, e)' <=> v # w /\ Holds(v, e)
      BY <1>9, IdleType DEF Crash, TypeOK, Holds
    <2>6. /\ \A e \in Event : e \in stranded' <=> e \in stranded \/ Holds(w, e)
          /\ delivery' = delivery /\ handled' = handled
      BY <1>9 DEF Crash
    <2>7. ExclusiveClaim'
      BY <2>5, <2>6 DEF ExclusiveClaim
    <2>8. HoldersKnow'
      <3> SUFFICES ASSUME NEW v \in Worker, worker'[v].phase \in {"handling", "marking"}
                   PROVE  /\ worker'[v].event \in Event \ stranded'
                          /\ delivery'[worker'[v].event].attempts = worker'[v].attempt
                          /\ worker'[v].phase = "marking" /\ worker'[v].outcome = "ok" =>
                                 worker'[v].event \in handled'
        BY DEF HoldersKnow
      <3>1. v # w /\ worker'[v] = worker[v]
        BY <1>9, IdleType DEF Crash, TypeOK
      <3>2. worker[v].event \in Event \ stranded /\ Holds(v, worker[v].event)
        BY <3>1 DEF HoldersKnow, Holds
      <3> QED
        BY <2>6, <3>1, <3>2 DEF HoldersKnow, ExclusiveClaim
    <2> QED
      BY <2>2, <2>3, <2>4, <2>7, <2>8
  <1>10. CASE UNCHANGED vars
    BY <1>10 DEF vars, TypeOK, RowsOpen, SeenOpen, AttemptsClaimed, HoldersKnow, ExclusiveClaim, SettledHonestly, Holds
  <1> QED
    BY <1>1, <1>2, <1>3, <1>4, <1>5, <1>6, <1>7, <1>8, <1>9, <1>10 DEF Next, Step

\* The inductive invariant holds throughout.
THEOREM InvariantHolds == Spec => []IInv
  BY InitEstablishes, StepPreserves, PTL DEF Spec

-----------------------------------------------------------------------------
\* The rows and the workers stay well typed: no row counts more attempts than
\* RETRY.maxAttempts.
THEOREM OutboxTyped == Spec => []TypeOK
  <1>1. IInv => TypeOK
    BY DEF IInv
  <1> QED
    BY <1>1, InvariantHolds, PTL

\* claim() is exclusive: two dispatchers never run the consumer on one event
\* at the same time, and every row in processing has a holder or lost it to a
\* process death.
THEOREM OutboxExclusive == Spec => []ExclusiveClaim
  <1>1. IInv => ExclusiveClaim
    BY DEF IInv
  <1> QED
    BY <1>1, InvariantHolds, PTL

\* A row marked succeeded had its handler return, and a dead letter had
\* MaxAttempts claims.
THEOREM OutboxHonest == Spec => []SettledHonestly
  <1>1. IInv => SettledHonestly
    BY DEF IInv
  <1> QED
    BY <1>1, InvariantHolds, PTL

\* A settled row is never written again.
THEOREM OutboxSettledIsFinal == Spec => SettledIsFinal
  <1> DEFINE Final == \A e \in Event : Settled(e) => delivery'[e] = delivery[e]
  <1>1. IInv /\ [Next]_vars => [Final]_vars
    <2> SUFFICES ASSUME IInv, Next, NEW e \in Event, Settled(e)
                 PROVE  delivery'[e] = delivery[e]
      OBVIOUS
    <2>1. delivery[e].status \notin {"processing", "failed", "none"}
      BY DEF Settled
    <2>2. ASSUME NEW f \in Event, Emit(f) \/ RetryFallsDue(f)
          PROVE  delivery'[e] = delivery[e]
      BY <2>1, <2>2 DEF Emit, RetryFallsDue, IInv, TypeOK
    <2>3. ASSUME NEW w \in Worker, WinClaim(w)
          PROVE  delivery'[e] = delivery[e]
      BY <2>1, <2>3 DEF WinClaim, CanClaim, IInv, TypeOK
    <2>4. ASSUME NEW w \in Worker, Mark(w)
          PROVE  delivery'[e] = delivery[e]
      BY <2>1, <2>4 DEF Mark, IInv, TypeOK, ExclusiveClaim, Holds
    <2>5. ASSUME NEW w \in Worker, \/ StartDispatch(w) \/ \E f \in Event : ReadRow(w, f)
                                   \/ LoseClaim(w) \/ Handle(w) \/ Crash(w)
          PROVE  delivery'[e] = delivery[e]
      BY <2>5 DEF StartDispatch, ReadRow, LoseClaim, Handle, Crash
    <2> QED
      BY <2>2, <2>3, <2>4, <2>5 DEF Next, Step
  <1> QED
    BY <1>1, InvariantHolds, PTL DEF Spec, SettledIsFinal

-----------------------------------------------------------------------------
(* Outbox implements Delivery.                                             *)

\* Who holds an event is determined by its row and by the one worker that can
\* have it in hand.
HolderDetermined ==
    \A e \in Event :
        /\ Settled(e) => HolderOf(e) = "closed"
        /\ e \in stranded => HolderOf(e) = "abandoned"
        /\ \A w \in Worker : Holds(w, e) => HolderOf(e) = w
        /\ ~Settled(e) /\ e \notin stranded /\ (\A w \in Worker : ~Holds(w, e)) =>
               HolderOf(e) = "open"

\* What the inductive invariant says of the holder of each row, which the
\* refinement mapping reads from the row and the workers.
LEMMA HolderIs == IInv => HolderDetermined
  <1> SUFFICES ASSUME IInv PROVE HolderDetermined
    OBVIOUS
  <1>1. \A e \in Event : e \in stranded => ~Settled(e)
    BY DEF IInv, ExclusiveClaim, Settled
  <1>2. ASSUME NEW e \in Event, NEW w \in Worker, Holds(w, e)
        PROVE  HolderOf(e) = w
    <2>1. ~Settled(e) /\ e \notin stranded
      BY <1>2 DEF IInv, ExclusiveClaim, HoldersKnow, Holds, Settled
    <2>2. \A v \in Worker : Holds(v, e) => v = w
      BY <1>2 DEF IInv, ExclusiveClaim
    <2> QED
      BY <1>2, <2>1, <2>2 DEF HolderOf
  <1> QED
    BY <1>1, <1>2 DEF HolderDetermined, HolderOf

\* What a step leaves alone of the events it is not about.
Untouched(f) == /\ Settled(f)' <=> Settled(f)
                /\ (f \in stranded') <=> (f \in stranded)
                /\ \A v \in Worker : Holds(v, f)' <=> Holds(v, f)

\* Only the claim, the mark and a process death concern Delivery.
THEOREM OutboxImplementsDelivery == Spec => ImplementsDelivery
  <1> DEFINE holder == [e \in Event |-> HolderOf(e)]
  <1>1. Init => D!Init
    <2> SUFFICES ASSUME Init, NEW e \in Event PROVE HolderOf(e) = "open"
      BY DEF D!Init
    <2>1. \A w \in Worker : ~Holds(w, e)
      BY IdleType DEF Init, Holds
    <2> QED
      BY <2>1, InitEstablishes, HolderIs DEF Init, HolderDetermined, Settled, NoRow
  <1>2. IInv' => HolderDetermined'
    BY HolderIs, PTL
  <1>3. IInv /\ IInv' /\ [Next]_vars => [D!Next]_holder
    <2> SUFFICES ASSUME IInv, IInv', [Next]_vars PROVE [D!Next]_holder
      OBVIOUS
    <2>1. HolderDetermined /\ HolderDetermined'
      BY HolderIs, <1>2
    <2>2. ASSUME NEW f \in Event, Untouched(f)
          PROVE  HolderOf(f)' = HolderOf(f)
      BY <2>1, <2>2 DEF HolderDetermined, Untouched
    <2>3. ASSUME \A f \in Event : Untouched(f)
          PROVE  UNCHANGED holder
      BY <2>2, <2>3
    <2>4. ASSUME NEW e \in Event, \A f \in Event \ {e} : Untouched(f)
          PROVE  holder' = [holder EXCEPT ![e] = HolderOf(e)']
      BY <2>2, <2>4
    <2>5. ASSUME NEW f \in Event, Emit(f) \/ RetryFallsDue(f)
          PROVE  UNCHANGED holder
      <3>1. \A e \in Event : delivery'[e].status = delivery[e].status
        <4>1. CASE Emit(f)
          BY <4>1 DEF Emit
        <4>2. CASE RetryFallsDue(f)
          BY <4>2 DEF RetryFallsDue, IInv, TypeOK, Row
        <4> QED
          BY <2>5, <4>1, <4>2
      <3>2. \A e \in Event : Untouched(e)
        BY <2>5, <3>1 DEF Emit, RetryFallsDue, Untouched, Settled, Holds
      <3> QED
        BY <2>3, <3>2
    <2>6. ASSUME NEW w \in Worker, StartDispatch(w) \/ LoseClaim(w)
          PROVE  UNCHANGED holder
      <3>1. PICK batch \in SUBSET Event : worker' = [worker EXCEPT ![w] = Resume(batch)]
        BY <2>6 DEF StartDispatch, LoseClaim, FirstPending, IInv, TypeOK, WorkerState
      <3>2. Resume(batch).phase \in {"idle", "draining"}
        BY <3>1, ResumeType
      <3>3. \A e \in Event : Untouched(e)
        BY <2>6, <3>1, <3>2 DEF StartDispatch, LoseClaim, IInv, TypeOK, Untouched, Settled, Holds
      <3> QED
        BY <2>3, <3>3
    <2>7. ASSUME NEW w \in Worker, NEW f \in Event, ReadRow(w, f)
          PROVE  UNCHANGED holder
      <3>1. worker'[w].phase \in {"idle", "draining", "claiming"}
        BY <2>7, ResumeType DEF ReadRow, IInv, TypeOK, WorkerState
      <3>2. \A e \in Event : Untouched(e)
        BY <2>7, <3>1 DEF ReadRow, IInv, TypeOK, Untouched, Settled, Holds
      <3> QED
        BY <2>3, <3>2
    <2>8. ASSUME NEW w \in Worker, Handle(w)
          PROVE  UNCHANGED holder
      <3>1. worker'[w].phase = "marking" /\ worker'[w].event = worker[w].event
        BY <2>8 DEF Handle, IInv, TypeOK, WorkerState
      <3>2. \A e \in Event : Untouched(e)
        BY <2>8, <3>1 DEF Handle, IInv, TypeOK, Untouched, Settled, Holds
      <3> QED
        BY <2>3, <3>2
    <2>9. ASSUME NEW w \in Worker, WinClaim(w)
          PROVE  D!Next
      <3>1. PICK e \in Event : e = worker[w].event /\ delivery[e].status \in {"none", "failed"}
        BY <2>9 DEF WinClaim, CanClaim, IInv, SeenOpen
      <3>2. worker'[w].phase = "handling" /\ worker'[w].event = e
        BY <2>9, <3>1 DEF WinClaim, IInv, TypeOK, WorkerState
      <3>3. holder[e] = "open"
        BY <2>1, <3>1 DEF HolderDetermined, IInv, ExclusiveClaim, Settled
      <3>4. HolderOf(e)' = w
        BY <2>1, <3>1, <3>2 DEF HolderDetermined, Holds
      <3>5. \A f \in Event \ {e} : Untouched(f)
        BY <2>9, <3>1, <3>2 DEF WinClaim, IInv, TypeOK, Untouched, Settled, Holds
      <3>6. D!Take(e, w)
        BY <2>4, <3>3, <3>4, <3>5 DEF D!Take
      <3> QED
        BY <3>6 DEF D!Next
    <2>10. ASSUME NEW w \in Worker, Mark(w)
           PROVE  D!Next
      <3>1. PICK e \in Event : /\ e = worker[w].event /\ e \notin stranded
                               /\ Holds(w, e) /\ \A v \in Worker : Holds(v, e) => v = w
        BY <2>10 DEF Mark, IInv, HoldersKnow, ExclusiveClaim, Holds
      <3>2. worker'[w].phase \in {"idle", "draining"}
        BY <2>10, ResumeType DEF Mark, IInv, TypeOK, WorkerState
      <3>3. holder[e] = w
        BY <2>1, <3>1 DEF HolderDetermined
      <3>4. \A v \in Worker : ~Holds(v, e)'
        <4>1. ~Holds(w, e)'
          BY <3>2 DEF Holds
        <4>2. \A v \in Worker \ {w} : worker'[v] = worker[v]
          BY <2>10 DEF Mark, IInv, TypeOK
        <4> QED
          BY <3>1, <4>1, <4>2 DEF Holds
      <3>5. HolderOf(e)' \in {"open", "closed"}
        <4>1. e \notin stranded'
          BY <2>10, <3>1 DEF Mark
        <4> QED
          BY <2>1, <3>1, <3>4, <4>1 DEF HolderDetermined
      <3>6. \A f \in Event \ {e} : Untouched(f)
        BY <2>10, <3>1, <3>2 DEF Mark, IInv, TypeOK, Untouched, Settled, Holds
      <3>7. D!GiveUp(e, w) \/ D!Close(e, w)
        BY <2>4, <3>3, <3>5, <3>6 DEF D!GiveUp, D!Close
      <3> QED
        BY <3>7 DEF D!Next
    <2>11. ASSUME NEW w \in Worker, Crash(w)
           PROVE  D!Next \/ UNCHANGED holder
      <3>1. worker'[w].phase = "idle"
        BY <2>11, IdleType DEF Crash, IInv, TypeOK
      <3>2. CASE \E e \in Event : Holds(w, e)
        <4>1. PICK e \in Event : Holds(w, e)
          BY <3>2
        <4>2. holder[e] = w
          BY <2>1, <4>1 DEF HolderDetermined
        <4>3. HolderOf(e)' = "abandoned"
          BY <2>1, <2>11, <4>1 DEF Crash, HolderDetermined
        <4>4. \A f \in Event \ {e} : Untouched(f)
          BY <2>11, <3>1, <4>1 DEF Crash, IInv, TypeOK, Untouched, Settled, Holds
        <4> QED
          BY <2>4, <4>2, <4>3, <4>4 DEF D!Next, D!Die
      <3>3. CASE \A e \in Event : ~Holds(w, e)
        <4>1. \A e \in Event : Untouched(e)
          BY <2>11, <3>1, <3>3 DEF Crash, IInv, TypeOK, Untouched, Settled, Holds
        <4> QED
          BY <2>3, <4>1
      <3> QED
        BY <3>2, <3>3
    <2>12. CASE UNCHANGED vars
      <3>1. \A e \in Event : Untouched(e)
        BY <2>12 DEF vars, Untouched, Settled, Holds
      <3> QED
        BY <2>3, <3>1
    <2> HIDE DEF holder
    <2> QED
      BY <2>5, <2>6, <2>7, <2>8, <2>9, <2>10, <2>11, <2>12 DEF Next, Step
  <1> QED
    BY <1>1, <1>3, InvariantHolds, PTL DEF Spec, ImplementsDelivery, D!Spec
=============================================================================
