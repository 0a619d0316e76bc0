-------------------------- MODULE DelinquencyProofs --------------------------
(***************************************************************************)
(* Proofs about Delinquency for any ladder, any order of the night's jobs, *)
(* and any number of nights and upsets: the types, that a ladder is        *)
(* climbed in order, and that the record knows what hangs on the door.     *)
(***************************************************************************)
EXTENDS Delinquency, FiniteSetTheorems, TLAPS

\* A runner that is about to claim a rung, or to carry it out, has one.
HasRung == \A w \in Runner : at[w] \in {"claiming", "acting"} => rung[w] \in Rung

-----------------------------------------------------------------------------
(* The ladder.  Closed runs are of a past episode, until a returned payment   *)
(* puts them back.                                                           *)

Below(r) == {s \in Rung : s < r}

\* What was climbed was climbed from the bottom, and what is open is counted.
FromTheBottom == /\ \A r \in served : Below(r) \subseteq served
                 /\ \A r \in closed : Below(r) \subseteq closed

Counted == /\ \A r \in served : sent[r] <= 1
           /\ \A r \in Rung \ served : sent[r] = 0

\* Who is about to claim a rung decided on the rungs that are still the open
\* ones, and on a date that has none.
ClaimsTheNext == \A w \in Runner : at[w] = "claiming" =>
    /\ Below(rung[w]) \subseteq served
    /\ rung[w] \notin served => dated \cap served = {}
    /\ ~owes => closed = {}

\* Who carries a rung out is alone with it and has yet to serve it.
ActsAlone == /\ \A w \in Runner : at[w] = "acting" => rung[w] \in served /\ sent[rung[w]] = 0
             /\ \A v, w \in Runner : v # w /\ at[v] = "acting" /\ at[w] = "acting" =>
                    rung[v] # rung[w]

AtMostOne(R) == \A r, s \in R : r = s

OneADate == /\ AtMostOne(dated \cap served)
            /\ ~owes => AtMostOne(dated \cap (served \cup closed))

InOrder == FromTheBottom /\ Counted /\ ClaimsTheNext /\ ActsAlone /\ OneADate

LadderInv == crossed \/ InOrder

-----------------------------------------------------------------------------
(* The lock *)

HandMatches == /\ hand = "apply" => padlock
               /\ hand = "remove" => ~padlock /\ IsOpen("remove")

\* A lock that was fitted while its request was being withdrawn is lost.
WithdrawsARequest == Withdrawing /\ record.state = "fitted" => lost

LockInv == HandMatches /\ WithdrawsARequest /\ LockIsKnown

IInv == TypeOK /\ HasRung /\ LadderInv /\ LockInv

-----------------------------------------------------------------------------
\* Rungs are numbered from the bottom and have their days.
LEMMA Constants ==
  /\ Rung = 1..Len(Ladder) /\ Len(Ladder) \in Nat
  /\ \A r \in Rung : Ladder[r].day \in Nat
  /\ \A r, s \in Rung : r < s => Ladder[r].day < Ladder[s].day
  /\ Oldest \in Nat /\ 0 \in 0..Oldest
  /\ SuspendAt \in Nat /\ MaxBehind \in Nat /\ MaxUpsets \in Nat
  <1>1. /\ Rung = 1..Len(Ladder) /\ Len(Ladder) \in Nat /\ Len(Ladder) > 0
        /\ \A r \in Rung : Ladder[r] \in [day : Nat, does : SUBSET Action]
    <2> DEFINE S == [day : Nat, does : SUBSET Action]
    <2>1. Ladder \in Seq(S) /\ Len(Ladder) > 0
      BY LadderAssumption
    <2> HIDE DEF S
    <2>2. DOMAIN Ladder = 1..Len(Ladder) /\ Len(Ladder) \in Nat
          /\ \A r \in 1..Len(Ladder) : Ladder[r] \in S
      BY <2>1
    <2> QED
      BY <2>1, <2>2 DEF Rung, S
  <1>2. \A r \in Rung : Ladder[r].day \in Nat
    BY <1>1
  <1>3. \A r, s \in Rung : r < s => Ladder[r].day < Ladder[s].day
    BY LadderAssumption DEF Rung
  <1>4. SuspendAt \in Nat /\ MaxBehind \in Nat /\ MaxUpsets \in Nat
    BY BoundAssumption
  <1>5. Oldest \in Nat
    <2>1. Len(Ladder) \in Rung
      BY <1>1
    <2>2. Ladder[Len(Ladder)].day + MaxBehind \in Nat
      BY <1>2, <1>4, <2>1
    <2> QED
      BY <1>4, <2>2 DEF Oldest
  <1> QED
    BY <1>1, <1>2, <1>3, <1>4, <1>5

\* At the start nothing is owed, served, asked or fitted.
LEMMA InitHolds == Init => IInv
  <1> SUFFICES ASSUME Init PROVE IInv
    OBVIOUS
  <1>1. TypeOK
    <2>1. at \in [Worker -> Place] /\ rung \in [Runner -> {0} \cup Rung] /\ sent \in [Rung -> 0..2]
      BY DEF Init, Place
    <2>2. task \in [{"apply", "remove"} -> {"none", "open", "older", "shut"}]
      BY DEF Init
    <2>3. 0 \in 0..Oldest /\ 0 \in 0..MaxBehind + 1 /\ 0 \in 0..MaxUpsets
      BY Constants
    <2> QED
      BY <2>1, <2>2, <2>3 DEF Init, TypeOK
  <1>2. HasRung
    BY DEF Init, HasRung, Runner, Worker
  <1>3. LadderInv
    BY DEF Init, LadderInv, InOrder, FromTheBottom, Counted, ClaimsTheNext, ActsAlone, OneADate,
       AtMostOne, Runner, Worker
  <1>4. LockInv
    BY DEF Init, LockInv, HandMatches, WithdrawsARequest, Withdrawing, LockIsKnown, NoRecord, Worker
  <1> QED
    BY <1>1, <1>2, <1>3, <1>4 DEF IInv

\* In order means what the property says.
LEMMA InOrderIsClimbed == IInv => ClimbedInOrder
  <1> SUFFICES ASSUME IInv, ~crossed PROVE ClimbedInOrder
    BY DEF ClimbedInOrder
  <1>1. FromTheBottom /\ Counted /\ AtMostOne(dated \cap served)
    BY DEF IInv, LadderInv, InOrder, OneADate
  <1>2. Cardinality(dated \cap served) <= 1
    <2>1. CASE dated \cap served = {}
      BY <2>1, FS_EmptySet
    <2>2. CASE dated \cap served # {}
      <3>1. PICK r : dated \cap served = {r}
        BY <1>1, <2>2 DEF AtMostOne
      <3> QED
        BY <3>1, FS_Singleton
    <2> QED
      BY <2>1, <2>2
  <1> QED
    BY <1>1, <1>2 DEF ClimbedInOrder, FromTheBottom, Counted, Below

-----------------------------------------------------------------------------
(* Steps that leave a part alone *)

\* The ladder's invariant is kept by what leaves the ladder alone.
LEMMA LadderRests ==
  ASSUME LadderInv, HasRung, UNCHANGED <<owes, served, closed, dated, sent, crossed, at, rung>>
  PROVE  LadderInv' /\ HasRung'
  BY DEF LadderInv, InOrder, FromTheBottom, Counted, ClaimsTheNext, ActsAlone, OneADate,
         AtMostOne, HasRung, Below

\* The lock's invariant is kept by what leaves the lock alone.
LEMMA LockRests ==
  ASSUME LockInv, UNCHANGED <<record, task, padlock, hand, lost>>, Withdrawing' => Withdrawing
  PROVE  LockInv'
  BY DEF LockInv, HandMatches, IsOpen, WithdrawsARequest, LockIsKnown

\* A worker goes where nothing is claimed or carried out.
LEMMA LadderGoes ==
  ASSUME LadderInv, HasRung, NEW w \in Worker, NEW place,
         at \in [Worker -> Place], at' = [at EXCEPT ![w] = place],
         place \notin {"claiming", "acting"}, crossed => crossed',
         UNCHANGED <<owes, served, closed, dated, sent, rung>>
  PROVE  LadderInv' /\ HasRung'
  <1>1. \A v \in Runner : at'[v] \in {"claiming", "acting"} => at'[v] = at[v]
    BY DEF Runner, Worker
  <1>2. HasRung'
    BY <1>1 DEF HasRung
  <1>3. InOrder => InOrder'
    BY <1>1 DEF InOrder, FromTheBottom, Counted, ClaimsTheNext, ActsAlone, OneADate, AtMostOne,
       Below
  <1> QED
    BY <1>2, <1>3 DEF LadderInv

-----------------------------------------------------------------------------
(* Types *)

Status == {"none", "open", "older", "shut"}

LeaseTypes == owes \in BOOLEAN /\ age \in 0..Oldest /\ graced \in BOOLEAN /\ ended \in BOOLEAN
AccessTypes == gate \in {"active", "suspended", "revoked"} /\ letIn \in BOOLEAN
LadderTypes == /\ served \subseteq Rung /\ closed \subseteq Rung /\ dated \subseteq Rung
               /\ sent \in [Rung -> 0..2] /\ crossed \in BOOLEAN
LockTypes == /\ record \in {NoRecord} \cup [state : {"asked", "fitted"}, fetch : BOOLEAN]
             /\ task \in [{"apply", "remove"} -> Status]
             /\ padlock \in BOOLEAN /\ hand \in {"free", "apply", "remove"} /\ lost \in BOOLEAN
ForbearanceTypes == /\ holds \subseteq {"plan", "other"} /\ plan \in {"none", "active", "over"}
                    /\ dropped \in BOOLEAN
ClockTypes == nights \in 0..MaxBehind + 1 /\ due \subseteq OtherJob
PlaceTypes == /\ at \in [Worker -> Place] /\ rung \in [Runner -> {0} \cup Rung]
              /\ gatePass \in {"idle", "suspend", "restore"}
              /\ breach \in {"idle", "broken", "completed"} /\ cancelling \in BOOLEAN
UpsetTypes == upsets \in 0..MaxUpsets

Types == /\ LeaseTypes /\ AccessTypes /\ LadderTypes /\ LockTypes
         /\ ForbearanceTypes /\ ClockTypes /\ PlaceTypes /\ UpsetTypes

\* The types, grouped by who writes what.
LEMMA TypeOKIsTypes == TypeOK <=> Types
  BY DEF TypeOK, Types, LeaseTypes, AccessTypes, LadderTypes, LockTypes, ForbearanceTypes,
         ClockTypes, PlaceTypes, UpsetTypes, Status

\* What a step leaves alone keeps its type.
LEMMA Rests ==
  /\ LeaseTypes /\ UNCHANGED lease => LeaseTypes'
  /\ AccessTypes /\ UNCHANGED access => AccessTypes'
  /\ LadderTypes /\ UNCHANGED ladder => LadderTypes'
  /\ LockTypes /\ UNCHANGED lock => LockTypes'
  /\ ForbearanceTypes /\ UNCHANGED forbearance => ForbearanceTypes'
  /\ ClockTypes /\ UNCHANGED clock => ClockTypes'
  /\ PlaceTypes /\ UNCHANGED places => PlaceTypes'
  /\ UpsetTypes /\ (Upset \/ UNCHANGED upsets) => UpsetTypes'
  <1>1. LeaseTypes /\ UNCHANGED lease => LeaseTypes'
    BY DEF LeaseTypes, lease
  <1>2. AccessTypes /\ UNCHANGED access => AccessTypes'
    BY DEF AccessTypes, access
  <1>3. LadderTypes /\ UNCHANGED ladder => LadderTypes'
    BY DEF LadderTypes, ladder
  <1>4. LockTypes /\ UNCHANGED lock => LockTypes'
    BY DEF LockTypes, lock
  <1>5. ForbearanceTypes /\ UNCHANGED forbearance => ForbearanceTypes'
    BY DEF ForbearanceTypes, forbearance
  <1>6. ClockTypes /\ UNCHANGED clock => ClockTypes'
    BY DEF ClockTypes, clock
  <1>7. PlaceTypes /\ UNCHANGED places => PlaceTypes'
    BY DEF PlaceTypes, places
  <1>8. UpsetTypes /\ (Upset \/ UNCHANGED upsets) => UpsetTypes'
    BY Constants DEF UpsetTypes, Upset
  <1> QED
    BY <1>1, <1>2, <1>3, <1>4, <1>5, <1>6, <1>7, <1>8

\* What happens to a task's status stays a status.
LEMMA TaskTyped ==
  ASSUME NEW status \in Status
  PROVE  Aged(status) \in Status /\ Raised(status) \in Status /\ Shut(status) \in Status
  BY DEF Aged, Raised, Shut, Status

\* Rent that falls due, payments and the end of grace keep the types.
LEMMA MoneyTyped == ASSUME Types, RentDue \/ Pay \/ GraceOver PROVE Types'
  <1>1. LeaseTypes'
    BY Constants DEF RentDue, Pay, GraceOver, Types, LeaseTypes
  <1>2. AccessTypes'
    BY Rests DEF RentDue, Pay, GraceOver, Types, AccessTypes, access
  <1>3. LadderTypes'
    BY DEF RentDue, Pay, GraceOver, Types, LadderTypes, ladder
  <1> QED
    BY <1>1, <1>2, <1>3, Rests DEF RentDue, Pay, GraceOver, Types

\* The gate's rule keeps the types.
LEMMA GateTyped ==
  ASSUME Types, LetInAfterPayment \/ StartGatePass \/ EndGatePass PROVE Types'
  <1>1. AccessTypes'
    BY Rests DEF LetInAfterPayment, StartGatePass, EndGatePass, Types, AccessTypes, access
  <1>2. ClockTypes'
    BY Rests DEF LetInAfterPayment, StartGatePass, EndGatePass, Types, ClockTypes, clock
  <1>3. PlaceTypes'
    BY Rests DEF LetInAfterPayment, StartGatePass, EndGatePass, Types, PlaceTypes, places
  <1> QED
    BY <1>1, <1>2, <1>3, Rests DEF LetInAfterPayment, StartGatePass, EndGatePass, Types

\* Holds and plans keep the types.
LEMMA PlanTyped ==
  ASSUME Types, \/ PlaceHold \/ CreatePlan \/ CancelPlan \/ MarkCancelled \/ StartBreach
                \/ EndBreach \/ JobDies \/ \E h \in holds : LiftHold(h)
  PROVE  Types'
  <1>1. ForbearanceTypes'
    BY Rests DEF PlaceHold, CreatePlan, CancelPlan, MarkCancelled, StartBreach, EndBreach, JobDies,
       LiftHold, Types, ForbearanceTypes, forbearance
  <1>2. ClockTypes'
    BY Rests DEF PlaceHold, CreatePlan, CancelPlan, MarkCancelled, StartBreach, EndBreach, JobDies,
       LiftHold, Types, ClockTypes, clock
  <1>3. PlaceTypes'
    BY Rests DEF PlaceHold, CreatePlan, CancelPlan, MarkCancelled, StartBreach, EndBreach, JobDies,
       LiftHold, Types, PlaceTypes, places
  <1>4. /\ UNCHANGED <<lease, access, ladder, lock>> /\ (Upset \/ UNCHANGED upsets)
    BY DEF PlaceHold, CreatePlan, CancelPlan, MarkCancelled, StartBreach, EndBreach, JobDies,
       LiftHold
  <1> QED
    BY <1>1, <1>2, <1>3, <1>4, Rests DEF Types

\* A returned payment keeps the types.
LEMMA ReturnPaymentTyped ==
  ASSUME Types, NEW resumes \in BOOLEAN, ReturnPayment(resumes) PROVE Types'
  <1>1. LeaseTypes'
    BY DEF ReturnPayment, Types, LeaseTypes
  <1>2. LadderTypes'
    <2>1. served' \subseteq Rung /\ closed' \subseteq Rung /\ sent' \in [Rung -> 0..2]
      BY DEF ReturnPayment, Types, LadderTypes
    <2> QED
      BY <2>1 DEF ReturnPayment, Types, LadderTypes
  <1> QED
    BY <1>1, <1>2, Rests DEF ReturnPayment, Types

\* A new day keeps the types.
LEMMA DayPassesTyped == ASSUME Types, DayPasses PROVE Types'
  <1>1. LeaseTypes'
    BY Constants DEF DayPasses, Types, LeaseTypes
  <1>2. LadderTypes'
    BY DEF DayPasses, Types, LadderTypes
  <1>3. LockTypes'
    BY TaskTyped DEF DayPasses, Types, LockTypes
  <1>4. ClockTypes'
    <2>1. nights <= MaxBehind
      <3>1. CASE nights > 0 /\ nights <= MaxBehind
        BY <3>1
      <3>2. CASE Due = {}
        BY <3>2, Constants DEF Due, Types, ClockTypes
      <3> QED
        BY <3>1, <3>2 DEF DayPasses
    <2>2. nights' = nights + 1 /\ nights \in Nat /\ due' = OtherJob
      BY DEF DayPasses, Types, ClockTypes
    <2> QED
      BY <2>1, <2>2, Constants DEF ClockTypes
  <1> QED
    BY <1>1, <1>2, <1>3, <1>4, Rests DEF DayPasses, Types

\* What evaluating a lease decides is well typed.
LEMMA EvaluateTyped ==
  ASSUME NEW days, NEW ranToday, NEW decision \in Evaluate(days, ranToday)
  PROVE  /\ decision.at \in {"idle", "restoring", "claiming"} /\ decision.rung \in {0} \cup Rung
         /\ decision.at = "claiming" =>
               decision.rung \in Lowest(DueRungs(days)) /\ Climbs(days) /\ ~ranToday
  BY DEF Evaluate, Nothing, Lowest, DueRungs

\* A run that begins with a decision is well typed.
LEMMA BeginTyped ==
  ASSUME Types, NEW w \in Runner, NEW days, NEW ranToday, Begin(w, Evaluate(days, ranToday))
  PROVE  PlaceTypes'
  <1> PICK decision \in Evaluate(days, ranToday) :
          /\ at' = [at EXCEPT ![w] = decision.at] /\ rung' = [rung EXCEPT ![w] = decision.rung]
    BY DEF Begin
  <1>1. decision.at \in Place /\ decision.rung \in {0} \cup Rung
    BY EvaluateTyped DEF Place
  <1> QED
    BY <1>1 DEF Begin, Types, PlaceTypes, Worker

\* The nightly run keeps the types.
LEMMA StartTimelineTyped == ASSUME Types, StartTimeline PROVE Types'
  <1>1. ClockTypes'
    BY Constants DEF StartTimeline, IsNext, Due, Types, ClockTypes, OtherJob
  <1>2. LockTypes'
    BY TaskTyped DEF StartTimeline, Types, LockTypes
  <1>3. LadderTypes'
    BY DEF StartTimeline, Types, LadderTypes
  <1>4. PlaceTypes'
    BY BeginTyped DEF StartTimeline, Runner
  <1> QED
    BY <1>1, <1>2, <1>3, <1>4, Rests DEF StartTimeline, Types

\* A forced run keeps the types.
LEMMA StartForcedTyped == ASSUME Types, StartForced PROVE Types'
  <1>1. PlaceTypes'
    BY BeginTyped DEF StartForced, Runner
  <1> QED
    BY <1>1, Rests DEF StartForced, Types

\* Runs and the sweep are workers.
LEMMA RunnersWork == Runner \subseteq Worker /\ "sweep" \in Worker
  BY DEF Worker

\* A worker that goes elsewhere is well typed.
LEMMA GoesTyped ==
  ASSUME Types, NEW w \in Worker, NEW place \in Place, Goes(w, place) PROVE PlaceTypes'
  BY DEF Goes, Types, PlaceTypes

\* Claiming a rung keeps the types.
LEMMA ClaimTyped == ASSUME Types, HasRung, NEW w \in Runner, Claim(w) PROVE Types'
  <1>1. PlaceTypes'
    BY RunnersWork, GoesTyped DEF Claim, Place
  <1>2. LadderTypes'
    BY DEF Claim, Crosses, HasRung, Types, LadderTypes
  <1> QED
    BY <1>1, <1>2, Rests DEF Claim, Types

\* Serving a rung keeps the types.
LEMMA ActTyped == ASSUME Types, HasRung, NEW w \in Runner, Act(w) PROVE Types'
  <1>1. PlaceTypes'
    BY RunnersWork, GoesTyped DEF Act, Place
  <1>2. LadderTypes'
    <2>1. sent' \in [Rung -> 0..2]
      BY DEF Act, HasRung, Types, LadderTypes
    <2> QED
      BY <2>1 DEF Act, Types, LadderTypes
  <1>3. AccessTypes'
    BY DEF Act, Types, AccessTypes
  <1> QED
    BY <1>1, <1>2, <1>3, Rests DEF Act, Types

\* Restoring access keeps the types.
LEMMA RestoreTyped == ASSUME Types, NEW w \in Worker, Restore(w) PROVE Types'
  <1>1. PlaceTypes'
    BY GoesTyped DEF Restore, Place
  <1>2. AccessTypes'
    BY DEF Restore, Types, AccessTypes
  <1> QED
    BY <1>1, <1>2, Rests DEF Restore, Types

\* Closing the ladder keeps the types.
LEMMA CloseTyped == ASSUME Types, NEW w \in Worker, Close(w) PROVE Types'
  <1>1. PlaceTypes'
    BY GoesTyped DEF Close, Place
  <1>2. LadderTypes'
    <2>1. sent' \in [Rung -> 0..2]
      BY DEF Close, Types, LadderTypes
    <2> QED
      BY <2>1 DEF Close, Crosses, Types, LadderTypes
  <1> QED
    BY <1>1, <1>2, Rests DEF Close, Types

\* The overlock records that are written are well typed.
LEMMA RecordTyped ==
  /\ NoRecord \in {NoRecord} \cup [state : {"asked", "fitted"}, fetch : BOOLEAN]
  /\ [state |-> "asked", fetch |-> FALSE] \in [state : {"asked", "fitted"}, fetch : BOOLEAN]
  /\ LockTypes /\ record.state # "none" =>
            /\ [record EXCEPT !.fetch = TRUE] \in [state : {"asked", "fitted"}, fetch : BOOLEAN]
            /\ [record EXCEPT !.state = "fitted"] \in [state : {"asked", "fitted"}, fetch : BOOLEAN]
  <1>1. [state |-> "asked", fetch |-> FALSE] \in [state : {"asked", "fitted"}, fetch : BOOLEAN]
    OBVIOUS
  <1>2. ASSUME LockTypes, record.state # "none"
        PROVE  record \in [state : {"asked", "fitted"}, fetch : BOOLEAN]
    BY <1>2 DEF LockTypes, NoRecord
  <1>3. ASSUME LockTypes, record.state # "none"
        PROVE  /\ [record EXCEPT !.fetch = TRUE] \in [state : {"asked", "fitted"}, fetch : BOOLEAN]
               /\ [record EXCEPT !.state = "fitted"] \in [state : {"asked", "fitted"}, fetch : BOOLEAN]
    BY <1>2, <1>3
  <1> QED
    BY <1>1, <1>3

\* Withdrawing a request and asking for a removal keep the types.
LEMMA WrittenTyped == ASSUME LockTypes, Withdrawn \/ ToBeFetched PROVE LockTypes'
  <1>1. task' \in [{"apply", "remove"} -> Status]
    BY TaskTyped DEF Withdrawn, ToBeFetched, LockTypes
  <1>2. record' \in {NoRecord} \cup [state : {"asked", "fitted"}, fetch : BOOLEAN]
    BY RecordTyped DEF Withdrawn, ToBeFetched, LockTypes
  <1> QED
    BY <1>1, <1>2 DEF Withdrawn, ToBeFetched, LockTypes

\* What workers do to the lock keeps the types.
LEMMA LockTyped ==
  ASSUME Types, NEW w \in Worker, Ask(w) \/ Record(w) \/ Release(w) \/ Withdraw(w) \/ Fetch(w)
  PROVE  Types'
  <1>1. PlaceTypes'
    <2>1. AfterRelease(w) \in Place /\ (Method # "nothing" => Method \in Place)
          /\ "idle" \in Place /\ "recording" \in Place
      BY DEF AfterRelease, Method, Place
    <2> QED
      BY <2>1, GoesTyped DEF Ask, Record, Release, Withdraw, Fetch
  <1>2. LockTypes'
    <2>1. CASE Ask(w)
      BY <2>1, TaskTyped DEF Ask, Types, LockTypes
    <2>2. CASE Record(w)
      BY <2>2, RecordTyped DEF Record, Types, LockTypes
    <2>3. CASE Release(w)
      BY <2>3, Rests DEF Release, Types
    <2>4. CASE Withdraw(w) \/ Fetch(w)
      BY <2>4, WrittenTyped DEF Withdraw, Fetch, Types
    <2> QED
      BY <2>1, <2>2, <2>3, <2>4
  <1>3. LadderTypes'
    <2>1. CASE Release(w)
      BY <2>1 DEF Release, Crosses, Types, LadderTypes
    <2> QED
      BY <2>1, Rests DEF Ask, Record, Withdraw, Fetch, Types
  <1> QED
    BY <1>1, <1>2, <1>3, Rests DEF Ask, Record, Release, Withdraw, Fetch, Types

\* A move-out keeps the types.
LEMMA MoveOutTyped == ASSUME Types, MoveOut PROVE Types'
  <1>1. LockTypes'
    BY WrittenTyped, Rests DEF MoveOut, Types
  <1>2. LeaseTypes' /\ AccessTypes'
    BY DEF MoveOut, Types, LeaseTypes, AccessTypes
  <1> QED
    BY <1>1, <1>2, Rests DEF MoveOut, Types

\* What staff do at the door keeps the types.
LEMMA StaffTyped == ASSUME Types, FitLock \/ TakeLockOff \/ CompleteTask PROVE Types'
  <1>1. CASE FitLock \/ TakeLockOff
    <2>1. LockTypes'
      BY <1>1 DEF FitLock, TakeLockOff, Types, LockTypes
    <2> QED
      BY <1>1, <2>1, Rests DEF FitLock, TakeLockOff, Types
  <1>2. CASE CompleteTask
    <2>1. task' \in [{"apply", "remove"} -> Status]
      BY <1>2, TaskTyped DEF CompleteTask, Types, LockTypes
    <2>2. record' \in {NoRecord} \cup [state : {"asked", "fitted"}, fetch : BOOLEAN]
      BY <1>2, RecordTyped DEF CompleteTask, Types, LockTypes
    <2>3. LockTypes'
      BY <1>2, <2>1, <2>2 DEF CompleteTask, Types, LockTypes
    <2> QED
      BY <1>2, <2>3, Rests DEF CompleteTask, Types
  <1> QED
    BY <1>1, <1>2

\* Starting the sweep and dying keep the types.
LEMMA EndsTyped ==
  ASSUME Types, StartSweep \/ \E w \in Worker : WorkerDies(w) PROVE Types'
  <1>1. PlaceTypes'
    BY RunnersWork, GoesTyped DEF StartSweep, WorkerDies, Place
  <1>2. ClockTypes'
    BY Rests DEF StartSweep, WorkerDies, Types, ClockTypes
  <1> QED
    BY <1>1, <1>2, Rests DEF StartSweep, WorkerDies, Types

\* Every step keeps the types.
LEMMA NextTyped == Types /\ HasRung /\ [Next]_vars => Types'
  <1> SUFFICES ASSUME Types, HasRung, [Next]_vars PROVE Types'
    OBVIOUS
  <1>1. ASSUME NEW w \in Worker, Works(w) PROVE Types'
    BY <1>1, ClaimTyped, ActTyped, RestoreTyped, CloseTyped, LockTyped DEF Works
  <1>2. CASE UNCHANGED vars
    BY <1>2, Rests DEF vars, Types
  <1> QED
    BY <1>1, <1>2, MoneyTyped, GateTyped, PlanTyped, ReturnPaymentTyped, DayPassesTyped,
       StartTimelineTyped, StartForcedTyped, MoveOutTyped, StaffTyped, EndsTyped DEF Next

-----------------------------------------------------------------------------
(* The lock *)

\* Who is withdrawing after a step of w was so before, or it is w that goes there.
LEMMA GoesWithdrawing ==
  ASSUME Types, NEW w \in Worker, NEW place, at' = [at EXCEPT ![w] = place],
         place # "withdrawing"
  PROVE  Withdrawing' => Withdrawing
  BY DEF Withdrawing, Types, PlaceTypes

\* A withdrawal that is written finds a request, or the lock is lost.
LEMMA WrittenHolds ==
  ASSUME LockInv, LockTypes, Withdrawn \/ ToBeFetched,
         Withdrawn => record.state # "fitted" \/ lost,
         Withdrawing' => Withdrawing
  PROVE  LockInv'
  <1>1. CASE Withdrawn
    <2>1. record'.state = "none" /\ UNCHANGED <<padlock, hand, lost>>
          /\ (IsOpen("remove") => IsOpen("remove")')
      BY <1>1 DEF Withdrawn, NoRecord, LockTypes, IsOpen
    <2> QED
      BY <1>1, <2>1 DEF LockInv, HandMatches, WithdrawsARequest, LockIsKnown
  <1>2. CASE ToBeFetched
    <2>1. record'.state = record.state /\ UNCHANGED <<padlock, hand, lost>>
      BY <1>2 DEF ToBeFetched, LockTypes, NoRecord
    <2>2. IsOpen("remove") => IsOpen("remove")'
      BY <1>2 DEF ToBeFetched, LockTypes, IsOpen, Raised
    <2> QED
      BY <2>1, <2>2 DEF LockInv, HandMatches, WithdrawsARequest, LockIsKnown
  <1> QED
    BY <1>1, <1>2

\* What workers do to the lock's rows keeps the lock's invariant.
LEMMA LockWorks ==
  ASSUME Types, LockInv, NEW w \in Worker,
         Ask(w) \/ Record(w) \/ Release(w) \/ Withdraw(w) \/ Fetch(w)
  PROVE  LockInv'
  <1>1. CASE Ask(w)
    <2>1. (Withdrawing' => Withdrawing) /\ UNCHANGED <<record, padlock, hand, lost>>
      BY <1>1, GoesWithdrawing DEF Ask, Goes
    <2>2. IsOpen("remove") => IsOpen("remove")'
      BY <1>1 DEF Ask, Types, LockTypes, IsOpen
    <2> QED
      BY <2>1, <2>2 DEF LockInv, HandMatches, WithdrawsARequest, LockIsKnown
  <1>2. CASE Record(w)
    <2>1. (Withdrawing' => Withdrawing) /\ UNCHANGED <<task, padlock, hand, lost>>
      BY <1>2, GoesWithdrawing DEF Record, Goes
    <2>2. record'.state = "fitted" <=> record.state = "fitted"
      BY <1>2 DEF Record
    <2> QED
      BY <2>1, <2>2 DEF LockInv, HandMatches, WithdrawsARequest, LockIsKnown, IsOpen
  <1>3. CASE Release(w)
    <2>1. UNCHANGED <<record, task, padlock, hand, lost>>
      BY <1>3 DEF Release, lock
    <2>2. CASE Method = "withdrawing"
      <3>1. record.state # "fitted"
        BY <2>2 DEF Method
      <3> QED
        BY <2>1, <3>1 DEF LockInv, HandMatches, WithdrawsARequest, LockIsKnown, IsOpen
    <2>3. CASE Method # "withdrawing"
      <3>1. PICK place : Goes(w, place) /\ place # "withdrawing"
        BY <1>3, <2>3 DEF Release, AfterRelease
      <3>2. Withdrawing' => Withdrawing
        BY <3>1, GoesWithdrawing DEF Goes
      <3> QED
        BY <2>1, <3>2, LockRests
    <2> QED
      BY <2>2, <2>3
  <1>4. CASE Withdraw(w) \/ Fetch(w)
    <2>1. PICK place : Goes(w, place) /\ place # "withdrawing"
      BY <1>4 DEF Withdraw, Fetch, AfterRelease
    <2>2. Withdrawing' => Withdrawing
      BY <2>1, GoesWithdrawing DEF Goes
    <2>3. Withdraw(w) => record.state # "fitted" \/ lost
      BY DEF Withdraw, Withdrawing, LockInv, WithdrawsARequest
    <2>4. CASE Withdraw(w)
      BY <2>2, <2>3, <2>4, WrittenHolds DEF Withdraw, Types
    <2>5. CASE Fetch(w) /\ ~Withdrawn
      BY <2>2, <2>5, WrittenHolds DEF Fetch, Types
    <2>6. CASE Fetch(w) /\ Withdrawn
      <3>1. record'.state = record.state /\ UNCHANGED <<padlock, hand, lost>>
            /\ (IsOpen("remove") => IsOpen("remove")')
        BY <2>6 DEF Fetch, ToBeFetched, Types, LockTypes, NoRecord, IsOpen, Raised
      <3> QED
        BY <2>2, <3>1 DEF LockInv, HandMatches, WithdrawsARequest, LockIsKnown
    <2> QED
      BY <1>4, <2>4, <2>5, <2>6
  <1> QED
    BY <1>1, <1>2, <1>3, <1>4

\* A move-out keeps the lock's invariant.
LEMMA MoveOutLock == ASSUME Types, LockInv, MoveOut PROVE LockInv'
  <1>1. Withdrawing' <=> Withdrawing
    BY DEF MoveOut, places, Withdrawing
  <1>2. CASE Method = "withdrawing"
    <2>1. record.state # "fitted" /\ Withdrawn
      BY <1>2 DEF MoveOut, Method
    <2> QED
      BY <1>1, <2>1, WrittenHolds DEF Types
  <1>3. CASE Method = "fetching"
    <2>1. ToBeFetched /\ record.state # "none"
      BY <1>3 DEF MoveOut, Method
    <2>2. record'.state = record.state /\ UNCHANGED <<padlock, hand, lost>>
          /\ (IsOpen("remove") => IsOpen("remove")')
      BY <2>1 DEF ToBeFetched, Types, LockTypes, NoRecord, IsOpen, Raised
    <2> QED
      BY <1>1, <2>2 DEF LockInv, HandMatches, WithdrawsARequest, LockIsKnown
  <1>4. CASE Method = "nothing"
    BY <1>1, <1>4, LockRests DEF MoveOut, lock
  <1> QED
    BY <1>2, <1>3, <1>4 DEF Method

\* Staff at the door, and back at the screen.
LEMMA StaffLock == ASSUME Types, LockInv, FitLock \/ TakeLockOff \/ CompleteTask PROVE LockInv'
  <1>1. Withdrawing' <=> Withdrawing
    BY DEF FitLock, TakeLockOff, CompleteTask, places, Withdrawing
  <1>2. CASE FitLock \/ TakeLockOff
    BY <1>1, <1>2 DEF FitLock, TakeLockOff, LockInv, HandMatches, WithdrawsARequest, LockIsKnown,
       IsOpen
  <1>3. CASE CompleteTask /\ hand = "apply"
    <2>1. hand' = "free" /\ padlock' = padlock /\ padlock
          /\ (lost' <=> lost \/ record'.state # "fitted" \/ Withdrawing)
      BY <1>3 DEF CompleteTask, LockInv, HandMatches
    <2> QED
      BY <1>1, <2>1 DEF LockInv, HandMatches, WithdrawsARequest, LockIsKnown
  <1>4. CASE CompleteTask /\ hand = "remove"
    <2>1. hand' = "free" /\ padlock' = padlock /\ ~padlock /\ record' = NoRecord
      BY <1>4 DEF CompleteTask, LockInv, HandMatches
    <2>2. record'.state = "none"
      BY <2>1 DEF NoRecord
    <2> QED
      BY <2>1, <2>2 DEF LockInv, HandMatches, WithdrawsARequest, LockIsKnown
  <1> QED
    BY <1>2, <1>3, <1>4 DEF CompleteTask, Types, LockTypes

\* A day that passes and a nightly run that begins keep the lock's invariant.
LEMMA NightLock == ASSUME Types, LockInv, DayPasses \/ StartTimeline PROVE LockInv'
  <1>1. UNCHANGED <<record, padlock, hand, lost>>
    BY DEF DayPasses, StartTimeline
  <1>2. IsOpen("remove") => IsOpen("remove")'
    BY DEF DayPasses, StartTimeline, Types, LockTypes, IsOpen, Aged
  <1>3. Withdrawing' => Withdrawing
    <2>1. CASE DayPasses
      BY <2>1 DEF DayPasses, places, Withdrawing
    <2>2. CASE StartTimeline
      <3>1. PICK place : at' = [at EXCEPT !["tick"] = place] /\ place # "withdrawing"
        BY <2>2, EvaluateTyped DEF StartTimeline, Begin
      <3> QED
        BY <3>1, GoesWithdrawing DEF Worker, Runner
    <2> QED
      BY <2>1, <2>2
  <1> QED
    BY <1>1, <1>2, <1>3 DEF LockInv, HandMatches, WithdrawsARequest, LockIsKnown

\* Every step keeps the lock's invariant.
LEMMA NextLock == Types /\ LockInv /\ [Next]_vars => LockInv'
  <1> SUFFICES ASSUME Types, LockInv, [Next]_vars PROVE LockInv'
    OBVIOUS
  <1>1. CASE \/ RentDue \/ Pay \/ GraceOver \/ \E resumes \in BOOLEAN : ReturnPayment(resumes)
             \/ LetInAfterPayment \/ PlaceHold \/ CreatePlan \/ UNCHANGED vars
             \/ \E h \in holds : LiftHold(h)
    <2>1. UNCHANGED lock /\ UNCHANGED at
      BY <1>1 DEF RentDue, Pay, GraceOver, ReturnPayment, LetInAfterPayment, PlaceHold, LiftHold,
         CreatePlan, vars, places
    <2> QED
      BY <2>1, LockRests DEF lock, Withdrawing
  <1>2. CASE \/ StartGatePass \/ EndGatePass \/ CancelPlan \/ MarkCancelled
             \/ StartBreach \/ EndBreach \/ JobDies
    <2>1. UNCHANGED lock /\ UNCHANGED at
      BY <1>2 DEF StartGatePass, EndGatePass, CancelPlan, MarkCancelled, StartBreach, EndBreach,
         JobDies
    <2> QED
      BY <2>1, LockRests DEF lock, Withdrawing
  <1>3. CASE StartForced
    <2>1. PICK place : at' = [at EXCEPT !["force"] = place] /\ place # "withdrawing"
      BY <1>3, EvaluateTyped DEF StartForced, Begin
    <2>2. Withdrawing' => Withdrawing
      BY <2>1, GoesWithdrawing DEF Worker, Runner
    <2> QED
      BY <1>3, <2>2, LockRests DEF StartForced, lock
  <1>4. CASE StartSweep \/ \E w \in Worker : WorkerDies(w)
    <2>1. \E w \in Worker : \E place : Goes(w, place) /\ place # "withdrawing"
      BY <1>4, RunnersWork DEF StartSweep, WorkerDies
    <2>2. Withdrawing' => Withdrawing
      BY <2>1, GoesWithdrawing DEF Goes
    <2> QED
      BY <1>4, <2>2, LockRests DEF StartSweep, WorkerDies, lock
  <1>5. ASSUME NEW w \in Worker, Restore(w) \/ Claim(w) \/ Act(w) \/ Close(w) PROVE LockInv'
    <2>1. PICK place : Goes(w, place) /\ place # "withdrawing"
      BY <1>5 DEF Restore, Claim, Act, Close
    <2>2. Withdrawing' => Withdrawing
      BY <2>1, GoesWithdrawing DEF Goes
    <2> QED
      BY <1>5, <2>2, LockRests DEF Restore, Claim, Act, Close, lock
  <1> QED
    BY <1>1, <1>2, <1>3, <1>4, <1>5, LockWorks, MoveOutLock, StaffLock, NightLock DEF Next, Works

-----------------------------------------------------------------------------
(* The ladder *)

\* What is next has everything below it served.
LEMMA LowestIsNext ==
  ASSUME NEW days \in Nat, NEW r \in Lowest(DueRungs(days))
  PROVE  r \in Rung /\ Below(r) \subseteq served
  <1>1. r \in Rung /\ Ladder[r].day <= days
    BY DEF Lowest, DueRungs
  <1>2. ASSUME NEW s \in Rung, s < r, s \notin served PROVE FALSE
    <2>1. s \in DueRungs(days)
      BY <1>1, <1>2, Constants DEF DueRungs
    <2> QED
      BY <1>1, <1>2, <2>1, Constants DEF Lowest
  <1> QED
    BY <1>1, <1>2 DEF Below

\* A runner that begins claims the next rung, on a date that has none.
LEMMA BeginLadder ==
  ASSUME Types, InOrder, HasRung, NEW w \in Runner, at[w] = "idle", NEW days \in Nat,
         NEW ranToday, Begin(w, Evaluate(days, ranToday)),
         UNCHANGED <<owes, served, closed, sent>>,
         \/ dated' = dated /\ (dated \cap served # {} => ranToday)
         \/ dated' = {} /\ \A v \in Runner \ {w} : at[v] = "idle"
  PROVE  InOrder' /\ HasRung'
  <1> PICK decision \in Evaluate(days, ranToday) :
          /\ at' = [at EXCEPT ![w] = decision.at] /\ rung' = [rung EXCEPT ![w] = decision.rung]
    BY DEF Begin
  <1>1. /\ at'[w] = decision.at /\ rung'[w] = decision.rung
        /\ \A v \in Runner \ {w} : at'[v] = at[v] /\ rung'[v] = rung[v]
    BY DEF Types, PlaceTypes, Worker
  <1>2. decision.at \in {"idle", "restoring", "claiming"}
    BY EvaluateTyped
  <1>3. ASSUME decision.at = "claiming"
        PROVE  /\ decision.rung \in Rung /\ Below(decision.rung) \subseteq served
               /\ owes /\ ~ranToday
    BY <1>3, EvaluateTyped, LowestIsNext DEF Climbs
  <1>4. HasRung'
    BY <1>1, <1>2, <1>3 DEF HasRung
  <1>5. FromTheBottom' /\ Counted'
    BY DEF InOrder, FromTheBottom, Counted, Below
  <1>6. ClaimsTheNext'
    <2> SUFFICES ASSUME NEW v \in Runner, at'[v] = "claiming"
                 PROVE  /\ Below(rung'[v]) \subseteq served
                        /\ rung'[v] \notin served => dated' \cap served = {}
                        /\ ~owes => closed = {}
      BY DEF ClaimsTheNext, Below
    <2>1. CASE v = w
      BY <1>1, <1>3, <2>1
    <2>2. CASE v # w
      BY <1>1, <2>2 DEF InOrder, ClaimsTheNext
    <2> QED
      BY <2>1, <2>2
  <1>7. ActsAlone'
    BY <1>1, <1>2 DEF InOrder, ActsAlone
  <1>8. OneADate'
    BY DEF InOrder, OneADate, AtMostOne
  <1> QED
    BY <1>4, <1>5, <1>6, <1>7, <1>8 DEF InOrder

\* The age of a debt some days ago is a number.
LEMMA AgeBackTyped == ASSUME Types, NEW days \in Nat PROVE AgeBack(days) \in Nat
  BY Constants DEF AgeBack, Types, LeaseTypes

\* A run that starts claims the rung after those served, or none.
LEMMA StartsLadder ==
  ASSUME Types, LadderInv, HasRung, StartTimeline \/ StartForced PROVE LadderInv' /\ HasRung'
  <1>1. CASE StartTimeline
    <2>1. nights - 1 \in Nat /\ "tick" \in Runner /\ at["tick"] = "idle" /\ at["force"] = "idle"
      BY <1>1, Constants DEF StartTimeline, IsNext, Due, Types, ClockTypes, OtherJob, Runner
    <2>2. AgeBack(nights - 1) \in Nat
      BY <2>1, AgeBackTyped
    <2>3. /\ UNCHANGED <<owes, served, closed, sent>> /\ dated' = {} /\ crossed' = crossed
          /\ Begin("tick", Evaluate(AgeBack(nights - 1), FALSE))
      BY <1>1 DEF StartTimeline, lease
    <2>4. \A v \in Runner \ {"tick"} : at[v] = "idle"
      BY <2>1 DEF Runner
    <2>5. InOrder => InOrder' /\ HasRung'
      BY <2>1, <2>2, <2>3, <2>4, BeginLadder
    <2>6. HasRung'
      <3> PICK decision \in Evaluate(AgeBack(nights - 1), FALSE) :
            /\ at' = [at EXCEPT !["tick"] = decision.at]
            /\ rung' = [rung EXCEPT !["tick"] = decision.rung]
        BY <2>3 DEF Begin
      <3>1. decision.at = "claiming" => decision.rung \in Rung
        BY EvaluateTyped DEF Lowest, DueRungs
      <3> QED
        BY <2>1, <3>1, EvaluateTyped DEF HasRung, Types, PlaceTypes, Worker
    <2> QED
      BY <2>3, <2>5, <2>6 DEF LadderInv
  <1>2. CASE StartForced
    <2>1. nights \in Nat /\ "force" \in Runner /\ at["force"] = "idle"
      BY <1>2, Constants DEF StartForced, Types, ClockTypes, Runner
    <2>2. AgeBack(nights) \in Nat
      BY <2>1, AgeBackTyped
    <2>3. /\ UNCHANGED <<owes, served, closed, sent, dated, crossed>>
          /\ Begin("force", Evaluate(AgeBack(nights), dated \cap served # {}))
      BY <1>2 DEF StartForced, lease, ladder
    <2>4. InOrder => InOrder' /\ HasRung'
      BY <2>1, <2>2, <2>3, BeginLadder
    <2>5. HasRung'
      <3> PICK decision \in Evaluate(AgeBack(nights), dated \cap served # {}) :
            /\ at' = [at EXCEPT !["force"] = decision.at]
            /\ rung' = [rung EXCEPT !["force"] = decision.rung]
        BY <2>3 DEF Begin
      <3>1. decision.at = "claiming" => decision.rung \in Rung
        BY EvaluateTyped DEF Lowest, DueRungs
      <3> QED
        BY <2>1, <3>1, EvaluateTyped DEF HasRung, Types, PlaceTypes, Worker
    <2> QED
      BY <2>3, <2>4, <2>5 DEF LadderInv
  <1> QED
    BY <1>1, <1>2

\* A rung is claimed: the other runner, if it wants one, wants the same.
LEMMA ClaimLadder ==
  ASSUME Types, LadderInv, HasRung, NEW w \in Runner, Claim(w) PROVE LadderInv' /\ HasRung'
  <1> DEFINE r == rung[w]
  <1>1. r \in Rung /\ at[w] = "claiming"
    BY DEF Claim, HasRung
  <1>2. /\ at' = [at EXCEPT ![w] = IF r \in served THEN "idle" ELSE "acting"]
        /\ UNCHANGED <<owes, closed, sent, rung>>
        /\ served' = served \cup {r}
        /\ dated' = IF r \in served THEN dated ELSE dated \cup {r}
    <2>1. CASE r \in served
      BY <2>1 DEF Claim, CanClaim, Goes, lease
    <2>2. CASE r \notin served
      BY <2>2 DEF Claim, CanClaim, Goes, lease
    <2> QED
      BY <2>1, <2>2
  <1>3. crossed' <=> Crosses(w, Curing)
    BY DEF Claim
  <1> HIDE DEF r
  <1>4. /\ at'[w] \in {"idle", "acting"} /\ (at'[w] = "acting" <=> r \notin served)
        /\ \A v \in Runner \ {w} : at'[v] = at[v]
    BY <1>2 DEF Types, PlaceTypes, Worker
  <1>5. HasRung'
    BY <1>1, <1>2, <1>4 DEF HasRung, r
  <1>6. ASSUME InOrder PROVE InOrder'
    <2>1. Below(r) \subseteq served /\ (r \notin served => dated \cap served = {})
          /\ (~owes => closed = {}) /\ (r \notin served => sent[r] = 0)
      BY <1>1, <1>6 DEF InOrder, ClaimsTheNext, Counted, r
    <2>2. FromTheBottom'
      BY <1>2, <1>6, <2>1 DEF InOrder, FromTheBottom, Below
    <2>3. Counted'
      BY <1>1, <1>2, <1>6, <2>1 DEF InOrder, Counted
    <2>4. ClaimsTheNext'
      <3> SUFFICES ASSUME NEW v \in Runner, at'[v] = "claiming"
                   PROVE  /\ Below(rung[v]) \subseteq served'
                          /\ rung[v] \notin served' => dated' \cap served' = {}
                          /\ ~owes => closed = {}
        BY <1>2 DEF ClaimsTheNext, Below
      <3>1. v # w /\ at[v] = "claiming"
        BY <1>4
      <3>2. rung[v] \in Rung /\ Below(rung[v]) \subseteq served
            /\ (rung[v] \notin served => dated \cap served = {})
        BY <1>6, <3>1 DEF InOrder, ClaimsTheNext, HasRung
      <3>3. r \notin served => rung[v] \in served'
        <4> SUFFICES ASSUME r \notin served, rung[v] \notin served PROVE r = rung[v]
          BY <1>2
        <4>1. r \notin Below(rung[v]) /\ rung[v] \notin Below(r)
          BY <2>1, <3>2
        <4> QED
          BY <1>1, <3>2, <4>1, Constants DEF Below
      <3> QED
        BY <1>2, <2>1, <3>2, <3>3
    <2>5. ActsAlone'
      BY <1>1, <1>2, <1>4, <1>6, <2>1 DEF InOrder, ActsAlone, r
    <2>6. OneADate'
      BY <1>2, <1>6, <2>1 DEF InOrder, OneADate, AtMostOne
    <2> QED
      BY <2>2, <2>3, <2>4, <2>5, <2>6 DEF InOrder
  <1>7. crossed => crossed'
    BY <1>3 DEF Crosses
  <1> QED
    BY <1>5, <1>6, <1>7 DEF LadderInv

\* Serving the claimed rung extends the ladder by its next rung.
LEMMA ActLadder ==
  ASSUME Types, LadderInv, HasRung, NEW w \in Runner, Act(w) PROVE LadderInv' /\ HasRung'
  <1> DEFINE r == rung[w]
  <1>1. r \in Rung /\ at[w] = "acting"
    BY DEF Act, HasRung
  <1>2. PICK place : /\ at' = [at EXCEPT ![w] = place] /\ place \notin {"claiming", "acting"}
                     /\ UNCHANGED <<owes, served, closed, dated, crossed, rung>>
                     /\ sent' = [sent EXCEPT ![r] = IF @ < 2 THEN @ + 1 ELSE 2]
    <2> DEFINE place == IF "lock" \in Ladder[r].does THEN "asking" ELSE "idle"
    <2>1. at' = [at EXCEPT ![w] = place] /\ UNCHANGED <<owes, served, closed, dated, crossed, rung>>
      BY DEF Act, Goes, lease
    <2>2. sent' = [sent EXCEPT ![r] = IF @ < 2 THEN @ + 1 ELSE 2]
      BY DEF Act
    <2>3. place \notin {"claiming", "acting"}
      OBVIOUS
    <2> HIDE DEF place
    <2> QED
      BY <2>1, <2>2, <2>3
  <1> HIDE DEF r
  <1>3. /\ at'[w] \notin {"claiming", "acting"} /\ \A v \in Runner \ {w} : at'[v] = at[v]
    BY <1>2 DEF Types, PlaceTypes, Worker
  <1>4. HasRung'
    BY <1>2, <1>3 DEF HasRung
  <1>5. ASSUME InOrder PROVE InOrder'
    <2>1. r \in served /\ sent[r] = 0
          /\ \A v \in Runner \ {w} : at[v] = "acting" => rung[v] # r
      BY <1>1, <1>5 DEF InOrder, ActsAlone, r
    <2>2. sent'[r] = 1 /\ \A s \in Rung \ {r} : sent'[s] = sent[s]
      BY <1>1, <1>2, <2>1 DEF Types, LadderTypes
    <2>3. Counted'
      BY <1>2, <1>5, <2>1, <2>2 DEF InOrder, Counted, Types, LadderTypes
    <2>4. ActsAlone'
      BY <1>2, <1>3, <1>5, <2>1, <2>2 DEF InOrder, ActsAlone, HasRung
    <2>5. FromTheBottom' /\ ClaimsTheNext' /\ OneADate'
      BY <1>2, <1>3, <1>5 DEF InOrder, FromTheBottom, ClaimsTheNext, OneADate, AtMostOne, Below
    <2> QED
      BY <2>3, <2>4, <2>5 DEF InOrder
  <1> QED
    BY <1>2, <1>4, <1>5 DEF LadderInv

\* The open rungs are closed: nobody else may be climbing.
LEMMA CloseLadder ==
  ASSUME Types, LadderInv, HasRung, NEW w \in Runner, Close(w) PROVE LadderInv' /\ HasRung'
  <1>1. /\ at' = [at EXCEPT ![w] = "idle"] /\ UNCHANGED <<owes, dated, rung>>
        /\ closed' = closed \cup served /\ served' = {}
        /\ sent' = [r \in Rung |-> IF r \in served THEN 0 ELSE sent[r]]
        /\ (crossed' <=> Crosses(w, Climbing))
    BY DEF Close, Goes, lease
  <1>2. at'[w] = "idle" /\ \A v \in Runner \ {w} : at'[v] = at[v]
    BY <1>1 DEF Types, PlaceTypes, Worker
  <1>3. HasRung'
    BY <1>1, <1>2 DEF HasRung
  <1>4. crossed' \/ \A v \in Runner : at'[v] \notin {"claiming", "acting"}
    BY <1>1, <1>2 DEF Crosses, Climbing
  <1>5. ASSUME InOrder, \A v \in Runner : at'[v] \notin {"claiming", "acting"} PROVE InOrder'
    <2>1. FromTheBottom'
      BY <1>1, <1>5 DEF InOrder, FromTheBottom, Below
    <2>2. Counted'
      BY <1>1, <1>5 DEF InOrder, Counted
    <2>3. ClaimsTheNext' /\ ActsAlone'
      BY <1>5 DEF ClaimsTheNext, ActsAlone
    <2>4. OneADate'
      BY <1>1, <1>5 DEF InOrder, OneADate, AtMostOne
    <2> QED
      BY <2>1, <2>2, <2>3, <2>4 DEF InOrder
  <1>6. crossed => crossed'
    BY <1>1 DEF Crosses
  <1> QED
    BY <1>3, <1>4, <1>5, <1>6 DEF LadderInv

\* A returned payment resumes the ladder above what was served, or leaves it as it is.
LEMMA ReturnLadder ==
  ASSUME Types, LadderInv, HasRung, NEW resumes \in BOOLEAN, ReturnPayment(resumes)
  PROVE  LadderInv' /\ HasRung'
  <1>1. /\ ~owes /\ owes' /\ UNCHANGED <<at, rung, dated>>
        /\ served' = (IF resumes THEN served \cup closed ELSE served)
        /\ closed' = (IF resumes THEN {} ELSE closed)
        /\ sent' = [r \in Rung |-> IF r \in served' \ served THEN 1 ELSE sent[r]]
        /\ (crossed' <=> (crossed \/ \E w \in Runner : at[w] \in Climbing))
    BY DEF ReturnPayment, places
  <1>2. HasRung'
    BY <1>1 DEF HasRung
  <1>3. crossed' \/ \A v \in Runner : at'[v] \notin {"claiming", "acting"}
    BY <1>1 DEF Climbing
  <1>4. ASSUME InOrder, \A v \in Runner : at'[v] \notin {"claiming", "acting"} PROVE InOrder'
    <2>1. FromTheBottom'
      BY <1>1, <1>4 DEF InOrder, FromTheBottom, Below
    <2>2. Counted'
      BY <1>1, <1>4 DEF InOrder, Counted, Types, LadderTypes
    <2>3. ClaimsTheNext' /\ ActsAlone'
      BY <1>4 DEF ClaimsTheNext, ActsAlone
    <2>4. OneADate'
      BY <1>1, <1>4 DEF InOrder, OneADate, AtMostOne
    <2> QED
      BY <2>1, <2>2, <2>3, <2>4 DEF InOrder
  <1> QED
    BY <1>1, <1>2, <1>3, <1>4 DEF LadderInv

\* Rent and payments leave the rungs alone.
LEMMA MoneyLadder ==
  ASSUME LadderInv, HasRung, RentDue \/ Pay PROVE LadderInv' /\ HasRung'
  <1>1. CASE RentDue
    <2>1. owes' /\ UNCHANGED <<served, closed, dated, sent, crossed, at, rung>>
      BY <1>1 DEF RentDue, places
    <2> QED
      BY <2>1 DEF LadderInv, InOrder, FromTheBottom, Counted, ClaimsTheNext, ActsAlone, OneADate,
         AtMostOne, HasRung, Below
  <1>2. CASE Pay
    <2>1. closed' = {} /\ UNCHANGED <<served, dated, sent, crossed, at, rung>>
      BY <1>2 DEF Pay, places
    <2> QED
      BY <2>1 DEF LadderInv, InOrder, FromTheBottom, Counted, ClaimsTheNext, ActsAlone, OneADate,
         AtMostOne, HasRung, Below
  <1> QED
    BY <1>1, <1>2

\* Every step keeps the ladder's invariant.
LEMMA NextLadder == Types /\ LadderInv /\ HasRung /\ [Next]_vars => LadderInv' /\ HasRung'
  <1> SUFFICES ASSUME Types, LadderInv, HasRung, [Next]_vars PROVE LadderInv' /\ HasRung'
    OBVIOUS
  <1>1. CASE \/ GraceOver \/ DayPasses \/ MoveOut \/ LetInAfterPayment
             \/ FitLock \/ TakeLockOff \/ CompleteTask \/ PlaceHold \/ CreatePlan
             \/ UNCHANGED vars
             \/ \E h \in holds : LiftHold(h)
    <2>1. UNCHANGED <<owes, served, closed, dated, sent, crossed, at, rung>>
      BY <1>1 DEF GraceOver, DayPasses, MoveOut, LetInAfterPayment, FitLock, TakeLockOff,
         CompleteTask, PlaceHold, CreatePlan, LiftHold, vars, lease, ladder, places
    <2> QED
      BY <2>1, LadderRests
  <1>2. CASE \/ StartGatePass \/ EndGatePass \/ CancelPlan \/ MarkCancelled
             \/ StartBreach \/ EndBreach \/ JobDies
    <2>1. UNCHANGED <<owes, served, closed, dated, sent, crossed, at, rung>>
      BY <1>2 DEF StartGatePass, EndGatePass, CancelPlan, MarkCancelled, StartBreach, EndBreach,
         JobDies, lease, ladder
    <2> QED
      BY <2>1, LadderRests
  <1>3. CASE StartSweep \/ \E w \in Worker : WorkerDies(w)
    <2>1. PICK w \in Worker : \E place : Goes(w, place) /\ place \notin {"claiming", "acting"}
      BY <1>3, RunnersWork DEF StartSweep, WorkerDies
    <2>2. UNCHANGED <<owes, served, closed, dated, sent, crossed>>
      BY <1>3 DEF StartSweep, WorkerDies, lease, ladder
    <2> QED
      BY <2>1, <2>2, LadderGoes DEF Goes, Types, PlaceTypes
  <1>4. ASSUME NEW w \in Worker,
               Ask(w) \/ Record(w) \/ Restore(w) \/ Release(w) \/ Withdraw(w) \/ Fetch(w)
        PROVE  LadderInv' /\ HasRung'
    <2>1. PICK place : Goes(w, place) /\ place \notin {"claiming", "acting"}
      BY <1>4 DEF Ask, Record, Restore, Release, Withdraw, Fetch, AfterRelease, Method
    <2>2. UNCHANGED <<owes, served, closed, dated, sent>> /\ (crossed => crossed')
      <3>1. CASE Release(w)
        BY <3>1 DEF Release, Crosses, lease
      <3>2. CASE Ask(w) \/ Record(w) \/ Restore(w) \/ Withdraw(w) \/ Fetch(w)
        <4>1. UNCHANGED lease /\ UNCHANGED ladder
          BY <3>2 DEF Ask, Record, Restore, Withdraw, Fetch
        <4> QED
          BY <4>1 DEF lease, ladder
      <3> QED
        BY <1>4, <3>1, <3>2
    <2> QED
      BY <2>1, <2>2, LadderGoes DEF Goes, Types, PlaceTypes
  <1> QED
    BY <1>1, <1>2, <1>3, <1>4, StartsLadder, ClaimLadder, ActLadder, CloseLadder, ReturnLadder,
       MoneyLadder DEF Next, Works

-----------------------------------------------------------------------------
\* Every step keeps the invariant.
LEMMA NextHolds == IInv /\ [Next]_vars => IInv'
  <1>1. IInv => Types
    BY TypeOKIsTypes DEF IInv
  <1>2. Types' => TypeOK'
    BY TypeOKIsTypes, PTL
  <1> QED
    BY <1>1, <1>2, NextTyped, NextLadder, NextLock DEF IInv

\* The invariant holds in every state, for any ladder and any number of upsets.
THEOREM InvariantHolds == Spec => []IInv
  <1> QED
    BY InitHolds, NextHolds, PTL DEF Spec

\* The variables have their types, over any number of nights.
THEOREM DelinquencyTyped == Spec => []TypeOK
  <1>1. IInv => TypeOK
    BY DEF IInv
  <1> QED
    BY InvariantHolds, <1>1, PTL

\* The ladder is climbed in order: no rung is skipped, none served twice in an
\* episode, no two on one date, unless a run was overtaken by a cure or a return.
THEOREM DelinquencyInOrder == Spec => []ClimbedInOrder
  <1> QED
    BY InvariantHolds, InOrderIsClimbed, PTL

\* The record says what hangs on the door, but for the moments of LockIsKnown.
THEOREM DelinquencyLockIsKnown == Spec => []LockIsKnown
  <1>1. IInv => LockIsKnown
    BY DEF IInv, LockInv
  <1> QED
    BY InvariantHolds, <1>1, PTL
=============================================================================
