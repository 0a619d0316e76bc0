----------------------------- MODULE Delinquency -----------------------------
(***************************************************************************)
(* One lease that falls behind and catches up: the nightly ladder and its  *)
(* cure (lib/delinquency/engine.ts), the overlock on the unit's door and   *)
(* the two tasks that put it on and take it off (overlock.ts, tasks.ts),   *)
(* the nightly rule over the gate (access/delinquency-gate.ts), holds and  *)
(* payment plans (holds.ts, payment-plans.ts, payment-plan-breach.ts).     *)
(* A statement or a transaction of the database is a step; dates are       *)
(* counted back from today, so that nights may go on for ever.             *)
(***************************************************************************)
EXTENDS Integers, Sequences, FiniteSets

CONSTANTS Ladder,      \* the steps by dayOffset: [day |-> n, does |-> actions]
          SuspendAt,   \* accessSuspendDaysPastDue
          Turn,        \* the order of a night's jobs: by their hours, or as registered
          MaxBehind,   \* bound: nights the timeline may be behind with
          MaxUpsets    \* bound: returns, holds, plans, forced runs and deaths

Action == {"suspend", "restore", "lock"}

ASSUME LadderAssumption ==
    /\ Ladder \in Seq([day : Nat, does : SUBSET Action]) /\ Len(Ladder) > 0
    /\ \A i, j \in DOMAIN Ladder : i < j => Ladder[i].day < Ladder[j].day
ASSUME TurnAssumption == Turn \in [{"timeline", "sweep", "breach", "gate"} -> Nat]
ASSUME BoundAssumption == SuspendAt \in Nat /\ MaxBehind \in Nat /\ MaxUpsets \in Nat

Rung == DOMAIN Ladder

\* The nightly run, the same run forced by staff, and the sweep of stuck locks.
Runner == {"tick", "force"}
Worker == Runner \cup {"sweep"}

\* Ages beyond this one are not told apart.
Oldest == LET last == Ladder[Len(Ladder)].day + MaxBehind
          IN  IF last > SuspendAt THEN last ELSE SuspendAt

VARIABLES
    owes, age, graced, ended,    \* the lease: money, days since rent fell due, reversal grace
    gate, letIn,                 \* its grant, and a payment's call that has yet to see to it
    served, closed, dated,       \* step runs: open, superseded since the last payment, of tonight's date
    record, task, padlock, hand, \* the UnitOverlock, its tasks, the door, what staff have done unrecorded
    holds, plan,
    nights, due,                 \* dates the timeline is owed; other jobs that have yet to run today
    at, rung, gatePass, breach, cancelling,  \* where each job and request is
    upsets,
    sent,                        \* ghost: how often each rung was served in this episode
    lost, dropped, crossed       \* ghosts: see the properties

lease == <<owes, age, graced, ended>>
access == <<gate, letIn>>
ladder == <<served, closed, dated, sent, crossed>>
lock == <<record, task, padlock, hand, lost>>
forbearance == <<holds, plan, dropped>>
clock == <<nights, due>>
places == <<at, rung, gatePass, breach, cancelling>>

vars == <<lease, access, ladder, lock, forbearance, clock, places, upsets>>

Place == {"idle", "claiming", "acting", "asking", "recording",
          "restoring", "releasing", "withdrawing", "fetching", "closing"}

OtherJob == {"gate", "breach", "sweep"}

\* An overlock: asked for, then fitted; fetch says its removal task is on it.
NoRecord == [state |-> "none", fetch |-> FALSE]

TypeOK ==
    /\ owes \in BOOLEAN /\ age \in 0..Oldest /\ graced \in BOOLEAN /\ ended \in BOOLEAN
    /\ gate \in {"active", "suspended", "revoked"} /\ letIn \in BOOLEAN
    /\ served \subseteq Rung /\ closed \subseteq Rung /\ dated \subseteq Rung
    /\ record \in {NoRecord} \cup [state : {"asked", "fitted"}, fetch : BOOLEAN]
    /\ task \in [{"apply", "remove"} -> {"none", "open", "older", "shut"}]
    /\ padlock \in BOOLEAN /\ hand \in {"free", "apply", "remove"}
    /\ holds \subseteq {"plan", "other"}
    /\ plan \in {"none", "active", "over"}
    /\ nights \in 0..MaxBehind + 1 /\ due \subseteq OtherJob
    /\ at \in [Worker -> Place] /\ rung \in [Runner -> {0} \cup Rung]
    /\ gatePass \in {"idle", "suspend", "restore"}
    /\ breach \in {"idle", "broken", "completed"} /\ cancelling \in BOOLEAN
    /\ upsets \in 0..MaxUpsets
    /\ sent \in [Rung -> 0..2]
    /\ lost \in BOOLEAN /\ dropped \in BOOLEAN /\ crossed \in BOOLEAN

Init ==
    /\ owes = FALSE /\ age = 0 /\ graced = FALSE /\ ended = FALSE
    /\ gate = "active" /\ letIn = FALSE
    /\ served = {} /\ closed = {} /\ dated = {}
    /\ record = NoRecord /\ task = [k \in {"apply", "remove"} |-> "none"]
    /\ padlock = FALSE /\ hand = "free"
    /\ holds = {} /\ plan = "none"
    /\ nights = 0 /\ due = {}
    /\ at = [w \in Worker |-> "idle"] /\ rung = [r \in Runner |-> 0]
    /\ gatePass = "idle" /\ breach = "idle" /\ cancelling = FALSE
    /\ upsets = 0
    /\ sent = [r \in Rung |-> 0]
    /\ lost = FALSE /\ dropped = FALSE /\ crossed = FALSE

Upset == upsets < MaxUpsets /\ upsets' = upsets + 1

---------------------------------------------------------------------------
(* Money and time *)

\* The next month's rent, in the balance from the moment it is invoiced.
RentDue ==
    /\ ~owes /\ ~ended
    /\ owes' = TRUE /\ age' = 0
    /\ UNCHANGED <<graced, ended, access, served, closed, dated, sent, crossed,
                   lock, forbearance, clock, places, upsets>>

\* Everything is paid or forgiven; the webhook and the counter then call
\* restoreAccessIfSettled, outside the payment's transaction.
Pay ==
    /\ owes
    /\ owes' = FALSE
    /\ closed' = {}
    /\ letIn' = TRUE
    /\ UNCHANGED <<age, graced, ended, gate, served, dated, sent, crossed,
                   lock, forbearance, clock, places, upsets>>

Climbing == {"claiming", "acting", "asking", "recording"}
Curing == {"releasing", "withdrawing", "fetching", "closing"}

\* The other run of the ladder is at one of those places.
Crosses(w, doing) == crossed \/ \E v \in Runner \ {w} : at[v] \in doing

\* returnPayment: the arrears are back at their age, with a grace, and the step
\* runs that were superseded since are put back (reversalResumes), unless the
\* process dies first.
ReturnPayment(resumes) ==
    /\ ~owes /\ age > 0
    /\ Upset
    /\ owes' = TRUE /\ graced' = TRUE
    /\ served' = IF resumes THEN served \cup closed ELSE served
    /\ closed' = IF resumes THEN {} ELSE closed
    /\ sent' = [r \in Rung |-> IF r \in served' \ served THEN 1 ELSE sent[r]]
    /\ crossed' = (crossed \/ \E w \in Runner : at[w] \in Climbing)
    /\ UNCHANGED <<age, ended, access, dated, lock, forbearance, clock, places>>

\* The days of grace are over and the settling_payment_failed task is closed.
GraceOver ==
    /\ graced
    /\ graced' = FALSE
    /\ UNCHANGED <<owes, age, ended, access, ladder, lock, forbearance, clock, places, upsets>>

\* Of an earlier date, for createTask: open tasks stay open.
Aged(status) == IF status \in {"open", "older"} THEN "older" ELSE "none"

\* What is owed of this night.
Due == due \cup IF nights > 0 THEN {"timeline"} ELSE {}

\* The scheduled jobs run one after the other; forced runs and people do not wait.
IsNext(job) == /\ job \in Due /\ \A other \in Due : Turn[job] <= Turn[other]
               /\ at["tick"] = "idle" /\ at["sweep"] = "idle" /\ gatePass = "idle" /\ breach = "idle"

AllIdle == /\ \A w \in Worker : at[w] = "idle"
           /\ gatePass = "idle" /\ breach = "idle" /\ ~cancelling /\ ~letIn

\* No request outlives its night (maxDuration of the cron route).  A night is
\* over when its jobs have run; one whose timeline never ran is still owed.
DayPasses ==
    /\ AllIdle
    /\ Due = {} \/ (nights > 0 /\ nights <= MaxBehind)
    /\ nights' = nights + 1
    /\ due' = OtherJob
    /\ age' = IF age < Oldest THEN age + 1 ELSE age
    /\ task' = [task EXCEPT !["remove"] = Aged(@)]
    /\ UNCHANGED <<owes, graced, ended, access, served, closed, dated, sent, crossed,
                   record, padlock, hand, lost, forbearance, places, upsets>>

---------------------------------------------------------------------------
(* The gate *)

\* gateDecision, on what the tenant owes now and how old that is.
Suspends(days) == /\ holds = {} /\ ~ended /\ owes
                  /\ SuspendAt > 0 /\ days >= SuspendAt
Restores == holds = {} /\ ~ended /\ ~owes

\* restoreAccessIfSettled, for a grant that is suspended.
LetsIn == gate = "suspended" /\ Restores

\* The call that follows a payment; it may be lost with its process.
LetInAfterPayment ==
    /\ letIn
    /\ letIn' = FALSE
    /\ gate' \in {gate, IF LetsIn THEN "active" ELSE gate}
    /\ UNCHANGED <<lease, ladder, lock, forbearance, clock, places, upsets>>

\* Mutant: the pass restores nobody, the payment's own call being trusted.
StartGatePassMutant ==
    /\ IsNext("gate")
    /\ due' = due \ {"gate"}
    /\ gatePass' = IF gate = "active" /\ Suspends(age) THEN "suspend" ELSE "idle"
    /\ UNCHANGED <<lease, access, ladder, lock, forbearance, nights, at, rung, breach,
                   cancelling, upsets>>

\* evaluateAccessSuspensions reads balances, holds and grants, and decides.
StartGatePass ==
    /\ IsNext("gate")
    /\ due' = due \ {"gate"}
    /\ gatePass' = IF gate = "suspended" /\ Restores THEN "restore"
                   ELSE IF gate = "active" /\ Suspends(age) THEN "suspend"
                   ELSE "idle"
    /\ UNCHANGED <<lease, access, ladder, lock, forbearance, nights, at, rung, breach,
                   cancelling, upsets>>

\* transitionGrant, whatever has been paid since; a revoked grant stays so.
EndGatePass ==
    /\ gatePass # "idle"
    /\ gate' = IF gate = "revoked" THEN gate
               ELSE IF gatePass = "suspend" THEN "suspended" ELSE "active"
    /\ gatePass' = "idle"
    /\ UNCHANGED <<lease, letIn, ladder, lock, forbearance, clock, at, rung, breach,
                   cancelling, upsets>>

---------------------------------------------------------------------------
(* The ladder *)

\* The age of the debt on a date that many days ago.
AgeBack(days) == IF age > days THEN age - days ELSE 0

DueRungs(days) == {r \in Rung : Ladder[r].day <= days /\ r \notin served}

Lowest(R) == {r \in R : \A s \in R : r <= s}

Nothing == [at |-> "idle", rung |-> 0]

Climbs(days) == owes /\ ~ended /\ ~graced /\ DueRungs(days) # {}

\* evaluate: on hold, cured, moved out, in reversal grace, then one rung, the
\* lowest that is due, and none if one of this date was climbed.
Evaluate(days, ranToday) ==
    IF holds # {} THEN {Nothing}
    ELSE IF ~owes /\ served # {} THEN {[at |-> "restoring", rung |-> 0]}
    ELSE IF Climbs(days) /\ ~ranToday
         THEN {[at |-> "claiming", rung |-> r] : r \in Lowest(DueRungs(days))}
    ELSE {Nothing}

Begin(w, decisions) ==
    /\ \E decision \in decisions : /\ at' = [at EXCEPT ![w] = decision.at]
                                   /\ rung' = [rung EXCEPT ![w] = decision.rung]
    /\ UNCHANGED <<gatePass, breach, cancelling>>

Goes(w, place) == /\ at' = [at EXCEPT ![w] = place]
                  /\ UNCHANGED <<rung, gatePass, breach, cancelling>>

\* runDelinquencyTimeline for the oldest date that is owed; all it decides by
\* is read before it acts.
StartTimeline ==
    /\ IsNext("timeline") /\ at["force"] = "idle"
    /\ nights' = nights - 1
    /\ dated' = {}
    /\ task' = [task EXCEPT !["apply"] = Aged(@)]
    /\ Begin("tick", Evaluate(AgeBack(nights - 1), FALSE))
    /\ UNCHANGED <<lease, access, served, closed, sent, crossed, record, padlock,
                   hand, lost, forbearance, due, upsets>>

\* rerunJobRun: staff force the last date again, perhaps while it is at work.
StartForced ==
    /\ at["force"] = "idle"
    /\ Upset
    /\ Begin("force", Evaluate(AgeBack(nights), dated \cap served # {}))
    /\ UNCHANGED <<lease, access, ladder, lock, forbearance, clock>>

\* Mutant: no unique index over the open step runs.
CanClaimMutant(r) == TRUE

\* delinquency_step_run_open_episode: one open row of a lease and a day.
CanClaim(r) == r \notin served

\* executeStep claims the rung first; who comes second does nothing.
Claim(w) ==
    LET r == rung[w]
    IN  /\ at[w] = "claiming"
        /\ IF CanClaim(r)
           THEN /\ served' = served \cup {r} /\ dated' = dated \cup {r}
                /\ Goes(w, "acting")
           ELSE Goes(w, "idle") /\ UNCHANGED <<served, dated>>
        /\ crossed' = Crosses(w, Curing)
        /\ UNCHANGED <<lease, access, closed, sent, lock, forbearance, clock, upsets>>

\* The rung's automated actions: its notice, the gate.
Act(w) ==
    LET r == rung[w]
        does == Ladder[r].does
    IN  /\ at[w] = "acting"
        /\ gate' = IF gate = "active" /\ "suspend" \in does THEN "suspended"
                   ELSE IF LetsIn /\ "restore" \in does THEN "active" ELSE gate
        /\ sent' = [sent EXCEPT ![r] = IF @ < 2 THEN @ + 1 ELSE 2]
        /\ Goes(w, IF "lock" \in does THEN "asking" ELSE "idle")
        /\ UNCHANGED <<lease, letIn, served, closed, dated, crossed, lock,
                       forbearance, clock, upsets>>

---------------------------------------------------------------------------
(* The lock on the door *)

\* createTask: one task of a type, lease and date, whatever became of it.
Raised(status) == IF status \in {"none", "older"} THEN "open" ELSE status

\* Completed or cancelled; a task of today stays in createTask's way.
Shut(status) == CASE status = "open"  -> "shut"
                  [] status = "older" -> "none"
                  [] OTHER            -> status

IsOpen(kind) == task[kind] \in {"open", "older"}

\* requestOverlock: nothing if a live overlock is there, else the task first.
Ask(w) ==
    /\ at[w] = "asking"
    /\ IF record.state # "none" THEN Goes(w, "idle") /\ UNCHANGED task
       ELSE Goes(w, "recording") /\ task' = [task EXCEPT !["apply"] = Raised(@)]
    /\ UNCHANGED <<lease, access, ladder, record, padlock, hand, lost, forbearance, clock, upsets>>

\* And then the overlock; unit_overlock_one_live_per_unit refuses a second.
Record(w) ==
    /\ at[w] = "recording"
    /\ record' = IF record.state = "none" THEN [state |-> "asked", fetch |-> FALSE] ELSE record
    /\ Goes(w, "idle")
    /\ UNCHANGED <<lease, access, ladder, task, padlock, hand, lost, forbearance, clock, upsets>>

\* cure: the gate first.
Restore(w) ==
    /\ at[w] = "restoring"
    /\ gate' = IF LetsIn THEN "active" ELSE gate
    /\ Goes(w, "releasing")
    /\ UNCHANGED <<lease, letIn, ladder, lock, forbearance, clock, upsets>>

AfterRelease(w) == IF w = "sweep" THEN "idle" ELSE "closing"

\* Mutant: a lock that was fitted is withdrawn like one that was not.
MethodMutant == IF record.state = "none" THEN "nothing" ELSE "withdrawing"

\* releaseOverlock looks at the live overlock of the lease: withdraw what was
\* never fitted, have fetched what was, unless somebody is on the way.
Method == IF record.state = "none" \/ (record.fetch /\ IsOpen("remove")) THEN "nothing"
          ELSE IF record.state = "asked" THEN "withdrawing" ELSE "fetching"

Release(w) ==
    /\ at[w] = "releasing"
    /\ crossed' = Crosses(w, Climbing)
    /\ Goes(w, IF Method = "nothing" THEN AfterRelease(w) ELSE Method)
    /\ UNCHANGED <<lease, access, served, closed, dated, sent, lock, forbearance, clock, upsets>>

\* What the two methods write, whatever the record has become.
Withdrawn == /\ record' = NoRecord
             /\ task' = [task EXCEPT !["apply"] = Shut(@)]
             /\ UNCHANGED <<padlock, hand, lost>>

\* Mutant: the task is put on the lock though it has been taken off.
ToBeFetchedMutant == /\ record' = [record EXCEPT !.fetch = TRUE]
                     /\ task' = [task EXCEPT !["remove"] = Raised(@)]
                     /\ UNCHANGED <<padlock, hand, lost>>

ToBeFetched == /\ record' = IF record.state = "none" THEN record ELSE [record EXCEPT !.fetch = TRUE]
               /\ task' = [task EXCEPT !["remove"] = Raised(@)]
               /\ UNCHANGED <<padlock, hand, lost>>

Withdraw(w) ==
    /\ at[w] = "withdrawing"
    /\ Withdrawn
    /\ Goes(w, AfterRelease(w))
    /\ UNCHANGED <<lease, access, ladder, forbearance, clock, upsets>>

Fetch(w) ==
    /\ at[w] = "fetching"
    /\ ToBeFetched
    /\ Goes(w, AfterRelease(w))
    /\ UNCHANGED <<lease, access, ladder, forbearance, clock, upsets>>

\* cure, at last: the open step runs are superseded.
Close(w) ==
    /\ at[w] = "closing"
    /\ closed' = closed \cup served /\ served' = {}
    /\ sent' = [r \in Rung |-> IF r \in served THEN 0 ELSE sent[r]]
    /\ crossed' = Crosses(w, Climbing)
    /\ Goes(w, "idle")
    /\ UNCHANGED <<lease, access, dated, lock, forbearance, clock, upsets>>

\* Mutant: only the cure sees to the lock.
StartSweepMutant ==
    /\ IsNext("sweep")
    /\ due' = due \ {"sweep"}
    /\ UNCHANGED <<lease, access, ladder, lock, forbearance, nights, places, upsets>>

\* releaseStuckOverlocks, for a lease that has ended.
StartSweep ==
    /\ IsNext("sweep")
    /\ due' = due \ {"sweep"}
    /\ Goes("sweep", IF ended /\ record.state # "none" THEN "releasing" ELSE "idle")
    /\ UNCHANGED <<lease, access, ladder, lock, forbearance, nights, upsets>>

\* completeMoveOut releases the lock in its transaction and revokes the grant.
MoveOut ==
    /\ ~ended
    /\ ended' = TRUE
    /\ gate' = "revoked"
    /\ CASE Method = "withdrawing" -> Withdrawn
         [] Method = "fetching"    -> ToBeFetched
         [] OTHER                  -> UNCHANGED lock
    /\ UNCHANGED <<owes, age, graced, letIn, ladder, forbearance, clock, places, upsets>>

\* Staff go to the door for an open task ...
FitLock ==
    /\ hand = "free" /\ IsOpen("apply")
    /\ padlock' = TRUE /\ hand' = "apply"
    /\ UNCHANGED <<lease, access, ladder, record, task, lost, forbearance, clock, places, upsets>>

TakeLockOff ==
    /\ hand = "free" /\ IsOpen("remove")
    /\ padlock' = FALSE /\ hand' = "remove"
    /\ UNCHANGED <<lease, access, ladder, record, task, lost, forbearance, clock, places, upsets>>

Withdrawing == \E w \in Worker : at[w] = "withdrawing"

\* ... and complete it afterwards; a task that is no longer open changes nothing.
CompleteTask ==
    /\ hand # "free"
    /\ hand' = "free"
    /\ IF IsOpen(hand)
       THEN /\ task' = [task EXCEPT ![hand] = Shut(@)]
            /\ record' = IF hand = "remove" \/ record.state = "none" THEN NoRecord
                         ELSE [record EXCEPT !.state = "fitted"]
       ELSE UNCHANGED <<task, record>>
    /\ lost' = (lost \/ (hand = "apply" /\ (record'.state # "fitted" \/ Withdrawing)))
    /\ UNCHANGED <<lease, access, ladder, padlock, forbearance, clock, places, upsets>>

---------------------------------------------------------------------------
(* Holds and plans *)

PlaceHold ==
    /\ "other" \notin holds
    /\ Upset
    /\ holds' = holds \cup {"other"}
    /\ UNCHANGED <<lease, access, ladder, lock, plan, dropped, clock, places>>

\* liftHold, by staff, of any hold on the lease, a plan's included.
LiftHold(h) ==
    /\ h \in holds
    /\ holds' = holds \ {h}
    /\ UNCHANGED <<lease, access, ladder, lock, plan, dropped, clock, places, upsets>>

\* createPaymentPlan: the hold and the plan in one transaction.  A hold that an
\* earlier plan left behind is nobody's from now on.
CreatePlan ==
    /\ owes /\ plan # "active" /\ breach = "idle" /\ ~cancelling
    /\ Upset
    /\ plan' = "active"
    /\ holds' = holds \cup IF "plan" \in holds THEN {"other"} ELSE {"plan"}
    /\ dropped' = FALSE
    /\ UNCHANGED <<lease, access, ladder, lock, clock, places>>

\* cancelPaymentPlan lifts the hold, and is refused if it is lifted already ...
CancelPlan ==
    /\ plan = "active" /\ ~cancelling /\ "plan" \in holds
    /\ holds' = holds \ {"plan"}
    /\ cancelling' = TRUE
    /\ UNCHANGED <<lease, access, ladder, lock, plan, dropped, clock, at, rung, gatePass, breach,
                   upsets>>

\* ... then marks the plan.
MarkCancelled ==
    /\ cancelling
    /\ cancelling' = FALSE
    /\ plan' = "over"
    /\ UNCHANGED <<lease, access, ladder, lock, holds, dropped, clock, at, rung, gatePass, breach,
                   upsets>>

\* evaluatePaymentPlanBreaches marks an active plan: completed when what it
\* covers is paid, broken when an instalment or the rent is overdue.
StartBreach ==
    /\ IsNext("breach")
    /\ due' = due \ {"breach"}
    /\ \/ /\ plan # "active" \/ owes
          /\ UNCHANGED <<plan, breach>>
       \/ /\ plan = "active"
          /\ plan' = "over"
          /\ breach' \in IF owes THEN {"broken", "completed"} ELSE {"completed"}
    /\ UNCHANGED <<lease, access, ladder, lock, holds, dropped, nights, at, rung, gatePass,
                   cancelling, upsets>>

\* Mutant: a hold is lifted only under a plan that broke.
EndBreachMutant ==
    /\ breach # "idle"
    /\ breach' = "idle"
    /\ holds' = IF breach = "broken" THEN holds \ {"plan"} ELSE holds
    /\ UNCHANGED <<lease, access, ladder, lock, plan, dropped, clock, at, rung, gatePass,
                   cancelling, upsets>>

\* systemLiftHold, in a transaction of its own.
EndBreach ==
    /\ breach # "idle"
    /\ breach' = "idle"
    /\ holds' = holds \ {"plan"}
    /\ UNCHANGED <<lease, access, ladder, lock, plan, dropped, clock, at, rung, gatePass,
                   cancelling, upsets>>

---------------------------------------------------------------------------
\* A process dies at work, or the statement it is at throws.
WorkerDies(w) ==
    /\ at[w] # "idle"
    /\ Upset
    /\ Goes(w, "idle")
    /\ UNCHANGED <<lease, access, ladder, lock, forbearance, clock>>

JobDies ==
    /\ gatePass # "idle" \/ breach # "idle" \/ cancelling
    /\ Upset
    /\ gatePass' = "idle" /\ breach' = "idle" /\ cancelling' = FALSE
    /\ dropped' = (dropped \/ breach # "idle")
    /\ UNCHANGED <<lease, access, ladder, lock, holds, plan, clock, at, rung>>

Works(w) == \/ Restore(w) \/ Release(w) \/ Withdraw(w) \/ Fetch(w)
            \/ w \in Runner /\ (Claim(w) \/ Act(w) \/ Ask(w) \/ Record(w) \/ Close(w))

Next == \/ RentDue \/ Pay \/ GraceOver \/ DayPasses \/ MoveOut
        \/ \E resumes \in BOOLEAN : ReturnPayment(resumes)
        \/ LetInAfterPayment \/ StartGatePass \/ EndGatePass
        \/ StartTimeline \/ StartForced \/ StartSweep
        \/ \E w \in Worker : Works(w) \/ WorkerDies(w)
        \/ FitLock \/ TakeLockOff \/ CompleteTask
        \/ PlaceHold \/ \E h \in holds : LiftHold(h)
        \/ CreatePlan \/ CancelPlan \/ MarkCancelled
        \/ StartBreach \/ EndBreach \/ JobDies

Spec == Init /\ [][Next]_vars

\* Nights come and go, their jobs run to the end, and so does a request that
\* was begun; tenants and staff do as they like.
FairSpec == /\ Spec
            /\ WF_vars(DayPasses) /\ WF_vars(LetInAfterPayment)
            /\ WF_vars(StartTimeline) /\ WF_vars(StartSweep)
            /\ \A w \in Worker : WF_vars(Works(w))
            /\ WF_vars(StartGatePass) /\ WF_vars(EndGatePass)
            /\ WF_vars(StartBreach) /\ WF_vars(EndBreach) /\ WF_vars(MarkCancelled)

---------------------------------------------------------------------------
(* Properties *)

\* A ladder is a sequence of chances to pay: in an episode no rung is skipped,
\* none is served twice and no two bear one business date, over cures, relapses,
\* returned payments, deaths and two runs at once; unless a run was overtaken by
\* a cure or a return after it had decided (crossed).
ClimbedInOrder == \/ crossed
                  \/ /\ Cardinality(dated \cap served) <= 1
                     /\ \A r \in served : /\ sent[r] <= 1
                                          /\ \A s \in Rung : s < r => s \in served

\* The record says what hangs on the door (US-36), but for the moment between
\* the door and the Complete button, and for a lock that was fitted while its
\* request was being withdrawn, or for a request whose record was never written.
LockIsKnown == \/ lost \/ hand # "free"
               \/ padlock <=> record.state = "fitted"

\* A tenant who has paid in full is let in again, whatever suspended the gate
\* and however late (US-45): the nightly pass is the net under the call that
\* follows a payment.  Holds keep the gate as it is.
PaidIsLetIn == []<>(~owes /\ holds = {} /\ ~ended => gate = "active")

\* The lock comes off a lease that is settled or over: its removal is asked for.
LockComesOff == []<>(padlock /\ (ended \/ (~owes /\ holds = {}))
                        => IsOpen("remove") \/ hand = "apply" \/ lost \/ crossed)

\* A plan's hold ends with the plan; only a failure between the two writes
\* leaves collections halted for good (payment-plan-breach.ts).
HoldsEnd == []<>("plan" \in holds => plan = "active" \/ dropped)
=============================================================================
