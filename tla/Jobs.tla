-------------------------------- MODULE Jobs --------------------------------
(***************************************************************************)
(* The nightly scheduler at one facility: the hourly tick works out what   *)
(* is owed (lib/jobs/queue.ts), runs it in registry order under a budget   *)
(* (api/cron/route.ts), one JobRun row per job and business date           *)
(* (packages/core/jobs/runner.ts), with staff who force a run again        *)
(* (admin/billing-runs.ts) and tasks for what went wrong (jobs/run.ts).    *)
(* Each statement that touches the database is a step.  Facilities share   *)
(* nothing, so one facility is the whole story.                            *)
(***************************************************************************)
EXTENDS Integers, FiniteSets

CONSTANTS Job,          \* numbered by their place in SCHEDULED_JOBS
          Hour,         \* localHour of each job
          HoursPerDay,
          MaxDays,      \* maxDays of missedBusinessDates
          StaleAfter,   \* STALE_AFTER_MS, in hours
          Tick, Staff,  \* requests: cron ticks, and staff who force a run
          LastClock,    \* bound: the last hour of the model
          MaxMishaps    \* bound: forced runs, deaths of a process, and budgets spent

ASSUME JobAssumption == Job \subseteq Nat \ {0} /\ IsFiniteSet(Job)
ASSUME HourAssumption == HoursPerDay \in Nat \ {0} /\ Hour \in [Job -> Nat]
ASSUME ProcessAssumption == Tick \cap Staff = {}
ASSUME BoundAssumption == LastClock \in Nat /\ MaxDays \in Nat \ {0} /\ StaleAfter \in Nat

Process == Tick \cup Staff

Date == 0..(LastClock \div HoursPerDay)

VARIABLES clock,       \* hours since the facility opened, in its own time
          row,         \* the JobRun row of each job and date
          process,     \* what each request is doing
          task,        \* the runs for which a job_failed task was raised
          alarmed,     \* the jobs for which the stale alarm was raised
          mishaps,
          starts,      \* ghost: how often a date was started by a tick
          overlapped,  \* ghost: runs forced while they were at work
          orphaned,    \* ghost: runs whose process died at work
          untold       \* ghost: runs whose process died before it raised the task

vars == <<clock, row, process, task, alarmed, mishaps, starts, overlapped,
          orphaned, untold>>

Run == Job \X Date

Today == clock \div HoursPerDay

\* succeeded stands for partial too: whoever reads a row takes the two for one.
Outcome == {"succeeded", "failed"}

\* at is finishedAt, kept of the runs that succeeded: nothing reads the others'.
NoRow == [status |-> "none", at |-> 0]
Row == [status : {"none", "running"} \cup Outcome, at : 0..LastClock]

Phase == {"idle", "picking", "creating", "working", "telling"}

NoRun == <<0, 0>>

Idle == [phase |-> "idle", todo |-> {}, run |-> NoRun, began |-> 0]

ProcessState == [phase : Phase, todo : SUBSET Run, run : Run \cup {NoRun}, began : 0..LastClock]

\* The variables have their types, and no date was started twice by ticks:
\* the unique index on (jobName, facilityId, businessDate) has to see to it.
TypeOK == /\ clock \in 0..LastClock
          /\ row \in [Run -> Row]
          /\ process \in [Process -> ProcessState]
          /\ task \subseteq Run
          /\ alarmed \subseteq Job
          /\ mishaps \in Nat
          /\ starts \in [Run -> 0..1]
          /\ overlapped \subseteq Run
          /\ orphaned \subseteq Run /\ untold \subseteq Run

Init == /\ clock = 0
        /\ row = [r \in Run |-> NoRow]
        /\ process = [p \in Process |-> Idle]
        /\ task = {} /\ alarmed = {}
        /\ mishaps = 0
        /\ starts = [r \in Run |-> 0]
        /\ overlapped = {} /\ orphaned = {} /\ untold = {}

---------------------------------------------------------------------------
(* What is owed *)

Succeeded(j) == {d \in Date : row[<<j, d>>].status = "succeeded"}

Later(j, d) == \E e \in Succeeded(j) : e > d

\* Mutant: no catching up.
MissedMutant(j) == {Today}

\* missedBusinessDates: with no history today alone, otherwise what follows the
\* latest date that succeeded, the oldest MaxDays of it.
Missed(j) == IF Succeeded(j) = {} THEN {Today}
             ELSE {d \in Date : /\ d <= Today
                                /\ \A e \in Succeeded(j) : e < d
                                /\ \E e \in Succeeded(j) : d <= e + MaxDays}

Reached(j) == Hour[j] <= clock % HoursPerDay

\* dueRunQueue, one read for the whole facility.
Owed == {r \in Run : Reached(r[1]) /\ r[2] \in Missed(r[1])}

\* The queue's order: the registry's, then by date.
Precedes(r, s) == r[1] < s[1] \/ (r[1] = s[1] /\ r[2] <= s[2])

AtWork(p) == process[p].phase = "working"

WorksOn(p, r) == AtWork(p) /\ process[p].run = r

---------------------------------------------------------------------------
(* The tick and runJob *)

\* maxDuration: no request outlives the hour after the one it began in.
TimePasses ==
    /\ clock < LastClock
    /\ \A p \in Process : process[p].phase # "idle" => process[p].began = clock
    /\ clock' = clock + 1
    /\ UNCHANGED <<row, process, task, alarmed, mishaps, starts, overlapped, orphaned, untold>>

StartTick(p) ==
    /\ process[p].phase = "idle"
    /\ process' = [process EXCEPT ![p] = [Idle EXCEPT !.phase = "picking", !.todo = Owed,
                                                      !.began = clock]]
    /\ UNCHANGED <<clock, row, task, alarmed, mishaps, starts, overlapped, orphaned, untold>>

\* rerunJobRun: staff force a run that has a row, whatever its state.
ForceRun(p, r) ==
    /\ process[p].phase = "idle"
    /\ row[r].status # "none"
    /\ mishaps < MaxMishaps
    /\ mishaps' = mishaps + 1
    /\ process' = [process EXCEPT ![p] = [Idle EXCEPT !.phase = "picking", !.todo = {r},
                                                      !.began = clock]]
    /\ UNCHANGED <<clock, row, task, alarmed, starts, overlapped, orphaned, untold>>

\* What a request in its loop comes to next: one run, or none when it is through.
Picked(p) == {r \in process[p].todo : /\ process[p].phase = "picking"
                                     /\ \A s \in process[p].todo : Precedes(r, s)}

GoesOn(p) == [process EXCEPT ![p].phase = "picking",
                             ![p].todo = @ \ {process[p].run},
                             ![p].run = NoRun]

\* runJob finds a row: a tick skips it, whatever it says.
Skip(p) ==
    /\ p \in Tick
    /\ \E r \in Picked(p) : /\ row[r].status # "none"
                            /\ process' = [process EXCEPT ![p].todo = @ \ {r}]
    /\ UNCHANGED <<clock, row, task, alarmed, mishaps, starts, overlapped, orphaned, untold>>

\* runJob finds none.
FindNone(p) ==
    /\ \E r \in Picked(p) :
          /\ row[r].status = "none"
          /\ process' = [process EXCEPT ![p].phase = "creating", ![p].run = r]
    /\ UNCHANGED <<clock, row, task, alarmed, mishaps, starts, overlapped, orphaned, untold>>

\* Mutant: nothing but the look before.
CanCreateMutant(r) == TRUE

\* The unique index: a second row of the run is refused.
CanCreate(r) == row[r].status = "none"

Create(p) ==
    LET r == process[p].run
    IN  /\ process[p].phase = "creating"
        /\ CanCreate(r)
        /\ row' = [row EXCEPT ![r] = [status |-> "running", at |-> 0]]
        /\ process' = [process EXCEPT ![p].phase = "working"]
        /\ starts' = [starts EXCEPT ![r] = @ + 1]
        /\ UNCHANGED <<clock, task, alarmed, mishaps, overlapped, orphaned, untold>>

LoseTheInsert(p) ==
    /\ process[p].phase = "creating"
    /\ ~CanCreate(process[p].run)
    /\ process' = GoesOn(p)
    /\ UNCHANGED <<clock, row, task, alarmed, mishaps, starts, overlapped, orphaned, untold>>

\* A forced run resets the row by its id, without a look at its status.
Restart(p) ==
    /\ p \in Staff
    /\ \E r \in Picked(p) :
          /\ row[r].status # "none"
          /\ row' = [row EXCEPT ![r] = [status |-> "running", at |-> 0]]
          /\ process' = [process EXCEPT ![p].phase = "working", ![p].run = r]
          /\ overlapped' = IF \E q \in Process \ {p} : WorksOn(q, r)
                           THEN overlapped \cup {r} ELSE overlapped
    /\ UNCHANGED <<clock, task, alarmed, mishaps, starts, orphaned, untold>>

\* Mutant: nothing catches what the handler throws.
FinishMutant(p) ==
    LET r == process[p].run
    IN  /\ process[p].phase = "working"
        /\ process' = GoesOn(p)
        /\ row' \in {row, [row EXCEPT ![r] = [status |-> "succeeded", at |-> clock]]}
        /\ UNCHANGED <<clock, task, alarmed, mishaps, starts, overlapped, orphaned, untold>>

\* The handler returns, with or without failed items, or throws; the row gets
\* the outcome, and raiseJobFailureTask looks at it afterwards.
Finish(p) ==
    LET r == process[p].run
    IN  /\ process[p].phase = "working"
        /\ \/ /\ row' = [row EXCEPT ![r] = [status |-> "succeeded", at |-> clock]]
              /\ process' = GoesOn(p)
           \/ \E outcome \in Outcome :
                 /\ row' = [row EXCEPT ![r] =
                        [status |-> outcome, at |-> IF outcome = "failed" THEN 0 ELSE clock]]
                 /\ process' = [process EXCEPT ![p].phase = "telling"]
        /\ UNCHANGED <<clock, task, alarmed, mishaps, starts, overlapped, orphaned, untold>>

Tell(p) ==
    /\ process[p].phase = "telling"
    /\ task' = task \cup {process[p].run}
    /\ process' = GoesOn(p)
    /\ UNCHANGED <<clock, row, alarmed, mishaps, starts, overlapped, orphaned, untold>>

\* The 240 seconds are over: the rest is left to the next tick.
Defer(p) ==
    /\ p \in Tick
    /\ process[p].phase = "picking" /\ process[p].todo # {}
    /\ mishaps < MaxMishaps
    /\ mishaps' = mishaps + 1
    /\ process' = [process EXCEPT ![p].todo = {}]
    /\ UNCHANGED <<clock, row, task, alarmed, starts, overlapped, orphaned, untold>>

\* raiseStaleMoneyJobTasks: the time since a success was last recorded, or
\* since the facility was opened.
Fresh(j) == \/ clock < StaleAfter
            \/ \E d \in Succeeded(j) : clock - row[<<j, d>>].at < StaleAfter

\* Mutant: the alarm only for jobs that have no row today.
EndTickMutant(p) ==
    /\ p \in Tick
    /\ process[p].phase = "picking" /\ process[p].todo = {}
    /\ alarmed' = alarmed \cup {j \in Job : ~Fresh(j) /\ row[<<j, Today>>].status = "none"}
    /\ process' = [process EXCEPT ![p] = Idle]
    /\ UNCHANGED <<clock, row, task, mishaps, starts, overlapped, orphaned, untold>>

EndTick(p) ==
    /\ p \in Tick
    /\ process[p].phase = "picking" /\ process[p].todo = {}
    /\ alarmed' = alarmed \cup {j \in Job : ~Fresh(j)}
    /\ process' = [process EXCEPT ![p] = Idle]
    /\ UNCHANGED <<clock, row, task, mishaps, starts, overlapped, orphaned, untold>>

EndForce(p) ==
    /\ p \in Staff
    /\ process[p].phase = "picking" /\ process[p].todo = {}
    /\ process' = [process EXCEPT ![p] = Idle]
    /\ UNCHANGED <<clock, row, task, alarmed, mishaps, starts, overlapped, orphaned, untold>>

\* The platform kills a request, or the process dies.
Die(p) ==
    /\ process[p].phase # "idle"
    /\ mishaps < MaxMishaps
    /\ mishaps' = mishaps + 1
    /\ process' = [process EXCEPT ![p] = Idle]
    /\ orphaned' = IF AtWork(p) THEN orphaned \cup {process[p].run} ELSE orphaned
    /\ untold' = IF process[p].phase = "telling" THEN untold \cup {process[p].run} ELSE untold
    /\ UNCHANGED <<clock, row, task, alarmed, starts, overlapped>>

Goes(p) == \/ Skip(p) \/ FindNone(p) \/ Create(p) \/ LoseTheInsert(p) \/ Restart(p)
           \/ Finish(p) \/ Tell(p) \/ EndTick(p) \/ EndForce(p)

Next == \/ TimePasses
        \/ \E p \in Tick : StartTick(p) \/ Defer(p)
        \/ \E p \in Staff, r \in Run : ForceRun(p, r)
        \/ \E p \in Process : Goes(p) \/ Die(p)

Spec == Init /\ [][Next]_vars

\* Cron calls again and again, a process that lives goes on, and time passes.
FairSpec == /\ Spec
            /\ WF_vars(TimePasses)
            /\ \A p \in Tick : WF_vars(StartTick(p))
            /\ \A p \in Process : WF_vars(Goes(p))

---------------------------------------------------------------------------
(* Properties *)

\* A job is at work twice for one date only if staff forced it meanwhile: two
\* ticks that find no row at the same moment must not both bill (runner.ts:31-33).
ExclusiveRun == \A r \in Run : \A p, q \in Process :
    (p # q /\ WorksOn(p, r) /\ WorksOn(q, r)) => r \in overlapped

\* What the Billing Runs screen shows is so: a row is running exactly while a
\* process is at work on it.  Only a death at work, or a forced run on top of
\* another, makes it say otherwise; nothing else may leave a date "in progress".
RowIsHonest == \A r \in Run :
    \/ r \in orphaned \cup overlapped
    \/ (row[r].status = "running") <=> (\E p \in Process : WorksOn(p, r))

\* The date was over before the job had any success to count from: dueRunQueue
\* asked for today alone.
NeverCounted(j, d) == /\ d < Today
                      /\ row[<<j, d>>].status = "none"
                      /\ \A e \in Date : e < d =>
                             row[<<j, e>>].status # "succeeded" \/ <<j, e>> \in overlapped

\* The dates the queue offers are full of runs that failed or died: each is
\* skipped, and today is never among them (missedBusinessDates stops at MaxDays).
Jammed(j) == /\ Today \notin Missed(j)
             /\ \A d \in Missed(j) : row[<<j, d>>].status # "none"

\* "What is left is left DUE" (route.ts:162-165): every date of every job gets
\* its run however ticks are cut short, unless it was never counted as missed
\* or the job is jammed.
EveryDateIsRun == []<>(\A j \in Job, d \in Date :
    (d < Today \/ (d = Today /\ Reached(j))) => \/ row[<<j, d>>].status # "none"
                                              \/ NeverCounted(j, d)
                                              \/ Jammed(j))

\* A run that fails is told to somebody, unless its process died before it could
\* (run.ts:6-11); a run that died at work is nobody's news until the job has gone
\* without a success for so long that the alarm goes off.
TroubleIsTold == []<>(\A r \in Run :
    /\ row[r].status = "failed" => r \in task \cup untold
    /\ row[r].status = "running" => r[1] \in alarmed \/ Fresh(r[1]))

\* The hours are the jobs' order: autopay at 3 before suspensions at 4 and the
\* ladder at 6, because a tenant whose autopay succeeded "must not be suspended
\* for a balance that no longer exists" (registry.ts).
NightInHourOrder == \A p \in Tick, r \in Run : WorksOn(p, r) =>
    \A i \in Job : Hour[i] < Hour[r[1]] => row[<<i, r[2]>>].status # "none"
=============================================================================
