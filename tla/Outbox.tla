------------------------------- MODULE Outbox -------------------------------
(***************************************************************************)
(* The transactional outbox for one consumer: emitEvent appends events,    *)
(* dispatchEvents drains them, and a delivery row per event records how    *)
(* far the consumer got (packages/core/events).  Several dispatchers may   *)
(* run at once; each statement of dispatchEvents that touches the database *)
(* is a step of its own.  Consumers share nothing but the events, so one   *)
(* consumer is the whole story.                                            *)
(***************************************************************************)
EXTENDS Naturals, FiniteSets

CONSTANTS Event,         \* numbered by occurredAt, the order of dispatch
          Worker,        \* processes that may run dispatchEvents
          MaxAttempts,   \* RETRY.maxAttempts
          BatchLimit,    \* limitPerConsumer
          MaxCrashes     \* bound: how many times a process dies

ASSUME EventAssumption == Event \subseteq Nat
ASSUME AttemptsAssumption == MaxAttempts \in Nat \ {0}
ASSUME LimitAssumption == BatchLimit \in Nat \ {0}

VARIABLES committed,     \* events whose emitting transaction has committed
          delivery,      \* the EventDelivery row of each event, or NoRow
          worker,        \* what each dispatchEvents call is doing
          crashes,       \* how many processes have died so far
          handled,       \* ghost: events whose handler has returned at least once
          claims,        \* ghost: claims won per event
          stranded       \* ghost: events whose worker died between claim and mark

vars == <<committed, delivery, worker, crashes, handled, claims, stranded>>

NoRow == [status |-> "none", attempts |-> 0, due |-> FALSE]

Status == {"none", "processing", "failed", "succeeded", "dead_letter"}

\* due abstracts nextAttemptAt: has it come?
Row == [status : Status, attempts : 0..MaxAttempts, due : BOOLEAN]

Phase == {"idle", "draining", "claiming", "handling", "marking"}

\* The loop over a batch that has been read.  event and seen are the loop
\* variable and the row claim() has read; outcome says whether the consumer's
\* handler returned or threw.
Resume(batch) == [phase |-> IF batch = {} THEN "idle" ELSE "draining", batch |-> batch,
                  event |-> 0, seen |-> NoRow, attempt |-> 0, outcome |-> "ok"]

Idle == Resume({})

WorkerState == [phase : Phase, batch : SUBSET Event, event : Event \cup {0},
                seen : Row, attempt : 0..MaxAttempts, outcome : {"ok", "threw"}]

\* The variables have their types; in particular nothing is ever claimed more
\* often, by the count in the row, than RETRY allows.
TypeOK == /\ committed \subseteq Event
          /\ delivery \in [Event -> Row]
          /\ worker \in [Worker -> WorkerState]
          /\ crashes \in Nat
          /\ handled \subseteq Event
          /\ claims \in [Event -> Nat]
          /\ stranded \subseteq Event

Init == /\ committed = {}
        /\ delivery = [e \in Event |-> NoRow]
        /\ worker = [w \in Worker |-> Idle]
        /\ crashes = 0
        /\ handled = {}
        /\ claims = [e \in Event |-> 0]
        /\ stranded = {}

Settled(e) == delivery[e].status \in {"succeeded", "dead_letter"}

\* The worker holds a claim on the event: it won it and has not marked it yet.
Holds(w, e) == /\ worker[w].phase \in {"handling", "marking"}
               /\ worker[w].event = e

\* pendingEventsFor: never seen, or failed and due again.
Pending(e) == /\ e \in committed
              /\ \/ delivery[e] = NoRow
                 \/ delivery[e].status = "failed" /\ delivery[e].due

\* Mutant: the limit is applied to all events, not to the pending ones.
FirstOfAll == {e \in Event : /\ Pending(e)
                             /\ Cardinality({f \in committed : f < e}) < BatchLimit}

\* ... the first BatchLimit of them by occurredAt.
FirstPending == {e \in Event : /\ Pending(e)
                               /\ Cardinality({f \in Event : Pending(f) /\ f < e}) < BatchLimit}

-----------------------------------------------------------------------------
\* emitEvent, in its caller's transaction: the event appears at commit, which
\* need not be in the order of occurredAt.
Emit(e) == /\ e \notin committed
           /\ committed' = committed \cup {e}
           /\ UNCHANGED <<delivery, worker, crashes, handled, claims, stranded>>

\* The clock passes nextAttemptAt.
RetryFallsDue(e) ==
    /\ delivery[e].status = "failed"
    /\ ~delivery[e].due
    /\ delivery' = [delivery EXCEPT ![e].due = TRUE]
    /\ UNCHANGED <<committed, worker, crashes, handled, claims, stranded>>

\* dispatchEvents reads its batch.
StartDispatch(w) ==
    /\ worker[w].phase = "idle"
    /\ FirstPending # {}
    /\ worker' = [worker EXCEPT ![w] = Resume(FirstPending)]
    /\ UNCHANGED <<committed, delivery, crashes, handled, claims, stranded>>

\* claim() reads the row.  A settled row, or one in somebody's hands, is skipped;
\* nextAttemptAt is not looked at again.
ReadRow(w, e) ==
    LET rest == worker[w].batch \ {e} IN
    /\ worker[w].phase = "draining"
    /\ e \in worker[w].batch
    /\ \A f \in worker[w].batch : e <= f
    /\ worker' = [worker EXCEPT ![w] =
            IF delivery[e].status \in {"none", "failed"}
            THEN [phase |-> "claiming", batch |-> rest, event |-> e,
                  seen |-> delivery[e], attempt |-> 0, outcome |-> "ok"]
            ELSE Resume(rest)]
    /\ UNCHANGED <<committed, delivery, crashes, handled, claims, stranded>>

\* Mutant: the update is not conditioned on the row still being failed.
CanClaimAnyway(w) == worker[w].seen.status = "none" =>
                         delivery[worker[w].event].status = "none"

\* claim() writes.  A new row is created under the unique index on the event
\* and the consumer; a failed row is taken by an update conditioned on the row
\* still being failed, with the attempt counted from the row read before.
CanClaim(w) ==
    LET e == worker[w].event IN
    IF worker[w].seen.status = "none" THEN delivery[e].status = "none"
                                      ELSE delivery[e].status = "failed"

WinClaim(w) ==
    LET e == worker[w].event
        attempt == worker[w].seen.attempts + 1 IN
    /\ worker[w].phase = "claiming"
    /\ CanClaim(w)
    /\ delivery' = [delivery EXCEPT ![e] = [status |-> "processing",
                                            attempts |-> attempt, due |-> FALSE]]
    /\ claims' = [claims EXCEPT ![e] = @ + 1]
    /\ worker' = [worker EXCEPT ![w] = [@ EXCEPT !.phase = "handling", !.attempt = attempt]]
    /\ UNCHANGED <<committed, crashes, handled, stranded>>

LoseClaim(w) ==
    /\ worker[w].phase = "claiming"
    /\ ~CanClaim(w)
    /\ worker' = [worker EXCEPT ![w] = Resume(worker[w].batch)]
    /\ UNCHANGED <<committed, delivery, crashes, handled, claims, stranded>>

\* consumer.handle returns, or throws; or it returns and marking the row
\* succeeded throws, which the same catch takes for a handler failure.
Handle(w) ==
    /\ worker[w].phase = "handling"
    /\ \E returned \in BOOLEAN, outcome \in {"ok", "threw"} :
         /\ outcome = "ok" => returned
         /\ handled' = IF returned THEN handled \cup {worker[w].event} ELSE handled
         /\ worker' = [worker EXCEPT ![w] = [@ EXCEPT !.phase = "marking", !.outcome = outcome]]
    /\ UNCHANGED <<committed, delivery, crashes, claims, stranded>>

\* Mutants: one attempt too few, one too many.
ExhaustedEarly(w) == worker[w].attempt + 1 >= MaxAttempts
ExhaustedLate(w) == worker[w].attempt > MaxAttempts

Exhausted(w) == worker[w].attempt >= MaxAttempts

\* The row is marked succeeded, failed with a later nextAttemptAt, or dead.
Mark(w) ==
    LET e == worker[w].event
        status == IF worker[w].outcome = "ok" THEN "succeeded"
                  ELSE IF Exhausted(w) THEN "dead_letter" ELSE "failed" IN
    /\ worker[w].phase = "marking"
    /\ delivery' = [delivery EXCEPT ![e].status = status, ![e].due = FALSE]
    /\ worker' = [worker EXCEPT ![w] = Resume(worker[w].batch)]
    /\ UNCHANGED <<committed, crashes, handled, claims, stranded>>

\* The process dies, or a database error in the catch block aborts the tick.
Crash(w) ==
    /\ crashes < MaxCrashes
    /\ worker[w].phase # "idle"
    /\ crashes' = crashes + 1
    /\ stranded' = stranded \cup {e \in Event : Holds(w, e)}
    /\ worker' = [worker EXCEPT ![w] = Idle]
    /\ UNCHANGED <<committed, delivery, handled, claims>>

Step(w) == \/ StartDispatch(w)
           \/ \E e \in Event : ReadRow(w, e)
           \/ WinClaim(w) \/ LoseClaim(w) \/ Handle(w) \/ Mark(w)

Next == \/ \E e \in Event : Emit(e) \/ RetryFallsDue(e)
        \/ \E w \in Worker : Step(w) \/ Crash(w)

Spec == Init /\ [][Next]_vars

\* The cron route runs dispatchEvents again and again and a live process goes
\* on; time passes.  Nothing forces an event to be emitted or a process to die.
Fairness == /\ \A w \in Worker : WF_vars(Step(w))
            /\ \A e \in Event : WF_vars(RetryFallsDue(e))

FairSpec == Spec /\ Fairness

-----------------------------------------------------------------------------
\* Two workers never run the consumer on one event at the same time, and the
\* row of an event in hand is the one its holder is going to mark: the unique
\* index and the conditional update of claim() make the claim exclusive even
\* though the row it conditions on was read earlier.
ExclusiveClaim ==
    \A e \in Event :
        /\ \A v, w \in Worker : Holds(v, e) /\ Holds(w, e) => v = w
        /\ delivery[e].status = "processing" <=>
               (e \in stranded \/ \E w \in Worker : Holds(w, e))

\* A success means that the handler did return, and an event is given up for
\* dead only after it was claimed MaxAttempts times: stale attempt counts may
\* lose claims, never invent them.
SettledHonestly ==
    \A e \in Event :
        /\ delivery[e].status = "succeeded" => e \in handled
        /\ delivery[e].status = "dead_letter" => claims[e] >= MaxAttempts

\* A settled event is never claimed or marked again, whatever a slow worker
\* read before it was settled.
SettledIsFinal == [][\A e \in Event : Settled(e) => delivery'[e] = delivery[e]]_vars

\* Every committed event is eventually settled, however late its transaction
\* commits and whatever the batch limit, unless the worker that held it died.
EventuallySettled ==
    \A e \in Event : (e \in committed) ~> (Settled(e) \/ e \in stranded)

\* The comment on dispatchEvents: "a handler that succeeds and then crashes
\* before its row is marked will be called again on the next dispatch".
CalledAgainAfterCrash ==
    \A e \in Event : (e \in stranded /\ e \in handled) ~> (\E w \in Worker : Holds(w, e))

\* The outbox implements Delivery: who holds an event, read off the rows and
\* the workers.
HolderOf(e) ==
    IF Settled(e) THEN "closed"
    ELSE IF e \in stranded THEN "abandoned"
    ELSE IF \E w \in Worker : Holds(w, e) THEN CHOOSE w \in Worker : Holds(w, e)
    ELSE "open"

D == INSTANCE Delivery WITH holder <- [e \in Event |-> HolderOf(e)],
        Open <- "open", Closed <- "closed", Abandoned <- "abandoned"

ImplementsDelivery == D!Spec
=============================================================================
