# Verification of the self-storage application

TLA+ models of the parts of this repository in which requests, sweeps, workers,
webhook deliveries and crashes interleave; TLC configurations that check them on
small instances; and TLAPS proofs of the safety properties that matter most, for
every value of the constants. Everything is translated from the code; paths in
this text are relative to the repository, and `PROJECT.json` names for each
definition the lines it stands for.

## 1. The system and its parts

The application is one Next.js process (many instances of it) over one Postgres
database, with Stripe and a gate controller outside. Requests, the webhook and
the cron route run concurrently; what keeps them apart is only what the database
keeps apart (transactions under READ COMMITTED, unique indexes, conditional
updates). There is no lock service and no in-memory state that survives a request.

| Part | State it keeps | Operations | What makes it correct |
|---|---|---|---|
| Event outbox (`packages/core/events`) | `DomainEvent`, `EventDelivery` | emit, drain, claim, handle, mark | no two workers on one event; a settled event stays settled; every event is settled |
| Reservations (`apps/web/lib/reservations`) | `Reservation.status`, `expiresAt` | create, change date, cancel, expire | a hold keeps its unit off sale until it ends, and ends once |
| Checkout (`apps/web/lib/checkout`) | `CheckoutSession`, its basket lines and lock | start, add and remove units, steps, relock, expire | no unit in two checkouts; what a checkout lets go of is on sale again; what was paid is not expired |
| Provisioning (`checkout/provision.ts`) | `Lease`, move-in invoice | move in | once per checkout, the units of the basket, the hold is ended |
| Unit status (`apps/web/lib/units`) | `Unit.status`, a cache over leases, holds, locks and what staff set | recompute in each of the other parts' operations | the cache never offers a rented, held or locked unit |
| Stripe payments (`apps/web/lib/payments`) | `Payment.status`, `stripePaymentIntentId`, `StripeEvent` | create intent, webhook events | money taken is recorded once, however events are repeated and reordered |
| Refunds and reversals (`billing/refunds.ts`, `reversals.ts`) | `Refund`, `LedgerEntry`, `PaymentAllocation` | refund, return, reinstate | status, ledger, allocations and Stripe tell one story |
| Gate access (`apps/web/lib/access`) | `AccessGrant`, `AccessCredential`, `GateCommand`, the controller's codes | provision, suspend, restore, revoke, reissue, drain | the gate does what the grant says; a revoked grant is not revived |
| Jobs (`packages/core/jobs`, `apps/web/lib/jobs`) | `JobRun` per job and date, failure tasks | hourly tick, catch up, force, alarm | each job once per date, no date lost, trouble reaches a person |
| Billing (`billing/allocation.ts`, invoices, credit, corrections, autopay) | `Invoice`, `PaymentAllocation`, `LedgerEntry`, the invoice counter | raise, take and allocate, sweep credit, waive, void, write off, charge a card and retry | money is neither lost nor counted twice; what was forgiven stays so; a card is charged once |
| Delinquency (`lib/delinquency`, plans, holds) | step runs, `UnitOverlock` and its two tasks, holds, plans | nightly ladder, cure, overlock, sweep of stuck locks, hold, plan and its end | rungs in order; nobody is locked out who has paid; a pause ends |
| The rest | liens and auctions, rates, transfers, point of sale, communications, marketing, auth, documents | | mostly single transactions, reporting or content |

How they interact:

- A checkout claims a unit by a conditional update of `Unit.status`; everything
  else recomputes that status afterwards (`recomputeUnitStatus`).
- `payment_intent.succeeded` commits the payment, *then* provisions the move-in,
  then posts to the ledger: three transactions, of which each may be the last.
- Move-in and move-out emit events in their transaction; the outbox delivers them
  to consumers, of which one provisions gate access. Checkout provisions it too.
- The nightly delinquency job and a settled payment suspend and restore the gate
  through commands in a queue that another job drains.
- The hourly cron tick runs the night's jobs one after another under one budget:
  invoices, autopay, the gate's rule, the ladder, the sweep of stuck locks. Each
  reads what the earlier ones, the webhook and staff wrote, at another moment.
- The same tenant's money goes through the counter, the webhook, the autopay pass
  and staff's corrections at once; the row locks of the invoice counter and of
  `applyPayment` are all that keeps them apart.

Hard behaviours, and so the order of the plan: state read in one statement and
used in a later one (claims, sweeps, grants, refunds); Stripe's repeated,
concurrent and reordered deliveries; processes that die between two commits; caches
that some twenty operations have to keep; retries that overtake what followed them.
`PROJECT.json` lists them as hazards, each at its line, with the properties that
watch it.

## 2. The modules

| Module | Models | Uses |
|---|---|---|
| `Delivery` | what the outbox promises of one consumer (abstract) | |
| `Outbox` | `packages/core/events`: `emitEvent`, `pendingEventsFor`, `claim`, `dispatchEvents` | refines `Delivery` by `INSTANCE` |
| `Rental` | reservations, checkout sessions, unit status, provisioning, staff, both sweeps, composed over the shared unit rows | |
| `Access` | grants, credentials, command queue, drains, simulated controller | |
| `Payments` | one charge: `createChargeIntent`, the webhook, refunds, disputes, provisioning after payment | |
| `Jobs` | the tick, the queue of owed dates, `runJob`, forced runs, the stale alarm, at one facility | |
| `Ledger` | one tenant's invoices, allocations and ledgers: raising, credit, payments, forgiveness, the autopay pass | |
| `Delinquency` | one lease's ladder, cure, overlock and tasks, holds and plans, with the gate's nightly rule | |
| `MC*` | instances for TLC: constants and symmetry | the module they are named for |
| `*Proofs` | inductive invariants, lemmas and theorems | the module they are named for, TLAPS |
| `SumTheorems` | facts about sums over finite sets, for `LedgerProofs` | TLAPS, its library of theorems |

**Outbox.** `committed` is the events whose transaction has committed (in any
order), `delivery` the `EventDelivery` rows of one consumer, `worker` where each
run of `dispatchEvents` is. A dispatcher reads its batch (`StartDispatch`, at most
`BatchLimit`, ordered by the event), then for each event reads the row (`ReadRow`),
claims it (`WinClaim`, `LoseClaim`: the unique index for a first claim, the
condition on status for a retry), runs the handler (`Handle`) and marks the row
(`Mark`). `Crash` may come between any two of these. Backoff is `due`, a flag that
time sets (`RetryFallsDue`).

**Rental.** `operational` is what staff set, `status` the stored cache, `lease` who
rents, `reservation` and `session` the rows, `charged`, `prov` and `calls` the state
of provisioning. Each request is one action, since each runs in one transaction;
the sweeps are two, because they list rows first (`ListLapsedHolds`,
`ListLapsedSessions`) and then look at each again (`ExpireHold`, `ExpireSession`),
and so is provisioning (`StartProvisioning` reads the basket, `CommitProvisioning`
writes). Time is `lapsed`, a flag on a row that the clock sets. Every action calls
`Recompute` for exactly the units for which the code calls `recomputeUnitStatus`,
with the rows as they are at that point of the code.

**Access.** `grant` and `version` are the `AccessGrant` row and its `updatedAt`,
`credential` the credentials, `commands` the `GateCommand` rows in order of creation,
`gate` the controller's codes. A caller goes statement by statement: it judges
(`Evaluate`, the count of running leases), reads the grant, writes it and queues the
command, or mints, issues and sends a credential. A drain reads a batch, sends one
command at a time (`Send`) and overwrites the row with the outcome (`Record`).

**Payments.** At Stripe: `intent`, `dispute`, `refunds`, `sentBack` and the events
`sent`; in the database: the `Payment` rows of the calls (`row`), the one that has the
intent's id (`linked`), refund rows (`booked`, `card`, `cash`), the ledger entries
of the payment by kind (`ledger`) and what its allocations add up to (`alloc`).
`attempt`, `worker` and `staff` say where each call of `createChargeIntent`, each
webhook request and each refunding member of staff is. A handler's transaction is
one step; what the handler does before or after it is another.

**Jobs.** `clock` counts hours of the facility, `row` is the `JobRun` of each job and
date, `process` what each tick and each member of staff is doing. A tick reads the
whole queue once (`StartTick`: for each job whose hour has come the dates after its
last success, the oldest `MaxDays`), then takes runs in registry order: `Skip` one
whose row forbids it, `FindNone` and then `Create` or `LoseTheInsert` (the unique
index), `Finish`, `Tell` (the failure's task), and `EndTick`, which raises the stale
alarm. `ForceRun` takes up any run whatever its row says. `Defer` spends the budget
and `Die` ends a process between any two statements.

**Ledger.** `invoice`, `payment`, `alloc`, `posted`, `forgiven` and `writtenOff` are the
rows, `asked` what Stripe remembers under an idempotency key, `task` the open
failed-payment tasks. `tx` is what each worker has read and not yet written: a
transaction that reads and writes under no common row lock is two actions
(`ReadForRaise`/`CommitRaise`, `TakePayment` or `SettleCharge`/`CommitPayment`,
`ReadForWaiver`/`CommitWaiver`, `ReadForWriteOff`/`CommitWriteOff`), credit is three
(`StaffCredit` or `Sweep`, `WriteCredit`, `CommitCredit`: `recomputeInvoices` reads the
status, then writes blind), and the autopay pass over an invoice is `List`, `Sweep`,
`Skip` or `Attempt`, `CreateCharge`, `Ask` or `AskAgain`. Row locks are guards:
the counter's (`CounterFree`), `applyPayment`'s `FOR UPDATE` with its second look at
the status (`StillOpen`), the uncommitted row another credit waits for.

**Delinquency.** `owes`, `age`, `graced`, `ended` are the lease; `served` and `closed` its
step runs before and after a supersession, `dated` those of the business date under
evaluation; `record`, `task`, `padlock`, `hand` the overlock's row, its two tasks, the
door, and what staff did and have not ticked off yet. `at` says where the nightly run,
a forced run and the sweep each are: `Claim`, `Act`, `Ask`, `Record` on the way up,
`Restore`, `Release`, `Withdraw`, `Fetch`, `Close` on the way down; any of them may die.
`Turn` gives the order of the night's jobs, by the hours or as registered. Dates are
counted back from today, so behaviours need not end and liveness means something.

**Ghosts.** Some variables exist only to state properties: `handled`, `claims`,
`stranded` in Outbox; `revived` in Rental; `delivered` and `slips` in Access; `slips`
in Payments; `starts`, `overlapped`, `orphaned`, `untold` in Jobs; `raced`, `crossed`,
`burnt` in Ledger; `sent`, `lost`, `dropped`, `crossed` in Delinquency. No guard reads them. `slips` names each way in which two pieces of
state can drift apart; the properties that exempt a slip say by that: *these are
the only causes*. Each slip is a place in the code, and a reader who closes
one of them can delete it from the model and from the exemption.

## 3. What the runs check

| Run | Instance | Shows |
|---|---|---|
| `outbox` | 2 events, 2 dispatchers, batch of 1, 3 attempts, 1 death | `ExclusiveClaim`, `SettledHonestly`, `SettledIsFinal`, `EventuallySettled`, and that Outbox implements `Delivery` |
| `rental` | 2 units, 1 renter, 1 reservation, basket of 2, 3 steps | `StatusIsSound`, `OnSaleIsFree`, `MoveInEndsHold`, `OutcomesAreFinal`, `LapsedIsSwept` |
| `access` | 2 codes, 1 key, 2 callers, 1 drain, 3 requests, 1 fault | `DriftHasACause`, `RevivalNeedsARace` |
| `access_drain` | 1 code, 1 key, 1 caller, 2 drains, 2 requests, 2 faults | `SuccessIsReal`, `QueueDrains` |
| `payments` | amount 2, 1 call, 2 webhook requests, 1 member of staff, 3 events, 1 fault | `BooksAgree`, `BooksMatchStripe` |
| `payments_taken` | amount 1, 2 calls, 2 webhook requests, 2 events, 2 faults | `TakenIsRecorded` |
| `jobs` | 1 job, 3 days of 2 hours, 2 ticks, 1 member of staff, 1 mishap | `ExclusiveRun`, `RowIsHonest`, `EveryDateIsRun`, `TroubleIsTold` |
| `ledger` | a rent invoice of 2 on a carded lease, a fee of 1 on another, 2 payments of 2, 2 workers, 2 dates | `InvoiceSettledOnce`, `PaymentSpentOnce`, `LedgerReconciles`, `VoidHoldsNoMoney`, `ChargedOnce`, `ForgivenStaysForgiven`, `PassAccounts` |
| `delinquency` | 2 rungs (gate on day 1, lock on day 2), 1 upset (return, hold, plan, forced run or death) | `ClimbedInOrder`, `LockIsKnown`, `PaidIsLetIn`, `LockComesOff`, `HoldsEnd` |

One run of each module also checks its type invariant `TypeOK`.
Three runs end in a violation. They state what a comment or a requirement of the
repository says and show that the code does something else; `findings` in
`PROJECT.json` quotes the lines.

| Run | Property | What happens |
|---|---|---|
| `access_withdrawn` | `WithdrawnStaysShut` | suspending and restoring a tenant opens the gate for a code that was replaced |
| `payments_provision` | `PaidCheckoutProvisioned` | provisioning throws once after the payment was committed; the redelivery returns early and is acknowledged |
| `ledger_rest` | `RestIsCollected` | credit covers part of an invoice; its allocation counts as an attempt in flight, so the card is not charged for the rest and nobody has a task |

Other statements of the repository that TLC refutes have no run of their own: the
project keeps twelve runs, and those of the whole subsystems came first. Where a
definition is named it is in the module and can be given to the module's cfg
instead of its properties.

| Definition | What is said | What happens |
|---|---|---|
| `CalledAgainAfterCrash` (Outbox) | `dispatch.ts:100-102` and `schema.prisma:4340`: a handler that crashed before it was marked "will be called again" | the row is left in `processing`, which `pendingEventsFor` (35-60) does not list and the claim (85) refuses |
| `UnitsGoBack` (Rental) | `session.ts:501-502`, `session.ts:933`: a unit that leaves a basket, or a basket that lapses, goes straight back on the market | removing the session's own unit derives its status (503) before the session is repointed (510-522); a lapsed session's second units are not derived at all (957) |
| `PrimaryUnitIsLeased` (Rental) | `session.ts:514-516`: the primary unit is the one that is leased | `relock` (741-768) moves `session.unitId` and not the basket line that provisioning leases from (`provision.ts:63-66`) |
| `RevokeBeatsAll` (Access) | `docs/prds/03-hardware-integrations-prd.md:240`: "revoke beats suspend" | a `grant_access` that failed once is sent again after the `revoke_access` and opens the gate (`service.ts:418-426`) |
| `ReturningTenantGetsAGrant` (Access) | `grant-state.ts:17-18`: a returning tenant gets a new grant | `ensureGrant` returns the revoked one, from which no transition is allowed |
| `NightInHourOrder` (Jobs) | `registry.ts:500-503`: autopay at 3 comes before suspensions at 4 and the ladder at 6 | a tick that owes several runs takes them in registry order (`queue.ts:84-110`), in which the ladder is before the plans, the gate and autopay; a deployment whose cron fires once a day always does. `MCJobs` keeps `Reversed` hours for it |
| (Delinquency) | `packages/core/delinquency/engine.ts:73-84`: catching up N missed steps takes N nights | a tick that owes several dates runs them all, and only equal business dates are told from each other (`engine.ts:127-133`): several rungs in one tick |
| (Delinquency) | `engine.ts:104-108`: a tenant who pays is cured and starts over | one who pays the day before the next invoice (raised at 1) is never seen with nothing owed by the nightly run (6): the next debt resumes above the rungs already served |

What the less obvious properties say:

- `DriftHasACause`: when nothing is on its way, every live code opens the gate
  exactly if the grant is active, unless a command was given up for dead, or a
  process died owing the queue a command, or two transitions raced, or a retry
  overtook a later command. `transitionGrant` reads, writes and queues in
  separate statements, and the model shows which of the gaps between them matter.
- `BooksAgree`: at every moment, in whatever order events arrive, what the leases
  hold of a payment is what its status says they do, the allocations claim no
  more, and the status says how much was refunded; unless a refund or a late
  decline was written over a state that nobody looked at again.
- `BooksMatchStripe`: when all events are acknowledged and nobody is at work,
  the leases hold what is left at Stripe less what was refunded in cash, unless
  one of seven named slips happened (`unfinished`, `unknown`, `unposted`, `stale`,
  `late`, `misordered`, `partial`).
- `EveryDateIsRun` and `TroubleIsTold` hold again and again, not always, and as the
  model's clock stops at `LastClock` that is what is left at the end: a date that is
  owed is run in the end unless it was never counted (`NeverCounted`: no success before
  it to count from) or the job is jammed (`Jammed`: the `MaxDays` dates the queue
  offers all have failed rows, so that today is never offered). The two exemptions are
  the only ways in which the scheduler loses a date, and both are reachable.
- `InvoiceSettledOnce`, `PaymentSpentOnce`, `LedgerReconciles` and `VoidHoldsNoMoney`
  say that the books stay right through any sequence of operations, and that the
  only ways to break them are two transactions with one row in hand (`raced`), credit
  put on an invoice that was closed (`burnt`) and credit of a payment posted to
  another lease (`crossed`). All three are reachable; the second and third need
  no concurrency at all.
- `ClimbedInOrder` is per episode of debt; `crossed` excuses a run that had decided
  before the other run cured the lease or a payment was returned. It admits no
  other excuse: a crash at any statement keeps the order.
- `LockComesOff` asks for the removal to be asked for: staff are under no obligation to
  walk to the door. For a lease that has ended it is the nightly sweep that makes it so.
- `OnSaleIsFree` is the overselling property of the reservation PRD, over the
  cached status, not over the claims the cache stands for.

### Bounds, and why they are enough

The counters that only exist to keep TLC's state space finite are `MaxCrashes`
(Outbox), `MaxCalls` and `MaxBasket` (Rental), `MaxRequests` and `MaxFaults` (Access),
`MaxEvents` and `MaxFaults` (Payments), `LastClock` and `MaxMishaps` (Jobs), `MaxBehind`
and `MaxUpsets` (Delinquency), and the finite `Payment` and `Date` of Ledger; they are guards of the actions they bound
and nothing else reads them.

- Outbox: two dispatchers are what an exclusive claim needs, a batch of one makes
  the limit bite with two events, three attempts pass through first, middle and
  last. The proofs remove all of these bounds.
- Rental: two units let a basket, a moved session and a hold differ. One renter
  already interleaves with both sweeps, staff, the clock and a late payment; two
  renters multiply the states beyond five minutes. The proofs hold for any
  number of renters, units and holds.
- Access: `MaxAttempts` is 2 (5 in the code): first, last and the retry between
  them. Two callers are a race; two codes of one kind are a replacement.
- Payments: an amount of 2 is the least that has a part; two webhook requests are
  a concurrent delivery; of Stripe's events three in any order, twice or more
  often each. The proofs hold for any amount, any number of events, calls,
  webhook requests and staff.

- Jobs: two ticks race for a row, staff force over them; three days let a date fail,
  a later one succeed and the window of `MaxDays` close; `StaleAfter` is between one
  day and the end. One mishap is a death, a forced run or a spent budget.
- Ledger: two invoices are the least that an order, a shared payment and two leases
  need, two payments the least that compete; amounts of 1 and 2 make full, partial
  and surplus payments. Once every invoice is excused by a ghost nothing more can
  be shown, and a constraint cuts the run there. 1.3 million states.
- Delinquency: two rungs have an order and a gap; each of the upsets comes at every
  instant. Two upsets were explored to 3.3 million states without a violation,
  and the safety properties are proved for any number.

Where a run takes a symmetry set, its processes or codes are interchangeable
constants and it checks no liveness property.

### Fairness, and why the code justifies it

- Outbox: weak fairness of each dispatcher's next step (the cron route runs
  `dispatchEvents` again and again, and a process that lives goes on) and of time
  for a retry that waits. Nothing makes an event be emitted or a process die.
- Rental: the sweeps run daily and go through their lists. Renters, payments and
  staff are under no obligation.
- Access: a caller goes on; a drain that has started goes on; a drain starts
  again and again (strong fairness, since another drain may empty the queue
  between two ticks). Failing sends are bounded by `MaxFaults`.
- Jobs: time passes, ticks start (the cron fires every hour) and a process that lives
  goes on. Staff need not force anything, and nothing makes a process die.
- Delinquency: days pass, the night's jobs start and go on, a payment's own call to the
  gate is made, and a plan's end that was begun is finished if its process lives.
  Tenants need not pay and staff need not touch a lock.
- Ledger has no liveness property: `PassAccounts` says of the step that ends a pass
  what somebody would otherwise wait for in vain.
- Payments: a call and a webhook request go on; Stripe delivers the succeeded
  event until it is acknowledged (strong fairness of its delivery).

## 4. What is proved

All proofs are checked by TLAPS with Z3, Zenon and LS4, for every value of the
constants under the assumptions named in the modules (the bounds are naturals,
attempts and amounts are positive, the values that stand for "none" are not members
of the sets they complete).

**OutboxProofs.** `OutboxTyped`, `OutboxExclusive`, `OutboxHonest`,
`OutboxSettledIsFinal`, `OutboxImplementsDelivery`. Exclusive claims are not
inductive by themselves: the invariant adds that a row that may still be claimed
has attempts left, and had when a worker that is about to claim it read it; that
no row counts more attempts than claims were won; and that the holder of a claim
knows the attempt in its row and took the handler for successful only if it
returned. The refinement takes
each step to a step of `Delivery` or a stutter by who holds the event.

**RentalProofs.** `RentalTyped`, `RentalStatusIsSound`, `RentalOnSaleIsFree`,
`RentalMoveInEndsHold`, `RentalOutcomesAreFinal`. The central lemma says that
`deriveUnitStatus` is sound for the rows it is given; each action then has to show
that the units it recomputes are all whose claims it *adds* or whose lease it
changes. A claim that goes away on a unit that is not recomputed leaves the
status too cautious, never too generous: that is why `OnSaleIsFree` survives the
two defects that `UnitsGoBack` shows. The invariant adds that a hold names a unit
and that a session's reservation exists.

**PaymentsProofs.** `PaymentsTyped`, `PaymentsBooksAgree`, `PaymentsMatchStripe`. `BooksAgree`
speaks of sums; the invariant says for each state of the payment what the four kinds of
ledger entry are (nothing while no money is received; reinstated equals reversed
while it is; reversed is the amount less the refunds once it is returned) and what
a handler between two of its statements may still count on (a reinstatement that
has not been made yet finds the payment returned with the refunds it read; a move-in
that is still to be posted finds the money received). Types need one more fact: a
call at work has a pending row of its own that no event has been attached to.
Adoption of a failed row is sound because of it. The steps that write without
looking (`writeRefund`, a late `payment_failed`) set a slip exactly when the
state was not one they could write over; slips are never taken back, so the
invariant is conditional on there being none of three.

`BooksMatchStripe` speaks of moments at which all is calm; its invariant (`MatchInv`) says
what is true on the way there. What Stripe's events say is so at Stripe, and what happened
there was told (`StripeSays`); the card refunds that are booked, and the refunds Stripe made,
add up to the two totals, so that booking every one of them is booking all of it (`AddsUp`);
a handler's shortfall with what is booked comes to what its event said, however many
others book meanwhile (`HandlesInv`); a return or a reinstatement has a dispute behind
it, and without a slip so has received money a success (`Caused`). The heart is `Heeded`:
without a slip, an event whose handler has returned has had its effect, and later
steps leave it: a success is posted, a refund is booked, a withdrawal has left the payment
returned or with nothing to return, a win has not left it returned. When all is calm
every event has been handled, and the effects add up.

**JobsProofs.** `JobsTyped`, `JobsExclusive`, `JobsHonest`. The invariant says of every
process that the run it has in hand is one, with a row if it is at work (`InHand`), and
that a date without a row was never started (`StartedOnce`): such a row has no process
at work on it, so whoever wins the insert is alone, and only a forced run can
join it. A row is left `running` with nobody at work by a death alone, and `orphaned`
records it. For any jobs, hours, ticks and staff.

**AccessProofs.** `AccessTyped`, `AccessSuccessIsReal`, `AccessRevival`, `AccessDrift`.
Three invariants:
of the queue (its keys are unique, what is still to be sent has attempts left, a drain's
batch lies in the queue, and a drain that is about to record a success saw the
controller take each of the commands it is at), of the callers (who is about to write
the grant read it in a state from which the move is allowed, and if nobody has written
since, it is still in that state), and of the credentials a `revoke_credential` names
(they are revoked). A revoked grant has no allowed move, so who writes over it read an
older version, and that is what `raced` records.

`DriftHasACause` speaks of moments at which nothing is on its way, so its invariant
(`FollowInv`) says what is true in between. Every command about the grant has an older
version for its key than the grant has now, and without a race no two moves started
from one version: the key of a command that is owed is free (`AskedOnce`), it is
appended and not skipped, and the latest one says where the grant is as soon as nobody
owes one (`QueueFollows`). A live code is in the hand of the caller that issued it or was
queued, unless a process died (`LiveIsSent`). Once the controller has the latest
command about the grant, every live code it has taken opens as the grant says
(`GateFollows`): a new code is set by the grant as it is then, a command about the
grant that is taken later and is not the latest has been overtaken, and one that
takes a code back names a revoked one. That the queue has a latest command is the
only use of a well-founded order here.

**DelinquencyProofs.** `DelinquencyTyped`, `DelinquencyInOrder`, `DelinquencyLockIsKnown`.
For the ladder, unless `crossed`: the rungs served are those up to some rung, each was
sent at most once, a run that is about to claim decided on the rungs that are still
the open ones and on a date that has none, a run that carries a rung out is alone with
it, and at most one of the rungs served has tonight's date. For the lock: what staff did at
the door and have not ticked off agrees with the door and the open task, a run
that withdraws a request whose lock was fitted meanwhile is `lost`, and the record says
what hangs on the door. The two are independent, and every action is shown to keep
each or to leave its variables alone. One rung per date holds per episode of debt and
not over all of them: a cure, a return that does not resume and a forced re-run serve
two on one date, three upsets that the instance TLC checks does not have.

**LedgerProofs.** `LedgerTypes`, `LedgerForgives`, `ChargesOnce`, `PassesAccount`,
`InvoicesSettleOnce`, `PaymentsSpendOnce`, `VoidsHoldNoMoney`, `LeasesReconcile`: every safety
property of the run, for any invoices, leases, amounts, payments, dates and
workers. Four invariants, each inductive over those before it:

- `IInv`, who may have what in hand: two workers with one invoice in hand have raced; an
  invoice that is being raised does not exist and the counter lets one raise go on;
  whoever else has one in hand read a row that exists; and a worker with a closed
  invoice in hand raced with the closing or began with what burnt it. That is enough
  for `LedgerForgives`: what was forgiven is not owed again.
- `Typed`: the variables have their types, so nothing is ever negative, however blind a
  write is; and each step knows what it is about.
- `Hands`: a payment, a credit and a charge in flight are in one transaction's hands or
  they raced (`Apart`, `Beside`, `Twice`); the rows of a payment are what its status says
  (`RowsFit`); money on an invoice is money some payment left there (`Covered`). `ChargesOnce` and
  `PassesAccount` follow from it.
- `AddsUp`: the row of an invoice that was not raced over or burnt says what has settled it, is
  paid exactly when that is all, and has forgiven exactly the rest when it is closed
  (`RowIsRight`). To be inductive it has to say what each transaction between its two
  statements may count on: that the invoice still is as it was read (`Foresees`), that
  the credit it took is still unspent (`Affords`), that a charge finds its invoice owing
  what was charged (`Settles`, `ChargeFits`), and that a payment is posted on each lease on
  which it settles something (`Posts`). Then a lease's balance and its invoices are one
  sum, and `LeasesReconcile` is arithmetic.

**SumTheorems** has what these need of sums over finite sets: that the community
modules' `SumFunctionOnSet` exists as a function of the set and unfolds member by
member, and from it that sums of naturals are naturals, change by what one member
changes, split into parts, and add. The library's induction over finite sets takes an
operator and cannot be used here; instead each lemma supposes that some subset breaks
it, takes a smallest one (`LeastSubset`, from the well-founded order on finite subsets),
and removes a member. `LeavesExist` and `RemainingTyped` do the same over the numbers for
the recursive function of a write-off, and `FillsUp` over the turns that payments and
invoices take at a division: what is handed out is all there is or all that can be had.

Only model-checked:

- liveness (`EventuallySettled`, `LapsedIsSwept`, `QueueDrains`, `TakenIsRecorded`,
  `EveryDateIsRun`, `TroubleIsTold`, `PaidIsLetIn`, `LockComesOff`, `HoldsEnd`) and anything
  with `ENABLED`, which the prover does not do;
- the violations, which are counterexamples.

Two numbers of Ledger are not characterised: what a write-off leaves to write off
beyond the invoices it covers is proved to be a natural number and no more, and the
order in which a division serves its turns is proved to hand out neither too much nor too
little, not that a fee comes before rent (`Ahead` says that by definition).

## 5. Abstractions

Common to all: ids are model values, money is small integers, dates are flags
the clock sets, wording, mails, audit rows and analytics are left out.

- Outbox: one consumer (consumers share nothing but the events); the handler
  either returns or throws.
- Rental: a request is one step; `setUnitOperationalStatus` and `changeMoveInDate`
  merge a read with the write that follows it, and `relockAtSize` a step check
  outside its transaction. `extendLock`, sizes of units, transfer holds,
  overlocks and maintenance tickets are left out. A session is one tenant. `lapsed`
  is FALSE in rows that are not live. Partial unique indexes are guards.
- Access: the tenancy is running at the start and nothing is provisioned. What a tenant
  owes is a Boolean, and nights on which the rule decides nothing are nights
  without a step. `set_time_window`, authorized persons, the manual adapter, code
  collisions and the events the gate reports are left out. Reads that follow each
  other with nothing but a guard between are merged (`ensureGrant`'s find or
  create, the checks of `enrollMobileKey` and `revokeMobileKey`, the count of
  `revokeAccessIfLastLease`). Backoff is a free choice of the failed commands that
  are due. An idempotency key is the command's type with what it is about.
- Payments: one charge reference and so one intent. `applyPayment`'s allocation is
  any amount up to the payment's; sums are those of one lease, and an invoice's
  payment has one to post to. Refund rows are totals by method. A second
  decline is not told from the first. Left out: a later charge under another
  reference, `setup_intent.succeeded`, refunds of a lease's credit, returns by
  staff, the fee of a return, tasks, the ladder that resumes, inquiries that
  escalate. A transaction is one step, the unlocked reads inside `writeRefund`'s
  too.

- Jobs: one facility (facilities share no row). A partial success counts as a success, as
  for every reader of the row. Failing is a choice of the job's work; the work itself
  is what the other modules model. Changes of the clock are left out.
- Ledger: one tenant at one facility; one fee invoice and one rent invoice per lease and
  period, the facility's default allocation order, one retry day. Left out: refunds and
  returns (in Payments), ledger adjustments, plans' instalments, business accounts,
  prorated and rebilled periods, the release of referral credit when an invoice is
  voided, a response lost after Stripe took the money (in Payments), and a decline that
  arrives by webhook after the charge was accepted. The decline count of a charge is
  read when its answer is. Reading the model against the code also showed, without a
  property of its own: staff credit has no look at the status (`credit.ts:200-217`),
  `waiveFeeInvoice` refuses only `void`, the list of an autopay run is read once, and an
  autopay success that arrives after its invoice was paid elsewhere leaves more
  allocated than was owed (`raced` and the `named` invoice of `PaymentSpentOnce`).
- Delinquency: one lease, tenant and unit. Left out: auction flags and plain staff tasks
  among a rung's actions, the timeline's pinning, the emergency pause of the clock,
  transfer chains, settling debits, the rent-only setting. Every hold has every effect.
  A forced run is of the last date; the nightly run starts when no forced one is at
  work. A plan is not created between the end of another and the lift of its hold.
  `restoreAccessIfSettled` reads and acts in one step, a move-out's revocation is part of
  it; the jobs of a night run to their end before the next; a lock task that is
  requested does not outlive its night unseen. Installments are a choice of broken or
  completed. Hazards seen and not stated as properties: a death between `createTask`
  and the overlock's row leaves a task without a record (`lost`); a death after a claim and
  before its actions means the notice is never sent; a tenant who has paid while on hold is neither
  cured nor let in; a cure does not undo `pending_auction`; two requests may create two
  plans at once; `cancelPaymentPlan` that dies leaves an active plan without its hold.

Not modelled at all, with reasons, are the components of `PROJECT.json` whose
status is `not_modelled`.

The modules cover the parts in which processes meet over shared rows; the larger
share of the repository by lines is pages, forms, texts in two languages, templates,
reports, seeds and tests, where there is no state to check or a request is one
transaction with one author. The map stays below a twentieth of the implementation's
lines for that reason.

## 6. Plan

Done: Outbox with Delivery, Rental, Access, Payments, Jobs, Ledger, Delinquency, and
proofs for all seven. What would come next, in this order:

1. `Rental` with the read and the write of `recomputeUnitStatus` apart (two transactions
   that derive one unit's status at once), with two renters, and with a bank debit that
   provisions twice.
2. `Ledger` with refunds and returns over several invoices, plans' instalments, and two
   tenants of one business account; a second retry day.
3. `Access`: the manual adapter's task queue, the returning tenant, two issuers of one code;
   then Access under Delinquency in place of the grant's status.
4. Liens and auctions: a case's stages against a payment that arrives during them.
5. Drawer and accounting close against postings that come late.

## 7. Running

In this directory: `tlc -workers 2 -config MCRental.cfg MCRental` and likewise for
the other configurations (the longest, `MCPayments.cfg` and `MCPaymentsTaken.cfg`,
take a minute or two); `tlapm RentalProofs.tla` for the proofs (a minute or two per
module, five for `LedgerProofs`). Deadlock is checked for Delinquency, where days go on
for ever, and not elsewhere: the other systems may come to rest, with nothing to
deliver, nothing to sweep and nobody asking for anything.
