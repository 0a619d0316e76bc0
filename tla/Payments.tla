------------------------------ MODULE Payments ------------------------------
(***************************************************************************)
(* One charge through Stripe (apps/web/lib/payments, apps/web/lib/billing: *)
(* refunds and reversals): createChargeIntent and its retries, the webhook *)
(* with its repeated, concurrent and reordered deliveries, refunds made by *)
(* staff and in the Stripe dashboard, disputes, and the provisioning of a  *)
(* move-in that a checkout payment starts.                                 *)
(***************************************************************************)
EXTENDS Integers, Sequences, FiniteSets

CONSTANTS Attempt,    \* calls of createChargeIntent with the charge's reference
          Worker,     \* requests in the webhook
          Staff,      \* people refunding the payment
          Amount,     \* Payment.amountCents
          MaxEvents,  \* bound: how much happens at Stripe of its own accord
          MaxFaults,  \* bound: lost calls, dead processes, failed provisioning
          NoRow       \* no Payment row has the intent's id

ASSUME AmountAssumption == Amount \in Nat \ {0}
ASSUME RowAssumption == NoRow \notin Attempt
ASSUME BoundAssumption == MaxEvents \in Nat /\ MaxFaults \in Nat

VARIABLES kind,       \* what the reference names: a checkout or an invoice
          intent,     \* Stripe: the PaymentIntent
          dispute,    \* Stripe: the dispute of the charge
          refunds,    \* Stripe: the refunds, oldest first
          sentBack,   \* Stripe: charge.amount_refunded
          sent,       \* Stripe: the events there are
          done,       \* StripeEvent.processedAt is set
          row,        \* Payment.status of the row each attempt wrote
          linked,     \* the row with the intent's stripePaymentIntentId
          booked,     \* the refunds of Stripe that have a refund row
          card, cash, \* what the refund rows add up to, by method
          ledger,     \* the entries of the payment and of its refunds, added up
          alloc,      \* what its allocations add up to
          provisioned,\* the checkout has its leases
          attempt, worker, staff,  \* where each process is
          faults,     \* the bound's counter
          slips       \* ghost: what has kept the books from following Stripe

atStripe == <<intent, dispute, refunds, sentBack, sent>>
books == <<booked, card, cash, ledger, alloc>>
vars == <<kind, atStripe, done, row, linked, books, provisioned,
          attempt, worker, staff, faults, slips>>

Status == {"none", "pending", "processing", "failed", "succeeded",
           "partially_refunded", "refunded", "returned"}

\* SETTLING_STATUSES: the states in which the money counts as received.
Settling == {"succeeded", "partially_refunded", "refunded"}

\* What Stripe tells: how much has been sent back, or how much is disputed.
Event(type, cents) == [type |-> type, cents |-> cents]

EventType == {"processing", "failed", "succeeded", "refunded",
              "inquiry", "disputed", "won", "lost"}

NoEvent == Event("none", 0)

Job(step, event) == [step |-> step, event |-> event, cents |-> 0, known |-> {}]

Waiting == Job("idle", NoEvent)

Refund(step, amount, method) ==
    [step |-> step, amount |-> amount, method |-> method, after |-> 0, made |-> 0]

NotRefunding == Refund("idle", 0, "none")

Refunded == card + cash

\* What the leases still hold of the payment: the sum writeRefund and
\* returnPayment both read.
Held == (ledger.posted + ledger.reinstated) - (ledger.reversed + ledger.refunded)

State == IF linked = NoRow THEN "none" ELSE row[linked]

\* The variables have their types; Stripe has sent back no more than it took;
\* and a return is counted once, and reinstated at most once.
TypeOK ==
    /\ kind \in {"checkout", "invoice"}
    /\ intent \in {"none", "open", "declined", "processing", "succeeded"}
    /\ dispute \in {"none", "inquiry", "open", "won", "lost"}
    /\ refunds \in Seq([amount : 1..Amount, after : Nat, ours : BOOLEAN])
    /\ sentBack \in 0..Amount
    /\ sent \subseteq [type : EventType, cents : 0..Amount]
    /\ done \subseteq sent
    /\ row \in [Attempt -> Status]
    /\ linked \in Attempt \cup {NoRow}
    /\ booked \subseteq DOMAIN refunds
    /\ card \in Nat /\ cash \in Nat
    /\ ledger \in [posted : {0, Amount}, refunded : Nat,
                   reversed : 0..Amount, reinstated : 0..Amount]
    /\ ledger.reinstated \in {0, ledger.reversed}
    /\ alloc \in 0..Amount
    /\ provisioned \in BOOLEAN
    /\ attempt \in [Attempt -> {"idle", "calling", "answered", "failing", "checking",
                                "linking", "done", "thrown", "dead"}]
    /\ worker \in [Worker -> [step : {"idle", "applying", "provisioning", "posting",
                                      "refunding", "reinstating", "acking"},
                              event : [type : EventType, cents : 0..Amount] \cup {NoEvent},
                              cents : Nat, known : SUBSET DOMAIN refunds]]
    /\ staff \in [Staff -> [step : {"idle", "asking", "writing"}, amount : 0..Amount,
                            method : {"none", "card", "cash"}, after : Nat,
                            made : {0} \cup DOMAIN refunds]]
    /\ faults \in 0..MaxFaults
    /\ slips \subseteq {"unfinished", "unknown", "unposted", "stale", "late",
                        "misordered", "partial"}

Init == /\ kind \in {"checkout", "invoice"}
        /\ intent = "none" /\ dispute = "none"
        /\ refunds = << >> /\ sentBack = 0
        /\ sent = {} /\ done = {}
        /\ row = [a \in Attempt |-> "none"]
        /\ linked = NoRow
        /\ booked = {} /\ card = 0 /\ cash = 0
        /\ ledger = [posted |-> 0, refunded |-> 0, reversed |-> 0, reinstated |-> 0]
        /\ alloc = 0
        /\ provisioned = FALSE
        /\ attempt = [a \in Attempt |-> "idle"]
        /\ worker = [w \in Worker |-> Waiting]
        /\ staff = [s \in Staff |-> NotRefunding]
        /\ faults = 0
        /\ slips = {}

Fault == faults < MaxFaults /\ faults' = faults + 1

-----------------------------------------------------------------------------
\* What happens at Stripe.
Tell(event) == sent' = sent \cup {event}

News == Cardinality(sent) < MaxEvents

ours == <<kind, done, row, linked, books, provisioned, attempt, worker, staff>>

\* The payer's card or bank declines, once: a second decline changes nothing
\* that the first did not.
Decline == /\ News
           /\ intent \in {"open", "processing"}
           /\ Event("failed", 0) \notin sent
           /\ intent' = "declined"
           /\ Tell(Event("failed", 0))
           /\ UNCHANGED <<ours, dispute, refunds, sentBack, faults, slips>>

\* The payer may try again on the same intent, with the client secret a call
\* of createChargeIntent returned.
Payable == \/ intent = "open"
           \/ intent = "declined" /\ \E a \in Attempt : attempt[a] = "done"

\* A bank debit is accepted, to settle in days.
Accept == /\ News
          /\ Payable
          /\ intent' = "processing"
          /\ Tell(Event("processing", 0))
          /\ UNCHANGED <<ours, dispute, refunds, sentBack, faults, slips>>

Pay == /\ News
       /\ Payable \/ intent = "processing"
       /\ intent' = "succeeded"
       /\ Tell(Event("succeeded", 0))
       /\ UNCHANGED <<ours, dispute, refunds, sentBack, faults, slips>>

\* Stripe refunds a charge up to its amount, and no charge in dispute.
CanRefund(cents) == intent = "succeeded" /\ dispute = "none" /\ sentBack + cents <= Amount

SendBack(cents, after, byUs) ==
    /\ refunds' = Append(refunds, [amount |-> cents, after |-> after, ours |-> byUs])
    /\ sentBack' = sentBack + cents
    /\ Tell(Event("refunded", sentBack + cents))

DashboardRefund == \E cents \in 1..Amount :
    /\ News
    /\ CanRefund(cents)
    /\ SendBack(cents, 0, FALSE)
    /\ UNCHANGED <<ours, intent, dispute, faults, slips>>

\* The bank asks about what is left of the charge, or withdraws it.
OpenDispute == \E type \in {"inquiry", "disputed"} :
    /\ News
    /\ CanRefund(1)
    /\ dispute' = IF type = "inquiry" THEN "inquiry" ELSE "open"
    /\ Tell(Event(type, Amount - sentBack))
    /\ UNCHANGED <<ours, intent, refunds, sentBack, faults, slips>>

CloseDispute == \E type \in {"won", "lost"} :
    /\ News
    /\ dispute \in {"inquiry", "open"}
    /\ dispute' = type
    /\ Tell(Event(type, Amount - sentBack))
    /\ UNCHANGED <<ours, intent, refunds, sentBack, faults, slips>>

-----------------------------------------------------------------------------
\* createChargeIntent.
At(a, step) == attempt' = [attempt EXCEPT ![a] = step]

Put(a, state) == row' = [row EXCEPT ![a] = state]

beyondCharge == <<kind, dispute, refunds, sentBack, sent, done, books, provisioned,
                  worker, staff, slips>>

\* The pending row is written before Stripe is called.
StartCharge(a) == /\ attempt[a] = "idle"
                  /\ Put(a, "pending")
                  /\ At(a, "calling")
                  /\ UNCHANGED <<beyondCharge, intent, linked, faults>>

\* Stripe creates the intent, or finds it by the idempotency key.
ReachStripe(a) == /\ attempt[a] = "calling"
                  /\ intent' = IF intent = "none" THEN "open" ELSE intent
                  /\ At(a, "answered")
                  /\ UNCHANGED <<beyondCharge, row, linked, faults>>

GetAnswer(a) == /\ attempt[a] = "answered"
                /\ At(a, "checking")
                /\ UNCHANGED <<beyondCharge, intent, row, linked, faults>>

\* The call does not arrive, or its answer does not.
LoseCall(a) == /\ Fault
               /\ attempt[a] \in {"calling", "answered"}
               /\ At(a, "failing")
               /\ UNCHANGED <<beyondCharge, intent, row, linked>>

\* The catch marks the row failed; it has no intent id.
MarkFailed(a) == /\ attempt[a] = "failing"
                 /\ Put(a, "failed")
                 /\ At(a, "thrown")
                 /\ UNCHANGED <<beyondCharge, intent, linked, faults>>

\* The duplicate of a charge that is recorded is deleted ...
CheckRecorded(a) ==
    /\ attempt[a] = "checking"
    /\ IF linked \in Attempt \ {a} THEN Put(a, "none") /\ At(a, "done")
       ELSE At(a, "linking") /\ UNCHANGED row
    /\ UNCHANGED <<beyondCharge, intent, linked, faults>>

\* ... and another row gets the intent's id, which is unique.
Link(a) == /\ attempt[a] = "linking"
           /\ IF linked = NoRow THEN linked' = a /\ At(a, "done")
              ELSE At(a, "thrown") /\ UNCHANGED linked
           /\ UNCHANGED <<beyondCharge, intent, row, faults>>

ChargeDies(a) == /\ Fault
                 /\ attempt[a] \notin {"idle", "done", "thrown", "dead"}
                 /\ At(a, "dead")
                 /\ UNCHANGED <<beyondCharge, intent, row, linked>>

Charge(a) == \/ ReachStripe(a) \/ GetAnswer(a) \/ MarkFailed(a)
             \/ CheckRecorded(a) \/ Link(a)

-----------------------------------------------------------------------------
\* The books.
Slip(slip, happened) == slips' = IF happened THEN slips \cup {slip} ELSE slips

SetState(state) == row' = [row EXCEPT ![linked] = state]

\* writeRefund: the allocations are trimmed first; the entries go to the leases
\* the payment touched, if it has touched any.  Nothing is asked of the state.
WriteRefund(cents) ==
    /\ SetState(IF Refunded + cents >= Amount THEN "refunded" ELSE "partially_refunded")
    /\ alloc' = IF cents <= alloc THEN alloc - cents ELSE 0
    /\ ledger' = IF ledger.posted = 0 /\ alloc = 0 THEN ledger
                 ELSE [ledger EXCEPT !.refunded = @ + cents]
    /\ slips' = slips \cup (IF ledger.posted = 0 THEN {"unposted"} ELSE {})
                      \cup (IF \/ State \notin {"succeeded", "partially_refunded"}
                               \/ Refunded + cents > Amount THEN {"stale"} ELSE {})
    /\ UNCHANGED provisioned

\* refundPayment looks at the payment outside a transaction ...
ReadRefundable(s) == \E cents \in 1..Amount, method \in {"card", "cash"} :
    /\ staff[s].step = "idle"
    /\ State \in {"succeeded", "partially_refunded"}
    /\ cents <= Amount - Refunded
    /\ staff' = [staff EXCEPT ![s] =
           [Refund(IF method = "card" THEN "asking" ELSE "writing", cents, method)
              EXCEPT !.after = Refunded]]
    /\ UNCHANGED <<kind, atStripe, done, row, linked, books, provisioned,
                   attempt, worker, faults, slips>>

\* The refund Stripe made for the same idempotency key.
Repeated(s) == {i \in DOMAIN refunds : refunds[i].ours /\ refunds[i].after = staff[s].after
                                         /\ refunds[i].amount = staff[s].amount}

\* ... asks Stripe for the money back if it was a card ...
AskStripe(s) ==
    /\ staff[s].step = "asking"
    /\ IF Repeated(s) # {} THEN
           /\ \E i \in Repeated(s) :
                staff' = [staff EXCEPT ![s].step = "writing", ![s].made = i]
           /\ UNCHANGED <<refunds, sentBack, sent>>
       ELSE IF CanRefund(staff[s].amount) THEN
           /\ SendBack(staff[s].amount, staff[s].after, TRUE)
           /\ staff' = [staff EXCEPT ![s].step = "writing", ![s].made = Len(refunds) + 1]
       ELSE /\ staff' = [staff EXCEPT ![s] = NotRefunding]
            /\ UNCHANGED <<refunds, sentBack, sent>>
    /\ UNCHANGED <<kind, intent, dispute, done, row, linked, books, provisioned,
                   attempt, worker, faults, slips>>

\* ... and writes, unless the unique stripeRefundId says that somebody has.
RecordRefund(s) ==
    /\ staff[s].step = "writing"
    /\ IF staff[s].made \in booked
       THEN UNCHANGED <<row, books, provisioned, slips>>
       ELSE /\ WriteRefund(staff[s].amount)
            /\ IF staff[s].method = "card"
               THEN /\ booked' = booked \cup {staff[s].made}
                    /\ card' = card + staff[s].amount
                    /\ UNCHANGED cash
               ELSE cash' = cash + staff[s].amount /\ UNCHANGED <<booked, card>>
    /\ staff' = [staff EXCEPT ![s] = NotRefunding]
    /\ UNCHANGED <<kind, atStripe, done, linked, attempt, worker, faults>>

StaffDies(s) == /\ Fault
                /\ staff[s].step # "idle"
                /\ staff' = [staff EXCEPT ![s] = NotRefunding]
                /\ UNCHANGED <<kind, atStripe, done, row, linked, books, provisioned,
                               attempt, worker, slips>>

-----------------------------------------------------------------------------
\* The webhook.  A delivery of an event that is not done runs it, whether or not
\* another is at it.
beyondWebhook == <<kind, atStripe, attempt, staff>>

unsettled == <<row, linked, books, provisioned>>

Go(w, step) == worker' = [worker EXCEPT ![w].step = step]

Applying(w, type) == worker[w].step = "applying" /\ worker[w].event.type = type

Deliver(w, event) ==
    /\ worker[w].step = "idle"
    /\ event \in sent \ done
    /\ worker' = [worker EXCEPT ![w] = Job("applying", event)]
    /\ UNCHANGED <<beyondWebhook, unsettled, done, faults, slips>>

\* The handler returned: processedAt is set.
Acknowledge(w) ==
    /\ worker[w].step = "acking"
    /\ done' = done \cup {worker[w].event}
    /\ worker' = [worker EXCEPT ![w] = Waiting]
    /\ UNCHANGED <<beyondWebhook, unsettled, faults, slips>>

\* The handler threw, or the process died: Stripe delivers the event again.
Fail(w) == /\ worker' = [worker EXCEPT ![w] = Waiting]
           /\ UNCHANGED <<beyondWebhook, unsettled, done, slips>>

WorkerDies(w) == Fault /\ worker[w].step # "idle" /\ Fail(w)

\* Mutant: a row that lost its intent is not found again.
AdoptableMutant == {}

\* paymentFor: without a row, one that a lost call left failed is adopted.
Adoptable == {a \in Attempt : row[a] = "failed"}

\* The row an intent's event is about, and the state it is found in.
Found(a, state) == \/ linked # NoRow /\ a = linked /\ state = row[a]
                   \/ linked = NoRow /\ a \in Adoptable /\ state = "pending"

\* No row to attach it to, and the tenant is ours.
NoRowYet(w) == /\ worker[w].step = "applying"
               /\ worker[w].event.type \in {"succeeded", "processing"}
               /\ linked = NoRow /\ Adoptable = {}
               /\ UNCHANGED faults
               /\ Fail(w)

\* Mutant: only a payment that is recorded as succeeded is left alone.
SucceedsMutant(state) == state # "succeeded"

\* MONEY-01: what is received, sent back or returned is left alone.
Succeeds(state) == state \notin Settling \cup {"returned"}

\* Money allocated to invoices: as much as there are open claims for.
Allocate(cents) == alloc' \in 0..cents

\* postPaymentLedger and postMoveInPaymentToLedger, unless there is an entry.
Post == ledger' = IF ledger.posted = 0 THEN [ledger EXCEPT !.posted = Amount] ELSE ledger

\* payment_intent.succeeded: an invoice's payment is allocated and posted; a
\* checkout's waits for its lease.
ApplySucceeded(w) == \E a \in Attempt, state \in Status :
    /\ Applying(w, "succeeded")
    /\ Found(a, state)
    /\ linked' = a
    /\ IF Succeeds(state) THEN
           /\ Put(a, "succeeded")
           /\ IF kind = "invoice" THEN Allocate(Amount) /\ Post /\ Go(w, "acking")
              ELSE UNCHANGED <<alloc, ledger>> /\ Go(w, "provisioning")
           /\ UNCHANGED slips
       ELSE /\ Slip("unfinished", ledger.posted = 0)
            /\ Go(w, "acking")
            /\ UNCHANGED <<row, alloc, ledger>>
    /\ UNCHANGED <<beyondWebhook, done, booked, card, cash, provisioned, faults>>

\* payment_intent.processing: a checkout's lease does not wait for the bank.
ApplyProcessing(w) == \E a \in Attempt, state \in Status :
    /\ Applying(w, "processing")
    /\ Found(a, state)
    /\ linked' = a
    /\ IF state = "pending"
       THEN Put(a, "processing") /\ Go(w, IF kind = "checkout" THEN "provisioning" ELSE "acking")
       ELSE Go(w, "acking") /\ UNCHANGED row
    /\ UNCHANGED <<beyondWebhook, done, books, provisioned, faults, slips>>

\* Outside the payment's transaction: provisionMoveIn, idempotent ...
ProvisionMoveIn(w) ==
    /\ worker[w].step = "provisioning"
    /\ provisioned' = TRUE
    /\ Go(w, IF worker[w].event.type = "succeeded" THEN "posting" ELSE "acking")
    /\ UNCHANGED <<beyondWebhook, row, linked, books, done, faults, slips>>

\* ... which may throw (a unit that has another lease by now) ...
ProvisioningThrows(w) == Fault /\ worker[w].step = "provisioning" /\ Fail(w)

\* ... and the payment's entry, against the leases there now are.
PostMoveIn(w) ==
    /\ worker[w].step = "posting"
    /\ Post
    /\ Go(w, "acking")
    /\ UNCHANGED <<beyondWebhook, row, linked, booked, card, cash, alloc, provisioned,
                   done, faults, slips>>

\* payment_intent.payment_failed: refused for a payment that reads succeeded.
ApplyFailed(w) ==
    /\ Applying(w, "failed")
    /\ IF State \in {"none", "succeeded"} THEN UNCHANGED <<row, slips>>
       ELSE /\ SetState("failed")
            /\ Slip("late", State \in {"partially_refunded", "refunded", "returned"})
    /\ Go(w, "acking")
    /\ UNCHANGED <<beyondWebhook, linked, books, provisioned, done, faults>>

\* Mutant: what Stripe has sent back is compared with all refunds, cash included.
MissingMutant(total) == IF total > Refunded THEN total - Refunded ELSE 0

\* The part of Stripe's total that has no refund row.
Missing(total) == IF total > card THEN total - card ELSE 0

\* charge.refunded: without a row there is nothing to do; for a payment that has
\* not succeeded yet it throws and waits.
ReadShortfall(w) ==
    LET missing == Missing(worker[w].event.cents) IN
    /\ Applying(w, "refunded")
    /\ \/ /\ linked = NoRow \/ missing = 0
          /\ Go(w, "acking")
          /\ Slip("unknown", linked = NoRow)
       \/ /\ linked # NoRow /\ missing > 0
          /\ worker' = [worker EXCEPT ![w] =
                IF State \in Settling
                THEN [@ EXCEPT !.step = "refunding", !.cents = missing, !.known = booked]
                ELSE Waiting]
          /\ UNCHANGED slips
    /\ UNCHANGED <<beyondWebhook, unsettled, done, faults>>

\* The refunds Stripe lists that were not known when the shortfall was read.
Unknown(w) == DOMAIN refunds \ worker[w].known

\* Newest first, until the shortfall is made up; a refund that somebody booked
\* meanwhile makes it throw.
BookRefund(w) == \E i \in Unknown(w) :
    /\ worker[w].step = "refunding"
    /\ worker[w].cents > 0
    /\ \A j \in Unknown(w) : j <= i
    /\ IF i \in booked
       THEN worker' = [worker EXCEPT ![w] = Waiting] /\ UNCHANGED <<row, books, provisioned, slips>>
       ELSE /\ WriteRefund(refunds[i].amount)
            /\ booked' = booked \cup {i}
            /\ card' = card + refunds[i].amount
            /\ worker' = [worker EXCEPT ![w].known = @ \cup {i},
                 ![w].cents = IF @ > refunds[i].amount THEN @ - refunds[i].amount ELSE 0]
            /\ UNCHANGED cash
    /\ UNCHANGED <<beyondWebhook, linked, done, faults>>

AllBooked(w) == /\ worker[w].step = "refunding"
                /\ worker[w].cents = 0 \/ Unknown(w) = {}
                /\ Go(w, "acking")
                /\ UNCHANGED <<beyondWebhook, unsettled, done, faults, slips>>

\* returnPayment, under the payment's lock: what the leases still hold goes back
\* unless part of it only is disputed, or it has been reversed before.
Returns(cents) == /\ State \in {"succeeded", "partially_refunded"}
                  /\ ledger.posted > 0 /\ ledger.reversed = 0
                  /\ Held > 0 /\ cents >= Held

ReturnPayment(w) ==
    /\ Applying(w, "disputed") \/ Applying(w, "lost")
    /\ IF Returns(worker[w].event.cents) THEN
           /\ SetState("returned")
           /\ ledger' = [ledger EXCEPT !.reversed = Held]
           /\ alloc' = 0
           /\ UNCHANGED slips
       ELSE /\ UNCHANGED <<row, ledger, alloc>>
            /\ slips' = slips \cup
                   (IF State = "none" THEN {"unknown"}
                    ELSE IF State \notin Settling \cup {"returned"} THEN {"misordered"}
                    ELSE IF State \in {"succeeded", "partially_refunded"} THEN
                         IF ledger.posted = 0 THEN {"unposted"}
                         ELSE IF Held > worker[w].event.cents THEN {"partial"} ELSE {}
                    ELSE {})
    /\ Go(w, "acking")
    /\ UNCHANGED <<beyondWebhook, linked, booked, card, cash, provisioned, done, faults>>

\* An inquiry withdraws nothing; it is a task for the staff.
ApplyInquiry(w) == /\ Applying(w, "inquiry")
                   /\ Go(w, "acking")
                   /\ UNCHANGED <<beyondWebhook, unsettled, done, faults, slips>>

\* reinstatePayment reads the payment outside its transaction ...
ReadReturned(w) ==
    /\ Applying(w, "won")
    /\ IF State = "returned"
       THEN worker' = [worker EXCEPT ![w].step = "reinstating", ![w].cents = Refunded]
            /\ UNCHANGED slips
       ELSE /\ Go(w, "acking")
            /\ Slip("misordered", \E event \in sent : event.type = "disputed")
    /\ UNCHANGED <<beyondWebhook, unsettled, done, faults>>

\* Mutant: nothing keeps a reversal from being reversed twice.
ReinstatesMutant == TRUE

\* LedgerEntry.reversalOfId is unique.
Reinstates == ledger.reinstated = 0

\* ... and counts on it in the transaction, which posts the reversed money back
\* and allocates it again.
Reinstate(w) ==
    /\ worker[w].step = "reinstating"
    /\ IF Reinstates THEN
           /\ ledger' = [ledger EXCEPT !.reinstated = @ + ledger.reversed]
           /\ SetState(IF worker[w].cents > 0 THEN "partially_refunded" ELSE "succeeded")
           /\ Allocate(ledger.reversed)
           /\ Go(w, "acking")
       ELSE /\ worker' = [worker EXCEPT ![w] = Waiting]
            /\ UNCHANGED <<row, ledger, alloc>>
    /\ UNCHANGED <<beyondWebhook, linked, booked, card, cash, provisioned, done, faults, slips>>

Apply(w) == \/ NoRowYet(w) \/ ApplySucceeded(w) \/ ApplyProcessing(w) \/ ApplyFailed(w)
            \/ ProvisionMoveIn(w) \/ PostMoveIn(w)
            \/ ReadShortfall(w) \/ BookRefund(w) \/ AllBooked(w)
            \/ ReturnPayment(w) \/ ApplyInquiry(w) \/ ReadReturned(w) \/ Reinstate(w)
            \/ Acknowledge(w)

-----------------------------------------------------------------------------
Stripe == Decline \/ Accept \/ Pay \/ DashboardRefund \/ OpenDispute \/ CloseDispute

Next == \/ Stripe
        \/ \E a \in Attempt : StartCharge(a) \/ Charge(a) \/ LoseCall(a) \/ ChargeDies(a)
        \/ \E s \in Staff : ReadRefundable(s) \/ AskStripe(s) \/ RecordRefund(s) \/ StaffDies(s)
        \/ \E w \in Worker : \/ \E event \in sent \ done : Deliver(w, event)
                             \/ Apply(w) \/ ProvisioningThrows(w) \/ WorkerDies(w)

Spec == Init /\ [][Next]_vars

\* A live process goes on, and Stripe delivers an event until it is acknowledged,
\* whatever else it delivers.  (Of the events, only the success has to be fair.)
Fairness == /\ \A a \in Attempt : WF_vars(Charge(a))
            /\ \A w \in Worker : WF_vars(Apply(w))
            /\ SF_vars(\E w \in Worker : Deliver(w, Event("succeeded", 0)))

FairSpec == Spec /\ Fairness

-----------------------------------------------------------------------------
\* Everything Stripe has told is applied and nobody is at work.
Calm == /\ done = sent
        /\ \A a \in Attempt : attempt[a] \in {"idle", "done", "thrown", "dead"}
        /\ \A w \in Worker : worker[w].step = "idle"
        /\ \A s \in Staff : staff[s].step = "idle"

\* The row, the ledger and the allocations tell one story, at every moment and
\* whatever the order of the deliveries: nothing is held of money that was not
\* received or was returned; what is received is held less its refunds, once;
\* the state says how much was refunded; and no invoice reads as paid by money
\* the payment does not hold.  The exceptions are the slips that write over a
\* state without looking at it.
BooksAgree ==
    slips \cap {"stale", "unposted", "late"} = {} =>
        /\ alloc <= Held
        /\ Held = IF State \in Settling /\ ledger.posted > 0 THEN Amount - Refunded ELSE 0
        /\ State = "succeeded" => Refunded = 0
        /\ State = "partially_refunded" => Refunded \in 1..(Amount - 1)
        /\ State = "refunded" => Refunded = Amount
        /\ State \in Settling /\ kind = "invoice" => ledger.posted = Amount

Withdrawn == dispute \in {"open", "lost"}

\* When all is calm the leases hold exactly what is left at Stripe, less what
\* went back in cash, unless one of the named slips happened: that is the list
\* of everything that makes the books and Stripe drift apart with every event
\* acknowledged.
BooksMatchStripe ==
    Calm /\ slips = {} =>
        Held = IF Withdrawn \/ intent # "succeeded" THEN 0 ELSE Amount - sentBack - cash

Received == State \in Settling \cup {"returned"}

\* Money Stripe took is recorded as received, also when the answer to the call
\* was lost and when the event overtook the link; unless the call died, and its
\* event stays listed as unreconciled, or a late decline writes over it.
TakenIsRecorded ==
    intent = "succeeded" ~>
        (Received \/ "late" \in slips \/ \E a \in Attempt : attempt[a] = "dead")

\* The comment in reconcile.ts, on the provisioning of a paid checkout: "if this
\* throws, the webhook retries and the money stays received".
PaidCheckoutProvisioned ==
    kind = "checkout" /\ Event("succeeded", 0) \in done
        /\ (\A w \in Worker : worker[w].step = "idle") => provisioned
=============================================================================
