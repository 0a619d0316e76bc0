------------------------------- MODULE Ledger -------------------------------
(***************************************************************************)
(* What one tenant owes at one facility: invoices, the money allocated to  *)
(* them, and the ledger of each lease (apps/web/lib/billing: allocation,   *)
(* credit, invoices, fee-invoice, late-fees, corrections, autopay).  Each  *)
(* operation is a transaction under READ COMMITTED: what it reads and what *)
(* it writes are steps of their own unless a row lock makes them one.      *)
(* How a charge reaches Stripe, refunds and returns are in Payments.       *)
(***************************************************************************)
EXTENDS Integers, FiniteSets, FiniteSetsExt, Sequences

CONSTANTS Invoice,     \* numbered by their due dates
          Fee,         \* the invoices of kind fee; the others are rent
          Total,       \* totalCents
          Lease, LeaseOf,
          Carded,      \* the leases with autopay on and a card saved
          Payment,     \* numbered as they are received
          Amounts,     \* what a payer may hand over
          RetryDays,   \* paymentRetryDays: days past due of each retry
          Date,        \* business dates, in days past due
          Worker,      \* transactions and runs under way
          None

ASSUME InvoiceAssumption == /\ IsFiniteSet(Invoice) /\ Invoice \subseteq Nat \ {0}
                            /\ Fee \subseteq Invoice
                            /\ Total \in [Invoice -> Nat \ {0}]
                            /\ LeaseOf \in [Invoice -> Lease]
ASSUME PaymentAssumption == /\ IsFiniteSet(Payment) /\ Payment \subseteq Nat
                            /\ Payment \cap Invoice = {}
                            /\ Amounts \subseteq Nat \ {0}
ASSUME LeaseAssumption == IsFiniteSet(Lease) /\ Carded \subseteq Lease
ASSUME RetryAssumption == RetryDays \in Seq(Nat) /\ Date \subseteq Nat
ASSUME NoneAssumption == None \notin Invoice \cup Payment \cup Lease \cup Date

VARIABLES invoice,    \* status and amountPaidCents
          payment,    \* status and amount; the invoice and date a charge is for
          alloc,      \* the PaymentAllocation rows; 0 is no row
          posted,     \* the payment's ledger entries, by lease
          forgiven,   \* the entries that cancel an invoice: waiver, void, write-off
          writtenOff, \* the write-off entries that name no invoice
          asked,      \* Stripe: the charge first asked for an invoice on a date
          task,       \* the invoices with an open failed_payment task
          tx,         \* what each worker is doing
          raced,      \* ghost: what two of them had in hand at once
          crossed,    \* ghost: the invoices with credit of a payment posted elsewhere
          burnt       \* ghost: closed invoices staff put credit on, or forgave again

books == <<invoice, payment, alloc, posted, forgiven, writtenOff>>
vars == <<books, asked, task, tx, raced, crossed, burnt>>

Least(m, n) == IF m <= n THEN m ELSE n
Less(m, n) == IF m <= n THEN 0 ELSE m - n
SumOf(f, S) == SumFunctionOnSet(f, S)

Open == {"open", "partially_paid"}
Closed == {"void", "uncollectible"}

\* A charge whose row is written but whose intent is not is "charging"; one
\* that no other attempt may follow is "refused" (a terminal decline).
InFlight == {"charging", "pending"}
Declined == {"failed", "refused"}

\* A transaction: what it is about, and what it has read.
Work(step) == [step |-> step, inv |-> None, pay |-> None, lease |-> None, date |-> None,
               amount |-> 0, owed |-> [i \in Invoice |-> 0],
               had |-> [p \in Payment |-> 0], take |-> [p \in Payment |-> 0]]

Idle == Work("idle")

Step == {"idle", "raising", "spending", "summing", "listed", "checking", "charging", "asking",
         "claiming", "waiving", "writing off"}

InvoiceRow == [status : {"none", "paid"} \cup Open \cup Closed, paid : Nat]
PaymentRow == [status : {"none", "succeeded", "deleted"} \cup InFlight \cup Declined,
               amount : Nat, named : Invoice \cup {None}, date : Date \cup {None}]
Transaction == [step : Step, inv : Invoice \cup {None}, pay : Payment \cup {None},
                lease : Lease \cup {None}, date : Date \cup {None}, amount : Nat,
                owed : [Invoice -> Nat], had : [Payment -> Nat], take : [Payment -> Nat]]

\* The variables have their types: above all, no amount is ever negative.
TypeOK ==
    /\ invoice \in [Invoice -> InvoiceRow]
    /\ payment \in [Payment -> PaymentRow]
    /\ alloc \in [Payment -> [Invoice -> Nat]]
    /\ posted \in [Payment -> [Lease -> Nat]]
    /\ forgiven \in [Invoice -> Nat]
    /\ writtenOff \in [Lease -> Nat]
    /\ asked \in [Invoice -> [Date -> Payment \cup {None}]]
    /\ task \subseteq Invoice
    /\ tx \in [Worker -> Transaction]
    /\ raced \subseteq Invoice \cup Payment
    /\ crossed \subseteq Invoice
    /\ burnt \subseteq Invoice

Init == /\ invoice = [i \in Invoice |-> [status |-> "none", paid |-> 0]]
        /\ payment = [p \in Payment |-> [status |-> "none", amount |-> 0,
                                         named |-> None, date |-> None]]
        /\ alloc = [p \in Payment |-> [i \in Invoice |-> 0]]
        /\ posted = [p \in Payment |-> [l \in Lease |-> 0]]
        /\ forgiven = [i \in Invoice |-> 0]
        /\ writtenOff = [l \in Lease |-> 0]
        /\ asked = [i \in Invoice |-> [d \in Date |-> None]]
        /\ task = {}
        /\ tx = [w \in Worker |-> Idle]
        /\ raced = {}
        /\ crossed = {}
        /\ burnt = {}
-----------------------------------------------------------------------------
(* What the tables say *)

Owed(i) == IF invoice[i].status \in Open THEN Less(Total[i], invoice[i].paid) ELSE 0

Succeeded == {p \in Payment : payment[p].status = "succeeded"}
RowsOf(i) == [p \in Payment |-> alloc[p][i]]

\* recomputeInvoices' sum: the allocations of the payments that settle.
Settled(i) == SumOf(RowsOf(i), Succeeded)

\* The row recomputeInvoices writes for a sum.
Recomputed(i, sum) ==
    [status |-> IF sum >= Total[i] THEN "paid" ELSE IF sum > 0 THEN "partially_paid" ELSE "open",
     paid |-> sum]

\* A recompute that leaves no invoice alone.
SparedMutant(i) == FALSE

\* recomputeInvoices leaves a void invoice alone.
Spared(i) == invoice[i].status = "void"

Spent(p) == SumOf(alloc[p], Invoice)

\* Credit with no floor, and credit that counts what is already spent.
SpareMutantA(p) == IF payment[p].status = "succeeded" THEN payment[p].amount - Spent(p) ELSE 0
SpareMutantB(p) == IF payment[p].status = "succeeded" THEN payment[p].amount ELSE 0

\* unclaimedCents of a payment in hand
Spare(p) == IF payment[p].status = "succeeded" THEN Less(payment[p].amount, Spent(p)) ELSE 0

\* Each payment takes the whole room.
TakenMutant(room) == [p \in Payment |-> Least(Spare(p), room)]

\* What applyCreditToInvoice takes of each payment for a room: the oldest first.
Taken(room) ==
    LET spare == [p \in Payment |-> Spare(p)]
    IN [p \in Payment |-> Least(spare[p], Less(room, SumOf(spare, {q \in Payment : q < p})))]

\* claimsFor, narrowed to some invoices.
Claims(S) == [i \in Invoice |-> IF i \in S THEN Owed(i) ELSE 0]

\* The facility's allocation order: fees, then rent, the oldest first.
Ahead(j, i) == \/ j \in Fee /\ i \notin Fee
               \/ (j \in Fee <=> i \in Fee) /\ j < i

\* allocatePayment: the line an invoice gets out of an amount.
Line(owed, amount, i) ==
    Least(owed[i], Less(amount, SumOf(owed, {j \in Invoice : Ahead(j, i)})))

\* The charge of an invoice less the entries that cancel it.
Charged == [i \in Invoice |-> IF invoice[i].status = "none" THEN 0 ELSE Total[i] - forgiven[i]]
InvoicesOf(l) == {i \in Invoice : LeaseOf[i] = l}
PostedOn(l) == SumOf([p \in Payment |-> posted[p][l]], Payment)

Balance(l) == SumOf(Charged, InvoicesOf(l)) - writtenOff[l] - PostedOn(l)

Declines(i) == {p \in Payment : alloc[p][i] > 0 /\ payment[p].status \in Declined}

\* A charge asked for and not given back.
Charge(p) == payment[p].named # None /\ payment[p].status \in {"pending", "succeeded"}

\* What a transaction or a charge in flight has read and not yet acted on.
InHand(w) == ({tx[w].inv, tx[w].pay} \ {None}) \cup {i \in Invoice : tx[w].owed[i] > 0}
                                               \cup {p \in Payment : tx[w].take[p] > 0}
HeldBeside(w, p) ==
    (UNION {InHand(v) : v \in Worker \ {w}})
        \cup ({payment[q].named : q \in {r \in Payment \ {p} : payment[r].status \in InFlight}} \ {None})

Takes(S, w, p) == raced' = raced \cup (S \cap HeldBeside(w, p))

Crosses(w) ==
    LET i == tx[w].inv
    IN crossed' = IF \E p \in Payment : tx[w].take[p] > 0 /\ posted[p][LeaseOf[i]] = 0
                  THEN crossed \cup {i} ELSE crossed

IsIdle(w) == tx[w] = Idle
Turn(w, t) == tx' = [tx EXCEPT ![w] = t]

Unused == {p \in Payment : payment[p].status = "none" /\ \A w \in Worker : tx[w].pay # p}
NextPayment(p) == p \in Unused /\ \A q \in Unused : p <= q

\* The invoice counter's row is locked from the first statement of a raise.
CounterFree == \A w \in Worker : tx[w].step # "raising"
-----------------------------------------------------------------------------
(* Raising invoices *)

Raise(i) == invoice' = [invoice EXCEPT ![i] = [status |-> "open", paid |-> 0]]

\* createInvoiceForPeriod up to the credit it finds; then the rows it writes,
\* which nobody saw before, and the credit swept onto the invoice.
ReadForRaise(w, i) ==
    /\ IsIdle(w) /\ CounterFree
    /\ i \notin Fee /\ invoice[i].status = "none"
    /\ Turn(w, [Work("raising") EXCEPT !.inv = i, !.take = Taken(Total[i])])
    /\ Takes({p \in Payment : Taken(Total[i])[p] > 0}, w, None)
    /\ UNCHANGED <<books, asked, task, crossed, burnt>>

CommitRaise(w) ==
    LET i == tx[w].inv
        sum == SumOf(tx[w].take, Payment)
    IN /\ tx[w].step = "raising"
       /\ alloc' = [p \in Payment |-> [alloc[p] EXCEPT ![i] = tx[w].take[p]]]
       /\ invoice' = [invoice EXCEPT ![i] = Recomputed(i, sum)]
       /\ Turn(w, Idle)
       /\ Crosses(w)
       /\ UNCHANGED <<payment, posted, forgiven, writtenOff, asked, task, raced, burnt>>

\* A fee's invoice takes no credit.
RaiseFee(i) ==
    /\ CounterFree
    /\ i \in Fee /\ invoice[i].status = "none"
    /\ Raise(i)
    /\ UNCHANGED <<payment, alloc, posted, forgiven, writtenOff, asked, task, tx, raced, crossed, burnt>>
-----------------------------------------------------------------------------
(* Credit on account: applyCreditToInvoice, for staff and for autopay *)

\* What the transaction reads: the room, each payment's spare, and the rows
\* there are.  With nothing to apply it commits at once: for autopay the pass
\* goes on with what it read before.
ReadCredit(w, i, t) ==
    LET room == Less(Total[i], invoice[i].paid)
        take == Taken(room)
        used == {p \in Payment : take[p] > 0}
    IN /\ IF used = {}
          THEN Turn(w, IF t.date = None THEN Idle ELSE [t EXCEPT !.step = "checking"])
          ELSE Turn(w, [t EXCEPT !.step = "spending", !.take = take,
                                 !.had = [p \in Payment |-> alloc[p][i]]])
       /\ Takes({i} \cup used, w, None)

StaffCredit(w, i) ==
    /\ IsIdle(w)
    /\ invoice[i].status # "none" /\ invoice[i].paid < Total[i]
    /\ ReadCredit(w, i, [Work("spending") EXCEPT !.inv = i])
    /\ burnt' = IF invoice[i].status \in Closed THEN burnt \cup {i} ELSE burnt
    /\ UNCHANGED <<books, asked, task, crossed>>

\* The rows are written, and the sum is taken.  A row another transaction has
\* yet to commit is waited for; one that has appeared since the read fails the
\* insert, and with it the transaction (for autopay, the whole run).
WriteCredit(w) ==
    LET i == tx[w].inv
        used == {p \in Payment : tx[w].take[p] > 0}
        row(p) == IF p \in used THEN tx[w].had[p] + tx[w].take[p] ELSE alloc[p][i]
        sum == SumOf([p \in Payment |-> row(p)], Succeeded)
    IN /\ tx[w].step = "spending"
       /\ \A v \in Worker \ {w} : /\ tx[v].step = "summing" /\ tx[v].inv = i
                                  => \A p \in used : tx[v].take[p] = 0
       /\ IF \E p \in used : tx[w].had[p] = 0 /\ alloc[p][i] > 0
          THEN Turn(w, Idle)
          ELSE Turn(w, [tx[w] EXCEPT !.step = "summing",
                                     !.amount = IF Spared(i) THEN 0 ELSE sum])
       /\ UNCHANGED <<books, asked, task, raced, crossed, burnt>>

\* recomputeInvoices read the status before: what it writes now is blind.
CommitCredit(w) ==
    LET i == tx[w].inv
        row(p) == IF tx[w].take[p] > 0 THEN tx[w].had[p] + tx[w].take[p] ELSE alloc[p][i]
        now == IF tx[w].amount = 0 THEN invoice[i] ELSE Recomputed(i, tx[w].amount)
    IN /\ tx[w].step = "summing"
       /\ alloc' = [p \in Payment |-> [alloc[p] EXCEPT ![i] = row(p)]]
       /\ invoice' = [invoice EXCEPT ![i] = now]
       /\ Turn(w, IF tx[w].date = None THEN Idle
                  ELSE [Work("checking") EXCEPT !.inv = i, !.date = tx[w].date,
                                                !.amount = now.paid])
       /\ Crosses(w)
       /\ UNCHANGED <<payment, posted, forgiven, writtenOff, asked, task, raced, burnt>>
-----------------------------------------------------------------------------
(* Taking payments: applyPayment and postPaymentLedger *)

\* What the allocation may pay: the lease named at the counter when the payment
\* is directed at it, and otherwise everything this tenant owes.
TakePayment(w, l, amount, directed) ==
    \E p \in Payment :
        LET owed == Claims({i \in Invoice : directed => LeaseOf[i] = l})
        IN /\ IsIdle(w) /\ NextPayment(p)
           /\ Turn(w, [Work("claiming") EXCEPT !.pay = p, !.lease = l, !.amount = amount,
                                               !.owed = owed])
           /\ Takes({i \in Invoice : owed[i] > 0}, w, p)
           /\ UNCHANGED <<books, asked, task, crossed, burnt>>

\* payment_intent.succeeded: the invoice the charge names takes it, unless there
\* is nothing left to claim on it.
SettleCharge(w, p) ==
    LET named == payment[p].named
        owed == Claims(IF Owed(named) > 0 THEN {named} ELSE Invoice)
    IN /\ IsIdle(w) /\ payment[p].status = "pending"
       /\ \A v \in Worker : tx[v].pay # p
       /\ Turn(w, [Work("claiming") EXCEPT !.pay = p, !.lease = LeaseOf[named],
                                           !.amount = payment[p].amount, !.owed = owed])
       /\ Takes({i \in Invoice : owed[i] > 0} \cup {named}, w, p)
       /\ UNCHANGED <<books, asked, task, crossed, burnt>>

\* The lock is taken and the status not read again.
StillOpenMutant(w) == tx[w].owed

\* B-352: the invoices are locked, and those no longer open are dropped.
StillOpen(w) == [i \in Invoice |-> IF invoice[i].status \in Open THEN tx[w].owed[i] ELSE 0]

\* One entry for the whole amount, on the payer's lease.
PostMutant(l, anchor, amount, lines) == IF l = anchor THEN amount ELSE 0

\* postPaymentLedger: each lease gets what its invoices got, and the payer's
\* lease what is left over.
Post(l, anchor, amount, lines) ==
    SumOf(lines, InvoicesOf(l)) + (IF l = anchor THEN Less(amount, SumOf(lines, Invoice)) ELSE 0)

\* The lock waits for a credit that has written a row of one of the invoices.
CommitPayment(w) ==
    LET p == tx[w].pay
        owed == StillOpen(w)
        lines == [i \in Invoice |-> Line(owed, tx[w].amount, i)]
        paid == {i \in Invoice : owed[i] > 0 /\ lines[i] > 0}
        sum(i) == lines[i] + SumOf(RowsOf(i), Succeeded \ {p})
    IN /\ tx[w].step = "claiming"
       /\ \A v \in Worker : tx[v].step = "summing" => tx[w].owed[tx[v].inv] = 0
       /\ payment' = [payment EXCEPT ![p].status = "succeeded", ![p].amount = tx[w].amount]
       /\ alloc' = [alloc EXCEPT ![p] = [i \in Invoice |-> IF i \in paid THEN lines[i] ELSE @[i]]]
       /\ invoice' = [i \in Invoice |-> IF i \in paid /\ ~Spared(i)
                                        THEN Recomputed(i, sum(i)) ELSE invoice[i]]
       /\ posted' = [posted EXCEPT ![p] =
                        [l \in Lease |-> Post(l, tx[w].lease, tx[w].amount, lines)]]
       /\ task' = IF payment[p].named = None THEN task
                  ELSE task \ {i \in paid : invoice'[i].status = "paid"}
       /\ Turn(w, Idle)
       /\ UNCHANGED <<forgiven, writtenOff, asked, raced, crossed, burnt>>
-----------------------------------------------------------------------------
(* Forgiving what is owed *)

\* voidRentInvoice: the second reading is under the invoice's lock.  Only a
\* transaction that does not take that lock can have it in hand.
VoidInvoice(i) ==
    /\ i \notin Fee
    /\ invoice[i].status \notin Closed \cup {"none"}
    /\ invoice[i].paid = 0
    /\ \A p \in Payment : payment[p].status \in InFlight => alloc[p][i] = 0
    /\ \A w \in Worker : tx[w].step = "summing" => tx[w].inv # i
    /\ forgiven' = [forgiven EXCEPT ![i] = @ + Total[i]]
    /\ invoice' = [invoice EXCEPT ![i].status = "void"]
    /\ raced' = IF \E w \in Worker : tx[w].step # "claiming" /\ i \in InHand(w) THEN raced \cup {i} ELSE raced
    /\ UNCHANGED <<payment, alloc, posted, writtenOff, asked, task, tx, crossed, burnt>>

\* waiveFeeInvoice: read outside the transaction, written without a second look.
ReadForWaiver(w, i) ==
    LET owed == Less(Total[i], invoice[i].paid)
    IN /\ IsIdle(w)
       /\ i \in Fee /\ invoice[i].status \notin {"none", "void"} /\ owed > 0
       /\ Turn(w, [Work("waiving") EXCEPT !.inv = i, !.amount = owed])
       /\ Takes({i}, w, None)
       /\ burnt' = IF invoice[i].status \in Closed THEN burnt \cup {i} ELSE burnt
       /\ UNCHANGED <<books, asked, task, crossed>>

CommitWaiver(w) ==
    LET i == tx[w].inv
    IN /\ tx[w].step = "waiving"
       /\ forgiven' = [forgiven EXCEPT ![i] = @ + tx[w].amount]
       /\ invoice' = [invoice EXCEPT ![i].status = "void"]
       /\ Turn(w, Idle)
       /\ UNCHANGED <<payment, alloc, posted, writtenOff, asked, task, raced, crossed, burnt>>

\* writeOffOpenLeaseBalance: the same.
ReadForWriteOff(w, l) ==
    LET owed == Claims(InvoicesOf(l))
    IN /\ IsIdle(w) /\ Balance(l) > 0
       /\ Turn(w, [Work("writing off") EXCEPT !.lease = l, !.amount = Balance(l), !.owed = owed])
       /\ Takes({i \in Invoice : owed[i] > 0}, w, None)
       /\ UNCHANGED <<books, asked, task, crossed, burnt>>

\* What is left of a balance after the invoices up to n, the oldest first: one
\* larger than what is left is passed over.
Remaining(owed, balance) ==
    LET left[n \in 0 .. Max(Invoice)] ==
            IF n = 0 THEN balance
            ELSE IF n \in Invoice /\ owed[n] <= left[n - 1]
                 THEN left[n - 1] - owed[n] ELSE left[n - 1]
    IN left

CommitWriteOff(w) ==
    LET l == tx[w].lease
        left == Remaining(tx[w].owed, tx[w].amount)
        covered == {i \in Invoice : tx[w].owed[i] > 0 /\ tx[w].owed[i] <= left[i - 1]}
    IN /\ tx[w].step = "writing off"
       /\ forgiven' = [i \in Invoice |-> IF i \in covered THEN forgiven[i] + tx[w].owed[i]
                                         ELSE forgiven[i]]
       /\ invoice' = [i \in Invoice |-> IF i \in covered
                                        THEN [invoice[i] EXCEPT !.status = "uncollectible"]
                                        ELSE invoice[i]]
       /\ writtenOff' = [writtenOff EXCEPT ![l] = @ + left[Max(Invoice)]]
       /\ Turn(w, Idle)
       /\ UNCHANGED <<payment, alloc, posted, asked, task, raced, crossed, burnt>>
-----------------------------------------------------------------------------
(* The autopay pass over one invoice, for a business date *)

\* The run lists every invoice that is due, and comes to this one later.
List(w, i, d) ==
    /\ IsIdle(w) /\ invoice[i].status \in Open
    /\ Turn(w, [Work("listed") EXCEPT !.inv = i, !.date = d, !.amount = invoice[i].paid])
    /\ Takes({i}, w, None)
    /\ UNCHANGED <<books, asked, task, crossed, burnt>>

\* B-225: the tenant's own money before their card.
Sweep(w) ==
    /\ tx[w].step = "listed"
    /\ ReadCredit(w, tx[w].inv, tx[w])
    /\ UNCHANGED <<books, asked, task, crossed, burnt>>

\* Only a settled charge keeps the next one off.
AttemptInFlightMutant(i) ==
    \E p \in Payment : alloc[p][i] > 0 /\ payment[p].status = "succeeded"

\* A charge for the invoice that is not known to have failed.
AttemptInFlight(i) ==
    \E p \in Payment : alloc[p][i] > 0 /\ payment[p].status \in InFlight \cup {"succeeded"}

\* retryDecision, with declineHistory
GivenUp(i) == \/ Len(RetryDays) < Cardinality(Declines(i))
              \/ Declines(i) # {} /\ payment[Max(Declines(i))].status = "refused"
NotDueYet(i, d) ==
    LET n == Cardinality(Declines(i)) IN n \in DOMAIN RetryDays /\ d < RetryDays[n]

Outstanding(w) == Less(Total[tx[w].inv], tx[w].amount)

Flagged(n) == n >= 2   \* MANAGER_FLAG_AFTER_DECLINES

\* Only the count of declines raises a task.
TellsMutant(i, chargeable) == Flagged(Cardinality(Declines(i)))

\* When a skip puts the invoice in front of a person.
Tells(i, chargeable) == (chargeable /\ GivenUp(i)) \/ Flagged(Cardinality(Declines(i)))

\* skipReasonFor, and the task a skip may raise.
Skip(w) ==
    LET i == tx[w].inv
        chargeable == Outstanding(w) > 0 /\ LeaseOf[i] \in Carded /\ ~AttemptInFlight(i)
    IN /\ tx[w].step = "checking"
       /\ \/ ~chargeable
          \/ GivenUp(i)
          \/ NotDueYet(i, tx[w].date)
       /\ task' = IF Tells(i, chargeable) THEN task \cup {i} ELSE task
       /\ Turn(w, Idle)
       /\ UNCHANGED <<books, asked, raced, crossed, burnt>>

Attempt(w) ==
    LET i == tx[w].inv
    IN /\ tx[w].step = "checking"
       /\ Outstanding(w) > 0 /\ LeaseOf[i] \in Carded /\ ~AttemptInFlight(i)
       /\ ~GivenUp(i) /\ ~NotDueYet(i, tx[w].date)
       /\ Turn(w, [tx[w] EXCEPT !.step = "charging"])
       /\ UNCHANGED <<books, asked, task, raced, crossed, burnt>>

\* createChargeIntent: the row and its allocation, before Stripe is asked.
CreateCharge(w) ==
    \E p \in Payment :
        LET i == tx[w].inv
        IN /\ tx[w].step = "charging" /\ NextPayment(p)
           /\ payment' = [payment EXCEPT ![p] = [status |-> "charging", amount |-> Outstanding(w),
                                                 named |-> i, date |-> tx[w].date]]
           /\ alloc' = [alloc EXCEPT ![p][i] = Outstanding(w)]
           /\ Turn(w, [tx[w] EXCEPT !.step = "asking", !.pay = p])
           /\ UNCHANGED <<invoice, posted, forgiven, writtenOff, asked, task, raced, crossed, burnt>>

\* An off-session charge is declined in the answer.
Answer(w) ==
    LET i == tx[w].inv
        declines == {r \in Payment : alloc[r][i] > 0 /\ payment'[r].status \in Declined}
    IN /\ task' = IF payment'[tx[w].pay].status \in Declined /\ Flagged(Cardinality(declines))
                  THEN task \cup {i} ELSE task
       /\ Turn(w, Idle)
       /\ UNCHANGED <<invoice, posted, forgiven, writtenOff, raced, crossed, burnt>>

Ask(w, answer) ==
    /\ tx[w].step = "asking" /\ asked[tx[w].inv][tx[w].date] = None
    /\ payment' = [payment EXCEPT ![tx[w].pay].status = answer]
    /\ Answer(w)
    /\ asked' = [asked EXCEPT ![tx[w].inv][tx[w].date] = tx[w].pay]
    /\ UNCHANGED alloc

\* Stripe repeats what it answered to the same key: a decline, or an intent
\* that another row already has, and then this row is deleted.
AskAgain(w) ==
    LET p == tx[w].pay
        q == asked[tx[w].inv][tx[w].date]
    IN /\ tx[w].step = "asking" /\ q # None
       /\ payment' = [payment EXCEPT ![p].status = IF payment[q].status \in Declined
                                                   THEN payment[q].status ELSE "deleted"]
       /\ Answer(w)
       /\ alloc' = IF payment[q].status \in Declined THEN alloc
                   ELSE [alloc EXCEPT ![p] = [i \in Invoice |-> 0]]
       /\ UNCHANGED asked

\* Stripe remembers a key for a day, longer than a pass over an invoice.
Forget(i, d) ==
    /\ asked[i][d] # None
    /\ \A w \in Worker : ~(tx[w].inv = i /\ tx[w].date = d)
    /\ asked' = [asked EXCEPT ![i][d] = None]
    /\ UNCHANGED <<books, task, tx, raced, crossed, burnt>>
-----------------------------------------------------------------------------
Begin(w) ==
    \/ \E i \in Invoice : ReadForRaise(w, i) \/ StaffCredit(w, i) \/ ReadForWaiver(w, i)
    \/ \E i \in Invoice, d \in Date : List(w, i, d)
    \/ \E l \in Lease, amount \in Amounts, directed \in BOOLEAN : TakePayment(w, l, amount, directed)
    \/ \E p \in Payment : SettleCharge(w, p)
    \/ \E l \in Lease : ReadForWriteOff(w, l)

Continue(w) ==
    \/ CommitRaise(w) \/ WriteCredit(w) \/ CommitCredit(w) \/ CommitPayment(w)
    \/ CommitWaiver(w) \/ CommitWriteOff(w)
    \/ Sweep(w) \/ Skip(w) \/ Attempt(w) \/ CreateCharge(w) \/ AskAgain(w)
    \/ \E answer \in {"pending"} \cup Declined : Ask(w, answer)

Next ==
    \/ \E w \in Worker : Begin(w) \/ Continue(w)
    \/ \E i \in Invoice : RaiseFee(i) \/ VoidInvoice(i)
    \/ \E i \in Invoice, d \in Date : Forget(i, d)

Spec == Init /\ [][Next]_vars
-----------------------------------------------------------------------------
(* Properties *)

\* No invoice is settled for more than it is: two payments, a payment and a
\* credit, or a payment and an autopay charge may do it only when one begins
\* while the other has the invoice in hand.
InvoiceSettledOnce == \A i \in Invoice : Settled(i) > Total[i] => i \in raced \cup burnt

\* No payment settles more than was paid: credit may be spent twice only by two
\* transactions that read it at once, and a charge only when its invoice was
\* paid another way before it succeeded.
PaymentSpentOnce ==
    \A p \in Payment : /\ payment[p].status = "succeeded"
                       /\ Spent(p) > payment[p].amount
                       => p \in raced \/ payment[p].named \in raced

\* reconcile: the lease's balance less what its invoices leave owed and less the
\* entries no invoice accounts for.
Difference(l) ==
    LET settling == {p \in Succeeded : posted[p][l] > 0}
    IN Balance(l) - SumOf([i \in Invoice |-> Owed(i)], InvoicesOf(l))
       + writtenOff[l] + PostedOn(l)
       - SumOf([i \in Invoice |-> SumOf(RowsOf(i), settling)], InvoicesOf(l))

\* US-24: the ledger of a lease reconciles to its invoices, whatever payments,
\* credits, waivers, voids and write-offs they went through in any order, unless
\* two of them overlapped or credit crossed from one lease to another.
LedgerReconciles ==
    \A l \in Lease : \/ Difference(l) = 0
                     \/ \E i \in Invoice : LeaseOf[i] = l /\ i \in raced \cup burnt \cup crossed

\* B-329, B-352: no payment lands on a rent invoice that is void, however the
\* void and the payment interleave.  What can is credit that staff put there,
\* or a transaction that does not lock the invoice.
VoidHoldsNoMoney ==
    \A i \in Invoice \ Fee : invoice[i].status = "void" /\ Settled(i) > 0 => i \in raced \cup burnt

\* What a manager forgave is not owed again: a void invoice stays void, and an
\* uncollectible one is only left for a void or for credit put on it.
ForgivenStaysForgiven ==
    [][\A i \in Invoice : /\ invoice[i].status \in Closed
                          /\ invoice'[i].status # invoice[i].status
                          /\ i \notin raced'
                          => invoice[i].status = "uncollectible" /\ i \in burnt]_vars

\* A card is charged once for an invoice on a date, even by runs that overlap
\* and after Stripe has forgotten; on two dates, only by runs that overlapped.
ChargedOnce ==
    \A p, q \in Payment :
        p # q /\ Charge(p) /\ Charge(q) /\ payment[p].named = payment[q].named
        => payment[p].date # payment[q].date /\ payment[p].named \in raced

\* Money already on the invoice, but not all of it.
PartCovered(i) == \E p \in Payment : payment[p].status = "succeeded" /\ alloc[p][i] > 0

\* Invoices that the run passes over with nobody told: the next try has its day,
\* a charge is under way, or somebody has a task.
Accounted(w, i) ==
    \/ \E p \in Payment : alloc[p][i] > 0 /\ payment[p].status \in InFlight
    \/ NotDueYet(i, tx[w].date)
    \/ i \in task'

Passed(w) == /\ tx[w].step = "checking" /\ tx'[w] = Idle
             /\ Owed(tx[w].inv) > 0 /\ LeaseOf[tx[w].inv] \in Carded

\* A pass never leaves an unpaid invoice with neither a charge, a next try nor
\* a task, when no money is on it yet.
PassAccounts ==
    [][\A w \in Worker : Passed(w) /\ ~PartCovered(tx[w].inv) => Accounted(w, tx[w].inv)]_vars

\* B-225, as its comments have it: what credit does not cover is charged.
RestIsCollected == [][\A w \in Worker : Passed(w) => Accounted(w, tx[w].inv)]_vars
=============================================================================
