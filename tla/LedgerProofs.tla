---------------------------- MODULE LedgerProofs ----------------------------
(***************************************************************************)
(* Proofs about Ledger for any invoices, amounts, leases, payments and     *)
(* workers, in four layers, each an inductive invariant over the ones      *)
(* before it.  IInv: who may have an invoice in hand, and what it can mean *)
(* that it is closed.  Typed: the variables have their types.  Hands: a    *)
(* payment, a credit and a charge in flight are in one transaction's       *)
(* hands, or they raced.  AddsUp: what is on an invoice, on a payment and  *)
(* in the ledger adds up, unless two transactions overlapped.              *)
(***************************************************************************)
EXTENDS Ledger, SumTheorems

Fields == {"step", "inv", "pay", "lease", "date", "amount", "owed", "had", "take"}

\* The rows have their columns; nothing is said of the amounts.
Shapes == /\ DOMAIN invoice = Invoice
          /\ \A i \in Invoice : DOMAIN invoice[i] = {"status", "paid"}
          /\ DOMAIN tx = Worker
          /\ \A w \in Worker : DOMAIN tx[w] = Fields

\* The worker has read the invoice and not yet acted on it.
Holds(w, i) == tx[w].inv = i \/ tx[w].owed[i] > 0

\* Two workers that have one invoice in hand are known to have raced.
Shared == \A v, w \in Worker : \A i \in Invoice :
    v # w /\ Holds(v, i) /\ Holds(w, i) => i \in raced

\* The counter's lock lets one raise go on at a time.
OneRaises == \A v, w \in Worker : tx[v].step = "raising" /\ tx[w].step = "raising" => v = w

\* Steps of a transaction that is about one invoice.
AboutOne == Step \ {"idle", "claiming", "writing off"}

\* An invoice is raised while it does not exist, and anything else is done to
\* one that does.
KnowsRow(w) ==
    /\ tx[w].step \in Step
    /\ tx[w].step \in AboutOne => tx[w].inv \in Invoice
    /\ tx[w].step = "raising" => /\ invoice[tx[w].inv].status = "none"
                                 /\ \A i \in Invoice : ~(tx[w].owed[i] > 0)
    /\ \A i \in Invoice : Holds(w, i) /\ tx[w].step # "raising" => invoice[i].status # "none"

\* Who has a closed invoice in hand was overtaken by the closing, or began with
\* what burnt it; and a sum that is about to be written was not read of a void
\* invoice.
Excused(w) ==
    /\ tx[w].step \in AboutOne /\ invoice[tx[w].inv].status \in Closed
       => tx[w].inv \in raced \cup burnt
    /\ tx[w].step = "summing" /\ tx[w].amount # 0 /\ invoice[tx[w].inv].status = "void"
       => tx[w].inv \in raced
    /\ tx[w].step = "writing off" => \A i \in Invoice :
         tx[w].owed[i] > 0 /\ invoice[i].status \in Closed => i \in raced

IInv == /\ Shapes /\ Shared /\ OneRaises
        /\ \A w \in Worker : KnowsRow(w) /\ Excused(w)
-----------------------------------------------------------------------------
\* A transaction that begins holds nothing.
LEMMA WorkIsFresh == ASSUME NEW step
                     PROVE  /\ DOMAIN Work(step) = Fields
                            /\ Work(step).step = step /\ Work(step).inv = None
                            /\ Work(step).date = None /\ Work(step).amount = 0
                            /\ \A i \in Invoice : ~(Work(step).owed[i] > 0)
  BY DEF Work, Fields

\* No worker holds the invoice that is no invoice.
LEMMA NoneIsNone == None \notin Invoice /\ None \notin Payment
  BY NoneAssumption

\* At the start nobody has anything in hand.
LEMMA InitHolds == Init => IInv
  <1> SUFFICES ASSUME Init PROVE IInv
    OBVIOUS
  <1>1. Shapes
    BY WorkIsFresh DEF Init, Shapes, Idle
  <1>2. \A w \in Worker : /\ tx[w].step = "idle" /\ tx[w].inv = None
                          /\ \A i \in Invoice : ~(tx[w].owed[i] > 0)
    BY WorkIsFresh DEF Init, Idle
  <1>3. \A w \in Worker, i \in Invoice : ~Holds(w, i)
    BY <1>2, NoneIsNone DEF Holds
  <1> QED
    BY <1>1, <1>2, <1>3 DEF IInv, Shared, OneRaises, KnowsRow, Excused, AboutOne, Step

\* Taking a row that another has in hand is noticed.
LEMMA Noticed == ASSUME NEW S, NEW w \in Worker, NEW p, Takes(S, w, p)
                 PROVE  /\ raced \subseteq raced'
                        /\ \A v \in Worker \ {w}, i \in Invoice \cap S : Holds(v, i) => i \in raced'
  <1>1. raced \subseteq raced'
    BY DEF Takes
  <1>2. ASSUME NEW v \in Worker \ {w}, NEW i \in Invoice \cap S, Holds(v, i) PROVE i \in raced'
    <2>1. i \in InHand(v)
      BY <1>2, NoneIsNone DEF Holds, InHand
    <2> QED
      BY <2>1 DEF Takes, HeldBeside
  <1> QED
    BY <1>1, <1>2

\* What happens to the invoices while a worker rests leaves its invariant alone
\* when every invoice it holds is either left as it is, or closed with notice.
Undisturbed(v) == \A i \in Invoice :
    \/ invoice'[i].status = invoice[i].status
    \/ /\ invoice'[i].status # "none"
       /\ invoice[i].status = "none" => tx[v].step # "raising" \/ tx[v].inv # i
       /\ invoice'[i].status \in Closed /\ Holds(v, i) /\ tx[v].step # "claiming" => i \in raced'

\* A worker that rests, undisturbed, keeps its part of the invariant.
LEMMA RestHolds ==
    ASSUME IInv, NEW v \in Worker, tx'[v] = tx[v], Undisturbed(v),
           raced \subseteq raced', burnt \subseteq burnt'
    PROVE  KnowsRow(v)' /\ Excused(v)'
  <1>1. \A i \in Invoice : Holds(v, i)' <=> Holds(v, i)
    BY DEF Holds
  <1>2. KnowsRow(v)'
    BY <1>1 DEF IInv, KnowsRow, Undisturbed, AboutOne, Step, Closed
  <1>3. tx[v].step \in AboutOne => tx[v].inv \in Invoice /\ Holds(v, tx[v].inv) /\ tx[v].step # "claiming"
    BY DEF IInv, KnowsRow, Holds, AboutOne
  <1>4. Excused(v)'
    <2>1. ASSUME tx[v].step \in AboutOne, invoice'[tx[v].inv].status \in Closed
          PROVE  tx[v].inv \in raced' \cup burnt'
      BY <1>3, <2>1 DEF IInv, Excused, Undisturbed
    <2>2. ASSUME tx[v].step = "summing", tx[v].amount # 0, invoice'[tx[v].inv].status = "void"
          PROVE  tx[v].inv \in raced'
      BY <1>3, <2>2 DEF IInv, Excused, Undisturbed, AboutOne, Step, Closed
    <2>3. ASSUME tx[v].step = "writing off", NEW i \in Invoice, tx[v].owed[i] > 0,
                 invoice'[i].status \in Closed
          PROVE  i \in raced'
      BY <2>3 DEF IInv, Excused, Undisturbed, Holds
    <2> QED
      BY <2>1, <2>2, <2>3 DEF Excused
  <1> QED
    BY <1>2, <1>4

\* One worker takes a step: what it takes in hand is noticed, what it does to
\* the invoices disturbs nobody, and where it goes the invariant holds.
LEMMA TurnHolds ==
    ASSUME IInv, NEW w \in Worker, NEW t, Turn(w, t), DOMAIN t = Fields, Shapes',
           raced \subseteq raced', burnt \subseteq burnt',
           KnowsRow(w)', Excused(w)',
           \A v \in Worker \ {w} : Undisturbed(v),
           t.step = "raising" => \A v \in Worker \ {w} : tx[v].step # "raising",
           \A v \in Worker \ {w}, i \in Invoice :
               (t.inv = i \/ t.owed[i] > 0) /\ Holds(v, i) => i \in raced'
    PROVE  IInv'
  <1>1. tx'[w] = t /\ \A v \in Worker \ {w} : tx'[v] = tx[v]
    BY DEF IInv, Shapes, Turn
  <1>2. \A v \in Worker : KnowsRow(v)' /\ Excused(v)'
    BY <1>1, RestHolds
  <1>3. Shared'
    BY <1>1 DEF IInv, Shared, Holds
  <1>4. OneRaises'
    BY <1>1 DEF IInv, OneRaises
  <1> QED
    BY <1>2, <1>3, <1>4 DEF IInv
-----------------------------------------------------------------------------
\* A step that reads: the invoices stay as they are.
LEMMA ReadHolds ==
    ASSUME IInv, NEW w \in Worker, NEW t, Turn(w, t), DOMAIN t = Fields, UNCHANGED invoice,
           raced \subseteq raced', burnt \subseteq burnt',
           KnowsRow(w)', Excused(w)',
           t.step = "raising" => \A v \in Worker \ {w} : tx[v].step # "raising",
           \A v \in Worker \ {w}, i \in Invoice :
               (t.inv = i \/ t.owed[i] > 0) /\ Holds(v, i) => i \in raced'
    PROVE  IInv'
  <1>1. Shapes'
    BY DEF IInv, Shapes, Turn
  <1>2. \A v \in Worker \ {w} : Undisturbed(v)
    BY DEF Undisturbed
  <1> QED
    BY <1>1, <1>2, TurnHolds

\* A worker that has nothing in hand any more has its invariant.
LEMMA IdleHolds ==
    ASSUME IInv, NEW w \in Worker, Turn(w, Idle)
    PROVE  /\ KnowsRow(w)' /\ Excused(w)'
           /\ DOMAIN Idle = Fields /\ Idle.step # "raising"
           /\ \A i \in Invoice : ~(Idle.inv = i \/ Idle.owed[i] > 0)
  <1>1. /\ DOMAIN Idle = Fields /\ Idle.step = "idle"
        /\ \A i \in Invoice : ~(Idle.inv = i \/ Idle.owed[i] > 0)
    BY WorkIsFresh, NoneIsNone DEF Idle
  <1>2. tx'[w] = Idle
    BY DEF IInv, Shapes, Turn
  <1> QED
    BY <1>1, <1>2 DEF KnowsRow, Excused, AboutOne, Step, Holds

\* A step within a transaction about one invoice: it keeps the invoice in hand.
LEMMA GoesOn ==
    ASSUME IInv, NEW w \in Worker, tx[w].step \in AboutOne \ {"raising"},
           NEW t, Turn(w, t), DOMAIN t = Fields, UNCHANGED invoice,
           raced \subseteq raced', burnt \subseteq burnt',
           t.step \in AboutOne \ {"raising", "summing"}, t.inv = tx[w].inv,
           \A i \in Invoice : t.owed[i] > 0 => tx[w].owed[i] > 0
    PROVE  IInv'
  <1>1. tx'[w] = t
    BY DEF IInv, Shapes, Turn
  <1>2. \A i \in Invoice : (t.inv = i \/ t.owed[i] > 0) => Holds(w, i)
    BY DEF Holds
  <1>3. KnowsRow(w)'
    BY <1>1, <1>2 DEF IInv, KnowsRow, Holds, AboutOne
  <1>4. Excused(w)'
    BY <1>1 DEF IInv, KnowsRow, Excused, AboutOne
  <1>5. \A v \in Worker \ {w}, i \in Invoice :
            (t.inv = i \/ t.owed[i] > 0) /\ Holds(v, i) => i \in raced'
    BY <1>2 DEF IInv, Shared
  <1> QED
    BY <1>1, <1>3, <1>4, <1>5, ReadHolds

\* A transaction that begins with one invoice in hand that exists.
LEMMA BeginsOne ==
    ASSUME IInv, NEW w \in Worker, NEW t, Turn(w, t), DOMAIN t = Fields, UNCHANGED invoice,
           burnt \subseteq burnt', NEW S, NEW p, Takes(S, w, p), t.inv \in S,
           t.step \in AboutOne \ {"raising", "summing"}, t.inv \in Invoice,
           invoice[t.inv].status # "none",
           invoice[t.inv].status \in Closed => t.inv \in burnt',
           \A i \in Invoice : ~(t.owed[i] > 0)
    PROVE  IInv'
  <1>1. tx'[w] = t
    BY DEF IInv, Shapes, Turn
  <1>2. KnowsRow(w)'
    BY <1>1 DEF KnowsRow, Holds, AboutOne
  <1>3. Excused(w)'
    BY <1>1 DEF Excused, AboutOne
  <1>4. /\ raced \subseteq raced'
        /\ \A v \in Worker \ {w}, i \in Invoice :
            (t.inv = i \/ t.owed[i] > 0) /\ Holds(v, i) => i \in raced'
    BY Noticed
  <1> QED
    BY <1>1, <1>2, <1>3, <1>4, ReadHolds

\* A transaction that begins with what is owed on some invoices.
LEMMA BeginsMany ==
    ASSUME IInv, NEW w \in Worker, NEW t, Turn(w, t), DOMAIN t = Fields,
           UNCHANGED <<invoice, burnt>>, NEW S, NEW p, Takes(S, w, p),
           t.step \in {"claiming", "writing off"}, t.inv = None,
           \A i \in Invoice : t.owed[i] > 0 => i \in S /\ invoice[i].status \in Open
    PROVE  IInv'
  <1>1. tx'[w] = t
    BY DEF IInv, Shapes, Turn
  <1>2. KnowsRow(w)'
    BY <1>1, NoneIsNone DEF KnowsRow, Holds, AboutOne, Step, Open
  <1>3. Excused(w)'
    BY <1>1 DEF Excused, AboutOne, Open, Closed
  <1>4. /\ raced \subseteq raced'
        /\ \A v \in Worker \ {w}, i \in Invoice :
            (t.inv = i \/ t.owed[i] > 0) /\ Holds(v, i) => i \in raced'
    BY Noticed, NoneIsNone
  <1> QED
    BY <1>1, <1>2, <1>3, <1>4, ReadHolds

\* Only an open invoice is claimed for something.
LEMMA ClaimsAreOpen ==
    ASSUME NEW S, NEW i \in Invoice, Claims(S)[i] > 0
    PROVE  i \in S /\ invoice[i].status \in Open
  BY DEF Claims, Owed
-----------------------------------------------------------------------------
(* The steps that read *)

\* What a pass or staff read of credit begins or goes on with one invoice.
LEMMA ReadForRaiseHolds == ASSUME IInv, NEW w \in Worker, NEW i \in Invoice, ReadForRaise(w, i)
                           PROVE  IInv'
  <1> DEFINE t == [Work("raising") EXCEPT !.inv = i, !.take = Taken(Total[i])]
  <1>1. /\ Turn(w, t) /\ UNCHANGED <<invoice, burnt>>
        /\ CounterFree /\ invoice[i].status = "none"
    BY DEF ReadForRaise, books
  <1>2. /\ DOMAIN t = Fields /\ t.step = "raising" /\ t.inv = i
        /\ \A j \in Invoice : ~(t.owed[j] > 0)
    BY WorkIsFresh DEF Fields
  <1> HIDE DEF t
  <1>3. raced \subseteq raced'
    BY DEF ReadForRaise, Takes
  <1>4. tx'[w] = t
    BY <1>1 DEF IInv, Shapes, Turn
  <1>5. KnowsRow(w)' /\ Excused(w)'
    BY <1>1, <1>2, <1>4 DEF KnowsRow, Excused, Holds, AboutOne, Step, Closed
  <1>6. \A v \in Worker : tx[v].step # "raising"
    BY <1>1 DEF CounterFree
  <1>7. \A v \in Worker \ {w}, j \in Invoice :
            (t.inv = j \/ t.owed[j] > 0) /\ Holds(v, j) => j \in raced'
    BY <1>1, <1>2, <1>6 DEF IInv, KnowsRow
  <1> QED
    BY <1>1, <1>2, <1>3, <1>5, <1>6, <1>7, ReadHolds

\* applyCreditToInvoice by staff: what it reads is noticed, and a closed invoice burnt.
LEMMA StaffCreditHolds == ASSUME IInv, NEW w \in Worker, NEW i \in Invoice, StaffCredit(w, i)
                          PROVE  IInv'
  <1> DEFINE b == [Work("spending") EXCEPT !.inv = i]
             take == Taken(Less(Total[i], invoice[i].paid))
             t == [b EXCEPT !.step = "spending", !.take = take,
                            !.had = [p \in Payment |-> alloc[p][i]]]
             S == {i} \cup {p \in Payment : take[p] > 0}
  <1>1. /\ DOMAIN b = Fields /\ b.date = None
        /\ DOMAIN t = Fields /\ t.step = "spending" /\ t.inv = i
        /\ \A j \in Invoice : ~(t.owed[j] > 0)
    BY WorkIsFresh DEF Fields
  <1>2. /\ UNCHANGED invoice /\ burnt \subseteq burnt' /\ Takes(S, w, None) /\ i \in S
        /\ invoice[i].status # "none" /\ (invoice[i].status \in Closed => i \in burnt')
    BY DEF StaffCredit, ReadCredit, books
  <1>3. Turn(w, Idle) \/ Turn(w, t)
    BY <1>1 DEF StaffCredit, ReadCredit
  <1> HIDE DEF t, S, b
  <1>4. CASE Turn(w, t)
    BY <1>1, <1>2, <1>4, BeginsOne DEF AboutOne, Step
  <1>5. CASE Turn(w, Idle)
    BY <1>2, <1>5, IdleHolds, ReadHolds DEF Takes
  <1> QED
    BY <1>3, <1>4, <1>5

\* waiveFeeInvoice before its transaction: the same.
LEMMA ReadForWaiverHolds == ASSUME IInv, NEW w \in Worker, NEW i \in Invoice, ReadForWaiver(w, i)
                            PROVE  IInv'
  <1> DEFINE t == [Work("waiving") EXCEPT !.inv = i, !.amount = Less(Total[i], invoice[i].paid)]
  <1>1. /\ DOMAIN t = Fields /\ t.step = "waiving" /\ t.inv = i
        /\ \A j \in Invoice : ~(t.owed[j] > 0)
    BY WorkIsFresh DEF Fields
  <1>2. /\ Turn(w, t) /\ UNCHANGED invoice /\ burnt \subseteq burnt' /\ Takes({i}, w, None)
        /\ invoice[i].status # "none" /\ (invoice[i].status \in Closed => i \in burnt')
    BY DEF ReadForWaiver, books
  <1> HIDE DEF t
  <1> QED
    BY <1>1, <1>2, BeginsOne DEF AboutOne, Step

\* An autopay pass lists only invoices that are open.
LEMMA ListHolds == ASSUME IInv, NEW w \in Worker, NEW i \in Invoice, NEW d \in Date, List(w, i, d)
                   PROVE  IInv'
  <1> DEFINE t == [Work("listed") EXCEPT !.inv = i, !.date = d, !.amount = invoice[i].paid]
  <1>1. /\ DOMAIN t = Fields /\ t.step = "listed" /\ t.inv = i
        /\ \A j \in Invoice : ~(t.owed[j] > 0)
    BY WorkIsFresh DEF Fields
  <1>2. /\ Turn(w, t) /\ UNCHANGED <<invoice, burnt>> /\ Takes({i}, w, None)
        /\ invoice[i].status \in Open
    BY DEF List, books
  <1> HIDE DEF t
  <1> QED
    BY <1>1, <1>2, BeginsOne DEF AboutOne, Step, Open, Closed

\* A payment at the counter claims only invoices that are open.
LEMMA TakePaymentHolds ==
    ASSUME IInv, NEW w \in Worker, NEW l \in Lease, NEW amount \in Amounts, NEW directed \in BOOLEAN,
           TakePayment(w, l, amount, directed)
    PROVE  IInv'
  <1> DEFINE owed == Claims({i \in Invoice : directed => LeaseOf[i] = l})
             S == {i \in Invoice : owed[i] > 0}
             t(p) == [Work("claiming") EXCEPT !.pay = p, !.lease = l, !.amount = amount, !.owed = owed]
  <1>1. PICK p \in Payment : Turn(w, t(p)) /\ UNCHANGED <<invoice, burnt>> /\ Takes(S, w, p)
    BY DEF TakePayment, books
  <1>2. /\ DOMAIN t(p) = Fields /\ t(p).step = "claiming" /\ t(p).inv = None /\ t(p).owed = owed
    BY WorkIsFresh DEF Fields
  <1>3. \A i \in Invoice : owed[i] > 0 => i \in S /\ invoice[i].status \in Open
    BY ClaimsAreOpen
  <1> DEFINE u == t(p)
  <1> HIDE DEF owed, S
  <1>4. Turn(w, u) /\ DOMAIN u = Fields /\ u.step = "claiming" /\ u.inv = None /\ u.owed = owed
    BY <1>1, <1>2
  <1> HIDE DEF u
  <1> QED
    BY <1>1, <1>3, <1>4, BeginsMany

\* A charge that settles claims only invoices that are open.
LEMMA SettleChargeHolds == ASSUME IInv, NEW w \in Worker, NEW p \in Payment, SettleCharge(w, p)
                           PROVE  IInv'
  <1> DEFINE named == payment[p].named
             owed == Claims(IF Owed(named) > 0 THEN {named} ELSE Invoice)
             S == {i \in Invoice : owed[i] > 0} \cup {named}
             t == [Work("claiming") EXCEPT !.pay = p, !.lease = LeaseOf[named],
                                           !.amount = payment[p].amount, !.owed = owed]
  <1>1. /\ Turn(w, t) /\ UNCHANGED <<invoice, burnt>> /\ Takes(S, w, p)
    BY DEF SettleCharge, books
  <1>2. DOMAIN t = Fields /\ t.step = "claiming" /\ t.inv = None /\ t.owed = owed
    BY WorkIsFresh DEF Fields
  <1>3. \A i \in Invoice : owed[i] > 0 => i \in S /\ invoice[i].status \in Open
    BY ClaimsAreOpen
  <1> HIDE DEF t, S, owed
  <1> QED
    BY <1>1, <1>2, <1>3, BeginsMany

\* A write-off begins with what is owed on open invoices.
LEMMA ReadForWriteOffHolds == ASSUME IInv, NEW w \in Worker, NEW l \in Lease, ReadForWriteOff(w, l)
                              PROVE  IInv'
  <1> DEFINE owed == Claims(InvoicesOf(l))
             S == {i \in Invoice : owed[i] > 0}
             t == [Work("writing off") EXCEPT !.lease = l, !.amount = Balance(l), !.owed = owed]
  <1>1. /\ Turn(w, t) /\ UNCHANGED <<invoice, burnt>> /\ Takes(S, w, None)
    BY DEF ReadForWriteOff, books
  <1>2. DOMAIN t = Fields /\ t.step = "writing off" /\ t.inv = None /\ t.owed = owed
    BY WorkIsFresh DEF Fields
  <1>3. \A i \in Invoice : owed[i] > 0 => i \in S /\ invoice[i].status \in Open
    BY ClaimsAreOpen
  <1> HIDE DEF t, S, owed
  <1> QED
    BY <1>1, <1>2, <1>3, BeginsMany
-----------------------------------------------------------------------------
(* The steps in the middle of a transaction *)

\* Where an autopay pass goes after its credit, and what it does then.
LEMMA SweepHolds == ASSUME IInv, NEW w \in Worker, Sweep(w) PROVE IInv'
  <1> DEFINE i == tx[w].inv
             take == Taken(Less(Total[i], invoice[i].paid))
             t == [tx[w] EXCEPT !.step = "spending", !.take = take,
                                !.had = [p \in Payment |-> alloc[p][i]]]
             c == [tx[w] EXCEPT !.step = "checking"]
  <1>1. tx[w].step \in AboutOne \ {"raising"} /\ DOMAIN tx[w] = Fields
    BY DEF Sweep, AboutOne, Step, IInv, Shapes
  <1>2. /\ UNCHANGED <<invoice, burnt>> /\ raced \subseteq raced'
        /\ Turn(w, Idle) \/ Turn(w, t) \/ Turn(w, c)
    BY DEF Sweep, ReadCredit, books, Takes
  <1>3. /\ DOMAIN t = Fields /\ t.step = "spending" /\ t.inv = tx[w].inv /\ t.owed = tx[w].owed
        /\ DOMAIN c = Fields /\ c.step = "checking" /\ c.inv = tx[w].inv /\ c.owed = tx[w].owed
    BY <1>1 DEF Fields
  <1> HIDE DEF t, c, i
  <1>4. CASE Turn(w, t)
    BY <1>1, <1>2, <1>3, <1>4, GoesOn DEF AboutOne, Step
  <1>5. CASE Turn(w, c)
    BY <1>1, <1>2, <1>3, <1>5, GoesOn DEF AboutOne, Step
  <1>6. CASE Turn(w, Idle)
    BY <1>2, <1>6, IdleHolds, ReadHolds
  <1> QED
    BY <1>2, <1>4, <1>5, <1>6

\* The sum that credit is about to write was not read of a void invoice.
LEMMA WriteCreditHolds == ASSUME IInv, NEW w \in Worker, WriteCredit(w) PROVE IInv'
  <1>1. tx[w].step = "spending" /\ DOMAIN tx[w] = Fields /\ tx[w].inv \in Invoice
    BY DEF WriteCredit, IInv, Shapes, KnowsRow, AboutOne, Step
  <1>2. UNCHANGED <<invoice, burnt, raced>>
    BY DEF WriteCredit, books
  <1>3. PICK sum : \/ Turn(w, Idle)
                   \/ Turn(w, [tx[w] EXCEPT !.step = "summing",
                                            !.amount = IF Spared(tx[w].inv) THEN 0 ELSE sum])
    BY DEF WriteCredit
  <1> DEFINE t == [tx[w] EXCEPT !.step = "summing",
                                !.amount = IF Spared(tx[w].inv) THEN 0 ELSE sum]
  <1>4. CASE Turn(w, Idle)
    BY <1>2, <1>4, IdleHolds, ReadHolds
  <1>5. CASE Turn(w, t)
    <2>1. /\ DOMAIN t = Fields /\ t.step = "summing" /\ t.inv = tx[w].inv /\ t.owed = tx[w].owed
          /\ t.amount # 0 => invoice[tx[w].inv].status # "void"
      BY <1>1 DEF Fields, Spared
    <2> HIDE DEF t
    <2>2. tx'[w] = t
      BY <1>5 DEF IInv, Shapes, Turn
    <2>3. KnowsRow(w)'
      BY <1>1, <1>2, <2>1, <2>2 DEF IInv, KnowsRow, Holds, AboutOne, Step
    <2>4. Excused(w)'
      BY <1>1, <1>2, <2>1, <2>2 DEF IInv, Excused, AboutOne, Step
    <2>5. \A v \in Worker \ {w}, i \in Invoice :
              (t.inv = i \/ t.owed[i] > 0) /\ Holds(v, i) => i \in raced'
      BY <1>2, <2>1 DEF IInv, Shared, Holds
    <2> QED
      BY <1>2, <1>5, <2>1, <2>3, <2>4, <2>5, ReadHolds
  <1> QED
    BY <1>3, <1>4, <1>5

\* The pass ends, or goes on to the charge with the invoice it is about.
LEMMA PassHolds ==
    ASSUME IInv, NEW w \in Worker,
           Skip(w) \/ Attempt(w) \/ CreateCharge(w) \/ AskAgain(w)
             \/ \E answer \in {"pending"} \cup Declined : Ask(w, answer)
    PROVE  IInv'
  <1>1. UNCHANGED <<invoice, raced, burnt>>
    BY DEF Skip, Attempt, CreateCharge, AskAgain, Ask, Answer, books
  <1>2. CASE Skip(w) \/ AskAgain(w) \/ \E answer \in {"pending"} \cup Declined : Ask(w, answer)
    <2>1. Turn(w, Idle)
      BY <1>2 DEF Skip, AskAgain, Ask, Answer
    <2> QED
      BY <1>1, <2>1, IdleHolds, ReadHolds
  <1>3. CASE Attempt(w)
    <2> DEFINE t == [tx[w] EXCEPT !.step = "charging"]
    <2>1. Turn(w, t) /\ tx[w].step \in AboutOne \ {"raising"} /\ DOMAIN tx[w] = Fields
      BY <1>3 DEF Attempt, AboutOne, Step, IInv, Shapes
    <2>2. DOMAIN t = Fields /\ t.step = "charging" /\ t.inv = tx[w].inv /\ t.owed = tx[w].owed
      BY <2>1 DEF Fields
    <2> HIDE DEF t
    <2> QED
      BY <1>1, <2>1, <2>2, GoesOn DEF AboutOne, Step
  <1>4. CASE CreateCharge(w)
    <2>1. PICK p \in Payment : Turn(w, [tx[w] EXCEPT !.step = "asking", !.pay = p])
      BY <1>4 DEF CreateCharge
    <2> DEFINE t == [tx[w] EXCEPT !.step = "asking", !.pay = p]
    <2>2. Turn(w, t) /\ tx[w].step \in AboutOne \ {"raising"} /\ DOMAIN tx[w] = Fields
      BY <1>4, <2>1 DEF CreateCharge, AboutOne, Step, IInv, Shapes
    <2>3. DOMAIN t = Fields /\ t.step = "asking" /\ t.inv = tx[w].inv /\ t.owed = tx[w].owed
      BY <2>2 DEF Fields
    <2> HIDE DEF t
    <2> QED
      BY <1>1, <2>2, <2>3, GoesOn DEF AboutOne, Step
  <1> QED
    BY <1>2, <1>3, <1>4
-----------------------------------------------------------------------------
(* The steps that write invoices *)

\* What another worker's invoices may become: none is closed that it holds,
\* unless the one that closes it holds it too.
LEMMA WrittenUndisturbed ==
    ASSUME IInv, NEW w \in Worker, NEW v \in Worker \ {w}, raced \subseteq raced',
           \A i \in Invoice :
               \/ invoice'[i].status = invoice[i].status
               \/ invoice'[i].status \notin Closed \cup {"none"} /\ invoice[i].status # "none"
               \/ /\ invoice'[i].status # "none" /\ Holds(w, i)
                  /\ tx[w].step # "raising" \/ invoice'[i].status \notin Closed
    PROVE  Undisturbed(v)
  <1> SUFFICES ASSUME NEW i \in Invoice, invoice'[i].status # invoice[i].status
               PROVE  /\ invoice'[i].status # "none"
                      /\ invoice[i].status = "none" => tx[v].step # "raising" \/ tx[v].inv # i
                      /\ invoice'[i].status \in Closed /\ Holds(v, i) /\ tx[v].step # "claiming"
                         => i \in raced'
    BY DEF Undisturbed
  <1>1. Holds(v, i) /\ Holds(w, i) => i \in raced'
    BY DEF IInv, Shared
  <1>2. invoice[i].status = "none" /\ Holds(w, i) => tx[w].step = "raising"
    BY DEF IInv, KnowsRow
  <1>3. tx[w].step = "raising" => tx[v].step # "raising"
    BY DEF IInv, OneRaises
  <1> QED
    BY <1>1, <1>2, <1>3

\* A row that is computed again is neither closed nor gone.
LEMMA RecomputedIsLive ==
    ASSUME NEW i, NEW sum
    PROVE  /\ DOMAIN Recomputed(i, sum) = {"status", "paid"}
           /\ Recomputed(i, sum).status \notin Closed \cup {"none"}
  BY DEF Recomputed, Closed

\* A step that ends a transaction and disturbs nobody.
LEMMA EndsHolds ==
    ASSUME IInv, NEW w \in Worker, Turn(w, Idle), Shapes', raced \subseteq raced', burnt \subseteq burnt',
           \A v \in Worker \ {w} : Undisturbed(v)
    PROVE  IInv'
  BY IdleHolds, TurnHolds

\* A step of nobody's transaction that disturbs nobody.
LEMMA NobodysHolds ==
    ASSUME IInv, UNCHANGED tx, Shapes', raced \subseteq raced', burnt \subseteq burnt',
           \A v \in Worker : Undisturbed(v)
    PROVE  IInv'
  <1>1. \A v \in Worker : KnowsRow(v)' /\ Excused(v)'
    BY RestHolds
  <1>2. Shared' /\ OneRaises'
    BY DEF IInv, Shared, OneRaises, Holds
  <1> QED
    BY <1>1, <1>2 DEF IInv

\* What is raised did not exist, and nobody else was raising it.
LEMMA CommitRaiseHolds == ASSUME IInv, NEW w \in Worker, CommitRaise(w) PROVE IInv'
  <1> DEFINE i == tx[w].inv
  <1>1. PICK sum : invoice' = [invoice EXCEPT ![i] = Recomputed(i, sum)]
    BY DEF CommitRaise
  <1>2. /\ Turn(w, Idle) /\ UNCHANGED <<raced, burnt>> /\ Holds(w, i)
        /\ tx[w].step = "raising" /\ i \in Invoice
    BY DEF CommitRaise, Holds, IInv, KnowsRow, AboutOne, Step
  <1>3. Shapes'
    BY <1>1, <1>2, RecomputedIsLive, IdleHolds DEF IInv, Shapes, Turn
  <1>4. \A j \in Invoice : \/ invoice'[j].status = invoice[j].status
                           \/ j = i /\ invoice'[j].status \notin Closed \cup {"none"}
    BY <1>1, <1>2, RecomputedIsLive DEF IInv, Shapes
  <1> HIDE DEF i
  <1>5. \A v \in Worker \ {w} : Undisturbed(v)
    BY <1>2, <1>4, WrittenUndisturbed
  <1> QED
    BY <1>2, <1>3, <1>5, EndsHolds

\* The blind write of recomputeInvoices closes nothing.
LEMMA CommitCreditHolds == ASSUME IInv, NEW w \in Worker, CommitCredit(w) PROVE IInv'
  <1> DEFINE i == tx[w].inv
             now == IF tx[w].amount = 0 THEN invoice[i] ELSE Recomputed(i, tx[w].amount)
             t == [Work("checking") EXCEPT !.inv = i, !.date = tx[w].date, !.amount = now.paid]
  <1>1. /\ invoice' = [invoice EXCEPT ![i] = now] /\ UNCHANGED <<raced, burnt>> /\ Holds(w, i)
        /\ Turn(w, Idle) \/ Turn(w, t)
        /\ tx[w].step = "summing" /\ i \in Invoice
    BY DEF CommitCredit, Holds, IInv, KnowsRow, AboutOne, Step
  <1>2. /\ DOMAIN t = Fields /\ t.step = "checking" /\ t.inv = i
        /\ \A j \in Invoice : ~(t.owed[j] > 0)
    BY WorkIsFresh DEF Fields
  <1>3. /\ DOMAIN now = {"status", "paid"}
        /\ \/ now.status = invoice[i].status
           \/ now.status \notin Closed \cup {"none"}
    BY <1>1, RecomputedIsLive DEF IInv, Shapes
  <1>4. invoice[i].status # "none"
    BY <1>1 DEF IInv, KnowsRow
  <1> HIDE DEF t, now, i
  <1>5. Shapes'
    BY <1>1, <1>2, <1>3, IdleHolds DEF IInv, Shapes, Turn
  <1>6. invoice'[i] = now /\ \A j \in Invoice \ {i} : invoice'[j] = invoice[j]
    BY <1>1 DEF IInv, Shapes
  <1>7. \A v \in Worker \ {w} : Undisturbed(v)
    BY <1>1, <1>3, <1>4, <1>6, WrittenUndisturbed
  <1>8. CASE Turn(w, Idle)
    BY <1>1, <1>5, <1>7, <1>8, EndsHolds
  <1>9. CASE Turn(w, t)
    <2>1. tx'[w] = t
      BY <1>9 DEF IInv, Shapes, Turn
    <2>2. KnowsRow(w)'
      BY <1>1, <1>2, <1>3, <1>4, <1>6, <2>1 DEF KnowsRow, Holds, AboutOne, Step
    <2>3. Excused(w)'
      BY <1>1, <1>2, <1>3, <1>6, <2>1 DEF i, IInv, Excused, AboutOne, Step, Closed
    <2>4. \A v \in Worker \ {w}, j \in Invoice :
              (t.inv = j \/ t.owed[j] > 0) /\ Holds(v, j) => j \in raced'
      BY <1>1, <1>2 DEF IInv, Shared
    <2> QED
      BY <1>1, <1>2, <1>5, <1>7, <1>9, <2>2, <2>3, <2>4, TurnHolds
  <1> QED
    BY <1>1, <1>8, <1>9

\* A payment touches only invoices that its lock found open.
LEMMA PaymentTouchesOpen ==
    ASSUME IInv, NEW w \in Worker, CommitPayment(w)
    PROVE  /\ DOMAIN invoice' = Invoice
           /\ \A i \in Invoice :
                \/ invoice'[i] = invoice[i]
                \/ /\ invoice[i].status \in Open
                   /\ DOMAIN invoice'[i] = {"status", "paid"}
                   /\ invoice'[i].status \notin Closed \cup {"none"}
  <1> DEFINE owed == StillOpen(w)
             lines == [i \in Invoice |-> Line(owed, tx[w].amount, i)]
             paid == {i \in Invoice : owed[i] > 0 /\ lines[i] > 0}
             sum(i) == lines[i] + SumOf(RowsOf(i), Succeeded \ {tx[w].pay})
  <1>1. invoice' = [i \in Invoice |-> IF i \in paid /\ ~Spared(i)
                                      THEN Recomputed(i, sum(i)) ELSE invoice[i]]
    BY DEF CommitPayment
  <1>2. \A i \in Invoice : i \in paid => invoice[i].status \in Open
    BY DEF StillOpen
  <1> HIDE DEF paid, sum
  <1> QED
    BY <1>1, <1>2, RecomputedIsLive

\* A payment closes nothing: it turns open invoices into live ones.
LEMMA CommitPaymentHolds == ASSUME IInv, NEW w \in Worker, CommitPayment(w) PROVE IInv'
  <1>1. Turn(w, Idle) /\ UNCHANGED <<raced, burnt>>
    BY DEF CommitPayment
  <1>2. Shapes'
    BY <1>1, PaymentTouchesOpen, IdleHolds DEF IInv, Shapes, Turn
  <1>3. \A v \in Worker \ {w} : Undisturbed(v)
    BY <1>1, PaymentTouchesOpen, WrittenUndisturbed DEF Open
  <1> QED
    BY <1>1, <1>2, <1>3, EndsHolds

\* A fee is raised while nobody raises rent: the counter's row is free.
LEMMA RaiseFeeHolds == ASSUME IInv, NEW i \in Invoice, RaiseFee(i) PROVE IInv'
  <1>1. /\ UNCHANGED <<tx, raced, burnt>> /\ \A v \in Worker : tx[v].step # "raising"
        /\ invoice' = [invoice EXCEPT ![i] = [status |-> "open", paid |-> 0]]
    BY DEF RaiseFee, Raise, CounterFree
  <1>2. Shapes'
    BY <1>1 DEF IInv, Shapes
  <1>3. \A v \in Worker : Undisturbed(v)
    BY <1>1 DEF IInv, Shapes, Undisturbed, Closed
  <1> QED
    BY <1>1, <1>2, <1>3, NobodysHolds

\* What is voided while somebody has it in hand has raced.
LEMMA VoidInvoiceHolds == ASSUME IInv, NEW i \in Invoice, VoidInvoice(i) PROVE IInv'
  <1>1. /\ UNCHANGED <<tx, burnt>> /\ raced \subseteq raced' /\ invoice[i].status # "none"
        /\ invoice' = [invoice EXCEPT ![i].status = "void"]
    BY DEF VoidInvoice
  <1>2. Shapes'
    BY <1>1 DEF IInv, Shapes
  <1>3. ASSUME NEW v \in Worker, Holds(v, i), tx[v].step # "claiming" PROVE i \in raced'
    <2>1. i \in InHand(v)
      BY <1>3, NoneIsNone DEF Holds, InHand
    <2> QED
      BY <1>3, <2>1 DEF VoidInvoice
  <1>4. \A v \in Worker : Undisturbed(v)
    BY <1>1, <1>3 DEF IInv, Shapes, Undisturbed
  <1> QED
    BY <1>1, <1>2, <1>4, NobodysHolds

\* Who else holds the waived fee's invoice has raced.
LEMMA CommitWaiverHolds == ASSUME IInv, NEW w \in Worker, CommitWaiver(w) PROVE IInv'
  <1> DEFINE i == tx[w].inv
  <1>1. /\ Turn(w, Idle) /\ UNCHANGED <<raced, burnt>> /\ Holds(w, i)
        /\ tx[w].step = "waiving" /\ i \in Invoice
        /\ invoice' = [invoice EXCEPT ![i].status = "void"]
    BY DEF CommitWaiver, Holds, IInv, KnowsRow, AboutOne, Step
  <1>2. Shapes'
    BY <1>1, IdleHolds DEF IInv, Shapes, Turn
  <1>3. invoice'[i].status = "void" /\ \A j \in Invoice \ {i} : invoice'[j] = invoice[j]
    BY <1>1 DEF IInv, Shapes
  <1> HIDE DEF i
  <1>4. \A v \in Worker \ {w} : Undisturbed(v)
    BY <1>1, <1>3, WrittenUndisturbed
  <1> QED
    BY <1>1, <1>2, <1>4, EndsHolds

\* A write-off closes only what was owed when it looked.
LEMMA WriteOffClosesOwed ==
    ASSUME IInv, NEW w \in Worker, CommitWriteOff(w)
    PROVE  /\ DOMAIN invoice' = Invoice
           /\ \A i \in Invoice :
                \/ invoice'[i] = invoice[i]
                \/ /\ tx[w].owed[i] > 0
                   /\ DOMAIN invoice'[i] = {"status", "paid"}
                   /\ invoice'[i].status = "uncollectible"
  <1> DEFINE left == Remaining(tx[w].owed, tx[w].amount)
             covered == {i \in Invoice : tx[w].owed[i] > 0 /\ tx[w].owed[i] <= left[i - 1]}
  <1>1. invoice' = [i \in Invoice |-> IF i \in covered
                                      THEN [invoice[i] EXCEPT !.status = "uncollectible"]
                                      ELSE invoice[i]]
    BY DEF CommitWriteOff
  <1>2. \A i \in covered : tx[w].owed[i] > 0
    OBVIOUS
  <1> HIDE DEF covered
  <1> QED
    BY <1>1, <1>2 DEF IInv, Shapes

\* Who else holds a written-off invoice has raced.
LEMMA CommitWriteOffHolds == ASSUME IInv, NEW w \in Worker, CommitWriteOff(w) PROVE IInv'
  <1>1. Turn(w, Idle) /\ UNCHANGED <<raced, burnt>> /\ tx[w].step = "writing off"
    BY DEF CommitWriteOff
  <1>2. Shapes'
    BY <1>1, WriteOffClosesOwed, IdleHolds DEF IInv, Shapes, Turn
  <1>3. \A v \in Worker \ {w} : Undisturbed(v)
    BY <1>1, WriteOffClosesOwed, WrittenUndisturbed DEF Holds
  <1> QED
    BY <1>1, <1>2, <1>3, EndsHolds

\* Stripe forgets; the books do not.
LEMMA ForgetHolds == ASSUME IInv, NEW i, NEW d, Forget(i, d) PROVE IInv'
  <1>1. UNCHANGED <<invoice, tx, raced, burnt>>
    BY DEF Forget, books
  <1>2. Shapes' /\ \A v \in Worker : Undisturbed(v)
    BY <1>1 DEF IInv, Shapes, Undisturbed
  <1> QED
    BY <1>1, <1>2, NobodysHolds
-----------------------------------------------------------------------------
\* Every step of the ledger keeps the invariant.
LEMMA NextHolds == IInv /\ [Next]_vars => IInv'
  <1>1. ASSUME IInv, NEW w \in Worker, Begin(w) PROVE IInv'
    BY <1>1, ReadForRaiseHolds, StaffCreditHolds, ReadForWaiverHolds, ListHolds, TakePaymentHolds,
       SettleChargeHolds, ReadForWriteOffHolds DEF Begin
  <1>2. ASSUME IInv, NEW w \in Worker, Continue(w) PROVE IInv'
    BY <1>2, CommitRaiseHolds, WriteCreditHolds, CommitCreditHolds, CommitPaymentHolds,
       CommitWaiverHolds, CommitWriteOffHolds, SweepHolds, PassHolds DEF Continue
  <1>3. ASSUME IInv, UNCHANGED vars PROVE IInv'
    <2>1. UNCHANGED <<invoice, tx, raced, burnt>>
      BY <1>3 DEF vars, books
    <2>2. Shapes' /\ \A v \in Worker : Undisturbed(v)
      BY <1>3, <2>1 DEF IInv, Shapes, Undisturbed
    <2> QED
      BY <1>3, <2>1, <2>2, NobodysHolds
  <1> QED
    BY <1>1, <1>2, <1>3, RaiseFeeHolds, VoidInvoiceHolds, ForgetHolds DEF Next

\* The strengthened invariant of the ledger is inductive.
THEOREM InvariantHolds == Spec => []IInv
  <1> QED
    BY InitHolds, NextHolds, PTL DEF Spec
-----------------------------------------------------------------------------
(* What was forgiven *)

Forgives(i) == /\ invoice[i].status \in Closed
               /\ invoice'[i].status # invoice[i].status
               /\ i \notin raced'
               => invoice[i].status = "uncollectible" /\ i \in burnt

\* A closed invoice that a transaction has in hand is burnt, if it did not race.
LEMMA InHandIsBurnt ==
    ASSUME IInv, NEW w \in Worker, tx[w].step \in AboutOne, UNCHANGED raced,
           \A j \in Invoice \ {tx[w].inv} : invoice'[j] = invoice[j],
           invoice[tx[w].inv].status = "void" /\ invoice'[tx[w].inv].status # "void"
               => tx[w].inv \in raced
    PROVE  \A i \in Invoice : Forgives(i)
  BY DEF IInv, KnowsRow, Excused, Forgives, Closed

\* The three writes about one invoice take back nothing that was forgiven.
LEMMA CommitsForgive ==
    ASSUME IInv, NEW w \in Worker, CommitRaise(w) \/ CommitCredit(w) \/ CommitWaiver(w)
    PROVE  \A i \in Invoice : Forgives(i)
  <1> DEFINE i == tx[w].inv
  <1>1. CASE CommitRaise(w)
    <2>1. tx[w].step = "raising" /\ i \in Invoice /\ invoice[i].status = "none"
      BY <1>1 DEF CommitRaise, IInv, KnowsRow, AboutOne, Step
    <2>2. PICK sum : invoice' = [invoice EXCEPT ![i] = Recomputed(i, sum)]
      BY <1>1 DEF CommitRaise
    <2>3. \A j \in Invoice \ {i} : invoice'[j] = invoice[j]
      BY <2>2 DEF IInv, Shapes
    <2> QED
      BY <2>1, <2>3 DEF Forgives, Closed
  <1>2. CASE CommitCredit(w)
    <2> DEFINE now == IF tx[w].amount = 0 THEN invoice[i] ELSE Recomputed(i, tx[w].amount)
    <2>1. /\ tx[w].step = "summing" /\ UNCHANGED raced
          /\ invoice' = [invoice EXCEPT ![i] = now]
      BY <1>2 DEF CommitCredit
    <2>2. i \in Invoice /\ tx[w].step \in AboutOne
      BY <2>1 DEF IInv, KnowsRow, AboutOne, Step
    <2>3. invoice'[i] = now /\ \A j \in Invoice \ {i} : invoice'[j] = invoice[j]
      BY <2>1, <2>2 DEF IInv, Shapes
    <2>4. invoice[i].status = "void" /\ now.status # "void" => i \in raced
      BY <2>1 DEF IInv, Excused
    <2> HIDE DEF now
    <2> QED
      BY <2>1, <2>2, <2>3, <2>4, InHandIsBurnt
  <1>3. CASE CommitWaiver(w)
    <2>1. /\ tx[w].step = "waiving" /\ UNCHANGED raced
          /\ invoice' = [invoice EXCEPT ![i].status = "void"]
      BY <1>3 DEF CommitWaiver
    <2>2. i \in Invoice /\ tx[w].step \in AboutOne
      BY <2>1 DEF IInv, KnowsRow, AboutOne, Step
    <2>3. invoice'[i].status = "void" /\ \A j \in Invoice \ {i} : invoice'[j] = invoice[j]
      BY <2>1, <2>2 DEF IInv, Shapes
    <2> QED
      BY <2>1, <2>2, <2>3, InHandIsBurnt
  <1> QED
    BY <1>1, <1>2, <1>3

\* No step takes back what was forgiven.
LEMMA StepsForgive == ASSUME IInv, Next PROVE \A i \in Invoice : Forgives(i)
  <1>1. ASSUME NEW w \in Worker, Begin(w) PROVE UNCHANGED invoice
    BY <1>1 DEF Begin, ReadForRaise, StaffCredit, ReadForWaiver, List, TakePayment, SettleCharge,
       ReadForWriteOff, books
  <1>2. ASSUME NEW w \in Worker, CommitPayment(w) PROVE \A i \in Invoice : Forgives(i)
    BY <1>2, PaymentTouchesOpen DEF Forgives, Open, Closed
  <1>3. ASSUME NEW w \in Worker, CommitWriteOff(w) PROVE \A i \in Invoice : Forgives(i)
    <2>1. tx[w].step = "writing off" /\ UNCHANGED raced
      BY <1>3 DEF CommitWriteOff
    <2> QED
      BY <1>3, <2>1, WriteOffClosesOwed DEF IInv, Excused, Forgives
  <1>4. ASSUME NEW w \in Worker,
               \/ WriteCredit(w) \/ Sweep(w) \/ Skip(w) \/ Attempt(w) \/ CreateCharge(w) \/ AskAgain(w)
               \/ \E answer \in {"pending"} \cup Declined : Ask(w, answer)
        PROVE  UNCHANGED invoice
    BY <1>4 DEF WriteCredit, Sweep, Skip, Attempt, CreateCharge, AskAgain, Ask, Answer, books
  <1>5. ASSUME NEW w \in Worker, Continue(w) PROVE \A i \in Invoice : Forgives(i)
    <2>1. UNCHANGED invoice => \A i \in Invoice : Forgives(i)
      BY DEF Forgives
    <2> QED
      BY <1>2, <1>3, <1>4, <1>5, <2>1, CommitsForgive DEF Continue
  <1>6. ASSUME NEW j \in Invoice, RaiseFee(j) \/ VoidInvoice(j) PROVE \A i \in Invoice : Forgives(i)
    <2>1. /\ invoice[j].status \notin Closed
          /\ \A i \in Invoice \ {j} : invoice'[i] = invoice[i]
      BY <1>6 DEF RaiseFee, Raise, VoidInvoice, IInv, Shapes, Closed
    <2> QED
      BY <2>1 DEF Forgives
  <1>7. ASSUME NEW j, NEW d, Forget(j, d) PROVE UNCHANGED invoice
    BY <1>7 DEF Forget, books
  <1>8. UNCHANGED invoice => \A i \in Invoice : Forgives(i)
    BY DEF Forgives
  <1> QED
    BY <1>1, <1>5, <1>6, <1>7, <1>8 DEF Next

\* A void invoice stays void and an uncollectible one is only left for a void or
\* for credit put on it, whatever payments, credits, passes and corrections run
\* beside it, unless one of them had it in hand.
THEOREM LedgerForgives == Spec => ForgivenStaysForgiven
  <1>1. IInv /\ [Next]_vars => [\A i \in Invoice : Forgives(i)]_vars
    BY StepsForgive
  <1>2. [\A i \in Invoice : Forgives(i)]_vars
        => [\A i \in Invoice : /\ invoice[i].status \in Closed
                               /\ invoice'[i].status # invoice[i].status
                               /\ i \notin raced'
                               => invoice[i].status = "uncollectible" /\ i \in burnt]_vars
    BY DEF Forgives
  <1> QED
    BY InvariantHolds, <1>1, <1>2, PTL DEF Spec, ForgivenStaysForgiven
-----------------------------------------------------------------------------
\* Of natural numbers, some smallest.
LEMMA LeastNumber ==
  ASSUME NEW B \in SUBSET Nat, B # {}
  PROVE  \E n \in B : \A m \in B : n <= m
  <1>1. PICK n \in B : \A m \in B : ~ (<<m, n>> \in OpToRel(<, Nat))
    BY NatLessThanWellFounded, WFMin
  <1>2. \A m \in B : m \in Nat /\ n \in Nat /\ ~ (m < n)
    BY <1>1 DEF OpToRel
  <1> QED
    BY <1>2

\* A finite set of natural numbers that is not empty has a largest.
LEMMA MaxIsLargest ==
  ASSUME NEW S \in SUBSET Nat, IsFiniteSet(S), S # {}
  PROVE  Max(S) \in S /\ \A y \in S : y <= Max(S)
  <1> DEFINE above(x) == {y \in S : y > x}
             C == {above(x) : x \in S}
  <1>1. IsFiniteSet(S) /\ C \in SUBSET SUBSET S
    OBVIOUS
  <1>2. PICK z \in S : TRUE
    OBVIOUS
  <1>3. above(z) \in C
    OBVIOUS
  <1>4. \A U : U \in C <=> \E x \in S : U = above(x)
    OBVIOUS
  <1> HIDE DEF C
  <1>5. C # {}
    BY <1>3
  <1> DEFINE least(B) == \E T \in B : \A U \in B : U \subseteq T => U = T
  <1>6. \A A, B : IsFiniteSet(A) /\ B \in SUBSET SUBSET A /\ B # {} => least(B)
    BY LeastSubset, SMT
  <1>61. least(C)
    <2> HIDE DEF least
    <2> QED
      BY <1>1, <1>5, <1>6
  <1>62. PICK T \in C : \A U \in C : U \subseteq T => U = T
    BY <1>61
  <1>7. PICK x \in S : T = above(x)
    BY <1>4, <1>62
  <1>8. ASSUME NEW y \in S, y > x PROVE FALSE
    <2>1. above(y) \in C
      BY <1>4
    <2>2. /\ \A k \in S : k > y => k > x
          /\ y > x /\ ~ (y > y)
      BY <1>8
    <2>3. above(y) \subseteq above(x) /\ y \in above(x) /\ y \notin above(y)
      BY <2>2
    <2> HIDE DEF above
    <2> QED
      BY <1>62, <1>7, <2>1, <2>3
  <1>9. \E m \in S : \A y \in S : m >= y
    BY <1>7, <1>8
  <1>10. Max(S) \in S /\ \A y \in S : Max(S) >= y
    BY <1>9 DEF Max
  <1> QED
    BY <1>10
-----------------------------------------------------------------------------
\* What is left of a balance after the invoices up to n, as an equation.
Leaves(owed, balance, last, left) ==
    left = [n \in 0 .. last |-> IF n = 0 THEN balance
                                ELSE IF n \in Invoice /\ owed[n] <= left[n - 1]
                                     THEN left[n - 1] - owed[n] ELSE left[n - 1]]

\* The equation has a solution.
LEMMA LeavesExist ==
  ASSUME NEW owed, NEW balance, NEW last \in Nat
  PROVE  \E left : Leaves(owed, balance, last, left)
  <1> DEFINE B == {n \in Nat : ~ \E left : Leaves(owed, balance, n, left)}
  <1> SUFFICES ASSUME B # {} PROVE FALSE
    OBVIOUS
  <1>1. B \in SUBSET Nat
    OBVIOUS
  <1> HIDE DEF B
  <1>2. PICK n \in B : \A m \in B : n <= m
    BY <1>1, LeastNumber
  <1>3. n \in Nat /\ ~ \E left : Leaves(owed, balance, n, left)
    BY DEF B
  <1>4. CASE n = 0
    <2> DEFINE left == [k \in 0 .. 0 |-> balance]
    <2>1. Leaves(owed, balance, 0, left)
      BY DEF Leaves
    <2> QED
      BY <1>3, <1>4, <2>1
  <1>5. CASE n # 0
    <2>1. n - 1 \in Nat /\ n - 1 \notin B
      BY <1>2, <1>3, <1>5
    <2>2. PICK old : Leaves(owed, balance, n - 1, old)
      BY <2>1 DEF B
    <2> DEFINE next(left, k) == IF k = 0 THEN balance
                                ELSE IF k \in Invoice /\ owed[k] <= left[k - 1]
                                     THEN left[k - 1] - owed[k] ELSE left[k - 1]
               new == [k \in 0 .. n |-> IF k < n THEN old[k] ELSE next(old, n)]
    <2>3. \A k \in 0 .. (n - 1) : old[k] = next(old, k) /\ new[k] = old[k]
      BY <1>3, <2>2 DEF Leaves
    <2>4. new[n] = next(old, n)
      BY <1>3
    <2>5. \A k \in 0 .. n : k # 0 => k - 1 \in 0 .. (n - 1)
      BY <1>3
    <2>6. \A k \in 0 .. n : new[k] = next(new, k)
      <3> HIDE DEF new
      <3> SUFFICES ASSUME NEW k \in 0 .. n PROVE new[k] = next(new, k)
        OBVIOUS
      <3>1. next(old, k) = next(new, k)
        BY <2>3, <2>5
      <3>2. k \in 0 .. (n - 1) \/ k = n
        BY <1>3
      <3> HIDE DEF next
      <3> QED
        BY <2>3, <2>4, <3>1, <3>2
    <2>7. new = [k \in 0 .. n |-> new[k]]
      OBVIOUS
    <2> HIDE DEF new
    <2>8. Leaves(owed, balance, n, new)
      BY <2>6, <2>7 DEF Leaves
    <2> QED
      BY <1>3, <2>8
  <1> QED
    BY <1>4, <1>5

\* Of a balance there is never less than nothing left.
LEMMA RemainingTyped ==
  ASSUME NEW owed \in [Invoice -> Nat], NEW balance \in Nat, Invoice # {}
  PROVE  /\ Max(Invoice) \in Invoice
         /\ \A n \in 0 .. Max(Invoice) : Remaining(owed, balance)[n] \in Nat
  <1> DEFINE last == Max(Invoice)
             left == Remaining(owed, balance)
  <1>1. last \in Invoice /\ last \in Nat
    BY InvoiceAssumption, MaxIsLargest
  <1>2. left = CHOOSE f : Leaves(owed, balance, last, f)
    BY DEF Remaining, Leaves
  <1> HIDE DEF left, last
  <1>3. Leaves(owed, balance, last, left)
    BY <1>1, <1>2, LeavesExist
  <1> DEFINE B == {n \in 0 .. last : left[n] \notin Nat}
  <1> SUFFICES ASSUME B # {} PROVE FALSE
    BY <1>1 DEF left, last
  <1>4. B \in SUBSET Nat
    BY <1>1
  <1> HIDE DEF B
  <1>5. PICK n \in B : \A m \in B : n <= m
    BY <1>4, LeastNumber
  <1>6. n \in 0 .. last /\ left[n] \notin Nat /\ n \in Nat
    BY <1>1 DEF B
  <1>7. n # 0
    BY <1>3, <1>6 DEF Leaves
  <1>8. n - 1 \in 0 .. last /\ n - 1 \notin B
    BY <1>1, <1>5, <1>6, <1>7
  <1>9. left[n - 1] \in Nat
    BY <1>8 DEF B
  <1>10. left[n] = IF n \in Invoice /\ owed[n] <= left[n - 1]
                   THEN left[n - 1] - owed[n] ELSE left[n - 1]
    BY <1>3, <1>6, <1>7 DEF Leaves
  <1>11. n \in Invoice => owed[n] \in Nat
    OBVIOUS
  <1> QED
    BY <1>6, <1>9, <1>10, <1>11
-----------------------------------------------------------------------------
(* The types of the variables *)

\* A transaction knows what its step is about; only debts are written off.
Points(t) ==
    /\ t.step \in {"claiming", "asking"} => t.pay \in Payment
    /\ t.step \in {"claiming", "writing off"} => t.lease \in Lease
    /\ t.step \in {"listed", "checking", "charging", "asking"} => t.date \in Date
    /\ t.step = "writing off" => Invoice # {}

\* A charge under way is for an invoice.
Named == \A p \in Payment : payment[p].status \in InFlight => payment[p].named \in Invoice

\* So is the charge that a worker is about to ask for.
AskNamed == \A w \in Worker : tx[w].step = "asking" => payment[tx[w].pay].named \in Invoice

Typed == TypeOK /\ Named /\ AskNamed /\ \A w \in Worker : Points(tx[w])

\* A transaction that begins is well formed.
LEMMA WorkTyped == ASSUME NEW step \in Step PROVE Work(step) \in Transaction
  <1>1. 0 \in Nat /\ None \in Invoice \cup {None} /\ None \in Payment \cup {None}
        /\ None \in Lease \cup {None} /\ None \in Date \cup {None}
    OBVIOUS
  <1> QED
    BY <1>1 DEF Work, Transaction

\* Minimum and difference are natural numbers.
LEMMA LessTyped == ASSUME NEW m \in Nat, NEW n \in Nat
                   PROVE  /\ Less(m, n) \in Nat /\ Least(m, n) \in Nat
                          /\ Less(m, n) <= m /\ Least(m, n) <= m /\ Least(m, n) <= n
  BY DEF Less, Least

\* A sum over some of the invoices.
LEMMA SumOfInvoices == ASSUME NEW S \in SUBSET Invoice, NEW f, \A i \in S : f[i] \in Nat
                       PROVE  IsFiniteSet(S) /\ SumOf(f, S) \in Nat
  <1>1. IsFiniteSet(S)
    BY InvoiceAssumption, FS_Subset
  <1> QED
    BY <1>1, SumNat DEF SumOf

\* A sum over some of the payments.
LEMMA SumOfPayments == ASSUME NEW S \in SUBSET Payment, NEW f, \A p \in S : f[p] \in Nat
                       PROVE  IsFiniteSet(S) /\ SumOf(f, S) \in Nat
  <1>1. IsFiniteSet(S)
    BY PaymentAssumption, FS_Subset
  <1> QED
    BY <1>1, SumNat DEF SumOf

\* What the tables say are natural numbers.
LEMMA SettledTyped == ASSUME TypeOK, NEW i \in Invoice, NEW S \in SUBSET Payment
                      PROVE  SumOf(RowsOf(i), S) \in Nat /\ Succeeded \in SUBSET Payment
  <1>1. \A p \in Payment : RowsOf(i)[p] \in Nat
    BY DEF TypeOK, RowsOf
  <1> QED
    BY <1>1, SumOfPayments DEF Succeeded

\* What is owed is never negative.
LEMMA OwedTyped == ASSUME TypeOK PROVE (\A i \in Invoice : Owed(i) \in Nat /\ Less(Total[i], invoice[i].paid) \in Nat)
                                       /\ \A S : Claims(S) \in [Invoice -> Nat]
  <1>1. \A i \in Invoice : Total[i] \in Nat /\ invoice[i].paid \in Nat
    BY InvoiceAssumption DEF TypeOK, InvoiceRow
  <1>2. \A i \in Invoice : Owed(i) \in Nat /\ Less(Total[i], invoice[i].paid) \in Nat
    BY <1>1, LessTyped DEF Owed
  <1> QED
    BY <1>2 DEF Claims

\* What is spent of a payment, and what is spare.
LEMMA SpareTyped == ASSUME TypeOK, NEW p \in Payment PROVE Spent(p) \in Nat /\ Spare(p) \in Nat
  <1>1. \A i \in Invoice : alloc[p][i] \in Nat
    BY DEF TypeOK
  <1>2. Spent(p) \in Nat
    BY <1>1, SumOfInvoices DEF Spent
  <1>3. payment[p].amount \in Nat
    BY DEF TypeOK, PaymentRow
  <1> QED
    BY <1>2, <1>3, LessTyped DEF Spare

\* What a room takes of the payments.
LEMMA TakenTyped == ASSUME TypeOK, NEW room \in Nat PROVE Taken(room) \in [Payment -> Nat]
  <1> DEFINE spare == [p \in Payment |-> Spare(p)]
             before(p) == {q \in Payment : q < p}
  <1>1. \A p \in Payment : spare[p] \in Nat
    BY SpareTyped
  <1>2. \A p \in Payment : SumOf(spare, before(p)) \in Nat
    <2> HIDE DEF spare
    <2> TAKE p \in Payment
    <2>1. before(p) \in SUBSET Payment
      OBVIOUS
    <2> HIDE DEF before
    <2> QED
      BY <1>1, <2>1, SumOfPayments
  <1>3. \A p \in Payment : Least(spare[p], Less(room, SumOf(spare, before(p)))) \in Nat
    <2> HIDE DEF spare, before
    <2> QED
      BY <1>1, <1>2, LessTyped
  <1>4. Taken(room) = [p \in Payment |-> Least(spare[p], Less(room, SumOf(spare, before(p))))]
    BY DEF Taken
  <1> QED
    BY <1>3, <1>4

\* A line of a payment.
LEMMA LineTyped == ASSUME NEW owed \in [Invoice -> Nat], NEW amount \in Nat, NEW i \in Invoice
                   PROVE  Line(owed, amount, i) \in Nat /\ Line(owed, amount, i) <= owed[i]
  <1> DEFINE before == {j \in Invoice : Ahead(j, i)}
  <1>1. SumOf(owed, before) \in Nat
    BY SumOfInvoices
  <1>2. owed[i] \in Nat
    OBVIOUS
  <1> HIDE DEF before
  <1>3. Least(owed[i], Less(amount, SumOf(owed, before))) \in Nat
        /\ Least(owed[i], Less(amount, SumOf(owed, before))) <= owed[i]
    BY <1>1, <1>2, LessTyped
  <1> QED
    BY <1>3 DEF Line, before

\* An entry of a payment.
LEMMA PostTyped == ASSUME NEW lines \in [Invoice -> Nat], NEW amount \in Nat, NEW anchor, NEW l
                   PROVE  Post(l, anchor, amount, lines) \in Nat
  <1>1. SumOf(lines, InvoicesOf(l)) \in Nat
    BY SumOfInvoices DEF InvoicesOf
  <1>2. Less(amount, SumOf(lines, Invoice)) \in Nat
    BY SumOfInvoices, LessTyped
  <1> QED
    BY <1>1, <1>2 DEF Post

\* A recompute writes a row.
LEMMA RecomputedTyped == ASSUME NEW i, NEW sum \in Nat PROVE Recomputed(i, sum) \in InvoiceRow
  BY DEF Recomputed, InvoiceRow, Open

\* Only a lease with invoices can owe anything.
LEMMA BalanceTyped == ASSUME TypeOK, NEW l \in Lease
                      PROVE  Balance(l) \in Int /\ (Balance(l) > 0 => Invoice # {})
  <1>1. \A i \in Invoice : Charged[i] \in Int
    BY InvoiceAssumption DEF Charged, TypeOK
  <1>2. InvoicesOf(l) \in SUBSET Invoice /\ IsFiniteSet(InvoicesOf(l))
    BY InvoiceAssumption, FS_Subset DEF InvoicesOf
  <1>3. SumOf(Charged, InvoicesOf(l)) \in Int
    BY <1>1, <1>2, SumInt DEF SumOf
  <1>4. \A p \in Payment : [q \in Payment |-> posted[q][l]][p] \in Nat
    BY DEF TypeOK
  <1>5. PostedOn(l) \in Nat
    BY <1>4, SumOfPayments DEF PostedOn
  <1>6. writtenOff[l] \in Nat
    BY DEF TypeOK
  <1>7. Invoice = {} => SumOf(Charged, InvoicesOf(l)) = 0
    BY <1>2, SumEmpty DEF SumOf
  <1> QED
    BY <1>3, <1>5, <1>6, <1>7 DEF Balance
-----------------------------------------------------------------------------
\* The transaction that has ended is well formed.
LEMMA IdleTyped == Idle \in Transaction /\ Points(Idle) /\ Idle.step = "idle"
  <1>1. Idle \in Transaction
    BY WorkTyped DEF Idle, Step
  <1>2. Idle.step = "idle"
    BY DEF Idle, Work
  <1> QED
    BY <1>1, <1>2 DEF Points

\* Nothing is written yet, and no invoice is late for anything.
LEMMA InitTyped == Init => Typed
  <1> SUFFICES ASSUME Init PROVE Typed
    OBVIOUS
  <1>1. Idle \in Transaction /\ Points(Idle)
    BY IdleTyped
  <1>2. tx \in [Worker -> Transaction] /\ \A w \in Worker : Points(tx[w]) /\ tx[w].step = "idle"
    <2>1. Idle.step = "idle"
      BY DEF Idle, Work
    <2> QED
      BY <1>1, <2>1 DEF Init
  <1>3. payment \in [Payment -> PaymentRow] /\ Named
    BY DEF Init, PaymentRow, Named, InFlight
  <1>4. /\ invoice \in [Invoice -> InvoiceRow] /\ alloc \in [Payment -> [Invoice -> Nat]]
        /\ posted \in [Payment -> [Lease -> Nat]] /\ forgiven \in [Invoice -> Nat]
        /\ writtenOff \in [Lease -> Nat]
        /\ asked \in [Invoice -> [Date -> Payment \cup {None}]]
    BY DEF Init, InvoiceRow
  <1>5. task \subseteq Invoice /\ raced \subseteq Invoice \cup Payment /\ crossed \subseteq Invoice
        /\ burnt \subseteq Invoice
    BY DEF Init
  <1> QED
    BY <1>2, <1>3, <1>4, <1>5 DEF Typed, TypeOK, AskNamed

\* One worker goes on to a transaction that is well formed.
LEMMA TurnTyped ==
    ASSUME Typed, NEW w \in Worker, NEW t \in Transaction, Points(t), Turn(w, t)
    PROVE  /\ tx' \in [Worker -> Transaction] /\ \A v \in Worker : Points(tx[v])'
           /\ tx'[w] = t /\ \A v \in Worker \ {w} : tx'[v] = tx[v]
  <1>1. tx \in [Worker -> Transaction] /\ tx' = [tx EXCEPT ![w] = t]
    BY DEF Typed, TypeOK, Turn
  <1>2. tx' \in [Worker -> Transaction] /\ tx'[w] = t /\ \A v \in Worker \ {w} : tx'[v] = tx[v]
    BY <1>1
  <1> QED
    BY <1>2 DEF Typed, Points

\* Nobody else's charge loses its name.
LEMMA NamesKept ==
    ASSUME Typed, NEW w \in Worker, NEW t \in Transaction, Points(t), Turn(w, t),
           t.step # "asking", \A p \in Payment : payment'[p].named = payment[p].named
    PROVE  AskNamed'
  <1> SUFFICES ASSUME NEW v \in Worker, tx'[v].step = "asking"
               PROVE  payment'[tx'[v].pay].named \in Invoice
    BY DEF AskNamed
  <1>1. tx'[v] = tx[v] /\ tx[v].pay \in Payment
    BY TurnTyped DEF Typed, Points
  <1> QED
    BY <1>1 DEF Typed, AskNamed

\* A step that only reads.
LEMMA ReadTyped ==
    ASSUME Typed, NEW w \in Worker, NEW t \in Transaction, Points(t), Turn(w, t), t.step # "asking",
           UNCHANGED <<books, asked>>, task' \subseteq Invoice,
           raced' \subseteq raced \cup Invoice \cup Payment,
           crossed' \subseteq Invoice, burnt' \subseteq Invoice
    PROVE  Typed'
  <1>1. tx' \in [Worker -> Transaction] /\ \A v \in Worker : Points(tx[v])'
    BY TurnTyped
  <1>2. UNCHANGED <<invoice, payment, alloc, posted, forgiven, writtenOff, asked>>
    BY DEF books
  <1>3. raced' \subseteq Invoice \cup Payment
    BY DEF Typed, TypeOK
  <1>4. AskNamed'
    BY <1>2, NamesKept
  <1> QED
    BY <1>1, <1>2, <1>3, <1>4 DEF Typed, TypeOK, Named

\* Taking rows in hand adds only those rows.
LEMMA TakesTyped == ASSUME NEW S \in SUBSET (Invoice \cup Payment), NEW w, NEW p, Takes(S, w, p)
                    PROVE  raced' \subseteq raced \cup Invoice \cup Payment
  BY DEF Takes

\* createInvoiceForPeriod reads the credit there is.
LEMMA ReadForRaiseTyped == ASSUME Typed, NEW w \in Worker, NEW i \in Invoice, ReadForRaise(w, i)
                           PROVE  Typed'
  <1> DEFINE take == Taken(Total[i])
             t == [Work("raising") EXCEPT !.inv = i, !.take = take]
             S == {p \in Payment : take[p] > 0}
  <1>1. take \in [Payment -> Nat]
    BY InvoiceAssumption, TakenTyped DEF Typed
  <1>2. Turn(w, t) /\ Takes(S, w, None) /\ UNCHANGED <<books, asked, task, crossed, burnt>>
    BY DEF ReadForRaise
  <1>3. S \in SUBSET (Invoice \cup Payment)
    OBVIOUS
  <1> HIDE DEF take, S
  <1>4. t \in Transaction /\ Points(t) /\ t.step # "asking"
    <2>1. Work("raising") \in Transaction
      BY WorkTyped DEF Step
    <2> QED
      BY <1>1, <2>1, WorkIsFresh DEF Transaction, Points
  <1> HIDE DEF t
  <1> QED
    BY <1>2, <1>3, <1>4, TakesTyped, ReadTyped DEF Typed, TypeOK

\* applyCreditToInvoice reads the credit there is for the room there is.
LEMMA ReadCreditTyped ==
    ASSUME Typed, NEW w \in Worker, NEW i \in Invoice, NEW t \in Transaction, t.inv = i,
           t.step \in {"spending", "listed"}, t.date \in Date \cup {None}, ReadCredit(w, i, t),
           UNCHANGED <<books, asked, task, crossed>>, burnt' \subseteq Invoice
    PROVE  Typed'
  <1> DEFINE room == Less(Total[i], invoice[i].paid)
             take == Taken(room)
             had == [p \in Payment |-> alloc[p][i]]
             used == {p \in Payment : take[p] > 0}
             c == [t EXCEPT !.step = "checking"]
             s == [t EXCEPT !.step = "spending", !.take = take, !.had = had]
  <1>1. take \in [Payment -> Nat]
    <2>1. room \in Nat
      BY OwedTyped DEF Typed
    <2> HIDE DEF room
    <2> QED
      BY <2>1, TakenTyped DEF Typed
  <1>2. had \in [Payment -> Nat]
    BY DEF Typed, TypeOK
  <1>3. Takes({i} \cup used, w, None)
    BY DEF ReadCredit
  <1>4. {i} \cup used \in SUBSET (Invoice \cup Payment)
    OBVIOUS
  <1>5. Turn(w, Idle) \/ (Turn(w, c) /\ t.date # None) \/ Turn(w, s)
    BY DEF ReadCredit
  <1> HIDE DEF take, used, had
  <1>6. raced' \subseteq raced \cup Invoice \cup Payment
    BY <1>3, <1>4, TakesTyped
  <1>7. s \in Transaction /\ Points(s) /\ s.step # "asking"
    BY <1>1, <1>2 DEF Transaction, Points, Step
  <1>8. t.date # None => c \in Transaction /\ Points(c) /\ c.step # "asking"
    BY DEF Transaction, Points, Step
  <1> HIDE DEF c, s
  <1>9. /\ UNCHANGED <<books, asked>> /\ task' \subseteq Invoice
        /\ crossed' \subseteq Invoice
    BY DEF Typed, TypeOK
  <1> QED
    BY <1>5, <1>6, <1>7, <1>8, <1>9, IdleTyped, ReadTyped

\* Staff put credit on an invoice.
LEMMA StaffCreditTyped == ASSUME Typed, NEW w \in Worker, NEW i \in Invoice, StaffCredit(w, i)
                          PROVE  Typed'
  <1> DEFINE t == [Work("spending") EXCEPT !.inv = i]
  <1>1. Work("spending") \in Transaction
    BY WorkTyped DEF Step
  <1>2. t \in Transaction /\ t.inv = i /\ t.step = "spending" /\ t.date \in Date \cup {None}
    BY <1>1, WorkIsFresh DEF Transaction
  <1> HIDE DEF t
  <1>3. ReadCredit(w, i, t) /\ UNCHANGED <<books, asked, task, crossed>>
    BY DEF StaffCredit, t
  <1>4. burnt' \subseteq Invoice
    BY DEF StaffCredit, Typed, TypeOK
  <1> QED
    BY <1>2, <1>3, <1>4, ReadCreditTyped

\* A pass sweeps credit before it charges.
LEMMA SweepTyped == ASSUME IInv, Typed, NEW w \in Worker, Sweep(w) PROVE Typed'
  <1> DEFINE t == tx[w]
  <1>1. t \in Transaction /\ t.step = "listed" /\ t.inv \in Invoice /\ t.date \in Date \cup {None}
    <2>1. t \in Transaction /\ t.step = "listed"
      BY DEF Typed, TypeOK, Sweep
    <2> QED
      BY <2>1 DEF Transaction, IInv, KnowsRow, AboutOne, Step
  <1>2. ReadCredit(w, t.inv, t) /\ UNCHANGED <<books, asked, task, crossed, burnt>>
    BY DEF Sweep
  <1> HIDE DEF t
  <1>3. burnt' \subseteq Invoice
    BY <1>2 DEF Typed, TypeOK
  <1> QED
    BY <1>1, <1>2, <1>3, ReadCreditTyped

\* waiveFeeInvoice reads what it will forgive.
LEMMA ReadForWaiverTyped == ASSUME Typed, NEW w \in Worker, NEW i \in Invoice, ReadForWaiver(w, i)
                            PROVE  Typed'
  <1> DEFINE owed == Less(Total[i], invoice[i].paid)
             t == [Work("waiving") EXCEPT !.inv = i, !.amount = owed]
  <1>1. owed \in Nat
    BY OwedTyped DEF Typed
  <1>2. /\ Turn(w, t) /\ Takes({i}, w, None) /\ UNCHANGED <<books, asked, task, crossed>>
        /\ burnt' \subseteq Invoice
    BY DEF ReadForWaiver, Typed, TypeOK
  <1> HIDE DEF owed
  <1>3. Work("waiving") \in Transaction
    BY WorkTyped DEF Step
  <1>4. t \in Transaction /\ Points(t) /\ t.step # "asking"
    BY <1>1, <1>3, WorkIsFresh DEF Transaction, Points
  <1> HIDE DEF t
  <1>5. raced' \subseteq raced \cup Invoice \cup Payment
    BY <1>2, TakesTyped
  <1> QED
    BY <1>2, <1>4, <1>5, ReadTyped DEF Typed, TypeOK

\* A pass lists the invoice with what is paid on it.
LEMMA ListTyped == ASSUME Typed, NEW w \in Worker, NEW i \in Invoice, NEW d \in Date, List(w, i, d)
                   PROVE  Typed'
  <1> DEFINE t == [Work("listed") EXCEPT !.inv = i, !.date = d, !.amount = invoice[i].paid]
  <1>1. invoice[i].paid \in Nat
    BY DEF Typed, TypeOK, InvoiceRow
  <1>2. Turn(w, t) /\ Takes({i}, w, None) /\ UNCHANGED <<books, asked, task, crossed, burnt>>
    BY DEF List
  <1>3. Work("listed") \in Transaction
    BY WorkTyped DEF Step
  <1>4. t \in Transaction /\ Points(t) /\ t.step # "asking"
    BY <1>1, <1>3, WorkIsFresh DEF Transaction, Points
  <1> HIDE DEF t
  <1>5. raced' \subseteq raced \cup Invoice \cup Payment
    BY <1>2, TakesTyped
  <1> QED
    BY <1>2, <1>4, <1>5, ReadTyped DEF Typed, TypeOK

\* A payment at the counter, and what it may pay.
LEMMA TakePaymentTyped ==
    ASSUME Typed, NEW w \in Worker, NEW l \in Lease, NEW amount \in Amounts, NEW directed \in BOOLEAN,
           TakePayment(w, l, amount, directed)
    PROVE  Typed'
  <1> DEFINE owed == Claims({i \in Invoice : directed => LeaseOf[i] = l})
             S == {i \in Invoice : owed[i] > 0}
             t(p) == [Work("claiming") EXCEPT !.pay = p, !.lease = l, !.amount = amount, !.owed = owed]
  <1>1. PICK p \in Payment : Turn(w, t(p)) /\ Takes(S, w, p)
    BY DEF TakePayment
  <1>2. UNCHANGED <<books, asked, task, crossed, burnt>>
    BY DEF TakePayment
  <1>3. owed \in [Invoice -> Nat] /\ amount \in Nat
    BY OwedTyped, PaymentAssumption DEF Typed
  <1>4. S \in SUBSET (Invoice \cup Payment)
    OBVIOUS
  <1> HIDE DEF owed, S
  <1>5. Work("claiming") \in Transaction
    BY WorkTyped DEF Step
  <1>6. t(p) \in Transaction /\ Points(t(p)) /\ t(p).step # "asking"
    BY <1>3, <1>5, WorkIsFresh DEF Transaction, Points
  <1> HIDE DEF t
  <1>7. raced' \subseteq raced \cup Invoice \cup Payment
    BY <1>1, <1>4, TakesTyped
  <1> QED
    BY <1>1, <1>2, <1>6, <1>7, ReadTyped DEF Typed, TypeOK

\* A charge that succeeded, and what it may pay.
LEMMA SettleChargeTyped == ASSUME Typed, NEW w \in Worker, NEW p \in Payment, SettleCharge(w, p)
                           PROVE  Typed'
  <1> DEFINE named == payment[p].named
             owed == Claims(IF Owed(named) > 0 THEN {named} ELSE Invoice)
             S == {i \in Invoice : owed[i] > 0} \cup {named}
             t == [Work("claiming") EXCEPT !.pay = p, !.lease = LeaseOf[named],
                                           !.amount = payment[p].amount, !.owed = owed]
  <1>1. /\ Turn(w, t) /\ Takes(S, w, p) /\ UNCHANGED <<books, asked, task, crossed, burnt>>
        /\ payment[p].status = "pending"
    BY DEF SettleCharge
  <1>2. named \in Invoice /\ LeaseOf[named] \in Lease
    BY <1>1, InvoiceAssumption DEF Typed, Named, InFlight
  <1>3. owed \in [Invoice -> Nat] /\ payment[p].amount \in Nat
    BY OwedTyped DEF Typed, TypeOK, PaymentRow
  <1>4. S \in SUBSET (Invoice \cup Payment)
    BY <1>2
  <1> HIDE DEF owed, S
  <1>5. Work("claiming") \in Transaction
    BY WorkTyped DEF Step
  <1>6. t \in Transaction /\ Points(t) /\ t.step # "asking"
    BY <1>2, <1>3, <1>5, WorkIsFresh DEF Transaction, Points
  <1> HIDE DEF t
  <1>7. raced' \subseteq raced \cup Invoice \cup Payment
    BY <1>1, <1>4, TakesTyped
  <1> QED
    BY <1>1, <1>6, <1>7, ReadTyped DEF Typed, TypeOK

\* A write-off reads the balance: only a lease with invoices has one to write off.
LEMMA ReadForWriteOffTyped == ASSUME Typed, NEW w \in Worker, NEW l \in Lease, ReadForWriteOff(w, l)
                              PROVE  Typed'
  <1> DEFINE owed == Claims(InvoicesOf(l))
             S == {i \in Invoice : owed[i] > 0}
             t == [Work("writing off") EXCEPT !.lease = l, !.amount = Balance(l), !.owed = owed]
  <1>1. /\ Turn(w, t) /\ Takes(S, w, None) /\ UNCHANGED <<books, asked, task, crossed, burnt>>
        /\ Balance(l) > 0
    BY DEF ReadForWriteOff
  <1>2. owed \in [Invoice -> Nat] /\ Balance(l) \in Nat /\ Invoice # {}
    BY <1>1, OwedTyped, BalanceTyped DEF Typed
  <1>3. S \in SUBSET (Invoice \cup Payment)
    OBVIOUS
  <1> HIDE DEF owed, S
  <1>4. Work("writing off") \in Transaction
    BY WorkTyped DEF Step
  <1>5. t \in Transaction /\ Points(t) /\ t.step # "asking"
    BY <1>2, <1>4, WorkIsFresh DEF Transaction, Points
  <1> HIDE DEF t
  <1>6. raced' \subseteq raced \cup Invoice \cup Payment
    BY <1>1, <1>3, TakesTyped
  <1> QED
    BY <1>1, <1>5, <1>6, ReadTyped DEF Typed, TypeOK
-----------------------------------------------------------------------------
\* What the transaction in hand is.
LEMMA InHandTyped ==
    ASSUME IInv, Typed, NEW w \in Worker
    PROVE  LET t == tx[w]
           IN /\ t.step \in Step /\ t.inv \in Invoice \cup {None} /\ t.pay \in Payment \cup {None}
              /\ t.lease \in Lease \cup {None} /\ t.date \in Date \cup {None} /\ t.amount \in Nat
              /\ t.owed \in [Invoice -> Nat] /\ t.had \in [Payment -> Nat]
              /\ t.take \in [Payment -> Nat] /\ t \in Transaction /\ Points(t)
              /\ t.step \in AboutOne => t.inv \in Invoice
  <1>1. tx[w] \in Transaction
    BY DEF Typed, TypeOK
  <1>2. Points(tx[w]) /\ (tx[w].step \in AboutOne => tx[w].inv \in Invoice)
    BY DEF Typed, IInv, KnowsRow
  <1> QED
    BY <1>1, <1>2 DEF Transaction

\* The invoice and its rows are written.
LEMMA CommitRaiseTyped == ASSUME IInv, Typed, NEW w \in Worker, CommitRaise(w) PROVE Typed'
  <1> DEFINE i == tx[w].inv
             take == tx[w].take
             sum == SumOf(take, Payment)
  <1>1. i \in Invoice /\ take \in [Payment -> Nat]
    BY InHandTyped DEF CommitRaise, AboutOne, Step
  <1>2. sum \in Nat
    BY <1>1, SumOfPayments
  <1>3. /\ alloc' = [p \in Payment |-> [alloc[p] EXCEPT ![i] = take[p]]]
        /\ invoice' = [invoice EXCEPT ![i] = Recomputed(i, sum)]
        /\ Turn(w, Idle)
        /\ UNCHANGED <<payment, posted, forgiven, writtenOff, asked, task, raced, burnt>>
    BY DEF CommitRaise
  <1>4. crossed' \subseteq Invoice
    <2>1. crossed' = crossed \/ crossed' = crossed \cup {i}
      BY DEF CommitRaise, Crosses
    <2> QED
      BY <1>1, <2>1 DEF Typed, TypeOK
  <1> HIDE DEF i, take, sum
  <1>5. invoice' \in [Invoice -> InvoiceRow]
    <2>1. Recomputed(i, sum) \in InvoiceRow
      BY <1>2, RecomputedTyped
    <2> QED
      BY <1>3, <2>1 DEF Typed, TypeOK
  <1>6. alloc' \in [Payment -> [Invoice -> Nat]]
    BY <1>1, <1>3 DEF Typed, TypeOK
  <1>7. tx' \in [Worker -> Transaction] /\ (\A v \in Worker : Points(tx[v])') /\ AskNamed'
    BY <1>3, IdleTyped, TurnTyped, NamesKept
  <1> QED
    BY <1>3, <1>4, <1>5, <1>6, <1>7 DEF Typed, TypeOK, Named, AskNamed

\* The rows credit writes, and what they come to.
LEMMA WriteCreditTyped == ASSUME IInv, Typed, NEW w \in Worker, WriteCredit(w) PROVE Typed'
  <1> DEFINE i == tx[w].inv
             used == {p \in Payment : tx[w].take[p] > 0}
             row(p) == IF p \in used THEN tx[w].had[p] + tx[w].take[p] ELSE alloc[p][i]
             rows == [p \in Payment |-> row(p)]
             sum == SumOf(rows, Succeeded)
             t == [tx[w] EXCEPT !.step = "summing", !.amount = IF Spared(i) THEN 0 ELSE sum]
  <1>1. i \in Invoice /\ tx[w].take \in [Payment -> Nat] /\ tx[w].had \in [Payment -> Nat]
        /\ tx[w] \in Transaction /\ tx[w].step = "spending"
    BY InHandTyped DEF WriteCredit, AboutOne, Step
  <1>2. \A p \in Payment : rows[p] \in Nat
    BY <1>1 DEF Typed, TypeOK
  <1>3. sum \in Nat
    <2> HIDE DEF rows
    <2>1. Succeeded \in SUBSET Payment
      BY DEF Succeeded
    <2> QED
      BY <1>2, <2>1, SumOfPayments
  <1>4. Turn(w, Idle) \/ Turn(w, t)
    BY DEF WriteCredit
  <1>5. UNCHANGED <<books, asked, task, raced, crossed, burnt>>
    BY DEF WriteCredit
  <1> HIDE DEF sum, used
  <1>6. t \in Transaction /\ Points(t) /\ t.step # "asking"
    BY <1>1, <1>3 DEF Transaction, Points, Step
  <1> HIDE DEF t
  <1> QED
    BY <1>4, <1>5, <1>6, IdleTyped, ReadTyped DEF Typed, TypeOK

\* The invoice is written with the sum that was read.
LEMMA CommitCreditTyped == ASSUME IInv, Typed, NEW w \in Worker, CommitCredit(w) PROVE Typed'
  <1> DEFINE i == tx[w].inv
             row(p) == IF tx[w].take[p] > 0 THEN tx[w].had[p] + tx[w].take[p] ELSE alloc[p][i]
             now == IF tx[w].amount = 0 THEN invoice[i] ELSE Recomputed(i, tx[w].amount)
             t == [Work("checking") EXCEPT !.inv = i, !.date = tx[w].date, !.amount = now.paid]
  <1>1. i \in Invoice /\ tx[w].take \in [Payment -> Nat] /\ tx[w].had \in [Payment -> Nat]
        /\ tx[w].amount \in Nat /\ tx[w].date \in Date \cup {None}
    BY InHandTyped DEF CommitCredit, AboutOne, Step
  <1>2. \A p \in Payment : row(p) \in Nat
    BY <1>1 DEF Typed, TypeOK
  <1>3. now \in InvoiceRow
    BY <1>1, RecomputedTyped DEF Typed, TypeOK
  <1>4. now.paid \in Nat
    BY <1>3 DEF InvoiceRow
  <1>5. /\ alloc' = [p \in Payment |-> [alloc[p] EXCEPT ![i] = row(p)]]
        /\ invoice' = [invoice EXCEPT ![i] = now]
        /\ Turn(w, Idle) \/ (Turn(w, t) /\ tx[w].date # None)
        /\ UNCHANGED <<payment, posted, forgiven, writtenOff, asked, task, raced, burnt>>
    BY DEF CommitCredit
  <1>6. crossed' \subseteq Invoice
    <2>1. crossed' = crossed \/ crossed' = crossed \cup {i}
      BY DEF CommitCredit, Crosses
    <2> QED
      BY <1>1, <2>1 DEF Typed, TypeOK
  <1> HIDE DEF now, row
  <1>7. invoice' \in [Invoice -> InvoiceRow] /\ alloc' \in [Payment -> [Invoice -> Nat]]
    BY <1>1, <1>2, <1>3, <1>5 DEF Typed, TypeOK
  <1>8. Work("checking") \in Transaction
    BY WorkTyped DEF Step
  <1>9. tx[w].date # None => t \in Transaction /\ Points(t) /\ t.step # "asking"
    <2> HIDE DEF i
    <2> QED
      BY <1>1, <1>4, <1>8, WorkIsFresh DEF Transaction, Points
  <1> HIDE DEF t
  <1>10. tx' \in [Worker -> Transaction] /\ (\A v \in Worker : Points(tx[v])') /\ AskNamed'
    BY <1>5, <1>9, IdleTyped, TurnTyped, NamesKept
  <1> QED
    BY <1>5, <1>6, <1>7, <1>10 DEF Typed, TypeOK, Named, AskNamed

\* A payment is taken, its lines written and posted, and the invoices recomputed.
LEMMA CommitPaymentTyped == ASSUME IInv, Typed, NEW w \in Worker, CommitPayment(w) PROVE Typed'
  <1> DEFINE p == tx[w].pay
             amount == tx[w].amount
             owed == StillOpen(w)
             lines == [i \in Invoice |-> Line(owed, amount, i)]
             paid == {i \in Invoice : owed[i] > 0 /\ lines[i] > 0}
             sum(i) == lines[i] + SumOf(RowsOf(i), Succeeded \ {p})
  <1>1. p \in Payment /\ amount \in Nat /\ tx[w].owed \in [Invoice -> Nat]
    BY InHandTyped DEF CommitPayment, Points
  <1>2. owed \in [Invoice -> Nat]
    BY <1>1 DEF StillOpen
  <1>3. lines \in [Invoice -> Nat]
    <2> HIDE DEF owed
    <2> QED
      BY <1>1, <1>2, LineTyped
  <1>4. \A i \in Invoice : sum(i) \in Nat
    <2>1. \A i \in Invoice : SumOf(RowsOf(i), Succeeded \ {p}) \in Nat
      BY SettledTyped DEF Typed, Succeeded
    <2> HIDE DEF lines
    <2> QED
      BY <1>3, <2>1
  <1>5. \A l \in Lease : Post(l, tx[w].lease, amount, lines) \in Nat
    <2> HIDE DEF lines
    <2> QED
      BY <1>1, <1>3, PostTyped
  <1>6. /\ payment' = [payment EXCEPT ![p].status = "succeeded", ![p].amount = amount]
        /\ alloc' = [alloc EXCEPT ![p] = [i \in Invoice |-> IF i \in paid THEN lines[i] ELSE @[i]]]
        /\ invoice' = [i \in Invoice |-> IF i \in paid /\ ~Spared(i)
                                         THEN Recomputed(i, sum(i)) ELSE invoice[i]]
        /\ posted' = [posted EXCEPT ![p] = [l \in Lease |-> Post(l, tx[w].lease, amount, lines)]]
        /\ task' \subseteq task
        /\ Turn(w, Idle)
        /\ UNCHANGED <<forgiven, writtenOff, asked, raced, crossed, burnt>>
    BY DEF CommitPayment
  <1> HIDE DEF paid, lines, sum, p, amount
  <1>7. /\ payment' \in [Payment -> PaymentRow] /\ Named'
        /\ \A q \in Payment : payment'[q].named = payment[q].named
    <2>1. payment[p] \in PaymentRow /\ payment \in [Payment -> PaymentRow]
      BY <1>1 DEF Typed, TypeOK
    <2>2. \A q \in Payment \ {p} : payment'[q] = payment[q]
      BY <1>6, <2>1
    <2>3. payment'[p] = [payment[p] EXCEPT !.status = "succeeded", !.amount = amount]
      BY <1>1, <1>6, <2>1
    <2>4. /\ payment'[p] \in PaymentRow /\ payment'[p].status \notin InFlight
          /\ payment'[p].named = payment[p].named
      BY <1>1, <2>1, <2>3 DEF PaymentRow, InFlight
    <2>5. DOMAIN payment' = Payment /\ payment' = [q \in DOMAIN payment' |-> payment'[q]]
      BY <1>6, <2>1
    <2>6. payment' \in [Payment -> PaymentRow]
      BY <2>1, <2>2, <2>4, <2>5
    <2> QED
      BY <2>2, <2>4, <2>6 DEF Typed, Named
  <1>8. alloc' \in [Payment -> [Invoice -> Nat]]
    BY <1>1, <1>3, <1>6 DEF Typed, TypeOK
  <1>9. invoice' \in [Invoice -> InvoiceRow]
    <2>1. \A i \in Invoice : Recomputed(i, sum(i)) \in InvoiceRow
      BY <1>4, RecomputedTyped
    <2> QED
      BY <1>6, <2>1 DEF Typed, TypeOK
  <1>10. posted' \in [Payment -> [Lease -> Nat]]
    BY <1>5, <1>6 DEF Typed, TypeOK
  <1>11. tx' \in [Worker -> Transaction] /\ (\A v \in Worker : Points(tx[v])') /\ AskNamed'
    BY <1>6, <1>7, IdleTyped, TurnTyped, NamesKept
  <1> QED
    BY <1>6, <1>7, <1>8, <1>9, <1>10, <1>11 DEF Typed, TypeOK

\* A void changes the invoice's status.
LEMMA VoidTyped == ASSUME Typed, NEW i \in Invoice, invoice' = [invoice EXCEPT ![i].status = "void"]
                   PROVE  invoice' \in [Invoice -> InvoiceRow]
  <1> DEFINE row == [invoice[i] EXCEPT !.status = "void"]
  <1>1. row \in InvoiceRow
    BY DEF Typed, TypeOK, InvoiceRow, Closed
  <1>2. invoice' = [invoice EXCEPT ![i] = row]
    BY DEF Typed, TypeOK
  <1> HIDE DEF row
  <1> QED
    BY <1>1, <1>2 DEF Typed, TypeOK

\* A waiver forgives what it read.
LEMMA CommitWaiverTyped == ASSUME IInv, Typed, NEW w \in Worker, CommitWaiver(w) PROVE Typed'
  <1>1. tx[w].inv \in Invoice /\ tx[w].amount \in Nat
    BY InHandTyped DEF CommitWaiver, AboutOne, Step
  <1>2. tx' \in [Worker -> Transaction] /\ (\A v \in Worker : Points(tx[v])') /\ AskNamed'
    BY IdleTyped, TurnTyped, NamesKept DEF CommitWaiver
  <1>3. forgiven' \in [Invoice -> Nat]
    BY <1>1 DEF CommitWaiver, Typed, TypeOK
  <1>4. invoice' \in [Invoice -> InvoiceRow]
    BY <1>1, VoidTyped DEF CommitWaiver
  <1> QED
    BY <1>2, <1>3, <1>4 DEF CommitWaiver, Typed, TypeOK, Named

\* A void forgives the whole invoice.
LEMMA VoidInvoiceTyped == ASSUME Typed, NEW i \in Invoice, VoidInvoice(i) PROVE Typed'
  <1>1. /\ forgiven' = [forgiven EXCEPT ![i] = @ + Total[i]]
        /\ invoice' = [invoice EXCEPT ![i].status = "void"]
    BY DEF VoidInvoice
  <1>2. Total[i] \in Nat /\ forgiven \in [Invoice -> Nat]
    BY InvoiceAssumption DEF Typed, TypeOK
  <1>3. forgiven' \in [Invoice -> Nat]
    BY <1>1, <1>2
  <1>5. invoice' \in [Invoice -> InvoiceRow]
    BY <1>1, VoidTyped
  <1>4. raced' \subseteq Invoice \cup Payment
    BY DEF VoidInvoice, Typed, TypeOK
  <1> QED
    BY <1>3, <1>4, <1>5 DEF VoidInvoice, Typed, TypeOK, Named, AskNamed

\* A write-off forgives what it covers, and writes off the rest.
LEMMA CommitWriteOffTyped == ASSUME IInv, Typed, NEW w \in Worker, CommitWriteOff(w) PROVE Typed'
  <1> DEFINE l == tx[w].lease
             owed == tx[w].owed
             left == Remaining(owed, tx[w].amount)
             last == Max(Invoice)
             covered == {i \in Invoice : owed[i] > 0 /\ owed[i] <= left[i - 1]}
  <1>1. l \in Lease /\ owed \in [Invoice -> Nat] /\ tx[w].amount \in Nat /\ Invoice # {}
    BY InHandTyped DEF CommitWriteOff, Points
  <1>2. left[last] \in Nat
    <2>1. last \in Invoice /\ \A n \in 0 .. last : left[n] \in Nat
      BY <1>1, RemainingTyped
    <2>2. last \in 0 .. last
      <3> HIDE DEF last
      <3>1. last \in Nat
        BY <2>1, InvoiceAssumption
      <3> QED
        BY <3>1
    <2> QED
      BY <2>1, <2>2
  <1>3. /\ forgiven' = [i \in Invoice |-> IF i \in covered THEN forgiven[i] + owed[i]
                                          ELSE forgiven[i]]
        /\ invoice' = [i \in Invoice |-> IF i \in covered
                                         THEN [invoice[i] EXCEPT !.status = "uncollectible"]
                                         ELSE invoice[i]]
        /\ writtenOff' = [writtenOff EXCEPT ![l] = @ + left[last]]
        /\ Turn(w, Idle)
        /\ UNCHANGED <<payment, alloc, posted, asked, task, raced, crossed, burnt>>
    BY DEF CommitWriteOff
  <1> HIDE DEF covered, left, last, l, owed
  <1>4. forgiven' \in [Invoice -> Nat] /\ writtenOff' \in [Lease -> Nat]
    BY <1>1, <1>2, <1>3 DEF Typed, TypeOK
  <1>5. invoice' \in [Invoice -> InvoiceRow]
    BY <1>3 DEF Typed, TypeOK, InvoiceRow, Closed
  <1>6. tx' \in [Worker -> Transaction] /\ (\A v \in Worker : Points(tx[v])') /\ AskNamed'
    BY <1>3, IdleTyped, TurnTyped, NamesKept
  <1> QED
    BY <1>3, <1>4, <1>5, <1>6 DEF Typed, TypeOK, Named, AskNamed

\* A pass that ends or goes on to charge writes a task at most.
LEMMA PassTyped == ASSUME IInv, Typed, NEW w \in Worker, Skip(w) \/ Attempt(w) PROVE Typed'
  <1> DEFINE t == [tx[w] EXCEPT !.step = "charging"]
  <1>1. tx[w].step = "checking" /\ tx[w].inv \in Invoice /\ tx[w] \in Transaction /\ Points(tx[w])
    BY InHandTyped DEF Skip, Attempt, AboutOne, Step
  <1>2. t \in Transaction /\ Points(t) /\ t.step # "asking"
    BY <1>1 DEF Transaction, Points, Step
  <1> HIDE DEF t
  <1>3. Turn(w, Idle) \/ Turn(w, t)
    BY DEF Skip, Attempt, t
  <1>4. task' \subseteq Invoice /\ UNCHANGED <<books, asked, raced, crossed, burnt>>
    BY <1>1 DEF Skip, Attempt, Typed, TypeOK
  <1> QED
    BY <1>2, <1>3, <1>4, IdleTyped, ReadTyped DEF Typed, TypeOK

\* The row of a charge, before Stripe is asked.
LEMMA CreateChargeTyped == ASSUME IInv, Typed, NEW w \in Worker, CreateCharge(w) PROVE Typed'
  <1> DEFINE i == tx[w].inv
             t(p) == [tx[w] EXCEPT !.step = "asking", !.pay = p]
             row == [status |-> "charging", amount |-> Outstanding(w), named |-> i, date |-> tx[w].date]
  <1>1. PICK p \in Payment :
            /\ payment' = [payment EXCEPT ![p] = row]
            /\ alloc' = [alloc EXCEPT ![p][i] = Outstanding(w)]
            /\ Turn(w, t(p)) /\ NextPayment(p)
    BY DEF CreateCharge
  <1>2. /\ tx[w].step = "charging"
        /\ UNCHANGED <<invoice, posted, forgiven, writtenOff, asked, task, raced, crossed, burnt>>
    BY DEF CreateCharge
  <1>3. /\ tx[w] \in Transaction /\ i \in Invoice /\ tx[w].amount \in Nat
        /\ tx[w].date \in Date /\ Points(tx[w])
    BY <1>2, InHandTyped DEF AboutOne, Step, Points
  <1>4. Outstanding(w) \in Nat
    BY <1>3, LessTyped, InvoiceAssumption DEF Outstanding
  <1>5. t(p) \in Transaction /\ Points(t(p)) /\ t(p).pay = p
    BY <1>3 DEF Transaction, Points, Step
  <1>6. row \in PaymentRow
    BY <1>3, <1>4 DEF PaymentRow, InFlight
  <1> HIDE DEF t
  <1>7. tx' \in [Worker -> Transaction] /\ \A v \in Worker : Points(tx[v])'
    BY <1>1, <1>5, TurnTyped
  <1>8. payment' \in [Payment -> PaymentRow] /\ Named'
    BY <1>1, <1>3, <1>6 DEF Typed, TypeOK, Named, AskNamed
  <1>9. alloc' \in [Payment -> [Invoice -> Nat]]
    BY <1>1, <1>3, <1>4 DEF Typed, TypeOK
  <1>10. AskNamed'
    <2> SUFFICES ASSUME NEW v \in Worker, tx'[v].step = "asking"
                 PROVE  payment'[tx'[v].pay].named \in Invoice
      BY DEF AskNamed
    <2>1. payment'[p].named = i /\ \A q \in Payment \ {p} : payment'[q] = payment[q]
      BY <1>1 DEF Typed, TypeOK
    <2>2. CASE v = w
      <3>1. tx'[w].pay = p
        BY <1>1, <1>5, TurnTyped
      <3> QED
        BY <1>3, <2>1, <2>2, <3>1
    <2>3. CASE v # w
      <3>1. tx'[v] = tx[v] /\ tx[v].pay # p /\ tx[v].pay \in Payment
        BY <1>1, <1>5, <2>3, TurnTyped DEF NextPayment, Unused, Typed, Points
      <3> QED
        BY <2>1, <3>1 DEF Typed, AskNamed
    <2> QED
      BY <2>2, <2>3
  <1> QED
    BY <1>2, <1>7, <1>8, <1>9, <1>10 DEF Typed, TypeOK

\* A pass that Stripe has answered raises a task at most.
LEMMA AnswerTyped ==
    ASSUME IInv, Typed, NEW w \in Worker, tx[w].step = "asking", Answer(w)
    PROVE  /\ tx' \in [Worker -> Transaction] /\ \A v \in Worker : Points(tx[v])'
           /\ task' \subseteq Invoice
           /\ (\A p \in Payment : payment'[p].named = payment[p].named) => AskNamed'
  <1>1. tx[w].inv \in Invoice
    BY InHandTyped DEF AboutOne, Step
  <1>2. task' = task \/ task' = task \cup {tx[w].inv}
    BY DEF Answer
  <1> QED
    BY <1>1, <1>2, IdleTyped, TurnTyped, NamesKept DEF Answer, Typed, TypeOK

\* The row of a charge that gets an answer.
LEMMA AnswersTyped ==
    ASSUME IInv, Typed, NEW w \in Worker, tx[w].step = "asking", Answer(w),
           NEW answer \in {"pending", "deleted"} \cup Declined,
           payment' = [payment EXCEPT ![tx[w].pay].status = answer]
    PROVE  /\ payment' \in [Payment -> PaymentRow] /\ Named' /\ AskNamed'
  <1> DEFINE p == tx[w].pay
             row == [payment[p] EXCEPT !.status = answer]
  <1>1. p \in Payment
    BY InHandTyped DEF Points
  <1>2. payment[p] \in PaymentRow
    BY <1>1 DEF Typed, TypeOK
  <1>3. row \in PaymentRow /\ row.named = payment[p].named
    BY <1>2 DEF PaymentRow, InFlight, Declined
  <1>4. payment' = [payment EXCEPT ![p] = row]
    BY <1>1 DEF Typed, TypeOK
  <1> HIDE DEF row
  <1>5. /\ payment' \in [Payment -> PaymentRow]
        /\ \A q \in Payment : payment'[q].named = payment[q].named
        /\ \A q \in Payment \ {p} : payment'[q] = payment[q]
    BY <1>1, <1>3, <1>4 DEF Typed, TypeOK
  <1>6. payment[p].named \in Invoice
    BY <1>1 DEF Typed, AskNamed
  <1>7. Named'
    BY <1>5, <1>6 DEF Typed, Named
  <1> QED
    BY <1>5, <1>7, AnswerTyped

\* The charge is asked for.
LEMMA AskTyped == ASSUME IInv, Typed, NEW w \in Worker, NEW answer \in {"pending"} \cup Declined,
                         Ask(w, answer)
                  PROVE  Typed'
  <1>1. tx[w].step = "asking" /\ tx[w].pay \in Payment /\ tx[w].date \in Date /\ tx[w].inv \in Invoice
    BY InHandTyped DEF Ask, AboutOne, Step, Points
  <1>2. /\ tx' \in [Worker -> Transaction] /\ \A v \in Worker : Points(tx[v])'
        /\ task' \subseteq Invoice
    BY <1>1, AnswerTyped DEF Ask
  <1>3. payment' \in [Payment -> PaymentRow] /\ Named' /\ AskNamed'
    BY <1>1, AnswersTyped DEF Ask
  <1>4. asked' \in [Invoice -> [Date -> Payment \cup {None}]]
    BY <1>1 DEF Ask, Typed, TypeOK
  <1>5. UNCHANGED <<invoice, alloc, posted, forgiven, writtenOff, raced, crossed, burnt>>
    BY DEF Ask, Answer
  <1> QED
    BY <1>2, <1>3, <1>4, <1>5 DEF Typed, TypeOK

\* The charge was asked for before.
LEMMA AskAgainTyped == ASSUME IInv, Typed, NEW w \in Worker, AskAgain(w) PROVE Typed'
  <1> DEFINE p == tx[w].pay
             q == asked[tx[w].inv][tx[w].date]
             answer == IF payment[q].status \in Declined THEN payment[q].status ELSE "deleted"
  <1>1. tx[w].step = "asking" /\ p \in Payment
    BY InHandTyped DEF AskAgain, Points
  <1>2. /\ tx' \in [Worker -> Transaction] /\ \A v \in Worker : Points(tx[v])'
        /\ task' \subseteq Invoice
    BY <1>1, AnswerTyped DEF AskAgain
  <1>3. payment' = [payment EXCEPT ![p].status = answer] /\ answer \in {"pending", "deleted"} \cup Declined
    BY DEF AskAgain
  <1>4. payment' \in [Payment -> PaymentRow] /\ Named' /\ AskNamed'
    <2> HIDE DEF answer
    <2> QED
      BY <1>1, <1>3, AnswersTyped DEF AskAgain
  <1>5. alloc' \in [Payment -> [Invoice -> Nat]]
    BY <1>1 DEF AskAgain, Typed, TypeOK
  <1>6. UNCHANGED <<invoice, asked, posted, forgiven, writtenOff, raced, crossed, burnt>>
    BY DEF AskAgain, Answer
  <1> QED
    BY <1>2, <1>4, <1>5, <1>6 DEF Typed, TypeOK

\* A fee is raised.
LEMMA RaiseFeeTyped == ASSUME Typed, NEW i \in Invoice, RaiseFee(i) PROVE Typed'
  <1>1. [status |-> "open", paid |-> 0] \in InvoiceRow
    BY DEF InvoiceRow, Open
  <1>2. invoice' \in [Invoice -> InvoiceRow]
    BY <1>1 DEF RaiseFee, Raise, Typed, TypeOK
  <1> QED
    BY <1>2 DEF RaiseFee, Typed, TypeOK, Named, AskNamed

\* Stripe forgets a key.
LEMMA ForgetTyped == ASSUME Typed, NEW i \in Invoice, NEW d \in Date, Forget(i, d) PROVE Typed'
  <1>1. asked' \in [Invoice -> [Date -> Payment \cup {None}]]
    BY DEF Forget, Typed, TypeOK
  <1> QED
    BY <1>1 DEF Forget, books, Typed, TypeOK, Named, AskNamed

\* Every step keeps the types.
LEMMA NextTyped == IInv /\ Typed /\ [Next]_vars => Typed'
  <1> SUFFICES ASSUME IInv, Typed, [Next]_vars PROVE Typed'
    OBVIOUS
  <1>1. ASSUME NEW w \in Worker, Begin(w) PROVE Typed'
    BY <1>1, ReadForRaiseTyped, StaffCreditTyped, ReadForWaiverTyped, ListTyped, TakePaymentTyped,
       SettleChargeTyped, ReadForWriteOffTyped DEF Begin
  <1>2. ASSUME NEW w \in Worker, Continue(w) PROVE Typed'
    BY <1>2, CommitRaiseTyped, WriteCreditTyped, CommitCreditTyped, CommitPaymentTyped,
       CommitWaiverTyped, CommitWriteOffTyped, SweepTyped, PassTyped, CreateChargeTyped,
       AskTyped, AskAgainTyped DEF Continue
  <1>3. CASE UNCHANGED vars
    BY <1>3 DEF vars, books, Typed, TypeOK, Named, AskNamed
  <1> QED
    BY <1>1, <1>2, <1>3, RaiseFeeTyped, VoidInvoiceTyped, ForgetTyped DEF Next

\* The typing invariant is inductive, given what transactions know.
LEMMA TypedHolds == Spec => []Typed
  <1> QED
    BY InitTyped, NextTyped, InvariantHolds, PTL DEF Spec

\* The variables have their types whatever the amounts, the leases and the
\* workers: no amount is ever negative.
THEOREM LedgerTypes == Spec => []TypeOK
  <1>1. Typed => TypeOK
    BY DEF Typed
  <1> QED
    BY TypedHolds, <1>1, PTL
-----------------------------------------------------------------------------
(* Charges, payments and credit in hand *)

\* The rows of a payment are what its status says: those of a charge in flight
\* are its amount on the invoice it is for.
RowsFit(p) ==
    /\ payment[p].status = "none" => payment[p].named = None
    /\ payment[p].status \in {"none", "deleted"} => \A i \in Invoice : alloc[p][i] = 0
    /\ payment[p].status \in InFlight =>
          /\ payment[p].amount > 0 /\ payment[p].date \in Date
          /\ \A i \in Invoice :
                alloc[p][i] = IF i = payment[p].named THEN payment[p].amount ELSE 0
    /\ Charge(p) => payment[p].named \in Invoice /\ alloc[p][payment[p].named] > 0

\* Nothing is on an invoice that does not exist.
Unraised(i) == invoice[i].status = "none" =>
    invoice[i].paid = 0 /\ forgiven[i] = 0 /\ \A p \in Payment : alloc[p][i] = 0

\* What a transaction has in hand is as its step needs it.
Fits(t) ==
    /\ t.pay # None => t.step \in {"claiming", "asking"}
    /\ t.step = "claiming" => payment[t.pay].status \in {"none", "pending"}
    /\ t.step = "asking" => /\ payment[t.pay].status = "charging"
                            /\ payment[t.pay].named = t.inv /\ payment[t.pay].date = t.date
    /\ \A p \in Payment : t.take[p] > 0 => /\ payment[p].status = "succeeded"
                                           /\ t.step \in {"raising", "spending", "summing"}
    /\ t.step \in {"spending", "summing"} => \E p \in Payment : t.take[p] > 0
    /\ t.step = "charging" => Less(Total[t.inv], t.amount) > 0
    /\ t.step \in {"listed", "checking"} /\ t.amount > 0 => PartCovered(t.inv)

\* One payment is in one transaction's hands; credit, and a charge in flight,
\* are in those of one, or they raced.
Apart(v, w) ==
    /\ tx[v].pay # None => tx[v].pay # tx[w].pay
    /\ \A p \in Payment : tx[v].take[p] > 0 /\ tx[w].take[p] > 0 => p \in raced

Flies(p) == payment[p].status \in InFlight

\* A charge in flight, or asked for, and what a transaction does beside it.
Beside(p, w) ==
    /\ Flies(p) /\ Holds(w, payment[p].named) /\ tx[w].pay # p => payment[p].named \in raced
    /\ Charge(p) /\ tx[w].step \in {"charging", "asking"} /\ tx[w].inv = payment[p].named
       => /\ payment[p].named \in raced
          /\ tx[w].date = payment[p].date => asked[tx[w].inv][tx[w].date] # None

\* Two charges for one invoice.
Twice(p, q) ==
    payment[p].named = payment[q].named =>
        /\ Flies(p) /\ Flies(q) => payment[p].named \in raced
        /\ Charge(p) /\ Charge(q) => payment[p].date # payment[q].date /\ payment[p].named \in raced

Rows == \A p \in Payment : RowsFit(p)
Blank == \A i \in Invoice : Unraised(i)
Covered == \A i \in Invoice : invoice[i].paid > 0 => PartCovered(i)
Hands == /\ Rows /\ Blank /\ Covered
         /\ \A w \in Worker : Fits(tx[w])
         /\ \A v, w \in Worker : v # w => Apart(v, w)
         /\ \A p \in Payment, w \in Worker : Beside(p, w)
         /\ \A p, q \in Payment : p # q => Twice(p, q)
-----------------------------------------------------------------------------
\* At the start nobody has anything in hand.
LEMMA InitHands == Init => Hands
  <1> SUFFICES ASSUME Init PROVE Hands
    OBVIOUS
  <1>1. \A w \in Worker : tx[w] = Idle
    BY DEF Init
  <1>2. /\ Idle.step = "idle" /\ Idle.pay = None /\ Idle.inv = None
        /\ \A p \in Payment : Idle.take[p] = 0
        /\ \A i \in Invoice : Idle.owed[i] = 0
    BY DEF Idle, Work
  <1>3. \A p \in Payment : payment[p].status = "none" /\ payment[p].named = None
                           /\ \A i \in Invoice : alloc[p][i] = 0
    BY DEF Init
  <1>4. \A i \in Invoice : invoice[i].paid = 0 /\ forgiven[i] = 0
    BY DEF Init
  <1> HIDE DEF Idle
  <1>5. Rows /\ Blank /\ Covered
    BY <1>3, <1>4 DEF Rows, Blank, Covered, RowsFit, Unraised, InFlight, Charge
  <1>6. Fits(Idle)
    BY <1>2 DEF Fits
  <1>7. \A p \in Payment : ~Flies(p) /\ ~Charge(p)
    BY <1>3 DEF Flies, Charge, InFlight
  <1>8. \A v, w \in Worker : Apart(v, w)
    BY <1>1, <1>2 DEF Apart
  <1> QED
    BY <1>1, <1>5, <1>6, <1>7, <1>8 DEF Hands, Beside, Twice

\* What is settled stays settled, and nobody else's payment moves.
Kept == \A p \in Payment : payment[p].status = "succeeded" =>
            /\ payment'[p] = payment[p]
            /\ \A i \in Invoice : alloc[p][i] > 0 => alloc'[p][i] > 0
Mine(w) == \A p \in Payment : payment'[p] # payment[p] => \A v \in Worker \ {w} : tx[v].pay # p

\* No charge becomes one in flight, or one that was asked for.
NoneBegun == \A p \in Payment :
    /\ payment'[p].status \in InFlight \cup {"succeeded"} /\ payment'[p].status # payment[p].status
       => /\ payment'[p].status = "succeeded"
          /\ Charge(p)' => Charge(p)
    /\ payment'[p].named = payment[p].named /\ payment'[p].date = payment[p].date

\* What the worker goes on to hold does not come between the others.
MayHold(w, t) ==
    /\ Fits(t)'
    /\ t.pay # None => \A v \in Worker \ {w} : tx[v].pay # t.pay
    /\ \A v \in Worker \ {w}, p \in Payment : t.take[p] > 0 /\ tx[v].take[p] > 0 => p \in raced'
    /\ \A p \in Payment : /\ Flies(p)' /\ t.pay # p /\ payment'[p].named \in Invoice
                          /\ t.inv = payment'[p].named \/ t.owed[payment'[p].named] > 0
                          => payment'[p].named \in raced'
    /\ t.step \in {"charging", "asking"} =>
         \A p \in Payment : Charge(p)' /\ t.inv = payment'[p].named =>
             /\ t.inv \in raced'
             /\ t.date = payment'[p].date => asked'[t.inv][t.date] # None

\* Stripe forgets no charge.
Remembers == \A i \in Invoice, d \in Date : asked[i][d] # None => asked'[i][d] # None

\* Money that has settled an invoice stays on it.
LEMMA CoverStays == ASSUME Kept, NEW i \in Invoice, PartCovered(i) PROVE PartCovered(i)'
  BY DEF Kept, PartCovered

\* A transaction that rests keeps what it holds.
LEMMA RestFits ==
    ASSUME IInv, Typed, Hands, NEW w, NEW v \in Worker \ {w}, tx'[v] = tx[v], Kept, Mine(w)
    PROVE  Fits(tx[v])'
  <1>1. Fits(tx[v]) /\ Points(tx[v]) /\ (tx[v].step \in AboutOne => tx[v].inv \in Invoice)
    BY DEF Hands, Typed, IInv, KnowsRow
  <1>2. tx[v].step \in {"claiming", "asking"} => payment'[tx[v].pay] = payment[tx[v].pay]
    BY <1>1 DEF Mine, Points
  <1>3. tx[v].step \in {"listed", "checking"} /\ PartCovered(tx[v].inv) => PartCovered(tx[v].inv)'
    BY <1>1, CoverStays DEF AboutOne, Step
  <1>4. \A p \in Payment : payment[p].status = "succeeded" => payment'[p].status = "succeeded"
    BY DEF Kept
  <1> QED
    BY <1>1, <1>2, <1>3, <1>4 DEF Fits

\* One worker takes a step that begins no charge.
LEMMA StepHands ==
    ASSUME IInv, Typed, Hands, NEW w \in Worker, NEW t, Turn(w, t),
           raced \subseteq raced', Remembers, Rows', Blank', Covered',
           Kept, Mine(w), NoneBegun, MayHold(w, t)
    PROVE  Hands'
  <1>1. tx'[w] = t /\ \A v \in Worker \ {w} : tx'[v] = tx[v]
    BY DEF Typed, TypeOK, Turn
  <1>2. \A v \in Worker : Fits(tx[v])'
    <2>1. Fits(tx[w])'
      BY <1>1 DEF MayHold, Fits, PartCovered
    <2>2. \A v \in Worker \ {w} : Fits(tx[v])'
      BY <1>1, RestFits
    <2> QED
      BY <2>1, <2>2
  <1>3. \A u, v \in Worker : u # v => Apart(u, v)'
    BY <1>1 DEF Hands, MayHold, Apart
  <1>4. \A p \in Payment : (Flies(p)' => Flies(p)) /\ (Charge(p)' => Charge(p))
                           /\ payment'[p].named = payment[p].named
                           /\ payment'[p].date = payment[p].date
    BY DEF NoneBegun, Flies, Charge, InFlight
  <1>5. ASSUME NEW p \in Payment, NEW v \in Worker PROVE Beside(p, v)'
    <2>0. Flies(p)' => payment'[p].named \in Invoice
      BY <1>4 DEF Flies, Typed, Named
    <2>1. CASE v = w
      BY <1>1, <2>0, <2>1 DEF MayHold, Beside, Holds
    <2>2. CASE v # w
      <3>1. Beside(p, v) /\ tx'[v] = tx[v]
        BY <1>1, <2>2 DEF Hands
      <3>2. tx[v].step \in {"charging", "asking"} => tx[v].inv \in Invoice /\ tx[v].date \in Date
        BY InHandTyped DEF AboutOne, Step, Points
      <3> QED
        BY <1>4, <3>1, <3>2 DEF Beside, Holds, Remembers
    <2> QED
      BY <2>1, <2>2
  <1>6. \A p, q \in Payment : p # q => Twice(p, q)'
    BY <1>4 DEF Hands, Twice
  <1> QED
    BY <1>2, <1>3, <1>5, <1>6 DEF Hands

\* A step of nobody's.
LEMMA NobodysHands ==
    ASSUME IInv, Typed, Hands, UNCHANGED <<tx, payment, alloc, asked>>, raced \subseteq raced', Blank', Covered'
    PROVE  Hands'
  <1>1. Kept /\ \A w : Mine(w)
    BY DEF Kept, Mine
  <1>2. Rows'
    BY DEF Hands, Rows, RowsFit, Charge
  <1>3. \A v \in Worker : Fits(tx[v])'
    BY DEF Hands, Fits, PartCovered
  <1>4. \A u, v \in Worker : u # v => Apart(u, v)'
    BY DEF Hands, Apart
  <1>5. \A p \in Payment, v \in Worker : Beside(p, v)'
    BY DEF Hands, Beside, Flies, Charge, Holds
  <1>6. \A p, q \in Payment : p # q => Twice(p, q)'
    BY DEF Hands, Twice, Flies, Charge
  <1> QED
    BY <1>2, <1>3, <1>4, <1>5, <1>6 DEF Hands
-----------------------------------------------------------------------------
\* A transaction that has ended holds nothing.
LEMMA IdleMayHold == ASSUME NEW w \in Worker PROVE MayHold(w, Idle)
  <1>1. /\ Idle.step = "idle" /\ Idle.pay = None /\ Idle.inv = None
        /\ \A p \in Payment : ~(Idle.take[p] > 0)
        /\ \A i \in Invoice : ~(Idle.owed[i] > 0)
    BY DEF Idle, Work
  <1> HIDE DEF Idle
  <1>2. Fits(Idle)'
    BY <1>1 DEF Fits
  <1> QED
    BY <1>1, <1>2, NoneIsNone DEF MayHold, Flies

\* A step that only reads.
LEMMA ReadHands ==
    ASSUME IInv, Typed, Hands, NEW w \in Worker, NEW t, Turn(w, t),
           raced \subseteq raced', UNCHANGED <<books, asked>>, MayHold(w, t)
    PROVE  Hands'
  <1>1. UNCHANGED <<invoice, payment, alloc, posted, forgiven, writtenOff>>
    BY DEF books
  <1>2. Rows' /\ Blank' /\ Covered'
    <2>1. Rows'
      BY <1>1 DEF Hands, Rows, RowsFit, Charge
    <2>2. Blank'
      BY <1>1 DEF Hands, Blank, Unraised
    <2>3. Covered'
      BY <1>1 DEF Hands, Covered, PartCovered
    <2> QED
      BY <2>1, <2>2, <2>3
  <1>3. Kept /\ Mine(w)
    BY <1>1 DEF Kept, Mine
  <1>4. NoneBegun
    BY <1>1 DEF NoneBegun
  <1> QED
    BY <1>2, <1>3, <1>4, StepHands DEF Remembers

\* Taking rows in hand notices who has them.
LEMMA TakesNotices ==
    ASSUME Typed, NEW S, NEW w \in Worker, NEW p, Takes(S, w, p)
    PROVE  /\ raced \subseteq raced'
           /\ \A v \in Worker \ {w}, q \in S \cap Payment : tx[v].take[q] > 0 => q \in raced'
           /\ \A q \in Payment : Flies(q) /\ q # p /\ payment[q].named \in S
                                 => payment[q].named \in raced'
  <1>1. raced' = raced \cup (S \cap HeldBeside(w, p))
    BY DEF Takes
  <1>2. ASSUME NEW v \in Worker \ {w}, NEW q \in S \cap Payment, tx[v].take[q] > 0
        PROVE  q \in HeldBeside(w, p)
    <2>1. q \in InHand(v)
      BY <1>2 DEF InHand
    <2> QED
      BY <2>1 DEF HeldBeside
  <1>3. ASSUME NEW q \in Payment, Flies(q), q # p PROVE payment[q].named \in HeldBeside(w, p)
    <2>1. payment[q].named # None
      BY <1>3, NoneIsNone DEF Flies, Typed, Named
    <2>2. q \in {r \in Payment \ {p} : payment[r].status \in InFlight}
      BY <1>3 DEF Flies
    <2> DEFINE R == {r \in Payment \ {p} : payment[r].status \in InFlight}
               A == UNION {InHand(v) : v \in Worker \ {w}}
               B == {payment[r].named : r \in R} \ {None}
    <2>3. payment[q].named \in B
      BY <2>1, <2>2
    <2>4. HeldBeside(w, p) = A \cup B
      BY DEF HeldBeside
    <2> HIDE DEF A, B
    <2> QED
      BY <2>3, <2>4
  <1> QED
    BY <1>1, <1>2, <1>3

\* No charge is in flight for an invoice that does not exist.
LEMMA FliesOnRaised ==
    ASSUME Typed, Hands, NEW p \in Payment, Flies(p)
    PROVE  payment[p].named \in Invoice /\ invoice[payment[p].named].status # "none"
  <1>1. payment[p].named \in Invoice
    BY DEF Flies, Typed, Named
  <1>2. alloc[p][payment[p].named] = payment[p].amount /\ payment[p].amount > 0
    BY <1>1 DEF Hands, Rows, RowsFit, Flies
  <1>3. payment[p].amount \in Nat
    BY DEF Typed, TypeOK, PaymentRow
  <1> QED
    BY <1>1, <1>2, <1>3 DEF Hands, Blank, Unraised

\* A transaction begins, or goes on reading: what it did not hold it takes.
LEMMA BeginHands ==
    ASSUME IInv, Typed, Hands, NEW w \in Worker, NEW t, Turn(w, t),
           UNCHANGED <<books, asked>>, NEW S, Takes(S, w, t.pay), Fits(t),
           t.pay # None => \A v \in Worker \ {w} : tx[v].pay # t.pay,
           \A p \in Payment : t.take[p] > 0 => p \in S,
           \A i \in Invoice : t.inv = i \/ t.owed[i] > 0 =>
               \/ i \in S
               \/ invoice[i].status = "none"
               \/ Holds(w, i) /\ tx[w].pay = t.pay,
           t.step \notin {"charging", "asking"}
    PROVE  Hands'
  <1>1. UNCHANGED <<invoice, payment, alloc, posted, forgiven, writtenOff>>
    BY DEF books
  <1>2. Fits(t)'
    BY <1>1 DEF Fits, PartCovered
  <1>3. raced \subseteq raced'
    BY TakesNotices
  <1>4. \A v \in Worker \ {w}, p \in Payment : t.take[p] > 0 /\ tx[v].take[p] > 0 => p \in raced'
    BY TakesNotices
  <1>5. ASSUME NEW p \in Payment, Flies(p)', t.pay # p, payment'[p].named \in Invoice,
               t.inv = payment'[p].named \/ t.owed[payment'[p].named] > 0
        PROVE  payment'[p].named \in raced'
    <2>1. Flies(p) /\ payment'[p].named = payment[p].named
      BY <1>1, <1>5 DEF Flies
    <2>2. payment[p].named \in Invoice /\ invoice[payment[p].named].status # "none"
      BY <2>1, FliesOnRaised
    <2>3. CASE payment[p].named \in S
      BY <1>5, <2>1, <2>3, TakesNotices
    <2>4. CASE Holds(w, payment[p].named) /\ tx[w].pay = t.pay
      <3>1. payment[p].named \in raced
        BY <1>5, <2>1, <2>4 DEF Hands, Beside
      <3> QED
        BY <1>3, <2>1, <3>1
    <2> QED
      BY <1>5, <2>1, <2>2, <2>3, <2>4
  <1>6. MayHold(w, t)
    BY <1>2, <1>4, <1>5 DEF MayHold
  <1> QED
    BY <1>3, <1>6, ReadHands

\* Credit is taken only of payments that have settled and have some left.
LEMMA TakenIsSpare ==
    ASSUME Typed, NEW room \in Nat, NEW p \in Payment, Taken(room)[p] > 0
    PROVE  payment[p].status = "succeeded" /\ Spare(p) > 0
  <1> DEFINE spare == [q \in Payment |-> Spare(q)]
             rest == Less(room, SumOf(spare, {q \in Payment : q < p}))
  <1>1. Taken(room)[p] = Least(Spare(p), rest)
    BY DEF Taken
  <1>2. Spare(p) \in Nat /\ rest \in Nat
    <2>1. \A q \in Payment : spare[q] \in Nat
      BY SpareTyped DEF Typed
    <2> HIDE DEF spare
    <2>2. SumOf(spare, {q \in Payment : q < p}) \in Nat
      BY <2>1, SumOfPayments
    <2> QED
      BY <2>2, SpareTyped, LessTyped DEF Typed
  <1>3. Spare(p) > 0
    BY <1>1, <1>2 DEF Least
  <1> QED
    BY <1>3 DEF Spare
-----------------------------------------------------------------------------
\* A raise takes what credit it finds in hand.
LEMMA ReadForRaiseHands == ASSUME IInv, Typed, Hands, NEW w \in Worker, NEW i \in Invoice, ReadForRaise(w, i)
                           PROVE  Hands'
  <1> DEFINE take == Taken(Total[i])
             t == [Work("raising") EXCEPT !.inv = i, !.take = take]
             S == {p \in Payment : take[p] > 0}
  <1>1. /\ Turn(w, t) /\ Takes(S, w, None) /\ UNCHANGED <<books, asked>>
        /\ invoice[i].status = "none"
    BY DEF ReadForRaise
  <1>2. \A p \in Payment : take[p] > 0 => payment[p].status = "succeeded"
    BY InvoiceAssumption, TakenIsSpare
  <1> HIDE DEF take
  <1>3. /\ t.step = "raising" /\ t.inv = i /\ t.pay = None /\ t.take = take
        /\ \A j \in Invoice : ~(t.owed[j] > 0)
    BY DEF Work
  <1> HIDE DEF t
  <1>4. Fits(t)
    BY <1>2, <1>3 DEF Fits
  <1> QED
    BY <1>1, <1>3, <1>4, BeginHands

\* What applyCreditToInvoice reads it takes in hand.
LEMMA ReadCreditHands ==
    ASSUME IInv, Typed, Hands, NEW w \in Worker, NEW i \in Invoice, NEW t, ReadCredit(w, i, t),
           DOMAIN t = Fields, t.inv = i, t.pay = None,
           t.date # None => t.step = "listed" /\ Fits(t),
           \A p \in Payment : ~(t.take[p] > 0),
           \A j \in Invoice : t.owed[j] > 0 => Holds(w, j) /\ tx[w].pay = None,
           UNCHANGED <<books, asked>>
    PROVE  Hands'
  <1> DEFINE room == Less(Total[i], invoice[i].paid)
             take == Taken(room)
             had == [p \in Payment |-> alloc[p][i]]
             used == {p \in Payment : take[p] > 0}
             c == [t EXCEPT !.step = "checking"]
             s == [t EXCEPT !.step = "spending", !.take = take, !.had = had]
  <1>1. \A p \in Payment : take[p] > 0 => payment[p].status = "succeeded"
    <2>1. room \in Nat
      BY OwedTyped DEF Typed
    <2> HIDE DEF room
    <2> QED
      BY <2>1, TakenIsSpare
  <1>2. Takes({i} \cup used, w, None)
    BY DEF ReadCredit
  <1>3. \/ used = {} /\ Turn(w, Idle)
        \/ used = {} /\ Turn(w, c) /\ t.date # None
        \/ used # {} /\ Turn(w, s)
    BY DEF ReadCredit
  <1> HIDE DEF take, had
  <1>4. /\ c.step = "checking" /\ c.inv = i /\ c.pay = None /\ c.amount = t.amount
        /\ c.take = t.take /\ c.owed = t.owed
        /\ s.step = "spending" /\ s.inv = i /\ s.pay = None /\ s.take = take /\ s.owed = t.owed
    BY DEF Fields
  <1> HIDE DEF c, s
  <1>5. CASE Turn(w, Idle)
    <2>1. raced \subseteq raced'
      BY <1>2, TakesNotices
    <2> QED
      BY <1>5, <2>1, IdleMayHold, ReadHands
  <1>6. CASE Turn(w, c) /\ t.date # None
    <2>1. Fits(c)
      BY <1>4, <1>6 DEF Fits
    <2> QED
      BY <1>2, <1>4, <1>6, <2>1, BeginHands
  <1>7. CASE Turn(w, s) /\ used # {}
    <2>1. Fits(s)
      BY <1>1, <1>4, <1>7 DEF Fits
    <2> QED
      BY <1>2, <1>4, <1>7, <2>1, BeginHands
  <1> QED
    BY <1>3, <1>5, <1>6, <1>7

\* Staff take the invoice and the credit.
LEMMA StaffCreditHands == ASSUME IInv, Typed, Hands, NEW w \in Worker, NEW i \in Invoice, StaffCredit(w, i)
                          PROVE  Hands'
  <1> DEFINE t == [Work("spending") EXCEPT !.inv = i]
  <1>1. /\ DOMAIN t = Fields /\ t.inv = i /\ t.pay = None /\ t.step = "spending" /\ t.date = None
        /\ \A p \in Payment : ~(t.take[p] > 0)
        /\ \A j \in Invoice : ~(t.owed[j] > 0)
    BY DEF Work, Fields
  <1>2. ReadCredit(w, i, t) /\ UNCHANGED <<books, asked>>
    BY DEF StaffCredit
  <1> QED
    BY <1>1, <1>2, ReadCreditHands

\* A pass goes on with the invoice it had in hand.
LEMMA SweepHands == ASSUME IInv, Typed, Hands, NEW w \in Worker, Sweep(w) PROVE Hands'
  <1>1. tx[w].step = "listed" /\ ReadCredit(w, tx[w].inv, tx[w]) /\ UNCHANGED <<books, asked>>
    BY DEF Sweep
  <1>2. tx[w].inv \in Invoice /\ DOMAIN tx[w] = Fields /\ tx[w].take \in [Payment -> Nat]
    BY <1>1, InHandTyped DEF AboutOne, Step, IInv, Shapes
  <1>3. Fits(tx[w])
    BY DEF Hands
  <1>4. tx[w].pay = None /\ \A p \in Payment : ~(tx[w].take[p] > 0)
    BY <1>1, <1>3 DEF Fits
  <1>5. \A j \in Invoice : tx[w].owed[j] > 0 => Holds(w, j)
    BY DEF Holds
  <1> QED
    BY <1>1, <1>2, <1>3, <1>4, <1>5, ReadCreditHands

\* A waiver takes the fee's invoice.
LEMMA ReadForWaiverHands == ASSUME IInv, Typed, Hands, NEW w \in Worker, NEW i \in Invoice, ReadForWaiver(w, i)
                            PROVE  Hands'
  <1> DEFINE t == [Work("waiving") EXCEPT !.inv = i, !.amount = Less(Total[i], invoice[i].paid)]
  <1>1. Turn(w, t) /\ Takes({i}, w, None) /\ UNCHANGED <<books, asked>>
    BY DEF ReadForWaiver
  <1>2. /\ t.step = "waiving" /\ t.inv = i /\ t.pay = None
        /\ \A p \in Payment : ~(t.take[p] > 0)
        /\ \A j \in Invoice : ~(t.owed[j] > 0)
    BY DEF Work
  <1> HIDE DEF t
  <1>3. Fits(t)
    BY <1>2 DEF Fits
  <1> QED
    BY <1>1, <1>2, <1>3, BeginHands

\* A pass lists its invoice with what is paid, and something paid is money on it.
LEMMA ListHands == ASSUME IInv, Typed, Hands, NEW w \in Worker, NEW i \in Invoice, NEW d \in Date, List(w, i, d)
                   PROVE  Hands'
  <1> DEFINE t == [Work("listed") EXCEPT !.inv = i, !.date = d, !.amount = invoice[i].paid]
  <1>1. Turn(w, t) /\ Takes({i}, w, None) /\ UNCHANGED <<books, asked>>
    BY DEF List
  <1>2. /\ t.step = "listed" /\ t.inv = i /\ t.pay = None /\ t.amount = invoice[i].paid
        /\ \A p \in Payment : ~(t.take[p] > 0)
        /\ \A j \in Invoice : ~(t.owed[j] > 0)
    BY DEF Work
  <1> HIDE DEF t
  <1>3. t.amount > 0 => PartCovered(t.inv)
    BY <1>2 DEF Hands, Covered
  <1>4. Fits(t)
    BY <1>2, <1>3 DEF Fits
  <1> QED
    BY <1>1, <1>2, <1>4, BeginHands

\* A transaction about several invoices takes those it claims something on.
LEMMA ClaimsHands ==
    ASSUME IInv, Typed, Hands, NEW w \in Worker, NEW t, Turn(w, t), UNCHANGED <<books, asked>>,
           t.step \in {"claiming", "writing off"}, t.inv = None,
           \A p \in Payment : ~(t.take[p] > 0),
           t.step = "claiming" => t.pay \in Payment /\ payment[t.pay].status \in {"none", "pending"},
           t.step = "writing off" => t.pay = None,
           t.pay # None => \A v \in Worker \ {w} : tx[v].pay # t.pay,
           NEW S, Takes(S, w, t.pay), \A i \in Invoice : t.owed[i] > 0 => i \in S
    PROVE  Hands'
  <1>1. Fits(t)
    BY DEF Fits
  <1> QED
    BY <1>1, NoneIsNone, BeginHands

\* A payment at the counter.
LEMMA TakePaymentHands ==
    ASSUME IInv, Typed, Hands, NEW w \in Worker, NEW l \in Lease, NEW amount \in Amounts,
           NEW directed \in BOOLEAN, TakePayment(w, l, amount, directed)
    PROVE  Hands'
  <1> DEFINE owed == Claims({i \in Invoice : directed => LeaseOf[i] = l})
             S == {i \in Invoice : owed[i] > 0}
             t(p) == [Work("claiming") EXCEPT !.pay = p, !.lease = l, !.amount = amount, !.owed = owed]
  <1>1. PICK p \in Payment : Turn(w, t(p)) /\ Takes(S, w, p) /\ NextPayment(p)
    BY DEF TakePayment
  <1>2. UNCHANGED <<books, asked>>
    BY DEF TakePayment
  <1>3. payment[p].status = "none" /\ \A v \in Worker : tx[v].pay # p
    BY <1>1 DEF NextPayment, Unused
  <1>4. \A i \in Invoice : owed[i] > 0 => i \in S
    OBVIOUS
  <1> HIDE DEF owed, S
  <1>5. /\ t(p).step = "claiming" /\ t(p).inv = None /\ t(p).pay = p /\ t(p).owed = owed
        /\ \A q \in Payment : ~(t(p).take[q] > 0)
    BY DEF Work
  <1> HIDE DEF t
  <1> QED
    BY <1>1, <1>2, <1>3, <1>4, <1>5, ClaimsHands

\* A charge that has succeeded is settled by one transaction.
LEMMA SettleChargeHands == ASSUME IInv, Typed, Hands, NEW w \in Worker, NEW p \in Payment, SettleCharge(w, p)
                           PROVE  Hands'
  <1> DEFINE named == payment[p].named
             owed == Claims(IF Owed(named) > 0 THEN {named} ELSE Invoice)
             S == {i \in Invoice : owed[i] > 0} \cup {named}
             t == [Work("claiming") EXCEPT !.pay = p, !.lease = LeaseOf[named],
                                           !.amount = payment[p].amount, !.owed = owed]
  <1>1. /\ Turn(w, t) /\ Takes(S, w, p) /\ UNCHANGED <<books, asked>>
        /\ payment[p].status = "pending" /\ \A v \in Worker : tx[v].pay # p
    BY DEF SettleCharge
  <1>2. \A i \in Invoice : owed[i] > 0 => i \in S
    OBVIOUS
  <1> HIDE DEF owed, S
  <1>3. /\ t.step = "claiming" /\ t.inv = None /\ t.pay = p /\ t.owed = owed
        /\ \A q \in Payment : ~(t.take[q] > 0)
    BY DEF Work
  <1> HIDE DEF t
  <1> QED
    BY <1>1, <1>2, <1>3, ClaimsHands

\* A write-off takes what is owed.
LEMMA ReadForWriteOffHands == ASSUME IInv, Typed, Hands, NEW w \in Worker, NEW l \in Lease, ReadForWriteOff(w, l)
                              PROVE  Hands'
  <1> DEFINE owed == Claims(InvoicesOf(l))
             S == {i \in Invoice : owed[i] > 0}
             t == [Work("writing off") EXCEPT !.lease = l, !.amount = Balance(l), !.owed = owed]
  <1>1. Turn(w, t) /\ Takes(S, w, None) /\ UNCHANGED <<books, asked>>
    BY DEF ReadForWriteOff
  <1>2. \A i \in Invoice : owed[i] > 0 => i \in S
    OBVIOUS
  <1> HIDE DEF owed, S
  <1>3. /\ t.step = "writing off" /\ t.inv = None /\ t.pay = None /\ t.owed = owed
        /\ \A q \in Payment : ~(t.take[q] > 0)
    BY DEF Work
  <1> HIDE DEF t
  <1> QED
    BY <1>1, <1>2, <1>3, ClaimsHands
-----------------------------------------------------------------------------
(* The steps in the middle *)

\* A step within a transaction keeps what it has in hand.
LEMMA GoesOnHands ==
    ASSUME IInv, Typed, Hands, NEW w \in Worker, NEW t, Turn(w, t), UNCHANGED <<books, asked, raced>>,
           t.inv = tx[w].inv, t.pay = tx[w].pay, t.owed = tx[w].owed, t.take = tx[w].take, Fits(t),
           t.step \in {"charging", "asking"} =>
               \A p \in Payment : ~(Charge(p) /\ payment[p].named = t.inv)
    PROVE  Hands'
  <1>1. UNCHANGED <<invoice, payment, alloc, posted, forgiven, writtenOff>>
    BY DEF books
  <1>2. Fits(t)'
    BY <1>1 DEF Fits, PartCovered
  <1>3. t.pay # None => \A v \in Worker \ {w} : tx[v].pay # t.pay
    BY DEF Hands, Apart
  <1>4. \A v \in Worker \ {w}, p \in Payment : t.take[p] > 0 /\ tx[v].take[p] > 0 => p \in raced'
    BY DEF Hands, Apart
  <1>5. ASSUME NEW p \in Payment, Flies(p)', t.pay # p,
               t.inv = payment'[p].named \/ t.owed[payment'[p].named] > 0
        PROVE  payment'[p].named \in raced'
    BY <1>1, <1>5 DEF Hands, Beside, Holds, Flies
  <1>6. t.step \in {"charging", "asking"} =>
            \A p \in Payment : ~(Charge(p)' /\ payment'[p].named = t.inv)
    BY <1>1 DEF Charge
  <1>7. MayHold(w, t)
    BY <1>2, <1>3, <1>4, <1>5, <1>6 DEF MayHold
  <1> QED
    BY <1>7, ReadHands

\* The rows that credit writes are not yet seen.
LEMMA WriteCreditHands == ASSUME IInv, Typed, Hands, NEW w \in Worker, WriteCredit(w) PROVE Hands'
  <1>1. UNCHANGED <<books, asked, raced>> /\ tx[w].step = "spending" /\ Fits(tx[w])
    BY DEF WriteCredit, Hands
  <1>2. \/ Turn(w, Idle)
        \/ \E amount : Turn(w, [tx[w] EXCEPT !.step = "summing", !.amount = amount])
    BY DEF WriteCredit
  <1>3. CASE Turn(w, Idle)
    BY <1>1, <1>3, IdleMayHold, ReadHands
  <1>4. ASSUME NEW amount, Turn(w, [tx[w] EXCEPT !.step = "summing", !.amount = amount]) PROVE Hands'
    <2> DEFINE t == [tx[w] EXCEPT !.step = "summing", !.amount = amount]
    <2>1. /\ t.step = "summing" /\ t.inv = tx[w].inv /\ t.pay = tx[w].pay
          /\ t.owed = tx[w].owed /\ t.take = tx[w].take
      BY DEF IInv, Shapes, Fields
    <2> HIDE DEF t
    <2>2. Fits(t)
      BY <1>1, <2>1 DEF Fits
    <2>3. Turn(w, t)
      BY <1>4 DEF t
    <2> QED
      BY <1>1, <2>1, <2>2, <2>3, GoesOnHands
  <1> QED
    BY <1>2, <1>3, <1>4

\* A pass that is skipped holds nothing.
LEMMA SkipHands == ASSUME IInv, Typed, Hands, NEW w \in Worker, Skip(w) PROVE Hands'
  <1>1. UNCHANGED <<books, asked, raced>> /\ Turn(w, Idle)
    BY DEF Skip
  <1> QED
    BY <1>1, IdleMayHold, ReadHands

\* A pass goes on to charge only when nothing is charged for the invoice.
LEMMA AttemptHands == ASSUME IInv, Typed, Hands, NEW w \in Worker, Attempt(w) PROVE Hands'
  <1> DEFINE i == tx[w].inv
             t == [tx[w] EXCEPT !.step = "charging"]
  <1>1. /\ UNCHANGED <<books, asked, raced>> /\ Turn(w, t) /\ tx[w].step = "checking"
        /\ Outstanding(w) > 0 /\ ~AttemptInFlight(i)
    BY DEF Attempt
  <1>2. /\ t.step = "charging" /\ t.inv = i /\ t.pay = tx[w].pay
        /\ t.owed = tx[w].owed /\ t.take = tx[w].take /\ t.amount = tx[w].amount
    BY DEF IInv, Shapes, Fields
  <1>3. Fits(tx[w])
    BY DEF Hands
  <1> HIDE DEF t
  <1>4. Fits(t)
    BY <1>1, <1>2, <1>3 DEF Fits, Outstanding
  <1>5. \A p \in Payment : ~(Charge(p) /\ payment[p].named = i)
    BY <1>1 DEF AttemptInFlight, InFlight, Hands, Rows, RowsFit, Charge
  <1> QED
    BY <1>1, <1>2, <1>4, <1>5, GoesOnHands
-----------------------------------------------------------------------------
(* The steps that write *)

\* A sum that is not zero has a part that is not.
LEMMA SumHasPart ==
    ASSUME NEW S, IsFiniteSet(S), NEW f, \A x \in S : f[x] \in Nat, SumOf(f, S) > 0
    PROVE  \E x \in S : f[x] > 0
  <1> SUFFICES ASSUME \A x \in S : ~(f[x] > 0) PROVE FALSE
    OBVIOUS
  <1>1. \A x \in S : f[x] = 0
    OBVIOUS
  <1>2. SumOf(f, S) = 0
    BY <1>1, SumZeros DEF SumOf
  <1> QED
    BY <1>2

\* Rows of settled payments are written on one invoice, and its sum.
LEMMA CreditHands ==
    ASSUME IInv, Typed, Hands, NEW w \in Worker, NEW t, Turn(w, t), MayHold(w, t),
           UNCHANGED <<payment, forgiven, asked, raced>>, NEW i \in Invoice,
           \A p \in Payment, j \in Invoice :
               \/ alloc'[p][j] = alloc[p][j]
               \/ j = i /\ payment[p].status = "succeeded" /\ alloc'[p][j] > 0,
           \A j \in Invoice \ {i} : invoice'[j] = invoice[j],
           invoice'[i].status # "none", invoice'[i].paid > 0 => PartCovered(i)'
    PROVE  Hands'
  <1>1. Rows'
    <2> SUFFICES ASSUME NEW p \in Payment PROVE RowsFit(p)'
      BY DEF Rows
    <2>1. RowsFit(p)
      BY DEF Hands, Rows
    <2>2. payment[p].status # "succeeded" => \A j \in Invoice : alloc'[p][j] = alloc[p][j]
      OBVIOUS
    <2>3. Charge(p)' => Charge(p)
      BY DEF Charge
    <2> QED
      BY <2>1, <2>2, <2>3 DEF RowsFit, InFlight
  <1>2. Blank'
    BY DEF Hands, Blank, Unraised
  <1>3. Kept /\ Mine(w) /\ NoneBegun
    BY DEF Kept, Mine, NoneBegun
  <1>4. Covered'
    BY <1>3, CoverStays DEF Hands, Covered
  <1> QED
    BY <1>1, <1>2, <1>3, <1>4, StepHands DEF Remembers

\* A raise writes what it took, and nothing was on the invoice before.
LEMMA CommitRaiseHands == ASSUME IInv, Typed, Hands, NEW w \in Worker, CommitRaise(w) PROVE Hands'
  <1>0. PICK i \in Invoice : i = tx[w].inv
    BY InHandTyped DEF CommitRaise, AboutOne, Step
  <1>00. PICK take \in [Payment -> Nat] : take = tx[w].take
    BY InHandTyped
  <1> DEFINE sum == SumOf(take, Payment)
  <1>1. tx[w].step = "raising"
    BY DEF CommitRaise
  <1>2. /\ alloc' = [p \in Payment |-> [alloc[p] EXCEPT ![i] = take[p]]]
        /\ invoice' = [invoice EXCEPT ![i] = Recomputed(i, sum)]
        /\ Turn(w, Idle) /\ UNCHANGED <<payment, forgiven, asked, raced>>
    BY <1>0, <1>00 DEF CommitRaise
  <1>3. \A p \in Payment : take[p] > 0 => payment[p].status = "succeeded"
    BY <1>00 DEF Hands, Fits
  <1>4. \A p \in Payment : alloc[p][i] = 0
    BY <1>0, <1>1 DEF IInv, KnowsRow, Hands, Blank, Unraised, AboutOne, Step
  <1>5. Recomputed(i, sum).paid = sum /\ Recomputed(i, sum).status # "none"
    BY DEF Recomputed
  <1> HIDE DEF sum
  <1>6. \A p \in Payment : /\ alloc'[p][i] = take[p]
                           /\ \A j \in Invoice \ {i} : alloc'[p][j] = alloc[p][j]
    BY <1>1, <1>2 DEF Typed, TypeOK
  <1>7. /\ invoice'[i] = Recomputed(i, sum)
        /\ \A j \in Invoice \ {i} : invoice'[j] = invoice[j]
    BY <1>1, <1>2 DEF Typed, TypeOK
  <1>8. invoice'[i].paid > 0 => PartCovered(i)'
    <2> SUFFICES ASSUME sum > 0 PROVE PartCovered(i)'
      BY <1>5, <1>7
    <2>1. PICK p \in Payment : take[p] > 0
      BY PaymentAssumption, SumHasPart DEF sum
    <2> QED
      BY <1>2, <1>3, <1>6, <2>1 DEF PartCovered
  <1>9. ASSUME NEW p \in Payment, NEW j \in Invoice
        PROVE  \/ alloc'[p][j] = alloc[p][j]
               \/ j = i /\ payment[p].status = "succeeded" /\ alloc'[p][j] > 0
    <2>1. take[p] = 0 \/ take[p] > 0
      BY <1>1
    <2> QED
      BY <1>3, <1>4, <1>6, <2>1
  <1> QED
    BY <1>1, <1>2, <1>5, <1>7, <1>8, <1>9, IdleMayHold, CreditHands

\* Credit is written on an invoice that exists.
LEMMA CommitCreditHands == ASSUME IInv, Typed, Hands, NEW w \in Worker, CommitCredit(w) PROVE Hands'
  <1>0. PICK i \in Invoice : i = tx[w].inv
    BY InHandTyped DEF CommitCredit, AboutOne, Step
  <1>00. PICK take \in [Payment -> Nat] : take = tx[w].take
    BY InHandTyped
  <1> DEFINE row(p) == IF take[p] > 0 THEN tx[w].had[p] + take[p] ELSE alloc[p][i]
             now == IF tx[w].amount = 0 THEN invoice[i] ELSE Recomputed(i, tx[w].amount)
             t == [Work("checking") EXCEPT !.inv = i, !.date = tx[w].date, !.amount = now.paid]
  <1>1. /\ tx[w].had \in [Payment -> Nat]
        /\ tx[w].amount \in Nat /\ tx[w].step = "summing"
    BY InHandTyped DEF CommitCredit, AboutOne, Step
  <1>2. /\ alloc' = [p \in Payment |-> [alloc[p] EXCEPT ![i] = row(p)]]
        /\ invoice' = [invoice EXCEPT ![i] = now]
        /\ Turn(w, Idle) \/ Turn(w, t)
        /\ UNCHANGED <<payment, forgiven, asked, raced>>
    BY <1>0, <1>00 DEF CommitCredit
  <1>3. /\ \A p \in Payment : take[p] > 0 => payment[p].status = "succeeded"
        /\ \E p \in Payment : take[p] > 0
    BY <1>00, <1>1 DEF Hands, Fits
  <1>4. invoice[i].status # "none"
    BY <1>0, <1>1 DEF IInv, KnowsRow, Holds
  <1>5. now.status # "none"
    BY <1>4 DEF Recomputed
  <1>6. /\ t.step = "checking" /\ t.inv = i /\ t.pay = None /\ t.amount = now.paid
        /\ \A p \in Payment : ~(t.take[p] > 0)
        /\ \A j \in Invoice : ~(t.owed[j] > 0)
    BY DEF Work
  <1>7. \A p \in Payment : /\ take[p] > 0 => row(p) > 0
                           /\ ~(take[p] > 0) => row(p) = alloc[p][i]
    BY <1>1
  <1> HIDE DEF row, now, t
  <1>8. \A p \in Payment : /\ alloc'[p][i] = row(p)
                           /\ \A j \in Invoice \ {i} : alloc'[p][j] = alloc[p][j]
    BY <1>1, <1>2 DEF Typed, TypeOK
  <1>9. /\ invoice'[i] = now
        /\ \A j \in Invoice \ {i} : invoice'[j] = invoice[j]
    BY <1>1, <1>2 DEF Typed, TypeOK
  <1>10. PartCovered(i)'
    BY <1>2, <1>3, <1>7, <1>8 DEF PartCovered
  <1>11. ASSUME NEW p \in Payment, NEW j \in Invoice
         PROVE  \/ alloc'[p][j] = alloc[p][j]
                \/ j = i /\ payment[p].status = "succeeded" /\ alloc'[p][j] > 0
    BY <1>3, <1>7, <1>8
  <1>12. PICK u : u = t
    OBVIOUS
  <1>13. MayHold(w, u)
    <2>1. Fits(u)'
      BY <1>6, <1>10, <1>12 DEF Fits
    <2>2. ASSUME NEW p \in Payment, Flies(p)', payment'[p].named = i PROVE i \in raced'
      <3>1. Flies(p) /\ payment[p].named = i /\ tx[w].pay = None
        BY <1>1, <1>2, <2>2 DEF Flies, Hands, Fits
      <3> QED
        BY <1>0, <1>2, <3>1, NoneIsNone DEF Hands, Beside, Holds
    <2> QED
      BY <1>6, <1>12, <2>1, <2>2 DEF MayHold
  <1> QED
    BY <1>1, <1>2, <1>5, <1>9, <1>10, <1>11, <1>12, <1>13, IdleMayHold, CreditHands

\* Invoices that exist are closed, and what is on them stays.
LEMMA ClosesHands ==
    ASSUME IInv, Typed, Hands, NEW w \in Worker, Turn(w, Idle), UNCHANGED <<payment, alloc, asked, raced>>,
           \A i \in Invoice :
               /\ invoice'[i].paid = invoice[i].paid
               /\ invoice'[i].status = "none" =>
                    invoice[i].status = "none" /\ forgiven'[i] = forgiven[i]
    PROVE  Hands'
  <1>1. Rows'
    BY DEF Hands, Rows, RowsFit, Charge
  <1>2. Blank' /\ Covered'
    BY DEF Hands, Blank, Unraised, Covered, PartCovered
  <1>3. Kept /\ Mine(w) /\ NoneBegun
    BY DEF Kept, Mine, NoneBegun
  <1> QED
    BY <1>1, <1>2, <1>3, IdleMayHold, StepHands DEF Remembers

\* A waiver closes its fee.
LEMMA CommitWaiverHands == ASSUME IInv, Typed, Hands, NEW w \in Worker, CommitWaiver(w) PROVE Hands'
  <1> DEFINE i == tx[w].inv
  <1>1. i \in Invoice /\ tx[w].step = "waiving"
    BY InHandTyped DEF CommitWaiver, AboutOne, Step
  <1>2. /\ Turn(w, Idle) /\ UNCHANGED <<payment, alloc, asked, raced>>
        /\ invoice' = [invoice EXCEPT ![i].status = "void"]
        /\ forgiven' = [forgiven EXCEPT ![i] = @ + tx[w].amount]
    BY DEF CommitWaiver
  <1> HIDE DEF i
  <1>3. ASSUME NEW j \in Invoice
        PROVE  /\ invoice'[j].paid = invoice[j].paid
               /\ invoice'[j].status = "none" =>
                    invoice[j].status = "none" /\ forgiven'[j] = forgiven[j]
    BY <1>1, <1>2 DEF Typed, TypeOK, InvoiceRow
  <1> QED
    BY <1>2, <1>3, ClosesHands

\* A write-off closes what it covers.
LEMMA CommitWriteOffHands == ASSUME IInv, Typed, Hands, NEW w \in Worker, CommitWriteOff(w) PROVE Hands'
  <1> DEFINE owed == tx[w].owed
             left == Remaining(owed, tx[w].amount)
             covered == {i \in Invoice : owed[i] > 0 /\ owed[i] <= left[i - 1]}
  <1>1. /\ Turn(w, Idle) /\ UNCHANGED <<payment, alloc, asked, raced>>
        /\ invoice' = [i \in Invoice |-> IF i \in covered
                                         THEN [invoice[i] EXCEPT !.status = "uncollectible"]
                                         ELSE invoice[i]]
        /\ forgiven' = [i \in Invoice |-> IF i \in covered THEN forgiven[i] + owed[i]
                                          ELSE forgiven[i]]
    BY DEF CommitWriteOff
  <1> HIDE DEF covered
  <1>2. ASSUME NEW i \in Invoice
        PROVE  /\ invoice'[i].paid = invoice[i].paid
               /\ invoice'[i].status = "none" =>
                    invoice[i].status = "none" /\ forgiven'[i] = forgiven[i]
    BY <1>1 DEF Typed, TypeOK, InvoiceRow
  <1> QED
    BY <1>1, <1>2, ClosesHands

\* A payment is taken by the only transaction that has it in hand.
LEMMA CommitPaymentHands == ASSUME IInv, Typed, Hands, NEW w \in Worker, CommitPayment(w) PROVE Hands'
  <1>0. PICK p \in Payment : p = tx[w].pay
    BY InHandTyped DEF CommitPayment, Points
  <1> DEFINE amount == tx[w].amount
             owed == StillOpen(w)
             lines == [i \in Invoice |-> Line(owed, amount, i)]
             paid == {i \in Invoice : owed[i] > 0 /\ lines[i] > 0}
             sum(i) == lines[i] + SumOf(RowsOf(i), Succeeded \ {p})
  <1>1. tx[w].step = "claiming"
    BY DEF CommitPayment
  <1>2. /\ payment' = [payment EXCEPT ![p].status = "succeeded", ![p].amount = amount]
        /\ alloc' = [alloc EXCEPT ![p] = [i \in Invoice |-> IF i \in paid THEN lines[i] ELSE @[i]]]
        /\ invoice' = [i \in Invoice |-> IF i \in paid /\ ~Spared(i)
                                         THEN Recomputed(i, sum(i)) ELSE invoice[i]]
        /\ Turn(w, Idle)
        /\ UNCHANGED <<forgiven, asked, raced>>
    BY <1>0 DEF CommitPayment
  <1>3. \A i \in paid : invoice[i].status \in Open /\ lines[i] > 0 /\ i \in Invoice
    BY DEF StillOpen
  <1>4. payment[p].status \in {"none", "pending"}
    BY <1>0, <1>1 DEF Hands, Fits
  <1>5. \A v \in Worker \ {w} : tx[v].pay # p
    BY <1>0, <1>1, NoneIsNone DEF Hands, Apart
  <1>6. \A i : Recomputed(i, sum(i)).status # "none"
    BY DEF Recomputed
  <1> HIDE DEF paid, lines, sum, amount
  <1>7. /\ payment'[p].status = "succeeded" /\ payment'[p].named = payment[p].named
        /\ payment'[p].date = payment[p].date
        /\ \A q \in Payment \ {p} : payment'[q] = payment[q]
    <2>1. payment[p] \in PaymentRow /\ payment \in [Payment -> PaymentRow]
      BY <1>1 DEF Typed, TypeOK
    <2>2. \A q \in Payment \ {p} : payment'[q] = payment[q]
      BY <1>2, <2>1
    <2>3. payment'[p] = [payment[p] EXCEPT !.status = "succeeded", !.amount = amount]
      BY <1>1, <1>2, <2>1
    <2> QED
      BY <2>1, <2>2, <2>3 DEF PaymentRow
  <1>8. /\ \A q \in Payment \ {p} : alloc'[q] = alloc[q]
        /\ \A i \in Invoice : alloc'[p][i] = IF i \in paid THEN lines[i] ELSE alloc[p][i]
    BY <1>1, <1>2 DEF Typed, TypeOK
  <1>9. Kept /\ Mine(w)
    BY <1>4, <1>5, <1>7, <1>8 DEF Kept, Mine
  <1>10. RowsFit(p)
    BY <1>1 DEF Hands, Rows
  <1>11. Charge(p)' => Charge(p)
    BY <1>4, <1>7, <1>10 DEF Charge, RowsFit
  <1>12. NoneBegun
    <2> SUFFICES ASSUME NEW q \in Payment
                 PROVE  /\ payment'[q].status \in InFlight \cup {"succeeded"} /\ payment'[q].status # payment[q].status
                           => /\ payment'[q].status = "succeeded"
                              /\ Charge(q)' => Charge(q)
                        /\ payment'[q].named = payment[q].named /\ payment'[q].date = payment[q].date
      BY DEF NoneBegun
    <2>1. CASE q = p
      BY <1>7, <1>11, <2>1
    <2>2. CASE q # p
      BY <1>7, <2>2
    <2> QED
      BY <2>1, <2>2
  <1>13. Rows'
    <2> SUFFICES ASSUME NEW q \in Payment PROVE RowsFit(q)'
      BY DEF Rows
    <2>1. CASE q = p
      <3>1. Charge(p)' => payment'[p].named \in Invoice /\ alloc'[p][payment'[p].named] > 0
        BY <1>3, <1>7, <1>8, <1>10, <1>11 DEF RowsFit
      <3> QED
        BY <1>7, <2>1, <3>1 DEF RowsFit, InFlight
    <2>2. CASE q # p
      <3>1. RowsFit(q)
        BY DEF Hands, Rows
      <3> QED
        BY <1>7, <1>8, <2>2, <3>1 DEF RowsFit, Charge
    <2> QED
      BY <2>1, <2>2
  <1>14. Blank'
    <2> SUFFICES ASSUME NEW i \in Invoice, invoice'[i].status = "none" PROVE Unraised(i)'
      BY DEF Blank, Unraised
    <2>1. invoice'[i] = invoice[i]
      BY <1>2, <1>6
    <2>2. i \notin paid
      BY <1>3, <2>1 DEF Open
    <2>3. \A q \in Payment : alloc'[q][i] = alloc[q][i]
      BY <1>8, <2>2
    <2> QED
      BY <1>2, <2>1, <2>3 DEF Hands, Blank, Unraised
  <1>15. Covered'
    <2> SUFFICES ASSUME NEW i \in Invoice, invoice'[i].paid > 0 PROVE PartCovered(i)'
      BY DEF Covered
    <2>1. CASE i \in paid
      BY <1>1, <1>3, <1>7, <1>8, <2>1 DEF PartCovered
    <2>2. CASE i \notin paid
      BY <1>2, <1>9, <2>2, CoverStays DEF Hands, Covered
    <2> QED
      BY <2>1, <2>2
  <1> QED
    BY <1>2, <1>9, <1>12, <1>13, <1>14, <1>15, IdleMayHold, StepHands DEF Remembers
-----------------------------------------------------------------------------
\* The row of a charge is created in the hands of the pass that asks for it.
LEMMA CreateChargeHands == ASSUME IInv, Typed, Hands, NEW w \in Worker, CreateCharge(w) PROVE Hands'
  <1>1. PICK i \in Invoice, d \in Date, amount \in Nat :
            i = tx[w].inv /\ d = tx[w].date /\ amount = Outstanding(w)
    <2>1. tx[w].inv \in Invoice /\ tx[w].date \in Date /\ tx[w].amount \in Nat
      BY InHandTyped DEF CreateCharge, AboutOne, Step, Points
    <2>2. Outstanding(w) \in Nat
      BY <2>1, LessTyped, InvoiceAssumption DEF Outstanding
    <2> QED
      BY <2>1, <2>2
  <1> DEFINE row == [status |-> "charging", amount |-> amount, named |-> i, date |-> d]
             u(p) == [tx[w] EXCEPT !.step = "asking", !.pay = p]
  <1>2. PICK p \in Payment :
            /\ NextPayment(p)
            /\ payment' = [payment EXCEPT ![p] = row]
            /\ alloc' = [alloc EXCEPT ![p][i] = amount]
            /\ Turn(w, u(p))
    BY <1>1 DEF CreateCharge
  <1>3. /\ tx[w].step = "charging" /\ UNCHANGED <<invoice, forgiven, asked, raced>>
        /\ payment[p].status = "none" /\ \A v \in Worker : tx[v].pay # p
    BY <1>2 DEF CreateCharge, NextPayment, Unused
  <1>4. amount > 0 /\ tx[w].pay = None
    BY <1>1, <1>3 DEF Hands, Fits, Outstanding
  <1>5. PICK t : t = u(p)
    OBVIOUS
  <1>6. /\ t.step = "asking" /\ t.pay = p /\ t.inv = i /\ t.date = d
        /\ t.owed = tx[w].owed /\ t.take = tx[w].take
    BY <1>1, <1>5 DEF IInv, Shapes, Fields
  <1>7. Turn(w, t)
    BY <1>2, <1>5
  <1> HIDE DEF u
  <1>8. tx'[w] = t /\ \A v \in Worker \ {w} : tx'[v] = tx[v]
    BY <1>7 DEF Typed, TypeOK, Turn
  <1>9. payment'[p] = row /\ \A q \in Payment \ {p} : payment'[q] = payment[q]
    BY <1>2 DEF Typed, TypeOK
  <1>10. /\ \A j \in Invoice : alloc[p][j] = 0
         /\ payment[p].named = None
    BY <1>3 DEF Hands, Rows, RowsFit
  <1>11. /\ \A j \in Invoice : alloc'[p][j] = IF j = i THEN amount ELSE 0
         /\ \A q \in Payment \ {p} : alloc'[q] = alloc[q]
    BY <1>2, <1>10 DEF Typed, TypeOK
  <1>12. Kept /\ Mine(w)
    BY <1>3, <1>9, <1>11 DEF Kept, Mine
  <1>13. Rows'
    <2> SUFFICES ASSUME NEW q \in Payment PROVE RowsFit(q)'
      BY DEF Rows
    <2>1. CASE q = p
      BY <1>4, <1>9, <1>11, <2>1 DEF RowsFit, InFlight, Charge
    <2>2. CASE q # p
      BY <1>9, <1>11, <2>2 DEF Hands, Rows, RowsFit, Charge
    <2> QED
      BY <2>1, <2>2
  <1>14. Blank'
    <2>1. invoice[i].status # "none"
      BY <1>1, <1>3 DEF IInv, KnowsRow, Holds
    <2>2. \A q \in Payment, j \in Invoice \ {i} : alloc'[q][j] = alloc[q][j]
      BY <1>10, <1>11
    <2> QED
      BY <1>3, <2>1, <2>2 DEF Hands, Blank, Unraised
  <1>15. Covered'
    BY <1>3, <1>12, CoverStays DEF Hands, Covered
  <1>16. ASSUME NEW v \in Worker PROVE Fits(tx[v])'
    <2>1. CASE v = w
      <3>1. Fits(tx[w])
        BY DEF Hands
      <3>2. \A q \in Payment : ~(t.take[q] > 0)
        BY <1>3, <1>6, <3>1 DEF Fits
      <3>3. Fits(t)'
        BY <1>6, <1>9, <3>2 DEF Fits
      <3> QED
        BY <1>8, <2>1, <3>3 DEF Fits, PartCovered
    <2>2. CASE v # w
      BY <1>8, <1>12, <2>2, RestFits
    <2> QED
      BY <2>1, <2>2
  <1>17. \A x, v \in Worker : x # v => Apart(x, v)'
    BY <1>3, <1>6, <1>8 DEF Hands, Apart
  <1>18. ASSUME NEW v \in Worker \ {w}, Holds(v, i) PROVE i \in raced
    BY <1>1, <1>18 DEF IInv, Shared, Holds
  <1>19. ASSUME NEW q \in Payment, NEW v \in Worker PROVE Beside(q, v)'
    <2>1. CASE q = p
      <3>1. ~Charge(p)'
        BY <1>9 DEF Charge
      <3>2. CASE v = w
        BY <1>6, <1>8, <2>1, <3>1, <3>2 DEF Beside
      <3>3. CASE v # w
        BY <1>3, <1>8, <1>9, <1>18, <2>1, <3>1, <3>3 DEF Beside, Holds
      <3> QED
        BY <3>2, <3>3
    <2>2. CASE q # p
      <3>1. Beside(q, v) /\ payment'[q] = payment[q]
        BY <1>9, <2>2 DEF Hands
      <3>2. CASE v = w
        BY <1>1, <1>3, <1>4, <1>6, <1>8, <2>2, <3>1, <3>2, NoneIsNone DEF Beside, Flies, Charge, Holds
      <3>3. CASE v # w
        BY <1>3, <1>8, <3>1, <3>3 DEF Beside, Flies, Charge, Holds
      <3> QED
        BY <3>2, <3>3
    <2> QED
      BY <2>1, <2>2
  <1>20. ASSUME NEW q \in Payment \ {p}, Flies(q), payment[q].named = i PROVE i \in raced
    BY <1>1, <1>4, <1>20, NoneIsNone DEF Hands, Beside, Holds
  <1>21. ASSUME NEW q \in Payment, NEW r \in Payment, q # r PROVE Twice(q, r)'
    <2>1. ~Charge(p)'
      BY <1>9 DEF Charge
    <2>2. CASE q = p
      BY <1>3, <1>9, <1>20, <1>21, <2>1, <2>2 DEF Twice, Flies
    <2>3. CASE r = p
      BY <1>3, <1>9, <1>20, <1>21, <2>1, <2>3 DEF Twice, Flies
    <2>4. CASE q # p /\ r # p
      BY <1>3, <1>9, <1>21, <2>4 DEF Hands, Twice, Flies, Charge
    <2> QED
      BY <2>2, <2>3, <2>4
  <1> QED
    BY <1>13, <1>14, <1>15, <1>16, <1>17, <1>19, <1>21 DEF Hands

\* An answer that ends a charge: it failed, or its row is one too many.
LEMMA EndsCharge ==
    ASSUME IInv, Typed, Hands, NEW w \in Worker, tx[w].step = "asking", Turn(w, Idle),
           Remembers, UNCHANGED <<invoice, forgiven, raced>>,
           NEW p \in Payment, p = tx[w].pay, NEW answer \in {"deleted"} \cup Declined,
           payment' = [payment EXCEPT ![p].status = answer],
           alloc' = alloc \/ alloc' = [alloc EXCEPT ![p] = [i \in Invoice |-> 0]],
           answer = "deleted" => alloc' = [alloc EXCEPT ![p] = [i \in Invoice |-> 0]]
    PROVE  Hands'
  <1>1. payment[p].status = "charging"
    BY DEF Hands, Fits
  <1>2. /\ payment'[p] = [payment[p] EXCEPT !.status = answer]
        /\ \A q \in Payment \ {p} : payment'[q] = payment[q]
    BY DEF Typed, TypeOK
  <1>3. /\ payment'[p].status = answer /\ payment'[p].named = payment[p].named
        /\ payment'[p].date = payment[p].date
    BY <1>2 DEF Typed, TypeOK, PaymentRow
  <1>4. /\ \A q \in Payment \ {p} : alloc'[q] = alloc[q]
        /\ \A i \in Invoice : alloc'[p][i] = alloc[p][i] \/ alloc'[p][i] = 0
        /\ answer = "deleted" => \A i \in Invoice : alloc'[p][i] = 0
    BY DEF Typed, TypeOK
  <1>5. ~Charge(p)' /\ answer \notin InFlight \cup {"succeeded", "none"}
    BY <1>3 DEF Charge, Declined, InFlight
  <1>6. \A v \in Worker \ {w} : tx[v].pay # p
    BY NoneIsNone DEF Hands, Apart
  <1>7. Kept /\ Mine(w)
    BY <1>1, <1>2, <1>4, <1>6 DEF Kept, Mine
  <1>8. NoneBegun
    BY <1>2, <1>3, <1>5 DEF NoneBegun
  <1>9. Rows'
    <2> SUFFICES ASSUME NEW q \in Payment PROVE RowsFit(q)'
      BY DEF Rows
    <2>1. CASE q = p
      BY <1>3, <1>4, <1>5, <2>1 DEF RowsFit
    <2>2. CASE q # p
      BY <1>2, <1>4, <2>2 DEF Hands, Rows, RowsFit, Charge
    <2> QED
      BY <2>1, <2>2
  <1>10. Blank'
    <2>1. \A q \in Payment, i \in Invoice : alloc[q][i] = 0 => alloc'[q][i] = 0
      BY <1>4
    <2> QED
      BY <2>1 DEF Hands, Blank, Unraised
  <1>11. Covered'
    BY <1>7, CoverStays DEF Hands, Covered
  <1> QED
    BY <1>7, <1>8, <1>9, <1>10, <1>11, IdleMayHold, StepHands

\* A charge goes through: nothing else was asked for on that date.
LEMMA BeginsCharge ==
    ASSUME IInv, Typed, Hands, NEW w \in Worker, tx[w].step = "asking", Turn(w, Idle),
           UNCHANGED <<invoice, alloc, forgiven, raced>>,
           NEW p \in Payment, p = tx[w].pay, NEW i \in Invoice, i = tx[w].inv,
           NEW d \in Date, d = tx[w].date, asked[i][d] = None,
           asked' = [asked EXCEPT ![i][d] = p],
           payment' = [payment EXCEPT ![p].status = "pending"]
    PROVE  Hands'
  <1>1. payment[p].status = "charging" /\ payment[p].named = i /\ payment[p].date = d
    BY DEF Hands, Fits
  <1>2. /\ payment'[p] = [payment[p] EXCEPT !.status = "pending"]
        /\ \A q \in Payment \ {p} : payment'[q] = payment[q]
    BY DEF Typed, TypeOK
  <1>3. /\ payment'[p].status = "pending" /\ payment'[p].named = i /\ payment'[p].date = d
        /\ payment'[p].amount = payment[p].amount
    BY <1>1, <1>2 DEF Typed, TypeOK, PaymentRow
  <1>4. \A v \in Worker \ {w} : tx[v].pay # p
    BY NoneIsNone DEF Hands, Apart
  <1>5. Kept /\ Mine(w)
    BY <1>1, <1>2, <1>4 DEF Kept, Mine
  <1>6. Rows'
    <2> SUFFICES ASSUME NEW q \in Payment PROVE RowsFit(q)'
      BY DEF Rows
    <2>1. CASE q = p
      <3>1. RowsFit(p)
        BY DEF Hands, Rows
      <3> QED
        BY <1>1, <1>3, <2>1, <3>1 DEF RowsFit, InFlight, Charge
    <2>2. CASE q # p
      BY <1>2, <2>2 DEF Hands, Rows, RowsFit, Charge
    <2> QED
      BY <2>1, <2>2
  <1>7. Blank' /\ Covered'
    <2>1. Blank'
      BY DEF Hands, Blank, Unraised
    <2> QED
      BY <1>5, <2>1, CoverStays DEF Hands, Covered
  <1>8. tx'[w] = Idle /\ \A v \in Worker \ {w} : tx'[v] = tx[v]
    BY DEF Typed, TypeOK, Turn
  <1>9. /\ Idle.step = "idle" /\ Idle.pay = None /\ Idle.inv = None
        /\ \A q \in Payment : ~(Idle.take[q] > 0)
        /\ \A j \in Invoice : ~(Idle.owed[j] > 0)
    BY DEF Idle, Work
  <1> HIDE DEF Idle
  <1>10. ASSUME NEW v \in Worker PROVE Fits(tx[v])'
    <2>1. CASE v = w
      BY <1>8, <1>9, <2>1 DEF Fits
    <2>2. CASE v # w
      BY <1>5, <1>8, <2>2, RestFits
    <2> QED
      BY <2>1, <2>2
  <1>11. \A x, v \in Worker : x # v => Apart(x, v)'
    BY <1>8, <1>9 DEF Hands, Apart
  <1>12. asked'[i][d] # None /\ \A j \in Invoice, e \in Date : asked[j][e] # None => asked'[j][e] # None
    BY NoneIsNone DEF Typed, TypeOK
  <1>13. ASSUME NEW v \in Worker \ {w}, Holds(v, i) PROVE i \in raced
    BY <1>13 DEF IInv, Shared, Holds
  <1>14. ASSUME NEW q \in Payment, NEW v \in Worker PROVE Beside(q, v)'
    <2>1. CASE v = w
      <3>1. Flies(q)' => payment'[q].named \in Invoice
        BY <1>2, <1>3 DEF Flies, Typed, Named
      <3> QED
        BY <1>8, <1>9, <2>1, <3>1, NoneIsNone DEF Beside, Holds
    <2>2. CASE v # w /\ q = p
      <3>1. ASSUME tx[v].step \in {"charging", "asking"}, tx[v].inv = i
            PROVE  i \in raced
        BY <1>13, <2>2, <3>1 DEF Holds
      <3>2. ASSUME Holds(v, i) PROVE i \in raced
        BY <1>13, <2>2, <3>2
      <3>3. tx'[v] = tx[v] /\ raced' = raced
        BY <1>8, <2>2
      <3> QED
        BY <1>3, <1>12, <2>2, <3>1, <3>2, <3>3 DEF Beside, Holds
    <2>3. CASE v # w /\ q # p
      <3>1. Beside(q, v) /\ payment'[q] = payment[q] /\ tx'[v] = tx[v] /\ raced' = raced
        BY <1>2, <1>8, <2>3 DEF Hands
      <3>2. tx[v].step \in {"charging", "asking"} => tx[v].inv \in Invoice /\ tx[v].date \in Date
        BY <2>3, InHandTyped DEF AboutOne, Step, Points
      <3> QED
        BY <1>12, <3>1, <3>2 DEF Beside, Flies, Charge, Holds
    <2> QED
      BY <2>1, <2>2, <2>3
  <1>15. ASSUME NEW q \in Payment \ {p}, payment[q].named = i
         PROVE  /\ Flies(q) => i \in raced
                /\ Charge(q) => i \in raced /\ payment[q].date # d
    <2>1. Twice(p, q) /\ Beside(q, w)
      BY DEF Hands
    <2>2. Flies(p)
      BY <1>1 DEF Flies, InFlight
    <2> QED
      BY <1>1, <1>15, <2>1, <2>2 DEF Twice, Beside
  <1>16. ASSUME NEW q \in Payment, NEW r \in Payment, q # r PROVE Twice(q, r)'
    <2>1. CASE q = p
      <3>1. payment'[r] = payment[r] /\ r \in Payment \ {p}
        BY <1>2, <1>16, <2>1
      <3>2. payment[r].named = i => /\ Flies(r) => i \in raced
                                    /\ Charge(r) => i \in raced /\ payment[r].date # d
        BY <1>15, <3>1
      <3> QED
        BY <1>3, <2>1, <3>1, <3>2 DEF Twice, Flies, Charge
    <2>2. CASE r = p
      <3>1. payment'[q] = payment[q] /\ q \in Payment \ {p}
        BY <1>2, <1>16, <2>2
      <3>2. payment[q].named = i => /\ Flies(q) => i \in raced
                                    /\ Charge(q) => i \in raced /\ payment[q].date # d
        BY <1>15, <3>1
      <3> QED
        BY <1>3, <2>2, <3>1, <3>2 DEF Twice, Flies, Charge
    <2>3. CASE q # p /\ r # p
      BY <1>2, <1>16, <2>3 DEF Hands, Twice, Flies, Charge
    <2> QED
      BY <2>1, <2>2, <2>3
  <1> QED
    BY <1>6, <1>7, <1>10, <1>11, <1>14, <1>16 DEF Hands

\* Stripe answers.
LEMMA AskHands == ASSUME IInv, Typed, Hands, NEW w \in Worker, NEW answer \in {"pending"} \cup Declined,
                         Ask(w, answer)
                  PROVE  Hands'
  <1>1. PICK p \in Payment, i \in Invoice, d \in Date : p = tx[w].pay /\ i = tx[w].inv /\ d = tx[w].date
    BY InHandTyped DEF Ask, AboutOne, Step, Points
  <1>2. /\ tx[w].step = "asking" /\ asked[i][d] = None /\ asked' = [asked EXCEPT ![i][d] = p]
        /\ payment' = [payment EXCEPT ![p].status = answer] /\ Turn(w, Idle)
        /\ UNCHANGED <<invoice, alloc, forgiven, raced>>
    BY <1>1 DEF Ask, Answer
  <1>5. Remembers
    BY <1>2, NoneIsNone DEF Remembers, Typed, TypeOK
  <1>3. CASE answer = "pending"
    BY <1>1, <1>2, <1>3, BeginsCharge
  <1>4. CASE answer \in Declined
    <2>1. answer \in {"deleted"} \cup Declined /\ answer # "deleted"
      BY <1>4 DEF Declined
    <2> QED
      BY <1>1, <1>2, <1>5, <2>1, EndsCharge
  <1> QED
    BY <1>3, <1>4

\* Stripe answers as it did before.
LEMMA AskAgainHands == ASSUME IInv, Typed, Hands, NEW w \in Worker, AskAgain(w) PROVE Hands'
  <1>1. PICK p \in Payment : p = tx[w].pay
    BY InHandTyped DEF AskAgain, Points
  <1> DEFINE q == asked[tx[w].inv][tx[w].date]
             answer == IF payment[q].status \in Declined THEN payment[q].status ELSE "deleted"
  <1>2. PICK a : a = answer
    OBVIOUS
  <1>3. a \in {"deleted"} \cup Declined /\ "deleted" \notin Declined
    BY <1>2 DEF Declined
  <1>4. /\ tx[w].step = "asking" /\ payment' = [payment EXCEPT ![p].status = a] /\ Turn(w, Idle)
        /\ alloc' = IF payment[q].status \in Declined THEN alloc
                    ELSE [alloc EXCEPT ![p] = [i \in Invoice |-> 0]]
        /\ UNCHANGED <<invoice, forgiven, asked, raced>>
    BY <1>1, <1>2 DEF AskAgain, Answer
  <1> QED
    BY <1>1, <1>2, <1>3, <1>4, EndsCharge DEF Remembers

\* A fee is raised, or a rent invoice voided.
LEMMA InvoiceHands == ASSUME IInv, Typed, Hands, NEW i \in Invoice, RaiseFee(i) \/ VoidInvoice(i)
                      PROVE  Hands'
  <1>1. UNCHANGED <<tx, payment, alloc, asked>> /\ raced \subseteq raced'
    BY DEF RaiseFee, VoidInvoice
  <1>2. /\ \A j \in Invoice \ {i} : invoice'[j] = invoice[j] /\ forgiven'[j] = forgiven[j]
        /\ invoice'[i].status # "none" /\ (invoice'[i].paid > 0 => invoice[i].paid > 0)
    <2>1. CASE RaiseFee(i)
      BY <2>1 DEF RaiseFee, Raise, Typed, TypeOK
    <2>2. CASE VoidInvoice(i)
      <3>1. /\ invoice' = [invoice EXCEPT ![i].status = "void"]
            /\ forgiven' = [forgiven EXCEPT ![i] = @ + Total[i]]
        BY <2>2 DEF VoidInvoice
      <3> QED
        BY <3>1 DEF Typed, TypeOK, InvoiceRow
    <2> QED
      BY <2>1, <2>2
  <1>3. Blank'
    BY <1>1, <1>2 DEF Hands, Blank, Unraised
  <1>4. Covered'
    BY <1>1, <1>2 DEF Hands, Covered, PartCovered
  <1> QED
    BY <1>1, <1>3, <1>4, NobodysHands

\* Stripe forgets what no pass is about.
LEMMA ForgetHands == ASSUME IInv, Typed, Hands, NEW i \in Invoice, NEW d \in Date, Forget(i, d)
                     PROVE  Hands'
  <1>1. UNCHANGED <<tx, invoice, payment, alloc, forgiven, raced>>
    BY DEF Forget, books
  <1>2. Rows'
    BY <1>1 DEF Hands, Rows, RowsFit, Charge
  <1>3. Blank' /\ Covered'
    BY <1>1 DEF Hands, Blank, Unraised, Covered, PartCovered
  <1>4. \A v \in Worker : Fits(tx[v])'
    BY <1>1 DEF Hands, Fits, PartCovered
  <1>5. \A u, v \in Worker : u # v => Apart(u, v)'
    BY <1>1 DEF Hands, Apart
  <1>6. ASSUME NEW p \in Payment, NEW v \in Worker PROVE Beside(p, v)'
    <2>1. Beside(p, v)
      BY DEF Hands
    <2>2. tx[v].step \in {"charging", "asking"} =>
              asked'[tx[v].inv][tx[v].date] = asked[tx[v].inv][tx[v].date]
      <3>1. tx[v].step \in {"charging", "asking"} => tx[v].inv \in Invoice /\ tx[v].date \in Date
        BY InHandTyped DEF AboutOne, Step, Points
      <3>2. tx[v].inv # i \/ tx[v].date # d
        BY DEF Forget
      <3>3. asked' = [asked EXCEPT ![i][d] = None]
        BY DEF Forget
      <3> QED
        BY <3>1, <3>2, <3>3 DEF Typed, TypeOK
    <2> QED
      BY <1>1, <2>1, <2>2 DEF Beside, Flies, Charge, Holds
  <1>7. \A p, q \in Payment : p # q => Twice(p, q)'
    BY <1>1 DEF Hands, Twice, Flies, Charge
  <1> QED
    BY <1>2, <1>3, <1>4, <1>5, <1>6, <1>7 DEF Hands

\* Every step keeps what is in hand in order.
LEMMA NextHands == IInv /\ Typed /\ Hands /\ [Next]_vars => Hands'
  <1> SUFFICES ASSUME IInv, Typed, Hands, [Next]_vars PROVE Hands'
    OBVIOUS
  <1>1. ASSUME NEW w \in Worker, Begin(w) PROVE Hands'
    BY <1>1, ReadForRaiseHands, StaffCreditHands, ReadForWaiverHands, ListHands, TakePaymentHands,
       SettleChargeHands, ReadForWriteOffHands DEF Begin
  <1>2. ASSUME NEW w \in Worker, Continue(w) PROVE Hands'
    BY <1>2, CommitRaiseHands, WriteCreditHands, CommitCreditHands, CommitPaymentHands,
       CommitWaiverHands, CommitWriteOffHands, SweepHands, SkipHands, AttemptHands,
       CreateChargeHands, AskHands, AskAgainHands DEF Continue
  <1>3. CASE UNCHANGED vars
    <2>1. UNCHANGED <<tx, invoice, payment, alloc, asked, forgiven, raced>>
      BY <1>3 DEF vars, books
    <2>2. Blank' /\ Covered'
      BY <2>1 DEF Hands, Blank, Unraised, Covered, PartCovered
    <2> QED
      BY <2>1, <2>2, NobodysHands
  <1> QED
    BY <1>1, <1>2, <1>3, InvoiceHands, ForgetHands DEF Next

\* What is in hand is in order at every step.
LEMMA HandsHold == Spec => []Hands
  <1> QED
    BY InitHands, NextHands, InvariantHolds, TypedHolds, PTL DEF Spec

\* A card is charged once for an invoice on a date, however many passes overlap
\* and whatever Stripe has forgotten since; on two dates, only by passes that
\* overlapped.
THEOREM ChargesOnce == Spec => []ChargedOnce
  <1>1. Hands => ChargedOnce
    BY DEF Hands, Twice, ChargedOnce
  <1> QED
    BY HandsHold, <1>1, PTL
-----------------------------------------------------------------------------
(* What a pass leaves behind *)

\* A pass ends only by being skipped.
LEMMA PassesBySkip ==
    ASSUME IInv, Typed, Next, NEW w \in Worker, tx[w].step = "checking", tx'[w] = Idle
    PROVE  Skip(w)
  <1>1. Idle.step = "idle"
    BY DEF Idle, Work
  <1>2. DOMAIN tx = Worker
    BY DEF Typed, TypeOK
  <1>3. tx'[w] # tx[w]
    BY <1>1 DEF IsIdle
  <1>4. ASSUME NEW v \in Worker, Begin(v) PROVE FALSE
    <2>1. PICK t : Turn(v, t)
      BY <1>4 DEF Begin, ReadForRaise, StaffCredit, ReadCredit, ReadForWaiver, List, TakePayment,
         SettleCharge, ReadForWriteOff
    <2>2. v = w
      BY <1>2, <1>3, <2>1 DEF Turn
    <2>3. IsIdle(v)
      BY <1>4 DEF Begin, ReadForRaise, StaffCredit, ReadForWaiver, List, TakePayment,
         SettleCharge, ReadForWriteOff
    <2> QED
      BY <1>1, <2>2, <2>3 DEF IsIdle
  <1>5. ASSUME NEW v \in Worker, Continue(v) PROVE Skip(w)
    <2>1. PICK t : Turn(v, t)
      BY <1>5 DEF Continue, CommitRaise, WriteCredit, CommitCredit, CommitPayment, CommitWaiver,
         CommitWriteOff, Sweep, ReadCredit, Skip, Attempt, CreateCharge, AskAgain, Ask, Answer
    <2>2. v = w
      BY <1>2, <1>3, <2>1 DEF Turn
    <2>3. Skip(w) \/ Attempt(w)
      BY <1>5, <2>2 DEF Continue, CommitRaise, WriteCredit, CommitCredit, CommitPayment,
         CommitWaiver, CommitWriteOff, Sweep, CreateCharge, AskAgain, Ask
    <2>4. ASSUME Attempt(w) PROVE FALSE
      <3>1. tx'[w] = [tx[w] EXCEPT !.step = "charging"]
        BY <1>2, <2>4 DEF Attempt, Turn
      <3>2. tx'[w].step = "charging"
        BY <3>1 DEF Typed, TypeOK, Transaction
      <3> QED
        BY <1>1, <3>2
    <2> QED
      BY <2>3, <2>4
  <1>6. ASSUME NEW i \in Invoice, RaiseFee(i) \/ VoidInvoice(i) PROVE FALSE
    BY <1>3, <1>6 DEF RaiseFee, VoidInvoice
  <1>7. ASSUME NEW i \in Invoice, NEW d \in Date, Forget(i, d) PROVE FALSE
    BY <1>3, <1>7 DEF Forget
  <1> QED
    BY <1>4, <1>5, <1>6, <1>7 DEF Next

\* A pass that found no money on the invoice accounts for it.
LEMMA SkipAccounts ==
    ASSUME IInv, Typed, Hands, NEW w \in Worker, Skip(w), Owed(tx[w].inv) > 0,
           LeaseOf[tx[w].inv] \in Carded, ~PartCovered(tx[w].inv)
    PROVE  Accounted(w, tx[w].inv)
  <1> DEFINE i == tx[w].inv
  <1>1. tx[w].step = "checking" /\ i \in Invoice /\ tx[w].amount \in Nat
    BY InHandTyped DEF Skip, AboutOne, Step
  <1>2. ~(tx[w].amount > 0)
    BY <1>1 DEF Hands, Fits
  <1>3. Outstanding(w) > 0
    <2>1. Total[i] \in Nat \ {0}
      BY <1>1, InvoiceAssumption
    <2>2. tx[w].amount = 0
      BY <1>1, <1>2
    <2> QED
      BY <2>1, <2>2 DEF Outstanding, Less
  <1>4. CASE AttemptInFlight(i)
    BY <1>4 DEF AttemptInFlight, PartCovered, Accounted
  <1>5. CASE ~AttemptInFlight(i) /\ GivenUp(i)
    BY <1>3, <1>5 DEF Skip, Tells, Accounted
  <1>6. CASE ~AttemptInFlight(i) /\ ~GivenUp(i)
    BY <1>3, <1>6 DEF Skip, Accounted
  <1> QED
    BY <1>4, <1>5, <1>6

\* A pass never leaves an unpaid invoice of a saved card with neither a charge,
\* a next try nor a task, when no money is on it: whatever credit, payments and
\* other passes ran beside it.
THEOREM PassesAccount == Spec => PassAccounts
  <1>1. IInv /\ Typed /\ Hands /\ [Next]_vars
        => [\A w \in Worker : Passed(w) /\ ~PartCovered(tx[w].inv) => Accounted(w, tx[w].inv)]_vars
    BY PassesBySkip, SkipAccounts DEF Passed
  <1> QED
    BY InvariantHolds, TypedHolds, HandsHold, <1>1, PTL DEF Spec, PassAccounts
-----------------------------------------------------------------------------
(* What a division hands out *)

\* An order in which the members of a set take their turns: those before each.
Turns(S, before) ==
    /\ before \in [S -> SUBSET S]
    /\ \A x \in S : x \notin before[x]
    /\ \A x \in S : \A y \in before[x] : before[y] \subseteq before[x]
    /\ \A x, y \in S : x # y => x \in before[y] \/ y \in before[x]

\* Of some members that have had their turn, one was the last.
LEMMA LastTurn ==
  ASSUME NEW S, NEW before, Turns(S, before), NEW T \in SUBSET S, IsFiniteSet(T), T # {},
         \A x \in T : before[x] \subseteq T
  PROVE  \E m \in T : T = before[m] \cup {m}
  <1> DEFINE rest(x) == T \ before[x]
             C == {rest(x) : x \in T}
  <1>1. IsFiniteSet(T) /\ C \in SUBSET SUBSET T
    OBVIOUS
  <1>2. \A U : U \in C <=> \E x \in T : U = rest(x)
    OBVIOUS
  <1>3. PICK z \in T : TRUE
    OBVIOUS
  <1> HIDE DEF C
  <1>4. rest(z) \in C /\ C # {}
    BY <1>2
  <1>5. PICK U \in C : \A V \in C : V \subseteq U => V = U
    BY <1>1, <1>4, LeastSubset, SMT
  <1>6. PICK m \in T : U = rest(m)
    BY <1>2
  <1>7. ASSUME NEW x \in T, x # m, m \in before[x] PROVE FALSE
    <2>1. m \in rest(m) /\ m \notin rest(x)
      BY <1>7 DEF Turns
    <2>2. rest(x) \subseteq rest(m)
      BY <1>7 DEF Turns
    <2>3. rest(x) \in C
      BY <1>2
    <2> HIDE DEF rest
    <2> QED
      BY <1>5, <1>6, <2>1, <2>2, <2>3
  <1>8. \A x \in T : x # m => x \in before[m]
    BY <1>7 DEF Turns
  <1>9. before[m] \subseteq T
    OBVIOUS
  <1> QED
    BY <1>8, <1>9

\* Taking turns, each as much as it can have of what is left, the members get
\* all there is or all they can have.
LEMMA FillsUp ==
  ASSUME NEW S, IsFiniteSet(S), NEW before, Turns(S, before), NEW f, \A x \in S : f[x] \in Nat,
         NEW room \in Nat, NEW g,
         \A x \in S : g[x] = Least(f[x], Less(room, SumOf(f, before[x])))
  PROVE  SumOf(g, S) = Least(room, SumOf(f, S))
  <1> DEFINE Down(T) == \A x \in T : before[x] \subseteq T
             B == {T \in SUBSET S : Down(T) /\ SumOf(g, T) # Least(room, SumOf(f, T))}
  <1>1. Down(S)
    BY DEF Turns
  <1> SUFFICES ASSUME B # {} PROVE FALSE
    BY <1>1
  <1>2. IsFiniteSet(S) /\ B \in SUBSET SUBSET S
    OBVIOUS
  <1>3. \A T : T \in B <=> T \in SUBSET S /\ Down(T) /\ SumOf(g, T) # Least(room, SumOf(f, T))
    OBVIOUS
  <1> HIDE DEF B
  <1>4. PICK T \in B : \A U \in B : U \subseteq T => U = T
    BY <1>2, LeastSubset, SMT
  <1>5. T \in SUBSET S /\ Down(T) /\ SumOf(g, T) # Least(room, SumOf(f, T)) /\ IsFiniteSet(T)
    BY <1>3, FS_Subset
  <1>6. \A U \in SUBSET S : IsFiniteSet(U) /\ SumOf(f, U) \in Nat
    BY FS_Subset, SumNat DEF SumOf
  <1>7. \A x \in S : g[x] \in Nat
    <2> SUFFICES ASSUME NEW x \in S PROVE g[x] \in Nat
      OBVIOUS
    <2>1. before[x] \in SUBSET S
      BY DEF Turns
    <2>2. SumOf(f, before[x]) \in Nat
      BY <1>6, <2>1
    <2> QED
      BY <2>2, LessTyped
  <1>8. CASE T = {}
    <2>1. SumOf(g, T) = 0 /\ SumOf(f, T) = 0
      BY <1>8, SumEmpty DEF SumOf
    <2> QED
      BY <1>5, <2>1 DEF Least
  <1>9. CASE T # {}
    <2>1. PICK m \in T : T = before[m] \cup {m}
      BY <1>5, <1>9, LastTurn
    <2> DEFINE U == before[m]
    <2>2. m \in S /\ U \in SUBSET S /\ U \subseteq T /\ m \notin U /\ Down(U)
      BY <1>5, <2>1 DEF Turns
    <2> HIDE DEF U, Down
    <2>3. U \notin B
      BY <1>4, <2>1, <2>2
    <2>4. SumOf(g, U) = Least(room, SumOf(f, U))
      BY <1>3, <2>2, <2>3
    <2>5. T = U \cup {m}
      BY <2>1 DEF U
    <2>a. IsFiniteSet(U)
      BY <1>6, <2>2
    <2>b. \A x \in U \cup {m} : g[x] \in Int /\ f[x] \in Int
      BY <1>7, <2>2
    <2>6. SumOf(g, T) = g[m] + SumOf(g, U)
      <3>1. \A x \in U \cup {m} : g[x] \in Int
        BY <2>b
      <3> QED
        BY <2>a, <3>1, <2>2, <2>5, SumAdds DEF SumOf
    <2>7. SumOf(f, T) = f[m] + SumOf(f, U)
      <3>1. \A x \in U \cup {m} : f[x] \in Int
        BY <2>b
      <3> QED
        BY <2>a, <3>1, <2>2, <2>5, SumAdds DEF SumOf
    <2>8. g[m] = Least(f[m], Less(room, SumOf(f, U))) /\ f[m] \in Nat
      BY <2>2 DEF U
    <2>9. SumOf(f, U) \in Nat
      BY <1>6, <2>2
    <2> QED
      BY <1>5, <2>4, <2>6, <2>7, <2>8, <2>9 DEF Least, Less
  <1> QED
    BY <1>8, <1>9

\* The credit taken for a room is no more than the room, nor of any payment more
\* than it has.
LEMMA TakenFits ==
  ASSUME Typed, NEW room \in Nat
  PROVE  /\ SumOf(Taken(room), Payment) <= room
         /\ \A p \in Payment : Taken(room)[p] <= Spare(p)
  <1> DEFINE spare == [p \in Payment |-> Spare(p)]
             before == [p \in Payment |-> {q \in Payment : q < p}]
             g == Taken(room)
  <1>1. \A p \in Payment : spare[p] \in Nat
    BY SpareTyped DEF Typed
  <1>2. Turns(Payment, before)
    <2>1. \A p, q, r \in Payment : ~(p < p) /\ (q < p /\ r < q => r < p) /\ (p # q => p < q \/ q < p)
      BY PaymentAssumption
    <2> QED
      BY <2>1 DEF Turns
  <1>3. \A p \in Payment : g[p] = Least(spare[p], Less(room, SumOf(spare, before[p])))
    BY DEF Taken
  <1> HIDE DEF spare, before, g
  <1>4. SumOf(g, Payment) = Least(room, SumOf(spare, Payment))
    <2>1. IsFiniteSet(Payment)
      BY PaymentAssumption
    <2> QED
      BY <1>1, <1>2, <1>3, <2>1, FillsUp
  <1>5. SumOf(spare, Payment) \in Nat
    BY <1>1, SumOfPayments
  <1>6. ASSUME NEW p \in Payment PROVE g[p] <= spare[p]
    <2>1. before[p] \in SUBSET Payment
      BY DEF before
    <2>2. SumOf(spare, before[p]) \in Nat
      BY <1>1, <2>1, SumOfPayments
    <2> QED
      BY <1>1, <1>3, <2>2, LessTyped
  <1>7. \A p \in Payment : spare[p] = Spare(p)
    BY DEF spare
  <1>8. SumOf(g, Payment) <= room
    BY <1>4, <1>5, LessTyped
  <1> QED
    BY <1>6, <1>7, <1>8 DEF g

\* The lines of a payment are no more than its amount.
LEMMA LinesFit ==
  ASSUME NEW owed \in [Invoice -> Nat], NEW amount \in Nat, NEW lines,
         lines = [i \in Invoice |-> Line(owed, amount, i)]
  PROVE  lines \in [Invoice -> Nat] /\ SumOf(lines, Invoice) <= amount
  <1> DEFINE before == [i \in Invoice |-> {j \in Invoice : Ahead(j, i)}]
  <1>1. \A i \in Invoice : owed[i] \in Nat
    OBVIOUS
  <1>2. Turns(Invoice, before)
    <2>1. \A i, j, k \in Invoice : /\ ~Ahead(i, i) /\ (Ahead(j, i) /\ Ahead(k, j) => Ahead(k, i))
                                   /\ (i # j => Ahead(i, j) \/ Ahead(j, i))
      BY InvoiceAssumption DEF Ahead
    <2> QED
      BY <2>1 DEF Turns
  <1>3. \A i \in Invoice : lines[i] = Least(owed[i], Less(amount, SumOf(owed, before[i])))
    BY DEF Line
  <1> HIDE DEF before
  <1>4. SumOf(lines, Invoice) = Least(amount, SumOf(owed, Invoice))
    <2>1. IsFiniteSet(Invoice)
      BY InvoiceAssumption
    <2> QED
      BY <1>1, <1>2, <1>3, <2>1, FillsUp
  <1>5. SumOf(owed, Invoice) \in Nat
    BY <1>1, SumOfInvoices
  <1>6. SumOf(lines, Invoice) <= amount
    BY <1>4, <1>5, LessTyped
  <1> QED
    BY <1>6, LineTyped

\* Alone owing, an invoice gets the whole amount it owes.
LEMMA LineAlone ==
  ASSUME NEW owed \in [Invoice -> Nat], NEW amount \in Nat, NEW i \in Invoice, owed[i] = amount,
         \A j \in Invoice \ {i} : owed[j] = 0
  PROVE  Line(owed, amount, i) = amount /\ \A j \in Invoice \ {i} : Line(owed, amount, j) = 0
  <1> DEFINE before == {j \in Invoice : Ahead(j, i)}
  <1>1. before \in SUBSET Invoice /\ \A j \in before : owed[j] = 0
    BY InvoiceAssumption DEF Ahead
  <1> HIDE DEF before
  <1>2. IsFiniteSet(before)
    BY <1>1, InvoiceAssumption, FS_Subset
  <1>3. SumOf(owed, before) = 0
    BY <1>1, <1>2, SumZeros DEF SumOf
  <1>4. Line(owed, amount, i) = Least(amount, Less(amount, 0))
    BY <1>3 DEF Line, before
  <1>5. Line(owed, amount, i) = amount
    BY <1>4 DEF Least, Less
  <1>6. ASSUME NEW j \in Invoice \ {i} PROVE Line(owed, amount, j) = 0
    BY LineTyped
  <1> QED
    BY <1>5, <1>6
-----------------------------------------------------------------------------
(* What is on an invoice *)

\* The sum over the payments that settle is one over all payments, of which the
\* others give nothing.
LEMMA SettledOverAll ==
  ASSUME NEW status, NEW f, \A p \in Payment : f[p] \in Nat
  PROVE  SumOf(f, {p \in Payment : status[p] = "succeeded"})
         = SumOf([p \in Payment |-> IF status[p] = "succeeded" THEN f[p] ELSE 0], Payment)
  <1> DEFINE S == {p \in Payment : status[p] = "succeeded"}
             g == [p \in Payment |-> IF status[p] = "succeeded" THEN f[p] ELSE 0]
  <1>1. S \in SUBSET Payment /\ \A p \in S : g[p] = f[p] /\ f[p] \in Int
    OBVIOUS
  <1>2. \A p \in Payment : g[p] \in Int /\ (p \notin S => g[p] = 0)
    OBVIOUS
  <1> HIDE DEF S, g
  <1>3. IsFiniteSet(S) /\ IsFiniteSet(Payment)
    BY <1>1, PaymentAssumption, FS_Subset
  <1>4. SumOf(f, S) = SumOf(g, S)
    BY <1>1, <1>3, SumSame DEF SumOf
  <1>5. SumOf(g, Payment) = SumOf(g, S)
    BY <1>1, <1>2, <1>3, SumOfPart DEF SumOf
  <1> QED
    BY <1>4, <1>5 DEF S, g

\* What each payment has settled of an invoice.
On(i) == [p \in Payment |-> IF payment[p].status = "succeeded" THEN alloc[p][i] ELSE 0]

\* What has settled an invoice, payment by payment.
LEMMA SettledIs ==
  ASSUME NEW i \in Invoice
  PROVE  /\ Typed => Settled(i) = SumOf(On(i), Payment) /\ \A p \in Payment : On(i)[p] \in Nat
         /\ Typed' => Settled(i)' = SumOf(On(i)', Payment) /\ \A p \in Payment : On(i)'[p] \in Nat
  <1>1. ASSUME Typed PROVE Settled(i) = SumOf(On(i), Payment) /\ \A p \in Payment : On(i)[p] \in Nat
    <2> DEFINE status == [p \in Payment |-> payment[p].status]
               f == [p \in Payment |-> alloc[p][i]]
    <2>1. \A p \in Payment : f[p] \in Nat
      BY <1>1 DEF Typed, TypeOK
    <2>2. SumOf(f, {p \in Payment : status[p] = "succeeded"})
          = SumOf([p \in Payment |-> IF status[p] = "succeeded" THEN f[p] ELSE 0], Payment)
      <3> HIDE DEF status, f
      <3> QED
        BY <2>1, SettledOverAll
    <2>3. /\ {p \in Payment : status[p] = "succeeded"} = Succeeded
          /\ [p \in Payment |-> IF status[p] = "succeeded" THEN f[p] ELSE 0] = On(i)
          /\ f = RowsOf(i)
      BY DEF Succeeded, On, RowsOf
    <2> QED
      BY <2>1, <2>2, <2>3 DEF Settled, On
  <1>2. ASSUME Typed' PROVE Settled(i)' = SumOf(On(i)', Payment) /\ \A p \in Payment : On(i)'[p] \in Nat
    <2> DEFINE status == [p \in Payment |-> payment'[p].status]
               f == [p \in Payment |-> alloc'[p][i]]
    <2>1. \A p \in Payment : f[p] \in Nat
      BY <1>2 DEF Typed, TypeOK
    <2>2. SumOf(f, {p \in Payment : status[p] = "succeeded"})
          = SumOf([p \in Payment |-> IF status[p] = "succeeded" THEN f[p] ELSE 0], Payment)
      <3> HIDE DEF status, f
      <3> QED
        BY <2>1, SettledOverAll
    <2>3. /\ {p \in Payment : status[p] = "succeeded"} = Succeeded'
          /\ [p \in Payment |-> IF status[p] = "succeeded" THEN f[p] ELSE 0] = On(i)'
          /\ f = RowsOf(i)'
      BY DEF Succeeded, On, RowsOf
    <2>4. Settled(i)' = SumOf(RowsOf(i)', Succeeded')
      BY DEF Settled
    <2> QED
      BY <2>1, <2>2, <2>3, <2>4 DEF On
  <1> QED
    BY <1>1, <1>2

\* Rows of settled payments that stay leave what is settled as it is.
LEMMA SettledStays ==
  ASSUME Typed, Typed', NEW i \in Invoice, \A p \in Payment : On(i)'[p] = On(i)[p]
  PROVE  Settled(i)' = Settled(i)
  <1>1. Settled(i) = SumOf(On(i), Payment) /\ Settled(i)' = SumOf(On(i)', Payment)
    BY SettledIs
  <1>2. SumOf(On(i)', Payment) = SumOf(On(i), Payment)
    BY PaymentAssumption, SumSame DEF SumOf
  <1> QED
    BY <1>1, <1>2
-----------------------------------------------------------------------------
(* What adds up, unless transactions overlapped *)

Clean(i) == i \notin raced \cup burnt

\* An invoice says what has settled it, and is settled, owed or forgiven in full.
RowIsRight(i) ==
    /\ invoice[i].paid = Settled(i) /\ invoice[i].paid <= Total[i]
    /\ invoice[i].status = "paid" <=> invoice[i].paid = Total[i] /\ invoice[i].status \notin Closed
    /\ forgiven[i] = IF invoice[i].status \in Closed THEN Total[i] - invoice[i].paid ELSE 0
    /\ i \notin Fee /\ invoice[i].status = "void" => invoice[i].paid = 0

\* What a transaction has read of an invoice nobody else has in hand is so.
Foresees(t) ==
    /\ t.step = "raising" => SumOf(t.take, Payment) <= Total[t.inv]
    /\ t.step \in {"spending", "summing"} /\ Clean(t.inv) =>
          /\ invoice[t.inv].status \in Open
          /\ invoice[t.inv].paid + SumOf(t.take, Payment) <= Total[t.inv]
          /\ \A p \in Payment : t.had[p] = alloc[p][t.inv]
          /\ t.step = "summing" => t.amount = invoice[t.inv].paid + SumOf(t.take, Payment)
    /\ t.step = "waiving" =>
          /\ t.inv \in Fee
          /\ Clean(t.inv) => /\ invoice[t.inv].status \in Open
                             /\ t.amount = Total[t.inv] - invoice[t.inv].paid
    /\ t.step \in {"listed", "checking", "charging"} /\ t.inv \notin raced =>
          /\ t.amount = invoice[t.inv].paid
          /\ invoice[t.inv].paid < Total[t.inv] => invoice[t.inv].status \in Open
    /\ /\ t.step = "listed" \/ (t.step \in {"spending", "summing"} /\ t.date # None)
       /\ t.inv \notin raced
       => invoice[t.inv].status \in Open
    /\ \A j \in Invoice : j \notin raced /\ t.owed[j] > 0 =>
          /\ invoice[j].status \in Open => t.owed[j] = Owed(j)
          /\ t.step = "writing off" => invoice[j].status \in Open

\* The credit it goes to spend is there.
Affords(t) ==
    \A p \in Payment : p \notin raced /\ t.take[p] > 0 =>
        /\ Spent(p) + t.take[p] <= payment[p].amount
        /\ t.step # "raising" => t.had[p] = alloc[p][t.inv]

\* A charge that settles finds its invoice owing what was charged.
Settles(t) ==
    /\ t.step = "claiming" /\ payment[t.pay].status = "pending"
    /\ payment[t.pay].named \notin raced
    => /\ t.amount = payment[t.pay].amount
       /\ t.owed[payment[t.pay].named] = t.amount
       /\ \A j \in Invoice \ {payment[t.pay].named} : t.owed[j] = 0

\* A charge in flight is for all that its invoice owes.
ChargeFits(p) ==
    Flies(p) /\ payment[p].named \notin raced =>
        /\ invoice[payment[p].named].status \in Open
        /\ Owed(payment[p].named) = payment[p].amount

\* A payment settles on the leases it is posted on.
Posts(p, i) ==
    payment[p].status = "succeeded" /\ alloc[p][i] > 0 /\ i \notin raced \cup crossed
        => posted[p][LeaseOf[i]] > 0

SpentOnce(p) ==
    payment[p].status = "succeeded" /\ Spent(p) > payment[p].amount
        => p \in raced \/ payment[p].named \in raced

AddsUp ==
    /\ \A i \in Invoice : Clean(i) => RowIsRight(i)
    /\ \A w \in Worker : Foresees(tx[w]) /\ Affords(tx[w]) /\ Settles(tx[w])
    /\ \A p \in Payment : ChargeFits(p) /\ SpentOnce(p)
    /\ \A p \in Payment, i \in Invoice : Posts(p, i)
-----------------------------------------------------------------------------
\* A step leaves the row of an invoice, and what settles it, as they are.
Stays(i) == /\ invoice'[i] = invoice[i] /\ forgiven'[i] = forgiven[i]
            /\ \A p \in Payment : On(i)'[p] = On(i)[p]

\* It leaves every allocation to the invoice as well.
Keeps(i) == Stays(i) /\ \A p \in Payment : alloc'[p][i] = alloc[p][i]

\* Ghosts only grow.
Grow == raced \subseteq raced' /\ burnt \subseteq burnt' /\ crossed \subseteq crossed'

\* A transaction that holds nothing is trusted for nothing.
LEMMA IdleAmounts == Foresees(Idle)' /\ Affords(Idle)' /\ Settles(Idle)'
  <1>1. /\ Idle.step = "idle" /\ \A p \in Payment : ~(Idle.take[p] > 0)
        /\ \A i \in Invoice : ~(Idle.owed[i] > 0)
    BY DEF Idle, Work
  <1> HIDE DEF Idle
  <1> QED
    BY <1>1 DEF Foresees, Affords, Settles

\* At the start everything adds up to nothing.
LEMMA InitAmounts == Init => AddsUp
  <1> SUFFICES ASSUME Init PROVE AddsUp
    OBVIOUS
  <1>1. \A w \in Worker : tx[w] = Idle
    BY DEF Init
  <1>2. /\ Idle.step = "idle" /\ \A p \in Payment : ~(Idle.take[p] > 0)
        /\ \A i \in Invoice : ~(Idle.owed[i] > 0)
    BY DEF Idle, Work
  <1>3. \A p \in Payment : payment[p].status = "none" /\ \A i \in Invoice : alloc[p][i] = 0
    BY DEF Init
  <1>4. \A i \in Invoice : invoice[i].paid = 0 /\ invoice[i].status = "none" /\ forgiven[i] = 0
    BY DEF Init
  <1>5. ASSUME NEW i \in Invoice PROVE RowIsRight(i)
    <2>1. Succeeded = {}
      BY <1>3 DEF Succeeded
    <2>2. Settled(i) = 0
      BY <2>1, SumEmpty DEF Settled, SumOf
    <2>3. Total[i] \in Nat \ {0}
      BY InvoiceAssumption
    <2> QED
      BY <1>4, <2>2, <2>3 DEF RowIsRight, Closed
  <1>6. Foresees(Idle) /\ Affords(Idle) /\ Settles(Idle)
    <2> HIDE DEF Idle
    <2> QED
      BY <1>2 DEF Foresees, Affords, Settles
  <1>7. \A p \in Payment : ChargeFits(p) /\ SpentOnce(p) /\ \A i \in Invoice : Posts(p, i)
    BY <1>3 DEF ChargeFits, SpentOnce, Posts, Flies, InFlight
  <1> QED
    BY <1>1, <1>5, <1>6, <1>7 DEF AddsUp

\* A row that stays is as right as it was.
LEMMA StaysRight ==
    ASSUME Typed, Typed', NEW i \in Invoice, Stays(i), RowIsRight(i)
    PROVE  RowIsRight(i)'
  <1>1. Settled(i)' = Settled(i)
    BY SettledStays DEF Stays
  <1> QED
    BY <1>1 DEF RowIsRight, Stays

\* What a transaction that rests has read stays so.
LEMMA RestAmounts ==
    ASSUME IInv, Typed, Hands, AddsUp, Grow, NEW w \in Worker, NEW v \in Worker \ {w}, tx'[v] = tx[v],
           \A i \in Invoice : i \notin raced' /\ ~Holds(w, i) => Keeps(i),
           Mine(w),
           \A p \in Payment : payment[p].status = "succeeded" /\ ~(tx[w].take[p] > 0)
               => payment'[p] = payment[p] /\ alloc'[p] = alloc[p]
    PROVE  Foresees(tx[v])' /\ Affords(tx[v])' /\ Settles(tx[v])'
  <1> DEFINE t == tx[v]
  <1>1. /\ Foresees(tx[v]) /\ Affords(tx[v]) /\ Settles(tx[v]) /\ Fits(tx[v]) /\ Points(tx[v])
        /\ (tx[v].step \in AboutOne => tx[v].inv \in Invoice)
    BY DEF AddsUp, Hands, Typed, IInv, KnowsRow
  <1>2. ASSUME NEW i \in Invoice, Holds(v, i), i \notin raced' PROVE Keeps(i)
    BY <1>2 DEF IInv, Shared, Grow
  <1>3. PICK u : u = tx[v]
    OBVIOUS
  <1>4. \A i \in Invoice : u.inv = i \/ u.owed[i] > 0 => Holds(v, i)
    BY <1>3 DEF Holds
  <1>5. \A i \in Invoice : Keeps(i) => /\ invoice'[i] = invoice[i] /\ Owed(i)' = Owed(i)
                                       /\ \A p \in Payment : alloc'[p][i] = alloc[p][i]
    BY DEF Keeps, Stays, Owed
  <1>6. \A i : (Clean(i)' => Clean(i)) /\ (i \notin raced' => i \notin raced)
               /\ (Clean(i)' => i \notin raced')
    BY DEF Clean, Grow
  <1>7. Foresees(u)'
    <2>1. u.step \in {"raising", "spending", "summing", "waiving", "listed", "checking", "charging"}
          => u.inv \in Invoice /\ Holds(v, u.inv)
      BY <1>1, <1>3, <1>4 DEF AboutOne, Step
    <2>2. u.step \in {"raising", "spending", "summing", "waiving", "listed", "checking", "charging"}
             /\ u.inv \notin raced'
          => /\ invoice'[u.inv] = invoice[u.inv]
             /\ \A p \in Payment : alloc'[p][u.inv] = alloc[p][u.inv]
      BY <2>1, <1>2, <1>5
    <2>3. \A j \in Invoice : j \notin raced' /\ u.owed[j] > 0 => invoice'[j] = invoice[j] /\ Owed(j)' = Owed(j)
      BY <1>2, <1>4, <1>5
    <2>4. Foresees(u)
      BY <1>1, <1>3
    <2>5. u.step = "raising" => SumOf(u.take, Payment) <= Total[u.inv]
      BY <2>4 DEF Foresees
    <2>6. u.step \in {"spending", "summing"} /\ Clean(u.inv)' =>
          /\ invoice'[u.inv].status \in Open
          /\ invoice'[u.inv].paid + SumOf(u.take, Payment) <= Total[u.inv]
          /\ \A p \in Payment : u.had[p] = alloc'[p][u.inv]
          /\ u.step = "summing" => u.amount = invoice'[u.inv].paid + SumOf(u.take, Payment)
      BY <2>2, <2>4, <1>6 DEF Foresees
    <2>7. u.step = "waiving" =>
          /\ u.inv \in Fee
          /\ Clean(u.inv)' => /\ invoice'[u.inv].status \in Open
                              /\ u.amount = Total[u.inv] - invoice'[u.inv].paid
      BY <2>2, <2>4, <1>6 DEF Foresees
    <2>8. u.step \in {"listed", "checking", "charging"} /\ u.inv \notin raced' =>
          /\ u.amount = invoice'[u.inv].paid
          /\ invoice'[u.inv].paid < Total[u.inv] => invoice'[u.inv].status \in Open
      BY <2>2, <2>4, <1>6 DEF Foresees
    <2>9. /\ u.step = "listed" \/ (u.step \in {"spending", "summing"} /\ u.date # None)
          /\ u.inv \notin raced'
          => invoice'[u.inv].status \in Open
      BY <2>2, <2>4, <1>6 DEF Foresees
    <2>10. \A j \in Invoice : j \notin raced' /\ u.owed[j] > 0 =>
          /\ invoice'[j].status \in Open => u.owed[j] = Owed(j)'
          /\ u.step = "writing off" => invoice'[j].status \in Open
      BY <2>3, <2>4, <1>6 DEF Foresees
    <2> QED
      BY <2>5, <2>6, <2>7, <2>8, <2>9, <2>10 DEF Foresees
  <1>8. Affords(u)'
    <2>1. ASSUME NEW p \in Payment, p \notin raced', u.take[p] > 0
          PROVE  payment'[p] = payment[p] /\ alloc'[p] = alloc[p]
      <3>1. payment[p].status = "succeeded"
        BY <1>1, <1>3, <2>1 DEF Fits
      <3>2. ~(tx[w].take[p] > 0)
        BY <1>3, <2>1 DEF Hands, Apart, Grow
      <3> QED
        BY <3>1, <3>2
    <2>2. \A p \in Payment : alloc'[p] = alloc[p] => Spent(p)' = Spent(p)
      BY DEF Spent
    <2>3. Affords(u)
      BY <1>1, <1>3
    <2> QED
      BY <2>1, <2>2, <2>3, <1>6 DEF Affords
  <1>9. Settles(u)'
    <2>1. u.step = "claiming" => payment'[u.pay] = payment[u.pay]
      BY <1>1, <1>3 DEF Mine, Points
    <2>2. Settles(u)
      BY <1>1, <1>3
    <2> QED
      BY <2>1, <2>2, <1>6 DEF Settles
  <1> QED
    BY <1>3, <1>7, <1>8, <1>9
-----------------------------------------------------------------------------
\* One worker takes a step.
LEMMA StepAdds ==
    ASSUME IInv, Typed, Hands, AddsUp, Typed', Grow, NEW w \in Worker, NEW t, Turn(w, t), Mine(w),
           \A i \in Invoice : i \notin raced' => \/ Keeps(i)
                                                 \/ Holds(w, i) /\ (Stays(i) \/ (Clean(i)' => RowIsRight(i)')),
           \A p \in Payment : payment[p].status = "succeeded" /\ ~(tx[w].take[p] > 0)
               => payment'[p] = payment[p] /\ alloc'[p] = alloc[p],
           \A p \in Payment : Flies(p)' =>
               \/ ChargeFits(p)'
               \/ /\ Flies(p) /\ payment'[p].named = payment[p].named /\ payment'[p].amount = payment[p].amount
                  /\ tx[w].pay = p => UNCHANGED invoice,
           \A p \in Payment : (payment[p].status = "succeeded" /\ ~(tx[w].take[p] > 0)) \/ SpentOnce(p)',
           \A p \in Payment, i \in Invoice :
               \/ /\ payment'[p].status = payment[p].status /\ alloc'[p][i] = alloc[p][i]
                  /\ posted'[p] = posted[p]
               \/ Posts(p, i)',
           Foresees(t)', Affords(t)', Settles(t)'
    PROVE  AddsUp'
  <1>1. tx'[w] = t /\ \A v \in Worker \ {w} : tx'[v] = tx[v]
    BY DEF Typed, TypeOK, Turn
  <1>2. \A i : (Clean(i)' => Clean(i)) /\ (i \notin raced' => i \notin raced) /\ (Clean(i)' => i \notin raced')
    BY DEF Clean, Grow
  <1>3. ASSUME NEW i \in Invoice, Clean(i)' PROVE RowIsRight(i)'
    <2>1. RowIsRight(i)
      BY <1>2, <1>3 DEF AddsUp
    <2> QED
      BY <1>2, <1>3, <2>1, StaysRight DEF Keeps
  <1>4. ASSUME NEW v \in Worker PROVE Foresees(tx[v])' /\ Affords(tx[v])' /\ Settles(tx[v])'
    <2>1. CASE v = w
      <3>1. PICK u : u = t
        OBVIOUS
      <3>2. tx'[v] = u /\ Foresees(u)' /\ Affords(u)' /\ Settles(u)'
        BY <1>1, <2>1, <3>1
      <3> QED
        BY <3>2
    <2>2. CASE v # w
      <3>1. tx'[v] = tx[v] /\ v \in Worker \ {w}
        BY <1>1, <2>2
      <3>2. \A i \in Invoice : i \notin raced' /\ ~Holds(w, i) => Keeps(i)
        OBVIOUS
      <3> QED
        BY <3>1, <3>2, RestAmounts
    <2> QED
      BY <2>1, <2>2
  <1>5. ASSUME NEW p \in Payment PROVE ChargeFits(p)'
    <2> SUFFICES ASSUME Flies(p)', payment'[p].named \notin raced' ,
                        Flies(p), payment'[p].named = payment[p].named,
                        payment'[p].amount = payment[p].amount, tx[w].pay = p => UNCHANGED invoice
                 PROVE  ChargeFits(p)'
      BY DEF ChargeFits
    <2>1. PICK i : i = payment[p].named
      OBVIOUS
    <2>2. i \in Invoice /\ i \notin raced /\ i \notin raced'
      BY <2>1, <1>2, FliesOnRaised
    <2>3. invoice'[i] = invoice[i]
      <3>1. tx[w].pay # p /\ Holds(w, i) => i \in raced
        BY <2>1 DEF Hands, Beside
      <3> QED
        BY <2>2, <3>1 DEF Keeps, Stays
    <2>4. Owed(i)' = Owed(i)
      BY <2>3 DEF Owed
    <2>5. invoice[i].status \in Open /\ Owed(i) = payment[p].amount
      BY <2>1, <2>2 DEF AddsUp, ChargeFits
    <2>6. payment'[p].named = i
      BY <2>1
    <2> QED
      BY <2>3, <2>4, <2>5, <2>6 DEF ChargeFits
  <1>6. ASSUME NEW p \in Payment PROVE SpentOnce(p)'
    <2>1. CASE payment'[p] = payment[p] /\ alloc'[p] = alloc[p]
      <3>1. Spent(p)' = Spent(p) /\ SpentOnce(p)
        BY <2>1 DEF Spent, AddsUp
      <3> QED
        BY <2>1, <3>1, <1>2 DEF SpentOnce
    <2> QED
      BY <2>1
  <1>7. ASSUME NEW p \in Payment, NEW i \in Invoice PROVE Posts(p, i)'
    BY DEF AddsUp, Posts, Grow
  <1> QED
    BY <1>3, <1>4, <1>5, <1>6, <1>7 DEF AddsUp

\* A step that only reads.
LEMMA ReadAdds ==
    ASSUME IInv, Typed, Hands, AddsUp, Typed', Grow, NEW w \in Worker, NEW t, Turn(w, t),
           UNCHANGED books, Foresees(t)', Affords(t)', Settles(t)'
    PROVE  AddsUp'
  <1>1. UNCHANGED <<invoice, payment, alloc, posted, forgiven, writtenOff>>
    BY DEF books
  <1>2. \A i \in Invoice : Keeps(i)
    BY <1>1 DEF Keeps, Stays, On
  <1>3. \A p \in Payment : Flies(p)' => Flies(p)
    BY <1>1 DEF Flies
  <1>4. ASSUME NEW p \in Payment PROVE SpentOnce(p)'
    BY <1>1 DEF AddsUp, SpentOnce, Spent, Grow
  <1>5. Mine(w)
    BY <1>1 DEF Mine
  <1> QED
    BY <1>1, <1>2, <1>3, <1>4, <1>5, StepAdds

\* An invoice that was raised.
LEMMA RaisedAdds ==
    ASSUME Typed, AddsUp, NEW i \in Invoice, Clean(i), invoice[i].status # "none"
    PROVE  /\ invoice[i].paid \in Nat /\ Total[i] \in Nat /\ invoice[i].paid <= Total[i]
           /\ invoice[i].paid < Total[i] /\ invoice[i].status \notin Closed => invoice[i].status \in Open
  <1>1. RowIsRight(i)
    BY DEF AddsUp
  <1>2. invoice[i] \in InvoiceRow /\ Total[i] \in Nat
    BY InvoiceAssumption DEF Typed, TypeOK
  <1> QED
    BY <1>1, <1>2 DEF RowIsRight, InvoiceRow

\* What fits in the difference fits beside the smaller.
LEMMA LessLeaves ==
    ASSUME NEW m \in Nat, NEW n \in Nat, NEW k \in Nat, k <= Less(m, n), n <= m \/ k > 0
    PROVE  n + k <= m
  BY DEF Less

\* Credit that is spare is left of its payment.
LEMMA SpareIsLeft ==
    ASSUME Typed, NEW p \in Payment, NEW k \in Nat, k > 0, k <= Spare(p)
    PROVE  Spent(p) + k <= payment[p].amount
  <1>1. Spent(p) \in Nat /\ payment[p].amount \in Nat
    BY SpareTyped DEF Typed, TypeOK, PaymentRow
  <1>2. k <= Less(payment[p].amount, Spent(p))
    BY DEF Spare
  <1> QED
    BY <1>1, <1>2, LessLeaves

\* A transaction that has read no charge settles none.
LEMMA SettlesNone ==
    ASSUME NEW t, t.step # "claiming"
    PROVE  Settles(t)'
  BY DEF Settles

\* Where no credit is taken none has to be there.
LEMMA AffordsNone ==
    ASSUME NEW t, \A p \in Payment : ~(t.take[p] > 0)
    PROVE  Affords(t)'
  BY DEF Affords
-----------------------------------------------------------------------------
\* createInvoiceForPeriod takes no more credit than its charge.
LEMMA ReadForRaiseAdds ==
    ASSUME IInv, Typed, Hands, AddsUp, Typed', NEW w \in Worker, NEW i \in Invoice, ReadForRaise(w, i)
    PROVE  AddsUp'
  <1>1. PICK take : take = Taken(Total[i])
    OBVIOUS
  <1>2. PICK t : t = [Work("raising") EXCEPT !.inv = i, !.take = take]
    OBVIOUS
  <1>3. /\ t.step = "raising" /\ t.inv = i /\ t.take = take
        /\ \A j \in Invoice : ~(t.owed[j] > 0)
    BY <1>2 DEF Work
  <1>4. Turn(w, t) /\ Grow /\ UNCHANGED books
    BY <1>1, <1>2 DEF ReadForRaise, Takes, Grow
  <1>5. SumOf(take, Payment) <= Total[i] /\ \A p \in Payment : take[p] <= Spare(p)
    BY <1>1, InvoiceAssumption, TakenFits
  <1>6. Foresees(t)'
    BY <1>3, <1>5 DEF Foresees
  <1>7. Affords(t)'
    <2>1. \A p \in Payment : take[p] > 0 => Spent(p) + take[p] <= payment[p].amount
      <3> TAKE p \in Payment
      <3>1. take[p] \in Nat /\ take[p] <= Spare(p)
        BY <1>1, <1>5, InvoiceAssumption, TakenTyped DEF Typed
      <3> QED
        BY <3>1, SpareIsLeft
    <2>2. \A p \in Payment : Spent(p)' = Spent(p) /\ payment'[p] = payment[p]
      BY <1>4 DEF Spent, books
    <2> QED
      BY <1>3, <2>1, <2>2 DEF Affords
  <1>8. Settles(t)'
    BY <1>3, SettlesNone
  <1> QED
    BY <1>4, <1>6, <1>7, <1>8, ReadAdds

\* applyCreditToInvoice takes no more than is owed, nor than there is.
LEMMA ReadCreditAdds ==
    ASSUME IInv, Typed, Hands, AddsUp, Typed', NEW w \in Worker, NEW i \in Invoice, NEW t, ReadCredit(w, i, t),
           DOMAIN t = Fields, t.inv = i, UNCHANGED <<books, crossed>>, burnt \subseteq burnt',
           \A j \in Invoice : t.owed[j] > 0 => tx[w].owed[j] = t.owed[j],
           tx[w].step # "writing off",
           \A p \in Payment : ~(t.take[p] > 0),
           Clean(i)' => invoice[i].status \in Open /\ invoice[i].paid <= Total[i],
           t.date # None => Foresees(t) /\ t.step = "listed"
    PROVE  AddsUp'
  <1>0. UNCHANGED <<invoice, payment, alloc, posted, forgiven, writtenOff>>
    BY DEF books
  <1>1. PICK room : room = Less(Total[i], invoice[i].paid)
    OBVIOUS
  <1>2. PICK take : take = Taken(room)
    OBVIOUS
  <1>3. PICK had : had = [p \in Payment |-> alloc[p][i]]
    OBVIOUS
  <1>4. room \in Nat /\ Total[i] \in Nat /\ invoice[i].paid \in Nat
    BY <1>1, OwedTyped, InvoiceAssumption DEF Typed, TypeOK, InvoiceRow
  <1>5. /\ take \in [Payment -> Nat] /\ SumOf(take, Payment) <= room
        /\ \A p \in Payment : take[p] <= Spare(p)
    BY <1>2, <1>4, TakenFits, TakenTyped DEF Typed
  <1>6. Grow
    BY DEF ReadCredit, Takes, Grow
  <1>7. \A j \in Invoice : j \notin raced' /\ t.owed[j] > 0 =>
            (invoice[j].status \in Open => t.owed[j] = Owed(j)) /\ Owed(j)' = Owed(j)
    BY <1>0, <1>6 DEF AddsUp, Foresees, Owed, Grow
  <1>8. CASE Turn(w, Idle)
    BY <1>6, <1>8, IdleAmounts, ReadAdds
  <1>9. ASSUME NEW c, c = [t EXCEPT !.step = "checking"], Turn(w, c), t.date # None PROVE AddsUp'
    <2>1. c.step = "checking" /\ c.inv = i /\ c.amount = t.amount /\ c.owed = t.owed /\ c.take = t.take
      BY <1>9 DEF Fields
    <2>2. i \notin raced' => t.amount = invoice[i].paid /\ (invoice[i].paid < Total[i] => invoice[i].status \in Open)
      BY <1>6, <1>9 DEF Foresees, Grow
    <2>3. Foresees(c)'
      BY <1>0, <1>7, <2>1, <2>2 DEF Foresees
    <2> QED
      BY <1>6, <1>9, <2>1, <2>3, AffordsNone, SettlesNone, ReadAdds
  <1>10. ASSUME NEW s, s = [t EXCEPT !.step = "spending", !.take = take, !.had = had], Turn(w, s)
         PROVE  AddsUp'
    <2>1. s.step = "spending" /\ s.inv = i /\ s.owed = t.owed /\ s.take = take /\ s.had = had /\ s.date = t.date
      BY <1>10 DEF Fields
    <2>2. SumOf(take, Payment) \in Nat
      BY <1>5, SumOfPayments
    <2>3. Clean(i)' => invoice[i].status \in Open /\ invoice[i].paid + SumOf(take, Payment) <= Total[i]
      BY <1>1, <1>4, <1>5, <2>2, LessLeaves
    <2>4. t.date # None /\ i \notin raced' => invoice[i].status \in Open
      BY <1>6 DEF Foresees, Grow
    <2>5. Foresees(s)'
      BY <1>0, <1>3, <1>7, <2>1, <2>3, <2>4 DEF Foresees
    <2>6. Affords(s)'
      <3>1. \A p \in Payment : take[p] > 0 => Spent(p) + take[p] <= payment[p].amount
        <4> TAKE p \in Payment
        <4>1. take[p] \in Nat /\ take[p] <= Spare(p)
          BY <1>5
        <4> QED
          BY <4>1, SpareIsLeft
      <3>2. \A p \in Payment : Spent(p)' = Spent(p)
        BY <1>0 DEF Spent
      <3> QED
        BY <1>0, <1>3, <2>1, <3>1, <3>2 DEF Affords
    <2> QED
      BY <1>6, <1>10, <2>1, <2>5, <2>6, SettlesNone, ReadAdds
  <1> QED
    BY <1>1, <1>2, <1>3, <1>8, <1>9, <1>10 DEF ReadCredit
-----------------------------------------------------------------------------
\* Staff put credit on an invoice that is open, or burn it.
LEMMA StaffCreditAdds ==
    ASSUME IInv, Typed, Hands, AddsUp, Typed', NEW w \in Worker, NEW i \in Invoice, StaffCredit(w, i)
    PROVE  AddsUp'
  <1>1. PICK t : t = [Work("spending") EXCEPT !.inv = i]
    OBVIOUS
  <1>2. /\ DOMAIN t = Fields /\ t.inv = i /\ t.date = None
        /\ \A p \in Payment : ~(t.take[p] > 0)
        /\ \A j \in Invoice : ~(t.owed[j] > 0)
    BY <1>1 DEF Work, Fields
  <1>3. ReadCredit(w, i, t) /\ UNCHANGED <<books, crossed>> /\ IsIdle(w)
    BY <1>1 DEF StaffCredit
  <1>4. tx[w].step # "writing off"
    BY <1>3 DEF IsIdle, Idle, Work
  <1>5. burnt \subseteq burnt' /\ (Clean(i)' => invoice[i].status \notin Closed)
    BY DEF StaffCredit, Clean
  <1>6. invoice[i].status # "none" /\ invoice[i].paid < Total[i]
    BY DEF StaffCredit
  <1>7. Clean(i)' => Clean(i)
    BY <1>3, <1>5 DEF Clean, ReadCredit, Takes
  <1>8. Clean(i)' => invoice[i].status \in Open /\ invoice[i].paid <= Total[i]
    BY <1>5, <1>6, <1>7, RaisedAdds
  <1> QED
    BY <1>2, <1>3, <1>4, <1>5, <1>8, ReadCreditAdds

\* A pass finds the invoice it listed open.
LEMMA SweepAdds == ASSUME IInv, Typed, Hands, AddsUp, Typed', NEW w \in Worker, Sweep(w) PROVE AddsUp'
  <1>1. PICK t : t = tx[w]
    OBVIOUS
  <1>2. PICK i : i = t.inv
    OBVIOUS
  <1>3. t.step = "listed" /\ ReadCredit(w, i, t) /\ UNCHANGED <<books, crossed, burnt>>
    BY <1>1, <1>2 DEF Sweep
  <1>4. i \in Invoice /\ DOMAIN t = Fields /\ t.date \in Date /\ t.take \in [Payment -> Nat]
    BY <1>1, <1>2, <1>3, InHandTyped DEF AboutOne, Step, IInv, Shapes, Points
  <1>5. t.date # None
    BY <1>4, NoneAssumption
  <1>6. \A p \in Payment : ~(t.take[p] > 0)
    BY <1>1, <1>3 DEF Hands, Fits
  <1>7. Foresees(t)
    BY <1>1 DEF AddsUp
  <1>8. i \notin raced => invoice[i].status \in Open
    BY <1>2, <1>3, <1>7 DEF Foresees
  <1>9. Clean(i)' => Clean(i)
    BY <1>3 DEF Clean, ReadCredit, Takes
  <1>10. Clean(i) => invoice[i].status \in Open /\ invoice[i].paid <= Total[i]
    BY <1>4, <1>8 DEF AddsUp, RowIsRight, Clean
  <1>11. \A j \in Invoice : t.owed[j] > 0 => tx[w].owed[j] = t.owed[j]
    BY <1>1
  <1>12. tx[w].step # "writing off"
    BY <1>1, <1>3
  <1> QED
    BY <1>2, <1>3, <1>4, <1>5, <1>6, <1>7, <1>9, <1>10, <1>11, <1>12, ReadCreditAdds

\* A waiver reads what the fee still owes.
LEMMA ReadForWaiverAdds ==
    ASSUME IInv, Typed, Hands, AddsUp, Typed', NEW w \in Worker, NEW i \in Invoice, ReadForWaiver(w, i)
    PROVE  AddsUp'
  <1>1. PICK owed : owed = Less(Total[i], invoice[i].paid)
    OBVIOUS
  <1>2. PICK t : t = [Work("waiving") EXCEPT !.inv = i, !.amount = owed]
    OBVIOUS
  <1>3. /\ t.step = "waiving" /\ t.inv = i /\ t.amount = owed
        /\ \A p \in Payment : ~(t.take[p] > 0)
        /\ \A j \in Invoice : ~(t.owed[j] > 0)
    BY <1>2 DEF Work
  <1>4. /\ Turn(w, t) /\ UNCHANGED books /\ Grow /\ owed > 0 /\ i \in Fee
        /\ invoice[i].status # "none" /\ (Clean(i)' => invoice[i].status \notin Closed)
    BY <1>1, <1>2 DEF ReadForWaiver, Takes, Grow, Clean
  <1>5. Clean(i)' => Clean(i)
    BY <1>4 DEF Clean, Grow
  <1>6. Clean(i)' => invoice[i].status \in Open /\ owed = Total[i] - invoice[i].paid
    BY <1>1, <1>4, <1>5, RaisedAdds DEF Less
  <1>7. invoice' = invoice
    BY <1>4 DEF books
  <1>8. Foresees(t)'
    BY <1>3, <1>4, <1>6, <1>7 DEF Foresees
  <1> QED
    BY <1>3, <1>4, <1>8, AffordsNone, SettlesNone, ReadAdds

\* A pass lists what is paid of an open invoice.
LEMMA ListAdds ==
    ASSUME IInv, Typed, Hands, AddsUp, Typed', NEW w \in Worker, NEW i \in Invoice, NEW d \in Date, List(w, i, d)
    PROVE  AddsUp'
  <1>1. PICK t : t = [Work("listed") EXCEPT !.inv = i, !.date = d, !.amount = invoice[i].paid]
    OBVIOUS
  <1>2. /\ t.step = "listed" /\ t.inv = i /\ t.amount = invoice[i].paid
        /\ \A p \in Payment : ~(t.take[p] > 0)
        /\ \A j \in Invoice : ~(t.owed[j] > 0)
    BY <1>1 DEF Work
  <1>3. Turn(w, t) /\ UNCHANGED books /\ Grow /\ invoice[i].status \in Open
    BY <1>1 DEF List, Takes, Grow
  <1>4. invoice' = invoice
    BY <1>3 DEF books
  <1>5. Foresees(t)'
    BY <1>2, <1>3, <1>4 DEF Foresees
  <1> QED
    BY <1>2, <1>3, <1>5, AffordsNone, SettlesNone, ReadAdds

\* What is claimed is what is owed.
LEMMA ClaimsAdd ==
    ASSUME IInv, Typed, Hands, AddsUp, Typed', Grow, UNCHANGED books, NEW w \in Worker, NEW t, Turn(w, t),
           t.step \in {"claiming", "writing off"}, \A p \in Payment : ~(t.take[p] > 0),
           NEW S, t.owed = Claims(S), Settles(t)'
    PROVE  AddsUp'
  <1>1. invoice' = invoice
    BY DEF books
  <1>2. \A j \in Invoice : t.owed[j] > 0 => t.owed[j] = Owed(j) /\ invoice[j].status \in Open
    BY ClaimsAreOpen DEF Claims
  <1>3. \A j \in Invoice : Owed(j)' = Owed(j)
    BY <1>1 DEF Owed
  <1>4. Foresees(t)'
    BY <1>1, <1>2, <1>3 DEF Foresees
  <1> QED
    BY <1>4, AffordsNone, ReadAdds

\* A payment at the counter.
LEMMA TakePaymentAdds ==
    ASSUME IInv, Typed, Hands, AddsUp, Typed', NEW w \in Worker, NEW l \in Lease, NEW amount \in Amounts,
           NEW directed \in BOOLEAN, TakePayment(w, l, amount, directed)
    PROVE  AddsUp'
  <1>1. PICK S : S = {i \in Invoice : directed => LeaseOf[i] = l}
    OBVIOUS
  <1>2. PICK owed : owed = Claims(S)
    OBVIOUS
  <1>3. PICK p \in Payment :
            /\ NextPayment(p)
            /\ Turn(w, [Work("claiming") EXCEPT !.pay = p, !.lease = l, !.amount = amount, !.owed = owed])
    BY <1>1, <1>2 DEF TakePayment
  <1>4. PICK t : t = [Work("claiming") EXCEPT !.pay = p, !.lease = l, !.amount = amount, !.owed = owed]
    OBVIOUS
  <1>5. /\ t.step = "claiming" /\ t.pay = p /\ t.owed = owed
        /\ \A q \in Payment : ~(t.take[q] > 0)
    BY <1>4 DEF Work
  <1>6. UNCHANGED books /\ Grow
    BY DEF TakePayment, Takes, Grow
  <1>7. payment'[p].status = "none"
    BY <1>3, <1>6 DEF NextPayment, Unused, books
  <1>8. Settles(t)'
    BY <1>5, <1>7 DEF Settles
  <1> QED
    BY <1>2, <1>3, <1>4, <1>5, <1>6, <1>8, ClaimsAdd

\* A charge that settles finds its invoice owing what was charged.
LEMMA SettleChargeAdds ==
    ASSUME IInv, Typed, Hands, AddsUp, Typed', NEW w \in Worker, NEW p \in Payment, SettleCharge(w, p)
    PROVE  AddsUp'
  <1>1. PICK named : named = payment[p].named
    OBVIOUS
  <1>2. PICK S : S = IF Owed(named) > 0 THEN {named} ELSE Invoice
    OBVIOUS
  <1>3. PICK owed : owed = Claims(S)
    OBVIOUS
  <1>4. PICK t : t = [Work("claiming") EXCEPT !.pay = p, !.lease = LeaseOf[named],
                                              !.amount = payment[p].amount, !.owed = owed]
    OBVIOUS
  <1>5. /\ t.step = "claiming" /\ t.pay = p /\ t.owed = owed /\ t.amount = payment[p].amount
        /\ \A q \in Payment : ~(t.take[q] > 0)
    BY <1>4 DEF Work
  <1>6. Turn(w, t) /\ UNCHANGED books /\ Grow /\ payment[p].status = "pending"
    BY <1>1, <1>2, <1>3, <1>4 DEF SettleCharge, Takes, Grow
  <1>7. named \in Invoice /\ Flies(p)
    BY <1>1, <1>6 DEF Typed, Named, Flies, InFlight
  <1>8. ASSUME named \notin raced'
        PROVE  owed[named] = payment[p].amount /\ \A j \in Invoice \ {named} : owed[j] = 0
    <2>1. Owed(named) = payment[p].amount
      BY <1>1, <1>6, <1>7, <1>8 DEF AddsUp, ChargeFits, Grow
    <2>2. payment[p].amount > 0
      BY <1>7 DEF Hands, Rows, RowsFit, Flies
    <2>3. S = {named}
      BY <1>2, <2>1, <2>2
    <2> QED
      BY <1>3, <1>7, <2>1, <2>3 DEF Claims
  <1>9. payment' = payment
    BY <1>6 DEF books
  <1>10. Settles(t)'
    BY <1>1, <1>5, <1>8, <1>9 DEF Settles
  <1> QED
    BY <1>3, <1>5, <1>6, <1>10, ClaimsAdd

\* A write-off reads what is owed.
LEMMA ReadForWriteOffAdds ==
    ASSUME IInv, Typed, Hands, AddsUp, Typed', NEW w \in Worker, NEW l \in Lease, ReadForWriteOff(w, l)
    PROVE  AddsUp'
  <1>1. PICK S : S = InvoicesOf(l)
    OBVIOUS
  <1>2. PICK owed : owed = Claims(S)
    OBVIOUS
  <1>3. PICK t : t = [Work("writing off") EXCEPT !.lease = l, !.amount = Balance(l), !.owed = owed]
    OBVIOUS
  <1>4. /\ t.step = "writing off" /\ t.owed = owed
        /\ \A q \in Payment : ~(t.take[q] > 0)
    BY <1>3 DEF Work
  <1>5. Turn(w, t) /\ UNCHANGED books /\ Grow
    BY <1>1, <1>2, <1>3 DEF ReadForWriteOff, Takes, Grow
  <1> QED
    BY <1>2, <1>4, <1>5, SettlesNone, ClaimsAdd
-----------------------------------------------------------------------------
\* A transaction goes on with what it has read.
LEMMA GoesOnAdds ==
    ASSUME IInv, Typed, Hands, AddsUp, Typed', NEW w \in Worker, NEW t, Turn(w, t),
           UNCHANGED <<books, raced, crossed, burnt>>,
           t.step \in {"summing", "charging"}, t.inv = tx[w].inv, t.owed = tx[w].owed,
           t.take = tx[w].take, t.had = tx[w].had, t.date = tx[w].date,
           t.step = "summing" => /\ tx[w].step = "spending"
                                 /\ Clean(t.inv) => t.amount = invoice[t.inv].paid + SumOf(t.take, Payment),
           t.step = "charging" => tx[w].step = "checking" /\ t.amount = tx[w].amount
    PROVE  AddsUp'
  <1>1. UNCHANGED <<invoice, payment, alloc, posted, forgiven, writtenOff>> /\ Grow
    BY DEF books, Grow
  <1>2. PICK u : u = tx[w]
    OBVIOUS
  <1>3. Foresees(u) /\ Affords(u)
    BY <1>2 DEF AddsUp
  <1>4. Foresees(t)
    BY <1>2, <1>3 DEF Foresees
  <1>5. Foresees(t)'
    <2>1. \A j \in Invoice : Owed(j)' = Owed(j)
      BY <1>1 DEF Owed
    <2>2. Clean(t.inv)' = Clean(t.inv)
      BY DEF Clean
    <2> QED
      BY <1>1, <1>4, <2>1, <2>2 DEF Foresees
  <1>6. Affords(t)
    BY <1>2, <1>3 DEF Affords
  <1>7. \A p \in Payment : Spent(p)' = Spent(p)
    BY <1>1 DEF Spent
  <1>8. Affords(t)'
    BY <1>1, <1>6, <1>7 DEF Affords
  <1> QED
    BY <1>1, <1>5, <1>8, SettlesNone, ReadAdds

\* The sum that is read is what was paid and what is taken.
LEMMA WriteCreditAdds == ASSUME IInv, Typed, Hands, AddsUp, Typed', NEW w \in Worker, WriteCredit(w) PROVE AddsUp'
  <1>1. PICK u : u = tx[w]
    OBVIOUS
  <1>2. PICK i : i = u.inv
    OBVIOUS
  <1>3. PICK row : row = [p \in Payment |-> IF u.take[p] > 0 THEN u.had[p] + u.take[p] ELSE alloc[p][i]]
    OBVIOUS
  <1>4. PICK sum : sum = SumOf(row, Succeeded)
    OBVIOUS
  <1>5. PICK t : t = [u EXCEPT !.step = "summing", !.amount = IF Spared(i) THEN 0 ELSE sum]
    OBVIOUS
  <1>6. /\ u.step = "spending" /\ i \in Invoice /\ DOMAIN u = Fields
        /\ u.take \in [Payment -> Nat] /\ u.had \in [Payment -> Nat]
    BY <1>1, <1>2, InHandTyped DEF WriteCredit, AboutOne, Step, IInv, Shapes
  <1>7. UNCHANGED <<books, raced, crossed, burnt>>
    BY DEF WriteCredit
  <1>8. Turn(w, Idle) \/ Turn(w, t)
    <2> DEFINE used == {p \in Payment : u.take[p] > 0}
               r(p) == IF p \in used THEN u.had[p] + u.take[p] ELSE alloc[p][i]
    <2>1. [p \in Payment |-> r(p)] = row
      BY <1>3
    <2>2. Turn(w, Idle) \/ Turn(w, [u EXCEPT !.step = "summing",
                                             !.amount = IF Spared(i) THEN 0
                                                        ELSE SumOf([p \in Payment |-> r(p)], Succeeded)])
      BY <1>1, <1>2 DEF WriteCredit
    <2> HIDE DEF r
    <2> QED
      BY <1>4, <1>5, <2>1, <2>2
  <1>9. CASE Turn(w, Idle)
    BY <1>7, <1>9, IdleAmounts, ReadAdds DEF Grow
  <1>10. CASE Turn(w, t)
    <2>1. /\ t.step = "summing" /\ t.inv = i /\ t.owed = u.owed /\ t.take = u.take /\ t.had = u.had
          /\ t.date = u.date /\ t.amount = IF Spared(i) THEN 0 ELSE sum
      BY <1>2, <1>5, <1>6 DEF Fields
    <2>2. ASSUME Clean(i) PROVE t.amount = invoice[i].paid + SumOf(u.take, Payment)
      <3>1. /\ invoice[i].status \in Open /\ \A p \in Payment : u.had[p] = alloc[p][i]
        BY <1>1, <1>2, <1>6, <2>2 DEF AddsUp, Foresees
      <3>2. ~Spared(i)
        BY <3>1 DEF Spared, Open
      <3>3. invoice[i].paid = Settled(i)
        BY <1>6, <2>2 DEF AddsUp, RowIsRight
      <3>4. sum = Settled(i) + SumOf(u.take, Payment)
        <4>1. PICK on : on = On(i)
          OBVIOUS
        <4>2. PICK all : all = [p \in Payment |-> IF payment[p].status = "succeeded" THEN row[p] ELSE 0]
          OBVIOUS
        <4>3. \A p \in Payment : row[p] \in Nat
          BY <1>3, <1>6 DEF Typed, TypeOK
        <4>4. sum = SumOf(all, Payment)
          <5> DEFINE status == [p \in Payment |-> payment[p].status]
          <5>1. {p \in Payment : status[p] = "succeeded"} = Succeeded
                /\ [p \in Payment |-> IF status[p] = "succeeded" THEN row[p] ELSE 0] = all
            BY <4>2 DEF Succeeded
          <5> HIDE DEF status
          <5> QED
            BY <1>4, <4>3, <5>1, SettledOverAll
        <4>5. Settled(i) = SumOf(on, Payment) /\ \A p \in Payment : on[p] \in Nat
          BY <1>6, <4>1, SettledIs
        <4>6. \A p \in Payment : u.take[p] > 0 => payment[p].status = "succeeded"
          BY <1>1 DEF Hands, Fits
        <4>7. \A p \in Payment : on[p] \in Int /\ u.take[p] \in Int /\ all[p] = on[p] + u.take[p]
          <5> TAKE p \in Payment
          <5>1. on[p] \in Nat /\ u.take[p] \in Nat /\ alloc[p][i] \in Nat
            BY <1>6, <4>5 DEF Typed, TypeOK
          <5>2. on[p] = IF payment[p].status = "succeeded" THEN alloc[p][i] ELSE 0
            BY <4>1 DEF On
          <5> QED
            BY <1>3, <3>1, <4>2, <4>6, <5>1, <5>2
        <4>8. IsFiniteSet(Payment)
          BY PaymentAssumption
        <4>9. SumOf(all, Payment) = SumOf(on, Payment) + SumOf(u.take, Payment)
          BY <4>7, <4>8, SumPlus DEF SumOf
        <4> QED
          BY <4>4, <4>5, <4>9
      <3> QED
        BY <2>1, <3>2, <3>3, <3>4
    <2> QED
      BY <1>1, <1>2, <1>6, <1>7, <1>10, <2>1, <2>2, GoesOnAdds
  <1> QED
    BY <1>8, <1>9, <1>10

\* A pass that ends, or goes on to charge.
LEMMA PassAdds ==
    ASSUME IInv, Typed, Hands, AddsUp, Typed', NEW w \in Worker, Skip(w) \/ Attempt(w)
    PROVE  AddsUp'
  <1>1. UNCHANGED <<books, raced, crossed, burnt>>
    BY DEF Skip, Attempt
  <1>2. CASE Skip(w)
    <2>1. Turn(w, Idle)
      BY <1>2 DEF Skip
    <2> QED
      BY <1>1, <2>1, IdleAmounts, ReadAdds DEF Grow
  <1>3. CASE Attempt(w)
    <2>1. PICK t : t = [tx[w] EXCEPT !.step = "charging"]
      OBVIOUS
    <2>2. Turn(w, t) /\ tx[w].step = "checking"
      BY <1>3, <2>1 DEF Attempt
    <2>3. DOMAIN tx[w] = Fields
      BY DEF IInv, Shapes
    <2>4. /\ t.step = "charging" /\ t.inv = tx[w].inv /\ t.owed = tx[w].owed /\ t.take = tx[w].take
          /\ t.had = tx[w].had /\ t.date = tx[w].date /\ t.amount = tx[w].amount
      BY <2>1, <2>3 DEF Fields
    <2> QED
      BY <1>1, <2>2, <2>4, GoesOnAdds
  <1> QED
    BY <1>2, <1>3
-----------------------------------------------------------------------------
(* The steps that write *)

\* What a credit adds to an invoice.
LEMMA CreditSettles ==
    ASSUME Typed, Typed', NEW i \in Invoice, NEW take \in [Payment -> Nat], UNCHANGED payment,
           \A p \in Payment : take[p] > 0 => payment[p].status = "succeeded",
           \A p \in Payment : alloc'[p][i] = alloc[p][i] + take[p]
    PROVE  Settled(i)' = Settled(i) + SumOf(take, Payment)
  <1>1. PICK on : on = On(i)
    OBVIOUS
  <1>2. PICK more : more = On(i)'
    OBVIOUS
  <1>3. /\ Settled(i) = SumOf(on, Payment) /\ \A p \in Payment : on[p] \in Nat
        /\ Settled(i)' = SumOf(more, Payment)
    BY <1>1, <1>2, SettledIs
  <1>4. \A p \in Payment : on[p] \in Int /\ take[p] \in Int /\ more[p] = on[p] + take[p]
    <2> TAKE p \in Payment
    <2>1. on[p] \in Nat /\ take[p] \in Nat /\ alloc[p][i] \in Nat
      BY <1>3 DEF Typed, TypeOK
    <2>2. /\ on[p] = IF payment[p].status = "succeeded" THEN alloc[p][i] ELSE 0
          /\ more[p] = IF payment[p].status = "succeeded" THEN alloc'[p][i] ELSE 0
      BY <1>1, <1>2 DEF On
    <2> QED
      BY <2>1, <2>2
  <1>5. IsFiniteSet(Payment)
    BY PaymentAssumption
  <1>6. SumOf(more, Payment) = SumOf(on, Payment) + SumOf(take, Payment)
    BY <1>4, <1>5, SumPlus DEF SumOf
  <1> QED
    BY <1>3, <1>6

\* A row that was computed anew is right.
LEMMA RecomputedRight ==
    ASSUME NEW i \in Invoice, NEW sum \in Nat, sum <= Total[i],
           invoice'[i] = Recomputed(i, sum), Settled(i)' = sum, forgiven'[i] = 0
    PROVE  RowIsRight(i)'
  <1>1. Total[i] \in Nat \ {0}
    BY InvoiceAssumption
  <1>2. /\ invoice'[i].paid = sum
        /\ invoice'[i].status = IF sum >= Total[i] THEN "paid" ELSE IF sum > 0 THEN "partially_paid" ELSE "open"
    BY DEF Recomputed
  <1>3. invoice'[i].status \notin Closed /\ (invoice'[i].status = "paid" <=> sum = Total[i])
        /\ invoice'[i].status # "void"
    BY <1>1, <1>2 DEF Closed
  <1> QED
    BY <1>2, <1>3 DEF RowIsRight

\* A payment spends more where its rows grow.
LEMMA SpentChanges ==
    ASSUME Typed, Typed', NEW p \in Payment, NEW i \in Invoice,
           \A j \in Invoice \ {i} : alloc'[p][j] = alloc[p][j]
    PROVE  Spent(p)' = Spent(p) - alloc[p][i] + alloc'[p][i]
  <1>1. PICK f : f = alloc[p]
    OBVIOUS
  <1>2. PICK g : g = alloc'[p]
    OBVIOUS
  <1>3. /\ \A j \in Invoice : f[j] \in Int /\ g[j] \in Int
        /\ \A j \in Invoice \ {i} : f[j] = g[j]
    BY <1>1, <1>2 DEF Typed, TypeOK
  <1>4. IsFiniteSet(Invoice)
    BY InvoiceAssumption
  <1>5. SumOf(g, Invoice) = SumOf(f, Invoice) - f[i] + g[i]
    BY <1>3, <1>4, SumChanges DEF SumOf
  <1> QED
    BY <1>1, <1>2, <1>5 DEF Spent

\* Credit is written where it was to go.
LEMMA CreditAdds ==
    ASSUME IInv, Typed, Hands, AddsUp, Typed', NEW w \in Worker, NEW t, Turn(w, t),
           NEW i \in Invoice, i = tx[w].inv, tx[w].step \in {"raising", "summing"},
           NEW take \in [Payment -> Nat], take = tx[w].take,
           UNCHANGED <<payment, posted, forgiven, raced, burnt>>, Crosses(w),
           \A p \in Payment, j \in Invoice \ {i} : alloc'[p][j] = alloc[p][j],
           \A p \in Payment : ~(take[p] > 0) => alloc'[p][i] = alloc[p][i],
           \A p \in Payment : take[p] > 0 /\ p \notin raced => alloc'[p][i] = alloc[p][i] + take[p],
           \A j \in Invoice \ {i} : invoice'[j] = invoice[j],
           Clean(i) => RowIsRight(i)', Foresees(t)', Affords(t)', Settles(t)'
    PROVE  AddsUp'
  <1>1. Grow
    BY DEF Crosses, Grow
  <1>2. ASSUME NEW j \in Invoice PROVE Keeps(j) \/ (Holds(w, j) /\ (Clean(j)' => RowIsRight(j)'))
    <2>1. CASE j = i
      BY <2>1 DEF Holds, Clean
    <2>2. CASE j # i
      BY <2>2 DEF Keeps, Stays, On
    <2> QED
      BY <2>1, <2>2
  <1>3. ASSUME NEW p \in Payment, ~(take[p] > 0) PROVE alloc'[p] = alloc[p]
    <2>1. \A j \in Invoice : alloc'[p][j] = alloc[p][j]
      BY <1>3
    <2>2. alloc[p] \in [Invoice -> Nat] /\ alloc'[p] \in [Invoice -> Nat]
      BY DEF Typed, TypeOK
    <2> QED
      BY <2>1, <2>2
  <1>4. tx[w].pay = None
    BY DEF Hands, Fits
  <1>5. \A p \in Payment : Flies(p)' => Flies(p) /\ tx[w].pay # p
    BY <1>4, NoneIsNone DEF Flies
  <1>6. ASSUME NEW p \in Payment, take[p] > 0 PROVE SpentOnce(p)'
    <2> SUFFICES ASSUME p \notin raced PROVE SpentOnce(p)'
      BY DEF SpentOnce
    <2>1. Spent(p)' = Spent(p) - alloc[p][i] + alloc'[p][i]
      BY SpentChanges
    <2>2. alloc'[p][i] = alloc[p][i] + take[p] /\ alloc[p][i] \in Nat /\ take[p] \in Nat
      BY <1>6 DEF Typed, TypeOK
    <2>3. Spent(p) + take[p] <= payment[p].amount
      BY <1>6 DEF AddsUp, Affords
    <2>4. Spent(p) \in Nat /\ payment[p].amount \in Nat
      BY SpareTyped DEF Typed, TypeOK, PaymentRow
    <2>5. Spent(p)' <= payment'[p].amount
      BY <2>1, <2>2, <2>3, <2>4
    <2>6. Spent(p)' \in Nat /\ payment'[p].amount \in Nat
      BY <2>1, <2>2, <2>4
    <2> QED
      BY <2>5, <2>6 DEF SpentOnce
  <1>7. ASSUME NEW p \in Payment, take[p] > 0 PROVE Posts(p, i)'
    <2>1. posted[p][LeaseOf[i]] \in Nat
      BY InvoiceAssumption DEF Typed, TypeOK
    <2>2. posted[p][LeaseOf[i]] = 0 => i \in crossed'
      BY <1>7 DEF Crosses
    <2> QED
      BY <2>1, <2>2 DEF Posts
  <1>8. ASSUME NEW p \in Payment, NEW j \in Invoice
        PROVE  \/ payment'[p].status = payment[p].status /\ alloc'[p][j] = alloc[p][j] /\ posted'[p] = posted[p]
               \/ Posts(p, j)'
    BY <1>7
  <1>9. Mine(w)
    BY DEF Mine
  <1> QED
    <2>1. \A j \in Invoice : j \notin raced' =>
              Keeps(j) \/ (Holds(w, j) /\ (Stays(j) \/ (Clean(j)' => RowIsRight(j)')))
      BY <1>2
    <2>2. \A p \in Payment : payment[p].status = "succeeded" /\ ~(tx[w].take[p] > 0)
              => payment'[p] = payment[p] /\ alloc'[p] = alloc[p]
      BY <1>3
    <2>3. \A p \in Payment : Flies(p)' =>
              \/ ChargeFits(p)'
              \/ /\ Flies(p) /\ payment'[p].named = payment[p].named /\ payment'[p].amount = payment[p].amount
                 /\ tx[w].pay = p => UNCHANGED invoice
      BY <1>5
    <2>4. ASSUME NEW p \in Payment
          PROVE  (payment[p].status = "succeeded" /\ ~(tx[w].take[p] > 0)) \/ SpentOnce(p)'
      <3>1. CASE tx[w].take[p] > 0
        BY <1>6, <3>1
      <3>2. payment[p].status # "succeeded" => SpentOnce(p)'
        BY DEF SpentOnce
      <3> QED
        BY <3>1, <3>2
    <2> QED
      BY <1>1, <1>8, <1>9, <2>1, <2>2, <2>3, <2>4, StepAdds

\* A raise settles what it took.
LEMMA CommitRaiseAdds == ASSUME IInv, Typed, Hands, AddsUp, Typed', NEW w \in Worker, CommitRaise(w) PROVE AddsUp'
  <1>1. PICK i \in Invoice : i = tx[w].inv
    BY InHandTyped DEF CommitRaise, AboutOne, Step
  <1>2. PICK take \in [Payment -> Nat] : take = tx[w].take
    BY InHandTyped
  <1>3. PICK sum : sum = SumOf(take, Payment)
    OBVIOUS
  <1>4. /\ tx[w].step = "raising"
        /\ alloc' = [p \in Payment |-> [alloc[p] EXCEPT ![i] = take[p]]]
        /\ invoice' = [invoice EXCEPT ![i] = Recomputed(i, sum)]
        /\ Turn(w, Idle) /\ Crosses(w) /\ UNCHANGED <<payment, posted, forgiven, raced, burnt>>
    BY <1>1, <1>2, <1>3 DEF CommitRaise
  <1>5. Unraised(i) /\ invoice[i].status = "none"
    BY <1>1, <1>4 DEF IInv, KnowsRow, Hands, Blank, AboutOne, Step
  <1>6. \A p \in Payment : alloc[p][i] = 0
    BY <1>5 DEF Unraised
  <1>7. \A p \in Payment : /\ alloc'[p][i] = alloc[p][i] + take[p]
                           /\ ~(take[p] > 0) => alloc'[p][i] = alloc[p][i]
                           /\ \A j \in Invoice \ {i} : alloc'[p][j] = alloc[p][j]
    BY <1>4, <1>6 DEF Typed, TypeOK
  <1>8. /\ invoice'[i] = Recomputed(i, sum)
        /\ \A j \in Invoice \ {i} : invoice'[j] = invoice[j]
    BY <1>4 DEF Typed, TypeOK
  <1>9. sum \in Nat /\ sum <= Total[i]
    BY <1>1, <1>2, <1>3, <1>4, SumOfPayments DEF AddsUp, Foresees
  <1>10. Settled(i) = 0
    <2>1. \A p \in Succeeded : RowsOf(i)[p] = 0
      BY <1>6 DEF Succeeded, RowsOf
    <2>2. IsFiniteSet(Succeeded)
      BY PaymentAssumption, FS_Subset DEF Succeeded
    <2> QED
      BY <2>1, <2>2, SumZeros DEF Settled, SumOf
  <1>11. \A p \in Payment : take[p] > 0 => payment[p].status = "succeeded"
    BY <1>2 DEF Hands, Fits
  <1>12. payment' = payment
    BY <1>4
  <1>13. Settled(i)' = Settled(i) + SumOf(take, Payment)
    BY <1>7, <1>11, <1>12, CreditSettles
  <1>14. RowIsRight(i)'
    BY <1>3, <1>4, <1>5, <1>8, <1>9, <1>10, <1>13, RecomputedRight DEF Unraised
  <1> QED
    BY <1>1, <1>2, <1>4, <1>7, <1>8, <1>14, IdleAmounts, CreditAdds

\* Credit settles what it took beside what was paid.
LEMMA CommitCreditAdds == ASSUME IInv, Typed, Hands, AddsUp, Typed', NEW w \in Worker, CommitCredit(w) PROVE AddsUp'
  <1>1. PICK i \in Invoice : i = tx[w].inv
    BY InHandTyped DEF CommitCredit, AboutOne, Step
  <1>2. PICK take \in [Payment -> Nat] : take = tx[w].take
    BY InHandTyped
  <1>3. PICK had \in [Payment -> Nat] : had = tx[w].had
    BY InHandTyped
  <1>4. PICK amount \in Nat : amount = tx[w].amount
    BY InHandTyped
  <1>5. PICK row : row = [p \in Payment |-> IF take[p] > 0 THEN had[p] + take[p] ELSE alloc[p][i]]
    OBVIOUS
  <1>6. PICK now : now = IF amount = 0 THEN invoice[i] ELSE Recomputed(i, amount)
    OBVIOUS
  <1>7. PICK t : t = [Work("checking") EXCEPT !.inv = i, !.date = tx[w].date, !.amount = now.paid]
    OBVIOUS
  <1>8. /\ tx[w].step = "summing"
        /\ alloc' = [p \in Payment |-> [alloc[p] EXCEPT ![i] = row[p]]]
        /\ invoice' = [invoice EXCEPT ![i] = now]
        /\ Turn(w, IF tx[w].date = None THEN Idle ELSE t)
        /\ Crosses(w) /\ UNCHANGED <<payment, posted, forgiven, raced, burnt>>
    BY <1>1, <1>2, <1>3, <1>4, <1>5, <1>6, <1>7 DEF CommitCredit
  <1>9. \A p \in Payment : /\ alloc'[p][i] = row[p]
                           /\ \A j \in Invoice \ {i} : alloc'[p][j] = alloc[p][j]
    BY <1>8 DEF Typed, TypeOK
  <1>10. /\ invoice'[i] = now
         /\ \A j \in Invoice \ {i} : invoice'[j] = invoice[j]
    BY <1>8 DEF Typed, TypeOK
  <1>11. /\ \A p \in Payment : ~(take[p] > 0) => alloc'[p][i] = alloc[p][i]
         /\ \A p \in Payment : take[p] > 0 => alloc'[p][i] = had[p] + take[p]
    BY <1>5, <1>9
  <1>12. /\ Foresees(tx[w]) /\ Affords(tx[w]) /\ Fits(tx[w])
    BY DEF AddsUp, Hands
  <1>13. ASSUME NEW p \in Payment, take[p] > 0, p \notin raced PROVE alloc'[p][i] = alloc[p][i] + take[p]
    BY <1>1, <1>2, <1>3, <1>8, <1>11, <1>12, <1>13 DEF Affords
  <1>14. ASSUME Clean(i) PROVE RowIsRight(i)'
    <2>1. /\ invoice[i].status \in Open /\ invoice[i].paid + SumOf(take, Payment) <= Total[i]
          /\ \A p \in Payment : had[p] = alloc[p][i]
          /\ amount = invoice[i].paid + SumOf(take, Payment)
      BY <1>1, <1>2, <1>3, <1>4, <1>8, <1>12, <1>14 DEF Foresees
    <2>2. \A p \in Payment : alloc'[p][i] = alloc[p][i] + take[p]
      <3> TAKE p \in Payment
      <3>1. take[p] \in Nat /\ alloc[p][i] \in Nat
        BY DEF Typed, TypeOK
      <3> QED
        BY <1>11, <2>1, <3>1
    <2>3. \A p \in Payment : take[p] > 0 => payment[p].status = "succeeded"
      BY <1>2, <1>12 DEF Fits
    <2>4. payment' = payment /\ forgiven' = forgiven
      BY <1>8
    <2>5. Settled(i)' = Settled(i) + SumOf(take, Payment)
      BY <2>2, <2>3, <2>4, CreditSettles
    <2>6. RowIsRight(i)
      BY <1>14 DEF AddsUp
    <2>7. Settled(i)' = amount /\ amount <= Total[i]
      BY <2>1, <2>5, <2>6 DEF RowIsRight
    <2>8. forgiven'[i] = 0
      BY <2>1, <2>4, <2>6 DEF RowIsRight, Open, Closed
    <2>9. CASE amount = 0
      <3>1. invoice[i].paid \in Nat /\ SumOf(take, Payment) \in Nat
        BY SumOfPayments DEF Typed, TypeOK, InvoiceRow
      <3>2. invoice[i].paid = 0
        BY <2>1, <2>9, <3>1
      <3>3. invoice'[i] = invoice[i]
        BY <1>6, <1>10, <2>9
      <3>4. invoice'[i].paid = Settled(i)'
        BY <2>7, <2>9, <3>2, <3>3
      <3> QED
        BY <2>4, <2>6, <3>3, <3>4 DEF RowIsRight
    <2>10. CASE amount # 0
      BY <1>6, <1>10, <2>7, <2>8, <2>10, RecomputedRight
    <2> QED
      BY <2>9, <2>10
  <1>15. PICK u : u = IF tx[w].date = None THEN Idle ELSE t
    OBVIOUS
  <1>16. Foresees(u)' /\ Affords(u)' /\ Settles(u)'
    <2>1. CASE tx[w].date = None
      BY <1>15, <2>1, IdleAmounts
    <2>2. CASE tx[w].date # None
      <3>1. /\ t.step = "checking" /\ t.inv = i /\ t.amount = now.paid
            /\ \A p \in Payment : ~(t.take[p] > 0)
            /\ \A j \in Invoice : ~(t.owed[j] > 0)
        BY <1>7 DEF Work
      <3>2. i \notin raced => invoice[i].status \in Open
        BY <1>1, <1>8, <1>12, <2>2 DEF Foresees
      <3>3. Total[i] \in Nat
        BY InvoiceAssumption
      <3>4. i \notin raced /\ now.paid < Total[i] => now.status \in Open
        BY <1>6, <3>2, <3>3 DEF Recomputed, Open
      <3>5. Foresees(t)'
        BY <1>8, <1>10, <3>1, <3>4 DEF Foresees
      <3> QED
        BY <1>15, <2>2, <3>1, <3>5, AffordsNone, SettlesNone
    <2> QED
      BY <2>1, <2>2
  <1>17. Turn(w, u)
    BY <1>8, <1>15
  <1> QED
    BY <1>1, <1>2, <1>8, <1>9, <1>10, <1>11, <1>13, <1>14, <1>16, <1>17, CreditAdds
-----------------------------------------------------------------------------
\* What was owed is forgiven when an open invoice is closed.
LEMMA ClosedRight ==
    ASSUME Typed, Typed', NEW i \in Invoice, UNCHANGED <<payment, alloc>>, RowIsRight(i),
           invoice[i].status \in Open, invoice'[i].status \in Closed, invoice'[i].paid = invoice[i].paid,
           i \notin Fee /\ invoice'[i].status = "void" => invoice[i].paid = 0,
           forgiven'[i] = forgiven[i] + (Total[i] - invoice[i].paid)
    PROVE  RowIsRight(i)'
  <1>1. On(i)' = On(i)
    BY DEF On
  <1>2. Settled(i)' = Settled(i)
    BY <1>1, SettledStays
  <1>3. invoice[i].status \notin Closed /\ invoice[i].status # "paid" /\ invoice'[i].status # "paid"
    BY DEF Open, Closed
  <1>4. forgiven[i] = 0 /\ invoice[i].paid # Total[i]
    BY <1>3 DEF RowIsRight
  <1>5. Total[i] \in Nat /\ invoice[i].paid \in Nat
    BY InvoiceAssumption DEF Typed, TypeOK, InvoiceRow
  <1> QED
    BY <1>2, <1>3, <1>4, <1>5 DEF RowIsRight

\* Invoices that a worker holds are closed, and it holds nothing afterwards.
LEMMA ClosesAdds ==
    ASSUME IInv, Typed, Hands, AddsUp, Typed', NEW w \in Worker, Turn(w, Idle), tx[w].pay = None,
           UNCHANGED <<payment, alloc, posted, raced, crossed, burnt>>,
           \A j \in Invoice : \/ invoice'[j] = invoice[j] /\ forgiven'[j] = forgiven[j]
                              \/ Holds(w, j) /\ (Clean(j) => RowIsRight(j)')
    PROVE  AddsUp'
  <1>1. Grow /\ Mine(w)
    BY DEF Grow, Mine
  <1>2. \A j \in Invoice : Clean(j)' => Clean(j)
    BY DEF Clean
  <1>3. \A j \in Invoice : invoice'[j] = invoice[j] /\ forgiven'[j] = forgiven[j] => Keeps(j)
    BY DEF Keeps, Stays, On
  <1>4. \A j \in Invoice : j \notin raced' =>
            Keeps(j) \/ (Holds(w, j) /\ (Stays(j) \/ (Clean(j)' => RowIsRight(j)')))
    BY <1>2, <1>3
  <1>5. \A p \in Payment : Flies(p)' =>
            \/ ChargeFits(p)'
            \/ /\ Flies(p) /\ payment'[p].named = payment[p].named /\ payment'[p].amount = payment[p].amount
               /\ tx[w].pay = p => UNCHANGED invoice
    BY NoneIsNone DEF Flies
  <1>6. \A p \in Payment : SpentOnce(p)'
    BY DEF AddsUp, SpentOnce, Spent
  <1> QED
    BY <1>1, <1>4, <1>5, <1>6, IdleAmounts, StepAdds

\* A waiver forgives what the fee still owed.
LEMMA CommitWaiverAdds == ASSUME IInv, Typed, Hands, AddsUp, Typed', NEW w \in Worker, CommitWaiver(w) PROVE AddsUp'
  <1>1. PICK i \in Invoice : i = tx[w].inv
    BY InHandTyped DEF CommitWaiver, AboutOne, Step
  <1>2. PICK amount \in Nat : amount = tx[w].amount
    BY InHandTyped
  <1>3. /\ tx[w].step = "waiving" /\ Turn(w, Idle)
        /\ forgiven' = [forgiven EXCEPT ![i] = @ + amount]
        /\ invoice' = [invoice EXCEPT ![i].status = "void"]
        /\ UNCHANGED <<payment, alloc, posted, raced, crossed, burnt>>
    BY <1>1, <1>2 DEF CommitWaiver
  <1>4. /\ invoice'[i].status = "void" /\ invoice'[i].paid = invoice[i].paid
        /\ forgiven'[i] = forgiven[i] + amount
        /\ \A j \in Invoice \ {i} : invoice'[j] = invoice[j] /\ forgiven'[j] = forgiven[j]
    BY <1>3 DEF Typed, TypeOK, InvoiceRow
  <1>5. ASSUME Clean(i) PROVE RowIsRight(i)'
    <2>1. /\ i \in Fee /\ invoice[i].status \in Open /\ amount = Total[i] - invoice[i].paid
      BY <1>1, <1>2, <1>3, <1>5 DEF AddsUp, Foresees
    <2>2. RowIsRight(i)
      BY <1>5 DEF AddsUp
    <2> QED
      BY <1>3, <1>4, <2>1, <2>2, ClosedRight DEF Closed
  <1>6. Holds(w, i) /\ tx[w].pay = None
    BY <1>1, <1>3 DEF Holds, Hands, Fits
  <1> QED
    BY <1>3, <1>4, <1>5, <1>6, ClosesAdds

\* A write-off forgives what each invoice it closes still owed.
LEMMA CommitWriteOffAdds == ASSUME IInv, Typed, Hands, AddsUp, Typed', NEW w \in Worker, CommitWriteOff(w) PROVE AddsUp'
  <1>1. PICK owed \in [Invoice -> Nat] : owed = tx[w].owed
    BY InHandTyped
  <1>2. PICK left : left = Remaining(owed, tx[w].amount)
    OBVIOUS
  <1>3. PICK covered : covered = {i \in Invoice : owed[i] > 0 /\ owed[i] <= left[i - 1]}
    OBVIOUS
  <1>4. /\ tx[w].step = "writing off" /\ Turn(w, Idle)
        /\ forgiven' = [i \in Invoice |-> IF i \in covered THEN forgiven[i] + owed[i] ELSE forgiven[i]]
        /\ invoice' = [i \in Invoice |-> IF i \in covered
                                         THEN [invoice[i] EXCEPT !.status = "uncollectible"]
                                         ELSE invoice[i]]
        /\ UNCHANGED <<payment, alloc, posted, raced, crossed, burnt>>
    BY <1>1, <1>2, <1>3 DEF CommitWriteOff
  <1>5. ASSUME NEW j \in Invoice, j \notin covered
        PROVE  invoice'[j] = invoice[j] /\ forgiven'[j] = forgiven[j]
    BY <1>4, <1>5
  <1>6. ASSUME NEW j \in covered PROVE j \in Invoice /\ Holds(w, j) /\ (Clean(j) => RowIsRight(j)')
    <2>1. j \in Invoice /\ owed[j] > 0 /\ Holds(w, j)
      BY <1>1, <1>3 DEF Holds
    <2> SUFFICES ASSUME Clean(j) PROVE RowIsRight(j)'
      BY <2>1
    <2>2. /\ invoice'[j].status = "uncollectible" /\ invoice'[j].paid = invoice[j].paid
          /\ forgiven'[j] = forgiven[j] + owed[j]
      <3>1. invoice'[j] = [invoice[j] EXCEPT !.status = "uncollectible"]
        BY <1>4, <2>1
      <3>2. forgiven'[j] = forgiven[j] + owed[j]
        BY <1>4, <2>1
      <3>3. invoice[j] \in InvoiceRow
        BY <2>1 DEF Typed, TypeOK
      <3> QED
        BY <3>1, <3>2, <3>3 DEF InvoiceRow
    <2>3. invoice[j].status \in Open /\ owed[j] = Owed(j)
      BY <1>1, <1>4, <2>1 DEF AddsUp, Foresees, Clean
    <2>4. RowIsRight(j)
      BY <2>1 DEF AddsUp
    <2>5. Total[j] \in Nat /\ invoice[j].paid \in Nat /\ invoice[j].paid <= Total[j]
      BY <2>1, <2>4, InvoiceAssumption DEF Typed, TypeOK, InvoiceRow, RowIsRight
    <2>6. owed[j] = Total[j] - invoice[j].paid
      BY <2>3, <2>5 DEF Owed, Less
    <2> QED
      BY <1>4, <2>1, <2>2, <2>3, <2>4, <2>6, ClosedRight DEF Closed
  <1>7. tx[w].pay = None
    BY <1>4 DEF Hands, Fits
  <1> QED
    BY <1>4, <1>5, <1>6, <1>7, ClosesAdds

\* A step of nobody's transaction that writes one invoice.
LEMMA NobodyAdds ==
    ASSUME IInv, Typed, Hands, AddsUp, Typed', UNCHANGED <<tx, payment, alloc, posted>>, Grow, NEW i \in Invoice,
           \A j \in Invoice \ {i} : invoice'[j] = invoice[j] /\ forgiven'[j] = forgiven[j],
           Clean(i)' => RowIsRight(i)',
           \A v \in Worker : Holds(v, i) => \/ i \in raced'
                                            \/ tx[v].step = "claiming" /\ invoice'[i].status \notin Open,
           \A p \in Payment : Flies(p) => payment[p].named # i
    PROVE  AddsUp'
  <1>1. \A j : (Clean(j)' => Clean(j)) /\ (j \notin raced' => j \notin raced) /\ (Clean(j)' => j \notin raced')
    BY DEF Clean, Grow
  <1>2. ASSUME NEW j \in Invoice, Clean(j)' PROVE RowIsRight(j)'
    <2>1. CASE j = i
      BY <1>2, <2>1
    <2>2. CASE j # i
      <3>1. RowIsRight(j)
        BY <1>1, <1>2 DEF AddsUp
      <3>2. Stays(j)
        BY <2>2 DEF Stays, On
      <3> QED
        BY <3>1, <3>2, StaysRight
    <2> QED
      BY <2>1, <2>2
  <1>3. ASSUME NEW v \in Worker PROVE Foresees(tx[v])' /\ Affords(tx[v])' /\ Settles(tx[v])'
    <2>1. /\ Foresees(tx[v]) /\ Affords(tx[v]) /\ Settles(tx[v])
          /\ (tx[v].step \in AboutOne => tx[v].inv \in Invoice)
      BY DEF AddsUp, IInv, KnowsRow
    <2>2. PICK u : u = tx[v]
      OBVIOUS
    <2>3. \A j \in Invoice : u.inv = j \/ u.owed[j] > 0 => Holds(v, j)
      BY <2>2 DEF Holds
    <2>4. \A j \in Invoice : Holds(v, j) /\ j \notin raced' =>
              \/ invoice'[j] = invoice[j] /\ Owed(j)' = Owed(j)
              \/ u.step = "claiming" /\ invoice'[j].status \notin Open
      BY <2>2 DEF Owed
    <2>5. Foresees(u)'
      <3>1. Foresees(u)
        BY <2>1, <2>2
      <3>2. u.step \in {"raising", "spending", "summing", "waiving", "listed", "checking", "charging"}
            => u.inv \in Invoice /\ Holds(v, u.inv) /\ u.step # "claiming"
        BY <2>1, <2>2, <2>3 DEF AboutOne, Step
      <3>3. u.step \in {"raising", "spending", "summing", "waiving", "listed", "checking", "charging"}
               /\ u.inv \notin raced'
            => invoice'[u.inv] = invoice[u.inv]
        BY <3>2, <2>4
      <3>4. u.step = "raising" => SumOf(u.take, Payment) <= Total[u.inv]
        BY <3>1 DEF Foresees
      <3>5. u.step \in {"spending", "summing"} /\ Clean(u.inv)' =>
            /\ invoice'[u.inv].status \in Open
            /\ invoice'[u.inv].paid + SumOf(u.take, Payment) <= Total[u.inv]
            /\ \A p \in Payment : u.had[p] = alloc'[p][u.inv]
            /\ u.step = "summing" => u.amount = invoice'[u.inv].paid + SumOf(u.take, Payment)
        BY <3>1, <3>3, <1>1 DEF Foresees
      <3>6. u.step = "waiving" =>
            /\ u.inv \in Fee
            /\ Clean(u.inv)' => /\ invoice'[u.inv].status \in Open
                                /\ u.amount = Total[u.inv] - invoice'[u.inv].paid
        BY <3>1, <3>3, <1>1 DEF Foresees
      <3>7. u.step \in {"listed", "checking", "charging"} /\ u.inv \notin raced' =>
            /\ u.amount = invoice'[u.inv].paid
            /\ invoice'[u.inv].paid < Total[u.inv] => invoice'[u.inv].status \in Open
        BY <3>1, <3>3, <1>1 DEF Foresees
      <3>8. /\ u.step = "listed" \/ (u.step \in {"spending", "summing"} /\ u.date # None)
            /\ u.inv \notin raced'
            => invoice'[u.inv].status \in Open
        BY <3>1, <3>3, <1>1 DEF Foresees
      <3>9. ASSUME NEW j \in Invoice, j \notin raced', u.owed[j] > 0
            PROVE  /\ invoice'[j].status \in Open => u.owed[j] = Owed(j)'
                   /\ u.step = "writing off" => invoice'[j].status \in Open
        BY <3>1, <3>9, <2>3, <2>4, <1>1 DEF Foresees
      <3> QED
        BY <3>4, <3>5, <3>6, <3>7, <3>8, <3>9 DEF Foresees
    <2>6. Affords(u)'
      <3>1. Affords(u)
        BY <2>1, <2>2
      <3> QED
        BY <3>1, <1>1 DEF Affords, Spent
    <2>7. Settles(u)'
      <3>1. Settles(u)
        BY <2>1, <2>2
      <3> QED
        BY <3>1, <1>1 DEF Settles
    <2>8. tx'[v] = u
      BY <2>2
    <2> QED
      BY <2>5, <2>6, <2>7, <2>8
  <1>4. ASSUME NEW p \in Payment PROVE ChargeFits(p)' /\ SpentOnce(p)' /\ \A j \in Invoice : Posts(p, j)'
    <2>1. ChargeFits(p) /\ SpentOnce(p) /\ \A j \in Invoice : Posts(p, j)
      BY DEF AddsUp
    <2>2. \A j \in Invoice \ {i} : Owed(j)' = Owed(j)
      BY DEF Owed
    <2>3. ChargeFits(p)'
      BY <1>1, <2>1, <2>2, FliesOnRaised DEF ChargeFits, Flies
    <2>4. SpentOnce(p)'
      BY <1>1, <2>1 DEF SpentOnce, Spent
    <2>5. \A j \in Invoice : Posts(p, j)'
      BY <2>1 DEF Posts, Grow
    <2> QED
      BY <2>3, <2>4, <2>5
  <1> QED
    BY <1>2, <1>3, <1>4 DEF AddsUp

\* Nothing is on a fee that is raised.
LEMMA RaiseFeeAdds == ASSUME IInv, Typed, Hands, AddsUp, Typed', NEW i \in Invoice, RaiseFee(i) PROVE AddsUp'
  <1>1. /\ UNCHANGED <<tx, payment, alloc, posted, forgiven>> /\ Grow /\ invoice[i].status = "none"
        /\ invoice' = [invoice EXCEPT ![i] = [status |-> "open", paid |-> 0]]
        /\ \A v \in Worker : tx[v].step # "raising"
    BY DEF RaiseFee, Raise, CounterFree, Grow
  <1>2. /\ invoice'[i] = [status |-> "open", paid |-> 0]
        /\ \A j \in Invoice \ {i} : invoice'[j] = invoice[j]
    BY <1>1 DEF Typed, TypeOK
  <1>3. forgiven[i] = 0 /\ \A p \in Payment : alloc[p][i] = 0
    BY <1>1 DEF Hands, Blank, Unraised
  <1>4. Settled(i)' = 0
    <2>1. \A p \in Payment : On(i)'[p] = 0
      BY <1>1, <1>3 DEF On
    <2> QED
      BY <2>1, SettledIs, PaymentAssumption, SumZeros DEF SumOf
  <1>5. RowIsRight(i)'
    <2>1. Total[i] \in Nat \ {0}
      BY InvoiceAssumption
    <2> QED
      BY <1>1, <1>2, <1>3, <1>4, <2>1 DEF RowIsRight, Closed
  <1>6. \A v \in Worker : ~Holds(v, i)
    BY <1>1 DEF IInv, KnowsRow
  <1>7. \A p \in Payment : Flies(p) => payment[p].named # i
    BY <1>1, FliesOnRaised
  <1> QED
    BY <1>1, <1>2, <1>5, <1>6, <1>7, NobodyAdds

\* All of an invoice that nothing is on is forgiven when it is voided.
LEMMA VoidInvoiceAdds == ASSUME IInv, Typed, Hands, AddsUp, Typed', NEW i \in Invoice, VoidInvoice(i) PROVE AddsUp'
  <1>1. /\ UNCHANGED <<tx, payment, alloc, posted>> /\ Grow
        /\ invoice[i].status \notin Closed \cup {"none"} /\ invoice[i].paid = 0
        /\ forgiven' = [forgiven EXCEPT ![i] = @ + Total[i]]
        /\ invoice' = [invoice EXCEPT ![i].status = "void"]
    BY DEF VoidInvoice, Grow
  <1>2. /\ invoice'[i].status = "void" /\ invoice'[i].paid = invoice[i].paid
        /\ forgiven'[i] = forgiven[i] + Total[i]
        /\ \A j \in Invoice \ {i} : invoice'[j] = invoice[j] /\ forgiven'[j] = forgiven[j]
    BY <1>1 DEF Typed, TypeOK, InvoiceRow
  <1>3. ASSUME Clean(i)' PROVE RowIsRight(i)'
    <2>1. RowIsRight(i)
      BY <1>1, <1>3 DEF AddsUp, Clean, Grow
    <2>2. Total[i] \in Nat \ {0} /\ invoice[i] \in InvoiceRow
      BY InvoiceAssumption DEF Typed, TypeOK
    <2>3. invoice[i].status # "paid"
      BY <1>1, <2>1, <2>2 DEF RowIsRight
    <2>4. invoice[i].status \in Open
      BY <1>1, <2>2, <2>3 DEF InvoiceRow
    <2>5. forgiven'[i] = forgiven[i] + (Total[i] - invoice[i].paid)
      BY <1>1, <1>2, <2>2
    <2> QED
      BY <1>1, <1>2, <2>1, <2>4, <2>5, ClosedRight DEF Closed
  <1>4. ASSUME NEW v \in Worker, Holds(v, i), tx[v].step # "claiming" PROVE i \in raced'
    <2>1. i \in InHand(v)
      BY <1>4, NoneIsNone DEF Holds, InHand
    <2> QED
      BY <1>4, <2>1 DEF VoidInvoice
  <1>5. invoice'[i].status \notin Open
    BY <1>2 DEF Open
  <1>6. ASSUME NEW p \in Payment, Flies(p) PROVE payment[p].named # i
    <2>1. alloc[p][i] = 0
      BY <1>6 DEF VoidInvoice, Flies
    <2>2. payment[p].amount > 0 /\ (payment[p].named = i => alloc[p][i] = payment[p].amount)
      BY <1>6 DEF Hands, Rows, RowsFit, Flies
    <2> QED
      BY <2>1, <2>2
  <1> QED
    BY <1>1, <1>2, <1>3, <1>4, <1>5, <1>6, NobodyAdds
-----------------------------------------------------------------------------
\* The entry of a lease is no less than any line of its invoices.
LEMMA PostCovers ==
    ASSUME NEW lines \in [Invoice -> Nat], NEW amount \in Nat, NEW anchor, NEW i \in Invoice
    PROVE  lines[i] <= Post(LeaseOf[i], anchor, amount, lines)
  <1>1. PICK S : S = InvoicesOf(LeaseOf[i])
    OBVIOUS
  <1>2. i \in S /\ S \in SUBSET Invoice /\ IsFiniteSet(S)
    BY <1>1, InvoiceAssumption, FS_Subset DEF InvoicesOf
  <1>3. \A j \in S : lines[j] \in Nat
    BY <1>2
  <1>4. lines[i] <= SumOf(lines, S)
    BY <1>2, <1>3, SumCovers DEF SumOf
  <1>5. SumOf(lines, S) \in Nat /\ SumOf(lines, Invoice) \in Nat
    BY <1>2, SumOfInvoices
  <1>6. Less(amount, SumOf(lines, Invoice)) \in Nat
    BY <1>5, LessTyped
  <1>7. \A x, y, z \in Nat : z <= x => z <= x + y
    OBVIOUS
  <1>8. lines[i] \in Nat
    OBVIOUS
  <1> QED
    BY <1>1, <1>4, <1>5, <1>6, <1>7, <1>8 DEF Post

\* A payment settles the invoices it pays by their lines.
LEMMA PaymentSettles ==
    ASSUME Typed, Typed', NEW p \in Payment, payment[p].status # "succeeded", payment'[p].status = "succeeded",
           \A q \in Payment \ {p} : payment'[q] = payment[q] /\ alloc'[q] = alloc[q], NEW i \in Invoice
    PROVE  Settled(i)' = Settled(i) + alloc'[p][i]
  <1>1. PICK on : on = On(i)
    OBVIOUS
  <1>2. PICK more : more = On(i)'
    OBVIOUS
  <1>3. /\ Settled(i) = SumOf(on, Payment) /\ \A q \in Payment : on[q] \in Nat
        /\ Settled(i)' = SumOf(more, Payment) /\ \A q \in Payment : more[q] \in Nat
    BY <1>1, <1>2, SettledIs
  <1>4. on[p] = 0 /\ more[p] = alloc'[p][i]
    BY <1>1, <1>2 DEF On
  <1>8. \A q \in Payment \ {p} : on[q] = more[q]
    BY <1>1, <1>2 DEF On
  <1>5. IsFiniteSet(Payment) /\ \A q \in Payment : on[q] \in Int /\ more[q] \in Int
    BY <1>3, PaymentAssumption
  <1>6. SumOf(more, Payment) = SumOf(on, Payment) - on[p] + more[p]
    BY <1>5, <1>8, SumChanges DEF SumOf
  <1>7. SumOf(on, Payment) \in Nat /\ more[p] \in Nat
    BY <1>3, SumOfPayments
  <1> QED
    BY <1>3, <1>4, <1>6, <1>7

\* A payment settles what its invoices still owed, and no more than it is.
LEMMA CommitPaymentAdds == ASSUME IInv, Typed, Hands, AddsUp, Typed', NEW w \in Worker, CommitPayment(w) PROVE AddsUp'
  <1>1. PICK p \in Payment, amount \in Nat : p = tx[w].pay /\ amount = tx[w].amount
    BY InHandTyped DEF CommitPayment, Points
  <1>2. tx[w].owed \in [Invoice -> Nat]
    BY InHandTyped
  <1>3. PICK owed \in [Invoice -> Nat] :
            /\ owed = StillOpen(w)
            /\ \A i \in Invoice : owed[i] = IF invoice[i].status \in Open THEN tx[w].owed[i] ELSE 0
    <2>1. StillOpen(w) \in [Invoice -> Nat]
      BY <1>2 DEF StillOpen
    <2>2. \A i \in Invoice : StillOpen(w)[i] = IF invoice[i].status \in Open THEN tx[w].owed[i] ELSE 0
      BY DEF StillOpen
    <2> QED
      BY <2>1, <2>2
  <1>4. PICK lines : lines = [i \in Invoice |-> Line(owed, amount, i)]
    OBVIOUS
  <1>5. lines \in [Invoice -> Nat] /\ SumOf(lines, Invoice) <= amount
    BY <1>4, LinesFit
  <1>6. \A i \in Invoice : lines[i] <= owed[i] /\ lines[i] \in Nat /\ owed[i] \in Nat
    BY <1>4, <1>5, LineTyped
  <1>7. PICK paid : paid = {i \in Invoice : owed[i] > 0 /\ lines[i] > 0}
    OBVIOUS
  <1>8. /\ tx[w].step = "claiming"
        /\ payment' = [payment EXCEPT ![p].status = "succeeded", ![p].amount = amount]
        /\ alloc' = [alloc EXCEPT ![p] = [i \in Invoice |-> IF i \in paid THEN lines[i] ELSE @[i]]]
        /\ invoice' = [i \in Invoice |->
                          IF i \in paid /\ ~Spared(i)
                          THEN Recomputed(i, lines[i] + SumOf(RowsOf(i), Succeeded \ {p})) ELSE invoice[i]]
        /\ posted' = [posted EXCEPT ![p] = [l \in Lease |-> Post(l, tx[w].lease, amount, lines)]]
        /\ Turn(w, Idle)
        /\ UNCHANGED <<forgiven, raced, crossed, burnt>>
    BY <1>1, <1>3, <1>4, <1>7 DEF CommitPayment
  <1>9. payment[p].status \in {"none", "pending"}
    BY <1>1, <1>8 DEF Hands, Fits
  <1>10. \A v \in Worker \ {w} : tx[v].pay # p
    BY <1>1, <1>8, NoneIsNone DEF Hands, Apart
  <1>11. /\ payment'[p].status = "succeeded" /\ payment'[p].named = payment[p].named
         /\ payment'[p].amount = amount
         /\ \A q \in Payment \ {p} : payment'[q] = payment[q]
    <2>1. payment[p] \in PaymentRow /\ payment \in [Payment -> PaymentRow]
      BY DEF Typed, TypeOK
    <2>2. \A q \in Payment \ {p} : payment'[q] = payment[q]
      BY <1>8, <2>1
    <2>3. payment'[p] = [payment[p] EXCEPT !.status = "succeeded", !.amount = amount]
      BY <1>8, <2>1
    <2> QED
      BY <2>1, <2>2, <2>3 DEF PaymentRow
  <1>12. /\ \A q \in Payment \ {p} : alloc'[q] = alloc[q] /\ posted'[q] = posted[q]
         /\ \A i \in Invoice : alloc'[p][i] = IF i \in paid THEN lines[i] ELSE alloc[p][i]
    BY <1>8 DEF Typed, TypeOK
  <1>13. \A i \in Invoice : posted'[p][LeaseOf[i]] = Post(LeaseOf[i], tx[w].lease, amount, lines)
    BY <1>8, InvoiceAssumption DEF Typed, TypeOK
  <1>14. RowsFit(p) /\ Settles(tx[w]) /\ ChargeFits(p) /\ Foresees(tx[w])
    BY DEF Hands, Rows, AddsUp
  <1>15. ASSUME payment[p].status = "pending", payment[p].named \notin raced
         PROVE  payment[p].named \in paid
    <2>1. PICK i \in Invoice : i = payment[p].named
      BY <1>15, FliesOnRaised DEF Flies, InFlight
    <2>2. Flies(p) /\ amount > 0
      BY <1>1, <1>8, <1>14, <1>15 DEF Flies, InFlight, RowsFit, Settles
    <2>3. /\ amount = payment[p].amount /\ tx[w].owed[i] = amount
          /\ \A j \in Invoice \ {i} : tx[w].owed[j] = 0
      BY <1>1, <1>8, <1>14, <1>15, <2>1 DEF Settles
    <2>4. invoice[i].status \in Open
      BY <1>14, <1>15, <2>1, <2>2 DEF ChargeFits
    <2>5. owed[i] = amount /\ \A j \in Invoice \ {i} : owed[j] = 0
      BY <1>3, <2>3, <2>4
    <2>6. lines[i] = amount
      BY <1>4, <2>5, LineAlone
    <2> QED
      BY <1>7, <2>1, <2>2, <2>5, <2>6
  <1>16. ASSUME NEW i \in Invoice, i \notin paid, i \notin raced \/ payment[p].status = "none" \/ payment[p].named \notin raced
         PROVE  alloc[p][i] = 0 /\ alloc'[p][i] = 0 /\ lines[i] = 0
    <2>1. alloc[p][i] = 0
      BY <1>9, <1>14, <1>15, <1>16 DEF RowsFit, InFlight
    <2>2. lines[i] = 0
      BY <1>6, <1>7, <1>16
    <2> QED
      BY <1>12, <1>16, <2>1, <2>2
  <1>17. ASSUME NEW i \in Invoice, i \notin paid, i \notin raced PROVE Keeps(i)
    <2>1. alloc[p][i] = 0 /\ alloc'[p][i] = 0
      BY <1>16, <1>17
    <2>2. \A q \in Payment : alloc'[q][i] = alloc[q][i]
      BY <1>12, <2>1
    <2>3. \A q \in Payment : On(i)'[q] = On(i)[q]
      BY <1>11, <2>1, <2>2 DEF On
    <2>4. invoice'[i] = invoice[i] /\ forgiven'[i] = forgiven[i]
      BY <1>8, <1>17
    <2> QED
      BY <2>2, <2>3, <2>4 DEF Keeps, Stays
  <1>18. ASSUME NEW i \in Invoice, i \in paid PROVE Holds(w, i) /\ (Clean(i)' => RowIsRight(i)')
    <2>1. owed[i] > 0 /\ lines[i] > 0 /\ invoice[i].status \in Open /\ owed[i] = tx[w].owed[i]
      BY <1>3, <1>7, <1>18
    <2>2. Holds(w, i)
      BY <2>1 DEF Holds
    <2> SUFFICES ASSUME Clean(i) PROVE RowIsRight(i)'
      BY <1>8, <2>2 DEF Clean
    <2>3. Succeeded \ {p} = Succeeded
      BY <1>9 DEF Succeeded
    <2>4. invoice'[i] = Recomputed(i, lines[i] + Settled(i))
      BY <1>8, <1>18, <2>1, <2>3 DEF Spared, Settled, Open
    <2>5. Settled(i)' = Settled(i) + lines[i]
      BY <1>9, <1>11, <1>12, <1>18, PaymentSettles
    <2>6. RowIsRight(i)
      BY DEF AddsUp
    <2>7. owed[i] = Owed(i)
      BY <1>14, <2>1 DEF Foresees, Clean
    <2>8. Total[i] \in Nat /\ invoice[i].paid \in Nat /\ invoice[i].paid <= Total[i] /\ invoice[i].paid = Settled(i)
      BY <2>6, InvoiceAssumption DEF Typed, TypeOK, InvoiceRow, RowIsRight
    <2>9. owed[i] = Total[i] - Settled(i)
      BY <2>1, <2>7, <2>8 DEF Owed, Less
    <2>10. PICK sum : sum = lines[i] + Settled(i)
      OBVIOUS
    <2>11. sum \in Nat /\ sum <= Total[i] /\ Settled(i)' = sum
      BY <1>6, <2>5, <2>8, <2>9, <2>10
    <2>12. forgiven'[i] = 0
      BY <1>8, <2>1, <2>6 DEF RowIsRight, Open, Closed
    <2> QED
      BY <2>4, <2>10, <2>11, <2>12, RecomputedRight
  <1>19. \A i \in Invoice : i \notin raced' =>
             Keeps(i) \/ (Holds(w, i) /\ (Stays(i) \/ (Clean(i)' => RowIsRight(i)')))
    BY <1>8, <1>17, <1>18
  <1>20. SpentOnce(p)'
    <2> SUFFICES ASSUME payment[p].status = "none" \/ payment[p].named \notin raced
                 PROVE  SpentOnce(p)'
      BY <1>8, <1>11 DEF SpentOnce
    <2>1. PICK g : g = alloc'[p]
      OBVIOUS
    <2>2. \A i \in Invoice : g[i] = lines[i]
      BY <1>12, <1>16, <2>1
    <2>3. SumOf(g, Invoice) = SumOf(lines, Invoice)
      BY <2>2, InvoiceAssumption, SumSame DEF SumOf
    <2>4. Spent(p)' <= payment'[p].amount
      BY <1>5, <1>11, <2>1, <2>3 DEF Spent
    <2>5. Spent(p)' \in Nat /\ payment'[p].amount \in Nat
      <3>1. SumOf(lines, Invoice) \in Nat
        BY <1>5, SumOfInvoices
      <3> QED
        BY <1>11, <2>1, <2>3, <3>1 DEF Spent
    <2> QED
      BY <2>4, <2>5 DEF SpentOnce
  <1>21. ASSUME NEW q \in Payment, q # p PROVE SpentOnce(q)'
    <2>1. SpentOnce(q) /\ payment'[q] = payment[q] /\ alloc'[q] = alloc[q]
      BY <1>11, <1>12, <1>21 DEF AddsUp
    <2>2. raced' = raced /\ Spent(q)' = Spent(q)
      BY <1>8, <2>1 DEF Spent
    <2> QED
      BY <2>1, <2>2 DEF SpentOnce
  <1>22. ASSUME NEW i \in Invoice PROVE Posts(p, i)'
    <2> SUFFICES ASSUME alloc'[p][i] > 0, i \notin raced PROVE posted'[p][LeaseOf[i]] > 0
      BY <1>8 DEF Posts
    <2>1. i \in paid
      BY <1>16
    <2>2. lines[i] > 0 /\ lines[i] \in Nat
      BY <1>6, <1>7, <2>1
    <2>3. lines[i] <= posted'[p][LeaseOf[i]]
      BY <1>5, <1>13, PostCovers
    <2>4. posted'[p][LeaseOf[i]] \in Nat
      BY InvoiceAssumption DEF Typed, TypeOK
    <2> QED
      BY <2>2, <2>3, <2>4
  <1>23. Grow /\ Mine(w)
    BY <1>8, <1>10, <1>11 DEF Grow, Mine
  <1> QED
    <2>1. \A q \in Payment : payment[q].status = "succeeded" /\ ~(tx[w].take[q] > 0)
              => payment'[q] = payment[q] /\ alloc'[q] = alloc[q]
      BY <1>9, <1>11, <1>12
    <2>2. \A q \in Payment : Flies(q)' =>
              \/ ChargeFits(q)'
              \/ /\ Flies(q) /\ payment'[q].named = payment[q].named /\ payment'[q].amount = payment[q].amount
                 /\ tx[w].pay = q => UNCHANGED invoice
      BY <1>1, <1>11 DEF Flies, InFlight
    <2>3. \A q \in Payment : (payment[q].status = "succeeded" /\ ~(tx[w].take[q] > 0)) \/ SpentOnce(q)'
      BY <1>20, <1>21
    <2>4. ASSUME NEW q \in Payment, NEW i \in Invoice
          PROVE  \/ payment'[q].status = payment[q].status /\ alloc'[q][i] = alloc[q][i] /\ posted'[q] = posted[q]
                 \/ Posts(q, i)'
      BY <1>11, <1>12, <1>22
    <2> QED
      BY <1>8, <1>19, <1>23, <2>1, <2>2, <2>3, <2>4, IdleAmounts, StepAdds
-----------------------------------------------------------------------------
\* A charge in flight moves: no invoice is written, and nothing settles.
LEMMA ChargeAdds ==
    ASSUME IInv, Typed, Hands, AddsUp, Typed', NEW w \in Worker, NEW t, Turn(w, t), Mine(w),
           UNCHANGED <<invoice, posted, forgiven, raced, crossed, burnt>>,
           NEW p \in Payment, payment[p].status # "succeeded", payment'[p].status # "succeeded",
           NEW i \in Invoice, Holds(w, i),
           \A q \in Payment \ {p} : payment'[q] = payment[q] /\ alloc'[q] = alloc[q],
           \A j \in Invoice \ {i} : alloc'[p][j] = alloc[p][j],
           \/ ChargeFits(p)'
           \/ Flies(p) /\ payment'[p].named = payment[p].named /\ payment'[p].amount = payment[p].amount,
           Foresees(t)', Affords(t)', Settles(t)'
    PROVE  AddsUp'
  <1>1. Grow
    BY DEF Grow
  <1>2. ASSUME NEW j \in Invoice PROVE Stays(j)
    BY DEF Stays, On
  <1>3. ASSUME NEW j \in Invoice, j # i PROVE Keeps(j)
    BY <1>2, <1>3 DEF Keeps
  <1>4. \A j \in Invoice : j \notin raced' =>
            Keeps(j) \/ (Holds(w, j) /\ (Stays(j) \/ (Clean(j)' => RowIsRight(j)')))
    BY <1>2, <1>3
  <1>5. \A q \in Payment : payment[q].status = "succeeded" /\ ~(tx[w].take[q] > 0)
            => payment'[q] = payment[q] /\ alloc'[q] = alloc[q]
    OBVIOUS
  <1>6. \A q \in Payment : Flies(q)' =>
            \/ ChargeFits(q)'
            \/ /\ Flies(q) /\ payment'[q].named = payment[q].named /\ payment'[q].amount = payment[q].amount
               /\ tx[w].pay = q => UNCHANGED invoice
    BY DEF Flies
  <1>7. ASSUME NEW q \in Payment PROVE SpentOnce(q)'
    <2>1. CASE q = p
      BY <2>1 DEF SpentOnce
    <2>2. CASE q # p
      <3>1. SpentOnce(q) /\ payment'[q] = payment[q] /\ alloc'[q] = alloc[q]
        BY <2>2 DEF AddsUp
      <3>2. Spent(q)' = Spent(q)
        BY <3>1 DEF Spent
      <3> QED
        BY <3>1, <3>2 DEF SpentOnce
    <2> QED
      BY <2>1, <2>2
  <1>8. ASSUME NEW q \in Payment, NEW j \in Invoice
        PROVE  \/ payment'[q].status = payment[q].status /\ alloc'[q][j] = alloc[q][j] /\ posted'[q] = posted[q]
               \/ Posts(q, j)'
    BY DEF Posts
  <1> QED
    BY <1>1, <1>4, <1>5, <1>6, <1>7, <1>8, StepAdds

\* A charge is created for what its invoice owes.
LEMMA CreateChargeAdds == ASSUME IInv, Typed, Hands, AddsUp, Typed', NEW w \in Worker, CreateCharge(w) PROVE AddsUp'
  <1>1. PICK i \in Invoice, d \in Date, amount \in Nat :
            i = tx[w].inv /\ d = tx[w].date /\ amount = Outstanding(w)
    <2>1. tx[w].inv \in Invoice /\ tx[w].date \in Date /\ tx[w].amount \in Nat
      BY InHandTyped DEF CreateCharge, AboutOne, Step, Points
    <2>2. Outstanding(w) \in Nat
      BY <2>1, LessTyped, InvoiceAssumption DEF Outstanding
    <2> QED
      BY <2>1, <2>2
  <1> DEFINE row == [status |-> "charging", amount |-> amount, named |-> i, date |-> d]
             u(p) == [tx[w] EXCEPT !.step = "asking", !.pay = p]
  <1>2. PICK p \in Payment :
            /\ NextPayment(p)
            /\ payment' = [payment EXCEPT ![p] = row]
            /\ alloc' = [alloc EXCEPT ![p][i] = amount]
            /\ Turn(w, u(p))
    BY <1>1 DEF CreateCharge
  <1>3. /\ tx[w].step = "charging" /\ UNCHANGED <<invoice, posted, forgiven, raced, crossed, burnt>>
        /\ payment[p].status = "none" /\ \A v \in Worker : tx[v].pay # p
    BY <1>2 DEF CreateCharge, NextPayment, Unused
  <1>4. PICK t : t = u(p)
    OBVIOUS
  <1>5. /\ t.step = "asking" /\ t.owed = tx[w].owed /\ t.take = tx[w].take
    BY <1>4 DEF IInv, Shapes, Fields
  <1>6. Turn(w, t)
    BY <1>2, <1>4
  <1> HIDE DEF u
  <1>7. payment'[p] = row /\ \A q \in Payment \ {p} : payment'[q] = payment[q]
    BY <1>2 DEF Typed, TypeOK
  <1>8. /\ \A j \in Invoice \ {i} : alloc'[p][j] = alloc[p][j]
        /\ \A q \in Payment \ {p} : alloc'[q] = alloc[q]
    BY <1>2 DEF Typed, TypeOK
  <1>9. Mine(w)
    BY <1>3, <1>7 DEF Mine
  <1>10. Foresees(tx[w]) /\ Fits(tx[w])
    BY DEF AddsUp, Hands
  <1>11. ChargeFits(p)'
    <2> SUFFICES ASSUME i \notin raced
                 PROVE  invoice[i].status \in Open /\ Owed(i) = amount
      BY <1>3, <1>7 DEF ChargeFits, Owed
    <2>1. amount = Less(Total[i], tx[w].amount) /\ amount > 0
      BY <1>1, <1>3, <1>10 DEF Outstanding, Fits
    <2>2. /\ tx[w].amount = invoice[i].paid
          /\ invoice[i].paid < Total[i] => invoice[i].status \in Open
      BY <1>1, <1>3, <1>10 DEF Foresees
    <2>3. Total[i] \in Nat /\ invoice[i].paid \in Nat
      BY InvoiceAssumption DEF Typed, TypeOK, InvoiceRow
    <2>4. invoice[i].paid < Total[i]
      BY <2>1, <2>2, <2>3 DEF Less
    <2> QED
      BY <2>1, <2>2, <2>4 DEF Owed
  <1>12. \A q \in Payment : ~(t.take[q] > 0)
    BY <1>3, <1>5, <1>10 DEF Fits
  <1>13. Foresees(t)'
    <2>1. \A j \in Invoice : Owed(j)' = Owed(j)
      BY <1>3 DEF Owed
    <2> QED
      BY <1>3, <1>5, <1>10, <2>1 DEF Foresees
  <1>14. Affords(t)' /\ Settles(t)'
    BY <1>5, <1>12, AffordsNone, SettlesNone
  <1>15. Holds(w, i) /\ payment'[p].status # "succeeded"
    BY <1>1, <1>7 DEF Holds
  <1> QED
    BY <1>3, <1>6, <1>7, <1>8, <1>9, <1>11, <1>13, <1>14, <1>15, ChargeAdds

\* An answer settles nothing yet.
LEMMA AnswerAdds ==
    ASSUME IInv, Typed, Hands, AddsUp, Typed', NEW w \in Worker, tx[w].step = "asking", Turn(w, Idle),
           UNCHANGED <<invoice, posted, forgiven, raced, crossed, burnt>>,
           NEW answer, answer # "succeeded", payment' = [payment EXCEPT ![tx[w].pay].status = answer],
           \/ alloc' = alloc
           \/ alloc' = [alloc EXCEPT ![tx[w].pay] = [i \in Invoice |-> 0]]
    PROVE  AddsUp'
  <1>1. PICK p \in Payment, i \in Invoice : p = tx[w].pay /\ i = tx[w].inv
    BY InHandTyped DEF AboutOne, Step, Points
  <1>2. payment[p].status = "charging" /\ payment[p].named = i /\ Flies(p)
    BY <1>1 DEF Hands, Fits, Flies, InFlight
  <1>3. /\ payment'[p] = [payment[p] EXCEPT !.status = answer]
        /\ \A q \in Payment \ {p} : payment'[q] = payment[q]
    BY <1>1 DEF Typed, TypeOK
  <1>4. payment[p] \in PaymentRow
    BY DEF Typed, TypeOK
  <1>5. /\ payment'[p].status = answer /\ payment'[p].named = payment[p].named
        /\ payment'[p].amount = payment[p].amount
    BY <1>3, <1>4 DEF PaymentRow
  <1>6. \A j \in Invoice \ {i} : alloc[p][j] = 0
    BY <1>2 DEF Hands, Rows, RowsFit, Flies
  <1>7. /\ \A j \in Invoice \ {i} : alloc'[p][j] = alloc[p][j]
        /\ \A q \in Payment \ {p} : alloc'[q] = alloc[q]
    <2>1. alloc \in [Payment -> [Invoice -> Nat]]
      BY DEF Typed, TypeOK
    <2> QED
      BY <1>1, <1>6, <2>1
  <1>8. \A v \in Worker \ {w} : tx[v].pay # p
    BY <1>1, NoneIsNone DEF Hands, Apart
  <1>9. Mine(w) /\ Holds(w, i)
    BY <1>1, <1>3, <1>8 DEF Mine, Holds
  <1>10. payment[p].status # "succeeded" /\ payment'[p].status # "succeeded"
    BY <1>2, <1>5
  <1> QED
    BY <1>2, <1>3, <1>5, <1>7, <1>9, <1>10, IdleAmounts, ChargeAdds

\* What Stripe answers, and what it repeats.
LEMMA AsksAdd ==
    ASSUME IInv, Typed, Hands, AddsUp, Typed', NEW w \in Worker,
           AskAgain(w) \/ \E answer \in {"pending"} \cup Declined : Ask(w, answer)
    PROVE  AddsUp'
  <1>1. CASE AskAgain(w)
    <2>1. PICK q : q = asked[tx[w].inv][tx[w].date]
      OBVIOUS
    <2>2. PICK answer : answer = IF payment[q].status \in Declined THEN payment[q].status ELSE "deleted"
      OBVIOUS
    <2>3. answer # "succeeded"
      BY <2>2 DEF Declined
    <2> QED
      BY <1>1, <2>1, <2>2, <2>3, AnswerAdds DEF AskAgain, Answer
  <1>2. ASSUME NEW answer \in {"pending"} \cup Declined, Ask(w, answer) PROVE AddsUp'
    <2>1. answer # "succeeded"
      BY DEF Declined
    <2> QED
      BY <1>2, <2>1, AnswerAdds DEF Ask, Answer
  <1> QED
    BY <1>1, <1>2

\* Where the books and the transactions stay, everything still adds up.
LEMMA SameAdds ==
    ASSUME AddsUp, UNCHANGED <<invoice, payment, alloc, posted, forgiven, tx, raced, crossed, burnt>>
    PROVE  AddsUp'
  <1>1. \A i \in Invoice : /\ Clean(i)' = Clean(i) /\ RowIsRight(i)' = RowIsRight(i)
                           /\ Owed(i)' = Owed(i)
    BY DEF Clean, RowIsRight, Settled, RowsOf, Succeeded, Owed
  <1>2. \A p \in Payment : Spent(p)' = Spent(p)
    BY DEF Spent
  <1>3. \A w \in Worker : Foresees(tx[w])' = Foresees(tx[w])
    BY <1>1 DEF Foresees, Clean, Owed
  <1>4. \A w \in Worker : Affords(tx[w])' = Affords(tx[w]) /\ Settles(tx[w])' = Settles(tx[w])
    BY DEF Affords, Settles, Spent
  <1>5. \A p \in Payment : ChargeFits(p)' = ChargeFits(p) /\ SpentOnce(p)' = SpentOnce(p)
    BY DEF ChargeFits, SpentOnce, Flies, Owed, Spent
  <1>6. \A p \in Payment, i \in Invoice : Posts(p, i)' = Posts(p, i)
    BY DEF Posts
  <1> QED
    BY <1>1, <1>3, <1>4, <1>5, <1>6 DEF AddsUp

\* Every step of the ledger keeps everything adding up.
LEMMA NextAdds == IInv /\ Typed /\ Hands /\ AddsUp /\ [Next]_vars => AddsUp'
  <1> SUFFICES ASSUME IInv, Typed, Hands, AddsUp, [Next]_vars PROVE AddsUp'
    OBVIOUS
  <1>1. Typed'
    BY NextTyped
  <1>2. ASSUME NEW w \in Worker, Begin(w) PROVE AddsUp'
    BY <1>1, <1>2, ReadForRaiseAdds, StaffCreditAdds, ReadForWaiverAdds, ListAdds, TakePaymentAdds,
       SettleChargeAdds, ReadForWriteOffAdds DEF Begin
  <1>3. ASSUME NEW w \in Worker, Continue(w) PROVE AddsUp'
    BY <1>1, <1>3, CommitRaiseAdds, WriteCreditAdds, CommitCreditAdds, CommitPaymentAdds,
       CommitWaiverAdds, CommitWriteOffAdds, SweepAdds, PassAdds, CreateChargeAdds, AsksAdd DEF Continue
  <1>4. ASSUME NEW i \in Invoice, RaiseFee(i) \/ VoidInvoice(i) PROVE AddsUp'
    BY <1>1, <1>4, RaiseFeeAdds, VoidInvoiceAdds
  <1>5. ASSUME NEW i \in Invoice, NEW d \in Date, Forget(i, d) PROVE AddsUp'
    BY <1>5, SameAdds DEF Forget, books
  <1>6. CASE UNCHANGED vars
    BY <1>6, SameAdds DEF vars, books
  <1> QED
    BY <1>2, <1>3, <1>4, <1>5, <1>6 DEF Next

\* What is on invoices, on payments and in the ledger adds up in every
\* behaviour, where no two transactions overlapped.
LEMMA AddsUpHolds == Spec => []AddsUp
  <1>1. Init => AddsUp
    BY InitAmounts
  <1>2. IInv /\ Typed /\ Hands /\ AddsUp /\ [Next]_vars => AddsUp'
    BY NextAdds
  <1> QED
    BY <1>1, <1>2, InvariantHolds, TypedHolds, HandsHold, PTL DEF Spec
-----------------------------------------------------------------------------
\* No invoice is settled for more than it is, but by transactions that held it
\* at once, or by credit staff put on a closed one.
THEOREM InvoicesSettleOnce == Spec => []InvoiceSettledOnce
  <1>1. Typed /\ AddsUp => InvoiceSettledOnce
    <2> SUFFICES ASSUME Typed, AddsUp, NEW i \in Invoice, Clean(i) PROVE ~(Settled(i) > Total[i])
      BY DEF InvoiceSettledOnce, Clean
    <2>1. RowIsRight(i)
      BY DEF AddsUp
    <2>2. invoice[i].paid \in Nat /\ Total[i] \in Nat
      BY InvoiceAssumption DEF Typed, TypeOK, InvoiceRow
    <2> QED
      BY <2>1, <2>2 DEF RowIsRight
  <1> QED
    BY <1>1, TypedHolds, AddsUpHolds, PTL

\* No payment lands on a void rent invoice, but from a transaction that held it
\* while it was voided, or as credit that staff put there.
THEOREM VoidsHoldNoMoney == Spec => []VoidHoldsNoMoney
  <1>1. Typed /\ AddsUp => VoidHoldsNoMoney
    <2> SUFFICES ASSUME AddsUp, NEW i \in Invoice \ Fee, invoice[i].status = "void", Clean(i)
                 PROVE  ~(Settled(i) > 0)
      BY DEF VoidHoldsNoMoney, Clean
    <2>1. RowIsRight(i)
      BY DEF AddsUp
    <2> QED
      BY <2>1 DEF RowIsRight
  <1> QED
    BY <1>1, TypedHolds, AddsUpHolds, PTL

\* No payment settles more than was paid, but by two transactions that read its
\* credit at once, or as a charge whose invoice was paid another way.
THEOREM PaymentsSpendOnce == Spec => []PaymentSpentOnce
  <1>1. AddsUp => PaymentSpentOnce
    BY DEF AddsUp, SpentOnce, PaymentSpentOnce
  <1> QED
    BY <1>1, AddsUpHolds, PTL
-----------------------------------------------------------------------------
\* What an invoice was charged is what it still owes and what has settled it.
LEMMA ChargedIsRight ==
    ASSUME Typed, Hands, NEW i \in Invoice, RowIsRight(i)
    PROVE  /\ Charged[i] \in Int /\ Owed(i) \in Int /\ Settled(i) \in Int
           /\ Charged[i] = Owed(i) + Settled(i)
  <1>1. /\ Total[i] \in Nat /\ invoice[i].paid \in Nat /\ invoice[i] \in InvoiceRow
        /\ Settled(i) = invoice[i].paid /\ invoice[i].paid <= Total[i]
    BY InvoiceAssumption DEF Typed, TypeOK, InvoiceRow, RowIsRight
  <1>2. Charged[i] = IF invoice[i].status = "none" THEN 0 ELSE Total[i] - forgiven[i]
    BY DEF Charged
  <1>3. CASE invoice[i].status = "none"
    <2>1. invoice[i].paid = 0
      BY <1>3 DEF Hands, Blank, Unraised
    <2> QED
      BY <1>1, <1>2, <1>3, <2>1 DEF Owed, Open
  <1>4. CASE invoice[i].status \in Open
    <2>1. forgiven[i] = 0 /\ invoice[i].status # "none"
      BY <1>4 DEF RowIsRight, Open, Closed
    <2>2. Owed(i) = Total[i] - invoice[i].paid
      BY <1>1, <1>4 DEF Owed, Less
    <2> QED
      BY <1>1, <1>2, <2>1, <2>2
  <1>5. CASE invoice[i].status \in Closed
    <2>1. /\ forgiven[i] = Total[i] - invoice[i].paid
          /\ invoice[i].status # "none" /\ invoice[i].status \notin Open
      BY <1>5 DEF RowIsRight, Open, Closed
    <2> QED
      BY <1>1, <1>2, <2>1 DEF Owed
  <1>6. CASE invoice[i].status = "paid"
    <2>1. /\ forgiven[i] = 0 /\ invoice[i].paid = Total[i]
          /\ invoice[i].status # "none" /\ invoice[i].status \notin Open
      BY <1>6 DEF RowIsRight, Open, Closed
    <2> QED
      BY <1>1, <1>2, <2>1 DEF Owed
  <1> QED
    BY <1>1, <1>3, <1>4, <1>5, <1>6 DEF InvoiceRow

\* What settles an invoice is posted on its lease.
LEMMA SettlingIsPosted ==
    ASSUME Typed, AddsUp, NEW i \in Invoice, i \notin raced \cup crossed, NEW l \in Lease, LeaseOf[i] = l
    PROVE  SumOf(RowsOf(i), {p \in Succeeded : posted[p][l] > 0}) = Settled(i)
  <1>1. PICK rows : rows = RowsOf(i)
    OBVIOUS
  <1>2. PICK S : S = Succeeded
    OBVIOUS
  <1>3. PICK P : P = {p \in Succeeded : posted[p][l] > 0}
    OBVIOUS
  <1>4. S \in SUBSET Payment /\ P \in SUBSET S /\ IsFiniteSet(S)
    BY <1>2, <1>3, PaymentAssumption, FS_Subset DEF Succeeded
  <1>5. \A p \in S : rows[p] \in Int
    BY <1>1, <1>4 DEF RowsOf, Typed, TypeOK
  <1>6. ASSUME NEW p \in S \ P PROVE rows[p] = 0
    <2>1. p \in Payment /\ payment[p].status = "succeeded" /\ ~(posted[p][l] > 0)
      BY <1>2, <1>3, <1>6 DEF Succeeded
    <2>2. ~(alloc[p][i] > 0)
      BY <2>1 DEF AddsUp, Posts
    <2>3. alloc[p][i] \in Nat /\ rows[p] = alloc[p][i]
      BY <1>1, <2>1 DEF RowsOf, Typed, TypeOK
    <2> QED
      BY <2>2, <2>3
  <1>7. SumOf(rows, S) = SumOf(rows, P)
    BY <1>4, <1>5, <1>6, SumOfPart DEF SumOf
  <1> QED
    BY <1>1, <1>2, <1>3, <1>7 DEF Settled

\* A ledger whose invoices are right reconciles.
LEMMA LeaseReconciles ==
    ASSUME Typed, Hands, AddsUp, NEW l \in Lease,
           \A i \in Invoice : LeaseOf[i] = l => i \notin raced \cup burnt \cup crossed
    PROVE  Difference(l) = 0
  <1>1. PICK S : S = InvoicesOf(l)
    OBVIOUS
  <1>2. /\ S \in SUBSET Invoice /\ IsFiniteSet(S)
        /\ \A i \in S : i \in Invoice /\ LeaseOf[i] = l
    BY <1>1, InvoiceAssumption, FS_Subset DEF InvoicesOf
  <1>3. PICK settling : settling = {p \in Succeeded : posted[p][l] > 0}
    OBVIOUS
  <1>4. PICK charged : charged = Charged
    OBVIOUS
  <1>5. PICK owed : owed = [i \in Invoice |-> Owed(i)]
    OBVIOUS
  <1>6. PICK settled : settled = [i \in Invoice |-> SumOf(RowsOf(i), settling)]
    OBVIOUS
  <1>7. ASSUME NEW i \in S
        PROVE  owed[i] \in Int /\ settled[i] \in Int /\ charged[i] = owed[i] + settled[i]
    <2>1. i \in Invoice /\ LeaseOf[i] = l /\ Clean(i) /\ i \notin raced \cup crossed
      BY <1>2 DEF Clean
    <2>2. RowIsRight(i)
      BY <2>1 DEF AddsUp
    <2>3. settled[i] = Settled(i)
      BY <1>3, <1>6, <2>1, SettlingIsPosted
    <2>4. owed[i] = Owed(i)
      BY <1>5, <2>1
    <2> QED
      BY <1>4, <2>1, <2>2, <2>3, <2>4, ChargedIsRight
  <1>8. SumOf(charged, S) = SumOf(owed, S) + SumOf(settled, S)
    BY <1>2, <1>7, SumPlus DEF SumOf
  <1>9. SumOf(owed, S) \in Int /\ SumOf(settled, S) \in Int
    BY <1>2, <1>7, SumInt DEF SumOf
  <1>10. writtenOff[l] \in Nat
    BY DEF Typed, TypeOK
  <1>11. PostedOn(l) \in Int
    <2>1. \A p \in Payment : [q \in Payment |-> posted[q][l]][p] \in Nat
      BY DEF Typed, TypeOK
    <2> QED
      BY <2>1, SumOfPayments DEF PostedOn
  <1>12. Difference(l) = (SumOf(charged, S) - writtenOff[l] - PostedOn(l)) - SumOf(owed, S)
                            + writtenOff[l] + PostedOn(l) - SumOf(settled, S)
    BY <1>1, <1>3, <1>4, <1>5, <1>6 DEF Difference, Balance
  <1>13. \A a, b, c, d, e \in Int : a = b + c => (a - d - e) - b + d + e - c = 0
    OBVIOUS
  <1>14. SumOf(charged, S) \in Int
    BY <1>8, <1>9
  <1> QED
    BY <1>8, <1>9, <1>10, <1>11, <1>12, <1>13, <1>14

\* The ledger of a lease reconciles to its invoices, unless transactions
\* overlapped on one of them, staff put credit on a closed one, or credit
\* crossed from another lease.
THEOREM LeasesReconcile == Spec => []LedgerReconciles
  <1>1. Typed /\ Hands /\ AddsUp => LedgerReconciles
    BY LeaseReconciles DEF LedgerReconciles
  <1> QED
    BY <1>1, TypedHolds, HandsHold, AddsUpHolds, PTL
=============================================================================
