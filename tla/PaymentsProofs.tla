--------------------------- MODULE PaymentsProofs ---------------------------
(***************************************************************************)
(* Proofs about Payments, for any number of calls, webhook requests and    *)
(* staff, any amount and any bounds: the variables have their types; the   *)
(* row, the ledger and the allocations of a payment agree; and when all is *)
(* calm the books match Stripe, unless one of the named slips happened.    *)
(***************************************************************************)
EXTENDS Payments, SequenceTheorems, SumTheorems, TLAPS

\* The steps of a call that has a row of its own to settle.
Active == {"calling", "answered", "failing", "checking", "linking"}

\* A call at work has its own pending row, which nobody adopts before the catch
\* has marked it.
CallsInv == \A a \in Attempt :
    /\ attempt[a] = "idle" => row[a] = "none" /\ a # linked
    /\ attempt[a] \in Active => row[a] = "pending" /\ a # linked
    /\ row[a] = "failed" /\ a # linked => attempt[a] = "thrown"

\* A delivery is of an event that Stripe has sent.
JobsInv == \A w \in Worker : worker[w].step # "idle" => worker[w].event \in sent

\* A refund that is to be made or written has an amount, and Stripe has made the
\* one that is to be written for a card.
AskInv == \A s \in Staff :
    /\ staff[s].step # "idle" => staff[s].amount >= 1
    /\ staff[s].step = "writing" /\ staff[s].method = "card" =>
          staff[s].made \in DOMAIN refunds

WorkInv == CallsInv /\ JobsInv /\ AskInv

\* The slips after which the books may contradict themselves.
Ok == slips \cap {"stale", "unposted", "late"} = {}

Untouched == /\ ledger.posted = 0 /\ ledger.reversed = 0 /\ ledger.reinstated = 0
             /\ Refunded = 0 /\ alloc = 0

\* What each state of the payment says of the ledger.
LedgerInv ==
    /\ ledger.refunded = Refunded
    /\ State \notin Settling \cup {"returned"} => Untouched
    /\ State \in Settling => ledger.reinstated = ledger.reversed
    /\ State = "returned" => /\ ledger.posted = Amount /\ alloc = 0
                             /\ ledger.reversed = Amount - Refunded
                             /\ ledger.reversed > 0 /\ ledger.reinstated = 0
    /\ ledger.posted = 0 => Untouched
    /\ alloc <= Held
    /\ State = "succeeded" => Refunded = 0
    /\ State = "partially_refunded" => Refunded \in 1..(Amount - 1)
    /\ State = "refunded" => Refunded = Amount
    /\ State \in Settling /\ kind = "invoice" => ledger.posted = Amount

\* What a handler between two of its statements may still count on.
Pending(job) ==
    /\ job.step = "reinstating" /\ ledger.reinstated = 0 =>
          State = "returned" /\ job.cents = Refunded
    /\ \/ job.step = "posting"
       \/ job.step = "provisioning" /\ job.event.type = "succeeded"
       => State \in Settling \cup {"returned"}

PendingInv == \A w \in Worker : Pending(worker[w])

BooksInv == Ok => LedgerInv /\ PendingInv

IInv == TypeOK /\ WorkInv /\ BooksInv

-----------------------------------------------------------------------------
(* Types, and what each process is about, by the variables they speak of.  *)

JobStep == {"idle", "applying", "provisioning", "posting", "refunding",
            "reinstating", "acking"}

JobRow == [step : JobStep, event : [type : EventType, cents : 0..Amount] \cup {NoEvent},
           cents : Nat, known : SUBSET DOMAIN refunds]

CallStep == {"idle", "calling", "answered", "failing", "checking", "linking",
             "done", "thrown", "dead"}

AskRow == [step : {"idle", "asking", "writing"}, amount : 0..Amount,
           method : {"none", "card", "cash"}, after : Nat, made : {0} \cup DOMAIN refunds]

StripeTyped ==
    /\ intent \in {"none", "open", "declined", "processing", "succeeded"}
    /\ dispute \in {"none", "inquiry", "open", "won", "lost"}
    /\ refunds \in Seq([amount : 1..Amount, after : Nat, ours : BOOLEAN])
    /\ sentBack \in 0..Amount
    /\ sent \subseteq [type : EventType, cents : 0..Amount]
    /\ done \subseteq sent

RowsTyped ==
    /\ kind \in {"checkout", "invoice"} /\ provisioned \in BOOLEAN
    /\ row \in [Attempt -> Status]
    /\ linked \in Attempt \cup {NoRow}
    /\ attempt \in [Attempt -> CallStep]
    /\ CallsInv

BooksTyped ==
    /\ booked \subseteq DOMAIN refunds
    /\ card \in Nat /\ cash \in Nat
    /\ ledger \in [posted : {0, Amount}, refunded : Nat,
                   reversed : 0..Amount, reinstated : 0..Amount]
    /\ ledger.reinstated \in {0, ledger.reversed}
    /\ alloc \in 0..Amount

WorkersTyped == worker \in [Worker -> JobRow] /\ JobsInv

StaffTyped == staff \in [Staff -> AskRow] /\ AskInv

RestTyped ==
    /\ faults \in 0..MaxFaults
    /\ slips \subseteq {"unfinished", "unknown", "unposted", "stale", "late",
                        "misordered", "partial"}

Typed == TypeOK /\ WorkInv

\* The types, grouped by who writes what.
LEMMA Parts ==
    Typed <=> /\ StripeTyped /\ RowsTyped /\ BooksTyped
              /\ WorkersTyped /\ StaffTyped /\ RestTyped
  BY DEF Typed, TypeOK, WorkInv, StripeTyped, RowsTyped, BooksTyped, WorkersTyped,
         StaffTyped, RestTyped, CallStep, AskRow, JobRow, JobStep

\* The same of the next state.
LEMMA PartsNext ==
    Typed' <=> /\ StripeTyped' /\ RowsTyped' /\ BooksTyped'
               /\ WorkersTyped' /\ StaffTyped' /\ RestTyped'
  BY Parts, PTL

\* A part holds as long as nothing it speaks of changes.
LEMMA Frame ==
  ASSUME Typed
  PROVE  /\ UNCHANGED <<atStripe, done>> => StripeTyped'
         /\ UNCHANGED <<kind, row, linked, provisioned, attempt>> => RowsTyped'
         /\ UNCHANGED <<refunds, books>> => BooksTyped'
         /\ UNCHANGED <<refunds, sent, worker>> => WorkersTyped'
         /\ UNCHANGED <<refunds, staff>> => StaffTyped'
         /\ UNCHANGED <<faults, slips>> => RestTyped'
         /\ Fault /\ UNCHANGED slips => RestTyped'
  <1>1. UNCHANGED <<atStripe, done>> => StripeTyped'
    BY DEF Typed, TypeOK, atStripe, StripeTyped
  <1>2. UNCHANGED <<kind, row, linked, provisioned, attempt>> => RowsTyped'
    BY DEF Typed, TypeOK, WorkInv, RowsTyped, CallsInv, CallStep
  <1>3. UNCHANGED <<refunds, books>> => BooksTyped'
    BY DEF Typed, TypeOK, books, BooksTyped
  <1>4. UNCHANGED <<refunds, sent, worker>> => WorkersTyped'
    BY DEF Typed, TypeOK, WorkInv, WorkersTyped, JobsInv, JobRow, JobStep
  <1>5. UNCHANGED <<refunds, staff>> => StaffTyped'
    BY DEF Typed, TypeOK, WorkInv, StaffTyped, AskInv, AskRow
  <1>6. /\ UNCHANGED <<faults, slips>> => RestTyped'
        /\ Fault /\ UNCHANGED slips => RestTyped'
    <2>1. RestTyped
      BY Parts
    <2>2. Fault => faults' \in 0..MaxFaults
      BY <2>1, BoundAssumption DEF Fault, RestTyped
    <2> QED
      BY <2>1, <2>2 DEF RestTyped
  <1> QED
    BY <1>1, <1>2, <1>3, <1>4, <1>5, <1>6

-----------------------------------------------------------------------------
(* The kinds of steps there are, by what they do to each part.             *)

\* At Stripe the events only grow, and the refunds only at their end.
LEMMA StripeStep ==
  ASSUME Typed, StripeTyped', sent \subseteq sent', DOMAIN refunds \subseteq DOMAIN refunds',
         UNCHANGED <<booked, card, cash, ledger, alloc, worker>>
  PROVE  /\ BooksTyped' /\ WorkersTyped'
         /\ staff' = staff => StaffTyped'
  <1>1. BooksTyped'
    BY DEF Typed, TypeOK, BooksTyped
  <1>2. WorkersTyped'
    <2>1. worker \in [Worker -> JobRow] /\ JobsInv
      BY Parts DEF WorkersTyped
    <2>2. \A job \in JobRow : job \in JobRow'
      BY DEF JobRow
    <2>3. worker' \in [Worker -> JobRow']
      BY <2>1, <2>2
    <2> QED
      BY <2>1, <2>3 DEF WorkersTyped, JobsInv
  <1>3. staff' = staff => StaffTyped'
    <2>1. staff \in [Staff -> AskRow] /\ AskInv
      BY Parts DEF StaffTyped
    <2>2. \A ask \in AskRow : ask \in AskRow'
      BY DEF AskRow
    <2> QED
      BY <2>1, <2>2 DEF StaffTyped, AskInv
  <1> QED
    BY <1>1, <1>2, <1>3

\* A refund by Stripe of no more than is left of the charge.
LEMMA SendBackStep ==
  ASSUME Typed, NEW cents \in 1..Amount, NEW after \in Nat, NEW byUs \in BOOLEAN,
         CanRefund(cents), SendBack(cents, after, byUs), UNCHANGED <<intent, dispute, done>>
  PROVE  /\ StripeTyped' /\ sent \subseteq sent' /\ DOMAIN refunds \subseteq DOMAIN refunds'
         /\ Len(refunds) + 1 \in DOMAIN refunds'
  <1> DEFINE S == [amount : 1..Amount, after : Nat, ours : BOOLEAN]
             r == [amount |-> cents, after |-> after, ours |-> byUs]
  <1>1. refunds \in Seq(S) /\ sentBack \in 0..Amount
    BY DEF Typed, TypeOK
  <1>2. r \in S
    OBVIOUS
  <1>3. refunds' = Append(refunds, r)
    BY DEF SendBack
  <1> HIDE DEF S, r
  <1>4. /\ refunds' \in Seq(S) /\ DOMAIN refunds' = 1..(Len(refunds) + 1)
        /\ DOMAIN refunds = 1..Len(refunds) /\ Len(refunds) \in Nat
    BY <1>1, <1>2, <1>3
  <1>5. sentBack' \in 0..Amount /\ sentBack' = sentBack + cents
    BY <1>1, AmountAssumption DEF SendBack, CanRefund
  <1>6. sent' = sent \cup {[type |-> "refunded", cents |-> sentBack']}
    BY <1>5 DEF SendBack, Tell, Event
  <1>7. sent' \subseteq [type : EventType, cents : 0..Amount]
    BY <1>5, <1>6 DEF Typed, TypeOK, EventType
  <1> QED
    BY <1>4, <1>5, <1>6, <1>7 DEF S, StripeTyped, Typed, TypeOK

\* Every refund at Stripe is of something.
LEMMA RefundAmounts == StripeTyped => \A i \in DOMAIN refunds : refunds[i].amount \in 1..Amount
  <1> DEFINE S == [amount : 1..Amount, after : Nat, ours : BOOLEAN]
  <1>1. StripeTyped => refunds \in Seq(S)
    BY DEF StripeTyped
  <1>2. refunds \in Seq(S) => \A i \in DOMAIN refunds : refunds[i] \in S
    <2> HIDE DEF S
    <2> QED
      BY LenProperties
  <1> QED
    BY <1>1, <1>2

\* A worker gets a job, or goes on with the one it has.
LEMMA JobStepTyped ==
  ASSUME Typed, NEW w \in Worker, NEW job \in JobRow, job.step # "idle" => job.event \in sent,
         worker' = [worker EXCEPT ![w] = job], UNCHANGED <<refunds, sent>>
  PROVE  WorkersTyped'
  <1>1. worker \in [Worker -> JobRow] /\ JobsInv
    BY Parts DEF WorkersTyped
  <1>2. JobRow' = JobRow
    BY DEF JobRow
  <1> QED
    BY <1>1, <1>2 DEF WorkersTyped, JobsInv

\* A webhook request that goes on to a step of its kind stays typed.
LEMMA GoTyped ==
  ASSUME Typed, NEW w \in Worker, worker[w].step # "idle", NEW step \in JobStep, Go(w, step),
         UNCHANGED <<refunds, sent>>
  PROVE  WorkersTyped'
  <1> DEFINE job == [worker[w] EXCEPT !.step = step]
  <1>1. worker \in [Worker -> JobRow] /\ JobsInv
    BY Parts DEF WorkersTyped
  <1>2. job \in JobRow /\ job.event = worker[w].event
    BY <1>1 DEF JobRow
  <1>3. worker[w].event \in sent
    BY <1>1 DEF JobsInv
  <1>4. worker' = [worker EXCEPT ![w] = job]
    BY <1>1 DEF Go
  <1> QED
    BY <1>2, <1>3, <1>4, JobStepTyped

\* A webhook request that is over leaves a typed worker.
LEMMA WaitTyped ==
  ASSUME Typed, NEW w \in Worker, worker' = [worker EXCEPT ![w] = Waiting],
         UNCHANGED <<refunds, sent>>
  PROVE  WorkersTyped'
  <1>1. Waiting \in JobRow /\ Waiting.step = "idle"
    BY DEF Waiting, Job, NoEvent, Event, JobRow, JobStep
  <1> QED
    BY <1>1, JobStepTyped

\* Somebody goes on with a refund, or gives up.
LEMMA AskStep ==
  ASSUME Typed, NEW s \in Staff, NEW ask \in AskRow, ask.step # "idle" => ask.amount >= 1,
         ask.step = "writing" /\ ask.method = "card" => ask.made \in DOMAIN refunds,
         staff' = [staff EXCEPT ![s] = ask], UNCHANGED refunds
  PROVE  StaffTyped'
  <1>1. staff \in [Staff -> AskRow] /\ AskInv
    BY Parts DEF StaffTyped
  <1>2. AskRow' = AskRow
    BY DEF AskRow
  <1> QED
    BY <1>1, <1>2 DEF StaffTyped, AskInv

\* A refund that is over leaves typed staff.
LEMMA NotRefundingStep ==
  ASSUME Typed, NEW s \in Staff, staff' = [staff EXCEPT ![s] = NotRefunding], UNCHANGED refunds
  PROVE  StaffTyped'
  <1>1. NotRefunding \in AskRow /\ NotRefunding.step = "idle"
    BY AmountAssumption DEF NotRefunding, Refund, AskRow
  <1> QED
    BY <1>1, AskStep

\* The state of the payment is written.
LEMMA SetStateTyped ==
  ASSUME Typed, NEW state \in Status, SetState(state),
         UNCHANGED <<kind, linked, provisioned, attempt>>
  PROVE  RowsTyped'
  BY DEF SetState, Typed, TypeOK, WorkInv, CallsInv, RowsTyped, CallStep

\* The row of an event is written: the linked one, or one that is adopted.
LEMMA AdoptTyped ==
  ASSUME Typed, NEW a \in Attempt, a = linked \/ (linked = NoRow /\ row[a] = "failed"),
         NEW state \in Status \ {"failed"},
         row' = row \/ row' = [row EXCEPT ![a] = state], linked' = a,
         UNCHANGED <<kind, provisioned, attempt>>
  PROVE  RowsTyped'
  <1>1. /\ row \in [Attempt -> Status] /\ attempt \in [Attempt -> CallStep] /\ CallsInv
        /\ linked \in Attempt \cup {NoRow}
    BY Parts DEF RowsTyped
  <1>2. attempt[a] \notin Active \cup {"idle"}
    BY <1>1, RowAssumption DEF CallsInv, Active
  <1>3. row' \in [Attempt -> Status] /\ \A b \in Attempt \ {a} : row'[b] = row[b]
    BY <1>1
  <1>4. CallsInv'
    BY <1>1, <1>2, <1>3, RowAssumption DEF CallsInv, Active
  <1> QED
    BY <1>1, <1>3, <1>4 DEF Typed, TypeOK, RowsTyped

\* writeRefund, before the method of the refund row is looked at.
LEMMA WriteRefundTyped ==
  ASSUME Typed, NEW cents \in 1..Amount, WriteRefund(cents),
         UNCHANGED <<kind, linked, attempt>>
  PROVE  /\ RowsTyped'
         /\ ledger' \in [posted : {0, Amount}, refunded : Nat,
                         reversed : 0..Amount, reinstated : 0..Amount]
         /\ ledger'.reinstated \in {0, ledger'.reversed}
         /\ alloc' \in 0..Amount
         /\ slips' \subseteq {"unfinished", "unknown", "unposted", "stale", "late",
                              "misordered", "partial"}
  <1>1. PICK state \in Status : SetState(state)
    BY DEF WriteRefund, Status
  <1>2. RowsTyped'
    BY <1>1, SetStateTyped DEF WriteRefund
  <1>3. BooksTyped /\ RestTyped
    BY Parts
  <1>4. /\ ledger' \in [posted : {0, Amount}, refunded : Nat,
                        reversed : 0..Amount, reinstated : 0..Amount]
        /\ ledger'.reinstated \in {0, ledger'.reversed}
    BY <1>3, AmountAssumption DEF WriteRefund, BooksTyped
  <1>5. alloc' \in 0..Amount
    BY <1>3, AmountAssumption DEF WriteRefund, BooksTyped
  <1>6. slips' \subseteq {"unfinished", "unknown", "unposted", "stale", "late",
                          "misordered", "partial"}
    BY <1>3 DEF WriteRefund, RestTyped
  <1> QED
    BY <1>2, <1>4, <1>5, <1>6

-----------------------------------------------------------------------------
(* Every step keeps the types.                                             *)

\* What happens at Stripe.
LEMMA StripeKeepsTypes ==
  ASSUME Typed, Stripe
  PROVE  Typed'
  <1>1. UNCHANGED <<ours, faults, slips>>
    BY DEF Stripe, Decline, Accept, Pay, DashboardRefund, OpenDispute, CloseDispute
  <1>2. /\ StripeTyped' /\ sent \subseteq sent' /\ DOMAIN refunds \subseteq DOMAIN refunds'
    <2>1. CASE DashboardRefund
      <3>1. PICK cents \in 1..Amount : CanRefund(cents) /\ SendBack(cents, 0, FALSE)
        BY <2>1 DEF DashboardRefund
      <3>2. UNCHANGED <<intent, dispute, done>>
        BY <2>1 DEF DashboardRefund, ours
      <3> QED
        BY <3>1, <3>2, SendBackStep
    <2>2. CASE ~DashboardRefund
      <3>1. PICK event \in [type : EventType, cents : 0..Amount] : Tell(event)
        <4>1. \A type \in EventType : \A cents \in 0..Amount :
                Event(type, cents) \in [type : EventType, cents : 0..Amount]
          BY DEF Event
        <4>2. 0 \in 0..Amount /\ Amount - sentBack \in 0..Amount
          BY AmountAssumption DEF Typed, TypeOK
        <4> QED
          BY <2>2, <4>1, <4>2
          DEF Stripe, Decline, Accept, Pay, OpenDispute, CloseDispute, EventType
      <3>2. UNCHANGED <<refunds, sentBack, done>>
        BY <1>1, <2>2 DEF Stripe, Decline, Accept, Pay, OpenDispute, CloseDispute, ours
      <3>3. /\ intent' \in {intent, "declined", "processing", "succeeded"}
            /\ dispute' \in {dispute, "inquiry", "open", "won", "lost"}
        BY <2>2 DEF Stripe, Decline, Accept, Pay, OpenDispute, CloseDispute
      <3> QED
        BY <3>1, <3>2, <3>3 DEF Tell, Typed, TypeOK, StripeTyped
    <2> QED
      BY <2>1, <2>2
  <1>3. BooksTyped' /\ WorkersTyped' /\ StaffTyped'
    BY <1>1, <1>2, StripeStep DEF ours, books
  <1>4. RowsTyped' /\ RestTyped'
    BY <1>1, Frame DEF ours
  <1> QED
    BY <1>2, <1>3, <1>4, PartsNext

\* A call of createChargeIntent.
LEMMA ChargeKeepsTypes ==
  ASSUME Typed, NEW a \in Attempt,
         StartCharge(a) \/ Charge(a) \/ LoseCall(a) \/ ChargeDies(a)
  PROVE  Typed'
  <1>1. UNCHANGED beyondCharge
    BY DEF StartCharge, Charge, ReachStripe, GetAnswer, MarkFailed, CheckRecorded, Link,
           LoseCall, ChargeDies
  <1>2. intent' \in {intent, "open"} /\ (UNCHANGED faults \/ Fault)
    BY DEF StartCharge, Charge, ReachStripe, GetAnswer, MarkFailed, CheckRecorded, Link,
           LoseCall, ChargeDies
  <1>3. RowsTyped'
    <2>1. /\ row \in [Attempt -> Status] /\ CallsInv
          /\ attempt \in [Attempt -> CallStep] /\ linked \in Attempt \cup {NoRow}
      BY Parts DEF RowsTyped, CallStep
    <2>2. PICK step \in CallStep : At(a, step)
      BY DEF StartCharge, Charge, ReachStripe, GetAnswer, MarkFailed, CheckRecorded, Link,
             LoseCall, ChargeDies, CallStep
    <2>3. attempt' \in [Attempt -> CallStep] /\ attempt'[a] = step
      BY <2>1, <2>2 DEF At
    <2>4. /\ row' \in [Attempt -> Status]
          /\ \A b \in Attempt \ {a} : row'[b] = row[b] /\ attempt'[b] = attempt[b]
      BY <2>1, <2>2
      DEF StartCharge, Charge, ReachStripe, GetAnswer, MarkFailed, CheckRecorded, Link,
          LoseCall, ChargeDies, Put, At, Status
    <2>5. linked' = linked \/ (linked = NoRow /\ linked' = a)
      <3>1. Link(a) \/ UNCHANGED linked
        BY DEF StartCharge, Charge, ReachStripe, GetAnswer, MarkFailed, CheckRecorded,
               LoseCall, ChargeDies
      <3> QED
        BY <3>1 DEF Link
    <2>6. /\ step = "idle" => row'[a] = "none" /\ a # linked'
          /\ step \in Active => row'[a] = "pending" /\ a # linked'
          /\ row'[a] = "failed" /\ a # linked' => step = "thrown"
      <3>1. CASE StartCharge(a)
        BY <2>1, <2>3, <3>1 DEF StartCharge, At, Put, CallsInv, Active
      <3>2. CASE ReachStripe(a) \/ GetAnswer(a) \/ LoseCall(a)
        BY <2>1, <2>3, <3>2 DEF ReachStripe, GetAnswer, LoseCall, At, CallsInv, Active
      <3>3. CASE MarkFailed(a)
        BY <2>1, <2>3, <3>3 DEF MarkFailed, At, Put, CallsInv, Active
      <3>4. CASE CheckRecorded(a)
        BY <2>1, <2>3, <3>4 DEF CheckRecorded, At, Put, CallsInv, Active
      <3>5. CASE Link(a)
        BY <2>1, <2>3, <3>5 DEF Link, At, CallsInv, Active
      <3>6. CASE ChargeDies(a)
        BY <2>1, <2>3, <3>6 DEF ChargeDies, At, CallsInv, Active
      <3> QED
        BY <3>1, <3>2, <3>3, <3>4, <3>5, <3>6 DEF Charge
    <2>7. \A b \in Attempt \ {a} :
            /\ attempt'[b] = "idle" => row'[b] = "none" /\ b # linked'
            /\ attempt'[b] \in Active => row'[b] = "pending" /\ b # linked'
            /\ row'[b] = "failed" /\ b # linked' => attempt'[b] = "thrown"
      BY <2>1, <2>4, <2>5, RowAssumption DEF CallsInv
    <2>8. CallsInv'
      BY <2>3, <2>6, <2>7 DEF CallsInv
    <2>9. linked' \in Attempt \cup {NoRow}
      BY <2>1, <2>5
    <2> QED
      BY <1>1, <2>3, <2>4, <2>8, <2>9 DEF beyondCharge, RowsTyped, CallStep, Typed, TypeOK
  <1>4. StripeTyped'
    BY <1>1, <1>2 DEF beyondCharge, StripeTyped, Typed, TypeOK
  <1>5. BooksTyped' /\ WorkersTyped' /\ StaffTyped' /\ RestTyped'
    BY <1>1, <1>2, Frame DEF beyondCharge
  <1> QED
    BY <1>3, <1>4, <1>5, PartsNext

\* A refund by staff.
LEMMA StaffKeepsTypes ==
  ASSUME Typed, NEW s \in Staff,
         ReadRefundable(s) \/ AskStripe(s) \/ RecordRefund(s) \/ StaffDies(s)
  PROVE  Typed'
  <1>0. /\ StripeTyped /\ RowsTyped /\ BooksTyped /\ WorkersTyped /\ StaffTyped /\ RestTyped
        /\ staff[s] \in AskRow
    BY Parts DEF StaffTyped
  <1>1. CASE ReadRefundable(s)
    <2>1. PICK cents \in 1..Amount, method \in {"card", "cash"} :
             /\ cents <= Amount - Refunded
             /\ staff' = [staff EXCEPT ![s] =
                    [Refund(IF method = "card" THEN "asking" ELSE "writing", cents, method)
                       EXCEPT !.after = Refunded]]
      BY <1>1 DEF ReadRefundable
    <2>2. Refunded \in Nat
      BY <1>0 DEF Refunded, BooksTyped
    <2>3. StaffTyped'
      <3> DEFINE ask == [Refund(IF method = "card" THEN "asking" ELSE "writing", cents, method)
                           EXCEPT !.after = Refunded]
      <3>1. ask \in AskRow
        BY <2>2, AmountAssumption DEF AskRow, Refund
      <3>2. staff' = [staff EXCEPT ![s] = ask]
        BY <2>1
      <3>3. ask.amount >= 1 /\ (ask.step = "writing" => ask.method # "card")
        BY DEF Refund
      <3>4. UNCHANGED refunds
        BY <1>1 DEF ReadRefundable, atStripe
      <3> HIDE DEF ask
      <3> QED
        BY <3>1, <3>2, <3>3, <3>4, AskStep
    <2> QED
      BY <1>1, <2>3, Frame, PartsNext DEF ReadRefundable, atStripe
  <1>2. CASE AskStripe(s)
    <2>1. CASE UNCHANGED <<refunds, sentBack, sent>>
      <3>1. ASSUME staff' = [staff EXCEPT ![s] = NotRefunding] PROVE StaffTyped'
        BY <3>1, <2>1, NotRefundingStep
      <3>2. ASSUME NEW i \in Repeated(s), staff[s].step = "asking",
                   staff' = [staff EXCEPT ![s].step = "writing", ![s].made = i]
            PROVE  StaffTyped'
        <4> DEFINE ask == [staff[s] EXCEPT !.step = "writing", !.made = i]
        <4>1. i \in DOMAIN refunds
          BY <3>2 DEF Repeated
        <4>2. ask \in AskRow /\ ask.amount = staff[s].amount /\ ask.made = i
          BY <1>0, <4>1 DEF AskRow
        <4>3. staff' = [staff EXCEPT ![s] = ask]
          BY <1>0, <3>2 DEF StaffTyped
        <4>4. staff[s].amount >= 1
          BY <1>0, <3>2 DEF StaffTyped, AskInv
        <4> HIDE DEF ask
        <4> QED
          BY <2>1, <4>1, <4>2, <4>3, <4>4, AskStep
      <3>3. StaffTyped'
        <4>1. CASE Repeated(s) # {}
          BY <1>2, <3>2, <4>1 DEF AskStripe
        <4>2. CASE Repeated(s) = {} /\ ~CanRefund(staff[s].amount)
          <5>1. staff' = [staff EXCEPT ![s] = NotRefunding]
            BY <1>2, <4>2 DEF AskStripe
          <5> QED
            BY <3>1, <5>1
        <4>3. CASE Repeated(s) = {} /\ CanRefund(staff[s].amount)
          <5>1. FALSE
            <6>1. staff[s].amount \in 1..Amount
              BY <1>0, <1>2, AmountAssumption DEF AskStripe, StaffTyped, AskInv, AskRow
            <6>2. sentBack' = sentBack + staff[s].amount
              BY <1>2, <4>3 DEF AskStripe, SendBack
            <6> QED
              BY <1>0, <2>1, <6>1, <6>2, AmountAssumption DEF StripeTyped
          <5> QED
            BY <5>1
        <4> QED
          BY <4>1, <4>2, <4>3
      <3> QED
        BY <1>2, <2>1, <3>3, Frame, PartsNext DEF AskStripe, atStripe, books
    <2>2. CASE Repeated(s) = {} /\ CanRefund(staff[s].amount)
      <3>1. /\ SendBack(staff[s].amount, staff[s].after, TRUE)
            /\ staff' = [staff EXCEPT ![s].step = "writing", ![s].made = Len(refunds) + 1]
            /\ staff[s].step = "asking"
        BY <1>2, <2>2 DEF AskStripe
      <3>2. staff[s].amount \in 1..Amount /\ staff[s].after \in Nat
        BY <1>0, <3>1, AmountAssumption DEF StaffTyped, AskInv, AskRow
      <3>3. /\ StripeTyped' /\ sent \subseteq sent' /\ DOMAIN refunds \subseteq DOMAIN refunds'
            /\ Len(refunds) + 1 \in DOMAIN refunds'
        BY <1>2, <2>2, <3>1, <3>2, SendBackStep DEF AskStripe
      <3>4. StaffTyped'
        <4>1. AskRow \subseteq AskRow'
          BY <3>3 DEF AskRow
        <4>2. [staff[s] EXCEPT !.step = "writing", !.made = Len(refunds) + 1] \in AskRow'
          BY <1>0, <3>3 DEF AskRow
        <4>3. staff' \in [Staff -> AskRow']
          BY <1>0, <3>1, <4>1, <4>2 DEF StaffTyped
        <4>4. AskInv'
          BY <1>0, <3>1, <3>2, <3>3 DEF StaffTyped, AskInv, AskRow
        <4> QED
          BY <4>3, <4>4 DEF StaffTyped
      <3>5. BooksTyped' /\ WorkersTyped'
        BY <1>2, <3>3, StripeStep DEF AskStripe, books
      <3> QED
        BY <1>2, <3>3, <3>4, <3>5, Frame, PartsNext DEF AskStripe
    <2> QED
      BY <1>2, <2>1, <2>2 DEF AskStripe
  <1>3. CASE RecordRefund(s)
    <2>1. StaffTyped'
      BY <1>3, NotRefundingStep DEF RecordRefund, atStripe
    <2>2. RowsTyped' /\ BooksTyped' /\ RestTyped'
      <3>1. CASE staff[s].made \in booked
        BY <1>3, <3>1, Frame DEF RecordRefund, atStripe
      <3>2. CASE staff[s].made \notin booked
        <4>1. staff[s].amount \in 1..Amount
          BY <1>0, <1>3, AmountAssumption DEF RecordRefund, StaffTyped, AskInv, AskRow
        <4>2. WriteRefund(staff[s].amount) /\ UNCHANGED <<kind, linked, attempt, refunds, faults>>
          BY <1>3, <3>2 DEF RecordRefund, atStripe
        <4>3. booked' \subseteq DOMAIN refunds' /\ card' \in Nat /\ cash' \in Nat
          BY <1>0, <1>3, <3>2, <4>1, <4>2, AmountAssumption
          DEF RecordRefund, BooksTyped, StaffTyped, AskInv
        <4> QED
          BY <1>0, <4>1, <4>2, <4>3, WriteRefundTyped DEF BooksTyped, RestTyped
      <3> QED
        BY <3>1, <3>2
    <2> QED
      BY <1>3, <2>1, <2>2, Frame, PartsNext DEF RecordRefund, atStripe
  <1>4. CASE StaffDies(s)
    <2>1. StaffTyped'
      BY <1>4, NotRefundingStep DEF StaffDies, atStripe
    <2> QED
      BY <1>4, <2>1, Frame, PartsNext DEF StaffDies, atStripe
  <1> QED
    BY <1>1, <1>2, <1>3, <1>4

\* A request in the webhook.
LEMMA WebhookKeepsTypes ==
  ASSUME Typed, NEW w \in Worker,
         \/ \E event \in sent \ done : Deliver(w, event)
         \/ Apply(w) \/ ProvisioningThrows(w) \/ WorkerDies(w)
  PROVE  Typed'
  <1>0. /\ StripeTyped /\ RowsTyped /\ BooksTyped /\ WorkersTyped /\ StaffTyped /\ RestTyped
        /\ worker[w] \in JobRow
        /\ "idle" \in JobStep /\ "acking" \in JobStep /\ "provisioning" \in JobStep
        /\ "posting" \in JobStep
    BY Parts DEF WorkersTyped, JobStep
  <1>1. ASSUME NEW event \in sent \ done, Deliver(w, event) PROVE Typed'
    <2>1. Job("applying", event) \in JobRow /\ Job("applying", event).event = event
      BY <1>0 DEF Job, JobRow, JobStep, StripeTyped
    <2>2. WorkersTyped'
      BY <1>1, <2>1, JobStepTyped DEF Deliver, beyondWebhook, atStripe
    <2> QED
      BY <1>1, <2>2, Frame, PartsNext DEF Deliver, beyondWebhook, unsettled, atStripe
  <1>2. ASSUME Fail(w), UNCHANGED faults \/ Fault PROVE Typed'
    <2>1. WorkersTyped'
      BY <1>2, WaitTyped DEF Fail, beyondWebhook, atStripe
    <2> QED
      BY <1>2, <2>1, Frame, PartsNext DEF Fail, beyondWebhook, unsettled, atStripe
  <1>3. CASE ProvisioningThrows(w) \/ WorkerDies(w) \/ NoRowYet(w)
    BY <1>2, <1>3 DEF ProvisioningThrows, WorkerDies, NoRowYet
  <1>4. CASE ApplySucceeded(w)
    <2>1. PICK a \in Attempt, state \in Status :
            /\ Applying(w, "succeeded") /\ Found(a, state) /\ linked' = a
            /\ IF Succeeds(state) THEN
                  /\ Put(a, "succeeded")
                  /\ IF kind = "invoice" THEN Allocate(Amount) /\ Post /\ Go(w, "acking")
                     ELSE UNCHANGED <<alloc, ledger>> /\ Go(w, "provisioning")
                  /\ UNCHANGED slips
               ELSE /\ Slip("unfinished", ledger.posted = 0)
                    /\ Go(w, "acking")
                    /\ UNCHANGED <<row, alloc, ledger>>
      BY <1>4 DEF ApplySucceeded
    <2>2. UNCHANGED <<beyondWebhook, done, booked, card, cash, provisioned, faults>>
      BY <1>4 DEF ApplySucceeded
    <2>3. RowsTyped'
      <3>1. a = linked \/ (linked = NoRow /\ row[a] = "failed")
        BY <2>1 DEF Found, Adoptable
      <3>2. row' = row \/ row' = [row EXCEPT ![a] = "succeeded"]
        BY <2>1 DEF Put
      <3> QED
        BY <2>1, <2>2, <3>1, <3>2, AdoptTyped DEF beyondWebhook, Status
    <2>4. BooksTyped'
      BY <1>0, <2>1, <2>2, AmountAssumption
      DEF Allocate, Post, BooksTyped, beyondWebhook, atStripe
    <2>5. WorkersTyped'
      BY <1>0, <2>1, <2>2, GoTyped DEF Applying, beyondWebhook, atStripe
    <2>6. RestTyped'
      BY <1>0, <2>1, <2>2 DEF Slip, RestTyped
    <2> QED
      BY <2>2, <2>3, <2>4, <2>5, <2>6, Frame, PartsNext DEF beyondWebhook, atStripe
  <1>5. CASE ApplyProcessing(w)
    <2>1. PICK a \in Attempt, state \in Status :
            /\ Applying(w, "processing") /\ Found(a, state) /\ linked' = a
            /\ IF state = "pending"
               THEN /\ Put(a, "processing")
                    /\ Go(w, IF kind = "checkout" THEN "provisioning" ELSE "acking")
               ELSE Go(w, "acking") /\ UNCHANGED row
      BY <1>5 DEF ApplyProcessing
    <2>2. UNCHANGED <<beyondWebhook, done, books, provisioned, faults, slips>>
      BY <1>5 DEF ApplyProcessing
    <2>3. RowsTyped'
      <3>1. a = linked \/ (linked = NoRow /\ row[a] = "failed")
        BY <2>1 DEF Found, Adoptable
      <3>2. row' = row \/ row' = [row EXCEPT ![a] = "processing"]
        BY <2>1 DEF Put
      <3> QED
        BY <2>1, <2>2, <3>1, <3>2, AdoptTyped DEF beyondWebhook, Status
    <2>4. WorkersTyped'
      BY <1>0, <2>1, <2>2, GoTyped DEF Applying, beyondWebhook, atStripe
    <2> QED
      BY <2>2, <2>3, <2>4, Frame, PartsNext DEF beyondWebhook, atStripe
  <1>6. CASE ApplyFailed(w)
    <2>1. /\ Applying(w, "failed") /\ Go(w, "acking")
          /\ UNCHANGED <<beyondWebhook, linked, books, provisioned, done, faults>>
          /\ \/ UNCHANGED <<row, slips>>
             \/ SetState("failed") /\ slips' \in {slips, slips \cup {"late"}}
      BY <1>6 DEF ApplyFailed, Slip
    <2>2. RowsTyped'
      BY <2>1, SetStateTyped, Frame DEF Status, beyondWebhook
    <2>3. WorkersTyped'
      BY <1>0, <2>1, GoTyped DEF Applying, beyondWebhook, atStripe
    <2>4. RestTyped'
      BY <1>0, <2>1 DEF RestTyped
    <2> QED
      BY <2>1, <2>2, <2>3, <2>4, Frame, PartsNext DEF beyondWebhook, atStripe
  <1>7. CASE ProvisionMoveIn(w)
    <2>1. RowsTyped'
      BY <1>0, <1>7 DEF ProvisionMoveIn, RowsTyped, CallsInv, beyondWebhook
    <2>2. WorkersTyped'
      BY <1>0, <1>7, GoTyped DEF ProvisionMoveIn, beyondWebhook, atStripe
    <2> QED
      BY <1>7, <2>1, <2>2, Frame, PartsNext DEF ProvisionMoveIn, beyondWebhook, atStripe
  <1>8. CASE PostMoveIn(w)
    <2>1. BooksTyped'
      BY <1>0, <1>8, AmountAssumption DEF PostMoveIn, Post, BooksTyped, beyondWebhook, atStripe
    <2>2. WorkersTyped'
      BY <1>0, <1>8, GoTyped DEF PostMoveIn, beyondWebhook, atStripe
    <2> QED
      BY <1>8, <2>1, <2>2, Frame, PartsNext DEF PostMoveIn, beyondWebhook, atStripe
  <1>9. CASE ReadShortfall(w)
    <2>1. /\ worker[w].step # "idle" /\ worker[w].event.type = "refunded"
          /\ UNCHANGED <<beyondWebhook, unsettled, done, faults>>
          /\ slips' \in {slips, slips \cup {"unknown"}}
          /\ \/ Go(w, "acking")
             \/ worker' = [worker EXCEPT ![w] =
                  IF State \in Settling
                  THEN [@ EXCEPT !.step = "refunding", !.cents = Missing(worker[w].event.cents),
                                 !.known = booked]
                  ELSE Waiting]
      BY <1>9 DEF ReadShortfall, Applying, Slip
    <2>2. WorkersTyped'
      <3>1. CASE Go(w, "acking")
        BY <1>0, <2>1, <3>1, GoTyped DEF beyondWebhook, atStripe
      <3>2. CASE worker' = [worker EXCEPT ![w] = Waiting]
        BY <2>1, <3>2, WaitTyped DEF beyondWebhook, atStripe
      <3>3. CASE worker' = [worker EXCEPT ![w] =
                    [@ EXCEPT !.step = "refunding", !.cents = Missing(worker[w].event.cents),
                              !.known = booked]]
        <4> DEFINE job == [worker[w] EXCEPT !.step = "refunding",
                              !.cents = Missing(worker[w].event.cents), !.known = booked]
        <4>1. worker[w].event.cents \in Nat /\ worker[w].event \in sent
          BY <1>0, <2>1, AmountAssumption DEF WorkersTyped, JobsInv, StripeTyped
        <4>2. Missing(worker[w].event.cents) \in Nat
          BY <1>0, <4>1 DEF Missing, BooksTyped
        <4>3. job \in JobRow /\ job.event = worker[w].event
          BY <1>0, <4>2 DEF JobRow, JobStep, BooksTyped
        <4>4. worker' = [worker EXCEPT ![w] = job]
          BY <1>0, <3>3 DEF WorkersTyped
        <4> HIDE DEF job
        <4> QED
          BY <2>1, <4>1, <4>3, <4>4, JobStepTyped DEF beyondWebhook, atStripe
      <3> QED
        BY <2>1, <3>1, <3>2, <3>3
    <2>3. RestTyped'
      BY <1>0, <2>1 DEF RestTyped
    <2> QED
      BY <2>1, <2>2, <2>3, Frame, PartsNext DEF beyondWebhook, unsettled, atStripe
  <1>10. CASE BookRefund(w)
    <2>1. PICK i \in DOMAIN refunds :
            /\ worker[w].step = "refunding"
            /\ IF i \in booked
               THEN /\ worker' = [worker EXCEPT ![w] = Waiting]
                    /\ UNCHANGED <<row, books, provisioned, slips>>
               ELSE /\ WriteRefund(refunds[i].amount)
                    /\ booked' = booked \cup {i}
                    /\ card' = card + refunds[i].amount
                    /\ worker' = [worker EXCEPT ![w].known = @ \cup {i},
                         ![w].cents = IF @ > refunds[i].amount THEN @ - refunds[i].amount ELSE 0]
                    /\ UNCHANGED cash
      BY <1>10 DEF BookRefund, Unknown
    <2>2. UNCHANGED <<beyondWebhook, linked, done, faults>>
      BY <1>10 DEF BookRefund
    <2>3. CASE i \in booked
      <3>1. WorkersTyped'
        BY <2>1, <2>2, <2>3, WaitTyped DEF beyondWebhook, atStripe
      <3> QED
        BY <2>1, <2>2, <2>3, <3>1, Frame, PartsNext DEF beyondWebhook, atStripe
    <2>4. CASE i \notin booked
      <3>1. refunds[i].amount \in 1..Amount
        BY <1>0, RefundAmounts
      <3>2. RowsTyped' /\ BooksTyped' /\ RestTyped'
        BY <1>0, <2>1, <2>2, <2>4, <3>1, AmountAssumption, WriteRefundTyped
        DEF beyondWebhook, atStripe, BooksTyped, RestTyped
      <3>3. WorkersTyped'
        <4> DEFINE cents == IF worker[w].cents > refunds[i].amount
                            THEN worker[w].cents - refunds[i].amount ELSE 0
                   job == [worker[w] EXCEPT !.known = @ \cup {i}, !.cents = cents]
        <4>1. cents \in Nat
          BY <1>0, <3>1, AmountAssumption DEF JobRow
        <4>2. job \in JobRow /\ job.event = worker[w].event /\ job.step = worker[w].step
          BY <1>0, <4>1 DEF JobRow
        <4>3. worker' = [worker EXCEPT ![w] = job]
          BY <1>0, <2>1, <2>4 DEF WorkersTyped
        <4>4. worker[w].event \in sent
          BY <1>0, <2>1 DEF WorkersTyped, JobsInv
        <4> HIDE DEF job
        <4> QED
          BY <2>2, <4>2, <4>3, <4>4, JobStepTyped DEF beyondWebhook, atStripe
      <3> QED
        BY <2>2, <3>2, <3>3, Frame, PartsNext DEF beyondWebhook, atStripe
    <2> QED
      BY <2>3, <2>4
  <1>11. CASE AllBooked(w) \/ ApplyInquiry(w)
    <2>1. /\ worker[w].step # "idle" /\ Go(w, "acking")
          /\ UNCHANGED <<beyondWebhook, unsettled, done, faults, slips>>
      BY <1>11 DEF AllBooked, ApplyInquiry, Applying
    <2>2. WorkersTyped'
      BY <1>0, <2>1, GoTyped DEF beyondWebhook, atStripe
    <2> QED
      BY <2>1, <2>2, Frame, PartsNext DEF beyondWebhook, unsettled, atStripe
  <1>12. CASE ReturnPayment(w)
    <2>1. /\ worker[w].step # "idle" /\ Go(w, "acking")
          /\ UNCHANGED <<beyondWebhook, linked, booked, card, cash, provisioned, done, faults>>
      BY <1>12 DEF ReturnPayment, Applying
    <2>2. CASE Returns(worker[w].event.cents)
      <3>1. /\ SetState("returned") /\ alloc' = 0 /\ UNCHANGED slips
            /\ ledger' = [ledger EXCEPT !.reversed = Held]
        BY <1>12, <2>2 DEF ReturnPayment
      <3>2. worker[w].event.cents \in 0..Amount
        BY <1>0, <2>1 DEF WorkersTyped, JobsInv, StripeTyped
      <3>3. Held \in 0..Amount
        <4>1. Held \in Int
          BY <1>0, AmountAssumption DEF Held, BooksTyped
        <4> QED
          BY <2>2, <3>2, <4>1, AmountAssumption DEF Returns
      <3>4. BooksTyped'
        BY <1>0, <2>1, <2>2, <3>1, <3>3, AmountAssumption
        DEF Returns, BooksTyped, beyondWebhook, atStripe
      <3>5. RowsTyped'
        BY <2>1, <3>1, SetStateTyped DEF Status, beyondWebhook
      <3>6. WorkersTyped'
        BY <1>0, <2>1, GoTyped DEF beyondWebhook, atStripe
      <3> QED
        BY <2>1, <3>1, <3>4, <3>5, <3>6, Frame, PartsNext DEF beyondWebhook, atStripe
    <2>3. CASE ~Returns(worker[w].event.cents)
      <3>1. /\ UNCHANGED <<row, ledger, alloc>>
            /\ slips' \subseteq slips \cup {"unknown", "misordered", "unposted", "partial"}
        BY <1>12, <2>3 DEF ReturnPayment
      <3>2. WorkersTyped'
        BY <1>0, <2>1, GoTyped DEF beyondWebhook, atStripe
      <3>3. RestTyped'
        BY <1>0, <2>1, <3>1 DEF RestTyped
      <3> QED
        BY <2>1, <3>1, <3>2, <3>3, Frame, PartsNext DEF beyondWebhook, books, atStripe
    <2> QED
      BY <2>2, <2>3
  <1>13. CASE ReadReturned(w)
    <2>1. /\ worker[w].step # "idle"
          /\ UNCHANGED <<beyondWebhook, unsettled, done, faults>>
          /\ slips' \in {slips, slips \cup {"misordered"}}
          /\ \/ Go(w, "acking")
             \/ worker' = [worker EXCEPT ![w].step = "reinstating", ![w].cents = Refunded]
      BY <1>13 DEF ReadReturned, Applying, Slip
    <2>2. WorkersTyped'
      <3>1. CASE Go(w, "acking")
        BY <1>0, <2>1, <3>1, GoTyped DEF beyondWebhook, atStripe
      <3>2. CASE worker' = [worker EXCEPT ![w].step = "reinstating", ![w].cents = Refunded]
        <4> DEFINE job == [worker[w] EXCEPT !.step = "reinstating", !.cents = Refunded]
        <4>1. Refunded \in Nat
          BY <1>0 DEF Refunded, BooksTyped
        <4>2. job \in JobRow /\ job.event = worker[w].event
          BY <1>0, <4>1 DEF JobRow, JobStep
        <4>3. worker' = [worker EXCEPT ![w] = job]
          BY <1>0, <3>2 DEF WorkersTyped
        <4>4. worker[w].event \in sent
          BY <1>0, <2>1 DEF WorkersTyped, JobsInv
        <4> HIDE DEF job
        <4> QED
          BY <2>1, <4>2, <4>3, <4>4, JobStepTyped DEF beyondWebhook, atStripe
      <3> QED
        BY <2>1, <3>1, <3>2
    <2>3. RestTyped'
      BY <1>0, <2>1 DEF RestTyped
    <2> QED
      BY <2>1, <2>2, <2>3, Frame, PartsNext DEF beyondWebhook, unsettled, atStripe
  <1>14. CASE Reinstate(w)
    <2>1. /\ worker[w].step # "idle"
          /\ UNCHANGED <<beyondWebhook, linked, booked, card, cash, provisioned, done, faults,
                         slips>>
      BY <1>14 DEF Reinstate
    <2>2. CASE Reinstates
      <3>1. /\ ledger' = [ledger EXCEPT !.reinstated = @ + ledger.reversed]
            /\ \E state \in Status : SetState(state)
            /\ alloc' \in 0..ledger.reversed
            /\ Go(w, "acking")
        BY <1>14, <2>2 DEF Reinstate, Allocate, Status
      <3>2. BooksTyped'
        BY <1>0, <2>1, <2>2, <3>1, AmountAssumption
        DEF Reinstates, BooksTyped, beyondWebhook, atStripe
      <3>3. RowsTyped'
        BY <2>1, <3>1, SetStateTyped DEF beyondWebhook
      <3>4. WorkersTyped'
        BY <1>0, <2>1, <3>1, GoTyped DEF beyondWebhook, atStripe
      <3> QED
        BY <2>1, <3>2, <3>3, <3>4, Frame, PartsNext DEF beyondWebhook, atStripe
    <2>3. CASE ~Reinstates
      <3>1. worker' = [worker EXCEPT ![w] = Waiting] /\ UNCHANGED <<row, ledger, alloc>>
        BY <1>14, <2>3 DEF Reinstate
      <3>2. WorkersTyped'
        BY <2>1, <3>1, WaitTyped DEF beyondWebhook, atStripe
      <3> QED
        BY <2>1, <3>1, <3>2, Frame, PartsNext DEF beyondWebhook, books, atStripe
    <2> QED
      BY <2>2, <2>3
  <1>15. CASE Acknowledge(w)
    <2>1. WorkersTyped'
      BY <1>15, WaitTyped DEF Acknowledge, beyondWebhook, atStripe
    <2>2. StripeTyped'
      <3>1. worker[w].event \in sent
        BY <1>0, <1>15 DEF Acknowledge, WorkersTyped, JobsInv
      <3> QED
        BY <1>0, <1>15, <3>1 DEF Acknowledge, beyondWebhook, atStripe, StripeTyped
    <2> QED
      BY <1>15, <2>1, <2>2, Frame, PartsNext DEF Acknowledge, beyondWebhook, unsettled, atStripe
  <1> QED
    BY <1>1, <1>3, <1>4, <1>5, <1>6, <1>7, <1>8, <1>9, <1>10, <1>11, <1>12, <1>13, <1>14,
       <1>15 DEF Apply

-----------------------------------------------------------------------------
(* The books: the kinds of steps there are.                                *)

\* At the start everything has its type.
LEMMA InitTyped == Init => Typed
  <1> SUFFICES ASSUME Init PROVE Typed
    OBVIOUS
  <1>1. Waiting \in JobRow /\ Waiting.step = "idle"
    BY DEF Waiting, Job, NoEvent, Event, JobRow, JobStep
  <1>2. NotRefunding \in AskRow /\ NotRefunding.step = "idle"
    BY AmountAssumption DEF NotRefunding, Refund, AskRow
  <1>3. WorkersTyped /\ StaffTyped
    BY <1>1, <1>2 DEF Init, WorkersTyped, JobsInv, StaffTyped, AskInv
  <1>4. RowsTyped
    BY RowAssumption DEF Init, RowsTyped, CallsInv, Active, CallStep, Status
  <1>5. StripeTyped /\ BooksTyped /\ RestTyped
    BY AmountAssumption, BoundAssumption DEF Init, StripeTyped, BooksTyped, RestTyped
  <1> QED
    BY <1>3, <1>4, <1>5, Parts

\* What TypeOK says of the numbers, and of the state.
LEMMA Numbers ==
  ASSUME Typed
  PROVE  /\ Amount \in Nat /\ Amount > 0
         /\ ledger.posted \in {0, Amount} /\ ledger.refunded \in Nat
         /\ ledger.reversed \in Nat /\ ledger.reinstated \in Nat
         /\ card \in Nat /\ cash \in Nat /\ Refunded \in Nat /\ alloc \in Nat
         /\ kind \in {"checkout", "invoice"}
         /\ State \in Status /\ (State # "none" => linked \in Attempt)
  BY AmountAssumption DEF Typed, TypeOK, Refunded, State, Status

\* Writing the linked row's status is writing the state of the payment.
LEMMA NewState ==
  ASSUME Typed, State # "none", NEW state, SetState(state), UNCHANGED linked
  PROVE  State' = state
  BY RowAssumption, Numbers DEF SetState, State, Typed, TypeOK

\* The states in which no money has been received.
Early == {"none", "pending", "processing", "failed"}

\* A payment has received no money, has, or was returned.
LEMMA EarlyOrReceived ==
  /\ \A state \in Status : state \in Early <=> state \notin Settling \cup {"returned"}
  /\ Early \subseteq Status
  BY DEF Status, Settling, Early

\* No money moves, and what changes of the state is of no account.
LEMMA Unmoved ==
  ASSUME BooksInv, slips \subseteq slips', UNCHANGED <<kind, card, cash, ledger, alloc>>,
         State' = State \/ (State \in Early /\ State' \in Early),
         \A w \in Worker : worker'[w] = worker[w] \/ Pending(worker[w])'
  PROVE  BooksInv'
  <1> SUFFICES ASSUME Ok' PROVE LedgerInv' /\ PendingInv'
    BY DEF BooksInv
  <1>1. LedgerInv /\ PendingInv
    BY DEF Ok, BooksInv
  <1>2. Refunded' = Refunded /\ Held' = Held /\ (Untouched => Untouched')
    BY DEF Refunded, Held, Untouched
  <1>3. LedgerInv'
    BY <1>1, <1>2, EarlyOrReceived DEF LedgerInv, Early, Settling
  <1>4. PendingInv'
    <2> SUFFICES ASSUME NEW w \in Worker, worker'[w] = worker[w] PROVE Pending(worker[w])'
      BY DEF PendingInv
    <2>1. Pending(worker[w])
      BY <1>1 DEF PendingInv
    <2> QED
      BY <1>2, <2>1, EarlyOrReceived DEF Pending, Early, Settling
  <1> QED
    BY <1>3, <1>4

\* A worker's job changes and nothing else that the books are about.
LEMMA JobMoves ==
  ASSUME Typed, BooksInv, slips \subseteq slips', NEW w \in Worker, NEW job,
         UNCHANGED <<kind, row, linked, card, cash, ledger, alloc>>,
         worker' = [worker EXCEPT ![w] = job], Ok' => Pending(job)
  PROVE  BooksInv'
  <1>1. State' = State /\ Refunded' = Refunded
    BY DEF State, Refunded
  <1>2. worker'[w] = job /\ \A v \in Worker \ {w} : worker'[v] = worker[v]
    BY DEF Typed, TypeOK
  <1>3. CASE Ok'
    <2>1. Pending(worker[w])'
      BY <1>1, <1>2, <1>3 DEF Pending
    <2> QED
      BY <1>1, <1>2, <2>1, Unmoved
  <1>4. CASE ~Ok'
    BY <1>4 DEF BooksInv
  <1> QED
    BY <1>3, <1>4

\* A request that goes on to a step with nothing to count on moves no money.
LEMMA GoMoves ==
  ASSUME Typed, BooksInv, slips \subseteq slips', NEW w \in Worker, NEW step, Go(w, step),
         UNCHANGED <<kind, row, linked, card, cash, ledger, alloc>>,
         step \notin {"reinstating", "posting", "provisioning"}
  PROVE  BooksInv'
  <1> DEFINE job == [worker[w] EXCEPT !.step = step]
  <1>1. worker' = [worker EXCEPT ![w] = job]
    BY DEF Go, Typed, TypeOK
  <1>2. job.step = step
    BY DEF Typed, TypeOK
  <1> HIDE DEF job
  <1>3. Pending(job)
    BY <1>2 DEF Pending
  <1> QED
    BY <1>1, <1>3, JobMoves

\* A request that is over moves no money.
LEMMA WaitMoves ==
  ASSUME Typed, BooksInv, slips \subseteq slips', NEW w \in Worker,
         UNCHANGED <<kind, row, linked, card, cash, ledger, alloc>>,
         worker' = [worker EXCEPT ![w] = Waiting]
  PROVE  BooksInv'
  <1>1. Pending(Waiting)
    BY DEF Pending, Waiting, Job
  <1> QED
    BY <1>1, JobMoves

\* A handler moves money: what is left to show is the ledger, and what the jobs
\* in progress may count on.
LEMMA MoneyMoves ==
  ASSUME Typed, NEW w \in Worker, NEW step, Go(w, step),
         \A v \in Worker \ {w} : Pending(worker[v])', LedgerInv',
         step \in {"acking", "provisioning"}, State' \in Settling \cup {"returned"}
  PROVE  BooksInv'
  <1>1. worker'[w].step = step /\ \A v \in Worker \ {w} : worker'[v] = worker[v]
    BY DEF Go, Typed, TypeOK
  <1>2. Pending(worker[w])'
    BY <1>1 DEF Pending
  <1> QED
    BY <1>2 DEF BooksInv, PendingInv

\* A refund, unless it slips, is of money that is held.
LEMMA WriteRefundMoves ==
  ASSUME Typed, BooksInv, NEW cents \in 1..Amount, WriteRefund(cents),
         Refunded' = Refunded + cents, UNCHANGED <<kind, linked>>,
         \A w \in Worker : worker'[w] = worker[w] \/ worker'[w].step = "refunding"
  PROVE  BooksInv'
  <1> SUFFICES ASSUME Ok' PROVE LedgerInv' /\ PendingInv'
    BY DEF BooksInv
  <1>1. /\ Ok /\ ledger.posted # 0
        /\ State \in {"succeeded", "partially_refunded"} /\ Refunded + cents <= Amount
    BY Numbers DEF Ok, WriteRefund
  <1>2. LedgerInv /\ PendingInv
    BY <1>1 DEF BooksInv
  <1>3. ledger.posted = Amount /\ ledger.refunded = Refunded
        /\ ledger.reinstated = ledger.reversed /\ alloc <= Held
    BY <1>1, <1>2, Numbers DEF LedgerInv, Settling
  <1>4. State' = IF Refunded + cents >= Amount THEN "refunded" ELSE "partially_refunded"
    BY <1>1, NewState DEF WriteRefund
  <1>5. /\ ledger' = [ledger EXCEPT !.refunded = @ + cents]
        /\ alloc' = IF cents <= alloc THEN alloc - cents ELSE 0
    BY <1>1 DEF WriteRefund
  <1>6. /\ ledger'.posted = Amount /\ ledger'.refunded = Refunded'
        /\ ledger'.reversed = ledger.reversed /\ ledger'.reinstated = ledger.reinstated
    BY <1>3, <1>5 DEF Typed, TypeOK
  <1>7. Held' = Held - cents /\ Held = Amount - Refunded
    BY <1>3, <1>6, Numbers DEF Held
  <1>8. alloc' <= Held'
    BY <1>1, <1>3, <1>5, <1>7, Numbers
  <1>9. LedgerInv'
    BY <1>1, <1>3, <1>4, <1>6, <1>8, Numbers DEF LedgerInv, Settling
  <1>10. PendingInv'
    <2> SUFFICES ASSUME NEW w \in Worker PROVE Pending(worker[w])'
      BY DEF PendingInv
    <2>1. Pending(worker[w])
      BY <1>2 DEF PendingInv
    <2>2. State' \in Settling
      BY <1>4 DEF Settling
    <2> QED
      BY <1>1, <1>6, <2>1, <2>2 DEF Pending
  <1> QED
    BY <1>9, <1>10

-----------------------------------------------------------------------------
(* Every step keeps the books.                                             *)

\* What happens at Stripe reaches the books only through the webhook.
LEMMA StripeKeepsBooks ==
  ASSUME Typed, BooksInv, Stripe
  PROVE  BooksInv'
  <1>1. UNCHANGED <<ours, slips>>
    BY DEF Stripe, Decline, Accept, Pay, DashboardRefund, OpenDispute, CloseDispute
  <1>2. UNCHANGED <<kind, row, linked, card, cash, ledger, alloc, worker, slips>>
    BY <1>1 DEF ours, books
  <1> QED
    BY <1>2, Unmoved DEF State

\* A call writes its own row, and gives it the intent's id only while it is pending.
LEMMA CallState ==
  ASSUME Typed, NEW a \in Attempt,
         StartCharge(a) \/ Charge(a) \/ LoseCall(a) \/ ChargeDies(a)
  PROVE  State' = State \/ (State \in Early /\ State' \in Early)
  <1>1. CallsInv /\ row \in [Attempt -> Status] /\ linked \in Attempt \cup {NoRow}
    BY Parts DEF RowsTyped
  <1>2. CASE StartCharge(a) \/ MarkFailed(a) \/ CheckRecorded(a)
    <2>1. linked' = linked /\ a # linked
      BY <1>1, <1>2 DEF StartCharge, MarkFailed, CheckRecorded, CallsInv, Active
    <2>2. \A b \in Attempt \ {a} : row'[b] = row[b]
      BY <1>1, <1>2 DEF StartCharge, MarkFailed, CheckRecorded, Put
    <2> QED
      BY <1>1, <2>1, <2>2, RowAssumption DEF State
  <1>3. CASE Link(a)
    <2>1. row[a] = "pending" /\ UNCHANGED row
      BY <1>1, <1>3 DEF Link, CallsInv, Active
    <2>2. UNCHANGED linked \/ (linked = NoRow /\ linked' = a)
      BY <1>3 DEF Link
    <2> QED
      BY <2>1, <2>2, RowAssumption DEF State, Early
  <1>4. CASE ReachStripe(a) \/ GetAnswer(a) \/ LoseCall(a) \/ ChargeDies(a)
    BY <1>4 DEF ReachStripe, GetAnswer, LoseCall, ChargeDies, State
  <1> QED
    BY <1>2, <1>3, <1>4 DEF Charge

\* A call moves no money.
LEMMA ChargeKeepsBooks ==
  ASSUME Typed, BooksInv, NEW a \in Attempt,
         StartCharge(a) \/ Charge(a) \/ LoseCall(a) \/ ChargeDies(a)
  PROVE  BooksInv'
  <1>1. UNCHANGED beyondCharge
    BY DEF StartCharge, Charge, ReachStripe, GetAnswer, MarkFailed, CheckRecorded, Link,
           LoseCall, ChargeDies
  <1> QED
    BY <1>1, CallState, Unmoved DEF beyondCharge, books

\* Staff write a refund, or nothing.
LEMMA StaffKeepsBooks ==
  ASSUME Typed, BooksInv, NEW s \in Staff,
         ReadRefundable(s) \/ AskStripe(s) \/ RecordRefund(s) \/ StaffDies(s)
  PROVE  BooksInv'
  <1>1. ASSUME UNCHANGED <<kind, row, linked, books, worker, slips>> PROVE BooksInv'
    BY <1>1, Unmoved DEF State, books
  <1>2. CASE ReadRefundable(s) \/ AskStripe(s) \/ StaffDies(s)
    BY <1>1, <1>2 DEF ReadRefundable, AskStripe, StaffDies
  <1>3. CASE RecordRefund(s) /\ staff[s].made \in booked
    BY <1>1, <1>3 DEF RecordRefund
  <1>4. CASE RecordRefund(s) /\ staff[s].made \notin booked
    <2>1. staff[s].amount \in 1..Amount
      <3>1. staff[s] \in AskRow /\ AskInv
        BY Parts DEF StaffTyped
      <3> QED
        BY <1>4, <3>1, AmountAssumption DEF RecordRefund, AskInv, AskRow
    <2>2. WriteRefund(staff[s].amount) /\ UNCHANGED <<kind, linked, worker>>
      BY <1>4 DEF RecordRefund
    <2>3. Refunded' = Refunded + staff[s].amount
      BY <1>4, <2>1, Numbers DEF RecordRefund, Refunded
    <2> QED
      BY <2>1, <2>2, <2>3, WriteRefundMoves
  <1> QED
    BY <1>2, <1>3, <1>4

\* payment_intent.succeeded: money is posted to a payment nothing was posted to.
LEMMA SuccessKeepsBooks ==
  ASSUME Typed, BooksInv, NEW w \in Worker, ApplySucceeded(w)
  PROVE  BooksInv'
  <1>1. PICK a \in Attempt, state \in Status :
          /\ Found(a, state) /\ linked' = a
          /\ IF Succeeds(state) THEN
                /\ Put(a, "succeeded")
                /\ IF kind = "invoice" THEN Allocate(Amount) /\ Post /\ Go(w, "acking")
                   ELSE UNCHANGED <<alloc, ledger>> /\ Go(w, "provisioning")
                /\ UNCHANGED slips
             ELSE /\ Slip("unfinished", ledger.posted = 0)
                  /\ Go(w, "acking")
                  /\ UNCHANGED <<row, alloc, ledger>>
    BY DEF ApplySucceeded
  <1>2. UNCHANGED <<kind, card, cash>>
    BY DEF ApplySucceeded, beyondWebhook
  <1>3. CASE ~Succeeds(state)
    <2>1. UNCHANGED linked
      BY <1>1, <1>3 DEF Found, Succeeds, Settling
    <2>2. slips \subseteq slips'
      BY <1>1, <1>3 DEF Slip
    <2> QED
      BY <1>1, <1>2, <1>3, <2>1, <2>2, GoMoves
  <1>4. CASE Succeeds(state)
    <2> SUFFICES ASSUME Ok' PROVE BooksInv'
      BY DEF BooksInv
    <2>1. LedgerInv /\ PendingInv
      BY <1>1, <1>4 DEF Ok, BooksInv
    <2>2. State \in Early
      BY <1>1, <1>4, EarlyOrReceived, RowAssumption DEF Found, State, Succeeds, Early
    <2>3. Untouched
      BY <2>1, <2>2, EarlyOrReceived DEF LedgerInv, Early
    <2>4. State' = "succeeded"
      BY <1>1, <1>4, RowAssumption DEF Put, State, Typed, TypeOK
    <2>5. \/ /\ kind = "invoice" /\ ledger'.posted = Amount /\ alloc' \in 0..Amount
          \/ kind # "invoice" /\ ledger'.posted = 0 /\ alloc' = 0
      BY <1>1, <1>4, <2>3 DEF Allocate, Post, Untouched, Typed, TypeOK
    <2>6. /\ ledger'.refunded = ledger.refunded /\ ledger'.reversed = 0 /\ ledger'.reinstated = 0
      BY <1>1, <1>4, <2>3 DEF Allocate, Post, Untouched, Typed, TypeOK
    <2>7. Refunded' = 0 /\ ledger.refunded = 0
      BY <1>2, <2>1, <2>3 DEF Refunded, LedgerInv, Untouched
    <2>8. Held' = ledger'.posted
      BY <2>5, <2>6, <2>7, AmountAssumption DEF Held
    <2>9. LedgerInv'
      BY <1>2, <2>4, <2>5, <2>6, <2>7, <2>8, AmountAssumption DEF LedgerInv, Untouched, Settling
    <2>10. \A v \in Worker \ {w} : Pending(worker[v])'
      <3> SUFFICES ASSUME NEW v \in Worker \ {w} PROVE Pending(worker[v])'
        OBVIOUS
      <3>1. Pending(worker[v]) /\ worker'[v] = worker[v]
        BY <1>1, <1>4, <2>1 DEF PendingInv, Go, Typed, TypeOK
      <3> QED
        BY <2>2, <2>3, <2>4, <3>1 DEF Pending, Untouched, Early, Settling
    <2>11. Go(w, "acking") \/ Go(w, "provisioning")
      BY <1>1, <1>4
    <2> QED
      BY <2>4, <2>9, <2>10, <2>11, MoneyMoves DEF Settling
  <1> QED
    BY <1>3, <1>4

\* payment_intent.processing: a payment that was pending moves no money.
LEMMA ProcessingKeepsBooks ==
  ASSUME Typed, BooksInv, NEW w \in Worker, ApplyProcessing(w)
  PROVE  BooksInv'
  <1>1. PICK a \in Attempt, state \in Status :
          /\ worker[w].event.type = "processing" /\ Found(a, state) /\ linked' = a
          /\ IF state = "pending"
             THEN /\ Put(a, "processing")
                  /\ Go(w, IF kind = "checkout" THEN "provisioning" ELSE "acking")
             ELSE Go(w, "acking") /\ UNCHANGED row
    BY DEF ApplyProcessing, Applying
  <1>2. UNCHANGED <<kind, card, cash, ledger, alloc, slips>>
    BY DEF ApplyProcessing, beyondWebhook, books
  <1>3. CASE state # "pending"
    <2>1. UNCHANGED linked
      BY <1>1, <1>3 DEF Found
    <2> QED
      BY <1>1, <1>2, <1>3, <2>1, GoMoves
  <1>4. CASE state = "pending"
    <2>1. State \in Early
      BY <1>1, <1>4, RowAssumption DEF Found, State, Early
    <2>2. State' \in Early
      BY <1>1, <1>4, RowAssumption DEF Put, State, Early, Typed, TypeOK
    <2>3. /\ \A v \in Worker \ {w} : worker'[v] = worker[v]
          /\ worker'[w].step \in {"provisioning", "acking"}
          /\ worker'[w].event.type = "processing"
      <3>1. PICK step \in {"provisioning", "acking"} : Go(w, step)
        BY <1>1, <1>4
      <3>2. worker \in [Worker -> JobRow]
        BY Parts DEF WorkersTyped
      <3>3. worker' = [worker EXCEPT ![w] = [worker[w] EXCEPT !.step = step]]
        BY <3>1, <3>2 DEF Go
      <3>4. worker[w] \in JobRow
        BY <3>2
      <3>5. LET job == [worker[w] EXCEPT !.step = step] IN
            job.step = step /\ job.event = worker[w].event
        BY <3>4 DEF JobRow
      <3> QED
        BY <1>1, <3>2, <3>3, <3>5
    <2>4. Pending(worker[w])'
      BY <2>3 DEF Pending
    <2> QED
      BY <1>2, <2>1, <2>2, <2>3, <2>4, Unmoved
  <1> QED
    BY <1>3, <1>4

\* payment_intent.payment_failed: what it writes over is early, or a slip.
LEMMA FailureKeepsBooks ==
  ASSUME Typed, BooksInv, NEW w \in Worker, ApplyFailed(w)
  PROVE  BooksInv'
  <1>1. /\ Go(w, "acking") /\ UNCHANGED <<kind, linked, card, cash, ledger, alloc>>
        /\ IF State \in {"none", "succeeded"} THEN UNCHANGED <<row, slips>>
           ELSE /\ SetState("failed")
                /\ Slip("late", State \in {"partially_refunded", "refunded", "returned"})
    BY DEF ApplyFailed, beyondWebhook, books
  <1>2. CASE State \in {"none", "succeeded"}
    BY <1>1, <1>2, GoMoves
  <1>3. CASE State \notin {"none", "succeeded"}
    <2>1. State' = "failed"
      BY <1>1, <1>3, NewState
    <2>2. CASE State \in Early
      <3>1. /\ \A v \in Worker \ {w} : worker'[v] = worker[v]
            /\ worker'[w].step = "acking"
        BY <1>1 DEF Go, Typed, TypeOK
      <3>2. Pending(worker[w])'
        BY <3>1 DEF Pending
      <3>3. slips \subseteq slips' /\ "failed" \in Early
        BY <1>1, <1>3 DEF Slip, Early
      <3> QED
        BY <1>1, <2>1, <2>2, <3>1, <3>2, <3>3, Unmoved
    <2>3. CASE State \notin Early
      <3>1. "late" \in slips'
        BY <1>1, <1>3, <2>3, Numbers DEF Slip, Early, Status
      <3> QED
        BY <3>1 DEF BooksInv, Ok
    <2> QED
      BY <2>2, <2>3
  <1> QED
    BY <1>2, <1>3

\* The entry of a move-in is posted once, for money that is received.
LEMMA MoveInKeepsBooks ==
  ASSUME Typed, BooksInv, NEW w \in Worker, PostMoveIn(w)
  PROVE  BooksInv'
  <1>1. /\ Go(w, "acking") /\ Post
        /\ UNCHANGED <<kind, row, linked, card, cash, alloc, slips>>
    BY DEF PostMoveIn, beyondWebhook
  <1>2. CASE ledger.posted # 0
    <2>1. UNCHANGED ledger
      BY <1>1, <1>2 DEF Post
    <2> QED
      BY <1>1, <2>1, GoMoves
  <1>3. CASE ledger.posted = 0
    <2> SUFFICES ASSUME Ok' PROVE BooksInv'
      BY DEF BooksInv
    <2>1. LedgerInv /\ PendingInv
      BY <1>1 DEF Ok, BooksInv
    <2>2. Untouched
      BY <1>3, <2>1 DEF LedgerInv
    <2>3. State \in Settling /\ State' = State
      <3>1. State' = State
        BY <1>1 DEF State
      <3>2. Pending(worker[w]) /\ worker[w].step = "posting"
        BY <2>1 DEF PendingInv, PostMoveIn
      <3> QED
        BY <1>3, <2>1, <3>1, <3>2, AmountAssumption DEF Pending, LedgerInv
    <2>4. /\ ledger'.posted = Amount /\ ledger'.refunded = ledger.refunded
          /\ ledger'.reversed = 0 /\ ledger'.reinstated = 0
      BY <1>1, <1>3, <2>2 DEF Post, Untouched, Typed, TypeOK
    <2>5. Refunded' = Refunded /\ Refunded = 0 /\ ledger.refunded = 0 /\ alloc' = 0
      BY <1>1, <2>1, <2>2 DEF Refunded, LedgerInv, Untouched
    <2>6. Held' = Amount
      BY <2>4, <2>5, AmountAssumption DEF Held
    <2>7. LedgerInv'
      BY <1>1, <2>1, <2>3, <2>4, <2>5, <2>6, AmountAssumption DEF LedgerInv, Settling
    <2>8. \A v \in Worker \ {w} : Pending(worker[v])'
      <3> SUFFICES ASSUME NEW v \in Worker \ {w} PROVE Pending(worker[v])'
        OBVIOUS
      <3>1. Pending(worker[v]) /\ worker'[v] = worker[v]
        BY <1>1, <2>1 DEF PendingInv, Go, Typed, TypeOK
      <3> QED
        BY <2>2, <2>3, <2>4, <3>1 DEF Pending, Untouched, Settling
    <2> QED
      BY <1>1, <2>3, <2>7, <2>8, MoneyMoves
  <1> QED
    BY <1>2, <1>3

\* A refund that Stripe lists is booked, or somebody has.
LEMMA BookRefundKeepsBooks ==
  ASSUME Typed, BooksInv, NEW w \in Worker, BookRefund(w)
  PROVE  BooksInv'
  <1>1. PICK i \in DOMAIN refunds :
          /\ worker[w].step = "refunding"
          /\ IF i \in booked
             THEN /\ worker' = [worker EXCEPT ![w] = Waiting]
                  /\ UNCHANGED <<row, books, provisioned, slips>>
             ELSE /\ WriteRefund(refunds[i].amount)
                  /\ booked' = booked \cup {i}
                  /\ card' = card + refunds[i].amount
                  /\ worker' = [worker EXCEPT ![w].known = @ \cup {i},
                       ![w].cents = IF @ > refunds[i].amount THEN @ - refunds[i].amount ELSE 0]
                  /\ UNCHANGED cash
    BY DEF BookRefund, Unknown
  <1>2. UNCHANGED <<kind, linked>>
    BY DEF BookRefund, beyondWebhook
  <1>3. CASE i \in booked
    BY <1>1, <1>2, <1>3, WaitMoves DEF books
  <1>4. CASE i \notin booked
    <2>1. refunds[i].amount \in 1..Amount
      BY Parts, RefundAmounts
    <2>2. Refunded' = Refunded + refunds[i].amount
      BY <1>1, <1>4, <2>1, Numbers DEF Refunded
    <2>3. \A v \in Worker : worker'[v] = worker[v] \/ worker'[v].step = "refunding"
      <3>1. worker \in [Worker -> JobRow] /\ worker[w] \in JobRow
        BY Parts DEF WorkersTyped
      <3>2. \A v \in Worker \ {w} : worker'[v] = worker[v]
        BY <1>1, <1>4, <3>1
      <3>3. worker'[w].step = worker[w].step
        BY <1>1, <1>4, <3>1 DEF JobRow
      <3> QED
        BY <1>1, <3>2, <3>3
    <2> QED
      BY <1>1, <1>2, <1>4, <2>1, <2>2, <2>3, WriteRefundMoves
  <1> QED
    BY <1>3, <1>4

\* What a payment still holds is returned, all of it.
LEMMA ReturnKeepsBooks ==
  ASSUME Typed, BooksInv, NEW w \in Worker, ReturnPayment(w)
  PROVE  BooksInv'
  <1>1. Go(w, "acking") /\ UNCHANGED <<kind, linked, card, cash>>
    BY DEF ReturnPayment, beyondWebhook
  <1>2. CASE ~Returns(worker[w].event.cents)
    <2>1. slips \subseteq slips' /\ UNCHANGED <<row, ledger, alloc>>
      BY <1>2 DEF ReturnPayment
    <2> QED
      BY <1>1, <2>1, GoMoves
  <1>3. CASE Returns(worker[w].event.cents)
    <2> SUFFICES ASSUME Ok' PROVE BooksInv'
      BY DEF BooksInv
    <2>1. /\ SetState("returned") /\ alloc' = 0 /\ UNCHANGED slips
          /\ ledger' = [ledger EXCEPT !.reversed = Held]
      BY <1>3 DEF ReturnPayment
    <2>2. LedgerInv /\ PendingInv
      BY <2>1 DEF Ok, BooksInv
    <2>3. /\ State \in {"succeeded", "partially_refunded"}
          /\ ledger.posted = Amount /\ ledger.reversed = 0 /\ Held > 0
      BY <1>3, Numbers DEF Returns
    <2>4. ledger.reinstated = 0 /\ ledger.refunded = Refunded
      BY <2>2, <2>3 DEF LedgerInv, Settling
    <2>5. Held = Amount - Refunded
      BY <2>3, <2>4, Numbers DEF Held
    <2>6. State' = "returned"
      BY <1>1, <2>1, <2>3, NewState
    <2>7. /\ ledger'.posted = Amount /\ ledger'.refunded = Refunded
          /\ ledger'.reversed = Amount - Refunded /\ ledger'.reinstated = 0
      BY <2>1, <2>3, <2>4, <2>5 DEF Typed, TypeOK
    <2>8. Refunded' = Refunded /\ Held' = 0
      BY <1>1, <2>7, Numbers DEF Refunded, Held
    <2>9. LedgerInv'
      BY <2>1, <2>3, <2>5, <2>6, <2>7, <2>8, Numbers DEF LedgerInv, Settling
    <2>10. \A v \in Worker \ {w} : Pending(worker[v])'
      <3> SUFFICES ASSUME NEW v \in Worker \ {w} PROVE Pending(worker[v])'
        OBVIOUS
      <3>1. Pending(worker[v]) /\ worker'[v] = worker[v]
        BY <1>1, <2>2 DEF PendingInv, Go, Typed, TypeOK
      <3> QED
        BY <2>3, <2>4, <2>6, <3>1 DEF Pending
    <2> QED
      BY <1>1, <2>6, <2>9, <2>10, MoneyMoves
  <1> QED
    BY <1>2, <1>3

\* What is reinstated is what was reversed, and no more than once.
LEMMA ReinstateKeepsBooks ==
  ASSUME Typed, BooksInv, NEW w \in Worker, Reinstate(w)
  PROVE  BooksInv'
  <1>1. UNCHANGED <<kind, linked, card, cash, slips>> /\ worker[w].step = "reinstating"
    BY DEF Reinstate, beyondWebhook
  <1>2. CASE ~Reinstates
    <2>1. worker' = [worker EXCEPT ![w] = Waiting] /\ UNCHANGED <<row, ledger, alloc>>
      BY <1>2 DEF Reinstate
    <2> QED
      BY <1>1, <2>1, WaitMoves
  <1>3. CASE Reinstates
    <2> SUFFICES ASSUME Ok' PROVE BooksInv'
      BY DEF BooksInv
    <2>1. /\ ledger' = [ledger EXCEPT !.reinstated = @ + ledger.reversed]
          /\ SetState(IF worker[w].cents > 0 THEN "partially_refunded" ELSE "succeeded")
          /\ alloc' \in 0..ledger.reversed
          /\ Go(w, "acking")
      BY <1>3 DEF Reinstate, Allocate
    <2>2. LedgerInv /\ PendingInv
      BY <1>1 DEF Ok, BooksInv
    <2>3. ledger.reinstated = 0 /\ State = "returned" /\ worker[w].cents = Refunded
      BY <1>1, <1>3, <2>2 DEF Reinstates, PendingInv, Pending
    <2>4. /\ ledger.posted = Amount /\ ledger.refunded = Refunded
          /\ ledger.reversed = Amount - Refunded /\ ledger.reversed > 0
      BY <2>2, <2>3 DEF LedgerInv
    <2>5. State' = IF Refunded > 0 THEN "partially_refunded" ELSE "succeeded"
      BY <1>1, <2>1, <2>3, NewState
    <2>6. /\ ledger'.posted = Amount /\ ledger'.refunded = Refunded
          /\ ledger'.reversed = ledger.reversed /\ ledger'.reinstated = ledger.reversed
      BY <2>1, <2>3, <2>4, Numbers DEF Typed, TypeOK
    <2>7. Refunded' = Refunded /\ Held' = Amount - Refunded
      BY <1>1, <2>4, <2>6, Numbers DEF Refunded, Held
    <2>8. LedgerInv'
      BY <2>1, <2>4, <2>5, <2>6, <2>7, Numbers DEF LedgerInv, Settling
    <2>9. \A v \in Worker \ {w} : Pending(worker[v])'
      <3>1. ledger'.reinstated # 0 /\ State' \in Settling
        BY <2>4, <2>5, <2>6 DEF Settling
      <3> QED
        BY <3>1 DEF Pending
    <2>10. State' \in Settling
      BY <2>5 DEF Settling
    <2> QED
      BY <2>1, <2>8, <2>9, <2>10, MoneyMoves
  <1> QED
    BY <1>2, <1>3

\* A request in the webhook.
LEMMA WebhookKeepsBooks ==
  ASSUME Typed, BooksInv, NEW w \in Worker,
         \/ \E event \in sent \ done : Deliver(w, event)
         \/ Apply(w) \/ ProvisioningThrows(w) \/ WorkerDies(w)
  PROVE  BooksInv'
  <1>1. ASSUME NEW event \in sent \ done, Deliver(w, event) PROVE BooksInv'
    <2>1. Pending(Job("applying", event))
      BY DEF Pending, Job
    <2>2. UNCHANGED <<kind, row, linked, card, cash, ledger, alloc, slips>>
      BY <1>1 DEF Deliver, beyondWebhook, unsettled, books
    <2>3. worker' = [worker EXCEPT ![w] = Job("applying", event)]
      BY <1>1 DEF Deliver
    <2> QED
      BY <2>1, <2>2, <2>3, JobMoves
  <1>2. CASE ProvisioningThrows(w) \/ WorkerDies(w) \/ NoRowYet(w) \/ Acknowledge(w)
    <2>1. /\ UNCHANGED <<kind, row, linked, card, cash, ledger, alloc, slips>>
          /\ worker' = [worker EXCEPT ![w] = Waiting]
      BY <1>2 DEF ProvisioningThrows, WorkerDies, NoRowYet, Acknowledge, Fail, beyondWebhook,
                  unsettled, books
    <2> QED
      BY <2>1, WaitMoves
  <1>3. CASE AllBooked(w) \/ ApplyInquiry(w)
    <2>1. /\ UNCHANGED <<kind, row, linked, card, cash, ledger, alloc, slips>>
          /\ Go(w, "acking")
      BY <1>3 DEF AllBooked, ApplyInquiry, beyondWebhook, unsettled, books
    <2> QED
      BY <2>1, GoMoves
  <1>4. CASE ProvisionMoveIn(w)
    <2>1. /\ UNCHANGED <<kind, row, linked, card, cash, ledger, alloc, slips>>
          /\ Go(w, IF worker[w].event.type = "succeeded" THEN "posting" ELSE "acking")
          /\ worker[w].step = "provisioning"
      BY <1>4 DEF ProvisionMoveIn, beyondWebhook, books
    <2> DEFINE step == IF worker[w].event.type = "succeeded" THEN "posting" ELSE "acking"
               job == [worker[w] EXCEPT !.step = step]
    <2>2. worker' = [worker EXCEPT ![w] = job]
      BY <2>1 DEF Go, Typed, TypeOK
    <2>3. job.step = step
      BY DEF Typed, TypeOK
    <2>4. Ok' => Pending(job)
      <3> HIDE DEF job
      <3>1. Ok' => Pending(worker[w])
        BY <2>1 DEF Ok, BooksInv, PendingInv
      <3> QED
        BY <2>1, <2>3, <3>1 DEF Pending
    <2> HIDE DEF job
    <2> QED
      BY <2>1, <2>2, <2>4, JobMoves
  <1>5. CASE ReadShortfall(w)
    <2>1. UNCHANGED <<kind, row, linked, card, cash, ledger, alloc>> /\ slips \subseteq slips'
      BY <1>5 DEF ReadShortfall, Slip, beyondWebhook, unsettled, books
    <2>2. \/ Go(w, "acking") \/ worker' = [worker EXCEPT ![w] = Waiting]
          \/ worker' = [worker EXCEPT ![w] =
               [@ EXCEPT !.step = "refunding", !.cents = Missing(worker[w].event.cents),
                         !.known = booked]]
      BY <1>5 DEF ReadShortfall
    <2>3. ASSUME worker' = [worker EXCEPT ![w] =
               [@ EXCEPT !.step = "refunding", !.cents = Missing(worker[w].event.cents),
                         !.known = booked]]
          PROVE  BooksInv'
      <3> DEFINE job == [worker[w] EXCEPT !.step = "refunding",
                           !.cents = Missing(worker[w].event.cents), !.known = booked]
      <3>1. worker' = [worker EXCEPT ![w] = job]
        BY <2>3 DEF Typed, TypeOK
      <3>2. job.step = "refunding"
        BY DEF Typed, TypeOK
      <3> HIDE DEF job
      <3>3. Pending(job)
        BY <3>2 DEF Pending
      <3> QED
        BY <2>1, <3>1, <3>3, JobMoves
    <2> QED
      BY <2>1, <2>2, <2>3, GoMoves, WaitMoves
  <1>6. CASE ReadReturned(w)
    <2>1. UNCHANGED <<kind, row, linked, card, cash, ledger, alloc>> /\ slips \subseteq slips'
      BY <1>6 DEF ReadReturned, Slip, beyondWebhook, unsettled, books
    <2>2. CASE State # "returned"
      BY <1>6, <2>1, <2>2, GoMoves DEF ReadReturned
    <2>3. CASE State = "returned"
      <3> DEFINE job == [worker[w] EXCEPT !.step = "reinstating", !.cents = Refunded]
      <3>1. worker' = [worker EXCEPT ![w] = job]
        BY <1>6, <2>3 DEF ReadReturned, Typed, TypeOK
      <3>2. job.step = "reinstating" /\ job.cents = Refunded
        BY DEF Typed, TypeOK
      <3> HIDE DEF job
      <3>3. Pending(job)
        BY <2>3, <3>2 DEF Pending
      <3> QED
        BY <2>1, <3>1, <3>3, JobMoves
    <2> QED
      BY <2>2, <2>3
  <1> QED
    BY <1>1, <1>2, <1>3, <1>4, <1>5, <1>6, SuccessKeepsBooks, ProcessingKeepsBooks,
       FailureKeepsBooks, MoveInKeepsBooks, BookRefundKeepsBooks, ReturnKeepsBooks,
       ReinstateKeepsBooks DEF Apply

-----------------------------------------------------------------------------
(* The books and Stripe                                                    *)

Told(type) == \E event \in sent : event.type = type

\* The handler of an event has returned.
Acked(event) ==
    event \in done \/ \E w \in Worker : worker[w].step = "acking" /\ worker[w].event = event

\* What the events say of the intent and the dispute is so, and what has happened
\* was told.
StripeSays ==
    /\ \A event \in sent :
          /\ event.type = "succeeded" => intent = "succeeded"
          /\ event.type = "won" => dispute = "won"
          /\ event.type = "lost" => dispute = "lost"
          /\ event.type = "disputed" => dispute \in {"open", "won", "lost"}
          /\ event.type = "refunded" => event.cents <= sentBack
    /\ intent = "succeeded" => Event("succeeded", 0) \in sent
    /\ dispute = "open" => Told("disputed")
    /\ dispute = "lost" => Told("lost")
    /\ dispute = "won" => Told("won")
    /\ sentBack > 0 => Event("refunded", sentBack) \in sent

\* The refund rows of cards are refunds of Stripe, and add up as they do there.
Amounts == [i \in DOMAIN refunds |-> refunds[i].amount]

AddsUp ==
    /\ card = SumFunctionOnSet(Amounts, booked)
    /\ sentBack = SumFunctionOnSet(Amounts, DOMAIN refunds)
    /\ \A s \in Staff : staff[s].step = "writing" /\ staff[s].method = "card" =>
          refunds[staff[s].made].amount = staff[s].amount

\* A handler's step says which event it has in hand; what it has still to book, with
\* what is booked, comes to what its event said.
Handles(job) ==
    /\ job.step = "provisioning" => job.event.type \in {"succeeded", "processing"}
    /\ job.step = "posting" => job.event.type = "succeeded"
    /\ job.step = "reinstating" => job.event.type = "won"
    /\ job.step = "refunding" =>
          /\ job.event.type = "refunded"
          /\ job.known \subseteq booked
          /\ card + job.cents >= job.event.cents

HandlesInv == \A w \in Worker : Handles(worker[w])

\* What the handler of an event has done once it returned.
Effect(event) ==
    /\ event.type = "succeeded" => ledger.posted = Amount
    /\ event.type = "refunded" => card >= event.cents
    /\ event.type \in {"disputed", "lost"} /\ Withdrawn => State \in {"refunded", "returned"}
    /\ event.type = "won" => State # "returned" /\ (ledger.reversed > 0 \/ ~Told("disputed"))

\* Nothing in the books is without a cause at Stripe, and without a slip nothing
\* that was acknowledged is without its effect.
Caused == /\ ledger.reversed > 0 => Told("disputed") \/ Told("lost")
          /\ ledger.reinstated > 0 => Told("won")
          /\ slips = {} /\ Received => intent = "succeeded"

Heeded == slips = {} => \A event \in sent : Acked(event) => Effect(event)

MatchInv == StripeSays /\ AddsUp /\ HandlesInv /\ Caused /\ Heeded

\* At the start Stripe has said nothing.
LEMMA MatchInit == Init => MatchInv
  <1> SUFFICES ASSUME Init PROVE MatchInv
    OBVIOUS
  <1>1. /\ sent = {} /\ done = {} /\ intent = "none" /\ dispute = "none" /\ sentBack = 0
        /\ booked = {} /\ card = 0 /\ DOMAIN refunds = {}
    BY DEF Init
  <1>2. \A w \in Worker : worker[w].step = "idle"
    BY DEF Init, Waiting, Job
  <1>3. \A s \in Staff : staff[s].step = "idle"
    BY DEF Init, NotRefunding, Refund
  <1>4. StripeSays /\ HandlesInv /\ Heeded
    BY <1>1, <1>2 DEF StripeSays, HandlesInv, Handles, Heeded
  <1>5. AddsUp
    BY <1>1, <1>3, SumEmpty DEF AddsUp
  <1>6. Caused
    BY DEF Init, Caused, Received, State, Settling
  <1> QED
    BY <1>4, <1>5, <1>6 DEF MatchInv

\* What Stripe says holds as long as nothing there changes.
LEMMA SaysRests == ASSUME StripeSays, UNCHANGED <<intent, dispute, sentBack, sent>> PROVE StripeSays'
  BY DEF StripeSays, Told

\* A refund is told, with what has been sent back by then.
LEMMA SendBackSays ==
  ASSUME Typed, StripeSays, NEW cents \in 1..Amount, NEW after, NEW byUs,
         SendBack(cents, after, byUs), UNCHANGED <<intent, dispute>>
  PROVE  StripeSays'
  <1> DEFINE event == Event("refunded", sentBack + cents)
  <1>1. sentBack \in 0..Amount /\ Amount \in Nat /\ \A e \in sent : e.cents \in 0..Amount
    BY Numbers DEF Typed, TypeOK
  <1>2. sentBack' = sentBack + cents /\ sent' = sent \cup {event}
    BY DEF SendBack, Tell
  <1>3. event.type = "refunded" /\ event.cents = sentBack + cents
    BY DEF Event
  <1>4. Event("refunded", sentBack') \in sent'
    BY <1>2
  <1> HIDE DEF event
  <1>5. \A e \in sent' : e.type = "refunded" => e.cents <= sentBack'
    BY <1>1, <1>2, <1>3 DEF StripeSays
  <1>6. \A e \in sent' : /\ e.type = "succeeded" => intent' = "succeeded"
                         /\ e.type = "won" => dispute' = "won"
                         /\ e.type = "lost" => dispute' = "lost"
                         /\ e.type = "disputed" => dispute' \in {"open", "won", "lost"}
    BY <1>2, <1>3 DEF StripeSays
  <1>7. Event("succeeded", 0)' = Event("succeeded", 0)
    BY DEF Event
  <1> QED
    BY <1>2, <1>4, <1>5, <1>6, <1>7 DEF StripeSays, Told

\* Every step at Stripe is told.
LEMMA StripeKeepsSays == ASSUME Typed, StripeSays, Stripe PROVE StripeSays'
  <1>1. sentBack \in 0..Amount /\ Amount \in Nat
    BY Numbers DEF Typed, TypeOK
  <1>2. CASE Decline \/ Accept \/ Pay
    BY <1>2 DEF Decline, Accept, Pay, Payable, Tell, Event, StripeSays, Told
  <1>3. CASE DashboardRefund
    <2>1. PICK cents \in 1..Amount : CanRefund(cents) /\ SendBack(cents, 0, FALSE)
      BY <1>3 DEF DashboardRefund
    <2>2. UNCHANGED <<intent, dispute>>
      BY <1>3 DEF DashboardRefund
    <2> QED
      BY <2>1, <2>2, SendBackSays
  <1>4. CASE OpenDispute
    BY <1>4 DEF OpenDispute, CanRefund, Tell, Event, StripeSays, Told
  <1>5. CASE CloseDispute
    BY <1>5 DEF CloseDispute, Tell, Event, StripeSays, Told
  <1> QED
    BY <1>2, <1>3, <1>4, <1>5 DEF Stripe

\* Only the staff's question reaches Stripe besides, and a refund is told.
LEMMA StaffKeepsSays ==
  ASSUME Typed, StripeSays, NEW s \in Staff,
         ReadRefundable(s) \/ AskStripe(s) \/ RecordRefund(s) \/ StaffDies(s)
  PROVE  StripeSays'
  <1>1. CASE ReadRefundable(s) \/ RecordRefund(s) \/ StaffDies(s)
    BY <1>1, SaysRests DEF ReadRefundable, RecordRefund, StaffDies, atStripe
  <1>2. CASE AskStripe(s)
    <2>1. CASE UNCHANGED <<refunds, sentBack, sent>>
      BY <1>2, <2>1, SaysRests DEF AskStripe
    <2>2. CASE SendBack(staff[s].amount, staff[s].after, TRUE)
      <3>1. UNCHANGED <<intent, dispute>> /\ staff[s].step = "asking"
        BY <1>2 DEF AskStripe
      <3>2. staff[s].amount \in 1..Amount
        BY <3>1, Parts, AmountAssumption DEF StaffTyped, AskInv, AskRow
      <3>3. PICK cents \in 1..Amount : cents = staff[s].amount
        BY <3>2
      <3> QED
        BY <2>2, <3>1, <3>3, SendBackSays
    <2> QED
      BY <1>2, <2>1, <2>2 DEF AskStripe
  <1> QED
    BY <1>1, <1>2

\* The amounts of the refunds are numbers, of a finite set of refunds.
LEMMA AmountsTyped ==
  ASSUME Typed
  PROVE  /\ IsFiniteSet(DOMAIN refunds) /\ IsFiniteSet(booked) /\ booked \subseteq DOMAIN refunds
         /\ \A i \in DOMAIN refunds : Amounts[i] = refunds[i].amount /\ Amounts[i] \in Nat
                                      /\ Amounts[i] \in Int
  <1>1. StripeTyped /\ booked \subseteq DOMAIN refunds
    BY Parts DEF BooksTyped
  <1>2. DOMAIN refunds = 1..Len(refunds) /\ Len(refunds) \in Nat
    BY <1>1 DEF StripeTyped
  <1>3. IsFiniteSet(DOMAIN refunds)
    BY <1>2, FS_Interval
  <1>4. IsFiniteSet(booked)
    BY <1>1, <1>3, FS_Subset
  <1>5. \A i \in DOMAIN refunds : refunds[i].amount \in 1..Amount
    BY <1>1, RefundAmounts
  <1> QED
    BY <1>1, <1>3, <1>4, <1>5, Numbers DEF Amounts

\* Nothing is refunded at Stripe, and no card refund is booked or begun to be.
LEMMA AddsRests ==
  ASSUME AddsUp, UNCHANGED <<refunds, sentBack, booked, card>>,
         \A s \in Staff : staff'[s] = staff[s] \/ staff'[s].step # "writing"
                                               \/ staff'[s].method # "card"
  PROVE  AddsUp'
  <1>1. Amounts' = Amounts
    BY DEF Amounts
  <1> QED
    BY <1>1 DEF AddsUp

\* A refund at Stripe adds to what was sent back there, and leaves the earlier
\* ones as they are.
LEMMA SendBackAdds ==
  ASSUME Typed, AddsUp, NEW cents \in 1..Amount, NEW after \in Nat, NEW byUs \in BOOLEAN,
         SendBack(cents, after, byUs), UNCHANGED <<booked, card>>
  PROVE  /\ card' = SumFunctionOnSet(Amounts', booked')
         /\ sentBack' = SumFunctionOnSet(Amounts', DOMAIN refunds')
         /\ \A i \in DOMAIN refunds : i \in DOMAIN refunds' /\ refunds'[i] = refunds[i]
         /\ refunds'[Len(refunds) + 1].amount = cents
  <1> DEFINE n == Len(refunds) + 1
             r == [amount |-> cents, after |-> after, ours |-> byUs]
  <1>1. refunds \in Seq([amount : 1..Amount, after : Nat, ours : BOOLEAN])
    BY DEF Typed, TypeOK
  <1>2. refunds' = Append(refunds, r) /\ sentBack' = sentBack + cents
    BY DEF SendBack
  <1>3. r.amount = cents /\ cents \in Nat
    BY Numbers
  <1> HIDE DEF r
  <1>4. /\ DOMAIN refunds' = DOMAIN refunds \cup {n} /\ n \notin DOMAIN refunds
        /\ refunds'[n] = r /\ \A i \in DOMAIN refunds : refunds'[i] = refunds[i]
    BY <1>1, <1>2
  <1> HIDE DEF n
  <1>5. /\ Amounts'[n] = cents
        /\ \A i \in DOMAIN refunds : Amounts'[i] = Amounts[i] /\ Amounts'[i] \in Int
    BY <1>3, <1>4, AmountsTyped DEF Amounts
  <1>6. PICK g : g = Amounts'
    OBVIOUS
  <1>7. SumFunctionOnSet(g, booked) = SumFunctionOnSet(Amounts, booked)
    <2>1. \A i \in booked : Amounts[i] = g[i]
      BY <1>5, <1>6, AmountsTyped
    <2>2. IsFiniteSet(booked)
      BY AmountsTyped
    <2> QED
      BY <2>1, <2>2, SumSame
  <1>8. SumFunctionOnSet(g, DOMAIN refunds \cup {n}) = cents + sentBack
    <2>1. \A i \in DOMAIN refunds : Amounts[i] = g[i]
      BY <1>5, <1>6
    <2>2. IsFiniteSet(DOMAIN refunds)
      BY AmountsTyped
    <2>3. SumFunctionOnSet(g, DOMAIN refunds) = SumFunctionOnSet(Amounts, DOMAIN refunds)
      BY <2>1, <2>2, SumSame
    <2>4. \A i \in DOMAIN refunds \cup {n} : g[i] \in Int
      BY <1>3, <1>5, <1>6
    <2>5. SumFunctionOnSet(g, DOMAIN refunds \cup {n}) = g[n] + SumFunctionOnSet(g, DOMAIN refunds)
      BY <1>4, <2>2, <2>4, SumAdds
    <2> QED
      BY <1>5, <1>6, <2>3, <2>5 DEF AddsUp
  <1>9. sentBack \in Nat
    BY Numbers DEF Typed, TypeOK
  <1> QED
    BY <1>2, <1>3, <1>4, <1>6, <1>7, <1>8, <1>9 DEF AddsUp, n

\* A refund of Stripe that has no row gets one.
LEMMA BookingAdds ==
  ASSUME Typed, AddsUp, NEW i \in DOMAIN refunds, i \notin booked, UNCHANGED <<refunds, sentBack>>,
         booked' = booked \cup {i}, card' = card + refunds[i].amount,
         \A s \in Staff : staff'[s] = staff[s] \/ staff'[s].step # "writing"
  PROVE  AddsUp'
  <1>1. Amounts' = Amounts
    BY DEF Amounts
  <1>2. \A j \in booked \cup {i} : Amounts[j] \in Int
    BY AmountsTyped
  <1>3. IsFiniteSet(booked) /\ Amounts[i] = refunds[i].amount /\ Amounts[i] \in Nat
    BY AmountsTyped
  <1>4. SumFunctionOnSet(Amounts, booked \cup {i}) = Amounts[i] + SumFunctionOnSet(Amounts, booked)
    BY <1>2, <1>3, SumAdds
  <1>5. card' = SumFunctionOnSet(Amounts', booked')
    BY <1>1, <1>3, <1>4, Numbers DEF AddsUp
  <1> QED
    BY <1>1, <1>5 DEF AddsUp

\* Stripe sent back at least what is booked, and no more once all is booked.
LEMMA BookedAtMost ==
  ASSUME Typed, AddsUp
  PROVE  /\ card <= sentBack
         /\ booked = DOMAIN refunds => card = sentBack
  <1>1. \A i \in DOMAIN refunds : Amounts[i] \in Nat
    BY AmountsTyped
  <1>2. SumFunctionOnSet(Amounts, booked) <= SumFunctionOnSet(Amounts, DOMAIN refunds)
    BY <1>1, AmountsTyped, SumOfPartIsLess
  <1> QED
    BY <1>2 DEF AddsUp

\* Stripe's own steps keep the sums.
LEMMA StripeKeepsSums == ASSUME Typed, AddsUp, Stripe PROVE AddsUp'
  <1>1. UNCHANGED <<booked, card, staff>>
    BY DEF Stripe, Decline, Accept, Pay, DashboardRefund, OpenDispute, CloseDispute, ours, books
  <1>2. CASE UNCHANGED <<refunds, sentBack>>
    BY <1>1, <1>2, AddsRests
  <1>3. ASSUME NEW cents \in 1..Amount, SendBack(cents, 0, FALSE) PROVE AddsUp'
    <2>1. /\ card' = SumFunctionOnSet(Amounts', booked')
          /\ sentBack' = SumFunctionOnSet(Amounts', DOMAIN refunds')
          /\ \A i \in DOMAIN refunds : i \in DOMAIN refunds' /\ refunds'[i] = refunds[i]
      BY <1>1, <1>3, SendBackAdds
    <2>2. \A s \in Staff : staff[s].step = "writing" /\ staff[s].method = "card" =>
              staff[s].made \in DOMAIN refunds
      BY Parts DEF StaffTyped, AskInv
    <2> QED
      BY <1>1, <2>1, <2>2 DEF AddsUp
  <1>4. UNCHANGED <<refunds, sentBack>> \/ \E cents \in 1..Amount : SendBack(cents, 0, FALSE)
    BY DEF Stripe, Decline, Accept, Pay, DashboardRefund, OpenDispute, CloseDispute
  <1> QED
    BY <1>2, <1>3, <1>4

\* What staff book of a card is what they made Stripe send back.
LEMMA StaffKeepsSums ==
  ASSUME Typed, AddsUp, NEW s \in Staff,
         ReadRefundable(s) \/ AskStripe(s) \/ RecordRefund(s) \/ StaffDies(s)
  PROVE  AddsUp'
  <1>1. staff \in [Staff -> AskRow] /\ staff[s] \in AskRow /\ AskInv
    BY Parts DEF StaffTyped
  <1>2. NotRefunding.step = "idle"
    BY DEF NotRefunding, Refund
  <1>3. CASE StaffDies(s)
    <2>1. UNCHANGED <<refunds, sentBack, booked, card>>
          /\ \A t \in Staff : staff'[t] = staff[t] \/ staff'[t].step = "idle"
      BY <1>1, <1>2, <1>3 DEF StaffDies, atStripe, books
    <2> QED
      BY <2>1, AddsRests
  <1>4. CASE ReadRefundable(s)
    <2>1. PICK cents \in 1..Amount, method \in {"card", "cash"} :
              staff' = [staff EXCEPT ![s] =
                  [Refund(IF method = "card" THEN "asking" ELSE "writing", cents, method)
                     EXCEPT !.after = Refunded]]
      BY <1>4 DEF ReadRefundable
    <2>2. \A t \in Staff \ {s} : staff'[t] = staff[t]
      BY <1>1, <2>1
    <2>3. staff'[s].step # "writing" \/ staff'[s].method # "card"
      BY <1>1, <2>1 DEF Refund
    <2>4. UNCHANGED <<refunds, sentBack, booked, card>>
      BY <1>4 DEF ReadRefundable, atStripe, books
    <2> QED
      BY <2>2, <2>3, <2>4, AddsRests
  <1>5. CASE RecordRefund(s)
    <2>1. /\ staff[s].step = "writing" /\ UNCHANGED <<refunds, sentBack>>
          /\ \A t \in Staff : staff'[t] = staff[t] \/ staff'[t].step = "idle"
      BY <1>1, <1>2, <1>5 DEF RecordRefund, atStripe
    <2>2. CASE UNCHANGED <<booked, card>>
      BY <2>1, <2>2, AddsRests
    <2>3. CASE /\ staff[s].method = "card" /\ staff[s].made \notin booked
               /\ booked' = booked \cup {staff[s].made} /\ card' = card + staff[s].amount
      <3>1. staff[s].made \in DOMAIN refunds /\ refunds[staff[s].made].amount = staff[s].amount
        BY <1>1, <2>1, <2>3 DEF AskInv, AddsUp
      <3>2. PICK i \in DOMAIN refunds : i = staff[s].made
        BY <3>1
      <3> QED
        BY <2>1, <2>3, <3>1, <3>2, BookingAdds
    <2> QED
      BY <1>5, <2>2, <2>3 DEF RecordRefund, books
  <1>6. CASE AskStripe(s)
    <2>1. UNCHANGED <<booked, card>> /\ staff[s].step = "asking" /\ staff[s].amount \in 1..Amount
      BY <1>1, <1>6, AmountAssumption DEF AskStripe, books, AskInv, AskRow
    <2>2. CASE UNCHANGED <<refunds, sentBack>> /\ staff' = [staff EXCEPT ![s] = NotRefunding]
      <3>1. \A t \in Staff : staff'[t] = staff[t] \/ staff'[t].step = "idle"
        BY <1>1, <1>2, <2>2
      <3> QED
        BY <2>1, <2>2, <3>1, AddsRests
    <2>3. ASSUME NEW i \in Repeated(s), UNCHANGED <<refunds, sentBack>>,
                 staff' = [staff EXCEPT ![s].step = "writing", ![s].made = i]
          PROVE  AddsUp'
      <3>1. refunds[i].amount = staff[s].amount
        BY DEF Repeated
      <3>2. /\ staff'[s].made = i /\ staff'[s].amount = staff[s].amount
            /\ \A t \in Staff \ {s} : staff'[t] = staff[t]
        BY <1>1, <2>3 DEF AskRow
      <3>3. Amounts' = Amounts
        BY <2>3 DEF Amounts
      <3> QED
        BY <2>1, <2>3, <3>1, <3>2, <3>3 DEF AddsUp
    <2>4. CASE /\ SendBack(staff[s].amount, staff[s].after, TRUE)
               /\ staff' = [staff EXCEPT ![s].step = "writing", ![s].made = Len(refunds) + 1]
      <3>1. staff[s].after \in Nat
        BY <1>1 DEF AskRow
      <3>2. /\ card' = SumFunctionOnSet(Amounts', booked')
            /\ sentBack' = SumFunctionOnSet(Amounts', DOMAIN refunds')
            /\ \A i \in DOMAIN refunds : i \in DOMAIN refunds' /\ refunds'[i] = refunds[i]
            /\ refunds'[Len(refunds) + 1].amount = staff[s].amount
        BY <2>1, <2>4, <3>1, SendBackAdds
      <3>3. /\ staff'[s].made = Len(refunds) + 1 /\ staff'[s].amount = staff[s].amount
            /\ \A t \in Staff \ {s} : staff'[t] = staff[t]
        BY <1>1, <2>4 DEF AskRow
      <3>4. \A t \in Staff : staff[t].step = "writing" /\ staff[t].method = "card" =>
                staff[t].made \in DOMAIN refunds
        BY <1>1 DEF AskInv
      <3> QED
        BY <3>2, <3>3, <3>4 DEF AddsUp
    <2> QED
      BY <1>6, <2>2, <2>3, <2>4 DEF AskStripe
  <1> QED
    BY <1>3, <1>4, <1>5, <1>6

\* A request goes on to its next step with what it has in hand.
LEMMA GoOn ==
  ASSUME Typed, NEW w \in Worker, NEW step, Go(w, step)
  PROVE  /\ worker'[w].step = step /\ worker'[w].event = worker[w].event
         /\ \A v \in Worker \ {w} : worker'[v] = worker[v]
  <1>1. worker \in [Worker -> JobRow] /\ worker[w] \in JobRow
    BY Parts DEF WorkersTyped
  <1>2. worker' = [worker EXCEPT ![w] = [worker[w] EXCEPT !.step = step]]
    BY <1>1 DEF Go
  <1>3. LET job == [worker[w] EXCEPT !.step = step] IN
        job.step = step /\ job.event = worker[w].event
    BY <1>1 DEF JobRow
  <1> QED
    BY <1>1, <1>2, <1>3

\* A request is over, or starts.
LEMMA TakeUp ==
  ASSUME Typed, NEW w \in Worker, NEW job, worker' = [worker EXCEPT ![w] = job]
  PROVE  worker'[w] = job /\ \A v \in Worker \ {w} : worker'[v] = worker[v]
  BY Parts DEF WorkersTyped

\* A handler's hold on its event outlives what the others book.
LEMMA HandlesRests ==
  ASSUME Typed, HandlesInv, booked \subseteq booked', card' \in Nat, card <= card',
         \A w \in Worker : worker'[w] = worker[w] \/ Handles(worker[w])'
  PROVE  HandlesInv'
  <1> SUFFICES ASSUME NEW w \in Worker, worker'[w] = worker[w] PROVE Handles(worker[w])'
    BY DEF HandlesInv
  <1>1. worker[w] \in JobRow /\ card \in Nat /\ Amount \in Nat
    BY Parts, Numbers DEF WorkersTyped
  <1>2. PICK job : job = worker[w] /\ job = worker'[w]
    OBVIOUS
  <1>3. job.cents \in Nat /\ (job.step = "refunding" => card + job.cents >= job.event.cents)
    BY <1>1, <1>2 DEF HandlesInv, Handles, JobRow
  <1>4. job.event.cents \in Nat
    BY <1>1, <1>2 DEF JobRow, NoEvent, Event
  <1>5. job.step = "refunding" => card' + job.cents >= job.event.cents
    BY <1>1, <1>3, <1>4
  <1> QED
    BY <1>2, <1>5 DEF HandlesInv, Handles

\* A handler reads what is missing of what its event said ...
LEMMA ShortfallHandles ==
  ASSUME Typed, NEW w \in Worker, ReadShortfall(w), worker'[w].step = "refunding"
  PROVE  Handles(worker[w])'
  <1> DEFINE missing == Missing(worker[w].event.cents)
  <1>1. worker[w] \in JobRow /\ card \in Nat /\ Amount \in Nat
    BY Parts, Numbers DEF WorkersTyped
  <1>2. UNCHANGED <<booked, card>> /\ worker[w].event.type = "refunded"
        /\ worker[w].step = "applying"
    BY DEF ReadShortfall, Applying, unsettled, books
  <1>3. worker[w].event.cents \in Nat
    BY <1>1 DEF JobRow, NoEvent, Event
  <1>4. missing \in Nat /\ card + missing >= worker[w].event.cents
    BY <1>1, <1>3 DEF Missing
  <1>5. ~Go(w, "acking") /\ worker' # [worker EXCEPT ![w] = Waiting]
    BY GoOn, TakeUp DEF Waiting, Job
  <1>6. worker' = [worker EXCEPT ![w] =
               [@ EXCEPT !.step = "refunding", !.cents = missing, !.known = booked]]
    BY <1>5 DEF ReadShortfall
  <1> HIDE DEF missing
  <1>7. worker'[w] = [worker[w] EXCEPT !.step = "refunding", !.cents = missing, !.known = booked]
    BY <1>6, Parts DEF WorkersTyped
  <1>8. /\ worker'[w].step = "refunding" /\ worker'[w].event = worker[w].event
        /\ worker'[w].cents = missing /\ worker'[w].known = booked
    BY <1>1, <1>7 DEF JobRow
  <1> QED
    BY <1>2, <1>4, <1>8 DEF Handles

\* ... and books it, one refund after the other.
LEMMA BookingHandles ==
  ASSUME Typed, HandlesInv, NEW w \in Worker, NEW i \in DOMAIN refunds,
         worker[w].step = "refunding", booked' = booked \cup {i},
         card' = card + refunds[i].amount, NEW cents,
         cents = IF worker[w].cents > refunds[i].amount
                 THEN worker[w].cents - refunds[i].amount ELSE 0,
         NEW next, next.step = "refunding", next.event = worker[w].event, next.cents = cents,
         next.known = worker[w].known \cup {i}, worker' = [worker EXCEPT ![w] = next]
  PROVE  HandlesInv'
  <1>1. /\ worker[w] \in JobRow /\ card \in Nat /\ Amount \in Nat
        /\ refunds[i].amount \in 1..Amount
    BY Parts, Numbers, RefundAmounts DEF WorkersTyped
  <1>2. PICK amount \in 1..Amount : amount = refunds[i].amount
    BY <1>1
  <1>3. worker[w].cents \in Nat /\ worker[w].event.cents \in Nat
    BY <1>1 DEF JobRow, NoEvent, Event
  <1>4. /\ card + worker[w].cents >= worker[w].event.cents
        /\ worker[w].event.type = "refunded" /\ worker[w].known \subseteq booked
    BY DEF HandlesInv, Handles
  <1>5. cents \in Nat /\ card' \in Nat /\ card <= card' /\ card' + cents >= worker[w].event.cents
    BY <1>1, <1>2, <1>3, <1>4
  <1>6. worker'[w] = next /\ \A v \in Worker \ {w} : worker'[v] = worker[v]
    BY TakeUp
  <1>7. Handles(worker[w])'
    BY <1>4, <1>5, <1>6 DEF Handles
  <1> QED
    BY <1>5, <1>6, <1>7, HandlesRests

\* The webhook's own steps keep what each handler has in hand, and book card refunds
\* one by one.
LEMMA WebhookKeepsHandles ==
  ASSUME Typed, HandlesInv, AddsUp, NEW w \in Worker,
         \/ \E event \in sent \ done : Deliver(w, event)
         \/ Apply(w) \/ ProvisioningThrows(w) \/ WorkerDies(w)
  PROVE  HandlesInv' /\ AddsUp'
  <1>1. ASSUME UNCHANGED <<refunds, sentBack, booked, card, staff>>,
               \A v \in Worker \ {w} : worker'[v] = worker[v], Handles(worker[w])'
        PROVE  HandlesInv' /\ AddsUp'
    <2>1. card' \in Nat /\ card <= card'
      BY <1>1, Numbers
    <2>2. HandlesInv'
      BY <1>1, <2>1, HandlesRests
    <2>3. AddsUp'
      BY <1>1, AddsRests
    <2> QED
      BY <2>2, <2>3
  <1>2. CASE BookRefund(w)
    <2>1. PICK i \in DOMAIN refunds :
            /\ worker[w].step = "refunding"
            /\ IF i \in booked
               THEN /\ worker' = [worker EXCEPT ![w] = Waiting]
                    /\ UNCHANGED <<row, books, provisioned, slips>>
               ELSE /\ WriteRefund(refunds[i].amount)
                    /\ booked' = booked \cup {i}
                    /\ card' = card + refunds[i].amount
                    /\ worker' = [worker EXCEPT ![w].known = @ \cup {i},
                         ![w].cents = IF @ > refunds[i].amount THEN @ - refunds[i].amount ELSE 0]
                    /\ UNCHANGED cash
      BY <1>2 DEF BookRefund, Unknown
    <2>2. UNCHANGED <<refunds, sentBack, staff>>
      BY <1>2 DEF BookRefund, beyondWebhook, atStripe
    <2>3. CASE i \in booked
      <3>1. worker'[w].step = "idle" /\ \A v \in Worker \ {w} : worker'[v] = worker[v]
        BY <2>1, <2>3, TakeUp DEF Waiting, Job
      <3> QED
        BY <1>1, <2>1, <2>2, <2>3, <3>1 DEF Handles, books
    <2>4. CASE i \notin booked
      <3>1. booked' = booked \cup {i} /\ card' = card + refunds[i].amount
        BY <2>1, <2>4
      <3>2. HandlesInv'
        <4>1. PICK cents : cents = IF worker[w].cents > refunds[i].amount
                                   THEN worker[w].cents - refunds[i].amount ELSE 0
          OBVIOUS
        <4>2. PICK job \in JobRow : job = worker[w]
          BY Parts DEF WorkersTyped
        <4>3. PICK next : next = [job EXCEPT !.known = @ \cup {i}, !.cents = cents]
          OBVIOUS
        <4>4. worker' = [worker EXCEPT ![w] = next]
          BY <2>1, <2>4, <4>1, <4>2, <4>3, Parts DEF WorkersTyped
        <4>5. /\ next.step = job.step /\ next.event = job.event
              /\ next.cents = cents /\ next.known = job.known \cup {i}
          BY <4>3 DEF JobRow
        <4> QED
          BY <2>1, <3>1, <4>1, <4>2, <4>4, <4>5, BookingHandles
      <3>3. \A s \in Staff : staff'[s] = staff[s] \/ staff'[s].step # "writing"
        BY <2>2
      <3>4. AddsUp'
        BY <2>2, <2>4, <3>1, <3>3, BookingAdds
      <3> QED
        BY <3>2, <3>4
    <2> QED
      BY <2>3, <2>4
  <1>3. CASE ~BookRefund(w)
    <2>1. UNCHANGED <<refunds, sentBack, booked, card, staff>>
      BY <1>3 DEF Apply, Deliver, ProvisioningThrows, WorkerDies, Fail, NoRowYet, ApplySucceeded,
          ApplyProcessing, ApplyFailed, ProvisionMoveIn, PostMoveIn, ReadShortfall, AllBooked,
          ReturnPayment, ApplyInquiry, ReadReturned, Reinstate, Acknowledge, beyondWebhook,
          unsettled, books, atStripe
    <2>2. ASSUME NEW job, worker' = [worker EXCEPT ![w] = job],
                 job.step \in {"idle", "applying"}
          PROVE  HandlesInv' /\ AddsUp'
      BY <1>1, <2>1, <2>2, TakeUp DEF Handles
    <2>3. ASSUME NEW step, Go(w, step),
                 /\ step = "provisioning" => worker[w].event.type \in {"succeeded", "processing"}
                 /\ step = "posting" => worker[w].event.type = "succeeded"
                 /\ step \notin {"reinstating", "refunding"}
          PROVE  HandlesInv' /\ AddsUp'
      BY <1>1, <2>1, <2>3, GoOn DEF Handles
    <2>4. Waiting.step = "idle" /\ \A event \in sent : Job("applying", event).step = "applying"
      BY DEF Waiting, Job
    <2>5. CASE \/ \E event \in sent \ done : Deliver(w, event)
               \/ NoRowYet(w) \/ Acknowledge(w) \/ ProvisioningThrows(w) \/ WorkerDies(w)
      BY <2>2, <2>4, <2>5 DEF Deliver, NoRowYet, Acknowledge, ProvisioningThrows, WorkerDies, Fail
    <2>6. CASE ApplySucceeded(w) \/ ApplyProcessing(w)
      <3>1. PICK step \in {"acking", "provisioning"} : Go(w, step)
        BY <2>6 DEF ApplySucceeded, ApplyProcessing
      <3>2. worker[w].event.type \in {"succeeded", "processing"}
        BY <2>6 DEF ApplySucceeded, ApplyProcessing, Applying
      <3> QED
        BY <2>3, <3>1, <3>2
    <2>7. CASE ProvisionMoveIn(w)
      <3>1. \/ Go(w, "posting") /\ worker[w].event.type = "succeeded"
            \/ Go(w, "acking")
        BY <2>7 DEF ProvisionMoveIn
      <3> QED
        BY <2>3, <3>1
    <2>8. CASE ApplyFailed(w) \/ PostMoveIn(w) \/ AllBooked(w) \/ ReturnPayment(w) \/ ApplyInquiry(w)
      <3>1. Go(w, "acking")
        BY <2>8 DEF ApplyFailed, PostMoveIn, AllBooked, ReturnPayment, ApplyInquiry
      <3> QED
        BY <2>3, <3>1
    <2>9. CASE ReadShortfall(w)
      <3>1. CASE worker'[w].step = "refunding"
        <4>1. \A v \in Worker \ {w} : worker'[v] = worker[v]
          BY <2>9, GoOn, Parts DEF ReadShortfall, WorkersTyped
        <4> QED
          BY <1>1, <2>1, <2>9, <3>1, <4>1, ShortfallHandles
      <3>2. CASE worker'[w].step # "refunding"
        <4>1. \/ Go(w, "acking") \/ worker' = [worker EXCEPT ![w] = Waiting]
              \/ worker' = [worker EXCEPT ![w] =
                   [@ EXCEPT !.step = "refunding", !.cents = Missing(worker[w].event.cents),
                             !.known = booked]]
          BY <2>9 DEF ReadShortfall
        <4>2. worker \in [Worker -> JobRow]
          BY Parts DEF WorkersTyped
        <4>3. \/ Go(w, "acking") \/ worker' = [worker EXCEPT ![w] = Waiting]
          BY <3>2, <4>1, <4>2 DEF JobRow
        <4> QED
          BY <2>2, <2>3, <2>4, <4>3
      <3> QED
        BY <3>1, <3>2
    <2>10. CASE ReadReturned(w)
      <3>1. CASE State = "returned"
        <4>1. worker' = [worker EXCEPT ![w].step = "reinstating", ![w].cents = Refunded]
              /\ worker[w].event.type = "won"
          BY <2>10, <3>1 DEF ReadReturned, Applying
        <4>2. worker \in [Worker -> JobRow] /\ worker[w] \in JobRow
          BY Parts DEF WorkersTyped
        <4>3. worker' = [worker EXCEPT ![w] =
                  [worker[w] EXCEPT !.step = "reinstating", !.cents = Refunded]]
          BY <4>1, <4>2
        <4>4. worker'[w] = [worker[w] EXCEPT !.step = "reinstating", !.cents = Refunded]
              /\ \A v \in Worker \ {w} : worker'[v] = worker[v]
          BY <4>3, TakeUp
        <4>5. worker'[w].step = "reinstating" /\ worker'[w].event = worker[w].event
          BY <4>2, <4>4 DEF JobRow
        <4> QED
          BY <1>1, <2>1, <4>1, <4>4, <4>5 DEF Handles
      <3>2. CASE State # "returned"
        <4>1. Go(w, "acking")
          BY <2>10, <3>2 DEF ReadReturned
        <4> QED
          BY <2>3, <4>1
      <3> QED
        BY <3>1, <3>2
    <2>11. CASE Reinstate(w)
      <3>1. Go(w, "acking") \/ worker' = [worker EXCEPT ![w] = Waiting]
        BY <2>11 DEF Reinstate
      <3> QED
        BY <2>2, <2>3, <2>4, <3>1
    <2> QED
      BY <1>3, <2>5, <2>6, <2>7, <2>8, <2>9, <2>10, <2>11 DEF Apply
  <1> QED
    BY <1>2, <1>3

\* A step leads to books that still have their causes, and to effects of what it
\* acknowledges: the ledger's entries stay, and without a slip the state keeps what
\* it says of a return.
LEMMA Follows ==
  ASSUME Typed, Caused, Heeded, slips \subseteq slips', sent \subseteq sent',
         \A event \in sent' \ sent : event.type = "refunded" /\ ~Acked(event)',
         UNCHANGED dispute, intent = "succeeded" => intent' = "succeeded",
         card' >= card, ledger'.posted \in {ledger.posted, Amount},
         ledger.reversed > 0 => ledger'.reversed > 0,
         ledger'.reversed > 0 => ledger.reversed > 0 \/ Told("disputed") \/ Told("lost"),
         ledger'.reinstated > 0 => ledger.reinstated > 0 \/ Told("won"),
         card' \in Nat,
         slips' = {} =>
            /\ Received' => Received \/ intent = "succeeded"
            /\ State \in {"refunded", "returned"} /\ Withdrawn => State' \in {"refunded", "returned"}
            /\ State' = "returned" =>
                  State = "returned" \/ \A event \in sent : event.type = "won" => ~Acked(event)
            /\ \A event \in sent : Acked(event)' => Acked(event) \/ Effect(event)'
  PROVE  Caused' /\ Heeded'
  <1>1. \A type \in {"disputed", "lost", "won"} : Told(type)' <=> Told(type)
    BY DEF Told
  <1>2. Caused'
    BY <1>1 DEF Caused
  <1>3. ASSUME slips' = {}, NEW event \in sent, Acked(event), Acked(event)' PROVE Effect(event)'
    <2>1. Effect(event)
      BY <1>3 DEF Heeded
    <2>2. event.type = "refunded" => card' >= event.cents
      <3>1. event.cents \in 0..Amount /\ card \in Nat /\ Amount \in Nat
        BY Numbers DEF Typed, TypeOK
      <3> QED
        BY <2>1, <3>1 DEF Effect
    <2>3. event.type = "succeeded" => ledger'.posted = Amount
      BY <2>1 DEF Effect
    <2>4. event.type \in {"disputed", "lost"} /\ Withdrawn' => State' \in {"refunded", "returned"}
      BY <1>3, <2>1 DEF Effect, Withdrawn
    <2>5. event.type = "won" => State' # "returned" /\ (ledger'.reversed > 0 \/ ~Told("disputed")')
      BY <1>1, <1>3, <2>1 DEF Effect
    <2> QED
      BY <2>2, <2>3, <2>4, <2>5 DEF Effect
  <1>4. Heeded'
    BY <1>3 DEF Heeded
  <1> QED
    BY <1>2, <1>4

\* A step that leaves the ledger, and of the state what counts.
LEMMA QuietFollows ==
  ASSUME Typed, Caused, Heeded, slips \subseteq slips', UNCHANGED <<sent, dispute, card, ledger>>,
         intent = "succeeded" => intent' = "succeeded",
         slips' = {} =>
            /\ State' = State \/ (State \in Early /\ State' \in Early)
            /\ \A event \in sent : Acked(event)' => Acked(event) \/ Effect(event)'
  PROVE  Caused' /\ Heeded'
  <1>1. ledger.posted \in {0, Amount} /\ card \in Nat /\ card' >= card
    BY Numbers
  <1>2. slips' = {} => /\ Received' => Received
                       /\ State \in {"refunded", "returned"} => State' \in {"refunded", "returned"}
                       /\ State' = "returned" => State = "returned"
    BY DEF Received, Settling, Early
  <1> QED
    BY <1>1, <1>2, Follows

\* What a request acknowledges is the event it has in hand ...
LEMMA GoAcks ==
  ASSUME Typed, NEW w \in Worker, NEW step, Go(w, step), UNCHANGED done, NEW event, Acked(event)'
  PROVE  Acked(event) \/ (step = "acking" /\ event = worker[w].event)
  BY GoOn DEF Acked

\* ... and only when its handler has returned.
LEMMA TakeAcks ==
  ASSUME Typed, NEW w \in Worker, NEW job, worker' = [worker EXCEPT ![w] = job],
         job.step # "acking", NEW event, Acked(event)',
         done' \subseteq done \cup (IF worker[w].step = "acking" THEN {worker[w].event} ELSE {})
  PROVE  Acked(event)
  BY TakeUp DEF Acked

\* Only what was sent is acknowledged.
LEMMA AckedSent == ASSUME Typed, NEW event, Acked(event) PROVE event \in sent
  <1>1. done \subseteq sent /\ JobsInv
    BY Parts DEF StripeTyped, WorkersTyped
  <1> QED
    BY <1>1 DEF Acked, JobsInv

\* What happens at Stripe takes nothing from what the acknowledged events did: an
\* event that the books have heeded speaks of the dispute there is.
LEMMA StripeFollows ==
  ASSUME Typed, StripeSays, Caused, Heeded, Stripe
  PROVE  Caused' /\ Heeded'
  <1>1. UNCHANGED <<done, worker, row, linked, card, cash, ledger, slips>>
    BY DEF Stripe, Decline, Accept, Pay, DashboardRefund, OpenDispute, CloseDispute, ours, books
  <1>2. sent \subseteq sent'
    BY DEF Stripe, Decline, Accept, Pay, DashboardRefund, OpenDispute, CloseDispute, SendBack, Tell
  <1>3. State' = State /\ \A event : Acked(event)' <=> Acked(event)
    BY <1>1 DEF State, Acked
  <1>4. intent = "succeeded" => intent' = "succeeded"
    BY DEF Stripe, Decline, Accept, Pay, Payable, DashboardRefund, OpenDispute, CloseDispute
  <1>5. Caused'
    <2>1. \A type : Told(type) => Told(type)'
      BY <1>2 DEF Told
    <2> QED
      BY <1>1, <1>3, <1>4, <2>1 DEF Caused, Received
  <1>6. ASSUME NEW event \in sent, event.type \in {"disputed", "lost"}, Withdrawn' PROVE Withdrawn
    BY <1>6 DEF StripeSays, Stripe, Decline, Accept, Pay, DashboardRefund, OpenDispute,
                CloseDispute, CanRefund, Withdrawn
  <1>7. ASSUME NEW event \in sent, event.type = "won", Told("disputed")' PROVE Told("disputed")
    <2>1. dispute = "won"
      BY <1>7 DEF StripeSays
    <2>2. \A e \in sent' : e \in sent \/ e.type # "disputed"
      BY <2>1 DEF Stripe, Decline, Accept, Pay, DashboardRefund, OpenDispute, CloseDispute,
                  CanRefund, SendBack, Tell, Event
    <2> QED
      BY <1>7, <2>2 DEF Told
  <1>8. ASSUME slips = {}, NEW event \in sent, Effect(event) PROVE Effect(event)'
    BY <1>1, <1>3, <1>6, <1>7, <1>8 DEF Effect
  <1>9. Heeded'
    BY <1>1, <1>3, <1>8, AckedSent DEF Heeded
  <1> QED
    BY <1>5, <1>9

\* A call moves no money and acknowledges nothing.
LEMMA ChargeFollows ==
  ASSUME Typed, StripeSays, Caused, Heeded, NEW a \in Attempt,
         StartCharge(a) \/ Charge(a) \/ LoseCall(a) \/ ChargeDies(a)
  PROVE  StripeSays' /\ Caused' /\ Heeded'
  <1>1. UNCHANGED beyondCharge
    BY DEF StartCharge, Charge, ReachStripe, GetAnswer, MarkFailed, CheckRecorded, Link,
           LoseCall, ChargeDies
  <1>2. UNCHANGED intent \/ (intent = "none" /\ intent' = "open")
    BY DEF StartCharge, Charge, ReachStripe, GetAnswer, MarkFailed, CheckRecorded, Link,
           LoseCall, ChargeDies
  <1>3. State' = State \/ (State \in Early /\ State' \in Early)
    BY CallState
  <1>4. \A event : Acked(event)' <=> Acked(event)
    BY <1>1 DEF beyondCharge, Acked
  <1>5. StripeSays'
    BY <1>1, <1>2 DEF beyondCharge, StripeSays, Told
  <1> QED
    BY <1>1, <1>2, <1>3, <1>4, <1>5, QuietFollows DEF beyondCharge, books

\* A refund that slips nowhere is of a payment that holds money, and still does or
\* is refunded then.
LEMMA RefundFollows ==
  ASSUME Typed, Caused, Heeded, NEW cents \in 1..Amount, WriteRefund(cents),
         UNCHANGED <<linked, sent, dispute, intent>>, card' \in Nat, card' >= card,
         \A event \in sent : Acked(event)' => Acked(event)
  PROVE  Caused' /\ Heeded'
  <1>1. slips \subseteq slips'
    BY DEF WriteRefund
  <1>2. /\ ledger'.posted = ledger.posted /\ ledger'.reversed = ledger.reversed
        /\ ledger'.reinstated = ledger.reinstated
    BY DEF WriteRefund, Typed, TypeOK
  <1>3. ASSUME slips' = {}
        PROVE  /\ State \in {"succeeded", "partially_refunded"}
               /\ State' \in {"partially_refunded", "refunded"}
    <2>1. State \in {"succeeded", "partially_refunded"}
      BY <1>3 DEF WriteRefund
    <2> QED
      BY <2>1, NewState DEF WriteRefund
  <1>4. slips' = {} => Received
    BY <1>3 DEF Received, Settling
  <1> QED
    BY <1>1, <1>2, <1>3, <1>4, Follows

\* Staff book refunds, and acknowledge nothing.
LEMMA StaffFollows ==
  ASSUME Typed, Caused, Heeded, NEW s \in Staff,
         ReadRefundable(s) \/ AskStripe(s) \/ RecordRefund(s) \/ StaffDies(s)
  PROVE  Caused' /\ Heeded'
  <1>1. UNCHANGED <<done, worker, linked, dispute, intent>>
    BY DEF ReadRefundable, AskStripe, RecordRefund, StaffDies, atStripe
  <1>2. \A event : Acked(event)' <=> Acked(event)
    BY <1>1 DEF Acked
  <1>3. ASSUME UNCHANGED <<sent, books, row, slips>> PROVE Caused' /\ Heeded'
    BY <1>1, <1>2, <1>3, QuietFollows DEF books, State
  <1>4. CASE ReadRefundable(s) \/ StaffDies(s)
    BY <1>3, <1>4 DEF ReadRefundable, StaffDies, atStripe
  <1>5. CASE AskStripe(s)
    <2>1. UNCHANGED <<books, row, slips>> /\ State' = State
      BY <1>1, <1>5 DEF AskStripe, State
    <2>2. sent \subseteq sent' /\ \A event \in sent' \ sent : event.type = "refunded"
      BY <1>5 DEF AskStripe, SendBack, Tell, Event
    <2>3. \A event \in sent' \ sent : ~Acked(event)'
      BY <1>2, AckedSent
    <2>4. card \in Nat /\ card' = card /\ ledger' = ledger /\ ledger.posted \in {0, Amount}
      BY <2>1, Numbers DEF books
    <2>5. Received' = Received
      BY <2>1 DEF Received
    <2> QED
      BY <1>1, <1>2, <2>1, <2>2, <2>3, <2>4, <2>5, Follows
  <1>6. CASE RecordRefund(s)
    <2>1. UNCHANGED sent
      BY <1>6 DEF RecordRefund, atStripe
    <2>2. CASE staff[s].made \in booked
      BY <1>3, <1>6, <2>1, <2>2 DEF RecordRefund
    <2>3. CASE staff[s].made \notin booked
      <3>1. staff[s].amount \in 1..Amount
        <4>1. staff[s] \in AskRow /\ AskInv
          BY Parts DEF StaffTyped
        <4> QED
          BY <1>6, <4>1, AmountAssumption DEF RecordRefund, AskInv, AskRow
      <3>2. WriteRefund(staff[s].amount)
        BY <1>6, <2>3 DEF RecordRefund
      <3>3. card' \in Nat /\ card' >= card
        BY <1>6, <2>3, <3>1, Numbers DEF RecordRefund
      <3> QED
        BY <1>1, <1>2, <2>1, <3>1, <3>2, <3>3, RefundFollows
    <2> QED
      BY <2>2, <2>3
  <1> QED
    BY <1>4, <1>5, <1>6

\* payment_intent.succeeded: what is written or found is received, and posted unless
\* the lease is to come first.
LEMMA SuccessFollows ==
  ASSUME Typed, StripeSays, Caused, Heeded, NEW w \in Worker, ApplySucceeded(w)
  PROVE  Caused' /\ Heeded'
  <1>1. PICK a \in Attempt, state \in Status :
          /\ Found(a, state) /\ linked' = a
          /\ IF Succeeds(state) THEN
                /\ Put(a, "succeeded")
                /\ IF kind = "invoice" THEN Allocate(Amount) /\ Post /\ Go(w, "acking")
                   ELSE UNCHANGED <<alloc, ledger>> /\ Go(w, "provisioning")
                /\ UNCHANGED slips
             ELSE /\ Slip("unfinished", ledger.posted = 0)
                  /\ Go(w, "acking")
                  /\ UNCHANGED <<row, alloc, ledger>>
    BY DEF ApplySucceeded
  <1>2. UNCHANGED <<sent, done, dispute, intent, card>>
    BY DEF ApplySucceeded, beyondWebhook, atStripe
  <1>3. worker[w].event.type = "succeeded" /\ worker[w].event \in sent
    BY Parts DEF ApplySucceeded, Applying, WorkersTyped, JobsInv
  <1>4. intent = "succeeded"
    BY <1>3 DEF StripeSays
  <1>5. ledger.posted \in {0, Amount} /\ card \in Nat /\ Amount > 0
    BY Numbers
  <1>6. PICK subject : subject = worker[w].event
    OBVIOUS
  <1>7. ledger'.posted = Amount => Effect(subject)'
    BY <1>3, <1>6 DEF Effect
  <1>8. CASE ~Succeeds(state)
    <2>1. State' = State
      BY <1>1, <1>8 DEF Found, Succeeds, Settling, State
    <2>2. slips \subseteq slips' /\ (slips' = {} => ledger'.posted = Amount)
      BY <1>1, <1>5, <1>8 DEF Slip
    <2>3. slips' = {} => \A event \in sent : Acked(event)' => Acked(event) \/ Effect(event)'
      BY <1>1, <1>2, <1>6, <1>8, <1>7, <2>2, GoAcks
    <2>4. UNCHANGED <<sent, dispute, card, ledger, intent>>
      BY <1>1, <1>2, <1>8
    <2> QED
      BY <2>1, <2>2, <2>3, <2>4, QuietFollows
  <1>9. CASE Succeeds(state)
    <2>1. State \in Early
      BY <1>1, <1>9, EarlyOrReceived, RowAssumption DEF Found, State, Succeeds, Early
    <2>2. State' = "succeeded"
      BY <1>1, <1>9, RowAssumption DEF Put, State, Typed, TypeOK
    <2>3. /\ ledger'.posted \in {ledger.posted, Amount}
          /\ ledger'.reversed = ledger.reversed /\ ledger'.reinstated = ledger.reinstated
      BY <1>1, <1>9 DEF Post, Typed, TypeOK
    <2>4. \A event \in sent : Acked(event)' => Acked(event) \/ Effect(event)'
      <3>1. CASE Go(w, "provisioning")
        BY <1>2, <3>1, GoAcks
      <3>2. CASE Go(w, "acking") /\ Post
        <4>1. ledger'.posted = Amount
          BY <1>5, <3>2 DEF Post, Typed, TypeOK
        <4> QED
          BY <1>2, <1>6, <1>7, <3>2, <4>1, GoAcks
      <3> QED
        BY <1>1, <1>9, <3>1, <3>2
    <2>5. UNCHANGED slips /\ State \notin {"refunded", "returned"}
      BY <1>1, <1>9, <2>1 DEF Early
    <2> QED
      BY <1>2, <1>4, <1>5, <2>2, <2>3, <2>4, <2>5, Follows
  <1> QED
    BY <1>8, <1>9

\* A request that goes on, or is over, and has no more to show than its event asks.
LEMMA WebhookQuiet ==
  ASSUME Typed, Caused, Heeded, NEW w \in Worker, slips \subseteq slips',
         UNCHANGED <<sent, done, dispute, intent, card, ledger>>,
         slips' = {} => State' = State \/ (State \in Early /\ State' \in Early),
         NEW subject, subject = worker[w].event,
         \/ \E step : Go(w, step) /\ (step = "acking" /\ slips' = {} => Effect(subject)')
         \/ \E job : worker' = [worker EXCEPT ![w] = job] /\ job.step # "acking"
  PROVE  Caused' /\ Heeded'
  <1>1. ASSUME slips' = {}, NEW event \in sent, Acked(event)' PROVE Acked(event) \/ Effect(event)'
    <2>1. ASSUME NEW step, Go(w, step), step = "acking" => Effect(subject)'
          PROVE  Acked(event) \/ Effect(event)'
      <3>1. Acked(event) \/ (step = "acking" /\ event = worker[w].event)
        BY <1>1, <2>1, GoAcks
      <3> QED
        BY <2>1, <3>1
    <2>2. ASSUME NEW job, worker' = [worker EXCEPT ![w] = job], job.step # "acking"
          PROVE  Acked(event)
      BY <1>1, <2>2, TakeAcks
    <2> QED
      BY <1>1, <2>1, <2>2
  <1> QED
    BY <1>1, QuietFollows

\* payment_intent.processing asks for nothing, and a decline for no more than that
\* what it writes over was early.
LEMMA EarlyFollows ==
  ASSUME Typed, Caused, Heeded, NEW w \in Worker, ApplyProcessing(w) \/ ApplyFailed(w)
  PROVE  Caused' /\ Heeded'
  <1>1. PICK subject : subject = worker[w].event
    OBVIOUS
  <1>2. UNCHANGED <<sent, done, dispute, intent, card, ledger>>
    BY DEF ApplyProcessing, ApplyFailed, beyondWebhook, atStripe, books
  <1>3. subject.type \in {"processing", "failed"} /\ \E step : Go(w, step)
    BY <1>1 DEF ApplyProcessing, ApplyFailed, Applying
  <1>4. Effect(subject)'
    BY <1>3 DEF Effect
  <1>5. slips \subseteq slips'
    BY DEF ApplyProcessing, ApplyFailed, Slip
  <1>6. ASSUME slips' = {} PROVE State' = State \/ (State \in Early /\ State' \in Early)
    <2>1. CASE ApplyProcessing(w)
      <3>1. PICK a \in Attempt, state \in Status :
              /\ Found(a, state) /\ linked' = a
              /\ IF state = "pending" THEN Put(a, "processing") ELSE UNCHANGED row
        BY <2>1 DEF ApplyProcessing
      <3>2. CASE state = "pending"
        <4>1. State \in Early
          BY <3>1, <3>2, RowAssumption DEF Found, State, Early
        <4>2. State' \in Early
          BY <3>1, <3>2, RowAssumption DEF Put, State, Early, Typed, TypeOK
        <4> QED
          BY <4>1, <4>2
      <3>3. CASE state # "pending"
        BY <3>1, <3>3 DEF Found, State
      <3> QED
        BY <3>2, <3>3
    <2>2. CASE ApplyFailed(w)
      <3>1. CASE State \in {"none", "succeeded"}
        BY <2>2, <3>1 DEF ApplyFailed, State
      <3>2. CASE State \notin {"none", "succeeded"}
        <4>1. State' = "failed"
          BY <2>2, <3>2, NewState DEF ApplyFailed
        <4>2. State \notin {"partially_refunded", "refunded", "returned"}
          BY <1>6, <2>2, <3>2 DEF ApplyFailed, Slip
        <4> QED
          BY <3>2, <4>1, <4>2, Numbers DEF Early, Status
      <3> QED
        BY <3>1, <3>2
    <2> QED
      BY <2>1, <2>2
  <1> QED
    BY <1>1, <1>2, <1>3, <1>4, <1>5, <1>6, WebhookQuiet

\* charge.refunded is acknowledged once the card refunds come to what it said: because
\* they did, because what was missing has been booked, or because all there is has.
LEMMA ShortfallFollows ==
  ASSUME Typed, StripeSays, AddsUp, HandlesInv, Caused, Heeded, NEW w \in Worker,
         ReadShortfall(w) \/ AllBooked(w)
  PROVE  Caused' /\ Heeded'
  <1>1. PICK subject : subject = worker[w].event
    OBVIOUS
  <1>2. /\ UNCHANGED <<sent, done, dispute, intent, card, ledger>> /\ State' = State
        /\ slips \subseteq slips'
    BY DEF ReadShortfall, AllBooked, Slip, beyondWebhook, atStripe, unsettled, books, State
  <1>3. /\ worker[w] \in JobRow /\ card \in Nat /\ Amount \in Nat
        /\ worker \in [Worker -> JobRow] /\ JobsInv
    BY Parts, Numbers DEF WorkersTyped
  <1>4. worker[w].cents \in Nat /\ subject.cents \in Nat /\ subject \in sent
    BY <1>1, <1>3 DEF JobRow, NoEvent, Event, JobsInv, ReadShortfall, AllBooked, Applying
  <1>5. subject.type = "refunded"
    BY <1>1 DEF ReadShortfall, AllBooked, Applying, HandlesInv, Handles
  <1>6. card >= subject.cents => Effect(subject)'
    BY <1>2, <1>3, <1>4, <1>5 DEF Effect
  <1>7. CASE AllBooked(w)
    <2>1. Go(w, "acking") /\ worker[w].step = "refunding"
      BY <1>7 DEF AllBooked
    <2>2. card + worker[w].cents >= subject.cents /\ worker[w].known \subseteq booked
      BY <1>1, <2>1 DEF HandlesInv, Handles
    <2>3. CASE worker[w].cents = 0
      <3>1. card >= subject.cents
        BY <1>3, <1>4, <2>2, <2>3
      <3> QED
        BY <1>1, <1>2, <1>6, <2>1, <3>1, WebhookQuiet
    <2>4. CASE Unknown(w) = {}
      <3>1. booked = DOMAIN refunds
        BY <2>2, <2>4, AmountsTyped DEF Unknown
      <3>2. card = sentBack
        BY <3>1, BookedAtMost
      <3>3. card >= subject.cents
        BY <1>3, <1>4, <1>5, <3>2 DEF StripeSays
      <3> QED
        BY <1>1, <1>2, <1>6, <2>1, <3>3, WebhookQuiet
    <2> QED
      BY <1>7, <2>3, <2>4 DEF AllBooked
  <1>8. CASE ReadShortfall(w)
    <2>1. CASE /\ linked = NoRow \/ Missing(subject.cents) = 0
               /\ Go(w, "acking") /\ Slip("unknown", linked = NoRow)
      <3>1. slips' = {} => card >= subject.cents
        BY <1>3, <1>4, <2>1 DEF Missing, Slip
      <3> QED
        BY <1>1, <1>2, <1>6, <2>1, <3>1, WebhookQuiet
    <2>2. CASE \E job : worker' = [worker EXCEPT ![w] = job] /\ job.step # "acking"
      BY <1>1, <1>2, <2>2, WebhookQuiet
    <2>3. \/ /\ linked = NoRow \/ Missing(subject.cents) = 0
             /\ Go(w, "acking") /\ Slip("unknown", linked = NoRow)
          \/ \E job : worker' = [worker EXCEPT ![w] = job] /\ job.step # "acking"
      <3> DEFINE job == [worker[w] EXCEPT !.step = "refunding",
                            !.cents = Missing(worker[w].event.cents), !.known = booked]
      <3>1. \/ /\ linked = NoRow \/ Missing(subject.cents) = 0
               /\ Go(w, "acking") /\ Slip("unknown", linked = NoRow)
            \/ worker' = [worker EXCEPT ![w] = job]
            \/ worker' = [worker EXCEPT ![w] = Waiting]
        BY <1>1, <1>3, <1>8 DEF ReadShortfall
      <3>2. job.step = "refunding" /\ Waiting.step = "idle"
        BY <1>3 DEF JobRow, Waiting, Job
      <3> HIDE DEF job
      <3> QED
        BY <3>1, <3>2
    <2> QED
      BY <2>1, <2>2, <2>3
  <1> QED
    BY <1>7, <1>8

\* A refund that Stripe lists is booked, and its event not acknowledged yet.
LEMMA BookRefundFollows ==
  ASSUME Typed, Caused, Heeded, NEW w \in Worker, BookRefund(w)
  PROVE  Caused' /\ Heeded'
  <1>1. PICK i \in DOMAIN refunds :
          /\ worker[w].step = "refunding"
          /\ IF i \in booked
             THEN /\ worker' = [worker EXCEPT ![w] = Waiting]
                  /\ UNCHANGED <<row, books, provisioned, slips>>
             ELSE /\ WriteRefund(refunds[i].amount)
                  /\ card' = card + refunds[i].amount
                  /\ worker' = [worker EXCEPT ![w].known = @ \cup {i},
                       ![w].cents = IF @ > refunds[i].amount THEN @ - refunds[i].amount ELSE 0]
    BY DEF BookRefund, Unknown
  <1>2. UNCHANGED <<linked, done, sent, dispute, intent>>
    BY DEF BookRefund, beyondWebhook, atStripe
  <1>3. CASE i \in booked
    <2>1. /\ worker' = [worker EXCEPT ![w] = Waiting] /\ Waiting.step # "acking"
          /\ UNCHANGED <<card, ledger, slips>> /\ State' = State
      BY <1>1, <1>2, <1>3 DEF Waiting, Job, books, State
    <2> QED
      BY <1>2, <2>1, WebhookQuiet
  <1>4. CASE i \notin booked
    <2>1. refunds[i].amount \in 1..Amount
      BY Parts, RefundAmounts
    <2>2. card' \in Nat /\ card' >= card
      BY <1>1, <1>4, <2>1, Numbers
    <2>3. \A event \in sent : Acked(event)' => Acked(event)
      <3>1. worker \in [Worker -> JobRow] /\ worker[w] \in JobRow
        BY Parts DEF WorkersTyped
      <3>2. worker'[w].step = "refunding" /\ \A v \in Worker \ {w} : worker'[v] = worker[v]
        BY <1>1, <1>4, <3>1 DEF JobRow
      <3> QED
        BY <1>2, <3>2 DEF Acked
    <2> QED
      BY <1>1, <1>2, <1>4, <2>1, <2>2, <2>3, RefundFollows
  <1> QED
    BY <1>3, <1>4

\* The entry of a move-in is what its event was waiting for.
LEMMA MoveInFollows ==
  ASSUME Typed, HandlesInv, Caused, Heeded, NEW w \in Worker, ProvisionMoveIn(w) \/ PostMoveIn(w)
  PROVE  Caused' /\ Heeded'
  <1>1. PICK subject : subject = worker[w].event
    OBVIOUS
  <1>2. UNCHANGED <<sent, done, dispute, intent, card, slips>> /\ State' = State
    BY DEF ProvisionMoveIn, PostMoveIn, beyondWebhook, atStripe, books, State
  <1>3. CASE ProvisionMoveIn(w)
    <2>1. subject.type \in {"succeeded", "processing"}
      BY <1>1, <1>3 DEF ProvisionMoveIn, HandlesInv, Handles
    <2>2. Go(w, IF subject.type = "succeeded" THEN "posting" ELSE "acking") /\ UNCHANGED ledger
      BY <1>1, <1>3 DEF ProvisionMoveIn, books
    <2>3. subject.type # "succeeded" => Effect(subject)'
      BY <2>1 DEF Effect
    <2> QED
      BY <1>1, <1>2, <2>2, <2>3, WebhookQuiet
  <1>4. CASE PostMoveIn(w)
    <2>1. subject.type = "succeeded" /\ Go(w, "acking") /\ Post
      BY <1>1, <1>4 DEF PostMoveIn, HandlesInv, Handles
    <2>2. /\ ledger'.posted = Amount
          /\ ledger'.reversed = ledger.reversed /\ ledger'.reinstated = ledger.reinstated
      BY <2>1, Numbers DEF Post, Typed, TypeOK
    <2>3. Effect(subject)'
      BY <2>1, <2>2 DEF Effect
    <2>4. \A event \in sent : Acked(event)' => Acked(event) \/ Effect(event)'
      BY <1>1, <1>2, <2>1, <2>3, GoAcks
    <2>5. card \in Nat /\ card' >= card /\ Received' = Received
      BY <1>2, Numbers DEF Received
    <2> QED
      BY <1>2, <2>2, <2>4, <2>5, Follows
  <1> QED
    BY <1>3, <1>4

\* A dispute that withdraws the money has all that is held returned, or finds nothing
\* to return.
LEMMA ReturnFollows ==
  ASSUME Typed, BooksInv, StripeSays, Caused, Heeded, NEW w \in Worker, ReturnPayment(w)
  PROVE  Caused' /\ Heeded'
  <1>1. PICK subject : subject = worker[w].event
    OBVIOUS
  <1>2. /\ UNCHANGED <<sent, done, dispute, intent, card, linked>>
        /\ Go(w, "acking")
    BY DEF ReturnPayment, beyondWebhook, atStripe
  <1>3. subject.type \in {"disputed", "lost"} /\ subject \in sent
    BY <1>1, Parts DEF ReturnPayment, Applying, WorkersTyped, JobsInv
  <1>4. Effect(subject)' <=> (Withdrawn' => State' \in {"refunded", "returned"})
    BY <1>3 DEF Effect
  <1>5. Withdrawn' = Withdrawn
    BY <1>2 DEF Withdrawn
  <1>6. CASE Returns(subject.cents)
    <2>1. /\ SetState("returned") /\ UNCHANGED slips
          /\ ledger' = [ledger EXCEPT !.reversed = Held]
      BY <1>1, <1>6 DEF ReturnPayment
    <2>2. /\ State \in {"succeeded", "partially_refunded"} /\ ledger.reversed = 0 /\ Held > 0
      BY <1>6 DEF Returns
    <2>3. State' = "returned"
      BY <1>2, <2>1, <2>2, NewState
    <2>4. /\ ledger'.posted = ledger.posted /\ ledger'.reversed > 0
          /\ ledger'.reinstated = ledger.reinstated
      BY <2>1, <2>2 DEF Typed, TypeOK
    <2>5. Told("disputed") \/ Told("lost")
      BY <1>3 DEF Told
    <2>6. ASSUME slips' = {}, NEW event \in sent, event.type = "won", Acked(event) PROVE FALSE
      <3>1. ~Told("disputed")
        BY <2>1, <2>2, <2>6 DEF Heeded, Effect
      <3>2. dispute = "won" /\ ~Told("lost")
        BY <2>6 DEF StripeSays, Told
      <3> QED
        BY <2>5, <3>1, <3>2
    <2>7. \A event \in sent : Acked(event)' => Acked(event) \/ Effect(event)'
      BY <1>1, <1>2, <1>4, <2>3, GoAcks
    <2>8. card \in Nat /\ card' >= card
      BY <1>2, Numbers
    <2>9. Received
      BY <2>2 DEF Received, Settling
    <2> QED
      BY <1>2, <2>1, <2>3, <2>4, <2>5, <2>6, <2>7, <2>8, <2>9, Follows
  <1>7. CASE ~Returns(subject.cents)
    <2>1. /\ UNCHANGED <<row, ledger, alloc>> /\ slips \subseteq slips' /\ State' = State
      BY <1>1, <1>2, <1>7 DEF ReturnPayment, State
    <2>2. ASSUME slips' = {}, Withdrawn PROVE State \in {"refunded", "returned"}
      <3>1. /\ State \in Settling \cup {"returned"}
            /\ State \in {"succeeded", "partially_refunded"} =>
                  ledger.posted # 0 /\ ~(Held > subject.cents)
        BY <1>1, <1>7, <2>2 DEF ReturnPayment, Settling
      <3>2. CASE State \in {"succeeded", "partially_refunded"}
        <4>1. LedgerInv
          BY <2>1, <2>2 DEF BooksInv, Ok
        <4>2. /\ ledger.posted = Amount /\ ledger.reinstated = ledger.reversed
              /\ ledger.refunded = Refunded /\ Refunded < Amount
          BY <3>1, <3>2, <4>1, Numbers DEF LedgerInv, Settling
        <4>3. ~Told("won")
          BY <2>2 DEF StripeSays, Told, Withdrawn
        <4>4. ledger.reversed = 0
          BY <4>2, <4>3, Numbers DEF Caused
        <4>5. Held = Amount - Refunded
          BY <4>2, Numbers DEF Held
        <4>6. subject.cents \in 0..Amount
          BY <1>3, Parts DEF StripeTyped
        <4>7. Returns(subject.cents)
          BY <3>1, <3>2, <4>2, <4>4, <4>5, <4>6, Numbers DEF Returns
        <4> QED
          BY <1>7, <4>7
      <3> QED
        BY <3>1, <3>2 DEF Settling
    <2>3. slips' = {} => Effect(subject)'
      BY <1>4, <1>5, <2>1, <2>2
    <2> QED
      BY <1>1, <1>2, <2>1, <2>3, WebhookQuiet
  <1> QED
    BY <1>6, <1>7

\* A dispute that was won gives back what was returned for it, unless nothing was.
LEMMA ReinstateFollows ==
  ASSUME Typed, BooksInv, StripeSays, HandlesInv, Caused, Heeded, NEW w \in Worker,
         ReadReturned(w) \/ Reinstate(w)
  PROVE  Caused' /\ Heeded'
  <1>1. PICK subject : subject = worker[w].event
    OBVIOUS
  <1>2. UNCHANGED <<sent, done, dispute, intent, card, linked>> /\ slips \subseteq slips'
    BY DEF ReadReturned, Reinstate, beyondWebhook, atStripe, unsettled, books, Slip
  <1>3. subject.type = "won" /\ subject \in sent
    BY <1>1, Parts
    DEF ReadReturned, Reinstate, Applying, HandlesInv, Handles, WorkersTyped, JobsInv
  <1>4. Told("won") /\ ~Withdrawn /\ (Told("disputed")' <=> Told("disputed"))
    BY <1>2, <1>3 DEF StripeSays, Told, Withdrawn
  <1>5. State' # "returned" /\ (ledger'.reversed > 0 \/ ~Told("disputed")') => Effect(subject)'
    BY <1>3 DEF Effect
  <1>6. CASE ReadReturned(w)
    <2>1. UNCHANGED ledger /\ State' = State
      BY <1>6 DEF ReadReturned, unsettled, books, State
    <2>2. CASE State = "returned"
      <3> DEFINE job == [worker[w] EXCEPT !.step = "reinstating", !.cents = Refunded]
      <3>1. worker \in [Worker -> JobRow] /\ worker[w] \in JobRow
        BY Parts DEF WorkersTyped
      <3>2. worker' = [worker EXCEPT ![w] = job]
        BY <1>6, <2>2, <3>1 DEF ReadReturned
      <3>3. job.step = "reinstating"
        BY <3>1 DEF JobRow
      <3> HIDE DEF job
      <3> QED
        BY <1>1, <1>2, <2>1, <3>2, <3>3, WebhookQuiet
    <2>3. CASE State # "returned"
      <3>1. Go(w, "acking") /\ Slip("misordered", \E event \in sent : event.type = "disputed")
        BY <1>6, <2>3 DEF ReadReturned
      <3>2. slips' = {} => ~Told("disputed")
        BY <3>1 DEF Slip, Told
      <3> QED
        BY <1>1, <1>2, <1>4, <1>5, <2>1, <2>3, <3>1, <3>2, WebhookQuiet
    <2> QED
      BY <2>2, <2>3
  <1>7. CASE Reinstate(w) /\ ~Reinstates
    <2>1. /\ worker' = [worker EXCEPT ![w] = Waiting] /\ Waiting.step # "acking"
          /\ UNCHANGED ledger /\ State' = State
      BY <1>2, <1>7 DEF Reinstate, Waiting, Job, State
    <2> QED
      BY <1>1, <1>2, <2>1, WebhookQuiet
  <1>8. CASE Reinstate(w) /\ Reinstates
    <2>1. /\ ledger' = [ledger EXCEPT !.reinstated = @ + ledger.reversed]
          /\ SetState(IF worker[w].cents > 0 THEN "partially_refunded" ELSE "succeeded")
          /\ Go(w, "acking") /\ UNCHANGED slips /\ worker[w].step = "reinstating"
      BY <1>8 DEF Reinstate
    <2>2. ledger'.posted = ledger.posted /\ ledger'.reversed = ledger.reversed
      BY <2>1 DEF Typed, TypeOK
    <2>3. ASSUME slips' = {}
          PROVE  State = "returned" /\ ledger.reversed > 0
                 /\ State' \in {"succeeded", "partially_refunded"}
      <3>1. LedgerInv /\ Pending(worker[w])
        BY <2>1, <2>3 DEF BooksInv, Ok, PendingInv
      <3>2. State = "returned" /\ ledger.reversed > 0
        BY <1>8, <2>1, <3>1 DEF Pending, Reinstates, LedgerInv
      <3> QED
        BY <1>2, <2>1, <3>2, NewState
    <2>4. slips' = {} => Effect(subject)'
      BY <1>5, <2>2, <2>3
    <2>5. slips' = {} => \A event \in sent : Acked(event)' => Acked(event) \/ Effect(event)'
      BY <1>1, <1>2, <2>1, <2>4, GoAcks
    <2>6. card \in Nat /\ card' >= card
      BY <1>2, Numbers
    <2>7. slips' = {} => Received /\ State' # "returned"
      BY <2>3 DEF Received
    <2> QED
      BY <1>2, <1>4, <2>1, <2>2, <2>5, <2>6, <2>7, Follows
  <1> QED
    BY <1>6, <1>7, <1>8

\* A delivery is taken up, fails, or is acknowledged, and an inquiry asks for nothing.
LEMMA PassFollows ==
  ASSUME Typed, Caused, Heeded, NEW w \in Worker,
         \/ \E event \in sent \ done : Deliver(w, event)
         \/ NoRowYet(w) \/ ProvisioningThrows(w) \/ WorkerDies(w)
         \/ ApplyInquiry(w) \/ Acknowledge(w)
  PROVE  Caused' /\ Heeded'
  <1>1. PICK subject : subject = worker[w].event
    OBVIOUS
  <1>2. CASE \/ \E event \in sent \ done : Deliver(w, event)
             \/ NoRowYet(w) \/ ProvisioningThrows(w) \/ WorkerDies(w)
    <2>1. \E job : worker' = [worker EXCEPT ![w] = job] /\ job.step # "acking"
      <3>1. Waiting.step = "idle" /\ \A event : Job("applying", event).step = "applying"
        BY DEF Waiting, Job
      <3>2. \/ worker' = [worker EXCEPT ![w] = Waiting]
            \/ \E event : worker' = [worker EXCEPT ![w] = Job("applying", event)]
        BY <1>2 DEF Deliver, NoRowYet, ProvisioningThrows, WorkerDies, Fail
      <3> QED
        BY <3>1, <3>2
    <2>2. /\ UNCHANGED <<sent, done, dispute, intent, card, ledger>> /\ slips \subseteq slips'
          /\ State' = State
      BY <1>2 DEF Deliver, NoRowYet, ProvisioningThrows, WorkerDies, Fail, beyondWebhook,
          atStripe, unsettled, books, State
    <2> QED
      BY <1>1, <2>1, <2>2, WebhookQuiet
  <1>3. CASE ApplyInquiry(w)
    <2>1. /\ UNCHANGED <<sent, done, dispute, intent, card, ledger>> /\ slips \subseteq slips'
          /\ State' = State /\ Go(w, "acking")
      BY <1>3 DEF ApplyInquiry, beyondWebhook, atStripe, unsettled, books, State
    <2>2. Effect(subject)'
      BY <1>1, <1>3 DEF ApplyInquiry, Applying, Effect
    <2> QED
      BY <1>1, <2>1, <2>2, WebhookQuiet
  <1>4. CASE Acknowledge(w)
    <2>1. /\ UNCHANGED <<sent, dispute, card, ledger>> /\ slips \subseteq slips'
          /\ State' = State /\ (intent = "succeeded" => intent' = "succeeded")
      BY <1>4 DEF Acknowledge, beyondWebhook, atStripe, unsettled, books, State
    <2>2. /\ worker' = [worker EXCEPT ![w] = Waiting] /\ Waiting.step # "acking"
          /\ worker[w].step = "acking" /\ done' = done \cup {worker[w].event}
      BY <1>4 DEF Acknowledge, Waiting, Job
    <2>3. \A event \in sent : Acked(event)' => Acked(event)
      BY <2>2, TakeAcks
    <2> QED
      BY <2>1, <2>3, QuietFollows
  <1> QED
    BY <1>2, <1>3, <1>4

\* A request in the webhook acknowledges only what it has done.
LEMMA WebhookFollows ==
  ASSUME Typed, BooksInv, MatchInv, NEW w \in Worker,
         \/ \E event \in sent \ done : Deliver(w, event)
         \/ Apply(w) \/ ProvisioningThrows(w) \/ WorkerDies(w)
  PROVE  StripeSays' /\ Caused' /\ Heeded'
  <1>1. StripeSays /\ AddsUp /\ HandlesInv /\ Caused /\ Heeded
    BY DEF MatchInv
  <1>2. UNCHANGED <<intent, dispute, sentBack, sent>>
    BY DEF Apply, Deliver, ProvisioningThrows, WorkerDies, Fail, NoRowYet, ApplySucceeded,
        ApplyProcessing, ApplyFailed, ProvisionMoveIn, PostMoveIn, ReadShortfall, BookRefund,
        AllBooked, ReturnPayment, ApplyInquiry, ReadReturned, Reinstate, Acknowledge,
        beyondWebhook, atStripe
  <1>3. StripeSays'
    BY <1>1, <1>2, SaysRests
  <1> QED
    BY <1>1, <1>3, PassFollows, SuccessFollows, EarlyFollows, ShortfallFollows,
       BookRefundFollows, MoveInFollows, ReturnFollows, ReinstateFollows DEF Apply

\* Every step keeps what Stripe, the books and the webhook's requests know of each
\* other.
LEMMA MatchKept ==
  ASSUME Typed, BooksInv, MatchInv, [Next]_vars
  PROVE  MatchInv'
  <1>1. StripeSays /\ AddsUp /\ HandlesInv /\ Caused /\ Heeded
    BY DEF MatchInv
  <1>2. ASSUME UNCHANGED <<booked, card, worker>> PROVE HandlesInv'
    <2>1. card' \in Nat /\ card <= card'
      BY <1>2, Numbers
    <2> QED
      BY <1>1, <1>2, <2>1, HandlesRests
  <1>3. CASE Stripe
    <2>1. UNCHANGED <<booked, card, worker>>
      BY <1>3 DEF Stripe, Decline, Accept, Pay, DashboardRefund, OpenDispute, CloseDispute,
          ours, books
    <2> QED
      BY <1>1, <1>2, <1>3, <2>1, StripeKeepsSays, StripeKeepsSums, StripeFollows DEF MatchInv
  <1>4. ASSUME NEW a \in Attempt, StartCharge(a) \/ Charge(a) \/ LoseCall(a) \/ ChargeDies(a)
        PROVE  MatchInv'
    <2>1. UNCHANGED <<refunds, sentBack, booked, card, worker, staff>>
      BY <1>4 DEF StartCharge, Charge, ReachStripe, GetAnswer, MarkFailed, CheckRecorded, Link,
          LoseCall, ChargeDies, beyondCharge, books
    <2> QED
      BY <1>1, <1>2, <1>4, <2>1, AddsRests, ChargeFollows DEF MatchInv
  <1>5. ASSUME NEW s \in Staff,
               ReadRefundable(s) \/ AskStripe(s) \/ RecordRefund(s) \/ StaffDies(s)
        PROVE  MatchInv'
    <2>1. UNCHANGED worker
      BY <1>5 DEF ReadRefundable, AskStripe, RecordRefund, StaffDies
    <2>2. booked \subseteq booked' /\ card' \in Nat /\ card <= card'
      <3>1. staff[s] \in AskRow
        BY Parts DEF StaffTyped
      <3>2. staff[s].amount \in Nat
        BY <3>1, Numbers DEF AskRow
      <3>3. \/ UNCHANGED <<booked, card>>
            \/ booked \subseteq booked' /\ card' = card + staff[s].amount
        BY <1>5 DEF ReadRefundable, AskStripe, RecordRefund, StaffDies, books
      <3> QED
        BY <3>2, <3>3, Numbers
    <2>3. HandlesInv'
      BY <1>1, <2>1, <2>2, HandlesRests
    <2> QED
      BY <1>1, <1>5, <2>3, StaffKeepsSays, StaffKeepsSums, StaffFollows DEF MatchInv
  <1>6. ASSUME NEW w \in Worker,
               \/ \E event \in sent \ done : Deliver(w, event)
               \/ Apply(w) \/ ProvisioningThrows(w) \/ WorkerDies(w)
        PROVE  MatchInv'
    BY <1>1, <1>6, WebhookKeepsHandles, WebhookFollows DEF MatchInv
  <1>7. CASE UNCHANGED vars
    <2>1. UNCHANGED <<intent, dispute, refunds, sentBack, sent, done, row, linked, booked, card,
                      ledger, worker, staff, slips>>
      BY <1>7 DEF vars, atStripe, books
    <2>2. State' = State /\ \A event : Acked(event)' <=> Acked(event)
      BY <2>1 DEF State, Acked
    <2>3. Caused' /\ Heeded'
      BY <1>1, <2>1, <2>2, QuietFollows
    <2> QED
      BY <1>1, <1>2, <2>1, <2>3, SaysRests, AddsRests DEF MatchInv
  <1> QED
    BY <1>3, <1>4, <1>5, <1>6, <1>7 DEF Next

\* With everything acknowledged and nobody at work, the effects add up to what
\* Stripe says.
LEMMA MatchEnds ==
  ASSUME Typed, BooksInv, MatchInv, Calm, slips = {}
  PROVE  Held = IF Withdrawn \/ intent # "succeeded" THEN 0 ELSE Amount - sentBack - cash
  <1>1. /\ LedgerInv /\ StripeSays /\ AddsUp /\ Caused
        /\ \A event \in sent : Effect(event)
    BY DEF BooksInv, Ok, MatchInv, Heeded, Acked, Calm
  <1>2. CASE intent # "succeeded"
    <2>1. State \notin Settling \cup {"returned"}
      BY <1>1, <1>2 DEF Caused, Received
    <2>2. Untouched /\ ledger.refunded = 0
      BY <1>1, <2>1 DEF LedgerInv, Untouched
    <2> QED
      BY <1>2, <2>2 DEF Held, Untouched
  <1>3. CASE Withdrawn
    <2>1. Told("disputed") \/ Told("lost")
      BY <1>1, <1>3 DEF StripeSays, Withdrawn
    <2>2. State \in {"refunded", "returned"}
      BY <1>1, <1>3, <2>1 DEF Told, Effect
    <2>3. Held = 0
      BY <1>1, <2>2, Numbers DEF LedgerInv, Settling, Held
    <2> QED
      BY <1>3, <2>3
  <1>4. CASE intent = "succeeded" /\ ~Withdrawn
    <2>1. ledger.posted = Amount
      BY <1>1, <1>4 DEF StripeSays, Effect, Event
    <2>2. State \in Settling \cup {"returned"}
      BY <1>1, <2>1, Numbers DEF LedgerInv, Untouched
    <2>3. State # "returned"
      <3>1. SUFFICES ASSUME State = "returned" PROVE FALSE
        OBVIOUS
      <3>2. Told("disputed") \/ Told("lost")
        BY <1>1, <3>1 DEF LedgerInv, Caused
      <3>3. dispute = "won"
        BY <1>1, <1>4, <3>2 DEF StripeSays, Told, Withdrawn
      <3> QED
        BY <1>1, <3>1, <3>3 DEF StripeSays, Told, Effect
    <2>4. Held = Amount - Refunded
      BY <1>1, <2>1, <2>2, <2>3, Numbers DEF LedgerInv, Held
    <2>5. card = sentBack
      <3>1. sentBack \in Nat
        BY Numbers DEF Typed, TypeOK
      <3>2. card <= sentBack
        BY <1>1, BookedAtMost
      <3>3. sentBack > 0 => card >= sentBack
        BY <1>1 DEF StripeSays, Effect, Event
      <3> QED
        BY <3>1, <3>2, <3>3, Numbers
    <2> QED
      BY <1>4, <2>4, <2>5, Numbers DEF Refunded
  <1> QED
    BY <1>2, <1>3, <1>4

-----------------------------------------------------------------------------
(* The theorems.                                                           *)

\* The inductive invariant holds throughout: the types, the own row of a call at
\* work, and the ledger that each state of the payment stands for.
THEOREM InvariantHolds == Spec => []IInv
  <1>1. Init => IInv
    <2> SUFFICES ASSUME Init PROVE Typed /\ BooksInv
      BY DEF IInv, Typed
    <2>1. State = "none" /\ Untouched /\ ledger.refunded = 0 /\ Held = 0
      BY DEF Init, State, Untouched, Refunded, Held
    <2>2. LedgerInv
      BY <2>1 DEF LedgerInv, Untouched, Settling
    <2>3. PendingInv
      BY DEF Init, PendingInv, Pending, Waiting, Job
    <2> QED
      BY <2>2, <2>3, InitTyped DEF BooksInv
  <1>2. IInv /\ [Next]_vars => IInv'
    <2> SUFFICES ASSUME Typed, BooksInv, [Next]_vars PROVE Typed' /\ BooksInv'
      BY DEF IInv, Typed
    <2>1. CASE Stripe
      BY <2>1, StripeKeepsTypes, StripeKeepsBooks
    <2>2. ASSUME NEW a \in Attempt, StartCharge(a) \/ Charge(a) \/ LoseCall(a) \/ ChargeDies(a)
          PROVE  Typed' /\ BooksInv'
      BY <2>2, ChargeKeepsTypes, ChargeKeepsBooks
    <2>3. ASSUME NEW s \in Staff,
                 ReadRefundable(s) \/ AskStripe(s) \/ RecordRefund(s) \/ StaffDies(s)
          PROVE  Typed' /\ BooksInv'
      BY <2>3, StaffKeepsTypes, StaffKeepsBooks
    <2>4. ASSUME NEW w \in Worker,
                 \/ \E event \in sent \ done : Deliver(w, event)
                 \/ Apply(w) \/ ProvisioningThrows(w) \/ WorkerDies(w)
          PROVE  Typed' /\ BooksInv'
      BY <2>4, WebhookKeepsTypes, WebhookKeepsBooks
    <2>5. CASE UNCHANGED vars
      <3>1. Typed'
        BY <2>5, Frame, PartsNext DEF vars, atStripe
      <3>2. BooksInv'
        BY <2>5, Unmoved DEF vars, books, State
      <3> QED
        BY <3>1, <3>2
    <2> QED
      BY <2>1, <2>2, <2>3, <2>4, <2>5 DEF Next
  <1> QED
    BY <1>1, <1>2, PTL DEF Spec

\* Every variable keeps its type; Stripe sends back no more than it took, and a
\* return is reinstated at most once.
THEOREM PaymentsTyped == Spec => []TypeOK
  <1>1. IInv => TypeOK
    BY DEF IInv
  <1> QED
    BY <1>1, InvariantHolds, PTL

\* Whatever the order, the repetition and the concurrency of the deliveries, the
\* row, the ledger and the allocations of a payment agree, unless a refund was
\* written over a state that had changed or before there was an entry, or a late
\* decline was.
THEOREM PaymentsBooksAgree == Spec => []BooksAgree
  <1>1. IInv => BooksAgree
    <2> SUFFICES ASSUME Typed, LedgerInv
                 PROVE  /\ alloc <= Held
                        /\ Held = IF State \in Settling /\ ledger.posted > 0
                                  THEN Amount - Refunded ELSE 0
                        /\ State = "succeeded" => Refunded = 0
                        /\ State = "partially_refunded" => Refunded \in 1..(Amount - 1)
                        /\ State = "refunded" => Refunded = Amount
                        /\ State \in Settling /\ kind = "invoice" => ledger.posted = Amount
      BY DEF IInv, Typed, BooksInv, Ok, BooksAgree
    <2>1. CASE State \in Settling /\ ledger.posted > 0
      <3>1. Held = Amount - Refunded
        BY <2>1, Numbers DEF LedgerInv, Held
      <3> QED
        BY <2>1, <3>1 DEF LedgerInv
    <2>2. CASE State = "returned"
      <3>1. Held = 0 /\ State \notin Settling
        BY <2>2, Numbers DEF LedgerInv, Held, Settling
      <3> QED
        BY <2>2, <3>1 DEF LedgerInv
    <2>3. CASE State \notin Settling \cup {"returned"} \/ ledger.posted = 0
      <3>1. Untouched /\ ledger.refunded = 0
        BY <2>3 DEF LedgerInv, Untouched
      <3>2. Held = 0
        BY <3>1 DEF Held, Untouched
      <3> QED
        BY <2>3, <3>1, <3>2 DEF LedgerInv, Untouched
    <2> QED
      BY <2>1, <2>2, <2>3, Numbers
  <1> QED
    BY <1>1, InvariantHolds, PTL

\* Nothing in the books is without a cause at Stripe, and without a slip no event is
\* acknowledged without its effect.
THEOREM MatchHolds == Spec => []MatchInv
  <1>1. Init => MatchInv
    BY MatchInit
  <1>2. IInv /\ MatchInv /\ [Next]_vars => MatchInv'
    BY MatchKept DEF IInv, Typed
  <1> QED
    BY <1>1, <1>2, InvariantHolds, PTL DEF Spec

\* When every event is acknowledged and nobody is at work, the leases hold exactly
\* what is left at Stripe less what went back in cash, unless one of the named slips
\* happened: there is no other way for the two to drift apart.
THEOREM PaymentsMatchStripe == Spec => []BooksMatchStripe
  <1>1. IInv /\ MatchInv => BooksMatchStripe
    BY MatchEnds DEF IInv, Typed, BooksMatchStripe
  <1> QED
    BY <1>1, InvariantHolds, MatchHolds, PTL
=============================================================================
