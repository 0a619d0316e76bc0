------------------------------- MODULE Rental -------------------------------
(***************************************************************************)
(* Renting a unit: reservations, checkout sessions with their baskets and  *)
(* locks, the unit status derived from both, provisioning, move-out and    *)
(* the sweeps that expire what has lapsed (apps/web/lib/checkout,          *)
(* lib/reservations/reserve.ts, lib/admin/units.ts, lib/admin/move-out.ts).*)
(* One facility; sizes are not told apart, so any unit on sale can be      *)
(* claimed by any renter.  Each session is one renter's and leases are     *)
(* named by the session they came from.                                    *)
(*                                                                         *)
(* A request is one step, because its writes are one transaction.  What    *)
(* spans several transactions is several steps: the sweeps and             *)
(* provisioning.                                                           *)
(***************************************************************************)
EXTENDS Naturals, Sequences, FiniteSets, SequencesExt

CONSTANTS Unit, NoUnit,
          Session, NoLease,
          Reservation, NoReservation,
          Steps,        \* Len(STEPS): details, ..., payment, provisioned
          MaxBasket,    \* bound: lines a basket grows to
          MaxCalls      \* bound: calls of provisionMoveIn per session

ASSUME NameAssumption == /\ NoUnit \notin Unit
                         /\ NoLease \notin Session
                         /\ NoReservation \notin Reservation
                         /\ Session \cap (Reservation \cup {NoReservation}) = {}
ASSUME StepsAssumption == Steps \in Nat /\ Steps >= 3
ASSUME BoundAssumption == MaxBasket \in Nat \ {0} /\ MaxCalls \in Nat \ {0}

VARIABLES operational,   \* Unit.operationalStatus, what staff intend
          status,        \* Unit.status, stored: the column every claim reads
          lease,         \* per unit: the session whose lease has not ended
          reservation,   \* the Reservation rows
          session,       \* the CheckoutSession rows with their basket lines
          charged,       \* sessions for which a charge exists, so that it may succeed
          calls,         \* how often provisionMoveIn has been called per session
          prov,          \* what a provisionMoveIn call in flight has read
          dueSessions,   \* the rows a running expireCheckoutSessions has read
          dueHolds,      \* the rows a running expireReservations has read
          revived        \* ghost: live checkouts and holds that had lapsed and were brought back

payVars == <<charged, calls, prov>>
sweepVars == <<dueSessions, dueHolds>>
vars == <<operational, status, lease, reservation, session, payVars, sweepVars, revived>>

Payment == Steps - 1

\* Mutant: one past the last step.
ProvisionedMutant == Steps + 1

Provisioned == Steps

\* "unrentable" behaves as "maintenance" does.
OperationalStatus == {"available", "maintenance"}
UnitStatus == OperationalStatus \cup {"reserved", "occupied"}

\* lapsed abstracts expiresAt and lockExpiresAt: have they passed?  It is kept
\* only of rows that are held or active, where alone it is looked at.
ReservationRow ==
    [state : {"none", "held", "converted", "cancelled", "expired"},
     unit : Unit \cup {NoUnit}, lapsed : BOOLEAN]

SessionRow ==
    [state : {"none", "active", "expired", "completed"},
     unit : Unit \cup {NoUnit}, basket : Seq(Unit), step : 1..Steps,
     lapsed : BOOLEAN, reservation : Reservation \cup {NoReservation}]

NoCall == [running |-> FALSE, units |-> <<>>]

TypeOK ==
    /\ operational \in [Unit -> OperationalStatus]
    /\ status \in [Unit -> UnitStatus]
    /\ lease \in [Unit -> Session \cup {NoLease}]
    /\ reservation \in [Reservation -> ReservationRow]
    /\ session \in [Session -> SessionRow]
    /\ charged \subseteq Session
    /\ calls \in [Session -> 0..MaxCalls]
    /\ prov \in [Session -> [running : BOOLEAN, units : Seq(Unit)]]
    /\ dueSessions \in [Session -> Unit \cup {NoUnit}]
    /\ dueHolds \subseteq Reservation
    /\ revived \subseteq Session \cup Reservation

Init ==
    /\ operational = [u \in Unit |-> "available"]
    /\ status = [u \in Unit |-> "available"]
    /\ lease = [u \in Unit |-> NoLease]
    /\ reservation = [r \in Reservation |->
            [state |-> "none", unit |-> NoUnit, lapsed |-> FALSE]]
    /\ session = [s \in Session |->
            [state |-> "none", unit |-> NoUnit, basket |-> <<>>, step |-> 1,
             lapsed |-> FALSE, reservation |-> NoReservation]]
    /\ charged = {}
    /\ calls = [s \in Session |-> 0]
    /\ prov = [s \in Session |-> NoCall]
    /\ dueSessions = [s \in Session |-> NoUnit]
    /\ dueHolds = {}
    /\ revived = {}

-----------------------------------------------------------------------------
(* What occupies a unit, and the status derived from it.                   *)

\* A hold counts until it expires, whether or not the sweep has run.
Held(u, rs) == \E r \in Reservation :
    rs[r].state = "held" /\ ~rs[r].lapsed /\ rs[r].unit = u

\* Mutant: the basket is not looked at, as before it was a basket.
LockedMutant(u, ss) == \E s \in Session :
    ss[s].state = "active" /\ ~ss[s].lapsed /\ ss[s].unit = u

\* So does a checkout's lock, on the session's own unit and on its basket's.
Locked(u, ss) == \E s \in Session :
    /\ ss[s].state = "active" /\ ~ss[s].lapsed
    /\ ss[s].unit = u \/ u \in ToSet(ss[s].basket)

DeriveUnitStatus(u, op, ls, rs, ss) ==
    IF ls[u] # NoLease THEN "occupied"
    ELSE IF Held(u, rs) \/ Locked(u, ss) THEN "reserved" ELSE op[u]

\* recomputeUnitStatus for each unit of a set, as the last write of a step.
Recompute(units) ==
    status' = [u \in Unit |->
        IF u \in units
        THEN DeriveUnitStatus(u, operational', lease', reservation', session')
        ELSE status[u]]

\* claimUnit takes a unit whose stored status is available.  Which one is not
\* determined: SKIP LOCKED passes over the units of concurrent claims.
Claimable(u) == status[u] = "available"

\* The partial unique indexes: one active session and one held reservation
\* may name a unit, lapsed or not.  A write against one of them throws.
FreeForSession(u, s) ==
    \A t \in Session \ {s} : ~(session[t].state = "active" /\ session[t].unit = u)
FreeForHold(u) == \A r \in Reservation : ~(reservation[r].state = "held" /\ reservation[r].unit = u)

Live(s) == session[s].state = "active" /\ ~session[s].lapsed

-----------------------------------------------------------------------------
(* Reservations.                                                           *)

CreateReservation(r, u) ==
    /\ reservation[r].state = "none"
    /\ Claimable(u)
    /\ FreeForHold(u)
    /\ reservation' = [reservation EXCEPT ![r] =
            [state |-> "held", unit |-> u, lapsed |-> FALSE]]
    /\ UNCHANGED <<operational, lease, session, payVars, sweepVars, revived>>
    /\ Recompute({u})

\* The clock passes expiresAt.  Nothing is written.
HoldLapses(r) ==
    /\ reservation[r].state = "held" /\ ~reservation[r].lapsed
    /\ reservation' = [reservation EXCEPT ![r].lapsed = TRUE]
    /\ revived' = revived \ {r}
    /\ UNCHANGED <<operational, status, lease, session, payVars, sweepVars>>

\* changeMoveInDate reads a live hold, asks for today's rate, and then writes
\* the new expiresAt without looking again: every hold was live once, so the
\* write may find it lapsed.  On a hold that is over it changes nothing here.
ChangeMoveInDate(r) ==
    /\ reservation[r].state = "held" /\ reservation[r].lapsed
    /\ reservation' = [reservation EXCEPT ![r].lapsed = FALSE]
    /\ revived' = revived \cup {r}
    /\ UNCHANGED <<operational, status, lease, session, payVars, sweepVars>>

\* A hold comes to an end.
EndHold(r, state) == [reservation EXCEPT ![r] = [@ EXCEPT !.state = state, !.lapsed = FALSE]]

CancelReservation(r) ==
    /\ reservation[r].state = "held"
    /\ reservation' = EndHold(r, "cancelled")
    /\ revived' = revived \ {r}
    /\ UNCHANGED <<operational, lease, session, payVars, sweepVars>>
    /\ Recompute({reservation[r].unit})

\* Mutant: the comparison with the clock is the wrong way round.
DueHoldMutant(r) == reservation[r].state = "held" /\ ~reservation[r].lapsed

DueHold(r) == reservation[r].state = "held" /\ reservation[r].lapsed

\* expireReservations reads the lapsed holds, then expires them one transaction
\* at a time, each looking again only at the hold's status.
ListLapsedHolds ==
    /\ dueHolds = {}
    /\ dueHolds' = {r \in Reservation : DueHold(r)}
    /\ dueHolds' # {}
    /\ UNCHANGED <<operational, status, lease, reservation, session, payVars, dueSessions, revived>>

StillHeld(r) == reservation[r].state = "held"

ExpireHold(r) ==
    /\ r \in dueHolds
    /\ dueHolds' = dueHolds \ {r}
    /\ reservation' = IF StillHeld(r) THEN EndHold(r, "expired") ELSE reservation
    /\ revived' = revived \ {r}
    /\ UNCHANGED <<operational, lease, session, payVars, dueSessions>>
    /\ Recompute(IF StillHeld(r) THEN {reservation[r].unit} ELSE {})

-----------------------------------------------------------------------------
(* Checkout sessions.                                                      *)

Start(s, u, r) ==
    /\ session[s].state = "none"
    /\ FreeForSession(u, s)
    /\ session' = [session EXCEPT ![s] =
            [state |-> "active", unit |-> u, basket |-> <<u>>, step |-> 1,
             lapsed |-> FALSE, reservation |-> r]]
    /\ UNCHANGED <<operational, lease, reservation, payVars, sweepVars, revived>>
    /\ Recompute({u})

\* startCheckout on a hold takes the hold's unit; its expiry is not checked.
StartFromReservation(s, r) == /\ reservation[r].state = "held"
                              /\ Start(s, reservation[r].unit, r)

StartCheckout(s, u) == Claimable(u) /\ Start(s, u, NoReservation)

\* The 30-minute lock runs out.  Nothing is written.
LockLapses(s) ==
    /\ Live(s)
    /\ session' = [session EXCEPT ![s].lapsed = TRUE]
    /\ revived' = revived \ {s}
    /\ UNCHANGED <<operational, status, lease, reservation, payVars, sweepVars>>

\* advance: never past the payment step, which provisioning alone leaves.
\* goBack moves to any earlier step.  The payment step's page calls
\* preparePayment: from then on the charge exists, whatever the renter does.
MoveToStep(s, step) ==
    /\ Live(s)
    /\ step \in 1..Payment
    /\ step = session[s].step + 1 \/ step < session[s].step
    /\ session' = [session EXCEPT ![s].step = step]
    /\ charged' = IF step = Payment THEN charged \cup {s} ELSE charged
    /\ UNCHANGED <<operational, status, lease, reservation, calls, prov, sweepVars, revived>>

AddUnitToBasket(s, u) ==
    /\ Live(s)
    /\ Claimable(u)
    /\ Len(session[s].basket) < MaxBasket
    /\ session' = [session EXCEPT ![s].basket = Append(@, u)]
    /\ UNCHANGED <<operational, lease, reservation, payVars, sweepVars, revived>>
    /\ Recompute({u})

\* removeUnitFromBasket recomputes after deleting the line and before the
\* session's own unit is repointed.
RemoveUnitFromBasket(s, i) ==
    LET row == session[s]
        removed == row.basket[i]
        remaining == RemoveAt(row.basket, i)
        lineDeleted == [session EXCEPT ![s] = [@ EXCEPT !.basket = remaining]]
        primary == IF removed = row.unit THEN remaining[1] ELSE row.unit IN
    /\ Live(s)
    /\ Len(row.basket) > 1
    /\ FreeForSession(primary, s)
    /\ session' = [session EXCEPT ![s] = [@ EXCEPT !.basket = remaining, !.unit = primary]]
    /\ status' = [status EXCEPT ![removed] =
            DeriveUnitStatus(removed, operational, lease, reservation, lineDeleted)]
    /\ UNCHANGED <<operational, lease, reservation, payVars, sweepVars, revived>>

\* Completed sessions are refused; active and expired ones are revived.
Revivable(s) == session[s].state \in {"active", "expired"}

\* relock moves the session to another unit and leaves its basket as it was.
Relock(s, u) ==
    /\ Revivable(s)
    /\ Claimable(u)
    /\ FreeForSession(u, s)
    /\ session' = [session EXCEPT ![s] =
            [@ EXCEPT !.unit = u, !.state = "active", !.lapsed = FALSE]]
    /\ revived' = IF Live(s) THEN revived ELSE revived \cup {s}
    /\ UNCHANGED <<operational, lease, reservation, payVars, sweepVars>>
    /\ Recompute({u, session[s].unit})

\* relockAtSize also moves the primary line, the one that names the session's
\* own unit, or the first when none does; it is refused from payment on.
PrimaryLine(s) ==
    LET named == {i \in DOMAIN session[s].basket : session[s].basket[i] = session[s].unit} IN
    IF named = {} THEN 1 ELSE CHOOSE i \in named : \A j \in named : i <= j

RelockAtSize(s, u) ==
    LET line == PrimaryLine(s)
        moved == ReplaceAt(session[s].basket, line, u) IN
    /\ Revivable(s)
    /\ session[s].step < Payment
    /\ Claimable(u)
    /\ FreeForSession(u, s)
    /\ session' = [session EXCEPT ![s] =
            [@ EXCEPT !.unit = u, !.basket = moved, !.state = "active", !.lapsed = FALSE]]
    /\ revived' = IF Live(s) THEN revived ELSE revived \cup {s}
    /\ UNCHANGED <<operational, lease, reservation, payVars, sweepVars>>
    /\ Recompute({u, session[s].basket[line]})

\* extendLock keeps a live lock live: with time abstracted to "lapsed" it
\* changes nothing that MoveToStep does not, and is not a step of its own.

\* expireCheckoutSessions reads the lapsed sessions with their units, then
\* expires them one transaction at a time, looking again only at the status
\* and recomputing only the session's own unit.
ListLapsedSessions ==
    /\ \A s \in Session : dueSessions[s] = NoUnit
    /\ \E s \in Session : session[s].state = "active" /\ session[s].lapsed
    /\ dueSessions' = [s \in Session |->
            IF session[s].state = "active" /\ session[s].lapsed THEN session[s].unit ELSE NoUnit]
    /\ UNCHANGED <<operational, status, lease, reservation, session, payVars, dueHolds, revived>>

\* Mutant: the status is not looked at again.
StillActiveMutant(s) == TRUE

StillActive(s) == session[s].state = "active"

ExpireSession(s) ==
    /\ dueSessions[s] # NoUnit
    /\ dueSessions' = [dueSessions EXCEPT ![s] = NoUnit]
    /\ session' = IF StillActive(s)
                THEN [session EXCEPT ![s] = [@ EXCEPT !.state = "expired", !.lapsed = FALSE]]
                ELSE session
    /\ revived' = revived \ {s}
    /\ UNCHANGED <<operational, lease, reservation, payVars, dueHolds>>
    /\ Recompute(IF StillActive(s) THEN {dueSessions[s]} ELSE {})

-----------------------------------------------------------------------------
(* Provisioning.                                                           *)

\* provisionMoveIn reads the session outside its transaction.  It is called
\* by the webhook when a charge settles or succeeds, or by the counter, however
\* late that is.  A lease this renter holds on any unit of the basket means
\* that there is nothing left to do.
StartProvisioning(s) ==
    /\ s \in charged
    /\ calls[s] < MaxCalls
    /\ ~prov[s].running
    /\ calls' = [calls EXCEPT ![s] = @ + 1]
    /\ prov' = IF \E u \in ToSet(session[s].basket) : lease[u] = s THEN prov
               ELSE [prov EXCEPT ![s] = [running |-> TRUE, units |-> session[s].basket]]
    /\ UNCHANGED <<operational, status, lease, reservation, session, charged, sweepVars, revived>>

\* lease_one_active_per_unit: one lease that has not ended per unit.
CanLease(units) == /\ \A u \in ToSet(units) : lease[u] = NoLease
                   /\ IsInjective(units)

\* Mutant: the hold is left as it is.
ConvertMutant(r) == reservation

\* A hold that led here is converted, if it is still held.
Convert(r) == [q \in Reservation |->
    IF q = r /\ reservation[q].state = "held"
    THEN [reservation[q] EXCEPT !.state = "converted", !.lapsed = FALSE] ELSE reservation[q]]

\* Mutant: the units are not recomputed once they are leased.
LeasedUnitsMutant(s) == {}

\* The units whose status the transaction derives anew.
LeasedUnits(s) == ToSet(prov[s].units)

\* The transaction: every unit of the basket that was read, or none.
CommitProvisioning(s) ==
    /\ prov[s].running
    /\ CanLease(prov[s].units)
    /\ lease' = [u \in Unit |-> IF u \in ToSet(prov[s].units) THEN s ELSE lease[u]]
    /\ reservation' = Convert(session[s].reservation)
    /\ session' = [session EXCEPT ![s] =
            [@ EXCEPT !.state = "completed", !.step = Provisioned, !.lapsed = FALSE]]
    /\ prov' = [prov EXCEPT ![s] = NoCall]
    /\ revived' = revived \ {s, session[s].reservation}
    /\ UNCHANGED <<operational, charged, calls, sweepVars>>
    /\ Recompute(LeasedUnits(s))

\* The transaction throws, at the index or anywhere else, or the process dies.
ProvisioningFails(s) ==
    /\ prov[s].running
    /\ prov' = [prov EXCEPT ![s] = NoCall]
    /\ UNCHANGED <<operational, status, lease, reservation, session, charged, calls, sweepVars, revived>>

-----------------------------------------------------------------------------
(* Staff.                                                                  *)

\* completeMoveOut.  Nobody has opened the door yet.
MoveOut(u) ==
    /\ lease[u] # NoLease
    /\ lease' = [lease EXCEPT ![u] = NoLease]
    /\ operational' = [operational EXCEPT ![u] = "maintenance"]
    /\ UNCHANGED <<reservation, session, payVars, sweepVars, revived>>
    /\ Recompute({u})

\* markUnitReadyToRent: somebody has opened the door.
MarkUnitReadyToRent(u) ==
    /\ operational' = [operational EXCEPT ![u] = "available"]
    /\ UNCHANGED <<lease, reservation, session, payVars, sweepVars, revived>>
    /\ Recompute({u})

\* setUnitOperationalStatus refuses a leased or held unit; a checkout lock does
\* not count.
SetOperationalStatus(u, target) ==
    /\ lease[u] = NoLease /\ ~Held(u, reservation)
    /\ operational' = [operational EXCEPT ![u] = target]
    /\ UNCHANGED <<lease, reservation, session, payVars, sweepVars, revived>>
    /\ Recompute({u})

-----------------------------------------------------------------------------
RenterOnHold(r) == \/ \E u \in Unit : CreateReservation(r, u)
                   \/ HoldLapses(r)
                   \/ ChangeMoveInDate(r)
                   \/ CancelReservation(r)

RenterInCheckout(s) ==
    \/ \E u \in Unit : \/ StartCheckout(s, u)
                       \/ AddUnitToBasket(s, u)
                       \/ Relock(s, u) \/ RelockAtSize(s, u)
    \/ \E r \in Reservation : StartFromReservation(s, r)
    \/ LockLapses(s)
    \/ \E step \in 1..Steps : MoveToStep(s, step)
    \/ \E i \in DOMAIN session[s].basket : RemoveUnitFromBasket(s, i)

Sweeps == \/ ListLapsedHolds \/ \E r \in Reservation : ExpireHold(r)
          \/ ListLapsedSessions \/ \E s \in Session : ExpireSession(s)

Provisioning(s) == StartProvisioning(s) \/ CommitProvisioning(s) \/ ProvisioningFails(s)

Staff(u) == \/ MoveOut(u) \/ MarkUnitReadyToRent(u)
            \/ \E target \in OperationalStatus : SetOperationalStatus(u, target)

Next == \/ \E r \in Reservation : RenterOnHold(r)
        \/ \E s \in Session : RenterInCheckout(s) \/ Provisioning(s)
        \/ \E u \in Unit : Staff(u)
        \/ Sweeps

Spec == Init /\ [][Next]_vars

\* The scheduler runs both sweeps day after day.  Nothing forces a renter, a
\* payment or staff to act.
Fairness == /\ WF_vars(ListLapsedHolds)
            /\ WF_vars(ListLapsedSessions)
            /\ \A r \in Reservation : WF_vars(ExpireHold(r))
            /\ \A s \in Session : WF_vars(ExpireSession(s))

FairSpec == Spec /\ Fairness

-----------------------------------------------------------------------------
Named(u, row) == row.unit = u \/ u \in ToSet(row.basket)

\* A unit is stored as occupied exactly while it has a lease, so no claim ever
\* hands out a unit somebody rents, whatever locks, holds and late payments did
\* to it before; and a unit on sale is one that staff mean to be on sale.
StatusIsSound ==
    \A u \in Unit :
        /\ status[u] = "occupied" <=> lease[u] # NoLease
        /\ status[u] = "available" => operational[u] = "available"

\* No overselling: a unit on sale is in nobody's live checkout, its basket
\* included, and under nobody's live hold, however locks lapse, baskets change
\* and sweeps come late.  Only what had lapsed and was brought back may find its
\* unit on sale: relock revives a basket, changeMoveInDate a hold, without
\* claiming the units again.
OnSaleIsFree ==
    \A u \in Unit : status[u] = "available" =>
        /\ \A r \in Reservation \ revived :
               ~(reservation[r].state = "held" /\ ~reservation[r].lapsed /\ reservation[r].unit = u)
        /\ \A s \in Session \ revived : ~(Live(s) /\ Named(u, session[s]))

\* What has come to an end stays ended: a paid checkout is not expired by a
\* sweep that read it before it was paid, nor revived, and a converted,
\* cancelled or expired hold is not expired or converted again.
OutcomesAreFinal ==
    [][/\ \A s \in Session :
            session[s].state = "completed" => session'[s].state = "completed"
       /\ \A r \in Reservation :
            reservation[r].state \in {"converted", "cancelled", "expired"} =>
                reservation'[r].state = reservation[r].state]_vars

\* A move-in ends the hold it started from: the hold can not expire later and
\* tell the tenant that the reservation is lost.
MoveInEndsHold ==
    \A s \in Session : \A r \in Reservation :
        session[s].state = "completed" /\ session[s].reservation = r =>
            reservation[r].state # "held"

\* The sweeps reach every lapsed hold and checkout, in whatever order they are
\* listed, paid, cancelled or revived meanwhile.
LapsedIsSwept ==
    /\ \A r \in Reservation :
        (reservation[r].state = "held" /\ reservation[r].lapsed) ~>
            ~(reservation[r].state = "held" /\ reservation[r].lapsed)
    /\ \A s \in Session :
        (session[s].state = "active" /\ session[s].lapsed) ~>
            ~(session[s].state = "active" /\ session[s].lapsed)

Wanted(u, rs, ss) == Held(u, rs) \/ Locked(u, ss)

\* The comments on removeUnitFromBasket ("straight back on the market") and on
\* expireCheckoutSessions ("returns their units"): a unit that a checkout lets go
\* of, taken out of the basket or swept with it, is not left reserved for nobody.
UnitsGoBack ==
    [][\A s \in Session, u \in Unit :
        /\ session[s].state = "active" /\ Named(u, session[s])
        /\ \/ session'[s].state = "expired"
           \/ Live(s) /\ Live(s)' /\ ~Named(u, session'[s])
        /\ ~Wanted(u, reservation', session')
        => status'[u] # "reserved"]_vars

\* The comment in removeUnitFromBasket: the session's own unit names the
\* primary unit, "what leaseId means on the way out"; so the move-in leases it.
PrimaryUnitIsLeased ==
    [][\A s \in Session :
        session[s].state # "completed" /\ session'[s].state = "completed" =>
            lease'[session'[s].unit] = s]_vars
=============================================================================
