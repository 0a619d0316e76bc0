---------------------------- MODULE RentalProofs ----------------------------
(***************************************************************************)
(* Proofs about Rental for any number of units, renters and reservations   *)
(* and for baskets of any length: the stored status of a unit never offers *)
(* a rented unit nor one in a live checkout or under a live hold (unless   *)
(* it was revived), a move-in ends its hold, and outcomes are final.       *)
(***************************************************************************)
EXTENDS Rental, SequenceTheorems, TLAPS

\* A hold names a unit, and a checkout that started from a hold started from
\* one that exists.
HoldsNameUnits == \A r \in Reservation :
    reservation[r].state = "held" => reservation[r].unit \in Unit

LinksExist == \A s \in Session : \A r \in Reservation :
    session[s].reservation = r => reservation[r].state # "none"

IInv == /\ TypeOK /\ HoldsNameUnits /\ LinksExist
        /\ StatusIsSound /\ OnSaleIsFree /\ MoveInEndsHold

\* A session's row has its type.
LEMMA RowTyped == ASSUME IInv, NEW s \in Session PROVE session[s] \in SessionRow
  BY DEF IInv, TypeOK

\* Who has a claim on a unit that the code honours: live, and never revived.
Protected(u) ==
    \/ \E r \in Reservation \ revived :
           reservation[r].state = "held" /\ ~reservation[r].lapsed /\ reservation[r].unit = u
    \/ \E s \in Session \ revived : Live(s) /\ Named(u, session[s])

\* OnSaleIsFree in terms of who is protected.
LEMMA OnSale == OnSaleIsFree <=> \A u \in Unit : status[u] = "available" => ~Protected(u)
  BY DEF OnSaleIsFree, Protected

-----------------------------------------------------------------------------
(* The derivation of a status, and baskets.                                *)

\* A derived status says occupied of a leased unit only, and available only of
\* a unit that staff offer, that nobody holds and that nobody has locked.
LEMMA DeriveSound ==
  ASSUME NEW u, NEW op, NEW ls, NEW rs, NEW ss, op[u] \in OperationalStatus
  PROVE  LET d == DeriveUnitStatus(u, op, ls, rs, ss) IN
         /\ d \in UnitStatus
         /\ d = "occupied" <=> ls[u] # NoLease
         /\ d = "available" => op[u] = "available" /\ ~Held(u, rs) /\ ~Locked(u, ss)
  BY DEF DeriveUnitStatus, UnitStatus, OperationalStatus

\* Baskets stay sequences of units, and lose or gain only the unit they say.
LEMMA AppendBasket ==
  ASSUME NEW b \in Seq(Unit), NEW u \in Unit
  PROVE  /\ Append(b, u) \in Seq(Unit)
         /\ ToSet(Append(b, u)) = ToSet(b) \cup {u}
  <1>1. /\ Append(b, u) \in Seq(Unit) /\ Len(Append(b, u)) = Len(b) + 1
        /\ \A i \in 1..Len(b) : Append(b, u)[i] = b[i]
        /\ Append(b, u)[Len(b) + 1] = u
    OBVIOUS
  <1>2. 1..(Len(b) + 1) = (1..Len(b)) \cup {Len(b) + 1}
    OBVIOUS
  <1> QED
    BY <1>1, <1>2 DEF ToSet

\* A basket that loses a line keeps only units it had; so removeUnitFromBasket
\* repoints the session to a unit of the basket.
LEMMA RemoveFromBasket ==
  ASSUME NEW b \in Seq(Unit), NEW i \in 1..Len(b)
  PROVE  /\ RemoveAt(b, i) \in Seq(Unit)
         /\ ToSet(RemoveAt(b, i)) \subseteq ToSet(b)
         /\ Len(b) > 1 => RemoveAt(b, i)[1] \in ToSet(b)
  <1> DEFINE head == SubSeq(b, 1, i - 1)
             tail == SubSeq(b, i + 1, Len(b))
  <1>1. /\ head \in Seq(Unit) /\ Len(head) = i - 1
        /\ \A j \in 1..(i - 1) : head[j] = b[j]
    OBVIOUS
  <1>2. /\ tail \in Seq(Unit) /\ Len(tail) = Len(b) - i
        /\ \A j \in 1..(Len(b) - i) : tail[j] = b[i + j]
    OBVIOUS
  <1> HIDE DEF head, tail
  <1>3. RemoveAt(b, i) = head \o tail
    BY DEF RemoveAt, head, tail
  <1>4. /\ head \o tail \in Seq(Unit) /\ Len(head \o tail) = Len(head) + Len(tail)
        /\ \A j \in 1..(Len(head) + Len(tail)) :
               (head \o tail)[j] = IF j <= Len(head) THEN head[j] ELSE tail[j - Len(head)]
    BY <1>1, <1>2, ConcatProperties
  <1>5. Len(b) \in Nat /\ i \in Nat
    BY LenProperties
  <1>6. \A j \in 1..(Len(b) - 1) : (head \o tail)[j] \in ToSet(b)
    <2> SUFFICES ASSUME NEW j \in 1..(Len(b) - 1) PROVE (head \o tail)[j] \in ToSet(b)
      OBVIOUS
    <2>1. PICK k \in 1..Len(b) : (head \o tail)[j] = b[k]
      <3>1. CASE j < i
        <4>1. (head \o tail)[j] = head[j]
          BY <1>1, <1>2, <1>4, <1>5, <3>1
        <4>2. head[j] = b[j] /\ j \in 1..Len(b)
          BY <1>1, <1>5, <3>1
        <4> QED
          BY <4>1, <4>2
      <3>2. CASE j >= i
        <4>1. (head \o tail)[j] = tail[j - (i - 1)]
          BY <1>1, <1>2, <1>4, <1>5, <3>2
        <4>2. tail[j - (i - 1)] = b[i + (j - (i - 1))]
          BY <1>2, <1>5, <3>2
        <4>3. i + (j - (i - 1)) \in 1..Len(b)
          BY <1>5, <3>2
        <4> QED
          BY <4>1, <4>2, <4>3
      <3>3. j < i \/ j >= i
        BY <1>5
      <3> QED
        BY <3>1, <3>2, <3>3, Zenon
    <2> QED
      BY <2>1, LenProperties DEF ToSet
  <1>7. DOMAIN (head \o tail) = 1..(Len(b) - 1)
    BY <1>1, <1>2, <1>4, <1>5, LenProperties
  <1>8. Len(b) > 1 => 1 \in 1..(Len(b) - 1)
    BY <1>5
  <1> QED
    BY <1>3, <1>4, <1>6, <1>7, <1>8 DEF ToSet

\* A basket whose line is moved gains at most the unit it is moved to.
LEMMA ReplaceInBasket ==
  ASSUME NEW b \in Seq(Unit), NEW u \in Unit, NEW i
  PROVE  /\ ReplaceAt(b, i, u) \in Seq(Unit)
         /\ ToSet(ReplaceAt(b, i, u)) \subseteq ToSet(b) \cup {u}
  <1> DEFINE r == ReplaceAt(b, i, u)
  <1>1. CASE i \in 1..Len(b)
    <2>1. /\ r \in Seq(Unit) /\ Len(r) = Len(b)
          /\ \A j \in 1..Len(b) : r[j] = IF j = i THEN u ELSE b[j]
      BY <1>1, ExceptSeq DEF ReplaceAt
    <2>2. DOMAIN r = 1..Len(b) /\ DOMAIN b = 1..Len(b)
      BY <2>1, LenProperties
    <2> HIDE DEF r
    <2>3. ToSet(r) \subseteq ToSet(b) \cup {u}
      BY <2>1, <2>2 DEF ToSet
    <2> QED
      BY <2>1, <2>3 DEF r
  <1>2. CASE i \notin 1..Len(b)
    <2>1. r = b
      BY <1>2, LenProperties DEF ReplaceAt
    <2> QED
      BY <2>1
  <1> QED
    BY <1>1, <1>2
-----------------------------------------------------------------------------
(* What every step keeps that writes statuses by recomputing them, and that *)
(* gives nobody a new claim on a unit it does not recompute.                *)

\* A step whose last write recomputes the units it concerns keeps the stored
\* status sound and sells no unit in use.
LEMMA Recomputed ==
  ASSUME NEW units, IInv, Recompute(units),
         operational' \in [Unit -> OperationalStatus],
         \A u \in Unit \ units : /\ lease'[u] = lease[u]
                                 /\ operational'[u] = operational[u]
                                 /\ Protected(u)' => Protected(u)
  PROVE  status' \in [Unit -> UnitStatus] /\ StatusIsSound' /\ OnSaleIsFree'
  <1> DEFINE d(u) == DeriveUnitStatus(u, operational', lease', reservation', session')
  <1>1. \A u \in Unit : status'[u] = IF u \in units THEN d(u) ELSE status[u]
    BY DEF Recompute
  <1>2. \A u \in Unit : /\ d(u) \in UnitStatus
                        /\ d(u) = "occupied" <=> lease'[u] # NoLease
                        /\ d(u) = "available" => /\ operational'[u] = "available"
                                                /\ ~Held(u, reservation') /\ ~Locked(u, session')
    BY DeriveSound
  <1>3. \A u \in Unit : Protected(u)' => Held(u, reservation') \/ Locked(u, session')
    BY DEF Protected, Held, Locked, Live, Named
  <1> HIDE DEF d
  <1>4. status' \in [Unit -> UnitStatus]
    BY <1>1, <1>2 DEF Recompute, IInv, TypeOK, d
  <1>5. StatusIsSound'
    BY <1>1, <1>2 DEF IInv, StatusIsSound
  <1>6. \A u \in Unit : status'[u] = "available" => ~Protected(u)'
    BY <1>1, <1>2, <1>3, OnSale DEF IInv
  <1>7. OnSaleIsFree'
    BY <1>6 DEF OnSaleIsFree, Protected
  <1> QED
    BY <1>4, <1>5, <1>7

\* So does one that writes no status and gives nobody a new claim.
LEMMA StatusKept ==
  ASSUME IInv, UNCHANGED <<operational, status, lease>>,
         \A u \in Unit : Protected(u)' => Protected(u)
  PROVE  StatusIsSound' /\ OnSaleIsFree'
  <1>1. StatusIsSound'
    BY DEF IInv, StatusIsSound
  <1>2. \A u \in Unit : status'[u] = "available" => ~Protected(u)'
    BY OnSale DEF IInv
  <1> QED
    BY <1>1, <1>2 DEF OnSaleIsFree, Protected

\* One session's row changes, or one reservation's.
LEMMA SessionStep ==
  ASSUME TypeOK, NEW s \in Session, NEW row \in SessionRow, session' = [session EXCEPT ![s] = row]
  PROVE  /\ session' \in [Session -> SessionRow]
         /\ session'[s] = row
         /\ \A t \in Session \ {s} : session'[t] = session[t]
  BY DEF TypeOK

\* The same for one reservation row.
LEMMA ReservationStep ==
  ASSUME TypeOK, NEW r \in Reservation, NEW row \in ReservationRow,
         reservation' = [reservation EXCEPT ![r] = row]
  PROVE  /\ reservation' \in [Reservation -> ReservationRow]
         /\ reservation'[r] = row
         /\ \A q \in Reservation \ {r} : reservation'[q] = reservation[q]
  BY DEF TypeOK

-----------------------------------------------------------------------------
\* The empty facility satisfies the inductive invariant.
LEMMA InitEstablishes == Init => IInv
  <1> SUFFICES ASSUME Init PROVE IInv
    OBVIOUS
  <1>1. TypeOK
    BY NameAssumption, StepsAssumption, BoundAssumption
       DEF Init, TypeOK, OperationalStatus, UnitStatus, ReservationRow, SessionRow, NoCall
  <1> QED
    BY <1>1, NameAssumption
       DEF Init, IInv, HoldsNameUnits, LinksExist, StatusIsSound, OnSaleIsFree, MoveInEndsHold, Live

(* Reservations.                                                           *)

\* createReservation keeps the inductive invariant.
LEMMA CreateReservationKeeps ==
  ASSUME IInv, NEW r \in Reservation, NEW u \in Unit, CreateReservation(r, u)
  PROVE  IInv'
  <1> DEFINE row == [state |-> "held", unit |-> u, lapsed |-> FALSE]
  <1>1. row \in ReservationRow
    BY DEF ReservationRow
  <1>2. reservation' = [reservation EXCEPT ![r] = row]
    BY DEF CreateReservation
  <1> HIDE DEF row
  <1>3. /\ reservation' \in [Reservation -> ReservationRow] /\ reservation'[r] = row
        /\ \A q \in Reservation \ {r} : reservation'[q] = reservation[q]
    BY <1>1, <1>2, ReservationStep DEF IInv
  <1>4. row.state = "held" /\ row.unit = u
    BY DEF row
  <1>5. \A v \in Unit \ {u} : Protected(v)' => Protected(v)
    BY <1>3, <1>4 DEF CreateReservation, Protected, Live
  <1>6. status' \in [Unit -> UnitStatus] /\ StatusIsSound' /\ OnSaleIsFree'
    BY <1>5, Recomputed DEF CreateReservation, IInv, TypeOK
  <1>7. TypeOK'
    BY <1>3, <1>6 DEF CreateReservation, payVars, sweepVars, IInv, TypeOK
  <1>8. HoldsNameUnits' /\ LinksExist' /\ MoveInEndsHold'
    BY <1>3, <1>4 DEF CreateReservation, IInv, HoldsNameUnits, LinksExist, MoveInEndsHold
  <1> QED
    BY <1>6, <1>7, <1>8 DEF IInv

\* HoldLapses and ChangeMoveInDate: only the clock, and what is revived.
LEMMA ClockOfHoldKeeps ==
  ASSUME IInv, NEW r \in Reservation, HoldLapses(r) \/ ChangeMoveInDate(r)
  PROVE  IInv'
  <1>1. PICK lapsed \in BOOLEAN :
          /\ reservation' = [reservation EXCEPT ![r].lapsed = lapsed]
          /\ lapsed \/ r \in revived'
    BY DEF HoldLapses, ChangeMoveInDate
  <1>2. UNCHANGED <<operational, status, lease, session, payVars, sweepVars>>
    BY DEF HoldLapses, ChangeMoveInDate
  <1>3. revived' = revived \ {r} \/ revived' = revived \cup {r}
    BY DEF HoldLapses, ChangeMoveInDate
  <1>4. /\ reservation' \in [Reservation -> ReservationRow]
        /\ reservation'[r].state = reservation[r].state /\ reservation'[r].unit = reservation[r].unit
        /\ reservation'[r].lapsed = lapsed
        /\ \A q \in Reservation \ {r} : reservation'[q] = reservation[q]
    BY <1>1 DEF IInv, TypeOK, ReservationRow
  <1>5. \A u \in Unit : Protected(u)' => Protected(u)
    BY <1>1, <1>2, <1>3, <1>4, NameAssumption DEF Protected, Live
  <1>6. StatusIsSound' /\ OnSaleIsFree'
    BY <1>2, <1>5, StatusKept
  <1>7. TypeOK'
    BY <1>2, <1>3, <1>4 DEF payVars, sweepVars, IInv, TypeOK
  <1>8. HoldsNameUnits' /\ LinksExist' /\ MoveInEndsHold'
    BY <1>2, <1>4 DEF IInv, HoldsNameUnits, LinksExist, MoveInEndsHold
  <1> QED
    BY <1>6, <1>7, <1>8 DEF IInv

\* Ending a hold changes its row only.
LEMMA EndHoldIs ==
  ASSUME IInv, NEW r \in Reservation, NEW state \in {"cancelled", "expired"},
         reservation' = EndHold(r, state)
  PROVE  /\ reservation' \in [Reservation -> ReservationRow]
         /\ reservation'[r].state = state
         /\ \A q \in Reservation \ {r} : reservation'[q] = reservation[q]
  <1> DEFINE row == [reservation[r] EXCEPT !.state = state, !.lapsed = FALSE]
  <1>1. row \in ReservationRow /\ row.state = state
    BY DEF IInv, TypeOK, ReservationRow
  <1>2. reservation' = [reservation EXCEPT ![r] = row]
    BY DEF EndHold
  <1> HIDE DEF row
  <1> QED
    BY <1>1, <1>2, ReservationStep DEF IInv

\* Ending a hold, by cancellation or by the sweep, keeps the invariant.
LEMMA EndOfHoldKeeps ==
  ASSUME IInv, NEW r \in Reservation, NEW state \in {"cancelled", "expired"},
         reservation' = EndHold(r, state), reservation[r].state = "held",
         Recompute({reservation[r].unit}), revived' = revived \ {r},
         dueHolds' \subseteq Reservation,
         UNCHANGED <<operational, lease, session, payVars, dueSessions>>
  PROVE  IInv'
  <1>1. /\ reservation' \in [Reservation -> ReservationRow] /\ reservation'[r].state = state
        /\ \A q \in Reservation \ {r} : reservation'[q] = reservation[q]
    BY EndHoldIs
  <1>2. \A u \in Unit : Protected(u)' => Protected(u)
    BY <1>1, NameAssumption DEF Protected, Live
  <1>3. status' \in [Unit -> UnitStatus] /\ StatusIsSound' /\ OnSaleIsFree'
    BY <1>2, Recomputed DEF IInv, TypeOK
  <1>4. TypeOK'
    BY <1>1, <1>3 DEF payVars, IInv, TypeOK
  <1>5. HoldsNameUnits' /\ LinksExist' /\ MoveInEndsHold'
    BY <1>1 DEF IInv, HoldsNameUnits, LinksExist, MoveInEndsHold
  <1> QED
    BY <1>3, <1>4, <1>5 DEF IInv

\* cancelHeldReservation and both parts of expireReservations keep it.
LEMMA HoldStepKeeps ==
  ASSUME IInv, NEW r \in Reservation, CancelReservation(r) \/ ExpireHold(r) \/ ListLapsedHolds
  PROVE  IInv'
  <1>1. CASE CancelReservation(r)
    BY <1>1, EndOfHoldKeeps DEF CancelReservation, sweepVars, IInv, TypeOK
  <1>2. CASE ExpireHold(r) /\ StillHeld(r)
    BY <1>2, EndOfHoldKeeps DEF ExpireHold, StillHeld, IInv, TypeOK
  <1>3. CASE ExpireHold(r) /\ ~StillHeld(r)
    <2>1. /\ Recompute({}) /\ revived' = revived \ {r} /\ dueHolds' \subseteq Reservation
          /\ UNCHANGED <<operational, lease, reservation, session, payVars, dueSessions>>
      BY <1>3 DEF ExpireHold, StillHeld, IInv, TypeOK
    <2>2. \A u \in Unit : Protected(u)' => Protected(u)
      BY <1>3, <2>1, NameAssumption DEF StillHeld, Protected, Live
    <2>3. status' \in [Unit -> UnitStatus] /\ StatusIsSound' /\ OnSaleIsFree'
      BY <2>1, <2>2, Recomputed DEF IInv, TypeOK
    <2> QED
      BY <2>1, <2>3 DEF payVars, IInv, TypeOK, HoldsNameUnits, LinksExist, MoveInEndsHold
  <1>4. CASE ListLapsedHolds
    <2>1. dueHolds' \subseteq Reservation
      BY <1>4 DEF ListLapsedHolds
    <2>2. StatusIsSound' /\ OnSaleIsFree'
      BY <1>4, StatusKept DEF ListLapsedHolds, Protected, Live
    <2> QED
      BY <1>4, <2>1, <2>2 DEF ListLapsedHolds, payVars, IInv, TypeOK, HoldsNameUnits,
                              LinksExist, MoveInEndsHold
  <1> QED
    BY <1>1, <1>2, <1>3, <1>4

-----------------------------------------------------------------------------
(* Checkout sessions.                                                      *)

\* What a step keeps that rewrites one session's row without completing it.
LEMMA RowKeeps ==
  ASSUME IInv, NEW s \in Session, NEW row \in SessionRow,
         session' = [session EXCEPT ![s] = row], row.state # "completed",
         \A r \in Reservation : row.reservation = r => reservation[r].state # "none",
         UNCHANGED <<operational, lease, reservation, calls, prov, dueHolds>>,
         charged' \subseteq Session, dueSessions' \in [Session -> Unit \cup {NoUnit}],
         revived' \subseteq revived \cup {s},
         status' \in [Unit -> UnitStatus], StatusIsSound', OnSaleIsFree'
  PROVE  IInv'
  <1>1. /\ session' \in [Session -> SessionRow] /\ session'[s] = row
        /\ \A t \in Session \ {s} : session'[t] = session[t]
    BY SessionStep DEF IInv
  <1>2. TypeOK'
    BY <1>1 DEF IInv, TypeOK
  <1>3. HoldsNameUnits' /\ LinksExist' /\ MoveInEndsHold'
    BY <1>1 DEF IInv, HoldsNameUnits, LinksExist, MoveInEndsHold
  <1> QED
    BY <1>2, <1>3 DEF IInv

\* The link of a row to its reservation, for a step that keeps it.
LEMMA LinkKept ==
  ASSUME IInv, NEW s \in Session
  PROVE  \A r \in Reservation : session[s].reservation = r => reservation[r].state # "none"
  BY DEF IInv, LinksExist

\* Who is protected, if one session's row changes: as before, or in that row.
LEMMA ProtectedByRow ==
  ASSUME IInv, NEW s \in Session, NEW row \in SessionRow,
         session' = [session EXCEPT ![s] = row],
         UNCHANGED reservation, revived' \ {s} = revived \ {s},
         NEW u \in Unit, Protected(u)'
  PROVE  \/ Protected(u)
         \/ s \notin revived' /\ row.state = "active" /\ ~row.lapsed /\ Named(u, row)
  <1>1. /\ session'[s] = row
        /\ \A t \in Session \ {s} : session'[t] = session[t]
    BY SessionStep DEF IInv
  <1>2. \A x : x # s => (x \in revived' <=> x \in revived)
    OBVIOUS
  <1>3. CASE \E r \in Reservation \ revived' :
               reservation[r].state = "held" /\ ~reservation[r].lapsed /\ reservation[r].unit = u
    BY <1>2, <1>3, NameAssumption DEF Protected
  <1>4. CASE \E t \in Session \ revived' : Live(t)' /\ Named(u, session'[t])
    <2>1. PICK t \in Session \ revived' : Live(t)' /\ Named(u, session'[t])
      BY <1>4
    <2>2. CASE t = s
      BY <1>1, <2>1, <2>2 DEF Live
    <2>3. CASE t # s
      BY <1>1, <1>2, <2>1, <2>3 DEF Live, Protected
    <2> QED
      BY <2>2, <2>3
  <1> QED
    BY <1>3, <1>4 DEF Protected

\* startCheckout keeps it, on a unit on sale and on a hold's unit.
LEMMA StartKeeps ==
  ASSUME IInv, NEW s \in Session, NEW u \in Unit, NEW r, Start(s, u, r),
         r = NoReservation \/ (r \in Reservation /\ reservation[r].state = "held")
  PROVE  IInv'
  <1> DEFINE row == [state |-> "active", unit |-> u, basket |-> <<u>>, step |-> 1,
                     lapsed |-> FALSE, reservation |-> r]
  <1>1. row \in SessionRow
    BY StepsAssumption DEF SessionRow
  <1>2. session' = [session EXCEPT ![s] = row]
    BY DEF Start
  <1>3. row.state # "completed" /\ row.reservation = r /\ \A v : Named(v, row) => v = u
    BY DEF Named, ToSet
  <1> HIDE DEF row
  <1>4. \A v \in Unit \ {u} : Protected(v)' => Protected(v)
    BY <1>1, <1>2, <1>3, ProtectedByRow DEF Start
  <1>5. status' \in [Unit -> UnitStatus] /\ StatusIsSound' /\ OnSaleIsFree'
    BY <1>4, Recomputed DEF Start, IInv, TypeOK
  <1>6. \A q \in Reservation : row.reservation = q => reservation[q].state # "none"
    BY <1>3, NameAssumption
  <1>7. charged' \subseteq Session /\ dueSessions' \in [Session -> Unit \cup {NoUnit}]
    BY DEF Start, payVars, sweepVars, IInv, TypeOK
  <1> QED
    BY <1>1, <1>2, <1>3, <1>5, <1>6, <1>7, RowKeeps DEF Start, payVars, sweepVars

\* A lock running out keeps it.
LEMMA LockLapsesKeeps ==
  ASSUME IInv, NEW s \in Session, LockLapses(s)
  PROVE  IInv'
  <1> DEFINE row == [session[s] EXCEPT !.lapsed = TRUE]
  <1>1. /\ row \in SessionRow /\ row.state # "completed" /\ row.lapsed
        /\ row.reservation = session[s].reservation
    BY DEF LockLapses, Live, IInv, TypeOK, SessionRow
  <1>2. session' = [session EXCEPT ![s] = row]
    BY DEF LockLapses
  <1> HIDE DEF row
  <1>3. \A u \in Unit : Protected(u)' => Protected(u)
    BY <1>1, <1>2, ProtectedByRow DEF LockLapses
  <1>4. StatusIsSound' /\ OnSaleIsFree'
    BY <1>3, StatusKept DEF LockLapses
  <1>5. \A r \in Reservation : row.reservation = r => reservation[r].state # "none"
    BY <1>1, LinkKept
  <1>6. /\ charged' \subseteq Session /\ dueSessions' \in [Session -> Unit \cup {NoUnit}]
        /\ status' \in [Unit -> UnitStatus]
    BY DEF LockLapses, payVars, sweepVars, IInv, TypeOK
  <1> QED
    BY <1>1, <1>2, <1>4, <1>5, <1>6, RowKeeps DEF LockLapses, payVars, sweepVars

\* advance and goBack keep it.
LEMMA MoveToStepKeeps ==
  ASSUME IInv, NEW s \in Session, NEW step \in 1..Steps, MoveToStep(s, step)
  PROVE  IInv'
  <1> DEFINE row == [session[s] EXCEPT !.step = step]
  <1>1. /\ row \in SessionRow /\ row.state = "active" /\ row.state = session[s].state
        /\ row.lapsed = session[s].lapsed /\ row.reservation = session[s].reservation
        /\ row.unit = session[s].unit /\ row.basket = session[s].basket
    BY DEF MoveToStep, Live, IInv, TypeOK, SessionRow
  <1>2. session' = [session EXCEPT ![s] = row]
    BY DEF MoveToStep
  <1> HIDE DEF row
  <1>3. \A u \in Unit : Protected(u)' => Protected(u)
    BY <1>1, <1>2, ProtectedByRow DEF MoveToStep, Protected, Live, Named
  <1>4. StatusIsSound' /\ OnSaleIsFree'
    BY <1>3, StatusKept DEF MoveToStep
  <1>5. \A r \in Reservation : row.reservation = r => reservation[r].state # "none"
    BY <1>1, LinkKept
  <1>6. /\ charged' \subseteq Session /\ dueSessions' \in [Session -> Unit \cup {NoUnit}]
        /\ status' \in [Unit -> UnitStatus]
    BY DEF MoveToStep, sweepVars, IInv, TypeOK
  <1>7. "active" # "completed"
    OBVIOUS
  <1> QED
    BY <1>1, <1>2, <1>4, <1>5, <1>6, <1>7, RowKeeps DEF MoveToStep, sweepVars

\* addUnitToBasket keeps it.
LEMMA AddUnitKeeps ==
  ASSUME IInv, NEW s \in Session, NEW u \in Unit, AddUnitToBasket(s, u)
  PROVE  IInv'
  <1> DEFINE basket == Append(session[s].basket, u)
             row == [session[s] EXCEPT !.basket = basket]
  <1>1. session[s].basket \in Seq(Unit)
    BY DEF IInv, TypeOK, SessionRow
  <1>2. basket \in Seq(Unit) /\ ToSet(basket) = ToSet(session[s].basket) \cup {u}
    BY <1>1, AppendBasket
  <1> HIDE DEF basket
  <1>3. /\ row \in SessionRow /\ row.state = "active" /\ row.state = session[s].state
        /\ row.lapsed = session[s].lapsed /\ row.reservation = session[s].reservation
        /\ row.unit = session[s].unit /\ row.basket = basket
    BY <1>2 DEF AddUnitToBasket, Live, IInv, TypeOK, SessionRow
  <1>4. session' = [session EXCEPT ![s] = row]
    BY DEF AddUnitToBasket, basket
  <1> HIDE DEF row
  <1>5. \A v \in Unit \ {u} : Protected(v)' => Protected(v)
    BY <1>2, <1>3, <1>4, ProtectedByRow DEF AddUnitToBasket, Protected, Live, Named
  <1>6. status' \in [Unit -> UnitStatus] /\ StatusIsSound' /\ OnSaleIsFree'
    BY <1>5, Recomputed DEF AddUnitToBasket, IInv, TypeOK
  <1>7. \A r \in Reservation : row.reservation = r => reservation[r].state # "none"
    BY <1>3, LinkKept
  <1>8. charged' \subseteq Session /\ dueSessions' \in [Session -> Unit \cup {NoUnit}]
    BY DEF AddUnitToBasket, payVars, sweepVars, IInv, TypeOK
  <1>9. row.state # "completed"
    BY <1>3
  <1> QED
    BY <1>3, <1>4, <1>6, <1>7, <1>8, <1>9, RowKeeps DEF AddUnitToBasket, payVars, sweepVars

\* The removed unit is derived as if the session still named it when it was the
\* session's own; so it does not go on sale while the new row names it.
LEMMA RemoveUnitKeeps ==
  ASSUME IInv, NEW s \in Session, NEW i \in DOMAIN session[s].basket, RemoveUnitFromBasket(s, i)
  PROVE  IInv'
  <1> DEFINE old == session[s]
             removed == old.basket[i]
             remaining == RemoveAt(old.basket, i)
             primary == IF removed = old.unit THEN remaining[1] ELSE old.unit
             deleted == [old EXCEPT !.basket = remaining]
             row == [old EXCEPT !.basket = remaining, !.unit = primary]
             lineDeleted == [session EXCEPT ![s] = deleted]
  <1>1. old \in SessionRow /\ old.basket \in Seq(Unit) /\ i \in 1..Len(old.basket)
    BY DEF IInv, TypeOK, SessionRow
  <1>2. /\ remaining \in Seq(Unit) /\ ToSet(remaining) \subseteq ToSet(old.basket)
        /\ remaining[1] \in ToSet(old.basket)
    BY <1>1, RemoveFromBasket DEF RemoveUnitFromBasket
  <1>3. removed \in Unit /\ ToSet(old.basket) \subseteq Unit
    BY <1>1 DEF ToSet
  <1>4. /\ session' = [session EXCEPT ![s] = row]
        /\ status' = [status EXCEPT ![removed] =
               DeriveUnitStatus(removed, operational, lease, reservation, lineDeleted)]
        /\ Live(s)
    BY DEF RemoveUnitFromBasket
  <1> HIDE DEF removed, remaining
  <1>5. row \in SessionRow /\ deleted \in SessionRow
    BY <1>1, <1>2, <1>3 DEF SessionRow
  <1>6. /\ row.state = "active" /\ deleted.state = "active" /\ ~row.lapsed /\ ~deleted.lapsed
        /\ row.unit = primary /\ deleted.unit = old.unit
        /\ row.basket = remaining /\ deleted.basket = remaining
        /\ row.reservation = old.reservation
    BY <1>1, <1>4 DEF Live, SessionRow
  <1>7. primary = old.unit \/ primary \in ToSet(old.basket)
    BY <1>2
  <1>8. removed = primary => removed = old.unit
    OBVIOUS
  <1>9. lineDeleted[s] = deleted /\ \A t \in Session \ {s} : lineDeleted[t] = session[t]
    BY DEF IInv, TypeOK
  <1> HIDE DEF row, deleted, primary, lineDeleted
  <1>10. UNCHANGED <<operational, lease, reservation, payVars, sweepVars, revived>>
    BY DEF RemoveUnitFromBasket
  <1>11. \A v \in Unit : Protected(v)' => Protected(v)
    BY <1>2, <1>4, <1>5, <1>6, <1>7, <1>10, ProtectedByRow DEF Protected, Named
  <1>12. session'[s] = row /\ \A t \in Session \ {s} : session'[t] = session[t]
    BY <1>4, <1>5, SessionStep DEF IInv
  <1>13. PICK gone \in Unit : /\ gone = removed
                              /\ Protected(gone)' => Held(gone, reservation) \/ Locked(gone, lineDeleted)
    <2>1. PICK gone \in Unit : gone = removed
      BY <1>3
    <2>2. ASSUME Protected(gone)'
          PROVE  Held(gone, reservation) \/ Locked(gone, lineDeleted)
      <3>1. CASE \E r \in Reservation \ revived' : reservation'[r].state = "held"
                     /\ ~reservation'[r].lapsed /\ reservation'[r].unit = gone
        BY <1>10, <3>1 DEF Held
      <3>2. CASE \E t \in Session \ revived' : Live(t)' /\ Named(gone, session'[t])
        <4>1. PICK t \in Session \ revived' : Live(t)' /\ Named(gone, session'[t])
          BY <3>2
        <4>2. CASE t = s
          <5>1. gone = primary \/ gone \in ToSet(remaining)
            BY <1>6, <1>12, <4>1, <4>2 DEF Named
          <5>2. gone = old.unit \/ gone \in ToSet(remaining)
            BY <1>8, <2>1, <5>1
          <5> QED
            BY <1>6, <1>9, <5>2 DEF Locked
        <4>3. CASE t # s
          BY <1>9, <1>12, <4>1, <4>3 DEF Locked, Live, Named
        <4> QED
          BY <4>2, <4>3
      <3> QED
        BY <2>2, <3>1, <3>2 DEF Protected
    <2> QED
      BY <2>1, <2>2
  <1>14. LET d == DeriveUnitStatus(removed, operational, lease, reservation, lineDeleted) IN
         /\ d \in UnitStatus
         /\ d = "occupied" <=> lease[removed] # NoLease
         /\ d = "available" => /\ operational[removed] = "available" /\ ~Held(removed, reservation)
                               /\ ~Locked(removed, lineDeleted)
    BY <1>3, DeriveSound DEF IInv, TypeOK
  <1>15. status' \in [Unit -> UnitStatus]
    BY <1>4, <1>14 DEF IInv, TypeOK
  <1>16. StatusIsSound'
    BY <1>3, <1>4, <1>10, <1>14 DEF IInv, TypeOK, StatusIsSound
  <1>17. \A v \in Unit : status'[v] = "available" => ~Protected(v)'
    <2>1. status'[gone] = "available" => ~Protected(gone)'
      BY <1>4, <1>13, <1>14 DEF IInv, TypeOK
    <2>2. \A v \in Unit \ {gone} : status'[v] = status[v]
      BY <1>4, <1>13 DEF IInv, TypeOK
    <2>3. \A v \in Unit : status[v] = "available" => ~Protected(v)
      BY OnSale DEF IInv
    <2> QED
      BY <1>11, <2>1, <2>2, <2>3
  <1>18. OnSaleIsFree'
    BY <1>17 DEF OnSaleIsFree, Protected
  <1>19. \A r \in Reservation : row.reservation = r => reservation[r].state # "none"
    BY <1>6, LinkKept
  <1>20. /\ charged' \subseteq Session /\ dueSessions' \in [Session -> Unit \cup {NoUnit}]
         /\ UNCHANGED <<calls, prov, dueHolds>> /\ revived' \subseteq revived \cup {s}
    BY <1>10 DEF payVars, sweepVars, IInv, TypeOK
  <1>21. row.state # "completed"
    BY <1>6
  <1> QED
    BY <1>4, <1>5, <1>10, <1>15, <1>16, <1>18, <1>19, <1>20, <1>21, RowKeeps

\* Relock and RelockAtSize: a checkout that had lapsed is exempt from here on;
\* one that had not keeps the claims it had, and gains the unit it moves to.
LEMMA RelockedKeeps ==
  ASSUME IInv, NEW s \in Session, NEW u \in Unit, NEW row \in SessionRow, NEW left,
         session' = [session EXCEPT ![s] = row],
         row.state = "active", row.unit = u, row.reservation = session[s].reservation,
         ToSet(row.basket) \subseteq ToSet(session[s].basket) \cup {u},
         revived' = IF Live(s) THEN revived ELSE revived \cup {s},
         UNCHANGED <<operational, lease, reservation, payVars, sweepVars>>,
         Recompute({u, left})
  PROVE  IInv'
  <1>1. \A v \in Unit \ {u, left} : Protected(v)' => Protected(v)
    BY ProtectedByRow DEF Protected, Named
  <1>2. status' \in [Unit -> UnitStatus] /\ StatusIsSound' /\ OnSaleIsFree'
    BY <1>1, Recomputed DEF IInv, TypeOK
  <1>3. \A r \in Reservation : row.reservation = r => reservation[r].state # "none"
    BY LinkKept
  <1>4. /\ charged' \subseteq Session /\ dueSessions' \in [Session -> Unit \cup {NoUnit}]
        /\ UNCHANGED <<calls, prov, dueHolds>> /\ revived' \subseteq revived \cup {s}
        /\ row.state # "completed"
    BY DEF payVars, sweepVars, IInv, TypeOK
  <1> QED
    BY <1>2, <1>3, <1>4, RowKeeps

\* relock keeps it.
LEMMA RelockKeeps ==
  ASSUME IInv, NEW s \in Session, NEW u \in Unit, Relock(s, u)
  PROVE  IInv'
  <1> DEFINE row == [session[s] EXCEPT !.unit = u, !.state = "active", !.lapsed = FALSE]
  <1>1. /\ row \in SessionRow /\ row.state = "active" /\ row.unit = u
        /\ row.reservation = session[s].reservation /\ row.basket = session[s].basket
    BY RowTyped DEF SessionRow
  <1>2. session' = [session EXCEPT ![s] = row]
    BY DEF Relock
  <1> HIDE DEF row
  <1> QED
    BY <1>1, <1>2, RelockedKeeps DEF Relock

\* relockAtSize keeps it.
LEMMA RelockAtSizeKeeps ==
  ASSUME IInv, NEW s \in Session, NEW u \in Unit, RelockAtSize(s, u)
  PROVE  IInv'
  <1> DEFINE line == PrimaryLine(s)
             basket == ReplaceAt(session[s].basket, line, u)
             row == [session[s] EXCEPT !.unit = u, !.basket = basket,
                                       !.state = "active", !.lapsed = FALSE]
  <1>1. session[s].basket \in Seq(Unit)
    BY DEF IInv, TypeOK, SessionRow
  <1> HIDE DEF line
  <1>2. basket \in Seq(Unit) /\ ToSet(basket) \subseteq ToSet(session[s].basket) \cup {u}
    BY <1>1, ReplaceInBasket
  <1>3. /\ session' = [session EXCEPT ![s] = row]
        /\ Recompute({u, session[s].basket[line]})
    BY DEF RelockAtSize, line
  <1> HIDE DEF basket
  <1>4. /\ row \in SessionRow /\ row.state = "active" /\ row.unit = u
        /\ row.reservation = session[s].reservation /\ row.basket = basket
    BY <1>2 DEF IInv, TypeOK, SessionRow
  <1> HIDE DEF row
  <1> QED
    BY <1>2, <1>3, <1>4, RelockedKeeps DEF RelockAtSize

\* Both parts of expireCheckoutSessions keep it.
LEMMA SweepStepKeeps ==
  ASSUME IInv, NEW s \in Session, ListLapsedSessions \/ ExpireSession(s)
  PROVE  IInv'
  <1>1. CASE ListLapsedSessions
    <2>1. dueSessions' \in [Session -> Unit \cup {NoUnit}]
      BY <1>1 DEF ListLapsedSessions, IInv, TypeOK, SessionRow
    <2>2. StatusIsSound' /\ OnSaleIsFree'
      BY <1>1, StatusKept DEF ListLapsedSessions, Protected, Live
    <2> QED
      BY <1>1, <2>1, <2>2 DEF ListLapsedSessions, payVars, IInv, TypeOK, HoldsNameUnits,
                              LinksExist, MoveInEndsHold
  <1>2. CASE ExpireSession(s)
    <2>1. /\ charged' \subseteq Session /\ dueSessions' \in [Session -> Unit \cup {NoUnit}]
          /\ revived' = revived \ {s}
          /\ UNCHANGED <<operational, lease, reservation, calls, prov, dueHolds>>
      BY <1>2 DEF ExpireSession, payVars, IInv, TypeOK
    <2>2. CASE StillActive(s)
      <3> DEFINE row == [session[s] EXCEPT !.state = "expired", !.lapsed = FALSE]
      <3>1. /\ row \in SessionRow /\ row.state = "expired"
            /\ row.reservation = session[s].reservation
        BY RowTyped DEF SessionRow
      <3>2. session' = [session EXCEPT ![s] = row]
        BY <1>2, <2>2 DEF ExpireSession
      <3> HIDE DEF row
      <3>3. \A u \in Unit : Protected(u)' => Protected(u)
        BY <2>1, <3>1, <3>2, ProtectedByRow
      <3>4. status' \in [Unit -> UnitStatus] /\ StatusIsSound' /\ OnSaleIsFree'
        BY <1>2, <2>1, <2>2, <3>3, Recomputed DEF ExpireSession, IInv, TypeOK
      <3>5. \A r \in Reservation : row.reservation = r => reservation[r].state # "none"
        BY <3>1, LinkKept
      <3>6. row.state # "completed"
        BY <3>1
      <3> QED
        BY <2>1, <3>1, <3>2, <3>4, <3>5, <3>6, RowKeeps
    <2>3. CASE ~StillActive(s)
      <3>1. session' = session /\ Recompute({})
        BY <1>2, <2>3 DEF ExpireSession
      <3>2. \A u \in Unit : Protected(u)' => Protected(u)
        BY <2>1, <2>3, <3>1, NameAssumption DEF StillActive, Protected, Live
      <3>3. status' \in [Unit -> UnitStatus] /\ StatusIsSound' /\ OnSaleIsFree'
        BY <2>1, <3>1, <3>2, Recomputed DEF IInv, TypeOK
      <3> QED
        BY <2>1, <3>1, <3>3 DEF IInv, TypeOK, HoldsNameUnits, LinksExist, MoveInEndsHold
    <2> QED
      BY <2>2, <2>3
  <1> QED
    BY <1>1, <1>2

-----------------------------------------------------------------------------
(* Provisioning and staff.                                                 *)

\* Reading the session for a move-in, and failing, keep it.
LEMMA ProvisioningIdleKeeps ==
  ASSUME IInv, NEW s \in Session, StartProvisioning(s) \/ ProvisioningFails(s)
  PROVE  IInv'
  <1>1. UNCHANGED <<operational, status, lease, reservation, session, charged, sweepVars, revived>>
    BY DEF StartProvisioning, ProvisioningFails
  <1>2. calls' \in [Session -> 0..MaxCalls]
    BY BoundAssumption DEF StartProvisioning, ProvisioningFails, IInv, TypeOK
  <1>3. prov' \in [Session -> [running : BOOLEAN, units : Seq(Unit)]]
    <2>1. NoCall \in [running : BOOLEAN, units : Seq(Unit)]
      BY DEF NoCall
    <2>2. session[s].basket \in Seq(Unit)
      BY DEF IInv, TypeOK, SessionRow
    <2>3. prov \in [Session -> [running : BOOLEAN, units : Seq(Unit)]]
      BY DEF IInv, TypeOK
    <2>4. [running |-> TRUE, units |-> session[s].basket] \in [running : BOOLEAN, units : Seq(Unit)]
      BY <2>2
    <2>5. PICK call \in [running : BOOLEAN, units : Seq(Unit)] :
            prov' = prov \/ prov' = [prov EXCEPT ![s] = call]
      <3>1. CASE StartProvisioning(s)
        BY <2>4, <3>1 DEF StartProvisioning
      <3>2. CASE ProvisioningFails(s)
        BY <2>1, <3>2 DEF ProvisioningFails
      <3> QED
        BY <3>1, <3>2
    <2> QED
      BY <2>3, <2>5
  <1>4. StatusIsSound' /\ OnSaleIsFree'
    BY <1>1, StatusKept DEF Protected, Live
  <1> QED
    BY <1>1, <1>2, <1>3, <1>4
       DEF sweepVars, IInv, TypeOK, HoldsNameUnits, LinksExist, MoveInEndsHold

\* The transaction of provisionMoveIn keeps it.
LEMMA CommitKeeps ==
  ASSUME IInv, NEW s \in Session, CommitProvisioning(s)
  PROVE  IInv'
  <1> DEFINE row == [session[s] EXCEPT !.state = "completed", !.step = Provisioned, !.lapsed = FALSE]
             hold == session[s].reservation
  <1>1. /\ row \in SessionRow /\ row.state = "completed" /\ row.reservation = hold
    <2>1. Provisioned \in 1..Steps
      BY StepsAssumption DEF Provisioned
    <2> QED
      BY <2>1, RowTyped DEF SessionRow
  <1>2. session' = [session EXCEPT ![s] = row]
    BY DEF CommitProvisioning
  <1> HIDE DEF row
  <1>3. /\ session' \in [Session -> SessionRow] /\ session'[s] = row
        /\ \A t \in Session \ {s} : session'[t] = session[t]
    BY <1>1, <1>2, SessionStep DEF IInv
  <1>4. PICK r \in Reservation \cup {NoReservation} : r = hold
    BY DEF IInv, TypeOK, SessionRow
  <1>5. /\ reservation' = Convert(r) /\ revived' = revived \ {s, r}
        /\ UNCHANGED <<operational, charged, calls, sweepVars>>
        /\ Recompute(ToSet(prov[s].units))
        /\ lease' = [u \in Unit |-> IF u \in ToSet(prov[s].units) THEN s ELSE lease[u]]
        /\ prov' = [prov EXCEPT ![s] = NoCall]
    BY <1>4 DEF CommitProvisioning, LeasedUnits
  <1>6. \A q \in Reservation :
          /\ reservation'[q] \in ReservationRow
          /\ reservation'[q].state \in {reservation[q].state, "converted"}
          /\ reservation'[q].unit = reservation[q].unit
          /\ q = r => reservation'[q].state # "held"
          /\ q # r => reservation'[q] = reservation[q]
    BY <1>5 DEF Convert, IInv, TypeOK, ReservationRow
  <1>7. \A u \in Unit : Protected(u)' => Protected(u)
    <2> SUFFICES ASSUME NEW u \in Unit, Protected(u)' PROVE Protected(u)
      OBVIOUS
    <2>1. CASE \E q \in Reservation \ revived' : reservation'[q].state = "held"
                  /\ ~reservation'[q].lapsed /\ reservation'[q].unit = u
      BY <1>5, <1>6, <2>1, NameAssumption DEF Protected
    <2>2. CASE \E t \in Session \ revived' : Live(t)' /\ Named(u, session'[t])
      <3>1. PICK t \in Session \ revived' : Live(t)' /\ Named(u, session'[t])
        BY <2>2
      <3>2. t # s
        BY <1>1, <1>3, <3>1 DEF Live
      <3>3. session'[t] = session[t] /\ Live(t)
        BY <1>3, <3>1, <3>2 DEF Live
      <3>4. t # r
        BY <1>4, NameAssumption
      <3>5. t \notin revived
        BY <1>5, <3>1, <3>2, <3>4
      <3> QED
        BY <3>1, <3>3, <3>5 DEF Protected
    <2> QED
      BY <2>1, <2>2 DEF Protected
  <1>8. \A u \in Unit \ ToSet(prov[s].units) : lease'[u] = lease[u]
    BY <1>5
  <1>9. status' \in [Unit -> UnitStatus] /\ StatusIsSound' /\ OnSaleIsFree'
    BY <1>5, <1>7, <1>8, Recomputed DEF IInv, TypeOK
  <1>10. TypeOK'
    <2>1. reservation' \in [Reservation -> ReservationRow]
      BY <1>5, <1>6 DEF Convert
    <2>2. lease' \in [Unit -> Session \cup {NoLease}]
      BY <1>5 DEF IInv, TypeOK
    <2>3. prov' \in [Session -> [running : BOOLEAN, units : Seq(Unit)]]
      BY <1>5 DEF IInv, TypeOK, NoCall
    <2>4. revived' \subseteq Session \cup Reservation
      BY <1>5 DEF IInv, TypeOK
    <2> QED
      BY <1>3, <1>5, <1>9, <2>1, <2>2, <2>3, <2>4 DEF sweepVars, IInv, TypeOK
  <1>11. HoldsNameUnits'
    BY <1>6 DEF IInv, HoldsNameUnits
  <1>12. LinksExist'
    BY <1>1, <1>3, <1>6 DEF IInv, LinksExist
  <1>13. MoveInEndsHold'
    BY <1>1, <1>3, <1>4, <1>6 DEF IInv, MoveInEndsHold
  <1> QED
    BY <1>9, <1>10, <1>11, <1>12, <1>13 DEF IInv

\* Move-out, ready to rent and the manual status keep it.
LEMMA StaffKeeps ==
  ASSUME IInv, NEW u \in Unit, Staff(u)
  PROVE  IInv'
  <1>1. UNCHANGED <<reservation, session, payVars, sweepVars, revived>> /\ Recompute({u})
    BY DEF Staff, MoveOut, MarkUnitReadyToRent, SetOperationalStatus
  <1>2. /\ operational' \in [Unit -> OperationalStatus]
        /\ lease' \in [Unit -> Session \cup {NoLease}]
        /\ \A v \in Unit \ {u} : lease'[v] = lease[v] /\ operational'[v] = operational[v]
    BY DEF Staff, MoveOut, MarkUnitReadyToRent, SetOperationalStatus, OperationalStatus,
           IInv, TypeOK
  <1>3. \A v \in Unit : Protected(v)' => Protected(v)
    BY <1>1 DEF Protected, Live
  <1>4. status' \in [Unit -> UnitStatus] /\ StatusIsSound' /\ OnSaleIsFree'
    BY <1>1, <1>2, <1>3, Recomputed
  <1> QED
    BY <1>1, <1>2, <1>4 DEF payVars, sweepVars, IInv, TypeOK, HoldsNameUnits,
                            LinksExist, MoveInEndsHold

-----------------------------------------------------------------------------
(* The theorems.                                                           *)

\* Every step keeps the inductive invariant.
LEMMA StepPreserves == IInv /\ [Next]_vars => IInv'
  <1> SUFFICES ASSUME IInv, [Next]_vars PROVE IInv'
    OBVIOUS
  <1>1. ASSUME NEW r \in Reservation, RenterOnHold(r) PROVE IInv'
    BY <1>1, CreateReservationKeeps, ClockOfHoldKeeps, HoldStepKeeps DEF RenterOnHold
  <1>2. ASSUME NEW s \in Session, RenterInCheckout(s) PROVE IInv'
    <2>1. ASSUME NEW u \in Unit, StartCheckout(s, u) PROVE IInv'
      BY <2>1, StartKeeps DEF StartCheckout
    <2>2. ASSUME NEW r \in Reservation, StartFromReservation(s, r) PROVE IInv'
      <3>1. reservation[r].state = "held" /\ reservation[r].unit \in Unit
        BY <2>2 DEF StartFromReservation, IInv, HoldsNameUnits
      <3> QED
        BY <2>2, <3>1, StartKeeps DEF StartFromReservation
    <2> QED
      BY <1>2, <2>1, <2>2, AddUnitKeeps, RelockKeeps, RelockAtSizeKeeps, LockLapsesKeeps,
         MoveToStepKeeps, RemoveUnitKeeps DEF RenterInCheckout
  <1>3. ASSUME NEW s \in Session, Provisioning(s) PROVE IInv'
    BY <1>3, ProvisioningIdleKeeps, CommitKeeps DEF Provisioning
  <1>4. ASSUME NEW u \in Unit, Staff(u) PROVE IInv'
    BY <1>4, StaffKeeps
  <1>5. ASSUME Sweeps PROVE IInv'
    <2>1. ASSUME ListLapsedHolds PROVE IInv'
      <3>1. PICK r \in Reservation : DueHold(r)
        BY <2>1 DEF ListLapsedHolds
      <3> QED
        BY <2>1, HoldStepKeeps
    <2>2. ASSUME ListLapsedSessions PROVE IInv'
      <3>1. PICK s \in Session : session[s].lapsed
        BY <2>2 DEF ListLapsedSessions
      <3> QED
        BY <2>2, SweepStepKeeps
    <2> QED
      BY <1>5, <2>1, <2>2, HoldStepKeeps, SweepStepKeeps DEF Sweeps
  <1>6. ASSUME UNCHANGED vars PROVE IInv'
    BY <1>6 DEF vars, payVars, sweepVars, IInv, TypeOK, HoldsNameUnits, LinksExist,
                StatusIsSound, OnSaleIsFree, MoveInEndsHold, Live
  <1> QED
    BY <1>1, <1>2, <1>3, <1>4, <1>5, <1>6 DEF Next

\* The inductive invariant holds throughout.
THEOREM InvariantHolds == Spec => []IInv
  BY InitEstablishes, StepPreserves, PTL DEF Spec

\* Every variable keeps its type, for any number of units, renters and holds.
THEOREM RentalTyped == Spec => []TypeOK
  <1>1. IInv => TypeOK
    BY DEF IInv
  <1> QED
    BY <1>1, InvariantHolds, PTL

\* recomputeUnitStatus after each step is enough for the stored status to say
\* occupied of exactly the units with a lease, and available of units on offer.
THEOREM RentalStatusIsSound == Spec => []StatusIsSound
  <1>1. IInv => StatusIsSound
    BY DEF IInv
  <1> QED
    BY <1>1, InvariantHolds, PTL

\* No overselling: no unit on sale is in a live checkout, its basket included,
\* or under a live hold, unless the checkout or hold was revived.
THEOREM RentalOnSaleIsFree == Spec => []OnSaleIsFree
  <1>1. IInv => OnSaleIsFree
    BY DEF IInv
  <1> QED
    BY <1>1, InvariantHolds, PTL

\* A completed checkout leaves no held reservation behind.
THEOREM RentalMoveInEndsHold == Spec => []MoveInEndsHold
  <1>1. IInv => MoveInEndsHold
    BY DEF IInv
  <1> QED
    BY <1>1, InvariantHolds, PTL

\* Completed checkouts and ended holds never leave those states.
THEOREM RentalOutcomesAreFinal == Spec => OutcomesAreFinal
  <1> DEFINE Final ==
        /\ \A s \in Session :
              session[s].state = "completed" => session'[s].state = "completed"
        /\ \A r \in Reservation :
              reservation[r].state \in {"converted", "cancelled", "expired"} =>
                  reservation'[r].state = reservation[r].state
  <1>1. IInv /\ [Next]_vars => [Final]_vars
    <2> SUFFICES ASSUME IInv, Next PROVE Final
      OBVIOUS
    <2>1. session \in [Session -> SessionRow] /\ reservation \in [Reservation -> ReservationRow]
      BY DEF IInv, TypeOK
    <2>2. ASSUME UNCHANGED <<session, reservation>> PROVE Final
      BY <2>2
    <2>3. ASSUME NEW r \in Reservation, RenterOnHold(r) \/ ExpireHold(r) PROVE Final
      BY <2>1, <2>3 DEF RenterOnHold, CreateReservation, HoldLapses, ChangeMoveInDate,
                        CancelReservation, ExpireHold, StillHeld, EndHold, ReservationRow
    <2>4. ASSUME NEW s \in Session, RenterInCheckout(s) PROVE Final
      BY <2>1, <2>4 DEF RenterInCheckout, StartCheckout, StartFromReservation, Start,
                        AddUnitToBasket, Relock, RelockAtSize, Revivable, LockLapses,
                        MoveToStep, RemoveUnitFromBasket, Live, SessionRow
    <2>5. ASSUME NEW s \in Session, ExpireSession(s) PROVE Final
      BY <2>1, <2>5 DEF ExpireSession, StillActive, SessionRow
    <2>6. ASSUME NEW s \in Session, Provisioning(s) PROVE Final
      <3>1. CASE StartProvisioning(s) \/ ProvisioningFails(s)
        BY <2>2, <3>1 DEF StartProvisioning, ProvisioningFails
      <3>2. CASE CommitProvisioning(s)
        <4>1. \A t \in Session : session'[t].state \in {session[t].state, "completed"}
          BY <2>1, <3>2 DEF CommitProvisioning, SessionRow
        <4>2. \A q \in Reservation : reservation'[q] = reservation[q] \/ reservation[q].state = "held"
          BY <2>1, <3>2 DEF CommitProvisioning, Convert
        <4> QED
          BY <4>1, <4>2
      <3> QED
        BY <2>6, <3>1, <3>2 DEF Provisioning
    <2>7. ASSUME NEW u \in Unit, Staff(u) PROVE Final
      BY <2>2, <2>7 DEF Staff, MoveOut, MarkUnitReadyToRent, SetOperationalStatus
    <2>8. ASSUME ListLapsedHolds \/ ListLapsedSessions PROVE Final
      BY <2>2, <2>8 DEF ListLapsedHolds, ListLapsedSessions
    <2> HIDE DEF Final
    <2> QED
      BY <2>3, <2>4, <2>5, <2>6, <2>7, <2>8 DEF Next, Sweeps
  <1> QED
    BY <1>1, InvariantHolds, PTL DEF Spec, OutcomesAreFinal
=============================================================================
