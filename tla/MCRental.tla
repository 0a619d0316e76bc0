------------------------------ MODULE MCRental ------------------------------
(***************************************************************************)
(* Instances of Rental for TLC: two units, so that a basket and a session  *)
(* that was moved can name both, one renter and one reservation.           *)
(***************************************************************************)
EXTENDS Rental

MCUnit == {"u1", "u2"}
MCSession == {"s1"}
MCReservation == {"r1"}
=============================================================================
