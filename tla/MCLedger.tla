------------------------------ MODULE MCLedger ------------------------------
(* A rent invoice of one lease and a fee of another; the fee's lease is the  *)
(* smaller debt, so that a payment can cover both, one or part of one.       *)
EXTENDS Ledger, TLC

CONSTANTS a, b, w1, w2

TwoLeases == [i \in Invoice |-> IF i = 1 THEN a ELSE b]
Owing == [i \in Invoice |-> IF i = 1 THEN 2 ELSE 1]
OneRetry == <<1>>
Workers == Permutations(Worker)

(* Once every invoice is excused there is nothing left to show. *)
SomethingToShow == ~(Invoice \subseteq raced \cup burnt)
=============================================================================
