----------------------------- MODULE MCPayments -----------------------------
(* Instances of Payments for TLC.                                            *)
EXTENDS Payments, TLC

CONSTANTS a1, a2, w1, w2, s1

Symmetry == Permutations(Worker) \cup Permutations(Attempt)
=============================================================================
