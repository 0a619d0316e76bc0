------------------------------ MODULE MCOutbox ------------------------------
(***************************************************************************)
(* Instances of Outbox for TLC: two events, two dispatchers, one process   *)
(* death, and a batch that holds one event so that the limit bites.        *)
(***************************************************************************)
EXTENDS Outbox

MCEvent == {1, 2}
MCWorker == {"w1", "w2"}
=============================================================================
