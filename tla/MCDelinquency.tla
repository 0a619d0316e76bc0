---------------------------- MODULE MCDelinquency ----------------------------
(* Two rungs: the gate on day 1, the lock on day 2; the access rule on day 1. *)
EXTENDS Delinquency
MCLadder == <<[day |-> 1, does |-> {"suspend"}], [day |-> 2, does |-> {"lock"}]>>

\* By the hour: plans and the gate at 4, the timeline and then the sweep at 6.
ByTheHour == [breach |-> 1, gate |-> 2, timeline |-> 3, sweep |-> 4]
=============================================================================
