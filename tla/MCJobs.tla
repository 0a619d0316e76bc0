------------------------------- MODULE MCJobs -------------------------------
(* Two jobs at one facility.  Nightly gives both the same hour, which lets   *)
(* a day be an hour long; Reversed gives the first in the registry the later *)
(* one, as access.evaluate-suspensions (hour 4) has before billing.autopay   *)
(* (hour 3).                                                                 *)
EXTENDS Jobs

CONSTANTS t1, t2, s1

Late == [j \in Job |-> 1]

Reversed == [j \in Job |-> IF j = 1 THEN 1 ELSE 0]
=============================================================================
