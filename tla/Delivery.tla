------------------------------ MODULE Delivery ------------------------------
(***************************************************************************)
(* What the outbox promises of one consumer: an event is worked on by at   *)
(* most one worker at a time, and a closed event stays closed.  A worker   *)
(* that dies abandons the event it holds, and nothing is promised of an    *)
(* abandoned event.  Outbox.tla implements this specification.             *)
(***************************************************************************)
CONSTANTS Event, Worker,
          Open, Closed, Abandoned   \* the three states in which nobody holds the event

VARIABLE holder    \* per event: the worker that holds it, or one of the three states

NobodyHolds == {Open, Closed, Abandoned}

Init == holder = [e \in Event |-> Open]

Take(e, w) == /\ holder[e] = Open
              /\ holder' = [holder EXCEPT ![e] = w]

GiveUp(e, w) == /\ holder[e] = w
                /\ holder' = [holder EXCEPT ![e] = Open]

Close(e, w) == /\ holder[e] = w
               /\ holder' = [holder EXCEPT ![e] = Closed]

Die(e, w) == /\ holder[e] = w
             /\ holder' = [holder EXCEPT ![e] = Abandoned]

Next == \E e \in Event, w \in Worker :
            Take(e, w) \/ GiveUp(e, w) \/ Close(e, w) \/ Die(e, w)

Spec == Init /\ [][Next]_holder
=============================================================================
