------------------------------ MODULE MCNetwork ------------------------------
(* A queue of three entries, whose pointers have a value too many, and the *)
(* ring: router 0 can fill a link and its own input, router 1 does not     *)
(* stop sending to itself.  Either part rests while the other runs.        *)
EXTENDS VcQueueN, RingNet

CONSTANTS a, b

MCSends   == [r \in {0, 1} |-> IF r = 0 THEN 3 ELSE 1]
MCEndless == {1}

VARIABLE part

MCInit == Init /\ NetInit /\ part \in {"queue", "ring"}

QueueRuns == part = "queue" /\ Next /\ UNCHANGED <<netVars, part>>
RingRuns  == part = "ring" /\ NetNext /\ UNCHANGED <<vars, part>>

MCSpec == MCInit /\ [][QueueRuns \/ RingRuns]_<<vars, netVars, part>> /\ Fairness
=============================================================================
