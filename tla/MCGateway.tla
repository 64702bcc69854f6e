----------------------------- MODULE MCGateway -----------------------------
(* Instances of Gateway: a call that wakes its device twice while nothing  *)
(* is rotated, and a rotation and the loss of the seat with no call.       *)
EXTENDS Gateway

Waking == [creds |-> 0, seats |-> FALSE, wakes |-> 2]
Rotating == [creds |-> 1, seats |-> TRUE, wakes |-> 0]

MCScenarios == {Waking, Rotating}
MCRotation == {Rotating}
=============================================================================
