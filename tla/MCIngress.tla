------------------------------ MODULE MCIngress ------------------------------
(* Instances of Ingress for TLC. *)
EXTENDS IngressProperties, TLC

CONSTANTS m1, m2, p1, p2, k1

\* m2 is a copy of m1 that a producer sent again.
SameKey       == [m \in Message |-> k1]
QuorumClassic == [m \in Message |-> IF m = m1 THEN "x-delivery-count" ELSE "redelivered"]
DeadLettered  == [m \in Message |-> "x-death"]
DiedOnce      == [m \in Message |-> 1]
=============================================================================
