------------------------------ MODULE MCProcess ------------------------------
(* Instances of RunnerApp for TLC. *)
EXTENDS ProcessProperties, TLC

CONSTANTS q1, q2, out

TwoQueues == <<q1, q2>>
=============================================================================
