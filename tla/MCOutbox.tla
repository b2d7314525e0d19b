------------------------------- MODULE MCOutbox -------------------------------
(* Instances of Outbox for TLC. *)
EXTENDS OutboxProperties, TLC

CONSTANTS t1, t2, p1, p2, q1, q2

MCDraftRoutes   == {NoRoutes, <<>>, <<q1, q2>>}
MCDefaultRoutes == [t \in Task |-> <<q2>>]
Everywhere      == [p \in Publisher |-> Task]
NotT2AtP2       == [p \in Publisher |-> IF p = p1 THEN Task ELSE Task \ {t2}]
Publishers      == Permutations(Publisher)
=============================================================================
