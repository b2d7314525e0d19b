-------------------------- MODULE IngressProperties --------------------------
(* What the ingress promises to the producers of messages. *)
EXTENDS Ingress

\* However often a message, or a copy of it with the same message_id, is
\* delivered and to whichever processes, it becomes one task.
OneTaskPerKey == \A k \in Key : tasks[k] <= 1

\* A message leaves the queue as done only when its task is in the database.
AckedHasTask == \A m \in Message : where[m] = "acked" => tasks[KeyOf[m]] > 0

\* The deliveries after which a message is not given back any more: without a
\* counter "the cap is effectively 2".
Cap(m) == IF Counter[m] = "redelivered" /\ MaxRetries > 2 THEN 2 ELSE MaxRetries

\* A message is dropped only after its plugin was asked as often as the cap
\* allows; a fault costs it at most one of these tries, and so does each
\* delivery that a process gives back unseen between stop() and its disconnect.
TriesBeforeDrop ==
    \A m \in Message : where[m] = "dropped" => tries[m] + faults + bounced[m] >= Cap(m)

\* Only a fault or a process that stops makes the queue deliver a message more
\* often than the cap.
DeliveriesAreCapped == \A m \in Message : deliveries[m] <= Cap(m) + faults + bounced[m]

\* A message that is out will be answered: the handler of its last delivery runs
\* on, and it is the only one that can answer it.
OutIsHandled ==
    \A m \in Message : where[m] = "out" => Cardinality({h \in handlers : h.msg = m /\ Live(h)}) = 1

\* Every message ends acked, dropped or rejected.
EveryMessageEnds ==
    \A m \in Message : <>[](where[m] \in {"acked", "dropped", "rejected"})
=============================================================================
