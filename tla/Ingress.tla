-------------------------------- MODULE Ingress --------------------------------
(***************************************************************************)
(* The ingress of the broker runner (worker/broker/ingress.py, the consume *)
(* callback of runner.py and the insert of storage.py): a message of an    *)
(* input queue becomes one task with one row of sp.broker_ingress, and is  *)
(* acked, given back or dropped.                                           *)
(*                                                                         *)
(* A delivery runs in a handler of its own. When the connection or the     *)
(* process is lost the queue delivers the message again, while a handler   *)
(* of the old delivery may still be running: what it settles then has no   *)
(* effect on the message, what it commits does.                            *)
(***************************************************************************)
EXTENDS Naturals, FiniteSets

CONSTANTS
    Process,       \* broker processes
    Message,       \* the messages that producers sent
    Key,           \* (queue, message_id) after resolve_message_id
    KeyOf,         \* the key of each message
    Counter,       \* the header its deliveries are counted with
    Deaths,        \* the sum of the x-death counts it came with
    MaxRetries,    \* max_ingress_retries
    Faults,        \* the kinds of fault that may happen
    MaxFaults,     \* bound on their number
    MaxDeliveries, \* bound on the deliveries of one message
    MaxBounces     \* bound on those to processes that stop

ASSUME IngressAssumption ==
    /\ KeyOf \in [Message -> Key]
    /\ Counter \in [Message -> {"x-delivery-count", "x-death", "redelivered"}]
    /\ Deaths \in [Message -> Nat \ {0}]
    /\ MaxRetries \in 1..5
    /\ Faults \subseteq {"lost", "crash", "timeout", "dberror", "stop"}
    /\ MaxFaults \in Nat
    /\ MaxDeliveries \in Nat
    /\ MaxBounces \in Nat

VARIABLES
    where,       \* where each message is
    deliveries,  \* how often it was delivered
    tries,       \* how often its plugin was asked (history)
    bounced,     \* how often a process that stops gave it back unseen (history)
    handlers,    \* the running handlers of the consume callback
    tasks,       \* how many tasks were committed for a key
    stopping,    \* the processes that were told to stop
    faults       \* how many faults happened

vars == <<where, deliveries, tries, bounced, handlers, tasks, stopping, faults>>

\* pc is the next call of the handler.
Handler == [msg : Message, delivery : Nat, proc : Process,
            pc : {"hook", "check", "insert", "ack", "requeue", "drop", "reject"}]

TypeOK ==
    /\ where \in [Message -> {"queue", "out", "acked", "dropped", "rejected"}]
    /\ deliveries \in [Message -> Nat]
    /\ tries \in [Message -> Nat]
    /\ bounced \in [Message -> Nat]
    /\ handlers \subseteq Handler
    /\ tasks \in [Key -> Nat]
    /\ stopping \subseteq Process
    /\ faults \in 0..MaxFaults

Init ==
    /\ where = [m \in Message |-> "queue"]
    /\ deliveries = [m \in Message |-> 0]
    /\ tries = [m \in Message |-> 0]
    /\ bounced = [m \in Message |-> 0]
    /\ handlers = {}
    /\ tasks = [k \in Key |-> 0]
    /\ stopping = {}
    /\ faults = 0

-----------------------------------------------------------------------------
(* The retry cap. *)

\* _counted_delivery_attempt answers a number.
Counted(m) == Counter[m] # "redelivered"

\* ingress_delivery_attempt. The queue counts the deliveries before this one in
\* x-delivery-count; x-death counts dead-lettering, not deliveries.
Attempt(h) ==
    CASE Counter[h.msg] = "x-delivery-count" -> h.delivery
      [] Counter[h.msg] = "x-death"          -> Deaths[h.msg]
      [] Counter[h.msg] = "redelivered"      -> IF h.delivery = 1 THEN 1 ELSE 2

\* Mutant: a redelivery without a counter is given back like any other.
WithinCapByAttempt(h) == Attempt(h) < MaxRetries

\* Mutant: one delivery too few.
WithinCapEarly(h) == Attempt(h) + 1 < MaxRetries /\ (Counted(h.msg) \/ h.delivery = 1)

\* _requeue_within_cap.
WithinCap(h) == Attempt(h) < MaxRetries /\ (Counted(h.msg) \/ h.delivery = 1)

-----------------------------------------------------------------------------
(* A handler. *)

Goto(h, l) == handlers' = (handlers \ {h}) \cup {[h EXCEPT !.pc = l]}

\* The way out of an error: back to the queue until the cap, then away.
Retry(h) == Goto(h, IF WithinCap(h) THEN "requeue" ELSE "drop")

\* The message is still out with the delivery of this handler.
Live(h) == where[h.msg] = "out" /\ deliveries[h.msg] = h.delivery

\* A stopping process gives the message back unseen.
Deliver(p, m) ==
    /\ where[m] = "queue" /\ deliveries[m] < MaxDeliveries
    /\ p \in stopping => bounced[m] < MaxBounces
    /\ where' = [where EXCEPT ![m] = "out"]
    /\ deliveries' = [deliveries EXCEPT ![m] = @ + 1]
    /\ handlers' = handlers \cup {[msg |-> m, delivery |-> deliveries[m] + 1, proc |-> p,
                                   pc |-> IF p \in stopping THEN "requeue" ELSE "hook"]}
    /\ bounced' = [bounced EXCEPT ![m] = IF p \in stopping THEN @ + 1 ELSE @]
    /\ UNCHANGED <<tries, tasks, stopping, faults>>

AskHook(h) ==
    /\ h.pc = "hook"
    /\ tries' = [tries EXCEPT ![h.msg] = @ + 1]
    /\ UNCHANGED <<where, deliveries, bounced, tasks, stopping, faults>>

\* on_ingress returns a TaskDraft.
HookAccepts(h) == AskHook(h) /\ Goto(h, "check")

\* on_ingress raises IngressReject, or returns something else.
HookRejects(h) == AskHook(h) /\ Goto(h, "reject")

\* on_ingress raises IngressRetry or any other exception.
HookRetries(h) == AskHook(h) /\ Retry(h)

\* The select of insert_linear_task_with_ingress: the key may have a task.
Check(h) ==
    /\ h.pc = "check"
    /\ Goto(h, IF tasks[KeyOf[h.msg]] > 0 THEN "ack" ELSE "insert")
    /\ UNCHANGED <<where, deliveries, tries, bounced, tasks, stopping, faults>>

\* The transaction commits a task and its ingress row; if another handler
\* inserted the key meanwhile the unique index rolls both back.
Commit(h) ==
    tasks' = [tasks EXCEPT ![KeyOf[h.msg]] = IF @ = 0 THEN 1 ELSE @]

\* Mutant: nothing but the select guards the key.
CommitUnguarded(h) ==
    /\ h.pc = "insert"
    /\ tasks' = [tasks EXCEPT ![KeyOf[h.msg]] = @ + 1]
    /\ Goto(h, "ack")
    /\ UNCHANGED <<where, deliveries, tries, bounced, stopping, faults>>

Insert(h) ==
    /\ h.pc = "insert"
    /\ Commit(h)
    /\ Goto(h, "ack")
    /\ UNCHANGED <<where, deliveries, tries, bounced, stopping, faults>>

\* The channel takes the answer if the delivery is live; the handler returns.
Settle(h, l, s) ==
    /\ h.pc = l
    /\ where' = IF Live(h) THEN [where EXCEPT ![h.msg] = s] ELSE where
    /\ handlers' = handlers \ {h}
    /\ UNCHANGED <<deliveries, tries, bounced, tasks, stopping, faults>>

Ack(h)     == Settle(h, "ack", "acked")
Requeue(h) == Settle(h, "requeue", "queue")
Drop(h)    == Settle(h, "drop", "dropped")
Reject(h)  == Settle(h, "reject", "rejected")

-----------------------------------------------------------------------------
(* Faults. *)

Fault(kind) ==
    /\ kind \in Faults /\ faults < MaxFaults
    /\ faults' = faults + 1

\* Mutant: a message whose insert failed is acked.
StoreFailsAcked(h) ==
    /\ h.pc \in {"check", "insert"}
    /\ Fault("dberror")
    /\ UNCHANGED tasks
    /\ Goto(h, "ack")
    /\ UNCHANGED <<where, deliveries, tries, bounced, stopping>>

\* The select or the insert raises; the commit may have taken place.
StoreFails(h) ==
    /\ h.pc \in {"check", "insert"}
    /\ Fault("dberror")
    /\ UNCHANGED tasks \/ (h.pc = "insert" /\ Commit(h))
    /\ Retry(h)
    /\ UNCHANGED <<where, deliveries, tries, bounced, stopping>>

\* Mutant: nobody answers the message after a timeout.
TimeoutSilent(h) ==
    /\ Fault("timeout")
    /\ handlers' = handlers \ {h}
    /\ UNCHANGED <<where, deliveries, tries, bounced, tasks, stopping>>

\* wait_for cancels the handler at any await, that of the ack included, and the
\* message goes back whatever its attempt. The callback of a process that stops
\* is outside the timeout, but gives the message back as well.
Timeout(h) ==
    /\ Fault("timeout")
    /\ h.pc # "requeue"
    /\ Goto(h, "requeue")
    /\ UNCHANGED <<where, deliveries, tries, bounced, tasks, stopping>>

HandlersOf(p) == {h \in handlers : h.proc = p}

\* The channel closes: every message that is out at p goes back to its queue.
Disconnect(p) ==
    where' = [m \in Message |-> IF \E h \in HandlersOf(p) : h.msg = m /\ Live(h)
                                THEN "queue" ELSE where[m]]

\* _reconnect after a failed ping; handlers of the old channel may go on.
ConnectionLost(p) ==
    /\ Fault("lost")
    /\ HandlersOf(p) # {}
    /\ Disconnect(p)
    /\ \E kept \in SUBSET HandlersOf(p) : handlers' = (handlers \ HandlersOf(p)) \cup kept
    /\ UNCHANGED <<deliveries, tries, bounced, tasks, stopping>>

\* The process dies and is started again.
Crash(p) ==
    /\ Fault("crash")
    /\ HandlersOf(p) # {}
    /\ Disconnect(p)
    /\ handlers' = handlers \ HandlersOf(p)
    /\ stopping' = stopping \ {p}
    /\ UNCHANGED <<deliveries, tries, bounced, tasks>>

\* BrokerRunner.stop: the consumers stay until the loop of execute sees it.
Stop(p) ==
    /\ Fault("stop")
    /\ p \notin stopping
    /\ stopping' = stopping \cup {p}
    /\ UNCHANGED <<where, deliveries, tries, bounced, handlers, tasks>>

\* execute leaves its loop and disconnects; the process is started again.
Leave(p) ==
    /\ p \in stopping
    /\ Disconnect(p)
    /\ handlers' = handlers \ HandlersOf(p)
    /\ stopping' = stopping \ {p}
    /\ UNCHANGED <<deliveries, tries, bounced, tasks, faults>>

-----------------------------------------------------------------------------
HandlerStep(h) ==
    \/ HookAccepts(h) \/ HookRejects(h) \/ HookRetries(h)
    \/ Check(h) \/ Insert(h)
    \/ Ack(h) \/ Requeue(h) \/ Drop(h) \/ Reject(h)

Next ==
    \/ \E p \in Process, m \in Message : Deliver(p, m)
    \/ \E h \in handlers : HandlerStep(h) \/ StoreFails(h) \/ Timeout(h)
    \/ \E p \in Process : ConnectionLost(p) \/ Crash(p) \/ Stop(p) \/ Leave(p)

Spec == Init /\ [][Next]_vars

\* Queues deliver, and a handler goes on: its calls return or the timeout of the
\* callback ends them.
Fairness ==
    /\ \A m \in Message :
           /\ WF_vars(\E p \in Process : Deliver(p, m))
           /\ WF_vars(\E h \in handlers : h.msg = m /\ HandlerStep(h))
    /\ \A p \in Process : WF_vars(Leave(p))

FairSpec == Spec /\ Fairness
=============================================================================
