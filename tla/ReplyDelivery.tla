----------------------------- MODULE ReplyDelivery -----------------------------
(***************************************************************************)
(* What the outbox promises, without rows, claims and publishers: the      *)
(* reply to a task is decided once, queues receive copies of that reply    *)
(* only, and the outcome is final and true.  Copies may be repeated, and    *)
(* may still arrive after the outcome.                                     *)
(***************************************************************************)
EXTENDS Naturals, Sequences

CONSTANTS
    Task, Queue, Body,
    NoReply,  \* nothing was decided
    Covered   \* the tasks that every broker process has the hooks for

VARIABLES
    outcome,  \* of the reply to each task
    reply,    \* the reply that was decided
    copies    \* how many copies of a body each queue received

deliveryVars == <<outcome, reply, copies>>

Init ==
    /\ outcome = [t \in Task |-> "open"]
    /\ reply = [t \in Task |-> NoReply]
    /\ copies = [t \in Task |-> [q \in Queue |-> [b \in Body |-> 0]]]

\* Somebody stores the answer of on_egress.
Decide(t) ==
    /\ outcome[t] = "open" /\ reply[t] = NoReply
    /\ reply'[t].body \in Body
    /\ reply'[t].routes \in Seq(Queue) \ {<<>>}
    /\ reply' = [reply EXCEPT ![t] = reply'[t]]
    /\ UNCHANGED <<outcome, copies>>

\* The i-th queue of the reply receives a copy.
Deliver(t, i) ==
    /\ reply[t] # NoReply
    /\ copies' = [copies EXCEPT ![t][reply[t].routes[i]][reply[t].body] = @ + 1]
    /\ UNCHANGED <<outcome, reply>>

Reached(t) ==
    \A i \in DOMAIN reply[t].routes : copies[t][reply[t].routes[i]][reply[t].body] > 0

Settle(t, s) ==
    /\ outcome[t] = "open"
    /\ s = "SENT" => reply[t] # NoReply /\ Reached(t)
    /\ s = "SKIPPED" /\ t \in Covered => reply[t] = NoReply
    /\ outcome' = [outcome EXCEPT ![t] = s]
    /\ UNCHANGED <<reply, copies>>

Next ==
    \E t \in Task :
        \/ Decide(t)
        \/ \E i \in DOMAIN reply[t].routes : Deliver(t, i)
        \/ \E s \in {"SENT", "FAILED", "SKIPPED"} : Settle(t, s)

Spec == Init /\ [][Next]_deliveryVars
=============================================================================
