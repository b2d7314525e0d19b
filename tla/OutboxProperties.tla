--------------------------- MODULE OutboxProperties ---------------------------
(* What the outbox promises to the consumers of the replies. *)
EXTENDS Outbox

\* All copies of a reply are the same: whatever publisher sent them, they carry
\* the body that is stored in the row, and go to the queues stored with it.
OneReply ==
    \A t \in Task, q \in Queue, b \in Body : copies[t][q][b] > 0 =>
        /\ b = reply[t].body
        /\ \E i \in DOMAIN reply[t].routes : reply[t].routes[i] = q

\* SENT is written only after every queue of the reply has a copy.
SentReachedEveryQueue ==
    \A t \in Task : status[t] = "SENT" =>
        /\ reply[t] # NoReply
        /\ \A i \in DOMAIN reply[t].routes :
               copies[t][reply[t].routes[i]][reply[t].body] > 0

\* Duplicates come from claims only: a queue that the reply names once receives
\* at most one copy for each time the row was claimed.
OneCopyPerClaim ==
    \A t \in Task, q \in Queue, b \in Body :
        copies[t][q][b] <= token[t]
            * Cardinality({i \in DOMAIN reply[t].routes : reply[t].routes[i] = q})

\* A row is given up exactly when its attempts are used up.
FailedWhenExhausted ==
    \A t \in Task : /\ attempts[t] <= MaxAttempts
                    /\ status[t] = "FAILED" <=> attempts[t] = MaxAttempts

\* A reply is skipped only as a whole: no queue has a copy of it.
SkippedSentNothing ==
    \A t \in Task : status[t] = "SKIPPED" =>
        \A q \in Queue, b \in Body : copies[t][q][b] = 0

\* A row that is SENT, FAILED or SKIPPED never changes again, and a reply that
\* was stored is never replaced, whatever late publishers still do.
FinalIsForever ==
    [][\A t \in Task :
           /\ status[t] \in FinalStatus =>
                  status'[t] = status[t] /\ token'[t] = token[t] /\ attempts'[t] = attempts[t]
           /\ reply[t] # NoReply => reply'[t] = reply[t]]_vars

\* The tasks whose plugin has hooks and settings in every broker process.
Covered == {t \in Task : \A p \in Publisher : t \in Hooked[p]}

outcome == [t \in Task |-> IF status[t] \in FinalStatus THEN status[t] ELSE "open"]

\* Claims, leases and late publishers do not show: to the consumers a reply is
\* decided once, copied, and settled by one truthful outcome; with hooks in every
\* process a reply that was decided is not skipped.
Delivery == INSTANCE ReplyDelivery
ImplementsDelivery == Delivery!Spec

\* Every terminal task of the broker ends up SENT, FAILED or SKIPPED, but for one
\* that was soft-deleted before the reconciler got to it: it never gets a row.
EveryReplySettles ==
    \A t \in Task : t \in terminal ~>
        status[t] \in FinalStatus \/ (t \in deleted /\ status[t] = Absent)
=============================================================================
