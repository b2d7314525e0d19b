-------------------------------- MODULE Outbox --------------------------------
(***************************************************************************)
(* The outbox of the broker runner (worker/broker/outbox.py and            *)
(* storage.py): terminal tasks get one row of sp.broker_outbox, broker     *)
(* processes claim rows in batches, ask the plugin for a reply, store it,  *)
(* publish it to every queue and mark the row SENT.                        *)
(*                                                                         *)
(* A claim is fenced: it carries the claim_token of the row, every later   *)
(* update of the row asks for that token and for PROCESSING, and a claim   *)
(* that is older than the lease may be taken over by another process.      *)
(***************************************************************************)
EXTENDS Naturals, Sequences, FiniteSets

CONSTANTS
    Task,          \* the tasks that came in through the broker
    Publisher,     \* broker processes
    Queue,         \* queue names
    Body,          \* what on_egress may put in a reply
    NoBody,        \* body NULL
    NoRoutes,      \* a draft without routing_queues
    DraftRoutes,   \* the routing_queues a draft may have, blank names removed
    DefaultRoutes, \* reply_to of the message, else output_queues of the plugin
    Hooked,        \* the tasks whose plugin has hooks and settings in a process
    ClaimLimit,    \* OUTBOX_LIMIT
    MaxAttempts,   \* max_attempts
    Faults,        \* the kinds of fault that may happen
    MaxFaults      \* bound on their number

ASSUME OutboxAssumption ==
    /\ NoBody \notin Body
    /\ DraftRoutes \subseteq Seq(Queue) \cup {NoRoutes}
    /\ DefaultRoutes \in [Task -> Seq(Queue)]
    /\ Hooked \in [Publisher -> SUBSET Task]
    /\ ClaimLimit \in Nat \ {0}
    /\ MaxAttempts \in Nat \ {0}
    /\ Faults \subseteq {"crash", "dberror", "late", "delete"}
    /\ MaxFaults \in Nat

VARIABLES
    terminal,  \* the tasks that reached a terminal status
    deleted,   \* the tasks that host SQL soft-deleted
    status,    \* broker_outbox.status of the row of each task, or Absent
    token,     \* claim_token
    attempts,  \* attempt_count
    reply,     \* body and routing_queues
    aged,      \* the rows that were updated longer ago than the lease
    work,      \* the claims a publisher has not looked at yet
    pc,        \* the next call of a publisher
    claim,     \* the claim it works on
    sending,   \* the reply it stores and publishes
    next,      \* the queue of the reply it publishes to next
    copies,    \* how many copies of a body each queue received
    faults     \* how many faults happened

taskVars == <<terminal, deleted>>
rowVars  == <<status, token, attempts, reply, aged>>
procVars == <<work, pc, claim, sending, next>>
vars     == <<taskVars, rowVars, procVars, copies, faults>>

Absent      == "ABSENT"
FinalStatus == {"SENT", "FAILED", "SKIPPED"}
Reply       == [body : Body, routes : Seq(Queue)]
NoReply     == [body |-> NoBody, routes |-> <<>>]

\* A claim is what claim_pending_outbox returns: the row as it was then.
Claim   == [task : Task, token : Nat, reply : Reply \cup {NoReply}]
NoClaim == [task |-> "none", token |-> 0, reply |-> NoReply]

TypeOK ==
    /\ terminal \subseteq Task /\ deleted \subseteq Task
    /\ status \in [Task -> {Absent, "PENDING", "PROCESSING"} \cup FinalStatus]
    /\ token \in [Task -> Nat]
    /\ attempts \in [Task -> Nat]
    /\ reply \in [Task -> Reply \cup {NoReply}]
    /\ aged \subseteq Task
    /\ work \in [Publisher -> SUBSET Claim]
    /\ pc \in [Publisher -> {"idle", "skip", "store", "publish", "sent", "fail"}]
    /\ claim \in [Publisher -> Claim \cup {NoClaim}]
    /\ \A p \in Publisher : pc[p] # "idle" => claim[p] \in Claim
    /\ sending \in [Publisher -> Reply \cup {NoReply}]
    /\ next \in [Publisher -> Nat \ {0}]
    /\ copies \in [Task -> [Queue -> [Body -> Nat]]]
    /\ faults \in 0..MaxFaults

Init ==
    /\ terminal = {} /\ deleted = {}
    /\ status = [t \in Task |-> Absent]
    /\ token = [t \in Task |-> 0]
    /\ attempts = [t \in Task |-> 0]
    /\ reply = [t \in Task |-> NoReply]
    /\ aged = {}
    /\ work = [p \in Publisher |-> {}]
    /\ pc = [p \in Publisher |-> "idle"]
    /\ claim = [p \in Publisher |-> NoClaim]
    /\ sending = [p \in Publisher |-> NoReply]
    /\ next = [p \in Publisher |-> 1]
    /\ copies = [t \in Task |-> [q \in Queue |-> [b \in Body |-> 0]]]
    /\ faults = 0

-----------------------------------------------------------------------------
(* The rows. *)

\* Mutant: a row left in PROCESSING is never claimed again.
ClaimablePending(t) == status[t] = "PENDING"

Claimable(t) ==
    \/ status[t] = "PENDING"
    \/ status[t] = "PROCESSING" /\ t \in aged

\* Mutant: the update does not ask for the claim_token.
OwnedByStatus(c) == status[c.task] = "PROCESSING"

\* _owned_processing: the WHERE clause of every update after the claim.
Owned(c) == status[c.task] = "PROCESSING" /\ token[c.task] = c.token

\* The claimed row ends its turn as s; nothing happens if the lease was lost.
\* Every update sets updated_at, from which the lease is measured.
SetOwned(c, s) ==
    /\ status' = IF Owned(c) THEN [status EXCEPT ![c.task] = s] ELSE status
    /\ aged' = IF Owned(c) THEN aged \ {c.task} ELSE aged

\* Mutant: one attempt too many.
AfterFailureLate(n) == IF n > MaxAttempts THEN "FAILED" ELSE "PENDING"

\* What mark_outbox_publish_failure makes of the row after the n-th failure.
AfterFailure(n) == IF n >= MaxAttempts THEN "FAILED" ELSE "PENDING"

\* _resolve_routing_queues.
Routes(t, routes) == IF routes = NoRoutes THEN DefaultRoutes[t] ELSE routes

-----------------------------------------------------------------------------
(* One pass of the broker loop: reconcile, claim, then row by row. *)

Goto(p, l) == pc' = [pc EXCEPT ![p] = l] /\ UNCHANGED <<claim, sending, next>>

Release(p) ==
    /\ pc' = [pc EXCEPT ![p] = "idle"]
    /\ claim' = [claim EXCEPT ![p] = NoClaim]
    /\ sending' = [sending EXCEPT ![p] = NoReply]
    /\ next' = [next EXCEPT ![p] = 1]

\* A worker stores a terminal status (TaskStore).
Terminate(t) ==
    /\ t \notin terminal
    /\ terminal' = terminal \cup {t}
    /\ UNCHANGED <<deleted, rowVars, procVars, copies, faults>>

\* insert_outbox_for_terminal_tasks; SKIP LOCKED may leave some rows out.
Reconcile(p, S) ==
    /\ pc[p] = "idle" /\ work[p] = {}
    /\ S # {} /\ S \subseteq {t \in terminal \ deleted : status[t] = Absent}
    /\ status' = [t \in Task |-> IF t \in S THEN "PENDING" ELSE status[t]]
    /\ UNCHANGED <<taskVars, token, attempts, reply, aged, procVars, copies, faults>>

\* claim_pending_outbox.
ClaimRows(p, S) ==
    /\ pc[p] = "idle" /\ work[p] = {}
    /\ S # {} /\ Cardinality(S) <= ClaimLimit
    /\ \A t \in S : Claimable(t)
    /\ status' = [t \in Task |-> IF t \in S THEN "PROCESSING" ELSE status[t]]
    /\ token' = [t \in Task |-> IF t \in S THEN token[t] + 1 ELSE token[t]]
    /\ aged' = aged \ S
    /\ work' = [work EXCEPT ![p] =
           {[task |-> t, token |-> token[t] + 1, reply |-> reply[t]] : t \in S}]
    /\ UNCHANGED <<taskVars, attempts, reply, pc, claim, sending, next, copies, faults>>

\* The next row of the batch: what to do is decided from the claim alone.
Take(p, c, l, r) ==
    /\ pc[p] = "idle" /\ c \in work[p]
    /\ work' = [work EXCEPT ![p] = @ \ {c}]
    /\ pc' = [pc EXCEPT ![p] = l]
    /\ claim' = [claim EXCEPT ![p] = c]
    /\ sending' = [sending EXCEPT ![p] = r]
    /\ UNCHANGED <<taskVars, rowVars, next, copies, faults>>

\* No hooks or settings for the plugin.
TakeUnhooked(p, c) == c.task \notin Hooked[p] /\ Take(p, c, "skip", NoReply)

\* A reply was stored by an earlier claim.
TakeStored(p, c) ==
    /\ c.task \in Hooked[p] /\ c.reply # NoReply
    /\ Take(p, c, "publish", c.reply)

\* Mutant: the plugin is asked again although a reply is stored.
TakeNothingAgain(p, c) == c.task \in Hooked[p] /\ Take(p, c, "skip", NoReply)

\* on_egress answers None, or a draft that resolves to no queue.
TakeNothing(p, c) ==
    /\ c.task \in Hooked[p] /\ c.reply = NoReply
    /\ Take(p, c, "skip", NoReply)

\* on_egress answers a draft.
TakeDraft(p, c) ==
    /\ c.task \in Hooked[p] /\ c.reply = NoReply
    /\ \E b \in Body, routes \in DraftRoutes :
           /\ Routes(c.task, routes) # <<>>
           /\ Take(p, c, "store", [body |-> b, routes |-> Routes(c.task, routes)])

\* The load or on_egress raises.
TakeRaises(p, c) == Take(p, c, "fail", NoReply)

\* Mutant: a publisher that lost its claim goes on to publish.
StoreAnyway(p) ==
    /\ pc[p] = "store"
    /\ reply' = IF Owned(claim[p]) THEN [reply EXCEPT ![claim[p].task] = sending[p]] ELSE reply
    /\ Goto(p, "publish")
    /\ UNCHANGED <<taskVars, status, token, attempts, aged, work, copies, faults>>

\* store_outbox_reply: publish what was stored, or drop the claim.
Store(p) ==
    /\ pc[p] = "store"
    /\ \/ /\ Owned(claim[p])
          /\ reply' = [reply EXCEPT ![claim[p].task] = sending[p]]
          /\ aged' = aged \ {claim[p].task}
          /\ Goto(p, "publish")
       \/ ~Owned(claim[p]) /\ Release(p) /\ UNCHANGED <<reply, aged>>
    /\ UNCHANGED <<taskVars, status, token, attempts, work, copies, faults>>

\* The next queue of the reply receives a copy.
Receive(p) ==
    LET t == claim[p].task
        q == sending[p].routes[next[p]]
        b == sending[p].body
    IN  copies' = [u \in Task |-> [x \in Queue |-> [y \in Body |->
                      IF u = t /\ x = q /\ y = b THEN copies[u][x][y] + 1 ELSE copies[u][x][y]]]]

\* Mutant: done after the first queue.
PublishOnce(p) ==
    /\ pc[p] = "publish"
    /\ Receive(p)
    /\ Goto(p, "sent")
    /\ UNCHANGED <<taskVars, rowVars, work, faults>>

\* publish to the next queue; "sent" only after the last one.
Publish(p) ==
    /\ pc[p] = "publish"
    /\ Receive(p)
    /\ IF next[p] = Len(sending[p].routes)
       THEN pc' = [pc EXCEPT ![p] = "sent"] /\ UNCHANGED next
       ELSE next' = [next EXCEPT ![p] = @ + 1] /\ UNCHANGED pc
    /\ UNCHANGED <<taskVars, rowVars, work, claim, sending, faults>>

\* Mutant: the same queue is tried again at once.
PublishRetries(p) ==
    /\ pc[p] = "publish"
    /\ UNCHANGED copies \/ Receive(p)
    /\ UNCHANGED <<taskVars, rowVars, procVars, faults>>

\* publish raises; the copy may have arrived all the same.
PublishFails(p) ==
    /\ pc[p] = "publish"
    /\ UNCHANGED copies \/ Receive(p)
    /\ Goto(p, "fail")
    /\ UNCHANGED <<taskVars, rowVars, work, faults>>

\* mark_outbox_sent.
MarkSent(p) ==
    /\ pc[p] = "sent"
    /\ SetOwned(claim[p], "SENT")
    /\ Release(p)
    /\ UNCHANGED <<taskVars, token, attempts, reply, work, copies, faults>>

MarkSkipped(p) ==
    /\ pc[p] = "skip"
    /\ SetOwned(claim[p], "SKIPPED")
    /\ Release(p)
    /\ UNCHANGED <<taskVars, token, attempts, reply, work, copies, faults>>

\* mark_outbox_publish_failure: back to PENDING until the attempts are used up.
MarkFailure(p) ==
    /\ pc[p] = "fail"
    /\ LET t == claim[p].task
           n == attempts[t] + 1
       IN  /\ SetOwned(claim[p], AfterFailure(n))
           /\ attempts' = IF Owned(claim[p]) THEN [attempts EXCEPT ![t] = n] ELSE attempts
    /\ Release(p)
    /\ UNCHANGED <<taskVars, token, reply, work, copies, faults>>

-----------------------------------------------------------------------------
(* Faults. *)

Fault(kind) ==
    /\ kind \in Faults /\ faults < MaxFaults
    /\ faults' = faults + 1

\* An update of the row raises.
UpdateFails(p) ==
    /\ Fault("dberror")
    /\ pc[p] \in {"skip", "store", "sent"}
    /\ Goto(p, "fail")
    /\ UNCHANGED <<taskVars, rowVars, work, copies>>

\* The process dies and is started again: an exception of the reconciler, of the
\* claim or of mark_outbox_publish_failure ends the runner too.
Crash(p) ==
    /\ Fault("crash")
    /\ pc[p] # "idle" \/ work[p] # {}
    /\ Release(p)
    /\ work' = [work EXCEPT ![p] = {}]
    /\ UNCHANGED <<taskVars, rowVars, copies>>

\* Host SQL sets tasks.deleted_at; claims and publishers do not look at it.
Delete(t) ==
    /\ Fault("delete")
    /\ deleted' = deleted \cup {t}
    /\ UNCHANGED <<terminal, rowVars, procVars, copies>>

LiveClaim(c, t) == c.task = t /\ c.token = token[t]

HoldsClaim(p, t) ==
    \/ pc[p] # "idle" /\ LiveClaim(claim[p], t)
    \/ \E c \in work[p] : LiveClaim(c, t)

Age(t) ==
    /\ status[t] = "PROCESSING" /\ t \notin aged
    /\ aged' = aged \cup {t}
    /\ UNCHANGED <<taskVars, status, token, attempts, reply, procVars, copies>>

\* The lease ends while the publisher is still busy with the batch.
LeaseLate(t) == Fault("late") /\ Age(t) /\ \E p \in Publisher : HoldsClaim(p, t)

\* The lease ends and nobody holds the claim any more.
LeaseExpires(t) == Age(t) /\ (\A p \in Publisher : ~HoldsClaim(p, t)) /\ UNCHANGED faults

-----------------------------------------------------------------------------
RowStep(p) ==
    \/ \E c \in work[p] : \/ TakeUnhooked(p, c) \/ TakeStored(p, c) \/ TakeNothing(p, c)
                          \/ TakeDraft(p, c) \/ TakeRaises(p, c)
    \/ Store(p) \/ Publish(p) \/ PublishFails(p) \/ MarkSent(p) \/ MarkSkipped(p) \/ MarkFailure(p)

Next ==
    \/ \E t \in Task : Terminate(t) \/ Delete(t) \/ LeaseLate(t) \/ LeaseExpires(t)
    \/ \E p \in Publisher :
           \/ \E S \in SUBSET Task : Reconcile(p, S) \/ ClaimRows(p, S)
           \/ RowStep(p)
           \/ UpdateFails(p) \/ Crash(p)

Spec == Init /\ [][Next]_vars

\* The broker loop goes on, calls return and time passes.
Fairness ==
    /\ \A p \in Publisher : /\ WF_vars(\E S \in SUBSET Task : Reconcile(p, S))
                            /\ WF_vars(\E S \in SUBSET Task : ClaimRows(p, S))
                            /\ WF_vars(RowStep(p))
    /\ \A t \in Task : WF_vars(LeaseExpires(t))

FairSpec == Spec /\ Fairness
=============================================================================
