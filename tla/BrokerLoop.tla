----------------------------- MODULE BrokerLoop -----------------------------
(***************************************************************************)
(* The loop of the broker runner (BrokerRunner.execute, worker/broker/     *)
(* runner.py) and the RabbitMQ client it owns (custom_clients/rabbitmq.py): *)
(* connect, one consumer per input queue, then rounds of ping, outbox work  *)
(* and sleep; after a failed ping it abandons the connection and starts     *)
(* the client again, at most PING_FAILURE_LIMIT times in a row.             *)
(*                                                                         *)
(* The broker may go down or stop answering, lose the connection or have a  *)
(* queue deleted at any step. aio_pika reconnects a lost connection and     *)
(* subscribes the consumers of a closed channel again on its own.           *)
(***************************************************************************)
EXTENDS Naturals, Sequences, Functions

CONSTANTS
    Inputs,     \* the input queues in the order of _queue_owners
    Reply,      \* the queue the replies go to
    Foreign,    \* the queues somebody declared with other arguments
    Deletable,  \* the input queues somebody may delete
    Limit,      \* PING_FAILURE_LIMIT
    Faults,     \* the kinds of fault that may happen
    MaxFaults   \* bound on their number

Queue == Range(Inputs)

ASSUME LoopAssumption ==
    /\ Inputs \in Seq(Queue) /\ Inputs # <<>>
    /\ Reply \notin Queue
    /\ Foreign \subseteq Queue \cup {Reply}
    /\ Deletable \subseteq Queue
    /\ Limit \in Nat \ {0}
    /\ Faults \subseteq {"down", "silent", "lost", "delete", "dberror", "enter"}
    /\ MaxFaults \in Nat

VARIABLES
    broker,    \* what RabbitMQ does
    missing,   \* the input queues that were deleted
    foreign,   \* the queues declared with other arguments
    orphan,    \* the connections that the client has forgotten while they were open
    client,    \* the client: its connection, queues and consumers
    loop,      \* where execute is, and the attributes of the runner
    stopping,  \* the stop event
    faults     \* how many faults happened

loopVars == <<broker, missing, foreign, orphan, client, loop, stopping, faults>>

Broker == {"up", "down", "silent"}

\* open says that the client has forgotten an open connection; consumers are those
\* it has at the broker, whose handlers go on.
Orphan == [open : BOOLEAN, consumers : SUBSET Queue]

\* cached are the queues of client.queues, which the ping looks at; a detached
\* consumer is one that aio_pika has to subscribe again.
Client == [conn : {"none", "open", "lost"}, cached : SUBSET (Queue \cup {Reply}),
           consumers : SUBSET Queue, detached : SUBSET Queue]

\* held says that self._client is set; restoring, that the call is below _reconnect.
Loop == [pc : {"absent", "idle", "connect", "channel", "consume", "loop", "ping",
               "abandon", "work", "sleep", "backoff", "final", "ended"},
         next : 1..Len(Inputs), restoring : BOOLEAN, consuming : BOOLEAN, held : BOOLEAN,
         failures : 0..Limit, result : {"none", "returned", "raised", "cancelled"}]

LoopTypeOK ==
    /\ broker \in Broker
    /\ missing \subseteq Queue
    /\ foreign \subseteq Queue \cup {Reply}
    /\ orphan \in Orphan
    /\ client \in Client
    /\ loop \in Loop
    /\ stopping \in BOOLEAN
    /\ faults \in 0..MaxFaults

Closed == [conn |-> "none", cached |-> {}, consumers |-> {}, detached |-> {}]

NoOrphan == [open |-> FALSE, consumers |-> {}]

LoopInit ==
    /\ broker \in {"up", "down"}
    /\ missing = {}
    /\ foreign = Foreign
    /\ orphan = NoOrphan
    /\ client = Closed
    /\ loop = [pc |-> "absent", next |-> 1, restoring |-> FALSE, consuming |-> FALSE,
               held |-> FALSE, failures |-> 0, result |-> "none"]
    /\ stopping = FALSE
    /\ faults = 0

-----------------------------------------------------------------------------
(* The client. *)

\* A request on the connection is answered.
Answers == client.conn = "open" /\ broker = "up"

\* The channel is gone: cached is what the client keeps of it.
WithoutChannel(c, cached) ==
    [c EXCEPT !.cached = cached, !.consumers = {}, !.detached = @ \cup c.consumers]

\* declare_named_queue: create or match; if the arguments differ the broker
\* closes the channel, and the queue is attached passively on a new one.
Declared(q) ==
    IF q \in client.cached \/ q \notin foreign
    THEN [client EXCEPT !.cached = @ \cup {q}]
    ELSE WithoutChannel(client, {q})

\* disconnect closes the connection if the broker answers or it is closed
\* already. If it hangs, _abandon forgets the connection after a timeout.
CanDisconnect == client.conn # "open" \/ broker = "up"

\* The consumers of a forgotten connection stay, with those aio_pika was restoring.
Forgotten ==
    [open |-> TRUE,
     consumers |-> orphan.consumers \cup client.consumers \cup client.detached]

-----------------------------------------------------------------------------
(* The steps of execute. *)

Goto(l) == loop' = [loop EXCEPT !.pc = l]

\* The way out of the try statement: its finally clause comes next.
Leave(r) == loop' = [loop EXCEPT !.pc = "final", !.result = r]

\* An exception of the first start leaves execute; one of _reconnect is counted.
Fail ==
    IF loop.restoring /\ loop.failures + 1 < Limit
    THEN loop' = [loop EXCEPT !.pc = "backoff", !.restoring = FALSE, !.failures = @ + 1]
    ELSE Leave("raised")

\* The task of execute is created; without enabled bindings it idles.
Start(bound) ==
    /\ loop.pc = "absent"
    /\ Goto(IF bound THEN "connect" ELSE "idle")

Idle ==
    /\ loop.pc = "idle" /\ stopping
    /\ loop' = [loop EXCEPT !.pc = "ended", !.result = "returned"]
    /\ UNCHANGED <<broker, missing, foreign, orphan, client, stopping, faults>>

\* connect_robust: the handle of an earlier connection would be overwritten.
Connect ==
    /\ loop.pc = "connect" /\ broker = "up"
    /\ client' = [Closed EXCEPT !.conn = "open"]
    /\ orphan' = IF client.conn = "open" THEN Forgotten ELSE orphan
    /\ loop' = [loop EXCEPT !.pc = "channel", !.consuming = FALSE]
    /\ UNCHANGED <<broker, missing, foreign, stopping, faults>>

ConnectFails ==
    /\ loop.pc = "connect" /\ broker # "up"
    /\ Fail
    /\ UNCHANGED <<broker, missing, foreign, orphan, client, stopping, faults>>

\* The channel and its QoS; then self._client is set.
OpenChannel ==
    /\ loop.pc = "channel" /\ Answers
    /\ loop' = [loop EXCEPT !.pc = "consume", !.next = 1, !.held = TRUE]
    /\ UNCHANGED <<broker, missing, foreign, orphan, client, stopping, faults>>

ChannelFails ==
    /\ loop.pc = "channel" /\ ~Answers
    /\ Fail
    /\ UNCHANGED <<broker, missing, foreign, orphan, client, stopping, faults>>

\* consume_unacked for the next queue; after the last one _consuming is set.
Consume ==
    /\ loop.pc = "consume" /\ Answers
    /\ LET q == Inputs[loop.next] IN
       /\ client' = [Declared(q) EXCEPT !.consumers = @ \cup {q}]
       /\ missing' = missing \ {q}
    /\ loop' = IF loop.next < Len(Inputs)
               THEN [loop EXCEPT !.next = @ + 1]
               ELSE [loop EXCEPT !.pc = IF loop.restoring THEN "ping" ELSE "loop",
                                 !.consuming = TRUE]
    /\ UNCHANGED <<broker, foreign, orphan, stopping, faults>>

\* The connection is closed, or _reconnect waited as long as _restore_timeout; the
\* first start waits for an answer until the connection is lost.
ConsumeFails ==
    /\ loop.pc = "consume" /\ ~Answers
    /\ loop.restoring \/ client.conn # "open"
    /\ Fail
    /\ UNCHANGED <<broker, missing, foreign, orphan, client, stopping, faults>>

\* Mutant: a client that is not consuming is started again over the old connection.
NextRoundNoAbandon ==
    /\ loop.pc = "loop"
    /\ loop' = IF stopping THEN [loop EXCEPT !.pc = "final", !.result = "returned"]
               ELSE IF loop.consuming THEN [loop EXCEPT !.pc = "ping"]
               ELSE [loop EXCEPT !.pc = "connect", !.restoring = TRUE]
    /\ UNCHANGED <<broker, missing, foreign, orphan, client, stopping, faults>>

\* The head of the loop and of _ensure_broker_alive.
NextRound ==
    /\ loop.pc = "loop"
    /\ IF stopping THEN Leave("returned")
       ELSE IF loop.consuming THEN Goto("ping")
       ELSE loop' = [loop EXCEPT !.pc = "abandon", !.restoring = TRUE]
    /\ UNCHANGED <<broker, missing, foreign, orphan, client, stopping, faults>>

\* Mutant: the ping does not look at the queues.
PingSucceedsBlindly == Answers

\* ping declares every cached queue passively, or the exchange amq.direct.
PingSucceeds == Answers /\ client.cached \cap missing = {}

Ping ==
    /\ loop.pc = "ping" /\ PingSucceeds
    /\ loop' = [loop EXCEPT !.pc = IF stopping THEN "final" ELSE "work",
                            !.result = IF stopping THEN "returned" ELSE @,
                            !.restoring = FALSE, !.failures = 0]
    /\ UNCHANGED <<broker, missing, foreign, orphan, client, stopping, faults>>

\* A queue that is missing also costs the ping its channel.
PingFails ==
    /\ loop.pc = "ping" /\ ~PingSucceeds
    /\ IF loop.restoring THEN Fail
       ELSE loop' = [loop EXCEPT !.pc = "abandon", !.restoring = TRUE]
    /\ client' = IF Answers THEN WithoutChannel(client, client.cached) ELSE client
    /\ UNCHANGED <<broker, missing, foreign, orphan, stopping, faults>>

\* _abandon: disconnect, and drop if that hangs.
Abandon ==
    /\ client' = Closed
    /\ orphan' = IF CanDisconnect THEN orphan ELSE Forgotten

\* _abandon at the start of _reconnect.
Reconnect ==
    /\ loop.pc = "abandon"
    /\ Abandon
    /\ loop' = [loop EXCEPT !.pc = "connect", !.consuming = FALSE]
    /\ UNCHANGED <<broker, missing, foreign, stopping, faults>>

\* Reconcile and publish; an answer that cannot be published is stored as a failed
\* attempt (module Outbox).
Work ==
    /\ loop.pc = "work"
    /\ UNCHANGED client \/ (Answers /\ client' = Declared(Reply))
    /\ Goto("sleep")
    /\ UNCHANGED <<broker, missing, foreign, orphan, stopping, faults>>

Wake ==
    /\ loop.pc \in {"sleep", "backoff"}
    /\ Goto("loop")
    /\ UNCHANGED <<broker, missing, foreign, orphan, client, stopping, faults>>

\* The finally clause of execute.
Finish ==
    /\ loop.pc = "final"
    /\ Abandon
    /\ loop' = [loop EXCEPT !.pc = "ended", !.consuming = FALSE, !.held = FALSE]
    /\ UNCHANGED <<broker, missing, foreign, stopping, faults>>

\* The task is cancelled at an await. In the finally clause that skips the rest
\* of it: neither drop nor self._client = None is reached.
Cancelled ==
    CASE loop.pc \in {"absent", "ended"} -> loop
      [] loop.pc \in {"idle", "final"}   -> [loop EXCEPT !.pc = "ended", !.result = "cancelled"]
      [] OTHER                           -> [loop EXCEPT !.pc = "final", !.result = "cancelled"]

-----------------------------------------------------------------------------
(* The broker and the network. *)

Fault(kind) ==
    /\ kind \in Faults /\ faults < MaxFaults
    /\ faults' = faults + 1

Lost == [client EXCEPT !.conn = IF @ = "open" THEN "lost" ELSE @,
                       !.consumers = {}, !.detached = @ \cup client.consumers]

BrokerDown ==
    /\ Fault("down") /\ broker # "down"
    /\ broker' = "down"
    /\ client' = Lost
    /\ orphan' = NoOrphan
    /\ UNCHANGED <<missing, foreign, loop, stopping>>

BrokerSilent ==
    /\ Fault("silent") /\ broker = "up"
    /\ broker' = "silent"
    /\ UNCHANGED <<missing, foreign, orphan, client, loop, stopping>>

BrokerBack ==
    /\ broker # "up"
    /\ broker' = "up"
    /\ UNCHANGED <<missing, foreign, orphan, client, loop, stopping, faults>>

ConnectionLost ==
    /\ Fault("lost") /\ client.conn = "open"
    /\ client' = Lost
    /\ UNCHANGED <<broker, missing, foreign, orphan, loop, stopping>>

\* The heartbeats of a connection stay away: both sides give it up.
HeartbeatMissed ==
    /\ broker = "silent" /\ (client.conn = "open" \/ orphan.open)
    /\ client' = Lost
    /\ orphan' = NoOrphan
    /\ UNCHANGED <<broker, missing, foreign, loop, stopping, faults>>

\* The broker closes the connection that the client stopped to close.
OrphanCloses ==
    /\ orphan.open /\ broker = "up"
    /\ orphan' = NoOrphan
    /\ UNCHANGED <<broker, missing, foreign, client, loop, stopping, faults>>

\* The robust connection of aio_pika.
LibraryReconnects ==
    /\ client.conn = "lost" /\ broker = "up"
    /\ client' = [client EXCEPT !.conn = "open"]
    /\ UNCHANGED <<broker, missing, foreign, orphan, loop, stopping, faults>>

LibraryRestores(q) ==
    /\ Answers /\ q \in client.detached
    /\ client' = [client EXCEPT !.detached = @ \ {q}, !.consumers = @ \cup {q}]
    /\ UNCHANGED <<broker, missing, foreign, orphan, loop, stopping, faults>>

\* Somebody deletes a queue: the broker cancels its consumer.
Delete(q) ==
    /\ Fault("delete") /\ q \notin missing
    /\ missing' = missing \cup {q}
    /\ foreign' = foreign \ {q}
    /\ client' = [client EXCEPT !.consumers = @ \ {q}, !.detached = @ \ {q}]
    /\ orphan' = [orphan EXCEPT !.consumers = @ \ {q}]
    /\ UNCHANGED <<broker, loop, stopping>>

\* An error of the database in reconcile or publish leaves execute.
WorkFails ==
    /\ loop.pc = "work" /\ Fault("dberror")
    /\ Leave("raised")
    /\ UNCHANGED <<broker, missing, foreign, orphan, client, stopping>>

-----------------------------------------------------------------------------
LoopStep ==
    \/ Idle \/ Connect \/ ConnectFails \/ OpenChannel \/ ChannelFails
    \/ Consume \/ ConsumeFails \/ NextRound \/ Ping \/ PingFails \/ Reconnect
    \/ Work \/ Wake \/ Finish

Library == LibraryReconnects \/ \E q \in Queue : LibraryRestores(q)

LoopEnvironment ==
    \/ BrokerDown \/ BrokerSilent \/ BrokerBack \/ ConnectionLost
    \/ HeartbeatMissed \/ OrphanCloses \/ Library \/ WorkFails
    \/ \E q \in Deletable : Delete(q)
=============================================================================
