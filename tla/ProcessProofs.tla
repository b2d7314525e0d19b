---------------------------- MODULE ProcessProofs ----------------------------
(* Proofs about RunnerApp, for every value of its constants: any queues, any   *)
(* limit of failed pings and any number and mix of faults.                     *)
EXTENDS ProcessProperties, TLAPS

\* What the DB runner does by itself.
RunnerStep == DbStep \/ BatchEnds \/ RequeueFails \/ BatchFails \/ StraysEnd

-----------------------------------------------------------------------------
(* Types. *)

LEMMA InputTyped ==
    ASSUME LoopAssumption
    PROVE  /\ Len(Inputs) \in Nat \ {0}
           /\ \A i \in 1 .. Len(Inputs) : Inputs[i] \in Queue
<1>1. Inputs \in Seq(Queue) /\ Inputs # <<>>
  BY DEF LoopAssumption
<1>2. QED
  BY <1>1

LEMMA ClientTyped ==
    ASSUME client \in Client
    PROVE  /\ Closed \in Client
           /\ [Closed EXCEPT !.conn = "open"] \in Client
           /\ Lost \in Client
           /\ WithoutChannel(client, client.cached) \in Client
           /\ \A q \in Queue \cup {Reply} : Declared(q) \in Client
<1> USE DEF Client
<1>1. Closed \in Client
  BY DEF Closed
<1>2. [Closed EXCEPT !.conn = "open"] \in Client
  BY DEF Closed
<1>3. Lost \in Client
  BY DEF Lost
<1>4. ASSUME NEW cached \in SUBSET (Queue \cup {Reply})
      PROVE  WithoutChannel(client, cached) \in Client
  BY DEF WithoutChannel
<1>5. ASSUME NEW q \in Queue \cup {Reply}
      PROVE  Declared(q) \in Client
  <2>1. {q} \in SUBSET (Queue \cup {Reply})
    OBVIOUS
  <2>2. [client EXCEPT !.cached = @ \cup {q}] \in Client
    OBVIOUS
  <2>3. QED
    BY <1>4, <2>1, <2>2 DEF Declared
<1>6. QED
  BY <1>1, <1>2, <1>3, <1>4, <1>5

LEMMA OrphanTyped ==
    ASSUME client \in Client, orphan \in Orphan
    PROVE  /\ NoOrphan \in Orphan /\ Forgotten \in Orphan
           /\ Forgotten.open /\ ~NoOrphan.open /\ NoOrphan.consumers = {}
           /\ \A q : [orphan EXCEPT !.consumers = @ \ {q}] \in Orphan
BY DEF Client, Orphan, NoOrphan, Forgotten

LEMMA LeaveTyped ==
    ASSUME LoopAssumption, loop \in Loop, Fail \/ Leave("returned") \/ Leave("raised")
    PROVE  loop' \in Loop
<1>1. loop.failures \in Nat /\ Limit \in Nat
  BY DEF LoopAssumption, Loop
<1>2. ASSUME NEW r \in {"returned", "raised"}, Leave(r) PROVE loop' \in Loop
  <2>1. loop' = [loop EXCEPT !.pc = "final", !.result = r]
    BY <1>2 DEF Leave
  <2>2. QED
    BY <2>1 DEF Loop
<1>3. CASE Fail
  <2>1. CASE loop.restoring /\ loop.failures + 1 < Limit
    <3>1. loop' = [loop EXCEPT !.pc = "backoff", !.restoring = FALSE, !.failures = @ + 1]
      BY <1>3, <2>1 DEF Fail
    <3>2. loop.failures + 1 \in 0 .. Limit
      BY <1>1, <2>1
    <3>3. QED
      BY <3>1, <3>2 DEF Loop
  <2>2. CASE ~(loop.restoring /\ loop.failures + 1 < Limit)
    <3>1. Leave("raised")
      BY <1>3, <2>2 DEF Fail
    <3>2. QED
      BY <1>2, <3>1
  <2>3. QED
    BY <2>1, <2>2
<1>4. QED
  BY <1>2, <1>3

LEMMA LoopStepTyped ==
    ASSUME LoopAssumption, LoopTypeOK, LoopStep
    PROVE  LoopTypeOK'
<1>1. /\ client \in Client /\ loop \in Loop /\ orphan \in Orphan /\ Limit \in Nat \ {0}
      /\ missing \subseteq Queue
  BY DEF LoopTypeOK, LoopAssumption
<1>2. CASE Idle
  BY <1>1, <1>2 DEF Idle, LoopTypeOK, Loop
<1>3. CASE Connect
  <2>1. client' \in Client /\ orphan' \in Orphan
    BY <1>1, <1>3, ClientTyped, OrphanTyped DEF Connect
  <2>2. loop' \in Loop
    BY <1>1, <1>3 DEF Connect, Loop
  <2>3. QED
    BY <1>3, <2>1, <2>2 DEF Connect, LoopTypeOK
<1>4. CASE ConnectFails \/ ChannelFails \/ ConsumeFails
  BY <1>1, <1>4, LeaveTyped DEF ConnectFails, ChannelFails, ConsumeFails, LoopTypeOK
<1>5. CASE OpenChannel
  <2>1. 1 \in 1 .. Len(Inputs)
    BY InputTyped
  <2>2. QED
    BY <1>1, <1>5, <2>1 DEF OpenChannel, LoopTypeOK, Loop
<1>6. CASE Consume
  <2>1. loop.next \in 1 .. Len(Inputs) /\ Len(Inputs) \in Nat
    BY <1>1, InputTyped DEF Loop
  <2>2. Inputs[loop.next] \in Queue
    BY <2>1, InputTyped
  <2>3. Declared(Inputs[loop.next]) \in Client
    BY <1>1, <2>2, ClientTyped
  <2>4. client' \in Client
    BY <1>6, <2>2, <2>3 DEF Consume, Client
  <2>5. loop' \in Loop
    <3>1. CASE loop.next < Len(Inputs)
      <4>1. loop' = [loop EXCEPT !.next = @ + 1]
        BY <1>6, <3>1 DEF Consume
      <4>2. loop.next + 1 \in 1 .. Len(Inputs)
        BY <2>1, <3>1
      <4>3. QED
        BY <1>1, <4>1, <4>2 DEF Loop
    <3>2. CASE ~(loop.next < Len(Inputs))
      <4>1. PICK l \in {"ping", "loop"} : loop' = [loop EXCEPT !.pc = l, !.consuming = TRUE]
        BY <1>6, <3>2 DEF Consume
      <4>2. QED
        BY <1>1, <4>1 DEF Loop
    <3>3. QED
      BY <3>1, <3>2
  <2>6. QED
    BY <1>1, <1>6, <2>4, <2>5 DEF Consume, LoopTypeOK
<1>7. CASE NextRound
  <2>1. loop' \in Loop
    <3>1. CASE Leave("returned")
      BY <1>1, <3>1, LeaveTyped
    <3>2. CASE Goto("ping")
      BY <1>1, <3>2 DEF Goto, Loop
    <3>3. CASE loop' = [loop EXCEPT !.pc = "abandon", !.restoring = TRUE]
      BY <1>1, <3>3 DEF Loop
    <3>4. QED
      BY <1>7, <3>1, <3>2, <3>3 DEF NextRound
  <2>2. QED
    BY <1>7, <2>1 DEF NextRound, LoopTypeOK
<1>8. CASE Ping
  <2>1. PICK l \in {"final", "work"}, r \in {"returned", loop.result} :
            loop' = [loop EXCEPT !.pc = l, !.result = r, !.restoring = FALSE, !.failures = 0]
    BY <1>8 DEF Ping
  <2>2. r \in {"none", "returned", "raised", "cancelled"} /\ 0 \in 0 .. Limit
    BY <1>1 DEF Loop
  <2>3. loop' \in Loop
    BY <1>1, <2>1, <2>2 DEF Loop
  <2>4. QED
    BY <1>8, <2>3 DEF Ping, LoopTypeOK
<1>9. CASE PingFails
  <2>1. client' \in Client
    BY <1>1, <1>9, ClientTyped DEF PingFails
  <2>2. loop' \in Loop
    <3>1. CASE Fail
      BY <1>1, <3>1, LeaveTyped
    <3>2. CASE loop' = [loop EXCEPT !.pc = "abandon", !.restoring = TRUE]
      BY <1>1, <3>2 DEF Loop
    <3>3. QED
      BY <1>9, <3>1, <3>2 DEF PingFails
  <2>3. QED
    BY <1>9, <2>1, <2>2 DEF PingFails, LoopTypeOK
<1>10. CASE Reconnect \/ Finish
  <2>1. client' \in Client /\ orphan' \in Orphan
    BY <1>1, <1>10, ClientTyped, OrphanTyped DEF Reconnect, Finish, Abandon
  <2>2. loop' \in Loop
    <3>1. CASE Reconnect
      BY <1>1, <3>1 DEF Reconnect, Loop
    <3>2. CASE Finish
      BY <1>1, <3>2 DEF Finish, Loop
    <3>3. QED
      BY <1>10, <3>1, <3>2
  <2>3. QED
    BY <1>10, <2>1, <2>2 DEF Reconnect, Finish, LoopTypeOK
<1>11. CASE Work \/ Wake
  <2>1. client' \in Client
    BY <1>1, <1>11, ClientTyped DEF Work, Wake
  <2>2. loop' \in Loop
    BY <1>1, <1>11 DEF Work, Wake, Goto, Loop
  <2>3. QED
    BY <1>11, <2>1, <2>2 DEF Work, Wake, LoopTypeOK
<1>12. QED
  BY <1>2, <1>3, <1>4, <1>5, <1>6, <1>7, <1>8, <1>9, <1>10, <1>11 DEF LoopStep

LEMMA EnvironmentTyped ==
    ASSUME LoopAssumption, LoopTypeOK, LoopEnvironment
    PROVE  LoopTypeOK'
<1>1. /\ client \in Client /\ loop \in Loop /\ orphan \in Orphan /\ MaxFaults \in Nat
      /\ faults \in 0 .. MaxFaults
      /\ Deletable \subseteq Queue
  BY DEF LoopTypeOK, LoopAssumption
<1>2. ASSUME NEW kind, Fault(kind) PROVE faults' \in 0 .. MaxFaults
  BY <1>1, <1>2 DEF Fault
<1>3. CASE BrokerDown \/ ConnectionLost \/ HeartbeatMissed
  BY <1>1, <1>2, <1>3, ClientTyped, OrphanTyped
     DEF BrokerDown, ConnectionLost, HeartbeatMissed, LoopTypeOK, Broker
<1>4. CASE BrokerSilent \/ BrokerBack \/ OrphanCloses
  BY <1>1, <1>2, <1>4, OrphanTyped DEF BrokerSilent, BrokerBack, OrphanCloses, LoopTypeOK, Broker
<1>5. CASE LibraryReconnects
  BY <1>1, <1>5 DEF LibraryReconnects, LoopTypeOK, Client
<1>6. ASSUME NEW q \in Queue, LibraryRestores(q) PROVE LoopTypeOK'
  BY <1>1, <1>6 DEF LibraryRestores, LoopTypeOK, Client
<1>7. ASSUME NEW q \in Deletable, Delete(q) PROVE LoopTypeOK'
  <2>1. q \in Queue
    BY <1>1
  <2>2. client' \in Client /\ orphan' \in Orphan
    BY <1>1, <1>7, OrphanTyped DEF Delete, Client
  <2>3. QED
    BY <1>2, <1>7, <2>1, <2>2 DEF Delete, LoopTypeOK
<1>8. CASE WorkFails
  BY <1>1, <1>2, <1>8, LeaveTyped DEF WorkFails, LoopTypeOK
<1>9. QED
  BY <1>3, <1>4, <1>5, <1>6, <1>7, <1>8 DEF LoopEnvironment, Library

LEMMA LoopUntouched ==
    ASSUME LoopTypeOK, UNCHANGED loopVars
    PROVE  LoopTypeOK'
BY DEF loopVars, LoopTypeOK

LEMMA RunnerTyped ==
    ASSUME LoopAssumption, TypeOK, RunnerStep
    PROVE  TypeOK'
<1> USE DEF TypeOK
<1>1. CASE RequeueFails \/ BatchFails
  <2>1. faults' \in 0 .. MaxFaults
    BY <1>1 DEF RequeueFails, BatchFails, Fault, LoopTypeOK, LoopAssumption
  <2>2. LoopTypeOK'
    BY <1>1, <2>1 DEF RequeueFails, BatchFails, LoopTypeOK
  <2>3. CASE RequeueFails
    BY <2>2, <2>3 DEF RequeueFails
  <2>4. CASE BatchFails
    BY <2>2, <2>4 DEF BatchFails
  <2>5. QED
    BY <1>1, <2>3, <2>4
<1>2. CASE DbStep \/ BatchEnds \/ StraysEnd
  <2>1. LoopTypeOK'
    <3>1. UNCHANGED loopVars
      BY <1>2 DEF DbStep, BatchEnds, Poll, FetchNothing, FetchBatch, BatchDrains, BatchTimeout,
                  BatchUnwinds, Requeue, StraysEnd, DbGoto
    <3>2. QED
      BY <3>1, LoopUntouched
  <2>2. CASE BatchEnds \/ StraysEnd
    <3>1. CASE BatchEnds
      BY <2>1, <3>1 DEF BatchEnds, DbGoto
    <3>2. CASE StraysEnd
      <4>1. strays' \in BOOLEAN
        BY <3>2 DEF StraysEnd
      <4>2. UNCHANGED <<phase, db, rows, first, failure, open, asked>>
        BY <3>2 DEF StraysEnd
      <4>3. QED
        BY <2>1, <4>1, <4>2
    <3>3. QED
      BY <2>2, <3>1, <3>2
  <2>3. CASE Poll \/ FetchNothing \/ FetchBatch
    BY <2>1, <2>3 DEF Poll, FetchNothing, FetchBatch, DbGoto
  <2>4. CASE BatchDrains
    BY <2>1, <2>4 DEF BatchDrains
  <2>5. CASE BatchTimeout \/ BatchUnwinds \/ Requeue
    BY <2>1, <2>5 DEF BatchTimeout, BatchUnwinds, Requeue, DbGoto
  <2>6. QED
    BY <1>2, <2>2, <2>3, <2>4, <2>5 DEF DbStep
<1>3. QED
  BY <1>1, <1>2 DEF RunnerStep

LEMMA AppTyped ==
    ASSUME LoopAssumption, TypeOK, AppStep \/ EnterFails \/ Stop
    PROVE  TypeOK'
<1>1. LoopTypeOK /\ loop \in Loop /\ client \in Client
  BY DEF TypeOK, LoopTypeOK
<1>2. CASE Enter
  <2>1. loop' \in Loop
    BY <1>1, <1>2 DEF Enter, Start, Goto, Loop
  <2>2. QED
    BY <1>2, <2>1 DEF Enter, TypeOK, LoopTypeOK
<1>3. CASE NoticeStop \/ NoticeDeath
  <2>1. StartDrain /\ failure' \in {failure, ~stopping}
    BY <1>3 DEF NoticeStop, NoticeDeath
  <2>2. failure' \in BOOLEAN
    BY <2>1 DEF TypeOK, LoopTypeOK
  <2>3. first' \in {"none", "app", "batch"}
    BY <2>1 DEF StartDrain, TypeOK
  <2>4. LoopTypeOK'
    BY <1>1, <2>1 DEF StartDrain, LoopTypeOK
  <2>5. QED
    BY <2>1, <2>2, <2>3, <2>4 DEF StartDrain, TypeOK
<1>4. CASE Drained \/ Close
  <2>1. LoopTypeOK'
    <3>1. UNCHANGED loopVars
      BY <1>4 DEF Drained, Close
    <3>2. QED
      BY <1>1, <3>1, LoopUntouched
  <2>2. CASE Drained
    BY <2>1, <2>2 DEF Drained, TypeOK
  <2>3. CASE Close
    BY <2>1, <2>3 DEF Close, TypeOK
  <2>4. QED
    BY <1>4, <2>2, <2>3
<1>5. CASE DrainTimeout
  <2>1. loop' \in Loop
    BY <1>1, <1>5 DEF DrainTimeout, Cancelled, Loop
  <2>2. QED
    BY <1>5, <2>1 DEF DrainTimeout, TypeOK, LoopTypeOK
<1>6. CASE ExitBroker
  <2>1. loop' \in Loop
    BY <1>1, <1>6 DEF ExitBroker, Loop
  <2>2. client' \in Client
    BY <1>1, <1>6, ClientTyped DEF ExitBroker
  <2>3. QED
    BY <1>6, <2>1, <2>2 DEF ExitBroker, TypeOK, LoopTypeOK
<1>7. CASE EnterFails
  <2>1. faults' \in 0 .. MaxFaults
    BY <1>1, <1>7 DEF EnterFails, Fault, LoopTypeOK, LoopAssumption
  <2>2. QED
    BY <1>7, <2>1 DEF EnterFails, TypeOK, LoopTypeOK
<1>8. CASE Stop
  BY <1>8 DEF Stop, TypeOK, LoopTypeOK
<1>9. QED
  BY <1>2, <1>3, <1>4, <1>5, <1>6, <1>7, <1>8 DEF AppStep

LEMMA InitTyped == LoopAssumption /\ Init => TypeOK
<1> SUFFICES ASSUME LoopAssumption, Init PROVE TypeOK
  OBVIOUS
<1>1. client \in Client
  BY DEF Init, LoopInit, Closed, Client
<1>2. 1 \in 1 .. Len(Inputs)
  BY InputTyped
<1>3. loop \in Loop
  BY <1>2 DEF Init, LoopInit, Loop, LoopAssumption
<1>4. LoopTypeOK
  <2>1. 0 \in 0 .. MaxFaults
    BY DEF LoopAssumption
  <2>2. Foreign \subseteq Queue \cup {Reply}
    BY DEF LoopAssumption
  <2>3. NoOrphan \in Orphan
    BY DEF NoOrphan, Orphan
  <2>4. QED
    BY <1>1, <1>3, <2>1, <2>2, <2>3 DEF Init, LoopInit, LoopTypeOK, Broker
<1>5. QED
  BY <1>4 DEF Init, TypeOK

LEMMA NextTyped == LoopAssumption /\ TypeOK /\ [Next]_vars => TypeOK'
<1> SUFFICES ASSUME LoopAssumption, TypeOK, [Next]_vars PROVE TypeOK'
  OBVIOUS
<1>1. CASE (LoopStep \/ LoopEnvironment) /\ UNCHANGED appVars
  <2>1. LoopTypeOK'
    BY <1>1, LoopStepTyped, EnvironmentTyped DEF TypeOK
  <2>2. QED
    BY <1>1, <2>1 DEF TypeOK, appVars
<1>2. CASE UNCHANGED vars
  BY <1>2 DEF vars, appVars, loopVars, TypeOK, LoopTypeOK
<1>3. QED
  BY <1>1, <1>2, RunnerTyped, AppTyped DEF Next, RunnerStep

-----------------------------------------------------------------------------
(* The inductive invariant. *)

\* Only a client that execute holds has consumers, restored ones included, so that
\* BrokerRunner.__aexit__ finds it.
ConsumersAreHeld ==
    /\ loop.pc = "consume" => loop.held
    /\ ~loop.held => client.consumers = {} /\ client.detached = {}

\* Connect finds no connection, and a broker that is down has none.
ConnectionIsKnown ==
    /\ loop.pc \in {"absent", "connect"} => client.conn = "none"
    /\ broker = "down" => client.conn # "open"

\* Between two batches the DB runner holds no rows.
RowsAreInBatch == db \in {"absent", "poll", "fetch"} => rows # "held"

\* What is left behind was left behind after a fault.
LeftByFault ==
    /\ broker = "silent" => faults > 0
    /\ orphan.consumers # {} => faults > 0
    /\ strays => faults > 0

Running == phase \in {"enter", "run"}

\* How run proceeds: the stop event, the failure and the ends of the tasks at
\* each of its phases.
Phases ==
    /\ open <=> phase # "ended"
    /\ phase = "enter" <=> (loop.pc = "absent" /\ db = "absent" /\ ~failure)
    /\ Running => ~failure /\ (stopping <=> asked)
    /\ ~Running => asked \/ failure
    /\ asked => stopping
    /\ phase \in {"exit", "close", "ended"} => TasksEnded
    /\ phase \in {"close", "ended"} => ~loop.held

Inv ==
    /\ TypeOK /\ ConsumersAreHeld /\ ConnectionIsKnown /\ RowsAreInBatch
    /\ LeftByFault /\ Phases

LEMMA InitInv == LoopAssumption /\ Init => Inv
<1> SUFFICES ASSUME LoopAssumption, Init PROVE Inv
  OBVIOUS
<1>1. TypeOK
  BY InitTyped
<1>2. ConsumersAreHeld /\ ConnectionIsKnown
  BY DEF Init, LoopInit, Closed, ConsumersAreHeld, ConnectionIsKnown
<1>3. RowsAreInBatch /\ LeftByFault /\ Phases
  BY DEF Init, LoopInit, NoOrphan, RowsAreInBatch, LeftByFault, Phases, Running
<1>4. QED
  BY <1>1, <1>2, <1>3 DEF Inv

\* What the helpers of the client do to its connection and its consumers.
LEMMA ClientHelpers ==
    ASSUME client \in Client
    PROVE  /\ Closed.conn = "none" /\ Closed.consumers = {} /\ Closed.detached = {}
           /\ [Closed EXCEPT !.conn = "open"].consumers = {}
           /\ [Closed EXCEPT !.conn = "open"].detached = {}
           /\ Lost.conn = (IF client.conn = "open" THEN "lost" ELSE client.conn)
           /\ Lost.consumers = {} /\ Lost.detached = client.detached \cup client.consumers
           /\ \A cached : LET c == WithoutChannel(client, cached) IN
                /\ c.conn = client.conn /\ c.consumers = {}
                /\ c.detached = client.detached \cup client.consumers
           /\ \A q : LET c == Declared(q) IN
                /\ c.conn = client.conn /\ c.consumers \subseteq client.consumers
                /\ c.detached \subseteq client.detached \cup client.consumers
<1> USE DEF Client
<1>1. /\ Closed.conn = "none" /\ Closed.consumers = {} /\ Closed.detached = {}
      /\ [Closed EXCEPT !.conn = "open"].consumers = {}
      /\ [Closed EXCEPT !.conn = "open"].detached = {}
  BY DEF Closed
<1>2. /\ Lost.conn = (IF client.conn = "open" THEN "lost" ELSE client.conn)
      /\ Lost.consumers = {} /\ Lost.detached = client.detached \cup client.consumers
  BY DEF Lost
<1>3. ASSUME NEW cached
      PROVE  LET c == WithoutChannel(client, cached) IN
                /\ c.conn = client.conn /\ c.consumers = {}
                /\ c.detached = client.detached \cup client.consumers
  BY DEF WithoutChannel
<1>4. ASSUME NEW q
      PROVE  LET c == Declared(q) IN
                /\ c.conn = client.conn /\ c.consumers \subseteq client.consumers
                /\ c.detached \subseteq client.detached \cup client.consumers
  <2>1. CASE Declared(q) = WithoutChannel(client, {q})
    BY <1>3, <2>1
  <2>2. CASE Declared(q) = [client EXCEPT !.cached = @ \cup {q}]
    BY <2>2
  <2>3. QED
    BY <2>1, <2>2 DEF Declared
<1>5. QED
  BY <1>1, <1>2, <1>3, <1>4

\* A step of execute keeps, takes or gives up the client; it never loses its hold
\* of consumers.
LEMMA LoopStepHolds ==
    ASSUME LoopAssumption, Inv, LoopStep
    PROVE  ConsumersAreHeld' /\ ConnectionIsKnown'
<1> USE DEF ConsumersAreHeld, ConnectionIsKnown
<1>1. /\ client \in Client /\ loop \in Loop /\ ConsumersAreHeld /\ ConnectionIsKnown
  BY DEF Inv, TypeOK, LoopTypeOK
<1>2. CASE Idle \/ OpenChannel \/ Wake
  <2>1. CASE Idle
    BY <1>1, <2>1 DEF Idle, Loop
  <2>2. CASE OpenChannel
    BY <1>1, <2>2 DEF OpenChannel, Loop
  <2>3. CASE Wake
    BY <1>1, <2>3 DEF Wake, Goto, Loop
  <2>4. QED
    BY <1>2, <2>1, <2>2, <2>3
<1>3. CASE Connect
  BY <1>1, <1>3, ClientHelpers DEF Connect, Loop, Closed
<1>4. ASSUME Fail \/ Leave("returned") \/ Leave("raised")
      PROVE  loop'.held = loop.held /\ loop'.pc \in {"backoff", "final"}
  BY <1>1, <1>4 DEF Fail, Leave, Loop
<1>5. CASE ConnectFails \/ ChannelFails \/ ConsumeFails
  BY <1>1, <1>4, <1>5 DEF ConnectFails, ChannelFails, ConsumeFails
<1>6. CASE Consume
  <2>1. loop.held /\ loop'.held
    BY <1>1, <1>6 DEF Consume, Loop
  <2>2. client'.conn = client.conn /\ broker' = broker
    BY <1>1, <1>6, ClientHelpers, ClientTyped, InputTyped DEF Consume, Client, Loop
  <2>3. loop'.pc \notin {"absent", "connect"}
    BY <1>1, <1>6 DEF Consume, Loop
  <2>4. QED
    BY <1>1, <2>1, <2>2, <2>3
<1>7. CASE NextRound
  <2>1. loop'.held = loop.held /\ loop'.pc \in {"backoff", "final", "ping", "abandon"}
    <3>1. CASE Leave("returned")
      BY <1>4, <3>1
    <3>2. CASE Goto("ping")
      BY <1>1, <3>2 DEF Goto, Loop
    <3>3. CASE loop' = [loop EXCEPT !.pc = "abandon", !.restoring = TRUE]
      BY <1>1, <3>3 DEF Loop
    <3>4. QED
      BY <1>7, <3>1, <3>2, <3>3 DEF NextRound
  <2>2. loop.pc = "loop" /\ UNCHANGED <<broker, client>>
    BY <1>7 DEF NextRound
  <2>3. QED
    BY <1>1, <2>1, <2>2
<1>8. CASE Ping
  BY <1>1, <1>8 DEF Ping, Loop
<1>9. CASE PingFails
  <2>1. loop'.held = loop.held /\ loop'.pc \in {"backoff", "final", "abandon"}
    BY <1>1, <1>4, <1>9 DEF PingFails, Loop
  <2>2. /\ client'.conn = client.conn
        /\ client'.consumers \subseteq client.consumers
        /\ client'.detached \subseteq client.detached \cup client.consumers
    BY <1>1, <1>9, ClientHelpers DEF PingFails
  <2>3. QED
    BY <1>1, <1>9, <2>1, <2>2 DEF PingFails
<1>10. CASE Reconnect \/ Finish
  BY <1>1, <1>10, ClientHelpers DEF Reconnect, Finish, Abandon, Loop
<1>11. CASE Work
  <2>1. /\ client'.conn = client.conn
        /\ client'.consumers \subseteq client.consumers
        /\ client'.detached \subseteq client.detached \cup client.consumers
    BY <1>1, <1>11, ClientHelpers DEF Work
  <2>2. QED
    BY <1>1, <1>11, <2>1 DEF Work, Goto, Loop
<1>12. QED
  BY <1>2, <1>3, <1>5, <1>6, <1>7, <1>8, <1>9, <1>10, <1>11 DEF LoopStep

\* The broker and the library add no consumer to a client that has none.
LEMMA EnvironmentHolds ==
    ASSUME LoopAssumption, Inv, LoopEnvironment
    PROVE  ConsumersAreHeld' /\ ConnectionIsKnown'
<1> USE DEF ConsumersAreHeld, ConnectionIsKnown
<1>1. /\ client \in Client /\ loop \in Loop /\ ConsumersAreHeld /\ ConnectionIsKnown
  BY DEF Inv, TypeOK, LoopTypeOK
<1>2. CASE BrokerDown \/ ConnectionLost \/ HeartbeatMissed
  BY <1>1, <1>2, ClientHelpers DEF BrokerDown, ConnectionLost, HeartbeatMissed
<1>3. CASE BrokerSilent \/ BrokerBack \/ OrphanCloses
  BY <1>1, <1>3 DEF BrokerSilent, BrokerBack, OrphanCloses
<1>4. CASE LibraryReconnects
  BY <1>1, <1>4 DEF LibraryReconnects, Client
<1>5. ASSUME NEW q \in Queue, LibraryRestores(q)
      PROVE  ConsumersAreHeld' /\ ConnectionIsKnown'
  BY <1>1, <1>5 DEF LibraryRestores, Client
<1>6. ASSUME NEW q \in Deletable, Delete(q)
      PROVE  ConsumersAreHeld' /\ ConnectionIsKnown'
  BY <1>1, <1>6 DEF Delete, Client
<1>7. CASE WorkFails
  BY <1>1, <1>7 DEF WorkFails, Leave, Loop
<1>8. QED
  BY <1>2, <1>3, <1>4, <1>5, <1>6, <1>7 DEF LoopEnvironment, Library

\* A step of the loop moves it only if its task runs, and ends it only in the
\* normal way.
LEMMA LoopMoves ==
    ASSUME LoopAssumption, TypeOK, LoopStep \/ LoopEnvironment
    PROVE  /\ loop' # loop => loop.pc \notin {"absent", "ended"} /\ loop'.pc # "absent"
           /\ stopping' = stopping
<1>1. loop \in Loop
  BY DEF TypeOK, LoopTypeOK
<1>2. CASE LoopStep
  <2>1. stopping' = stopping
    BY <1>2 DEF LoopStep, Idle, Connect, ConnectFails, OpenChannel, ChannelFails, Consume,
                ConsumeFails, NextRound, Ping, PingFails, Reconnect, Work, Wake, Finish
  <2>2. loop.pc \notin {"absent", "ended"}
    BY <1>2 DEF LoopStep, Idle, Connect, ConnectFails, OpenChannel, ChannelFails, Consume,
                ConsumeFails, NextRound, Ping, PingFails, Reconnect, Work, Wake, Finish
  <2>3. ASSUME Fail \/ Leave("returned") \/ Leave("raised") PROVE loop'.pc # "absent"
    BY <1>1, <2>3 DEF Fail, Leave, Loop
  <2>4. CASE Idle \/ Connect \/ OpenChannel \/ Consume \/ NextRound \/ Ping
    <3>1. CASE Idle \/ Connect
      BY <1>1, <2>1, <2>2, <3>1 DEF Idle, Connect, Loop
    <3>2. CASE OpenChannel
      BY <1>1, <2>1, <2>2, <3>2 DEF OpenChannel, Loop
    <3>3. CASE Consume
      BY <1>1, <2>1, <2>2, <3>3 DEF Consume, Loop
    <3>4. CASE NextRound
      <4>1. loop'.pc # "absent"
        BY <1>1, <2>3, <3>4 DEF NextRound, Goto, Loop
      <4>2. QED
        BY <2>1, <2>2, <4>1
    <3>5. CASE Ping
      BY <1>1, <2>1, <2>2, <3>5 DEF Ping, Loop
    <3>6. QED
      BY <2>4, <3>1, <3>2, <3>3, <3>4, <3>5
  <2>5. CASE ConnectFails \/ ChannelFails \/ ConsumeFails \/ PingFails
    BY <1>1, <2>3, <2>5 DEF ConnectFails, ChannelFails, ConsumeFails, PingFails, Loop
  <2>6. CASE Reconnect \/ Work \/ Wake \/ Finish
    BY <1>1, <2>6 DEF Reconnect, Work, Wake, Finish, Goto, Loop
  <2>7. QED
    BY <1>2, <2>1, <2>2, <2>4, <2>5, <2>6 DEF LoopStep
<1>3. CASE LoopEnvironment
  <2>1. CASE WorkFails
    BY <1>1, <2>1 DEF WorkFails, Leave, Loop
  <2>2. CASE LoopEnvironment /\ ~WorkFails
    BY <2>2 DEF LoopEnvironment, BrokerDown, BrokerSilent, BrokerBack, ConnectionLost,
                HeartbeatMissed, OrphanCloses, Library, LibraryReconnects, LibraryRestores, Delete
  <2>3. QED
    BY <1>3, <2>1, <2>2
<1>4. QED
  BY <1>2, <1>3

\* The steps of the DB runner leave everything of the loop alone, but for the fault;
\* what is left of a failed batch may end when the runner has.
LEMMA RunnerMoves ==
    ASSUME TypeOK, RunnerStep
    PROVE  /\ UNCHANGED <<broker, orphan, client, loop, stopping, phase, failure, open, asked>>
           /\ db' = db \/ (db \notin {"absent", "ended"} /\ db' # "absent")
BY DEF RunnerStep, DbStep, BatchEnds, RequeueFails, BatchFails, StraysEnd, Poll, FetchNothing,
       FetchBatch, BatchDrains, BatchTimeout, BatchUnwinds, Requeue, DbGoto, loopVars

LEMMA NextConsumersAreHeld ==
    ASSUME LoopAssumption, Inv, [Next]_vars
    PROVE  ConsumersAreHeld' /\ ConnectionIsKnown'
<1> USE DEF ConsumersAreHeld, ConnectionIsKnown
<1>1. /\ client \in Client /\ loop \in Loop /\ ConsumersAreHeld /\ ConnectionIsKnown
      /\ TypeOK /\ Phases
  BY DEF Inv, TypeOK, LoopTypeOK
<1>2. CASE LoopStep \/ LoopEnvironment
  BY <1>2, LoopStepHolds, EnvironmentHolds
<1>3. CASE RunnerStep
  BY <1>1, <1>3, RunnerMoves
<1>4. CASE Enter
  <2>1. loop.pc = "absent"
    BY <1>1, <1>4 DEF Enter, Phases
  <2>2. loop'.held = loop.held /\ loop'.pc \in {"absent", "idle", "connect"}
    BY <1>1, <1>4, <2>1 DEF Enter, Start, Goto, Loop
  <2>3. QED
    BY <1>1, <1>4, <2>1, <2>2 DEF Enter
<1>5. CASE NoticeStop \/ NoticeDeath \/ Stop \/ EnterFails
  BY <1>1, <1>5 DEF NoticeStop, NoticeDeath, StartDrain, Stop, EnterFails
<1>6. CASE Drained \/ Close \/ UNCHANGED vars
  BY <1>1, <1>6 DEF Drained, Close, vars, loopVars
<1>7. CASE DrainTimeout
  <2>1. loop'.held = loop.held /\ loop'.pc \in {"ended", "final", loop.pc} /\ loop'.pc # "consume"
    BY <1>1, <1>7 DEF DrainTimeout, Cancelled, Loop
  <2>2. QED
    BY <1>1, <1>7, <2>1 DEF DrainTimeout
<1>8. CASE ExitBroker
  <2>1. loop.pc \in {"absent", "ended"} /\ loop'.pc = loop.pc
    BY <1>1, <1>8 DEF ExitBroker, Phases, TasksEnded, Loop
  <2>2. client' = Closed \/ (client' = client /\ ~loop.held)
    BY <1>8 DEF ExitBroker
  <2>3. QED
    BY <1>1, <1>8, <2>1, <2>2, ClientHelpers DEF ExitBroker
<1>9. QED
  BY <1>2, <1>3, <1>4, <1>5, <1>6, <1>7, <1>8 DEF Next, RunnerStep, AppStep

LEMMA NextRowsAreInBatch ==
    ASSUME Inv, [Next]_vars
    PROVE  RowsAreInBatch'
<1> USE DEF RowsAreInBatch, Inv
<1>1. CASE RunnerStep
  BY <1>1 DEF RunnerStep, DbStep, BatchEnds, RequeueFails, BatchFails, StraysEnd, Poll,
              FetchNothing, FetchBatch, BatchDrains, BatchTimeout, BatchUnwinds, Requeue, DbGoto
<1>2. CASE UNCHANGED appVars \/ UNCHANGED vars
  BY <1>2 DEF appVars, vars
<1>3. CASE AppStep \/ EnterFails \/ Stop
  <2>1. CASE DrainTimeout
    BY <2>1 DEF DrainTimeout
  <2>2. CASE Enter
    BY <2>2 DEF Enter, Phases
  <2>3. CASE NoticeStop \/ NoticeDeath \/ Drained \/ ExitBroker \/ Close \/ EnterFails \/ Stop
    BY <2>3 DEF NoticeStop, NoticeDeath, StartDrain, Drained, ExitBroker, Close, EnterFails, Stop
  <2>4. QED
    BY <1>3, <2>1, <2>2, <2>3 DEF AppStep
<1>4. QED
  BY <1>1, <1>2, <1>3 DEF Next, RunnerStep

LEMMA NextLeftByFault ==
    ASSUME LoopAssumption, Inv, [Next]_vars
    PROVE  LeftByFault'
<1> USE DEF LeftByFault
<1>1. /\ client \in Client /\ orphan \in Orphan /\ LeftByFault /\ ConsumersAreHeld
      /\ ConnectionIsKnown /\ faults \in Nat /\ broker \in Broker /\ loop \in Loop
  BY DEF Inv, TypeOK, LoopTypeOK, LoopAssumption
<1>2. CASE LoopStep /\ UNCHANGED appVars
  <2>1. UNCHANGED <<broker, strays, faults>>
    BY <1>2 DEF LoopStep, Idle, Connect, ConnectFails, OpenChannel, ChannelFails, Consume,
                ConsumeFails, NextRound, Ping, PingFails, Reconnect, Work, Wake, Finish, appVars
  <2>2. orphan' = orphan \/ (client.conn = "open" /\ broker # "up")
    <3>1. CASE Connect
      BY <1>1, <3>1 DEF Connect, ConnectionIsKnown
    <3>2. CASE Reconnect \/ Finish
      BY <3>2 DEF Reconnect, Finish, Abandon, CanDisconnect
    <3>3. CASE ~Connect /\ ~Reconnect /\ ~Finish
      BY <1>2, <3>3 DEF LoopStep, Idle, ConnectFails, OpenChannel, ChannelFails, Consume,
                ConsumeFails, NextRound, Ping, PingFails, Work, Wake
    <3>4. QED
      BY <3>1, <3>2, <3>3
  <2>3. CASE client.conn = "open" /\ broker # "up"
    BY <1>1, <2>1, <2>3 DEF ConnectionIsKnown, Broker
  <2>4. QED
    BY <1>1, <2>1, <2>2, <2>3
<1>3. CASE LoopEnvironment /\ UNCHANGED appVars
  <2>1. strays' = strays
    BY <1>3 DEF appVars
  <2>2. ASSUME NEW kind, Fault(kind) PROVE faults' > 0
    BY <1>1, <2>2 DEF Fault
  <2>3. CASE BrokerDown \/ BrokerSilent \/ ConnectionLost \/ WorkFails \/ \E q \in Deletable : Delete(q)
    BY <2>2, <2>3 DEF BrokerDown, BrokerSilent, ConnectionLost, WorkFails, Delete
  <2>4. CASE BrokerBack \/ LibraryReconnects \/ \E q \in Queue : LibraryRestores(q)
    BY <1>1, <2>1, <2>4 DEF BrokerBack, LibraryReconnects, LibraryRestores
  <2>5. CASE HeartbeatMissed \/ OrphanCloses
    BY <1>1, <2>1, <2>5, OrphanTyped DEF HeartbeatMissed, OrphanCloses
  <2>6. QED
    BY <1>3, <2>3, <2>4, <2>5 DEF LoopEnvironment, Library
<1>4. CASE RunnerStep
  <2>1. CASE RequeueFails \/ BatchFails
    BY <1>1, <2>1 DEF RequeueFails, BatchFails, Fault
  <2>2. CASE DbStep \/ BatchEnds \/ StraysEnd
    BY <1>1, <2>2 DEF DbStep, BatchEnds, StraysEnd, Poll, FetchNothing, FetchBatch, BatchDrains,
                      BatchTimeout, BatchUnwinds, Requeue, DbGoto, loopVars
  <2>3. QED
    BY <1>4, <2>1, <2>2 DEF RunnerStep
<1>5. CASE AppStep \/ Stop
  BY <1>1, <1>5 DEF AppStep, Stop, Enter, NoticeStop, NoticeDeath, StartDrain, Drained,
                    DrainTimeout, ExitBroker, Close, loopVars
<1>6. CASE EnterFails
  BY <1>1, <1>6 DEF EnterFails, Fault
<1>7. CASE UNCHANGED vars
  BY <1>1, <1>7 DEF vars, appVars, loopVars
<1>8. QED
  BY <1>2, <1>3, <1>4, <1>5, <1>6, <1>7 DEF Next, RunnerStep

LEMMA NextPhases ==
    ASSUME LoopAssumption, Inv, [Next]_vars
    PROVE  Phases'
<1> USE DEF Phases, Running, TasksEnded
<1>1. loop \in Loop /\ Phases /\ TypeOK
  BY DEF Inv, TypeOK, LoopTypeOK
<1>2. CASE (LoopStep \/ LoopEnvironment) /\ UNCHANGED appVars
  <2>1. UNCHANGED <<phase, db, failure, open, asked, stopping>>
    BY <1>1, <1>2, LoopMoves DEF appVars
  <2>2. CASE loop' = loop
    BY <1>1, <2>1, <2>2
  <2>3. CASE loop' # loop
    <3>1. loop.pc \notin {"absent", "ended"} /\ loop'.pc # "absent"
      BY <1>1, <1>2, <2>3, LoopMoves
    <3>2. QED
      BY <1>1, <2>1, <3>1
  <2>4. QED
    BY <2>2, <2>3
<1>3. CASE RunnerStep
  BY <1>1, <1>3, RunnerMoves
<1>4. CASE Enter
  <2>1. /\ loop.pc = "absent" /\ phase = "enter" /\ phase' = "run"
        /\ UNCHANGED <<failure, open, asked, stopping>>
    BY <1>1, <1>4 DEF Enter
  <2>2. loop'.pc # "absent" \/ db' # "absent"
    BY <1>1, <1>4 DEF Enter, Start, Goto, Loop
  <2>3. QED
    BY <1>1, <2>1, <2>2
<1>5. CASE EnterFails \/ Stop
  BY <1>1, <1>5 DEF EnterFails, Stop
<1>6. CASE NoticeStop \/ NoticeDeath
  BY <1>1, <1>6 DEF NoticeStop, NoticeDeath, StartDrain, TypeOK
<1>7. CASE Drained \/ Close
  BY <1>1, <1>7 DEF Drained, Close, loopVars
<1>8. CASE DrainTimeout
  <2>1. loop'.pc = "absent" <=> loop.pc = "absent"
    BY <1>1, <1>8 DEF DrainTimeout, Cancelled, Loop
  <2>2. db' = "absent" <=> db = "absent"
    BY <1>8 DEF DrainTimeout
  <2>3. QED
    BY <1>1, <1>8, <2>1, <2>2 DEF DrainTimeout
<1>9. CASE ExitBroker
  <2>1. loop'.pc = loop.pc /\ ~loop'.held
    BY <1>1, <1>9 DEF ExitBroker, Loop
  <2>2. QED
    BY <1>1, <1>9, <2>1 DEF ExitBroker
<1>10. CASE UNCHANGED vars
  BY <1>1, <1>10 DEF vars, appVars, loopVars
<1>11. QED
  BY <1>2, <1>3, <1>4, <1>5, <1>6, <1>7, <1>8, <1>9, <1>10 DEF Next, RunnerStep, AppStep

LEMMA NextInv == LoopAssumption /\ Inv /\ [Next]_vars => Inv'
BY NextTyped, NextConsumersAreHeld, NextRowsAreInBatch, NextLeftByFault, NextPhases DEF Inv

LEMMA InvHolds == Spec => []Inv
BY InitInv, NextInv, LoopAssumption, PTL DEF Spec

-----------------------------------------------------------------------------
(* The theorems. *)

\* The state of the process always has its type: the runner never counts more than
\* Limit failed pings and never asks for a queue after the last one of Inputs.
THEOREM ProcessTypeCorrect == Spec => []TypeOK
<1>1. Inv => TypeOK
  BY DEF Inv
<1>2. QED
  BY <1>1, InvHolds, PTL

\* When run closes the pool and the engine, both runners have ended and the client
\* has no consumer that calls into them, whatever stop, timeout and fault came
\* before. Without a fault no task of a batch and no given up connection is left.
THEOREM PoolOutlivesUsers == Spec => []UsersGoFirst
<1>1. Inv => UsersGoFirst
  BY DEF Inv, ConsumersAreHeld, LeftByFault, Phases, UsersGoFirst
<1>2. QED
  BY <1>1, InvHolds, PTL

\* A connection is given up open only while the broker does not answer (_abandon
\* before each restart, disconnect in the finally clause and in __aexit__).
THEOREM NoConnectionIsLeftOpen == Spec => ConnectionsAreClosed
<1>1. ASSUME Inv, [Next]_vars, ~(orphan'.open /\ ~orphan.open => broker = "silent")
      PROVE  FALSE
  <2>0. orphan \in Orphan /\ client \in Client
    BY <1>1 DEF Inv, TypeOK, LoopTypeOK
  <2>1. orphan' # orphan /\ broker # "silent" /\ ~orphan.open /\ orphan'.open
    BY <1>1
  <2>2. Reconnect \/ Finish \/ Connect
    BY <1>1, <2>0, <2>1, RunnerMoves, OrphanTyped
       DEF Inv, Next, RunnerStep, Orphan, AppStep, LoopStep, LoopEnvironment, Library, vars, loopVars, Idle, ConnectFails, OpenChannel,
           ChannelFails, Consume, ConsumeFails, NextRound, Ping, PingFails, Work, Wake, BrokerDown,
           BrokerSilent, BrokerBack, ConnectionLost, HeartbeatMissed, OrphanCloses,
           LibraryReconnects, LibraryRestores, WorkFails, Delete, Enter, NoticeStop, NoticeDeath,
           StartDrain, Drained, DrainTimeout, ExitBroker, Close, EnterFails, Stop
  <2>3. broker \in {"up", "down"} /\ broker = "down" => client.conn # "open"
    BY <1>1, <2>1 DEF Inv, ConnectionIsKnown
  <2>4. CASE Connect
    BY <1>1, <2>1, <2>4 DEF Connect, Inv, ConnectionIsKnown
  <2>5. CASE Reconnect \/ Finish
    BY <1>1, <2>1, <2>5 DEF Reconnect, Finish, Abandon, CanDisconnect, Inv, ConnectionIsKnown,
                            TypeOK, LoopTypeOK, Broker
  <2>6. QED
    BY <2>2, <2>4, <2>5
<1>2. Inv /\ [Next]_vars => [orphan'.open /\ ~orphan.open => broker = "silent"]_vars
  BY <1>1
<1>3. QED
  BY <1>2, InvHolds, PTL DEF Spec, ConnectionsAreClosed

\* A DB runner that ends with the rows of its batch was cut short by the timer of
\* the application or by a failure of the database.
THEOREM BatchGivesRowsBack == Spec => RowsAreGivenBack
<1>1. ASSUME Inv, [Next]_vars, db # "ended", db' = "ended", rows' = "held"
      PROVE  faults' # faults \/ (phase = "drain" /\ phase' = "cancel")
  <2>1. ~UNCHANGED db
    BY <1>1
  <2>2. RunnerStep \/ AppStep
    BY <1>1, <2>1 DEF Next, RunnerStep, vars, appVars, EnterFails, Stop
  <2>3. CASE DbStep \/ BatchEnds \/ BatchFails \/ StraysEnd
    BY <1>1, <2>3 DEF DbStep, BatchEnds, BatchFails, StraysEnd, Poll, FetchNothing, FetchBatch,
                      BatchDrains, BatchTimeout, BatchUnwinds, Requeue, DbGoto, Inv, RowsAreInBatch
  <2>4. CASE RequeueFails
    BY <1>1, <2>4 DEF RequeueFails, Fault, Inv, TypeOK, LoopTypeOK
  <2>5. CASE AppStep
    BY <1>1, <2>1, <2>5 DEF AppStep, Enter, NoticeStop, NoticeDeath, StartDrain, Drained,
                            DrainTimeout, ExitBroker, Close, Inv, TypeOK
  <2>6. QED
    BY <2>2, <2>3, <2>4, <2>5 DEF RunnerStep
<1>2. Inv /\ [Next]_vars =>
          [db # "ended" /\ db' = "ended" /\ rows' = "held" =>
              faults' # faults \/ (phase = "drain" /\ phase' = "cancel")]_vars
  BY <1>1
<1>3. QED
  BY <1>2, InvHolds, PTL DEF Spec, RowsAreGivenBack

-----------------------------------------------------------------------------
(* RunnerApp implements WorkerProcess, but for the fairness. *)

started == loop.pc # "absent" \/ db # "absent"
dead == loop.pc = "ended"

LEMMA InitImplements == LoopAssumption /\ Init => Process!Init
BY DEF Init, LoopInit, status, Process!Init

\* The status the operator sees follows from the phase, the failure and the request.
LEMMA StatusFollows ==
    ASSUME UNCHANGED <<failure, asked>>, phase' = "ended" <=> phase = "ended"
    PROVE  status' = status
BY DEF status

LEMMA LoopImplements ==
    ASSUME LoopAssumption, Inv, LoopStep \/ LoopEnvironment, UNCHANGED appVars
    PROVE  [Process!Next]_(Process!vars)
<1>1. status' = status
  BY StatusFollows DEF appVars
<1>2. loop' # loop => loop.pc \notin {"absent", "ended"} /\ loop'.pc # "absent"
  BY LoopMoves DEF Inv
<1>3. started' = started
  BY <1>2 DEF started, appVars
<1>4. CASE dead' = dead
  BY <1>1, <1>3, <1>4 DEF started, dead, Process!vars
<1>5. CASE dead' # dead
  <2>1. started /\ ~dead /\ dead'
    BY <1>2, <1>5 DEF started, dead
  <2>2. Process!BrokerEnds
    BY <1>1, <1>3, <2>1 DEF Process!BrokerEnds, started, dead
  <2>3. QED
    BY <2>2 DEF Process!Next
<1>6. QED
  BY <1>4, <1>5

LEMMA RunnerImplements ==
    ASSUME Inv, RunnerStep
    PROVE  UNCHANGED Process!vars
<1>1. /\ UNCHANGED <<loop, phase, failure, asked>>
      /\ db' = "absent" <=> db = "absent"
  BY RunnerMoves DEF Inv
<1>2. QED
  BY <1>1, StatusFollows DEF Process!vars

LEMMA AppImplements ==
    ASSUME LoopAssumption, Inv, AppStep \/ EnterFails \/ Stop
    PROVE  [Process!Next]_(Process!vars)
<1>1. loop \in Loop /\ Phases /\ TypeOK
  BY DEF Inv, TypeOK, LoopTypeOK
<1>2. CASE Enter
  <2>1. phase = "enter" /\ ~failure /\ loop.pc = "absent" /\ db = "absent"
    BY <1>1, <1>2 DEF Enter, Phases
  <2>2. status' = status /\ status \in {"up", "asked"}
    BY <1>2, <2>1, StatusFollows DEF Enter, status
  <2>3. (loop'.pc # "absent" \/ db' # "absent") /\ loop'.pc # "ended"
    BY <1>1, <1>2, <2>1 DEF Enter, Start, Goto, Loop
  <2>4. Process!Start
    BY <2>1, <2>2, <2>3 DEF Process!Start, Process!Alive
  <2>5. QED
    BY <2>4 DEF Process!Next
<1>3. CASE EnterFails
  <2>1. phase = "enter" /\ ~failure /\ loop.pc = "absent" /\ db = "absent"
    BY <1>1, <1>3 DEF EnterFails, Phases
  <2>2. status \in {"up", "asked"} /\ status' = "failed"
    BY <1>3, <2>1 DEF EnterFails, status
  <2>3. Process!CannotStart
    BY <1>3, <2>1, <2>2 DEF EnterFails, Process!CannotStart, Process!Alive
  <2>4. QED
    BY <2>3 DEF Process!Next
<1>4. CASE Stop
  <2>1. phase \in {"enter", "run"} /\ ~failure /\ ~asked
    BY <1>1, <1>4 DEF Stop, Phases, Running
  <2>2. status = "up" /\ status' = "asked"
    BY <1>4, <2>1 DEF Stop, status
  <2>3. Process!Ask
    BY <1>4, <2>2 DEF Stop, Process!Ask
  <2>4. QED
    BY <2>3 DEF Process!Next
<1>5. CASE NoticeStop \/ Drained
  <2>1. UNCHANGED <<loop, db, failure, asked>> /\ phase # "ended" /\ phase' # "ended"
    BY <1>5 DEF NoticeStop, StartDrain, Drained, loopVars
  <2>2. QED
    BY <2>1, StatusFollows DEF Process!vars
<1>6. CASE NoticeDeath
  <2>1. /\ phase = "run" /\ phase' = "drain" /\ ~failure /\ (stopping <=> asked)
        /\ failure' = ~stopping
        /\ loop.pc = "ended" /\ UNCHANGED <<loop, db, asked>>
    BY <1>1, <1>6 DEF NoticeDeath, StartDrain, Phases, Running
  <2>2. CASE asked
    BY <2>1, <2>2 DEF status, Process!vars
  <2>3. CASE ~asked
    <3>1. status = "up" /\ status' = "failed"
      BY <2>1, <2>3 DEF status
    <3>2. Process!GiveUp
      BY <2>1, <3>1 DEF Process!GiveUp
    <3>3. QED
      BY <3>2 DEF Process!Next
  <2>4. QED
    BY <2>2, <2>3
<1>7. CASE DrainTimeout
  <2>1. status' = status
    BY <1>7, StatusFollows DEF DrainTimeout
  <2>2. started' = started
    BY <1>1, <1>7 DEF DrainTimeout, Cancelled, Loop, started
  <2>3. dead => dead'
    BY <1>1, <1>7 DEF DrainTimeout, Cancelled, dead
  <2>4. dead' /\ ~dead => started
    BY <1>1, <1>7 DEF DrainTimeout, Cancelled, Loop, dead, started
  <2>5. CASE dead' /\ ~dead
    <3>1. Process!BrokerEnds
      BY <2>1, <2>2, <2>4, <2>5 DEF Process!BrokerEnds, started, dead
    <3>2. QED
      BY <3>1 DEF Process!Next
  <2>6. CASE dead' = dead
    BY <2>1, <2>2, <2>6 DEF started, dead, Process!vars
  <2>7. QED
    BY <2>3, <2>5, <2>6 DEF dead
<1>8. CASE ExitBroker
  <2>1. loop'.pc = loop.pc /\ db' = db
    BY <1>1, <1>8 DEF ExitBroker, Loop
  <2>2. status' = status
    BY <1>8, StatusFollows DEF ExitBroker
  <2>3. QED
    BY <2>1, <2>2 DEF Process!vars
<1>9. CASE Close
  <2>1. /\ phase = "close" /\ phase' = "ended" /\ UNCHANGED <<loop, db, failure, asked>>
        /\ failure \in BOOLEAN
    BY <1>1, <1>9 DEF Close, loopVars, TypeOK
  <2>2. asked \/ failure
    BY <1>1, <2>1 DEF Phases, Running
  <2>3. CASE failure
    <3>1. status = "failed" /\ status' = "exit 1"
      BY <2>1, <2>3 DEF status
    <3>2. Process!Exit
      BY <2>1, <3>1 DEF Process!Exit
    <3>3. QED
      BY <3>2 DEF Process!Next
  <2>4. CASE ~failure
    <3>1. loop.pc # "absent" \/ db # "absent"
      BY <1>1, <2>1, <2>4 DEF Phases
    <3>2. status = "asked" /\ status' = "exit 0"
      BY <2>1, <2>2, <2>4 DEF status
    <3>3. Process!Exit
      BY <2>1, <3>1, <3>2 DEF Process!Exit
    <3>4. QED
      BY <3>3 DEF Process!Next
  <2>5. QED
    BY <2>3, <2>4
<1>10. QED
  BY <1>2, <1>3, <1>4, <1>5, <1>6, <1>7, <1>8, <1>9 DEF AppStep

\* Every behaviour of the runners is one an operator may expect: the process fails
\* only because its broker task died before anybody asked it to stop or because it
\* could not start, it exits with an error exactly then, and it never exits unasked.
THEOREM ProcessRefines == Spec => Process!Init /\ [][Process!Next]_(Process!vars)
<1>1. Init => Process!Init
  BY InitImplements, LoopAssumption
<1>2. ASSUME Inv, [Next]_vars PROVE [Process!Next]_(Process!vars)
  <2>1. CASE UNCHANGED vars
    BY <2>1, StatusFollows DEF vars, appVars, loopVars, Process!vars
  <2>2. QED
    BY <1>2, <2>1, LoopAssumption, LoopImplements, RunnerImplements, AppImplements
       DEF Next, RunnerStep
<1>3. QED
  BY <1>1, <1>2, InvHolds, PTL DEF Spec
=============================================================================
