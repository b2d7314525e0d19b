---------------------------- MODULE IngressProofs ----------------------------
(* Proofs about Ingress, for every value of its constants. *)
EXTENDS IngressProperties, FiniteSetTheorems, TLAPS

-----------------------------------------------------------------------------
(* Handlers. A step of a handler keeps its message and its delivery. *)

LEMMA GotoHandler ==
    ASSUME NEW h \in Handler,
           NEW l \in {"hook", "check", "insert", "ack", "requeue", "drop", "reject"}
    PROVE  /\ [h EXCEPT !.pc = l] \in Handler
           /\ [h EXCEPT !.pc = l].msg = h.msg
           /\ [h EXCEPT !.pc = l].delivery = h.delivery
           /\ [h EXCEPT !.pc = l].proc = h.proc
           /\ [h EXCEPT !.pc = l].pc = l
BY DEF Handler

\* Whatever the cap says, the message is given back or dropped.
LEMMA RetryGoto ==
    ASSUME NEW h, Retry(h)
    PROVE  \E l \in {"requeue", "drop"} : Goto(h, l)
BY DEF Retry

\* The steps of a handler that go on, and those that return.
Continues(h) ==
    /\ \E l \in {"hook", "check", "insert", "ack", "requeue", "drop", "reject"} :
           /\ Goto(h, l)
           /\ l = "ack" => tasks'[KeyOf[h.msg]] > 0
    /\ tasks' = tasks \/ Commit(h)
    /\ tries' \in [Message -> Nat]
    /\ faults' \in 0..MaxFaults
    /\ UNCHANGED <<where, deliveries, bounced, stopping>>

Returns(h) == \/ Settle(h, "ack", "acked")       \/ Settle(h, "requeue", "queue")
              \/ Settle(h, "drop", "dropped")    \/ Settle(h, "reject", "rejected")

LEMMA FaultTypes ==
    ASSUME IngressAssumption, TypeOK, NEW kind, Fault(kind)
    PROVE  faults' \in 0..MaxFaults
BY DEF IngressAssumption, TypeOK, Fault

LEMMA HandlerStepKinds ==
    ASSUME IngressAssumption, TypeOK, NEW h \in handlers,
           HandlerStep(h) \/ StoreFails(h) \/ Timeout(h)
    PROVE  Continues(h) \/ Returns(h)
<1>1. h \in Handler /\ h.msg \in Message /\ KeyOf[h.msg] \in Key /\ tasks[KeyOf[h.msg]] \in Nat
  BY DEF TypeOK, Handler, IngressAssumption
<1>2. ASSUME AskHook(h) PROVE /\ tries' \in [Message -> Nat] /\ faults' \in 0..MaxFaults
                              /\ UNCHANGED <<where, deliveries, bounced, stopping, tasks>>
  BY <1>1, <1>2 DEF AskHook, TypeOK
<1>3. CASE HookAccepts(h)
  BY <1>2, <1>3 DEF HookAccepts, Continues
<1>4. CASE HookRejects(h)
  BY <1>2, <1>4 DEF HookRejects, Continues
<1>5. CASE HookRetries(h)
  BY <1>2, <1>5, RetryGoto DEF HookRetries, Continues
<1>6. CASE Check(h)
  BY <1>6 DEF Check, Continues, TypeOK
<1>7. ASSUME Commit(h) PROVE tasks'[KeyOf[h.msg]] > 0
  BY <1>1, <1>7 DEF Commit, TypeOK
<1>8. CASE Insert(h)
  BY <1>7, <1>8 DEF Insert, Continues, TypeOK
<1>9. CASE Ack(h) \/ Requeue(h) \/ Drop(h) \/ Reject(h)
  BY <1>9 DEF Ack, Requeue, Drop, Reject, Returns
<1>10. CASE StoreFails(h)
  BY <1>10, RetryGoto, FaultTypes DEF StoreFails, Continues, TypeOK
<1>11. CASE Timeout(h)
  BY <1>11, FaultTypes DEF Timeout, Continues, TypeOK
<1>12. QED
  BY <1>3, <1>4, <1>5, <1>6, <1>8, <1>9, <1>10, <1>11 DEF HandlerStep

-----------------------------------------------------------------------------
(* Types and tasks. *)

\* A handler that is about to ack has seen the task, and it is the only one.
TasksInv ==
    /\ OneTaskPerKey
    /\ AckedHasTask
    /\ \A h \in handlers : h.pc = "ack" => tasks[KeyOf[h.msg]] > 0

TypedTasks == TypeOK /\ TasksInv

LEMMA InitTypedTasks == IngressAssumption /\ Init => TypedTasks
BY DEF IngressAssumption, Init, TypedTasks, TypeOK, TasksInv, OneTaskPerKey, AckedHasTask

LEMMA CommitTasks ==
    ASSUME IngressAssumption, TypedTasks, NEW h \in Handler, tasks' = tasks \/ Commit(h)
    PROVE  /\ tasks' \in [Key -> Nat]
           /\ OneTaskPerKey'
           /\ \A k \in Key : tasks[k] > 0 => tasks'[k] > 0
BY DEF IngressAssumption, TypedTasks, TypeOK, TasksInv, OneTaskPerKey, Commit, Handler

LEMMA StepTypedTasks ==
    ASSUME IngressAssumption, TypedTasks, [Next]_vars
    PROVE  TypedTasks'
<1> USE DEF TypedTasks
<1>1. TypeOK /\ TasksInv
  OBVIOUS
<1>2. ASSUME NEW p \in Process, NEW m \in Message, Deliver(p, m) PROVE TypedTasks'
  BY <1>1, <1>2 DEF Deliver, TypeOK, TasksInv, OneTaskPerKey, AckedHasTask, Handler
<1>3. ASSUME NEW h \in handlers, Continues(h) PROVE TypedTasks'
  <2>1. PICK l \in {"hook", "check", "insert", "ack", "requeue", "drop", "reject"} :
            Goto(h, l) /\ (l = "ack" => tasks'[KeyOf[h.msg]] > 0)
    BY <1>3 DEF Continues
  <2>2. h \in Handler
    BY DEF TypeOK
  <2>3. /\ tasks' \in [Key -> Nat]
        /\ OneTaskPerKey'
        /\ \A k \in Key : tasks[k] > 0 => tasks'[k] > 0
    BY <1>3, <2>2, CommitTasks DEF Continues
  <2>4. handlers' \subseteq Handler
    <3>1. [h EXCEPT !.pc = l] \in Handler
      BY <2>2, GotoHandler
    <3>2. handlers' = (handlers \ {h}) \cup {[h EXCEPT !.pc = l]}
      BY <2>1 DEF Goto
    <3>3. QED
      BY <1>1, <3>1, <3>2 DEF TypeOK
  <2>5. TypeOK'
    BY <1>3, <2>3, <2>4 DEF Continues, TypeOK
  <2>6. ASSUME NEW g \in handlers', g.pc = "ack" PROVE tasks'[KeyOf[g.msg]] > 0
    <3>1. CASE g \in handlers
      <4>1. tasks[KeyOf[g.msg]] > 0 /\ KeyOf[g.msg] \in Key
        BY <1>1, <2>6, <3>1 DEF TasksInv, TypeOK, Handler, IngressAssumption
      <4>2. QED
        BY <2>3, <4>1
    <3>2. CASE g = [h EXCEPT !.pc = l]
      BY <2>1, <2>2, <2>6, <3>2, GotoHandler
    <3>3. QED
      BY <2>1, <2>6, <3>1, <3>2 DEF Goto
  <2>7. AckedHasTask'
    BY <1>1, <1>3, <2>3 DEF Continues, TasksInv, AckedHasTask, IngressAssumption
  <2>8. QED
    BY <2>3, <2>5, <2>6, <2>7 DEF TasksInv
<1>4. ASSUME NEW h \in handlers, Returns(h) PROVE TypedTasks'
  BY <1>1, <1>4 DEF Returns, Settle, TypeOK, TasksInv, OneTaskPerKey, AckedHasTask, Handler
<1>5. ASSUME NEW p \in Process, ConnectionLost(p) \/ Crash(p) \/ Stop(p) \/ Leave(p)
      PROVE  TypedTasks'
  <2>1. faults' \in 0..MaxFaults
    BY <1>5, FaultTypes DEF ConnectionLost, Crash, Stop, Leave, TypeOK
  <2>2. handlers' \subseteq handlers /\ stopping' \subseteq Process
    BY <1>5 DEF ConnectionLost, Crash, Stop, Leave, TypeOK, HandlersOf
  <2>3. /\ where' \in [Message -> {"queue", "out", "acked", "dropped", "rejected"}]
        /\ \A m \in Message : where'[m] = "acked" => where[m] = "acked"
    BY <1>5 DEF ConnectionLost, Crash, Stop, Leave, Disconnect, TypeOK
  <2>4. UNCHANGED <<deliveries, tries, bounced, tasks>>
    BY <1>5 DEF ConnectionLost, Crash, Stop, Leave
  <2>5. QED
    BY <1>1, <2>1, <2>2, <2>3, <2>4 DEF TypeOK, TasksInv, OneTaskPerKey, AckedHasTask
<1>6. CASE UNCHANGED vars
  BY <1>1, <1>6 DEF vars, TypeOK, TasksInv, OneTaskPerKey, AckedHasTask
<1>7. QED
  BY <1>2, <1>3, <1>4, <1>5, <1>6, HandlerStepKinds DEF Next

\* The state always has its type.
THEOREM IngressTypeCorrect == Spec => []TypeOK
<1>1. Init => TypedTasks
  BY IngressAssumption, InitTypedTasks
<1>2. TypedTasks /\ [Next]_vars => TypedTasks'
  BY IngressAssumption, StepTypedTasks
<1>3. TypedTasks => TypeOK
  BY DEF TypedTasks
<1>4. QED
  BY <1>1, <1>2, <1>3, PTL DEF Spec

\* However often a message is delivered, to however many processes, its key has
\* at most one task: the select and the unique index of the insert together
\* withstand every interleaving.
THEOREM OneTask == Spec => []OneTaskPerKey
<1>1. Init => TypedTasks
  BY IngressAssumption, InitTypedTasks
<1>2. TypedTasks /\ [Next]_vars => TypedTasks'
  BY IngressAssumption, StepTypedTasks
<1>3. TypedTasks => OneTaskPerKey
  BY DEF TypedTasks, TasksInv
<1>4. QED
  BY <1>1, <1>2, <1>3, PTL DEF Spec

\* An acked message has its task, whatever timed out, failed or was lost.
THEOREM AckedIsStored == Spec => []AckedHasTask
<1>1. Init => TypedTasks
  BY IngressAssumption, InitTypedTasks
<1>2. TypedTasks /\ [Next]_vars => TypedTasks'
  BY IngressAssumption, StepTypedTasks
<1>3. TypedTasks => AckedHasTask
  BY DEF TypedTasks, TasksInv
<1>4. QED
  BY <1>1, <1>2, <1>3, PTL DEF Spec

-----------------------------------------------------------------------------
(* Every message that is out has one handler that can answer it. *)

\* Handlers belong to deliveries that took place, each to another one.
HandlersInv ==
    /\ \A h \in handlers : h.delivery <= deliveries[h.msg]
    /\ \A g, h \in handlers : g.msg = h.msg /\ g.delivery = h.delivery => g = h
    /\ \A m \in Message : where[m] = "out" => \E h \in handlers : h.msg = m /\ Live(h)

LEMMA InitHandlersInv == Init => HandlersInv
BY DEF Init, HandlersInv

LEMMA StepHandlersInv ==
    ASSUME IngressAssumption, TypeOK, HandlersInv, [Next]_vars
    PROVE  HandlersInv'
<1>1. ASSUME NEW p \in Process, NEW m \in Message, Deliver(p, m) PROVE HandlersInv'
  <2> PICK new : new = [msg |-> m, delivery |-> deliveries[m] + 1, proc |-> p,
                        pc |-> IF p \in stopping THEN "requeue" ELSE "hook"]
    OBVIOUS
  <2>1. /\ handlers' = handlers \cup {new}
        /\ deliveries' = [deliveries EXCEPT ![m] = @ + 1]
        /\ where' = [where EXCEPT ![m] = "out"]
    BY <1>1 DEF Deliver
  <2>2. \A h \in handlers : /\ h.msg \in Message /\ h.delivery \in Nat
                            /\ h.delivery <= deliveries[h.msg]
    BY DEF TypeOK, Handler, HandlersInv
  <2>3. deliveries[m] \in Nat /\ deliveries'[m] = deliveries[m] + 1 /\ where'[m] = "out"
    BY <2>1 DEF TypeOK
  <2>4. \A h \in handlers' : h.delivery <= deliveries'[h.msg]
    BY <2>1, <2>2, <2>3 DEF TypeOK
  <2>5. \A h \in handlers : h.msg = m => h.delivery # new.delivery
    BY <2>2, <2>3
  <2>6. \A g, h \in handlers' : g.msg = h.msg /\ g.delivery = h.delivery => g = h
    BY <2>1, <2>5 DEF HandlersInv
  <2>7. new \in handlers' /\ new.msg = m /\ Live(new)'
    BY <2>1, <2>3 DEF Live
  <2>8. ASSUME NEW n \in Message, n # m, where'[n] = "out"
        PROVE  \E h \in handlers' : h.msg = n /\ Live(h)'
    <3>1. PICK h \in handlers : h.msg = n /\ Live(h)
      BY <2>1, <2>8 DEF HandlersInv, TypeOK
    <3>2. h \in handlers' /\ Live(h)'
      BY <2>1, <2>8, <3>1 DEF Live, TypeOK
    <3>3. QED
      BY <3>1, <3>2
  <2>9. QED
    BY <2>4, <2>6, <2>7, <2>8 DEF HandlersInv
<1>2. ASSUME NEW h \in handlers, Continues(h) PROVE HandlersInv'
  <2>1. PICK l \in {"hook", "check", "insert", "ack", "requeue", "drop", "reject"} : Goto(h, l)
    BY <1>2 DEF Continues
  <2> DEFINE new == [h EXCEPT !.pc = l]
  <2>2. h \in Handler
    BY DEF TypeOK
  <2>3. new.msg = h.msg /\ new.delivery = h.delivery
    BY <2>2, GotoHandler
  <2>4. UNCHANGED <<where, deliveries>> /\ handlers' = (handlers \ {h}) \cup {new}
    BY <1>2, <2>1 DEF Continues, Goto
  <2>5. \A g \in handlers' : g.delivery <= deliveries'[g.msg]
    BY <2>3, <2>4 DEF HandlersInv
  <2>6. \A f, g \in handlers' : f.msg = g.msg /\ f.delivery = g.delivery => f = g
    <3>1. \A g \in handlers \ {h} : ~(g.msg = new.msg /\ g.delivery = new.delivery)
      BY <2>3 DEF HandlersInv
    <3> HIDE DEF new
    <3>2. QED
      BY <2>4, <3>1 DEF HandlersInv
  <2>7. ASSUME NEW m \in Message, where'[m] = "out"
        PROVE  \E g \in handlers' : g.msg = m /\ Live(g)'
    <3>1. PICK g \in handlers : g.msg = m /\ Live(g)
      BY <2>4, <2>7 DEF HandlersInv
    <3>2. CASE g = h
      <4>1. new \in handlers' /\ new.msg = m /\ Live(new)'
        BY <2>3, <2>4, <3>1, <3>2 DEF Live
      <4>2. QED
        BY <4>1
    <3>3. CASE g # h
      BY <2>4, <3>1, <3>3 DEF Live
    <3>4. QED
      BY <3>2, <3>3
  <2>8. QED
    BY <2>5, <2>6, <2>7 DEF HandlersInv
<1>3. ASSUME NEW h \in handlers, Returns(h) PROVE HandlersInv'
  <2>1. PICK s \in {"acked", "queue", "dropped", "rejected"} :
            where' = IF Live(h) THEN [where EXCEPT ![h.msg] = s] ELSE where
    BY <1>3 DEF Returns, Settle
  <2>2. UNCHANGED deliveries /\ handlers' = handlers \ {h}
    BY <1>3 DEF Returns, Settle
  <2>3. ASSUME NEW m \in Message, where'[m] = "out"
        PROVE  \E g \in handlers' : g.msg = m /\ Live(g)'
    <3>1. where[m] = "out" /\ ~(Live(h) /\ h.msg = m)
      BY <2>1, <2>3 DEF TypeOK
    <3>2. PICK g \in handlers : g.msg = m /\ Live(g)
      BY <3>1 DEF HandlersInv
    <3>3. g \in handlers' /\ Live(g)'
      BY <2>2, <2>3, <3>1, <3>2 DEF Live
    <3>4. QED
      BY <3>2, <3>3
  <2>4. QED
    BY <2>2, <2>3 DEF HandlersInv
<1>4. ASSUME NEW p \in Process, ConnectionLost(p) \/ Crash(p) \/ Leave(p) PROVE HandlersInv'
  <2>1. /\ UNCHANGED deliveries
        /\ Disconnect(p)
        /\ handlers' \subseteq handlers
        /\ \A h \in handlers : h.proc # p => h \in handlers'
    BY <1>4 DEF ConnectionLost, Crash, Leave, HandlersOf
  <2>2. ASSUME NEW m \in Message, where'[m] = "out"
        PROVE  \E g \in handlers' : g.msg = m /\ Live(g)'
    <3>1. where[m] = "out" /\ ~\E h \in HandlersOf(p) : h.msg = m /\ Live(h)
      BY <2>1, <2>2 DEF Disconnect
    <3>2. PICK g \in handlers : g.msg = m /\ Live(g)
      BY <3>1 DEF HandlersInv
    <3>3. g \in handlers' /\ Live(g)'
      BY <2>1, <2>2, <3>1, <3>2 DEF Live, HandlersOf
    <3>4. QED
      BY <3>2, <3>3
  <2>3. QED
    BY <2>1, <2>2 DEF HandlersInv
<1>5. ASSUME NEW p \in Process, Stop(p) PROVE HandlersInv'
  BY <1>5 DEF Stop, HandlersInv, Live
<1>6. CASE UNCHANGED vars
  BY <1>6 DEF vars, HandlersInv, Live
<1>7. QED
  BY <1>1, <1>2, <1>3, <1>4, <1>5, <1>6, HandlerStepKinds DEF Next

LEMMA HandlersInvAnswers ==
    ASSUME TypeOK, HandlersInv
    PROVE  OutIsHandled
<1> SUFFICES ASSUME NEW m \in Message, where[m] = "out"
             PROVE  Cardinality({h \in handlers : h.msg = m /\ Live(h)}) = 1
  BY DEF OutIsHandled
<1>1. PICK g \in handlers : g.msg = m /\ Live(g)
  BY DEF HandlersInv
<1>2. {h \in handlers : h.msg = m /\ Live(h)} = {g}
  BY <1>1 DEF HandlersInv, Live
<1>3. QED
  BY <1>2, FS_Singleton

\* A message that is out is never forgotten and never answered by two handlers:
\* whatever is lost, times out or stops, the handler of its last delivery runs.
THEOREM OutIsAnswered == Spec => []OutIsHandled
<1>1. Init => TypedTasks /\ HandlersInv
  BY IngressAssumption, InitTypedTasks, InitHandlersInv
<1>2. TypedTasks /\ HandlersInv /\ [Next]_vars => (TypedTasks /\ HandlersInv)'
  BY IngressAssumption, StepTypedTasks, StepHandlersInv DEF TypedTasks
<1>3. TypedTasks /\ HandlersInv => OutIsHandled
  BY HandlersInvAnswers DEF TypedTasks
<1>4. QED
  BY <1>1, <1>2, <1>3, PTL DEF Spec

-----------------------------------------------------------------------------
(* The retry cap. The queue counts the deliveries of a message, or marks the    *)
(* second one, or it gives an x-death count, which is the same at every         *)
(* delivery: such a message is dropped at its first error or never.             *)

\* A message that _requeue_within_cap drops after enough deliveries.
Bounded(m) == Counter[m] = "x-death" => Deaths[m] >= MaxRetries

RetryCap(m) == IF Counter[m] = "x-death" THEN 1 ELSE Cap(m)

AtCap(m, n) == Bounded(m) /\ n >= RetryCap(m)

\* What a message has cost: the calls of its plugin, the bounces and the faults.
Spent(m) == tries[m] + bounced[m] + faults

\* The handler of the last delivery has yet to ask the plugin, and the process it
\* runs in was not told to stop.
Unasked(m) ==
    \E h \in handlers : h.msg = m /\ Live(h) /\ h.pc = "hook" /\ h.proc \notin stopping

\* A dropped message has used up its cap.
DropsAtCap == \A m \in Message : where[m] = "dropped" => AtCap(m, Spent(m))

\* A message that can be dropped is delivered as often as its cap, its bounces and
\* the faults explain.
DeliveriesInCap ==
    \A m \in Message : Bounded(m) => deliveries[m] <= RetryCap(m) + faults + bounced[m]

\* Every delivery but the last is accounted for, and a handler that drops its
\* message was the last the cap allows.
TriesInv ==
    /\ \A h \in handlers : h.delivery > 0 /\ (h.pc = "drop" => AtCap(h.msg, h.delivery))
    /\ \A m \in Message : \/ deliveries[m] <= Spent(m)
                          \/ Unasked(m) /\ deliveries[m] <= Spent(m) + 1
    /\ DropsAtCap

\* The message is in its queue, or may get there without a fault.
Returnable(m) ==
    \/ where[m] = "queue"
    \/ \E h \in handlers : h.msg = m /\ Live(h) /\ (h.pc = "requeue" \/ h.proc \in stopping)

\* A message is given back only while the cap leaves room for one more delivery.
CapInv ==
    /\ DeliveriesInCap
    /\ \A m \in Message : Bounded(m) /\ Returnable(m) =>
           deliveries[m] + 1 <= RetryCap(m) + faults + bounced[m]

LEMMA CapIsPositive ==
    ASSUME IngressAssumption, NEW m
    PROVE  RetryCap(m) \in Nat /\ RetryCap(m) >= 1
BY DEF IngressAssumption, RetryCap, Cap

\* _requeue_within_cap compares the deliveries with the cap, if there is one.
LEMMA CapRule ==
    ASSUME IngressAssumption, NEW h \in Handler, h.delivery > 0
    PROVE  ~WithinCap(h) <=> AtCap(h.msg, h.delivery)
<1>1. /\ h.msg \in Message /\ h.delivery \in Nat /\ MaxRetries \in 1..5 /\ Deaths[h.msg] \in Nat
      /\ Counter[h.msg] \in {"x-delivery-count", "x-death", "redelivered"}
  BY DEF IngressAssumption, Handler
<1>2. CASE Counter[h.msg] = "x-delivery-count"
  BY <1>1, <1>2 DEF WithinCap, Attempt, Counted, AtCap, Bounded, RetryCap, Cap
<1>3. CASE Counter[h.msg] = "redelivered"
  <2>1. Attempt(h) = IF h.delivery = 1 THEN 1 ELSE 2
    BY <1>3 DEF Attempt
  <2>2. CASE h.delivery = 1
    BY <1>1, <1>3, <2>1, <2>2 DEF WithinCap, AtCap, Bounded, RetryCap, Cap
  <2>3. CASE h.delivery # 1
    BY <1>1, <1>3, <2>3 DEF WithinCap, Counted, AtCap, Bounded, RetryCap, Cap
  <2>4. QED
    BY <2>2, <2>3
<1>4. CASE Counter[h.msg] = "x-death"
  <2>1. Attempt(h) = Deaths[h.msg]
    BY <1>4 DEF Attempt
  <2>2. WithinCap(h) <=> Deaths[h.msg] < MaxRetries
    BY <1>4, <2>1 DEF WithinCap, Counted
  <2>3. h.delivery >= RetryCap(h.msg)
    BY <1>1, <1>4 DEF RetryCap
  <2>4. QED
    BY <1>1, <1>4, <2>2, <2>3 DEF AtCap, Bounded
<1>5. QED
  BY <1>1, <1>2, <1>3, <1>4

\* A handler that goes on: when it asks the plugin it counts as a try, and it gives
\* a message back without a fault only within the cap.
Progress(h, l) ==
    /\ Goto(h, l)
    /\ UNCHANGED <<where, deliveries, bounced, stopping>>
    /\ faults' \in {faults, faults + 1}
    /\ \A m \in Message : tries'[m] \in Nat /\ tries'[m] >= tries[m]
    /\ h.pc = "hook" => tries'[h.msg] = tries[h.msg] + 1 \/ faults' = faults + 1
    /\ l = "drop" => ~WithinCap(h)
    /\ l = "requeue" => WithinCap(h) \/ faults' = faults + 1

LEMMA HandlerStepProgress ==
    ASSUME IngressAssumption, TypeOK, NEW h \in handlers,
           HandlerStep(h) \/ StoreFails(h) \/ Timeout(h)
    PROVE  \/ Returns(h)
           \/ \E l \in {"check", "insert", "ack", "requeue", "drop", "reject"} : Progress(h, l)
<1>1. h.msg \in Message /\ \A m \in Message : tries[m] \in Nat
  BY DEF TypeOK, Handler
<1>2. ASSUME AskHook(h)
      PROVE  /\ h.pc = "hook" /\ faults' = faults
             /\ UNCHANGED <<where, deliveries, bounced, stopping>>
             /\ tries'[h.msg] = tries[h.msg] + 1
             /\ \A m \in Message : tries'[m] \in Nat /\ tries'[m] >= tries[m]
  BY <1>1, <1>2 DEF AskHook, TypeOK
<1>3. ASSUME Retry(h)
      PROVE  \E l \in {"requeue", "drop"} : /\ Goto(h, l)
                                            /\ l = "drop" => ~WithinCap(h)
                                            /\ l = "requeue" => WithinCap(h)
  BY <1>3 DEF Retry
<1>4. CASE HookAccepts(h)
  BY <1>2, <1>4 DEF HookAccepts, Progress
<1>5. CASE HookRejects(h)
  BY <1>2, <1>5 DEF HookRejects, Progress
<1>6. CASE HookRetries(h)
  BY <1>2, <1>3, <1>6 DEF HookRetries, Progress
<1>7. CASE Check(h)
  BY <1>1, <1>7 DEF Check, Progress
<1>8. CASE Insert(h)
  BY <1>1, <1>8 DEF Insert, Progress
<1>9. CASE Ack(h) \/ Requeue(h) \/ Drop(h) \/ Reject(h)
  BY <1>9 DEF Ack, Requeue, Drop, Reject, Returns
<1>10. CASE StoreFails(h)
  BY <1>1, <1>3, <1>10 DEF StoreFails, Fault, Progress
<1>11. CASE Timeout(h)
  BY <1>1, <1>11 DEF Timeout, Fault, Progress
<1>12. QED
  BY <1>4, <1>5, <1>6, <1>7, <1>8, <1>9, <1>10, <1>11 DEF HandlerStep

\* A process that loses its channel gives back what is out at it; only one that was
\* told to stop does so without a new fault.
LEMMA LossOfChannel ==
    ASSUME IngressAssumption, TypeOK, NEW p \in Process,
           ConnectionLost(p) \/ Crash(p) \/ Leave(p)
    PROVE  /\ UNCHANGED <<deliveries, tries, bounced>>
           /\ Disconnect(p)
           /\ handlers' \subseteq handlers
           /\ \A h \in handlers : h.proc # p => h \in handlers'
           /\ stopping' \subseteq stopping
           /\ faults' = faults + 1 \/ (faults' = faults /\ p \in stopping)
           /\ ~Leave(p) => faults' = faults + 1
           /\ Leave(p) => handlers' = handlers \ HandlersOf(p)
BY DEF ConnectionLost, Crash, Leave, Fault, HandlersOf

\* The handlers of a message that are live are one.
LEMMA LiveIsOne ==
    ASSUME HandlersInv, NEW g \in handlers, NEW h \in handlers,
           g.msg = h.msg, Live(g), Live(h)
    PROVE  g = h
BY DEF HandlersInv, Live

LEMMA Numbers ==
    ASSUME IngressAssumption, TypeOK, NEW m \in Message
    PROVE  /\ deliveries[m] \in Nat /\ tries[m] \in Nat /\ bounced[m] \in Nat
           /\ faults \in Nat /\ Spent(m) \in Nat /\ RetryCap(m) \in Nat /\ RetryCap(m) >= 1
BY CapIsPositive DEF TypeOK, IngressAssumption, Spent

LEMMA InitTriesInv == IngressAssumption /\ Init => TriesInv /\ CapInv
<1> SUFFICES ASSUME IngressAssumption, Init PROVE TriesInv /\ CapInv
  OBVIOUS
<1>1. TypeOK
  BY InitTypedTasks DEF TypedTasks
<1>2. ASSUME NEW m \in Message
      PROVE  /\ deliveries[m] = 0 /\ where[m] = "queue"
             /\ deliveries[m] <= Spent(m)
             /\ deliveries[m] <= RetryCap(m) + faults + bounced[m]
             /\ deliveries[m] + 1 <= RetryCap(m) + faults + bounced[m]
  <2>1. /\ Spent(m) \in Nat /\ RetryCap(m) \in Nat /\ RetryCap(m) >= 1
        /\ faults \in Nat /\ bounced[m] \in Nat
    BY <1>1, Numbers
  <2>2. deliveries[m] = 0 /\ where[m] = "queue"
    BY DEF Init
  <2>3. QED
    BY <2>1, <2>2
<1>3. handlers = {} /\ \A m \in Message : where[m] = "queue"
  BY DEF Init
<1>4. TriesInv
  BY <1>2, <1>3 DEF TriesInv, DropsAtCap
<1>5. CapInv
  BY <1>2 DEF CapInv, DeliveriesInCap
<1>6. QED
  BY <1>4, <1>5

\* A delivery adds a handler, the only live one of its message.
Adds(p, m, new) ==
    /\ handlers' = handlers \cup {new} /\ new.msg = m /\ new.proc = p
    /\ new.delivery = deliveries[m] + 1
    /\ new.pc = IF p \in stopping THEN "requeue" ELSE "hook"
    /\ where[m] = "queue" /\ where'[m] = "out"
    /\ deliveries'[m] = deliveries[m] + 1
    /\ bounced'[m] = IF p \in stopping THEN bounced[m] + 1 ELSE bounced[m]
    /\ UNCHANGED <<tries, stopping, faults>>
    /\ \A n \in Message \ {m} : /\ where'[n] = where[n] /\ deliveries'[n] = deliveries[n]
                                 /\ bounced'[n] = bounced[n]

OnlyLive(m, new) ==
    /\ Live(new)'
    /\ \A h \in handlers : h.msg = m => ~Live(h) /\ ~Live(h)'
    /\ \A h \in handlers : h.msg # m => (Live(h)' <=> Live(h))

LEMMA DeliverAdds ==
    ASSUME IngressAssumption, TypeOK, HandlersInv,
           NEW p \in Process, NEW m \in Message, Deliver(p, m)
    PROVE  \E new : Adds(p, m, new) /\ OnlyLive(m, new)
<1> PICK new : new = [msg |-> m, delivery |-> deliveries[m] + 1, proc |-> p,
                      pc |-> IF p \in stopping THEN "requeue" ELSE "hook"]
  OBVIOUS
<1>1. /\ handlers' = handlers \cup {new} /\ new.msg = m /\ new.proc = p
      /\ new.delivery = deliveries[m] + 1
      /\ new.pc = IF p \in stopping THEN "requeue" ELSE "hook"
  BY DEF Deliver
<1>2. /\ where[m] = "queue" /\ where' = [where EXCEPT ![m] = "out"]
      /\ deliveries' = [deliveries EXCEPT ![m] = @ + 1]
      /\ bounced' = [bounced EXCEPT ![m] = IF p \in stopping THEN @ + 1 ELSE @]
      /\ UNCHANGED <<tries, stopping, faults>>
  BY DEF Deliver
<1>3. /\ where'[m] = "out" /\ deliveries'[m] = deliveries[m] + 1
      /\ bounced'[m] = IF p \in stopping THEN bounced[m] + 1 ELSE bounced[m]
      /\ \A n \in Message \ {m} :
                           /\ where'[n] = where[n] /\ deliveries'[n] = deliveries[n]
                           /\ bounced'[n] = bounced[n]
  BY <1>2 DEF TypeOK
<1>4. ASSUME NEW h \in handlers, h.msg = m PROVE ~Live(h) /\ ~Live(h)'
  <2>1. h.delivery \in Nat /\ h.delivery <= deliveries[m] /\ deliveries[m] \in Nat
    BY <1>4 DEF HandlersInv, TypeOK, Handler
  <2>2. QED
    BY <1>2, <1>3, <1>4, <2>1 DEF Live
<1>5. ASSUME NEW h \in handlers, h.msg # m PROVE (Live(h)' <=> Live(h))
  BY <1>3, <1>5 DEF Live, TypeOK, Handler
<1>6. Live(new)'
  BY <1>1, <1>3 DEF Live
<1>7. Adds(p, m, new)
  BY <1>1, <1>2, <1>3 DEF Adds
<1>8. OnlyLive(m, new)
  BY <1>4, <1>5, <1>6 DEF OnlyLive
<1>9. QED
  BY <1>7, <1>8

LEMMA StepTriesInv ==
    ASSUME IngressAssumption, TypeOK, HandlersInv, TriesInv, [Next]_vars
    PROVE  TriesInv'
<1>1. \A h \in handlers : h \in Handler /\ h.msg \in Message /\ h.delivery \in Nat
  BY DEF TypeOK, Handler
<1>2. ASSUME NEW m \in Message
      PROVE  /\ deliveries[m] \in Nat /\ tries[m] \in Nat /\ bounced[m] \in Nat /\ faults \in Nat
             /\ Spent(m) = tries[m] + bounced[m] + faults /\ Spent(m) \in Nat
             /\ Spent(m)' = tries'[m] + bounced'[m] + faults'
             /\ where[m] = "dropped" => AtCap(m, Spent(m))
             /\ RetryCap(m) \in Nat
  <2>1. /\ deliveries[m] \in Nat /\ tries[m] \in Nat /\ bounced[m] \in Nat /\ faults \in Nat
        /\ Spent(m) \in Nat /\ RetryCap(m) \in Nat
    BY Numbers
  <2>2. where[m] = "dropped" => AtCap(m, Spent(m))
    BY DEF TriesInv, DropsAtCap
  <2>3. QED
    BY <2>1, <2>2 DEF Spent
<1>3. ASSUME \A h \in handlers' : h.delivery > 0 /\ (h.pc = "drop" => AtCap(h.msg, h.delivery)),
             \A m \in Message : \/ deliveries'[m] <= Spent(m)'
                                \/ Unasked(m)' /\ deliveries'[m] <= Spent(m)' + 1,
             \A m \in Message :
                 /\ tries'[m] \in Nat /\ bounced'[m] \in Nat /\ faults' \in Nat
                 /\ where'[m] = "dropped" => AtCap(m, Spent(m)')
      PROVE  TriesInv'
  <2>1. DropsAtCap'
    BY <1>3 DEF DropsAtCap, AtCap, Bounded, RetryCap, Cap
  <2>2. \A h \in handlers' : h.delivery > 0 /\ (h.pc = "drop" => AtCap(h.msg, h.delivery)')
    BY <1>3 DEF AtCap, Bounded, RetryCap, Cap
  <2>3. QED
    BY <1>3, <2>1, <2>2 DEF TriesInv
<1>4. ASSUME NEW p \in Process, NEW m \in Message, Deliver(p, m) PROVE TriesInv'
  <2>1. PICK new : Adds(p, m, new) /\ OnlyLive(m, new)
    BY <1>4, DeliverAdds
  <2>2. /\ handlers' = handlers \cup {new}
        /\ new.delivery = deliveries[m] + 1
        /\ new.pc \in {"requeue", "hook"}
        /\ where'[m] = "out"
        /\ deliveries'[m] = deliveries[m] + 1
        /\ bounced'[m] = IF p \in stopping THEN bounced[m] + 1 ELSE bounced[m]
        /\ UNCHANGED <<tries, stopping, faults>>
    BY <2>1 DEF Adds
  <2>3. ASSUME NEW n \in Message, n # m
        PROVE  /\ where'[n] = where[n] /\ deliveries'[n] = deliveries[n]
               /\ bounced'[n] = bounced[n]
    BY <2>1, <2>3 DEF Adds
  <2>4. ~Unasked(m)
    BY <2>1 DEF Unasked, OnlyLive
  <2>5. \A h \in handlers' : h.delivery > 0 /\ (h.pc = "drop" => AtCap(h.msg, h.delivery))
    BY <1>2, <2>2 DEF TriesInv
  <2>6. ASSUME NEW n \in Message
        PROVE  \/ deliveries'[n] <= Spent(n)'
               \/ Unasked(n)' /\ deliveries'[n] <= Spent(n)' + 1
    <3>1. CASE n = m
      <4>1. deliveries[m] <= Spent(m)
        BY <2>4 DEF TriesInv
      <4>2. CASE p \in stopping
        BY <1>2, <2>2, <3>1, <4>1, <4>2
      <4>3. CASE p \notin stopping
        <5>1. Unasked(m)'
          BY <2>1, <4>3 DEF Unasked, Adds, OnlyLive
        <5>2. deliveries'[m] <= Spent(m)' + 1
          BY <1>2, <2>2, <4>1, <4>3
        <5>3. QED
          BY <3>1, <5>1, <5>2
      <4>4. QED
        BY <4>2, <4>3
    <3>2. CASE n # m
      <4>1. Unasked(n) => Unasked(n)'
        BY <2>1, <3>2 DEF Unasked, Adds, OnlyLive
      <4>2. Spent(n)' = Spent(n) /\ deliveries'[n] = deliveries[n]
        BY <2>2, <2>3, <3>2 DEF Spent
      <4>3. QED
        BY <4>1, <4>2 DEF TriesInv
    <3>3. QED
      BY <3>1, <3>2
  <2>7. ASSUME NEW n \in Message
        PROVE  /\ tries'[n] \in Nat /\ bounced'[n] \in Nat /\ faults' \in Nat
               /\ where'[n] = "dropped" => AtCap(n, Spent(n)')
    <3>1. CASE n = m
      BY <1>2, <2>2, <3>1
    <3>2. CASE n # m
      BY <1>2, <2>2, <2>3, <3>2
    <3>3. QED
      BY <3>1, <3>2
  <2>8. QED
    BY <1>3, <2>5, <2>6, <2>7
<1>5. ASSUME NEW h \in handlers,
             NEW l \in {"check", "insert", "ack", "requeue", "drop", "reject"}, Progress(h, l)
      PROVE  TriesInv'
  <2> DEFINE new == [h EXCEPT !.pc = l]
  <2>1. new.msg = h.msg /\ new.delivery = h.delivery /\ new.pc = l
    BY <1>1, GotoHandler
  <2>2. /\ handlers' = (handlers \ {h}) \cup {new}
        /\ UNCHANGED <<where, deliveries, bounced, stopping>>
        /\ faults' \in {faults, faults + 1}
        /\ \A m \in Message : tries'[m] \in Nat /\ tries'[m] >= tries[m]
        /\ h.pc = "hook" => tries'[h.msg] = tries[h.msg] + 1 \/ faults' = faults + 1
        /\ l = "drop" => ~WithinCap(h)
    BY <1>5 DEF Progress, Goto
  <2> HIDE DEF new
  <2>3. h.delivery > 0 /\ (l = "drop" => AtCap(h.msg, h.delivery))
    <3>1. h.delivery > 0
      BY DEF TriesInv
    <3>2. l = "drop" => AtCap(h.msg, h.delivery)
      BY <1>1, <2>2, <3>1, CapRule
    <3>3. QED
      BY <1>1, <1>2, <3>1, <3>2
  <2>4. \A g \in handlers' : g.delivery > 0 /\ (g.pc = "drop" => AtCap(g.msg, g.delivery))
    BY <2>1, <2>2, <2>3 DEF TriesInv
  <2>5. ASSUME NEW m \in Message
        PROVE  /\ Spent(m)' \in Nat /\ Spent(m)' >= Spent(m) /\ bounced'[m] \in Nat /\ faults' \in Nat
               /\ m = h.msg /\ h.pc = "hook" => Spent(m)' >= Spent(m) + 1
    BY <1>2, <2>2
  <2>6. ASSUME NEW m \in Message
        PROVE  \/ deliveries'[m] <= Spent(m)'
               \/ Unasked(m)' /\ deliveries'[m] <= Spent(m)' + 1
    <3>1. CASE deliveries[m] <= Spent(m)
      BY <1>2, <2>2, <2>5, <3>1
    <3>2. CASE Unasked(m) /\ deliveries[m] <= Spent(m) + 1
      <4>1. PICK g \in handlers : g.msg = m /\ Live(g) /\ g.pc = "hook" /\ g.proc \notin stopping
        BY <3>2 DEF Unasked
      <4>2. CASE g = h
        BY <1>2, <2>2, <2>5, <3>2, <4>1, <4>2
      <4>3. CASE g # h
        <5>1. g \in handlers' /\ Live(g)' /\ g.proc \notin stopping'
          BY <2>2, <4>1, <4>3 DEF Live
        <5>2. Unasked(m)'
          BY <4>1, <5>1 DEF Unasked
        <5>3. QED
          BY <1>2, <2>2, <2>5, <3>2, <5>2
      <4>4. QED
        BY <4>2, <4>3
    <3>3. QED
      BY <3>1, <3>2 DEF TriesInv
  <2>7. \A m \in Message : where'[m] = "dropped" => AtCap(m, Spent(m)')
    BY <1>2, <2>2, <2>5 DEF AtCap
  <2>8. QED
    BY <1>3, <2>2, <2>4, <2>5, <2>6, <2>7
<1>6. ASSUME NEW h \in handlers, Returns(h) PROVE TriesInv'
  <2>1. /\ handlers' = handlers \ {h} /\ UNCHANGED <<deliveries, tries, bounced, stopping, faults>>
        /\ h.pc # "hook"
    BY <1>6 DEF Returns, Settle
  <2>2. ASSUME NEW m \in Message
        PROVE  /\ Spent(m)' = Spent(m)
               /\ where'[m] = where[m] \/ (Live(h) /\ m = h.msg)
               /\ where'[m] = "dropped" =>
                      where[m] = "dropped" \/ (Live(h) /\ m = h.msg /\ h.pc = "drop")
    BY <1>6, <2>1 DEF Returns, Settle, Spent, TypeOK
  <2>3. ASSUME NEW m \in Message, Unasked(m) PROVE Unasked(m)'
    <3>1. PICK g \in handlers : g.msg = m /\ Live(g) /\ g.pc = "hook" /\ g.proc \notin stopping
      BY <2>3 DEF Unasked
    <3>2. ~(Live(h) /\ m = h.msg)
      BY <2>1, <3>1, LiveIsOne
    <3>3. g \in handlers' /\ Live(g)'
      BY <2>1, <2>2, <3>1, <3>2 DEF Live
    <3>4. QED
      BY <2>1, <3>1, <3>3 DEF Unasked
  <2>4. ASSUME NEW m \in Message, where'[m] = "dropped" PROVE AtCap(m, Spent(m)')
    <3>1. CASE where[m] = "dropped"
      BY <1>2, <2>2, <3>1
    <3>2. CASE Live(h) /\ m = h.msg /\ h.pc = "drop"
      <4>1. ~Unasked(m)
        BY <3>2, LiveIsOne DEF Unasked
      <4>2. deliveries[m] = h.delivery /\ AtCap(m, h.delivery)
        BY <3>2 DEF Live, TriesInv
      <4>3. QED
        BY <1>2, <2>2, <4>1, <4>2 DEF TriesInv, AtCap
    <3>3. QED
      BY <2>2, <2>4, <3>1, <3>2
  <2>5. \A g \in handlers' : g.delivery > 0 /\ (g.pc = "drop" => AtCap(g.msg, g.delivery))
    BY <2>1 DEF TriesInv
  <2>6. \A m \in Message : \/ deliveries'[m] <= Spent(m)'
                           \/ Unasked(m)' /\ deliveries'[m] <= Spent(m)' + 1
    BY <2>1, <2>2, <2>3 DEF TriesInv
  <2>7. \A m \in Message : tries'[m] \in Nat /\ bounced'[m] \in Nat /\ faults' \in Nat
    BY <1>2, <2>1
  <2>8. QED
    BY <1>3, <2>4, <2>5, <2>6, <2>7
<1>7. ASSUME NEW p \in Process, ConnectionLost(p) \/ Crash(p) \/ Leave(p) PROVE TriesInv'
  <2>1. /\ UNCHANGED <<deliveries, tries, bounced>>
        /\ Disconnect(p)
        /\ handlers' \subseteq handlers
        /\ \A h \in handlers : h.proc # p => h \in handlers'
        /\ stopping' \subseteq stopping
        /\ faults' = faults + 1 \/ (faults' = faults /\ p \in stopping)
    BY <1>7, LossOfChannel
  <2>2. ASSUME NEW m \in Message
        PROVE  /\ Spent(m)' = Spent(m) + 1 \/ (Spent(m)' = Spent(m) /\ p \in stopping)
               /\ where'[m] = where[m] \/ where'[m] = "queue"
    BY <1>2, <2>1 DEF Disconnect
  <2>3. ASSUME NEW m \in Message, Unasked(m), p \in stopping PROVE Unasked(m)'
    <3>1. PICK g \in handlers : g.msg = m /\ Live(g) /\ g.pc = "hook" /\ g.proc \notin stopping
      BY <2>3 DEF Unasked
    <3>2. g \in handlers' /\ g.proc \notin stopping'
      BY <2>1, <2>3, <3>1
    <3>3. ~\E h \in HandlersOf(p) : h.msg = m /\ Live(h)
      BY <2>3, <3>1, LiveIsOne DEF HandlersOf
    <3>4. Live(g)'
      BY <2>1, <3>1, <3>3 DEF Live, Disconnect
    <3>5. QED
      BY <3>1, <3>2, <3>4 DEF Unasked
  <2>4. ASSUME NEW m \in Message
        PROVE  \/ deliveries'[m] <= Spent(m)'
               \/ Unasked(m)' /\ deliveries'[m] <= Spent(m)' + 1
    <3>1. CASE Spent(m)' = Spent(m) + 1
      BY <1>2, <2>1, <3>1 DEF TriesInv
    <3>2. CASE Spent(m)' = Spent(m) /\ p \in stopping
      BY <2>1, <2>3, <3>2 DEF TriesInv
    <3>3. QED
      BY <2>2, <3>1, <3>2
  <2>5. \A g \in handlers' : g.delivery > 0 /\ (g.pc = "drop" => AtCap(g.msg, g.delivery))
    BY <2>1 DEF TriesInv
  <2>6. \A m \in Message : where'[m] = "dropped" => AtCap(m, Spent(m)')
    BY <1>2, <2>2 DEF AtCap
  <2>7. \A m \in Message : tries'[m] \in Nat /\ bounced'[m] \in Nat /\ faults' \in Nat
    BY <1>2, <2>1
  <2>8. QED
    BY <1>3, <2>4, <2>5, <2>6, <2>7
<1>8. ASSUME NEW p \in Process, Stop(p) PROVE TriesInv'
  <2>1. /\ UNCHANGED <<where, deliveries, tries, bounced, handlers>> /\ faults' = faults + 1
    BY <1>8 DEF Stop, Fault
  <2>2. \A m \in Message : Spent(m)' = Spent(m) + 1
    BY <1>2, <2>1
  <2>3. \A m \in Message : deliveries'[m] <= Spent(m)'
    BY <1>2, <2>1, <2>2 DEF TriesInv
  <2>4. \A m \in Message : /\ tries'[m] \in Nat /\ bounced'[m] \in Nat /\ faults' \in Nat
                           /\ where'[m] = "dropped" => AtCap(m, Spent(m)')
    BY <1>2, <2>1, <2>2 DEF AtCap
  <2>5. QED
    BY <1>3, <2>1, <2>3, <2>4 DEF TriesInv
<1>9. CASE UNCHANGED vars
  BY <1>9 DEF vars, TriesInv, DropsAtCap, AtCap, Bounded, Unasked, Spent, Live, RetryCap, Cap
<1>10. QED
  BY <1>4, <1>5, <1>6, <1>7, <1>8, <1>9, HandlerStepProgress DEF Next

LEMMA StepCapInv ==
    ASSUME IngressAssumption, TypeOK, HandlersInv, TriesInv, CapInv, [Next]_vars
    PROVE  CapInv'
<1> DEFINE Room(m) == RetryCap(m) + faults + bounced[m]
<1>1. \A h \in handlers : h \in Handler /\ h.msg \in Message /\ h.delivery \in Nat /\ h.delivery > 0
  BY DEF TypeOK, Handler, TriesInv
<1>2. ASSUME NEW m \in Message
      PROVE  /\ deliveries[m] \in Nat /\ bounced[m] \in Nat /\ faults \in Nat
             /\ RetryCap(m) \in Nat /\ Room(m) \in Nat
             /\ Room(m)' = RetryCap(m) + faults' + bounced'[m]
             /\ Bounded(m) => deliveries[m] <= Room(m)
             /\ Bounded(m) /\ Returnable(m) => deliveries[m] + 1 <= Room(m)
  <2>1. Room(m)' = RetryCap(m) + faults' + bounced'[m]
    BY DEF RetryCap, Cap
  <2>2. QED
    BY <2>1, Numbers DEF CapInv, DeliveriesInCap
<1>3. ASSUME \A m \in Message : Bounded(m) =>
                                /\ deliveries'[m] <= Room(m)'
                                /\ Returnable(m)' => deliveries'[m] + 1 <= Room(m)'
      PROVE  CapInv'
  BY <1>3 DEF CapInv, DeliveriesInCap, Bounded
<1> HIDE DEF Room
\* With a new fault there is room for one more delivery of every message.
<1>4. ASSUME faults' = faults + 1, UNCHANGED <<deliveries, bounced>> PROVE CapInv'
  <2>1. ASSUME NEW m \in Message
        PROVE  Bounded(m) => deliveries'[m] <= Room(m)' /\ deliveries'[m] + 1 <= Room(m)'
    BY <1>2, <1>4 DEF Room
  <2>2. QED
    BY <1>3, <2>1
<1>5. ASSUME NEW p \in Process, NEW m \in Message, Deliver(p, m) PROVE CapInv'
  <2>1. PICK new : Adds(p, m, new) /\ OnlyLive(m, new)
    BY <1>5, DeliverAdds
  <2>2. /\ handlers' = handlers \cup {new}
        /\ new.msg = m /\ new.proc = p
        /\ new.pc = IF p \in stopping THEN "requeue" ELSE "hook"
        /\ where[m] = "queue" /\ where'[m] = "out"
        /\ deliveries'[m] = deliveries[m] + 1
        /\ bounced'[m] = IF p \in stopping THEN bounced[m] + 1 ELSE bounced[m]
        /\ UNCHANGED <<stopping, faults>>
    BY <2>1 DEF Adds
  <2>3. Bounded(m) => deliveries[m] + 1 <= Room(m)
    BY <1>2, <2>2 DEF Returnable
  <2>4. ASSUME NEW n \in Message, Bounded(n)
        PROVE  /\ deliveries'[n] <= Room(n)'
               /\ Returnable(n)' => deliveries'[n] + 1 <= Room(n)'
    <3>1. CASE n = m /\ p \in stopping
      BY <1>2, <2>2, <2>3, <2>4, <3>1 DEF Room
    <3>2. CASE n = m /\ p \notin stopping
      <4>1. ~Returnable(m)'
        BY <2>1, <2>2, <3>2 DEF Returnable, OnlyLive
      <4>2. deliveries'[m] <= Room(m)'
        BY <1>2, <2>2, <2>3, <2>4, <3>2 DEF Room
      <4>3. QED
        BY <3>2, <4>1, <4>2
    <3>3. CASE n # m
      <4>1. where'[n] = where[n] /\ deliveries'[n] = deliveries[n] /\ bounced'[n] = bounced[n]
        BY <2>1, <3>3 DEF Adds
      <4>2. Returnable(n)' => Returnable(n)
        BY <2>1, <2>2, <3>3, <4>1 DEF Returnable, OnlyLive
      <4>3. Room(n)' = Room(n)
        BY <1>2, <2>2, <4>1 DEF Room
      <4>4. QED
        BY <1>2, <2>4, <4>1, <4>2, <4>3
    <3>4. QED
      BY <3>1, <3>2, <3>3
  <2>5. QED
    BY <1>3, <2>4
<1>6. ASSUME NEW h \in handlers,
             NEW l \in {"check", "insert", "ack", "requeue", "drop", "reject"}, Progress(h, l)
      PROVE  CapInv'
  <2> DEFINE new == [h EXCEPT !.pc = l]
  <2>1. new.msg = h.msg /\ new.delivery = h.delivery /\ new.pc = l /\ new.proc = h.proc
    BY <1>1, GotoHandler
  <2>2. /\ handlers' = (handlers \ {h}) \cup {new}
        /\ UNCHANGED <<where, deliveries, bounced, stopping>>
        /\ faults' \in {faults, faults + 1}
        /\ l = "requeue" => WithinCap(h) \/ faults' = faults + 1
    BY <1>6 DEF Progress, Goto
  <2> HIDE DEF new
  <2>3. CASE faults' = faults + 1
    BY <1>4, <2>2, <2>3
  <2>4. CASE faults' = faults /\ faults' # faults + 1
    <3>1. l = "requeue" /\ Bounded(h.msg) => h.delivery < RetryCap(h.msg)
      BY <1>1, <1>2, <2>2, <2>4, CapRule DEF AtCap
    <3>2. ASSUME NEW m \in Message, Bounded(m), Returnable(m)'
          PROVE  Returnable(m) \/ deliveries[m] < RetryCap(m)
      <4>1. CASE where'[m] = "queue"
        BY <2>2, <4>1 DEF Returnable
      <4>2. ASSUME NEW g \in handlers', g.msg = m, Live(g)', g.pc = "requeue" \/ g.proc \in stopping'
            PROVE  Returnable(m) \/ deliveries[m] < RetryCap(m)
        <5>1. Live(g)
          BY <2>2, <4>2 DEF Live
        <5>2. CASE g \in handlers
          BY <2>2, <4>2, <5>1, <5>2 DEF Returnable
        <5>3. CASE g = new
          <6>1. Live(h) /\ h.msg = m /\ deliveries[m] = h.delivery
            BY <2>1, <4>2, <5>1, <5>3 DEF Live
          <6>2. CASE l = "requeue"
            BY <3>1, <3>2, <6>1, <6>2
          <6>3. CASE l # "requeue"
            BY <2>1, <2>2, <4>2, <5>3, <6>1, <6>3 DEF Returnable
          <6>4. QED
            BY <6>2, <6>3
        <5>4. QED
          BY <2>2, <4>2, <5>2, <5>3
      <4>3. QED
        BY <3>2, <4>1, <4>2 DEF Returnable
    <3>3. ASSUME NEW m \in Message, Bounded(m)
          PROVE  /\ deliveries'[m] <= Room(m)'
                 /\ Returnable(m)' => deliveries'[m] + 1 <= Room(m)'
      <4>1. Room(m)' = Room(m) /\ deliveries'[m] = deliveries[m]
        BY <1>2, <2>2, <2>4 DEF Room
      <4>2. deliveries[m] < RetryCap(m) => deliveries[m] + 1 <= Room(m)
        BY <1>2 DEF Room
      <4>3. QED
        BY <1>2, <3>2, <3>3, <4>1, <4>2
    <3>4. QED
      BY <1>3, <3>3
  <2>5. QED
    BY <2>2, <2>3, <2>4
<1>7. ASSUME NEW h \in handlers, Returns(h) PROVE CapInv'
  <2>1. /\ handlers' = handlers \ {h} /\ UNCHANGED <<deliveries, bounced, stopping, faults>>
    BY <1>7 DEF Returns, Settle
  <2>2. ASSUME NEW m \in Message
        PROVE  \/ where'[m] = where[m]
               \/ /\ where'[m] # "out" /\ Live(h) /\ m = h.msg
                  /\ where'[m] = "queue" => h.pc = "requeue"
    BY <1>7 DEF Returns, Settle, TypeOK
  <2>3. ASSUME NEW m \in Message, Returnable(m)' PROVE Returnable(m)
    <3>1. CASE where'[m] = where[m]
      <4>1. \A g \in handlers' : g.msg = m /\ Live(g)' => Live(g)
        BY <2>1, <3>1 DEF Live
      <4>2. QED
        BY <2>1, <2>3, <3>1, <4>1 DEF Returnable
    <3>2. CASE where'[m] # "out" /\ Live(h) /\ m = h.msg /\ (where'[m] = "queue" => h.pc = "requeue")
      <4>1. where'[m] = "queue"
        BY <2>3, <3>2 DEF Returnable, Live
      <4>2. QED
        BY <3>2, <4>1 DEF Returnable
    <3>3. QED
      BY <2>2, <3>1, <3>2
  <2>4. ASSUME NEW m \in Message, Bounded(m)
        PROVE  /\ deliveries'[m] <= Room(m)'
               /\ Returnable(m)' => deliveries'[m] + 1 <= Room(m)'
    <3>1. Room(m)' = Room(m) /\ deliveries'[m] = deliveries[m]
      BY <1>2, <2>1 DEF Room
    <3>2. QED
      BY <1>2, <2>3, <2>4, <3>1
  <2>5. QED
    BY <1>3, <2>4
<1>8. ASSUME NEW p \in Process, ConnectionLost(p) \/ Crash(p) \/ Leave(p) PROVE CapInv'
  <2>1. /\ UNCHANGED <<deliveries, bounced>>
        /\ Disconnect(p)
        /\ handlers' \subseteq handlers
        /\ stopping' \subseteq stopping
        /\ faults' = faults + 1 \/ (faults' = faults /\ p \in stopping)
    BY <1>8, LossOfChannel
  <2>2. CASE faults' = faults + 1
    BY <1>4, <2>1, <2>2
  <2>3. CASE faults' = faults /\ p \in stopping
    <3>1. ASSUME NEW m \in Message, Returnable(m)' PROVE Returnable(m)
      <4>1. CASE \E h \in HandlersOf(p) : h.msg = m /\ Live(h)
        BY <2>3, <4>1 DEF HandlersOf, Returnable
      <4>2. CASE ~\E h \in HandlersOf(p) : h.msg = m /\ Live(h)
        <5>1. where'[m] = where[m]
          BY <2>1, <4>2 DEF Disconnect
        <5>2. \A g \in handlers' : g.msg = m /\ Live(g)' => Live(g)
          BY <2>1, <5>1 DEF Live
        <5>3. QED
          BY <2>1, <3>1, <5>1, <5>2 DEF Returnable
      <4>3. QED
        BY <4>1, <4>2
    <3>2. ASSUME NEW m \in Message, Bounded(m)
          PROVE  /\ deliveries'[m] <= Room(m)'
                 /\ Returnable(m)' => deliveries'[m] + 1 <= Room(m)'
      <4>1. Room(m)' = Room(m) /\ deliveries'[m] = deliveries[m]
        BY <1>2, <2>1, <2>3 DEF Room
      <4>2. QED
        BY <1>2, <3>1, <3>2, <4>1
    <3>3. QED
      BY <1>3, <3>2
  <2>4. QED
    BY <2>1, <2>2, <2>3
<1>9. ASSUME NEW p \in Process, Stop(p) PROVE CapInv'
  BY <1>4, <1>9 DEF Stop, Fault
<1>10. CASE UNCHANGED vars
  BY <1>10 DEF vars, CapInv, DeliveriesInCap, Bounded, Returnable, Live, RetryCap, Cap
<1>11. QED
  BY <1>5, <1>6, <1>7, <1>8, <1>9, <1>10, HandlerStepProgress DEF Next

RetryInv == TypedTasks /\ HandlersInv /\ TriesInv /\ CapInv

LEMMA RetryInvHolds == Spec => []RetryInv
<1>1. Init => RetryInv
  BY IngressAssumption, InitTypedTasks, InitHandlersInv, InitTriesInv DEF RetryInv
<1>2. RetryInv /\ [Next]_vars => RetryInv'
  BY IngressAssumption, StepTypedTasks, StepHandlersInv, StepTriesInv, StepCapInv
     DEF TypedTasks, RetryInv
<1>3. QED
  BY <1>1, <1>2, PTL DEF Spec

\* What _requeue_within_cap does to each message, whatever the others come with: a
\* message that is counted or marked is dropped at its cap and not delivered beyond
\* it, one with an x-death count at max_ingress_retries is dropped at its first
\* error, and one with a smaller x-death count is never dropped.
THEOREM RetriesAreBounded == Spec => [](DropsAtCap /\ DeliveriesInCap)
<1>1. RetryInv => DropsAtCap /\ DeliveriesInCap
  BY DEF RetryInv, TriesInv, CapInv
<1>2. QED
  BY <1>1, RetryInvHolds, PTL

NoDeathCounts == \A m \in Message : Counter[m] # "x-death"

\* Without x-death counts the cap is the one that the properties name.
LEMMA PlainCap ==
    ASSUME NoDeathCounts, NEW m \in Message
    PROVE  Bounded(m) /\ RetryCap(m) = Cap(m)
BY DEF NoDeathCounts, Bounded, RetryCap

\* A message that _requeue_within_cap drops has had all the tries the cap allows,
\* but for those a fault or a process that stops has cost it, for any number of
\* processes, messages and redeliveries.
THEOREM DroppedAfterTries == NoDeathCounts /\ Spec => []TriesBeforeDrop
<1>1. NoDeathCounts /\ RetryInv => TriesBeforeDrop
  <2> SUFFICES ASSUME NoDeathCounts, RetryInv, NEW m \in Message, where[m] = "dropped"
               PROVE  tries[m] + faults + bounced[m] >= Cap(m)
    BY DEF TriesBeforeDrop
  <2>1. Spent(m) >= Cap(m)
    BY PlainCap DEF RetryInv, TriesInv, DropsAtCap, AtCap
  <2>2. tries[m] \in Nat /\ faults \in Nat /\ bounced[m] \in Nat /\ Cap(m) \in Nat
    BY IngressAssumption, PlainCap, Numbers DEF RetryInv, TypedTasks
  <2>3. QED
    BY <2>1, <2>2 DEF Spent
<1>2. NoDeathCounts => NoDeathCounts'
  BY DEF NoDeathCounts
<1>3. QED
  BY <1>1, <1>2, RetryInvHolds, PTL

\* No message goes round for ever: only faults and stops add deliveries to its cap.
THEOREM NoEndlessRedelivery == NoDeathCounts /\ Spec => []DeliveriesAreCapped
<1>1. NoDeathCounts /\ RetryInv => DeliveriesAreCapped
  BY PlainCap DEF RetryInv, CapInv, DeliveriesInCap, DeliveriesAreCapped
<1>2. NoDeathCounts => NoDeathCounts'
  BY DEF NoDeathCounts
<1>3. QED
  BY <1>1, <1>2, RetryInvHolds, PTL
=============================================================================
