--------------------------- MODULE TaskRollupProofs ---------------------------
(***************************************************************************)
(* SettledRoots for every value of the constants: a root that closed as    *)
(* successful has no open and no failed blocking subtask.  It takes that   *)
(* the subtasks of a root are inserted once (InsertsOnce), that no         *)
(* heartbeat is late and that no batch is left behind; README.md, section  *)
(* 3, says why.                                                            *)
(***************************************************************************)
EXTENDS TaskProofs

-----------------------------------------------------------------------------
(* Rows. *)

\* A row of a batch was inserted.
BatchRowsExist ==
    \A w \in Worker, t \in Task : coro[w][t].pc # "none" => status[t] # Absent

\* Only LINEAR roots insert subtasks.
CyclicalRootsAreAlone == \A c \in Subtask : Parent[c] \in Cyclical => status[c] = Absent

LEMMA Statuses ==
    /\ Absent \notin RowStatus
    /\ OpenStatus \subseteq RowStatus /\ TerminalStatus \subseteq RowStatus
    /\ HeldStatus \subseteq OpenStatus /\ OpenStatus \cap TerminalStatus = {}
    /\ "WAITING" \notin OpenStatus \cup TerminalStatus /\ "WAITING" \in RowStatus
    /\ FailedStatus \subseteq TerminalStatus
BY DEF Absent, RowStatus, OpenStatus, TerminalStatus, HeldStatus, FailedStatus

\* No statement takes a row out of the table.
LEMMA StoreStepKeepsRows ==
    ASSUME StoreTypeOK, StoreStep, NEW t \in Task, status[t] # Absent
    PROVE  status'[t] # Absent
<1> USE DEF StoreTypeOK, SetStatus
<1>1. ASSUME NEW u \in Task, NEW candidate \in Outcome, NEW k \in Nat,
             InsertResultAndUpdate(u, candidate, k)
      PROVE  status'[t] # Absent
  <2>1. StoredStatus(u, candidate, k) # Absent
    BY StoredStatusType, Statuses
  <2>2. QED
    BY <1>1, <2>1 DEF InsertResultAndUpdate, Absent
<1>2. ASSUME NEW S \in SUBSET Task, LockRunnable(S) \/ RequeueIncomplete(S) \/ InsertSubtasks(S)
      PROVE  status'[t] # Absent
  BY <1>2 DEF LockRunnable, RequeueIncomplete, InsertSubtasks, Absent
<1>3. ASSUME NEW r \in Root, CancelOpenSubtasks(r) PROVE status'[t] # Absent
  BY <1>3 DEF CancelOpenSubtasks, Absent
<1>4. ASSUME NEW r \in Root, NEW s \in TerminalStatus, CloseWaiting(r, s)
      PROVE  status'[t] # Absent
  BY <1>4, Statuses DEF CloseWaiting
<1>5. ASSUME NEW u \in Task, SetTaskRunning(u) PROVE status'[t] # Absent
  BY <1>5 DEF SetTaskRunning, Absent
<1>6. CASE UNCHANGED status
  BY <1>6
<1>7. QED
  BY <1>1, <1>2, <1>3, <1>4, <1>5, <1>6
     DEF StoreStep, TouchHeartbeats, BecomeDue, HeartbeatAges, SoftDelete, ToggleSetting, storeVars

-----------------------------------------------------------------------------
(* What a step does to one coroutine. *)

CoroutineStays(w, t) ==
    /\ coro'[w][t].pc = coro[w][t].pc
    /\ \/ coro'[w][t].arg = coro[w][t].arg
       \/ coro[w][t].pc = "running" /\ coro'[w][t].arg = "spawned"

CoroutineMoves(w, t) ==
    \/ Start(w, t) \/ Persist(w, t) \/ PersistSkipped(w, t)
    \/ StartMisses(w, t) \/ Raise(w, t) \/ PipelineReturns(w, t) \/ CallFails(w, t)
    \/ t \in Subtask /\ (FailParent(w, t) \/ CancelSiblings(w, t)
                         \/ CountSiblings(w, t) \/ CloseParent(w, t))

LEMMA AnyCoroutineChange ==
    ASSUME TypeInv, [Next]_vars, NEW w \in Worker, NEW t \in Task
    PROVE  \/ CoroutineStays(w, t)
           \/ coro'[w][t].pc = "none"
           \/ BatchAborts(w, t) /\ coro'[w][t].pc = "done"
           \/ \E S \in SUBSET Task : Fetch(w, S) /\ t \in S /\ coro'[w][t].pc = "waiting"
           \/ ShutdownTimeout(w) /\ coro[w][t].pc # "none" /\ coro'[w][t].pc = "done"
           \/ CoroutineMoves(w, t)
<1> DEFINE Goal == \/ CoroutineStays(w, t)
                   \/ coro'[w][t].pc = "none"
                   \/ BatchAborts(w, t) /\ coro'[w][t].pc = "done"
                   \/ \E S \in SUBSET Task : Fetch(w, S) /\ t \in S /\ coro'[w][t].pc = "waiting"
                   \/ ShutdownTimeout(w) /\ coro[w][t].pc # "none" /\ coro'[w][t].pc = "done"
                   \/ CoroutineMoves(w, t)
<1>c. coro \in [Worker -> [Task -> Coroutine]]
  BY DEF TypeInv, TypeOK
<1>1. ASSUME NEW v \in Worker, NEW S \in SUBSET Task, Fetch(v, S) PROVE Goal
  <2>1. CASE v = w /\ t \in S
    BY <1>1, <1>c, <2>1 DEF Fetch, Fetched, NoCoroutine
  <2>2. CASE v = w /\ t \notin S
    BY <1>1, <1>c, <2>2 DEF Fetch, NoCoroutine
  <2>3. CASE v # w
    BY <1>1, <1>c, <2>3 DEF Fetch, CoroutineStays
  <2>4. QED
    BY <2>1, <2>2, <2>3
<1>2. ASSUME NEW v \in Worker, Forget(v) \/ ProcessEnds(v) PROVE Goal
  <2>1. coro'[w] = coro[w] \/ coro'[w] = [u \in Task |-> NoCoroutine]
    BY <1>2, <1>c DEF Forget, ProcessEnds
  <2>2. CASE coro'[w] = coro[w]
    BY <2>2 DEF CoroutineStays
  <2>3. CASE coro'[w] = [u \in Task |-> NoCoroutine]
    <3>1. coro'[w][t] = NoCoroutine
      BY <2>3
    <3>2. NoCoroutine.pc = "none"
      BY DEF NoCoroutine
    <3>3. QED
      BY <3>1, <3>2
  <2>4. QED
    BY <2>1, <2>2, <2>3
<1>3. ASSUME NEW v \in Worker, NEW S, CancelCoroutines(v, S) PROVE Goal
  BY <1>3, <1>c DEF CancelCoroutines, CoroutineStays, Coroutine
<1>4. ASSUME NEW v \in Worker, ShutdownTimeout(v) PROVE Goal
  BY <1>4, <1>c DEF ShutdownTimeout, CoroutineStays, DoneCoroutine, NoCoroutine, Batch
<1>5. ASSUME NEW v \in Worker, NEW u \in Task, NEW pc, NEW arg, v # w \/ u # t,
             Goto(v, u, pc, arg) \/ GotoError(v, u, arg)
      PROVE  CoroutineStays(w, t)
  BY <1>5, <1>c DEF Goto, GotoError, CoroutineStays
<1>6. ASSUME NEW v \in Worker, NEW u \in Task, CoroutineStep(v, u) \/ CallFails(v, u) PROVE Goal
  <2>1. CASE v = w /\ u = t
    BY <1>6, <2>1 DEF CoroutineStep, CoroutineMoves
  <2>2. CASE v # w \/ u # t
    <3>1. \E pc, arg : Goto(v, u, pc, arg) \/ GotoError(v, u, arg)
      BY <1>6 DEF CoroutineStep, Start, StartMisses, Raise, PipelineReturns, Persist, AfterStore,
         PersistSkipped, FailParent, CancelSiblings, CountSiblings, CloseParent, CallFails
    <3>2. QED
      BY <2>2, <3>1, <1>5
  <2>3. QED
    BY <2>1, <2>2
<1>7. CASE UNCHANGED coro
  BY <1>7 DEF CoroutineStays
<1>8. ASSUME NEW v \in Worker, WorkerStep(v) PROVE Goal
  <2>1. CASE \E S \in SUBSET Task : Fetch(v, S)
    BY <1>1, <2>1
  <2>2. CASE BatchEnds(v) \/ OrphansEnd(v) \/ Requeue(v)
    BY <1>2, <2>2 DEF BatchEnds, OrphansEnd, Requeue
  <2>3. CASE PollWorkerDisabled(v) \/ PollRound(v)
    BY <1>3, <2>3 DEF PollWorkerDisabled, PollRound
  <2>4. CASE ShutdownTimeout(v) \/ Restart(v)
    BY <1>4, <1>7, <2>4 DEF Restart
  <2>5. QED
    BY <1>8, <2>1, <2>2, <2>3, <2>4 DEF WorkerStep
<1>9. CASE FaultStep
  <2>1. ASSUME NEW v \in Worker, Stop(v) \/ Crash(v) \/ PollFails(v) \/ RequeueFails(v)
        PROVE  Goal
    BY <2>1, <1>2, <1>3, <1>7 DEF Stop, Crash, PollFails, RequeueFails
  <2>2. ASSUME NEW v \in Worker, NEW u \in Task, CallFails(v, u) \/ BatchAborts(v, u)
        PROVE  Goal
    <3>1. CASE CallFails(v, u)
      BY <1>6, <3>1
    <3>2. CASE BatchAborts(v, u)
      BY <1>c, <3>2 DEF BatchAborts, DoneCoroutine, NoCoroutine, CoroutineStays
    <3>3. QED
      BY <2>2, <3>1, <3>2
  <2>3. CASE (\E f \in Flag : Toggle(f)) \/ (\E u \in Task : Delete(u) \/ HeartbeatLate(u))
    BY <2>3, <1>7 DEF Toggle, Delete, HeartbeatLate, workerVars
  <2>4. QED
    BY <1>9, <2>1, <2>2, <2>3 DEF FaultStep
<1>10. ASSUME NEW v \in Worker, NEW r \in Root, NEW S \in SUBSET ChildrenOf(r), Spawn(v, r, S)
       PROVE  CoroutineStays(w, t)
  <2>1. r \in Task /\ coro[v][r].pc = "running" /\ Goto(v, r, "running", "spawned")
    BY <1>10 DEF Spawn, Task
  <2>2. QED
    BY <1>c, <2>1 DEF Goto, CoroutineStays, Coroutine
<1>11. CASE \E u \in Task : Due(u) \/ HeartbeatExpires(u)
  BY <1>11, <1>7 DEF Due, HeartbeatExpires, workerVars
<1>12. CASE UNCHANGED vars
  BY <1>12, <1>7 DEF vars, workerVars
<1>13. QED
  BY <1>6, <1>8, <1>9, <1>10, <1>11, <1>12 DEF Next

\* The same when no call of on_task_error fails.
LEMMA CoroutineChange ==
    ASSUME TypeInv, [Next]_vars, "abort" \notin Faults, NEW w \in Worker, NEW t \in Task
    PROVE  \/ CoroutineStays(w, t)
           \/ coro'[w][t].pc = "none"
           \/ \E S \in SUBSET Task : Fetch(w, S) /\ t \in S /\ coro'[w][t].pc = "waiting"
           \/ ShutdownTimeout(w) /\ coro[w][t].pc # "none" /\ coro'[w][t].pc = "done"
           \/ CoroutineMoves(w, t)
<1>1. ~BatchAborts(w, t)
  BY DEF BatchAborts, Fault
<1>2. QED
  BY <1>1, AnyCoroutineChange

\* A coroutine that moves on leaves the others alone.
LEMMA OthersStay ==
    ASSUME TypeInv, NEW v \in Worker, NEW u \in Task, NEW pc, NEW arg,
           Goto(v, u, pc, arg) \/ GotoError(v, u, arg),
           NEW w \in Worker, NEW t \in Task, v # w \/ u # t
    PROVE  coro'[w][t] = coro[w][t]
<1>c. coro \in [Worker -> [Task -> Coroutine]]
  BY DEF TypeInv, TypeOK
<1>1. CASE Goto(v, u, pc, arg)
  BY <1>c, <1>1 DEF Goto
<1>2. CASE GotoError(v, u, arg)
  BY <1>c, <1>2 DEF GotoError
<1>3. QED
  BY <1>1, <1>2

\* Every step of a coroutine is one of the two ways it moves on.
LEMMA StepGoes ==
    ASSUME NEW v \in Worker, NEW u \in Task, CoroutineStep(v, u) \/ CallFails(v, u)
    PROVE  \E pc, arg : Goto(v, u, pc, arg) \/ GotoError(v, u, arg)
BY DEF CoroutineStep, Start, StartMisses, Raise, PipelineReturns, Persist, AfterStore,
   PersistSkipped, FailParent, CancelSiblings, CountSiblings, CloseParent, CallFails

\* No worker was asked to stop, and none left its batch behind.
NobodyStops == \A w \in Worker : mode[w] \in {"up", "down", "spare"}

LEMMA StepNobodyStops ==
    ASSUME TypeInv, NobodyStops, [Next]_vars, {"stop", "abort"} \cap Faults = {}
    PROVE  NobodyStops'
<1> USE DEF NobodyStops
<1>m. mode \in [Worker -> Mode]
  BY DEF TypeInv, TypeOK
<1>e. ASSUME NEW w \in Worker, ProcessEnds(w) PROVE NobodyStops'
  BY <1>e, <1>m, EndForgets
<1>1. ASSUME NEW w \in Worker, WorkerStep(w) PROVE NobodyStops'
  BY <1>1, <1>m, <1>e DEF WorkerStep, Fetch, BatchEnds, OrphansEnd, PollWorkerDisabled, PollRound,
     ShutdownTimeout, Requeue, Restart
<1>2. ASSUME NEW w \in Worker, NEW t \in Task, CoroutineStep(w, t) PROVE NobodyStops'
  BY <1>2 DEF CoroutineStep, Start, StartMisses, Raise, PipelineReturns, Persist, PersistSkipped,
     FailParent, CancelSiblings, CountSiblings, CloseParent
<1>3. CASE \/ \E w \in Worker, r \in Root : \E S \in SUBSET ChildrenOf(r) : Spawn(w, r, S)
           \/ \E t \in Task : Due(t) \/ HeartbeatExpires(t)
           \/ UNCHANGED vars
  BY <1>3 DEF Spawn, Due, HeartbeatExpires, workerVars, vars
<1>4. CASE FaultStep
  BY <1>4, <1>e DEF FaultStep, Fault, Stop, Crash, CallFails, BatchAborts, PollFails, RequeueFails,
     Toggle, Delete, HeartbeatLate, workerVars
<1>5. QED
  BY <1>1, <1>2, <1>3, <1>4 DEF Next

\* Where nothing ends a worker a coroutine in flight is not given up.
LEMMA FlightGoesOn ==
    ASSUME TypeInv, NobodyStops, [Next]_vars, {"stop", "crash", "abort"} \cap Faults = {},
           NEW w \in Worker, NEW t \in Task, t \in InFlight(w)
    PROVE  CoroutineStays(w, t) \/ CoroutineMoves(w, t)
<1> DEFINE Goal == CoroutineStays(w, t) \/ CoroutineMoves(w, t)
<1>c. /\ coro \in [Worker -> [Task -> Coroutine]] /\ coro[w][t].pc # "none"
      /\ \A v \in Worker : mode[v] \notin {"stopping", "requeue", "orphaned"}
  BY DEF TypeInv, TypeOK, InFlight, ProgressPc, NobodyStops
<1>0. CASE UNCHANGED coro
  BY <1>0 DEF CoroutineStays
<1>p. ASSUME NEW v \in Worker, NEW S, CancelCoroutines(v, S) PROVE CoroutineStays(w, t)
  BY <1>c, <1>p DEF CancelCoroutines, CoroutineStays, Coroutine
<1>1. ASSUME NEW v \in Worker, NEW u \in Task, CoroutineStep(v, u) \/ CallFails(v, u) PROVE Goal
  <2>1. CASE v = w /\ u = t
    BY <1>1, <2>1 DEF CoroutineStep, CoroutineMoves
  <2>2. CASE v # w \/ u # t
    <3>1. PICK pc, arg : Goto(v, u, pc, arg) \/ GotoError(v, u, arg)
      BY <1>1, StepGoes
    <3>2. coro'[w][t] = coro[w][t]
      BY <2>2, <3>1, OthersStay
    <3>3. QED
      BY <3>2 DEF CoroutineStays
  <2>3. QED
    BY <2>1, <2>2
<1>2. ASSUME NEW v \in Worker, WorkerStep(v) PROVE CoroutineStays(w, t)
  <2>1. ASSUME NEW S \in SUBSET Task, Fetch(v, S) PROVE CoroutineStays(w, t)
    <3>1. v # w
      BY <1>c, <2>1 DEF Fetch, Batch
    <3>2. QED
      BY <1>c, <2>1, <3>1 DEF Fetch, CoroutineStays
  <2>2. CASE BatchEnds(v)
    <3>1. v # w /\ Forget(v)
      BY <1>c, <2>2 DEF BatchEnds
    <3>2. QED
      BY <1>c, <3>1 DEF Forget, CoroutineStays
  <2>3. CASE PollWorkerDisabled(v) \/ PollRound(v)
    BY <1>p, <2>3 DEF PollWorkerDisabled, PollRound
  <2>4. CASE ShutdownTimeout(v) \/ Requeue(v) \/ OrphansEnd(v)
    BY <1>c, <2>4 DEF ShutdownTimeout, Requeue, OrphansEnd
  <2>5. CASE Restart(v)
    BY <2>5 DEF Restart, CoroutineStays
  <2>6. QED
    BY <1>2, <2>1, <2>2, <2>3, <2>4, <2>5 DEF WorkerStep
<1>3. ASSUME NEW v \in Worker, NEW r \in Root, NEW S \in SUBSET ChildrenOf(r), Spawn(v, r, S)
      PROVE  CoroutineStays(w, t)
  <2>1. r \in Task /\ coro[v][r].pc = "running" /\ Goto(v, r, "running", "spawned")
    BY <1>3 DEF Spawn, Task
  <2>2. QED
    BY <1>c, <2>1 DEF Goto, CoroutineStays, Coroutine
<1>4. CASE (\E u \in Task : Due(u) \/ HeartbeatExpires(u)) \/ UNCHANGED vars
  BY <1>0, <1>4 DEF Due, HeartbeatExpires, workerVars, vars
<1>5. CASE FaultStep
  <2>1. ASSUME NEW v \in Worker, Stop(v) \/ Crash(v) \/ RequeueFails(v) \/ PollFails(v)
        PROVE  CoroutineStays(w, t)
    BY <1>c, <1>p, <2>1 DEF Stop, Crash, RequeueFails, PollFails, Fault
  <2>2. ASSUME NEW v \in Worker, NEW u \in Task, CallFails(v, u) \/ BatchAborts(v, u) PROVE Goal
    BY <1>1, <2>2 DEF BatchAborts, Fault
  <2>3. CASE (\E f \in Flag : Toggle(f)) \/ (\E u \in Task : Delete(u) \/ HeartbeatLate(u))
    BY <1>0, <2>3 DEF Toggle, Delete, HeartbeatLate, workerVars
  <2>4. QED
    BY <1>5, <2>1, <2>2, <2>3 DEF FaultStep
<1>6. QED
  BY <1>1, <1>2, <1>3, <1>4, <1>5 DEF Next

-----------------------------------------------------------------------------
(* What a step does to the row of a LINEAR root. *)

RootMoves(r) ==
    \/ \E w \in Worker, S \in SUBSET Task : Fetch(w, S) /\ r \in S
    \/ \E w \in Worker : Start(w, r) \/ Persist(w, r)
    \/ \E w \in Worker : Requeue(w) /\ r \in Batch(w) /\ status[r] \notin TerminalStatus
    \/ /\ status[r] = "WAITING" /\ status'[r] \in TerminalStatus
       /\ \E w \in Worker, c \in Subtask : Parent[c] = r /\ (FailParent(w, c) \/ CloseParent(w, c))

LEMMA RootChange ==
    ASSUME TaskAssumption, TypeInv, [Next]_vars, NEW r \in Root
    PROVE  status'[r] = status[r] \/ RootMoves(r)
<1> DEFINE Goal == status'[r] = status[r] \/ RootMoves(r)
<1>t. status \in [Task -> RowStatus \cup {Absent}] /\ r \in Task
  BY DEF TypeInv, TypeOK, StoreTypeOK, Task
<1> USE DEF SetStatus
<1>1. ASSUME NEW w \in Worker, WorkerStep(w) PROVE Goal
  <2>1. ASSUME NEW S \in SUBSET Task, Fetch(w, S) PROVE Goal
    BY <1>t, <2>1 DEF Fetch, LockRunnable, RootMoves
  <2>2. CASE Requeue(w)
    BY <1>t, <2>2 DEF Requeue, RequeueIncomplete, RootMoves
  <2>3. CASE \/ BatchEnds(w) \/ OrphansEnd(w) \/ PollWorkerDisabled(w) \/ PollRound(w)
             \/ ShutdownTimeout(w) \/ Restart(w)
    BY <2>3 DEF BatchEnds, OrphansEnd, PollWorkerDisabled, PollRound, TouchHeartbeats,
       ShutdownTimeout, Restart, storeVars
  <2>4. QED
    BY <1>1, <2>1, <2>2, <2>3 DEF WorkerStep
<1>2. ASSUME NEW w \in Worker, NEW t \in Task, CoroutineStep(w, t) PROVE Goal
  <2>1. CASE Start(w, t)
    BY <1>t, <2>1 DEF Start, SetTaskRunning, RootMoves
  <2>2. CASE Persist(w, t)
    <3>1. CASE t = r
      BY <2>2, <3>1 DEF RootMoves
    <3>2. CASE t # r
      <4>1. r \notin CancelledByRollup(t, Candidate(w, t), coro[w][t].execs)
        BY DEF CancelledByRollup, Kids, ChildrenOf, TaskAssumption
      <4>2. QED
        BY <1>t, <2>2, <3>2, <4>1 DEF Persist, InsertResultAndUpdate
    <3>3. QED
      BY <3>1, <3>2
  <2>3. ASSUME t \in Subtask, FailParent(w, t) \/ CloseParent(w, t) PROVE Goal
    <3>1. CASE FailParent(w, t)
      BY <1>t, <2>3, <3>1 DEF FailParent, CloseWaiting, RootMoves, TerminalStatus, FailedStatus
    <3>2. CASE CloseParent(w, t)
      <4>1. coro[w][t].arg \in TerminalStatus
        BY <3>2 DEF CloseParent, TypeInv, CoroutineOK
      <4>2. QED
        <5>1. CASE Parent[t] = r /\ status[r] = "WAITING"
          <6>1. status'[r] = coro[w][t].arg
            BY <1>t, <3>2, <5>1 DEF CloseParent, CloseWaiting
          <6>2. QED
            BY <2>3, <3>2, <4>1, <5>1, <6>1 DEF RootMoves
        <5>2. CASE ~(Parent[t] = r /\ status[r] = "WAITING")
          BY <1>t, <3>2, <5>2 DEF CloseParent, CloseWaiting
        <5>3. QED
          BY <5>1, <5>2
    <3>3. QED
      BY <2>3, <3>1, <3>2
  <2>4. CASE CancelSiblings(w, t)
    BY <1>t, <2>4 DEF CancelSiblings, CancelOpenSubtasks, Kids, ChildrenOf, TaskAssumption
  <2>5. CASE StartMisses(w, t) \/ Raise(w, t) \/ PipelineReturns(w, t) \/ PersistSkipped(w, t)
             \/ CountSiblings(w, t)
    BY <2>5 DEF StartMisses, Raise, PipelineReturns, PersistSkipped, CountSiblings, storeVars
  <2>6. QED
    BY <1>2, <2>1, <2>2, <2>3, <2>4, <2>5 DEF CoroutineStep
<1>3. ASSUME NEW w \in Worker, NEW q \in Root, NEW S \in SUBSET ChildrenOf(q), Spawn(w, q, S)
      PROVE  Goal
  BY <1>t, <1>3 DEF Spawn, InsertSubtasks, ChildrenOf, TaskAssumption
<1>4. ASSUME NEW t \in Task, Due(t) \/ HeartbeatExpires(t) PROVE Goal
  BY <1>4 DEF Due, HeartbeatExpires, BecomeDue, HeartbeatAges
<1>5. CASE FaultStep
  BY <1>5 DEF FaultStep, Stop, Crash, PollFails, RequeueFails, CallFails, BatchAborts, Toggle,
     ToggleSetting, Delete, SoftDelete, HeartbeatLate, HeartbeatAges, storeVars
<1>6. CASE UNCHANGED vars
  BY <1>6 DEF vars, storeVars
<1>7. QED
  BY <1>1, <1>2, <1>3, <1>4, <1>5, <1>6 DEF Next

-----------------------------------------------------------------------------
(* The lease of a LINEAR root. *)

\* RootLease of one root in one worker.
LeaseOf(w, r) ==
    /\ coro[w][r].pc \in {"none", "waiting", "running", "persist", "done"}
    /\ Executing(w, r) => status[r] \in HeldStatus
    /\ coro[w][r].pc = "done" =>
           \/ status[r] \in TerminalStatus \cup {"WAITING"}
           \/ status[r] \in HeldStatus /\ mode[w] = "requeue"
    /\ r \in Batch(w) => r \notin expired /\ \A v \in Worker : r \in Batch(v) => v = w

LEMMA RootLeaseOf == RootLease <=> \A w \in Worker, r \in Root \ Cyclical : LeaseOf(w, r)
BY DEF RootLease, LeaseOf

\* A root that a worker has in its batch cannot be locked.
LEMMA LeasedNotRunnable ==
    ASSUME RootLease, TypeInv, NEW w \in Worker, NEW r \in Root \ Cyclical, r \in Batch(w)
    PROVE  ~IsRunnable(r)
<1>1. LeaseOf(w, r)
  BY RootLeaseOf
<1>2. coro[w][r].pc # "none"
  BY DEF Batch
<1>3. status[r] \in HeldStatus \cup TerminalStatus \cup {"WAITING"} /\ r \notin expired
  BY <1>1, <1>2 DEF LeaseOf, Executing
<1>4. QED
  BY <1>3, Statuses DEF IsRunnable, HeldStatus, TerminalStatus, FailedStatus

\* Only Fetch puts a root into a batch, hence it is never in two.
LEMMA OneBatch ==
    ASSUME TypeInv, RootLease, [Next]_vars, "abort" \notin Faults, NEW r \in Root \ Cyclical
    PROVE  \A v, w \in Worker : r \in Batch(v)' /\ r \in Batch(w)' => v = w
<1>c. r \in Task /\ coro \in [Worker -> [Task -> Coroutine]]
  BY DEF TypeInv, TypeOK, Task
<1>1. ASSUME NEW w \in Worker, r \in Batch(w)'
      PROVE  r \in Batch(w) \/ \E S \in SUBSET Task : Fetch(w, S) /\ r \in S
  <2>1. coro'[w][r].pc # "none"
    BY <1>1 DEF Batch
  <2>2. CoroutineMoves(w, r) => coro[w][r].pc # "none"
    BY DEF CoroutineMoves, Start, Persist, PersistSkipped, StartMisses, Raise, PipelineReturns,
       CallFails, FailParent, CancelSiblings, CountSiblings, CloseParent, ProgressPc
  <2>3. QED
    BY <1>c, <2>1, <2>2, CoroutineChange DEF CoroutineStays, Batch
<1>2. ASSUME NEW v \in Worker, NEW w \in Worker, r \in Batch(v), r \in Batch(w) PROVE v = w
  BY <1>2 DEF RootLease
<1>3. ASSUME NEW v \in Worker, NEW w \in Worker, r \in Batch(v), NEW S \in SUBSET Task,
             Fetch(w, S), r \in S
      PROVE  FALSE
  BY <1>3, LeasedNotRunnable DEF Fetch, LockRunnable, Runnable
<1>4. ASSUME NEW v \in Worker, NEW w \in Worker, NEW S \in SUBSET Task, NEW T \in SUBSET Task,
             Fetch(v, S), Fetch(w, T), r \in S, v # w
      PROVE  FALSE
  <2>1. coro'[v][r] = Fetched(r)
    BY <1>4, <1>c DEF Fetch
  <2>2. coro'[v][r] = coro[v][r]
    BY <1>4, <1>c DEF Fetch
  <2>3. r \notin Batch(v)
    BY <1>4 DEF Fetch
  <2>4. QED
    BY <1>c, <2>1, <2>2, <2>3 DEF Fetched, NoCoroutine, Batch
<1>5. QED
  BY <1>1, <1>2, <1>3, <1>4

\* As long as no heartbeat is late, a row that is held does not expire.
LEMMA ExpiredChange ==
    ASSUME TypeInv, [Next]_vars, "late" \notin Faults, NEW t \in Task, t \in expired'
    PROVE  \/ t \in expired
           \/ status[t] \in HeldStatus /\ \A w \in Worker : t \notin HeldBy(w)
<1> DEFINE Goal == t \in expired \/ HeartbeatExpires(t) \/ HeartbeatLate(t)
<1>1. Goal
  <2>1. ASSUME NEW w \in Worker, WorkerStep(w) PROVE Goal
    BY <2>1 DEF WorkerStep, Fetch, LockRunnable, BatchEnds, OrphansEnd, PollWorkerDisabled,
       PollRound, TouchHeartbeats, ShutdownTimeout, Requeue, RequeueIncomplete, Restart, storeVars
  <2>2. ASSUME NEW w \in Worker, NEW u \in Task, CoroutineStep(w, u) PROVE Goal
    BY <2>2 DEF CoroutineStep, Start, SetTaskRunning, StartMisses, Raise, PipelineReturns,
       Persist, InsertResultAndUpdate, PersistSkipped, FailParent, CloseWaiting, CancelSiblings,
       CancelOpenSubtasks, CountSiblings, CloseParent, storeVars
  <2>3. ASSUME NEW w \in Worker, NEW r \in Root, NEW S \in SUBSET ChildrenOf(r), Spawn(w, r, S)
        PROVE  Goal
    BY <2>3 DEF Spawn, InsertSubtasks
  <2>4. ASSUME NEW u \in Task, Due(u) \/ HeartbeatExpires(u) PROVE Goal
    <3>1. CASE u = t
      BY <2>4, <3>1 DEF Due, BecomeDue
    <3>2. CASE u # t
      BY <2>4, <3>2 DEF Due, BecomeDue, HeartbeatExpires, HeartbeatAges
    <3>3. QED
      BY <3>1, <3>2
  <2>5. CASE FaultStep
    <3>1. ASSUME NEW u \in Task, HeartbeatLate(u) PROVE Goal
      <4>1. CASE u = t
        BY <3>1, <4>1
      <4>2. CASE u # t
        BY <3>1, <4>2 DEF HeartbeatLate, HeartbeatAges
      <4>3. QED
        BY <4>1, <4>2
    <3>2. QED
      BY <2>5, <3>1 DEF FaultStep, Stop, Crash, CallFails, BatchAborts, PollFails, RequeueFails,
         Toggle, ToggleSetting, Delete, SoftDelete, storeVars
  <2>6. CASE UNCHANGED vars
    BY <2>6 DEF vars, storeVars
  <2>7. QED
    BY <2>1, <2>2, <2>3, <2>4, <2>5, <2>6 DEF Next
<1>2. QED
  BY <1>1 DEF HeartbeatExpires, HeartbeatAges, HeartbeatLate, Fault

\* A worker that gives its batch back forgets it when it is done with that.
LEMMA RequeueChange ==
    ASSUME TypeInv, [Next]_vars, "abort" \notin Faults, NEW w \in Worker, NEW t \in Task,
           mode[w] = "requeue", coro'[w][t].pc # "none"
    PROVE  mode'[w] = "requeue"
<1>1. ASSUME Forget(w) PROVE coro'[w][t].pc = "none"
  BY <1>1 DEF Forget, NoCoroutine, TypeInv, TypeOK
<1>2. mode \in [Worker -> Mode]
  BY DEF TypeInv, TypeOK
<1> DEFINE Goal == Forget(w) \/ mode'[w] = mode[w]
<1>e. ASSUME NEW v \in Worker, ProcessEnds(v) PROVE Goal
  BY <1>2, <1>e, EndForgets
<1>3. ASSUME NEW v \in Worker, WorkerStep(v) PROVE Goal
  BY <1>2, <1>3, <1>e DEF WorkerStep, Fetch, BatchEnds, OrphansEnd, PollWorkerDisabled, PollRound,
                          ShutdownTimeout, Requeue, Restart
<1>4. ASSUME NEW v \in Worker, NEW c \in Task, CoroutineStep(v, c) PROVE Goal
  BY <1>4 DEF CoroutineStep, Start, StartMisses, Raise, PipelineReturns, Persist,
              PersistSkipped, FailParent, CancelSiblings, CountSiblings, CloseParent
<1>5. CASE FaultStep
  <2>1. ASSUME NEW v \in Worker, Stop(v) \/ Crash(v) \/ PollFails(v) \/ RequeueFails(v) PROVE Goal
    BY <1>2, <1>e, <2>1 DEF Stop, Crash, PollFails, RequeueFails
  <2>2. ASSUME NEW v \in Worker, NEW c \in Task, CallFails(v, c) \/ BatchAborts(v, c) PROVE Goal
    BY <1>2, <2>2 DEF CallFails, BatchAborts, Fault
  <2>3. ASSUME NEW f \in Flag, Toggle(f) PROVE Goal
    BY <2>3 DEF Toggle, workerVars
  <2>4. ASSUME NEW c \in Task, Delete(c) \/ HeartbeatLate(c) PROVE Goal
    BY <2>4 DEF Delete, HeartbeatLate, workerVars
  <2>5. Goal
    BY <1>5, <2>1, <2>2, <2>3, <2>4 DEF FaultStep
  <2>6. QED
    BY <1>1, <2>5
<1>6. ASSUME NEW v \in Worker, NEW r \in Root, NEW S \in SUBSET ChildrenOf(r), Spawn(v, r, S)
      PROVE  Goal
  BY <1>6 DEF Spawn
<1>7. ASSUME NEW c \in Task, Due(c) \/ HeartbeatExpires(c) PROVE Goal
  BY <1>7 DEF Due, HeartbeatExpires, workerVars
<1>8. CASE UNCHANGED vars
  BY <1>8 DEF vars, workerVars
<1>9. QED
  BY <1>1, <1>3, <1>4, <1>5, <1>6, <1>7, <1>8 DEF Next

\* A LINEAR root is stored as terminal or WAITING.
LEMMA LinearRootStored ==
    ASSUME NEW r \in Root \ Cyclical, NEW candidate \in Outcome, NEW k
    PROVE  StoredStatus(r, candidate, k) \in TerminalStatus \cup {"WAITING"}
BY DEF StoredStatus, CyclicalRewrite, SuccessfulRootStatus, ClosingStatus, Outcome,
       TerminalStatus, FailedStatus

\* The coroutine of the root moves on.
LEMMA MoveKeepsLease ==
    ASSUME TaskAssumption, TypeInv, NEW w \in Worker, NEW r \in Root \ Cyclical, LeaseOf(w, r),
           CoroutineMoves(w, r)
    PROVE  /\ coro'[w][r].pc \in {"running", "persist", "done"}
           /\ coro'[w][r].pc = "running" => Start(w, r)
           /\ coro'[w][r].pc # "done" => status'[r] \in HeldStatus
           /\ coro'[w][r].pc = "done" => status'[r] \in TerminalStatus \cup {"WAITING"}
<1>c. r \in Task /\ coro \in [Worker -> [Task -> Coroutine]] /\ r \notin Subtask
      /\ status \in [Task -> RowStatus \cup {Absent}]
  BY DEF TypeInv, TypeOK, StoreTypeOK, Task, TaskAssumption
<1>1. CASE Start(w, r)
  BY <1>1, <1>c DEF Start, SetTaskRunning, SetStatus, Goto, HeldStatus
<1>2. CASE StartMisses(w, r) \/ Raise(w, r) \/ PipelineReturns(w, r) \/ CallFails(w, r)
  <2>1. Executing(w, r) /\ UNCHANGED status
    BY <1>2 DEF StartMisses, Raise, PipelineReturns, CallFails, ProgressPc, LeaseOf, Executing,
       storeVars
  <2>2. coro'[w][r].pc = "persist"
    <3>1. CASE PipelineReturns(w, r)
      BY <1>c, <3>1 DEF PipelineReturns, Goto
    <3>2. CASE StartMisses(w, r) \/ Raise(w, r) \/ CallFails(w, r)
      <4>1. \E arg : GotoError(w, r, arg)
        BY <3>2 DEF StartMisses, Raise, CallFails
      <4>2. QED
        BY <1>c, <4>1 DEF GotoError, Coroutine
    <3>3. QED
      BY <1>2, <3>1, <3>2
  <2>3. QED
    BY <2>1, <2>2 DEF LeaseOf
<1>3. CASE Persist(w, r)
  <2>1. Candidate(w, r) \in Outcome
    BY <1>3, <1>c, CandidateType DEF Persist, TypeInv
  <2>2. status'[r] \in TerminalStatus \cup {"WAITING"}
    BY <1>3, <1>c, <2>1, LinearRootStored DEF Persist, InsertResultAndUpdate
  <2>3. coro'[w][r].pc = "done"
    <3>1. Goto(w, r, "done", "")
      BY <1>3, <1>c DEF Persist, AfterStore, TaskAssumption
    <3>2. QED
      BY <1>c, <3>1 DEF Goto, DoneCoroutine, NoCoroutine
  <2>4. QED
    BY <2>2, <2>3
<1>4. CASE PersistSkipped(w, r)
  BY <1>4, <1>c DEF PersistSkipped, Goto, DoneCoroutine, NoCoroutine, storeVars
<1>5. QED
  BY <1>1, <1>2, <1>3, <1>4, <1>c DEF CoroutineMoves

\* The row of the root moves, the coroutine does not.
LEMMA RowKeepsLease ==
    ASSUME TaskAssumption, TypeInv, RootLease, NEW w \in Worker, NEW r \in Root \ Cyclical,
           "abort" \notin Faults, RootMoves(r), coro[w][r].pc # "none", CoroutineStays(w, r)
    PROVE  /\ Executing(w, r) => status'[r] \in HeldStatus
           /\ coro[w][r].pc = "done" => status'[r] \in TerminalStatus \cup {"WAITING"}
<1>c. r \in Task /\ coro \in [Worker -> [Task -> Coroutine]] /\ LeaseOf(w, r) /\ r \in Batch(w)
  BY RootLeaseOf DEF TypeInv, TypeOK, Task, Batch
<1>u. \A v \in Worker : r \in Batch(v) => v = w
  BY <1>c DEF LeaseOf
<1>1. ASSUME NEW v \in Worker, NEW S \in SUBSET Task, Fetch(v, S), r \in S PROVE FALSE
  BY <1>1, <1>c, LeasedNotRunnable DEF Fetch, LockRunnable, Runnable
<1>2. ASSUME NEW v \in Worker, Start(v, r) \/ Persist(v, r) PROVE FALSE
  <2>1. v = w
    <3>1. r \in Batch(v)
      BY <1>2, <1>c DEF Start, Persist, Batch
    <3>2. QED
      BY <1>u, <3>1
  <2>2. CASE Start(w, r)
    <3>1. coro[w][r].pc = "waiting" /\ Goto(w, r, "running", "")
      BY <2>2 DEF Start
    <3>2. coro'[w][r].pc = "running"
      BY <1>c, <3>1 DEF Goto, Coroutine
    <3>3. QED
      BY <3>1, <3>2 DEF CoroutineStays
  <2>3. CASE Persist(w, r)
    <3>1. coro[w][r].pc = "persist" /\ Goto(w, r, "done", "")
      BY <1>c, <2>3 DEF Persist, AfterStore, TaskAssumption
    <3>2. QED
      BY <1>c, <3>1 DEF Goto, DoneCoroutine, NoCoroutine, CoroutineStays
  <2>4. QED
    BY <1>2, <2>1, <2>2, <2>3
<1>3. ASSUME NEW v \in Worker, Requeue(v), r \in Batch(v) PROVE FALSE
  <2>1. v = w /\ Forget(v)
    BY <1>3, <1>u, EndForgets DEF Requeue
  <2>2. coro'[w][r] = NoCoroutine
    BY <1>c, <2>1 DEF Forget
  <2>3. coro'[w][r].pc = coro[w][r].pc
    BY DEF CoroutineStays
  <2>4. NoCoroutine.pc = "none"
    BY DEF NoCoroutine
  <2>5. QED
    BY <2>2, <2>3, <2>4
<1>4. CASE status[r] = "WAITING" /\ status'[r] \in TerminalStatus
  <2>1. ~Executing(w, r)
    BY <1>4, <1>c, Statuses DEF LeaseOf
  <2>2. QED
    BY <1>4, <2>1
<1>5. QED
  BY <1>1, <1>2, <1>3, <1>4 DEF RootMoves

LEMMA StepRootLease ==
    ASSUME TaskAssumption, TypeInv, RootLease, [Next]_vars,
           "late" \notin Faults, "abort" \notin Faults
    PROVE  RootLease'
<1> SUFFICES ASSUME NEW w \in Worker, NEW r \in Root \ Cyclical PROVE LeaseOf(w, r)'
  BY DEF RootLease, LeaseOf
<1>c. /\ r \in Task /\ coro \in [Worker -> [Task -> Coroutine]] /\ LeaseOf(w, r)
      /\ r \in Batch(w) <=> coro[w][r].pc # "none"
      /\ r \in Batch(w)' <=> coro'[w][r].pc # "none"
      /\ Executing(w, r) <=> coro[w][r].pc \in {"waiting", "running", "persist"}
      /\ Executing(w, r)' <=> coro'[w][r].pc \in {"waiting", "running", "persist"}
  BY RootLeaseOf DEF TypeInv, TypeOK, Task, Batch, Executing
<1>u. \A v \in Worker : r \in Batch(v)' /\ r \in Batch(w)' => v = w
  BY OneBatch
<1>1. CASE coro'[w][r].pc = "none"
  BY <1>1, <1>c DEF LeaseOf
<1>2. ASSUME NEW S \in SUBSET Task, Fetch(w, S), r \in S, coro'[w][r].pc = "waiting"
      PROVE  LeaseOf(w, r)'
  <2>1. status'[r] \in HeldStatus /\ r \notin expired'
    BY <1>2 DEF Fetch, LockRunnable, SetStatus, HeldStatus
  <2>2. QED
    BY <1>2, <1>c, <1>u, <2>1 DEF LeaseOf
<1>e. ASSUME coro[w][r].pc # "none" PROVE r \notin expired'
  <2>1. SUFFICES ASSUME r \in expired' PROVE FALSE
    OBVIOUS
  <2>2. r \notin expired
    BY <1>e, <1>c DEF LeaseOf
  <2>3. status[r] \in HeldStatus /\ r \notin HeldBy(w)
    BY <1>c, <2>1, <2>2, ExpiredChange
  <2>4. coro[w][r].pc = "done" /\ mode[w] # "requeue"
    BY <1>c, <1>e, <2>3 DEF HeldBy, InFlight, ProgressPc, LeaseOf, TypeInv, NoOrphans
  <2>5. QED
    BY <1>c, <2>3, <2>4, Statuses DEF LeaseOf
<1>3. CASE ShutdownTimeout(w) /\ coro[w][r].pc # "none" /\ coro'[w][r].pc = "done"
  <2>1. mode'[w] = "requeue" /\ UNCHANGED status /\ mode[w] # "requeue"
    BY <1>3 DEF ShutdownTimeout, storeVars, TypeInv, TypeOK
  <2>2. status[r] \in HeldStatus \cup TerminalStatus \cup {"WAITING"}
    BY <1>3, <1>c DEF LeaseOf
  <2>3. QED
    BY <1>3, <1>c, <1>u, <1>e, <2>1, <2>2 DEF LeaseOf
<1>4. CASE CoroutineMoves(w, r)
  <2>1. /\ coro'[w][r].pc \in {"running", "persist", "done"}
        /\ coro'[w][r].pc # "done" => status'[r] \in HeldStatus
        /\ coro'[w][r].pc = "done" => status'[r] \in TerminalStatus \cup {"WAITING"}
    BY <1>4, <1>c, MoveKeepsLease
  <2>2. coro[w][r].pc # "none"
    BY <1>4 DEF CoroutineMoves, Start, Persist, PersistSkipped, StartMisses, Raise,
       PipelineReturns, CallFails, FailParent, CancelSiblings, CountSiblings, CloseParent,
       ProgressPc
  <2>3. QED
    BY <1>c, <1>u, <1>e, <2>1, <2>2 DEF LeaseOf
<1>5. CASE CoroutineStays(w, r) /\ coro[w][r].pc # "none"
  <2>1. /\ Executing(w, r) => status'[r] \in HeldStatus
        /\ coro[w][r].pc = "done" =>
               \/ status'[r] \in TerminalStatus \cup {"WAITING"}
               \/ status'[r] \in HeldStatus /\ mode[w] = "requeue"
    <3>1. CASE status'[r] = status[r]
      BY <1>c, <3>1 DEF LeaseOf
    <3>2. CASE RootMoves(r)
      BY <1>5, <3>2, RowKeepsLease
    <3>3. QED
      BY <3>1, <3>2, RootChange
  <2>2. coro'[w][r].pc = coro[w][r].pc
    BY <1>5 DEF CoroutineStays
  <2>3. mode[w] = "requeue" => mode'[w] = "requeue"
    BY <1>5, <1>c, <2>2, RequeueChange
  <2>4. QED
    BY <1>5, <1>c, <1>u, <1>e, <2>1, <2>2, <2>3 DEF LeaseOf
<1>6. QED
  BY <1>c, <1>1, <1>2, <1>3, <1>4, <1>5, CoroutineChange DEF CoroutineStays

-----------------------------------------------------------------------------
(* Subtasks. *)

\* Only Spawn inserts a row.
LEMMA RowsAppear ==
    ASSUME TaskAssumption, TypeInv, BatchRowsExist, [Next]_vars, NEW c \in Subtask,
           status[c] = Absent, status'[c] # Absent
    PROVE  \E w \in Worker, S \in SUBSET ChildrenOf(Parent[c]) : Spawn(w, Parent[c], S)
<1>t. c \in Task /\ status \in [Task -> RowStatus \cup {Absent}]
  BY DEF TypeInv, TypeOK, StoreTypeOK, Task
<1>n. Absent \notin OpenStatus \cup {"WAITING"}
  BY DEF Absent, OpenStatus
<1> USE DEF SetStatus
<1>1. ASSUME NEW w \in Worker, WorkerStep(w) PROVE FALSE
  <2>1. ASSUME NEW S \in SUBSET Task, Fetch(w, S) PROVE FALSE
    <3>1. c \notin S
      BY <2>1, <1>n DEF Fetch, LockRunnable, Runnable, IsRunnable, OpenStatus, HeldStatus
    <3>2. QED
      BY <1>t, <2>1, <3>1 DEF Fetch, LockRunnable
  <2>2. CASE Requeue(w)
    <3>1. c \notin Batch(w)
      BY <1>t DEF Batch, BatchRowsExist
    <3>2. QED
      BY <1>t, <2>2, <3>1 DEF Requeue, RequeueIncomplete
  <2>3. CASE \/ BatchEnds(w) \/ OrphansEnd(w) \/ PollWorkerDisabled(w) \/ PollRound(w)
             \/ ShutdownTimeout(w) \/ Restart(w)
    BY <2>3 DEF BatchEnds, OrphansEnd, PollWorkerDisabled, PollRound, TouchHeartbeats,
       ShutdownTimeout, Restart, storeVars
  <2>4. QED
    BY <1>1, <2>1, <2>2, <2>3 DEF WorkerStep
<1>2. ASSUME NEW w \in Worker, NEW t \in Task, CoroutineStep(w, t) PROVE FALSE
  <2>1. CASE Start(w, t)
    BY <1>t, <2>1 DEF Start, SetTaskRunning, Absent
  <2>2. CASE Persist(w, t)
    <3>1. c # t
      BY <2>2 DEF Persist, BatchRowsExist
    <3>2. c \notin CancelledByRollup(t, Candidate(w, t), coro[w][t].execs)
      BY DEF CancelledByRollup, Kids
    <3>3. QED
      BY <1>t, <2>2, <3>1, <3>2 DEF Persist, InsertResultAndUpdate
  <2>3. CASE FailParent(w, t) \/ CloseParent(w, t)
    BY <1>t, <1>n, <2>3 DEF FailParent, CloseParent, CloseWaiting
  <2>4. CASE CancelSiblings(w, t)
    BY <1>t, <2>4 DEF CancelSiblings, CancelOpenSubtasks, Kids
  <2>5. CASE StartMisses(w, t) \/ Raise(w, t) \/ PipelineReturns(w, t) \/ PersistSkipped(w, t)
             \/ CountSiblings(w, t)
    BY <2>5 DEF StartMisses, Raise, PipelineReturns, PersistSkipped, CountSiblings, storeVars
  <2>6. QED
    BY <1>2, <2>1, <2>2, <2>3, <2>4, <2>5 DEF CoroutineStep
<1>3. ASSUME NEW w \in Worker, NEW r \in Root, NEW S \in SUBSET ChildrenOf(r), Spawn(w, r, S)
      PROVE  r = Parent[c]
  BY <1>t, <1>3 DEF Spawn, InsertSubtasks, ChildrenOf
<1>4. ASSUME NEW t \in Task, Due(t) \/ HeartbeatExpires(t) PROVE FALSE
  BY <1>4 DEF Due, HeartbeatExpires, BecomeDue, HeartbeatAges
<1>5. CASE FaultStep
  BY <1>5 DEF FaultStep, Stop, Crash, PollFails, RequeueFails, CallFails, BatchAborts, Toggle,
     ToggleSetting, Delete, SoftDelete, HeartbeatLate, HeartbeatAges, storeVars
<1>6. CASE UNCHANGED vars
  BY <1>6 DEF vars, storeVars
<1>7. QED
  BY <1>1, <1>2, <1>3, <1>4, <1>5, <1>6 DEF Next

\* No statement undeletes a row.
LEMMA DeletedStays ==
    ASSUME StoreStep, NEW t \in Task, t \in deleted
    PROVE  t \in deleted'
BY DEF StoreStep, LockRunnable, TouchHeartbeats, RequeueIncomplete, InsertSubtasks,
   SetTaskRunning, BecomeDue, HeartbeatAges, SoftDelete, InsertResultAndUpdate,
   CancelOpenSubtasks, CloseWaiting, ToggleSetting, storeVars

\* A root to which nobody adds subtasks keeps its verdict once nothing is
\* pending: terminal subtasks do not change, they can only be soft-deleted.
LEMMA VerdictStays ==
    ASSUME TaskAssumption, TypeInv, BatchRowsExist, [Next]_vars, NEW r \in Root,
           ~ \E w \in Worker, S \in SUBSET ChildrenOf(r) : Spawn(w, r, S),
           ~Pending(Kids(r), status)
    PROVE  /\ ~Pending(Kids(r), status)'
           /\ ~FailedBlocking(Kids(r), status) => ~FailedBlocking(Kids(r), status)'
           /\ ~FailedNonBlocking(Kids(r), status) => ~FailedNonBlocking(Kids(r), status)'
<1>1. StoreStep /\ StoreTypeOK
  BY NextIsStoreStep DEF TypeInv, TypeOK
<1>2. ASSUME NEW c \in Kids(r)' PROVE c \in Kids(r) /\ status'[c] = status[c]
  <2>1. c \in Subtask /\ c \in Task /\ Parent[c] = r /\ status'[c] # Absent /\ c \notin deleted'
    BY DEF Kids, ChildrenOf, Task
  <2>2. status[c] # Absent
    BY <2>1, RowsAppear
  <2>3. c \notin deleted
    BY <1>1, <2>1, DeletedStays
  <2>4. c \in Kids(r)
    BY <2>1, <2>2, <2>3 DEF Kids, ChildrenOf
  <2>5. status[c] \in TerminalStatus
    BY <2>4 DEF Pending
  <2>6. QED
    BY <1>1, <2>1, <2>4, <2>5, StoreStepKeepsTerminal
<1>3. QED
  BY <1>2 DEF Pending, FailedBlocking, FailedNonBlocking

LEMMA MovesFromBatch ==
    ASSUME NEW w \in Worker, NEW t \in Task, CoroutineMoves(w, t)
    PROVE  coro[w][t].pc # "none"
BY DEF CoroutineMoves, Start, Persist, PersistSkipped, StartMisses, Raise, PipelineReturns,
   CallFails, FailParent, CancelSiblings, CountSiblings, CloseParent, ProgressPc

LEMMA StepBatchRowsExist ==
    ASSUME TaskAssumption, TypeInv, BatchRowsExist, [Next]_vars
    PROVE  BatchRowsExist'
<1>1. SUFFICES ASSUME NEW w \in Worker, NEW t \in Task, coro'[w][t].pc # "none"
               PROVE  status'[t] # Absent
  BY DEF BatchRowsExist
<1>2. StoreStep /\ StoreTypeOK
  BY NextIsStoreStep DEF TypeInv, TypeOK
<1>3. CASE coro[w][t].pc # "none"
  BY <1>2, <1>3, StoreStepKeepsRows DEF BatchRowsExist
<1>4. ASSUME NEW S \in SUBSET Task, Fetch(w, S), t \in S PROVE status'[t] # Absent
  BY <1>4 DEF Fetch, LockRunnable, SetStatus, Absent
<1>5. QED
  BY <1>1, <1>3, <1>4, AnyCoroutineChange, MovesFromBatch
     DEF CoroutineStays, BatchAborts, ProgressPc

LEMMA StepCyclicalRoots ==
    ASSUME TaskAssumption, TypeInv, BatchRowsExist, CyclicalRootsAreAlone, [Next]_vars
    PROVE  CyclicalRootsAreAlone'
<1>1. SUFFICES ASSUME NEW c \in Subtask, Parent[c] \in Cyclical, status'[c] # Absent
               PROVE  FALSE
  BY DEF CyclicalRootsAreAlone
<1>2. \E w \in Worker, S \in SUBSET ChildrenOf(Parent[c]) : Spawn(w, Parent[c], S)
  BY <1>1, RowsAppear DEF CyclicalRootsAreAlone
<1>3. QED
  BY <1>1, <1>2 DEF Spawn

-----------------------------------------------------------------------------
(* Insertions. *)

\* A root inserts its subtasks once: its step looks whether it has any, or it has
\* one step that inserts and nothing makes a worker execute the root again.
InsertsOnce == SpawnIdempotent \/ (SpawnOnce /\ {"stop", "crash"} \cap Faults = {})

\* Who inserts finds no subtask.
FirstSpawns ==
    \A w \in Worker, r \in Root : \A S \in SUBSET ChildrenOf(r) :
        Spawn(w, r, S) => \A c \in ChildrenOf(r) : status[c] = Absent

Childless(r) == \A c \in ChildrenOf(r) : status[c] = Absent

\* Where nothing ends a worker, the subtasks of a LINEAR root appear in the one
\* execution it has: before it is locked and before its step inserts it has none.
ExecutedOnce(r) ==
    /\ status[r] = "NEW" => Childless(r)
    /\ status[r] \in HeldStatus => \E w \in Worker : Executing(w, r)
    /\ \A w \in Worker :
           \/ coro[w][r].pc = "waiting"
           \/ coro[w][r].pc = "running" /\ coro[w][r].arg # "spawned"
           => Childless(r)

SingleExecutions ==
    {"stop", "crash"} \cap Faults = {} /\ SpawnOnce =>
        NobodyStops /\ \A r \in Root \ Cyclical : ExecutedOnce(r)

LEMMA SpawnsAreFirst ==
    ASSUME TypeInv, SingleExecutions, InsertsOnce
    PROVE  FirstSpawns
<1> SUFFICES ASSUME NEW w \in Worker, NEW r \in Root, NEW S \in SUBSET ChildrenOf(r),
                    Spawn(w, r, S)
             PROVE  \A c \in ChildrenOf(r) : status[c] = Absent
  BY DEF FirstSpawns
<1>1. r \in Root \ Cyclical /\ coro[w][r].pc = "running"
  BY DEF Spawn
<1>2. CASE SpawnIdempotent
  BY <1>2 DEF Spawn
<1>3. CASE SpawnOnce /\ {"stop", "crash"} \cap Faults = {}
  <2>1. coro[w][r].arg # "spawned" /\ ExecutedOnce(r)
    BY <1>1, <1>3 DEF Spawn, SingleExecutions
  <2>2. QED
    BY <1>1, <2>1 DEF ExecutedOnce, Childless
<1>4. QED
  BY <1>2, <1>3 DEF InsertsOnce

\* Subtasks appear where a root that is executed inserts them.
LEMMA ChildrenAppear ==
    ASSUME TaskAssumption, TypeInv, BatchRowsExist, [Next]_vars, NEW r \in Root,
           Childless(r), ~Childless(r)'
    PROVE  \E w \in Worker, S \in SUBSET ChildrenOf(r) : Spawn(w, r, S)
<1>1. PICK c \in ChildrenOf(r) : status[c] = Absent /\ status'[c] # Absent
  BY DEF Childless, ChildrenOf
<1>2. c \in Subtask /\ Parent[c] = r
  BY DEF ChildrenOf
<1>3. QED
  BY <1>1, <1>2, RowsAppear

LEMMA SpawnMarks ==
    ASSUME TypeInv, NEW w \in Worker, NEW r \in Root, NEW S, Spawn(w, r, S)
    PROVE  /\ coro'[w][r].pc = "running" /\ coro'[w][r].arg = "spawned"
           /\ \A v \in Worker \ {w} : coro'[v] = coro[v]
<1>1. r \in Task /\ coro \in [Worker -> [Task -> Coroutine]]
  BY DEF TypeInv, TypeOK, Task
<1>2. Goto(w, r, "running", "spawned")
  BY DEF Spawn
<1>3. QED
  BY <1>1, <1>2 DEF Goto, Coroutine

\* A subtask appears by the one coroutine that executes its root, which is then
\* marked.
LEMMA InserterMarked ==
    ASSUME TaskAssumption, TypeInv, BatchRowsExist, RootLease', [Next]_vars,
           NEW r \in Root \ Cyclical, Childless(r), ~Childless(r)'
    PROVE  \E w \in Worker : /\ Executing(w, r)
                            /\ \A v \in Worker : Executing(v, r)' => v = w
                            /\ coro'[w][r].pc = "running" /\ coro'[w][r].arg = "spawned"
<1>t. r \in Task
  BY DEF Task
<1>1. PICK w \in Worker, S \in SUBSET ChildrenOf(r) : Spawn(w, r, S)
  BY ChildrenAppear
<1>2. coro'[w][r].pc = "running" /\ coro'[w][r].arg = "spawned"
  BY <1>1, SpawnMarks
<1>3. Executing(w, r)
  BY <1>1 DEF Spawn, Executing
<1>4. ASSUME NEW v \in Worker, Executing(v, r)' PROVE v = w
  <2>1. r \in Batch(v)' /\ r \in Batch(w)'
    BY <1>t, <1>2, <1>4 DEF Executing, Batch
  <2>2. QED
    BY <2>1 DEF RootLease
<1>5. QED
  BY <1>2, <1>3, <1>4

LEMMA StepExecutedOnce ==
    ASSUME TaskAssumption, TypeInv, BatchRowsExist, RootLease, RootLease', NobodyStops,
           [Next]_vars, {"stop", "crash", "abort"} \cap Faults = {},
           NEW r \in Root \ Cyclical, ExecutedOnce(r)
    PROVE  ExecutedOnce(r)'
<1>t. /\ r \in Task /\ status \in [Task -> RowStatus \cup {Absent}]
      /\ coro \in [Worker -> [Task -> Coroutine]]
  BY DEF TypeInv, TypeOK, StoreTypeOK, Task
<1>m. ASSUME NEW w \in Worker PROVE ~Requeue(w) /\ ~ShutdownTimeout(w)
  BY <1>m DEF Requeue, ShutdownTimeout, NobodyStops
<1>f. ASSUME NEW w \in Worker, NEW S \in SUBSET Task, Fetch(w, S), r \in S
      PROVE  status[r] = "NEW" /\ status'[r] = "QUEUED"
  <2>1. ASSUME status[r] \in HeldStatus PROVE FALSE
    <3>1. PICK v \in Worker : Executing(v, r)
      BY <2>1 DEF ExecutedOnce
    <3>2. r \in Batch(v)
      BY <1>t, <3>1 DEF Executing, Batch
    <3>3. QED
      BY <1>f, <3>2, LeasedNotRunnable DEF Fetch, LockRunnable, Runnable
  <2>2. QED
    BY <1>f, <1>t, <2>1 DEF Fetch, LockRunnable, Runnable, IsRunnable, SetStatus
<1>s. ASSUME NEW w \in Worker, Persist(w, r)
      PROVE  status'[r] \in TerminalStatus \cup {"WAITING"}
  <2>1. Candidate(w, r) \in Outcome
    BY <1>s, <1>t, CandidateType DEF Persist, TypeInv
  <2>2. QED
    BY <1>s, <1>t, <2>1, LinearRootStored DEF Persist, InsertResultAndUpdate
<1>n. "NEW" \notin HeldStatus \cup TerminalStatus \cup {"WAITING"}
  BY DEF HeldStatus, TerminalStatus, FailedStatus
<1>1. ASSUME status'[r] = "NEW" PROVE Childless(r)'
  <2>1. ~RootMoves(r)
    BY <1>1, <1>t, <1>m, <1>f, <1>s, <1>n DEF RootMoves, Start, SetTaskRunning, SetStatus
  <2>2. status[r] = "NEW"
    BY <1>1, <2>1, RootChange
  <2>3. \A w \in Worker : ~Executing(w, r)
    BY <2>2, <1>n DEF RootLease
  <2>4. QED
    BY <2>2, <2>3, InserterMarked DEF ExecutedOnce
<1>2. ASSUME status'[r] \in HeldStatus PROVE \E w \in Worker : Executing(w, r)'
  <2>1. ASSUME NEW w \in Worker, Executing(w, r) PROVE Executing(w, r)'
    <3>1. r \in InFlight(w)
      BY <1>t, <2>1 DEF Executing, InFlight, ProgressPc
    <3>2. CASE CoroutineStays(w, r)
      BY <2>1, <3>2 DEF CoroutineStays, Executing
    <3>3. CASE CoroutineMoves(w, r)
      <4>1. LeaseOf(w, r)
        BY RootLeaseOf
      <4>2. coro'[w][r].pc \in {"running", "persist"}
        BY <1>2, <3>3, <4>1, MoveKeepsLease, Statuses
      <4>3. QED
        BY <4>2 DEF Executing
    <3>4. QED
      BY <1>t, <3>1, <3>2, <3>3, FlightGoesOn
  <2>2. CASE status[r] \in HeldStatus
    BY <2>1, <2>2 DEF ExecutedOnce
  <2>3. CASE status[r] \notin HeldStatus
    <3>1. RootMoves(r)
      BY <1>2, <2>3, RootChange
    <3>2. ASSUME NEW w \in Worker, NEW S \in SUBSET Task, Fetch(w, S), r \in S
          PROVE  Executing(w, r)'
      BY <1>t, <3>2 DEF Fetch, Fetched, NoCoroutine, Executing
    <3>3. ASSUME NEW w \in Worker, Start(w, r) PROVE FALSE
      BY <2>3, <3>3 DEF Start, SetTaskRunning, HeldStatus
    <3>4. ASSUME NEW w \in Worker, Persist(w, r) PROVE FALSE
      BY <1>2, <1>s, <3>4, Statuses
    <3>5. QED
      BY <1>2, <1>m, <3>1, <3>2, <3>3, <3>4, Statuses DEF RootMoves
  <2>4. QED
    BY <2>2, <2>3
<1>3. ASSUME NEW w \in Worker,
             \/ coro'[w][r].pc = "waiting"
             \/ coro'[w][r].pc = "running" /\ coro'[w][r].arg # "spawned"
      PROVE  Childless(r)'
  <2>1. Childless(r)
    <3>1. CASE CoroutineStays(w, r)
      BY <1>3, <3>1 DEF CoroutineStays, ExecutedOnce
    <3>2. CASE \E S \in SUBSET Task : Fetch(w, S) /\ r \in S
      BY <1>f, <3>2 DEF ExecutedOnce
    <3>3. CASE CoroutineMoves(w, r)
      <4>1. LeaseOf(w, r)
        BY RootLeaseOf
      <4>2. Start(w, r)
        BY <1>3, <3>3, <4>1, MoveKeepsLease
      <4>3. QED
        BY <4>2 DEF Start, ExecutedOnce
    <3>4. QED
      BY <1>t, <1>m, <1>3, <3>1, <3>2, <3>3, CoroutineChange
  <2>2. Executing(w, r)'
    BY <1>3 DEF Executing
  <2>3. QED
    BY <1>3, <2>1, <2>2, InserterMarked
<1>4. QED
  BY <1>1, <1>2, <1>3 DEF ExecutedOnce

LEMMA StepSingleExecutions ==
    ASSUME TaskAssumption, TypeInv, BatchRowsExist, RootLease, RootLease', SingleExecutions,
           [Next]_vars, "abort" \notin Faults
    PROVE  SingleExecutions'
<1>1. SUFFICES ASSUME SpawnOnce, {"stop", "crash"} \cap Faults = {}
               PROVE  NobodyStops' /\ \A r \in Root \ Cyclical : ExecutedOnce(r)'
  BY DEF SingleExecutions
<1>2. NobodyStops /\ \A r \in Root \ Cyclical : ExecutedOnce(r)
  BY <1>1 DEF SingleExecutions
<1>3. {"stop", "crash", "abort"} \cap Faults = {} /\ {"stop", "abort"} \cap Faults = {}
  BY <1>1
<1>4. QED
  BY <1>2, <1>3, StepNobodyStops, StepExecutedOnce

-----------------------------------------------------------------------------
(* The verdict of a subtask on its root. *)

VerdictOf(w, c) ==
    /\ ~Pending(Kids(Parent[c]), status)
    /\ coro[w][c].arg # "FAILED" => ~FailedBlocking(Kids(Parent[c]), status)
    /\ coro[w][c].arg = "FINISHED" => ~FailedNonBlocking(Kids(Parent[c]), status)

LEMMA CountGivesVerdict ==
    ASSUME TypeInv, NEW w \in Worker, NEW c \in Subtask, CountSiblings(w, c),
           coro'[w][c].pc = "close"
    PROVE  VerdictOf(w, c)'
<1> DEFINE kids == Kids(Parent[c])
           verdict == ClosingStatus(kids, status)
<1>c. c \in Task /\ coro \in [Worker -> [Task -> Coroutine]]
  BY DEF TypeInv, TypeOK, Task
<1>1. ASSUME Goto(w, c, "done", "") PROVE FALSE
  <2>1. coro'[w][c] = DoneCoroutine
    BY <1>c, <1>1 DEF Goto
  <2>2. QED
    BY <2>1 DEF DoneCoroutine, NoCoroutine
<1>2. ~Pending(kids, status) /\ Goto(w, c, "close", verdict)
  BY <1>1 DEF CountSiblings
<1>3. coro'[w][c].arg = verdict
  BY <1>2, <1>c DEF Goto, Coroutine
<1>4. kids' = kids /\ status' = status
  BY DEF CountSiblings, storeVars, Kids
<1>5. /\ verdict # "FAILED" => ~FailedBlocking(kids, status)
      /\ verdict = "FINISHED" => ~FailedNonBlocking(kids, status)
  BY DEF ClosingStatus
<1>6. QED
  BY <1>2, <1>3, <1>4, <1>5 DEF VerdictOf, Pending, FailedBlocking, FailedNonBlocking

LEMMA StepVerdictsHold ==
    ASSUME TaskAssumption, TypeInv, BatchRowsExist, VerdictsHold, [Next]_vars,
           FirstSpawns
    PROVE  VerdictsHold'
<1>1. SUFFICES ASSUME NEW w \in Worker, NEW c \in Subtask
               PROVE  /\ coro'[w][c].pc \in {"count", "close"} => status'[c] # Absent
                      /\ coro'[w][c].pc = "close" => VerdictOf(w, c)'
  BY DEF VerdictsHold, VerdictOf
<1>c. c \in Task /\ coro \in [Worker -> [Task -> Coroutine]] /\ Parent[c] \in Root
  BY DEF TypeInv, TypeOK, Task, TaskAssumption
<1>2. coro'[w][c].pc \in {"count", "close"} => status'[c] # Absent
  BY <1>c, StepBatchRowsExist DEF BatchRowsExist
<1>3. ASSUME coro'[w][c].pc = "close", CoroutineStays(w, c) PROVE VerdictOf(w, c)'
  <2>1. coro[w][c].pc = "close" /\ status[c] # Absent /\ VerdictOf(w, c)
    BY <1>3 DEF CoroutineStays, VerdictsHold, VerdictOf
  <2>2. ~ \E v \in Worker, S \in SUBSET ChildrenOf(Parent[c]) : Spawn(v, Parent[c], S)
    BY <1>c, <2>1 DEF FirstSpawns, ChildrenOf
  <2>3. QED
    BY <1>3, <1>c, <2>1, <2>2, VerdictStays DEF VerdictOf, CoroutineStays
<1>4. ASSUME coro'[w][c].pc = "close", CoroutineMoves(w, c) PROVE VerdictOf(w, c)'
  <2>1. ASSUME NEW pc, NEW arg, Goto(w, c, pc, arg), pc # "close" PROVE FALSE
    <3>1. CASE pc = "done"
      BY <1>4, <1>c, <2>1, <3>1 DEF Goto, DoneCoroutine, NoCoroutine
    <3>2. CASE pc # "done"
      <4>1. coro'[w][c] = [coro[w][c] EXCEPT !.pc = pc, !.arg = arg]
        BY <1>c, <2>1, <3>2 DEF Goto
      <4>2. coro'[w][c].pc = pc
        BY <1>c, <4>1 DEF Coroutine
      <4>3. QED
        BY <1>4, <2>1, <4>2
    <3>3. QED
      BY <3>1, <3>2
  <2>2. ASSUME NEW arg, GotoError(w, c, arg) PROVE FALSE
    BY <1>4, <1>c, <2>2 DEF GotoError, Coroutine
  <2>3. CASE Start(w, c) \/ PersistSkipped(w, c) \/ PipelineReturns(w, c) \/ FailParent(w, c)
             \/ CancelSiblings(w, c) \/ CloseParent(w, c)
    BY <2>1, <2>3 DEF Start, PersistSkipped, PipelineReturns, FailParent, CancelSiblings,
       CloseParent
  <2>4. CASE Persist(w, c)
    <3>1. PICK pc \in {"done", "failParent", "count"}, arg \in {"", "FINISHED", "FAILED"} :
              Goto(w, c, pc, arg)
      BY <2>4 DEF Persist, AfterStore
    <3>2. QED
      BY <2>1, <3>1
  <2>5. CASE StartMisses(w, c) \/ Raise(w, c) \/ CallFails(w, c)
    BY <2>2, <2>5 DEF StartMisses, Raise, CallFails
  <2>6. CASE CountSiblings(w, c)
    BY <1>4, <2>6, CountGivesVerdict
  <2>7. QED
    BY <1>4, <2>3, <2>4, <2>5, <2>6 DEF CoroutineMoves
<1>5. coro'[w][c].pc = "close" => CoroutineStays(w, c) \/ CoroutineMoves(w, c)
  BY <1>c, AnyCoroutineChange
<1>6. QED
  BY <1>2, <1>3, <1>4, <1>5

-----------------------------------------------------------------------------
(* Roots. *)

\* What SettledRoots says of one root, once its status is s.
SettledAs(r, s) ==
    /\ ~Pending(Kids(r), status)
    /\ ~FailedBlocking(Kids(r), status)
    /\ s = "FINISHED" => ~FailedNonBlocking(Kids(r), status)

Success == {"FINISHED", "FINISHED_WITH_ERROR"}

\* A root that its own execution stores as successful.
LEMMA PersistSettles ==
    ASSUME TaskAssumption, TypeInv, NEW w \in Worker, NEW r \in Root, Persist(w, r),
           status'[r] \in Success
    PROVE  SettledAs(r, status[r])'
<1> DEFINE candidate == Candidate(w, r)
           k == coro[w][r].execs
<1>c. /\ r \in Task /\ status \in [Task -> RowStatus \cup {Absent}]
      /\ candidate \in Outcome /\ Kids(r) \subseteq Subtask /\ Subtask \subseteq Task
      /\ r \notin Subtask
  BY CandidateType DEF TypeInv, TypeOK, StoreTypeOK, Task, TaskAssumption, Persist, Kids,
     ChildrenOf
<1>1. status'[r] = StoredStatus(r, candidate, k)
  BY <1>c DEF Persist, InsertResultAndUpdate
<1>2. StoredStatus(r, candidate, k) = SuccessfulRootStatus(Kids(r), status)
  <2>1. CyclicalRewrite(r, candidate, k) \in Outcome \cup {"NEW"}
    BY <1>c DEF CyclicalRewrite
  <2>2. QED
    BY <1>1, <2>1 DEF StoredStatus, Success, Outcome
<1>3. /\ ~Pending(Kids(r), status) /\ ~FailedBlocking(Kids(r), status)
      /\ status'[r] = "FINISHED" => ~FailedNonBlocking(Kids(r), status)
  BY <1>1, <1>2 DEF SuccessfulRootStatus, ClosingStatus, Success
<1>4. CancelledByRollup(r, candidate, k) = {}
  BY <1>1 DEF CancelledByRollup, Success
<1>5. \A c \in Subtask : status'[c] = status[c]
  BY <1>c, <1>4 DEF Persist, InsertResultAndUpdate
<1>6. Kids(r)' = Kids(r)
  BY <1>5 DEF Kids, ChildrenOf, Persist, InsertResultAndUpdate
<1>7. QED
  BY <1>c, <1>3, <1>5, <1>6 DEF SettledAs, Pending, FailedBlocking, FailedNonBlocking

\* A root that the last subtask closes as successful.
LEMMA CloseSettles ==
    ASSUME TaskAssumption, TypeInv, VerdictsHold, NEW w \in Worker, NEW c \in Subtask,
           CloseParent(w, c), status'[Parent[c]] \in Success, status[Parent[c]] \notin Success
    PROVE  SettledAs(Parent[c], status[Parent[c]])'
<1> DEFINE r == Parent[c]
<1>c. /\ r \in Task /\ r \in Root /\ status \in [Task -> RowStatus \cup {Absent}]
      /\ Kids(r) \subseteq Subtask /\ Subtask \subseteq Task /\ r \notin Subtask
  BY DEF TypeInv, TypeOK, StoreTypeOK, Task, TaskAssumption, Kids, ChildrenOf
<1>1. status'[r] = coro[w][c].arg
  BY <1>c DEF CloseParent, CloseWaiting, SetStatus
<1>2. VerdictOf(w, c)
  BY DEF CloseParent, VerdictsHold, VerdictOf
<1>3. \A u \in Subtask : status'[u] = status[u]
  BY <1>c DEF CloseParent, CloseWaiting, SetStatus, TaskAssumption
<1>4. Kids(r)' = Kids(r)
  BY <1>3 DEF Kids, ChildrenOf, CloseParent, CloseWaiting
<1>5. QED
  BY <1>c, <1>1, <1>2, <1>3, <1>4
     DEF SettledAs, VerdictOf, Success, Pending, FailedBlocking, FailedNonBlocking

LEMMA StepSettledRoots ==
    ASSUME TaskAssumption, TypeInv, BatchRowsExist, RootLease, VerdictsHold, SettledRoots,
           [Next]_vars
    PROVE  SettledRoots'
<1>1. SUFFICES ASSUME NEW r \in Root, status'[r] \in Success PROVE SettledAs(r, status[r])'
  BY DEF SettledRoots, SettledAs, Success
<1>c. r \in Task /\ status \in [Task -> RowStatus \cup {Absent}]
  BY DEF TypeInv, TypeOK, StoreTypeOK, Task
<1>2. CASE status[r] \in Success
  <2>1. SettledAs(r, status[r])
    BY <1>2 DEF SettledRoots, SettledAs, Success
  <2>2. ASSUME NEW w \in Worker, NEW S \in SUBSET ChildrenOf(r), Spawn(w, r, S) PROVE FALSE
    <3>1. r \in Root \ Cyclical /\ Executing(w, r)
      BY <2>2 DEF Spawn, Executing
    <3>2. status[r] \in HeldStatus
      BY <3>1 DEF RootLease
    <3>3. QED
      BY <1>2, <3>2 DEF Success, HeldStatus
  <2>3. status'[r] = status[r]
    BY <1>2, <1>c, NextIsStoreStep, StoreStepKeepsTerminal
       DEF TypeInv, TypeOK, Success, TerminalStatus, FailedStatus
  <2>4. QED
    BY <2>1, <2>2, <2>3, VerdictStays DEF SettledAs
<1>3. CASE status[r] \notin Success
  <2>1. RootMoves(r)
    BY <1>1, <1>3, RootChange
  <2>2. ASSUME NEW w \in Worker, NEW S \in SUBSET Task, Fetch(w, S), r \in S PROVE FALSE
    BY <1>1, <1>c, <2>2 DEF Fetch, LockRunnable, SetStatus, Success
  <2>3. ASSUME NEW w \in Worker, Start(w, r) PROVE FALSE
    BY <1>1, <1>c, <2>3 DEF Start, SetTaskRunning, SetStatus, Success
  <2>4. ASSUME NEW w \in Worker, Requeue(w), r \in Batch(w), status[r] \notin TerminalStatus
        PROVE  FALSE
    BY <1>1, <1>c, <2>4 DEF Requeue, RequeueIncomplete, SetStatus, Success
  <2>5. ASSUME NEW w \in Worker, Persist(w, r) PROVE SettledAs(r, status[r])'
    BY <1>1, <2>5, PersistSettles
  <2>6. ASSUME NEW w \in Worker, NEW c \in Subtask, Parent[c] = r, FailParent(w, c),
               status[r] = "WAITING"
        PROVE  FALSE
    BY <1>1, <1>c, <2>6 DEF FailParent, CloseWaiting, SetStatus, Success
  <2>7. ASSUME NEW w \in Worker, NEW c \in Subtask, Parent[c] = r, CloseParent(w, c)
        PROVE  SettledAs(r, status[r])'
    BY <1>1, <1>3, <2>7, CloseSettles
  <2>8. QED
    BY <2>1, <2>2, <2>3, <2>4, <2>5, <2>6, <2>7 DEF RootMoves
<1>4. QED
  BY <1>2, <1>3

-----------------------------------------------------------------------------
(* The theorem. *)

RootInv ==
    /\ TypeInv
    /\ BatchRowsExist
    /\ CyclicalRootsAreAlone
    /\ RootLease
    /\ SingleExecutions

RollupInv == RootInv /\ VerdictsHold /\ SettledRoots

LEMMA InitRollupInv == TaskAssumption /\ WorkerAssumption /\ Init => RollupInv
<1> SUFFICES ASSUME TaskAssumption, WorkerAssumption, Init PROVE RollupInv
  OBVIOUS
<1>1. TypeInv
  BY InitTypeInv
<1>2. \A w \in Worker, t \in Task : coro[w][t].pc = "none"
  BY DEF Init, NoCoroutine
<1>3. \A r \in Root : status[r] = "NEW"
  BY DEF Init, StoreInit, Task
<1>4. \A c \in Subtask : status[c] = Absent
  BY DEF Init, StoreInit, Task, TaskAssumption
<1>5. BatchRowsExist /\ RootLease /\ VerdictsHold
  BY <1>2 DEF BatchRowsExist, RootLease, VerdictsHold, Executing, Batch, Task
<1>6. CyclicalRootsAreAlone /\ SettledRoots
  BY <1>3, <1>4 DEF CyclicalRootsAreAlone, SettledRoots
<1>7. SingleExecutions
  <2>1. NobodyStops
    BY DEF Init, NobodyStops
  <2>2. \A r \in Root : ExecutedOnce(r)
    BY <1>2, <1>3, <1>4 DEF ExecutedOnce, Childless, ChildrenOf, HeldStatus, Task
  <2>3. QED
    BY <2>1, <2>2 DEF SingleExecutions
<1>8. QED
  BY <1>1, <1>5, <1>6, <1>7 DEF RollupInv, RootInv

\* The inductive invariant of the lease of the roots.
THEOREM RootInvariant ==
    ASSUME {"late", "abort"} \cap Faults = {}
    PROVE  Spec => []RootInv
<1>1. RootInv /\ [Next]_vars => RootInv'
  <2>1. SUFFICES ASSUME RootInv, [Next]_vars PROVE RootInv'
    OBVIOUS
  <2>2. TypeInv'
    BY <2>1, TaskAssumption, WorkerAssumption, StepTypeInv DEF RootInv
  <2>3. BatchRowsExist' /\ CyclicalRootsAreAlone'
    BY <2>1, TaskAssumption, StepBatchRowsExist, StepCyclicalRoots DEF RootInv
  <2>4. RootLease'
    BY <2>1, TaskAssumption, StepRootLease DEF RootInv
  <2>5. SingleExecutions'
    BY <2>1, <2>4, TaskAssumption, StepSingleExecutions DEF RootInv
  <2>6. QED
    BY <2>2, <2>3, <2>4, <2>5 DEF RootInv
<1>2. Init => RootInv
  BY InitRollupInv, TaskAssumption, WorkerAssumption DEF RollupInv
<1>3. QED
  BY <1>1, <1>2, PTL DEF Spec

\* The inductive invariant of the rollup.
THEOREM RollupInvariant ==
    ASSUME InsertsOnce, {"late", "abort"} \cap Faults = {}
    PROVE  Spec => []RollupInv
<1>1. RollupInv /\ RootInv' /\ [Next]_vars => RollupInv'
  <2>1. SUFFICES ASSUME RollupInv, RootInv', [Next]_vars PROVE RollupInv'
    OBVIOUS
  <2>2. FirstSpawns
    BY <2>1, SpawnsAreFirst DEF RollupInv, RootInv
  <2>3. VerdictsHold' /\ SettledRoots'
    BY <2>1, <2>2, TaskAssumption, StepVerdictsHold, StepSettledRoots DEF RollupInv, RootInv
  <2>4. QED
    BY <2>1, <2>3 DEF RollupInv
<1>2. QED
  BY <1>1, InitRollupInv, RootInvariant, TaskAssumption, WorkerAssumption, PTL DEF Spec

\* As long as no heartbeat is late and no batch is left behind, a LINEAR root is
\* in one batch at most and inserts no subtask once it closed, whatever crashes,
\* stops, pauses and deletions happen and however often its step inserts
\* (lock_runnable_tasks and touch_heartbeats).
THEOREM RootsAreLeased ==
    ASSUME {"late", "abort"} \cap Faults = {}
    PROVE  Spec => []RootLease
<1>1. RootInv => RootLease
  BY DEF RootInv
<1>2. QED
  BY <1>1, RootInvariant, PTL

\* A root whose step looks for earlier subtasks inserts none while some are counted,
\* whoever executes it.
LEMMA IdempotentVerdicts ==
    ASSUME SpawnIdempotent
    PROVE  Spec => []VerdictsHold
<1> DEFINE Stays == TypeInv /\ BatchRowsExist /\ VerdictsHold
<1>1. Stays /\ [Next]_vars => Stays'
  <2>1. SUFFICES ASSUME Stays, [Next]_vars PROVE Stays'
    OBVIOUS
  <2>2. FirstSpawns
    BY DEF FirstSpawns, Spawn
  <2>3. TypeInv' /\ BatchRowsExist'
    BY <2>1, TaskAssumption, WorkerAssumption, StepTypeInv, StepBatchRowsExist
  <2>4. VerdictsHold'
    BY <2>1, <2>2, TaskAssumption, StepVerdictsHold
  <2>5. QED
    BY <2>3, <2>4
<1>2. Init => Stays
  BY InitRollupInv, TaskAssumption, WorkerAssumption DEF RollupInv, RootInv
<1>3. QED
  BY <1>1, <1>2, PTL DEF Spec

\* Where a root inserts its subtasks once, what count_parent_subtasks_state decided
\* stays right until the root is closed, although other subtasks end, start and are
\* deleted in between.  If its step looks for earlier subtasks, that holds under all
\* faults; a step that inserts in every execution keeps it as long as no worker ends
\* and the root is leased (BaseSubtaskStep._run).
THEOREM VerdictsStayRight ==
    ASSUME SpawnIdempotent
           \/ (SpawnOnce /\ {"stop", "crash", "late", "abort"} \cap Faults = {})
    PROVE  Spec => []VerdictsHold
<1>1. CASE SpawnIdempotent
  BY <1>1, IdempotentVerdicts
<1>2. CASE SpawnOnce /\ {"stop", "crash", "late", "abort"} \cap Faults = {}
  <2>1. InsertsOnce /\ {"late", "abort"} \cap Faults = {}
    BY <1>2 DEF InsertsOnce
  <2>2. RollupInv => VerdictsHold
    BY DEF RollupInv
  <2>3. QED
    BY <2>1, <2>2, RollupInvariant, PTL
<1>3. QED
  BY <1>1, <1>2

\* Where a root inserts once, no heartbeat is late and no batch is left behind, a
\* root that closed as FINISHED or FINISHED_WITH_ERROR
\* has no open subtask and no failed blocking one, whatever database errors, pauses
\* and deletions happen, and crashes and stops too if its step looks for subtasks
\* before it inserts (insert_result_and_update_task and the subtask handlers).
THEOREM RootsSettle ==
    ASSUME InsertsOnce, {"late", "abort"} \cap Faults = {}
    PROVE  Spec => []SettledRoots
<1>1. RollupInv => SettledRoots
  BY DEF RollupInv
<1>2. QED
  BY <1>1, RollupInvariant, PTL
=============================================================================
