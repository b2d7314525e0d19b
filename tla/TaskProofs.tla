----------------------------- MODULE TaskProofs -----------------------------
(* Proofs about TaskWorkers, for every value of its constants. *)
EXTENDS TaskProperties, TLAPS

-----------------------------------------------------------------------------
(* The store. *)

\* Moving any rows to a status of the column keeps the column typed.
LEMMA SetStatusType ==
    ASSUME StoreTypeOK, NEW S, NEW s \in RowStatus, SetStatus(S, s)
    PROVE  status' \in [Task -> RowStatus \cup {Absent}]
BY DEF StoreTypeOK, SetStatus

\* What an execution may ask to store.
Outcome == {"FINISHED", "FAILED", "CANCELLED"}

\* The rewrite and the rollup always yield a status of the column.
LEMMA StoredStatusType ==
    ASSUME NEW t \in Task, NEW candidate \in Outcome, NEW k
    PROVE  StoredStatus(t, candidate, k) \in RowStatus
BY DEF StoredStatus, CyclicalRewrite, SuccessfulRootStatus, ClosingStatus,
       Outcome, RowStatus, OpenStatus, TerminalStatus, FailedStatus

\* A LINEAR subtask is stored with exactly the outcome of its execution.
LEMMA LinearSubtaskStored ==
    ASSUME TaskAssumption, NEW t \in Subtask \ Cyclical, NEW candidate, NEW k
    PROVE  StoredStatus(t, candidate, k) = candidate
BY DEF StoredStatus, CyclicalRewrite, TaskAssumption

LEMMA InsertResultType ==
    ASSUME StoreTypeOK, NEW t \in Task, NEW candidate \in Outcome, NEW k \in Nat,
           InsertResultAndUpdate(t, candidate, k)
    PROVE  StoreTypeOK'
<1>1. StoredStatus(t, candidate, k) \in RowStatus
  BY StoredStatusType
<1>2. "CANCELLED" \in RowStatus
  BY DEF RowStatus, TerminalStatus
<1>3. status' \in [Task -> RowStatus \cup {Absent}]
  BY <1>1, <1>2 DEF InsertResultAndUpdate, StoreTypeOK
<1>4. execs' \in [Task -> Nat] /\ results' \in [Task -> Nat]
  BY DEF InsertResultAndUpdate, StoreTypeOK, ExecutionsAfter
<1>5. QED
  BY <1>3, <1>4 DEF InsertResultAndUpdate, StoreTypeOK

\* Every statement of the store, and every change of the rows without a worker.
StoreStep ==
    \/ \E S \in SUBSET Task : LockRunnable(S) \/ TouchHeartbeats(S)
                              \/ RequeueIncomplete(S)
    \/ \E S \in SUBSET Task : InsertSubtasks(S) /\ \A c \in S : status[c] = Absent
    \/ \E t \in Task : SetTaskRunning(t) \/ BecomeDue(t) \/ HeartbeatAges(t) \/ SoftDelete(t)
    \/ \E t \in Task, candidate \in Outcome, k \in Nat : InsertResultAndUpdate(t, candidate, k)
    \/ \E r \in Root : CancelOpenSubtasks(r)
    \/ \E r \in Root, s \in TerminalStatus : CloseWaiting(r, s)
    \/ \E f \in Flag : ToggleSetting(f)
    \/ UNCHANGED storeVars

LEMMA StoreStepType ==
    ASSUME StoreTypeOK, StoreStep
    PROVE  StoreTypeOK'
<1> USE DEF StoreTypeOK
<1>s. {"NEW", "QUEUED", "RUNNING", "CANCELLED"} \cup TerminalStatus \subseteq RowStatus
  BY DEF RowStatus, OpenStatus, TerminalStatus
<1>1. ASSUME NEW S \in SUBSET Task, LockRunnable(S) PROVE StoreTypeOK'
  BY <1>1, <1>s, SetStatusType DEF LockRunnable
<1>2. ASSUME NEW S \in SUBSET Task, TouchHeartbeats(S) PROVE StoreTypeOK'
  BY <1>2 DEF TouchHeartbeats
<1>3. ASSUME NEW S \in SUBSET Task, RequeueIncomplete(S) PROVE StoreTypeOK'
  BY <1>3, <1>s, SetStatusType DEF RequeueIncomplete
<1>4. ASSUME NEW S \in SUBSET Task, InsertSubtasks(S) PROVE StoreTypeOK'
  BY <1>4, <1>s, SetStatusType DEF InsertSubtasks
<1>5. ASSUME NEW t \in Task, SetTaskRunning(t) PROVE StoreTypeOK'
  BY <1>5, <1>s, SetStatusType DEF SetTaskRunning
<1>6. ASSUME NEW t \in Task, BecomeDue(t) \/ HeartbeatAges(t) \/ SoftDelete(t)
      PROVE StoreTypeOK'
  BY <1>6 DEF BecomeDue, HeartbeatAges, SoftDelete
<1>7. ASSUME NEW t \in Task, NEW candidate \in Outcome, NEW k \in Nat,
             InsertResultAndUpdate(t, candidate, k)
      PROVE StoreTypeOK'
  BY <1>7, InsertResultType
<1>8. ASSUME NEW r \in Root, CancelOpenSubtasks(r) PROVE StoreTypeOK'
  BY <1>8, <1>s, SetStatusType DEF CancelOpenSubtasks
<1>9. ASSUME NEW r \in Root, NEW s \in TerminalStatus, CloseWaiting(r, s) PROVE StoreTypeOK'
  BY <1>9, <1>s, SetStatusType DEF CloseWaiting
<1>10. ASSUME NEW f \in Flag, ToggleSetting(f) PROVE StoreTypeOK'
  BY <1>10 DEF ToggleSetting
<1>11. CASE UNCHANGED storeVars
  BY <1>11 DEF storeVars
<1>12. QED
  BY <1>1, <1>2, <1>3, <1>4, <1>5, <1>6, <1>7, <1>8, <1>9, <1>10, <1>11 DEF StoreStep

\* No statement moves a terminal row or adds a result to it.
LEMMA StoreStepKeepsTerminal ==
    ASSUME StoreTypeOK, StoreStep, NEW t \in Task, status[t] \in TerminalStatus
    PROVE  status'[t] = status[t] /\ results'[t] = results[t]
<1> USE DEF StoreTypeOK, SetStatus
<1>t. /\ Absent \notin TerminalStatus /\ "WAITING" \notin TerminalStatus
      /\ OpenStatus \cap TerminalStatus = {} /\ HeldStatus \subseteq OpenStatus
  BY DEF Absent, TerminalStatus, FailedStatus, OpenStatus, HeldStatus
<1>1. ASSUME NEW S \in SUBSET Task, LockRunnable(S)
      PROVE status'[t] = status[t] /\ results'[t] = results[t]
  <2>1. t \notin S
    BY <1>1, <1>t DEF LockRunnable, Runnable, IsRunnable, OpenStatus
  <2>2. QED
    BY <1>1, <2>1 DEF LockRunnable
<1>2. ASSUME NEW S \in SUBSET Task, RequeueIncomplete(S)
      PROVE status'[t] = status[t] /\ results'[t] = results[t]
  BY <1>2 DEF RequeueIncomplete
<1>3. ASSUME NEW S \in SUBSET Task, InsertSubtasks(S), \A c \in S : status[c] = Absent
      PROVE status'[t] = status[t] /\ results'[t] = results[t]
  BY <1>3, <1>t DEF InsertSubtasks
<1>4. ASSUME NEW u \in Task, SetTaskRunning(u)
      PROVE status'[t] = status[t] /\ results'[t] = results[t]
  BY <1>4, <1>t DEF SetTaskRunning, OpenStatus
<1>5. ASSUME NEW u \in Task, NEW candidate \in Outcome, NEW k \in Nat,
             InsertResultAndUpdate(u, candidate, k)
      PROVE status'[t] = status[t] /\ results'[t] = results[t]
  <2>1. t # u
    BY <1>5 DEF InsertResultAndUpdate
  <2>2. t \notin CancelledByRollup(u, candidate, k)
    BY <1>t DEF CancelledByRollup
  <2>3. QED
    BY <1>5, <2>1, <2>2 DEF InsertResultAndUpdate
<1>6. ASSUME NEW r \in Root, CancelOpenSubtasks(r)
      PROVE status'[t] = status[t] /\ results'[t] = results[t]
  BY <1>6, <1>t DEF CancelOpenSubtasks
<1>7. ASSUME NEW r \in Root, NEW s \in TerminalStatus, CloseWaiting(r, s)
      PROVE status'[t] = status[t] /\ results'[t] = results[t]
  BY <1>7, <1>t DEF CloseWaiting
<1>8. CASE UNCHANGED <<status, results>>
  BY <1>8
<1>9. QED
  BY <1>1, <1>2, <1>3, <1>4, <1>5, <1>6, <1>7, <1>8
     DEF StoreStep, TouchHeartbeats, BecomeDue, HeartbeatAges, SoftDelete, ToggleSetting, storeVars

-----------------------------------------------------------------------------
(* The workers. *)

\* What the next call of a coroutine may be given: with TypeOK it is inductive.
CoroutineOK ==
    \A w \in Worker, t \in Task :
        /\ coro[w][t].pc = "persist" /\ ~coro[w][t].err
               => coro[w][t].arg \in {"FINISHED", "FAILED"}
        /\ coro[w][t].pc = "close" => coro[w][t].arg \in TerminalStatus \ {"CANCELLED"}

\* What a coroutine asks to store is an outcome.
LEMMA CandidateType ==
    ASSUME CoroutineOK, NEW w \in Worker, NEW t \in Task, coro[w][t].pc = "persist"
    PROVE  Candidate(w, t) \in Outcome
BY DEF CoroutineOK, Candidate, Outcome

\* Every step of the system is one statement of the store, or none.
LEMMA NextIsStoreStep ==
    ASSUME TaskAssumption, TypeOK, CoroutineOK, [Next]_vars
    PROVE  StoreStep
<1>1. ASSUME NEW w \in Worker, WorkerStep(w) PROVE StoreStep
  <2>1. ASSUME NEW S \in SUBSET Task, Fetch(w, S) PROVE StoreStep
    BY <2>1 DEF Fetch, StoreStep
  <2>2. CASE \/ BatchEnds(w) \/ OrphansEnd(w) \/ PollWorkerDisabled(w)
             \/ ShutdownTimeout(w) \/ Restart(w)
    BY <2>2 DEF BatchEnds, OrphansEnd, PollWorkerDisabled, ShutdownTimeout, Restart, StoreStep
  <2>3. CASE PollRound(w)
    <3>1. InFlight(w) \in SUBSET Task
      BY DEF InFlight
    <3>2. QED
      BY <2>3, <3>1 DEF PollRound, StoreStep
  <2>4. CASE Requeue(w)
    <3>1. Batch(w) \in SUBSET Task
      BY DEF Batch
    <3>2. QED
      BY <2>4, <3>1 DEF Requeue, StoreStep
  <2>5. QED
    BY <1>1, <2>1, <2>2, <2>3, <2>4 DEF WorkerStep
<1>2. ASSUME NEW w \in Worker, NEW t \in Task, CoroutineStep(w, t) PROVE StoreStep
  <2>1. CASE Start(w, t)
    BY <2>1 DEF Start, StoreStep
  <2>2. CASE \/ StartMisses(w, t) \/ Raise(w, t) \/ PipelineReturns(w, t)
             \/ PersistSkipped(w, t) \/ CountSiblings(w, t)
    BY <2>2 DEF StartMisses, Raise, PipelineReturns, PersistSkipped, CountSiblings, StoreStep
  <2>3. CASE Persist(w, t)
    <3>1. Candidate(w, t) \in Outcome
      BY <2>3, CandidateType DEF Persist
    <3>2. coro[w][t].execs \in Nat
      BY DEF TypeOK, Coroutine
    <3>3. QED
      BY <2>3, <3>1, <3>2 DEF Persist, StoreStep
  <2>4. CASE t \in Subtask /\ (FailParent(w, t) \/ CancelSiblings(w, t))
    <3>1. Parent[t] \in Root /\ "FAILED" \in TerminalStatus
      BY <2>4 DEF TaskAssumption, TerminalStatus, FailedStatus
    <3>2. QED
      BY <2>4, <3>1 DEF FailParent, CancelSiblings, StoreStep
  <2>5. CASE t \in Subtask /\ CloseParent(w, t)
    <3>1. Parent[t] \in Root /\ coro[w][t].arg \in TerminalStatus
      BY <2>5 DEF TaskAssumption, CloseParent, CoroutineOK
    <3>2. QED
      BY <2>5, <3>1 DEF CloseParent, StoreStep
  <2>6. QED
    BY <1>2, <2>1, <2>2, <2>3, <2>4, <2>5 DEF CoroutineStep
<1>3. ASSUME NEW w \in Worker, NEW r \in Root, NEW S \in SUBSET ChildrenOf(r), Spawn(w, r, S)
      PROVE StoreStep
  <2>1. S \in SUBSET Task
    BY DEF ChildrenOf, Task
  <2>2. QED
    BY <1>3, <2>1 DEF Spawn, StoreStep
<1>4. ASSUME NEW t \in Task, Due(t) \/ HeartbeatExpires(t) PROVE StoreStep
  BY <1>4 DEF Due, HeartbeatExpires, StoreStep
<1>5. CASE FaultStep
  <2>1. ASSUME NEW w \in Worker, Stop(w) \/ Crash(w) \/ PollFails(w) \/ RequeueFails(w)
        PROVE StoreStep
    BY <2>1 DEF Stop, Crash, PollFails, RequeueFails, StoreStep
  <2>2. ASSUME NEW w \in Worker, NEW t \in Task, CallFails(w, t) \/ BatchAborts(w, t)
        PROVE StoreStep
    BY <2>2 DEF CallFails, BatchAborts, StoreStep
  <2>3. ASSUME NEW f \in Flag, Toggle(f) PROVE StoreStep
    BY <2>3 DEF Toggle, StoreStep
  <2>4. ASSUME NEW t \in Task, Delete(t) \/ HeartbeatLate(t) PROVE StoreStep
    BY <2>4 DEF Delete, HeartbeatLate, StoreStep
  <2>5. QED
    BY <1>5, <2>1, <2>2, <2>3, <2>4 DEF FaultStep
<1>6. CASE UNCHANGED vars
  BY <1>6 DEF vars, StoreStep
<1>7. QED
  BY <1>1, <1>2, <1>3, <1>4, <1>5, <1>6 DEF Next

-----------------------------------------------------------------------------
(* Types and arguments of the coroutines. *)

\* The coroutine invariants of one coroutine: CoroutineOK is ArgOK of each.
ArgOK(k) == /\ k.pc = "persist" /\ ~k.err => k.arg \in {"FINISHED", "FAILED"}
            /\ k.pc = "close" => k.arg \in TerminalStatus \ {"CANCELLED"}

Coroutines == {k \in Coroutine : ArgOK(k)}

LEMMA CoroutinesInvariant ==
    TypeOK /\ CoroutineOK => coro \in [Worker -> [Task -> Coroutines]]
BY DEF TypeOK, CoroutineOK, Coroutines, ArgOK

\* The coroutines a step may put in the place of others.
LEMMA CoroutineValues ==
    /\ NoCoroutine \in Coroutines
    /\ DoneCoroutine \in Coroutines
    /\ \A t \in Task : execs[t] \in Nat => Fetched(t) \in Coroutines
    /\ \A k \in Coroutines, arg \in {"raised", "notQueued"} :
           [k EXCEPT !.pc = "persist", !.err = TRUE, !.arg = arg] \in Coroutines
    /\ \A k \in Coroutines : [k EXCEPT !.cancel = TRUE] \in Coroutines
    /\ \A k \in Coroutines, pc \in Pc, arg \in Arg :
           (/\ pc = "persist" => arg \in {"FINISHED", "FAILED"}
            /\ pc = "close" => arg \in TerminalStatus \ {"CANCELLED"})
           => [k EXCEPT !.pc = pc, !.arg = arg] \in Coroutines
<1>1. NoCoroutine \in Coroutines /\ DoneCoroutine \in Coroutines
  BY DEF Coroutines, Coroutine, NoCoroutine, DoneCoroutine, ArgOK, Pc, Arg
<1>2. ASSUME NEW t \in Task, execs[t] \in Nat PROVE Fetched(t) \in Coroutines
  <2>1. "waiting" \in Pc
    BY DEF Pc, ProgressPc
  <2>2. Fetched(t) \in Coroutine
    BY <1>1, <1>2, <2>1 DEF Coroutines, Coroutine, Fetched
  <2>3. QED
    BY <2>2 DEF Coroutines, Fetched, NoCoroutine, ArgOK
<1>3. ASSUME NEW k \in Coroutines, NEW arg \in {"raised", "notQueued"}
      PROVE  [k EXCEPT !.pc = "persist", !.err = TRUE, !.arg = arg] \in Coroutines
  <2>1. "persist" \in Pc /\ arg \in Arg
    BY DEF Pc, Arg, ProgressPc
  <2>2. k \in Coroutine
    BY DEF Coroutines
  <2>3. QED
    BY <2>1, <2>2 DEF Coroutines, Coroutine, ArgOK
<1>4. ASSUME NEW k \in Coroutines PROVE [k EXCEPT !.cancel = TRUE] \in Coroutines
  BY <1>4 DEF Coroutines, Coroutine, ArgOK
<1>5. ASSUME NEW k \in Coroutines, NEW pc \in Pc, NEW arg \in Arg,
             pc = "persist" => arg \in {"FINISHED", "FAILED"},
             pc = "close" => arg \in TerminalStatus \ {"CANCELLED"}
      PROVE  [k EXCEPT !.pc = pc, !.arg = arg] \in Coroutines
  BY <1>5 DEF Coroutines, Coroutine, ArgOK
<1>6. QED
  BY <1>1, <1>2, <1>3, <1>4, <1>5

LEMMA GotoType ==
    ASSUME coro \in [Worker -> [Task -> Coroutines]], NEW w \in Worker, NEW t \in Task,
           NEW pc \in Pc, NEW arg \in Arg, Goto(w, t, pc, arg),
           pc = "persist" => arg \in {"FINISHED", "FAILED"},
           pc = "close" => arg \in TerminalStatus \ {"CANCELLED"}
    PROVE  coro' \in [Worker -> [Task -> Coroutines]]
BY CoroutineValues DEF Goto

LEMMA GotoErrorType ==
    ASSUME coro \in [Worker -> [Task -> Coroutines]], NEW w \in Worker, NEW t \in Task,
           NEW arg \in {"raised", "notQueued"}, GotoError(w, t, arg)
    PROVE  coro' \in [Worker -> [Task -> Coroutines]]
BY CoroutineValues DEF GotoError

LEMMA ForgetType ==
    ASSUME coro \in [Worker -> [Task -> Coroutines]], NEW w \in Worker, Forget(w)
    PROVE  coro' \in [Worker -> [Task -> Coroutines]]
BY CoroutineValues DEF Forget

LEMMA ProcessEndsType ==
    ASSUME coro \in [Worker -> [Task -> Coroutines]], NEW w \in Worker, ProcessEnds(w)
    PROVE  coro' \in [Worker -> [Task -> Coroutines]]
BY CoroutineValues DEF ProcessEnds

LEMMA CancelType ==
    ASSUME coro \in [Worker -> [Task -> Coroutines]], NEW w \in Worker, NEW S,
           CancelCoroutines(w, S)
    PROVE  coro' \in [Worker -> [Task -> Coroutines]]
BY CoroutineValues DEF CancelCoroutines

\* Every step leaves well-formed coroutines.
LEMMA NextCoroutines ==
    ASSUME TypeOK, CoroutineOK, [Next]_vars
    PROVE  coro' \in [Worker -> [Task -> Coroutines]]
<1>c. coro \in [Worker -> [Task -> Coroutines]]
  BY CoroutinesInvariant
<1>a. /\ {"", "raised", "notQueued", "spawned", "FINISHED", "FAILED"} \subseteq Arg
      /\ {"persist", "failParent", "cancelSiblings", "count", "close", "done", "running"} \subseteq Pc
  BY DEF Arg, Pc, ProgressPc, TerminalStatus, FailedStatus
<1>1. ASSUME NEW w \in Worker, WorkerStep(w)
      PROVE  coro' \in [Worker -> [Task -> Coroutines]]
  <2>1. ASSUME NEW S \in SUBSET Task, Fetch(w, S)
        PROVE  coro' \in [Worker -> [Task -> Coroutines]]
    BY <2>1, <1>c, CoroutineValues DEF Fetch, TypeOK, StoreTypeOK
  <2>2. CASE BatchEnds(w) \/ OrphansEnd(w) \/ Requeue(w)
    BY <2>2, <1>c, ForgetType, ProcessEndsType DEF BatchEnds, OrphansEnd, Requeue
  <2>3. CASE PollWorkerDisabled(w) \/ PollRound(w)
    BY <2>3, <1>c, CancelType DEF PollWorkerDisabled, PollRound
  <2>4. CASE ShutdownTimeout(w)
    BY <2>4, <1>c, CoroutineValues DEF ShutdownTimeout
  <2>5. CASE Restart(w)
    BY <2>5, <1>c DEF Restart
  <2>6. QED
    BY <1>1, <2>1, <2>2, <2>3, <2>4, <2>5 DEF WorkerStep
<1>2. ASSUME NEW w \in Worker, NEW t \in Task, CoroutineStep(w, t)
      PROVE  coro' \in [Worker -> [Task -> Coroutines]]
  <2>1. CASE Start(w, t)
    BY <2>1, <1>a, <1>c, GotoType DEF Start
  <2>2. CASE StartMisses(w, t) \/ Raise(w, t)
    BY <2>2, <1>c, GotoErrorType DEF StartMisses, Raise
  <2>3. CASE PipelineReturns(w, t)
    BY <2>3, <1>a, <1>c, GotoType DEF PipelineReturns
  <2>4. CASE Persist(w, t)
    <3>1. PICK pc \in {"done", "failParent", "count"}, arg \in {"", "FINISHED", "FAILED"} :
              Goto(w, t, pc, arg)
      BY <2>4 DEF Persist, AfterStore
    <3>2. QED
      BY <3>1, <1>a, <1>c, GotoType
  <2>5. CASE PersistSkipped(w, t) \/ CancelSiblings(w, t) \/ CloseParent(w, t)
    BY <2>5, <1>a, <1>c, GotoType DEF PersistSkipped, CancelSiblings, CloseParent
  <2>6. CASE FailParent(w, t)
    BY <2>6, <1>a, <1>c, GotoType DEF FailParent
  <2>7. CASE CountSiblings(w, t)
    <3>1. ClosingStatus(Kids(Parent[t]), status) \in Arg \cap (TerminalStatus \ {"CANCELLED"})
      BY DEF ClosingStatus, Arg, TerminalStatus, FailedStatus
    <3>2. QED
      BY <2>7, <3>1, <1>a, <1>c, GotoType DEF CountSiblings
  <2>8. QED
    BY <1>2, <2>1, <2>2, <2>3, <2>4, <2>5, <2>6, <2>7 DEF CoroutineStep
<1>3. ASSUME NEW w \in Worker, NEW r \in Root, NEW S \in SUBSET ChildrenOf(r), Spawn(w, r, S)
      PROVE  coro' \in [Worker -> [Task -> Coroutines]]
  <2>1. r \in Task
    BY DEF Task
  <2>2. QED
    BY <1>3, <2>1, <1>a, <1>c, GotoType DEF Spawn
<1>4. ASSUME NEW t \in Task, Due(t) \/ HeartbeatExpires(t)
      PROVE  coro' \in [Worker -> [Task -> Coroutines]]
  BY <1>4, <1>c DEF Due, HeartbeatExpires, workerVars
<1>5. CASE FaultStep
  <2>1. ASSUME NEW w \in Worker, Stop(w) \/ Crash(w) \/ PollFails(w) \/ RequeueFails(w)
        PROVE  coro' \in [Worker -> [Task -> Coroutines]]
    BY <2>1, <1>c, ProcessEndsType, CancelType DEF Stop, Crash, PollFails, RequeueFails
  <2>2. ASSUME NEW w \in Worker, NEW t \in Task, CallFails(w, t) \/ BatchAborts(w, t)
        PROVE  coro' \in [Worker -> [Task -> Coroutines]]
    BY <2>2, <1>c, CoroutineValues, GotoErrorType DEF CallFails, BatchAborts
  <2>3. CASE (\E f \in Flag : Toggle(f)) \/ (\E t \in Task : Delete(t) \/ HeartbeatLate(t))
    BY <2>3, <1>c DEF Toggle, Delete, HeartbeatLate, workerVars
  <2>4. QED
    BY <1>5, <2>1, <2>2, <2>3 DEF FaultStep
<1>6. CASE UNCHANGED vars
  BY <1>6, <1>c DEF vars, workerVars
<1>7. QED
  BY <1>1, <1>2, <1>3, <1>4, <1>5, <1>6 DEF Next

\* The mode and the poller of a worker, and the number of faults.
LEMMA NextModes ==
    ASSUME WorkerAssumption, TypeOK, [Next]_vars
    PROVE  /\ mode' \in [Worker -> Mode]
           /\ polling' \in [Worker -> BOOLEAN]
           /\ faults' \in 0..MaxFaults
<1> USE DEF TypeOK, Mode
<1>e. ASSUME NEW w \in Worker, ProcessEnds(w)
      PROVE  mode' \in [Worker -> Mode] /\ polling' \in [Worker -> BOOLEAN]
  BY <1>e DEF ProcessEnds
<1>1. ASSUME NEW w \in Worker, WorkerStep(w)
      PROVE  /\ mode' \in [Worker -> Mode]
             /\ polling' \in [Worker -> BOOLEAN]
             /\ faults' = faults
  <2>1. CASE (\E S \in SUBSET Task : Fetch(w, S)) \/ OrphansEnd(w) \/ PollWorkerDisabled(w)
             \/ PollRound(w)
    BY <2>1 DEF Fetch, OrphansEnd, PollWorkerDisabled, PollRound
  <2>2. CASE BatchEnds(w) \/ Requeue(w)
    <3>1. faults' = faults
      BY <2>2 DEF BatchEnds, Requeue
    <3>2. CASE ProcessEnds(w)
      BY <3>1, <3>2, <1>e
    <3>3. CASE ~ProcessEnds(w)
      BY <2>2, <3>1, <3>3 DEF BatchEnds, Requeue
    <3>4. QED
      BY <3>2, <3>3
  <2>3. CASE ShutdownTimeout(w) \/ Restart(w)
    BY <2>3 DEF ShutdownTimeout, Restart
  <2>4. QED
    BY <1>1, <2>1, <2>2, <2>3 DEF WorkerStep
<1>2. ASSUME NEW w \in Worker, NEW t \in Task, CoroutineStep(w, t)
      PROVE  UNCHANGED <<mode, polling, faults>>
  BY <1>2 DEF CoroutineStep, Start, StartMisses, Raise, PipelineReturns, Persist, PersistSkipped,
              FailParent, CancelSiblings, CountSiblings, CloseParent
<1>3. CASE \/ \E w \in Worker, r \in Root : \E S \in SUBSET ChildrenOf(r) : Spawn(w, r, S)
           \/ \E t \in Task : Due(t) \/ HeartbeatExpires(t)
  BY <1>3 DEF Spawn, Due, HeartbeatExpires, workerVars
<1>4. ASSUME FaultStep
      PROVE  /\ mode' \in [Worker -> Mode]
             /\ polling' \in [Worker -> BOOLEAN]
             /\ faults' \in 0..MaxFaults
  <2>1. PICK kind : Fault(kind)
    BY <1>4 DEF FaultStep, Stop, Crash, PollFails, RequeueFails, CallFails, BatchAborts, Toggle,
                Delete, HeartbeatLate
  <2>2. faults' \in 0..MaxFaults
    BY <2>1 DEF Fault, WorkerAssumption
  <2>3. /\ mode' \in [Worker -> Mode]
        /\ polling' \in [Worker -> BOOLEAN]
    <3>1. ASSUME NEW w \in Worker, Stop(w) \/ Crash(w) \/ PollFails(w) \/ RequeueFails(w)
          PROVE  mode' \in [Worker -> Mode] /\ polling' \in [Worker -> BOOLEAN]
      BY <3>1, <1>e DEF Stop, Crash, PollFails, RequeueFails
    <3>2. ASSUME NEW w \in Worker, NEW t \in Task, CallFails(w, t) \/ BatchAborts(w, t)
          PROVE  mode' \in [Worker -> Mode] /\ polling' \in [Worker -> BOOLEAN]
      BY <3>2 DEF CallFails, BatchAborts, LeaveBatch
    <3>3. CASE (\E f \in Flag : Toggle(f)) \/ (\E t \in Task : Delete(t) \/ HeartbeatLate(t))
      BY <3>3 DEF Toggle, Delete, HeartbeatLate, workerVars
    <3>4. QED
      BY <1>4, <3>1, <3>2, <3>3 DEF FaultStep
  <2>4. QED
    BY <2>2, <2>3
<1>5. CASE UNCHANGED vars
  BY <1>5 DEF vars, workerVars
<1>6. QED
  BY <1>1, <1>2, <1>3, <1>4, <1>5 DEF Next

-----------------------------------------------------------------------------
(* Theorems. *)

\* Only a failed call of on_task_error leaves a batch behind.
NoOrphans == "abort" \notin Faults => \A w \in Worker : mode[w] # "orphaned"

\* Type correctness needs CoroutineOK: the status a coroutine writes to its row
\* or to the parent is one it was given some steps earlier.
TypeInv == TypeOK /\ CoroutineOK /\ NoOrphans

\* Without batches left behind a process ends with the batch of its runner.
LEMMA EndForgets ==
    ASSUME TypeInv, "abort" \notin Faults, NEW w \in Worker, ProcessEnds(w)
    PROVE  Forget(w) /\ mode' = [mode EXCEPT ![w] = "down"]
<1>1. OrphansOf(w) = {}
  BY DEF OrphansOf, TypeInv, NoOrphans
<1>2. mode' = [mode EXCEPT ![w] = "down"]
  BY <1>1 DEF ProcessEnds, TypeInv, TypeOK
<1>3. Forget(w)
  BY <1>1 DEF ProcessEnds, Forget, TypeInv, TypeOK
<1>4. QED
  BY <1>2, <1>3

\* Without a failed call of on_task_error no batch is left behind.
LEMMA StepNoOrphans ==
    ASSUME TypeInv, [Next]_vars
    PROVE  NoOrphans'
<1> SUFFICES ASSUME "abort" \notin Faults, NEW w \in Worker PROVE mode'[w] # "orphaned"
  BY DEF NoOrphans
<1>m. mode \in [Worker -> Mode] /\ mode[w] # "orphaned"
  BY DEF TypeInv, TypeOK, NoOrphans
<1>e. ASSUME NEW v \in Worker, ProcessEnds(v) PROVE mode'[w] # "orphaned"
  BY <1>m, <1>e, EndForgets
<1>1. ASSUME NEW v \in Worker, WorkerStep(v) PROVE mode'[w] # "orphaned"
  BY <1>1, <1>m, <1>e DEF WorkerStep, Fetch, BatchEnds, OrphansEnd, PollWorkerDisabled, PollRound,
                          ShutdownTimeout, Requeue, Restart
<1>2. ASSUME NEW v \in Worker, NEW t \in Task, CoroutineStep(v, t) PROVE mode'[w] # "orphaned"
  BY <1>2, <1>m DEF CoroutineStep, Start, StartMisses, Raise, PipelineReturns, Persist,
                    PersistSkipped, FailParent, CancelSiblings, CountSiblings, CloseParent
<1>3. CASE \/ \E v \in Worker, r \in Root : \E S \in SUBSET ChildrenOf(r) : Spawn(v, r, S)
           \/ \E t \in Task : Due(t) \/ HeartbeatExpires(t)
  BY <1>3, <1>m DEF Spawn, Due, HeartbeatExpires, workerVars
<1>4. CASE FaultStep
  <2>1. ASSUME NEW v \in Worker, Stop(v) \/ Crash(v) \/ PollFails(v) \/ RequeueFails(v)
        PROVE  mode'[w] # "orphaned"
    BY <2>1, <1>m, <1>e DEF Stop, Crash, PollFails, RequeueFails
  <2>2. ASSUME NEW v \in Worker, NEW t \in Task, CallFails(v, t) \/ BatchAborts(v, t)
        PROVE  mode'[w] # "orphaned"
    BY <2>2, <1>m DEF CallFails, BatchAborts, Fault
  <2>3. CASE (\E f \in Flag : Toggle(f)) \/ (\E t \in Task : Delete(t) \/ HeartbeatLate(t))
    BY <2>3, <1>m DEF Toggle, Delete, HeartbeatLate, workerVars
  <2>4. QED
    BY <1>4, <2>1, <2>2, <2>3 DEF FaultStep
<1>5. CASE UNCHANGED vars
  BY <1>5, <1>m DEF vars, workerVars
<1>6. QED
  BY <1>1, <1>2, <1>3, <1>4, <1>5 DEF Next

LEMMA InitTypeInv == TaskAssumption /\ WorkerAssumption /\ Init => TypeInv
<1> SUFFICES ASSUME TaskAssumption, WorkerAssumption, Init PROVE TypeInv
  OBVIOUS
<1>1. StoreTypeOK
  BY DEF Init, StoreInit, StoreTypeOK, RowStatus, OpenStatus
<1>2. coro \in [Worker -> [Task -> Coroutines]]
  BY CoroutineValues DEF Init
<1>3. mode \in [Worker -> Mode]
      /\ polling \in [Worker -> BOOLEAN] /\ faults \in 0..MaxFaults
  BY DEF Init, WorkerAssumption, Mode
<1>4. NoOrphans
  BY DEF Init, NoOrphans
<1>5. QED
  BY <1>1, <1>2, <1>3, <1>4 DEF TypeInv, TypeOK, CoroutineOK, Coroutines, ArgOK

LEMMA StepTypeInv ==
    TaskAssumption /\ WorkerAssumption /\ TypeInv /\ [Next]_vars => TypeInv'
<1> SUFFICES ASSUME TaskAssumption, WorkerAssumption, TypeInv, [Next]_vars PROVE TypeInv'
  OBVIOUS
<1>1. StoreTypeOK'
  BY NextIsStoreStep, StoreStepType DEF TypeInv, TypeOK
<1>2. coro' \in [Worker -> [Task -> Coroutines]]
  BY NextCoroutines DEF TypeInv
<1>3. /\ mode' \in [Worker -> Mode]
      /\ polling' \in [Worker -> BOOLEAN] /\ faults' \in 0..MaxFaults
  BY NextModes DEF TypeInv
<1>4. QED
  BY <1>1, <1>2, <1>3, StepNoOrphans DEF TypeInv, TypeOK, CoroutineOK, Coroutines, ArgOK

\* The state of the workers and of the tables is always typed.
THEOREM TypeCorrect == Spec => []TypeOK
<1>1. TypeInv => TypeOK
  BY DEF TypeInv
<1>2. QED
  BY <1>1, InitTypeInv, StepTypeInv, TaskAssumption, WorkerAssumption, PTL DEF Spec

\* A terminal row is never written again, whatever happens to the workers.
THEOREM TerminalRowsStay == Spec => TerminalIsForever
<1>1. TypeInv /\ [Next]_vars =>
        [\A t \in Task : status[t] \in TerminalStatus =>
             status'[t] = status[t] /\ results'[t] = results[t]]_vars
  BY TaskAssumption, NextIsStoreStep, StoreStepKeepsTerminal DEF TypeInv, TypeOK
<1>2. QED
  BY <1>1, InitTypeInv, StepTypeInv, TaskAssumption, WorkerAssumption, PTL
     DEF Spec, TerminalIsForever

\* OneResultPerSubtask is not inductive: it also takes that a row that is not
\* terminal has no result yet.
ResultInv ==
    \A c \in Subtask \ Cyclical :
        /\ results[c] <= 1
        /\ status[c] \notin TerminalStatus => results[c] = 0

LEMMA StepResultInv ==
    ASSUME TaskAssumption, StoreTypeOK, ResultInv, StoreStep
    PROVE  ResultInv'
<1> SUFFICES ASSUME NEW c \in Subtask \ Cyclical
             PROVE  /\ results'[c] <= 1
                    /\ status'[c] \notin TerminalStatus => results'[c] = 0
  BY DEF ResultInv
<1>t. c \in Task /\ results[c] \in Nat
  BY DEF Task, StoreTypeOK
<1>1. CASE status[c] \in TerminalStatus
  BY <1>1, <1>t, StoreStepKeepsTerminal DEF ResultInv
<1>2. ASSUME status[c] \notin TerminalStatus, NEW candidate \in Outcome, NEW k \in Nat,
             InsertResultAndUpdate(c, candidate, k)
      PROVE  results'[c] = 1 /\ status'[c] \in TerminalStatus
  <2>1. StoredStatus(c, candidate, k) \in TerminalStatus
    BY LinearSubtaskStored DEF Outcome, TerminalStatus, FailedStatus
  <2>2. QED
    BY <1>2, <1>t, <2>1 DEF InsertResultAndUpdate, StoreTypeOK, ResultInv
<1>3. ASSUME status[c] \notin TerminalStatus, NEW u \in Task, u # c,
             NEW candidate \in Outcome, NEW k \in Nat, InsertResultAndUpdate(u, candidate, k)
      PROVE  results'[c] = results[c]
  BY <1>3 DEF InsertResultAndUpdate, StoreTypeOK
<1>4. CASE UNCHANGED results
  BY <1>1, <1>4 DEF ResultInv
<1>5. \/ UNCHANGED results
      \/ \E u \in Task, candidate \in Outcome, k \in Nat : InsertResultAndUpdate(u, candidate, k)
  BY DEF StoreStep, LockRunnable, TouchHeartbeats, RequeueIncomplete, InsertSubtasks,
         SetTaskRunning, BecomeDue, HeartbeatAges, SoftDelete, CancelOpenSubtasks, CloseWaiting,
         ToggleSetting, storeVars
<1>6. QED
  BY <1>1, <1>2, <1>3, <1>4, <1>5 DEF ResultInv

\* A LINEAR subtask gets one result at most, even when a zombie, a restarted and
\* a stopping worker all execute it.
THEOREM SubtasksHaveOneResult == Spec => []OneResultPerSubtask
<1>1. Init => ResultInv
  BY DEF Init, StoreInit, ResultInv, Task
<1>2. TypeInv /\ ResultInv /\ [Next]_vars => ResultInv'
  BY TaskAssumption, NextIsStoreStep, StepResultInv DEF TypeInv, TypeOK
<1>3. ResultInv => OneResultPerSubtask
  BY DEF ResultInv, OneResultPerSubtask
<1>4. QED
  BY <1>1, <1>2, <1>3, InitTypeInv, StepTypeInv, TaskAssumption, WorkerAssumption, PTL DEF Spec
=============================================================================
