----------------------------- MODULE TaskWorkers -----------------------------
(***************************************************************************)
(* The DB workers: each process polls the task table, locks a batch,       *)
(* executes it through DBExecutionOrchestrator and ExecutionBatchRunner,   *)
(* stores the outcomes through PostgresTaskRepository and applies them to  *)
(* the parent rows.  Workers share nothing but the tables of TaskStore.    *)
(*                                                                         *)
(* A process_task coroutine is cut at its awaits on the database: what the *)
(* code does between two of them is one step, what other coroutines and    *)
(* other processes do may come in between.                                 *)
(*                                                                         *)
(* A batch that fails leaves its other coroutines behind: they go on in    *)
(* the process, with the semaphore of their batch but without its poller,  *)
(* and nobody waits for them.  A worker here is what executes one batch at *)
(* a time: the runner of a process, or such a batch that it left behind.   *)
(***************************************************************************)
EXTENDS TaskStore

CONSTANTS
    Worker,         \* the runners of the processes and the batches they left behind
    ProcessOf,      \* the process of each worker, named by its first worker
    TasksLimit,     \* RUNNER_TASKS_LIMIT: rows locked by one poll
    MaxConcurrent,  \* size of the semaphore of a batch
    SpawnOnce,      \* an execution of a root inserts its subtasks in one transaction
    SpawnIdempotent,\* ... and none if an earlier execution has inserted any
    Faults,         \* the kinds of fault that may happen
    MaxFaults       \* bound on their number

FaultKind == {"stop", "crash", "dberror", "abort", "pause", "late", "delete"}

ASSUME WorkerAssumption ==
    /\ TasksLimit \in Nat \ {0}
    /\ MaxConcurrent \in Nat \ {0}
    /\ ProcessOf \in [Worker -> Worker]
    /\ \A w \in Worker : ProcessOf[ProcessOf[w]] = ProcessOf[w]
    /\ SpawnOnce \in BOOLEAN /\ SpawnIdempotent \in BOOLEAN
    /\ Faults \subseteq FaultKind
    /\ MaxFaults \in Nat

VARIABLES
    mode,      \* "up", "stopping" (stop event set), "requeue" (on_timeout), "down",
               \* "orphaned" (a batch left behind) or "spare" (none of these)
    polling,   \* whether the active-flag poller of the batch still runs
    coro,      \* the process_task coroutine of each row, in each worker
    faults     \* how many faults happened

workerVars == <<mode, polling, coro>>
vars == <<storeVars, workerVars, faults>>

-----------------------------------------------------------------------------
(* Coroutines.  pc is the next database call; err holds once the coroutine *)
(* is in on_task_error; arg is what that call will be given; execs is the  *)
(* current_executions read by the lock; cancel is the task's cancel event. *)
(* In a running root, arg tells whether it has inserted its subtasks.      *)

ProgressPc == {"running", "persist", "failParent", "cancelSiblings", "count", "close"}
Pc         == {"none", "waiting", "done"} \cup ProgressPc
Arg        == {"", "raised", "notQueued", "spawned"} \cup TerminalStatus
Coroutine  == [pc : Pc, err : BOOLEAN, arg : Arg, execs : Nat, cancel : BOOLEAN]

NoCoroutine   == [pc |-> "none", err |-> FALSE, arg |-> "", execs |-> 0, cancel |-> FALSE]
DoneCoroutine == [NoCoroutine EXCEPT !.pc = "done"]
Fetched(t)    == [NoCoroutine EXCEPT !.pc = "waiting", !.execs = execs[t]]

Mode == {"up", "stopping", "requeue", "down", "orphaned", "spare"}

TypeOK ==
    /\ StoreTypeOK
    /\ mode \in [Worker -> Mode]
    /\ polling \in [Worker -> BOOLEAN]
    /\ coro \in [Worker -> [Task -> Coroutine]]
    /\ faults \in 0..MaxFaults

Init ==
    /\ StoreInit
    /\ mode = [w \in Worker |-> IF ProcessOf[w] = w THEN "up" ELSE "spare"]
    /\ polling = [w \in Worker |-> FALSE]
    /\ coro = [w \in Worker |-> [t \in Task |-> NoCoroutine]]
    /\ faults = 0

Batch(w)      == {t \in Task : coro[w][t].pc # "none"}
InFlight(w)   == {t \in Task : coro[w][t].pc \in {"waiting"} \cup ProgressPc}
InProgress(w) == {t \in Task : coro[w][t].pc \in ProgressPc}

\* The rows w has yet to store or to give back, with a heartbeat in time.
HeldBy(w) ==
    CASE mode[w] = "requeue"  -> Batch(w)
      [] mode[w] = "orphaned" -> {}
      [] OTHER                -> InFlight(w)

\* The coroutine of t in w moves on; the semaphore is released when it is done.
Goto(w, t, pc, arg) ==
    coro' = [coro EXCEPT ![w][t] =
                 IF pc = "done" THEN DoneCoroutine
                 ELSE [@ EXCEPT !.pc = pc, !.arg = arg]]

\* on_task_error: the next call stores FAILED or CANCELLED.
GotoError(w, t, arg) ==
    coro' = [coro EXCEPT ![w][t] =
                 [@ EXCEPT !.pc = "persist", !.err = TRUE, !.arg = arg]]

Forget(w) == coro' = [coro EXCEPT ![w] = [t \in Task |-> NoCoroutine]]

OrphansOf(w) == {v \in Worker : mode[v] = "orphaned" /\ ProcessOf[v] = ProcessOf[w]}

\* The process of the runner w ends, and with it what it left behind.
ProcessEnds(w) ==
    /\ mode' = [v \in Worker |-> IF v = w THEN "down"
                                 ELSE IF v \in OrphansOf(w) THEN "spare" ELSE mode[v]]
    /\ coro' = [v \in Worker |-> IF v \in OrphansOf(w) \cup {w}
                                 THEN [t \in Task |-> NoCoroutine] ELSE coro[v]]
    /\ polling' = [polling EXCEPT ![w] = FALSE]

CancelCoroutines(w, S) ==
    coro' = [coro EXCEPT ![w] = [t \in Task |->
                 IF t \in S THEN [coro[w][t] EXCEPT !.cancel = TRUE] ELSE coro[w][t]]]

-----------------------------------------------------------------------------
(* Polling for work and ending a batch. *)

\* RunnerDB._run_single_cycle: lock up to TasksLimit rows.  SKIP LOCKED passes
\* over the rows another transaction holds, so the batch can be any of them.
Fetch(w, S) ==
    /\ mode[w] = "up" /\ Batch(w) = {}
    /\ S # {} /\ Cardinality(S) <= TasksLimit
    /\ LockRunnable(S)
    /\ coro' = [coro EXCEPT ![w] = [t \in Task |-> IF t \in S THEN Fetched(t) ELSE NoCoroutine]]
    /\ polling' = [polling EXCEPT ![w] = TRUE]
    /\ UNCHANGED <<mode, faults>>

\* gather is done: the cycle ends, and with a stop event set so does the runner.
BatchEnds(w) ==
    /\ InFlight(w) = {}
    /\ \/ /\ mode[w] = "up" /\ Batch(w) # {}
          /\ Forget(w)
          /\ polling' = [polling EXCEPT ![w] = FALSE]
          /\ UNCHANGED mode
       \/ mode[w] = "stopping" /\ ProcessEnds(w)
    /\ UNCHANGED <<storeVars, faults>>

\* Nothing of the batch left behind is running any more.
OrphansEnd(w) ==
    /\ mode[w] = "orphaned" /\ InFlight(w) = {}
    /\ mode' = [mode EXCEPT ![w] = "spare"]
    /\ Forget(w)
    /\ UNCHANGED <<storeVars, polling, faults>>

-----------------------------------------------------------------------------
(* process_task. *)

HasSlot(w) == Cardinality(InProgress(w)) < MaxConcurrent

\* mark_task_running finds the row QUEUED and the pipeline starts.
Start(w, t) ==
    /\ coro[w][t].pc = "waiting" /\ HasSlot(w)
    /\ ~coro[w][t].cancel
    /\ SetTaskRunning(t)
    /\ Goto(w, t, "running", "")
    /\ UNCHANGED <<mode, polling, faults>>

\* mark_task_running updates no row and raises PipelineCancelledError.
StartMisses(w, t) ==
    /\ coro[w][t].pc = "waiting" /\ HasSlot(w)
    /\ ~coro[w][t].cancel
    /\ status[t] # "QUEUED"
    /\ GotoError(w, t, "notQueued")
    /\ UNCHANGED <<storeVars, mode, polling, faults>>

\* An exception before or in the pipeline: no factory for the scenario, a step
\* that raises, or the cancel event seen at a step boundary.
Raise(w, t) ==
    /\ \/ coro[w][t].pc = "waiting" /\ HasSlot(w)
       \/ coro[w][t].pc = "running"
    /\ GotoError(w, t, "raised")
    /\ UNCHANGED <<storeVars, mode, polling, faults>>

\* A step of a LINEAR root inserts subtasks of it, in every execution: whether it
\* looks for those of an earlier one is up to the plugin (_create_subtask).
Spawn(w, r, S) ==
    /\ r \in Root \ Cyclical /\ coro[w][r].pc = "running"
    /\ S # {} /\ \A c \in S : status[c] = Absent
    /\ SpawnOnce => coro[w][r].arg # "spawned"
    /\ SpawnIdempotent => \A c \in ChildrenOf(r) : status[c] = Absent
    /\ InsertSubtasks(S)
    /\ Goto(w, r, "running", "spawned")
    /\ UNCHANGED <<mode, polling, faults>>

\* The pipeline returns with result.ok set or not.
PipelineReturns(w, t) ==
    /\ coro[w][t].pc = "running" /\ ~coro[w][t].cancel
    /\ \E outcome \in {"FINISHED", "FAILED"} : Goto(w, t, "persist", outcome)
    /\ UNCHANGED <<storeVars, mode, polling, faults>>

\* What persist_task_result and persist_task_error ask to store.
Candidate(w, t) ==
    IF ~coro[w][t].err THEN coro[w][t].arg
    ELSE IF coro[w][t].cancel THEN "CANCELLED" ELSE "FAILED"

\* Slip: any failed subtask is treated as a blocking one.
AfterStoreAllBlocking(w, t, s) ==
    CASE t \in Root \/ s \notin {"FAILED", "FINISHED"} -> Goto(w, t, "done", "")
      [] t \in Subtask /\ s = "FAILED"                 -> Goto(w, t, "failParent", s)
      [] OTHER                                         -> Goto(w, t, "count", s)

\* Slip: a failed subtask that does not block is not counted.
AfterStoreFinishedOnly(w, t, s) ==
    CASE t \in Subtask /\ s = "FINISHED" -> Goto(w, t, "count", s)
      [] t \in Blocking /\ s = "FAILED"  -> Goto(w, t, "failParent", s)
      [] OTHER                            -> Goto(w, t, "done", "")

\* The row was stored as s: the calls on the parent that follow.
AfterStore(w, t, s) ==
    CASE t \in Root \/ s \notin {"FAILED", "FINISHED"} -> Goto(w, t, "done", "")
      [] t \in Blocking /\ s = "FAILED"                -> Goto(w, t, "failParent", s)
      [] OTHER                                         -> Goto(w, t, "count", s)

Persist(w, t) ==
    /\ coro[w][t].pc = "persist"
    /\ InsertResultAndUpdate(t, Candidate(w, t), coro[w][t].execs)
    /\ AfterStore(w, t, status'[t])
    /\ UNCHANGED <<mode, polling, faults>>

\* The row is terminal already: nothing is stored and no parent is looked at.
PersistSkipped(w, t) ==
    /\ coro[w][t].pc = "persist"
    /\ status[t] \in TerminalStatus
    /\ Goto(w, t, "done", "")
    /\ UNCHANGED <<storeVars, mode, polling, faults>>

\* _handle_subtask_failure of a blocking subtask, first call.
FailParent(w, t) ==
    /\ coro[w][t].pc = "failParent"
    /\ CloseWaiting(Parent[t], "FAILED")
    /\ Goto(w, t, "cancelSiblings", "")
    /\ UNCHANGED <<mode, polling, faults>>

\* _handle_subtask_failure of a blocking subtask, second call.
CancelSiblings(w, t) ==
    /\ coro[w][t].pc = "cancelSiblings"
    /\ CancelOpenSubtasks(Parent[t])
    /\ Goto(w, t, "done", "")
    /\ UNCHANGED <<mode, polling, faults>>

\* Slip: the rule for a root that just ran is used when a subtask ends.
CountSiblingsAsRoot(w, t) ==
    /\ coro[w][t].pc = "count"
    /\ Goto(w, t, "close", SuccessfulRootStatus(Kids(Parent[t]), status))
    /\ UNCHANGED <<storeVars, mode, polling, faults>>

\* count_parent_subtasks_state: decide on what the rows show now.
CountSiblings(w, t) ==
    LET kids == Kids(Parent[t])
        verdict == ClosingStatus(kids, status)
        closes == /\ ~Pending(kids, status)
                  /\ coro[w][t].arg = "FINISHED" \/ verdict # "FINISHED"
    IN  /\ coro[w][t].pc = "count"
        /\ IF closes THEN Goto(w, t, "close", verdict) ELSE Goto(w, t, "done", "")
        /\ UNCHANGED <<storeVars, mode, polling, faults>>

\* fail_waiting_parent or close_waiting_parent with what the count decided.
CloseParent(w, t) ==
    /\ coro[w][t].pc = "close"
    /\ CloseWaiting(Parent[t], coro[w][t].arg)
    /\ Goto(w, t, "done", "")
    /\ UNCHANGED <<mode, polling, faults>>

CoroutineStep(w, t) ==
    \/ Start(w, t) \/ StartMisses(w, t) \/ Raise(w, t)
    \/ PipelineReturns(w, t)
    \/ Persist(w, t) \/ PersistSkipped(w, t)
    \/ t \in Subtask /\ (\/ FailParent(w, t) \/ CancelSiblings(w, t)
                         \/ CountSiblings(w, t) \/ CloseParent(w, t))

-----------------------------------------------------------------------------
(* The active-flag poller. *)

\* worker_enabled is off: the batch and all its tasks are cancelled.
PollWorkerDisabled(w) ==
    /\ mode[w] = "up" /\ polling[w] /\ InFlight(w) # {}
    /\ ~settings["worker_enabled"]
    /\ CancelCoroutines(w, InFlight(w))
    /\ polling' = [polling EXCEPT ![w] = FALSE]
    /\ UNCHANGED <<storeVars, mode, faults>>

\* Tasks of paused scenarios are cancelled, then every heartbeat is refreshed.
PollRound(w) ==
    /\ mode[w] = "up" /\ polling[w] /\ InFlight(w) # {}
    /\ settings["worker_enabled"]
    /\ CancelCoroutines(w, {t \in InFlight(w) : ~settings[ScenarioOf[t]]})
    /\ TouchHeartbeats(InFlight(w))
    /\ UNCHANGED <<mode, polling, faults>>

-----------------------------------------------------------------------------
(* Shutdown. *)

\* The shutdown timeout: the coroutines that are not done are cancelled.
ShutdownTimeout(w) ==
    /\ mode[w] = "stopping" /\ InFlight(w) # {}
    /\ mode' = [mode EXCEPT ![w] = "requeue"]
    /\ coro' = [coro EXCEPT ![w] = [t \in Task |->
                    IF t \in Batch(w) THEN DoneCoroutine ELSE NoCoroutine]]
    /\ UNCHANGED <<storeVars, polling, faults>>

\* persist_timeout with every task of the batch, then the process ends.
Requeue(w) ==
    /\ mode[w] = "requeue"
    /\ RequeueIncomplete(Batch(w))
    /\ ProcessEnds(w)
    /\ UNCHANGED faults

\* The process supervisor starts the worker again.
Restart(w) ==
    /\ mode[w] = "down"
    /\ mode' = [mode EXCEPT ![w] = "up"]
    /\ UNCHANGED <<storeVars, polling, coro, faults>>

-----------------------------------------------------------------------------
(* Faults, each kind enabled by the constant Faults and all of them        *)
(* together bounded by MaxFaults.                                          *)

Fault(kind) ==
    /\ kind \in Faults
    /\ faults < MaxFaults
    /\ faults' = faults + 1

\* SIGTERM: AsyncRunner.stop sets the stop event and cancels the batch state,
\* which ends the poller; the tasks' own cancel events stay clear.
Stop(w) ==
    /\ Fault("stop")
    /\ mode[w] = "up"
    /\ mode' = [mode EXCEPT ![w] = "stopping"]
    /\ polling' = [polling EXCEPT ![w] = FALSE]
    /\ UNCHANGED <<storeVars, coro>>

\* The process dies, or RunnerApp's own drain timer cancels the runner before
\* it could requeue.
Crash(w) ==
    /\ Fault("crash")
    /\ mode[w] \in {"up", "stopping", "requeue"}
    /\ ProcessEnds(w)
    /\ UNCHANGED storeVars

\* A database call of the success path raises: the coroutine goes on in
\* on_task_error.
CallFails(w, t) ==
    /\ Fault("dberror")
    /\ coro[w][t].pc \in ProgressPc \ {"running"} /\ ~coro[w][t].err
    /\ GotoError(w, t, "raised")
    /\ UNCHANGED <<storeVars, mode, polling>>

\* The runner of w goes on as v, without the batch.
LeaveBatch(w, v) ==
    /\ mode[w] \in {"up", "stopping"}
    /\ mode[v] = "spare" /\ ProcessOf[v] = ProcessOf[w]
    /\ mode' = [mode EXCEPT ![w] = "orphaned", ![v] = mode[w]]
    /\ polling' = [polling EXCEPT ![w] = FALSE]

\* A database call of on_task_error raises. The gather of the batch is done with
\* that exception, which the finally clause raises again before it gets to cancel
\* the other coroutines; the poller is cancelled. In a batch left behind nobody
\* sees the exception.
BatchAborts(w, t) ==
    /\ Fault("abort")
    /\ coro[w][t].pc \in ProgressPc /\ coro[w][t].err
    /\ coro' = [coro EXCEPT ![w][t] = DoneCoroutine]
    /\ \/ \E v \in Worker : LeaveBatch(w, v)
       \/ mode[w] = "orphaned" /\ UNCHANGED <<mode, polling>>
    /\ UNCHANGED storeVars

\* A call of the poller raises: the batch is cancelled, as when disabled.
PollFails(w) ==
    /\ Fault("dberror")
    /\ mode[w] = "up" /\ polling[w] /\ InFlight(w) # {}
    /\ CancelCoroutines(w, InFlight(w))
    /\ polling' = [polling EXCEPT ![w] = FALSE]
    /\ UNCHANGED <<storeVars, mode>>

\* on_timeout raises: the process ends without requeueing.
RequeueFails(w) ==
    /\ Fault("dberror")
    /\ mode[w] = "requeue"
    /\ ProcessEnds(w)
    /\ UNCHANGED storeVars

\* An operator flips a flag.
Toggle(f) ==
    /\ Fault("pause")
    /\ ToggleSetting(f)
    /\ UNCHANGED workerVars

Delete(t) ==
    /\ Fault("delete")
    /\ SoftDelete(t)
    /\ UNCHANGED workerVars

\* The heartbeat ages although a worker still holds the row: a stalled
\* event loop, a drain longer than the zombie timeout, a poller that ended.
HeartbeatLate(t) ==
    /\ Fault("late")
    /\ \E w \in Worker : t \in HeldBy(w)
    /\ HeartbeatAges(t)
    /\ UNCHANGED workerVars

\* The heartbeat ages and no worker refreshes it.
HeartbeatExpires(t) ==
    /\ \A w \in Worker : t \notin HeldBy(w)
    /\ HeartbeatAges(t)
    /\ UNCHANGED <<workerVars, faults>>

Due(t) == BecomeDue(t) /\ UNCHANGED <<workerVars, faults>>

-----------------------------------------------------------------------------
WorkerStep(w) ==
    \/ \E S \in SUBSET Task : Fetch(w, S)
    \/ BatchEnds(w) \/ OrphansEnd(w)
    \/ PollWorkerDisabled(w) \/ PollRound(w)
    \/ ShutdownTimeout(w) \/ Requeue(w) \/ Restart(w)

FaultStep ==
    \/ \E w \in Worker : Stop(w) \/ Crash(w) \/ PollFails(w) \/ RequeueFails(w)
    \/ \E w \in Worker, t \in Task : CallFails(w, t) \/ BatchAborts(w, t)
    \/ \E f \in Flag : Toggle(f)
    \/ \E t \in Task : Delete(t) \/ HeartbeatLate(t)

Next ==
    \/ \E w \in Worker : WorkerStep(w)
    \/ \E w \in Worker, t \in Task : CoroutineStep(w, t)
    \/ \E w \in Worker, r \in Root : \E S \in SUBSET ChildrenOf(r) : Spawn(w, r, S)
    \/ \E t \in Task : Due(t) \/ HeartbeatExpires(t)
    \/ FaultStep

Spec == Init /\ [][Next]_vars

\* Coroutines are scheduled, pipelines return, transactions complete, time
\* passes and a process that ended is started again.
Fairness ==
    /\ \A w \in Worker : /\ WF_vars(\E S \in SUBSET Task : Fetch(w, S))
                         /\ WF_vars(BatchEnds(w)) /\ WF_vars(OrphansEnd(w))
                         /\ WF_vars(Requeue(w))
                         /\ WF_vars(PollWorkerDisabled(w)) /\ WF_vars(Restart(w))
    /\ \A w \in Worker, t \in Task : WF_vars(CoroutineStep(w, t))
    /\ \A t \in Task : WF_vars(Due(t)) /\ WF_vars(HeartbeatExpires(t))

FairSpec == Spec /\ Fairness
=============================================================================
