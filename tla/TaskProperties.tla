--------------------------- MODULE TaskProperties ---------------------------
(* What the task table promises, stated over TaskWorkers. *)
EXTENDS TaskWorkers

\* Executing: the coroutine may still store an outcome of the row.
Executing(w, t) == coro[w][t].pc \in {"waiting", "running", "persist"}

\* A root closed as FINISHED or FINISHED_WITH_ERROR has nothing left to wait
\* for: every subtask is terminal, no blocking one failed, and FINISHED also
\* excludes a non-blocking failure (_parent_status_for_successful_root and the
\* two subtask handlers).  It takes that a root inserts its subtasks once, that no
\* heartbeat is late and that no batch is left behind.
SettledRoots ==
    \A r \in Root : status[r] \in {"FINISHED", "FINISHED_WITH_ERROR"} =>
        /\ ~Pending(Kids(r), status)
        /\ ~FailedBlocking(Kids(r), status)
        /\ status[r] = "FINISHED" => ~FailedNonBlocking(Kids(r), status)

\* Why SettledRoots holds, first part.  As long as no heartbeat is late and no
\* batch is left behind, a LINEAR root is in one batch at most; the row is held
\* while it is executed and WAITING or terminal afterwards, so a root that closed
\* inserts no subtask.
RootLease ==
    \A w \in Worker, r \in Root \ Cyclical :
        /\ coro[w][r].pc \in {"none", "waiting", "running", "persist", "done"}
        /\ Executing(w, r) => status[r] \in HeldStatus
        /\ coro[w][r].pc = "done" =>
               \/ status[r] \in TerminalStatus \cup {"WAITING"}
               \/ status[r] \in HeldStatus /\ mode[w] = "requeue"
        /\ r \in Batch(w) => r \notin expired /\ \A v \in Worker : r \in Batch(v) => v = w

\* Why SettledRoots holds, second part.  Between the count and the close the
\* verdict stays right, if a root inserts its subtasks once: nothing is pending, and
\* no failure it denies is there.
VerdictsHold ==
    \A w \in Worker, c \in Subtask :
        /\ coro[w][c].pc \in {"count", "close"} => status[c] # Absent
        /\ coro[w][c].pc = "close" =>
               /\ ~Pending(Kids(Parent[c]), status)
               /\ coro[w][c].arg # "FAILED" => ~FailedBlocking(Kids(Parent[c]), status)
               /\ coro[w][c].arg = "FINISHED" => ~FailedNonBlocking(Kids(Parent[c]), status)

\* A WAITING root is never abandoned: a subtask is still open, or the worker of
\* the last one is still on its way to close the root.
WaitingHasCloser ==
    \A r \in Root : status[r] = "WAITING" =>
        \/ Pending(Kids(r), status)
        \/ \E w \in Worker, c \in ChildrenOf(r) :
               coro[w][c].pc \in {"failParent", "count", "close"}

\* The lease: while a worker executes a row, no other worker can lock it before
\* its heartbeat is older than the zombie timeout, which takes a stop, a late
\* heartbeat or a batch left behind.
LeaseProtectsRow ==
    \A w \in Worker, t \in Task : Executing(w, t) /\ IsRunnable(t) => t \in expired

\* At most one worker executes a row, under the conditions of the lease.
Exclusive ==
    \A t \in Task, v, w \in Worker : Executing(v, t) /\ Executing(w, t) => v = w

\* Each iteration of a cyclical row is counted once, under the conditions of the
\* lease: current_executions is the number of stored results and never passes
\* max_executions.
IterationsAreCounted ==
    \A t \in Cyclical :
        /\ execs[t] = results[t]
        /\ MaxExecutions[t] # NoLimit => results[t] <= MaxExecutions[t]

\* A LINEAR subtask has at most one result, however often and by however many
\* workers and batches left behind it is executed.
OneResultPerSubtask ==
    \A c \in Subtask \ Cyclical : results[c] <= 1

\* A CANCELLED row was cancelled for a reason: while nobody pauses a scenario
\* and the poller works, only a blocking failure of a sibling cancels.
CancelledForBlockingFailure ==
    \A t \in Task : status[t] = "CANCELLED" =>
        t \in Subtask /\ FailedBlocking(ChildrenOf(Parent[t]), status)

\* A terminal row never changes again, neither its status nor its results: not by
\* a worker that lost it, nor by a batch left behind.
TerminalIsForever ==
    [][\A t \in Task : status[t] \in TerminalStatus =>
           status'[t] = status[t] /\ results'[t] = results[t]]_vars

\* The worker whose start found the row not QUEUED leaves the row as it is, under
\* the conditions of the lease.
StartMissLeavesRow ==
    [][\A w \in Worker, t \in Task :
           coro[w][t].pc = "persist" /\ coro[w][t].arg = "notQueued"
             /\ coro'[w][t].pc # "persist" => status'[t] = status[t]]_vars

\* The workers implement the abstract table: the count and the close of a root
\* look like one atomic decision, under the conditions of SettledRoots.
Board == INSTANCE TaskBoard WITH
             status <- status, results <- results, deleted <- deleted
ImplementsBoard == Board!Spec

\* Every inserted row reaches a terminal status.
EveryRowSettles ==
    \A t \in Task : status[t] # Absent ~> status[t] \in TerminalStatus

\* A blocking failure ends its root as FAILED.
BlockingFailureReachesRoot ==
    \A c \in Blocking :
        status[c] = "FAILED" /\ status[Parent[c]] \notin TerminalStatus
            ~> status[Parent[c]] = "FAILED"

\* A row that a dead worker or a batch left behind held is locked again or given
\* back, unless an operator deletes it or switches its scenario or the workers
\* off.
NoRowStranded ==
    \A t \in Task : status[t] \in HeldStatus ~>
        \/ status[t] \notin HeldStatus \/ t \in deleted
        \/ ~settings["worker_enabled"] \/ ~settings[ScenarioOf[t]]
=============================================================================
