------------------------------ MODULE TaskStore ------------------------------
(***************************************************************************)
(* PostgresTaskStorage: the rows of sp.tasks, sp.results and sp.settings   *)
(* and the statements the workers run on them.  Each operator is one       *)
(* transaction, hence one atomic step of the worker that runs it; the      *)
(* statuses read and written are those of its WHERE and SET clauses.       *)
(***************************************************************************)
EXTENDS TaskStatus

VARIABLES
    status,    \* tasks.status, or Absent
    execs,     \* tasks.current_executions
    results,   \* how many rows of sp.results name the task
    expired,   \* rows whose heartbeat is older than the zombie timeout
    delayed,   \* rows whose next_run_at is still ahead
    deleted,   \* rows with deleted_at set
    settings   \* worker_enabled and pipeline_active_{scenario}

storeVars == <<status, execs, results, expired, delayed, deleted, settings>>

Flag == {"worker_enabled"} \cup Scenario

StoreTypeOK ==
    /\ status \in [Task -> RowStatus \cup {Absent}]
    /\ execs \in [Task -> Nat]
    /\ results \in [Task -> Nat]
    /\ expired \subseteq Task
    /\ delayed \subseteq Task
    /\ deleted \subseteq Task
    /\ settings \in [Flag -> BOOLEAN]

\* Roots are inserted as NEW by create_task or the broker ingress, and
\* ensure_worker_settings inserts every flag as "1".
StoreInit ==
    /\ status = [t \in Task |-> IF t \in Root THEN "NEW" ELSE Absent]
    /\ execs = [t \in Task |-> 0]
    /\ results = [t \in Task |-> 0]
    /\ expired = {}
    /\ delayed = {}
    /\ deleted = {}
    /\ settings = [f \in Flag |-> TRUE]

\* The subtasks of r the counting query sees.
Kids(r) == {c \in ChildrenOf(r) : status[c] # Absent /\ c \notin deleted}

\* Slip: held rows are selected whatever their heartbeat.
IsRunnableNoCutoff(t) ==
    /\ t \notin deleted
    /\ settings["worker_enabled"] /\ settings[ScenarioOf[t]]
    /\ \/ status[t] = "NEW" /\ t \notin delayed
       \/ status[t] \in HeldStatus

\* Slip: zombies are never selected.
IsRunnableNewOnly(t) ==
    /\ t \notin deleted
    /\ settings["worker_enabled"] /\ settings[ScenarioOf[t]]
    /\ status[t] = "NEW" /\ t \notin delayed

IsRunnable(t) ==
    /\ t \notin deleted
    /\ settings["worker_enabled"]
    /\ settings[ScenarioOf[t]]
    /\ \/ status[t] = "NEW" /\ t \notin delayed
       \/ status[t] \in HeldStatus /\ t \in expired

Runnable == {t \in Task : IsRunnable(t)}

-----------------------------------------------------------------------------
(* The statements.  SetStatus moves the rows S to status s. *)

SetStatus(S, s) == status' = [t \in Task |-> IF t \in S THEN s ELSE status[t]]

\* Slip: the heartbeat is set, the status is not.
LockRunnableHeartbeatOnly(S) ==
    /\ S \subseteq Runnable
    /\ expired' = expired \ S
    /\ UNCHANGED <<status, execs, results, delayed, deleted, settings>>

\* UPDATE ... SET status = QUEUED over the rows S of the inner SELECT.
LockRunnable(S) ==
    /\ S \subseteq Runnable
    /\ SetStatus(S, "QUEUED")
    /\ expired' = expired \ S
    /\ UNCHANGED <<execs, results, delayed, deleted, settings>>

\* set_task_running on a row that is still QUEUED.
SetTaskRunning(t) ==
    /\ status[t] = "QUEUED"
    /\ SetStatus({t}, "RUNNING")
    /\ expired' = expired \ {t}
    /\ UNCHANGED <<execs, results, delayed, deleted, settings>>

TouchHeartbeats(S) ==
    /\ expired' = expired \ {t \in S : status[t] \in HeldStatus}
    /\ UNCHANGED <<status, execs, results, delayed, deleted, settings>>

\* Slip: no rollup, a root is stored as its pipeline ended.
StoredStatusAsIs(t, candidate, n) == CyclicalRewrite(t, candidate, n)

\* The status insert_result_and_update_task writes for t: the cyclical rewrite
\* of candidate, then for a root that is still FINISHED the rollup.
StoredStatus(t, candidate, n) ==
    LET rewritten == CyclicalRewrite(t, candidate, n)
    IN  IF t \in Root /\ rewritten = "FINISHED"
        THEN SuccessfulRootStatus(Kids(t), status)
        ELSE rewritten

\* The open subtasks a rollup to FAILED cancels in the same transaction.
CancelledByRollup(t, candidate, n) ==
    IF /\ t \in Root
       /\ CyclicalRewrite(t, candidate, n) = "FINISHED"
       /\ StoredStatus(t, candidate, n) = "FAILED"
    THEN {c \in Kids(t) : status[c] \in OpenStatus}
    ELSE {}

\* Slip: the row is stored even if it is terminal.
InsertResultUnguarded(t, candidate, n) ==
    LET stored == StoredStatus(t, candidate, n)
        victims == CancelledByRollup(t, candidate, n)
    IN  /\ status' = [u \in Task |-> IF u = t THEN stored
                                     ELSE IF u \in victims THEN "CANCELLED"
                                     ELSE status[u]]
        /\ execs' = [execs EXCEPT ![t] = ExecutionsAfter(t, n)]
        /\ results' = [results EXCEPT ![t] = @ + 1]
        /\ UNCHANGED <<expired, delayed, deleted, settings>>

\* insert_result_and_update_task on a row that is not terminal: status,
\* counters, a result row and the rollup commit together.
InsertResultAndUpdate(t, candidate, n) ==
    LET stored == StoredStatus(t, candidate, n)
        victims == CancelledByRollup(t, candidate, n)
    IN  /\ status[t] \notin TerminalStatus
        /\ status' = [u \in Task |-> IF u = t THEN stored
                                     ELSE IF u \in victims THEN "CANCELLED"
                                     ELSE status[u]]
        /\ execs' = [execs EXCEPT ![t] = ExecutionsAfter(t, n)]
        /\ results' = [results EXCEPT ![t] = @ + 1]
        /\ delayed' = IF t \in Cyclical /\ stored = "NEW"
                      THEN delayed \cup {t} ELSE delayed \ {t}
        /\ UNCHANGED <<expired, deleted, settings>>

\* Slip: the update does not look at the status of the root.
CloseWaitingUnguarded(r, s) ==
    /\ SetStatus({r}, s)
    /\ UNCHANGED <<execs, results, expired, delayed, deleted, settings>>

\* fail_waiting_parent and close_waiting_parent: only a WAITING root moves.
CloseWaiting(r, s) ==
    /\ SetStatus({r} \cap {t \in Task : status[t] = "WAITING"}, s)
    /\ UNCHANGED <<execs, results, expired, delayed, deleted, settings>>

CancelOpenSubtasks(r) ==
    /\ SetStatus({c \in Kids(r) : status[c] \in OpenStatus}, "CANCELLED")
    /\ UNCHANGED <<execs, results, expired, delayed, deleted, settings>>

\* Slip: terminal rows are given back too.
RequeueAll(S) ==
    /\ SetStatus(S, "NEW")
    /\ expired' = expired \ S
    /\ UNCHANGED <<execs, results, delayed, deleted, settings>>

\* requeue_incomplete_tasks: every row of S that is not terminal, heartbeat NULL.
RequeueIncomplete(S) ==
    LET incomplete == {t \in S : status[t] \notin TerminalStatus}
    IN  /\ SetStatus(incomplete, "NEW")
        /\ expired' = expired \ incomplete
        /\ UNCHANGED <<execs, results, delayed, deleted, settings>>

\* A plugin inserts subtask rows in one transaction.
InsertSubtasks(S) ==
    /\ SetStatus(S, "NEW")
    /\ UNCHANGED <<execs, results, expired, delayed, deleted, settings>>

-----------------------------------------------------------------------------
(* What happens to the rows without a worker. *)

\* next_run_at <= now().
BecomeDue(t) ==
    /\ t \in delayed
    /\ delayed' = delayed \ {t}
    /\ UNCHANGED <<status, execs, results, expired, deleted, settings>>

\* The zombie timeout passes without a heartbeat.
HeartbeatAges(t) ==
    /\ status[t] \in HeldStatus
    /\ t \notin expired
    /\ expired' = expired \cup {t}
    /\ UNCHANGED <<status, execs, results, delayed, deleted, settings>>

\* An operator flips worker_enabled or pipeline_active_{scenario}.
ToggleSetting(f) ==
    /\ settings' = [settings EXCEPT ![f] = ~@]
    /\ UNCHANGED <<status, execs, results, expired, delayed, deleted>>

\* Host SQL sets deleted_at: nothing in the library does.
SoftDelete(t) ==
    /\ status[t] # Absent
    /\ t \notin deleted
    /\ deleted' = deleted \cup {t}
    /\ UNCHANGED <<status, execs, results, expired, delayed, settings>>
=============================================================================
