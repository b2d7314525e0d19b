----------------------------- MODULE TaskStatus -----------------------------
(***************************************************************************)
(* The vocabulary of the task table: its rows, its statuses and the two    *)
(* pure rules that rewrite a status before it is stored -- the cyclical    *)
(* rewrite (worker/core/utils.py) and the rollup of a root over its        *)
(* subtasks (worker/task_repositories/postgres.py).                        *)
(*                                                                         *)
(* A task is a row of sp.tasks.  A root has parent_id NULL; a subtask      *)
(* names its root.  type_task, is_block, max_executions, scenario and      *)
(* parent_id never change after the insert, so they are constants.         *)
(***************************************************************************)
EXTENDS Naturals, FiniteSets

CONSTANTS
    Root,           \* ids of the rows with parent_id NULL
    Subtask,        \* ids of the rows with a parent_id
    Parent,         \* the root of each subtask
    Blocking,       \* the subtasks with is_block
    Cyclical,       \* the rows with type_task CYCLICAL, the others are LINEAR
    MaxExecutions,  \* max_executions of each row
    NoLimit,        \* max_executions NULL
    ScenarioOf,     \* the scenario of each row
    Scenario        \* the registered scenarios

Task == Root \cup Subtask

ASSUME TaskAssumption ==
    /\ Root \cap Subtask = {}
    /\ Parent \in [Subtask -> Root]
    /\ Blocking \subseteq Subtask
    /\ Cyclical \subseteq Task
    /\ NoLimit \notin Nat
    /\ MaxExecutions \in [Task -> Nat \cup {NoLimit}]
    /\ ScenarioOf \in [Task -> Scenario]

-----------------------------------------------------------------------------
(* Statuses *)

FailedStatus   == {"FAILED", "FINISHED_WITH_ERROR"}
TerminalStatus == {"FINISHED", "CANCELLED"} \cup FailedStatus
OpenStatus     == {"NEW", "QUEUED", "RUNNING"}
HeldStatus     == {"QUEUED", "RUNNING"}
RowStatus      == {"DRAFT", "WAITING"} \cup OpenStatus \cup TerminalStatus

\* A row that was not inserted yet: no value of the column, only of the model.
Absent == "ABSENT"

ChildrenOf(r) == {c \in Subtask : Parent[c] = r}

-----------------------------------------------------------------------------
(* The cyclical rewrite.  n counts the executions, this one included. *)

\* Slip: one iteration too many.
UnderCapInclusive(t, n) == MaxExecutions[t] = NoLimit \/ n <= MaxExecutions[t]

UnderCap(t, n) == MaxExecutions[t] = NoLimit \/ n < MaxExecutions[t]

ExecutionsAfter(t, n) == IF t \in Cyclical THEN n + 1 ELSE n

\* A successful iteration below the cap goes back to NEW, all else is stored
\* as it is.
CyclicalRewrite(t, candidate, n) ==
    IF t \in Cyclical /\ candidate = "FINISHED" /\ UnderCap(t, ExecutionsAfter(t, n))
    THEN "NEW"
    ELSE candidate

-----------------------------------------------------------------------------
(* Rollup.  Both rules look at the statuses st of the rows kids, the       *)
(* subtasks of one root that exist and are not soft-deleted.               *)

Pending(kids, st)           == \E c \in kids : st[c] \notin TerminalStatus
FailedBlocking(kids, st)    == \E c \in kids \cap Blocking : st[c] \in FailedStatus
FailedNonBlocking(kids, st) == \E c \in kids \ Blocking : st[c] \in FailedStatus

\* Slip: a non-blocking failure is not told apart from success.
ClosingStatusTwoWay(kids, st) == IF FailedBlocking(kids, st) THEN "FAILED" ELSE "FINISHED"

\* What a root with no pending subtask ends as.
ClosingStatus(kids, st) ==
    IF FailedBlocking(kids, st) THEN "FAILED"
    ELSE IF FailedNonBlocking(kids, st) THEN "FINISHED_WITH_ERROR"
    ELSE "FINISHED"

\* Slip: a pending subtask wins over a blocking failure.
SuccessfulRootWaitsFirst(kids, st) ==
    IF Pending(kids, st) THEN "WAITING" ELSE ClosingStatus(kids, st)

\* What a root whose own pipeline succeeded is stored as: a blocking failure
\* wins over WAITING, or it would be forgotten when the root closes later.
SuccessfulRootStatus(kids, st) ==
    IF Pending(kids, st) /\ ~FailedBlocking(kids, st) THEN "WAITING"
    ELSE ClosingStatus(kids, st)
=============================================================================
