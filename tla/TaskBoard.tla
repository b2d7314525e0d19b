------------------------------ MODULE TaskBoard ------------------------------
(***************************************************************************)
(* The abstract task table: what the rows promise to whoever reads them,   *)
(* without workers, heartbeats, batches or counters.  The point of it is   *)
(* that the outcome of a root is decided atomically from the statuses its  *)
(* subtasks have at that moment.  The workers decide it by a count and a   *)
(* later update in separate transactions; TaskProperties!ImplementsBoard   *)
(* says that nobody can tell, as long as a root inserts its subtasks once, *)
(* no heartbeat is late and no batch is left behind.                       *)
(***************************************************************************)
EXTENDS TaskStatus

VARIABLES status, results,
          deleted    \* the soft-deleted rows, which no rollup looks at

boardVars == <<status, results, deleted>>

Kids(r) == {c \in ChildrenOf(r) \ deleted : status[c] # Absent}

Move(S, s) == status' = [t \in Task |-> IF t \in S THEN s ELSE status[t]]

Init ==
    /\ status = [t \in Task |-> IF t \in Root THEN "NEW" ELSE Absent]
    /\ results = [t \in Task |-> 0]
    /\ deleted = {}

\* A running root inserts its subtasks, all at once.
Insert(r, S) ==
    /\ status[r] = "RUNNING" /\ \A c \in ChildrenOf(r) : status[c] = Absent
    /\ S # {} /\ S \subseteq ChildrenOf(r)
    /\ Move(S, "NEW")
    /\ UNCHANGED <<results, deleted>>

\* Rows are handed to a worker: new ones, and those of a worker that is lost.
Take(S) ==
    /\ \A t \in S : status[t] \in OpenStatus
    /\ Move(S, "QUEUED")
    /\ UNCHANGED <<results, deleted>>

Begin(t) ==
    /\ status[t] = "QUEUED"
    /\ Move({t}, "RUNNING")
    /\ UNCHANGED <<results, deleted>>

\* Rows that are not terminal are given back when a worker stops.
GiveBack(S) ==
    /\ \A t \in S : status[t] \notin TerminalStatus \cup {Absent}
    /\ Move(S, "NEW")
    /\ UNCHANGED <<results, deleted>>

\* An execution of t ends as s: again NEW only for a cyclical row, and
\* FINISHED only for a subtask -- a root that succeeded completes.
Record(t, s) ==
    /\ status[t] \notin TerminalStatus \cup {Absent}
    /\ \/ s \in {"FAILED", "CANCELLED"}
       \/ s = "NEW" /\ t \in Cyclical
       \/ s = "FINISHED" /\ t \in Subtask
    /\ Move({t}, s)
    /\ results' = [results EXCEPT ![t] = @ + 1]
    /\ UNCHANGED deleted

\* The own pipeline of root r succeeded: rollup, and a blocking failure takes
\* the open subtasks down with the root.
Complete(r) ==
    LET verdict == SuccessfulRootStatus(Kids(r), status)
    IN  /\ status[r] \notin TerminalStatus \cup {Absent}
        /\ status' = [t \in Task |->
               IF t = r THEN verdict
               ELSE IF verdict = "FAILED" /\ t \in Kids(r) /\ status[t] \in OpenStatus THEN "CANCELLED"
               ELSE status[t]]
        /\ results' = [results EXCEPT ![r] = @ + 1]
        /\ UNCHANGED deleted

\* The last subtask of a WAITING root is terminal: the root closes.  Subtasks
\* that are deleted at that moment may or may not have been counted.
Close(r) ==
    /\ status[r] = "WAITING" /\ ~Pending(Kids(r), status)
    /\ \E gone \in SUBSET (ChildrenOf(r) \cap deleted) :
           Move({r}, ClosingStatus(Kids(r) \cup gone, status))
    /\ UNCHANGED <<results, deleted>>

\* A blocking subtask failed: the root does not wait for the others.
FailWaiting(r) ==
    /\ status[r] = "WAITING" /\ FailedBlocking(ChildrenOf(r), status)
    /\ Move({r}, "FAILED")
    /\ UNCHANGED <<results, deleted>>

CancelOpen(r) ==
    /\ FailedBlocking(ChildrenOf(r), status)
    /\ Move({c \in Kids(r) : status[c] \in OpenStatus}, "CANCELLED")
    /\ UNCHANGED <<results, deleted>>

Delete(t) ==
    /\ deleted' = deleted \cup {t}
    /\ UNCHANGED <<status, results>>

Next ==
    \/ \E r \in Root : \/ \E S \in SUBSET ChildrenOf(r) : Insert(r, S)
                       \/ Complete(r) \/ Close(r) \/ FailWaiting(r) \/ CancelOpen(r)
    \/ \E S \in SUBSET Task : Take(S) \/ GiveBack(S)
    \/ \E t \in Task : Begin(t) \/ Delete(t) \/ \E s \in RowStatus : Record(t, s)

Spec == Init /\ [][Next]_boardVars
=============================================================================
