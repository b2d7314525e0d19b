---------------------------- MODULE TaskBoardProofs ----------------------------
(***************************************************************************)
(* What the task table promises beyond SettledRoots, for every value of    *)
(* the constants: rows are cancelled for a reason, a row is executed by    *)
(* one worker, a WAITING root is never abandoned, and the workers          *)
(* implement TaskBoard.  Each theorem names the faults it excludes.        *)
(***************************************************************************)
EXTENDS TaskRollupProofs

-----------------------------------------------------------------------------
(* A coroutine that stored its row. *)

\* The row a coroutine stored is terminal and explains the call that is next;
\* the status it will close its root with has a failure to show for it.
StoredBy(w, t) ==
    /\ coro[w][t].pc \in {"failParent", "cancelSiblings"} =>
           t \in Blocking /\ status[t] = "FAILED"
    /\ coro[w][t].pc = "count" =>
           /\ t \in Subtask /\ status[t] = coro[w][t].arg
           /\ status[t] = "FINISHED" \/ (status[t] = "FAILED" /\ t \notin Blocking)
    /\ coro[w][t].pc = "close" =>
           /\ t \in Subtask /\ status[t] \in {"FINISHED", "FAILED"}
           /\ coro[w][t].arg = "FAILED" => FailedBlocking(ChildrenOf(Parent[t]), status)
           /\ coro[w][t].arg = "FINISHED_WITH_ERROR" =>
                  FailedNonBlocking(ChildrenOf(Parent[t]), status)

CallsFollowRows == \A w \in Worker, t \in Task : StoredBy(w, t)

\* Nobody paused a scenario and no poller failed, so no task is cancelled.
NobodyCancels ==
    /\ \A f \in Flag : settings[f]
    /\ \A w \in Worker, t \in Task : ~coro[w][t].cancel

-----------------------------------------------------------------------------
(* The lease of every row. *)

\* A row in flight was cancelled by a sibling, was stored already, or is still
\* as the lock and the start left it.
LeasedTo(w, t) ==
    t \in InFlight(w) =>
        \/ status[t] \in TerminalStatus
        \/ /\ status[t] \in HeldStatus /\ t \notin expired
           /\ coro[w][t].pc = "waiting" => status[t] = "QUEUED"
           /\ coro[w][t].pc = "persist" => coro[w][t].arg # "notQueued"
           /\ coro[w][t].execs = execs[t]

OneFlight == \A t \in Task, v, w \in Worker : t \in InFlight(v) /\ t \in InFlight(w) => v = w

Leases == (\A w \in Worker, t \in Task : LeasedTo(w, t)) /\ OneFlight

\* The first execution asks for no cap.
Ceiling(t) == IF MaxExecutions[t] = 0 THEN 1 ELSE MaxExecutions[t]

\* A cyclical row that will be executed again is below its cap.
IterationsLeft ==
    \A t \in Cyclical :
        /\ execs[t] = results[t]
        /\ MaxExecutions[t] # NoLimit =>
               /\ results[t] <= Ceiling(t)
               /\ status[t] \in OpenStatus \cup {Absent} => results[t] < Ceiling(t)

-----------------------------------------------------------------------------
(* Roots that wait. *)

\* A blocking failure still has to reach its root, or the root does not wait.
FailuresArrive ==
    \A c \in Blocking : status[c] = "FAILED" =>
        status[Parent[c]] # "WAITING" \/ \E w \in Worker : coro[w][c].pc = "failParent"

\* The row of a LINEAR root whose pipeline runs.
RunningRoots ==
    \A w \in Worker, r \in Root \ Cyclical : coro[w][r].pc = "running" => status[r] = "RUNNING"

-----------------------------------------------------------------------------
(* What the steps of a coroutine write. *)

LEMMA GotoSets ==
    ASSUME TypeInv, NEW w \in Worker, NEW t \in Task, NEW pc, NEW arg, Goto(w, t, pc, arg)
    PROVE  /\ coro'[w][t].pc = pc
           /\ pc # "done" => /\ coro'[w][t].arg = arg
                             /\ coro'[w][t].execs = coro[w][t].execs
                             /\ coro'[w][t].err = coro[w][t].err
                             /\ coro'[w][t].cancel <=> coro[w][t].cancel
<1>c. coro \in [Worker -> [Task -> Coroutine]]
  BY DEF TypeInv, TypeOK
<1>1. CASE pc = "done"
  BY <1>1, <1>c DEF Goto, DoneCoroutine, NoCoroutine
<1>2. CASE pc # "done"
  <2>1. coro' = [coro EXCEPT ![w][t] = [@ EXCEPT !.pc = pc, !.arg = arg]]
    BY <1>2 DEF Goto
  <2>2. QED
    BY <1>c, <2>1 DEF Coroutine
<1>3. QED
  BY <1>1, <1>2

LEMMA ErrorSets ==
    ASSUME TypeInv, NEW w \in Worker, NEW t \in Task, NEW arg, GotoError(w, t, arg)
    PROVE  /\ coro'[w][t].pc = "persist" /\ coro'[w][t].arg = arg
           /\ coro'[w][t].execs = coro[w][t].execs
           /\ coro'[w][t].cancel <=> coro[w][t].cancel
BY DEF TypeInv, TypeOK, GotoError, Coroutine

\* What an execution may leave in the row of a subtask.
LEMMA SubtaskStored ==
    ASSUME TaskAssumption, NEW c \in Subtask, NEW candidate \in Outcome, NEW k
    PROVE  StoredStatus(c, candidate, k) \in {candidate, "NEW"}
BY DEF TaskAssumption, StoredStatus, CyclicalRewrite

\* Where Persist goes: a root is done, a subtask looks at its parent unless it
\* was cancelled or goes back to NEW.
LEMMA PersistGoes ==
    ASSUME TaskAssumption, TypeInv, NEW w \in Worker, NEW t \in Task, Persist(w, t)
    PROVE  /\ coro[w][t].pc = "persist" /\ Candidate(w, t) \in Outcome
           /\ status[t] \notin TerminalStatus
           /\ status'[t] = StoredStatus(t, Candidate(w, t), coro[w][t].execs)
           /\ \/ coro'[w][t].pc = "done" /\ (t \in Root \/ status'[t] \notin {"FAILED", "FINISHED"})
              \/ /\ coro'[w][t].pc = "failParent" /\ t \in Blocking /\ status'[t] = "FAILED"
              \/ /\ coro'[w][t].pc = "count" /\ t \in Subtask /\ coro'[w][t].arg = status'[t]
                 /\ status'[t] = "FINISHED" \/ (status'[t] = "FAILED" /\ t \notin Blocking)
<1> DEFINE s == status'[t]
<1>1. /\ coro[w][t].pc = "persist" /\ Candidate(w, t) \in Outcome
      /\ status[t] \notin TerminalStatus
      /\ status'[t] = StoredStatus(t, Candidate(w, t), coro[w][t].execs)
  BY CandidateType DEF TypeInv, TypeOK, StoreTypeOK, Persist, InsertResultAndUpdate
<1>2. AfterStore(w, t, s)
  BY DEF Persist
<1>3. CASE t \in Root \/ s \notin {"FAILED", "FINISHED"}
  <2>1. ~(t \in Blocking /\ s = "FAILED")
    BY <1>3 DEF TaskAssumption
  <2>2. Goto(w, t, "done", "")
    BY <1>2, <1>3, <2>1 DEF AfterStore
  <2>3. coro'[w][t].pc = "done"
    BY <2>2, GotoSets
  <2>4. QED
    BY <1>1, <1>3, <2>3
<1>4. CASE ~(t \in Root \/ s \notin {"FAILED", "FINISHED"}) /\ t \in Blocking /\ s = "FAILED"
  <2>1. Goto(w, t, "failParent", s)
    BY <1>2, <1>4 DEF AfterStore
  <2>2. QED
    BY <1>1, <1>4, <2>1, GotoSets
<1>5. CASE ~(t \in Root \/ s \notin {"FAILED", "FINISHED"}) /\ ~(t \in Blocking /\ s = "FAILED")
  <2>1. Goto(w, t, "count", s)
    BY <1>2, <1>5 DEF AfterStore
  <2>2. t \in Subtask
    BY <1>5 DEF Task
  <2>3. QED
    BY <1>1, <1>5, <2>1, <2>2, GotoSets
<1>6. QED
  BY <1>3, <1>4, <1>5

\* The place of a coroutine after each of its steps but Persist.
LEMMA MoveGoes ==
    ASSUME TypeInv, NEW w \in Worker, NEW t \in Task, CoroutineMoves(w, t)
    PROVE  \/ Persist(w, t)
           \/ Start(w, t) /\ coro'[w][t].pc = "running"
           \/ StartMisses(w, t) /\ coro'[w][t].pc = "persist"
           \/ /\ Raise(w, t) \/ PipelineReturns(w, t) \/ CallFails(w, t)
              /\ coro'[w][t].pc = "persist" /\ coro'[w][t].arg # "notQueued"
           \/ PersistSkipped(w, t) /\ coro'[w][t].pc = "done"
           \/ /\ t \in Subtask
              /\ \/ FailParent(w, t) /\ coro'[w][t].pc = "cancelSiblings"
                 \/ CancelSiblings(w, t) /\ coro'[w][t].pc = "done"
                 \/ CountSiblings(w, t) /\ coro'[w][t].pc \in {"close", "done"}
                 \/ CloseParent(w, t) /\ coro'[w][t].pc = "done"
<1>1. CASE Start(w, t)
  BY <1>1, GotoSets DEF Start
<1>2. CASE StartMisses(w, t)
  BY <1>2, ErrorSets DEF StartMisses
<1>3. CASE Raise(w, t) \/ CallFails(w, t)
  BY <1>3, ErrorSets DEF Raise, CallFails
<1>4. CASE PipelineReturns(w, t)
  BY <1>4, GotoSets DEF PipelineReturns
<1>5. CASE PersistSkipped(w, t)
  <2>1. Goto(w, t, "done", "")
    BY <1>5 DEF PersistSkipped
  <2>2. coro'[w][t].pc = "done"
    BY <2>1, GotoSets
  <2>3. QED
    BY <1>5, <2>2
<1>6. CASE t \in Subtask /\ FailParent(w, t)
  BY <1>6, GotoSets DEF FailParent
<1>7. CASE t \in Subtask /\ (CancelSiblings(w, t) \/ CloseParent(w, t))
  <2>1. Goto(w, t, "done", "")
    BY <1>7 DEF CancelSiblings, CloseParent
  <2>2. coro'[w][t].pc = "done"
    BY <2>1, GotoSets
  <2>3. QED
    BY <1>7, <2>2
<1>8. CASE t \in Subtask /\ CountSiblings(w, t)
  <2>1. \/ Goto(w, t, "close", ClosingStatus(Kids(Parent[t]), status))
        \/ Goto(w, t, "done", "")
    BY <1>8 DEF CountSiblings
  <2>2. coro'[w][t].pc \in {"close", "done"}
    <3>1. CASE Goto(w, t, "close", ClosingStatus(Kids(Parent[t]), status))
      <4>1. coro'[w][t].pc = "close"
        BY <3>1, GotoSets
      <4>2. QED
        BY <4>1
    <3>2. CASE Goto(w, t, "done", "")
      <4>1. coro'[w][t].pc = "done"
        BY <3>2, GotoSets
      <4>2. QED
        BY <4>1
    <3>3. QED
      BY <2>1, <3>1, <3>2
  <2>3. QED
    BY <1>8, <2>2
<1>9. QED
  BY <1>1, <1>2, <1>3, <1>4, <1>5, <1>6, <1>7, <1>8 DEF CoroutineMoves

\* A failure among the subtasks of a root is there for good.
LEMMA FailuresStay ==
    ASSUME TaskAssumption, TypeInv, [Next]_vars, NEW r
    PROVE  /\ FailedBlocking(ChildrenOf(r), status) => FailedBlocking(ChildrenOf(r), status)'
           /\ FailedNonBlocking(ChildrenOf(r), status) => FailedNonBlocking(ChildrenOf(r), status)'
<1>1. \A c \in ChildrenOf(r) : status[c] \in FailedStatus => status'[c] = status[c]
  BY NextIsStoreStep, StoreStepKeepsTerminal, Statuses DEF TypeInv, TypeOK, ChildrenOf, Task
<1>2. QED
  BY <1>1 DEF FailedBlocking, FailedNonBlocking

LEMMA TerminalStays ==
    ASSUME TaskAssumption, TypeInv, [Next]_vars, NEW t \in Task, status[t] \in TerminalStatus
    PROVE  status'[t] = status[t]
BY NextIsStoreStep, StoreStepKeepsTerminal DEF TypeInv, TypeOK

LEMMA StepCallsFollowRows ==
    ASSUME TaskAssumption, TypeInv, CallsFollowRows, [Next]_vars
    PROVE  CallsFollowRows'
<1>1. SUFFICES ASSUME NEW w \in Worker, NEW t \in Task PROVE StoredBy(w, t)'
  BY DEF CallsFollowRows
<1>2. StoredBy(w, t)
  BY DEF CallsFollowRows
<1>t. {"FAILED", "FINISHED"} \subseteq TerminalStatus
  BY DEF TerminalStatus, FailedStatus
<1>3. CASE coro'[w][t].pc \in {"none", "waiting", "running", "persist", "done"}
  BY <1>3 DEF StoredBy
<1>4. CASE CoroutineStays(w, t)
  <2>1. coro[w][t].pc \in {"failParent", "cancelSiblings", "count", "close"}
            => status'[t] = status[t]
    BY <1>2, <1>t, TerminalStays DEF StoredBy
  <2>2. QED
    BY <1>2, <1>4, <2>1, FailuresStay DEF StoredBy, CoroutineStays
<1>5. CASE Persist(w, t)
  BY <1>5, PersistGoes DEF StoredBy
<1>6. CASE t \in Subtask /\ FailParent(w, t) /\ coro'[w][t].pc = "cancelSiblings"
  <2>1. status'[t] = status[t]
    BY <1>2, <1>6, <1>t, TerminalStays DEF StoredBy, FailParent
  <2>2. QED
    BY <1>2, <1>6, <2>1 DEF StoredBy, FailParent
<1>7. CASE t \in Subtask /\ CountSiblings(w, t) /\ coro'[w][t].pc = "close"
  <2> DEFINE verdict == ClosingStatus(Kids(Parent[t]), status)
  <2>1. Goto(w, t, "close", verdict) \/ Goto(w, t, "done", "")
    BY <1>7 DEF CountSiblings
  <2>2. coro'[w][t].arg = verdict
    <3>1. CASE Goto(w, t, "close", verdict)
      BY <3>1, GotoSets
    <3>2. CASE Goto(w, t, "done", "")
      <4>1. coro'[w][t].pc = "done"
        BY <3>2, GotoSets
      <4>2. QED
        BY <1>7, <4>1
    <3>3. QED
      BY <2>1, <3>1, <3>2
  <2>3. UNCHANGED status
    BY <1>7 DEF CountSiblings, storeVars
  <2>4. /\ verdict = "FAILED" => FailedBlocking(Kids(Parent[t]), status)
        /\ verdict = "FINISHED_WITH_ERROR" => FailedNonBlocking(Kids(Parent[t]), status)
    BY DEF ClosingStatus
  <2>5. Kids(Parent[t]) \subseteq ChildrenOf(Parent[t])
    BY DEF Kids
  <2>6. /\ verdict = "FAILED" => FailedBlocking(ChildrenOf(Parent[t]), status)
        /\ verdict = "FINISHED_WITH_ERROR" => FailedNonBlocking(ChildrenOf(Parent[t]), status)
    BY <2>4, <2>5 DEF FailedBlocking, FailedNonBlocking
  <2>7. coro[w][t].pc = "count"
    BY <1>7 DEF CountSiblings
  <2>8. QED
    BY <1>2, <1>7, <2>2, <2>3, <2>6, <2>7, FailuresStay DEF StoredBy
<1>8. CoroutineMoves(w, t) =>
          \/ coro'[w][t].pc \in {"none", "waiting", "running", "persist", "done"}
          \/ Persist(w, t)
          \/ t \in Subtask /\ FailParent(w, t) /\ coro'[w][t].pc = "cancelSiblings"
          \/ t \in Subtask /\ CountSiblings(w, t) /\ coro'[w][t].pc = "close"
  BY MoveGoes
<1>9. QED
  BY <1>3, <1>4, <1>5, <1>6, <1>7, <1>8, AnyCoroutineChange
-----------------------------------------------------------------------------
(* What a step does to the row of a subtask. *)

\* A blocking failure cancels the open row of c: together with the root that
\* completes, or after the root was told.
Cancels(c) ==
    /\ status[c] \in OpenStatus /\ status'[c] = "CANCELLED"
    /\ FailedBlocking(ChildrenOf(Parent[c]), status)
    /\ \/ \E w \in Worker : Persist(w, Parent[c]) /\ status'[Parent[c]] = "FAILED"
       \/ \E w \in Worker, b \in Subtask : Parent[b] = Parent[c] /\ CancelSiblings(w, b)

SubtaskMoves(c) ==
    \/ \E w \in Worker, S \in SUBSET Task : Fetch(w, S) /\ c \in S
    \/ \E w \in Worker : Start(w, c) \/ Persist(w, c)
    \/ \E w \in Worker : Requeue(w) /\ c \in Batch(w) /\ status[c] \notin TerminalStatus
    \/ \E w \in Worker, S \in SUBSET ChildrenOf(Parent[c]) : Spawn(w, Parent[c], S) /\ c \in S
    \/ Cancels(c)

LEMMA RollupCancels ==
    ASSUME TaskAssumption, TypeInv, NEW w \in Worker, NEW t \in Task, Persist(w, t),
           NEW c \in CancelledByRollup(t, Candidate(w, t), coro[w][t].execs)
    PROVE  /\ c \in Subtask /\ t = Parent[c] /\ t \in Root /\ status[c] \in OpenStatus
           /\ status'[t] = "FAILED" /\ FailedBlocking(ChildrenOf(t), status)
<1> DEFINE s == StoredStatus(t, Candidate(w, t), coro[w][t].execs)
<1>1. /\ t \in Root /\ s = "FAILED" /\ c \in Kids(t) /\ status[c] \in OpenStatus
      /\ CyclicalRewrite(t, Candidate(w, t), coro[w][t].execs) = "FINISHED"
  BY DEF CancelledByRollup
<1>2. SuccessfulRootStatus(Kids(t), status) = "FAILED"
  BY <1>1 DEF StoredStatus
<1>3. FailedBlocking(Kids(t), status)
  BY <1>2 DEF SuccessfulRootStatus, ClosingStatus
<1>4. FailedBlocking(ChildrenOf(t), status)
  BY <1>3 DEF FailedBlocking, Kids
<1>5. status'[t] = "FAILED"
  BY <1>1, PersistGoes
<1>6. c \in Subtask /\ t = Parent[c]
  BY <1>1 DEF Kids, ChildrenOf
<1>7. QED
  BY <1>1, <1>4, <1>5, <1>6

LEMMA SubtaskChange ==
    ASSUME TaskAssumption, TypeInv, CallsFollowRows, [Next]_vars, NEW c \in Subtask
    PROVE  status'[c] = status[c] \/ SubtaskMoves(c)
<1> DEFINE Goal == status'[c] = status[c] \/ SubtaskMoves(c)
<1>t. /\ status \in [Task -> RowStatus \cup {Absent}] /\ c \in Task
      /\ Parent[c] \in Root /\ c \notin Root
  BY DEF TypeInv, TypeOK, StoreTypeOK, Task, TaskAssumption
<1> USE DEF SetStatus
<1>1. ASSUME NEW w \in Worker, WorkerStep(w) PROVE Goal
  <2>1. ASSUME NEW S \in SUBSET Task, Fetch(w, S) PROVE Goal
    BY <1>t, <2>1 DEF Fetch, LockRunnable, SubtaskMoves
  <2>2. CASE Requeue(w)
    BY <1>t, <2>2 DEF Requeue, RequeueIncomplete, SubtaskMoves
  <2>3. CASE \/ BatchEnds(w) \/ OrphansEnd(w) \/ PollWorkerDisabled(w) \/ PollRound(w)
             \/ ShutdownTimeout(w) \/ Restart(w)
    BY <2>3 DEF BatchEnds, OrphansEnd, PollWorkerDisabled, PollRound, TouchHeartbeats,
       ShutdownTimeout, Restart, storeVars
  <2>4. QED
    BY <1>1, <2>1, <2>2, <2>3 DEF WorkerStep
<1>2. ASSUME NEW w \in Worker, NEW t \in Task, CoroutineStep(w, t) PROVE Goal
  <2>1. CASE Start(w, t)
    BY <1>t, <2>1 DEF Start, SetTaskRunning, SubtaskMoves
  <2>2. CASE Persist(w, t)
    <3>1. CASE t = c
      BY <2>2, <3>1 DEF SubtaskMoves
    <3>2. CASE t # c /\ c \in CancelledByRollup(t, Candidate(w, t), coro[w][t].execs)
      <4>1. status'[c] = "CANCELLED"
        BY <1>t, <2>2, <3>2 DEF Persist, InsertResultAndUpdate
      <4>2. /\ t = Parent[c] /\ status[c] \in OpenStatus /\ status'[t] = "FAILED"
            /\ FailedBlocking(ChildrenOf(t), status)
        BY <2>2, <3>2, RollupCancels
      <4>3. Cancels(c)
        BY <2>2, <4>1, <4>2 DEF Cancels
      <4>4. QED
        BY <4>3 DEF SubtaskMoves
    <3>3. CASE t # c /\ c \notin CancelledByRollup(t, Candidate(w, t), coro[w][t].execs)
      BY <1>t, <2>2, <3>3 DEF Persist, InsertResultAndUpdate
    <3>4. QED
      BY <3>1, <3>2, <3>3
  <2>3. CASE t \in Subtask /\ (FailParent(w, t) \/ CloseParent(w, t))
    <3>1. c # Parent[t]
      BY <1>t, <2>3 DEF TaskAssumption
    <3>2. QED
      BY <1>t, <2>3, <3>1 DEF FailParent, CloseParent, CloseWaiting
  <2>4. CASE t \in Subtask /\ CancelSiblings(w, t)
    <3>1. CASE c \in Kids(Parent[t]) /\ status[c] \in OpenStatus
      <4>1. Parent[c] = Parent[t] /\ status'[c] = "CANCELLED"
        BY <1>t, <2>4, <3>1 DEF CancelSiblings, CancelOpenSubtasks, Kids, ChildrenOf
      <4>2. t \in Blocking /\ status[t] = "FAILED"
        BY <2>4 DEF CancelSiblings, CallsFollowRows, StoredBy
      <4>3. FailedBlocking(ChildrenOf(Parent[c]), status)
        BY <2>4, <4>1, <4>2 DEF FailedBlocking, FailedStatus, ChildrenOf
      <4>4. Cancels(c)
        BY <2>4, <3>1, <4>1, <4>3 DEF Cancels
      <4>5. QED
        BY <4>4 DEF SubtaskMoves
    <3>2. CASE ~(c \in Kids(Parent[t]) /\ status[c] \in OpenStatus)
      BY <1>t, <2>4, <3>2 DEF CancelSiblings, CancelOpenSubtasks
    <3>3. QED
      BY <3>1, <3>2
  <2>5. CASE StartMisses(w, t) \/ Raise(w, t) \/ PipelineReturns(w, t) \/ PersistSkipped(w, t)
             \/ CountSiblings(w, t)
    BY <2>5 DEF StartMisses, Raise, PipelineReturns, PersistSkipped, CountSiblings, storeVars
  <2>6. QED
    BY <1>2, <2>1, <2>2, <2>3, <2>4, <2>5 DEF CoroutineStep
<1>3. ASSUME NEW w \in Worker, NEW q \in Root, NEW S \in SUBSET ChildrenOf(q), Spawn(w, q, S)
      PROVE  Goal
  <2>1. CASE c \in S
    <3>1. q = Parent[c]
      BY <2>1 DEF ChildrenOf
    <3>2. QED
      BY <1>3, <2>1, <3>1 DEF SubtaskMoves
  <2>2. CASE c \notin S
    BY <1>t, <1>3, <2>2 DEF Spawn, InsertSubtasks
  <2>3. QED
    BY <2>1, <2>2
<1>4. ASSUME NEW t \in Task, Due(t) \/ HeartbeatExpires(t) PROVE Goal
  BY <1>4 DEF Due, HeartbeatExpires, BecomeDue, HeartbeatAges
<1>5. CASE FaultStep
  BY <1>5 DEF FaultStep, Stop, Crash, PollFails, RequeueFails, CallFails, BatchAborts, Toggle,
     ToggleSetting, Delete, SoftDelete, HeartbeatLate, HeartbeatAges, storeVars
<1>6. CASE UNCHANGED vars
  BY <1>6 DEF vars, storeVars
<1>7. QED
  BY <1>1, <1>2, <1>3, <1>4, <1>5, <1>6 DEF Next
-----------------------------------------------------------------------------
(* Who is cancelled, and why. *)

\* Only the poller sets a cancel event, and not without a reason.
PollCancels(w, t) ==
    \/ PollWorkerDisabled(w)
    \/ PollRound(w) /\ ~settings[ScenarioOf[t]]
    \/ PollFails(w)

LEMMA CancelChange ==
    ASSUME TypeInv, [Next]_vars, NEW w \in Worker, NEW t \in Task, coro'[w][t].cancel
    PROVE  coro[w][t].cancel \/ PollCancels(w, t)
<1> DEFINE Goal == coro[w][t].cancel \/ PollCancels(w, t)
<1>c. coro \in [Worker -> [Task -> Coroutine]]
  BY DEF TypeInv, TypeOK
<1>n. ~NoCoroutine.cancel /\ ~DoneCoroutine.cancel
  BY DEF NoCoroutine, DoneCoroutine
<1>1. ASSUME NEW v \in Worker, Forget(v) \/ ProcessEnds(v) PROVE Goal
  <2>1. coro'[w] = coro[w] \/ coro'[w] = [u \in Task |-> NoCoroutine]
    BY <1>1, <1>c DEF Forget, ProcessEnds
  <2>2. CASE coro'[w] = coro[w]
    BY <2>2
  <2>3. CASE coro'[w] = [u \in Task |-> NoCoroutine]
    BY <1>n, <2>3
  <2>4. QED
    BY <2>1, <2>2, <2>3
<1>2. ASSUME NEW v \in Worker, NEW u \in Task, CoroutineStep(v, u) \/ CallFails(v, u) PROVE Goal
  <2>1. PICK pc, arg : Goto(v, u, pc, arg) \/ GotoError(v, u, arg)
    BY <1>2, StepGoes
  <2>2. CASE v # w \/ u # t
    <3>1. coro'[w][t] = coro[w][t]
      BY <2>1, <2>2, OthersStay
    <3>2. QED
      BY <3>1
  <2>3. CASE v = w /\ u = t /\ GotoError(w, t, arg)
    <3>1. coro'[w][t].cancel <=> coro[w][t].cancel
      BY <2>3, ErrorSets
    <3>2. QED
      BY <3>1
  <2>4. ASSUME Goto(w, t, pc, arg), pc # "done" PROVE coro'[w][t].cancel <=> coro[w][t].cancel
    BY <2>4, GotoSets
  <2>5. CASE v = w /\ u = t /\ Goto(w, t, "done", arg)
    BY <2>5, <1>c DEF Goto, DoneCoroutine, NoCoroutine
  <2>6. QED
    BY <2>1, <2>2, <2>3, <2>4, <2>5
<1>3. ASSUME NEW v \in Worker, WorkerStep(v) PROVE Goal
  <2>1. ASSUME NEW S \in SUBSET Task, Fetch(v, S) PROVE Goal
    BY <2>1, <1>c DEF Fetch, Fetched, NoCoroutine
  <2>2. CASE BatchEnds(v) \/ OrphansEnd(v) \/ Requeue(v)
    BY <1>1, <2>2 DEF BatchEnds, OrphansEnd, Requeue
  <2>3. CASE PollWorkerDisabled(v)
    BY <2>3, <1>c DEF PollWorkerDisabled, CancelCoroutines, PollCancels
  <2>4. CASE PollRound(v)
    BY <2>4, <1>c DEF PollRound, CancelCoroutines, PollCancels
  <2>5. CASE ShutdownTimeout(v)
    BY <2>5, <1>c DEF ShutdownTimeout, DoneCoroutine, NoCoroutine
  <2>6. CASE Restart(v)
    BY <2>6 DEF Restart
  <2>7. QED
    BY <1>3, <2>1, <2>2, <2>3, <2>4, <2>5, <2>6 DEF WorkerStep
<1>4. CASE (\E u \in Task : Due(u) \/ HeartbeatExpires(u)) \/ UNCHANGED vars
  BY <1>4 DEF Due, HeartbeatExpires, workerVars, vars
<1>6. ASSUME NEW v \in Worker, NEW r \in Root, NEW S \in SUBSET ChildrenOf(r), Spawn(v, r, S)
      PROVE  Goal
  <2>1. r \in Task /\ Goto(v, r, "running", "spawned")
    BY <1>6 DEF Spawn, Task
  <2>2. CASE v # w \/ r # t
    <3>1. coro'[w][t] = coro[w][t]
      BY <2>1, <2>2, OthersStay
    <3>2. QED
      BY <3>1
  <2>3. CASE v = w /\ r = t
    BY <2>1, <2>3, GotoSets
  <2>4. QED
    BY <2>2, <2>3
<1>5. CASE FaultStep
  <2>1. ASSUME NEW v \in Worker, Stop(v) \/ Crash(v) \/ RequeueFails(v) PROVE Goal
    BY <1>1, <2>1 DEF Stop, Crash, RequeueFails
  <2>2. ASSUME NEW v \in Worker, PollFails(v) PROVE Goal
    BY <2>2, <1>c DEF PollFails, CancelCoroutines, PollCancels
  <2>3. ASSUME NEW v \in Worker, NEW u \in Task, CallFails(v, u) \/ BatchAborts(v, u) PROVE Goal
    <3>1. CASE BatchAborts(v, u)
      <4>1. coro' = [coro EXCEPT ![v][u] = DoneCoroutine]
        BY <3>1 DEF BatchAborts
      <4>2. coro'[w][t] = coro[w][t] \/ coro'[w][t] = DoneCoroutine
        BY <1>c, <4>1
      <4>3. QED
        BY <1>n, <4>2
    <3>2. QED
      BY <1>2, <2>3, <3>1
  <2>4. CASE (\E f \in Flag : Toggle(f)) \/ (\E u \in Task : Delete(u) \/ HeartbeatLate(u))
    BY <2>4 DEF Toggle, Delete, HeartbeatLate, workerVars
  <2>5. QED
    BY <1>5, <2>1, <2>2, <2>3, <2>4 DEF FaultStep
<1>7. QED
  BY <1>2, <1>3, <1>4, <1>5, <1>6 DEF Next

\* Only an operator flips a flag.
LEMMA SettingsChange ==
    ASSUME TypeInv, [Next]_vars
    PROVE  UNCHANGED settings \/ \E f \in Flag : Toggle(f)
<1>1. ASSUME NEW w \in Worker, WorkerStep(w) PROVE UNCHANGED settings
  BY <1>1 DEF WorkerStep, Fetch, LockRunnable, BatchEnds, OrphansEnd, PollWorkerDisabled,
     PollRound, TouchHeartbeats, ShutdownTimeout, Requeue, RequeueIncomplete, Restart, storeVars
<1>2. ASSUME NEW w \in Worker, NEW t \in Task, CoroutineStep(w, t) PROVE UNCHANGED settings
  BY <1>2 DEF CoroutineStep, Start, SetTaskRunning, StartMisses, Raise, PipelineReturns, Persist,
     InsertResultAndUpdate, PersistSkipped, FailParent, CloseWaiting, CancelSiblings,
     CancelOpenSubtasks, CountSiblings, CloseParent, storeVars
<1>3. CASE \/ \E w \in Worker, r \in Root : \E S \in SUBSET ChildrenOf(r) : Spawn(w, r, S)
           \/ \E t \in Task : Due(t) \/ HeartbeatExpires(t)
           \/ UNCHANGED vars
  BY <1>3 DEF Spawn, InsertSubtasks, Due, BecomeDue, HeartbeatExpires, HeartbeatAges, vars,
     storeVars
<1>4. CASE FaultStep
  BY <1>4 DEF FaultStep, Stop, Crash, CallFails, BatchAborts, PollFails, RequeueFails, Delete,
     SoftDelete, HeartbeatLate, HeartbeatAges, storeVars
<1>5. QED
  BY <1>1, <1>2, <1>3, <1>4 DEF Next

LEMMA StepNobodyCancels ==
    ASSUME TaskAssumption, TypeInv, NobodyCancels, [Next]_vars,
           {"pause", "dberror"} \cap Faults = {}
    PROVE  NobodyCancels'
<1>1. UNCHANGED settings
  BY SettingsChange DEF Toggle, Fault
<1>2. ASSUME NEW w \in Worker, NEW t \in Task, coro'[w][t].cancel PROVE FALSE
  <2>1. PollCancels(w, t)
    BY <1>2, CancelChange DEF NobodyCancels
  <2>2. settings["worker_enabled"] /\ settings[ScenarioOf[t]]
    BY DEF NobodyCancels, Flag, TaskAssumption
  <2>3. QED
    BY <2>1, <2>2 DEF PollCancels, PollWorkerDisabled, PollFails, Fault
<1>3. QED
  BY <1>1, <1>2 DEF NobodyCancels

\* An execution that nobody cancels is not stored as CANCELLED.
LEMMA UncancelledOutcome ==
    ASSUME TaskAssumption, TypeInv, NobodyCancels, NEW w \in Worker, NEW t \in Task, Persist(w, t)
    PROVE  /\ Candidate(w, t) \in {"FINISHED", "FAILED"}
           /\ status'[t] # "CANCELLED"
<1>1. Candidate(w, t) \in {"FINISHED", "FAILED"}
  BY DEF Persist, TypeInv, CoroutineOK, Candidate, NobodyCancels
<1>2. StoredStatus(t, Candidate(w, t), coro[w][t].execs) # "CANCELLED"
  BY <1>1 DEF StoredStatus, CyclicalRewrite, SuccessfulRootStatus, ClosingStatus
<1>3. QED
  BY <1>1, <1>2, PersistGoes

LEMMA StepCancelled ==
    ASSUME TaskAssumption, TypeInv, NobodyCancels, CallsFollowRows, CancelledForBlockingFailure,
           [Next]_vars
    PROVE  CancelledForBlockingFailure'
<1>1. SUFFICES ASSUME NEW t \in Task, status'[t] = "CANCELLED"
               PROVE  t \in Subtask /\ FailedBlocking(ChildrenOf(Parent[t]), status)'
  BY DEF CancelledForBlockingFailure
<1>t. status \in [Task -> RowStatus \cup {Absent}]
  BY DEF TypeInv, TypeOK, StoreTypeOK
<1>2. CASE status[t] = "CANCELLED"
  BY <1>2, FailuresStay DEF CancelledForBlockingFailure
<1>3. ASSUME status[t] # "CANCELLED", t \in Root PROVE FALSE
  <2>1. RootMoves(t)
    BY <1>1, <1>3, RootChange
  <2>2. ASSUME NEW w \in Worker, NEW S \in SUBSET Task, Fetch(w, S), t \in S PROVE FALSE
    BY <1>1, <1>t, <2>2 DEF Fetch, LockRunnable, SetStatus
  <2>3. ASSUME NEW w \in Worker, Start(w, t) \/ Persist(w, t) PROVE FALSE
    BY <1>1, <1>t, <2>3, UncancelledOutcome DEF Start, SetTaskRunning, SetStatus
  <2>4. ASSUME NEW w \in Worker, Requeue(w), t \in Batch(w), status[t] \notin TerminalStatus
        PROVE  FALSE
    BY <1>1, <1>t, <2>4 DEF Requeue, RequeueIncomplete, SetStatus
  <2>5. ASSUME NEW w \in Worker, NEW c \in Subtask, Parent[c] = t,
               FailParent(w, c) \/ CloseParent(w, c), status[t] = "WAITING"
        PROVE  FALSE
    <3>1. CASE FailParent(w, c)
      BY <1>1, <1>t, <2>5, <3>1 DEF FailParent, CloseWaiting, SetStatus
    <3>2. CASE CloseParent(w, c)
      <4>1. coro[w][c].arg # "CANCELLED"
        BY <3>2 DEF CloseParent, TypeInv, CoroutineOK, Task
      <4>2. QED
        BY <1>1, <1>t, <2>5, <3>2, <4>1 DEF CloseParent, CloseWaiting, SetStatus
    <3>3. QED
      BY <2>5, <3>1, <3>2
  <2>6. QED
    BY <2>1, <2>2, <2>3, <2>4, <2>5 DEF RootMoves
<1>4. ASSUME status[t] # "CANCELLED", t \in Subtask PROVE Cancels(t)
  <2>1. SubtaskMoves(t)
    BY <1>1, <1>4, SubtaskChange
  <2>2. ASSUME NEW w \in Worker, NEW S \in SUBSET Task, Fetch(w, S), t \in S PROVE FALSE
    BY <1>1, <1>t, <2>2 DEF Fetch, LockRunnable, SetStatus
  <2>3. ASSUME NEW w \in Worker, Start(w, t) \/ Persist(w, t) PROVE FALSE
    BY <1>1, <1>t, <2>3, UncancelledOutcome DEF Start, SetTaskRunning, SetStatus
  <2>4. ASSUME NEW w \in Worker, Requeue(w), t \in Batch(w), status[t] \notin TerminalStatus
        PROVE  FALSE
    BY <1>1, <1>t, <2>4 DEF Requeue, RequeueIncomplete, SetStatus
  <2>5. ASSUME NEW w \in Worker, NEW S \in SUBSET ChildrenOf(Parent[t]), t \in S,
               Spawn(w, Parent[t], S)
        PROVE  FALSE
    BY <1>1, <1>t, <2>5 DEF Spawn, InsertSubtasks, SetStatus
  <2>6. QED
    BY <2>1, <2>2, <2>3, <2>4, <2>5 DEF SubtaskMoves
<1>5. QED
  BY <1>2, <1>3, <1>4, FailuresStay DEF Task, Cancels

CancelInv == TypeInv /\ CallsFollowRows /\ NobodyCancels /\ CancelledForBlockingFailure

LEMMA InitCancelInv == TaskAssumption /\ WorkerAssumption /\ Init => CancelInv
<1> SUFFICES ASSUME TaskAssumption, WorkerAssumption, Init PROVE CancelInv
  OBVIOUS
<1>1. \A w \in Worker, t \in Task : coro[w][t] = NoCoroutine
  BY DEF Init
<1>2. CallsFollowRows /\ NobodyCancels
  BY <1>1 DEF CallsFollowRows, StoredBy, NobodyCancels, NoCoroutine, Init, StoreInit
<1>3. CancelledForBlockingFailure
  BY DEF CancelledForBlockingFailure, Init, StoreInit, Absent
<1>4. QED
  BY <1>2, <1>3, InitTypeInv DEF CancelInv

\* While nobody pauses a scenario and no call of the poller or of the success path
\* fails, a row is CANCELLED only below a root with a failed blocking subtask,
\* whatever crashes, stops, late heartbeats, deletions and batches left behind
\* there are (cancel_open_subtasks and the rollup of
\* insert_result_and_update_task).
THEOREM CancelledForAReason ==
    ASSUME {"pause", "dberror"} \cap Faults = {}
    PROVE  Spec => []CancelledForBlockingFailure
<1>1. CancelInv /\ [Next]_vars => CancelInv'
  BY TaskAssumption, WorkerAssumption, StepTypeInv, StepCallsFollowRows, StepNobodyCancels,
     StepCancelled DEF CancelInv
<1>2. CancelInv => CancelledForBlockingFailure
  BY DEF CancelInv
<1>3. QED
  BY <1>1, <1>2, InitCancelInv, TaskAssumption, WorkerAssumption, PTL DEF Spec
-----------------------------------------------------------------------------
(* The lease of every row: what a step does to a row in flight. *)

LEMMA RowChange ==
    ASSUME TaskAssumption, TypeInv, CallsFollowRows, [Next]_vars, NEW t \in Task
    PROVE  \/ status'[t] = status[t]
           \/ status'[t] \in TerminalStatus
           \/ status[t] = Absent /\ status'[t] = "NEW"
           \/ \E w \in Worker, S \in SUBSET Task : Fetch(w, S) /\ t \in S
           \/ \E w \in Worker : Start(w, t) \/ Persist(w, t)
           \/ \E w \in Worker : Requeue(w)
<1>1. CASE t \in Root
  BY <1>1, RootChange DEF RootMoves
<1>2. CASE t \in Subtask
  <2>1. Cancels(t) => status'[t] \in TerminalStatus
    BY DEF Cancels, TerminalStatus
  <2>2. ASSUME NEW w \in Worker, NEW S \in SUBSET ChildrenOf(Parent[t]), t \in S,
               Spawn(w, Parent[t], S)
        PROVE  status[t] = Absent /\ status'[t] = "NEW"
    BY <2>2 DEF Spawn, InsertSubtasks, SetStatus
  <2>3. QED
    BY <1>2, <2>1, <2>2, SubtaskChange DEF SubtaskMoves
<1>3. QED
  BY <1>1, <1>2 DEF Task

LEMMA FlightChange ==
    ASSUME TypeInv, [Next]_vars, "abort" \notin Faults,
           NEW w \in Worker, NEW t \in Task, t \in InFlight(w)'
    PROVE  \/ t \in InFlight(w)
           \/ \E S \in SUBSET Task : Fetch(w, S) /\ t \in S
<1>1. coro'[w][t].pc \in {"waiting"} \cup ProgressPc
  BY DEF InFlight
<1>2. CoroutineStays(w, t) => t \in InFlight(w)
  BY <1>1 DEF CoroutineStays, InFlight
<1>3. CoroutineMoves(w, t) => t \in InFlight(w)
  BY DEF CoroutineMoves, Start, Persist, PersistSkipped, StartMisses, Raise, PipelineReturns,
     CallFails, FailParent, CancelSiblings, CountSiblings, CloseParent, ProgressPc, InFlight
<1>4. QED
  BY <1>1, <1>2, <1>3, CoroutineChange DEF ProgressPc

\* A coroutine keeps the counter its lock read.
LEMMA CounterStays ==
    ASSUME TypeInv, [Next]_vars, "abort" \notin Faults, NEW w \in Worker, NEW t \in Task,
           t \in InFlight(w), t \in InFlight(w)'
    PROVE  coro'[w][t].execs = coro[w][t].execs
<1> DEFINE Goal == coro'[w][t].execs = coro[w][t].execs
<1>c. /\ coro \in [Worker -> [Task -> Coroutine]]
      /\ coro[w][t].pc \notin {"none", "done"} /\ coro'[w][t].pc \notin {"none", "done"}
  BY DEF TypeInv, TypeOK, InFlight, ProgressPc
<1>1. ASSUME NEW v \in Worker, Forget(v) \/ ProcessEnds(v) PROVE Goal
  <2>1. Forget(v)
    BY <1>1, EndForgets
  <2>2. CASE v # w
    BY <1>c, <2>1, <2>2 DEF Forget
  <2>3. CASE v = w
    BY <1>c, <2>1, <2>3 DEF Forget, NoCoroutine
  <2>4. QED
    BY <2>2, <2>3
<1>2. ASSUME NEW v \in Worker, NEW S, CancelCoroutines(v, S) PROVE Goal
  BY <1>2, <1>c DEF CancelCoroutines, Coroutine
<1>3. ASSUME NEW v \in Worker, NEW u \in Task, CoroutineStep(v, u) \/ CallFails(v, u) PROVE Goal
  <2>1. PICK pc, arg : Goto(v, u, pc, arg) \/ GotoError(v, u, arg)
    BY <1>3, StepGoes
  <2>2. CASE v # w \/ u # t
    <3>1. coro'[w][t] = coro[w][t]
      BY <2>1, <2>2, OthersStay
    <3>2. QED
      BY <3>1
  <2>3. ASSUME GotoError(w, t, arg) PROVE Goal
    BY <2>3, ErrorSets
  <2>4. ASSUME Goto(w, t, pc, arg) PROVE Goal
    <3>1. pc # "done"
      BY <1>c, <2>4, GotoSets
    <3>2. QED
      BY <2>4, <3>1, GotoSets
  <2>5. QED
    BY <2>1, <2>2, <2>3, <2>4
<1>4. ASSUME NEW v \in Worker, WorkerStep(v) PROVE Goal
  <2>1. ASSUME NEW S \in SUBSET Task, Fetch(v, S) PROVE Goal
    <3>1. v # w
      BY <1>c, <2>1 DEF Fetch, Batch
    <3>2. QED
      BY <1>c, <2>1, <3>1 DEF Fetch
  <2>2. CASE BatchEnds(v) \/ OrphansEnd(v) \/ Requeue(v)
    BY <1>1, <2>2 DEF BatchEnds, OrphansEnd, Requeue
  <2>3. CASE PollWorkerDisabled(v) \/ PollRound(v)
    BY <1>2, <2>3 DEF PollWorkerDisabled, PollRound
  <2>4. CASE ShutdownTimeout(v)
    BY <2>4, <1>c DEF ShutdownTimeout, DoneCoroutine, NoCoroutine
  <2>5. CASE Restart(v)
    BY <2>5 DEF Restart
  <2>6. QED
    BY <1>4, <2>1, <2>2, <2>3, <2>4, <2>5 DEF WorkerStep
<1>5. CASE (\E u \in Task : Due(u) \/ HeartbeatExpires(u)) \/ UNCHANGED vars
  BY <1>5 DEF Due, HeartbeatExpires, workerVars, vars
<1>7. ASSUME NEW v \in Worker, NEW r \in Root, NEW S \in SUBSET ChildrenOf(r), Spawn(v, r, S)
      PROVE  Goal
  <2>1. r \in Task /\ Goto(v, r, "running", "spawned")
    BY <1>7 DEF Spawn, Task
  <2>2. CASE v # w \/ r # t
    <3>1. coro'[w][t] = coro[w][t]
      BY <2>1, <2>2, OthersStay
    <3>2. QED
      BY <3>1
  <2>3. CASE v = w /\ r = t
    BY <2>1, <2>3, GotoSets
  <2>4. QED
    BY <2>2, <2>3
<1>6. CASE FaultStep
  <2>1. ASSUME NEW v \in Worker, Stop(v) \/ Crash(v) \/ RequeueFails(v) \/ PollFails(v) PROVE Goal
    BY <1>1, <1>2, <2>1 DEF Stop, Crash, RequeueFails, PollFails
  <2>2. ASSUME NEW v \in Worker, NEW u \in Task, CallFails(v, u) \/ BatchAborts(v, u) PROVE Goal
    BY <1>3, <2>2 DEF BatchAborts, Fault
  <2>3. CASE (\E f \in Flag : Toggle(f)) \/ (\E u \in Task : Delete(u) \/ HeartbeatLate(u))
    BY <2>3 DEF Toggle, Delete, HeartbeatLate, workerVars
  <2>4. QED
    BY <1>6, <2>1, <2>2, <2>3 DEF FaultStep
<1>8. QED
  BY <1>3, <1>4, <1>5, <1>6, <1>7 DEF Next

\* Only Persist counts an execution.
LEMMA CountsChange ==
    ASSUME TypeInv, [Next]_vars, NEW t \in Task
    PROVE  \/ execs'[t] = execs[t] /\ results'[t] = results[t]
           \/ \E w \in Worker : Persist(w, t)
<1>1. ASSUME NEW w \in Worker, WorkerStep(w) PROVE UNCHANGED <<execs, results>>
  BY <1>1 DEF WorkerStep, Fetch, LockRunnable, BatchEnds, OrphansEnd, PollWorkerDisabled,
     PollRound, TouchHeartbeats, ShutdownTimeout, Requeue, RequeueIncomplete, Restart, storeVars
<1>2. ASSUME NEW w \in Worker, NEW u \in Task, CoroutineStep(w, u)
      PROVE  UNCHANGED <<execs, results>> \/ Persist(w, u)
  BY <1>2 DEF CoroutineStep, Start, SetTaskRunning, StartMisses, Raise, PipelineReturns,
     PersistSkipped, FailParent, CloseWaiting, CancelSiblings,
     CancelOpenSubtasks, CountSiblings, CloseParent, storeVars
<1>3. ASSUME NEW w \in Worker, NEW u \in Task, Persist(w, u), u # t
      PROVE  execs'[t] = execs[t] /\ results'[t] = results[t]
  BY <1>3 DEF Persist, InsertResultAndUpdate, TypeInv, TypeOK, StoreTypeOK
<1>4. CASE \/ \E w \in Worker, r \in Root : \E S \in SUBSET ChildrenOf(r) : Spawn(w, r, S)
           \/ \E u \in Task : Due(u) \/ HeartbeatExpires(u)
           \/ UNCHANGED vars
  BY <1>4 DEF Spawn, InsertSubtasks, Due, BecomeDue, HeartbeatExpires, HeartbeatAges, vars,
     storeVars
<1>5. CASE FaultStep
  BY <1>5 DEF FaultStep, Stop, Crash, CallFails, BatchAborts, PollFails, RequeueFails, Toggle,
     ToggleSetting, Delete, SoftDelete, HeartbeatLate, HeartbeatAges, storeVars
<1>6. QED
  BY <1>1, <1>2, <1>3, <1>4, <1>5 DEF Next

-----------------------------------------------------------------------------
(* The lease of every row. *)

\* A row in flight cannot be locked.
LEMMA FlightNotRunnable ==
    ASSUME Leases, NEW w \in Worker, NEW t \in Task, t \in InFlight(w)
    PROVE  ~IsRunnable(t)
<1>1. status[t] \in TerminalStatus \/ (status[t] \in HeldStatus /\ t \notin expired)
  BY DEF Leases, LeasedTo
<1>2. QED
  BY <1>1, Statuses DEF IsRunnable, OpenStatus, HeldStatus

LEMMA StepOneFlight ==
    ASSUME TypeInv, Leases, [Next]_vars, "abort" \notin Faults
    PROVE  OneFlight'
<1>1. SUFFICES ASSUME NEW t \in Task, NEW v \in Worker, NEW w \in Worker,
                      t \in InFlight(v)', t \in InFlight(w)'
               PROVE  v = w
  BY DEF OneFlight
<1>c. coro \in [Worker -> [Task -> Coroutine]]
  BY DEF TypeInv, TypeOK
<1>2. CASE t \in InFlight(v) /\ t \in InFlight(w)
  BY <1>2 DEF Leases, OneFlight
<1>3. ASSUME NEW x \in Worker, NEW y \in Worker, t \in InFlight(x), NEW S \in SUBSET Task,
             Fetch(y, S), t \in S
      PROVE  FALSE
  BY <1>3, FlightNotRunnable DEF Fetch, LockRunnable, Runnable
<1>4. ASSUME NEW S \in SUBSET Task, Fetch(v, S), t \in S, NEW T \in SUBSET Task, Fetch(w, T),
             t \in T, v # w
      PROVE  FALSE
  <2>1. coro'[v][t] = Fetched(t)
    BY <1>4, <1>c DEF Fetch
  <2>2. coro'[v][t] = coro[v][t]
    BY <1>4, <1>c DEF Fetch
  <2>3. t \notin Batch(v)
    BY <1>4 DEF Fetch
  <2>4. QED
    BY <2>1, <2>2, <2>3 DEF Fetched, NoCoroutine, Batch
<1>5. QED
  BY <1>1, <1>2, <1>3, <1>4, FlightChange

LEMMA FetchLeases ==
    ASSUME TypeInv, NEW w \in Worker, NEW S \in SUBSET Task, Fetch(w, S), NEW t \in S
    PROVE  LeasedTo(w, t)'
<1>1. coro'[w][t] = Fetched(t)
  BY DEF Fetch, TypeInv, TypeOK
<1>2. coro'[w][t].pc = "waiting" /\ coro'[w][t].execs = execs[t]
  BY <1>1 DEF Fetched, NoCoroutine
<1>3. status'[t] = "QUEUED" /\ t \notin expired' /\ execs' = execs
  BY DEF Fetch, LockRunnable, SetStatus
<1>4. QED
  BY <1>2, <1>3 DEF LeasedTo, HeldStatus

\* What becomes of a row that stays in flight.
LEMMA FlightKeepsLease ==
    ASSUME TaskAssumption, TypeInv, CallsFollowRows, NobodyStops, Leases, [Next]_vars,
           {"late", "abort"} \cap Faults = {}, NEW w \in Worker, NEW t \in Task,
           t \in InFlight(w), t \in InFlight(w)'
    PROVE  LeasedTo(w, t)'
<1>l. LeasedTo(w, t) /\ \A v \in Worker : t \in InFlight(v) => v = w
  BY DEF Leases, OneFlight
<1>1. CASE status[t] \in TerminalStatus
  BY <1>1, TerminalStays DEF LeasedTo
<1>2. CASE status[t] \notin TerminalStatus
  <2>1. /\ status[t] \in HeldStatus /\ t \notin expired
        /\ coro[w][t].pc = "waiting" => status[t] = "QUEUED"
        /\ coro[w][t].pc = "persist" => coro[w][t].arg # "notQueued"
        /\ coro[w][t].execs = execs[t]
    BY <1>l, <1>2 DEF LeasedTo
  <2>2. t \notin expired'
    <3>1. t \in HeldBy(w)
      BY DEF HeldBy, NobodyStops
    <3>2. QED
      BY <2>1, <3>1, ExpiredChange
  <2>3. ASSUME NEW v \in Worker, Start(v, t) \/ Persist(v, t) PROVE v = w
    <3>1. t \in InFlight(v)
      BY <2>3 DEF Start, Persist, InFlight, ProgressPc
    <3>2. QED
      BY <1>l, <3>1
  <2>4. CASE Persist(w, t)
    <3>1. coro'[w][t].pc # "done"
      BY DEF InFlight, ProgressPc
    <3>2. status'[t] \in {"FAILED", "FINISHED"}
      BY <2>4, <3>1, PersistGoes
    <3>3. QED
      BY <3>2 DEF LeasedTo, TerminalStatus, FailedStatus
  <2>5. CASE Start(w, t)
    <3>1. coro'[w][t].pc = "running"
      BY <2>5, GotoSets DEF Start
    <3>2. status'[t] = "RUNNING"
      BY <2>5 DEF Start, SetTaskRunning, SetStatus
    <3>3. execs' = execs
      BY <2>5 DEF Start, SetTaskRunning
    <3>4. coro'[w][t].execs = coro[w][t].execs
      BY CounterStays
    <3>5. QED
      BY <2>1, <2>2, <3>1, <3>2, <3>3, <3>4 DEF LeasedTo, HeldStatus
  <2>6. CASE ~Persist(w, t) /\ ~Start(w, t)
    <3>1. execs'[t] = execs[t] /\ coro'[w][t].execs = coro[w][t].execs
      BY <2>3, <2>6, CountsChange, CounterStays
    <3>2. status'[t] = status[t] \/ status'[t] \in TerminalStatus
      <4>1. ASSUME NEW v \in Worker, NEW S \in SUBSET Task, Fetch(v, S), t \in S PROVE FALSE
        BY <4>1, FlightNotRunnable DEF Fetch, LockRunnable, Runnable
      <4>2. ASSUME NEW v \in Worker, Requeue(v) PROVE FALSE
        BY <4>2 DEF Requeue, NobodyStops
      <4>3. status[t] # Absent
        BY <2>1 DEF HeldStatus, Absent
      <4>4. QED
        BY <2>3, <2>6, <4>1, <4>2, <4>3, RowChange
    <3>3. /\ coro'[w][t].pc = "waiting" => coro[w][t].pc = "waiting"
          /\ coro'[w][t].pc = "persist" => coro'[w][t].arg # "notQueued"
      <4>1. CASE CoroutineStays(w, t)
        BY <2>1, <4>1 DEF CoroutineStays
      <4>2. CASE CoroutineMoves(w, t)
        <5>1. ~StartMisses(w, t)
          BY <2>1 DEF StartMisses
        <5>2. QED
          BY <2>6, <4>2, <5>1, MoveGoes
      <4>3. ASSUME NEW S \in SUBSET Task, Fetch(w, S), t \in S PROVE FALSE
        BY <4>3, FlightNotRunnable DEF Fetch, LockRunnable, Runnable
      <4>4. coro'[w][t].pc \notin {"none", "done"}
        BY DEF InFlight, ProgressPc
      <4>5. QED
        BY <4>1, <4>2, <4>3, <4>4, CoroutineChange
    <3>4. QED
      BY <2>1, <2>2, <3>1, <3>2, <3>3 DEF LeasedTo
  <2>7. QED
    BY <2>4, <2>5, <2>6
<1>3. QED
  BY <1>1, <1>2

LEMMA StepLeases ==
    ASSUME TaskAssumption, TypeInv, CallsFollowRows, NobodyStops, Leases, [Next]_vars,
           {"late", "abort"} \cap Faults = {}
    PROVE  Leases'
<1>1. ASSUME NEW w \in Worker, NEW t \in Task PROVE LeasedTo(w, t)'
  <2>1. CASE t \in InFlight(w)' /\ t \in InFlight(w)
    BY <2>1, FlightKeepsLease
  <2>2. CASE \E S \in SUBSET Task : Fetch(w, S) /\ t \in S
    BY <2>2, FetchLeases
  <2>3. CASE t \notin InFlight(w)'
    BY <2>3 DEF LeasedTo
  <2>4. QED
    BY <2>1, <2>2, <2>3, FlightChange
<1>2. QED
  BY <1>1, StepOneFlight DEF Leases

\* The counters of a cyclical row.
LEMMA StepIterationsLeft ==
    ASSUME TaskAssumption, TypeInv, CallsFollowRows, NobodyStops, Leases, IterationsLeft,
           [Next]_vars
    PROVE  IterationsLeft'
<1>1. SUFFICES ASSUME NEW t \in Cyclical
               PROVE  /\ execs'[t] = results'[t]
                      /\ MaxExecutions[t] # NoLimit =>
                             /\ results'[t] <= Ceiling(t)
                             /\ status'[t] \in OpenStatus \cup {Absent} =>
                                    results'[t] < Ceiling(t)
  BY DEF IterationsLeft, Ceiling
<1>t. /\ t \in Task /\ execs[t] \in Nat /\ results[t] \in Nat
      /\ status \in [Task -> RowStatus \cup {Absent}]
      /\ execs \in [Task -> Nat] /\ results \in [Task -> Nat]
      /\ MaxExecutions[t] # NoLimit => MaxExecutions[t] \in Nat /\ Ceiling(t) \in Nat
  BY DEF TypeInv, TypeOK, StoreTypeOK, TaskAssumption, Ceiling
<1>i. /\ execs[t] = results[t]
      /\ MaxExecutions[t] # NoLimit =>
             /\ results[t] <= Ceiling(t)
             /\ status[t] \in OpenStatus \cup {Absent} => results[t] < Ceiling(t)
  BY DEF IterationsLeft
<1>2. ASSUME NEW w \in Worker, Persist(w, t)
      PROVE  /\ execs'[t] = results'[t]
             /\ MaxExecutions[t] # NoLimit =>
                    /\ results'[t] <= Ceiling(t)
                    /\ status'[t] \in OpenStatus \cup {Absent} => results'[t] < Ceiling(t)
  <2> DEFINE s == StoredStatus(t, Candidate(w, t), coro[w][t].execs)
  <2>1. t \in InFlight(w) /\ status[t] \notin TerminalStatus
    BY <1>2, PersistGoes DEF InFlight, ProgressPc, Persist
  <2>2. status[t] \in HeldStatus /\ coro[w][t].execs = execs[t]
    BY <1>t, <2>1 DEF Leases, LeasedTo
  <2>3. execs'[t] = execs[t] + 1 /\ results'[t] = results[t] + 1
    BY <1>2, <1>t, <2>2 DEF Persist, InsertResultAndUpdate, ExecutionsAfter
  <2>4. status'[t] = s /\ Candidate(w, t) \in Outcome
    BY <1>2, <1>t, PersistGoes
  <2>5. s \in OpenStatus \cup {Absent} => UnderCap(t, execs[t] + 1)
    BY <1>t, <2>2, <2>4 DEF StoredStatus, CyclicalRewrite, SuccessfulRootStatus, ClosingStatus,
       ExecutionsAfter, Outcome, OpenStatus, Absent
  <2>6. MaxExecutions[t] # NoLimit => results[t] < Ceiling(t)
    BY <1>i, <2>2, Statuses
  <2>7. MaxExecutions[t] # NoLimit /\ UnderCap(t, execs[t] + 1) => execs[t] + 1 < Ceiling(t)
    BY <1>t DEF UnderCap, Ceiling
  <2>8. QED
    BY <1>t, <1>i, <2>3, <2>4, <2>5, <2>6, <2>7
<1>3. CASE ~ \E w \in Worker : Persist(w, t)
  <2>1. execs'[t] = execs[t] /\ results'[t] = results[t]
    BY <1>3, <1>t, CountsChange
  <2>2. status'[t] \in OpenStatus \cup {Absent} => status[t] \in OpenStatus \cup {Absent}
    <3>1. ASSUME NEW w \in Worker, NEW S \in SUBSET Task, Fetch(w, S), t \in S
          PROVE  status[t] \in OpenStatus
      BY <3>1, Statuses DEF Fetch, LockRunnable, Runnable, IsRunnable, OpenStatus
    <3>2. ASSUME NEW w \in Worker, Start(w, t) PROVE status[t] \in OpenStatus
      BY <3>2 DEF Start, SetTaskRunning, OpenStatus
    <3>3. ASSUME NEW w \in Worker, Requeue(w) PROVE FALSE
      BY <3>3 DEF Requeue, NobodyStops
    <3>4. TerminalStatus \cap (OpenStatus \cup {Absent}) = {}
      BY DEF TerminalStatus, FailedStatus, OpenStatus, Absent
    <3>5. QED
      BY <1>3, <1>t, <3>1, <3>2, <3>3, <3>4, RowChange
  <2>3. QED
    BY <1>i, <2>1, <2>2
<1>4. QED
  BY <1>2, <1>3

LeaseInv == TypeInv /\ CallsFollowRows /\ NobodyStops /\ Leases

LEMMA InitLeaseInv == TaskAssumption /\ WorkerAssumption /\ Init => LeaseInv
<1> SUFFICES ASSUME TaskAssumption, WorkerAssumption, Init PROVE LeaseInv
  OBVIOUS
<1>1. \A w \in Worker, t \in Task : coro[w][t].pc = "none"
  BY DEF Init, NoCoroutine
<1>2. CallsFollowRows /\ Leases
  BY <1>1 DEF CallsFollowRows, StoredBy, Leases, LeasedTo, OneFlight, InFlight, ProgressPc
<1>3. NobodyStops
  BY DEF NobodyStops, Init
<1>4. QED
  BY <1>2, <1>3, InitTypeInv DEF LeaseInv

\* The inductive invariant of the lease.
THEOREM LeaseInvariant ==
    ASSUME {"stop", "late", "abort"} \cap Faults = {}
    PROVE  Spec => []LeaseInv
<1>1. LeaseInv /\ [Next]_vars => LeaseInv'
  BY TaskAssumption, WorkerAssumption, StepTypeInv, StepCallsFollowRows, StepNobodyStops,
     StepLeases DEF LeaseInv
<1>2. QED
  BY <1>1, InitLeaseInv, TaskAssumption, WorkerAssumption, PTL DEF Spec

LEMMA ExecutingInFlight ==
    ASSUME NEW w \in Worker, NEW t \in Task, Executing(w, t)
    PROVE  t \in InFlight(w)
BY DEF Executing, InFlight, ProgressPc

\* While a worker executes a row nobody can lock it, as long as heartbeats are in
\* time, no worker is stopped and no call of on_task_error fails, which would leave
\* a batch behind without heartbeats.  Crashes, errors of the calls before
\* on_task_error, pauses and deletions do not break the lease
\* (lock_runnable_tasks and touch_heartbeats).
THEOREM LeaseHolds ==
    ASSUME {"stop", "late", "abort"} \cap Faults = {}
    PROVE  Spec => []LeaseProtectsRow
<1>1. LeaseInv => LeaseProtectsRow
  BY ExecutingInFlight, FlightNotRunnable DEF LeaseInv, LeaseProtectsRow
<1>2. QED
  BY <1>1, LeaseInvariant, PTL

\* Under the same conditions a row is executed by one worker.
THEOREM OneExecutor ==
    ASSUME {"stop", "late", "abort"} \cap Faults = {}
    PROVE  Spec => []Exclusive
<1>1. LeaseInv => Exclusive
  BY ExecutingInFlight DEF LeaseInv, Leases, OneFlight, Exclusive
<1>2. QED
  BY <1>1, LeaseInvariant, PTL

\* Under the same conditions a worker whose start found the row not QUEUED lost it
\* to a sibling's failure, so the row is terminal and stays as it is
\* (set_task_running and the PipelineCancelledError that follows).
THEOREM MissedStartStoresNothing ==
    ASSUME {"stop", "late", "abort"} \cap Faults = {}
    PROVE  Spec => StartMissLeavesRow
<1>1. LeaseInv /\ [Next]_vars =>
          [\A w \in Worker, t \in Task :
               coro[w][t].pc = "persist" /\ coro[w][t].arg = "notQueued"
                 /\ coro'[w][t].pc # "persist" => status'[t] = status[t]]_vars
  <2>1. SUFFICES ASSUME LeaseInv, Next, NEW w \in Worker, NEW t \in Task,
                        coro[w][t].pc = "persist", coro[w][t].arg = "notQueued"
                 PROVE  status'[t] = status[t]
    BY DEF vars
  <2>2. t \in InFlight(w)
    BY <2>1 DEF InFlight, ProgressPc
  <2>3. status[t] \in TerminalStatus
    BY <2>1, <2>2 DEF LeaseInv, Leases, LeasedTo
  <2>4. QED
    BY <2>1, <2>3, TaskAssumption, TerminalStays DEF LeaseInv
<1>2. QED
  BY <1>1, LeaseInvariant, PTL DEF Spec, StartMissLeavesRow

\* Each iteration counted once, and no more of them than the cap or the one that
\* needs none.
IterationsWithinCeiling ==
    \A t \in Cyclical : /\ execs[t] = results[t]
                        /\ MaxExecutions[t] # NoLimit => results[t] <= Ceiling(t)

\* Under the same conditions each iteration of a cyclical row is counted once and
\* the cap holds, but for a cap of 0, which still allows one execution: the row is
\* locked whatever max_executions says, and the cap is read when the result is
\* stored (get_params_for_cyclical_task, insert_result_and_update_task).
THEOREM IterationsBounded ==
    ASSUME {"stop", "late", "abort"} \cap Faults = {}
    PROVE  Spec => []IterationsWithinCeiling
<1>1. ASSUME Init PROVE IterationsLeft
  <2>1. SUFFICES ASSUME NEW t \in Cyclical
                 PROVE  /\ execs[t] = results[t]
                        /\ MaxExecutions[t] # NoLimit =>
                               results[t] <= Ceiling(t) /\ results[t] < Ceiling(t)
    BY DEF IterationsLeft
  <2>2. t \in Task /\ (MaxExecutions[t] # NoLimit => MaxExecutions[t] \in Nat)
    BY TaskAssumption DEF TaskAssumption
  <2>3. execs[t] = 0 /\ results[t] = 0
    BY <1>1, <2>2 DEF Init, StoreInit
  <2>4. QED
    BY <2>2, <2>3 DEF Ceiling
<1>2. LeaseInv /\ IterationsLeft /\ [Next]_vars => IterationsLeft'
  BY TaskAssumption, StepIterationsLeft DEF LeaseInv
<1>3. IterationsLeft => IterationsWithinCeiling
  BY DEF IterationsLeft, IterationsWithinCeiling
<1>4. QED
  BY <1>1, <1>2, <1>3, LeaseInvariant, PTL DEF Spec

\* Where no cap is 0, it holds as it is written in the scenario.
THEOREM IterationsCounted ==
    ASSUME {"stop", "late", "abort"} \cap Faults = {}, \A t \in Cyclical : MaxExecutions[t] # 0
    PROVE  Spec => []IterationsAreCounted
<1>1. IterationsWithinCeiling => IterationsAreCounted
  BY DEF IterationsWithinCeiling, IterationsAreCounted, Ceiling
<1>2. QED
  BY <1>1, IterationsBounded, PTL

-----------------------------------------------------------------------------
(* Roots that wait, while no fault happens. *)

LEMMA NoFault ==
    ASSUME Faults = {}, FaultStep
    PROVE  FALSE
BY DEF FaultStep, Fault, Stop, Crash, PollFails, RequeueFails, CallFails, BatchAborts, Toggle,
   Delete, HeartbeatLate

LEMMA NothingDeleted ==
    ASSUME [Next]_vars, Faults = {}
    PROVE  UNCHANGED deleted
<1>1. ASSUME NEW w \in Worker, WorkerStep(w) PROVE UNCHANGED deleted
  BY <1>1 DEF WorkerStep, Fetch, LockRunnable, BatchEnds, OrphansEnd, PollWorkerDisabled,
     PollRound, TouchHeartbeats, ShutdownTimeout, Requeue, RequeueIncomplete, Restart, storeVars
<1>2. ASSUME NEW w \in Worker, NEW t \in Task, CoroutineStep(w, t) PROVE UNCHANGED deleted
  BY <1>2 DEF CoroutineStep, Start, SetTaskRunning, StartMisses, Raise, PipelineReturns, Persist,
     InsertResultAndUpdate, PersistSkipped, FailParent, CloseWaiting, CancelSiblings,
     CancelOpenSubtasks, CountSiblings, CloseParent, storeVars
<1>3. CASE \/ \E w \in Worker, r \in Root : \E S \in SUBSET ChildrenOf(r) : Spawn(w, r, S)
           \/ \E t \in Task : Due(t) \/ HeartbeatExpires(t)
           \/ UNCHANGED vars
  BY <1>3 DEF Spawn, InsertSubtasks, Due, BecomeDue, HeartbeatExpires, HeartbeatAges, vars,
     storeVars
<1>4. QED
  BY <1>1, <1>2, <1>3, NoFault DEF Next

\* A root starts to wait when its own execution is stored: something is pending
\* then, and no blocking subtask has failed.
LEMMA StartsToWait ==
    ASSUME TaskAssumption, TypeInv, [Next]_vars, NEW r \in Root,
           status[r] # "WAITING", status'[r] = "WAITING"
    PROVE  ~FailedBlocking(Kids(r), status) /\ Pending(Kids(r), status)'
<1>t. r \in Task /\ status \in [Task -> RowStatus \cup {Absent}]
  BY DEF TypeInv, TypeOK, StoreTypeOK, Task
<1>1. PICK w \in Worker : Persist(w, r)
  <2>1. RootMoves(r)
    BY RootChange
  <2>2. ASSUME NEW w \in Worker, NEW S \in SUBSET Task, Fetch(w, S), r \in S PROVE FALSE
    BY <1>t, <2>2 DEF Fetch, LockRunnable, SetStatus
  <2>3. ASSUME NEW w \in Worker, Start(w, r) PROVE FALSE
    BY <1>t, <2>3 DEF Start, SetTaskRunning, SetStatus
  <2>4. ASSUME NEW w \in Worker, Requeue(w), r \in Batch(w), status[r] \notin TerminalStatus
        PROVE  FALSE
    BY <1>t, <2>4 DEF Requeue, RequeueIncomplete, SetStatus
  <2>5. QED
    BY <2>1, <2>2, <2>3, <2>4 DEF RootMoves
<1> DEFINE s == StoredStatus(r, Candidate(w, r), coro[w][r].execs)
<1>2. s = "WAITING" /\ Candidate(w, r) \in Outcome
  BY <1>1, <1>t, PersistGoes
<1>3. s = SuccessfulRootStatus(Kids(r), status)
  <2>1. CyclicalRewrite(r, Candidate(w, r), coro[w][r].execs) \in Outcome \cup {"NEW"}
    BY <1>2 DEF CyclicalRewrite
  <2>2. QED
    BY <1>2, <2>1 DEF StoredStatus, Outcome
<1>4. Pending(Kids(r), status) /\ ~FailedBlocking(Kids(r), status)
  BY <1>2, <1>3 DEF SuccessfulRootStatus, ClosingStatus
<1>5. CancelledByRollup(r, Candidate(w, r), coro[w][r].execs) = {}
  BY <1>2 DEF CancelledByRollup
<1>6. deleted' = deleted /\ \A c \in Subtask : status'[c] = status[c]
  BY <1>1, <1>t, <1>5 DEF Persist, InsertResultAndUpdate, Task, TaskAssumption
<1>7. Kids(r)' = Kids(r) /\ Kids(r) \subseteq Subtask
  BY <1>6 DEF Kids, ChildrenOf
<1>8. QED
  BY <1>4, <1>6, <1>7 DEF Pending

\* A subtask becomes terminal by its own execution, which nobody cancels, or for a
\* blocking failure.
LEMMA BecomesTerminal ==
    ASSUME TaskAssumption, TypeInv, CallsFollowRows, NobodyStops, NobodyCancels, [Next]_vars,
           NEW c \in Subtask, status[c] \notin TerminalStatus, status'[c] \in TerminalStatus
    PROVE  \/ /\ status'[c] # "CANCELLED"
              /\ \E w \in Worker : /\ Persist(w, c)
                                   /\ coro'[w][c].pc \in {"failParent", "count"}
                                   /\ status'[c] = "FAILED" /\ c \in Blocking
                                          => coro'[w][c].pc = "failParent"
           \/ Cancels(c)
<1>t. c \in Task /\ c \notin Root /\ status \in [Task -> RowStatus \cup {Absent}]
      /\ {"NEW", "QUEUED", "RUNNING"} \cap TerminalStatus = {}
  BY DEF TypeInv, TypeOK, StoreTypeOK, Task, TaskAssumption, TerminalStatus, FailedStatus
<1>1. SubtaskMoves(c)
  BY SubtaskChange
<1>2. ASSUME NEW w \in Worker, NEW S \in SUBSET Task, Fetch(w, S), c \in S PROVE FALSE
  BY <1>t, <1>2 DEF Fetch, LockRunnable, SetStatus
<1>3. ASSUME NEW w \in Worker, Start(w, c) PROVE FALSE
  BY <1>t, <1>3 DEF Start, SetTaskRunning, SetStatus
<1>4. ASSUME NEW w \in Worker, Requeue(w) PROVE FALSE
  BY <1>4 DEF Requeue, NobodyStops
<1>5. ASSUME NEW w \in Worker, NEW S \in SUBSET ChildrenOf(Parent[c]), c \in S,
             Spawn(w, Parent[c], S)
      PROVE  FALSE
  BY <1>t, <1>5 DEF Spawn, InsertSubtasks, SetStatus
<1>6. ASSUME NEW w \in Worker, Persist(w, c)
      PROVE  /\ status'[c] # "CANCELLED" /\ coro'[w][c].pc \in {"failParent", "count"}
             /\ status'[c] = "FAILED" /\ c \in Blocking => coro'[w][c].pc = "failParent"
  <2>1. Candidate(w, c) \in {"FINISHED", "FAILED"}
    BY <1>6, <1>t, UncancelledOutcome
  <2>2. status'[c] = StoredStatus(c, Candidate(w, c), coro[w][c].execs)
    BY <1>6, <1>t, PersistGoes
  <2>3. StoredStatus(c, Candidate(w, c), coro[w][c].execs) \in {Candidate(w, c), "NEW"}
    BY <2>1, SubtaskStored DEF Outcome
  <2>4. status'[c] \in {"FINISHED", "FAILED"}
    BY <1>t, <2>1, <2>2, <2>3
  <2>5. QED
    BY <1>6, <1>t, <2>4, PersistGoes
<1>7. QED
  BY <1>1, <1>2, <1>3, <1>4, <1>5, <1>6 DEF SubtaskMoves
CalmInv ==
    /\ LeaseInv /\ NobodyCancels /\ deleted = {}
    /\ FailuresArrive
    /\ WaitingHasCloser

LEMMA TellingTheRoot ==
    ASSUME TaskAssumption, TypeInv, NEW w \in Worker, NEW c \in Subtask,
           FailParent(w, c) \/ CloseParent(w, c)
    PROVE  status'[Parent[c]] # "WAITING"
<1>t. /\ status \in [Task -> RowStatus \cup {Absent}] /\ Parent[c] \in Task /\ c \in Task
      /\ "WAITING" \notin TerminalStatus
  BY Statuses DEF TypeInv, TypeOK, StoreTypeOK, Task, TaskAssumption
<1>1. CASE FailParent(w, c)
  BY <1>t, <1>1 DEF FailParent, CloseWaiting, SetStatus
<1>2. CASE CloseParent(w, c)
  <2>1. coro[w][c].arg \in TerminalStatus
    BY <1>t, <1>2 DEF CloseParent, TypeInv, CoroutineOK
  <2>2. QED
    BY <1>t, <1>2, <2>1 DEF CloseParent, CloseWaiting, SetStatus
<1>3. QED
  BY <1>1, <1>2

LEMMA NoCallFails ==
    ASSUME Faults = {}, NEW w, NEW t
    PROVE  ~CallFails(w, t)
BY DEF CallFails, Fault

LEMMA StepFailuresArrive ==
    ASSUME TaskAssumption, CalmInv, [Next]_vars, Faults = {}
    PROVE  FailuresArrive'
<1> USE DEF CalmInv, LeaseInv
<1>1. SUFFICES ASSUME NEW c \in Blocking, status'[c] = "FAILED", status'[Parent[c]] = "WAITING"
               PROVE  \E w \in Worker : coro'[w][c].pc = "failParent"
  BY DEF FailuresArrive
<1>t. /\ c \in Subtask /\ c \in Task /\ Parent[c] \in Root /\ "FAILED" \in TerminalStatus
  BY DEF TaskAssumption, Task, TerminalStatus, FailedStatus
<1>2. CASE status[c] = "FAILED"
  <2>1. status[Parent[c]] = "WAITING"
    <3>1. c \in Kids(Parent[c])
      BY <1>t, <1>2 DEF Kids, ChildrenOf, Absent
    <3>2. FailedBlocking(Kids(Parent[c]), status)
      BY <1>2, <3>1 DEF FailedBlocking, FailedStatus
    <3>3. QED
      BY <1>1, <1>t, <3>2, StartsToWait
  <2>2. PICK w \in Worker : coro[w][c].pc = "failParent"
    BY <1>2, <2>1 DEF FailuresArrive
  <2>3. c \in InFlight(w)
    BY <1>t, <2>2 DEF InFlight, ProgressPc
  <2>4. ~FailParent(w, c)
    BY <1>1, <1>t, TellingTheRoot
  <2>5. ~CoroutineMoves(w, c)
    BY <2>2, <2>4, NoCallFails
       DEF CoroutineMoves, Start, Persist, PersistSkipped, StartMisses, Raise, PipelineReturns,
           CancelSiblings, CountSiblings, CloseParent
  <2>6. CoroutineStays(w, c)
    BY <1>t, <2>3, <2>5, FlightGoesOn
  <2>7. QED
    BY <2>2, <2>6 DEF CoroutineStays
<1>3. CASE status[c] # "FAILED"
  <2>1. status[c] \notin TerminalStatus
    BY <1>1, <1>3, <1>t, TerminalStays
  <2>2. ~Cancels(c)
    BY <1>1 DEF Cancels
  <2>3. QED
    BY <1>1, <1>t, <2>1, <2>2, BecomesTerminal
<1>4. QED
  BY <1>2, <1>3

\* A count that does not close found a pending subtask: the subtask that counts
\* would be a failure to report.
LEMMA CountLeavesPending ==
    ASSUME TaskAssumption, CalmInv, NEW w \in Worker, NEW c \in Subtask, CountSiblings(w, c),
           coro'[w][c].pc # "close"
    PROVE  Pending(Kids(Parent[c]), status)'
<1> USE DEF CalmInv, LeaseInv
<1> DEFINE kids == Kids(Parent[c])
           verdict == ClosingStatus(kids, status)
<1>t. c \in Task /\ coro[w][c].pc = "count"
  BY DEF Task, CountSiblings
<1>1. ~Goto(w, c, "close", verdict)
  BY <1>t, GotoSets
<1>2. Pending(kids, status) \/ (coro[w][c].arg # "FINISHED" /\ verdict = "FINISHED")
  BY <1>1 DEF CountSiblings
<1>3. ASSUME coro[w][c].arg # "FINISHED" PROVE verdict # "FINISHED"
  <2>1. status[c] = "FAILED" /\ c \notin Blocking
    BY <1>3, <1>t DEF CallsFollowRows, StoredBy
  <2>2. c \in kids
    BY <2>1 DEF Kids, ChildrenOf, Absent
  <2>3. FailedNonBlocking(kids, status)
    BY <2>1, <2>2 DEF FailedNonBlocking, FailedStatus
  <2>4. QED
    BY <2>3 DEF ClosingStatus
<1>4. UNCHANGED <<status, deleted>>
  BY DEF CountSiblings, storeVars
<1>5. kids' = kids
  BY <1>4 DEF Kids
<1>6. QED
  BY <1>2, <1>3, <1>4, <1>5 DEF Pending

LEMMA StepWaitingHasCloser ==
    ASSUME TaskAssumption, CalmInv, [Next]_vars, Faults = {}
    PROVE  WaitingHasCloser'
<1> USE DEF CalmInv, LeaseInv
<1>1. SUFFICES ASSUME NEW r \in Root, status'[r] = "WAITING"
               PROVE  \/ Pending(Kids(r), status)'
                      \/ \E w \in Worker, c \in ChildrenOf(r) :
                             coro'[w][c].pc \in {"failParent", "count", "close"}
  BY DEF WaitingHasCloser
<1>d. deleted' = {}
  BY NothingDeleted
<1>2. CASE status[r] # "WAITING"
  BY <1>1, <1>2, StartsToWait
<1>3. ASSUME status[r] = "WAITING", NEW c \in Kids(r), status[c] \notin TerminalStatus
      PROVE  \/ Pending(Kids(r), status)'
             \/ \E w \in Worker : coro'[w][c].pc \in {"failParent", "count"}
  <2>t. c \in Subtask /\ c \in Task /\ Parent[c] = r /\ status[c] # Absent
    BY DEF Kids, ChildrenOf, Task
  <2>1. CASE status'[c] \notin TerminalStatus
    <3>1. status'[c] # Absent
      BY <2>t, NextIsStoreStep, StoreStepKeepsRows DEF TypeInv, TypeOK
    <3>2. c \in Kids(r)'
      BY <1>d, <2>t, <3>1 DEF Kids, ChildrenOf
    <3>3. QED
      BY <2>1, <3>2 DEF Pending
  <2>2. CASE status'[c] \in TerminalStatus
    <3>1. ASSUME Cancels(c) PROVE FALSE
      <4>1. PICK w \in Worker, b \in Subtask : Parent[b] = r /\ CancelSiblings(w, b)
        BY <1>1, <2>t, <3>1 DEF Cancels
      <4>2. b \in Task /\ coro[w][b].pc = "cancelSiblings"
        BY <4>1 DEF CancelSiblings, Task
      <4>3. b \in Blocking /\ status[b] = "FAILED"
        BY <4>2 DEF CallsFollowRows, StoredBy
      <4>4. PICK v \in Worker : coro[v][b].pc = "failParent"
        BY <1>3, <4>1, <4>3 DEF FailuresArrive
      <4>5. b \in InFlight(v) /\ b \in InFlight(w)
        BY <4>2, <4>4 DEF InFlight, ProgressPc
      <4>6. v = w
        BY <4>2, <4>5 DEF Leases, OneFlight
      <4>7. QED
        BY <4>2, <4>4, <4>6
    <3>2. QED
      BY <1>3, <2>t, <2>2, <3>1, BecomesTerminal
  <2>3. QED
    BY <2>1, <2>2
<1>4. ASSUME NEW w \in Worker, NEW c \in ChildrenOf(r),
             coro[w][c].pc \in {"failParent", "count", "close"}
      PROVE  \/ Pending(Kids(r), status)'
             \/ coro'[w][c].pc \in {"failParent", "count", "close"}
  <2>t. c \in Subtask /\ c \in Task /\ Parent[c] = r
    BY DEF ChildrenOf, Task
  <2>1. c \in InFlight(w)
    BY <1>4, <2>t DEF InFlight, ProgressPc
  <2>2. CASE CoroutineStays(w, c)
    BY <1>4, <2>2 DEF CoroutineStays
  <2>3. CASE CoroutineMoves(w, c)
    <3>1. ~FailParent(w, c) /\ ~CloseParent(w, c)
      BY <1>1, <2>t, TellingTheRoot
    <3>2. CountSiblings(w, c)
      BY <1>4, <2>3, <3>1, NoCallFails
         DEF CoroutineMoves, Start, Persist, PersistSkipped, StartMisses, Raise, PipelineReturns,
             CancelSiblings
    <3>3. QED
      BY <2>t, <3>2, CountLeavesPending
  <2>4. QED
    BY <2>t, <2>1, <2>2, <2>3, FlightGoesOn
<1>5. CASE status[r] = "WAITING"
  <2>1. CASE Pending(Kids(r), status)
    <3>1. PICK c \in Kids(r) : status[c] \notin TerminalStatus
      BY <2>1 DEF Pending
    <3>2. c \in ChildrenOf(r)
      BY DEF Kids
    <3>3. QED
      BY <1>3, <1>5, <3>1, <3>2
  <2>2. CASE \E w \in Worker, c \in ChildrenOf(r) :
                 coro[w][c].pc \in {"failParent", "count", "close"}
    BY <1>4, <2>2
  <2>3. QED
    BY <1>5, <2>1, <2>2 DEF WaitingHasCloser
<1>6. QED
  BY <1>2, <1>5

\* While no fault happens a WAITING root has an open subtask or a worker on its
\* way to close it, for every number of workers, roots and subtasks and every
\* order of their steps (_handle_subtask_failure and _handle_subtask_finished).
THEOREM WaitingRootsAreClosed ==
    ASSUME Faults = {}
    PROVE  Spec => []WaitingHasCloser
<1>1. Init => CalmInv
  <2>1. SUFFICES ASSUME Init PROVE CalmInv
    OBVIOUS
  <2>2. LeaseInv /\ NobodyCancels
    BY <2>1, TaskAssumption, WorkerAssumption, InitLeaseInv, InitCancelInv DEF CancelInv
  <2>3. deleted = {} /\ \A t \in Task : status[t] \in {"NEW", Absent}
    BY <2>1 DEF Init, StoreInit
  <2>4. FailuresArrive /\ WaitingHasCloser
    BY <2>3, TaskAssumption DEF FailuresArrive, WaitingHasCloser, Task, TaskAssumption, Absent
  <2>5. QED
    BY <2>2, <2>3, <2>4 DEF CalmInv
<1>2. CalmInv /\ [Next]_vars => CalmInv'
  <2>1. SUFFICES ASSUME CalmInv, [Next]_vars PROVE CalmInv'
    OBVIOUS
  <2>2. LeaseInv'
    BY <2>1, TaskAssumption, WorkerAssumption, StepTypeInv, StepCallsFollowRows, StepNobodyStops,
       StepLeases DEF LeaseInv, CalmInv
  <2>3. NobodyCancels' /\ deleted' = {}
    BY <2>1, TaskAssumption, StepNobodyCancels, NothingDeleted DEF LeaseInv, CalmInv
  <2>4. FailuresArrive' /\ WaitingHasCloser'
    BY <2>1, TaskAssumption, StepFailuresArrive, StepWaitingHasCloser
  <2>5. QED
    BY <2>2, <2>3, <2>4 DEF CalmInv
<1>3. CalmInv => WaitingHasCloser
  BY DEF CalmInv
<1>4. QED
  BY <1>1, <1>2, <1>3, PTL DEF Spec
-----------------------------------------------------------------------------
(* The workers implement TaskBoard. *)

LEMMA StepRunningRoots ==
    ASSUME TaskAssumption, TypeInv, RootLease, RunningRoots, [Next]_vars, "abort" \notin Faults
    PROVE  RunningRoots'
<1>1. SUFFICES ASSUME NEW w \in Worker, NEW r \in Root \ Cyclical, coro'[w][r].pc = "running"
               PROVE  status'[r] = "RUNNING"
  BY DEF RunningRoots
<1>t. /\ r \in Task /\ status \in [Task -> RowStatus \cup {Absent}]
      /\ coro \in [Worker -> [Task -> Coroutine]]
  BY DEF TypeInv, TypeOK, StoreTypeOK, Task
<1>s. ASSUME NEW v \in Worker, Start(v, r) PROVE status'[r] = "RUNNING"
  BY <1>t, <1>s DEF Start, SetTaskRunning, SetStatus
<1>2. CASE CoroutineStays(w, r)
  <2>1. coro[w][r].pc = "running" /\ status[r] = "RUNNING" /\ r \in Batch(w)
    BY <1>1, <1>2, <1>t DEF CoroutineStays, RunningRoots, Batch
  <2>2. \A v \in Worker : r \in Batch(v) => v = w
    BY <2>1 DEF RootLease
  <2>3. ASSUME NEW v \in Worker, NEW S \in SUBSET Task, Fetch(v, S), r \in S PROVE FALSE
    BY <2>1, <2>3, LeasedNotRunnable DEF Fetch, LockRunnable, Runnable
  <2>4. ASSUME NEW v \in Worker, Persist(v, r) PROVE FALSE
    <3>1. r \in Batch(v) /\ coro[v][r].pc = "persist"
      BY <1>t, <2>4 DEF Persist, Batch
    <3>2. QED
      BY <2>1, <2>2, <3>1
  <2>5. ASSUME NEW v \in Worker, Requeue(v), r \in Batch(v) PROVE FALSE
    <3>1. v = w /\ Forget(v)
      BY <2>2, <2>5, EndForgets DEF Requeue
    <3>2. coro'[w][r] = NoCoroutine
      BY <1>t, <3>1 DEF Forget
    <3>3. NoCoroutine.pc = "none"
      BY DEF NoCoroutine
    <3>4. QED
      BY <1>1, <3>2, <3>3
  <2>6. QED
    BY <1>s, <2>1, <2>3, <2>4, <2>5, RootChange DEF RootMoves
<1>3. CASE CoroutineMoves(w, r)
  <2>1. Start(w, r)
    <3>1. ~Persist(w, r)
      BY <1>1, <1>t, PersistGoes
    <3>2. QED
      BY <1>1, <1>3, <1>t, <3>1, MoveGoes
  <2>2. QED
    BY <1>s, <2>1
<1>4. QED
  BY <1>1, <1>t, <1>2, <1>3, CoroutineChange

\* TaskBoard has its own copy of the names of TaskStatus.
LEMMA BoardNames ==
    /\ Board!Task = Task /\ Board!Absent = Absent
    /\ Board!RowStatus = RowStatus /\ Board!OpenStatus = OpenStatus
    /\ Board!TerminalStatus = TerminalStatus
    /\ Board!boardVars = <<status, results, deleted>>
    /\ \A r : Board!ChildrenOf(r) = ChildrenOf(r) /\ Board!Kids(r) = Kids(r)
<1>1. Board!Task = Task /\ Board!Absent = Absent /\ Board!boardVars = <<status, results, deleted>>
  BY DEF Board!Task, Task, Board!Absent, Absent, Board!boardVars
<1>2. /\ Board!OpenStatus = OpenStatus /\ Board!TerminalStatus = TerminalStatus
      /\ Board!RowStatus = RowStatus
  BY DEF Board!RowStatus, RowStatus, Board!OpenStatus, OpenStatus, Board!TerminalStatus,
     TerminalStatus, Board!FailedStatus, FailedStatus
<1>3. \A r : Board!ChildrenOf(r) = ChildrenOf(r)
  BY DEF Board!ChildrenOf, ChildrenOf
<1>4. \A r : Board!Kids(r) = Kids(r)
  <2>1. SUFFICES ASSUME NEW r PROVE Board!Kids(r) = Kids(r)
    OBVIOUS
  <2>2. Board!ChildrenOf(r) = ChildrenOf(r)
    BY <1>3
  <2>3. QED
    BY <1>1, <2>2 DEF Board!Kids, Kids
<1>5. QED
  BY <1>1, <1>2, <1>3, <1>4

LEMMA BoardRules ==
    ASSUME NEW kids, NEW st
    PROVE  /\ Board!Pending(kids, st) <=> Pending(kids, st)
           /\ Board!FailedBlocking(kids, st) <=> FailedBlocking(kids, st)
           /\ Board!FailedNonBlocking(kids, st) <=> FailedNonBlocking(kids, st)
           /\ Board!ClosingStatus(kids, st) = ClosingStatus(kids, st)
           /\ Board!SuccessfulRootStatus(kids, st) = SuccessfulRootStatus(kids, st)
<1>1. /\ Board!Pending(kids, st) <=> Pending(kids, st)
      /\ Board!FailedBlocking(kids, st) <=> FailedBlocking(kids, st)
      /\ Board!FailedNonBlocking(kids, st) <=> FailedNonBlocking(kids, st)
  BY DEF Board!Pending, Pending, Board!FailedBlocking, FailedBlocking, Board!FailedNonBlocking,
     FailedNonBlocking, Board!TerminalStatus, TerminalStatus, Board!FailedStatus, FailedStatus
<1>2. Board!ClosingStatus(kids, st) = ClosingStatus(kids, st)
  BY <1>1 DEF Board!ClosingStatus, ClosingStatus
<1>3. QED
  BY <1>1, <1>2 DEF Board!SuccessfulRootStatus, SuccessfulRootStatus

\* SetStatus and Move are the same update.
LEMMA SetMoves ==
    ASSUME NEW S, NEW s, SetStatus(S, s)
    PROVE  Board!Move(S, s)
BY DEF SetStatus, Board!Move, Board!Task, Task

\* Moving no row leaves the column as it is.
LEMMA MoveNone ==
    ASSUME TypeInv, NEW s, SetStatus({}, s)
    PROVE  status' = status
BY DEF SetStatus, TypeInv, TypeOK, StoreTypeOK

BoardInv == RollupInv /\ CallsFollowRows /\ RunningRoots

BoardStep == [Board!Next]_(Board!boardVars)

LEMMA Stutters ==
    ASSUME UNCHANGED <<status, results, deleted>>
    PROVE  BoardStep
BY DEF BoardStep, Board!boardVars

LEMMA TakesBoard ==
    ASSUME BoardInv, NEW S \in SUBSET Task, LockRunnable(S)
    PROVE  BoardStep
<1>1. \A t \in S : status[t] \in OpenStatus
  BY Statuses DEF LockRunnable, Runnable, IsRunnable, OpenStatus
<1>2. Board!Move(S, "QUEUED") /\ UNCHANGED <<results, deleted>>
  BY SetMoves DEF LockRunnable
<1>3. Board!Take(S)
  BY <1>1, <1>2, BoardNames DEF Board!Take
<1>4. Board!Next
  BY <1>3, BoardNames DEF Board!Next
<1>5. QED
  BY <1>4 DEF BoardStep

LEMMA GivesBackBoard ==
    ASSUME BoardInv, NEW w \in Worker, Requeue(w)
    PROVE  BoardStep
<1> DEFINE S == {t \in Batch(w) : status[t] \notin TerminalStatus}
<1>1. \A t \in S : t \in Task /\ status[t] \notin TerminalStatus \cup {Absent}
  BY DEF Batch, BoardInv, RollupInv, RootInv, BatchRowsExist
<1>2. SetStatus(S, "NEW") /\ UNCHANGED <<results, deleted>>
  BY DEF Requeue, RequeueIncomplete
<1>3. Board!GiveBack(S)
  BY <1>1, <1>2, BoardNames, SetMoves DEF Board!GiveBack
<1>4. Board!Next
  BY <1>1, <1>3, BoardNames DEF Board!Next
<1>5. QED
  BY <1>4 DEF BoardStep

LEMMA BeginsBoard ==
    ASSUME NEW t \in Task, SetTaskRunning(t)
    PROVE  BoardStep
<1>1. Board!Begin(t)
  BY SetMoves DEF SetTaskRunning, Board!Begin
<1>2. QED
  BY <1>1, BoardNames DEF BoardStep, Board!Next

LEMMA InsertsBoard ==
    ASSUME BoardInv, FirstSpawns, NEW w \in Worker, NEW r \in Root, NEW S \in SUBSET ChildrenOf(r),
           Spawn(w, r, S)
    PROVE  BoardStep
<1>1. status[r] = "RUNNING"
  BY DEF BoardInv, RunningRoots, Spawn
<1>2. Board!Move(S, "NEW") /\ UNCHANGED <<results, deleted>>
  BY SetMoves DEF Spawn, InsertSubtasks
<1>3. Board!Insert(r, S)
  BY <1>1, <1>2, BoardNames DEF Spawn, FirstSpawns, Board!Insert
<1>4. Board!Next
  BY <1>3, BoardNames DEF Board!Next
<1>5. QED
  BY <1>4 DEF BoardStep

LEMMA DeletesBoard ==
    ASSUME NEW t \in Task, SoftDelete(t)
    PROVE  BoardStep
<1>1. Board!Delete(t)
  BY DEF SoftDelete, Board!Delete
<1>2. QED
  BY <1>1, BoardNames DEF BoardStep, Board!Next
\* A root that succeeded completes.
LEMMA CompletesBoard ==
    ASSUME BoardInv, NEW w \in Worker, NEW r \in Root, Persist(w, r),
           CyclicalRewrite(r, Candidate(w, r), coro[w][r].execs) = "FINISHED"
    PROVE  BoardStep
<1> DEFINE k == coro[w][r].execs
           verdict == SuccessfulRootStatus(Kids(r), status)
           victims == CancelledByRollup(r, Candidate(w, r), k)
<1>t. r \in Task
  BY DEF Task
<1>1. StoredStatus(r, Candidate(w, r), k) = verdict
  BY DEF StoredStatus
<1>2. \A u : u \in victims <=> verdict = "FAILED" /\ u \in Kids(r) /\ status[u] \in OpenStatus
  BY <1>1 DEF CancelledByRollup
<1>3. /\ status' = [u \in Task |-> IF u = r THEN verdict
                                   ELSE IF u \in victims THEN "CANCELLED"
                                   ELSE status[u]]
      /\ status[r] \notin TerminalStatus
      /\ results' = [results EXCEPT ![r] = @ + 1] /\ UNCHANGED deleted
  BY <1>1 DEF Persist, InsertResultAndUpdate
<1>4. status[r] # Absent
  BY <1>t DEF BoardInv, RollupInv, RootInv, BatchRowsExist, Persist
<1>5. status' = [u \in Task |->
                    IF u = r THEN verdict
                    ELSE IF verdict = "FAILED" /\ u \in Kids(r) /\ status[u] \in OpenStatus
                         THEN "CANCELLED"
                    ELSE status[u]]
  BY <1>2, <1>3
<1>6. Board!SuccessfulRootStatus(Board!Kids(r), status) = verdict
  BY BoardNames, BoardRules
<1>7. Board!Complete(r)
  BY <1>3, <1>4, <1>5, <1>6, BoardNames DEF Board!Complete
<1>8. QED
  BY <1>7 DEF BoardStep, Board!Next

\* Every other execution is recorded as it ended.
LEMMA RecordsBoard ==
    ASSUME BoardInv, NEW w \in Worker, NEW t \in Task, Persist(w, t),
           t \notin Root \/ CyclicalRewrite(t, Candidate(w, t), coro[w][t].execs) # "FINISHED"
    PROVE  BoardStep
<1> DEFINE k == coro[w][t].execs
           s == CyclicalRewrite(t, Candidate(w, t), k)
<1>1. StoredStatus(t, Candidate(w, t), k) = s /\ CancelledByRollup(t, Candidate(w, t), k) = {}
  BY DEF StoredStatus, CancelledByRollup
<1>2. Candidate(w, t) \in Outcome
  BY CandidateType DEF Persist, BoardInv, RollupInv, RootInv, TypeInv
<1>3. s \in Outcome \/ (s = "NEW" /\ t \in Cyclical)
  BY <1>2 DEF CyclicalRewrite
<1>4. \/ s \in {"FAILED", "CANCELLED"}
      \/ s = "NEW" /\ t \in Cyclical
      \/ s = "FINISHED" /\ t \in Subtask
  BY <1>3 DEF Outcome, Task
<1>5. /\ status' = [u \in Task |-> IF u \in {t} THEN s ELSE status[u]]
      /\ status[t] \notin TerminalStatus
      /\ results' = [results EXCEPT ![t] = @ + 1] /\ UNCHANGED deleted
  BY <1>1 DEF Persist, InsertResultAndUpdate
<1>6. status[t] # Absent
  BY DEF BoardInv, RollupInv, RootInv, BatchRowsExist, Persist
<1>7. Board!Move({t}, s)
  BY <1>5, SetMoves DEF SetStatus
<1>8. Board!Record(t, s)
  BY <1>4, <1>5, <1>6, <1>7, BoardNames DEF Board!Record
<1>9. s \in RowStatus
  BY <1>3 DEF Outcome, RowStatus, OpenStatus, TerminalStatus, FailedStatus
<1>10. QED
  BY <1>8, <1>9, BoardNames DEF BoardStep, Board!Next

\* A WAITING root is closed with a status its subtasks justify; a root that does
\* not wait stays.
LEMMA FailsBoard ==
    ASSUME TaskAssumption, BoardInv, NEW w \in Worker, NEW c \in Subtask, FailParent(w, c)
    PROVE  BoardStep
<1> DEFINE r == Parent[c]
<1>t. r \in Root /\ r \in Task /\ c \in Task
  BY DEF TaskAssumption, Task
<1>1. c \in Blocking /\ status[c] = "FAILED" /\ c \in ChildrenOf(r)
  BY <1>t DEF FailParent, BoardInv, CallsFollowRows, StoredBy, ChildrenOf
<1>2. FailedBlocking(ChildrenOf(r), status)
  BY <1>1 DEF FailedBlocking, FailedStatus
<1>3. /\ SetStatus({r} \cap {t \in Task : status[t] = "WAITING"}, "FAILED")
      /\ UNCHANGED <<results, deleted>>
  BY DEF FailParent, CloseWaiting
<1>4. CASE status[r] = "WAITING"
  <2>1. {r} \cap {t \in Task : status[t] = "WAITING"} = {r}
    BY <1>4, <1>t
  <2>2. SetStatus({r}, "FAILED")
    BY <1>3, <2>1
  <2>3. Board!Move({r}, "FAILED")
    BY <2>2, SetMoves
  <2>4. Board!FailedBlocking(Board!ChildrenOf(r), status)
    BY <1>2, BoardNames, BoardRules
  <2>5. Board!FailWaiting(r)
    BY <1>3, <1>4, <2>3, <2>4 DEF Board!FailWaiting
  <2>6. QED
    BY <1>t, <2>5 DEF BoardStep, Board!Next
<1>5. CASE status[r] # "WAITING"
  <2>1. {r} \cap {t \in Task : status[t] = "WAITING"} = {}
    BY <1>5
  <2>2. SetStatus({}, "FAILED")
    BY <1>3, <2>1
  <2>3. QED
    BY <1>3, <2>2, MoveNone, Stutters DEF BoardInv, RollupInv, RootInv
<1>6. QED
  BY <1>4, <1>5

LEMMA CancelsBoard ==
    ASSUME TaskAssumption, BoardInv, NEW w \in Worker, NEW c \in Subtask, CancelSiblings(w, c)
    PROVE  BoardStep
<1> DEFINE r == Parent[c]
<1>t. r \in Root /\ c \in Task
  BY DEF TaskAssumption, Task
<1>1. c \in Blocking /\ status[c] = "FAILED" /\ c \in ChildrenOf(r)
  BY <1>t DEF CancelSiblings, BoardInv, CallsFollowRows, StoredBy, ChildrenOf
<1>2. FailedBlocking(ChildrenOf(r), status)
  BY <1>1 DEF FailedBlocking, FailedStatus
<1>3. /\ SetStatus({k \in Kids(r) : status[k] \in OpenStatus}, "CANCELLED")
      /\ UNCHANGED <<results, deleted>>
  BY DEF CancelSiblings, CancelOpenSubtasks
<1>4. Board!Move({k \in Kids(r) : status[k] \in OpenStatus}, "CANCELLED")
  BY <1>3, SetMoves
<1>5. Board!FailedBlocking(Board!ChildrenOf(r), status)
  BY <1>2, BoardNames, BoardRules
<1>6. Board!CancelOpen(r)
  BY <1>3, <1>4, <1>5, BoardNames DEF Board!CancelOpen
<1>7. QED
  BY <1>t, <1>6 DEF BoardStep, Board!Next

\* The verdict was right when the subtasks were counted, and the ones that were
\* deleted since are still there to explain it.
LEMMA VerdictExplained ==
    ASSUME TaskAssumption, BoardInv, NEW w \in Worker, NEW c \in Subtask, coro[w][c].pc = "close"
    PROVE  /\ ~Pending(Kids(Parent[c]), status)
           /\ \E gone \in SUBSET (ChildrenOf(Parent[c]) \cap deleted) :
                  ClosingStatus(Kids(Parent[c]) \cup gone, status) = coro[w][c].arg
<1> DEFINE r == Parent[c]
           arg == coro[w][c].arg
<1>t. c \in Task
  BY DEF Task
<1>1. /\ ~Pending(Kids(r), status)
      /\ arg # "FAILED" => ~FailedBlocking(Kids(r), status)
      /\ arg = "FINISHED" => ~FailedNonBlocking(Kids(r), status)
  BY DEF BoardInv, RollupInv, VerdictsHold
<1>2. arg \in {"FINISHED", "FINISHED_WITH_ERROR", "FAILED"}
  BY <1>t DEF BoardInv, RollupInv, RootInv, TypeInv, CoroutineOK, TerminalStatus, FailedStatus
<1>3. /\ arg = "FAILED" => FailedBlocking(ChildrenOf(r), status)
      /\ arg = "FINISHED_WITH_ERROR" => FailedNonBlocking(ChildrenOf(r), status)
  BY <1>t DEF BoardInv, CallsFollowRows, StoredBy
<1>k. \A d \in ChildrenOf(r) : status[d] \in FailedStatus => d \in Kids(r) \cup ({d} \cap deleted)
  BY DEF Kids, FailedStatus, Absent
<1>4. CASE arg = "FAILED"
  <2>1. PICK d \in ChildrenOf(r) \cap Blocking : status[d] \in FailedStatus
    BY <1>3, <1>4 DEF FailedBlocking
  <2>2. FailedBlocking(Kids(r) \cup ({d} \cap deleted), status)
    BY <1>k, <2>1 DEF FailedBlocking
  <2>3. ClosingStatus(Kids(r) \cup ({d} \cap deleted), status) = "FAILED"
    BY <2>2 DEF ClosingStatus
  <2>4. {d} \cap deleted \in SUBSET (ChildrenOf(r) \cap deleted)
    BY <2>1
  <2>5. QED
    BY <1>1, <1>4, <2>3, <2>4
<1>5. CASE arg = "FINISHED_WITH_ERROR"
  <2>1. PICK d \in ChildrenOf(r) \ Blocking : status[d] \in FailedStatus
    BY <1>3, <1>5 DEF FailedNonBlocking
  <2>2. FailedNonBlocking(Kids(r) \cup ({d} \cap deleted), status)
    BY <1>k, <2>1 DEF FailedNonBlocking
  <2>3. ~FailedBlocking(Kids(r) \cup ({d} \cap deleted), status)
    BY <1>1, <1>5, <2>1 DEF FailedBlocking
  <2>4. ClosingStatus(Kids(r) \cup ({d} \cap deleted), status) = "FINISHED_WITH_ERROR"
    BY <2>2, <2>3 DEF ClosingStatus
  <2>5. {d} \cap deleted \in SUBSET (ChildrenOf(r) \cap deleted)
    BY <2>1
  <2>6. QED
    BY <1>1, <1>5, <2>4, <2>5
<1>6. CASE arg = "FINISHED"
  <2>1. ClosingStatus(Kids(r), status) = "FINISHED"
    BY <1>1, <1>6 DEF ClosingStatus
  <2>2. Kids(r) \cup {} = Kids(r) /\ {} \in SUBSET (ChildrenOf(r) \cap deleted)
    OBVIOUS
  <2>3. QED
    BY <1>1, <1>6, <2>1, <2>2
<1>7. QED
  BY <1>2, <1>4, <1>5, <1>6

LEMMA ClosesBoard ==
    ASSUME TaskAssumption, BoardInv, NEW w \in Worker, NEW c \in Subtask, CloseParent(w, c)
    PROVE  BoardStep
<1> DEFINE r == Parent[c]
           arg == coro[w][c].arg
<1>t. r \in Root /\ r \in Task
  BY DEF TaskAssumption, Task
<1>1. /\ coro[w][c].pc = "close" /\ UNCHANGED <<results, deleted>>
      /\ SetStatus({r} \cap {t \in Task : status[t] = "WAITING"}, arg)
  BY DEF CloseParent, CloseWaiting
<1>2. CASE status[r] = "WAITING"
  <2>1. PICK gone \in SUBSET (ChildrenOf(r) \cap deleted) :
            ClosingStatus(Kids(r) \cup gone, status) = arg
    BY <1>1, VerdictExplained
  <2>2. ~Pending(Kids(r), status)
    BY <1>1, VerdictExplained
  <2>3. {r} \cap {t \in Task : status[t] = "WAITING"} = {r}
    BY <1>2, <1>t
  <2>4. SetStatus({r}, arg)
    BY <1>1, <2>3
  <2>5. Board!Move({r}, arg)
    BY <2>4, SetMoves
  <2>6. Board!ClosingStatus(Board!Kids(r) \cup gone, status) = arg
    BY <2>1, BoardNames, BoardRules
  <2>7. ~Board!Pending(Board!Kids(r), status)
    BY <2>2, BoardNames, BoardRules
  <2>8. gone \in SUBSET (Board!ChildrenOf(r) \cap deleted)
    BY <2>1, BoardNames
  <2>9. Board!Close(r)
    BY <1>1, <1>2, <2>5, <2>6, <2>7, <2>8 DEF Board!Close
  <2>10. QED
    BY <1>t, <2>9 DEF BoardStep, Board!Next
<1>3. CASE status[r] # "WAITING"
  <2>1. {r} \cap {t \in Task : status[t] = "WAITING"} = {}
    BY <1>3
  <2>2. SetStatus({}, arg)
    BY <1>1, <2>1
  <2>3. QED
    BY <1>1, <2>2, MoveNone, Stutters DEF BoardInv, RollupInv, RootInv
<1>4. QED
  BY <1>2, <1>3

\* Every step of the workers is a step of the table, or none that shows.
LEMMA NextImplementsBoard ==
    ASSUME TaskAssumption, BoardInv, [Next]_vars, FirstSpawns
    PROVE  BoardStep
<1>1. ASSUME NEW w \in Worker, WorkerStep(w) PROVE BoardStep
  <2>1. ASSUME NEW S \in SUBSET Task, Fetch(w, S) PROVE BoardStep
    BY <2>1, TakesBoard DEF Fetch
  <2>2. CASE Requeue(w)
    BY <2>2, GivesBackBoard
  <2>3. CASE \/ BatchEnds(w) \/ OrphansEnd(w) \/ PollWorkerDisabled(w) \/ PollRound(w)
             \/ ShutdownTimeout(w) \/ Restart(w)
    <3>1. UNCHANGED <<status, results, deleted>>
      BY <2>3 DEF BatchEnds, OrphansEnd, PollWorkerDisabled, PollRound, TouchHeartbeats,
         ShutdownTimeout, Restart, storeVars
    <3>2. QED
      BY <3>1, Stutters
  <2>4. QED
    BY <1>1, <2>1, <2>2, <2>3 DEF WorkerStep
<1>2. ASSUME NEW w \in Worker, NEW t \in Task, CoroutineStep(w, t) PROVE BoardStep
  <2>1. CASE Start(w, t)
    BY <2>1, BeginsBoard DEF Start
  <2>2. CASE Persist(w, t)
    BY <2>2, CompletesBoard, RecordsBoard
  <2>3. CASE t \in Subtask /\ (FailParent(w, t) \/ CancelSiblings(w, t) \/ CloseParent(w, t))
    BY <2>3, FailsBoard, CancelsBoard, ClosesBoard
  <2>4. CASE StartMisses(w, t) \/ Raise(w, t) \/ PipelineReturns(w, t) \/ PersistSkipped(w, t)
             \/ CountSiblings(w, t)
    <3>1. UNCHANGED <<status, results, deleted>>
      BY <2>4 DEF StartMisses, Raise, PipelineReturns, PersistSkipped, CountSiblings, storeVars
    <3>2. QED
      BY <3>1, Stutters
  <2>5. QED
    BY <1>2, <2>1, <2>2, <2>3, <2>4 DEF CoroutineStep
<1>3. ASSUME NEW w \in Worker, NEW r \in Root, NEW S \in SUBSET ChildrenOf(r), Spawn(w, r, S)
      PROVE  BoardStep
  BY <1>3, InsertsBoard
<1>4. ASSUME NEW t \in Task, Due(t) \/ HeartbeatExpires(t) PROVE BoardStep
  BY <1>4, Stutters DEF Due, HeartbeatExpires, BecomeDue, HeartbeatAges
<1>5. CASE FaultStep
  <2>1. ASSUME NEW t \in Task, Delete(t) PROVE BoardStep
    BY <2>1, DeletesBoard DEF Delete
  <2>2. CASE ~ \E t \in Task : Delete(t)
    <3>1. UNCHANGED <<status, results, deleted>>
      BY <1>5, <2>2 DEF FaultStep, Stop, Crash, PollFails, RequeueFails, CallFails, BatchAborts,
         Toggle, ToggleSetting, HeartbeatLate, HeartbeatAges, storeVars
    <3>2. QED
      BY <3>1, Stutters
  <2>3. QED
    BY <2>1, <2>2
<1>6. CASE UNCHANGED vars
  BY <1>6, Stutters DEF vars, storeVars
<1>7. QED
  BY <1>1, <1>2, <1>3, <1>4, <1>5, <1>6 DEF Next

\* The workers implement the abstract table: whoever reads the rows cannot tell
\* that a root is closed by a count and an update in two transactions, as long as
\* a root inserts its subtasks once, no heartbeat is late and no batch is left
\* behind (count_parent_subtasks_state, close_waiting_parent).
THEOREM WorkersImplementBoard ==
    ASSUME InsertsOnce, {"late", "abort"} \cap Faults = {}
    PROVE  Spec => ImplementsBoard
<1>1. Init => Board!Init
  BY DEF Init, StoreInit, Board!Init, Board!Task, Task, Board!Absent, Absent
<1>2. ASSUME Init PROVE CallsFollowRows /\ RunningRoots
  <2>1. \A w \in Worker, r \in Root : coro[w][r].pc = "none"
    BY <1>2 DEF Init, NoCoroutine, Task
  <2>2. CallsFollowRows
    BY <1>2, TaskAssumption, WorkerAssumption, InitLeaseInv DEF LeaseInv
  <2>3. QED
    BY <2>1, <2>2 DEF RunningRoots
<1>3. RollupInv /\ CallsFollowRows /\ RunningRoots /\ [Next]_vars
          => (CallsFollowRows /\ RunningRoots)'
  BY TaskAssumption, StepCallsFollowRows, StepRunningRoots DEF RollupInv, RootInv
<1>4. RollupInv /\ RollupInv' /\ CallsFollowRows /\ RunningRoots /\ [Next]_vars
          => [Board!Next]_(Board!boardVars)
  <2>1. SUFFICES ASSUME RollupInv, RollupInv', CallsFollowRows, RunningRoots, [Next]_vars
                 PROVE  [Board!Next]_(Board!boardVars)
    OBVIOUS
  <2>2. FirstSpawns
    BY <2>1, SpawnsAreFirst DEF RollupInv, RootInv
  <2>3. QED
    BY <2>1, <2>2, TaskAssumption, NextImplementsBoard DEF BoardInv, BoardStep
<1>5. QED
  BY <1>1, <1>2, <1>3, <1>4, RollupInvariant, PTL DEF Spec, ImplementsBoard, Board!Spec
=============================================================================
