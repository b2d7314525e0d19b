------------------------------ MODULE RunnerApp ------------------------------
(***************************************************************************)
(* The process of `scenario_pipeliner run` (RunnerApp.run, worker/runtime/  *)
(* app.py): it starts the DB runner and the broker runner as two tasks,     *)
(* waits for a stop or for the end of the broker task, lets both drain for  *)
(* RUNNER_SHUTDOWN_TIMEOUT_SECONDS, cancels what is left and closes the     *)
(* connections. The DB runner has a shutdown timer of the same length       *)
(* (batch_executor.py), after which it gives the rows of its batch back.    *)
(***************************************************************************)
EXTENDS BrokerLoop

VARIABLES
    phase,    \* where run is
    db,       \* where the execute of the DB runner is
    rows,     \* what became of the rows of its last batch
    strays,   \* tasks of a batch that failed still run
    first,    \* the timer that was started first: of the application or the batch
    failure,  \* run will raise
    open,     \* the pool and the engine are open
    asked     \* somebody called stop (history)

appVars == <<phase, db, rows, strays, first, failure, open, asked>>
vars == <<loopVars, appVars>>

TypeOK ==
    /\ LoopTypeOK
    /\ phase \in {"enter", "run", "drain", "cancel", "exit", "close", "ended"}
    /\ db \in {"absent", "poll", "fetch", "batch", "drain", "unwind", "requeue", "ended"}
    /\ rows \in {"none", "held", "done", "back", "left"}
    /\ strays \in BOOLEAN
    /\ first \in {"none", "app", "batch"}
    /\ failure \in BOOLEAN
    /\ open \in BOOLEAN
    /\ asked \in BOOLEAN

Init ==
    /\ LoopInit
    /\ phase = "enter"
    /\ db = "absent"
    /\ rows = "none"
    /\ strays = FALSE
    /\ first = "none"
    /\ failure = FALSE
    /\ open = TRUE
    /\ asked = FALSE

-----------------------------------------------------------------------------
(* The DB runner. *)

DbGoto(l) ==
    /\ db' = l
    /\ UNCHANGED <<loopVars, phase, strays, first, failure, open, asked>>

\* The loop of RunnerDB.execute looks at the stop event before each cycle.
Poll ==
    /\ db = "poll"
    /\ DbGoto(IF stopping THEN "ended" ELSE "fetch")
    /\ UNCHANGED rows

\* lock_runnable_tasks found nothing or failed.
FetchNothing ==
    /\ db = "fetch"
    /\ DbGoto("poll")
    /\ UNCHANGED rows

FetchBatch ==
    /\ db = "fetch"
    /\ rows' = "held"
    /\ DbGoto("batch")

\* All tasks of the batch end and are stored.
BatchEnds ==
    /\ db \in {"batch", "drain"}
    /\ rows' = "done"
    /\ DbGoto("poll")

\* on_task_error of a task could not store its result: the error leaves the batch
\* through its finally clause, which does not reach the loop that cancels the
\* other tasks, and execute backs off. Nobody waits for these tasks any more.
BatchFails ==
    /\ db \in {"batch", "drain"} /\ Fault("dberror")
    /\ rows' = "left"
    /\ strays' = TRUE
    /\ db' = "poll"
    /\ UNCHANGED <<broker, missing, foreign, orphan, client, loop, stopping,
                   phase, first, failure, open, asked>>

\* The tasks that a failed batch left behind end.
StraysEnd ==
    /\ strays
    /\ strays' = FALSE
    /\ UNCHANGED <<loopVars, phase, db, rows, first, failure, open, asked>>

\* run_with_shutdown_timeout sees the stop event and starts its timer.
BatchDrains ==
    /\ db = "batch" /\ stopping
    /\ db' = "drain"
    /\ first' = IF first = "none" THEN "batch" ELSE first
    /\ UNCHANGED <<loopVars, phase, rows, strays, failure, open, asked>>

\* The timer of the batch: its tasks are cancelled. Two timers of one length end
\* in the order of their starts.
BatchTimeout ==
    /\ db = "drain" /\ first = "batch"
    /\ DbGoto("unwind")
    /\ UNCHANGED rows

\* Mutant: the runner ends as soon as the batch is cancelled.
BatchUnwindsSilently ==
    /\ db = "unwind"
    /\ DbGoto("ended")
    /\ UNCHANGED rows

BatchUnwinds ==
    /\ db = "unwind"
    /\ DbGoto("requeue")
    /\ UNCHANGED rows

\* on_timeout: requeue_incomplete_tasks, then PipelineCancelledError ends the loop.
Requeue ==
    /\ db = "requeue"
    /\ rows' = "back"
    /\ DbGoto("ended")

RequeueFails ==
    /\ db = "requeue" /\ Fault("dberror")
    /\ db' = "ended"
    /\ UNCHANGED <<broker, missing, foreign, orphan, client, loop, stopping,
                   phase, rows, strays, first, failure, open, asked>>

-----------------------------------------------------------------------------
(* RunnerApp.run. *)

\* The tasks are created: runner_mode is db, broker or all.
Enter ==
    /\ phase = "enter"
    /\ phase' = "run"
    /\ \/ db' = "poll" /\ UNCHANGED loop
       \/ db' \in {"absent", "poll"} /\ \E bound \in BOOLEAN : Start(bound)
    /\ UNCHANGED <<broker, missing, foreign, orphan, client, stopping, faults,
                   rows, strays, first, failure, open, asked>>

\* A client of a pipeline does not connect: no task is created.
EnterFails ==
    /\ phase = "enter" /\ Fault("enter")
    /\ phase' = "exit"
    /\ failure' = TRUE
    /\ UNCHANGED <<broker, missing, foreign, orphan, client, loop, stopping,
                   db, rows, strays, first, open, asked>>

\* A signal, or run_seconds have passed.
Stop ==
    /\ ~stopping /\ phase \in {"enter", "run"}
    /\ stopping' = TRUE
    /\ asked' = TRUE
    /\ UNCHANGED <<broker, missing, foreign, orphan, client, loop, faults,
                   phase, db, rows, strays, first, failure, open>>

\* The timer of a running batch starts in the same turns of the event loop, so
\* either may be first; a batch that is still being fetched is later.
StartDrain ==
    /\ phase' = "drain"
    /\ first' \in IF first # "none" THEN {first}
                  ELSE IF db = "batch" THEN {"app", "batch"} ELSE {"app"}
    /\ stopping' = TRUE
    /\ UNCHANGED <<broker, missing, foreign, orphan, client, loop, faults,
                   db, rows, strays, open, asked>>

\* The supervisor looks at the stop event once a second.
NoticeStop ==
    /\ phase = "run" /\ stopping
    /\ StartDrain
    /\ UNCHANGED failure

\* Mutant: only an exception of the broker task counts as its failure.
NoticeDeathRaised ==
    /\ phase = "run" /\ loop.pc = "ended" /\ loop.result = "raised"
    /\ failure' = FALSE
    /\ StartDrain

\* The broker task ended; its failure counts if no stop was requested meanwhile.
NoticeDeath ==
    /\ phase = "run" /\ loop.pc = "ended"
    /\ failure' = ~stopping
    /\ StartDrain

TasksEnded == loop.pc \in {"absent", "ended"} /\ db \in {"absent", "ended"}

Drained ==
    /\ phase \in {"drain", "cancel"} /\ TasksEnded
    /\ phase' = "exit"
    /\ UNCHANGED <<loopVars, db, rows, strays, first, failure, open, asked>>

\* Mutant: run does not wait for the tasks it cancelled.
DrainTimeoutNoGather ==
    /\ phase = "drain" /\ ~TasksEnded
    /\ phase' = "exit"
    /\ UNCHANGED <<loopVars, db, rows, strays, first, failure, open, asked>>

\* The timer of run: what is left is cancelled, the update of on_timeout included,
\* whether it was committed or not.
DrainTimeout ==
    /\ phase = "drain" /\ ~TasksEnded
    /\ first = "batch" => db \notin {"batch", "drain"}
    /\ phase' = "cancel"
    /\ loop' = Cancelled
    /\ db' = IF db = "absent" THEN db ELSE "ended"
    /\ rows' \in IF db = "requeue" THEN {rows, "back"} ELSE {rows}
    /\ UNCHANGED <<broker, missing, foreign, orphan, client, stopping, faults,
                   strays, first, failure, open, asked>>

\* BrokerRunner.__aexit__ disconnects a client that execute left behind, without
\* a timeout.
ExitBroker ==
    /\ phase = "exit"
    /\ loop.held => CanDisconnect
    /\ client' = IF loop.held THEN Closed ELSE client
    /\ loop' = [loop EXCEPT !.held = FALSE]
    /\ stopping' = TRUE
    /\ phase' = "close"
    /\ UNCHANGED <<broker, missing, foreign, orphan, faults,
                   db, rows, strays, first, failure, open, asked>>

\* RunnerDB.__aexit__, pool.close and engine.dispose; run returns or raises.
Close ==
    /\ phase = "close"
    /\ open' = FALSE
    /\ phase' = "ended"
    /\ UNCHANGED <<loopVars, db, rows, strays, first, failure, asked>>

-----------------------------------------------------------------------------
DbStep == Poll \/ FetchNothing \/ FetchBatch \/ BatchDrains \/ BatchTimeout
          \/ BatchUnwinds \/ Requeue

AppStep == Enter \/ NoticeStop \/ NoticeDeath \/ Drained \/ DrainTimeout
           \/ ExitBroker \/ Close

Next ==
    \/ (LoopStep \/ LoopEnvironment) /\ UNCHANGED appVars
    \/ DbStep \/ BatchEnds \/ RequeueFails \/ BatchFails \/ StraysEnd
    \/ AppStep \/ EnterFails \/ Stop

Spec == Init /\ [][Next]_vars

\* The event loop runs every task that can go on and every timer; aio_pika
\* restores consumers, and a connection whose heartbeats stay away is closed. The
\* tasks of a batch need not end, the broker need not come back and nobody needs
\* to stop the process.
Fairness ==
    /\ WF_vars(LoopStep /\ UNCHANGED appVars)
    /\ WF_vars(DbStep)
    /\ WF_vars(AppStep)
    /\ WF_vars(Library /\ UNCHANGED appVars)
    /\ WF_vars(HeartbeatMissed /\ UNCHANGED appVars)

FairSpec == Spec /\ Fairness
=============================================================================
