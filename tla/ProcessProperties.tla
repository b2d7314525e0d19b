-------------------------- MODULE ProcessProperties --------------------------
(* What the worker process promises to its operator, to RabbitMQ and to the    *)
(* database.                                                                   *)
EXTENDS RunnerApp

\* The runner gives up a connection without closing it only if the broker does
\* not answer; otherwise its consumers would go on taking messages.
ConnectionsAreClosed ==
    [][orphan'.open /\ ~orphan.open => broker = "silent"]_vars

\* The pool and the engine are closed after the tasks of both runners and after the
\* consumers of the client, whose messages are handled in transactions of the
\* engine, also when a stop, a drain timeout and a failure come together. Two users
\* may be left, and only after a fault: the tasks of a batch that failed, which
\* nobody cancels, and the consumers of a connection that was given up open.
UsersGoFirst ==
    ~open =>
        /\ TasksEnded
        /\ client.consumers = {} /\ client.detached = {}
        /\ faults = 0 => ~strays /\ orphan.consumers = {}

\* The process as an operator sees it.
status ==
    CASE phase = "ended" -> IF failure THEN "exit 1" ELSE "exit 0"
      [] phase # "ended" /\ failure -> "failed"
      [] phase # "ended" /\ ~failure /\ asked -> "asked"
      [] OTHER -> "up"

Process == INSTANCE WorkerProcess WITH
               status  <- status,
               started <- loop.pc # "absent" \/ db # "absent",
               dead    <- loop.pc = "ended"

\* The process ends if it is asked to or if its broker task died for whatever
\* reason, in the second case with an error, and it does not end otherwise.
ImplementsProcess == Process!Spec

\* However the broker and the network behave, in the end every input queue has its
\* consumer again, or the process has ended and is started anew. The exception is
\* a queue that was deleted and that the ping does not look at any more, because
\* the client lost its channel to a queue with other arguments (_reopen_channel).
ServedOrEnded ==
    <>[](\/ phase = "ended" \/ loop.pc \in {"absent", "idle"}
         \/ \A q \in Queue :
                q \in client.consumers \/ (q \in missing /\ q \notin client.cached))

\* The DB runner leaves rows to the zombie timeout only if the database fails or
\* the timer of the application cuts the drain short; a batch that has its own
\* timeout gives its rows back before the runner ends. (The rows of a batch that
\* failed are left at once.)
RowsAreGivenBack ==
    [][db # "ended" /\ db' = "ended" /\ rows' = "held" =>
           faults' # faults \/ (phase = "drain" /\ phase' = "cancel")]_vars
=============================================================================
