---------------------------- MODULE WorkerProcess ----------------------------
(***************************************************************************)
(* What an operator may expect of a worker process: it goes on until it is  *)
(* asked to stop or cannot go on, and then ends, with an error exactly if   *)
(* nobody asked. "A dead broker task stops the process".                    *)
(***************************************************************************)
VARIABLES
    status,   \* of the process
    started,  \* its runners run
    dead      \* its broker task has ended

vars == <<status, started, dead>>

Init == status = "up" /\ ~started /\ ~dead

Alive == status \in {"up", "asked"}

Start == Alive /\ ~started /\ started' = TRUE /\ UNCHANGED <<status, dead>>

CannotStart == Alive /\ ~started /\ status' = "failed" /\ UNCHANGED <<started, dead>>

Ask == status = "up" /\ status' = "asked" /\ UNCHANGED <<started, dead>>

BrokerEnds == started /\ ~dead /\ dead' = TRUE /\ UNCHANGED <<status, started>>

GiveUp == status = "up" /\ dead /\ status' = "failed" /\ UNCHANGED <<started, dead>>

Exit ==
    /\ \/ status = "asked" /\ started /\ status' = "exit 0"
       \/ status = "failed" /\ status' = "exit 1"
    /\ UNCHANGED <<started, dead>>

Next == Start \/ CannotStart \/ Ask \/ BrokerEnds \/ GiveUp \/ Exit

Spec ==
    /\ Init /\ [][Next]_vars
    /\ WF_vars(Start \/ CannotStart) /\ WF_vars(GiveUp) /\ WF_vars(Exit)
=============================================================================
