SPECIFICATION FairSpec
CONSTANTS
    q1 = q1
    q2 = q2
    out = out
    Inputs <- TwoQueues
    Reply = out
    Foreign = {q2}
    Deletable = {q1, q2}
    Limit = 2
    Faults = {"down", "silent", "lost", "delete", "dberror", "enter"}
    MaxFaults = 3
CHECK_DEADLOCK FALSE
INVARIANT UsersGoFirst
PROPERTY ConnectionsAreClosed
PROPERTY ImplementsProcess
PROPERTY ServedOrEnded
PROPERTY RowsAreGivenBack
