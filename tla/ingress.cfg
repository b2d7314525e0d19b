SPECIFICATION FairSpec
CONSTANTS
    m1 = m1
    m2 = m2
    p1 = p1
    p2 = p2
    k1 = k1
    Process = {p1, p2}
    Message = {m1, m2}
    Key = {k1}
    KeyOf <- SameKey
    Counter <- QuorumClassic
    Deaths <- DiedOnce
    MaxRetries = 3
    Faults = {"lost", "crash", "timeout", "dberror", "stop"}
    MaxFaults = 1
    MaxDeliveries = 7
    MaxBounces = 2
CHECK_DEADLOCK FALSE
INVARIANT OneTaskPerKey
INVARIANT AckedHasTask
INVARIANT OutIsHandled
INVARIANT TriesBeforeDrop
INVARIANT DeliveriesAreCapped
PROPERTY EveryMessageEnds
