SPECIFICATION Spec
CONSTANTS
    m1 = m1
    m2 = m2
    p1 = p1
    p2 = p2
    k1 = k1
    Process = {p1, p2}
    Message = {m1}
    Key = {k1}
    KeyOf <- SameKey
    Counter <- DeadLettered
    Deaths <- DiedOnce
    MaxRetries = 3
    Faults = {}
    MaxFaults = 0
    MaxDeliveries = 6
    MaxBounces = 0
CHECK_DEADLOCK FALSE
INVARIANT DeliveriesAreCapped
