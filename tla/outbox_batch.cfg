SPECIFICATION Spec
CONSTANTS
    t1 = t1
    t2 = t2
    p1 = p1
    p2 = p2
    q1 = q1
    q2 = q2
    Task = {t1, t2}
    Publisher = {p1, p2}
    Queue = {q1, q2}
    Body = {"a", "b"}
    NoBody = NoBody
    NoRoutes = NoRoutes
    DraftRoutes <- MCDraftRoutes
    DefaultRoutes <- MCDefaultRoutes
    Hooked <- NotT2AtP2
    ClaimLimit = 2
    MaxAttempts = 2
    Faults = {"crash", "dberror", "late"}
    MaxFaults = 1
CHECK_DEADLOCK FALSE
INVARIANT OneReply
INVARIANT SentReachedEveryQueue
INVARIANT OneCopyPerClaim
PROPERTY ImplementsDelivery
