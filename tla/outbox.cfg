SPECIFICATION FairSpec
CONSTANTS
    t1 = t1
    t2 = t2
    p1 = p1
    p2 = p2
    q1 = q1
    q2 = q2
    Task = {t1}
    Publisher = {p1, p2}
    Queue = {q1, q2}
    Body = {"a", "b"}
    NoBody = NoBody
    NoRoutes = NoRoutes
    DraftRoutes <- MCDraftRoutes
    DefaultRoutes <- MCDefaultRoutes
    Hooked <- Everywhere
    ClaimLimit = 2
    MaxAttempts = 2
    Faults = {"crash", "dberror", "late", "delete"}
    MaxFaults = 4
CHECK_DEADLOCK FALSE
INVARIANT FailedWhenExhausted
INVARIANT SkippedSentNothing
PROPERTY FinalIsForever
PROPERTY EveryReplySettles
