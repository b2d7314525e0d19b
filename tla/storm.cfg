SPECIFICATION Spec
CONSTANTS
    r = r
    b = b
    n = n
    c = c
    s1 = s1
    w1 = w1
    w2 = w2
    w3 = w3
    Root = {r}
    Subtask = {c, n}
    Parent <- CycleParent
    Blocking = {c}
    Cyclical = {c}
    NoLimit = NoLimit
    MaxExecutions <- CycleLimits
    Scenario = {s1}
    ScenarioOf <- CycleScenario
    Worker = {w1, w2}
    ProcessOf <- Processes
    TasksLimit = 2
    MaxConcurrent = 2
    SpawnOnce = TRUE
    SpawnIdempotent = TRUE
    Faults = {"stop", "crash", "dberror", "pause", "delete"}
    MaxFaults = 2
SYMMETRY Workers
CHECK_DEADLOCK FALSE
INVARIANT TypeOK
INVARIANT SettledRoots
INVARIANT RootLease
INVARIANT VerdictsHold
PROPERTY ImplementsBoard
