SPECIFICATION Spec
CONSTANTS
    r = r
    b = b
    n = n
    c = c
    s1 = s1
    w1 = w1
    w2 = w2
    w3 = w3
    Root = {r}
    Subtask = {c, n}
    Parent <- CycleParent
    Blocking = {c}
    Cyclical = {c}
    NoLimit = NoLimit
    MaxExecutions <- CycleLimits
    Scenario = {s1}
    ScenarioOf <- CycleScenario
    Worker = {w1, w2, w3}
    ProcessOf <- FirstHasSpare
    TasksLimit = 2
    MaxConcurrent = 1
    SpawnOnce = TRUE
    SpawnIdempotent = FALSE
    Faults = {"abort"}
    MaxFaults = 1
CHECK_DEADLOCK FALSE
PROPERTY StartMissLeavesRow
