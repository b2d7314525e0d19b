SPECIFICATION Spec
CONSTANTS
    r = r
    b = b
    n = n
    c = c
    s1 = s1
    w1 = w1
    w2 = w2
    w3 = w3
    Root = {r}
    Subtask = {b, n}
    Parent <- FamilyParent
    Blocking = {b}
    Cyclical = {}
    NoLimit = NoLimit
    MaxExecutions <- FamilyLimits
    Scenario = {s1}
    ScenarioOf <- FamilyScenario
    Worker = {w1, w2}
    ProcessOf <- Processes
    TasksLimit = 2
    MaxConcurrent = 2
    SpawnOnce = TRUE
    SpawnIdempotent = FALSE
    Faults = {"pause"}
    MaxFaults = 1
SYMMETRY Workers
CHECK_DEADLOCK FALSE
INVARIANT WaitingHasCloser
