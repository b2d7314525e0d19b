SPECIFICATION FairSpec
CONSTANTS
    r = r
    b = b
    n = n
    c = c
    s1 = s1
    w1 = w1
    w2 = w2
    w3 = w3
    Root = {r}
    Subtask = {b, n}
    Parent <- FamilyParent
    Blocking = {b}
    Cyclical = {}
    NoLimit = NoLimit
    MaxExecutions <- FamilyLimits
    Scenario = {s1}
    ScenarioOf <- FamilyScenario
    Worker = {w1, w2, w3}
    ProcessOf <- FirstHasSpare
    TasksLimit = 2
    MaxConcurrent = 1
    SpawnOnce = TRUE
    SpawnIdempotent = FALSE
    Faults = {"stop", "crash", "dberror", "abort", "late"}
    MaxFaults = 1
CHECK_DEADLOCK FALSE
INVARIANT OneResultPerSubtask
PROPERTY TerminalIsForever
PROPERTY NoRowStranded
