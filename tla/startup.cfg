SPECIFICATION FairSpec
CONSTANTS
    a = a
    b = b
    d = d
    v1 = v1
    v2 = v2
    v3 = v3
    bad = bad
    p1 = p1
    p2 = p2
    Name = {a, b, d}
    SchemaOf <- MCSchemaOf
    RankOf <- MCRankOf
    Scenario = {a, b, d}
    Sql = {v1, v2, v3, bad}
    Broken = {bad}
    Mode = "prod"
    NoFile = NoFile
    Process = {p1, p2}
    Deployments <- MCDeployments
    Installed <- MCInstalled
    Nobody = Nobody
    NoEntry = NoEntry
    NoJob = NoJob
    Unread = Unread
    MaxId = 3
    Faults = {"crash", "sql", "copy"}
    MaxFaults = 1
CHECK_DEADLOCK FALSE
INVARIANT OneInstall
INVARIANT PreviewHolds
INVARIANT LoneRepairHolds
PROPERTY LedgerMovesForward
PROPERTY DeploymentComesUp
