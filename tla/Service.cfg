SPECIFICATION Spec
CONSTANTS
    c1 = c1
    c2 = c2
    r1 = r1
    r2 = r2
    Clients = {c1, c2}
    Docs <- MCDocs
    Doc <- MCDoc
    Nobody = Nobody
    MaxRetries = 1
    MaxCalls = 1
    MaxLate = 1
    Partitions <- MCPartitions
    NoPartition = 0
    PageSize = 1
    Replicas = {r1, r2}
    ConnectRetries = 1
    Containers <- MCContainers
    ChecksCritical <- MCChecks
    Restarts = 1
    Home = r1
    Loads = {"startup", "probes", "redis", "lists", "cosmos", "sql", "driver", "services", "queries"}
INVARIANTS
    AnswersAreTrue
    TransactionsSettle
    OfflineLasts
    QueriesAreComplete
    ServingMeansReady
    NothingLeaksUnlessFailed
    VerdictMatches
CHECK_DEADLOCK FALSE
