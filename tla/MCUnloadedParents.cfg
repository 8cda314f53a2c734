\* A snapshot that depends on the past between one with signals and one without.
SPECIFICATION FairSpec
CONSTANTS
    SnapshotIds <- MCSnapshotIds
    Parents <- KeyedInTheMiddle
    Plans <- OnePlan
    Last = 3
    Histories <- MCHistories
    BatchSize <- MCBatchSize
    BatchConcurrency <- MCBatchConcurrency
    DependsOnPast = {"total", "keyed"}
    ByTimeRange = {"raw"}
    Signalled = {"raw"}
    MaxWorkers = 2
    Attempts = 2
    ExitOnEnvUpdate = FALSE
INVARIANTS
    UpstreamFirst
