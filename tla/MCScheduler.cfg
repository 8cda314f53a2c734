\* A run of four snapshots by two workers, while a plan changes the environment.
SPECIFICATION FairSpec
CONSTANTS
    SnapshotIds <- MCSnapshotIds
    Parents <- MCParents
    Plans <- MCPlans
    Last = 3
    Histories <- MCHistories
    BatchSize <- MCBatchSize
    BatchConcurrency <- MCBatchConcurrency
    DependsOnPast = {"total", "keyed"}
    ByTimeRange = {"raw"}
    Signalled = {"raw"}
    MaxWorkers = 2
    Attempts = 2
    ExitOnEnvUpdate = FALSE
INVARIANTS
    UpstreamFirst
    PastFirst
    TargetExists
    OwnEnvironment
    SuccessLeavesUnready
    SkippedBehindFailure
PROPERTIES
    RunEnds
