\* The batches of a custom snapshot without batch_size run at once.
SPECIFICATION Spec
CONSTANTS
    SnapshotIds <- MCSnapshotIds
    Parents <- MCParents
    Plans <- RawAndDaily
    Last = 3
    Histories <- MCHistories
    BatchSize <- Unbatched
    BatchConcurrency <- Unbatched
    DependsOnPast = {"total", "keyed"}
    ByTimeRange = {"raw"}
    Signalled = {"raw"}
    MaxWorkers = 2
    Attempts = 2
    ExitOnEnvUpdate = FALSE
INVARIANTS
    FirstBatchCreates
