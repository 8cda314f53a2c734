\* Additions commit while a compaction is under way.
SPECIFICATION Spec
CONSTANTS
    SnapshotIds <- MCSnapshotIds
    Name <- MCName
    Version <- MCVersion
    DevVersion <- MCDevVersion
    Ttl <- MCTtl
    Rank <- MCRank
    Points <- MCPoints
    Ranges <- MCRanges
    NoId = NoId
    NoPreview = NoPreview
    Meanwhile = {"add"}
    MaxClock = 4
INVARIANTS
    OnlyLateRowsLinger
PROPERTIES
    StoreSpec
    CallsCount
    CompactionInvisible
    PendingKept
\* The clock has reached its bound: nothing is left to do.
CHECK_DEADLOCK FALSE
