\* Every set of stored rows, every batch of them, every order of the visits.
SPECIFICATION LoopSpec
CONSTANTS
    SnapshotIds <- MCSnapshotIds
    Name <- MCName
    Version <- MCVersion
    DevVersion <- MCDevVersion
    Ttl <- MCTtl
    Rank <- MCRank
INVARIANTS
    SharedTablesKept
    DropsTheRest
    NothingLeaks
\* The loop ends when the batch has been visited.
CHECK_DEADLOCK FALSE
