\* Two snapshots share a preview table and not a production table; one of them is collected.
SPECIFICATION LoopSpec
CONSTANTS
    SnapshotIds <- MCSnapshotIds
    Name <- MCName
    Version <- MCVersion
    DevVersion <- MCDevVersion
    Ttl <- MCTtl
    Rank <- MCRank
INVARIANTS
    SharedPreviewsKept
\* The loop ends when the batch has been visited.
CHECK_DEADLOCK FALSE
