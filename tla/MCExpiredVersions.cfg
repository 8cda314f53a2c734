\* A version of b has expired when the intervals of the newer one are cleared, and is
\* deployed before the janitor has collected it.
SPECIFICATION Spec
CONSTANTS
    SnapshotIds <- MCSnapshotIds
    Name <- MCName
    Version <- MCVersion
    Parents <- MCParents
    EnvNames = {"prod", "dev"}
    Prod = "prod"
    Requests <- TriedAndFollowed
    ShortLived = {"b2", "b3", "c2"}
    FirstProd = {"a", "b"}
    Target = "a"
    Points = {1, 2}
    RestatedPoints = {1}
    NoPlan = NoPlan
INVARIANTS
    NoOldDataPromoted
