\* A version of b is tried and taken back before a is restated, and deployed after that.
SPECIFICATION Spec
CONSTANTS
    SnapshotIds <- MCSnapshotIds
    Name <- MCName
    Version <- MCVersion
    Parents <- MCParents
    EnvNames = {"prod", "dev"}
    Prod = "prod"
    Requests <- TriedAndTakenBack
    ShortLived = {"b2", "b3", "c2"}
    FirstProd = {"a", "b"}
    Target = "a"
    Points = {1, 2}
    RestatedPoints = {1}
    NoPlan = NoPlan
INVARIANTS
    NoOldDataPromoted
