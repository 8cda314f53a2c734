\* A restatement of a, while versions of a and b are tried and deployed.
SPECIFICATION Spec
CONSTANTS
    SnapshotIds <- MCSnapshotIds
    Name <- MCName
    Version <- MCVersion
    Parents <- MCParents
    EnvNames = {"prod", "dev"}
    Prod = "prod"
    Requests <- MCRequests
    ShortLived = {"b2", "b3", "c2"}
    FirstProd = {"a", "b"}
    Target = "a"
    Points = {1, 2}
    RestatedPoints = {1}
    NoPlan = NoPlan
INVARIANTS
    LookedAfterFresh
PROPERTIES
    PromotedFresh
    ProdStaysLoaded
    SuccessIsOfProd
