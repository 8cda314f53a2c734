----------------------------- MODULE MCVersions -----------------------------
(***************************************************************************)
(* A model, one that selects from it, and one that selects from that; or   *)
(* two models and one that selects from both.  The second revision of a    *)
(* model adds a column to the first, what the third and the fourth do      *)
(* breaks.                                                                 *)
(***************************************************************************)
EXTENDS Versions, TLC

MCModels == {"a", "b", "c"}

ChainParents == "a" :> {} @@ "b" :> {"a"} @@ "c" :> {"b"}
JoinParents == "a" :> {} @@ "b" :> {"a", "c"} @@ "c" :> {}

\* Texts to choose from; the last model is only ever rebuilt for what it selects from.
SomeRevisions == "a" :> {1, 2, 3} @@ "b" :> {1, 3} @@ "c" :> {1}
AddedBehind == "a" :> {1, 3} @@ "b" :> {1, 2} @@ "c" :> {1}
AddedBeside == "a" :> {1, 3} @@ "b" :> {1} @@ "c" :> {1, 2}
ManyRevisions == "a" :> {1, 3, 4} @@ "b" :> {1} @@ "c" :> {1}

OutputOf(revisions) ==
    [m \in MCModels |-> [r \in revisions[m] |-> IF r = 2 THEN 1 ELSE r]]

SomeOutput == OutputOf(SomeRevisions)
BehindOutput == OutputOf(AddedBehind)
BesideOutput == OutputOf(AddedBeside)
ManyOutput == OutputOf(ManyRevisions)

MCAdditive == {<<1, 2>>}

\* Prod has the first revisions of all models.
Started ==
    LET S == Fingerprints([m \in Models |-> 1], Unstamped)
        first == [m \in Models |-> CategorizedAs(S[m], NoSnapshot, "breaking", FALSE)]
        tables == Filled([m \in Models |-> EmptyTable], S, AllDeployable, Models, 1, [m \in Models |-> 1])
    IN  /\ stored = [s \in Range(S) |-> first[s.name]]
        /\ unpaused = Range(S) /\ unrestorable = {}
        /\ envs = (Prod :> S @@ Dev :> NoEnv)
        /\ rows = [s \in Range(S) |-> tables[s.name]]
        /\ now = 1 /\ plans = 1

StartedSpec == Started /\ [][Next]_vars
=============================================================================
