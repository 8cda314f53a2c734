-------------------------- MODULE SnapshotRegistry --------------------------
(***************************************************************************)
(* What the state store promises about snapshots and environments, with    *)
(* everything else left out: environments are references into a set of     *)
(* stored snapshots, an environment may only refer to what is stored, and  *)
(* what is referred to is never collected.  Lifecycle implements it.       *)
(***************************************************************************)
CONSTANTS SnapshotIds, EnvNames

VARIABLES
    stored,     \* the snapshots the store has a record of
    pointed     \* what each environment refers to ({} when there is none)

vars == <<stored, pointed>>

Referenced == UNION {pointed[e] : e \in EnvNames}

Init ==
    /\ stored = {}
    /\ pointed = [e \in EnvNames |-> {}]

Store(S) ==
    /\ stored' = stored \cup S
    /\ UNCHANGED pointed

\* An environment is switched as a whole to snapshots that are all stored.
Point(e, S) ==
    /\ S \subseteq stored
    /\ pointed' = [pointed EXCEPT ![e] = S]
    /\ UNCHANGED stored

Release(E) ==
    /\ pointed' = [e \in EnvNames |-> IF e \in E THEN {} ELSE pointed[e]]
    /\ UNCHANGED stored

Collect(S) ==
    /\ S \cap Referenced = {}
    /\ stored' = stored \ S
    /\ UNCHANGED pointed

Next ==
    \/ \E S \in SUBSET SnapshotIds : Store(S) \/ Collect(S)
    \/ \E e \in EnvNames, S \in SUBSET SnapshotIds : Point(e, S)
    \/ \E E \in SUBSET EnvNames : Release(E)

Spec == Init /\ [][Next]_vars
=============================================================================
