---------------------------- MODULE SnapshotTtl ----------------------------
(***************************************************************************)
(* How long a snapshot lives after it has left its last environment.  A    *)
(* history variable beside Lifecycle records when that was and how it came *)
(* about.                                                                  *)
(***************************************************************************)
EXTENDS LifecycleProperties

VARIABLES
    lastUsed,   \* when a snapshot was last part of an environment (0: never)
    demoted     \* whether it left its last environment because a plan replaced it

ttlVars == <<vars, lastUsed, demoted>>

InUse == UNION {SnapshotsOf(e) : e \in EnvNames}

ReplacedByPlan ==
    UNION {SnapshotsOf(e) : e \in {n \in EnvNames :
        Exists(n) /\ envs'[n] # NoEnv /\ envs'[n].plan_id # envs[n].plan_id}}

TtlInit ==
    /\ Init
    /\ lastUsed = [s \in SnapshotIds |-> 0]
    /\ demoted = {}

TtlNext ==
    /\ Next
    /\ lastUsed' = [s \in SnapshotIds |-> IF s \in InUse THEN clock ELSE lastUsed[s]]
    /\ demoted' = (demoted \ InUse) \cup (InUse \cap (ReplacedByPlan \ InUse'))

TtlSpec == TtlInit /\ [][TtlNext]_ttlVars

FairTtlSpec == TtlSpec /\ Fairness

Kept(S) ==
    \A s \in (S \cap rows) \ rows' :
        janitor.ignore_ttl \/ lastUsed[s] = 0 \/ clock - lastUsed[s] >= Ttl[s]

\* A snapshot that a plan replaced stays for its ttl from that moment on, however
\* long ago it was created: promote touches what it demotes.
DemotedKeptForTtl == [][Kept(demoted)]_ttlVars

\* A snapshot that is part of no environment stays for its ttl, from the moment
\* it left the last one.
UnusedKeptForTtl == [][Kept(SnapshotIds)]_ttlVars
=============================================================================
