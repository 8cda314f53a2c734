-------------------------- MODULE SchedulerProofs --------------------------
(***************************************************************************)
(* The safety of a run, proved for any snapshots, plans, batches, signals  *)
(* and numbers of workers and attempts: it works for the environment it    *)
(* has found finalized, in an order in which everything is there that an   *)
(* evaluation needs, and leaves out only what is held back or behind a     *)
(* failure.                                                                *)
(***************************************************************************)
EXTENDS Scheduler, UpTheGraph

Fields == {"status", "plan_id_at_start", "waited", "snapshots", "create", "tripped",
           "passed", "batches", "unready"}

\* Plans only go on.  If none has since the run began, what it has read is the
\* environment it began with, and only then a node is started.
RunInv ==
    /\ env \in [plan : Nat \ {0}, finalized : BOOLEAN]
    /\ DOMAIN run = Fields
    /\ run.plan_id_at_start \in Nat
    /\ run.plan_id_at_start <= env.plan
    /\ run.status = "running" /\ run.plan_id_at_start = env.plan =>
            run.snapshots = Plans[run.plan_id_at_start]
    /\ started # {} => run.status = "running" /\ run.snapshots = Plans[run.plan_id_at_start]

LEMMA InitRight == Init => RunInv
BY DEF Init, RunInv, Waiting, Fields

LEMMA StepKeepsInv == RunInv /\ [Next]_vars => RunInv'
<1> SUFFICES ASSUME RunInv, [Next]_vars PROVE RunInv'  OBVIOUS
<1> USE DEF RunInv
<1>1. CASE UpdateEnvironment
  <2>1. env' = [plan |-> env.plan + 1, finalized |-> FALSE] /\ UNCHANGED <<run, started>>
      BY <1>1 DEF UpdateEnvironment
  <2>2. env.plan + 1 \in Nat \ {0} /\ run.plan_id_at_start < env.plan + 1  OBVIOUS
  <2> QED  BY <2>1, <2>2
<1>2. CASE FinalizeEnvironment  BY <1>2 DEF FinalizeEnvironment
<1>3. CASE Wait
  <2>1. UNCHANGED <<env, started>> /\ run.status = "waiting"  BY <1>3 DEF Wait
  <2>2. \/ run' = [run EXCEPT !.waited = @ + 1]
        \/ run' = [run EXCEPT !.status = "exceeded"]
      BY <1>3 DEF Wait
  <2> QED  BY <2>1, <2>2 DEF Fields
<1>4. CASE BlockUntilFinalized
    BY <1>4 DEF BlockUntilFinalized, Fields
<1>5. CASE Start
  <2>1. UNCHANGED <<env, started>> /\ run.status = "starting"  BY <1>5 DEF Start
  <2>2. CASE run' = [run EXCEPT !.status = "nothing_to_do"]
      BY <2>1, <2>2 DEF Fields
  <2>3. CASE run' # [run EXCEPT !.status = "nothing_to_do"]
    <3>1. PICK missing, ready, unready :
            run' = WithBatches(Plans[env.plan], missing, ready, unready)
        BY <1>5, <2>3 DEF Start
    <3>2. /\ DOMAIN run' = Fields
          /\ run'.plan_id_at_start = run.plan_id_at_start
          /\ run'.snapshots = Plans[env.plan]
        BY <3>1 DEF WithBatches, Fields
    <3> QED  BY <2>1, <3>2
  <2> QED  BY <2>2, <2>3
<1>6. ASSUME NEW n \in Nodes, StartNode(n) PROVE RunInv'
  <2>1. run.status = "running" /\ UNCHANGED env  BY <1>6 DEF StartNode
  <2>2. CASE HasEnvironmentChanged
    <3>1. run' = [run EXCEPT !.tripped = TRUE] /\ UNCHANGED started  BY <1>6, <2>2 DEF StartNode
    <3> QED  BY <2>1, <3>1 DEF Fields
  <2>3. CASE ~HasEnvironmentChanged
    <3>1. run.snapshots = Plans[run.plan_id_at_start]  BY <2>1, <2>3 DEF HasEnvironmentChanged
    <3>2. UNCHANGED run  BY <1>6, <2>3 DEF StartNode
    <3> QED  BY <2>1, <3>1, <3>2
  <2> QED  BY <2>2, <2>3
<1>7. ASSUME NEW n \in started, FinishNode(n) \/ FailNode(n) PROVE RunInv'
    BY <1>7 DEF FinishNode, FailNode
<1>11. ASSUME NEW s \in run.snapshots, VisitDummy(s) PROVE RunInv'
  <2>1. UNCHANGED <<env, started>>  BY <1>11 DEF VisitDummy
  <2>2. \/ run' = [run EXCEPT !.tripped = TRUE]
        \/ run' = [run EXCEPT !.passed = run.passed \cup {s}]
      BY <1>11 DEF VisitDummy
  <2> QED  BY <2>1, <2>2 DEF Fields
<1>8. CASE EndRun
  <2>1. started = {} /\ UNCHANGED <<env, started>>  BY <1>8 DEF EndRun, Finished
  <2>2. \E x \in {"success", "failure"} : run' = [run EXCEPT !.status = x]
      BY <1>8 DEF EndRun
  <2> QED  BY <2>1, <2>2 DEF Fields
<1>9. CASE Restart
  <2>1. started' = {} /\ UNCHANGED env  BY <1>9 DEF Restart
  <2>2. run' = [run EXCEPT !.status = "error"] \/ run' = Waiting(0)
      BY <1>9 DEF Restart
  <2> QED  BY <2>1, <2>2 DEF Fields, Waiting
<1>10. CASE Terminated \/ UNCHANGED vars  BY <1>10 DEF Terminated, vars
<1> QED  BY <1>1, <1>2, <1>3, <1>4, <1>5, <1>6, <1>7, <1>8, <1>9, <1>10, <1>11 DEF Next, RunNext

\* Whatever plans do while a run waits, reads the environment and evaluates: what is
\* evaluated are the snapshots of the plan that had been finalized when it began.
THEOREM RunsForItsEnvironment == Spec => []OwnEnvironment
<1>1. RunInv => OwnEnvironment  BY DEF RunInv, OwnEnvironment
<1> QED  BY <1>1, InitRight, StepKeepsInv, PTL DEF Spec
-----------------------------------------------------------------------------
(***************************************************************************)
(* Types.  Batches are made of what is ready, whatever is held back.       *)
(***************************************************************************)
TypeInv == TypeOK /\ RunInv /\ IsFiniteSet(started)

\* Chunk returns a part of what it divides.
LEMMA BatchesType ==
    ASSUME NEW P \in SUBSET Points, NEW size
    PROVE  Batches(P, size) \in SUBSET (SUBSET Points)
BY DEF Batches, Chunk

LEMMA DiffType ==
    ASSUME NEW s, NEW ready \in SUBSET Points, NEW unready
    PROVE  IntervalDiff(s, ready, unready) \in SUBSET Points
BY DEF IntervalDiff

\* What begins is one of the nodes of the graph.
LEMMA NodesType ==
    ASSUME TypeOK, NEW n \in Nodes
    PROVE  n \in Node /\ n.snapshot \in SnapshotIds /\ n.points \subseteq Points
<1>1. CASE \E s \in run.snapshots : n \in EvaluateNodes(s)
  <2>1. PICK s \in run.snapshots : n \in EvaluateNodes(s)  BY <1>1
  <2>2. PICK B \in run.batches[s] : n = [snapshot |-> s, points |-> B]  BY <2>1 DEF EvaluateNodes
  <2>3. s \in SnapshotIds /\ B \in SUBSET Points  BY <2>1, <2>2 DEF TypeOK
  <2> QED  BY <2>2, <2>3 DEF Node
<1>2. CASE \E s \in run.snapshots : n = CreateNode(s)
  <2>1. PICK s \in run.snapshots : n = [snapshot |-> s, points |-> {}]  BY <1>2 DEF CreateNode
  <2>2. s \in SnapshotIds  BY <2>1 DEF TypeOK
  <2> QED  BY <2>1, <2>2 DEF Node
<1> QED  BY <1>1, <1>2 DEF Nodes

LEMMA InitTyped == Init => TypeInv
<1> SUFFICES ASSUME Init PROVE TypeInv  OBVIOUS
<1>1. IsFiniteSet(started) /\ Cardinality(started) = 0  BY FS_EmptySet DEF Init
<1>2. 1 \in DOMAIN Plans  BY SchedulerConstants
<1>3. 0 \in 0..Attempts /\ 0 <= MaxWorkers  BY SchedulerConstants
<1>4. TypeOK
  <2>1. /\ run.status = "waiting" /\ run.plan_id_at_start = 1 /\ run.waited = 0
        /\ run.snapshots = {} /\ run.create = {} /\ run.tripped = FALSE /\ run.passed = {}
        /\ run.batches = [s \in {} |-> {}]
      BY DEF Init, Waiting
  <2>2. run.batches \in [{} -> SUBSET (SUBSET Points)]  BY <2>1
  <2>3. loaded \in [SnapshotIds -> SUBSET Points] /\ tables \subseteq SnapshotIds
      BY SchedulerConstants DEF Init
  <2>4. env \in [plan : DOMAIN Plans, finalized : BOOLEAN]  BY <1>2 DEF Init
  <2>5. started = {} /\ done = {} /\ failed = {}  BY DEF Init
  <2> QED  BY <1>1, <1>2, <1>3, <2>1, <2>2, <2>3, <2>4, <2>5 DEF TypeOK
<1> QED  BY <1>1, <1>4, InitRight DEF TypeInv

LEMMA StepKeepsTypes == TypeInv /\ [Next]_vars => TypeInv'
<1> SUFFICES ASSUME TypeInv, [Next]_vars PROVE TypeInv'  OBVIOUS
<1> USE SchedulerConstants DEF TypeInv
<1>0. RunInv'  BY StepKeepsInv
<1>f. DOMAIN run = Fields /\ DOMAIN run' = Fields  BY <1>0 DEF RunInv
<1>1. CASE UpdateEnvironment  BY <1>0, <1>1 DEF UpdateEnvironment, TypeOK
<1>2. CASE FinalizeEnvironment  BY <1>0, <1>2 DEF FinalizeEnvironment, TypeOK
<1>3. CASE Wait
  <2>1. UNCHANGED <<loaded, tables, env, started, done, failed>>  BY <1>3 DEF Wait
  <2>2. \/ run' = [run EXCEPT !.waited = run.waited + 1] /\ run.waited + 1 < Attempts
        \/ run' = [run EXCEPT !.status = "exceeded"]
      BY <1>3 DEF Wait
  <2>3. run.waited \in 0..Attempts  BY DEF TypeOK
  <2>4. CASE run' = [run EXCEPT !.waited = run.waited + 1] /\ run.waited + 1 < Attempts
    <3>1. run.waited + 1 \in 0..Attempts  BY <2>3, <2>4
    <3>2. /\ run'.status = run.status /\ run'.plan_id_at_start = run.plan_id_at_start
          /\ run'.waited = run.waited + 1 /\ run'.snapshots = run.snapshots
          /\ run'.create = run.create /\ run'.tripped = run.tripped
          /\ run'.passed = run.passed /\ run'.batches = run.batches
        BY <1>f, <2>4 DEF Fields
    <3> QED  BY <1>0, <2>1, <3>1, <3>2 DEF TypeOK
  <2>5. CASE run' = [run EXCEPT !.status = "exceeded"]
      BY <1>0, <1>f, <2>1, <2>5 DEF TypeOK, Fields, Ended
  <2> QED  BY <2>2, <2>4, <2>5
<1>4. CASE BlockUntilFinalized
    BY <1>0, <1>f, <1>4 DEF BlockUntilFinalized, TypeOK, Fields
<1>5. CASE Start
  <2>1. UNCHANGED <<loaded, tables, env, started, done, failed>>  BY <1>5 DEF Start
  <2>2. CASE run' = [run EXCEPT !.status = "nothing_to_do"]
      BY <1>0, <1>f, <2>1, <2>2 DEF TypeOK, Fields, Ended
  <2>3. CASE run' # [run EXCEPT !.status = "nothing_to_do"]
    <3> DEFINE snapshots == Plans[env.plan]
               missing == [s \in snapshots |-> Points \ loaded[s]]
    <3>1. snapshots \in SUBSET SnapshotIds  BY DEF TypeOK
    <3>2. PICK ready \in [snapshots -> SUBSET Points] :
            run' = WithBatches(snapshots, missing, ready, Unready(snapshots, missing, ready))
        BY <1>5, <2>3 DEF Start
    <3> DEFINE unready == Unready(snapshots, missing, ready)
    <3>3. \A s \in snapshots :
            Batches(IntervalDiff(s, ready[s], unready[s]), BatchSize[s]) \in SUBSET (SUBSET Points)
        BY <3>2, DiffType, BatchesType
    <3> HIDE DEF snapshots, missing, unready
    <3>4. run'.batches = [s \in snapshots |->
                            Batches(IntervalDiff(s, ready[s], unready[s]), BatchSize[s])]
        BY <1>f, <3>2 DEF WithBatches, Fields, unready
    <3>5. run'.batches \in [snapshots -> SUBSET (SUBSET Points)]  BY <3>3, <3>4
    <3>6. /\ run'.status = "running" /\ run'.snapshots = snapshots
          /\ run'.create \subseteq snapshots
          /\ run'.plan_id_at_start = run.plan_id_at_start
          /\ run'.waited = run.waited /\ run'.tripped = run.tripped /\ run'.passed = {}
        BY <1>f, <3>2 DEF WithBatches, Fields
    <3> QED  BY <1>0, <2>1, <3>1, <3>5, <3>6 DEF TypeOK
  <2> QED  BY <2>2, <2>3
<1>6. ASSUME NEW n \in Nodes, StartNode(n) PROVE TypeInv'
  <2>1. UNCHANGED <<loaded, tables, env, done>>  BY <1>6 DEF StartNode
  <2>2. n \in Node  BY NodesType
  <2>3. CASE HasEnvironmentChanged
    <3>1. /\ run' = [run EXCEPT !.tripped = TRUE] /\ failed' = failed \cup {n}
          /\ UNCHANGED started
        BY <1>6, <2>3 DEF StartNode
    <3> QED  BY <1>0, <1>f, <2>1, <2>2, <3>1 DEF TypeOK, Fields
  <2>4. CASE ~HasEnvironmentChanged
    <3>1. started' = started \cup {n} /\ UNCHANGED <<failed, run>> /\ FreeWorker
        BY <1>6, <2>4 DEF StartNode
    <3>2. IsFiniteSet(started') /\ Cardinality(started') <= Cardinality(started) + 1
      <4>1. IsFiniteSet(started)  OBVIOUS
      <4>2. /\ IsFiniteSet(started \cup {n})
            /\ Cardinality(started \cup {n}) =
                 IF n \in started THEN Cardinality(started) ELSE Cardinality(started) + 1
          BY <4>1, FS_AddElement
      <4>3. Cardinality(started) \in Nat  BY <4>1, FS_CardinalityType
      <4> QED  BY <3>1, <4>2, <4>3
    <3>3. Cardinality(started') <= MaxWorkers
      <4>1. Cardinality(started) \in Nat /\ Cardinality(started') \in Nat
          BY <3>2, FS_CardinalityType
      <4>2. Cardinality(started) < MaxWorkers  BY <3>1 DEF FreeWorker
      <4> QED  BY <3>2, <4>1, <4>2
    <3> QED  BY <1>0, <2>1, <2>2, <3>1, <3>2, <3>3 DEF TypeOK
  <2> QED  BY <2>3, <2>4
<1>7. ASSUME NEW n \in started, FinishNode(n) \/ FailNode(n) PROVE TypeInv'
  <2>1. n \in Node /\ n.snapshot \in SnapshotIds /\ n.points \in SUBSET Points
      BY DEF TypeOK, Node
  <2>2. started' = started \ {n} /\ UNCHANGED <<env, run>>
      BY <1>7 DEF FinishNode, FailNode
  <2>3. IsFiniteSet(started') /\ Cardinality(started') <= MaxWorkers
    <3>1. /\ IsFiniteSet(started') /\ Cardinality(started') = Cardinality(started) - 1
          /\ Cardinality(started) \in Nat
        BY <2>2, FS_RemoveElement, FS_CardinalityType
    <3>2. Cardinality(started) <= MaxWorkers  BY DEF TypeOK
    <3> QED  BY <3>1, <3>2
  <2>4. CASE FinishNode(n)
    <3>1. loaded' = [loaded EXCEPT ![n.snapshot] = loaded[n.snapshot] \cup n.points]
        BY <2>4 DEF FinishNode
    <3>2. loaded' \in [SnapshotIds -> SUBSET Points]  BY <2>1, <3>1 DEF TypeOK
    <3>3. tables' = tables \cup {n.snapshot} /\ done' = done \cup {n} /\ UNCHANGED failed
        BY <2>4 DEF FinishNode
    <3> QED  BY <1>0, <2>1, <2>2, <2>3, <3>2, <3>3 DEF TypeOK
  <2>5. CASE FailNode(n)
    <3>1. /\ tables' \in {tables, tables \cup {n.snapshot}} /\ failed' = failed \cup {n}
          /\ UNCHANGED <<loaded, done>>
        BY <2>5 DEF FailNode
    <3> QED  BY <1>0, <2>1, <2>2, <2>3, <3>1 DEF TypeOK
  <2> QED  BY <1>7, <2>4, <2>5
<1>11. ASSUME NEW s \in run.snapshots, VisitDummy(s) PROVE TypeInv'
  <2>1. UNCHANGED <<loaded, tables, env, started, done, failed>>  BY <1>11 DEF VisitDummy
  <2>2. CASE run' = [run EXCEPT !.tripped = TRUE]
      BY <1>0, <1>f, <2>1, <2>2 DEF TypeOK, Fields
  <2>3. CASE run' = [run EXCEPT !.passed = run.passed \cup {s}]
      BY <1>0, <1>f, <2>1, <2>3 DEF TypeOK, Fields
  <2> QED  BY <1>11, <2>2, <2>3 DEF VisitDummy
<1>8. CASE EndRun
  <2>1. UNCHANGED <<loaded, tables, env, started, done, failed>>  BY <1>8 DEF EndRun
  <2>2. \E x \in {"success", "failure"} : run' = [run EXCEPT !.status = x]
      BY <1>8 DEF EndRun
  <2> QED  BY <1>0, <1>f, <2>1, <2>2 DEF TypeOK, Fields, Ended
<1>9. CASE Restart
  <2>1. started' = {} /\ done' = {} /\ failed' = {} /\ UNCHANGED <<loaded, tables, env>>
      BY <1>9 DEF Restart
  <2>2. IsFiniteSet(started') /\ Cardinality(started') = 0  BY <2>1, FS_EmptySet
  <2>3. run' = [run EXCEPT !.status = "error"] \/ run' = Waiting(0)
      BY <1>9 DEF Restart
  <2>4. CASE run' = [run EXCEPT !.status = "error"]
      BY <1>0, <1>f, <2>1, <2>2, <2>4 DEF TypeOK, Fields, Ended
  <2>5. CASE run' = Waiting(0)
      BY <1>0, <2>1, <2>2, <2>5 DEF TypeOK, Waiting
  <2> QED  BY <2>3, <2>4, <2>5
<1>10. CASE Terminated \/ UNCHANGED vars  BY <1>0, <1>10 DEF Terminated, vars, TypeOK
<1> QED  BY <1>1, <1>2, <1>3, <1>4, <1>5, <1>6, <1>7, <1>8, <1>9, <1>10, <1>11 DEF Next, RunNext

\* The variables keep their types, and no more nodes are evaluated at a time than there
\* are workers.
THEOREM SchedulerTyped == Spec => []TypeOK
<1>1. TypeInv => TypeOK  BY DEF TypeInv
<1> QED  BY <1>1, InitTyped, StepKeepsTypes, PTL DEF Spec
-----------------------------------------------------------------------------
(***************************************************************************)
(* The graph of the snapshots.                                             *)
(***************************************************************************)
LEMMA AncestorsCollect ==
    /\ Parents \in [SnapshotIds -> SUBSET SnapshotIds]
    /\ WithoutCycles(SnapshotIds, Parents)
    /\ Collects(Ancestors, Parents, Parents)
<1>1. Parents \in [SnapshotIds -> SUBSET SnapshotIds]  BY SchedulerConstants
<1>2. DOMAIN Parents = SnapshotIds  BY <1>1
<1>3. Ancestors = CHOOSE f : Collects(f, Parents, Parents)
    BY <1>2 DEF Ancestors, Collects
<1>4. \E f : Collects(f, Parents, Parents)  BY <1>1, Collected
<1>5. Collects(Ancestors, Parents, Parents)  BY <1>3, <1>4
<1>6. WithoutCycles(SnapshotIds, Parents)  BY Acyclic DEF WithoutCycles
<1> QED  BY <1>1, <1>5, <1>6

LEMMA AncestorsOf ==
    \A s \in SnapshotIds :
        /\ Ancestors[s] = Parents[s] \cup UNION {Ancestors[p] : p \in Parents[s]}
        /\ Ancestors[s] \subseteq SnapshotIds
        /\ \A q \in Ancestors[s] : Ancestors[q] \subseteq Ancestors[s]
<1>1. DOMAIN Parents = SnapshotIds  BY SchedulerConstants
<1>2. \A s \in SnapshotIds :
        Ancestors[s] = Parents[s] \cup UNION {Ancestors[p] : p \in Parents[s]}
    BY <1>1, AncestorsCollect DEF Collects
<1> QED  BY <1>2, AncestorsCollect, AboveAndAbove

LEMMA NoAncestorAmong ==
    ASSUME NEW T \in SUBSET SnapshotIds, T # {}
    PROVE  \E s \in T : Ancestors[s] \cap T = {}
BY AncestorsCollect, NoneAbove

\* What holds a snapshot back, if it is not complete: what its signals do, and what holds
\* its parents back.
HoldsBack(U, S, missing, ready) ==
    \A s \in S : U[s] = IF missing[s] = {} THEN {}
                        ELSE (missing[s] \ ready[s]) \cup UNION {U[p] : p \in Parents[s]}

LEMMA UnreadyOf ==
    ASSUME NEW S \in SUBSET SnapshotIds, \A s \in S : Parents[s] \subseteq S,
           NEW missing, NEW ready
    PROVE  HoldsBack(Unready(S, missing, ready), S, missing, ready)
<1> DEFINE own == [s \in S |-> IF missing[s] = {} THEN {} ELSE missing[s] \ ready[s]]
           next == [s \in S |-> IF missing[s] = {} THEN {} ELSE Parents[s]]
           U == Unready(S, missing, ready)
           Eq(g) == g = [s \in S |-> IF missing[s] = {} THEN {}
                           ELSE (missing[s] \ ready[s]) \cup UNION {g[p] : p \in Parents[s]}]
<1>1. next \in [S -> SUBSET S]  OBVIOUS
<1>2. PICK f : Collects(f, own, next)
  <2> HIDE DEF own, next
  <2> QED  BY <1>1, Collected
<1>3. Eq(f)
  <2>0. DOMAIN next = S  OBVIOUS
  <2>1. ASSUME NEW s \in S PROVE f[s] = IF missing[s] = {} THEN {}
             ELSE (missing[s] \ ready[s]) \cup UNION {f[p] : p \in Parents[s]}
    <3>1. f[s] = own[s] \cup UNION {f[p] : p \in next[s]}  BY <1>2, <2>0 DEF Collects
    <3> QED  BY <3>1
  <2>2. DOMAIN f = S /\ f = [s \in S |-> f[s]]  BY <1>2, <2>0 DEF Collects
  <2> HIDE DEF own, next
  <2> QED  BY <2>1, <2>2
<1>4. U = CHOOSE g : Eq(g)  BY DEF Unready
<1> HIDE DEF own, next, U, Eq
<1>5. Eq(U)  BY <1>3, <1>4
<1>6. HoldsBack(U, S, missing, ready)  BY <1>5 DEF Eq, HoldsBack
<1> QED  BY <1>6 DEF U

\* The snapshots of the run have their parents with them.
Whole == run.snapshots \in SUBSET SnapshotIds /\ \A s \in run.snapshots : Parents[s] \subseteq run.snapshots

LEMMA UpstreamOf ==
    ASSUME Whole
    PROVE  \A s \in run.snapshots : Upstream[s] =
             IF run.batches[s] # {} THEN EvaluateNodes(s)
             ELSE IF s \in run.create THEN {CreateNode(s)}
             ELSE UNION {Upstream[p] : p \in Parents[s]}
<1> DEFINE S == run.snapshots
           Skipped(s) == run.batches[s] = {} /\ s \notin run.create
           own == [s \in S |-> IF run.batches[s] # {} THEN EvaluateNodes(s)
                               ELSE IF s \in run.create THEN {CreateNode(s)} ELSE {}]
           next == [s \in S |-> IF Skipped(s) THEN Parents[s] ELSE {}]
           Eq(g) == g = [s \in S |-> IF run.batches[s] # {} THEN EvaluateNodes(s)
                                     ELSE IF s \in run.create THEN {CreateNode(s)}
                                     ELSE UNION {g[p] : p \in Parents[s]}]
<1>1. next \in [S -> SUBSET S]  BY DEF Whole
<1>2. PICK f : Collects(f, own, next)
  <2> HIDE DEF own, next
  <2> QED  BY <1>1, Collected
<1>3. Eq(f)
  <2>0. DOMAIN next = S  OBVIOUS
  <2>1. ASSUME NEW s \in S
        PROVE  f[s] = IF run.batches[s] # {} THEN EvaluateNodes(s)
                      ELSE IF s \in run.create THEN {CreateNode(s)}
                      ELSE UNION {f[p] : p \in Parents[s]}
    <3>1. f[s] = own[s] \cup UNION {f[p] : p \in next[s]}  BY <1>2, <2>0 DEF Collects
    <3>2. CASE Skipped(s)
      <4>1. own[s] = {} /\ next[s] = Parents[s]  BY <3>2
      <4> QED  BY <3>1, <3>2, <4>1
    <3>3. CASE ~Skipped(s)
      <4>1. next[s] = {}  BY <3>3
      <4>2. f[s] = own[s]  BY <3>1, <4>1
      <4> QED  BY <3>3, <4>2
    <3> QED  BY <3>2, <3>3
  <2>2. DOMAIN f = S /\ f = [s \in S |-> f[s]]  BY <1>2, <2>0 DEF Collects
  <2> HIDE DEF own, next, S
  <2> QED  BY <2>1, <2>2
<1>4. Upstream = CHOOSE g : Eq(g)  BY DEF Upstream
<1> HIDE DEF own, next, Eq
<1>5. Eq(Upstream)  BY <1>3, <1>4
<1> QED  BY <1>5 DEF Eq

(***************************************************************************)
(* Batches.                                                                *)
(***************************************************************************)
Before(B, C) == \A x \in B : \A y \in C : x < y

\* One batch after the other.
InOrder(batches) ==
    /\ {} \notin batches
    /\ \A B, C \in batches : B = C \/ Before(B, C) \/ Before(C, B)

\* The beginning of the gapless part of P that x is in.
IsStart(P, z, x) == z \in P /\ z..x \subseteq P /\ z - 1 \notin P /\ z <= x

LEMMA StartExists ==
    ASSUME NEW P \in SUBSET Points, NEW x \in P
    PROVE  \E z \in P : IsStart(P, z, x)
<1> DEFINE I == {z \in P : z..x \subseteq P /\ z <= x}
<1>0. P \subseteq Nat /\ P \subseteq Int  BY SchedulerConstants DEF Points
<1>1. I \in SUBSET Nat /\ I # {}
  <2>1. x..x \subseteq P /\ x <= x  BY <1>0
  <2> QED  BY <1>0, <2>1
<1>2. PICK z \in I : \A j \in I : z <= j
  <2> HIDE DEF I
  <2> QED  BY <1>1, SmallestNumber
<1>3. z - 1 \notin P
  <2>1. SUFFICES ASSUME z - 1 \in P PROVE FALSE  OBVIOUS
  <2>2. z \in Int /\ x \in Int /\ z <= x  BY <1>0, <1>2
  <2>3. (z - 1)..x \subseteq P  BY <2>1, <2>2, <1>2
  <2>4. z - 1 \in I  BY <2>1, <2>2, <2>3
  <2>5. z <= z - 1
    <3> HIDE DEF I
    <3> QED  BY <1>2, <2>4
  <2> QED  BY <2>2, <2>5
<1> QED  BY <1>2, <1>3 DEF IsStart

\* Later points do not start earlier, and where they start at the same point there is
\* no gap between them.
LEMMA StartsInOrder ==
    ASSUME NEW P \in SUBSET Points, NEW x \in P, NEW y \in P, x <= y,
           NEW a \in P, IsStart(P, a, x), NEW b \in P, IsStart(P, b, y)
    PROVE  a <= b
<1>0. a \in Int /\ b \in Int /\ x \in Int /\ y \in Int  BY SchedulerConstants DEF Points
<1>1. SUFFICES ASSUME b < a PROVE FALSE  BY <1>0
<1>2. a - 1 \in b..y  BY <1>0, <1>1 DEF IsStart
<1> QED  BY <1>2 DEF IsStart

LEMMA QuotientsInOrder ==
    ASSUME NEW m \in Nat, NEW n \in Nat, m <= n, NEW k \in Nat, k # 0
    PROVE  m \div k <= n \div k /\ m \div k \in Nat /\ n \div k \in Nat
<1> DEFINE p == m \div k
           q == n \div k
<1>1. p \in Int /\ q \in Int  OBVIOUS
<1>2. k * p <= m /\ m < k * p + k /\ k * q <= n /\ n < k * q + k  OBVIOUS
<1>3. 0 <= p /\ 0 <= q  OBVIOUS
<1>4. p <= q
  <2>1. SUFFICES ASSUME q + 1 <= p PROVE FALSE  BY <1>1
  <2> HIDE DEF p, q
  <2>2. k * (q + 1) <= k * p  BY <1>1, <2>1
  <2>3. k * (q + 1) = k * q + k  BY <1>1
  <2>4. k * p \in Int /\ k * q \in Int  BY <1>1
  <2> QED  BY <1>2, <2>2, <2>3, <2>4
<1> QED  BY <1>1, <1>3, <1>4

\* The batches of points are in order and have each of the points.
LEMMA BatchesRight ==
    ASSUME NEW P \in SUBSET Points, NEW size \in Nat
    PROVE  InOrder(Batches(P, size)) /\ UNION Batches(P, size) = P
<1> DEFINE start(y) == CHOOSE z \in P : z..y \subseteq P /\ z - 1 \notin P /\ z <= y
           number(y) == IF size = 0 THEN 0 ELSE (y - start(y)) \div size
           Same(x, y) == start(y) = start(x) /\ number(y) = number(x)
<1>0. P \subseteq Int  BY SchedulerConstants DEF Points
<1>1. \A x \in P : Chunk(P, size, x) = {y \in P : Same(x, y)}  BY DEF Chunk
<1>2. \A x \in P : start(x) \in P /\ IsStart(P, start(x), x)
  <2> TAKE x \in P
  <2>1. \E z \in P : z..x \subseteq P /\ z - 1 \notin P /\ z <= x  BY StartExists DEF IsStart
  <2> QED  BY <2>1 DEF IsStart
<1>3. \A x \in P : x - start(x) \in Nat
  <2>1. \A x \in P : start(x) \in Int /\ x \in Int /\ start(x) <= x  BY <1>0, <1>2 DEF IsStart
  <2> HIDE DEF start
  <2> QED  BY <2>1
<1>4. \A x \in P : number(x) \in Nat
  <2> TAKE x \in P
  <2>1. CASE size = 0  BY <2>1
  <2>2. CASE size # 0
    <3> HIDE DEF start
    <3>1. x - start(x) <= x - start(x)  BY <1>3
    <3> QED  BY <1>3, <2>2, <3>1, QuotientsInOrder
  <2> QED  BY <2>1, <2>2
<1>5. \A x, y \in P : x <= y => start(x) <= start(y)
  <2> HIDE DEF start
  <2> QED  BY <1>2, StartsInOrder
<1>6. \A x, y \in P : x <= y /\ start(x) = start(y) => number(x) <= number(y)
  <2> TAKE x, y \in P
  <2> HAVE x <= y /\ start(x) = start(y)
  <2>1. CASE size = 0  BY <2>1
  <2>2. CASE size # 0
    <3>1. start(x) \in Int /\ x \in Int /\ y \in Int  BY <1>0, <1>2
    <3> HIDE DEF start
    <3>2. x - start(x) <= y - start(y)  BY <3>1
    <3> QED  BY <1>3, <2>2, <3>2, QuotientsInOrder
  <2> QED  BY <2>1, <2>2
<1>7. \A x \in P : start(x) \in Int  BY <1>0, <1>2
<1> HIDE DEF start, number
<1>8. ASSUME NEW x \in P, NEW y \in P
      PROVE  \/ Same(x, y)
             \/ Before(Chunk(P, size, x), Chunk(P, size, y))
             \/ Before(Chunk(P, size, y), Chunk(P, size, x))
  <2>1. ASSUME NEW u \in P, NEW v \in P, start(u) < start(v) PROVE u < v
    <3>1. u \in Int /\ v \in Int  BY <1>0
    <3> QED  BY <1>5, <1>7, <2>1, <3>1
  <2>2. ASSUME NEW u \in P, NEW v \in P, start(u) = start(v), number(u) < number(v) PROVE u < v
    <3>1. u \in Int /\ v \in Int  BY <1>0
    <3> QED  BY <1>4, <1>6, <2>2, <3>1
  <2>3. CASE start(x) < start(y)
    <3>1. Before(Chunk(P, size, x), Chunk(P, size, y))  BY <1>1, <2>1, <2>3 DEF Before
    <3> QED  BY <3>1
  <2>4. CASE start(y) < start(x)
    <3>1. Before(Chunk(P, size, y), Chunk(P, size, x))  BY <1>1, <2>1, <2>4 DEF Before
    <3> QED  BY <3>1
  <2>5. CASE start(x) = start(y) /\ number(x) < number(y)
    <3>1. Before(Chunk(P, size, x), Chunk(P, size, y))  BY <1>1, <2>2, <2>5 DEF Before
    <3> QED  BY <3>1
  <2>6. CASE start(x) = start(y) /\ number(y) < number(x)
    <3>1. Before(Chunk(P, size, y), Chunk(P, size, x))  BY <1>1, <2>2, <2>6 DEF Before
    <3> QED  BY <3>1
  <2> QED  BY <1>4, <1>7, <2>3, <2>4, <2>5, <2>6
<1>9. \A x \in P : x \in Chunk(P, size, x)  BY <1>1
<1>10. \A x, y \in P : Same(x, y) => Chunk(P, size, x) = Chunk(P, size, y)  BY <1>1
<1>11. InOrder(Batches(P, size))
  <2>1. {} \notin Batches(P, size)  BY <1>9 DEF Batches
  <2>2. ASSUME NEW B \in Batches(P, size), NEW C \in Batches(P, size)
        PROVE  B = C \/ Before(B, C) \/ Before(C, B)
    <3>1. PICK x \in P : B = Chunk(P, size, x)  BY DEF Batches
    <3>2. PICK y \in P : C = Chunk(P, size, y)  BY DEF Batches
    <3> QED  BY <1>8, <1>10, <3>1, <3>2
  <2> QED  BY <2>1, <2>2 DEF InOrder
<1>12. UNION Batches(P, size) = P
  <2>1. \A x \in P : Chunk(P, size, x) \subseteq P  BY <1>1
  <2> QED  BY <1>9, <2>1 DEF Batches
<1> QED  BY <1>11, <1>12

\* The batches that come before one.
Earlier(batches, C) == {B \in batches : Before(B, C)}

\* If there are any, one of them is the last, and it has all the others before it.
LEMMA PreviousBatch ==
    ASSUME NEW batches \in SUBSET (SUBSET Points), InOrder(batches),
           NEW C \in batches, Earlier(batches, C) # {}
    PROVE  \E B \in Earlier(batches, C) : Earlier(batches, B) = Earlier(batches, C) \ {B}
<1> DEFINE E == Earlier(batches, C)
           Later(B) == {D \in E : Before(B, D)}
           T == {Later(B) : B \in E}
<1>0. \A B \in batches : B \subseteq Int /\ B # {}
  <2>1. Points \subseteq Int  BY SchedulerConstants DEF Points
  <2> QED  BY <2>1 DEF InOrder
<1>1. \A A, B, D \in batches : Before(A, B) /\ Before(B, D) => Before(A, D)
  <2> TAKE A, B, D \in batches
  <2> HAVE Before(A, B) /\ Before(B, D)
  <2>1. PICK y \in B : TRUE  BY <1>0
  <2>2. \A x \in A : \A z \in D : x \in Int /\ y \in Int /\ z \in Int /\ x < y /\ y < z
      BY <1>0, <2>1 DEF Before
  <2>3. \A x \in A : \A z \in D : x < z  BY <2>2
  <2> QED  BY <2>3 DEF Before
<1>2. \A B \in batches : ~Before(B, B)
  <2> TAKE B \in batches
  <2>1. PICK x \in B : x \in Int  BY <1>0
  <2> QED  BY <2>1 DEF Before
<1>3. E \subseteq batches  BY DEF Earlier
<1>f. IsFiniteSet(batches)
  <2>1. IsFiniteSet(Points)  BY SchedulerConstants, FS_Interval DEF Points
  <2>2. IsFiniteSet(SUBSET Points)  BY <2>1, FS_SUBSET
  <2> QED  BY <2>2, FS_Subset
<1>4. PICK B \in E : \A D \in E : Later(D) \subseteq Later(B) => Later(D) = Later(B)
  <2>1. T # {}  OBVIOUS
  <2>2. \A x \in T : x \in FiniteSubsetsOf(batches)
    <3>1. \A D \in E : Later(D) \subseteq batches /\ IsFiniteSet(Later(D))
        BY <1>3, <1>f, FS_Subset
    <3> QED  BY <3>1 DEF FiniteSubsetsOf
  <2>3. PICK x \in T : \A y \in T : y \subseteq x => y = x
    <3> HIDE DEF T
    <3> QED  BY <2>1, <2>2, SmallestSet
  <2>4. PICK B \in E : x = Later(B)  BY <2>3
  <2>5. \A D \in E : Later(D) \in T  OBVIOUS
  <2> HIDE DEF T, Later, E
  <2> QED  BY <2>3, <2>4, <2>5
<1>5. Later(B) = {}
  <2>1. SUFFICES ASSUME NEW D \in Later(B) PROVE FALSE  OBVIOUS
  <2>2. D \in E /\ D \in batches /\ B \in batches /\ Before(B, D)  BY <1>3
  <2>3. Later(D) \subseteq Later(B)
    <3>1. \A A \in Later(D) : A \in E /\ A \in batches /\ Before(D, A)  BY <1>3
    <3> QED  BY <1>1, <2>2, <3>1
  <2>4. D \notin Later(D)  BY <1>2, <2>2
  <2> QED  BY <1>4, <2>2, <2>3, <2>4
<1>6. \A D \in E : D = B \/ Before(D, B)
  <2>1. \A D \in E : D = B \/ Before(D, B) \/ Before(B, D)  BY <1>3 DEF InOrder
  <2> QED  BY <1>5, <2>1
<1>7. B \in batches /\ Before(B, C) /\ C \in batches  BY <1>3 DEF Earlier
<1>8. ASSUME NEW D \in Earlier(batches, B) PROVE D \in E \ {B}
  <2>1. D \in batches /\ Before(D, B)  BY DEF Earlier
  <2>2. Before(D, C) /\ D # B  BY <1>1, <1>2, <1>7, <2>1
  <2> QED  BY <2>1, <2>2 DEF Earlier
<1>9. ASSUME NEW D \in E \ {B} PROVE D \in Earlier(batches, B)
    BY <1>3, <1>6 DEF Earlier
<1>10. Earlier(batches, B) = E \ {B}  BY <1>8, <1>9
<1> QED  BY <1>10

(***************************************************************************)
(* The graph of the nodes.                                                 *)
(***************************************************************************)
GraphRight ==
    /\ Whole
    /\ run.create \subseteq run.snapshots
    /\ run.batches \in [run.snapshots -> SUBSET (SUBSET Points)]
    /\ \A s \in run.snapshots : InOrder(run.batches[s])

LEMMA NodesOf ==
    ASSUME GraphRight, NEW n \in Nodes
    PROVE  /\ n.snapshot \in run.snapshots /\ n.snapshot \in SnapshotIds
           /\ \/ /\ n \in EvaluateNodes(n.snapshot)
                 /\ n.points \in run.batches[n.snapshot] /\ n.points # {}
              \/ n = CreateNode(n.snapshot) /\ n.points = {} /\ HasCreateNode(n.snapshot)
<1>1. CASE \E s \in run.snapshots : n \in EvaluateNodes(s)
  <2>1. PICK s \in run.snapshots : n \in EvaluateNodes(s)  BY <1>1
  <2>2. PICK B \in run.batches[s] : n = [snapshot |-> s, points |-> B]  BY <2>1 DEF EvaluateNodes
  <2>3. B # {} /\ s \in SnapshotIds  BY <2>1, <2>2 DEF GraphRight, InOrder, Whole
  <2> QED  BY <2>1, <2>2, <2>3
<1>2. CASE \E s \in run.snapshots : HasCreateNode(s) /\ n = CreateNode(s)
  <2>1. PICK s \in run.snapshots : HasCreateNode(s) /\ n = CreateNode(s)  BY <1>2
  <2>2. s \in SnapshotIds /\ n.snapshot = s /\ n.points = {}
      BY <2>1 DEF GraphRight, Whole, CreateNode
  <2> QED  BY <2>1, <2>2
<1> QED  BY <1>1, <1>2 DEF Nodes

LEMMA EvaluationsAreNodes ==
    ASSUME GraphRight, NEW s \in run.snapshots, NEW n \in EvaluateNodes(s)
    PROVE  n \in Nodes /\ n.snapshot = s /\ n.points \in run.batches[s] /\ n.points # {}
<1>1. n \in Nodes  BY DEF Nodes
<1>2. PICK B \in run.batches[s] : n = [snapshot |-> s, points |-> B]  BY DEF EvaluateNodes
<1>3. B # {}  BY <1>2 DEF GraphRight, InOrder
<1> QED  BY <1>1, <1>2, <1>3

LEMMA CreationsAreNodes ==
    ASSUME NEW s \in run.snapshots, HasCreateNode(s)
    PROVE  CreateNode(s) \in Nodes /\ CreateNode(s).snapshot = s /\ CreateNode(s).points = {}
BY DEF Nodes, CreateNode

LEMMA IndexIsNumber ==
    ASSUME GraphRight, NEW n, n.snapshot \in run.snapshots
    PROVE  BatchIndex(n) \in Nat
<1>1. IsFiniteSet(SUBSET Points)
  <2>1. IsFiniteSet(Points)  BY SchedulerConstants, FS_Interval DEF Points
  <2> QED  BY <2>1, FS_SUBSET
<1>2. run.batches[n.snapshot] \subseteq SUBSET Points  BY DEF GraphRight
<1> DEFINE E == {B \in run.batches[n.snapshot] : \A x \in B : \A y \in n.points : x < y}
<1>3. IsFiniteSet(E)
  <2>1. E \subseteq SUBSET Points  BY <1>2
  <2> QED  BY <1>1, <2>1, FS_Subset
<1>4. Cardinality(E) \in Nat  BY <1>3, FS_CardinalityType
<1> QED  BY <1>4 DEF BatchIndex

LEMMA UpstreamNodes ==
    ASSUME GraphRight
    PROVE  \A s \in run.snapshots :
             \A d \in Upstream[s] : d \in Nodes /\ d.snapshot \in {s} \cup Ancestors[s]
<1> DEFINE Right(s) == \A d \in Upstream[s] : d \in Nodes /\ d.snapshot \in {s} \cup Ancestors[s]
           Wrong == {s \in run.snapshots : ~Right(s)}
<1>1. SUFFICES ASSUME Wrong # {} PROVE FALSE  OBVIOUS
<1>2. PICK s \in Wrong : Ancestors[s] \cap Wrong = {}
  <2>1. Wrong \in SUBSET SnapshotIds  BY DEF GraphRight, Whole
  <2> HIDE DEF Wrong
  <2> QED  BY <1>1, <2>1, NoAncestorAmong
<1>3. s \in run.snapshots /\ s \in SnapshotIds /\ Whole  BY <1>2 DEF GraphRight, Whole
<1>4. Parents[s] \subseteq run.snapshots  BY <1>3 DEF Whole
<1>5. Parents[s] \subseteq Ancestors[s] /\ \A p \in Parents[s] : Ancestors[p] \subseteq Ancestors[s]
    BY <1>3, AncestorsOf
<1>6. \A p \in Parents[s] : Right(p)  BY <1>2, <1>4, <1>5
<1>7. Right(s)
  <2>1. CASE run.batches[s] # {}
    <3>1. Upstream[s] = EvaluateNodes(s)  BY <1>3, <2>1, UpstreamOf
    <3> QED  BY <1>3, <3>1, EvaluationsAreNodes
  <2>2. CASE run.batches[s] = {} /\ s \in run.create
    <3>1. Upstream[s] = {CreateNode(s)}  BY <1>3, <2>2, UpstreamOf
    <3>2. HasCreateNode(s)  BY <2>2 DEF HasCreateNode
    <3> QED  BY <1>3, <3>1, <3>2, CreationsAreNodes
  <2>3. CASE run.batches[s] = {} /\ s \notin run.create
    <3>1. Upstream[s] = UNION {Upstream[p] : p \in Parents[s]}  BY <1>3, <2>3, UpstreamOf
    <3> QED  BY <1>5, <1>6, <3>1
  <2> QED  BY <2>1, <2>2, <2>3
<1> QED  BY <1>2, <1>7

\* Node n does not begin before m has been done.
Held(n, m) ==
    \/ m.snapshot \in Ancestors[n.snapshot]
    \/ /\ m.snapshot = n.snapshot /\ n.points # {}
       /\ m.points = {} \/ (Concurrency(n.snapshot) # 0 /\ BatchIndex(m) < BatchIndex(n))

LEMMA DependenciesHold ==
    ASSUME GraphRight, NEW n \in Nodes, NEW d \in Dependencies(n)
    PROVE  d \in Nodes /\ Held(n, d)
<1> DEFINE s == n.snapshot
           upstream == UNION {Upstream[p] : p \in Parents[s]}
<1>1. s \in run.snapshots /\ s \in SnapshotIds  BY NodesOf
<1>2. ASSUME d \in upstream PROVE d \in Nodes /\ Held(n, d)
  <2>1. PICK p \in Parents[s] : d \in Upstream[p]  BY <1>2
  <2>2. p \in run.snapshots  BY <1>1, <2>1 DEF GraphRight, Whole
  <2>3. d \in Nodes /\ d.snapshot \in {p} \cup Ancestors[p]  BY <2>1, <2>2, UpstreamNodes
  <2>4. d.snapshot \in Ancestors[s]  BY <1>1, <2>1, <2>3, AncestorsOf
  <2> QED  BY <2>3, <2>4 DEF Held
<1>3. CASE n.points = {}  BY <1>2, <1>3 DEF Dependencies
<1>4. CASE n.points # {}
  <2>1. CASE d \in upstream  BY <1>2, <2>1
  <2>2. CASE HasCreateNode(s) /\ d = CreateNode(s)
    <3>1. d \in Nodes /\ d.snapshot = s /\ d.points = {}  BY <1>1, <2>2, CreationsAreNodes
    <3> QED  BY <1>4, <3>1 DEF Held
  <2>3. CASE /\ d \in EvaluateNodes(s)
             /\ Concurrency(s) # 0 /\ BatchIndex(n) = BatchIndex(d) + Concurrency(s)
    <3>1. d \in Nodes /\ d.snapshot = s  BY <1>1, <2>3, EvaluationsAreNodes
    <3>2. Concurrency(s) \in Nat  BY <1>1, SchedulerConstants DEF Concurrency
    <3>3. BatchIndex(n) \in Nat /\ BatchIndex(d) \in Nat  BY <1>1, <3>1, IndexIsNumber
    <3>4. BatchIndex(d) < BatchIndex(n)  BY <2>3, <3>2, <3>3
    <3> QED  BY <1>4, <2>3, <3>1, <3>4 DEF Held
  <2> QED  BY <1>4, <2>1, <2>2, <2>3 DEF Dependencies
<1> QED  BY <1>3, <1>4

LEMMA HeldThrough ==
    ASSUME GraphRight, NEW n \in Nodes, NEW d \in Nodes, NEW m \in Nodes, Held(n, d), Held(d, m)
    PROVE  Held(n, m)
<1>1. /\ n.snapshot \in SnapshotIds /\ d.snapshot \in SnapshotIds
      /\ n.snapshot \in run.snapshots /\ d.snapshot \in run.snapshots /\ m.snapshot \in run.snapshots
    BY NodesOf
<1>2. CASE d.snapshot \in Ancestors[n.snapshot]
  <2>1. m.snapshot \in Ancestors[n.snapshot]  BY <1>1, <1>2, AncestorsOf DEF Held
  <2> QED  BY <2>1 DEF Held
<1>3. CASE d.snapshot = n.snapshot /\ m.snapshot \in Ancestors[d.snapshot]
    BY <1>3 DEF Held
<1>4. CASE d.snapshot \notin Ancestors[n.snapshot] /\ m.snapshot \notin Ancestors[d.snapshot]
  <2>1. BatchIndex(n) \in Nat /\ BatchIndex(d) \in Nat /\ BatchIndex(m) \in Nat
      BY <1>1, IndexIsNumber
  <2> QED  BY <1>4, <2>1 DEF Held
<1> QED  BY <1>2, <1>3, <1>4 DEF Held

\* Nodes do not hold each other in a circle.
LEMMA NoneHeldAmong ==
    ASSUME GraphRight, NEW T \in SUBSET Nodes, T # {}
    PROVE  \E n \in T : \A m \in T : ~Held(n, m)
<1> DEFINE S == {n.snapshot : n \in T}
<1>1. S \in SUBSET SnapshotIds /\ S # {}  BY NodesOf
<1>2. PICK s \in S : Ancestors[s] \cap S = {}
  <2> HIDE DEF S
  <2> QED  BY <1>1, NoAncestorAmong
<1> DEFINE Of == {n \in T : n.snapshot = s}
           I == {BatchIndex(n) : n \in Of}
<1>3. CASE \E n \in Of : n.points = {}
    BY <1>2, <1>3 DEF Held
<1>4. CASE \A n \in Of : n.points # {}
  <2>1. I \in SUBSET Nat
    <3>1. \A n \in Of : n.snapshot \in run.snapshots  BY NodesOf
    <3> QED  BY <3>1, IndexIsNumber
  <2>2. I # {}  OBVIOUS
  <2>3. PICK i \in I : \A j \in I : i <= j
    <3> HIDE DEF I
    <3> QED  BY <2>1, <2>2, SmallestNumber
  <2>4. PICK n \in Of : i = BatchIndex(n)  BY <2>3
  <2>5. ASSUME NEW m \in T, Held(n, m) PROVE FALSE
    <3>1. m.snapshot \notin Ancestors[s] /\ n.snapshot = s  BY <1>2
    <3>2. m.snapshot = s /\ (m.points = {} \/ BatchIndex(m) < BatchIndex(n))
        BY <2>5, <3>1 DEF Held
    <3>3. m \in Of /\ m.points # {}  BY <1>4, <3>2
    <3>4. BatchIndex(m) \in I /\ BatchIndex(n) \in I  BY <3>3
    <3>5. BatchIndex(n) <= BatchIndex(m)  BY <2>3, <2>4, <3>4
    <3>6. BatchIndex(n) \in Nat /\ BatchIndex(m) \in Nat  BY <2>1, <3>4
    <3> QED  BY <3>2, <3>3, <3>5, <3>6
  <2> QED  BY <2>5
<1> QED  BY <1>3, <1>4

\* When nothing runs and nothing may run, what has not been done is held by a failure:
\* what waits for a dummy node waits for a batch, if the breaker has not been tripped.
LEMMA HeldByFailure ==
    ASSUME GraphRight, Finished, ~run.tripped, failed \subseteq Nodes
    PROVE  \A n \in Nodes \ (done \cup failed) : \E m \in failed : Held(n, m)
<1> DEFINE Left == Nodes \ (done \cup failed)
           Wrong == {n \in Left : ~\E m \in failed : Held(n, m)}
<1>1. SUFFICES ASSUME Wrong # {} PROVE FALSE  OBVIOUS
<1>2. PICK n \in Wrong : \A m \in Wrong : ~Held(n, m)
  <2>1. Wrong \in SUBSET Nodes  OBVIOUS
  <2> HIDE DEF Wrong
  <2> QED  BY <1>1, <2>1, NoneHeldAmong
<1>3. n \in Nodes \ (started \cup done \cup failed) /\ n \notin Ready  BY DEF Finished
<1>4. PICK d \in Nodes \ done : Held(n, d)
  <2>1. PICK m \in Dependencies(n) :
          \/ m \notin done
          \/ m.snapshot # n.snapshot /\ HasDummy(m.snapshot) /\ m.snapshot \notin run.passed
      BY <1>3 DEF Ready
  <2>2. m \in Nodes /\ Held(n, m)  BY <1>3, DependenciesHold
  <2>3. CASE m \notin done  BY <2>2, <2>3
  <2>4. CASE m.snapshot # n.snapshot /\ HasDummy(m.snapshot) /\ m.snapshot \notin run.passed
    <3>1. m.snapshot \in run.snapshots  BY <2>2, NodesOf
    <3>2. m.snapshot \notin ReadyDummies  BY DEF Finished
    <3>3. PICK d \in EvaluateNodes(m.snapshot) : d \notin done
        BY <2>4, <3>1, <3>2 DEF ReadyDummies
    <3>4. d \in Nodes /\ d.snapshot = m.snapshot  BY <3>1, EvaluationsAreNodes
    <3>5. Held(n, d)  BY <2>2, <2>4, <3>4 DEF Held
    <3> QED  BY <3>3, <3>4, <3>5
  <2> QED  BY <2>1, <2>3, <2>4
<1>5. CASE d \in failed  BY <1>4, <1>5
<1>6. CASE d \notin failed
  <2>1. d \in Left /\ d \notin Wrong  BY <1>2, <1>4, <1>6
  <2>2. PICK m \in failed : Held(d, m)  BY <2>1
  <2>3. m \in Nodes  BY <2>2
  <2>4. Held(n, m)  BY <1>3, <1>4, <2>2, <2>3, HeldThrough
  <2> QED  BY <2>2, <2>4
<1> QED  BY <1>5, <1>6

\* What has been done was done after all that it depends on.
DoneInOrder ==
    /\ done \subseteq Nodes
    /\ \A n \in done : Dependencies(n) \subseteq done

\* What parents of a snapshot have to do has been done when one of its nodes begins.
LEMMA UpstreamDone ==
    ASSUME GraphRight, DoneInOrder, NEW n \in Nodes, Dependencies(n) \subseteq done
    PROVE  \A p \in Parents[n.snapshot] : Upstream[p] \subseteq done
<1> DEFINE s == n.snapshot
           upstream == UNION {Upstream[p] : p \in Parents[s]}
<1>1. s \in run.snapshots  BY NodesOf
<1>2. CASE n.points = {}
  <2>1. Dependencies(n) = upstream  BY <1>2 DEF Dependencies
  <2> QED  BY <2>1
<1>3. CASE n.points # {} /\ ~HasCreateNode(s)
  <2>1. upstream \subseteq Dependencies(n)  BY <1>3 DEF Dependencies
  <2> QED  BY <2>1
<1>4. CASE n.points # {} /\ HasCreateNode(s)
  <2>1. CreateNode(s) \in Dependencies(n)  BY <1>4 DEF Dependencies
  <2>2. CreateNode(s).points = {} /\ CreateNode(s).snapshot = s  BY DEF CreateNode
  <2>3. Dependencies(CreateNode(s)) = upstream  BY <2>2 DEF Dependencies
  <2>4. upstream \subseteq done  BY <2>1, <2>3 DEF DoneInOrder
  <2> QED  BY <2>4
<1> QED  BY <1>2, <1>3, <1>4

\* So has everything upstream, at any distance, although snapshots in between may have
\* nothing to do.
LEMMA AncestorsDone ==
    ASSUME GraphRight, DoneInOrder, NEW s \in run.snapshots,
           \A p \in Parents[s] : Upstream[p] \subseteq done
    PROVE  \A a \in Ancestors[s] : a \in run.snapshots /\ EvaluateNodes(a) \subseteq done
<1> DEFINE Begun(q) == \A p \in Parents[q] : Upstream[p] \subseteq done
           Right(q) == \A a \in Ancestors[q] : a \in run.snapshots /\ EvaluateNodes(a) \subseteq done
           Wrong == {q \in run.snapshots : Begun(q) /\ ~Right(q)}
<1>1. SUFFICES ASSUME Wrong # {} PROVE FALSE  OBVIOUS
<1>2. PICK q \in Wrong : Ancestors[q] \cap Wrong = {}
  <2>1. Wrong \in SUBSET SnapshotIds  BY DEF GraphRight, Whole
  <2> HIDE DEF Wrong
  <2> QED  BY <1>1, <2>1, NoAncestorAmong
<1>3. q \in run.snapshots /\ q \in SnapshotIds /\ Whole  BY <1>2 DEF GraphRight, Whole
<1>4. Ancestors[q] = Parents[q] \cup UNION {Ancestors[p] : p \in Parents[q]}  BY <1>3, AncestorsOf
<1>5. ASSUME NEW p \in Parents[q]
      PROVE  p \in run.snapshots /\ EvaluateNodes(p) \subseteq done /\ Begun(p)
  <2>1. p \in run.snapshots  BY <1>3 DEF Whole
  <2>2. Upstream[p] \subseteq done  BY <1>2
  <2>3. CASE run.batches[p] # {}
    <3>1. Upstream[p] = EvaluateNodes(p)  BY <1>3, <2>1, <2>3, UpstreamOf
    <3>2. PICK n \in EvaluateNodes(p) : TRUE  BY <2>3 DEF EvaluateNodes
    <3>3. n \in Nodes /\ n.snapshot = p  BY <2>1, EvaluationsAreNodes
    <3>4. Dependencies(n) \subseteq done  BY <2>2, <3>1 DEF DoneInOrder
    <3>5. Begun(p)  BY <3>3, <3>4, UpstreamDone
    <3> QED  BY <2>1, <2>2, <3>1, <3>5
  <2>4. CASE run.batches[p] = {} /\ p \in run.create
    <3>1. Upstream[p] = {CreateNode(p)}  BY <1>3, <2>1, <2>4, UpstreamOf
    <3>2. HasCreateNode(p)  BY <2>4 DEF HasCreateNode
    <3>3. CreateNode(p) \in Nodes /\ CreateNode(p).snapshot = p  BY <2>1, <3>2, CreationsAreNodes
    <3>4. Dependencies(CreateNode(p)) \subseteq done  BY <2>2, <3>1 DEF DoneInOrder
    <3>5. \A r \in Parents[CreateNode(p).snapshot] : Upstream[r] \subseteq done
        BY <3>3, <3>4, UpstreamDone
    <3>6. EvaluateNodes(p) = {}  BY <2>4 DEF EvaluateNodes
    <3> QED  BY <2>1, <3>3, <3>5, <3>6
  <2>5. CASE run.batches[p] = {} /\ p \notin run.create
    <3>1. Upstream[p] = UNION {Upstream[r] : r \in Parents[p]}  BY <1>3, <2>1, <2>5, UpstreamOf
    <3>2. EvaluateNodes(p) = {}  BY <2>5 DEF EvaluateNodes
    <3> QED  BY <2>1, <2>2, <3>1, <3>2
  <2> QED  BY <2>3, <2>4, <2>5
<1>6. \A p \in Parents[q] : Right(p)
  <2>1. \A p \in Parents[q] : p \in Ancestors[q] /\ p \notin Wrong  BY <1>2, <1>4
  <2> QED  BY <1>5, <2>1
<1>7. Right(q)  BY <1>4, <1>5, <1>6
<1> QED  BY <1>2, <1>7

\* If batches of a snapshot are evaluated one at a time, all the earlier ones have been
\* when one begins.
LEMMA EarlierDone ==
    ASSUME GraphRight, DoneInOrder, NEW s \in run.snapshots, Concurrency(s) = 1,
           NEW C \in run.batches[s], Dependencies([snapshot |-> s, points |-> C]) \subseteq done
    PROVE  \A B \in Earlier(run.batches[s], C) : [snapshot |-> s, points |-> B] \in done
<1> DEFINE Batch(B) == [snapshot |-> s, points |-> B]
           E(B) == Earlier(run.batches[s], B)
           Follows(B) == Dependencies(Batch(B)) \subseteq done
           Wrong == {B \in run.batches[s] : Follows(B) /\ \E D \in E(B) : Batch(D) \notin done}
           T == {E(B) : B \in Wrong}
<1>1. SUFFICES ASSUME Wrong # {} PROVE FALSE  OBVIOUS
<1>2. InOrder(run.batches[s]) /\ run.batches[s] \in SUBSET (SUBSET Points)  BY DEF GraphRight
<1>3. \A B : E(B) \subseteq run.batches[s]  BY DEF Earlier
<1>4. IsFiniteSet(run.batches[s])
  <2>1. IsFiniteSet(Points)  BY SchedulerConstants, FS_Interval DEF Points
  <2>2. IsFiniteSet(SUBSET Points)  BY <2>1, FS_SUBSET
  <2> QED  BY <1>2, <2>2, FS_Subset
<1>5. PICK B \in Wrong : \A D \in Wrong : E(D) \subseteq E(B) => E(D) = E(B)
  <2>1. T # {}  BY <1>1
  <2>2. \A x \in T : x \in FiniteSubsetsOf(run.batches[s])
    <3>1. \A D : IsFiniteSet(E(D))  BY <1>3, <1>4, FS_Subset
    <3> QED  BY <1>3, <3>1 DEF FiniteSubsetsOf
  <2>3. PICK x \in T : \A y \in T : y \subseteq x => y = x
    <3> HIDE DEF T
    <3> QED  BY <2>1, <2>2, SmallestSet
  <2>4. PICK B \in Wrong : x = E(B)  BY <2>3
  <2>5. \A D \in Wrong : E(D) \in T  OBVIOUS
  <2> HIDE DEF T, Wrong, E
  <2> QED  BY <2>3, <2>4, <2>5
<1>6. PICK D \in E(B) : Batch(D) \notin done  BY <1>5
<1>7. PICK L \in E(B) : E(L) = E(B) \ {L}
  <2>1. B \in run.batches[s] /\ E(B) # {}  BY <1>5, <1>6
  <2> QED  BY <1>2, <2>1, PreviousBatch
<1>8. Batch(L) \in Dependencies(Batch(B))
  <2>1. L \in run.batches[s] /\ B \in run.batches[s]  BY <1>3, <1>5
  <2>2. Batch(L) \in EvaluateNodes(s)  BY <2>1 DEF EvaluateNodes
  <2>3. BatchIndex(Batch(B)) = BatchIndex(Batch(L)) + 1
    <3>1. /\ BatchIndex(Batch(B)) = Cardinality(E(B))
          /\ BatchIndex(Batch(L)) = Cardinality(E(L))
        BY DEF BatchIndex, Earlier, Before
    <3>2. IsFiniteSet(E(B))  BY <1>3, <1>4, FS_Subset
    <3>3. Cardinality(E(B) \ {L}) = Cardinality(E(B)) - 1 /\ Cardinality(E(B)) \in Nat
        BY <1>7, <3>2, FS_RemoveElement, FS_CardinalityType
    <3> QED  BY <1>7, <3>1, <3>3
  <2>4. B # {}  BY <1>2, <2>1 DEF InOrder
  <2>5. Batch(B).snapshot = s /\ Batch(B).points = B  OBVIOUS
  <2> HIDE DEF Batch
  <2> QED  BY <2>2, <2>3, <2>4, <2>5 DEF Dependencies
<1>9. Batch(L) \in done /\ Follows(L)  BY <1>5, <1>8 DEF DoneInOrder
<1>10. D # L /\ D \in E(L)  BY <1>6, <1>7, <1>9
<1>11. L \in Wrong
  <2>1. L \in run.batches[s]  BY <1>3
  <2> HIDE DEF E, Batch
  <2> QED  BY <1>6, <1>9, <1>10, <2>1
<1>12. E(L) \subseteq E(B) /\ E(L) # E(B)  BY <1>7
<1> HIDE DEF Wrong, E
<1> QED  BY <1>5, <1>11, <1>12

(***************************************************************************)
(* What is planned when a run starts.                                      *)
(***************************************************************************)

\* Signals do not hold back what is upstream of a snapshot that others select from and
\* that depends on the past: those do not learn of what interval_diff leaves out of it.
PastWithoutSignalsAbove ==
    \A s \in SnapshotIds : \A p \in Parents[s] \cap DependsOnPast : Ancestors[p] \cap Signalled = {}

\* A snapshot that depends on the past has no signals of its own.
PastWithoutSignals == DependsOnPast \cap Signalled = {}

\* What a run finds: missing intervals, and those that signals take to be ready.
Found(S, missing, ready) ==
    /\ S \in SUBSET SnapshotIds
    /\ \A s \in S : Parents[s] \subseteq S
    /\ missing \in [S -> SUBSET Points]
    /\ ready \in [S -> SUBSET Points]
    /\ \A s \in S : ready[s] \subseteq missing[s]
    /\ \A s \in S \ Signalled : ready[s] = missing[s]

LEMMA HeldBackBySignals ==
    ASSUME NEW S, NEW missing, NEW ready, Found(S, missing, ready)
    PROVE  \A s \in S : ({s} \cup Ancestors[s]) \cap Signalled = {}
                            => Unready(S, missing, ready)[s] = {}
<1> DEFINE U == Unready(S, missing, ready)
           Free(s) == ({s} \cup Ancestors[s]) \cap Signalled = {}
           Wrong == {s \in S : Free(s) /\ U[s] # {}}
<1>1. SUFFICES ASSUME Wrong # {} PROVE FALSE  OBVIOUS
<1>2. PICK s \in Wrong : Ancestors[s] \cap Wrong = {}
  <2>1. Wrong \in SUBSET SnapshotIds  BY DEF Found
  <2> HIDE DEF Wrong
  <2> QED  BY <1>1, <2>1, NoAncestorAmong
<1>3. s \in S /\ s \in SnapshotIds /\ Parents[s] \subseteq S /\ ready[s] = missing[s]
    BY <1>2 DEF Found
<1>4. U[s] = IF missing[s] = {} THEN {}
             ELSE (missing[s] \ ready[s]) \cup UNION {U[p] : p \in Parents[s]}
  <2>1. S \in SUBSET SnapshotIds /\ \A q \in S : Parents[q] \subseteq S  BY DEF Found
  <2>2. HoldsBack(U, S, missing, ready)  BY <2>1, UnreadyOf
  <2> HIDE DEF U
  <2> QED  BY <1>3, <2>2 DEF HoldsBack
<1>5. \A p \in Parents[s] : p \in Ancestors[s] /\ Free(p)
    BY <1>2, <1>3, AncestorsOf
<1>6. \A p \in Parents[s] : U[p] = {}
  <2> HIDE DEF U, Free
  <2> QED  BY <1>2, <1>3, <1>5
<1>7. U[s] = {}  BY <1>3, <1>4, <1>6
<1> QED  BY <1>2, <1>7

LEMMA PlannedRight ==
    ASSUME NEW S, NEW missing, NEW ready, Found(S, missing, ready),
           NEW U, U = Unready(S, missing, ready),
           NEW D, D = [s \in S |-> IntervalDiff(s, ready[s], U[s])]
    PROVE  /\ \A s \in S : D[s] \subseteq ready[s]
           /\ \A s \in S : \A x \in missing[s] :
                x \in D[s] \/ x \in U[s] \/ (s \in DependsOnPast /\ \E y \in U[s] : y < x)
           /\ PastWithoutSignalsAbove =>
                \A s \in S : \A p \in Parents[s] : \A x \in D[s] : x \in missing[p] => x \in D[p]
           /\ PastWithoutSignals =>
                \A s \in S \cap DependsOnPast : \A x \in D[s] : \A z \in 1..(x - 1) :
                    z \in missing[s] => z \in D[s]
<1>0. Points \subseteq Int  BY SchedulerConstants DEF Points
<1>1. \A s \in S : /\ s \in SnapshotIds /\ Parents[s] \subseteq S
                   /\ missing[s] \in SUBSET Points /\ ready[s] \subseteq missing[s]
    BY DEF Found
<1>2. \A s \in S : U[s] = IF missing[s] = {} THEN {}
                   ELSE (missing[s] \ ready[s]) \cup UNION {U[p] : p \in Parents[s]}
  <2>1. S \in SUBSET SnapshotIds /\ \A q \in S : Parents[q] \subseteq S  BY DEF Found
  <2>2. HoldsBack(U, S, missing, ready)  BY <2>1, UnreadyOf
  <2> QED  BY <2>2 DEF HoldsBack
<1>3. \A s \in S \ DependsOnPast : D[s] = ready[s] \ U[s]  BY DEF IntervalDiff
<1>4. \A s \in S \cap DependsOnPast :
        D[s] = {x \in ready[s] : \A y \in ready[s] \cap U[s] : x < y}
    BY DEF IntervalDiff
<1>5. \A s \in S : D[s] \subseteq ready[s]
  <2> TAKE s \in S
  <2>1. CASE s \in DependsOnPast  BY <1>4, <2>1
  <2>2. CASE s \notin DependsOnPast  BY <1>3, <2>2
  <2> QED  BY <2>1, <2>2
<1>6. ASSUME NEW s \in S, NEW x \in D[s] PROVE x \notin U[s] /\ x \in Int
  <2>1. x \in ready[s] /\ x \in Int  BY <1>0, <1>1, <1>5
  <2>2. CASE s \in DependsOnPast
    <3>1. \A y \in ready[s] \cap U[s] : x < y  BY <1>4, <2>2
    <3> QED  BY <2>1, <3>1
  <2>3. CASE s \notin DependsOnPast  BY <1>3, <2>1, <2>3
  <2> QED  BY <2>2, <2>3
<1>7. ASSUME NEW s \in S, NEW x \in missing[s]
      PROVE  x \in D[s] \/ x \in U[s] \/ (s \in DependsOnPast /\ \E y \in U[s] : y < x)
  <2>1. CASE x \notin ready[s]  BY <1>2, <2>1
  <2>2. CASE x \in ready[s] /\ s \notin DependsOnPast  BY <1>3, <2>2
  <2>3. CASE x \in ready[s] /\ s \in DependsOnPast
    <3>1. CASE \A y \in ready[s] \cap U[s] : x < y  BY <1>4, <2>3, <3>1
    <3>2. CASE \E y \in ready[s] \cap U[s] : ~(x < y)
      <4>1. PICK y \in ready[s] \cap U[s] : ~(x < y)  BY <3>2
      <4>2. x \in Int /\ y \in Int  BY <1>0, <1>1, <4>1
      <4>3. x = y \/ y < x  BY <4>1, <4>2
      <4> QED  BY <2>3, <4>1, <4>3
    <3> QED  BY <3>1, <3>2
  <2> QED  BY <2>1, <2>2, <2>3
<1>8. ASSUME PastWithoutSignalsAbove,
             NEW s \in S, NEW p \in Parents[s], NEW x \in D[s], x \in missing[p]
      PROVE  x \in D[p]
  <2>1. p \in S /\ p \in SnapshotIds /\ s \in SnapshotIds  BY <1>1
  <2>2. missing[s] # {}  BY <1>1, <1>5
  <2>3. U[p] \subseteq U[s]
    <3>1. U[s] = (missing[s] \ ready[s]) \cup UNION {U[q] : q \in Parents[s]}  BY <1>2, <2>2
    <3> QED  BY <3>1
  <2>4. x \notin U[p]  BY <1>6, <2>3
  <2>5. missing[p] \ ready[p] \subseteq U[p]  BY <1>2, <1>8, <2>1
  <2>6. x \in ready[p]  BY <1>8, <2>4, <2>5
  <2>7. CASE p \notin DependsOnPast  BY <1>3, <2>1, <2>4, <2>6, <2>7
  <2>8. CASE p \in DependsOnPast
    <3>1. Ancestors[p] \cap Signalled = {}  BY <1>8, <2>1, <2>8 DEF PastWithoutSignalsAbove
    <3>2. ASSUME NEW q \in Parents[p] PROVE U[q] = {}
      <4>1. q \in S /\ q \in Ancestors[p] /\ Ancestors[q] \subseteq Ancestors[p]
          BY <1>1, <2>1, AncestorsOf
      <4>2. ({q} \cup Ancestors[q]) \cap Signalled = {}  BY <3>1, <4>1
      <4> QED  BY <4>1, <4>2, HeldBackBySignals
    <3>3. ready[p] \cap U[p] = {}
      <4>1. UNION {U[q] : q \in Parents[p]} = {}  BY <3>2
      <4>2. U[p] \subseteq missing[p] \ ready[p]  BY <1>2, <2>1, <4>1
      <4> QED  BY <4>2
    <3> QED  BY <1>4, <2>1, <2>6, <2>8, <3>3
  <2> QED  BY <2>7, <2>8
<1>9. ASSUME PastWithoutSignals, NEW s \in S \cap DependsOnPast, NEW x \in D[s],
             NEW z \in 1..(x - 1), z \in missing[s]
      PROVE  z \in D[s]
  <2>1. ready[s] = missing[s]  BY <1>9 DEF PastWithoutSignals, Found
  <2>2. x \in Int /\ z \in Int /\ z < x  BY <1>6
  <2>3. \A y \in ready[s] \cap U[s] : x < y /\ y \in Int  BY <1>0, <1>1, <1>4
  <2>4. \A y \in ready[s] \cap U[s] : z < y  BY <2>2, <2>3
  <2> QED  BY <1>4, <1>9, <2>1, <2>4
<1> QED  BY <1>5, <1>7, <1>8, <1>9

(***************************************************************************)
(* The invariant of a run.                                                 *)
(***************************************************************************)
Planned == run.status \in {"running", "success", "failure"}

HeldBack(s, x) ==
    x \in run.unready[s] \/ (s \in DependsOnPast /\ \E y \in run.unready[s] : y < x)

\* What is missing is planned, unless it is held back; what is planned is there, or
\* planned, upstream, and so is what came before.
PlanRight ==
    Planned =>
        /\ GraphRight
        /\ \A s \in run.snapshots \ run.create : run.batches[s] # {} => s \in tables
        /\ \A s \in run.snapshots : \A x \in Points \ loaded[s] :
              x \in UNION run.batches[s] \/ HeldBack(s, x)
        /\ PastWithoutSignalsAbove =>
              \A s \in run.snapshots : \A p \in Parents[s] : \A x \in UNION run.batches[s] :
                  x \in loaded[p] \cup UNION run.batches[p]
        /\ PastWithoutSignals =>
              \A s \in run.snapshots \cap DependsOnPast : \A x \in UNION run.batches[s] :
                  \A z \in 1..(x - 1) : z \in loaded[s] \cup UNION run.batches[s]

\* Nodes are evaluated after what they depend on, and what has been done is recorded; at
\* the end only what is behind a failure is left.
WorkRight ==
    /\ ~Planned => started = {} /\ done = {} /\ failed = {}
    /\ started \subseteq Nodes /\ failed \subseteq Nodes
    /\ DoneInOrder
    /\ \A n \in started : Dependencies(n) \subseteq done
    /\ \A n \in done : n.points \subseteq loaded[n.snapshot] /\ n.snapshot \in tables
    /\ run.status = "success" => Nodes \subseteq done
    /\ run.status = "failure" =>
            \A n \in Nodes \ (done \cup failed) : \E m \in failed : Held(n, m)

WorkInv == TypeInv /\ PlanRight /\ WorkRight

\* As long as a run does not start anew its graph stays.
LEMMA GraphStays ==
    ASSUME run'.snapshots = run.snapshots, run'.create = run.create, run'.batches = run.batches
    PROVE  /\ GraphRight' <=> GraphRight
           /\ Nodes' = Nodes
           /\ \A n : Dependencies(n)' = Dependencies(n)
           /\ \A n, m : Held(n, m)' <=> Held(n, m)
<1> DEFINE Up(S, B, C) ==
             LET upstream[s \in S] ==
                   IF B[s] # {} THEN {[snapshot |-> s, points |-> P] : P \in B[s]}
                   ELSE IF s \in C THEN {CreateNode(s)}
                   ELSE UNION {upstream[p] : p \in Parents[s]}
             IN  upstream
<1>1. Upstream = Up(run.snapshots, run.batches, run.create)  BY DEF Upstream, EvaluateNodes
<1>2. Upstream' = Up(run'.snapshots, run'.batches, run'.create)
    BY DEF Upstream, EvaluateNodes, CreateNode
<1> HIDE DEF Up
<1>3. Upstream' = Upstream  BY <1>1, <1>2
<1>4. \A s : EvaluateNodes(s)' = EvaluateNodes(s)  BY DEF EvaluateNodes
<1>5. \A s : HasCreateNode(s)' <=> HasCreateNode(s)  BY DEF HasCreateNode, Concurrency
<1>6. \A n : BatchIndex(n)' = BatchIndex(n)  BY DEF BatchIndex
<1>7. Nodes' = Nodes
  <2>1. UNION {EvaluateNodes(s)' : s \in run.snapshots} = UNION {EvaluateNodes(s) : s \in run.snapshots}
      BY <1>4
  <2>2. {s \in run.snapshots : HasCreateNode(s)'} = {s \in run.snapshots : HasCreateNode(s)}
      BY <1>5
  <2> QED  BY <2>1, <2>2 DEF Nodes, CreateNode
<1>8. ASSUME NEW n PROVE Dependencies(n)' = Dependencies(n)
  <2> DEFINE earlier == {m \in EvaluateNodes(n.snapshot) :
                           /\ Concurrency(n.snapshot) # 0
                           /\ BatchIndex(n) = BatchIndex(m) + Concurrency(n.snapshot)}
  <2>1. earlier' = earlier
    <3>1. \A m : m \in earlier' <=> m \in earlier  BY <1>4, <1>6 DEF Concurrency
    <3> HIDE DEF earlier
    <3> QED  BY <3>1
  <2>2. UNION {Upstream'[p] : p \in Parents[n.snapshot]} = UNION {Upstream[p] : p \in Parents[n.snapshot]}
      BY <1>3
  <2> QED  BY <1>5, <2>1, <2>2 DEF Dependencies, CreateNode
<1>9. \A n, m : Held(n, m)' <=> Held(n, m)  BY <1>6 DEF Held, Concurrency
<1>10. GraphRight' <=> GraphRight  BY DEF GraphRight, Whole, InOrder, Before
<1> QED  BY <1>7, <1>8, <1>9, <1>10

\* The run goes on with the same plan.
SamePlan ==
    /\ run'.snapshots = run.snapshots /\ run'.create = run.create
    /\ run'.batches = run.batches /\ run'.unready = run.unready

LEMMA PlanStays ==
    ASSUME PlanRight, SamePlan, Planned, tables \subseteq tables',
           \A s \in SnapshotIds : loaded[s] \subseteq loaded'[s]
    PROVE  PlanRight'
<1>0. GraphRight' /\ GraphRight  BY GraphStays DEF PlanRight, SamePlan
<1>1. run.snapshots \subseteq SnapshotIds /\ \A s \in run.snapshots : Parents[s] \subseteq run.snapshots
    BY <1>0 DEF GraphRight, Whole
<1>2. \A s \in run'.snapshots \ run'.create : run'.batches[s] # {} => s \in tables'
    BY DEF PlanRight, SamePlan
<1>3. ASSUME NEW s \in run'.snapshots, NEW x \in Points \ loaded'[s]
      PROVE  x \in UNION run'.batches[s] \/ HeldBack(s, x)'
  <2>1. x \in Points \ loaded[s]  BY <1>1 DEF SamePlan
  <2> QED  BY <2>1 DEF PlanRight, SamePlan, HeldBack
<1>4. ASSUME PastWithoutSignalsAbove,
             NEW s \in run'.snapshots, NEW p \in Parents[s], NEW x \in UNION run'.batches[s]
      PROVE  x \in loaded'[p] \cup UNION run'.batches[p]
  <2>1. p \in SnapshotIds /\ s \in run.snapshots /\ x \in UNION run.batches[s]  BY <1>1 DEF SamePlan
  <2>2. x \in loaded[p] \cup UNION run.batches[p]  BY <1>4, <2>1 DEF PlanRight
  <2> QED  BY <2>1, <2>2 DEF SamePlan
<1>5. ASSUME PastWithoutSignals, NEW s \in run'.snapshots \cap DependsOnPast,
             NEW x \in UNION run'.batches[s], NEW z \in 1..(x - 1)
      PROVE  z \in loaded'[s] \cup UNION run'.batches[s]
  <2>1. s \in SnapshotIds /\ s \in run.snapshots /\ x \in UNION run.batches[s]  BY <1>1 DEF SamePlan
  <2>2. z \in loaded[s] \cup UNION run.batches[s]  BY <1>5, <2>1 DEF PlanRight
  <2> QED  BY <2>1, <2>2 DEF SamePlan
<1>6. (PastWithoutSignalsAbove)' <=> PastWithoutSignalsAbove  BY DEF PastWithoutSignalsAbove, Ancestors
<1> QED  BY <1>0, <1>2, <1>3, <1>4, <1>5, <1>6 DEF PlanRight

LEMMA NothingPlanned ==
    ASSUME ~Planned', started' = {}, done' = {}, failed' = {}
    PROVE  PlanRight' /\ WorkRight'
BY DEF PlanRight, WorkRight, DoneInOrder, Planned

LEMMA InitPlanned == Init => WorkInv
<1> SUFFICES ASSUME Init PROVE WorkInv  OBVIOUS
<1>1. run.status = "waiting" /\ started = {} /\ done = {} /\ failed = {}  BY DEF Init, Waiting
<1>2. PlanRight /\ WorkRight  BY <1>1 DEF PlanRight, WorkRight, DoneInOrder, Planned
<1> QED  BY <1>2, InitTyped DEF WorkInv

LEMMA StartPlans ==
    ASSUME WorkInv, Start
    PROVE  PlanRight' /\ WorkRight'
<1>1. /\ UNCHANGED <<loaded, tables, env, started, done, failed>>
      /\ run.status = "starting" /\ DOMAIN run = Fields
    BY DEF Start, WorkInv, TypeInv, RunInv
<1>2. started = {} /\ done = {} /\ failed = {}  BY <1>1 DEF WorkInv, WorkRight, Planned
<1>3. CASE run' = [run EXCEPT !.status = "nothing_to_do"]
  <2>1. ~Planned'  BY <1>1, <1>3 DEF Planned, Fields
  <2> QED  BY <1>1, <1>2, <2>1, NothingPlanned
<1>4. CASE run' # [run EXCEPT !.status = "nothing_to_do"]
  <2> DEFINE S == Plans[env.plan]
             missing == [s \in S |-> Points \ loaded[s]]
  <2>1. S \in SUBSET SnapshotIds /\ \A s \in S : Parents[s] \subseteq S
      BY SchedulerConstants DEF WorkInv, TypeInv, TypeOK
  <2>2. PICK ready \in [S -> SUBSET Points] :
          /\ \A s \in S : ready[s] \subseteq missing[s]
          /\ \A s \in S \ Signalled : ready[s] = missing[s]
          /\ run' = WithBatches(S, missing, ready, Unready(S, missing, ready))
      BY <1>4 DEF Start
  <2>3. Found(S, missing, ready)  BY <2>1, <2>2 DEF Found
  <2> DEFINE U == Unready(S, missing, ready)
             D == [s \in S |-> IntervalDiff(s, ready[s], U[s])]
  <2>4. /\ \A s \in S : D[s] \subseteq ready[s]
        /\ \A s \in S : \A x \in missing[s] :
             x \in D[s] \/ x \in U[s] \/ (s \in DependsOnPast /\ \E y \in U[s] : y < x)
        /\ PastWithoutSignalsAbove =>
             \A s \in S : \A p \in Parents[s] : \A x \in D[s] : x \in missing[p] => x \in D[p]
        /\ PastWithoutSignals =>
             \A s \in S \cap DependsOnPast : \A x \in D[s] : \A z \in 1..(x - 1) :
                 z \in missing[s] => z \in D[s]
    <3>1. U = Unready(S, missing, ready)  OBVIOUS
    <3>2. D = [s \in S |-> IntervalDiff(s, ready[s], U[s])]  OBVIOUS
    <3> HIDE DEF S, missing, U, D
    <3> QED  BY <2>3, <3>1, <3>2, PlannedRight
  <2>5. /\ run'.status = "running" /\ run'.snapshots = S /\ run'.unready = U
        /\ run'.create = {s \in S \ tables : missing[s] # {}}
        /\ run'.batches = [s \in S |-> Batches(D[s], BatchSize[s])]
    <3>1. run' = WithBatches(S, missing, ready, U)  BY <2>2
    <3> HIDE DEF S, missing, U
    <3>2. \A s \in S : D[s] = IntervalDiff(s, ready[s], U[s])  OBVIOUS
    <3> HIDE DEF D
    <3>3. [s \in S |-> Batches(IntervalDiff(s, ready[s], U[s]), BatchSize[s])]
            = [s \in S |-> Batches(D[s], BatchSize[s])]
        BY <3>2
    <3> QED  BY <1>1, <3>1, <3>3 DEF WithBatches, Fields
  <2>6. \A s \in S : missing[s] = Points \ loaded[s]  OBVIOUS
  <2> HIDE DEF S, missing, U, D
  <2>7. \A s \in S : D[s] \in SUBSET Points /\ BatchSize[s] \in Nat
      BY <2>1, <2>2, <2>4, SchedulerConstants
  <2>8. \A s \in S : /\ InOrder(run'.batches[s]) /\ UNION run'.batches[s] = D[s]
                     /\ run'.batches[s] \in SUBSET (SUBSET Points)
    <3> TAKE s \in S
    <3>1. run'.batches[s] = Batches(D[s], BatchSize[s])  BY <2>5
    <3>2. D[s] \in SUBSET Points /\ BatchSize[s] \in Nat  BY <2>7
    <3>3. InOrder(Batches(D[s], BatchSize[s])) /\ UNION Batches(D[s], BatchSize[s]) = D[s]
        BY <3>2, BatchesRight
    <3>4. Batches(D[s], BatchSize[s]) \in SUBSET (SUBSET Points)  BY <3>2, BatchesType
    <3> QED  BY <3>1, <3>3, <3>4
  <2>9. GraphRight'
    <3>1. run'.batches \in [S -> SUBSET (SUBSET Points)]  BY <2>5, <2>8
    <3>2. run'.create \subseteq S  BY <2>5
    <3> QED  BY <2>1, <2>5, <2>8, <3>1, <3>2 DEF GraphRight, Whole, InOrder, Before
  <2>10. ASSUME NEW s \in S, s \notin run'.create, run'.batches[s] # {} PROVE s \in tables
    <3>1. D[s] # {}
      <4>1. PICK B \in run'.batches[s] : TRUE  BY <2>10
      <4>2. B # {}  BY <2>8, <4>1 DEF InOrder
      <4> QED  BY <2>8, <4>1, <4>2
    <3>2. missing[s] # {}  BY <2>2, <2>4, <3>1
    <3> QED  BY <2>5, <2>10, <3>2
  <2>11. ASSUME NEW s \in S, NEW x \in Points \ loaded[s]
         PROVE  x \in UNION run'.batches[s] \/ HeldBack(s, x)'
    <3>1. x \in D[s] \/ x \in U[s] \/ (s \in DependsOnPast /\ \E y \in U[s] : y < x)
        BY <2>4, <2>6
    <3> QED  BY <2>5, <2>8, <3>1 DEF HeldBack
  <2>12. ASSUME PastWithoutSignalsAbove, NEW s \in S, NEW p \in Parents[s],
                NEW x \in UNION run'.batches[s]
         PROVE  x \in loaded[p] \cup UNION run'.batches[p]
    <3>1. p \in S /\ x \in D[s] /\ x \in Points  BY <2>1, <2>7, <2>8
    <3>2. x \in missing[p] => x \in D[p]  BY <2>4, <2>12, <3>1
    <3> QED  BY <2>6, <2>8, <3>1, <3>2
  <2>13. ASSUME PastWithoutSignals, NEW s \in S \cap DependsOnPast,
                NEW x \in UNION run'.batches[s], NEW z \in 1..(x - 1)
         PROVE  z \in loaded[s] \cup UNION run'.batches[s]
    <3>1. x \in D[s] /\ x \in Points  BY <2>7, <2>8
    <3>2. z \in Points  BY <3>1, SchedulerConstants DEF Points
    <3>3. z \in missing[s] => z \in D[s]  BY <2>4, <2>13, <3>1
    <3> QED  BY <2>6, <2>8, <3>2, <3>3
  <2>14. PlanRight'
    <3>1. PastWithoutSignalsAbove' <=> PastWithoutSignalsAbove  BY DEF PastWithoutSignalsAbove, Ancestors
    <3>2. UNCHANGED <<loaded, tables>> /\ run'.snapshots = S  BY <1>1, <2>5
    <3> QED  BY <2>9, <2>10, <2>11, <2>12, <2>13, <3>1, <3>2 DEF PlanRight
  <2>15. WorkRight'
    <3>1. started' = {} /\ done' = {} /\ failed' = {} /\ run'.status = "running"
        BY <1>1, <1>2, <2>5
    <3> QED  BY <3>1 DEF WorkRight, DoneInOrder, Planned
  <2> QED  BY <2>14, <2>15
<1> QED  BY <1>3, <1>4

LEMMA StepKeepsWork == WorkInv /\ [Next]_vars => WorkInv'
<1> SUFFICES ASSUME WorkInv, [Next]_vars PROVE WorkInv'  OBVIOUS
<1>t. TypeInv'  BY StepKeepsTypes DEF WorkInv
<1>f. DOMAIN run = Fields  BY DEF WorkInv, TypeInv, RunInv
<1>s. SUFFICES PlanRight' /\ WorkRight'  BY <1>t DEF WorkInv
<1>p. PlanRight /\ WorkRight  BY DEF WorkInv
<1>g. Planned => GraphRight  BY <1>p DEF PlanRight
\* Nothing that the invariant speaks of changes.
<1>u. ASSUME UNCHANGED <<loaded, tables, run, started, done, failed>>
      PROVE  PlanRight' /\ WorkRight'
  <2>1. CASE Planned
    <3>1. SamePlan /\ PlanRight'  BY <1>u, <1>p, <2>1, PlanStays DEF SamePlan
    <3>2. Nodes' = Nodes /\ (\A n : Dependencies(n)' = Dependencies(n))
          /\ \A n, m : Held(n, m)' <=> Held(n, m)
        BY <3>1, GraphStays DEF SamePlan
    <3> QED  BY <1>u, <1>p, <3>1, <3>2 DEF WorkRight, DoneInOrder, Planned
  <2>2. CASE ~Planned
    <3>1. ~Planned' /\ started' = {} /\ done' = {} /\ failed' = {}
        BY <1>u, <1>p, <2>2 DEF WorkRight, Planned
    <3> QED  BY <3>1, NothingPlanned
  <2> QED  BY <2>1, <2>2
\* The run has not got to plan, and does not in this step.
<1>w. ASSUME ~Planned, ~Planned', UNCHANGED <<started, done, failed>>
      PROVE  PlanRight' /\ WorkRight'
  <2>1. started' = {} /\ done' = {} /\ failed' = {}  BY <1>w, <1>p DEF WorkRight
  <2> QED  BY <1>w, <2>1, NothingPlanned
<1>1. CASE UpdateEnvironment  BY <1>1, <1>u DEF UpdateEnvironment
<1>2. CASE FinalizeEnvironment  BY <1>2, <1>u DEF FinalizeEnvironment
<1>3. CASE Wait
  <2>1. UNCHANGED <<loaded, tables, env, started, done, failed>> /\ run.status = "waiting"
      BY <1>3 DEF Wait
  <2>2. run'.status \in {"waiting", "exceeded"}
    <3>1. \/ run' = [run EXCEPT !.waited = @ + 1]
          \/ run' = [run EXCEPT !.status = "exceeded"]
        BY <1>3 DEF Wait
    <3> QED  BY <1>f, <2>1, <3>1 DEF Fields
  <2> QED  BY <2>1, <2>2, <1>w DEF Planned
<1>4. CASE BlockUntilFinalized
  <2>1. UNCHANGED <<started, done, failed>> /\ run.status = "waiting" /\ run'.status = "starting"
      BY <1>4, <1>f DEF BlockUntilFinalized, Fields
  <2> QED  BY <2>1, <1>w DEF Planned
<1>5. CASE Start  BY <1>5, StartPlans
<1>6. ASSUME NEW n \in Nodes, StartNode(n) PROVE PlanRight' /\ WorkRight'
  <2>1. run.status = "running" /\ n \in Ready /\ UNCHANGED <<loaded, tables, env, done>>
      BY <1>6 DEF StartNode
  <2>2. Planned /\ Dependencies(n) \subseteq done  BY <2>1 DEF Planned, Ready
  <2>3. SamePlan /\ run'.status = "running"
    <3>1. run' = run \/ run' = [run EXCEPT !.tripped = TRUE]  BY <1>6 DEF StartNode
    <3> QED  BY <1>f, <2>1, <3>1 DEF SamePlan, Fields
  <2>4. PlanRight'  BY <1>p, <2>1, <2>2, <2>3, PlanStays
  <2>5. Nodes' = Nodes /\ \A m : Dependencies(m)' = Dependencies(m)
      BY <2>3, GraphStays DEF SamePlan
  <2>6. \/ failed' = failed \cup {n} /\ UNCHANGED started
        \/ started' = started \cup {n} /\ UNCHANGED failed
      BY <1>6 DEF StartNode
  <2>7. WorkRight'
    <3>1. started' \subseteq Nodes' /\ failed' \subseteq Nodes'
        BY <1>p, <2>5, <2>6 DEF WorkRight
    <3>2. DoneInOrder'  BY <1>p, <2>1, <2>5 DEF WorkRight, DoneInOrder
    <3>3. \A m \in started' : Dependencies(m)' \subseteq done'
        BY <1>p, <2>1, <2>2, <2>5, <2>6 DEF WorkRight
    <3>4. \A m \in done' : m.points \subseteq loaded'[m.snapshot] /\ m.snapshot \in tables'
        BY <1>p, <2>1 DEF WorkRight
    <3>5. Planned'  BY <2>3 DEF Planned
    <3> QED  BY <2>3, <3>1, <3>2, <3>3, <3>4, <3>5 DEF WorkRight
  <2> QED  BY <2>4, <2>7
<1>7. ASSUME NEW n \in started, FinishNode(n) \/ FailNode(n) PROVE PlanRight' /\ WorkRight'
  <2>1. run.status = "running" /\ UNCHANGED <<env, run>> /\ started' = started \ {n}
    <3>1. run.status = "running"  BY DEF WorkInv, TypeInv, RunInv
    <3> QED  BY <3>1, <1>7 DEF FinishNode, FailNode
  <2>2. Planned /\ SamePlan  BY <2>1 DEF Planned, SamePlan
  <2>3. n \in Nodes /\ Dependencies(n) \subseteq done  BY <1>p DEF WorkRight
  <2>4. n.snapshot \in SnapshotIds /\ loaded \in [SnapshotIds -> SUBSET Points]
    <3>1. GraphRight  BY <1>g, <2>2
    <3> QED  BY <2>3, <3>1, NodesOf DEF WorkInv, TypeInv, TypeOK
  <2>5. tables \subseteq tables' /\ \A s \in SnapshotIds : loaded[s] \subseteq loaded'[s]
    <3>1. CASE FinishNode(n)  BY <3>1, <2>4 DEF FinishNode
    <3>2. CASE FailNode(n)  BY <3>2 DEF FailNode
    <3> QED  BY <1>7, <3>1, <3>2
  <2>6. PlanRight'  BY <1>p, <2>2, <2>5, PlanStays
  <2>7. Nodes' = Nodes /\ \A m : Dependencies(m)' = Dependencies(m)
      BY <2>2, GraphStays DEF SamePlan
  <2>8. \/ done' = done \cup {n} /\ UNCHANGED failed
           /\ n.points \subseteq loaded'[n.snapshot] /\ n.snapshot \in tables'
        \/ UNCHANGED done /\ failed' = failed \cup {n}
    <3>1. CASE FinishNode(n)  BY <3>1, <2>4 DEF FinishNode
    <3>2. CASE FailNode(n)  BY <3>2 DEF FailNode
    <3> QED  BY <1>7, <3>1, <3>2
  <2>9. WorkRight'
    <3>1. started' \subseteq Nodes' /\ failed' \subseteq Nodes'
        BY <1>p, <2>1, <2>3, <2>7, <2>8 DEF WorkRight
    <3>2. DoneInOrder'  BY <1>p, <2>3, <2>7, <2>8 DEF WorkRight, DoneInOrder
    <3>3. \A m \in started' : Dependencies(m)' \subseteq done'
        BY <1>p, <2>1, <2>7, <2>8 DEF WorkRight
    <3>4. \A m \in done' : m.points \subseteq loaded'[m.snapshot] /\ m.snapshot \in tables'
      <4>1. \A m \in done : m.snapshot \in SnapshotIds
        <5>1. GraphRight /\ done \subseteq Nodes  BY <1>g, <1>p, <2>2 DEF WorkRight, DoneInOrder
        <5> QED  BY <5>1, NodesOf
      <4>2. \A m \in done : m.points \subseteq loaded'[m.snapshot] /\ m.snapshot \in tables'
          BY <1>p, <2>5, <4>1 DEF WorkRight
      <4> QED  BY <2>8, <4>2
    <3>5. Planned' /\ run'.status = "running"  BY <2>1, <2>2 DEF Planned
    <3> QED  BY <3>1, <3>2, <3>3, <3>4, <3>5 DEF WorkRight
  <2> QED  BY <2>6, <2>9
<1>11. ASSUME NEW s \in run.snapshots, VisitDummy(s) PROVE PlanRight' /\ WorkRight'
  <2>1. run.status = "running" /\ UNCHANGED <<loaded, tables, started, done, failed>>
      BY <1>11 DEF VisitDummy
  <2>2. SamePlan /\ run'.status = "running"
    <3>1. \/ run' = [run EXCEPT !.tripped = TRUE]
          \/ run' = [run EXCEPT !.passed = run.passed \cup {s}]
        BY <1>11 DEF VisitDummy
    <3> QED  BY <1>f, <2>1, <3>1 DEF SamePlan, Fields
  <2>3. PlanRight'  BY <1>p, <2>1, <2>2, PlanStays DEF Planned
  <2>4. Nodes' = Nodes /\ \A m : Dependencies(m)' = Dependencies(m)
      BY <2>2, GraphStays DEF SamePlan
  <2>5. WorkRight'
      BY <1>p, <2>1, <2>2, <2>4 DEF WorkRight, DoneInOrder, Planned
  <2> QED  BY <2>3, <2>5
<1>8. CASE EndRun
  <2>1. Finished /\ ~run.tripped /\ UNCHANGED <<loaded, tables, env, started, done, failed>>
        /\ run' = [run EXCEPT !.status = IF failed = {} THEN "success" ELSE "failure"]
      BY <1>8 DEF EndRun
  <2>2. SamePlan /\ run'.status = IF failed = {} THEN "success" ELSE "failure"
      BY <1>f, <2>1 DEF SamePlan, Fields
  <2>3. Planned /\ Planned'  BY <2>1, <2>2 DEF Finished, Planned
  <2>4. PlanRight'  BY <1>p, <2>1, <2>2, <2>3, PlanStays
  <2>5. Nodes' = Nodes /\ (\A m : Dependencies(m)' = Dependencies(m))
        /\ \A m, d : Held(m, d)' <=> Held(m, d)
      BY <2>2, GraphStays DEF SamePlan
  <2>6. \A n \in Nodes \ (done \cup failed) : \E m \in failed : Held(n, m)
      BY <1>g, <1>p, <2>1, <2>3, HeldByFailure DEF WorkRight
  <2>7. run'.status = "success" => Nodes \subseteq done  BY <2>2, <2>6
  <2>8. WorkRight'
      BY <1>p, <2>1, <2>2, <2>3, <2>5, <2>6, <2>7 DEF WorkRight, DoneInOrder
  <2> QED  BY <2>4, <2>8
<1>9. CASE Restart
  <2>1. started' = {} /\ done' = {} /\ failed' = {}  BY <1>9 DEF Restart
  <2>2. run' = [run EXCEPT !.status = "error"] \/ run' = Waiting(0)
      BY <1>9 DEF Restart
  <2>3. ~Planned'  BY <1>f, <2>2 DEF Planned, Waiting, Fields
  <2> QED  BY <2>1, <2>3, NothingPlanned
<1>10. CASE Terminated \/ UNCHANGED vars  BY <1>10, <1>u DEF Terminated, vars
<1> QED  BY <1>1, <1>2, <1>3, <1>4, <1>5, <1>6, <1>7, <1>8, <1>9, <1>10, <1>11 DEF Next, RunNext

THEOREM RunRight == Spec => []WorkInv
BY InitPlanned, StepKeepsWork, PTL DEF Spec

(***************************************************************************)
(* What follows.                                                           *)
(***************************************************************************)
LEMMA RunningNodes ==
    ASSUME WorkInv, NEW n \in started
    PROVE  /\ PlanRight /\ GraphRight /\ DoneInOrder /\ n \in Nodes
           /\ Dependencies(n) \subseteq done
           /\ n.snapshot \in run.snapshots /\ n.snapshot \in SnapshotIds
<1>1. Planned  BY DEF WorkInv, WorkRight
<1>2. GraphRight /\ n \in Nodes  BY <1>1 DEF WorkInv, PlanRight, WorkRight
<1> QED  BY <1>2, NodesOf DEF WorkInv, WorkRight

\* What has been evaluated for a snapshot is loaded.
LEMMA DoneIsLoaded ==
    ASSUME WorkInv, NEW s, EvaluateNodes(s) \subseteq done
    PROVE  UNION run.batches[s] \subseteq loaded[s]
<1>1. SUFFICES ASSUME NEW B \in run.batches[s] PROVE B \subseteq loaded[s]  OBVIOUS
<1>2. [snapshot |-> s, points |-> B] \in done  BY DEF EvaluateNodes
<1> QED  BY <1>2 DEF WorkInv, WorkRight

\* Evaluations come after everything they are computed from, although snapshots on the
\* way may have nothing to do, some of it may be held back, and plans, failures and
\* restarts come between: whatever the graph, batches, signals and number of workers.
THEOREM UpstreamComesFirst == ASSUME PastWithoutSignalsAbove PROVE Spec => []UpstreamFirst
<1>1. WorkInv => UpstreamFirst
  <2> SUFFICES ASSUME WorkInv, NEW n \in started
               PROVE  /\ \A p \in Parents[n.snapshot] : n.points \subseteq loaded[p]
                      /\ \A a \in Ancestors[n.snapshot] : UNION run.batches[a] \subseteq loaded[a]
      BY DEF UpstreamFirst
  <2> DEFINE s == n.snapshot
  <2>1. /\ PlanRight /\ GraphRight /\ DoneInOrder /\ n \in Nodes
        /\ Dependencies(n) \subseteq done /\ s \in run.snapshots /\ s \in SnapshotIds
      BY RunningNodes
  <2>2. \A a \in Ancestors[s] : EvaluateNodes(a) \subseteq done
      BY <2>1, UpstreamDone, AncestorsDone
  <2>3. \A a \in Ancestors[s] : UNION run.batches[a] \subseteq loaded[a]
      BY <2>2, DoneIsLoaded
  <2>4. ASSUME NEW p \in Parents[s], NEW x \in n.points PROVE x \in loaded[p]
    <3>1. n.points \in run.batches[s]  BY <2>1, <2>4, NodesOf
    <3>2. Planned  BY DEF WorkInv, WorkRight
    <3>3. x \in loaded[p] \cup UNION run.batches[p]  BY <2>1, <3>1, <3>2 DEF PlanRight
    <3>4. p \in Ancestors[s]  BY <2>1, AncestorsOf
    <3> QED  BY <2>3, <3>3, <3>4
  <2> QED  BY <2>3, <2>4
<1> QED  BY <1>1, RunRight, PTL

\* Snapshots that depend on the past are evaluated in order and without gaps, whichever
\* batches fail and whatever is not ready upstream.
THEOREM PastComesFirst == ASSUME PastWithoutSignals PROVE Spec => []PastFirst
<1>1. WorkInv => PastFirst
  <2> SUFFICES ASSUME WorkInv, NEW n \in started, n.snapshot \in DependsOnPast,
                      NEW x \in n.points, NEW z \in 1..(x - 1)
               PROVE  z \in loaded[n.snapshot] \cup n.points
      BY DEF PastFirst
  <2> DEFINE s == n.snapshot
             batches == run.batches[s]
  <2>1. /\ PlanRight /\ GraphRight /\ DoneInOrder /\ n \in Nodes
        /\ Dependencies(n) \subseteq done /\ s \in run.snapshots /\ s \in SnapshotIds
      BY RunningNodes
  <2>2. n \in EvaluateNodes(s) /\ n.points \in batches  BY <2>1, NodesOf
  <2>3. n = [snapshot |-> s, points |-> n.points]  BY <2>2 DEF EvaluateNodes
  <2>4. Planned  BY DEF WorkInv, WorkRight
  <2>5. z \in loaded[s] \cup UNION batches  BY <2>1, <2>2, <2>4 DEF PlanRight
  <2>6. CASE z \in UNION batches
    <3>1. PICK B \in batches : z \in B  BY <2>6
    <3>2. InOrder(batches)  BY <2>1 DEF GraphRight
    <3>3. B = n.points \/ Before(B, n.points) \/ Before(n.points, B)
        BY <2>2, <3>1, <3>2 DEF InOrder
    <3>4. ~Before(n.points, B)
      <4>1. x \in Int /\ z \in Int /\ z < x
          BY <2>1, <2>2, SchedulerConstants DEF GraphRight, Points
      <4> QED  BY <3>1, <4>1 DEF Before
    <3>5. CASE Before(B, n.points)
      <4>1. Concurrency(s) = 1  BY DEF Concurrency
      <4>2. [snapshot |-> s, points |-> B] \in done
          BY <2>1, <2>2, <2>3, <3>1, <3>5, <4>1, EarlierDone DEF Earlier
      <4>3. B \subseteq loaded[s]  BY <4>2 DEF WorkInv, WorkRight
      <4> QED  BY <3>1, <4>3
    <3> QED  BY <3>1, <3>3, <3>4, <3>5
  <2> QED  BY <2>5, <2>6
<1> QED  BY <1>1, RunRight, PTL

\* Whoever is told that its table exists finds one: created before, by a node of its own,
\* or by the first of batches that are evaluated one after the other; but batches of a
\* custom kind that are not limited at all (see FirstBatchCreates) are not spoken of.
THEOREM TargetsExist == Spec => []TargetExists
<1>1. WorkInv => TargetExists
  <2> SUFFICES ASSUME WorkInv, NEW n \in started, n.points # {},
                      n.snapshot \notin run.create \/ HasCreateNode(n.snapshot) \/ BatchIndex(n) > 0,
                      \/ n.snapshot \in ByTimeRange
                      \/ Concurrency(n.snapshot) = 1
                      \/ BatchSize[n.snapshot] # 0
               PROVE  n.snapshot \in tables
      BY DEF TargetExists, Told
  <2> DEFINE s == n.snapshot
             E == Earlier(run.batches[s], n.points)
  <2>1. /\ PlanRight /\ GraphRight /\ DoneInOrder /\ n \in Nodes
        /\ Dependencies(n) \subseteq done /\ s \in run.snapshots /\ s \in SnapshotIds
      BY RunningNodes
  <2>2. n \in EvaluateNodes(s) /\ n.points \in run.batches[s]  BY <2>1, NodesOf
  <2>3. \A m \in done : m.snapshot \in tables  BY DEF WorkInv, WorkRight
  <2>4. CASE s \notin run.create
    <3>1. Planned  BY DEF WorkInv, WorkRight
    <3> QED  BY <2>1, <2>2, <2>4, <3>1 DEF PlanRight
  <2>5. CASE HasCreateNode(s)
    <3>1. CreateNode(s) \in Dependencies(n)  BY <2>5 DEF Dependencies
    <3>2. CreateNode(s).snapshot = s  BY DEF CreateNode
    <3> QED  BY <2>1, <2>3, <3>1, <3>2
  <2>6. CASE s \in run.create /\ ~HasCreateNode(s) /\ BatchIndex(n) > 0
    <3>1. Concurrency(s) = 1  BY <2>6 DEF HasCreateNode
    <3>2. E # {}
      <4>1. BatchIndex(n) = Cardinality(E)  BY DEF BatchIndex, Earlier, Before
      <4>2. Cardinality({}) = 0  BY FS_EmptySet
      <4> HIDE DEF E
      <4> QED  BY <2>6, <4>1, <4>2
    <3>3. PICK B \in E : TRUE  BY <3>2
    <3>4. n = [snapshot |-> s, points |-> n.points]  BY <2>2 DEF EvaluateNodes
    <3>5. [snapshot |-> s, points |-> B] \in done
        BY <2>1, <2>2, <3>1, <3>3, <3>4, EarlierDone
    <3> QED  BY <2>3, <3>5
  <2> QED  BY <2>4, <2>5, <2>6
<1> QED  BY <1>1, RunRight, PTL

\* A run that succeeds has evaluated all that nothing holds back.
THEOREM SuccessIsComplete == Spec => []SuccessLeavesUnready
<1>1. WorkInv => SuccessLeavesUnready
  <2> SUFFICES ASSUME WorkInv, run.status = "success",
                      NEW s \in run.snapshots, NEW x \in Points \ loaded[s]
               PROVE  HeldBack(s, x)
      BY DEF SuccessLeavesUnready, HeldBack
  <2>1. Planned /\ PlanRight /\ Nodes \subseteq done  BY DEF Planned, WorkInv, WorkRight
  <2>2. x \in UNION run.batches[s] \/ HeldBack(s, x)  BY <2>1 DEF PlanRight
  <2>3. EvaluateNodes(s) \subseteq done  BY <2>1 DEF Nodes
  <2>4. UNION run.batches[s] \subseteq loaded[s]  BY <2>3, DoneIsLoaded
  <2> QED  BY <2>2, <2>4
<1> QED  BY <1>1, RunRight, PTL

\* When a run fails, everything that has not been evaluated is behind a failure.
THEOREM FailuresSkipTheRest == Spec => []SkippedBehindFailure
<1>1. WorkInv => SkippedBehindFailure
  <2>1. \A n, m : Held(n, m) => Behind(n, m)  BY DEF Held, Behind
  <2> QED  BY <2>1 DEF WorkInv, WorkRight, SkippedBehindFailure
<1> QED  BY <1>1, RunRight, PTL
=============================================================================
