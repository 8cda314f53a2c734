-------------------------- MODULE DagExecutorProofs --------------------------
(***************************************************************************)
(* The executor implements DagTraversal and agrees with the sequential     *)
(* visit, proved for any graph, any number of tasks and any failures.      *)
(***************************************************************************)
EXTENDS DagExecutor, FiniteSetTheorems, TLAPS

Started == {"submitted", "running", "returned", "raised", "done", "error", "dropped"}

\* What the count stands for: in a run that is to raise, a failed node stays in it.
Left == {n \in Nodes : status[n] \notin {"done", "skipped"} /\ (status[n] = "error" => raise_on_error)}

\* A node was only started when everything it depends on was done.
InOrder == \A n \in Nodes : status[n] \in Started => \A d \in deps[n] : status[d] = "done"

\* What an unprocessed node waits for is what it depends on and is not done.
WaitingRight ==
    tasks_num > 1 => \A n \in Unprocessed : waiting[n] = {d \in deps[n] : status[d] # "done"}

SkipsHaveReasons ==
    \A n \in WithStatus({"skipped"}) : \E d \in deps[n] : status[d] \in {"error", "skipped"}

CountRight == tasks_num > 1 => num = Cardinality(Left)

\* Before the run, nothing has happened; one task knows no threads.
PhasesRight ==
    /\ main = "start" => finished = "pending"
    /\ main = "start" /\ tasks_num > 1 => \A n \in Nodes : status[n] = "unprocessed"
    /\ main \in {"shutdown", "end"} => finished # "pending"
    /\ tasks_num = 1 => \A n \in Nodes : status[n] \in {"unprocessed", "done", "error", "skipped"}

ResultRight == finished = "result" => \A n \in Nodes : status[n] \in {"done", "error", "skipped"}

ExceptionRight == finished = "exception" <=> raise_on_error /\ WithStatus({"error"}) # {}

DagInv ==
    /\ TypeOK
    /\ InOrder
    /\ WaitingRight
    /\ SkipsHaveReasons
    /\ CountRight
    /\ PhasesRight
    /\ ResultRight
    /\ ExceptionRight

LEMMA LeftIsFinite == IsFiniteSet(Left) /\ Cardinality(Left) \in Nat
BY DagConstants, FS_Subset, FS_CardinalityType DEF Left

LEMMA InitRight == Init => DagInv
<1> SUFFICES ASSUME Init PROVE DagInv  OBVIOUS
<1> USE DEF Init
<1>1. Left = Nodes  BY DEF Left
<1>2. TypeOK  BY DagConstants, FS_CardinalityType DEF TypeOK, Status
<1>3. InOrder /\ SkipsHaveReasons /\ PhasesRight /\ ResultRight
    BY DEF InOrder, SkipsHaveReasons, PhasesRight, ResultRight, Started, WithStatus
<1>4. WaitingRight /\ CountRight
    BY <1>1 DEF WaitingRight, CountRight, Unprocessed, WithStatus
<1>5. ExceptionRight  BY DEF ExceptionRight, WithStatus
<1> QED  BY <1>2, <1>3, <1>4, <1>5 DEF DagInv
-----------------------------------------------------------------------------
(***************************************************************************)
(* What is skipped after a failure: all that waits for the failed node or  *)
(* for a skipped one, and nothing else.                                    *)
(***************************************************************************)
LEMMA SkippedIsClosed ==
    ASSUME NEW n \in Nodes, NEW k \in Unprocessed, waiting[k] \cap (Skipped(n) \cup {n}) # {}
    PROVE  k \in Skipped(n)
<1> SUFFICES ASSUME NEW S \in SUBSET Unprocessed,
                    \A j \in Unprocessed : waiting[j] \cap (S \cup {n}) # {} => j \in S
             PROVE  k \in S
    BY DEF Skipped
<1>1. Skipped(n) \subseteq S  BY DEF Skipped
<1> QED  BY <1>1

LEMMA SkippedWaits ==
    ASSUME NEW n \in Nodes, NEW m \in Skipped(n)
    PROVE  waiting[m] \cap (Skipped(n) \cup {n}) # {}
<1> SUFFICES ASSUME waiting[m] \cap (Skipped(n) \cup {n}) = {} PROVE FALSE  OBVIOUS
<1> DEFINE S == Skipped(n) \ {m}
<1>1. S \in SUBSET Unprocessed  BY DEF Skipped
<1>2. \A k \in Unprocessed : waiting[k] \cap (S \cup {n}) # {} => k \in S
    BY SkippedIsClosed
<1>3. m \in S
  <2> HIDE DEF S
  <2> QED  BY <1>1, <1>2 DEF Skipped
<1> QED  BY <1>3
-----------------------------------------------------------------------------
(***************************************************************************)
(* One step of each action.                                                *)
(***************************************************************************)
LEMMA RunKeepsInv == ASSUME DagInv, Run PROVE DagInv'
<1> USE DEF DagInv, Run
<1>1. \A n \in Nodes : status[n] = "unprocessed" /\ status'[n] \in {"unprocessed", "submitted"}
    BY DEF TypeOK, PhasesRight
<1>2. \A n \in Nodes : waiting[n] = deps[n]
  <2> TAKE n \in Nodes
  <2>1. waiting[n] = {d \in deps[n] : status[d] # "done"}
      BY <1>1 DEF WaitingRight, Unprocessed, WithStatus
  <2>2. deps[n] \subseteq Nodes  BY DEF TypeOK
  <2> QED  BY <1>1, <2>1, <2>2
<1>3. Left' = Left  BY <1>1 DEF Left
<1>4. TypeOK'  BY DEF TypeOK, Status, SetResult
<1>5. InOrder'
    BY <1>1, <1>2 DEF InOrder, TypeOK, Started
<1>6. WaitingRight'
    BY <1>1, <1>2 DEF WaitingRight, Unprocessed, WithStatus, TypeOK
<1>7. SkipsHaveReasons' /\ CountRight'
    BY <1>1, <1>3 DEF SkipsHaveReasons, CountRight, WithStatus
<1>8. PhasesRight'  BY DEF PhasesRight
<1>9. ResultRight'
  <2> SUFFICES ASSUME finished' = "result" PROVE Nodes = {}  BY DEF ResultRight
  <2>1. num = 0  BY DEF PhasesRight
  <2>2. Left = {}  BY <2>1, LeftIsFinite, FS_EmptySet DEF CountRight
  <2> QED  BY <1>1, <2>2 DEF Left
<1>10. ExceptionRight'
    BY <1>1 DEF ExceptionRight, WithStatus, PhasesRight, SetResult
<1> QED  BY <1>4, <1>5, <1>6, <1>7, <1>8, <1>9, <1>10

LEMMA MainKeepsInv ==
    ASSUME DagInv, Shutdown \/ EndRun \/ EndVisits
    PROVE  DagInv'
<1> USE DEF DagInv
<1>1. UNCHANGED <<deps, tasks_num, raise_on_error, status, waiting, num>>
    BY DEF Shutdown, EndRun, EndVisits
<1>2. WithStatus({"error"})' = WithStatus({"error"}) /\ Left' = Left
    BY <1>1 DEF WithStatus, Left
<1>3. TypeOK'  BY <1>1 DEF TypeOK, Shutdown, EndRun, EndVisits, SetResult
<1>4. InOrder' /\ WaitingRight' /\ SkipsHaveReasons' /\ CountRight'
    BY <1>1, <1>2 DEF InOrder, WaitingRight, SkipsHaveReasons, CountRight, Unprocessed, WithStatus
<1>5. PhasesRight'
    BY <1>1 DEF PhasesRight, Shutdown, EndRun, EndVisits, SetResult
<1>6. ResultRight'
    BY <1>1 DEF ResultRight, PhasesRight, Shutdown, EndRun, EndVisits, Unprocessed, WithStatus
<1>7. ExceptionRight'
    BY <1>1, <1>2 DEF ExceptionRight, PhasesRight, Shutdown, EndRun, EndVisits, SetResult
<1> QED  BY <1>3, <1>4, <1>5, <1>6, <1>7

\* A worker that takes a node or ends its function changes nothing but how far the
\* node is.
LEMMA WorkingKeepsInv ==
    ASSUME DagInv, NEW n \in Nodes, Begin(n) \/ EndFunction(n)
    PROVE  DagInv'
<1> USE DEF DagInv
<1>1. /\ UNCHANGED <<deps, tasks_num, raise_on_error, main, finished, waiting, num>>
      /\ status[n] \in {"submitted", "running"}
      /\ status'[n] \in {"running", "returned", "raised"}
      /\ \A m \in Nodes \ {n} : status'[m] = status[m]
    BY DEF Begin, EndFunction, Becomes, TypeOK
<1>2. WithStatus({"error"})' = WithStatus({"error"}) /\ Left' = Left /\ Unprocessed' = Unprocessed
    BY <1>1 DEF WithStatus, Left, Unprocessed
<1>3. TypeOK'  BY <1>1 DEF TypeOK, Status, Begin, EndFunction, Becomes
<1>4. InOrder'  BY <1>1 DEF InOrder, Started, TypeOK
<1>5. WaitingRight'
  <2>1. \A m \in Nodes : \A d \in deps[m] : (status'[d] = "done") <=> (status[d] = "done")
      BY <1>1 DEF TypeOK
  <2> QED  BY <1>1, <1>2, <2>1 DEF WaitingRight, Unprocessed, WithStatus
<1>6. SkipsHaveReasons'  BY <1>1 DEF SkipsHaveReasons, WithStatus, TypeOK
<1>7. CountRight' /\ ExceptionRight'  BY <1>1, <1>2 DEF CountRight, ExceptionRight
<1>8. PhasesRight'  BY <1>1 DEF PhasesRight
<1>9. ResultRight'  BY <1>1 DEF ResultRight
<1> QED  BY <1>3, <1>4, <1>5, <1>6, <1>7, <1>8, <1>9

LEMMA VisitKeepsInv == ASSUME DagInv, NEW n \in Nodes, Visit(n) PROVE DagInv'
<1> USE DEF DagInv
<1>1. /\ UNCHANGED <<deps, tasks_num, raise_on_error, waiting, num>>
      /\ tasks_num = 1
      /\ status[n] = "unprocessed"
      /\ status'[n] \in {"done", "error", "skipped"}
      /\ \A m \in Nodes \ {n} : status'[m] = status[m]
    BY DEF Visit, Becomes, TypeOK
<1>2. TypeOK'  BY <1>1 DEF TypeOK, Status, Visit, Becomes, SetException
<1>3. InOrder'
  <2>1. status'[n] \in Started => \A d \in deps[n] : status[d] = "done"
      BY <1>1 DEF Visit, Becomes, Started, PhasesRight, Unprocessed, WithStatus, TypeOK
  <2> QED  BY <1>1, <2>1 DEF InOrder, TypeOK
<1>4. SkipsHaveReasons'
  <2>1. status'[n] = "skipped" => \E d \in deps[n] : status[d] \in {"error", "skipped"}
      BY DEF Visit, Becomes, WithStatus, TypeOK
  <2> QED  BY <1>1, <2>1 DEF SkipsHaveReasons, WithStatus, TypeOK
<1>5. WaitingRight' /\ CountRight'  BY <1>1 DEF WaitingRight, CountRight
<1>6. PhasesRight'
    BY <1>1 DEF PhasesRight, Visit, SetException
<1>7. ResultRight'  BY DEF ResultRight, Visit, SetException, PhasesRight
<1>8. ExceptionRight'
  <2>1. CASE status'[n] = "error"
    <3>1. WithStatus({"error"})' # {}  BY <2>1 DEF WithStatus
    <3>2. finished = "pending"  BY DEF Visit, PhasesRight
    <3> QED  BY <1>1, <2>1, <3>1, <3>2 DEF ExceptionRight, Visit, Becomes, SetException, TypeOK
  <2>2. CASE status'[n] # "error"
    <3>1. WithStatus({"error"})' = WithStatus({"error"})  BY <1>1, <2>2 DEF WithStatus
    <3> QED  BY <1>1, <2>2, <3>1 DEF ExceptionRight, Visit, Becomes, TypeOK
  <2> QED  BY <2>1, <2>2
<1> QED  BY <1>2, <1>3, <1>4, <1>5, <1>6, <1>7, <1>8
LEMMA ReturnedKeepsInv == ASSUME DagInv, NEW n \in Nodes, ProcessReturned(n) PROVE DagInv'
<1> USE DEF DagInv
<1>1. /\ UNCHANGED <<deps, tasks_num, raise_on_error, main>>
      /\ status[n] = "returned"
      /\ tasks_num > 1
      /\ tasks_num \in Nat
    BY DagConstants DEF ProcessReturned, PhasesRight, TypeOK
<1>2. /\ status'[n] = "done"
      /\ \A m \in Nodes \ {n} :
            \/ status'[m] = status[m]
            \/ status'[m] \in {"submitted", "dropped"} /\ m \in Ready(n)
    BY DEF ProcessReturned, SubmitNextNodes, Becomes, TypeOK, Ready, Unprocessed, WithStatus
<1>3. Left' = Left \ {n} /\ n \in Left
    BY <1>1, <1>2 DEF Left, Ready, Unprocessed, WithStatus
<1>4. num = Cardinality(Left) /\ num' = Cardinality(Left')
    BY <1>1, <1>3, LeftIsFinite, FS_RemoveElement DEF CountRight, ProcessReturned
<1>5. num' \in Nat  BY <1>3, <1>4, LeftIsFinite, FS_RemoveElement, FS_CardinalityType
<1>6. num' = 0 => \A m \in Nodes : status'[m] \in {"done", "error", "skipped"}
  <2>1. num' = 0 => Left' = {}
      BY <1>3, <1>4, LeftIsFinite, FS_RemoveElement, FS_EmptySet
  <2> QED  BY <2>1 DEF Left
<1>7. TypeOK'
  <2>1. status' \in [Nodes -> Status]
      BY DEF TypeOK, Status, ProcessReturned, SubmitNextNodes, Becomes
  <2>2. waiting' \in [Nodes -> SUBSET Nodes]  BY DEF TypeOK, ProcessReturned
  <2> QED  BY <1>1, <1>5, <2>1, <2>2 DEF TypeOK, ProcessReturned, SetResult
<1>8. \A m \in Ready(n) : \A d \in deps[m] : status'[d] = "done"
  <2> TAKE m \in Ready(n)
  <2>1. waiting[m] = {d \in deps[m] : status[d] # "done"} /\ waiting[m] \subseteq {n}
      BY <1>1 DEF Ready, WaitingRight
  <2> TAKE d \in deps[m]
  <2>2. d \in Nodes  BY DEF Ready, Unprocessed, WithStatus, TypeOK
  <2>3. status[d] # "done" => d = n  BY <2>1
  <2> QED  BY <1>2, <2>2, <2>3 DEF Ready, Unprocessed, WithStatus
<1>9. InOrder'
  <2> SUFFICES ASSUME NEW m \in Nodes, status'[m] \in Started, NEW d \in deps[m]
               PROVE  status'[d] = "done"
      BY <1>1 DEF InOrder
  <2>1. d \in Nodes  BY DEF TypeOK
  <2>2. CASE m \in Ready(n)  BY <1>8, <2>2
  <2>3. CASE m \notin Ready(n)
    <3>1. status[m] \in Started  BY <1>1, <1>2, <2>3 DEF Started
    <3>2. status[d] = "done"  BY <3>1 DEF InOrder
    <3> QED  BY <1>2, <2>1, <3>2 DEF Ready, Unprocessed, WithStatus
  <2> QED  BY <2>2, <2>3
<1>10. WaitingRight'
  <2> SUFFICES ASSUME NEW m \in Nodes, status'[m] = "unprocessed"
               PROVE  waiting'[m] = {d \in deps[m] : status'[d] # "done"}
      BY <1>1 DEF WaitingRight, Unprocessed, WithStatus
  <2>1. status[m] = "unprocessed" /\ m \in Unprocessed
      BY <1>1, <1>2 DEF Unprocessed, WithStatus
  <2>2. waiting[m] = {d \in deps[m] : status[d] # "done"}
      BY <1>1, <2>1 DEF WaitingRight
  <2>3. waiting'[m] = waiting[m] \ {n}
      BY <1>6, <2>1 DEF ProcessReturned, TypeOK
  <2>4. \A d \in deps[m] : (status'[d] # "done") <=> (status[d] # "done" /\ d # n)
    <3> TAKE d \in deps[m]
    <3> d \in Nodes  BY DEF TypeOK
    <3> QED  BY <1>1, <1>2 DEF Ready, Unprocessed, WithStatus
  <2> QED  BY <2>2, <2>3, <2>4
<1>11. SkipsHaveReasons'
  <2> SUFFICES ASSUME NEW m \in Nodes, status'[m] = "skipped"
               PROVE  \E d \in deps[m] : status'[d] \in {"error", "skipped"}
      BY <1>1 DEF SkipsHaveReasons, WithStatus
  <2>1. status[m] = "skipped"  BY <1>2
  <2>2. PICK d \in deps[m] : status[d] \in {"error", "skipped"}
      BY <2>1 DEF SkipsHaveReasons, WithStatus
  <2>3. d \in Nodes  BY DEF TypeOK
  <2> QED  BY <1>1, <1>2, <2>2, <2>3 DEF Ready, Unprocessed, WithStatus
<1>12. CountRight'  BY <1>4 DEF CountRight
<1>13. finished' = finished \/ (finished = "pending" /\ finished' = "result" /\ num' = 0)
    BY DEF ProcessReturned, SetResult
<1>14. PhasesRight'
    BY <1>1, <1>13 DEF PhasesRight
<1>15. ResultRight'  BY <1>1, <1>6, <1>13 DEF ResultRight
<1>16. ExceptionRight'
  <2>1. WithStatus({"error"})' = WithStatus({"error"})
      BY <1>1, <1>2 DEF WithStatus, Ready, Unprocessed
  <2> QED  BY <1>1, <1>13, <2>1 DEF ExceptionRight
<1> QED  BY <1>7, <1>9, <1>10, <1>11, <1>12, <1>14, <1>15, <1>16

LEMMA RaisedKeepsInv == ASSUME DagInv, NEW n \in Nodes, ProcessRaised(n) PROVE DagInv'
<1> USE DEF DagInv
<1>1. /\ UNCHANGED <<deps, tasks_num, raise_on_error, main, waiting>>
      /\ status[n] = "raised"
      /\ tasks_num > 1
    BY DagConstants DEF ProcessRaised, PhasesRight, TypeOK
<1> DEFINE skip == IF raise_on_error THEN {} ELSE Skipped(n)
<1>2. skip \subseteq Unprocessed  BY DEF Skipped
<1>3. /\ status' \in [Nodes -> Status]
      /\ status'[n] = "error"
      /\ \A m \in Nodes \ {n} : status'[m] = IF m \in skip THEN "skipped" ELSE status[m]
    BY DEF ProcessRaised, Becomes, TypeOK, Status
<1>4. n \notin skip /\ \A m \in skip : status[m] = "unprocessed" /\ m \in Nodes
    BY <1>1, <1>2 DEF Unprocessed, WithStatus
<1>5. Left' = Left \ (IF raise_on_error THEN {} ELSE {n} \cup skip)
    BY <1>1, <1>3, <1>4 DEF Left
<1>6. num' \in Nat /\ num' = Cardinality(Left')
  <2>1. CASE raise_on_error
      BY <1>1, <1>5, <2>1 DEF ProcessRaised, CountRight, TypeOK
  <2>2. CASE ~raise_on_error
    <3>1. n \in Left /\ skip \subseteq Left \ {n}
        BY <1>1, <1>4, <2>2 DEF Left
    <3>2. Left' = (Left \ {n}) \ skip  BY <1>5, <2>2
    <3>3. IsFiniteSet(Left \ {n}) /\ Cardinality(Left \ {n}) = num - 1
        BY <1>1, <3>1, LeftIsFinite, FS_RemoveElement DEF CountRight
    <3>4. Cardinality(Left') = Cardinality(Left \ {n}) - Cardinality((Left \ {n}) \cap skip)
        BY <3>2, <3>3, FS_Difference
    <3>5. (Left \ {n}) \cap skip = skip  BY <3>1
    <3>6. Cardinality(Left') \in Nat
        BY <3>2, <3>3, FS_Difference, FS_CardinalityType
    <3>7. num' = num - 1 - Cardinality(skip)
        BY <2>2 DEF ProcessRaised, CountAfterFailure
    <3> QED  BY <3>3, <3>4, <3>5, <3>6, <3>7
  <2> QED  BY <2>1, <2>2
<1>7. num' = 0 => \A m \in Nodes : status'[m] \in {"done", "error", "skipped"}
  <2>1. IsFiniteSet(Left')  BY <1>5, LeftIsFinite, FS_Subset
  <2>2. num' = 0 => Left' = {}  BY <1>6, <2>1, FS_EmptySet
  <2> QED  BY <2>2 DEF Left
<1>8. \/ finished' = finished /\ (raise_on_error => finished # "pending")
      \/ raise_on_error /\ finished = "pending" /\ finished' = "exception"
      \/ ~raise_on_error /\ finished = "pending" /\ finished' = "result" /\ num' = 0
    BY DEF ProcessRaised, SetResult, SetException
<1>9. TypeOK'  BY <1>1, <1>3, <1>6, <1>8 DEF TypeOK
<1>10. \A d \in Nodes : (status'[d] = "done") <=> (status[d] = "done")
    BY <1>1, <1>3, <1>4
<1>11. InOrder'
  <2> SUFFICES ASSUME NEW m \in Nodes, status'[m] \in Started, NEW d \in deps[m]
               PROVE  status'[d] = "done"
      BY <1>1 DEF InOrder
  <2>1. d \in Nodes  BY DEF TypeOK
  <2>2. status[m] \in Started  BY <1>1, <1>3 DEF Started
  <2>3. status[d] = "done"  BY <2>2 DEF InOrder
  <2> QED  BY <1>10, <2>1, <2>3
<1>12. WaitingRight'
  <2> SUFFICES ASSUME NEW m \in Nodes, status'[m] = "unprocessed"
               PROVE  waiting[m] = {d \in deps[m] : status'[d] # "done"}
      BY <1>1 DEF WaitingRight, Unprocessed, WithStatus
  <2>1. m \in Unprocessed  BY <1>3 DEF Unprocessed, WithStatus
  <2>2. waiting[m] = {d \in deps[m] : status[d] # "done"}
      BY <1>1, <2>1 DEF WaitingRight
  <2>3. deps[m] \subseteq Nodes  BY DEF TypeOK
  <2> QED  BY <1>10, <2>2, <2>3
<1>13. SkipsHaveReasons'
  <2> SUFFICES ASSUME NEW m \in Nodes, status'[m] = "skipped"
               PROVE  \E d \in deps[m] : status'[d] \in {"error", "skipped"}
      BY <1>1 DEF SkipsHaveReasons, WithStatus
  <2>1. CASE m \in skip
    <3>1. m \in Skipped(n) /\ m \in Unprocessed  BY <2>1 DEF Skipped
    <3>2. PICK d \in waiting[m] : d \in Skipped(n) \cup {n}  BY <3>1, SkippedWaits
    <3>3. d \in deps[m]  BY <1>1, <3>1, <3>2 DEF WaitingRight
    <3>4. status'[d] \in {"error", "skipped"}
        BY <1>3, <1>4, <2>1, <3>2
    <3> QED  BY <3>3, <3>4
  <2>2. CASE m \notin skip
    <3>1. status[m] = "skipped"  BY <1>3, <2>2
    <3>2. PICK d \in deps[m] : status[d] \in {"error", "skipped"}
        BY <3>1 DEF SkipsHaveReasons, WithStatus
    <3>3. d \in Nodes  BY DEF TypeOK
    <3> QED  BY <1>3, <1>4, <3>2, <3>3
  <2> QED  BY <2>1, <2>2
<1>14. CountRight'  BY <1>6 DEF CountRight
<1>15. PhasesRight'  BY <1>1, <1>8 DEF PhasesRight
<1>16. ResultRight'  BY <1>1, <1>7, <1>8 DEF ResultRight
<1>17. ExceptionRight'
  <2>1. n \in WithStatus({"error"})'  BY <1>3 DEF WithStatus
  <2>2. finished = "result" => FALSE  BY <1>1 DEF ResultRight
  <2> QED  BY <1>1, <1>8, <2>1, <2>2 DEF ExceptionRight, TypeOK
<1> QED  BY <1>9, <1>11, <1>12, <1>13, <1>14, <1>15, <1>16, <1>17
-----------------------------------------------------------------------------
LEMMA DagInvIsInductive == DagInv /\ [Next]_vars => DagInv'
<1> SUFFICES ASSUME DagInv, [Next]_vars PROVE DagInv'  OBVIOUS
<1>1. CASE Main
    BY <1>1, RunKeepsInv, MainKeepsInv, VisitKeepsInv DEF Main
<1>2. ASSUME NEW n \in Nodes, Worker(n) PROVE DagInv'
    BY <1>2, WorkingKeepsInv, ReturnedKeepsInv, RaisedKeepsInv DEF Worker
<1>3. CASE UNCHANGED vars
    BY <1>3 DEF vars, DagInv, TypeOK, InOrder, WaitingRight, SkipsHaveReasons, CountRight,
        PhasesRight, ResultRight, ExceptionRight, Left, Unprocessed, WithStatus
<1> QED  BY <1>1, <1>2, <1>3 DEF Next

\* The state of the executor is right at every point of a run: what waits, what was
\* started and what is left are what the graph and the outcomes so far say.
THEOREM ExecutorStateRight == Spec => []DagInv
<1>1. Init => DagInv  BY InitRight
<1>2. DagInv /\ [Next]_vars => DagInv'  BY DagInvIsInductive
<1> QED  BY <1>1, <1>2, PTL DEF Spec

\* No failure is lost among the threads: a run ends in an exception exactly if it was to
\* raise and a node failed.
THEOREM NoFailureIsLost == Spec => []ErrorsAreRaised
<1>1. DagInv => ErrorsAreRaised  BY DEF DagInv, ExceptionRight, ErrorsAreRaised
<1> QED  BY <1>1, ExecutorStateRight, PTL

\* A run of the threaded executor ends as the sequential visit does, in an exception or
\* with the same outcome for every node.
THEOREM AgreesWithSequence == Spec => []AsInSequence
<1>1. DagInv /\ ErrorsAreRaised => AsInSequence
  <2> SUFFICES ASSUME DagInv, ErrorsAreRaised, finished = "result", NEW n \in Nodes
               PROVE  /\ status[n] \in {"done", "error", "skipped"}
                      /\ status[n] = "skipped" <=>
                            \E d \in deps[n] : status[d] \in {"error", "skipped"}
      BY DEF AsInSequence
  <2>1. status[n] \in {"done", "error", "skipped"}  BY DEF DagInv, ResultRight
  <2>2. status[n] = "skipped" => \E d \in deps[n] : status[d] \in {"error", "skipped"}
      BY DEF DagInv, SkipsHaveReasons, WithStatus
  <2>3. status[n] \in {"done", "error"} => \A d \in deps[n] : status[d] = "done"
      BY DEF DagInv, InOrder, Started
  <2> QED  BY <2>1, <2>2, <2>3
<1> QED  BY <1>1, ExecutorStateRight, NoFailureIsLost, PTL

\* Threads or not, the nodes are traversed as DagTraversal promises.
THEOREM ImplementsTraversal == Spec => TraversalSpec
<1> DEFINE applied == WithStatus({"done"})
           failed == WithStatus({"error"})
           skipped == WithStatus({"skipped"})
<1>1. Init => Traversal!Init  BY DEF Init, Traversal!Init, WithStatus
<1>2. DagInv /\ [Next]_vars => [Traversal!Next]_Traversal!vars
  <2> SUFFICES ASSUME DagInv, [Next]_vars PROVE [Traversal!Next]_Traversal!vars  OBVIOUS
  <2> USE DEF Traversal!vars, Traversal!Next, Traversal!Apply, Traversal!Fail, Traversal!Skip,
        Traversal!Handled
  <2>1. CASE Run
    <3>1. \A n \in Nodes : status[n] = "unprocessed" /\ status'[n] \in {"unprocessed", "submitted"}
        BY <2>1 DEF Run, DagInv, TypeOK, PhasesRight
    <3> QED  BY <2>1, <3>1 DEF Run, WithStatus
  <2>2. CASE Shutdown \/ EndRun \/ EndVisits
      BY <2>2 DEF Shutdown, EndRun, EndVisits, WithStatus
  <2>3. ASSUME NEW n \in Nodes, Visit(n) PROVE Traversal!Next
    <3>1. UNCHANGED deps /\ status[n] = "unprocessed" /\ \A m \in Nodes \ {n} : status'[m] = status[m]
        BY <2>3 DEF Visit, Becomes, DagInv, TypeOK
    <3>2. CASE status'[n] = "skipped"
      <4>1. deps[n] \cap (failed \cup skipped) # {}
          BY <2>3, <3>2 DEF Visit, Becomes, DagInv, TypeOK, WithStatus
      <4>2. skipped' = skipped \cup {n} /\ UNCHANGED <<applied, failed>>
          BY <3>1, <3>2 DEF WithStatus
      <4>3. Traversal!Skip({n}) /\ UNCHANGED failed
          BY <3>1, <4>1, <4>2 DEF WithStatus
      <4>4. {n} \in SUBSET Nodes  OBVIOUS
      <4> QED  BY <4>3, <4>4
    <3>3. CASE status'[n] \in {"done", "error"}
      <4>1. deps[n] \subseteq applied
          BY <2>3, <3>3 DEF Visit, Becomes, DagInv, TypeOK, PhasesRight, WithStatus, Unprocessed
      <4>2. CASE status'[n] = "done"
        <5>1. applied' = applied \cup {n} /\ UNCHANGED <<failed, skipped>>
            BY <3>1, <4>2 DEF WithStatus
        <5> QED  BY <3>1, <4>1, <5>1 DEF WithStatus
      <4>3. CASE status'[n] = "error"
        <5>1. failed' = failed \cup {n} /\ UNCHANGED <<applied, skipped>>
            BY <3>1, <4>3 DEF WithStatus
        <5>2. Traversal!Fail(n) /\ Traversal!Skip({})
            BY <3>1, <4>1, <5>1 DEF WithStatus
        <5> QED  BY <5>2
      <4> QED  BY <3>3, <4>2, <4>3
    <3> QED  BY <2>3, <3>2, <3>3 DEF Visit, Becomes, DagInv, TypeOK
  <2>4. ASSUME NEW n \in Nodes, Begin(n) \/ EndFunction(n) PROVE UNCHANGED Traversal!vars
    <3>1. /\ UNCHANGED deps
          /\ status[n] \in {"submitted", "running"}
          /\ status'[n] \in {"running", "returned", "raised"}
          /\ \A m \in Nodes \ {n} : status'[m] = status[m]
        BY <2>4 DEF Begin, EndFunction, Becomes, DagInv, TypeOK
    <3> QED  BY <3>1 DEF WithStatus
  <2>5. ASSUME NEW n \in Nodes, ProcessReturned(n) PROVE Traversal!Next
    <3>1. /\ UNCHANGED deps
          /\ status[n] = "returned" /\ status'[n] = "done"
          /\ \A m \in Nodes \ {n} :
                \/ status'[m] = status[m]
                \/ status'[m] \in {"submitted", "dropped"} /\ status[m] = "unprocessed"
        BY <2>5 DEF ProcessReturned, SubmitNextNodes, Becomes, DagInv, TypeOK, Ready,
            Unprocessed, WithStatus
    <3>2. deps[n] \subseteq applied
        BY <3>1 DEF DagInv, InOrder, Started, TypeOK, WithStatus
    <3>3. applied' = applied \cup {n} /\ UNCHANGED <<failed, skipped>>
        BY <3>1 DEF WithStatus
    <3>4. Traversal!Apply(n)  BY <3>1, <3>2, <3>3 DEF WithStatus
    <3> QED  BY <3>4
  <2>6. ASSUME NEW n \in Nodes, ProcessRaised(n) PROVE Traversal!Next
    <3> DEFINE skip == IF raise_on_error THEN {} ELSE Skipped(n)
    <3>1. /\ UNCHANGED deps
          /\ status[n] = "raised" /\ status'[n] = "error"
          /\ skip \subseteq Unprocessed
          /\ \A m \in Nodes \ {n} : status'[m] = IF m \in skip THEN "skipped" ELSE status[m]
        BY <2>6 DEF ProcessRaised, Becomes, DagInv, TypeOK, Skipped
    <3>2. deps[n] \subseteq applied
        BY <3>1 DEF DagInv, InOrder, Started, TypeOK, WithStatus
    <3>3. failed' = failed \cup {n} /\ skipped' = skipped \cup skip /\ UNCHANGED applied
        BY <3>1 DEF WithStatus, Unprocessed
    <3>4. \A m \in skip : deps[m] \cap (failed' \cup skipped \cup skip) # {}
      <4> TAKE m \in skip
      <4>1. m \in Unprocessed /\ waiting[m] \cap (skip \cup {n}) # {}
          BY <3>1, SkippedWaits
      <4>2. tasks_num > 1
          BY <3>1, DagConstants DEF DagInv, PhasesRight, TypeOK
      <4>3. waiting[m] = {d \in deps[m] : status[d] # "done"}
          BY <4>1, <4>2 DEF DagInv, WaitingRight
      <4>4. waiting[m] \subseteq deps[m]  BY <4>3
      <4> QED  BY <3>3, <4>1, <4>4
    <3>5. Traversal!Fail(n) /\ Traversal!Skip(skip)
        BY <3>1, <3>2, <3>3, <3>4 DEF WithStatus, Unprocessed
    <3>6. skip \in SUBSET Nodes  BY <3>1 DEF Unprocessed, WithStatus
    <3> QED  BY <3>5, <3>6
  <2>7. CASE UNCHANGED vars  BY <2>7 DEF vars, WithStatus
  <2> QED  BY <2>1, <2>2, <2>3, <2>4, <2>5, <2>6, <2>7 DEF Next, Main, Worker
<1> QED  BY <1>1, <1>2, ExecutorStateRight, PTL DEF Spec, TraversalSpec, Traversal!Spec
=============================================================================
