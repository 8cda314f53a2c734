-------------------------- MODULE MissingIntervals --------------------------
(***************************************************************************)
(* Which intervals of a model are evaluated when: Snapshot.missing_        *)
(* intervals and what Scheduler.batch_intervals makes of them (core/       *)
(* snapshot/definition.py, core/scheduler.py), for runs, plans and         *)
(* restatements of one model as time passes.  The model has a cron, an     *)
(* interval unit, a lookback, partial intervals, a start and an end.       *)
(*                                                                         *)
(* Time is a number of ticks.  What has been recorded is kept as the code  *)
(* keeps it, in a list; for every tick, asof is how much of the source the *)
(* rows in the table were computed from.                                   *)
(***************************************************************************)
EXTENDS Intervals

CONSTANTS
    Nodes,          \* what kinds of models there are: see TypeOK
    Horizon,        \* time ends there
    WithStart,      \* whether a range may begin ahead of what has been loaded
    AfterTick,      \* whether ranges begin after the last tick of the model's cron
    Signals,        \* what may be held back: the lists of intervals that are not ready
    Failures        \* whether a batch may fail while others, later ones too, go on

ASSUME MissingIntervalsConstants ==
    /\ Horizon \in Nat \ {0}
    /\ \A n \in Nodes :
        /\ n.unit \in Nat \ {0} /\ n.cron \in Nat \ {0}
        /\ n.lookback \in Nat /\ n.batch_size \in Nat
        /\ n.start \in 0..Horizon /\ n.end \in 1..Horizon \cup {NoEnd}
        /\ {n.allow_partials, n.depends_on_past, n.full_history} \subseteq BOOLEAN
        /\ n.full_history => n.depends_on_past
    /\ Signals \subseteq Seq(Int \X Int) /\ \A s \in Signals : \A k \in DOMAIN s : s[k][1] < s[k][2]
    /\ {WithStart, AfterTick, Failures} \subseteq BOOLEAN

VARIABLES
    node,       \* the model
    now,
    intervals,  \* Snapshot.intervals
    asof,       \* for each tick, the time its rows are as of
    run         \* the run: what was asked for, and what is left to do

vars == <<node, now, intervals, asof, run>>

Never == -1

Time == 0..Horizon

NoRequest == [start |-> 0, end |-> 0, execution_time |-> 0, ignore_cron |-> FALSE,
              end_bounded |-> FALSE, restatement |-> << >>, unready |-> << >>]

Idle == [status |-> "idle", request |-> NoRequest, batches |-> << >>]

\* Sorted, not empty, and neither overlapping nor adjacent.
IsCanonical(s) ==
    /\ \A k \in DOMAIN s : s[k][1] < s[k][2]
    /\ \A k \in 1..(Len(s) - 1) : s[k][2] < s[k + 1][1]

\* The list of intervals keeps its form, what must not be partial is made of whole units,
\* and no batch ends before it begins.
TypeOK ==
    /\ node \in Nodes /\ now \in Time
    /\ IsCanonical(intervals) /\ Ticks(intervals) \subseteq Time
    /\ \A i \in ToSet(intervals) :
          node.allow_partials \/ (i[1] % node.unit = 0 /\ i[2] % node.unit = 0)
    /\ asof \in [Time -> Time \cup {Never}]
    /\ DOMAIN run = {"status", "request", "batches"}
    /\ run.status \in {"idle", "running", "success", "stopped", "error"}
    /\ \A b \in ToSet(run.batches) : b[1] < b[2]
    /\ run.batches # << >> => run.status \in {"running", "stopped", "error"}

Init ==
    /\ node \in Nodes
    /\ now = node.start
    /\ intervals = << >>
    /\ asof = [t \in Time |-> Never]
    /\ run = Idle

\* A run does not look at the clock any more: it works with its execution time.
TimePasses ==
    /\ now < Horizon
    /\ run.status # "running"
    /\ now' = now + 1
    /\ run' = Idle
    /\ UNCHANGED <<node, intervals, asof>>

(***************************************************************************)
(* What is missing.                                                        *)
(***************************************************************************)

\* A mutant of CronFloor: the interval that the next tick will complete is due already.
CronCeiling(t) == Ceiling(t, node.cron)

CronFloor(t) == Floor(t, node.cron)

\* Nothing is evaluated beyond this.
UpperBound(r, end) ==
    LET bound == IF r.ignore_cron THEN r.execution_time ELSE CronFloor(r.execution_time)
        bounded == IF r.end_bounded THEN Min({bound, end}) ELSE bound
    IN  IF node.allow_partials THEN bounded ELSE Floor(bounded, node.unit)

\* Snapshot.missing_intervals.  (For partial intervals an empty range is an error there.)
SnapshotMissingIntervals(s, start, end, r) ==
    LET range == InclusiveExclusive(start, end, node.unit, node.allow_partials, TRUE)
    IN  IF \/ node.end # NoEnd /\ start > node.end
           \/ ~node.allow_partials /\ end - start < node.unit
        THEN << >>
        ELSE LET hi == Min({range[2], UpperBound(r, range[2])})
             IN  IF range[1] = hi THEN << >> ELSE ComputeMissingIntervals(s, range[1], hi, node)

\* Where what is asked for begins: not before the model does.
FirstTick(r) ==
    Max({IF r.restatement # << >> THEN r.restatement[1] ELSE r.start, node.start})

\* missing_intervals: a restated interval is taken out of a copy first.
Missing(r) ==
    LET restated == r.restatement # << >>
        lo == FirstTick(r)
        hi == IF restated THEN r.restatement[2] ELSE r.end
        recorded == IF restated THEN RemoveInterval(intervals, r.restatement[1], r.restatement[2])
                    ELSE intervals
    IN  IF lo > hi THEN << >>
        ELSE SnapshotMissingIntervals(recorded, lo,
                IF node.end # NoEnd THEN Min({node.end, hi}) ELSE hi, r)

\* compute_interval_params and batch_intervals, given what is not ready.
Batches(r) ==
    LET candidates == Units(Contiguous(Missing(r), 0), node.unit)
    IN  Contiguous(IntervalDiff(Without(candidates, r.unready), MergeIntervals(r.unready),
                                node.depends_on_past),
                   node.batch_size)

(***************************************************************************)
(* Runs, plans and restatements.                                           *)
(***************************************************************************)
BeginsInTime(r) ==
    AfterTick \/ r.ignore_cron \/ Floor(FirstTick(r), node.unit) <= CronFloor(r.execution_time)

Request(r) ==
    /\ run.status # "running"
    /\ BeginsInTime(r)
    /\ \E batches \in {Batches(r)} :
          run' = [status |-> IF batches = << >> THEN "success" ELSE "running",
                  request |-> r, batches |-> batches]
    /\ UNCHANGED <<node, now, intervals, asof>>

Ahead(lo, hi) == ~(lo..(hi - 1) \subseteq Ticks(intervals))

\* What is held back has not been loaded before.
Run(start, end, ignore_cron, end_bounded, unready) ==
    /\ WithStart \/ start = node.start
    /\ start < end /\ end <= now
    /\ Ticks(unready) \cap Ticks(intervals) = {}
    /\ Request([start |-> start, end |-> end, execution_time |-> now, ignore_cron |-> ignore_cron,
                end_bounded |-> end_bounded, restatement |-> << >>, unready |-> unready])

\* A mutant of RemovalInterval: what depends on the past is treated like the others.
RequestedInterval(start, end) ==
    InclusiveExclusive(start, end, node.unit, node.allow_partials, TRUE)

\* get_removal_interval
RemovalInterval(start, end) ==
    LET last == IF node.depends_on_past THEN now ELSE end
        first == IF node.full_history /\ intervals # << >> THEN intervals[1][1] ELSE start
    IN  InclusiveExclusive(first, last, node.unit, node.allow_partials, TRUE)

\* _build_restatements: whole units, if it does not end with one.
RestatedInterval(start, end) ==
    LET removal == RemovalInterval(start, end)
    IN  IF Floor(removal[2], node.unit) < removal[2]
        THEN <<Floor(removal[1], node.unit), Ceiling(removal[2], node.unit)>>
        ELSE removal

Restate(start, end) ==
    /\ start < end /\ end <= now
    /\ \E restated \in {RestatedInterval(start, end)} :
        /\ node.allow_partials => restated[2] # node.start  \* That is an error.
        /\ WithStart \/ node.lookback = 0 \/ ~Ahead(restated[1], restated[2])
        /\ Request([NoRequest EXCEPT !.start = start, !.end = end, !.execution_time = now,
                                     !.restatement = restated])

\* A restatement of prod clears the intervals of a version that prod does not have.
ClearIntervals(start, end) ==
    LET restated == RestatedInterval(start, end)
    IN  /\ start < end /\ end <= now
        /\ run.status # "running"
        /\ intervals' = RemoveInterval(intervals, restated[1], restated[2])
        /\ run' = Idle
        /\ UNCHANGED <<node, now, asof>>

\* add_interval: partial units are left out, unless the model has partial intervals.
AddInterval(lo, hi) ==
    LET i == InclusiveExclusive(lo, hi, node.unit, node.allow_partials, FALSE)
    IN  intervals' = IF i[1] >= i[2] THEN intervals ELSE MergeIntervals(Append(intervals, i))

\* Batches are evaluated at the same time, in any order, unless each waits for the one
\* before.  A range that ends before it starts is an error (validate_date_range).
EvaluateBatch(k) ==
    LET batch == run.batches[k]
        left == RemoveAt(run.batches, k)
    IN  /\ run.status = "running"
        /\ node.in_order => k = 1
        /\ IF batch[1] > batch[2]
           THEN run' = [run EXCEPT !.status = "error"] /\ UNCHANGED <<intervals, asof>>
           ELSE /\ AddInterval(batch[1], batch[2])
                /\ asof' = [t \in Time |-> IF batch[1] <= t /\ t < batch[2]
                                           THEN run.request.execution_time ELSE asof[t]]
                /\ run' = [run EXCEPT !.batches = left,
                                      !.status = IF left = << >> THEN "success" ELSE @]
        /\ UNCHANGED <<node, now>>

\* An error, or the end of the process.
Stop ==
    /\ run.status = "running"
    /\ node.in_order \/ Failures
    /\ run' = [run EXCEPT !.status = "stopped"]
    /\ UNCHANGED <<node, now, intervals, asof>>

Next ==
    \/ TimePasses
    \/ \E start, end \in Time, ignore_cron, end_bounded \in BOOLEAN, unready \in Signals :
          Run(start, end, ignore_cron, end_bounded, unready)
    \/ \E start, end \in Time : Restate(start, end) \/ ClearIntervals(start, end)
    \/ \E k \in DOMAIN run.batches : EvaluateBatch(k)
    \/ Stop

Spec == Init /\ [][Next]_vars
-----------------------------------------------------------------------------
Loaded == Ticks(intervals)

UnitOf(t) == Floor(t, node.unit)..(CronNext(t, node.unit) - 1)

\* What is recorded as loaded was computed when it was over; what is recorded in part,
\* or was once, is computed again, from its beginning, when all of it is.
WholeIntervals ==
    \A t \in Loaded :
        /\ asof[t] > t
        /\ UnitOf(t) \subseteq Loaded => asof[t] >= CronNext(t, node.unit)

\* Late data is picked up: once the unit that lies the lookback ahead of another one has
\* been loaded, the other one is no older than the end of that unit, or is just being
\* computed again.
LookedBack ==
    \A t \in IF run.status = "running" THEN Loaded \ Ticks(run.batches) ELSE Loaded :
        LET ahead == t + node.lookback * node.unit
        IN  UnitOf(t) \cup UnitOf(ahead) \subseteq Loaded => asof[t] >= CronNext(ahead, node.unit)

\* What a run or a plan is asked for: all of the model's units that began before the end
\* of the range and that the cron, or the clock where it is ignored, has completed.
Due(r) ==
    LET over == IF r.ignore_cron THEN r.execution_time ELSE CronFloor(r.execution_time)
        InRange(t) == node.start <= t /\ (node.end # NoEnd => Min(UnitOf(t)) < node.end)
    IN  IF node.allow_partials
        THEN {t \in Time : InRange(t) /\ t < over /\ t < r.end /\ (node.end # NoEnd => t < node.end)}
        ELSE IF r.end - node.start < node.unit THEN {}
        ELSE {t \in Time : InRange(t) /\ CronNext(t, node.unit) <= over /\ Min(UnitOf(t)) < r.end}

\* Held back: what is not ready, and what is behind it where the past matters.
HeldBack(r) ==
    LET unready == Ticks(r.unready)
    IN  {t \in Time : \/ UnitOf(t) \cap unready # {}
                      \/ node.depends_on_past /\ \E u \in unready : u <= t}

\* A run that succeeds has loaded all that was due and ready, and nothing that was not
\* ready; and, if nothing was held back, the same request finds nothing to do.
CaughtUp ==
    LET r == run.request
    IN  run.status = "success" /\ r.restatement = << >> /\ r.start = node.start =>
          /\ Due(r) \ HeldBack(r) \subseteq Loaded
          /\ Loaded \cap Ticks(r.unready) = {}
          /\ r.unready = << >> => Missing(r) = << >>

\* After a restatement everything in its range that had been loaded is new: also all that
\* was computed from it, where a model depends on its past, and the whole of a model that
\* can only be computed from the beginning.
RestatedAnew ==
    LET r == run.request
        Restated(t) == /\ node.full_history \/ r.start <= t
                       /\ node.depends_on_past \/ t < r.end
                       /\ (IF node.allow_partials THEN t + 1 ELSE CronNext(t, node.unit))
                             <= CronFloor(r.execution_time)
    IN  run.status = "success" /\ r.restatement # << >> =>
          \A t \in Loaded : Restated(t) => asof[t] = r.execution_time
=============================================================================
