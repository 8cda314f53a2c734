------------------------------ MODULE Intervals ------------------------------
(***************************************************************************)
(* Lists of intervals, as core/snapshot/definition.py and core/scheduler.py*)
(* compute with them: an interval is a pair, its start and its exclusive   *)
(* end in ticks of a clock; a unit is a number of ticks.                   *)
(***************************************************************************)
EXTENDS Integers, SequencesExt

NoEnd == -1

Floor(t, unit) == (t \div unit) * unit

CronNext(t, unit) == Floor(t, unit) + unit

Ceiling(t, unit) == IF Floor(t, unit) = t THEN t ELSE CronNext(t, unit)

Ticks(intervals) == UNION {i[1]..(i[2] - 1) : i \in ToSet(intervals)}

Earlier(i, j) == i[1] < j[1] \/ (i[1] = j[1] /\ i[2] < j[2])

\* In the list each interval has as many others ahead of it as in the order.
Sorted(S) ==
    [k \in 1..Cardinality(S) |-> CHOOSE i \in S : Cardinality({j \in S : Earlier(j, i)}) = k - 1]

\* A mutant of Joined: what is adjacent is kept apart.
JoinedIfOverlapping(merged, i) ==
    IF merged # << >> /\ i[1] < Last(merged)[2]
    THEN Append(Front(merged), <<Last(merged)[1], Max({Last(merged)[2], i[2]})>>)
    ELSE Append(merged, i)

\* The next interval joins the last one before it, or comes behind it.
Joined(merged, i) ==
    IF merged # << >> /\ i[1] <= Last(merged)[2]
    THEN Append(Front(merged), <<Last(merged)[1], Max({Last(merged)[2], i[2]})>>)
    ELSE Append(merged, i)

\* merge_intervals
MergeIntervals(intervals) ==
    LET sorted == Sorted(ToSet(intervals))
        merged[k \in 0..Len(sorted)] ==
            IF k = 0 THEN << >> ELSE Joined(merged[k - 1], sorted[k])
    IN  merged[Len(sorted)]

\* What is left of an interval.
Rest(i, lo, hi) ==
    IF lo > i[1] /\ hi < i[2] THEN <<<<i[1], lo>>, <<hi, i[2]>>>>
    ELSE IF lo > i[1] THEN <<<<i[1], Min({lo, i[2]})>>>>
    ELSE IF hi < i[2] THEN <<<<Max({hi, i[1]}), i[2]>>>>
    ELSE << >>

\* remove_interval
RemoveInterval(intervals, lo, hi) ==
    FlattenSeq([k \in DOMAIN intervals |-> Rest(intervals[k], lo, hi)])

\* inclusive_exclusive, for timestamps.
InclusiveExclusive(start, end, unit, allow_partial, expand) ==
    <<IF expand \/ allow_partial THEN Floor(start, unit) ELSE Ceiling(start, unit),
      IF allow_partial THEN end ELSE IF expand THEN Ceiling(end, unit) ELSE Floor(end, unit)>>

\* expand_range: the ends are in it, whichever of them is the greater one.
ExpandRange(lo, hi, unit) ==
    <<lo>> \o [k \in 1..Max({0, (hi - 1) \div unit - lo \div unit}) |-> Floor(lo, unit) + k * unit]
           \o (IF hi = lo THEN << >> ELSE <<hi>>)

(***************************************************************************)
(* compute_missing_intervals.                                              *)
(***************************************************************************)

\* A mutant of Covered: it is enough that the beginning has been loaded.
Begun(intervals, lo, hi) == lo \in Ticks(intervals)

\* The recorded intervals are searched up to the first one that is later.
Covered(intervals, lo, hi) ==
    LET found == {k \in DOMAIN intervals :
                    lo < intervals[k][1] \/ (intervals[k][1] <= lo /\ hi <= intervals[k][2])}
    IN  found # {} /\ intervals[Min(found)][1] <= lo

\* Units after the model's end count for lookback, too.
EffectiveLookback(node, hi) ==
    IF node.end = NoEnd THEN node.lookback
    ELSE Max({0, node.lookback - Cardinality({t \in (node.end + 1)..(hi - 1) : t % node.unit = 0})})

\* A mutant of WithLookback: the unit itself is counted.
WithLookbackInclusive(missing, n, lookback) ==
    missing \cup {i \in 1..n : i + lookback - 1 > n \/ i + lookback - 1 \in missing}

\* Of the n units of a range: those with a unit to be loaded that far ahead of them.
WithLookback(missing, n, lookback) ==
    missing \cup {i \in 1..n : i + lookback > n \/ i + lookback \in missing}

ComputeMissingIntervals(intervals, lo, hi, node) ==
    LET ts == ExpandRange(lo, hi, node.unit)
        n == Len(ts) - 1
        unloaded == {i \in 1..n : ~Covered(intervals, ts[i], ts[i + 1])}
        missing == IF unloaded # {} /\ node.lookback # 0
                   THEN WithLookback(unloaded, n, EffectiveLookback(node, hi))
                   ELSE unloaded
    IN  Sorted({<<ts[i], ts[i + 1]>> : i \in {i \in missing : node.end # NoEnd => ts[i] < node.end}})

(***************************************************************************)
(* Batches.                                                                *)
(***************************************************************************)

\* The batches with one more interval: in the last one of them, or in one of its own.
WithNext(batches, i, size) ==
    IF /\ batches # << >>
       /\ Last(Last(batches))[2] = i[1]
       /\ size # 0 => Len(Last(batches)) < size
    THEN Append(Front(batches), Append(Last(batches), i))
    ELSE Append(batches, <<i>>)

\* Each batch as one interval.
EndsOf(batches) == [k \in DOMAIN batches |-> <<batches[k][1][1], Last(batches[k])[2]>>]

\* Contiguous intervals, size of them at a time (0: all).
Contiguous(intervals, size) ==
    LET batches[k \in 0..Len(intervals)] ==
            IF k = 0 THEN << >> ELSE WithNext(batches[k - 1], intervals[k], size)
    IN  EndsOf(batches[Len(intervals)])

\* An interval by its units.
UnitsOf(i, unit) ==
    LET ts == ExpandRange(i[1], i[2], unit)
    IN  [k \in 1..(Len(ts) - 1) |-> <<ts[k], ts[k + 1]>>]

Units(intervals, unit) ==
    FlattenSeq([k \in DOMAIN intervals |-> UnitsOf(intervals[k], unit)])

\* Those that are not among others.
Without(intervals, others) ==
    FlattenSeq([k \in DOMAIN intervals |->
        IF intervals[k] \in ToSet(others) THEN << >> ELSE <<intervals[k]>>])

\* interval_diff: two indices, and what is left of a when b is at its end.
IntervalDiff(a, b, uninterrupted) ==
    LET Apart(i, j) == a[i][1] >= b[j][2] \/ b[j][1] >= a[i][2]
        diff[at \in (1..(Len(a) + 1)) \X (1..(Len(b) + 1))] ==
            LET i == at[1]
                j == at[2]
            IN  IF i > Len(a) THEN << >>
                ELSE IF j > Len(b) THEN IF Apart(i, Len(b)) THEN SubSeq(a, i, Len(a)) ELSE << >>
                ELSE IF a[i][1] >= b[j][2] THEN diff[<<i, j + 1>>]
                ELSE IF b[j][1] >= a[i][2] THEN <<a[i]>> \o diff[<<i + 1, j>>]
                ELSE IF uninterrupted THEN << >>
                ELSE IF a[i][1] >= b[j][1] THEN diff[<<i + 1, j>>]
                ELSE diff[<<i, j + 1>>]
    IN  IF a = << >> \/ b = << >> THEN a ELSE diff[<<1, 1>>]
=============================================================================
