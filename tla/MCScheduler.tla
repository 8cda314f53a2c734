---------------------------- MODULE MCScheduler ----------------------------
(***************************************************************************)
(* raw, with signals, feeds daily and keyed, and daily feeds total.  raw   *)
(* and daily are evaluated in batches of one interval, daily, a custom     *)
(* model, by two workers at most; keyed and total depend on the past.  The *)
(* second plan removes daily and total.  In another instance daily selects *)
(* from keyed, and in a third it has no batch_size.                        *)
(***************************************************************************)
EXTENDS Scheduler

MCSnapshotIds == {"raw", "daily", "total", "keyed"}

MCParents == [s \in MCSnapshotIds |->
    CASE s = "raw" -> {} [] s = "total" -> {"daily"} [] OTHER -> {"raw"}]

\* A model that depends on the past is in the middle.
KeyedInTheMiddle == [s \in MCSnapshotIds |->
    CASE s = "raw" -> {} [] s = "keyed" -> {"raw"} [] OTHER -> {"keyed"}]

OnePlan == <<{"raw", "keyed", "daily"}>>

RawAndDaily == <<{"raw", "daily"}>>

MCPlans == <<{"raw", "daily", "total", "keyed"}, {"raw", "keyed"}>>

Loaded(raw, daily, total, keyed) ==
    [s \in MCSnapshotIds |->
        CASE s = "raw" -> raw [] s = "daily" -> daily [] s = "total" -> total [] OTHER -> keyed]

\* The first run, one that goes on, and one after intervals have been cleared.
MCHistories ==
    {Loaded({}, {}, {}, {}), Loaded({1}, {1}, {1}, {1}), Loaded({1, 2}, {1}, {}, {}),
     Loaded({1, 3}, {1, 2, 3}, {1}, {})}

MCBatchSize == [s \in MCSnapshotIds |-> IF s = "total" THEN 2 ELSE IF s = "keyed" THEN 0 ELSE 1]

\* A custom model as it is by default.
Unbatched == [s \in MCSnapshotIds |-> 0]

MCBatchConcurrency == [s \in MCSnapshotIds |-> IF s = "daily" THEN 2 ELSE 0]
=============================================================================
