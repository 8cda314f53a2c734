------------------------ MODULE MCMissingIntervals ------------------------
(***************************************************************************)
(* Models whose interval unit is two ticks: one for each of the options,   *)
(* and some combinations of them.                                          *)
(***************************************************************************)
EXTENDS MissingIntervals

Plain == [unit |-> 2, cron |-> 2, lookback |-> 0, start |-> 0, end |-> NoEnd, batch_size |-> 0,
          allow_partials |-> FALSE, depends_on_past |-> FALSE, full_history |-> FALSE, in_order |-> TRUE]

MCNodes ==
    {[Plain EXCEPT !.lookback = 1, !.batch_size = 1, !.in_order = FALSE],
     [Plain EXCEPT !.lookback = 2],
     [Plain EXCEPT !.lookback = 1, !.cron = 4],
     [Plain EXCEPT !.lookback = 1, !.cron = 1, !.start = 2, !.allow_partials = TRUE],
     [Plain EXCEPT !.lookback = 1, !.end = 4],
     [Plain EXCEPT !.depends_on_past = TRUE, !.batch_size = 1],
     [Plain EXCEPT !.depends_on_past = TRUE, !.full_history = TRUE, !.start = 2]}

\* Units that the start of the model cuts in two, and of a clock that ticks less often.
UnalignedNodes == {[Plain EXCEPT !.start = 1]}

RareNodes == {[Plain EXCEPT !.cron = 4, !.start = 2]}

BatchedNodes == {[Plain EXCEPT !.lookback = 1, !.batch_size = 1, !.in_order = FALSE]}

WholeUnits == {<< >>, <<<<2, 4>>>>}

\* What a model of a finer unit upstream could not be evaluated for.
FinerUnits == {<< >>, <<<<0, 1>>>>, <<<<1, 2>>>>}

NothingUnready == {<< >>}
=============================================================================
