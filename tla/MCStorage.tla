------------------------------ MODULE MCStorage ------------------------------
(* Values for the constants of Storage, for TLC.                           *)
EXTENDS Storage, TLC

CONSTANTS s1, s2, t1, t2, i64, bool

TasksSymmetry == Permutations(Tasks)

SampleOf(s, ts) == [data_id |-> s, timestamp_ms |-> ts, series_type |-> i64]

\* One sample at timestamp 1 or 2 of one series.
SingleBatches == {<<SampleOf(s1, 1)>>, <<SampleOf(s1, 2)>>}

\* Only that at timestamp 1.
OneBatch == {<<SampleOf(s1, 1)>>}

\* Batches of two samples: out of order, a repeated timestamp, a wrong type.
PairBatches ==
    SingleBatches \union
    {<<SampleOf(s1, 2), SampleOf(s1, 1)>>,
     <<SampleOf(s1, 1), SampleOf(s1, 1)>>,
     <<[SampleOf(s1, 1) EXCEPT !.series_type = bool], SampleOf(s1, 2)>>}

=============================================================================
