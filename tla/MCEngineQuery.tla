---------------------------- MODULE MCEngineQuery ----------------------------
(* Values for the constants of EngineQuery, for TLC.                       *)
EXTENDS EngineQuery

CONSTANTS s1, t1, t2, r1, i64

SampleOf(s, ts) == [data_id |-> s, timestamp_ms |-> ts, series_type |-> i64]

\* One sample at timestamp 1, 2 or 3.
SingleBatches == {<<SampleOf(s1, ts)>> : ts \in 1 .. 3}

\* Everything, the first row from 1 on, and what is at 2 or 3.
SomeQueries ==
    {[data_id |-> s1, start_ts_ms |-> 1, end_ts_ms |-> 3, limit |-> NoLimit],
     [data_id |-> s1, start_ts_ms |-> 1, end_ts_ms |-> 3, limit |-> 1],
     [data_id |-> s1, start_ts_ms |-> 2, end_ts_ms |-> 3, limit |-> 2]}

==============================================================================
