------------------------------ MODULE MCService ------------------------------
(* Values for the constants of Service, for TLC.                           *)
EXTENDS Service

CONSTANTS s1, s2, t1, i64, unknown

Proto(s, ts) == [data_id |-> s, timestamp_ms |-> ts, value |-> i64]

\* Batches over two series, an empty one, and one with a sample that has no value.
TwoSeriesRequests ==
    {<<Proto(s1, 1)>>, <<Proto(s2, 1)>>, <<Proto(s1, 2), Proto(s2, 2)>>,
     << >>, <<Proto(s1, 1), [Proto(s1, 1) EXCEPT !.value = None]>>}

TwoSeriesBatches == {Converted(r) : r \in {q \in TwoSeriesRequests : Complete(q) /\ q # << >>}}

=============================================================================
