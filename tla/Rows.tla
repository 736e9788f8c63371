--------------------------------- MODULE Rows ---------------------------------
(***************************************************************************)
(* The functions of src/core/engine.rs on sequences of samples.  A row has *)
(* a timestamp_ms, a sample its seq_no too; what else they carry does not  *)
(* matter here.  A loop is a recursive function of its rounds.             *)
(***************************************************************************)
EXTENDS Integers, Sequences, SequencesExt

\* retain of Vec and VecDeque, filter and collect: the elements that are in S, in order.
Retained(s, S) ==
    LET kept[i \in 0 .. Len(s)] ==
            IF i = 0 THEN << >>
            ELSE IF s[i] \in S THEN Append(kept[i - 1], s[i]) ELSE kept[i - 1]
    IN  kept[Len(s)]

MergeRound_Mutant(disk, mem, m) ==
    IF m.i > Len(disk) \/ m.j > Len(mem) THEN m
    ELSE IF disk[m.i].timestamp_ms <= mem[m.j].timestamp_ms
         THEN [i |-> m.i + 1, j |-> m.j, rows |-> Append(m.rows, disk[m.i])]
    ELSE [i |-> m.i, j |-> m.j + 1, rows |-> Append(m.rows, mem[m.j])]

\* A round of merge_samples, with the iterators at i and j: of two rows that meet
\* with one timestamp the one in memory stays.
MergeRound(disk, mem, m) ==
    IF m.i > Len(disk) \/ m.j > Len(mem) THEN m
    ELSE IF disk[m.i].timestamp_ms < mem[m.j].timestamp_ms
         THEN [i |-> m.i + 1, j |-> m.j, rows |-> Append(m.rows, disk[m.i])]
    ELSE [i |-> IF disk[m.i].timestamp_ms = mem[m.j].timestamp_ms THEN m.i + 1 ELSE m.i,
          j |-> m.j + 1, rows |-> Append(m.rows, mem[m.j])]

\* merge_samples: when one of the two is at its end, the rest of the other follows.
Merge(disk, mem) ==
    LET round[n \in 0 .. Len(disk) + Len(mem)] ==
            IF n = 0 THEN [i |-> 1, j |-> 1, rows |-> << >>]
            ELSE MergeRound(disk, mem, round[n - 1])
        last == round[Len(disk) + Len(mem)]
    IN  last.rows \o SubSeq(disk, last.i, Len(disk)) \o SubSeq(mem, last.j, Len(mem))

\* The first n rows; no limit is a limit that no sequence reaches (usize::MAX).
NoLimit == -1
Truncate(rows, n) == IF n = NoLimit \/ n >= Len(rows) THEN rows ELSE SubSeq(rows, 1, n)
Remaining(n, rows) == IF n = NoLimit THEN NoLimit ELSE IF Len(rows) > n THEN 0 ELSE n - Len(rows)

\* A round of the binary search between l and r.
SearchRound(part, w) ==
    LET mid == w.l + (w.r - w.l) \div 2
    IN  IF w.l >= w.r THEN w
        ELSE IF part[mid + 1] THEN [l |-> mid + 1, r |-> w.r]
        ELSE [l |-> w.l, r |-> mid]

\* partition_point: how many rows come before the first one that is not in the
\* part, by the binary search of the standard library; part[i] says if row i is.
PartitionPoint(part) ==
    LET round[n \in 0 .. Len(part)] ==
            IF n = 0 THEN [l |-> 0, r |-> Len(part)] ELSE SearchRound(part, round[n - 1])
    IN  round[Len(part)].l

Slice_Mutant(rows, start_ts, end_ts, n) ==
    LET start == PartitionPoint([i \in DOMAIN rows |-> rows[i].timestamp_ms <= start_ts])
        end == PartitionPoint([i \in DOMAIN rows |-> rows[i].timestamp_ms <= end_ts])
    IN  Truncate(SubSeq(rows, start + 1, end), n)

\* slice_range_samples
Slice(rows, start_ts, end_ts, n) ==
    LET start == PartitionPoint([i \in DOMAIN rows |-> rows[i].timestamp_ms < start_ts])
        end == PartitionPoint([i \in DOMAIN rows |-> rows[i].timestamp_ms <= end_ts])
    IN  Truncate(SubSeq(rows, start + 1, end), n)

\* sort_by_key: samples by time, and by their order of arrival.
Earlier(x, y) ==
    \/ x.timestamp_ms < y.timestamp_ms
    \/ x.timestamp_ms = y.timestamp_ms /\ x.seq_no < y.seq_no
InOrder(samples) ==
    CHOOSE s \in [1 .. Cardinality(samples) -> samples] :
        \A i, j \in DOMAIN s : i < j => Earlier(s[i], s[j])

\* prepare_flush_samples: of the samples with one timestamp, which are next to each
\* other in the sorted sequence, the last one stays.
Prepared(samples) ==
    LET sorted == InOrder(ToSet(samples))
    IN  Retained(sorted, {sorted[i] : i \in {k \in DOMAIN sorted :
            k = Len(sorted) \/ sorted[k + 1].timestamp_ms # sorted[k].timestamp_ms}})

===============================================================================
