------------------------------- MODULE Memtable -------------------------------
(***************************************************************************)
(* The memory of one series (SeriesState): an unordered memtable, and a    *)
(* sorted copy of its first sorted_len samples that queries and flushes    *)
(* extend when they need it.  Every operation runs under the lock of the   *)
(* state.  Storage keeps of it the set of samples, and EngineQuery reads   *)
(* that set in order: this module shows that the code with its cache does. *)
(***************************************************************************)
EXTENDS Rows, FiniteSets

CONSTANTS
    Timestamps, \* of the samples and of the ranges asked for
    MaxWrites   \* bound: number of samples

ASSUME MemtableAssumption == Timestamps \subseteq Int /\ MaxWrites \in Nat

VARIABLES
    memtable, memtable_sorted, sorted_len, next_seq_no, \* SeriesState
    reply                                               \* the last request and what it returned

vars == <<memtable, memtable_sorted, sorted_len, next_seq_no, reply>>

BufferedSample == [timestamp_ms : Timestamps, seq_no : 0 .. MaxWrites]

-----------------------------------------------------------------------------

\* The samples that arrived since the sorted copy was made.
Dirty == SubSeq(memtable, sorted_len + 1, Len(memtable))

\* refresh_memtable_cache: the sorted copy of the whole memtable.
Refreshed ==
    IF sorted_len = Len(memtable) THEN memtable_sorted
    ELSE IF sorted_len = 0 THEN Prepared(Dirty)
    ELSE Merge(memtable_sorted, Prepared(Dirty))

\* append_to_series_state, for a sample that it accepts.
AppendSample(ts) ==
    /\ next_seq_no < MaxWrites
    /\ next_seq_no' = next_seq_no + 1
    /\ memtable' = Append(memtable, [timestamp_ms |-> ts, seq_no |-> next_seq_no])
    /\ reply' = [asked |-> <<ts>>, rows |-> << >>]
    /\ UNCHANGED <<memtable_sorted, sorted_len>>

\* What query_range does with the memtable.
ReadRange(start_ts, end_ts, n) ==
    /\ memtable_sorted' = Refreshed
    /\ sorted_len' = Len(memtable)
    /\ reply' = [asked |-> <<start_ts, end_ts, n>>,
                 rows |-> IF n = 0 THEN << >> ELSE Slice(Refreshed, start_ts, end_ts, n)]
    /\ UNCHANGED <<memtable, next_seq_no>>

LengthAfterDrain_Mutant == Len(memtable)
LengthAfterDrain == 0

\* prepare_series_flush
DrainAll ==
    /\ reply' = [asked |-> << >>, rows |-> IF memtable = << >> THEN << >> ELSE Refreshed]
    /\ IF memtable = << >>
       THEN UNCHANGED <<memtable, memtable_sorted, sorted_len>>
       ELSE memtable' = << >> /\ memtable_sorted' = << >> /\ sorted_len' = LengthAfterDrain
    /\ UNCHANGED next_seq_no

Init ==
    /\ memtable = << >> /\ memtable_sorted = << >> /\ sorted_len = 0 /\ next_seq_no = 0
    /\ reply = [asked |-> << >>, rows |-> << >>]

Next ==
    \/ \E ts \in Timestamps : AppendSample(ts)
    \/ \E start_ts, end_ts \in Timestamps, n \in 0 .. MaxWrites :
        start_ts <= end_ts /\ ReadRange(start_ts, end_ts, n)
    \/ DrainAll

Spec == Init /\ [][Next]_vars

-----------------------------------------------------------------------------
(* Properties.                                                             *)

LastOf(samples) ==
    {x \in samples : \A y \in samples :
        y.timestamp_ms = x.timestamp_ms => y.seq_no <= x.seq_no}

\* Every variable has its type, and the sorted copy is not longer than its source.
TypeOK ==
    /\ memtable \in Seq(BufferedSample) /\ memtable_sorted \in Seq(BufferedSample)
    /\ sorted_len \in 0 .. Len(memtable)
    /\ next_seq_no \in 0 .. MaxWrites
    /\ reply.asked \in Seq(Int) /\ reply.rows \in Seq(BufferedSample)

\* The sorted copy has the last write of every timestamp of the samples that it
\* stands for, and nothing else, in the order of time.
SortedCopy ==
    memtable_sorted = InOrder(LastOf(ToSet(SubSeq(memtable, 1, sorted_len))))

Promise ==
    INSTANCE Buffer WITH content <- LastOf(ToSet(memtable)), writes <- next_seq_no

\* The memtable with its cache keeps the promise of the buffer: a read sees every
\* write before it, the last one of a timestamp wins, a drain forgets nothing.
BufferSpec == Promise!Spec

===============================================================================
