----------------------------- MODULE EngineQuery -----------------------------
(***************************************************************************)
(* Range queries (Engine::query_range) that run beside the writers of      *)
(* Storage.  A query takes a snapshot of the manifest, reads the segments  *)
(* of the snapshot one by one through the segment cache, whose mutex it    *)
(* keeps meanwhile, and then reads the memtable.  It holds neither the     *)
(* manifest nor the series between these steps, so flushes and evictions   *)
(* run in between.                                                         *)
(***************************************************************************)
EXTENDS Storage, Rows

CONSTANTS
    Readers,    \* concurrent queries
    Queries,    \* the queries that clients may send
    MaxQueries  \* bound: number of queries

\* Other queries (start after end, limit 0) return before they read anything.
ASSUME QueryAssumption ==
    /\ Queries \subseteq [data_id : Series, start_ts_ms : Timestamps, end_ts_ms : Timestamps,
                          limit : (Nat \ {0}) \union {NoLimit}]
    /\ \A q \in Queries : q.start_ts_ms <= q.end_ts_ms
    /\ MaxQueries \in Nat

\* begun is the number of samples submitted when the query began; hidden
\* collects what flushes hold in between while it runs (history only).
IdleReader ==
    [pc |-> "idle", query |-> None, todo |-> << >>, rows |-> << >>, ok |-> TRUE,
     begun |-> 0, hidden |-> {}]

VARIABLES
    order,        \* SeriesEntry::segments as the Vec that it is
    cache,        \* Engine::segment_cache: file contents by path
    cache_holder, \* who holds its mutex
    reader,       \* the queries: under way, or the last one of their thread
    queries       \* how many have begun

readVars == <<cache, cache_holder, reader, queries>>
queryVars == <<vars, order, readVars>>

-----------------------------------------------------------------------------
(* The writers, and what their steps mean for the order of the segments    *)
(* and for the queries.                                                    *)

SegmentsOf(entry) == IF entry = None THEN {} ELSE entry.segments

ByTime_Mutant(segments) == SetToSeqs(segments)

\* recover_manifest sorts by min_ts_ms; what is equal stays in any order.
ByTime(segments) ==
    {o \in SetToSeqs(segments) : \A i, j \in DOMAIN o : i < j => o[i].min_ts_ms <= o[j].min_ts_ms}

Reordered_Mutant(o, segments) == o \o SetToSeq(segments \ ToSet(o))

\* A commit pushes a segment, an eviction retains the others.
Reordered(o, segments) ==
    Retained(o, segments) \o SetToSeq(segments \ ToSet(o))

OrderFollows ==
    IF status = "down"
    THEN \E o \in [Series -> UNION {ByTime(SegmentsOf(manifest'[s])) : s \in Series}] :
            /\ \A s \in Series : o[s] \in ByTime(SegmentsOf(manifest'[s]))
            /\ order' = o
    ELSE order' = [s \in Series |-> Reordered(order[s], SegmentsOf(manifest'[s]))]

\* Samples that the flushes of threads hold: drained, and not yet registered.
FlushPCs == {"prepare", "alloc", "mkdir", "create", "rename", "commit"}
Unregistered(threads, s) ==
    UNION {threads[t].pending[s].samples : t \in {u \in Tasks : threads[u].pc \in FlushPCs}}

Observed(r, threads) ==
    IF r.pc = "idle" THEN r
    ELSE [r EXCEPT !.hidden = r.hidden \union Unregistered(threads, r.query.data_id)]

\* A crash ends the queries and empties the cache.
WriterStep ==
    /\ Next
    /\ OrderFollows
    /\ IF status' = "down"
       THEN /\ cache' = {} /\ cache_holder' = None
            /\ reader' = [r \in Readers |-> IdleReader]
       ELSE /\ UNCHANGED <<cache, cache_holder>>
            /\ reader' = [r \in Readers |-> Observed(reader[r], task')]
    /\ UNCHANGED queries

-----------------------------------------------------------------------------
(* query_range                                                             *)

Overlaps_Mutant(m, q) == ~(m.max_ts_ms <= q.start_ts_ms \/ m.min_ts_ms > q.end_ts_ms)
Overlaps(m, q) == ~(m.max_ts_ms < q.start_ts_ms \/ m.min_ts_ms > q.end_ts_ms)

\* The snapshot of the segments in range, under the manifest lock.
BeginQuery(r, q) ==
    /\ status = "serving" /\ reader[r].pc = "idle"
    /\ queries < MaxQueries
    /\ manifest[q.data_id] # None
    /\ queries' = queries + 1
    /\ reader' = [reader EXCEPT ![r] =
           [pc |-> "read", query |-> q, rows |-> << >>, ok |-> TRUE, begun |-> clock,
            todo |-> Retained(order[q.data_id],
                              {m \in ToSet(order[q.data_id]) : Overlaps(m, q)}),
            hidden |-> Unregistered(task, q.data_id)]]
    /\ UNCHANGED <<vars, order, cache, cache_holder>>

Full(r) == reader[r].query.limit # NoLimit /\ Len(reader[r].rows) >= reader[r].query.limit
Reading(r) == reader[r].pc = "read" /\ cache_holder \in {None, r}

\* A query returns its rows, or an error.
Answer(r, rows, ok) ==
    reader' = [reader EXCEPT ![r] = [reader[r] EXCEPT !.pc = "idle", !.todo = << >>,
                                                      !.rows = rows, !.ok = ok]]

\* The rows of a segment that the query asks for (decode_body_range_limited).
Found(r, samples) ==
    LET q == reader[r].query
    IN  Slice(InOrder(samples), q.start_ts_ms, q.end_ts_ms, Remaining(q.limit, reader[r].rows))

Collect(r, samples) ==
    reader' = [reader EXCEPT ![r].rows = @ \o Found(r, samples), ![r].todo = Tail(@)]

Cached(q, m) == {c \in cache : c.data_id = q.data_id /\ c.segment_id = m.segment_id}

\* The next segment, from the cache, ...
ReadCached(r) ==
    /\ Reading(r) /\ ~Full(r) /\ reader[r].todo # << >>
    /\ \E c \in Cached(reader[r].query, Head(reader[r].todo)) : Collect(r, c.samples)
    /\ cache_holder' = r
    /\ UNCHANGED <<vars, order, cache, queries>>

\* ... or from its file, which enters the cache if it is compressed and fits,
\* where it may replace others (SegmentReader models which).
ReadFile(r) ==
    /\ Reading(r) /\ ~Full(r) /\ reader[r].todo # << >>
    /\ LET q == reader[r].query
           m == Head(reader[r].todo)
       IN  /\ Cached(q, m) = {}
           /\ \E f \in FileAt(q.data_id, m.segment_id) :
                /\ Collect(r, f.samples)
                /\ cache' \in SUBSET (cache \union
                       {[data_id |-> q.data_id, segment_id |-> m.segment_id, samples |-> f.samples]})
    /\ cache_holder' = r
    /\ UNCHANGED <<vars, order, queries>>

\* A segment that an eviction has deleted since the snapshot: the query fails.
ReadMissing(r) ==
    /\ Reading(r) /\ ~Full(r) /\ reader[r].todo # << >>
    /\ LET q == reader[r].query
           m == Head(reader[r].todo)
       IN  Cached(q, m) = {} /\ FileAt(q.data_id, m.segment_id) = {}
    /\ Answer(r, << >>, FALSE)
    /\ cache_holder' = None
    /\ UNCHANGED <<vars, order, cache, queries>>

\* The limit is reached on disk: the memtable is not read.
ReadEnough(r) ==
    /\ Reading(r) /\ Full(r)
    /\ Answer(r, Truncate(reader[r].rows, reader[r].query.limit), TRUE)
    /\ cache_holder' = None
    /\ UNCHANGED <<vars, order, cache, queries>>

ReadAll(r) ==
    /\ Reading(r) /\ ~Full(r) /\ reader[r].todo = << >>
    /\ reader' = [reader EXCEPT ![r].pc = "memory"]
    /\ cache_holder' = None
    /\ UNCHANGED <<vars, order, cache, queries>>

\* The memtable, under the state lock of the series, and the merge.
ReadMemory(r) ==
    /\ reader[r].pc = "memory"
    /\ LET q == reader[r].query
           mem == Slice(InOrder(LastWrites(memtable[q.data_id])),
                        q.start_ts_ms, q.end_ts_ms, Remaining(q.limit, reader[r].rows))
       IN  IF q.data_id \in series
           THEN Answer(r, Truncate(Merge(reader[r].rows, mem), q.limit), TRUE)
           ELSE Answer(r, << >>, FALSE)
    /\ UNCHANGED <<vars, order, cache, cache_holder, queries>>

ReaderStep(r) ==
    \/ \E q \in Queries : BeginQuery(r, q)
    \/ ReadCached(r)
    \/ ReadFile(r)
    \/ ReadMissing(r)
    \/ ReadEnough(r)
    \/ ReadAll(r)
    \/ ReadMemory(r)

QueryInit ==
    /\ Init
    /\ order = [s \in Series |-> << >>]
    /\ cache = {} /\ cache_holder = None
    /\ reader = [r \in Readers |-> IdleReader]
    /\ queries = 0

QueryNext == WriterStep \/ \E r \in Readers : ReaderStep(r)

QuerySpec == QueryInit /\ [][QueryNext]_queryVars

-----------------------------------------------------------------------------
(* Properties.                                                             *)

\* The readers' variables have their types, and the Vec of segments holds what
\* the manifest holds.
QueryTypeOK ==
    /\ \A s \in Series : ToSet(order[s]) = SegmentsOf(manifest[s])
                         /\ Len(order[s]) = Cardinality(SegmentsOf(manifest[s]))
    /\ cache \subseteq [data_id : Series, segment_id : Nat, samples : SUBSET BufferedSample]
    /\ cache_holder \in Readers \union {None}
    /\ \A r \in Readers :
        /\ reader[r].pc \in {"idle", "read", "memory"}
        /\ reader[r].query \in Queries \union {None}
        /\ reader[r].todo \in Seq(SegmentMeta) /\ reader[r].rows \in Seq(BufferedSample)

\* A cached body is that of the file at its path, as long as there is one: the
\* cache, whose key is the path alone, is never told that a file was replaced.
CacheHonest ==
    \A c \in cache : \A f \in FileAt(c.data_id, c.segment_id) : f.samples = c.samples

Answered(r) == reader[r].pc = "idle" /\ reader[r].query # None /\ reader[r].ok

\* With one writer a query answers in the order of time, one row for a timestamp,
\* though it concatenates segments and merges with what the memtable holds by then.
RowsAscending ==
    \A r \in Readers : Answered(r) =>
        \A i, j \in DOMAIN reader[r].rows :
            i < j => reader[r].rows[i].timestamp_ms < reader[r].rows[j].timestamp_ms

\* A query that stops at its limit has the earliest rows: neither a segment that
\* it did not read nor the memtable holds an earlier one, or a later write of the last.
EarliestRows ==
    [][\A r \in Readers : ReadEnough(r) =>
           LET q == reader[r].query
               last == Last(reader'[r].rows).timestamp_ms
           IN  /\ \A m \in ToSet(reader[r].todo) : m.min_ts_ms > last
               /\ \A x \in memtable[q.data_id] : x.timestamp_ms > last]_queryVars

\* A row is the last write of its timestamp among those accepted before the query.
LastWriteWins ==
    \A r \in Readers : Answered(r) =>
        \A i \in DOMAIN reader[r].rows : \A x \in accepted[reader[r].query.data_id] :
            x.timestamp_ms = reader[r].rows[i].timestamp_ms /\ x.seq_no <= reader[r].begun
                => x.seq_no <= reader[r].rows[i].seq_no

Asked(q, x) ==
    q.limit = NoLimit /\ q.start_ts_ms <= x.timestamp_ms /\ x.timestamp_ms <= q.end_ts_ms

\* What became of accepted writes that no query is to find any more.
Gone(s) == evicted[s] \union restarted[s] \union failed[s]

\* A query without a limit misses no write accepted before it began, but those
\* that a flush held unregistered while it ran: the snapshot and the read of the
\* memtable, taken at different times, leave no other gap.
MissesOnlyInFlight ==
    \A r \in Readers : Answered(r) =>
        \A x \in accepted[reader[r].query.data_id] :
            Asked(reader[r].query, x) /\ x.seq_no <= reader[r].begun =>
                \E y \in ToSet(reader[r].rows) \union reader[r].hidden
                         \union Gone(reader[r].query.data_id) :
                    y.timestamp_ms = x.timestamp_ms /\ y.seq_no >= x.seq_no

\* A query finds every write accepted before it began, or a later one of its timestamp.
FindsAcknowledged ==
    \A r \in Readers : Answered(r) =>
        \A x \in accepted[reader[r].query.data_id] :
            Asked(reader[r].query, x) /\ x.seq_no <= reader[r].begun =>
                \E y \in ToSet(reader[r].rows) \union Gone(reader[r].query.data_id) :
                    y.timestamp_ms = x.timestamp_ms /\ y.seq_no >= x.seq_no

=============================================================================
