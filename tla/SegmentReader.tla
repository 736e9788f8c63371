---------------------------- MODULE SegmentReader ----------------------------
(***************************************************************************)
(* Reading a range of one segment (src/core/segment.rs): the body comes    *)
(* from the cache of decoded segments or, once it is checked, from the     *)
(* file, and two binary searches on its timestamps find the records.  A    *)
(* query holds the mutex of the cache while it reads, so reads do not      *)
(* interleave; but files may be damaged between them.                      *)
(***************************************************************************)
EXTENDS SegmentFormat, Rows

CONSTANTS
    Paths,      \* segment files; none is ever replaced by another (SegmentImmutable)
    Body,       \* the timestamps of the records written to each file
    Type,       \* the type of its series
    Codec,      \* how it was compressed
    Old,        \* the files of version 1
    MaxBytes,   \* max_bytes of the cache
    Timestamps, \* that ranges are asked for
    Limits,     \* how many records a query may want
    Fragile,    \* bound: the files that may be damaged, ...
    MaxDamages  \* ... and how often: two changes of a header may agree with each other

\* A segment has a record, and its records are in the order of time.
ASSUME ReaderAssumption ==
    /\ Body \in [Paths -> Seq(Int)]
    /\ \A p \in Paths : /\ Body[p] # << >>
                        /\ \A i, j \in DOMAIN Body[p] : i < j => Body[p][i] < Body[p][j]
    /\ Type \in [Paths -> FormatTypes]
    /\ Codec \in [Paths -> Codecs]
    /\ Old \subseteq Paths
    /\ MaxBytes \in Nat
    /\ Timestamps \subseteq Int
    /\ Limits \subseteq Nat
    /\ Fragile \subseteq Paths /\ MaxDamages \in {0, 1}

VARIABLES
    disk, damages,             \* the files, and how often one was damaged
    entries, lru, total_bytes, \* SegmentReadCache: path to decoded segment
    recency,                   \* files in the order of their last use (history only)
    pc, path, start_ts, end_ts, limit, \* the read under way,
    segment,                           \* the header and body it goes by,
    left, right, start_idx,            \* its searches,
    reply,                             \* "rows" or "corrupt" (CorruptSegment)
    result                             \* of the last read: first and one past last index

diskVars == <<disk, damages>>
cacheVars == <<entries, lru, total_bytes, recency>>
request == <<path, start_ts, end_ts, limit>>
vars == <<diskVars, cacheVars, request, segment, pc, left, right, start_idx, reply, result>>

Empty == <<0, 0>>
First(p) == Body[p][1]
Final(p) == Body[p][Len(Body[p])]

Original(p) == IF p \in Old THEN Legacy(Type[p], Body[p]) ELSE Encoded(Type[p], Codec[p], Body[p])

\* A header with the records of a decoded body, or with none if it is not decoded.
Segment(h, records) ==
    [series_type |-> h.series_type, min_ts_ms |-> h.min_ts_ms, max_ts_ms |-> h.max_ts_ms,
     size_bytes |-> h.size, records |-> records]
NoSegment == Segment(Header(Encoded("i64", "none", <<0>>)), << >>)

-----------------------------------------------------------------------------
(* SegmentReadCache                                                        *)

Cached == DOMAIN entries
Without(s, p) == Retained(s, Range(s) \ {p})

Touched_Mutant(p) == IF p \in Range(lru) THEN lru ELSE Append(lru, p)
Touched(p) == Append(Without(lru, p), p)

SaturatingSub(a, b) == IF a < b THEN 0 ELSE a - b

\* insert: what is cached, in which order and with which total, before it evicts.
Inserted(p, seg) ==
    LET before == IF p \in Cached THEN SaturatingSub(total_bytes, entries[p].size_bytes)
                  ELSE total_bytes
    IN  [entries |-> [q \in Cached \union {p} |-> IF q = p THEN seg ELSE entries[q]],
         lru |-> Touched(p), total_bytes |-> before + seg.size_bytes]

Popped_Mutant(c, n) ==
    LET gone == {c.lru[i] : i \in 1 .. n}
    IN  [entries |-> Restrict(c.entries, DOMAIN c.entries \ gone),
         lru |-> SubSeq(c.lru, n + 1, Len(c.lru)), total_bytes |-> c.total_bytes]

\* What is left after the first n files of lru have been evicted.
Popped(c, n) ==
    LET gone == {c.lru[i] : i \in 1 .. n} \intersect DOMAIN c.entries
    IN  [entries |-> Restrict(c.entries, DOMAIN c.entries \ gone),
         lru |-> SubSeq(c.lru, n + 1, Len(c.lru)),
         total_bytes |-> SaturatingSub(c.total_bytes,
             MapThenSumSet(LAMBDA p : c.entries[p].size_bytes, gone))]

\* evict_if_needed: pop the front of lru until the rest fits.
Shrunk(c) ==
    LET fits == {n \in 0 .. Len(c.lru) : Popped(c, n).total_bytes <= MaxBytes}
    IN  Popped(c, Min(fits \union {Len(c.lru)}))

Cacheable(h) == h.compression # "none" /\ MaxBytes # 0 /\ h.size <= MaxBytes

Used(p) == recency' = Append(Without(recency, p), p)

-----------------------------------------------------------------------------
(* read_segment_range_limited_with_cache                                   *)

OutOfRange(h, from, to) == h.max_ts_ms < from \/ h.min_ts_ms > to

Request(p, from, to, n) ==
    /\ pc = "idle"
    /\ path' = p /\ start_ts' = from /\ end_ts' = to /\ limit' = n
    /\ UNCHANGED diskVars

\* The read ends without a search.
Answer(outcome, seg) ==
    /\ pc' = "idle" /\ reply' = outcome /\ segment' = seg
    /\ result' = Empty /\ left' = 0 /\ right' = 0 /\ start_idx' = 0

\* The searches begin, unless there is nothing to find.
Search(seg, from, to) ==
    IF OutOfRange(seg, from, to) THEN Answer("rows", seg)
    ELSE /\ pc' = "lower" /\ reply' = "rows" /\ segment' = seg
         /\ result' = Empty /\ left' = 0 /\ right' = Len(seg.records) /\ start_idx' = 0

\* Nothing is wanted: not even the cache is looked at.
ReadNothing(p, from, to) ==
    /\ Request(p, from, to, 0)
    /\ Answer("rows", NoSegment)
    /\ UNCHANGED cacheVars

ReadCached(p, from, to, n) ==
    /\ Request(p, from, to, n) /\ n # 0
    /\ p \in Cached
    /\ lru' = Touched(p) /\ Used(p)
    /\ Search(entries[p], from, to)
    /\ UNCHANGED <<entries, total_bytes>>

Missed(p, from, to, n) == Request(p, from, to, n) /\ n # 0 /\ p \notin Cached

\* The header says that the file has nothing in the range: its body is not looked at.
ReadSkipped(p, from, to, n) ==
    /\ Missed(p, from, to, n)
    /\ HeaderValid(disk[p]) /\ OutOfRange(Header(disk[p]), from, to)
    /\ Answer("rows", Segment(Header(disk[p]), << >>))
    /\ UNCHANGED cacheVars

ReadCorrupt(p, from, to, n) ==
    /\ Missed(p, from, to, n)
    /\ HeaderValid(disk[p]) => ~OutOfRange(Header(disk[p]), from, to) /\ ~BodyValid(disk[p])
    /\ Answer("corrupt", NoSegment)
    /\ UNCHANGED cacheVars

\* Only a body that the range needs is decoded, and enters the cache.
ReadFile(p, from, to, n) ==
    LET h == Header(disk[p])
        seg == Segment(h, disk[p].payload.body.records)
    IN  /\ Missed(p, from, to, n)
        /\ HeaderValid(disk[p]) /\ ~OutOfRange(h, from, to) /\ BodyValid(disk[p])
        /\ IF Cacheable(h)
           THEN LET c == Shrunk(Inserted(p, seg))
                IN  /\ entries' = c.entries /\ lru' = c.lru /\ total_bytes' = c.total_bytes
                    /\ Used(p)
           ELSE UNCHANGED cacheVars
        /\ Search(seg, from, to)

-----------------------------------------------------------------------------
(* decode_body_range_limited: lower_bound_timestamp, upper_bound_timestamp *)

Count == Len(segment.records)
Mid == left + (right - left) \div 2
AboveMid_Mutant == Mid
AboveMid == Mid + 1
BelowMid_Mutant == Mid - 1
BelowMid == Mid

Before_Mutant(ts) == IF pc = "lower" THEN ts <= start_ts ELSE ts <= end_ts

\* Is a record before the bound that the search looks for?
Before(ts) == IF pc = "lower" THEN ts < start_ts ELSE ts <= end_ts

Halve ==
    /\ pc \in {"lower", "upper"} /\ left < right
    /\ IF Before(segment.records[Mid + 1])
       THEN left' = AboveMid /\ UNCHANGED right
       ELSE right' = BelowMid /\ UNCHANGED left
    /\ UNCHANGED <<diskVars, cacheVars, request, segment, pc, start_idx, reply, result>>

LowerFound ==
    /\ pc = "lower" /\ left >= right
    /\ start_idx' = left
    /\ left' = 0 /\ right' = Count
    /\ pc' = "upper"
    /\ UNCHANGED <<diskVars, cacheVars, request, segment, reply, result>>

UpperFound ==
    /\ pc = "upper" /\ left >= right
    /\ result' = IF start_idx >= left THEN Empty
                 ELSE <<start_idx, IF start_idx + limit < left THEN start_idx + limit ELSE left>>
    /\ pc' = "idle"
    /\ UNCHANGED <<diskVars, cacheVars, request, segment, reply, left, right, start_idx>>

\* A file is damaged from outside, between two reads.
Damage(p) ==
    /\ pc = "idle" /\ damages < MaxDamages
    /\ damages' = damages + 1
    /\ \E f \in Damaged(disk[p]) : disk' = [disk EXCEPT ![p] = f]
    /\ UNCHANGED <<cacheVars, request, segment, pc, left, right, start_idx, reply, result>>

Init ==
    /\ disk = [p \in Paths |-> Original(p)] /\ damages = 0
    /\ entries = << >> /\ lru = << >> /\ total_bytes = 0 /\ recency = << >>
    /\ path \in Paths /\ start_ts = 0 /\ end_ts = 0 /\ limit = 0
    /\ segment = NoSegment
    /\ pc = "idle" /\ left = 0 /\ right = 0 /\ start_idx = 0
    /\ reply = "rows" /\ result = Empty

BeginRead ==
    \E p \in Paths, from, to \in Timestamps :
        /\ from <= to
        /\ \/ ReadNothing(p, from, to)
           \/ \E n \in Limits :
               \/ ReadCached(p, from, to, n)
               \/ ReadSkipped(p, from, to, n)
               \/ ReadCorrupt(p, from, to, n)
               \/ ReadFile(p, from, to, n)

Searching == Halve \/ LowerFound \/ UpperFound

Next == BeginRead \/ Searching \/ \E p \in Fragile : Damage(p)

Spec == Init /\ [][Next]_vars

\* A read that has begun goes on: nothing in it waits.
FairSpec == Spec /\ WF_vars(Searching)

-----------------------------------------------------------------------------
(* Properties.                                                             *)

\* Every variable has its type; in particular the bounds of a search stay within
\* the body, so that no read of a timestamp is out of bounds.
TypeOK ==
    /\ Cached \subseteq Paths /\ lru \in Seq(Paths) /\ total_bytes \in Nat
    /\ recency \in Seq(Paths) /\ damages \in Nat
    /\ \A p \in Paths : disk[p].payload.body.records \in Seq(Int)
    /\ pc \in {"idle", "lower", "upper"} /\ reply \in {"rows", "corrupt"}
    /\ path \in Paths /\ start_ts \in Int /\ end_ts \in Int /\ limit \in Nat
    /\ left \in Nat /\ right \in Nat /\ left <= right /\ right <= Count
    /\ start_idx \in 0 .. Count
    /\ result \in Nat \X Nat /\ result[1] <= result[2] /\ result[2] <= Count

\* The cache is within its size, total_bytes says how large it is, and lru lists
\* every cached file once, so that evict_if_needed always finds what to evict.
CacheAccounting ==
    /\ total_bytes = MapThenSumSet(LAMBDA p : entries[p].size_bytes, Cached)
    /\ total_bytes <= MaxBytes
    /\ Range(lru) = Cached /\ Len(lru) = Cardinality(Cached)

LastUse(p) == CHOOSE i \in DOMAIN recency' : recency'[i] = p

Evicts ==
    LET out == Cached \ DOMAIN entries'
    IN  /\ \A p \in out, q \in DOMAIN entries' : LastUse(p) < LastUse(q)
        /\ out # {} => total_bytes' + entries[CHOOSE p \in out :
               \A q \in out : LastUse(q) <= LastUse(p)].size_bytes > MaxBytes

\* The cache evicts only the least recently used bodies, and no more than it has to.
LruEviction == [][Evicts]_vars

IsWritten(seg, p) ==
    /\ seg.records = Body[p]
    /\ RecordSize(seg.series_type) = RecordSize(Type[p])

\* A read returns records that were written to the segment, and the values of
\* another type only if the header was changed to a type of the same width, which
\* the checksum does not cover: no other damage to a file gets into an answer or
\* into the cache, and damage to a file that is cached does not matter.
ServesWritten ==
    /\ segment.records # << >> => IsWritten(segment, path)
    /\ \A p \in Cached : IsWritten(entries[p], p)

RefusesForCause ==
    disk' = disk /\ reply' = "corrupt" =>
        \/ disk[path'] # Original(path')
        \/ BodyOf(Type[path'], Body[path']).bytes > MaxBodyBytes

\* A segment that nobody has damaged can be read, whichever codec and version it
\* has, unless its body is larger than readers accept; a writer does not check that.
IntactReadable == [][RefusesForCause]_vars

InRange(i) == start_ts <= Body[path][i] /\ Body[path][i] <= end_ts

\* Does the read go by the timestamps that write_segment_file put into the header?
Honest == segment.min_ts_ms = First(path) /\ segment.max_ts_ms = Final(path)

\* The records that a read returns are in its range; it leaves out no other that was
\* written, unless it has as many as it wants, and then those it leaves out come
\* after, or unless the header lies about the timestamps.
FindsRange ==
    pc = "idle" /\ reply = "rows" /\ limit # 0 =>
        /\ \A i \in result[1] + 1 .. result[2] : InRange(i)
        /\ result[2] - result[1] <= limit
        /\ Honest => \A i \in DOMAIN Body[path] : InRange(i) =>
            \/ result[1] < i /\ i <= result[2]
            \/ result[2] - result[1] = limit /\ result[2] < i

\* Every read returns: the searches close in on their bounds.
ReadReturns == pc # "idle" ~> pc = "idle"

=============================================================================
