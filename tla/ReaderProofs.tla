----------------------------- MODULE ReaderProofs -----------------------------
(***************************************************************************)
(* The range search of a segment is right for every body, range and limit, *)
(* whatever the cache holds; what is searched is what was written, even if *)
(* one part of the file has been damaged; and the cache keeps its accounts,*)
(* its bound and the order of use.                                         *)
(***************************************************************************)
EXTENDS SegmentReader, DataLemmas, SequenceTheorems, TLAPS

\* The records before the position are before the bound, those from it on are not.
Lower(i, j) ==
    \A k \in 1 .. Count : /\ k <= i => Body[path][k] < start_ts
                          /\ k > j => Body[path][k] >= start_ts
Upper(i, j) ==
    \A k \in 1 .. Count : /\ k <= i => Body[path][k] <= end_ts
                          /\ k > j => Body[path][k] > end_ts

\* The bounds of a search stay within the body, and so does its result.
WithinBody ==
    /\ pc \in {"idle", "lower", "upper"}
    /\ path \in Paths /\ start_ts \in Int /\ end_ts \in Int /\ limit \in Nat
    /\ Count \in Nat
    /\ left \in Nat /\ right \in Nat /\ left <= right /\ right <= Count
    /\ start_idx \in 0 .. Count
    /\ result \in Nat \X Nat /\ result[1] <= result[2] /\ result[2] <= Count

\* What the loops have found out so far, and what the last read returned.
SearchInv ==
    /\ WithinBody
    /\ pc # "idle" => limit # 0 /\ segment.records = Body[path]
    /\ pc = "lower" => Lower(left, right)
    /\ pc = "upper" => Lower(start_idx, start_idx) /\ Upper(left, right)
    /\ FindsRange

\* A file of which at most one part has been damaged: the checksum is that of the
\* body that was written or of none, and the type and the count are not both wrong.
AlmostIntact(f, p) ==
    /\ f.crc \in {BodyOf(Type[p], Body[p]), Garbage}
    /\ f.count \in Int
    /\ f.count = Len(Body[p]) \/ f.series_type = Type[p]

DiskInv ==
    /\ damages \in Nat /\ damages <= MaxDamages
    /\ damages = 0 => disk = [p \in Paths |-> Original(p)]
    /\ \A p \in Paths : AlmostIntact(disk[p], p)

ReaderInv == DiskInv /\ ServesWritten /\ SearchInv

-----------------------------------------------------------------------------
(* Files.                                                                  *)

\* A body has a record, its records are integers in strictly ascending order.
LEMMA BodyFacts ==
    ASSUME NEW p \in Paths
    PROVE  /\ Body[p] \in Seq(Int) /\ Len(Body[p]) \in Nat /\ Len(Body[p]) >= 1
           /\ \A i \in 1 .. Len(Body[p]) : Body[p][i] \in Int
           /\ \A i, j \in 1 .. Len(Body[p]) : i < j => Body[p][i] < Body[p][j]
           /\ \A i \in 1 .. Len(Body[p]) : First(p) <= Body[p][i] /\ Body[p][i] <= Final(p)
  <1>1. /\ Body[p] \in Seq(Int) /\ Body[p] # << >>
        /\ \A i, j \in DOMAIN Body[p] : i < j => Body[p][i] < Body[p][j]
    BY ReaderAssumption
  <1>2. /\ Len(Body[p]) \in Nat /\ Len(Body[p]) >= 1 /\ DOMAIN Body[p] = 1 .. Len(Body[p])
        /\ \A i \in 1 .. Len(Body[p]) : Body[p][i] \in Int
    BY <1>1
  <1>3. \A i \in 1 .. Len(Body[p]) : First(p) <= Body[p][i] /\ Body[p][i] <= Final(p)
    <2> TAKE i \in 1 .. Len(Body[p])
    <2> DEFINE n == Len(Body[p])
    <2>1. i \in Nat /\ n \in Nat /\ 1 \in 1 .. n /\ n \in 1 .. n /\ 1 <= i /\ i <= n BY <1>2
    <2>2. Body[p][1] \in Int /\ Body[p][i] \in Int /\ Body[p][n] \in Int BY <2>1, <1>2
    <2>3. i = 1 \/ Body[p][1] < Body[p][i] BY <1>1, <1>2, <2>1
    <2>4. i = n \/ Body[p][i] < Body[p][n] BY <1>1, <1>2, <2>1
    <2> HIDE DEF n
    <2> QED BY <2>2, <2>3, <2>4 DEF First, Final, n
  <1> QED BY <1>1, <1>2, <1>3

\* What is written is a file of which nothing is damaged.
LEMMA OriginalIntact == ASSUME NEW p \in Paths PROVE AlmostIntact(Original(p), p)
  <1>1. Len(Body[p]) \in Nat BY BodyFacts
  <1> QED BY <1>1 DEF AlmostIntact, Original, Encoded, Legacy

\* Damage to one part of a file leaves the type or the count, and cannot make up a
\* checksum.
LEMMA DamagedOnce ==
    ASSUME NEW p \in Paths, NEW f \in Damaged(Original(p))
    PROVE  AlmostIntact(f, p)
  <1> DEFINE o == Original(p)
  <1>1. /\ o.crc = BodyOf(Type[p], Body[p]) /\ o.series_type = Type[p]
        /\ o.count = Len(Body[p]) /\ Len(Body[p]) \in Nat
    BY BodyFacts DEF Original, Encoded, Legacy
  <1>2. DOMAIN o = {"complete", "magic", "version", "codec", "series_type", "min_ts_ms",
                    "max_ts_ms", "count", "size", "crc", "payload"}
    BY DEF Original, Encoded, Legacy
  <1> HIDE DEF o
  <1>3. CASE f \in {[o EXCEPT !.complete = FALSE], [o EXCEPT !.magic = FALSE],
                    [o EXCEPT !.crc = Garbage], [o EXCEPT !.payload.codec = "unknown"]}
    BY <1>1, <1>2, <1>3 DEF AlmostIntact
  <1>4. ASSUME NEW x, \/ f = [o EXCEPT !.version = x] \/ f = [o EXCEPT !.codec = x]
                      \/ f = [o EXCEPT !.series_type = x] \/ f = [o EXCEPT !.min_ts_ms = x]
                      \/ f = [o EXCEPT !.max_ts_ms = x] \/ f = [o EXCEPT !.size = x]
                      \/ f = [o EXCEPT !.payload = x]
        PROVE  AlmostIntact(f, p)
    BY <1>1, <1>2, <1>4 DEF AlmostIntact
  <1>5. ASSUME NEW d \in {-1, 1}, f = [o EXCEPT !.count = @ + d]
        PROVE  AlmostIntact(f, p)
    BY <1>1, <1>2, <1>5 DEF AlmostIntact
  <1> QED BY <1>3, <1>4, <1>5 DEF Damaged, o

\* A file that passes every check holds what was written, for records as wide as
\* those that were written.
LEMMA ChecksSuffice ==
    ASSUME NEW p \in Paths, NEW f, AlmostIntact(f, p), HeaderValid(f), BodyValid(f)
    PROVE  IsWritten(Segment(Header(f), f.payload.body.records), p)
  <1> DEFINE n == Len(Body[p])
  <1>1. n \in Nat /\ n >= 1 BY BodyFacts
  <1>2. /\ f.payload.body = f.crc /\ f.payload.body.bytes = f.count * RecordSize(f.series_type)
        /\ f.count \in Int
    BY DEF BodyValid, Header, AlmostIntact
  <1>3. RecordSize(f.series_type) \in {9, 16} /\ RecordSize(Type[p]) \in {9, 16}
    BY DEF RecordSize
  <1>4. f.crc # Garbage
    <2>1. f.count * 9 # -1 /\ f.count * 16 # -1 BY <1>2
    <2> QED BY <1>2, <1>3, <2>1 DEF Garbage
  <1>5. f.payload.body = BodyOf(Type[p], Body[p]) BY <1>2, <1>4 DEF AlmostIntact
  <1>6. f.payload.body.records = Body[p] /\ f.payload.body.bytes = n * RecordSize(Type[p])
    BY <1>5 DEF BodyOf
  <1>7. RecordSize(f.series_type) = RecordSize(Type[p])
    <2>1. CASE f.series_type = Type[p] BY <2>1
    <2>2. CASE f.count = n
      <3>1. n * RecordSize(f.series_type) = n * RecordSize(Type[p]) BY <2>2, <1>2, <1>6
      <3>2. n * 9 # n * 16 BY <1>1
      <3> QED BY <3>1, <3>2, <1>3
    <2> QED BY <2>1, <2>2 DEF AlmostIntact
  <1> QED BY <1>6, <1>7 DEF IsWritten, Segment, Header

-----------------------------------------------------------------------------
(* The search.                                                             *)

\* A body that was written has its records in order.
LEMMA WrittenFacts ==
    ASSUME NEW p \in Paths, NEW seg, seg.records # << >> => IsWritten(seg, p)
    PROVE  Len(seg.records) \in Nat
  BY BodyFacts DEF IsWritten

\* Nothing is asked for at first.
LEMMA InitReader == ASSUME Init PROVE ReaderInv
  <1>1. DiskInv BY OriginalIntact, ReaderAssumption DEF Init, DiskInv
  <1>2. segment.records = << >> BY DEF Init, NoSegment, Segment
  <1>3. ServesWritten BY <1>2 DEF Init, ServesWritten, Cached
  <1>4. Count = 0 BY <1>2 DEF Count
  <1>5. WithinBody BY <1>4 DEF Init, WithinBody, Empty
  <1>6. FindsRange BY DEF Init, FindsRange
  <1> QED BY <1>1, <1>3, <1>5, <1>6 DEF Init, SearchInv, ReaderInv

\* A read ends without a search: it is an error, or nothing is wanted, or a header
\* that is true to the body excludes the range.
LEMMA AnswerStep ==
    ASSUME NEW p \in Paths, NEW from \in Timestamps, NEW to \in Timestamps, NEW n \in Nat,
           NEW outcome, NEW seg,
           Request(p, from, to, n), Answer(outcome, seg),
           seg.records # << >> => IsWritten(seg, p),
           outcome = "corrupt" \/ n = 0 \/ OutOfRange(seg, from, to)
    PROVE  SearchInv'
  <1>1. /\ path' = p /\ start_ts' = from /\ end_ts' = to /\ limit' = n
        /\ from \in Int /\ to \in Int
    BY ReaderAssumption DEF Request
  <1>2. /\ pc' = "idle" /\ reply' = outcome /\ segment' = seg /\ result' = <<0, 0>>
        /\ left' = 0 /\ right' = 0 /\ start_idx' = 0
    BY DEF Answer, Empty
  <1>3. Count' \in Nat BY <1>2, WrittenFacts DEF Count
  <1>4. WithinBody' BY <1>1, <1>2, <1>3 DEF WithinBody
  <1>5. FindsRange'
    <2> SUFFICES ASSUME outcome = "rows", n # 0, Honest', NEW i \in DOMAIN Body[p], InRange(i)'
                 PROVE  FALSE
      BY <1>1, <1>2 DEF FindsRange
    <2>1. OutOfRange(seg, from, to) OBVIOUS
    <2>2. seg.min_ts_ms = First(p) /\ seg.max_ts_ms = Final(p) BY <1>1, <1>2 DEF Honest
    <2>3. i \in 1 .. Len(Body[p]) BY BodyFacts
    <2>4. /\ First(p) <= Body[p][i] /\ Body[p][i] <= Final(p)
          /\ Body[p][i] \in Int /\ First(p) \in Int /\ Final(p) \in Int
      BY <2>3, BodyFacts DEF First, Final
    <2>5. from <= Body[p][i] /\ Body[p][i] <= to BY <1>1 DEF InRange
    <2> QED BY <1>1, <2>1, <2>2, <2>4, <2>5 DEF OutOfRange
  <1> QED BY <1>2, <1>4, <1>5 DEF SearchInv

\* A search begins with the whole body before it.
LEMMA SearchStep ==
    ASSUME NEW p \in Paths, NEW from \in Timestamps, NEW to \in Timestamps, NEW n \in Nat,
           NEW seg, n # 0,
           Request(p, from, to, n), Search(seg, from, to), IsWritten(seg, p)
    PROVE  SearchInv'
  <1>1. CASE OutOfRange(seg, from, to) BY <1>1, AnswerStep DEF Search
  <1>2. CASE ~OutOfRange(seg, from, to)
    <2>1. /\ path' = p /\ start_ts' = from /\ end_ts' = to /\ limit' = n
          /\ from \in Int /\ to \in Int
      BY ReaderAssumption DEF Request
    <2>2. /\ left' = 0 /\ right' = Len(seg.records) /\ start_idx' = 0 /\ result' = <<0, 0>>
          /\ pc' = "lower" /\ segment' = seg
      BY <1>2 DEF Search, Empty
    <2>3. Count' = Len(Body[p]) /\ Len(Body[p]) \in Nat /\ seg.records = Body[p]
      BY <2>2, BodyFacts DEF Count, IsWritten
    <2>4. WithinBody' BY <2>1, <2>2, <2>3 DEF WithinBody
    <2>5. Lower(0, Len(Body[p]))' BY <2>1, <2>3 DEF Lower
    <2> QED BY <2>1, <2>2, <2>3, <2>4, <2>5 DEF SearchInv, FindsRange
  <1> QED BY <1>1, <1>2

\* What is searched is ordered, and its length is that of the body written.
LEMMA SearchedFacts ==
    ASSUME SearchInv, pc # "idle"
    PROVE  /\ Count \in Nat /\ Count = Len(Body[path]) /\ segment.records = Body[path]
           /\ DOMAIN Body[path] = 1 .. Count
           /\ \A i \in 1 .. Count : Body[path][i] \in Int
           /\ \A i, j \in 1 .. Count : i < j => Body[path][i] < Body[path][j]
  BY BodyFacts DEF SearchInv, WithinBody, Count

\* A probe of either search.
LEMMA HalveStep == ASSUME SearchInv, Halve PROVE SearchInv'
  <1>1. /\ pc \in {"lower", "upper"} /\ left < right /\ limit # 0
        /\ left \in Nat /\ right \in Nat /\ right <= Count /\ path \in Paths
        /\ start_ts \in Int /\ end_ts \in Int
    BY DEF Halve, SearchInv, WithinBody
  <1>2. UNCHANGED <<path, start_ts, end_ts, limit, segment, pc, start_idx, result>>
    BY DEF Halve, request
  <1>3. Mid \in Nat /\ left <= Mid /\ Mid < right BY <1>1 DEF Mid
  <1>4. /\ Count \in Nat /\ Mid + 1 \in 1 .. Count
        /\ \A i \in 1 .. Count : Body[path][i] \in Int
        /\ \A i, j \in 1 .. Count : i < j => Body[path][i] < Body[path][j]
    <2>1. /\ Count \in Nat /\ \A i \in 1 .. Count : Body[path][i] \in Int
          /\ \A i, j \in 1 .. Count : i < j => Body[path][i] < Body[path][j]
      BY <1>1, SearchedFacts
    <2>2. Mid + 1 \in 1 .. Count BY <1>1, <1>3, <2>1
    <2> QED BY <2>1, <2>2
  <1>5. \/ Before(Body[path][Mid + 1]) /\ left' = Mid + 1 /\ right' = right
        \/ ~Before(Body[path][Mid + 1]) /\ left' = left /\ right' = Mid
    BY <1>1, SearchedFacts DEF Halve, AboveMid, BelowMid
  <1>6. Count' = Count BY <1>2 DEF Count
  <1>7. WithinBody'
    <2>1. left' \in Nat /\ right' \in Nat /\ left' <= right' /\ right' <= Count
      BY <1>1, <1>3, <1>4, <1>5
    <2> QED BY <1>2, <1>6, <2>1 DEF SearchInv, WithinBody
  <1>8. CASE pc = "lower"
    <2>1. Lower(left, right) BY <1>8 DEF SearchInv
    <2>2. \A k \in 1 .. Count : /\ k <= left' => Body[path][k] < start_ts
                                /\ k > right' => Body[path][k] >= start_ts
      <3> TAKE k \in 1 .. Count
      <3>1. /\ k < Mid + 1 => Body[path][k] < Body[path][Mid + 1]
            /\ k > Mid + 1 => Body[path][k] > Body[path][Mid + 1]
            /\ k \in Int /\ Body[path][k] \in Int /\ Body[path][Mid + 1] \in Int
        BY <1>4
      <3>2. /\ k <= left => Body[path][k] < start_ts
            /\ k > right => Body[path][k] >= start_ts
        BY <2>1 DEF Lower
      <3>3. Before(Body[path][Mid + 1]) <=> Body[path][Mid + 1] < start_ts BY <1>8 DEF Before
      <3>4. CASE Before(Body[path][Mid + 1])
        <4>1. left' = Mid + 1 /\ right' = right BY <3>4, <1>5
        <4>2. k <= Mid + 1 => k < Mid + 1 \/ k = Mid + 1 BY <3>1, <1>3
        <4> QED BY <4>1, <4>2, <3>1, <3>2, <3>3, <3>4, <1>1, <1>3
      <3>5. CASE ~Before(Body[path][Mid + 1])
        <4>1. left' = left /\ right' = Mid BY <3>5, <1>5
        <4>2. k > Mid => k > Mid + 1 \/ k = Mid + 1 BY <3>1, <1>3
        <4> QED BY <4>1, <4>2, <3>1, <3>2, <3>3, <3>5, <1>1, <1>3
      <3> QED BY <3>4, <3>5
    <2>3. Lower(left, right)' BY <2>2, <1>2, <1>6 DEF Lower
    <2> QED BY <1>1, <1>2, <1>7, <1>8, <2>3 DEF SearchInv, FindsRange
  <1>9. CASE pc = "upper"
    <2>1. Lower(start_idx, start_idx) /\ Upper(left, right) BY <1>9 DEF SearchInv
    <2>2. \A k \in 1 .. Count : /\ k <= left' => Body[path][k] <= end_ts
                                /\ k > right' => Body[path][k] > end_ts
      <3> TAKE k \in 1 .. Count
      <3>1. /\ k < Mid + 1 => Body[path][k] < Body[path][Mid + 1]
            /\ k > Mid + 1 => Body[path][k] > Body[path][Mid + 1]
            /\ k \in Int /\ Body[path][k] \in Int /\ Body[path][Mid + 1] \in Int
        BY <1>4
      <3>2. /\ k <= left => Body[path][k] <= end_ts
            /\ k > right => Body[path][k] > end_ts
        BY <2>1 DEF Upper
      <3>3. Before(Body[path][Mid + 1]) <=> Body[path][Mid + 1] <= end_ts BY <1>9 DEF Before
      <3>4. CASE Before(Body[path][Mid + 1])
        <4>1. left' = Mid + 1 /\ right' = right BY <3>4, <1>5
        <4>2. k <= Mid + 1 => k < Mid + 1 \/ k = Mid + 1 BY <3>1, <1>3
        <4> QED BY <4>1, <4>2, <3>1, <3>2, <3>3, <3>4, <1>1, <1>3
      <3>5. CASE ~Before(Body[path][Mid + 1])
        <4>1. left' = left /\ right' = Mid BY <3>5, <1>5
        <4>2. k > Mid => k > Mid + 1 \/ k = Mid + 1 BY <3>1, <1>3
        <4> QED BY <4>1, <4>2, <3>1, <3>2, <3>3, <3>5, <1>1, <1>3
      <3> QED BY <3>4, <3>5
    <2>3. Upper(left, right)' BY <2>2, <1>2, <1>6 DEF Upper
    <2>4. Lower(start_idx, start_idx)' BY <2>1, <1>2, <1>6 DEF Lower
    <2> QED BY <1>1, <1>2, <1>7, <1>9, <2>3, <2>4 DEF SearchInv, FindsRange
  <1> QED BY <1>1, <1>8, <1>9

\* The first search ends at the lower bound, and the second one begins.
LEMMA LowerStep == ASSUME SearchInv, LowerFound PROVE SearchInv'
  <1>1. /\ pc = "lower" /\ pc' = "upper" /\ left = right /\ limit # 0
        /\ start_idx' = left /\ left' = 0 /\ right' = Count
        /\ left \in Nat /\ left <= Count /\ path \in Paths
        /\ UNCHANGED <<path, start_ts, end_ts, limit, segment, result>>
    BY DEF LowerFound, SearchInv, WithinBody, request
  <1>2. Count' = Count /\ Count \in Nat BY <1>1, SearchedFacts DEF Count
  <1>3. WithinBody' BY <1>1, <1>2 DEF SearchInv, WithinBody
  <1>4. Lower(left, left) BY <1>1 DEF SearchInv
  <1>5. Lower(start_idx, start_idx)' BY <1>1, <1>2, <1>4 DEF Lower
  <1>6. Upper(left, right)' BY <1>1, <1>2 DEF Upper
  <1> QED BY <1>1, <1>3, <1>5, <1>6 DEF SearchInv, FindsRange

\* The second search ends at the upper bound: what is between is the range.
LEMMA UpperStep == ASSUME SearchInv, UpperFound PROVE SearchInv'
  <1>1. /\ pc = "upper" /\ pc' = "idle" /\ left = right
        /\ limit \in Nat /\ limit # 0
        /\ left \in Nat /\ left <= Count /\ path \in Paths /\ start_idx \in 0 .. Count
        /\ UNCHANGED <<path, start_ts, end_ts, limit, segment, left, right, start_idx>>
    BY DEF UpperFound, SearchInv, WithinBody, request
  <1>2. /\ Count' = Count /\ Count \in Nat /\ DOMAIN Body[path] = 1 .. Count
        /\ \A k \in 1 .. Count : Body[path][k] \in Int
    BY <1>1, SearchedFacts DEF Count
  <1>3. /\ start_idx >= left => result' = <<0, 0>>
        /\ start_idx < left /\ start_idx + limit < left => result' = <<start_idx, start_idx + limit>>
        /\ start_idx < left /\ ~(start_idx + limit < left) => result' = <<start_idx, left>>
    BY <1>1 DEF UpperFound, Empty
  <1>4. result' \in Nat \X Nat /\ result'[1] <= result'[2] /\ result'[2] <= Count
    BY <1>1, <1>2, <1>3
  <1>5. WithinBody' BY <1>1, <1>2, <1>4 DEF SearchInv, WithinBody
  <1>6. \A k \in 1 .. Count : InRange(k)' <=> (start_idx < k /\ k <= left)
    <2> TAKE k \in 1 .. Count
    <2>1. /\ k <= start_idx => Body[path][k] < start_ts
          /\ k > start_idx => Body[path][k] >= start_ts
          /\ k <= left => Body[path][k] <= end_ts
          /\ k > left => Body[path][k] > end_ts
      BY <1>1 DEF SearchInv, Lower, Upper
    <2>2. Body[path][k] \in Int /\ start_ts \in Int /\ end_ts \in Int
      BY <1>2 DEF SearchInv, WithinBody
    <2> QED BY <1>1, <1>2, <2>1, <2>2 DEF InRange
  <1>7. FindsRange'
    <2>1. CASE start_idx >= left
      <3>1. result'[1] = 0 /\ result'[2] = 0 BY <2>1, <1>3
      <3>2. \A k \in 1 .. Count : ~InRange(k)' BY <1>1, <1>6, <2>1
      <3> QED BY <1>1, <1>2, <3>1, <3>2 DEF FindsRange
    <2>2. CASE start_idx < left /\ start_idx + limit < left
      <3>1. result'[1] = start_idx /\ result'[2] = start_idx + limit BY <2>2, <1>3
      <3> QED BY <1>1, <1>2, <1>6, <2>2, <3>1 DEF FindsRange
    <2>3. CASE start_idx < left /\ ~(start_idx + limit < left)
      <3>1. result'[1] = start_idx /\ result'[2] = left BY <2>3, <1>3
      <3> QED BY <1>1, <1>2, <1>6, <2>3, <3>1 DEF FindsRange
    <2> QED BY <1>1, <2>1, <2>2, <2>3
  <1> QED BY <1>1, <1>5, <1>7 DEF SearchInv

\* A search touches neither the files nor the cache.
LEMMA SearchingStep == ASSUME ReaderInv, Searching PROVE ReaderInv'
  <1>1. UNCHANGED <<disk, damages, entries, segment, path>>
    BY DEF Searching, Halve, LowerFound, UpperFound, diskVars, cacheVars, request
  <1>2. SearchInv' BY HalveStep, LowerStep, UpperStep DEF ReaderInv, Searching
  <1> QED BY <1>1, <1>2 DEF ReaderInv, DiskInv, ServesWritten, Cached

-----------------------------------------------------------------------------
(* The cache and the files.                                                *)

\* Whatever eviction leaves in the cache was there, or has just been put there.
LEMMA CacheKeeps ==
    ASSUME NEW p, NEW seg, NEW q \in DOMAIN Shrunk(Inserted(p, seg)).entries
    PROVE  \/ q = p /\ Shrunk(Inserted(p, seg)).entries[q] = seg
           \/ q \in Cached /\ Shrunk(Inserted(p, seg)).entries[q] = entries[q]
  <1> DEFINE c == Inserted(p, seg)
  <1>1. /\ DOMAIN c.entries = Cached \union {p}
        /\ \A r \in Cached \union {p} : c.entries[r] = IF r = p THEN seg ELSE entries[r]
    BY DEF Inserted
  <1>2. PICK D \in SUBSET DOMAIN c.entries : Shrunk(c).entries = [r \in D |-> c.entries[r]]
    BY DEF Shrunk, Popped, Restrict
  <1> HIDE DEF c
  <1>3. q \in D /\ Shrunk(c).entries[q] = c.entries[q] BY <1>2 DEF c
  <1> QED BY <1>1, <1>2, <1>3 DEF c

\* A read that looks only at the file's header, or at nothing, or that fails.
LEMMA AnsweredRead ==
    ASSUME ReaderInv, NEW p \in Paths, NEW from \in Timestamps, NEW to \in Timestamps,
           NEW n \in Nat,
           ReadNothing(p, from, to) \/ ReadSkipped(p, from, to, n) \/ ReadCorrupt(p, from, to, n)
    PROVE  ReaderInv'
  <1>1. /\ UNCHANGED <<disk, damages, entries>> /\ segment'.records = << >>
    BY DEF ReadNothing, ReadSkipped, ReadCorrupt, Missed, Request, Answer, NoSegment, Segment,
           diskVars, cacheVars
  <1>2. DiskInv' /\ ServesWritten' BY <1>1 DEF ReaderInv, DiskInv, ServesWritten, Cached
  <1>3. NoSegment.records = << >> BY DEF NoSegment, Segment
  <1>4. CASE ReadNothing(p, from, to)
    <2>1. Request(p, from, to, 0) /\ Answer("rows", NoSegment) BY <1>4 DEF ReadNothing
    <2>2. SearchInv' BY <2>1, <1>3, AnswerStep
    <2> QED BY <1>2, <2>2 DEF ReaderInv
  <1>5. CASE ReadSkipped(p, from, to, n)
    <2> DEFINE seg == Segment(Header(disk[p]), << >>)
    <2>1. Request(p, from, to, n) /\ Answer("rows", seg) BY <1>5 DEF ReadSkipped, Missed
    <2>2. OutOfRange(seg, from, to) /\ seg.records = << >>
      BY <1>5 DEF ReadSkipped, OutOfRange, Segment
    <2> HIDE DEF seg
    <2>3. SearchInv' BY <2>1, <2>2, AnswerStep
    <2> QED BY <1>2, <2>3 DEF ReaderInv
  <1>6. CASE ReadCorrupt(p, from, to, n)
    <2>1. Request(p, from, to, n) /\ Answer("corrupt", NoSegment)
      BY <1>6 DEF ReadCorrupt, Missed
    <2>2. SearchInv' BY <2>1, <1>3, AnswerStep
    <2> QED BY <1>2, <2>2 DEF ReaderInv
  <1> QED BY <1>4, <1>5, <1>6

\* A read that finds the body in the cache.
LEMMA CachedRead ==
    ASSUME ReaderInv, NEW p \in Paths, NEW from \in Timestamps, NEW to \in Timestamps,
           NEW n \in Nat, ReadCached(p, from, to, n)
    PROVE  ReaderInv'
  <1>1. /\ UNCHANGED <<disk, damages, entries>> /\ path' = p /\ n # 0
        /\ Request(p, from, to, n) /\ Search(entries[p], from, to)
    BY DEF ReadCached, Request, diskVars
  <1>2. IsWritten(entries[p], p) BY DEF ReadCached, ReaderInv, ServesWritten
  <1>3. segment' = entries[p] BY <1>1 DEF Search, Answer
  <1>4. DiskInv' BY <1>1 DEF ReaderInv, DiskInv
  <1>5. ServesWritten' BY <1>1, <1>2, <1>3 DEF ReaderInv, ServesWritten, Cached, IsWritten
  <1> QED BY <1>1, <1>2, <1>4, <1>5, SearchStep DEF ReaderInv

\* A read that decodes the file, which has passed its checks.
LEMMA FileRead ==
    ASSUME ReaderInv, NEW p \in Paths, NEW from \in Timestamps, NEW to \in Timestamps,
           NEW n \in Nat, ReadFile(p, from, to, n)
    PROVE  ReaderInv'
  <1> DEFINE seg == Segment(Header(disk[p]), disk[p].payload.body.records)
  <1>1. /\ UNCHANGED <<disk, damages>> /\ path' = p /\ n # 0
        /\ Request(p, from, to, n) /\ Search(seg, from, to)
    BY DEF ReadFile, Missed, Request, diskVars
  <1>2. IsWritten(seg, p) BY ChecksSuffice DEF ReadFile, ReaderInv, DiskInv
  <1> HIDE DEF seg
  <1>3. segment' = seg BY <1>1 DEF Search, Answer
  <1>4. DiskInv' BY <1>1 DEF ReaderInv, DiskInv
  <1>5. entries' = entries \/ entries' = Shrunk(Inserted(p, seg)).entries
    BY DEF ReadFile, seg, cacheVars
  <1>6. \A q \in DOMAIN entries' : IsWritten(entries'[q], q)
    <2>1. \A q \in Cached : IsWritten(entries[q], q) BY DEF ReaderInv, ServesWritten
    <2>2. CASE entries' = entries BY <2>1, <2>2 DEF Cached
    <2>3. CASE entries' = Shrunk(Inserted(p, seg)).entries
      <3> TAKE q \in DOMAIN entries'
      <3>1. \/ q = p /\ entries'[q] = seg
            \/ q \in Cached /\ entries'[q] = entries[q]
        BY <2>3, CacheKeeps
      <3> QED BY <3>1, <2>1, <1>2
    <2> QED BY <1>5, <2>2, <2>3
  <1>7. ServesWritten'
    <2>1. segment' = seg /\ path' = p BY <1>1, <1>3
    <2> QED BY <2>1, <1>2, <1>6 DEF ServesWritten, Cached, IsWritten
  <1> QED BY <1>1, <1>2, <1>4, <1>7, SearchStep DEF ReaderInv

\* Damage to a file that nothing has happened to leaves it almost intact, and does
\* not reach what has been read from it.
LEMMA DamageStep == ASSUME ReaderInv, NEW p \in Paths, Damage(p) PROVE ReaderInv'
  <1>1. PICK f \in Damaged(disk[p]) : disk' = [disk EXCEPT ![p] = f]
    BY DEF Damage
  <1>2. damages = 0 /\ damages' = 1 /\ MaxDamages = 1
    BY ReaderAssumption DEF Damage, ReaderInv, DiskInv
  <1>3. disk = [q \in Paths |-> Original(q)] BY <1>2 DEF ReaderInv, DiskInv
  <1>4. AlmostIntact(f, p) BY <1>1, <1>3, DamagedOnce
  <1>5. \A q \in Paths : AlmostIntact(disk'[q], q)
    BY <1>1, <1>3, <1>4, OriginalIntact
  <1>6. DiskInv' BY <1>2, <1>5 DEF DiskInv
  <1>7. UNCHANGED <<entries, path, start_ts, end_ts, limit, segment, pc, left, right,
                    start_idx, reply, result>>
    BY DEF Damage, cacheVars, request
  <1> QED
    BY <1>6, <1>7
    DEF ReaderInv, ServesWritten, Cached, SearchInv, WithinBody, Lower, Upper, FindsRange,
        InRange, Honest, Count

\* Every step keeps the invariant.
LEMMA NextReader == ASSUME ReaderInv, [Next]_vars PROVE ReaderInv'
  <1>1. CASE BeginRead
    <2>1. PICK p \in Paths, from \in Timestamps, to \in Timestamps :
              \/ ReadNothing(p, from, to)
              \/ \E n \in Limits : \/ ReadCached(p, from, to, n)
                                   \/ ReadSkipped(p, from, to, n)
                                   \/ ReadCorrupt(p, from, to, n)
                                   \/ ReadFile(p, from, to, n)
      BY <1>1 DEF BeginRead
    <2>2. Limits \subseteq Nat /\ 0 \in Nat BY ReaderAssumption
    <2> QED BY <2>1, <2>2, AnsweredRead, CachedRead, FileRead
  <1>2. CASE Searching BY <1>2, SearchingStep
  <1>3. CASE \E p \in Fragile : Damage(p) BY <1>3, ReaderAssumption, DamageStep
  <1>4. CASE UNCHANGED vars
    BY <1>4
    DEF vars, diskVars, cacheVars, request, ReaderInv, DiskInv, ServesWritten, Cached, SearchInv,
        WithinBody, Lower, Upper, FindsRange, InRange, Honest, Count
  <1> QED BY <1>1, <1>2, <1>3, <1>4 DEF Next

\* The invariant holds in every state; no probe of a search is out of bounds.
THEOREM ReaderInvariant == Spec => []ReaderInv
  BY InitReader, NextReader, PTL DEF Spec

\* A read returns the records of its range, and if it may not return them all
\* then the first ones: for every segment, range, limit and state of the cache.
THEOREM RangeFound == Spec => []FindsRange
  <1>1. ReaderInv => FindsRange BY DEF ReaderInv, SearchInv
  <1> QED BY ReaderInvariant, <1>1, PTL

\* Only what was written to a segment is read from it and kept in the cache,
\* whichever single part of a file is damaged: no check of a reader is superfluous
\* for it (the run's mutant drops one) and none is missing.
THEOREM WrittenServed == Spec => []ServesWritten
  <1>1. ReaderInv => ServesWritten BY DEF ReaderInv
  <1> QED BY ReaderInvariant, <1>1, PTL

-----------------------------------------------------------------------------
\* x comes before y.
Ahead(s, x, y) == \E i, j \in DOMAIN s : i < j /\ s[i] = x /\ s[j] = y

\* Without takes out one element and leaves the order of the others.
LEMMA WithoutFacts ==
    ASSUME NEW P, NEW s \in Seq(P), IsInjective(s), NEW p
    PROVE  LET r == Without(s, p)
           IN  /\ r \in Seq(P) /\ IsInjective(r) /\ Range(r) = Range(s) \ {p}
               /\ \A x, y : Ahead(r, x, y) <=> Ahead(s, x, y) /\ x # p /\ y # p
  <1> DEFINE S == Range(s) \ {p}
             r == Retained(s, S)
  <1>1. r \in Seq(P) BY RetainedFacts
  <1>2. PICK h : Selects(h, r, s, S, Len(s)) BY RetainedFacts
  <1> HIDE DEF r
  <1>3. DOMAIN s = 1 .. Len(s) /\ DOMAIN r = 1 .. Len(r) /\ Len(s) \in Nat /\ Len(r) \in Nat
    BY <1>1
  <1>4. /\ \A i \in 1 .. Len(r) : h[i] \in 1 .. Len(s) /\ r[i] = s[h[i]] /\ s[h[i]] \in S
        /\ \A i, j \in 1 .. Len(r) : i < j => h[i] < h[j]
        /\ \A k \in 1 .. Len(s) : s[k] \in S => \E i \in 1 .. Len(r) : h[i] = k
    BY <1>2 DEF Selects
  <1>5. \A i, j \in 1 .. Len(s) : s[i] = s[j] => i = j BY <1>3 DEF IsInjective
  <1>6. \A i, j \in 1 .. Len(r) : r[i] = r[j] => i = j
    <2> SUFFICES ASSUME NEW i \in 1 .. Len(r), NEW j \in 1 .. Len(r), r[i] = r[j], i # j
                 PROVE  FALSE
      OBVIOUS
    <2>1. h[i] = h[j] /\ h[i] \in 1 .. Len(s) /\ h[j] \in 1 .. Len(s) BY <1>4, <1>5
    <2>2. i < j \/ j < i BY <1>3
    <2>3. h[i] < h[j] \/ h[j] < h[i] BY <1>4, <2>2
    <2> QED BY <2>1, <2>3
  <1>7. IsInjective(r) BY <1>3, <1>6 DEF IsInjective
  <1>8. \A k \in 1 .. Len(s) : s[k] # p => s[k] \in S BY <1>3 DEF Range
  <1>9. Range(r) = S
    <2>1. Range(r) \subseteq S BY <1>3, <1>4 DEF Range
    <2>2. S \subseteq Range(r)
      <3> SUFFICES ASSUME NEW x \in S PROVE x \in Range(r) OBVIOUS
      <3>1. PICK k \in 1 .. Len(s) : s[k] = x BY <1>3 DEF Range
      <3>2. PICK i \in 1 .. Len(r) : h[i] = k BY <1>4, <3>1
      <3> QED BY <1>3, <1>4, <3>1, <3>2 DEF Range
    <2> QED BY <2>1, <2>2
  <1>10. ASSUME NEW x, NEW y PROVE Ahead(r, x, y) <=> Ahead(s, x, y) /\ x # p /\ y # p
    <2>1. ASSUME Ahead(r, x, y) PROVE Ahead(s, x, y) /\ x # p /\ y # p
      <3>1. PICK i \in 1 .. Len(r), j \in 1 .. Len(r) : i < j /\ r[i] = x /\ r[j] = y
        BY <1>3, <2>1 DEF Ahead
      <3>2. h[i] < h[j] /\ h[i] \in DOMAIN s /\ h[j] \in DOMAIN s /\ s[h[i]] = x /\ s[h[j]] = y
        BY <1>3, <1>4, <3>1
      <3>3. x \in S /\ y \in S BY <1>4, <3>1
      <3> QED BY <3>2, <3>3 DEF Ahead
    <2>2. ASSUME Ahead(s, x, y), x # p, y # p PROVE Ahead(r, x, y)
      <3>1. PICK k \in 1 .. Len(s), l \in 1 .. Len(s) : k < l /\ s[k] = x /\ s[l] = y
        BY <1>3, <2>2 DEF Ahead
      <3>2. PICK i \in 1 .. Len(r) : h[i] = k BY <1>4, <1>8, <2>2, <3>1
      <3>3. PICK j \in 1 .. Len(r) : h[j] = l BY <1>4, <1>8, <2>2, <3>1
      <3>4. r[i] = x /\ r[j] = y BY <1>4, <3>1, <3>2, <3>3
      <3>5. i < j
        <4>1. i = j \/ j < i \/ i < j BY <1>3
        <4>2. ~(h[j] < h[i]) /\ h[i] # h[j] BY <3>1, <3>2, <3>3
        <4> QED BY <1>4, <4>1, <4>2
      <3> QED BY <1>3, <3>4, <3>5 DEF Ahead
    <2> QED BY <2>1, <2>2
  <1> QED BY <1>1, <1>7, <1>9, <1>10 DEF Without, r


\* What is used comes last, behind the others in their order.
LEMMA LastFacts ==
    ASSUME NEW P, NEW s \in Seq(P), IsInjective(s), NEW p \in P
    PROVE  LET t == Append(Without(s, p), p)
           IN  /\ t \in Seq(P) /\ IsInjective(t) /\ Range(t) = Range(s) \union {p}
               /\ \A x, y : Ahead(t, x, y) <=> \/ Ahead(s, x, y) /\ x # p /\ y # p
                                               \/ x \in Range(s) /\ x # p /\ y = p
  <1> DEFINE r == Without(s, p)
             m == Len(r)
             t == Append(r, p)
  <1>1. /\ r \in Seq(P) /\ IsInjective(r) /\ Range(r) = Range(s) \ {p}
        /\ \A x, y : Ahead(r, x, y) <=> Ahead(s, x, y) /\ x # p /\ y # p
    BY WithoutFacts
  <1> HIDE DEF r
  <1>2. t \in Seq(P) /\ Len(t) = m + 1 /\ m \in Nat BY <1>1
  <1>3. t[m + 1] = p /\ \A i \in 1 .. m : t[i] = r[i] BY <1>1
  <1>4. DOMAIN r = 1 .. m /\ DOMAIN t = 1 .. m + 1 BY <1>1, <1>2
  <1>5. m + 1 \in 1 .. m + 1 /\ \A i \in 1 .. m : i \in 1 .. m + 1 /\ i < m + 1 BY <1>2
  <1>6. \A i \in 1 .. m + 1 : i \in 1 .. m \/ i = m + 1 BY <1>2
  <1> HIDE DEF t, m
  <1>7. \A i \in 1 .. m : r[i] \in Range(s) \ {p} BY <1>1, <1>4 DEF Range
  <1>8. \A x \in Range(s) \ {p} : \E i \in 1 .. m : r[i] = x BY <1>1, <1>4 DEF Range
  <1>9. IsInjective(t)
    <2>1. \A i, j \in 1 .. m : r[i] = r[j] => i = j BY <1>1, <1>4 DEF IsInjective
    <2>2. ASSUME NEW i \in 1 .. m + 1, NEW j \in 1 .. m + 1, t[i] = t[j] PROVE i = j
      BY <1>3, <1>6, <1>7, <2>1, <2>2
    <2> QED BY <1>4, <2>2 DEF IsInjective
  <1>10. Range(t) = Range(s) \union {p}
    <2>1. Range(t) \subseteq Range(s) \union {p} BY <1>3, <1>4, <1>6, <1>7 DEF Range
    <2>2. p \in Range(t) BY <1>3, <1>4, <1>5 DEF Range
    <2>3. Range(s) \ {p} \subseteq Range(t) BY <1>3, <1>4, <1>5, <1>8 DEF Range
    <2> QED BY <2>1, <2>2, <2>3
  <1>11. ASSUME NEW x, NEW y
         PROVE  Ahead(t, x, y) <=> \/ Ahead(s, x, y) /\ x # p /\ y # p
                                   \/ x \in Range(s) /\ x # p /\ y = p
    <2>1. ASSUME Ahead(t, x, y)
          PROVE  (Ahead(s, x, y) /\ x # p /\ y # p) \/ (x \in Range(s) /\ x # p /\ y = p)
      <3>1. PICK i \in 1 .. m + 1, j \in 1 .. m + 1 : i < j /\ t[i] = x /\ t[j] = y
        BY <1>4, <2>1 DEF Ahead
      <3>2. i \in 1 .. m BY <1>2, <3>1
      <3>3. x = r[i] /\ x \in Range(s) /\ x # p BY <1>3, <1>7, <3>1, <3>2
      <3>4. CASE j = m + 1 BY <1>3, <3>1, <3>3, <3>4
      <3>5. CASE j \in 1 .. m
        <4>1. Ahead(r, x, y) BY <1>3, <1>4, <3>1, <3>2, <3>5 DEF Ahead
        <4> QED BY <1>1, <4>1
      <3> QED BY <1>6, <3>4, <3>5
    <2>2. ASSUME Ahead(s, x, y), x # p, y # p PROVE Ahead(t, x, y)
      <3>1. Ahead(r, x, y) BY <1>1, <2>2
      <3>2. PICK i \in 1 .. m, j \in 1 .. m : i < j /\ r[i] = x /\ r[j] = y
        BY <1>4, <3>1 DEF Ahead
      <3> QED BY <1>3, <1>4, <1>5, <3>2 DEF Ahead
    <2>3. ASSUME x \in Range(s), x # p, y = p PROVE Ahead(t, x, y)
      <3>1. PICK i \in 1 .. m : r[i] = x BY <1>8, <2>3
      <3> QED BY <1>3, <1>4, <1>5, <2>3, <3>1 DEF Ahead
    <2> QED BY <2>1, <2>2, <2>3
  <1> QED BY <1>2, <1>9, <1>10, <1>11 DEF t, r

-----------------------------------------------------------------------------
(* What the cache holds.                                                   *)

Size == [p \in Paths |-> BodyOf(Type[p], Body[p]).bytes]

\* s lists each element of S once.
Lists(s, S) == s \in Seq(S) /\ IsInjective(s) /\ Range(s) = S

\* A cache that knows how much it holds: its files, their order and their total.
Accounted(c) ==
    /\ DOMAIN c.entries \subseteq Paths
    /\ \A p \in DOMAIN c.entries : c.entries[p].size_bytes = Size[p]
    /\ Lists(c.lru, DOMAIN c.entries)
    /\ c.total_bytes = PartOf(Size, DOMAIN c.entries)

Cache == [entries |-> entries, lru |-> lru, total_bytes |-> total_bytes]

CacheInv ==
    /\ Accounted(Cache) /\ total_bytes <= MaxBytes
    /\ recency \in Seq(Paths) /\ IsInjective(recency) /\ Cached \subseteq Range(recency)
    /\ \A p, q \in Cached : Ahead(lru, p, q) => Ahead(recency, p, q)

\* A listed set is finite, and has as many elements as the list.
LEMMA ListedFacts ==
    ASSUME NEW S, NEW s, Lists(s, S)
    PROVE  /\ IsFiniteSet(S) /\ Cardinality(S) = Len(s) /\ Len(s) \in Nat
           /\ \A i \in 1 .. Len(s) : s[i] \in S
           /\ \A x \in S : \E i \in 1 .. Len(s) : s[i] = x
           /\ \A i, j \in 1 .. Len(s) : s[i] = s[j] => i = j
  <1>1. Len(s) \in Nat /\ DOMAIN s = 1 .. Len(s) /\ s \in [1 .. Len(s) -> S] BY DEF Lists
  <1>2. \A x \in S : \E i \in 1 .. Len(s) : s[i] = x BY <1>1 DEF Lists, Range
  <1>3. \A i, j \in 1 .. Len(s) : s[i] = s[j] => i = j BY <1>1 DEF Lists, IsInjective
  <1>4. ExistsBijection(1 .. Len(s), S)
    <2>1. s \in Bijection(1 .. Len(s), S)
      BY <1>1, <1>2, <1>3
      DEF Bijection, Injection, Surjection, IsInjective
    <2> QED BY <2>1 DEF ExistsBijection
  <1>5. IsFiniteSet(1 .. Len(s)) /\ Cardinality(1 .. Len(s)) = Len(s)
    <2>1. IsFiniteSet(1 .. Len(s)) /\ Cardinality(1 .. Len(s)) = IF 1 > Len(s) THEN 0 ELSE Len(s) - 1 + 1
      BY <1>1, FS_Interval
    <2> QED BY <1>1, <2>1
  <1>6. IsFiniteSet(S) /\ Cardinality(S) = Cardinality(1 .. Len(s))
    BY <1>4, <1>5, FS_Bijection
  <1> QED BY <1>1, <1>2, <1>3, <1>5, <1>6

\* The size of a segment is a natural.
LEMMA SizeType == Size \in [Paths -> Nat]
  <1> SUFFICES ASSUME NEW p \in Paths PROVE BodyOf(Type[p], Body[p]).bytes \in Nat BY DEF Size
  <1>1. Len(Body[p]) \in Nat BY BodyFacts
  <1>2. Len(Body[p]) * 9 \in Nat /\ Len(Body[p]) * 16 \in Nat BY <1>1
  <1> QED BY <1>2 DEF BodyOf, RecordSize

\* The sizes of cached bodies.
EntryBytes(e, S) == MapThenSumSet(LAMBDA p : e[p].size_bytes, S)

\* Two totals of the same weights agree.
LEMMA SumsSame ==
    ASSUME NEW S, IsFiniteSet(S), NEW w, \A x \in S : w[x] \in Nat,
           NEW f, Sums(f, w, S), NEW g, Sums(g, w, S)
    PROVE  f[S] = g[S]
  <1>1. S \in SUBSET S /\ \A x \in S : w[x] = w[x] /\ w[x] \in Nat OBVIOUS
  <1>2. \A T \in SUBSET S : f[T] = g[T] /\ f[T] \in Nat BY <1>1, SumsAgree
  <1> QED BY <1>1, <1>2

\* Adding them up.
LEMMA EntrySum ==
    ASSUME NEW S \in SUBSET Paths, IsFiniteSet(S), NEW e, \A p \in S : e[p].size_bytes = Size[p]
    PROVE  EntryBytes(e, S) = PartOf(Size, S)
  <1> DEFINE w == [p \in S |-> Size[p]]
             IsTotal(f) ==
                 f = [T \in SUBSET S |->
                         IF T = {} THEN 0 ELSE e[Picked(T)].size_bytes + f[T \ {Picked(T)}]]
             sum == CHOOSE f : Sums(f, w, S)
             total == CHOOSE f : IsTotal(f)
  <1>0. w \in [S -> Nat] BY SizeType
  <1> HIDE DEF w
  <1>1. Sums(sum, w, S) BY <1>0, SumOfFacts
  <1> HIDE DEF sum
  <1>2. \A T \in SUBSET S : T # {} => w[Picked(T)] = e[Picked(T)].size_bytes
    BY PickedFacts DEF w
  <1>3. ASSUME NEW f PROVE IsTotal(f) <=> Sums(f, w, S)
    <2>1. [T \in SUBSET S |->
              IF T = {} THEN 0 ELSE e[Picked(T)].size_bytes + f[T \ {Picked(T)}]]
          = [T \in SUBSET S |-> IF T = {} THEN 0 ELSE w[Picked(T)] + f[T \ {Picked(T)}]]
      BY <1>2
    <2> QED BY <2>1 DEF Sums
  <1>4. IsTotal(sum) BY <1>1, <1>3
  <1> HIDE DEF IsTotal
  <1>5. IsTotal(total) BY <1>4
  <1>6. Sums(total, w, S) BY <1>3, <1>5
  <1> HIDE DEF total
  <1>7. S \in SUBSET S /\ \A x \in S : w[x] = w[x] /\ w[x] \in Nat BY <1>0
  <1>8. total[S] = sum[S]
    <2>1. Sums(total, w, S) /\ Sums(sum, w, S) BY <1>1, <1>6
    <2> HIDE DEF sum, total, w
    <2> QED BY ONLY <2>1, <1>7, IsFiniteSet(S), SumsSame
  <1>9. EntryBytes(e, S) = total[S]
    BY DEF EntryBytes, MapThenSumSet, MapThenFoldSet, Picked, total, IsTotal
  <1> QED BY <1>8, <1>9 DEF PartOf, SumOf, sum, w

\* Evicting the first n files of lru leaves the others, in their order.
LEMMA PoppedFacts ==
    ASSUME NEW c, Accounted(c), NEW n \in 0 .. Len(c.lru)
    PROVE  LET r == Popped(c, n)
           IN  /\ Accounted(r)
               /\ DOMAIN r.entries = DOMAIN c.entries \ {c.lru[i] : i \in 1 .. n}
               /\ \A p \in DOMAIN r.entries : r.entries[p] = c.entries[p]
               /\ \A x, y : Ahead(r.lru, x, y) => Ahead(c.lru, x, y)
  <1> DEFINE D == DOMAIN c.entries
             s == c.lru
             m == Len(s)
             out == {s[i] : i \in 1 .. n}
             r == Popped(c, n)
             t == SubSeq(s, n + 1, m)
  <1>1. Lists(s, D) /\ s \in Seq(D) BY DEF Accounted, Lists
  <1>2. /\ IsFiniteSet(D) /\ m \in Nat
        /\ \A i \in 1 .. m : s[i] \in D
        /\ \A x \in D : \E i \in 1 .. m : s[i] = x
        /\ \A i, j \in 1 .. m : s[i] = s[j] => i = j
    BY <1>1, ListedFacts
  <1>3. n \in Nat /\ n <= m BY <1>2
  <1>4. out \subseteq D /\ out \intersect D = out
    <2> HIDE DEF m, D, s
    <2>1. \A i \in 1 .. n : i \in 1 .. m BY ONLY <1>2, <1>3
    <2>2. \A i \in 1 .. n : s[i] \in D BY ONLY <1>2, <2>1
    <2>3. out \subseteq D BY ONLY <2>2 DEF out
    <2> QED BY ONLY <2>3
  <1>5. r = [entries |-> Restrict(c.entries, D \ out), lru |-> t,
             total_bytes |-> SaturatingSub(c.total_bytes, EntryBytes(c.entries, out))]
    BY <1>4 DEF Popped, EntryBytes
  <1>6. r.entries = [p \in D \ out |-> c.entries[p]] BY <1>5 DEF Restrict
  <1>7. r.total_bytes = PartOf(Size, D \ out)
    <2>1. D \in SUBSET Paths /\ out \in SUBSET Paths /\ IsFiniteSet(out)
          /\ \A p \in out : c.entries[p].size_bytes = Size[p]
      BY <1>2, <1>4, FS_Subset DEF Accounted
    <2>2. EntryBytes(c.entries, out) = PartOf(Size, out)
      <3> HIDE DEF out
      <3> QED BY <2>1, EntrySum
    <2>3. \A x \in D : Size[x] \in Nat BY <2>1, SizeType
    <2> HIDE DEF D, out
    <2>4. PartOf(Size, D) = PartOf(Size, out) + PartOf(Size, D \ out)
      BY <1>2, <1>4, <2>3, PartOfSplit
    <2>5. PartOf(Size, out) \in Nat /\ PartOf(Size, D \ out) \in Nat
      BY <1>2, <1>4, <2>3, PartOfFacts
    <2>6. c.total_bytes = PartOf(Size, D) BY DEF Accounted, D
    <2>7. r.total_bytes = SaturatingSub(PartOf(Size, D), PartOf(Size, out))
      BY <1>5, <2>2, <2>6
    <2> QED BY ONLY <2>4, <2>5, <2>7 DEF SaturatingSub
  <1> HIDE DEF r
  <1>8. /\ t \in Seq(D) /\ Len(t) = m - n
        /\ \A i \in 1 .. m - n : n + i \in 1 .. m /\ t[i] = s[n + i]
    <2>1. \A i \in 1 .. m - n : n + i \in 1 .. m BY <1>2, <1>3
    <2>3. n + 1 \in 1 .. Len(s) + 1 /\ m \in (n + 1) - 1 .. Len(s) BY <1>2, <1>3
    <2> HIDE DEF s, D, m
    <2>4. /\ t \in Seq(D) /\ Len(t) = m - (n + 1) + 1
          /\ \A i \in 1 .. m - (n + 1) + 1 : t[i] = s[(n + 1) + i - 1]
      BY <1>1, <2>3, SubSeqProperties
    <2>5. m - (n + 1) + 1 = m - n BY ONLY <1>2, <1>3
    <2>6. \A i \in 1 .. m - n : (n + 1) + i - 1 = n + i BY ONLY <1>2, <1>3
    <2> QED BY ONLY <2>1, <2>4, <2>5, <2>6
  <1>9. DOMAIN t = 1 .. m - n BY <1>8
  <1> HIDE DEF t
  <1>10. \A i \in 1 .. m - n : t[i] \in D \ out
    <2> TAKE i \in 1 .. m - n
    <2>1. n + i \in 1 .. m /\ t[i] = s[n + i] BY <1>8
    <2>2. \A j \in 1 .. n : j \in 1 .. m /\ n + i # j BY <1>2, <1>3
    <2> QED BY <1>2, <2>1, <2>2
  <1>11. Lists(t, D \ out)
    <2>1. t \in Seq(D \ out)
      <3>2. m - n \in Nat BY <1>2, <1>3
      <3> HIDE DEF s, D, m, out
      <3>1. t \in [1 .. m - n -> D \ out]
        <4>1. t \in [1 .. Len(t) -> D] BY ONLY <1>8
        <4> QED BY ONLY <4>1, <1>9, <1>10
      <3> QED BY ONLY <3>1, <3>2
    <2>2. IsInjective(t)
      <3> SUFFICES ASSUME NEW i \in 1 .. m - n, NEW j \in 1 .. m - n, t[i] = t[j]
                   PROVE  i = j
        BY <1>9 DEF IsInjective
      <3>1. n + i = n + j BY <1>2, <1>8
      <3> QED BY <1>3, <3>1
    <2>3. D \ out \subseteq Range(t)
      <3> SUFFICES ASSUME NEW x \in D \ out PROVE x \in Range(t) OBVIOUS
      <3>1. PICK i \in 1 .. m : s[i] = x BY <1>2
      <3>2. ~(i \in 1 .. n) BY <3>1
      <3>3. i - n \in 1 .. m - n /\ n + (i - n) = i BY <1>2, <1>3, <3>2
      <3>4. t[i - n] = x BY <1>8, <3>1, <3>3
      <3> QED BY <1>9, <3>3, <3>4 DEF Range
    <2>4. Range(t) \subseteq D \ out BY <1>9, <1>10 DEF Range
    <2> QED BY <2>1, <2>2, <2>3, <2>4 DEF Lists
  <1>12. Accounted(r)
    <2>1. DOMAIN r.entries = D \ out /\ r.lru = t BY <1>5, <1>6
    <2>2. \A p \in D \ out : r.entries[p].size_bytes = Size[p] BY <1>6 DEF Accounted
    <2>3. D \ out \subseteq Paths BY DEF Accounted
    <2> QED BY <1>7, <1>11, <2>1, <2>2, <2>3 DEF Accounted
  <1>13. ASSUME NEW x, NEW y, Ahead(t, x, y) PROVE Ahead(s, x, y)
    <2>1. PICK i \in 1 .. m - n, j \in 1 .. m - n : i < j /\ t[i] = x /\ t[j] = y
      BY <1>9, <1>13 DEF Ahead
    <2>2. n + i \in 1 .. m /\ n + j \in 1 .. m /\ s[n + i] = x /\ s[n + j] = y
      BY <1>8, <2>1
    <2>3. n + i < n + j BY <1>3, <2>1
    <2>4. DOMAIN s = 1 .. m BY <1>1
    <2> QED BY <2>2, <2>3, <2>4 DEF Ahead
  <1>14. r.lru = t BY <1>5
  <1> QED BY <1>6, <1>12, <1>13, <1>14 DEF r

\* What is evicted leaves as much as fits, and one file less would not do.
LEMMA ShrunkFacts ==
    ASSUME NEW c, Accounted(c)
    PROVE  \E n \in 0 .. Len(c.lru) :
               /\ Shrunk(c) = Popped(c, n)
               /\ Popped(c, n).total_bytes <= MaxBytes
               /\ \A k \in 0 .. n - 1 : Popped(c, k).total_bytes > MaxBytes
  <1> DEFINE m == Len(c.lru)
             fits == {n \in 0 .. m : Popped(c, n).total_bytes <= MaxBytes}
             all == fits \union {m}
             n == Min(all)
  <1>1. Lists(c.lru, DOMAIN c.entries) /\ DOMAIN c.entries \subseteq Paths BY DEF Accounted
  <1>2. m \in Nat BY <1>1, ListedFacts
  <1>3. \A k \in 0 .. m : Popped(c, k).total_bytes \in Nat
    <2> TAKE k \in 0 .. m
    <2> DEFINE D == DOMAIN Popped(c, k).entries
    <2>1. Accounted(Popped(c, k)) BY PoppedFacts
    <2>2. D \subseteq Paths /\ Popped(c, k).total_bytes = PartOf(Size, D)
          /\ Lists(Popped(c, k).lru, D)
      BY <2>1 DEF Accounted
    <2> HIDE DEF D
    <2>3. IsFiniteSet(D) /\ \A x \in D : Size[x] \in Nat BY <2>2, ListedFacts, SizeType
    <2> QED BY <2>2, <2>3, PartOfFacts
  <1>4. Popped(c, m).total_bytes <= MaxBytes
    <2> DEFINE D == DOMAIN Popped(c, m).entries
    <2>1. m \in 0 .. m BY <1>2
    <2>2. D = DOMAIN c.entries \ {c.lru[i] : i \in 1 .. m} /\ Accounted(Popped(c, m))
      BY <2>1, PoppedFacts
    <2>3. D = {} BY <1>1, <2>2, ListedFacts
    <2>4. Popped(c, m).total_bytes = PartOf(Size, {}) BY <2>2, <2>3 DEF Accounted
    <2>5. PartOf(Size, {}) = 0
      <3>1. IsFiniteSet({}) /\ {} \in SUBSET {} BY FS_EmptySet
      <3> QED BY <3>1, PartOfFacts
    <2>6. 0 <= MaxBytes BY ReaderAssumption
    <2> QED BY <2>4, <2>5, <2>6
  <1>5. all = fits /\ m \in fits BY <1>2, <1>4
  <1>6. fits \in SUBSET Int /\ fits # {} /\ \A k \in fits : 0 <= k BY <1>2, <1>5
  <1>7. n \in fits /\ \A k \in fits : n <= k
    <2> HIDE DEF fits
    <2>1. Min(fits) \in fits /\ \A k \in fits : Min(fits) <= k BY <1>6, MinBounded
    <2> QED BY <1>5, <2>1
  <1>8. Shrunk(c) = Popped(c, n) BY DEF Shrunk
  <1> HIDE DEF n
  <1>9. ASSUME NEW k \in 0 .. n - 1 PROVE Popped(c, k).total_bytes > MaxBytes
    <2>1. n \in 0 .. m /\ k \in 0 .. m /\ ~(n <= k) BY <1>2, <1>7
    <2>2. k \notin fits BY <1>7, <2>1
    <2>3. ~(Popped(c, k).total_bytes <= MaxBytes) BY <2>1, <2>2
    <2>4. Popped(c, k).total_bytes \in Nat /\ MaxBytes \in Nat
      BY <1>3, <2>1, ReaderAssumption
    <2> QED BY <2>3, <2>4
  <1>10. n \in 0 .. m /\ Popped(c, n).total_bytes <= MaxBytes BY <1>7
  <1> QED BY <1>8, <1>9, <1>10

\* A decoded body is put into the cache: nothing that was there is in its way.
LEMMA InsertedFacts ==
    ASSUME CacheInv, NEW p \in Paths, p \notin Cached, NEW seg, seg.size_bytes = Size[p]
    PROVE  LET c == Inserted(p, seg)
           IN  /\ Accounted(c) /\ DOMAIN c.entries = Cached \union {p}
               /\ \A q \in Cached : c.entries[q] = entries[q]
               /\ c.lru = Touched(p) /\ c.total_bytes = total_bytes + Size[p]
  <1> DEFINE c == Inserted(p, seg)
  <1>1. c = [entries |-> [q \in Cached \union {p} |-> IF q = p THEN seg ELSE entries[q]],
             lru |-> Touched(p), total_bytes |-> total_bytes + Size[p]]
    BY DEF Inserted
  <1> HIDE DEF c
  <1>2. /\ DOMAIN c.entries = Cached \union {p} /\ c.entries[p] = seg
        /\ \A q \in Cached : c.entries[q] = entries[q]
    BY <1>1
  <1>3. /\ Cached \subseteq Paths /\ \A q \in Cached : entries[q].size_bytes = Size[q]
        /\ Lists(lru, Cached) /\ total_bytes = PartOf(Size, Cached)
    BY DEF CacheInv, Accounted, Cache, Cached
  <1>4. Lists(Touched(p), Cached \union {p})
    <2>1. lru \in Seq(Cached \union {p}) /\ IsInjective(lru) /\ Range(lru) = Cached
      BY <1>3 DEF Lists
    <2>2. p \in Cached \union {p} OBVIOUS
    <2> QED BY <2>1, <2>2, LastFacts DEF Lists, Touched
  <1>5. PartOf(Size, Cached \union {p}) = total_bytes + Size[p]
    <2> DEFINE S == Cached \union {p}
    <2>1. IsFiniteSet(Cached) BY <1>3, ListedFacts
    <2>2. IsFiniteSet(S) BY <2>1, FS_AddElement
    <2>3. \A x \in S : Size[x] \in Nat BY <1>3, SizeType
    <2>4. Cached \in SUBSET S /\ p \in S OBVIOUS
    <2>5. PartOf(Size, Cached \union {p}) = Size[p] + PartOf(Size, Cached)
      BY ONLY <2>2, <2>3, <2>4, p \notin Cached, PartOfAdd
    <2>6. PartOf(Size, Cached) \in Nat BY ONLY <2>2, <2>3, <2>4, PartOfFacts
    <2>7. Size[p] \in Nat BY SizeType
    <2> QED BY <1>3, <2>5, <2>6, <2>7
  <1>6. Accounted(c)
    <2>1. c.lru = Touched(p) /\ c.total_bytes = total_bytes + Size[p] BY <1>1
    <2>2. DOMAIN c.entries \subseteq Paths BY <1>2, <1>3
    <2>3. \A q \in DOMAIN c.entries : c.entries[q].size_bytes = Size[q] BY <1>2, <1>3
    <2> QED BY <1>2, <1>4, <1>5, <2>1, <2>2, <2>3 DEF Accounted
  <1> QED BY <1>1, <1>2, <1>6 DEF c

\* What is decoded and found right has the size that its records have.
LEMMA ChecksMeasure ==
    ASSUME NEW p \in Paths, NEW f, AlmostIntact(f, p), HeaderValid(f), BodyValid(f)
    PROVE  Header(f).size = Size[p]
  <1>1. /\ f.payload.body = f.crc /\ f.payload.body.bytes = Header(f).size
        /\ Header(f).size = f.count * RecordSize(f.series_type) /\ f.count \in Int
    BY DEF BodyValid, Header, AlmostIntact
  <1>2. RecordSize(f.series_type) \in {9, 16} BY DEF RecordSize
  <1>3. f.crc # Garbage
    <2>1. f.count * 9 # -1 /\ f.count * 16 # -1 BY <1>1
    <2> QED BY <1>1, <1>2, <2>1 DEF Garbage
  <1>4. f.payload.body = BodyOf(Type[p], Body[p]) BY <1>1, <1>3 DEF AlmostIntact
  <1> QED BY <1>1, <1>4 DEF Size

\* A file of a cache whose list ends with p, and p fits: eviction leaves p, takes
\* only files before those that stay, and the last one it took was in the way.
LEMMA RoomMade ==
    ASSUME NEW c, Accounted(c), NEW p \in DOMAIN c.entries, \A x : ~Ahead(c.lru, p, x),
           Size[p] <= MaxBytes, NEW r, r = Shrunk(c),
           NEW out, out = DOMAIN c.entries \ DOMAIN r.entries
    PROVE  /\ Accounted(r) /\ r.total_bytes <= MaxBytes
           /\ DOMAIN r.entries \subseteq DOMAIN c.entries /\ p \in DOMAIN r.entries
           /\ \A x, y : Ahead(r.lru, x, y) => Ahead(c.lru, x, y)
           /\ \A x \in out, y \in DOMAIN r.entries : Ahead(c.lru, x, y)
           /\ out # {} => \E z \in out : /\ r.total_bytes + Size[z] > MaxBytes
                                         /\ \A x \in out : x = z \/ Ahead(c.lru, x, z)
  <1> DEFINE E == DOMAIN c.entries
             s == c.lru
             m == Len(s)
             gone(k) == {s[i] : i \in 1 .. k}
  <1>2. PICK n \in 0 .. m : /\ Shrunk(c) = Popped(c, n)
                            /\ Popped(c, n).total_bytes <= MaxBytes
                            /\ \A k \in 0 .. n - 1 : Popped(c, k).total_bytes > MaxBytes
    BY ShrunkFacts
  <1>3. Lists(s, E) /\ E \subseteq Paths /\ p \in Paths BY DEF Accounted
  <1>4. /\ IsFiniteSet(E) /\ m \in Nat
        /\ \A i \in 1 .. m : s[i] \in E
        /\ \A x \in E : \E i \in 1 .. m : s[i] = x
        /\ \A i, j \in 1 .. m : s[i] = s[j] => i = j
        /\ DOMAIN s = 1 .. m
    <2> HIDE DEF E, s
    <2>1. /\ IsFiniteSet(E) /\ m \in Nat
          /\ \A i \in 1 .. m : s[i] \in E
          /\ \A x \in E : \E i \in 1 .. m : s[i] = x
          /\ \A i, j \in 1 .. m : s[i] = s[j] => i = j
      BY <1>3, ListedFacts
    <2>2. DOMAIN s = 1 .. m BY <1>3 DEF Lists
    <2> QED BY <2>1, <2>2
  <1>5. ASSUME NEW k \in 0 .. m
        PROVE  /\ Accounted(Popped(c, k))
               /\ DOMAIN Popped(c, k).entries = E \ gone(k)
               /\ Popped(c, k).total_bytes = PartOf(Size, E \ gone(k))
               /\ \A x, y : Ahead(Popped(c, k).lru, x, y) => Ahead(s, x, y)
    <2> DEFINE q == Popped(c, k)
    <2>1. /\ Accounted(q) /\ DOMAIN q.entries = E \ gone(k)
          /\ \A x, y : Ahead(q.lru, x, y) => Ahead(s, x, y)
      BY PoppedFacts
    <2> HIDE DEF q
    <2>2. q.total_bytes = PartOf(Size, DOMAIN q.entries) BY <2>1 DEF Accounted
    <2> QED BY <2>1, <2>2 DEF q
  <1>6. s[m] = p /\ m >= 1
    <2>1. PICK i \in 1 .. m : s[i] = p BY <1>4
    <2>2. ~(i < m)
      <3> SUFFICES ASSUME i < m PROVE FALSE OBVIOUS
      <3>1. m \in 1 .. m BY <1>4, <2>1
      <3>2. Ahead(s, p, s[m]) BY <1>4, <2>1, <3>1 DEF Ahead
      <3> QED BY <3>2
    <2> QED BY <1>4, <2>1, <2>2
  <1>7. n <= m - 1
    <2> SUFFICES ASSUME n = m PROVE FALSE BY <1>4
    <2>1. m - 1 \in 0 .. n - 1 /\ m - 1 \in 0 .. m BY <1>4, <1>6
    <2>2. E \ gone(m - 1) = {p}
      <3>1. \A i \in 1 .. m - 1 : s[i] # p
        <4> TAKE i \in 1 .. m - 1
        <4>1. i \in 1 .. m /\ m \in 1 .. m /\ i # m BY <1>4, <1>6
        <4> QED BY <1>4, <1>6, <4>1
      <3>2. \A x \in E : x = p \/ x \in gone(m - 1)
        <4> TAKE x \in E
        <4>1. PICK i \in 1 .. m : s[i] = x BY <1>4
        <4>2. i = m \/ i \in 1 .. m - 1 BY <1>4
        <4> QED BY <1>6, <4>1, <4>2
      <3> QED BY <3>1, <3>2
    <2>3. PartOf(Size, {p}) = Size[p]
      <3>1. IsFiniteSet({p}) /\ {} \in SUBSET {p} /\ p \in {p} /\ p \notin {} BY FS_Singleton
      <3>2. \A x \in {p} : Size[x] \in Nat BY <1>3, SizeType
      <3> DEFINE O == {}
                 Q == {p}
      <3>6. IsFiniteSet(Q) /\ O \in SUBSET Q /\ p \in Q /\ p \notin O
            /\ \A x \in Q : Size[x] \in Nat
        BY <3>1, <3>2
      <3> HIDE DEF O, Q
      <3>3. PartOf(Size, O \union {p}) = Size[p] + PartOf(Size, O)
        BY ONLY <3>6, PartOfAdd
      <3>4. PartOf(Size, O) = 0 BY ONLY <3>6, PartOfFacts DEF O
      <3>5. PartOf(Size, O \union {p}) = PartOf(Size, {p})
        <4>1. O \union {p} = {p} BY DEF O
        <4> QED BY ONLY <4>1, Zenon
      <3>7. Size[p] \in Nat BY <3>2
      <3> QED BY <3>3, <3>4, <3>5, <3>7
    <2>4. Popped(c, m - 1).total_bytes = Size[p] /\ Popped(c, m - 1).total_bytes > MaxBytes
      BY <1>2, <1>5, <2>1, <2>2, <2>3
    <2>5. Size[p] \in Nat BY <1>3, SizeType
    <2> QED BY <2>4, <2>5, ReaderAssumption
  <1>15. n \in Nat /\ \A i \in 1 .. n : i \in 1 .. m
    <2>1. n \in Nat OBVIOUS
    <2> QED BY <1>4, <1>7, <2>1
  <1> DEFINE away == gone(n)
  <1>8. p \notin away
    <2> SUFFICES ASSUME NEW i \in 1 .. n, s[i] = p PROVE FALSE OBVIOUS
    <2>1. i \in 1 .. m /\ m \in 1 .. m /\ i # m BY <1>4, <1>6, <1>7
    <2> QED BY <1>4, <1>6, <2>1
  <1>9. away \subseteq E
    <2>1. \A i \in 1 .. n : s[i] \in E
      <3> HIDE DEF E, s, m
      <3> QED BY <1>4, <1>15
    <2> QED BY <2>1
  <1>10. /\ Accounted(r) /\ DOMAIN r.entries = E \ away
         /\ r.total_bytes = PartOf(Size, E \ away) /\ r.total_bytes <= MaxBytes
         /\ \A x, y : Ahead(r.lru, x, y) => Ahead(s, x, y)
    BY <1>2, <1>5
  <1>11. out = away BY <1>9, <1>10
  <1>12. ASSUME NEW x \in away, NEW y \in E \ away PROVE Ahead(s, x, y)
    <2>1. PICK i \in 1 .. n : s[i] = x OBVIOUS
    <2>2. PICK j \in 1 .. m : s[j] = y BY <1>4
    <2>3. ~(j \in 1 .. n) BY <2>2
    <2>4. i \in Nat /\ j \in Nat /\ 1 <= j /\ i <= n BY <1>4, <1>15
    <2>5. i < j /\ i \in 1 .. m BY <1>15, <2>3, <2>4
    <2> QED BY <1>4, <2>1, <2>2, <2>5 DEF Ahead
  <1>13. ASSUME away # {}
         PROVE  \E z \in away : /\ r.total_bytes + Size[z] > MaxBytes
                               /\ \A x \in away : x = z \/ Ahead(s, x, z)
    <2>1. n >= 1 /\ n \in 1 .. n /\ n \in 1 .. m /\ n - 1 \in 0 .. n - 1 /\ n - 1 \in 0 .. m
      BY <1>4, <1>7, <1>13
    <2> DEFINE z == s[n]
               R == E \ away
    <2>2. z \in away /\ z \in E BY <1>4, <2>1
    <2>3. \A i \in 1 .. n - 1 : i \in 1 .. n /\ i \in 1 .. m /\ i # n /\ i < n BY <1>4, <1>7, <2>1
    <2>4. \A i \in 1 .. n : i = n \/ i \in 1 .. n - 1 BY <2>1
    <2>5. E \ gone(n - 1) = R \union {z}
      <3>1. z \notin gone(n - 1) BY <1>4, <2>1, <2>3
      <3>2. away = gone(n - 1) \union {z}
        <4>1. away \subseteq gone(n - 1) \union {z} BY <2>4
        <4>2. gone(n - 1) \union {z} \subseteq away BY <2>1, <2>3
        <4> QED BY <4>1, <4>2
      <3> HIDE DEF z, away, gone
      <3> QED BY <2>2, <3>1, <3>2
    <2>6. Popped(c, n - 1).total_bytes = PartOf(Size, R \union {z}) BY <1>5, <2>1, <2>5
    <2>7. PartOf(Size, R \union {z}) = Size[z] + PartOf(Size, R)
      <3>1. \A x \in E : Size[x] \in Nat BY <1>3, SizeType
      <3>2. R \in SUBSET E /\ z \notin R BY <2>2
      <3> HIDE DEF z, R, E
      <3> QED BY ONLY <1>4, <2>2, <3>1, <3>2, PartOfAdd
    <2>8. Popped(c, n - 1).total_bytes > MaxBytes BY <1>2, <2>1
    <2>9. r.total_bytes = PartOf(Size, R) BY <1>10
    <2>10. r.total_bytes + Size[z] > MaxBytes
      <3>1. \A x \in E : Size[x] \in Nat BY <1>3, SizeType
      <3>2. PartOf(Size, R) \in Nat
        <4>1. R \in SUBSET E OBVIOUS
        <4> HIDE DEF R, E
        <4> QED BY ONLY <1>4, <3>1, <4>1, PartOfFacts
      <3>3. Size[z] \in Nat BY <2>2, <3>1
      <3>4. Size[z] + PartOf(Size, R) > MaxBytes BY <2>6, <2>7, <2>8
      <3> HIDE DEF z, R
      <3> QED BY <2>9, <3>2, <3>3, <3>4
    <2>11. ASSUME NEW x \in away, x # z PROVE Ahead(s, x, z)
      <3>1. PICK i \in 1 .. n : s[i] = x OBVIOUS
      <3>2. i \in 1 .. n - 1 BY <2>4, <2>11, <3>1
      <3> QED BY <1>4, <2>1, <2>3, <3>1, <3>2 DEF Ahead
    <2> QED BY <2>2, <2>10, <2>11
  <1>14. DOMAIN r.entries \subseteq E /\ p \in DOMAIN r.entries BY <1>8, <1>10
  <1> HIDE DEF away
  <1> QED BY <1>10, <1>11, <1>12, <1>13, <1>14

\* A use puts a file last in lru and in the order of uses alike.
LEMMA UseOrder ==
    ASSUME CacheInv, NEW p \in Paths, NEW r, r = Append(Without(recency, p), p)
    PROVE  /\ r \in Seq(Paths) /\ IsInjective(r) /\ Range(r) = Range(recency) \union {p}
           /\ Lists(Touched(p), Cached \union {p})
           /\ \A x, y : Ahead(Touched(p), x, y) => Ahead(r, x, y) /\ x # p
  <1>1. /\ Cached \subseteq Paths /\ lru \in Seq(Cached) /\ IsInjective(lru) /\ Range(lru) = Cached
        /\ recency \in Seq(Paths) /\ IsInjective(recency) /\ Cached \subseteq Range(recency)
        /\ \A x, y \in Cached : Ahead(lru, x, y) => Ahead(recency, x, y)
    BY DEF CacheInv, Accounted, Cache, Lists, Cached
  <1>2. /\ r \in Seq(Paths) /\ IsInjective(r) /\ Range(r) = Range(recency) \union {p}
        /\ \A x, y : Ahead(r, x, y) <=> \/ Ahead(recency, x, y) /\ x # p /\ y # p
                                        \/ x \in Range(recency) /\ x # p /\ y = p
    BY <1>1, LastFacts
  <1>3. lru \in Seq(Cached \union {p}) /\ p \in Cached \union {p} BY <1>1
  <1>4. /\ Touched(p) \in Seq(Cached \union {p}) /\ IsInjective(Touched(p))
        /\ Range(Touched(p)) = Range(lru) \union {p}
        /\ \A x, y : Ahead(Touched(p), x, y) <=> \/ Ahead(lru, x, y) /\ x # p /\ y # p
                                                 \/ x \in Range(lru) /\ x # p /\ y = p
    BY <1>1, <1>3, LastFacts DEF Touched
  <1>5. Lists(Touched(p), Cached \union {p}) BY <1>1, <1>4 DEF Lists
  <1>6. ASSUME NEW x, NEW y, Ahead(Touched(p), x, y) PROVE Ahead(r, x, y) /\ x # p
    <2>1. CASE Ahead(lru, x, y) /\ x # p /\ y # p
      <3>1. x \in Cached /\ y \in Cached BY <1>1, <2>1 DEF Ahead, Range
      <3> QED BY <1>1, <1>2, <2>1, <3>1
    <2>2. CASE x \in Range(lru) /\ x # p /\ y = p BY <1>1, <1>2, <2>2
    <2> QED BY <1>4, <1>6, <2>1, <2>2
  <1> QED BY <1>2, <1>5, <1>6

\* The cache after a read that has changed it.
LEMMA CacheUsed ==
    ASSUME CacheInv, NEW p \in Paths, Used(p),
           NEW c, c.entries = entries', c.lru = lru', c.total_bytes = total_bytes',
           Accounted(c), total_bytes' <= MaxBytes, DOMAIN entries' \subseteq Cached \union {p},
           \A x, y : Ahead(lru', x, y) => Ahead(Touched(p), x, y)
    PROVE  CacheInv'
  <1>1. recency' = Append(Without(recency, p), p) BY DEF Used
  <1>2. /\ recency' \in Seq(Paths) /\ IsInjective(recency')
        /\ Range(recency') = Range(recency) \union {p}
        /\ \A x, y : Ahead(Touched(p), x, y) => Ahead(recency', x, y)
    BY <1>1, UseOrder
  <1>3. Cached \subseteq Range(recency) BY DEF CacheInv
  <1>4. DOMAIN entries' \subseteq Range(recency') BY <1>2, <1>3
  <1>5. Accounted(Cache)' BY DEF Accounted, Cache
  <1> QED BY <1>2, <1>4, <1>5 DEF CacheInv, Cached

\* A read that finds its body in the cache.
LEMMA CachedUse ==
    ASSUME CacheInv, NEW p \in Paths, NEW from, NEW to, NEW n, ReadCached(p, from, to, n)
    PROVE  CacheInv' /\ entries' = entries
  <1>1. /\ p \in Cached /\ lru' = Touched(p) /\ Used(p)
        /\ entries' = entries /\ total_bytes' = total_bytes
    BY DEF ReadCached
  <1> DEFINE c == [entries |-> entries', lru |-> lru', total_bytes |-> total_bytes']
  <1>2. Lists(Touched(p), Cached) /\ Cached \union {p} = Cached
    <2>1. Cached \union {p} = Cached BY <1>1
    <2>2. Lists(Touched(p), Cached \union {p}) BY UseOrder
    <2> QED BY <2>1, <2>2
  <1>3. Accounted(c) BY <1>1, <1>2 DEF CacheInv, Accounted, Cache, Cached
  <1>4. c.entries = entries' /\ c.lru = lru' /\ c.total_bytes = total_bytes' OBVIOUS
  <1>5. total_bytes' <= MaxBytes /\ DOMAIN entries' \subseteq Cached \union {p}
        /\ \A x, y : Ahead(lru', x, y) => Ahead(Touched(p), x, y)
    BY <1>1 DEF CacheInv, Cached
  <1> HIDE DEF c
  <1> QED BY <1>1, <1>3, <1>4, <1>5, CacheUsed

\* In an order of uses without repetition the last use of a file is its only place.
LEMMA LastUseFacts ==
    ASSUME recency' \in Seq(Paths), IsInjective(recency')
    PROVE  /\ \A x, y : Ahead(recency', x, y) => LastUse(x) < LastUse(y)
           /\ \A x \in Range(recency') : LastUse(x) \in Int
  <1>1. DOMAIN recency' = 1 .. Len(recency') /\ Len(recency') \in Nat OBVIOUS
  <1>2. \A i \in DOMAIN recency' : LastUse(recency'[i]) = i BY DEF LastUse, IsInjective
  <1>3. \A x, y : Ahead(recency', x, y) => LastUse(x) < LastUse(y) BY <1>2 DEF Ahead
  <1>4. \A x \in Range(recency') : LastUse(x) \in Int BY <1>1, <1>2 DEF Range
  <1> QED BY <1>3, <1>4

\* A read that decodes the file and may put it into the cache.
LEMMA FileUse ==
    ASSUME ReaderInv, CacheInv, NEW p \in Paths, NEW from, NEW to, NEW n, ReadFile(p, from, to, n)
    PROVE  CacheInv' /\ Evicts
  <1> DEFINE h == Header(disk[p])
             seg == Segment(h, disk[p].payload.body.records)
             c == Inserted(p, seg)
             r == Shrunk(c)
  <1>1. h.size = Size[p] BY ChecksMeasure DEF ReadFile, ReaderInv, DiskInv
  <1>2. seg.size_bytes = Size[p] BY <1>1 DEF Segment
  <1>3. p \notin Cached BY DEF ReadFile, Missed
  <1>4. \/ UNCHANGED cacheVars
        \/ /\ Cacheable(h) /\ entries' = r.entries /\ lru' = r.lru
           /\ total_bytes' = r.total_bytes /\ Used(p)
    BY DEF ReadFile
  <1> HIDE DEF h, seg
  <1>5. CASE UNCHANGED cacheVars
    <2>1. UNCHANGED <<entries, lru, total_bytes, recency>> BY <1>5 DEF cacheVars
    <2>2. CacheInv' BY <2>1 DEF CacheInv, Accounted, Cache, Cached
    <2>3. Evicts BY <2>1 DEF Evicts, Cached
    <2> QED BY <2>2, <2>3
  <1>6. CASE /\ Cacheable(h) /\ entries' = r.entries /\ lru' = r.lru
             /\ total_bytes' = r.total_bytes /\ Used(p)
    <2>1. Size[p] <= MaxBytes BY <1>1, <1>6 DEF Cacheable
    <2>2. /\ Accounted(c) /\ DOMAIN c.entries = Cached \union {p} /\ c.lru = Touched(p)
      BY <1>2, <1>3, InsertedFacts
    <2> HIDE DEF c
    <2>3. recency' = Append(Without(recency, p), p) BY <1>6 DEF Used
    <2>4. /\ recency' \in Seq(Paths) /\ IsInjective(recency')
          /\ Range(recency') = Range(recency) \union {p}
          /\ \A x, y : Ahead(c.lru, x, y) => Ahead(recency', x, y) /\ x # p
      <3>1. /\ recency' \in Seq(Paths) /\ IsInjective(recency')
            /\ Range(recency') = Range(recency) \union {p}
            /\ \A x, y : Ahead(Touched(p), x, y) => Ahead(recency', x, y) /\ x # p
        BY ONLY CacheInv, p \in Paths, <2>3, UseOrder
      <3> QED BY <2>2, <3>1
    <2> DEFINE out == DOMAIN c.entries \ DOMAIN r.entries
    <2>5. p \in DOMAIN c.entries /\ \A x : ~Ahead(c.lru, p, x) BY <2>2, <2>4
    <2> HIDE DEF r, out
    <2>6. r = Shrunk(c) /\ out = DOMAIN c.entries \ DOMAIN r.entries BY DEF r, out
    <2>7. /\ Accounted(r) /\ r.total_bytes <= MaxBytes
          /\ DOMAIN r.entries \subseteq DOMAIN c.entries /\ p \in DOMAIN r.entries
          /\ \A x, y : Ahead(r.lru, x, y) => Ahead(c.lru, x, y)
          /\ \A x \in out, y \in DOMAIN r.entries : Ahead(c.lru, x, y)
          /\ out # {} => \E z \in out : /\ r.total_bytes + Size[z] > MaxBytes
                                        /\ \A x \in out : x = z \/ Ahead(c.lru, x, z)
      BY ONLY <2>1, <2>2, <2>5, <2>6, RoomMade
    <2>8. CacheInv' BY <1>6, <2>2, <2>7, CacheUsed
    <2>9. out = Cached \ DOMAIN entries'
      <3>1. out = DOMAIN c.entries \ DOMAIN entries' BY <1>6, <2>6
      <3>2. p \in DOMAIN entries' BY <1>6, <2>7
      <3> QED BY <2>2, <3>1, <3>2
    <2>10. /\ \A x, y : Ahead(recency', x, y) => LastUse(x) < LastUse(y)
           /\ \A x \in Range(recency') : LastUse(x) \in Int
      BY <2>4, LastUseFacts
    <2>11. \A x \in out, y \in DOMAIN entries' : LastUse(x) < LastUse(y)
      BY <1>6, <2>4, <2>7, <2>10
    <2>12. ASSUME out # {}
           PROVE  total_bytes' + entries[CHOOSE x \in out :
                      \A y \in out : LastUse(y) <= LastUse(x)].size_bytes > MaxBytes
      <3>1. PICK z \in out : /\ r.total_bytes + Size[z] > MaxBytes
                             /\ \A x \in out : x = z \/ Ahead(c.lru, x, z)
        BY <2>7, <2>12
      <3>2. \A x \in out : LastUse(x) \in Int
        <4>1. Cached \subseteq Range(recency) BY DEF CacheInv
        <4> QED BY <2>4, <2>9, <2>10, <4>1
      <3>3. \A x \in out : x = z \/ LastUse(x) < LastUse(z) BY <2>4, <2>10, <3>1
      <3>4. \A x \in out : LastUse(x) <= LastUse(z) BY <3>2, <3>3
      <3>5. \A x \in out : (\A y \in out : LastUse(y) <= LastUse(x)) => x = z
        <4> TAKE x \in out
        <4>1. LastUse(z) <= LastUse(x) => ~(LastUse(x) < LastUse(z)) BY <3>2
        <4> QED BY <3>3, <4>1
      <3>6. (CHOOSE x \in out : \A y \in out : LastUse(y) <= LastUse(x)) = z
        BY ONLY <3>4, <3>5
      <3>7. entries[z].size_bytes = Size[z]
        <4>1. z \in Cached BY <2>9
        <4> QED BY <4>1 DEF CacheInv, Accounted, Cache, Cached
      <3>8. total_bytes' + entries[z].size_bytes > MaxBytes BY <1>6, <3>1, <3>7
      <3> QED BY <3>6, <3>8
    <2>13. Evicts BY <2>9, <2>11, <2>12 DEF Evicts
    <2> QED BY <2>8, <2>13
  <1> QED BY <1>4, <1>5, <1>6

\* Every step keeps the accounts of the cache.
LEMMA NextCache == ASSUME ReaderInv, CacheInv, [Next]_vars PROVE CacheInv' /\ Evicts
  <1>1. ASSUME UNCHANGED cacheVars PROVE CacheInv' /\ Evicts
    <2>1. UNCHANGED <<entries, lru, total_bytes, recency>> BY <1>1 DEF cacheVars
    <2>2. CacheInv' BY <2>1 DEF CacheInv, Accounted, Cache, Cached
    <2>3. Evicts BY <2>1 DEF Evicts, Cached
    <2> QED BY <2>2, <2>3
  <1>2. CASE BeginRead
    <2>1. PICK p \in Paths, from \in Timestamps, to \in Timestamps :
              \/ ReadNothing(p, from, to)
              \/ \E n \in Limits : \/ ReadCached(p, from, to, n)
                                   \/ ReadSkipped(p, from, to, n)
                                   \/ ReadCorrupt(p, from, to, n)
                                   \/ ReadFile(p, from, to, n)
      BY <1>2 DEF BeginRead
    <2>2. CASE \E n \in Limits : ReadCached(p, from, to, n)
      <3>1. CacheInv' /\ entries' = entries BY <2>2, CachedUse
      <3> QED BY <3>1 DEF Evicts, Cached
    <2>3. CASE \E n \in Limits : ReadFile(p, from, to, n) BY <2>3, FileUse
    <2>4. CASE \/ ReadNothing(p, from, to)
               \/ \E n \in Limits : ReadSkipped(p, from, to, n) \/ ReadCorrupt(p, from, to, n)
      BY <1>1, <2>4 DEF ReadNothing, ReadSkipped, ReadCorrupt
    <2> QED BY <2>1, <2>2, <2>3, <2>4
  <1>3. CASE Searching
    BY <1>1, <1>3 DEF Searching, Halve, LowerFound, UpperFound
  <1>4. CASE \E p \in Fragile : Damage(p) BY <1>1, <1>4 DEF Damage
  <1>5. CASE UNCHANGED vars BY <1>1, <1>5 DEF vars
  <1> QED BY <1>2, <1>3, <1>4, <1>5 DEF Next

\* It is empty at first.
LEMMA InitCache == ASSUME Init PROVE CacheInv
  <1>1. /\ entries = << >> /\ lru = << >> /\ total_bytes = 0 /\ recency = << >>
        /\ Cached = {} /\ DOMAIN entries = {}
    BY DEF Init, Cached
  <1>2. /\ Range(<< >>) = {} /\ IsInjective(<< >>) /\ << >> \in Seq({}) /\ << >> \in Seq(Paths)
    BY DEF Range, IsInjective
  <1>3. PartOf(Size, {}) = 0
    <2> DEFINE O == {}
    <2>1. IsFiniteSet(O) /\ O \in SUBSET O /\ \A x \in O : Size[x] \in Nat BY FS_EmptySet
    <2> HIDE DEF O
    <2> QED BY <2>1, PartOfFacts DEF O
  <1>4. Accounted(Cache) BY <1>1, <1>2, <1>3 DEF Accounted, Cache, Lists
  <1>5. 0 <= MaxBytes BY ReaderAssumption
  <1> QED BY <1>1, <1>2, <1>4, <1>5 DEF CacheInv

\* The accounts of the cache are right in every state.
THEOREM CacheInvariant == Spec => []CacheInv
  BY InitReader, NextReader, InitCache, NextCache, PTL DEF Spec

\* What the cache holds is what total_bytes says, at most max_bytes, and lru lists it.
THEOREM CacheAccounted == Spec => []CacheAccounting
  <1>1. CacheInv => CacheAccounting
    <2> SUFFICES ASSUME CacheInv PROVE CacheAccounting OBVIOUS
    <2>1. /\ Cached \subseteq Paths /\ \A p \in Cached : entries[p].size_bytes = Size[p]
          /\ Lists(lru, Cached) /\ total_bytes = PartOf(Size, Cached) /\ total_bytes <= MaxBytes
      BY DEF CacheInv, Accounted, Cache, Cached
    <2>2. IsFiniteSet(Cached) /\ Cardinality(Cached) = Len(lru) BY <2>1, ListedFacts
    <2>3. EntryBytes(entries, Cached) = total_bytes BY <2>1, <2>2, EntrySum
    <2>4. Range(lru) = Cached BY <2>1 DEF Lists
    <2> QED BY <2>1, <2>2, <2>3, <2>4 DEF CacheAccounting, EntryBytes
  <1> QED BY CacheInvariant, <1>1, PTL

\* Only the least recently used bodies are evicted, and no more than necessary.
THEOREM LeastRecentEvicted == Spec => LruEviction
  <1>1. ReaderInv /\ CacheInv /\ [Next]_vars => [Evicts]_vars BY NextCache
  <1> QED BY <1>1, ReaderInvariant, CacheInvariant, PTL DEF Spec, LruEviction

-----------------------------------------------------------------------------
(* What is corrupt.                                                        *)

\* Only a file that was changed, or a body that is too large, is answered as corrupt.
AnswerInv ==
    /\ \A p \in Paths : disk[p].payload.body.records \in Seq(Int)
    /\ reply \in {"rows", "corrupt"}
    /\ reply = "corrupt" => disk[path] # Original(path) \/ Size[path] > MaxBodyBytes

\* A file that nothing has happened to passes every check but that of its size.
LEMMA OriginalValid ==
    ASSUME NEW p \in Paths
    PROVE  /\ Original(p).payload.body.records \in Seq(Int)
           /\ HeaderValid(Original(p))
           /\ Size[p] <= MaxBodyBytes => BodyValid(Original(p))
  <1> DEFINE o == Original(p)
             n == Len(Body[p])
             w == RecordSize(Type[p])
  <1>1. Body[p] \in Seq(Int) /\ Type[p] \in FormatTypes /\ Codec[p] \in Codecs
    BY ReaderAssumption
  <1>2. /\ o.complete /\ o.magic /\ o.version \in {1, 2} /\ o.series_type = Type[p]
        /\ o.count = n /\ o.crc = BodyOf(Type[p], Body[p]) /\ o.payload.body = o.crc
        /\ o.version = 2 => o.codec = Codec[p] /\ o.size = n * w /\ o.payload.codec = o.codec
        /\ o.version = 1 => o.payload.codec = "none"
    BY DEF Original, Encoded, Legacy, BodyOf
  <1>3. BodyOf(Type[p], Body[p]).bytes = n * w /\ BodyOf(Type[p], Body[p]).records = Body[p]
        /\ Size[p] = n * w
    BY DEF BodyOf, Size
  <1> HIDE DEF o, n, w
  <1>4. HeaderValid(o) BY <1>1, <1>2 DEF HeaderValid, w
  <1>5. Header(o).size = n * w /\ Header(o).compression = o.payload.codec
    BY <1>2 DEF Header, w
  <1>6. Size[p] <= MaxBodyBytes => BodyValid(o) BY <1>2, <1>3, <1>5 DEF BodyValid
  <1> QED BY <1>1, <1>2, <1>3, <1>4, <1>6 DEF o

\* Damage leaves numbers for timestamps.
LEMMA DamagedRecords ==
    ASSUME NEW o, o.payload.body.records \in Seq(Int), NEW f \in Damaged(o),
           DOMAIN o = {"complete", "magic", "version", "codec", "series_type", "min_ts_ms",
                       "max_ts_ms", "count", "size", "crc", "payload"},
           DOMAIN o.payload = {"codec", "body"}, DOMAIN o.payload.body = {"records", "bytes"}
    PROVE  f.payload.body.records \in Seq(Int)
  <1>1. CASE f.payload = o.payload BY <1>1
  <1>2. CASE f = [o EXCEPT !.payload.codec = "unknown"] BY <1>2
  <1>3. ASSUME NEW d \in {-1, 1}, f = [o EXCEPT !.payload.body.bytes = @ + d]
        PROVE  f.payload.body.records \in Seq(Int)
    BY <1>3
  <1>4. CASE f = [o EXCEPT !.payload.body.records = [i \in DOMAIN @ |-> @[i] + 1]]
    <2> DEFINE s == o.payload.body.records
               t == [i \in DOMAIN s |-> s[i] + 1]
    <2>1. f.payload.body.records = t BY <1>4
    <2>2. t \in Seq(Int)
      <3>1. Len(s) \in Nat /\ DOMAIN s = 1 .. Len(s) /\ \A i \in 1 .. Len(s) : s[i] + 1 \in Int
        OBVIOUS
      <3>2. t \in [1 .. Len(s) -> Int] BY <3>1
      <3> HIDE DEF t
      <3> QED BY <3>1, <3>2
    <2> QED BY <2>1, <2>2
  <1>5. ASSUME NEW x, \/ f = [o EXCEPT !.complete = x] \/ f = [o EXCEPT !.magic = x]
                      \/ f = [o EXCEPT !.crc = x] \/ f = [o EXCEPT !.version = x]
                      \/ f = [o EXCEPT !.codec = x] \/ f = [o EXCEPT !.series_type = x]
                      \/ f = [o EXCEPT !.min_ts_ms = x] \/ f = [o EXCEPT !.max_ts_ms = x]
                      \/ f = [o EXCEPT !.count = x] \/ f = [o EXCEPT !.size = x]
        PROVE  f.payload.body.records \in Seq(Int)
    <2>1. f.payload = o.payload BY <1>5
    <2> QED BY <2>1
  <1> QED BY <1>2, <1>3, <1>4, <1>5 DEF Damaged

\* At first every file is as it was written, and no answer has been given.
LEMMA InitAnswers == ASSUME Init PROVE AnswerInv
  BY OriginalValid DEF Init, AnswerInv

\* Every step keeps this.
LEMMA NextAnswers == ASSUME ReaderInv, AnswerInv, [Next]_vars PROVE AnswerInv'
  <1>1. CASE BeginRead
    <2>1. PICK p \in Paths, from \in Timestamps, to \in Timestamps :
              \/ ReadNothing(p, from, to)
              \/ \E n \in Limits : \/ ReadCached(p, from, to, n)
                                   \/ ReadSkipped(p, from, to, n)
                                   \/ ReadCorrupt(p, from, to, n)
                                   \/ ReadFile(p, from, to, n)
      BY <1>1 DEF BeginRead
    <2>2. CASE \E n \in Limits : ReadCorrupt(p, from, to, n)
      <3>1. PICK n \in Limits : ReadCorrupt(p, from, to, n) BY <2>2
      <3>2. /\ disk' = disk /\ path' = p /\ reply' = "corrupt"
            /\ ~HeaderValid(disk[p]) \/ ~BodyValid(disk[p])
        BY <3>1 DEF ReadCorrupt, Missed, Request, Answer, diskVars
      <3>3. disk[p] = Original(p) => ~(Size[p] <= MaxBodyBytes) BY <3>2, OriginalValid
      <3>4. Size[p] \in Nat /\ MaxBodyBytes \in Nat BY SizeType, FormatAssumption
      <3>5. disk[p] # Original(p) \/ Size[p] > MaxBodyBytes BY <3>3, <3>4
      <3> QED BY <3>2, <3>5 DEF AnswerInv
    <2>3. CASE \/ ReadNothing(p, from, to)
               \/ \E n \in Limits : \/ ReadCached(p, from, to, n)
                                    \/ ReadSkipped(p, from, to, n)
                                    \/ ReadFile(p, from, to, n)
      <3>1. disk' = disk /\ reply' = "rows"
        BY <2>3 DEF ReadNothing, ReadCached, ReadSkipped, ReadFile, Missed, Request, Search,
                    Answer, diskVars
      <3> QED BY <3>1 DEF AnswerInv
    <2> QED BY <2>1, <2>2, <2>3
  <1>2. CASE Searching
    <2>1. UNCHANGED <<disk, path, reply>>
      BY <1>2 DEF Searching, Halve, LowerFound, UpperFound, diskVars, request
    <2> QED BY <2>1 DEF AnswerInv
  <1>3. CASE \E p \in Fragile : Damage(p)
    <2>1. PICK p \in Fragile : Damage(p) BY <1>3
    <2>2. PICK f \in Damaged(disk[p]) : disk' = [disk EXCEPT ![p] = f] BY <2>1 DEF Damage
    <2>3. p \in Paths /\ damages = 0 BY <2>1, ReaderAssumption DEF Damage, ReaderInv, DiskInv
    <2>4. disk = [q \in Paths |-> Original(q)] BY <2>3 DEF ReaderInv, DiskInv
    <2>5. disk[p] = Original(p) BY <2>3, <2>4
    <2>6. /\ DOMAIN disk[p] = {"complete", "magic", "version", "codec", "series_type",
                               "min_ts_ms", "max_ts_ms", "count", "size", "crc", "payload"}
          /\ DOMAIN disk[p].payload = {"codec", "body"}
          /\ DOMAIN disk[p].payload.body = {"records", "bytes"}
      BY <2>5 DEF Original, Encoded, Legacy, BodyOf
    <2>7. f.payload.body.records \in Seq(Int) BY <2>2, <2>3, <2>6, DamagedRecords DEF AnswerInv
    <2>8. \A q \in Paths : disk'[q].payload.body.records \in Seq(Int)
      BY <2>2, <2>4, <2>7 DEF AnswerInv
    <2>9. path' = path /\ reply' = reply /\ path \in Paths
      BY <2>1 DEF Damage, request, ReaderInv, SearchInv, WithinBody
    <2>10. reply = "corrupt" => Size[path] > MaxBodyBytes
      BY <2>4, <2>9 DEF AnswerInv
    <2> QED BY <2>8, <2>9, <2>10 DEF AnswerInv
  <1>4. CASE UNCHANGED vars BY <1>4 DEF vars, diskVars, request, AnswerInv
  <1> QED BY <1>1, <1>2, <1>3, <1>4 DEF Next

\* The reasons of an error are right in every state.
THEOREM AnswerInvariant == Spec => []AnswerInv
  BY InitReader, NextReader, InitAnswers, NextAnswers, PTL DEF Spec

\* A segment that nobody has damaged can be read, unless its body is too large.
THEOREM IntactRead == Spec => IntactReadable
  <1>1. ReaderInv' /\ AnswerInv' => RefusesForCause
    BY DEF AnswerInv, Size, ReaderInv, SearchInv, WithinBody, RefusesForCause
  <1> QED BY <1>1, ReaderInvariant, AnswerInvariant, PTL DEF IntactReadable

\* Every variable of the reader has its type, and no search leaves its body.
THEOREM ReaderTypes == Spec => []TypeOK
  <1>1. ReaderInv /\ CacheInv /\ AnswerInv => TypeOK
    <2> SUFFICES ASSUME ReaderInv, CacheInv, AnswerInv PROVE TypeOK OBVIOUS
    <2>1. Cached \subseteq Paths /\ Lists(lru, Cached) /\ total_bytes = PartOf(Size, Cached)
          /\ recency \in Seq(Paths)
      BY DEF CacheInv, Accounted, Cache, Cached
    <2>2. IsFiniteSet(Cached) BY <2>1, ListedFacts
    <2>3. \A x \in Cached : Size[x] \in Nat BY <2>1, SizeType
    <2>4. total_bytes \in Nat BY <2>1, <2>2, <2>3, PartOfFacts
    <2>5. lru \in Seq(Paths) BY <2>1 DEF Lists
    <2> QED BY <2>1, <2>4, <2>5 DEF TypeOK, ReaderInv, DiskInv, SearchInv, WithinBody, AnswerInv
  <1> QED BY <1>1, ReaderInvariant, CacheInvariant, AnswerInvariant, PTL

=============================================================================
