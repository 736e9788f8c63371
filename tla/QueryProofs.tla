----------------------------- MODULE QueryProofs -----------------------------
(***************************************************************************)
(* What a range query finds while flushes, evictions and other queries run *)
(* between its steps.                                                      *)
(***************************************************************************)
EXTENDS EngineQuery, ManifestProofs

-----------------------------------------------------------------------------
(* The readers' invariant.                                                 *)

\* A sequence has the elements of S, each of them once.
Lists(o, S) ==
    /\ o \in Seq(S) /\ ToSet(o) = S
    /\ \A i, j \in 1 .. Len(o) : o[i] = o[j] => i = j
OrderOK == \A s \in Series : Lists(order[s], SegmentsOf(manifest[s]))

\* An id that is given out and that no flush will write.
Settled(s, id) ==
    /\ manifest[s] # None /\ id < manifest[s].next_segment_id
    /\ \A a \in Actors : Owned(a, s) => NextId(a, s) # id

CacheType == [data_id : Series, segment_id : Nat, samples : SUBSET BufferedSample]
CacheOK ==
    /\ cache \subseteq CacheType /\ CacheHonest
    /\ \A c \in cache : Lone(c.samples) /\ Settled(c.data_id, c.segment_id)

ReaderRecord ==
    [pc : {"idle", "read", "memory"}, query : Queries \union {None}, todo : Seq(SegmentMeta),
     rows : Seq(BufferedSample), ok : BOOLEAN, begun : Nat, hidden : SUBSET BufferedSample]
ReaderType(r) ==
    /\ r \in ReaderRecord
    /\ r.pc # "idle" => r.query \in Queries
    /\ r.begun <= clock
    /\ r.pc # "read" => r.todo = << >>
    /\ \A m \in ToSet(r.todo) : Settled(r.query.data_id, m.segment_id)
ReadersOK ==
    /\ cache_holder \in Readers \union {None}
    /\ DOMAIN reader = Readers /\ \A r \in Readers : ReaderType(reader[r])
    /\ status = "down" => cache = {} /\ \A r \in Readers : reader[r].pc = "idle"
QueryInv == OrderOK /\ CacheOK /\ ReadersOK

\* What a query has found, and where the samples are that it may find still; no write
\* that was accepted before it began is missed in both.
Covers(S, x) == \E y \in S : y.timestamp_ms = x.timestamp_ms /\ y.seq_no >= x.seq_no
Ahead(r) ==
    UNION {f.samples : f \in {g \in files :
        g.data_id = r.query.data_id /\ \E m \in ToSet(r.todo) : m.segment_id = g.segment_id}}
Told(r) == ToSet(r.rows) \union r.hidden \union Gone(r.query.data_id)
Seen(r) == Told(r) \union memtable[r.query.data_id] \union Ahead(r)
Complete(r, S) ==
    \A x \in accepted[r.query.data_id] :
        Asked(r.query, x) /\ x.seq_no <= r.begun => Covers(S, x)
NoneMissed(r) ==
    /\ r.pc # "idle" => Complete(r, Seen(r))
    /\ r.pc = "idle" /\ r.query # None /\ r.ok => Complete(r, Told(r))
NothingMissed == \A r \in Readers : NoneMissed(reader[r])

-----------------------------------------------------------------------------
(* The samples that queries look for, and the segments they know of.      *)

\* What leaves a memtable is held by a flush, or a later write of its timestamp is.
LEMMA MemoryLeaves ==
    ASSUME StorageInv, StorageInv', MemoryOK, [Next]_vars, status' # "down",
           NEW s \in Series, NEW y \in memtable[s]
    PROVE  \E z \in memtable'[s] \union Unregistered(task', s) :
               z.timestamp_ms = y.timestamp_ms /\ z.seq_no >= y.seq_no
  <1> DEFINE Goal == \E z \in memtable'[s] \union Unregistered(task', s) :
                         z.timestamp_ms = y.timestamp_ms /\ z.seq_no >= y.seq_no
  <1>1. /\ memtable \in [Series -> SUBSET BufferedSample] /\ y \in BufferedSample
        /\ y.seq_no \in Nat /\ clock \in Nat /\ memtable[s] \in SUBSET BufferedSample
    BY DEF StorageInv, TypeOK, BufferedSample
  <1>2. ASSUME y \in memtable'[s] PROVE Goal BY <1>1, <1>2
  <1>3. ASSUME NEW t \in Tasks, NEW x \in Series, Prepare(t, x) PROVE Goal
    <2>1. t \in Actors BY DEF Actors
    <2>2. /\ memtable' = [memtable EXCEPT ![x] = {}]
          /\ LastWrites(memtable[x]) # {} =>
                 /\ task'[t].pc \in {"prepare", "alloc"}
                 /\ task'[t].pending[x].samples = LastWrites(memtable[x])
      BY <1>3, PrepareShape
    <2>3. CASE x # s BY <1>1, <1>2, <2>2, <2>3
    <2>4. CASE x = s
      <3>1. \A z \in memtable[s] : z.seq_no <= clock BY DEF MemoryOK
      <3>2. PICK z \in LastWrites(memtable[s]) :
                     z.timestamp_ms = y.timestamp_ms /\ z.seq_no >= y.seq_no
        BY <1>1, <3>1, LastWriteStays
      <3>3. z \in Unregistered(task', s)
        BY <2>2, <2>4, <3>2, Places DEF Unregistered, FlushPCs
      <3> QED BY <3>2, <3>3
    <2> QED BY <2>3, <2>4
  <1>4. ASSUME NEW t \in Tasks, NEW x \in Series, AppendGroup(t, x) PROVE y \in memtable'[s]
    <2>1. \E new : memtable' = [memtable EXCEPT ![x] = @ \union new] BY <1>4 DEF AppendGroup
    <2> QED BY <1>1, <2>1
  <1>5. ASSUME NEW x \in Series, NEW type \in SeriesTypes, NEW limit \in Limits, NEW ok \in BOOLEAN,
               Register(x, type, limit, ok)
        PROVE  y \in memtable'[s]
    <2>1. x # s BY <1>5 DEF Register, CanRegister, StorageInv, SeriesOK
    <2>2. memtable' \in {memtable, [memtable EXCEPT ![x] = {}]} BY <1>5 DEF Register
    <2> QED BY <1>1, <2>1, <2>2
  <1>6. ASSUME UNCHANGED memtable PROVE y \in memtable'[s] BY <1>6
  <1>7. status # "down" BY DEF MemoryOK
  <1> HIDE DEF Goal
  <1>8. ASSUME NEW t \in Tasks, AppendStep(t) \/ FlushStep(t) PROVE Goal
    BY <1>2, <1>3, <1>4, <1>6, <1>8, Zenon
    DEF AppendStep, FlushStep, Alloc, Commit, Mkdir, CreateTmp, CreateTmpNoDir, WriteFails,
        Rename, Advance, memory
  <1>9. ASSUME NEW a \in Actors, EvictStep(a) \/ EvictError(a) PROVE Goal
    BY <1>2, <1>6, <1>9, Zenon
    DEF EvictStep, EvictError, EvictChoose, EvictDone, EvictRemove, DirCheck, Rmdir, EvictUpdate,
        EvictRemoveFails, DirCheckFails, memory
  <1>10. ASSUME Client PROVE Goal BY <1>2, <1>5, <1>6, <1>10, Zenon
    DEF Client, BeginAppend, BeginFlush, memory
  <1>11. ASSUME Open \/ Crash \/ LoseManifest \/ \E g \in files : HeaderUnreadable(g)
         PROVE Goal
    BY <1>7, <1>11 DEF Open, Crash, LoseManifest, HeaderUnreadable
  <1>12. ASSUME UNCHANGED vars PROVE Goal BY <1>2, <1>6, <1>12 DEF vars, memory
  <1>13. Goal BY <1>8, <1>9, <1>10, <1>11, <1>12 DEF Next, Running, Actors
  <1> QED BY <1>13 DEF Goal

\* A sequence of each element once is as long as there are elements.
LEMMA ListingLength ==
    ASSUME NEW S, NEW o, Lists(o, S)
    PROVE  Len(o) = Cardinality(S) /\ DOMAIN o = 1 .. Len(o)
  <1>1. o \in Seq(S) /\ Len(o) \in Nat /\ DOMAIN o = 1 .. Len(o) /\ o \in [1 .. Len(o) -> S]
    BY DEF Lists
  <1>2. \A x \in S : \E i \in 1 .. Len(o) : o[i] = x BY <1>1 DEF Lists, ToSet
  <1>3. \A i, j \in 1 .. Len(o) : o[i] = o[j] => i = j BY DEF Lists
  <1>4. o \in Bijection(1 .. Len(o), S)
    BY ONLY <1>1, <1>2, <1>3 DEF Bijection, Injection, Surjection, IsInjective
  <1>5. IsFiniteSet(1 .. Len(o)) /\ Cardinality(1 .. Len(o)) = Len(o) BY <1>1, FS_Interval
  <1>6. ExistsBijection(1 .. Len(o), S) BY <1>4 DEF ExistsBijection
  <1>7. Cardinality(S) = Cardinality(1 .. Len(o)) BY <1>5, <1>6, FS_Bijection
  <1> QED BY <1>1, <1>5, <1>7

\* As many different elements as there are are all of them.
LEMMA AllListed ==
    ASSUME NEW S, IsFiniteSet(S), NEW o \in [1 .. Cardinality(S) -> S],
           \A i, j \in 1 .. Cardinality(S) : o[i] = o[j] => i = j
    PROVE  Lists(o, S)
  <1>1. Cardinality(S) \in Nat BY FS_CardinalityType
  <1> DEFINE n == Cardinality(S)
  <1>2. n \in Nat /\ o \in [1 .. n -> S] /\ \A i, j \in 1 .. n : o[i] = o[j] => i = j BY <1>1
  <1>3. IsFiniteSet(1 .. n) /\ Cardinality(1 .. n) = n BY <1>1, FS_Interval
  <1>4. Cardinality(1 .. n) = Cardinality(S) BY <1>3
  <1> HIDE DEF n
  <1>5. o \in Injection(1 .. n, S) BY ONLY <1>2 DEF Injection, IsInjective
  <1>6. o \in Surjection(1 .. n, S) BY <1>4, <1>5, FS_Injection
  <1>7. \A x \in S : \E i \in 1 .. n : o[i] = x BY <1>6 DEF Surjection
  <1>8. o \in Seq(S) /\ Len(o) = n /\ DOMAIN o = 1 .. n BY <1>2
  <1>9. ToSet(o) = S
    <2>1. ToSet(o) = {o[i] : i \in 1 .. n} BY <1>8 DEF ToSet
    <2>2. \A x : x \in S => x \in {o[i] : i \in 1 .. n} BY ONLY <1>2, <1>7
    <2>3. \A x : x \in {o[i] : i \in 1 .. n} => x \in S BY ONLY <1>2
    <2>4. \A x : x \in ToSet(o) <=> x \in S BY ONLY <2>1, <2>2, <2>3
    <2> QED BY ONLY <2>4
  <1> QED BY <1>2, <1>8, <1>9 DEF Lists

\* The sequences of a set.
LEMMA SetSequences ==
    ASSUME NEW S, IsFiniteSet(S)
    PROVE  Lists(SetToSeq(S), S) /\ \A o \in SetToSeqs(S) : Lists(o, S)
  <1> DEFINE n == Cardinality(S)
  <1>1. n \in Nat /\ ExistsBijection(1 .. n, S) BY FS_CardinalityType
  <1>2. \E f \in [1 .. n -> S] : IsInjective(f)
    BY <1>1 DEF ExistsBijection, Bijection, Injection, IsInjective
  <1>3. SetToSeq(S) \in [1 .. n -> S] /\ IsInjective(SetToSeq(S)) BY <1>2 DEF SetToSeq
  <1>4. \A i, j \in 1 .. n : SetToSeq(S)[i] = SetToSeq(S)[j] => i = j BY <1>3 DEF IsInjective
  <1>5. Lists(SetToSeq(S), S) BY <1>3, <1>4, AllListed
  <1>6. ASSUME NEW o \in SetToSeqs(S) PROVE Lists(o, S)
    <2>1. o \in [1 .. n -> S] /\ \A i, j \in 1 .. n : i # j => o[i] # o[j] BY DEF SetToSeqs
    <2>2. \A i, j \in 1 .. n : o[i] = o[j] => i = j BY <2>1
    <2> QED BY <2>1, <2>2, AllListed
  <1> QED BY <1>5, <1>6

\* The elements that are retained.
LEMMA RetainedSet ==
    ASSUME NEW P, NEW o \in Seq(P), NEW T
    PROVE  \A x : x \in ToSet(Retained(o, T)) <=> x \in ToSet(o) /\ x \in T
  <1> DEFINE k == Retained(o, T)
  <1>1. k \in Seq(P) /\ \E h : Selects(h, k, o, T, Len(o)) BY RetainedFacts
  <1>2. PICK h : Selects(h, k, o, T, Len(o)) BY <1>1
  <1> HIDE DEF k
  <1>3. DOMAIN k = 1 .. Len(k) /\ DOMAIN o = 1 .. Len(o) BY <1>1
  <1>4. h \in [1 .. Len(k) -> 1 .. Len(o)]
        /\ \A i \in 1 .. Len(k) : k[i] = o[h[i]] /\ o[h[i]] \in T
    BY <1>2 DEF Selects
  <1>5. \A l \in 1 .. Len(o) : o[l] \in T => \E i \in 1 .. Len(k) : h[i] = l BY <1>2 DEF Selects
  <1>6. ASSUME NEW x \in ToSet(k) PROVE x \in ToSet(o) /\ x \in T
    <2>1. PICK i \in 1 .. Len(k) : k[i] = x BY <1>3 DEF ToSet
    <2> QED BY <1>3, <1>4, <2>1 DEF ToSet
  <1>7. ASSUME NEW x \in ToSet(o), x \in T PROVE x \in ToSet(k)
    <2>1. PICK l \in 1 .. Len(o) : o[l] = x BY <1>3 DEF ToSet
    <2>2. PICK i \in 1 .. Len(k) : h[i] = l BY <1>5, <1>7, <2>1
    <2> QED BY <1>3, <1>4, <2>1, <2>2 DEF ToSet
  <1> QED BY <1>6, <1>7 DEF k

\* A commit or an eviction leaves each segment in the sequence once.
LEMMA ReorderedLists ==
    ASSUME NEW S, NEW o, Lists(o, S), NEW T, IsFiniteSet(T)
    PROVE  Lists(Reordered(o, T), T)
  <1> DEFINE k == Retained(o, T)
             new == T \ ToSet(o)
             p == SetToSeq(new)
  <1>1. o \in Seq(S) /\ ToSet(o) = S /\ \A i, j \in 1 .. Len(o) : o[i] = o[j] => i = j
        /\ DOMAIN o = 1 .. Len(o) /\ Len(o) \in Nat
    BY DEF Lists
  <1>2. k \in Seq(S) /\ \E h : Selects(h, k, o, T, Len(o)) BY <1>1, RetainedFacts
  <1>3. PICK h : Selects(h, k, o, T, Len(o)) BY <1>2
  <1>4. IsFiniteSet(new) BY FS_Subset
  <1>5. Lists(p, new) BY <1>4, SetSequences
  <1>6. Reordered(o, T) = k \o p BY DEF Reordered
  <1> HIDE DEF k, p, new
  <1>7. Len(k) \in Nat /\ DOMAIN k = 1 .. Len(k) BY <1>2
  <1>8. h \in [1 .. Len(k) -> 1 .. Len(o)] /\ (\A i, j \in 1 .. Len(k) : i < j => h[i] < h[j])
        /\ \A i \in 1 .. Len(k) : k[i] = o[h[i]] /\ o[h[i]] \in T
    BY <1>3 DEF Selects
  <1>9. \A i, j \in 1 .. Len(k) : k[i] = k[j] => i = j
    <2> SUFFICES ASSUME NEW i \in 1 .. Len(k), NEW j \in 1 .. Len(k), k[i] = k[j] PROVE i = j
      OBVIOUS
    <2>1. h[i] = h[j] BY <1>1, <1>8
    <2>2. h[i] \in Nat /\ h[j] \in Nat BY <1>1, <1>8
    <2> QED BY <1>7, <1>8, <2>1, <2>2
  <1>10. \A x : x \in ToSet(k) <=> x \in S /\ x \in T BY <1>1, RetainedSet DEF k
  <1>11. p \in Seq(new) /\ ToSet(p) = new /\ \A i, j \in 1 .. Len(p) : p[i] = p[j] => i = j
         /\ Len(p) \in Nat /\ DOMAIN p = 1 .. Len(p)
    BY <1>5 DEF Lists
  <1>12. \A x : x \in new <=> x \in T /\ x \notin S BY <1>1 DEF new
  <1>13. k \in Seq(T) /\ p \in Seq(T)
    <2>1. \A i \in 1 .. Len(k) : k[i] \in T BY <1>8
    <2>2. \A i \in 1 .. Len(p) : p[i] \in T BY <1>11, <1>12
    <2>3. k \in Seq(T) BY <1>2, <1>7, <2>1
    <2>4. p \in Seq(T) BY <1>11, <2>2
    <2> QED BY <2>3, <2>4
  <1>14. k \o p \in Seq(T) /\ ToSet(k \o p) = ToSet(k) \union ToSet(p) BY <1>13, ConcatFacts
  <1>15. ToSet(k \o p) = T BY <1>10, <1>11, <1>12, <1>14
  <1>16. ASSUME NEW i \in 1 .. Len(k \o p), NEW j \in 1 .. Len(k \o p), (k \o p)[i] = (k \o p)[j]
         PROVE  i = j
    <2>1. Len(k \o p) = Len(k) + Len(p) BY <1>13
    <2>2. \A l \in 1 .. Len(k) : (k \o p)[l] = k[l] /\ k[l] \in S
      BY <1>2, <1>7, <1>13
    <2>3. \A l \in Nat : l > Len(k) /\ l <= Len(k) + Len(p) =>
              /\ l - Len(k) \in 1 .. Len(p) /\ (k \o p)[l] = p[l - Len(k)]
              /\ p[l - Len(k)] \notin S
      BY <1>7, <1>11, <1>12, <1>13
    <2>4. i \in Nat /\ j \in Nat /\ 1 <= i /\ 1 <= j /\ i <= Len(k) + Len(p) /\ j <= Len(k) + Len(p)
      BY <1>7, <1>11, <2>1
    <2>5. CASE i <= Len(k) /\ j <= Len(k)
      <3>1. i \in 1 .. Len(k) /\ j \in 1 .. Len(k) BY <1>7, <2>4, <2>5
      <3> QED BY <1>9, <1>16, <2>2, <3>1
    <2>6. CASE i <= Len(k) /\ j > Len(k)
      <3>1. i \in 1 .. Len(k) BY <1>7, <2>4, <2>6
      <3> QED BY <1>16, <2>2, <2>3, <2>4, <2>6, <3>1
    <2>7. CASE i > Len(k) /\ j <= Len(k)
      <3>1. j \in 1 .. Len(k) BY <1>7, <2>4, <2>7
      <3> QED BY <1>16, <2>2, <2>3, <2>4, <2>7, <3>1
    <2>8. CASE i > Len(k) /\ j > Len(k)
      <3>1. i - Len(k) = j - Len(k) BY <1>11, <1>16, <2>3, <2>4, <2>8
      <3> QED BY <1>7, <2>4, <3>1
    <2> QED BY <1>7, <2>4, <2>5, <2>6, <2>7, <2>8
  <1> QED BY <1>6, <1>14, <1>15, <1>16 DEF Lists

\* The sequence of the segments follows the manifest.
LEMMA NextOrder ==
    ASSUME StorageInv', LedgerInv', OrderOK, OrderFollows
    PROVE  OrderOK'
  <1> SUFFICES ASSUME NEW s \in Series
               PROVE  Lists(order'[s], SegmentsOf(manifest'[s]))
    BY DEF OrderOK
  <1> DEFINE T == SegmentsOf(manifest'[s])
  <1>1. IsFiniteSet(T)
    <2>1. CASE manifest'[s] = None BY <2>1, FS_EmptySet DEF SegmentsOf
    <2>2. CASE manifest'[s] # None
      <3>1. manifest'[s] \in Entries(s)' BY <2>2 DEF Entries
      <3> QED BY <2>2, <3>1 DEF LedgerInv, FiniteDisk, SegmentsOf
    <2> QED BY <2>1, <2>2
  <1>2. CASE status = "down"
    <2>1. order'[s] \in ByTime(T) BY <1>2 DEF OrderFollows
    <2>2. order'[s] \in SetToSeqs(T) BY <2>1 DEF ByTime
    <2> QED BY <1>1, <2>2, SetSequences
  <1>3. CASE status # "down"
    <2>1. order'[s] = Reordered(order[s], T) BY <1>3 DEF OrderFollows
    <2>2. Lists(order[s], SegmentsOf(manifest[s])) BY DEF OrderOK
    <2> HIDE DEF T
    <2>3. Lists(Reordered(order[s], T), T) BY <1>1, <2>2, ReorderedLists
    <2> QED BY <2>1, <2>3 DEF T
  <1> QED BY <1>2, <1>3

\* A running engine forgets no series, and takes no id back.
LEMMA NextIdGrows ==
    ASSUME StorageInv, [Next]_vars, status # "down", status' # "down",
           NEW s \in Series, manifest[s] # None
    PROVE  manifest'[s] # None /\ manifest'[s].next_segment_id >= manifest[s].next_segment_id
  <1> DEFINE Goal == manifest'[s] # None
                     /\ manifest'[s].next_segment_id >= manifest[s].next_segment_id
  <1>1. /\ manifest \in [Series -> SeriesEntry \union {None}] /\ manifest[s] \in SeriesEntry
        /\ manifest[s].next_segment_id \in Nat /\ None \notin SeriesEntry
    BY NoneAssumption DEF StorageInv, TypeOK, SeriesEntry, Manifest
  <1>2. ASSUME manifest'[s] = manifest[s] PROVE Goal BY <1>1, <1>2
  <1>3. ASSUME NEW x \in Series, NEW type \in SeriesTypes, NEW limit \in Limits, NEW ok \in BOOLEAN,
               Register(x, type, limit, ok)
        PROVE  Goal
    <2>1. manifest[x] = None /\ manifest' = [manifest EXCEPT ![x] = NewEntry(type, Clamp(limit))]
      BY <1>3 DEF Register, CanRegister, Save
    <2> QED BY <1>1, <1>2, <2>1
  <1>4. ASSUME NEW t \in Tasks, Alloc(t) PROVE Goal
    <2>1. CASE s \in Pending(task[t])
      <3>1. manifest'[s] = [manifest[s] EXCEPT !.next_segment_id = @ + 1]
        BY <1>1, <1>4, <2>1 DEF Alloc
      <3>2. /\ manifest'[s].next_segment_id = manifest[s].next_segment_id + 1
            /\ manifest'[s] \in SeriesEntry
        BY <1>1, <3>1 DEF SeriesEntry
      <3> QED BY <1>1, <3>2
    <2>2. CASE s \notin Pending(task[t]) BY <1>1, <1>2, <1>4, <2>2 DEF Alloc
    <2> QED BY <2>1, <2>2
  <1>5. ASSUME NEW t \in Tasks, NEW ok \in BOOLEAN, Commit(t, ok) PROVE Goal
    <2>1. CASE s \in Pending(task[t])
      <3>1. manifest'[s] = Registered(manifest[s], task[t].pending[s])
        BY <1>1, <1>5, <2>1 DEF Commit, Save
      <3>2. /\ manifest'[s].next_segment_id = manifest[s].next_segment_id
            /\ manifest[s].segments \subseteq manifest'[s].segments
        BY <1>1, <3>1 DEF Registered, SeriesEntry
      <3>3. task[t].pending[s] \in PendingFlush /\ task[t].pending[s].samples # {}
            /\ Written(task[t].pending[s])
        BY <1>5, <2>1 DEF StorageInv, TypeOK, TaskOK, Task, Pending, Commit, At, Actors
      <3>4. manifest'[s] \in SeriesEntry BY <1>1, <3>1, <3>3, RegisteredType
      <3> QED BY <1>1, <3>2, <3>4
    <2>2. CASE s \notin Pending(task[t]) BY <1>1, <1>2, <1>5, <2>2 DEF Commit, Save
    <2> QED BY <2>1, <2>2
  <1>6. ASSUME NEW a \in Actors, NEW x \in Series, NEW ok \in BOOLEAN, EvictUpdate(a, x, ok)
        PROVE  Goal
    <2>1. manifest' = [manifest EXCEPT ![x] = Dropped(@, task[a].victim)]
      BY <1>6 DEF EvictUpdate, Save
    <2>2. CASE x # s BY <1>1, <1>2, <2>1, <2>2
    <2>3. CASE x = s
      <3>1. manifest'[s] = Dropped(manifest[s], task[a].victim) BY <1>1, <2>1, <2>3
      <3>2. task[a].victim \in Victim BY DEF StorageInv, TypeOK, Task
      <3>3. manifest'[s] \in SeriesEntry BY <1>1, <3>1, <3>2, DroppedType
      <3>4. manifest'[s].next_segment_id = manifest[s].next_segment_id
        BY <1>1, <3>1 DEF Dropped, SeriesEntry
      <3> QED BY <1>1, <3>3, <3>4
    <2> QED BY <2>2, <2>3
  <1>7. ASSUME UNCHANGED manifest PROVE Goal BY <1>2, <1>7
  <1> HIDE DEF Goal
  <1>8. ASSUME NEW t \in Tasks, AppendStep(t) \/ FlushStep(t) PROVE Goal
    BY <1>4, <1>5, <1>7, <1>8, Zenon
    DEF AppendStep, AppendGroup, FlushStep, Prepare, Mkdir, CreateTmp, CreateTmpNoDir, WriteFails,
        Rename, Advance, memory
  <1>9. ASSUME NEW a \in Actors, EvictStep(a) \/ EvictError(a) PROVE Goal
    BY <1>6, <1>7, <1>9, Zenon
    DEF EvictStep, EvictError, EvictChoose, EvictDone, EvictRemove, DirCheck, Rmdir,
        EvictRemoveFails, DirCheckFails, memory
  <1>10. ASSUME Client PROVE Goal BY <1>3, <1>7, <1>10, Zenon
    DEF Client, BeginAppend, BeginFlush, memory
  <1>11. ASSUME Open \/ Crash \/ LoseManifest \/ \E g \in files : HeaderUnreadable(g)
         PROVE Goal
    BY <1>11 DEF Open, Crash, LoseManifest, HeaderUnreadable
  <1>12. ASSUME UNCHANGED vars PROVE Goal BY <1>7, <1>12 DEF vars, memory
  <1>13. Goal BY <1>8, <1>9, <1>10, <1>11, <1>12 DEF Next, Running, Actors
  <1> QED BY <1>13 DEF Goal

\* A flush that owns an id after a step owned it before, or takes the next one.
LEMMA NewOwners ==
    ASSUME StorageInv, StorageInv', [Next]_vars, NEW a \in Actors, NEW s \in Series, Owned(a, s)'
    PROVE  \/ Owned(a, s) /\ NextId(a, s)' = NextId(a, s)
           \/ NextId(a, s)' = manifest[s].next_segment_id
  <1> DEFINE Goal == \/ Owned(a, s) /\ NextId(a, s)' = NextId(a, s)
                     \/ NextId(a, s)' = manifest[s].next_segment_id
  <1>1. task'[a].pc \in OwningPCs /\ s \in Pending(task'[a]) /\ task'[a].pc \notin {"prepare", "alloc"}
    BY Places DEF Owned
  <1>2. ASSUME task'[a] = task[a] PROVE Goal BY <1>2 DEF Owned, NextId
  <1>3. ASSUME Steps(a) PROVE Goal
    <2>1. Shape(task[a], task'[a]) BY <1>3, StepsAlone
    <2>2. CASE Pending(task'[a]) = {} BY <1>1, <2>2
    <2>3. CASE CarriesFlush(task[a], task'[a])
      <3>1. task[a].pc \in OwningPCs BY <1>1, <2>3, Places DEF CarriesFlush
      <3> QED BY <1>1, <2>3, <3>1 DEF CarriesFlush, KeepsFlush, Owned, NextId, Pending
    <2>4. CASE Drains(task[a], task'[a]) BY <1>1, <2>4 DEF Drains
    <2>5. CASE TakesIds(task[a], task'[a]) BY <1>1, <2>5 DEF TakesIds, NextId
    <2> QED BY <2>1, <2>2, <2>3, <2>4, <2>5 DEF Shape
  <1>4. ASSUME NEW b \in Actors, Steps(b) PROVE Goal
    <2>1. CASE b = a BY <1>3, <1>4, <2>1
    <2>2. CASE b # a BY <1>2, <1>4, <2>2, StepsAlone
    <2> QED BY <2>1, <2>2
  <1>5. ASSUME UNCHANGED task PROVE Goal BY <1>2, <1>5
  <1>6. ~Open
    <2>1. ASSUME Open PROVE FALSE
      <3>1. Pending(task'[a]) = {} BY <2>1, OpenTask
      <3> QED BY <1>1, <3>1
    <2> QED BY <2>1
  <1>7. ~Crash
    <2>1. ASSUME Crash PROVE FALSE
      <3>1. task'[a] = IdleTask BY <2>1 DEF Crash
      <3> QED BY <1>1, <3>1, IdleTaskType
    <2> QED BY <2>1
  <1> HIDE DEF Goal
  <1>8. Goal BY <1>4, <1>5, <1>6, <1>7, WhoSteps DEF Register
  <1> QED BY <1>8 DEF Goal

\* What is settled remains so while the engine runs.
LEMMA SettledStays ==
    ASSUME StorageInv, StorageInv', [Next]_vars, status # "down", status' # "down",
           NEW s \in Series, NEW id \in Nat, Settled(s, id)
    PROVE  Settled(s, id)'
  <1>1. /\ manifest[s] # None /\ id < manifest[s].next_segment_id
        /\ \A a \in Actors : Owned(a, s) => NextId(a, s) # id
    BY DEF Settled
  <1>2. /\ manifest'[s] # None /\ manifest'[s].next_segment_id >= manifest[s].next_segment_id
    BY <1>1, NextIdGrows
  <1>3. manifest[s].next_segment_id \in Nat /\ manifest'[s].next_segment_id \in Nat
    BY <1>1, <1>2 DEF StorageInv, TypeOK, Manifest, SeriesEntry
  <1>4. id < manifest'[s].next_segment_id BY <1>1, <1>2, <1>3
  <1>5. ASSUME NEW a \in Actors, Owned(a, s)' PROVE NextId(a, s)' # id
    <2>1. CASE Owned(a, s) /\ NextId(a, s)' = NextId(a, s) BY <1>1, <2>1
    <2>2. CASE NextId(a, s)' = manifest[s].next_segment_id BY <1>1, <1>3, <2>2
    <2> QED BY <1>5, <2>1, <2>2, NewOwners
  <1> QED BY <1>2, <1>4, <1>5 DEF Settled

-----------------------------------------------------------------------------
(* The readers.                                                            *)

\* What flushes hold are samples.
LEMMA UnregisteredType ==
    ASSUME StorageInv, NEW s \in Series
    PROVE  Unregistered(task, s) \in SUBSET BufferedSample
  BY DEF StorageInv, TypeOK, Task, PendingFlush, Unregistered, Actors

\* So they are after a step.
LEMMA NextUnregistered ==
    ASSUME StorageInv'
    PROVE  \A s \in Series : Unregistered(task', s) \in SUBSET BufferedSample
  <1> SUFFICES ASSUME NEW s \in Series PROVE Unregistered(task', s) \in SUBSET BufferedSample
    OBVIOUS
  <1>1. TypeOK' BY DEF StorageInv
  <1> QED BY <1>1 DEF TypeOK, Task, PendingFlush, Unregistered, Actors

\* The query of a reader that is under way.
LEMMA QueryFacts ==
    ASSUME NEW q \in Queries
    PROVE  /\ q.data_id \in Series /\ q.limit \in (Nat \ {0}) \union {NoLimit}
           /\ q.start_ts_ms \in Int /\ q.end_ts_ms \in Int /\ q.start_ts_ms <= q.end_ts_ms
  BY QueryAssumption, StorageAssumption DEF Timestamps

\* A query that sees a step keeps everything but what flushes hide from it.
LEMMA ObservedFacts ==
    ASSUME NEW r \in ReaderRecord, r.pc # "idle" => r.query \in Queries, NEW threads,
           \A s \in Series : Unregistered(threads, s) \in SUBSET BufferedSample
    PROVE  LET o == Observed(r, threads)
           IN  /\ o \in ReaderRecord /\ o.pc = r.pc /\ o.query = r.query /\ o.todo = r.todo
               /\ o.rows = r.rows /\ o.ok = r.ok /\ o.begun = r.begun /\ r.hidden \subseteq o.hidden
               /\ r.pc # "idle" => Unregistered(threads, r.query.data_id) \subseteq o.hidden
  <1>1. CASE r.pc = "idle" BY <1>1 DEF Observed
  <1>2. CASE r.pc # "idle"
    <2>1. r.query.data_id \in Series BY <1>2, QueryFacts
    <2> DEFINE h == r.hidden \union Unregistered(threads, r.query.data_id)
    <2>2. h \in SUBSET BufferedSample BY <2>1 DEF ReaderRecord
    <2>3. Observed(r, threads) = [r EXCEPT !.hidden = h] BY <1>2 DEF Observed
    <2>4. r.hidden \subseteq h /\ Unregistered(threads, r.query.data_id) \subseteq h OBVIOUS
    <2> HIDE DEF h
    <2> QED BY <2>2, <2>3, <2>4 DEF ReaderRecord
  <1> QED BY <1>1, <1>2

\* A reader that has not begun.
LEMMA IdleReaderType == StorageInv => ReaderType(IdleReader)
  <1>1. IdleReader \in ReaderRecord BY DEF IdleReader, ReaderRecord
  <1>2. ToSet(<< >>) = {} BY DEF ToSet
  <1> QED BY <1>1, <1>2 DEF ReaderType, IdleReader, StorageInv, TypeOK

\* No step of a writer replaces a file whose body is in the cache.
LEMMA WriterCache ==
    ASSUME StorageInv, StorageInv', CacheOK, [Next]_vars, status # "down", status' # "down",
           cache' = cache
    PROVE  CacheOK'
  <1>1. cache' \subseteq CacheType BY DEF CacheOK
  <1>2. ASSUME NEW c \in cache', NEW f \in FileAt(c.data_id, c.segment_id)'
        PROVE  f.samples = c.samples
    <2>1. f \in files' /\ f.data_id = c.data_id /\ f.segment_id = c.segment_id BY DEF FileAt
    <2>2. Settled(c.data_id, c.segment_id) BY DEF CacheOK
    <2>3. ASSUME f \notin files PROVE FALSE
      <3>1. PICK t \in Tasks : Publishes(t, f) BY <2>1, <2>3, NextFiles
      <3>2. t \in Actors /\ Owned(t, c.data_id) /\ NextId(t, c.data_id) = c.segment_id
        BY <2>1, <3>1 DEF Publishes, Actors
      <3> QED BY <2>2, <3>2 DEF Settled
    <2>4. f \in FileAt(c.data_id, c.segment_id) BY <2>1, <2>3 DEF FileAt
    <2> QED BY <2>4 DEF CacheOK, CacheHonest
  <1>3. ASSUME NEW c \in cache' PROVE Lone(c.samples) /\ Settled(c.data_id, c.segment_id)'
    <2>1. c \in CacheType /\ Lone(c.samples) /\ Settled(c.data_id, c.segment_id) BY DEF CacheOK
    <2>2. PICK s \in Series, id \in Nat : s = c.data_id /\ id = c.segment_id BY <2>1 DEF CacheType
    <2>3. Settled(s, id)' BY <2>1, <2>2, SettledStays
    <2> QED BY <2>1, <2>2, <2>3 DEF Settled
  <1> QED BY <1>1, <1>2, <1>3 DEF CacheOK, CacheHonest, Lone

\* What a step of a writer makes of a reader.
LEMMA WriterReader ==
    ASSUME StorageInv, StorageInv', [Next]_vars, status' # "down", NEW r, ReaderType(r),
           status = "down" => r.pc = "idle", NEW o, o = Observed(r, task')
    PROVE  ReaderType(o)'
  <1>1. \A s \in Series : Unregistered(task', s) \in SUBSET BufferedSample BY NextUnregistered
  <1>2. r \in ReaderRecord /\ (r.pc # "idle" => r.query \in Queries) /\ r.begun <= clock
        /\ (r.pc # "read" => r.todo = << >>)
        /\ \A m \in ToSet(r.todo) : Settled(r.query.data_id, m.segment_id)
    BY DEF ReaderType
  <1>3. o \in ReaderRecord /\ o.pc = r.pc /\ o.query = r.query /\ o.todo = r.todo
        /\ o.begun = r.begun
    BY <1>1, <1>2, ObservedFacts
  <1>4. r.begun \in Nat /\ clock \in Nat /\ clock' \in Nat /\ clock <= clock'
    BY <1>2, NextMemory DEF StorageInv, TypeOK, ReaderRecord
  <1>5. o.begun <= clock' BY <1>2, <1>3, <1>4
  <1>6. ASSUME NEW m \in ToSet(o.todo) PROVE Settled(o.query.data_id, m.segment_id)'
    <2>1. r.pc = "read"
      <3>1. ToSet(<< >>) = {} BY DEF ToSet
      <3> QED BY <1>2, <1>3, <3>1
    <2>2. status # "down" /\ r.query \in Queries BY <1>2, <2>1
    <2>3. m \in ToSet(r.todo) /\ Settled(r.query.data_id, m.segment_id) BY <1>2, <1>3
    <2>4. r.todo \in Seq(SegmentMeta) BY <1>2 DEF ReaderRecord
    <2>5. m \in SegmentMeta BY <2>3, <2>4 DEF ToSet
    <2>6. PICK s \in Series, id \in Nat : s = o.query.data_id /\ id = m.segment_id
      BY <1>3, <2>2, <2>5, QueryFacts DEF SegmentMeta
    <2>7. Settled(s, id) BY <1>3, <2>3, <2>6
    <2>8. Settled(s, id)' BY <2>2, <2>7, SettledStays
    <2>9. s = o.query.data_id /\ id = m.segment_id BY <2>6
    <2> QED BY <2>8, <2>9 DEF Settled
  <1> QED BY <1>2, <1>3, <1>5, <1>6 DEF ReaderType

\* The writers keep the readers' invariant.
LEMMA WriterQuery ==
    ASSUME StorageInv, StorageInv', LedgerInv', QueryInv, WriterStep
    PROVE  QueryInv'
  <1>1. Next /\ OrderFollows /\ [Next]_vars BY DEF WriterStep
  <1>2. OrderOK' BY <1>1, NextOrder DEF QueryInv
  <1>3. CASE status' = "down"
    <2>1. cache' = {} /\ cache_holder' = None /\ reader' = [r \in Readers |-> IdleReader]
      BY <1>3 DEF WriterStep
    <2>2. CacheOK' BY <2>1 DEF CacheOK, CacheHonest
    <2>3. ASSUME NEW r \in Readers PROVE ReaderType(reader[r])' /\ reader'[r].pc = "idle"
      <3>1. reader'[r] = IdleReader /\ IdleReader.pc = "idle" BY <2>1 DEF IdleReader
      <3>2. ReaderType(IdleReader)'
        <4>1. IdleReader \in ReaderRecord BY DEF IdleReader, ReaderRecord
        <4>2. ToSet(<< >>) = {} BY DEF ToSet
        <4>3. clock' \in Nat BY DEF StorageInv, TypeOK
        <4> QED BY <4>1, <4>2, <4>3 DEF ReaderType, IdleReader
      <3> QED BY <3>1, <3>2 DEF ReaderType
    <2>4. ReadersOK' BY <2>1, <2>3 DEF ReadersOK
    <2> QED BY <1>2, <2>2, <2>4 DEF QueryInv
  <1>4. CASE status' # "down"
    <2>1. /\ UNCHANGED <<cache, cache_holder>>
          /\ reader' = [r \in Readers |-> Observed(reader[r], task')]
      BY <1>4 DEF WriterStep
    <2>2. CacheOK'
      <3>1. CASE status = "down"
        <4>1. cache' = {} BY <2>1, <3>1 DEF QueryInv, ReadersOK
        <4> QED BY <4>1 DEF CacheOK, CacheHonest
      <3>2. CASE status # "down" BY <1>1, <1>4, <2>1, <3>2, WriterCache DEF QueryInv
      <3> QED BY <3>1, <3>2
    <2>3. ASSUME NEW r \in Readers PROVE ReaderType(reader[r])'
      <3>1. PICK q : q = reader[r] OBVIOUS
      <3>2. PICK o : o = Observed(q, task') OBVIOUS
      <3>3. ReaderType(q) /\ (status = "down" => q.pc = "idle")
        BY <3>1 DEF QueryInv, ReadersOK
      <3>4. ReaderType(o)' BY <1>1, <1>4, <3>2, <3>3, WriterReader
      <3>5. reader'[r] = o BY <2>1, <3>1, <3>2
      <3> QED BY <3>4, <3>5 DEF ReaderType
    <2>4. ReadersOK' BY <1>4, <2>1, <2>3 DEF QueryInv, ReadersOK
    <2> QED BY <1>2, <2>2, <2>4 DEF QueryInv
  <1> QED BY <1>3, <1>4

\* No limit truncates nothing, and a limit leaves some of the rows.
LEMMA TruncateFacts ==
    ASSUME NEW P, NEW f \in Seq(P), NEW n \in Nat \union {NoLimit}
    PROVE  Truncate(f, n) \in Seq(P) /\ (n = NoLimit => Truncate(f, n) = f)
  <1>1. Len(f) \in Nat OBVIOUS
  <1>2. CASE n = NoLimit \/ n >= Len(f) BY <1>2 DEF Truncate
  <1>3. CASE ~(n = NoLimit \/ n >= Len(f))
    <2>1. Truncate(f, n) = SubSeq(f, 1, n) BY <1>3 DEF Truncate
    <2>2. n \in Nat /\ n <= Len(f) BY <1>1, <1>3
    <2>3. SubSeq(f, 1, n) \in Seq(P) BY <2>2
    <2> QED BY <1>3, <2>1, <2>3
  <1> QED BY <1>2, <1>3

\* What is left of a limit.
LEMMA RemainingType ==
    ASSUME NEW P, NEW f \in Seq(P), NEW n \in Nat \union {NoLimit}
    PROVE  Remaining(n, f) \in Nat \union {NoLimit} /\ (n = NoLimit => Remaining(n, f) = NoLimit)
  BY DEF Remaining, NoLimit

\* Samples that are in one file are told apart by their time.
LEMMA LoneSortable ==
    ASSUME NEW S \in SUBSET BufferedSample, Lone(S)
    PROVE  /\ Sortable(S) /\ InOrder(S) \in Seq(BufferedSample)
           /\ InTime(InOrder(S)) /\ ToSet(InOrder(S)) = S
  <1>1. \A x \in BufferedSample : x.timestamp_ms \in Int /\ x.seq_no \in Int
    BY StorageAssumption DEF BufferedSample, Timestamps
  <1>2. Sortable(S) BY <1>1 DEF Lone, Sortable
  <1>3. \A x, y \in S : x.timestamp_ms = y.timestamp_ms => x = y BY DEF Lone
  <1>4. InTime(InOrder(S)) BY <1>2, <1>3, OneOfEach
  <1>5. InOrder(S) \in Seq(S) /\ ToSet(InOrder(S)) = S BY <1>2, InOrderFacts
  <1>6. InOrder(S) \in Seq(BufferedSample) BY <1>5
  <1> QED BY <1>2, <1>4, <1>5, <1>6

\* The rows that a query finds in a file or a memtable: all of its range, if it has no
\* limit.
LEMMA RangeFacts ==
    ASSUME NEW S \in SUBSET BufferedSample, Lone(S), NEW q \in Queries,
           NEW n \in Nat \union {NoLimit}
    PROVE  LET rows == Slice(InOrder(S), q.start_ts_ms, q.end_ts_ms, n)
           IN  /\ rows \in Seq(BufferedSample)
               /\ n = NoLimit => /\ InTime(rows)
                                 /\ ToSet(rows) = {x \in S : /\ q.start_ts_ms <= x.timestamp_ms
                                                             /\ x.timestamp_ms <= q.end_ts_ms}
  <1>1. InOrder(S) \in Seq(BufferedSample) /\ InTime(InOrder(S)) /\ ToSet(InOrder(S)) = S
    BY LoneSortable
  <1>2. q.start_ts_ms \in Int /\ q.end_ts_ms \in Int /\ q.start_ts_ms <= q.end_ts_ms BY QueryFacts
  <1>3. \A x \in BufferedSample : x.timestamp_ms \in Int
    BY StorageAssumption DEF BufferedSample, Timestamps
  <1>4. PICK f \in Seq(BufferedSample) :
            /\ InTime(f) /\ Slice(InOrder(S), q.start_ts_ms, q.end_ts_ms, n) = Truncate(f, n)
            /\ ToSet(f) = {x \in ToSet(InOrder(S)) :
                               q.start_ts_ms <= x.timestamp_ms /\ x.timestamp_ms <= q.end_ts_ms}
    BY <1>1, <1>2, <1>3, SliceFacts
  <1>5. Truncate(f, n) \in Seq(BufferedSample) /\ (n = NoLimit => Truncate(f, n) = f)
    BY TruncateFacts
  <1>6. CASE n # NoLimit BY <1>4, <1>5, <1>6
  <1>7. CASE n = NoLimit BY <1>1, <1>4, <1>5, <1>7
  <1> QED BY <1>6, <1>7

\* A reader that collects rows goes on to the next segment.
LEMMA CollectFacts ==
    ASSUME DOMAIN reader = Readers, NEW r \in Readers, reader[r] \in ReaderRecord,
           NEW samples, Collect(r, samples)
    PROVE  reader' = [reader EXCEPT ![r] =
               [reader[r] EXCEPT !.rows = reader[r].rows \o Found(r, samples),
                                 !.todo = Tail(reader[r].todo)]]
  <1> DEFINE rows == Found(r, samples)
  <1>1. reader' = [reader EXCEPT ![r].rows = @ \o rows, ![r].todo = Tail(@)] BY DEF Collect
  <1> HIDE DEF rows
  <1>2. reader[r] = [x \in DOMAIN reader[r] |-> reader[r][x]] BY DEF ReaderRecord
  <1> QED BY <1>1, <1>2 DEF rows

\* A step of one reader.
LEMMA ReaderChanges ==
    ASSUME StorageInv, QueryInv, status # "down", NEW r \in Readers, NEW q, ReaderType(q),
           reader' = [reader EXCEPT ![r] = q], CacheOK', cache_holder' \in Readers \union {None},
           UNCHANGED <<vars, order>>
    PROVE  QueryInv'
  <1>1. UNCHANGED <<status, manifest, task, clock>> BY DEF vars, memory, bounds
  <1>2. OrderOK' BY <1>1 DEF QueryInv, OrderOK
  <1>3. ASSUME NEW u \in Readers PROVE ReaderType(reader[u])'
    <2>1. DOMAIN reader = Readers /\ ReaderType(reader[u]) BY DEF QueryInv, ReadersOK
    <2>2. reader'[u] \in {q, reader[u]} BY <2>1
    <2>3. ReaderType(reader'[u]) BY <2>1, <2>2
    <2> QED BY <1>1, <2>3 DEF ReaderType, Settled, Owned, NextId
  <1>4. DOMAIN reader' = Readers BY DEF QueryInv, ReadersOK
  <1> QED BY <1>1, <1>2, <1>3, <1>4 DEF QueryInv, ReadersOK

\* The cache stays as it is.
LEMMA SameCache ==
    ASSUME CacheOK, UNCHANGED <<vars, cache>>
    PROVE  CacheOK'
  BY DEF CacheOK, CacheHonest, FileAt, Settled, Owned, NextId, vars, memory, disk, Lone

\* The rows of a segment.
LEMMA FoundFacts ==
    ASSUME NEW r, ReaderType(reader[r]), reader[r].pc # "idle",
           NEW samples \in SUBSET BufferedSample, Lone(samples)
    PROVE  /\ Found(r, samples) \in Seq(BufferedSample)
           /\ reader[r].query.limit = NoLimit =>
                  ToSet(Found(r, samples)) =
                      {x \in samples : /\ reader[r].query.start_ts_ms <= x.timestamp_ms
                                       /\ x.timestamp_ms <= reader[r].query.end_ts_ms}
  <1> DEFINE q == reader[r].query
             n == Remaining(q.limit, reader[r].rows)
  <1>1. q \in Queries /\ reader[r].rows \in Seq(BufferedSample) BY DEF ReaderType, ReaderRecord
  <1>2. q.limit \in Nat \union {NoLimit} BY <1>1, QueryFacts
  <1>3. n \in Nat \union {NoLimit} /\ (q.limit = NoLimit => n = NoLimit)
    BY <1>1, <1>2, RemainingType
  <1>4. Found(r, samples) = Slice(InOrder(samples), q.start_ts_ms, q.end_ts_ms, n) BY DEF Found
  <1> HIDE DEF q, n
  <1>5. Found(r, samples) \in Seq(BufferedSample) BY <1>1, <1>3, <1>4, RangeFacts
  <1>6. q.limit = NoLimit => ToSet(Found(r, samples)) =
            {x \in samples : q.start_ts_ms <= x.timestamp_ms /\ x.timestamp_ms <= q.end_ts_ms}
    BY <1>1, <1>3, <1>4, RangeFacts
  <1> QED BY <1>5, <1>6, Zenon DEF q

\* A reader that collects what it finds of one segment.
LEMMA CollectType ==
    ASSUME StorageInv, NEW r \in Readers, ReadersOK, reader[r].pc = "read", reader[r].todo # << >>,
           NEW samples \in SUBSET BufferedSample, Lone(samples), Collect(r, samples)
    PROVE  \E q : ReaderType(q) /\ reader' = [reader EXCEPT ![r] = q]
  <1> DEFINE q == [reader[r] EXCEPT !.rows = reader[r].rows \o Found(r, samples),
                                    !.todo = Tail(reader[r].todo)]
  <1>1. DOMAIN reader = Readers /\ ReaderType(reader[r]) /\ reader[r] \in ReaderRecord
    BY DEF ReadersOK, ReaderType
  <1>2. reader' = [reader EXCEPT ![r] = q] BY <1>1, CollectFacts, Zenon
  <1>3. Found(r, samples) \in Seq(BufferedSample) BY <1>1, FoundFacts
  <1>4. reader[r].rows \in Seq(BufferedSample) /\ reader[r].todo \in Seq(SegmentMeta)
    BY <1>1 DEF ReaderRecord
  <1>5. reader[r].rows \o Found(r, samples) \in Seq(BufferedSample) BY <1>3, <1>4
  <1>6. Tail(reader[r].todo) \in Seq(SegmentMeta)
        /\ ToSet(Tail(reader[r].todo)) \subseteq ToSet(reader[r].todo)
    BY <1>4 DEF ToSet
  <1>7. q \in ReaderRecord /\ q.pc = "read" /\ q.query = reader[r].query
        /\ q.begun = reader[r].begun /\ q.todo = Tail(reader[r].todo)
    BY <1>1, <1>5, <1>6 DEF ReaderRecord
  <1> HIDE DEF q
  <1>8. ReaderType(q) BY <1>1, <1>6, <1>7 DEF ReaderType
  <1> QED BY <1>2, <1>8

\* A reader that answers.
LEMMA AnswerType ==
    ASSUME NEW r \in Readers, ReadersOK, NEW rows \in Seq(BufferedSample), NEW ok \in BOOLEAN,
           Answer(r, rows, ok)
    PROVE  \E q : ReaderType(q) /\ reader' = [reader EXCEPT ![r] = q]
  <1> DEFINE q == [reader[r] EXCEPT !.pc = "idle", !.todo = << >>, !.rows = rows, !.ok = ok]
  <1>1. ReaderType(reader[r]) /\ reader[r] \in ReaderRecord BY DEF ReadersOK, ReaderType
  <1>2. reader' = [reader EXCEPT ![r] = q] BY DEF Answer
  <1>3. reader[r] \in ReaderRecord /\ << >> \in Seq(SegmentMeta) BY <1>1
  <1>4. q \in ReaderRecord BY <1>3 DEF ReaderRecord
  <1>5. q.pc = "idle" /\ q.begun = reader[r].begun /\ q.todo = << >> BY <1>3 DEF ReaderRecord
  <1> HIDE DEF q
  <1>6. ToSet(<< >>) = {} BY DEF ToSet
  <1>7. ReaderType(q) BY <1>1, <1>4, <1>5, <1>6 DEF ReaderType
  <1> QED BY <1>2, <1>7

\* A segment of the manifest is settled.
LEMMA RegisteredSettled ==
    ASSUME StorageInv, ManifestInv, status # "down", NEW s \in Series, manifest[s] # None,
           NEW m \in manifest[s].segments
    PROVE  Settled(s, m.segment_id)
  <1>1. m \in Known(s) BY DEF Known
  <1>2. m.segment_id < manifest[s].next_segment_id BY <1>1 DEF ManifestInv, KnownBelow
  <1>3. \A a \in Actors : Owned(a, s) => NextId(a, s) # m.segment_id
    BY <1>1 DEF ManifestInv, OwnedUnknown
  <1> QED BY <1>2, <1>3 DEF Settled

\* What a query begins with.
LEMMA BeginType ==
    ASSUME StorageInv, ManifestInv, QueryInv, NEW r \in Readers, NEW q \in Queries,
           BeginQuery(r, q)
    PROVE  /\ \E x : ReaderType(x) /\ reader' = [reader EXCEPT ![r] = x]
           /\ reader'[r].pc = "read" /\ reader'[r].query = q /\ reader'[r].begun = clock
           /\ reader'[r].hidden = Unregistered(task, q.data_id)
           /\ \A m : m \in ToSet(reader'[r].todo) <=>
                         m \in manifest[q.data_id].segments /\ Overlaps(m, q)
  <1> DEFINE s == q.data_id
             o == order[s]
             todo == Retained(o, {m \in ToSet(o) : Overlaps(m, q)})
             x == [pc |-> "read", query |-> q, rows |-> << >>, ok |-> TRUE, begun |-> clock,
                   todo |-> todo, hidden |-> Unregistered(task, s)]
  <1>1. s \in Series /\ manifest[s] # None /\ status = "serving" /\ reader[r].pc = "idle"
        /\ reader' = [reader EXCEPT ![r] = x]
    BY QueryFacts DEF BeginQuery
  <1>2. Lists(o, manifest[s].segments) BY <1>1 DEF QueryInv, OrderOK, SegmentsOf
  <1>3. manifest[s].segments \subseteq SegmentMeta
    <2>1. manifest[s] \in SeriesEntry BY <1>1 DEF StorageInv, TypeOK, Manifest
    <2> QED BY <2>1 DEF SeriesEntry
  <1>4. o \in Seq(manifest[s].segments) /\ ToSet(o) = manifest[s].segments BY <1>2 DEF Lists
  <1>5. o \in Seq(SegmentMeta) BY <1>3, <1>4
  <1>6. todo \in Seq(SegmentMeta) /\ \A m : m \in ToSet(todo) <=>
                                         m \in ToSet(o) /\ m \in {n \in ToSet(o) : Overlaps(n, q)}
    BY <1>5, RetainedFacts, RetainedSet
  <1> HIDE DEF todo, o
  <1>7. \A m : m \in ToSet(todo) <=> m \in manifest[s].segments /\ Overlaps(m, q) BY <1>4, <1>6
  <1>8. Unregistered(task, s) \in SUBSET BufferedSample BY <1>1, UnregisteredType
  <1>9. clock \in Nat BY DEF StorageInv, TypeOK
  <1>10. x \in ReaderRecord BY <1>6, <1>8, <1>9 DEF ReaderRecord
  <1>11. x.pc = "read" /\ x.query = q /\ x.begun = clock /\ x.todo = todo
         /\ x.hidden = Unregistered(task, s)
    OBVIOUS
  <1> HIDE DEF x
  <1>12. \A m \in ToSet(x.todo) : Settled(x.query.data_id, m.segment_id)
    BY <1>1, <1>7, <1>11, RegisteredSettled
  <1>13. ReaderType(x) BY <1>9, <1>10, <1>11, <1>12 DEF ReaderType
  <1>14. reader'[r] = x BY <1>1 DEF QueryInv, ReadersOK
  <1> QED BY <1>1, <1>7, <1>11, <1>13, <1>14

\* The first segment of those to read.
LEMMA HeadFacts ==
    ASSUME NEW r, ReaderType(reader[r]), reader[r].pc # "idle", reader[r].todo # << >>
    PROVE  LET m == Head(reader[r].todo)
           IN  /\ m \in SegmentMeta /\ m.segment_id \in Nat
               /\ reader[r].query \in Queries /\ reader[r].query.data_id \in Series
               /\ ToSet(reader[r].todo) = {m} \union ToSet(Tail(reader[r].todo))
               /\ Settled(reader[r].query.data_id, m.segment_id)
  <1> DEFINE t == reader[r].todo
  <1>1. t \in Seq(SegmentMeta) /\ t # << >> BY DEF ReaderType, ReaderRecord
  <1>2. reader[r].query \in Queries /\ reader[r].query.data_id \in Series
    BY QueryFacts DEF ReaderType
  <1>3. \A m \in ToSet(t) : Settled(reader[r].query.data_id, m.segment_id) BY DEF ReaderType
  <1> HIDE DEF t
  <1>4. Head(t) = t[1] /\ DOMAIN t = 1 .. Len(t) /\ Len(t) \in Nat /\ Len(t) >= 1
        /\ Tail(t) \in Seq(SegmentMeta) /\ DOMAIN Tail(t) = 1 .. Len(Tail(t))
        /\ Len(Tail(t)) = Len(t) - 1
        /\ \A i \in 1 .. Len(t) - 1 : Tail(t)[i] = t[i + 1]
    BY <1>1
  <1>5. t[1] \in SegmentMeta BY <1>1, <1>4
  <1>6. \A x : x \in ToSet(t) <=> x = t[1] \/ x \in ToSet(Tail(t))
    <2>1. t[1] \in ToSet(t) BY <1>4 DEF ToSet
    <2>2. ASSUME NEW x \in ToSet(Tail(t)) PROVE x \in ToSet(t)
      <3>1. PICK i \in 1 .. Len(t) - 1 : Tail(t)[i] = x BY <1>4 DEF ToSet
      <3>2. i + 1 \in 1 .. Len(t) /\ t[i + 1] = x BY <1>4, <3>1
      <3> QED BY <1>4, <3>2 DEF ToSet
    <2>3. ASSUME NEW x \in ToSet(t), x # t[1] PROVE x \in ToSet(Tail(t))
      <3>1. PICK i \in 1 .. Len(t) : t[i] = x BY <1>4 DEF ToSet
      <3>2. i - 1 \in 1 .. Len(t) - 1 /\ (i - 1) + 1 = i BY <1>4, <2>3, <3>1
      <3>3. Tail(t)[i - 1] = x BY <1>4, <3>1, <3>2
      <3> QED BY <1>4, <3>2, <3>3 DEF ToSet
    <2> QED BY <2>1, <2>2, <2>3
  <1>7. t[1] \in ToSet(t) BY <1>6
  <1>8. ToSet(t) = {t[1]} \union ToSet(Tail(t)) BY <1>6
  <1>9. t[1].segment_id \in Nat BY <1>5 DEF SegmentMeta
  <1> QED BY <1>2, <1>3, <1>4, <1>5, <1>7, <1>8, <1>9 DEF t

\* What the steps of a reader that is under way have in common.
LEMMA ReaderRuns ==
    ASSUME QueryInv, NEW r \in Readers, reader[r].pc # "idle"
    PROVE  /\ status # "down" /\ ReaderType(reader[r]) /\ reader[r] \in ReaderRecord
           /\ reader[r].query \in Queries /\ reader[r].query.data_id \in Series
           /\ reader[r].rows \in Seq(BufferedSample) /\ reader[r].todo \in Seq(SegmentMeta)
           /\ DOMAIN reader = Readers
  <1>1. status # "down" /\ ReaderType(reader[r]) /\ DOMAIN reader = Readers
    BY DEF QueryInv, ReadersOK
  <1>2. reader[r] \in ReaderRecord /\ reader[r].query \in Queries BY <1>1 DEF ReaderType
  <1> QED BY <1>1, <1>2, QueryFacts DEF ReaderRecord

\* A body from the cache.
LEMMA CachedStep ==
    ASSUME StorageInv, QueryInv, NEW r \in Readers, ReadCached(r)
    PROVE  QueryInv'
  <1>1. /\ reader[r].pc = "read" /\ reader[r].todo # << >> /\ cache_holder' = r
        /\ UNCHANGED <<vars, order, cache>>
    BY DEF ReadCached, Reading
  <1>2. PICK c \in Cached(reader[r].query, Head(reader[r].todo)) : Collect(r, c.samples)
    BY DEF ReadCached
  <1>3. c.samples \in SUBSET BufferedSample /\ Lone(c.samples)
    BY DEF Cached, QueryInv, CacheOK, CacheType
  <1>4. PICK q : ReaderType(q) /\ reader' = [reader EXCEPT ![r] = q]
    BY <1>1, <1>2, <1>3, CollectType DEF QueryInv
  <1>5. status # "down" BY <1>1, ReaderRuns
  <1>6. CacheOK' BY <1>1, SameCache DEF QueryInv
  <1> QED BY <1>1, <1>4, <1>5, <1>6, ReaderChanges

\* The file of a segment.
LEMMA FileStep ==
    ASSUME StorageInv, IdsInv, SamplesInv, QueryInv, NEW r \in Readers, ReadFile(r)
    PROVE  QueryInv'
  <1> DEFINE s == reader[r].query.data_id
             id == Head(reader[r].todo).segment_id
  <1>1. /\ reader[r].pc = "read" /\ reader[r].todo # << >> /\ cache_holder' = r
        /\ UNCHANGED <<vars, order>>
    BY DEF ReadFile, Reading
  <1>2. PICK f \in FileAt(s, id) :
            /\ Collect(r, f.samples)
            /\ cache' \in SUBSET (cache \union
                   {[data_id |-> s, segment_id |-> id, samples |-> f.samples]})
    BY DEF ReadFile
  <1>3. ReaderType(reader[r]) /\ status # "down" BY <1>1, ReaderRuns
  <1>4. s \in Series /\ id \in Nat /\ Settled(s, id) BY <1>1, <1>3, HeadFacts
  <1> HIDE DEF s, id
  <1>5. f \in files /\ f.data_id = s /\ f.segment_id = id BY <1>2 DEF FileAt
  <1>6. f.samples \in SUBSET BufferedSample /\ Lone(f.samples)
    BY <1>5 DEF StorageInv, TypeOK, SegmentFile, SamplesInv
  <1>7. PICK q : ReaderType(q) /\ reader' = [reader EXCEPT ![r] = q]
    BY <1>1, <1>2, <1>6, CollectType DEF QueryInv
  <1> DEFINE body == [data_id |-> s, segment_id |-> id, samples |-> f.samples]
  <1>8. /\ body \in CacheType /\ Lone(body.samples) /\ Settled(body.data_id, body.segment_id)
        /\ \A g \in FileAt(body.data_id, body.segment_id) : g.samples = body.samples
    <2>1. body \in CacheType BY <1>4, <1>6 DEF CacheType
    <2>2. ASSUME NEW g \in FileAt(s, id) PROVE g = f
      BY <1>5 DEF FileAt, IdsInv, UniquePaths
    <2> QED BY <1>4, <1>6, <2>1, <2>2
  <1>9. cache' \subseteq cache \union {body} BY <1>2
  <1> HIDE DEF body
  <1>10. ASSUME NEW c \in cache'
         PROVE  /\ c \in CacheType /\ Lone(c.samples) /\ Settled(c.data_id, c.segment_id)
                /\ \A g \in FileAt(c.data_id, c.segment_id) : g.samples = c.samples
    <2>1. CASE c \in cache BY <2>1 DEF QueryInv, CacheOK, CacheHonest
    <2>2. CASE c = body BY <1>8, <2>2
    <2> QED BY <1>9, <2>1, <2>2
  <1>11. UNCHANGED <<files, task, manifest>> BY <1>1 DEF vars, memory, disk
  <1>12. CacheOK'
    BY <1>10, <1>11 DEF CacheOK, CacheHonest, FileAt, Settled, Owned, NextId, Lone
  <1> QED BY <1>1, <1>3, <1>7, <1>12, ReaderChanges

\* The memtable.
LEMMA MemoryStep ==
    ASSUME StorageInv, SamplesInv, QueryInv, NEW r \in Readers, ReadMemory(r)
    PROVE  /\ QueryInv'
           /\ reader[r].query.limit = NoLimit /\ reader'[r].ok =>
                  \A x \in ToSet(reader[r].rows) \union LastWrites(memtable[reader[r].query.data_id]) :
                      Asked(reader[r].query, x) =>
                          \/ x \in ToSet(reader'[r].rows)
                          \/ \E y \in ToSet(reader'[r].rows) :
                                 /\ y \in LastWrites(memtable[reader[r].query.data_id])
                                 /\ y.timestamp_ms = x.timestamp_ms
  <1> DEFINE q == reader[r].query
             s == q.data_id
             disk_rows == reader[r].rows
             n == Remaining(q.limit, disk_rows)
             last == LastWrites(memtable[s])
             mem == Slice(InOrder(last), q.start_ts_ms, q.end_ts_ms, n)
             rows == Truncate(Merge(disk_rows, mem), q.limit)
  <1>1. /\ reader[r].pc = "memory" /\ UNCHANGED <<vars, order, cache, cache_holder>>
        /\ IF s \in series THEN Answer(r, rows, TRUE) ELSE Answer(r, << >>, FALSE)
    BY DEF ReadMemory
  <1>2. status # "down" /\ q \in Queries /\ s \in Series /\ disk_rows \in Seq(BufferedSample)
        /\ DOMAIN reader = Readers /\ reader[r] \in ReaderRecord
    BY <1>1, ReaderRuns
  <1>3. q.limit \in Nat \union {NoLimit} BY <1>2, QueryFacts
  <1>4. n \in Nat \union {NoLimit} /\ (q.limit = NoLimit => n = NoLimit)
    BY <1>2, <1>3, RemainingType
  <1>5. memtable[s] \in SUBSET BufferedSample /\ IsFiniteSet(memtable[s])
    BY <1>2 DEF StorageInv, TypeOK, SamplesInv
  <1>6. last \in SUBSET BufferedSample /\ last \subseteq memtable[s] /\ Lone(last)
    BY <1>5, LastWritesType, LastWritesLone
  <1> HIDE DEF n, last
  <1>7. mem \in Seq(BufferedSample)
        /\ (n = NoLimit => ToSet(mem) = {x \in last : /\ q.start_ts_ms <= x.timestamp_ms
                                                      /\ x.timestamp_ms <= q.end_ts_ms})
    BY <1>2, <1>4, <1>6, RangeFacts
  <1> HIDE DEF mem
  <1>8. \A x \in BufferedSample : x.timestamp_ms \in Int
    BY StorageAssumption DEF BufferedSample, Timestamps
  <1>9. /\ Merge(disk_rows, mem) \in Seq(BufferedSample)
        /\ ToSet(mem) \subseteq ToSet(Merge(disk_rows, mem))
        /\ \A x \in ToSet(disk_rows) : x \in ToSet(Merge(disk_rows, mem)) \/ HasTime(ToSet(mem), x)
    BY <1>2, <1>7, <1>8, MergeFacts
  <1>10. rows \in Seq(BufferedSample) /\ (q.limit = NoLimit => rows = Merge(disk_rows, mem))
    BY <1>3, <1>9, TruncateFacts
  <1> HIDE DEF rows
  <1>11. << >> \in Seq(BufferedSample) OBVIOUS
  <1>12. \E x : ReaderType(x) /\ reader' = [reader EXCEPT ![r] = x]
    <2>1. CASE s \in series BY <1>1, <1>10, <2>1, AnswerType DEF QueryInv
    <2>2. CASE s \notin series BY <1>1, <1>11, <2>2, AnswerType DEF QueryInv
    <2> QED BY <2>1, <2>2
  <1>13. CacheOK' BY <1>1, SameCache DEF QueryInv
  <1>14. cache_holder' \in Readers \union {None} BY <1>1 DEF QueryInv, ReadersOK
  <1>15. QueryInv' BY <1>1, <1>2, <1>12, <1>13, <1>14, ReaderChanges
  <1>16. ASSUME q.limit = NoLimit, reader'[r].ok, NEW x \in ToSet(disk_rows) \union last, Asked(q, x)
         PROVE  \/ x \in ToSet(reader'[r].rows)
                \/ \E y \in ToSet(reader'[r].rows) :
                       y \in last /\ y.timestamp_ms = x.timestamp_ms
    <2>1. s \in series /\ Answer(r, rows, TRUE)
      <3>1. ASSUME Answer(r, << >>, FALSE) PROVE FALSE
        <4>1. reader'[r] = [reader[r] EXCEPT !.pc = "idle", !.todo = << >>, !.rows = << >>,
                                             !.ok = FALSE]
          BY <1>2, <3>1 DEF Answer
        <4>2. reader'[r].ok = FALSE BY <1>2, <4>1 DEF ReaderRecord
        <4> QED BY <1>16, <4>2
      <3> QED BY <1>1, <3>1
    <2>2. reader'[r].rows = rows
      <3>1. reader'[r] = [reader[r] EXCEPT !.pc = "idle", !.todo = << >>, !.rows = rows,
                                           !.ok = TRUE]
        BY <1>2, <2>1 DEF Answer
      <3> QED BY <1>2, <3>1 DEF ReaderRecord
    <2>3. rows = Merge(disk_rows, mem) BY <1>10, <1>16
    <2>4. ToSet(mem) = {y \in last : q.start_ts_ms <= y.timestamp_ms /\ y.timestamp_ms <= q.end_ts_ms}
      BY <1>4, <1>7, <1>16
    <2>5. CASE x \in last
      <3>1. x \in ToSet(mem) BY <1>16, <2>4, <2>5 DEF Asked
      <3> QED BY <1>9, <2>2, <2>3, <3>1
    <2>6. CASE x \in ToSet(disk_rows)
      <3>1. CASE x \in ToSet(Merge(disk_rows, mem)) BY <2>2, <2>3, <3>1
      <3>2. CASE HasTime(ToSet(mem), x)
        <4>1. PICK y \in ToSet(mem) : y.timestamp_ms = x.timestamp_ms BY <3>2 DEF HasTime
        <4>2. y \in last /\ y \in ToSet(rows) BY <1>6, <1>9, <2>3, <2>4, <4>1
        <4> QED BY <2>2, <4>1, <4>2
      <3> QED BY <1>9, <2>6, <3>1, <3>2
    <2> QED BY <1>16, <2>5, <2>6
  <1> QED BY <1>15, <1>16 DEF last

\* A step of a reader leaves the writers' state alone.
LEMMA ReaderStutter ==
    ASSUME NEW r \in Readers, ReaderStep(r)
    PROVE  UNCHANGED <<vars, order>>
  BY DEF ReaderStep, BeginQuery, ReadCached, ReadFile, ReadMissing, ReadEnough, ReadAll, ReadMemory

\* The readers keep their invariant.
LEMMA ReaderQuery ==
    ASSUME StorageInv, IdsInv, ManifestInv, SamplesInv, QueryInv, NEW r \in Readers, ReaderStep(r)
    PROVE  QueryInv'
  <1>1. UNCHANGED <<vars, order>> BY ReaderStutter
  <1>2. ReadersOK BY DEF QueryInv
  <1>3. ASSUME NEW q \in Queries, BeginQuery(r, q) PROVE QueryInv'
    <2>1. status # "down" /\ UNCHANGED <<cache, cache_holder>> BY <1>3 DEF BeginQuery
    <2>2. PICK x : ReaderType(x) /\ reader' = [reader EXCEPT ![r] = x] BY <1>3, BeginType
    <2>3. CacheOK' BY <1>1, <2>1, SameCache DEF QueryInv
    <2>4. cache_holder' \in Readers \union {None} BY <1>2, <2>1 DEF ReadersOK
    <2> QED BY <1>1, <2>1, <2>2, <2>3, <2>4, ReaderChanges
  <1>4. ASSUME NEW rows \in Seq(BufferedSample), NEW ok \in BOOLEAN, Answer(r, rows, ok),
               reader[r].pc # "idle", cache' = cache, cache_holder' = None
        PROVE  QueryInv'
    <2>1. PICK x : ReaderType(x) /\ reader' = [reader EXCEPT ![r] = x] BY <1>2, <1>4, AnswerType
    <2>2. CacheOK' BY <1>1, <1>4, SameCache DEF QueryInv
    <2>3. status # "down" BY <1>4, ReaderRuns
    <2> QED BY <1>1, <1>4, <2>1, <2>2, <2>3, ReaderChanges
  <1>5. CASE ReadMissing(r)
    <2>1. Answer(r, << >>, FALSE) /\ cache' = cache /\ cache_holder' = None /\ reader[r].pc = "read"
      BY <1>5 DEF ReadMissing, Reading
    <2>2. << >> \in Seq(BufferedSample) OBVIOUS
    <2> QED BY <1>4, <2>1, <2>2
  <1>6. CASE ReadEnough(r)
    <2> DEFINE rows == Truncate(reader[r].rows, reader[r].query.limit)
    <2>1. Answer(r, rows, TRUE) /\ cache' = cache /\ cache_holder' = None /\ reader[r].pc = "read"
      BY <1>6 DEF ReadEnough, Reading
    <2>2. reader[r].rows \in Seq(BufferedSample) /\ reader[r].query.limit \in Nat \union {NoLimit}
      <3>1. reader[r].query \in Queries /\ reader[r].rows \in Seq(BufferedSample)
        BY <2>1, ReaderRuns
      <3> QED BY <3>1, QueryFacts
    <2>3. rows \in Seq(BufferedSample) BY <2>2, TruncateFacts
    <2> HIDE DEF rows
    <2> QED BY <1>4, <2>1, <2>3
  <1>7. CASE ReadAll(r)
    <2> DEFINE x == [reader[r] EXCEPT !.pc = "memory"]
    <2>1. /\ reader[r].pc = "read" /\ reader[r].todo = << >> /\ cache' = cache /\ cache_holder' = None
          /\ reader' = [reader EXCEPT ![r].pc = "memory"]
      BY <1>7 DEF ReadAll, Reading
    <2>2. reader[r] \in ReaderRecord /\ ReaderType(reader[r]) /\ status # "down"
      BY <2>1, ReaderRuns
    <2>3. reader' = [reader EXCEPT ![r] = x] BY <2>1
    <2>4. x \in ReaderRecord /\ x.query = reader[r].query /\ x.begun = reader[r].begun
          /\ x.todo = << >> /\ x.pc = "memory"
      BY <2>1, <2>2 DEF ReaderRecord
    <2> HIDE DEF x
    <2>5. ToSet(<< >>) = {} BY DEF ToSet
    <2>6. ReaderType(x) BY <2>1, <2>2, <2>4, <2>5 DEF ReaderType
    <2>7. CacheOK' BY <1>1, <2>1, SameCache DEF QueryInv
    <2> QED BY <1>1, <2>1, <2>2, <2>3, <2>6, <2>7, ReaderChanges
  <1> QED BY <1>3, <1>5, <1>6, <1>7, CachedStep, FileStep, MemoryStep DEF ReaderStep

\* A step in which nothing changes.
LEMMA QueryStutter ==
    ASSUME QueryInv, UNCHANGED queryVars
    PROVE  QueryInv'
  <1>1. UNCHANGED <<vars, order, cache, cache_holder, reader, status, manifest, task, clock>>
    BY DEF queryVars, readVars, vars, memory, bounds
  <1>2. CacheOK' BY <1>1, SameCache DEF QueryInv
  <1>3. OrderOK' BY <1>1 DEF QueryInv, OrderOK
  <1>4. ASSUME NEW r \in Readers PROVE ReaderType(reader[r])'
    <2>1. ReaderType(reader[r]) BY DEF QueryInv, ReadersOK
    <2> QED BY <1>1, <2>1 DEF ReaderType, Settled, Owned, NextId
  <1>5. ReadersOK' BY <1>1, <1>4 DEF QueryInv, ReadersOK
  <1> QED BY <1>2, <1>3, <1>5 DEF QueryInv

\* At first there is nothing to read and nobody who reads.
LEMMA InitQuery == QueryInit => QueryInv
  <1> SUFFICES ASSUME QueryInit PROVE QueryInv OBVIOUS
  <1>1. StorageInv /\ Init BY InitInv DEF QueryInit
  <1>2. ASSUME NEW s \in Series PROVE Lists(order[s], SegmentsOf(manifest[s]))
    <2>1. order[s] = << >> /\ SegmentsOf(manifest[s]) = {}
      BY <1>1 DEF QueryInit, Init, SegmentsOf
    <2>2. ToSet(<< >>) = {} BY DEF ToSet
    <2> QED BY <2>1, <2>2 DEF Lists
  <1>3. CacheOK BY DEF QueryInit, CacheOK, CacheHonest
  <1>4. ReadersOK
    <2>1. \A r \in Readers : reader[r] = IdleReader BY DEF QueryInit
    <2> QED BY <1>1, <2>1, IdleReaderType DEF QueryInit, ReadersOK, IdleReader
  <1> QED BY <1>2, <1>3, <1>4 DEF QueryInv, OrderOK

\* The queries run beside the writers: without the readers' variables, every behaviour is
\* one of the storage engine, whose invariants hold here too.
THEOREM QueriesBeside == QuerySpec => Spec
  <1>1. QueryInit => Init BY DEF QueryInit
  <1>2. [QueryNext]_queryVars => [Next]_vars
    BY ReaderStutter DEF QueryNext, WriterStep, queryVars
  <1> QED BY <1>1, <1>2, PTL DEF QuerySpec, Spec

\* Samples are told apart in every state.
LEMMA SamplesInvariant == Spec => []SamplesInv
  BY StorageInvariant, HandoverInvariant, InitSamples, NextSamples, PTL DEF Spec

\* The readers' invariant.
THEOREM QueryInvariant == QuerySpec => []QueryInv
  <1>1. /\ StorageInv /\ StorageInv' /\ IdsInv /\ ManifestInv /\ LedgerInv' /\ SamplesInv /\ QueryInv
        /\ [QueryNext]_queryVars
        => QueryInv'
    BY WriterQuery, ReaderQuery, QueryStutter DEF QueryNext
  <1> QED BY <1>1, InitQuery, QueriesBeside, StorageInvariant, IdsInvariant, ManifestInvariant,
             LedgerInvariant, SamplesInvariant, PTL DEF QuerySpec

\* The variables of the queries have their types, and the sequence of the segments of a
\* series has those of the manifest, each of them once.
THEOREM QueryTypes == QuerySpec => []QueryTypeOK
  <1>1. StorageInv /\ QueryInv => QueryTypeOK
    <2> SUFFICES ASSUME StorageInv, QueryInv PROVE QueryTypeOK OBVIOUS
    <2>1. ASSUME NEW s \in Series
          PROVE  /\ ToSet(order[s]) = SegmentsOf(manifest[s])
                 /\ Len(order[s]) = Cardinality(SegmentsOf(manifest[s]))
      <3>1. Lists(order[s], SegmentsOf(manifest[s])) BY DEF QueryInv, OrderOK
      <3> QED BY <3>1, ListingLength DEF Lists
    <2>2. cache \subseteq [data_id : Series, segment_id : Nat, samples : SUBSET BufferedSample]
      BY DEF QueryInv, CacheOK, CacheType
    <2>3. cache_holder \in Readers \union {None} BY DEF QueryInv, ReadersOK
    <2>4. ASSUME NEW r \in Readers
          PROVE  /\ reader[r].pc \in {"idle", "read", "memory"}
                 /\ reader[r].query \in Queries \union {None}
                 /\ reader[r].todo \in Seq(SegmentMeta) /\ reader[r].rows \in Seq(BufferedSample)
      <3>1. reader[r] \in ReaderRecord BY DEF QueryInv, ReadersOK, ReaderType
      <3> QED BY <3>1 DEF ReaderRecord
    <2> QED BY <2>1, <2>2, <2>3, <2>4 DEF QueryTypeOK
  <1> QED BY <1>1, QueriesBeside, StorageInvariant, QueryInvariant, PTL

\* The cache never has another body than the file at its path: whatever flushes, evictions
\* and recoveries run between two queries, no id of a segment is used again while the
\* process lives, and with the process the cache is gone.
THEOREM CacheCorrect == QuerySpec => []CacheHonest
  <1>1. QueryInv => CacheHonest BY DEF QueryInv, CacheOK
  <1> QED BY <1>1, QueryInvariant, PTL

\* A write that is on record after a step, under a number given out before it, was on
\* record before it.
LEMMA AcceptedBefore ==
    ASSUME StorageInv, StorageInv', [Next]_vars, NEW s \in Series, NEW x \in accepted'[s],
           x.seq_no <= clock
    PROVE  x \in accepted[s]
  <1>1. Memorises(s) BY NextMemory
  <1>2. x.seq_no \in Nat /\ clock \in Nat BY DEF StorageInv, TypeOK, BufferedSample
  <1>3. ASSUME NEW new, Adds(s, new) PROVE x \in accepted[s]
    <2>1. accepted'[s] = accepted[s] \union new /\ \A z \in new : clock < z.seq_no
      BY <1>3 DEF Adds
    <2>2. x \notin new BY <1>2, <2>1
    <2> QED BY <2>1, <2>2
  <1> QED BY <1>1, <1>3 DEF Memorises

\* What queries see are samples, before a step and after it.
LEMMA SeenType ==
    ASSUME StorageInv, StorageInv', NEW r \in ReaderRecord, r.query \in Queries
    PROVE  Seen(r) \in SUBSET BufferedSample /\ Seen(r)' \in SUBSET BufferedSample
  <1>1. PICK s \in Series : s = r.query.data_id BY QueryFacts
  <1>2. ToSet(r.rows) \union r.hidden \in SUBSET BufferedSample BY DEF ReaderRecord, ToSet
  <1>3. Gone(s) \union memtable[s] \in SUBSET BufferedSample BY DEF Gone, StorageInv, TypeOK
  <1>4. (Gone(s) \union memtable[s])' \in SUBSET BufferedSample BY DEF Gone, StorageInv, TypeOK
  <1>5. Ahead(r) \in SUBSET BufferedSample BY DEF Ahead, StorageInv, TypeOK, SegmentFile
  <1>6. Ahead(r)' \in SUBSET BufferedSample BY DEF Ahead, StorageInv, TypeOK, SegmentFile
  <1>7. Seen(r) \in SUBSET BufferedSample BY <1>1, <1>2, <1>3, <1>5 DEF Seen, Told
  <1>8. Seen(r)' = ToSet(r.rows) \union r.hidden \union Gone(s)' \union memtable'[s] \union Ahead(r)'
    BY <1>1 DEF Seen, Told
  <1>9. Seen(r)' \in SUBSET BufferedSample BY <1>2, <1>4, <1>6, <1>8
  <1> QED BY <1>7, <1>9

\* While the engine runs, what a query has found or may find stays where it looks for it,
\* or is hidden from it by a flush, or evicted.
LEMMA SeenStays ==
    ASSUME StorageInv, StorageInv', IdsInv, MemoryOK, [Next]_vars, status # "down",
           status' # "down", NEW r, ReaderType(r), r.pc # "idle", NEW o, o = Observed(r, task'),
           NEW y \in Seen(r)
    PROVE  \E z \in Seen(o)' : z.timestamp_ms = y.timestamp_ms /\ z.seq_no >= y.seq_no
  <1> DEFINE Goal == \E z \in Seen(o)' : z.timestamp_ms = y.timestamp_ms /\ z.seq_no >= y.seq_no
  <1>1. r \in ReaderRecord /\ r.query \in Queries BY DEF ReaderType
  <1>2. PICK s \in Series : s = r.query.data_id BY <1>1, QueryFacts
  <1>3. \A x \in Series : Unregistered(task', x) \in SUBSET BufferedSample BY NextUnregistered
  <1>4. /\ o.query = r.query /\ o.todo = r.todo /\ o.rows = r.rows /\ r.hidden \subseteq o.hidden
        /\ Unregistered(task', s) \subseteq o.hidden
    BY <1>1, <1>2, <1>3, ObservedFacts
  <1>5. Seen(o)' = ToSet(r.rows) \union o.hidden \union Gone(s)' \union memtable'[s] \union Ahead(o)'
    BY <1>2, <1>4 DEF Seen, Told, Gone
  <1>6. ToSet(r.rows) \in SUBSET BufferedSample /\ r.hidden \in SUBSET BufferedSample
    BY <1>1 DEF ReaderRecord, ToSet
  <1>7. ASSUME y \in Seen(o)', y.seq_no \in Nat PROVE Goal BY <1>7
  <1>8. Grows(s) BY GoneGrows
  <1>9. CASE y \in ToSet(r.rows) \union r.hidden BY <1>4, <1>5, <1>6, <1>7, <1>9 DEF BufferedSample
  <1>10. CASE y \in Gone(s)
    <2>1. y \in Gone(s)' BY <1>8, <1>10 DEF Gone, Grows
    <2>2. y.seq_no \in Nat BY <1>10 DEF Gone, StorageInv, TypeOK, BufferedSample
    <2> QED BY <1>5, <1>7, <2>1, <2>2
  <1>11. CASE y \in memtable[s]
    <2>1. PICK z \in memtable'[s] \union Unregistered(task', s) :
              z.timestamp_ms = y.timestamp_ms /\ z.seq_no >= y.seq_no
      BY <1>11, MemoryLeaves
    <2> QED BY <1>4, <1>5, <2>1
  <1>12. CASE y \in Ahead(r)
    <2>1. PICK f \in files : /\ f.data_id = s /\ y \in f.samples
                             /\ \E m \in ToSet(r.todo) : m.segment_id = f.segment_id
      BY <1>2, <1>12 DEF Ahead
    <2>2. y.seq_no \in Nat BY <2>1 DEF StorageInv, TypeOK, SegmentFile, BufferedSample
    <2>3. CASE f \in files'
      <3>1. y \in Ahead(o)' BY <1>2, <1>4, <2>1, <2>3 DEF Ahead
      <3> QED BY <1>5, <1>7, <2>2, <3>1
    <2>4. CASE f \notin files'
      <3>1. f.samples \subseteq evicted'[s] BY <2>1, <2>4, FilesLeave
      <3>2. y \in Gone(s)' BY <2>1, <3>1 DEF Gone
      <3> QED BY <1>5, <1>7, <2>2, <3>2
    <2> QED BY <2>3, <2>4
  <1>13. y \in ToSet(r.rows) \union r.hidden \union Gone(s) \union memtable[s] \union Ahead(r)
    BY <1>2 DEF Seen, Told
  <1> QED BY <1>9, <1>10, <1>11, <1>12, <1>13

\* A query that is under way misses nothing through a step of a writer.
LEMMA WriterSeen ==
    ASSUME StorageInv, StorageInv', IdsInv, MemoryOK, [Next]_vars, status # "down",
           status' # "down", NEW r, ReaderType(r), r.pc # "idle", NEW o, o = Observed(r, task'),
           Complete(r, Seen(r))
    PROVE  Complete(o, Seen(o))'
  <1>1. r \in ReaderRecord /\ r.query \in Queries /\ r.begun <= clock BY DEF ReaderType
  <1>2. PICK s \in Series : s = r.query.data_id BY <1>1, QueryFacts
  <1>3. \A x \in Series : Unregistered(task', x) \in SUBSET BufferedSample BY NextUnregistered
  <1>4. o \in ReaderRecord /\ o.query = r.query /\ o.begun = r.begun BY <1>1, <1>3, ObservedFacts
  <1>5. ASSUME NEW x \in accepted'[s], Asked(r.query, x), x.seq_no <= r.begun
        PROVE  \E z \in Seen(o)' : z.timestamp_ms = x.timestamp_ms /\ z.seq_no >= x.seq_no
    <2>1. x.seq_no \in Nat /\ clock \in Nat /\ r.begun \in Nat
      BY <1>1 DEF StorageInv, TypeOK, BufferedSample, ReaderRecord
    <2>2. x.seq_no <= clock BY <1>1, <1>5, <2>1
    <2>3. x \in accepted[s] BY <2>2, AcceptedBefore
    <2>4. PICK y \in Seen(r) : y.timestamp_ms = x.timestamp_ms /\ y.seq_no >= x.seq_no
      BY <1>2, <1>5, <2>3 DEF Complete, Covers
    <2>5. PICK z \in Seen(o)' : z.timestamp_ms = y.timestamp_ms /\ z.seq_no >= y.seq_no
      BY <2>4, SeenStays
    <2>6. y.seq_no \in Int /\ z.seq_no \in Int => z.seq_no >= x.seq_no BY <2>1, <2>4, <2>5
    <2>7. y \in BufferedSample /\ z \in BufferedSample BY <1>1, <1>4, <2>4, <2>5, SeenType
    <2> QED BY <2>4, <2>5, <2>6, <2>7 DEF BufferedSample
  <1>6. \A x \in accepted'[s] :
            Asked(r.query, x) /\ x.seq_no <= r.begun =>
                \E z \in Seen(o)' : z.timestamp_ms = x.timestamp_ms /\ z.seq_no >= x.seq_no
    BY <1>5
  <1> QED BY <1>2, <1>4, <1>6 DEF Complete, Covers, Asked

\* Nor does an answer through one of the steps that come after it.
LEMMA WriterTold ==
    ASSUME StorageInv, StorageInv', [Next]_vars, NEW r, ReaderType(r), r.query \in Queries,
           Complete(r, Told(r))
    PROVE  Complete(r, Told(r))'
  <1>1. r \in ReaderRecord /\ r.begun <= clock BY DEF ReaderType
  <1>2. PICK s \in Series : s = r.query.data_id BY QueryFacts
  <1>3. Grows(s) BY GoneGrows
  <1>4. Gone(s) \subseteq Gone(s)' BY <1>3 DEF Gone, Grows
  <1>5. ASSUME NEW x \in accepted'[s], Asked(r.query, x), x.seq_no <= r.begun
        PROVE  \E z \in Told(r)' : z.timestamp_ms = x.timestamp_ms /\ z.seq_no >= x.seq_no
    <2>1. x.seq_no \in Nat /\ clock \in Nat /\ r.begun \in Nat
      BY <1>1 DEF StorageInv, TypeOK, BufferedSample, ReaderRecord
    <2>2. x.seq_no <= clock BY <1>1, <1>5, <2>1
    <2>3. x \in accepted[s] BY <2>2, AcceptedBefore
    <2>4. PICK y \in Told(r) : y.timestamp_ms = x.timestamp_ms /\ y.seq_no >= x.seq_no
      BY <1>2, <1>5, <2>3 DEF Complete, Covers
    <2>5. y \in ToSet(r.rows) \union r.hidden \union Gone(s) BY <1>2, <2>4 DEF Told
    <2>6. Told(r)' = ToSet(r.rows) \union r.hidden \union Gone(s)' BY <1>2 DEF Told
    <2> QED BY <1>4, <2>4, <2>5, <2>6
  <1> QED BY <1>2, <1>5 DEF Complete, Covers, Asked

\* No query misses anything through a step of a writer.
LEMMA WriterMisses ==
    ASSUME StorageInv, StorageInv', IdsInv, MemoryOK, QueryInv, NothingMissed, WriterStep
    PROVE  NothingMissed'
  <1>1. Next /\ [Next]_vars BY DEF WriterStep
  <1> SUFFICES ASSUME NEW r \in Readers PROVE NoneMissed(reader[r])' BY DEF NothingMissed
  <1>2. CASE status' = "down"
    <2>1. reader' = [x \in Readers |-> IdleReader] BY <1>2 DEF WriterStep
    <2>2. reader'[r].pc = "idle" /\ reader'[r].query = None BY <2>1 DEF IdleReader
    <2> QED BY <2>2 DEF NoneMissed
  <1>3. CASE status' # "down"
    <2>1. reader' = [x \in Readers |-> Observed(reader[x], task')] BY <1>3 DEF WriterStep
    <2>2. PICK q : q = reader[r] OBVIOUS
    <2>3. PICK o : o = Observed(q, task') OBVIOUS
    <2>4. reader'[r] = o BY <2>1, <2>2, <2>3
    <2>5. ReaderType(q) /\ NoneMissed(q) /\ (status = "down" => q.pc = "idle")
      BY <2>2 DEF QueryInv, ReadersOK, NothingMissed
    <2>6. q \in ReaderRecord /\ (q.pc # "idle" => q.query \in Queries) BY <2>5 DEF ReaderType
    <2>7. NoneMissed(o)'
      <3>1. CASE q.pc = "idle"
        <4>1. o = q BY <2>3, <3>1 DEF Observed
        <4>2. CASE q.query # None /\ q.ok
          <5>1. q.query \in Queries BY <2>6, <4>2 DEF ReaderRecord
          <5>2. Complete(q, Told(q)) BY <2>5, <3>1, <4>2 DEF NoneMissed
          <5>3. Complete(q, Told(q))' BY <1>1, <2>5, <5>1, <5>2, WriterTold
          <5> QED BY <3>1, <4>1, <5>3 DEF NoneMissed
        <4> QED BY <3>1, <4>1, <4>2 DEF NoneMissed
      <3>2. CASE q.pc # "idle"
        <4>1. Complete(q, Seen(q)) /\ status # "down" BY <2>5, <3>2 DEF NoneMissed
        <4>2. Complete(o, Seen(o))' BY <1>1, <1>3, <2>3, <2>5, <3>2, <4>1, WriterSeen
        <4>3. o.pc = q.pc BY <2>3, <2>6, NextUnregistered, ObservedFacts
        <4> QED BY <3>2, <4>2, <4>3 DEF NoneMissed
      <3> QED BY <3>1, <3>2
    <2> QED BY <2>4, <2>7 DEF NoneMissed
  <1> QED BY <1>2, <1>3

\* What a query has still to read or has found, whatever the readers do.
LEMMA SameState ==
    ASSUME UNCHANGED vars, NEW r
    PROVE  NoneMissed(r)' <=> NoneMissed(r)
  BY DEF NoneMissed, Complete, Seen, Told, Ahead, Covers, Asked, Gone, vars, memory, disk, history

\* One reader changes.
LEMMA ReaderMisses ==
    ASSUME QueryInv, NothingMissed, UNCHANGED vars, NEW r \in Readers, NEW q,
           reader' = [reader EXCEPT ![r] = q], NoneMissed(q)
    PROVE  NothingMissed'
  <1> SUFFICES ASSUME NEW x \in Readers PROVE NoneMissed(reader[x])' BY DEF NothingMissed
  <1>1. PICK y : y = reader'[x] OBVIOUS
  <1>2. DOMAIN reader = Readers BY DEF QueryInv, ReadersOK
  <1>3. y = IF x = r THEN q ELSE reader[x] BY <1>1, <1>2
  <1>4. NoneMissed(y) BY <1>3 DEF NothingMissed
  <1>5. NoneMissed(y)' BY <1>4, SameState
  <1> QED BY <1>1, <1>5 DEF NoneMissed

\* What a flush has drained is hidden from the query that begins, or is in a file, evicted
\* or lost.
LEMMA HiddenOrStored ==
    ASSUME StorageInv, HandoverInv, status = "serving", NEW s \in Series, NEW y \in InFlight(s)
    PROVE  y \in Unregistered(task, s) \/ y \in Stored(s)
  <1>1. PICK a \in Actors : y \in task[a].pending[s].samples BY DEF InFlight
  <1>2. task[a] \in Task /\ TaskOK(task[a], series) BY DEF StorageInv, TypeOK
  <1>3. s \in Pending(task[a]) BY <1>1 DEF Pending
  <1>4. ASSUME Written(task[a].pending[s]) PROVE y \in Stored(s)
    BY <1>1, <1>4 DEF HandoverInv, WrittenKept
  <1>5. task[a].pc \notin {"idle", "append"} BY <1>2, <1>3 DEF TaskOK
  <1>6. CASE task[a].pc = "advance"
    <2>1. Written(task[a].pending[s]) BY <1>2, <1>3, <1>6 DEF TaskOK
    <2> QED BY <1>4, <2>1
  <1>7. CASE task[a].pc \in {"evict"} \union EvictingPCs
    <2>1. Written(task[a].pending[s]) BY <1>3, <1>7 DEF HandoverInv, FlushedWritten
    <2> QED BY <1>4, <2>1
  <1>8. CASE task[a].pc \in FlushPCs
    <2>1. a \in Tasks BY <1>8 DEF StorageInv, StatusOK, At, RunsWhile, Actors, FlushPCs
    <2> QED BY <1>1, <1>8, <2>1 DEF Unregistered
  <1>9. task[a].pc \in PCs BY <1>2 DEF Task
  <1> QED BY <1>5, <1>6, <1>7, <1>8, <1>9 DEF PCs, FlushPCs, EvictingPCs

\* A query that begins misses nothing: each file is in its snapshot, or a flush has yet to
\* register it.
LEMMA BeginMisses ==
    ASSUME StorageInv, HandoverInv, ManifestInv, FilesPlaced, QueryInv, NothingMissed,
           NEW r \in Readers, NEW q \in Queries, BeginQuery(r, q)
    PROVE  NothingMissed'
  <1>1. /\ UNCHANGED vars /\ status = "serving" /\ manifest[q.data_id] # None
    BY DEF BeginQuery
  <1>2. PICK s \in Series : s = q.data_id BY QueryFacts
  <1>3. PICK x : ReaderType(x) /\ reader' = [reader EXCEPT ![r] = x] BY BeginType
  <1>4. DOMAIN reader = Readers BY DEF QueryInv, ReadersOK
  <1>5. reader'[r] = x BY <1>3, <1>4
  <1>6. /\ x.pc = "read" /\ x.query = q /\ x.begun = clock /\ x.hidden = Unregistered(task, s)
        /\ \A m : m \in ToSet(x.todo) <=> m \in manifest[s].segments /\ Overlaps(m, q)
    BY <1>2, <1>5, BeginType
  <1>7. ASSUME NEW w \in accepted[s], Asked(q, w) PROVE Covers(Seen(x), w)
    <2>1. PICK y \in memtable[s] \union InFlight(s) \union OnDisk(s)
                     \union evicted[s] \union restarted[s] \union failed[s] :
              y.timestamp_ms = w.timestamp_ms /\ y.seq_no >= w.seq_no
      BY DEF HandoverInv, NoSilentLoss
    <2>2. Seen(x) = ToSet(x.rows) \union Unregistered(task, s) \union Gone(s)
                    \union memtable[s] \union Ahead(x)
      BY <1>2, <1>6 DEF Seen, Told
    <2>3. ASSUME y \in OnDisk(s) PROVE y \in Seen(x)
      <3>1. PICK f \in files : f.data_id = s /\ y \in f.samples BY <2>3 DEF OnDisk, FilesOf
      <3>2. f \in SegmentFile /\ f \in FileAt(s, f.segment_id)
        BY <3>1 DEF StorageInv, TypeOK, FileAt
      <3>3. Placed(f) BY <1>1 DEF FilesPlaced
      <3>4. ASSUME NEW m \in manifest[s].segments, m.segment_id = f.segment_id
            PROVE  y \in Seen(x)
        <4>1. m \in Known(s) BY <1>1, <1>2 DEF Known
        <4>2. m = MetaOf(f) BY <3>2, <3>4, <4>1 DEF ManifestInv, Described
        <4>3. MinTs(f.samples) <= y.timestamp_ms /\ y.timestamp_ms <= MaxTs(f.samples)
              /\ MinTs(f.samples) \in Timestamps /\ MaxTs(f.samples) \in Timestamps
          BY <3>1, <3>2, SampleRange DEF SegmentFile
        <4>4. q.start_ts_ms <= y.timestamp_ms /\ y.timestamp_ms <= q.end_ts_ms
          BY <1>7, <2>1 DEF Asked
        <4>5. y.timestamp_ms \in Int /\ q.start_ts_ms \in Int /\ q.end_ts_ms \in Int
          <5>1. y \in BufferedSample BY <3>1, <3>2 DEF SegmentFile
          <5> QED BY <5>1, QueryFacts, StorageAssumption DEF BufferedSample, Timestamps
        <4>6. MinTs(f.samples) \in Int /\ MaxTs(f.samples) \in Int
          BY <4>3, StorageAssumption DEF Timestamps
        <4>7. ~(MaxTs(f.samples) < q.start_ts_ms \/ MinTs(f.samples) > q.end_ts_ms)
          BY <4>3, <4>4, <4>5, <4>6
        <4>8. Overlaps(m, q) BY <4>2, <4>7 DEF Overlaps, MetaOf
        <4>9. m \in ToSet(x.todo) BY <1>6, <3>4, <4>8
        <4>10. y \in Ahead(x) BY <1>2, <1>6, <3>1, <3>4, <4>9 DEF Ahead
        <4> QED BY <2>2, <4>10
      <3>5. ASSUME NEW t \in Tasks, Owned(t, s), Written(task[t].pending[s]), NextId(t, s) = f.segment_id
            PROVE  y \in Seen(x)
        <4>1. f.samples = task[t].pending[s].samples
          BY <3>2, <3>5 DEF ManifestInv, OwnedWritten, Actors
        <4>2. task[t].pc \in FlushPCs BY <3>5, Places DEF Owned, FlushPCs
        <4>3. y \in Unregistered(task, s) BY <3>1, <4>1, <4>2 DEF Unregistered
        <4> QED BY <2>2, <4>3
      <3> QED BY <3>1, <3>3, <3>4, <3>5 DEF Placed
    <2>4. CASE y \in memtable[s] \union evicted[s] \union restarted[s] \union failed[s]
      BY <2>1, <2>2, <2>4 DEF Covers, Gone
    <2>5. CASE y \in OnDisk(s) BY <2>1, <2>3, <2>5 DEF Covers
    <2>6. CASE y \in InFlight(s)
      <3>1. y \in Unregistered(task, s) \/ y \in Stored(s) BY <1>1, <2>6, HiddenOrStored
      <3>2. y \in Seen(x) BY <2>2, <2>3, <3>1 DEF Stored, Gone
      <3> QED BY <2>1, <3>2 DEF Covers
    <2> QED BY <2>1, <2>4, <2>5, <2>6
  <1>8. Complete(x, Seen(x)) BY <1>2, <1>6, <1>7 DEF Complete
  <1>9. NoneMissed(x) BY <1>6, <1>8 DEF NoneMissed
  <1> QED BY <1>1, <1>3, <1>9, ReaderMisses

\* A query that reads a segment finds the samples of its file that it asks for.
LEMMA CollectMisses ==
    ASSUME StorageInv, QueryInv, NothingMissed, UNCHANGED vars, NEW r \in Readers,
           reader[r].pc = "read", reader[r].todo # << >>,
           NEW samples \in SUBSET BufferedSample, Lone(samples), Collect(r, samples),
           \A f \in FileAt(reader[r].query.data_id, Head(reader[r].todo).segment_id) :
               f.samples = samples
    PROVE  NothingMissed'
  <1> DEFINE found == Found(r, samples)
  <1>1. PICK p : p = reader[r] OBVIOUS
  <1>2. PICK q : q = [p EXCEPT !.rows = p.rows \o found, !.todo = Tail(p.todo)] OBVIOUS
  <1>3. ReaderType(p) /\ p \in ReaderRecord /\ p.query \in Queries /\ p.rows \in Seq(BufferedSample)
        /\ DOMAIN reader = Readers
    BY <1>1, ReaderRuns
  <1>4. reader' = [reader EXCEPT ![r] = q] BY <1>1, <1>2, <1>3, CollectFacts, Zenon
  <1>5. /\ found \in Seq(BufferedSample)
        /\ p.query.limit = NoLimit =>
               ToSet(found) = {x \in samples : /\ p.query.start_ts_ms <= x.timestamp_ms
                                               /\ x.timestamp_ms <= p.query.end_ts_ms}
    BY <1>1, <1>3, FoundFacts
  <1>6. ToSet(p.todo) = {Head(p.todo)} \union ToSet(Tail(p.todo))
    BY <1>1, <1>3, HeadFacts
  <1> HIDE DEF found
  <1>7. q.rows = p.rows \o found /\ q.todo = Tail(p.todo) /\ q.query = p.query
        /\ q.begun = p.begun /\ q.hidden = p.hidden /\ q.pc = p.pc
    BY <1>2, <1>3 DEF ReaderRecord
  <1>8. ToSet(q.rows) = ToSet(p.rows) \union ToSet(found) BY <1>3, <1>5, <1>7, ConcatFacts
  <1>9. PICK s \in Series : s = p.query.data_id BY <1>3, QueryFacts
  <1>10. Complete(p, Seen(p)) BY <1>1 DEF NothingMissed, NoneMissed
  <1>11. ASSUME NEW w \in accepted[s], Asked(p.query, w), w.seq_no <= p.begun
         PROVE  Covers(Seen(q), w)
    <2>1. PICK y \in Seen(p) : y.timestamp_ms = w.timestamp_ms /\ y.seq_no >= w.seq_no
      BY <1>9, <1>10, <1>11 DEF Complete, Covers
    <2>2. CASE y \in ToSet(p.rows) \union p.hidden \union Gone(s) \union memtable[s]
      <3>1. y \in Seen(q) BY <1>7, <1>8, <1>9, <2>2 DEF Seen, Told
      <3> QED BY <2>1, <3>1 DEF Covers
    <2>3. CASE y \in Ahead(p)
      <3>1. PICK f \in files, m \in ToSet(p.todo) :
                f.data_id = s /\ y \in f.samples /\ m.segment_id = f.segment_id
        BY <1>9, <2>3 DEF Ahead
      <3>2. CASE m \in ToSet(Tail(p.todo))
        <4>1. y \in Ahead(q) BY <1>7, <1>9, <3>1, <3>2 DEF Ahead
        <4>2. y \in Seen(q) BY <4>1 DEF Seen
        <4> QED BY <2>1, <4>2 DEF Covers
      <3>3. CASE m = Head(p.todo)
        <4>1. f.samples = samples BY <1>1, <1>9, <3>1, <3>3 DEF FileAt
        <4>2. y \in ToSet(found) BY <1>5, <1>11, <2>1, <3>1, <4>1 DEF Asked
        <4>3. y \in Seen(q) BY <1>8, <4>2 DEF Seen, Told
        <4> QED BY <2>1, <4>3 DEF Covers
      <3> QED BY <1>6, <3>1, <3>2, <3>3
    <2> QED BY <1>9, <2>1, <2>2, <2>3 DEF Seen, Told
  <1>12. Complete(q, Seen(q)) BY <1>7, <1>9, <1>11 DEF Complete
  <1>13. NoneMissed(q) BY <1>1, <1>7, <1>12 DEF NoneMissed
  <1> QED BY <1>4, <1>13, ReaderMisses

\* The memtable has what has not been flushed, and what is merged away is later there.
LEMMA MemoryMisses ==
    ASSUME StorageInv, HandoverInv, SamplesInv, QueryInv, NothingMissed, NEW r \in Readers,
           ReadMemory(r)
    PROVE  NothingMissed'
  <1>1. reader[r].pc = "memory" /\ UNCHANGED vars BY DEF ReadMemory
  <1>2. PICK p : p = reader[r] OBVIOUS
  <1>3. ReaderType(p) /\ p \in ReaderRecord /\ p.query \in Queries /\ p.pc = "memory"
        /\ DOMAIN reader = Readers
    BY <1>1, <1>2, ReaderRuns
  <1>4. PICK rows, ok : Answer(r, rows, ok) BY DEF ReadMemory
  <1>5. PICK q : q = [p EXCEPT !.pc = "idle", !.todo = << >>, !.rows = rows, !.ok = ok] OBVIOUS
  <1>6. reader' = [reader EXCEPT ![r] = q] BY <1>2, <1>4, <1>5 DEF Answer
  <1>7. /\ q.pc = "idle" /\ q.query = p.query /\ q.begun = p.begun /\ q.hidden = p.hidden
        /\ q.rows = rows /\ q.ok = ok
    BY <1>3, <1>5 DEF ReaderRecord
  <1>8. reader'[r] = q BY <1>3, <1>6
  <1>9. PICK s \in Series : s = p.query.data_id BY <1>3, QueryFacts
  <1>10. Complete(p, Seen(p)) BY <1>2, <1>3 DEF NothingMissed, NoneMissed
  <1>11. Ahead(p) = {}
    <2>1. p.todo = << >> BY <1>3 DEF ReaderType
    <2>2. ToSet(p.todo) = {} BY <2>1 DEF ToSet
    <2> QED BY <2>2 DEF Ahead
  <1> DEFINE last == LastWrites(memtable[s])
  <1>12. p.query.limit = NoLimit /\ q.ok =>
             \A x \in ToSet(p.rows) \union last : Asked(p.query, x) =>
                 \/ x \in ToSet(q.rows)
                 \/ \E y \in ToSet(q.rows) : y \in last /\ y.timestamp_ms = x.timestamp_ms
    BY <1>2, <1>8, <1>9, MemoryStep
  <1>13. memtable[s] \in SUBSET BufferedSample /\ clock \in Nat /\ accepted[s] \in SUBSET BufferedSample
    BY DEF StorageInv, TypeOK
  <1>14. ASSUME NEW w \in accepted[s], Asked(p.query, w), w.seq_no <= p.begun, q.ok
         PROVE  Covers(Told(q), w)
    <2>1. PICK y \in Seen(p) : y.timestamp_ms = w.timestamp_ms /\ y.seq_no >= w.seq_no
      BY <1>9, <1>10, <1>14 DEF Complete, Covers
    <2>2. Told(q) = ToSet(q.rows) \union p.hidden \union Gone(s) BY <1>7, <1>9 DEF Told
    <2>3. ASSUME NEW z \in ToSet(q.rows), z \in last, z.timestamp_ms = w.timestamp_ms
          PROVE  z.seq_no >= w.seq_no
      <3>1. z \in memtable[s] /\ \A x \in memtable[s] :
                x.timestamp_ms = z.timestamp_ms => x.seq_no <= z.seq_no
        BY <2>3 DEF LastWrites
      <3>2. w.seq_no \in Nat /\ z.seq_no \in Nat BY <1>13, <3>1 DEF BufferedSample
      <3>3. CASE w \in memtable[s] BY <2>3, <3>1, <3>2, <3>3
      <3>4. CASE ~(w.seq_no > z.seq_no) BY <3>2, <3>4
      <3>5. w.seq_no > z.seq_no => w \in memtable[s] BY <3>1 DEF SamplesInv, MemoryLatest
      <3> QED BY <3>3, <3>4, <3>5
    <2>4. ASSUME NEW x \in ToSet(p.rows) \union last, x.timestamp_ms = w.timestamp_ms,
                 x.seq_no >= w.seq_no
          PROVE  Covers(Told(q), w)
      <3>1. p.query.limit = NoLimit /\ Asked(p.query, x) BY <1>14, <2>4 DEF Asked
      <3>2. CASE x \in ToSet(q.rows) BY <2>2, <2>4, <3>2 DEF Covers
      <3>3. ASSUME NEW z \in ToSet(q.rows), z \in last, z.timestamp_ms = x.timestamp_ms
            PROVE  Covers(Told(q), w)
        <4>1. z.timestamp_ms = w.timestamp_ms BY <2>4, <3>3
        <4>2. z.seq_no >= w.seq_no BY <2>3, <3>3, <4>1
        <4> QED BY <2>2, <4>1, <4>2 DEF Covers
      <3> QED BY <1>12, <1>14, <2>4, <3>1, <3>2, <3>3
    <2>5. CASE y \in ToSet(p.rows) BY <2>1, <2>4, <2>5
    <2>6. CASE y \in p.hidden \union Gone(s) BY <2>1, <2>2, <2>6 DEF Covers
    <2>7. CASE y \in memtable[s]
      <3>1. \A x \in memtable[s] : x.seq_no <= clock BY DEF HandoverInv, MemoryOK
      <3>2. PICK x \in last : x.timestamp_ms = y.timestamp_ms /\ x.seq_no >= y.seq_no
        BY <1>13, <2>7, <3>1, LastWriteStays
      <3>3. x.seq_no \in Nat /\ y.seq_no \in Nat /\ w.seq_no \in Nat
        BY <1>13, <2>7 DEF LastWrites, BufferedSample
      <3>4. x.timestamp_ms = w.timestamp_ms /\ x.seq_no >= w.seq_no BY <2>1, <3>2, <3>3
      <3> QED BY <2>4, <3>4
    <2> QED BY <1>9, <1>11, <2>1, <2>5, <2>6, <2>7 DEF Seen, Told
  <1>15. q.ok => Complete(q, Told(q)) BY <1>7, <1>9, <1>14 DEF Complete
  <1>16. NoneMissed(q) BY <1>7, <1>15 DEF NoneMissed
  <1> QED BY <1>1, <1>6, <1>16, ReaderMisses

\* No query misses anything through a step of a reader.
LEMMA ReadersMiss ==
    ASSUME StorageInv, HandoverInv, IdsInv, ManifestInv, SamplesInv, FilesPlaced, QueryInv,
           NothingMissed, NEW r \in Readers, ReaderStep(r)
    PROVE  NothingMissed'
  <1>1. UNCHANGED vars BY ReaderStutter
  <1>2. ASSUME NEW q \in Queries, BeginQuery(r, q) PROVE NothingMissed' BY <1>2, BeginMisses
  <1>3. CASE ReadCached(r)
    <2>1. reader[r].pc = "read" /\ reader[r].todo # << >> BY <1>3 DEF ReadCached, Reading
    <2>2. PICK c \in Cached(reader[r].query, Head(reader[r].todo)) : Collect(r, c.samples)
      BY <1>3 DEF ReadCached
    <2>3. /\ c.samples \in SUBSET BufferedSample /\ Lone(c.samples)
          /\ \A f \in FileAt(c.data_id, c.segment_id) : f.samples = c.samples
      BY <2>2 DEF Cached, QueryInv, CacheOK, CacheType, CacheHonest
    <2>4. c.data_id = reader[r].query.data_id /\ c.segment_id = Head(reader[r].todo).segment_id
      BY <2>2 DEF Cached
    <2> QED BY <1>1, <2>1, <2>2, <2>3, <2>4, CollectMisses
  <1>4. CASE ReadFile(r)
    <2>1. reader[r].pc = "read" /\ reader[r].todo # << >> BY <1>4 DEF ReadFile, Reading
    <2>2. PICK f \in FileAt(reader[r].query.data_id, Head(reader[r].todo).segment_id) :
                     Collect(r, f.samples)
      BY <1>4 DEF ReadFile
    <2>3. f.samples \in SUBSET BufferedSample /\ Lone(f.samples)
      BY <2>2 DEF FileAt, StorageInv, TypeOK, SegmentFile, SamplesInv
    <2>4. \A g \in FileAt(reader[r].query.data_id, Head(reader[r].todo).segment_id) :
              g.samples = f.samples
      BY <2>2 DEF FileAt, IdsInv, UniquePaths
    <2> QED BY <1>1, <2>1, <2>2, <2>3, <2>4, CollectMisses
  <1>5. ASSUME NEW rows, NEW ok \in BOOLEAN, Answer(r, rows, ok), reader[r].pc # "idle",
               ok => reader[r].query.limit # NoLimit
        PROVE  NothingMissed'
    <2>1. PICK q : q = [reader[r] EXCEPT !.pc = "idle", !.todo = << >>, !.rows = rows, !.ok = ok]
      OBVIOUS
    <2>2. reader' = [reader EXCEPT ![r] = q] BY <1>5, <2>1 DEF Answer
    <2>3. reader[r] \in ReaderRecord BY <1>5, ReaderRuns
    <2>4. q.pc = "idle" /\ q.query = reader[r].query /\ q.ok = ok BY <2>1, <2>3 DEF ReaderRecord
    <2>5. q.ok => Complete(q, Told(q)) BY <1>5, <2>4 DEF Complete, Asked
    <2>6. NoneMissed(q) BY <2>4, <2>5 DEF NoneMissed
    <2> QED BY <1>1, <2>2, <2>6, ReaderMisses
  <1>6. CASE ReadMissing(r)
    <2>1. Answer(r, << >>, FALSE) /\ reader[r].pc = "read" BY <1>6 DEF ReadMissing, Reading
    <2> QED BY <1>5, <2>1
  <1>7. CASE ReadEnough(r)
    <2>1. /\ \E rows : Answer(r, rows, TRUE)
          /\ reader[r].pc = "read" /\ reader[r].query.limit # NoLimit
      BY <1>7 DEF ReadEnough, Reading, Full
    <2> QED BY <1>5, <2>1
  <1>8. CASE ReadAll(r)
    <2>1. reader[r].pc = "read" /\ reader' = [reader EXCEPT ![r].pc = "memory"]
      BY <1>8 DEF ReadAll, Reading
    <2>2. PICK q : q = [reader[r] EXCEPT !.pc = "memory"] OBVIOUS
    <2>3. reader' = [reader EXCEPT ![r] = q] BY <2>1, <2>2
    <2>4. reader[r] \in ReaderRecord BY <2>1, ReaderRuns
    <2>5. /\ q.pc = "memory" /\ q.query = reader[r].query /\ q.begun = reader[r].begun
          /\ q.rows = reader[r].rows /\ q.hidden = reader[r].hidden /\ q.todo = reader[r].todo
      BY <2>2, <2>4 DEF ReaderRecord
    <2>6. Complete(reader[r], Seen(reader[r])) BY <2>1 DEF NothingMissed, NoneMissed
    <2>7. Complete(q, Seen(q)) BY <2>5, <2>6 DEF Complete, Seen, Told, Ahead
    <2>8. NoneMissed(q) BY <2>5, <2>7 DEF NoneMissed
    <2> QED BY <1>1, <2>3, <2>8, ReaderMisses
  <1> QED BY <1>2, <1>3, <1>4, <1>6, <1>7, <1>8, MemoryMisses DEF ReaderStep

\* While nothing has failed, no query misses anything.
LEMMA NextMisses ==
    ASSUME StorageInv, StorageInv', IdsInv, ManifestInv, HandoverInv, SamplesInv, PlacesInv,
           QueryInv, NoFailure => NothingMissed, [QueryNext]_queryVars
    PROVE  (NoFailure => NothingMissed)'
  <1> SUFFICES ASSUME NoFailure' PROVE NothingMissed' OBVIOUS
  <1>1. [Next]_vars BY ReaderStutter DEF QueryNext, WriterStep, queryVars
  <1>2. NoFailure BY <1>1, NoFailureBefore
  <1>3. NothingMissed /\ MemoryOK BY <1>2 DEF HandoverInv
  <1>4. CASE WriterStep BY <1>3, <1>4, WriterMisses
  <1>5. ASSUME NEW r \in Readers, ReaderStep(r) PROVE NothingMissed'
    <2>1. PICK q : q = reader[r] OBVIOUS
    <2>2. status # "down"
      <3>1. CASE reader[r].pc # "idle" BY <3>1, ReaderRuns
      <3>2. CASE reader[r].pc = "idle"
        BY <1>5, <3>2
        DEF ReaderStep, BeginQuery, ReadCached, ReadFile, ReadMissing, ReadEnough, ReadAll,
            ReadMemory, Reading
      <3> QED BY <3>1, <3>2
    <2>3. FilesPlaced BY <1>2 DEF PlacesInv
    <2> QED BY <1>3, <1>5, <2>3, ReadersMiss
  <1>6. CASE UNCHANGED queryVars
    <2>1. UNCHANGED vars /\ reader' = reader BY <1>6 DEF queryVars, readVars
    <2> SUFFICES ASSUME NEW r \in Readers PROVE NoneMissed(reader[r])' BY DEF NothingMissed
    <2>2. PICK q : q = reader[r] OBVIOUS
    <2>3. NoneMissed(q)' BY <1>3, <2>1, <2>2, SameState DEF NothingMissed
    <2> QED BY <2>1, <2>2, <2>3 DEF NoneMissed
  <1> QED BY <1>4, <1>5, <1>6 DEF QueryNext

\* A query without a limit finds every write that was accepted before it began, or a later
\* one of its timestamp, unless a flush held it unregistered while the query ran, or an
\* eviction or a restart has taken it - as long as no call has failed: a flush that fails
\* leaves files that the manifest does not know.
THEOREM NothingMissedWithoutFailure == QuerySpec => [](NoFailure => MissesOnlyInFlight)
  <1>1. QueryInit => (NoFailure => NothingMissed)
    <2> SUFFICES ASSUME QueryInit, NEW r \in Readers PROVE NoneMissed(reader[r])
      BY DEF NothingMissed
    <2>1. reader[r].pc = "idle" /\ reader[r].query = None BY DEF QueryInit, IdleReader
    <2> QED BY <2>1 DEF NoneMissed
  <1>2. (NoFailure => NothingMissed) => (NoFailure => MissesOnlyInFlight)
    BY DEF NothingMissed, NoneMissed, MissesOnlyInFlight, Answered, Complete, Covers, Told
  <1> QED BY <1>1, <1>2, NextMisses, QueriesBeside, StorageInvariant, IdsInvariant,
             ManifestInvariant, HandoverInvariant, SamplesInvariant, PlacesInvariant,
             QueryInvariant, PTL DEF QuerySpec

-----------------------------------------------------------------------------
(* The segments of a client that is alone are in order of time.            *)

\* The segments of s, registered or not.
Metas(s) == SegmentsOf(manifest[s]) \union {MetaOf(f) : f \in FilesOf(s)}
InOrderOfIds ==
    \A s \in Series : \A m \in Metas(s) :
        /\ m.min_ts_ms <= m.max_ts_ms
        /\ \A n \in Metas(s) : m.segment_id < n.segment_id => m.max_ts_ms < n.min_ts_ms

\* A flush that will raise flushed_max_ts of s.
Raises(t, s) == Owned(t, s) \/ (task[t].pc = "advance" /\ s \in task[t].todo)

\* Timestamps up to ts are behind those in memory, and no append will accept one.
Settles(s, ts) ==
    \/ flushed_max_ts[s] # None /\ flushed_max_ts[s] >= ts
    \/ \E t \in Tasks : Raises(t, s) /\ MaxTs(task[t].pending[s].samples) >= ts
Behind(s, ts) == Settles(s, ts) /\ \A x \in memtable[s] : ts < x.timestamp_ms
AllBehind == status # "down" => \A s \in series : \A m \in Metas(s) : Behind(s, m.max_ts_ms)

\* What a flush has drained and not written is after all segments, and so is its id; and it
\* has left nothing in the memtable.
DrainedAfter ==
    \A a \in Actors, s \in Series : ~Written(task[a].pending[s]) =>
        \A x \in task[a].pending[s].samples : \A m \in Metas(s) : m.max_ts_ms < x.timestamp_ms
OwnedAbove ==
    \A a \in Actors, s \in Series : Owned(a, s) => \A m \in Metas(s) : m.segment_id <= NextId(a, s)
MemoryDrained ==
    \A a \in Actors, s \in Series :
        s \in Pending(task[a]) /\ task[a].pc \in HoldingPCs => memtable[s] = {}
FlushInv == InOrderOfIds /\ AllBehind /\ DrainedAfter /\ OwnedAbove /\ MemoryDrained

\* They are segments.
LEMMA MetasType ==
    ASSUME StorageInv, NEW s \in Series, NEW m \in Metas(s)
    PROVE  /\ m \in SegmentMeta /\ m.segment_id \in Nat
           /\ m.min_ts_ms \in Int /\ m.max_ts_ms \in Int
           /\ status # "down" /\ IdsInv => manifest[s] # None
  <1>1. CASE m \in SegmentsOf(manifest[s])
    <2>1. manifest[s] # None /\ manifest[s] \in SeriesEntry
      BY <1>1 DEF SegmentsOf, StorageInv, TypeOK, Manifest
    <2>2. m \in SegmentMeta BY <1>1, <2>1 DEF SegmentsOf, SeriesEntry
    <2> QED BY <2>1, <2>2, StorageAssumption DEF SegmentMeta, Timestamps
  <1>2. CASE m \notin SegmentsOf(manifest[s])
    <2>1. PICK f \in FilesOf(s) : m = MetaOf(f) BY <1>2 DEF Metas
    <2>2. f \in SegmentFile /\ f \in files /\ f.data_id = s BY <2>1 DEF FilesOf, StorageInv, TypeOK
    <2>3. m \in SegmentMeta BY <2>1, <2>2, MetaOfType
    <2>4. status # "down" /\ IdsInv => manifest[s] # None BY <2>2 DEF IdsInv, FilesBelow
    <2> QED BY <2>3, <2>4, StorageAssumption DEF SegmentMeta, Timestamps
  <1> QED BY <1>1, <1>2

\* A segment is new in the manifest through a commit, or a recovery.
LEMMA SegmentsChange ==
    ASSUME StorageInv, StorageInv', [Next]_vars, ~Open, NEW s \in Series,
           NEW m \in SegmentsOf(manifest'[s]), m \notin SegmentsOf(manifest[s])
    PROVE  \E t \in Tasks : /\ \E ok \in BOOLEAN : Commit(t, ok)
                            /\ Owned(t, s) /\ Written(task[t].pending[s]) /\ m = FlushMeta(t, s)
  <1>1. /\ manifest'[s] # None /\ m \in manifest'[s].segments /\ manifest'[s] # manifest[s]
        /\ manifest[s] # None => m \notin manifest[s].segments
        /\ manifest \in [Series -> SeriesEntry \union {None}]
    BY DEF SegmentsOf, StorageInv, TypeOK, Manifest
  <1>2. ASSUME NEW t \in Tasks, NEW ok \in BOOLEAN, Commit(t, ok)
        PROVE  Owned(t, s) /\ Written(task[t].pending[s]) /\ m = FlushMeta(t, s)
    BY <1>1, <1>2, CommitFacts
  <1>3. ASSUME NEW t \in Tasks, Alloc(t) PROVE FALSE
    <2>1. manifest[s] # None => manifest'[s].segments = manifest[s].segments
      BY <1>3, AllocShape
    <2>2. s \in Pending(task[t])
      <3>1. manifest'[s] = IF s \in Pending(task[t]) THEN [manifest[s] EXCEPT !.next_segment_id = @ + 1]
                                                     ELSE manifest[s]
        BY <1>3 DEF Alloc
      <3> QED BY <1>1, <3>1
    <2>3. manifest[s] # None BY <2>2 DEF StorageInv, TaskOK, SeriesOK, Actors
    <2> QED BY <1>1, <2>1, <2>3
  <1>4. ASSUME NEW t \in Tasks, AppendStep(t) \/ FlushStep(t)
        PROVE  \E ok \in BOOLEAN : Commit(t, ok)
    BY <1>1, <1>3, <1>4, Zenon DEF AppendStep, AppendGroup, FlushStep, Prepare, Mkdir, CreateTmp,
                            CreateTmpNoDir, WriteFails, Rename, Advance, memory
  <1>5. ASSUME NEW a \in Actors, NEW x \in Series, NEW ok \in BOOLEAN, EvictUpdate(a, x, ok)
        PROVE  FALSE
    <2>1. manifest' = [manifest EXCEPT ![x] = Dropped(manifest[x], task[a].victim)]
      BY <1>5 DEF EvictUpdate, Save
    <2>2. x = s BY <1>1, <2>1
    <2>3. x \in series
      BY <1>5 DEF EvictUpdate, Working, StorageInv, TaskOK, EvictingPCs
    <2>4. manifest[s] \in SeriesEntry /\ manifest[s] # None
      BY <1>1, <2>2, <2>3 DEF StorageInv, SeriesOK
    <2>5. manifest'[s].segments \subseteq manifest[s].segments
      BY <1>1, <2>1, <2>2, <2>4, DroppedFacts
    <2> QED BY <1>1, <2>4, <2>5
  <1>6. ASSUME NEW a \in Actors, EvictStep(a) \/ EvictError(a) PROVE FALSE
    BY <1>1, <1>5, <1>6, Zenon
    DEF EvictStep, EvictError, EvictChoose, EvictDone, EvictRemove, DirCheck,
                            Rmdir, EvictRemoveFails, DirCheckFails, memory
  <1>7. CASE Client
    <2>1. ASSUME NEW x \in Series, NEW type \in SeriesTypes, NEW limit \in Limits,
                 NEW ok \in BOOLEAN, Register(x, type, limit, ok)
          PROVE  FALSE
      <3>1. manifest' = [manifest EXCEPT ![x] = NewEntry(type, Clamp(limit))]
        BY <2>1 DEF Register, Save
      <3>2. manifest'[s] = NewEntry(type, Clamp(limit)) BY <1>1, <3>1
      <3> QED BY <1>1, <3>2 DEF NewEntry
    <2> QED BY <1>1, <1>7, <2>1, Zenon DEF Client, BeginAppend, BeginFlush, memory
  <1>8. ~Crash BY <1>1 DEF Crash
  <1>9. ~LoseManifest /\ ~(\E f \in files : HeaderUnreadable(f)) /\ ~UNCHANGED vars
    BY <1>1 DEF LoseManifest, HeaderUnreadable, vars, memory
  <1>10. Opener \in Actors /\ Tasks \subseteq Actors BY DEF Actors
  <1> QED BY <1>2, <1>4, <1>6, <1>7, <1>8, <1>9, <1>10 DEF Next, Running

\* The flush of t publishes m.
Brings(t, s, m) ==
    /\ task[t].pc = "rename" /\ Owned(t, s) /\ Writing(t, s)
    /\ m.segment_id = NextId(t, s)
    /\ m.min_ts_ms = MinTs(task[t].pending[s].samples)
    /\ m.max_ts_ms = MaxTs(task[t].pending[s].samples)
    /\ \E size \in SegmentSizes, ok \in BOOLEAN : Rename(t, s, size, ok)

\* Any other segment was there before the step.
LEMMA MetasGrow ==
    ASSUME StorageInv, StorageInv', ManifestInv, OneType, EvictInv, [Next]_vars,
           NEW s \in Series, NEW m \in Metas(s)', m \notin Metas(s)
    PROVE  \E t \in Tasks : Brings(t, s, m)
  <1>1. ASSUME NEW f \in files', f.data_id = s, m = MetaOf(f)
        PROVE  \E t \in Tasks : Brings(t, s, m)
    <2>1. f \notin files BY <1>1 DEF Metas, FilesOf
    <2>2. PICK t \in Tasks : Publishes(t, f) BY <2>1, NextFiles
    <2> QED BY <1>1, <2>2 DEF Publishes, Brings, MetaOf
  <1>2. CASE m \in SegmentsOf(manifest'[s])
    <2>1. manifest'[s] # None /\ m \in manifest'[s].segments BY <1>2 DEF SegmentsOf
    <2>2. CASE Open
      <3>1. files' = files BY <2>2, OpenTypes
      <3>2. manifest'[s] = RecoveredEntry(s) BY <2>2 DEF Open, Save
      <3>3. m \in RecoveredSegments(s) BY <2>1, <3>2 DEF RecoveredEntry
      <3>4. PICK f \in files : f.data_id = s /\ m = MetaOf(f)
        <4>1. CASE m \in Kept(s)
          <5>1. saved[s] # None /\ m \in saved[s].segments /\ FileAt(s, m.segment_id) # {}
            BY <4>1 DEF Kept
          <5>2. m \in Known(s) BY <5>1 DEF Known
          <5>3. PICK f \in FileAt(s, m.segment_id) : TRUE BY <5>1
          <5> QED BY <5>2, <5>3 DEF ManifestInv, Described, FileAt
        <4>2. CASE m \notin Kept(s)
          BY <3>3, <4>2 DEF RecoveredSegments, Unknown, FilesOf
        <4> QED BY <4>1, <4>2
      <3> QED BY <3>4 DEF Metas, FilesOf
    <2>3. CASE ~Open
      <3>1. m \notin SegmentsOf(manifest[s]) BY DEF Metas
      <3>2. PICK t \in Tasks : Owned(t, s) /\ Written(task[t].pending[s]) /\ m = FlushMeta(t, s)
        BY <1>2, <2>3, <3>1, SegmentsChange
      <3>3. t \in Actors BY DEF Actors
      <3>4. PICK f \in files : f.data_id = s /\ f.segment_id = NextId(t, s)
        BY <3>2, <3>3 DEF EvictInv, WrittenThere, HasFile
      <3>5. f.samples = task[t].pending[s].samples /\ f.size_bytes = task[t].pending[s].size_bytes
        BY <3>2, <3>3, <3>4 DEF ManifestInv, OwnedWritten, FileAt
      <3>6. m = MetaOf(f) BY <3>2, <3>4, <3>5 DEF FlushMeta, MetaOf
      <3> QED BY <3>4, <3>6 DEF Metas, FilesOf
    <2> QED BY <2>2, <2>3
  <1> QED BY <1>1, <1>2 DEF Metas, FilesOf

\* A thread that is about to drain a memtable drains that one.
LEMMA DrainStep ==
    ASSUME StorageInv, StorageInv', [Next]_vars, NEW a \in Actors, NEW s \in Series,
           task[a].pc = "prepare", s \in Pending(task'[a]), s \notin Pending(task[a]), OneThread
    PROVE  memtable'[s] = {}
  <1>1. /\ Alone(a) /\ task \in [Actors -> Task] /\ task[a] \in Task
        /\ memtable \in [Series -> SUBSET BufferedSample] /\ task'[a] # task[a]
    BY AloneActs DEF StorageInv, TypeOK
  <1>2. ASSUME NEW t \in Tasks, NEW x \in Series, Prepare(t, x) PROVE memtable'[s] = {}
    <2> DEFINE q == [task[t] EXCEPT !.pending[x].samples = LastWrites(memtable[x])]
               v == Visited(q, x, "alloc", Pending(q))
    <2>1. t = a BY <1>1, <1>2 DEF Prepare, At, Alone, Actors
    <2>2. task'[t] = v BY <1>1, <1>2, <2>1 DEF Prepare
    <2>3. LastWrites(memtable[x]) \in SUBSET BufferedSample BY <1>1, LastWritesType
    <2>4. q \in Task
      <3>1. task[t] \in Task BY <1>1, <2>1
      <3> QED BY <2>3, <3>1, Zenon DEF Task, PendingFlush
    <2>5. x # s => q.pending[s].samples = task[t].pending[s].samples
      BY <1>1, <2>1 DEF Task, PendingFlush
    <2> HIDE DEF q
    <2>6. v.pending[s].samples = q.pending[s].samples BY <2>4, VisitedPending
    <2> HIDE DEF v
    <2>7. x = s BY <2>1, <2>2, <2>5, <2>6 DEF Pending
    <2>8. memtable' = [memtable EXCEPT ![x] = {}] BY <1>2 DEF Prepare
    <2> QED BY <1>1, <2>7, <2>8
  <1>3. ASSUME NEW t \in Actors, task[t].pc \in {"append"} \union OwningPCs \union
                   {"alloc", "advance", "evict"} \union EvictingPCs
        PROVE  FALSE
    BY <1>1, <1>3 DEF Alone, OwningPCs, WritingPCs, EvictingPCs
  <1>4. ASSUME NEW t \in Tasks, AppendStep(t) \/ FlushStep(t)
        PROVE  \E x \in Series : Prepare(t, x)
    <2>1. t \in Actors BY DEF Actors
    <2> QED BY <1>3, <1>4, <2>1, Zenon
        DEF AppendStep, AppendGroup, FlushStep, Alloc, Commit, Mkdir, CreateTmp,
            CreateTmpNoDir, WriteFails, Rename, Advance, At, Working, OwningPCs, WritingPCs
  <1>5. ASSUME NEW t \in Actors, EvictStep(t) \/ EvictError(t) PROVE FALSE
    BY <1>3, <1>5, Zenon
    DEF EvictStep, EvictError, EvictChoose, EvictDone, EvictRemove, EvictRemoveFails,
                  DirCheck, DirCheckFails, Rmdir, EvictUpdate, At, Working, EvictingPCs
  <1>6. CASE Client
    <2>1. ASSUME NEW t \in Tasks, task[t].pc = "idle", task' = [task EXCEPT ![t] = task'[t]]
          PROVE  FALSE
      <3>1. t = a
        <4>1. t # a => task'[a] = task[a] BY <1>1, <2>1
        <4> QED BY <1>1, <4>1
      <3> QED BY <2>1, <3>1
    <2>2. \A t \in Tasks : ~(\E batch \in Batches : BeginAppend(t, batch))
      BY <1>1, <2>1, Zenon DEF BeginAppend, At, StorageInv, TypeOK
    <2>3. \A t \in Tasks : ~(\E ids \in (SUBSET series) \ {{}} : BeginFlush(t, ids))
      BY <1>1, <2>1 DEF BeginFlush, At, StorageInv, TypeOK
    <2> QED BY <1>1, <1>6, <2>2, <2>3 DEF Client, Register
  <1>7. CASE Crash \/ LoseManifest \/ Open \/ UNCHANGED vars
    <2>1. ~Open /\ ~Crash BY OpenTask, IdleTaskType DEF Crash, Pending
    <2> QED BY <1>1, <1>7, <2>1 DEF LoseManifest, vars
  <1>8. \A f \in files : ~HeaderUnreadable(f) BY <1>1 DEF HeaderUnreadable
  <1>9. Opener \in Actors /\ Tasks \subseteq Actors BY DEF Actors
  <1> QED BY <1>2, <1>4, <1>5, <1>6, <1>7, <1>8, <1>9 DEF Next, Running

\* A flush that has to raise flushed_max_ts of s goes on having to, or does it.
LEMMA RaiseStep ==
    ASSUME StorageInv, StorageInv', [Next]_vars, status' # "down", NEW t \in Tasks, NEW s \in Series,
           task[t].pc = "advance", s \in task[t].todo
    PROVE  \/ /\ task'[t].pc = "advance" /\ s \in task'[t].todo
              /\ task'[t].pending = task[t].pending
           \/ Advance(t, s)
  <1> DEFINE Goal == \/ /\ task'[t].pc = "advance" /\ s \in task'[t].todo
                        /\ task'[t].pending = task[t].pending
                     \/ Advance(t, s)
  <1>1. t \in Actors /\ status # "down" BY RunningStatus DEF Actors, RunsWhile
  <1>2. ASSUME task'[t] = task[t] PROVE Goal BY <1>2
  <1>3. ASSUME NEW b \in Actors, b # t, Steps(b) PROVE Goal BY <1>1, <1>2, <1>3, StepsAlone
  <1>4. ASSUME NEW x \in Series, Advance(t, x) PROVE Goal
    <2>1. CASE x = s BY <1>4, <2>1
    <2>2. CASE x # s
      <3>1. /\ task'[t].pending = task[t].pending
            /\ task'[t].pc = "advance" /\ task'[t].todo = task[t].todo \ {x}
        BY <1>4, <2>2, AdvanceMoves
      <3> QED BY <2>2, <3>1
    <2> QED BY <2>1, <2>2
  <1>5. ASSUME Running(t) PROVE Goal
    <2>1. \E x \in Series : Advance(t, x)
      BY <1>5 DEF Running, AppendStep, AppendGroup, FlushStep, Alloc, Commit, Prepare, Mkdir,
                  CreateTmp, CreateTmpNoDir, WriteFails, Rename, EvictStep, EvictError, EvictChoose,
                  EvictDone, EvictRemove, EvictRemoveFails, DirCheck, DirCheckFails, Rmdir,
                  EvictUpdate, At, Working
    <2> QED BY <2>1, <1>4
  <1> HIDE DEF Goal
  <1>6. ASSUME NEW b \in Actors, (b \in Tasks /\ Running(b)) \/ EvictStep(b) PROVE Goal
    <2>1. CASE b # t BY <1>3, <1>6, <2>1, ThreadShape
    <2>2. CASE b = t
      <3>1. Running(t) BY <1>6, <2>2 DEF Running
      <3> QED BY <3>1, <1>5
    <2> QED BY <2>1, <2>2
  <1>7. ASSUME Client PROVE Goal
    <2>1. ASSUME NEW u \in Tasks,
                 \/ \E batch \in Batches : BeginAppend(u, batch)
                 \/ \E ids \in (SUBSET series) \ {{}} : BeginFlush(u, ids)
          PROVE  Goal
      <3>1. u # t /\ u \in Actors BY <2>1, Zenon DEF BeginAppend, BeginFlush, At, Actors
      <3> QED BY <2>1, <3>1, <1>3, BeginShape
    <2>2. ASSUME UNCHANGED task PROVE Goal BY <1>2, <2>2
    <2> QED BY <1>7, <2>1, <2>2 DEF Client, Register
  <1>8. ~Open /\ ~Crash BY <1>1 DEF Open, Crash
  <1>9. ASSUME LoseManifest \/ (\E f \in files : HeaderUnreadable(f)) \/ UNCHANGED vars PROVE Goal
    <2>1. task' = task BY <1>9 DEF LoseManifest, HeaderUnreadable, vars
    <2> QED BY <1>2, <2>1
  <1>10. Opener \in Actors /\ Tasks \subseteq Actors BY DEF Actors
  <1>11. Goal BY <1>6, <1>7, <1>8, <1>9, <1>10 DEF Next
  <1> QED BY <1>11 DEF Goal

\* flushed_max_ts of a series that is served does not decrease while the engine runs.
LEMMA FlushedGrows ==
    ASSUME StorageInv, StorageInv', [Next]_vars, status # "down", status' # "down",
           NEW s \in series, flushed_max_ts[s] # None
    PROVE  flushed_max_ts'[s] # None /\ flushed_max_ts'[s] >= flushed_max_ts[s]
  <1>1. /\ s \in Series /\ flushed_max_ts \in [Series -> Timestamps \union {None}]
        /\ flushed_max_ts[s] \in Int /\ manifest[s] # None
    BY StorageAssumption DEF StorageInv, TypeOK, SeriesOK, Timestamps
  <1>2. ASSUME flushed_max_ts'[s] = flushed_max_ts[s]
        PROVE  flushed_max_ts'[s] # None /\ flushed_max_ts'[s] >= flushed_max_ts[s]
    BY <1>1, <1>2
  <1>3. ASSUME NEW t \in Tasks, NEW x \in Series, Advance(t, x)
        PROVE  flushed_max_ts'[s] # None /\ flushed_max_ts'[s] >= flushed_max_ts[s]
    <2> DEFINE ts == MaxTs(task[t].pending[x].samples)
    <2>1. flushed_max_ts' = [flushed_max_ts EXCEPT ![x] = Raised(flushed_max_ts[x], ts)]
      BY <1>3 DEF Advance
    <2>2. ts \in Timestamps
      <3>1. t \in Actors /\ task[t] \in Task /\ TaskOK(task[t], series)
        BY DEF Actors, StorageInv, TypeOK
      <3>2. x \in Pending(task[t]) BY <1>3, <3>1 DEF Advance, At, TaskOK
      <3>3. task[t].pending[x].samples \in SUBSET BufferedSample /\ task[t].pending[x].samples # {}
        BY <3>1, <3>2 DEF Task, PendingFlush, Pending
      <3> QED BY <3>3, SampleRange
    <2> HIDE DEF ts
    <2>3. x = s => flushed_max_ts'[s] = IF IsFresh(ts, flushed_max_ts[s]) THEN ts ELSE flushed_max_ts[s]
      BY <1>1, <2>1 DEF Raised
    <2>4. ts \in Int /\ ts # None BY <2>2, StorageAssumption DEF Timestamps
    <2>5. IsFresh(ts, flushed_max_ts[s]) => ts >= flushed_max_ts[s] BY <1>1, <2>4 DEF IsFresh
    <2>6. x # s => flushed_max_ts'[s] = flushed_max_ts[s] BY <1>1, <2>1
    <2> QED BY <1>1, <1>2, <2>3, <2>4, <2>5, <2>6
  <1>4. ASSUME NEW x \in Series, NEW type \in SeriesTypes, NEW limit \in Limits, NEW ok \in BOOLEAN,
               Register(x, type, limit, ok)
        PROVE  flushed_max_ts'[s] = flushed_max_ts[s]
    <2>1. x # s BY <1>1, <1>4 DEF Register, CanRegister
    <2>2. flushed_max_ts' \in {flushed_max_ts, [flushed_max_ts EXCEPT ![x] = None]}
      BY <1>4 DEF Register
    <2> QED BY <1>1, <2>1, <2>2
  <1>5. CASE Client
    BY <1>2, <1>4, <1>5, Zenon DEF Client, BeginAppend, BeginFlush, memory
  <1>6. ASSUME NEW t \in Tasks, AppendStep(t) \/ FlushStep(t)
        PROVE  \/ flushed_max_ts' = flushed_max_ts
               \/ \E x \in Series : Advance(t, x)
    BY <1>6, Zenon DEF AppendStep, AppendGroup, FlushStep, Alloc, Commit, Prepare, Mkdir, CreateTmp,
                CreateTmpNoDir, WriteFails, Rename, memory
  <1>7. ASSUME NEW a, EvictStep(a) \/ EvictError(a) PROVE flushed_max_ts' = flushed_max_ts
    BY <1>7, Zenon DEF EvictStep, EvictError, EvictChoose, EvictDone, EvictRemove, EvictRemoveFails,
                DirCheck, DirCheckFails, Rmdir, EvictUpdate, memory
  <1>8. ~Open /\ ~Crash BY DEF Open, Crash
  <1>9. CASE LoseManifest \/ (\E f \in files : HeaderUnreadable(f)) \/ UNCHANGED vars
    <2>1. flushed_max_ts' = flushed_max_ts BY <1>9 DEF LoseManifest, HeaderUnreadable, vars, memory
    <2> QED BY <1>2, <2>1
  <1> QED BY <1>2, <1>3, <1>5, <1>6, <1>7, <1>8, <1>9 DEF Next, Running

\* What is in a memtable was there, or an append accepts it in the step.
LEMMA MemoryGrows ==
    ASSUME StorageInv, SamplesInv, [Next]_vars, NEW s \in Series, NEW x \in memtable'[s]
    PROVE  x \in memtable[s] \/ x \in accepted'[s] \ accepted[s]
  <1>1. Memorises(s) /\ clock \in Nat BY NextMemory DEF StorageInv, TypeOK
  <1>2. ASSUME NEW new, Adds(s, new), x \in new PROVE x \in accepted'[s] \ accepted[s]
    <2>1. x \in accepted'[s] /\ clock < x.seq_no BY <1>2 DEF Adds
    <2>2. ASSUME x \in accepted[s] PROVE FALSE
      <3>1. x.seq_no <= clock BY <2>2 DEF SamplesInv
      <3>2. x.seq_no \in Nat BY <2>2 DEF StorageInv, TypeOK, BufferedSample
      <3> QED BY <1>1, <2>1, <3>1, <3>2
    <2> QED BY <2>1, <2>2
  <1> QED BY <1>1, <1>2 DEF Memorises, Adds

\* A timestamp that is behind what is in memory stays behind.
LEMMA BehindStays ==
    ASSUME OneThread, StorageInv, StorageInv', SamplesInv, [Next]_vars, status # "down",
           status' # "down", NoFailure', NEW s \in series, NEW ts \in Int, Behind(s, ts)
    PROVE  Behind(s, ts)'
  <1>1. s \in Series /\ \A x \in memtable[s] : x.timestamp_ms \in Int
    BY StorageAssumption DEF StorageInv, TypeOK, BufferedSample, Timestamps
  <1>2. ASSUME flushed_max_ts[s] # None, flushed_max_ts[s] >= ts
        PROVE  flushed_max_ts'[s] # None /\ flushed_max_ts'[s] >= ts
    <2>1. flushed_max_ts'[s] # None /\ flushed_max_ts'[s] >= flushed_max_ts[s] BY <1>2, FlushedGrows
    <2>2. flushed_max_ts[s] \in Int /\ flushed_max_ts'[s] \in Int
      BY <1>1, <1>2, <2>1, StorageAssumption DEF StorageInv, TypeOK, Timestamps
    <2> QED BY <1>2, <2>1, <2>2
  <1>3. ASSUME NEW t \in Tasks, Raises(t, s), MaxTs(task[t].pending[s].samples) >= ts
        PROVE  Settles(s, ts)'
    <2>1. t \in Actors /\ task[t] \in Task /\ TaskOK(task[t], series)
      BY DEF Actors, StorageInv, TypeOK
    <2>2. CASE Owned(t, s)
      <3>1. CASE StaysOwner(t, s) BY <1>3, <3>1 DEF StaysOwner, Settles, Raises
      <3>2. CASE Commit(t, TRUE)
        <4>1. task[t].pc = "commit" /\ task' = [task EXCEPT ![t].pc = "advance"]
          BY <3>2 DEF Commit, At, GoTo
        <4>2. /\ task'[t].pc = "advance" /\ task'[t].todo = task[t].todo
              /\ task'[t].pending = task[t].pending
          BY <2>1, <4>1 DEF StorageInv, TypeOK, Task
        <4>3. s \in task[t].todo BY <2>1, <2>2, <4>1 DEF Owned, TaskOK
        <4> QED BY <1>3, <4>2, <4>3 DEF Settles, Raises
      <3> QED BY <1>1, <2>2, <3>1, <3>2, OwnerStays
    <2>3. CASE task[t].pc = "advance" /\ s \in task[t].todo
      <3>1. CASE task'[t].pc = "advance" /\ s \in task'[t].todo /\ task'[t].pending = task[t].pending
        BY <1>3, <3>1 DEF Settles, Raises
      <3>2. CASE Advance(t, s)
        <4> DEFINE max == MaxTs(task[t].pending[s].samples)
        <4>1. task[t].pending[s].samples \in SUBSET BufferedSample /\ task[t].pending[s].samples # {}
          BY <1>1, <2>1, <2>3 DEF TaskOK, Task, PendingFlush, Pending
        <4>2. max \in Timestamps BY <4>1, SampleRange
        <4>3. max >= ts BY <1>3
        <4> HIDE DEF max
        <4>4. flushed_max_ts'[s] =
                  IF flushed_max_ts[s] = None \/ max > flushed_max_ts[s] THEN max ELSE flushed_max_ts[s]
          BY <1>1, <3>2 DEF Advance, Raised, IsFresh, StorageInv, TypeOK, max
        <4>5. flushed_max_ts[s] \in Int \union {None} /\ max \in Int /\ max # None
          BY <1>1, <4>2, StorageAssumption DEF StorageInv, TypeOK, Timestamps
        <4>6. flushed_max_ts'[s] # None /\ flushed_max_ts'[s] >= ts BY <4>3, <4>4, <4>5
        <4> QED BY <4>6 DEF Settles
      <3> QED BY <1>1, <2>3, <3>1, <3>2, RaiseStep
    <2> QED BY <1>3, <2>2, <2>3 DEF Raises
  <1>4. Settles(s, ts)' BY <1>2, <1>3 DEF Behind, Settles
  <1>5. ASSUME NEW x \in memtable'[s] PROVE ts < x.timestamp_ms
    <2>1. CASE x \in memtable[s] BY <2>1 DEF Behind
    <2>2. CASE x \in accepted'[s] \ accepted[s]
      <3>1. PICK u \in Tasks : task[u].pc = "append" BY <1>1, <2>2, AcceptingStep
      <3>2. \A t \in Tasks : ~Raises(t, s)
        BY <3>1 DEF OneThread, Raises, Owned, OwningPCs, WritingPCs
      <3>3. flushed_max_ts[s] # None /\ flushed_max_ts[s] >= ts BY <3>2 DEF Behind, Settles
      <3>4. IsFresh(x.timestamp_ms, flushed_max_ts[s]) BY <1>1, <2>2, AcceptingStep
      <3>5. flushed_max_ts[s] \in Int /\ x.timestamp_ms \in Int
        BY <1>1, <3>3, StorageAssumption DEF StorageInv, TypeOK, BufferedSample, Timestamps
      <3> QED BY <3>3, <3>4, <3>5 DEF IsFresh
    <2> QED BY <1>1, <2>1, <2>2, MemoryGrows
  <1> QED BY <1>4, <1>5 DEF Behind

\* What a flush publishes is later than every segment of its series.
LEMMA BringsFacts ==
    ASSUME OneThread, StorageInv, StorageInv', IdsInv, ManifestInv, FlushInv, [Next]_vars, NoFailure',
           NEW t \in Tasks, NEW s \in Series, NEW m, Brings(t, s, m)
    PROVE  /\ t \in Actors /\ Alone(t) /\ status # "down"
           /\ ~Written(task[t].pending[s]) /\ Written(task'[t].pending[s])
           /\ CarriesFlush(task[t], task'[t]) /\ Owned(t, s)'
           /\ memtable[s] = {} /\ memtable' = memtable
           /\ m.min_ts_ms <= m.max_ts_ms /\ m.segment_id \in Nat
           /\ m.min_ts_ms \in Int /\ m.max_ts_ms \in Int
           /\ \A n \in Metas(s) : /\ n.max_ts_ms < m.min_ts_ms
                                  /\ n.segment_id < m.segment_id
  <1> DEFINE drained == task[t].pending[s].samples
  <1>1. /\ t \in Actors /\ task[t].pc = "rename" /\ Owned(t, s) /\ Writing(t, s)
        /\ TaskOK(task[t], series) /\ task[t] \in Task /\ s \in Pending(task[t])
        /\ m.segment_id = NextId(t, s)
        /\ m.min_ts_ms = MinTs(drained) /\ m.max_ts_ms = MaxTs(drained)
    BY DEF Brings, Actors, StorageInv, TypeOK, Owned
  <1>2. Alone(t) /\ status # "down" BY <1>1, AloneActs, RunningStatus DEF RunsWhile
  <1>3. ~Written(task[t].pending[s]) BY <1>1 DEF Writing, WritingPCs, TaskOK
  <1>4. PICK size \in SegmentSizes, ok \in BOOLEAN : Rename(t, s, size, ok) BY DEF Brings
  <1>5. ok
    <2>1. faults = 0 /\ faults' = 0 BY NoFailureBefore DEF NoFailure
    <2> QED BY <1>4, <2>1 DEF Rename, Outcome
  <1>6. /\ Written(task'[t].pending[s]) /\ CarriesFlush(task[t], task'[t]) /\ Owned(t, s)'
        /\ memtable' = memtable
    BY <1>4, <1>5, RenameShape, Zenon DEF Rename, memory
  <1>7. memtable[s] = {} BY <1>1, Places DEF FlushInv, MemoryDrained, Owned
  <1>8. drained \in SUBSET BufferedSample /\ drained # {}
    BY <1>1 DEF Task, PendingFlush, Pending
  <1>9. \A x \in drained : MinTs(drained) <= x.timestamp_ms /\ x.timestamp_ms <= MaxTs(drained)
    BY <1>8, SampleRange
  <1>10. MinTs(drained) \in Int /\ MaxTs(drained) \in Int
    BY <1>8, SampleRange, StorageAssumption DEF Timestamps
  <1>11. \A x \in drained : x.timestamp_ms \in Int
    BY <1>8, StorageAssumption DEF BufferedSample, Timestamps
  <1>12. MinTs(drained) <= MaxTs(drained) BY <1>8, <1>9, <1>10, <1>11
  <1>13. m.segment_id \in Nat BY <1>1, OwnedFacts
  <1>14. ASSUME NEW n \in Metas(s)
         PROVE  n.max_ts_ms < m.min_ts_ms /\ n.segment_id < m.segment_id
    <2>1. n.max_ts_ms \in Int /\ n.segment_id \in Nat BY MetasType
    <2>2. \A x \in drained : n.max_ts_ms < x.timestamp_ms
      BY <1>1, <1>3 DEF FlushInv, DrainedAfter
    <2>3. MinTs(drained) \in Stamps(drained)
      <3>1. Stamps(drained) \in SUBSET Timestamps /\ Stamps(drained) # {}
        BY <1>8 DEF Stamps, BufferedSample
      <3> QED BY <3>1, TimestampRange DEF MinTs
    <2>4. n.max_ts_ms < MinTs(drained) BY <2>2, <2>3 DEF Stamps
    <2>5. n.segment_id <= NextId(t, s) BY <1>1 DEF FlushInv, OwnedAbove
    <2>6. n.segment_id # NextId(t, s)
      <3>1. CASE n \in SegmentsOf(manifest[s])
        <4>1. n \in Known(s) BY <3>1 DEF SegmentsOf, Known
        <4> QED BY <1>1, <4>1 DEF ManifestInv, OwnedUnknown
      <3>2. CASE n \notin SegmentsOf(manifest[s])
        <4>1. PICK f \in FilesOf(s) : n = MetaOf(f) BY <3>2 DEF Metas
        <4>2. FileAt(s, NextId(t, s)) = {} BY <1>1 DEF IdsInv, IdsUnused
        <4> QED BY <4>1, <4>2 DEF FilesOf, FileAt, MetaOf
      <3> QED BY <3>1, <3>2
    <2> QED BY <1>1, <1>13, <2>1, <2>4, <2>5, <2>6
  <1> QED BY <1>1, <1>2, <1>3, <1>6, <1>7, <1>10, <1>12, <1>13, <1>14

\* What a thread that holds something does in a step.
LEMMA HolderSteps ==
    ASSUME StorageInv, StorageInv', [Next]_vars, NEW a \in Actors, NEW s \in Pending(task'[a])
    PROVE  \/ task'[a] = task[a] \/ CarriesFlush(task[a], task'[a])
           \/ Drains(task[a], task'[a]) \/ TakesIds(task[a], task'[a])
  <1>1. ASSUME NEW b \in Actors, Steps(b)
        PROVE  task'[a] = task[a] \/ Shape(task[a], task'[a])
    BY <1>1, StepsAlone
  <1>2. ~Open BY OpenTask
  <1>3. ~Crash BY IdleTaskType DEF Crash
  <1>4. ASSUME UNCHANGED task PROVE task'[a] = task[a] BY <1>4
  <1> QED BY <1>1, <1>2, <1>3, <1>4, WhoSteps DEF Shape, Register

\* A series appears without a segment.
LEMMA NewSeries ==
    ASSUME StorageInv, [Next]_vars, status # "down", NEW s \in series', s \notin series
    PROVE  manifest[s] = None
  <1>1. ASSUME NEW x \in Series, NEW type \in SeriesTypes, NEW limit \in Limits, NEW ok \in BOOLEAN,
               Register(x, type, limit, ok)
        PROVE  manifest[s] = None
    BY <1>1 DEF Register, CanRegister
  <1>2. CASE Client
    BY <1>1, <1>2, Zenon DEF Client, BeginAppend, BeginFlush, memory
  <1>3. ASSUME NEW t \in Tasks, AppendStep(t) \/ FlushStep(t) PROVE series' = series
    BY <1>3, Zenon DEF AppendStep, AppendGroup, FlushStep, Alloc, Commit, Prepare, Mkdir, CreateTmp,
                CreateTmpNoDir, WriteFails, Rename, Advance, memory
  <1>4. ASSUME NEW a, EvictStep(a) \/ EvictError(a) PROVE series' = series
    BY <1>4, Zenon DEF EvictStep, EvictError, EvictChoose, EvictDone, EvictRemove, EvictRemoveFails,
                DirCheck, DirCheckFails, Rmdir, EvictUpdate, memory
  <1>5. ~Open /\ ~Crash BY DEF Open, Crash
  <1>6. ~LoseManifest /\ ~(\E f \in files : HeaderUnreadable(f)) /\ ~UNCHANGED vars
    BY DEF LoseManifest, HeaderUnreadable, vars, memory
  <1> QED BY <1>2, <1>3, <1>4, <1>5, <1>6 DEF Next, Running

\* Each new segment comes after the others.
LEMMA KeepsOrderOfIds ==
    ASSUME OneThread, StorageInv, StorageInv', IdsInv, ManifestInv, OneType, EvictInv, FlushInv,
           [Next]_vars, NoFailure'
    PROVE  InOrderOfIds'
  <1> SUFFICES ASSUME NEW s \in Series, NEW m \in Metas(s)'
               PROVE  /\ m.min_ts_ms <= m.max_ts_ms
                      /\ \A n \in Metas(s)' : m.segment_id < n.segment_id => m.max_ts_ms < n.min_ts_ms
    BY DEF InOrderOfIds
  <1>1. m.min_ts_ms <= m.max_ts_ms
    <2>1. CASE m \in Metas(s) BY <2>1 DEF FlushInv, InOrderOfIds
    <2>2. CASE m \notin Metas(s) BY <2>2, MetasGrow, BringsFacts
    <2> QED BY <2>1, <2>2
  <1>2. ASSUME NEW n \in Metas(s)', m.segment_id < n.segment_id PROVE m.max_ts_ms < n.min_ts_ms
    <2>1. CASE m \in Metas(s) /\ n \in Metas(s) BY <1>2, <2>1 DEF FlushInv, InOrderOfIds
    <2>2. CASE m \in Metas(s) /\ n \notin Metas(s) BY <2>2, MetasGrow, BringsFacts
    <2>3. CASE m \notin Metas(s) /\ n \in Metas(s)
      <3>1. PICK t \in Tasks : Brings(t, s, m) BY <2>3, MetasGrow
      <3>2. n.segment_id < m.segment_id /\ m.segment_id \in Nat BY <2>3, <3>1, BringsFacts
      <3>3. n.segment_id \in Nat BY <2>3, MetasType
      <3> QED BY <1>2, <3>2, <3>3
    <2>4. CASE m \notin Metas(s) /\ n \notin Metas(s)
      <3>1. PICK t \in Tasks : Brings(t, s, m) BY <2>4, MetasGrow
      <3>2. PICK u \in Tasks : Brings(u, s, n) BY <2>4, MetasGrow
      <3>3. m.segment_id = n.segment_id BY <3>1, <3>2 DEF OneThread, Brings
      <3>4. m.segment_id \in Nat BY <3>1, BringsFacts
      <3> QED BY <1>2, <3>3, <3>4
    <2> QED BY <2>1, <2>2, <2>3, <2>4
  <1> QED BY <1>1, <1>2

\* What a flush drains is after all segments.
LEMMA KeepsDrained ==
    ASSUME OneThread, StorageInv, StorageInv', IdsInv, ManifestInv, OneType, EvictInv, FlushInv,
           [Next]_vars, NoFailure'
    PROVE  DrainedAfter'
  <1> SUFFICES ASSUME NEW a \in Actors, NEW s \in Series, ~Written(task'[a].pending[s]),
                      NEW x \in task'[a].pending[s].samples, NEW m \in Metas(s)'
               PROVE  m.max_ts_ms < x.timestamp_ms
    BY DEF DrainedAfter
  <1>1. s \in Pending(task'[a]) BY DEF Pending
  <1>2. TaskOK(task[a], series) BY DEF StorageInv
  <1>3. /\ ~Written(task[a].pending[s])
        /\ \/ task'[a].pending[s].samples = task[a].pending[s].samples
           \/ task[a].pc = "prepare" /\ task'[a].pending[s].samples = LastWrites(memtable[s])
    <2>1. CASE task'[a] = task[a] BY <2>1
    <2>2. CASE CarriesFlush(task[a], task'[a]) BY <2>2 DEF CarriesFlush, KeepsFlush
    <2>3. CASE Drains(task[a], task'[a]) BY <1>2, <2>3 DEF Drains, TaskOK
    <2>4. CASE TakesIds(task[a], task'[a]) BY <1>2, <2>4 DEF TakesIds, TaskOK
    <2> QED BY <1>1, <2>1, <2>2, <2>3, <2>4, HolderSteps
  <1>4. CASE m \in Metas(s)
    <2>1. CASE task'[a].pending[s].samples = task[a].pending[s].samples
      BY <1>3, <1>4, <2>1 DEF FlushInv, DrainedAfter
    <2>2. CASE task[a].pc = "prepare" /\ task'[a].pending[s].samples = LastWrites(memtable[s])
      <3>1. status # "down" BY <2>2, RunningStatus DEF RunsWhile
      <3>2. x \in memtable[s] BY <2>2, LastWritesType
      <3>3. s \in series BY <3>2 DEF StorageInv, SeriesOK
      <3> QED BY <1>4, <3>1, <3>2, <3>3 DEF FlushInv, AllBehind, Behind
    <2> QED BY <1>3, <2>1, <2>2
  <1>5. CASE m \notin Metas(s)
    <2>1. PICK t \in Tasks : Brings(t, s, m) BY <1>5, MetasGrow
    <2>2. Alone(t) /\ Written(task'[t].pending[s]) /\ task[t].pc = "rename"
      BY <2>1, BringsFacts DEF Brings
    <2>3. a # t BY <2>2
    <2>4. task[a].pc = "idle" BY <2>2, <2>3 DEF Alone
    <2>5. task[a].pending[s].samples = {} BY <1>2, <2>4 DEF TaskOK, Pending
    <2> QED BY <1>3, <2>4, <2>5
  <1> QED BY <1>4, <1>5

\* The ids of a flush are above those of all segments.
LEMMA KeepsAbove ==
    ASSUME OneThread, StorageInv, StorageInv', IdsInv, ManifestInv, OneType, EvictInv, FlushInv,
           [Next]_vars, NoFailure'
    PROVE  OwnedAbove'
  <1> SUFFICES ASSUME NEW a \in Actors, NEW s \in Series, Owned(a, s)', NEW m \in Metas(s)'
               PROVE  m.segment_id <= NextId(a, s)'
    BY DEF OwnedAbove
  <1>1. s \in Pending(task'[a]) /\ task'[a].pc \in OwningPCs BY DEF Owned
  <1>2. CASE m \in Metas(s)
    <2>1. CASE Owned(a, s) /\ NextId(a, s)' = NextId(a, s)
      BY <1>2, <2>1 DEF FlushInv, OwnedAbove
    <2>2. CASE NextId(a, s)' = manifest[s].next_segment_id
      <3>1. status # "down"
        <4>1. ~Open BY <1>1, OpenTask
        <4>2. status' # "down"
          BY <1>1, OwnedFacts DEF Owned, OwningPCs, WritingPCs, StorageInv, StatusOK, RunsWhile, At
        <4> QED BY <4>1, <4>2, OnlyOpenStarts
      <3>2. manifest[s] # None /\ m.segment_id \in Nat BY <1>2, <3>1, MetasType
      <3>3. manifest[s].next_segment_id \in Nat
        BY <3>2 DEF StorageInv, TypeOK, Manifest, SeriesEntry
      <3>4. m.segment_id < manifest[s].next_segment_id
        <4>1. CASE m \in SegmentsOf(manifest[s])
          <5>1. m \in Known(s) BY <4>1 DEF SegmentsOf, Known
          <5> QED BY <3>1, <5>1 DEF ManifestInv, KnownBelow
        <4>2. CASE m \notin SegmentsOf(manifest[s])
          <5>1. PICK f \in FilesOf(s) : m = MetaOf(f) BY <1>2, <4>2 DEF Metas
          <5>2. f \in files /\ f.data_id = s /\ m.segment_id = f.segment_id
            BY <5>1 DEF FilesOf, MetaOf
          <5> QED BY <3>1, <5>2 DEF IdsInv, FilesBelow
        <4> QED BY <4>1, <4>2
      <3> QED BY <2>2, <3>2, <3>3, <3>4
    <2> QED BY <2>1, <2>2, NewOwners
  <1>3. CASE m \notin Metas(s)
    <2>1. PICK t \in Tasks : Brings(t, s, m) BY <1>3, MetasGrow
    <2>2. /\ Alone(t) /\ CarriesFlush(task[t], task'[t]) /\ m.segment_id \in Nat
          /\ m.segment_id = NextId(t, s)
      BY <2>1, BringsFacts DEF Brings
    <2>3. a = t
      <3> SUFFICES ASSUME a # t PROVE FALSE OBVIOUS
      <3>1. task[a].pc = "idle" BY <2>2 DEF Alone
      <3>2. task[a].pc \in HoldingPCs
        BY <1>1, Places, HolderSteps DEF CarriesFlush, Drains, TakesIds
      <3> QED BY <3>1, <3>2 DEF HoldingPCs, OwningPCs, WritingPCs
    <2>4. NextId(t, s)' = NextId(t, s) BY <2>2 DEF CarriesFlush, KeepsFlush, NextId
    <2> QED BY <2>2, <2>3, <2>4
  <1> QED BY <1>2, <1>3

\* A memtable stays empty until the flush of its series has registered its segment.
LEMMA KeepsEmpty ==
    ASSUME OneThread, StorageInv, StorageInv', SamplesInv, FlushInv, [Next]_vars
    PROVE  MemoryDrained'
  <1> SUFFICES ASSUME NEW a \in Actors, NEW s \in Series, s \in Pending(task'[a]),
                      task'[a].pc \in HoldingPCs
               PROVE  memtable'[s] = {}
    BY DEF MemoryDrained
  <1>1. task[a].pc \in HoldingPCs /\ (s \in Pending(task[a]) \/ task[a].pc = "prepare")
    <2>1. CASE task'[a] = task[a] BY <2>1
    <2>2. CASE CarriesFlush(task[a], task'[a])
      BY <2>2, Places DEF CarriesFlush, KeepsFlush, Pending
    <2>3. CASE Drains(task[a], task'[a]) BY <2>3 DEF Drains, HoldingPCs
    <2>4. CASE TakesIds(task[a], task'[a])
      BY <2>4 DEF TakesIds, HoldingPCs, OwningPCs, WritingPCs, Pending
    <2> QED BY <2>1, <2>2, <2>3, <2>4, HolderSteps
  <1>2. CASE s \notin Pending(task[a]) BY <1>1, <1>2, DrainStep
  <1>3. CASE s \in Pending(task[a])
    <2>1. memtable[s] = {} BY <1>1, <1>3 DEF FlushInv, MemoryDrained
    <2> SUFFICES ASSUME NEW x \in memtable'[s] PROVE FALSE OBVIOUS
    <2>2. x \in accepted'[s] \ accepted[s] BY <2>1, MemoryGrows
    <2>3. PICK t \in Tasks : task[t].pc = "append" BY <2>2, AcceptingStep
    <2>4. t \in Actors /\ Alone(t) BY <2>3, AloneActs DEF Actors
    <2> QED BY <1>1, <2>3, <2>4 DEF Alone, HoldingPCs, OwningPCs, WritingPCs
  <1> QED BY <1>2, <1>3

\* Every segment is behind what is in memory.
LEMMA KeepsBehind ==
    ASSUME OneThread, StorageInv, StorageInv', IdsInv, ManifestInv, OneType, SamplesInv, EvictInv,
           FlushInv, [Next]_vars, NoFailure'
    PROVE  AllBehind'
  <1> SUFFICES ASSUME status' # "down", NEW s \in series', NEW m \in Metas(s)'
               PROVE  Behind(s, m.max_ts_ms)'
    BY DEF AllBehind
  <1>1. s \in Series BY DEF StorageInv, TypeOK
  <1>2. CASE status = "down"
    <2>1. Open /\ KeepsSegments BY <1>2, OnlyOpenStarts, OpenSegments
    <2>2. manifest'[s] # None BY DEF StorageInv, SeriesOK
    <2>3. m \in manifest'[s].segments
      <3>1. CASE m \in SegmentsOf(manifest'[s]) BY <2>2, <3>1 DEF SegmentsOf
      <3>2. CASE \E f \in files' : f.data_id = s /\ m = MetaOf(f)
        BY <1>2, <2>1, <3>2 DEF KeepsSegments
      <3> QED BY <3>1, <3>2 DEF Metas, FilesOf
    <2>4. IsCovered(s, m)'
      <3>1. FlushedMaxCovers' BY <2>1, OpenCover
      <3> QED BY <2>3, <3>1 DEF FlushedMaxCovers, IsCovered, WillRaise, At
    <2>5. \A t \in Tasks : task'[t].pc # "advance" BY <2>1, OpenTask DEF Actors
    <2>6. Settles(s, m.max_ts_ms)' BY <2>4, <2>5 DEF IsCovered, WillRaise, Settles
    <2>7. memtable'[s] = {} BY <1>1, <2>1 DEF Open
    <2> QED BY <2>6, <2>7 DEF Behind
  <1>3. CASE status # "down" /\ m \in Metas(s)
    <2>1. manifest[s] # None /\ m.max_ts_ms \in Int BY <1>1, <1>3, MetasType
    <2>2. s \in series BY <1>3, <2>1, NewSeries
    <2>3. Behind(s, m.max_ts_ms) BY <1>3, <2>2 DEF FlushInv, AllBehind
    <2> QED BY <1>3, <2>1, <2>2, <2>3, BehindStays
  <1>4. CASE status # "down" /\ m \notin Metas(s)
    <2>1. PICK t \in Tasks : Brings(t, s, m) BY <1>1, <1>4, MetasGrow
    <2>2. /\ CarriesFlush(task[t], task'[t]) /\ Owned(t, s)' /\ memtable'[s] = {}
          /\ m.max_ts_ms \in Int
      BY <1>1, <2>1, BringsFacts
    <2>3. MaxTs(task'[t].pending[s].samples) = m.max_ts_ms
      BY <1>1, <2>1, <2>2 DEF CarriesFlush, KeepsFlush, Brings
    <2>4. Settles(s, m.max_ts_ms)'
      <3>1. m.max_ts_ms >= m.max_ts_ms BY <2>2
      <3> QED BY <2>2, <2>3, <3>1 DEF Settles, Raises
    <2> QED BY <2>2, <2>4 DEF Behind
  <1> QED BY <1>2, <1>3, <1>4

\* The order holds after every step that does not fail.
LEMMA NextFlush ==
    OneThread /\ StorageInv /\ StorageInv' /\ IdsInv /\ ManifestInv /\ OneType /\ SamplesInv
        /\ EvictInv /\ FlushInv /\ [Next]_vars /\ NoFailure' => FlushInv'
  BY KeepsOrderOfIds, KeepsDrained, KeepsAbove, KeepsEmpty, KeepsBehind DEF FlushInv

\* At first there is no segment.
LEMMA InitFlush == Init => FlushInv
  <1> SUFFICES ASSUME Init PROVE FlushInv OBVIOUS
  <1>1. \A s \in Series : Metas(s) = {} BY DEF Init, Metas, SegmentsOf, FilesOf
  <1>2. InOrderOfIds /\ DrainedAfter /\ OwnedAbove
    BY <1>1 DEF InOrderOfIds, DrainedAfter, OwnedAbove
  <1>3. AllBehind BY DEF Init, AllBehind
  <1>4. MemoryDrained BY DEF Init, MemoryDrained
  <1> QED BY <1>2, <1>3, <1>4 DEF FlushInv

\* For a client that is alone, and while the file system works, the segments are in order of
\* time, and what is in memory or on its way to a segment is later than all of them.
THEOREM FlushInvariant == OneThread /\ Spec /\ []NoFault => []FlushInv
  <1> SUFFICES ASSUME OneThread PROVE Spec /\ []NoFault => []FlushInv OBVIOUS
  <1>1. NoFault /\ NoLossWithoutFault => NoFailure
    BY DEF NoFault, NoLossWithoutFault, NoFailure
  <1>2. StorageInv /\ StorageInv' /\ IdsInv /\ ManifestInv /\ OneType /\ SamplesInv
            /\ EvictInv /\ FlushInv /\ [Next]_vars /\ NoFailure' => FlushInv'
    BY NextFlush
  <1> QED BY <1>1, <1>2, InitFlush, EvictionInvariant, NoLossAlone, StorageInvariant, IdsInvariant,
             ManifestInvariant, TypesAgree, SamplesInvariant, PTL DEF Spec

\* While the file system works and RPCs come one at a time, the segments of a series cover
\* disjoint ranges of time, in the order of their ids.
THEOREM DisjointAlone == OneThread /\ Spec /\ []NoFault => []SegmentsDisjoint
  <1> SUFFICES ASSUME OneThread PROVE Spec /\ []NoFault => []SegmentsDisjoint OBVIOUS
  <1>1. ASSUME StorageInv, FlushInv PROVE SegmentsDisjoint
    <2> SUFFICES ASSUME NEW s \in series, NEW m \in manifest[s].segments,
                        NEW n \in manifest[s].segments, m.segment_id < n.segment_id
                 PROVE  m.max_ts_ms < n.min_ts_ms
      BY DEF SegmentsDisjoint
    <2>1. s \in Series /\ manifest[s] # None BY <1>1 DEF StorageInv, TypeOK, SeriesOK
    <2>2. m \in Metas(s) /\ n \in Metas(s) BY <2>1 DEF Metas, SegmentsOf
    <2> QED BY <1>1, <2>1, <2>2 DEF FlushInv, InOrderOfIds
  <1>2. StorageInv /\ FlushInv => SegmentsDisjoint BY <1>1
  <1> QED BY <1>2, FlushInvariant, StorageInvariant, PTL

-----------------------------------------------------------------------------
(* The order of rows.                                                      *)

\* The first rows are in the order of time if all are.
LEMMA TruncateInTime ==
    ASSUME NEW P, NEW f \in Seq(P), InTime(f), NEW n \in Nat \union {NoLimit}
    PROVE  /\ InTime(Truncate(f, n)) /\ ToSet(Truncate(f, n)) \subseteq ToSet(f)
           /\ n \in Nat \ {0} /\ n <= Len(f) => Last(Truncate(f, n)) \in ToSet(f)
  <1>1. Len(f) \in Nat /\ DOMAIN f = 1 .. Len(f) OBVIOUS
  <1>2. CASE n = NoLimit \/ n >= Len(f)
    <2>1. Truncate(f, n) = f BY <1>2 DEF Truncate
    <2>2. n \in Nat \ {0} /\ n <= Len(f) => f[Len(f)] \in ToSet(f) BY <1>1 DEF ToSet
    <2> QED BY <2>1, <2>2 DEF Last
  <1>3. CASE ~(n = NoLimit \/ n >= Len(f))
    <2>1. Truncate(f, n) = SubSeq(f, 1, n) BY <1>3 DEF Truncate
    <2>2. n \in Nat /\ n <= Len(f) BY <1>1, <1>3
    <2>3. PICK g : g = SubSeq(f, 1, n) OBVIOUS
    <2>4. g \in Seq(P) /\ Len(g) = n /\ DOMAIN g = 1 .. n /\ \A i \in 1 .. n : g[i] = f[i]
      BY <1>1, <2>2, <2>3
    <2>5. InTime(g) BY <1>1, <2>2, <2>4 DEF InTime
    <2>6. \A i \in 1 .. n : g[i] \in ToSet(f) BY <1>1, <2>2, <2>4 DEF ToSet
    <2>7. ToSet(g) \subseteq ToSet(f) BY <2>4, <2>6 DEF ToSet
    <2>8. n \in Nat \ {0} => g[Len(g)] \in ToSet(f) BY <2>4, <2>6
    <2> QED BY <2>1, <2>3, <2>5, <2>7, <2>8 DEF Last
  <1> QED BY <1>2, <1>3

\* The rows that a query finds in a file or a memtable are in the order of time.
LEMMA RangeInTime ==
    ASSUME NEW S \in SUBSET BufferedSample, Lone(S), NEW q \in Queries,
           NEW n \in Nat \union {NoLimit}
    PROVE  LET rows == Slice(InOrder(S), q.start_ts_ms, q.end_ts_ms, n)
           IN  rows \in Seq(BufferedSample) /\ InTime(rows) /\ ToSet(rows) \subseteq S
  <1>1. InOrder(S) \in Seq(BufferedSample) /\ InTime(InOrder(S)) /\ ToSet(InOrder(S)) = S
    BY LoneSortable
  <1>2. q.start_ts_ms \in Int /\ q.end_ts_ms \in Int /\ q.start_ts_ms <= q.end_ts_ms BY QueryFacts
  <1>3. \A x \in BufferedSample : x.timestamp_ms \in Int
    BY StorageAssumption DEF BufferedSample, Timestamps
  <1>4. PICK f \in Seq(BufferedSample) :
            /\ InTime(f) /\ Slice(InOrder(S), q.start_ts_ms, q.end_ts_ms, n) = Truncate(f, n)
            /\ ToSet(f) = {x \in ToSet(InOrder(S)) :
                               q.start_ts_ms <= x.timestamp_ms /\ x.timestamp_ms <= q.end_ts_ms}
    BY <1>1, <1>2, <1>3, SliceFacts
  <1>5. Truncate(f, n) \in Seq(BufferedSample) BY TruncateFacts
  <1>6. InTime(Truncate(f, n)) /\ ToSet(Truncate(f, n)) \subseteq ToSet(f) BY <1>4, TruncateInTime
  <1>7. ToSet(f) \subseteq S BY <1>1, <1>4
  <1> QED BY <1>4, <1>5, <1>6, <1>7

\* Segments that cover disjoint ranges of time, in their order.
Sorted(o) == \A i, j \in DOMAIN o : i < j => o[i].max_ts_ms < o[j].min_ts_ms

\* Those that are retained stay so.
LEMMA RetainedSorted ==
    ASSUME NEW P, NEW o \in Seq(P), Sorted(o), NEW T
    PROVE  Sorted(Retained(o, T))
  <1>1. PICK k : k = Retained(o, T) OBVIOUS
  <1>2. k \in Seq(P) /\ \E h : Selects(h, k, o, T, Len(o)) BY <1>1, RetainedFacts
  <1>3. PICK h : Selects(h, k, o, T, Len(o)) BY <1>2
  <1>4. DOMAIN k = 1 .. Len(k) /\ DOMAIN o = 1 .. Len(o) BY <1>2
  <1>5. /\ h \in [1 .. Len(k) -> 1 .. Len(o)]
        /\ \A i, j \in 1 .. Len(k) : i < j => h[i] < h[j]
        /\ \A i \in 1 .. Len(k) : k[i] = o[h[i]]
    BY <1>3 DEF Selects
  <1>6. ASSUME NEW i \in 1 .. Len(k), NEW j \in 1 .. Len(k), i < j
        PROVE  k[i].max_ts_ms < k[j].min_ts_ms
    <2>1. h[i] \in DOMAIN o /\ h[j] \in DOMAIN o /\ h[i] < h[j] BY <1>4, <1>5, <1>6
    <2>2. o[h[i]].max_ts_ms < o[h[j]].min_ts_ms BY <2>1 DEF Sorted
    <2> QED BY <1>5, <2>2
  <1>7. Sorted(k) BY <1>4, <1>6 DEF Sorted
  <1> QED BY <1>1, <1>7

\* The first of them is before the others.
LEMMA TailSorted ==
    ASSUME NEW P, NEW o \in Seq(P), Sorted(o), o # << >>
    PROVE  /\ Sorted(Tail(o))
           /\ \A m \in ToSet(Tail(o)) : Head(o).max_ts_ms < m.min_ts_ms
  <1>1. PICK t : t = Tail(o) OBVIOUS
  <1>2. /\ Len(o) \in Nat \ {0} /\ DOMAIN o = 1 .. Len(o) /\ Head(o) = o[1]
        /\ DOMAIN t = 1 .. Len(o) - 1 /\ \A i \in 1 .. Len(o) - 1 : t[i] = o[i + 1]
    BY <1>1
  <1>3. \A i \in 1 .. Len(o) - 1 : i + 1 \in DOMAIN o /\ 1 < i + 1 /\ 1 \in DOMAIN o BY <1>2
  <1>4. \A i \in 1 .. Len(o) - 1 : o[1].max_ts_ms < o[i + 1].min_ts_ms BY <1>3 DEF Sorted
  <1>5. \A m \in ToSet(t) : \E i \in 1 .. Len(o) - 1 : m = o[i + 1] BY <1>2 DEF ToSet
  <1>6. \A i, j \in 1 .. Len(o) - 1 : i < j => i + 1 < j + 1 BY <1>2
  <1>7. \A i, j \in 1 .. Len(o) - 1 : i < j => o[i + 1].max_ts_ms < o[j + 1].min_ts_ms
    BY <1>3, <1>6 DEF Sorted
  <1>8. Sorted(t) BY <1>2, <1>7 DEF Sorted
  <1> QED BY <1>1, <1>2, <1>4, <1>5, <1>8

\* A new segment that comes after all others is pushed to the end.
LEMMA ReorderedSorted ==
    ASSUME NEW S, NEW o, Lists(o, S), Sorted(o), NEW T, IsFiniteSet(T),
           \A m \in T \ S : \A n \in T : n # m => n \in S /\ n.max_ts_ms < m.min_ts_ms
    PROVE  Sorted(Reordered(o, T))
  <1> DEFINE new == T \ ToSet(o)
  <1>1. PICK k : k = Retained(o, T) OBVIOUS
  <1>2. PICK p : p = SetToSeq(new) OBVIOUS
  <1>3. Reordered(o, T) = k \o p BY <1>1, <1>2 DEF Reordered
  <1>4. o \in Seq(S) /\ ToSet(o) = S BY DEF Lists
  <1>5. k \in Seq(S) /\ Sorted(k) BY <1>1, <1>4, RetainedFacts, RetainedSorted
  <1>6. \A x : x \in ToSet(k) <=> x \in S /\ x \in T BY <1>1, <1>4, RetainedSet
  <1>7. Lists(p, new) BY <1>2, SetSequences, FS_Subset
  <1>8. p \in Seq(new) /\ ToSet(p) = new /\ \A i, j \in 1 .. Len(p) : p[i] = p[j] => i = j
    BY <1>7 DEF Lists
  <1>9. new = T \ S BY <1>4
  <1> HIDE DEF new
  <1>10. \A i, j \in 1 .. Len(p) : i = j
    <2> SUFFICES ASSUME NEW i \in 1 .. Len(p), NEW j \in 1 .. Len(p) PROVE i = j OBVIOUS
    <2>1. p[i] \in new /\ p[j] \in new BY <1>8
    <2>2. p[i] = p[j] BY <1>9, <2>1
    <2> QED BY <1>8, <2>2
  <1>11. \A i \in 1 .. Len(k), j \in 1 .. Len(p) : k[i].max_ts_ms < p[j].min_ts_ms
    <2> SUFFICES ASSUME NEW i \in 1 .. Len(k), NEW j \in 1 .. Len(p)
                 PROVE  k[i].max_ts_ms < p[j].min_ts_ms
      OBVIOUS
    <2>1. k[i] \in ToSet(k) BY <1>5 DEF ToSet
    <2>2. p[j] \in new BY <1>8
    <2>3. k[i] \in S /\ k[i] \in T /\ p[j] \in T \ S BY <1>6, <1>9, <2>1, <2>2
    <2> QED BY <2>3
  <1>12. /\ Len(k) \in Nat /\ Len(p) \in Nat /\ DOMAIN k = 1 .. Len(k)
         /\ DOMAIN (k \o p) = 1 .. Len(k) + Len(p)
         /\ \A i \in 1 .. Len(k) : (k \o p)[i] = k[i]
         /\ \A i \in Len(k) + 1 .. Len(k) + Len(p) : (k \o p)[i] = p[i - Len(k)]
    BY <1>5, <1>8
  <1>13. ASSUME NEW i \in 1 .. Len(k) + Len(p), NEW j \in 1 .. Len(k) + Len(p), i < j
         PROVE  (k \o p)[i].max_ts_ms < (k \o p)[j].min_ts_ms
    <2>1. CASE j <= Len(k)
      <3>1. i \in 1 .. Len(k) /\ j \in 1 .. Len(k) BY <1>12, <1>13, <2>1
      <3>2. k[i].max_ts_ms < k[j].min_ts_ms BY <1>5, <1>12, <1>13, <3>1 DEF Sorted
      <3> QED BY <1>12, <3>1, <3>2
    <2>2. CASE i <= Len(k) /\ j > Len(k)
      <3>1. i \in 1 .. Len(k) /\ j - Len(k) \in 1 .. Len(p) /\ j \in Len(k) + 1 .. Len(k) + Len(p)
        BY <1>12, <2>2
      <3>2. k[i].max_ts_ms < p[j - Len(k)].min_ts_ms BY <1>11, <3>1
      <3> QED BY <1>12, <3>1, <3>2
    <2>3. CASE i > Len(k)
      <3>1. i - Len(k) \in 1 .. Len(p) /\ j - Len(k) \in 1 .. Len(p) BY <1>12, <1>13, <2>3
      <3>2. i - Len(k) = j - Len(k) BY <1>10, <3>1
      <3> QED BY <1>12, <1>13, <3>2
    <2> QED BY <1>12, <1>13, <2>1, <2>2, <2>3
  <1> QED BY <1>3, <1>12, <1>13 DEF Sorted

\* A recovery sorts the segments by the begin of their ranges.
LEMMA ByTimeSorted ==
    ASSUME NEW S, IsFiniteSet(S), NEW o \in ByTime(S),
           \A m \in S : /\ m.segment_id \in Nat /\ m.min_ts_ms \in Int /\ m.max_ts_ms \in Int
                        /\ m.min_ts_ms <= m.max_ts_ms,
           \A m, n \in S : m.segment_id = n.segment_id => m = n,
           \A m, n \in S : m.segment_id < n.segment_id => m.max_ts_ms < n.min_ts_ms
    PROVE  Sorted(o)
  <1>1. Lists(o, S) /\ \A i, j \in DOMAIN o : i < j => o[i].min_ts_ms <= o[j].min_ts_ms
    BY SetSequences DEF ByTime
  <1>2. o \in Seq(S) /\ \A i, j \in 1 .. Len(o) : o[i] = o[j] => i = j BY <1>1 DEF Lists
  <1>3. DOMAIN o = 1 .. Len(o) /\ \A i \in DOMAIN o : o[i] \in S BY <1>2
  <1>4. ASSUME NEW i \in DOMAIN o, NEW j \in DOMAIN o, i < j
        PROVE  o[i].max_ts_ms < o[j].min_ts_ms
    <2>1. PICK m, n : m = o[i] /\ n = o[j] OBVIOUS
    <2>2. m \in S /\ n \in S /\ m.min_ts_ms <= n.min_ts_ms BY <1>1, <1>3, <1>4, <2>1
    <2>3. m # n
      <3>1. i # j BY <1>3, <1>4
      <3> QED BY <1>2, <1>3, <2>1, <3>1
    <2>4. m.segment_id # n.segment_id BY <2>2, <2>3
    <2>5. ~(n.segment_id < m.segment_id)
      <3>1. n.segment_id < m.segment_id => n.max_ts_ms < m.min_ts_ms BY <2>2
      <3>2. /\ m.min_ts_ms \in Int /\ n.min_ts_ms \in Int /\ n.max_ts_ms \in Int
            /\ n.min_ts_ms <= n.max_ts_ms
        BY <2>2
      <3> QED BY <2>2, <3>1, <3>2
    <2>6. m.segment_id \in Nat /\ n.segment_id \in Nat BY <2>2
    <2>7. m.segment_id < n.segment_id BY <2>4, <2>5, <2>6
    <2> QED BY <2>1, <2>2, <2>7
  <1> QED BY <1>4 DEF Sorted

-----------------------------------------------------------------------------
(* What queries read: the invariant.                                       *)

\* The samples of S are in the range of m; those in its file are, and in the cached body.
Within(S, m) == \A x \in S : m.min_ts_ms <= x.timestamp_ms /\ x.timestamp_ms <= m.max_ts_ms
Body(s, m) ==
    /\ \A f \in FileAt(s, m.segment_id) : Within(f.samples, m)
    /\ \A c \in cache : c.data_id = s /\ c.segment_id = m.segment_id => Within(c.samples, m)

\* y is the last accepted write of its timestamp, or was when the query r began.
Latest(s, y) == \A x \in accepted[s] : x.timestamp_ms = y.timestamp_ms => x.seq_no <= y.seq_no
LatestSeen(r, y) ==
    \A x \in accepted[r.query.data_id] :
        x.timestamp_ms = y.timestamp_ms /\ x.seq_no <= r.begun => x.seq_no <= y.seq_no

\* A series of the manifest is served.
Served == status # "down" => \A s \in Series : manifest[s] # None => s \in series
OrderSorted == \A s \in Series : Sorted(order[s])
BodiesWithin == \A s \in Series : \A m \in SegmentsOf(manifest[s]) : Body(s, m)
StoredLatest ==
    /\ \A f \in files : \A y \in f.samples : Latest(f.data_id, y)
    /\ \A a \in Actors, s \in Series : \A y \in task[a].pending[s].samples : Latest(s, y)
CachedLatest ==
    \A c \in cache : \A y \in c.samples : Latest(c.data_id, y) /\ Behind(c.data_id, y.timestamp_ms)

\* The rows of a query are in order and before the segments that it has still to read.
InSequence(r) ==
    /\ r.query \in Queries \/ r.rows = << >>
    /\ InTime(r.rows) /\ \A y \in ToSet(r.rows) : LatestSeen(r, y)
    /\ r.pc # "idle" =>
        /\ r.query.data_id \in series /\ Sorted(r.todo)
        /\ \A y \in ToSet(r.rows) : Behind(r.query.data_id, y.timestamp_ms)
        /\ \A m \in ToSet(r.todo) :
            Body(r.query.data_id, m) /\ \A y \in ToSet(r.rows) : y.timestamp_ms < m.min_ts_ms

RowsInv ==
    /\ Served /\ OrderSorted /\ BodiesWithin /\ StoredLatest /\ CachedLatest
    /\ \A r \in Readers : InSequence(reader[r])

-----------------------------------------------------------------------------
(* The writers.                                                            *)

\* Without failures a series is served as soon as the manifest has it.
LEMMA NextServed ==
    ASSUME StorageInv, StorageInv', NoFailure', [Next]_vars, Served
    PROVE  Served'
  <1> SUFFICES ASSUME status' # "down", NEW s \in Series, manifest'[s] # None PROVE s \in series'
    BY DEF Served
  <1>1. faults' = 0 /\ faults \in Nat BY DEF NoFailure, StorageInv, TypeOK
  <1>2. ASSUME status # "down", manifest[s] # None \/ s \in series, series' = series
        PROVE  s \in series'
    BY <1>2 DEF Served
  <1>3. ASSUME NEW x \in Series, NEW type \in SeriesTypes, NEW limit \in Limits, NEW ok \in BOOLEAN,
               Register(x, type, limit, ok)
        PROVE  s \in series'
    <2>1. ok BY <1>1, <1>3 DEF Register, Outcome
    <2>2. series' = series \union {x} /\ status # "down" BY <1>3, <2>1 DEF Register
    <2>3. manifest' = [manifest EXCEPT ![x] = NewEntry(type, Clamp(limit))]
      BY <1>3 DEF Register, Save
    <2>4. s # x => manifest'[s] = manifest[s] BY <2>3 DEF StorageInv, TypeOK, Manifest
    <2> QED BY <2>2, <2>4 DEF Served
  <1>4. CASE \/ \E t \in Tasks, batch \in Batches : BeginAppend(t, batch)
             \/ \E t \in Tasks, ids \in (SUBSET series) \ {{}} : BeginFlush(t, ids)
             \/ UNCHANGED vars
    <2>1. UNCHANGED <<status, manifest, series>>
      BY <1>4, Zenon DEF BeginAppend, BeginFlush, memory, vars
    <2> QED BY <1>2, <2>1
  <1>5. ASSUME NEW t \in Tasks, AppendStep(t) \/ FlushStep(t) PROVE s \in series'
    <2>1. task[t].pc # "idle" /\ t \in Actors
      BY <1>5, Zenon
      DEF AppendStep, FlushStep, AppendGroup, Alloc, Commit, Prepare, Mkdir, CreateTmp,
                  CreateTmpNoDir, WriteFails, Rename, Advance, At, Working, Actors
    <2>2. status # "down" BY <2>1, RunningStatus DEF RunsWhile
    <2>3. series' = series
      BY <1>5, Zenon
      DEF AppendStep, AppendGroup, FlushStep, Alloc, Commit, Prepare, Mkdir, CreateTmp,
                  CreateTmpNoDir, WriteFails, Rename, Advance, memory
    <2>4. CASE Alloc(t)
      <3>1. s \notin Pending(task[t]) => manifest'[s] = manifest[s] BY <2>4 DEF Alloc
      <3>2. Pending(task[t]) \subseteq series BY <2>1 DEF StorageInv, TaskOK
      <3> QED BY <1>2, <2>2, <2>3, <3>1, <3>2
    <2>5. ASSUME NEW ok \in BOOLEAN, Commit(t, ok) PROVE s \in series'
      <3>1. manifest[s] # None BY <2>5, CommitFacts
      <3> QED BY <1>2, <2>2, <2>3, <3>1
    <2>6. CASE AppendStep(t) \/ \E x \in Series :
                   \/ Prepare(t, x) \/ Mkdir(t, x) \/ CreateTmp(t, x) \/ CreateTmpNoDir(t, x)
                   \/ WriteFails(t, x) \/ Advance(t, x)
                   \/ \E size \in SegmentSizes, ok \in BOOLEAN : Rename(t, x, size, ok)
      <3>1. manifest' = manifest
        BY <2>6, Zenon DEF AppendStep, AppendGroup, Prepare, Mkdir, CreateTmp,
                    CreateTmpNoDir, WriteFails, Rename, Advance, memory
      <3> QED BY <1>2, <2>2, <2>3, <3>1
    <2> QED BY <1>5, <2>4, <2>5, <2>6 DEF FlushStep
  <1>6. ASSUME NEW a \in Actors, EvictStep(a) \/ EvictError(a) PROVE s \in series'
    <2>1. task[a].pc # "idle"
      BY <1>6, Zenon
      DEF EvictStep, EvictError, EvictChoose, EvictDone, EvictRemove, EvictRemoveFails,
                  DirCheck, DirCheckFails, Rmdir, EvictUpdate, At, Working
    <2>2. status # "down" BY <2>1, RunningStatus DEF RunsWhile
    <2>3. series' = series
      BY <1>6, Zenon
      DEF EvictStep, EvictError, EvictChoose, EvictDone, EvictRemove, EvictRemoveFails,
                  DirCheck, DirCheckFails, Rmdir, EvictUpdate, memory
    <2>4. ASSUME NEW x \in Series, NEW ok \in BOOLEAN, EvictUpdate(a, x, ok) PROVE s \in series'
      <3>1. /\ task[a].pc = "update" /\ task[a].current = x
            /\ manifest' = [manifest EXCEPT ![x] = Dropped(manifest[x], task[a].victim)]
        BY <2>4 DEF EvictUpdate, Working, Save
      <3>2. x \in series BY <3>1, Places DEF StorageInv, TaskOK
      <3>3. s # x => manifest'[s] = manifest[s] BY <3>1 DEF StorageInv, TypeOK, Manifest
      <3> QED BY <1>2, <2>2, <2>3, <3>2, <3>3
    <2>5. CASE EvictError(a) \/ \E x \in Series : \/ EvictChoose(a, x) \/ EvictDone(a, x)
                                                  \/ EvictRemove(a, x) \/ DirCheck(a, x) \/ Rmdir(a, x)
      <3>1. manifest' = manifest
        BY <2>5, Zenon DEF EvictError, EvictChoose, EvictDone, EvictRemove, EvictRemoveFails,
                    DirCheck, DirCheckFails, Rmdir, memory
      <3> QED BY <1>2, <2>2, <2>3, <3>1
    <2> QED BY <1>6, <2>4, <2>5 DEF EvictStep
  <1>7. CASE Open
    <2>1. series' = {x \in Series : IsRecovered(x)} /\ manifest'[s] = RecoveredEntry(s)
      BY <1>7 DEF Open, Save
    <2> QED BY <2>1 DEF RecoveredEntry
  <1>8. ~Crash /\ ~LoseManifest /\ ~(\E f \in files : HeaderUnreadable(f))
    BY DEF Crash, LoseManifest, HeaderUnreadable
  <1> QED BY <1>3, <1>4, <1>5, <1>6, <1>7, <1>8 DEF Next, Client, Running, Actors

\* An append accepts only while no flush holds anything.
LEMMA HoldersDoNotAccept ==
    ASSUME OneThread, StorageInv, StorageInv', [Next]_vars,
           NEW a \in Actors, NEW s \in Pending(task'[a])
    PROVE  \A x \in Series : accepted'[x] \subseteq accepted[x]
  <1> SUFFICES ASSUME NEW z \in Series, NEW x \in accepted'[z] \ accepted[z] PROVE FALSE
    OBVIOUS
  <1>1. PICK t \in Tasks : task[t].pc = "append" BY AcceptingStep
  <1>2. t \in Actors /\ Alone(t) BY <1>1, AloneActs DEF Actors
  <1>3. task[a].pc \in {"idle", "append"} BY <1>1, <1>2 DEF Alone
  <1>4. s \in Series /\ task[a].pending[s].samples = {} /\ Pending(task[a]) = {}
        /\ task'[a].pending[s].samples # {}
    BY <1>3 DEF StorageInv, TaskOK, Pending
  <1>5. task'[a] # task[a] BY <1>4
  <1>6. ~CarriesFlush(task[a], task'[a]) BY <1>4 DEF CarriesFlush, KeepsFlush
  <1>7. ~Drains(task[a], task'[a]) /\ ~TakesIds(task[a], task'[a])
    BY <1>3 DEF Drains, TakesIds
  <1> QED BY <1>5, <1>6, <1>7, HolderSteps

\* What is behind the memory of its series has no later write of its timestamp.
LEMMA LatestStays ==
    ASSUME OneThread, StorageInv, StorageInv', SamplesInv, [Next]_vars, status # "down",
           status' # "down", NoFailure', NEW s \in series, NEW y \in BufferedSample, Latest(s, y),
           Behind(s, y.timestamp_ms)
    PROVE  Latest(s, y)' /\ Behind(s, y.timestamp_ms)'
  <1>1. s \in Series /\ y.timestamp_ms \in Int
    BY StorageAssumption DEF StorageInv, TypeOK, BufferedSample, Timestamps
  <1>2. PICK ts \in Int : ts = y.timestamp_ms BY <1>1
  <1>3. Behind(s, ts)' BY <1>2, BehindStays
  <1>4. ASSUME NEW x \in accepted'[s], x.timestamp_ms = y.timestamp_ms, x \notin accepted[s]
        PROVE  FALSE
    <2>1. Memorises(s) BY <1>1, NextMemory
    <2>2. PICK new : memtable'[s] = memtable[s] \union new /\ accepted'[s] = accepted[s] \union new
      BY <1>4, <2>1 DEF Memorises, Adds
    <2>3. x \in memtable'[s] BY <1>4, <2>2
    <2>4. ts < x.timestamp_ms BY <1>3, <2>3 DEF Behind
    <2> QED BY <1>2, <1>4, <2>4
  <1>5. Latest(s, y)' BY <1>4 DEF Latest
  <1>6. Behind(s, y.timestamp_ms)' BY <1>2, <1>3 DEF Behind, Settles
  <1> QED BY <1>5, <1>6

\* Nothing is accepted while the engine is down.
LEMMA DownAccepts ==
    ASSUME StorageInv, [Next]_vars, status = "down" \/ status' = "down", NEW s \in Series
    PROVE  accepted'[s] \subseteq accepted[s]
  <1> SUFFICES ASSUME NEW x \in accepted'[s] \ accepted[s] PROVE FALSE OBVIOUS
  <1>1. PICK t \in Tasks : task[t].pc = "append" BY AcceptingStep
  <1>2. status # "down" BY <1>1, RunningStatus DEF RunsWhile, Actors
  <1>3. status' = status BY AcceptingStep
  <1> QED BY <1>2, <1>3

\* An earlier time is behind the memory too.
LEMMA BehindBelow ==
    ASSUME StorageInv, NEW s \in Series, NEW ts \in Int, NEW top \in Int, ts <= top, Behind(s, top)
    PROVE  Behind(s, ts)
  <1>1. \A x \in memtable[s] : x.timestamp_ms \in Int
    BY StorageAssumption DEF StorageInv, TypeOK, BufferedSample, Timestamps
  <1>2. \A x \in memtable[s] : ts < x.timestamp_ms BY <1>1 DEF Behind
  <1>3. CASE flushed_max_ts[s] # None /\ flushed_max_ts[s] >= top
    <2>1. flushed_max_ts[s] \in Int
      BY <1>3, StorageAssumption DEF StorageInv, TypeOK, Timestamps
    <2> QED BY <1>2, <1>3, <2>1 DEF Behind, Settles
  <1>4. ASSUME NEW t \in Tasks, Raises(t, s), MaxTs(task[t].pending[s].samples) >= top
        PROVE  Behind(s, ts)
    <2>1. t \in Actors /\ task[t] \in Task /\ TaskOK(task[t], series)
      BY DEF Actors, StorageInv, TypeOK
    <2>2. task[t].pending[s].samples \in SUBSET BufferedSample /\ task[t].pending[s].samples # {}
      BY <1>4, <2>1 DEF Raises, Owned, Pending, TaskOK, Task, PendingFlush
    <2>3. MaxTs(task[t].pending[s].samples) \in Int
      BY <2>2, SampleRange, StorageAssumption DEF Timestamps
    <2>4. MaxTs(task[t].pending[s].samples) >= ts BY <1>4, <2>3
    <2> QED BY <1>2, <1>4, <2>4 DEF Behind, Settles
  <1> QED BY <1>3, <1>4 DEF Behind, Settles

\* A file of a running engine is behind the memory of its series.
LEMMA FileBehind ==
    ASSUME StorageInv, IdsInv, FlushInv, Served, status # "down", NEW f \in files,
           NEW y \in f.samples
    PROVE  /\ f.data_id \in series /\ f.data_id \in Series /\ y \in BufferedSample
           /\ Behind(f.data_id, y.timestamp_ms)
  <1>1. f \in SegmentFile /\ f.data_id \in Series /\ f.samples \in SUBSET BufferedSample
        /\ f.samples # {}
    BY DEF StorageInv, TypeOK, SegmentFile
  <1>2. PICK s \in Series : s = f.data_id BY <1>1
  <1>3. PICK m \in Metas(s) : m = MetaOf(f) BY <1>2 DEF Metas, FilesOf
  <1>4. m.max_ts_ms = MaxTs(f.samples) BY <1>3 DEF MetaOf
  <1>5. manifest[s] # None /\ m.max_ts_ms \in Int BY MetasType
  <1>6. s \in series BY <1>5 DEF Served
  <1>7. Behind(s, m.max_ts_ms) BY <1>6 DEF FlushInv, AllBehind
  <1>8. y.timestamp_ms \in Int BY <1>1, StorageAssumption DEF BufferedSample, Timestamps
  <1>9. y.timestamp_ms <= m.max_ts_ms BY <1>1, <1>4, SampleRange
  <1>10. Behind(s, y.timestamp_ms) BY <1>5, <1>7, <1>8, <1>9, BehindBelow
  <1> QED BY <1>1, <1>2, <1>6, <1>10

\* A segment that comes is the last one, in a sequence too; a recovery sorts them.
LEMMA WriterOrder ==
    ASSUME OneThread, StorageInv, StorageInv', LedgerInv', ManifestInv, FlushInv, FlushInv',
           OrderOK, OrderSorted, [Next]_vars, OrderFollows
    PROVE  OrderSorted'
  <1> SUFFICES ASSUME NEW s \in Series PROVE Sorted(order'[s]) BY DEF OrderSorted
  <1>1. PICK T : T = SegmentsOf(manifest'[s]) OBVIOUS
  <1>2. /\ IsFiniteSet(T) /\ \A m, n \in T : m.segment_id = n.segment_id => m = n
        /\ T \subseteq Metas(s)'
    <2>1. CASE manifest'[s] = None
      <3>1. T = {} BY <1>1, <2>1 DEF SegmentsOf
      <3> QED BY <3>1, FS_EmptySet
    <2>2. CASE manifest'[s] # None
      <3>1. T = manifest'[s].segments /\ manifest'[s] \in Entries(s)'
        BY <1>1, <2>2 DEF SegmentsOf, Entries
      <3>2. T \subseteq Metas(s)' BY <1>1 DEF Metas
      <3> QED BY <3>1, <3>2 DEF LedgerInv, FiniteDisk, IdsName, NamesOne
    <2> QED BY <2>1, <2>2
  <1>3. \A m \in T : /\ m.segment_id \in Nat /\ m.min_ts_ms \in Int /\ m.max_ts_ms \in Int
                     /\ m.min_ts_ms <= m.max_ts_ms
    <2> SUFFICES ASSUME NEW m \in T
                 PROVE  /\ m.segment_id \in Nat /\ m.min_ts_ms \in Int /\ m.max_ts_ms \in Int
                        /\ m.min_ts_ms <= m.max_ts_ms
      OBVIOUS
    <2>1. manifest'[s] # None /\ m \in manifest'[s].segments BY <1>1 DEF SegmentsOf
    <2>2. manifest'[s] \in SeriesEntry BY <2>1 DEF StorageInv, TypeOK, Manifest
    <2>3. m \in SegmentMeta BY <2>1, <2>2 DEF SeriesEntry
    <2>4. m.min_ts_ms <= m.max_ts_ms BY <1>2 DEF FlushInv, InOrderOfIds
    <2> QED BY <2>3, <2>4, StorageAssumption DEF SegmentMeta, Timestamps
  <1>4. \A m, n \in T : m.segment_id < n.segment_id => m.max_ts_ms < n.min_ts_ms
    BY <1>2 DEF FlushInv, InOrderOfIds
  <1>5. CASE status = "down"
    <2>1. order'[s] \in ByTime(T) BY <1>1, <1>5 DEF OrderFollows
    <2> QED BY <1>2, <1>3, <1>4, <2>1, ByTimeSorted
  <1>6. CASE status # "down"
    <2> DEFINE S == SegmentsOf(manifest[s])
    <2>1. order'[s] = Reordered(order[s], T) BY <1>1, <1>6 DEF OrderFollows
    <2>2. Lists(order[s], S) /\ Sorted(order[s]) BY DEF OrderOK, OrderSorted
    <2>3. ~Open BY <1>6 DEF Open
    <2>4. ASSUME NEW m \in T, m \notin S, NEW n \in T, n # m
          PROVE  n \in S /\ n.max_ts_ms < m.min_ts_ms
      <3>1. PICK t \in Tasks : Owned(t, s) /\ m = FlushMeta(t, s)
        BY <1>1, <2>3, <2>4, SegmentsChange
      <3>2. n \in S
        <4>1. SUFFICES ASSUME n \notin S PROVE FALSE OBVIOUS
        <4>2. PICK u \in Tasks : n = FlushMeta(u, s) BY <1>1, <2>3, <4>1, SegmentsChange
        <4> QED BY <2>4, <3>1, <4>2 DEF OneThread
      <3>3. m.segment_id = NextId(t, s) BY <3>1 DEF FlushMeta
      <3>4. n \in Metas(s) /\ n \in Known(s) BY <3>2 DEF Metas, Known, SegmentsOf
      <3>5. n.segment_id <= NextId(t, s) /\ n.segment_id # NextId(t, s)
        BY <3>1, <3>4 DEF FlushInv, OwnedAbove, ManifestInv, OwnedUnknown, Actors
      <3>6. n.segment_id < m.segment_id BY <1>3, <3>3, <3>5, <2>4
      <3> QED BY <1>4, <2>4, <3>2, <3>6
    <2> HIDE DEF S
    <2>5. Sorted(Reordered(order[s], T)) BY <1>2, <2>2, <2>4, ReorderedSorted
    <2> QED BY <2>1, <2>5
  <1> QED BY <1>5, <1>6

\* No flush publishes a file at the path of a settled segment.
LEMMA BodyStays ==
    ASSUME StorageInv, [Next]_vars, cache' = cache, NEW s \in Series, NEW m,
           Settled(s, m.segment_id), Body(s, m)
    PROVE  Body(s, m)'
  <1>1. ASSUME NEW f \in FileAt(s, m.segment_id)' PROVE f \in FileAt(s, m.segment_id)
    <2>1. f \in files' /\ f.data_id = s /\ f.segment_id = m.segment_id BY <1>1 DEF FileAt
    <2>2. CASE f \in files BY <2>1, <2>2 DEF FileAt
    <2>3. CASE f \notin files
      <3>1. PICK t \in Tasks : Publishes(t, f) BY <2>1, <2>3, NextFiles
      <3>2. Owned(t, s) /\ NextId(t, s) = m.segment_id BY <2>1, <3>1 DEF Publishes
      <3> QED BY <3>2 DEF Settled, Actors
    <2> QED BY <2>2, <2>3
  <1> QED BY <1>1 DEF Body, Within

\* A segment that comes has the samples of its file, and its body is not in the cache.
LEMMA WriterBodies ==
    ASSUME StorageInv, StorageInv', ManifestInv', CacheOK, BodiesWithin, [Next]_vars,
           cache' = {} \/ (status # "down" /\ cache' = cache)
    PROVE  BodiesWithin'
  <1> SUFFICES ASSUME NEW s \in Series, NEW m \in SegmentsOf(manifest'[s]) PROVE Body(s, m)'
    BY DEF BodiesWithin
  <1>1. ASSUME NEW f \in FileAt(s, m.segment_id)' PROVE Within(f.samples, m)
    <2>1. manifest'[s] # None /\ m \in manifest'[s].segments BY DEF SegmentsOf
    <2>2. m \in Known(s)' BY <2>1 DEF Known
    <2>3. m = MetaOf(f) BY <1>1, <2>2 DEF ManifestInv, Described
    <2>4. f \in SegmentFile BY <1>1 DEF FileAt, StorageInv, TypeOK
    <2>5. f.samples \in SUBSET BufferedSample /\ f.samples # {} BY <2>4 DEF SegmentFile
    <2>6. m.min_ts_ms = MinTs(f.samples) /\ m.max_ts_ms = MaxTs(f.samples) BY <2>3 DEF MetaOf
    <2> QED BY <2>5, <2>6, SampleRange DEF Within
  <1>2. ASSUME NEW c \in cache', c.data_id = s, c.segment_id = m.segment_id
        PROVE  Within(c.samples, m)
    <2>1. status # "down" /\ c \in cache BY <1>2
    <2>2. ~Open BY <2>1 DEF Open
    <2>3. CASE m \in SegmentsOf(manifest[s]) BY <1>2, <2>1, <2>3 DEF BodiesWithin, Body
    <2>4. CASE m \notin SegmentsOf(manifest[s])
      <3>1. PICK t \in Tasks : Owned(t, s) /\ m = FlushMeta(t, s) BY <2>2, <2>4, SegmentsChange
      <3>2. NextId(t, s) = c.segment_id BY <1>2, <3>1 DEF FlushMeta
      <3>3. Settled(s, c.segment_id) BY <1>2, <2>1 DEF CacheOK
      <3> QED BY <3>1, <3>2, <3>3 DEF Settled, Actors
    <2> QED BY <2>3, <2>4
  <1> QED BY <1>1, <1>2 DEF Body, Within

\* The last write of a timestamp in a memtable is the last one accepted.
LEMMA LastWriteLatest ==
    ASSUME StorageInv, SamplesInv, NEW s \in Series, NEW y \in LastWrites(memtable[s])
    PROVE  Latest(s, y)
  <1> SUFFICES ASSUME NEW x \in accepted[s], x.timestamp_ms = y.timestamp_ms
               PROVE  x.seq_no <= y.seq_no
    BY DEF Latest
  <1>1. y \in memtable[s]
        /\ \A z \in memtable[s] : z.timestamp_ms = y.timestamp_ms => z.seq_no <= y.seq_no
    BY DEF LastWrites
  <1>2. x.seq_no > y.seq_no => x \in memtable[s] BY <1>1 DEF SamplesInv, MemoryLatest
  <1>3. x.seq_no \in Nat /\ y.seq_no \in Nat BY <1>1 DEF StorageInv, TypeOK, BufferedSample
  <1>4. CASE x \in memtable[s] BY <1>1, <1>4
  <1>5. CASE ~(x.seq_no > y.seq_no) BY <1>3, <1>5
  <1> QED BY <1>2, <1>4, <1>5

\* What is on disk or on its way there stays the last write of its timestamp.
LEMMA WriterStored ==
    ASSUME OneThread, StorageInv, StorageInv', IdsInv, SamplesInv, FlushInv, NoFailure', Served,
           StoredLatest, [Next]_vars
    PROVE  StoredLatest'
  <1>1. ASSUME NEW a \in Actors, NEW s \in Series, NEW y \in task'[a].pending[s].samples
        PROVE  Latest(s, y)'
    <2>1. s \in Pending(task'[a]) BY <1>1 DEF Pending
    <2>2. accepted'[s] \subseteq accepted[s] BY <2>1, HoldersDoNotAccept
    <2>3. CASE y \in task[a].pending[s].samples BY <2>2, <2>3 DEF StoredLatest, Latest
    <2>4. CASE y \in LastWrites(memtable[s]) BY <2>2, <2>4, LastWriteLatest DEF Latest
    <2> QED BY <1>1, <2>3, <2>4, NextPending
  <1>2. ASSUME NEW f \in files', NEW y \in f.samples PROVE Latest(f.data_id, y)'
    <2>1. CASE f \in files
      <3>1. PICK s \in Series : s = f.data_id BY <2>1 DEF StorageInv, TypeOK, SegmentFile
      <3>2. Latest(s, y) BY <1>2, <2>1, <3>1 DEF StoredLatest
      <3>3. CASE status = "down" \/ status' = "down"
        <4>1. accepted'[s] \subseteq accepted[s] BY <3>3, DownAccepts
        <4> QED BY <3>1, <3>2, <4>1 DEF Latest
      <3>4. CASE status # "down" /\ status' # "down"
        <4>1. s \in series /\ y \in BufferedSample /\ Behind(s, y.timestamp_ms)
          BY <1>2, <2>1, <3>1, <3>4, FileBehind
        <4>2. Latest(s, y)' BY <3>2, <3>4, <4>1, LatestStays
        <4> QED BY <3>1, <4>2 DEF Latest
      <3> QED BY <3>3, <3>4
    <2>2. CASE f \notin files
      <3>1. PICK t \in Tasks : f.data_id \in Series /\ Publishes(t, f) BY <1>2, <2>2, NextFiles
      <3>2. PICK s \in Series : s = f.data_id BY <3>1
      <3>3. y \in task[t].pending[s].samples BY <1>2, <3>1, <3>2 DEF Publishes
      <3>4. Latest(s, y) BY <3>3 DEF StoredLatest, Actors
      <3>5. ASSUME NEW x \in accepted'[s] \ accepted[s] PROVE FALSE
        <4>1. PICK u \in Tasks : task[u].pc = "append" BY <3>5, AcceptingStep
        <4>2. task[t].pc = "rename" BY <3>1 DEF Publishes
        <4> QED BY <4>1, <4>2 DEF OneThread
      <3> QED BY <3>2, <3>4, <3>5 DEF Latest
    <2> QED BY <2>1, <2>2
  <1> QED BY <1>1, <1>2 DEF StoredLatest

\* So does what is in the cache.
LEMMA WriterCached ==
    ASSUME OneThread, StorageInv, StorageInv', SamplesInv, NoFailure', Served, CacheOK,
           CachedLatest, [Next]_vars,
           cache' = {} \/ (status # "down" /\ status' # "down" /\ cache' = cache)
    PROVE  CachedLatest'
  <1> SUFFICES ASSUME NEW c \in cache', NEW y \in c.samples
               PROVE  Latest(c.data_id, y)' /\ Behind(c.data_id, y.timestamp_ms)'
    BY DEF CachedLatest
  <1>1. c \in cache /\ status # "down" /\ status' # "down" OBVIOUS
  <1>2. PICK s \in Series : s = c.data_id BY <1>1 DEF CacheOK, CacheType
  <1>3. s \in series BY <1>1, <1>2 DEF CacheOK, Settled, Served
  <1>4. y \in BufferedSample BY <1>1 DEF CacheOK, CacheType
  <1>5. Latest(s, y) /\ Behind(s, y.timestamp_ms) BY <1>1, <1>2 DEF CachedLatest
  <1>6. Latest(s, y)' /\ Behind(s, y.timestamp_ms)' BY <1>1, <1>3, <1>4, <1>5, LatestStays
  <1> QED BY <1>2, <1>6 DEF Latest, Behind, Settles

\* A running engine goes on serving its series.
LEMMA SeriesStays ==
    ASSUME StorageInv, [Next]_vars, status # "down", status' # "down", NEW s \in series
    PROVE  s \in series'
  <1>1. CASE Client \/ UNCHANGED vars
    BY <1>1, Zenon DEF Client, Register, BeginAppend, BeginFlush, memory, vars
  <1>2. ASSUME NEW t \in Tasks, AppendStep(t) \/ FlushStep(t) PROVE series' = series
    BY <1>2, Zenon DEF AppendStep, AppendGroup, FlushStep, Alloc, Commit, Prepare, Mkdir, CreateTmp,
                CreateTmpNoDir, WriteFails, Rename, Advance, memory
  <1>3. ASSUME NEW a, EvictStep(a) \/ EvictError(a) PROVE series' = series
    BY <1>3, Zenon DEF EvictStep, EvictError, EvictChoose, EvictDone, EvictRemove, EvictRemoveFails,
                DirCheck, DirCheckFails, Rmdir, EvictUpdate, memory
  <1>4. ~Open /\ ~Crash /\ ~LoseManifest /\ ~(\E f \in files : HeaderUnreadable(f))
    BY DEF Open, Crash, LoseManifest, HeaderUnreadable
  <1> QED BY <1>1, <1>2, <1>3, <1>4 DEF Next, Running

\* And what a query has found.
LEMMA WriterSequence ==
    ASSUME OneThread, StorageInv, StorageInv', SamplesInv, NoFailure', [Next]_vars,
           status' # "down", status = "down" \/ cache' = cache, NEW r, ReaderType(r),
           status = "down" => r.pc = "idle", InSequence(r), NEW o, o = Observed(r, task')
    PROVE  InSequence(o)'
  <1>1. \A s \in Series : Unregistered(task', s) \in SUBSET BufferedSample BY NextUnregistered
  <1>2. r \in ReaderRecord /\ (r.pc # "idle" => r.query \in Queries) /\ r.begun <= clock
        /\ r.rows \in Seq(BufferedSample) /\ r.todo \in Seq(SegmentMeta) /\ r.begun \in Nat
    BY DEF ReaderType, ReaderRecord
  <1>3. o.pc = r.pc /\ o.query = r.query /\ o.todo = r.todo /\ o.rows = r.rows /\ o.begun = r.begun
    BY <1>1, <1>2, ObservedFacts
  <1>4. (r.query \in Queries \/ r.rows = << >>) /\ InTime(r.rows) BY DEF InSequence
  <1>5. \A y \in ToSet(r.rows) : y \in BufferedSample /\ r.query \in Queries
    <2>1. ToSet(<< >>) = {} BY DEF ToSet
    <2>2. \A y \in ToSet(r.rows) : y \in BufferedSample BY <1>2 DEF ToSet
    <2> QED BY <1>4, <2>1, <2>2
  <1>6. ASSUME NEW y \in ToSet(r.rows) PROVE LatestSeen(o, y)'
    <2>1. PICK s \in Series : s = r.query.data_id BY <1>5, QueryFacts
    <2>2. \A x \in accepted[s] : x.timestamp_ms = y.timestamp_ms /\ x.seq_no <= r.begun
                                     => x.seq_no <= y.seq_no
      BY <2>1 DEF InSequence, LatestSeen
    <2>3. ASSUME NEW x \in accepted'[s], x.seq_no <= r.begun PROVE x \in accepted[s]
      <3>1. x.seq_no \in Nat /\ clock \in Nat BY DEF StorageInv, TypeOK, BufferedSample
      <3>2. x.seq_no <= clock BY <1>2, <2>3, <3>1
      <3> QED BY <3>2, AcceptedBefore
    <2> QED BY <1>3, <2>1, <2>2, <2>3 DEF LatestSeen
  <1>7. ASSUME r.pc # "idle"
        PROVE  /\ o.query.data_id \in series' /\ Sorted(o.todo)
               /\ \A y \in ToSet(o.rows) : Behind(o.query.data_id, y.timestamp_ms)'
               /\ \A m \in ToSet(o.todo) :
                      Body(o.query.data_id, m)' /\ \A y \in ToSet(o.rows) : y.timestamp_ms < m.min_ts_ms
    <2>1. PICK s \in Series : s = r.query.data_id BY <1>2, <1>7, QueryFacts
    <2>2. s \in series /\ status # "down" /\ cache' = cache BY <1>7, <2>1 DEF InSequence
    <2>3. s \in series'
      <3>1. manifest[s] # None /\ s \in Series BY <2>2 DEF StorageInv, SeriesOK
      <3> QED BY <2>2, SeriesStays
    <2>4. ASSUME NEW y \in ToSet(r.rows) PROVE Behind(s, y.timestamp_ms)'
      <3>1. PICK ts \in Int : ts = y.timestamp_ms
        BY <1>5, StorageAssumption DEF BufferedSample, Timestamps
      <3>2. Behind(s, ts) BY <1>7, <2>1, <3>1 DEF InSequence
      <3>3. Behind(s, ts)' BY <2>2, <3>2, BehindStays
      <3> QED BY <3>1, <3>3 DEF Behind, Settles
    <2>5. ASSUME NEW m \in ToSet(r.todo) PROVE Body(s, m)'
      <3>1. Settled(s, m.segment_id) BY <2>1, <2>5 DEF ReaderType
      <3>2. Body(s, m) BY <1>7, <2>1, <2>5 DEF InSequence
      <3> QED BY <2>2, <3>1, <3>2, BodyStays
    <2> QED BY <1>3, <1>7, <2>1, <2>3, <2>4, <2>5 DEF InSequence, Behind, Settles, Body, Within
  <1> QED BY <1>3, <1>4, <1>6, <1>7 DEF InSequence

\* The writers keep what queries read in order.
LEMMA WriterRows ==
    ASSUME OneThread, StorageInv, StorageInv', IdsInv, LedgerInv', ManifestInv, ManifestInv',
           SamplesInv, FlushInv, FlushInv', NoFailure', QueryInv, RowsInv, WriterStep
    PROVE  RowsInv'
  <1>1. Next /\ OrderFollows /\ [Next]_vars BY DEF WriterStep
  <1>2. CacheOK /\ OrderOK /\ ReadersOK BY DEF QueryInv
  <1>3. cache' = {} \/ (status # "down" /\ status' # "down" /\ cache' = cache)
    BY <1>2 DEF WriterStep, ReadersOK
  <1>4. Served' BY <1>1, NextServed DEF RowsInv
  <1>5. OrderSorted' BY <1>1, <1>2, WriterOrder DEF RowsInv
  <1>6. BodiesWithin' BY <1>1, <1>2, <1>3, WriterBodies DEF RowsInv
  <1>7. StoredLatest' BY <1>1, WriterStored DEF RowsInv
  <1>8. CachedLatest' BY <1>1, <1>2, <1>3, WriterCached DEF RowsInv
  <1>9. ASSUME NEW r \in Readers PROVE InSequence(reader[r])'
    <2>1. CASE status' = "down"
      <3>1. reader'[r] = IdleReader BY <2>1 DEF WriterStep
      <3>2. reader'[r].rows = << >> /\ reader'[r].pc = "idle" BY <3>1 DEF IdleReader
      <3>3. ToSet(<< >>) = {} BY DEF ToSet
      <3>4. InTime(<< >>) BY DEF InTime
      <3> QED BY <3>2, <3>3, <3>4 DEF InSequence
    <2>2. CASE status' # "down"
      <3>1. PICK q : q = reader[r] OBVIOUS
      <3>2. PICK o : o = Observed(q, task') OBVIOUS
      <3>3. ReaderType(q) /\ (status = "down" => q.pc = "idle") /\ InSequence(q)
        BY <1>2, <3>1 DEF ReadersOK, RowsInv
      <3>4. cache' = cache BY <2>2 DEF WriterStep
      <3>5. InSequence(o)' BY <1>1, <2>2, <3>2, <3>3, <3>4, WriterSequence
      <3>6. reader'[r] = o BY <2>2, <3>1, <3>2 DEF WriterStep
      <3> QED BY <3>5, <3>6 DEF InSequence
    <2> QED BY <2>1, <2>2
  <1> QED BY <1>4, <1>5, <1>6, <1>7, <1>8, <1>9 DEF RowsInv

-----------------------------------------------------------------------------
(* The readers.                                                            *)

\* A step of a reader changes the reader, and adds bodies of files to the cache.
LEMMA ReaderRows ==
    ASSUME StorageInv, IdsInv, FlushInv, RowsInv, status # "down", UNCHANGED <<vars, order>>,
           \A c \in cache' : c \in cache \/ \E f \in files : /\ f.data_id = c.data_id
                                                            /\ f.segment_id = c.segment_id
                                                            /\ f.samples = c.samples,
           DOMAIN reader = Readers, NEW r \in Readers, NEW q, InSequence(q),
           reader' = [reader EXCEPT ![r] = q]
    PROVE  RowsInv'
  <1>1. UNCHANGED <<status, manifest, series, files, task, memtable, flushed_max_ts, accepted>>
    BY DEF vars, memory, disk, history
  <1>2. Served' /\ OrderSorted' /\ StoredLatest'
    BY <1>1 DEF RowsInv, Served, OrderSorted, StoredLatest, Latest
  <1>3. \A s, m : Body(s, m) => Body(s, m)'
    <2> SUFFICES ASSUME NEW s, NEW m, Body(s, m) PROVE Body(s, m)' OBVIOUS
    <2>1. FileAt(s, m.segment_id)' = FileAt(s, m.segment_id) BY <1>1 DEF FileAt
    <2>2. ASSUME NEW c \in cache', c.data_id = s, c.segment_id = m.segment_id
          PROVE  Within(c.samples, m)
      <3>1. CASE c \in cache BY <2>2, <3>1 DEF Body
      <3>2. ASSUME NEW f \in files, f.data_id = c.data_id, f.segment_id = c.segment_id,
                   f.samples = c.samples
            PROVE  Within(c.samples, m)
        <4>1. f \in FileAt(s, m.segment_id) BY <2>2, <3>2 DEF FileAt
        <4> QED BY <3>2, <4>1 DEF Body
      <3> QED BY <3>1, <3>2
    <2> QED BY <2>1, <2>2 DEF Body, Within
  <1>4. BodiesWithin' BY <1>1, <1>3 DEF RowsInv, BodiesWithin
  <1>5. CachedLatest'
    <2> SUFFICES ASSUME NEW c \in cache', NEW y \in c.samples
                 PROVE  Latest(c.data_id, y) /\ Behind(c.data_id, y.timestamp_ms)
      BY <1>1 DEF CachedLatest, Latest, Behind, Settles, Raises, Owned
    <2>1. CASE c \in cache BY <2>1 DEF RowsInv, CachedLatest
    <2>2. ASSUME NEW f \in files, f.data_id = c.data_id, f.samples = c.samples
          PROVE  Latest(c.data_id, y) /\ Behind(c.data_id, y.timestamp_ms)
      <3>1. Behind(f.data_id, y.timestamp_ms) BY <2>2, FileBehind DEF RowsInv
      <3>2. Latest(f.data_id, y) BY <2>2 DEF RowsInv, StoredLatest
      <3> QED BY <2>2, <3>1, <3>2
    <2> QED BY <2>1, <2>2
  <1>6. ASSUME NEW u \in Readers PROVE InSequence(reader[u])'
    <2>1. PICK p : p = reader'[u] OBVIOUS
    <2>2. InSequence(p) BY <2>1 DEF RowsInv
    <2>3. InSequence(p)'
      BY <1>1, <1>3, <2>2 DEF InSequence, LatestSeen, Behind, Settles, Raises, Owned
    <2> QED BY <2>1, <2>3 DEF InSequence
  <1> QED BY <1>2, <1>4, <1>5, <1>6 DEF RowsInv

\* A query begins with the segments of the manifest, in their order.
LEMMA BeginRows ==
    ASSUME StorageInv, IdsInv, ManifestInv, FlushInv, QueryInv, RowsInv, NEW r \in Readers,
           NEW q \in Queries, BeginQuery(r, q)
    PROVE  RowsInv'
  <1> DEFINE s == q.data_id
             T == {m \in ToSet(order[s]) : Overlaps(m, q)}
  <1>1. PICK todo : todo = Retained(order[s], T) OBVIOUS
  <1>2. PICK x : x = [pc |-> "read", query |-> q, rows |-> << >>, ok |-> TRUE, begun |-> clock,
                      todo |-> todo, hidden |-> Unregistered(task, s)]
    OBVIOUS
  <1>3. /\ s \in Series /\ manifest[s] # None /\ status = "serving"
        /\ reader' = [reader EXCEPT ![r] = x] /\ UNCHANGED <<vars, order, cache>>
    BY <1>1, <1>2, QueryFacts DEF BeginQuery
  <1>4. x.pc = "read" /\ x.query = q /\ x.rows = << >> /\ x.todo = todo BY <1>2
  <1>5. s \in series BY <1>3 DEF RowsInv, Served
  <1>6. Lists(order[s], manifest[s].segments) BY <1>3 DEF QueryInv, OrderOK, SegmentsOf
  <1>7. order[s] \in Seq(manifest[s].segments) /\ ToSet(order[s]) = manifest[s].segments
    BY <1>6 DEF Lists
  <1>8. Sorted(order[s]) BY <1>3 DEF RowsInv, OrderSorted
  <1>9. Sorted(todo) BY <1>1, <1>7, <1>8, RetainedSorted
  <1>10. \A m \in ToSet(todo) : m \in manifest[s].segments BY <1>1, <1>7, RetainedSet
  <1>11. \A m \in ToSet(todo) : Body(s, m) BY <1>3, <1>10 DEF RowsInv, BodiesWithin, SegmentsOf
  <1>12. ToSet(<< >>) = {} /\ InTime(<< >>) BY DEF ToSet, InTime
  <1>13. InSequence(x) BY <1>4, <1>5, <1>9, <1>11, <1>12 DEF InSequence
  <1>14. DOMAIN reader = Readers BY DEF QueryInv, ReadersOK
  <1> QED BY <1>3, <1>13, <1>14, ReaderRows

\* A query that reads the next segment goes on in the order of time.
LEMMA CollectRows ==
    ASSUME StorageInv, IdsInv, FlushInv, QueryInv, RowsInv, NEW r \in Readers,
           reader[r].pc = "read", reader[r].todo # << >>, UNCHANGED <<vars, order>>,
           \A c \in cache' : c \in cache \/ \E f \in files : /\ f.data_id = c.data_id
                                                            /\ f.segment_id = c.segment_id
                                                            /\ f.samples = c.samples,
           NEW samples \in SUBSET BufferedSample, Lone(samples), Collect(r, samples),
           Within(samples, Head(reader[r].todo)),
           \A y \in samples : /\ Latest(reader[r].query.data_id, y)
                              /\ Behind(reader[r].query.data_id, y.timestamp_ms)
    PROVE  RowsInv'
  <1>1. PICK p : p = reader[r] OBVIOUS
  <1>2. PICK found : found = Found(r, samples) OBVIOUS
  <1>3. PICK q : q = [p EXCEPT !.rows = p.rows \o found, !.todo = Tail(p.todo)] OBVIOUS
  <1>4. /\ status # "down" /\ ReaderType(p) /\ p \in ReaderRecord /\ p.query \in Queries
        /\ p.rows \in Seq(BufferedSample) /\ p.todo \in Seq(SegmentMeta) /\ DOMAIN reader = Readers
        /\ InSequence(p)
    BY <1>1, ReaderRuns DEF RowsInv
  <1>5. reader' = [reader EXCEPT ![r] = q] BY <1>1, <1>2, <1>3, <1>4, CollectFacts, Zenon
  <1>6. q.rows = p.rows \o found /\ q.todo = Tail(p.todo) /\ q.query = p.query
        /\ q.begun = p.begun /\ q.pc = p.pc
    BY <1>3, <1>4 DEF ReaderRecord
  <1>7. found \in Seq(BufferedSample) /\ InTime(found) /\ ToSet(found) \subseteq samples
    <2>1. p.query.limit \in Nat \union {NoLimit} BY <1>4, QueryFacts
    <2>2. PICK n \in Nat \union {NoLimit} : n = Remaining(p.query.limit, p.rows)
      BY <1>4, <2>1, RemainingType
    <2>3. found = Slice(InOrder(samples), p.query.start_ts_ms, p.query.end_ts_ms, n)
      BY <1>1, <1>2, <2>2 DEF Found
    <2> QED BY <1>4, <2>3, RangeInTime
  <1>8. PICK m : m = Head(p.todo) OBVIOUS
  <1>9. /\ m \in ToSet(p.todo) /\ Sorted(Tail(p.todo)) /\ m \in SegmentMeta
        /\ \A n \in ToSet(Tail(p.todo)) :
               n \in ToSet(p.todo) /\ n \in SegmentMeta /\ m.max_ts_ms < n.min_ts_ms
    <2>1. ToSet(p.todo) = {m} \union ToSet(Tail(p.todo)) BY <1>1, <1>4, <1>8, HeadFacts
    <2>2. \A n \in ToSet(p.todo) : n \in SegmentMeta BY <1>4 DEF ToSet
    <2>3. Sorted(p.todo) BY <1>1, <1>4 DEF InSequence
    <2>4. /\ Sorted(Tail(p.todo))
          /\ \A n \in ToSet(Tail(p.todo)) : m.max_ts_ms < n.min_ts_ms
      BY <1>1, <1>4, <1>8, <2>3, TailSorted
    <2> QED BY <2>1, <2>2, <2>4
  <1>10. \A y \in ToSet(p.rows) : y \in BufferedSample /\ y.timestamp_ms < m.min_ts_ms
    BY <1>1, <1>4, <1>9 DEF InSequence, ToSet
  <1>11. \A y \in ToSet(found) : /\ y \in BufferedSample
                                 /\ m.min_ts_ms <= y.timestamp_ms /\ y.timestamp_ms <= m.max_ts_ms
    BY <1>1, <1>7, <1>8 DEF Within
  <1>12. \A y \in BufferedSample : y.timestamp_ms \in Int
    BY StorageAssumption DEF BufferedSample, Timestamps
  <1>13. \A n \in SegmentMeta : n.min_ts_ms \in Int /\ n.max_ts_ms \in Int
    BY StorageAssumption DEF SegmentMeta, Timestamps
  <1>14. \A x \in ToSet(p.rows), y \in ToSet(found) : x.timestamp_ms < y.timestamp_ms
    BY <1>9, <1>10, <1>11, <1>12, <1>13
  <1>15. InTime(p.rows) BY <1>4 DEF InSequence
  <1>16. InTime(q.rows) /\ ToSet(q.rows) = ToSet(p.rows) \union ToSet(found)
    BY <1>4, <1>6, <1>7, <1>14, <1>15, ConcatFacts
  <1>17. ASSUME NEW y \in ToSet(q.rows)
         PROVE  LatestSeen(q, y) /\ Behind(q.query.data_id, y.timestamp_ms)
    <2>1. CASE y \in ToSet(p.rows) BY <1>1, <1>4, <1>6, <2>1 DEF InSequence, LatestSeen
    <2>2. CASE y \in ToSet(found) BY <1>1, <1>6, <1>7, <2>2 DEF LatestSeen, Latest
    <2> QED BY <1>16, <2>1, <2>2
  <1>18. ASSUME NEW n \in ToSet(q.todo), NEW y \in ToSet(q.rows) PROVE y.timestamp_ms < n.min_ts_ms
    <2>1. n \in ToSet(p.todo) /\ n \in SegmentMeta /\ m.max_ts_ms < n.min_ts_ms BY <1>6, <1>9
    <2>2. CASE y \in ToSet(p.rows) BY <1>1, <1>4, <2>1, <2>2 DEF InSequence
    <2>3. CASE y \in ToSet(found) BY <1>9, <1>11, <1>12, <1>13, <2>1, <2>3
    <2> QED BY <1>16, <2>2, <2>3
  <1>19. \A n \in ToSet(q.todo) : Body(q.query.data_id, n) BY <1>1, <1>4, <1>6, <1>9 DEF InSequence
  <1>20. q.query.data_id \in series /\ Sorted(q.todo) BY <1>1, <1>4, <1>6, <1>9 DEF InSequence
  <1>21. InSequence(q) BY <1>4, <1>6, <1>16, <1>17, <1>18, <1>19, <1>20 DEF InSequence
  <1> QED BY <1>4, <1>5, <1>21, ReaderRows

\* A query answers with the rows that it has, or some of them.
LEMMA AnswerRows ==
    ASSUME StorageInv, IdsInv, FlushInv, QueryInv, RowsInv, NEW r \in Readers,
           reader[r].pc # "idle", UNCHANGED <<vars, order, cache>>, NEW rows, NEW ok,
           Answer(r, rows, ok), InTime(rows), \A y \in ToSet(rows) : LatestSeen(reader[r], y)
    PROVE  RowsInv'
  <1>1. PICK q : q = [reader[r] EXCEPT !.pc = "idle", !.todo = << >>, !.rows = rows, !.ok = ok]
    OBVIOUS
  <1>2. reader' = [reader EXCEPT ![r] = q] BY <1>1 DEF Answer
  <1>3. reader[r] \in ReaderRecord /\ reader[r].query \in Queries /\ status # "down"
        /\ DOMAIN reader = Readers
    BY ReaderRuns
  <1>4. q.pc = "idle" /\ q.query = reader[r].query /\ q.begun = reader[r].begun /\ q.rows = rows
    BY <1>1, <1>3 DEF ReaderRecord
  <1>5. InSequence(q) BY <1>3, <1>4 DEF InSequence, LatestSeen
  <1> QED BY <1>2, <1>3, <1>5, ReaderRows

\* The rows of the memtable are the last writes of their timestamps.
LEMMA MemoryRows ==
    ASSUME StorageInv, IdsInv, SamplesInv, FlushInv, QueryInv, RowsInv, NEW r \in Readers,
           ReadMemory(r)
    PROVE  RowsInv'
  <1>1. reader[r].pc = "memory" /\ UNCHANGED <<vars, order, cache>> BY DEF ReadMemory
  <1>2. PICK p : p = reader[r] OBVIOUS
  <1>3. /\ p.query \in Queries /\ p.rows \in Seq(BufferedSample) /\ InSequence(p)
    BY <1>1, <1>2, ReaderRuns DEF RowsInv
  <1>4. PICK s \in Series : s = p.query.data_id BY <1>3, QueryFacts
  <1>5. p.query.limit \in Nat \union {NoLimit} BY <1>3, QueryFacts
  <1>6. PICK n \in Nat \union {NoLimit} : n = Remaining(p.query.limit, p.rows)
    BY <1>3, <1>5, RemainingType
  <1>7. PICK last : last = LastWrites(memtable[s]) OBVIOUS
  <1>8. memtable[s] \in SUBSET BufferedSample /\ IsFiniteSet(memtable[s])
    BY DEF StorageInv, TypeOK, SamplesInv
  <1>9. last \in SUBSET BufferedSample /\ Lone(last) BY <1>7, <1>8, LastWritesType, LastWritesLone
  <1>10. PICK mem : mem = Slice(InOrder(last), p.query.start_ts_ms, p.query.end_ts_ms, n) OBVIOUS
  <1>11. mem \in Seq(BufferedSample) /\ InTime(mem) /\ ToSet(mem) \subseteq last
    BY <1>3, <1>9, <1>10, RangeInTime
  <1>12. \A y \in BufferedSample : y.timestamp_ms \in Int
    BY StorageAssumption DEF BufferedSample, Timestamps
  <1>13. PICK merged : merged = Merge(p.rows, mem) OBVIOUS
  <1>14. InTime(p.rows) BY <1>3 DEF InSequence
  <1>15. /\ merged \in Seq(BufferedSample) /\ InTime(merged)
         /\ ToSet(merged) \subseteq ToSet(p.rows) \union ToSet(mem)
    BY <1>3, <1>11, <1>12, <1>13, <1>14, MergeFacts
  <1>16. PICK rows : rows = Truncate(merged, p.query.limit) OBVIOUS
  <1>17. InTime(rows) /\ ToSet(rows) \subseteq ToSet(p.rows) \union last
    BY <1>5, <1>11, <1>15, <1>16, TruncateInTime
  <1>18. \A y \in last : Latest(s, y) BY <1>7, LastWriteLatest
  <1>19. ASSUME NEW y \in ToSet(rows) PROVE LatestSeen(p, y)
    <2>1. CASE y \in ToSet(p.rows) BY <1>3, <2>1 DEF InSequence
    <2>2. CASE y \in last BY <1>4, <1>18, <2>2 DEF Latest, LatestSeen
    <2> QED BY <1>17, <2>1, <2>2
  <1>20. ToSet(<< >>) = {} /\ InTime(<< >>) BY DEF ToSet, InTime
  <1>21. Answer(r, rows, TRUE) \/ Answer(r, << >>, FALSE)
    BY <1>2, <1>4, <1>6, <1>7, <1>10, <1>13, <1>16 DEF ReadMemory
  <1>22. CASE Answer(r, rows, TRUE) BY <1>1, <1>2, <1>17, <1>19, <1>22, AnswerRows
  <1>23. CASE Answer(r, << >>, FALSE) BY <1>1, <1>20, <1>23, AnswerRows
  <1> QED BY <1>21, <1>22, <1>23

\* Every step of a reader keeps the order.
LEMMA ReadersRows ==
    ASSUME StorageInv, IdsInv, ManifestInv, SamplesInv, FlushInv, QueryInv, RowsInv,
           NEW r \in Readers, ReaderStep(r)
    PROVE  RowsInv'
  <1>1. UNCHANGED <<vars, order>> BY ReaderStutter
  <1>2. ASSUME NEW q \in Queries, BeginQuery(r, q) PROVE RowsInv' BY <1>2, BeginRows
  <1>3. ASSUME reader[r].pc = "read", reader[r].todo # << >>
        PROVE  /\ status # "down" /\ reader[r].query.data_id \in Series
               /\ Body(reader[r].query.data_id, Head(reader[r].todo))
    <2>1. ReaderType(reader[r]) /\ status # "down" BY <1>3, ReaderRuns
    <2>2. Head(reader[r].todo) \in ToSet(reader[r].todo) /\ reader[r].query.data_id \in Series
      BY <1>3, <2>1, HeadFacts
    <2> QED BY <1>3, <2>1, <2>2 DEF RowsInv, InSequence
  <1>4. CASE ReadCached(r)
    <2>1. reader[r].pc = "read" /\ reader[r].todo # << >> /\ cache' = cache
      BY <1>4 DEF ReadCached, Reading
    <2>2. PICK c \in Cached(reader[r].query, Head(reader[r].todo)) : Collect(r, c.samples)
      BY <1>4 DEF ReadCached
    <2>3. /\ c \in cache /\ c.data_id = reader[r].query.data_id
          /\ c.segment_id = Head(reader[r].todo).segment_id
      BY <2>2 DEF Cached
    <2>4. c.samples \in SUBSET BufferedSample /\ Lone(c.samples)
      BY <2>3 DEF QueryInv, CacheOK, CacheType
    <2>5. Within(c.samples, Head(reader[r].todo)) BY <1>3, <2>1, <2>3 DEF Body
    <2>6. \A y \in c.samples : /\ Latest(reader[r].query.data_id, y)
                               /\ Behind(reader[r].query.data_id, y.timestamp_ms)
      BY <2>3 DEF RowsInv, CachedLatest
    <2> QED BY <1>1, <2>1, <2>2, <2>4, <2>5, <2>6, CollectRows
  <1>5. CASE ReadFile(r)
    <2>1. reader[r].pc = "read" /\ reader[r].todo # << >> BY <1>5 DEF ReadFile, Reading
    <2> DEFINE s == reader[r].query.data_id
               id == Head(reader[r].todo).segment_id
    <2>2. PICK f \in FileAt(s, id) :
              /\ Collect(r, f.samples)
              /\ cache' \in SUBSET (cache \union
                     {[data_id |-> s, segment_id |-> id, samples |-> f.samples]})
      BY <1>5 DEF ReadFile
    <2>3. f \in files /\ f.data_id = s /\ f.segment_id = id BY <2>2 DEF FileAt
    <2>4. f.samples \in SUBSET BufferedSample /\ Lone(f.samples)
      BY <2>3 DEF StorageInv, TypeOK, SegmentFile, SamplesInv
    <2>5. Within(f.samples, Head(reader[r].todo)) BY <1>3, <2>1, <2>2 DEF Body
    <2>6. \A y \in f.samples : Latest(s, y) BY <2>3 DEF RowsInv, StoredLatest
    <2>7. \A y \in f.samples : Behind(s, y.timestamp_ms)
      BY <1>3, <2>1, <2>3, FileBehind DEF RowsInv
    <2>8. \A c \in cache' : c \in cache \/ \E g \in files : /\ g.data_id = c.data_id
                                                           /\ g.segment_id = c.segment_id
                                                           /\ g.samples = c.samples
      BY <2>2, <2>3
    <2> QED BY <1>1, <2>1, <2>2, <2>4, <2>5, <2>6, <2>7, <2>8, CollectRows
  <1>6. CASE ReadMissing(r)
    <2>1. Answer(r, << >>, FALSE) /\ reader[r].pc = "read" /\ cache' = cache
      BY <1>6 DEF ReadMissing, Reading
    <2>2. ToSet(<< >>) = {} /\ InTime(<< >>) BY DEF ToSet, InTime
    <2> QED BY <1>1, <2>1, <2>2, AnswerRows
  <1>7. CASE ReadEnough(r)
    <2>1. /\ Answer(r, Truncate(reader[r].rows, reader[r].query.limit), TRUE)
          /\ reader[r].pc = "read" /\ cache' = cache
      BY <1>7 DEF ReadEnough, Reading
    <2>2. reader[r].query \in Queries /\ reader[r].rows \in Seq(BufferedSample)
      BY <2>1, ReaderRuns
    <2>3. reader[r].query.limit \in Nat \union {NoLimit} BY <2>2, QueryFacts
    <2>4. InSequence(reader[r]) BY DEF RowsInv
    <2>5. PICK rows : rows = Truncate(reader[r].rows, reader[r].query.limit) OBVIOUS
    <2>6. InTime(rows) /\ ToSet(rows) \subseteq ToSet(reader[r].rows)
      BY <2>2, <2>3, <2>4, <2>5, TruncateInTime DEF InSequence
    <2>7. \A y \in ToSet(rows) : LatestSeen(reader[r], y) BY <2>4, <2>6 DEF InSequence
    <2> QED BY <1>1, <2>1, <2>5, <2>6, <2>7, AnswerRows
  <1>8. CASE ReadAll(r)
    <2>1. reader[r].pc = "read" /\ reader' = [reader EXCEPT ![r].pc = "memory"] /\ cache' = cache
      BY <1>8 DEF ReadAll, Reading
    <2>2. PICK q : q = [reader[r] EXCEPT !.pc = "memory"] OBVIOUS
    <2>3. reader' = [reader EXCEPT ![r] = q] BY <2>1, <2>2
    <2>4. reader[r] \in ReaderRecord /\ status # "down" /\ DOMAIN reader = Readers
      BY <2>1, ReaderRuns
    <2>5. /\ q.pc = "memory" /\ q.query = reader[r].query /\ q.begun = reader[r].begun
          /\ q.rows = reader[r].rows /\ q.todo = reader[r].todo
      BY <2>2, <2>4 DEF ReaderRecord
    <2>6. InSequence(reader[r]) BY DEF RowsInv
    <2>7. InSequence(q) BY <2>1, <2>5, <2>6 DEF InSequence, LatestSeen
    <2> QED BY <1>1, <2>1, <2>3, <2>4, <2>7, ReaderRows
  <1> QED BY <1>2, <1>4, <1>5, <1>6, <1>7, <1>8, MemoryRows DEF ReaderStep

\* Nothing is read at first.
LEMMA InitRows == ASSUME QueryInit PROVE RowsInv
  <1>1. /\ status = "down" /\ files = {} /\ cache = {} /\ reader = [r \in Readers |-> IdleReader]
        /\ order = [s \in Series |-> << >>] /\ manifest = [s \in Series |-> None]
        /\ task = [a \in Actors |-> IdleTask]
    BY DEF QueryInit, Init
  <1>2. \A r \in Readers : reader[r].rows = << >> /\ reader[r].pc = "idle"
    BY <1>1 DEF IdleReader
  <1>3. ToSet(<< >>) = {} /\ InTime(<< >>) /\ Sorted(<< >>) BY DEF ToSet, InTime, Sorted
  <1>4. \A r \in Readers : InSequence(reader[r]) BY <1>2, <1>3 DEF InSequence
  <1>5. Served /\ OrderSorted /\ BodiesWithin
    BY <1>1, <1>3 DEF Served, OrderSorted, BodiesWithin, SegmentsOf
  <1>6. StoredLatest /\ CachedLatest BY <1>1, IdlePending DEF StoredLatest, CachedLatest
  <1> QED BY <1>4, <1>5, <1>6 DEF RowsInv

\* Every step keeps the order that does not fail.
LEMMA NextRows ==
    ASSUME OneThread, StorageInv, StorageInv', IdsInv, LedgerInv', ManifestInv, ManifestInv',
           SamplesInv, FlushInv, FlushInv', NoFailure', QueryInv, RowsInv, [QueryNext]_queryVars
    PROVE  RowsInv'
  <1>1. CASE WriterStep BY <1>1, WriterRows
  <1>2. ASSUME NEW r \in Readers, ReaderStep(r) PROVE RowsInv' BY <1>2, ReadersRows
  <1>3. CASE UNCHANGED queryVars
    <2>1. UNCHANGED <<status, manifest, series, files, task, memtable, flushed_max_ts, accepted,
                      order, cache, reader>>
      BY <1>3 DEF queryVars, readVars, vars, memory, disk, history
    <2>2. Served' /\ OrderSorted' /\ StoredLatest'
      BY <2>1 DEF RowsInv, Served, OrderSorted, StoredLatest, Latest
    <2>3. BodiesWithin' BY <2>1 DEF RowsInv, BodiesWithin, Body, Within, FileAt
    <2>4. CachedLatest'
      BY <2>1 DEF RowsInv, CachedLatest, Latest, Behind, Settles, Raises, Owned
    <2>5. ASSUME NEW r \in Readers PROVE InSequence(reader[r])'
      <3>1. PICK q : q = reader[r] OBVIOUS
      <3>2. InSequence(q) BY <3>1 DEF RowsInv
      <3>3. InSequence(q)'
        BY <2>1, <3>2 DEF InSequence, LatestSeen, Behind, Settles, Raises, Owned, Body, Within, FileAt
      <3> QED BY <2>1, <3>1, <3>3 DEF InSequence
    <2> QED BY <2>2, <2>3, <2>4, <2>5 DEF RowsInv
  <1> QED BY <1>1, <1>2, <1>3 DEF QueryNext

\* For a client that writes alone, and while the file system works: the segments that a query
\* reads are in the order of time, and what it has found is before them and the last write of
\* its timestamp, whatever flushes, evictions, restarts and other queries run in between.
THEOREM RowsInvariant == OneThread /\ QuerySpec /\ []NoFault => []RowsInv
  <1> SUFFICES ASSUME OneThread PROVE QuerySpec /\ []NoFault => []RowsInv OBVIOUS
  <1>1. NoFault /\ NoLossWithoutFault => NoFailure
    BY DEF NoFault, NoLossWithoutFault, NoFailure
  <1>2. QueryInit => RowsInv BY InitRows
  <1>3. StorageInv /\ StorageInv' /\ IdsInv /\ LedgerInv' /\ ManifestInv /\ ManifestInv'
            /\ SamplesInv /\ FlushInv /\ FlushInv' /\ NoFailure' /\ QueryInv /\ RowsInv
            /\ [QueryNext]_queryVars => RowsInv'
    BY NextRows
  <1>4. Spec /\ []NoFault => []FlushInv BY FlushInvariant
  <1>5. Spec => []NoLossWithoutFault BY NoLossAlone
  <1> QED BY <1>1, <1>2, <1>3, <1>4, <1>5, QueriesBeside, QueryInvariant, StorageInvariant,
             IdsInvariant, LedgerInvariant, ManifestInvariant, SamplesInvariant, PTL DEF QuerySpec

\* With one writer a query answers in the order of time, one row for a timestamp, though it
\* concatenates segments that it reads one by one and merges with what the memtable then holds.
THEOREM RowsAscendingAlone == OneThread /\ QuerySpec /\ []NoFault => []RowsAscending
  <1>1. ASSUME RowsInv PROVE RowsAscending
    BY <1>1 DEF RowsInv, InSequence, InTime, RowsAscending
  <1>2. RowsInv => RowsAscending BY <1>1
  <1> QED BY <1>2, RowsInvariant, PTL

\* With one writer a row is the last write of its timestamp among those accepted before the
\* query began, whether it comes from the cache, a file or the memtable.
THEOREM LastWriteWinsAlone == OneThread /\ QuerySpec /\ []NoFault => []LastWriteWins
  <1>1. ASSUME RowsInv PROVE LastWriteWins
    <2> SUFFICES ASSUME NEW r \in Readers, NEW i \in DOMAIN reader[r].rows,
                        NEW x \in accepted[reader[r].query.data_id],
                        x.timestamp_ms = reader[r].rows[i].timestamp_ms,
                        x.seq_no <= reader[r].begun
                 PROVE  x.seq_no <= reader[r].rows[i].seq_no
      BY DEF LastWriteWins
    <2>1. reader[r].rows[i] \in ToSet(reader[r].rows) BY DEF ToSet
    <2> QED BY <1>1, <2>1 DEF RowsInv, InSequence, LatestSeen
  <1>2. RowsInv => LastWriteWins BY <1>1
  <1> QED BY <1>2, RowsInvariant, PTL

\* What EarliestRows says of a step.
StopsEarly ==
    \A r \in Readers : ReadEnough(r) =>
        LET q == reader[r].query
            last == Last(reader'[r].rows).timestamp_ms
        IN  /\ \A m \in ToSet(reader[r].todo) : m.min_ts_ms > last
            /\ \A x \in memtable[q.data_id] : x.timestamp_ms > last

\* With one writer a query that stops at its limit has the earliest rows: no segment that it
\* has not read and no memtable holds an earlier one, or a later write of the last.
THEOREM EarliestRowsAlone == OneThread /\ QuerySpec /\ []NoFault => EarliestRows
  <1> SUFFICES ASSUME OneThread PROVE QuerySpec /\ []NoFault => EarliestRows OBVIOUS
  <1>1. ASSUME StorageInv, QueryInv, RowsInv PROVE StopsEarly
    <2> SUFFICES ASSUME NEW r \in Readers, ReadEnough(r)
                 PROVE  LET q == reader[r].query
                            last == Last(reader'[r].rows).timestamp_ms
                        IN  /\ \A m \in ToSet(reader[r].todo) : m.min_ts_ms > last
                            /\ \A x \in memtable[q.data_id] : x.timestamp_ms > last
      BY DEF StopsEarly
    <2>1. PICK p : p = reader[r] OBVIOUS
    <2>2. /\ p.pc = "read" /\ p.query.limit # NoLimit /\ Len(p.rows) >= p.query.limit
          /\ Answer(r, Truncate(p.rows, p.query.limit), TRUE)
      BY <2>1 DEF ReadEnough, Reading, Full
    <2>3. /\ p \in ReaderRecord /\ p.query \in Queries /\ p.rows \in Seq(BufferedSample)
          /\ p.todo \in Seq(SegmentMeta) /\ DOMAIN reader = Readers /\ InSequence(p)
      BY <1>1, <2>1, <2>2, ReaderRuns DEF RowsInv
    <2>4. p.query.limit \in Nat \ {0} BY <2>2, <2>3, QueryFacts
    <2>5. PICK rows : rows = Truncate(p.rows, p.query.limit) OBVIOUS
    <2>6. reader'[r].rows = rows
      <3>1. reader'[r] = [p EXCEPT !.pc = "idle", !.todo = << >>, !.rows = rows, !.ok = TRUE]
        BY <2>1, <2>2, <2>3, <2>5 DEF Answer
      <3> QED BY <2>3, <3>1 DEF ReaderRecord
    <2>7. PICK y : y = Last(rows) OBVIOUS
    <2>8. y \in ToSet(p.rows)
      <3>1. p.query.limit <= Len(p.rows) BY <2>2, <2>3, <2>4
      <3>2. InTime(p.rows) BY <2>3 DEF InSequence
      <3> QED BY <2>3, <2>4, <2>5, <2>7, <3>1, <3>2, TruncateInTime
    <2>9. y \in BufferedSample BY <2>3, <2>8 DEF ToSet
    <2>10. y.timestamp_ms \in Int BY <2>9, StorageAssumption DEF BufferedSample, Timestamps
    <2>11. ASSUME NEW m \in ToSet(p.todo) PROVE m.min_ts_ms > y.timestamp_ms
      <3>1. m \in SegmentMeta BY <2>3 DEF ToSet
      <3>2. m.min_ts_ms \in Int BY <3>1, StorageAssumption DEF SegmentMeta, Timestamps
      <3>3. y.timestamp_ms < m.min_ts_ms BY <2>2, <2>3, <2>8 DEF InSequence
      <3> QED BY <2>10, <3>2, <3>3
    <2>12. ASSUME NEW x \in memtable[p.query.data_id] PROVE x.timestamp_ms > y.timestamp_ms
      <3>1. y.timestamp_ms < x.timestamp_ms BY <2>2, <2>3, <2>8 DEF InSequence, Behind
      <3>2. PICK s \in Series : s = p.query.data_id BY <2>3, QueryFacts
      <3>3. x.timestamp_ms \in Int
        BY <1>1, <3>2, StorageAssumption DEF StorageInv, TypeOK, BufferedSample, Timestamps
      <3> QED BY <2>10, <3>1, <3>3
    <2> QED BY <2>1, <2>6, <2>7, <2>11, <2>12
  <1>2. StorageInv /\ QueryInv /\ RowsInv => [StopsEarly]_queryVars BY <1>1
  <1>3. QuerySpec /\ []NoFault => [][StopsEarly]_queryVars
    BY <1>2, QueriesBeside, StorageInvariant, QueryInvariant, RowsInvariant, PTL
  <1> QED BY <1>3 DEF EarliestRows, StopsEarly

=============================================================================
