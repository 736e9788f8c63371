---------------------------- MODULE StorageProofs -----------------------------
(***************************************************************************)
(* What holds of Storage for every set of series, every number of threads, *)
(* crashes and faults: its type invariant, and what threads know of the    *)
(* series and of the segments they work on; segment files are immutable; no*)
(* accepted sample is lost without a trace.                                *)
(***************************************************************************)
EXTENDS Storage, DataLemmas

-----------------------------------------------------------------------------
(* The inductive invariant.                                                *)

WritingPCs == {"mkdir", "create", "rename"}
EvictingPCs == {"remove", "dircheck", "rmdir", "update"}

\* What is known, at each place of a thread, of the series in its loop and in
\* its flush, when the engine serves the series in known.
TaskOK(r, known) ==
    /\ Pending(r) \subseteq known
    /\ r.pc \in {"idle", "append"} => Pending(r) = {}
    /\ r.pc = "append" => r.to_flush \subseteq known
    /\ r.pc \in {"prepare", "evict"} => r.todo \subseteq known
    /\ r.pc \in {"prepare", "alloc"} => \A s \in Series : ~Written(r.pending[s])
    /\ r.pc = "prepare" => Pending(r) \cap r.todo = {}
    /\ r.pc \in {"alloc", "commit", "advance"} \union WritingPCs => r.todo \subseteq Pending(r)
    /\ r.pc \in {"alloc", "commit"} => r.todo = Pending(r)
    /\ r.pc \in WritingPCs => \A s \in Pending(r) : s \in r.todo <=> ~Written(r.pending[s])
    /\ r.pc \in {"create", "rename"} => r.current \in r.todo
    /\ r.pc \in {"commit", "advance"} => \A s \in Pending(r) : Written(r.pending[s])
    /\ r.pc \in EvictingPCs => r.current \in known /\ r.todo \subseteq known

\* Threads run only while the engine does.
RunsWhile(a) == IF a = Opener THEN "opening" ELSE "serving"
StatusOK == \A a \in Actors : ~At(a, "idle") => status = RunsWhile(a)

\* Memory knows the series it serves.
SeriesOK ==
    /\ \A s \in series : manifest[s] # None
    /\ \A s \in Series : memtable[s] # {} => s \in series

\* There is a largest id among the segment files.
BoundedIds == \E n \in Nat : \A f \in files : f.segment_id <= n

StorageInv ==
    /\ TypeOK
    /\ StatusOK
    /\ SeriesOK
    /\ BoundedIds
    /\ \A a \in Actors : TaskOK(task[a], series)

-----------------------------------------------------------------------------
(* Lemmas about the helpers of Storage.                                    *)

\* Timestamps are integers with a least and a greatest one.
LEMMA TimestampRange ==
    ASSUME NEW T \in SUBSET Timestamps, T # {}
    PROVE  /\ Max(T) \in T /\ \A x \in T : x <= Max(T)
           /\ Min(T) \in T /\ \A x \in T : Min(T) <= x
  <1>1. MinI64 \in Int /\ MaxI64 \in Int BY StorageAssumption
  <1>2. T \in SUBSET Int /\ \A x \in T : x <= MaxI64 /\ MinI64 <= x BY <1>1 DEF Timestamps
  <1> QED BY <1>1, <1>2, MaxBounded, MinBounded

\* The range of time a set of samples covers.
LEMMA SampleRange ==
    ASSUME NEW S \in SUBSET BufferedSample, S # {}
    PROVE  /\ MinTs(S) \in Timestamps /\ MaxTs(S) \in Timestamps
           /\ \A x \in S : MinTs(S) <= x.timestamp_ms /\ x.timestamp_ms <= MaxTs(S)
  <1>1. Stamps(S) \in SUBSET Timestamps /\ Stamps(S) # {} BY DEF Stamps, BufferedSample
  <1>2. \A x \in S : x.timestamp_ms \in Stamps(S) BY DEF Stamps
  <1> QED BY <1>1, <1>2, TimestampRange DEF MinTs, MaxTs

\* Saturating arithmetic stays within a u64.
LEMMA SaturatingType ==
    ASSUME NEW a \in 0 .. MaxU64, NEW b \in 0 .. MaxU64
    PROVE  SaturatingAdd(a, b) \in 0 .. MaxU64 /\ SaturatingSub(a, b) \in 0 .. MaxU64
  BY StorageAssumption DEF SaturatingAdd, SaturatingSub

\* A flush writes a part of what it drained.
LEMMA LastWritesType == \A S : LastWrites(S) \subseteq S
  BY DEF LastWrites

\* An idle thread has the type of a thread and flushes nothing.
LEMMA IdleTaskType == IdleTask \in Task /\ IdleTask.pc = "idle" /\ Pending(IdleTask) = {}
  <1>1. << >> \in Seq(Sample) OBVIOUS
  <1>2. NoFlush \in PendingFlush BY StorageAssumption DEF NoFlush, PendingFlush
  <1>3. NoVictim \in Victim BY StorageAssumption DEF NoVictim, Victim
  <1> QED BY <1>1, <1>2, <1>3 DEF IdleTask, Task, PCs, Pending, NoFlush

\* Nothing needs to be known of an idle thread.
LEMMA IdleTaskOK == ASSUME NEW known PROVE TaskOK(IdleTask, known)
  BY IdleTaskType DEF TaskOK, WritingPCs, EvictingPCs

\* Knowing more series changes nothing for a thread.
LEMMA TaskOKMonotone ==
    ASSUME NEW r, NEW K, NEW L, K \subseteq L, TaskOK(r, K)
    PROVE  TaskOK(r, L)
  BY DEF TaskOK

\* A step that replaces the record of one thread keeps what is known of threads.
LEMMA ThreadStep ==
    ASSUME StorageInv, NEW a \in Actors, NEW r \in Task,
           task' = [task EXCEPT ![a] = r],
           TaskOK(r, series), series' = series, status' = status,
           r.pc = "idle" \/ status = RunsWhile(a)
    PROVE  /\ task' \in [Actors -> Task]
           /\ StatusOK'
           /\ \A b \in Actors : TaskOK(task'[b], series')
  <1>1. task \in [Actors -> Task] BY DEF StorageInv, TypeOK
  <1>2. task'[a] = r /\ \A b \in Actors \ {a} : task'[b] = task[b] BY <1>1
  <1>3. task' \in [Actors -> Task] BY <1>1
  <1>4. StatusOK' BY <1>2 DEF StorageInv, StatusOK, At, RunsWhile
  <1>5. \A b \in Actors : TaskOK(task'[b], series') BY <1>2 DEF StorageInv
  <1> QED BY <1>3, <1>4, <1>5

\* A thread that is under way runs in the status it needs.
LEMMA RunningStatus ==
    ASSUME StorageInv, NEW a \in Actors, task[a].pc # "idle"
    PROVE  status = RunsWhile(a)
  <1>1. StatusOK BY DEF StorageInv
  <1> QED BY <1>1 DEF StatusOK, At

-----------------------------------------------------------------------------
(* Every action keeps the invariant: clients and appends.                  *)

\* The invariant holds before the engine is first opened.
LEMMA InitInv == Init => StorageInv
  <1> SUFFICES ASSUME Init PROVE StorageInv OBVIOUS
  <1>1. TypeOK
    BY IdleTaskType DEF Init, TypeOK, Manifest
  <1>2. StatusOK BY IdleTaskType DEF Init, StatusOK, At
  <1>3. SeriesOK /\ BoundedIds BY DEF Init, SeriesOK, BoundedIds
  <1>4. \A a \in Actors : TaskOK(task[a], series) BY IdleTaskOK DEF Init
  <1> QED BY <1>1, <1>2, <1>3, <1>4 DEF StorageInv

\* A registered series has a limit that is not zero, or none.
LEMMA NewEntryType ==
    ASSUME NEW type \in SeriesTypes, NEW limit \in Limits, ValidLimit(Clamp(limit))
    PROVE  NewEntry(type, Clamp(limit)) \in SeriesEntry
  <1>1. limit \in Nat \union {None} /\ DefaultLimit \in (Nat \ {0}) \union {None} /\ None \notin Int
    BY StorageAssumption
  <1>2. ASSUME limit # None, DefaultLimit # None
        PROVE  Min({limit, DefaultLimit}) \in {limit, DefaultLimit}
    <2>1. {limit, DefaultLimit} \in SUBSET Int /\ \A x \in {limit, DefaultLimit} : 0 <= x
      BY <1>1, <1>2
    <2> QED BY <2>1, MinBounded
  <1>3. Clamp(limit) \in (Nat \ {0}) \union {None}
    BY <1>1, <1>2 DEF Clamp, ValidLimit
  <1> QED BY <1>3, StorageAssumption DEF NewEntry, SeriesEntry

\* register_series, whether or not its save succeeds.
LEMMA RegisterInv ==
    ASSUME StorageInv, NEW s \in Series, NEW type \in SeriesTypes, NEW limit \in Limits,
           NEW ok \in BOOLEAN, Register(s, type, limit, ok)
    PROVE  StorageInv'
  <1> DEFINE entry == NewEntry(type, Clamp(limit))
  <1>1. TypeOK /\ SeriesOK /\ StatusOK /\ BoundedIds BY DEF StorageInv
  <1>2. entry \in SeriesEntry BY NewEntryType DEF Register
  <1>3. manifest' = [manifest EXCEPT ![s] = entry] BY DEF Register, Save
  <1>4. manifest' \in Manifest BY <1>1, <1>2, <1>3 DEF TypeOK, Manifest
  <1>5. saved' \in Manifest BY <1>1, <1>3, <1>4 DEF Register, Save, TypeOK
  <1>6. faults' \in Nat BY <1>1 DEF Register, Outcome, TypeOK
  <1>7. series' \subseteq Series /\ series \subseteq series' BY <1>1 DEF Register, TypeOK
  <1>8. TypeOK' BY <1>1, <1>4, <1>5, <1>6, <1>7 DEF Register, TypeOK, history
  <1>9. StatusOK' /\ BoundedIds'
    BY <1>1 DEF Register, StatusOK, At, BoundedIds
  <1>10. SeriesOK' BY <1>1, <1>2, <1>3, NoneAssumption DEF Register, SeriesOK, TypeOK, Manifest
  <1>11. \A a \in Actors : TaskOK(task[a], series)' BY <1>7, TaskOKMonotone DEF StorageInv, Register
  <1> QED BY <1>8, <1>9, <1>10, <1>11 DEF StorageInv

\* An append arrives.
LEMMA BeginAppendInv ==
    ASSUME StorageInv, NEW t \in Tasks, NEW batch \in Batches, BeginAppend(t, batch)
    PROVE  StorageInv'
  <1> DEFINE r == [IdleTask EXCEPT !.pc = "append", !.batch = batch,
                                   !.todo = {batch[i].data_id : i \in DOMAIN batch}]
  <1>1. TypeOK /\ SeriesOK /\ BoundedIds BY DEF StorageInv
  <1>2. t \in Actors /\ t # Opener BY StorageAssumption DEF Actors
  <1>3. batch \in Seq(Sample) BY StorageAssumption
  <1>4. {batch[i].data_id : i \in DOMAIN batch} \subseteq Series
    <2>1. \A i \in DOMAIN batch : batch[i] \in Sample BY <1>3
    <2> QED BY <2>1 DEF Sample
  <1>5. r \in Task BY <1>3, <1>4, IdleTaskType, Zenon DEF Task, PCs
  <1>6. TaskOK(r, series) BY IdleTaskType DEF TaskOK, IdleTask, Pending, WritingPCs, EvictingPCs
  <1>7. /\ task' = [task EXCEPT ![t] = r]
        /\ UNCHANGED <<status, memory, disk, history, bounds>> /\ status = "serving"
    BY DEF BeginAppend
  <1>8. task' \in [Actors -> Task] /\ StatusOK' /\ \A b \in Actors : TaskOK(task'[b], series')
    BY <1>2, <1>5, <1>6, <1>7, ThreadStep, Zenon DEF memory, RunsWhile
  <1>9. TypeOK' /\ SeriesOK' /\ BoundedIds'
    BY <1>1, <1>7, <1>8, Zenon DEF TypeOK, SeriesOK, BoundedIds, memory, disk, history, bounds
  <1> QED BY <1>8, <1>9 DEF StorageInv

\* A thread may enter flush_serieses with any series that are served.
LEMMA FlushingOK ==
    ASSUME NEW known \in SUBSET Series, NEW ids \in SUBSET known
    PROVE  Flushing(ids) \in Task /\ TaskOK(Flushing(ids), known)
  <1>1. CASE ids = {} BY <1>1, IdleTaskType, IdleTaskOK DEF Flushing
  <1>2. CASE ids # {}
    <2> DEFINE r == [IdleTask EXCEPT !.pc = "prepare", !.todo = ids]
    <2>1. Flushing(ids) = r BY <1>2 DEF Flushing
    <2>2. r \in Task BY IdleTaskType DEF Task, PCs
    <2>3. TaskOK(r, known)
      BY IdleTaskType DEF TaskOK, IdleTask, Pending, WritingPCs, EvictingPCs, Written, NoFlush
    <2> QED BY <2>1, <2>2, <2>3
  <1> QED BY <1>1, <1>2

\* A flush arrives.
LEMMA BeginFlushInv ==
    ASSUME StorageInv, NEW t \in Tasks, NEW ids, BeginFlush(t, ids)
    PROVE  StorageInv'
  <1>1. TypeOK /\ SeriesOK /\ BoundedIds BY DEF StorageInv
  <1>2. t \in Actors /\ t # Opener BY StorageAssumption DEF Actors
  <1>3. Flushing(ids) \in Task /\ TaskOK(Flushing(ids), series)
    BY <1>1, FlushingOK DEF BeginFlush, TypeOK
  <1>4. /\ task' = [task EXCEPT ![t] = Flushing(ids)]
        /\ UNCHANGED <<status, memory, disk, history, bounds>> /\ status = "serving"
    BY DEF BeginFlush
  <1>5. task' \in [Actors -> Task] /\ StatusOK' /\ \A b \in Actors : TaskOK(task'[b], series')
    BY <1>2, <1>3, <1>4, ThreadStep DEF memory, RunsWhile
  <1>6. TypeOK' /\ SeriesOK' /\ BoundedIds'
    BY <1>1, <1>4, <1>5 DEF TypeOK, SeriesOK, BoundedIds, memory, disk, history, bounds
  <1> QED BY <1>5, <1>6 DEF StorageInv

\* append_to_series_state, and the entry into the flush that it triggers.
LEMMA AppendGroupInv ==
    ASSUME StorageInv, NEW t \in Tasks, NEW s \in Series, AppendGroup(t, s)
    PROVE  StorageInv'
  <1> DEFINE batch == task[t].batch
             taken == {i \in DOMAIN batch : batch[i].data_id = s /\ Accepts(batch[i])}
             new == {[timestamp_ms |-> batch[i].timestamp_ms, seq_no |-> clock + i] : i \in taken}
             full == taken # {} /\ Cardinality(memtable[s] \union new) >= FlushThresholdCount
             to_flush == task[t].to_flush \union (IF full THEN {s} ELSE {})
             rest == [task[t] EXCEPT !.todo = task[t].todo \ {s}, !.to_flush = to_flush]
             r == IF task[t].todo = {s} THEN Flushing(to_flush) ELSE rest
  <1>1. TypeOK /\ SeriesOK /\ BoundedIds /\ StatusOK BY DEF StorageInv
  <1>2. t \in Actors /\ t # Opener BY StorageAssumption DEF Actors
  <1>3. /\ task' = [task EXCEPT ![t] = r]
        /\ memtable' = [memtable EXCEPT ![s] = @ \union new]
        /\ accepted' = [accepted EXCEPT ![s] = @ \union new]
        /\ clock' = clock + Len(batch)
        /\ task[t].pc = "append" /\ s \in task[t].todo
        /\ UNCHANGED <<status, manifest, series, flushed_max_ts, disk,
                       evicted, restarted, failed, faults, crashes>>
    BY DEF AppendGroup, At
  <1>4. task[t] \in Task /\ clock \in Nat BY <1>1, <1>2 DEF TypeOK
  <1>5. batch \in Seq(Sample) /\ Len(batch) \in Nat
        /\ \A i \in DOMAIN batch : batch[i] \in Sample /\ i \in Nat
    <2>1. batch \in Seq(Sample) BY <1>4 DEF Task
    <2> QED BY <2>1
  <1>6. new \in SUBSET BufferedSample BY <1>4, <1>5 DEF BufferedSample, Sample
  <1>7. taken # {} => s \in series BY DEF Accepts
  <1>8. TaskOK(task[t], series) BY <1>2 DEF StorageInv
  <1>9. to_flush \in SUBSET series /\ series \in SUBSET Series
    BY <1>1, <1>3, <1>7, <1>8 DEF TaskOK, TypeOK
  <1>10. new # {} => s \in series BY <1>7
  <1> HIDE DEF new, to_flush
  <1>11. Flushing(to_flush) \in Task /\ TaskOK(Flushing(to_flush), series) BY <1>9, FlushingOK
  <1>12. rest \in Task BY <1>4, <1>9 DEF Task
  <1>13. TaskOK(rest, series)
    BY <1>3, <1>8, <1>9 DEF TaskOK, Pending, WritingPCs, EvictingPCs
  <1>14. r \in Task /\ TaskOK(r, series) BY <1>11, <1>12, <1>13
  <1>15. status = RunsWhile(t) BY <1>2, <1>3, RunningStatus
  <1> HIDE DEF r
  <1>16. task' \in [Actors -> Task] /\ StatusOK' /\ \A b \in Actors : TaskOK(task'[b], series')
    BY <1>2, <1>3, <1>14, <1>15, ThreadStep
  <1>17. TypeOK' BY <1>1, <1>3, <1>4, <1>5, <1>6, <1>16 DEF TypeOK, disk
  <1>18. SeriesOK' BY <1>1, <1>3, <1>10 DEF SeriesOK, TypeOK
  <1>19. BoundedIds' BY <1>1, <1>3 DEF BoundedIds, disk
  <1> QED BY <1>16, <1>17, <1>18, <1>19 DEF StorageInv

-----------------------------------------------------------------------------
(* Flushes.                                                                *)

\* A thread that leaves a loop over series for the next one.
LEMMA VisitedType ==
    ASSUME NEW r \in Task, NEW s \in Series, NEW pc \in PCs, NEW work \in SUBSET Series
    PROVE  Visited(r, s, pc, work) \in Task
  BY IdleTaskType DEF Visited, Task

\* prepare_series_flush: only a series that is served has samples to drain.
LEMMA PrepareInv ==
    ASSUME StorageInv, NEW t \in Tasks, NEW s \in Series, Prepare(t, s)
    PROVE  StorageInv'
  <1> DEFINE r == [task[t] EXCEPT !.pending[s].samples = LastWrites(memtable[s])]
             v == Visited(r, s, "alloc", Pending(r))
  <1>1. TypeOK /\ SeriesOK /\ BoundedIds /\ StatusOK BY DEF StorageInv
  <1>2. t \in Actors /\ t # Opener BY StorageAssumption DEF Actors
  <1>3. /\ task' = [task EXCEPT ![t] = v]
        /\ memtable' = [memtable EXCEPT ![s] = {}]
        /\ task[t].pc = "prepare" /\ s \in task[t].todo
        /\ UNCHANGED <<status, manifest, series, flushed_max_ts, disk, history, bounds>>
    BY DEF Prepare, At
  <1>4. task[t] \in Task /\ TaskOK(task[t], series) BY <1>1, <1>2 DEF TypeOK, StorageInv
  <1>5. LastWrites(memtable[s]) \in SUBSET BufferedSample BY <1>1, LastWritesType DEF TypeOK
  <1>6. r \in Task /\ r.pc = "prepare" /\ r.todo = task[t].todo
    BY <1>3, <1>4, <1>5 DEF Task, PendingFlush
  <1>7. s \in series /\ r.todo \subseteq series BY <1>3, <1>4, <1>6 DEF TaskOK
  <1>8. \A x \in Series : /\ r.pending[x].size_bytes = task[t].pending[x].size_bytes
                          /\ x # s => r.pending[x] = task[t].pending[x]
    BY <1>4 DEF Task, PendingFlush
  <1>9. /\ Pending(r) \subseteq series /\ \A x \in Series : ~Written(r.pending[x])
        /\ Pending(r) \cap (r.todo \ {s}) = {}
    BY <1>3, <1>4, <1>6, <1>7, <1>8 DEF TaskOK, Pending, Written
  <1> HIDE DEF r
  <1>10. v \in Task BY <1>6, VisitedType DEF Pending, PCs
  <1>11. TaskOK(v, series)
    <2>1. CASE r.todo # {s}
      <3>1. v = [r EXCEPT !.todo = r.todo \ {s}, !.current = None] BY <2>1 DEF Visited
      <3>2. v.pc = "prepare" /\ v.todo = r.todo \ {s} /\ v.pending = r.pending
        BY <3>1, <1>6 DEF Task
      <3> HIDE DEF v
      <3> QED BY <3>2, <1>7, <1>9 DEF TaskOK, Pending, WritingPCs, EvictingPCs
    <2>2. CASE r.todo = {s} /\ Pending(r) = {} BY <2>2, IdleTaskOK DEF Visited
    <2>3. CASE r.todo = {s} /\ Pending(r) # {}
      <3>1. v = [r EXCEPT !.pc = "alloc", !.todo = Pending(r), !.current = None]
        BY <2>3 DEF Visited
      <3>2. v.pc = "alloc" /\ v.todo = Pending(r) /\ v.pending = r.pending
        BY <3>1, <1>6 DEF Task
      <3> HIDE DEF v
      <3> QED BY <3>2, <1>9 DEF TaskOK, Pending, WritingPCs, EvictingPCs
    <2> QED BY <2>1, <2>2, <2>3
  <1>12. status = RunsWhile(t) BY <1>2, <1>3, RunningStatus
  <1> HIDE DEF v
  <1>13. task' \in [Actors -> Task] /\ StatusOK' /\ \A b \in Actors : TaskOK(task'[b], series')
    BY <1>2, <1>3, <1>10, <1>11, <1>12, ThreadStep
  <1>14. TypeOK' BY <1>1, <1>3, <1>13 DEF TypeOK, disk, history, bounds
  <1>15. SeriesOK' /\ BoundedIds' BY <1>1, <1>3 DEF SeriesOK, BoundedIds, TypeOK, disk
  <1> QED BY <1>13, <1>14, <1>15 DEF StorageInv

\* Ids are taken for series that the manifest knows.
LEMMA AllocInv ==
    ASSUME StorageInv, NEW t \in Tasks, Alloc(t)
    PROVE  StorageInv'
  <1> DEFINE P == Pending(task[t])
             entry(s) == [manifest[s] EXCEPT !.next_segment_id = @ + 1]
             flush(s) == [task[t].pending[s] EXCEPT !.segment_id = manifest[s].next_segment_id]
             pending == [s \in Series |-> IF s \in P THEN flush(s) ELSE task[t].pending[s]]
             r == [task[t] EXCEPT !.pc = "mkdir", !.pending = pending]
  <1>1. TypeOK /\ SeriesOK /\ BoundedIds /\ StatusOK BY DEF StorageInv
  <1>2. t \in Actors /\ t # Opener BY StorageAssumption DEF Actors
  <1>3. /\ task' = [task EXCEPT ![t] = r]
        /\ manifest' = [s \in Series |-> IF s \in P THEN entry(s) ELSE manifest[s]]
        /\ task[t].pc = "alloc"
        /\ UNCHANGED <<status, series, memtable, flushed_max_ts, disk, history, bounds>>
    BY DEF Alloc, At
  <1>4. task[t] \in Task /\ TaskOK(task[t], series) BY <1>1, <1>2 DEF TypeOK, StorageInv
  <1>5. ASSUME NEW s \in P PROVE manifest[s] \in SeriesEntry /\ s \in series
    BY <1>1, <1>4 DEF TaskOK, SeriesOK, TypeOK, Manifest
  <1>6. \A s \in P : entry(s) \in SeriesEntry BY <1>5 DEF SeriesEntry
  <1>7. manifest' \in Manifest BY <1>1, <1>3, <1>6 DEF TypeOK, Manifest
  <1>8. \A s \in P : flush(s) \in PendingFlush /\ flush(s).samples = task[t].pending[s].samples
                     /\ flush(s).size_bytes = task[t].pending[s].size_bytes
    BY <1>4, <1>5 DEF Task, PendingFlush, SeriesEntry, Pending
  <1> HIDE DEF flush
  <1>9. pending \in [Series -> PendingFlush] BY <1>4, <1>8 DEF Task
  <1>10. \A s \in Series : pending[s].samples = task[t].pending[s].samples
                           /\ pending[s].size_bytes = task[t].pending[s].size_bytes
    BY <1>8
  <1> HIDE DEF pending
  <1>11. r \in Task /\ r.pc = "mkdir" /\ r.pending = pending /\ r.todo = task[t].todo
    BY <1>4, <1>9 DEF Task, PCs
  <1> HIDE DEF r
  <1>12. Pending(r) = P BY <1>10, <1>11 DEF Pending
  <1>13. TaskOK(r, series)
    BY <1>3, <1>4, <1>10, <1>11, <1>12 DEF TaskOK, Pending, Written, WritingPCs, EvictingPCs
  <1>14. status = RunsWhile(t) BY <1>2, <1>3, RunningStatus
  <1>15. task' \in [Actors -> Task] /\ StatusOK' /\ \A b \in Actors : TaskOK(task'[b], series')
    BY <1>2, <1>3, <1>11, <1>13, <1>14, ThreadStep
  <1>16. TypeOK' BY <1>1, <1>3, <1>7, <1>15 DEF TypeOK, disk, history, bounds
  <1>17. SeriesOK'
    BY <1>1, <1>3, <1>6, NoneAssumption DEF SeriesOK, TypeOK
  <1>18. BoundedIds' BY <1>1, <1>3 DEF BoundedIds, disk
  <1> QED BY <1>15, <1>16, <1>17, <1>18 DEF StorageInv

\* write_segment_file creates the directory of the series.
LEMMA MkdirInv ==
    ASSUME StorageInv, NEW t \in Tasks, NEW s \in Series, Mkdir(t, s)
    PROVE  StorageInv'
  <1> DEFINE r == [task[t] EXCEPT !.pc = "create", !.current = s]
  <1>1. TypeOK /\ SeriesOK /\ BoundedIds BY DEF StorageInv
  <1>2. t \in Actors BY DEF Actors
  <1>3. /\ task' = [task EXCEPT ![t] = r]
        /\ dirs' = dirs \union {s}
        /\ task[t].pc = "mkdir" /\ s \in task[t].todo
        /\ UNCHANGED <<status, memory, files, tmps, saved, history, bounds>>
    BY DEF Mkdir, At
  <1>4. task[t] \in Task /\ TaskOK(task[t], series) BY <1>1, <1>2 DEF TypeOK, StorageInv
  <1>5. r \in Task BY <1>4 DEF Task, PCs
  <1>6. TaskOK(r, series) BY <1>3, <1>4 DEF TaskOK, Task, Pending, WritingPCs, EvictingPCs
  <1>7. status = RunsWhile(t) BY <1>2, <1>3, RunningStatus
  <1> HIDE DEF r
  <1>8. task' \in [Actors -> Task] /\ StatusOK' /\ \A b \in Actors : TaskOK(task'[b], series')
    BY <1>2, <1>3, <1>5, <1>6, <1>7, ThreadStep DEF memory
  <1>9. TypeOK' /\ SeriesOK' /\ BoundedIds'
    BY <1>1, <1>3, <1>8 DEF TypeOK, SeriesOK, BoundedIds, memory, history, bounds
  <1> QED BY <1>8, <1>9 DEF StorageInv

\* write_segment_file creates the temporary file.
LEMMA CreateTmpInv ==
    ASSUME StorageInv, NEW t \in Tasks, NEW s \in Series, CreateTmp(t, s)
    PROVE  StorageInv'
  <1> DEFINE r == [task[t] EXCEPT !.pc = "rename"]
  <1>1. TypeOK /\ SeriesOK /\ BoundedIds BY DEF StorageInv
  <1>2. t \in Actors BY DEF Actors
  <1>3. /\ task' = [task EXCEPT ![t] = r]
        /\ tmps' = tmps \union {<<s, task[t].pending[s].segment_id>>}
        /\ task[t].pc = "create" /\ task[t].current = s
        /\ UNCHANGED <<status, memory, files, dirs, saved, history, bounds>>
    BY DEF CreateTmp, Working, GoTo
  <1>4. task[t] \in Task /\ TaskOK(task[t], series) BY <1>1, <1>2 DEF TypeOK, StorageInv
  <1>5. r \in Task /\ task[t].pending[s].segment_id \in Nat BY <1>4 DEF Task, PCs, PendingFlush
  <1>6. TaskOK(r, series) BY <1>3, <1>4 DEF TaskOK, Task, Pending, WritingPCs, EvictingPCs
  <1>7. status = RunsWhile(t) BY <1>2, <1>3, RunningStatus
  <1> HIDE DEF r
  <1>8. task' \in [Actors -> Task] /\ StatusOK' /\ \A b \in Actors : TaskOK(task'[b], series')
    BY <1>2, <1>3, <1>5, <1>6, <1>7, ThreadStep DEF memory
  <1>9. tmps' \subseteq Series \X Nat BY <1>1, <1>3, <1>5 DEF TypeOK
  <1>10. TypeOK' /\ SeriesOK' /\ BoundedIds'
    BY <1>1, <1>3, <1>8, <1>9 DEF TypeOK, SeriesOK, BoundedIds, memory, history, bounds
  <1> QED BY <1>8, <1>10 DEF StorageInv

\* A thread that becomes idle.
LEMMA BecomesIdle ==
    ASSUME StorageInv, NEW a \in Actors, task' = [task EXCEPT ![a] = IdleTask],
           series' = series, status' = status
    PROVE  /\ task' \in [Actors -> Task]
           /\ StatusOK'
           /\ \A b \in Actors : TaskOK(task'[b], series')
  BY IdleTaskType, IdleTaskOK, ThreadStep

\* What an aborted flush drops has its type.
LEMMA AbortType ==
    ASSUME StorageInv, NEW t \in Tasks, NEW done, Abort(t, done)
    PROVE  failed' \in [Series -> SUBSET BufferedSample]
  <1>1. TypeOK BY DEF StorageInv
  <1>2. task[t] \in Task BY <1>1 DEF TypeOK, Actors
  <1>3. \A s \in Series : task[t].pending[s].samples \in SUBSET BufferedSample
    BY <1>2 DEF Task, PendingFlush
  <1> QED BY <1>1, <1>3 DEF Abort, TypeOK

\* write_segment_file fails before its rename.
LEMMA WriteErrorInv ==
    ASSUME StorageInv, NEW t \in Tasks, NEW s \in Series,
           CreateTmpNoDir(t, s) \/ WriteFails(t, s)
    PROVE  StorageInv'
  <1>1. TypeOK /\ SeriesOK /\ BoundedIds BY DEF StorageInv
  <1>2. t \in Actors BY DEF Actors
  <1>3. Abort(t, {}) /\ UNCHANGED <<status, memory, disk, accepted, evicted, restarted, clock, crashes>>
    BY DEF CreateTmpNoDir, WriteFails, bounds
  <1>4. faults' \in Nat BY <1>1 DEF CreateTmpNoDir, WriteFails, Outcome, TypeOK, bounds
  <1>5. task' \in [Actors -> Task] /\ StatusOK' /\ \A b \in Actors : TaskOK(task'[b], series')
    BY <1>2, <1>3, BecomesIdle DEF Abort, memory
  <1>6. failed' \in [Series -> SUBSET BufferedSample] BY <1>3, AbortType
  <1>7. TypeOK' /\ SeriesOK' /\ BoundedIds'
    BY <1>1, <1>3, <1>4, <1>5, <1>6 DEF TypeOK, SeriesOK, BoundedIds, memory, disk
  <1> QED BY <1>5, <1>7 DEF StorageInv

\* The thread in rename works on a series of its flush whose file it has not
\* written, and which the manifest knows.
LEMMA RenameFacts ==
    ASSUME StorageInv, NEW t \in Tasks, NEW s \in Series, Working(t, "rename", s)
    PROVE  /\ task[t] \in Task /\ TaskOK(task[t], series)
           /\ s \in task[t].todo /\ s \in Pending(task[t]) /\ s \in series
           /\ manifest[s] \in SeriesEntry
           /\ task[t].pending[s] \in PendingFlush /\ task[t].pending[s].samples # {}
  <1>1. TypeOK /\ SeriesOK /\ t \in Actors BY DEF StorageInv, Actors
  <1>2. task[t] \in Task /\ TaskOK(task[t], series) BY <1>1 DEF TypeOK, StorageInv
  <1>3. s \in task[t].todo /\ s \in Pending(task[t]) /\ s \in series
    BY <1>2 DEF TaskOK, Working, WritingPCs
  <1>4. task[t].pending[s] \in PendingFlush BY <1>2 DEF Task
  <1> QED BY <1>1, <1>2, <1>3, <1>4 DEF Pending, TypeOK, Manifest, SeriesOK

\* write_segment_file publishes the segment, which marks it as written.
LEMMA RenameInv ==
    ASSUME StorageInv, NEW t \in Tasks, NEW s \in Series, NEW size \in SegmentSizes,
           NEW ok \in BOOLEAN, Rename(t, s, size, ok)
    PROVE  StorageInv'
  <1> DEFINE flush == task[t].pending[s]
             file == [data_id |-> s, segment_id |-> flush.segment_id,
                      series_type |-> manifest[s].series_type,
                      samples |-> flush.samples, size_bytes |-> size]
             r == [task[t] EXCEPT !.pending[s].size_bytes = size, !.pc = "mkdir"]
             v == Visited(r, s, "commit", Pending(r))
  <1>1. TypeOK /\ SeriesOK /\ BoundedIds BY DEF StorageInv
  <1>2. t \in Actors BY DEF Actors
  <1>3. /\ Working(t, "rename", s)
        /\ files' = (files \ FileAt(s, flush.segment_id)) \union {file}
        /\ tmps' = tmps \ {<<s, flush.segment_id>>}
        /\ ok => task' = [task EXCEPT ![t] = v] /\ UNCHANGED failed
        /\ ~ok => Abort(t, {s})
        /\ UNCHANGED <<status, memory, dirs, saved, accepted, evicted, restarted, clock, crashes>>
    BY DEF Rename
  <1>4. /\ task[t] \in Task /\ TaskOK(task[t], series)
        /\ s \in task[t].todo /\ s \in Pending(task[t]) /\ s \in series
        /\ manifest[s] \in SeriesEntry /\ flush \in PendingFlush /\ flush.samples # {}
    BY <1>3, RenameFacts
  <1>5. size \in 1 .. MaxU64 /\ size \in 0 .. MaxU64 /\ size # 0 BY StorageAssumption
  <1>6. file \in SegmentFile BY <1>4, <1>5 DEF SegmentFile, SeriesEntry, PendingFlush
  <1>7. files' \subseteq SegmentFile /\ file.segment_id \in Nat
        /\ \A f \in files : f.segment_id \in Nat
    BY <1>1, <1>3, <1>4, <1>6 DEF TypeOK, PendingFlush, SegmentFile
  <1> HIDE DEF file
  <1>8. BoundedIds'
    <2>1. PICK n \in Nat : \A f \in files : f.segment_id <= n BY <1>1 DEF BoundedIds
    <2>2. \A f \in files' : f.segment_id <= n + file.segment_id
      BY <2>1, <1>3, <1>7
    <2> QED BY <2>2, <1>7 DEF BoundedIds
  <1>9. r \in Task /\ r.pc = "mkdir" /\ r.todo = task[t].todo
    BY <1>4, <1>5 DEF Task, PendingFlush, PCs
  <1>10. \A x \in Series : /\ r.pending[x].samples = task[t].pending[x].samples
                           /\ r.pending[x].size_bytes
                                = IF x = s THEN size ELSE task[t].pending[x].size_bytes
    BY <1>4 DEF Task, PendingFlush
  <1>11. Pending(r) = Pending(task[t]) BY <1>10 DEF Pending
  <1>12. \A x \in Pending(r) : x \in r.todo \ {s} <=> ~Written(r.pending[x])
    BY <1>3, <1>4, <1>5, <1>9, <1>10, <1>11 DEF TaskOK, Written, Working, WritingPCs, Pending
  <1>13. r.todo \subseteq Pending(r) /\ Pending(r) \subseteq series
    BY <1>3, <1>4, <1>9, <1>11 DEF TaskOK, Working, WritingPCs
  <1> HIDE DEF r
  <1>14. v \in Task BY <1>9, VisitedType DEF Pending, PCs
  <1>15. TaskOK(v, series)
    <2>1. CASE r.todo # {s}
      <3>1. v = [r EXCEPT !.todo = r.todo \ {s}, !.current = None] BY <2>1 DEF Visited
      <3>2. v.pc = "mkdir" /\ v.todo = r.todo \ {s} /\ v.pending = r.pending
        BY <3>1, <1>9 DEF Task
      <3> HIDE DEF v
      <3>3. Pending(v) = Pending(r) BY <3>2 DEF Pending
      <3> QED BY <3>2, <3>3, <1>12, <1>13 DEF TaskOK, WritingPCs, EvictingPCs
    <2>2. CASE r.todo = {s} /\ Pending(r) = {} BY <2>2, IdleTaskOK DEF Visited
    <2>3. CASE r.todo = {s} /\ Pending(r) # {}
      <3>1. v = [r EXCEPT !.pc = "commit", !.todo = Pending(r), !.current = None]
        BY <2>3 DEF Visited
      <3>2. v.pc = "commit" /\ v.todo = Pending(r) /\ v.pending = r.pending
        BY <3>1, <1>9 DEF Task
      <3> HIDE DEF v
      <3>3. Pending(v) = Pending(r) BY <3>2 DEF Pending
      <3> QED BY <2>3, <3>2, <3>3, <1>12, <1>13 DEF TaskOK, WritingPCs, EvictingPCs
    <2> QED BY <2>1, <2>2, <2>3
  <1>16. status = RunsWhile(t) BY <1>2, <1>3, RunningStatus DEF Working
  <1> HIDE DEF v
  <1>17. task' \in [Actors -> Task] /\ StatusOK' /\ \A b \in Actors : TaskOK(task'[b], series')
    <2>1. CASE ok BY <2>1, <1>2, <1>3, <1>14, <1>15, <1>16, ThreadStep DEF memory
    <2>2. CASE ~ok BY <2>2, <1>2, <1>3, BecomesIdle DEF Abort, memory
    <2> QED BY <2>1, <2>2
  <1>18. failed' \in [Series -> SUBSET BufferedSample]
    <2>1. CASE ok BY <2>1, <1>1, <1>3 DEF TypeOK
    <2>2. CASE ~ok BY <2>2, <1>3, AbortType
    <2> QED BY <2>1, <2>2
  <1>19. faults' \in Nat BY <1>1 DEF Rename, Outcome, TypeOK
  <1>20. tmps' \subseteq Series \X Nat BY <1>1, <1>3 DEF TypeOK
  <1>21. TypeOK' BY <1>1, <1>3, <1>7, <1>17, <1>18, <1>19, <1>20 DEF TypeOK, memory
  <1>22. SeriesOK' BY <1>1, <1>3 DEF SeriesOK, memory
  <1> QED BY <1>8, <1>17, <1>21, <1>22 DEF StorageInv

\* A registered segment has the type of the manifest's segments.
LEMMA RegisteredType ==
    ASSUME NEW entry \in SeriesEntry, NEW flush \in PendingFlush,
           flush.samples # {}, Written(flush)
    PROVE  Registered(entry, flush) \in SeriesEntry
  <1> DEFINE m == [segment_id |-> flush.segment_id,
                   min_ts_ms |-> MinTs(flush.samples), max_ts_ms |-> MaxTs(flush.samples),
                   size_bytes |-> flush.size_bytes]
  <1>1. MinTs(flush.samples) \in Timestamps /\ MaxTs(flush.samples) \in Timestamps
    BY SampleRange DEF PendingFlush
  <1>2. flush.segment_id \in Nat /\ flush.size_bytes \in 0 .. MaxU64 BY DEF PendingFlush
  <1>3. flush.size_bytes \in 1 .. MaxU64 BY <1>2, StorageAssumption DEF Written
  <1>4. m \in SegmentMeta BY <1>1, <1>2, <1>3 DEF SegmentMeta
  <1> HIDE DEF m
  <1>5. entry.segments \union {m} \in SUBSET SegmentMeta BY <1>4 DEF SeriesEntry
  <1>6. SaturatingAdd(entry.storage_bytes, flush.size_bytes) \in 0 .. MaxU64
    BY <1>2, SaturatingType DEF SeriesEntry
  <1>7. Registered(entry, flush) =
          [entry EXCEPT !.segments = entry.segments \union {m},
                        !.storage_bytes = SaturatingAdd(entry.storage_bytes, flush.size_bytes)]
    BY DEF Registered, m
  <1> QED BY <1>5, <1>6, <1>7 DEF SeriesEntry

\* All segments of the flush enter the manifest.
LEMMA CommitInv ==
    ASSUME StorageInv, NEW t \in Tasks, NEW ok \in BOOLEAN, Commit(t, ok)
    PROVE  StorageInv'
  <1> DEFINE P == Pending(task[t])
             r == [task[t] EXCEPT !.pc = "advance"]
  <1>1. TypeOK /\ SeriesOK /\ BoundedIds BY DEF StorageInv
  <1>2. t \in Actors BY DEF Actors
  <1>3. /\ task[t].pc = "commit"
        /\ manifest' = [s \in Series |->
               IF s \in P THEN Registered(manifest[s], task[t].pending[s]) ELSE manifest[s]]
        /\ saved' \in {saved, manifest'}
        /\ ok => task' = [task EXCEPT ![t] = r]
        /\ ~ok => task' = [task EXCEPT ![t] = IdleTask]
        /\ UNCHANGED <<status, series, memtable, flushed_max_ts, files, tmps, dirs, history,
                       clock, crashes>>
    BY DEF Commit, Save, At, GoTo
  <1>4. task[t] \in Task /\ TaskOK(task[t], series) BY <1>1, <1>2 DEF TypeOK, StorageInv
  <1>5. \A s \in P : s \in Series /\ s \in series /\ task[t].pending[s] \in PendingFlush
                     /\ task[t].pending[s].samples # {} /\ Written(task[t].pending[s])
    BY <1>3, <1>4 DEF TaskOK, Pending, Task
  <1>6. \A s \in P : manifest[s] \in SeriesEntry
    BY <1>1, <1>5 DEF SeriesOK, TypeOK, Manifest
  <1>7. \A s \in P : Registered(manifest[s], task[t].pending[s]) \in SeriesEntry
    BY <1>5, <1>6, RegisteredType
  <1>8. manifest' \in Manifest /\ saved' \in Manifest
    BY <1>1, <1>3, <1>7 DEF TypeOK, Manifest
  <1>9. r \in Task BY <1>4 DEF Task, PCs
  <1>10. TaskOK(r, series) BY <1>3, <1>4 DEF TaskOK, Task, Pending, WritingPCs, EvictingPCs
  <1>11. status = RunsWhile(t) BY <1>2, <1>3, RunningStatus
  <1> HIDE DEF r
  <1>12. task' \in [Actors -> Task] /\ StatusOK' /\ \A b \in Actors : TaskOK(task'[b], series')
    <2>1. CASE ok BY <2>1, <1>2, <1>3, <1>9, <1>10, <1>11, ThreadStep
    <2>2. CASE ~ok BY <2>2, <1>2, <1>3, BecomesIdle
    <2> QED BY <2>1, <2>2
  <1>13. faults' \in Nat BY <1>1 DEF Commit, Outcome, TypeOK
  <1>14. TypeOK' BY <1>1, <1>3, <1>8, <1>12, <1>13 DEF TypeOK, history
  <1>15. SeriesOK' BY <1>1, <1>3, <1>7, NoneAssumption DEF SeriesOK, TypeOK
  <1>16. BoundedIds' BY <1>1, <1>3 DEF BoundedIds
  <1> QED BY <1>12, <1>14, <1>15, <1>16 DEF StorageInv

\* flushed_max_ts is raised.
LEMMA AdvanceInv ==
    ASSUME StorageInv, NEW t \in Tasks, NEW s \in Series, Advance(t, s)
    PROVE  StorageInv'
  <1> DEFINE r == task[t]
             v == Visited(r, s, "evict", Pending(r))
             ts == MaxTs(r.pending[s].samples)
  <1>1. TypeOK /\ SeriesOK /\ BoundedIds BY DEF StorageInv
  <1>2. t \in Actors BY DEF Actors
  <1>3. /\ r.pc = "advance" /\ s \in r.todo
        /\ flushed_max_ts' = [flushed_max_ts EXCEPT ![s] = Raised(@, ts)]
        /\ task' = [task EXCEPT ![t] = v]
        /\ UNCHANGED <<status, manifest, series, memtable, disk, history, bounds>>
    BY DEF Advance, At
  <1>4. r \in Task /\ TaskOK(r, series) BY <1>1, <1>2 DEF TypeOK, StorageInv
  <1>5. Pending(r) \subseteq series /\ r.todo \subseteq Pending(r)
        /\ \A x \in Pending(r) : Written(r.pending[x])
    BY <1>3, <1>4 DEF TaskOK
  <1>6. r.pending[s].samples \in SUBSET BufferedSample /\ r.pending[s].samples # {}
    BY <1>3, <1>4, <1>5 DEF Task, PendingFlush, Pending
  <1>7. ts \in Timestamps BY <1>6, SampleRange
  <1> HIDE DEF ts
  <1>8. flushed_max_ts' \in [Series -> Timestamps \union {None}]
    BY <1>1, <1>3, <1>7 DEF TypeOK, Raised
  <1>9. v \in Task BY <1>4, VisitedType DEF Pending, PCs
  <1>10. status = RunsWhile(t) BY <1>2, <1>3, RunningStatus
  <1> HIDE DEF r
  <1>11. TaskOK(v, series)
    <2>1. CASE r.todo # {s}
      <3>1. v = [r EXCEPT !.todo = r.todo \ {s}, !.current = None] BY <2>1 DEF Visited
      <3>2. v.pc = "advance" /\ v.todo = r.todo \ {s} /\ v.pending = r.pending
        BY <3>1, <1>3, <1>4 DEF Task
      <3> HIDE DEF v
      <3>3. Pending(v) = Pending(r) BY <3>2 DEF Pending
      <3> QED BY <3>2, <3>3, <1>5 DEF TaskOK, WritingPCs, EvictingPCs
    <2>2. CASE r.todo = {s} /\ Pending(r) = {} BY <2>2, IdleTaskOK DEF Visited
    <2>3. CASE r.todo = {s} /\ Pending(r) # {}
      <3>1. v = [r EXCEPT !.pc = "evict", !.todo = Pending(r), !.current = None]
        BY <2>3 DEF Visited
      <3>2. v.pc = "evict" /\ v.todo = Pending(r) /\ v.pending = r.pending
        BY <3>1, <1>4 DEF Task
      <3> HIDE DEF v
      <3>3. Pending(v) = Pending(r) BY <3>2 DEF Pending
      <3> QED BY <3>2, <3>3, <1>5 DEF TaskOK, WritingPCs, EvictingPCs
    <2> QED BY <2>1, <2>2, <2>3
  <1> HIDE DEF v
  <1>12. task' \in [Actors -> Task] /\ StatusOK' /\ \A b \in Actors : TaskOK(task'[b], series')
    BY <1>2, <1>3, <1>9, <1>10, <1>11, ThreadStep
  <1>13. TypeOK' BY <1>1, <1>3, <1>8, <1>12 DEF TypeOK, disk, history, bounds
  <1>14. SeriesOK' /\ BoundedIds' BY <1>1, <1>3 DEF SeriesOK, BoundedIds, disk
  <1> QED BY <1>12, <1>13, <1>14 DEF StorageInv

-----------------------------------------------------------------------------
(* Evictions.                                                              *)

\* min_by_key finds a segment whenever there is one.
LEMMA OldestExists ==
    ASSUME NEW S \in SUBSET SegmentMeta, S # {}
    PROVE  /\ Oldest(S) \in S
           /\ \A n \in S : Oldest(S).max_ts_ms <= n.max_ts_ms
  <1> DEFINE T == {m.max_ts_ms : m \in S}
             lo == Min(T)
             F == {m \in S : m.max_ts_ms = lo}
             I == {m.segment_id : m \in F}
             first == CHOOSE i \in I : \A j \in I : i <= j
  <1>1. \A m \in S : m.max_ts_ms \in Timestamps /\ m.max_ts_ms \in Int /\ m.segment_id \in Nat
    BY StorageAssumption DEF SegmentMeta, Timestamps
  <1>2. lo \in T /\ \A x \in T : lo <= x
    <2>1. T \in SUBSET Timestamps /\ T # {} BY <1>1
    <2> HIDE DEF T
    <2> QED BY <2>1, TimestampRange
  <1>3. \A m \in S : lo <= m.max_ts_ms BY <1>2
  <1>4. \E m \in S : m.max_ts_ms = lo BY <1>2
  <1> HIDE DEF lo, T
  <1>5. I \in SUBSET Nat /\ I # {} BY <1>1, <1>4
  <1>6. \E i \in I : \A j \in I : i <= j
    <2> HIDE DEF I
    <2> QED BY <1>5, NatMin
  <1>7. PICK i \in I : \A j \in I : i <= j BY <1>6
  <1>8. PICK m \in F : m.segment_id = i BY <1>7
  <1>9. \A n \in F : i <= n.segment_id BY <1>7
  <1>10. ASSUME NEW n \in S
         PROVE  \/ m.max_ts_ms < n.max_ts_ms
                \/ m.max_ts_ms = n.max_ts_ms /\ m.segment_id <= n.segment_id
    <2>1. m.max_ts_ms = lo /\ lo \in Int /\ n.max_ts_ms \in Int /\ lo <= n.max_ts_ms
      BY <1>1, <1>3, <1>4, <1>8
    <2>2. CASE n.max_ts_ms = lo BY <2>1, <2>2, <1>8, <1>9
    <2>3. CASE n.max_ts_ms # lo BY <2>1, <2>3
    <2> QED BY <2>2, <2>3
  <1>11. m \in S BY <1>8
  <1>12. \E x \in S : \A n \in S :
            \/ x.max_ts_ms < n.max_ts_ms
            \/ x.max_ts_ms = n.max_ts_ms /\ x.segment_id <= n.segment_id
    BY <1>10, <1>11
  <1>13. /\ Oldest(S) \in S
         /\ \A n \in S :
              \/ Oldest(S).max_ts_ms < n.max_ts_ms
              \/ Oldest(S).max_ts_ms = n.max_ts_ms /\ Oldest(S).segment_id <= n.segment_id
    BY <1>12 DEF Oldest
  <1> QED BY <1>1, <1>13

\* evict_if_needed chooses its victim.
LEMMA EvictChooseInv ==
    ASSUME StorageInv, NEW a \in Actors, NEW s \in Series, EvictChoose(a, s)
    PROVE  StorageInv'
  <1> DEFINE m == Oldest(manifest[s].segments)
             victim == [segment_id |-> m.segment_id, size_bytes |-> m.size_bytes]
             r == [task[a] EXCEPT !.pc = "remove", !.current = s, !.victim = victim]
  <1>1. TypeOK /\ SeriesOK /\ BoundedIds BY DEF StorageInv
  <1>2. /\ task' = [task EXCEPT ![a] = r]
        /\ task[a].pc = "evict" /\ s \in task[a].todo /\ manifest[s].segments # {}
        /\ UNCHANGED <<status, memory, disk, history, bounds>>
    BY DEF EvictChoose, At
  <1>3. task[a] \in Task /\ TaskOK(task[a], series) BY <1>1 DEF TypeOK, StorageInv
  <1>4. s \in series /\ manifest[s] \in SeriesEntry
    BY <1>1, <1>2, <1>3 DEF TaskOK, TypeOK, Manifest, SeriesOK
  <1>5. m \in SegmentMeta BY <1>2, <1>4, OldestExists DEF SeriesEntry
  <1> HIDE DEF m
  <1>6. victim \in Victim BY <1>5, StorageAssumption DEF SegmentMeta, Victim
  <1> HIDE DEF victim
  <1>7. r \in Task BY <1>3, <1>6 DEF Task, PCs
  <1>8. TaskOK(r, series) BY <1>2, <1>3, <1>4 DEF TaskOK, Task, Pending, WritingPCs, EvictingPCs
  <1>9. status = RunsWhile(a) BY <1>2, RunningStatus
  <1> HIDE DEF r
  <1>10. task' \in [Actors -> Task] /\ StatusOK' /\ \A b \in Actors : TaskOK(task'[b], series')
    BY <1>2, <1>7, <1>8, <1>9, ThreadStep DEF memory
  <1>11. TypeOK' /\ SeriesOK' /\ BoundedIds'
    BY <1>1, <1>2, <1>10 DEF TypeOK, SeriesOK, BoundedIds, memory, disk, history, bounds
  <1> QED BY <1>10, <1>11 DEF StorageInv

\* A thread that goes from one place of an eviction to the next.
LEMMA EvictGoTo ==
    ASSUME StorageInv, NEW a \in Actors, NEW pc \in EvictingPCs,
           task[a].pc \in EvictingPCs, GoTo(a, pc), series' = series, status' = status
    PROVE  /\ task' \in [Actors -> Task]
           /\ StatusOK'
           /\ \A b \in Actors : TaskOK(task'[b], series')
  <1> DEFINE r == [task[a] EXCEPT !.pc = pc]
  <1>1. task[a] \in Task /\ TaskOK(task[a], series) BY DEF TypeOK, StorageInv
  <1>2. r \in Task BY <1>1 DEF Task, PCs, EvictingPCs
  <1>3. TaskOK(r, series) BY <1>1, <1>2 DEF TaskOK, Task, Pending, WritingPCs, EvictingPCs
  <1>4. status = RunsWhile(a) BY RunningStatus DEF EvictingPCs
  <1>5. task' = [task EXCEPT ![a] = r] BY DEF GoTo
  <1> HIDE DEF r
  <1> QED BY <1>2, <1>3, <1>4, <1>5, ThreadStep

\* A thread that returns.
LEMMA ReturnOK ==
    ASSUME StorageInv, NEW a \in Actors, task[a].pc # "idle", Return(a), series' = series
    PROVE  /\ task' \in [Actors -> Task]
           /\ status' \in {"down", "opening", "serving"}
           /\ StatusOK'
           /\ \A b \in Actors : TaskOK(task'[b], series')
  <1>1. TypeOK /\ StatusOK /\ \A b \in Actors : TaskOK(task[b], series) BY DEF StorageInv
  <1>2. task \in [Actors -> Task] BY <1>1 DEF TypeOK
  <1>3. task' = [task EXCEPT ![a] = IdleTask] /\ status' = IF a = Opener THEN "serving" ELSE status
    BY DEF Return
  <1>4. task'[a] = IdleTask /\ \A b \in Actors \ {a} : task'[b] = task[b] BY <1>2, <1>3
  <1>5. task' \in [Actors -> Task] BY <1>2, <1>3, IdleTaskType
  <1>6. \A b \in Actors : TaskOK(task'[b], series') BY <1>1, <1>4, IdleTaskOK
  <1>7. status = RunsWhile(a) BY RunningStatus
  <1>8. StatusOK'
    <2> SUFFICES ASSUME NEW b \in Actors, task'[b].pc # "idle"
                 PROVE  status' = RunsWhile(b)
      BY DEF StatusOK, At
    <2>1. b # a /\ task[b].pc # "idle" BY <1>4, IdleTaskType
    <2>2. status = RunsWhile(b) BY <2>1, RunningStatus
    <2>3. a # Opener BY <2>1, <2>2, <1>7 DEF RunsWhile
    <2> QED BY <2>2, <2>3, <1>3
  <1> QED BY <1>1, <1>3, <1>5, <1>6, <1>8 DEF TypeOK

\* evict_if_needed finds a series within its limit.
LEMMA EvictDoneInv ==
    ASSUME StorageInv, NEW a \in Actors, NEW s \in Series, EvictDone(a, s)
    PROVE  StorageInv'
  <1> DEFINE r == [task[a] EXCEPT !.todo = task[a].todo \ {s}]
  <1>1. TypeOK /\ SeriesOK /\ BoundedIds BY DEF StorageInv
  <1>2. /\ task[a].pc = "evict"
        /\ UNCHANGED <<memory, disk, history, bounds>>
        /\ \/ Return(a)
           \/ task' = [task EXCEPT ![a] = r] /\ UNCHANGED status
    BY DEF EvictDone, At
  <1>3. task[a] \in Task /\ TaskOK(task[a], series) BY <1>1 DEF TypeOK, StorageInv
  <1>4. r \in Task BY <1>3 DEF Task
  <1>5. TaskOK(r, series) BY <1>2, <1>3 DEF TaskOK, Task, Pending, WritingPCs, EvictingPCs
  <1>6. status = RunsWhile(a) BY <1>2, RunningStatus
  <1> HIDE DEF r
  <1>7. /\ task' \in [Actors -> Task] /\ StatusOK' /\ \A b \in Actors : TaskOK(task'[b], series')
        /\ status' \in {"down", "opening", "serving"}
    <2>1. CASE Return(a) BY <2>1, <1>2, ReturnOK DEF memory
    <2>2. CASE task' = [task EXCEPT ![a] = r] /\ UNCHANGED status
      BY <2>2, <1>1, <1>2, <1>4, <1>5, <1>6, ThreadStep DEF memory, TypeOK
    <2> QED BY <1>2, <2>1, <2>2
  <1>8. TypeOK' /\ SeriesOK' /\ BoundedIds'
    BY <1>1, <1>2, <1>7 DEF TypeOK, SeriesOK, BoundedIds, memory, disk, history, bounds
  <1> QED BY <1>7, <1>8 DEF StorageInv

\* evict_if_needed deletes the file of its victim.
LEMMA EvictRemoveInv ==
    ASSUME StorageInv, NEW a \in Actors, NEW s \in Series, EvictRemove(a, s)
    PROVE  StorageInv'
  <1> DEFINE victim == FileAt(s, task[a].victim.segment_id)
             gone == UNION {f.samples : f \in victim}
  <1>1. TypeOK /\ SeriesOK /\ BoundedIds BY DEF StorageInv
  <1>2. /\ task[a].pc = "remove" /\ GoTo(a, "dircheck")
        /\ files' = files \ victim
        /\ evicted' = [evicted EXCEPT ![s] = @ \union gone]
        /\ UNCHANGED <<status, memory, tmps, dirs, saved, accepted, restarted, failed, bounds>>
    BY DEF EvictRemove, Working
  <1>3. task' \in [Actors -> Task] /\ StatusOK' /\ \A b \in Actors : TaskOK(task'[b], series')
    BY <1>2, EvictGoTo DEF EvictingPCs, memory
  <1>4. gone \in SUBSET BufferedSample BY <1>1 DEF FileAt, TypeOK, SegmentFile
  <1> HIDE DEF gone
  <1>5. evicted' \in [Series -> SUBSET BufferedSample] BY <1>1, <1>2, <1>4 DEF TypeOK
  <1>6. TypeOK' BY <1>1, <1>2, <1>3, <1>5 DEF TypeOK, memory, bounds
  <1>7. SeriesOK' /\ BoundedIds' BY <1>1, <1>2 DEF SeriesOK, BoundedIds, memory
  <1> QED BY <1>3, <1>6, <1>7 DEF StorageInv

\* evict_if_needed fails and its RPC returns.
LEMMA EvictErrorInv ==
    ASSUME StorageInv, NEW t \in Tasks, NEW s \in Series,
           EvictRemoveFails(t, s) \/ DirCheckFails(t, s)
    PROVE  StorageInv'
  <1>1. TypeOK /\ SeriesOK /\ BoundedIds BY DEF StorageInv
  <1>2. t \in Actors /\ task[t].pc # "idle"
    BY DEF Actors, EvictRemoveFails, DirCheckFails, Working
  <1>3. Return(t) /\ UNCHANGED <<memory, disk, history, clock, crashes>>
    BY DEF EvictRemoveFails, DirCheckFails, bounds
  <1>4. faults' \in Nat BY <1>1 DEF EvictRemoveFails, DirCheckFails, Outcome, TypeOK, bounds
  <1>5. /\ task' \in [Actors -> Task] /\ StatusOK' /\ \A b \in Actors : TaskOK(task'[b], series')
        /\ status' \in {"down", "opening", "serving"}
    BY <1>2, <1>3, ReturnOK DEF memory
  <1>6. TypeOK' /\ SeriesOK' /\ BoundedIds'
    BY <1>1, <1>3, <1>4, <1>5 DEF TypeOK, SeriesOK, BoundedIds, memory, disk, history
  <1> QED BY <1>5, <1>6 DEF StorageInv

\* evict_if_needed looks at the directory, and removes it.
LEMMA DirStepInv ==
    ASSUME StorageInv, NEW a \in Actors, NEW s \in Series, DirCheck(a, s) \/ Rmdir(a, s)
    PROVE  StorageInv'
  <1>1. TypeOK /\ SeriesOK /\ BoundedIds BY DEF StorageInv
  <1>2. /\ task[a].pc \in EvictingPCs
        /\ \E pc \in EvictingPCs : GoTo(a, pc)
        /\ dirs' \subseteq dirs
        /\ UNCHANGED <<status, memory, files, tmps, saved, history, bounds>>
    BY DEF DirCheck, Rmdir, Working, EvictingPCs, disk
  <1>3. task' \in [Actors -> Task] /\ StatusOK' /\ \A b \in Actors : TaskOK(task'[b], series')
    BY <1>2, EvictGoTo DEF memory
  <1>4. TypeOK' /\ SeriesOK' /\ BoundedIds'
    BY <1>1, <1>2, <1>3 DEF TypeOK, SeriesOK, BoundedIds, memory, history, bounds
  <1> QED BY <1>3, <1>4 DEF StorageInv

\* A manifest entry without the victim has its type.
LEMMA DroppedType ==
    ASSUME NEW entry \in SeriesEntry, NEW victim \in Victim
    PROVE  Dropped(entry, victim) \in SeriesEntry
  <1>1. SaturatingSub(entry.storage_bytes, victim.size_bytes) \in 0 .. MaxU64
    BY SaturatingType DEF SeriesEntry, Victim
  <1>2. {m \in entry.segments : m.segment_id # victim.segment_id} \in SUBSET SegmentMeta
    BY DEF SeriesEntry
  <1> QED BY <1>1, <1>2, Zenon DEF Dropped, SeriesEntry

\* evict_if_needed takes its victim out of the manifest.
LEMMA EvictUpdateInv ==
    ASSUME StorageInv, NEW a \in Actors, NEW s \in Series, NEW ok \in BOOLEAN,
           EvictUpdate(a, s, ok)
    PROVE  StorageInv'
  <1> DEFINE entry == Dropped(manifest[s], task[a].victim)
             r == [task[a] EXCEPT !.pc = "evict", !.current = None, !.victim = NoVictim]
  <1>1. TypeOK /\ SeriesOK /\ BoundedIds BY DEF StorageInv
  <1>2. /\ task[a].pc = "update" /\ task[a].current = s
        /\ manifest' = [manifest EXCEPT ![s] = entry]
        /\ saved' \in {saved, manifest'}
        /\ ok => task' = [task EXCEPT ![a] = r] /\ UNCHANGED status
        /\ ~ok => Return(a)
        /\ UNCHANGED <<series, memtable, flushed_max_ts, files, tmps, dirs, history, clock, crashes>>
    BY DEF EvictUpdate, Save, Working
  <1>3. task[a] \in Task /\ TaskOK(task[a], series) BY <1>1 DEF TypeOK, StorageInv
  <1>4. s \in series /\ manifest[s] \in SeriesEntry /\ task[a].victim \in Victim
    BY <1>1, <1>2, <1>3 DEF TaskOK, TypeOK, Manifest, SeriesOK, Task, EvictingPCs
  <1>5. entry \in SeriesEntry BY <1>4, DroppedType
  <1> HIDE DEF entry
  <1>6. manifest' \in Manifest /\ saved' \in Manifest BY <1>1, <1>2, <1>5 DEF TypeOK, Manifest
  <1>7. r \in Task BY <1>3, IdleTaskType DEF Task, PCs, IdleTask
  <1>8. TaskOK(r, series) BY <1>2, <1>3 DEF TaskOK, Task, Pending, WritingPCs, EvictingPCs
  <1>9. status = RunsWhile(a) BY <1>2, RunningStatus
  <1> HIDE DEF r
  <1>10. /\ task' \in [Actors -> Task] /\ StatusOK' /\ \A b \in Actors : TaskOK(task'[b], series')
         /\ status' \in {"down", "opening", "serving"}
    <2>1. CASE ok BY <2>1, <1>1, <1>2, <1>7, <1>8, <1>9, ThreadStep DEF TypeOK
    <2>2. CASE ~ok BY <2>2, <1>2, ReturnOK
    <2> QED BY <2>1, <2>2
  <1>11. faults' \in Nat BY <1>1 DEF EvictUpdate, Outcome, TypeOK
  <1>12. TypeOK' BY <1>1, <1>2, <1>6, <1>10, <1>11 DEF TypeOK, history
  <1>13. SeriesOK' BY <1>1, <1>2, <1>5, NoneAssumption DEF SeriesOK, TypeOK, Manifest
  <1>14. BoundedIds' BY <1>1, <1>2 DEF BoundedIds
  <1> QED BY <1>10, <1>12, <1>13, <1>14 DEF StorageInv

-----------------------------------------------------------------------------
(* Crashes and recovery.                                                   *)

\* A crash leaves no thread under way.
LEMMA CrashInv == ASSUME StorageInv, Crash PROVE StorageInv'
  <1>1. TypeOK /\ BoundedIds BY DEF StorageInv
  <1>2. \A s \in Series : Volatile(s) \in SUBSET BufferedSample
    <2> SUFFICES ASSUME NEW s \in Series PROVE Volatile(s) \in SUBSET BufferedSample OBVIOUS
    <2>1. memtable[s] \in SUBSET BufferedSample BY <1>1 DEF TypeOK
    <2>2. \A a \in Actors : task[a].pending[s].samples \in SUBSET BufferedSample
      BY <1>1 DEF TypeOK, Task, PendingFlush
    <2> QED BY <2>1, <2>2 DEF Volatile
  <1>3. restarted' \in [Series -> SUBSET BufferedSample] BY <1>1, <1>2 DEF Crash, TypeOK
  <1>4. manifest' \in Manifest /\ memtable' \in [Series -> SUBSET BufferedSample]
        /\ flushed_max_ts' \in [Series -> Timestamps \union {None}] /\ crashes' \in Nat
    BY <1>1 DEF Crash, Manifest, TypeOK
  <1>5. task' \in [Actors -> Task] /\ \A a \in Actors : task'[a] = IdleTask
    BY IdleTaskType DEF Crash
  <1>6. TypeOK' BY <1>1, <1>3, <1>4, <1>5 DEF Crash, TypeOK, disk
  <1>7. StatusOK' BY <1>5, IdleTaskType DEF StatusOK, At
  <1>8. SeriesOK' /\ BoundedIds' BY <1>1 DEF Crash, SeriesOK, BoundedIds, disk
  <1>9. \A a \in Actors : TaskOK(task'[a], series') BY <1>5, IdleTaskOK
  <1> QED BY <1>6, <1>7, <1>8, <1>9 DEF StorageInv

\* The loss of manifest.json touches nothing in memory.
LEMMA LoseManifestInv == ASSUME StorageInv, LoseManifest PROVE StorageInv'
  <1>1. TypeOK /\ StatusOK /\ SeriesOK /\ BoundedIds BY DEF StorageInv
  <1>2. saved' \in Manifest /\ faults' \in Nat
    BY <1>1 DEF LoseManifest, Outcome, Manifest, TypeOK
  <1>3. TypeOK' BY <1>1, <1>2 DEF LoseManifest, TypeOK, memory, history
  <1>4. StatusOK' /\ SeriesOK' /\ BoundedIds'
    BY <1>1 DEF LoseManifest, StatusOK, At, SeriesOK, BoundedIds, memory
  <1>5. \A a \in Actors : TaskOK(task[a], series)' BY DEF LoseManifest, memory, StorageInv
  <1> QED BY <1>3, <1>4, <1>5 DEF StorageInv

\* A file that recovery cannot read is gone before there is anything in memory.
LEMMA HeaderUnreadableInv ==
    ASSUME StorageInv, NEW f \in files, HeaderUnreadable(f)
    PROVE  StorageInv'
  <1>1. TypeOK /\ StatusOK /\ SeriesOK /\ BoundedIds BY DEF StorageInv
  <1>2. files' \subseteq files /\ files \subseteq SegmentFile /\ f \in SegmentFile
        /\ UNCHANGED <<status, memory, task>>
    BY <1>1 DEF HeaderUnreadable, TypeOK
  <1>3. failed' \in [Series -> SUBSET BufferedSample] /\ faults' \in Nat
    <2>1. f.data_id \in Series /\ f.samples \subseteq BufferedSample BY <1>2 DEF SegmentFile
    <2>2. failed \in [Series -> SUBSET BufferedSample] /\ faults \in Nat BY <1>1 DEF TypeOK
    <2> QED BY <2>1, <2>2 DEF HeaderUnreadable, Outcome
  <1>4. TypeOK' BY <1>1, <1>2, <1>3 DEF HeaderUnreadable, TypeOK, memory
  <1>5. StatusOK' /\ SeriesOK' /\ BoundedIds'
    BY <1>1, <1>2 DEF HeaderUnreadable, StatusOK, At, SeriesOK, BoundedIds, memory
  <1>6. \A a \in Actors : TaskOK(task[a], series)' BY <1>2 DEF memory, StorageInv
  <1> QED BY <1>4, <1>5, <1>6 DEF StorageInv

\* What recovery reads from a segment file is a segment of the manifest.
LEMMA MetaOfType ==
    ASSUME NEW f \in SegmentFile
    PROVE  MetaOf(f) \in SegmentMeta /\ MetaOf(f).segment_id = f.segment_id
  <1>1. f.samples \in SUBSET BufferedSample /\ f.samples # {} BY DEF SegmentFile
  <1>2. MinTs(f.samples) \in Timestamps /\ MaxTs(f.samples) \in Timestamps BY <1>1, SampleRange
  <1> QED BY <1>2 DEF MetaOf, SegmentMeta, SegmentFile

\* Every recovered segment has a file, so that there is a largest id, and the
\* next one is greater than all.
LEMMA RecoveredIds ==
    ASSUME StorageInv, NEW s \in Series
    PROVE  /\ RecoveredSegments(s) \in SUBSET SegmentMeta
           /\ NextSegmentId(RecoveredSegments(s)) \in Nat
           /\ \A m \in RecoveredSegments(s) : m.segment_id < NextSegmentId(RecoveredSegments(s))
  <1> DEFINE S == RecoveredSegments(s)
             I == {m.segment_id : m \in S}
  <1>1. TypeOK /\ BoundedIds BY DEF StorageInv
  <1>2. Kept(s) \in SUBSET SegmentMeta
    BY <1>1 DEF Kept, TypeOK, Manifest, SeriesEntry
  <1>3. \A f \in Unknown(s) : f \in files /\ f \in SegmentFile
    BY <1>1 DEF Unknown, FilesOf, TypeOK
  <1>4. S \in SUBSET SegmentMeta BY <1>2, <1>3, MetaOfType DEF RecoveredSegments
  <1>5. \A m \in S : \E f \in files : f.segment_id = m.segment_id
    BY <1>3, MetaOfType DEF RecoveredSegments, Kept, FileAt
  <1>6. PICK n \in Nat : \A f \in files : f.segment_id <= n BY <1>1 DEF BoundedIds
  <1> HIDE DEF S
  <1>7. I \in SUBSET Int /\ I \in SUBSET Nat /\ \A i \in I : i <= n
    BY <1>4, <1>5, <1>6 DEF SegmentMeta
  <1>8. CASE S = {} BY <1>4, <1>8 DEF NextSegmentId, S
  <1>9. CASE S # {}
    <2>1. I # {} BY <1>9
    <2>2. NextSegmentId(S) = Max(I) + 1 BY <1>9 DEF NextSegmentId
    <2>3. \A m \in S : m.segment_id \in I OBVIOUS
    <2> HIDE DEF I
    <2>4. Max(I) \in I /\ \A i \in I : i <= Max(I) BY <1>7, <2>1, MaxBounded
    <2>5. Max(I) \in Nat BY <1>7, <2>4
    <2>6. \A i \in I : i \in Nat /\ i <= Max(I) BY <1>7, <2>4
    <2>7. \A i \in I : i < Max(I) + 1 BY <2>5, <2>6
    <2>8. \A m \in S : m.segment_id < NextSegmentId(S) BY <2>2, <2>3, <2>7
    <2>9. NextSegmentId(S) \in Nat BY <2>2, <2>5
    <2> QED BY <1>4, <2>8, <2>9 DEF S
  <1> QED BY <1>8, <1>9

\* A recovered series has the type of the manifest's entries.
LEMMA RecoveredEntryType ==
    ASSUME StorageInv, NEW s \in Series, IsRecovered(s),
           TotalSize(RecoveredSegments(s)) \in 0 .. MaxU64
    PROVE  RecoveredEntry(s) \in SeriesEntry
  <1>1. TypeOK BY DEF StorageInv
  <1>2. RecoveredType(s) \in SeriesTypes
    <2>1. CASE saved[s] # None BY <1>1, <2>1 DEF RecoveredType, TypeOK, Manifest, SeriesEntry
    <2>2. CASE saved[s] = None
      <3>1. FilesOf(s) # {} BY <2>2 DEF IsRecovered
      <3>2. (CHOOSE f \in FilesOf(s) : TRUE) \in files BY <3>1 DEF FilesOf
      <3> QED BY <1>1, <2>2, <3>2 DEF RecoveredType, TypeOK, SegmentFile
    <2> QED BY <2>1, <2>2
  <1>3. RecoveredLimit(s) \in (Nat \ {0}) \union {None}
    BY <1>1, StorageAssumption DEF RecoveredLimit, TypeOK, Manifest, SeriesEntry
  <1> QED BY <1>2, <1>3, RecoveredIds DEF RecoveredEntry, SeriesEntry

\* The latest timestamp of the segments, if there are any.
LEMMA LatestFlushedType ==
    ASSUME NEW entry \in SeriesEntry \union {None}
    PROVE  LatestFlushed(entry) \in Timestamps \union {None}
  <1>1. CASE entry = None \/ entry.segments = {} BY <1>1 DEF LatestFlushed
  <1>2. CASE entry # None /\ entry.segments # {}
    <2> DEFINE T == {m.max_ts_ms : m \in entry.segments}
    <2>1. T \in SUBSET Timestamps /\ T # {} BY <1>2 DEF SeriesEntry, SegmentMeta
    <2>2. LatestFlushed(entry) = Max(T) BY <1>2 DEF LatestFlushed
    <2> HIDE DEF T
    <2> QED BY <2>1, <2>2, TimestampRange
  <1> QED BY <1>1, <1>2

\* Engine::open establishes the invariant from whatever is on disk.
LEMMA OpenInv == ASSUME StorageInv, Open PROVE StorageInv'
  <1> DEFINE found == {s \in Series : IsRecovered(s)}
             r == [IdleTask EXCEPT !.pc = "evict", !.todo = found]
  <1>1. TypeOK /\ StatusOK /\ BoundedIds BY DEF StorageInv
  <1>2. /\ status = "down"
        /\ manifest' = [s \in Series |-> RecoveredEntry(s)] /\ saved' = manifest'
        /\ \A s \in Series : TotalSize(RecoveredSegments(s)) \in 0 .. MaxU64
        /\ files' \subseteq files /\ tmps' = {} /\ series' = found
        /\ memtable' = [s \in Series |-> {}]
        /\ flushed_max_ts' = [s \in Series |-> LatestFlushed(manifest'[s])]
        /\ \/ found = {} /\ Return(Opener)
           \/ status' = "opening" /\ task' = [task EXCEPT ![Opener] = r]
        /\ UNCHANGED <<dirs, history, bounds>>
    BY DEF Open, Save
  <1>3. \A s \in found : manifest'[s] \in SeriesEntry BY <1>2, RecoveredEntryType
  <1>4. \A s \in Series : manifest'[s] \in SeriesEntry \union {None}
    BY <1>2, <1>3 DEF RecoveredEntry
  <1>5. manifest' \in Manifest BY <1>2, <1>4 DEF Manifest
  <1>6. flushed_max_ts' \in [Series -> Timestamps \union {None}]
    BY <1>2, <1>4, LatestFlushedType
  <1>7. \A a \in Actors : task[a].pc = "idle" BY <1>1, <1>2 DEF StatusOK, At, RunsWhile
  <1>8. r \in Task /\ r.pc = "evict" BY IdleTaskType, Zenon DEF Task, PCs
  <1>9. TaskOK(r, found)
    BY IdleTaskType DEF TaskOK, IdleTask, Pending, WritingPCs, EvictingPCs
  <1>10. \A a \in Actors : TaskOK(task[a], found)
    BY <1>7 DEF StorageInv, TaskOK, WritingPCs, EvictingPCs
  <1>11. task \in [Actors -> Task] /\ Opener \in Actors BY <1>1 DEF TypeOK, Actors
  <1> HIDE DEF r, found
  <1>12. /\ task' \in [Actors -> Task] /\ status' \in {"down", "opening", "serving"} /\ StatusOK'
         /\ \A a \in Actors : TaskOK(task'[a], found)
    <2>1. CASE found = {} /\ Return(Opener)
      <3>1. task' = [task EXCEPT ![Opener] = IdleTask] /\ status' = "serving"
        BY <2>1 DEF Return
      <3>2. \A a \in Actors : task'[a].pc = "idle" BY <3>1, <1>7, <1>11, IdleTaskType
      <3>3. StatusOK' BY <3>2 DEF StatusOK, At
      <3>4. \A a \in Actors : TaskOK(task'[a], found) BY <3>1, <1>10, <1>11, IdleTaskOK
      <3> QED BY <3>1, <3>3, <3>4, <1>11, IdleTaskType
    <2>2. CASE status' = "opening" /\ task' = [task EXCEPT ![Opener] = r]
      <3>1. \A a \in Actors : task'[a] = IF a = Opener THEN r ELSE task[a] BY <2>2, <1>11
      <3>2. StatusOK' BY <3>1, <2>2, <1>7 DEF StatusOK, At, RunsWhile
      <3>3. \A a \in Actors : TaskOK(task'[a], found) BY <3>1, <1>9, <1>10
      <3> QED BY <2>2, <3>2, <3>3, <1>8, <1>11
    <2> QED BY <1>2, <2>1, <2>2
  <1>13. found \subseteq Series BY DEF found
  <1>14. TypeOK' BY <1>1, <1>2, <1>5, <1>6, <1>12, <1>13 DEF TypeOK, history, bounds
  <1>15. SeriesOK' BY <1>2, <1>3, NoneAssumption DEF SeriesOK
  <1>16. BoundedIds' BY <1>1, <1>2 DEF BoundedIds
  <1> QED BY <1>2, <1>12, <1>14, <1>15, <1>16 DEF StorageInv

-----------------------------------------------------------------------------
(* The type invariant.                                                     *)

\* A step that changes nothing keeps the invariant.
LEMMA StutterInv == ASSUME StorageInv, UNCHANGED vars PROVE StorageInv'
  <1>1. UNCHANGED <<status, manifest, series, memtable, flushed_max_ts, files, tmps, dirs, saved,
                    task, clock, faults, crashes, accepted, evicted, restarted, failed>>
    BY DEF vars, memory, disk, history, bounds
  <1> QED BY <1>1 DEF StorageInv, TypeOK, StatusOK, At, SeriesOK, BoundedIds

\* Every step keeps the invariant.
LEMMA NextInv == StorageInv /\ [Next]_vars => StorageInv'
  <1> SUFFICES ASSUME StorageInv, [Next]_vars PROVE StorageInv' OBVIOUS
  <1>1. CASE Client BY <1>1, RegisterInv, BeginAppendInv, BeginFlushInv DEF Client
  <1>2. ASSUME NEW t \in Tasks, Running(t) PROVE StorageInv'
    <2>1. t \in Actors BY DEF Actors
    <2>2. CASE AppendStep(t) BY <2>2, AppendGroupInv DEF AppendStep
    <2>3. CASE FlushStep(t)
      BY <2>3, AllocInv, CommitInv, PrepareInv, MkdirInv, CreateTmpInv, WriteErrorInv, RenameInv,
         AdvanceInv DEF FlushStep
    <2>4. CASE EvictStep(t)
      BY <2>1, <2>4, EvictChooseInv, EvictDoneInv, EvictRemoveInv, DirStepInv, EvictUpdateInv
      DEF EvictStep
    <2>5. CASE EvictError(t) BY <2>5, EvictErrorInv DEF EvictError
    <2> QED BY <1>2, <2>2, <2>3, <2>4, <2>5 DEF Running
  <1>3. CASE EvictStep(Opener)
    <2>1. Opener \in Actors BY DEF Actors
    <2> QED BY <2>1, <1>3, EvictChooseInv, EvictDoneInv, EvictRemoveInv, DirStepInv, EvictUpdateInv
        DEF EvictStep
  <1>4. CASE Open BY <1>4, OpenInv
  <1>5. CASE Crash BY <1>5, CrashInv
  <1>6. CASE LoseManifest BY <1>6, LoseManifestInv
  <1>7. CASE \E f \in files : HeaderUnreadable(f) BY <1>7, HeaderUnreadableInv
  <1>8. CASE UNCHANGED vars BY <1>8, StutterInv
  <1> QED BY <1>1, <1>2, <1>3, <1>4, <1>5, <1>6, <1>7, <1>8 DEF Next

\* The inductive invariant holds in every state, and with it every variable has
\* its type: no flush drains a series the manifest does not know, allots an id
\* to no one, registers a segment that was not written, and no recovery finds
\* ids without bound.
THEOREM StorageInvariant == Spec => []StorageInv
  BY InitInv, NextInv, PTL DEF Spec

\* Every variable has its type in every state.
THEOREM TypeCorrect == Spec => []TypeOK
  <1>1. StorageInv => TypeOK BY DEF StorageInv
  <1> QED BY <1>1, StorageInvariant, PTL

-----------------------------------------------------------------------------
(* Segment files are immutable: however many threads flush, and whatever   *)

\* Thread a has still to write the segment of s, under the id it was given.
Writing(a, s) == task[a].pc \in WritingPCs /\ s \in task[a].todo
NextId(a, s) == task[a].pending[s].segment_id

\* A path names one file; the ids of the files are below the next one that the
\* manifest gives out; so are the ids that threads have yet to use, no file has
\* them, and each belongs to one thread.
UniquePaths ==
    \A f, g \in files : f.data_id = g.data_id /\ f.segment_id = g.segment_id => f = g
FilesBelow ==
    status # "down" => \A f \in files :
        manifest[f.data_id] # None /\ f.segment_id < manifest[f.data_id].next_segment_id
IdsUnused ==
    \A a \in Actors, s \in Series : Writing(a, s) =>
        NextId(a, s) < manifest[s].next_segment_id /\ FileAt(s, NextId(a, s)) = {}
IdsDistinct ==
    \A a, b \in Actors, s \in Series :
        Writing(a, s) /\ Writing(b, s) /\ a # b => NextId(a, s) # NextId(b, s)

IdsInv == UniquePaths /\ FilesBelow /\ IdsUnused /\ IdsDistinct

\* What a step does to the files of segments.
NoOverwrite ==
    \A f \in files : \A g \in files' :
        f.data_id = g.data_id /\ f.segment_id = g.segment_id => f = g

-----------------------------------------------------------------------------
(* Steps that write no segment.                                            *)

\* A thread with a segment to write knows its series, and the id it will use.
LEMMA WritingFacts ==
    ASSUME StorageInv, NEW a \in Actors, NEW s \in Series, Writing(a, s)
    PROVE  /\ s \in series /\ s \in Pending(task[a])
           /\ manifest[s] \in SeriesEntry /\ manifest[s] # None
           /\ NextId(a, s) \in Nat /\ status # "down"
  <1>1. TypeOK /\ SeriesOK /\ TaskOK(task[a], series) /\ task[a] \in Task
    BY DEF StorageInv, TypeOK
  <1>2. s \in Pending(task[a]) /\ s \in series BY <1>1 DEF Writing, TaskOK
  <1>3. manifest[s] \in SeriesEntry /\ manifest[s] # None
    BY <1>1, <1>2 DEF TypeOK, SeriesOK, Manifest
  <1>4. NextId(a, s) \in Nat BY <1>1 DEF NextId, Task, PendingFlush
  <1>5. status # "down" BY RunningStatus DEF Writing, WritingPCs, RunsWhile
  <1> QED BY <1>2, <1>3, <1>4, <1>5

\* No file appears, no series is forgotten, no next id shrinks, and no thread
\* gets a segment to write: such a step keeps the invariant.
LEMMA CalmStep ==
    ASSUME StorageInv, IdsInv, StorageInv',
           files' \subseteq files,
           status' # "down" => status # "down",
           \A s \in Series : manifest[s] # None =>
               /\ manifest'[s] # None
               /\ manifest'[s].next_segment_id >= manifest[s].next_segment_id,
           \A a \in Actors, s \in Series :
               Writing(a, s)' => Writing(a, s) /\ NextId(a, s)' = NextId(a, s)
    PROVE  IdsInv' /\ NoOverwrite
  <1>1. UniquePaths' /\ NoOverwrite BY DEF IdsInv, UniquePaths, NoOverwrite
  <1>2. TypeOK /\ TypeOK' BY DEF StorageInv
  <1>3. \A s \in Series : manifest[s] # None => manifest[s].next_segment_id \in Nat
    BY <1>2 DEF TypeOK, Manifest, SeriesEntry
  <1>4. \A s \in Series : manifest'[s] # None => manifest'[s].next_segment_id \in Nat
    BY <1>2 DEF TypeOK, Manifest, SeriesEntry
  <1>5. \A f \in files : f.data_id \in Series /\ f.segment_id \in Nat
    BY <1>2 DEF TypeOK, SegmentFile
  <1>6. FilesBelow'
    <2> SUFFICES ASSUME status' # "down", NEW f \in files'
                 PROVE  /\ manifest'[f.data_id] # None
                        /\ f.segment_id < manifest'[f.data_id].next_segment_id
      BY DEF FilesBelow
    <2>1. /\ f \in files /\ manifest[f.data_id] # None
          /\ f.segment_id < manifest[f.data_id].next_segment_id
      BY DEF IdsInv, FilesBelow
    <2>2. manifest'[f.data_id] # None
          /\ manifest'[f.data_id].next_segment_id >= manifest[f.data_id].next_segment_id
      BY <2>1, <1>5
    <2> QED BY <2>1, <2>2, <1>3, <1>4, <1>5
  <1>7. IdsUnused'
    <2> SUFFICES ASSUME NEW a \in Actors, NEW s \in Series, Writing(a, s)'
                 PROVE  (NextId(a, s) < manifest[s].next_segment_id)'
                        /\ FileAt(s, NextId(a, s))' = {}
      BY DEF IdsUnused
    <2>1. Writing(a, s) /\ NextId(a, s)' = NextId(a, s) OBVIOUS
    <2>2. manifest[s] # None /\ NextId(a, s) \in Nat BY <2>1, WritingFacts
    <2>3. NextId(a, s) < manifest[s].next_segment_id /\ FileAt(s, NextId(a, s)) = {}
      BY <2>1 DEF IdsInv, IdsUnused
    <2>4. FileAt(s, NextId(a, s))' = {} BY <2>1, <2>3 DEF FileAt
    <2>5. manifest'[s] # None
          /\ manifest'[s].next_segment_id >= manifest[s].next_segment_id BY <2>2
    <2>6. NextId(a, s)' < manifest'[s].next_segment_id
      BY <2>1, <2>2, <2>3, <2>5, <1>3, <1>4
    <2> QED BY <2>4, <2>6
  <1>8. IdsDistinct' BY DEF IdsInv, IdsDistinct
  <1> QED BY <1>1, <1>6, <1>7, <1>8 DEF IdsInv

\* A thread that takes a step gets no segment to write that it did not have.
LEMMA CalmThread ==
    ASSUME StorageInv, NEW a \in Actors, NEW r,
           task' = [task EXCEPT ![a] = r],
           \A s \in Series : r.pc \in WritingPCs /\ s \in r.todo =>
               Writing(a, s) /\ r.pending[s].segment_id = NextId(a, s)
    PROVE  \A b \in Actors, s \in Series :
               Writing(b, s)' => Writing(b, s) /\ NextId(b, s)' = NextId(b, s)
  <1>1. task \in [Actors -> Task] BY DEF StorageInv, TypeOK
  <1>2. task'[a] = r /\ \A b \in Actors \ {a} : task'[b] = task[b] BY <1>1
  <1> QED BY <1>2 DEF Writing, NextId

\* Nor does a thread that becomes idle.
LEMMA CalmIdle ==
    ASSUME StorageInv, NEW a \in Actors, task' = [task EXCEPT ![a] = IdleTask]
    PROVE  \A b \in Actors, s \in Series :
               Writing(b, s)' => Writing(b, s) /\ NextId(b, s)' = NextId(b, s)
  <1>1. IdleTask.pc \notin WritingPCs BY IdleTaskType DEF WritingPCs
  <1> QED BY <1>1, CalmThread

\* A record whose place alone changed, to one where nothing new is to be written.
LEMMA CalmGoTo ==
    ASSUME StorageInv, NEW a \in Actors, NEW pc,
           pc \in WritingPCs => task[a].pc \in WritingPCs,
           task' = [task EXCEPT ![a] = [task[a] EXCEPT !.pc = pc]]
    PROVE  \A b \in Actors, s \in Series :
               Writing(b, s)' => Writing(b, s) /\ NextId(b, s)' = NextId(b, s)
  <1> DEFINE r == [task[a] EXCEPT !.pc = pc]
  <1>1. task[a] \in Task BY DEF StorageInv, TypeOK
  <1>2. r.pc = pc /\ r.todo = task[a].todo /\ r.pending = task[a].pending BY <1>1 DEF Task
  <1> HIDE DEF r
  <1>3. task' = [task EXCEPT ![a] = r] BY DEF r
  <1> QED BY <1>2, <1>3, CalmThread DEF Writing, NextId

\* A step of one thread that leaves the disk, the manifest and the status alone.
LEMMA CalmTask ==
    ASSUME StorageInv, IdsInv, StorageInv', NEW a \in Actors, NEW r,
           task' = [task EXCEPT ![a] = r],
           \A s \in Series : r.pc \in WritingPCs /\ s \in r.todo =>
               Writing(a, s) /\ r.pending[s].segment_id = NextId(a, s),
           UNCHANGED <<files, manifest, status>>
    PROVE  IdsInv' /\ NoOverwrite
  <1>1. TypeOK BY DEF StorageInv
  <1>2. \A x \in Series : manifest[x] # None => manifest[x].next_segment_id \in Nat
    BY <1>1 DEF TypeOK, Manifest, SeriesEntry
  <1>3. \A b \in Actors, x \in Series :
            Writing(b, x)' => Writing(b, x) /\ NextId(b, x)' = NextId(b, x)
    BY CalmThread
  <1> QED BY <1>2, <1>3, CalmStep

\* Requests that arrive create no segment file.
LEMMA ClientIds ==
    ASSUME StorageInv, IdsInv, StorageInv', Client
    PROVE  IdsInv' /\ NoOverwrite
  <1>1. ASSUME NEW s \in Series, NEW type \in SeriesTypes, NEW limit \in Limits,
               NEW ok \in BOOLEAN, Register(s, type, limit, ok)
        PROVE  IdsInv' /\ NoOverwrite
    <2>1. TypeOK BY DEF StorageInv
    <2>2. /\ manifest[s] = None /\ status = "serving"
          /\ manifest' = [manifest EXCEPT ![s] = NewEntry(type, Clamp(limit))]
          /\ UNCHANGED <<files, task, status>>
      BY <1>1 DEF Register, Save, CanRegister
    <2>3. \A x \in Series : manifest[x] # None => manifest'[x] = manifest[x]
      BY <2>1, <2>2 DEF TypeOK, Manifest
    <2>4. \A x \in Series : manifest[x] # None => manifest[x].next_segment_id \in Nat
      BY <2>1 DEF TypeOK, Manifest, SeriesEntry
    <2>5. \A a \in Actors, x \in Series :
              Writing(a, x)' => Writing(a, x) /\ NextId(a, x)' = NextId(a, x)
      BY <2>2 DEF Writing, NextId
    <2>6. \A x \in Series : manifest[x] # None =>
              /\ manifest'[x] # None
              /\ manifest'[x].next_segment_id >= manifest[x].next_segment_id
      BY <2>3, <2>4
    <2> QED BY <2>2, <2>5, <2>6, CalmStep
  <1>2. ASSUME NEW t \in Tasks, NEW batch \in Batches, BeginAppend(t, batch)
        PROVE  IdsInv' /\ NoOverwrite
    <2> DEFINE r == [IdleTask EXCEPT !.pc = "append", !.batch = batch,
                                     !.todo = {batch[i].data_id : i \in DOMAIN batch}]
    <2>1. r.pc \notin WritingPCs BY IdleTaskType DEF WritingPCs, IdleTask
    <2>2. task' = [task EXCEPT ![t] = r] /\ UNCHANGED <<files, manifest, status>> /\ t \in Actors
      BY <1>2 DEF BeginAppend, memory, disk, Actors
    <2> HIDE DEF r
    <2> QED BY <2>1, <2>2, CalmTask
  <1>3. ASSUME NEW t \in Tasks, NEW ids \in (SUBSET series) \ {{}}, BeginFlush(t, ids)
        PROVE  IdsInv' /\ NoOverwrite
    <2>1. Flushing(ids).pc \notin WritingPCs BY DEF WritingPCs, Flushing, IdleTask
    <2>2. /\ task' = [task EXCEPT ![t] = Flushing(ids)] /\ t \in Actors
          /\ UNCHANGED <<files, manifest, status>>
      BY <1>3 DEF BeginFlush, memory, disk, Actors
    <2> QED BY <2>1, <2>2, CalmTask
  <1> QED BY <1>1, <1>2, <1>3 DEF Client

\* An append creates no segment file; the flush it triggers has no ids yet.
LEMMA AppendIds ==
    ASSUME StorageInv, IdsInv, StorageInv', NEW t \in Tasks, NEW s \in Series, AppendGroup(t, s)
    PROVE  IdsInv' /\ NoOverwrite
  <1>1. t \in Actors /\ task[t] \in Task BY DEF Actors, StorageInv, TypeOK
  <1>2. PICK F \in SUBSET Series :
            task' = [task EXCEPT ![t] =
                IF task[t].todo = {s} THEN Flushing(F)
                ELSE [task[t] EXCEPT !.todo = task[t].todo \ {s}, !.to_flush = F]]
    <2> DEFINE batch == task[t].batch
               taken == {i \in DOMAIN batch : batch[i].data_id = s /\ Accepts(batch[i])}
               new == {[timestamp_ms |-> batch[i].timestamp_ms, seq_no |-> clock + i] : i \in taken}
               full == taken # {} /\ Cardinality(memtable[s] \union new) >= FlushThresholdCount
               F == task[t].to_flush \union (IF full THEN {s} ELSE {})
    <2>1. task' = [task EXCEPT ![t] =
                IF task[t].todo = {s} THEN Flushing(F)
                ELSE [task[t] EXCEPT !.todo = task[t].todo \ {s}, !.to_flush = F]]
      BY DEF AppendGroup
    <2>2. F \in SUBSET Series BY <1>1 DEF Task
    <2> QED BY <2>1, <2>2, Zenon
  <1> DEFINE r == IF task[t].todo = {s} THEN Flushing(F)
                  ELSE [task[t] EXCEPT !.todo = task[t].todo \ {s}, !.to_flush = F]
  <1>3. task[t].pc = "append" /\ UNCHANGED <<files, manifest, status>>
    BY DEF AppendGroup, At, disk
  <1>4. r.pc \notin WritingPCs BY <1>1, <1>3 DEF WritingPCs, Flushing, IdleTask, Task
  <1>5. task' = [task EXCEPT ![t] = r] BY <1>2
  <1> HIDE DEF r
  <1> QED BY <1>1, <1>3, <1>4, <1>5, CalmTask

\* Draining the memtables neither.
LEMMA PrepareIds ==
    ASSUME StorageInv, IdsInv, StorageInv', NEW t \in Tasks, NEW s \in Series, Prepare(t, s)
    PROVE  IdsInv' /\ NoOverwrite
  <1>1. t \in Actors /\ task[t] \in Task BY DEF Actors, StorageInv, TypeOK
  <1> DEFINE q == [task[t] EXCEPT !.pending[s].samples = LastWrites(memtable[s])]
             r == Visited(q, s, "alloc", Pending(q))
  <1>2. /\ task' = [task EXCEPT ![t] = r] /\ task[t].pc = "prepare"
        /\ UNCHANGED <<files, manifest, status>>
    BY DEF Prepare, At, disk
  <1>3. q.pc = "prepare" /\ q = [q EXCEPT !.pc = "prepare"] BY <1>1, <1>2 DEF Task
  <1>4. r.pc \in {"prepare", "idle", "alloc"}
    <2>2. CASE q.todo # {s}
      <3>1. r = [q EXCEPT !.todo = q.todo \ {s}, !.current = None] BY <2>2 DEF Visited
      <3> QED BY <3>1, <1>1, <1>2 DEF Task
    <2>3. CASE q.todo = {s} /\ Pending(q) = {}
      BY <2>3, IdleTaskType DEF Visited
    <2>4. CASE q.todo = {s} /\ Pending(q) # {}
      <3>1. r = [q EXCEPT !.pc = "alloc", !.todo = Pending(q), !.current = None]
        BY <2>4 DEF Visited
      <3> QED BY <3>1, <1>1 DEF Task
    <2> QED BY <2>2, <2>3, <2>4
  <1> HIDE DEF r, q
  <1>5. r.pc \notin WritingPCs BY <1>4 DEF WritingPCs
  <1> QED BY <1>1, <1>2, <1>5, CalmTask

-----------------------------------------------------------------------------
(* A flush takes its ids and writes its files.                             *)

\* The ids it takes are above those of every file and of every other thread.
LEMMA AllocIds ==
    ASSUME StorageInv, IdsInv, StorageInv', NEW t \in Tasks, Alloc(t)
    PROVE  IdsInv' /\ NoOverwrite
  <1> DEFINE P == Pending(task[t])
             flush(s) == [task[t].pending[s] EXCEPT !.segment_id = manifest[s].next_segment_id]
             pending == [s \in Series |-> IF s \in P THEN flush(s) ELSE task[t].pending[s]]
             r == [task[t] EXCEPT !.pc = "mkdir", !.pending = pending]
  <1>1. TypeOK /\ TypeOK' /\ SeriesOK /\ t \in Actors BY DEF StorageInv, Actors
  <1>2. /\ task' = [task EXCEPT ![t] = r]
        /\ manifest' = [s \in Series |-> IF s \in P
               THEN [manifest[s] EXCEPT !.next_segment_id = @ + 1] ELSE manifest[s]]
        /\ task[t].pc = "alloc" /\ UNCHANGED <<files, status>>
    BY DEF Alloc, At, disk
  <1>3. /\ task[t] \in Task /\ task \in [Actors -> Task]
        /\ task[t].todo = P /\ P \subseteq series
    BY <1>1, <1>2, Zenon DEF TypeOK, StorageInv, TaskOK
  <1>4. \A s \in P : manifest[s] \in SeriesEntry /\ manifest[s] # None
    BY <1>1, <1>3 DEF SeriesOK, TypeOK, Manifest
  <1>5. \A s \in P : /\ manifest[s].next_segment_id \in Nat
                     /\ manifest'[s].next_segment_id = manifest[s].next_segment_id + 1
                     /\ manifest'[s] # None
    <2> SUFFICES ASSUME NEW s \in P
                 PROVE  /\ manifest[s].next_segment_id \in Nat
                        /\ manifest'[s].next_segment_id = manifest[s].next_segment_id + 1
                        /\ manifest'[s] # None
      OBVIOUS
    <2>1. manifest'[s] = [manifest[s] EXCEPT !.next_segment_id = manifest[s].next_segment_id + 1]
      BY <1>2 DEF Pending
    <2>2. manifest'[s] \in SeriesEntry BY <2>1, <1>4 DEF SeriesEntry
    <2> QED BY <2>1, <2>2, <1>4, NoneAssumption DEF SeriesEntry
  <1>6. \A s \in Series \ P : manifest'[s] = manifest[s] BY <1>2
  <1>7. status # "down" BY <1>1, <1>2, RunningStatus DEF RunsWhile
  <1>8. \A s \in P : pending[s].segment_id = manifest[s].next_segment_id
    <2> SUFFICES ASSUME NEW s \in P PROVE pending[s].segment_id = manifest[s].next_segment_id
      OBVIOUS
    <2>1. task[t].pending[s] \in PendingFlush /\ s \in Series BY <1>3 DEF Task, Pending
    <2>2. pending[s] = flush(s) BY <2>1
    <2> QED BY <2>1, <2>2 DEF PendingFlush
  <1> HIDE DEF pending
  <1>9. r.pc = "mkdir" /\ r.todo = P /\ r.pending = pending BY <1>3 DEF Task
  <1> HIDE DEF r
  <1>10. \A a \in Actors : task'[a] = IF a = t THEN r ELSE task[a] BY <1>2, <1>3
  <1>11. ASSUME NEW s \in Series, Writing(t, s)'
         PROVE  s \in P /\ NextId(t, s)' = manifest[s].next_segment_id
    BY <1>1, <1>8, <1>9, <1>10, <1>11 DEF Writing, NextId
  <1>12. ASSUME NEW a \in Actors \ {t}, NEW s \in Series, Writing(a, s)'
         PROVE  Writing(a, s) /\ NextId(a, s)' = NextId(a, s)
    BY <1>10, <1>12 DEF Writing, NextId
  <1>13. \A a \in Actors, s \in Series : Writing(a, s) =>
             NextId(a, s) \in Nat /\ NextId(a, s) < manifest[s].next_segment_id
             /\ FileAt(s, NextId(a, s)) = {}
    BY WritingFacts DEF IdsInv, IdsUnused
  <1>14. \A f \in files : /\ f.data_id \in Series /\ f.segment_id \in Nat
                          /\ manifest[f.data_id] # None
                          /\ f.segment_id < manifest[f.data_id].next_segment_id
    BY <1>1, <1>7 DEF IdsInv, FilesBelow, TypeOK, SegmentFile
  <1>15. UniquePaths' /\ NoOverwrite BY <1>2 DEF IdsInv, UniquePaths, NoOverwrite
  <1>16. \A s \in Series : manifest[s] # None => manifest[s].next_segment_id \in Nat
    BY <1>1 DEF TypeOK, Manifest, SeriesEntry
  <1>17. FilesBelow'
    <2> SUFFICES ASSUME NEW f \in files'
                 PROVE  /\ manifest'[f.data_id] # None
                        /\ f.segment_id < manifest'[f.data_id].next_segment_id
      BY DEF FilesBelow
    <2>1. f \in files BY <1>2
    <2>2. CASE f.data_id \in P BY <2>1, <2>2, <1>5, <1>14
    <2>3. CASE f.data_id \notin P BY <2>1, <2>3, <1>6, <1>14
    <2> QED BY <2>2, <2>3
  <1>18. IdsUnused'
    <2> SUFFICES ASSUME NEW a \in Actors, NEW s \in Series, Writing(a, s)'
                 PROVE  (NextId(a, s) < manifest[s].next_segment_id)'
                        /\ FileAt(s, NextId(a, s))' = {}
      BY DEF IdsUnused
    <2>1. CASE a = t
      <3>1. s \in P /\ NextId(t, s)' = manifest[s].next_segment_id BY <2>1, <1>11
      <3>2. FileAt(s, manifest[s].next_segment_id) = {} BY <3>1, <1>5, <1>14 DEF FileAt
      <3>3. FileAt(s, NextId(a, s))' = {} BY <3>1, <3>2, <2>1, <1>2 DEF FileAt
      <3>4. NextId(a, s)' < manifest'[s].next_segment_id BY <3>1, <2>1, <1>5
      <3> QED BY <3>3, <3>4
    <2>2. CASE a # t
      <3>1. Writing(a, s) /\ NextId(a, s)' = NextId(a, s) BY <2>2, <1>12
      <3>2. FileAt(s, NextId(a, s))' = {} BY <3>1, <1>2, <1>13 DEF FileAt
      <3>3. CASE s \in P BY <3>1, <3>2, <3>3, <1>5, <1>13
      <3>4. CASE s \notin P BY <3>1, <3>2, <3>4, <1>6, <1>13
      <3> QED BY <3>3, <3>4
    <2> QED BY <2>1, <2>2
  <1>19. IdsDistinct'
    <2> SUFFICES ASSUME NEW a \in Actors, NEW b \in Actors, NEW s \in Series,
                        Writing(a, s)', Writing(b, s)', a # b
                 PROVE  NextId(a, s)' # NextId(b, s)'
      BY DEF IdsDistinct
    <2>1. CASE a = t
      <3>1. s \in P /\ NextId(a, s)' = manifest[s].next_segment_id BY <2>1, <1>11
      <3>2. Writing(b, s) /\ NextId(b, s)' = NextId(b, s) BY <2>1, <1>12
      <3> QED BY <3>1, <3>2, <1>5, <1>13
    <2>2. CASE b = t
      <3>1. s \in P /\ NextId(b, s)' = manifest[s].next_segment_id BY <2>2, <1>11
      <3>2. Writing(a, s) /\ NextId(a, s)' = NextId(a, s) BY <2>2, <1>12
      <3> QED BY <3>1, <3>2, <1>5, <1>13
    <2>3. CASE a # t /\ b # t BY <2>3, <1>12 DEF IdsInv, IdsDistinct
    <2> QED BY <2>1, <2>2, <2>3
  <1> QED BY <1>15, <1>17, <1>18, <1>19 DEF IdsInv

\* Creating the directory and the temporary file changes no segment file.
LEMMA CreateIds ==
    ASSUME StorageInv, IdsInv, StorageInv', NEW t \in Tasks, NEW s \in Series,
           Mkdir(t, s) \/ CreateTmp(t, s)
    PROVE  IdsInv' /\ NoOverwrite
  <1>1. t \in Actors /\ task[t] \in Task BY DEF Actors, StorageInv, TypeOK
  <1>2. UNCHANGED <<files, manifest, status>> /\ task[t].pc \in WritingPCs
    BY DEF Mkdir, CreateTmp, memory, At, Working, WritingPCs
  <1>3. CASE Mkdir(t, s)
    <2> DEFINE r == [task[t] EXCEPT !.pc = "create", !.current = s]
    <2>1. task' = [task EXCEPT ![t] = r] BY <1>3 DEF Mkdir
    <2>2. r.todo = task[t].todo /\ r.pending = task[t].pending BY <1>1 DEF Task
    <2> HIDE DEF r
    <2> QED BY <2>1, <2>2, <1>1, <1>2, CalmTask DEF Writing, NextId
  <1>4. CASE CreateTmp(t, s)
    <2> DEFINE r == [task[t] EXCEPT !.pc = "rename"]
    <2>1. task' = [task EXCEPT ![t] = r] BY <1>4 DEF CreateTmp, GoTo
    <2>2. r.todo = task[t].todo /\ r.pending = task[t].pending BY <1>1 DEF Task
    <2> HIDE DEF r
    <2> QED BY <2>1, <2>2, <1>1, <1>2, CalmTask DEF Writing, NextId
  <1> QED BY <1>3, <1>4

\* A write that fails publishes nothing, and its id is never used again.
LEMMA WriteErrorIds ==
    ASSUME StorageInv, IdsInv, StorageInv', NEW t \in Tasks, NEW s \in Series,
           CreateTmpNoDir(t, s) \/ WriteFails(t, s)
    PROVE  IdsInv' /\ NoOverwrite
  <1>1. IdleTask.pc \notin WritingPCs BY IdleTaskType DEF WritingPCs
  <1>2. /\ task' = [task EXCEPT ![t] = IdleTask] /\ t \in Actors
        /\ UNCHANGED <<files, manifest, status>>
    BY DEF CreateTmpNoDir, WriteFails, Abort, memory, disk, Actors
  <1> QED BY <1>1, <1>2, CalmTask

\* The rename finds no file under the id of the flush, and the thread leaves
\* that id behind.
LEMMA RenameIds ==
    ASSUME StorageInv, IdsInv, StorageInv', NEW t \in Tasks, NEW s \in Series,
           NEW size \in SegmentSizes, NEW ok \in BOOLEAN, Rename(t, s, size, ok)
    PROVE  IdsInv' /\ NoOverwrite
  <1> DEFINE flush == task[t].pending[s]
             id == flush.segment_id
             file == [data_id |-> s, segment_id |-> id, series_type |-> manifest[s].series_type,
                      samples |-> flush.samples, size_bytes |-> size]
             q == [task[t] EXCEPT !.pending[s].size_bytes = size, !.pc = "mkdir"]
             v == Visited(q, s, "commit", Pending(q))
  <1>1. TypeOK /\ t \in Actors /\ task \in [Actors -> Task] BY DEF StorageInv, TypeOK, Actors
  <1>2. /\ Working(t, "rename", s)
        /\ files' = (files \ FileAt(s, id)) \union {file}
        /\ ok => task' = [task EXCEPT ![t] = v]
        /\ ~ok => task' = [task EXCEPT ![t] = IdleTask]
        /\ UNCHANGED <<manifest, status>>
    BY DEF Rename, Abort, memory
  <1>3. task[t] \in Task /\ s \in task[t].todo /\ flush \in PendingFlush
    BY <1>2, RenameFacts
  <1>4. Writing(t, s) /\ NextId(t, s) = id
    BY <1>2, <1>3 DEF Writing, NextId, Working, WritingPCs
  <1>5. /\ id \in Nat /\ id < manifest[s].next_segment_id /\ FileAt(s, id) = {}
        /\ manifest[s] # None /\ status # "down"
    BY <1>1, <1>4, WritingFacts DEF IdsInv, IdsUnused
  <1>6. file.data_id = s /\ file.segment_id = id OBVIOUS
  <1> HIDE DEF file
  <1>7. files' = files \union {file} BY <1>2, <1>5
  <1>8. \A f \in files : ~(f.data_id = s /\ f.segment_id = id) BY <1>5 DEF FileAt
  <1>9. UniquePaths' /\ NoOverwrite
    BY <1>6, <1>7, <1>8 DEF IdsInv, UniquePaths, NoOverwrite
  <1>10. FilesBelow' BY <1>2, <1>5, <1>6, <1>7 DEF IdsInv, FilesBelow
  <1>11. q.pc = "mkdir" /\ q.todo = task[t].todo
         /\ \A x \in Series : q.pending[x].segment_id = task[t].pending[x].segment_id
    BY <1>3 DEF Task, PendingFlush
  <1>12. \A x \in Series : v.pc \in WritingPCs /\ x \in v.todo =>
             /\ x # s /\ x \in task[t].todo
             /\ v.pending[x].segment_id = task[t].pending[x].segment_id
    <2>1. CASE q.todo # {s}
      <3>1. v = [q EXCEPT !.todo = q.todo \ {s}, !.current = None] BY <2>1 DEF Visited
      <3>2. v.todo = q.todo \ {s} /\ v.pending = q.pending BY <3>1, <1>3 DEF Task
      <3> HIDE DEF q, v
      <3> QED BY <3>2, <1>11
    <2>2. CASE q.todo = {s} /\ Pending(q) = {}
      BY <2>2, IdleTaskType DEF Visited, WritingPCs
    <2>3. CASE q.todo = {s} /\ Pending(q) # {}
      <3>1. v = [q EXCEPT !.pc = "commit", !.todo = Pending(q), !.current = None]
        BY <2>3 DEF Visited
      <3>2. v.pc = "commit" BY <3>1, <1>3 DEF Task
      <3> HIDE DEF q, v
      <3> QED BY <3>2 DEF WritingPCs
    <2> QED BY <2>1, <2>2, <2>3
  <1> HIDE DEF v
  <1>13. ASSUME NEW a \in Actors, NEW x \in Series, Writing(a, x)'
         PROVE  /\ Writing(a, x) /\ NextId(a, x)' = NextId(a, x)
                /\ a = t => x # s
    <2>1. CASE a # t
      <3>1. task'[a] = task[a] BY <2>1, <1>1, <1>2
      <3> QED BY <2>1, <3>1, <1>13 DEF Writing, NextId
    <2>2. CASE a = t /\ ok
      <3>1. task'[t] = v BY <2>2, <1>1, <1>2
      <3>2. v.pc \in WritingPCs /\ x \in v.todo BY <2>2, <3>1, <1>13 DEF Writing
      <3> QED BY <2>2, <3>1, <3>2, <1>4, <1>12 DEF Writing, NextId
    <2>3. CASE a = t /\ ~ok
      <3>1. task'[t] = IdleTask BY <2>3, <1>1, <1>2
      <3> QED BY <2>3, <3>1, <1>13, IdleTaskType DEF Writing, WritingPCs
    <2> QED BY <2>1, <2>2, <2>3
  <1>14. IdsUnused'
    <2> SUFFICES ASSUME NEW a \in Actors, NEW x \in Series, Writing(a, x)'
                 PROVE  (NextId(a, x) < manifest[x].next_segment_id)'
                        /\ FileAt(x, NextId(a, x))' = {}
      BY DEF IdsUnused
    <2>1. Writing(a, x) /\ NextId(a, x)' = NextId(a, x) /\ (a = t => x # s) BY <1>13
    <2>2. NextId(a, x) < manifest[x].next_segment_id /\ FileAt(x, NextId(a, x)) = {}
      BY <2>1 DEF IdsInv, IdsUnused
    <2>3. ~(x = s /\ NextId(a, x) = id)
      BY <2>1, <1>1, <1>4 DEF IdsInv, IdsDistinct
    <2>4. FileAt(x, NextId(a, x))' = {} BY <2>1, <2>2, <2>3, <1>6, <1>7 DEF FileAt
    <2> QED BY <2>1, <2>2, <2>4, <1>2
  <1>15. IdsDistinct' BY <1>13 DEF IdsInv, IdsDistinct
  <1> QED BY <1>9, <1>10, <1>14, <1>15 DEF IdsInv

\* The commit leaves the ids alone.
LEMMA CommitIds ==
    ASSUME StorageInv, IdsInv, StorageInv', NEW t \in Tasks, NEW ok \in BOOLEAN, Commit(t, ok)
    PROVE  IdsInv' /\ NoOverwrite
  <1>1. /\ TypeOK /\ TypeOK' /\ SeriesOK /\ SeriesOK' /\ t \in Actors
        /\ task[t] \in Task /\ TaskOK(task[t], series)
    BY DEF StorageInv, Actors, TypeOK
  <1>2. /\ manifest' = [s \in Series |-> IF s \in Pending(task[t])
               THEN Registered(manifest[s], task[t].pending[s]) ELSE manifest[s]]
        /\ UNCHANGED <<files, status, series>>
    BY DEF Commit, Save
  <1>3. ASSUME NEW s \in Series, manifest[s] # None
        PROVE  manifest'[s] # None
               /\ manifest'[s].next_segment_id >= manifest[s].next_segment_id
    <2>1. manifest[s] \in SeriesEntry /\ manifest[s].next_segment_id \in Nat
      BY <1>1, <1>3 DEF TypeOK, Manifest, SeriesEntry
    <2>2. CASE s \notin Pending(task[t]) BY <2>1, <2>2, <1>2, <1>3
    <2>3. CASE s \in Pending(task[t])
      <3>1. manifest'[s] # None BY <2>3, <1>1, <1>2 DEF TaskOK, SeriesOK
      <3>2. manifest'[s] = Registered(manifest[s], task[t].pending[s]) BY <2>3, <1>2
      <3>3. manifest'[s].next_segment_id = manifest[s].next_segment_id
        BY <3>2, <2>1 DEF Registered, SeriesEntry
      <3> QED BY <3>1, <3>3, <2>1
    <2> QED BY <2>2, <2>3
  <1>4. \A b \in Actors, x \in Series :
            Writing(b, x)' => Writing(b, x) /\ NextId(b, x)' = NextId(b, x)
    <2>1. CASE ok
      <3>1. task' = [task EXCEPT ![t] = [task[t] EXCEPT !.pc = "advance"]]
        BY <2>1 DEF Commit, GoTo
      <3>2. "advance" \notin WritingPCs BY DEF WritingPCs
      <3> QED BY <3>1, <3>2, <1>1, CalmGoTo
    <2>2. CASE ~ok BY <2>2, <1>1, CalmIdle DEF Commit
    <2> QED BY <2>1, <2>2
  <1> QED BY <1>2, <1>3, <1>4, CalmStep

\* So does raising flushed_max_ts.
LEMMA AdvanceIds ==
    ASSUME StorageInv, IdsInv, StorageInv', NEW t \in Tasks, NEW s \in Series, Advance(t, s)
    PROVE  IdsInv' /\ NoOverwrite
  <1> DEFINE r == Visited(task[t], s, "evict", Pending(task[t]))
  <1>1. t \in Actors /\ task[t] \in Task BY DEF Actors, StorageInv, TypeOK
  <1>2. /\ task' = [task EXCEPT ![t] = r] /\ task[t].pc = "advance"
        /\ UNCHANGED <<files, manifest, status>>
    BY DEF Advance, At, disk
  <1>3. r.pc \in {"advance", "idle", "evict"}
    <2>1. CASE task[t].todo # {s}
      <3>1. r = [task[t] EXCEPT !.todo = task[t].todo \ {s}, !.current = None]
        BY <2>1 DEF Visited
      <3> QED BY <3>1, <1>1, <1>2 DEF Task
    <2>2. CASE task[t].todo = {s} /\ Pending(task[t]) = {}
      BY <2>2, IdleTaskType DEF Visited
    <2>3. CASE task[t].todo = {s} /\ Pending(task[t]) # {}
      <3>1. r = [task[t] EXCEPT !.pc = "evict", !.todo = Pending(task[t]), !.current = None]
        BY <2>3 DEF Visited
      <3> QED BY <3>1, <1>1 DEF Task
    <2> QED BY <2>1, <2>2, <2>3
  <1> HIDE DEF r
  <1>4. r.pc \notin WritingPCs BY <1>3 DEF WritingPCs
  <1> QED BY <1>1, <1>2, <1>4, CalmTask

-----------------------------------------------------------------------------
(* Evictions, crashes and recovery.                                        *)

\* A thread that evicts has no segment to write, before or after its step.
LEMMA EvictIds ==
    ASSUME StorageInv, IdsInv, StorageInv', NEW a \in Actors, NEW s \in Series,
           \/ EvictChoose(a, s) \/ EvictDone(a, s) \/ EvictRemove(a, s)
           \/ DirCheck(a, s) \/ Rmdir(a, s)
           \/ EvictRemoveFails(a, s) \/ DirCheckFails(a, s)
           \/ \E ok \in BOOLEAN : EvictUpdate(a, s, ok)
    PROVE  IdsInv' /\ NoOverwrite
  <1>1. /\ TypeOK /\ TypeOK' /\ SeriesOK /\ SeriesOK' /\ StatusOK
        /\ task[a] \in Task /\ TaskOK(task[a], series) /\ task \in [Actors -> Task]
    BY DEF StorageInv, TypeOK
  <1>2. task[a].pc \in {"evict"} \union EvictingPCs
    BY DEF EvictChoose, EvictDone, EvictRemove, DirCheck, Rmdir, EvictRemoveFails,
           DirCheckFails, EvictUpdate, At, Working, EvictingPCs
  <1>3. status # "down" BY <1>2, RunningStatus DEF EvictingPCs, RunsWhile
  <1>4. PICK r : task' = [task EXCEPT ![a] = r] /\ r.pc \notin WritingPCs
    <2>1. CASE Return(a) BY <2>1, IdleTaskType DEF Return, WritingPCs
    <2>2. ASSUME NEW pc \in EvictingPCs, GoTo(a, pc)
          PROVE  \E r : task' = [task EXCEPT ![a] = r] /\ r.pc \notin WritingPCs
      <3>1. task' = [task EXCEPT ![a] = [task[a] EXCEPT !.pc = pc]] BY <2>2 DEF GoTo
      <3>2. [task[a] EXCEPT !.pc = pc].pc = pc BY <1>1 DEF Task
      <3>3. pc \notin WritingPCs BY <2>2 DEF EvictingPCs, WritingPCs
      <3> QED BY <3>1, <3>2, <3>3
    <2>3. CASE EvictChoose(a, s)
      <3> DEFINE m == Oldest(manifest[s].segments)
                 v == [segment_id |-> m.segment_id, size_bytes |-> m.size_bytes]
                 r == [task[a] EXCEPT !.pc = "remove", !.current = s, !.victim = v]
      <3>1. task' = [task EXCEPT ![a] = r] BY <2>3 DEF EvictChoose
      <3> HIDE DEF v
      <3>2. r.pc = "remove" BY <1>1 DEF Task
      <3> QED BY <3>1, <3>2 DEF WritingPCs
    <2>4. CASE EvictDone(a, s) /\ task' = [task EXCEPT ![a].todo = @ \ {s}]
      <3>1. task' = [task EXCEPT ![a] = [task[a] EXCEPT !.todo = task[a].todo \ {s}]]
        BY <2>4
      <3>2. [task[a] EXCEPT !.todo = task[a].todo \ {s}].pc = "evict"
        BY <2>4, <1>1 DEF Task, EvictDone, At
      <3> QED BY <3>1, <3>2 DEF WritingPCs
    <2>5. CASE EvictDone(a, s) /\ Return(a) BY <2>1, <2>5
    <2>6. CASE EvictRemove(a, s) BY <2>2, <2>6 DEF EvictRemove, EvictingPCs
    <2>7. CASE DirCheck(a, s) BY <2>2, <2>7 DEF DirCheck, EvictingPCs
    <2>8. CASE Rmdir(a, s) BY <2>2, <2>8 DEF Rmdir, EvictingPCs
    <2>9. CASE EvictRemoveFails(a, s) \/ DirCheckFails(a, s)
      BY <2>1, <2>9 DEF EvictRemoveFails, DirCheckFails
    <2>10. ASSUME NEW ok \in BOOLEAN, EvictUpdate(a, s, ok)
           PROVE  \E r : task' = [task EXCEPT ![a] = r] /\ r.pc \notin WritingPCs
      <3> DEFINE r == [task[a] EXCEPT !.pc = "evict", !.current = None, !.victim = NoVictim]
      <3>1. task' = [task EXCEPT ![a] = r] \/ Return(a) BY <2>10 DEF EvictUpdate
      <3>2. r.pc = "evict" BY <1>1 DEF Task
      <3> QED BY <2>1, <3>1, <3>2 DEF WritingPCs
    <2>11. EvictDone(a, s) => \/ task' = [task EXCEPT ![a].todo = @ \ {s}]
                              \/ Return(a)
      BY DEF EvictDone
    <2> QED BY <2>3, <2>4, <2>5, <2>6, <2>7, <2>8, <2>9, <2>10, <2>11
  <1>5. \A b \in Actors, x \in Series :
            Writing(b, x)' => Writing(b, x) /\ NextId(b, x)' = NextId(b, x)
    BY <1>4, CalmThread
  <1>6. files' \subseteq files
    BY DEF EvictChoose, EvictDone, EvictRemove, DirCheck, Rmdir, EvictRemoveFails,
           DirCheckFails, EvictUpdate, disk
  <1>7. ASSUME NEW x \in Series, manifest[x] # None
        PROVE  manifest'[x] # None
               /\ manifest'[x].next_segment_id >= manifest[x].next_segment_id
    <2>1. manifest[x] \in SeriesEntry /\ manifest[x].next_segment_id \in Nat
      BY <1>1, <1>7 DEF TypeOK, Manifest, SeriesEntry
    <2>2. CASE UNCHANGED manifest BY <2>1, <2>2, <1>7
    <2>3. ASSUME NEW ok \in BOOLEAN, EvictUpdate(a, s, ok)
          PROVE  manifest'[x] # None
                 /\ manifest'[x].next_segment_id >= manifest[x].next_segment_id
      <3>1. manifest' = [manifest EXCEPT ![s] = Dropped(manifest[s], task[a].victim)]
            /\ series' = series
        BY <2>3 DEF EvictUpdate, Save
      <3>2. s \in series BY <2>3, <1>1 DEF EvictUpdate, Working, TaskOK, EvictingPCs
      <3>3. CASE x # s BY <3>1, <3>3, <2>1, <1>1, <1>7 DEF TypeOK, Manifest
      <3>4. CASE x = s
        <4>1. manifest'[x] # None BY <3>1, <3>2, <3>4, <1>1 DEF SeriesOK
        <4>2. manifest'[x] = Dropped(manifest[x], task[a].victim)
          BY <3>1, <3>4, <1>1 DEF TypeOK, Manifest
        <4>3. manifest'[x].next_segment_id = manifest[x].next_segment_id
          BY <4>2, <2>1 DEF Dropped, SeriesEntry
        <4> QED BY <4>1, <4>3, <2>1
      <3> QED BY <3>3, <3>4
    <2>4. UNCHANGED manifest \/ \E ok \in BOOLEAN : EvictUpdate(a, s, ok)
      BY DEF EvictChoose, EvictDone, EvictRemove, DirCheck, Rmdir, EvictRemoveFails,
             DirCheckFails, memory
    <2> QED BY <2>2, <2>3, <2>4
  <1> QED BY <1>3, <1>5, <1>6, <1>7, CalmStep

\* A crash forgets the ids that were taken, and no thread is left to use them.
LEMMA CrashIds == ASSUME StorageInv, IdsInv, Crash PROVE IdsInv' /\ NoOverwrite
  <1>1. /\ status' = "down" /\ files' = files
        /\ \A a \in Actors : task'[a].pc \notin WritingPCs
    BY IdleTaskType DEF Crash, disk, WritingPCs
  <1>2. UniquePaths' /\ NoOverwrite BY <1>1 DEF IdsInv, UniquePaths, NoOverwrite
  <1>3. FilesBelow' /\ IdsUnused' /\ IdsDistinct'
    BY <1>1 DEF FilesBelow, IdsUnused, IdsDistinct, Writing
  <1> QED BY <1>2, <1>3 DEF IdsInv

\* Every file that recovery leaves has its id in the recovered entry.
LEMMA OpenIds == ASSUME StorageInv, IdsInv, StorageInv', Open PROVE IdsInv' /\ NoOverwrite
  <1>1. TypeOK /\ TypeOK' /\ SeriesOK' /\ StatusOK BY DEF StorageInv
  <1>2. /\ status = "down"
        /\ manifest' = [s \in Series |-> RecoveredEntry(s)]
        /\ files' = files \ UNION {Misfits(s) : s \in {x \in Series : IsRecovered(x)}}
        /\ series' = {s \in Series : IsRecovered(s)}
        /\ \/ task' = [task EXCEPT ![Opener] = IdleTask]
           \/ task' = [task EXCEPT ![Opener] = [IdleTask EXCEPT !.pc = "evict", !.todo = series']]
    BY DEF Open, Save, Return
  <1>3. \A a \in Actors : task[a].pc = "idle" BY <1>1, <1>2 DEF StatusOK, At, RunsWhile
  <1>4. task \in [Actors -> Task] BY <1>1 DEF TypeOK
  <1>5. \A a \in Actors : task'[a].pc \notin WritingPCs
    BY <1>2, <1>3, <1>4, IdleTaskType, Zenon DEF WritingPCs, IdleTask
  <1>6. IdsUnused' /\ IdsDistinct' BY <1>5 DEF IdsUnused, IdsDistinct, Writing
  <1>7. UniquePaths' /\ NoOverwrite BY <1>2 DEF IdsInv, UniquePaths, NoOverwrite
  <1>8. FilesBelow'
    <2> SUFFICES ASSUME NEW f \in files'
                 PROVE  /\ manifest'[f.data_id] # None
                        /\ f.segment_id < manifest'[f.data_id].next_segment_id
      BY DEF FilesBelow
    <2> DEFINE s == f.data_id
    <2>1. f \in files /\ f \in SegmentFile /\ s \in Series
      BY <1>1, <1>2 DEF TypeOK, SegmentFile
    <2>2. f \in FilesOf(s) /\ IsRecovered(s) BY <2>1 DEF FilesOf, IsRecovered
    <2>3. f \notin Misfits(s) BY <2>1, <2>2, <1>2
    <2>4. \E m \in RecoveredSegments(s) : m.segment_id = f.segment_id
      <3>1. CASE f \in Unknown(s)
        <4>1. MetaOf(f) \in RecoveredSegments(s) BY <2>3, <3>1 DEF RecoveredSegments
        <4> QED BY <4>1, <2>1, MetaOfType
      <3>2. CASE f \notin Unknown(s) BY <2>2, <3>2 DEF Unknown, RecoveredSegments
      <3> QED BY <3>1, <3>2
    <2>5. manifest'[s].next_segment_id = NextSegmentId(RecoveredSegments(s))
      <3>1. manifest'[s] = RecoveredEntry(s) BY <1>2, <2>1
      <3> QED BY <3>1, <2>2 DEF RecoveredEntry
    <2>6. manifest'[s] # None BY <1>1, <1>2, <2>1, <2>2 DEF SeriesOK
    <2> QED BY <2>1, <2>4, <2>5, <2>6, RecoveredIds
  <1> QED BY <1>6, <1>7, <1>8 DEF IdsInv

\* The loss of manifest.json and a step that changes nothing keep the files.
LEMMA StillIds ==
    ASSUME IdsInv, LoseManifest \/ UNCHANGED vars
    PROVE  IdsInv' /\ NoOverwrite
  <1>1. UNCHANGED <<files, manifest, status, task>>
    BY DEF LoseManifest, vars, memory, disk
  <1> QED BY <1>1 DEF IdsInv, UniquePaths, FilesBelow, IdsUnused, IdsDistinct, NoOverwrite,
                      Writing, NextId, FileAt

\* So does a recovery that removes a file it cannot read.
LEMMA HeaderUnreadableIds ==
    ASSUME IdsInv, NEW f \in files, HeaderUnreadable(f)
    PROVE  IdsInv' /\ NoOverwrite
  <1>1. files' \subseteq files /\ UNCHANGED <<manifest, status, task>>
    BY DEF HeaderUnreadable, memory
  <1>2. UniquePaths' /\ NoOverwrite BY <1>1 DEF IdsInv, UniquePaths, NoOverwrite
  <1>3. FilesBelow' BY <1>1 DEF IdsInv, FilesBelow
  <1>4. IdsUnused' BY <1>1 DEF IdsInv, IdsUnused, Writing, NextId, FileAt
  <1>5. IdsDistinct' BY <1>1 DEF IdsInv, IdsDistinct, Writing, NextId
  <1> QED BY <1>2, <1>3, <1>4, <1>5 DEF IdsInv

\* Every step keeps the invariant, and overwrites no segment.
LEMMA NextIds == StorageInv /\ StorageInv' /\ IdsInv /\ [Next]_vars => IdsInv' /\ NoOverwrite
  <1> SUFFICES ASSUME StorageInv, StorageInv', IdsInv, [Next]_vars
               PROVE  IdsInv' /\ NoOverwrite
    OBVIOUS
  <1>1. CASE Client BY <1>1, ClientIds
  <1>2. ASSUME NEW t \in Tasks, Running(t) PROVE IdsInv' /\ NoOverwrite
    <2>1. t \in Actors BY DEF Actors
    <2>2. CASE AppendStep(t) BY <2>2, AppendIds DEF AppendStep
    <2>3. CASE FlushStep(t)
      BY <2>3, AllocIds, CommitIds, PrepareIds, CreateIds, WriteErrorIds, RenameIds, AdvanceIds
      DEF FlushStep
    <2>4. CASE EvictStep(t) BY <2>1, <2>4, EvictIds DEF EvictStep
    <2>5. CASE EvictError(t) BY <2>1, <2>5, EvictIds DEF EvictError
    <2> QED BY <1>2, <2>2, <2>3, <2>4, <2>5 DEF Running
  <1>3. CASE EvictStep(Opener)
    <2>1. Opener \in Actors BY DEF Actors
    <2> QED BY <2>1, <1>3, EvictIds DEF EvictStep
  <1>4. CASE Open BY <1>4, OpenIds
  <1>5. CASE Crash BY <1>5, CrashIds
  <1>6. CASE LoseManifest \/ UNCHANGED vars BY <1>6, StillIds
  <1>7. CASE \E f \in files : HeaderUnreadable(f) BY <1>7, HeaderUnreadableIds
  <1> QED BY <1>1, <1>2, <1>3, <1>4, <1>5, <1>6, <1>7 DEF Next

\* There is no file and no thread at first.
LEMMA InitIds == Init => IdsInv
  BY IdleTaskType DEF Init, IdsInv, UniquePaths, FilesBelow, IdsUnused, IdsDistinct, Writing,
     WritingPCs

-----------------------------------------------------------------------------
(* The theorems.                                                           *)

\* Segment ids are unique: at any time the ids of the files of a series, those
\* that flushes under way have taken, and the next one the manifest gives out
\* are distinct, restarts or not.
THEOREM IdsInvariant == Spec => []IdsInv
  BY StorageInvariant, InitIds, NextIds, PTL DEF Spec

\* No flush ever renames its file onto another segment: whatever the number of
\* threads, and even after crashes and the loss of manifest.json.
THEOREM SegmentsImmutable == Spec => SegmentImmutable
  <1>1. StorageInv /\ StorageInv' /\ IdsInv /\ [Next]_vars => [NoOverwrite]_vars BY NextIds
  <1>2. Spec => [][NoOverwrite]_vars BY <1>1, StorageInvariant, IdsInvariant, PTL DEF Spec
  <1> QED BY <1>2 DEF SegmentImmutable, NoOverwrite

-----------------------------------------------------------------------------
(* No accepted sample is silently lost                                     *)

\* Where an accepted sample may be.
Stored(s) == OnDisk(s) \union evicted[s] \union failed[s]
Holding(s) == memtable[s] \union InFlight(s) \union restarted[s] \union Stored(s)

\* What a thread has written is in a file, or was evicted, or its file could not be
\* read; and a flush that evicts has written all that it drained.
WrittenKept ==
    \A a \in Actors, s \in Series :
        Written(task[a].pending[s]) => task[a].pending[s].samples \subseteq Stored(s)
FlushedWritten ==
    \A a \in Actors : task[a].pc \in {"evict"} \union EvictingPCs =>
        \A s \in Pending(task[a]) : Written(task[a].pending[s])

\* A memtable holds writes with numbers given out, and there is none while the
\* engine is down.
MemoryOK ==
    /\ \A s \in Series : \A x \in memtable[s] : x.seq_no <= clock
    /\ status = "down" => \A s \in Series : memtable[s] = {}

\* The files of a series have one type, which the manifest and manifest.json name if
\* they know the series: recovery finds no file to remove as a misfit.
OneType ==
    /\ \A f, g \in files : f.data_id = g.data_id => f.series_type = g.series_type
    /\ \A f \in files : /\ saved[f.data_id] # None => saved[f.data_id].series_type = f.series_type
                        /\ status # "down" => manifest[f.data_id].series_type = f.series_type
    /\ status # "down" => \A s \in Series : saved[s] # None =>
           manifest[s] # None /\ manifest[s].series_type = saved[s].series_type

HandoverInv == NoSilentLoss /\ WrittenKept /\ FlushedWritten /\ MemoryOK

\* Samples that have left the memtables, and a step that keeps track of them all.
Drained(s) == InFlight(s) \union Stored(s) \union restarted[s]
NoneDropped == \A s \in Series : Drained(s) \subseteq Drained(s)'

-----------------------------------------------------------------------------
(* Every series keeps its type.                                            *)

\* No file appears, no series is forgotten or retyped, and manifest.json is the
\* old one or the manifest: such a step keeps the types.
LEMMA TypesKept ==
    ASSUME StorageInv, IdsInv, OneType, status # "down", files' \subseteq files,
           \A s \in Series : manifest[s] # None =>
               manifest'[s] # None /\ manifest'[s].series_type = manifest[s].series_type,
           \A s \in Series : saved'[s] \in {saved[s], manifest'[s]}
    PROVE  OneType'
  <1>1. \A f \in files : f.data_id \in Series BY DEF StorageInv, TypeOK, SegmentFile
  <1>2. \A f \in files : manifest[f.data_id] # None BY DEF IdsInv, FilesBelow
  <1>3. ASSUME NEW f \in files
        PROVE  /\ manifest'[f.data_id].series_type = f.series_type
               /\ saved'[f.data_id] # None => saved'[f.data_id].series_type = f.series_type
    <2>1. manifest'[f.data_id].series_type = f.series_type BY <1>1, <1>2 DEF OneType
    <2> QED BY <2>1, <1>1 DEF OneType
  <1>4. ASSUME NEW s \in Series, saved'[s] # None
        PROVE  manifest'[s] # None /\ manifest'[s].series_type = saved'[s].series_type
    <2>1. CASE saved'[s] = manifest'[s] BY <2>1, <1>4
    <2>2. CASE saved'[s] = saved[s] BY <2>2, <1>4 DEF OneType
    <2> QED BY <2>1, <2>2
  <1>5. (\A f, g \in files : f.data_id = g.data_id => f.series_type = g.series_type)'
    BY DEF OneType
  <1>6. (\A f \in files : /\ saved[f.data_id] # None => saved[f.data_id].series_type = f.series_type
                          /\ status # "down" => manifest[f.data_id].series_type = f.series_type)'
    BY <1>3
  <1>7. (status # "down" => \A s \in Series : saved[s] # None =>
            manifest[s] # None /\ manifest[s].series_type = saved[s].series_type)'
    BY <1>4
  <1> QED BY <1>5, <1>6, <1>7 DEF OneType

\* In particular a step that leaves the manifest and manifest.json alone.
LEMMA TypesUnchanged ==
    ASSUME StorageInv, IdsInv, OneType, status # "down", files' \subseteq files,
           UNCHANGED <<manifest, saved>>
    PROVE  OneType'
  BY TypesKept

\* A registration adds the type of a series that has no file.
LEMMA ClientTypes ==
    ASSUME StorageInv, IdsInv, OneType, Client
    PROVE  OneType'
  <1>1. ASSUME NEW s \in Series, NEW type \in SeriesTypes, NEW limit \in Limits,
               NEW ok \in BOOLEAN, Register(s, type, limit, ok)
        PROVE  OneType'
    <2> DEFINE e == NewEntry(type, Clamp(limit))
    <2>1. /\ manifest[s] = None /\ status = "serving" /\ files' = files
          /\ manifest' = [manifest EXCEPT ![s] = e] /\ saved' \in {saved, manifest'}
      BY <1>1 DEF Register, Save, CanRegister
    <2> HIDE DEF e
    <2>2. manifest \in [Series -> SeriesEntry \union {None}] BY DEF StorageInv, TypeOK, Manifest
    <2>3. \A x \in Series : manifest[x] # None => manifest'[x] = manifest[x] BY <2>1, <2>2
    <2>4. \A x \in Series : saved'[x] \in {saved[x], manifest'[x]} BY <2>1
    <2> QED BY <2>1, <2>3, <2>4, TypesKept
  <1>2. ASSUME NEW t \in Tasks,
               \/ \E batch \in Batches : BeginAppend(t, batch)
               \/ \E ids \in (SUBSET series) \ {{}} : BeginFlush(t, ids)
        PROVE  OneType'
    <2>1. status = "serving" /\ UNCHANGED <<files, manifest, saved>>
      BY <1>2, Zenon DEF BeginAppend, BeginFlush, memory, disk
    <2> QED BY <2>1, TypesUnchanged
  <1> QED BY <1>1, <1>2 DEF Client

\* A flush writes its files with the type of the series.
LEMMA FlushTypes ==
    ASSUME StorageInv, StorageInv', IdsInv, OneType, NEW t \in Tasks, AppendStep(t) \/ FlushStep(t)
    PROVE  OneType'
  <1>1. /\ TypeOK /\ SeriesOK /\ SeriesOK' /\ t \in Actors /\ task[t] \in Task
        /\ TaskOK(task[t], series)
    BY DEF StorageInv, TypeOK, Actors
  <1>2. task[t].pc # "idle" => status # "down" BY <1>1, RunningStatus DEF RunsWhile
  <1>3. ASSUME NEW s \in Series, AppendGroup(t, s) \/ Prepare(t, s) \/ Mkdir(t, s) \/ CreateTmp(t, s)
                                 \/ CreateTmpNoDir(t, s) \/ WriteFails(t, s) \/ Advance(t, s)
        PROVE  OneType'
    <2>1. UNCHANGED <<files, manifest, saved>>
      BY <1>3 DEF AppendGroup, Prepare, Mkdir, CreateTmp, CreateTmpNoDir, WriteFails, Advance,
                  memory, disk
    <2>2. task[t].pc # "idle"
      BY <1>3 DEF AppendGroup, Prepare, Mkdir, CreateTmp, CreateTmpNoDir, WriteFails, Advance,
                  At, Working
    <2> QED BY <2>1, <2>2, <1>2, TypesUnchanged
  <1>4. CASE Alloc(t)
    <2>1. /\ manifest' = [s \in Series |-> IF s \in Pending(task[t])
               THEN [manifest[s] EXCEPT !.next_segment_id = @ + 1] ELSE manifest[s]]
          /\ UNCHANGED <<files, saved, series>> /\ status # "down"
      BY <1>2, <1>4 DEF Alloc, At, disk
    <2>2. ASSUME NEW s \in Series, manifest[s] # None
          PROVE  manifest'[s] # None /\ manifest'[s].series_type = manifest[s].series_type
      <3>1. manifest[s] \in SeriesEntry BY <1>1, <2>2 DEF TypeOK, Manifest
      <3>2. CASE s \notin Pending(task[t]) BY <2>1, <2>2, <3>2
      <3>3. CASE s \in Pending(task[t])
        <4>1. manifest'[s] = [manifest[s] EXCEPT !.next_segment_id = manifest[s].next_segment_id + 1]
          BY <2>1, <3>3
        <4>2. manifest'[s] # None BY <2>1, <3>3, <1>1 DEF TaskOK, SeriesOK
        <4> QED BY <4>1, <4>2, <3>1 DEF SeriesEntry
      <3> QED BY <3>2, <3>3
    <2> QED BY <2>1, <2>2, TypesKept
  <1>5. ASSUME NEW ok \in BOOLEAN, Commit(t, ok) PROVE OneType'
    <2>1. /\ manifest' = [s \in Series |-> IF s \in Pending(task[t])
               THEN Registered(manifest[s], task[t].pending[s]) ELSE manifest[s]]
          /\ saved' \in {saved, manifest'}
          /\ UNCHANGED <<files, series>> /\ status # "down"
      BY <1>2, <1>5 DEF Commit, Save, At
    <2>2. ASSUME NEW s \in Series, manifest[s] # None
          PROVE  manifest'[s] # None /\ manifest'[s].series_type = manifest[s].series_type
      <3>1. manifest[s] \in SeriesEntry BY <1>1, <2>2 DEF TypeOK, Manifest
      <3>2. CASE s \notin Pending(task[t]) BY <2>1, <2>2, <3>2
      <3>3. CASE s \in Pending(task[t])
        <4>1. manifest'[s] = Registered(manifest[s], task[t].pending[s]) BY <2>1, <3>3
        <4>2. manifest'[s] # None BY <2>1, <3>3, <1>1 DEF TaskOK, SeriesOK
        <4> QED BY <4>1, <4>2, <3>1 DEF SeriesEntry, Registered
      <3> QED BY <3>2, <3>3
    <2>3. \A s \in Series : saved'[s] \in {saved[s], manifest'[s]} BY <2>1
    <2> QED BY <2>1, <2>2, <2>3, TypesKept
  <1>6. ASSUME NEW s \in Series, NEW size \in SegmentSizes, NEW ok \in BOOLEAN,
               Rename(t, s, size, ok)
        PROVE  OneType'
    <2> DEFINE file == [data_id |-> s, segment_id |-> task[t].pending[s].segment_id,
                        series_type |-> manifest[s].series_type,
                        samples |-> task[t].pending[s].samples, size_bytes |-> size]
    <2>1. /\ files' \subseteq files \union {file} /\ UNCHANGED <<manifest, saved, status>>
          /\ status # "down"
      BY <1>2, <1>6 DEF Rename, Working, memory
    <2>2. file.data_id = s /\ file.series_type = manifest[s].series_type OBVIOUS
    <2> HIDE DEF file
    <2>3. \A f \in files' : manifest[f.data_id].series_type = f.series_type
      BY <2>1, <2>2 DEF OneType
    <2>4. \A f \in files' : f.data_id \in Series
      <3>1. \A f \in files : f.data_id \in Series BY <1>1 DEF TypeOK, SegmentFile
      <3> QED BY <3>1, <2>1, <2>2
    <2> QED BY <2>1, <2>3, <2>4 DEF OneType
  <1>7. CASE AppendStep(t) BY <1>3, <1>7 DEF AppendStep
  <1>8. CASE FlushStep(t) BY <1>3, <1>4, <1>5, <1>6, <1>8 DEF FlushStep
  <1> QED BY <1>7, <1>8

\* An eviction removes files and segments, and keeps the type of a series.
LEMMA EvictTypes ==
    ASSUME StorageInv, IdsInv, OneType, NEW a \in Actors, EvictStep(a) \/ EvictError(a)
    PROVE  OneType'
  <1>1. TypeOK BY DEF StorageInv
  <1>2. task[a].pc # "idle" => status # "down" BY RunningStatus DEF RunsWhile
  <1>3. ASSUME NEW s \in Series, EvictChoose(a, s) \/ EvictDone(a, s) \/ EvictRemove(a, s)
                                 \/ EvictRemoveFails(a, s) \/ DirCheck(a, s)
                                 \/ DirCheckFails(a, s) \/ Rmdir(a, s)
        PROVE  OneType'
    <2>1. files' \subseteq files /\ UNCHANGED <<manifest, saved>>
      BY <1>3 DEF EvictChoose, EvictDone, EvictRemove, EvictRemoveFails, DirCheck, DirCheckFails,
                  Rmdir, memory, disk
    <2>2. task[a].pc # "idle"
      BY <1>3 DEF EvictChoose, EvictDone, EvictRemove, EvictRemoveFails, DirCheck, DirCheckFails,
                  Rmdir, At, Working
    <2> QED BY <2>1, <2>2, <1>2, TypesUnchanged
  <1>4. ASSUME NEW s \in Series, NEW ok \in BOOLEAN, EvictUpdate(a, s, ok)
        PROVE  OneType'
    <2> DEFINE entry == Dropped(manifest[s], task[a].victim)
    <2>1. /\ manifest' = [manifest EXCEPT ![s] = entry] /\ saved' \in {saved, manifest'}
          /\ files' = files /\ status # "down"
      BY <1>2, <1>4 DEF EvictUpdate, Save, Working
    <2>2. ASSUME manifest[s] # None
          PROVE  entry # None /\ entry.series_type = manifest[s].series_type
      <3>1. manifest[s] \in SeriesEntry BY <1>1, <2>2 DEF TypeOK, Manifest
      <3>2. task[a].victim \in Victim BY <1>1 DEF TypeOK, Task
      <3>3. entry \in SeriesEntry BY <3>1, <3>2, DroppedType
      <3>4. entry.series_type = manifest[s].series_type BY <3>1 DEF Dropped, SeriesEntry
      <3> QED BY <3>3, <3>4, NoneAssumption
    <2> HIDE DEF entry
    <2>3. \A x \in Series : manifest[x] # None =>
              manifest'[x] # None /\ manifest'[x].series_type = manifest[x].series_type
      BY <2>1, <2>2, <1>1 DEF TypeOK, Manifest
    <2>4. \A x \in Series : saved'[x] \in {saved[x], manifest'[x]} BY <2>1
    <2> QED BY <2>1, <2>3, <2>4, TypesKept
  <1> QED BY <1>3, <1>4 DEF EvictStep, EvictError

\* Recovery reads the type of a series from manifest.json or from one of its files,
\* which all agree: it removes no file.
LEMMA OpenTypes ==
    ASSUME StorageInv, OneType, Open
    PROVE  OneType' /\ files' = files
  <1>1. TypeOK /\ \A f \in files : f.data_id \in Series BY DEF StorageInv, TypeOK, SegmentFile
  <1>2. /\ status = "down" /\ saved' = manifest'
        /\ manifest' = [s \in Series |-> RecoveredEntry(s)]
        /\ files' = files \ UNION {Misfits(s) : s \in {x \in Series : IsRecovered(x)}}
    BY DEF Open, Save
  <1>3. ASSUME NEW s \in Series, NEW f \in FilesOf(s) PROVE f.series_type = RecoveredType(s)
    <2>1. f \in files /\ f.data_id = s BY DEF FilesOf
    <2>2. CASE saved[s] # None BY <2>1, <2>2 DEF OneType, RecoveredType
    <2>3. CASE saved[s] = None
      <3>1. (CHOOSE g \in FilesOf(s) : TRUE) \in FilesOf(s) OBVIOUS
      <3> QED BY <2>1, <2>3, <3>1 DEF OneType, RecoveredType, FilesOf
    <2> QED BY <2>2, <2>3
  <1>4. \A s \in Series : Misfits(s) = {} BY <1>3 DEF Misfits, Unknown
  <1>5. files' = files BY <1>2, <1>4
  <1>6. \A f \in files : manifest'[f.data_id].series_type = f.series_type
    <2> SUFFICES ASSUME NEW f \in files PROVE manifest'[f.data_id].series_type = f.series_type
      OBVIOUS
    <2>1. f.data_id \in Series /\ f \in FilesOf(f.data_id) BY <1>1 DEF FilesOf
    <2>2. IsRecovered(f.data_id) BY <2>1 DEF IsRecovered
    <2>3. manifest'[f.data_id].series_type = RecoveredType(f.data_id)
      BY <1>2, <2>1, <2>2 DEF RecoveredEntry
    <2> QED BY <2>1, <2>3, <1>3
  <1>7. OneType' BY <1>2, <1>5, <1>6 DEF OneType
  <1> QED BY <1>5, <1>7

\* Every step keeps the types.
LEMMA NextTypes == StorageInv /\ StorageInv' /\ IdsInv /\ OneType /\ [Next]_vars => OneType'
  <1> SUFFICES ASSUME StorageInv, StorageInv', IdsInv, OneType, [Next]_vars PROVE OneType' OBVIOUS
  <1>1. \A f \in files : f.data_id \in Series BY DEF StorageInv, TypeOK, SegmentFile
  <1>2. CASE Client BY <1>2, ClientTypes
  <1>3. ASSUME NEW t \in Tasks, Running(t) PROVE OneType'
    BY <1>3, FlushTypes, EvictTypes DEF Running, Actors
  <1>4. CASE EvictStep(Opener) BY <1>4, EvictTypes DEF Actors
  <1>5. CASE Open BY <1>5, OpenTypes
  <1>6. CASE Crash
    <2>1. status' = "down" /\ files' = files /\ saved' = saved BY <1>6 DEF Crash, disk
    <2> QED BY <2>1 DEF OneType
  <1>7. CASE LoseManifest
    <2>1. /\ status = "down" /\ status' = "down" /\ files' = files
          /\ \A s \in Series : saved'[s] = None
      BY <1>7 DEF LoseManifest
    <2> QED BY <2>1, <1>1 DEF OneType
  <1>8. ASSUME NEW f \in files, HeaderUnreadable(f) PROVE OneType'
    <2>1. status' = "down" /\ files' \subseteq files /\ saved' = saved
      BY <1>8 DEF HeaderUnreadable
    <2> QED BY <2>1 DEF OneType
  <1>9. CASE UNCHANGED vars
    <2>1. UNCHANGED <<status, manifest, files, saved>> BY <1>9 DEF vars, memory, disk
    <2> QED BY <2>1 DEF OneType
  <1> QED BY <1>2, <1>3, <1>4, <1>5, <1>6, <1>7, <1>8, <1>9 DEF Next

-----------------------------------------------------------------------------
(* Where samples are.                                                      *)

\* The invariant after a step, thread by thread: what was accepted before is held
\* still, or a later write of its timestamp is.
LEMMA Handover ==
    ASSUME StorageInv, NoSilentLoss,
           \A s \in Series : accepted'[s] \subseteq accepted[s] \union Holding(s)',
           \A s \in Series : \A y \in Holding(s) : \E z \in Holding(s)' :
               z.timestamp_ms = y.timestamp_ms /\ z.seq_no >= y.seq_no,
           StorageInv'
    PROVE  NoSilentLoss'
  <1>1. ASSUME NEW s \in Series
        PROVE  /\ Holding(s) \subseteq BufferedSample /\ (Holding(s) \subseteq BufferedSample)'
               /\ accepted[s] \subseteq BufferedSample
    <2>1. ASSUME TypeOK PROVE Holding(s) \subseteq BufferedSample
      BY <2>1 DEF TypeOK, Holding, Stored, OnDisk, InFlight, FilesOf, SegmentFile, Task, PendingFlush
    <2>2. ASSUME TypeOK' PROVE (Holding(s) \subseteq BufferedSample)'
      BY <2>2 DEF TypeOK, Holding, Stored, OnDisk, InFlight, FilesOf, SegmentFile, Task, PendingFlush
    <2> QED BY <2>1, <2>2 DEF StorageInv, TypeOK
  <1>2. ASSUME NEW s \in Series, NEW x \in accepted[s]
        PROVE  \E y \in Holding(s) : y.timestamp_ms = x.timestamp_ms /\ y.seq_no >= x.seq_no
    BY <1>2 DEF NoSilentLoss, Holding, Stored
  <1>3. ASSUME NEW s \in Series, NEW x \in accepted'[s]
        PROVE  \E z \in Holding(s)' : z.timestamp_ms = x.timestamp_ms /\ z.seq_no >= x.seq_no
    <2>1. CASE x \in accepted[s]
      <3>1. PICK y \in Holding(s) : y.timestamp_ms = x.timestamp_ms /\ y.seq_no >= x.seq_no
        BY <2>1, <1>2
      <3>2. PICK z \in Holding(s)' : z.timestamp_ms = y.timestamp_ms /\ z.seq_no >= y.seq_no
        OBVIOUS
      <3>3. x.seq_no \in Nat /\ y.seq_no \in Nat /\ z.seq_no \in Nat
        BY <1>1, <2>1 DEF BufferedSample
      <3>4. z.seq_no >= x.seq_no BY <3>1, <3>2, <3>3
      <3> QED BY <3>1, <3>2, <3>4
    <2>2. CASE x \in Holding(s)'
      <3>1. x.seq_no \in Nat BY <1>1, <2>2 DEF BufferedSample
      <3>2. x.seq_no >= x.seq_no BY <3>1
      <3> QED BY <2>2, <3>2
    <2> QED BY <2>1, <2>2
  <1>4. (\A s \in Series : \A x \in accepted[s] :
            \E z \in Holding(s) : z.timestamp_ms = x.timestamp_ms /\ z.seq_no >= x.seq_no)'
    BY <1>3
  <1>5. (NoSilentLoss <=>
         \A s \in Series : \A x \in accepted[s] :
            \E z \in Holding(s) : z.timestamp_ms = x.timestamp_ms /\ z.seq_no >= x.seq_no)'
    BY DEF NoSilentLoss, Holding, Stored
  <1> QED BY <1>4, <1>5

\* The step of one thread: what it carried it carries still or has stored, what it
\* takes out of a memtable it carries, up to earlier writes of the same timestamps.
LEMMA ThreadKeeps ==
    ASSUME StorageInv, StorageInv', HandoverInv, NEW a \in Actors, NEW r \in Task,
           task' = [task EXCEPT ![a] = r], restarted' = restarted,
           \A s \in Series : accepted'[s] \subseteq accepted[s] \union memtable'[s],
           \A s \in Series : Stored(s) \subseteq Stored(s)',
           \A s \in Series : \A y \in memtable[s] :
               \E z \in memtable'[s] \union r.pending[s].samples :
                   z.timestamp_ms = y.timestamp_ms /\ z.seq_no >= y.seq_no,
           \A s \in Series :
               task[a].pending[s].samples \subseteq r.pending[s].samples \union Stored(s)',
           \A s \in Series : Written(r.pending[s]) => r.pending[s].samples \subseteq Stored(s)',
           r.pc \in {"evict"} \union EvictingPCs => \A s \in Pending(r) : Written(r.pending[s])
    PROVE  NoSilentLoss' /\ WrittenKept' /\ FlushedWritten' /\ NoneDropped
  <1>1. task'[a] = r /\ \A b \in Actors \ {a} : task'[b] = task[b]
    BY DEF StorageInv, TypeOK
  <1>2. ASSUME NEW s \in Series
        PROVE  /\ InFlight(s) \subseteq InFlight(s)' \union Stored(s)'
               /\ r.pending[s].samples \subseteq InFlight(s)'
    BY <1>1 DEF InFlight
  <1>3. ASSUME NEW s \in Series, NEW y \in Holding(s)
        PROVE  \E z \in Holding(s)' : z.timestamp_ms = y.timestamp_ms /\ z.seq_no >= y.seq_no
    <2>1. CASE y \in memtable[s]
      <3>1. PICK z \in memtable'[s] \union r.pending[s].samples :
                 z.timestamp_ms = y.timestamp_ms /\ z.seq_no >= y.seq_no
        BY <2>1
      <3>2. z \in Holding(s)' BY <3>1, <1>2 DEF Holding
      <3> QED BY <3>1, <3>2
    <2>2. CASE y \notin memtable[s]
      <3>1. y \in Holding(s)' BY <2>2, <1>2 DEF Holding
      <3>2. TypeOK BY DEF StorageInv
      <3>3. y \in BufferedSample
        BY <3>2 DEF TypeOK, Holding, Stored, OnDisk, InFlight, FilesOf, SegmentFile, Task, PendingFlush
      <3>4. y.seq_no >= y.seq_no BY <3>3 DEF BufferedSample
      <3> QED BY <3>1, <3>4
    <2> QED BY <2>1, <2>2
  <1>4. \A s \in Series : accepted'[s] \subseteq accepted[s] \union Holding(s)' BY DEF Holding
  <1>5. NoSilentLoss' BY <1>3, <1>4, Handover DEF HandoverInv
  <1>6. WrittenKept' BY <1>1 DEF HandoverInv, WrittenKept
  <1>7. FlushedWritten' BY <1>1 DEF HandoverInv, FlushedWritten, Pending
  <1>8. NoneDropped BY <1>2 DEF NoneDropped, Drained
  <1> QED BY <1>5, <1>6, <1>7, <1>8

\* An idle thread has nothing to store.
LEMMA IdlePending == \A s \in Series : IdleTask.pending[s].samples = {} /\ ~Written(IdleTask.pending[s])
  BY DEF IdleTask, NoFlush, Written

\* A thread with an empty flush, before and after its step.
LEMMA NothingPending ==
    ASSUME StorageInv, StorageInv', HandoverInv, NEW a \in Actors, NEW r \in Task,
           task' = [task EXCEPT ![a] = r], restarted' = restarted,
           Pending(task[a]) = {}, Pending(r) = {},
           \A s \in Series : memtable[s] \subseteq memtable'[s],
           \A s \in Series : accepted'[s] \subseteq accepted[s] \union memtable'[s],
           \A s \in Series : Stored(s) \subseteq Stored(s)'
    PROVE  NoSilentLoss' /\ WrittenKept' /\ FlushedWritten' /\ NoneDropped
  <1>1. \A s \in Series : task[a].pending[s].samples = {} /\ r.pending[s].samples = {}
    BY DEF Pending
  <1>2. ASSUME NEW s \in Series, NEW y \in memtable[s] PROVE y.seq_no >= y.seq_no
    <2>1. y.seq_no \in Nat BY DEF StorageInv, TypeOK, BufferedSample
    <2> QED BY <2>1
  <1>3. \A s \in Series : \A y \in memtable[s] :
            \E z \in memtable'[s] \union r.pending[s].samples :
                z.timestamp_ms = y.timestamp_ms /\ z.seq_no >= y.seq_no
    BY <1>2
  <1>4. \A s \in Series :
            task[a].pending[s].samples \subseteq r.pending[s].samples \union Stored(s)'
    BY <1>1
  <1>5. \A s \in Series : Written(r.pending[s]) => r.pending[s].samples \subseteq Stored(s)'
    BY <1>1
  <1>6. \A s \in Pending(r) : Written(r.pending[s]) OBVIOUS
  <1> QED BY <1>3, <1>4, <1>5, <1>6, ThreadKeeps

\* A thread that keeps its flush as it is.
LEMMA CarriesOn ==
    ASSUME StorageInv, StorageInv', HandoverInv, NEW a \in Actors, NEW r \in Task,
           task' = [task EXCEPT ![a] = r], UNCHANGED <<memtable, accepted, restarted>>,
           \A s \in Series : /\ r.pending[s].samples = task[a].pending[s].samples
                             /\ r.pending[s].size_bytes = task[a].pending[s].size_bytes,
           r.pc \in {"evict"} \union EvictingPCs =>
               \A s \in Pending(task[a]) : Written(task[a].pending[s]),
           \A s \in Series : Stored(s) \subseteq Stored(s)'
    PROVE  NoSilentLoss' /\ WrittenKept' /\ FlushedWritten' /\ NoneDropped
  <1>1. ASSUME NEW s \in Series, NEW y \in memtable[s] PROVE y.seq_no >= y.seq_no
    <2>1. y.seq_no \in Nat BY DEF StorageInv, TypeOK, BufferedSample
    <2> QED BY <2>1
  <1>2. \A s \in Series : \A y \in memtable[s] :
            \E z \in memtable'[s] \union r.pending[s].samples :
                z.timestamp_ms = y.timestamp_ms /\ z.seq_no >= y.seq_no
    BY <1>1
  <1>3. \A s \in Series : Written(r.pending[s]) => r.pending[s].samples \subseteq Stored(s)'
    BY DEF HandoverInv, WrittenKept, Written
  <1>4. r.pc \in {"evict"} \union EvictingPCs => \A s \in Pending(r) : Written(r.pending[s])
    BY DEF Pending, Written
  <1> QED BY <1>2, <1>3, <1>4, ThreadKeeps

\* A thread whose call ends: it has written its flush, or has stored it otherwise.
LEMMA Finishes ==
    ASSUME StorageInv, StorageInv', HandoverInv, NEW a \in Actors,
           task' = [task EXCEPT ![a] = IdleTask], UNCHANGED <<memtable, accepted, restarted>>,
           \A s \in Series : \/ Written(task[a].pending[s])
                             \/ task[a].pending[s].samples \subseteq Stored(s)',
           \A s \in Series : Stored(s) \subseteq Stored(s)'
    PROVE  NoSilentLoss' /\ WrittenKept' /\ FlushedWritten' /\ NoneDropped
  <1>1. ASSUME NEW s \in Series, NEW y \in memtable[s] PROVE y.seq_no >= y.seq_no
    <2>1. y.seq_no \in Nat BY DEF StorageInv, TypeOK, BufferedSample
    <2> QED BY <2>1
  <1>2. \A s \in Series : \A y \in memtable[s] :
            \E z \in memtable'[s] \union IdleTask.pending[s].samples :
                z.timestamp_ms = y.timestamp_ms /\ z.seq_no >= y.seq_no
    BY <1>1
  <1>3. \A s \in Series :
            task[a].pending[s].samples \subseteq IdleTask.pending[s].samples \union Stored(s)'
    BY DEF HandoverInv, WrittenKept
  <1>4. \A s \in Series : ~Written(IdleTask.pending[s]) BY IdlePending
  <1>5. Pending(IdleTask) = {} /\ IdleTask \in Task BY IdleTaskType
  <1> QED BY <1>2, <1>3, <1>4, <1>5, ThreadKeeps

\* A step that leaves the files and the fate of samples alone stores what was stored.
LEMMA SameStored ==
    ASSUME UNCHANGED <<files, evicted, failed>>
    PROVE  \A s \in Series : Stored(s) \subseteq Stored(s)'
  BY DEF Stored, OnDisk, FilesOf

\* A step that adds nothing to memtables.
LEMMA MemoryKept ==
    ASSUME MemoryOK, clock' = clock, status' = "down" => status = "down",
           \A s \in Series : memtable'[s] \subseteq memtable[s]
    PROVE  MemoryOK'
  BY DEF MemoryOK

\* A loop over series keeps the flush until there is none.
LEMMA VisitedPending ==
    ASSUME NEW q \in Task, NEW s \in Series, NEW pc, NEW v, v = Visited(q, s, pc, Pending(q))
    PROVE  /\ v.pc \in {q.pc, pc, "idle"}
           /\ \A x \in Series : /\ v.pending[x].samples = q.pending[x].samples
                                /\ Written(v.pending[x]) => Written(q.pending[x])
           /\ Pending(v) # {} => v.pending = q.pending
  <1>1. CASE q.todo # {s}
    <2>1. v = [q EXCEPT !.todo = q.todo \ {s}, !.current = None] BY <1>1 DEF Visited
    <2>2. v.pc = q.pc /\ v.pending = q.pending BY <2>1 DEF Task
    <2> QED BY <2>2
  <1>2. CASE q.todo = {s} /\ Pending(q) = {}
    <2>1. v = IdleTask BY <1>2 DEF Visited
    <2> QED BY <2>1, <1>2, IdleTaskType, IdlePending DEF Pending
  <1>3. CASE q.todo = {s} /\ Pending(q) # {}
    <2>1. v = [q EXCEPT !.pc = pc, !.todo = Pending(q), !.current = None] BY <1>3 DEF Visited
    <2>2. v.pc = pc /\ v.pending = q.pending BY <2>1 DEF Task
    <2> QED BY <2>2
  <1> QED BY <1>1, <1>2, <1>3

\* Of the writes of one timestamp the last one stays.
LEMMA LastWriteStays ==
    ASSUME NEW S \in SUBSET BufferedSample, NEW n \in Nat, \A x \in S : x.seq_no <= n, NEW y \in S
    PROVE  \E z \in LastWrites(S) : z.timestamp_ms = y.timestamp_ms /\ z.seq_no >= y.seq_no
  <1> DEFINE W == {x \in S : x.timestamp_ms = y.timestamp_ms}
             T == {x.seq_no : x \in W}
  <1>1. T \in SUBSET Int /\ T # {} /\ \A i \in T : i <= n /\ 0 <= i BY DEF BufferedSample
  <1>2. \A x \in W : x.seq_no \in T OBVIOUS
  <1>3. \A i \in T : \E x \in W : x.seq_no = i OBVIOUS
  <1>4. y \in W OBVIOUS
  <1> HIDE DEF T
  <1>5. Max(T) \in T /\ \A i \in T : i <= Max(T) BY <1>1, MaxBounded
  <1>6. PICK z \in W : z.seq_no = Max(T) BY <1>3, <1>5
  <1>7. \A x \in W : x.seq_no <= z.seq_no BY <1>2, <1>5, <1>6
  <1>8. z \in LastWrites(S) BY <1>7 DEF LastWrites
  <1>9. y.seq_no <= z.seq_no /\ y.seq_no \in Nat /\ z.seq_no \in Nat
    BY <1>4, <1>7 DEF BufferedSample
  <1>10. z.seq_no >= y.seq_no BY <1>9
  <1> QED BY <1>8, <1>10

-----------------------------------------------------------------------------
(* Every action keeps the invariant: clients and appends.                  *)

\* A registration starts with an empty memtable, and it had no other.
LEMMA RegisterHandover ==
    ASSUME StorageInv, StorageInv', HandoverInv, NEW s \in Series, NEW type \in SeriesTypes,
           NEW limit \in Limits, NEW ok \in BOOLEAN, Register(s, type, limit, ok)
    PROVE  HandoverInv' /\ NoneDropped
  <1>1. TypeOK /\ SeriesOK BY DEF StorageInv
  <1>2. /\ status = "serving" /\ s \notin series
        /\ memtable' \in {memtable, [memtable EXCEPT ![s] = {}]}
        /\ UNCHANGED <<status, files, tmps, dirs, task, accepted, evicted, restarted, failed, clock,
                       crashes>>
    BY DEF Register, CanRegister, history
  <1>3. memtable' = memtable BY <1>1, <1>2, Zenon DEF SeriesOK, TypeOK
  <1>4. NoSilentLoss' /\ WrittenKept' /\ FlushedWritten' /\ NoneDropped
    BY <1>2, <1>3 DEF HandoverInv, NoSilentLoss, WrittenKept, FlushedWritten, InFlight, OnDisk,
                      FilesOf, Stored, Pending, NoneDropped, Drained
  <1>5. MemoryOK' BY <1>2, <1>3, MemoryKept DEF HandoverInv
  <1> QED BY <1>4, <1>5 DEF HandoverInv

\* A thread that enters flush_serieses has drained nothing yet.
LEMMA FlushingPending == \A ids \in SUBSET Series : Flushing(ids) \in Task /\ Pending(Flushing(ids)) = {}
  <1> SUFFICES ASSUME NEW ids \in SUBSET Series
               PROVE  Flushing(ids) \in Task /\ Pending(Flushing(ids)) = {}
    OBVIOUS
  <1>1. Flushing(ids) \in Task BY FlushingOK
  <1>2. Flushing(ids).pending = IdleTask.pending BY IdleTaskType DEF Flushing, Task
  <1> QED BY <1>1, <1>2, IdlePending DEF Pending

\* An append or a flush arrives.
LEMMA BeginHandover ==
    ASSUME StorageInv, StorageInv', HandoverInv, NEW t \in Tasks,
           \/ \E batch \in Batches : BeginAppend(t, batch)
           \/ \E ids \in (SUBSET series) \ {{}} : BeginFlush(t, ids)
    PROVE  HandoverInv' /\ NoneDropped
  <1>1. TypeOK /\ t \in Actors /\ TaskOK(task[t], series) BY DEF StorageInv, Actors
  <1>2. /\ status = "serving" /\ task[t].pc = "idle"
        /\ UNCHANGED <<status, memory, disk, history, bounds>>
    BY Zenon DEF BeginAppend, BeginFlush, At
  <1>3. PICK r \in Task : task' = [task EXCEPT ![t] = r] /\ Pending(r) = {}
    <2>1. ASSUME NEW batch \in Batches, BeginAppend(t, batch)
          PROVE  \E r \in Task : task' = [task EXCEPT ![t] = r] /\ Pending(r) = {}
      <3> DEFINE r == [IdleTask EXCEPT !.pc = "append", !.batch = batch,
                                       !.todo = {batch[i].data_id : i \in DOMAIN batch}]
      <3>1. task' = [task EXCEPT ![t] = r] BY <2>1, Zenon DEF BeginAppend
      <3>2. r.pending = IdleTask.pending BY IdleTaskType DEF Task
      <3>3. r = task'[t] BY <3>1, <1>1 DEF TypeOK
      <3>4. r \in Task BY <3>3, <1>1 DEF StorageInv, TypeOK
      <3> HIDE DEF r
      <3>5. Pending(r) = {} BY <3>2, IdlePending DEF Pending
      <3> QED BY <3>1, <3>4, <3>5
    <2>2. ASSUME NEW ids \in (SUBSET series) \ {{}}, BeginFlush(t, ids)
          PROVE  \E r \in Task : task' = [task EXCEPT ![t] = r] /\ Pending(r) = {}
      <3>1. ids \in SUBSET Series BY <1>1 DEF TypeOK
      <3> QED BY <2>2, <3>1, FlushingPending DEF BeginFlush
    <2> QED BY <2>1, <2>2
  <1>4. Pending(task[t]) = {} BY <1>1, <1>2 DEF TaskOK
  <1>5. UNCHANGED <<memtable, accepted, restarted, files, evicted, failed, clock, status>>
    BY <1>2 DEF memory, disk, history, bounds
  <1>6. \A s \in Series : Stored(s) \subseteq Stored(s)' BY <1>5, SameStored
  <1>7. NoSilentLoss' /\ WrittenKept' /\ FlushedWritten' /\ NoneDropped
    BY <1>1, <1>3, <1>4, <1>5, <1>6, NothingPending
  <1>8. MemoryOK' BY <1>5, MemoryKept DEF HandoverInv
  <1> QED BY <1>7, <1>8 DEF HandoverInv

\* What an append accepts is in a memtable, under numbers not given out before.
LEMMA AppendHandover ==
    ASSUME StorageInv, StorageInv', HandoverInv, NEW t \in Tasks, NEW s \in Series,
           AppendGroup(t, s)
    PROVE  HandoverInv' /\ NoneDropped
  <1> DEFINE batch == task[t].batch
             taken == {i \in DOMAIN batch : batch[i].data_id = s /\ Accepts(batch[i])}
             new == {[timestamp_ms |-> batch[i].timestamp_ms, seq_no |-> clock + i] : i \in taken}
             full == taken # {} /\ Cardinality(memtable[s] \union new) >= FlushThresholdCount
             to_flush == task[t].to_flush \union (IF full THEN {s} ELSE {})
             rest == [task[t] EXCEPT !.todo = task[t].todo \ {s}, !.to_flush = to_flush]
             r == IF task[t].todo = {s} THEN Flushing(to_flush) ELSE rest
  <1>1. /\ TypeOK /\ TypeOK' /\ SeriesOK /\ t \in Actors /\ task[t] \in Task
        /\ TaskOK(task[t], series)
    BY DEF StorageInv, TypeOK, Actors
  <1>2. /\ task' = [task EXCEPT ![t] = r]
        /\ memtable' = [memtable EXCEPT ![s] = @ \union new]
        /\ accepted' = [accepted EXCEPT ![s] = @ \union new]
        /\ clock' = clock + Len(batch) /\ task[t].pc = "append"
        /\ UNCHANGED <<status, files, evicted, restarted, failed>>
    BY DEF AppendGroup, At, disk
  <1>3. r = task'[t] BY <1>1, <1>2 DEF TypeOK
  <1>4. r \in Task BY <1>1, <1>3 DEF TypeOK
  <1>5. Pending(task[t]) = {} BY <1>1, <1>2 DEF TaskOK
  <1>6. Pending(r) = {}
    <2>1. CASE task[t].todo = {s}
      <3>1. r.pending = IdleTask.pending BY <2>1, IdleTaskType DEF Flushing, Task
      <3> HIDE DEF r
      <3> QED BY <3>1, IdlePending DEF Pending
    <2>2. CASE task[t].todo # {s}
      <3>1. r.pending = task[t].pending BY <2>2, <1>1 DEF Task
      <3> HIDE DEF r
      <3> QED BY <3>1, <1>5 DEF Pending
    <2> QED BY <2>1, <2>2, Zenon
  <1>7. batch \in Seq(Sample) BY <1>1 DEF Task
  <1>8. clock \in Nat /\ \A i \in DOMAIN batch : i \in Nat /\ i <= Len(batch) BY <1>1, <1>7 DEF TypeOK
  <1>9. \A x \in new : x.seq_no <= clock' BY <1>2, <1>8
  <1>10. status # "down" BY <1>1, <1>2, RunningStatus DEF RunsWhile
  <1> HIDE DEF r, new
  <1>11. \A x \in Series : /\ memtable[x] \subseteq memtable'[x]
                           /\ accepted'[x] \subseteq accepted[x] \union memtable'[x]
    BY <1>1, <1>2 DEF TypeOK
  <1>12. \A x \in Series : Stored(x) \subseteq Stored(x)' BY <1>2, SameStored
  <1>13. NoSilentLoss' /\ WrittenKept' /\ FlushedWritten' /\ NoneDropped
    BY <1>1, <1>2, <1>4, <1>5, <1>6, <1>11, <1>12, NothingPending
  <1>14. MemoryOK'
    <2>1. Len(batch) \in Nat BY <1>7
    <2>2. ASSUME NEW x \in Series, NEW y \in memtable'[x] PROVE y.seq_no <= clock'
      <3>1. CASE y \in memtable[x]
        <4>1. y.seq_no <= clock /\ y.seq_no \in Nat
          BY <3>1, <1>1 DEF HandoverInv, MemoryOK, TypeOK, BufferedSample
        <4> HIDE DEF batch
        <4> QED BY <4>1, <2>1, <1>2, <1>8
      <3>2. CASE y \in new BY <3>2, <1>9
      <3> QED BY <3>1, <3>2, <2>2, <1>1, <1>2 DEF TypeOK
    <2> QED BY <2>2, <1>2, <1>10 DEF MemoryOK
  <1> QED BY <1>13, <1>14 DEF HandoverInv

-----------------------------------------------------------------------------
(* Flushes.                                                                *)

\* A flush takes the last writes of a memtable and leaves the earlier ones of the
\* same timestamps to be forgotten.
LEMMA PrepareHandover ==
    ASSUME StorageInv, StorageInv', HandoverInv, NEW t \in Tasks, NEW s \in Series, Prepare(t, s)
    PROVE  HandoverInv' /\ NoneDropped
  <1> DEFINE q == [task[t] EXCEPT !.pending[s].samples = LastWrites(memtable[s])]
             r == Visited(q, s, "alloc", Pending(q))
  <1>1. /\ TypeOK /\ TypeOK' /\ t \in Actors /\ task[t] \in Task /\ TaskOK(task[t], series)
    BY DEF StorageInv, TypeOK, Actors
  <1>2. /\ task' = [task EXCEPT ![t] = r]
        /\ memtable' = [memtable EXCEPT ![s] = {}] /\ task[t].pc = "prepare" /\ s \in task[t].todo
        /\ UNCHANGED <<status, accepted, evicted, restarted, failed, files, clock>>
    BY DEF Prepare, At, history, disk, bounds
  <1>3. r \in Task
    <2>1. r = task'[t] BY <1>1, <1>2 DEF TypeOK
    <2> QED BY <2>1, <1>1 DEF TypeOK
  <1>4. LastWrites(memtable[s]) \in SUBSET BufferedSample BY <1>1, LastWritesType DEF TypeOK
  <1>5. q \in Task /\ q.pc = "prepare" BY <1>1, <1>2, <1>4 DEF Task, PendingFlush
  <1>6. /\ q.pending[s].samples = LastWrites(memtable[s])
        /\ \A x \in Series : q.pending[x].size_bytes = task[t].pending[x].size_bytes
        /\ \A x \in Series \ {s} : q.pending[x] = task[t].pending[x]
    BY <1>1 DEF Task, PendingFlush
  <1> HIDE DEF q
  <1>7. /\ r.pc \in {"prepare", "alloc", "idle"}
        /\ \A x \in Series : /\ r.pending[x].samples = q.pending[x].samples
                             /\ Written(r.pending[x]) => Written(q.pending[x])
    BY <1>5, VisitedPending
  <1> HIDE DEF r
  <1>8. \A x \in Series : ~Written(r.pending[x])
    BY <1>1, <1>2, <1>6, <1>7 DEF TaskOK, Written
  <1>9. ASSUME NEW x \in Series, NEW y \in memtable[x]
        PROVE  \E z \in memtable'[x] \union r.pending[x].samples :
                   z.timestamp_ms = y.timestamp_ms /\ z.seq_no >= y.seq_no
    <2>1. CASE x = s
      <3>1. memtable[s] \in SUBSET BufferedSample /\ clock \in Nat BY <1>1 DEF TypeOK
      <3>2. \A z \in memtable[s] : z.seq_no <= clock BY DEF HandoverInv, MemoryOK
      <3>3. \E z \in LastWrites(memtable[s]) : z.timestamp_ms = y.timestamp_ms /\ z.seq_no >= y.seq_no
        BY <1>9, <2>1, <3>1, <3>2, LastWriteStays
      <3> QED BY <2>1, <3>3, <1>6, <1>7
    <2>2. CASE x # s
      <3>1. y \in memtable'[x] BY <2>2, <1>1, <1>2 DEF TypeOK
      <3>2. y.seq_no >= y.seq_no
        <4>1. y.seq_no \in Nat BY <1>1 DEF TypeOK, BufferedSample
        <4> QED BY <4>1
      <3> QED BY <3>1, <3>2
    <2> QED BY <2>1, <2>2
  <1>10. \A x \in Series : Stored(x) \subseteq Stored(x)' BY <1>2, SameStored
  <1>11. ASSUME NEW x \in Series
         PROVE  task[t].pending[x].samples \subseteq r.pending[x].samples \union Stored(x)'
    <2>1. CASE x = s BY <2>1, <1>1, <1>2 DEF TaskOK, Pending
    <2>2. CASE x # s BY <2>2, <1>6, <1>7
    <2> QED BY <2>1, <2>2
  <1>12. \A x \in Series : accepted'[x] \subseteq accepted[x] \union memtable'[x] BY <1>2
  <1>13. NoSilentLoss' /\ WrittenKept' /\ FlushedWritten' /\ NoneDropped
    <2>1. ~(r.pc \in {"evict"} \union EvictingPCs) BY <1>7 DEF EvictingPCs
    <2> QED BY <1>1, <1>2, <1>3, <1>8, <1>9, <1>10, <1>11, <1>12, <2>1, ThreadKeeps
  <1>14. MemoryOK'
    <2>1. \A x \in Series : memtable'[x] \subseteq memtable[x] BY <1>1, <1>2 DEF TypeOK
    <2> QED BY <2>1, <1>2, MemoryKept DEF HandoverInv
  <1> QED BY <1>13, <1>14 DEF HandoverInv

\* Segment ids change nothing in what a flush carries.
LEMMA AllocHandover ==
    ASSUME StorageInv, StorageInv', HandoverInv, NEW t \in Tasks, Alloc(t)
    PROVE  HandoverInv' /\ NoneDropped
  <1> DEFINE P == Pending(task[t])
             flush(s) == [task[t].pending[s] EXCEPT !.segment_id = manifest[s].next_segment_id]
             pending == [s \in Series |-> IF s \in P THEN flush(s) ELSE task[t].pending[s]]
             r == [task[t] EXCEPT !.pc = "mkdir", !.pending = pending]
  <1>1. TypeOK /\ TypeOK' /\ t \in Actors /\ task[t] \in Task BY DEF StorageInv, TypeOK, Actors
  <1>2. /\ task' = [task EXCEPT ![t] = r]
        /\ UNCHANGED <<status, memtable, accepted, evicted, restarted, failed, files, clock>>
    BY DEF Alloc, history, disk, bounds
  <1>3. r = task'[t] BY <1>1, <1>2 DEF TypeOK
  <1>4. r \in Task BY <1>1, <1>3 DEF TypeOK
  <1>5. r.pc = "mkdir" /\ r.pending = pending BY <1>1 DEF Task
  <1>6. \A s \in Series : /\ pending[s].samples = task[t].pending[s].samples
                          /\ pending[s].size_bytes = task[t].pending[s].size_bytes
    BY <1>1 DEF Task, PendingFlush
  <1> HIDE DEF pending, r
  <1>7. \A s \in Series : Stored(s) \subseteq Stored(s)' BY <1>2, SameStored
  <1>8. ~(r.pc \in {"evict"} \union EvictingPCs) BY <1>5 DEF EvictingPCs
  <1>9. NoSilentLoss' /\ WrittenKept' /\ FlushedWritten' /\ NoneDropped
    BY <1>1, <1>2, <1>4, <1>5, <1>6, <1>7, <1>8, CarriesOn
  <1>10. MemoryOK' BY <1>2, MemoryKept DEF HandoverInv
  <1> QED BY <1>9, <1>10 DEF HandoverInv

\* A thread that moves to another place, and may change what it evicts or works on.
LEMMA MovesOn ==
    ASSUME StorageInv, StorageInv', HandoverInv, NEW a \in Actors, NEW r,
           task' = [task EXCEPT ![a] = r], r.pending = task[a].pending,
           UNCHANGED <<memtable, accepted, restarted, clock>>,
           status' = "down" => status = "down",
           r.pc \in {"evict"} \union EvictingPCs =>
               \A s \in Pending(task[a]) : Written(task[a].pending[s]),
           \A s \in Series : Stored(s) \subseteq Stored(s)'
    PROVE  HandoverInv' /\ NoneDropped
  <1>1. r \in Task
    <2>1. r = task'[a] BY DEF StorageInv, TypeOK
    <2> QED BY <2>1 DEF StorageInv, TypeOK
  <1>2. NoSilentLoss' /\ WrittenKept' /\ FlushedWritten' /\ NoneDropped BY <1>1, CarriesOn
  <1>3. MemoryOK' BY MemoryKept DEF HandoverInv
  <1> QED BY <1>2, <1>3 DEF HandoverInv

\* A call that ends.
LEMMA EndsCall ==
    ASSUME StorageInv, StorageInv', HandoverInv, NEW a \in Actors,
           task' = [task EXCEPT ![a] = IdleTask],
           UNCHANGED <<memtable, accepted, restarted, clock>>,
           status' = "down" => status = "down",
           \A s \in Series : \/ Written(task[a].pending[s])
                             \/ task[a].pending[s].samples \subseteq Stored(s)',
           \A s \in Series : Stored(s) \subseteq Stored(s)'
    PROVE  HandoverInv' /\ NoneDropped
  <1>1. NoSilentLoss' /\ WrittenKept' /\ FlushedWritten' /\ NoneDropped BY Finishes
  <1>2. MemoryOK' BY MemoryKept DEF HandoverInv
  <1> QED BY <1>1, <1>2 DEF HandoverInv

\* write_segment_file before its rename.
LEMMA CreateHandover ==
    ASSUME StorageInv, StorageInv', HandoverInv, NEW t \in Tasks, NEW s \in Series,
           Mkdir(t, s) \/ CreateTmp(t, s)
    PROVE  HandoverInv' /\ NoneDropped
  <1>1. t \in Actors /\ task[t] \in Task BY DEF StorageInv, TypeOK, Actors
  <1>2. UNCHANGED <<status, memtable, accepted, evicted, restarted, failed, files, clock>>
    BY DEF Mkdir, CreateTmp, memory, history, bounds
  <1>3. \A x \in Series : Stored(x) \subseteq Stored(x)' BY <1>2, SameStored
  <1>4. PICK r : /\ task' = [task EXCEPT ![t] = r] /\ r.pending = task[t].pending
                 /\ r.pc \in {"create", "rename"}
    <2>1. CASE Mkdir(t, s)
      <3> DEFINE r == [task[t] EXCEPT !.pc = "create", !.current = s]
      <3>1. task' = [task EXCEPT ![t] = r] BY <2>1 DEF Mkdir
      <3>2. r.pending = task[t].pending /\ r.pc = "create" BY <1>1 DEF Task
      <3> QED BY <3>1, <3>2
    <2>2. CASE CreateTmp(t, s)
      <3> DEFINE r == [task[t] EXCEPT !.pc = "rename"]
      <3>1. task' = [task EXCEPT ![t] = r] BY <2>2 DEF CreateTmp, GoTo
      <3>2. r.pending = task[t].pending /\ r.pc = "rename" BY <1>1 DEF Task
      <3> QED BY <3>1, <3>2
    <2> QED BY <2>1, <2>2
  <1>5. ~(r.pc \in {"evict"} \union EvictingPCs) BY <1>4 DEF EvictingPCs
  <1> QED BY <1>1, <1>2, <1>3, <1>4, <1>5, MovesOn

\* What a flush that gives up has not written is on record as lost.
LEMMA AbortStores ==
    ASSUME StorageInv, NEW t \in Tasks, NEW done \in SUBSET Series, Abort(t, done),
           \A s \in Series : OnDisk(s) \subseteq OnDisk(s)',
           \A s \in done : task[t].pending[s].samples \subseteq OnDisk(s)', evicted' = evicted
    PROVE  /\ \A s \in Series : \/ Written(task[t].pending[s])
                                \/ task[t].pending[s].samples \subseteq Stored(s)'
           /\ \A s \in Series : Stored(s) \subseteq Stored(s)'
  <1>1. \A s \in Series : failed'[s] =
            IF s \in done \/ Written(task[t].pending[s]) THEN failed[s]
            ELSE failed[s] \union task[t].pending[s].samples
    BY DEF Abort
  <1>2. \A s \in Series : failed[s] \subseteq failed'[s] BY <1>1
  <1> QED BY <1>1, <1>2 DEF Stored

\* write_segment_file fails before its rename: the flush ends.
LEMMA WriteErrorHandover ==
    ASSUME StorageInv, StorageInv', HandoverInv, NEW t \in Tasks, NEW s \in Series,
           CreateTmpNoDir(t, s) \/ WriteFails(t, s)
    PROVE  HandoverInv' /\ NoneDropped
  <1>1. /\ Abort(t, {}) /\ t \in Actors
        /\ UNCHANGED <<status, memtable, accepted, evicted, restarted, files, clock>>
    BY DEF CreateTmpNoDir, WriteFails, memory, disk, bounds, Actors
  <1>2. \A x \in Series : OnDisk(x) \subseteq OnDisk(x)' BY <1>1 DEF OnDisk, FilesOf
  <1>3. /\ \A x \in Series : \/ Written(task[t].pending[x])
                             \/ task[t].pending[x].samples \subseteq Stored(x)'
        /\ \A x \in Series : Stored(x) \subseteq Stored(x)'
    BY <1>1, <1>2, AbortStores
  <1>4. task' = [task EXCEPT ![t] = IdleTask] BY <1>1 DEF Abort
  <1> QED BY <1>1, <1>3, <1>4, EndsCall

\* The rename replaces no file: what the flush carries of a series is on disk, and so
\* is everything that was.
LEMMA RenameHandover ==
    ASSUME StorageInv, StorageInv', IdsInv, HandoverInv, NEW t \in Tasks, NEW s \in Series,
           NEW size \in SegmentSizes, NEW ok \in BOOLEAN, Rename(t, s, size, ok)
    PROVE  HandoverInv' /\ NoneDropped
  <1> DEFINE flush == task[t].pending[s]
             file == [data_id |-> s, segment_id |-> flush.segment_id,
                      series_type |-> manifest[s].series_type,
                      samples |-> flush.samples, size_bytes |-> size]
             q == [task[t] EXCEPT !.pending[s].size_bytes = size, !.pc = "mkdir"]
             r == Visited(q, s, "commit", Pending(q))
  <1>1. TypeOK /\ TypeOK' /\ t \in Actors BY DEF StorageInv, Actors
  <1>2. /\ Working(t, "rename", s)
        /\ files' = (files \ FileAt(s, flush.segment_id)) \union {file}
        /\ ok => task' = [task EXCEPT ![t] = r] /\ UNCHANGED failed
        /\ ~ok => Abort(t, {s})
        /\ UNCHANGED <<status, memtable, accepted, evicted, restarted, clock>>
    BY DEF Rename, memory
  <1>3. task[t] \in Task /\ s \in task[t].todo BY <1>2, RenameFacts
  <1>4. FileAt(s, flush.segment_id) = {}
    BY <1>1, <1>2, <1>3 DEF IdsInv, IdsUnused, Writing, NextId, Working, WritingPCs
  <1>5. files \subseteq files' /\ file \in files' BY <1>2, <1>4
  <1>6. file.samples = flush.samples /\ file.data_id = s OBVIOUS
  <1> HIDE DEF file
  <1>7. /\ \A x \in Series : OnDisk(x) \subseteq OnDisk(x)'
        /\ flush.samples \subseteq OnDisk(s)'
    BY <1>5, <1>6 DEF OnDisk, FilesOf
  <1>8. CASE ~ok
    <2>1. Abort(t, {s}) /\ task' = [task EXCEPT ![t] = IdleTask] BY <1>2, <1>8 DEF Abort
    <2>2. /\ \A x \in Series : \/ Written(task[t].pending[x])
                               \/ task[t].pending[x].samples \subseteq Stored(x)'
          /\ \A x \in Series : Stored(x) \subseteq Stored(x)'
      BY <1>2, <1>7, <2>1, AbortStores
    <2> QED BY <1>1, <1>2, <2>1, <2>2, EndsCall
  <1>9. CASE ok
    <2>1. task' = [task EXCEPT ![t] = r] /\ UNCHANGED failed BY <1>2, <1>9
    <2>2. r \in Task
      <3>1. r = task'[t] BY <1>1, <2>1 DEF TypeOK
      <3> QED BY <3>1, <1>1 DEF TypeOK
    <2>3. size \in 0 .. MaxU64 BY StorageAssumption
    <2>4. q \in Task /\ q.pc = "mkdir" BY <1>3, <2>3, Zenon DEF Task, PendingFlush, PCs
    <2>5. /\ \A x \in Series : q.pending[x].samples = task[t].pending[x].samples
          /\ \A x \in Series \ {s} : q.pending[x] = task[t].pending[x]
      BY <1>3 DEF Task, PendingFlush
    <2> HIDE DEF q
    <2>6. /\ r.pc \in {"mkdir", "commit", "idle"}
          /\ \A x \in Series : /\ r.pending[x].samples = q.pending[x].samples
                               /\ Written(r.pending[x]) => Written(q.pending[x])
      BY <2>4, VisitedPending
    <2> HIDE DEF r
    <2>7. \A x \in Series : Stored(x) \subseteq Stored(x)' BY <1>2, <1>7, <2>1 DEF Stored
    <2>8. ASSUME NEW x \in Series, Written(r.pending[x])
          PROVE  r.pending[x].samples \subseteq Stored(x)'
      <3>1. CASE x = s BY <3>1, <1>7, <2>5, <2>6 DEF Stored
      <3>2. CASE x # s
        <4>1. Written(task[t].pending[x]) BY <3>2, <2>5, <2>6, <2>8
        <4>2. task[t].pending[x].samples \subseteq Stored(x)
          BY <4>1, <1>1 DEF HandoverInv, WrittenKept
        <4> QED BY <4>2, <2>5, <2>6, <2>7
      <3> QED BY <3>1, <3>2
    <2>9. \A x \in Series :
              task[t].pending[x].samples \subseteq r.pending[x].samples \union Stored(x)'
      BY <2>5, <2>6
    <2>10. ASSUME NEW x \in Series, NEW y \in memtable[x]
           PROVE  \E z \in memtable'[x] \union r.pending[x].samples :
                      z.timestamp_ms = y.timestamp_ms /\ z.seq_no >= y.seq_no
      <3>1. y.seq_no \in Nat BY <1>1 DEF TypeOK, BufferedSample
      <3>2. y.seq_no >= y.seq_no BY <3>1
      <3>3. y \in memtable'[x] BY <1>2
      <3> QED BY <3>2, <3>3
    <2>11. ~(r.pc \in {"evict"} \union EvictingPCs) BY <2>6 DEF EvictingPCs
    <2>12. NoSilentLoss' /\ WrittenKept' /\ FlushedWritten' /\ NoneDropped
      <3>1. \A x \in Series : accepted'[x] \subseteq accepted[x] \union memtable'[x] BY <1>2
      <3>2. \A x \in Series : Written(r.pending[x]) => r.pending[x].samples \subseteq Stored(x)'
        BY <2>8
      <3>3. \A x \in Series : \A y \in memtable[x] :
                \E z \in memtable'[x] \union r.pending[x].samples :
                    z.timestamp_ms = y.timestamp_ms /\ z.seq_no >= y.seq_no
        BY <2>10
      <3>4. restarted' = restarted BY <1>2
      <3> QED BY <1>1, <2>1, <2>2, <2>7, <2>9, <2>11, <3>1, <3>2, <3>3, <3>4, ThreadKeeps
    <2>13. MemoryOK' BY <1>2, MemoryKept DEF HandoverInv
    <2> QED BY <2>12, <2>13 DEF HandoverInv
  <1> QED BY <1>8, <1>9

\* The commit and the advance come after every file of the flush.
LEMMA CommitHandover ==
    ASSUME StorageInv, StorageInv', HandoverInv, NEW t \in Tasks, NEW ok \in BOOLEAN, Commit(t, ok)
    PROVE  HandoverInv' /\ NoneDropped
  <1> DEFINE r == [task[t] EXCEPT !.pc = "advance"]
  <1>1. t \in Actors /\ task[t] \in Task /\ TaskOK(task[t], series)
    BY DEF StorageInv, TypeOK, Actors
  <1>2. /\ task[t].pc = "commit"
        /\ task' = [task EXCEPT ![t] = IF ok THEN r ELSE IdleTask]
        /\ UNCHANGED <<status, memtable, accepted, evicted, restarted, failed, files, clock>>
    BY DEF Commit, GoTo, At, history
  <1>3. \A s \in Series : Stored(s) \subseteq Stored(s)' BY <1>2, SameStored
  <1>4. r.pending = task[t].pending /\ r.pc = "advance" BY <1>1 DEF Task
  <1>5. \A s \in Pending(task[t]) : Written(task[t].pending[s]) BY <1>1, <1>2 DEF TaskOK
  <1> HIDE DEF r
  <1>6. CASE ok BY <1>1, <1>2, <1>3, <1>4, <1>5, <1>6, MovesOn
  <1>7. CASE ~ok
    <2>1. \A s \in Series : \/ Written(task[t].pending[s])
                            \/ task[t].pending[s].samples \subseteq Stored(s)'
      BY <1>5 DEF Pending
    <2> QED BY <1>1, <1>2, <1>3, <1>7, <2>1, EndsCall
  <1> QED BY <1>6, <1>7

\* flushed_max_ts is raised.
LEMMA AdvanceHandover ==
    ASSUME StorageInv, StorageInv', HandoverInv, NEW t \in Tasks, NEW s \in Series, Advance(t, s)
    PROVE  HandoverInv' /\ NoneDropped
  <1> DEFINE r == Visited(task[t], s, "evict", Pending(task[t]))
  <1>1. TypeOK' /\ t \in Actors /\ task[t] \in Task /\ TaskOK(task[t], series)
    BY DEF StorageInv, TypeOK, Actors
  <1>2. /\ task[t].pc = "advance" /\ s \in task[t].todo /\ task' = [task EXCEPT ![t] = r]
        /\ UNCHANGED <<status, memtable, accepted, evicted, restarted, failed, files, clock>>
    BY DEF Advance, At, history, disk, bounds
  <1>3. \A x \in Series : Stored(x) \subseteq Stored(x)' BY <1>2, SameStored
  <1>4. Pending(task[t]) # {} /\ \A x \in Pending(task[t]) : Written(task[t].pending[x])
    BY <1>1, <1>2 DEF TaskOK
  <1>5. /\ \A x \in Series : r.pending[x].samples = task[t].pending[x].samples
        /\ Pending(r) # {} => r.pending = task[t].pending
    BY <1>1, VisitedPending
  <1> HIDE DEF r
  <1>6. Pending(r) = Pending(task[t]) BY <1>5 DEF Pending
  <1>7. r.pending = task[t].pending BY <1>4, <1>5, <1>6
  <1> QED BY <1>1, <1>2, <1>3, <1>4, <1>7, MovesOn

-----------------------------------------------------------------------------
(* Evictions.                                                              *)

\* An eviction removes segments whose samples it counts as evicted; the flush that
\* called it has written all it drained.
LEMMA EvictHandover ==
    ASSUME StorageInv, StorageInv', HandoverInv, NEW a \in Actors, EvictStep(a) \/ EvictError(a)
    PROVE  HandoverInv' /\ NoneDropped
  <1>1. TypeOK /\ task[a] \in Task BY DEF StorageInv, TypeOK
  <1>2. PICK s \in Series :
            \/ EvictChoose(a, s) \/ EvictDone(a, s) \/ EvictRemove(a, s) \/ EvictRemoveFails(a, s)
            \/ DirCheck(a, s) \/ DirCheckFails(a, s) \/ Rmdir(a, s)
            \/ \E ok \in BOOLEAN : EvictUpdate(a, s, ok)
    BY DEF EvictStep, EvictError
  <1>3. task[a].pc \in {"evict"} \union EvictingPCs
    BY <1>2 DEF EvictChoose, EvictDone, EvictRemove, EvictRemoveFails, DirCheck, DirCheckFails,
                Rmdir, EvictUpdate, At, Working, EvictingPCs
  <1>4. \A x \in Pending(task[a]) : Written(task[a].pending[x])
    BY <1>3 DEF HandoverInv, FlushedWritten
  <1>5. UNCHANGED <<memtable, accepted, restarted, failed, clock>>
    BY <1>2 DEF EvictChoose, EvictDone, EvictRemove, EvictRemoveFails, DirCheck, DirCheckFails,
                Rmdir, EvictUpdate, memory, disk, history, bounds
  <1>6. \A x \in Series : Stored(x) \subseteq Stored(x)'
    <2>1. CASE EvictRemove(a, s)
      <3> DEFINE victim == FileAt(s, task[a].victim.segment_id)
      <3>1. /\ files' = files \ victim /\ failed' = failed
            /\ evicted' = [evicted EXCEPT ![s] = @ \union UNION {f.samples : f \in victim}]
        BY <2>1 DEF EvictRemove
      <3>2. \A f \in victim : f.data_id = s BY DEF FileAt
      <3> HIDE DEF victim
      <3>3. ASSUME NEW x \in Series, NEW y \in OnDisk(x) PROVE y \in OnDisk(x)' \union evicted'[x]
        <4>1. PICK f \in files : f.data_id = x /\ y \in f.samples BY <3>3 DEF OnDisk, FilesOf
        <4>2. CASE f \in victim BY <4>1, <4>2, <3>1, <3>2, <1>1 DEF TypeOK
        <4>3. CASE f \notin victim BY <4>1, <4>3, <3>1 DEF OnDisk, FilesOf
        <4> QED BY <4>2, <4>3
      <3>4. \A x \in Series : evicted[x] \subseteq evicted'[x] BY <3>1, <1>1 DEF TypeOK
      <3> QED BY <3>1, <3>3, <3>4 DEF Stored
    <2>2. CASE UNCHANGED <<files, evicted, failed>> BY <2>2, SameStored
    <2>3. EvictRemove(a, s) \/ UNCHANGED <<files, evicted, failed>>
      BY <1>2 DEF EvictChoose, EvictDone, EvictRemoveFails, DirCheck, DirCheckFails, Rmdir,
                  EvictUpdate, disk, history
    <2> QED BY <2>1, <2>2, <2>3
  <1>7. status' = "down" => status = "down"
    BY <1>2 DEF EvictChoose, EvictDone, EvictRemove, EvictRemoveFails, DirCheck, DirCheckFails,
                Rmdir, EvictUpdate, Return
  <1>8. CASE task' = [task EXCEPT ![a] = IdleTask]
    <2>1. \A x \in Series : \/ Written(task[a].pending[x])
                            \/ task[a].pending[x].samples \subseteq Stored(x)'
      BY <1>4 DEF Pending
    <2> QED BY <1>5, <1>6, <1>7, <1>8, <2>1, EndsCall
  <1>9. ASSUME NEW r, task' = [task EXCEPT ![a] = r], r.pending = task[a].pending
        PROVE  HandoverInv' /\ NoneDropped
    BY <1>4, <1>5, <1>6, <1>7, <1>9, MovesOn
  <1>10. CASE EvictChoose(a, s)
    <2> DEFINE m == Oldest(manifest[s].segments)
               r == [task[a] EXCEPT !.pc = "remove", !.current = s,
                         !.victim = [segment_id |-> m.segment_id, size_bytes |-> m.size_bytes]]
    <2>1. task' = [task EXCEPT ![a] = r] BY <1>10 DEF EvictChoose
    <2>2. r.pending = task[a].pending BY <1>1 DEF Task
    <2> HIDE DEF r
    <2> QED BY <2>1, <2>2, <1>9
  <1>11. CASE EvictDone(a, s)
    <2>1. CASE task[a].todo = {s} BY <1>8, <1>11, <2>1 DEF EvictDone, Return
    <2>2. CASE task[a].todo # {s}
      <3> DEFINE r == [task[a] EXCEPT !.todo = task[a].todo \ {s}]
      <3>1. task' = [task EXCEPT ![a] = r] BY <1>11, <2>2 DEF EvictDone
      <3>2. r.pending = task[a].pending BY <1>1 DEF Task
      <3> HIDE DEF r
      <3> QED BY <3>1, <3>2, <1>9
    <2> QED BY <2>1, <2>2
  <1>12. CASE EvictRemoveFails(a, s) \/ DirCheckFails(a, s)
    BY <1>8, <1>12 DEF EvictRemoveFails, DirCheckFails, Return
  <1>13. ASSUME NEW pc, GoTo(a, pc) PROVE HandoverInv' /\ NoneDropped
    <2> DEFINE r == [task[a] EXCEPT !.pc = pc]
    <2>1. task' = [task EXCEPT ![a] = r] BY <1>13 DEF GoTo
    <2>2. r.pending = task[a].pending BY <1>1 DEF Task
    <2> HIDE DEF r
    <2> QED BY <2>1, <2>2, <1>9
  <1>14. CASE EvictRemove(a, s) \/ DirCheck(a, s) \/ Rmdir(a, s)
    BY <1>13, <1>14 DEF EvictRemove, DirCheck, Rmdir
  <1>15. ASSUME NEW ok \in BOOLEAN, EvictUpdate(a, s, ok) PROVE HandoverInv' /\ NoneDropped
    <2>1. CASE ok
      <3> DEFINE r == [task[a] EXCEPT !.pc = "evict", !.current = None, !.victim = NoVictim]
      <3>1. task' = [task EXCEPT ![a] = r] BY <1>15, <2>1 DEF EvictUpdate
      <3>2. r.pending = task[a].pending BY <1>1 DEF Task
      <3> HIDE DEF r
      <3> QED BY <3>1, <3>2, <1>9
    <2>2. CASE ~ok BY <1>8, <1>15, <2>2 DEF EvictUpdate, Return
    <2> QED BY <2>1, <2>2
  <1> QED BY <1>2, <1>10, <1>11, <1>12, <1>14, <1>15

-----------------------------------------------------------------------------
(* Crashes and recovery.                                                   *)

\* A crash loses what no file holds, and that is on record.
LEMMA CrashHandover ==
    ASSUME StorageInv, StorageInv', HandoverInv, Crash
    PROVE  HandoverInv' /\ NoneDropped
  <1>1. TypeOK BY DEF StorageInv
  <1>2. /\ status' = "down" /\ memtable' = [s \in Series |-> {}]
        /\ restarted' = [s \in Series |-> restarted[s] \union Volatile(s)]
        /\ task' = [a \in Actors |-> IdleTask]
        /\ UNCHANGED <<files, accepted, evicted, failed, clock>>
    BY DEF Crash, disk
  <1>3. \A s \in Series : Stored(s)' = Stored(s) BY <1>2 DEF Stored, OnDisk, FilesOf
  <1>4. ASSUME NEW s \in Series, NEW y \in Holding(s) PROVE y \in Drained(s)'
    <2>1. CASE y \in Stored(s) BY <2>1, <1>3 DEF Drained
    <2>2. CASE y \in memtable[s] \union restarted[s]
      BY <2>2, <1>2 DEF Drained, Volatile
    <2>3. CASE y \in InFlight(s)
      <3>1. PICK a \in Actors : y \in task[a].pending[s].samples BY <2>3 DEF InFlight
      <3>2. CASE Written(task[a].pending[s])
        <4>1. y \in Stored(s) BY <3>1, <3>2 DEF HandoverInv, WrittenKept
        <4> QED BY <4>1, <2>1
      <3>3. CASE ~Written(task[a].pending[s])
        <4>1. y \in Volatile(s) BY <3>1, <3>3 DEF Volatile
        <4> QED BY <4>1, <1>2 DEF Drained
      <3> QED BY <3>2, <3>3
    <2> QED BY <2>1, <2>2, <2>3, <1>4 DEF Holding
  <1>5. ASSUME NEW s \in Series, NEW y \in Holding(s) PROVE y.seq_no >= y.seq_no
    <2>1. y \in BufferedSample
      BY <1>1, <1>5 DEF TypeOK, Holding, Stored, OnDisk, InFlight, FilesOf, SegmentFile, Task,
                        PendingFlush
    <2> QED BY <2>1 DEF BufferedSample
  <1>6. \A s \in Series : \A y \in Holding(s) : \E z \in Holding(s)' :
            z.timestamp_ms = y.timestamp_ms /\ z.seq_no >= y.seq_no
    BY <1>4, <1>5 DEF Holding, Drained
  <1>7. \A s \in Series : accepted'[s] \subseteq accepted[s] \union Holding(s)' BY <1>2
  <1>8. NoSilentLoss' BY <1>6, <1>7, Handover DEF HandoverInv
  <1>9. WrittenKept' /\ FlushedWritten'
    BY <1>2, IdleTaskType, IdlePending DEF WrittenKept, FlushedWritten, EvictingPCs
  <1>10. MemoryOK' BY <1>2 DEF MemoryOK
  <1>11. NoneDropped BY <1>4 DEF NoneDropped, Holding, Drained
  <1> QED BY <1>8, <1>9, <1>10, <1>11 DEF HandoverInv

\* A step of the environment while the engine is down takes no sample off the record.
LEMMA DownHandover ==
    ASSUME StorageInv, HandoverInv, LoseManifest \/ \E f \in files : HeaderUnreadable(f)
    PROVE  HandoverInv' /\ NoneDropped
  <1>1. TypeOK BY DEF StorageInv
  <1>2. UNCHANGED <<status, memtable, task, accepted, evicted, restarted, clock>>
    BY DEF LoseManifest, HeaderUnreadable, memory, history
  <1>3. ASSUME NEW s \in Series
        PROVE  OnDisk(s) \union failed[s] \subseteq OnDisk(s)' \union failed'[s]
    <2>1. CASE LoseManifest
      <3>1. files' = files /\ failed' = failed BY <2>1 DEF LoseManifest, history
      <3> QED BY <3>1 DEF OnDisk, FilesOf
    <2>2. ASSUME NEW f \in files, HeaderUnreadable(f)
          PROVE  OnDisk(s) \union failed[s] \subseteq OnDisk(s)' \union failed'[s]
      <3>1. /\ files' = files \ {f} /\ f.data_id \in Series
            /\ failed' = [failed EXCEPT ![f.data_id] = @ \union f.samples]
        BY <2>2, <1>1 DEF HeaderUnreadable, TypeOK, SegmentFile
      <3>2. failed[s] \subseteq failed'[s] BY <3>1, <1>1 DEF TypeOK
      <3>3. ASSUME NEW y \in OnDisk(s) PROVE y \in OnDisk(s)' \union failed'[s]
        <4>1. PICK g \in files : g.data_id = s /\ y \in g.samples BY <3>3 DEF OnDisk, FilesOf
        <4>2. CASE g = f BY <4>1, <4>2, <3>1, <1>1 DEF TypeOK
        <4>3. CASE g # f BY <4>1, <4>3, <3>1 DEF OnDisk, FilesOf
        <4> QED BY <4>2, <4>3
      <3> QED BY <3>2, <3>3
    <2> QED BY <2>1, <2>2
  <1>4. \A s \in Series : Stored(s) \subseteq Stored(s)' BY <1>2, <1>3 DEF Stored
  <1>5. NoSilentLoss'
    BY <1>2, <1>3 DEF HandoverInv, NoSilentLoss, InFlight
  <1>6. WrittenKept' BY <1>2, <1>4 DEF HandoverInv, WrittenKept
  <1>7. FlushedWritten' BY <1>2 DEF HandoverInv, FlushedWritten, Pending
  <1>8. MemoryOK' BY <1>2 DEF HandoverInv, MemoryOK
  <1>9. NoneDropped BY <1>2, <1>4 DEF NoneDropped, Drained, InFlight
  <1> QED BY <1>5, <1>6, <1>7, <1>8, <1>9 DEF HandoverInv

\* Recovery removes no file, and memory was empty before it.
LEMMA OpenHandover ==
    ASSUME StorageInv, StorageInv', OneType, HandoverInv, Open
    PROVE  HandoverInv' /\ NoneDropped
  <1> DEFINE found == {s \in Series : IsRecovered(s)}
             q == [IdleTask EXCEPT !.pc = "evict", !.todo = found]
             r == IF found = {} THEN IdleTask ELSE q
  <1>1. /\ TypeOK /\ Opener \in Actors /\ TaskOK(task[Opener], series)
        /\ StatusOK /\ TypeOK'
    BY DEF StorageInv, Actors
  <1>2. /\ status = "down" /\ memtable' = [s \in Series |-> {}] /\ files' = files
        /\ task' = [task EXCEPT ![Opener] = r] /\ status' # "down"
        /\ UNCHANGED <<accepted, evicted, restarted, failed, clock>>
    BY OpenTypes DEF Open, Return, history, bounds
  <1>3. task[Opener].pc = "idle" BY <1>1, <1>2 DEF StatusOK, At, RunsWhile
  <1>4. Pending(task[Opener]) = {} BY <1>1, <1>3 DEF TaskOK
  <1>5. r \in Task
    <2>1. r = task'[Opener] BY <1>1, <1>2 DEF TypeOK
    <2> QED BY <2>1, <1>1 DEF TypeOK
  <1>6. q.pending = IdleTask.pending BY IdleTaskType DEF Task
  <1>7. r.pending = IdleTask.pending BY <1>6
  <1> HIDE DEF r
  <1>8. Pending(r) = {} BY <1>7, IdlePending DEF Pending
  <1>9. \A s \in Series : memtable[s] = {} BY <1>2 DEF HandoverInv, MemoryOK
  <1>10. \A s \in Series : Stored(s) \subseteq Stored(s)' BY <1>2, SameStored
  <1>11. \A s \in Series : /\ memtable[s] \subseteq memtable'[s]
                           /\ accepted'[s] \subseteq accepted[s] \union memtable'[s]
    BY <1>2, <1>9
  <1>12. NoSilentLoss' /\ WrittenKept' /\ FlushedWritten' /\ NoneDropped
    BY <1>1, <1>2, <1>4, <1>5, <1>8, <1>10, <1>11, NothingPending
  <1>13. MemoryOK' BY <1>2 DEF MemoryOK
  <1> QED BY <1>12, <1>13 DEF HandoverInv

\* Only an append accepts samples: each of them is newer than flushed_max_ts, and has a
\* number that was not given out before.
LEMMA AcceptingStep ==
    ASSUME StorageInv, [Next]_vars, NEW s \in Series, NEW x \in accepted'[s] \ accepted[s]
    PROVE  /\ \E t \in Tasks : task[t].pc = "append"
           /\ s \in series /\ IsFresh(x.timestamp_ms, flushed_max_ts[s])
           /\ x.seq_no > clock /\ status' = status
  <1>1. ASSUME NEW t \in Tasks, NEW y \in Series, AppendGroup(t, y)
        PROVE  /\ task[t].pc = "append"
               /\ s \in series /\ IsFresh(x.timestamp_ms, flushed_max_ts[s])
               /\ x.seq_no > clock /\ status' = status
    <2> DEFINE batch == task[t].batch
               taken == {i \in DOMAIN batch : batch[i].data_id = y /\ Accepts(batch[i])}
               new == {[timestamp_ms |-> batch[i].timestamp_ms, seq_no |-> clock + i] : i \in taken}
    <2>1. /\ task[t].pc = "append" /\ status' = status
          /\ accepted' = [accepted EXCEPT ![y] = accepted[y] \union new]
      BY <1>1 DEF AppendGroup, At, StorageInv, TypeOK
    <2>2. s = y /\ x \in new BY <2>1 DEF StorageInv, TypeOK
    <2>3. PICK i \in taken : x.timestamp_ms = batch[i].timestamp_ms /\ x.seq_no = clock + i BY <2>2
    <2>4. i \in 1 .. Len(batch) /\ Len(batch) \in Nat /\ clock \in Nat
      BY DEF StorageInv, TypeOK, Task, Actors
    <2>5. x.seq_no > clock BY <2>3, <2>4
    <2> QED BY <2>1, <2>2, <2>3, <2>5, Zenon DEF Accepts
  <1>2. ASSUME NEW t \in Tasks, FlushStep(t) \/ EvictError(t) PROVE accepted' = accepted
    BY <1>2, Zenon
    DEF FlushStep, EvictError, Alloc, Commit, Prepare, Mkdir, CreateTmp, CreateTmpNoDir,
                WriteFails, Rename, Advance, EvictRemoveFails, DirCheckFails, history
  <1>3. ASSUME NEW a \in Actors, EvictStep(a) PROVE accepted' = accepted
    BY <1>3 DEF EvictStep, EvictChoose, EvictDone, EvictRemove, DirCheck, Rmdir, EvictUpdate, history
  <1>4. ASSUME Client \/ UNCHANGED vars PROVE accepted' = accepted
    BY <1>4, Zenon DEF Client, Register, BeginAppend, BeginFlush, history, vars
  <1>5. ASSUME Open \/ Crash \/ LoseManifest \/ \E f \in files : HeaderUnreadable(f)
        PROVE  accepted' = accepted
    BY <1>5 DEF Open, Crash, LoseManifest, HeaderUnreadable, history
  <1> QED BY <1>1, <1>2, <1>3, <1>4, <1>5 DEF Next, Running, AppendStep, Actors

-----------------------------------------------------------------------------
(* The theorems.                                                           *)

\* Every step keeps the invariant, and keeps track of every sample that a flush has drained.
LEMMA HandoverStep ==
    ASSUME StorageInv, StorageInv', IdsInv, OneType, HandoverInv, [Next]_vars
    PROVE  HandoverInv' /\ NoneDropped
  <1>1. CASE Client BY <1>1, RegisterHandover, BeginHandover DEF Client
  <1>2. ASSUME NEW t \in Tasks, Running(t) PROVE HandoverInv' /\ NoneDropped
    <2>1. CASE AppendStep(t) BY <2>1, AppendHandover DEF AppendStep
    <2>2. CASE FlushStep(t)
      BY <2>2, AllocHandover, CommitHandover, PrepareHandover, CreateHandover, WriteErrorHandover,
         RenameHandover, AdvanceHandover DEF FlushStep
    <2>3. CASE EvictStep(t) \/ EvictError(t) BY <2>3, EvictHandover DEF Actors
    <2> QED BY <1>2, <2>1, <2>2, <2>3 DEF Running
  <1>3. CASE EvictStep(Opener) BY <1>3, EvictHandover DEF Actors
  <1>4. CASE Open BY <1>4, OpenHandover
  <1>5. CASE Crash BY <1>5, CrashHandover
  <1>6. CASE LoseManifest \/ \E f \in files : HeaderUnreadable(f) BY <1>6, DownHandover
  <1>7. CASE UNCHANGED vars
    <2>1. UNCHANGED <<status, memtable, files, task, clock, accepted, evicted, restarted, failed>>
      BY <1>7 DEF vars, memory, disk, history, bounds
    <2> QED BY <2>1 DEF HandoverInv, NoSilentLoss, WrittenKept, FlushedWritten, MemoryOK, InFlight,
                        OnDisk, FilesOf, Stored, Pending, NoneDropped, Drained
  <1> QED BY <1>1, <1>2, <1>3, <1>4, <1>5, <1>6, <1>7 DEF Next

\* In particular it keeps the invariant.
LEMMA NextHandover ==
    StorageInv /\ StorageInv' /\ IdsInv /\ OneType /\ HandoverInv /\ [Next]_vars => HandoverInv'
  BY HandoverStep

\* Nothing is accepted, and no file exists, before the engine is first opened.
LEMMA InitHandover == Init => OneType /\ HandoverInv
  <1> SUFFICES ASSUME Init PROVE OneType /\ HandoverInv OBVIOUS
  <1>1. OneType BY DEF Init, OneType
  <1>2. NoSilentLoss /\ MemoryOK BY DEF Init, NoSilentLoss, MemoryOK
  <1>3. WrittenKept /\ FlushedWritten
    BY IdleTaskType, IdlePending DEF Init, WrittenKept, FlushedWritten, EvictingPCs
  <1> QED BY <1>1, <1>2, <1>3 DEF HandoverInv

\* The files, manifest.json and the manifest agree on the type of a series in every
\* state, so that recovery never takes a segment for a misfit.
THEOREM TypesAgree == Spec => []OneType
  BY InitInv, NextInv, InitIds, NextIds, InitHandover, NextTypes, PTL DEF Spec

\* The inductive invariant of the hand-over.
THEOREM HandoverInvariant == Spec => []HandoverInv
  BY InitInv, NextInv, InitIds, NextIds, InitHandover, NextTypes, NextHandover, PTL DEF Spec

\* Every accepted sample, or a later write of its timestamp, is in memory, in a file or
\* on record as evicted or lost, however many threads append, flush and evict, wherever
\* the process dies and whichever calls of the file system fail.
THEOREM NothingLostSilently == Spec => []NoSilentLoss
  <1>1. HandoverInv => NoSilentLoss BY DEF HandoverInv
  <1> QED BY <1>1, HandoverInvariant, PTL

=============================================================================
