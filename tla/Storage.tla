------------------------------- MODULE Storage -------------------------------
(***************************************************************************)
(* The write side of the driftTS engine (src/core/engine.rs): batches are  *)
(* appended to per-series memtables, a flush drains memtables into         *)
(* immutable segment files and registers them in the manifest, eviction    *)
(* deletes the oldest files of a series that is over its byte limit, and   *)
(* opening the engine rebuilds its state from whatever a crash left behind.*)
(*                                                                         *)
(* Every RPC runs on a thread of its own (spawn_blocking in server.rs), so *)
(* a task is a program counter with local data.  A step of a task is what  *)
(* the code does while it holds one lock, or one call to the file system.  *)
(***************************************************************************)
EXTENDS Integers, Sequences, FiniteSetsExt

CONSTANTS
    Series,              \* data ids
    SeriesTypes,         \* f64, i64, bool
    Tasks,               \* concurrent RPC handlers
    Opener,              \* the thread that runs Engine::open
    None,                \* Rust's None
    MinI64, MaxI64,      \* the range of a timestamp
    MaxU64,              \* the largest byte count
    Batches,             \* the append batches clients may send
    FlushThresholdCount, \* EngineConfig::flush_threshold_count
    DefaultLimit,        \* EngineConfig::default_series_max_bytes
    Limits,              \* the max_storage_bytes clients may ask for
    SegmentSizes,        \* sizes an encoded segment may have
    MaxWrites,           \* bound: no append starts after this many samples
    MaxCrashes,          \* bound: number of crashes
    MaxFaults            \* bound: number of file-system errors

Timestamps == MinI64 .. MaxI64
Sample == [data_id : Series, timestamp_ms : Timestamps, series_type : SeriesTypes]

ASSUME StorageAssumption ==
    /\ MinI64 \in Int /\ MaxI64 \in Int /\ MaxU64 \in Nat
    /\ Opener \notin Tasks
    /\ None \notin Int
    /\ Batches \subseteq Seq(Sample) \ {<< >>}
    /\ FlushThresholdCount \in Nat \ {0}
    /\ DefaultLimit \in (Nat \ {0}) \union {None}
    /\ Limits \subseteq Nat \union {None}
    /\ SegmentSizes \subseteq 1 .. MaxU64
    /\ MaxWrites \in Nat /\ MaxCrashes \in Nat /\ MaxFaults \in Nat

Actors == Tasks \union {Opener}

-----------------------------------------------------------------------------
(* Data.                                                                   *)

\* A sample in a memtable or a segment file.  seq_no orders the writes and
\* stands for the value: two samples are the same write iff it is equal.
BufferedSample == [timestamp_ms : Timestamps, seq_no : Nat]

SegmentMeta ==
    [segment_id : Nat, min_ts_ms : Timestamps, max_ts_ms : Timestamps,
     size_bytes : 1 .. MaxU64]

\* Manifest::series is a HashMap: an absent key maps to None here.
SeriesEntry ==
    [series_type : SeriesTypes, next_segment_id : Nat,
     max_storage_bytes : (Nat \ {0}) \union {None}, storage_bytes : 0 .. MaxU64,
     segments : SUBSET SegmentMeta]
Manifest == [Series -> SeriesEntry \union {None}]

\* None is not one of the values it stands for the absence of.
ASSUME NoneAssumption == None \notin Series /\ None \notin SeriesEntry

SegmentFile ==
    [data_id : Series, segment_id : Nat, series_type : SeriesTypes,
     samples : (SUBSET BufferedSample) \ {{}}, size_bytes : 1 .. MaxU64]

\* A pending flush of one series: empty samples mean that the series is not
\* part of the task's flush, and size_bytes is 0 until its file is written.
PendingFlush ==
    [samples : SUBSET BufferedSample, segment_id : Nat, size_bytes : 0 .. MaxU64]
NoFlush == [samples |-> {}, segment_id |-> 0, size_bytes |-> 0]

Victim == [segment_id : Nat, size_bytes : 0 .. MaxU64]
NoVictim == [segment_id |-> 0, size_bytes |-> 0]

PCs == {"idle", "append",
        "prepare", "alloc", "mkdir", "create", "rename", "commit", "advance",
        "evict", "remove", "dircheck", "rmdir", "update"}

\* The local state of a thread: its place, the series that its current loop
\* has still to visit, the one it is working on, and what it carries along.
Task ==
    [pc : PCs, todo : SUBSET Series, current : Series \union {None},
     batch : Seq(Sample), to_flush : SUBSET Series,
     pending : [Series -> PendingFlush], victim : Victim]
IdleTask ==
    [pc |-> "idle", todo |-> {}, current |-> None, batch |-> << >>, to_flush |-> {},
     pending |-> [s \in Series |-> NoFlush], victim |-> NoVictim]

VARIABLES
    status,         \* "down", "opening" (Engine::open evicts), "serving"
    manifest,       \* Engine::manifest
    series,         \* keys of Engine::series
    memtable,       \* SeriesState::memtable
    flushed_max_ts, \* SeriesState::flushed_max_ts
    files,          \* *.seg files
    tmps,           \* *.seg.tmp files, as <<data_id, segment_id>>
    dirs,           \* segments/<data_id> directories that exist
    saved,          \* manifest.json
    task,           \* the threads
    clock,          \* samples submitted so far
    faults, crashes \* how often the environment failed

\* What became of the writes the engine accepted (history only).
VARIABLES accepted, evicted, restarted, failed

memory == <<manifest, series, memtable, flushed_max_ts>>
disk == <<files, tmps, dirs, saved>>
history == <<accepted, evicted, restarted, failed>>
bounds == <<clock, faults, crashes>>
vars == <<status, memory, disk, task, history, bounds>>
-----------------------------------------------------------------------------
(* Helpers.  An operator named ..._Mutant is a faulty variant of the next  *)
(* one that no definition uses: put in its place it breaks a property.     *)

Stamps(samples) == {x.timestamp_ms : x \in samples}
MaxTs(samples) == Max(Stamps(samples))
MinTs(samples) == Min(Stamps(samples))

LastWrites_Mutant(samples) ==
    {x \in samples : \A y \in samples :
        y.timestamp_ms = x.timestamp_ms => y.seq_no >= x.seq_no}

\* prepare_flush_samples: of the samples of one timestamp the last one stays.
LastWrites(samples) ==
    {x \in samples : \A y \in samples :
        y.timestamp_ms = x.timestamp_ms => y.seq_no <= x.seq_no}

IsFresh_Mutant(ts, flushed) == flushed = None \/ ts >= flushed

\* append_to_series_state: TimestampTooOld unless newer than flushed_max_ts.
IsFresh(ts, flushed) == flushed = None \/ ts > flushed

SaturatingAdd(a, b) == IF a + b > MaxU64 THEN MaxU64 ELSE a + b
SaturatingSub(a, b) == IF a < b THEN 0 ELSE a - b

\* max_storage_bytes of a new series, from the limit its client asked for.
Clamp(requested) ==
    IF DefaultLimit = None THEN requested
    ELSE IF requested = None THEN DefaultLimit
    ELSE Min({requested, DefaultLimit})

NewEntry(type, limit) ==
    [series_type |-> type, next_segment_id |-> 1, max_storage_bytes |-> limit,
     storage_bytes |-> 0, segments |-> {}]

MetaOf(f) ==
    [segment_id |-> f.segment_id, min_ts_ms |-> MinTs(f.samples),
     max_ts_ms |-> MaxTs(f.samples), size_bytes |-> f.size_bytes]

TotalSize(segments) == MapThenSumSet(LAMBDA m : m.size_bytes, segments)

FileAt_Mutant(s, id) == {f \in files : f.segment_id = id}

FilesOf(s) == {f \in files : f.data_id = s}
FileAt(s, id) == {f \in files : f.data_id = s /\ f.segment_id = id}
DirEmpty(s) == FilesOf(s) = {} /\ \A p \in tmps : p[1] # s

OverLimit_Mutant(entry) ==
    /\ entry.max_storage_bytes # None /\ entry.storage_bytes > entry.max_storage_bytes
    /\ Cardinality(entry.segments) > 1
Oldest_Mutant(segments) ==
    CHOOSE m \in segments : \A n \in segments : m.max_ts_ms >= n.max_ts_ms

\* evict_if_needed: is the series over its budget, and which file goes first.
OverLimit(entry) ==
    entry.max_storage_bytes # None /\ entry.storage_bytes > entry.max_storage_bytes
Oldest(segments) ==
    CHOOSE m \in segments : \A n \in segments :
        \/ m.max_ts_ms < n.max_ts_ms
        \/ m.max_ts_ms = n.max_ts_ms /\ m.segment_id <= n.segment_id

Pending(r) == {s \in Series : r.pending[s].samples # {}}
Written(flush) == flush.size_bytes # 0

-----------------------------------------------------------------------------
(* Steps of a thread.                                                      *)

At(a, pc) == task[a].pc = pc
Working(a, pc, s) == task[a].pc = pc /\ task[a].current = s
GoTo(a, pc) == task' = [task EXCEPT ![a].pc = pc]

\* r has visited s in its current loop; after the last one it goes on to the
\* loop at pc over the series in work, or returns if there is no work.
Visited(r, s, pc, work) ==
    IF r.todo # {s} THEN [r EXCEPT !.todo = @ \ {s}, !.current = None]
    ELSE IF work = {} THEN IdleTask
    ELSE [r EXCEPT !.pc = pc, !.todo = work, !.current = None]

\* An RPC returns; Engine::open returning is what makes the server serve.
Return(a) ==
    /\ task' = [task EXCEPT ![a] = IdleTask]
    /\ status' = IF a = Opener THEN "serving" ELSE status

\* A call to the file system succeeds, or fails as the environment may make it.
Outcome(ok) ==
    /\ ok \/ faults < MaxFaults
    /\ faults' = IF ok THEN faults ELSE faults + 1

\* Manifest::save writes a temporary file and renames it, so manifest.json is
\* the old one or the new one; it may fail before the rename or after it.
Save(m, ok) ==
    /\ manifest' = m
    /\ saved' \in IF ok THEN {m} ELSE {saved, m}

\* A flush gives up before its commit: what it drained from the memtables and
\* has not written to a file (done: series written although not yet marked) is gone.
Abort(t, done) ==
    /\ task' = [task EXCEPT ![t] = IdleTask]
    /\ failed' = [s \in Series |->
           LET flush == task[t].pending[s]
           IN  IF s \in done \/ Written(flush) THEN failed[s] ELSE failed[s] \union flush.samples]

-----------------------------------------------------------------------------
(* register_series: holds the series write lock, which an append in        *)
(* progress blocks, and the manifest lock throughout.                      *)

CanRegister(s) == s \notin series /\ manifest[s] = None
ValidLimit_Mutant(limit) == TRUE
ValidLimit(limit) == limit # 0

Register(s, type, requested, ok) ==
    /\ status = "serving"
    /\ \A t \in Tasks : ~At(t, "append")
    /\ CanRegister(s)
    /\ ValidLimit(Clamp(requested))
    /\ Outcome(ok)
    /\ Save([manifest EXCEPT ![s] = NewEntry(type, Clamp(requested))], ok)
    /\ IF ok
       THEN /\ series' = series \union {s}
            /\ flushed_max_ts' = [flushed_max_ts EXCEPT ![s] = None]
            /\ memtable' = [memtable EXCEPT ![s] = {}]
       ELSE UNCHANGED <<series, flushed_max_ts, memtable>>
    /\ UNCHANGED <<status, files, tmps, dirs, task, history, clock, crashes>>

\* A thread that enters flush_serieses.
Flushing(ids) == IF ids = {} THEN IdleTask ELSE [IdleTask EXCEPT !.pc = "prepare", !.todo = ids]

-----------------------------------------------------------------------------
(* append_batch_detailed, and append_one as a batch of one sample.         *)

BeginAppend(t, batch) ==
    /\ status = "serving" /\ At(t, "idle")
    /\ clock < MaxWrites
    /\ task' = [task EXCEPT ![t] =
           [IdleTask EXCEPT !.pc = "append", !.batch = batch,
                            !.todo = {batch[i].data_id : i \in DOMAIN batch}]]
    /\ UNCHANGED <<status, memory, disk, history, bounds>>

\* A sample is accepted if its series exists, has its type, and has not been
\* flushed up to its timestamp.
Accepts(sample) ==
    /\ sample.data_id \in series
    /\ manifest[sample.data_id].series_type = sample.series_type
    /\ IsFresh(sample.timestamp_ms, flushed_max_ts[sample.data_id])

\* All entries of one series, under its state lock.
AppendGroup(t, s) ==
    /\ At(t, "append") /\ s \in task[t].todo
    /\ LET batch == task[t].batch
           taken == {i \in DOMAIN batch : batch[i].data_id = s /\ Accepts(batch[i])}
           new == {[timestamp_ms |-> batch[i].timestamp_ms, seq_no |-> clock + i] : i \in taken}
           full == taken # {} /\ Cardinality(memtable[s] \union new) >= FlushThresholdCount
           to_flush == task[t].to_flush \union (IF full THEN {s} ELSE {})
       IN  /\ memtable' = [memtable EXCEPT ![s] = @ \union new]
           /\ accepted' = [accepted EXCEPT ![s] = @ \union new]
           /\ clock' = clock + Len(batch)
           /\ task' = [task EXCEPT ![t] =
                  IF task[t].todo = {s} THEN Flushing(to_flush)
                  ELSE [task[t] EXCEPT !.todo = task[t].todo \ {s}, !.to_flush = to_flush]]
    /\ UNCHANGED <<status, manifest, series, flushed_max_ts, disk,
                   evicted, restarted, failed, faults, crashes>>

-----------------------------------------------------------------------------
(* flush_serieses                                                          *)

\* flush_series and flush_all.
BeginFlush(t, ids) ==
    /\ status = "serving" /\ At(t, "idle")
    /\ ids \subseteq series
    /\ task' = [task EXCEPT ![t] = Flushing(ids)]
    /\ UNCHANGED <<status, memory, disk, history, bounds>>

\* prepare_series_flush: drain one memtable under its state lock.
Prepare(t, s) ==
    /\ At(t, "prepare") /\ s \in task[t].todo
    /\ memtable' = [memtable EXCEPT ![s] = {}]
    /\ LET r == [task[t] EXCEPT !.pending[s].samples = LastWrites(memtable[s])]
       IN  task' = [task EXCEPT ![t] = Visited(r, s, "alloc", Pending(r))]
    /\ UNCHANGED <<status, manifest, series, flushed_max_ts, disk, history, bounds>>

\* Take the segment ids of all pending series under the manifest lock.
Alloc(t) ==
    /\ At(t, "alloc")
    /\ manifest' = [s \in Series |->
           IF s \in Pending(task[t]) THEN [manifest[s] EXCEPT !.next_segment_id = @ + 1]
                                     ELSE manifest[s]]
    /\ task' = [task EXCEPT
           ![t].pc = "mkdir",
           ![t].pending = [s \in Series |->
               IF s \in Pending(task[t])
               THEN [task[t].pending[s] EXCEPT !.segment_id = manifest[s].next_segment_id]
               ELSE task[t].pending[s]]]
    /\ UNCHANGED <<status, series, memtable, flushed_max_ts, disk, history, bounds>>

\* write_segment_file: create_dir_all, ...
Mkdir(t, s) ==
    /\ At(t, "mkdir") /\ s \in task[t].todo
    /\ dirs' = dirs \union {s}
    /\ task' = [task EXCEPT ![t].pc = "create", ![t].current = s]
    /\ UNCHANGED <<status, memory, files, tmps, saved, history, bounds>>

\* ... File::create on the temporary file, ...
CreateTmp(t, s) ==
    /\ Working(t, "create", s)
    /\ s \in dirs
    /\ tmps' = tmps \union {<<s, task[t].pending[s].segment_id>>}
    /\ GoTo(t, "rename")
    /\ UNCHANGED <<status, memory, files, dirs, saved, history, bounds>>

\* ... which finds no directory if an eviction has removed it meanwhile, ...
CreateTmpNoDir(t, s) ==
    /\ Working(t, "create", s)
    /\ s \notin dirs
    /\ Abort(t, {})
    /\ UNCHANGED <<status, memory, disk, accepted, evicted, restarted, bounds>>

\* ... or fails before the rename, and leaves behind what it has made so far, ...
WriteFails(t, s) ==
    /\ \/ At(t, "mkdir") /\ s \in task[t].todo
       \/ Working(t, "create", s)
       \/ Working(t, "rename", s)
    /\ Outcome(FALSE)
    /\ Abort(t, {})
    /\ UNCHANGED <<status, memory, disk, accepted, evicted, restarted, clock, crashes>>

\* ... then the rename that publishes the segment (and replaces whatever file
\* has its name), after which the fsync of the directory may still fail.
Rename(t, s, size, ok) ==
    LET flush == task[t].pending[s]
        file == [data_id |-> s, segment_id |-> flush.segment_id,
                 series_type |-> manifest[s].series_type,
                 samples |-> flush.samples, size_bytes |-> size]
    IN  /\ Working(t, "rename", s)
        /\ Outcome(ok)
        /\ files' = (files \ FileAt(s, flush.segment_id)) \union {file}
        /\ tmps' = tmps \ {<<s, flush.segment_id>>}
        /\ IF ok
           THEN /\ LET r == [task[t] EXCEPT !.pending[s].size_bytes = size, !.pc = "mkdir"]
                   IN  task' = [task EXCEPT ![t] = Visited(r, s, "commit", Pending(r))]
                /\ UNCHANGED failed
           ELSE Abort(t, {s})
        /\ UNCHANGED <<status, memory, dirs, saved, accepted, evicted, restarted, clock, crashes>>

\* Register all new segments, and save, under the manifest lock.
Registered(entry, flush) ==
    [entry EXCEPT
        !.segments = @ \union {[segment_id |-> flush.segment_id,
                                min_ts_ms |-> MinTs(flush.samples),
                                max_ts_ms |-> MaxTs(flush.samples),
                                size_bytes |-> flush.size_bytes]},
        !.storage_bytes = SaturatingAdd(@, flush.size_bytes)]

Commit(t, ok) ==
    /\ At(t, "commit")
    /\ Outcome(ok)
    /\ Save([s \in Series |->
                IF s \in Pending(task[t]) THEN Registered(manifest[s], task[t].pending[s])
                                          ELSE manifest[s]], ok)
    /\ IF ok THEN GoTo(t, "advance") ELSE task' = [task EXCEPT ![t] = IdleTask]
    /\ UNCHANGED <<status, series, memtable, flushed_max_ts, files, tmps, dirs, history,
                   clock, crashes>>

Raised_Mutant(flushed, ts) == ts

\* Raise flushed_max_ts of one series under its state lock.
Raised(flushed, ts) == IF IsFresh(ts, flushed) THEN ts ELSE flushed

Advance(t, s) ==
    /\ At(t, "advance") /\ s \in task[t].todo
    /\ flushed_max_ts' = [flushed_max_ts EXCEPT ![s] = Raised(@, MaxTs(task[t].pending[s].samples))]
    /\ task' = [task EXCEPT ![t] = Visited(task[t], s, "evict", Pending(task[t]))]
    /\ UNCHANGED <<status, manifest, series, memtable, disk, history, bounds>>

-----------------------------------------------------------------------------
(* evict_if_needed, called by a flush and, for every series, by            *)
(* Engine::open.  No lock is held from the choice of a victim to the       *)
(* update of the manifest.  While the engine opens a failure ends the      *)
(* process, which Crash covers.                                            *)

EvictChoose(a, s) ==
    /\ At(a, "evict") /\ s \in task[a].todo
    /\ OverLimit(manifest[s]) /\ manifest[s].segments # {}
    /\ LET m == Oldest(manifest[s].segments)
       IN  task' = [task EXCEPT
               ![a].pc = "remove", ![a].current = s,
               ![a].victim = [segment_id |-> m.segment_id, size_bytes |-> m.size_bytes]]
    /\ UNCHANGED <<status, memory, disk, history, bounds>>

EvictDone(a, s) ==
    /\ At(a, "evict") /\ s \in task[a].todo
    /\ ~(OverLimit(manifest[s]) /\ manifest[s].segments # {})
    /\ IF task[a].todo = {s}
       THEN Return(a)
       ELSE task' = [task EXCEPT ![a].todo = @ \ {s}] /\ UNCHANGED status
    /\ UNCHANGED <<memory, disk, history, bounds>>

\* remove_file; a file that is not there counts as removed.
EvictRemove(a, s) ==
    LET victim == FileAt(s, task[a].victim.segment_id)
    IN  /\ Working(a, "remove", s)
        /\ files' = files \ victim
        /\ evicted' = [evicted EXCEPT ![s] = @ \union UNION {f.samples : f \in victim}]
        /\ GoTo(a, "dircheck")
        /\ UNCHANGED <<status, memory, tmps, dirs, saved, accepted, restarted, failed, bounds>>

EvictRemoveFails(t, s) ==
    /\ Working(t, "remove", s)
    /\ Outcome(FALSE)
    /\ Return(t)
    /\ UNCHANGED <<memory, disk, history, clock, crashes>>

\* is_dir_empty reads the directory, ...
DirCheck(a, s) ==
    /\ Working(a, "dircheck", s)
    /\ s \in dirs
    /\ GoTo(a, IF DirEmpty(s) THEN "rmdir" ELSE "update")
    /\ UNCHANGED <<status, memory, disk, history, bounds>>

\* ... which fails if another eviction has removed it, and may fail otherwise: the victim's
\* file is gone then, and its entry stays.
DirCheckFails(t, s) ==
    /\ Working(t, "dircheck", s)
    /\ Outcome(s \notin dirs)
    /\ Return(t)
    /\ UNCHANGED <<memory, disk, history, clock, crashes>>

\* remove_dir, whose error is ignored when the directory is in use again.
Rmdir(a, s) ==
    /\ Working(a, "rmdir", s)
    /\ dirs' = IF DirEmpty(s) THEN dirs \ {s} ELSE dirs
    /\ GoTo(a, "update")
    /\ UNCHANGED <<status, memory, files, tmps, saved, history, bounds>>

Dropped_Mutant(entry, victim) ==
    [entry EXCEPT !.segments = {m \in @ : m.segment_id # victim.segment_id},
                  !.storage_bytes = SaturatingSub(@, victim.size_bytes)]
Dropped_Mutant2(entry, victim) ==
    IF \E m \in entry.segments : m.segment_id # victim.segment_id
    THEN [entry EXCEPT !.segments = {m \in @ : m.segment_id = victim.segment_id},
                       !.storage_bytes = SaturatingSub(@, victim.size_bytes)]
    ELSE entry

\* Drop the victim from the manifest, unless another eviction has done so.
Dropped(entry, victim) ==
    IF \E m \in entry.segments : m.segment_id = victim.segment_id
    THEN [entry EXCEPT !.segments = {m \in @ : m.segment_id # victim.segment_id},
                       !.storage_bytes = SaturatingSub(@, victim.size_bytes)]
    ELSE entry

EvictUpdate(a, s, ok) ==
    /\ Working(a, "update", s)
    /\ ok \/ a # Opener
    /\ Outcome(ok)
    /\ Save([manifest EXCEPT ![s] = Dropped(@, task[a].victim)], ok)
    /\ IF ok
       THEN /\ task' = [task EXCEPT ![a].pc = "evict", ![a].current = None, ![a].victim = NoVictim]
            /\ UNCHANGED status
       ELSE Return(a)
    /\ UNCHANGED <<series, memtable, flushed_max_ts, files, tmps, dirs, history, clock, crashes>>

-----------------------------------------------------------------------------
(* The process dies, and Engine::open starts it again.                     *)

\* Writes that only memory held are gone: those in memtables, and those a
\* flush had drained and not yet written.
Volatile(s) ==
    memtable[s] \union
    UNION {IF Written(task[a].pending[s]) THEN {} ELSE task[a].pending[s].samples : a \in Actors}

Crash ==
    /\ status # "down"
    /\ crashes < MaxCrashes
    /\ crashes' = crashes + 1
    /\ status' = "down"
    /\ restarted' = [s \in Series |-> restarted[s] \union Volatile(s)]
    /\ manifest' = [s \in Series |-> None]
    /\ series' = {}
    /\ memtable' = [s \in Series |-> {}]
    /\ flushed_max_ts' = [s \in Series |-> None]
    /\ task' = [a \in Actors |-> IdleTask]
    /\ UNCHANGED <<disk, accepted, evicted, failed, clock, faults>>

\* manifest.json is lost while the engine is down (Manifest::load starts anew).
LoseManifest ==
    /\ status = "down"
    /\ Outcome(FALSE)
    /\ saved' = [s \in Series |-> None]
    /\ UNCHANGED <<status, memory, files, tmps, dirs, task, history, clock, crashes>>

\* scan_segments removes a file whose header it cannot read, for whatever
\* reason.  The scan comes first in Engine::open, and a crash after it leaves
\* what a removal and no Open leaves, so each removal is a step of its own.
HeaderUnreadable(f) ==
    /\ status = "down"
    /\ f \in files
    /\ Outcome(FALSE)
    /\ files' = files \ {f}
    /\ failed' = [failed EXCEPT ![f.data_id] = @ \union f.samples]
    /\ UNCHANGED <<status, memory, tmps, dirs, saved, task, accepted, evicted, restarted,
                   clock, crashes>>

\* recover_manifest: segments of the manifest whose file is there are kept,
\* other files of the right type are adopted, of the wrong type removed.
Kept(s) ==
    IF saved[s] = None THEN {} ELSE {m \in saved[s].segments : FileAt(s, m.segment_id) # {}}
Unknown(s) == {f \in FilesOf(s) : \A m \in Kept(s) : m.segment_id # f.segment_id}
RecoveredType(s) ==
    IF saved[s] # None THEN saved[s].series_type ELSE (CHOOSE f \in FilesOf(s) : TRUE).series_type
Misfits(s) == {f \in Unknown(s) : f.series_type # RecoveredType(s)}
RecoveredSegments_Mutant(s) == Kept(s)
RecoveredSegments(s) == Kept(s) \union {MetaOf(f) : f \in Unknown(s) \ Misfits(s)}
RecoveredLimit_Mutant(s) == DefaultLimit
RecoveredLimit(s) ==
    IF saved[s] = None \/ saved[s].max_storage_bytes = None THEN DefaultLimit
    ELSE saved[s].max_storage_bytes

NextSegmentId_Mutant(segments) == Cardinality(segments) + 1
NextSegmentId(segments) ==
    IF segments = {} THEN 1 ELSE Max({m.segment_id : m \in segments}) + 1

IsRecovered(s) == saved[s] # None \/ FilesOf(s) # {}
RecoveredEntry(s) ==
    IF ~IsRecovered(s) THEN None
    ELSE [series_type |-> RecoveredType(s),
          next_segment_id |-> NextSegmentId(RecoveredSegments(s)),
          max_storage_bytes |-> RecoveredLimit(s),
          storage_bytes |-> TotalSize(RecoveredSegments(s)),
          segments |-> RecoveredSegments(s)]

LatestFlushed_Mutant(entry) == None

\* build_series_state
LatestFlushed(entry) ==
    IF entry = None \/ entry.segments = {} THEN None
    ELSE Max({m.max_ts_ms : m \in entry.segments})

\* Engine::open up to its evictions.  Nothing else runs yet and a crash in the
\* middle leaves what it would find again, so it is one step.
Open ==
    LET recovered == [s \in Series |-> RecoveredEntry(s)]
        found == {s \in Series : IsRecovered(s)}
    IN  /\ status = "down"
        /\ \A s \in Series : TotalSize(RecoveredSegments(s)) \in 0 .. MaxU64
        /\ Save(recovered, TRUE)
        /\ files' = files \ UNION {Misfits(s) : s \in found}
        /\ tmps' = {}
        /\ series' = found
        /\ memtable' = [s \in Series |-> {}]
        /\ flushed_max_ts' = [s \in Series |-> LatestFlushed(recovered[s])]
        /\ IF found = {}
           THEN Return(Opener)
           ELSE /\ status' = "opening"
                /\ task' = [task EXCEPT ![Opener] = [IdleTask EXCEPT !.pc = "evict", !.todo = found]]
        /\ UNCHANGED <<dirs, history, bounds>>

-----------------------------------------------------------------------------

Init ==
    /\ status = "down"
    /\ manifest = [s \in Series |-> None]
    /\ series = {}
    /\ memtable = [s \in Series |-> {}]
    /\ flushed_max_ts = [s \in Series |-> None]
    /\ files = {} /\ tmps = {} /\ dirs = {}
    /\ saved = [s \in Series |-> None]
    /\ task = [a \in Actors |-> IdleTask]
    /\ clock = 0 /\ faults = 0 /\ crashes = 0
    /\ accepted = [s \in Series |-> {}]
    /\ evicted = [s \in Series |-> {}]
    /\ restarted = [s \in Series |-> {}]
    /\ failed = [s \in Series |-> {}]

\* What a thread does once an RPC has started.
AppendStep(t) == \E s \in Series : AppendGroup(t, s)

FlushStep(t) ==
    \/ Alloc(t)
    \/ \E ok \in BOOLEAN : Commit(t, ok)
    \/ \E s \in Series :
        \/ Prepare(t, s)
        \/ Mkdir(t, s)
        \/ CreateTmp(t, s)
        \/ CreateTmpNoDir(t, s)
        \/ WriteFails(t, s)
        \/ \E size \in SegmentSizes, ok \in BOOLEAN : Rename(t, s, size, ok)
        \/ Advance(t, s)

EvictStep(a) ==
    \E s \in Series :
        \/ EvictChoose(a, s)
        \/ EvictDone(a, s)
        \/ EvictRemove(a, s)
        \/ DirCheck(a, s)
        \/ Rmdir(a, s)
        \/ \E ok \in BOOLEAN : EvictUpdate(a, s, ok)

EvictError(t) == \E s \in Series : EvictRemoveFails(t, s) \/ DirCheckFails(t, s)

Running(t) == AppendStep(t) \/ FlushStep(t) \/ EvictStep(t) \/ EvictError(t)

Client ==
    \/ \E s \in Series, type \in SeriesTypes, limit \in Limits, ok \in BOOLEAN :
        Register(s, type, limit, ok)
    \/ \E t \in Tasks, batch \in Batches : BeginAppend(t, batch)
    \/ \E t \in Tasks, ids \in (SUBSET series) \ {{}} : BeginFlush(t, ids)

Next ==
    \/ Client
    \/ \E t \in Tasks : Running(t)
    \/ EvictStep(Opener)
    \/ Open
    \/ Crash
    \/ LoseManifest
    \/ \E f \in files : HeaderUnreadable(f)

Spec == Init /\ [][Next]_vars

\* The operating system schedules every thread of a running process, so an RPC
\* that has begun keeps taking steps.  Clients and crashes are not fair.
Fairness ==
    /\ \A t \in Tasks : WF_vars(Running(t))
    /\ WF_vars(EvictStep(Opener))

FairSpec == Spec /\ Fairness

-----------------------------------------------------------------------------
(* Properties.                                                             *)

\* Every variable has its type.
TypeOK ==
    /\ status \in {"down", "opening", "serving"}
    /\ manifest \in Manifest /\ saved \in Manifest
    /\ series \subseteq Series
    /\ memtable \in [Series -> SUBSET BufferedSample]
    /\ flushed_max_ts \in [Series -> Timestamps \union {None}]
    /\ files \subseteq SegmentFile
    /\ tmps \subseteq Series \X Nat
    /\ dirs \subseteq Series
    /\ task \in [Actors -> Task]
    /\ clock \in Nat /\ faults \in Nat /\ crashes \in Nat
    /\ accepted \in [Series -> SUBSET BufferedSample]
    /\ evicted \in [Series -> SUBSET BufferedSample]
    /\ restarted \in [Series -> SUBSET BufferedSample]
    /\ failed \in [Series -> SUBSET BufferedSample]

InFlight(s) == UNION {task[a].pending[s].samples : a \in Actors}
OnDisk(s) == UNION {f.samples : f \in FilesOf(s)}

\* An accepted sample, or a later write of its timestamp, stays in a memtable,
\* in a flush under way or in a segment file, until it is evicted, lost to a
\* restart, or lost to a flush that reported an error or a recovery that could not
\* read its file: the hand-over from the memtable to the disk
\* (prepare_series_flush, write_segment_file) and the recovery drop nothing.
NoSilentLoss ==
    \A s \in Series : \A x \in accepted[s] :
        \E y \in memtable[s] \union InFlight(s) \union OnDisk(s)
                 \union evicted[s] \union restarted[s] \union failed[s] :
            y.timestamp_ms = x.timestamp_ms /\ y.seq_no >= x.seq_no

\* A segment file is never overwritten: write_segment_file renames onto a path
\* that no file has, whatever ids concurrent flushes took and a restart reused.
SegmentImmutable ==
    [][\A f \in files : \A g \in files' :
           f.data_id = g.data_id /\ f.segment_id = g.segment_id => f = g]_vars

\* The manifest, in memory and on disk, describes the file that is at the path
\* of a segment, and never an older file that had the same id.
ManifestDescribesFiles ==
    \A s \in Series : \A entry \in {manifest[s], saved[s]} \ {None} :
        \A m \in entry.segments : \A f \in FileAt(s, m.segment_id) : m = MetaOf(f)

\* storage_bytes is the sum of the sizes of the segments in the manifest:
\* evictions that race for one victim subtract it once.
StorageAccounting ==
    \A s \in Series : manifest[s] # None =>
        manifest[s].storage_bytes = TotalSize(manifest[s].segments)

\* A segment in the manifest is covered by its series' flushed_max_ts, or by a
\* flush that has yet to raise it; otherwise old timestamps would be accepted.
FlushedMaxCovers ==
    \A s \in series : \A m \in manifest[s].segments :
        \/ flushed_max_ts[s] # None /\ flushed_max_ts[s] >= m.max_ts_ms
        \/ \E t \in Tasks : At(t, "advance") /\ s \in task[t].todo
                            /\ MaxTs(task[t].pending[s].samples) >= m.max_ts_ms

\* A registration is permanent: a series that serves requests is in the manifest
\* on disk, and while the engine runs or opens no step forgets or retypes a saved
\* series or changes a limit it has (README: "Each series has a fixed type").
RegistrationDurable ==
    [][status' # "down" => \A s \in Series :
           /\ s \in series' => saved'[s] # None
           /\ saved[s] # None =>
                /\ saved'[s] # None /\ saved'[s].series_type = saved[s].series_type
                /\ saved[s].max_storage_bytes \in {None, saved'[s].max_storage_bytes}
                /\ status = "down" => s \in series']_vars

\* Recovery puts every segment file whose header it can read into the manifest, whatever
\* the last manifest.json knew of it, and removes none of them.  (One whose header it
\* cannot read it removes: HeaderUnreadable, a step before the one this is about.)
RecoveryKeepsSegments ==
    [][status = "down" /\ status' # "down" =>
           /\ files' = files
           /\ \A f \in files : \E m \in manifest'[f.data_id].segments : m = MetaOf(f)]_vars

Quiet == status = "serving" /\ \A t \in Tasks : At(t, "idle")

\* When nothing is under way no series is over its byte limit.
RetentionHonoured ==
    Quiet => \A s \in series :
        LET limit == manifest[s].max_storage_bytes
        IN  limit # None => manifest[s].storage_bytes <= limit

\* Once the engine has recovered, a segment file is deleted only while its series
\* is over its limit, and then it is the oldest of the series.
EvictionJustified ==
    [][status # "down" => \A f \in files \ files' :
           /\ manifest[f.data_id].max_storage_bytes # None
           /\ manifest[f.data_id].storage_bytes > manifest[f.data_id].max_storage_bytes
           /\ \A m \in manifest[f.data_id].segments : MaxTs(f.samples) <= m.max_ts_ms]_vars

\* Samples older than or equal to the latest flushed timestamp of their series
\* are rejected.
StaleRejected ==
    [][\A s \in Series : \A x \in accepted'[s] \ accepted[s] :
           \A m \in manifest[s].segments : x.timestamp_ms > m.max_ts_ms]_vars

\* The segments of a series cover disjoint ranges of time, in the order of their ids.
SegmentsDisjoint ==
    \A s \in series : \A m, n \in manifest[s].segments :
        m.segment_id < n.segment_id => m.max_ts_ms < n.min_ts_ms

\* Without a failing file system the engine loses no accepted sample but to a
\* restart: in particular, evictions touch flushed segments only.
NoLossWithoutFault == faults = 0 => \A s \in Series : failed[s] = {}

\* Every RPC that began returns, unless the process dies.
RpcReturns == \A t \in Tasks : ~At(t, "idle") ~> At(t, "idle")

\* Opening ends: the evictions it runs over all series terminate.
OpenEnds == status = "opening" ~> status # "opening"

=============================================================================
