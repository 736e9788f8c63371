# driftTS in TLA+

A model of driftTS, a time-series store written in Rust, with the runs that check
it and the theorems that are proved about it. Paths and line numbers are those of
the repository, which is under `src/` here (so `src/src/core/engine.rs` is its
`src/core/engine.rs`). `PROJECT.json` holds the same inventory in machine-readable
form, with the source lines of every definition.

## The system

| Component | State | Operations | Talks to |
|---|---|---|---|
| Engine (`core/engine.rs`) | `manifest` (mutex), `series` (RwLock over one mutex per series), `segment_cache` (mutex), configuration | `open`, `register_series`, `append_batch_detailed`, `append_one`, `flush_series`, `flush_all`, `query_range`, `evict_if_needed`, `stats`, `health` | the manifest, segments and cache below; called by the gRPC handlers |
| Series state (`core/types.rs`) | `memtable`, `memtable_sorted`, `sorted_len`, `flushed_max_ts`, `next_seq_no` | append, refresh of the sorted copy, drain, slice | engine, under its mutex |
| Manifest (`core/manifest.rs`) | entries: type, `next_segment_id`, limit, `storage_bytes`, segments; `manifest.json` | `load`, `save`, `recompute_storage_bytes` | engine, under its mutex |
| Segment files (`core/segment.rs`) | `segments/<data_id>/<id>.seg`, `.seg.tmp`; header of version 1 or 2, body, checksum | `write_segment_file`, `parse_segment_header`, `decode_payload`, `read_segment_*` | flush, recovery, query |
| Segment cache (`core/segment.rs`) | `entries`, `lru`, `total_bytes` | `get`, `insert`, eviction | query |
| gRPC services (`transport/grpc/server.rs`, `convert.rs`, `error.rs`) | none | each RPC converts its request, runs an engine call on a thread of its own (`spawn_blocking`) and makes its result a response or a status | engine |
| Listeners (`server.rs`) | the socket file | bind, remove a stale socket, remove on exit | other processes |
| Configuration and startup (`config.rs`, `main.rs`) | `AppConfig` | load, `validate`, `listen_endpoint`, open the engine, serve | engine, listeners |
| Benchmark, generated code, tests | none at run time | | |

Engine calls share state only through the four locks, and no call holds one lock
over its whole length. A flush takes the state lock to drain a memtable, the
manifest lock to number its segment, none while it writes the file, the manifest
lock to register it, the state lock to raise `flushed_max_ts`, and then evicts, with
no lock between the choice of a victim and the update of the manifest. A query takes
the manifest lock for a snapshot, the cache lock while it reads files, the state lock
for the memtable. What is hard in this code is what happens in between: other flushes,
evictions, appends and queries, an error of a file-system call, or the end of the
process. `PROJECT.json` lists these hazards at their lines.

What makes each component correct:

- *Engine, write side*: an accepted sample is never silently dropped; a segment file
  is never overwritten; the manifest is true to the files; `storage_bytes` is the sum
  it claims to be; old timestamps are rejected; eviction takes the oldest segment of a
  series over its limit and nothing else; registration and segments survive restarts;
  every call returns.
- *Query*: rows ascend, the last write of a timestamp wins, a limit keeps the earliest
  rows, nothing acknowledged is missed, the cache never serves another file's body.
- *Memtable*: with its sorted copy it behaves as one sorted map of last writes.
- *Segment files, cache and search*: nothing but what was written is served, whatever
  happened to a file; what is intact can be read; searches return exactly the range,
  within the bounds of the body and in finitely many probes; the cache keeps within its
  size and evicts by last use.
- *Services*: an answer is true: what it does not name as rejected was written, what a
  flush loses is reported, what a flush reports as done is on disk.
- *Listeners and startup*: what is at the path when a server starts is removed only if it is
  a socket; servers that compete for a path
  leave one that clients reach; nothing is left by servers that end; a crash keeps no
  server from starting again; the engine never runs with a configuration it is not
  made for.

## The modules

| Module | Models | Extends |
|---|---|---|
| `Storage` | register, append, flush, evict, crash, recover | |
| `Service` | the ingest RPCs and their answers; implements `Storage` | `Storage` |
| `EngineQuery` | range queries beside the writers | `Storage`, `Rows` |
| `Rows` | the functions on sequences of samples: merge, slice, partition point, flush preparation | |
| `Buffer` | abstract: what the memory of a series promises | |
| `Memtable` | the memory of a series with its sorted copy; implements `Buffer` | `Rows` |
| `SegmentFormat` | what is in a segment file, and what readers check | |
| `SegmentReader` | reading damaged and intact files, the segment cache, the range search | `SegmentFormat` |
| `Listener` | server processes: configuration, startup, binding, exit | |
| `MCStorage`, `MCService`, `MCEngineQuery`, `MCSegmentReader`, `MCListener` | values of constants for TLC | |
| `DataLemmas` | lemmas on the functions of `Rows`, on sums, and on maxima and minima of finite sets | `Rows` |
| `StorageProofs` | types, segment ids, immutability of files, the hand-over of samples | `Storage`, `DataLemmas` |
| `ManifestProofs` | manifest and files, registrations, recovery, accounts, `flushed_max_ts`; evictions and the retention budget of a client that is alone | `StorageProofs` |
| `QueryProofs` | the queries beside the writers: cache, snapshot, nothing missed; the order of segments and rows beside one writer | `EngineQuery`, `ManifestProofs` |
| `ServiceProofs` | `Service` implements `Storage`; its answers are true | `Service`, `StorageProofs` |
| `MemtableProofs` | `Memtable` implements `Buffer` | `Memtable`, `DataLemmas` |
| `ReaderProofs` | what a range read returns; the cache of segments | `SegmentReader`, `DataLemmas` |
| `ListenerProofs` | what servers that compete for a path do to it | `Listener` |

### Storage

A task is an RPC thread with a program counter and what its stack holds (`todo`: the
series its loop has still to visit; `pending`: the drained samples, the id and the
size of the segment of each series; `victim`: the segment an eviction chose). One
action is what the code does under one lock or in one file-system call:

| Action | Code |
|---|---|
| `Register` | `register_series` 89-138, with a failed `save` |
| `BeginAppend`, `AppendGroup` | `append_batch_detailed` 140-202, one step per series under its lock; `append_one` is a batch of one sample |
| `BeginFlush` | `flush_series`, `flush_all` |
| `Prepare` | `prepare_series_flush` 475-508 |
| `Alloc` | ids, 403-413 |
| `Mkdir`, `CreateTmp`, `CreateTmpNoDir`, `WriteFails`, `Rename` | `write_segment_file` (`segment.rs` 141-202) |
| `Commit` | registration and `save`, 426-442 |
| `Advance` | `flushed_max_ts`, 444-452 |
| `EvictChoose`, `EvictDone`, `EvictRemove`, `EvictRemoveFails`, `DirCheck`, `DirCheckFails`, `Rmdir`, `EvictUpdate` | `evict_if_needed` 328-380 |
| `Crash`, `LoseManifest` | the environment |
| `HeaderUnreadable` | `scan_segments` removes a file whose header it cannot read (787-803) |
| `Open` | `open` up to its evictions: `recover_manifest`, the rest of `scan_segments`, `build_series_state` |

Choices of abstraction:

- A sample is its timestamp and the number of its write, drawn from one counter. The
  number stands for the value and for `seq_no`; only its order matters.
- A segment file is its set of samples. `min_ts_ms`, `max_ts_ms` are computed from it;
  its size is any member of `SegmentSizes`, since encoding and compression decide it.
- The loops over several series visit them in any order (hash map order in the code
  for `flush_all` and batches).
- `Open` up to its evictions is one step: no other thread runs, it only removes
  temporary and mismatched files and saves, and a crash in its middle finds the same
  again. A file-system error while opening ends the process: `Crash`. The one call of
  it that does not fail with an error, reading a header, is `HeaderUnreadable`, one step
  for each file since a crash may come between two.
- A crash is the end of the process: memory is lost, what file-system calls have done
  stays. Loss of unsynced pages on power failure is not modelled (the code syncs file
  and directory at each step).
- A failing `save` may fail before or after its rename, so `manifest.json` is then the
  old or the new one. A failing write may leave a temporary file.
- The type of a series that only its files name is the type of any of them: files of
  a series have one type, as they are written with the type of its entry.
- `accepted`, `evicted`, `restarted`, `failed` are history: no guard reads them.
- Bounds: `MaxWrites`, `MaxCrashes`, `MaxFaults` bound how often clients and the
  environment act; they are guards of `BeginAppend`, `Crash` and `Outcome` only. A failing
  call, a lost manifest and an unreadable header all count as faults.
- `u64` byte counts saturate at `MaxU64` as in the code. The runs choose sizes that
  never reach it: `recompute_storage_bytes` sums with an ordinary `+`, and `Open` is
  guarded by the sum being in range.

### Service

Adds to `Storage` what a handler holds while the engine works for it (`call`) and the
answers of the last step (`replies`). A request is refused before the engine acts
(`AppendRefused`, `AppendNothing`, `FlushMissing`, `FlushNothing`, `RegisterRefused`), or
is a call of `Storage` (`AppendBatch`, `FlushSeries`, `FlushAll`, `RegisterSeries`). A step
of the engine for a call (`AppendEntries`, `Continue`) is the step of `Storage` with its
effect on the counts; when the engine's thread is idle after it, the same step answers.
Whether an error ended the call is told by the point at which it returned: at `append`,
`prepare` and `evict` there is nothing more to do, anywhere else a call failed.

A response is one record for all RPCs; an error is the index of the sample it names,
`FlushIndex` for the one that `append_batch_detailed` reports of a flush (`usize::MAX`,
cast to `u32`). Texts are left out. `range_query` answers with what `EngineQuery` returns,
`stats` and `health` with counters.

### EngineQuery

Adds readers to `Storage`, whose `Next` is one disjunct of `QueryNext`. `order` is the
`Vec` of segments that `Storage` keeps as a set: a commit appends, an eviction keeps
the order, recovery sorts by `min_ts_ms`. `BeginQuery` takes the snapshot; `ReadCached`,
`ReadFile`, `ReadMissing` read its head, holding the cache's mutex from the first
segment to the last; `ReadEnough` returns at the limit; `ReadAll`, `ReadMemory` go on
to the memtable and merge. Which bodies the cache keeps is left open here (any
subset), so what holds does so for every policy; `SegmentReader` has the policy.

### Buffer, Memtable, Rows

`Rows` has the pure functions as recursive functions, probe by probe where the code
searches and element by element where it merges. `Memtable` applies them to a memtable
and its incrementally extended sorted copy. `Buffer` says what that is for: a set with
one sample for a timestamp. `BufferSpec` is the refinement, with the last writes of the
memtable as the content of the buffer. `Storage` and `EngineQuery` use that set, which
is what the refinement allows them.

### SegmentFormat, SegmentReader

`SegmentFormat` has the fields of a file. A record is its timestamp; the CRC32 of a body
stands for the body, so two bodies that differ are taken to have different ones; a
payload is a body and how it was compressed. `Encoded` is what `write_segment_file`
writes, `Legacy` a file of version 1 (which only tests write), `HeaderValid` and `Header`
are `parse_segment_header`, `BodyValid` is `decode_payload` with `validate_crc`. `Damaged`
is what may happen to a file from outside: one change of one field. It is the one
definition here that no code corresponds to.

In `SegmentReader` a read is a step that consults the cache or the file
(`ReadNothing`, `ReadCached`, `ReadSkipped`, `ReadCorrupt`, `ReadFile`), then one step
per probe of `lower_bound_timestamp` and `upper_bound_timestamp`. `Damage` may come
between two reads, at most `MaxDamages` (0 or 1) times: two changes of a header can
agree with each other, for instance a type and a count that leave the size what it was,
and then the code accepts them. That files are not replaced, which the cache relies on,
is `SegmentImmutable` of `Storage`.

### Listener

Processes that are all given one path and one port. A step is one call to the file
system: `cleanup_stale_unix_socket` is `Exists` (`path.exists()`, which follows links),
`Inspect` (`symlink_metadata` and `is_socket`), `RemoveStale` (`remove_file`), then comes
`Bind`; a server that ends is `Stop` (the listener is closed) and `CleanUp` (the `Drop` of
`UnixSocketCleanup`). `Opened` and `OpenFails` stand for `Engine::open`. `Kill` is any end
that runs no destructor: `main` handles no signal. At the path is nothing, the socket of
a process, a file, or a link that leads nowhere; `Meddle` is anybody else who at any time
removes what is there or puts a file or a link there, also between `Inspect` and
`RemoveStale` and while a server serves. Addresses are abstracted to what `validate` and
`listen_endpoint` tell apart: blank, a path, anything else.

`alone`, `left` and `ahead` are history: the first two for the properties that speak of
undisturbed processes, `ahead` for those that had looked at the path, or bound it, before
what is there came.

## The runs

Every run names its properties in its `.cfg`. Numbers are distinct states.

| Run | Bounds | What it shows |
|---|---|---|
| `race` (565 k) | 2 threads, 1 series, 3 writes at 2 timestamps, threshold 1, limits 0 (rejected) and 1, sizes 1 and 2, 1 crash | Concurrent appends, flushes and evictions with a restart: `NoSilentLoss`, `ManifestDescribesFiles`, `StorageAccounting`, `FlushedMaxCovers`, `SegmentImmutable` |
| `sequential` (48 k) | 1 thread, batches of up to 2 samples, wrong types, threshold 2, default limit 2, all kinds of requested limits, 1 crash | Without concurrency the documented rules hold: `RetentionHonoured`, `SegmentsDisjoint`, `EvictionJustified`, `StaleRejected` |
| `faults` (320 k, of `Service`) | 1 thread, 2 series in one batch and one flush, incomplete and empty requests, 1 fault anywhere (failed call, lost `manifest.json`, unreadable header), 1 crash | The state survives: `NoSilentLoss`, `ManifestDescribesFiles`, `RegistrationDurable`, `RecoveryKeepsSegments`. The client is told: `AppendAnswered`, `LossReported`, `FlushDurable` |
| `liveness` (134 k) | 2 threads, 2 writes at 1 timestamp, threshold 1, limit 1, sizes 1 and 2, 1 fault, 1 crash | `RpcReturns`, `OpenEnds` |
| `query` (745 k) | 1 writer, 1 reader, 3 writes at 3 timestamps, 2 queries of 3 kinds, limits 1 and 2, 1 crash | `CacheHonest`, `RowsAscending`, `LastWriteWins`, `MissesOnlyInFlight`, `EarliestRows` |
| `memtable` (6 k) | 4 writes at 3 timestamps, every range and limit, drains | `SortedCopy`, `BufferSpec` |
| `reader` (54 k) | 6 segments of 1 to 6 records, of both versions, codecs and widths, one too large for the cache and one too large for readers; ranges in, between, around them; two may be damaged, once | `ServesWritten`, `FindsRange`, `IntactReadable`, `CacheAccounting`, `LruEviction`, `ReadReturns` |
| `listener` (396 k) | 3 processes, every configuration, 2 kills, a stray file or link put at the path or removed at any time | `OneReachable`, `NoLeftover`, `StrayKept`, `RestartServes` |

Why these bounds are enough to be interesting: two threads are the least that race, and
every race found needs only two; three writes give two segments and a buffered sample,
or three segments of which an eviction has a choice; a threshold of 1 lets an append
start its own flush, a limit of 1 makes every second segment evict another; one crash
has a restart whose recomputed ids are used again, one fault meets every call. Two
series are needed only where one call works on several (`faults`). Three processes are
the least of which one takes the path while two others look at it; two kills leave a
stale socket and kill the one that removes it. `race` and the runs for findings use the
symmetry of threads; runs with liveness properties do not.

`faults` and `liveness` do not check for deadlock: a registration whose `save` failed
leaves an engine that can take no sample, and once the crash is used nothing more can
happen.

What some properties do not say, because the code does not do it:

- `LossReported`: a loss is reported to the client whose call drained the samples, who
  need not be the one that wrote them.
- `FlushDurable`: a flush that answers `ok` says nothing of samples that another
  client's flush has drained and not yet written. With the one thread of `faults` there
  is no such client; the exception is part of the property for larger instances.
- `AppendAnswered`: a failed flush counts as one rejection too many, at `FlushIndex`.
- `FlushedMaxCovers` holds only without faults: a `save` that fails at a commit leaves
  `flushed_max_ts` below the segments that are in the manifest.
- `RetentionHonoured` holds in `sequential` only: of two evictions of one series, the one
  that finds its directory removed returns an error, its victim stays in the manifest
  and the series over its limit until the next flush.
- `FindsRange` excepts a header with wrong `min_ts_ms` or `max_ts_ms`, and `ServesWritten`
  one with another type of the same width: the checksum covers the body only.
- `IntactReadable` excepts bodies over `MAX_SEGMENT_BODY_BYTES`, which a writer does not
  check.
- `OneReachable` and `RestartServes` end when a process leaves or is killed, or somebody
  else changes the path: a server removes on exit whatever is at its path, the socket of
  another one included. What happens to that other one no property says, and `NoLeftover`
  is about what is left, not about what is removed too much.
- `StrayKept` is about servers that had still to look at the path when a file or link came
  there. One that comes later is removed: `remove_file` (`server.rs:115`) takes what is there
  after the look at a socket, and `UnixSocketCleanup` (`server.rs:132`) does not look.
- `NoSilentLoss` counts the samples of a file that recovery removes because it cannot read
  its header (`HeaderUnreadable`) as lost to an error, and `RecoveryKeepsSegments` is about
  the step after that removal: no property denies it, since the code means to do it.
- `LastWriteWins` is checked and proved for one writer, whose segments and memtable have no
  timestamp in common: it is about the last write within a memtable and in the cache. That
  the memtable wins over a segment is part of `MissesOnlyInFlight` as it is proved, for any
  number of writers (`NothingMissedWithoutFailure`).
- `RetentionHonoured`, `SegmentsDisjoint`, `EvictionJustified` and `StaleRejected` are checked
  with one thread; what the races do to the last two is shown by the runs for findings.

Four more runs each find a state or step that the README of the repository excludes.
They are races that its single-threaded tests cannot show; `sequential` and `query`
check what does hold instead.

| Run | Statement | What the run shows |
|---|---|---|
| `stale` | `README.md:199`, old timestamps are rejected | An append that comes between the registration of a segment and the raise of `flushed_max_ts` is accepted |
| `eviction_order` | `README.md:202`, the oldest segment, until under the limit | A victim chosen before a concurrent commit or eviction is deleted after it |
| `drained_loss` | `README.md:202`, flushed segments only | `remove_dir` between the `create_dir_all` and the `File::create` of a flush loses what the flush drained |
| `visibility` | `README.md:201`, queries merge flushed with buffered data | While a flush holds samples a query sees them in neither place |

### Fairness

`FairSpec` has weak fairness of the steps of each task and of the opener: each is an
operating-system thread that no lock keeps waiting for ever, since locks are held only
within a step (an append in progress holds the read lock of the map, which other readers
share and only a registration waits for). Clients, crashes and faults have no fairness.
In `SegmentReader` the steps of a search are fair: nothing in it waits. In `Listener` a
process that starts or ends keeps taking steps (`Proceed`); nobody has to start, stop or
kill one. `Service` states no fairness: its liveness is that of the steps of `Storage`.

## What is proved

TLAPS checks, for every value of the constants that satisfies `StorageAssumption` and
`NoneAssumption` (any number of series, threads, batches, limits, crashes and faults):

The write side, `Storage`:

- `StorageProofs!StorageInvariant`: `Spec => []StorageInv`. `TypeOK` alone is not
  inductive: `Alloc` increments an entry that might be absent, and `Open` takes the
  maximum of a set that might be infinite. `StorageInv` adds `SeriesOK` (a registered
  series has an entry), `TaskOK` (per program counter, what the stack of a thread may
  hold: its series are registered, a thread that writes has samples and at the commit a
  size for each), when threads run at all, and that segment ids stay below a bound.
  `TypeCorrect` follows.
- `StorageProofs!IdsInvariant`: `Spec => []IdsInv`. Files have distinct paths; their ids
  and those that flushes have taken are below `next_segment_id`; no file has an id that a
  flush has yet to write, and no two flushes have the same. The delicate step is `Open`,
  which recomputes `next_segment_id` from what it found: it is above the id of every
  file because each file is in the recovered entry or removed as a mismatch.
- `StorageProofs!SegmentsImmutable`: `Spec => SegmentImmutable`, from `IdsInv`: the only
  step that adds a file, `Rename`, does so under an id that no file has.
- `StorageProofs!TypesAgree`: `Spec => []OneType`. The files of a series, its entry and
  the one in `manifest.json` name one type. Without it recovery could remove a segment
  as a mismatch, and samples with it.
- `StorageProofs!HandoverInvariant`, `NothingLostSilently`: `Spec => []NoSilentLoss`, which
  is not inductive. A flush that ends forgets what it drained, so what it has written
  must be in a file or be accounted for (`WrittenKept`), and one that goes on to evict
  must have written everything (`FlushedWritten`). A write that replaces another in a
  memtable must be the later one (`MemoryOK`). The proof has a lemma for each kind of
  step of a thread: it carries on with what it holds, or it ends and what it held is
  stored or counted as failed.
- `ManifestProofs!ManifestInvariant`, `ManifestAccurate`: `Spec => []ManifestDescribesFiles`.
  Entries have ids that were given out (`KnownBelow`); an id that a flush owns is in no
  entry yet (`OwnedUnknown`) and owned by no other (`OwnedDistinct`), so neither `Rename`
  nor `Commit` meets an entry of another file; and a file that was written is what the
  commit will say (`OwnedWritten`). Entries of files that are gone are harmless as long
  as their ids are not given out again, which is where `KnownBelow` must count
  `manifest.json` as well, and where a crash resets the argument: nothing is owned, and
  recovery drops entries without files before it counts.
- `ManifestProofs!RegistrationsPermanent`: `Spec => RegistrationDurable`, from
  `RegistrationsSaved` (the manifest in memory has what `manifest.json` has).
- `ManifestProofs!RecoveryComplete`: `Spec => RecoveryKeepsSegments`, from `OneType` and
  `ManifestInv`.
- `ManifestProofs!LedgerInvariant`, `NeverOvercharged`, `AccountsExact`. Entries have
  finitely many segments of distinct ids, and the victim of an eviction under way has
  the size that its entry still has for it, or its file is gone under an id that nobody
  uses again. So a commit adds and an eviction subtracts what the segment counts for,
  and of two evictions of one victim the second finds no entry to subtract.
  `storage_bytes` never exceeds the sum (`NeverOvercharged`), and is the sum as long as
  the sum fits a u64 (`Spec /\ []TotalsFit => []StorageAccounting`): a counter that
  saturates at the top is below it.
- `ManifestProofs!CoveredWithoutFault`: `Spec => [](faults = 0 => FlushedMaxCovers)`, for
  any number of concurrent flushes. With a fault it is false, as said above.
- `ManifestProofs!StaleOnlyInGap`: without faults an append accepts a timestamp that a
  segment covers only while the flush that registered the segment, or one with samples as
  late, has yet to raise `flushed_max_ts`. `StaleRejectedAlone`: with one thread that gap
  is empty and `StaleRejected` holds, which is the rule of the README; the run `stale`
  shows that with two threads it does not.

What the README of the repository promises of retention and order holds for one client
at a time only, as the four runs above show. For that client it is proved, under
`OneThread` (`Tasks` has at most one element; the opener and any number of readers come
on top of it), and where stated `[]NoFault` (no call of the file system fails). Both
hypotheses are those of `sequential` and `query`, and of the tests of the engine; the
number of series, batches, limits and crashes is not limited:

- `ManifestProofs!EvictionInvariant`: `OneThread /\ Spec => []EvictInv`, of which some parts
  hold with any faults and some until the first. `EvictionJustified` is about the step
  that deletes; what makes it true was chosen earlier, so `EvictInv` says of an eviction
  that has a victim and has not deleted it that the series is over its limit and the
  victim its oldest segment (`VictimOldest`). `DirsKept` and the first half of `FindsDir`
  are what two threads break: every file has its directory, and no `remove_dir` comes
  between the `create_dir_all` and the `rename` of a flush; and what a flush has written is
  there (`WrittenThere`). These hold whatever calls fail. Only as long as none has failed
  do the segments of the manifest have their files (`SegmentsThere`), with the exception of
  an eviction between its `remove_file` and its update of the manifest, and does an
  eviction find its directory (the second half of `FindsDir`): when `is_dir_empty` fails,
  the file is gone and the entry stays until the next eviction or restart.
- `EvictionJustifiedAlone`: `OneThread /\ Spec => EvictionJustified`.
- `NoLossAlone`: `OneThread /\ Spec => []NoLossWithoutFault`, from `FindsDir`: the statement
  that the run `drained_loss` refutes for two threads.
- `RetentionAlone`: `OneThread /\ Spec /\ []NoFault => []RetentionHonoured`. The argument is
  that a series over its limit has a thread that will still look at it (`OverWatched`):
  the flush that registered its last segment, the eviction that is at it, or the
  recovery, which visits all series. An eviction leaves the series only within its limit,
  and it ends: an entry without segments counts no bytes (`NeverOvercharged`). With a
  fault it is false: an eviction that fails returns, and the series stays over its limit.
- `QueryProofs!FlushInvariant`: `OneThread /\ Spec /\ []NoFault => []FlushInv`, and
  `DisjointAlone` for `SegmentsDisjoint`. Not inductive alone: that the next segment is
  later than the registered ones depends on what is in the memtable, in a flush, and in
  files that are not registered yet. `FlushInv` takes all segments, registered or not
  (`Metas`), and says that they are in the order of time and of ids (`InOrderOfIds`); that
  what is in memory is later than all of them and that nothing earlier will be accepted,
  because `flushed_max_ts` or the flush under way keeps it out (`AllBehind`); and that what
  a flush has drained is later than all segments and all that there was
  (`DrainedAfter`, `MemoryDrained`), under an id above theirs (`OwnedAbove`). After a
  failed flush it is false: its samples are lost, but not the file that it renamed
  before it failed at another series, and appends may write its timestamps again.

Queries, `EngineQuery`, under `QueryAssumption` as well:

- `QueryProofs!QueriesBeside`: `QuerySpec => Spec`, so all of the above holds while queries
  run.
- `QueryProofs!QueryInvariant`: `QuerySpec => []QueryInv`. The sequence of the segments
  lists the set that the manifest has (`OrderOK`); what the cache holds and what a query
  has still to read has an id that is `Settled`: given out, and owned by no flush, so
  that no file will appear under it. `QueryTypes` and `CacheCorrect`
  (`QuerySpec => []CacheHonest`) follow: the cache is keyed by the path alone and nobody
  removes a body from it when its file is evicted.
- `QueryProofs!NothingMissedWithoutFailure`:
  `QuerySpec => [](NoFailure => MissesOnlyInFlight)`. The invariant behind it says of a
  query under way that each write accepted before it began, or a later one of its
  timestamp, is in a row it has, in a file it has still to read, in the memtable, hidden
  by a flush meanwhile, or gone (`NothingMissed`). It rests on `PlacesInv`: each file is in
  the manifest or of a flush that will register it, and what an eviction takes out of the
  manifest has no file any more; and on `MemoryLatest`: a write later than one in the
  memtable is in the memtable too, so that the merge may prefer the memtable.
  `NoFailure` (no call has failed, no flush has dropped what it drained) is needed: a
  flush of two series that fails in the second one leaves the file of the first one
  unregistered until the next start, and the queries do not see it.
- `QueryProofs!RowsInvariant`: `OneThread /\ QuerySpec /\ []NoFault => []RowsInv`, for one
  writer and any number of readers. A query concatenates what it finds in segments it
  listed at its start, from a cache that is not told of evictions, and merges it with a
  memtable that has moved on. `RowsInv` says that the listed segments are in the order of
  time (`OrderSorted`, from `FlushInv` and the sort that follows each change); that files
  and cached bodies keep to the ranges that the manifest has for them (`BodiesWithin`),
  and their samples are the last writes of their timestamps for good (`StoredLatest`,
  `CachedLatest`, because no append will accept such a timestamp any more); and of a
  query under way that its rows are in order, before all that it has still to read and
  behind the memtable (`InSequence`), so that a concatenation stays sorted and a merge
  replaces none of its rows.
  - `RowsAscendingAlone`: `RowsAscending`, strictly ascending answers.
  - `LastWriteWinsAlone`: `LastWriteWins`, for every row.
  - `EarliestRowsAlone`: `EarliestRows`, from the same invariant read at the step that
    stops at the limit.

The services, under `ServiceAssumption` as well:

- `ServiceProofs!ServiceImplementsStorage`: `ServiceSpec => Spec`. Every step of the
  service is a step of the engine or leaves the engine alone, so every theorem above
  holds behind the service; `ServiceKeepsSamples` is the instance for `NoSilentLoss`.
- `ServiceProofs!LossesReported`: `ServiceSpec => LossReported`.
- `ServiceProofs!FlushesDurable`: `ServiceSpec => FlushDurable`. A thread that flushes
  carries or has stored what it found in the memtables of its series when it drained
  them; those it has still to drain hold all that was accepted for them before its call
  and that nobody else drained.
- `ServiceProofs!AppendsAnswered`: `ServiceSpec => AppendAnswered`, for finitely many
  series: the counts of a call that is under way agree with what it has written so far,
  series by series, whatever other calls write in between.

The memory of a series, `Memtable`:

- `MemtableProofs!MemtableInvariant`, `TypeCorrect`, `CopyCorrect`: `Spec => []SortedCopy`.
  The copy, extended by sorting what was appended since and merging, is what sorting the
  whole would give.
- `MemtableProofs!ImplementsBuffer`: `Spec => BufferSpec`, the refinement of `Buffer`:
  range reads by binary search in the copy return what the set of last writes has in the
  range, and a drain returns that set in order.

Reading segments, `SegmentReader`, under `ReaderAssumption` (bodies are not empty and
strictly sorted, which is what `LastWrites` leaves of a memtable and `write_segment_file`
writes; at most one damage):

- `ReaderProofs!ReaderInvariant`: `Spec => []ReaderInv`. Of a file at most one part is
  wrong (`DiskInv`); what is read or cached is what was written (`ServesWritten`); in a
  search all records left of `left` are before the bound and all from `right` on are
  not, in the second one the same holds of `start_idx` and the lower bound, and all
  indices stay within the body (`SearchInv`).
- `ReaderProofs!WrittenServed`: `Spec => []ServesWritten`. The checks of the header, the
  size and the checksum leave no other way.
- `ReaderProofs!RangeFound`: `Spec => []FindsRange`. What the cache evicts does not occur
  in the proof: what a read returns does not depend on it.
- `ReaderProofs!CacheInvariant`, `CacheAccounted`, `LeastRecentEvicted`: the queue has each
  cached path once and no other, the counter is the sum of the sizes and within the
  limit, and an insert evicts what was used longest ago.
- `ReaderProofs!AnswerInvariant`, `IntactRead`: a read is refused only for a file that is
  damaged or too large. `ReaderTypes` is type correctness.

Server processes, `Listener`, under `ListenerAssumption` (any number of processes and
kills), from `ListenerInv`: where a stray is nobody comes to remove it or to serve but those
that looked or bound the path before it came (`StrayUntouched`); a socket has its process unless somebody was killed (`SocketOwned`); a
path taken from a server is another one's or about to be (`Replaced`):

- `ListenerProofs!StraysKept`: `Spec => StrayKept`.
- `ListenerProofs!NothingLeftOver`: `Spec => []NoLeftover`.
- `ListenerProofs!StillReachable`: `Spec => []OneReachable`.
- `ListenerProofs!TypeCorrect`: `Spec => []TypeOK`.

Each proof that a step keeps an invariant has one lemma or step per action.

`DataLemmas` has what the proofs need of the functions on data. The prover cannot apply
an induction rule that takes a predicate, so induction is stated with sets: a set of
naturals that has 0 and with each n also n + 1 has them all (`CountUp`), and a set of parts
of a finite set that has each part as soon as it has the smaller ones has them all
(`PartsInduction`). The loops of `Rows` and the folds behind sums are recursive functions,
that is, choices of a function that satisfies an equation; the lemmas show first that
there is one, and then, with the set of the rounds (or parts) for which it is so, that it
does what `RetainedFacts`, `InOrderFacts`, `SliceFacts`, `MergeFacts` and `SumOfFacts` say.
`Max` and `Min` are choices from finite sets.

Under the hypotheses named above every invariant that a run checks is proved, and every
action property. Only model-checked:

- `RpcReturns`, `OpenEnds`, `ReadReturns` and `RestartServes`, which need fairness:
  liveness and `ENABLED` are out of the prover's reach.
- That hypotheses cannot be dropped: counterexamples show it of `OneThread`, for
  `StaleRejected`, `EvictionJustified` and `NoLossWithoutFault`.

## Not modelled

- The bytes of a segment: fields stand for them, the body for its CRC32. That two bodies
  with one CRC32 exist is therefore not considered.
- Parsing of TOML, of arguments and of `manifest.json`: what does not parse ends the
  process before it does anything.
- Texts of responses and errors, logging, `stats` and `health`, which change nothing.
- A second engine on the same data directory. Nothing locks the directory, and `main`
  opens the engine before it binds the address, so a second process could recover the
  directory of a live one before it fails to bind; nothing in the repository says that
  this is provided for, and `Storage` models one engine.
- Loss of unsynced pages on power failure: the code syncs file and directory at each step.
- The throughput benchmark (a client that measures), generated code, and tests, which
  were read as statements of what is expected.

## Plan

Done, in this order: `Storage` with its runs, `EngineQuery` and `Rows`, `Memtable` with
`Buffer`, `SegmentReader`, the proofs of `Storage`; then `HeaderUnreadable`,
`SegmentFormat` and damage in `SegmentReader`, `Service`, `Listener`, and the proofs of
the hand-over, the manifest, the service, the reader and the listener; then the lemmas
on data, the refinement of `Buffer`, the accounts, `flushed_max_ts`, the answers of the
services, the cache of segments, and the queries; then what holds of evictions, retention,
the order of segments and the rows of queries for one client at a time.

What is left:

1. `SampleLifecycle`: the abstract life of a sample (buffered, in flight, stored, evicted
   or lost), implemented by `Storage`.
2. The weakest hypothesis on concurrency under which `SegmentsDisjoint` holds: one thread
   per series should do, where the proofs take one thread in all.
3. Two engines on one data directory, if the repository comes to say what should happen.
