---------------------------- MODULE ManifestProofs ----------------------------
(***************************************************************************)
(* The manifest, in memory and in manifest.json, describes the segment     *)
(* files; what storage_bytes and flushed_max_ts have to do with it, and what*)
(* a single client may rely on: its acknowledged points and its retention  *)
(* budget.                                                                 *)
(***************************************************************************)
EXTENDS StorageProofs

-----------------------------------------------------------------------------
(* The inductive invariant.                                                *)

\* Thread a has an id for a segment of s that the manifest has yet to know.
OwningPCs == WritingPCs \union {"commit"}
Owned(a, s) == task[a].pc \in OwningPCs /\ s \in Pending(task[a])

\* The entries of s in memory and in manifest.json.
Known(s) == UNION {entry.segments : entry \in {manifest[s], saved[s]} \ {None}}

\* Entries describe files, and have ids that were given out; the ids that threads
\* own are given out too, but in no entry and each of one thread; and a file that
\* a flush has written is what the flush will say of it.
Described == \A s \in Series : \A m \in Known(s) : \A f \in FileAt(s, m.segment_id) : m = MetaOf(f)
KnownBelow ==
    status # "down" => \A s \in Series : \A m \in Known(s) :
        manifest[s] # None /\ m.segment_id < manifest[s].next_segment_id
OwnedUnknown ==
    \A a \in Actors, s \in Series : Owned(a, s) =>
        /\ NextId(a, s) < manifest[s].next_segment_id
        /\ \A m \in Known(s) : m.segment_id # NextId(a, s)
OwnedDistinct ==
    \A a, b \in Actors, s \in Series :
        Owned(a, s) /\ Owned(b, s) /\ a # b => NextId(a, s) # NextId(b, s)
OwnedWritten ==
    \A a \in Actors, s \in Series : Owned(a, s) /\ Written(task[a].pending[s]) =>
        \A f \in FileAt(s, NextId(a, s)) :
            /\ f.samples = task[a].pending[s].samples
            /\ f.size_bytes = task[a].pending[s].size_bytes

ManifestInv == Described /\ KnownBelow /\ OwnedUnknown /\ OwnedDistinct /\ OwnedWritten

-----------------------------------------------------------------------------
(* Steps that add neither an entry nor a file.                             *)

\* An entry is of a segment.
LEMMA KnownType ==
    ASSUME TypeOK, NEW s \in Series
    PROVE  \A m \in Known(s) : m \in SegmentMeta /\ m.segment_id \in Nat
  <1>1. \A entry \in {manifest[s], saved[s]} \ {None} : entry.segments \subseteq SegmentMeta
    BY DEF TypeOK, Manifest, SeriesEntry
  <1> QED BY <1>1 DEF Known, SegmentMeta

\* What a save leaves on disk is the old entry or the new one.
LEMMA KnownAfterSave ==
    ASSUME NEW s \in Series, saved' \in {saved, manifest'}, NEW S, Known(s) \subseteq S,
           manifest'[s] # None => manifest'[s].segments \subseteq S
    PROVE  Known(s)' \subseteq S
  <1>1. saved[s] # None => saved[s].segments \subseteq S BY DEF Known
  <1>2. saved'[s] \in {saved[s], manifest'[s]} OBVIOUS
  <1>3. \A entry \in {manifest'[s], saved'[s]} \ {None} : entry.segments \subseteq S
    BY <1>1, <1>2
  <1> QED BY <1>3 DEF Known

\* An owner knows its series.
LEMMA OwnedFacts ==
    ASSUME StorageInv, NEW a \in Actors, NEW s \in Series, Owned(a, s)
    PROVE  /\ manifest[s] \in SeriesEntry /\ manifest[s] # None
           /\ manifest[s].next_segment_id \in Nat
           /\ NextId(a, s) \in Nat /\ status # "down"
  <1>1. TypeOK /\ SeriesOK /\ TaskOK(task[a], series) /\ task[a] \in Task
    BY DEF StorageInv, TypeOK
  <1>2. s \in series BY <1>1 DEF Owned, TaskOK
  <1>3. manifest[s] \in SeriesEntry /\ manifest[s] # None
    BY <1>1, <1>2 DEF TypeOK, SeriesOK, Manifest
  <1>4. NextId(a, s) \in Nat BY <1>1 DEF NextId, Task, PendingFlush
  <1>5. status # "down" BY RunningStatus DEF Owned, OwningPCs, WritingPCs, RunsWhile
  <1> QED BY <1>3, <1>4, <1>5 DEF SeriesEntry

\* No entry and no file appears, no series is forgotten, no next id shrinks, and
\* no thread gets an id: such a step keeps the invariant.
LEMMA KeepsManifest ==
    ASSUME StorageInv, ManifestInv, StorageInv',
           files' \subseteq files,
           \A s \in Series : Known(s)' \subseteq Known(s),
           status' # "down" => status # "down" /\
               \A s \in Series : manifest[s] # None =>
                   /\ manifest'[s] # None
                   /\ manifest'[s].next_segment_id >= manifest[s].next_segment_id,
           \A a \in Actors, s \in Series :
               Owned(a, s)' => Owned(a, s) /\ task'[a].pending[s] = task[a].pending[s]
    PROVE  ManifestInv'
  <1>1. TypeOK /\ TypeOK' BY DEF StorageInv
  <1>2. /\ \A s \in Series : manifest[s] # None => manifest[s].next_segment_id \in Nat
        /\ \A s \in Series : manifest'[s] # None => manifest'[s].next_segment_id \in Nat
    BY <1>1 DEF TypeOK, Manifest, SeriesEntry
  <1>3. \A s \in Series : \A i : FileAt(s, i)' \subseteq FileAt(s, i) BY DEF FileAt
  <1>4. Described' BY <1>3 DEF ManifestInv, Described, MetaOf
  <1>5. KnownBelow'
    <2> SUFFICES ASSUME status' # "down", NEW s \in Series, NEW m \in Known(s)'
                 PROVE  manifest'[s] # None /\ m.segment_id < manifest'[s].next_segment_id
      BY DEF KnownBelow
    <2>1. /\ m \in Known(s) /\ manifest[s] # None
          /\ m.segment_id < manifest[s].next_segment_id /\ m.segment_id \in Nat
      BY <1>1, KnownType DEF ManifestInv, KnownBelow
    <2>2. manifest'[s] # None
          /\ manifest'[s].next_segment_id >= manifest[s].next_segment_id
      BY <2>1
    <2> QED BY <2>1, <2>2, <1>2
  <1>6. \A a \in Actors, s \in Series : Owned(a, s)' => NextId(a, s)' = NextId(a, s) BY DEF NextId
  <1>7. OwnedUnknown'
    <2> SUFFICES ASSUME NEW a \in Actors, NEW s \in Series, Owned(a, s)'
                 PROVE  /\ NextId(a, s)' < manifest'[s].next_segment_id
                        /\ \A m \in Known(s)' : m.segment_id # NextId(a, s)'
      BY DEF OwnedUnknown
    <2>1. Owned(a, s) /\ NextId(a, s)' = NextId(a, s) BY <1>6
    <2>2. /\ manifest[s] # None /\ NextId(a, s) \in Nat
          /\ NextId(a, s) < manifest[s].next_segment_id
          /\ \A m \in Known(s) : m.segment_id # NextId(a, s)
      BY <2>1, OwnedFacts DEF ManifestInv, OwnedUnknown
    <2>3. status' # "down"
      <3>1. task'[a].pc # "idle" /\ StatusOK'
        BY DEF Owned, OwningPCs, WritingPCs, StorageInv
      <3> QED BY <3>1 DEF StatusOK, At, RunsWhile
    <2>4. manifest'[s] # None
          /\ manifest'[s].next_segment_id >= manifest[s].next_segment_id
      BY <2>2, <2>3
    <2>5. NextId(a, s)' < manifest'[s].next_segment_id BY <2>1, <2>2, <2>4, <1>2
    <2> QED BY <2>1, <2>2, <2>5
  <1>8. OwnedDistinct' BY <1>6 DEF ManifestInv, OwnedDistinct
  <1>9. OwnedWritten'
    <2> SUFFICES ASSUME NEW a \in Actors, NEW s \in Series, Owned(a, s)',
                        Written(task'[a].pending[s]), NEW f \in FileAt(s, NextId(a, s))'
                 PROVE  /\ f.samples = task'[a].pending[s].samples
                        /\ f.size_bytes = task'[a].pending[s].size_bytes
      BY DEF OwnedWritten, Written
    <2>1. /\ Owned(a, s) /\ NextId(a, s)' = NextId(a, s)
          /\ task'[a].pending[s] = task[a].pending[s]
      BY <1>6
    <2>2. f \in FileAt(s, NextId(a, s)) BY <2>1 DEF FileAt
    <2> QED BY <2>1, <2>2 DEF ManifestInv, OwnedWritten
  <1> QED BY <1>4, <1>5, <1>7, <1>8, <1>9 DEF ManifestInv

\* A step of one thread gives ids to no other.
LEMMA OtherOwners ==
    ASSUME StorageInv, NEW a \in Actors, NEW r, task' = [task EXCEPT ![a] = r],
           \A s \in Series : r.pc \in OwningPCs /\ s \in Pending(r) =>
               Owned(a, s) /\ r.pending[s] = task[a].pending[s]
    PROVE  \A b \in Actors, s \in Series :
               Owned(b, s)' => Owned(b, s) /\ task'[b].pending[s] = task[b].pending[s]
  <1>1. task \in [Actors -> Task] BY DEF StorageInv, TypeOK
  <1>2. task'[a] = r /\ \A b \in Actors \ {a} : task'[b] = task[b] BY <1>1
  <1> QED BY <1>2 DEF Owned, Pending

\* A step of one thread that leaves the files, the manifest and the status alone.
LEMMA ThreadManifest ==
    ASSUME StorageInv, ManifestInv, StorageInv', NEW a \in Actors, NEW r,
           task' = [task EXCEPT ![a] = r],
           \A s \in Series : r.pc \in OwningPCs /\ s \in Pending(r) =>
               Owned(a, s) /\ r.pending[s] = task[a].pending[s],
           UNCHANGED <<files, manifest, saved, status>>
    PROVE  ManifestInv'
  <1>1. TypeOK BY DEF StorageInv
  <1>2. \A s \in Series : manifest[s] # None => manifest[s].next_segment_id \in Nat
    BY <1>1 DEF TypeOK, Manifest, SeriesEntry
  <1>3. \A s \in Series : Known(s)' = Known(s) BY DEF Known
  <1>4. \A s \in Series : manifest[s] # None =>
            /\ manifest'[s] # None
            /\ manifest'[s].next_segment_id >= manifest[s].next_segment_id
    BY <1>2
  <1>5. \A b \in Actors, s \in Series :
            Owned(b, s)' => Owned(b, s) /\ task'[b].pending[s] = task[b].pending[s]
    BY OtherOwners
  <1>6. files' \subseteq files /\ (status' # "down" => status # "down") OBVIOUS
  <1> QED BY <1>3, <1>4, <1>5, <1>6, KeepsManifest

-----------------------------------------------------------------------------
(* Requests, appends and drains.                                           *)

\* A new series has no segments, and manifest.json had none of it.
LEMMA RegisterManifest ==
    ASSUME StorageInv, ManifestInv, StorageInv', NEW s \in Series, NEW type \in SeriesTypes,
           NEW limit \in Limits, NEW ok \in BOOLEAN, Register(s, type, limit, ok)
    PROVE  ManifestInv'
  <1> DEFINE e == NewEntry(type, Clamp(limit))
  <1>1. TypeOK BY DEF StorageInv
  <1>2. /\ manifest[s] = None /\ status = "serving"
        /\ manifest' = [manifest EXCEPT ![s] = e]
        /\ saved' \in {saved, manifest'}
        /\ UNCHANGED <<files, task, status>>
    BY DEF Register, Save, CanRegister
  <1>3. e.segments = {} BY DEF NewEntry
  <1> HIDE DEF e
  <1>4. /\ manifest'[s] = e
        /\ \A x \in Series \ {s} : manifest'[x] = manifest[x]
    BY <1>1, <1>2 DEF TypeOK, Manifest
  <1>5. ASSUME NEW x \in Series PROVE Known(x)' \subseteq Known(x)
    <2>1. manifest'[x] # None => manifest'[x].segments \subseteq Known(x)
      <3>1. CASE x = s BY <3>1, <1>3, <1>4
      <3>2. CASE x # s BY <3>2, <1>4 DEF Known
      <3> QED BY <3>1, <3>2
    <2> QED BY <2>1, <1>2, KnownAfterSave
  <1>6. \A x \in Series : manifest[x] # None => manifest[x].next_segment_id \in Nat
    BY <1>1 DEF TypeOK, Manifest, SeriesEntry
  <1>7. \A x \in Series : manifest[x] # None =>
            /\ manifest'[x] # None
            /\ manifest'[x].next_segment_id >= manifest[x].next_segment_id
    BY <1>2, <1>4, <1>6
  <1>8. \A a \in Actors, x \in Series :
            Owned(a, x)' => Owned(a, x) /\ task'[a].pending[x] = task[a].pending[x]
    BY <1>2 DEF Owned, Pending
  <1>9. files' \subseteq files /\ status # "down" BY <1>2
  <1> QED BY <1>5, <1>7, <1>8, <1>9, KeepsManifest

\* A request begins with nothing pending.
LEMMA BeginManifest ==
    ASSUME StorageInv, ManifestInv, StorageInv', NEW t \in Tasks,
           \/ \E batch \in Batches : BeginAppend(t, batch)
           \/ \E ids \in (SUBSET series) \ {{}} : BeginFlush(t, ids)
    PROVE  ManifestInv'
  <1>1. t \in Actors BY DEF Actors
  <1>2. UNCHANGED <<files, manifest, saved, status>>
    BY Zenon DEF BeginAppend, BeginFlush, memory, disk
  <1>3. PICK r : task' = [task EXCEPT ![t] = r] /\ r.pc \notin OwningPCs
    <2>1. ASSUME NEW batch \in Batches, BeginAppend(t, batch)
          PROVE  \E r : task' = [task EXCEPT ![t] = r] /\ r.pc \notin OwningPCs
      <3> DEFINE r == [IdleTask EXCEPT !.pc = "append", !.batch = batch,
                                       !.todo = {batch[i].data_id : i \in DOMAIN batch}]
      <3>1. task' = [task EXCEPT ![t] = r] BY <2>1, Zenon DEF BeginAppend
      <3>2. r.pc = "append" BY DEF IdleTask
      <3> HIDE DEF r
      <3> QED BY <3>1, <3>2 DEF OwningPCs, WritingPCs
    <2>2. ASSUME NEW ids \in (SUBSET series) \ {{}}, BeginFlush(t, ids)
          PROVE  \E r : task' = [task EXCEPT ![t] = r] /\ r.pc \notin OwningPCs
      <3>1. Flushing(ids).pc \notin OwningPCs BY DEF OwningPCs, WritingPCs, Flushing, IdleTask
      <3> QED BY <2>2, <3>1 DEF BeginFlush
    <2> QED BY <2>1, <2>2
  <1> QED BY <1>1, <1>2, <1>3, ThreadManifest

\* Nor does an append own an id, or the flush it starts.
LEMMA AppendManifest ==
    ASSUME StorageInv, ManifestInv, StorageInv', NEW t \in Tasks, NEW s \in Series,
           AppendGroup(t, s)
    PROVE  ManifestInv'
  <1>1. t \in Actors /\ task[t] \in Task BY DEF Actors, StorageInv, TypeOK
  <1>2. task[t].pc = "append" /\ UNCHANGED <<files, manifest, saved, status>>
    BY DEF AppendGroup, At, disk
  <1>3. PICK F : task' = [task EXCEPT ![t] =
                     IF task[t].todo = {s} THEN Flushing(F)
                     ELSE [task[t] EXCEPT !.todo = task[t].todo \ {s}, !.to_flush = F]]
    BY Zenon DEF AppendGroup
  <1> DEFINE r == IF task[t].todo = {s} THEN Flushing(F)
                  ELSE [task[t] EXCEPT !.todo = task[t].todo \ {s}, !.to_flush = F]
  <1>4. r.pc \notin OwningPCs BY <1>1, <1>2 DEF OwningPCs, WritingPCs, Flushing, IdleTask, Task
  <1>5. task' = [task EXCEPT ![t] = r] BY <1>3
  <1> HIDE DEF r
  <1> QED BY <1>1, <1>2, <1>4, <1>5, ThreadManifest

\* A flush that drains has no ids yet.
LEMMA PrepareManifest ==
    ASSUME StorageInv, ManifestInv, StorageInv', NEW t \in Tasks, NEW s \in Series, Prepare(t, s)
    PROVE  ManifestInv'
  <1> DEFINE q == [task[t] EXCEPT !.pending[s].samples = LastWrites(memtable[s])]
             r == Visited(q, s, "alloc", Pending(q))
  <1>1. TypeOK /\ t \in Actors /\ task[t] \in Task BY DEF StorageInv, TypeOK, Actors
  <1>2. /\ task' = [task EXCEPT ![t] = r] /\ task[t].pc = "prepare"
        /\ UNCHANGED <<files, manifest, saved, status>>
    BY DEF Prepare, At, disk
  <1>3. LastWrites(memtable[s]) \in SUBSET BufferedSample BY <1>1, LastWritesType DEF TypeOK
  <1>4. q \in Task /\ q.pc = "prepare" BY <1>1, <1>2, <1>3 DEF Task, PendingFlush
  <1> HIDE DEF q
  <1>5. r.pc \in {"prepare", "alloc", "idle"} BY <1>4, VisitedPending
  <1> HIDE DEF r
  <1>6. r.pc \notin OwningPCs BY <1>5 DEF OwningPCs, WritingPCs
  <1> QED BY <1>1, <1>2, <1>6, ThreadManifest

-----------------------------------------------------------------------------
(* A flush takes its ids, writes its files and registers them.             *)

\* The ids a flush takes are above those of every entry and every other thread.
LEMMA AllocManifest ==
    ASSUME StorageInv, ManifestInv, StorageInv', NEW t \in Tasks, Alloc(t)
    PROVE  ManifestInv'
  <1> DEFINE P == Pending(task[t])
             flush(s) == [task[t].pending[s] EXCEPT !.segment_id = manifest[s].next_segment_id]
             pending == [s \in Series |-> IF s \in P THEN flush(s) ELSE task[t].pending[s]]
             r == [task[t] EXCEPT !.pc = "mkdir", !.pending = pending]
  <1>1. /\ TypeOK /\ t \in Actors /\ task \in [Actors -> Task] /\ task[t] \in Task
        /\ SeriesOK /\ TaskOK(task[t], series)
    BY DEF StorageInv, TypeOK, Actors
  <1>2. /\ task' = [task EXCEPT ![t] = r]
        /\ manifest' = [s \in Series |-> IF s \in P
               THEN [manifest[s] EXCEPT !.next_segment_id = @ + 1] ELSE manifest[s]]
        /\ task[t].pc = "alloc" /\ UNCHANGED <<files, saved, status>>
    BY DEF Alloc, At, disk
  <1>3. P \subseteq Series /\ \A s \in P : manifest[s] \in SeriesEntry /\ manifest[s] # None
    BY <1>1 DEF TaskOK, SeriesOK, TypeOK, Manifest, Pending
  <1>4. \A s \in P : /\ manifest[s].next_segment_id \in Nat
                     /\ manifest'[s].next_segment_id = manifest[s].next_segment_id + 1
                     /\ manifest'[s].segments = manifest[s].segments
                     /\ manifest'[s] # None
    <2> SUFFICES ASSUME NEW s \in P
                 PROVE  /\ manifest[s].next_segment_id \in Nat
                        /\ manifest'[s].next_segment_id = manifest[s].next_segment_id + 1
                        /\ manifest'[s].segments = manifest[s].segments
                        /\ manifest'[s] # None
      OBVIOUS
    <2>1. manifest'[s] = [manifest[s] EXCEPT !.next_segment_id = manifest[s].next_segment_id + 1]
      BY <1>2, <1>3
    <2>2. manifest'[s] \in SeriesEntry BY <2>1, <1>3 DEF SeriesEntry
    <2> QED BY <2>1, <2>2, <1>3, NoneAssumption DEF SeriesEntry
  <1>5. \A s \in Series \ P : manifest'[s] = manifest[s] BY <1>2
  <1>6. \A s \in P : /\ pending[s].segment_id = manifest[s].next_segment_id
                     /\ ~Written(pending[s])
    <2> SUFFICES ASSUME NEW s \in P
                 PROVE  pending[s].segment_id = manifest[s].next_segment_id /\ ~Written(pending[s])
      OBVIOUS
    <2>1. task[t].pending[s] \in PendingFlush BY <1>1, <1>3 DEF Task
    <2>2. pending[s] = flush(s) BY <1>3
    <2>3. ~Written(task[t].pending[s]) BY <1>1, <1>2, <1>3 DEF TaskOK
    <2> QED BY <2>1, <2>2, <2>3 DEF PendingFlush, Written
  <1>7. \A s \in Series : pending[s].samples = task[t].pending[s].samples
    BY <1>1 DEF Task, PendingFlush
  <1> HIDE DEF pending
  <1>8. r.pc = "mkdir" /\ r.pending = pending BY <1>1 DEF Task
  <1> HIDE DEF r
  <1>9. task'[t] = r /\ \A a \in Actors \ {t} : task'[a] = task[a] BY <1>1, <1>2
  <1>10. ASSUME NEW s \in Series, Owned(t, s)'
         PROVE  /\ s \in P /\ NextId(t, s)' = manifest[s].next_segment_id
                /\ ~Written(task'[t].pending[s])
    <2>1. s \in P BY <1>7, <1>8, <1>9, <1>10 DEF Owned, Pending
    <2> QED BY <2>1, <1>6, <1>8, <1>9 DEF NextId
  <1>11. \A a \in Actors \ {t}, s \in Series :
             Owned(a, s)' => Owned(a, s) /\ task'[a].pending[s] = task[a].pending[s]
    BY <1>9 DEF Owned, Pending
  <1>12. \A s \in Series : Known(s)' = Known(s)
    <2> SUFFICES ASSUME NEW s \in Series PROVE Known(s)' = Known(s) OBVIOUS
    <2>1. manifest[s] # None <=> manifest'[s] # None BY <1>3, <1>4, <1>5
    <2>2. manifest[s] # None => manifest'[s].segments = manifest[s].segments BY <1>4, <1>5
    <2>3. saved'[s] = saved[s] BY <1>2
    <2> QED BY <2>1, <2>2, <2>3 DEF Known
  <1>13. status # "down" BY <1>1, <1>2, RunningStatus DEF RunsWhile
  <1>14. \A s \in Series : \A m \in Known(s) :
             /\ m.segment_id \in Nat /\ manifest[s] # None
             /\ manifest[s].next_segment_id \in Nat
             /\ m.segment_id < manifest[s].next_segment_id
    BY <1>1, <1>13, KnownType DEF ManifestInv, KnownBelow, TypeOK, Manifest, SeriesEntry
  <1>15. \A a \in Actors, s \in Series : Owned(a, s) =>
             /\ NextId(a, s) \in Nat /\ NextId(a, s) < manifest[s].next_segment_id
             /\ \A m \in Known(s) : m.segment_id # NextId(a, s)
    BY OwnedFacts DEF ManifestInv, OwnedUnknown
  <1>16. \A a \in Actors \ {t}, s \in Series : Owned(a, s)' => NextId(a, s)' = NextId(a, s)
    BY <1>11 DEF NextId
  <1>17. Described' BY <1>2, <1>12 DEF ManifestInv, Described, FileAt, MetaOf
  <1>18. KnownBelow'
    <2> SUFFICES ASSUME NEW s \in Series, NEW m \in Known(s)
                 PROVE  manifest'[s] # None /\ m.segment_id < manifest'[s].next_segment_id
      BY <1>12 DEF KnownBelow
    <2>1. CASE s \in P BY <2>1, <1>4, <1>14
    <2>2. CASE s \notin P BY <2>2, <1>5, <1>14
    <2> QED BY <2>1, <2>2
  <1>19. OwnedUnknown'
    <2> SUFFICES ASSUME NEW a \in Actors, NEW s \in Series, Owned(a, s)'
                 PROVE  /\ NextId(a, s)' < manifest'[s].next_segment_id
                        /\ \A m \in Known(s) : m.segment_id # NextId(a, s)'
      BY <1>12 DEF OwnedUnknown
    <2>1. CASE a = t
      <3>1. s \in P /\ NextId(a, s)' = manifest[s].next_segment_id BY <2>1, <1>10
      <3> QED BY <3>1, <1>4, <1>14
    <2>2. CASE a # t
      <3>1. Owned(a, s) /\ NextId(a, s)' = NextId(a, s) BY <2>2, <1>11, <1>16
      <3>2. CASE s \in P BY <3>1, <3>2, <1>4, <1>15
      <3>3. CASE s \notin P BY <3>1, <3>3, <1>5, <1>15
      <3> QED BY <3>2, <3>3
    <2> QED BY <2>1, <2>2
  <1>20. OwnedDistinct'
    <2> SUFFICES ASSUME NEW a \in Actors, NEW b \in Actors, NEW s \in Series,
                        Owned(a, s)', Owned(b, s)', a # b
                 PROVE  NextId(a, s)' # NextId(b, s)'
      BY DEF OwnedDistinct
    <2>1. CASE a = t
      <3>1. s \in P /\ NextId(a, s)' = manifest[s].next_segment_id BY <2>1, <1>10
      <3>2. Owned(b, s) /\ NextId(b, s)' = NextId(b, s) BY <2>1, <1>11, <1>16
      <3> QED BY <3>1, <3>2, <1>4, <1>15
    <2>2. CASE b = t
      <3>1. s \in P /\ NextId(b, s)' = manifest[s].next_segment_id BY <2>2, <1>10
      <3>2. Owned(a, s) /\ NextId(a, s)' = NextId(a, s) BY <2>2, <1>11, <1>16
      <3> QED BY <3>1, <3>2, <1>4, <1>15
    <2>3. CASE a # t /\ b # t BY <2>3, <1>11, <1>16 DEF ManifestInv, OwnedDistinct
    <2> QED BY <2>1, <2>2, <2>3
  <1>21. OwnedWritten'
    <2> SUFFICES ASSUME NEW a \in Actors, NEW s \in Series, Owned(a, s)',
                        Written(task'[a].pending[s]), NEW f \in FileAt(s, NextId(a, s))'
                 PROVE  /\ f.samples = task'[a].pending[s].samples
                        /\ f.size_bytes = task'[a].pending[s].size_bytes
      BY DEF OwnedWritten, Written
    <2>1. a # t BY <1>10
    <2>2. /\ Owned(a, s) /\ NextId(a, s)' = NextId(a, s)
          /\ task'[a].pending[s] = task[a].pending[s]
      BY <2>1, <1>11, <1>16
    <2>3. f \in FileAt(s, NextId(a, s)) BY <2>2, <1>2 DEF FileAt
    <2> QED BY <2>2, <2>3 DEF ManifestInv, OwnedWritten
  <1> QED BY <1>17, <1>18, <1>19, <1>20, <1>21 DEF ManifestInv

\* The directory and the temporary file are no segments, and a write that fails
\* ends the flush.
LEMMA WriteManifest ==
    ASSUME StorageInv, ManifestInv, StorageInv', NEW t \in Tasks, NEW s \in Series,
           Mkdir(t, s) \/ CreateTmp(t, s) \/ CreateTmpNoDir(t, s) \/ WriteFails(t, s)
    PROVE  ManifestInv'
  <1>1. t \in Actors /\ task[t] \in Task BY DEF Actors, StorageInv, TypeOK
  <1>2. UNCHANGED <<files, manifest, saved, status>> /\ task[t].pc \in WritingPCs
    BY DEF Mkdir, CreateTmp, CreateTmpNoDir, WriteFails, memory, disk, At, Working, WritingPCs
  <1>3. CASE Mkdir(t, s)
    <2> DEFINE r == [task[t] EXCEPT !.pc = "create", !.current = s]
    <2>1. task' = [task EXCEPT ![t] = r] BY <1>3 DEF Mkdir
    <2>2. r.pending = task[t].pending BY <1>1 DEF Task
    <2> HIDE DEF r
    <2>3. \A x \in Series : x \in Pending(r) =>
              Owned(t, x) /\ r.pending[x] = task[t].pending[x]
      BY <2>2, <1>2 DEF Owned, OwningPCs, Pending
    <2> QED BY <2>1, <2>3, <1>1, <1>2, ThreadManifest, Zenon
  <1>4. CASE CreateTmp(t, s)
    <2> DEFINE r == [task[t] EXCEPT !.pc = "rename"]
    <2>1. task' = [task EXCEPT ![t] = r] BY <1>4 DEF CreateTmp, GoTo
    <2>2. r.pending = task[t].pending BY <1>1 DEF Task
    <2> HIDE DEF r
    <2>3. \A x \in Series : x \in Pending(r) =>
              Owned(t, x) /\ r.pending[x] = task[t].pending[x]
      BY <2>2, <1>2 DEF Owned, OwningPCs, Pending
    <2> QED BY <2>1, <2>3, <1>1, <1>2, ThreadManifest, Zenon
  <1>5. CASE CreateTmpNoDir(t, s) \/ WriteFails(t, s)
    <2>1. task' = [task EXCEPT ![t] = IdleTask] BY <1>5 DEF CreateTmpNoDir, WriteFails, Abort
    <2>2. Pending(IdleTask) = {} BY IdleTaskType
    <2> QED BY <2>1, <2>2, <1>1, <1>2, ThreadManifest
  <1> QED BY <1>3, <1>4, <1>5

\* The file a rename publishes is at a path of no entry and of no other thread, and
\* is what the flush remembers of it.
LEMMA RenameManifest ==
    ASSUME StorageInv, IdsInv, ManifestInv, StorageInv', NEW t \in Tasks, NEW s \in Series,
           NEW size \in SegmentSizes, NEW ok \in BOOLEAN, Rename(t, s, size, ok)
    PROVE  ManifestInv'
  <1> DEFINE flush == task[t].pending[s]
             id == flush.segment_id
             file == [data_id |-> s, segment_id |-> id, series_type |-> manifest[s].series_type,
                      samples |-> flush.samples, size_bytes |-> size]
             q == [task[t] EXCEPT !.pending[s].size_bytes = size, !.pc = "mkdir"]
             v == Visited(q, s, "commit", Pending(q))
  <1>1. TypeOK /\ t \in Actors /\ task \in [Actors -> Task] BY DEF StorageInv, TypeOK, Actors
  <1>2. /\ Working(t, "rename", s)
        /\ files' = (files \ FileAt(s, id)) \union {file}
        /\ ok => task' = [task EXCEPT ![t] = v]
        /\ ~ok => task' = [task EXCEPT ![t] = IdleTask]
        /\ UNCHANGED <<manifest, saved, status>>
    BY DEF Rename, Abort, memory
  <1>3. /\ task[t] \in Task /\ s \in task[t].todo /\ flush \in PendingFlush
        /\ TaskOK(task[t], series)
    BY <1>1, <1>2, RenameFacts DEF StorageInv
  <1>4. Writing(t, s) /\ NextId(t, s) = id
    BY <1>2, <1>3 DEF Writing, NextId, Working, WritingPCs
  <1>5. Owned(t, s) BY <1>2, <1>3 DEF Owned, Working, OwningPCs, WritingPCs, TaskOK
  <1>6. FileAt(s, id) = {} BY <1>1, <1>4 DEF IdsInv, IdsUnused
  <1>7. \A m \in Known(s) : m.segment_id # id
    BY <1>1, <1>4, <1>5 DEF ManifestInv, OwnedUnknown
  <1>8. \A b \in Actors \ {t} : Owned(b, s) => NextId(b, s) # id
    BY <1>1, <1>4, <1>5 DEF ManifestInv, OwnedDistinct
  <1>9. /\ file.data_id = s /\ file.segment_id = id
        /\ file.samples = flush.samples /\ file.size_bytes = size
    OBVIOUS
  <1> HIDE DEF file
  <1>10. files' = files \union {file} BY <1>2, <1>6
  <1>11. \A x \in Series : \A i : ~(x = s /\ i = id) => FileAt(x, i)' = FileAt(x, i)
    BY <1>9, <1>10 DEF FileAt
  <1>12. \A f \in files' : f.data_id = s /\ f.segment_id = id => f = file
    BY <1>6, <1>10 DEF FileAt
  <1>13. /\ q \in Task /\ q.pc = "mkdir" /\ q.pending[s].size_bytes = size
         /\ q.pending[s].segment_id = id
         /\ \A x \in Series : q.pending[x].samples = task[t].pending[x].samples
         /\ \A x \in Series \ {s} : q.pending[x] = task[t].pending[x]
    <2>1. size \in 0 .. MaxU64 BY StorageAssumption
    <2>2. q \in Task /\ q.pc = "mkdir" BY <1>3, <2>1 DEF Task, PendingFlush, PCs
    <2> QED BY <2>2, <1>3 DEF Task, PendingFlush
  <1> HIDE DEF q
  <1>14. Pending(v) # {} => v.pending = q.pending BY <1>13, VisitedPending
  <1> HIDE DEF v
  <1>15. ASSUME NEW a \in Actors, NEW x \in Series, Owned(a, x)'
         PROVE  /\ Owned(a, x) /\ NextId(a, x)' = NextId(a, x)
                /\ task'[a].pending[x].samples = task[a].pending[x].samples
                /\ a = t /\ x = s => task'[a].pending[x].size_bytes = size
                /\ ~(a = t /\ x = s) => task'[a].pending[x] = task[a].pending[x]
    <2>1. CASE a # t
      <3>1. task'[a] = task[a] BY <2>1, <1>1, <1>2
      <3> QED BY <2>1, <3>1, <1>15 DEF Owned, NextId, Pending
    <2>2. CASE a = t /\ ok
      <3>1. task'[t] = v BY <2>2, <1>1, <1>2
      <3>2. x \in Pending(v) BY <2>2, <3>1, <1>15 DEF Owned, Pending
      <3>3. v.pending = q.pending BY <3>2, <1>14
      <3>4. x \in Pending(task[t]) BY <3>2, <3>3, <1>13 DEF Pending
      <3>5. Owned(t, x) BY <3>4, <1>5 DEF Owned
      <3>6. q.pending[x].segment_id = task[t].pending[x].segment_id BY <1>13
      <3> QED BY <2>2, <3>1, <3>3, <3>5, <3>6, <1>13 DEF NextId
    <2>3. CASE a = t /\ ~ok
      <3>1. task'[t] = IdleTask BY <2>3, <1>1, <1>2
      <3> QED BY <2>3, <3>1, <1>15, IdleTaskType DEF Owned, OwningPCs, WritingPCs
    <2> QED BY <2>1, <2>2, <2>3
  <1>16. \A x \in Series : Known(x)' = Known(x) BY <1>2 DEF Known
  <1>17. Described'
    <2> SUFFICES ASSUME NEW x \in Series, NEW m \in Known(x), NEW f \in FileAt(x, m.segment_id)'
                 PROVE  m = MetaOf(f)
      BY <1>16 DEF Described, MetaOf
    <2>1. f \in FileAt(x, m.segment_id) BY <1>7, <1>11
    <2> QED BY <2>1 DEF ManifestInv, Described
  <1>18. KnownBelow' BY <1>2, <1>16 DEF ManifestInv, KnownBelow
  <1>19. OwnedUnknown' BY <1>2, <1>15, <1>16 DEF ManifestInv, OwnedUnknown
  <1>20. OwnedDistinct' BY <1>15 DEF ManifestInv, OwnedDistinct
  <1>21. OwnedWritten'
    <2> SUFFICES ASSUME NEW a \in Actors, NEW x \in Series, Owned(a, x)',
                        Written(task'[a].pending[x]), NEW f \in FileAt(x, NextId(a, x))'
                 PROVE  /\ f.samples = task'[a].pending[x].samples
                        /\ f.size_bytes = task'[a].pending[x].size_bytes
      BY DEF OwnedWritten, Written
    <2>1. Owned(a, x) /\ NextId(a, x)' = NextId(a, x) BY <1>15
    <2>2. CASE a = t /\ x = s
      <3>1. f \in files' /\ f.data_id = s /\ f.segment_id = id BY <2>1, <2>2, <1>4 DEF FileAt
      <3>2. f = file BY <3>1, <1>12
      <3> QED BY <2>2, <3>2, <1>9, <1>15
    <2>3. CASE ~(a = t /\ x = s)
      <3>1. task'[a].pending[x] = task[a].pending[x] BY <2>3, <1>15
      <3>2. ~(x = s /\ NextId(a, x) = id) BY <2>1, <2>3, <1>8
      <3>3. f \in FileAt(x, NextId(a, x)) BY <2>1, <3>2, <1>11
      <3> QED BY <2>1, <3>1, <3>3 DEF ManifestInv, OwnedWritten
    <2> QED BY <2>2, <2>3
  <1> QED BY <1>17, <1>18, <1>19, <1>20, <1>21 DEF ManifestInv

\* The entries a commit adds describe the files of the flush, and their ids were
\* in no entry and no other flush.
LEMMA CommitManifest ==
    ASSUME StorageInv, ManifestInv, StorageInv', NEW t \in Tasks, NEW ok \in BOOLEAN,
           Commit(t, ok)
    PROVE  ManifestInv'
  <1> DEFINE P == Pending(task[t])
             flush(s) == task[t].pending[s]
             meta(s) == [segment_id |-> flush(s).segment_id,
                         min_ts_ms |-> MinTs(flush(s).samples),
                         max_ts_ms |-> MaxTs(flush(s).samples),
                         size_bytes |-> flush(s).size_bytes]
             r == [task[t] EXCEPT !.pc = "advance"]
  <1>1. /\ TypeOK /\ t \in Actors /\ task \in [Actors -> Task] /\ task[t] \in Task
        /\ SeriesOK /\ SeriesOK' /\ TaskOK(task[t], series)
    BY DEF StorageInv, TypeOK, Actors
  <1>2. /\ task[t].pc = "commit"
        /\ task' = [task EXCEPT ![t] = IF ok THEN r ELSE IdleTask]
        /\ manifest' = [s \in Series |-> IF s \in P
               THEN Registered(manifest[s], flush(s)) ELSE manifest[s]]
        /\ saved' \in {saved, manifest'}
        /\ UNCHANGED <<files, status, series>>
    BY DEF Commit, GoTo, At, Save
  <1>3. P \subseteq Series /\ \A s \in P : Owned(t, s) /\ Written(flush(s))
    BY <1>1, <1>2 DEF Owned, OwningPCs, TaskOK, Pending
  <1>4. \A s \in P : /\ manifest[s] \in SeriesEntry /\ manifest[s] # None /\ manifest'[s] # None
                     /\ manifest[s].next_segment_id \in Nat
    BY <1>1, <1>2, <1>3, OwnedFacts DEF TaskOK, SeriesOK
  <1>5. \A s \in P : /\ manifest'[s].next_segment_id = manifest[s].next_segment_id
                     /\ manifest'[s].segments = manifest[s].segments \union {meta(s)}
    <2> SUFFICES ASSUME NEW s \in P
                 PROVE  /\ manifest'[s].next_segment_id = manifest[s].next_segment_id
                        /\ manifest'[s].segments = manifest[s].segments \union {meta(s)}
      OBVIOUS
    <2>1. manifest'[s] = Registered(manifest[s], flush(s)) BY <1>2, <1>3
    <2>2. manifest[s] \in SeriesEntry BY <1>4
    <2> HIDE DEF flush
    <2> QED BY <2>1, <2>2 DEF Registered, SeriesEntry
  <1>6. \A s \in Series \ P : manifest'[s] = manifest[s] BY <1>2
  <1>7. \A s \in P : meta(s).segment_id = NextId(t, s) BY DEF NextId
  <1>8. ASSUME NEW s \in P, NEW f \in FileAt(s, NextId(t, s)) PROVE meta(s) = MetaOf(f)
    <2>1. f.samples = flush(s).samples /\ f.size_bytes = flush(s).size_bytes
      BY <1>1, <1>3 DEF ManifestInv, OwnedWritten
    <2>2. f.segment_id = flush(s).segment_id BY DEF FileAt, NextId
    <2> QED BY <2>1, <2>2 DEF MetaOf
  <1> HIDE DEF meta
  <1>9. ASSUME NEW s \in Series PROVE Known(s)' \subseteq Known(s) \union {meta(x) : x \in P \cap {s}}
    <2> DEFINE S == Known(s) \union {meta(x) : x \in P \cap {s}}
    <2>1. manifest'[s] # None => manifest'[s].segments \subseteq S
      <3>1. CASE s \in P
        <4>1. manifest[s].segments \subseteq Known(s) BY <3>1, <1>4 DEF Known
        <4> QED BY <3>1, <4>1, <1>5
      <3>2. CASE s \notin P BY <3>2, <1>6 DEF Known
      <3> QED BY <3>1, <3>2
    <2>2. Known(s) \subseteq S OBVIOUS
    <2> HIDE DEF S
    <2>3. Known(s)' \subseteq S BY <2>1, <2>2, <1>2, KnownAfterSave
    <2> QED BY <2>3 DEF S
  <1>10. ASSUME NEW s \in Series, NEW m \in Known(s)'
         PROVE  m \in Known(s) \/ (s \in P /\ m = meta(s) /\ m.segment_id = NextId(t, s))
    BY <1>7, <1>9
  <1> HIDE DEF flush
  <1>11. r.pc = "advance" /\ IdleTask.pc = "idle" BY <1>1, IdleTaskType DEF Task
  <1> HIDE DEF r
  <1>12. ASSUME NEW a \in Actors, NEW s \in Series, Owned(a, s)'
         PROVE  a # t /\ Owned(a, s) /\ task'[a] = task[a] /\ NextId(a, s)' = NextId(a, s)
    <2>1. a # t
      <3>1. task'[t].pc \in {"advance", "idle"} BY <1>1, <1>2, <1>11
      <3> QED BY <3>1, <1>12 DEF Owned, OwningPCs, WritingPCs
    <2>2. task'[a] = task[a] BY <2>1, <1>1, <1>2
    <2> QED BY <2>1, <2>2, <1>12 DEF Owned, NextId, Pending
  <1>13. Described'
    <2> SUFFICES ASSUME NEW s \in Series, NEW m \in Known(s)', NEW f \in FileAt(s, m.segment_id)
                 PROVE  m = MetaOf(f)
      BY <1>2 DEF Described, FileAt, MetaOf
    <2>1. CASE m \in Known(s) BY <2>1 DEF ManifestInv, Described
    <2>2. CASE s \in P /\ m = meta(s) /\ m.segment_id = NextId(t, s) BY <2>2, <1>8
    <2> QED BY <2>1, <2>2, <1>10
  <1>14. status # "down" BY <1>1, <1>2, RunningStatus DEF RunsWhile
  <1>15. KnownBelow'
    <2> SUFFICES ASSUME NEW s \in Series, NEW m \in Known(s)'
                 PROVE  manifest'[s] # None /\ m.segment_id < manifest'[s].next_segment_id
      BY DEF KnownBelow
    <2>1. manifest[s] # None /\ m.segment_id < manifest[s].next_segment_id
      <3>1. CASE m \in Known(s) BY <3>1, <1>14 DEF ManifestInv, KnownBelow
      <3>2. CASE s \in P /\ m.segment_id = NextId(t, s)
        BY <3>2, <1>1, <1>3, <1>4 DEF ManifestInv, OwnedUnknown
      <3> QED BY <3>1, <3>2, <1>10
    <2> QED BY <2>1, <1>4, <1>5, <1>6
  <1>16. OwnedUnknown'
    <2> SUFFICES ASSUME NEW a \in Actors, NEW s \in Series, Owned(a, s)'
                 PROVE  /\ NextId(a, s)' < manifest'[s].next_segment_id
                        /\ \A m \in Known(s)' : m.segment_id # NextId(a, s)'
      BY DEF OwnedUnknown
    <2>1. a # t /\ Owned(a, s) /\ NextId(a, s)' = NextId(a, s) BY <1>12
    <2>2. NextId(a, s) < manifest[s].next_segment_id
          /\ \A m \in Known(s) : m.segment_id # NextId(a, s)
      BY <2>1 DEF ManifestInv, OwnedUnknown
    <2>3. NextId(a, s)' < manifest'[s].next_segment_id BY <2>1, <2>2, <1>5, <1>6
    <2>4. s \in P => NextId(t, s) # NextId(a, s)
      BY <2>1, <1>1, <1>3 DEF ManifestInv, OwnedDistinct
    <2> QED BY <2>1, <2>2, <2>3, <2>4, <1>10
  <1>17. OwnedDistinct' BY <1>12 DEF ManifestInv, OwnedDistinct
  <1>18. OwnedWritten'
    <2> SUFFICES ASSUME NEW a \in Actors, NEW s \in Series, Owned(a, s)',
                        Written(task'[a].pending[s]), NEW f \in FileAt(s, NextId(a, s))'
                 PROVE  /\ f.samples = task'[a].pending[s].samples
                        /\ f.size_bytes = task'[a].pending[s].size_bytes
      BY DEF OwnedWritten, Written
    <2>1. Owned(a, s) /\ task'[a] = task[a] /\ NextId(a, s)' = NextId(a, s) BY <1>12
    <2>2. f \in FileAt(s, NextId(a, s)) BY <2>1, <1>2 DEF FileAt
    <2> QED BY <2>1, <2>2 DEF ManifestInv, OwnedWritten
  <1> QED BY <1>13, <1>15, <1>16, <1>17, <1>18 DEF ManifestInv

\* After its commit a flush owns no id.
LEMMA AdvanceManifest ==
    ASSUME StorageInv, ManifestInv, StorageInv', NEW t \in Tasks, NEW s \in Series, Advance(t, s)
    PROVE  ManifestInv'
  <1> DEFINE r == Visited(task[t], s, "evict", Pending(task[t]))
  <1>1. t \in Actors /\ task[t] \in Task BY DEF StorageInv, TypeOK, Actors
  <1>2. /\ task[t].pc = "advance" /\ task' = [task EXCEPT ![t] = r]
        /\ UNCHANGED <<files, manifest, saved, status>>
    BY DEF Advance, At, disk
  <1>3. r.pc \in {"advance", "evict", "idle"} BY <1>1, <1>2, VisitedPending
  <1> HIDE DEF r
  <1>4. r.pc \notin OwningPCs BY <1>3 DEF OwningPCs, WritingPCs
  <1> QED BY <1>1, <1>2, <1>4, ThreadManifest

-----------------------------------------------------------------------------
(* Evictions, crashes and recovery.                                        *)

\* An eviction removes files and entries, and leaves the next ids alone.
LEMMA EvictManifest ==
    ASSUME StorageInv, ManifestInv, StorageInv', NEW a \in Actors, EvictStep(a) \/ EvictError(a)
    PROVE  ManifestInv'
  <1>1. /\ TypeOK /\ SeriesOK /\ SeriesOK'
        /\ task[a] \in Task /\ task \in [Actors -> Task] /\ TaskOK(task[a], series)
    BY DEF StorageInv, TypeOK
  <1>2. PICK s \in Series :
            \/ EvictChoose(a, s) \/ EvictDone(a, s) \/ EvictRemove(a, s) \/ EvictRemoveFails(a, s)
            \/ DirCheck(a, s) \/ DirCheckFails(a, s) \/ Rmdir(a, s)
            \/ \E ok \in BOOLEAN : EvictUpdate(a, s, ok)
    BY DEF EvictStep, EvictError
  <1>3. task[a].pc \in {"evict"} \union EvictingPCs
    BY <1>2 DEF EvictChoose, EvictDone, EvictRemove, EvictRemoveFails, DirCheck, DirCheckFails,
                Rmdir, EvictUpdate, At, Working, EvictingPCs
  <1>4. status # "down" BY <1>3, RunningStatus DEF EvictingPCs, RunsWhile
  <1>5. PICK r : task' = [task EXCEPT ![a] = r] /\ r.pc \notin OwningPCs
    <2>1. CASE task' = [task EXCEPT ![a] = IdleTask]
      BY <2>1, IdleTaskType DEF OwningPCs, WritingPCs
    <2>2. ASSUME NEW pc \in EvictingPCs, GoTo(a, pc)
          PROVE  \E r : task' = [task EXCEPT ![a] = r] /\ r.pc \notin OwningPCs
      <3>1. task' = [task EXCEPT ![a] = [task[a] EXCEPT !.pc = pc]] BY <2>2 DEF GoTo
      <3>2. [task[a] EXCEPT !.pc = pc].pc = pc BY <1>1 DEF Task
      <3>3. pc \notin OwningPCs BY <2>2 DEF EvictingPCs, OwningPCs, WritingPCs
      <3> QED BY <3>1, <3>2, <3>3
    <2>3. CASE EvictChoose(a, s)
      <3> DEFINE m == Oldest(manifest[s].segments)
                 v == [segment_id |-> m.segment_id, size_bytes |-> m.size_bytes]
                 r == [task[a] EXCEPT !.pc = "remove", !.current = s, !.victim = v]
      <3>1. task' = [task EXCEPT ![a] = r] BY <2>3 DEF EvictChoose
      <3> HIDE DEF v
      <3>2. r.pc = "remove" BY <1>1 DEF Task
      <3> QED BY <3>1, <3>2 DEF OwningPCs, WritingPCs
    <2>4. CASE EvictDone(a, s)
      <3>1. CASE task[a].todo = {s} BY <2>1, <2>4, <3>1 DEF EvictDone, Return
      <3>2. CASE task[a].todo # {s}
        <4>1. task' = [task EXCEPT ![a] = [task[a] EXCEPT !.todo = task[a].todo \ {s}]]
          BY <2>4, <3>2 DEF EvictDone
        <4>2. [task[a] EXCEPT !.todo = task[a].todo \ {s}].pc = "evict"
          BY <2>4, <1>1 DEF Task, EvictDone, At
        <4> QED BY <4>1, <4>2 DEF OwningPCs, WritingPCs
      <3> QED BY <3>1, <3>2
    <2>5. CASE EvictRemove(a, s) \/ DirCheck(a, s) \/ Rmdir(a, s)
      BY <2>2, <2>5 DEF EvictRemove, DirCheck, Rmdir, EvictingPCs
    <2>6. CASE EvictRemoveFails(a, s) \/ DirCheckFails(a, s)
      BY <2>1, <2>6 DEF EvictRemoveFails, DirCheckFails, Return
    <2>7. ASSUME NEW ok \in BOOLEAN, EvictUpdate(a, s, ok)
          PROVE  \E r : task' = [task EXCEPT ![a] = r] /\ r.pc \notin OwningPCs
      <3> DEFINE r == [task[a] EXCEPT !.pc = "evict", !.current = None, !.victim = NoVictim]
      <3>1. task' = [task EXCEPT ![a] = r] \/ Return(a) BY <2>7 DEF EvictUpdate
      <3>2. r.pc = "evict" BY <1>1 DEF Task
      <3> HIDE DEF r
      <3>3. r.pc \notin OwningPCs BY <3>2 DEF OwningPCs, WritingPCs
      <3> QED BY <2>1, <3>1, <3>3 DEF Return
    <2> QED BY <1>2, <2>3, <2>4, <2>5, <2>6, <2>7
  <1>6. \A b \in Actors, x \in Series :
            Owned(b, x)' => Owned(b, x) /\ task'[b].pending[x] = task[b].pending[x]
    BY <1>5, OtherOwners
  <1>7. files' \subseteq files
    BY <1>2 DEF EvictChoose, EvictDone, EvictRemove, EvictRemoveFails, DirCheck, DirCheckFails,
                Rmdir, EvictUpdate, disk
  <1>8. \A x \in Series : manifest[x] # None =>
            manifest[x] \in SeriesEntry /\ manifest[x].next_segment_id \in Nat
    BY <1>1 DEF TypeOK, Manifest, SeriesEntry
  <1>9. CASE UNCHANGED <<manifest, saved>>
    <2>1. \A x \in Series : Known(x)' = Known(x) BY <1>9 DEF Known
    <2>2. \A x \in Series : manifest[x] # None =>
              /\ manifest'[x] # None
              /\ manifest'[x].next_segment_id >= manifest[x].next_segment_id
      BY <1>8, <1>9
    <2> QED BY <2>1, <2>2, <1>4, <1>6, <1>7, KeepsManifest
  <1>10. ASSUME NEW ok \in BOOLEAN, EvictUpdate(a, s, ok) PROVE ManifestInv'
    <2> DEFINE e == Dropped(manifest[s], task[a].victim)
    <2>1. /\ manifest' = [manifest EXCEPT ![s] = e]
          /\ saved' \in {saved, manifest'} /\ series' = series /\ s \in series
      BY <1>10, <1>1 DEF EvictUpdate, Save, Working, TaskOK, EvictingPCs
    <2>2. manifest[s] # None /\ manifest[s] \in SeriesEntry BY <2>1, <1>1, <1>8 DEF SeriesOK
    <2>3. e.next_segment_id = manifest[s].next_segment_id /\ e.segments \subseteq manifest[s].segments
      BY <2>2 DEF Dropped, SeriesEntry
    <2> HIDE DEF e
    <2>4. manifest'[s] = e /\ \A x \in Series \ {s} : manifest'[x] = manifest[x]
      BY <2>1, <1>1 DEF TypeOK, Manifest
    <2>5. ASSUME NEW x \in Series PROVE Known(x)' \subseteq Known(x)
      <3>1. manifest'[x] # None => manifest'[x].segments \subseteq Known(x)
        <4>1. manifest[x] # None => manifest[x].segments \subseteq Known(x) BY DEF Known
        <4>2. CASE x = s BY <4>1, <4>2, <2>2, <2>3, <2>4
        <4>3. CASE x # s BY <4>1, <4>3, <2>4
        <4> QED BY <4>2, <4>3
      <3> QED BY <3>1, <2>1, KnownAfterSave
    <2>6. ASSUME NEW x \in Series, manifest[x] # None
          PROVE  /\ manifest'[x] # None
                 /\ manifest'[x].next_segment_id >= manifest[x].next_segment_id
      <3>1. CASE x = s
        <4>1. manifest'[s] # None BY <2>1, <1>1 DEF SeriesOK
        <4> QED BY <3>1, <4>1, <2>3, <2>4, <2>6, <1>8
      <3>2. CASE x # s BY <3>2, <2>4, <2>6, <1>8
      <3> QED BY <3>1, <3>2
    <2> QED BY <2>5, <2>6, <1>4, <1>6, <1>7, KeepsManifest
  <1>11. UNCHANGED <<manifest, saved>> \/ \E ok \in BOOLEAN : EvictUpdate(a, s, ok)
    BY <1>2 DEF EvictChoose, EvictDone, EvictRemove, EvictRemoveFails, DirCheck, DirCheckFails,
                Rmdir, memory, disk
  <1> QED BY <1>9, <1>10, <1>11

\* While the engine is down manifest.json describes what files there are.
LEMMA DownManifest ==
    ASSUME StorageInv, ManifestInv, StorageInv',
           Crash \/ LoseManifest \/ \E f \in files : HeaderUnreadable(f)
    PROVE  ManifestInv'
  <1>1. /\ status' = "down" /\ files' \subseteq files
        /\ saved' = saved \/ saved' = [s \in Series |-> None]
        /\ manifest' = manifest \/ manifest' = [s \in Series |-> None]
    BY DEF Crash, LoseManifest, HeaderUnreadable, memory, disk
  <1>2. ASSUME NEW s \in Series PROVE Known(s)' \subseteq Known(s)
    <2>1. saved'[s] \in {saved[s], None} /\ manifest'[s] \in {manifest[s], None} BY <1>1
    <2> QED BY <2>1 DEF Known
  <1>3. \A a \in Actors, s \in Series : ~Owned(a, s)'
    <2>1. StatusOK' BY DEF StorageInv
    <2>2. \A a \in Actors : task'[a].pc = "idle" BY <1>1, <2>1 DEF StatusOK, At, RunsWhile
    <2> QED BY <2>2 DEF Owned, OwningPCs, WritingPCs
  <1> QED BY <1>1, <1>2, <1>3, KeepsManifest

\* Recovery keeps the entries whose file is there, and makes the others from the
\* files.
LEMMA OpenManifest ==
    ASSUME StorageInv, IdsInv, ManifestInv, StorageInv', Open
    PROVE  ManifestInv'
  <1>1. TypeOK /\ StatusOK /\ SeriesOK' /\ task \in [Actors -> Task]
    BY DEF StorageInv, TypeOK
  <1>2. /\ status = "down"
        /\ manifest' = [s \in Series |-> RecoveredEntry(s)] /\ saved' = manifest'
        /\ files' = files \ UNION {Misfits(s) : s \in {x \in Series : IsRecovered(x)}}
        /\ series' = {s \in Series : IsRecovered(s)}
        /\ \/ task' = [task EXCEPT ![Opener] = IdleTask]
           \/ task' = [task EXCEPT ![Opener] = [IdleTask EXCEPT !.pc = "evict", !.todo = series']]
    BY DEF Open, Save, Return
  <1>3. files' \subseteq files BY <1>2
  <1>4. \A a \in Actors, s \in Series : ~Owned(a, s)'
    <2>1. \A a \in Actors : task[a].pc = "idle" BY <1>1, <1>2 DEF StatusOK, At, RunsWhile
    <2>2. \A a \in Actors : task'[a].pc \in {"idle", "evict"}
      BY <1>1, <1>2, <2>1, IdleTaskType DEF IdleTask
    <2> QED BY <2>2 DEF Owned, OwningPCs, WritingPCs
  <1>5. ASSUME NEW s \in Series, NEW m \in Known(s)'
        PROVE  IsRecovered(s) /\ m \in RecoveredSegments(s)
    <2>1. manifest'[s] = RecoveredEntry(s) /\ saved'[s] = RecoveredEntry(s) BY <1>2
    <2>2. RecoveredEntry(s) # None /\ m \in RecoveredEntry(s).segments BY <2>1, <1>5 DEF Known
    <2> QED BY <2>2 DEF RecoveredEntry
  <1>6. Described'
    <2> SUFFICES ASSUME NEW s \in Series, NEW m \in Known(s)', NEW f \in FileAt(s, m.segment_id)'
                 PROVE  m = MetaOf(f)
      BY DEF Described, MetaOf
    <2>1. f \in files /\ f.data_id = s /\ f.segment_id = m.segment_id BY <1>3 DEF FileAt
    <2>2. CASE m \in Kept(s)
      <3>1. m \in Known(s) BY <2>2 DEF Kept, Known
      <3> QED BY <2>1, <3>1 DEF ManifestInv, Described, FileAt
    <2>3. ASSUME NEW g \in Unknown(s), m = MetaOf(g) PROVE m = MetaOf(f)
      <3>1. g \in files /\ g.data_id = s BY DEF Unknown, FilesOf
      <3>2. m.segment_id = g.segment_id BY <2>3 DEF MetaOf
      <3>3. f = g BY <2>1, <3>1, <3>2 DEF IdsInv, UniquePaths
      <3> QED BY <2>3, <3>3
    <2> QED BY <1>5, <2>2, <2>3 DEF RecoveredSegments
  <1>7. KnownBelow'
    <2> SUFFICES ASSUME NEW s \in Series, NEW m \in Known(s)'
                 PROVE  manifest'[s] # None /\ m.segment_id < manifest'[s].next_segment_id
      BY DEF KnownBelow
    <2>1. IsRecovered(s) /\ m \in RecoveredSegments(s) BY <1>5
    <2>2. manifest'[s] # None BY <2>1, <1>1, <1>2 DEF SeriesOK
    <2>3. manifest'[s].next_segment_id = NextSegmentId(RecoveredSegments(s))
      <3>1. manifest'[s] = RecoveredEntry(s) BY <1>2
      <3> QED BY <3>1, <2>1 DEF RecoveredEntry
    <2> QED BY <2>1, <2>2, <2>3, RecoveredIds
  <1>8. OwnedUnknown' /\ OwnedDistinct' /\ OwnedWritten'
    BY <1>4 DEF OwnedUnknown, OwnedDistinct, OwnedWritten
  <1> QED BY <1>6, <1>7, <1>8 DEF ManifestInv

-----------------------------------------------------------------------------
(* The theorem.                                                            *)

\* Every step keeps the invariant.
LEMMA NextManifest ==
    StorageInv /\ StorageInv' /\ IdsInv /\ ManifestInv /\ [Next]_vars => ManifestInv'
  <1> SUFFICES ASSUME StorageInv, StorageInv', IdsInv, ManifestInv, [Next]_vars
               PROVE  ManifestInv'
    OBVIOUS
  <1>1. CASE Client BY <1>1, RegisterManifest, BeginManifest DEF Client
  <1>2. ASSUME NEW t \in Tasks, Running(t) PROVE ManifestInv'
    <2>1. t \in Actors BY DEF Actors
    <2>2. CASE AppendStep(t) BY <2>2, AppendManifest DEF AppendStep
    <2>3. CASE FlushStep(t)
      BY <2>3, PrepareManifest, AllocManifest, WriteManifest, RenameManifest, CommitManifest,
         AdvanceManifest
      DEF FlushStep
    <2>4. CASE EvictStep(t) \/ EvictError(t) BY <2>1, <2>4, EvictManifest
    <2> QED BY <1>2, <2>2, <2>3, <2>4 DEF Running
  <1>3. CASE EvictStep(Opener)
    <2>1. Opener \in Actors BY DEF Actors
    <2> QED BY <2>1, <1>3, EvictManifest
  <1>4. CASE Open BY <1>4, OpenManifest
  <1>5. CASE Crash \/ LoseManifest \/ \E f \in files : HeaderUnreadable(f)
    BY <1>5, DownManifest
  <1>6. CASE UNCHANGED vars
    <2>1. UNCHANGED <<files, manifest, saved, status, task>> BY <1>6 DEF vars, memory, disk
    <2>2. \A s \in Series : Known(s)' = Known(s) BY <2>1 DEF Known
    <2>3. \A s \in Series : manifest[s] # None => manifest[s].next_segment_id \in Nat
      BY DEF StorageInv, TypeOK, Manifest, SeriesEntry
    <2>4. \A s \in Series : manifest[s] # None =>
              /\ manifest'[s] # None
              /\ manifest'[s].next_segment_id >= manifest[s].next_segment_id
      BY <2>1, <2>3
    <2>5. \A a \in Actors, s \in Series :
              Owned(a, s)' => Owned(a, s) /\ task'[a].pending[s] = task[a].pending[s]
      BY <2>1 DEF Owned, Pending
    <2> QED BY <2>1, <2>2, <2>4, <2>5, KeepsManifest
  <1> QED BY <1>1, <1>2, <1>3, <1>4, <1>5, <1>6 DEF Next

\* Nothing is known of any series at first.
LEMMA InitManifest == Init => ManifestInv
  <1> SUFFICES ASSUME Init PROVE ManifestInv OBVIOUS
  <1>1. \A s \in Series : Known(s) = {} BY DEF Init, Known
  <1>2. \A a \in Actors, s \in Series : ~Owned(a, s)
    BY IdleTaskType DEF Init, Owned, OwningPCs, WritingPCs
  <1> QED BY <1>1, <1>2 DEF ManifestInv, Described, KnownBelow, OwnedUnknown, OwnedDistinct,
                            OwnedWritten

\* Whatever flushes, evictions, crashes and recoveries come together, the manifests
\* know no segment that a flush has yet to register, and what they know is on disk.
THEOREM ManifestInvariant == Spec => []ManifestInv
BY StorageInvariant, IdsInvariant, InitManifest, NextManifest, PTL DEF Spec

\* Whatever flushes, evictions, crashes and recoveries come together, an entry in
\* memory or in manifest.json describes the file that is at its path: no flush
\* registers a segment under an id that another flush or an older manifest uses.
THEOREM ManifestAccurate == Spec => []ManifestDescribesFiles
  <1>1. ManifestInv => ManifestDescribesFiles
    BY DEF ManifestInv, Described, ManifestDescribesFiles, Known
  <1> QED BY <1>1, ManifestInvariant, PTL

-----------------------------------------------------------------------------
(* Registrations outlive a save that fails, a crash and a recovery.        *)

\* What a step may not do to the registrations on disk.
KeepsRegistrations ==
    status' # "down" => \A s \in Series :
        /\ s \in series' => saved'[s] # None
        /\ saved[s] # None =>
             /\ saved'[s] # None /\ saved'[s].series_type = saved[s].series_type
             /\ saved[s].max_storage_bytes \in {None, saved'[s].max_storage_bytes}
             /\ status = "down" => s \in series'

\* The manifest in memory has what manifest.json has of a series, and a series that
\* serves requests is in manifest.json.
RegistrationsSaved ==
    status # "down" => \A s \in Series :
        /\ s \in series => saved[s] # None
        /\ saved[s] # None => /\ manifest[s] # None
                              /\ manifest[s].series_type = saved[s].series_type
                              /\ manifest[s].max_storage_bytes = saved[s].max_storage_bytes

\* A running engine changes neither the type nor the limit of a series, and saves
\* the manifest that it has.
LEMMA RunningRegistrations ==
    ASSUME RegistrationsSaved, status # "down", saved' \in {saved, manifest'},
           series' \subseteq series \union {s \in Series : saved'[s] # None},
           \A s \in Series : manifest[s] # None =>
               /\ manifest'[s] # None
               /\ manifest'[s].series_type = manifest[s].series_type
               /\ manifest'[s].max_storage_bytes = manifest[s].max_storage_bytes
    PROVE  RegistrationsSaved' /\ KeepsRegistrations
  <1>1. ASSUME NEW s \in Series, saved[s] # None
        PROVE  /\ saved'[s] # None /\ saved'[s].series_type = saved[s].series_type
               /\ saved'[s].max_storage_bytes = saved[s].max_storage_bytes
    <2>1. /\ manifest[s] # None
          /\ manifest[s].series_type = saved[s].series_type
          /\ manifest[s].max_storage_bytes = saved[s].max_storage_bytes
      BY <1>1 DEF RegistrationsSaved
    <2>2. CASE saved' = saved BY <2>2, <1>1
    <2>3. CASE saved' = manifest' BY <2>1, <2>3
    <2> QED BY <2>2, <2>3
  <1>2. ASSUME NEW s \in Series, s \in series' PROVE saved'[s] # None
    BY <1>1, <1>2 DEF RegistrationsSaved
  <1>3. ASSUME NEW s \in Series, saved'[s] # None
        PROVE  /\ manifest'[s] # None
               /\ manifest'[s].series_type = saved'[s].series_type
               /\ manifest'[s].max_storage_bytes = saved'[s].max_storage_bytes
    <2>1. CASE saved' = manifest' BY <2>1, <1>3
    <2>2. CASE saved' = saved BY <2>2, <1>3 DEF RegistrationsSaved
    <2> QED BY <2>1, <2>2
  <1>4. RegistrationsSaved' BY <1>2, <1>3 DEF RegistrationsSaved
  <1>5. KeepsRegistrations BY <1>1, <1>2 DEF KeepsRegistrations
  <1> QED BY <1>4, <1>5

\* A step that writes neither the manifest nor manifest.json.
LEMMA SameRegistrations ==
    ASSUME RegistrationsSaved, status # "down" \/ status' = status,
           UNCHANGED <<manifest, saved, series>>
    PROVE  RegistrationsSaved' /\ KeepsRegistrations
  <1>1. CASE status # "down"
    <2>1. saved' \in {saved, manifest'} /\ series' \subseteq series OBVIOUS
    <2> QED BY <1>1, <2>1, RunningRegistrations
  <1>2. CASE status = "down" /\ status' = "down"
    BY <1>2 DEF RegistrationsSaved, KeepsRegistrations
  <1> QED BY <1>1, <1>2

\* A thread's step.
LEMMA ThreadRegistrations ==
    ASSUME StorageInv, StorageInv', RegistrationsSaved, NEW a \in Actors,
           \/ a \in Tasks /\ Running(a)
           \/ EvictStep(a)
    PROVE  RegistrationsSaved' /\ KeepsRegistrations
  <1>1. /\ TypeOK /\ SeriesOK' /\ SeriesOK /\ task[a] \in Task /\ TaskOK(task[a], series)
    BY DEF StorageInv, TypeOK
  <1>2. task[a].pc # "idle" => status # "down" BY RunningStatus DEF RunsWhile
  <1>3. \A s \in Series : manifest[s] # None => manifest[s] \in SeriesEntry
    BY <1>1 DEF TypeOK, Manifest
  <1>4. ASSUME NEW s \in Series, a \in Tasks,
               \/ AppendGroup(a, s) \/ Prepare(a, s) \/ Mkdir(a, s) \/ CreateTmp(a, s)
               \/ CreateTmpNoDir(a, s) \/ WriteFails(a, s) \/ Advance(a, s)
               \/ \E size \in SegmentSizes, ok \in BOOLEAN : Rename(a, s, size, ok)
        PROVE  RegistrationsSaved' /\ KeepsRegistrations
    <2>1. UNCHANGED <<manifest, saved, series, status>>
      BY <1>4, Zenon
      DEF AppendGroup, Prepare, Mkdir, CreateTmp, CreateTmpNoDir, WriteFails, Advance,
                  Rename, memory, disk
    <2> QED BY <2>1, SameRegistrations
  <1>5. ASSUME NEW s \in Series,
               \/ EvictChoose(a, s) \/ EvictDone(a, s) \/ EvictRemove(a, s)
               \/ EvictRemoveFails(a, s) \/ DirCheck(a, s) \/ DirCheckFails(a, s) \/ Rmdir(a, s)
        PROVE  RegistrationsSaved' /\ KeepsRegistrations
    <2>1. UNCHANGED <<manifest, saved, series>>
      BY <1>5 DEF EvictChoose, EvictDone, EvictRemove, EvictRemoveFails, DirCheck, DirCheckFails,
                  Rmdir, memory, disk
    <2>2. task[a].pc # "idle"
      BY <1>5 DEF EvictChoose, EvictDone, EvictRemove, EvictRemoveFails, DirCheck, DirCheckFails,
                  Rmdir, At, Working
    <2> QED BY <2>1, <2>2, <1>2, SameRegistrations
  <1>6. CASE Alloc(a)
    <2>1. /\ manifest' = [s \in Series |-> IF s \in Pending(task[a])
               THEN [manifest[s] EXCEPT !.next_segment_id = @ + 1] ELSE manifest[s]]
          /\ UNCHANGED <<saved, series>> /\ status # "down"
      BY <1>2, <1>6 DEF Alloc, At, disk
    <2>2. ASSUME NEW s \in Series, manifest[s] # None
          PROVE  /\ manifest'[s] # None
                 /\ manifest'[s].series_type = manifest[s].series_type
                 /\ manifest'[s].max_storage_bytes = manifest[s].max_storage_bytes
      <3>1. CASE s \notin Pending(task[a]) BY <2>1, <2>2, <3>1
      <3>2. CASE s \in Pending(task[a])
        <4>1. manifest'[s] = [manifest[s] EXCEPT !.next_segment_id = manifest[s].next_segment_id + 1]
          BY <2>1, <3>2
        <4>2. manifest'[s] # None BY <2>1, <3>2, <1>1 DEF TaskOK, SeriesOK
        <4> QED BY <4>1, <4>2, <2>2, <1>3 DEF SeriesEntry
      <3> QED BY <3>1, <3>2
    <2>3. saved' \in {saved, manifest'} /\ series' \subseteq series BY <2>1
    <2> QED BY <2>1, <2>2, <2>3, RunningRegistrations
  <1>7. ASSUME NEW ok \in BOOLEAN, Commit(a, ok) PROVE RegistrationsSaved' /\ KeepsRegistrations
    <2>1. /\ manifest' = [s \in Series |-> IF s \in Pending(task[a])
               THEN Registered(manifest[s], task[a].pending[s]) ELSE manifest[s]]
          /\ saved' \in {saved, manifest'} /\ series' = series /\ status # "down"
      BY <1>2, <1>7 DEF Commit, Save, At
    <2>2. ASSUME NEW s \in Series, manifest[s] # None
          PROVE  /\ manifest'[s] # None
                 /\ manifest'[s].series_type = manifest[s].series_type
                 /\ manifest'[s].max_storage_bytes = manifest[s].max_storage_bytes
      <3>1. CASE s \notin Pending(task[a]) BY <2>1, <2>2, <3>1
      <3>2. CASE s \in Pending(task[a])
        <4>1. manifest'[s] = Registered(manifest[s], task[a].pending[s]) BY <2>1, <3>2
        <4>2. manifest'[s] # None BY <2>1, <3>2, <1>1 DEF TaskOK, SeriesOK
        <4> QED BY <4>1, <4>2, <2>2, <1>3 DEF SeriesEntry, Registered
      <3> QED BY <3>1, <3>2
    <2>3. series' \subseteq series BY <2>1
    <2> QED BY <2>1, <2>2, <2>3, RunningRegistrations
  <1>8. ASSUME NEW s \in Series, NEW ok \in BOOLEAN, EvictUpdate(a, s, ok)
        PROVE  RegistrationsSaved' /\ KeepsRegistrations
    <2> DEFINE e == Dropped(manifest[s], task[a].victim)
    <2>1. /\ manifest' = [manifest EXCEPT ![s] = e] /\ saved' \in {saved, manifest'}
          /\ series' = series /\ s \in series /\ status # "down"
      BY <1>1, <1>2, <1>8 DEF EvictUpdate, Save, Working, TaskOK, EvictingPCs
    <2>2. manifest[s] # None /\ manifest[s] \in SeriesEntry BY <2>1, <1>1, <1>3 DEF SeriesOK
    <2>3. e.series_type = manifest[s].series_type
          /\ e.max_storage_bytes = manifest[s].max_storage_bytes
      BY <2>2 DEF Dropped, SeriesEntry
    <2> HIDE DEF e
    <2>4. manifest'[s] = e /\ \A x \in Series \ {s} : manifest'[x] = manifest[x]
      BY <2>1, <1>1 DEF TypeOK, Manifest
    <2>5. manifest'[s] # None BY <2>1, <1>1 DEF SeriesOK
    <2>6. \A x \in Series : manifest[x] # None =>
              /\ manifest'[x] # None
              /\ manifest'[x].series_type = manifest[x].series_type
              /\ manifest'[x].max_storage_bytes = manifest[x].max_storage_bytes
      BY <2>3, <2>4, <2>5
    <2>7. series' \subseteq series BY <2>1
    <2> QED BY <2>1, <2>6, <2>7, RunningRegistrations
  <1>9. CASE AppendStep(a) /\ a \in Tasks BY <1>4, <1>9 DEF AppendStep
  <1>10. CASE FlushStep(a) /\ a \in Tasks BY <1>4, <1>6, <1>7, <1>10 DEF FlushStep
  <1>11. CASE EvictStep(a) BY <1>5, <1>8, <1>11 DEF EvictStep
  <1>12. CASE EvictError(a) BY <1>5, <1>12 DEF EvictError
  <1> QED BY <1>9, <1>10, <1>11, <1>12 DEF Running

\* A registration that is not saved is none that the engine serves.
LEMMA ClientRegistrations ==
    ASSUME StorageInv, RegistrationsSaved, Client
    PROVE  RegistrationsSaved' /\ KeepsRegistrations
  <1>1. ASSUME NEW s \in Series, NEW type \in SeriesTypes, NEW limit \in Limits,
               NEW ok \in BOOLEAN, Register(s, type, limit, ok)
        PROVE  RegistrationsSaved' /\ KeepsRegistrations
    <2> DEFINE e == NewEntry(type, Clamp(limit))
    <2>1. /\ manifest[s] = None /\ status = "serving"
          /\ manifest' = [manifest EXCEPT ![s] = e] /\ saved' \in {saved, manifest'}
          /\ ok => saved' = manifest' /\ series' = series \union {s}
          /\ ~ok => series' = series
      BY <1>1 DEF Register, Save, CanRegister
    <2>2. manifest \in [Series -> SeriesEntry \union {None}] BY DEF StorageInv, TypeOK, Manifest
    <2>3. \A x \in Series : manifest[x] # None => manifest'[x] = manifest[x] BY <2>1, <2>2
    <2>4. manifest'[s] # None
      <3>1. \A entry \in SeriesEntry : entry # None BY NoneAssumption
      <3>2. e \in SeriesEntry BY <1>1, NewEntryType DEF Register
      <3> QED BY <3>1, <3>2, <2>1, <2>2
    <2> HIDE DEF e
    <2>5. series' \subseteq series \union {x \in Series : saved'[x] # None} BY <2>1, <2>4
    <2>6. \A x \in Series : manifest[x] # None =>
              /\ manifest'[x] # None
              /\ manifest'[x].series_type = manifest[x].series_type
              /\ manifest'[x].max_storage_bytes = manifest[x].max_storage_bytes
      BY <2>3
    <2> QED BY <2>1, <2>5, <2>6, RunningRegistrations
  <1>2. ASSUME NEW t \in Tasks,
               \/ \E batch \in Batches : BeginAppend(t, batch)
               \/ \E ids \in (SUBSET series) \ {{}} : BeginFlush(t, ids)
        PROVE  RegistrationsSaved' /\ KeepsRegistrations
    <2>1. UNCHANGED <<manifest, saved, series, status>>
      BY <1>2, Zenon DEF BeginAppend, BeginFlush, memory, disk
    <2> QED BY <2>1, SameRegistrations
  <1> QED BY <1>1, <1>2 DEF Client

\* Recovery keeps every series of manifest.json, and gives a limit to one that has
\* none.
LEMMA OpenRegistrations ==
    ASSUME StorageInv, Open
    PROVE  RegistrationsSaved' /\ KeepsRegistrations
  <1>1. StorageInv' BY OpenInv
  <1>2. /\ manifest' = [s \in Series |-> RecoveredEntry(s)] /\ saved' = manifest'
        /\ series' = {s \in Series : IsRecovered(s)}
    BY DEF Open, Save
  <1>3. \A s \in series' : saved'[s] # None BY <1>1, <1>2 DEF StorageInv, SeriesOK
  <1>4. RegistrationsSaved' BY <1>2, <1>3 DEF RegistrationsSaved
  <1>5. ASSUME NEW s \in Series, saved[s] # None
        PROVE  /\ s \in series' /\ saved'[s].series_type = saved[s].series_type
               /\ saved[s].max_storage_bytes \in {None, saved'[s].max_storage_bytes}
    <2>1. IsRecovered(s) BY <1>5 DEF IsRecovered
    <2>2. s \in series' /\ saved'[s] = RecoveredEntry(s) BY <2>1, <1>2
    <2>3. /\ saved'[s].series_type = RecoveredType(s)
          /\ saved'[s].max_storage_bytes = RecoveredLimit(s)
      BY <2>1, <2>2 DEF RecoveredEntry
    <2> QED BY <2>2, <2>3, <1>5 DEF RecoveredType, RecoveredLimit
  <1>6. KeepsRegistrations BY <1>3, <1>5 DEF KeepsRegistrations
  <1> QED BY <1>4, <1>6

\* Every step keeps what is registered.
LEMMA NextRegistrations ==
    StorageInv /\ StorageInv' /\ RegistrationsSaved /\ [Next]_vars =>
        RegistrationsSaved' /\ KeepsRegistrations
  <1> SUFFICES ASSUME StorageInv, StorageInv', RegistrationsSaved, [Next]_vars
               PROVE  RegistrationsSaved' /\ KeepsRegistrations
    OBVIOUS
  <1>1. CASE Client BY <1>1, ClientRegistrations
  <1>2. ASSUME NEW t \in Tasks, Running(t) PROVE RegistrationsSaved' /\ KeepsRegistrations
    <2>1. t \in Actors BY DEF Actors
    <2> QED BY <1>2, <2>1, ThreadRegistrations
  <1>3. CASE EvictStep(Opener)
    <2>1. Opener \in Actors BY DEF Actors
    <2> QED BY <1>3, <2>1, ThreadRegistrations
  <1>4. CASE Open BY <1>4, OpenRegistrations
  <1>5. CASE Crash \/ LoseManifest \/ \E f \in files : HeaderUnreadable(f)
    <2>1. status' = "down" BY <1>5 DEF Crash, LoseManifest, HeaderUnreadable
    <2> QED BY <2>1 DEF RegistrationsSaved, KeepsRegistrations
  <1>6. CASE UNCHANGED vars
    <2>1. UNCHANGED <<manifest, saved, series, status>> BY <1>6 DEF vars, memory, disk
    <2> QED BY <2>1, SameRegistrations
  <1> QED BY <1>1, <1>2, <1>3, <1>4, <1>5, <1>6 DEF Next

\* A registration is permanent: no step of any thread, no save that fails and no
\* recovery forgets a series that manifest.json has, or changes its type or limit.
THEOREM RegistrationsPermanent == Spec => RegistrationDurable
  <1>1. Init => RegistrationsSaved BY DEF Init, RegistrationsSaved
  <1>2. StorageInv /\ StorageInv' /\ RegistrationsSaved /\ [Next]_vars =>
            RegistrationsSaved' /\ [KeepsRegistrations]_vars
    BY NextRegistrations
  <1>3. Spec => [][KeepsRegistrations]_vars BY <1>1, <1>2, StorageInvariant, PTL DEF Spec
  <1> QED BY <1>3 DEF RegistrationDurable, KeepsRegistrations

-----------------------------------------------------------------------------
(* Recovery is complete.                                                   *)

\* What Engine::open does to the segment files.
KeepsSegments ==
    status = "down" /\ status' # "down" =>
        /\ files' = files
        /\ \A f \in files : \E m \in manifest'[f.data_id].segments : m = MetaOf(f)

\* A file that manifest.json knows has the entry that describes it, and any other
\* file gets one.
LEMMA OpenSegments ==
    ASSUME StorageInv, OneType, ManifestInv, Open
    PROVE  KeepsSegments
  <1>1. files' = files BY OpenTypes
  <1>2. manifest' = [s \in Series |-> RecoveredEntry(s)] BY DEF Open, Save
  <1>3. /\ files' = files \ UNION {Misfits(s) : s \in {x \in Series : IsRecovered(x)}}
    BY DEF Open
  <1>4. ASSUME NEW f \in files PROVE \E m \in manifest'[f.data_id].segments : m = MetaOf(f)
    <2> DEFINE s == f.data_id
    <2>1. s \in Series BY DEF StorageInv, TypeOK, SegmentFile
    <2>2. f \in FilesOf(s) /\ IsRecovered(s) BY DEF FilesOf, IsRecovered
    <2>3. manifest'[s].segments = RecoveredSegments(s)
      <3>1. manifest'[s] = RecoveredEntry(s) BY <1>2, <2>1
      <3> QED BY <3>1, <2>2 DEF RecoveredEntry
    <2>4. f \notin Misfits(s) BY <1>1, <1>3, <2>1, <2>2
    <2>5. CASE f \in Unknown(s) BY <2>3, <2>4, <2>5 DEF RecoveredSegments
    <2>6. CASE f \notin Unknown(s)
      <3>1. PICK m \in Kept(s) : m.segment_id = f.segment_id BY <2>2, <2>6 DEF Unknown
      <3>2. m \in Known(s) BY <3>1 DEF Kept, Known
      <3>3. f \in FileAt(s, m.segment_id) BY <3>1 DEF FileAt
      <3>4. m = MetaOf(f) BY <2>1, <3>2, <3>3 DEF ManifestInv, Described
      <3> QED BY <2>3, <3>1, <3>4 DEF RecoveredSegments
    <2> QED BY <2>5, <2>6
  <1> QED BY <1>1, <1>4 DEF KeepsSegments

\* No other step takes the engine up.
LEMMA OnlyOpenStarts ==
    ASSUME StorageInv, [Next]_vars, status = "down", status' # "down"
    PROVE  Open
  <1>1. \A a \in Actors : task[a].pc = "idle" BY DEF StorageInv, StatusOK, At, RunsWhile
  <1>2. ~Client BY DEF Client, Register, BeginAppend, BeginFlush
  <1>3. ASSUME NEW a \in Actors PROVE ~EvictStep(a) /\ ~EvictError(a)
    <2>1. task[a].pc = "idle" BY <1>1
    <2>2. \A s \in Series, pc \in EvictingPCs : ~Working(a, pc, s) BY <2>1 DEF Working, EvictingPCs
    <2>3. ~At(a, "evict") BY <2>1 DEF At
    <2> QED BY <2>2, <2>3, Zenon DEF EvictStep, EvictError, EvictChoose, EvictDone, EvictRemove,
          EvictRemoveFails, DirCheck, DirCheckFails, Rmdir, EvictUpdate, EvictingPCs
  <1>4. ASSUME NEW t \in Tasks PROVE ~Running(t)
    <2>1. t \in Actors /\ task[t].pc = "idle" BY <1>1 DEF Actors
    <2>2. \A s \in Series, pc \in WritingPCs : ~Working(t, pc, s) BY <2>1 DEF Working, WritingPCs
    <2>3. ~AppendStep(t) BY <2>1 DEF AppendStep, AppendGroup, At
    <2>4. ~FlushStep(t)
      BY <2>1, <2>2, Zenon DEF FlushStep, Alloc, Commit, Prepare, Mkdir, CreateTmp, CreateTmpNoDir,
                        WriteFails, Rename, Advance, At, WritingPCs
    <2> QED BY <2>1, <2>3, <2>4, <1>3 DEF Running
  <1>5. ~EvictStep(Opener) BY <1>3 DEF Actors
  <1>6. Crash \/ LoseManifest \/ (\E f \in files : HeaderUnreadable(f)) \/ UNCHANGED vars =>
            status' = "down"
    BY DEF Crash, LoseManifest, HeaderUnreadable, vars
  <1> QED BY <1>2, <1>4, <1>5, <1>6 DEF Next

\* Whatever a crash left, and with manifest.json lost too, Engine::open deletes no
\* segment it can read and gives every one the entry that describes it.
THEOREM RecoveryComplete == Spec => RecoveryKeepsSegments
  <1>1. StorageInv /\ OneType /\ ManifestInv /\ [Next]_vars => [KeepsSegments]_vars
    BY OpenSegments, OnlyOpenStarts DEF KeepsSegments
  <1>2. Spec => [][KeepsSegments]_vars
    BY <1>1, ManifestInvariant, StorageInvariant, TypesAgree, PTL DEF Spec
  <1> QED BY <1>2 DEF RecoveryKeepsSegments, KeepsSegments

-----------------------------------------------------------------------------
(* The accounts: storage_bytes against the sizes of the segments.          *)

\* The entries of s in memory and in manifest.json.
Entries(s) == {manifest[s], saved[s]} \ {None}

\* Thread a is removing a segment of s.
Evicts(a, s) == task[a].pc \in EvictingPCs /\ task[a].current = s

\* What there is to add up is finite, an id names one segment of an entry, and a
\* victim has the size that its entry has, under an id that nobody will use again.
FiniteDisk ==
    IsFiniteSet(files) /\ \A s \in Series : \A e \in Entries(s) : IsFiniteSet(e.segments)
NamesOne(segments) == \A m, n \in segments : m.segment_id = n.segment_id => m = n
IdsName == \A s \in Series : \A e \in Entries(s) : NamesOne(e.segments)
VictimKnown ==
    \A a \in Actors, s \in Series : Evicts(a, s) =>
        /\ task[a].victim.segment_id < manifest[s].next_segment_id
        /\ \A b \in Actors : Owned(b, s) => NextId(b, s) # task[a].victim.segment_id
        /\ \A m \in manifest[s].segments :
               m.segment_id = task[a].victim.segment_id => m.size_bytes = task[a].victim.size_bytes

LedgerInv == FiniteDisk /\ IdsName /\ VictimKnown

\* What a step may make of an account: one that does not exceed the sum still does
\* not, and one that is the sum still is if the new sum fits a u64.
Exact(e) == e.storage_bytes = TotalSize(e.segments)
Carried(e, d) ==
    /\ e.storage_bytes <= TotalSize(e.segments) => d.storage_bytes <= TotalSize(d.segments)
    /\ Exact(e) /\ TotalSize(d.segments) <= MaxU64 => Exact(d)
KeepsAccounts ==
    \A s \in Series : manifest'[s] # None =>
        Exact(manifest'[s]) \/ (manifest[s] # None /\ Carried(manifest[s], manifest'[s]))

\* TotalSize is the sum of the sizes, in any order.
LEMMA TotalSizeSum ==
    ASSUME NEW S, IsFiniteSet(S), NEW w \in [S -> Nat], \A m \in S : w[m] = m.size_bytes
    PROVE  TotalSize(S) = SumOf(w, S)
  <1> DEFINE IsTotal(f) ==
                 f = [T \in SUBSET S |->
                         IF T = {} THEN 0 ELSE Picked(T).size_bytes + f[T \ {Picked(T)}]]
             sum == CHOOSE f : Sums(f, w, S)
             total == CHOOSE f : IsTotal(f)
  <1>1. Sums(sum, w, S) BY SumOfFacts
  <1> HIDE DEF sum
  <1>2. \A T \in SUBSET S : T # {} => w[Picked(T)] = Picked(T).size_bytes BY PickedFacts
  <1>3. ASSUME NEW f PROVE IsTotal(f) <=> Sums(f, w, S)
    <2>1. [T \in SUBSET S |->
              IF T = {} THEN 0 ELSE Picked(T).size_bytes + f[T \ {Picked(T)}]]
          = [T \in SUBSET S |-> IF T = {} THEN 0 ELSE w[Picked(T)] + f[T \ {Picked(T)}]]
      BY <1>2
    <2> QED BY <2>1 DEF Sums
  <1>4. IsTotal(sum) BY <1>1, <1>3
  <1> HIDE DEF IsTotal
  <1>5. IsTotal(total) BY <1>4
  <1>6. Sums(total, w, S) BY <1>3, <1>5
  <1> HIDE DEF total
  <1>7. S \in SUBSET S /\ \A x \in S : w[x] \in Nat OBVIOUS
  <1>8. total[S] = sum[S]
    <2>1. \A T \in SUBSET S : total[T] = sum[T] /\ total[T] \in Nat
      BY ONLY <1>1, <1>6, <1>7, IsFiniteSet(S), SumsAgree
    <2> QED BY <2>1
  <1>9. TotalSize(S) = total[S]
    BY DEF TotalSize, MapThenSumSet, MapThenFoldSet, Picked, total, IsTotal
  <1> QED BY <1>8, <1>9 DEF SumOf, sum

\* The size of no, and of one more segment.
LEMMA TotalSizeFacts ==
    ASSUME NEW S \in SUBSET SegmentMeta, IsFiniteSet(S)
    PROVE  /\ TotalSize(S) \in Nat /\ (S = {} => TotalSize(S) = 0)
           /\ \A m \in SegmentMeta \ S : TotalSize(S \union {m}) = m.size_bytes + TotalSize(S)
  <1> DEFINE size(T) == [m \in T |-> m.size_bytes]
  <1>1. \A T \in SUBSET SegmentMeta : size(T) \in [T -> Nat] BY StorageAssumption DEF SegmentMeta
  <1>2. \A T \in SUBSET SegmentMeta : \A m \in T : size(T)[m] = m.size_bytes OBVIOUS
  <1> HIDE DEF size
  <1>3. TotalSize(S) = SumOf(size(S), S) BY <1>1, <1>2, TotalSizeSum
  <1>4. TotalSize(S) \in Nat /\ (S = {} => TotalSize(S) = 0) BY <1>1, <1>3, SumOfFacts
  <1>5. ASSUME NEW m \in SegmentMeta \ S
        PROVE  TotalSize(S \union {m}) = m.size_bytes + TotalSize(S)
    <2> DEFINE R == S \union {m}
    <2>1. IsFiniteSet(R) /\ R \in SUBSET SegmentMeta /\ m \in R /\ m \notin S
      BY FS_AddElement
    <2>2. TotalSize(R) = SumOf(size(R), R) BY <2>1, <1>1, <1>2, TotalSizeSum
    <2>3. size(S) \in [S -> Nat] /\ size(R) \in [S \union {m} -> Nat] BY <2>1, <1>1
    <2>4. \A x \in S : size(S)[x] = size(R)[x] BY <2>1, <1>2
    <2>5. size(R)[m] = m.size_bytes BY <2>1, <1>2
    <2>6. SumOf(size(R), S \union {m}) = size(R)[m] + SumOf(size(S), S)
      BY <2>1, <2>3, <2>4, SumOfAdd
    <2> QED BY <2>2, <2>5, <2>6, <1>3
  <1> QED BY <1>4, <1>5

\* A registered segment adds its size, unless the sum no longer fits.
LEMMA RegisteredAccount ==
    ASSUME NEW e \in SeriesEntry, IsFiniteSet(e.segments), NamesOne(e.segments),
           NEW flush \in PendingFlush, flush.samples # {}, Written(flush),
           \A m \in e.segments : m.segment_id # flush.segment_id
    PROVE  /\ Carried(e, Registered(e, flush))
           /\ IsFiniteSet(Registered(e, flush).segments)
           /\ NamesOne(Registered(e, flush).segments)
  <1> DEFINE m == [segment_id |-> flush.segment_id,
                   min_ts_ms |-> MinTs(flush.samples), max_ts_ms |-> MaxTs(flush.samples),
                   size_bytes |-> flush.size_bytes]
             d == Registered(e, flush)
  <1>1. d \in SeriesEntry BY RegisteredType
  <1>2. d.segments = e.segments \union {m}
        /\ d.storage_bytes = SaturatingAdd(e.storage_bytes, flush.size_bytes)
    BY DEF Registered, SeriesEntry
  <1>3. m.segment_id = flush.segment_id /\ m.size_bytes = flush.size_bytes OBVIOUS
  <1> HIDE DEF m, d
  <1>4. m \in SegmentMeta \ e.segments BY <1>1, <1>2, <1>3 DEF SeriesEntry
  <1>5. /\ TotalSize(e.segments) \in Nat
        /\ TotalSize(d.segments) = flush.size_bytes + TotalSize(e.segments)
    BY <1>2, <1>3, <1>4, TotalSizeFacts DEF SeriesEntry
  <1>6. e.storage_bytes \in Nat /\ flush.size_bytes \in Nat /\ MaxU64 \in Nat
    BY StorageAssumption DEF SeriesEntry, PendingFlush
  <1>7. Carried(e, d) BY <1>2, <1>5, <1>6 DEF Carried, Exact, SaturatingAdd
  <1>8. IsFiniteSet(d.segments) BY <1>2, FS_AddElement
  <1>9. NamesOne(d.segments) BY <1>2, <1>3 DEF NamesOne
  <1> QED BY <1>7, <1>8, <1>9 DEF d

\* Dropping a victim subtracts its size, if it is still there.
LEMMA DroppedAccount ==
    ASSUME NEW e \in SeriesEntry, IsFiniteSet(e.segments), NamesOne(e.segments),
           NEW victim \in Victim,
           \A m \in e.segments : m.segment_id = victim.segment_id =>
                                     m.size_bytes = victim.size_bytes
    PROVE  /\ Carried(e, Dropped(e, victim))
           /\ Dropped(e, victim).segments \subseteq e.segments
           /\ Dropped(e, victim).next_segment_id = e.next_segment_id
  <1> DEFINE d == Dropped(e, victim)
  <1>1. CASE \A m \in e.segments : m.segment_id # victim.segment_id
    <2>1. d = e BY <1>1 DEF Dropped
    <2> QED BY <2>1 DEF Carried
  <1>2. ASSUME NEW m \in e.segments, m.segment_id = victim.segment_id
        PROVE  /\ Carried(e, d) /\ d.segments \subseteq e.segments
               /\ d.next_segment_id = e.next_segment_id
    <2>1. /\ d.segments = {n \in e.segments : n.segment_id # victim.segment_id}
          /\ d.storage_bytes = SaturatingSub(e.storage_bytes, victim.size_bytes)
          /\ d.next_segment_id = e.next_segment_id
      BY <1>2 DEF Dropped, SeriesEntry
    <2> HIDE DEF d
    <2>2. d.segments = e.segments \ {m} BY <1>2, <2>1 DEF NamesOne
    <2>3. /\ d.segments \in SUBSET SegmentMeta /\ m \in SegmentMeta \ d.segments
          /\ e.segments = d.segments \union {m}
      BY <2>2 DEF SeriesEntry
    <2>4. IsFiniteSet(d.segments) BY <2>2, FS_Subset
    <2>5. /\ TotalSize(d.segments) \in Nat
          /\ TotalSize(e.segments) = m.size_bytes + TotalSize(d.segments)
      BY <2>3, <2>4, TotalSizeFacts
    <2>6. m.size_bytes = victim.size_bytes BY <1>2
    <2>7. e.storage_bytes \in Nat /\ victim.size_bytes \in Nat
      BY StorageAssumption DEF SeriesEntry, Victim
    <2>8. Carried(e, d) BY <2>1, <2>5, <2>6, <2>7 DEF Carried, Exact, SaturatingSub
    <2> QED BY <2>1, <2>2, <2>8
  <1> QED BY <1>1, <1>2

-----------------------------------------------------------------------------
(* Steps of threads that leave the manifest alone.                         *)

\* An eviction under way knows its series.
LEMMA EvictsFacts ==
    ASSUME StorageInv, NEW a \in Actors, NEW s \in Series, Evicts(a, s)
    PROVE  /\ status # "down" /\ s \in series
           /\ manifest[s] # None /\ manifest[s] \in SeriesEntry
           /\ manifest[s].next_segment_id \in Nat
           /\ task[a].victim \in Victim /\ task[a].victim.segment_id \in Nat
  <1>1. TypeOK /\ SeriesOK /\ TaskOK(task[a], series) /\ task[a] \in Task
    BY DEF StorageInv, TypeOK
  <1>2. status # "down" BY RunningStatus DEF Evicts, EvictingPCs, RunsWhile
  <1>3. s \in series BY <1>1 DEF Evicts, TaskOK
  <1>4. manifest[s] # None /\ manifest[s] \in SeriesEntry
    BY <1>1, <1>3 DEF SeriesOK, TypeOK, Manifest
  <1>5. task[a].victim \in Victim BY <1>1 DEF Task
  <1> QED BY <1>2, <1>3, <1>4, <1>5 DEF SeriesEntry, Victim

\* Entries lose segments only, and no thread begins to own an id or to evict.
LEMMA KeepsLedger ==
    ASSUME LedgerInv, IsFiniteSet(files'),
           \A s \in Series : \A d \in Entries(s)' :
               IsFiniteSet(d.segments) /\ NamesOne(d.segments),
           \A a \in Actors, s \in Series : Evicts(a, s)' =>
               /\ Evicts(a, s) /\ task'[a].victim = task[a].victim
               /\ manifest'[s].next_segment_id = manifest[s].next_segment_id
               /\ manifest'[s].segments \subseteq manifest[s].segments,
           \A a \in Actors, s \in Series : Owned(a, s)' =>
               Owned(a, s) /\ NextId(a, s)' = NextId(a, s)
    PROVE  LedgerInv'
  <1>1. FiniteDisk' /\ IdsName' BY DEF FiniteDisk, IdsName, NamesOne
  <1>2. VictimKnown'
    <2> SUFFICES ASSUME NEW a \in Actors, NEW s \in Series, Evicts(a, s)'
                 PROVE  /\ task'[a].victim.segment_id < manifest'[s].next_segment_id
                        /\ \A b \in Actors :
                               Owned(b, s)' => NextId(b, s)' # task'[a].victim.segment_id
                        /\ \A m \in manifest'[s].segments :
                               m.segment_id = task'[a].victim.segment_id =>
                                   m.size_bytes = task'[a].victim.size_bytes
      BY DEF VictimKnown
    <2>1. /\ Evicts(a, s) /\ task'[a].victim = task[a].victim
          /\ manifest'[s].next_segment_id = manifest[s].next_segment_id
          /\ manifest'[s].segments \subseteq manifest[s].segments
      OBVIOUS
    <2> QED BY <2>1 DEF LedgerInv, VictimKnown
  <1> QED BY <1>1, <1>2 DEF LedgerInv

\* What a step of one thread means for the others.
LEMMA OthersEvict ==
    ASSUME StorageInv, NEW a \in Actors, NEW r, task' = [task EXCEPT ![a] = r],
           r.pc \in EvictingPCs => /\ task[a].pc \in EvictingPCs /\ r.current = task[a].current
                                   /\ r.victim = task[a].victim,
           \A s \in Series : r.pc \in OwningPCs /\ s \in Pending(r) =>
               Owned(a, s) /\ r.pending[s].segment_id = NextId(a, s)
    PROVE  \A b \in Actors, s \in Series :
               /\ Evicts(b, s)' => Evicts(b, s) /\ task'[b].victim = task[b].victim
               /\ Owned(b, s)' => Owned(b, s) /\ NextId(b, s)' = NextId(b, s)
  <1>1. task'[a] = r /\ \A b \in Actors \ {a} : task'[b] = task[b] BY DEF StorageInv, TypeOK
  <1> QED BY <1>1 DEF Evicts, Owned, NextId, Pending

\* A step of one thread that writes neither the manifest nor manifest.json.
LEMMA ThreadLedger ==
    ASSUME StorageInv, LedgerInv, NEW a \in Actors, NEW r, task' = [task EXCEPT ![a] = r],
           UNCHANGED <<manifest, saved>>, IsFiniteSet(files'),
           r.pc \in EvictingPCs => /\ task[a].pc \in EvictingPCs /\ r.current = task[a].current
                                   /\ r.victim = task[a].victim,
           \A s \in Series : r.pc \in OwningPCs /\ s \in Pending(r) =>
               Owned(a, s) /\ r.pending[s].segment_id = NextId(a, s)
    PROVE  LedgerInv' /\ KeepsAccounts
  <1>1. \A s \in Series : \A d \in Entries(s)' : IsFiniteSet(d.segments) /\ NamesOne(d.segments)
    BY DEF LedgerInv, FiniteDisk, IdsName, Entries
  <1>2. LedgerInv' BY <1>1, OthersEvict, KeepsLedger
  <1>3. KeepsAccounts BY DEF KeepsAccounts, Carried
  <1> QED BY <1>2, <1>3

\* Appends, flushes up to their commit and after it, and their failures.
LEMMA FlushLedger ==
    ASSUME StorageInv, LedgerInv, NEW t \in Tasks, NEW s \in Series,
           \/ AppendGroup(t, s) \/ Prepare(t, s) \/ Mkdir(t, s) \/ CreateTmp(t, s)
           \/ CreateTmpNoDir(t, s) \/ WriteFails(t, s) \/ Advance(t, s)
    PROVE  LedgerInv' /\ KeepsAccounts
  <1>1. t \in Actors /\ TypeOK /\ task[t] \in Task /\ TaskOK(task[t], series)
    BY DEF Actors, StorageInv, TypeOK
  <1>2. UNCHANGED <<manifest, saved, files>>
    BY DEF AppendGroup, Prepare, Mkdir, CreateTmp, CreateTmpNoDir, WriteFails, Advance, memory, disk
  <1>3. IsFiniteSet(files') BY <1>2 DEF LedgerInv, FiniteDisk
  <1>4. ASSUME NEW r, task' = [task EXCEPT ![t] = r], r.pc \notin EvictingPCs \union OwningPCs
        PROVE  LedgerInv' /\ KeepsAccounts
    BY <1>1, <1>2, <1>3, <1>4, ThreadLedger
  <1>5. ASSUME NEW r, task' = [task EXCEPT ![t] = r], r.pc \notin EvictingPCs,
               task[t].pc \in OwningPCs, r.pending = task[t].pending
        PROVE  LedgerInv' /\ KeepsAccounts
    <2>1. \A x \in Series : x \in Pending(r) => Owned(t, x) /\ r.pending[x].segment_id = NextId(t, x)
      BY <1>5 DEF Pending, Owned, NextId
    <2> QED BY <2>1, <1>1, <1>2, <1>3, <1>5, ThreadLedger
  <1>6. CASE AppendGroup(t, s)
    <2>1. PICK F : task' = [task EXCEPT ![t] =
                       IF task[t].todo = {s} THEN Flushing(F)
                       ELSE [task[t] EXCEPT !.todo = task[t].todo \ {s}, !.to_flush = F]]
      BY <1>6, Zenon DEF AppendGroup
    <2> DEFINE r == IF task[t].todo = {s} THEN Flushing(F)
                    ELSE [task[t] EXCEPT !.todo = task[t].todo \ {s}, !.to_flush = F]
    <2>2. task[t].pc = "append" BY <1>6 DEF AppendGroup, At
    <2>3. r.pc \in {"idle", "prepare", "append"} BY <1>1, <2>2 DEF Flushing, IdleTask, Task
    <2>4. task' = [task EXCEPT ![t] = r] BY <2>1
    <2> HIDE DEF r
    <2>5. r.pc \notin EvictingPCs \union OwningPCs BY <2>3 DEF EvictingPCs, OwningPCs, WritingPCs
    <2> QED BY <2>4, <2>5, <1>4
  <1>7. CASE Prepare(t, s)
    <2> DEFINE q == [task[t] EXCEPT !.pending[s].samples = LastWrites(memtable[s])]
               r == Visited(q, s, "alloc", Pending(q))
    <2>1. task' = [task EXCEPT ![t] = r] /\ task[t].pc = "prepare" BY <1>7 DEF Prepare, At
    <2>2. LastWrites(memtable[s]) \in SUBSET BufferedSample BY <1>1, LastWritesType DEF TypeOK
    <2>3. q \in Task /\ q.pc = "prepare" BY <1>1, <2>1, <2>2 DEF Task, PendingFlush
    <2> HIDE DEF q
    <2>4. r.pc \in {"prepare", "alloc", "idle"} BY <2>3, VisitedPending
    <2> HIDE DEF r
    <2>5. r.pc \notin EvictingPCs \union OwningPCs BY <2>4 DEF EvictingPCs, OwningPCs, WritingPCs
    <2> QED BY <2>1, <2>5, <1>4
  <1>8. CASE Mkdir(t, s)
    <2> DEFINE r == [task[t] EXCEPT !.pc = "create", !.current = s]
    <2>1. task' = [task EXCEPT ![t] = r] /\ task[t].pc = "mkdir" BY <1>8 DEF Mkdir, At
    <2>2. r.pc = "create" /\ r.pending = task[t].pending BY <1>1 DEF Task
    <2> HIDE DEF r
    <2>3. r.pc \notin EvictingPCs /\ task[t].pc \in OwningPCs
      BY <2>1, <2>2 DEF EvictingPCs, OwningPCs, WritingPCs
    <2> QED BY <2>1, <2>2, <2>3, <1>5
  <1>9. CASE CreateTmp(t, s)
    <2> DEFINE r == [task[t] EXCEPT !.pc = "rename"]
    <2>1. task' = [task EXCEPT ![t] = r] /\ task[t].pc = "create"
      BY <1>9 DEF CreateTmp, GoTo, Working
    <2>2. r.pc = "rename" /\ r.pending = task[t].pending BY <1>1 DEF Task
    <2> HIDE DEF r
    <2>3. r.pc \notin EvictingPCs /\ task[t].pc \in OwningPCs
      BY <2>1, <2>2 DEF EvictingPCs, OwningPCs, WritingPCs
    <2> QED BY <2>1, <2>2, <2>3, <1>5
  <1>10. CASE CreateTmpNoDir(t, s) \/ WriteFails(t, s)
    <2>1. task' = [task EXCEPT ![t] = IdleTask] BY <1>10 DEF CreateTmpNoDir, WriteFails, Abort
    <2>2. IdleTask.pc \notin EvictingPCs \union OwningPCs
      BY IdleTaskType DEF EvictingPCs, OwningPCs, WritingPCs
    <2> QED BY <2>1, <2>2, <1>4
  <1>11. CASE Advance(t, s)
    <2> DEFINE r == Visited(task[t], s, "evict", Pending(task[t]))
    <2>1. task' = [task EXCEPT ![t] = r] /\ task[t].pc = "advance" BY <1>11 DEF Advance, At
    <2>2. r.pc \in {"advance", "evict", "idle"} BY <1>1, <2>1, VisitedPending
    <2> HIDE DEF r
    <2>3. r.pc \notin EvictingPCs \union OwningPCs BY <2>2 DEF EvictingPCs, OwningPCs, WritingPCs
    <2> QED BY <2>1, <2>3, <1>4
  <1> QED BY <1>6, <1>7, <1>8, <1>9, <1>10, <1>11

\* A rename adds one file.
LEMMA RenameLedger ==
    ASSUME StorageInv, LedgerInv, NEW t \in Tasks, NEW s \in Series,
           NEW size \in SegmentSizes, NEW ok \in BOOLEAN, Rename(t, s, size, ok)
    PROVE  LedgerInv' /\ KeepsAccounts
  <1> DEFINE q == [task[t] EXCEPT !.pending[s].size_bytes = size, !.pc = "mkdir"]
             v == Visited(q, s, "commit", Pending(q))
  <1>1. t \in Actors /\ TypeOK /\ task[t] \in Task BY DEF Actors, StorageInv, TypeOK
  <1>2. /\ task[t].pc = "rename" /\ UNCHANGED <<manifest, saved>>
        /\ \E f : files' \subseteq files \union {f}
        /\ ok => task' = [task EXCEPT ![t] = v]
        /\ ~ok => task' = [task EXCEPT ![t] = IdleTask]
    BY DEF Rename, Abort, memory, Working
  <1>3. IsFiniteSet(files') BY <1>2, FS_AddElement, FS_Subset DEF LedgerInv, FiniteDisk
  <1>4. /\ q \in Task /\ q.pc = "mkdir"
        /\ \A x \in Series : /\ q.pending[x].samples = task[t].pending[x].samples
                             /\ q.pending[x].segment_id = NextId(t, x)
    <2>1. size \in 0 .. MaxU64 BY StorageAssumption
    <2>2. q \in Task /\ q.pc = "mkdir" BY <1>1, <2>1, Zenon DEF Task, PendingFlush, PCs
    <2> QED BY <2>2, <1>1 DEF Task, PendingFlush, NextId
  <1> HIDE DEF q
  <1>5. v.pc \in {"mkdir", "commit", "idle"} /\ (Pending(v) # {} => v.pending = q.pending)
    BY <1>4, VisitedPending
  <1> HIDE DEF v
  <1>6. v.pc \notin EvictingPCs BY <1>5 DEF EvictingPCs
  <1>7. \A x \in Series : x \in Pending(v) => Owned(t, x) /\ v.pending[x].segment_id = NextId(t, x)
    BY <1>2, <1>4, <1>5 DEF Owned, Pending, OwningPCs, WritingPCs
  <1>8. IdleTask.pc \notin EvictingPCs \union OwningPCs
    BY IdleTaskType DEF EvictingPCs, OwningPCs, WritingPCs
  <1>9. CASE ok BY <1>9, <1>1, <1>2, <1>3, <1>6, <1>7, ThreadLedger
  <1>10. CASE ~ok BY <1>10, <1>1, <1>2, <1>3, <1>8, ThreadLedger
  <1> QED BY <1>9, <1>10

\* Evictions, but for the choice of a victim and the update of the manifest.
LEMMA EvictLedger ==
    ASSUME StorageInv, LedgerInv, NEW a \in Actors, NEW s \in Series,
           \/ EvictDone(a, s) \/ EvictRemove(a, s) \/ EvictRemoveFails(a, s)
           \/ DirCheck(a, s) \/ DirCheckFails(a, s) \/ Rmdir(a, s)
    PROVE  LedgerInv' /\ KeepsAccounts
  <1>1. task[a] \in Task BY DEF StorageInv, TypeOK
  <1>2. UNCHANGED <<manifest, saved>> /\ files' \subseteq files
    BY DEF EvictDone, EvictRemove, EvictRemoveFails, DirCheck, DirCheckFails, Rmdir, memory, disk
  <1>3. IsFiniteSet(files') BY <1>2, FS_Subset DEF LedgerInv, FiniteDisk
  <1>4. CASE task' = [task EXCEPT ![a] = IdleTask]
    <2>1. IdleTask.pc \notin EvictingPCs \union OwningPCs
      BY IdleTaskType DEF EvictingPCs, OwningPCs, WritingPCs
    <2> QED BY <2>1, <1>2, <1>3, <1>4, ThreadLedger
  <1>5. ASSUME NEW pc \in EvictingPCs, GoTo(a, pc), task[a].pc \in EvictingPCs
        PROVE  LedgerInv' /\ KeepsAccounts
    <2> DEFINE r == [task[a] EXCEPT !.pc = pc]
    <2>1. task' = [task EXCEPT ![a] = r] BY <1>5 DEF GoTo
    <2>2. r.pc = pc /\ r.current = task[a].current /\ r.victim = task[a].victim BY <1>1 DEF Task
    <2> HIDE DEF r
    <2>3. r.pc \notin OwningPCs BY <2>2 DEF EvictingPCs, OwningPCs, WritingPCs
    <2> QED BY <2>1, <2>2, <2>3, <1>2, <1>3, <1>5, ThreadLedger
  <1>6. CASE EvictDone(a, s)
    <2>1. CASE task[a].todo = {s} BY <1>4, <1>6, <2>1 DEF EvictDone, Return
    <2>2. CASE task[a].todo # {s}
      <3> DEFINE r == [task[a] EXCEPT !.todo = task[a].todo \ {s}]
      <3>1. task' = [task EXCEPT ![a] = r] BY <1>6, <2>2 DEF EvictDone
      <3>2. r.pc = "evict" BY <1>1, <1>6 DEF Task, EvictDone, At
      <3> HIDE DEF r
      <3>3. r.pc \notin EvictingPCs \union OwningPCs
        BY <3>2 DEF EvictingPCs, OwningPCs, WritingPCs
      <3> QED BY <3>1, <3>3, <1>2, <1>3, ThreadLedger
    <2> QED BY <2>1, <2>2
  <1>7. CASE EvictRemove(a, s) \/ Rmdir(a, s)
    BY <1>5, <1>7 DEF EvictRemove, Rmdir, Working, EvictingPCs
  <1>8. CASE DirCheck(a, s)
    <2>1. task[a].pc \in EvictingPCs BY <1>8 DEF DirCheck, Working, EvictingPCs
    <2>2. PICK pc \in {"rmdir", "update"} : GoTo(a, pc) BY <1>8 DEF DirCheck
    <2>3. pc \in EvictingPCs BY DEF EvictingPCs
    <2> QED BY <2>1, <2>2, <2>3, <1>5
  <1>9. CASE EvictRemoveFails(a, s) \/ DirCheckFails(a, s)
    BY <1>4, <1>9 DEF EvictRemoveFails, DirCheckFails, Return
  <1> QED BY <1>6, <1>7, <1>8, <1>9

-----------------------------------------------------------------------------
(* Steps that write the manifest, and the choice of a victim.              *)

\* What a save leaves on disk is the old entry or the new one.
LEMMA EntriesAfterSave ==
    ASSUME LedgerInv, NEW s \in Series, saved' \in {saved, manifest'},
           manifest'[s] # None =>
               IsFiniteSet(manifest'[s].segments) /\ NamesOne(manifest'[s].segments)
    PROVE  \A d \in Entries(s)' : IsFiniteSet(d.segments) /\ NamesOne(d.segments)
  <1>1. saved'[s] \in {saved[s], manifest'[s]} OBVIOUS
  <1>2. saved[s] # None => IsFiniteSet(saved[s].segments) /\ NamesOne(saved[s].segments)
    BY DEF LedgerInv, FiniteDisk, IdsName, Entries
  <1> QED BY <1>1, <1>2 DEF Entries

\* An entry in memory.
LEMMA EntryFacts ==
    ASSUME StorageInv, LedgerInv, NEW s \in Series, manifest[s] # None
    PROVE  /\ manifest[s] \in SeriesEntry /\ manifest[s].next_segment_id \in Nat
           /\ IsFiniteSet(manifest[s].segments) /\ NamesOne(manifest[s].segments)
  <1>1. manifest[s] \in SeriesEntry BY DEF StorageInv, TypeOK, Manifest
  <1>2. manifest[s] \in Entries(s) BY DEF Entries
  <1> QED BY <1>1, <1>2 DEF LedgerInv, FiniteDisk, IdsName, SeriesEntry

\* A new series has nothing to account for, and begins of no call touch no account.
LEMMA ClientLedger ==
    ASSUME StorageInv, LedgerInv, Client
    PROVE  LedgerInv' /\ KeepsAccounts
  <1>1. ASSUME NEW s \in Series, NEW type \in SeriesTypes, NEW limit \in Limits,
               NEW ok \in BOOLEAN, Register(s, type, limit, ok)
        PROVE  LedgerInv' /\ KeepsAccounts
    <2> DEFINE e == NewEntry(type, Clamp(limit))
    <2>1. /\ manifest[s] = None /\ manifest' = [manifest EXCEPT ![s] = e]
          /\ saved' \in {saved, manifest'} /\ UNCHANGED <<files, task>>
      BY <1>1 DEF Register, Save, CanRegister
    <2>2. manifest'[s] = e /\ \A x \in Series \ {s} : manifest'[x] = manifest[x]
      BY <2>1 DEF StorageInv, TypeOK, Manifest
    <2>3. e.segments = {} /\ e.storage_bytes = 0 BY DEF NewEntry
    <2> HIDE DEF e
    <2>4. IsFiniteSet(e.segments) /\ NamesOne(e.segments) BY <2>3, FS_EmptySet DEF NamesOne
    <2>5. \A x \in Series : \A d \in Entries(x)' : IsFiniteSet(d.segments) /\ NamesOne(d.segments)
      BY <2>1, <2>2, <2>4, EntryFacts, EntriesAfterSave
    <2>6. \A a \in Actors, x \in Series : Evicts(a, x) => x # s BY <2>1, EvictsFacts
    <2>7. \A a \in Actors, x \in Series : Evicts(a, x)' =>
              /\ Evicts(a, x) /\ task'[a].victim = task[a].victim
              /\ manifest'[x].next_segment_id = manifest[x].next_segment_id
              /\ manifest'[x].segments \subseteq manifest[x].segments
      BY <2>1, <2>2, <2>6 DEF Evicts
    <2>8. \A a \in Actors, x \in Series : Owned(a, x)' => Owned(a, x) /\ NextId(a, x)' = NextId(a, x)
      BY <2>1 DEF Owned, NextId, Pending
    <2>9. IsFiniteSet(files') BY <2>1 DEF LedgerInv, FiniteDisk
    <2>10. LedgerInv' BY <2>5, <2>7, <2>8, <2>9, KeepsLedger
    <2>11. Exact(e) BY <2>3, TotalSizeFacts, FS_EmptySet DEF Exact
    <2>12. KeepsAccounts BY <2>2, <2>11 DEF KeepsAccounts, Carried
    <2> QED BY <2>10, <2>12
  <1>2. ASSUME NEW t \in Tasks, NEW batch \in Batches, BeginAppend(t, batch)
        PROVE  LedgerInv' /\ KeepsAccounts
    <2> DEFINE r == [IdleTask EXCEPT !.pc = "append", !.batch = batch,
                                     !.todo = {batch[i].data_id : i \in DOMAIN batch}]
    <2>1. t \in Actors /\ task' = [task EXCEPT ![t] = r] /\ UNCHANGED <<manifest, saved, files>>
      BY <1>2 DEF BeginAppend, Actors, memory, disk
    <2>2. r.pc = "append" BY DEF IdleTask
    <2> HIDE DEF r
    <2>3. r.pc \notin EvictingPCs \union OwningPCs BY <2>2 DEF EvictingPCs, OwningPCs, WritingPCs
    <2>4. IsFiniteSet(files') BY <2>1 DEF LedgerInv, FiniteDisk
    <2> QED BY <2>1, <2>3, <2>4, ThreadLedger
  <1>3. ASSUME NEW t \in Tasks, NEW ids \in (SUBSET series) \ {{}}, BeginFlush(t, ids)
        PROVE  LedgerInv' /\ KeepsAccounts
    <2>1. t \in Actors /\ task' = [task EXCEPT ![t] = Flushing(ids)]
          /\ UNCHANGED <<manifest, saved, files>>
      BY <1>3 DEF BeginFlush, Actors, memory, disk
    <2>2. Flushing(ids).pc \notin EvictingPCs \union OwningPCs
      BY DEF Flushing, IdleTask, EvictingPCs, OwningPCs, WritingPCs
    <2>3. IsFiniteSet(files') BY <2>1 DEF LedgerInv, FiniteDisk
    <2> QED BY <2>1, <2>2, <2>3, ThreadLedger
  <1> QED BY <1>1, <1>2, <1>3 DEF Client

\* A victim is a segment of its entry, with an id that was given out and that no
\* flush owns.
LEMMA ChooseLedger ==
    ASSUME StorageInv, ManifestInv, LedgerInv, NEW a \in Actors, NEW s \in Series,
           EvictChoose(a, s)
    PROVE  LedgerInv' /\ KeepsAccounts
  <1> DEFINE m == Oldest(manifest[s].segments)
             v == [segment_id |-> m.segment_id, size_bytes |-> m.size_bytes]
             r == [task[a] EXCEPT !.pc = "remove", !.current = s, !.victim = v]
  <1>1. /\ TypeOK /\ SeriesOK /\ task \in [Actors -> Task] /\ task[a] \in Task
        /\ TaskOK(task[a], series)
    BY DEF StorageInv, TypeOK
  <1>2. /\ task[a].pc = "evict" /\ s \in task[a].todo /\ manifest[s].segments # {}
        /\ task' = [task EXCEPT ![a] = r] /\ UNCHANGED <<manifest, saved, files>>
    BY DEF EvictChoose, At, memory, disk
  <1>3. manifest[s] # None BY <1>1, <1>2 DEF TaskOK, SeriesOK
  <1>4. manifest[s] \in SeriesEntry /\ NamesOne(manifest[s].segments) BY <1>3, EntryFacts
  <1>5. m \in manifest[s].segments BY <1>2, <1>4, OldestExists DEF SeriesEntry
  <1> HIDE DEF m
  <1>6. m \in Known(s) BY <1>3, <1>5 DEF Known
  <1>7. status # "down" BY <1>2, RunningStatus DEF RunsWhile
  <1>8. m.segment_id < manifest[s].next_segment_id BY <1>6, <1>7 DEF ManifestInv, KnownBelow
  <1>9. \A b \in Actors : Owned(b, s) => NextId(b, s) # m.segment_id
    BY <1>6 DEF ManifestInv, OwnedUnknown
  <1>10. v.segment_id = m.segment_id /\ v.size_bytes = m.size_bytes OBVIOUS
  <1> HIDE DEF v
  <1>11. r.pc = "remove" /\ r.current = s /\ r.victim = v BY <1>1 DEF Task
  <1> HIDE DEF r
  <1>12. task'[a] = r /\ \A b \in Actors \ {a} : task'[b] = task[b] BY <1>1, <1>2
  <1>13. \A b \in Actors, x \in Series : Owned(b, x)' => Owned(b, x) /\ NextId(b, x)' = NextId(b, x)
    BY <1>11, <1>12 DEF Owned, NextId, Pending, OwningPCs, WritingPCs
  <1>14. VictimKnown'
    <2> SUFFICES ASSUME NEW b \in Actors, NEW x \in Series, Evicts(b, x)'
                 PROVE  /\ task'[b].victim.segment_id < manifest[x].next_segment_id
                        /\ \A c \in Actors :
                               Owned(c, x)' => NextId(c, x)' # task'[b].victim.segment_id
                        /\ \A n \in manifest[x].segments :
                               n.segment_id = task'[b].victim.segment_id =>
                                   n.size_bytes = task'[b].victim.size_bytes
      BY <1>2 DEF VictimKnown
    <2>1. CASE b = a
      <3>1. x = s /\ task'[b].victim = v BY <2>1, <1>11, <1>12 DEF Evicts
      <3> QED BY <3>1, <1>4, <1>5, <1>8, <1>9, <1>10, <1>13 DEF NamesOne
    <2>2. CASE b # a
      <3>1. Evicts(b, x) /\ task'[b].victim = task[b].victim BY <2>2, <1>12 DEF Evicts
      <3> QED BY <3>1, <1>13 DEF LedgerInv, VictimKnown
    <2> QED BY <2>1, <2>2
  <1>15. FiniteDisk' /\ IdsName' BY <1>2 DEF LedgerInv, FiniteDisk, IdsName, Entries
  <1>16. KeepsAccounts BY <1>2 DEF KeepsAccounts, Carried
  <1> QED BY <1>14, <1>15, <1>16 DEF LedgerInv

\* The victim leaves the account if no other eviction has taken it out.
LEMMA UpdateLedger ==
    ASSUME StorageInv, LedgerInv, NEW a \in Actors, NEW s \in Series, NEW ok \in BOOLEAN,
           EvictUpdate(a, s, ok)
    PROVE  LedgerInv' /\ KeepsAccounts
  <1> DEFINE e == Dropped(manifest[s], task[a].victim)
             r == [task[a] EXCEPT !.pc = "evict", !.current = None, !.victim = NoVictim]
  <1>1. task[a] \in Task BY DEF StorageInv, TypeOK
  <1>2. /\ task[a].pc = "update" /\ Evicts(a, s)
        /\ manifest' = [manifest EXCEPT ![s] = e] /\ saved' \in {saved, manifest'}
        /\ task' = [task EXCEPT ![a] = r] \/ task' = [task EXCEPT ![a] = IdleTask]
        /\ files' = files
    BY DEF EvictUpdate, Save, Working, Evicts, EvictingPCs, Return
  <1>3. /\ manifest[s] # None /\ manifest[s] \in SeriesEntry /\ task[a].victim \in Victim
        /\ IsFiniteSet(manifest[s].segments) /\ NamesOne(manifest[s].segments)
    BY <1>2, EvictsFacts, EntryFacts
  <1>4. \A m \in manifest[s].segments : m.segment_id = task[a].victim.segment_id =>
            m.size_bytes = task[a].victim.size_bytes
    BY <1>2 DEF LedgerInv, VictimKnown
  <1>5. /\ Carried(manifest[s], e) /\ e.segments \subseteq manifest[s].segments
        /\ e.next_segment_id = manifest[s].next_segment_id
    BY <1>3, <1>4, DroppedAccount
  <1> HIDE DEF e
  <1>6. manifest'[s] = e /\ \A x \in Series \ {s} : manifest'[x] = manifest[x]
    BY <1>2 DEF StorageInv, TypeOK, Manifest
  <1>7. r.pc = "evict" /\ IdleTask.pc = "idle" BY <1>1, IdleTaskType DEF Task
  <1> HIDE DEF r
  <1>8. \A b \in Actors, x \in Series :
            /\ Evicts(b, x)' => Evicts(b, x) /\ task'[b].victim = task[b].victim
            /\ Owned(b, x)' => Owned(b, x) /\ NextId(b, x)' = NextId(b, x)
    <2>1. r.pc \notin EvictingPCs \union OwningPCs
          /\ IdleTask.pc \notin EvictingPCs \union OwningPCs
      BY <1>7 DEF EvictingPCs, OwningPCs, WritingPCs
    <2> QED BY <2>1, <1>2, OthersEvict
  <1>9. IsFiniteSet(e.segments) /\ NamesOne(e.segments) BY <1>3, <1>5, FS_Subset DEF NamesOne
  <1>10. \A x \in Series : \A d \in Entries(x)' : IsFiniteSet(d.segments) /\ NamesOne(d.segments)
    BY <1>2, <1>6, <1>9, EntryFacts, EntriesAfterSave
  <1>11. \A x \in Series : /\ manifest'[x].next_segment_id = manifest[x].next_segment_id
                           /\ manifest'[x].segments \subseteq manifest[x].segments
    BY <1>5, <1>6
  <1>12. IsFiniteSet(files') BY <1>2 DEF LedgerInv, FiniteDisk
  <1>13. LedgerInv' BY <1>8, <1>10, <1>11, <1>12, KeepsLedger
  <1>14. KeepsAccounts BY <1>3, <1>5, <1>6 DEF KeepsAccounts, Carried
  <1> QED BY <1>13, <1>14

\* The ids a flush takes are above those of all victims.
LEMMA AllocLedger ==
    ASSUME StorageInv, LedgerInv, NEW t \in Tasks, Alloc(t)
    PROVE  LedgerInv' /\ KeepsAccounts
  <1> DEFINE P == Pending(task[t])
             flush(s) == [task[t].pending[s] EXCEPT !.segment_id = manifest[s].next_segment_id]
             pending == [s \in Series |-> IF s \in P THEN flush(s) ELSE task[t].pending[s]]
             r == [task[t] EXCEPT !.pc = "mkdir", !.pending = pending]
  <1>1. /\ TypeOK /\ t \in Actors /\ task \in [Actors -> Task] /\ task[t] \in Task
        /\ SeriesOK /\ TaskOK(task[t], series)
    BY DEF StorageInv, TypeOK, Actors
  <1>2. /\ task' = [task EXCEPT ![t] = r]
        /\ manifest' = [s \in Series |-> IF s \in P
               THEN [manifest[s] EXCEPT !.next_segment_id = @ + 1] ELSE manifest[s]]
        /\ task[t].pc = "alloc" /\ UNCHANGED <<files, saved>>
    BY DEF Alloc, At, disk
  <1>3. P \subseteq Series /\ \A s \in P : manifest[s] # None
    BY <1>1 DEF TaskOK, SeriesOK, Pending
  <1>4. \A s \in P : /\ manifest'[s].next_segment_id = manifest[s].next_segment_id + 1
                     /\ manifest'[s].segments = manifest[s].segments
                     /\ manifest'[s].storage_bytes = manifest[s].storage_bytes
    <2> SUFFICES ASSUME NEW s \in P
                 PROVE  /\ manifest'[s].next_segment_id = manifest[s].next_segment_id + 1
                        /\ manifest'[s].segments = manifest[s].segments
                        /\ manifest'[s].storage_bytes = manifest[s].storage_bytes
      OBVIOUS
    <2>1. manifest'[s] = [manifest[s] EXCEPT !.next_segment_id = manifest[s].next_segment_id + 1]
      BY <1>2, <1>3
    <2>2. manifest[s] \in SeriesEntry BY <1>3, EntryFacts
    <2> QED BY <2>1, <2>2 DEF SeriesEntry
  <1>5. \A s \in Series \ P : manifest'[s] = manifest[s] BY <1>2
  <1>6. \A s \in P : pending[s].segment_id = manifest[s].next_segment_id
    <2> SUFFICES ASSUME NEW s \in P PROVE pending[s].segment_id = manifest[s].next_segment_id
      OBVIOUS
    <2>1. task[t].pending[s] \in PendingFlush BY <1>1, <1>3 DEF Task
    <2>2. pending[s] = flush(s) BY <1>3
    <2> QED BY <2>1, <2>2 DEF PendingFlush
  <1>7. \A s \in Series : pending[s].samples = task[t].pending[s].samples
    BY <1>1 DEF Task, PendingFlush
  <1> HIDE DEF pending
  <1>8. r.pc = "mkdir" /\ r.pending = pending BY <1>1 DEF Task
  <1> HIDE DEF r
  <1>9. task'[t] = r /\ \A a \in Actors \ {t} : task'[a] = task[a] BY <1>1, <1>2
  <1>10. \A s \in Series : Owned(t, s)' => s \in P /\ NextId(t, s)' = manifest[s].next_segment_id
    BY <1>6, <1>7, <1>8, <1>9 DEF Owned, Pending, NextId
  <1>11. \A a \in Actors \ {t}, s \in Series :
             Owned(a, s)' => Owned(a, s) /\ NextId(a, s)' = NextId(a, s)
    BY <1>9 DEF Owned, Pending, NextId
  <1>12. VictimKnown'
    <2> SUFFICES ASSUME NEW a \in Actors, NEW s \in Series, Evicts(a, s)'
                 PROVE  /\ task'[a].victim.segment_id < manifest'[s].next_segment_id
                        /\ \A b \in Actors :
                               Owned(b, s)' => NextId(b, s)' # task'[a].victim.segment_id
                        /\ \A m \in manifest'[s].segments :
                               m.segment_id = task'[a].victim.segment_id =>
                                   m.size_bytes = task'[a].victim.size_bytes
      BY DEF VictimKnown
    <2>1. a # t BY <1>8, <1>9 DEF Evicts, EvictingPCs
    <2>2. Evicts(a, s) /\ task'[a].victim = task[a].victim BY <2>1, <1>9 DEF Evicts
    <2>3. task[a].victim.segment_id \in Nat /\ manifest[s].next_segment_id \in Nat
      BY <2>2, EvictsFacts
    <2>4. task[a].victim.segment_id < manifest[s].next_segment_id
      BY <2>2 DEF LedgerInv, VictimKnown
    <2>5. manifest'[s].next_segment_id \in
              {manifest[s].next_segment_id, manifest[s].next_segment_id + 1}
      BY <1>4, <1>5
    <2>6. task'[a].victim.segment_id < manifest'[s].next_segment_id BY <2>2, <2>3, <2>4, <2>5
    <2>7. ASSUME NEW b \in Actors, Owned(b, s)' PROVE NextId(b, s)' # task'[a].victim.segment_id
      <3>1. CASE b = t
        <4>1. NextId(b, s)' = manifest[s].next_segment_id BY <2>7, <3>1, <1>10
        <4>2. task[a].victim.segment_id # manifest[s].next_segment_id BY <2>3, <2>4
        <4> QED BY <4>1, <4>2, <2>2
      <3>2. CASE b # t BY <2>2, <2>7, <3>2, <1>11 DEF LedgerInv, VictimKnown
      <3> QED BY <3>1, <3>2
    <2>8. manifest'[s].segments = manifest[s].segments BY <1>4, <1>5
    <2> QED BY <2>2, <2>6, <2>7, <2>8 DEF LedgerInv, VictimKnown
  <1>13. \A s \in Series : manifest'[s] # None => manifest[s] # None BY <1>3, <1>5
  <1>14. \A s \in Series : manifest'[s] # None => manifest'[s].segments = manifest[s].segments
    BY <1>4, <1>5
  <1>15. ASSUME NEW s \in Series, NEW d \in Entries(s)'
         PROVE  IsFiniteSet(d.segments) /\ NamesOne(d.segments)
    <2>1. CASE d = manifest'[s] /\ manifest'[s] # None
      <3>1. d.segments = manifest[s].segments /\ manifest[s] # None BY <2>1, <1>13, <1>14
      <3> QED BY <3>1, EntryFacts
    <2>2. CASE d = saved[s] /\ saved[s] # None
      BY <2>2 DEF LedgerInv, FiniteDisk, IdsName, Entries
    <2> QED BY <2>1, <2>2, <1>2 DEF Entries
  <1>16. FiniteDisk' /\ IdsName' BY <1>2, <1>15 DEF LedgerInv, FiniteDisk, IdsName, NamesOne
  <1>17. KeepsAccounts BY <1>4, <1>5, <1>13 DEF KeepsAccounts, Carried, Exact
  <1> QED BY <1>12, <1>16, <1>17 DEF LedgerInv

\* A commit adds segments under ids that are in no account and of no victim.
LEMMA CommitLedger ==
    ASSUME StorageInv, ManifestInv, LedgerInv, NEW t \in Tasks, NEW ok \in BOOLEAN, Commit(t, ok)
    PROVE  LedgerInv' /\ KeepsAccounts
  <1> DEFINE P == Pending(task[t])
             flush(s) == task[t].pending[s]
             r == [task[t] EXCEPT !.pc = "advance"]
  <1>1. /\ TypeOK /\ t \in Actors /\ task \in [Actors -> Task] /\ task[t] \in Task
        /\ SeriesOK /\ TaskOK(task[t], series)
    BY DEF StorageInv, TypeOK, Actors
  <1>2. /\ task[t].pc = "commit"
        /\ task' = [task EXCEPT ![t] = IF ok THEN r ELSE IdleTask]
        /\ manifest' = [s \in Series |-> IF s \in P
               THEN Registered(manifest[s], flush(s)) ELSE manifest[s]]
        /\ saved' \in {saved, manifest'} /\ files' = files
    BY DEF Commit, GoTo, At, Save
  <1>3. \A s \in P : /\ s \in Series /\ Owned(t, s) /\ flush(s) \in PendingFlush
                     /\ flush(s).samples # {} /\ Written(flush(s)) /\ manifest[s] # None
    BY <1>1, <1>2 DEF Owned, OwningPCs, TaskOK, Pending, Task, SeriesOK
  <1>4. ASSUME NEW s \in P
        PROVE  /\ manifest'[s] = Registered(manifest[s], flush(s))
               /\ Carried(manifest[s], manifest'[s])
               /\ IsFiniteSet(manifest'[s].segments) /\ NamesOne(manifest'[s].segments)
    <2>1. manifest'[s] = Registered(manifest[s], flush(s)) BY <1>2, <1>3
    <2>2. \A m \in manifest[s].segments : m.segment_id # flush(s).segment_id
      <3>1. \A m \in manifest[s].segments : m \in Known(s) BY <1>3 DEF Known
      <3> QED BY <3>1, <1>1, <1>3 DEF ManifestInv, OwnedUnknown, NextId
    <2>3. /\ manifest[s] \in SeriesEntry
          /\ IsFiniteSet(manifest[s].segments) /\ NamesOne(manifest[s].segments)
      BY <1>3, EntryFacts
    <2>4. flush(s) \in PendingFlush /\ flush(s).samples # {} /\ Written(flush(s)) BY <1>3
    <2> HIDE DEF flush
    <2> QED BY <2>1, <2>2, <2>3, <2>4, RegisteredAccount
  <1>5. \A s \in Series \ P : manifest'[s] = manifest[s] BY <1>2
  <1>6. \A s \in Series : \A d \in Entries(s)' : IsFiniteSet(d.segments) /\ NamesOne(d.segments)
    BY <1>2, <1>4, <1>5, EntryFacts, EntriesAfterSave
  <1>7. KeepsAccounts BY <1>3, <1>4, <1>5 DEF KeepsAccounts, Carried
  <1>8. r.pc = "advance" /\ IdleTask.pc = "idle" BY <1>1, IdleTaskType DEF Task
  <1> HIDE DEF r
  <1>9. \A b \in Actors, s \in Series :
            /\ Evicts(b, s)' => Evicts(b, s) /\ task'[b].victim = task[b].victim
            /\ Owned(b, s)' => Owned(b, s) /\ NextId(b, s)' = NextId(b, s)
    <2> DEFINE q == IF ok THEN r ELSE IdleTask
    <2>1. q.pc \notin EvictingPCs \union OwningPCs BY <1>8 DEF EvictingPCs, OwningPCs, WritingPCs
    <2>2. task' = [task EXCEPT ![t] = q] BY <1>2
    <2> HIDE DEF q
    <2> QED BY <2>1, <2>2, <1>1, OthersEvict
  <1>10. ASSUME NEW s \in P
         PROVE  /\ manifest'[s].next_segment_id = manifest[s].next_segment_id
                /\ \A m \in manifest'[s].segments :
                       m \in manifest[s].segments \/ m.segment_id = NextId(t, s)
    <2>1. manifest'[s] = Registered(manifest[s], flush(s)) BY <1>4
    <2>2. manifest[s] \in SeriesEntry BY <1>3, EntryFacts
    <2> QED BY <2>1, <2>2 DEF Registered, SeriesEntry, NextId
  <1>11. VictimKnown'
    <2> SUFFICES ASSUME NEW a \in Actors, NEW s \in Series, Evicts(a, s)'
                 PROVE  /\ task'[a].victim.segment_id < manifest'[s].next_segment_id
                        /\ \A b \in Actors :
                               Owned(b, s)' => NextId(b, s)' # task'[a].victim.segment_id
                        /\ \A m \in manifest'[s].segments :
                               m.segment_id = task'[a].victim.segment_id =>
                                   m.size_bytes = task'[a].victim.size_bytes
      BY DEF VictimKnown
    <2>1. Evicts(a, s) /\ task'[a].victim = task[a].victim BY <1>9
    <2>2. manifest'[s].next_segment_id = manifest[s].next_segment_id BY <1>5, <1>10
    <2>3. s \in P => NextId(t, s) # task[a].victim.segment_id
      BY <2>1, <1>1, <1>3 DEF LedgerInv, VictimKnown
    <2>4. \A m \in manifest'[s].segments : m \in manifest[s].segments
              \/ m.segment_id # task[a].victim.segment_id
      BY <2>3, <1>5, <1>10
    <2> QED BY <2>1, <2>2, <2>4, <1>9 DEF LedgerInv, VictimKnown
  <1>12. FiniteDisk' /\ IdsName' BY <1>2, <1>6 DEF LedgerInv, FiniteDisk, IdsName, NamesOne
  <1> QED BY <1>7, <1>11, <1>12 DEF LedgerInv

\* While the engine is down there is no account in memory, or none that changes.
LEMMA DownLedger ==
    ASSUME StorageInv, LedgerInv, StorageInv',
           Crash \/ LoseManifest \/ \E f \in files : HeaderUnreadable(f)
    PROVE  LedgerInv' /\ KeepsAccounts
  <1>1. /\ status' = "down" /\ files' \subseteq files
        /\ saved' = saved \/ saved' = [s \in Series |-> None]
        /\ manifest' = manifest \/ manifest' = [s \in Series |-> None]
    BY DEF Crash, LoseManifest, HeaderUnreadable, memory, disk
  <1>2. \A s \in Series : saved'[s] \in {saved[s], None} /\ manifest'[s] \in {manifest[s], None}
    BY <1>1
  <1>3. \A s \in Series : \A d \in Entries(s)' : IsFiniteSet(d.segments) /\ NamesOne(d.segments)
    BY <1>2 DEF LedgerInv, FiniteDisk, IdsName, Entries
  <1>4. \A a \in Actors, s \in Series : ~Owned(a, s)' /\ ~Evicts(a, s)'
    <2>1. StatusOK' BY DEF StorageInv
    <2>2. \A a \in Actors : task'[a].pc = "idle" BY <1>1, <2>1 DEF StatusOK, At, RunsWhile
    <2> QED BY <2>2 DEF Owned, Evicts, OwningPCs, WritingPCs, EvictingPCs
  <1>5. IsFiniteSet(files') BY <1>1, FS_Subset DEF LedgerInv, FiniteDisk
  <1>6. LedgerInv' BY <1>3, <1>4, <1>5, KeepsLedger
  <1>7. KeepsAccounts BY <1>2 DEF KeepsAccounts, Carried
  <1> QED BY <1>6, <1>7

\* Recovery adds up what it found.
LEMMA OpenLedger ==
    ASSUME StorageInv, IdsInv, LedgerInv, Open
    PROVE  LedgerInv' /\ KeepsAccounts
  <1>1. TypeOK /\ StatusOK /\ task \in [Actors -> Task] BY DEF StorageInv, TypeOK
  <1>2. /\ status = "down"
        /\ manifest' = [s \in Series |-> RecoveredEntry(s)] /\ saved' = manifest'
        /\ files' \subseteq files
        /\ \/ task' = [task EXCEPT ![Opener] = IdleTask]
           \/ task' = [task EXCEPT ![Opener] = [IdleTask EXCEPT !.pc = "evict", !.todo = series']]
    BY DEF Open, Save, Return
  <1>3. \A a \in Actors, s \in Series : ~Owned(a, s)' /\ ~Evicts(a, s)'
    <2>1. \A a \in Actors : task[a].pc = "idle" BY <1>1, <1>2 DEF StatusOK, At, RunsWhile
    <2>2. \A a \in Actors : task'[a].pc \in {"idle", "evict"}
      BY <1>1, <1>2, <2>1, IdleTaskType DEF IdleTask
    <2> QED BY <2>2 DEF Owned, Evicts, OwningPCs, WritingPCs, EvictingPCs
  <1>4. ASSUME NEW s \in Series
        PROVE  IsFiniteSet(RecoveredSegments(s)) /\ NamesOne(RecoveredSegments(s))
    <2> DEFINE New == {MetaOf(f) : f \in Unknown(s) \ Misfits(s)}
    <2>1. saved[s] # None => IsFiniteSet(saved[s].segments) /\ NamesOne(saved[s].segments)
      BY DEF LedgerInv, FiniteDisk, IdsName, Entries
    <2>2. IsFiniteSet(Kept(s)) /\ NamesOne(Kept(s))
      <3>1. CASE saved[s] = None BY <3>1, FS_EmptySet DEF Kept, NamesOne
      <3>2. CASE saved[s] # None
        <4>1. Kept(s) \subseteq saved[s].segments BY <3>2 DEF Kept
        <4> QED BY <3>2, <4>1, <2>1, FS_Subset DEF NamesOne
      <3> QED BY <3>1, <3>2
    <2>3. IsFiniteSet(New)
      <3>1. Unknown(s) \ Misfits(s) \subseteq files BY DEF Unknown, FilesOf
      <3>2. IsFiniteSet(Unknown(s) \ Misfits(s)) BY <3>1, FS_Subset DEF LedgerInv, FiniteDisk
      <3> DEFINE meta == [f \in Unknown(s) \ Misfits(s) |-> MetaOf(f)]
      <3>3. meta \in Surjection(Unknown(s) \ Misfits(s), New) BY DEF Surjection
      <3> HIDE DEF meta, New
      <3> QED BY ONLY <3>2, <3>3, FS_Surjection
    <2>4. ASSUME NEW m \in New, NEW n \in New, m.segment_id = n.segment_id PROVE m = n
      <3>1. PICK f \in Unknown(s), g \in Unknown(s) : m = MetaOf(f) /\ n = MetaOf(g) OBVIOUS
      <3>2. f.segment_id = g.segment_id BY <2>4, <3>1 DEF MetaOf
      <3>3. f \in files /\ g \in files /\ f.data_id = s /\ g.data_id = s BY DEF Unknown, FilesOf
      <3>4. f = g BY <3>2, <3>3 DEF IdsInv, UniquePaths
      <3> QED BY <3>1, <3>4
    <2>5. ASSUME NEW m \in Kept(s), NEW n \in New PROVE m.segment_id # n.segment_id
      <3>1. PICK f \in Unknown(s) : n = MetaOf(f) OBVIOUS
      <3> QED BY <3>1 DEF Unknown, MetaOf
    <2>6. RecoveredSegments(s) = Kept(s) \union New BY DEF RecoveredSegments
    <2> HIDE DEF New
    <2>7. IsFiniteSet(RecoveredSegments(s)) BY <2>2, <2>3, <2>6, FS_Union
    <2>8. NamesOne(RecoveredSegments(s)) BY <2>2, <2>4, <2>5, <2>6 DEF NamesOne
    <2> QED BY <2>7, <2>8
  <1>5. ASSUME NEW s \in Series, manifest'[s] # None
        PROVE  manifest'[s].segments = RecoveredSegments(s) /\ Exact(manifest'[s])
    <2>1. manifest'[s] = RecoveredEntry(s) BY <1>2
    <2>2. IsRecovered(s) BY <1>5, <2>1 DEF RecoveredEntry
    <2> QED BY <2>1, <2>2 DEF RecoveredEntry, Exact
  <1>6. \A s \in Series : \A d \in Entries(s)' : IsFiniteSet(d.segments) /\ NamesOne(d.segments)
    BY <1>2, <1>4, <1>5 DEF Entries
  <1>7. IsFiniteSet(files') BY <1>2, FS_Subset DEF LedgerInv, FiniteDisk
  <1>8. LedgerInv' BY <1>3, <1>6, <1>7, KeepsLedger
  <1>9. KeepsAccounts BY <1>5 DEF KeepsAccounts
  <1> QED BY <1>8, <1>9

\* Every step keeps the accounts.
LEMMA NextLedger ==
    StorageInv /\ StorageInv' /\ IdsInv /\ ManifestInv /\ LedgerInv /\ [Next]_vars =>
        LedgerInv' /\ KeepsAccounts
  <1> SUFFICES ASSUME StorageInv, StorageInv', IdsInv, ManifestInv, LedgerInv, [Next]_vars
               PROVE  LedgerInv' /\ KeepsAccounts
    OBVIOUS
  <1>1. CASE Client BY <1>1, ClientLedger
  <1>2. ASSUME NEW a \in Actors, EvictStep(a) PROVE LedgerInv' /\ KeepsAccounts
    <2>1. PICK s \in Series :
              \/ EvictChoose(a, s)
              \/ EvictDone(a, s) \/ EvictRemove(a, s) \/ DirCheck(a, s) \/ Rmdir(a, s)
              \/ \E ok \in BOOLEAN : EvictUpdate(a, s, ok)
      BY <1>2 DEF EvictStep
    <2> QED BY <2>1, ChooseLedger, EvictLedger, UpdateLedger
  <1>3. ASSUME NEW t \in Tasks, Running(t) PROVE LedgerInv' /\ KeepsAccounts
    <2>1. t \in Actors BY DEF Actors
    <2>2. CASE AppendStep(t) BY <2>2, FlushLedger DEF AppendStep
    <2>3. CASE FlushStep(t)
      BY <2>3, FlushLedger, AllocLedger, CommitLedger, RenameLedger DEF FlushStep
    <2>4. CASE EvictError(t) BY <2>1, <2>4, EvictLedger DEF EvictError
    <2> QED BY <1>2, <1>3, <2>1, <2>2, <2>3, <2>4 DEF Running
  <1>4. CASE Open BY <1>4, OpenLedger
  <1>5. CASE Crash \/ LoseManifest \/ \E f \in files : HeaderUnreadable(f)
    BY <1>5, DownLedger
  <1>6. CASE UNCHANGED vars
    <2>1. UNCHANGED <<files, manifest, saved, task>> BY <1>6 DEF vars, memory, disk
    <2>2. LedgerInv'
      BY <2>1 DEF LedgerInv, FiniteDisk, IdsName, VictimKnown, Entries, Evicts, Owned, NextId,
                  Pending
    <2>3. KeepsAccounts BY <2>1 DEF KeepsAccounts, Carried
    <2> QED BY <2>2, <2>3
  <1> QED BY <1>1, <1>2, <1>3, <1>4, <1>5, <1>6 DEF Next, Actors

\* At first there is nothing to add up.
LEMMA InitLedger == Init => LedgerInv
  <1> SUFFICES ASSUME Init PROVE LedgerInv OBVIOUS
  <1>1. \A s \in Series : Entries(s) = {} BY DEF Init, Entries
  <1>2. \A a \in Actors, s \in Series : ~Evicts(a, s)
    BY IdleTaskType DEF Init, IdleTask, Evicts, EvictingPCs
  <1>3. IsFiniteSet(files) BY FS_EmptySet DEF Init
  <1> QED BY <1>1, <1>2, <1>3 DEF LedgerInv, FiniteDisk, IdsName, VictimKnown

\* Whatever flushes and evictions race, an entry has finitely many segments, each of
\* an id of its own, and the victim of an eviction has the size that the entry has for
\* it, or is gone for good.
THEOREM LedgerInvariant == Spec => []LedgerInv
BY StorageInvariant, IdsInvariant, ManifestInvariant, InitLedger, NextLedger, PTL DEF Spec

\* A step that keeps the accounts keeps them from exceeding the sums, ...
AccountsBounded ==
    \A s \in Series : manifest[s] # None =>
        manifest[s].storage_bytes <= TotalSize(manifest[s].segments)

\* ... and keeps them equal to the sums as long as a u64 holds these.
TotalsFit ==
    \A s \in Series : manifest[s] # None => TotalSize(manifest[s].segments) <= MaxU64

\* One step of the accounts.
LEMMA NextAccounts ==
    StorageInv' /\ KeepsAccounts =>
        /\ AccountsBounded => AccountsBounded'
        /\ StorageAccounting /\ TotalsFit' => StorageAccounting'
  <1> SUFFICES ASSUME StorageInv', KeepsAccounts
               PROVE  /\ AccountsBounded => AccountsBounded'
                      /\ StorageAccounting /\ TotalsFit' => StorageAccounting'
    OBVIOUS
  <1>1. \A s \in Series : manifest'[s] # None => manifest'[s].storage_bytes \in Nat
    <2>1. manifest' \in [Series -> SeriesEntry \union {None}]
      BY DEF StorageInv, TypeOK, Manifest
    <2> QED BY <2>1 DEF SeriesEntry
  <1>2. ASSUME AccountsBounded PROVE AccountsBounded'
    BY <1>1, <1>2 DEF AccountsBounded, KeepsAccounts, Carried, Exact
  <1>3. ASSUME StorageAccounting, TotalsFit' PROVE StorageAccounting'
    BY <1>3 DEF StorageAccounting, TotalsFit, KeepsAccounts, Carried, Exact
  <1> QED BY <1>2, <1>3

\* A series is never charged for bytes that it does not have: whatever flushes and
\* evictions race, storage_bytes does not exceed the sizes of the segments.
THEOREM NeverOvercharged == Spec => []AccountsBounded
  <1>1. Init => AccountsBounded BY DEF Init, AccountsBounded
  <1>2. /\ StorageInv /\ StorageInv' /\ IdsInv /\ ManifestInv /\ LedgerInv /\ [Next]_vars
        /\ AccountsBounded
        => AccountsBounded'
    BY NextLedger, NextAccounts
  <1>3. Spec => []StorageInv /\ []IdsInv /\ []ManifestInv /\ []LedgerInv
    BY StorageInvariant, IdsInvariant, ManifestInvariant, LedgerInvariant, PTL
  <1> QED BY <1>1, <1>2, <1>3, PTL DEF Spec

\* storage_bytes is the sum of the sizes of the segments: flushes add each segment
\* once, evictions that race for one victim subtract it once, and a recovery starts
\* from the sum.  Only a series of more bytes than a u64 counts could break this.
THEOREM AccountsExact == Spec /\ []TotalsFit => []StorageAccounting
  <1>1. Init => StorageAccounting BY DEF Init, StorageAccounting
  <1>2. /\ StorageInv /\ StorageInv' /\ IdsInv /\ ManifestInv /\ LedgerInv /\ [Next]_vars
        /\ StorageAccounting /\ TotalsFit'
        => StorageAccounting'
    BY NextLedger, NextAccounts
  <1>3. Spec => []StorageInv /\ []IdsInv /\ []ManifestInv /\ []LedgerInv
    BY StorageInvariant, IdsInvariant, ManifestInvariant, LedgerInvariant, PTL
  <1> QED BY <1>1, <1>2, <1>3, PTL DEF Spec

-----------------------------------------------------------------------------
(* What keeps timestamps from being accepted again.                        *)

\* The flush of thread t has yet to raise flushed_max_ts of s up to m.
WillRaise(t, s, m) ==
    task[t].pc = "advance" /\ s \in task[t].todo
    /\ MaxTs(task[t].pending[s].samples) >= m.max_ts_ms
IsCovered(s, m) ==
    \/ flushed_max_ts[s] # None /\ flushed_max_ts[s] >= m.max_ts_ms
    \/ \E t \in Tasks : WillRaise(t, s, m)

\* The property, segment by segment.
LEMMA CoverBySegment ==
    FlushedMaxCovers <=> \A s \in series : \A m \in manifest[s].segments : IsCovered(s, m)
  BY DEF FlushedMaxCovers, IsCovered, WillRaise, At

\* The same after a step.
LEMMA CoverAfter ==
    ASSUME \A s \in series' : \A m \in manifest'[s].segments : IsCovered(s, m)'
    PROVE  FlushedMaxCovers'
  BY DEF FlushedMaxCovers, IsCovered, WillRaise, At

\* A step that registers no segment while every flush that has something to raise waits.
LEMMA KeepsCover ==
    ASSUME FlushedMaxCovers, series' = series, flushed_max_ts' = flushed_max_ts,
           \A s \in series : manifest'[s].segments \subseteq manifest[s].segments,
           \A t \in Tasks : task[t].pc = "advance" => task'[t] = task[t]
    PROVE  FlushedMaxCovers'
  <1>1. \A s \in series : \A m \in manifest[s].segments : IsCovered(s, m) BY CoverBySegment
  <1>2. ASSUME NEW s \in series', NEW m \in manifest'[s].segments PROVE IsCovered(s, m)'
    <2>1. IsCovered(s, m) BY <1>1, <1>2
    <2>2. ASSUME NEW t \in Tasks, WillRaise(t, s, m) PROVE WillRaise(t, s, m)'
      BY <2>2 DEF WillRaise
    <2> QED BY <2>1, <2>2 DEF IsCovered
  <1> QED BY <1>2, CoverAfter

\* Most steps of a thread.
LEMMA ThreadCover ==
    ASSUME StorageInv, FlushedMaxCovers, NEW a \in Actors, task[a].pc # "advance",
           NEW r, task' = [task EXCEPT ![a] = r], UNCHANGED <<series, flushed_max_ts>>,
           \A s \in series : manifest'[s].segments \subseteq manifest[s].segments
    PROVE  FlushedMaxCovers'
  <1>1. \A t \in Tasks : task[t].pc = "advance" => task'[t] = task[t]
    BY DEF StorageInv, TypeOK, Actors
  <1> QED BY <1>1, KeepsCover

\* A request registers a series without segments or starts a thread.
LEMMA ClientCover ==
    ASSUME StorageInv, FlushedMaxCovers, Client, faults = 0, faults' = 0
    PROVE  FlushedMaxCovers'
  <1>1. ASSUME NEW s \in Series, NEW type \in SeriesTypes, NEW limit \in Limits,
               NEW ok \in BOOLEAN, Register(s, type, limit, ok)
        PROVE  FlushedMaxCovers'
    <2>1. ok = TRUE BY <1>1 DEF Register, Outcome
    <2>2. /\ manifest' = [manifest EXCEPT ![s] = NewEntry(type, Clamp(limit))]
          /\ flushed_max_ts' = [flushed_max_ts EXCEPT ![s] = None]
          /\ series' = series \union {s} /\ task' = task /\ s \notin series
      BY <1>1, <2>1 DEF Register, Save, CanRegister
    <2>3. manifest'[s].segments = {} BY <2>2 DEF StorageInv, TypeOK, Manifest, NewEntry
    <2>4. ASSUME NEW x \in series', NEW m \in manifest'[x].segments PROVE IsCovered(x, m)'
      <3>1. x \in series /\ x # s BY <2>2, <2>3, <2>4
      <3>2. manifest'[x] = manifest[x] /\ flushed_max_ts'[x] = flushed_max_ts[x]
        BY <2>2, <3>1 DEF StorageInv, TypeOK, Manifest
      <3>3. IsCovered(x, m) BY <2>4, <3>1, <3>2, CoverBySegment
      <3>4. \A t \in Tasks : WillRaise(t, x, m)' <=> WillRaise(t, x, m) BY <2>2 DEF WillRaise
      <3> QED BY <3>2, <3>3, <3>4 DEF IsCovered
    <2> QED BY <2>4, CoverAfter
  <1>2. ASSUME NEW t \in Tasks,
               \/ \E batch \in Batches : BeginAppend(t, batch)
               \/ \E ids \in (SUBSET series) \ {{}} : BeginFlush(t, ids)
        PROVE  FlushedMaxCovers'
    <2>1. /\ task[t].pc = "idle" /\ UNCHANGED memory
          /\ \E r : task' = [task EXCEPT ![t] = r]
      BY <1>2, Zenon DEF BeginAppend, BeginFlush, At
    <2> QED BY <2>1, ThreadCover DEF Actors, memory
  <1> QED BY <1>1, <1>2 DEF Client

\* The steps of an append and of a flush that neither register nor raise.
LEMMA FlushCover ==
    ASSUME StorageInv, FlushedMaxCovers, NEW t \in Tasks,
           \/ Alloc(t)
           \/ \E s \in Series :
               \/ AppendGroup(t, s) \/ Prepare(t, s) \/ Mkdir(t, s) \/ CreateTmp(t, s)
               \/ CreateTmpNoDir(t, s) \/ WriteFails(t, s)
               \/ \E size \in SegmentSizes, ok \in BOOLEAN : Rename(t, s, size, ok)
    PROVE  FlushedMaxCovers'
  <1>1. task[t].pc # "advance" /\ UNCHANGED <<series, flushed_max_ts>>
    BY Zenon DEF Alloc, AppendGroup, Prepare, Mkdir, CreateTmp, CreateTmpNoDir, WriteFails, Rename,
           memory, At, Working
  <1>2. \E r : task' = [task EXCEPT ![t] = r]
    <2>1. CASE Alloc(t)
      <3>1. \E p : task' = [task EXCEPT ![t].pc = "mkdir", ![t].pending = p] BY <2>1 DEF Alloc
      <3>2. PICK p : task' = [task EXCEPT ![t].pc = "mkdir", ![t].pending = p] BY <3>1
      <3>3. task' = [task EXCEPT ![t] = [task[t] EXCEPT !.pc = "mkdir", !.pending = p]]
        BY <3>2 DEF StorageInv, TypeOK, Actors
      <3> QED BY <3>3
    <2>2. ASSUME NEW s \in Series,
               \/ AppendGroup(t, s) \/ Prepare(t, s) \/ Mkdir(t, s) \/ CreateTmp(t, s)
               \/ CreateTmpNoDir(t, s) \/ WriteFails(t, s)
               \/ \E size \in SegmentSizes, ok \in BOOLEAN : Rename(t, s, size, ok)
          PROVE  \E r : task' = [task EXCEPT ![t] = r]
      BY <2>2, Zenon DEF AppendGroup, Prepare, Mkdir, CreateTmp, CreateTmpNoDir, WriteFails, Rename,
                  GoTo, Abort
    <2> QED BY <2>1, <2>2
  <1>3. \A s \in series : manifest'[s].segments \subseteq manifest[s].segments
    <2>1. CASE manifest' = manifest BY <2>1
    <2>2. CASE Alloc(t)
      <3>1. ASSUME NEW s \in series PROVE manifest'[s].segments = manifest[s].segments
        <4>1. manifest[s] \in SeriesEntry /\ s \in Series
          BY DEF StorageInv, TypeOK, SeriesOK, Manifest
        <4> QED BY <2>2, <4>1 DEF Alloc, SeriesEntry
      <3> QED BY <3>1
    <2> QED BY <2>1, <2>2, Zenon
      DEF AppendGroup, Prepare, Mkdir, CreateTmp, CreateTmpNoDir, WriteFails,
                              Rename, memory
  <1> QED BY <1>1, <1>2, <1>3, ThreadCover DEF Actors

\* The commit leaves the flush to raise flushed_max_ts of every series it registered.
LEMMA CommitCover ==
    ASSUME StorageInv, FlushedMaxCovers, NEW t \in Tasks, NEW ok \in BOOLEAN, Commit(t, ok),
           faults = 0, faults' = 0
    PROVE  FlushedMaxCovers'
  <1>1. /\ TypeOK /\ SeriesOK /\ task \in [Actors -> Task] /\ t \in Actors
        /\ task[t] \in Task /\ TaskOK(task[t], series)
    BY DEF StorageInv, TypeOK, Actors
  <1>2. ok = TRUE BY DEF Commit, Outcome
  <1>3. /\ task[t].pc = "commit" /\ UNCHANGED <<series, flushed_max_ts>>
        /\ task' = [task EXCEPT ![t].pc = "advance"]
        /\ manifest' = [s \in Series |-> IF s \in Pending(task[t])
               THEN Registered(manifest[s], task[t].pending[s]) ELSE manifest[s]]
    BY <1>2 DEF Commit, Save, At, GoTo
  <1>4. /\ task'[t].pc = "advance" /\ task'[t].todo = Pending(task[t])
        /\ task'[t].pending = task[t].pending
    BY <1>1, <1>3 DEF TaskOK, Task
  <1>5. \A u \in Tasks : u # t => task'[u] = task[u] BY <1>1, <1>3 DEF Actors
  <1>6. ASSUME NEW s \in series, NEW m \in manifest[s].segments PROVE IsCovered(s, m)'
    <2>1. IsCovered(s, m) BY <1>6, CoverBySegment
    <2>2. ASSUME NEW u \in Tasks, WillRaise(u, s, m) PROVE WillRaise(u, s, m)'
      <3>1. u # t BY <1>3, <2>2 DEF WillRaise
      <3> QED BY <3>1, <1>5, <2>2 DEF WillRaise
    <2> QED BY <2>1, <2>2, <1>3 DEF IsCovered
  <1>7. ASSUME NEW s \in series, NEW m \in manifest'[s].segments, m \notin manifest[s].segments
        PROVE  IsCovered(s, m)'
    <2>1. s \in Series /\ manifest[s] \in SeriesEntry BY <1>1 DEF TypeOK, SeriesOK, Manifest
    <2>2. s \in Pending(task[t]) /\ manifest'[s] = Registered(manifest[s], task[t].pending[s])
      BY <1>3, <1>7, <2>1
    <2>3. m.max_ts_ms = MaxTs(task[t].pending[s].samples)
      BY <1>7, <2>1, <2>2 DEF Registered, SeriesEntry
    <2>4. task[t].pending[s].samples \in SUBSET BufferedSample /\ task[t].pending[s].samples # {}
      BY <1>1, <2>1, <2>2 DEF Task, PendingFlush, Pending
    <2>5. MaxTs(task[t].pending[s].samples) \in Int
      BY <2>4, SampleRange, StorageAssumption DEF Timestamps
    <2>6. MaxTs(task[t].pending[s].samples) >= m.max_ts_ms BY <2>3, <2>5
    <2>7. WillRaise(t, s, m)' BY <1>4, <2>2, <2>6 DEF WillRaise
    <2> QED BY <2>7 DEF IsCovered
  <1>8. \A s \in series' : \A m \in manifest'[s].segments : IsCovered(s, m)' BY <1>3, <1>6, <1>7
  <1> QED BY <1>8, CoverAfter

\* A flush raises flushed_max_ts of one series and goes on with the others.
LEMMA AdvanceCover ==
    ASSUME StorageInv, FlushedMaxCovers, NEW t \in Tasks, NEW s \in Series, Advance(t, s)
    PROVE  FlushedMaxCovers'
  <1> DEFINE v == Visited(task[t], s, "evict", Pending(task[t]))
             top == MaxTs(task[t].pending[s].samples)
  <1>1. /\ TypeOK /\ task \in [Actors -> Task] /\ t \in Actors
        /\ task[t] \in Task /\ TaskOK(task[t], series)
    BY DEF StorageInv, TypeOK, Actors
  <1>2. /\ task[t].pc = "advance" /\ s \in task[t].todo /\ task' = [task EXCEPT ![t] = v]
        /\ UNCHANGED <<series, manifest>>
        /\ flushed_max_ts' = [flushed_max_ts EXCEPT ![s] = Raised(flushed_max_ts[s], top)]
    BY <1>1 DEF Advance, At, TypeOK
  <1>3. top \in Int
    <2>1. task[t].pending[s].samples \in SUBSET BufferedSample /\ task[t].pending[s].samples # {}
      BY <1>1, <1>2 DEF Task, PendingFlush, Pending, TaskOK
    <2> QED BY <2>1, SampleRange, StorageAssumption DEF Timestamps
  <1>4. \A x \in Series : flushed_max_ts[x] \in Int \union {None}
    BY <1>1, StorageAssumption DEF TypeOK, Timestamps
  <1>5. \A x \in Series : flushed_max_ts'[x] = IF x = s THEN Raised(flushed_max_ts[s], top)
                                                        ELSE flushed_max_ts[x]
    BY <1>1, <1>2 DEF TypeOK
  <1>6. task[t].todo # {s} =>
            v.pc = "advance" /\ v.todo = task[t].todo \ {s} /\ v.pending = task[t].pending
    BY <1>1, <1>2 DEF Visited, Task
  <1>7. task'[t] = v /\ \A u \in Tasks : u # t => task'[u] = task[u] BY <1>1, <1>2 DEF Actors
  <1>8. None \notin Int BY StorageAssumption
  <1>9. ASSUME NEW x \in series, NEW m \in manifest[x].segments PROVE IsCovered(x, m)'
    <2>1. IsCovered(x, m) BY <1>9, CoverBySegment
    <2>2. x \in Series /\ m.max_ts_ms \in Int
      BY <1>1, <1>9, StorageAssumption
      DEF StorageInv, TypeOK, SeriesOK, Manifest, SeriesEntry, SegmentMeta, Timestamps
    <2>3. CASE flushed_max_ts[x] # None /\ flushed_max_ts[x] >= m.max_ts_ms
      <3>1. flushed_max_ts'[x] # None /\ flushed_max_ts'[x] >= m.max_ts_ms
        <4> HIDE DEF top
        <4> QED BY <1>3, <1>4, <1>5, <1>8, <2>2, <2>3 DEF Raised, IsFresh
      <3> QED BY <3>1 DEF IsCovered
    <2>4. ASSUME NEW u \in Tasks, u # t, WillRaise(u, x, m) PROVE IsCovered(x, m)'
      <3>1. WillRaise(u, x, m)' BY <1>7, <2>4 DEF WillRaise
      <3> QED BY <3>1 DEF IsCovered
    <2>5. CASE WillRaise(t, x, m) /\ x # s
      <3>1. x \in task[t].todo /\ task[t].todo # {s} BY <2>5 DEF WillRaise
      <3>2. v.pc = "advance" /\ x \in v.todo /\ v.pending = task[t].pending BY <1>6, <2>5, <3>1
      <3> HIDE DEF v
      <3>3. WillRaise(t, x, m)' BY <1>7, <2>5, <3>2 DEF WillRaise
      <3> QED BY <3>3 DEF IsCovered
    <2>6. CASE WillRaise(t, x, m) /\ x = s
      <3>1. top >= m.max_ts_ms BY <2>6 DEF WillRaise
      <3>2. flushed_max_ts'[x] # None /\ flushed_max_ts'[x] >= m.max_ts_ms
        <4> HIDE DEF top
        <4> QED BY <1>3, <1>4, <1>5, <1>8, <2>2, <2>6, <3>1 DEF Raised, IsFresh
      <3> QED BY <3>2 DEF IsCovered
    <2> QED BY <2>1, <2>3, <2>4, <2>5, <2>6 DEF IsCovered
  <1>10. \A x \in series' : \A m \in manifest'[x].segments : IsCovered(x, m)' BY <1>2, <1>9
  <1> QED BY <1>10, CoverAfter

\* Evictions only take segments away.
LEMMA EvictCover ==
    ASSUME StorageInv, FlushedMaxCovers, NEW a \in Actors, EvictStep(a) \/ EvictError(a)
    PROVE  FlushedMaxCovers'
  <1>1. task[a].pc # "advance" /\ UNCHANGED <<series, flushed_max_ts>>
        /\ \E r : task' = [task EXCEPT ![a] = r]
    <2>1. PICK s \in Series :
              \/ EvictChoose(a, s) \/ EvictDone(a, s) \/ EvictRemove(a, s) \/ DirCheck(a, s)
              \/ Rmdir(a, s) \/ EvictRemoveFails(a, s) \/ DirCheckFails(a, s)
              \/ \E ok \in BOOLEAN : EvictUpdate(a, s, ok)
      BY DEF EvictStep, EvictError
    <2>2. task[a].pc # "advance" /\ UNCHANGED <<series, flushed_max_ts>>
      BY <2>1 DEF EvictChoose, EvictDone, EvictRemove, DirCheck, Rmdir, EvictRemoveFails,
                  DirCheckFails, EvictUpdate, At, Working, memory
    <2>3. ASSUME EvictChoose(a, s) PROVE \E r : task' = [task EXCEPT ![a] = r]
      <3>1. \E p : task' = [task EXCEPT ![a].pc = "remove", ![a].current = s, ![a].victim = p]
        BY <2>3 DEF EvictChoose
      <3>2. PICK p : task' = [task EXCEPT ![a].pc = "remove", ![a].current = s, ![a].victim = p]
        BY <3>1
      <3>3. task' = [task EXCEPT ![a] = [task[a] EXCEPT !.pc = "remove", !.current = s, !.victim = p]]
        BY <3>2 DEF StorageInv, TypeOK
      <3> QED BY <3>3
    <2>4. ASSUME NEW ok \in BOOLEAN, EvictUpdate(a, s, ok)
          PROVE  \E r : task' = [task EXCEPT ![a] = r]
      <3>1. \/ task' = [task EXCEPT ![a].pc = "evict", ![a].current = None, ![a].victim = NoVictim]
            \/ Return(a)
        BY <2>4 DEF EvictUpdate
      <3>2. [task EXCEPT ![a].pc = "evict", ![a].current = None, ![a].victim = NoVictim]
            = [task EXCEPT ![a] = [task[a] EXCEPT !.pc = "evict", !.current = None,
                                                  !.victim = NoVictim]]
        BY DEF StorageInv, TypeOK
      <3> QED BY <3>1, <3>2 DEF Return
    <2>5. ASSUME \/ EvictDone(a, s) \/ EvictRemove(a, s) \/ DirCheck(a, s) \/ Rmdir(a, s)
                 \/ EvictRemoveFails(a, s) \/ DirCheckFails(a, s)
          PROVE  \E r : task' = [task EXCEPT ![a] = r]
      BY <2>5 DEF EvictDone, EvictRemove, DirCheck, Rmdir, EvictRemoveFails, DirCheckFails,
                  GoTo, Return
    <2> QED BY <2>1, <2>2, <2>3, <2>4, <2>5
  <1>2. \A s \in series : manifest'[s].segments \subseteq manifest[s].segments
    <2>1. CASE manifest' = manifest BY <2>1
    <2>2. ASSUME NEW s \in Series, NEW ok \in BOOLEAN, EvictUpdate(a, s, ok), NEW x \in series
          PROVE  manifest'[x].segments \subseteq manifest[x].segments
      <3>1. manifest' = [manifest EXCEPT ![s] = Dropped(manifest[s], task[a].victim)]
        BY <2>2 DEF EvictUpdate, Save
      <3>2. x \in Series /\ manifest \in Manifest /\ manifest[x] \in SeriesEntry
        BY DEF StorageInv, TypeOK, SeriesOK, Manifest
      <3>3. Dropped(manifest[x], task[a].victim).segments \subseteq manifest[x].segments
        BY <3>2 DEF Dropped, SeriesEntry
      <3>4. manifest'[x] \in {manifest[x], Dropped(manifest[x], task[a].victim)}
        BY <3>1, <3>2 DEF Manifest
      <3> QED BY <3>3, <3>4
    <2> QED BY <2>1, <2>2, Zenon
      DEF EvictStep, EvictError, EvictChoose, EvictDone, EvictRemove, DirCheck,
                              Rmdir, EvictRemoveFails, DirCheckFails, memory
  <1> QED BY <1>1, <1>2, ThreadCover

\* Recovery sets flushed_max_ts to the greatest timestamp of the segments.
LEMMA OpenCover ==
    ASSUME StorageInv', Open
    PROVE  FlushedMaxCovers'
  <1>1. /\ manifest' = [s \in Series |-> RecoveredEntry(s)]
        /\ flushed_max_ts' = [s \in Series |-> LatestFlushed(RecoveredEntry(s))]
    <2>1. [s \in Series |-> LatestFlushed([x \in Series |-> RecoveredEntry(x)][s])]
          = [s \in Series |-> LatestFlushed(RecoveredEntry(s))]
      OBVIOUS
    <2> QED BY <2>1 DEF Open, Save
  <1>2. ASSUME NEW s \in series', NEW m \in manifest'[s].segments PROVE IsCovered(s, m)'
    <2> DEFINE e == manifest'[s]
               T == {n.max_ts_ms : n \in e.segments}
    <2>1. s \in Series /\ e # None /\ e \in SeriesEntry
      BY <1>2 DEF StorageInv, TypeOK, SeriesOK, Manifest
    <2>2. T \in SUBSET Timestamps /\ m.max_ts_ms \in T
      BY <1>2, <2>1 DEF SeriesEntry, SegmentMeta
    <2>3. flushed_max_ts'[s] = Max(T) BY <1>1, <1>2, <2>1 DEF LatestFlushed
    <2> HIDE DEF T
    <2>4. Max(T) \in T /\ m.max_ts_ms <= Max(T) BY <2>2, TimestampRange
    <2>5. Max(T) \in Timestamps /\ m.max_ts_ms \in Timestamps BY <2>2, <2>4
    <2>6. Max(T) \in Int /\ m.max_ts_ms \in Int /\ None \notin Int
      BY <2>5, StorageAssumption DEF Timestamps
    <2>7. Max(T) # None /\ Max(T) >= m.max_ts_ms BY <2>4, <2>6
    <2> QED BY <2>3, <2>7 DEF IsCovered
  <1> QED BY <1>2, CoverAfter

\* No step takes a failure back.
LEMMA FaultsCount == ASSUME StorageInv, [Next]_vars, faults' = 0 PROVE faults = 0
  <1>1. faults \in Nat BY DEF StorageInv, TypeOK
  <1>2. ASSUME NEW a \in Actors, EvictStep(a) \/ EvictError(a)
        PROVE  faults' \in {faults, faults + 1}
    BY <1>2, Zenon DEF EvictStep, EvictError, EvictChoose, EvictDone, EvictRemove, EvictRemoveFails,
                DirCheck, DirCheckFails, Rmdir, EvictUpdate, Outcome, bounds
  <1>3. ASSUME NEW t \in Tasks, AppendStep(t) \/ FlushStep(t)
        PROVE  faults' \in {faults, faults + 1}
    BY <1>3, Zenon DEF AppendStep, FlushStep, AppendGroup, Alloc, Commit, Prepare, Mkdir, CreateTmp,
                CreateTmpNoDir, WriteFails, Rename, Advance, Outcome, bounds
  <1>4. ASSUME Client PROVE faults' \in {faults, faults + 1}
    BY <1>4, Zenon DEF Client, Register, BeginAppend, BeginFlush, Outcome, bounds
  <1>5. ASSUME Open \/ Crash \/ LoseManifest \/ \E f \in files : HeaderUnreadable(f)
        PROVE  faults' \in {faults, faults + 1}
    BY <1>5 DEF Open, Crash, LoseManifest, HeaderUnreadable, Outcome, bounds
  <1>6. ASSUME UNCHANGED vars PROVE faults' = faults BY <1>6 DEF vars, bounds
  <1>7. faults' \in {faults, faults + 1}
    BY <1>2, <1>3, <1>4, <1>5, <1>6 DEF Next, Running, Actors
  <1> QED BY <1>1, <1>7

\* Every step that the file system does not make fail.
LEMMA NextCover ==
    StorageInv /\ StorageInv' /\ (faults = 0 => FlushedMaxCovers) /\ [Next]_vars =>
        (faults = 0 => FlushedMaxCovers)'
  <1> SUFFICES ASSUME StorageInv, StorageInv', faults = 0 => FlushedMaxCovers, [Next]_vars,
                      faults' = 0
               PROVE  FlushedMaxCovers'
    OBVIOUS
  <1>1. faults = 0 /\ FlushedMaxCovers BY FaultsCount
  <1>2. CASE Client BY <1>1, <1>2, ClientCover
  <1>3. ASSUME NEW t \in Tasks, Running(t) PROVE FlushedMaxCovers'
    <2>1. t \in Actors BY DEF Actors
    <2>2. CASE AppendStep(t) BY <1>1, <2>2, FlushCover DEF AppendStep
    <2>3. CASE FlushStep(t) BY <1>1, <2>3, FlushCover, CommitCover, AdvanceCover DEF FlushStep
    <2>4. CASE EvictStep(t) \/ EvictError(t) BY <1>1, <2>1, <2>4, EvictCover
    <2> QED BY <1>3, <2>2, <2>3, <2>4 DEF Running
  <1>4. CASE EvictStep(Opener) BY <1>1, <1>4, EvictCover DEF Actors
  <1>5. CASE Open BY <1>5, OpenCover
  <1>6. CASE Crash BY <1>6 DEF Crash, FlushedMaxCovers
  <1>7. CASE LoseManifest \/ \E f \in files : HeaderUnreadable(f)
    BY <1>1, <1>7 DEF LoseManifest, HeaderUnreadable, Outcome
  <1>8. CASE UNCHANGED vars BY <1>1, <1>8, KeepsCover DEF vars, memory
  <1> QED BY <1>2, <1>3, <1>4, <1>5, <1>6, <1>7, <1>8 DEF Next

\* While the file system works, no timestamp that a segment covers is accepted again
\* once the flush has raised flushed_max_ts, for any number of concurrent flushes,
\* evictions and restarts.
THEOREM CoveredWithoutFault == Spec => [](faults = 0 => FlushedMaxCovers)
  <1>1. Init => (faults = 0 => FlushedMaxCovers) BY DEF Init, FlushedMaxCovers
  <1> QED BY <1>1, NextCover, StorageInvariant, PTL DEF Spec

-----------------------------------------------------------------------------
(* Where samples and files are: in memtables, in flushes, in the manifest.  *)

\* One sample of a timestamp, and finitely many.
Lone(S) == IsFiniteSet(S) /\ \A x, y \in S : x.timestamp_ms = y.timestamp_ms => x = y

\* What a flush drains and what a file holds has one sample of a timestamp, which have
\* numbers already given out; and an accepted sample that is later than one in the
\* memtable is in the memtable too.
MemoryLatest ==
    \A s \in Series : \A y \in memtable[s] : \A x \in accepted[s] :
        x.seq_no > y.seq_no => x \in memtable[s]
SamplesInv ==
    /\ \A s \in Series : IsFiniteSet(memtable[s])
    /\ \A a \in Actors, s \in Series : Lone(task[a].pending[s].samples)
    /\ \A f \in files : Lone(f.samples)
    /\ \A s \in Series : \A x \in accepted[s] : x.seq_no <= clock
    /\ MemoryLatest

\* No call has failed and no flush has dropped what it drained.
NoFailure == faults = 0 /\ \A s \in Series : failed[s] = {}

\* A file is in the manifest, or a flush has written it and will register it.
Placed(f) ==
    \/ \E m \in manifest[f.data_id].segments : m.segment_id = f.segment_id
    \/ \E t \in Tasks : /\ Owned(t, f.data_id) /\ Written(task[t].pending[f.data_id])
                        /\ NextId(t, f.data_id) = f.segment_id
FilesPlaced == status # "down" => \A f \in files : Placed(f)

\* An eviction takes a segment out of the manifest when its file is gone.
VictimGone ==
    \A a \in Actors : task[a].pc \in {"dircheck", "rmdir", "update"} =>
        FileAt(task[a].current, task[a].victim.segment_id) = {}
PlacesInv == VictimGone /\ (NoFailure => FilesPlaced)

-----------------------------------------------------------------------------
(* The steps of a thread.                                                  *)

\* A thread that goes from q to r keeps its flush, which it holds from its drain on: it
\* drops it, carries it on, drains memtables into it, or gets the ids for it.
HoldingPCs == OwningPCs \union {"prepare", "alloc"}
KeepsFlush(q, r) ==
    \A s \in Series : /\ r.pending[s].samples = q.pending[s].samples
                      /\ r.pending[s].segment_id = q.pending[s].segment_id
                      /\ Written(q.pending[s]) => Written(r.pending[s])
CarriesFlush(q, r) ==
    /\ KeepsFlush(q, r)
    /\ \/ q.pc \in OwningPCs /\ r.pc \in OwningPCs \union {"advance"}
       \/ q.pc \notin HoldingPCs /\ r.pc \notin HoldingPCs
Drains(q, r) ==
    /\ q.pc = "prepare" /\ r.pc \in {"prepare", "alloc"}
    /\ \A s \in Series : r.pending[s].samples \in {q.pending[s].samples, LastWrites(memtable[s])}
TakesIds(q, r) ==
    /\ q.pc = "alloc" /\ r.pc = "mkdir"
    /\ \A s \in Series :
        /\ r.pending[s].samples = q.pending[s].samples
        /\ s \in Pending(r) => r.pending[s].segment_id = manifest[s].next_segment_id
Shape(q, r) ==
    Pending(r) = {} \/ CarriesFlush(q, r) \/ Drains(q, r) \/ TakesIds(q, r)
Steps(a) == \E r \in Task : task' = [task EXCEPT ![a] = r] /\ Shape(task[a], r)

\* The places of a thread.
LEMMA Places ==
    /\ HoldingPCs = OwningPCs \union {"prepare", "alloc"}
    /\ OwningPCs = {"mkdir", "create", "rename", "commit"}
    /\ EvictingPCs = {"remove", "dircheck", "rmdir", "update"}
  BY DEF HoldingPCs, OwningPCs, WritingPCs, EvictingPCs

\* A thread that keeps its flush as it is and goes to another place.
LEMMA MovesShape ==
    ASSUME StorageInv, NEW a \in Actors, NEW r, task' = [task EXCEPT ![a] = r], StorageInv',
           r.pending = task[a].pending,
           \/ task[a].pc \in OwningPCs /\ r.pc \in OwningPCs \union {"advance"}
           \/ task[a].pc \notin HoldingPCs /\ r.pc \notin HoldingPCs
    PROVE  Steps(a)
  <1>1. task'[a] = r /\ task'[a] \in Task BY DEF StorageInv, TypeOK
  <1>2. CarriesFlush(task[a], r) BY DEF CarriesFlush, KeepsFlush
  <1> QED BY <1>1, <1>2 DEF Steps, Shape

\* A thread that has nothing to flush.
LEMMA RestsShape ==
    ASSUME StorageInv, NEW a \in Actors, NEW r, task' = [task EXCEPT ![a] = r], StorageInv',
           Pending(r) = {}
    PROVE  Steps(a)
  <1>1. task'[a] = r /\ task'[a] \in Task BY DEF StorageInv, TypeOK
  <1> QED BY <1>1 DEF Steps, Shape

\* An append, and what it makes of its thread.
LEMMA AppendShape ==
    ASSUME StorageInv, StorageInv', NEW t \in Tasks, NEW s \in Series, AppendGroup(t, s)
    PROVE  Steps(t)
  <1> DEFINE r == task'[t]
  <1>1. /\ t \in Actors /\ TypeOK' /\ task[t] \in Task /\ TaskOK(task[t], series)
        /\ task[t].pc = "append"
    BY Zenon DEF StorageInv, TypeOK, Actors, AppendGroup, At
  <1>2. PICK ids : task' = [task EXCEPT ![t] =
            IF task[t].todo = {s} THEN Flushing(ids)
            ELSE [task[t] EXCEPT !.todo = task[t].todo \ {s}, !.to_flush = ids]]
    BY Zenon DEF AppendGroup
  <1>3. /\ task' = [task EXCEPT ![t] = r]
        /\ r \in {Flushing(ids), [task[t] EXCEPT !.todo = task[t].todo \ {s}, !.to_flush = ids]}
    BY <1>1, <1>2 DEF StorageInv, TypeOK
  <1>4. r.pending \in {IdleTask.pending, task[t].pending}
    <2>1. Flushing(ids).pending = IdleTask.pending BY IdleTaskType DEF Flushing, Task
    <2>2. [task[t] EXCEPT !.todo = task[t].todo \ {s}, !.to_flush = ids].pending = task[t].pending
      BY <1>1 DEF Task
    <2> HIDE DEF r
    <2> QED BY <1>3, <2>1, <2>2
  <1> HIDE DEF r
  <1>5. Pending(r) = {}
    <2>1. Pending(task[t]) = {} BY <1>1 DEF TaskOK
    <2> QED BY <2>1, <1>4, IdlePending DEF Pending
  <1> QED BY <1>1, <1>3, <1>5, RestsShape

\* A flush drains a memtable.
LEMMA PrepareShape ==
    ASSUME StorageInv, StorageInv', NEW t \in Tasks, NEW s \in Series, Prepare(t, s)
    PROVE  /\ Steps(t)
           /\ memtable' = [memtable EXCEPT ![s] = {}]
           /\ LastWrites(memtable[s]) # {} =>
                  /\ task'[t].pc \in {"prepare", "alloc"}
                  /\ task'[t].pending[s].samples = LastWrites(memtable[s])
  <1> DEFINE q == [task[t] EXCEPT !.pending[s].samples = LastWrites(memtable[s])]
             r == Visited(q, s, "alloc", Pending(q))
  <1>1. /\ TypeOK /\ TypeOK' /\ t \in Actors /\ task[t] \in Task
    BY DEF StorageInv, TypeOK, Actors
  <1>2. /\ task' = [task EXCEPT ![t] = r]
        /\ memtable' = [memtable EXCEPT ![s] = {}] /\ task[t].pc = "prepare"
    BY DEF Prepare, At
  <1>3. r = task'[t] BY <1>1, <1>2 DEF TypeOK
  <1>4. LastWrites(memtable[s]) \in SUBSET BufferedSample BY <1>1, LastWritesType DEF TypeOK
  <1>5. q \in Task /\ q.pc = "prepare" BY <1>1, <1>2, <1>4 DEF Task, PendingFlush
  <1>6. /\ q.pending[s].samples = LastWrites(memtable[s])
        /\ \A x \in Series \ {s} : q.pending[x] = task[t].pending[x]
    BY <1>1 DEF Task, PendingFlush
  <1> HIDE DEF q
  <1>7. /\ r.pc \in {"prepare", "alloc", "idle"}
        /\ \A x \in Series : r.pending[x].samples = q.pending[x].samples
    BY <1>5, VisitedPending
  <1>8. Pending(r) # {} => r.pc # "idle"
    BY <1>1, <1>3 DEF StorageInv, TaskOK
  <1> HIDE DEF r
  <1>9. r \in Task BY <1>1, <1>3 DEF TypeOK
  <1>10. Shape(task[t], r)
    <2>1. CASE Pending(r) = {} BY <2>1 DEF Shape
    <2>2. CASE Pending(r) # {}
      <3>1. Drains(task[t], r) BY <2>2, <1>2, <1>6, <1>7, <1>8 DEF Drains
      <3> QED BY <3>1 DEF Shape
    <2> QED BY <2>1, <2>2
  <1>11. Steps(t) BY <1>2, <1>9, <1>10 DEF Steps
  <1>12. LastWrites(memtable[s]) # {} => s \in Pending(r) BY <1>6, <1>7 DEF Pending
  <1> QED BY <1>2, <1>3, <1>6, <1>7, <1>8, <1>11, <1>12

\* A flush takes its ids.
LEMMA AllocShape ==
    ASSUME StorageInv, StorageInv', NEW t \in Tasks, Alloc(t)
    PROVE  /\ Steps(t)
           /\ \A s \in Series : manifest[s] # None =>
                  /\ manifest'[s] # None /\ manifest'[s].segments = manifest[s].segments
                  /\ manifest'[s].next_segment_id =
                         IF s \in Pending(task[t]) THEN manifest[s].next_segment_id + 1
                                                   ELSE manifest[s].next_segment_id
  <1> DEFINE P == Pending(task[t])
             flush(s) == [task[t].pending[s] EXCEPT !.segment_id = manifest[s].next_segment_id]
             pending == [s \in Series |-> IF s \in P THEN flush(s) ELSE task[t].pending[s]]
             r == [task[t] EXCEPT !.pc = "mkdir", !.pending = pending]
  <1>1. /\ TypeOK /\ TypeOK' /\ t \in Actors /\ task \in [Actors -> Task] /\ task[t] \in Task
    BY DEF StorageInv, TypeOK, Actors
  <1>2. /\ task' = [task EXCEPT ![t] = r] /\ task[t].pc = "alloc"
        /\ manifest' = [s \in Series |-> IF s \in P
               THEN [manifest[s] EXCEPT !.next_segment_id = @ + 1] ELSE manifest[s]]
    BY DEF Alloc, At
  <1>3. ASSUME NEW s \in Series, manifest[s] # None
        PROVE  /\ manifest'[s] # None /\ manifest'[s].segments = manifest[s].segments
               /\ manifest'[s].next_segment_id =
                      IF s \in P THEN manifest[s].next_segment_id + 1
                                 ELSE manifest[s].next_segment_id
    <2>1. manifest[s] \in SeriesEntry BY <1>1, <1>3 DEF TypeOK, Manifest
    <2>2. CASE s \in P
      <3>1. manifest'[s] = [manifest[s] EXCEPT !.next_segment_id = manifest[s].next_segment_id + 1]
        BY <1>2, <2>2
      <3>2. manifest'[s] \in SeriesEntry BY <3>1, <2>1 DEF SeriesEntry
      <3>3. manifest'[s] # None BY <3>2, NoneAssumption
      <3> QED BY <3>1, <3>3, <2>1, <2>2 DEF SeriesEntry
    <2>3. CASE s \notin P BY <2>3, <1>2, <1>3
    <2> QED BY <2>2, <2>3
  <1>4. \A s \in Series : pending[s].samples = task[t].pending[s].samples
    BY <1>1 DEF Task, PendingFlush
  <1>5. \A s \in P : pending[s].segment_id = manifest[s].next_segment_id
    <2> SUFFICES ASSUME NEW s \in P PROVE pending[s].segment_id = manifest[s].next_segment_id
      OBVIOUS
    <2>1. s \in Series /\ task[t].pending[s] \in PendingFlush BY <1>1 DEF Task, Pending
    <2>2. pending[s] = flush(s) BY <2>1
    <2> QED BY <2>1, <2>2 DEF PendingFlush
  <1> HIDE DEF pending
  <1>6. r.pc = "mkdir" /\ r.pending = pending BY <1>1 DEF Task
  <1> HIDE DEF r
  <1>7. task'[t] = r /\ r \in Task BY <1>1, <1>2 DEF TypeOK
  <1>8. TakesIds(task[t], r) BY <1>2, <1>4, <1>5, <1>6 DEF TakesIds, Pending
  <1>9. Steps(t) BY <1>2, <1>7, <1>8 DEF Steps, Shape
  <1> QED BY <1>3, <1>9

\* write_segment_file before its rename.
LEMMA CreateShape ==
    ASSUME StorageInv, StorageInv', NEW t \in Tasks, NEW s \in Series, Mkdir(t, s) \/ CreateTmp(t, s)
    PROVE  Steps(t)
  <1>1. t \in Actors /\ task \in [Actors -> Task] /\ task[t] \in Task
    BY DEF StorageInv, TypeOK, Actors
  <1>2. CASE Mkdir(t, s)
    <2> DEFINE r == [task[t] EXCEPT !.pc = "create", !.current = s]
    <2>1. task[t].pc = "mkdir" /\ task' = [task EXCEPT ![t] = r] BY <1>1, <1>2 DEF Mkdir, At
    <2>2. r.pc = "create" /\ r.pending = task[t].pending BY <1>1 DEF Task
    <2> HIDE DEF r
    <2> QED BY <1>1, <2>1, <2>2, Places, MovesShape
  <1>3. CASE CreateTmp(t, s)
    <2> DEFINE r == [task[t] EXCEPT !.pc = "rename"]
    <2>1. task[t].pc = "create" /\ task' = [task EXCEPT ![t] = r]
      BY <1>1, <1>3 DEF CreateTmp, Working, GoTo
    <2>2. r.pc = "rename" /\ r.pending = task[t].pending BY <1>1 DEF Task
    <2> HIDE DEF r
    <2> QED BY <1>1, <2>1, <2>2, Places, MovesShape
  <1> QED BY <1>2, <1>3

\* A thread whose call ends.
LEMMA EndsShape ==
    ASSUME StorageInv, StorageInv', NEW a \in Actors, task' = [task EXCEPT ![a] = IdleTask]
    PROVE  Steps(a)
  BY IdleTaskType, RestsShape

\* A rename: the flush goes on with what it has, and one series written.
LEMMA RenameShape ==
    ASSUME StorageInv, StorageInv', NEW t \in Tasks, NEW s \in Series, NEW size \in SegmentSizes,
           NEW ok \in BOOLEAN, Rename(t, s, size, ok)
    PROVE  /\ Steps(t)
           /\ ok => CarriesFlush(task[t], task'[t]) /\ Owned(t, s)' /\ Written(task'[t].pending[s])
  <1> DEFINE q == [task[t] EXCEPT !.pending[s].size_bytes = size, !.pc = "mkdir"]
             v == Visited(q, s, "commit", Pending(q))
  <1>1. /\ t \in Actors /\ TypeOK /\ TypeOK' /\ task[t] \in Task /\ s \in Pending(task[t])
    BY RenameFacts DEF Actors, StorageInv, TypeOK, Rename
  <1>2. /\ task[t].pc = "rename"
        /\ ok => task' = [task EXCEPT ![t] = v]
        /\ ~ok => task' = [task EXCEPT ![t] = IdleTask]
    BY DEF Rename, Abort, Working
  <1>3. size # 0 /\ size \in 0 .. MaxU64 BY StorageAssumption
  <1>4. /\ q \in Task /\ q.pc = "mkdir" /\ Written(q.pending[s])
        /\ KeepsFlush(task[t], q)
    <2>1. q \in Task /\ q.pc = "mkdir" BY <1>1, <1>3, Zenon DEF Task, PendingFlush, PCs
    <2>2. /\ q.pending[s].size_bytes = size
          /\ \A x \in Series \ {s} : q.pending[x].size_bytes = task[t].pending[x].size_bytes
          /\ \A x \in Series : /\ q.pending[x].samples = task[t].pending[x].samples
                               /\ q.pending[x].segment_id = task[t].pending[x].segment_id
      BY <1>1 DEF Task, PendingFlush
    <2> QED BY <1>3, <2>1, <2>2 DEF KeepsFlush, Written
  <1> HIDE DEF q
  <1>5. s \in Pending(q) BY <1>1, <1>4 DEF KeepsFlush, Pending
  <1>6. /\ v.pc \in {"mkdir", "commit", "idle"} /\ (Pending(v) # {} => v.pending = q.pending)
        /\ \A x \in Series : v.pending[x].samples = q.pending[x].samples
    BY <1>4, VisitedPending
  <1> HIDE DEF v
  <1>7. s \in Pending(v) BY <1>5, <1>6 DEF Pending
  <1>8. v.pending = q.pending BY <1>6, <1>7
  <1>9. CASE ok
    <2>1. task' = [task EXCEPT ![t] = v] /\ task'[t] = v /\ v \in Task
      BY <1>1, <1>2, <1>9 DEF TypeOK
    <2>2. v.pc # "idle" BY <1>1, <1>7, <2>1 DEF StorageInv, TaskOK
    <2>3. CarriesFlush(task[t], v) BY <1>2, <1>4, <1>6, <1>8, <2>2, Places DEF CarriesFlush, KeepsFlush
    <2>4. Owned(t, s)' BY <2>1, <2>2, <1>6, <1>7, Places DEF Owned
    <2> QED BY <2>1, <2>3, <2>4, <1>4, <1>8 DEF Steps, Shape
  <1>10. CASE ~ok BY <1>10, <1>1, <1>2, EndsShape
  <1> QED BY <1>9, <1>10

\* A commit, and what comes after it.
LEMMA CommitShape ==
    ASSUME StorageInv, StorageInv', NEW t \in Tasks,
           (\E ok \in BOOLEAN : Commit(t, ok)) \/ (\E s \in Series : Advance(t, s))
    PROVE  Steps(t)
  <1>1. t \in Actors /\ task \in [Actors -> Task] /\ task[t] \in Task /\ TaskOK(task[t], series)
    BY DEF StorageInv, TypeOK, Actors
  <1>2. ASSUME NEW ok \in BOOLEAN, Commit(t, ok) PROVE Steps(t)
    <2> DEFINE r == [task[t] EXCEPT !.pc = "advance"]
    <2>1. /\ task[t].pc = "commit"
          /\ task' = [task EXCEPT ![t] = IF ok THEN r ELSE IdleTask]
      BY <1>2 DEF Commit, GoTo, At
    <2>2. r.pc = "advance" /\ r.pending = task[t].pending BY <1>1 DEF Task
    <2> HIDE DEF r
    <2>3. CASE ok BY <1>1, <2>1, <2>2, <2>3, Places, MovesShape
    <2>4. CASE ~ok BY <1>1, <2>1, <2>4, EndsShape
    <2> QED BY <2>3, <2>4
  <1>3. ASSUME NEW s \in Series, Advance(t, s) PROVE Steps(t)
    <2> DEFINE r == Visited(task[t], s, "evict", Pending(task[t]))
    <2>1. task[t].pc = "advance" /\ task' = [task EXCEPT ![t] = r] BY <1>3 DEF Advance, At
    <2>2. r.pc \in {"advance", "evict", "idle"} /\ (Pending(r) # {} => r.pending = task[t].pending)
      BY <1>1, <2>1, VisitedPending
    <2> HIDE DEF r
    <2>3. CASE Pending(r) = {} BY <1>1, <2>1, <2>3, RestsShape
    <2>4. CASE Pending(r) # {} BY <1>1, <2>1, <2>2, <2>4, Places, MovesShape
    <2> QED BY <2>3, <2>4
  <1> QED BY <1>2, <1>3

\* An eviction.
LEMMA EvictShape ==
    ASSUME StorageInv, StorageInv', NEW a \in Actors, EvictStep(a) \/ EvictError(a)
    PROVE  Steps(a)
  <1>1. task \in [Actors -> Task] /\ task[a] \in Task BY DEF StorageInv, TypeOK
  <1>2. ASSUME NEW r, task' = [task EXCEPT ![a] = r], r.pending = task[a].pending,
               task[a].pc \notin HoldingPCs, r.pc \notin HoldingPCs
        PROVE  Steps(a)
    BY <1>2, MovesShape
  <1>3. ASSUME NEW pc \in EvictingPCs, GoTo(a, pc), task[a].pc \in EvictingPCs PROVE Steps(a)
    <2> DEFINE r == [task[a] EXCEPT !.pc = pc]
    <2>1. task' = [task EXCEPT ![a] = r] BY <1>3 DEF GoTo
    <2>2. r.pc = pc /\ r.pending = task[a].pending BY <1>1 DEF Task
    <2> HIDE DEF r
    <2> QED BY <2>1, <2>2, <1>2, <1>3, Places
  <1>4. ASSUME Return(a) PROVE Steps(a) BY <1>4, EndsShape DEF Return
  <1>5. ASSUME NEW s \in Series, EvictChoose(a, s) PROVE Steps(a)
    <2>1. \E p : task' = [task EXCEPT ![a].pc = "remove", ![a].current = s, ![a].victim = p]
      BY <1>5 DEF EvictChoose
    <2>2. PICK p : task' = [task EXCEPT ![a].pc = "remove", ![a].current = s, ![a].victim = p]
      BY <2>1
    <2> DEFINE r == [task[a] EXCEPT !.pc = "remove", !.current = s, !.victim = p]
    <2>3. task' = [task EXCEPT ![a] = r] /\ task[a].pc = "evict"
      BY <1>1, <1>5, <2>2 DEF EvictChoose, At
    <2>4. r.pc = "remove" /\ r.pending = task[a].pending BY <1>1 DEF Task
    <2> HIDE DEF r
    <2> QED BY <2>3, <2>4, <1>2, Places
  <1>6. ASSUME NEW s \in Series, EvictDone(a, s) PROVE Steps(a)
    <2>1. CASE task[a].todo = {s} BY <2>1, <1>4, <1>6 DEF EvictDone
    <2>2. CASE task[a].todo # {s}
      <3> DEFINE r == [task[a] EXCEPT !.todo = task[a].todo \ {s}]
      <3>1. task' = [task EXCEPT ![a] = r] /\ task[a].pc = "evict"
        BY <1>6, <2>2 DEF EvictDone, At
      <3>2. r.pc = task[a].pc /\ r.pending = task[a].pending BY <1>1 DEF Task
      <3> HIDE DEF r
      <3> QED BY <3>1, <3>2, <1>2, Places
    <2> QED BY <2>1, <2>2
  <1>7. ASSUME NEW s \in Series, EvictRemove(a, s) \/ DirCheck(a, s) \/ Rmdir(a, s) PROVE Steps(a)
    <2>1. task[a].pc \in EvictingPCs
      BY <1>7, Places DEF EvictRemove, DirCheck, Rmdir, Working
    <2>2. PICK pc \in {"dircheck", "rmdir", "update"} : GoTo(a, pc)
      BY <1>7 DEF EvictRemove, DirCheck, Rmdir
    <2>3. pc \in EvictingPCs BY Places
    <2> QED BY <2>1, <2>2, <2>3, <1>3
  <1>8. ASSUME NEW s \in Series, NEW ok \in BOOLEAN, EvictUpdate(a, s, ok) PROVE Steps(a)
    <2> DEFINE r == [task[a] EXCEPT !.pc = "evict", !.current = None, !.victim = NoVictim]
    <2>1. /\ task[a].pc = "update"
          /\ task' = [task EXCEPT ![a] = r] \/ task' = [task EXCEPT ![a] = IdleTask]
      BY <1>1, <1>8 DEF EvictUpdate, Working, Return
    <2>2. r.pc = "evict" /\ r.pending = task[a].pending BY <1>1 DEF Task
    <2> HIDE DEF r
    <2> QED BY <2>1, <2>2, <1>2, Places, EndsShape
  <1> QED BY <1>4, <1>5, <1>6, <1>7, <1>8
      DEF EvictStep, EvictError, EvictRemoveFails, DirCheckFails

\* The begin of a request.
LEMMA BeginShape ==
    ASSUME StorageInv, StorageInv', NEW t \in Tasks,
           \/ \E batch \in Batches : BeginAppend(t, batch)
           \/ \E ids \in (SUBSET series) \ {{}} : BeginFlush(t, ids)
    PROVE  Steps(t)
  <1>1. t \in Actors BY DEF Actors
  <1>2. ASSUME NEW batch \in Batches, BeginAppend(t, batch) PROVE Steps(t)
    <2> DEFINE r == [IdleTask EXCEPT !.pc = "append", !.batch = batch,
                                     !.todo = {batch[i].data_id : i \in DOMAIN batch}]
    <2>1. task' = [task EXCEPT ![t] = r] BY <1>2, Zenon DEF BeginAppend
    <2>2. r.pending = IdleTask.pending BY DEF IdleTask
    <2> HIDE DEF r
    <2>3. Pending(r) = {} BY <2>2, IdlePending DEF Pending
    <2> QED BY <1>1, <2>1, <2>3, RestsShape
  <1>3. ASSUME NEW ids \in SUBSET series, BeginFlush(t, ids) PROVE Steps(t)
    <2>1. task' = [task EXCEPT ![t] = Flushing(ids)] BY <1>3 DEF BeginFlush
    <2>2. Pending(Flushing(ids)) = {} BY FlushingPending DEF StorageInv, TypeOK
    <2> QED BY <1>1, <2>1, <2>2, RestsShape
  <1> QED BY <1>2, <1>3

\* Every step of a thread has one of the shapes.
LEMMA ThreadShape ==
    ASSUME StorageInv, StorageInv', NEW a \in Actors, (a \in Tasks /\ Running(a)) \/ EvictStep(a)
    PROVE  Steps(a)
  <1>1. CASE EvictStep(a) \/ EvictError(a) BY <1>1, EvictShape
  <1>2. ASSUME a \in Tasks, AppendStep(a) PROVE Steps(a) BY <1>2, AppendShape DEF AppendStep
  <1>3. ASSUME a \in Tasks, FlushStep(a) PROVE Steps(a)
    <2>1. ASSUME NEW s \in Series, CreateTmpNoDir(a, s) \/ WriteFails(a, s) PROVE Steps(a)
      BY <2>1, EndsShape DEF CreateTmpNoDir, WriteFails, Abort
    <2> QED BY <1>3, <2>1, AllocShape, PrepareShape, CreateShape, RenameShape, CommitShape
        DEF FlushStep
  <1> QED BY <1>1, <1>2, <1>3 DEF Running

-----------------------------------------------------------------------------
(* What a step does to samples and files.                                  *)

\* A thread that steps is the only one that changes.
LEMMA StepsAlone ==
    ASSUME StorageInv, NEW a \in Actors, Steps(a)
    PROVE  /\ task'[a] \in Task /\ Shape(task[a], task'[a])
           /\ \A b \in Actors : b # a => task'[b] = task[b]
  BY DEF Steps, StorageInv, TypeOK

\* Each step is one of a thread, or of the environment.
LEMMA WhoSteps ==
    ASSUME StorageInv, StorageInv', [Next]_vars
    PROVE  \/ \E a \in Actors : Steps(a)
           \/ \E s \in Series, type \in SeriesTypes, limit \in Limits, ok \in BOOLEAN :
                  Register(s, type, limit, ok)
           \/ Open
           \/ Crash
           \/ UNCHANGED task /\ status' = status
  <1>1. CASE Client
    <2>1. Tasks \subseteq Actors BY DEF Actors
    <2> QED BY <1>1, <2>1, BeginShape DEF Client
  <1>2. CASE (\E t \in Tasks : Running(t)) \/ EvictStep(Opener) BY <1>2, ThreadShape DEF Actors
  <1>3. CASE LoseManifest \/ \E f \in files : HeaderUnreadable(f)
    BY <1>3 DEF LoseManifest, HeaderUnreadable
  <1>4. CASE UNCHANGED vars BY <1>4 DEF vars
  <1> QED BY <1>1, <1>2, <1>3, <1>4 DEF Next

\* The recovery flushes nothing.
LEMMA OpenTask ==
    ASSUME StorageInv, Open
    PROVE  /\ \A a \in Actors : Pending(task'[a]) = {} /\ task'[a].pc \in {"idle", "evict"}
           /\ status = "down" /\ status' # "down"
  <1> DEFINE r(ids) == [IdleTask EXCEPT !.pc = "evict", !.todo = ids]
  <1>1. /\ status = "down" /\ status' # "down"
        /\ \/ task' = [task EXCEPT ![Opener] = IdleTask]
           \/ \E ids : task' = [task EXCEPT ![Opener] = r(ids)]
    BY Zenon DEF Open, Return
  <1>2. \A a \in Actors : task[a].pc = "idle" /\ Pending(task[a]) = {}
    BY <1>1, RunningStatus, Zenon DEF RunsWhile, StorageInv, TaskOK
  <1>3. \A ids : r(ids).pc = "evict" /\ r(ids).pending = IdleTask.pending BY DEF IdleTask
  <1> HIDE DEF r
  <1>4. \A ids : Pending(r(ids)) = {} BY <1>3, IdlePending DEF Pending
  <1> QED BY <1>1, <1>2, <1>3, <1>4, IdleTaskType DEF StorageInv, TypeOK

\* What a flush holds it held before the step, or it drains it in the step.
LEMMA NextPending ==
    ASSUME StorageInv, StorageInv', [Next]_vars, NEW a \in Actors, NEW s \in Series
    PROVE  task'[a].pending[s].samples \in
               {{}, task[a].pending[s].samples, LastWrites(memtable[s])}
  <1>1. ASSUME NEW b \in Actors, Steps(b)
        PROVE  task'[a].pending[s].samples \in
                   {{}, task[a].pending[s].samples, LastWrites(memtable[s])}
    <2>1. CASE a = b
      <3>1. Shape(task[a], task'[a]) BY <1>1, <2>1, StepsAlone
      <3> QED BY <3>1, Zenon DEF Shape, Pending, CarriesFlush, KeepsFlush, Drains, TakesIds
    <2>2. CASE a # b BY <1>1, <2>2, StepsAlone
    <2> QED BY <2>1, <2>2
  <1>2. CASE Open BY <1>2, OpenTask DEF Pending
  <1>3. CASE Crash BY <1>3, IdlePending DEF Crash
  <1>4. CASE UNCHANGED task BY <1>4
  <1> QED BY <1>1, <1>2, <1>3, <1>4, WhoSteps DEF Register

\* A file that appears is one that a flush publishes.
Publishes(t, f) ==
    /\ task[t].pc = "rename" /\ Owned(t, f.data_id) /\ Writing(t, f.data_id)
    /\ f.segment_id = NextId(t, f.data_id) /\ f.samples = task[t].pending[f.data_id].samples
    /\ \E size \in SegmentSizes, ok \in BOOLEAN : Rename(t, f.data_id, size, ok)

\* There is no other.
LEMMA NextFiles ==
    ASSUME StorageInv, [Next]_vars, NEW f \in files', f \notin files
    PROVE  \E t \in Tasks : f.data_id \in Series /\ Publishes(t, f)
  <1>1. ASSUME NEW t \in Tasks, NEW s \in Series, NEW size \in SegmentSizes, NEW ok \in BOOLEAN,
               Rename(t, s, size, ok)
        PROVE  Publishes(t, f) /\ f.data_id \in Series
    <2>1. /\ f.data_id = s /\ f.segment_id = task[t].pending[s].segment_id
          /\ f.samples = task[t].pending[s].samples /\ task[t].pc = "rename"
      BY <1>1 DEF Rename, Working
    <2>2. s \in Pending(task[t]) /\ s \in task[t].todo BY <1>1, RenameFacts DEF Rename
    <2>3. \E size1 \in SegmentSizes, ok1 \in BOOLEAN : Rename(t, f.data_id, size1, ok1)
      BY <1>1, <2>1
    <2> QED BY <2>1, <2>2, <2>3, Places DEF Publishes, Owned, NextId, Writing, WritingPCs
  <1>2. ASSUME NEW a, EvictStep(a) \/ EvictError(a) PROVE files' \subseteq files
    BY <1>2, Zenon DEF EvictStep, EvictError, EvictChoose, EvictDone, EvictRemove, DirCheck, Rmdir,
                EvictUpdate, EvictRemoveFails, DirCheckFails, disk
  <1>3. ASSUME NEW t \in Tasks, AppendStep(t) PROVE files' \subseteq files
    BY <1>3 DEF AppendStep, AppendGroup, disk
  <1>4. ASSUME NEW t \in Tasks, FlushStep(t)
        PROVE  files' \subseteq files \/ \E u \in Tasks : f.data_id \in Series /\ Publishes(u, f)
    BY <1>1, <1>4 DEF FlushStep, Alloc, Commit, Prepare, Mkdir, CreateTmp, CreateTmpNoDir,
                      WriteFails, Advance, disk
  <1>5. CASE Client BY <1>5, Zenon DEF Client, Register, BeginAppend, BeginFlush, disk
  <1>6. CASE Open \/ Crash \/ LoseManifest \/ \E g \in files : HeaderUnreadable(g)
    BY <1>6 DEF Open, Crash, LoseManifest, HeaderUnreadable, disk
  <1>7. CASE UNCHANGED vars BY <1>7 DEF vars, disk
  <1> QED BY <1>2, <1>3, <1>4, <1>5, <1>6, <1>7 DEF Next, Running

\* A step leaves a memtable alone, empties it, or adds to it the samples it accepts,
\* under numbers that it gives out.
Adds(s, new) ==
    /\ memtable'[s] = memtable[s] \union new /\ accepted'[s] = accepted[s] \union new
    /\ IsFiniteSet(new) /\ \A x \in new : clock < x.seq_no /\ x.seq_no <= clock'
Memorises(s) ==
    \/ accepted'[s] = accepted[s] /\ memtable'[s] \in {{}, memtable[s]}
    \/ \E new : Adds(s, new)

\* An append adds to one memtable.
LEMMA AppendMemory ==
    ASSUME StorageInv, NEW t \in Tasks, NEW s \in Series, AppendGroup(t, s)
    PROVE  clock' \in Nat /\ clock <= clock' /\ \A x \in Series : Memorises(x)
  <1> DEFINE batch == task[t].batch
             taken == {i \in DOMAIN batch : batch[i].data_id = s /\ Accepts(batch[i])}
             new == {[timestamp_ms |-> batch[i].timestamp_ms, seq_no |-> clock + i] : i \in taken}
  <1>1. /\ memtable' = [memtable EXCEPT ![s] = @ \union new]
        /\ accepted' = [accepted EXCEPT ![s] = @ \union new]
        /\ clock' = clock + Len(batch)
    BY DEF AppendGroup
  <1>2. batch \in Seq(Sample) /\ clock \in Nat BY DEF StorageInv, TypeOK, Task, Actors
  <1>3. Len(batch) \in Nat /\ \A i \in DOMAIN batch : i \in Nat /\ 1 <= i /\ i <= Len(batch)
    BY <1>2
  <1>4. \A x \in new : clock < x.seq_no /\ x.seq_no <= clock'
    <2>1. \A i \in taken : clock < clock + i /\ clock + i <= clock' BY <1>1, <1>2, <1>3
    <2> QED BY <2>1
  <1>5. IsFiniteSet(new)
    <2>1. DOMAIN batch = 1 .. Len(batch) BY <1>2
    <2>2. IsFiniteSet(1 .. Len(batch)) BY <1>3, FS_Interval
    <2>3. taken \subseteq 1 .. Len(batch) BY <2>1
    <2> HIDE DEF taken
    <2>4. IsFiniteSet(taken) BY <2>2, <2>3, FS_Subset
    <2> DEFINE g == [i \in taken |->
                        [timestamp_ms |-> batch[i].timestamp_ms, seq_no |-> clock + i]]
    <2>5. g \in Surjection(taken, new) BY DEF Surjection
    <2> HIDE DEF g, new
    <2> QED BY <2>4, <2>5, FS_Surjection
  <1> HIDE DEF new
  <1>6. Adds(s, new) BY <1>1, <1>4, <1>5 DEF Adds, StorageInv, TypeOK
  <1>7. \A x \in Series \ {s} : accepted'[x] = accepted[x] /\ memtable'[x] = memtable[x]
    BY <1>1 DEF StorageInv, TypeOK
  <1>8. clock' \in Nat /\ clock <= clock'
    <2> HIDE DEF batch
    <2> QED BY <1>1, <1>2, <1>3
  <1> QED BY <1>6, <1>7, <1>8 DEF Memorises

\* Every step does one of these to each memtable.
LEMMA NextMemory ==
    ASSUME StorageInv, [Next]_vars
    PROVE  clock' \in Nat /\ clock <= clock' /\ \A s \in Series : Memorises(s)
  <1>1. ASSUME clock' = clock, accepted' = accepted,
               \A s \in Series : memtable'[s] \in {{}, memtable[s]}
        PROVE  clock' \in Nat /\ clock <= clock' /\ \A s \in Series : Memorises(s)
    BY <1>1 DEF Memorises, StorageInv, TypeOK
  <1>2. ASSUME NEW a, EvictStep(a) \/ EvictError(a)
        PROVE  UNCHANGED <<clock, accepted, memtable>>
    BY <1>2, Zenon DEF EvictStep, EvictError, EvictChoose, EvictDone, EvictRemove, DirCheck, Rmdir,
                EvictUpdate, EvictRemoveFails, DirCheckFails, memory, history, bounds
  <1>3. ASSUME NEW t \in Tasks, AppendStep(t)
        PROVE  clock' \in Nat /\ clock <= clock' /\ \A s \in Series : Memorises(s)
    BY <1>3, AppendMemory DEF AppendStep
  <1>4. ASSUME NEW t \in Tasks, FlushStep(t)
        PROVE  UNCHANGED <<clock, accepted>> /\ \A s \in Series : memtable'[s] \in {{}, memtable[s]}
    <2>1. ASSUME NEW s \in Series, Prepare(t, s)
          PROVE  UNCHANGED <<clock, accepted>> /\ \A x \in Series : memtable'[x] \in {{}, memtable[x]}
      BY <2>1 DEF Prepare, history, bounds, StorageInv, TypeOK
    <2> QED BY <2>1, <1>4, Zenon DEF FlushStep, Alloc, Commit, Mkdir, CreateTmp, CreateTmpNoDir,
                              WriteFails, Advance, Rename, memory, history, bounds
  <1>5. CASE Client
    <2>1. UNCHANGED <<clock, accepted>>
      BY <1>5, Zenon DEF Client, Register, BeginAppend, BeginFlush, history, bounds
    <2>2. \A s \in Series : memtable'[s] \in {{}, memtable[s]}
      BY <1>5, Zenon DEF Client, Register, BeginAppend, BeginFlush, memory, StorageInv, TypeOK
    <2> QED BY <2>1, <2>2, <1>1
  <1>6. CASE Open \/ Crash \/ LoseManifest \/ \E g \in files : HeaderUnreadable(g)
    BY <1>1, <1>6 DEF Open, Crash, LoseManifest, HeaderUnreadable, memory, history, bounds
  <1>7. CASE UNCHANGED vars BY <1>1, <1>7 DEF vars, memory, history, bounds
  <1> QED BY <1>1, <1>2, <1>3, <1>4, <1>5, <1>6, <1>7 DEF Next, Running

-----------------------------------------------------------------------------
(* The samples of flushes and files.                                       *)

\* The last writes of finitely many samples.
LEMMA LastWritesLone ==
    ASSUME NEW S \in SUBSET BufferedSample, IsFiniteSet(S)
    PROVE  Lone(LastWrites(S))
  <1>1. IsFiniteSet(LastWrites(S)) BY LastWritesType, FS_Subset
  <1>2. ASSUME NEW x \in LastWrites(S), NEW y \in LastWrites(S), x.timestamp_ms = y.timestamp_ms
        PROVE  x = y
    <2>1. x \in BufferedSample /\ y \in BufferedSample BY LastWritesType
    <2>2. x.seq_no <= y.seq_no /\ y.seq_no <= x.seq_no BY <1>2 DEF LastWrites
    <2>3. x.seq_no = y.seq_no BY <2>1, <2>2 DEF BufferedSample
    <2> QED BY <1>2, <2>1, <2>3 DEF BufferedSample
  <1> QED BY <1>1, <1>2 DEF Lone

\* Nothing is held at first.
LEMMA InitSamples == Init => SamplesInv
  <1> SUFFICES ASSUME Init PROVE SamplesInv OBVIOUS
  <1>1. Lone({}) /\ IsFiniteSet({}) BY FS_EmptySet DEF Lone
  <1>2. \A a \in Actors, s \in Series : task[a].pending[s].samples = {} BY IdlePending DEF Init
  <1> QED BY <1>1, <1>2 DEF Init, SamplesInv, MemoryLatest

\* Every step keeps the invariant.
LEMMA NextSamples ==
    StorageInv /\ StorageInv' /\ HandoverInv /\ SamplesInv /\ [Next]_vars => SamplesInv'
  <1> SUFFICES ASSUME StorageInv, StorageInv', HandoverInv, SamplesInv, [Next]_vars
               PROVE  SamplesInv'
    OBVIOUS
  <1>1. clock \in Nat /\ clock' \in Nat /\ clock <= clock' /\ \A s \in Series : Memorises(s)
    BY NextMemory DEF StorageInv, TypeOK
  <1>2. \A s \in Series : /\ memtable[s] \in SUBSET BufferedSample
                          /\ accepted[s] \in SUBSET BufferedSample
    BY DEF StorageInv, TypeOK
  <1>3. ASSUME NEW s \in Series PROVE IsFiniteSet(memtable'[s])
    <2>1. IsFiniteSet(memtable[s]) /\ IsFiniteSet({}) BY FS_EmptySet DEF SamplesInv
    <2>2. ASSUME NEW new, Adds(s, new) PROVE IsFiniteSet(memtable'[s])
      BY <2>1, <2>2, FS_Union DEF Adds
    <2> QED BY <2>1, <2>2, <1>1 DEF Memorises
  <1>4. ASSUME NEW a \in Actors, NEW s \in Series PROVE Lone(task'[a].pending[s].samples)
    <2>1. Lone({}) BY FS_EmptySet DEF Lone
    <2>2. Lone(task[a].pending[s].samples) BY DEF SamplesInv
    <2>3. Lone(LastWrites(memtable[s])) BY <1>2, LastWritesLone DEF SamplesInv
    <2> QED BY <2>1, <2>2, <2>3, NextPending
  <1>5. ASSUME NEW f \in files' PROVE Lone(f.samples)
    <2>1. CASE f \in files BY <2>1 DEF SamplesInv
    <2>2. CASE f \notin files
      <3>1. PICK t \in Tasks : f.data_id \in Series /\ Publishes(t, f) BY <2>2, NextFiles
      <3> QED BY <3>1 DEF Publishes, SamplesInv, Actors
    <2> QED BY <2>1, <2>2
  <1>6. ASSUME NEW s \in Series, NEW x \in accepted'[s] PROVE x.seq_no <= clock'
    <2>1. ASSUME x \in accepted[s] PROVE x.seq_no <= clock'
      <3>1. x.seq_no \in Nat /\ x.seq_no <= clock BY <2>1, <1>2 DEF SamplesInv, BufferedSample
      <3> QED BY <3>1, <1>1
    <2> QED BY <2>1, <1>1, <1>6 DEF Memorises, Adds
  <1>7. ASSUME NEW s \in Series, NEW y \in memtable'[s], NEW x \in accepted'[s], x.seq_no > y.seq_no
        PROVE  x \in memtable'[s]
    <2>1. CASE accepted'[s] = accepted[s] /\ memtable'[s] \in {{}, memtable[s]}
      BY <1>7, <2>1 DEF SamplesInv, MemoryLatest
    <2>2. ASSUME NEW new, Adds(s, new) PROVE x \in memtable'[s]
      <3>1. CASE x \in new BY <2>2, <3>1 DEF Adds
      <3>2. CASE x \in accepted[s] /\ y \in memtable[s]
        BY <1>7, <2>2, <3>2 DEF Adds, SamplesInv, MemoryLatest
      <3>3. CASE x \in accepted[s] /\ y \in new
        <4>1. x.seq_no <= clock /\ clock < y.seq_no BY <2>2, <3>3 DEF Adds, SamplesInv
        <4>2. x.seq_no \in Nat /\ y.seq_no \in Nat
          BY <1>7 DEF StorageInv, TypeOK, BufferedSample
        <4> QED BY <4>1, <4>2, <1>1, <1>7
      <3> QED BY <2>2, <3>1, <3>2, <3>3, <1>7 DEF Adds
    <2> QED BY <2>1, <2>2, <1>1 DEF Memorises
  <1> QED BY <1>3, <1>4, <1>5, <1>6, <1>7 DEF SamplesInv, MemoryLatest

-----------------------------------------------------------------------------
(* Where the files of segments are known.                                  *)

\* A flush or an append leads to no eviction of a file.
LEMMA NoEviction ==
    ASSUME StorageInv, StorageInv', NEW t \in Tasks, AppendStep(t) \/ FlushStep(t)
    PROVE  task'[t].pc \notin EvictingPCs
  <1>1. /\ t \in Actors /\ TypeOK' /\ task \in [Actors -> Task] /\ task[t] \in Task
        /\ IdleTask.pc = "idle"
    BY IdleTaskType DEF StorageInv, TypeOK, Actors
  <1>2. ASSUME NEW s \in Series, AppendGroup(t, s) PROVE task'[t].pc \in {"append", "prepare", "idle"}
    <2>1. PICK ids : task' = [task EXCEPT ![t] =
              IF task[t].todo = {s} THEN Flushing(ids)
              ELSE [task[t] EXCEPT !.todo = task[t].todo \ {s}, !.to_flush = ids]]
      BY <1>2, Zenon DEF AppendGroup
    <2>2. task[t].pc = "append" BY <1>2 DEF AppendGroup, At
    <2>3. Flushing(ids).pc \in {"prepare", "idle"} BY <1>1 DEF Flushing, IdleTask
    <2>4. [task[t] EXCEPT !.todo = task[t].todo \ {s}, !.to_flush = ids].pc = "append"
      BY <1>1, <2>2 DEF Task
    <2> QED BY <1>1, <2>1, <2>3, <2>4
  <1>3. ASSUME NEW s \in Series, Prepare(t, s) PROVE task'[t].pc \in {"prepare", "alloc", "idle"}
    <2> DEFINE q == [task[t] EXCEPT !.pending[s].samples = LastWrites(memtable[s])]
               r == Visited(q, s, "alloc", Pending(q))
    <2>1. task' = [task EXCEPT ![t] = r] /\ task[t].pc = "prepare" BY <1>3 DEF Prepare, At
    <2>2. TypeOK /\ LastWrites(memtable[s]) \in SUBSET BufferedSample
      BY LastWritesType DEF StorageInv, TypeOK
    <2>3. task[t] \in Task BY <1>1
    <2>4. q \in Task BY <2>2, <2>3 DEF Task, PendingFlush
    <2>5. q.pc = "prepare" BY <2>1, <2>3 DEF Task
    <2> HIDE DEF q
    <2>6. r.pc \in {"prepare", "alloc", "idle"} BY <2>4, <2>5, VisitedPending
    <2> HIDE DEF r
    <2> QED BY <1>1, <2>1, <2>6
  <1>4. ASSUME NEW s \in Series, Advance(t, s) PROVE task'[t].pc \in {"advance", "evict", "idle"}
    <2> DEFINE r == Visited(task[t], s, "evict", Pending(task[t]))
    <2>1. task' = [task EXCEPT ![t] = r] /\ task[t].pc = "advance" BY <1>4 DEF Advance, At
    <2>2. r.pc \in {"advance", "evict", "idle"} BY <1>1, <2>1, VisitedPending
    <2> HIDE DEF r
    <2> QED BY <1>1, <2>1, <2>2
  <1>5. ASSUME NEW s \in Series, Mkdir(t, s) \/ CreateTmp(t, s) \/ CreateTmpNoDir(t, s)
               \/ WriteFails(t, s)
        PROVE  task'[t].pc \in {"create", "rename", "idle"}
    BY <1>1, <1>5, Zenon DEF Mkdir, CreateTmp, CreateTmpNoDir, WriteFails, Abort, GoTo, Task
  <1>6. ASSUME NEW ok \in BOOLEAN, Commit(t, ok) PROVE task'[t].pc \in {"advance", "idle"}
    BY <1>1, <1>6 DEF Commit, GoTo, Task
  <1>7. ASSUME Alloc(t) PROVE task'[t].pc = "mkdir"
    BY <1>1, <1>7 DEF Alloc, Task
  <1>8. ASSUME NEW s \in Series, NEW size \in SegmentSizes, NEW ok \in BOOLEAN,
               Rename(t, s, size, ok)
        PROVE  task'[t].pc \in OwningPCs \union {"idle", "advance"}
    <2>1. CASE ok BY <1>8, <2>1, RenameShape DEF Owned
    <2>2. CASE ~ok BY <1>1, <1>8, <2>2 DEF Rename, Abort
    <2> QED BY <2>1, <2>2
  <1> QED BY <1>2, <1>3, <1>4, <1>5, <1>6, <1>7, <1>8, Places DEF AppendStep, FlushStep

\* Where an eviction is when its victim is gone.
GonePCs == {"dircheck", "rmdir", "update"}

\* A thread whose victim is gone has just deleted it, or goes on with it.
LEMMA GoneStep ==
    ASSUME StorageInv, StorageInv', [Next]_vars, NEW a \in Actors, task'[a].pc \in GonePCs
    PROVE  \/ \E s \in Series : EvictRemove(a, s)
           \/ /\ task[a].pc \in GonePCs
              /\ task'[a].current = task[a].current /\ task'[a].victim = task[a].victim
  <1> DEFINE Goal == \/ \E s \in Series : EvictRemove(a, s)
                     \/ /\ task[a].pc \in GonePCs
                        /\ task'[a].current = task[a].current /\ task'[a].victim = task[a].victim
  <1>1. task \in [Actors -> Task] /\ task[a] \in Task /\ IdleTask.pc = "idle"
    BY IdleTaskType DEF StorageInv, TypeOK
  <1>2. ASSUME NEW b \in Actors, b # a, Steps(b) PROVE Goal
    BY <1>2, StepsAlone
  <1>3. ASSUME EvictStep(a) \/ EvictError(a) PROVE Goal
    <2>1. ASSUME NEW s \in Series, EvictChoose(a, s) PROVE FALSE
      <3>1. \E p : task' = [task EXCEPT ![a].pc = "remove", ![a].current = s, ![a].victim = p]
        BY <2>1 DEF EvictChoose
      <3>2. task'[a].pc = "remove" BY <1>1, <3>1 DEF Task
      <3> QED BY <3>2 DEF GonePCs
    <2>2. ASSUME NEW s \in Series, EvictDone(a, s) PROVE FALSE
      <3>1. task'[a].pc \in {"idle", "evict"} BY <1>1, <2>2 DEF EvictDone, Return, At, Task
      <3> QED BY <3>1 DEF GonePCs
    <2>3. ASSUME NEW s \in Series, DirCheck(a, s) \/ Rmdir(a, s) PROVE Goal
      <3>1. task[a].pc \in GonePCs BY <2>3 DEF DirCheck, Rmdir, Working, GonePCs
      <3>2. PICK pc : GoTo(a, pc) BY <2>3 DEF DirCheck, Rmdir
      <3>3. task'[a].current = task[a].current /\ task'[a].victim = task[a].victim
        BY <1>1, <3>2 DEF GoTo, Task
      <3> QED BY <3>1, <3>3
    <2>4. ASSUME NEW s \in Series, NEW ok \in BOOLEAN, EvictUpdate(a, s, ok) PROVE FALSE
      <3>1. task'[a].pc \in {"idle", "evict"} BY <1>1, <2>4 DEF EvictUpdate, Return, Task
      <3> QED BY <3>1 DEF GonePCs
    <2>5. ASSUME EvictError(a) PROVE FALSE
      <3>1. task'[a].pc = "idle"
        BY <1>1, <2>5 DEF EvictError, EvictRemoveFails, DirCheckFails, Return
      <3> QED BY <3>1 DEF GonePCs
    <2> QED BY <1>3, <2>1, <2>2, <2>3, <2>4, <2>5 DEF EvictStep
  <1>4. ASSUME a \in Tasks, AppendStep(a) \/ FlushStep(a) PROVE FALSE
    BY <1>4, NoEviction, Places DEF GonePCs
  <1>5. ASSUME Client PROVE Goal
    <2>1. ASSUME NEW t \in Tasks, \/ \E batch \in Batches : BeginAppend(t, batch)
                                  \/ \E ids \in (SUBSET series) \ {{}} : BeginFlush(t, ids)
          PROVE  Goal
      <3>1. CASE t # a
        <4>1. t \in Actors /\ Steps(t) BY <2>1, BeginShape DEF Actors
        <4> QED BY <3>1, <4>1, <1>2
      <3>2. CASE t = a
        <4>1. task'[a].pc \in {"append", "prepare", "idle"}
          BY <1>1, <2>1, <3>2, Zenon DEF BeginAppend, BeginFlush, Flushing, IdleTask
        <4> QED BY <4>1 DEF GonePCs
      <3> QED BY <3>1, <3>2
    <2>2. ASSUME UNCHANGED task PROVE Goal BY <2>2
    <2> QED BY <1>5, <2>1, <2>2 DEF Client, Register
  <1>6. ASSUME Open \/ Crash PROVE FALSE
    <2>1. task'[a].pc \in {"idle", "evict"} BY <1>1, <1>6, OpenTask DEF Crash
    <2> QED BY <2>1 DEF GonePCs
  <1>7. ASSUME UNCHANGED task PROVE Goal BY <1>7
  <1>8. ASSUME NEW b \in Actors, (b \in Tasks /\ Running(b)) \/ EvictStep(b) PROVE Goal
    <2>1. CASE b # a BY <1>2, <1>8, <2>1, ThreadShape
    <2>2. CASE b = a BY <1>3, <1>4, <1>8, <2>2 DEF Running
    <2> QED BY <2>1, <2>2
  <1> HIDE DEF Goal
  <1>9. Goal
    BY <1>5, <1>6, <1>7, <1>8 DEF Next, Actors, LoseManifest, HeaderUnreadable, vars
  <1> QED BY <1>9 DEF Goal

\* Nothing comes back to the path of a victim.
LEMMA NextVictimGone ==
    StorageInv /\ StorageInv' /\ LedgerInv /\ VictimGone /\ [Next]_vars => VictimGone'
  <1> SUFFICES ASSUME StorageInv, StorageInv', LedgerInv, VictimGone, [Next]_vars,
                      NEW a \in Actors, task'[a].pc \in GonePCs, NEW f \in files',
                      f.data_id = task'[a].current, f.segment_id = task'[a].victim.segment_id
               PROVE  FALSE
    BY DEF VictimGone, FileAt, GonePCs
  <1>1. CASE \E s \in Series : EvictRemove(a, s)
    <2>1. PICK s \in Series : EvictRemove(a, s) BY <1>1
    <2>2. /\ files' = files \ FileAt(s, task[a].victim.segment_id)
          /\ task[a].current = s /\ GoTo(a, "dircheck")
      BY <2>1 DEF EvictRemove, Working
    <2>3. task'[a].current = task[a].current /\ task'[a].victim = task[a].victim
      BY <2>2 DEF GoTo, StorageInv, TypeOK, Task
    <2> QED BY <2>2, <2>3 DEF FileAt
  <1>2. CASE /\ task[a].pc \in GonePCs
             /\ task'[a].current = task[a].current /\ task'[a].victim = task[a].victim
    <2>1. f \notin files BY <1>2 DEF VictimGone, FileAt, GonePCs
    <2>2. PICK t \in Tasks : f.data_id \in Series /\ Publishes(t, f) BY <2>1, NextFiles
    <2>3. t \in Actors /\ Evicts(a, f.data_id)
      BY <1>2, <2>2 DEF Evicts, GonePCs, EvictingPCs, Actors
    <2> QED BY <1>2, <2>2, <2>3 DEF Publishes, LedgerInv, VictimKnown
  <1> QED BY <1>1, <1>2, GoneStep

\* What is on record as evicted or lost stays there.
Grows(s) ==
    /\ evicted[s] \subseteq evicted'[s] /\ restarted[s] \subseteq restarted'[s]
    /\ failed[s] \subseteq failed'[s]

\* No step takes anything off the record.
LEMMA GoneGrows ==
    ASSUME StorageInv, [Next]_vars
    PROVE  \A s \in Series : Grows(s)
  <1>1. /\ evicted \in [Series -> SUBSET BufferedSample]
        /\ restarted \in [Series -> SUBSET BufferedSample]
        /\ failed \in [Series -> SUBSET BufferedSample]
    BY DEF StorageInv, TypeOK
  <1>2. ASSUME UNCHANGED <<evicted, restarted, failed>> PROVE \A s \in Series : Grows(s)
    BY <1>2 DEF Grows
  <1>3. ASSUME NEW t, NEW done, Abort(t, done), UNCHANGED <<evicted, restarted>>
        PROVE  \A s \in Series : Grows(s)
    <2>1. \A s \in Series : failed[s] \subseteq failed'[s] BY <1>3 DEF Abort
    <2> QED BY <1>3, <2>1 DEF Grows
  <1>4. ASSUME NEW a, EvictStep(a) \/ EvictError(a) PROVE \A s \in Series : Grows(s)
    <2>1. ASSUME NEW s \in Series, EvictRemove(a, s) PROVE \A x \in Series : Grows(x)
      <3>1. evicted' = [evicted EXCEPT ![s] = @ \union
                UNION {f.samples : f \in FileAt(s, task[a].victim.segment_id)}]
        BY <2>1 DEF EvictRemove
      <3>2. UNCHANGED <<restarted, failed>> BY <2>1 DEF EvictRemove
      <3>3. \A x \in Series : evicted[x] \subseteq evicted'[x] BY <1>1, <3>1
      <3> QED BY <3>2, <3>3 DEF Grows
    <2> QED BY <1>2, <1>4, <2>1, Zenon
        DEF EvictStep, EvictError, EvictChoose, EvictDone, DirCheck, Rmdir, EvictUpdate,
            EvictRemoveFails, DirCheckFails, history
  <1>5. ASSUME NEW t \in Tasks, FlushStep(t) PROVE \A s \in Series : Grows(s)
    <2>1. ASSUME NEW s \in Series, CreateTmpNoDir(t, s) \/ WriteFails(t, s)
          PROVE  \A x \in Series : Grows(x)
      BY <1>3, <2>1 DEF CreateTmpNoDir, WriteFails
    <2>2. ASSUME NEW s \in Series, NEW size \in SegmentSizes, NEW ok \in BOOLEAN,
                 Rename(t, s, size, ok)
          PROVE  \A x \in Series : Grows(x)
      BY <1>2, <1>3, <2>2 DEF Rename
    <2> QED BY <1>2, <1>5, <2>1, <2>2
        DEF FlushStep, Alloc, Commit, Prepare, Mkdir, CreateTmp, Advance, history
  <1>6. ASSUME Crash PROVE \A s \in Series : Grows(s)
    <2>1. restarted' = [s \in Series |-> restarted[s] \union Volatile(s)] BY <1>6 DEF Crash
    <2>2. UNCHANGED <<evicted, failed>> BY <1>6 DEF Crash
    <2> QED BY <2>1, <2>2 DEF Grows
  <1>7. ASSUME NEW f \in files, HeaderUnreadable(f) PROVE \A s \in Series : Grows(s)
    <2>1. failed' = [failed EXCEPT ![f.data_id] = @ \union f.samples] BY <1>7 DEF HeaderUnreadable
    <2>2. UNCHANGED <<evicted, restarted>> BY <1>7 DEF HeaderUnreadable
    <2>3. \A s \in Series : failed[s] \subseteq failed'[s] BY <1>1, <2>1
    <2> QED BY <2>2, <2>3 DEF Grows
  <1>8. CASE Client \/ Open \/ LoseManifest
    BY <1>2, <1>8, Zenon DEF Client, Register, BeginAppend, BeginFlush, Open, LoseManifest, history
  <1>9. ASSUME NEW t \in Tasks, AppendStep(t) PROVE \A s \in Series : Grows(s)
    BY <1>2, <1>9 DEF AppendStep, AppendGroup
  <1>10. CASE UNCHANGED vars BY <1>2, <1>10 DEF vars, history
  <1> QED BY <1>4, <1>5, <1>6, <1>7, <1>8, <1>9, <1>10 DEF Next, Running

\* Once something has failed, it has.
LEMMA NoFailureBefore ==
    ASSUME StorageInv, [Next]_vars, NoFailure'
    PROVE  NoFailure
  <1>1. faults = 0 BY FaultsCount DEF NoFailure
  <1>2. \A s \in Series : failed[s] = {} BY GoneGrows DEF NoFailure, Grows
  <1> QED BY <1>1, <1>2 DEF NoFailure

\* A file that disappears while the engine runs is evicted.
LEMMA FilesLeave ==
    ASSUME StorageInv, IdsInv, [Next]_vars, status # "down", NEW f \in files, f \notin files'
    PROVE  f.samples \subseteq evicted'[f.data_id]
  <1>1. f \in SegmentFile /\ f.data_id \in Series BY DEF StorageInv, TypeOK, SegmentFile
  <1>2. ASSUME NEW t \in Tasks, NEW s \in Series, NEW size \in SegmentSizes, NEW ok \in BOOLEAN,
               Rename(t, s, size, ok)
        PROVE  FALSE
    <2>1. /\ files \ files' \subseteq FileAt(s, task[t].pending[s].segment_id)
          /\ Working(t, "rename", s)
      BY <1>2 DEF Rename
    <2>2. Writing(t, s) BY <2>1, RenameFacts DEF Writing, Working, WritingPCs
    <2>3. FileAt(s, NextId(t, s)) = {} BY <2>2 DEF IdsInv, IdsUnused, Actors
    <2> QED BY <2>1, <2>3 DEF NextId
  <1>3. ASSUME NEW a, NEW s \in Series, EvictRemove(a, s)
        PROVE  f.samples \subseteq evicted'[f.data_id]
    <2> DEFINE victim == FileAt(s, task[a].victim.segment_id)
    <2>1. /\ files' = files \ victim
          /\ evicted' = [evicted EXCEPT ![s] = @ \union UNION {g.samples : g \in victim}]
      BY <1>3 DEF EvictRemove
    <2>2. f \in victim /\ f.data_id = s BY <2>1 DEF FileAt
    <2> HIDE DEF victim
    <2>3. evicted'[s] = evicted[s] \union UNION {g.samples : g \in victim}
      BY <2>1 DEF StorageInv, TypeOK
    <2> QED BY <2>2, <2>3
  <1>4. ASSUME NEW a, EvictStep(a) \/ EvictError(a) PROVE f.samples \subseteq evicted'[f.data_id]
    BY <1>3, <1>4, Zenon
    DEF EvictStep, EvictError, EvictChoose, EvictDone, DirCheck, Rmdir, EvictUpdate,
                      EvictRemoveFails, DirCheckFails, disk
  <1>5. ASSUME NEW t \in Tasks, AppendStep(t) \/ FlushStep(t) PROVE FALSE
    BY <1>2, <1>5, Zenon
    DEF AppendStep, AppendGroup, FlushStep, Alloc, Commit, Prepare, Mkdir, CreateTmp,
                      CreateTmpNoDir, WriteFails, Advance, disk
  <1>6. CASE Client BY <1>6, Zenon DEF Client, Register, BeginAppend, BeginFlush, disk
  <1>7. CASE Open \/ Crash \/ LoseManifest \/ \E g \in files : HeaderUnreadable(g)
    BY <1>7 DEF Open, Crash, LoseManifest, HeaderUnreadable, disk
  <1>8. CASE UNCHANGED vars BY <1>8 DEF vars, disk
  <1> QED BY <1>4, <1>5, <1>6, <1>7, <1>8 DEF Next, Running

\* A thread that carries its flush on owns what it owned.
StaysOwner(t, s) ==
    /\ Owned(t, s)' /\ NextId(t, s)' = NextId(t, s)
    /\ task'[t].pending[s].samples = task[t].pending[s].samples
    /\ Written(task[t].pending[s]) => Written(task'[t].pending[s])

\* It does if it does not go on to raise flushed_max_ts.
LEMMA CarriesKeeps ==
    ASSUME NEW t \in Tasks, NEW s \in Series, Owned(t, s),
           CarriesFlush(task[t], task'[t]), task'[t].pc # "advance"
    PROVE  StaysOwner(t, s)
  <1>1. task'[t].pc \in OwningPCs /\ KeepsFlush(task[t], task'[t])
    BY Places DEF CarriesFlush, Owned
  <1> QED BY <1>1 DEF StaysOwner, Owned, NextId, KeepsFlush, Pending

\* Without failures a flush keeps its ids until it registers what it has written.
LEMMA OwnerStays ==
    ASSUME StorageInv, StorageInv', [Next]_vars, status' # "down", NoFailure',
           NEW t \in Tasks, NEW s \in Series, Owned(t, s)
    PROVE  StaysOwner(t, s) \/ Commit(t, TRUE)
  <1> DEFINE Goal == StaysOwner(t, s) \/ Commit(t, TRUE)
  <1>1. /\ t \in Actors /\ t # Opener /\ task \in [Actors -> Task] /\ task[t] \in Task
        /\ TaskOK(task[t], series) /\ task[t].pc \in {"mkdir", "create", "rename", "commit"}
        /\ task[t].pending[s].samples # {} /\ faults \in Nat
    BY StorageAssumption DEF StorageInv, TypeOK, Actors, Owned, Pending, OwningPCs, WritingPCs
  <1>2. ASSUME task'[t] = task[t] PROVE Goal BY <1>2 DEF StaysOwner, Owned, NextId, Pending
  <1>3. ASSUME NEW b \in Actors, b # t, Steps(b) PROVE Goal BY <1>1, <1>2, <1>3, StepsAlone
  <1>4. ASSUME faults' = faults + 1 PROVE FALSE BY <1>1, <1>4 DEF NoFailure
  <1>5. ASSUME NEW x \in Series, Mkdir(t, x) \/ CreateTmp(t, x) PROVE Goal
    <2>1. Steps(t) BY <1>5, CreateShape
    <2>2. task'[t].pc \in {"create", "rename"} BY <1>1, <1>5 DEF Mkdir, CreateTmp, GoTo, Task
    <2>3. task'[t].pending = task[t].pending BY <1>1, <1>5 DEF Mkdir, CreateTmp, GoTo, Task
    <2>4. CarriesFlush(task[t], task'[t])
      BY <1>1, <2>2, <2>3, Places DEF CarriesFlush, KeepsFlush
    <2> QED BY <2>2, <2>4, CarriesKeeps
  <1>6. ASSUME NEW x \in Series, CreateTmpNoDir(t, x) PROVE FALSE
    <2>1. task[t].pc = "create" /\ task[t].current = x /\ Abort(t, {})
      BY <1>6 DEF CreateTmpNoDir, Working
    <2>2. x \in task[t].todo /\ x \in Pending(task[t]) /\ ~Written(task[t].pending[x])
      BY <1>1, <2>1 DEF TaskOK, WritingPCs
    <2>3. failed'[x] = failed[x] \union task[t].pending[x].samples BY <2>1, <2>2 DEF Abort
    <2> QED BY <2>2, <2>3 DEF NoFailure, Pending
  <1>7. ASSUME NEW x \in Series, WriteFails(t, x) PROVE FALSE
    BY <1>4, <1>7 DEF WriteFails, Outcome
  <1>8. ASSUME NEW x \in Series, NEW size \in SegmentSizes, NEW ok \in BOOLEAN,
               Rename(t, x, size, ok)
        PROVE  Goal
    <2>1. ok BY <1>4, <1>8 DEF Rename, Outcome
    <2>2. CarriesFlush(task[t], task'[t]) /\ Owned(t, x)' BY <1>8, <2>1, RenameShape
    <2>3. task'[t].pc # "advance" BY <2>2, Places DEF Owned
    <2> QED BY <2>2, <2>3, CarriesKeeps
  <1>9. ASSUME NEW ok \in BOOLEAN, Commit(t, ok) PROVE Goal
    <2>1. ok = TRUE BY <1>4, <1>9 DEF Commit, Outcome
    <2> QED BY <1>9, <2>1
  <1>10. ASSUME FlushStep(t) PROVE Goal
    <2>1. ASSUME NEW x \in Series, Prepare(t, x) \/ Advance(t, x) PROVE FALSE
      BY <1>1, <2>1 DEF Prepare, Advance, At
    <2>2. ASSUME Alloc(t) PROVE FALSE BY <1>1, <2>2 DEF Alloc, At
    <2> HIDE DEF Goal
    <2> QED BY <1>5, <1>6, <1>7, <1>8, <1>9, <1>10, <2>1, <2>2 DEF FlushStep
  <1>11. ASSUME AppendStep(t) PROVE FALSE BY <1>1, <1>11 DEF AppendStep, AppendGroup, At
  <1>12. ASSUME EvictStep(t) \/ EvictError(t) PROVE FALSE
    BY <1>1, <1>12, Zenon
    DEF EvictStep, EvictError, EvictChoose, EvictDone, EvictRemove, DirCheck, Rmdir,
                       EvictUpdate, EvictRemoveFails, DirCheckFails, Working, At
  <1> HIDE DEF Goal
  <1>13. ASSUME NEW b \in Actors, (b \in Tasks /\ Running(b)) \/ EvictStep(b) PROVE Goal
    <2>1. CASE b # t BY <1>3, <1>13, <2>1, ThreadShape
    <2>2. CASE b = t BY <1>10, <1>11, <1>12, <1>13, <2>2 DEF Running
    <2> QED BY <2>1, <2>2
  <1>14. ASSUME Client PROVE Goal
    <2>1. ASSUME NEW u \in Tasks, \/ \E batch \in Batches : BeginAppend(u, batch)
                                  \/ \E ids \in (SUBSET series) \ {{}} : BeginFlush(u, ids)
          PROVE  Goal
      <3>1. u # t BY <1>1, <2>1, Zenon DEF BeginAppend, BeginFlush, At
      <3>2. u \in Actors /\ Steps(u) BY <2>1, BeginShape DEF Actors
      <3> QED BY <1>3, <3>1, <3>2
    <2>2. ASSUME UNCHANGED task PROVE Goal BY <1>2, <2>2
    <2> QED BY <1>14, <2>1, <2>2 DEF Client, Register
  <1>15. status # "down" BY <1>1, OwnedFacts
  <1>16. ~Open /\ ~Crash BY <1>15 DEF Open, Crash
  <1>17. ASSUME UNCHANGED task PROVE Goal BY <1>2, <1>17
  <1>18. Goal
    BY <1>13, <1>14, <1>16, <1>17 DEF Next, Actors, LoseManifest, HeaderUnreadable, vars
  <1> QED BY <1>18 DEF Goal

\* A segment stays in the manifest as long as its file is there.
LEMMA SegmentsStay ==
    ASSUME StorageInv, VictimGone, status # "down", status' # "down", [Next]_vars,
           NEW f \in files, NEW m \in manifest[f.data_id].segments, manifest[f.data_id] # None,
           m.segment_id = f.segment_id
    PROVE  m \in manifest'[f.data_id].segments
  <1> DEFINE s == f.data_id
  <1>1. s \in Series /\ TypeOK /\ manifest \in [Series -> SeriesEntry \union {None}]
    BY DEF StorageInv, TypeOK, SegmentFile, Manifest
  <1> HIDE DEF s
  <1>2. m \in manifest[s].segments /\ manifest[s] # None BY DEF s
  <1>3. ASSUME manifest' = manifest PROVE m \in manifest'[s].segments BY <1>2, <1>3
  <1>4. ASSUME NEW x \in Series, NEW type \in SeriesTypes, NEW limit \in Limits, NEW ok \in BOOLEAN,
               Register(x, type, limit, ok)
        PROVE  m \in manifest'[s].segments
    <2>1. manifest[x] = None /\ manifest' = [manifest EXCEPT ![x] = NewEntry(type, Clamp(limit))]
      BY <1>4 DEF Register, CanRegister, Save
    <2> QED BY <1>1, <1>2, <2>1
  <1>5. ASSUME NEW t \in Tasks, Alloc(t) PROVE m \in manifest'[s].segments
    <2>1. CASE s \in Pending(task[t])
      <3>1. manifest'[s] = [manifest[s] EXCEPT !.next_segment_id = @ + 1]
        BY <1>1, <1>5, <2>1 DEF Alloc
      <3>2. manifest[s] \in SeriesEntry BY <1>1, <1>2
      <3> QED BY <1>2, <3>1, <3>2 DEF SeriesEntry
    <2>2. CASE s \notin Pending(task[t]) BY <1>1, <1>2, <1>5, <2>2 DEF Alloc
    <2> QED BY <2>1, <2>2
  <1>6. ASSUME NEW t \in Tasks, NEW ok \in BOOLEAN, Commit(t, ok)
        PROVE  m \in manifest'[s].segments
    <2>1. CASE s \in Pending(task[t])
      <3>1. manifest'[s] = Registered(manifest[s], task[t].pending[s])
        BY <1>1, <1>6, <2>1 DEF Commit, Save
      <3>2. manifest[s] \in SeriesEntry BY <1>1, <1>2
      <3> QED BY <1>2, <3>1, <3>2 DEF Registered, SeriesEntry
    <2>2. CASE s \notin Pending(task[t]) BY <1>1, <1>2, <1>6, <2>2 DEF Commit, Save
    <2> QED BY <2>1, <2>2
  <1>7. ASSUME NEW a \in Actors, NEW x \in Series, NEW ok \in BOOLEAN, EvictUpdate(a, x, ok)
        PROVE  m \in manifest'[s].segments
    <2>1. /\ task[a].pc = "update" /\ task[a].current = x
          /\ manifest' = [manifest EXCEPT ![x] = Dropped(@, task[a].victim)]
      BY <1>7 DEF EvictUpdate, Working, Save
    <2>2. CASE x # s BY <1>1, <1>2, <2>1, <2>2
    <2>3. CASE x = s
      <3>1. FileAt(s, task[a].victim.segment_id) = {} BY <2>1, <2>3 DEF VictimGone
      <3>2. m.segment_id # task[a].victim.segment_id BY <3>1 DEF FileAt, s
      <3>3. manifest'[s] = Dropped(manifest[s], task[a].victim) BY <1>1, <2>1, <2>3
      <3>4. manifest[s] \in SeriesEntry BY <1>1, <1>2
      <3> QED BY <1>2, <3>2, <3>3, <3>4 DEF Dropped, SeriesEntry
    <2> QED BY <2>2, <2>3
  <1>8. ASSUME NEW t \in Tasks, AppendStep(t) \/ FlushStep(t) PROVE m \in manifest'[s].segments
    BY <1>3, <1>5, <1>6, <1>8, Zenon
    DEF AppendStep, AppendGroup, FlushStep, Prepare, Mkdir, CreateTmp, CreateTmpNoDir, WriteFails,
        Rename, Advance, memory
  <1>9. ASSUME NEW a \in Actors, EvictStep(a) \/ EvictError(a) PROVE m \in manifest'[s].segments
    BY <1>3, <1>7, <1>9, Zenon
    DEF EvictStep, EvictError, EvictChoose, EvictDone, EvictRemove, DirCheck, Rmdir,
        EvictRemoveFails, DirCheckFails, memory
  <1>10. ASSUME Client PROVE m \in manifest'[s].segments
    BY <1>3, <1>4, <1>10, Zenon DEF Client, BeginAppend, BeginFlush, memory
  <1>11. ASSUME Open \/ Crash \/ LoseManifest \/ \E g \in files : HeaderUnreadable(g)
         PROVE m \in manifest'[s].segments
    BY <1>11 DEF Open, Crash, LoseManifest, HeaderUnreadable
  <1>12. ASSUME UNCHANGED vars PROVE m \in manifest'[s].segments BY <1>3, <1>12 DEF vars, memory
  <1>13. m \in manifest'[s].segments
    BY <1>8, <1>9, <1>10, <1>11, <1>12 DEF Next, Running, Actors
  <1> QED BY <1>13 DEF s

\* Without failures a flush registers every file that it publishes.
LEMMA NextFilesPlaced ==
    ASSUME StorageInv, StorageInv', IdsInv, OneType, ManifestInv, VictimGone, FilesPlaced,
           NoFailure', [Next]_vars
    PROVE  FilesPlaced'
  <1> SUFFICES ASSUME status' # "down", NEW f \in files' PROVE Placed(f)'
    BY DEF FilesPlaced
  <1> DEFINE s == f.data_id
  <1>1. /\ f \in SegmentFile /\ s \in Series /\ task' \in [Actors -> Task]
        /\ manifest \in [Series -> SeriesEntry \union {None}]
        /\ \A t \in Tasks : t \in Actors
    BY DEF StorageInv, TypeOK, SegmentFile, Manifest, Actors
  <1> HIDE DEF s
  <1>2. CASE status = "down"
    <2>1. Open BY <1>2, OnlyOpenStarts
    <2>2. KeepsSegments BY <2>1, OpenSegments
    <2>3. PICK m \in manifest'[s].segments : m = MetaOf(f) BY <1>2, <2>2 DEF KeepsSegments, s
    <2>4. m.segment_id = f.segment_id BY <1>1, <2>3, MetaOfType
    <2> QED BY <2>3, <2>4 DEF Placed, s
  <1>3. CASE status # "down" /\ f \notin files
    <2>1. PICK t \in Tasks : Publishes(t, f) BY <1>3, NextFiles
    <2>2. PICK size \in SegmentSizes, ok \in BOOLEAN : Rename(t, s, size, ok)
      BY <2>1 DEF Publishes, s
    <2>3. ok
      <3>1. faults = 0 /\ faults' = 0 BY NoFailureBefore DEF NoFailure
      <3> QED BY <2>2, <3>1 DEF Rename, Outcome
    <2>4. Owned(t, s)' /\ Written(task'[t].pending[s]) BY <1>1, <2>2, <2>3, RenameShape
    <2>5. Owned(t, s) /\ f.segment_id = NextId(t, s) /\ task[t].pc = "rename"
      BY <2>1 DEF Publishes, s
    <2>6. ~Commit(t, TRUE) BY <2>5 DEF Commit, At
    <2>7. NextId(t, s)' = NextId(t, s) BY <1>1, <2>5, <2>6, OwnerStays DEF StaysOwner
    <2> QED BY <2>4, <2>5, <2>7 DEF Placed, s
  <1>4. CASE status # "down" /\ f \in files
    <2>1. Placed(f) BY <1>4 DEF FilesPlaced
    <2>2. manifest[s] # None BY <1>4 DEF IdsInv, FilesBelow, s
    <2>3. ASSUME NEW m \in manifest[s].segments, m.segment_id = f.segment_id PROVE Placed(f)'
      <3>1. m \in manifest'[s].segments BY <1>4, <2>2, <2>3, SegmentsStay DEF s
      <3> QED BY <2>3, <3>1 DEF Placed, s
    <2>4. ASSUME NEW t \in Tasks, Owned(t, s), Written(task[t].pending[s]), NextId(t, s) = f.segment_id
          PROVE  Placed(f)'
      <3>1. CASE StaysOwner(t, s) BY <2>4, <3>1 DEF StaysOwner, Placed, s
      <3>2. CASE Commit(t, TRUE)
        <4> DEFINE p == task[t].pending[s]
                   m == [segment_id |-> p.segment_id, min_ts_ms |-> MinTs(p.samples),
                         max_ts_ms |-> MaxTs(p.samples), size_bytes |-> p.size_bytes]
        <4>1. manifest'[s] = Registered(manifest[s], p)
          BY <1>1, <2>4, <3>2 DEF Commit, Save, Owned
        <4>2. manifest[s] \in SeriesEntry BY <1>1, <2>2
        <4>3. m \in manifest'[s].segments BY <4>1, <4>2 DEF Registered, SeriesEntry
        <4>4. m.segment_id = f.segment_id BY <2>4 DEF NextId
        <4> HIDE DEF m
        <4> QED BY <4>3, <4>4 DEF Placed, s
      <3> QED BY <1>1, <2>4, <3>1, <3>2, OwnerStays
    <2> QED BY <2>1, <2>3, <2>4 DEF Placed, s
  <1> QED BY <1>2, <1>3, <1>4

\* Where the files are registered, at first and after every step.
LEMMA PlacesInvariant == Spec => []PlacesInv
  <1>1. Init => PlacesInv
    <2> SUFFICES ASSUME Init PROVE PlacesInv OBVIOUS
    <2>1. \A a \in Actors : task[a].pc = "idle" BY IdleTaskType DEF Init
    <2> QED BY <2>1 DEF Init, PlacesInv, VictimGone, FilesPlaced
  <1>2. /\ StorageInv /\ StorageInv' /\ IdsInv /\ OneType /\ ManifestInv /\ LedgerInv /\ PlacesInv
        /\ [Next]_vars
        => PlacesInv'
    <2> SUFFICES ASSUME StorageInv, StorageInv', IdsInv, OneType, ManifestInv, LedgerInv, PlacesInv,
                        [Next]_vars
                 PROVE  PlacesInv'
      OBVIOUS
    <2>1. VictimGone' BY NextVictimGone DEF PlacesInv
    <2>2. ASSUME NoFailure' PROVE FilesPlaced'
      BY <2>2, NoFailureBefore, NextFilesPlaced DEF PlacesInv
    <2> QED BY <2>1, <2>2 DEF PlacesInv
  <1> QED BY <1>1, <1>2, StorageInvariant, IdsInvariant, TypesAgree, ManifestInvariant,
             LedgerInvariant, PTL DEF Spec

-----------------------------------------------------------------------------
(* What a single client may rely on.                                       *)

\* RPCs come one at a time, and the file system works.
OneThread == \A t, u \in Tasks : t = u
NoFault == faults = 0

\* A sample is accepted at or below a segment's greatest timestamp only while the flush
\* that registered the segment, or one with later samples, has yet to raise flushed_max_ts.
AcceptsFresh ==
    \A s \in Series : \A x \in accepted'[s] \ accepted[s] : \A m \in manifest[s].segments :
        x.timestamp_ms > m.max_ts_ms \/ \E t \in Tasks : WillRaise(t, s, m)

\* A step accepts no sample that a segment covers, but in that gap.
LEMMA FreshStep ==
    ASSUME StorageInv, StorageInv', FlushedMaxCovers, [Next]_vars
    PROVE  AcceptsFresh
  <1> SUFFICES ASSUME NEW s \in Series, NEW x \in accepted'[s] \ accepted[s],
                      NEW m \in manifest[s].segments
               PROVE  x.timestamp_ms > m.max_ts_ms \/ \E t \in Tasks : WillRaise(t, s, m)
    BY DEF AcceptsFresh
  <1>1. s \in series /\ IsFresh(x.timestamp_ms, flushed_max_ts[s]) BY AcceptingStep
  <1>2. IsCovered(s, m) BY <1>1, CoverBySegment
  <1>3. CASE \E t \in Tasks : WillRaise(t, s, m) BY <1>3
  <1>4. CASE flushed_max_ts[s] # None /\ flushed_max_ts[s] >= m.max_ts_ms
    <2>1. flushed_max_ts[s] \in Int
      BY <1>4, StorageAssumption DEF StorageInv, TypeOK, Timestamps
    <2>2. m.max_ts_ms \in Int
      BY <1>1, StorageAssumption
      DEF StorageInv, TypeOK, SeriesOK, Manifest, SeriesEntry, SegmentMeta, Timestamps
    <2>3. x.timestamp_ms \in Int
      <3>1. accepted' \in [Series -> SUBSET BufferedSample] BY DEF StorageInv, TypeOK
      <3> QED BY <3>1, StorageAssumption DEF BufferedSample, Timestamps
    <2>4. x.timestamp_ms > flushed_max_ts[s] BY <1>1, <1>4 DEF IsFresh
    <2> QED BY <1>4, <2>1, <2>2, <2>3, <2>4
  <1> QED BY <1>2, <1>3, <1>4 DEF IsCovered

\* While the file system works, that gap is the only time at which a sample of a range
\* that is already in a segment is accepted, for any number of clients.
THEOREM StaleOnlyInGap == Spec /\ []NoFault => [][AcceptsFresh]_vars
  <1>1. StorageInv /\ StorageInv' /\ NoFault /\ (faults = 0 => FlushedMaxCovers) /\ [Next]_vars =>
            [AcceptsFresh]_vars
    BY FreshStep DEF NoFault
  <1> QED BY <1>1, StorageInvariant, CoveredWithoutFault, PTL DEF Spec

\* A client that is alone never has a sample accepted that a segment covers.
THEOREM StaleRejectedAlone == OneThread /\ Spec /\ []NoFault => StaleRejected
  <1> DEFINE Rejects == \A s \in Series : \A x \in accepted'[s] \ accepted[s] :
                            \A m \in manifest[s].segments : x.timestamp_ms > m.max_ts_ms
  <1> SUFFICES ASSUME OneThread PROVE Spec /\ []NoFault => [][Rejects]_vars
    BY DEF StaleRejected
  <1>1. ASSUME StorageInv', StorageInv, NoFault, faults = 0 => FlushedMaxCovers, [Next]_vars
        PROVE  [Rejects]_vars
    <2> SUFFICES ASSUME NEW s \in Series, NEW x \in accepted'[s] \ accepted[s],
                        NEW m \in manifest[s].segments
                 PROVE  x.timestamp_ms > m.max_ts_ms
      OBVIOUS
    <2>1. PICK t \in Tasks : task[t].pc = "append" BY <1>1, AcceptingStep
    <2>2. \A u \in Tasks : ~WillRaise(u, s, m) BY <2>1 DEF OneThread, WillRaise
    <2> QED BY <1>1, <2>2, FreshStep DEF AcceptsFresh, NoFault
  <1>2. StorageInv /\ StorageInv' /\ NoFault /\ (faults = 0 => FlushedMaxCovers) /\ [Next]_vars
            => [Rejects]_vars
    BY <1>1
  <1> QED BY <1>2, StorageInvariant, CoveredWithoutFault, PTL DEF Spec

-----------------------------------------------------------------------------
(* A client that is alone: the steps of its thread.                        *)

\* The other threads rest.
Alone(a) == \A b \in Actors \ {a} : task[b].pc = "idle"

\* Where a thread is that neither raises flushed_max_ts nor evicts.
CalmPCs == {"idle", "append", "prepare", "alloc"} \union OwningPCs

\* A step that leaves the segments of the series and their accounts alone.
SameEntry(s) ==
    /\ manifest'[s] # None <=> manifest[s] # None
    /\ manifest[s] # None => /\ manifest'[s].segments = manifest[s].segments
                             /\ manifest'[s].storage_bytes = manifest[s].storage_bytes
                             /\ manifest'[s].max_storage_bytes = manifest[s].max_storage_bytes

\* A step that leaves them alone and the files too, and writes nothing.
Calm(t) ==
    /\ task' = [task EXCEPT ![t] = task'[t]]
    /\ task[t].pc \in CalmPCs /\ task'[t].pc \in CalmPCs
    /\ task'[t].pc \in {"create", "rename"} => task'[t].current \in dirs'
    /\ \A s \in Series : Owned(t, s)' /\ Written(task'[t].pending[s]) =>
           Owned(t, s) /\ Written(task[t].pending[s]) /\ NextId(t, s)' = NextId(t, s)
    /\ dirs \subseteq dirs' /\ UNCHANGED <<files, status, series>>
    /\ \A s \in Series : SameEntry(s)

\* The only thread that acts is alone.
LEMMA AloneActs ==
    ASSUME OneThread, StorageInv, NEW a \in Actors,
           task[a].pc # "idle" \/ (a \in Tasks /\ status = "serving")
    PROVE  Alone(a)
  <1> SUFFICES ASSUME NEW b \in Actors, b # a, task[b].pc # "idle" PROVE FALSE
    BY DEF Alone
  <1>1. status = RunsWhile(b) BY RunningStatus
  <1>2. task[a].pc # "idle" => status = RunsWhile(a) BY RunningStatus
  <1> QED BY <1>1, <1>2, StorageAssumption DEF RunsWhile, Actors, OneThread

\* Its step leaves it alone.
LEMMA AloneStays ==
    ASSUME StorageInv, NEW a \in Actors, Alone(a), NEW r, task' = [task EXCEPT ![a] = r]
    PROVE  Alone(a)' /\ task'[a] = r /\ \A b \in Actors \ {a} : task'[b] = task[b]
  BY DEF Alone, StorageInv, TypeOK

\* Requests, appends, and flushes but for what they publish, register and raise.
LEMMA CalmSteps ==
    ASSUME StorageInv, StorageInv', NEW t \in Tasks,
           \/ \E batch \in Batches : BeginAppend(t, batch)
           \/ \E ids \in (SUBSET series) \ {{}} : BeginFlush(t, ids)
           \/ Alloc(t)
           \/ \E s \in Series : \/ AppendGroup(t, s) \/ Prepare(t, s) \/ Mkdir(t, s)
                                \/ CreateTmp(t, s) \/ CreateTmpNoDir(t, s) \/ WriteFails(t, s)
    PROVE  Calm(t)
  <1>1. /\ t \in Actors /\ TypeOK /\ TypeOK' /\ task[t] \in Task /\ task'[t] \in Task
        /\ TaskOK(task[t], series) /\ TaskOK(task'[t], series')
    BY DEF Actors, StorageInv, TypeOK
  <1>2. CASE Alloc(t)
    <2>1. task[t].pc = "alloc" /\ task' = [task EXCEPT ![t] = task'[t]]
      BY <1>1, <1>2 DEF Alloc, At, TypeOK
    <2>2. UNCHANGED <<files, dirs, status, series>> BY <1>2 DEF Alloc, disk
    <2>3. \A s \in Series : ~Written(task[t].pending[s]) BY <1>1, <2>1 DEF TaskOK
    <2>4. task'[t].pc = "mkdir" /\ \A s \in Series : ~Written(task'[t].pending[s])
      <3> DEFINE pending == [s \in Series |->
                     IF s \in Pending(task[t])
                     THEN [task[t].pending[s] EXCEPT !.segment_id = manifest[s].next_segment_id]
                     ELSE task[t].pending[s]]
      <3>1. task'[t] = [task[t] EXCEPT !.pc = "mkdir", !.pending = pending]
        BY <1>1, <1>2 DEF Alloc, TypeOK
      <3>2. \A s \in Series : pending[s].size_bytes = task[t].pending[s].size_bytes
        BY <1>1 DEF Task, PendingFlush
      <3> HIDE DEF pending
      <3>3. task'[t].pc = "mkdir" /\ task'[t].pending = pending BY <1>1, <3>1 DEF Task
      <3> QED BY <2>3, <3>2, <3>3 DEF Written
    <2>5. \A s \in Series : SameEntry(s)
      <3> SUFFICES ASSUME NEW s \in Series PROVE SameEntry(s) OBVIOUS
      <3> DEFINE e == manifest[s]
      <3>1. manifest'[s] = IF s \in Pending(task[t]) THEN [e EXCEPT !.next_segment_id = @ + 1] ELSE e
        BY <1>2 DEF Alloc
      <3>2. CASE s \in Pending(task[t])
        <4>1. s \in series BY <1>1, <3>2 DEF TaskOK
        <4>2. e \in SeriesEntry /\ e # None
          BY <1>1, <4>1 DEF StorageInv, SeriesOK, TypeOK, Manifest
        <4>3. manifest'[s] = [e EXCEPT !.next_segment_id = e.next_segment_id + 1] BY <3>1, <3>2
        <4>4. manifest'[s] \in SeriesEntry BY <4>2, <4>3 DEF SeriesEntry
        <4> QED BY <4>2, <4>3, <4>4, NoneAssumption DEF SameEntry, SeriesEntry
      <3>3. CASE s \notin Pending(task[t]) BY <3>1, <3>3 DEF SameEntry
      <3> QED BY <3>2, <3>3
    <2> QED BY <2>1, <2>2, <2>4, <2>5 DEF Calm, CalmPCs, OwningPCs, WritingPCs
  <1>3. ASSUME task' = [task EXCEPT ![t] = task'[t]], task[t].pc \in CalmPCs,
               task'[t].pc \in {"idle", "append", "prepare", "alloc"},
               UNCHANGED <<files, dirs, status, series, manifest>>
        PROVE  Calm(t)
    BY <1>3 DEF Calm, CalmPCs, OwningPCs, WritingPCs, Owned, SameEntry
  <1>4. CASE \/ \E batch \in Batches : BeginAppend(t, batch)
             \/ \E ids \in (SUBSET series) \ {{}} : BeginFlush(t, ids)
    <2>1. task'[t].pc \in {"idle", "append", "prepare"} /\ task' = [task EXCEPT ![t] = task'[t]]
      <3>1. \A ids : Flushing(ids).pc \in {"idle", "prepare"} BY IdleTaskType DEF Flushing, Task
      <3>2. CASE \E batch \in Batches : BeginAppend(t, batch)
        <4>1. PICK batch : task' = [task EXCEPT ![t] =
                  [IdleTask EXCEPT !.pc = "append", !.batch = batch,
                                   !.todo = {batch[i].data_id : i \in DOMAIN batch}]]
          <5>1. PICK batch \in Batches : BeginAppend(t, batch) BY <3>2
          <5> QED BY <5>1, Zenon DEF BeginAppend
        <4>2. [IdleTask EXCEPT !.pc = "append", !.batch = batch,
                               !.todo = {batch[i].data_id : i \in DOMAIN batch}].pc = "append"
          BY IdleTaskType DEF Task
        <4> QED BY <1>1, <4>1, <4>2 DEF TypeOK
      <3>3. CASE \E ids \in (SUBSET series) \ {{}} : BeginFlush(t, ids)
        BY <1>1, <3>1, <3>3 DEF BeginFlush, TypeOK
      <3> QED BY <1>4, <3>2, <3>3
    <2>2. task[t].pc = "idle" /\ UNCHANGED <<files, dirs, status, series, manifest>>
      BY <1>4, Zenon DEF BeginAppend, BeginFlush, At, memory, disk
    <2> QED BY <1>3, <2>1, <2>2 DEF CalmPCs
  <1>5. CASE \E s \in Series : AppendGroup(t, s)
    <2>1. PICK s \in Series : AppendGroup(t, s) BY <1>5
    <2>2. task[t].pc = "append" /\ UNCHANGED <<files, dirs, status, series, manifest>>
      BY <2>1, Zenon DEF AppendGroup, At, disk
    <2>3. task'[t].pc \in {"idle", "append", "prepare"} /\ task' = [task EXCEPT ![t] = task'[t]]
      <3>1. \A ids : Flushing(ids).pc \in {"idle", "prepare"} BY IdleTaskType DEF Flushing, Task
      <3>2. PICK ids : task' = [task EXCEPT ![t] =
                IF task[t].todo = {s} THEN Flushing(ids)
                ELSE [task[t] EXCEPT !.todo = task[t].todo \ {s}, !.to_flush = ids]]
        BY <2>1, Zenon DEF AppendGroup
      <3>3. [task[t] EXCEPT !.todo = task[t].todo \ {s}, !.to_flush = ids].pc = "append"
        BY <1>1, <2>2 DEF Task
      <3> QED BY <1>1, <3>1, <3>2, <3>3 DEF TypeOK
    <2> QED BY <1>3, <2>2, <2>3 DEF CalmPCs
  <1>6. CASE \E s \in Series : Prepare(t, s)
    <2>1. PICK s \in Series : Prepare(t, s) BY <1>6
    <2>2. task[t].pc = "prepare" /\ UNCHANGED <<files, dirs, status, series, manifest>>
      BY <2>1 DEF Prepare, At, disk
    <2>3. task'[t].pc \in {"idle", "prepare", "alloc"} /\ task' = [task EXCEPT ![t] = task'[t]]
      <3> DEFINE q == [task[t] EXCEPT !.pending[s].samples = LastWrites(memtable[s])]
      <3>1. task' = [task EXCEPT ![t] = Visited(q, s, "alloc", Pending(q))] BY <2>1 DEF Prepare
      <3>2. LastWrites(memtable[s]) \in SUBSET BufferedSample BY <1>1, LastWritesType DEF TypeOK
      <3>3. q \in Task /\ q.pc = "prepare" BY <1>1, <2>2, <3>2, Zenon DEF Task, PendingFlush
      <3> HIDE DEF q
      <3>4. Visited(q, s, "alloc", Pending(q)).pc \in {"prepare", "alloc", "idle"}
        BY <3>3, VisitedPending
      <3> QED BY <1>1, <3>1, <3>4 DEF TypeOK
    <2> QED BY <1>3, <2>2, <2>3 DEF CalmPCs
  <1>7. CASE \E s \in Series : Mkdir(t, s) \/ CreateTmp(t, s)
    <2>1. PICK s \in Series : Mkdir(t, s) \/ CreateTmp(t, s) BY <1>7
    <2>2. /\ task[t].pc \in {"mkdir", "create"} /\ task'[t].pc \in {"create", "rename"}
          /\ task' = [task EXCEPT ![t] = task'[t]]
          /\ task'[t].current = s /\ task'[t].pending = task[t].pending
      <3>1. CASE Mkdir(t, s) BY <1>1, <3>1, Zenon DEF Mkdir, At, TypeOK, Task
      <3>2. CASE CreateTmp(t, s) BY <1>1, <3>2 DEF CreateTmp, Working, GoTo, TypeOK, Task
      <3> QED BY <2>1, <3>1, <3>2
    <2>3. /\ s \in dirs' /\ dirs \subseteq dirs' /\ UNCHANGED <<files, status, series, manifest>>
      BY <2>1 DEF Mkdir, CreateTmp, memory
    <2>4. \A x \in Series : Owned(t, x)' => Owned(t, x) /\ NextId(t, x)' = NextId(t, x)
      BY <2>2 DEF Owned, NextId, Pending, OwningPCs, WritingPCs
    <2> QED BY <2>2, <2>3, <2>4
        DEF Calm, CalmPCs, OwningPCs, WritingPCs, SameEntry
  <1>8. CASE \E s \in Series : CreateTmpNoDir(t, s) \/ WriteFails(t, s)
    <2>1. task' = [task EXCEPT ![t] = IdleTask] /\ UNCHANGED <<files, dirs, status, series, manifest>>
      BY <1>8 DEF CreateTmpNoDir, WriteFails, Abort, memory, disk
    <2>2. task[t].pc \in {"mkdir", "create", "rename"}
      BY <1>8 DEF CreateTmpNoDir, WriteFails, At, Working
    <2>3. task'[t].pc = "idle" /\ task' = [task EXCEPT ![t] = task'[t]]
      BY <1>1, <2>1, IdleTaskType DEF TypeOK
    <2> QED BY <1>3, <2>1, <2>2, <2>3 DEF CalmPCs, OwningPCs, WritingPCs
  <1> QED BY <1>2, <1>4, <1>5, <1>6, <1>7, <1>8

-----------------------------------------------------------------------------
(* What an eviction finds when no other runs beside it.                    *)

\* Every file has its directory, and a thread that works in one finds it: an eviction only as
\* long as no call has failed, since its victim may have been deleted by an eviction that ended
\* before it updated the manifest.
DirsKept == \A f \in files : f.data_id \in dirs
FindsDir(a) ==
    /\ task[a].pc \in {"create", "rename"} => task[a].current \in dirs
    /\ faults = 0 /\ task[a].pc \in {"remove", "dircheck"} => task[a].current \in dirs

\* As long as no call has failed a segment of the manifest has its file, or an eviction has
\* just deleted it; and what a flush has written is there in any case.
HasFile(s, id) == \E f \in files : f.data_id = s /\ f.segment_id = id
GoneBy(a, s, m) ==
    task[a].pc \in GonePCs /\ task[a].current = s /\ task[a].victim.segment_id = m.segment_id
SegmentsThere ==
    status # "down" /\ faults = 0 =>
        \A s \in Series : manifest[s] # None => \A m \in manifest[s].segments :
            HasFile(s, m.segment_id) \/ \E a \in Actors : GoneBy(a, s, m)
WrittenThere(a) ==
    \A s \in Series : Owned(a, s) /\ Written(task[a].pending[s]) => HasFile(s, NextId(a, s))

\* Until it deletes its victim an eviction is right about it.
VictimOldest(a) ==
    LET entry == manifest[task[a].current]
    IN  task[a].pc = "remove" =>
            /\ OverLimit(entry)
            /\ \E m \in entry.segments : /\ m.segment_id = task[a].victim.segment_id
                                         /\ \A n \in entry.segments : m.max_ts_ms <= n.max_ts_ms
EvictInv ==
    DirsKept /\ SegmentsThere /\ \A a \in Actors : FindsDir(a) /\ WrittenThere(a) /\ VictimOldest(a)

\* The segments of a thread that is alone and has deleted no victim.
LEMMA AllThere ==
    ASSUME EvictInv, status # "down", faults = 0, NEW a \in Actors, Alone(a),
           task[a].pc \notin GonePCs,
           NEW s \in Series, manifest[s] # None, NEW m \in manifest[s].segments
    PROVE  HasFile(s, m.segment_id)
  BY DEF EvictInv, SegmentsThere, GoneBy, Alone, GonePCs

\* After a step of such a thread it is the only one that matters.
LEMMA EvictAfter ==
    ASSUME NEW a \in Actors, Alone(a)', DirsKept', FindsDir(a)', WrittenThere(a)', VictimOldest(a)',
           faults' = 0 =>
               \A s \in Series : manifest'[s] # None => \A m \in manifest'[s].segments :
                   HasFile(s, m.segment_id)' \/ GoneBy(a, s, m)'
    PROVE  EvictInv'
  <1>1. SegmentsThere' BY DEF SegmentsThere
  <1>2. ASSUME NEW b \in Actors, b # a PROVE FindsDir(b)' /\ WrittenThere(b)' /\ VictimOldest(b)'
    <2>1. task'[b].pc = "idle" BY <1>2 DEF Alone
    <2> QED BY <2>1 DEF FindsDir, WrittenThere, VictimOldest, Owned, OwningPCs, WritingPCs
  <1> QED BY <1>1, <1>2 DEF EvictInv

\* A calm step deletes nothing and has no victim.
LEMMA CalmEvict ==
    ASSUME StorageInv, EvictInv, NEW t \in Tasks, Alone(t), status # "down", Calm(t),
           faults' = 0 => faults = 0
    PROVE  EvictInv'
  <1>1. t \in Actors BY DEF Actors
  <1>2. Alone(t)' BY <1>1, AloneStays DEF Calm
  <1>3. task[t].pc \notin GonePCs /\ task'[t].pc \notin GonePCs \union {"remove", "dircheck"}
    BY DEF Calm, CalmPCs, OwningPCs, WritingPCs, GonePCs
  <1>4. DirsKept' BY DEF Calm, EvictInv, DirsKept
  <1>5. FindsDir(t)' BY <1>3 DEF Calm, FindsDir
  <1>6. VictimOldest(t)' BY <1>3 DEF VictimOldest
  <1>7. WrittenThere(t)'
    <2> SUFFICES ASSUME NEW s \in Series, Owned(t, s)', Written(task'[t].pending[s])
                 PROVE  HasFile(s, NextId(t, s))'
      BY DEF WrittenThere
    <2>1. Owned(t, s) /\ Written(task[t].pending[s]) /\ NextId(t, s)' = NextId(t, s) BY DEF Calm
    <2>2. HasFile(s, NextId(t, s)) BY <1>1, <2>1 DEF EvictInv, WrittenThere
    <2>3. files' = files BY DEF Calm
    <2> QED BY <2>1, <2>2, <2>3 DEF HasFile, FileAt
  <1>8. ASSUME faults' = 0,
               NEW s \in Series, manifest'[s] # None, NEW m \in manifest'[s].segments
        PROVE  HasFile(s, m.segment_id)'
    <2>1. manifest[s] # None /\ m \in manifest[s].segments /\ files' = files
      BY <1>8 DEF Calm, SameEntry
    <2>2. HasFile(s, m.segment_id) BY <1>1, <1>3, <1>8, <2>1, AllThere
    <2> QED BY <2>1, <2>2 DEF HasFile, FileAt
  <1> QED BY <1>1, <1>2, <1>4, <1>5, <1>6, <1>7, <1>8, EvictAfter

\* The file that a rename publishes, in the directory that the thread has made.
LEMMA RenameEvict ==
    ASSUME StorageInv, StorageInv', EvictInv, NEW t \in Tasks, Alone(t), NEW s \in Series,
           NEW size \in SegmentSizes, NEW ok \in BOOLEAN, Rename(t, s, size, ok),
           faults' = 0 => faults = 0
    PROVE  EvictInv'
  <1>1. /\ t \in Actors /\ TypeOK /\ TypeOK' /\ task[t] \in Task /\ s \in Pending(task[t])
        /\ task[t].pc = "rename" /\ task[t].current = s /\ status # "down"
    <2>1. t \in Actors /\ task[t].pc = "rename" /\ task[t].current = s
      BY DEF Actors, Rename, Working
    <2>2. status # "down" BY <2>1, RunningStatus DEF RunsWhile
    <2> QED BY <2>1, <2>2, RenameFacts DEF Rename, StorageInv, TypeOK
  <1>2. PICK file : /\ file.data_id = s /\ file.segment_id = NextId(t, s)
                    /\ files' = (files \ FileAt(s, NextId(t, s))) \union {file}
    BY DEF Rename, NextId
  <1>3. UNCHANGED <<status, manifest, dirs>> BY DEF Rename, memory
  <1>4. \A x, i : HasFile(x, i) => HasFile(x, i)' BY <1>2 DEF HasFile, FileAt
  <1>5. \E f \in files' : f.data_id = s /\ f.segment_id = NextId(t, s) BY <1>2
  <1>6. /\ task'[t].pc \in {"mkdir", "commit", "idle"} /\ task' = [task EXCEPT ![t] = task'[t]]
        /\ \A x \in Series : x # s /\ x \in Pending(task'[t]) =>
               task'[t].pending[x] = task[t].pending[x]
        /\ s \in Pending(task'[t]) => NextId(t, s)' = NextId(t, s)
    <2> DEFINE q == [task[t] EXCEPT !.pending[s].size_bytes = size, !.pc = "mkdir"]
               v == Visited(q, s, "commit", Pending(q))
    <2>1. /\ ok => task' = [task EXCEPT ![t] = v]
          /\ ~ok => task' = [task EXCEPT ![t] = IdleTask]
      BY DEF Rename, Abort
    <2>2. size \in 0 .. MaxU64 BY StorageAssumption
    <2>3. q \in Task /\ q.pc = "mkdir"
      <3>1. task[t] \in Task BY <1>1
      <3> QED BY <2>2, <3>1, Zenon DEF Task, PendingFlush, PCs
    <2>4. /\ \A x \in Series \ {s} : q.pending[x] = task[t].pending[x]
          /\ q.pending[s].segment_id = task[t].pending[s].segment_id
      BY <1>1 DEF Task, PendingFlush
    <2> HIDE DEF q
    <2>5. v.pc \in {"mkdir", "commit", "idle"} /\ (Pending(v) # {} => v.pending = q.pending)
      BY <2>3, VisitedPending
    <2> HIDE DEF v
    <2>6. CASE ok
      <3>1. task'[t] = v /\ task' = [task EXCEPT ![t] = task'[t]] BY <1>1, <2>1, <2>6 DEF TypeOK
      <3> QED BY <3>1, <2>4, <2>5 DEF NextId
    <2>7. CASE ~ok
      <3>1. task'[t] = IdleTask /\ task' = [task EXCEPT ![t] = task'[t]]
        BY <1>1, <2>1, <2>7 DEF TypeOK
      <3> QED BY <3>1, IdleTaskType
    <2> QED BY <2>6, <2>7
  <1>7. Alone(t)' BY <1>1, <1>6, AloneStays
  <1>8. DirsKept'
    <2>1. s \in dirs BY <1>1 DEF EvictInv, FindsDir
    <2> QED BY <1>2, <1>3, <2>1 DEF EvictInv, DirsKept
  <1>9. FindsDir(t)' /\ VictimOldest(t)' BY <1>6 DEF FindsDir, VictimOldest
  <1>10. WrittenThere(t)'
    <2> SUFFICES ASSUME NEW x \in Series, Owned(t, x)', Written(task'[t].pending[x])
                 PROVE  HasFile(x, NextId(t, x))'
      BY DEF WrittenThere
    <2>1. x \in Pending(task'[t]) BY DEF Owned
    <2>2. CASE x = s BY <2>1, <2>2, <1>5, <1>6 DEF HasFile
    <2>3. CASE x # s
      <3>1. task'[t].pending[x] = task[t].pending[x] BY <2>1, <2>3, <1>6
      <3>2. Owned(t, x) /\ Written(task[t].pending[x]) /\ NextId(t, x)' = NextId(t, x)
        BY <1>1, <2>1, <3>1 DEF Owned, Pending, NextId, OwningPCs, WritingPCs
      <3>3. HasFile(x, NextId(t, x)) BY <1>1, <3>2 DEF EvictInv, WrittenThere
      <3> QED BY <3>2, <3>3, <1>4 DEF HasFile
    <2> QED BY <2>2, <2>3
  <1>11. ASSUME faults' = 0,
                NEW x \in Series, manifest'[x] # None, NEW m \in manifest'[x].segments
         PROVE  HasFile(x, m.segment_id)'
    <2>1. manifest[x] # None /\ m \in manifest[x].segments /\ task[t].pc \notin GonePCs
      BY <1>1, <1>3, <1>11 DEF GonePCs
    <2>2. HasFile(x, m.segment_id) BY <1>1, <1>11, <2>1, AllThere
    <2> QED BY <2>2, <1>4
  <1> QED BY <1>1, <1>7, <1>8, <1>9, <1>10, <1>11, EvictAfter

\* What the flush of t registers of s.
FlushMeta(t, s) ==
    [segment_id |-> NextId(t, s), min_ts_ms |-> MinTs(task[t].pending[s].samples),
     max_ts_ms |-> MaxTs(task[t].pending[s].samples), size_bytes |-> task[t].pending[s].size_bytes]

\* A commit registers what its thread has written, and nothing else.
LEMMA CommitFacts ==
    ASSUME StorageInv, NEW t \in Tasks, NEW ok \in BOOLEAN, Commit(t, ok), NEW s \in Series
    PROVE  /\ manifest'[s] # None <=> manifest[s] # None
           /\ s \notin Pending(task[t]) => manifest'[s] = manifest[s]
           /\ s \in Pending(task[t]) =>
                  /\ Owned(t, s) /\ Written(task[t].pending[s]) /\ manifest[s] # None
                  /\ manifest'[s].segments = manifest[s].segments \union {FlushMeta(t, s)}
  <1> DEFINE p == task[t].pending[s]
  <1>1. /\ t \in Actors /\ TypeOK /\ task[t] \in Task /\ TaskOK(task[t], series)
        /\ task[t].pc = "commit"
    BY DEF Actors, StorageInv, TypeOK, Commit, At
  <1>2. manifest'[s] = IF s \in Pending(task[t]) THEN Registered(manifest[s], p) ELSE manifest[s]
    BY DEF Commit, Save
  <1>3. ASSUME s \in Pending(task[t])
        PROVE  /\ Owned(t, s) /\ Written(p) /\ manifest[s] # None /\ manifest'[s] # None
               /\ manifest'[s].segments = manifest[s].segments \union {FlushMeta(t, s)}
    <2>1. Owned(t, s) /\ Written(p) BY <1>1, <1>3 DEF Owned, OwningPCs, TaskOK
    <2>2. manifest[s] \in SeriesEntry /\ manifest[s] # None BY <1>1, <2>1, OwnedFacts
    <2>3. p \in PendingFlush /\ p.samples # {} BY <1>1, <1>3 DEF Task, Pending
    <2> HIDE DEF p
    <2>4. Registered(manifest[s], p) \in SeriesEntry BY <2>1, <2>2, <2>3, RegisteredType DEF p
    <2>5. manifest'[s] # None BY <1>2, <1>3, <2>4, NoneAssumption
    <2>6. Registered(manifest[s], p).segments = manifest[s].segments \union {FlushMeta(t, s)}
      BY <2>2 DEF Registered, SeriesEntry, FlushMeta, NextId, p
    <2> QED BY <1>2, <1>3, <2>1, <2>2, <2>5, <2>6
  <1> QED BY <1>2, <1>3

\* What a flush registers is there.
LEMMA CommitEvict ==
    ASSUME StorageInv, EvictInv, NEW t \in Tasks, Alone(t), NEW ok \in BOOLEAN, Commit(t, ok),
           faults' = 0 => faults = 0
    PROVE  EvictInv'
  <1>1. /\ t \in Actors /\ task[t] \in Task /\ task[t].pc = "commit"
        /\ UNCHANGED <<files, dirs, status>>
    BY DEF Actors, StorageInv, TypeOK, Commit, At
  <1>2. /\ task' = [task EXCEPT ![t] = task'[t]] /\ task'[t].pc \in {"advance", "idle"}
    <2>1. CASE ok BY <1>1, <2>1 DEF Commit, GoTo, StorageInv, TypeOK, Task
    <2>2. CASE ~ok BY <1>1, <2>2, IdleTaskType DEF Commit, StorageInv, TypeOK
    <2> QED BY <2>1, <2>2
  <1>3. Alone(t)' BY <1>1, <1>2, AloneStays
  <1>4. DirsKept' BY <1>1 DEF EvictInv, DirsKept
  <1>5. FindsDir(t)' /\ VictimOldest(t)' /\ WrittenThere(t)'
    BY <1>2 DEF FindsDir, VictimOldest, WrittenThere, Owned, OwningPCs, WritingPCs
  <1>6. ASSUME faults' = 0,
               NEW s \in Series, manifest'[s] # None, NEW m \in manifest'[s].segments
        PROVE  HasFile(s, m.segment_id)'
    <2>1. HasFile(s, m.segment_id)
      <3>1. CASE manifest[s] # None /\ m \in manifest[s].segments
        <4>1. task[t].pc \notin GonePCs /\ status # "down"
          BY <1>1, RunningStatus DEF GonePCs, RunsWhile
        <4> QED BY <1>1, <1>6, <3>1, <4>1, AllThere
      <3>2. CASE ~(manifest[s] # None /\ m \in manifest[s].segments)
        <4>1. Owned(t, s) /\ Written(task[t].pending[s]) /\ m = FlushMeta(t, s)
          BY <1>6, <3>2, CommitFacts
        <4>2. m.segment_id = NextId(t, s) BY <4>1 DEF FlushMeta
        <4> QED BY <1>1, <4>1, <4>2 DEF EvictInv, WrittenThere
      <3> QED BY <3>1, <3>2
    <2> QED BY <1>1, <2>1 DEF HasFile
  <1> QED BY <1>1, <1>3, <1>4, <1>5, <1>6, EvictAfter

\* After a commit a flush raises flushed_max_ts and goes on to evict.
LEMMA AdvanceMoves ==
    ASSUME StorageInv, NEW t \in Tasks, NEW s \in Series, Advance(t, s)
    PROVE  /\ task[t].pc = "advance" /\ task' = [task EXCEPT ![t] = task'[t]]
           /\ task'[t].pending = task[t].pending
           /\ \/ task'[t].pc = "advance" /\ task'[t].todo = task[t].todo \ {s}
              \/ /\ task'[t].pc = "evict" /\ task'[t].todo = Pending(task[t])
                 /\ task[t].todo = {s}
  <1>1. /\ t \in Actors /\ task[t] \in Task /\ task[t].pc = "advance"
        /\ TaskOK(task[t], series)
        /\ task' = [task EXCEPT ![t] = Visited(task[t], s, "evict", Pending(task[t]))]
        /\ s \in task[t].todo
    BY DEF Actors, StorageInv, TypeOK, Advance, At
  <1>2. /\ task'[t] = Visited(task[t], s, "evict", Pending(task[t]))
        /\ task' = [task EXCEPT ![t] = task'[t]]
    BY <1>1 DEF StorageInv, TypeOK
  <1>3. s \in Pending(task[t]) BY <1>1 DEF TaskOK
  <1>4. CASE task[t].todo = {s}
    <2> DEFINE work == Pending(task[t])
    <2>1. work # {} BY <1>3
    <2>2. Visited(task[t], s, "evict", work) =
              [task[t] EXCEPT !.pc = "evict", !.todo = work, !.current = None]
      <3> HIDE DEF work
      <3> QED BY <2>1, <1>4 DEF Visited
    <2>3. /\ task'[t].pending = task[t].pending /\ task'[t].pc = "evict"
          /\ task'[t].todo = work
      <3>1. task[t] \in Task BY <1>1
      <3>2. task'[t] = [task[t] EXCEPT !.pc = "evict", !.todo = work, !.current = None]
        BY <1>2, <2>2
      <3> HIDE DEF work
      <3> QED BY <3>1, <3>2 DEF Task
    <2> QED BY <1>1, <1>2, <1>4, <2>3
  <1>5. CASE task[t].todo # {s}
    <2>1. task'[t] = [task[t] EXCEPT !.todo = @ \ {s}, !.current = None]
      BY <1>2, <1>5 DEF Visited
    <2>2. /\ task'[t].pending = task[t].pending /\ task'[t].pc = "advance"
          /\ task'[t].todo = task[t].todo \ {s}
      BY <1>1, <2>1, Zenon DEF Task
    <2> QED BY <1>1, <1>2, <2>2
  <1> QED BY <1>4, <1>5

\* A step of a thread that is alone and leaves everything there.
LEMMA IdleEvict ==
    ASSUME StorageInv, EvictInv, NEW a \in Actors, Alone(a), status # "down",
           task' = [task EXCEPT ![a] = task'[a]], UNCHANGED <<files, dirs, manifest>>,
           faults' = 0 => faults = 0,
           faults' = 0 /\ task[a].pc \in GonePCs => /\ task'[a].pc \in GonePCs
                                                   /\ task'[a].current = task[a].current
                                                   /\ task'[a].victim = task[a].victim,
           task'[a].pc \in {"idle", "advance", "evict"} \union GonePCs,
           task'[a].pc = "dircheck" => task'[a].current \in dirs
    PROVE  EvictInv'
  <1>1. Alone(a)' BY AloneStays
  <1>2. DirsKept' BY DEF EvictInv, DirsKept
  <1>3. FindsDir(a)' /\ VictimOldest(a)' /\ WrittenThere(a)'
    BY DEF FindsDir, VictimOldest, WrittenThere, Owned, OwningPCs, WritingPCs, GonePCs
  <1>4. ASSUME faults' = 0,
               NEW s \in Series, manifest'[s] # None, NEW m \in manifest'[s].segments
        PROVE  HasFile(s, m.segment_id)' \/ GoneBy(a, s, m)'
    <2>1. CASE task[a].pc \in GonePCs
      <3>1. HasFile(s, m.segment_id) \/ \E b \in Actors : GoneBy(b, s, m)
        BY <1>4 DEF EvictInv, SegmentsThere
      <3>2. ASSUME NEW b \in Actors, GoneBy(b, s, m) PROVE b = a
        BY <3>2 DEF GoneBy, GonePCs, Alone
      <3> QED BY <1>4, <2>1, <3>1, <3>2 DEF HasFile, GoneBy
    <2>2. CASE task[a].pc \notin GonePCs
      <3>1. HasFile(s, m.segment_id) BY <1>4, <2>2, AllThere
      <3> QED BY <3>1 DEF HasFile
    <2> QED BY <2>1, <2>2
  <1> QED BY <1>1, <1>2, <1>3, <1>4, EvictAfter

\* An eviction that is alone chooses the oldest segment, whose file is there.
LEMMA ChooseEvict ==
    ASSUME StorageInv, EvictInv, NEW a \in Actors, Alone(a), NEW s \in Series, EvictChoose(a, s)
    PROVE  EvictInv'
  <1> DEFINE m == Oldest(manifest[s].segments)
  <1>1. /\ task[a] \in Task /\ task[a].pc = "evict" /\ s \in task[a].todo /\ status # "down"
        /\ UNCHANGED <<files, dirs, manifest, status, faults>> /\ OverLimit(manifest[s])
        /\ manifest[s].segments # {}
        /\ task' = [task EXCEPT ![a].pc = "remove", ![a].current = s, ![a].victim =
               [segment_id |-> m.segment_id, size_bytes |-> m.size_bytes]]
    <2>1. task[a].pc = "evict" BY DEF EvictChoose, At
    <2> QED BY <2>1, RunningStatus
        DEF EvictChoose, StorageInv, TypeOK, memory, disk, bounds, RunsWhile
  <1>2. /\ task' = [task EXCEPT ![a] = task'[a]]
        /\ task'[a].pc = "remove" /\ task'[a].current = s
        /\ task'[a].victim.segment_id = m.segment_id
    <2> HIDE DEF m
    <2> QED BY <1>1 DEF StorageInv, TypeOK, Task
  <1>3. manifest[s] # None /\ manifest[s] \in SeriesEntry
    BY <1>1 DEF StorageInv, SeriesOK, TypeOK, Manifest, TaskOK
  <1>4. m \in manifest[s].segments /\ \A n \in manifest[s].segments : m.max_ts_ms <= n.max_ts_ms
    <2>1. manifest[s].segments \in SUBSET SegmentMeta BY <1>3 DEF SeriesEntry
    <2> QED BY <1>1, <2>1, OldestExists
  <1> HIDE DEF m
  <1>5. faults = 0 =>
            \A x \in Series : manifest[x] # None =>
                \A n \in manifest[x].segments : HasFile(x, n.segment_id)
    BY <1>1, AllThere DEF GonePCs
  <1>6. Alone(a)' BY <1>2, AloneStays
  <1>7. DirsKept' BY <1>1 DEF EvictInv, DirsKept
  <1>8. FindsDir(a)'
    <2>1. faults = 0 => s \in dirs BY <1>3, <1>4, <1>5 DEF HasFile, EvictInv, DirsKept
    <2> QED BY <1>1, <1>2, <2>1 DEF FindsDir
  <1>9. WrittenThere(a)' BY <1>2 DEF WrittenThere, Owned, OwningPCs, WritingPCs
  <1>10. VictimOldest(a)' BY <1>1, <1>2, <1>4 DEF VictimOldest
  <1>11. faults' = 0 =>
             \A x \in Series : manifest'[x] # None =>
                 \A n \in manifest'[x].segments : HasFile(x, n.segment_id)'
    BY <1>1, <1>5 DEF HasFile
  <1> QED BY <1>6, <1>7, <1>8, <1>9, <1>10, <1>11, EvictAfter

\* It deletes the file of its victim.
LEMMA RemoveEvict ==
    ASSUME StorageInv, EvictInv, NEW a \in Actors, Alone(a), NEW s \in Series, EvictRemove(a, s)
    PROVE  EvictInv'
  <1>1. /\ task[a] \in Task /\ task[a].pc = "remove" /\ task[a].current = s
        /\ UNCHANGED <<dirs, manifest, status, faults>> /\ status # "down"
        /\ files' = files \ FileAt(s, task[a].victim.segment_id)
        /\ task' = [task EXCEPT ![a].pc = "dircheck"]
    <2>1. task[a].pc = "remove" BY DEF EvictRemove, Working
    <2> QED BY <2>1, RunningStatus
        DEF EvictRemove, StorageInv, TypeOK, memory, bounds, RunsWhile, Working, GoTo
  <1>2. /\ task' = [task EXCEPT ![a] = task'[a]] /\ task'[a].pc = "dircheck"
        /\ task'[a].current = s /\ task'[a].victim = task[a].victim
    BY <1>1 DEF StorageInv, TypeOK, Task
  <1>3. Alone(a)' BY <1>2, AloneStays
  <1>4. DirsKept' /\ FindsDir(a)' BY <1>1, <1>2 DEF EvictInv, DirsKept, FindsDir
  <1>5. WrittenThere(a)' /\ VictimOldest(a)'
    BY <1>2 DEF WrittenThere, VictimOldest, Owned, OwningPCs, WritingPCs
  <1>6. ASSUME faults' = 0,
               NEW x \in Series, manifest'[x] # None, NEW m \in manifest'[x].segments
        PROVE  HasFile(x, m.segment_id)' \/ GoneBy(a, x, m)'
    <2>1. HasFile(x, m.segment_id) BY <1>1, <1>6, AllThere DEF GonePCs
    <2>2. CASE x = s /\ m.segment_id = task[a].victim.segment_id
      BY <1>2, <2>2 DEF GoneBy, GonePCs
    <2>3. CASE ~(x = s /\ m.segment_id = task[a].victim.segment_id)
      BY <1>1, <2>1, <2>3 DEF HasFile, FileAt
    <2> QED BY <2>2, <2>3
  <1> QED BY <1>3, <1>4, <1>5, <1>6, EvictAfter

\* It removes the directory if no file is left in it.
LEMMA RmdirEvict ==
    ASSUME StorageInv, EvictInv, NEW a \in Actors, Alone(a), NEW s \in Series, Rmdir(a, s)
    PROVE  EvictInv'
  <1>1. /\ task[a] \in Task /\ task[a].pc = "rmdir" /\ task[a].current = s
        /\ UNCHANGED <<files, manifest, status, faults>> /\ status # "down"
        /\ dirs' = IF DirEmpty(s) THEN dirs \ {s} ELSE dirs
        /\ task' = [task EXCEPT ![a].pc = "update"]
    <2>1. task[a].pc = "rmdir" BY DEF Rmdir, Working
    <2> QED BY <2>1, RunningStatus
        DEF Rmdir, StorageInv, TypeOK, memory, bounds, RunsWhile, Working, GoTo
  <1>2. /\ task' = [task EXCEPT ![a] = task'[a]] /\ task'[a].pc = "update"
        /\ task'[a].current = s /\ task'[a].victim = task[a].victim
    BY <1>1 DEF StorageInv, TypeOK, Task
  <1>3. Alone(a)' BY <1>2, AloneStays
  <1>4. DirsKept' BY <1>1 DEF EvictInv, DirsKept, DirEmpty, FilesOf
  <1>5. FindsDir(a)' /\ WrittenThere(a)' /\ VictimOldest(a)'
    BY <1>2 DEF FindsDir, WrittenThere, VictimOldest, Owned, OwningPCs, WritingPCs
  <1>6. ASSUME faults' = 0,
               NEW x \in Series, manifest'[x] # None, NEW m \in manifest'[x].segments
        PROVE  HasFile(x, m.segment_id)' \/ GoneBy(a, x, m)'
    <2>1. HasFile(x, m.segment_id) \/ \E b \in Actors : GoneBy(b, x, m)
      BY <1>1, <1>6 DEF EvictInv, SegmentsThere
    <2>2. ASSUME NEW b \in Actors, GoneBy(b, x, m) PROVE b = a
      BY <2>2 DEF GoneBy, GonePCs, Alone
    <2> QED BY <1>1, <1>2, <2>1, <2>2 DEF HasFile, GoneBy, GonePCs
  <1> QED BY <1>3, <1>4, <1>5, <1>6, EvictAfter

\* What an eviction leaves of an entry.
LEMMA DroppedFacts ==
    ASSUME NEW entry \in SeriesEntry, NEW victim
    PROVE  /\ Dropped(entry, victim).segments =
                  {m \in entry.segments : m.segment_id # victim.segment_id}
           /\ Dropped(entry, victim).max_storage_bytes = entry.max_storage_bytes
           /\ Dropped(entry, victim).next_segment_id = entry.next_segment_id
           /\ victim \in Victim =>
                  /\ Dropped(entry, victim) # None
                  /\ Dropped(entry, victim).storage_bytes <= entry.storage_bytes
  <1>1. victim \in Victim => Dropped(entry, victim) # None BY DroppedType, NoneAssumption
  <1> DEFINE seg == {m \in entry.segments : m.segment_id # victim.segment_id}
             n == SaturatingSub(entry.storage_bytes, victim.size_bytes)
  <1>2. CASE \E m \in entry.segments : m.segment_id = victim.segment_id
    <2>1. Dropped(entry, victim) = [entry EXCEPT !.segments = seg, !.storage_bytes = n]
      BY <1>2 DEF Dropped
    <2>2. victim \in Victim => n <= entry.storage_bytes
      BY StorageAssumption DEF SaturatingSub, Victim, SeriesEntry
    <2> HIDE DEF seg, n
    <2>3. /\ Dropped(entry, victim).segments = seg /\ Dropped(entry, victim).storage_bytes = n
          /\ Dropped(entry, victim).max_storage_bytes = entry.max_storage_bytes
          /\ Dropped(entry, victim).next_segment_id = entry.next_segment_id
      BY <2>1 DEF SeriesEntry
    <2> QED BY <1>1, <2>2, <2>3 DEF seg
  <1>3. CASE ~\E m \in entry.segments : m.segment_id = victim.segment_id
    <2>1. Dropped(entry, victim) = entry BY <1>3 DEF Dropped
    <2>2. seg = entry.segments BY <1>3
    <2>3. entry.storage_bytes <= entry.storage_bytes BY StorageAssumption DEF SeriesEntry
    <2> QED BY <1>1, <2>1, <2>2, <2>3
  <1> QED BY <1>2, <1>3

\* It takes its victim out of the manifest.
LEMMA UpdateEvict ==
    ASSUME StorageInv, EvictInv, NEW a \in Actors, Alone(a), NEW s \in Series, NEW ok \in BOOLEAN,
           EvictUpdate(a, s, ok), faults' = 0 => faults = 0
    PROVE  EvictInv'
  <1>1. /\ task[a] \in Task /\ task[a].pc = "update" /\ task[a].current = s
        /\ UNCHANGED <<files, dirs>> /\ status # "down" /\ s \in series
        /\ manifest' = [manifest EXCEPT ![s] = Dropped(manifest[s], task[a].victim)]
    <2>1. task[a].pc = "update" /\ task[a].current = s BY DEF EvictUpdate, Working
    <2>2. s \in series /\ task[a] \in Task
      BY <2>1 DEF StorageInv, TaskOK, EvictingPCs, TypeOK
    <2> QED BY <2>1, <2>2, RunningStatus DEF EvictUpdate, Save, RunsWhile
  <1>2. /\ task' = [task EXCEPT ![a] = task'[a]] /\ task'[a].pc \in {"evict", "idle"}
    <2>1. CASE ok BY <1>1, <2>1 DEF EvictUpdate, StorageInv, TypeOK, Task
    <2>2. CASE ~ok BY <1>1, <2>2, IdleTaskType DEF EvictUpdate, Return, StorageInv, TypeOK
    <2> QED BY <2>1, <2>2
  <1>3. Alone(a)' BY <1>2, AloneStays
  <1>4. DirsKept' BY <1>1 DEF EvictInv, DirsKept
  <1>5. FindsDir(a)' /\ WrittenThere(a)' /\ VictimOldest(a)'
    BY <1>2 DEF FindsDir, WrittenThere, VictimOldest, Owned, OwningPCs, WritingPCs
  <1>6. ASSUME faults' = 0,
               NEW x \in Series, manifest'[x] # None, NEW m \in manifest'[x].segments
        PROVE  HasFile(x, m.segment_id)'
    <2>1. manifest[s] \in SeriesEntry /\ manifest[s] # None
      BY <1>1 DEF StorageInv, SeriesOK, TypeOK, Manifest
    <2>2. manifest[x] # None /\ m \in manifest[x].segments
          /\ ~(x = s /\ m.segment_id = task[a].victim.segment_id)
      <3>1. CASE x = s
        <4>1. manifest'[s] = Dropped(manifest[s], task[a].victim)
          BY <1>1 DEF StorageInv, TypeOK, Manifest
        <4> QED BY <1>6, <2>1, <3>1, <4>1, DroppedFacts
      <3>2. CASE x # s BY <1>1, <1>6, <3>2 DEF StorageInv, TypeOK, Manifest
      <3> QED BY <3>1, <3>2
    <2>3. HasFile(x, m.segment_id) \/ \E b \in Actors : GoneBy(b, x, m)
      BY <1>1, <1>6, <2>2 DEF EvictInv, SegmentsThere
    <2>4. ASSUME NEW b \in Actors, GoneBy(b, x, m) PROVE FALSE
      <3>1. b = a BY <2>4 DEF GoneBy, GonePCs, Alone
      <3> QED BY <1>1, <2>2, <2>4, <3>1 DEF GoneBy
    <2> QED BY <1>1, <2>3, <2>4 DEF HasFile
  <1> QED BY <1>3, <1>4, <1>5, <1>6, EvictAfter

\* An eviction that is alone finds no directory missing: if the check fails it is a fault.
LEMMA CheckFault ==
    ASSUME EvictInv, NEW a \in Actors, NEW s \in Series, DirCheckFails(a, s),
           faults' = 0 => faults = 0
    PROVE  faults' # 0
  <1> SUFFICES ASSUME faults' = 0 PROVE FALSE OBVIOUS
  <1>1. faults = 0 /\ task[a].pc = "dircheck" /\ task[a].current = s
    BY DEF DirCheckFails, Working
  <1>2. s \in dirs BY <1>1 DEF EvictInv, FindsDir
  <1> QED BY <1>1, <1>2 DEF DirCheckFails, Outcome

\* The other steps of an eviction, and what leads to it.
LEMMA MovesEvict ==
    ASSUME StorageInv, EvictInv, NEW a \in Actors, Alone(a), NEW s \in Series,
           \/ EvictDone(a, s) \/ EvictRemoveFails(a, s) \/ DirCheck(a, s) \/ DirCheckFails(a, s)
           \/ a \in Tasks /\ Advance(a, s),
           faults' = 0 => faults = 0
    PROVE  EvictInv'
  <1>1. task[a] \in Task BY DEF StorageInv, TypeOK
  <1>2. ASSUME task[a].pc \in {"evict", "remove", "advance", "dircheck"},
               task' = [task EXCEPT ![a] = task'[a]], UNCHANGED <<files, dirs, manifest>>,
               faults' = 0 /\ task[a].pc = "dircheck" =>
                   /\ task'[a].pc \in GonePCs /\ task'[a].current = task[a].current
                   /\ task'[a].victim = task[a].victim,
               task'[a].pc \in {"idle", "advance", "evict", "rmdir", "update"}
        PROVE  EvictInv'
    <2>1. status # "down" BY <1>2, RunningStatus DEF RunsWhile
    <2> QED BY <1>2, <2>1, IdleEvict DEF GonePCs
  <1>3. CASE EvictDone(a, s)
    <2>1. task[a].pc = "evict" /\ UNCHANGED <<files, dirs, manifest>>
      BY <1>3 DEF EvictDone, At, memory, disk
    <2>2. task' = [task EXCEPT ![a] = task'[a]] /\ task'[a].pc \in {"idle", "evict"}
      <3>1. CASE task[a].todo = {s}
        BY <1>1, <1>3, <3>1, IdleTaskType DEF EvictDone, Return, StorageInv, TypeOK
      <3>2. CASE task[a].todo # {s}
        BY <1>1, <1>3, <2>1, <3>2 DEF EvictDone, StorageInv, TypeOK, Task
      <3> QED BY <3>1, <3>2
    <2> QED BY <1>2, <2>1, <2>2
  <1>4. CASE EvictRemoveFails(a, s)
    <2>1. /\ task[a].pc = "remove" /\ UNCHANGED <<files, dirs, manifest>>
          /\ task' = [task EXCEPT ![a] = IdleTask]
      BY <1>4 DEF EvictRemoveFails, Working, Return, memory, disk
    <2>2. task' = [task EXCEPT ![a] = task'[a]] /\ task'[a].pc = "idle"
      BY <2>1, IdleTaskType DEF StorageInv, TypeOK
    <2> QED BY <1>2, <2>1, <2>2
  <1>5. CASE DirCheck(a, s)
    <2>1. /\ task[a].pc = "dircheck" /\ UNCHANGED <<files, dirs, manifest>>
          /\ task' = [task EXCEPT ![a].pc = IF DirEmpty(s) THEN "rmdir" ELSE "update"]
      BY <1>5 DEF DirCheck, Working, GoTo, memory, disk
    <2>2. /\ task' = [task EXCEPT ![a] = task'[a]] /\ task'[a].pc \in {"rmdir", "update"}
          /\ task'[a].current = task[a].current /\ task'[a].victim = task[a].victim
      BY <1>1, <2>1 DEF StorageInv, TypeOK, Task
    <2> QED BY <1>2, <2>1, <2>2 DEF GonePCs
  <1>6. CASE DirCheckFails(a, s)
    <2>1. /\ task[a].pc = "dircheck" /\ UNCHANGED <<files, dirs, manifest>>
          /\ task' = [task EXCEPT ![a] = IdleTask]
      BY <1>6 DEF DirCheckFails, Working, Return, memory, disk
    <2>2. task' = [task EXCEPT ![a] = task'[a]] /\ task'[a].pc = "idle"
      BY <2>1, IdleTaskType DEF StorageInv, TypeOK
    <2>3. faults' # 0 BY <1>6, CheckFault
    <2> QED BY <1>2, <2>1, <2>2, <2>3
  <1>7. CASE a \in Tasks /\ Advance(a, s)
    <2>1. UNCHANGED <<files, dirs, manifest>> BY <1>7 DEF Advance, disk
    <2> QED BY <1>2, <1>7, <2>1, AdvanceMoves
  <1> QED BY <1>3, <1>4, <1>5, <1>6, <1>7

\* A new series has no segment.
LEMMA RegisterEvict ==
    ASSUME StorageInv, EvictInv, NEW s \in Series, NEW type \in SeriesTypes, NEW limit \in Limits,
           NEW ok \in BOOLEAN, Register(s, type, limit, ok), faults' = 0 => faults = 0
    PROVE  EvictInv'
  <1>1. /\ UNCHANGED <<files, dirs, task, status>> /\ s \notin series /\ status # "down"
        /\ manifest' = [manifest EXCEPT ![s] = NewEntry(type, Clamp(limit))]
    BY DEF Register, CanRegister, Save
  <1>2. /\ \A x \in Series : x # s => manifest'[x] = manifest[x]
        /\ manifest'[s].segments = {}
    BY <1>1 DEF NewEntry, StorageInv, TypeOK, Manifest
  <1>3. DirsKept' BY <1>1 DEF EvictInv, DirsKept
  <1>4. SegmentsThere'
    <2> SUFFICES ASSUME faults' = 0, NEW x \in Series, manifest'[x] # None,
                        NEW m \in manifest'[x].segments
                 PROVE  HasFile(x, m.segment_id)' \/ \E a \in Actors : GoneBy(a, x, m)'
      BY DEF SegmentsThere
    <2>1. manifest'[x] = manifest[x] BY <1>2
    <2> QED BY <1>1, <2>1 DEF EvictInv, SegmentsThere, HasFile, GoneBy
  <1>5. ASSUME NEW a \in Actors PROVE FindsDir(a)' /\ WrittenThere(a)' /\ VictimOldest(a)'
    <2>1. FindsDir(a)' BY <1>1 DEF EvictInv, FindsDir
    <2>2. WrittenThere(a)'
      BY <1>1 DEF EvictInv, WrittenThere, Owned, NextId, HasFile
    <2>3. VictimOldest(a)'
      <3> SUFFICES ASSUME task[a].pc = "remove" PROVE VictimOldest(a)'
        BY <1>1 DEF VictimOldest
      <3>1. task[a].current \in Series /\ task[a].current # s
        BY <1>1 DEF StorageInv, TaskOK, EvictingPCs, TypeOK
      <3>2. manifest'[task[a].current] = manifest[task[a].current] BY <1>2, <3>1
      <3> QED BY <1>1, <3>2 DEF EvictInv, VictimOldest
    <2> QED BY <2>1, <2>2, <2>3
  <1> QED BY <1>3, <1>4, <1>5 DEF EvictInv

\* Recovery keeps the segments whose files are there.
LEMMA OpenEvict ==
    ASSUME StorageInv, OneType, EvictInv, Open
    PROVE  EvictInv'
  <1>1. files' = files /\ dirs' = dirs /\ manifest' = [s \in Series |-> RecoveredEntry(s)]
    BY OpenTypes DEF Open, Save
  <1>2. DirsKept' BY <1>1 DEF EvictInv, DirsKept
  <1>3. \A a \in Actors : FindsDir(a)' /\ WrittenThere(a)' /\ VictimOldest(a)'
    BY OpenTask DEF FindsDir, WrittenThere, VictimOldest, Owned, OwningPCs, WritingPCs
  <1>4. SegmentsThere'
    <2> SUFFICES ASSUME NEW s \in Series, manifest'[s] # None, NEW m \in manifest'[s].segments
                 PROVE  HasFile(s, m.segment_id)'
      BY DEF SegmentsThere
    <2>1. manifest'[s] = RecoveredEntry(s) BY <1>1
    <2>2. m \in RecoveredSegments(s) BY <2>1 DEF RecoveredEntry
    <2>3. HasFile(s, m.segment_id)
      <3>1. CASE m \in Kept(s)
        <4>1. FileAt(s, m.segment_id) # {} BY <3>1 DEF Kept
        <4> QED BY <4>1 DEF FileAt, HasFile
      <3>2. CASE m \notin Kept(s)
        <4>1. PICK f \in Unknown(s) : m = MetaOf(f) BY <2>2, <3>2 DEF RecoveredSegments
        <4>2. f \in files /\ f.data_id = s /\ m.segment_id = f.segment_id
          BY <4>1 DEF Unknown, FilesOf, MetaOf
        <4> QED BY <4>2 DEF HasFile
      <3> QED BY <3>1, <3>2
    <2> QED BY <1>1, <2>3 DEF HasFile
  <1> QED BY <1>2, <1>3, <1>4 DEF EvictInv

\* While the engine is down no thread has anything to find.
LEMMA DownEvict ==
    ASSUME StorageInv, StorageInv', EvictInv,
           Crash \/ LoseManifest \/ \E f \in files : HeaderUnreadable(f)
    PROVE  EvictInv'
  <1>1. status' = "down" /\ files' \subseteq files /\ dirs' = dirs
    BY DEF Crash, LoseManifest, HeaderUnreadable, disk
  <1>2. \A a \in Actors : task'[a].pc = "idle"
    BY <1>1 DEF StorageInv, StatusOK, At, RunsWhile
  <1>3. DirsKept' /\ SegmentsThere' BY <1>1 DEF EvictInv, DirsKept, SegmentsThere
  <1>4. \A a \in Actors : FindsDir(a)' /\ WrittenThere(a)' /\ VictimOldest(a)'
    BY <1>2 DEF FindsDir, WrittenThere, VictimOldest, Owned, OwningPCs, WritingPCs
  <1> QED BY <1>3, <1>4 DEF EvictInv

\* Every step of a client that is alone, and the environment's, keep the invariant.
LEMMA NextEvict ==
    OneThread /\ StorageInv /\ StorageInv' /\ OneType /\ EvictInv /\ [Next]_vars => EvictInv'
  <1> SUFFICES ASSUME OneThread, StorageInv, StorageInv', OneType, EvictInv, [Next]_vars
               PROVE  EvictInv'
    OBVIOUS
  <1>0. faults' = 0 => faults = 0 BY FaultsCount
  <1>1. ASSUME NEW t \in Tasks, AppendStep(t) \/ FlushStep(t) PROVE EvictInv'
    <2>1. t \in Actors BY DEF Actors
    <2>2. task[t].pc # "idle"
      BY <1>1, Zenon
      DEF AppendStep, AppendGroup, FlushStep, Alloc, Commit, Prepare, Mkdir, CreateTmp,
                  CreateTmpNoDir, WriteFails, Rename, Advance, At, Working
    <2>3. Alone(t) /\ status # "down" BY <2>1, <2>2, AloneActs, RunningStatus DEF RunsWhile
    <2>4. CASE \E ok \in BOOLEAN : Commit(t, ok) BY <1>0, <2>3, <2>4, CommitEvict
    <2>5. CASE \E s \in Series, size \in SegmentSizes, ok \in BOOLEAN : Rename(t, s, size, ok)
      BY <1>0, <2>3, <2>5, RenameEvict
    <2>6. CASE \E s \in Series : Advance(t, s) BY <1>0, <2>1, <2>3, <2>6, MovesEvict
    <2>7. CASE \/ Alloc(t)
               \/ \E s \in Series : \/ AppendGroup(t, s) \/ Prepare(t, s) \/ Mkdir(t, s)
                                    \/ CreateTmp(t, s) \/ CreateTmpNoDir(t, s) \/ WriteFails(t, s)
      BY <1>0, <2>3, <2>7, CalmSteps, CalmEvict
    <2> QED BY <1>1, <2>4, <2>5, <2>6, <2>7 DEF AppendStep, FlushStep
  <1>2. ASSUME NEW a \in Actors, EvictStep(a) \/ EvictError(a) PROVE EvictInv'
    <2>1. task[a].pc # "idle"
      BY <1>2, Zenon
      DEF EvictStep, EvictError, EvictChoose, EvictDone, EvictRemove, EvictRemoveFails,
                  DirCheck, DirCheckFails, Rmdir, EvictUpdate, At, Working
    <2>2. Alone(a) BY <2>1, AloneActs
    <2> QED BY <1>2, <1>0, <2>2, ChooseEvict, RemoveEvict, RmdirEvict, UpdateEvict, MovesEvict
        DEF EvictStep, EvictError
  <1>3. CASE Client
    <2>1. ASSUME NEW t \in Tasks,
                 \/ \E batch \in Batches : BeginAppend(t, batch)
                 \/ \E ids \in (SUBSET series) \ {{}} : BeginFlush(t, ids)
          PROVE  EvictInv'
      <3>1. t \in Actors /\ status = "serving" BY <2>1, Zenon DEF Actors, BeginAppend, BeginFlush
      <3>2. Alone(t) BY <3>1, AloneActs
      <3> QED BY <1>0, <2>1, <3>1, <3>2, CalmSteps, CalmEvict
    <2> QED BY <1>3, <1>0, <2>1, RegisterEvict DEF Client
  <1>4. CASE UNCHANGED vars
    <2>1. UNCHANGED <<files, dirs, task, status, manifest, faults>>
      BY <1>4 DEF vars, memory, disk, bounds
    <2> QED BY <2>1 DEF EvictInv, DirsKept, SegmentsThere, FindsDir, WrittenThere, VictimOldest,
                        HasFile, GoneBy, Owned, NextId, OverLimit
  <1>5. Opener \in Actors /\ Tasks \subseteq Actors BY DEF Actors
  <1> QED BY <1>1, <1>2, <1>3, <1>4, <1>5, OpenEvict, DownEvict DEF Next, Running

\* Nothing is there before the engine is first opened.
LEMMA InitEvict == Init => EvictInv
  <1> SUFFICES ASSUME Init PROVE EvictInv OBVIOUS
  <1>1. \A a \in Actors : task[a].pc = "idle" BY IdleTaskType DEF Init
  <1>2. files = {} /\ status = "down" BY DEF Init
  <1>3. DirsKept /\ SegmentsThere BY <1>2 DEF DirsKept, SegmentsThere
  <1>4. \A a \in Actors : FindsDir(a) /\ WrittenThere(a) /\ VictimOldest(a)
    BY <1>1 DEF FindsDir, WrittenThere, VictimOldest, Owned, OwningPCs, WritingPCs
  <1> QED BY <1>3, <1>4 DEF EvictInv

\* For a client that is alone, whatever calls fail and wherever the process dies: every file
\* and every flush that writes one has its directory, what a flush has written is there, and
\* an eviction is right about its victim until it deletes it.  As long as no call fails the
\* segments of the manifest have their files, too; an eviction that fails between its
\* remove_file and its update of the manifest leaves one without.
THEOREM EvictionInvariant == OneThread /\ Spec => []EvictInv
  <1> SUFFICES ASSUME OneThread PROVE Spec => []EvictInv OBVIOUS
  <1>1. StorageInv /\ StorageInv' /\ OneType /\ EvictInv /\ [Next]_vars => EvictInv'
    BY NextEvict
  <1> QED BY <1>1, InitEvict, StorageInvariant, TypesAgree, PTL DEF Spec

\* A running engine deletes a file in an eviction only.
LEMMA WhoDeletes ==
    ASSUME StorageInv, IdsInv, [Next]_vars, status # "down", NEW f \in files, f \notin files'
    PROVE  \E a \in Actors, s \in Series :
               EvictRemove(a, s) /\ f \in FileAt(s, task[a].victim.segment_id)
  <1>1. ASSUME NEW t \in Tasks, NEW s \in Series, NEW size \in SegmentSizes, NEW ok \in BOOLEAN,
               Rename(t, s, size, ok)
        PROVE  FALSE
    <2>1. /\ files \ files' \subseteq FileAt(s, task[t].pending[s].segment_id)
          /\ Working(t, "rename", s)
      BY <1>1 DEF Rename
    <2>2. Writing(t, s) BY <2>1, RenameFacts DEF Writing, Working, WritingPCs
    <2>3. FileAt(s, NextId(t, s)) = {} BY <2>2 DEF IdsInv, IdsUnused, Actors
    <2> QED BY <2>1, <2>3 DEF NextId
  <1>2. ASSUME NEW a \in Actors, NEW s \in Series, EvictRemove(a, s)
        PROVE  f \in FileAt(s, task[a].victim.segment_id)
    BY <1>2 DEF EvictRemove
  <1>3. ASSUME NEW a \in Actors, EvictStep(a) \/ EvictError(a)
        PROVE  \E s \in Series : EvictRemove(a, s)
    BY <1>3, Zenon DEF EvictStep, EvictError, EvictChoose, EvictDone, DirCheck, Rmdir, EvictUpdate,
                EvictRemoveFails, DirCheckFails, disk
  <1>4. ASSUME NEW t \in Tasks, AppendStep(t) \/ FlushStep(t) PROVE FALSE
    BY <1>1, <1>4 DEF AppendStep, AppendGroup, FlushStep, Alloc, Commit, Prepare, Mkdir, CreateTmp,
                      CreateTmpNoDir, WriteFails, Advance, disk
  <1>5. ~Client /\ ~UNCHANGED vars
    BY Zenon DEF Client, Register, BeginAppend, BeginFlush, disk, vars
  <1>6. ~Open /\ ~Crash /\ ~LoseManifest /\ \A g \in files : ~HeaderUnreadable(g)
    BY DEF Open, Crash, LoseManifest, HeaderUnreadable, disk
  <1>7. Opener \in Actors /\ Tasks \subseteq Actors BY DEF Actors
  <1> QED BY <1>2, <1>3, <1>4, <1>5, <1>6, <1>7 DEF Next, Running

\* A client that is alone has a file deleted only while its series is over its limit, and then
\* it is the oldest of the series, whatever calls of the file system fail.
THEOREM EvictionJustifiedAlone == OneThread /\ Spec => EvictionJustified
  <1> DEFINE Justified ==
          status # "down" => \A f \in files \ files' :
              /\ manifest[f.data_id].max_storage_bytes # None
              /\ manifest[f.data_id].storage_bytes > manifest[f.data_id].max_storage_bytes
              /\ \A m \in manifest[f.data_id].segments : MaxTs(f.samples) <= m.max_ts_ms
  <1> SUFFICES ASSUME OneThread PROVE Spec => [][Justified]_vars BY DEF EvictionJustified
  <1>1. ASSUME StorageInv, IdsInv, ManifestInv, EvictInv, [Next]_vars
        PROVE  [Justified]_vars
    <2> SUFFICES ASSUME status # "down", NEW f \in files \ files'
                 PROVE  /\ OverLimit(manifest[f.data_id])
                        /\ \A m \in manifest[f.data_id].segments : MaxTs(f.samples) <= m.max_ts_ms
      BY DEF OverLimit
    <2>1. PICK a \in Actors, s \in Series :
              EvictRemove(a, s) /\ f \in FileAt(s, task[a].victim.segment_id)
      BY <1>1, WhoDeletes
    <2>2. /\ task[a].pc = "remove" /\ task[a].current = s /\ f.data_id = s
          /\ f.segment_id = task[a].victim.segment_id
      BY <2>1 DEF EvictRemove, Working, FileAt
    <2>3. PICK m \in manifest[s].segments : /\ m.segment_id = task[a].victim.segment_id
                                            /\ \A n \in manifest[s].segments : m.max_ts_ms <= n.max_ts_ms
      BY <1>1, <2>2 DEF EvictInv, VictimOldest
    <2>4. OverLimit(manifest[s]) BY <1>1, <2>2 DEF EvictInv, VictimOldest
    <2>5. m = MetaOf(f)
      <3>1. manifest[s] # None
        BY <1>1, <2>2 DEF StorageInv, SeriesOK, TaskOK, EvictingPCs
      <3>2. m \in Known(s) BY <3>1 DEF Known
      <3> QED BY <1>1, <2>1, <2>3, <3>2 DEF ManifestInv, Described
    <2>6. MaxTs(f.samples) = m.max_ts_ms BY <2>5 DEF MetaOf
    <2> QED BY <2>2, <2>3, <2>4, <2>6
  <1>2. StorageInv /\ IdsInv /\ ManifestInv /\ EvictInv /\ [Next]_vars => [Justified]_vars
    BY <1>1
  <1> QED BY <1>2, EvictionInvariant, StorageInvariant, IdsInvariant, ManifestInvariant, PTL
      DEF Spec

\* Without a failing file system a client that is alone loses nothing but to a restart: no
\* flush finds its directory removed by an eviction.
THEOREM NoLossAlone == OneThread /\ Spec => []NoLossWithoutFault
  <1> SUFFICES ASSUME OneThread PROVE Spec => []NoLossWithoutFault OBVIOUS
  <1>1. ASSUME StorageInv, StorageInv', EvictInv, NoLossWithoutFault, [Next]_vars
        PROVE  NoLossWithoutFault'
    <2> SUFFICES ASSUME faults' = 0 PROVE failed' = failed
      BY <1>1, FaultsCount DEF NoLossWithoutFault
    <2>1. faults = 0 BY <1>1, FaultsCount
    <2>2. \A t \in Tasks, s \in Series : ~CreateTmpNoDir(t, s)
      BY <1>1 DEF CreateTmpNoDir, Working, EvictInv, FindsDir, Actors
    <2>3. \A ok \in BOOLEAN : Outcome(ok) => ok BY <2>1 DEF Outcome
    <2>4. ASSUME NEW t \in Tasks, FlushStep(t) PROVE failed' = failed
      BY <2>2, <2>3, <2>4, Zenon
      DEF FlushStep, Alloc, Commit, Prepare, Mkdir, CreateTmp, WriteFails, Rename, Advance, history
    <2>5. ASSUME NEW a, EvictStep(a) \/ EvictError(a) PROVE failed' = failed
      BY <2>5, Zenon
      DEF EvictStep, EvictError, EvictChoose, EvictDone, EvictRemove, DirCheck, Rmdir,
                  EvictUpdate, EvictRemoveFails, DirCheckFails, history
    <2>6. ASSUME NEW t, AppendStep(t) PROVE failed' = failed
      BY <2>6 DEF AppendStep, AppendGroup
    <2>7. CASE Client BY <2>7, Zenon DEF Client, Register, BeginAppend, BeginFlush, history
    <2>8. CASE Open \/ Crash \/ LoseManifest BY <2>8 DEF Open, Crash, LoseManifest, history
    <2>9. \A f \in files : ~HeaderUnreadable(f) BY <2>3 DEF HeaderUnreadable
    <2>10. CASE UNCHANGED vars BY <2>10 DEF vars, history
    <2> QED BY <1>1, <2>4, <2>5, <2>6, <2>7, <2>8, <2>9, <2>10 DEF Next, Running
  <1>2. StorageInv /\ StorageInv' /\ EvictInv /\ NoLossWithoutFault /\ [Next]_vars =>
            NoLossWithoutFault'
    BY <1>1
  <1>3. Init => NoLossWithoutFault BY DEF Init, NoLossWithoutFault
  <1> QED BY <1>2, <1>3, EvictionInvariant, StorageInvariant, PTL DEF Spec

-----------------------------------------------------------------------------
(* Retention for a client that is alone.                                   *)

\* A thread that will look at the limit of s.
Watches(a, s) ==
    \/ task[a].pc = "advance" /\ s \in Pending(task[a])
    \/ task[a].pc \in {"evict"} \union EvictingPCs /\ s \in task[a].todo
OverWatched == \A s \in series : OverLimit(manifest[s]) => \E a \in Actors : Watches(a, s)

\* While nobody evicts no series is over its limit.
LEMMA NoneOver ==
    ASSUME OverWatched, NEW a \in Actors, Alone(a), task[a].pc \in CalmPCs, NEW s \in series
    PROVE  ~OverLimit(manifest[s])
  <1> SUFFICES ASSUME NEW b \in Actors, Watches(b, s) PROVE FALSE BY DEF OverWatched
  <1>1. b = a BY DEF Watches, Alone, EvictingPCs
  <1> QED BY <1>1 DEF Watches, CalmPCs, OwningPCs, WritingPCs, EvictingPCs

\* A step that leaves the manifest alone, of a thread that goes on watching.
LEMMA KeepsWatch ==
    ASSUME OverWatched, UNCHANGED <<series, manifest>>, NEW a \in Actors, Alone(a),
           \A s \in series : Watches(a, s) /\ OverLimit(manifest[s]) => Watches(a, s)'
    PROVE  OverWatched'
  <1> SUFFICES ASSUME NEW s \in series, OverLimit(manifest[s]) PROVE Watches(a, s)'
    BY DEF OverWatched, OverLimit
  <1>1. PICK b \in Actors : Watches(b, s) BY DEF OverWatched
  <1>2. b = a BY <1>1 DEF Watches, Alone, EvictingPCs
  <1> QED BY <1>1, <1>2

\* An entry without segments is within its limit.
LEMMA EmptyWithin ==
    ASSUME StorageInv, LedgerInv, AccountsBounded, NEW s \in series, manifest[s].segments = {}
    PROVE  ~OverLimit(manifest[s])
  <1>1. s \in Series /\ manifest[s] # None BY DEF StorageInv, TypeOK, SeriesOK
  <1>2. manifest[s] \in SeriesEntry /\ IsFiniteSet(manifest[s].segments) BY <1>1, EntryFacts
  <1>3. TotalSize(manifest[s].segments) = 0 BY <1>2, TotalSizeFacts
  <1>4. manifest[s].storage_bytes <= 0 BY <1>1, <1>3 DEF AccountsBounded
  <1>5. manifest[s].storage_bytes \in Nat BY <1>2, StorageAssumption DEF SeriesEntry
  <1>6. manifest[s].max_storage_bytes \in (Nat \ {0}) \union {None} BY <1>2 DEF SeriesEntry
  <1> QED BY <1>4, <1>5, <1>6 DEF OverLimit

\* A flush that is alone and the appends before it.
LEMMA FlushWatched ==
    ASSUME StorageInv, StorageInv', OverWatched, NEW t \in Tasks, Alone(t), status # "down",
           NoFault, NoFault', AppendStep(t) \/ FlushStep(t)
    PROVE  OverWatched'
  <1>1. t \in Actors /\ task[t] \in Task BY DEF Actors, StorageInv, TypeOK
  <1>2. CASE Calm(t)
    <2> SUFFICES ASSUME NEW s \in series' PROVE ~OverLimit(manifest'[s]) BY DEF OverWatched
    <2>1. s \in series /\ s \in Series BY <1>2 DEF Calm, StorageInv, TypeOK
    <2>2. ~OverLimit(manifest[s]) /\ manifest[s] # None
      BY <1>1, <1>2, <2>1, NoneOver DEF Calm, StorageInv, SeriesOK
    <2>3. SameEntry(s) BY <1>2, <2>1 DEF Calm
    <2> QED BY <2>2, <2>3 DEF SameEntry, OverLimit
  <1>3. CASE \E s \in Series, size \in SegmentSizes, ok \in BOOLEAN : Rename(t, s, size, ok)
    <2>1. task[t].pc = "rename" /\ UNCHANGED <<series, manifest>> BY <1>3 DEF Rename, Working, memory
    <2> QED BY <1>1, <2>1, NoneOver DEF OverWatched, CalmPCs, OwningPCs, WritingPCs, OverLimit
  <1>4. CASE \E ok \in BOOLEAN : Commit(t, ok)
    <2>1. PICK ok \in BOOLEAN : Commit(t, ok) BY <1>4
    <2>2. ok BY <2>1 DEF Commit, Outcome, NoFault
    <2>3. task[t].pc = "commit" /\ series' = series /\ task' = [task EXCEPT ![t].pc = "advance"]
      BY <2>1, <2>2 DEF Commit, At, GoTo
    <2>4. task'[t].pc = "advance" /\ task'[t].pending = task[t].pending
      BY <1>1, <2>3 DEF StorageInv, TypeOK, Task
    <2> SUFFICES ASSUME NEW s \in series, OverLimit(manifest'[s]) PROVE Watches(t, s)'
      BY <1>1, <2>3 DEF OverWatched
    <2>5. s \in Series /\ ~OverLimit(manifest[s])
      BY <1>1, <2>3, NoneOver DEF StorageInv, TypeOK, CalmPCs, OwningPCs
    <2>6. s \in Pending(task[t]) BY <2>1, <2>5, CommitFacts
    <2> QED BY <2>4, <2>6 DEF Watches, Pending
  <1>5. CASE \E s \in Series : Advance(t, s)
    <2>1. PICK s \in Series : Advance(t, s) BY <1>5
    <2>2. UNCHANGED <<series, manifest>> BY <2>1 DEF Advance
    <2>3. ASSUME NEW x \in series, Watches(t, x) PROVE Watches(t, x)'
      <3>1. task[t].pc = "advance" BY <2>1 DEF Advance, At
      <3>2. x \in Pending(task[t]) BY <2>3, <3>1 DEF Watches, EvictingPCs
      <3>3. task'[t].pending = task[t].pending /\
               \/ task'[t].pc = "advance"
               \/ task'[t].pc = "evict" /\ task'[t].todo = Pending(task[t])
        BY <2>1, AdvanceMoves
      <3> QED BY <3>2, <3>3 DEF Watches, Pending
    <2> QED BY <1>1, <2>2, <2>3, KeepsWatch
  <1> QED BY <1>2, <1>3, <1>4, <1>5, CalmSteps DEF AppendStep, FlushStep

\* An eviction that is alone leaves a series only when it is within its limit.
LEMMA EvictWatched ==
    ASSUME StorageInv, StorageInv', LedgerInv, AccountsBounded, EvictInv, OverWatched,
           NEW a \in Actors, Alone(a), NoFault, NoFault', EvictStep(a) \/ EvictError(a)
    PROVE  OverWatched'
  <1>1. task[a] \in Task BY DEF StorageInv, TypeOK
  <1>2. ASSUME NEW s \in Series, EvictDone(a, s) PROVE OverWatched'
    <2>1. task[a].pc = "evict" /\ UNCHANGED <<series, manifest>> BY <1>2 DEF EvictDone, At, memory
    <2>2. ASSUME NEW x \in series, Watches(a, x), OverLimit(manifest[x]) PROVE Watches(a, x)'
      <3>1. x # s BY <1>2, <2>2, EmptyWithin DEF EvictDone
      <3>2. x \in task[a].todo BY <2>1, <2>2 DEF Watches, EvictingPCs
      <3>3. task' = [task EXCEPT ![a].todo = task[a].todo \ {s}] BY <1>2, <3>1, <3>2 DEF EvictDone
      <3>4. task'[a].pc = "evict" /\ task'[a].todo = task[a].todo \ {s}
        BY <1>1, <2>1, <3>3 DEF StorageInv, TypeOK, Task
      <3> QED BY <3>1, <3>2, <3>4 DEF Watches
    <2> QED BY <2>1, <2>2, KeepsWatch
  <1>3. ASSUME NEW s \in Series, NEW ok \in BOOLEAN, EvictUpdate(a, s, ok) PROVE OverWatched'
    <2>1. ok /\ task[a].pc = "update" /\ task[a].current = s
      BY <1>3 DEF EvictUpdate, Outcome, NoFault, Working
    <2>2. task' = [task EXCEPT ![a].pc = "evict", ![a].current = None, ![a].victim = NoVictim]
          /\ series' = series
          /\ manifest' = [manifest EXCEPT ![s] = Dropped(manifest[s], task[a].victim)]
      BY <1>3, <2>1 DEF EvictUpdate, Save
    <2>3. task'[a].pc = "evict" /\ task'[a].todo = task[a].todo
      BY <1>1, <2>2 DEF StorageInv, TypeOK, Task
    <2> SUFFICES ASSUME NEW x \in series, OverLimit(manifest'[x]) PROVE Watches(a, x)'
      BY <2>2 DEF OverWatched
    <2>4. x \in Series /\ s \in series BY <2>1 DEF StorageInv, TypeOK, TaskOK, EvictingPCs
    <2>5. OverLimit(manifest[x])
      <3>1. CASE x # s BY <2>2, <2>4, <3>1 DEF StorageInv, TypeOK, Manifest
      <3>2. CASE x = s
        <4>1. manifest[s] \in SeriesEntry BY <2>4 DEF StorageInv, SeriesOK, TypeOK, Manifest
        <4>2. manifest'[s] = Dropped(manifest[s], task[a].victim) /\ task[a].victim \in Victim
          BY <1>1, <2>2 DEF StorageInv, TypeOK, Manifest, Task
        <4>3. /\ manifest'[s].max_storage_bytes = manifest[s].max_storage_bytes
              /\ manifest'[s].storage_bytes <= manifest[s].storage_bytes
          BY <4>1, <4>2, DroppedFacts
        <4>4. manifest[s].storage_bytes \in Nat
          BY <4>1, StorageAssumption DEF SeriesEntry
        <4>5. manifest'[s].storage_bytes \in Nat
          BY <4>1, <4>2, DroppedType, StorageAssumption DEF SeriesEntry
        <4>6. manifest[s].max_storage_bytes \in Nat \union {None} BY <4>1 DEF SeriesEntry
        <4> QED BY <3>2, <4>3, <4>4, <4>5, <4>6 DEF OverLimit
      <3> QED BY <3>1, <3>2
    <2>6. Watches(a, x)
      <3>1. PICK b \in Actors : Watches(b, x) BY <2>5 DEF OverWatched
      <3> QED BY <3>1 DEF Watches, Alone, EvictingPCs
    <2> QED BY <2>1, <2>3, <2>6 DEF Watches, EvictingPCs
  <1>4. ASSUME NEW s \in Series,
               EvictChoose(a, s) \/ EvictRemove(a, s) \/ DirCheck(a, s) \/ Rmdir(a, s)
        PROVE  OverWatched'
    <2>1. /\ UNCHANGED <<series, manifest>> /\ task[a].pc \in {"evict"} \union EvictingPCs
      BY <1>4 DEF EvictChoose, EvictRemove, DirCheck, Rmdir, memory, At, Working, EvictingPCs
    <2>2. task'[a].pc \in EvictingPCs /\ task'[a].todo = task[a].todo
      <3>1. CASE EvictChoose(a, s)
        <4>1. PICK v : task' = [task EXCEPT ![a].pc = "remove", ![a].current = s, ![a].victim = v]
          BY <3>1 DEF EvictChoose
        <4> QED BY <1>1, <4>1 DEF StorageInv, TypeOK, Task, EvictingPCs
      <3>2. CASE EvictRemove(a, s) \/ DirCheck(a, s) \/ Rmdir(a, s)
        <4>1. PICK pc \in EvictingPCs : task' = [task EXCEPT ![a].pc = pc]
          BY <3>2 DEF EvictRemove, DirCheck, Rmdir, GoTo, EvictingPCs
        <4> QED BY <1>1, <4>1 DEF StorageInv, TypeOK, Task
      <3> QED BY <1>4, <3>1, <3>2
    <2> QED BY <2>1, <2>2, KeepsWatch DEF Watches, EvictingPCs
  <1>5. \A s \in Series : ~EvictRemoveFails(a, s)
    BY DEF EvictRemoveFails, Outcome, NoFault
  <1>6. \A s \in Series : ~DirCheckFails(a, s) BY CheckFault DEF NoFault
  <1> QED BY <1>2, <1>3, <1>4, <1>5, <1>6 DEF EvictStep, EvictError

\* Without failures a series that is over its limit is watched.
LEMMA NextWatched ==
    OneThread /\ StorageInv /\ StorageInv' /\ LedgerInv /\ AccountsBounded /\ EvictInv
        /\ NoFault /\ NoFault' /\ OverWatched /\ [Next]_vars => OverWatched'
  <1> SUFFICES ASSUME OneThread, StorageInv, StorageInv', LedgerInv, AccountsBounded, EvictInv,
                      NoFault, NoFault', OverWatched, [Next]_vars
               PROVE  OverWatched'
    OBVIOUS
  <1>1. ASSUME NEW t \in Tasks, AppendStep(t) \/ FlushStep(t) PROVE OverWatched'
    <2>1. t \in Actors BY DEF Actors
    <2>2. task[t].pc # "idle"
      BY <1>1, Zenon
      DEF AppendStep, AppendGroup, FlushStep, Alloc, Commit, Prepare, Mkdir, CreateTmp,
                  CreateTmpNoDir, WriteFails, Rename, Advance, At, Working
    <2>3. Alone(t) /\ status # "down" BY <2>1, <2>2, AloneActs, RunningStatus DEF RunsWhile
    <2> QED BY <1>1, <2>3, FlushWatched
  <1>2. ASSUME NEW a \in Actors, EvictStep(a) \/ EvictError(a) PROVE OverWatched'
    <2>1. task[a].pc # "idle"
      BY <1>2, Zenon
      DEF EvictStep, EvictError, EvictChoose, EvictDone, EvictRemove, EvictRemoveFails,
                  DirCheck, DirCheckFails, Rmdir, EvictUpdate, At, Working
    <2> QED BY <1>2, <2>1, AloneActs, EvictWatched
  <1>3. CASE Client
    <2>1. ASSUME NEW s \in Series, NEW type \in SeriesTypes, NEW limit \in Limits,
                 NEW ok \in BOOLEAN, Register(s, type, limit, ok)
          PROVE  OverWatched'
      <3> DEFINE entry == NewEntry(type, Clamp(limit))
      <3>1. /\ series' \subseteq series \union {s} /\ task' = task /\ s \notin series
            /\ manifest' = [manifest EXCEPT ![s] = entry] /\ ValidLimit(Clamp(limit))
        BY <2>1 DEF Register, CanRegister, Save
      <3>2. entry \in SeriesEntry BY <3>1, NewEntryType
      <3>3. entry.storage_bytes = 0 BY DEF NewEntry
      <3>4. ~OverLimit(entry)
        <4> HIDE DEF entry
        <4> QED BY <3>2, <3>3 DEF OverLimit, SeriesEntry
      <3> HIDE DEF entry
      <3> SUFFICES ASSUME NEW x \in series', OverLimit(manifest'[x])
                   PROVE  \E a \in Actors : Watches(a, x)'
        BY DEF OverWatched
      <3>5. manifest'[s] = entry /\ \A y \in Series : y # s => manifest'[y] = manifest[y]
        BY <3>1 DEF StorageInv, TypeOK, Manifest
      <3>6. x # s BY <3>4, <3>5
      <3>7. x \in series /\ manifest'[x] = manifest[x]
        BY <3>1, <3>5, <3>6 DEF StorageInv, TypeOK
      <3> QED BY <3>1, <3>7 DEF OverWatched, Watches, Pending
    <2>2. ASSUME NEW t \in Tasks,
                 \/ \E batch \in Batches : BeginAppend(t, batch)
                 \/ \E ids \in (SUBSET series) \ {{}} : BeginFlush(t, ids)
          PROVE  OverWatched'
      <3>1. /\ t \in Actors /\ status = "serving" /\ task[t].pc = "idle"
            /\ UNCHANGED <<series, manifest>>
        BY <2>2, Zenon DEF Actors, BeginAppend, BeginFlush, At, memory
      <3>2. Alone(t) BY <3>1, AloneActs
      <3>3. \A s \in series : ~Watches(t, s) BY <3>1 DEF Watches, EvictingPCs
      <3> QED BY <3>1, <3>2, <3>3, KeepsWatch
    <2> QED BY <1>3, <2>1, <2>2 DEF Client
  <1>4. CASE Open
    <2>1. CASE series' = {} BY <2>1 DEF OverWatched
    <2>2. CASE series' # {}
      <3>1. task' = [task EXCEPT ![Opener] = [IdleTask EXCEPT !.pc = "evict", !.todo = series']]
        BY <1>4, <2>2 DEF Open
      <3>2. task'[Opener].pc = "evict" /\ task'[Opener].todo = series'
        <4>1. Opener \in Actors BY DEF Actors
        <4>2. task'[Opener] = [IdleTask EXCEPT !.pc = "evict", !.todo = series']
          BY <3>1, <4>1 DEF StorageInv, TypeOK
        <4> QED BY <4>2, IdleTaskType DEF Task
      <3> QED BY <3>2 DEF OverWatched, Watches, Actors
    <2> QED BY <2>1, <2>2
  <1>5. CASE Crash BY <1>5 DEF Crash, OverWatched
  <1>6. CASE LoseManifest \/ (\E f \in files : HeaderUnreadable(f)) \/ UNCHANGED vars
    <2>1. UNCHANGED <<series, manifest, task>>
      BY <1>6 DEF LoseManifest, HeaderUnreadable, vars, memory
    <2> QED BY <2>1 DEF OverWatched, Watches, Pending, OverLimit
  <1>7. Opener \in Actors /\ Tasks \subseteq Actors BY DEF Actors
  <1> QED BY <1>1, <1>2, <1>3, <1>4, <1>5, <1>6, <1>7 DEF Next, Running

\* While the file system works and RPCs come one at a time, no series is over its byte limit
\* when nothing is under way, after recoveries too.
THEOREM RetentionAlone == OneThread /\ Spec /\ []NoFault => []RetentionHonoured
  <1> SUFFICES ASSUME OneThread PROVE Spec /\ []NoFault => []RetentionHonoured OBVIOUS
  <1>1. StorageInv /\ StorageInv' /\ LedgerInv /\ AccountsBounded /\ EvictInv /\ NoFault /\ NoFault'
            /\ OverWatched /\ [Next]_vars => OverWatched'
    BY NextWatched
  <1>2. Init => OverWatched BY DEF Init, OverWatched
  <1>3. ASSUME StorageInv, OverWatched PROVE RetentionHonoured
    <2> SUFFICES ASSUME Quiet, NEW s \in series, manifest[s].max_storage_bytes # None
                 PROVE  manifest[s].storage_bytes <= manifest[s].max_storage_bytes
      BY DEF RetentionHonoured
    <2>1. \A a \in Actors : task[a].pc = "idle"
      BY <1>3 DEF Quiet, StorageInv, StatusOK, At, RunsWhile, Actors
    <2>2. ~OverLimit(manifest[s]) BY <1>3, <2>1 DEF OverWatched, Watches, EvictingPCs
    <2>3. manifest[s] \in SeriesEntry BY <1>3 DEF StorageInv, SeriesOK, TypeOK, Manifest
    <2>4. manifest[s].storage_bytes \in Nat /\ manifest[s].max_storage_bytes \in Nat
      BY <2>3, StorageAssumption DEF SeriesEntry
    <2> QED BY <2>2, <2>4 DEF OverLimit
  <1>4. StorageInv /\ OverWatched => RetentionHonoured BY <1>3
  <1> QED BY <1>1, <1>2, <1>4, EvictionInvariant, StorageInvariant, LedgerInvariant,
             NeverOvercharged, PTL DEF Spec

=============================================================================
