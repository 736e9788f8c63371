---------------------------- MODULE ServiceProofs -----------------------------
(***************************************************************************)
(* The ingest service implements Storage, so that all that is proved of it *)
(* holds of the service; and what the answers of its RPCs promise.         *)
(***************************************************************************)
EXTENDS Service, StorageProofs

\* A batch without missing values is one that Storage is told clients may send.
LEMMA RequestIsBatch ==
    ASSUME NEW request \in Requests, Complete(request), request # << >>
    PROVE  Converted(request) \in Batches
  BY ServiceAssumption

\* A call that begins.
LEMMA CallBegins ==
    ASSUME NEW t \in Tasks,
           \/ \E request \in Requests : AppendBatch(t, request)
           \/ FlushAll(t)
           \/ \E s \in Series : FlushSeries(t, s)
    PROVE  Client
  <1>1. ASSUME NEW request \in Requests, AppendBatch(t, request) PROVE Client
    <2>1. /\ BeginAppend(t, Converted(request)) /\ Complete(request) /\ request # << >>
      BY <1>1 DEF AppendBatch
    <2> QED BY <2>1, RequestIsBatch DEF Client
  <1>2. ASSUME NEW ids, ids # {}, BeginFlush(t, ids) PROVE Client
    <2>1. ids \in (SUBSET series) \ {{}} BY <1>2 DEF BeginFlush
    <2> QED BY <1>2, <2>1 DEF Client
  <1>3. CASE FlushAll(t) BY <1>2, <1>3 DEF FlushAll
  <1>4. ASSUME NEW s \in Series, FlushSeries(t, s) PROVE Client
    BY <1>2, <1>4 DEF FlushSeries
  <1> QED BY <1>1, <1>3, <1>4

\* A call that ends as it begins: the engine takes no step.
LEMMA CallRefused ==
    ASSUME NEW t \in Tasks,
           \/ \E request \in Requests : AppendRefused(t, request) \/ AppendNothing(t, request)
           \/ FlushNothing(t)
           \/ \E s \in Series : FlushMissing(t, s)
           \/ \E s \in Series, raw \in RawTypes, limit \in Limits : RegisterRefused(t, s, raw, limit)
    PROVE  UNCHANGED vars
  BY DEF AppendRefused, AppendNothing, FlushNothing, FlushMissing, RegisterRefused, AnswerAtOnce

\* Every step of the service is a step of the engine, or none.
LEMMA ServiceStep == ASSUME [ServiceNext]_serviceVars PROVE [Next]_vars
  <1>1. ASSUME NEW t \in Tasks,
               \/ \E request \in Requests :
                   AppendRefused(t, request) \/ AppendNothing(t, request) \/ AppendBatch(t, request)
               \/ FlushNothing(t) \/ FlushAll(t)
               \/ \E s \in Series : FlushMissing(t, s) \/ FlushSeries(t, s)
        PROVE  [Next]_vars
    BY <1>1, CallBegins, CallRefused DEF Next
  <1>2. ASSUME NEW t \in Tasks, NEW s \in Series, NEW raw \in RawTypes, NEW limit \in Limits,
               \/ RegisterRefused(t, s, raw, limit)
               \/ \E ok \in BOOLEAN : RegisterSeries(t, s, raw, limit, ok)
        PROVE  [Next]_vars
    <2>1. CASE RegisterRefused(t, s, raw, limit) BY <2>1, CallRefused
    <2>2. ASSUME NEW ok \in BOOLEAN, RegisterSeries(t, s, raw, limit, ok) PROVE Client
      <3>1. raw \in SeriesTypes /\ Register(s, raw, limit, ok) BY <2>2 DEF RegisterSeries, KnownType
      <3> QED BY <3>1 DEF Client
    <2> QED BY <1>2, <2>1, <2>2 DEF Next
  <1>3. ASSUME NEW t \in Tasks, AppendEntries(t) \/ Continue(t) PROVE Running(t)
    BY <1>3 DEF AppendEntries, Continue, Running, AppendStep
  <1>4. ASSUME \/ EvictStep(Opener) \/ Open \/ LoseManifest
               \/ \E f \in files : HeaderUnreadable(f)
               \/ Killed
        PROVE  Next
    BY <1>4 DEF Next, Killed
  <1>5. CASE UNCHANGED serviceVars BY <1>5 DEF serviceVars
  <1>6. CASE ServiceNext
    BY <1>1, <1>2, <1>3, <1>4, <1>6 DEF ServiceNext, Next
  <1> QED BY <1>5, <1>6

\* The service implements the engine that Storage specifies.
THEOREM ServiceImplementsStorage == ServiceSpec => Spec
  <1>1. ServiceInit => Init BY DEF ServiceInit
  <1> QED BY <1>1, ServiceStep, PTL DEF ServiceSpec, Spec

\* So no sample that the service has accepted is lost without a record of it.
THEOREM ServiceKeepsSamples == ServiceSpec => []NoSilentLoss
  BY ServiceImplementsStorage, NothingLostSilently, PTL

-----------------------------------------------------------------------------
(* Who is told of a loss.                                                  *)

\* A flush ends before its commit, and what is lost is what it carried.
GivesUp(t) ==
    /\ task[t].pc \in WritingPCs /\ Returns(t)
    /\ \A s \in Series : failed'[s] \ failed[s] \subseteq task[t].pending[s].samples

\* Only a flush that gives up records a loss while the engine serves.
LEMMA LosingStep ==
    ASSUME StorageInv, status = "serving", ServiceNext, failed' # failed
    PROVE  \E t \in Tasks : Continue(t) /\ GivesUp(t)
  <1>1. ASSUME Client \/ UNCHANGED vars PROVE failed' = failed
    BY <1>1 DEF Client, Register, BeginAppend, BeginFlush, vars, history
  <1>2. ASSUME NEW t \in Tasks,
               \/ \E request \in Requests :
                   AppendRefused(t, request) \/ AppendNothing(t, request) \/ AppendBatch(t, request)
               \/ FlushNothing(t) \/ FlushAll(t)
               \/ \E s \in Series :
                   \/ FlushMissing(t, s) \/ FlushSeries(t, s)
                   \/ \E raw \in RawTypes, limit \in Limits :
                       \/ RegisterRefused(t, s, raw, limit)
                       \/ \E ok \in BOOLEAN : RegisterSeries(t, s, raw, limit, ok)
        PROVE  failed' = failed
    <2>1. CASE Client \/ UNCHANGED vars BY <1>1, <2>1
    <2>2. ASSUME NEW s \in Series, NEW raw \in RawTypes, NEW limit \in Limits, NEW ok \in BOOLEAN,
                 RegisterSeries(t, s, raw, limit, ok)
          PROVE  failed' = failed
      BY <2>2 DEF RegisterSeries, Register, history
    <2> QED BY <1>2, <2>1, <2>2, CallBegins, CallRefused
  <1>3. ASSUME NEW t \in Tasks, AppendEntries(t) PROVE failed' = failed
    BY <1>3 DEF AppendEntries, AppendGroup
  <1>4. ASSUME NEW a \in Actors, EvictStep(a) \/ EvictError(a) PROVE failed' = failed
    BY <1>4 DEF EvictStep, EvictError, EvictChoose, EvictDone, EvictRemove, EvictRemoveFails,
                DirCheck, DirCheckFails, Rmdir, EvictUpdate, history
  <1>5. ASSUME NEW t \in Tasks, FlushStep(t)
        PROVE  failed' = failed \/ GivesUp(t)
    <2>1. ASSUME NEW done \in SUBSET Series, Abort(t, done)
          PROVE  /\ Returns(t)
                 /\ \A s \in Series : failed'[s] \ failed[s] \subseteq task[t].pending[s].samples
      <3>1. task \in [Actors -> Task] /\ t \in Actors BY DEF StorageInv, TypeOK, Actors
      <3> QED BY <2>1, <3>1 DEF Abort, Returns
    <2>2. ASSUME NEW s \in Series,
                 \/ CreateTmpNoDir(t, s) \/ WriteFails(t, s)
                 \/ \E size \in SegmentSizes, ok \in BOOLEAN : Rename(t, s, size, ok)
          PROVE  failed' = failed \/ GivesUp(t)
      <3>1. task[t].pc \in WritingPCs
        BY <2>2 DEF CreateTmpNoDir, WriteFails, Rename, At, Working, WritingPCs
      <3>2. failed' = failed \/ \E done \in SUBSET Series : Abort(t, done)
        BY <2>2 DEF CreateTmpNoDir, WriteFails, Rename
      <3> QED BY <2>1, <3>1, <3>2 DEF GivesUp
    <2>3. ASSUME NEW s \in Series,
                 \/ Alloc(t) \/ \E ok \in BOOLEAN : Commit(t, ok)
                 \/ Prepare(t, s) \/ Mkdir(t, s) \/ CreateTmp(t, s) \/ Advance(t, s)
          PROVE  failed' = failed
      BY <2>3 DEF Alloc, Commit, Prepare, Mkdir, CreateTmp, Advance, history
    <2>4. CASE Alloc(t) \/ \E ok \in BOOLEAN : Commit(t, ok)
      BY <2>4 DEF Alloc, Commit, history
    <2> QED BY <1>5, <2>2, <2>3, <2>4 DEF FlushStep
  <1>6. ASSUME Open \/ LoseManifest \/ (\E f \in files : HeaderUnreadable(f)) PROVE FALSE
    BY <1>6 DEF Open, LoseManifest, HeaderUnreadable
  <1>7. CASE Killed BY <1>7 DEF Killed, Crash
  <1>8. CASE EvictStep(Opener) BY <1>4, <1>8 DEF Actors
  <1>9. ASSUME NEW t \in Tasks, Continue(t)
        PROVE  GivesUp(t)
    BY <1>4, <1>5, <1>9 DEF Continue, Actors
  <1> QED BY <1>2, <1>3, <1>6, <1>7, <1>8, <1>9 DEF ServiceNext

\* Whatever a flush loses while the engine serves is reported to the client whose call it
\* was, for any number of clients and faults.
THEOREM LossesReported == ServiceSpec => LossReported
  <1> DEFINE Told(answer) ==
                 /\ FlushFailed(answer)
                 /\ \A s \in Series :
                        failed'[s] \ failed[s] \subseteq task[answer.to].pending[s].samples
             Reported == status = "serving" /\ failed' # failed =>
                             \E answer \in replies' : Told(answer)
  <1>1. ASSUME StorageInv, ServiceNext, status = "serving", failed' # failed
        PROVE  \E answer \in replies' : Told(answer)
    <2>1. PICK t \in Tasks : Continue(t) /\ GivesUp(t) BY <1>1, LosingStep
    <2>2. replies' = {IF call[t].rpc = "append_batch" THEN AppendAnswer(t, call[t])
                                                     ELSE FlushAnswer(t)}
      BY <2>1 DEF Continue, Step, GivesUp
    <2>3. ~Succeeds(t) BY <2>1 DEF Succeeds, GivesUp, WritingPCs
    <2>4. CASE call[t].rpc = "append_batch"
      <3> DEFINE answer == Response(t, call[t].accepted, call[t].errors \union {FlushIndex}, 0)
      <3>1. answer \in replies' BY <2>2, <2>3, <2>4 DEF AppendAnswer
      <3>2. FlushIndex \in answer.errors /\ answer.to = t BY DEF Response
      <3> HIDE DEF answer
      <3>3. Told(answer) BY <2>1, <3>2 DEF FlushFailed, GivesUp
      <3> QED BY <3>1, <3>3
    <2>5. CASE call[t].rpc # "append_batch"
      <3> DEFINE answer == Refusal(t, "Io")
      <3>1. answer \in replies' BY <2>2, <2>3, <2>5 DEF FlushAnswer
      <3>2. answer.code = "internal" /\ answer.to = t BY DEF Refusal, Response, StatusOf
      <3> HIDE DEF answer
      <3>3. Told(answer) BY <2>1, <3>2 DEF FlushFailed, GivesUp
      <3> QED BY <3>1, <3>3
    <2> QED BY <2>4, <2>5
  <1>2. StorageInv /\ [ServiceNext]_serviceVars => [Reported]_serviceVars BY <1>1
  <1> QED BY <1>2, ServiceImplementsStorage, StorageInvariant, PTL DEF ServiceSpec, LossReported

-----------------------------------------------------------------------------
-----------------------------------------------------------------------------
(* What a call knows of the engine.                                        *)

\* The number of samples that were sent before a call is not above the clock, and only
\* a flush that drains, or has drained, memtables names series.
Call ==
    [rpc : {"none", "append_batch", "flush"}, ids : SUBSET Series, batch : Seq(Sample),
     since : Nat, accepted : Nat, errors : SUBSET Nat]
CallsOK ==
    /\ call \in [Tasks -> Call]
    /\ \A t \in Tasks :
        /\ call[t].since <= clock
        /\ task[t].pc \in {"idle", "append"} \/ call[t].rpc = "append_batch" => call[t].ids = {}

\* A step of one thread leaves the others where they are.
LEMMA OthersStay ==
    ASSUME StorageInv, NEW a \in Actors,
           \/ a \in Tasks /\ (AppendStep(a) \/ FlushStep(a) \/ EvictError(a))
           \/ EvictStep(a)
    PROVE  \A b \in Actors \ {a} : task'[b] = task[b]
  <1>1. task \in [Actors -> Task] BY DEF StorageInv, TypeOK
  <1>2. CASE AppendStep(a) BY <1>1, <1>2 DEF AppendStep, AppendGroup
  <1>3. CASE FlushStep(a)
    BY <1>1, <1>3 DEF FlushStep, Alloc, Commit, Prepare, Mkdir, CreateTmp, CreateTmpNoDir,
                      WriteFails, Rename, Advance, GoTo, Abort
  <1>4. CASE EvictStep(a)
    BY <1>1, <1>4 DEF EvictStep, EvictChoose, EvictDone, EvictRemove, DirCheck, Rmdir,
                      EvictUpdate, GoTo, Return
  <1>5. CASE EvictError(a) BY <1>1, <1>5 DEF EvictError, EvictRemoveFails, DirCheckFails, Return
  <1> QED BY <1>2, <1>3, <1>4, <1>5

\* Numbers are only given out.
LEMMA ClockGrows == ASSUME StorageInv, [Next]_vars PROVE clock <= clock'
  <1>1. clock \in Nat BY DEF StorageInv, TypeOK
  <1>2. clock <= clock BY <1>1
  <1>3. ASSUME NEW t \in Tasks, NEW s \in Series, AppendGroup(t, s) PROVE clock <= clock'
    <2>1. Len(task[t].batch) \in Nat BY DEF StorageInv, TypeOK, Task, Actors
    <2>2. clock' = clock + Len(task[t].batch) BY <1>3 DEF AppendGroup
    <2> QED BY <1>1, <2>1, <2>2
  <1>4. ASSUME NEW t \in Tasks, FlushStep(t) \/ EvictError(t) PROVE clock' = clock
    BY <1>4 DEF FlushStep, EvictError, Alloc, Commit, Prepare, Mkdir, CreateTmp, CreateTmpNoDir,
                WriteFails, Rename, Advance, EvictRemoveFails, DirCheckFails, bounds
  <1>5. ASSUME NEW a \in Actors, EvictStep(a) PROVE clock' = clock
    BY <1>5 DEF EvictStep, EvictChoose, EvictDone, EvictRemove, DirCheck, Rmdir, EvictUpdate, bounds
  <1>6. ASSUME Client \/ UNCHANGED vars PROVE clock' = clock
    BY <1>6 DEF Client, Register, BeginAppend, BeginFlush, bounds, vars
  <1>7. ASSUME Open \/ Crash \/ LoseManifest \/ \E f \in files : HeaderUnreadable(f)
        PROVE  clock' = clock
    BY <1>7 DEF Open, Crash, LoseManifest, HeaderUnreadable, bounds
  <1> QED BY <1>2, <1>3, <1>4, <1>5, <1>6, <1>7 DEF Next, Running, AppendStep, Actors

\* The handler of t is about to drain the memtable of s.
WillDrain(t, s) == task[t].pc = "prepare" /\ s \in task[t].todo

\* The writes of s up to the n-th have left the memtable, or later ones have for them.
HasDrained(s, n) ==
    \A x \in accepted[s] : x.seq_no <= n =>
        \E y \in Drained(s) : y.timestamp_ms = x.timestamp_ms /\ y.seq_no >= x.seq_no

\* A flush has drained, or is about to drain, the series it was called for.
DrainsOK ==
    \A t \in Tasks : \A s \in call[t].ids : WillDrain(t, s) \/ HasDrained(s, call[t].since)

CallsInv == CallsOK /\ DrainsOK

\* What has been drained stays so.
LEMMA DrainedStays ==
    ASSUME StorageInv, NoneDropped, [Next]_vars, NEW s \in Series, NEW n \in Nat, n <= clock,
           HasDrained(s, n)
    PROVE  HasDrained(s, n)'
  <1> SUFFICES ASSUME NEW x \in accepted'[s], x.seq_no <= n
               PROVE  \E y \in Drained(s)' : y.timestamp_ms = x.timestamp_ms /\ y.seq_no >= x.seq_no
    BY DEF HasDrained
  <1>1. CASE x \in accepted[s] BY <1>1 DEF HasDrained, NoneDropped
  <1>2. CASE x \notin accepted[s]
    <2>1. x.seq_no > clock BY <1>2, AcceptingStep
    <2>2. clock \in Nat BY DEF StorageInv, TypeOK
    <2>3. x.seq_no \in Nat BY NextInv DEF StorageInv, TypeOK, BufferedSample
    <2> QED BY <2>1, <2>2, <2>3
  <1> QED BY <1>1, <1>2

\* prepare_series_flush leaves nothing in the memtable that it does not carry.
LEMMA PrepareDrains ==
    ASSUME StorageInv, StorageInv', HandoverInv, NoneDropped, NEW t \in Tasks, NEW s \in Series,
           Prepare(t, s), NEW n \in Nat
    PROVE  HasDrained(s, n)'
  <1> DEFINE q == [task[t] EXCEPT !.pending[s].samples = LastWrites(memtable[s])]
             r == Visited(q, s, "alloc", Pending(q))
  <1>1. /\ TypeOK /\ TypeOK' /\ t \in Actors /\ task[t] \in Task
    BY DEF StorageInv, TypeOK, Actors
  <1>2. task' = [task EXCEPT ![t] = r] /\ accepted' = accepted BY DEF Prepare, history
  <1>3. LastWrites(memtable[s]) \in SUBSET BufferedSample BY <1>1, LastWritesType DEF TypeOK
  <1>4. q \in Task /\ q.pending[s].samples = LastWrites(memtable[s])
    BY <1>1, <1>3 DEF Task, PendingFlush
  <1> HIDE DEF q
  <1>5. r.pending[s].samples = LastWrites(memtable[s]) BY <1>4, VisitedPending
  <1> HIDE DEF r
  <1>6. task'[t].pending[s].samples = LastWrites(memtable[s]) BY <1>1, <1>2, <1>5 DEF TypeOK
  <1>7. LastWrites(memtable[s]) \subseteq Drained(s)' BY <1>1, <1>6 DEF Drained, InFlight
  <1>8. ASSUME NEW x \in accepted[s]
        PROVE  \E y \in Drained(s)' : y.timestamp_ms = x.timestamp_ms /\ y.seq_no >= x.seq_no
    <2>1. PICK y \in memtable[s] \union Drained(s) :
              y.timestamp_ms = x.timestamp_ms /\ y.seq_no >= x.seq_no
      BY DEF HandoverInv, NoSilentLoss, Drained, Stored
    <2>2. CASE y \in Drained(s) BY <2>1, <2>2 DEF NoneDropped
    <2>3. CASE y \in memtable[s]
      <3>1. memtable[s] \in SUBSET BufferedSample /\ clock \in Nat BY <1>1 DEF TypeOK
      <3>2. \A z \in memtable[s] : z.seq_no <= clock BY DEF HandoverInv, MemoryOK
      <3>3. PICK z \in LastWrites(memtable[s]) :
                z.timestamp_ms = y.timestamp_ms /\ z.seq_no >= y.seq_no
        BY <2>3, <3>1, <3>2, LastWriteStays
      <3>4. x.seq_no \in Nat /\ y.seq_no \in Nat /\ z.seq_no \in Nat
        BY <2>3, <3>1, <1>1, <1>3 DEF TypeOK, BufferedSample
      <3>5. z.seq_no >= x.seq_no BY <2>1, <3>3, <3>4
      <3> QED BY <2>1, <3>3, <3>5, <1>7
    <2> QED BY <2>1, <2>2, <2>3
  <1> QED BY <1>2, <1>8 DEF HasDrained

\* A handler that is about to drain a memtable does so, unless the process dies.
LEMMA WaitsToDrain ==
    ASSUME StorageInv, [Next]_vars, NEW t \in Tasks, NEW s \in Series, WillDrain(t, s)
    PROVE  WillDrain(t, s)' \/ Prepare(t, s) \/ Crash
  <1>1. /\ task \in [Actors -> Task] /\ t \in Actors /\ t # Opener /\ task[t] \in Task
        /\ task[t].pc = "prepare" /\ s \in task[t].todo
    BY StorageAssumption DEF StorageInv, TypeOK, Actors, WillDrain
  <1>2. CASE task'[t] = task[t] BY <1>1, <1>2 DEF WillDrain
  <1>3. ASSUME NEW x \in Series, Prepare(t, x), x # s PROVE WillDrain(t, s)'
    <2> DEFINE q == [task[t] EXCEPT !.pending[x].samples = LastWrites(memtable[x])]
               r == [q EXCEPT !.todo = q.todo \ {x}, !.current = None]
    <2>1. q.todo = task[t].todo /\ q.pc = "prepare" BY <1>1 DEF Task
    <2>2. q.todo # {x} BY <1>1, <1>3, <2>1
    <2>3. task' = [task EXCEPT ![t] = r] BY <1>3, <2>2 DEF Prepare, Visited
    <2>4. task'[t] = r BY <1>1, <2>3
    <2>5. r.pc = "prepare" /\ r.todo = task[t].todo \ {x} BY <1>1, <2>1 DEF Task
    <2> HIDE DEF r
    <2> QED BY <1>1, <1>3, <2>4, <2>5 DEF WillDrain
  <1>4. ASSUME Client PROVE task'[t] = task[t]
    BY <1>1, <1>4 DEF Client, Register, BeginAppend, BeginFlush, At
  <1>5. ASSUME NEW u \in Tasks, Running(u) PROVE task'[t] = task[t] \/ WillDrain(t, s)' \/ Prepare(t, s)
    <2>1. CASE u # t
      <3>1. u \in Actors BY DEF Actors
      <3> QED BY <1>1, <1>5, <2>1, <3>1, OthersStay DEF Running
    <2>2. CASE u = t
      <3>1. \E x \in Series : Prepare(t, x)
        BY <1>1, <1>5, <2>2
        DEF Running, AppendStep, FlushStep, EvictStep, EvictError, AppendGroup, Alloc, Commit, Mkdir,
            CreateTmp, CreateTmpNoDir, WriteFails, Rename, Advance, EvictChoose, EvictDone,
            EvictRemove, EvictRemoveFails, DirCheck, DirCheckFails, Rmdir, EvictUpdate, At, Working
      <3> QED BY <1>3, <3>1
    <2> QED BY <2>1, <2>2
  <1>6. ASSUME EvictStep(Opener) PROVE task'[t] = task[t]
    BY <1>1, <1>6, OthersStay DEF Actors
  <1>7. ASSUME Open PROVE task'[t] = task[t] BY <1>1, <1>7 DEF Open, Return
  <1>8. ASSUME LoseManifest \/ (\E f \in files : HeaderUnreadable(f)) \/ UNCHANGED vars
        PROVE  task'[t] = task[t]
    BY <1>8 DEF LoseManifest, HeaderUnreadable, vars
  <1> QED BY <1>2, <1>4, <1>5, <1>6, <1>7, <1>8 DEF Next

\* A handler that carries on is in the middle of its call, or has returned.
LEMMA CarriesOnOrReturns ==
    ASSUME StorageInv, NEW t \in Tasks, FlushStep(t) \/ EvictStep(t) \/ EvictError(t)
    PROVE  /\ task[t].pc \notin {"idle", "append"}
           /\ Returns(t) \/ task'[t].pc \notin {"idle", "append"}
           /\ status' = status
  <1>1. /\ task \in [Actors -> Task] /\ t \in Actors /\ t # Opener
    BY StorageAssumption DEF StorageInv, TypeOK, Actors
  <1>14. task[t] \in Task BY <1>1
  <1>11. ASSUME NEW r, task' = [task EXCEPT ![t] = r], r = IdleTask \/ r.pc \notin {"idle", "append"}
        PROVE  Returns(t) \/ task'[t].pc \notin {"idle", "append"}
    BY ONLY <1>1, <1>11 DEF Returns
  <1>12. ASSUME NEW pc \in PCs \ {"idle", "append"}, GoTo(t, pc)
        PROVE  Returns(t) \/ task'[t].pc \notin {"idle", "append"}
    <2> DEFINE r == [task[t] EXCEPT !.pc = pc]
    <2>1. task' = [task EXCEPT ![t] = r] BY <1>12 DEF GoTo
    <2>2. r.pc = pc BY ONLY <1>14 DEF Task
    <2> HIDE DEF r
    <2> QED BY <2>1, <2>2, <1>11
  <1>13. ASSUME task' = [task EXCEPT ![t] = IdleTask]
        PROVE  Returns(t) \/ task'[t].pc \notin {"idle", "append"}
    BY <1>11, <1>13
  <1>2. ASSUME NEW q \in Task, q.pc \in {"prepare", "mkdir", "advance"}, NEW s \in Series,
               NEW pc \in {"alloc", "commit", "evict"}, task'[t] = Visited(q, s, pc, Pending(q))
        PROVE  Returns(t) \/ task'[t].pc \notin {"idle", "append"}
    <2>1. CASE q.todo # {s}
      <3>1. task'[t] = [q EXCEPT !.todo = q.todo \ {s}, !.current = None] BY <1>2, <2>1 DEF Visited
      <3> QED BY <1>2, <3>1 DEF Task
    <2>2. CASE q.todo = {s} /\ Pending(q) = {} BY <1>2, <2>2 DEF Visited, Returns
    <2>3. CASE q.todo = {s} /\ Pending(q) # {}
      <3>1. task'[t] = [q EXCEPT !.pc = pc, !.todo = Pending(q), !.current = None]
        BY <1>2, <2>3 DEF Visited
      <3> QED BY <1>2, <3>1 DEF Task
    <2> QED BY <2>1, <2>2, <2>3
  <1>3. ASSUME NEW s \in Series, Prepare(t, s)
        PROVE  Returns(t) \/ task'[t].pc \notin {"idle", "append"}
    <2> DEFINE q == [task[t] EXCEPT !.pending[s].samples = LastWrites(memtable[s])]
    <2>1. task[t].pc = "prepare" /\ task'[t] = Visited(q, s, "alloc", Pending(q))
      BY <1>1, <1>3 DEF Prepare, At
    <2>2. LastWrites(memtable[s]) \in SUBSET BufferedSample
      BY LastWritesType DEF StorageInv, TypeOK
    <2>3. q \in Task /\ q.pc = "prepare" BY ONLY <1>14, <1>3, <2>1, <2>2 DEF Task, PendingFlush
    <2> HIDE DEF q
    <2> QED BY <1>2, <2>1, <2>3
  <1>4. ASSUME NEW s \in Series, NEW size \in SegmentSizes, NEW ok \in BOOLEAN, Rename(t, s, size, ok)
        PROVE  Returns(t) \/ task'[t].pc \notin {"idle", "append"}
    <2> DEFINE q == [task[t] EXCEPT !.pending[s].size_bytes = size, !.pc = "mkdir"]
    <2>1. CASE ok
      <3>1. task'[t] = Visited(q, s, "commit", Pending(q)) BY <1>1, <1>4, <2>1 DEF Rename
      <3>2. size \in 0 .. MaxU64 BY StorageAssumption
      <3>3. q \in Task /\ q.pc = "mkdir" BY ONLY <1>14, <1>4, <3>2 DEF Task, PendingFlush, PCs
      <3> HIDE DEF q
      <3> QED BY <1>2, <3>1, <3>3
    <2>2. CASE ~ok BY <1>1, <1>4, <2>2 DEF Rename, Abort, Returns
    <2> QED BY <2>1, <2>2
  <1>5. ASSUME NEW s \in Series, Advance(t, s)
        PROVE  Returns(t) \/ task'[t].pc \notin {"idle", "append"}
    BY <1>1, <1>2, <1>5 DEF Advance, At
  <1>6. ASSUME NEW s \in Series,
               Mkdir(t, s) \/ CreateTmp(t, s) \/ CreateTmpNoDir(t, s) \/ WriteFails(t, s)
        PROVE  Returns(t) \/ task'[t].pc \notin {"idle", "append"}
    <2>1. CASE Mkdir(t, s)
      <3> DEFINE r == [task[t] EXCEPT !.pc = "create", !.current = s]
      <3>1. task' = [task EXCEPT ![t] = r] BY <2>1 DEF Mkdir
      <3>2. r.pc = "create" BY ONLY <1>14 DEF Task
      <3> HIDE DEF r
      <3> QED BY <3>1, <3>2, <1>11
    <2>2. CASE CreateTmp(t, s) BY <2>2, <1>12 DEF CreateTmp, PCs
    <2>3. CASE CreateTmpNoDir(t, s) \/ WriteFails(t, s)
      BY <2>3, <1>13 DEF CreateTmpNoDir, WriteFails, Abort
    <2> QED BY <1>6, <2>1, <2>2, <2>3
  <1>7. ASSUME Alloc(t) \/ \E ok \in BOOLEAN : Commit(t, ok)
        PROVE  Returns(t) \/ task'[t].pc \notin {"idle", "append"}
    <2>1. CASE Alloc(t)
      <3>1. PICK pending : task' = [task EXCEPT ![t].pc = "mkdir", ![t].pending = pending]
        BY <2>1 DEF Alloc
      <3> DEFINE r == [task[t] EXCEPT !.pc = "mkdir", !.pending = pending]
      <3>2. task' = [task EXCEPT ![t] = r] BY <3>1
      <3>3. r.pc = "mkdir" BY ONLY <1>14 DEF Task
      <3> HIDE DEF r
      <3> QED BY <3>2, <3>3, <1>11
    <2>2. ASSUME NEW ok \in BOOLEAN, Commit(t, ok)
          PROVE  Returns(t) \/ task'[t].pc \notin {"idle", "append"}
      BY <2>2, <1>12, <1>13 DEF Commit, PCs
    <2> QED BY <1>7, <2>1, <2>2
  <1>8. ASSUME NEW s \in Series,
               \/ EvictChoose(t, s) \/ EvictDone(t, s) \/ EvictRemove(t, s) \/ DirCheck(t, s)
               \/ Rmdir(t, s) \/ \E ok \in BOOLEAN : EvictUpdate(t, s, ok)
               \/ EvictRemoveFails(t, s) \/ DirCheckFails(t, s)
        PROVE  Returns(t) \/ task'[t].pc \notin {"idle", "append"}
    <2>1. CASE EvictChoose(t, s)
      <3>1. PICK victim :
                task' = [task EXCEPT ![t].pc = "remove", ![t].current = s, ![t].victim = victim]
        BY <2>1 DEF EvictChoose
      <3> DEFINE r == [task[t] EXCEPT !.pc = "remove", !.current = s, !.victim = victim]
      <3>2. task' = [task EXCEPT ![t] = r] BY <3>1
      <3>3. r.pc = "remove" BY ONLY <1>14 DEF Task
      <3> HIDE DEF r
      <3> QED BY <3>2, <3>3, <1>11
    <2>2. CASE EvictDone(t, s)
      <3> DEFINE r == [task[t] EXCEPT !.todo = task[t].todo \ {s}]
      <3>1. CASE task[t].todo = {s} BY <2>2, <3>1, <1>13 DEF EvictDone, Return
      <3>2. CASE task[t].todo # {s}
        <4>1. task' = [task EXCEPT ![t] = r] /\ task[t].pc = "evict"
          BY <2>2, <3>2 DEF EvictDone, At
        <4>2. r.pc = "evict" BY ONLY <1>14, <4>1 DEF Task
        <4> HIDE DEF r
        <4> QED BY <4>1, <4>2, <1>11
      <3> QED BY <3>1, <3>2
    <2>3. CASE EvictRemove(t, s) \/ DirCheck(t, s) \/ Rmdir(t, s)
      BY <2>3, <1>12 DEF EvictRemove, DirCheck, Rmdir, PCs
    <2>4. CASE EvictRemoveFails(t, s) \/ DirCheckFails(t, s)
      BY <2>4, <1>13 DEF EvictRemoveFails, DirCheckFails, Return
    <2>5. ASSUME NEW ok \in BOOLEAN, EvictUpdate(t, s, ok)
          PROVE  Returns(t) \/ task'[t].pc \notin {"idle", "append"}
      <3> DEFINE r == [task[t] EXCEPT !.pc = "evict", !.current = None, !.victim = NoVictim]
      <3>1. CASE ok
        <4>1. task' = [task EXCEPT ![t] = r] BY <2>5, <3>1 DEF EvictUpdate
        <4>2. r.pc = "evict" BY ONLY <1>14 DEF Task
        <4> HIDE DEF r
        <4> QED BY <4>1, <4>2, <1>11
      <3>2. CASE ~ok BY <2>5, <3>2, <1>13 DEF EvictUpdate, Return
      <3> QED BY <3>1, <3>2
    <2> QED BY <1>8, <2>1, <2>2, <2>3, <2>4, <2>5
  <1>9. task[t].pc \notin {"idle", "append"}
    BY DEF FlushStep, EvictStep, EvictError, Alloc, Commit, Prepare, Mkdir, CreateTmp,
           CreateTmpNoDir, WriteFails, Rename, Advance, EvictChoose, EvictDone, EvictRemove,
           EvictRemoveFails, DirCheck, DirCheckFails, Rmdir, EvictUpdate, At, Working
  <1>10. status' = status
    BY <1>1
    DEF FlushStep, EvictStep, EvictError, Alloc, Commit, Prepare, Mkdir, CreateTmp,
        CreateTmpNoDir, WriteFails, Rename, Advance, EvictChoose, EvictDone, EvictRemove,
        EvictRemoveFails, DirCheck, DirCheckFails, Rmdir, EvictUpdate, Return,
        At, StatusOK, RunsWhile, StorageInv
  <1> QED BY <1>3, <1>4, <1>5, <1>6, <1>7, <1>8, <1>9, <1>10 DEF FlushStep, EvictStep, EvictError

\* What a step makes of a call: it ends or was never one that names series, it starts a
\* flush, or it goes on.
Ends(t) == call'[t].ids = {} /\ call'[t].since <= clock'
Begins(t) ==
    /\ call'[t].rpc = "flush" /\ call'[t].since <= clock'
    /\ \A s \in call'[t].ids : WillDrain(t, s)'
    /\ task'[t].pc = "prepare"
GoesOn(t) ==
    /\ call'[t].ids = call[t].ids /\ call'[t].since = call[t].since /\ call'[t].rpc = call[t].rpc
    /\ task'[t].pc \in {"idle", "append"} => task[t].pc \in {"idle", "append"}
    /\ status' # "down" \/ task[t].pc = "idle"

\* The call of a thread that stands still goes on.
LEMMA StandsStill ==
    ASSUME StorageInv, NEW t \in Tasks, task'[t] = task[t], call'[t] = call[t],
           status' = "down" => status = "down"
    PROVE  GoesOn(t)
  <1>1. t # Opener BY StorageAssumption
  <1>2. status = "down" => task[t].pc = "idle"
    BY <1>1, RunningStatus DEF RunsWhile, Actors
  <1> QED BY <1>2 DEF GoesOn

\* There is no call to begin with.
LEMMA NoCallType == NoCall \in Call /\ NoCall.ids = {} /\ NoCall.since = 0
  BY DEF NoCall, Call

\* A step that is part of the call of one client.
LEMMA CallOf ==
    ASSUME CallsOK, NEW t \in Tasks, NEW c \in Call, call' = [call EXCEPT ![t] = c]
    PROVE  /\ call' \in [Tasks -> Call] /\ call'[t] = c
           /\ \A u \in Tasks \ {t} : call'[u] = call[u]
  BY DEF CallsOK

\* A flush is called for series that are there.
LEMMA FlushCall ==
    ASSUME StorageInv, StorageInv', CallsOK, NEW t \in Tasks, NEW ids \in SUBSET series,
           ids # {}, BeginFlush(t, ids),
           Called(t, [NoCall EXCEPT !.rpc = "flush", !.ids = ids, !.since = clock])
    PROVE  /\ call' \in [Tasks -> Call]
           /\ \A u \in Tasks : Begins(u) \/ GoesOn(u)
  <1> DEFINE c == [NoCall EXCEPT !.rpc = "flush", !.ids = ids, !.since = clock]
  <1>1. /\ call' = [call EXCEPT ![t] = c] /\ task' = [task EXCEPT ![t] = Flushing(ids)]
        /\ status' = status /\ clock' = clock
    BY DEF Called, BeginFlush, bounds
  <1>2. clock \in Nat /\ series \subseteq Series /\ task \in [Actors -> Task] /\ t \in Actors
    BY DEF StorageInv, TypeOK, Actors
  <1>3. c \in Call /\ c.rpc = "flush" /\ c.ids = ids /\ c.since = clock
    BY <1>2, NoCallType DEF Call
  <1> HIDE DEF c
  <1>4. /\ call' \in [Tasks -> Call] /\ call'[t] = c
        /\ \A u \in Tasks \ {t} : call'[u] = call[u]
    BY <1>1, <1>3, CallOf
  <1>5. task'[t].pc = "prepare" /\ task'[t].todo = ids
    BY <1>1, <1>2, IdleTaskType DEF Flushing, Task
  <1>6. clock <= clock' BY <1>1, <1>2
  <1>7. Begins(t) BY <1>3, <1>4, <1>5, <1>6 DEF Begins, WillDrain
  <1>8. ASSUME NEW u \in Tasks \ {t} PROVE GoesOn(u)
    BY <1>1, <1>2, <1>4, StandsStill DEF Actors
  <1> QED BY <1>4, <1>7, <1>8

\* An append names no series.
LEMMA AppendCall ==
    ASSUME StorageInv, CallsOK, NEW t \in Tasks, NEW request \in Requests, AppendBatch(t, request)
    PROVE  /\ call' \in [Tasks -> Call]
           /\ \A u \in Tasks : Ends(u) \/ GoesOn(u)
  <1> DEFINE c == [NoCall EXCEPT !.rpc = "append_batch", !.batch = Converted(request), !.since = clock]
  <1>1. /\ call' = [call EXCEPT ![t] = c]
        /\ \A u \in Actors \ {t} : task'[u] = task[u]
        /\ status' = status /\ clock' = clock
    BY DEF AppendBatch, Called, BeginAppend, bounds, StorageInv, TypeOK
  <1>2. Converted(request) \in Seq(Sample)
    BY RequestIsBatch, StorageAssumption DEF AppendBatch
  <1>3. clock \in Nat BY DEF StorageInv, TypeOK
  <1>4. c \in Call /\ c.ids = {} /\ c.since = clock BY <1>2, <1>3, NoCallType DEF Call
  <1> HIDE DEF c
  <1>5. /\ call' \in [Tasks -> Call] /\ call'[t] = c
        /\ \A u \in Tasks \ {t} : call'[u] = call[u]
    BY <1>1, <1>4, CallOf
  <1>6. Ends(t) BY <1>1, <1>3, <1>4, <1>5 DEF Ends
  <1>7. ASSUME NEW u \in Tasks \ {t} PROVE GoesOn(u)
    BY <1>1, <1>5, StandsStill DEF Actors
  <1> QED BY <1>5, <1>6, <1>7

\* The series of a batch are counted one at a time.
LEMMA CountedType ==
    ASSUME CallsOK, NEW t \in Tasks, NEW s \in Series
    PROVE  /\ Counted(t, s) \in Call
           /\ Counted(t, s).ids = call[t].ids /\ Counted(t, s).since = call[t].since
           /\ Counted(t, s).rpc = call[t].rpc
  <1>1. call[t] \in Call BY DEF CallsOK
  <1>2. DOMAIN call[t].batch = 1 .. Len(call[t].batch) /\ Len(call[t].batch) \in Nat
    BY <1>1 DEF Call
  <1>3. IsFiniteSet(DOMAIN call[t].batch) BY <1>2, FS_Interval
  <1>4. /\ Rejected(t, s) \subseteq DOMAIN call[t].batch
        /\ Entries(t, s) \ Rejected(t, s) \subseteq DOMAIN call[t].batch
    BY DEF Rejected, Entries
  <1>5. Cardinality(Entries(t, s) \ Rejected(t, s)) \in Nat
    BY <1>3, <1>4, FS_Subset, FS_CardinalityType
  <1>6. Rejected(t, s) \subseteq Nat BY <1>2, <1>4
  <1> DEFINE taken == Cardinality(Entries(t, s) \ Rejected(t, s))
             bad == Rejected(t, s)
             n == call[t].accepted + taken
             e == call[t].errors \union bad
             c == [call[t] EXCEPT !.accepted = n, !.errors = e]
  <1>7. taken \in Nat /\ bad \in SUBSET Nat BY <1>5, <1>6
  <1>8. Counted(t, s) = c BY DEF Counted
  <1> HIDE DEF taken, bad
  <1>9. n \in Nat /\ e \in SUBSET Nat
    <2>1. call[t].accepted \in Nat /\ call[t].errors \in SUBSET Nat BY <1>1 DEF Call
    <2>2. n \in Nat BY <1>7, <2>1
    <2>3. e \in SUBSET Nat BY ONLY <1>7, <2>1
    <2> QED BY <2>2, <2>3
  <1> HIDE DEF n, e
  <1>10. c \in Call /\ c.ids = call[t].ids /\ c.since = call[t].since /\ c.rpc = call[t].rpc
    BY <1>1, <1>9 DEF Call
  <1> QED BY <1>8, <1>10

\* A thread that carries its call on.
LEMMA StepCall ==
    ASSUME StorageInv, StorageInv', CallsOK, NEW t \in Tasks, NEW c \in Call,
           c.ids = call[t].ids, c.since = call[t].since, c.rpc = call[t].rpc,
           Step(t, c), \A b \in Actors \ {t} : task'[b] = task[b],
           status' = status, clock <= clock',
           \/ task[t].pc \in {"idle", "append"} \/ Returns(t)
           \/ task'[t].pc \notin {"idle", "append"}
    PROVE  /\ call' \in [Tasks -> Call]
           /\ \A u \in Tasks : Ends(u) \/ GoesOn(u)
  <1>1. PICK d \in {c, NoCall} : call' = [call EXCEPT ![t] = d] /\ (Returns(t) => d = NoCall)
    BY DEF Step, Called
  <1>2. d \in Call BY <1>1, NoCallType
  <1>3. /\ call' \in [Tasks -> Call] /\ call'[t] = d
        /\ \A u \in Tasks \ {t} : call'[u] = call[u]
    BY <1>1, <1>2, CallOf
  <1>4. ASSUME NEW u \in Tasks \ {t} PROVE GoesOn(u)
    BY <1>3, StandsStill DEF Actors
  <1>5. Ends(t) \/ GoesOn(t)
    <2>1. CASE d = NoCall
      <3>1. clock' \in Nat BY DEF StorageInv, TypeOK
      <3> QED BY <1>3, <2>1, <3>1, NoCallType DEF Ends
    <2>2. CASE d = c /\ ~Returns(t)
      <3>1. status # "down" \/ task[t].pc = "idle"
        BY StorageAssumption, RunningStatus DEF RunsWhile, Actors
      <3> QED BY <1>3, <2>2, <3>1 DEF GoesOn
    <2> QED BY <1>1, <2>1, <2>2
  <1> QED BY <1>3, <1>4, <1>5

\* Every step ends a call, begins one or lets it go on.
LEMMA CallsStep ==
    ASSUME StorageInv, StorageInv', CallsOK, [ServiceNext]_serviceVars
    PROVE  /\ call' \in [Tasks -> Call]
           /\ \A u \in Tasks : Ends(u) \/ Begins(u) \/ GoesOn(u)
  <1> DEFINE Goal == /\ call' \in [Tasks -> Call]
                     /\ \A u \in Tasks : Ends(u) \/ Begins(u) \/ GoesOn(u)
  <1>1. clock <= clock' BY ServiceStep, ClockGrows
  <1>2. ASSUME call' = call, \A u \in Tasks : task'[u] = task[u], status' = "down" => status = "down"
        PROVE  Goal
    <2>1. \A u \in Tasks : GoesOn(u) BY <1>2, StandsStill
    <2> QED BY <1>2, <2>1 DEF CallsOK
  <1>3. ASSUME NEW t \in Tasks, NEW s \in Series, NEW raw \in RawTypes, NEW limit \in Limits,
               \/ RegisterRefused(t, s, raw, limit)
               \/ \E ok \in BOOLEAN : RegisterSeries(t, s, raw, limit, ok)
        PROVE  Goal
    BY <1>2, <1>3 DEF RegisterRefused, AnswerAtOnce, vars, RegisterSeries, Register
  <1>4. ASSUME NEW t \in Tasks, NEW s \in Series, FlushMissing(t, s) \/ FlushSeries(t, s)
        PROVE  Goal
    <2>1. CASE FlushMissing(t, s) BY <1>2, <2>1 DEF FlushMissing, AnswerAtOnce, vars
    <2>2. CASE FlushSeries(t, s)
      <3>1. {s} \in SUBSET series BY <2>2 DEF FlushSeries, BeginFlush
      <3> QED BY <2>2, <3>1, FlushCall DEF FlushSeries
    <2> QED BY <1>4, <2>1, <2>2
  <1>5. ASSUME NEW t \in Tasks, FlushNothing(t) \/ FlushAll(t) PROVE Goal
    <2>1. CASE FlushNothing(t) BY <1>2, <2>1 DEF FlushNothing, AnswerAtOnce, vars
    <2>2. CASE FlushAll(t) BY <2>2, FlushCall DEF FlushAll
    <2> QED BY <1>5, <2>1, <2>2
  <1>6. ASSUME NEW t \in Tasks, NEW request \in Requests,
               AppendRefused(t, request) \/ AppendNothing(t, request) \/ AppendBatch(t, request)
        PROVE  Goal
    <2>1. CASE AppendRefused(t, request) \/ AppendNothing(t, request)
      BY <1>2, <2>1 DEF AppendRefused, AppendNothing, AnswerAtOnce, vars
    <2>2. CASE AppendBatch(t, request) BY <2>2, AppendCall
    <2> QED BY <1>6, <2>1, <2>2
  <1>7. ASSUME NEW t \in Tasks, AppendEntries(t) PROVE Goal
    <2>1. PICK s \in Series : AppendGroup(t, s) /\ Step(t, Counted(t, s)) BY <1>7 DEF AppendEntries
    <2>2. /\ \A b \in Actors \ {t} : task'[b] = task[b]
          /\ status' = status /\ task[t].pc = "append"
      BY <2>1, OthersStay DEF AppendGroup, At, AppendStep, Actors
    <2> QED BY <1>1, <2>1, <2>2, CountedType, StepCall
  <1>8. ASSUME NEW t \in Tasks, Continue(t) PROVE Goal
    <2>1. /\ FlushStep(t) \/ EvictStep(t) \/ EvictError(t)
          /\ Step(t, call[t])
      BY <1>8 DEF Continue
    <2>2. \A b \in Actors \ {t} : task'[b] = task[b] BY <2>1, OthersStay DEF Actors
    <2>3. status' = status /\ (Returns(t) \/ task'[t].pc \notin {"idle", "append"})
      BY <2>1, CarriesOnOrReturns
    <2>4. call[t] \in Call BY DEF CallsOK
    <2> QED BY <1>1, <2>1, <2>2, <2>3, <2>4, StepCall
  <1>9. ASSUME \/ EvictStep(Opener) /\ Silent
               \/ Open /\ Silent
               \/ LoseManifest /\ Silent
               \/ \E f \in files : HeaderUnreadable(f) /\ Silent
        PROVE  Goal
    <2>1. call' = call BY <1>9 DEF Silent
    <2>2. \A u \in Tasks : u \in Actors \ {Opener} BY StorageAssumption DEF Actors
    <2>3. task \in [Actors -> Task] BY DEF StorageInv, TypeOK
    <2>4. CASE EvictStep(Opener)
      <3>1. \A u \in Tasks : task'[u] = task[u] BY <2>2, <2>4, OthersStay DEF Actors
      <3>2. status' = "down" => status = "down"
        BY <2>4 DEF EvictStep, EvictChoose, EvictDone, EvictRemove, DirCheck, Rmdir, EvictUpdate, Return
      <3> QED BY <1>2, <2>1, <3>1, <3>2
    <2>5. CASE Open BY <1>2, <2>1, <2>2, <2>3, <2>5 DEF Open, Return
    <2>6. CASE LoseManifest \/ \E f \in files : HeaderUnreadable(f)
      BY <1>2, <2>1, <2>6 DEF LoseManifest, HeaderUnreadable
    <2> QED BY <1>9, <2>4, <2>5, <2>6
  <1>10. CASE Killed
    <2>1. call' = [t \in Tasks |-> NoCall] BY <1>10 DEF Killed
    <2>2. clock' \in Nat BY DEF StorageInv, TypeOK
    <2>3. \A u \in Tasks : Ends(u) BY <2>1, <2>2, NoCallType DEF Ends
    <2> QED BY <2>1, <2>3, NoCallType
  <1>11. CASE UNCHANGED serviceVars BY <1>2, <1>11 DEF serviceVars, vars
  <1> QED BY <1>3, <1>4, <1>5, <1>6, <1>7, <1>8, <1>9, <1>10, <1>11 DEF ServiceNext

\* Every step keeps what is known of the calls.
LEMMA NextCalls ==
    ASSUME StorageInv, StorageInv', IdsInv, OneType, HandoverInv, CallsInv, [ServiceNext]_serviceVars
    PROVE  CallsInv'
  <1>1. [Next]_vars BY ServiceStep
  <1>2. NoneDropped /\ HandoverInv' BY <1>1, HandoverStep
  <1>3. /\ call' \in [Tasks -> Call]
        /\ \A u \in Tasks : Ends(u) \/ Begins(u) \/ GoesOn(u)
    BY CallsStep DEF CallsInv
  <1>4. clock <= clock' /\ clock \in Nat /\ clock' \in Nat
    BY <1>1, ClockGrows DEF StorageInv, TypeOK
  <1>5. ASSUME NEW t \in Tasks
        PROVE  /\ call'[t].since <= clock'
               /\ task'[t].pc \in {"idle", "append"} \/ call'[t].rpc = "append_batch" =>
                      call'[t].ids = {}
    <2>1. CASE Ends(t) BY <2>1 DEF Ends
    <2>2. CASE Begins(t) BY <2>2 DEF Begins
    <2>3. CASE GoesOn(t)
      <3>1. call[t].since \in Nat /\ call[t].since <= clock
        BY DEF CallsInv, CallsOK, Call
      <3>2. call'[t].since <= clock' BY <3>1, <2>3, <1>4 DEF GoesOn
      <3> QED BY <2>3, <3>2 DEF GoesOn, CallsInv, CallsOK
    <2> QED BY <1>3, <2>1, <2>2, <2>3
  <1>6. CallsOK' BY <1>3, <1>5 DEF CallsOK
  <1>7. ASSUME NEW t \in Tasks, NEW s \in call'[t].ids
        PROVE  WillDrain(t, s)' \/ HasDrained(s, call[t].since)'
    <2>1. CASE Ends(t) BY <1>7, <2>1 DEF Ends
    <2>2. CASE Begins(t) BY <1>7, <2>2 DEF Begins
    <2>3. CASE GoesOn(t)
      <3>1. s \in call[t].ids /\ call'[t].since = call[t].since /\ call[t] \in Call
        BY <1>7, <2>3 DEF GoesOn, CallsInv, CallsOK
      <3>2. s \in Series BY <3>1 DEF Call
      <3>3. PICK n \in Nat : n = call[t].since /\ n <= clock
        BY <3>1 DEF CallsInv, CallsOK, Call
      <3>4. HasDrained(s, n)' => HasDrained(s, call[t].since)'
        BY <3>1, <3>3 DEF HasDrained
      <3>5. CASE WillDrain(t, s)
        <4>1. task[t].pc # "idle" BY <3>5 DEF WillDrain
        <4>2. ~Crash BY <2>3, <4>1 DEF GoesOn, Crash
        <4>3. WillDrain(t, s)' \/ Prepare(t, s) BY <1>1, <3>2, <3>5, <4>2, WaitsToDrain
        <4>4. Prepare(t, s) => HasDrained(s, n)' BY <1>2, <3>2, PrepareDrains
        <4> QED BY <3>4, <4>3, <4>4
      <3>6. CASE ~WillDrain(t, s)
        <4>1. HasDrained(s, n) BY <3>1, <3>3, <3>6 DEF CallsInv, DrainsOK
        <4>2. HasDrained(s, n)' BY <1>1, <1>2, <3>2, <3>3, <4>1, DrainedStays
        <4> QED BY <3>4, <4>2
      <3> QED BY <3>5, <3>6
    <2> QED BY <1>3, <2>1, <2>2, <2>3
  <1>8. DrainsOK' BY <1>7 DEF DrainsOK
  <1> QED BY <1>6, <1>8 DEF CallsInv

\* No call has begun, and nothing is accepted, before the engine is first opened.
LEMMA InitCalls == ServiceInit => CallsInv
  <1> SUFFICES ASSUME ServiceInit PROVE CallsInv OBVIOUS
  <1>1. \A t \in Tasks : call[t].ids = {} /\ call[t].since <= clock
    BY NoCallType DEF ServiceInit, Init
  <1>2. call \in [Tasks -> Call] BY NoCallType DEF ServiceInit
  <1> QED BY <1>1, <1>2 DEF CallsInv, CallsOK, DrainsOK

\* A flush that answers ok has drained the memtables of the series it was called for, and
\* has nothing of them in its hands that is not stored.
FlushedFor(t) ==
    \A s \in call[t].ids :
        /\ HasDrained(s, call[t].since)
        /\ task[t].pending[s].samples \subseteq Stored(s)

\* A call that returns from its evictions has written all it drained.
LEMMA EvictionReturns ==
    ASSUME StorageInv, HandoverInv, CallsInv, NEW t \in Tasks, task[t].pc = "evict"
    PROVE  FlushedFor(t)
  <1>1. t \in Actors /\ call[t].ids \subseteq Series BY DEF Actors, CallsInv, CallsOK, Call
  <1>2. ASSUME NEW s \in call[t].ids PROVE HasDrained(s, call[t].since)
    BY DEF CallsInv, DrainsOK, WillDrain
  <1>3. ASSUME NEW s \in call[t].ids PROVE task[t].pending[s].samples \subseteq Stored(s)
    <2>1. CASE s \in Pending(task[t])
      <3>1. Written(task[t].pending[s]) BY <1>1, <2>1 DEF HandoverInv, FlushedWritten
      <3> QED BY <1>1, <3>1 DEF HandoverInv, WrittenKept
    <2>2. CASE s \notin Pending(task[t]) BY <1>1, <2>2 DEF Pending
    <2> QED BY <2>1, <2>2
  <1> QED BY <1>2, <1>3 DEF FlushedFor

\* A call that returns when it has drained its last memtable has found them all empty.
LEMMA NothingToFlush ==
    ASSUME StorageInv, HandoverInv, CallsInv, NEW t \in Tasks, task[t].pc = "prepare",
           FlushStep(t) \/ EvictStep(t) \/ EvictError(t), Returns(t)
    PROVE  FlushedFor(t)
  <1>1. /\ t \in Actors /\ task \in [Actors -> Task] /\ task[t] \in Task
        /\ TaskOK(task[t], series) /\ TypeOK
    BY DEF Actors, StorageInv, TypeOK
  <1>2. PICK s \in Series : Prepare(t, s)
    BY DEF FlushStep, EvictStep, EvictError, Alloc, Commit, Mkdir, CreateTmp, CreateTmpNoDir,
           WriteFails, Rename, Advance, EvictChoose, EvictDone, EvictRemove, EvictRemoveFails,
           DirCheck, DirCheckFails, Rmdir, EvictUpdate, At, Working
  <1> DEFINE q == [task[t] EXCEPT !.pending[s].samples = LastWrites(memtable[s])]
  <1>3. /\ LastWrites(memtable[s]) \in SUBSET BufferedSample
        /\ memtable[s] \in SUBSET BufferedSample /\ clock \in Nat
    BY <1>1, LastWritesType DEF TypeOK
  <1>4. task'[t] = Visited(q, s, "alloc", Pending(q)) BY <1>1, <1>2 DEF Prepare
  <1>5. q \in Task /\ q.pc = "prepare" /\ q.todo = task[t].todo
    <2>1. task[t] \in Task /\ task[t].pc = "prepare" BY <1>1
    <2> QED BY ONLY <1>2, <1>3, <2>1 DEF Task, PendingFlush
  <1>6. /\ q.pending[s].samples = LastWrites(memtable[s])
        /\ \A x \in Series \ {s} : q.pending[x] = task[t].pending[x]
    BY ONLY <1>1, <1>3 DEF Task, PendingFlush
  <1> HIDE DEF q
  <1>7. q.todo = {s} /\ Pending(q) = {}
    <2>1. IdleTask.pc = "idle" BY IdleTaskType
    <2>2. CASE q.todo # {s}
      <3>1. task'[t] = [q EXCEPT !.todo = q.todo \ {s}, !.current = None] BY <1>4, <2>2 DEF Visited
      <3>2. task'[t].pc = "prepare" BY <1>5, <3>1 DEF Task
      <3> QED BY <2>1, <3>2 DEF Returns
    <2>3. CASE q.todo = {s} /\ Pending(q) # {}
      <3>1. task'[t] = [q EXCEPT !.pc = "alloc", !.todo = Pending(q), !.current = None]
        BY <1>4, <2>3 DEF Visited
      <3>2. task'[t].pc = "alloc" BY <1>5, <3>1 DEF Task
      <3> QED BY <2>1, <3>2 DEF Returns
    <2> QED BY <2>2, <2>3
  <1>8. \A x \in Series : q.pending[x].samples = {} BY <1>7 DEF Pending
  <1>9. memtable[s] = {}
    <2>1. \A y \in memtable[s] : y.seq_no <= clock BY DEF HandoverInv, MemoryOK
    <2>2. LastWrites(memtable[s]) = {} BY <1>6, <1>8
    <2> QED BY <1>3, <2>1, <2>2, LastWriteStays
  <1>10. \A x \in Series : task[t].pending[x].samples = {}
    <2>1. s \notin Pending(task[t]) BY <1>1, <1>2 DEF Prepare, TaskOK
    <2> QED BY <1>6, <1>8, <2>1 DEF Pending
  <1>11. call[t].ids \subseteq Series BY DEF CallsInv, CallsOK, Call
  <1>12. ASSUME NEW x \in call[t].ids PROVE HasDrained(x, call[t].since)
    <2>1. CASE x = s
      BY <1>9, <2>1 DEF HasDrained, HandoverInv, NoSilentLoss, Drained, Stored
    <2>2. CASE x # s
      <3>1. x \notin task[t].todo BY <1>5, <1>7, <2>2
      <3> QED BY <3>1 DEF CallsInv, DrainsOK, WillDrain
    <2> QED BY <2>1, <2>2
  <1> QED BY <1>10, <1>11, <1>12 DEF FlushedFor

\* An answer goes to the client of a call.
LEMMA AnswersTasks ==
    ASSUME ServiceNext, NEW answer \in replies'
    PROVE  /\ answer.to \in Tasks
           /\ \/ task[answer.to].pc = "idle"
              \/ task[answer.to].pc = "append" /\ AppendEntries(answer.to)
              \/ Continue(answer.to)
  <1>1. ASSUME NEW u, NEW taken, NEW errors, NEW flushed
        PROVE  Response(u, taken, errors, flushed).to = u
    BY DEF Response
  <1>2. ASSUME NEW u, NEW error PROVE Refusal(u, error).to = u
    BY DEF Refusal, Response
  <1>3. ASSUME NEW u \in Tasks, NEW a, AnswerAtOnce(u, a), a.to = u
        PROVE  answer.to = u /\ task[u].pc = "idle"
    BY <1>3 DEF AnswerAtOnce, Listening, At
  <1>4. ASSUME NEW u \in Tasks, NEW request \in Requests,
               AppendRefused(u, request) \/ AppendNothing(u, request) \/ AppendBatch(u, request)
        PROVE  answer.to = u /\ task[u].pc = "idle"
    BY <1>1, <1>2, <1>3, <1>4 DEF AppendRefused, AppendNothing, AppendBatch, Called
  <1>5. ASSUME NEW u \in Tasks, NEW s \in Series, FlushMissing(u, s) \/ FlushSeries(u, s)
        PROVE  answer.to = u /\ task[u].pc = "idle"
    BY <1>2, <1>3, <1>5 DEF FlushMissing, FlushSeries, Called
  <1>6. ASSUME NEW u \in Tasks, FlushNothing(u) \/ FlushAll(u)
        PROVE  answer.to = u /\ task[u].pc = "idle"
    BY <1>1, <1>3, <1>6 DEF FlushNothing, FlushAll, Called
  <1>7. ASSUME NEW u \in Tasks, NEW s \in Series, NEW raw \in RawTypes, NEW limit \in Limits,
               \/ RegisterRefused(u, s, raw, limit)
               \/ \E ok \in BOOLEAN : RegisterSeries(u, s, raw, limit, ok)
        PROVE  answer.to = u /\ task[u].pc = "idle"
    BY <1>1, <1>2, <1>3, <1>7 DEF RegisterRefused, RegisterSeries, At
  <1>8. ASSUME NEW u \in Tasks, NEW c, Step(u, c) PROVE answer.to = u
    BY <1>1, <1>2, <1>8 DEF Step, Called, AppendAnswer, FlushAnswer
  <1>9. ASSUME NEW u \in Tasks, AppendEntries(u) PROVE answer.to = u /\ task[u].pc = "append"
    BY <1>8, <1>9 DEF AppendEntries, AppendGroup, At
  <1>10. ASSUME NEW u \in Tasks, Continue(u) PROVE answer.to = u
    BY <1>8, <1>10 DEF Continue
  <1>11. ~Killed /\ ~Silent BY DEF Killed, Silent
  <1> QED BY <1>4, <1>5, <1>6, <1>7, <1>9, <1>10, <1>11 DEF ServiceNext

\* What a flush has done when it answers ok.
LEMMA FlushAnswers ==
    ASSUME StorageInv, HandoverInv, CallsInv, ServiceNext, NEW answer \in replies',
           answer.code = "ok", answer.to \in Tasks, call[answer.to].ids # {}
    PROVE  status = "serving" /\ FlushedFor(answer.to)
  <1> DEFINE t == answer.to
  <1>1. call[t].ids # {} /\ t # Opener /\ t \in Actors BY StorageAssumption DEF Actors
  <1>2. task[t].pc \notin {"idle", "append"} /\ call[t].rpc # "append_batch"
    BY <1>1 DEF CallsInv, CallsOK
  <1>3. status = "serving" BY <1>1, <1>2, RunningStatus DEF RunsWhile
  <1>4. Continue(t) BY <1>2, AnswersTasks
  <1>5. /\ FlushStep(t) \/ EvictStep(t) \/ EvictError(t)
        /\ Step(t, call[t])
    BY <1>4 DEF Continue
  <1>6. Returns(t) /\ answer = FlushAnswer(t) BY <1>2, <1>5 DEF Step, Called
  <1>7. Succeeds(t)
    <2>1. Refusal(t, "Io").code = "internal" BY DEF Refusal, Response, StatusOf
    <2> QED BY <1>6, <2>1 DEF FlushAnswer
  <1>8. task[t].pc \in {"prepare", "evict"} BY <1>2, <1>7 DEF Succeeds
  <1> QED BY <1>3, <1>4, <1>5, <1>6, <1>8, EvictionReturns, NothingToFlush

\* A flush that answers ok has put on disk what was accepted for its series before it was
\* called, unless another flush has it in its hands: whatever other clients do, whenever
\* the process has died and whichever calls of the file system have failed.
THEOREM FlushesDurable == ServiceSpec => FlushDurable
  <1> DEFINE Elsewhere(u, s) ==
                 (UNION {task[t].pending[s].samples : t \in Tasks \ {u}})
                 \union OnDisk(s) \union evicted[s] \union restarted[s] \union failed[s]
             Durable(answer) ==
                 answer.code = "ok" =>
                     \A s \in call[answer.to].ids : \A x \in accepted[s] :
                         x.seq_no <= call[answer.to].since =>
                             \E y \in Elsewhere(answer.to, s) :
                                 y.timestamp_ms = x.timestamp_ms /\ y.seq_no >= x.seq_no
             AllDurable == \A answer \in replies' : Durable(answer)
  <1>1. ASSUME StorageInv, HandoverInv, CallsInv, ServiceNext PROVE AllDurable
    <2> SUFFICES ASSUME NEW answer \in replies', answer.code = "ok",
                        NEW s \in call[answer.to].ids, NEW x \in accepted[s],
                        x.seq_no <= call[answer.to].since
                 PROVE  \E y \in Elsewhere(answer.to, s) :
                            y.timestamp_ms = x.timestamp_ms /\ y.seq_no >= x.seq_no
      OBVIOUS
    <2>1. answer.to \in Tasks BY <1>1, AnswersTasks
    <2>2. status = "serving" /\ FlushedFor(answer.to) BY <1>1, <2>1, FlushAnswers
    <2>3. s \in Series BY <1>1, <2>1 DEF CallsInv, CallsOK, Call
    <2>4. PICK y \in Drained(s) : y.timestamp_ms = x.timestamp_ms /\ y.seq_no >= x.seq_no
      BY <2>2 DEF FlushedFor, HasDrained
    <2>5. task[answer.to].pending[s].samples \subseteq Stored(s) BY <2>2 DEF FlushedFor
    <2>6. task[Opener].pending[s].samples = {}
      <3>1. task[Opener].pc = "idle" BY <1>1, <2>2, RunningStatus DEF RunsWhile, Actors
      <3> QED BY <1>1, <2>3, <3>1 DEF StorageInv, TaskOK, Pending, Actors
    <2>7. InFlight(s) \subseteq Elsewhere(answer.to, s) BY <2>5, <2>6 DEF InFlight, Actors, Stored
    <2>8. y \in Elsewhere(answer.to, s) BY <2>4, <2>7 DEF Drained, Stored
    <2> QED BY <2>4, <2>8
  <1>2. StorageInv /\ HandoverInv /\ CallsInv /\ [ServiceNext]_serviceVars => [AllDurable]_serviceVars
    BY <1>1
  <1>3. StorageInv /\ StorageInv' /\ IdsInv /\ OneType /\ HandoverInv /\ CallsInv
        /\ [ServiceNext]_serviceVars => CallsInv'
    BY NextCalls
  <1>4. ServiceSpec => []StorageInv /\ []IdsInv /\ []OneType /\ []HandoverInv
    BY ServiceImplementsStorage, StorageInvariant, IdsInvariant, TypesAgree, HandoverInvariant, PTL
  <1> QED BY <1>2, <1>3, <1>4, InitCalls, PTL DEF ServiceSpec, FlushDurable

-----------------------------------------------------------------------------
-----------------------------------------------------------------------------
(* What an append has counted.                                             *)

\* The samples of acc[s] that were sent after the first n, and how many there are of all series.
After(acc, s, n) == {x \in acc[s] : x.seq_no > n}
Taken(acc, n) == MapThenSumSet(LAMBDA s : Cardinality(After(acc, s, n)), Series)

\* The call has counted the samples of its batch that are not of a series in left.
CountOK(c, left, acc) ==
    LET seen == {i \in DOMAIN c.batch : c.batch[i].data_id \notin left}
    IN  /\ c.errors \subseteq seen
        /\ c.accepted = Cardinality(seen \ c.errors)
        /\ \A i \in seen \ c.errors :
               \E x \in After(acc, c.batch[i].data_id, c.since) :
                   x.timestamp_ms = c.batch[i].timestamp_ms
        /\ c.accepted <= Taken(acc, c.since)

AcceptedOK ==
    \A s \in Series : /\ IsFiniteSet(accepted[s])
                      /\ accepted[s] \subseteq BufferedSample
                      /\ \A x \in accepted[s] : x.seq_no <= clock

Left(t) == IF task[t].pc = "append" THEN task[t].todo ELSE {}
AppendOK(t) ==
    call[t].rpc = "append_batch" =>
        /\ task[t].pc # "idle"
        /\ Len(call[t].batch) < FlushIndex
        /\ task[t].pc = "append" => task[t].batch = call[t].batch
        /\ CountOK(call[t], Left(t), accepted)

AppendsInv == AcceptedOK /\ \A t \in Tasks : AppendOK(t)

\* The samples of s that the batch of t has written now, and the places they come from.
TakenOf(t, s) ==
    {i \in DOMAIN task[t].batch : task[t].batch[i].data_id = s /\ Accepts(task[t].batch[i])}
NewOf(t, s) ==
    {[timestamp_ms |-> task[t].batch[i].timestamp_ms, seq_no |-> clock + i] : i \in TakenOf(t, s)}

\* A step accepts the samples of one series of one batch, or none.
LEMMA AcceptedGrows ==
    ASSUME [Next]_vars
    PROVE  \/ accepted' = accepted
           \/ \E t \in Tasks, s \in Series : AppendGroup(t, s)
  <1>1. ASSUME NEW t \in Tasks, FlushStep(t) \/ EvictError(t) PROVE accepted' = accepted
    BY <1>1 DEF FlushStep, EvictError, Alloc, Commit, Prepare, Mkdir, CreateTmp, CreateTmpNoDir,
                WriteFails, Rename, Advance, EvictRemoveFails, DirCheckFails, history
  <1>2. ASSUME NEW a \in Actors, EvictStep(a) PROVE accepted' = accepted
    BY <1>2 DEF EvictStep, EvictChoose, EvictDone, EvictRemove, DirCheck, Rmdir, EvictUpdate, history
  <1>3. ASSUME Client \/ UNCHANGED vars PROVE accepted' = accepted
    BY <1>3 DEF Client, Register, BeginAppend, BeginFlush, history, vars
  <1>4. ASSUME Open \/ Crash \/ LoseManifest \/ \E f \in files : HeaderUnreadable(f)
        PROVE  accepted' = accepted
    BY <1>4 DEF Open, Crash, LoseManifest, HeaderUnreadable, history
  <1> QED BY <1>1, <1>2, <1>3, <1>4 DEF Next, Running, AppendStep, Actors

\* Every sample of a batch is of a series.
LEMMA BatchSeries ==
    ASSUME NEW batch \in Seq(Sample), NEW i \in DOMAIN batch
    PROVE  batch[i].data_id \in Series
  <1>1. i \in 1 .. Len(batch) OBVIOUS
  <1>2. batch[i] \in Sample BY <1>1
  <1> QED BY <1>2 DEF Sample

\* Two finite sets that have nothing in common.
LEMMA DisjointSum ==
    ASSUME NEW S, IsFiniteSet(S), NEW T, IsFiniteSet(T), S \intersect T = {}
    PROVE  /\ IsFiniteSet(S \union T)
           /\ Cardinality(S) \in Nat /\ Cardinality(T) \in Nat
           /\ Cardinality(S \union T) = Cardinality(S) + Cardinality(T)
  <1>1. /\ IsFiniteSet(S \union T)
        /\ Cardinality(S \union T) =
               Cardinality(S) + Cardinality(T) - Cardinality(S \intersect T)
    BY FS_Union
  <1>2. Cardinality(S \intersect T) = 0 BY FS_EmptySet
  <1>3. Cardinality(S) \in Nat /\ Cardinality(T) \in Nat BY FS_CardinalityType
  <1> QED BY <1>1, <1>2, <1>3

\* Every sample that a batch writes has a number of its own that was not given out before.
LEMMA NewSamples ==
    ASSUME StorageInv, NEW t \in Tasks, NEW s \in Series, AppendGroup(t, s)
    PROVE  /\ accepted' = [accepted EXCEPT ![s] = accepted[s] \union NewOf(t, s)]
           /\ clock \in Nat /\ clock <= clock'
           /\ IsFiniteSet(NewOf(t, s)) /\ IsFiniteSet(TakenOf(t, s))
           /\ Cardinality(NewOf(t, s)) = Cardinality(TakenOf(t, s))
           /\ NewOf(t, s) \subseteq BufferedSample
           /\ \A x \in NewOf(t, s) : clock < x.seq_no /\ x.seq_no <= clock'
  <1> DEFINE batch == task[t].batch
             f == [i \in TakenOf(t, s) |->
                      [timestamp_ms |-> batch[i].timestamp_ms, seq_no |-> clock + i]]
  <1>1. /\ batch \in Seq(Sample) /\ clock \in Nat /\ accepted \in [Series -> SUBSET BufferedSample]
    BY DEF StorageInv, TypeOK, Task, Actors
  <1>2. /\ accepted' = [accepted EXCEPT ![s] = accepted[s] \union NewOf(t, s)]
        /\ clock' = clock + Len(batch)
    BY DEF AppendGroup, NewOf, TakenOf
  <1>3. DOMAIN batch = 1 .. Len(batch) /\ Len(batch) \in Nat BY <1>1
  <1>4. TakenOf(t, s) \subseteq 1 .. Len(batch) BY <1>3 DEF TakenOf
  <1>5. IsFiniteSet(TakenOf(t, s)) 
    <2>1. IsFiniteSet(1 .. Len(batch)) BY <1>3, FS_Interval
    <2> QED BY <1>4, <2>1, FS_Subset
  <1>6. \A i \in TakenOf(t, s) :
            /\ f[i] \in BufferedSample /\ f[i].seq_no = clock + i
            /\ i \in Int /\ 1 <= i /\ i <= Len(batch)
    <2> SUFFICES ASSUME NEW i \in TakenOf(t, s)
                 PROVE  /\ f[i] \in BufferedSample /\ f[i].seq_no = clock + i
                        /\ i \in Int /\ 1 <= i /\ i <= Len(batch)
      OBVIOUS
    <2>1. i \in 1 .. Len(batch) BY <1>4
    <2>2. i \in Int /\ 1 <= i /\ i <= Len(batch) BY <1>3, <2>1
    <2>3. batch[i] \in Sample BY <1>1, <1>3, <2>1
    <2>4. batch[i].timestamp_ms \in Timestamps BY <2>3 DEF Sample
    <2>5. clock + i \in Nat BY <1>1, <2>2
    <2>6. f[i] = [timestamp_ms |-> batch[i].timestamp_ms, seq_no |-> clock + i] OBVIOUS
    <2> HIDE DEF f
    <2> QED BY <2>2, <2>4, <2>5, <2>6 DEF BufferedSample
  <1>7. NewOf(t, s) = {f[i] : i \in TakenOf(t, s)} BY DEF NewOf
  <1>8. f \in [TakenOf(t, s) -> NewOf(t, s)] BY DEF NewOf
  <1> HIDE DEF f
  <1>9. NewOf(t, s) \subseteq BufferedSample BY <1>6, <1>7
  <1>10. \A x \in NewOf(t, s) : clock < x.seq_no /\ x.seq_no <= clock'
    <2> SUFFICES ASSUME NEW i \in TakenOf(t, s)
                 PROVE  clock < f[i].seq_no /\ f[i].seq_no <= clock'
      BY <1>7
    <2> QED BY <1>1, <1>2, <1>3, <1>6
  <1>11. \A i, j \in TakenOf(t, s) : f[i] = f[j] => i = j
    <2> SUFFICES ASSUME NEW i \in TakenOf(t, s), NEW j \in TakenOf(t, s), f[i] = f[j]
                 PROVE  i = j
      OBVIOUS
    <2>1. f[i].seq_no = clock + i /\ f[j].seq_no = clock + j /\ i \in Int /\ j \in Int BY <1>6
    <2>2. clock + i = clock + j BY <2>1
    <2> QED BY <1>1, <2>1, <2>2
  <1>12. ExistsBijection(TakenOf(t, s), NewOf(t, s))
    <2>1. f \in Bijection(TakenOf(t, s), NewOf(t, s))
      BY <1>7, <1>8, <1>11 DEF Bijection, Injection, Surjection, IsInjective
    <2> QED BY <2>1 DEF ExistsBijection
  <1>13. IsFiniteSet(NewOf(t, s)) /\ Cardinality(NewOf(t, s)) = Cardinality(TakenOf(t, s))
    BY <1>5, <1>12, FS_Bijection
  <1>14. clock <= clock' BY <1>1, <1>2, <1>3
  <1> QED BY <1>1, <1>2, <1>5, <1>9, <1>10, <1>13, <1>14

\* What has been accepted is a finite number of samples, and a step only adds to it.
LEMMA AcceptedStep ==
    ASSUME StorageInv, StorageInv', AcceptedOK, [Next]_vars
    PROVE  /\ AcceptedOK'
           /\ \A s \in Series : accepted[s] \subseteq accepted'[s]
  <1>1. /\ clock <= clock' /\ clock \in Nat /\ clock' \in Nat
        /\ accepted \in [Series -> SUBSET BufferedSample]
    BY ClockGrows DEF StorageInv, TypeOK
  <1>2. ASSUME NEW s \in Series, NEW x \in accepted[s] PROVE x.seq_no <= clock'
    <2>1. x.seq_no \in Nat /\ x.seq_no <= clock BY DEF AcceptedOK, BufferedSample
    <2> QED BY <1>1, <2>1
  <1>3. CASE accepted' = accepted BY <1>2, <1>3 DEF AcceptedOK
  <1>4. ASSUME NEW t \in Tasks, NEW s \in Series, AppendGroup(t, s)
        PROVE  /\ AcceptedOK'
               /\ \A x \in Series : accepted[x] \subseteq accepted'[x]
    <2>1. /\ accepted' = [accepted EXCEPT ![s] = accepted[s] \union NewOf(t, s)]
          /\ IsFiniteSet(NewOf(t, s)) /\ NewOf(t, s) \subseteq BufferedSample
          /\ \A x \in NewOf(t, s) : x.seq_no <= clock'
      BY <1>4, NewSamples
    <2>2. /\ accepted'[s] = accepted[s] \union NewOf(t, s)
          /\ \A y \in Series \ {s} : accepted'[y] = accepted[y]
      BY <1>1, <2>1
    <2>3. IsFiniteSet(accepted'[s]) BY <2>1, <2>2, FS_Union DEF AcceptedOK
    <2>4. accepted'[s] \subseteq BufferedSample /\ \A x \in accepted'[s] : x.seq_no <= clock'
      BY <1>2, <2>1, <2>2 DEF AcceptedOK
    <2> QED BY <1>2, <2>2, <2>3, <2>4 DEF AcceptedOK
  <1> QED BY <1>3, <1>4, AcceptedGrows

\* Taken is the sum of the numbers of samples, in any order.
LEMMA TakenSum ==
    ASSUME IsFiniteSet(Series), NEW acc, NEW n, NEW w \in [Series -> Nat],
           \A s \in Series : w[s] = Cardinality(After(acc, s, n))
    PROVE  Taken(acc, n) = SumOf(w, Series)
  <1> DEFINE IsTotal(f) ==
                 f = [T \in SUBSET Series |->
                         IF T = {} THEN 0
                         ELSE Cardinality(After(acc, Picked(T), n)) + f[T \ {Picked(T)}]]
             sum == CHOOSE f : Sums(f, w, Series)
             total == CHOOSE f : IsTotal(f)
  <1>1. Sums(sum, w, Series) BY SumOfFacts
  <1> HIDE DEF sum
  <1>2. \A T \in SUBSET Series : T # {} => w[Picked(T)] = Cardinality(After(acc, Picked(T), n))
    BY PickedFacts
  <1>3. ASSUME NEW f PROVE IsTotal(f) <=> Sums(f, w, Series)
    <2>1. [T \in SUBSET Series |->
              IF T = {} THEN 0
              ELSE Cardinality(After(acc, Picked(T), n)) + f[T \ {Picked(T)}]]
          = [T \in SUBSET Series |-> IF T = {} THEN 0 ELSE w[Picked(T)] + f[T \ {Picked(T)}]]
      BY <1>2
    <2> QED BY <2>1 DEF Sums
  <1>4. IsTotal(sum) BY <1>1, <1>3
  <1> HIDE DEF IsTotal
  <1>5. IsTotal(total) BY <1>4
  <1>6. Sums(total, w, Series) BY <1>3, <1>5
  <1> HIDE DEF total
  <1>7. Series \in SUBSET Series /\ \A x \in Series : w[x] \in Nat OBVIOUS
  <1>8. total[Series] = sum[Series]
    <2>1. \A T \in SUBSET Series : total[T] = sum[T] /\ total[T] \in Nat
      BY ONLY <1>1, <1>6, <1>7, IsFiniteSet(Series), SumsAgree
    <2> QED BY <2>1
  <1>9. Taken(acc, n) = total[Series]
    BY DEF Taken, MapThenSumSet, MapThenFoldSet, Picked, total, IsTotal
  <1> QED BY <1>8, <1>9 DEF SumOf, sum

\* More accepted samples of one series are more in all.
LEMMA TakenRaise ==
    ASSUME IsFiniteSet(Series), NEW acc, NEW new, NEW n \in Nat, NEW k \in Nat, NEW y \in Series,
           \A s \in Series : acc[s] \subseteq new[s] /\ IsFiniteSet(new[s]),
           Cardinality(After(acc, y, n)) + k <= Cardinality(After(new, y, n))
    PROVE  /\ Taken(acc, n) \in Nat /\ Taken(new, n) \in Nat
           /\ Taken(acc, n) + k <= Taken(new, n)
  <1> DEFINE w == [s \in Series |-> Cardinality(After(acc, s, n))]
             v == [s \in Series |-> Cardinality(After(new, s, n))]
  <1>1. ASSUME NEW s \in Series PROVE w[s] \in Nat /\ v[s] \in Nat /\ w[s] <= v[s]
    <2>1. After(acc, s, n) \subseteq After(new, s, n) /\ After(new, s, n) \subseteq new[s]
      BY DEF After
    <2>2. IsFiniteSet(After(new, s, n)) BY <2>1, FS_Subset
    <2>3. IsFiniteSet(After(acc, s, n))
          /\ Cardinality(After(acc, s, n)) <= Cardinality(After(new, s, n))
      BY <2>1, <2>2, FS_Subset
    <2>4. Cardinality(After(acc, s, n)) \in Nat /\ Cardinality(After(new, s, n)) \in Nat
      BY <2>2, <2>3, FS_CardinalityType
    <2> QED BY <2>3, <2>4
  <1>2. w \in [Series -> Nat] /\ v \in [Series -> Nat] BY <1>1
  <1>3. Taken(acc, n) = SumOf(w, Series) /\ Taken(new, n) = SumOf(v, Series)
    BY <1>2, TakenSum
  <1>4. w[y] + k <= v[y] OBVIOUS
  <1> HIDE DEF w, v
  <1>5. SumOf(w, Series) + k <= SumOf(v, Series) BY <1>1, <1>2, <1>4, SumOfRaise
  <1>6. SumOf(w, Series) \in Nat /\ SumOf(v, Series) \in Nat BY <1>2, SumOfFacts
  <1> QED BY <1>3, <1>5, <1>6

\* What a call has counted stays counted.
LEMMA CountGrows ==
    ASSUME IsFiniteSet(Series), NEW c \in Call, NEW left, NEW acc, NEW new,
           \A s \in Series : acc[s] \subseteq new[s] /\ IsFiniteSet(new[s]),
           CountOK(c, left, acc)
    PROVE  CountOK(c, left, new)
  <1> DEFINE seen == {i \in DOMAIN c.batch : c.batch[i].data_id \notin left}
  <1>1. c.batch \in Seq(Sample) /\ c.accepted \in Nat /\ c.since \in Nat BY DEF Call
  <1>2. \A i \in DOMAIN c.batch : c.batch[i].data_id \in Series BY <1>1, BatchSeries
  <1>3. /\ c.errors \subseteq seen /\ c.accepted = Cardinality(seen \ c.errors)
        /\ \A i \in seen \ c.errors :
               \E x \in After(acc, c.batch[i].data_id, c.since) :
                   x.timestamp_ms = c.batch[i].timestamp_ms
        /\ c.accepted <= Taken(acc, c.since)
    BY DEF CountOK
  <1>4. \A i \in seen \ c.errors :
            \E x \in After(new, c.batch[i].data_id, c.since) :
                x.timestamp_ms = c.batch[i].timestamp_ms
    BY <1>2, <1>3 DEF After
  <1>5. c.accepted <= Taken(new, c.since)
    <2>1. CASE Series = {}
      <3> DEFINE w == [s \in Series |-> 0]
      <3>1. w \in [Series -> Nat] OBVIOUS
      <3> HIDE DEF w
      <3>2. Taken(acc, c.since) = SumOf(w, Series) /\ Taken(new, c.since) = SumOf(w, Series)
        BY <2>1, <3>1, TakenSum
      <3> QED BY <1>3, <3>2
    <2>2. ASSUME NEW s \in Series PROVE c.accepted <= Taken(new, c.since)
      <3>1. After(acc, s, c.since) \subseteq After(new, s, c.since)
            /\ After(new, s, c.since) \subseteq new[s]
        BY DEF After
      <3>2. IsFiniteSet(After(new, s, c.since)) BY <3>1, FS_Subset
      <3>3. IsFiniteSet(After(acc, s, c.since))
            /\ Cardinality(After(acc, s, c.since)) <= Cardinality(After(new, s, c.since))
        BY <3>1, <3>2, FS_Subset
      <3>4. Cardinality(After(acc, s, c.since)) \in Nat BY <3>3, FS_CardinalityType
      <3>5. Cardinality(After(acc, s, c.since)) + 0 <= Cardinality(After(new, s, c.since))
        BY <3>3, <3>4
      <3>6. /\ Taken(acc, c.since) \in Nat /\ Taken(new, c.since) \in Nat
            /\ Taken(acc, c.since) + 0 <= Taken(new, c.since)
        BY <1>1, <3>5, TakenRaise
      <3> QED BY <1>1, <1>3, <3>6
    <2> QED BY <2>1, <2>2
  <1> QED BY <1>3, <1>4, <1>5 DEF CountOK

\* The step that appends the entries of one series counts them.
LEMMA GroupCounted ==
    ASSUME StorageInv, StorageInv', CallsOK, AcceptedOK, IsFiniteSet(Series),
           NEW t \in Tasks, NEW s \in Series, AppendGroup(t, s), [Next]_vars,
           task[t].batch = call[t].batch, CountOK(call[t], task[t].todo, accepted)
    PROVE  CountOK(Counted(t, s), task[t].todo \ {s}, accepted')
  <1> DEFINE c == call[t]
             d == Counted(t, s)
             left == task[t].todo
             seen == {i \in DOMAIN c.batch : c.batch[i].data_id \notin left}
             now == {i \in DOMAIN c.batch : c.batch[i].data_id \notin left \ {s}}
             bad == Rejected(t, s)
             good == TakenOf(t, s)
  <1>1. /\ c \in Call /\ c.batch \in Seq(Sample) /\ c.accepted \in Nat /\ c.since \in Nat
        /\ c.since <= clock
    BY DEF CallsOK, Call
  <1>2. s \in left BY DEF AppendGroup
  <1>3. DOMAIN c.batch = 1 .. Len(c.batch) /\ Len(c.batch) \in Nat BY <1>1
  <1>4. IsFiniteSet(DOMAIN c.batch) BY <1>3, FS_Interval
  <1>5. /\ Entries(t, s) \ bad = good
        /\ bad \subseteq Entries(t, s) /\ good \subseteq Entries(t, s)
        /\ Entries(t, s) = {i \in DOMAIN c.batch : c.batch[i].data_id = s}
        /\ Entries(t, s) \intersect seen = {} /\ now = seen \union Entries(t, s)
    BY <1>2 DEF Entries, Rejected, TakenOf
  <1>6. /\ d.batch = c.batch /\ d.since = c.since
        /\ d.accepted = c.accepted + Cardinality(good) /\ d.errors = c.errors \union bad
    BY <1>1, <1>5 DEF Counted, Call
  <1>7. /\ c.errors \subseteq seen /\ c.accepted = Cardinality(seen \ c.errors)
        /\ \A i \in seen \ c.errors :
               \E x \in After(accepted, c.batch[i].data_id, c.since) :
                   x.timestamp_ms = c.batch[i].timestamp_ms
        /\ c.accepted <= Taken(accepted, c.since)
    BY DEF CountOK
  <1>8. AcceptedOK' /\ \A y \in Series : accepted[y] \subseteq accepted'[y]
    BY AcceptedStep
  <1>9. /\ accepted' = [accepted EXCEPT ![s] = accepted[s] \union NewOf(t, s)]
        /\ IsFiniteSet(NewOf(t, s)) /\ IsFiniteSet(good)
        /\ Cardinality(NewOf(t, s)) = Cardinality(good)
        /\ clock \in Nat
        /\ NewOf(t, s) \subseteq BufferedSample
        /\ \A x \in NewOf(t, s) : clock < x.seq_no
    BY NewSamples
  <1>10. accepted'[s] = accepted[s] \union NewOf(t, s) BY <1>9 DEF StorageInv, TypeOK
  <1>11. ASSUME NEW i \in good
         PROVE  \E x \in NewOf(t, s) : x.timestamp_ms = c.batch[i].timestamp_ms
    <2> DEFINE x == [timestamp_ms |-> task[t].batch[i].timestamp_ms, seq_no |-> clock + i]
    <2>1. x \in NewOf(t, s) BY DEF NewOf
    <2>2. x.timestamp_ms = c.batch[i].timestamp_ms OBVIOUS
    <2> QED BY <2>1, <2>2
  <1>12. \A x \in NewOf(t, s) : x.seq_no \in Nat /\ x.seq_no > c.since
    <2> SUFFICES ASSUME NEW x \in NewOf(t, s) PROVE x.seq_no \in Nat /\ x.seq_no > c.since
      OBVIOUS
    <2>1. x.seq_no \in Nat /\ clock < x.seq_no BY <1>9 DEF BufferedSample
    <2> QED BY <1>1, <1>9, <2>1
  <1> HIDE DEF c, d, left, bad, good, seen, now
  <1>13. d.errors \subseteq now BY <1>5, <1>6, <1>7
  <1>14. now \ d.errors = (seen \ c.errors) \union good BY <1>5, <1>6, <1>7
  <1>15. d.accepted = Cardinality(now \ d.errors)
    <2>1. IsFiniteSet(seen \ c.errors) BY <1>4, FS_Subset DEF seen
    <2>2. (seen \ c.errors) \intersect good = {} BY <1>5
    <2>3. Cardinality((seen \ c.errors) \union good) = Cardinality(seen \ c.errors) + Cardinality(good)
      BY <1>9, <2>1, <2>2, DisjointSum
    <2> QED BY <1>6, <1>7, <1>14, <2>3
  <1>16. ASSUME NEW i \in now \ d.errors
         PROVE  \E x \in After(accepted', c.batch[i].data_id, c.since) :
                    x.timestamp_ms = c.batch[i].timestamp_ms
    <2>1. CASE i \in seen \ c.errors
      <3>1. c.batch[i].data_id \in Series
        BY <1>1, <2>1, BatchSeries DEF seen
      <3>2. PICK x \in After(accepted, c.batch[i].data_id, c.since) :
                x.timestamp_ms = c.batch[i].timestamp_ms
        BY <1>7, <2>1
      <3> QED BY <1>8, <3>1, <3>2 DEF After
    <2>2. CASE i \in good
      <3>1. PICK x \in NewOf(t, s) : x.timestamp_ms = c.batch[i].timestamp_ms BY <1>11, <2>2
      <3>2. c.batch[i].data_id = s BY <1>5, <2>2
      <3>3. x \in After(accepted', s, c.since) BY <1>10, <1>12 DEF After
      <3> QED BY <3>1, <3>2, <3>3
    <2> QED BY <1>14, <2>1, <2>2
  <1>17. d.accepted <= Taken(accepted', c.since)
    <2> DEFINE old == After(accepted, s, c.since)
               fresh == NewOf(t, s)
               k == Cardinality(good)
    <2>1. IsFiniteSet(old) BY FS_Subset DEF AcceptedOK, After
    <2>2. old \intersect fresh = {}
      <3> SUFFICES ASSUME NEW x \in old, x \in fresh PROVE FALSE OBVIOUS
      <3>1. x \in accepted[s] BY DEF After
      <3>2. x.seq_no <= clock BY <3>1 DEF AcceptedOK
      <3> QED BY <1>9, <1>12, <3>2
    <2>3. After(accepted', s, c.since) = old \union fresh BY <1>10, <1>12 DEF After
    <2> HIDE DEF old, fresh
    <2>4. /\ Cardinality(old) \in Nat
          /\ Cardinality(old \union fresh) = Cardinality(old) + Cardinality(fresh)
      BY <1>9, <2>1, <2>2, DisjointSum DEF fresh
    <2>5. k \in Nat /\ Cardinality(fresh) = k BY <1>9, FS_CardinalityType DEF fresh
    <2>6. Cardinality(old) + k <= Cardinality(After(accepted', s, c.since))
      BY <2>3, <2>4, <2>5
    <2>7. \A y \in Series : accepted[y] \subseteq accepted'[y] /\ IsFiniteSet(accepted'[y])
      BY <1>8 DEF AcceptedOK
    <2>8. /\ Taken(accepted, c.since) \in Nat /\ Taken(accepted', c.since) \in Nat
          /\ Taken(accepted, c.since) + k <= Taken(accepted', c.since)
      BY <1>1, <2>5, <2>6, <2>7, TakenRaise DEF old
    <2> HIDE DEF k
    <2>9. d.accepted = c.accepted + k BY <1>6 DEF k
    <2> QED BY <1>1, <1>7, <2>5, <2>8, <2>9
  <1>18. now = {i \in DOMAIN d.batch : d.batch[i].data_id \notin left \ {s}} BY <1>6 DEF now
  <1> QED BY <1>6, <1>13, <1>15, <1>16, <1>17, <1>18 DEF CountOK, d, left

\* The call of a thread that is not appending, or stands still, has counted what it had.
LEMMA AppendGoesOn ==
    ASSUME IsFiniteSet(Series), StorageInv, StorageInv', CallsOK, AppendsInv, [Next]_vars,
           NEW t \in Tasks, call'[t] = call[t],
           \/ task'[t] = task[t]
           \/ task[t].pc # "append" /\ task'[t].pc \notin {"idle", "append"}
    PROVE  AppendOK(t)'
  <1> SUFFICES ASSUME call[t].rpc = "append_batch"
               PROVE  /\ task'[t].pc # "idle"
                      /\ Len(call[t].batch) < FlushIndex
                      /\ task'[t].pc = "append" => task'[t].batch = call[t].batch
                      /\ CountOK(call[t], Left(t)', accepted')
    BY DEF AppendOK
  <1>1. /\ task[t].pc # "idle"
        /\ Len(call[t].batch) < FlushIndex
        /\ task[t].pc = "append" => task[t].batch = call[t].batch
        /\ CountOK(call[t], Left(t), accepted)
    BY DEF AppendsInv, AppendOK
  <1>2. Left(t)' = Left(t) BY DEF Left
  <1>3. \A s \in Series : accepted[s] \subseteq accepted'[s] /\ IsFiniteSet(accepted'[s])
    BY AcceptedStep DEF AppendsInv, AcceptedOK
  <1>4. call[t] \in Call BY DEF CallsOK
  <1>5. CountOK(call[t], Left(t), accepted') BY <1>1, <1>3, <1>4, CountGrows
  <1> QED BY <1>1, <1>2, <1>5

\* An append begins with nothing counted.
LEMMA AppendBegins ==
    ASSUME IsFiniteSet(Series), StorageInv, CallsOK, AppendsInv,
           NEW t \in Tasks, NEW request \in Requests, AppendBatch(t, request)
    PROVE  AppendOK(t)'
  <1> DEFINE batch == Converted(request)
             c == [NoCall EXCEPT !.rpc = "append_batch", !.batch = batch, !.since = clock]
             r == [IdleTask EXCEPT !.pc = "append", !.batch = batch,
                                   !.todo = {batch[i].data_id : i \in DOMAIN batch}]
  <1>1. /\ call' = [call EXCEPT ![t] = c] /\ task' = [task EXCEPT ![t] = r]
        /\ accepted' = accepted
    BY DEF AppendBatch, Called, BeginAppend, history
  <1>2. task \in [Actors -> Task] /\ t \in Actors /\ clock \in Nat
    BY DEF StorageInv, TypeOK, Actors
  <1>3. batch \in Seq(Sample) /\ batch # << >>
    BY RequestIsBatch, StorageAssumption DEF AppendBatch
  <1>4. /\ c.rpc = "append_batch" /\ c.batch = batch /\ c.since = clock
        /\ c.accepted = 0 /\ c.errors = {}
    BY DEF NoCall
  <1>5. /\ r.pc = "append" /\ r.batch = batch
        /\ r.todo = {batch[i].data_id : i \in DOMAIN batch}
    BY DEF IdleTask
  <1>6. Len(batch) < FlushIndex
    <2>1. Len(request) < FlushIndex /\ request \in Seq(ProtoSample) BY ServiceAssumption
    <2>2. DOMAIN batch = DOMAIN request BY DEF Converted
    <2>3. DOMAIN batch = 1 .. Len(batch) /\ DOMAIN request = 1 .. Len(request)
          /\ Len(batch) \in Nat /\ Len(request) \in Nat
      BY <1>3, <2>1
    <2> HIDE DEF batch
    <2>4. ASSUME NEW m \in Nat, NEW n \in Nat, 1 .. m = 1 .. n PROVE m <= n
      <3>1. CASE m = 0 BY <3>1
      <3>2. CASE m # 0
        <4>1. m \in 1 .. m BY <3>2
        <4>2. m \in 1 .. n BY <2>4, <4>1
        <4> QED BY <4>2
      <3> QED BY <3>1, <3>2
    <2>5. Len(batch) <= Len(request) BY <2>2, <2>3, <2>4
    <2> QED BY <2>1, <2>3, <2>5, ServiceAssumption
  <1> HIDE DEF c, r, batch
  <1>7. call'[t] = c /\ task'[t] = r BY <1>1, <1>2 DEF CallsOK
  <1>8. \A i \in DOMAIN batch : batch[i].data_id \in r.todo BY <1>5
  <1>9. 0 <= Taken(accepted, clock)
    <2>1. PICK i \in DOMAIN batch : TRUE
      <3>1. Len(batch) \in Nat /\ Len(batch) # 0 /\ DOMAIN batch = 1 .. Len(batch) BY <1>3
      <3>2. 1 \in 1 .. Len(batch) BY <3>1
      <3> QED BY <3>1, <3>2
    <2>2. PICK s \in Series : TRUE BY <1>3, <2>1, BatchSeries
    <2>3. IsFiniteSet(After(accepted, s, clock))
      BY FS_Subset DEF AppendsInv, AcceptedOK, After
    <2>4. Cardinality(After(accepted, s, clock)) \in Nat BY <2>3, FS_CardinalityType
    <2>5. Cardinality(After(accepted, s, clock)) + 0 <= Cardinality(After(accepted, s, clock))
      BY <2>4
    <2>6. \A y \in Series : accepted[y] \subseteq accepted[y] /\ IsFiniteSet(accepted[y])
      BY DEF AppendsInv, AcceptedOK
    <2>7. Taken(accepted, clock) \in Nat BY <1>2, <2>5, <2>6, TakenRaise
    <2> QED BY <2>7
  <1>10. CountOK(c, r.todo, accepted)
    <2>1. {i \in DOMAIN c.batch : c.batch[i].data_id \notin r.todo} = {} BY <1>4, <1>8
    <2>2. Cardinality({} \ c.errors) = 0 BY <1>4, FS_EmptySet
    <2> QED BY <1>4, <1>9, <2>1, <2>2 DEF CountOK
  <1> QED BY <1>1, <1>4, <1>5, <1>6, <1>7, <1>10 DEF AppendOK, Left

\* A thread that has nothing left to append in its batch counts it as it flushes or returns.
LEMMA AppendCounts ==
    ASSUME IsFiniteSet(Series), StorageInv, StorageInv', CallsOK, AppendsInv, [Next]_vars,
           NEW t \in Tasks, NEW s \in Series, AppendGroup(t, s), call[t].rpc = "append_batch"
    PROVE  /\ Counted(t, s).rpc = "append_batch" /\ Counted(t, s) \in Call
           /\ Counted(t, s).batch = call[t].batch /\ Counted(t, s).since = call[t].since
           /\ Len(call[t].batch) < FlushIndex
           /\ task'[t].pc = "append" => task'[t].batch = call[t].batch
           /\ CountOK(Counted(t, s), Left(t)', accepted')
           /\ Returns(t) \/ task'[t].pc # "idle"
  <1> DEFINE r == [task[t] EXCEPT !.todo = task[t].todo \ {s}]
  <1>1. /\ task \in [Actors -> Task] /\ t \in Actors /\ task[t] \in Task
        /\ task[t].pc = "append" /\ s \in task[t].todo
    BY DEF StorageInv, TypeOK, Actors, AppendGroup, At
  <1>2. /\ Len(call[t].batch) < FlushIndex
        /\ task[t].batch = call[t].batch
        /\ CountOK(call[t], task[t].todo, accepted)
    BY <1>1 DEF AppendsInv, AppendOK, Left
  <1>3. CountOK(Counted(t, s), task[t].todo \ {s}, accepted') BY <1>2, GroupCounted DEF AppendsInv
  <1>4. Counted(t, s) \in Call /\ Counted(t, s).rpc = "append_batch"
        /\ Counted(t, s).since = call[t].since
    BY CountedType
  <1>5. Counted(t, s).batch = call[t].batch BY DEF Counted, CallsOK, Call
  <1>6. PICK to_flush :
            task' = [task EXCEPT ![t] =
                       IF task[t].todo = {s} THEN Flushing(to_flush)
                       ELSE [task[t] EXCEPT !.todo = task[t].todo \ {s}, !.to_flush = to_flush]]
    BY DEF AppendGroup
  <1>7. CASE task[t].todo = {s}
    <2>1. task'[t] = Flushing(to_flush) BY <1>1, <1>6, <1>7
    <2>2. Returns(t) \/ task'[t].pc = "prepare" BY <2>1 DEF Flushing, Returns, IdleTask
    <2>3. task'[t].pc # "append" BY <2>2 DEF Returns, IdleTask
    <2>4. Left(t)' = task[t].todo \ {s} BY <1>7, <2>3 DEF Left
    <2> QED BY <1>2, <1>3, <1>4, <1>5, <2>2, <2>3, <2>4
  <1>8. CASE task[t].todo # {s}
    <2> DEFINE q == [task[t] EXCEPT !.todo = task[t].todo \ {s}, !.to_flush = to_flush]
    <2>1. task'[t] = q BY <1>1, <1>6, <1>8
    <2>2. q.pc = "append" /\ q.batch = task[t].batch /\ q.todo = task[t].todo \ {s}
      BY <1>1 DEF Task
    <2> HIDE DEF q
    <2>3. Left(t)' = task[t].todo \ {s} BY <2>1, <2>2 DEF Left
    <2> QED BY <1>2, <1>3, <1>4, <1>5, <2>1, <2>2, <2>3
  <1> QED BY <1>7, <1>8

\* Every step keeps the counts of the appends true.
LEMMA NextAppends ==
    ASSUME IsFiniteSet(Series), StorageInv, StorageInv', CallsOK, AppendsInv,
           [ServiceNext]_serviceVars
    PROVE  AppendsInv'
  <1>1. [Next]_vars BY ServiceStep
  <1>2. AcceptedOK' BY <1>1, AcceptedStep DEF AppendsInv
  <1>3. task \in [Actors -> Task] /\ Tasks \subseteq Actors BY DEF StorageInv, TypeOK, Actors
  <1>4. ASSUME NEW u \in Tasks, task'[u] = task[u], call'[u] = call[u] PROVE AppendOK(u)'
    BY <1>1, <1>4, AppendGoesOn
  <1>5. ASSUME NEW u \in Tasks, NEW c, call' = [call EXCEPT ![u] = c], c.rpc # "append_batch"
        PROVE  AppendOK(u)'
    BY <1>5 DEF CallsOK, AppendOK
  <1>6. ASSUME NEW u \in Tasks, NEW c, call' = [call EXCEPT ![u] = c],
               \A b \in Actors \ {u} : task'[b] = task[b], AppendOK(u)'
        PROVE  \A t \in Tasks : AppendOK(t)'
    <2>1. \A t \in Tasks \ {u} : call'[t] = call[t] /\ task'[t] = task[t]
      BY <1>3, <1>6 DEF CallsOK
    <2>2. \A t \in Tasks \ {u} : AppendOK(t)' BY <1>4, <2>1
    <2> QED BY <1>6, <2>2
  <1>7. NoCall.rpc # "append_batch" BY DEF NoCall
  <1>8. ASSUME NEW t \in Tasks, NEW s \in Series, NEW raw \in RawTypes, NEW limit \in Limits,
               \/ RegisterRefused(t, s, raw, limit)
               \/ \E ok \in BOOLEAN : RegisterSeries(t, s, raw, limit, ok)
        PROVE  \A u \in Tasks : AppendOK(u)'
    <2>1. task' = task /\ call' = call
      BY <1>8 DEF RegisterRefused, AnswerAtOnce, vars, RegisterSeries, Register
    <2> QED BY <1>4, <2>1
  <1>9. ASSUME NEW t \in Tasks, NEW ids, BeginFlush(t, ids),
               Called(t, [NoCall EXCEPT !.rpc = "flush", !.ids = ids, !.since = clock])
        PROVE  \A u \in Tasks : AppendOK(u)'
    <2> DEFINE c == [NoCall EXCEPT !.rpc = "flush", !.ids = ids, !.since = clock]
    <2>1. call' = [call EXCEPT ![t] = c] BY <1>9 DEF Called
    <2>2. \A b \in Actors \ {t} : task'[b] = task[b] BY <1>3, <1>9 DEF BeginFlush
    <2>3. c.rpc = "flush" BY DEF NoCall
    <2> HIDE DEF c
    <2>4. AppendOK(t)' BY <2>1, <2>3, <1>5
    <2> QED BY <1>6, <2>1, <2>2, <2>4
  <1>10. ASSUME NEW t \in Tasks, NEW s \in Series, FlushMissing(t, s) \/ FlushSeries(t, s)
         PROVE  \A u \in Tasks : AppendOK(u)'
    <2>1. CASE FlushMissing(t, s) BY <1>4, <2>1 DEF FlushMissing, AnswerAtOnce, vars
    <2>2. CASE FlushSeries(t, s) BY <1>9, <2>2 DEF FlushSeries
    <2> QED BY <1>10, <2>1, <2>2
  <1>11. ASSUME NEW t \in Tasks, FlushNothing(t) \/ FlushAll(t)
         PROVE  \A u \in Tasks : AppendOK(u)'
    <2>1. CASE FlushNothing(t) BY <1>4, <2>1 DEF FlushNothing, AnswerAtOnce, vars
    <2>2. CASE FlushAll(t) BY <1>9, <2>2 DEF FlushAll
    <2> QED BY <1>11, <2>1, <2>2
  <1>12. ASSUME NEW t \in Tasks, NEW request \in Requests,
                AppendRefused(t, request) \/ AppendNothing(t, request) \/ AppendBatch(t, request)
         PROVE  \A u \in Tasks : AppendOK(u)'
    <2>1. CASE AppendRefused(t, request) \/ AppendNothing(t, request)
      BY <1>4, <2>1 DEF AppendRefused, AppendNothing, AnswerAtOnce, vars
    <2>2. CASE AppendBatch(t, request)
      <3>1. PICK c : call' = [call EXCEPT ![t] = c] BY <2>2 DEF AppendBatch, Called
      <3>2. \A b \in Actors \ {t} : task'[b] = task[b]
        BY <1>3, <2>2 DEF AppendBatch, BeginAppend
      <3>3. AppendOK(t)' BY <2>2, AppendBegins
      <3> QED BY <1>6, <3>1, <3>2, <3>3
    <2> QED BY <1>12, <2>1, <2>2
  <1>13. ASSUME NEW t \in Tasks, AppendEntries(t) PROVE \A u \in Tasks : AppendOK(u)'
    <2>1. PICK s \in Series : AppendGroup(t, s) /\ Step(t, Counted(t, s))
      BY <1>13 DEF AppendEntries
    <2>2. PICK c \in {Counted(t, s), NoCall} :
              call' = [call EXCEPT ![t] = c] /\ (c = Counted(t, s) \/ c = NoCall)
                                             /\ (Returns(t) => c = NoCall)
      BY <2>1 DEF Step, Called
    <2>3. \A b \in Actors \ {t} : task'[b] = task[b] BY <1>3, <2>1, OthersStay DEF AppendStep
    <2>4. CASE c = NoCall BY <1>5, <1>6, <1>7, <2>2, <2>3, <2>4
    <2>5. CASE c = Counted(t, s) /\ ~Returns(t)
      <3>1. CASE call[t].rpc # "append_batch"
        <4>1. c.rpc # "append_batch" BY <2>1, <2>5, <3>1, CountedType
        <4> QED BY <1>5, <1>6, <2>2, <2>3, <4>1
      <3>2. CASE call[t].rpc = "append_batch"
        <4>1. /\ c.batch = call[t].batch
              /\ Len(call[t].batch) < FlushIndex
              /\ task'[t].pc = "append" => task'[t].batch = call[t].batch
              /\ CountOK(c, Left(t)', accepted')
              /\ task'[t].pc # "idle"
          BY <1>1, <2>1, <2>5, <3>2, AppendCounts
        <4>2. call'[t] = c BY <2>2 DEF CallsOK
        <4>3. AppendOK(t)' BY <4>1, <4>2 DEF AppendOK
        <4> QED BY <1>6, <2>2, <2>3, <4>3
      <3> QED BY <3>1, <3>2
    <2> QED BY <2>2, <2>4, <2>5
  <1>14. ASSUME NEW t \in Tasks, Continue(t) PROVE \A u \in Tasks : AppendOK(u)'
    <2>1. /\ FlushStep(t) \/ EvictStep(t) \/ EvictError(t)
          /\ Step(t, call[t])
      BY <1>14 DEF Continue
    <2>2. \A b \in Actors \ {t} : task'[b] = task[b] BY <1>3, <2>1, OthersStay
    <2>3. /\ task[t].pc \notin {"idle", "append"}
          /\ Returns(t) \/ task'[t].pc \notin {"idle", "append"}
      BY <2>1, CarriesOnOrReturns
    <2>4. CASE Returns(t)
      <3>1. call' = [call EXCEPT ![t] = NoCall] BY <2>1, <2>4 DEF Step
      <3> QED BY <1>5, <1>6, <1>7, <2>2, <3>1
    <2>5. CASE ~Returns(t)
      <3>1. call' = [call EXCEPT ![t] = call[t]] BY <2>1, <2>5 DEF Step, Called
      <3>2. call'[t] = call[t] BY <3>1 DEF CallsOK
      <3>3. AppendOK(t)' BY <1>1, <2>3, <2>5, <3>2, AppendGoesOn
      <3> QED BY <1>6, <2>2, <3>1, <3>3
    <2> QED BY <2>4, <2>5
  <1>15. ASSUME \/ EvictStep(Opener) /\ Silent
                \/ Open /\ Silent
                \/ LoseManifest /\ Silent
                \/ \E f \in files : HeaderUnreadable(f) /\ Silent
         PROVE  \A u \in Tasks : AppendOK(u)'
    <2>1. call' = call BY <1>15 DEF Silent
    <2>2. \A u \in Tasks : u \in Actors \ {Opener} BY StorageAssumption DEF Actors
    <2>3. \A u \in Tasks : task'[u] = task[u]
      <3>1. CASE EvictStep(Opener) BY <2>2, <3>1, OthersStay DEF Actors
      <3>2. CASE Open BY <1>3, <2>2, <3>2 DEF Open, Return
      <3>3. CASE LoseManifest \/ \E f \in files : HeaderUnreadable(f)
        BY <3>3 DEF LoseManifest, HeaderUnreadable
      <3> QED BY <1>15, <3>1, <3>2, <3>3
    <2> QED BY <1>4, <2>1, <2>3
  <1>16. CASE Killed
    <2>1. \A u \in Tasks : call'[u] = NoCall BY <1>16 DEF Killed
    <2> QED BY <1>2, <1>7, <2>1 DEF AppendsInv, AppendOK
  <1>17. CASE UNCHANGED serviceVars BY <1>2, <1>4, <1>17 DEF serviceVars, vars, AppendsInv
  <1> QED BY <1>2, <1>8, <1>10, <1>11, <1>12, <1>13, <1>14, <1>15, <1>16, <1>17
      DEF ServiceNext, AppendsInv

\* Nothing has been appended before the engine is first opened.
LEMMA InitAppends == ServiceInit => AppendsInv
  <1> SUFFICES ASSUME ServiceInit PROVE AppendsInv OBVIOUS
  <1>1. \A s \in Series : accepted[s] = {} BY DEF ServiceInit, Init
  <1>2. \A t \in Tasks : call[t].rpc # "append_batch" BY DEF ServiceInit, NoCall
  <1> QED BY <1>1, <1>2, FS_EmptySet DEF AppendsInv, AcceptedOK, AppendOK

\* What a call says of a batch that it has counted to the end, with or without the error of
\* a flush.
Answered(answer, batch, since, acc) ==
    /\ \A i \in DOMAIN batch \ answer.errors :
           \E x \in After(acc, batch[i].data_id, since) : x.timestamp_ms = batch[i].timestamp_ms
    /\ answer.accepted <= Taken(acc, since)
    /\ answer.accepted + answer.rejected =
           Len(batch) + IF FlushIndex \in answer.errors THEN 1 ELSE 0

\* An append's answer is true to its batch.
LEMMA AnswerCounts ==
    ASSUME NEW c \in Call, NEW acc, CountOK(c, {}, acc), Len(c.batch) < FlushIndex,
           NEW t \in Tasks
    PROVE  Answered(AppendAnswer(t, c), c.batch, c.since, acc)
  <1> DEFINE e == c.errors \union (IF Succeeds(t) THEN {} ELSE {FlushIndex})
             answer == AppendAnswer(t, c)
             all == DOMAIN c.batch
  <1>1. answer.accepted = c.accepted /\ answer.rejected = Cardinality(e) /\ answer.errors = e
    BY DEF AppendAnswer, Response
  <1>2. /\ c.errors \subseteq all /\ c.accepted = Cardinality(all \ c.errors)
        /\ \A i \in all \ c.errors :
               \E x \in After(acc, c.batch[i].data_id, c.since) :
                   x.timestamp_ms = c.batch[i].timestamp_ms
        /\ c.accepted <= Taken(acc, c.since)
    BY DEF CountOK
  <1>3. all = 1 .. Len(c.batch) /\ Len(c.batch) \in Nat BY DEF Call
  <1> HIDE DEF answer, all
  <1>4. IsFiniteSet(all) /\ Cardinality(all) = Len(c.batch)
    <2>1. IsFiniteSet(1 .. Len(c.batch)) /\ Cardinality(1 .. Len(c.batch)) = Len(c.batch)
      <3>1. 0 \in Int /\ 1 \in Int /\ Len(c.batch) \in Int BY <1>3
      <3>2. /\ IsFiniteSet(1 .. Len(c.batch))
            /\ Cardinality(1 .. Len(c.batch)) =
                   IF 1 > Len(c.batch) THEN 0 ELSE Len(c.batch) - 1 + 1
        BY <3>1, FS_Interval
      <3> QED BY <1>3, <3>2
    <2> QED BY <1>3, <2>1
  <1>5. IsFiniteSet(c.errors) /\ IsFiniteSet(all \ c.errors) BY <1>2, <1>4, FS_Subset
  <1>6. /\ Cardinality(all \ c.errors) \in Nat /\ Cardinality(c.errors) \in Nat
        /\ Cardinality(all \ c.errors) + Cardinality(c.errors) = Len(c.batch)
    <2>1. (all \ c.errors) \intersect c.errors = {} /\ (all \ c.errors) \union c.errors = all
      BY <1>2
    <2> QED BY <1>4, <1>5, <2>1, DisjointSum
  <1>7. FlushIndex \notin c.errors
    <2>1. FlushIndex \notin 1 .. Len(c.batch) BY <1>3, ServiceAssumption
    <2> QED BY <1>2, <1>3, <2>1
  <1>8. Cardinality(e) = Cardinality(c.errors) + IF FlushIndex \in e THEN 1 ELSE 0
    <2>1. CASE Succeeds(t) BY <1>6, <1>7, <2>1
    <2>2. CASE ~Succeeds(t)
      <3>1. e = c.errors \union {FlushIndex} /\ FlushIndex \in e BY <2>2
      <3>2. Cardinality(c.errors \union {FlushIndex}) = Cardinality(c.errors) + 1
        BY <1>5, <1>7, FS_AddElement
      <3> QED BY <3>1, <3>2
    <2> QED BY <2>1, <2>2
  <1>9. c.errors \subseteq e OBVIOUS
  <1> HIDE DEF e
  <1>10. answer.accepted + answer.rejected =
             Len(c.batch) + IF FlushIndex \in answer.errors THEN 1 ELSE 0
    <2>1. PICK n \in {0, 1} : n = IF FlushIndex \in e THEN 1 ELSE 0 OBVIOUS
    <2>2. /\ answer.accepted = Cardinality(all \ c.errors)
          /\ answer.rejected = Cardinality(c.errors) + n
      BY <1>1, <1>2, <1>8, <2>1
    <2>3. n \in Nat OBVIOUS
    <2>4. answer.accepted + answer.rejected = Len(c.batch) + n BY ONLY <1>6, <2>2, <2>3
    <2> QED BY <1>1, <2>1, <2>4
  <1>11. \A i \in all \ answer.errors :
             \E x \in After(acc, c.batch[i].data_id, c.since) :
                 x.timestamp_ms = c.batch[i].timestamp_ms
    BY <1>1, <1>2, <1>9
  <1> QED BY <1>1, <1>2, <1>10, <1>11 DEF Answered, answer, all

\* The answers to appends are true, whatever other clients do and whichever calls of the
\* file system fail: every sample of the batch that the answer does not name has been
\* written, no more are counted as accepted than were, and the counts add up.
THEOREM AppendsAnswered == IsFiniteSet(Series) /\ ServiceSpec => AppendAnswered
  <1> SUFFICES ASSUME IsFiniteSet(Series) PROVE ServiceSpec => AppendAnswered OBVIOUS
  <1> DEFINE Goal(answer) ==
                 LET batch == call[answer.to].batch
                     new(s) == {x \in accepted'[s] : x.seq_no > call[answer.to].since}
                 IN  /\ \A i \in DOMAIN batch \ answer.errors :
                            \E x \in new(batch[i].data_id) : x.timestamp_ms = batch[i].timestamp_ms
                     /\ answer.accepted <= MapThenSumSet(LAMBDA s : Cardinality(new(s)), Series)
                     /\ answer.accepted + answer.rejected =
                            Len(batch) + IF FlushIndex \in answer.errors THEN 1 ELSE 0
             AllAnswered ==
                 \A answer \in replies' : call[answer.to].rpc = "append_batch" => Goal(answer)
  <1>1. ASSUME StorageInv, StorageInv', CallsOK, AppendsInv, ServiceNext,
               NEW answer \in replies', call[answer.to].rpc = "append_batch"
        PROVE  Answered(answer, call[answer.to].batch, call[answer.to].since, accepted')
    <2> DEFINE t == answer.to
    <2>1. /\ t \in Tasks
          /\ \/ task[t].pc = "append" /\ AppendEntries(t)
             \/ Continue(t)
      BY <1>1, AnswersTasks DEF AppendsInv, AppendOK
    <2> HIDE DEF t
    <2>2. [Next]_vars BY <1>1, ServiceStep
    <2>3. call[t].rpc = "append_batch" BY <1>1 DEF t
    <2>4. ASSUME AppendEntries(t) PROVE Answered(answer, call[t].batch, call[t].since, accepted')
      <3>1. PICK s \in Series : AppendGroup(t, s) /\ Step(t, Counted(t, s))
        BY <2>4 DEF AppendEntries
      <3> DEFINE c == Counted(t, s)
      <3>2. /\ c.rpc = "append_batch" /\ c \in Call
            /\ c.batch = call[t].batch /\ c.since = call[t].since
            /\ Len(call[t].batch) < FlushIndex
            /\ CountOK(c, Left(t)', accepted')
        BY <1>1, <2>1, <2>2, <2>3, <3>1, AppendCounts
      <3>3. Returns(t) /\ answer = AppendAnswer(t, c)
        BY <1>1, <3>1, <3>2 DEF Step, Called
      <3> HIDE DEF c
      <3>4. Left(t)' = {} BY <3>3 DEF Returns, Left, IdleTask
      <3>5. CountOK(c, {}, accepted') BY <3>2, <3>4
      <3>6. Answered(AppendAnswer(t, c), c.batch, c.since, accepted')
        BY <2>1, <3>2, <3>5, AnswerCounts
      <3> QED BY <3>2, <3>3, <3>6
    <2>5. ASSUME Continue(t) PROVE Answered(answer, call[t].batch, call[t].since, accepted')
      <3>1. /\ FlushStep(t) \/ EvictStep(t) \/ EvictError(t)
            /\ Step(t, call[t])
        BY <2>5 DEF Continue
      <3>2. Returns(t) /\ answer = AppendAnswer(t, call[t])
        BY <1>1, <2>3, <3>1 DEF Step, Called
      <3>3. task[t].pc \notin {"idle", "append"} BY <1>1, <2>1, <3>1, CarriesOnOrReturns
      <3>4. /\ Len(call[t].batch) < FlushIndex
            /\ CountOK(call[t], {}, accepted)
        BY <1>1, <2>1, <2>3, <3>3 DEF AppendsInv, AppendOK, Left
      <3>5. call[t] \in Call BY <1>1, <2>1 DEF CallsOK
      <3>6. \A s \in Series : accepted[s] \subseteq accepted'[s] /\ IsFiniteSet(accepted'[s])
        BY <1>1, <2>2, AcceptedStep DEF AppendsInv, AcceptedOK
      <3>7. CountOK(call[t], {}, accepted') BY <3>4, <3>5, <3>6, CountGrows
      <3>8. Answered(AppendAnswer(t, call[t]), call[t].batch, call[t].since, accepted')
        BY <2>1, <3>4, <3>5, <3>7, AnswerCounts
      <3> QED BY <3>2, <3>8
    <2> QED BY <2>1, <2>4, <2>5 DEF t
  <1>2. ASSUME NEW answer
        PROVE  Answered(answer, call[answer.to].batch, call[answer.to].since, accepted')
                   => Goal(answer)
    BY DEF Answered, After, Taken
  <1>3. ASSUME StorageInv, StorageInv', CallsOK, AppendsInv, ServiceNext PROVE AllAnswered
    BY <1>1, <1>2, <1>3
  <1>4. StorageInv /\ StorageInv' /\ CallsInv /\ AppendsInv /\ [ServiceNext]_serviceVars
            => [AllAnswered]_serviceVars
    BY <1>3 DEF CallsInv
  <1>5. StorageInv /\ StorageInv' /\ IdsInv /\ OneType /\ HandoverInv /\ CallsInv
        /\ [ServiceNext]_serviceVars => CallsInv'
    BY NextCalls
  <1>6. StorageInv /\ StorageInv' /\ CallsInv /\ AppendsInv /\ [ServiceNext]_serviceVars
            => AppendsInv'
    BY NextAppends DEF CallsInv
  <1>7. ServiceSpec => []StorageInv /\ []IdsInv /\ []OneType /\ []HandoverInv
    BY ServiceImplementsStorage, StorageInvariant, IdsInvariant, TypesAgree, HandoverInvariant, PTL
  <1> QED BY <1>4, <1>5, <1>6, <1>7, InitCalls, InitAppends, PTL DEF ServiceSpec, AppendAnswered

=============================================================================
