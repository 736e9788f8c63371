------------------------------- MODULE Service -------------------------------
(***************************************************************************)
(* The ingest RPCs as their clients see them (transport/grpc/server.rs and *)
(* convert.rs, and the results of the engine's calls): which requests are  *)
(* refused before the engine acts on them, and what each call answers when *)
(* it or the flush that it has started fails.  The engine is Storage.      *)
(***************************************************************************)
EXTENDS Storage

CONSTANTS
    Requests,  \* the batches clients may send; a protobuf sample need not have a value
    RawTypes,  \* the series types clients may send
    FlushIndex \* usize::MAX as u32, where the error of a flush is reported

ProtoSample == [data_id : Series, timestamp_ms : Timestamps, value : SeriesTypes \union {None}]

Complete(request) == \A i \in DOMAIN request : request[i].value # None

\* proto_sample_to_core, of a whole batch.
Converted(request) ==
    [i \in DOMAIN request |->
        [data_id |-> request[i].data_id, timestamp_ms |-> request[i].timestamp_ms,
         series_type |-> request[i].value]]

\* What clients send is what Storage is told that they send.
ASSUME ServiceAssumption ==
    /\ Requests \subseteq Seq(ProtoSample)
    /\ Batches = {Converted(r) : r \in {q \in Requests : Complete(q) /\ q # << >>}}
    /\ FlushIndex \in Nat /\ \A r \in Requests : Len(r) < FlushIndex

VARIABLES
    call, \* what the handler of a task holds while the engine works for it
    replies \* the answers that the last step has sent

serviceVars == <<vars, call, replies>>

\* batch, and since, the number of samples sent before it, are history.
NoCall == [rpc |-> "none", ids |-> {}, batch |-> << >>, since |-> 0, accepted |-> 0, errors |-> {}]

\* error_to_status
StatusOf(error) ==
    IF error \in {"SeriesExists", "Proto", "Config"} THEN "invalid_argument"
    ELSE IF error = "SeriesNotFound" THEN "not_found"
    ELSE "internal"

\* A response has fields of its own for each RPC; here they are together.
Response(t, taken, errors, flushed) ==
    [to |-> t, code |-> "ok", accepted |-> taken, rejected |-> Cardinality(errors),
     errors |-> errors, flushed |-> flushed]
Refusal(t, error) == [Response(t, 0, {}, 0) EXCEPT !.code = StatusOf(error)]

-----------------------------------------------------------------------------
(* Calls.                                                                  *)

Listening(t) == status = "serving" /\ At(t, "idle")

\* A call that ends as it begins.
AnswerAtOnce(t, answer) == Listening(t) /\ replies' = {answer} /\ UNCHANGED <<vars, call>>

Called(t, c) == call' = [call EXCEPT ![t] = c] /\ replies' = {}

\* One sample without a value refuses the whole batch.
AppendRefused(t, request) == ~Complete(request) /\ AnswerAtOnce(t, Refusal(t, "Proto"))

AppendNothing(t, request) == request = << >> /\ AnswerAtOnce(t, Response(t, 0, {}, 0))

AppendBatch(t, request) ==
    /\ Complete(request) /\ request # << >>
    /\ BeginAppend(t, Converted(request))
    /\ Called(t, [NoCall EXCEPT !.rpc = "append_batch", !.batch = Converted(request),
                                !.since = clock])

FlushMissing(t, s) == s \notin series /\ AnswerAtOnce(t, Refusal(t, "SeriesNotFound"))

FlushSeries(t, s) ==
    /\ BeginFlush(t, {s})
    /\ Called(t, [NoCall EXCEPT !.rpc = "flush", !.ids = {s}, !.since = clock])

FlushNothing(t) == series = {} /\ AnswerAtOnce(t, Response(t, 0, {}, 0))

FlushAll(t) ==
    /\ series # {}
    /\ BeginFlush(t, series)
    /\ Called(t, [NoCall EXCEPT !.rpc = "flush", !.ids = series, !.since = clock])

\* proto_series_type_to_core
KnownType(raw) == raw \in SeriesTypes

\* register_series takes the write lock, and that is all it holds: it is one step.  What
\* cannot be converted is refused before.
RegisterRefused(t, s, raw, limit) ==
    \/ ~KnownType(raw) /\ AnswerAtOnce(t, Refusal(t, "Proto"))
    \/ /\ KnownType(raw) /\ \A u \in Tasks : ~At(u, "append")
       /\ \/ ~CanRegister(s) /\ AnswerAtOnce(t, Refusal(t, "SeriesExists"))
          \/ CanRegister(s) /\ ~ValidLimit(Clamp(limit)) /\ AnswerAtOnce(t, Refusal(t, "Config"))

RegisterSeries(t, s, raw, limit, ok) ==
    /\ KnownType(raw) /\ At(t, "idle")
    /\ Register(s, raw, limit, ok)
    /\ replies' = {IF ok THEN Response(t, 0, {}, 0) ELSE Refusal(t, "Io")}
    /\ UNCHANGED call

-----------------------------------------------------------------------------
(* Answers.                                                                *)

Rejected_Mutant(t, s) ==
    {i \in DOMAIN call[t].batch : /\ call[t].batch[i].data_id = s /\ s \in series
                                  /\ ~Accepts(call[t].batch[i])}

\* append_batch_detailed: the entries of one series that are rejected.
Rejected(t, s) ==
    {i \in DOMAIN call[t].batch : call[t].batch[i].data_id = s /\ ~Accepts(call[t].batch[i])}

Entries(t, s) == {i \in DOMAIN call[t].batch : call[t].batch[i].data_id = s}

\* The call of t with the entries of one more series counted.
Counted(t, s) ==
    [call[t] EXCEPT !.accepted = @ + Cardinality(Entries(t, s) \ Rejected(t, s)),
                    !.errors = @ \union Rejected(t, s)]

Returns(t) == task'[t] = IdleTask

Succeeds_Mutant(t) == task[t].pc # "commit"

\* A call of the engine that returns at one of these points has nothing more to do;
\* at any other it returns because a call to the file system has failed.
Succeeds(t) == task[t].pc \in {"append", "prepare", "evict"}

\* The number of series that the flush of a call has written.
Flushed(t) == Cardinality(Pending(task[t]))

\* The answer of an append does not fail with its flush: it counts one more rejection.
AppendAnswer(t, c) ==
    Response(t, c.accepted, c.errors \union (IF Succeeds(t) THEN {} ELSE {FlushIndex}), 0)

FlushAnswer(t) == IF Succeeds(t) THEN Response(t, 0, {}, Flushed(t)) ELSE Refusal(t, "Io")

\* A step of the engine for t, and its answer if it was the last one.
Step(t, c) ==
    IF Returns(t)
    THEN /\ call' = [call EXCEPT ![t] = NoCall]
         /\ replies' = {IF c.rpc = "append_batch" THEN AppendAnswer(t, c) ELSE FlushAnswer(t)}
    ELSE Called(t, c)

AppendEntries(t) == \E s \in Series : AppendGroup(t, s) /\ Step(t, Counted(t, s))
Continue(t) == (FlushStep(t) \/ EvictStep(t) \/ EvictError(t)) /\ Step(t, call[t])

\* Steps that no call has part in; a crash answers nobody.
Silent == replies' = {} /\ UNCHANGED call
Killed == Crash /\ call' = [t \in Tasks |-> NoCall] /\ replies' = {}

ServiceInit == Init /\ call = [t \in Tasks |-> NoCall] /\ replies = {}

ServiceNext ==
    \/ \E t \in Tasks :
        \/ \E request \in Requests :
            AppendRefused(t, request) \/ AppendNothing(t, request) \/ AppendBatch(t, request)
        \/ FlushNothing(t) \/ FlushAll(t)
        \/ \E s \in Series :
            \/ FlushMissing(t, s) \/ FlushSeries(t, s)
            \/ \E raw \in RawTypes, limit \in Limits :
                \/ RegisterRefused(t, s, raw, limit)
                \/ \E ok \in BOOLEAN : RegisterSeries(t, s, raw, limit, ok)
        \/ AppendEntries(t) \/ Continue(t)
    \/ EvictStep(Opener) /\ Silent
    \/ Open /\ Silent
    \/ LoseManifest /\ Silent
    \/ \E f \in files : HeaderUnreadable(f) /\ Silent
    \/ Killed

ServiceSpec == ServiceInit /\ [][ServiceNext]_serviceVars

-----------------------------------------------------------------------------
(* Properties.                                                             *)

FlushFailed(answer) == answer.code = "internal" \/ FlushIndex \in answer.errors

\* The errors of append_batch are true to the batch: every sample that they do not
\* name has been written, no more samples are said to be accepted than were, and
\* the counts add up to the batch, with one rejection too many if and only if the
\* flush failed, although every sample it lost had been accepted.
AppendAnswered ==
    [][\A answer \in replies' : call[answer.to].rpc = "append_batch" =>
           LET batch == call[answer.to].batch
               new(s) == {x \in accepted'[s] : x.seq_no > call[answer.to].since}
           IN  /\ \A i \in DOMAIN batch \ answer.errors :
                      \E x \in new(batch[i].data_id) : x.timestamp_ms = batch[i].timestamp_ms
               /\ answer.accepted <= MapThenSumSet(LAMBDA s : Cardinality(new(s)), Series)
               /\ answer.accepted + answer.rejected =
                      Len(batch) + IF FlushIndex \in answer.errors THEN 1 ELSE 0]_serviceVars

\* While the engine serves, whatever a flush loses it reports to the client whose
\* call it was (which need not be the one that wrote the samples).
LossReported ==
    [][status = "serving" /\ failed' # failed =>
           \E answer \in replies' :
               /\ FlushFailed(answer)
               /\ \A s \in Series :
                      failed'[s] \ failed[s] \subseteq task[answer.to].pending[s].samples]_serviceVars

\* A flush_series or flush_all that answers ok has put on disk what had been
\* accepted for its series before it was called, or a later write of the same
\* timestamp, unless a flush of another client was already under way with it.
FlushDurable ==
    [][\A answer \in replies' : answer.code = "ok" =>
           \A s \in call[answer.to].ids : \A x \in accepted[s] :
               x.seq_no <= call[answer.to].since =>
                   \E y \in (UNION {task[t].pending[s].samples : t \in Tasks \ {answer.to}})
                            \union OnDisk(s) \union evicted[s] \union restarted[s] \union failed[s] :
                       y.timestamp_ms = x.timestamp_ms /\ y.seq_no >= x.seq_no]_serviceVars

=============================================================================
