-------------------------- MODULE AnswerJob_proofs --------------------------
(***************************************************************************)
(* Theorems of Ask AI, for any number of questions, conversations, keys,   *)
(* sessions, workers, attempts and manual retries.                         *)
(***************************************************************************)
EXTENDS AnswerJob, FiniteSetTheorems, WellFoundedInduction, TLAPS

-----------------------------------------------------------------------------
(* The inductive invariant.                                                *)

Rounds == 0 .. MaxManualRetries

\* Where a coroutine may still write stage rows and send requests.
PastBoundary == {"begin_embedding", "embed", "embedding", "end_embedding",
                 "begin_retrieval", "retrieve", "end_retrieval", "prepare",
                 "begin_judgment", "judge", "judging", "end_judgment"}

Gone(j) == job[j].status = "deleted"

Busy(t) == task[t].pc # "idle"

\* Nobody claimed the job of t after t did, nor was it retried or deleted since.
Newest(t) ==
    /\ Busy(t) /\ ~Gone(task[t].job)
    /\ task[t].run[1] = job[task[t].job].manual_retry_count
    /\ task[t].run[2] = job[task[t].job].attempt_count

\* Claims are made of jobs that were asked, and the row has counted them all.
RunsBehind ==
    \A t \in Tasks :
        Busy(t) =>
            /\ job[task[t].job].status # "absent"
            /\ \/ Gone(task[t].job)
               \/ task[t].run[1] < job[task[t].job].manual_retry_count
               \/ /\ task[t].run[1] = job[task[t].job].manual_retry_count
                  /\ task[t].run[2] <= job[task[t].job].attempt_count

\* The pair of counters stands for the random claim token.
RunsDistinct ==
    \A t, u \in Tasks :
        Busy(t) /\ Busy(u) /\ task[t].job = task[u].job
        /\ task[t].run[1] = task[u].run[1] /\ task[t].run[2] = task[u].run[2]
            => t = u

\* The boundary ends the automatic attempts of its round: the one coroutine that
\* passed it stays the newest claim until the owner retries.
PastIsNewest ==
    \A t \in Tasks :
        task[t].pc \in PastBoundary /\ ~Gone(task[t].job)
        /\ task[t].run[1] = job[task[t].job].manual_retry_count
            => Newest(t) /\ job[task[t].job].provider_call_started

ReadUnmarked ==
    \A t \in Tasks :
        task[t].pc \in {"read", "boundary"} /\ Newest(t)
            => ~job[task[t].job].provider_call_started

OnePast ==
    \A t, u \in Tasks :
        task[t].pc \in PastBoundary /\ task[u].pc \in PastBoundary
        /\ task[t].job = task[u].job /\ task[t].run[1] = task[u].run[1]
            => t = u

RowsUnmarked ==
    \A j \in Jobs :
        /\ job[j].status \in {"absent", "queued"} => ~job[j].provider_call_started
        /\ job[j].status = "absent" => job[j].manual_retry_count = 0

OneRunner == PastIsNewest /\ ReadUnmarked /\ OnePast /\ RowsUnmarked

\* Requests and stage rows belong to rounds that were started, and a request has
\* its row.
CallsRecorded ==
    \A j \in Jobs :
        ~Gone(j) =>
            /\ \A r \in Rounds : r > job[j].manual_retry_count =>
                   /\ \A s \in Remote : calls[j][r][s] = 0
                   /\ \A s \in Stage : stage[j][r][s] = "none"
            /\ \A s \in Stage : Rows(j)[s] # "none" => job[j].provider_call_started
            /\ \A s \in Asked(j) : Rows(j)[s] # "none"

\* A coroutine knows whether the request of its stage left.
SendsOnce ==
    /\ \A j \in Jobs, r \in Rounds, s \in Remote : calls[j][r][s] <= 1
    /\ \A t \in Tasks :
           LET n == calls[task[t].job][task[t].run[1]] IN
           /\ task[t].pc = "embed" => n["query_embedding"] = 0
           /\ task[t].pc = "judge" => n["source_judgment"] = 0
           /\ task[t].pc \in {"embed", "embedding", "end_embedding"}
                  /\ n["query_embedding"] > 0 => task[t].sent
           /\ task[t].pc \in {"judge", "judging", "end_judgment"}
                  /\ n["source_judgment"] > 0 => task[t].sent

\* The stage rows of the round, as the newest claim finds them at each point of
\* _source_first: e the row of the embedding, s that of the judgment.
Fits(p, result, e, s, context) ==
    /\ p = "begin_embedding" => e = "none" /\ s = "none"
    /\ p \in {"embed", "embedding", "end_embedding"} => e = "open" /\ s = "none"
    /\ p \in {"begin_retrieval", "retrieve", "end_retrieval", "prepare",
              "begin_judgment"} => e \in {"ok", "fallback"} /\ s = "none"
    /\ p \in {"judge", "judging", "end_judgment"} =>
           e \in {"ok", "fallback"} /\ s = "open"
    /\ p = "complete" =>
           /\ e # "open" /\ s \in {"none", "ok"} /\ result # "none"
           /\ result = "related_knowledge" => s = "ok"
           /\ result = "clarification_needed" => s = "ok" \/ context = "unresolved"
    /\ p \in PastBoundary \cup {"boundary"} => context # "unresolved"

Found(t) ==
    Fits(task[t].pc, task[t].result, Rows(task[t].job)["query_embedding"],
         Rows(task[t].job)["source_judgment"], job[task[t].job].context)

\* What a stage that is over came to.
Outcome(e) ==
    /\ e.pc = "end_embedding" =>
           /\ e.row \in {"ok", "fallback", "error"}
           /\ e.then = "go" => e.row \in {"ok", "fallback"}
    /\ e.pc = "end_retrieval" =>
           /\ e.row \in {"ok", "error"}
           /\ e.then = "go" => e.result \in {"no_match", "related_knowledge"}
    /\ e.pc = "end_judgment" =>
           /\ e.row \in {"ok", "error"}
           /\ e.then = "go" => e.row = "ok" /\ e.result # "none"

Unasked(j) ==
    ~Gone(j) /\ job[j].context = "unresolved" =>
        \A r \in Rounds, s \in Stage : stage[j][r][s] = "none"

StagesFound ==
    /\ \A t \in Tasks : (Newest(t) => Found(t)) /\ Outcome(task[t])
    /\ \A j \in Jobs : Unasked(j)

\* A request whose usage is not known is an open row or a mark, and only a mark
\* where the round has ended.
Priced(j) ==
    \A s \in Asked(j) :
        \/ Rows(j)[s] = "ok"
        \/ Rows(j)[s] = "open" /\ job[j].status \notin {"failed", "completed"}
        \/ job[j].attempt_cost_unknown

Watched(t) ==
    task[t].pc \in PastBoundary /\ Newest(t) =>
        /\ job[task[t].job].status # "completed"
        /\ job[task[t].job].status = "failed" => job[task[t].job].attempt_cost_unknown

CostMarked ==
    /\ \A j \in Jobs : ~Gone(j) => Priced(j)
    /\ \A t \in Tasks : Watched(t)

\* References belong to completed answers that have some.
Referenced ==
    \A j \in Jobs :
        evidence[j] = IF job[j].status = "completed"
                         /\ job[j].result_kind = "related_knowledge"
                      THEN [round |-> job[j].manual_retry_count, corpus |-> job[j].corpus]
                      ELSE NoEvidence

-----------------------------------------------------------------------------
(* Types.                                                                  *)

\* TypeOK, with what a coroutine and a behaviour carry.
Types ==
    /\ TypeOK
    /\ world \in Worlds
    /\ \A t \in Tasks : task[t].job \in Jobs <=> Busy(t)

RowOK(q) == q \in Job /\ (q.lease # "null" <=> q.status = "running")

FailedStages == Stage \cup {"none", "preflight", "worker_lease"}

\* What the theorems read of a row, apart from its status and its cost.
Same(f, q) ==
    /\ f.session = q.session /\ f.corpus = q.corpus
    /\ f.manual_retry_count = q.manual_retry_count
    /\ f.attempt_count = q.attempt_count
    /\ f.provider_call_started = q.provider_call_started
    /\ f.result_kind = q.result_kind /\ f.context = q.context

\* The rows that are written whole.
LEMMA WholeRows ==
    /\ RowOK(Absent) /\ RowOK([Absent EXCEPT !.status = "deleted"])
    /\ NoMessage \in Message
    /\ NoRows \in [0 .. MaxManualRetries -> [Stage -> Row]]
    /\ NoEvidence \in [round : -1 .. MaxManualRetries, corpus : -1 .. MaxCorpus]
    /\ Unused \in Charge
    /\ Idle \in Task /\ Idle.pc = "idle" /\ Idle.job = None
    /\ NoCalls \in [0 .. MaxManualRetries -> [Remote -> Nat]]
  <1> USE AnswerAssumption
  <1>1. 0 \in 0 .. MaxManualRetries /\ 0 \in 0 .. MaxAttempts /\ 0 \in 0 .. MaxCorpus
        /\ -1 \in -1 .. MaxManualRetries /\ -1 \in -1 .. MaxCorpus
    OBVIOUS
  <1>2. RowOK(Absent)
    BY <1>1 DEF Absent, RowOK, Job, Status, Deadline, Lease, Result, Context
  <1>3. RowOK([Absent EXCEPT !.status = "deleted"])
    BY <1>1 DEF Absent, RowOK, Job, Status, Deadline, Lease, Result, Context
  <1>4. NoMessage \in Message
    <2>1. Cardinality(Jobs) \in Nat
      BY FS_CardinalityType
    <2>2. 0 \in 0 .. Cardinality(Jobs)
      BY <2>1
    <2> QED BY <2>2 DEF NoMessage, Message
  <1>5. Idle \in Task /\ Idle.pc = "idle" /\ Idle.job = None
    BY <1>1 DEF Idle, Task, Pc, Run, Row, Result
  <1>6. /\ NoRows \in [0 .. MaxManualRetries -> [Stage -> Row]]
        /\ NoCalls \in [0 .. MaxManualRetries -> [Remote -> Nat]]
    BY DEF NoRows, NoCalls, Row
  <1>7. /\ NoEvidence \in [round : -1 .. MaxManualRetries, corpus : -1 .. MaxCorpus]
        /\ Unused \in Charge
    BY <1>1 DEF NoEvidence, Unused, Charge
  <1> QED BY <1>2, <1>3, <1>4, <1>5, <1>6, <1>7

\* What a failing row keeps and what it comes to.
LEMMA FailedRow ==
    ASSUME NEW q \in Job, NEW at \in FailedStages, NEW retryable \in BOOLEAN
    PROVE  LET f == Failed(q, at, retryable) IN
           /\ f \in Job /\ f.status = "failed" /\ f.lease = "null" /\ Same(f, q)
           /\ f.attempt_cost_unknown = (q.attempt_cost_unknown \/ q.execution_uncertain)
           /\ f.cancellation_requested = q.cancellation_requested
  <1> DEFINE fs == IF q.failed_stage = "none" THEN at ELSE q.failed_stage
             co == q.attempt_cost_unknown \/ q.execution_uncertain
  <1>1. fs \in FailedStages /\ co \in BOOLEAN
    BY DEF Job, FailedStages
  <1>2. Failed(q, at, retryable) =
            [q EXCEPT !.status = "failed", !.error_retryable = retryable,
                      !.failed_stage = fs, !.attempt_cost_unknown = co, !.lease = "null"]
    BY DEF Failed
  <1> HIDE DEF fs, co
  <1> DEFINE f == [q EXCEPT !.status = "failed", !.error_retryable = retryable,
                      !.failed_stage = fs, !.attempt_cost_unknown = co, !.lease = "null"]
  <1>3. "failed" \in Status /\ "null" \in Lease
    BY DEF Status, Lease
  <1>4. f \in Job
    BY <1>1, <1>3, ZenonT(60) DEF Job, FailedStages
  <1>5. f.status = "failed" /\ f.lease = "null" /\ Same(f, q)
    BY <1>1 DEF Job, Same
  <1>6. f.attempt_cost_unknown = co
    BY <1>1 DEF Job
  <1>7. f.cancellation_requested = q.cancellation_requested
    BY <1>1 DEF Job
  <1> HIDE DEF f
  <1> QED BY <1>2, <1>4, <1>5, <1>6, <1>7 DEF co, f

LEMMA DoubtedRow ==
    ASSUME NEW q \in Job, NEW doubt \in BOOLEAN
    PROVE  LET f == Doubted(q, doubt) IN
           /\ f \in Job /\ f.status = q.status /\ f.lease = q.lease /\ Same(f, q)
           /\ f.attempt_cost_unknown = (q.attempt_cost_unknown \/ doubt)
           /\ f.cancellation_requested = q.cancellation_requested
           /\ f.failed_stage = q.failed_stage
  <1> DEFINE un == q.execution_uncertain \/ doubt
             co == q.attempt_cost_unknown \/ doubt
  <1>1. un \in BOOLEAN /\ co \in BOOLEAN
    BY DEF Job
  <1>2. Doubted(q, doubt) =
            [q EXCEPT !.execution_uncertain = un, !.attempt_cost_unknown = co]
    BY DEF Doubted
  <1> HIDE DEF un, co
  <1> DEFINE f == [q EXCEPT !.execution_uncertain = un, !.attempt_cost_unknown = co]
  <1>3. f \in Job
    BY <1>1 DEF Job
  <1>4. f.status = q.status /\ f.lease = q.lease /\ Same(f, q)
    BY <1>1 DEF Job, Same
  <1>5. f.attempt_cost_unknown = co
    BY <1>1 DEF Job
  <1>6. f.cancellation_requested = q.cancellation_requested /\ f.failed_stage = q.failed_stage
    BY <1>1 DEF Job
  <1> HIDE DEF f
  <1> QED BY <1>2, <1>3, <1>4, <1>5, <1>6 DEF co, f

LEMMA FinishedRow ==
    ASSUME NEW q \in Job, NEW s \in Stage, NEW row \in Row, NEW sent \in BOOLEAN,
           NEW u \in BOOLEAN
    PROVE  LET f == Finished(q, s, row, sent, u) IN
           /\ f \in Job /\ f.status = q.status /\ f.lease = q.lease /\ Same(f, q)
           /\ f.attempt_cost_unknown =
                  (q.attempt_cost_unknown \/ u \/ (sent /\ row # "ok"))
           /\ f.cancellation_requested = q.cancellation_requested
  <1> DEFINE fs == IF row \in {"fallback", "error"} THEN s ELSE q.failed_stage
             un == q.execution_uncertain \/ u
             co == q.attempt_cost_unknown \/ u \/ (sent /\ row # "ok")
  <1>1. fs \in FailedStages /\ un \in BOOLEAN /\ co \in BOOLEAN
    BY DEF Job, FailedStages
  <1>2. Finished(q, s, row, sent, u) =
            [q EXCEPT !.failed_stage = fs, !.execution_uncertain = un,
                      !.attempt_cost_unknown = co]
    BY DEF Finished
  <1> HIDE DEF fs, un, co
  <1> DEFINE f == [q EXCEPT !.failed_stage = fs, !.execution_uncertain = un,
                      !.attempt_cost_unknown = co]
  <1>3. f \in Job
    BY <1>1, ZenonT(60) DEF Job, FailedStages
  <1>4. f.status = q.status /\ f.lease = q.lease /\ Same(f, q)
    BY <1>1 DEF Job, Same
  <1>5. f.attempt_cost_unknown = co
    BY <1>1 DEF Job
  <1>6. f.cancellation_requested = q.cancellation_requested
    BY <1>1 DEF Job
  <1> HIDE DEF f
  <1> QED BY <1>2, <1>3, <1>4, <1>5, <1>6 DEF co, f

LEMMA CancelledRow ==
    ASSUME NEW q \in Job, NEW at \in FailedStages
    PROVE  LET f == [q EXCEPT !.status = "cancelled", !.failed_stage = at,
                              !.error_retryable = FALSE, !.lease = "null"] IN
           f \in Job /\ f.status = "cancelled" /\ f.lease = "null" /\ Same(f, q)
  <1>1. "cancelled" \in Status /\ "null" \in Lease
    BY DEF Status, Lease
  <1> DEFINE f == [q EXCEPT !.status = "cancelled", !.failed_stage = at,
                              !.error_retryable = FALSE, !.lease = "null"]
  <1>2. f \in Job
    BY <1>1 DEF Job, FailedStages
  <1>3. f.status = "cancelled" /\ f.lease = "null" /\ Same(f, q)
    BY DEF Job, Same
  <1> HIDE DEF f
  <1> QED BY <1>2, <1>3 DEF f

\* A manual retry begins a round.
LEMMA RequeuedRow ==
    ASSUME NEW q \in Job, NEW s \in Sessions,
           q.manual_retry_count + 1 \in 0 .. MaxManualRetries
    PROVE  LET f == Requeued(q, s) IN
           /\ f \in Job /\ f.status = "queued" /\ f.lease = "null"
           /\ f.manual_retry_count = q.manual_retry_count + 1
           /\ f.attempt_count = 0 /\ ~f.provider_call_started
           /\ f.corpus = q.corpus /\ f.result_kind = q.result_kind
           /\ f.context = q.context
  <1> DEFINE g == Reset(q, s)
  <1>1. "queued" \in Status /\ "null" \in Lease /\ "far" \in Deadline
        /\ 0 \in 0 .. MaxAttempts
    BY AnswerAssumption DEF Status, Lease, Deadline
  <1>2. g \in Job
    BY <1>1 DEF Reset, Job
  <1>3. /\ g.status = "queued" /\ g.lease = "null"
        /\ g.manual_retry_count = q.manual_retry_count
        /\ g.attempt_count = 0 /\ g.corpus = q.corpus
        /\ g.result_kind = q.result_kind /\ g.context = q.context
    BY DEF Reset, Job
  <1>4. g.provider_call_started = FALSE
    BY DEF Reset, Job
  <1> HIDE DEF g
  <1> DEFINE n == q.manual_retry_count + 1
  <1>5. Requeued(q, s) = [g EXCEPT !.manual_retry_count = n]
    BY <1>3 DEF Requeued, g
  <1> HIDE DEF n
  <1> DEFINE f == [g EXCEPT !.manual_retry_count = n]
  <1>6. n \in 0 .. MaxManualRetries
    BY DEF n
  <1>7. f \in Job
    BY <1>2, <1>6 DEF Job
  <1>8. /\ f.status = g.status /\ f.lease = g.lease /\ f.manual_retry_count = n
        /\ f.attempt_count = g.attempt_count /\ f.corpus = g.corpus
        /\ f.result_kind = g.result_kind /\ f.context = g.context
    BY <1>2 DEF Job
  <1>9. f.provider_call_started = g.provider_call_started
    BY <1>2 DEF Job
  <1> HIDE DEF f
  <1> QED BY <1>3, <1>4, <1>5, <1>7, <1>8, <1>9 DEF f, n

\* Recovery: back to the queue only if no provider was asked; what fails says
\* that its cost is unknown if one was.
LEMMA RecoveredRow ==
    ASSUME NEW j \in Jobs, RowOK(job[j])
    PROVE  LET q == job[j]
               f == Recovered(j) IN
           /\ RowOK(f) /\ Same(f, q)
           /\ q.attempt_cost_unknown => f.attempt_cost_unknown
           /\ \/ q.cancellation_requested /\ f.status = "cancelled"
              \/ /\ ~q.cancellation_requested
                 /\ f.status = "queued" /\ ~q.provider_call_started
              \/ /\ ~q.cancellation_requested
                 /\ f.status = "failed"
                 /\ q.provider_call_started => f.attempt_cost_unknown
  <1> DEFINE q == job[j]
             f == Recovered(j)
  <1>0. q \in Job
    BY DEF RowOK
  <1>1. CASE q.cancellation_requested
    <2> DEFINE g == Failed(q, "preflight", FALSE)
    <2>1. /\ g \in Job /\ g.lease = "null" /\ Same(g, q)
          /\ q.attempt_cost_unknown => g.attempt_cost_unknown
      BY <1>0, FailedRow DEF FailedStages
    <2> HIDE DEF g
    <2>2. f = [g EXCEPT !.status = "cancelled"]
      BY <1>1 DEF Recovered, g
    <2> HIDE DEF f
    <2>3. "cancelled" \in Status
      BY DEF Status
    <2>4. f \in Job /\ f.status = "cancelled" /\ f.lease = "null"
      BY <2>1, <2>2, <2>3 DEF Job
    <2>5. Same(f, g)
      BY <2>1, <2>2 DEF Job, Same
    <2>6. Same(f, q)
      BY <2>1, <2>5 DEF Same
    <2>7. f.attempt_cost_unknown = g.attempt_cost_unknown
      BY <2>1, <2>2 DEF Job
    <2> QED BY <1>1, <2>1, <2>4, <2>6, <2>7 DEF RowOK, f
  <1>2. CASE ~q.cancellation_requested /\ Requeues(j)
    <2>1. f = [q EXCEPT !.status = "queued", !.available = FALSE, !.lease = "null"]
      BY <1>2 DEF Recovered
    <2> HIDE DEF f
    <2>2. "queued" \in Status /\ "null" \in Lease
      BY DEF Status, Lease
    <2>3. f \in Job
      BY <1>0, <2>1, <2>2 DEF Job
    <2>4. f.status = "queued" /\ f.lease = "null" /\ Same(f, q)
      BY <1>0, <2>1 DEF Job, Same
    <2>5. f.attempt_cost_unknown = q.attempt_cost_unknown
      BY <1>0, <2>1 DEF Job
    <2> QED BY <1>2, <2>3, <2>4, <2>5 DEF RowOK, Requeues, f
  <1>3. CASE ~q.cancellation_requested /\ ~Requeues(j)
    <2> DEFINE un == q.execution_uncertain \/ q.provider_call_started
               g == [q EXCEPT !.execution_uncertain = un]
    <2>1. un \in BOOLEAN
      BY <1>0 DEF Job
    <2>2. f = Failed(g, "worker_lease", TRUE)
      BY <1>3 DEF Recovered
    <2> HIDE DEF un
    <2>3. g \in Job /\ Same(g, q)
      BY <1>0, <2>1 DEF Job, Same
    <2>4. g.execution_uncertain = un
      BY <1>0, <2>1 DEF Job
    <2>5. g.attempt_cost_unknown = q.attempt_cost_unknown
      BY <1>0, <2>1 DEF Job
    <2> HIDE DEF g, f
    <2>6. /\ f \in Job /\ f.status = "failed" /\ f.lease = "null" /\ Same(f, g)
          /\ f.attempt_cost_unknown = (g.attempt_cost_unknown \/ g.execution_uncertain)
      BY <2>2, <2>3, FailedRow DEF FailedStages
    <2>7. Same(f, q)
      BY <2>3, <2>6 DEF Same
    <2>8. q.provider_call_started \/ q.attempt_cost_unknown => f.attempt_cost_unknown
      BY <2>4, <2>5, <2>6 DEF un
    <2> QED BY <1>3, <2>6, <2>7, <2>8 DEF RowOK, f
  <1> QED BY <1>1, <1>2, <1>3

-----------------------------------------------------------------------------
(* Type correctness.                                                       *)

JobsOK == job \in [Jobs -> Job] /\ \A j \in Jobs : RowOK(job[j])

TasksOK ==
    /\ task \in [Tasks -> Task]
    /\ \A t \in Tasks : task[t].job \in Jobs <=> Busy(t)

RecordsOK ==
    /\ stage \in [Jobs -> [0 .. MaxManualRetries -> [Stage -> Row]]]
    /\ evidence \in [Jobs -> [round : -1 .. MaxManualRetries,
                              corpus : -1 .. MaxCorpus]]
    /\ calls \in [Jobs -> [0 .. MaxManualRetries -> [Remote -> Nat]]]

RestOK ==
    /\ question \in [Jobs -> Message]
    /\ quota \in [Keys -> Charge]
    /\ thread \in [Threads -> {"absent", "open", "deleted"}]
    /\ session \in [Sessions -> {"active", "over", "deleted"}]
    /\ access \in BOOLEAN /\ corpus \in 0 .. MaxCorpus
    /\ world \in Worlds

LEMMA TypeParts ==
    /\ Types <=> JobsOK /\ TasksOK /\ RecordsOK /\ RestOK
    /\ Types' <=> JobsOK' /\ TasksOK' /\ RecordsOK' /\ RestOK'
  <1>1. JobsOK <=> /\ job \in [Jobs -> Job]
                   /\ \A j \in Jobs : job[j].lease # "null" <=> job[j].status = "running"
    BY DEF JobsOK, RowOK
  <1>2. JobsOK' <=> /\ job' \in [Jobs -> Job]
                    /\ \A j \in Jobs : job'[j].lease # "null" <=> job'[j].status = "running"
    BY DEF JobsOK, RowOK
  <1> HIDE DEF JobsOK
  <1>3. Types <=> JobsOK /\ TasksOK /\ RecordsOK /\ RestOK
    BY <1>1, Zenon DEF Types, TypeOK, TasksOK, RecordsOK, RestOK
  <1>4. Types' <=> JobsOK' /\ TasksOK' /\ RecordsOK' /\ RestOK'
    BY <1>2, Zenon DEF Types, TypeOK, TasksOK, RecordsOK, RestOK
  <1> QED BY <1>3, <1>4

LEMMA OneRow ==
    ASSUME JobsOK, NEW j \in Jobs, NEW q, RowOK(q), job' = [job EXCEPT ![j] = q]
    PROVE  JobsOK'
  BY DEF JobsOK, RowOK

LEMMA OneTask ==
    ASSUME TasksOK, NEW t \in Tasks, NEW e \in Task,
           e.job \in Jobs <=> e.pc # "idle", task' = [task EXCEPT ![t] = e]
    PROVE  TasksOK'
  BY DEF TasksOK, Busy

\* Among finitely many ranks there is a highest.
LEMMA Highest ==
    ASSUME NEW S, S # {}, NEW n \in Nat, NEW f \in [S -> 0 .. n]
    PROVE  \E x \in S : \A y \in S : f[y] <= f[x]
  <1> DEFINE R == {n - f[x] : x \in S}
  <1>1. \A x \in S : f[x] \in 0 .. n
    OBVIOUS
  <1>2. R \subseteq Nat /\ R # {}
    <2>1. PICK x \in S : TRUE
      OBVIOUS
    <2>2. \A y \in S : n - f[y] \in Nat
      BY <1>1
    <2>3. n - f[x] \in R
      BY <2>1
    <2> QED BY <2>2, <2>3
  <1> HIDE DEF R
  <1>3. PICK k \in R : \A r \in R : ~(<<r, k>> \in OpToRel(<, Nat))
    BY <1>2, NatLessThanWellFounded, WFMin
  <1>4. \A r \in R : ~(r < k)
    BY <1>2, <1>3 DEF OpToRel
  <1>5. PICK x \in S : k = n - f[x]
    BY DEF R
  <1>6. \A y \in S : ~(n - f[y] < n - f[x])
    BY <1>4, <1>5 DEF R
  <1> QED BY <1>1, <1>6

\* A thread with a message has a latest one.
LEMMA LatestOf ==
    ASSUME question \in [Jobs -> Message], NEW qs \in SUBSET Jobs, qs # {}
    PROVE  Latest(qs) \in qs /\ \A p \in qs : question[p].no <= question[Latest(qs)].no
  <1> DEFINE f == [q \in qs |-> question[q].no]
  <1>1. Cardinality(Jobs) \in Nat
    BY AnswerAssumption, FS_CardinalityType
  <1>2. f \in [qs -> 0 .. Cardinality(Jobs)]
    BY DEF Message
  <1> HIDE DEF f
  <1>3. PICK q \in qs : \A p \in qs : f[p] <= f[q]
    BY <1>1, <1>2, Highest
  <1>4. \A p \in qs : question[p].no <= question[q].no
    BY <1>3 DEF f
  <1> QED BY <1>4 DEF Latest

LEMMA LatestPrecedingType ==
    ASSUME question \in [Jobs -> Message], NEW th, NEW n
    PROVE  LatestPreceding(th, n) \in Jobs \cup {None}
  <1>1. Preceding(th, n) \subseteq Jobs
    BY DEF Preceding, Messages
  <1> QED BY <1>1, LatestOf DEF LatestPreceding

\* The newest stage row of a job is of a stage.
LEMMA LastStageType ==
    ASSUME NEW j \in Jobs PROVE LastStage(j) \in FailedStages
  <1> DEFINE M == MaxManualRetries
             Order == [s \in Stage |-> CASE s = "query_embedding" -> 1
                                         [] s = "retrieval" -> 2
                                         [] OTHER -> 3]
             rows == {x \in (0 .. M) \X Stage : stage[j][x[1]][x[2]] # "none"}
             Latest_(x) == \A y \in rows :
                             \/ y[1] < x[1]
                             \/ y[1] = x[1] /\ Order[y[2]] <= Order[x[2]]
  <1>1. LastStage(j) = IF rows = {} THEN "preflight"
                       ELSE (CHOOSE x \in rows : Latest_(x))[2]
    BY DEF LastStage
  <1>2. Order \in [Stage -> 1 .. 3]
    BY DEF Stage, Remote
  <1>3. rows \subseteq (0 .. M) \X Stage
    OBVIOUS
  <1> HIDE DEF Order, rows
  <1>4. CASE rows # {}
    <2> DEFINE f == [x \in rows |-> 4 * x[1] + Order[x[2]]]
    <2>1. \A x \in rows : x[1] \in 0 .. M /\ x[2] \in Stage /\ Order[x[2]] \in 1 .. 3
      BY <1>2, <1>3
    <2>2. \A x \in rows : f[x] \in 0 .. 4 * M + 3
      BY <2>1, AnswerAssumption
    <2>3. 4 * M + 3 \in Nat
      BY AnswerAssumption
    <2>4. f \in [rows -> 0 .. 4 * M + 3]
      BY <2>2
    <2>5. \A x \in rows : f[x] = 4 * x[1] + Order[x[2]]
      OBVIOUS
    <2> HIDE DEF f
    <2>6. PICK x \in rows : \A y \in rows : f[y] <= f[x]
      BY <1>4, <2>3, <2>4, Highest
    <2>7. Latest_(x)
      <3> SUFFICES ASSUME NEW y \in rows
                   PROVE y[1] < x[1] \/ (y[1] = x[1] /\ Order[y[2]] <= Order[x[2]])
        OBVIOUS
      <3>1. 4 * y[1] + Order[y[2]] <= 4 * x[1] + Order[x[2]]
        BY <2>5, <2>6
      <3>2. /\ x[1] \in Nat /\ y[1] \in Nat
            /\ Order[x[2]] \in 1 .. 3 /\ Order[y[2]] \in 1 .. 3
        BY <2>1, AnswerAssumption
      <3>3. \A a, b \in Nat, p, q \in 1 .. 3 :
               4 * b + q <= 4 * a + p => b < a \/ (b = a /\ q <= p)
        OBVIOUS
      <3> QED BY <3>1, <3>2, <3>3
    <2> HIDE DEF Latest_
    <2>8. (CHOOSE z \in rows : Latest_(z)) \in rows
      BY <2>6, <2>7
    <2> QED BY <1>1, <1>4, <2>1, <2>8 DEF FailedStages
  <1> QED BY <1>1, <1>4 DEF FailedStages

LEMMA AtType ==
    ASSUME JobsOK, NEW j \in Jobs PROVE At(j) \in FailedStages
  BY LastStageType DEF At, JobsOK, Job, FailedStages

-----------------------------------------------------------------------------
(* What one step does to a coroutine.                                      *)

Then == {"go", "retryable", "final", "timeout", "cancel"}

OtherTasks(t) == \A u \in Tasks \ {t} : task'[u] = task[u]

Carries(t) == task'[t].job = task[t].job /\ task'[t].run = task[t].run

LEMMA TaskFields ==
    ASSUME TasksOK, NEW t \in Tasks, Busy(t)
    PROVE  /\ task[t] \in Task /\ task[t].job \in Jobs /\ task[t].run \in Run
           /\ task[t].run[1] \in 0 .. MaxManualRetries
           /\ task[t].run[2] \in 0 .. MaxAttempts
           /\ task[t].pc \in Pc \ {"idle"} /\ task[t].row \in Row
           /\ task[t].sent \in BOOLEAN /\ task[t].then \in Then
           /\ task[t].result \in Result
  <1>1. task[t] \in Task /\ task[t].job \in Jobs /\ task[t].pc # "idle"
    BY DEF TasksOK, Busy
  <1>2. task[t].run \in Run
    BY <1>1 DEF Task
  <1> QED BY <1>1, <1>2 DEF Task, Run, Then

LEMMA ToIdle ==
    ASSUME TasksOK, NEW t \in Tasks, task' = [task EXCEPT ![t] = Idle]
    PROVE  TasksOK' /\ OtherTasks(t) /\ task'[t].pc = "idle" /\ task'[t].job = None
  BY WholeRows, OneTask, AnswerAssumption DEF OtherTasks, TasksOK

LEMMA JustTask ==
    ASSUME TasksOK, NEW t \in Tasks, Busy(t), NEW p \in Pc \ {"idle"}
    PROVE  /\ Just(t, p) \in Task /\ Just(t, p).pc = p
           /\ Just(t, p).job = task[t].job /\ Just(t, p).run = task[t].run
           /\ Just(t, p).result = "none"
  <1>1. /\ Idle.result = "none" /\ Idle \in Task
        /\ task[t].job \in Jobs /\ task[t].run \in Run
    BY TaskFields, WholeRows DEF Idle
  <1>2. Just(t, p) \in Task
    BY <1>1 DEF Just, Task
  <1>3. /\ Just(t, p).pc = p /\ Just(t, p).job = task[t].job
        /\ Just(t, p).run = task[t].run /\ Just(t, p).result = "none"
    BY <1>1 DEF Just, Task
  <1> QED BY <1>2, <1>3

\* A coroutine that goes on with the same claim.
LEMMA Carried ==
    ASSUME TasksOK, NEW t \in Tasks, Busy(t), NEW e \in Task, e.pc # "idle",
           e.job = task[t].job, e.run = task[t].run, task' = [task EXCEPT ![t] = e]
    PROVE  TasksOK' /\ OtherTasks(t) /\ Carries(t) /\ task'[t] = e
  <1>1. task'[t] = e /\ e.job \in Jobs
    BY TaskFields DEF TasksOK
  <1> QED BY <1>1, OneTask DEF OtherTasks, TasksOK, Carries

LEMMA ToJust ==
    ASSUME TasksOK, NEW t \in Tasks, Busy(t), NEW p \in Pc \ {"idle"}, Goto(t, p)
    PROVE  TasksOK' /\ OtherTasks(t) /\ Carries(t) /\ task'[t].pc = p
  <1> DEFINE e == Just(t, p)
  <1>1. e \in Task /\ e.pc = p /\ e.job = task[t].job /\ e.run = task[t].run
    BY JustTask
  <1>2. task' = [task EXCEPT ![t] = e]
    BY DEF Goto
  <1> HIDE DEF e
  <1> QED BY <1>1, <1>2, Carried

LEMMA ToJustWith ==
    ASSUME TasksOK, NEW t \in Tasks, Busy(t), NEW p \in Pc \ {"idle"},
           NEW result \in Result,
           task' = [task EXCEPT ![t] = [Just(t, p) EXCEPT !.result = result]]
    PROVE  /\ TasksOK' /\ OtherTasks(t) /\ Carries(t) /\ task'[t].pc = p
           /\ task'[t].result = result
  <1> DEFINE e == [Just(t, p) EXCEPT !.result = result]
  <1>1. e \in Task /\ e.pc = p /\ e.job = task[t].job /\ e.run = task[t].run
        /\ e.result = result
    BY JustTask DEF Task
  <1>2. task' = [task EXCEPT ![t] = e]
    OBVIOUS
  <1> HIDE DEF e
  <1> QED BY <1>1, <1>2, Carried

LEMMA ToFailing ==
    ASSUME TasksOK, NEW t \in Tasks, Busy(t), NEW how \in Then, FailsWith(t, how)
    PROVE  TasksOK' /\ OtherTasks(t) /\ Carries(t) /\ task'[t].pc = "failing"
  <1> DEFINE e == [Just(t, "failing") EXCEPT !.then = how]
  <1>0. "failing" \in Pc \ {"idle"}
    BY DEF Pc
  <1>1. e \in Task /\ e.pc = "failing" /\ e.job = task[t].job /\ e.run = task[t].run
    BY <1>0, JustTask DEF Task, Then
  <1>2. task' = [task EXCEPT ![t] = e]
    BY DEF FailsWith
  <1> HIDE DEF e
  <1> QED BY <1>1, <1>2, Carried

LEMMA ToEnd ==
    ASSUME TasksOK, NEW t \in Tasks, Busy(t), NEW p \in Pc \ {"idle"}, NEW row \in Row,
           NEW how \in Then,
           task' = [task EXCEPT ![t].pc = p, ![t].row = row, ![t].then = how]
    PROVE  /\ TasksOK' /\ OtherTasks(t) /\ Carries(t) /\ task'[t].pc = p
           /\ task'[t].row = row /\ task'[t].then = how
           /\ task'[t].sent = task[t].sent
  <1> DEFINE e == [task[t] EXCEPT !.pc = p, !.row = row, !.then = how]
  <1>1. task[t] \in Task /\ task[t].job \in Jobs
    BY TaskFields
  <1>2. e \in Task /\ e.pc = p /\ e.job = task[t].job /\ e.run = task[t].run
        /\ e.row = row /\ e.then = how
    BY <1>1 DEF Task, Then
  <1>3. e.sent = task[t].sent
    BY <1>1 DEF Task
  <1>4. task' = [task EXCEPT ![t] = e]
    BY DEF TasksOK
  <1> HIDE DEF e
  <1> QED BY <1>1, <1>2, <1>3, <1>4, Carried

LEMMA ToEndWith ==
    ASSUME TasksOK, NEW t \in Tasks, Busy(t), NEW p, NEW row, NEW how, NEW result,
           p \in Pc \ {"idle"}, row \in Row, how \in Then, result \in Result,
           task' = [task EXCEPT ![t].pc = p, ![t].row = row, ![t].then = how,
                                ![t].result = result]
    PROVE  /\ TasksOK' /\ OtherTasks(t) /\ Carries(t) /\ task'[t].pc = p
           /\ task'[t].row = row /\ task'[t].then = how
           /\ task'[t].sent = task[t].sent /\ task'[t].result = result
  <1> DEFINE e == [task[t] EXCEPT !.pc = p, !.row = row, !.then = how, !.result = result]
  <1>1. task[t] \in Task /\ task[t].job \in Jobs
    BY TaskFields
  <1>2. e \in Task /\ e.pc = p /\ e.job = task[t].job /\ e.run = task[t].run
        /\ e.row = row /\ e.then = how /\ e.result = result
    BY <1>1 DEF Task, Then
  <1>3. e.sent = task[t].sent
    BY <1>1 DEF Task
  <1>4. task' = [task EXCEPT ![t] = e]
    BY DEF TasksOK
  <1> HIDE DEF e
  <1> QED BY <1>1, <1>2, <1>3, <1>4, Carried

LEMMA ToResult ==
    ASSUME TasksOK, NEW t \in Tasks, Busy(t), NEW p \in Pc \ {"idle"},
           NEW result \in Result,
           task' = [task EXCEPT ![t].pc = p, ![t].result = result]
    PROVE  /\ TasksOK' /\ OtherTasks(t) /\ Carries(t) /\ task'[t].pc = p
           /\ task'[t].result = result
  <1> DEFINE e == [task[t] EXCEPT !.pc = p, !.result = result]
  <1>1. task[t] \in Task /\ task[t].job \in Jobs
    BY TaskFields
  <1>2. e \in Task /\ e.pc = p /\ e.job = task[t].job /\ e.run = task[t].run
        /\ e.result = result
    BY <1>1 DEF Task
  <1>3. task' = [task EXCEPT ![t] = e]
    BY DEF TasksOK
  <1> HIDE DEF e
  <1> QED BY <1>1, <1>2, <1>3, Carried

LEMMA ToStage ==
    ASSUME TasksOK, NEW t \in Tasks, Busy(t), NEW p \in Pc \ {"idle"}, NEW row \in Row,
           task' = [task EXCEPT ![t].pc = p, ![t].row = row, ![t].sent = FALSE]
    PROVE  TasksOK' /\ OtherTasks(t) /\ Carries(t) /\ task'[t].pc = p
  <1> DEFINE e == [task[t] EXCEPT !.pc = p, !.row = row, !.sent = FALSE]
  <1>1. task[t] \in Task /\ task[t].job \in Jobs
    BY TaskFields
  <1>2. e \in Task /\ e.pc = p /\ e.job = task[t].job /\ e.run = task[t].run
    BY <1>1 DEF Task
  <1>3. task' = [task EXCEPT ![t] = e]
    BY DEF TasksOK
  <1> HIDE DEF e
  <1> QED BY <1>1, <1>2, <1>3, Carried

LEMMA ToSent ==
    ASSUME TasksOK, NEW t \in Tasks, Busy(t), NEW p \in Pc \ {"idle"},
           task' = [task EXCEPT ![t].sent = TRUE, ![t].pc = p]
    PROVE  TasksOK' /\ OtherTasks(t) /\ Carries(t) /\ task'[t].pc = p /\ task'[t].sent
  <1> DEFINE e == [task[t] EXCEPT !.sent = TRUE, !.pc = p]
  <1>1. task[t] \in Task /\ task[t].job \in Jobs
    BY TaskFields
  <1>2. e \in Task /\ e.pc = p /\ e.job = task[t].job /\ e.run = task[t].run
    BY <1>1 DEF Task
  <1>3. e.sent = TRUE
    BY <1>1 DEF Task
  <1>4. task' = [task EXCEPT ![t] = e]
    BY DEF TasksOK
  <1> HIDE DEF e
  <1> QED BY <1>1, <1>2, <1>3, <1>4, Carried

-----------------------------------------------------------------------------
(* What a step does to the columns the theorems read.                      *)

Alike(j) ==
    /\ Same(job'[j], job[j])
    /\ job'[j].status = job[j].status
    /\ job'[j].attempt_cost_unknown = job[j].attempt_cost_unknown

OtherRows(j) == \A i \in Jobs \ {j} : Alike(i)

\* The one stage row of the round of j that is written.
StageSet(j, s, row) ==
    \A i \in Jobs, r \in Rounds, x \in Stage :
        stage'[i][r][x] =
            IF i = j /\ r = job[j].manual_retry_count /\ x = s THEN row
            ELSE stage[i][r][x]

Counted(t, s) ==
    \A i \in Jobs, r \in Rounds, x \in Remote :
        calls'[i][r][x] =
            IF i = task[t].job /\ r = task[t].run[1] /\ x = s
            THEN calls[i][r][x] + 1 ELSE calls[i][r][x]

Unreferenced(j) ==
    /\ evidence'[j] \in {evidence[j], NoEvidence}
    /\ \A i \in Jobs \ {j} : evidence'[i] = evidence[i]

\* Nothing that matters: time, access, sessions, quota, a request to stop.
Still ==
    /\ \A j \in Jobs : Alike(j)
    /\ UNCHANGED <<stage, evidence, task, calls>>

\* A coroutine goes on, or ends without a write.
Advances(t) ==
    LET j == task[t].job
        p == task[t].pc
        e == task'[t]
    IN
    /\ Busy(t) /\ OtherTasks(t)
    /\ UNCHANGED <<job, stage, evidence, calls>>
    /\ \/ e.pc = "idle"
       \/ Carries(t) /\ e.pc \in {"failing", "cancelling"}
       \/ /\ Carries(t) /\ Newest(t) /\ job[j].status = "running"
          /\ p = "read" /\ e.pc = "complete"
          /\ job[j].context = "unresolved" /\ e.result = "clarification_needed"
       \/ /\ Carries(t) /\ Newest(t) /\ job[j].status = "running"
          /\ p = "read" /\ e.pc = "boundary" /\ job[j].context # "unresolved"
       \/ /\ Carries(t) /\ p \in {"embed", "embedding"} /\ e.pc = "end_embedding"
          /\ e.sent = task[t].sent /\ e.row \in {"ok", "fallback", "error"}
          /\ e.then = "go" => e.row \in {"ok", "fallback"}
       \/ /\ Carries(t) /\ p = "retrieve" /\ e.pc = "end_retrieval"
          /\ e.row \in {"ok", "error"}
          /\ e.then = "go" => e.result \in {"no_match", "related_knowledge"}
       \/ Carries(t) /\ p = "prepare" /\ e.pc = "begin_judgment"
       \/ /\ Carries(t) /\ p \in {"judge", "judging"} /\ e.pc = "end_judgment"
          /\ e.sent = task[t].sent /\ e.row \in {"ok", "error"}
          /\ e.then = "go" => e.row = "ok" /\ e.result # "none"

\* The row of a new question.
Admits(j) ==
    /\ job[j].status = "absent" /\ job'[j].status = "queued"
    /\ job'[j].manual_retry_count = 0 /\ job'[j].attempt_count = 0
    /\ ~job'[j].provider_call_started
    /\ OtherRows(j)
    /\ UNCHANGED <<stage, evidence, task, calls>>

\* A question that waits is stopped by its owner or given up by a worker.
Stops(j) ==
    /\ job[j].status = "queued" /\ job'[j].status \in {"failed", "cancelled"}
    /\ Same(job'[j], job[j])
    /\ job[j].attempt_cost_unknown => job'[j].attempt_cost_unknown
    /\ OtherRows(j) /\ Unreferenced(j)
    /\ UNCHANGED <<stage, task, calls>>

Requeue(j) ==
    /\ job[j].status = "failed" /\ job'[j].status = "queued"
    /\ job'[j].manual_retry_count = job[j].manual_retry_count + 1
    /\ job'[j].attempt_count = 0 /\ ~job'[j].provider_call_started
    /\ job'[j].corpus = job[j].corpus /\ job'[j].context = job[j].context
    /\ OtherRows(j) /\ Unreferenced(j)
    /\ UNCHANGED <<stage, task, calls>>

Drops(js) ==
    /\ \A j \in js : job'[j].status = "deleted" /\ evidence'[j] = NoEvidence
    /\ \A j \in Jobs \ js :
           Alike(j) /\ stage'[j] = stage[j] /\ evidence'[j] = evidence[j]
    /\ UNCHANGED <<task, calls>>

\* Of a row under the token of t, in a step that t makes.
Owns(t) == Busy(t) /\ Newest(t) /\ job[task[t].job].status = "running"

TakesUp(t, j) ==
    /\ ~Busy(t) /\ job[j].status = "queued" /\ job'[j].status = "running"
    /\ job'[j].manual_retry_count = job[j].manual_retry_count
    /\ job'[j].attempt_count = job[j].attempt_count + 1
    /\ job'[j].provider_call_started = job[j].provider_call_started
    /\ job'[j].session = job[j].session
    /\ job'[j].corpus = job[j].corpus /\ job'[j].context = job[j].context
    /\ job'[j].attempt_cost_unknown = job[j].attempt_cost_unknown
    /\ OtherRows(j) /\ OtherTasks(t)
    /\ task'[t].pc = "read" /\ task'[t].job = j
    /\ task'[t].run = <<job[j].manual_retry_count, job[j].attempt_count + 1>>
    /\ UNCHANGED <<stage, evidence, calls>>

Marks(t) ==
    LET j == task[t].job IN
    /\ Owns(t) /\ task[t].pc = "boundary" /\ job'[j].status = "running"
    /\ job'[j].manual_retry_count = job[j].manual_retry_count
    /\ job'[j].attempt_count = job[j].attempt_count
    /\ job'[j].provider_call_started
    /\ job'[j].session = job[j].session
    /\ job'[j].corpus = job[j].corpus /\ job'[j].context = job[j].context
    /\ job'[j].attempt_cost_unknown = job[j].attempt_cost_unknown
    /\ OtherRows(j) /\ OtherTasks(t)
    /\ Carries(t) /\ task'[t].pc = "begin_embedding"
    /\ UNCHANGED <<stage, evidence, calls>>

Begins(t, s) ==
    LET j == task[t].job IN
    /\ Owns(t)
    /\ \/ /\ s = "query_embedding" /\ task[t].pc = "begin_embedding"
          /\ task'[t].pc = "embed"
       \/ /\ s = "retrieval" /\ task[t].pc = "begin_retrieval"
          /\ task'[t].pc = "retrieve"
       \/ /\ s = "source_judgment" /\ task[t].pc = "begin_judgment"
          /\ task'[t].pc = "judge"
    /\ s \in Remote => Rows(j)[s] = "none"
    /\ StageSet(j, s, "open")
    /\ Carries(t) /\ OtherTasks(t)
    /\ UNCHANGED <<job, evidence, calls>>

Asks(t, s) ==
    /\ Busy(t)
    /\ \/ /\ s = "query_embedding" /\ task[t].pc = "embed"
          /\ task'[t].pc = "embedding"
       \/ /\ s = "source_judgment" /\ task[t].pc = "judge"
          /\ task'[t].pc = "judging"
    /\ Counted(t, s)
    /\ Carries(t) /\ task'[t].sent /\ OtherTasks(t)
    /\ UNCHANGED <<job, stage, evidence>>

Records(t, s) ==
    LET j == task[t].job
        e == task'[t]
    IN
    /\ Owns(t) /\ Rows(j)[s] = "open"
    /\ StageSet(j, s, task[t].row)
    /\ Same(job'[j], job[j]) /\ job'[j].status = "running"
    /\ job[j].attempt_cost_unknown => job'[j].attempt_cost_unknown
    /\ task[t].sent /\ task[t].row # "ok" => job'[j].attempt_cost_unknown
    /\ OtherRows(j) /\ OtherTasks(t) /\ Carries(t)
    /\ \/ /\ s = "query_embedding" /\ task[t].pc = "end_embedding"
          /\ \/ e.pc \in {"failing", "cancelling"}
             \/ task[t].then = "go" /\ e.pc = "begin_retrieval"
       \/ /\ s = "retrieval" /\ task[t].pc = "end_retrieval"
          /\ \/ e.pc \in {"failing", "cancelling"}
             \/ /\ task[t].then = "go" /\ task[t].result = "no_match"
                /\ e.pc = "complete" /\ e.result = "no_match"
             \/ /\ task[t].then = "go" /\ e.pc = "prepare"
       \/ /\ s = "source_judgment" /\ task[t].pc = "end_judgment"
          /\ \/ e.pc \in {"failing", "cancelling"}
             \/ task[t].then = "go" /\ e.pc = "complete" /\ e.result = task[t].result
    /\ UNCHANGED <<evidence, calls>>

Completes(t) ==
    LET j == task[t].job IN
    /\ Owns(t) /\ task[t].pc = "complete" /\ job'[j].status = "completed"
    /\ job'[j].manual_retry_count = job[j].manual_retry_count
    /\ job'[j].attempt_count = job[j].attempt_count
    /\ job'[j].provider_call_started = job[j].provider_call_started
    /\ job'[j].session = job[j].session
    /\ job'[j].corpus = job[j].corpus /\ job'[j].context = job[j].context
    /\ job'[j].attempt_cost_unknown = job[j].attempt_cost_unknown
    /\ job'[j].result_kind = task[t].result
    /\ evidence'[j] = IF task[t].result = "related_knowledge"
                      THEN [round |-> job[j].manual_retry_count, corpus |-> corpus]
                      ELSE NoEvidence
    /\ corpus = job[j].corpus
    /\ \A i \in Jobs \ {j} : evidence'[i] = evidence[i]
    /\ OtherRows(j) /\ OtherTasks(t) /\ task'[t].pc = "idle"
    /\ UNCHANGED <<stage, calls>>

GivesUp(t) ==
    LET j == task[t].job IN
    /\ Owns(t) /\ task[t].pc \in {"failing", "cancelling"}
    /\ job'[j].status \in {"failed", "cancelled"}
    /\ Same(job'[j], job[j])
    /\ job[j].attempt_cost_unknown \/ Unfinished(j) => job'[j].attempt_cost_unknown
    /\ Unreferenced(j)
    /\ OtherRows(j) /\ OtherTasks(t) /\ task'[t].pc = "idle"
    /\ UNCHANGED <<stage, calls>>

\* What recovery does to one row.
TakenBack(j) ==
    /\ job[j].status = "running"
    /\ Same(job'[j], job[j])
    /\ job'[j].status \in {"queued", "failed", "cancelled"}
    /\ job'[j].status = "queued" => ~job[j].provider_call_started
    /\ job[j].attempt_cost_unknown => job'[j].attempt_cost_unknown
    /\ job'[j].status = "failed" /\ job[j].provider_call_started
           => job'[j].attempt_cost_unknown

TakesBack ==
    /\ \A j \in Jobs : Alike(j) \/ TakenBack(j)
    /\ \A j \in Jobs : \/ evidence'[j] = evidence[j]
                       \/ TakenBack(j) /\ evidence'[j] = NoEvidence
    /\ UNCHANGED <<stage, task, calls>>

LEMMA OwnsClaim ==
    ASSUME Types, NEW t \in Tasks, Busy(t), Holds(t)
    PROVE  Owns(t)
  BY DEF Owns, Holds, Newest, Gone, RunOf

\* A step that leaves everything but the surroundings alone.
LEMMA StillStep ==
    ASSUME Types, UNCHANGED <<job, stage, evidence, task, calls>>, RestOK'
    PROVE  Types' /\ Still
  <1>1. JobsOK /\ TasksOK /\ RecordsOK
    BY TypeParts
  <1>2. JobsOK' /\ TasksOK' /\ RecordsOK'
    BY <1>1 DEF JobsOK, TasksOK, RecordsOK, Busy
  <1> QED BY <1>2, TypeParts DEF Still, Alike, Same

\* One row changes and nothing of the records does.
LEMMA RowStep ==
    ASSUME JobsOK, NEW j \in Jobs, NEW q, RowOK(q), job' = [job EXCEPT ![j] = q]
    PROVE  JobsOK' /\ OtherRows(j) /\ job'[j] = q
  BY OneRow DEF OtherRows, Alike, Same, JobsOK

LEMMA TimeStep ==
    ASSUME Types, NEW j \in Jobs, DeadlinePasses(j) \/ LeasePasses(j) \/ BackoffEnds(j)
    PROVE  Types' /\ Still
  <1>0. JobsOK /\ TasksOK /\ RecordsOK /\ RestOK /\ job[j] \in Job
    BY TypeParts DEF JobsOK
  <1>1. ASSUME NEW q, q \in Job, Same(q, job[j]), q.status = job[j].status,
               q.attempt_cost_unknown = job[j].attempt_cost_unknown,
               q.lease # "null" <=> job[j].lease # "null",
               job' = [job EXCEPT ![j] = q],
               UNCHANGED <<session, access, corpus, world, Surroundings>>
        PROVE  Types' /\ Still
    <2>1. RowOK(q)
      BY <1>0, <1>1 DEF JobsOK, RowOK
    <2>2. JobsOK' /\ OtherRows(j) /\ job'[j] = q
      BY <1>0, <1>1, <2>1, RowStep
    <2>3. TasksOK' /\ RecordsOK' /\ RestOK'
      BY <1>0, <1>1 DEF TasksOK, RecordsOK, RestOK, Surroundings, Busy
    <2>4. Still
      BY <1>1, <2>2 DEF Still, OtherRows, Alike, Surroundings
    <2> QED BY <2>2, <2>3, <2>4, TypeParts
  <1>2. CASE DeadlinePasses(j)
    <2> DEFINE d == IF job[j].deadline = "far" THEN "near" ELSE "passed"
               l == IF job[j].deadline = "near" /\ job[j].lease = "ahead"
                    THEN "passed" ELSE job[j].lease
               q == [job[j] EXCEPT !.deadline = d, !.lease = l]
    <2>1. d \in Deadline /\ l \in Lease /\ (l # "null" <=> job[j].lease # "null")
      BY <1>0 DEF Deadline, Lease, Job
    <2>2. job' = [job EXCEPT ![j] = q]
      BY <1>0, <1>2 DEF DeadlinePasses, JobsOK
    <2> HIDE DEF d, l
    <2>3. q \in Job
      BY <1>0, <2>1 DEF Job
    <2>4. q.status = job[j].status /\ q.lease = l /\ Same(q, job[j])
      BY <1>0, <2>1 DEF Job, Same
    <2>5. q.attempt_cost_unknown = job[j].attempt_cost_unknown
      BY <1>0, <2>1 DEF Job
    <2> HIDE DEF q
    <2> QED BY <1>1, <1>2, <2>1, <2>2, <2>3, <2>4, <2>5 DEF DeadlinePasses
  <1>3. CASE LeasePasses(j)
    <2> DEFINE q == [job[j] EXCEPT !.lease = "passed"]
    <2>1. "passed" \in Lease
      BY DEF Lease
    <2>2. job' = [job EXCEPT ![j] = q]
      BY <1>0, <1>3 DEF LeasePasses, JobsOK
    <2>3. q \in Job
      BY <1>0, <2>1 DEF Job
    <2>4. q.status = job[j].status /\ q.lease = "passed" /\ Same(q, job[j])
      BY <1>0, <2>1 DEF Job, Same
    <2>5. q.attempt_cost_unknown = job[j].attempt_cost_unknown
      BY <1>0, <2>1 DEF Job
    <2> HIDE DEF q
    <2> QED BY <1>1, <1>3, <2>2, <2>3, <2>4, <2>5 DEF LeasePasses
  <1>4. CASE BackoffEnds(j)
    <2> DEFINE q == [job[j] EXCEPT !.available = TRUE]
    <2>2. job' = [job EXCEPT ![j] = q]
      BY <1>0, <1>4 DEF BackoffEnds, JobsOK
    <2>3. q \in Job
      BY <1>0 DEF Job
    <2>4. q.status = job[j].status /\ q.lease = job[j].lease /\ Same(q, job[j])
      BY <1>0 DEF Job, Same
    <2>5. q.attempt_cost_unknown = job[j].attempt_cost_unknown
      BY <1>0 DEF Job
    <2> HIDE DEF q
    <2> QED BY <1>1, <1>4, <2>2, <2>3, <2>4, <2>5 DEF BackoffEnds
  <1> QED BY <1>2, <1>3, <1>4

LEMMA ChargeType ==
    ASSUME NEW c \in Charge
    PROVE  /\ [c EXCEPT !.today = FALSE] \in Charge
           /\ [c EXCEPT !.job = None] \in Charge
  BY DEF Charge

\* Deletions and the cascades.
LEMMA DropStep ==
    ASSUME Types, NEW js \in SUBSET Jobs, NEW qs \in SUBSET Jobs, Deleted(js, qs),
           thread' \in [Threads -> {"absent", "open", "deleted"}],
           session' \in [Sessions -> {"active", "over", "deleted"}],
           UNCHANGED <<access, corpus, world, task, calls>>
    PROVE  Types' /\ Drops(js)
  <1>0. JobsOK /\ TasksOK /\ RecordsOK /\ RestOK
    BY TypeParts
  <1>1. ASSUME NEW j \in Jobs
        PROVE  /\ RowOK(job'[j])
               /\ j \in js => job'[j].status = "deleted"
               /\ j \notin js => Alike(j)
    <2> DEFINE q == [job[j] EXCEPT !.bound = FALSE]
               dead == [Absent EXCEPT !.status = "deleted"]
    <2>1. job[j] \in Job /\ RowOK(job[j])
      BY <1>0 DEF JobsOK
    <2>2. q \in Job /\ q.status = job[j].status /\ q.lease = job[j].lease /\ Same(q, job[j])
      BY <2>1, ZenonT(60) DEF Job, Same
    <2>3. q.attempt_cost_unknown = job[j].attempt_cost_unknown
      BY <2>1 DEF Job
    <2>4. RowOK(q)
      BY <2>1, <2>2 DEF RowOK
    <2>5. RowOK(dead) /\ dead.status = "deleted"
      BY WholeRows DEF Absent
    <2>6. job'[j] = IF j \in js THEN dead ELSE IF job[j].preceding \in qs THEN q ELSE job[j]
      BY DEF Deleted
    <2> HIDE DEF q, dead
    <2> QED BY <2>1, <2>2, <2>3, <2>4, <2>5, <2>6 DEF Alike, Same
  <1>2. JobsOK'
    <2>1. job' = [j \in Jobs |-> job'[j]]
      BY DEF Deleted
    <2> QED BY <1>1, <2>1 DEF JobsOK, RowOK
  <1>3. RecordsOK' /\ \A j \in Jobs \ js : stage'[j] = stage[j] /\ evidence'[j] = evidence[j]
    BY <1>0, WholeRows DEF Deleted, RecordsOK
  <1>4. \A j \in js : evidence'[j] = NoEvidence
    BY DEF Deleted
  <1>5. question' \in [Jobs -> Message]
    BY <1>0, WholeRows DEF Deleted, RestOK
  <1>6. quota' \in [Keys -> Charge]
    <2>1. \A k \in Keys : Detached(quota[k], js) \in Charge
      BY <1>0, ChargeType DEF Detached, RestOK
    <2> QED BY <2>1 DEF Deleted
  <1>7. RestOK' /\ TasksOK'
    BY <1>0, <1>5, <1>6 DEF RestOK, TasksOK, Busy
  <1> QED BY <1>1, <1>2, <1>3, <1>4, <1>7, TypeParts DEF Drops

LEMMA SurroundingStep ==
    ASSUME Types, Surrounding \/ \E th \in Threads : CreateThread(th) \/ DeleteThread(th)
    PROVE  Types' /\ (Still \/ \E js \in SUBSET Jobs : Drops(js))
  <1>0. JobsOK /\ TasksOK /\ RecordsOK /\ RestOK
    BY TypeParts
  <1>1. ASSUME NEW j \in Jobs, DeadlinePasses(j) \/ LeasePasses(j) \/ BackoffEnds(j)
        PROVE  Types' /\ Still
    BY <1>1, TimeStep
  <1>2. ASSUME NEW q \in Jobs, QuestionExpires(q) PROVE Types' /\ Still
    <2> DEFINE m == [question[q] EXCEPT !.state = "expired"]
    <2>1. m \in Message
      BY <1>0 DEF RestOK, Message
    <2>2. question' = [question EXCEPT ![q] = m]
      BY <1>2 DEF QuestionExpires
    <2> HIDE DEF m
    <2>3. RestOK'
      BY <1>0, <1>2, <2>1, <2>2 DEF RestOK, QuestionExpires
    <2> QED BY <1>2, <2>3, StillStep DEF QuestionExpires
  <1>3. ASSUME NEW s \in Sessions, SessionEnds(s) PROVE Types' /\ Still
    <2>1. RestOK'
      BY <1>0, <1>3 DEF RestOK, SessionEnds, Surroundings
    <2> QED BY <1>3, <2>1, StillStep DEF SessionEnds, Surroundings
  <1>4. ASSUME NEW s \in Sessions, CleanupSession(s)
        PROVE  Types' /\ \E js \in SUBSET Jobs : Drops(js)
    <2>1. session' \in [Sessions -> {"active", "over", "deleted"}]
      BY <1>0, <1>4 DEF RestOK, CleanupSession
    <2>2. thread' \in [Threads -> {"absent", "open", "deleted"}]
      BY <1>0, <1>4 DEF RestOK, CleanupSession
    <2> DEFINE js == {j \in Jobs : job[j].session = s}
    <2>3. js \in SUBSET Jobs /\ {} \in SUBSET Jobs
      OBVIOUS
    <2>4. Deleted(js, {}) /\ UNCHANGED <<access, corpus, world, task, calls>>
      BY <1>4 DEF CleanupSession
    <2> HIDE DEF js
    <2> QED BY <2>1, <2>2, <2>3, <2>4, DropStep
  <1>5. ASSUME NEW k \in Keys, CleanupQuota(k) PROVE Types' /\ Still
    <2>1. RestOK'
      BY <1>0, <1>5, WholeRows DEF RestOK, CleanupQuota
    <2> QED BY <1>5, <2>1, StillStep DEF CleanupQuota
  <1>6. ASSUME CleanupQuestions
        PROVE  Types' /\ \E js \in SUBSET Jobs : Drops(js)
    <2> DEFINE qs == {q \in Jobs : question[q].state = "expired"}
               js == {j \in qs : job[j].status # "absent"}
    <2>1. js \in SUBSET Jobs /\ qs \in SUBSET Jobs
      OBVIOUS
    <2>2. Deleted(js, qs) /\ UNCHANGED <<thread, session, access, corpus, world, task, calls>>
      BY <1>6 DEF CleanupQuestions
    <2> HIDE DEF qs, js
    <2>3. /\ thread' \in [Threads -> {"absent", "open", "deleted"}]
          /\ session' \in [Sessions -> {"active", "over", "deleted"}]
      BY <1>0, <2>2 DEF RestOK
    <2> QED BY <2>1, <2>2, <2>3, DropStep
  <1>7. CASE DayEnds
    <2>1. quota' \in [Keys -> Charge]
      BY <1>0, <1>7, ChargeType DEF RestOK, DayEnds
    <2>2. RestOK'
      BY <1>0, <1>7, <2>1 DEF RestOK, DayEnds
    <2> QED BY <1>7, <2>2, StillStep DEF DayEnds
  <1>8. CASE AccessChanges
    <2>1. RestOK'
      BY <1>0, <1>8 DEF RestOK, AccessChanges, Surroundings
    <2> QED BY <1>8, <2>1, StillStep DEF AccessChanges, Surroundings
  <1>9. CASE CorpusMoves
    <2>1. world.corpus \in 0 .. MaxCorpus /\ MaxCorpus \in Nat
      BY <1>0, AnswerAssumption DEF RestOK
    <2>2. RestOK'
      BY <1>0, <1>9, <2>1 DEF RestOK, CorpusMoves, Surroundings
    <2> QED BY <1>9, <2>2, StillStep DEF CorpusMoves, Surroundings
  <1>10. ASSUME NEW th \in Threads, CreateThread(th) PROVE Types' /\ Still
    <2>1. RestOK'
      BY <1>0, <1>10 DEF RestOK, CreateThread
    <2> QED BY <1>10, <2>1, StillStep DEF CreateThread
  <1>11. ASSUME NEW th \in Threads, DeleteThread(th)
         PROVE  Types' /\ \E js \in SUBSET Jobs : Drops(js)
    <2> DEFINE qs == Messages(th)
               js == {j \in Jobs : job[j].thread = th}
    <2>1. js \in SUBSET Jobs /\ qs \in SUBSET Jobs
      BY DEF Messages
    <2>2. Deleted(js, qs) /\ UNCHANGED <<session, access, corpus, world, task, calls>>
      BY <1>11 DEF DeleteThread
    <2> HIDE DEF qs, js
    <2>3. /\ thread' \in [Threads -> {"absent", "open", "deleted"}]
          /\ session' \in [Sessions -> {"active", "over", "deleted"}]
      BY <1>0, <1>11, <2>2 DEF RestOK, DeleteThread
    <2> QED BY <2>1, <2>2, <2>3, DropStep
  <1> QED BY <1>1, <1>2, <1>3, <1>4, <1>5, <1>6, <1>7, <1>8, <1>9, <1>10, <1>11
          DEF Surrounding

\* Two rows are written together for a question: its message and its job.
LEMMA AskStep ==
    ASSUME Types, NEW j \in Jobs, NEW th \in Threads, NEW k \in Keys, NEW s \in Sessions,
           NEW c \in Context, Ask(j, th, k, s, c)
    PROVE  Types' /\ Admits(j)
  <1>0. JobsOK /\ TasksOK /\ RecordsOK /\ RestOK
    BY TypeParts
  <1> DEFINE known == {q \in Jobs : job[q].status # "absent"}
             n == Cardinality(known) + 1
             p == Captured(th, n, c)
             g == [Absent EXCEPT !.status = "queued", !.thread = th, !.key = k,
                                 !.session = s, !.corpus = corpus]
             q == Bound(g, c, p)
             m == [state |-> "kept", thread |-> th, no |-> n]
             ch == [state |-> "charged", job |-> j, today |-> TRUE]
  <1>1. n \in 0 .. Cardinality(Jobs)
    <2>1. IsFiniteSet(Jobs)
      BY AnswerAssumption
    <2>2. j \in Jobs \ known
      BY DEF Ask
    <2>3. IsFiniteSet(known \cup {j}) /\ IsFiniteSet(known)
      BY <2>1, FS_Subset
    <2>4. Cardinality(known \cup {j}) = n
      BY <2>2, <2>3, FS_AddElement
    <2>5. Cardinality(known \cup {j}) <= Cardinality(Jobs)
      BY <2>1, <2>3, FS_Subset
    <2>6. Cardinality(Jobs) \in Nat /\ Cardinality(known) \in Nat
      BY <2>1, <2>3, FS_CardinalityType
    <2> QED BY <2>4, <2>5, <2>6
  <1> HIDE DEF n
  <1>2. p \in Jobs \cup {None}
    BY <1>0, LatestPrecedingType DEF Captured, RestOK
  <1> HIDE DEF p
  <1>3. m \in Message
    BY <1>1 DEF Message
  <1> HIDE DEF m
  <1>4. Absent \in Job /\ "queued" \in Status /\ corpus \in 0 .. MaxCorpus
    BY <1>0, WholeRows DEF RowOK, RestOK, Status
  <1>5. /\ Absent.lease = "null" /\ Absent.manual_retry_count = 0
        /\ Absent.attempt_count = 0 /\ Absent.provider_call_started = FALSE
    BY DEF Absent
  <1>6. g \in Job
    BY <1>4 DEF Job
  <1>7. /\ g.status = "queued" /\ g.lease = "null" /\ g.manual_retry_count = 0
        /\ g.attempt_count = 0
    BY <1>4, <1>5 DEF Job
  <1>8. g.provider_call_started = FALSE
    BY <1>4, <1>5 DEF Job
  <1> HIDE DEF g
  <1>9. q \in Job
    BY <1>2, <1>6 DEF Job, Bound
  <1>10. /\ q.status = "queued" /\ q.lease = "null" /\ q.manual_retry_count = 0
         /\ q.attempt_count = 0
    BY <1>6, <1>7 DEF Job, Bound
  <1>11. q.provider_call_started = FALSE
    BY <1>6, <1>8 DEF Job, Bound
  <1>12. job' = [job EXCEPT ![j] = q] /\ question' = [question EXCEPT ![j] = m]
         /\ quota' = [quota EXCEPT ![k] = ch]
    BY DEF Ask, n, p, g, m
  <1> HIDE DEF q
  <1>13. ch \in Charge
    BY DEF Charge
  <1> HIDE DEF ch
  <1>14. JobsOK' /\ OtherRows(j) /\ job'[j] = q
    BY <1>0, <1>9, <1>10, <1>12, RowStep DEF RowOK
  <1>15. UNCHANGED <<stage, evidence, thread, session, access, corpus, world, task, calls>>
         /\ job[j].status = "absent"
    BY DEF Ask
  <1>16. TasksOK' /\ RecordsOK' /\ RestOK'
    BY <1>0, <1>3, <1>12, <1>13, <1>15 DEF TasksOK, RecordsOK, RestOK, Busy
  <1> QED BY <1>10, <1>11, <1>14, <1>15, <1>16, TypeParts DEF Admits

LEMMA NothingReferenced ==
    ASSUME RecordsOK, NEW j \in Jobs, evidence' = [evidence EXCEPT ![j] = NoEvidence]
    PROVE  /\ Unreferenced(j)
           /\ evidence' \in [Jobs -> [round : -1 .. MaxManualRetries,
                                      corpus : -1 .. MaxCorpus]]
  BY WholeRows DEF RecordsOK, Unreferenced

LEMMA CancelStep ==
    ASSUME Types, NEW j \in Jobs, Cancel(j)
    PROVE  Types' /\ (Still \/ Stops(j))
  <1>0. JobsOK /\ TasksOK /\ RecordsOK /\ RestOK /\ job[j] \in Job /\ RowOK(job[j])
    BY TypeParts DEF JobsOK
  <1>1. UNCHANGED <<question, stage, quota, thread, session, access, corpus, world, task,
                    calls>>
    BY DEF Cancel
  <1>2. TasksOK' /\ RestOK'
    BY <1>0, <1>1 DEF TasksOK, RestOK, Busy
  <1>3. ASSUME job[j].status = "queued",
               job' = [job EXCEPT ![j].status = "cancelled",
                                  ![j].cancellation_requested = TRUE,
                                  ![j].error_retryable = FALSE],
               evidence' = [evidence EXCEPT ![j] = NoEvidence]
        PROVE  Types' /\ Stops(j)
    <2> DEFINE q == [job[j] EXCEPT !.status = "cancelled", !.cancellation_requested = TRUE,
                                   !.error_retryable = FALSE]
    <2>1. "cancelled" \in Status
      BY DEF Status
    <2>2. q \in Job
      BY <1>0, <2>1 DEF Job
    <2>3. q.status = "cancelled" /\ q.lease = job[j].lease /\ Same(q, job[j])
      BY <1>0 DEF Job, Same
    <2>4. q.attempt_cost_unknown = job[j].attempt_cost_unknown
      BY <1>0 DEF Job
    <2>5. job' = [job EXCEPT ![j] = q]
      BY <1>0, <1>3 DEF JobsOK
    <2> HIDE DEF q
    <2>6. RowOK(q)
      BY <1>0, <1>3, <2>2, <2>3 DEF RowOK
    <2>7. JobsOK' /\ OtherRows(j) /\ job'[j] = q
      BY <1>0, <2>5, <2>6, RowStep
    <2>8. RecordsOK' /\ Unreferenced(j)
      BY <1>0, <1>1, <1>3, NothingReferenced DEF RecordsOK
    <2> QED BY <1>1, <1>2, <1>3, <2>3, <2>4, <2>7, <2>8, TypeParts DEF Stops
  <1>4. ASSUME job[j].status = "running",
               job' = [job EXCEPT ![j].cancellation_requested = TRUE], UNCHANGED evidence
        PROVE  Types' /\ Still
    <2> DEFINE q == [job[j] EXCEPT !.cancellation_requested = TRUE]
    <2>2. q \in Job
      BY <1>0 DEF Job
    <2>3. q.status = job[j].status /\ q.lease = job[j].lease /\ Same(q, job[j])
      BY <1>0 DEF Job, Same
    <2>4. q.attempt_cost_unknown = job[j].attempt_cost_unknown
      BY <1>0 DEF Job
    <2>5. job' = [job EXCEPT ![j] = q]
      BY <1>0, <1>4 DEF JobsOK
    <2> HIDE DEF q
    <2>6. RowOK(q)
      BY <1>0, <1>4, <2>2, <2>3 DEF RowOK
    <2>7. JobsOK' /\ OtherRows(j) /\ job'[j] = q
      BY <1>0, <2>5, <2>6, RowStep
    <2>8. RecordsOK'
      BY <1>0, <1>1, <1>4 DEF RecordsOK
    <2>9. Alike(j)
      BY <2>3, <2>4, <2>7 DEF Alike
    <2> QED BY <1>1, <1>2, <1>4, <2>7, <2>8, <2>9, TypeParts DEF Still, OtherRows
  <1> QED BY <1>3, <1>4 DEF Cancel

LEMMA RetryStep ==
    ASSUME Types, NEW j \in Jobs, NEW k \in Keys, NEW s \in Sessions, Retry(j, k, s)
    PROVE  Types' /\ Requeue(j)
  <1>0. JobsOK /\ TasksOK /\ RecordsOK /\ RestOK /\ job[j] \in Job
    BY TypeParts DEF JobsOK
  <1>1. /\ UNCHANGED <<question, stage, thread, session, access, corpus, world, task, calls>>
        /\ evidence' = [evidence EXCEPT ![j] = NoEvidence]
        /\ quota' = [quota EXCEPT ![k] =
                        [state |-> "charged", job |-> j, today |-> TRUE]]
        /\ job' = [job EXCEPT ![j] = Requeued(job[j], s)]
        /\ job[j].status = "failed" /\ job[j].manual_retry_count < world.retries
    BY <1>0 DEF Retry, Retryable, JobsOK
  <1>2. job[j].manual_retry_count + 1 \in 0 .. MaxManualRetries
    <2>1. world.retries \in 0 .. MaxManualRetries /\ MaxManualRetries \in Nat
      BY <1>0, AnswerAssumption DEF RestOK
    <2>2. job[j].manual_retry_count \in 0 .. MaxManualRetries
      BY <1>0 DEF Job
    <2> QED BY <1>1, <2>1, <2>2
  <1> DEFINE q == Requeued(job[j], s)
  <1>3. /\ q \in Job /\ q.status = "queued" /\ q.lease = "null"
        /\ q.manual_retry_count = job[j].manual_retry_count + 1
        /\ q.attempt_count = 0 /\ ~q.provider_call_started
        /\ q.corpus = job[j].corpus /\ q.context = job[j].context
    BY <1>0, <1>2, RequeuedRow
  <1>4. job' = [job EXCEPT ![j] = q]
    BY <1>1
  <1> HIDE DEF q
  <1>5. JobsOK' /\ OtherRows(j) /\ job'[j] = q
    BY <1>0, <1>3, <1>4, RowStep DEF RowOK
  <1>6. [state |-> "charged", job |-> j, today |-> TRUE] \in Charge
    BY DEF Charge
  <1>7. TasksOK' /\ RestOK'
    BY <1>0, <1>1, <1>6 DEF TasksOK, RestOK, Busy
  <1>8. RecordsOK' /\ Unreferenced(j)
    BY <1>0, <1>1, NothingReferenced DEF RecordsOK
  <1> QED BY <1>1, <1>3, <1>5, <1>7, <1>8, TypeParts DEF Requeue

\* Nothing but the coroutines changes.
LEMMA OnlyTaskTypes ==
    ASSUME Types, OnlyTask, TasksOK'
    PROVE  Types' /\ UNCHANGED <<job, stage, evidence, calls>>
  <1>1. JobsOK /\ RecordsOK /\ RestOK
    BY TypeParts
  <1>2. JobsOK' /\ RecordsOK' /\ RestOK'
    BY <1>1 DEF OnlyTask, JobsOK, RecordsOK, RestOK
  <1> QED BY <1>2, TypeParts DEF OnlyTask

\* A claimed step is made by the task whose token the row holds.
LEMMA ClaimedOwns ==
    ASSUME Types, NEW t \in Tasks, NEW p, p # "idle", Claimed(t, p)
    PROVE  /\ Owns(t) /\ Busy(t) /\ task[t].pc = p /\ Newest(t)
           /\ job[task[t].job].status = "running" /\ task[t].job \in Jobs
           /\ task[t].run[1] = job[task[t].job].manual_retry_count
  <1>1. Busy(t) /\ Holds(t) /\ task[t].pc = p
    BY DEF Claimed, Live, Busy
  <1>2. task[t].job \in Jobs
    BY <1>1 DEF Types
  <1>3. task[t].run[1] = job[task[t].job].manual_retry_count
    BY <1>1 DEF Holds, RunOf
  <1> QED BY <1>1, <1>2, <1>3, OwnsClaim DEF Owns

LEMMA PcNames ==
    /\ {"read", "boundary", "begin_embedding", "embed", "embedding", "end_embedding",
        "begin_retrieval", "retrieve", "end_retrieval", "prepare", "begin_judgment",
        "judge", "judging", "end_judgment", "complete", "failing", "cancelling"}
           = Pc \ {"idle"}
    /\ {"ok", "fallback", "error", "open"} \subseteq Row
    /\ {"go", "retryable", "final", "timeout", "cancel"} = Then
    /\ {"no_match", "related_knowledge", "clarification_needed"} \subseteq Result
    /\ Stage = {"query_embedding", "retrieval", "source_judgment"}
  BY DEF Pc, Row, Then, Result, Stage, Remote

LEMMA FailingAdvances ==
    ASSUME Types, NEW t \in Tasks, Busy(t), NEW how \in Then, FailsWith(t, how)
    PROVE  /\ TasksOK'
           /\ UNCHANGED <<job, stage, evidence, calls>> => Advances(t)
  <1>1. TasksOK
    BY TypeParts
  <1>2. TasksOK' /\ OtherTasks(t) /\ Carries(t) /\ task'[t].pc = "failing"
    BY <1>1, ToFailing
  <1> QED BY <1>2 DEF Advances

LEMMA IdleAdvances ==
    ASSUME Types, NEW t \in Tasks, Busy(t), task' = [task EXCEPT ![t] = Idle]
    PROVE  /\ TasksOK'
           /\ UNCHANGED <<job, stage, evidence, calls>> => Advances(t)
  <1>1. TasksOK
    BY TypeParts
  <1>2. TasksOK' /\ OtherTasks(t) /\ task'[t].pc = "idle"
    BY <1>1, ToIdle
  <1> QED BY <1>2 DEF Advances

LEMMA TroubleStep ==
    ASSUME Types, NEW t \in Tasks,
           Trouble(t) \/ LeaseLost(t) \/ CancellationSeen(t)
    PROVE  Types' /\ Advances(t)
  <1>0. TasksOK /\ "idle" \notin Transactions
    BY TypeParts DEF Transactions
  <1> USE PcNames
  <1>1. ASSUME Busy(t), OnlyTask, task' = [task EXCEPT ![t] = Idle]
        PROVE  Types' /\ Advances(t)
    BY <1>1, IdleAdvances, OnlyTaskTypes
  <1>2. ASSUME Busy(t), OnlyTask, NEW how \in Then, FailsWith(t, how)
        PROVE  Types' /\ Advances(t)
    BY <1>2, FailingAdvances, OnlyTaskTypes
  <1>3. ASSUME Busy(t), OnlyTask, Goto(t, "cancelling")
        PROVE  Types' /\ Advances(t)
    <2>1. TasksOK' /\ OtherTasks(t) /\ Carries(t) /\ task'[t].pc = "cancelling"
      BY <1>0, <1>3, ToJust
    <2> QED BY <1>3, <2>1, OnlyTaskTypes DEF Advances
  <1>4. CASE LeaseLost(t)
    BY <1>0, <1>1, <1>4 DEF LeaseLost, Busy
  <1>5. CASE CancellationSeen(t)
    BY <1>3, <1>5 DEF CancellationSeen, Busy
  <1>6. CASE JobTimesOut(t)
    BY <1>1, <1>2, <1>6 DEF JobTimesOut, Busy
  <1>7. CASE InternalError(t)
    BY <1>0, <1>2, <1>7 DEF InternalError, Busy
  <1>8. CASE Crash(t)
    BY <1>1, <1>8 DEF Crash, Busy
  <1>9. CASE Drained(t)
    <2>1. Busy(t) /\ OnlyTask
      BY <1>9 DEF Drained, Busy
    <2>2. \/ Goto(t, "cancelling")
          \/ \E p \in {"end_embedding", "end_retrieval", "end_judgment"} :
                /\ p = "end_embedding" => task[t].pc \in {"embed", "embedding"}
                /\ p = "end_retrieval" => task[t].pc = "retrieve"
                /\ p = "end_judgment" => task[t].pc \in {"judge", "judging"}
                /\ task' = [task EXCEPT ![t].pc = p, ![t].row = "error", ![t].then = "cancel"]
      BY <1>9 DEF Drained
    <2>3. ASSUME NEW p \in {"end_embedding", "end_retrieval", "end_judgment"},
                 p = "end_embedding" => task[t].pc \in {"embed", "embedding"},
                 p = "end_retrieval" => task[t].pc = "retrieve",
                 p = "end_judgment" => task[t].pc \in {"judge", "judging"},
                 task' = [task EXCEPT ![t].pc = p, ![t].row = "error", ![t].then = "cancel"]
          PROVE  Types' /\ Advances(t)
      <3>1. /\ TasksOK' /\ OtherTasks(t) /\ Carries(t) /\ task'[t].pc = p
            /\ task'[t].row = "error" /\ task'[t].then = "cancel"
            /\ task'[t].sent = task[t].sent
        BY <1>0, <2>1, <2>3, ToEnd
      <3> QED BY <2>1, <2>3, <3>1, OnlyTaskTypes DEF Advances
    <2> QED BY <1>3, <2>1, <2>2, <2>3
  <1> QED BY <1>4, <1>5, <1>6, <1>7, <1>8, <1>9 DEF Trouble

LEMMA ReadStep ==
    ASSUME Types, NEW t \in Tasks, Read(t)
    PROVE  Types' /\ Advances(t)
  <1> USE PcNames
  <1>0. TasksOK /\ OnlyTask
    BY TypeParts DEF Read
  <1>1. Owns(t) /\ Busy(t) /\ task[t].pc = "read" /\ Newest(t)
        /\ job[task[t].job].status = "running"
    BY ClaimedOwns DEF Read
  <1>2. CASE FailsWith(t, "final")
    BY <1>0, <1>1, <1>2, FailingAdvances, OnlyTaskTypes
  <1>3. CASE /\ Clarifies(task[t].job)
             /\ task' = [task EXCEPT ![t].pc = "complete",
                                     ![t].result = "clarification_needed"]
    <2>1. /\ TasksOK' /\ OtherTasks(t) /\ Carries(t) /\ task'[t].pc = "complete"
          /\ task'[t].result = "clarification_needed"
      BY <1>0, <1>1, <1>3, ToResult
    <2> QED BY <1>0, <1>1, <1>3, <2>1, OnlyTaskTypes DEF Advances, Clarifies
  <1>4. CASE ~Clarifies(task[t].job) /\ Goto(t, "boundary")
    <2>1. TasksOK' /\ OtherTasks(t) /\ Carries(t) /\ task'[t].pc = "boundary"
      BY <1>0, <1>1, <1>4, ToJust
    <2> QED BY <1>0, <1>1, <1>4, <2>1, OnlyTaskTypes DEF Advances, Clarifies
  <1> QED BY <1>2, <1>3, <1>4 DEF Read

LEMMA JudgedEnd ==
    ASSUME TasksOK, NEW t \in Tasks, Busy(t), NEW result \in Result,
           task' = [task EXCEPT ![t].pc = "end_judgment", ![t].row = "ok",
                                ![t].then = "go", ![t].result = result]
    PROVE  /\ TasksOK' /\ OtherTasks(t) /\ Carries(t) /\ task'[t].pc = "end_judgment"
           /\ task'[t].row = "ok" /\ task'[t].then = "go"
           /\ task'[t].sent = task[t].sent /\ task'[t].result = result
  <1>1. "ok" \in Row /\ "go" \in Then /\ "end_judgment" \in Pc \ {"idle"}
    BY DEF Row, Then, Pc
  <1> QED BY <1>1, ToEndWith

LEMMA ReturnStep ==
    ASSUME Types, NEW t \in Tasks,
           EmbeddingReturns(t) \/ Retrieve(t) \/ Prepare(t) \/ JudgmentReturns(t)
    PROVE  Types' /\ Advances(t)
  <1> "final" \in Then /\ "failing" \in Pc \ {"idle"} /\ "begin_judgment" \in Pc \ {"idle"}
    BY DEF Then, Pc
  <1>0. TasksOK
    BY TypeParts
  <1>1. CASE EmbeddingReturns(t)
    <2>1. Busy(t) /\ OnlyTask /\ task[t].pc \in {"embed", "embedding"}
      BY <1>1 DEF EmbeddingReturns, Busy
    <2>2. PICK row \in {"ok", "fallback", "error"}, then \in {"go", "retryable", "final"} :
             /\ row = "error" => then # "go"
             /\ task' = [task EXCEPT ![t].pc = "end_embedding", ![t].row = row,
                                     ![t].then = then]
      BY <1>1 DEF EmbeddingReturns
    <2>3. /\ TasksOK' /\ OtherTasks(t) /\ Carries(t) /\ task'[t].pc = "end_embedding"
          /\ task'[t].row = row /\ task'[t].then = then
          /\ task'[t].sent = task[t].sent
      <3>1. row \in Row /\ then \in Then /\ "end_embedding" \in Pc \ {"idle"}
        BY DEF Row, Then, Pc
      <3> QED BY <1>0, <2>1, <2>2, <3>1, ToEnd
    <2> QED BY <2>1, <2>2, <2>3, OnlyTaskTypes DEF Advances
  <1>2. CASE Retrieve(t)
    <2>1. Busy(t) /\ OnlyTask /\ task[t].pc = "retrieve"
      BY <1>2, ClaimedOwns DEF Retrieve
    <2>2. CASE \E result \in {"no_match", "related_knowledge"} :
                  task' = [task EXCEPT ![t].pc = "end_retrieval", ![t].row = "ok",
                                       ![t].then = "go", ![t].result = result]
      <3>1. PICK result \in {"no_match", "related_knowledge"} :
                  task' = [task EXCEPT ![t].pc = "end_retrieval", ![t].row = "ok",
                                       ![t].then = "go", ![t].result = result]
        BY <2>2
      <3>2. /\ TasksOK' /\ OtherTasks(t) /\ Carries(t) /\ task'[t].pc = "end_retrieval"
            /\ task'[t].row = "ok" /\ task'[t].then = "go"
            /\ task'[t].sent = task[t].sent /\ task'[t].result = result
        <4>1. /\ "ok" \in Row /\ "go" \in Then /\ result \in Result
              /\ "end_retrieval" \in Pc \ {"idle"}
          BY DEF Row, Then, Pc, Result
        <4> QED BY <1>0, <2>1, <3>1, <4>1, ToEndWith, Zenon
      <3> QED BY <2>1, <3>1, <3>2, OnlyTaskTypes DEF Advances
    <2>3. CASE \E then \in {"final", "timeout"} :
                  task' = [task EXCEPT ![t].pc = "end_retrieval", ![t].row = "error",
                                       ![t].then = then]
      <3>1. PICK then \in {"final", "timeout"} :
                  task' = [task EXCEPT ![t].pc = "end_retrieval", ![t].row = "error",
                                       ![t].then = then]
        BY <2>3
      <3>2. /\ TasksOK' /\ OtherTasks(t) /\ Carries(t) /\ task'[t].pc = "end_retrieval"
            /\ task'[t].row = "error" /\ task'[t].then = then
            /\ task'[t].sent = task[t].sent
        <4>1. /\ "error" \in Row /\ then \in Then
              /\ "end_retrieval" \in Pc \ {"idle"}
          BY DEF Row, Then, Pc
        <4> QED BY <1>0, <2>1, <3>1, <4>1, ToEnd, Zenon
      <3> QED BY <2>1, <3>1, <3>2, OnlyTaskTypes DEF Advances
    <2> QED BY <1>2, <2>2, <2>3 DEF Retrieve
  <1>3. CASE Prepare(t)
    <2>1. Busy(t) /\ OnlyTask /\ task[t].pc = "prepare"
      BY <1>3, ClaimedOwns DEF Prepare
    <2>2. CASE FailsWith(t, "final")
      BY <2>1, <2>2, FailingAdvances, OnlyTaskTypes
    <2>3. CASE Goto(t, "begin_judgment")
      <3>1. TasksOK' /\ OtherTasks(t) /\ Carries(t) /\ task'[t].pc = "begin_judgment"
        BY <1>0, <2>1, <2>3, ToJust
      <3> QED BY <2>1, <3>1, OnlyTaskTypes DEF Advances
    <2> QED BY <1>3, <2>2, <2>3 DEF Prepare
  <1>4. CASE JudgmentReturns(t)
    <2>1. Busy(t) /\ OnlyTask /\ task[t].pc \in {"judge", "judging"}
      BY <1>4 DEF JudgmentReturns, Busy
    <2>2. CASE /\ task[t].pc = "judging"
               /\ \E result \in Result \ {"none"} :
                     task' = [task EXCEPT ![t].pc = "end_judgment", ![t].row = "ok",
                                          ![t].then = "go", ![t].result = result]
      <3>1. PICK result \in Result \ {"none"} :
                  task' = [task EXCEPT ![t].pc = "end_judgment", ![t].row = "ok",
                                       ![t].then = "go", ![t].result = result]
        BY <2>2
      <3>2. /\ TasksOK' /\ OtherTasks(t) /\ Carries(t) /\ task'[t].pc = "end_judgment"
            /\ task'[t].row = "ok" /\ task'[t].then = "go"
            /\ task'[t].sent = task[t].sent /\ task'[t].result = result
        BY <1>0, <2>1, <3>1, JudgedEnd
      <3> QED BY <2>1, <3>1, <3>2, OnlyTaskTypes DEF Advances
    <2>3. CASE \E then \in {"final", "timeout"} :
                  task' = [task EXCEPT ![t].pc = "end_judgment", ![t].row = "error",
                                       ![t].then = then]
      <3>1. PICK then \in {"final", "timeout"} :
                  task' = [task EXCEPT ![t].pc = "end_judgment", ![t].row = "error",
                                       ![t].then = then]
        BY <2>3
      <3>2. /\ TasksOK' /\ OtherTasks(t) /\ Carries(t) /\ task'[t].pc = "end_judgment"
            /\ task'[t].row = "error" /\ task'[t].then = then
            /\ task'[t].sent = task[t].sent
        <4>1. /\ "error" \in Row /\ then \in Then
              /\ "end_judgment" \in Pc \ {"idle"}
          BY DEF Row, Then, Pc
        <4> QED BY <1>0, <2>1, <3>1, <4>1, ToEnd, Zenon
      <3> QED BY <2>1, <3>1, <3>2, OnlyTaskTypes DEF Advances
    <2> QED BY <1>4, <2>2, <2>3 DEF JudgmentReturns
  <1> QED BY <1>1, <1>2, <1>3, <1>4

-----------------------------------------------------------------------------
(* The records of a round.                                                 *)

LEMMA StageWritten ==
    ASSUME RecordsOK, NEW j \in Jobs, NEW s, NEW row, s \in Stage, row \in Row,
           job[j].manual_retry_count \in Rounds,
           stage' = [stage EXCEPT ![j][job[j].manual_retry_count][s] = row]
    PROVE  /\ stage' \in [Jobs -> [0 .. MaxManualRetries -> [Stage -> Row]]]
           /\ StageSet(j, s, row)
  <1> DEFINE n == job[j].manual_retry_count
             f == stage[j]
             g == f[n]
             g2 == [g EXCEPT ![s] = row]
             f2 == [f EXCEPT ![n] = g2]
  <1>1. f \in [Rounds -> [Stage -> Row]] /\ n \in Rounds
    BY DEF RecordsOK, Rounds
  <1>2. g \in [Stage -> Row]
    BY <1>1
  <1>3. stage' = [stage EXCEPT ![j] = f2]
    OBVIOUS
  <1> HIDE DEF g, f, n
  <1>4. /\ g2 \in [Stage -> Row]
        /\ \A x \in Stage : g2[x] = IF x = s THEN row ELSE g[x]
    BY <1>2
  <1> HIDE DEF g2
  <1>5. /\ f2 \in [Rounds -> [Stage -> Row]]
        /\ \A r \in Rounds : f2[r] = IF r = n THEN g2 ELSE f[r]
    BY <1>1, <1>4
  <1> HIDE DEF f2
  <1>6. /\ stage' \in [Jobs -> [Rounds -> [Stage -> Row]]]
        /\ \A i \in Jobs : stage'[i] = IF i = j THEN f2 ELSE stage[i]
    BY <1>3, <1>5 DEF RecordsOK, Rounds
  <1>7. StageSet(j, s, row)
    <2> SUFFICES ASSUME NEW i \in Jobs, NEW r \in Rounds, NEW x \in Stage
                 PROVE  stage'[i][r][x] =
                            IF i = j /\ r = n /\ x = s THEN row ELSE stage[i][r][x]
      BY DEF StageSet, n
    <2>1. CASE i # j
      BY <1>6, <2>1
    <2>2. CASE i = j /\ r # n
      BY <1>5, <1>6, <2>2 DEF f
    <2>3. CASE i = j /\ r = n
      BY <1>4, <1>5, <1>6, <2>3 DEF f, g
    <2> QED BY <2>1, <2>2, <2>3
  <1> QED BY <1>6, <1>7 DEF Rounds

LEMMA CallWritten ==
    ASSUME RecordsOK, NEW t, NEW s, s \in Remote, task[t].job \in Jobs,
           task[t].run[1] \in Rounds,
           calls' = [calls EXCEPT ![task[t].job][task[t].run[1]][s] = @ + 1]
    PROVE  /\ calls' \in [Jobs -> [0 .. MaxManualRetries -> [Remote -> Nat]]]
           /\ Counted(t, s)
  <1> DEFINE j == task[t].job
             n == task[t].run[1]
             f == calls[j]
             g == f[n]
             g2 == [g EXCEPT ![s] = g[s] + 1]
             f2 == [f EXCEPT ![n] = g2]
  <1>1. f \in [Rounds -> [Remote -> Nat]] /\ n \in Rounds /\ j \in Jobs
    BY DEF RecordsOK, Rounds
  <1>2. g \in [Remote -> Nat]
    BY <1>1
  <1>3. calls' = [calls EXCEPT ![j] = f2]
    BY <1>1, <1>2 DEF RecordsOK
  <1> HIDE DEF g, f, n
  <1>4. /\ g2 \in [Remote -> Nat]
        /\ \A x \in Remote : g2[x] = IF x = s THEN g[x] + 1 ELSE g[x]
    BY <1>2, SMTT(30)
  <1> HIDE DEF g2
  <1>5. /\ f2 \in [Rounds -> [Remote -> Nat]]
        /\ \A r \in Rounds : f2[r] = IF r = n THEN g2 ELSE f[r]
    BY <1>1, <1>4
  <1> HIDE DEF f2, j
  <1>6. /\ calls' \in [Jobs -> [Rounds -> [Remote -> Nat]]]
        /\ \A i \in Jobs : calls'[i] = IF i = j THEN f2 ELSE calls[i]
    BY <1>1, <1>3, <1>5, ZenonT(60) DEF RecordsOK, Rounds
  <1>7. Counted(t, s)
    <2> SUFFICES ASSUME NEW i \in Jobs, NEW r \in Rounds, NEW x \in Remote
                 PROVE  calls'[i][r][x] =
                            IF i = j /\ r = n /\ x = s THEN calls[i][r][x] + 1
                            ELSE calls[i][r][x]
      BY DEF Counted, n, j
    <2>0. calls'[i] = IF i = j THEN f2 ELSE calls[i]
      BY <1>6
    <2>1. ASSUME i # j PROVE calls'[i][r][x] = calls[i][r][x]
      BY <2>0, <2>1
    <2>2. ASSUME i = j, r # n PROVE calls'[i][r][x] = calls[i][r][x]
      <3>1. calls'[i][r] = f[r]
        BY <1>5, <2>0, <2>2
      <3>2. f[r] = calls[i][r]
        BY <2>2 DEF f
      <3> QED BY <3>1, <3>2
    <2>3. ASSUME i = j, r = n PROVE calls'[i][r] = g2 /\ g = calls[i][r]
      <3>1. calls'[i][r] = g2
        BY <1>5, <2>0, <2>3
      <3>2. g = calls[i][r]
        BY <2>3 DEF f, g
      <3> QED BY <3>1, <3>2
    <2>4. ASSUME i = j, r = n, x # s PROVE calls'[i][r][x] = calls[i][r][x]
      BY <1>4, <2>3, <2>4
    <2>5. ASSUME i = j, r = n, x = s PROVE calls'[i][r][x] = calls[i][r][x] + 1
      BY <1>4, <2>3, <2>5
    <2> QED BY <2>1, <2>2, <2>4, <2>5
  <1> QED BY <1>6, <1>7 DEF Rounds

LEMMA ClaimStep ==
    ASSUME Types, NEW t \in Tasks, NEW j \in Jobs, ClaimNext(t, j)
    PROVE  Types' /\ (Stops(j) \/ TakesUp(t, j))
  <1>0. JobsOK /\ TasksOK /\ RecordsOK /\ RestOK /\ job[j] \in Job /\ RowOK(job[j])
    BY TypeParts DEF JobsOK
  <1>1. /\ UNCHANGED <<question, stage, evidence, quota, thread, session, access,
                       corpus, world, calls>>
        /\ ~Busy(t) /\ job[j].status = "queued" /\ job[j].attempt_count < MaxAttempts
    BY DEF ClaimNext, Claimable, Busy
  <1>2. RecordsOK' /\ RestOK'
    BY <1>0, <1>1 DEF RecordsOK, RestOK
  <1>3. ASSUME NEW b \in BOOLEAN, job' = [job EXCEPT ![j] = Failed(job[j], "preflight", b)],
               UNCHANGED task
        PROVE  Types' /\ Stops(j)
    <2> DEFINE q == Failed(job[j], "preflight", b)
    <2>1. /\ q \in Job /\ q.status = "failed" /\ q.lease = "null" /\ Same(q, job[j])
          /\ job[j].attempt_cost_unknown => q.attempt_cost_unknown
      BY <1>0, FailedRow, ZenonT(60) DEF FailedStages
    <2>2. job' = [job EXCEPT ![j] = q]
      BY <1>3
    <2> HIDE DEF q
    <2>3. JobsOK' /\ OtherRows(j) /\ job'[j] = q
      BY <1>0, <2>1, <2>2, RowStep DEF RowOK
    <2>4. TasksOK'
      BY <1>0, <1>3 DEF TasksOK, Busy
    <2>5. Unreferenced(j)
      BY <1>1 DEF Unreferenced
    <2> QED BY <1>1, <1>2, <1>3, <2>1, <2>3, <2>4, <2>5, TypeParts DEF Stops
  <1>4. ASSUME job' = [job EXCEPT ![j].status = "running", ![j].lease = "ahead",
                                  ![j].attempt_count = @ + 1],
               task' = [task EXCEPT ![t] =
                         [Idle EXCEPT !.pc = "read", !.job = j, !.run = RunOf(j)']]
        PROVE  Types' /\ TakesUp(t, j)
    <2> DEFINE n == job[j].attempt_count + 1
               q == [job[j] EXCEPT !.status = "running", !.lease = "ahead",
                                   !.attempt_count = n]
               rn == <<job[j].manual_retry_count, n>>
               e == [Idle EXCEPT !.pc = "read", !.job = j, !.run = rn]
    <2>1. /\ n \in 0 .. MaxAttempts /\ job[j].manual_retry_count \in 0 .. MaxManualRetries
          /\ "running" \in Status /\ "ahead" \in Lease
      BY <1>0, <1>1, AnswerAssumption DEF Job, Status, Lease
    <2>2. job' = [job EXCEPT ![j] = q]
      BY <1>0, <1>4 DEF JobsOK
    <2> HIDE DEF n
    <2>3. q \in Job
      BY <1>0, <2>1 DEF Job
    <2>4. /\ q.status = "running" /\ q.lease = "ahead" /\ q.attempt_count = n
          /\ q.manual_retry_count = job[j].manual_retry_count
          /\ q.session = job[j].session
          /\ q.corpus = job[j].corpus /\ q.context = job[j].context
      BY <1>0 DEF Job
    <2>5. q.provider_call_started = job[j].provider_call_started
      BY <1>0 DEF Job
    <2>6. q.attempt_cost_unknown = job[j].attempt_cost_unknown
      BY <1>0 DEF Job
    <2> HIDE DEF q
    <2>7. JobsOK' /\ OtherRows(j) /\ job'[j] = q
      BY <1>0, <2>2, <2>3, <2>4, RowStep DEF RowOK
    <2>8. RunOf(j)' = rn
      BY <2>4, <2>7 DEF RunOf
    <2>9. task' = [task EXCEPT ![t] = e]
      BY <1>4, <2>8
    <2>10. rn \in Run
      BY <2>1 DEF Run
    <2>11. rn = <<job[j].manual_retry_count, job[j].attempt_count + 1>>
      BY DEF n
    <2> HIDE DEF rn
    <2>12. e \in Task /\ e.pc = "read" /\ e.job = j /\ e.run = rn
      BY <2>10, WholeRows, PcNames DEF Task
    <2> HIDE DEF e
    <2>13. TasksOK' /\ OtherTasks(t) /\ task'[t] = e
      <3>1. e.job \in Jobs <=> e.pc # "idle"
        BY <2>12
      <3> QED BY <1>0, <2>9, <2>12, <3>1, OneTask DEF OtherTasks, TasksOK
    <2>14. Types'
      BY <1>2, <2>7, <2>13, TypeParts
    <2> QED BY <1>1, <2>4, <2>5, <2>6, <2>7, <2>11, <2>12, <2>13, <2>14 DEF TakesUp, n
  <1> QED BY <1>3, <1>4 DEF ClaimNext

LEMMA MarkStep ==
    ASSUME Types, NEW t \in Tasks, MarkProviderBoundary(t)
    PROVE  Types' /\ (Advances(t) \/ Marks(t))
  <1> DEFINE j == task[t].job
  <1>0. JobsOK /\ TasksOK /\ RecordsOK /\ RestOK
    BY TypeParts
  <1>1. /\ Owns(t) /\ Busy(t) /\ task[t].pc = "boundary"
        /\ job[j].status = "running" /\ j \in Jobs
    BY ClaimedOwns DEF MarkProviderBoundary
  <1>2. job[j] \in Job /\ RowOK(job[j])
    BY <1>0, <1>1 DEF JobsOK
  <1>3. UNCHANGED <<question, stage, evidence, quota, thread, session, access,
                    corpus, world, calls>>
    BY DEF MarkProviderBoundary
  <1>4. RecordsOK' /\ RestOK'
    BY <1>0, <1>3 DEF RecordsOK, RestOK
  <1>5. CASE FailsWith(t, "final") /\ UNCHANGED job
    <2>1. TasksOK' /\ Advances(t)
      BY <1>1, <1>3, <1>5, FailingAdvances DEF Then
    <2>2. JobsOK'
      BY <1>0, <1>5 DEF JobsOK
    <2> QED BY <1>4, <2>1, <2>2, TypeParts
  <1>6. CASE /\ job' = [job EXCEPT ![j].provider_call_started = TRUE]
             /\ Goto(t, "begin_embedding")
    <2> DEFINE q == [job[j] EXCEPT !.provider_call_started = TRUE]
    <2>1. job' = [job EXCEPT ![j] = q]
      BY <1>0, <1>6 DEF JobsOK
    <2>2. q \in Job
      BY <1>2 DEF Job
    <2>3. /\ q.status = job[j].status /\ q.lease = job[j].lease
          /\ q.attempt_count = job[j].attempt_count
          /\ q.manual_retry_count = job[j].manual_retry_count
          /\ q.session = job[j].session
          /\ q.corpus = job[j].corpus /\ q.context = job[j].context
      BY <1>2 DEF Job
    <2>4. q.provider_call_started = TRUE
      BY <1>2 DEF Job
    <2>5. q.attempt_cost_unknown = job[j].attempt_cost_unknown
      BY <1>2 DEF Job
    <2> HIDE DEF q
    <2>6. RowOK(q)
      BY <1>2, <2>2, <2>3 DEF RowOK
    <2> HIDE DEF j
    <2>7. JobsOK' /\ OtherRows(j) /\ job'[j] = q
      BY <1>0, <1>1, <2>1, <2>6, RowStep
    <2>8. TasksOK' /\ OtherTasks(t) /\ Carries(t) /\ task'[t].pc = "begin_embedding"
      BY <1>0, <1>1, <1>6, ToJust, PcNames
    <2> QED BY <1>1, <1>3, <1>4, <2>3, <2>4, <2>5, <2>7, <2>8, TypeParts DEF Marks, j
  <1> QED BY <1>5, <1>6 DEF MarkProviderBoundary

LEMMA BeginForm ==
    ASSUME Types, NEW t \in Tasks, NEW s, NEW allowed, NEW next, s \in Stage,
           next \in Pc \ {"idle"}, Owns(t), Begin(t, s, allowed, next)
    PROVE  /\ Types'
           /\ \/ Advances(t)
              \/ /\ allowed /\ StageSet(task[t].job, s, "open")
                 /\ Carries(t) /\ OtherTasks(t) /\ task'[t].pc = next
                 /\ UNCHANGED <<job, evidence, calls>>
  <1> DEFINE j == task[t].job
  <1>0. JobsOK /\ TasksOK /\ RecordsOK /\ RestOK /\ Busy(t) /\ j \in Jobs
    BY TypeParts DEF Owns, Types
  <1>1. UNCHANGED <<job, question, evidence, quota, thread, session, access,
                    corpus, world, calls>>
    BY DEF Begin
  <1>2. JobsOK' /\ RestOK'
    BY <1>0, <1>1 DEF JobsOK, RestOK, RowOK
  <1>3. CASE FailsWith(t, "final") /\ UNCHANGED stage
    <2>1. TasksOK' /\ Advances(t)
      BY <1>0, <1>1, <1>3, FailingAdvances DEF Then
    <2>2. RecordsOK'
      BY <1>0, <1>1, <1>3 DEF RecordsOK
    <2> QED BY <1>2, <2>1, <2>2, TypeParts
  <1>4. CASE /\ allowed
             /\ stage' = [stage EXCEPT ![j][job[j].manual_retry_count][s] = "open"]
             /\ task' = [task EXCEPT ![t].pc = next, ![t].row = "open", ![t].sent = FALSE]
    <2>1. job[j].manual_retry_count \in Rounds /\ "open" \in Row
      BY <1>0 DEF JobsOK, Job, Rounds, Row
    <2>2. /\ stage' \in [Jobs -> [0 .. MaxManualRetries -> [Stage -> Row]]]
          /\ StageSet(j, s, "open")
      BY <1>0, <1>4, <2>1, StageWritten
    <2>3. TasksOK' /\ OtherTasks(t) /\ Carries(t) /\ task'[t].pc = next
      BY <1>0, <1>4, <2>1, ToStage
    <2>4. RecordsOK'
      BY <1>0, <1>1, <2>2 DEF RecordsOK
    <2> QED BY <1>1, <1>2, <1>4, <2>2, <2>3, <2>4, TypeParts
  <1> QED BY <1>3, <1>4 DEF Begin

LEMMA BeginStep ==
    ASSUME Types, NEW t \in Tasks,
           BeginEmbedding(t) \/ BeginRetrieval(t) \/ BeginJudgment(t)
    PROVE  Types' /\ (Advances(t) \/ \E s \in Stage : Begins(t, s))
  <1> DEFINE j == task[t].job
  <1>1. CASE BeginEmbedding(t)
    <2>1. Owns(t) /\ task[t].pc = "begin_embedding"
      BY <1>1, ClaimedOwns DEF BeginEmbedding
    <2> DEFINE allowed == ContextHolds(j) /\ Rows(j)["query_embedding"] = "none"
    <2>2. Begin(t, "query_embedding", allowed, "embed")
      BY <1>1 DEF BeginEmbedding
    <2>3. "query_embedding" \in Stage /\ "embed" \in Pc \ {"idle"}
      BY DEF Stage, Remote, Pc
    <2>4. allowed => Rows(j)["query_embedding"] = "none"
      OBVIOUS
    <2> HIDE DEF allowed
    <2> QED BY <2>1, <2>2, <2>3, <2>4, BeginForm DEF Begins
  <1>2. CASE BeginRetrieval(t)
    <2>1. Owns(t) /\ task[t].pc = "begin_retrieval"
      BY <1>2, ClaimedOwns DEF BeginRetrieval
    <2> DEFINE allowed == Rows(j)["query_embedding"] \in {"ok", "fallback"}
    <2>2. Begin(t, "retrieval", allowed, "retrieve")
      BY <1>2 DEF BeginRetrieval
    <2>3. "retrieval" \in Stage \ Remote /\ "retrieve" \in Pc \ {"idle"}
      BY DEF Stage, Remote, Pc
    <2> HIDE DEF allowed
    <2> QED BY <2>1, <2>2, <2>3, BeginForm DEF Begins
  <1>3. CASE BeginJudgment(t)
    <2>1. Owns(t) /\ task[t].pc = "begin_judgment"
      BY <1>3, ClaimedOwns DEF BeginJudgment
    <2>2. PICK covered \in BOOLEAN :
             Begin(t, "source_judgment",
                   /\ covered /\ Current(j) /\ ContextHolds(j)
                   /\ Rows(j)["source_judgment"] = "none"
                   /\ Rows(j)["retrieval"] = "ok", "judge")
      BY <1>3 DEF BeginJudgment
    <2> DEFINE allowed == /\ covered /\ Current(j) /\ ContextHolds(j)
                          /\ Rows(j)["source_judgment"] = "none"
                          /\ Rows(j)["retrieval"] = "ok"
    <2>3. Begin(t, "source_judgment", allowed, "judge")
      BY <2>2
    <2>4. "source_judgment" \in Stage /\ "judge" \in Pc \ {"idle"}
      BY DEF Stage, Remote, Pc
    <2>5. allowed => Rows(j)["source_judgment"] = "none"
      OBVIOUS
    <2> HIDE DEF allowed
    <2> QED BY <2>1, <2>3, <2>4, <2>5, BeginForm DEF Begins
  <1> QED BY <1>1, <1>2, <1>3

LEMMA SendStep ==
    ASSUME Types, NEW t \in Tasks, NEW s, NEW p, s \in Remote, p \in Pc \ {"idle"},
           p = IF s = "query_embedding" THEN "embedding" ELSE "judging",
           Busy(t), Sends(t, s)
    PROVE  /\ Types' /\ Counted(t, s) /\ Carries(t) /\ task'[t].sent /\ OtherTasks(t)
           /\ task'[t].pc = p
           /\ UNCHANGED <<job, stage, evidence>>
  <1>0. JobsOK /\ TasksOK /\ RecordsOK /\ RestOK /\ task[t].job \in Jobs
    BY TypeParts DEF Types
  <1>1. task[t].run[1] \in Rounds
    BY <1>0, TaskFields DEF Rounds
  <1>2. /\ calls' \in [Jobs -> [0 .. MaxManualRetries -> [Remote -> Nat]]]
        /\ Counted(t, s)
    BY <1>0, <1>1, CallWritten DEF Sends
  <1>3. task' = [task EXCEPT ![t].sent = TRUE, ![t].pc = p]
    BY DEF Sends
  <1>4. TasksOK' /\ OtherTasks(t) /\ Carries(t) /\ task'[t].pc = p /\ task'[t].sent
    BY <1>0, <1>3, ToSent
  <1>5. JobsOK' /\ RecordsOK' /\ RestOK'
    BY <1>0, <1>2 DEF Sends, JobsOK, RecordsOK, RestOK, RowOK
  <1> QED BY <1>2, <1>4, <1>5, TypeParts DEF Sends

LEMMA EmbedStep ==
    ASSUME Types, NEW t \in Tasks, Embed(t)
    PROVE  Types' /\ Asks(t, "query_embedding")
  <1>1. Busy(t) /\ task[t].pc = "embed" /\ Sends(t, "query_embedding")
    BY DEF Embed, Busy
  <1>2. "query_embedding" \in Remote /\ "embedding" \in Pc \ {"idle"}
    BY DEF Remote, Pc
  <1> QED BY <1>1, <1>2, SendStep DEF Asks

LEMMA JudgeStep ==
    ASSUME Types, NEW t \in Tasks, Judge(t)
    PROVE  Types' /\ (Advances(t) \/ Asks(t, "source_judgment"))
  <1>1. Busy(t) /\ task[t].pc = "judge" /\ TasksOK
    BY ClaimedOwns, TypeParts DEF Judge
  <1>2. "source_judgment" \in Remote /\ "judging" \in Pc \ {"idle"}
        /\ "source_judgment" # "query_embedding"
    BY DEF Remote, Pc
  <1>3. CASE Sends(t, "source_judgment")
    BY <1>1, <1>2, <1>3, SendStep DEF Asks
  <1>4. CASE /\ task' = [task EXCEPT ![t].pc = "end_judgment", ![t].row = "error",
                                     ![t].then = "final"]
             /\ OnlyTask
    <2>1. "error" \in Row /\ "final" \in Then /\ "end_judgment" \in Pc \ {"idle"}
      BY DEF Row, Then, Pc
    <2>2. /\ TasksOK' /\ OtherTasks(t) /\ Carries(t) /\ task'[t].pc = "end_judgment"
          /\ task'[t].row = "error" /\ task'[t].then = "final"
          /\ task'[t].sent = task[t].sent
      BY <1>1, <1>4, <2>1, ToEnd
    <2> QED BY <1>1, <1>4, <2>2, OnlyTaskTypes DEF Advances
  <1> QED BY <1>3, <1>4 DEF Judge

\* Where a coroutine goes once its stage is recorded.
LEMMA AfterForm ==
    ASSUME TasksOK, NEW t \in Tasks, Busy(t), NEW next, next \in Pc \ {"idle"},
           After(t, next)
    PROVE  /\ TasksOK' /\ OtherTasks(t) /\ Carries(t)
           /\ \/ task'[t].pc \in {"failing", "cancelling"}
              \/ task[t].then = "go" /\ task'[t].pc = next
                 /\ task'[t].result = task[t].result
  <1>0. task[t].then \in Then /\ task[t].result \in Result
        /\ "cancelling" \in Pc \ {"idle"}
    BY TaskFields DEF Pc
  <1>1. CASE task[t].then = "go"
    <2>1. task' = [task EXCEPT ![t] = [Just(t, next) EXCEPT !.result = task[t].result]]
      BY <1>1 DEF After
    <2> QED BY <1>0, <1>1, <2>1, ToJustWith, ZenonT(60)
  <1>2. CASE task[t].then = "cancel"
    <2>1. Goto(t, "cancelling")
      BY <1>2 DEF After
    <2> QED BY <1>0, <2>1, ToJust
  <1>3. CASE task[t].then \notin {"go", "cancel"}
    <2>1. FailsWith(t, task[t].then)
      BY <1>3 DEF After
    <2> QED BY <1>0, <2>1, ToFailing
  <1> QED BY <1>1, <1>2, <1>3

LEMMA FinishForm ==
    ASSUME Types, NEW t \in Tasks, Owns(t), NEW s, NEW next, s \in Stage,
           next \in Pc \ {"idle"}, FinishStage(t, s, next)
    PROVE  LET j == task[t].job IN
           /\ Types' /\ Rows(j)[s] = "open" /\ StageSet(j, s, task[t].row)
           /\ Same(job'[j], job[j]) /\ job'[j].status = "running"
           /\ job[j].attempt_cost_unknown => job'[j].attempt_cost_unknown
           /\ task[t].sent /\ task[t].row # "ok" => job'[j].attempt_cost_unknown
           /\ OtherRows(j) /\ OtherTasks(t) /\ Carries(t)
           /\ \/ task'[t].pc \in {"failing", "cancelling"}
              \/ task[t].then = "go" /\ task'[t].pc = next
                 /\ task'[t].result = task[t].result
           /\ UNCHANGED <<evidence, calls>>
  <1> DEFINE j == task[t].job
  <1>0. /\ JobsOK /\ TasksOK /\ RecordsOK /\ RestOK /\ Busy(t) /\ j \in Jobs
        /\ job[j].status = "running"
    BY TypeParts DEF Owns, Types
  <1>1. job[j] \in Job /\ RowOK(job[j]) /\ job[j].manual_retry_count \in Rounds
    BY <1>0 DEF JobsOK, Job, Rounds
  <1>2. task[t].row \in Row /\ task[t].sent \in BOOLEAN
    BY <1>0, TaskFields
  <1>3. /\ stage' \in [Jobs -> [0 .. MaxManualRetries -> [Stage -> Row]]]
        /\ StageSet(j, s, task[t].row)
    BY <1>0, <1>1, <1>2, StageWritten DEF FinishStage
  <1>4. PICK u \in Uncertainties(s, task[t].row, task[t].sent) :
           job' = [job EXCEPT ![j] = Finished(@, s, task[t].row, task[t].sent, u)]
    BY DEF FinishStage
  <1>5. u \in BOOLEAN
    BY <1>2, <1>4 DEF Uncertainties
  <1> DEFINE q == Finished(job[j], s, task[t].row, task[t].sent, u)
  <1>6. /\ q \in Job /\ q.status = job[j].status /\ q.lease = job[j].lease
        /\ Same(q, job[j])
        /\ q.attempt_cost_unknown =
               (job[j].attempt_cost_unknown \/ u \/ (task[t].sent /\ task[t].row # "ok"))
    BY <1>1, <1>2, <1>5, FinishedRow
  <1>7. job' = [job EXCEPT ![j] = q]
    BY <1>0, <1>4 DEF JobsOK
  <1> HIDE DEF q
  <1>8. JobsOK' /\ OtherRows(j) /\ job'[j] = q
    BY <1>0, <1>1, <1>6, <1>7, RowStep, ZenonT(60) DEF RowOK
  <1>9. /\ TasksOK' /\ OtherTasks(t) /\ Carries(t)
        /\ \/ task'[t].pc \in {"failing", "cancelling"}
           \/ task[t].then = "go" /\ task'[t].pc = next
              /\ task'[t].result = task[t].result
    BY <1>0, AfterForm DEF FinishStage
  <1>10. UNCHANGED <<question, evidence, quota, thread, session, access, corpus, world, calls>>
         /\ Rows(j)[s] = "open"
    BY DEF FinishStage
  <1>11. RecordsOK' /\ RestOK'
    BY <1>0, <1>3, <1>10 DEF RecordsOK, RestOK
  <1>12. Types'
    BY <1>8, <1>9, <1>11, TypeParts
  <1> QED BY <1>0, <1>3, <1>6, <1>8, <1>9, <1>10, <1>12

LEMMA EndStep ==
    ASSUME Types, NEW t \in Tasks,
           EndEmbedding(t) \/ EndRetrieval(t) \/ EndJudgment(t)
    PROVE  Types' /\ \E s \in Stage : Records(t, s)
  <1>1. CASE EndEmbedding(t)
    <2>1. /\ Owns(t) /\ task[t].pc = "end_embedding"
          /\ FinishStage(t, "query_embedding", "begin_retrieval")
      BY <1>1, ClaimedOwns DEF EndEmbedding
    <2>2. "query_embedding" \in Stage /\ "begin_retrieval" \in Pc \ {"idle"}
      BY DEF Stage, Remote, Pc
    <2> QED BY <2>1, <2>2, FinishForm DEF Records
  <1>2. CASE EndRetrieval(t)
    <2> DEFINE next == IF task[t].result = "no_match" THEN "complete" ELSE "prepare"
    <2>1. /\ Owns(t) /\ task[t].pc = "end_retrieval"
          /\ FinishStage(t, "retrieval", next)
      BY <1>2, ClaimedOwns DEF EndRetrieval
    <2>2. "retrieval" \in Stage /\ next \in Pc \ {"idle"}
      BY DEF Stage, Remote, Pc
    <2>3. \/ next = "complete" /\ task[t].result = "no_match"
          \/ next = "prepare"
      OBVIOUS
    <2> HIDE DEF next
    <2> QED BY <2>1, <2>2, <2>3, FinishForm DEF Records
  <1>3. CASE EndJudgment(t)
    <2>1. /\ Owns(t) /\ task[t].pc = "end_judgment"
          /\ FinishStage(t, "source_judgment", "complete")
      BY <1>3, ClaimedOwns DEF EndJudgment
    <2>2. "source_judgment" \in Stage /\ "complete" \in Pc \ {"idle"}
      BY DEF Stage, Remote, Pc
    <2> QED BY <2>1, <2>2, FinishForm DEF Records
  <1> QED BY <1>1, <1>2, <1>3

LEMMA CompleteStep ==
    ASSUME Types, NEW t \in Tasks, CompleteSource(t)
    PROVE  Types' /\ (Advances(t) \/ Completes(t))
  <1> DEFINE j == task[t].job
  <1>0. /\ JobsOK /\ TasksOK /\ RecordsOK /\ RestOK
        /\ Owns(t) /\ Busy(t) /\ task[t].pc = "complete" /\ j \in Jobs
        /\ job[j].status = "running"
    BY TypeParts, ClaimedOwns DEF CompleteSource
  <1>1. /\ job[j] \in Job /\ RowOK(job[j]) /\ job[j].manual_retry_count \in Rounds
        /\ task[t].result \in Result
    BY <1>0, TaskFields DEF JobsOK, Job, Rounds
  <1>2. UNCHANGED <<question, stage, quota, thread, session, access, corpus, world, calls>>
    BY DEF CompleteSource
  <1>3. RestOK'
    BY <1>0, <1>2 DEF RestOK
  <1>4. CASE FailsWith(t, "final") /\ UNCHANGED <<job, evidence>>
    <2>1. TasksOK' /\ Advances(t)
      BY <1>0, <1>2, <1>4, FailingAdvances DEF Then
    <2>2. JobsOK' /\ RecordsOK'
      BY <1>0, <1>2, <1>4 DEF JobsOK, RecordsOK, RowOK
    <2> QED BY <1>3, <2>1, <2>2, TypeParts
  <1>5. CASE /\ MayComplete(t)
             /\ job' = [job EXCEPT ![j].status = "completed", ![j].lease = "null",
                                    ![j].error_retryable = FALSE,
                                    ![j].result_kind = task[t].result]
             /\ evidence' = [evidence EXCEPT ![j] =
                     IF task[t].result = "related_knowledge"
                       THEN [round |-> job[j].manual_retry_count, corpus |-> corpus]
                       ELSE NoEvidence]
             /\ task' = [task EXCEPT ![t] = Idle]
    <2> DEFINE q == [job[j] EXCEPT !.status = "completed", !.lease = "null",
                                   !.error_retryable = FALSE,
                                   !.result_kind = task[t].result]
               e == IF task[t].result = "related_knowledge"
                       THEN [round |-> job[j].manual_retry_count, corpus |-> corpus]
                       ELSE NoEvidence
    <2>1. "completed" \in Status /\ "null" \in Lease
      BY DEF Status, Lease
    <2>2. job' = [job EXCEPT ![j] = q]
      BY <1>0, <1>5 DEF JobsOK
    <2>3. q \in Job
      BY <1>1, <2>1 DEF Job
    <2>4. /\ q.status = "completed" /\ q.lease = "null"
          /\ q.attempt_count = job[j].attempt_count
          /\ q.manual_retry_count = job[j].manual_retry_count
          /\ q.session = job[j].session
          /\ q.corpus = job[j].corpus /\ q.context = job[j].context
          /\ q.result_kind = task[t].result
      BY <1>1 DEF Job
    <2>5. q.provider_call_started = job[j].provider_call_started
      BY <1>1 DEF Job
    <2>6. q.attempt_cost_unknown = job[j].attempt_cost_unknown
      BY <1>1 DEF Job
    <2> HIDE DEF q
    <2>7. RowOK(q)
      BY <2>3, <2>4 DEF RowOK
    <2>8. corpus = job[j].corpus
      BY <1>5 DEF MayComplete, Current
    <2>9. e \in [round : -1 .. MaxManualRetries, corpus : -1 .. MaxCorpus]
      <3>1. job[j].manual_retry_count \in -1 .. MaxManualRetries
            /\ corpus \in -1 .. MaxCorpus
        BY <1>0, <1>1, AnswerAssumption DEF RestOK, Rounds
      <3> QED BY <3>1, WholeRows
    <2>10. evidence' = [evidence EXCEPT ![j] = e]
      BY <1>5
    <2>11. TasksOK' /\ OtherTasks(t) /\ task'[t].pc = "idle"
      BY <1>0, <1>5, ToIdle
    <2> HIDE DEF j, e
    <2>12. JobsOK' /\ OtherRows(j) /\ job'[j] = q
      BY <1>0, <2>2, <2>7, RowStep
    <2>13. RecordsOK' /\ evidence'[j] = e /\ \A i \in Jobs \ {j} : evidence'[i] = evidence[i]
      BY <1>0, <1>2, <2>9, <2>10 DEF RecordsOK
    <2>14. Types'
      BY <1>3, <2>11, <2>12, <2>13, TypeParts
    <2> QED BY <1>0, <1>2, <2>4, <2>5, <2>6, <2>8, <2>11, <2>12, <2>13, <2>14
            DEF Completes, j, e
  <1> QED BY <1>4, <1>5 DEF CompleteSource

LEMMA FailStep ==
    ASSUME Types, NEW t \in Tasks, Fail(t)
    PROVE  Types' /\ (Advances(t) \/ GivesUp(t))
  <1> DEFINE j == task[t].job
             doubt == Unfinished(j) \/ (task[t].then = "timeout" /\ At(j) \in Remote)
             retryable == task[t].then \in {"retryable", "timeout"}
  <1>0. /\ JobsOK /\ TasksOK /\ RecordsOK /\ RestOK
        /\ Busy(t) /\ task[t].pc = "failing" /\ j \in Jobs
    BY TypeParts DEF Fail, Busy, Types
  <1>1. job[j] \in Job /\ RowOK(job[j])
    BY <1>0 DEF JobsOK
  <1>2. /\ UNCHANGED <<question, stage, evidence, quota, thread, session, access,
                       corpus, world, calls>>
        /\ task' = [task EXCEPT ![t] = Idle]
    BY DEF Fail
  <1>3. RestOK' /\ RecordsOK'
    BY <1>0, <1>2 DEF RestOK, RecordsOK
  <1>4. CASE ~Holds(t)
    <2>1. job' = job
      BY <1>4 DEF Fail
    <2>2. TasksOK' /\ Advances(t)
      BY <1>0, <1>2, <2>1, IdleAdvances
    <2>3. JobsOK'
      BY <1>0, <2>1 DEF JobsOK, RowOK
    <2> QED BY <1>3, <2>2, <2>3, TypeParts
  <1>5. CASE Holds(t)
    <2> DEFINE d == Doubted(job[j], doubt)
               q == Failed(d, At(j), retryable)
    <2>1. doubt \in BOOLEAN /\ retryable \in BOOLEAN /\ At(j) \in FailedStages
      BY <1>0, AtType DEF Unfinished
    <2>2. job' = [job EXCEPT ![j] = q]
      BY <1>0, <1>5 DEF Fail, JobsOK
    <2>3. Unfinished(j) => doubt
      OBVIOUS
    <2> HIDE DEF doubt, retryable
    <2>4. /\ d \in Job /\ d.lease = job[j].lease /\ Same(d, job[j])
          /\ d.attempt_cost_unknown = (job[j].attempt_cost_unknown \/ doubt)
      BY <1>1, <2>1, DoubtedRow
    <2> HIDE DEF d
    <2>5. /\ q \in Job /\ q.status = "failed" /\ q.lease = "null" /\ Same(q, d)
          /\ d.attempt_cost_unknown => q.attempt_cost_unknown
      BY <2>1, <2>4, FailedRow
    <2> HIDE DEF q
    <2>6. Same(q, job[j])
      BY <2>4, <2>5 DEF Same
    <2>7. Owns(t)
      BY <1>0, <1>5, OwnsClaim
    <2>8. TasksOK' /\ OtherTasks(t) /\ task'[t].pc = "idle"
      BY <1>0, <1>2, ToIdle
    <2> HIDE DEF j
    <2>9. JobsOK' /\ OtherRows(j) /\ job'[j] = q
      BY <1>0, <2>2, <2>5, RowStep DEF RowOK
    <2>10. Unreferenced(j)
      BY <1>2 DEF Unreferenced
    <2>11. job[j].attempt_cost_unknown \/ Unfinished(j) => job'[j].attempt_cost_unknown
      BY <2>3, <2>4, <2>5, <2>9
    <2>12. Types'
      BY <1>3, <2>8, <2>9, TypeParts
    <2> QED BY <1>0, <1>2, <2>5, <2>6, <2>7, <2>8, <2>9, <2>10, <2>11, <2>12
            DEF GivesUp, j
  <1> QED BY <1>4, <1>5

LEMMA CancelClaimStep ==
    ASSUME Types, NEW t \in Tasks, CancelClaim(t)
    PROVE  Types' /\ (Advances(t) \/ GivesUp(t))
  <1> DEFINE j == task[t].job
             due == Holds(t) /\ job[j].cancellation_requested
  <1>0. /\ JobsOK /\ TasksOK /\ RecordsOK /\ RestOK
        /\ Busy(t) /\ task[t].pc = "cancelling" /\ j \in Jobs
    BY TypeParts DEF CancelClaim, Busy, Types
  <1>1. job[j] \in Job /\ RowOK(job[j])
    BY <1>0 DEF JobsOK
  <1>2. /\ UNCHANGED <<question, stage, quota, thread, session, access,
                       corpus, world, calls>>
        /\ task' = [task EXCEPT ![t] = Idle]
    BY DEF CancelClaim
  <1>3. RestOK'
    BY <1>0, <1>2 DEF RestOK
  <1>4. CASE ~due
    <2>1. job' = job /\ evidence' = evidence
      BY <1>4 DEF CancelClaim
    <2>2. TasksOK' /\ Advances(t)
      BY <1>0, <1>2, <2>1, IdleAdvances
    <2>3. JobsOK' /\ RecordsOK'
      BY <1>0, <1>2, <2>1 DEF JobsOK, RowOK, RecordsOK
    <2> QED BY <1>3, <2>2, <2>3, TypeParts
  <1>5. CASE due
    <2> DEFINE d == Doubted(job[j], Unfinished(j))
               at == At(j)
               q == [d EXCEPT !.status = "cancelled", !.failed_stage = at,
                              !.error_retryable = FALSE, !.lease = "null"]
    <2>1. Unfinished(j) \in BOOLEAN /\ at \in FailedStages /\ Holds(t)
      BY <1>0, <1>5, AtType DEF Unfinished
    <2>2. job' = [job EXCEPT ![j] = q]
      BY <1>0, <1>5 DEF CancelClaim, JobsOK
    <2> HIDE DEF at
    <2>4. /\ d \in Job /\ d.lease = job[j].lease /\ Same(d, job[j])
          /\ d.attempt_cost_unknown = (job[j].attempt_cost_unknown \/ Unfinished(j))
      BY <1>1, <2>1, DoubtedRow
    <2> HIDE DEF d
    <2>5. q \in Job /\ q.status = "cancelled" /\ q.lease = "null" /\ Same(q, d)
      BY <2>1, <2>4, CancelledRow
    <2>6. q.attempt_cost_unknown = d.attempt_cost_unknown
      BY <2>4 DEF Job
    <2> HIDE DEF q
    <2>7. Same(q, job[j])
      BY <2>4, <2>5 DEF Same
    <2>8. Owns(t)
      BY <1>0, <2>1, OwnsClaim
    <2>9. TasksOK' /\ OtherTasks(t) /\ task'[t].pc = "idle"
      BY <1>0, <1>2, ToIdle
    <2>10. evidence' = [evidence EXCEPT ![j] = NoEvidence]
      BY <1>5 DEF CancelClaim
    <2> HIDE DEF j
    <2>11. JobsOK' /\ OtherRows(j) /\ job'[j] = q
      BY <1>0, <2>2, <2>5, RowStep DEF RowOK
    <2>12. RecordsOK' /\ Unreferenced(j)
      BY <1>0, <1>2, <2>10, NothingReferenced DEF RecordsOK
    <2>13. job[j].attempt_cost_unknown \/ Unfinished(j) => job'[j].attempt_cost_unknown
      BY <2>4, <2>6, <2>11
    <2>14. Types'
      BY <1>3, <2>9, <2>11, <2>12, TypeParts
    <2> QED BY <1>0, <1>2, <2>5, <2>7, <2>8, <2>9, <2>11, <2>12, <2>13, <2>14
            DEF GivesUp, j
  <1> QED BY <1>4, <1>5

LEMMA RecoverStep ==
    ASSUME Types, Recover
    PROVE  Types' /\ TakesBack
  <1>0. JobsOK /\ TasksOK /\ RecordsOK /\ RestOK
    BY TypeParts
  <1>1. UNCHANGED <<question, stage, quota, thread, session, access, corpus, world, task,
                    calls>>
    BY DEF Recover
  <1>2. job' = [j \in Jobs |-> IF j \in Expired THEN Recovered(j) ELSE job[j]]
    BY DEF Recover
  <1>3. evidence' = [j \in Jobs |->
                       IF j \in Expired /\ job[j].cancellation_requested
                         THEN NoEvidence ELSE evidence[j]]
    BY DEF Recover
  <1>4. ASSUME NEW j \in Jobs
        PROVE  /\ RowOK(job'[j])
               /\ j \in Expired => TakenBack(j)
               /\ j \notin Expired => Alike(j)
    <2>1. RowOK(job[j])
      BY <1>0 DEF JobsOK
    <2>2. CASE j \in Expired
      <3>1. job'[j] = Recovered(j) /\ job[j].status = "running"
        BY <1>2, <2>2 DEF Expired
      <3> QED BY <2>1, <2>2, <3>1, RecoveredRow DEF TakenBack
    <2>3. CASE j \notin Expired
      <3>1. job'[j] = job[j]
        BY <1>2, <2>3
      <3> QED BY <2>1, <2>3, <3>1 DEF Alike, Same
    <2> QED BY <2>2, <2>3
  <1>5. JobsOK'
    <2>1. job' = [j \in Jobs |-> job'[j]]
      BY <1>2
    <2> QED BY <1>4, <2>1 DEF JobsOK, RowOK
  <1>6. RecordsOK'
    BY <1>0, <1>1, <1>3, WholeRows DEF RecordsOK
  <1>7. TasksOK' /\ RestOK'
    BY <1>0, <1>1 DEF TasksOK, RestOK, Busy
  <1> QED BY <1>1, <1>3, <1>4, <1>5, <1>6, <1>7, TypeParts DEF TakesBack

\* Every step is one of these to the columns the theorems read.
Shapes ==
    \/ Still
    \/ \E js \in SUBSET Jobs : Drops(js)
    \/ \E j \in Jobs : Admits(j) \/ Stops(j) \/ Requeue(j)
    \/ \E t \in Tasks, j \in Jobs : TakesUp(t, j)
    \/ \E t \in Tasks : Advances(t) \/ Marks(t) \/ Completes(t) \/ GivesUp(t)
    \/ \E t \in Tasks, s \in Stage : Begins(t, s) \/ Records(t, s)
    \/ \E t \in Tasks, s \in Remote : Asks(t, s)
    \/ TakesBack

LEMMA StepShapes == Types /\ [Next]_vars => Types' /\ Shapes
  <1> SUFFICES ASSUME Types, [Next]_vars PROVE Types' /\ Shapes
    OBVIOUS
  <1>0. world.keys \subseteq Keys /\ world.slots \subseteq Tasks
    BY TypeParts, AnswerAssumption DEF RestOK
  <1>1. CASE UNCHANGED vars
    <2>1. RestOK'
      BY <1>1, TypeParts DEF vars, RestOK
    <2> QED BY <1>1, <2>1, StillStep DEF vars, Shapes
  <1>2. CASE UserStep
    <2>1. ASSUME NEW th \in Threads, CreateThread(th) \/ DeleteThread(th)
          PROVE  Types' /\ Shapes
      BY <2>1, SurroundingStep DEF Shapes
    <2>2. ASSUME NEW j \in Jobs, NEW th \in Threads, NEW k \in Keys, NEW s \in Sessions,
                 NEW c \in Context, Ask(j, th, k, s, c)
          PROVE  Types' /\ Shapes
      BY <2>2, AskStep DEF Shapes
    <2>3. ASSUME NEW j \in Jobs, Cancel(j) PROVE Types' /\ Shapes
      BY <2>3, CancelStep DEF Shapes
    <2>4. ASSUME NEW j \in Jobs, NEW k \in Keys, NEW s \in Sessions, Retry(j, k, s)
          PROVE  Types' /\ Shapes
      BY <2>4, RetryStep DEF Shapes
    <2> QED BY <1>0, <1>2, <2>1, <2>2, <2>3, <2>4 DEF UserStep
  <1>3. CASE Surrounding
    BY <1>3, SurroundingStep DEF Shapes
  <1>4. CASE Claims
    <2>1. PICK t \in Tasks, j \in Jobs : ClaimNext(t, j)
      BY <1>0, <1>4 DEF Claims
    <2> QED BY <2>1, ClaimStep DEF Shapes
  <1>5. CASE Recover
    BY <1>5, RecoverStep DEF Shapes
  <1>6. ASSUME NEW t \in Tasks, Work(t) \/ Trouble(t) PROVE Types' /\ Shapes
    <2>1. CASE Trouble(t) \/ LeaseLost(t) \/ CancellationSeen(t)
      BY <2>1, TroubleStep DEF Shapes
    <2>2. CASE Read(t)
      BY <2>2, ReadStep DEF Shapes
    <2>3. CASE MarkProviderBoundary(t)
      BY <2>3, MarkStep DEF Shapes
    <2>4. CASE BeginEmbedding(t) \/ BeginRetrieval(t) \/ BeginJudgment(t)
      BY <2>4, BeginStep DEF Shapes
    <2>5. CASE Embed(t) \/ Judge(t)
      BY <2>5, EmbedStep, JudgeStep DEF Shapes, Remote
    <2>6. CASE EmbeddingReturns(t) \/ Retrieve(t) \/ Prepare(t) \/ JudgmentReturns(t)
      BY <2>6, ReturnStep DEF Shapes
    <2>7. CASE EndEmbedding(t) \/ EndRetrieval(t) \/ EndJudgment(t)
      BY <2>7, EndStep DEF Shapes
    <2>8. CASE CompleteSource(t)
      BY <2>8, CompleteStep DEF Shapes
    <2>9. CASE Fail(t) \/ CancelClaim(t)
      BY <2>9, FailStep, CancelClaimStep DEF Shapes
    <2> QED BY <1>6, <2>1, <2>2, <2>3, <2>4, <2>5, <2>6, <2>7, <2>8, <2>9 DEF Work
  <1> QED BY <1>1, <1>2, <1>3, <1>4, <1>5, <1>6 DEF Next

-----------------------------------------------------------------------------
(* Claims and the boundary.                                                *)

\* Rows only move on: a job is asked once and deleted once, and its counters grow.
RowsGrow ==
    \A j \in Jobs :
        /\ job[j].status # "absent" => job'[j].status # "absent"
        /\ Gone(j) => Gone(j)'
        /\ \/ Gone(j)' \/ job[j].status = "absent"
           \/ job'[j].manual_retry_count > job[j].manual_retry_count
           \/ /\ job'[j].manual_retry_count = job[j].manual_retry_count
              /\ job'[j].attempt_count >= job[j].attempt_count

LEMMA RowTypes ==
    ASSUME Types, NEW j \in Jobs
    PROVE  /\ job[j] \in Job
           /\ job[j].manual_retry_count \in Nat /\ job[j].attempt_count \in Nat
           /\ job[j].manual_retry_count \in Rounds
  <1>1. job[j] \in Job
    BY TypeParts DEF JobsOK
  <1> QED BY <1>1, AnswerAssumption DEF Job, Rounds

LEMMA RowTypesNext ==
    ASSUME Types', NEW j \in Jobs
    PROVE  /\ job'[j] \in Job
           /\ job'[j].manual_retry_count \in Nat /\ job'[j].attempt_count \in Nat
           /\ job'[j].manual_retry_count \in Rounds
  <1>1. job'[j] \in Job
    BY TypeParts DEF JobsOK
  <1> QED BY <1>1, AnswerAssumption DEF Job, Rounds

LEMMA RunTypes ==
    ASSUME Types, NEW t \in Tasks, Busy(t)
    PROVE  /\ task[t].job \in Jobs
           /\ task[t].run[1] \in Nat /\ task[t].run[2] \in Nat
           /\ task[t].run[1] \in Rounds
  <1>1. /\ task[t].job \in Jobs /\ task[t].run[1] \in 0 .. MaxManualRetries
        /\ task[t].run[2] \in 0 .. MaxAttempts
    BY TypeParts, TaskFields
  <1> QED BY <1>1, AnswerAssumption DEF Rounds

LEMMA Growing == Types /\ Shapes => RowsGrow
  <1> SUFFICES ASSUME Types, Shapes, NEW j \in Jobs
               PROVE  /\ job[j].status # "absent" => job'[j].status # "absent"
                      /\ Gone(j) => Gone(j)'
                      /\ \/ Gone(j)' \/ job[j].status = "absent"
                         \/ job'[j].manual_retry_count > job[j].manual_retry_count
                         \/ /\ job'[j].manual_retry_count = job[j].manual_retry_count
                            /\ job'[j].attempt_count >= job[j].attempt_count
    BY DEF RowsGrow
  <1> USE DEF Gone, Alike, Same, OtherRows
  <1>0. job[j].manual_retry_count \in Nat /\ job[j].attempt_count \in Nat
    BY RowTypes
  <1>1. CASE Still
    BY <1>0, <1>1 DEF Still
  <1>2. ASSUME NEW js \in SUBSET Jobs, Drops(js) PROVE RowsGrow
    BY <1>2, RowTypes DEF Drops, RowsGrow
  <1>3. ASSUME NEW i \in Jobs, Admits(i) \/ Stops(i) \/ Requeue(i) PROVE RowsGrow
    BY <1>3, RowTypes DEF Admits, Stops, Requeue, RowsGrow
  <1>4. ASSUME NEW t \in Tasks, NEW i \in Jobs, TakesUp(t, i) PROVE RowsGrow
    BY <1>4, RowTypes DEF TakesUp, RowsGrow
  <1>5. ASSUME NEW t \in Tasks, Advances(t) PROVE RowsGrow
    BY <1>5, RowTypes DEF Advances, RowsGrow
  <1>6. ASSUME NEW t \in Tasks, Marks(t) \/ Completes(t) \/ GivesUp(t) PROVE RowsGrow
    <2>1. task[t].job \in Jobs
      BY <1>6, RunTypes DEF Marks, Completes, GivesUp, Owns
    <2>2. CASE Marks(t)
      BY <2>1, <2>2, RowTypes DEF Marks, Owns, RowsGrow
    <2>3. CASE Completes(t)
      BY <2>1, <2>3, RowTypes DEF Completes, Owns, RowsGrow
    <2>4. CASE GivesUp(t)
      BY <2>1, <2>4, RowTypes DEF GivesUp, Owns, RowsGrow
    <2> QED BY <1>6, <2>2, <2>3, <2>4
  <1>7. ASSUME NEW t \in Tasks, NEW s \in Stage, Begins(t, s) PROVE RowsGrow
    BY <1>7, RowTypes DEF Begins, RowsGrow
  <1>8. ASSUME NEW t \in Tasks, NEW s \in Stage, Records(t, s) PROVE RowsGrow
    <2>1. task[t].job \in Jobs /\ job[task[t].job].status = "running"
      BY <1>8, RunTypes DEF Records, Owns
    <2> QED BY <1>8, <2>1, RowTypes DEF Records, RowsGrow
  <1>9. ASSUME NEW t \in Tasks, NEW s \in Remote, Asks(t, s) PROVE RowsGrow
    BY <1>9, RowTypes DEF Asks, RowsGrow
  <1>10. CASE TakesBack
    BY <1>0, <1>10 DEF TakesBack, TakenBack
  <1> QED BY <1>1, <1>2, <1>3, <1>4, <1>5, <1>6, <1>7, <1>8, <1>9, <1>10
          DEF Shapes, RowsGrow

\* A coroutine at work was at work before, on the same claim, or has just made one.
LEMMA Origins ==
    ASSUME Types, Shapes, NEW t \in Tasks, Busy(t)'
    PROVE  (Busy(t) /\ Carries(t)) \/ \E j \in Jobs : TakesUp(t, j)
  <1> USE DEF Busy, Carries, OtherTasks
  <1>1. CASE Still \/ TakesBack
    BY <1>1 DEF Still, TakesBack
  <1>2. ASSUME NEW js \in SUBSET Jobs, Drops(js) PROVE Busy(t) /\ Carries(t)
    BY <1>2 DEF Drops
  <1>3. ASSUME NEW i \in Jobs, Admits(i) \/ Stops(i) \/ Requeue(i)
        PROVE Busy(t) /\ Carries(t)
    BY <1>3 DEF Admits, Stops, Requeue
  <1>4. ASSUME NEW u \in Tasks, NEW i \in Jobs, TakesUp(u, i), u # t
        PROVE Busy(t) /\ Carries(t)
    BY <1>4 DEF TakesUp
  <1>5. ASSUME NEW u \in Tasks, Advances(u) PROVE Busy(t) /\ Carries(t)
    BY <1>5 DEF Advances
  <1>6. ASSUME NEW u \in Tasks, Marks(u) \/ Completes(u) \/ GivesUp(u)
        PROVE Busy(t) /\ Carries(t)
    BY <1>6 DEF Marks, Completes, GivesUp, Owns
  <1>7. ASSUME NEW u \in Tasks, NEW s \in Stage, Begins(u, s) \/ Records(u, s)
        PROVE Busy(t) /\ Carries(t)
    BY <1>7 DEF Begins, Records, Owns
  <1>8. ASSUME NEW u \in Tasks, NEW s \in Remote, Asks(u, s)
        PROVE Busy(t) /\ Carries(t)
    BY <1>8 DEF Asks
  <1> QED BY <1>1, <1>2, <1>3, <1>4, <1>5, <1>6, <1>7, <1>8 DEF Shapes

\* An old claim does not become the newest.
LEMMA NewestBack ==
    ASSUME Types, Types', RunsBehind, Shapes, NEW t \in Tasks, Busy(t), Carries(t),
           Newest(t)'
    PROVE  Newest(t)
  <1>1. task[t].job \in Jobs /\ task[t].run[1] \in Nat /\ task[t].run[2] \in Nat
    BY RunTypes
  <1>2. RowsGrow
    BY Growing
  <1>3. /\ job[task[t].job].manual_retry_count \in Nat
        /\ job[task[t].job].attempt_count \in Nat
        /\ (job[task[t].job].manual_retry_count \in Nat)'
        /\ (job[task[t].job].attempt_count \in Nat)'
    <2>1. (task[t].job)' \in Jobs
      BY <1>1 DEF Carries
    <2> QED BY <1>1, <2>1, RowTypes, RowTypesNext DEF Carries
  <1> QED BY <1>1, <1>2, <1>3 DEF RowsGrow, RunsBehind, Newest, Carries, Gone

LEMMA RunsBehindKept ==
    ASSUME Types, Types', RunsBehind, Shapes
    PROVE  RunsBehind'
  <1>1. RowsGrow
    BY Growing
  <1> SUFFICES ASSUME NEW t \in Tasks, Busy(t)'
               PROVE  /\ job'[task'[t].job].status # "absent"
                      /\ \/ job'[task'[t].job].status = "deleted"
                         \/ task'[t].run[1] < job'[task'[t].job].manual_retry_count
                         \/ /\ task'[t].run[1] = job'[task'[t].job].manual_retry_count
                            /\ task'[t].run[2] <= job'[task'[t].job].attempt_count
    BY DEF RunsBehind, Gone
  <1>2. CASE Busy(t) /\ Carries(t)
    <2>1. task[t].job \in Jobs /\ task[t].run[1] \in Nat /\ task[t].run[2] \in Nat
      BY <1>2, RunTypes
    <2>2. /\ job[task[t].job].manual_retry_count \in Nat
          /\ job[task[t].job].attempt_count \in Nat
      BY <2>1, RowTypes
    <2>3. /\ job'[task[t].job].manual_retry_count \in Nat
          /\ job'[task[t].job].attempt_count \in Nat
      BY <2>1, RowTypesNext
    <2> QED BY <1>1, <1>2, <2>1, <2>2, <2>3 DEF RowsGrow, RunsBehind, Carries, Gone
  <1>3. ASSUME NEW j \in Jobs, TakesUp(t, j)
        PROVE  /\ job'[j].status # "absent" /\ task'[t].job = j
               /\ task'[t].run[1] = job'[j].manual_retry_count
               /\ task'[t].run[2] = job'[j].attempt_count
    BY <1>3 DEF TakesUp
  <1>4. CASE \E j \in Jobs : TakesUp(t, j)
    <2>1. PICK j \in Jobs : TakesUp(t, j)
      BY <1>4
    <2>2. job'[j].attempt_count \in Nat
      BY RowTypesNext
    <2> QED BY <1>3, <2>1, <2>2
  <1> QED BY <1>2, <1>4, Origins

LEMMA RunsDistinctKept ==
    ASSUME Types, Types', RunsBehind, RunsDistinct, Shapes
    PROVE  RunsDistinct'
  <1> SUFFICES ASSUME NEW t \in Tasks, NEW u \in Tasks, Busy(t)', Busy(u)',
                      task'[t].job = task'[u].job, task'[t].run[1] = task'[u].run[1],
                      task'[t].run[2] = task'[u].run[2], t # u
               PROVE  FALSE
    BY DEF RunsDistinct
  <1>1. ASSUME NEW x \in Tasks, NEW y \in Tasks, NEW j \in Jobs, TakesUp(x, j),
               Busy(y), Carries(y), task'[x].job = task'[y].job,
               task'[x].run[1] = task'[y].run[1], task'[x].run[2] = task'[y].run[2]
        PROVE  FALSE
    <2>1. /\ task[y].job = j /\ task[y].run[1] = job[j].manual_retry_count
          /\ task[y].run[2] = job[j].attempt_count + 1 /\ ~Gone(j)
      BY <1>1 DEF TakesUp, Carries, Gone
    <2>2. task[y].run[2] <= job[j].attempt_count
      BY <1>1, <2>1, RowTypes DEF RunsBehind
    <2> QED BY <2>1, <2>2, RowTypes
  <1>2. ASSUME NEW j \in Jobs, TakesUp(t, j), NEW i \in Jobs, TakesUp(u, i)
        PROVE FALSE
    BY <1>2 DEF TakesUp, OtherTasks, Busy
  <1> QED BY <1>1, <1>2, Origins DEF RunsDistinct, Carries

\* Steps that mark no boundary, begin no round and let nobody pass.
LEMMA RunnerQuiet ==
    ASSUME Types, Types', RunsBehind, OneRunner, Shapes,
           \A j \in Jobs :
               \/ Gone(j)'
               \/ /\ job'[j].manual_retry_count = job[j].manual_retry_count
                  /\ job'[j].provider_call_started = job[j].provider_call_started
                  /\ job'[j].attempt_count = job[j].attempt_count,
           \A j \in Jobs :
               job'[j].status \in {"absent", "queued"} =>
                   \/ job'[j].status = job[j].status
                   \/ ~job'[j].provider_call_started /\ job'[j].status = "queued",
           \A t \in Tasks :
               Busy(t)' => /\ Busy(t) /\ Carries(t)
                           /\ task'[t].pc \in PastBoundary => task[t].pc \in PastBoundary
                           /\ task'[t].pc \in {"read", "boundary"} =>
                                  task[t].pc \in {"read", "boundary"}
    PROVE  OneRunner'
  <1>0. "idle" \notin PastBoundary /\ \A t \in Tasks : Busy(t)' <=> task'[t].pc # "idle"
    BY DEF PastBoundary, Busy
  <1>1. PastIsNewest'
    <2> SUFFICES ASSUME NEW t \in Tasks, task'[t].pc \in PastBoundary,
                        job'[task'[t].job].status # "deleted",
                        task'[t].run[1] = job'[task'[t].job].manual_retry_count
                 PROVE  Newest(t)' /\ job'[task'[t].job].provider_call_started
      BY DEF PastIsNewest, Gone, PastBoundary
    <2>1. Busy(t)' /\ Busy(t) /\ Carries(t) /\ task[t].pc \in PastBoundary
      BY <1>0
    <2>2. task[t].job \in Jobs /\ RowsGrow
      BY <2>1, RunTypes, Growing
    <2>3. Newest(t) /\ job[task[t].job].provider_call_started
      BY <2>1, <2>2 DEF OneRunner, PastIsNewest, Carries, Gone, RowsGrow
    <2> QED BY <2>1, <2>2, <2>3 DEF Newest, Carries, Gone
  <1>2. ReadUnmarked'
    <2> SUFFICES ASSUME NEW t \in Tasks, task'[t].pc \in {"read", "boundary"}, Newest(t)'
                 PROVE  ~job'[task'[t].job].provider_call_started
      BY DEF ReadUnmarked
    <2>1. Busy(t)' /\ Busy(t) /\ Carries(t) /\ task[t].pc \in {"read", "boundary"}
      BY <1>0
    <2>2. Newest(t) /\ task[t].job \in Jobs
      BY <2>1, NewestBack, RunTypes
    <2>3. ~job[task[t].job].provider_call_started
      BY <2>1, <2>2 DEF OneRunner, ReadUnmarked
    <2> QED BY <2>1, <2>2, <2>3 DEF Newest, Carries, Gone
  <1>3. OnePast'
    <2> SUFFICES ASSUME NEW t \in Tasks, NEW u \in Tasks, task'[t].pc \in PastBoundary,
                        task'[u].pc \in PastBoundary, task'[t].job = task'[u].job,
                        task'[t].run[1] = task'[u].run[1]
                 PROVE  t = u
      BY DEF OnePast, PastBoundary
    <2> QED BY <1>0 DEF OneRunner, OnePast, Carries
  <1>4. RowsUnmarked'
    BY DEF OneRunner, RowsUnmarked, Gone
  <1> QED BY <1>1, <1>2, <1>3, <1>4 DEF OneRunner

LEMMA RunnerAdmits ==
    ASSUME Types, Types', RunsBehind, OneRunner, Shapes, NEW j \in Jobs, Admits(j)
    PROVE  OneRunner'
  <1>1. ~job[j].provider_call_started /\ job[j].manual_retry_count = 0
    BY DEF OneRunner, RowsUnmarked, Admits
  <1>2. \A t \in Tasks : Busy(t) => task[t].job # j
    BY DEF RunsBehind, Admits
  <1>3. \A t \in Tasks : task'[t] = task[t]
    BY DEF Admits
  <1>4. \A t \in Tasks : Busy(t) => task[t].job \in Jobs \ {j}
    BY <1>2, RunTypes
  <1>5. \A i \in Jobs \ {j} :
            /\ job'[i].status = job[i].status
            /\ job'[i].manual_retry_count = job[i].manual_retry_count
            /\ job'[i].attempt_count = job[i].attempt_count
            /\ job'[i].provider_call_started = job[i].provider_call_started
    BY DEF Admits, OtherRows, Alike, Same
  <1>6. \A t \in Tasks : task[t].pc \in PastBoundary \cup {"read", "boundary"} => Busy(t)
    BY DEF PastBoundary, Busy
  <1>7. PastIsNewest'
    BY <1>3, <1>4, <1>5, <1>6 DEF OneRunner, PastIsNewest, Newest, Gone, Busy, PastBoundary
  <1>8. ReadUnmarked'
    BY <1>3, <1>4, <1>5, <1>6 DEF OneRunner, ReadUnmarked, Newest, Gone, Busy
  <1>9. OnePast'
    BY <1>3 DEF OneRunner, OnePast, PastBoundary
  <1>10. RowsUnmarked'
    BY <1>5 DEF OneRunner, RowsUnmarked, Admits
  <1> QED BY <1>7, <1>8, <1>9, <1>10 DEF OneRunner

LEMMA RunnerRequeue ==
    ASSUME Types, Types', RunsBehind, OneRunner, Shapes, NEW j \in Jobs, Requeue(j)
    PROVE  OneRunner'
  <1>1. \A t \in Tasks : task'[t] = task[t]
    BY DEF Requeue
  <1>2. \A t \in Tasks : Busy(t) => task[t].job \in Jobs
    BY RunTypes
  <1>3. \A i \in Jobs \ {j} :
            /\ job'[i].status = job[i].status
            /\ job'[i].manual_retry_count = job[i].manual_retry_count
            /\ job'[i].attempt_count = job[i].attempt_count
            /\ job'[i].provider_call_started = job[i].provider_call_started
    BY DEF Requeue, OtherRows, Alike, Same
  <1>4. \A t \in Tasks : task[t].pc \in PastBoundary \cup {"read", "boundary"} => Busy(t)
    BY DEF PastBoundary, Busy
  <1>5. \A t \in Tasks : Busy(t) /\ task[t].job = j =>
            task'[t].run[1] # job'[j].manual_retry_count
    <2> SUFFICES ASSUME NEW t \in Tasks, Busy(t), task[t].job = j
                 PROVE  task'[t].run[1] # job'[j].manual_retry_count
      OBVIOUS
    <2>1. task[t].run[1] <= job[j].manual_retry_count
      BY RowTypes, RunTypes DEF RunsBehind, Gone, Requeue
    <2>2. task[t].run[1] \in Nat /\ job[j].manual_retry_count \in Nat
      BY RowTypes, RunTypes
    <2> QED BY <1>1, <2>1, <2>2 DEF Requeue
  <1>6. PastIsNewest'
    BY <1>1, <1>2, <1>3, <1>4, <1>5
       DEF OneRunner, PastIsNewest, Newest, Gone, Busy, PastBoundary
  <1>7. ReadUnmarked'
    BY <1>1, <1>2, <1>3, <1>4, <1>5 DEF OneRunner, ReadUnmarked, Newest, Gone, Busy
  <1>8. OnePast'
    BY <1>1 DEF OneRunner, OnePast, PastBoundary
  <1>9. RowsUnmarked'
    BY <1>3 DEF OneRunner, RowsUnmarked, Requeue
  <1> QED BY <1>6, <1>7, <1>8, <1>9 DEF OneRunner

LEMMA RunnerTakesUp ==
    ASSUME Types, Types', RunsBehind, OneRunner, Shapes, NEW t \in Tasks, NEW j \in Jobs,
           TakesUp(t, j)
    PROVE  OneRunner'
  <1>1. \A u \in Tasks \ {t} : task'[u] = task[u]
    BY DEF TakesUp, OtherTasks
  <1>2. \A u \in Tasks : Busy(u) => task[u].job \in Jobs
    BY RunTypes
  <1>3. \A i \in Jobs \ {j} :
            /\ job'[i].status = job[i].status
            /\ job'[i].manual_retry_count = job[i].manual_retry_count
            /\ job'[i].attempt_count = job[i].attempt_count
            /\ job'[i].provider_call_started = job[i].provider_call_started
    BY DEF TakesUp, OtherRows, Alike, Same
  <1>4. \A u \in Tasks : task[u].pc \in PastBoundary \cup {"read", "boundary"} => Busy(u)
    BY DEF PastBoundary, Busy
  <1>5. ~job[j].provider_call_started /\ ~job'[j].provider_call_started
    BY DEF OneRunner, RowsUnmarked, TakesUp
  <1>6. \A u \in Tasks : task[u].pc \in PastBoundary /\ task[u].job = j =>
            task[u].run[1] # job[j].manual_retry_count
    BY <1>5 DEF OneRunner, PastIsNewest, TakesUp, Gone
  <1>7. task'[t].pc = "read" /\ task'[t].job = j
        /\ job'[j].manual_retry_count = job[j].manual_retry_count
        /\ job'[j].status = "running"
    BY DEF TakesUp
  <1>8. PastIsNewest'
    <2> SUFFICES ASSUME NEW u \in Tasks, task'[u].pc \in PastBoundary,
                        job'[task'[u].job].status # "deleted",
                        task'[u].run[1] = job'[task'[u].job].manual_retry_count
                 PROVE  Newest(u)' /\ job'[task'[u].job].provider_call_started
      BY DEF PastIsNewest, Gone, PastBoundary
    <2>1. u # t
      BY <1>7 DEF PastBoundary
    <2>2. task[u].job # j /\ task[u].job \in Jobs
      BY <1>1, <1>2, <1>4, <1>6, <1>7, <2>1
    <2> QED BY <1>1, <1>3, <2>1, <2>2 DEF OneRunner, PastIsNewest, Newest, Gone, Busy
  <1>9. ReadUnmarked'
    BY <1>1, <1>2, <1>3, <1>4, <1>5, <1>7 DEF OneRunner, ReadUnmarked, Newest, Gone, Busy
  <1>10. OnePast'
    BY <1>1, <1>7 DEF OneRunner, OnePast, PastBoundary
  <1>11. RowsUnmarked'
    BY <1>3, <1>7 DEF OneRunner, RowsUnmarked
  <1> QED BY <1>8, <1>9, <1>10, <1>11 DEF OneRunner

LEMMA RunnerMarks ==
    ASSUME Types, Types', RunsBehind, RunsDistinct, OneRunner, Shapes, NEW t \in Tasks,
           Marks(t)
    PROVE  OneRunner'
  <1> DEFINE j == task[t].job
  <1>1. \A u \in Tasks \ {t} : task'[u] = task[u]
    BY DEF Marks, OtherTasks
  <1>2. /\ \A u \in Tasks : Busy(u) => task[u].job \in Jobs
        /\ Busy(t) /\ Newest(t) /\ task[t].pc = "boundary"
    BY RunTypes DEF Marks, Owns
  <1>3. /\ \A i \in Jobs \ {j} :
            /\ job'[i].status = job[i].status
            /\ job'[i].provider_call_started = job[i].provider_call_started
        /\ \A i \in Jobs :
            /\ job'[i].manual_retry_count = job[i].manual_retry_count
            /\ job'[i].attempt_count = job[i].attempt_count
            /\ job'[i].status = job[i].status
    BY DEF Marks, OtherRows, Alike, Same, Owns
  <1>4. \A u \in Tasks : task[u].pc \in PastBoundary \cup {"read", "boundary"} => Busy(u)
    BY DEF PastBoundary, Busy
  <1>5. ~job[j].provider_call_started /\ job'[j].provider_call_started
        /\ job'[j].status = "running" /\ job[j].status = "running"
    BY <1>2 DEF OneRunner, ReadUnmarked, Marks, Owns
  <1>6. \A u \in Tasks : task[u].pc \in PastBoundary /\ task[u].job = j =>
            task[u].run[1] # job[j].manual_retry_count
    BY <1>5 DEF OneRunner, PastIsNewest, Gone
  <1>7. task'[t].pc = "begin_embedding" /\ task'[t].job = j /\ task'[t].run = task[t].run
        /\ task[t].run[1] = job[j].manual_retry_count
    BY DEF Marks, Carries, Owns, Newest
  <1>8. Newest(t)'
    BY <1>2, <1>3, <1>5, <1>7 DEF Newest, Busy, Gone
  <1> HIDE DEF j
  <1>9. PastIsNewest'
    <2> SUFFICES ASSUME NEW u \in Tasks, task'[u].pc \in PastBoundary,
                        job'[task'[u].job].status # "deleted",
                        task'[u].run[1] = job'[task'[u].job].manual_retry_count
                 PROVE  Newest(u)' /\ job'[task'[u].job].provider_call_started
      BY DEF PastIsNewest, Gone, PastBoundary
    <2>1. CASE u = t
      BY <1>5, <1>7, <1>8, <2>1
    <2>2. CASE u # t
      <3>1. task'[u] = task[u] /\ task[u].job \in Jobs
        BY <1>1, <1>2, <1>4, <2>2
      <3>2. task[u].job # j
        BY <1>3, <1>6, <3>1
      <3> QED BY <1>3, <3>1, <3>2 DEF OneRunner, PastIsNewest, Newest, Gone, Busy
    <2> QED BY <2>1, <2>2
  <1>10. ReadUnmarked'
    <2> SUFFICES ASSUME NEW u \in Tasks, task'[u].pc \in {"read", "boundary"}, Newest(u)'
                 PROVE  ~job'[task'[u].job].provider_call_started
      BY DEF ReadUnmarked
    <2>1. u # t
      BY <1>7
    <2>2. task'[u] = task[u] /\ task[u].job \in Jobs /\ Busy(u)
      BY <1>1, <1>2, <1>4, <2>1
    <2>3. Newest(u)
      BY <1>3, <2>2 DEF Newest, Gone, Busy
    <2>4. task[u].job # j
      BY <1>2, <2>1, <2>2, <2>3 DEF RunsDistinct, Newest, j
    <2> QED BY <1>3, <2>2, <2>3, <2>4 DEF OneRunner, ReadUnmarked
  <1>11. OnePast'
    <2> SUFFICES ASSUME NEW u \in Tasks, NEW v \in Tasks, task'[u].pc \in PastBoundary,
                        task'[v].pc \in PastBoundary, task'[u].job = task'[v].job,
                        task'[u].run[1] = task'[v].run[1], u # v
                 PROVE  FALSE
      BY DEF OnePast, PastBoundary
    <2> QED BY <1>1, <1>6, <1>7 DEF OneRunner, OnePast
  <1>12. RowsUnmarked'
    BY <1>3, <1>5 DEF OneRunner, RowsUnmarked
  <1> QED BY <1>9, <1>10, <1>11, <1>12 DEF OneRunner

LEMMA OneRunnerKept ==
    ASSUME Types, Types', RunsBehind, RunsDistinct, OneRunner, Shapes
    PROVE  OneRunner'
  <1> USE DEF Alike, Same, OtherRows, Busy, Carries, OtherTasks, Gone
  <1>1. CASE Still
    <2> HIDE DEF OneRunner, RunsBehind
    <2> QED BY <1>1, RunnerQuiet DEF Still
  <1>2. ASSUME NEW js \in SUBSET Jobs, Drops(js) PROVE OneRunner'
    BY <1>2, RunnerQuiet DEF Drops
  <1>3. ASSUME NEW j \in Jobs, Stops(j) PROVE OneRunner'
    BY <1>3, RunnerQuiet DEF Stops
  <1>4. ASSUME NEW t \in Tasks, Advances(t) PROVE OneRunner'
    BY <1>4, RunnerQuiet DEF Advances, PastBoundary
  <1>5. ASSUME NEW t \in Tasks, Completes(t) \/ GivesUp(t) PROVE OneRunner'
    BY <1>5, RunnerQuiet DEF Completes, GivesUp, PastBoundary
  <1>6. ASSUME NEW t \in Tasks, NEW s \in Stage, Begins(t, s) \/ Records(t, s)
        PROVE  OneRunner'
    BY <1>6, RunnerQuiet, ZenonT(60) DEF Begins, Records, PastBoundary, Owns
  <1>7. ASSUME NEW t \in Tasks, NEW s \in Remote, Asks(t, s) PROVE OneRunner'
    BY <1>7, RunnerQuiet DEF Asks, PastBoundary
  <1>8. CASE TakesBack
    BY <1>8, RunnerQuiet DEF TakesBack, TakenBack
  <1> QED BY <1>1, <1>2, <1>3, <1>4, <1>5, <1>6, <1>7, <1>8, RunnerAdmits, RunnerRequeue,
             RunnerTakesUp, RunnerMarks DEF Shapes

-----------------------------------------------------------------------------
(* Requests and their rows.                                                *)

\* The numbers of requests and the rows of a stage are what their types say.
LEMMA RecordTypes ==
    ASSUME Types, NEW j \in Jobs, NEW r \in Rounds
    PROVE  /\ \A s \in Remote : calls[j][r][s] \in Nat
           /\ \A s \in Stage : stage[j][r][s] \in Row
  <1>1. calls[j] \in [Rounds -> [Remote -> Nat]] /\ stage[j] \in [Rounds -> [Stage -> Row]]
    BY TypeParts DEF RecordsOK, Rounds
  <1>2. calls[j][r] \in [Remote -> Nat] /\ stage[j][r] \in [Stage -> Row]
    BY <1>1
  <1> QED BY <1>2

\* Steps that write no stage row, send nothing and begin no round.
LEMMA CallsQuiet ==
    ASSUME Types, Types', CallsRecorded,
           \A j \in Jobs :
               \/ Gone(j)'
               \/ /\ ~Gone(j) /\ stage'[j] = stage[j] /\ calls'[j] = calls[j]
                  /\ job'[j].manual_retry_count = job[j].manual_retry_count
                  /\ job[j].provider_call_started => job'[j].provider_call_started
    PROVE  CallsRecorded'
  <1> SUFFICES ASSUME NEW j \in Jobs, ~Gone(j)'
               PROVE  /\ \A r \in Rounds : r > job'[j].manual_retry_count =>
                             /\ \A s \in Remote : calls'[j][r][s] = 0
                             /\ \A s \in Stage : stage'[j][r][s] = "none"
                      /\ \A s \in Stage :
                             Rows(j)'[s] # "none" => job'[j].provider_call_started
                      /\ \A s \in Asked(j)' : Rows(j)'[s] # "none"
    BY DEF CallsRecorded
  <1>1. /\ ~Gone(j) /\ stage'[j] = stage[j] /\ calls'[j] = calls[j]
        /\ job'[j].manual_retry_count = job[j].manual_retry_count
        /\ job[j].provider_call_started => job'[j].provider_call_started
    OBVIOUS
  <1>2. Rows(j)' = Rows(j) /\ Asked(j)' = Asked(j)
    BY <1>1 DEF Rows, Asked
  <1>3. /\ \A r \in Rounds : r > job[j].manual_retry_count =>
               /\ \A s \in Remote : calls[j][r][s] = 0
               /\ \A s \in Stage : stage[j][r][s] = "none"
        /\ \A s \in Stage : Rows(j)[s] # "none" => job[j].provider_call_started
        /\ \A s \in Asked(j) : Rows(j)[s] # "none"
    BY <1>1 DEF CallsRecorded
  <1> QED BY <1>1, <1>2, <1>3

\* A retry finds the rows of the next round unwritten.
LEMMA CallsRequeue ==
    ASSUME Types, Types', CallsRecorded, NEW i \in Jobs, Requeue(i)
    PROVE  CallsRecorded'
  <1> SUFFICES ASSUME NEW j \in Jobs, ~Gone(j)'
               PROVE  /\ \A r \in Rounds : r > job'[j].manual_retry_count =>
                             /\ \A s \in Remote : calls'[j][r][s] = 0
                             /\ \A s \in Stage : stage'[j][r][s] = "none"
                      /\ \A s \in Stage :
                             Rows(j)'[s] # "none" => job'[j].provider_call_started
                      /\ \A s \in Asked(j)' : Rows(j)'[s] # "none"
    BY DEF CallsRecorded
  <1>1. UNCHANGED <<stage, calls>>
    BY DEF Requeue
  <1>2. CASE j # i
    <2>1. ~Gone(j) /\ Same(job'[j], job[j])
      BY <1>2 DEF Requeue, OtherRows, Alike, Gone
    <2>2. Rows(j)' = Rows(j) /\ Asked(j)' = Asked(j)
      BY <1>1, <2>1 DEF Rows, Asked, Same
    <2> QED BY <1>1, <2>1, <2>2 DEF CallsRecorded, Same
  <1>3. CASE j = i
    <2>1. ~Gone(i) /\ job'[i].manual_retry_count = job[i].manual_retry_count + 1
      BY DEF Requeue, Gone
    <2>2. /\ job[i].manual_retry_count \in Nat
          /\ job'[i].manual_retry_count \in Rounds
      BY RowTypes, RowTypesNext
    <2>3. \A r \in Rounds : r > job[i].manual_retry_count =>
              /\ \A s \in Remote : calls[i][r][s] = 0
              /\ \A s \in Stage : stage[i][r][s] = "none"
      BY <2>1 DEF CallsRecorded
    <2>4. \A r \in Rounds : r \in Int
      BY AnswerAssumption DEF Rounds
    <2>5. \A r \in Rounds : r > job'[i].manual_retry_count => r > job[i].manual_retry_count
      BY <2>1, <2>2, <2>4
    <2>6. job'[i].manual_retry_count > job[i].manual_retry_count
      BY <2>1, <2>2
    <2>7. /\ \A s \in Remote : calls[i][job'[i].manual_retry_count][s] = 0
          /\ \A s \in Stage : stage[i][job'[i].manual_retry_count][s] = "none"
      BY <2>2, <2>3, <2>6
    <2>8. \A s \in Stage : Rows(i)'[s] = "none"
      BY <1>1, <2>7 DEF Rows
    <2>9. Asked(i)' = {}
      BY <1>1, <2>7 DEF Asked
    <2> QED BY <1>1, <1>3, <2>3, <2>5, <2>8, <2>9
  <1> QED BY <1>2, <1>3

\* Where a stage begins or ends, the boundary is behind, and the row stays one.
LEMMA CallsStaged ==
    ASSUME Types, Types', OneRunner, CallsRecorded, NEW t \in Tasks, NEW s \in Stage,
           NEW row, row # "none", Owns(t), task[t].pc \in PastBoundary,
           StageSet(task[t].job, s, row),
           Same(job'[task[t].job], job[task[t].job]),
           \A i \in Jobs \ {task[t].job} : Alike(i),
           UNCHANGED calls
    PROVE  CallsRecorded'
  <1> SUFFICES ASSUME NEW j \in Jobs, ~Gone(j)'
               PROVE  /\ \A r \in Rounds : r > job'[j].manual_retry_count =>
                             /\ \A x \in Remote : calls'[j][r][x] = 0
                             /\ \A x \in Stage : stage'[j][r][x] = "none"
                      /\ \A x \in Stage :
                             Rows(j)'[x] # "none" => job'[j].provider_call_started
                      /\ \A x \in Asked(j)' : Rows(j)'[x] # "none"
    BY DEF CallsRecorded
  <1>0. Same(job'[j], job[j]) /\ ~Gone(j)
    BY DEF Alike, Owns, Newest, Gone
  <1>1. /\ job'[j].manual_retry_count = job[j].manual_retry_count
        /\ job'[j].provider_call_started = job[j].provider_call_started
        /\ job[j].manual_retry_count \in Rounds
    BY <1>0, RowTypes DEF Same
  <1>2. /\ \A r \in Rounds : r > job[j].manual_retry_count =>
               /\ \A x \in Remote : calls[j][r][x] = 0
               /\ \A x \in Stage : stage[j][r][x] = "none"
        /\ \A x \in Stage : Rows(j)[x] # "none" => job[j].provider_call_started
        /\ \A x \in Asked(j) : Rows(j)[x] # "none"
    BY <1>0 DEF CallsRecorded
  <1>3. \A r \in Rounds, x \in Stage :
            stage'[j][r][x] =
                IF j = task[t].job /\ r = job[j].manual_retry_count /\ x = s THEN row
                ELSE stage[j][r][x]
    BY DEF StageSet
  <1>4. \A x \in Stage :
            Rows(j)'[x] = IF j = task[t].job /\ x = s THEN row ELSE Rows(j)[x]
    BY <1>1, <1>3 DEF Rows
  <1>5. Asked(j)' = Asked(j) /\ Asked(j) \subseteq Stage
    BY <1>1 DEF Asked, Stage
  <1>6. j = task[t].job => job[j].provider_call_started
    BY DEF OneRunner, PastIsNewest, Owns, Newest
  <1>7. \A r \in Rounds : r > job[j].manual_retry_count => r # job[j].manual_retry_count
    BY <1>1, AnswerAssumption DEF Rounds
  <1>8. \A r \in Rounds : r > job'[j].manual_retry_count =>
            /\ \A x \in Remote : calls'[j][r][x] = 0
            /\ \A x \in Stage : stage'[j][r][x] = "none"
    BY <1>1, <1>2, <1>3, <1>7
  <1>9. \A x \in Stage : Rows(j)'[x] # "none" => job'[j].provider_call_started
    BY <1>1, <1>2, <1>4, <1>6
  <1>10. \A x \in Asked(j)' : Rows(j)'[x] # "none"
    BY <1>2, <1>4, <1>5
  <1> QED BY <1>8, <1>9, <1>10

\* A request leaves while its row is open.
LEMMA CallsAsked ==
    ASSUME Types, Types', RunsBehind, OneRunner, StagesFound, CallsRecorded,
           NEW t \in Tasks, NEW s \in Remote, Asks(t, s)
    PROVE  CallsRecorded'
  <1> SUFFICES ASSUME NEW j \in Jobs, ~Gone(j)'
               PROVE  /\ \A r \in Rounds : r > job'[j].manual_retry_count =>
                             /\ \A x \in Remote : calls'[j][r][x] = 0
                             /\ \A x \in Stage : stage'[j][r][x] = "none"
                      /\ \A x \in Stage :
                             Rows(j)'[x] # "none" => job'[j].provider_call_started
                      /\ \A x \in Asked(j)' : Rows(j)'[x] # "none"
    BY DEF CallsRecorded
  <1>1. UNCHANGED <<job, stage>> /\ ~Gone(j)
    BY DEF Asks, Gone
  <1>2. /\ \A r \in Rounds : r > job[j].manual_retry_count =>
               /\ \A x \in Remote : calls[j][r][x] = 0
               /\ \A x \in Stage : stage[j][r][x] = "none"
        /\ \A x \in Stage : Rows(j)[x] # "none" => job[j].provider_call_started
        /\ \A x \in Asked(j) : Rows(j)[x] # "none"
    BY <1>1 DEF CallsRecorded
  <1>3. \A r \in Rounds, x \in Remote :
            calls'[j][r][x] =
                IF j = task[t].job /\ r = task[t].run[1] /\ x = s
                THEN calls[j][r][x] + 1 ELSE calls[j][r][x]
    BY DEF Asks, Counted
  <1>4. Rows(j)' = Rows(j) /\ job[j].manual_retry_count \in Rounds
        /\ job[j].manual_retry_count \in Nat
    BY <1>1, RowTypes DEF Rows
  <1>5. j = task[t].job =>
            /\ task[t].run[1] \in Nat
            /\ task[t].run[1] <= job[j].manual_retry_count
    BY <1>1, <1>4, RunTypes DEF RunsBehind, Asks
  <1>6. j = task[t].job /\ task[t].run[1] = job[j].manual_retry_count =>
            Rows(j)[s] = "open"
    <2> SUFFICES ASSUME j = task[t].job, task[t].run[1] = job[j].manual_retry_count
                 PROVE  Rows(j)[s] = "open"
      OBVIOUS
    <2>1. task[t].pc \in PastBoundary
      BY DEF Asks, PastBoundary
    <2>2. Newest(t)
      BY <1>1, <2>1 DEF OneRunner, PastIsNewest
    <2> QED BY <2>2 DEF StagesFound, Found, Fits, Asks
  <1>7. \A x \in Asked(j)' : x \in Asked(j) \/ (x = s /\ Rows(j)[s] = "open")
    BY <1>1, <1>3, <1>4, <1>6 DEF Asked
  <1>8. \A r \in Rounds : r > job[j].manual_retry_count =>
            ~(j = task[t].job /\ r = task[t].run[1])
    BY <1>4, <1>5, AnswerAssumption DEF Rounds
  <1>9. \A r \in Rounds : r > job[j].manual_retry_count =>
            \A x \in Remote : calls'[j][r][x] = 0
    BY <1>2, <1>3, <1>8
  <1> QED BY <1>1, <1>2, <1>4, <1>7, <1>9

LEMMA CallsRecordedKept ==
    ASSUME Types, Types', RunsBehind, OneRunner, StagesFound, CallsRecorded, Shapes
    PROVE  CallsRecorded'
  <1> USE DEF Alike, Same, OtherRows, Gone
  <1>1. CASE Still
    BY <1>1, CallsQuiet DEF Still
  <1>2. ASSUME NEW js \in SUBSET Jobs, Drops(js) PROVE CallsRecorded'
    BY <1>2, CallsQuiet DEF Drops
  <1>3. ASSUME NEW j \in Jobs, Admits(j) PROVE CallsRecorded'
    <2>1. ~job[j].provider_call_started /\ job[j].manual_retry_count = 0
      BY <1>3 DEF OneRunner, RowsUnmarked, Admits
    <2> QED BY <1>3, <2>1, CallsQuiet DEF Admits
  <1>4. ASSUME NEW j \in Jobs, Stops(j) PROVE CallsRecorded'
    BY <1>4, CallsQuiet DEF Stops
  <1>5. ASSUME NEW t \in Tasks, NEW j \in Jobs, TakesUp(t, j) PROVE CallsRecorded'
    BY <1>5, CallsQuiet DEF TakesUp
  <1>6. ASSUME NEW t \in Tasks, Advances(t) PROVE CallsRecorded'
    BY <1>6, CallsQuiet DEF Advances
  <1>7. ASSUME NEW t \in Tasks, Marks(t) \/ Completes(t) \/ GivesUp(t)
        PROVE  CallsRecorded'
    BY <1>7, CallsQuiet DEF Marks, Completes, GivesUp, Owns
  <1>8. CASE TakesBack
    BY <1>8, CallsQuiet DEF TakesBack, TakenBack
  <1>9. ASSUME NEW t \in Tasks, NEW s \in Stage, Begins(t, s) PROVE CallsRecorded'
    <2>1. task[t].pc \in PastBoundary /\ Owns(t)
      BY <1>9 DEF Begins, PastBoundary
    <2> QED BY <1>9, <2>1, CallsStaged DEF Begins
  <1>10. ASSUME NEW t \in Tasks, NEW s \in Stage, Records(t, s) PROVE CallsRecorded'
    <2>1. task[t].pc \in PastBoundary /\ Owns(t)
      BY <1>10 DEF Records, PastBoundary
    <2>2. task[t].row # "none"
      BY <1>10 DEF Records, StagesFound, Outcome
    <2> QED BY <1>10, <2>1, <2>2, CallsStaged DEF Records
  <1> QED BY <1>1, <1>2, <1>3, <1>4, <1>5, <1>6, <1>7, <1>8, <1>9, <1>10, CallsAsked,
             CallsRequeue DEF Shapes

\* Where a coroutine stands in a stage that sends, it stood before.
SamePlace(t) ==
    /\ Busy(t) /\ Carries(t)
    /\ \A p \in {"embed", "judge"} : task'[t].pc = p => task[t].pc = p
    /\ task'[t].pc \in {"embed", "embedding", "end_embedding"} =>
           task[t].pc \in {"embed", "embedding", "end_embedding"}
           /\ (task[t].sent => task'[t].sent)
    /\ task'[t].pc \in {"judge", "judging", "end_judgment"} =>
           task[t].pc \in {"judge", "judging", "end_judgment"}
           /\ (task[t].sent => task'[t].sent)

Sending == {"embed", "embedding", "end_embedding", "judge", "judging", "end_judgment"}

LEMMA SendsQuiet ==
    ASSUME Types, Types', SendsOnce, UNCHANGED calls,
           \A t \in Tasks : task'[t].pc \in Sending => SamePlace(t)
    PROVE  SendsOnce'
  <1>1. ASSUME NEW t \in Tasks, task'[t].pc \in Sending
        PROVE  LET n == calls[task'[t].job][task'[t].run[1]] IN
               /\ task'[t].pc = "embed" => n["query_embedding"] = 0
               /\ task'[t].pc = "judge" => n["source_judgment"] = 0
               /\ task'[t].pc \in {"embed", "embedding", "end_embedding"}
                      /\ n["query_embedding"] > 0 => task'[t].sent
               /\ task'[t].pc \in {"judge", "judging", "end_judgment"}
                      /\ n["source_judgment"] > 0 => task'[t].sent
    <2> DEFINE n == calls[task[t].job][task[t].run[1]]
    <2>1. n = calls[task'[t].job][task'[t].run[1]]
      BY <1>1 DEF SamePlace, Carries
    <2>2. /\ task[t].pc = "embed" => n["query_embedding"] = 0
          /\ task[t].pc = "judge" => n["source_judgment"] = 0
          /\ task[t].pc \in {"embed", "embedding", "end_embedding"}
                 /\ n["query_embedding"] > 0 => task[t].sent
          /\ task[t].pc \in {"judge", "judging", "end_judgment"}
                 /\ n["source_judgment"] > 0 => task[t].sent
      BY DEF SendsOnce
    <2> HIDE DEF n
    <2> QED BY <1>1, <2>1, <2>2 DEF SamePlace
  <1>2. \A j \in Jobs, r \in Rounds, s \in Remote : calls'[j][r][s] <= 1
    BY DEF SendsOnce
  <1> QED BY <1>1, <1>2 DEF SendsOnce, Sending

\* A remote stage begins in a round that has not asked.
LEMMA SendsBegins ==
    ASSUME Types, Types', CallsRecorded, SendsOnce, NEW t \in Tasks, NEW s \in Stage,
           Begins(t, s)
    PROVE  SendsOnce'
  <1> DEFINE j == task[t].job
             n == calls[j][task[t].run[1]]
  <1>1. /\ j \in Jobs /\ task[t].run[1] = job[j].manual_retry_count /\ ~Gone(j)
        /\ job[j].manual_retry_count \in Rounds
    BY RunTypes, RowTypes DEF Begins, Owns, Newest
  <1>2. s \in Remote => n[s] = 0
    <2> SUFFICES ASSUME s \in Remote PROVE n[s] = 0
      OBVIOUS
    <2>1. Rows(j)[s] = "none"
      BY DEF Begins
    <2>2. s \notin Asked(j)
      BY <1>1, <2>1 DEF CallsRecorded
    <2>3. n[s] \in Nat
      BY <1>1, RecordTypes
    <2> QED BY <1>1, <2>2, <2>3 DEF Asked
  <1>3. /\ task'[t].job = j /\ task'[t].run = task[t].run /\ calls' = calls
        /\ \A u \in Tasks \ {t} : task'[u] = task[u]
    BY DEF Begins, Carries, OtherTasks
  <1>4. /\ task'[t].pc = "embed" => n["query_embedding"] = 0
        /\ task'[t].pc = "judge" => n["source_judgment"] = 0
        /\ task'[t].pc \in {"embed", "judge", "retrieve"}
    BY <1>2 DEF Begins, Remote
  <1> HIDE DEF j, n
  <1>5. \A u \in Tasks :
            LET m == calls'[task'[u].job][task'[u].run[1]] IN
            /\ task'[u].pc = "embed" => m["query_embedding"] = 0
            /\ task'[u].pc = "judge" => m["source_judgment"] = 0
            /\ task'[u].pc \in {"embed", "embedding", "end_embedding"}
                   /\ m["query_embedding"] > 0 => task'[u].sent
            /\ task'[u].pc \in {"judge", "judging", "end_judgment"}
                   /\ m["source_judgment"] > 0 => task'[u].sent
    <2> SUFFICES ASSUME NEW u \in Tasks
                 PROVE
            LET m == calls'[task'[u].job][task'[u].run[1]] IN
            /\ task'[u].pc = "embed" => m["query_embedding"] = 0
            /\ task'[u].pc = "judge" => m["source_judgment"] = 0
            /\ task'[u].pc \in {"embed", "embedding", "end_embedding"}
                   /\ m["query_embedding"] > 0 => task'[u].sent
            /\ task'[u].pc \in {"judge", "judging", "end_judgment"}
                   /\ m["source_judgment"] > 0 => task'[u].sent
      OBVIOUS
    <2>1. CASE u = t
      BY <1>3, <1>4, <2>1 DEF n, j
    <2>2. CASE u # t
      BY <1>3, <2>2 DEF SendsOnce
    <2> QED BY <2>1, <2>2
  <1> QED BY <1>3, <1>5 DEF SendsOnce

\* The one coroutine past the boundary asks once.
LEMMA SendsAsks ==
    ASSUME Types, Types', OneRunner, SendsOnce, NEW t \in Tasks, NEW s \in Remote,
           Asks(t, s)
    PROVE  SendsOnce'
  <1> DEFINE j == task[t].job
             r == task[t].run[1]
  <1>1. j \in Jobs /\ r \in Rounds
    BY RunTypes DEF Asks
  <1>2. calls[j][r][s] = 0 /\ task[t].pc \in PastBoundary
    BY DEF SendsOnce, Asks, PastBoundary
  <1>3. \A i \in Jobs, q \in Rounds, x \in Remote :
            calls'[i][q][x] = IF i = j /\ q = r /\ x = s
                              THEN calls[i][q][x] + 1 ELSE calls[i][q][x]
    BY DEF Asks, Counted
  <1>4. \A i \in Jobs, q \in Rounds, x \in Remote : calls'[i][q][x] <= 1
    <2>1. \A i \in Jobs, q \in Rounds, x \in Remote : calls[i][q][x] <= 1
      BY DEF SendsOnce
    <2> QED BY <1>2, <1>3, <2>1
  <1>5. \A u \in Tasks \ {t} : task'[u] = task[u]
    BY DEF Asks, OtherTasks
  <1>6. \A u \in Tasks \ {t} : task[u].pc \in PastBoundary =>
            task[u].job # j \/ task[u].run[1] # r
    BY <1>2 DEF OneRunner, OnePast
  <1>7. /\ task'[t].sent /\ task'[t].pc \in {"embedding", "judging"}
        /\ task'[t].pc # "idle"
    BY DEF Asks
  <1> HIDE DEF j, r
  <1>8. \A u \in Tasks \ {t} : task[u].pc \in Sending =>
            /\ task[u].job \in Jobs /\ task[u].run[1] \in Rounds
            /\ \A x \in Remote : calls'[task[u].job][task[u].run[1]][x]
                                   = calls[task[u].job][task[u].run[1]][x]
    <2> SUFFICES ASSUME NEW u \in Tasks \ {t}, task[u].pc \in Sending
                 PROVE  /\ task[u].job \in Jobs /\ task[u].run[1] \in Rounds
                        /\ \A x \in Remote : calls'[task[u].job][task[u].run[1]][x]
                                               = calls[task[u].job][task[u].run[1]][x]
      OBVIOUS
    <2>1. task[u].pc \in PastBoundary /\ Busy(u)
      BY DEF PastBoundary, Sending, Busy
    <2>2. task[u].job \in Jobs /\ task[u].run[1] \in Rounds
      BY <2>1, RunTypes
    <2> QED BY <1>3, <1>6, <2>1, <2>2
  <1>9. \A u \in Tasks :
            LET m == calls'[task'[u].job][task'[u].run[1]] IN
            /\ task'[u].pc = "embed" => m["query_embedding"] = 0
            /\ task'[u].pc = "judge" => m["source_judgment"] = 0
            /\ task'[u].pc \in {"embed", "embedding", "end_embedding"}
                   /\ m["query_embedding"] > 0 => task'[u].sent
            /\ task'[u].pc \in {"judge", "judging", "end_judgment"}
                   /\ m["source_judgment"] > 0 => task'[u].sent
    <2> SUFFICES ASSUME NEW u \in Tasks
                 PROVE
            LET m == calls'[task'[u].job][task'[u].run[1]] IN
            /\ task'[u].pc = "embed" => m["query_embedding"] = 0
            /\ task'[u].pc = "judge" => m["source_judgment"] = 0
            /\ task'[u].pc \in {"embed", "embedding", "end_embedding"}
                   /\ m["query_embedding"] > 0 => task'[u].sent
            /\ task'[u].pc \in {"judge", "judging", "end_judgment"}
                   /\ m["source_judgment"] > 0 => task'[u].sent
      OBVIOUS
    <2>1. CASE u = t
      BY <1>7, <2>1
    <2>2. CASE u # t /\ task[u].pc \in Sending
      <3>1. \A x \in Remote : calls'[task[u].job][task[u].run[1]][x]
                                = calls[task[u].job][task[u].run[1]][x]
        BY <1>8, <2>2
      <3> QED BY <1>5, <2>2, <3>1 DEF SendsOnce, Remote
    <2>3. CASE u # t /\ task[u].pc \notin Sending
      BY <1>5, <2>3 DEF Sending
    <2> QED BY <2>1, <2>2, <2>3
  <1> QED BY <1>4, <1>9 DEF SendsOnce

LEMMA SendsOnceKept ==
    ASSUME Types, Types', OneRunner, CallsRecorded, SendsOnce, Shapes
    PROVE  SendsOnce'
  <1> USE DEF OtherTasks, Carries, SamePlace, Sending, Busy
  <1>1. CASE Still \/ TakesBack
    BY <1>1, SendsQuiet DEF Still, TakesBack
  <1>2. ASSUME NEW js \in SUBSET Jobs, Drops(js) PROVE SendsOnce'
    BY <1>2, SendsQuiet DEF Drops
  <1>3. ASSUME NEW j \in Jobs, Admits(j) \/ Stops(j) \/ Requeue(j) PROVE SendsOnce'
    BY <1>3, SendsQuiet DEF Admits, Stops, Requeue
  <1>4. ASSUME NEW t \in Tasks, NEW j \in Jobs, TakesUp(t, j) PROVE SendsOnce'
    BY <1>4, SendsQuiet DEF TakesUp
  <1>5. ASSUME NEW t \in Tasks, Advances(t) PROVE SendsOnce'
    BY <1>5, SendsQuiet DEF Advances
  <1>6. ASSUME NEW t \in Tasks, Marks(t) \/ Completes(t) \/ GivesUp(t) PROVE SendsOnce'
    BY <1>6, SendsQuiet DEF Marks, Completes, GivesUp, Owns
  <1>7. ASSUME NEW t \in Tasks, NEW s \in Stage, Records(t, s) PROVE SendsOnce'
    BY <1>7, SendsQuiet DEF Records, Owns
  <1> QED BY <1>1, <1>2, <1>3, <1>4, <1>5, <1>6, <1>7, SendsBegins, SendsAsks DEF Shapes

-----------------------------------------------------------------------------
(* The stages of a round, as the newest claim finds them.                  *)

\* Nobody else is at work on the present claim of a job.
LEMMA Alone ==
    ASSUME Types, RunsDistinct, NEW t \in Tasks, NEW u \in Tasks, Newest(t), Newest(u),
           task[t].job = task[u].job
    PROVE  t = u
  BY DEF RunsDistinct, Newest

\* The rows of the round stay where neither they nor the round are written.
LEMMA RoundKept ==
    ASSUME NEW j, stage'[j] = stage[j],
           job'[j].manual_retry_count = job[j].manual_retry_count
    PROVE  Rows(j)' = Rows(j)
  BY DEF Rows

\* Where a stage row is written, the other rows of the round stay.
LEMMA RoundWritten ==
    ASSUME Types, NEW j \in Jobs, NEW s \in Stage, NEW row, StageSet(j, s, row),
           job'[j].manual_retry_count = job[j].manual_retry_count
    PROVE  \A x \in Stage : Rows(j)'[x] = IF x = s THEN row ELSE Rows(j)[x]
  <1>1. job[j].manual_retry_count \in Rounds
    BY RowTypes
  <1> QED BY <1>1 DEF Rows, StageSet

\* A coroutine that does not move finds what it found.
LEMMA FoundStays ==
    ASSUME NEW t \in Tasks, Found(t), task'[t] = task[t],
           \A x \in Stage : Rows(task[t].job)'[x] = Rows(task[t].job)[x],
           job'[task[t].job].context = job[task[t].job].context
    PROVE  Found(t)'
  <1> DEFINE j == task[t].job
  <1>1. /\ task'[t].job = j /\ task'[t].pc = task[t].pc /\ task'[t].result = task[t].result
        /\ Rows(task[t].job)'["query_embedding"] = Rows(j)["query_embedding"]
        /\ Rows(task[t].job)'["source_judgment"] = Rows(j)["source_judgment"]
        /\ job'[task'[t].job].context = job[j].context
    BY DEF Stage, Remote
  <1> QED BY <1>1 DEF Found

\* The same of one that moves within the rows it has.
LEMMA FoundMoves ==
    ASSUME NEW t \in Tasks, Found(t), Carries(t),
           Rows(task[t].job)' = Rows(task[t].job),
           job'[task[t].job].context = job[task[t].job].context,
           \A e, s \in Row, c \in Context :
               Fits(task[t].pc, task[t].result, e, s, c)
                   => Fits(task'[t].pc, task'[t].result, e, s, c),
           Rows(task[t].job)["query_embedding"] \in Row,
           Rows(task[t].job)["source_judgment"] \in Row,
           job[task[t].job].context \in Context
    PROVE  Found(t)'
  <1> DEFINE j == task[t].job
             e == Rows(j)["query_embedding"]
             s == Rows(j)["source_judgment"]
             c == job[j].context
  <1>1. /\ task'[t].job = j
        /\ Rows(task[t].job)' = Rows(j) /\ job'[task'[t].job].context = c
    BY DEF Carries
  <1>2. Fits(task[t].pc, task[t].result, e, s, c)
    BY DEF Found
  <1>3. Fits(task'[t].pc, task'[t].result, e, s, c)
    BY <1>2
  <1> QED BY <1>1, <1>3 DEF Found

LEMMA RoundTypes ==
    ASSUME Types, NEW j \in Jobs
    PROVE  /\ Rows(j)["query_embedding"] \in Row /\ Rows(j)["source_judgment"] \in Row
           /\ job[j].context \in Context
  <1>1. \A s \in Stage : Rows(j)[s] \in Row
    BY RowTypes, RecordTypes DEF Rows
  <1> QED BY <1>1, RowTypes DEF Stage, Remote, Job

\* The coroutine that goes on.
LEMMA FoundAdvances ==
    ASSUME Types, StagesFound, NEW t \in Tasks, Advances(t), Newest(t), Found(t), Busy(t)'
    PROVE  Found(t)'
  <1> DEFINE j == task[t].job
  <1>1. Carries(t) /\ UNCHANGED <<job, stage>> /\ j \in Jobs /\ ~Gone(j)
    BY RunTypes DEF Advances, Busy, Newest
  <1>2. Rows(task[t].job)' = Rows(j)
    BY <1>1 DEF Rows, Carries
  <1>3. /\ Rows(j)["query_embedding"] \in Row /\ Rows(j)["source_judgment"] \in Row
        /\ job[j].context \in Context
    BY <1>1, RoundTypes
  <1>4. CASE task[t].pc = "read" /\ task'[t].pc = "complete"
    <2>1. /\ job[j].context = "unresolved" /\ task'[t].result = "clarification_needed"
      BY <1>4 DEF Advances
    <2>2. \A s \in Stage : Rows(j)[s] = "none"
      BY <1>1, <2>1, RowTypes DEF StagesFound, Unasked, Rows
    <2>3. Rows(j)["query_embedding"] = "none" /\ Rows(j)["source_judgment"] = "none"
      BY <2>2 DEF Stage, Remote
    <2>4. Fits("complete", "clarification_needed", "none", "none", "unresolved")
      BY DEF Fits, PastBoundary
    <2>5. job'[task'[t].job].context = "unresolved" /\ task'[t].job = j
      BY <1>1, <2>1 DEF Carries
    <2> QED BY <1>2, <1>4, <2>1, <2>3, <2>4, <2>5 DEF Found
  <1>5. CASE task[t].pc = "read" /\ task'[t].pc = "boundary"
    <2>1. job[j].context # "unresolved"
      BY <1>5 DEF Advances
    <2>2. \A e, s, c, r : c # "unresolved" => Fits("boundary", r, e, s, c)
      BY DEF Fits, PastBoundary
    <2>3. job'[task'[t].job].context # "unresolved"
      BY <1>1, <2>1 DEF Carries
    <2> QED BY <1>5, <2>2, <2>3 DEF Found
  <1>6. CASE ~(task[t].pc = "read" /\ task'[t].pc \in {"complete", "boundary"})
    <2>1. \A e, s \in Row, c \in Context :
               Fits(task[t].pc, task[t].result, e, s, c)
                   => Fits(task'[t].pc, task'[t].result, e, s, c)
      BY <1>6 DEF Advances, Busy, Fits, PastBoundary
    <2> QED BY <1>1, <1>2, <1>3, <2>1, FoundMoves
  <1> QED BY <1>4, <1>5, <1>6

\* Past the boundary no row of the round is written yet.
LEMMA FoundMarks ==
    ASSUME Types, OneRunner, CallsRecorded, NEW t \in Tasks, Marks(t), Found(t)
    PROVE  Found(t)'
  <1> DEFINE j == task[t].job
  <1>1. /\ j \in Jobs /\ Newest(t) /\ ~Gone(j) /\ task[t].pc = "boundary"
        /\ task'[t].pc = "begin_embedding" /\ task'[t].job = j
        /\ stage' = stage /\ job'[j].manual_retry_count = job[j].manual_retry_count
        /\ job'[j].context = job[j].context
    BY RunTypes DEF Marks, Owns, Newest, Carries
  <1>2. ~job[j].provider_call_started
    BY <1>1 DEF OneRunner, ReadUnmarked
  <1>3. Rows(j)["query_embedding"] = "none" /\ Rows(j)["source_judgment"] = "none"
    BY <1>1, <1>2 DEF CallsRecorded, Stage, Remote
  <1>4. Rows(j)' = Rows(j)
    BY <1>1, RoundKept
  <1>5. job[j].context # "unresolved"
    BY <1>1 DEF Found, Fits
  <1>6. \A c, r : c # "unresolved" => Fits("begin_embedding", r, "none", "none", c)
    BY DEF Fits, PastBoundary
  <1>7. /\ Rows(task[t].job)'["query_embedding"] = "none"
        /\ Rows(task[t].job)'["source_judgment"] = "none"
        /\ job'[task'[t].job].context # "unresolved"
    BY <1>1, <1>3, <1>4, <1>5
  <1> QED BY <1>1, <1>6, <1>7 DEF Found

LEMMA FoundBegins ==
    ASSUME Types, NEW t \in Tasks, NEW s \in Stage, Begins(t, s), Found(t)
    PROVE  Found(t)'
  <1> DEFINE j == task[t].job
             e1 == Rows(j)["query_embedding"]
             s1 == Rows(j)["source_judgment"]
             e2 == Rows(task[t].job)'["query_embedding"]
             s2 == Rows(task[t].job)'["source_judgment"]
  <1>1. /\ j \in Jobs /\ job' = job /\ task'[t].job = j /\ StageSet(j, s, "open")
    BY RunTypes DEF Begins, Owns, Newest, Carries
  <1>2. \A x \in Stage : Rows(j)'[x] = IF x = s THEN "open" ELSE Rows(j)[x]
    BY <1>1, RoundWritten
  <1>3. Rows(task[t].job)' = Rows(j)'
    BY <1>1
  <1>4. /\ e2 = IF s = "query_embedding" THEN "open" ELSE e1
        /\ s2 = IF s = "source_judgment" THEN "open" ELSE s1
    BY <1>2, <1>3 DEF Stage, Remote
  <1>5. Fits(task[t].pc, task[t].result, e1, s1, job[j].context)
    BY DEF Found
  <1> HIDE DEF e1, s1, e2, s2
  <1>6. Fits(task'[t].pc, task'[t].result, e2, s2, job[j].context)
    BY <1>4, <1>5 DEF Begins, Fits, PastBoundary
  <1> QED BY <1>1, <1>6 DEF Found, e2, s2

LEMMA FoundAsks ==
    ASSUME Types, NEW t \in Tasks, NEW s \in Remote, Asks(t, s), Found(t)
    PROVE  Found(t)'
  <1> DEFINE j == task[t].job
  <1>1. Carries(t) /\ UNCHANGED <<job, stage>> /\ j \in Jobs
    BY RunTypes DEF Asks
  <1>2. Rows(task[t].job)' = Rows(j)
    BY <1>1 DEF Rows, Carries
  <1>3. /\ Rows(j)["query_embedding"] \in Row /\ Rows(j)["source_judgment"] \in Row
        /\ job[j].context \in Context
    BY <1>1, RoundTypes
  <1>4. \A e, x \in Row, c \in Context :
               Fits(task[t].pc, task[t].result, e, x, c)
                   => Fits(task'[t].pc, task'[t].result, e, x, c)
    BY DEF Asks, Fits, PastBoundary
  <1> QED BY <1>1, <1>2, <1>3, <1>4, FoundMoves

LEMMA FoundRecords ==
    ASSUME Types, StagesFound, NEW t \in Tasks, NEW s \in Stage, Records(t, s), Found(t)
    PROVE  Found(t)'
  <1> DEFINE j == task[t].job
             e1 == Rows(j)["query_embedding"]
             s1 == Rows(j)["source_judgment"]
             e2 == Rows(task[t].job)'["query_embedding"]
             s2 == Rows(task[t].job)'["source_judgment"]
  <1>1. /\ j \in Jobs /\ Same(job'[j], job[j]) /\ task'[t].job = j
        /\ StageSet(j, s, task[t].row)
    BY RunTypes DEF Records, Owns, Newest, Carries
  <1>2. \A x \in Stage : Rows(j)'[x] = IF x = s THEN task[t].row ELSE Rows(j)[x]
    BY <1>1, RoundWritten DEF Same
  <1>3. Rows(task[t].job)' = Rows(j)'
    BY <1>1
  <1>4. /\ e2 = IF s = "query_embedding" THEN task[t].row ELSE e1
        /\ s2 = IF s = "source_judgment" THEN task[t].row ELSE s1
    BY <1>2, <1>3 DEF Stage, Remote
  <1>5. Fits(task[t].pc, task[t].result, e1, s1, job[j].context)
    BY DEF Found
  <1>6. /\ task[t].pc = "end_embedding" /\ task[t].then = "go" =>
               task[t].row \in {"ok", "fallback"}
        /\ task[t].pc = "end_judgment" /\ task[t].then = "go" =>
               task[t].row = "ok" /\ task[t].result # "none"
    BY DEF StagesFound, Outcome
  <1> HIDE DEF e1, s1, e2, s2
  <1>7. Fits(task'[t].pc, task'[t].result, e2, s2, job[j].context)
    <2>1. CASE task'[t].pc \in {"failing", "cancelling"}
      BY <2>1 DEF Fits, PastBoundary
    <2>2. CASE s = "query_embedding" /\ task[t].pc = "end_embedding" /\ task[t].then = "go"
               /\ task'[t].pc = "begin_retrieval"
      BY <1>4, <1>5, <1>6, <2>2 DEF Fits, PastBoundary
    <2>3. CASE s = "retrieval" /\ task[t].pc = "end_retrieval" /\ task'[t].pc = "prepare"
      BY <1>4, <1>5, <2>3 DEF Fits, PastBoundary
    <2>4. CASE s = "retrieval" /\ task[t].pc = "end_retrieval" /\ task'[t].pc = "complete"
               /\ task'[t].result = "no_match"
      BY <1>4, <1>5, <2>4 DEF Fits, PastBoundary
    <2>5. CASE s = "source_judgment" /\ task[t].pc = "end_judgment" /\ task[t].then = "go"
               /\ task'[t].pc = "complete" /\ task'[t].result = task[t].result
      BY <1>4, <1>5, <1>6, <2>5 DEF Fits, PastBoundary
    <2> QED BY <2>1, <2>2, <2>3, <2>4, <2>5 DEF Records
  <1>8. job'[task'[t].job].context = job[j].context
    BY <1>1 DEF Same
  <1> QED BY <1>7, <1>8 DEF Found, e2, s2

LEMMA FoundBystander ==
    ASSUME Types, NEW t \in Tasks, Newest(t), Found(t), Newest(t)', task'[t] = task[t],
           \A r \in Rounds, x \in Stage :
               stage'[task[t].job][r][x] = stage[task[t].job][r][x],
           job'[task[t].job].context = job[task[t].job].context
    PROVE  Found(t)'
  <1> DEFINE j == task[t].job
  <1>1. job'[j].manual_retry_count = job[j].manual_retry_count
        /\ job[j].manual_retry_count \in Rounds /\ task'[t].job = j
    BY RunTypes DEF Newest
  <1>2. \A x \in Stage : Rows(task[t].job)'[x] = Rows(j)[x]
    BY <1>1 DEF Rows
  <1> QED BY <1>2, FoundStays

\* The context of a question that was asked does not change.
LEMMA ContextStays ==
    ASSUME Types, Shapes, NEW j \in Jobs, job[j].status # "absent", ~Gone(j)'
    PROVE  job'[j].context = job[j].context
  <1> USE DEF Gone, Alike, Same, OtherRows
  <1>1. CASE Still
    BY <1>1 DEF Still
  <1>2. ASSUME NEW js \in SUBSET Jobs, Drops(js) PROVE job'[j].context = job[j].context
    BY <1>2 DEF Drops
  <1>3. ASSUME NEW i \in Jobs, Admits(i) \/ Stops(i) \/ Requeue(i)
        PROVE  job'[j].context = job[j].context
    BY <1>3 DEF Admits, Stops, Requeue
  <1>4. ASSUME NEW t \in Tasks, NEW i \in Jobs, TakesUp(t, i)
        PROVE  job'[j].context = job[j].context
    BY <1>4 DEF TakesUp
  <1>5. ASSUME NEW t \in Tasks, Advances(t) \/ Marks(t) \/ Completes(t) \/ GivesUp(t)
        PROVE  job'[j].context = job[j].context
    BY <1>5 DEF Advances, Marks, Completes, GivesUp
  <1>6. ASSUME NEW t \in Tasks, NEW s \in Stage, Begins(t, s) \/ Records(t, s)
        PROVE  job'[j].context = job[j].context
    BY <1>6 DEF Begins, Records
  <1>7. ASSUME NEW t \in Tasks, NEW s \in Remote, Asks(t, s)
        PROVE  job'[j].context = job[j].context
    BY <1>7 DEF Asks
  <1>8. CASE TakesBack
    BY <1>8 DEF TakesBack, TakenBack
  <1> QED BY <1>1, <1>2, <1>3, <1>4, <1>5, <1>6, <1>7, <1>8 DEF Shapes

\* Which rows of a job stay, and which coroutines: what the step writes belongs
\* to the newest claim, and nobody else has it.
LEMMA Bystanders ==
    ASSUME Types, Types', RunsBehind, RunsDistinct, OneRunner, CallsRecorded, StagesFound,
           Shapes, NEW t \in Tasks, Newest(t), Newest(t)', Carries(t)
    PROVE  Found(t)'
  <1> DEFINE j == task[t].job
  <1>0. /\ j \in Jobs /\ Busy(t) /\ Busy(t)' /\ Found(t) /\ ~Gone(j)
        /\ job'[j].status # "deleted"
    BY RunTypes DEF Newest, StagesFound, Carries, Gone
  <1>1. job[j].status # "absent"
    BY <1>0 DEF RunsBehind
  <1>2. job'[task[t].job].context = job[task[t].job].context
    BY <1>0, <1>1, ContextStays DEF Gone
  <1>3. ASSUME task'[t] = task[t], stage' = stage PROVE Found(t)'
    BY <1>0, <1>2, <1>3, FoundBystander
  <1>4. CASE Still \/ TakesBack
    BY <1>3, <1>4 DEF Still, TakesBack
  <1>5. ASSUME NEW js \in SUBSET Jobs, Drops(js) PROVE Found(t)'
    <2>1. stage'[j] = stage[j] /\ task' = task
      BY <1>0, <1>5 DEF Drops
    <2> QED BY <1>0, <1>2, <2>1, FoundBystander
  <1>6. ASSUME NEW i \in Jobs, Admits(i) \/ Stops(i) \/ Requeue(i) PROVE Found(t)'
    BY <1>3, <1>6 DEF Admits, Stops, Requeue
  <1>7. ASSUME NEW u \in Tasks, NEW i \in Jobs, TakesUp(u, i) PROVE Found(t)'
    BY <1>0, <1>3, <1>7 DEF TakesUp, OtherTasks
  <1>8. ASSUME NEW u \in Tasks, Advances(u) PROVE Found(t)'
    BY <1>0, <1>3, <1>8, FoundAdvances DEF Advances, OtherTasks
  <1>9. ASSUME NEW u \in Tasks, Marks(u) PROVE Found(t)'
    BY <1>0, <1>3, <1>9, FoundMarks DEF Marks, OtherTasks
  <1>10. ASSUME NEW u \in Tasks, Completes(u) \/ GivesUp(u) PROVE Found(t)'
    BY <1>0, <1>3, <1>10 DEF Completes, GivesUp, OtherTasks, Busy
  <1>11. ASSUME NEW u \in Tasks, NEW s \in Remote, Asks(u, s) PROVE Found(t)'
    BY <1>0, <1>3, <1>11, FoundAsks DEF Asks, OtherTasks
  <1>12. ASSUME NEW u \in Tasks, NEW s \in Stage, Begins(u, s) \/ Records(u, s)
         PROVE  Found(t)'
    <2>1. CASE u = t
      BY <1>0, <1>12, <2>1, FoundBegins, FoundRecords
    <2>2. CASE u # t
      <3>1. Newest(u) /\ task'[t] = task[t]
        BY <1>12, <2>2 DEF Begins, Records, Owns, OtherTasks
      <3>2. task[u].job # j
        BY <2>2, <3>1, Alone
      <3>3. \A r \in Rounds, x \in Stage :
                stage'[task[t].job][r][x] = stage[task[t].job][r][x]
        BY <1>0, <1>12, <3>2 DEF Begins, Records, StageSet
      <3> QED BY <1>0, <1>2, <3>1, <3>3, FoundBystander
    <2> QED BY <2>1, <2>2
  <1> QED BY <1>4, <1>5, <1>6, <1>7, <1>8, <1>9, <1>10, <1>11, <1>12 DEF Shapes

LEMMA OutcomeKept ==
    ASSUME Types, StagesFound, Shapes, NEW t \in Tasks
    PROVE  Outcome(task'[t])
  <1>1. Outcome(task[t])
    BY DEF StagesFound
  <1>2. task'[t] = task[t] => Outcome(task'[t])
    BY <1>1
  <1> USE DEF OtherTasks
  <1>3. CASE Still \/ TakesBack
    BY <1>2, <1>3 DEF Still, TakesBack
  <1>4. ASSUME NEW js \in SUBSET Jobs, Drops(js) PROVE Outcome(task'[t])
    BY <1>2, <1>4 DEF Drops
  <1>5. ASSUME NEW j \in Jobs, Admits(j) \/ Stops(j) \/ Requeue(j)
        PROVE  Outcome(task'[t])
    BY <1>2, <1>5 DEF Admits, Stops, Requeue
  <1>6. ASSUME NEW u \in Tasks, NEW j \in Jobs, TakesUp(u, j) PROVE Outcome(task'[t])
    BY <1>2, <1>6 DEF TakesUp, Outcome
  <1>7. ASSUME NEW u \in Tasks, Advances(u) PROVE Outcome(task'[t])
    BY <1>2, <1>7 DEF Advances, Outcome
  <1>8. ASSUME NEW u \in Tasks, Marks(u) \/ Completes(u) \/ GivesUp(u)
        PROVE  Outcome(task'[t])
    BY <1>2, <1>8 DEF Marks, Completes, GivesUp, Outcome
  <1>9. ASSUME NEW u \in Tasks, NEW s \in Stage, Begins(u, s) PROVE Outcome(task'[t])
    BY <1>2, <1>9 DEF Begins, Outcome
  <1>10. ASSUME NEW u \in Tasks, NEW s \in Stage, Records(u, s) PROVE Outcome(task'[t])
    BY <1>2, <1>10 DEF Records, Outcome
  <1>11. ASSUME NEW u \in Tasks, NEW s \in Remote, Asks(u, s) PROVE Outcome(task'[t])
    BY <1>2, <1>11 DEF Asks, Outcome
  <1> QED BY <1>3, <1>4, <1>5, <1>6, <1>7, <1>8, <1>9, <1>10, <1>11 DEF Shapes

\* Of a question that only asks back no stage ever begins.
LEMMA UnaskedKept ==
    ASSUME Types, Types', OneRunner, CallsRecorded, StagesFound, Shapes, NEW j \in Jobs
    PROVE  Unasked(j)'
  <1> SUFFICES ASSUME ~Gone(j)', job'[j].context = "unresolved"
               PROVE  \A r \in Rounds, x \in Stage : stage'[j][r][x] = "none"
    BY DEF Unasked
  <1>1. CASE job[j].status # "absent"
    <2>1. job[j].context = "unresolved"
      BY <1>1, ContextStays
    <2>2. ~Gone(j)
      BY Growing DEF RowsGrow
    <2>3. \A r \in Rounds, x \in Stage : stage[j][r][x] = "none"
      BY <2>1, <2>2 DEF StagesFound, Unasked
    <2>4. ASSUME NEW js \in SUBSET Jobs, Drops(js) PROVE stage'[j] = stage[j]
      BY <2>4 DEF Drops, Gone
    <2>5. ASSUME NEW t \in Tasks, NEW s \in Stage, Begins(t, s) \/ Records(t, s)
          PROVE  \A r \in Rounds, x \in Stage : stage'[j][r][x] = "none"
      <3>1. Newest(t) /\ task[t].pc \in PastBoundary
        BY <2>5 DEF Begins, Records, Owns, PastBoundary
      <3>2. job[task[t].job].context # "unresolved"
        BY <3>1 DEF StagesFound, Found, Fits
      <3>3. j # task[t].job
        BY <2>1, <3>2
      <3> QED BY <2>3, <2>5, <3>3 DEF Begins, Records, StageSet
    <2>6. stage'[j] = stage[j] \/ (\A r \in Rounds, x \in Stage : stage'[j][r][x] = "none")
      BY <2>4, <2>5 DEF Shapes, Still, TakesBack, Admits, Stops, Requeue, TakesUp, Advances,
                        Marks, Completes, GivesUp, Asks
    <2> QED BY <2>3, <2>6
  <1>2. CASE job[j].status = "absent"
    <2>1. ~job[j].provider_call_started /\ job[j].manual_retry_count = 0
      BY <1>2 DEF OneRunner, RowsUnmarked
    <2>2. ~Gone(j)
      BY <1>2 DEF Gone
    <2>3. \A r \in Rounds : r = 0 \/ r > 0
      BY AnswerAssumption DEF Rounds
    <2>4. \A x \in Stage : stage[j][0][x] = "none"
      BY <2>1, <2>2 DEF CallsRecorded, Rows
    <2>5. \A r \in Rounds, x \in Stage : stage[j][r][x] = "none"
      BY <2>1, <2>2, <2>3, <2>4 DEF CallsRecorded
    <2>6. ASSUME NEW js \in SUBSET Jobs, Drops(js) PROVE stage'[j] = stage[j]
      BY <2>6 DEF Drops, Gone
    <2>7. ASSUME NEW t \in Tasks, NEW s \in Stage, Begins(t, s) \/ Records(t, s)
          PROVE  \A r \in Rounds, x \in Stage : stage'[j][r][x] = "none"
      <3>1. j # task[t].job
        BY <1>2, <2>7 DEF Begins, Records, Owns
      <3> QED BY <2>5, <2>7, <3>1 DEF Begins, Records, StageSet
    <2>8. stage'[j] = stage[j] \/ (\A r \in Rounds, x \in Stage : stage'[j][r][x] = "none")
      BY <2>6, <2>7 DEF Shapes, Still, TakesBack, Admits, Stops, Requeue, TakesUp, Advances,
                        Marks, Completes, GivesUp, Asks
    <2> QED BY <2>5, <2>8
  <1> QED BY <1>1, <1>2

LEMMA StagesFoundKept ==
    ASSUME Types, Types', RunsBehind, RunsDistinct, OneRunner, CallsRecorded, StagesFound,
           Shapes
    PROVE  StagesFound'
  <1>1. ASSUME NEW t \in Tasks, Newest(t)' PROVE Found(t)'
    <2>1. Busy(t)'
      BY <1>1 DEF Newest
    <2>2. CASE Busy(t) /\ Carries(t)
      BY <1>1, <2>2, NewestBack, Bystanders
    <2>3. CASE \E j \in Jobs : TakesUp(t, j)
      <3>1. task'[t].pc = "read"
        BY <2>3 DEF TakesUp
      <3>2. \A r, e, s, c : Fits("read", r, e, s, c)
        BY DEF Fits, PastBoundary
      <3> QED BY <3>1, <3>2 DEF Found
    <2> QED BY <2>1, <2>2, <2>3, Origins
  <1>2. \A t \in Tasks : Outcome(task'[t])
    BY OutcomeKept
  <1>3. \A j \in Jobs : Unasked(j)'
    BY UnaskedKept
  <1> QED BY <1>1, <1>2, <1>3 DEF StagesFound

-----------------------------------------------------------------------------
(* What a round cost.                                                      *)

\* Before the boundary nothing was asked.
LEMMA NothingAsked ==
    ASSUME CallsRecorded, NEW j \in Jobs, ~Gone(j), ~job[j].provider_call_started
    PROVE  Asked(j) = {}
  <1>1. \A s \in Stage : Rows(j)[s] = "none"
    BY DEF CallsRecorded
  <1>2. \A s \in Asked(j) : s \in Stage /\ Rows(j)[s] # "none"
    BY DEF CallsRecorded, Asked, Stage
  <1> QED BY <1>1, <1>2

\* The round, its rows and its requests stay, and its mark is not taken away.
PriceKept(j) ==
    /\ stage'[j] = stage[j] /\ calls'[j] = calls[j]
    /\ job'[j].manual_retry_count = job[j].manual_retry_count
    /\ job[j].attempt_cost_unknown => job'[j].attempt_cost_unknown

LEMMA PricedQuiet ==
    ASSUME NEW j \in Jobs, Priced(j), PriceKept(j),
           \/ job'[j].status \notin {"failed", "completed"}
           \/ job[j].status = job'[j].status
           \/ Asked(j) = {}
           \/ \A s \in Asked(j) : Rows(j)[s] # "open"
           \/ job'[j].attempt_cost_unknown
    PROVE  Priced(j)'
  <1>1. Rows(j)' = Rows(j) /\ Asked(j)' = Asked(j)
    BY DEF Rows, Asked, PriceKept
  <1> QED BY <1>1 DEF Priced, PriceKept

\* Requests and rows of another round or another job do not matter.
LEMMA PricedStaged ==
    ASSUME Types, CostMarked, SendsOnce, NEW t \in Tasks, NEW s \in Stage,
           Begins(t, s) \/ Records(t, s), NEW j \in Jobs, ~Gone(j)'
    PROVE  Priced(j)'
  <1> DEFINE i == task[t].job
  <1>0. /\ i \in Jobs /\ Newest(t) /\ calls' = calls
        /\ task[t].run[1] = job[i].manual_retry_count
        /\ job[i].status = "running"
    BY RunTypes DEF Begins, Records, Owns, Newest
  <1>1. CASE j # i
    <2>1. Alike(j) /\ ~Gone(j)
      BY <1>1 DEF Begins, Records, OtherRows, Alike, Same, Gone
    <2>2. \A r \in Rounds, x \in Stage : stage'[j][r][x] = stage[j][r][x]
      BY <1>1 DEF Begins, Records, StageSet
    <2>3. job[j].manual_retry_count \in Rounds
      BY RowTypes
    <2>4. \A x \in Stage : Rows(j)'[x] = Rows(j)[x]
      BY <2>1, <2>2, <2>3 DEF Rows, Alike, Same
    <2>5. Asked(j)' = Asked(j) /\ Asked(j) \subseteq Stage
      BY <1>0, <2>1 DEF Asked, Alike, Same, Stage
    <2>6. Priced(j)
      BY <2>1 DEF CostMarked
    <2> QED BY <2>1, <2>4, <2>5, <2>6 DEF Priced, Alike
  <1>2. ASSUME j = i, Begins(t, s) PROVE Priced(j)'
    <2>1. StageSet(j, s, "open") /\ job' = job
      BY <1>2 DEF Begins
    <2>2. \A x \in Stage : Rows(j)'[x] = IF x = s THEN "open" ELSE Rows(j)[x]
      BY <1>0, <2>1, RoundWritten
    <2>3. Asked(j)' = Asked(j) /\ Asked(j) \subseteq Stage
      BY <1>0, <2>1 DEF Asked, Stage
    <2>4. Priced(j)
      BY <1>0, <1>2 DEF CostMarked, Newest
    <2> QED BY <1>0, <1>2, <2>1, <2>2, <2>3, <2>4 DEF Priced
  <1>3. ASSUME j = i, Records(t, s) PROVE Priced(j)'
    <2>1. /\ StageSet(j, s, task[t].row) /\ Same(job'[j], job[j])
          /\ job'[j].status = "running"
          /\ job[j].attempt_cost_unknown => job'[j].attempt_cost_unknown
          /\ task[t].sent /\ task[t].row # "ok" => job'[j].attempt_cost_unknown
      BY <1>3 DEF Records
    <2>2. \A x \in Stage : Rows(j)'[x] = IF x = s THEN task[t].row ELSE Rows(j)[x]
      BY <1>0, <2>1, RoundWritten DEF Same
    <2>3. Asked(j)' = Asked(j) /\ Asked(j) \subseteq Stage
      BY <1>0, <2>1 DEF Asked, Stage, Same
    <2>4. Priced(j)
      BY <1>0, <1>3 DEF CostMarked, Newest
    <2>5. s \in Asked(j) => task[t].sent
      BY <1>0, <1>3 DEF Asked, Records, SendsOnce, Remote
    <2> QED BY <1>0, <2>1, <2>2, <2>3, <2>4, <2>5 DEF Priced
  <1> QED BY <1>1, <1>2, <1>3

\* A request leaves while its row is open and the round goes on.
LEMMA PricedAsked ==
    ASSUME Types, CostMarked, OneRunner, StagesFound, NEW t \in Tasks, NEW s \in Remote,
           Asks(t, s), NEW j \in Jobs, ~Gone(j)'
    PROVE  Priced(j)'
  <1>1. UNCHANGED <<job, stage>> /\ ~Gone(j)
    BY DEF Asks, Gone
  <1>2. \A r \in Rounds, x \in Remote :
            calls'[j][r][x] =
                IF j = task[t].job /\ r = task[t].run[1] /\ x = s
                THEN calls[j][r][x] + 1 ELSE calls[j][r][x]
    BY DEF Asks, Counted
  <1>3. Rows(j)' = Rows(j) /\ job[j].manual_retry_count \in Rounds
    BY <1>1, RowTypes DEF Rows
  <1>4. Priced(j)
    BY <1>1 DEF CostMarked
  <1>5. j = task[t].job /\ task[t].run[1] = job[j].manual_retry_count =>
            /\ Rows(j)[s] = "open" /\ job[j].status # "completed"
            /\ job[j].status = "failed" => job[j].attempt_cost_unknown
    <2> SUFFICES ASSUME j = task[t].job, task[t].run[1] = job[j].manual_retry_count
                 PROVE  /\ Rows(j)[s] = "open" /\ job[j].status # "completed"
                        /\ job[j].status = "failed" => job[j].attempt_cost_unknown
      OBVIOUS
    <2>1. task[t].pc \in PastBoundary
      BY DEF Asks, PastBoundary
    <2>2. Newest(t)
      BY <1>1, <2>1 DEF OneRunner, PastIsNewest
    <2>3. Rows(j)[s] = "open"
      BY <2>2 DEF StagesFound, Found, Fits, Asks
    <2> QED BY <2>1, <2>2, <2>3 DEF CostMarked, Watched
  <1>6. \A x \in Asked(j)' :
            \/ x \in Asked(j)
            \/ x = s /\ j = task[t].job /\ task[t].run[1] = job[j].manual_retry_count
    BY <1>1, <1>2, <1>3 DEF Asked
  <1> QED BY <1>1, <1>3, <1>4, <1>5, <1>6 DEF Priced

LEMMA PricedKept ==
    ASSUME Types, Types', RunsBehind, RunsDistinct, OneRunner, CallsRecorded, SendsOnce,
           StagesFound, CostMarked, Shapes, NEW j \in Jobs, ~Gone(j)'
    PROVE  Priced(j)'
  <1>0. ~Gone(j) /\ Priced(j)
    BY Growing DEF RowsGrow, CostMarked
  <1> USE DEF OtherRows, Alike, Same, PriceKept
  <1>1. CASE Still
    BY <1>0, <1>1, PricedQuiet DEF Still
  <1>2. ASSUME NEW js \in SUBSET Jobs, Drops(js) PROVE Priced(j)'
    BY <1>0, <1>2, PricedQuiet DEF Drops, Gone
  <1>3. ASSUME NEW i \in Jobs, Admits(i) PROVE Priced(j)'
    <2>1. CASE j # i
      BY <1>0, <1>3, <2>1, PricedQuiet DEF Admits
    <2>2. CASE j = i
      <3>1. ~job[j].provider_call_started /\ job[j].manual_retry_count = 0
        BY <1>3, <2>2 DEF OneRunner, RowsUnmarked, Admits
      <3>2. Asked(j) = {}
        BY <1>0, <3>1, NothingAsked
      <3>3. Asked(j)' = {}
        BY <1>3, <2>2, <3>1, <3>2 DEF Asked, Admits
      <3> QED BY <3>3 DEF Priced
    <2> QED BY <2>1, <2>2
  <1>4. ASSUME NEW i \in Jobs, Stops(i) PROVE Priced(j)'
    <2>1. CASE j # i
      BY <1>0, <1>4, <2>1, PricedQuiet DEF Stops
    <2>2. CASE j = i
      <3>1. Asked(j) = {}
        BY <1>0, <1>4, <2>2, NothingAsked DEF OneRunner, RowsUnmarked, Stops
      <3> QED BY <1>0, <1>4, <2>2, <3>1, PricedQuiet DEF Stops
    <2> QED BY <2>1, <2>2
  <1>5. ASSUME NEW i \in Jobs, Requeue(i) PROVE Priced(j)'
    <2>1. CASE j # i
      BY <1>0, <1>5, <2>1, PricedQuiet DEF Requeue
    <2>2. CASE j = i
      <3>1. CallsRecorded'
        BY CallsRecordedKept
      <3>2. ~job'[j].provider_call_started
        BY <1>5, <2>2 DEF Requeue
      <3>3. \A s \in Stage : Rows(j)'[s] = "none"
        BY <3>1, <3>2 DEF CallsRecorded
      <3>4. \A s \in Asked(j)' : s \in Stage /\ Rows(j)'[s] # "none"
        BY <3>1 DEF CallsRecorded, Asked, Stage
      <3> QED BY <3>3, <3>4 DEF Priced
    <2> QED BY <2>1, <2>2
  <1>6. ASSUME NEW t \in Tasks, NEW i \in Jobs, TakesUp(t, i) PROVE Priced(j)'
    BY <1>0, <1>6, PricedQuiet DEF TakesUp
  <1>7. ASSUME NEW t \in Tasks, Advances(t) \/ Marks(t) PROVE Priced(j)'
    BY <1>0, <1>7, PricedQuiet DEF Advances, Marks
  <1>8. ASSUME NEW t \in Tasks, Completes(t) PROVE Priced(j)'
    <2>1. CASE j # task[t].job
      BY <1>0, <1>8, <2>1, PricedQuiet DEF Completes
    <2>2. CASE j = task[t].job
      <3>1. Found(t) /\ task[t].pc = "complete"
        BY <1>8 DEF Completes, Owns, StagesFound
      <3>2. Rows(j)["query_embedding"] # "open" /\ Rows(j)["source_judgment"] # "open"
        BY <2>2, <3>1 DEF Found, Fits
      <3>3. \A s \in Asked(j) : Rows(j)[s] # "open"
        BY <3>2 DEF Asked, Remote
      <3>4. PriceKept(j)
        BY <1>8, <2>2 DEF Completes
      <3> QED BY <1>0, <3>3, <3>4, PricedQuiet
    <2> QED BY <2>1, <2>2
  <1>9. ASSUME NEW t \in Tasks, GivesUp(t) PROVE Priced(j)'
    <2>1. CASE j # task[t].job
      BY <1>0, <1>9, <2>1, PricedQuiet DEF GivesUp
    <2>2. CASE j = task[t].job
      <3>1. job'[j].attempt_cost_unknown \/ \A s \in Asked(j) : Rows(j)[s] # "open"
        BY <1>9, <2>2 DEF GivesUp, Unfinished, Asked
      <3>2. PriceKept(j)
        BY <1>9, <2>2 DEF GivesUp
      <3> QED BY <1>0, <3>1, <3>2, PricedQuiet
    <2> QED BY <2>1, <2>2
  <1>10. CASE TakesBack
    <2>1. PriceKept(j)
      BY <1>10 DEF TakesBack, TakenBack
    <2>2. CASE Alike(j)
      BY <1>0, <2>1, <2>2, PricedQuiet
    <2>3. CASE TakenBack(j)
      <3>1. ~job[j].provider_call_started => Asked(j) = {}
        BY <1>0, NothingAsked
      <3>2. \/ job'[j].status \notin {"failed", "completed"}
            \/ Asked(j) = {} \/ job'[j].attempt_cost_unknown
        BY <2>3, <3>1 DEF TakenBack
      <3> QED BY <1>0, <2>1, <3>2, PricedQuiet
    <2> QED BY <1>10, <2>2, <2>3 DEF TakesBack
  <1> HIDE DEF OtherRows, Alike, Same, PriceKept
  <1>11. ASSUME NEW t \in Tasks, NEW s \in Stage, Begins(t, s) \/ Records(t, s)
         PROVE  Priced(j)'
    BY <1>11, PricedStaged
  <1>12. ASSUME NEW t \in Tasks, NEW s \in Remote, Asks(t, s) PROVE Priced(j)'
    BY <1>12, PricedAsked
  <1> QED BY <1>1, <1>2, <1>3, <1>4, <1>5, <1>6, <1>7, <1>8, <1>9, <1>10, <1>11, <1>12
          DEF Shapes

\* The newest claim past the boundary is not behind the end of its round: only
\* recovery ends the round over its head, and says so.
LEMMA WatchedKept ==
    ASSUME Types, Types', RunsBehind, RunsDistinct, OneRunner, CostMarked, Shapes,
           NEW t \in Tasks
    PROVE  Watched(t)'
  <1> DEFINE j == task[t].job
  <1> SUFFICES ASSUME task'[t].pc \in PastBoundary, Newest(t)'
               PROVE  /\ job'[task'[t].job].status # "completed"
                      /\ job'[task'[t].job].status = "failed" =>
                             job'[task'[t].job].attempt_cost_unknown
    BY DEF Watched
  <1>0. Busy(t)' /\ task'[t].pc \notin {"idle", "read", "boundary", "complete"}
    BY DEF Newest, PastBoundary
  <1>1. Busy(t) /\ Carries(t)
    BY <1>0, Origins DEF TakesUp
  <1>2. Newest(t) /\ j \in Jobs /\ task'[t].job = j
    BY <1>1, NewestBack, RunTypes DEF Carries
  <1>3. ASSUME task[t].pc \in PastBoundary
        PROVE  /\ job[j].status # "completed"
               /\ job[j].status = "failed" => job[j].attempt_cost_unknown
               /\ job[j].provider_call_started
    BY <1>2, <1>3 DEF CostMarked, Watched, OneRunner, PastIsNewest, Newest
  <1>4. ASSUME task'[t] = task[t], Alike(j) \/ job'[j].status \notin {"completed", "failed"}
        PROVE  /\ job'[j].status # "completed"
               /\ job'[j].status = "failed" => job'[j].attempt_cost_unknown
    BY <1>3, <1>4 DEF Alike
  <1> HIDE DEF j
  <1> USE DEF OtherRows, OtherTasks
  <1>5. CASE Still
    BY <1>2, <1>4, <1>5 DEF Still
  <1>6. ASSUME NEW js \in SUBSET Jobs, Drops(js)
        PROVE  /\ job'[j].status # "completed"
               /\ job'[j].status = "failed" => job'[j].attempt_cost_unknown
    BY <1>2, <1>4, <1>6 DEF Drops
  <1>7. ASSUME NEW i \in Jobs, Admits(i) \/ Stops(i) \/ Requeue(i)
        PROVE  /\ job'[j].status # "completed"
               /\ job'[j].status = "failed" => job'[j].attempt_cost_unknown
    <2>1. task'[t] = task[t]
      BY <1>7 DEF Admits, Stops, Requeue
    <2>2. Stops(i) => j # i
      BY <1>2, <1>3, <2>1 DEF Stops, OneRunner, RowsUnmarked
    <2> QED BY <1>2, <1>4, <1>7, <2>1, <2>2 DEF Admits, Stops, Requeue
  <1>8. ASSUME NEW u \in Tasks, NEW i \in Jobs, TakesUp(u, i)
        PROVE  /\ job'[j].status # "completed"
               /\ job'[j].status = "failed" => job'[j].attempt_cost_unknown
    BY <1>0, <1>2, <1>4, <1>8 DEF TakesUp
  <1>9. ASSUME NEW u \in Tasks, Advances(u)
        PROVE  /\ job'[j].status # "completed"
               /\ job'[j].status = "failed" => job'[j].attempt_cost_unknown
    <2>1. task[t].pc \in PastBoundary
      BY <1>9 DEF Advances, PastBoundary
    <2> QED BY <1>3, <1>9, <2>1 DEF Advances
  <1>10. ASSUME NEW u \in Tasks, Marks(u)
         PROVE  /\ job'[j].status # "completed"
                /\ job'[j].status = "failed" => job'[j].attempt_cost_unknown
    BY <1>2, <1>4, <1>10 DEF Marks, j
  <1>11. ASSUME NEW u \in Tasks, Completes(u) \/ GivesUp(u)
         PROVE  /\ job'[j].status # "completed"
                /\ job'[j].status = "failed" => job'[j].attempt_cost_unknown
    <2>1. u # t
      BY <1>0, <1>11 DEF Completes, GivesUp
    <2>2. task[u].job # j
      BY <1>2, <1>11, <2>1, Alone DEF Completes, GivesUp, Owns, j
    <2> QED BY <1>2, <1>4, <1>11, <2>1, <2>2 DEF Completes, GivesUp
  <1>12. ASSUME NEW u \in Tasks, NEW s \in Stage, Begins(u, s) \/ Records(u, s)
         PROVE  /\ job'[j].status # "completed"
                /\ job'[j].status = "failed" => job'[j].attempt_cost_unknown
    <2>1. CASE u = t
      BY <1>12, <2>1 DEF Begins, Records, Owns, j
    <2>2. CASE u # t
      <3>1. task[u].job # j /\ task'[t] = task[t]
        BY <1>2, <1>12, <2>2, Alone DEF Begins, Records, Owns, j
      <3> QED BY <1>2, <1>3, <1>4, <1>12, <3>1 DEF Begins, Records
    <2> QED BY <2>1, <2>2
  <1>13. ASSUME NEW u \in Tasks, NEW s \in Remote, Asks(u, s)
         PROVE  /\ job'[j].status # "completed"
                /\ job'[j].status = "failed" => job'[j].attempt_cost_unknown
    <2>1. task[t].pc \in PastBoundary
      BY <1>13 DEF Asks, PastBoundary
    <2> QED BY <1>3, <1>13, <2>1 DEF Asks
  <1>14. CASE TakesBack
    <2>1. task'[t] = task[t]
      BY <1>14 DEF TakesBack
    <2> QED BY <1>2, <1>3, <1>4, <1>14, <2>1 DEF TakesBack, TakenBack
  <1> QED BY <1>2, <1>5, <1>6, <1>7, <1>8, <1>9, <1>10, <1>11, <1>12, <1>13, <1>14
          DEF Shapes

LEMMA CostMarkedKept ==
    ASSUME Types, Types', RunsBehind, RunsDistinct, OneRunner, CallsRecorded, SendsOnce,
           StagesFound, CostMarked, Shapes
    PROVE  CostMarked'
  BY PricedKept, WatchedKept DEF CostMarked

-----------------------------------------------------------------------------
(* References.                                                             *)

ReferencedAt(j) ==
    evidence[j] = IF job[j].status = "completed"
                     /\ job[j].result_kind = "related_knowledge"
                  THEN [round |-> job[j].manual_retry_count, corpus |-> job[j].corpus]
                  ELSE NoEvidence

LEMMA ReferencedKept ==
    ASSUME Types, Types', Referenced, Shapes
    PROVE  Referenced'
  <1> SUFFICES ASSUME NEW j \in Jobs PROVE ReferencedAt(j)'
    BY DEF Referenced, ReferencedAt
  <1>0. ReferencedAt(j)
    BY DEF Referenced, ReferencedAt
  <1>1. ASSUME Alike(j), evidence'[j] = evidence[j] PROVE ReferencedAt(j)'
    BY <1>0, <1>1 DEF ReferencedAt, Alike, Same
  <1>2. ASSUME job[j].status # "completed", job'[j].status # "completed",
               evidence'[j] \in {evidence[j], NoEvidence}
        PROVE  ReferencedAt(j)'
    BY <1>0, <1>2 DEF ReferencedAt
  <1> USE DEF OtherRows
  <1>3. CASE Still
    BY <1>1, <1>3 DEF Still
  <1>4. ASSUME NEW js \in SUBSET Jobs, Drops(js) PROVE ReferencedAt(j)'
    <2>1. CASE j \in js
      BY <1>4, <2>1 DEF Drops, ReferencedAt
    <2> QED BY <1>1, <1>4, <2>1 DEF Drops
  <1>5. ASSUME NEW i \in Jobs, Admits(i) \/ Stops(i) \/ Requeue(i)
        PROVE  ReferencedAt(j)'
    BY <1>1, <1>2, <1>5 DEF Admits, Stops, Requeue, Unreferenced
  <1>6. ASSUME NEW t \in Tasks, NEW i \in Jobs, TakesUp(t, i) PROVE ReferencedAt(j)'
    BY <1>1, <1>2, <1>6 DEF TakesUp
  <1>7. ASSUME NEW t \in Tasks, Advances(t) PROVE ReferencedAt(j)'
    BY <1>1, <1>7 DEF Advances, Alike, Same
  <1>8. ASSUME NEW t \in Tasks, Marks(t) \/ GivesUp(t) PROVE ReferencedAt(j)'
    BY <1>1, <1>2, <1>8 DEF Marks, GivesUp, Owns, Unreferenced
  <1>9. ASSUME NEW t \in Tasks, Completes(t) PROVE ReferencedAt(j)'
    <2>1. CASE j # task[t].job
      BY <1>1, <1>9, <2>1 DEF Completes
    <2>2. CASE j = task[t].job
      BY <1>9, <2>2 DEF Completes, ReferencedAt
    <2> QED BY <2>1, <2>2
  <1>10. ASSUME NEW t \in Tasks, NEW s \in Stage, Begins(t, s) \/ Records(t, s)
         PROVE  ReferencedAt(j)'
    BY <1>1, <1>2, <1>10 DEF Begins, Records, Owns, Alike, Same
  <1>11. ASSUME NEW t \in Tasks, NEW s \in Remote, Asks(t, s) PROVE ReferencedAt(j)'
    BY <1>1, <1>11 DEF Asks, Alike, Same
  <1>12. CASE TakesBack
    BY <1>1, <1>2, <1>12 DEF TakesBack, TakenBack
  <1> QED BY <1>3, <1>4, <1>5, <1>6, <1>7, <1>8, <1>9, <1>10, <1>11, <1>12 DEF Shapes

-----------------------------------------------------------------------------
(* The invariant and the theorems.                                         *)

IInv ==
    /\ Types /\ RunsBehind /\ RunsDistinct /\ OneRunner
    /\ CallsRecorded /\ SendsOnce /\ StagesFound /\ CostMarked /\ Referenced

LEMMA InitHolds == Init => IInv
  <1> SUFFICES ASSUME Init PROVE IInv
    OBVIOUS
  <1>1. /\ \A j \in Jobs : job[j] = Absent /\ evidence[j] = NoEvidence
        /\ \A j \in Jobs : stage[j] = NoRows /\ calls[j] = NoCalls
        /\ \A t \in Tasks : task[t] = Idle
    BY DEF Init
  <1>2. Types
    <2>1. JobsOK
      BY WholeRows DEF Init, JobsOK, RowOK
    <2>2. TasksOK
      BY WholeRows, AnswerAssumption DEF Init, TasksOK, Busy
    <2>3. RecordsOK
      BY WholeRows DEF Init, RecordsOK
    <2>4. 0 \in 0 .. MaxCorpus
      BY AnswerAssumption
    <2>5. RestOK
      BY <2>4, WholeRows DEF Init, RestOK
    <2> QED BY <2>1, <2>2, <2>3, <2>5, TypeParts
  <1>3. \A t \in Tasks : task[t].pc = "idle" /\ ~Busy(t) /\ ~Newest(t)
    BY <1>1, WholeRows DEF Busy, Newest
  <1>4. \A j \in Jobs : /\ job[j].status = "absent" /\ ~job[j].provider_call_started
                        /\ job[j].manual_retry_count = 0 /\ job[j].context = "clear"
    BY <1>1 DEF Absent
  <1>5. /\ \A j \in Jobs, r \in Rounds, s \in Stage : stage[j][r][s] = "none"
        /\ \A j \in Jobs, r \in Rounds, s \in Remote : calls[j][r][s] = 0
    <2>1. \A r \in Rounds, s \in Stage : NoRows[r][s] = "none"
      BY DEF NoRows, Rounds
    <2>2. \A r \in Rounds, s \in Remote : NoCalls[r][s] = 0
      BY DEF NoCalls, Rounds
    <2> QED BY <1>1, <2>1, <2>2
  <1>6. RunsBehind /\ RunsDistinct
    BY <1>3 DEF RunsBehind, RunsDistinct
  <1>7. OneRunner
    BY <1>3, <1>4 DEF OneRunner, PastIsNewest, ReadUnmarked, OnePast, RowsUnmarked,
                      PastBoundary
  <1>8. 0 \in Rounds
    BY AnswerAssumption DEF Rounds
  <1>9. \A j \in Jobs : /\ \A s \in Stage : Rows(j)[s] = "none"
                        /\ Asked(j) = {}
    BY <1>4, <1>5, <1>8 DEF Rows, Asked
  <1>10. CallsRecorded
    BY <1>5, <1>9 DEF CallsRecorded
  <1>11. SendsOnce
    BY <1>3, <1>5 DEF SendsOnce
  <1>12. StagesFound
    BY <1>3, <1>4, <1>5 DEF StagesFound, Outcome, Unasked
  <1>13. CostMarked
    BY <1>3, <1>9 DEF CostMarked, Priced, Watched
  <1>14. Referenced
    BY <1>1, <1>4 DEF Referenced
  <1> QED BY <1>2, <1>6, <1>7, <1>10, <1>11, <1>12, <1>13, <1>14 DEF IInv

LEMMA NextHolds == IInv /\ [Next]_vars => IInv'
  <1> SUFFICES ASSUME IInv, [Next]_vars PROVE IInv'
    OBVIOUS
  <1>1. Types' /\ Shapes
    BY StepShapes DEF IInv
  <1> QED BY <1>1, RunsBehindKept, RunsDistinctKept, OneRunnerKept, CallsRecordedKept,
             SendsOnceKept, StagesFoundKept, CostMarkedKept, ReferencedKept DEF IInv

LEMMA Invariance == Spec => []IInv
  BY InitHolds, NextHolds, PTL DEF Spec

\* Every variable of Ask AI keeps its type, and a lease exists exactly while its
\* job runs (models/rag.py, ck_rag_answer_jobs_lease).
THEOREM TypeCorrect == Spec => []TypeOK
  <1>1. IInv => TypeOK
    BY DEF IInv, Types
  <1> QED BY <1>1, Invariance, PTL

\* However often claims die, expire, are recovered and retried, no provider is
\* asked twice for one paid round, and no question waits in the queue once a
\* provider was asked for it (_mark_provider_boundary, _begin_stage,
\* recover_expired).
THEOREM PaidOnce == Spec => []NothingAskedTwice
  <1>1. ASSUME IInv, NEW j \in Jobs, job[j].status = "queued" PROVE Asked(j) = {}
    <2>1. ~job[j].provider_call_started
      BY <1>1 DEF IInv, OneRunner, RowsUnmarked
    <2> QED BY <1>1, <2>1, NothingAsked DEF IInv, Gone
  <1>2. IInv => NothingAskedTwice
    BY <1>1 DEF IInv, SendsOnce, NothingAskedTwice, Rounds
  <1> QED BY <1>2, Invariance, PTL

\* A question that failed or completed says that its cost is unknown when a
\* request of its round never reported its usage (_finish_stage, _fail,
\* recover_expired).
THEOREM UnknownCostTold == Spec => []UnknownCostMarked
  <1>1. ASSUME IInv, NEW j \in Present, job[j].status \in {"failed", "completed"},
               NEW s \in Asked(j), Rows(j)[s] # "ok"
        PROVE  job[j].attempt_cost_unknown
    BY <1>1 DEF IInv, CostMarked, Priced, Present, Gone
  <1>2. IInv => UnknownCostMarked
    BY <1>1 DEF UnknownCostMarked
  <1> QED BY <1>2, Invariance, PTL

\* References belong to completed answers of the present round, and whoever is
\* shown them sees the Knowledge as it is now (_complete_source, retry, _cancel,
\* _related_excerpts_for_jobs).
THEOREM ReferencesCurrent == Spec => []EvidenceCurrent
  <1>1. ASSUME IInv, NEW j \in Jobs
        PROVE  LET e == evidence[j] IN
               /\ IF job[j].status = "completed" /\ job[j].result_kind = "related_knowledge"
                    THEN e = [round |-> job[j].manual_retry_count, corpus |-> job[j].corpus]
                    ELSE e = NoEvidence
               /\ Shown(j) => e.corpus = corpus
    BY <1>1 DEF IInv, Referenced, Shown
  <1>2. IInv => EvidenceCurrent
    BY <1>1 DEF EvidenceCurrent
  <1> QED BY <1>2, Invariance, PTL

\* A coroutine whose claim was taken over, retried or deleted writes nothing any
\* more: neither the row of the question nor a stage nor a reference
\* (_claimed_job, _fail, _cancel).
THEOREM StaleClaimsWriteNothing == Spec => StaleWritesNothing
  <1>1. ASSUME IInv, [Next]_vars, NEW t \in Tasks, task'[t] # task[t], task[t].job # None,
               Superseded(t)
        PROVE  UNCHANGED <<job, stage, evidence>>
    <2>1. Types /\ Shapes /\ TasksOK
      BY <1>1, StepShapes, TypeParts DEF IInv
    <2>2. Busy(t) /\ task[t].job \in Jobs
      BY <1>1, <2>1 DEF TasksOK, Task, Busy
    <2>3. ~Owns(t)
      <3>1. SUFFICES ASSUME Owns(t) PROVE FALSE
        OBVIOUS
      <3>2. task[t].run = <<task[t].run[1], task[t].run[2]>>
        BY <2>1, <2>2, TaskFields DEF Run
      <3> QED BY <1>1, <3>1, <3>2 DEF Owns, Newest, Superseded, RunOf
    <2> QED BY <1>1, <2>1, <2>2, <2>3, ZenonT(60)
            DEF Shapes, Still, Drops, Admits, Stops, Requeue, TakesUp, Advances, Marks,
                Completes, GivesUp, Begins, Records, Asks, TakesBack, OtherTasks
  <1>2. IInv /\ [Next]_vars =>
            (\A t \in Tasks : task'[t] # task[t] /\ task[t].job # None /\ Superseded(t)
                                  => UNCHANGED <<job, stage, evidence>>)
    BY <1>1
  <1> QED BY <1>2, Invariance, PTL DEF Spec, StaleWritesNothing

-----------------------------------------------------------------------------
(* The triggers of the database.                                           *)

\* A row that is completed or cancelled is written no more, but its context goes
\* with the question before it.
Settled(j) ==
    job[j].status \in {"completed", "cancelled"} /\ ~Gone(j)' =>
        job'[j] = [job[j] EXCEPT !.bound = job'[j].bound]

LEMMA SameBound ==
    ASSUME NEW q \in Job
    PROVE  q = [q EXCEPT !.bound = q.bound]
  BY DEF Job

\* Whoever writes one row that is not settled leaves the settled rows.
LEMMA SettledOthers ==
    ASSUME JobsOK, NEW i \in Jobs, job[i].status \notin {"completed", "cancelled"},
           NEW q, job' = [job EXCEPT ![i] = q], NEW j \in Jobs
    PROVE  Settled(j)
  <1>1. CASE j = i
    BY <1>1 DEF Settled
  <1>2. CASE j # i
    <2>1. job'[j] = job[j] /\ job[j] \in Job
      BY <1>2 DEF JobsOK
    <2> QED BY <2>1, SameBound DEF Settled
  <1> QED BY <1>1, <1>2

LEMMA SettledSame ==
    ASSUME JobsOK, job' = job, NEW j \in Jobs
    PROVE  Settled(j)
  <1>1. job[j] \in Job
    BY DEF JobsOK
  <1> QED BY <1>1, SameBound DEF Settled

LEMMA SettledDropped ==
    ASSUME JobsOK, NEW js, NEW qs, Deleted(js, qs), NEW j \in Jobs
    PROVE  Settled(j)
  <1>1. job'[j] = IF j \in js THEN [Absent EXCEPT !.status = "deleted"]
                  ELSE IF job[j].preceding \in qs THEN [job[j] EXCEPT !.bound = FALSE]
                  ELSE job[j]
    BY DEF Deleted
  <1>2. CASE j \in js
    <2>1. job'[j].status = "deleted"
      BY <1>1, <1>2 DEF Absent
    <2> QED BY <2>1 DEF Settled, Gone
  <1>3. CASE j \notin js /\ job[j].preceding \in qs
    <2> DEFINE q == job[j]
    <2>1. q \in Job
      BY DEF JobsOK
    <2>2. job'[j] = [q EXCEPT !.bound = FALSE]
      BY <1>1, <1>3
    <2> HIDE DEF q
    <2>3. job'[j].bound = FALSE
      BY <2>1, <2>2 DEF Job
    <2> QED BY <2>2, <2>3 DEF Settled, q
  <1>4. CASE j \notin js /\ job[j].preceding \notin qs
    <2>1. job'[j] = job[j] /\ job[j] \in Job
      BY <1>1, <1>4 DEF JobsOK
    <2> QED BY <2>1, SameBound DEF Settled
  <1> QED BY <1>2, <1>3, <1>4

LEMMA SettledStep ==
    ASSUME Types, [Next]_vars, NEW j \in Jobs
    PROVE  Settled(j)
  <1>0. JobsOK /\ world.keys \subseteq Keys /\ world.slots \subseteq Tasks
    BY TypeParts, AnswerAssumption DEF RestOK
  <1>1. CASE UNCHANGED job
    BY <1>0, <1>1, SettledSame
  <1>2. ASSUME NEW i \in Jobs, job[i].status \notin {"completed", "cancelled"},
               \A x \in Jobs \ {i} : job'[x] = job[x]
        PROVE  Settled(j)
    <2>1. CASE j = i
      BY <1>2, <2>1 DEF Settled
    <2>2. CASE j # i
      <3>1. job'[j] = job[j] /\ job[j] \in Job
        BY <1>0, <1>2, <2>2 DEF JobsOK
      <3> QED BY <3>1, SameBound DEF Settled
    <2> QED BY <2>1, <2>2
  <1>3. CASE UserStep
    <2>1. ASSUME NEW th \in Threads, CreateThread(th) \/ DeleteThread(th) PROVE Settled(j)
      BY <1>0, <1>1, <2>1, SettledDropped DEF CreateThread, DeleteThread
    <2>2. ASSUME NEW i \in Jobs, NEW th \in Threads, NEW k \in Keys, NEW s \in Sessions,
                 NEW c \in Context, Ask(i, th, k, s, c)
          PROVE  Settled(j)
      <3>1. job[i].status = "absent" /\ \A x \in Jobs \ {i} : job'[x] = job[x]
        BY <1>0, <2>2 DEF Ask, JobsOK
      <3> QED BY <1>2, <3>1
    <2>3. ASSUME NEW i \in Jobs, Cancel(i) PROVE Settled(j)
      <3>1. /\ job[i].status \in {"queued", "running"}
            /\ \A x \in Jobs \ {i} : job'[x] = job[x]
        BY <1>0, <2>3 DEF Cancel, JobsOK
      <3> QED BY <1>2, <3>1
    <2>4. ASSUME NEW i \in Jobs, NEW k \in Keys, NEW s \in Sessions, Retry(i, k, s)
          PROVE  Settled(j)
      <3>1. job[i].status = "failed" /\ \A x \in Jobs \ {i} : job'[x] = job[x]
        BY <1>0, <2>4 DEF Retry, Retryable, JobsOK
      <3> QED BY <1>2, <3>1
    <2> QED BY <1>0, <1>3, <2>1, <2>2, <2>3, <2>4 DEF UserStep
  <1>4. CASE Surrounding
    <2>1. ASSUME NEW i \in Jobs, DeadlinePasses(i) \/ LeasePasses(i) \/ BackoffEnds(i)
          PROVE  Settled(j)
      <3>1. /\ job[i].status \in {"queued", "running"}
            /\ \A x \in Jobs \ {i} : job'[x] = job[x]
        BY <1>0, <2>1 DEF DeadlinePasses, LeasePasses, BackoffEnds, Active, JobsOK
      <3> QED BY <1>2, <3>1
    <2>2. ASSUME NEW i \in Jobs, QuestionExpires(i) PROVE Settled(j)
      BY <1>1, <2>2 DEF QuestionExpires
    <2>3. ASSUME NEW s \in Sessions, SessionEnds(s) \/ CleanupSession(s) PROVE Settled(j)
      BY <1>0, <1>1, <2>3, SettledDropped DEF SessionEnds, CleanupSession
    <2>4. ASSUME NEW k \in Keys, CleanupQuota(k) PROVE Settled(j)
      BY <1>1, <2>4 DEF CleanupQuota
    <2>5. CASE CleanupQuestions
      BY <1>0, <2>5, SettledDropped DEF CleanupQuestions
    <2>6. CASE DayEnds \/ AccessChanges \/ CorpusMoves
      BY <1>1, <2>6 DEF DayEnds, AccessChanges, CorpusMoves
    <2> QED BY <1>4, <2>1, <2>2, <2>3, <2>4, <2>5, <2>6 DEF Surrounding
  <1>5. ASSUME NEW t \in Tasks, NEW i \in Jobs, ClaimNext(t, i) PROVE Settled(j)
    <2>1. job[i].status = "queued" /\ \A x \in Jobs \ {i} : job'[x] = job[x]
      BY <1>0, <1>5 DEF ClaimNext, Claimable, JobsOK
    <2> QED BY <1>2, <2>1
  <1>6. CASE Recover
    <2>1. CASE j \in Expired
      BY <2>1 DEF Expired, Settled
    <2>2. CASE j \notin Expired
      <3>1. job'[j] = job[j] /\ job[j] \in Job
        BY <1>0, <1>6, <2>2 DEF Recover, JobsOK
      <3> QED BY <3>1, SameBound DEF Settled
    <2> QED BY <2>1, <2>2
  <1>7. ASSUME NEW t \in Tasks, Trouble(t) PROVE Settled(j)
    BY <1>1, <1>7 DEF Trouble, JobTimesOut, InternalError, Drained, Crash, OnlyTask
  <1>8. ASSUME NEW t \in Tasks, Work(t) PROVE Settled(j)
    <2>1. ASSUME job[task[t].job].status = "running", task[t].job \in Jobs,
                 \A x \in Jobs \ {task[t].job} : job'[x] = job[x]
          PROVE  Settled(j)
      BY <1>2, <2>1
    <2>2. CASE Read(t) \/ Embed(t) \/ EmbeddingReturns(t) \/ Retrieve(t) \/ Prepare(t)
      BY <1>1, <2>2 DEF Read, Embed, Sends, EmbeddingReturns, Retrieve, Prepare, OnlyTask
    <2>3. CASE BeginEmbedding(t) \/ BeginRetrieval(t) \/ BeginJudgment(t)
      BY <1>1, <2>3 DEF BeginEmbedding, BeginRetrieval, BeginJudgment, Begin
    <2>4. CASE Judge(t) \/ JudgmentReturns(t) \/ LeaseLost(t) \/ CancellationSeen(t)
      BY <1>1, <2>4 DEF Judge, Sends, JudgmentReturns, LeaseLost, CancellationSeen, OnlyTask
    <2>5. CASE MarkProviderBoundary(t)
      <3>1. job[task[t].job].status = "running" /\ task[t].job \in Jobs
        BY <2>5, ClaimedOwns DEF MarkProviderBoundary
      <3>2. \A x \in Jobs \ {task[t].job} : job'[x] = job[x]
        BY <1>0, <2>5 DEF MarkProviderBoundary, JobsOK
      <3> QED BY <2>1, <3>1, <3>2
    <2>6. ASSUME NEW s, NEW p, NEW next, p # "idle", Claimed(t, p), FinishStage(t, s, next)
          PROVE  Settled(j)
      <3>1. job[task[t].job].status = "running" /\ task[t].job \in Jobs
        BY <2>6, ClaimedOwns
      <3>2. \A x \in Jobs \ {task[t].job} : job'[x] = job[x]
        BY <1>0, <2>6 DEF FinishStage, JobsOK
      <3> QED BY <2>1, <3>1, <3>2
    <2>7. CASE EndEmbedding(t) \/ EndRetrieval(t) \/ EndJudgment(t)
      BY <2>6, <2>7 DEF EndEmbedding, EndRetrieval, EndJudgment
    <2>8. CASE CompleteSource(t)
      <3>1. job[task[t].job].status = "running" /\ task[t].job \in Jobs
        BY <2>8, ClaimedOwns DEF CompleteSource
      <3>2. \A x \in Jobs \ {task[t].job} : job'[x] = job[x]
        BY <1>0, <2>8 DEF CompleteSource, JobsOK
      <3> QED BY <2>1, <3>1, <3>2
    <2>9. CASE Fail(t) \/ CancelClaim(t)
      <3>1. Busy(t) /\ task[t].job \in Jobs
        BY <2>9, RunTypes DEF Fail, CancelClaim, Busy
      <3>2. CASE ~Holds(t)
        BY <1>1, <2>9, <3>2 DEF Fail, CancelClaim
      <3>3. CASE Holds(t)
        <4>1. job[task[t].job].status = "running"
          BY <3>3 DEF Holds
        <4>2. \A x \in Jobs \ {task[t].job} : job'[x] = job[x]
          BY <1>0, <2>9 DEF Fail, CancelClaim, JobsOK
        <4> QED BY <2>1, <3>1, <4>1, <4>2
      <3> QED BY <3>2, <3>3
    <2> QED BY <1>8, <2>2, <2>3, <2>4, <2>5, <2>7, <2>8, <2>9 DEF Work
  <1>9. CASE UNCHANGED vars
    BY <1>1, <1>9 DEF vars
  <1> QED BY <1>0, <1>3, <1>4, <1>5, <1>6, <1>7, <1>8, <1>9 DEF Next, Claims

\* A row whose status, counters and session stay passes the triggers.
LEMMA AcceptedAlike ==
    ASSUME Types, NEW j \in Jobs, Settled(j), ~Gone(j)', Same(job'[j], job[j]),
           job'[j].status = job[j].status
    PROVE  Accepted(j)
  <1>1. job[j].manual_retry_count \in Nat
    BY RowTypes
  <1> QED BY <1>1 DEF Accepted, Settled, Same, Gone

\* So does one that moves on without beginning a round.
LEMMA AcceptedMove ==
    ASSUME Types, NEW j \in Jobs, Same(job'[j], job[j]),
           \/ job[j].status = "queued" /\ job'[j].status \in {"failed", "cancelled"}
           \/ /\ job[j].status = "running"
              /\ job'[j].status \in {"queued", "failed", "cancelled"}
    PROVE  Accepted(j)
  <1>1. <<job[j].status, job'[j].status>> \in Moves
    BY DEF Moves
  <1>2. job[j].manual_retry_count \in Nat
    BY RowTypes
  <1> QED BY <1>1, <1>2 DEF Accepted, Same

\* The completing transaction: the rows of the stages bear the answer out.
LEMMA AcceptedCompletion ==
    ASSUME Types, StagesFound, NEW t \in Tasks, Completes(t), NEW j \in Jobs,
           j = task[t].job
    PROVE  Accepted(j)
  <1>1. /\ job[j].status = "running" /\ job'[j].status = "completed" /\ ~Gone(j)
        /\ job'[j].manual_retry_count = job[j].manual_retry_count
        /\ job'[j].attempt_count = job[j].attempt_count
        /\ job'[j].session = job[j].session /\ job'[j].corpus = job[j].corpus
        /\ corpus = job[j].corpus /\ job'[j].result_kind = task[t].result
        /\ evidence'[j] = IF task[t].result = "related_knowledge"
                          THEN [round |-> job[j].manual_retry_count, corpus |-> corpus]
                          ELSE NoEvidence
    BY DEF Completes, Owns, Newest
  <1>2. Fits("complete", task[t].result, Rows(j)["query_embedding"],
             Rows(j)["source_judgment"], job[j].context)
    BY DEF Completes, Owns, StagesFound, Found
  <1>3. /\ task[t].result = "related_knowledge" => Rows(j)["source_judgment"] = "ok"
        /\ task[t].result = "clarification_needed" =>
               Rows(j)["source_judgment"] = "ok" \/ job[j].context = "unresolved"
    BY <1>2 DEF Fits
  <1>4. job[j].context = "unresolved" => stage[j] = NoRows
    <2> SUFFICES ASSUME job[j].context = "unresolved" PROVE stage[j] = NoRows
      OBVIOUS
    <2>1. \A r \in Rounds, s \in Stage : stage[j][r][s] = "none"
      BY <1>1 DEF StagesFound, Unasked
    <2>2. stage[j] \in [Rounds -> [Stage -> Row]]
      BY TypeParts DEF RecordsOK, Rounds
    <2>3. \A r \in Rounds : stage[j][r] = [s \in Stage |-> "none"]
      <3> SUFFICES ASSUME NEW r \in Rounds PROVE stage[j][r] = [s \in Stage |-> "none"]
        OBVIOUS
      <3>1. stage[j][r] \in [Stage -> Row]
        BY <2>2
      <3> QED BY <2>1, <3>1
    <2> QED BY <2>2, <2>3 DEF NoRows, Rounds
  <1>5. [round |-> job[j].manual_retry_count, corpus |-> corpus] # NoEvidence
    <2>1. job[j].manual_retry_count # -1
      BY RowTypes
    <2> QED BY <2>1 DEF NoEvidence
  <1>6. <<"running", "completed">> \in Moves
    BY DEF Moves
  <1>7. job[j].manual_retry_count \in Nat
    BY RowTypes
  <1> QED BY <1>1, <1>3, <1>4, <1>5, <1>6, <1>7 DEF Accepted

LEMMA AcceptedStep ==
    ASSUME Types, StagesFound, Shapes, NEW j \in Present, j \in Jobs, Settled(j), ~Gone(j)'
    PROVE  Accepted(j)
  <1>0. job[j].status # "absent"
    BY DEF Present
  <1>1. Alike(j) => Accepted(j)
    BY AcceptedAlike DEF Alike
  <1> USE DEF OtherRows
  <1>2. CASE Still
    BY <1>1, <1>2 DEF Still
  <1>3. ASSUME NEW js \in SUBSET Jobs, Drops(js) PROVE Accepted(j)
    BY <1>1, <1>3 DEF Drops, Gone
  <1>4. ASSUME NEW i \in Jobs, Admits(i) \/ Stops(i) PROVE Accepted(j)
    BY <1>0, <1>1, <1>4, AcceptedMove DEF Admits, Stops
  <1>5. ASSUME NEW i \in Jobs, Requeue(i) PROVE Accepted(j)
    <2>1. CASE j # i
      BY <1>1, <1>5, <2>1 DEF Requeue
    <2>2. CASE j = i
      <3>1. /\ job[j].status = "failed" /\ job'[j].status = "queued"
            /\ job'[j].attempt_count = 0
            /\ job'[j].manual_retry_count = job[j].manual_retry_count + 1
        BY <1>5, <2>2 DEF Requeue
      <3>2. <<"failed", "queued">> \in Moves
        BY DEF Moves
      <3> QED BY <3>1, <3>2 DEF Accepted
    <2> QED BY <2>1, <2>2
  <1>6. ASSUME NEW t \in Tasks, NEW i \in Jobs, TakesUp(t, i) PROVE Accepted(j)
    <2>1. CASE j # i
      BY <1>1, <1>6, <2>1 DEF TakesUp
    <2>2. CASE j = i
      <3>1. /\ job[j].status = "queued" /\ job'[j].status = "running"
            /\ job'[j].attempt_count = job[j].attempt_count + 1
            /\ job'[j].manual_retry_count = job[j].manual_retry_count
            /\ job'[j].session = job[j].session
        BY <1>6, <2>2 DEF TakesUp
      <3>2. <<"queued", "running">> \in Moves
        BY DEF Moves
      <3>3. job[j].manual_retry_count \in Nat
        BY RowTypes
      <3> QED BY <3>1, <3>2, <3>3 DEF Accepted
    <2> QED BY <2>1, <2>2
  <1>7. ASSUME NEW t \in Tasks, Advances(t) PROVE Accepted(j)
    BY <1>1, <1>7 DEF Advances, Alike, Same
  <1>8. ASSUME NEW t \in Tasks, Marks(t) PROVE Accepted(j)
    <2>1. CASE j # task[t].job
      BY <1>1, <1>8, <2>1 DEF Marks
    <2>2. CASE j = task[t].job
      <3>1. /\ job[j].status = "running" /\ job'[j].status = "running"
            /\ job'[j].attempt_count = job[j].attempt_count
            /\ job'[j].manual_retry_count = job[j].manual_retry_count
            /\ job'[j].session = job[j].session
        BY <1>8, <2>2 DEF Marks, Owns
      <3>2. job[j].manual_retry_count \in Nat
        BY RowTypes
      <3> QED BY <3>1, <3>2 DEF Accepted
    <2> QED BY <2>1, <2>2
  <1>9. ASSUME NEW t \in Tasks, Completes(t) PROVE Accepted(j)
    BY <1>1, <1>9, AcceptedCompletion DEF Completes
  <1>10. ASSUME NEW t \in Tasks, GivesUp(t) PROVE Accepted(j)
    BY <1>1, <1>10, AcceptedMove DEF GivesUp, Owns
  <1>11. ASSUME NEW t \in Tasks, NEW s \in Stage, Begins(t, s) PROVE Accepted(j)
    BY <1>1, <1>11 DEF Begins, Alike, Same
  <1>12. ASSUME NEW t \in Tasks, NEW s \in Stage, Records(t, s) PROVE Accepted(j)
    BY <1>1, <1>12, AcceptedAlike DEF Records, Owns
  <1>13. ASSUME NEW t \in Tasks, NEW s \in Remote, Asks(t, s) PROVE Accepted(j)
    BY <1>1, <1>13 DEF Asks, Alike, Same
  <1>14. CASE TakesBack
    BY <1>1, <1>14, AcceptedMove DEF TakesBack, TakenBack
  <1> QED BY <1>2, <1>3, <1>4, <1>5, <1>6, <1>7, <1>8, <1>9, <1>10, <1>11, <1>12, <1>13,
             <1>14 DEF Shapes

\* No statement of the services, the workers or recovery is one the triggers of
\* the database refuse (rag_answer_job_guard, rag_related_evidence_guard): the
\* two sets of rules, written in two languages, agree.
THEOREM TriggersAccept == Spec => GuardAccepts
  <1>1. ASSUME IInv, [Next]_vars, NEW j \in Present, job'[j].status # "deleted"
        PROVE  Accepted(j)
    <2>1. j \in Jobs /\ ~Gone(j)'
      BY <1>1 DEF Present, Gone
    <2>2. Settled(j) /\ Shapes
      BY <1>1, <2>1, SettledStep, StepShapes DEF IInv
    <2> QED BY <1>1, <2>1, <2>2, AcceptedStep DEF IInv
  <1>2. IInv /\ [Next]_vars =>
            (\A j \in Present : job'[j].status # "deleted" => Accepted(j))
    BY <1>1
  <1> QED BY <1>2, Invariance, PTL DEF Spec, GuardAccepts

=============================================================================
