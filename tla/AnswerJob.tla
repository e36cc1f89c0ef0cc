----------------------------- MODULE AnswerJob -----------------------------
(***************************************************************************)
(* Ask AI: the owner of a conversation asks questions, cancels and retries *)
(* them; answer workers claim a question under a lease, embed it, retrieve *)
(* published Knowledge, have the candidate pages judged and commit the     *)
(* references; recovery takes over the claims that died.  One action is    *)
(* one database transaction, or one event of a worker's coroutine.         *)
(*                                                                         *)
(* The two remote calls cost money.  A round is what one quota event pays  *)
(* for: the question as it was asked, or one manual retry of it.  The      *)
(* policy is the released one, related_knowledge_navigation_v8; the worker *)
(* runs under the settings the question was admitted with.                 *)
(***************************************************************************)
EXTENDS Integers, FiniteSets

CONSTANTS
    Jobs,              \* questions, each with its durable job
    Threads,           \* conversations of one user about one subject
    Keys,              \* idempotency keys of enqueue and retry
    Sessions,          \* authentication sessions of the user
    Tasks,             \* slots of the answer workers
    MaxAttempts,       \* settings.rag_answer_max_attempts
    MaxManualRetries,  \* settings.rag_answer_max_manual_retries
    MaxActive,         \* settings.rag_answer_max_active_jobs_per_user
    MaxQueued,         \* settings.rag_answer_max_queued_jobs_deployment
    MaxDaily,          \* settings.rag_answer_daily_jobs_per_user
    MaxThreads,        \* settings.rag_answer_max_threads_per_user
    MaxMessages,       \* settings.rag_answer_max_messages_per_thread
    MaxCorpus,         \* bound of the model: changes of the corpus
    Worlds,            \* bound of the model: what happens besides the work
    None               \* SQL NULL

EveryEvent == {"day", "session", "access", "expiry", "cleanup", "lease", "crash",
               "drain", "error"}

ASSUME AnswerAssumption ==
    /\ Worlds \subseteq [events : SUBSET EveryEvent, slots : SUBSET Tasks,
                        keys : SUBSET Keys, retries : 0 .. MaxManualRetries,
                        corpus : 0 .. MaxCorpus]
    /\ IsFiniteSet(Jobs) /\ IsFiniteSet(Keys)
    /\ {MaxAttempts, MaxActive, MaxQueued, MaxDaily, MaxThreads, MaxMessages}
           \subseteq Nat \ {0}
    /\ {MaxManualRetries, MaxCorpus} \subseteq Nat
    /\ None \notin Jobs \cup Threads \cup Keys \cup Sessions

VARIABLES
    job,       \* rag_answer_jobs with their question contexts
    question,  \* rag_messages of role user
    stage,     \* rag_answer_stage_attempts of a job by round
    evidence,  \* rag_related_evidence: the round and corpus of the bundle
    quota,     \* rag_answer_quota_events by operation key
    thread,    \* rag_threads
    session,   \* auth_sessions
    access,    \* the user is enrolled in (or owns) the subject
    corpus,    \* subjects.corpus_revision
    task,      \* the coroutines of the workers
    calls,     \* requests that left for a provider, by round and stage
    world      \* the bounds of this behaviour, chosen once: events, slots, keys,
               \* manual retries and changes of the corpus

vars == <<job, question, stage, evidence, quota, thread, session, access,
          corpus, task, calls, world>>

Status == {"absent", "queued", "running", "completed", "failed", "cancelled",
           "deleted"}

Active == {"queued", "running"}

Remote == {"query_embedding", "source_judgment"}

Stage == Remote \cup {"retrieval"}

\* How the question refers: by itself, to the subject of the question before
\* it, or to something nobody can tell.
Context == {"clear", "resolved", "unresolved"}

\* The run of a claim: a retry restarts attempt_count, so the pair with
\* manual_retry_count never repeats and stands for the random claim token.
Run == (0 .. MaxManualRetries) \X (0 .. MaxAttempts)

\* near: the time left is shorter than the backoff of a requeued attempt.
Deadline == {"far", "near", "passed"}

Lease == {"null", "ahead", "passed"}

Result == {"none", "related_knowledge", "no_match", "clarification_needed"}

Job == [status : Status, thread : Threads \cup {None}, key : Keys \cup {None},
        session : Sessions \cup {None}, corpus : 0 .. MaxCorpus,
        manual_retry_count : 0 .. MaxManualRetries,
        attempt_count : 0 .. MaxAttempts, available : BOOLEAN,
        deadline : Deadline, lease : Lease, cancellation_requested : BOOLEAN,
        provider_call_started : BOOLEAN, error_retryable : BOOLEAN,
        execution_uncertain : BOOLEAN, attempt_cost_unknown : BOOLEAN,
        failed_stage : Stage \cup {"none", "preflight", "worker_lease"},
        result_kind : Result,
        context : Context, preceding : Jobs \cup {None}, bound : BOOLEAN]

Absent ==
    [status |-> "absent", thread |-> None, key |-> None, session |-> None,
     corpus |-> 0, manual_retry_count |-> 0, attempt_count |-> 0,
     available |-> TRUE, deadline |-> "far", lease |-> "null",
     cancellation_requested |-> FALSE, provider_call_started |-> FALSE,
     error_retryable |-> FALSE, execution_uncertain |-> FALSE,
     attempt_cost_unknown |-> FALSE, failed_stage |-> "none",
     result_kind |-> "none", context |-> "clear", preceding |-> None,
     bound |-> FALSE]

\* A message knows its thread and its place in it.
Message == [state : {"absent", "kept", "expired"}, thread : Threads \cup {None},
            no : 0 .. Cardinality(Jobs)]

NoMessage == [state |-> "absent", thread |-> None, no |-> 0]

\* A stage row: open until finished, ok with its usage, fallback for an
\* embedding that failed in a way that leaves the lexical search, or error.
Row == {"none", "open", "ok", "fallback", "error"}

NoRows == [r \in 0 .. MaxManualRetries |-> [s \in Stage |-> "none"]]

NoEvidence == [round |-> -1, corpus |-> -1]

Charge == [state : {"unused", "charged"}, job : Jobs \cup {None}, today : BOOLEAN]

Unused == [state |-> "unused", job |-> None, today |-> FALSE]

\* The coroutine _source_first, between its transactions and calls; failing and
\* cancelling are the handlers of _process_claim.
Pc == {"idle", "read", "boundary", "begin_embedding", "embed", "embedding",
       "end_embedding", "begin_retrieval", "retrieve", "end_retrieval",
       "prepare", "begin_judgment", "judge", "judging", "end_judgment",
       "complete", "failing", "cancelling"}

\* row, sent: what the stage in hand came to; then: what follows it.
Task == [pc : Pc, job : Jobs \cup {None}, run : Run, row : Row, sent : BOOLEAN,
         then : {"go", "retryable", "final", "timeout", "cancel"},
         result : Result]

Idle == [pc |-> "idle", job |-> None, run |-> <<0, 0>>, row |-> "none",
         sent |-> FALSE, then |-> "go", result |-> "none"]

NoCalls == [r \in 0 .. MaxManualRetries |-> [s \in Remote |-> 0]]

Init ==
    /\ job = [j \in Jobs |-> Absent]
    /\ question = [j \in Jobs |-> NoMessage]
    /\ stage = [j \in Jobs |-> NoRows]
    /\ evidence = [j \in Jobs |-> NoEvidence]
    /\ quota = [k \in Keys |-> Unused]
    /\ thread = [th \in Threads |-> "absent"]
    /\ session = [s \in Sessions |-> "active"]
    /\ access = TRUE
    /\ corpus = 0
    /\ task = [t \in Tasks |-> Idle]
    /\ calls = [j \in Jobs |-> NoCalls]
    /\ world \in Worlds

-----------------------------------------------------------------------------
(* Admission                                                               *)

ActiveJobs == {j \in Jobs : job[j].status \in Active}

QueuedJobs == {j \in Jobs : job[j].status = "queued"}

ChargedToday == {k \in Keys : quota[k].state = "charged" /\ quota[k].today}

\* _check_job_capacity under the admission lock; the limits of the deployment
\* have the form of the user's.
HasCapacity ==
    /\ Cardinality(ActiveJobs) < MaxActive
    /\ Cardinality(QueuedJobs) < MaxQueued
    /\ Cardinality(ChargedToday) < MaxDaily

Exists(q) == question[q].state # "absent"

Messages(th) == {q \in Jobs : Exists(q) /\ question[q].thread = th}

\* _latest_preceding: the newest user message before j, usable or not.
Preceding(th, n) == {q \in Messages(th) : question[q].no < n}

Latest(qs) == CHOOSE q \in qs : \A p \in qs : question[p].no <= question[q].no

LatestPreceding(th, n) ==
    IF Preceding(th, n) = {} THEN None ELSE Latest(Preceding(th, n))

\* capture_question_context: only a question that is not clear looks back, and
\* an expired predecessor is none.
Captured(th, n, c) ==
    LET p == LatestPreceding(th, n) IN
    IF c = "clear" \/ p = None THEN None
    ELSE IF question[p].state = "kept" THEN p ELSE None

\* A question is resolved only by a predecessor that names its subject.
Coherent(c, p) == c = "resolved" => p # None

\* The context row is inserted with its job.
Bound(r, c, p) == [r EXCEPT !.context = c, !.preceding = p, !.bound = TRUE]

\* rehydrate_question_context succeeds: the stored row still is the context of
\* its question.
ContextHolds(j) ==
    LET r == job[j] IN
    /\ r.bound
    /\ question[j].state = "kept"
    /\ r.preceding # None =>
           /\ LatestPreceding(r.thread, question[j].no) = r.preceding
           /\ question[r.preceding].state = "kept"

CreateThread(th) ==
    /\ access /\ thread[th] = "absent"
    /\ Cardinality({x \in Threads : thread[x] = "open"}) < MaxThreads
    /\ thread' = [thread EXCEPT ![th] = "open"]
    /\ UNCHANGED <<job, question, stage, evidence, quota, session, access,
                   corpus, world, task, calls>>

\* enqueue with a key no job of the user has; a key that a retry or a deleted
\* job charged violates uq_rag_answer_quota_operation.
Ask(j, th, k, s, c) ==
    /\ access /\ session[s] = "active"
    /\ job[j].status = "absent" /\ question[j].state = "absent"
    /\ \A i \in Jobs : job[i].key # k
    /\ quota[k].state = "unused"
    /\ thread[th] = "open"
    /\ HasCapacity
    /\ Cardinality(Messages(th)) < MaxMessages
    /\ LET n == Cardinality({q \in Jobs : job[q].status # "absent"}) + 1
           p == Captured(th, n, c)
       IN /\ Coherent(c, p)
          /\ question' = [question EXCEPT ![j] =
                             [state |-> "kept", thread |-> th, no |-> n]]
          /\ job' = [job EXCEPT ![j] =
                 Bound([Absent EXCEPT !.status = "queued", !.thread = th, !.key = k,
                                      !.session = s, !.corpus = corpus], c, p)]
    /\ quota' = [quota EXCEPT ![k] =
                    [state |-> "charged", job |-> j, today |-> TRUE]]
    /\ UNCHANGED <<stage, evidence, thread, session, access, corpus, world, task, calls>>

Cancel(j) ==
    /\ access
    /\ \/ /\ job[j].status = "queued"
          /\ job' = [job EXCEPT ![j].status = "cancelled",
                                ![j].cancellation_requested = TRUE,
                                ![j].error_retryable = FALSE]
          /\ evidence' = [evidence EXCEPT ![j] = NoEvidence]
       \/ /\ job[j].status = "running" /\ ~job[j].cancellation_requested
          /\ job' = [job EXCEPT ![j].cancellation_requested = TRUE]
          /\ UNCHANGED evidence
    /\ UNCHANGED <<question, stage, quota, thread, session, access, corpus, world, task,
                   calls>>

Reset(r, s) ==
    [r EXCEPT !.status = "queued", !.session = s, !.attempt_count = 0,
              !.available = TRUE, !.deadline = "far", !.lease = "null",
              !.cancellation_requested = FALSE, !.provider_call_started = FALSE,
              !.attempt_cost_unknown = FALSE, !.execution_uncertain = FALSE,
              !.error_retryable = FALSE, !.failed_stage = "none"]

Requeued(r, s) == [Reset(r, s) EXCEPT !.manual_retry_count = @ + 1]

Retryable(j) ==
    /\ job[j].status = "failed" /\ job[j].error_retryable
    /\ job[j].manual_retry_count < world.retries
    /\ job[j].corpus = corpus

\* retry with a new key; a key the job was charged under returns the job, one of
\* another operation is refused.
Retry(j, k, s) ==
    /\ access /\ session[s] = "active"
    /\ quota[k].state = "unused"
    /\ Retryable(j)
    /\ HasCapacity
    /\ Cardinality(Messages(job[j].thread)) <= MaxMessages
    /\ ContextHolds(j)
    /\ quota' = [quota EXCEPT ![k] =
                    [state |-> "charged", job |-> j, today |-> TRUE]]
    /\ evidence' = [evidence EXCEPT ![j] = NoEvidence]
    /\ job' = [job EXCEPT ![j] = Requeued(@, s)]
    /\ UNCHANGED <<question, stage, thread, session, access, corpus, world, task, calls>>

-----------------------------------------------------------------------------
(* Deletion and the cascades of PostgreSQL                                 *)

\* ON DELETE SET NULL: the charge survives its job.
Detached(c, js) == IF c.job \in js THEN [c EXCEPT !.job = None] ELSE c

\* Jobs js and messages qs are deleted; a context goes with its predecessor.
Deleted(js, qs) ==
    /\ job' = [j \in Jobs |->
                  IF j \in js THEN [Absent EXCEPT !.status = "deleted"]
                  ELSE IF job[j].preceding \in qs THEN [job[j] EXCEPT !.bound = FALSE]
                  ELSE job[j]]
    /\ question' = [q \in Jobs |-> IF q \in qs THEN NoMessage ELSE question[q]]
    /\ stage' = [j \in Jobs |-> IF j \in js THEN NoRows ELSE stage[j]]
    /\ evidence' = [j \in Jobs |-> IF j \in js THEN NoEvidence ELSE evidence[j]]
    /\ quota' = [k \in Keys |-> Detached(quota[k], js)]

DeleteThread(th) ==
    /\ "cleanup" \in world.events
    /\ access /\ thread[th] = "open"
    /\ thread' = [thread EXCEPT ![th] = "deleted"]
    /\ Deleted({j \in Jobs : job[j].thread = th}, Messages(th))
    /\ UNCHANGED <<session, access, corpus, world, task, calls>>

\* cleanup_retention: expired questions with their jobs, the sessions that ended
\* with the jobs they admitted, and charges that are old and detached.
CleanupQuestions ==
    LET qs == {q \in Jobs : question[q].state = "expired"} IN
    /\ "cleanup" \in world.events
    /\ qs # {}
    /\ Deleted({j \in qs : job[j].status # "absent"}, qs)
    /\ UNCHANGED <<thread, session, access, corpus, world, task, calls>>

CleanupSession(s) ==
    /\ "cleanup" \in world.events
    /\ session[s] = "over"
    /\ session' = [session EXCEPT ![s] = "deleted"]
    /\ Deleted({j \in Jobs : job[j].session = s}, {})
    /\ UNCHANGED <<thread, access, corpus, world, task, calls>>

CleanupQuota(k) ==
    /\ "cleanup" \in world.events
    /\ quota[k].state = "charged" /\ quota[k].job = None /\ ~quota[k].today
    /\ quota' = [quota EXCEPT ![k] = Unused]
    /\ UNCHANGED <<job, question, stage, evidence, thread, session, access,
                   corpus, world, task, calls>>

-----------------------------------------------------------------------------
(* The surroundings: time, access, sessions and published Knowledge        *)

Surroundings == <<question, stage, evidence, quota, thread, task, calls>>

\* A lease never outlives the deadline it was cut to.
DeadlinePasses(j) ==
    /\ job[j].status \in Active /\ job[j].deadline # "passed"
    /\ job' = [job EXCEPT ![j].deadline = IF @ = "far" THEN "near" ELSE "passed",
                          ![j].lease = IF job[j].deadline = "near" /\ @ = "ahead"
                                         THEN "passed" ELSE @]
    /\ UNCHANGED <<session, access, corpus, world, Surroundings>>

\* The heartbeat failed or came late, the worker died, or the session ended.
LeasePasses(j) ==
    /\ "lease" \in world.events
    /\ job[j].status = "running" /\ job[j].lease = "ahead"
    /\ job' = [job EXCEPT ![j].lease = "passed"]
    /\ UNCHANGED <<session, access, corpus, world, Surroundings>>

BackoffEnds(j) ==
    /\ job[j].status = "queued" /\ ~job[j].available
    /\ job' = [job EXCEPT ![j].available = TRUE]
    /\ UNCHANGED <<session, access, corpus, world, Surroundings>>

QuestionExpires(q) ==
    /\ "expiry" \in world.events
    /\ question[q].state = "kept"
    /\ \A p \in Jobs : question[p].state = "kept" => question[q].no <= question[p].no
    /\ question' = [question EXCEPT ![q].state = "expired"]
    /\ UNCHANGED <<job, stage, evidence, quota, thread, session, access, corpus, world,
                   task, calls>>

DayEnds ==
    /\ "day" \in world.events
    /\ ChargedToday # {}
    /\ quota' = [k \in Keys |-> [quota[k] EXCEPT !.today = FALSE]]
    /\ UNCHANGED <<job, question, stage, evidence, thread, session, access,
                   corpus, world, task, calls>>

SessionEnds(s) ==
    /\ "session" \in world.events
    /\ session[s] = "active"
    /\ session' = [session EXCEPT ![s] = "over"]
    /\ UNCHANGED <<job, access, corpus, world, Surroundings>>

AccessChanges ==
    /\ "access" \in world.events
    /\ access' = ~access
    /\ UNCHANGED <<job, session, corpus, world, Surroundings>>

\* Whatever the index commits that moves subjects.corpus_revision.
CorpusMoves ==
    /\ corpus < world.corpus
    /\ corpus' = corpus + 1
    /\ UNCHANGED <<job, session, access, world, Surroundings>>

-----------------------------------------------------------------------------
(* Claims                                                                  *)

SessionActive(j) == job[j].session # None /\ session[job[j].session] = "active"

\* Mutant: the corpus the question was admitted for is not compared.
CurrentPrincipal(j) == SessionActive(j) /\ access

\* The session, the principal and the corpus a question was admitted with,
\* re-read before each expensive step and in the completing transaction.
Current(j) == SessionActive(j) /\ access /\ corpus = job[j].corpus

RunOf(j) == <<job[j].manual_retry_count, job[j].attempt_count>>

\* _fail_locked
Failed(r, at, retryable) ==
    [r EXCEPT !.status = "failed", !.error_retryable = retryable,
              !.failed_stage = IF @ = "none" THEN at ELSE @,
              !.attempt_cost_unknown = @ \/ r.execution_uncertain,
              !.lease = "null"]

Claimable(j) ==
    /\ job[j].status = "queued" /\ job[j].available
    /\ job[j].attempt_count < MaxAttempts

ClaimNext(t, j) ==
    /\ task[t].pc = "idle" /\ Claimable(j)
    /\ \/ /\ job[j].deadline = "passed"
          /\ job' = [job EXCEPT ![j] = Failed(@, "preflight", TRUE)]
          /\ UNCHANGED task
       \/ /\ job[j].deadline # "passed" /\ ~SessionActive(j)
          /\ job' = [job EXCEPT ![j] = Failed(@, "preflight", FALSE)]
          /\ UNCHANGED task
       \/ /\ job[j].deadline # "passed" /\ SessionActive(j)
          /\ job' = [job EXCEPT ![j].status = "running", ![j].lease = "ahead",
                                ![j].attempt_count = @ + 1]
          /\ task' = [task EXCEPT ![t] =
                         [Idle EXCEPT !.pc = "read", !.job = j, !.run = RunOf(j)']]
    /\ UNCHANGED <<question, stage, evidence, quota, thread, session, access,
                   corpus, world, calls>>

\* Mutant: the claim token is not compared.
HoldsAny(t) == job[task[t].job].status = "running"

\* The row is running under the token of this task.
Holds(t) ==
    /\ job[task[t].job].status = "running"
    /\ RunOf(task[t].job) = task[t].run

Live(t) == Holds(t) /\ job[task[t].job].lease = "ahead"

\* _claimed_job lets the transaction of a task at p go on.
Claimed(t, p) ==
    /\ task[t].pc = p
    /\ Live(t) /\ ~job[task[t].job].cancellation_requested

Transactions == Pc \ {"idle", "embed", "embedding", "judging", "failing", "cancelling"}

Just(t, p) == [Idle EXCEPT !.pc = p, !.job = task[t].job, !.run = task[t].run]

Goto(t, p) == task' = [task EXCEPT ![t] = Just(t, p)]

FailsWith(t, how) ==
    task' = [task EXCEPT ![t] = [Just(t, "failing") EXCEPT !.then = how]]

OnlyTask == UNCHANGED <<job, question, stage, evidence, quota, thread, session,
                        access, corpus, world, calls>>

\* _claimed_job raises AnswerLeaseLost.
LeaseLost(t) ==
    /\ task[t].pc \in Transactions /\ ~Live(t)
    /\ task' = [task EXCEPT ![t] = Idle]
    /\ OnlyTask

\* _claimed_job raises AnswerCancellationRequested, or the heartbeat saw the
\* request and cancelled the coroutine, whose open stage then ends that way.
CancellationSeen(t) ==
    /\ task[t].pc \in Pc \ {"idle", "failing", "cancelling"}
    /\ Live(t) /\ job[task[t].job].cancellation_requested
    /\ Goto(t, "cancelling")
    /\ OnlyTask

\* The job timeout: the coroutine is cancelled; a stage in hand is not finished,
\* for the lease ended with the deadline.
JobTimesOut(t) ==
    /\ task[t].pc \in Pc \ {"idle", "failing", "cancelling"}
    /\ Holds(t) /\ job[task[t].job].deadline = "passed"
    /\ IF task[t].pc \in {"embed", "embedding", "end_embedding", "retrieve",
                          "end_retrieval", "judge", "judging", "end_judgment"}
         THEN task' = [task EXCEPT ![t] = Idle]
         ELSE FailsWith(t, "timeout")
    /\ OnlyTask

\* A statement fails, or Python does: the handler of Exception.
InternalError(t) ==
    /\ "error" \in world.events
    /\ task[t].pc \in Transactions
    /\ FailsWith(t, "final")
    /\ OnlyTask

\* The forced end of a drain cancels the coroutine without a request: the stage
\* in hand is recorded as failed and the row stays with its lease.
Drained(t) ==
    /\ "drain" \in world.events
    /\ task[t].pc \notin {"idle", "failing", "cancelling"}
    /\ LET end == CASE task[t].pc \in {"embed", "embedding"} -> "end_embedding"
                    [] task[t].pc = "retrieve" -> "end_retrieval"
                    [] task[t].pc \in {"judge", "judging"} -> "end_judgment"
                    [] OTHER -> "cancelling"
       IN IF end = "cancelling" THEN Goto(t, end)
          ELSE task' = [task EXCEPT ![t].pc = end, ![t].row = "error",
                                    ![t].then = "cancel"]
    /\ OnlyTask

\* The process dies, or a handler of _process_claim fails in turn.
Crash(t) ==
    /\ "crash" \in world.events
    /\ task[t].pc # "idle"
    /\ task' = [task EXCEPT ![t] = Idle]
    /\ OnlyTask

-----------------------------------------------------------------------------
(* _source_first                                                           *)

Clarifies(j) == job[j].context = "unresolved"

Read(t) ==
    LET j == task[t].job IN
    /\ Claimed(t, "read")
    /\ \/ /\ ~(Current(j) /\ ContextHolds(j))
          /\ FailsWith(t, "final")
       \/ /\ Current(j) /\ ContextHolds(j) /\ Clarifies(j)
          /\ task' = [task EXCEPT ![t].pc = "complete",
                                  ![t].result = "clarification_needed"]
       \/ /\ Current(j) /\ ContextHolds(j) /\ ~Clarifies(j)
          /\ Goto(t, "boundary")
    /\ OnlyTask

\* Mutant: the boundary is marked only after the call.
MarkProviderBoundaryUnmarked(t) ==
    /\ Claimed(t, "boundary")
    /\ Goto(t, "begin_embedding")
    /\ OnlyTask

MarkProviderBoundary(t) ==
    LET j == task[t].job IN
    /\ Claimed(t, "boundary")
    /\ IF Current(j) /\ ContextHolds(j)
         THEN /\ job' = [job EXCEPT ![j].provider_call_started = TRUE]
              /\ Goto(t, "begin_embedding")
         ELSE FailsWith(t, "final") /\ UNCHANGED job
    /\ UNCHANGED <<question, stage, evidence, quota, thread, session, access,
                   corpus, world, calls>>

Rows(j) == stage[j][job[j].manual_retry_count]

\* A stage row is inserted where the ones before it allow it, at most one of a
\* remote stage in a round; otherwise the profile is said not to match.
Begin(t, s, allowed, next) ==
    LET j == task[t].job IN
    /\ IF allowed
         THEN /\ stage' = [stage EXCEPT ![j][job[j].manual_retry_count][s] = "open"]
              /\ task' = [task EXCEPT ![t].pc = next, ![t].row = "open",
                                      ![t].sent = FALSE]
         ELSE FailsWith(t, "final") /\ UNCHANGED stage
    /\ UNCHANGED <<job, question, evidence, quota, thread, session, access,
                   corpus, world, calls>>

BeginEmbedding(t) ==
    LET j == task[t].job IN
    /\ Claimed(t, "begin_embedding")
    /\ Begin(t, "query_embedding",
             ContextHolds(j) /\ Rows(j)["query_embedding"] = "none", "embed")

Sends(t, s) ==
    /\ task' = [task EXCEPT ![t].sent = TRUE,
                            ![t].pc = IF s = "query_embedding" THEN "embedding"
                                                               ELSE "judging"]
    /\ calls' = [calls EXCEPT ![task[t].job][task[t].run[1]][s] = @ + 1]
    /\ UNCHANGED <<job, question, stage, evidence, quota, thread, session, access,
                   corpus, world>>

Embed(t) == task[t].pc = "embed" /\ Sends(t, "query_embedding")

\* The embedding returns, fails in a way that leaves the lexical search, or
\* fails; the governor may refuse it before it is sent.
EmbeddingReturns(t) ==
    /\ task[t].pc \in {"embed", "embedding"}
    /\ \E row \in {"ok", "fallback", "error"}, then \in {"go", "retryable", "final"} :
          /\ row = "ok" => task[t].sent /\ then \in {"go", "final"}
          /\ row = "fallback" => then = "go"
          /\ row = "error" => then # "go"
          /\ task' = [task EXCEPT ![t].pc = "end_embedding", ![t].row = row,
                                  ![t].then = then]
    /\ OnlyTask

\* _finish_stage: what was sent without a known usage leaves the cost unknown.
\* A fallback after a rate limit is not uncertain, one after a timeout is, and so
\* is an embedding that is cancelled or times out before it was sent.
Finished(r, s, row, sent, uncertain) ==
    [r EXCEPT !.failed_stage = IF row \in {"fallback", "error"} THEN s ELSE @,
              !.execution_uncertain = @ \/ uncertain,
              !.attempt_cost_unknown = @ \/ uncertain \/ (sent /\ row # "ok")]

Uncertainties(s, row, sent) ==
    IF s = "retrieval" \/ row = "ok" THEN {FALSE}
    ELSE IF s = "query_embedding" THEN BOOLEAN ELSE {sent}

\* What the stage leads to once it is recorded.
After(t, next) ==
    CASE task[t].then = "go" ->
             task' = [task EXCEPT ![t] =
                         [Just(t, next) EXCEPT !.result = task[t].result]]
      [] task[t].then = "cancel" -> Goto(t, "cancelling")
      [] OTHER -> FailsWith(t, task[t].then)

FinishStage(t, s, next) ==
    LET j == task[t].job IN
    /\ Rows(j)[s] = "open"
    /\ stage' = [stage EXCEPT ![j][job[j].manual_retry_count][s] = task[t].row]
    /\ \E u \in Uncertainties(s, task[t].row, task[t].sent) :
           job' = [job EXCEPT ![j] = Finished(@, s, task[t].row, task[t].sent, u)]
    /\ After(t, next)
    /\ UNCHANGED <<question, evidence, quota, thread, session, access, corpus, world, calls>>

EndEmbedding(t) ==
    /\ Claimed(t, "end_embedding")
    /\ FinishStage(t, "query_embedding", "begin_retrieval")

BeginRetrieval(t) ==
    /\ Claimed(t, "begin_retrieval")
    /\ Begin(t, "retrieval",
             Rows(task[t].job)["query_embedding"] \in {"ok", "fallback"}, "retrieve")

\* The search itself may fail; without a candidate page there is no judgment.
Retrieve(t) ==
    /\ Claimed(t, "retrieve")
    /\ \/ /\ Current(task[t].job)
          /\ \E result \in {"no_match", "related_knowledge"} :
                task' = [task EXCEPT ![t].pc = "end_retrieval", ![t].row = "ok",
                                     ![t].then = "go", ![t].result = result]
       \/ \E then \in {"final", "timeout"} :
             task' = [task EXCEPT ![t].pc = "end_retrieval", ![t].row = "error",
                                  ![t].then = then]
    /\ OnlyTask

EndRetrieval(t) ==
    /\ Claimed(t, "end_retrieval")
    /\ FinishStage(t, "retrieval",
                   IF task[t].result = "no_match" THEN "complete" ELSE "prepare")

\* The original PDFs are authenticated and rendered.
Prepare(t) ==
    LET j == task[t].job IN
    /\ Claimed(t, "prepare")
    /\ \/ Current(j) /\ ContextHolds(j) /\ Goto(t, "begin_judgment")
       \/ FailsWith(t, "final")
    /\ OnlyTask

\* The estimate of the job may no longer cover the judgment.
BeginJudgment(t) ==
    LET j == task[t].job IN
    /\ Claimed(t, "begin_judgment")
    /\ \E covered \in BOOLEAN :
          Begin(t, "source_judgment",
                /\ covered /\ Current(j) /\ ContextHolds(j)
                /\ Rows(j)["source_judgment"] = "none"
                /\ Rows(j)["retrieval"] = "ok", "judge")

\* _recheck_visual_dispatch, immediately before the request.
Judge(t) ==
    LET j == task[t].job IN
    /\ Claimed(t, "judge")
    /\ \/ Current(j) /\ ContextHolds(j) /\ Sends(t, "source_judgment")
       \/ /\ ~(Current(j) /\ ContextHolds(j))
          /\ task' = [task EXCEPT ![t].pc = "end_judgment", ![t].row = "error",
                                  ![t].then = "final"]
          /\ OnlyTask

\* The judgment returns or fails; the governor may refuse it, or its time pass,
\* before it is sent.  No failure of the judge itself may be retried.
JudgmentReturns(t) ==
    /\ task[t].pc \in {"judge", "judging"}
    /\ \/ /\ task[t].pc = "judging"
          /\ \E result \in Result \ {"none"} :
                task' = [task EXCEPT ![t].pc = "end_judgment", ![t].row = "ok",
                                     ![t].then = "go", ![t].result = result]
       \/ \E then \in {"final", "timeout"} :
             task' = [task EXCEPT ![t].pc = "end_judgment", ![t].row = "error",
                                  ![t].then = then]
    /\ OnlyTask

EndJudgment(t) ==
    /\ Claimed(t, "end_judgment")
    /\ FinishStage(t, "source_judgment", "complete")

\* A context that needs a clarification completes only as one.
MayComplete(t) ==
    LET j == task[t].job IN
    /\ Current(j) /\ ContextHolds(j)
    /\ Clarifies(j) => task[t].result = "clarification_needed"

\* Under the Knowledge write lock, so that the corpus stands still.
CompleteSource(t) ==
    LET j == task[t].job IN
    /\ Claimed(t, "complete")
    /\ IF MayComplete(t)
         THEN /\ job' = [job EXCEPT ![j].status = "completed", ![j].lease = "null",
                                    ![j].error_retryable = FALSE,
                                    ![j].result_kind = task[t].result]
              /\ evidence' = [evidence EXCEPT ![j] =
                     IF task[t].result = "related_knowledge"
                       THEN [round |-> job[j].manual_retry_count, corpus |-> corpus]
                       ELSE NoEvidence]
              /\ task' = [task EXCEPT ![t] = Idle]
         ELSE FailsWith(t, "final") /\ UNCHANGED <<job, evidence>>
    /\ UNCHANGED <<question, stage, quota, thread, session, access, corpus, world, calls>>

\* The owner is shown the references of a job: any drift hides them all.
Shown(j) ==
    /\ access /\ job[j].status = "completed"
    /\ job[j].result_kind = "related_knowledge"
    /\ evidence[j].round = job[j].manual_retry_count
    /\ corpus = job[j].corpus
    /\ question[j].state = "kept"

-----------------------------------------------------------------------------
(* How a claim ends otherwise                                              *)

\* The newest stage row of the job, of whichever round; preflight without one.
LastStage(j) ==
    LET Started(r, s) == stage[j][r][s] # "none"
        Order == [s \in Stage |-> CASE s = "query_embedding" -> 1
                                    [] s = "retrieval" -> 2
                                    [] OTHER -> 3]
        rows == {x \in (0 .. MaxManualRetries) \X Stage : Started(x[1], x[2])}
    IN IF rows = {} THEN "preflight"
       ELSE (CHOOSE x \in rows : \A y \in rows :
                 \/ y[1] < x[1]
                 \/ y[1] = x[1] /\ Order[y[2]] <= Order[x[2]])[2]

\* A remote stage nobody finished: who knows what the provider did.
Unfinished(j) == \E s \in Remote : Rows(j)[s] = "open"

Doubted(r, doubt) ==
    [r EXCEPT !.execution_uncertain = @ \/ doubt,
              !.attempt_cost_unknown = @ \/ doubt]

At(j) == IF job[j].failed_stage = "none" THEN LastStage(j) ELSE job[j].failed_stage

\* _fail asks for the token only, neither for the lease nor for a cancellation.
Fail(t) ==
    LET j == task[t].job
        doubt == Unfinished(j) \/ (task[t].then = "timeout" /\ At(j) \in Remote)
    IN
    /\ task[t].pc = "failing"
    /\ job' = IF Holds(t)
                THEN [job EXCEPT ![j] =
                         Failed(Doubted(@, doubt), At(j),
                                task[t].then \in {"retryable", "timeout"})]
                ELSE job
    /\ task' = [task EXCEPT ![t] = Idle]
    /\ UNCHANGED <<question, stage, evidence, quota, thread, session, access,
                   corpus, world, calls>>

\* _cancel; a coroutine that was cancelled without a request leaves the row.
CancelClaim(t) ==
    LET j == task[t].job
        due == Holds(t) /\ job[j].cancellation_requested
    IN
    /\ task[t].pc = "cancelling"
    /\ job' = IF due
                THEN [job EXCEPT ![j] =
                         [Doubted(@, Unfinished(j)) EXCEPT
                             !.status = "cancelled", !.failed_stage = At(j),
                             !.error_retryable = FALSE, !.lease = "null"]]
                ELSE job
    /\ evidence' = IF due THEN [evidence EXCEPT ![j] = NoEvidence] ELSE evidence
    /\ task' = [task EXCEPT ![t] = Idle]
    /\ UNCHANGED <<question, stage, quota, thread, session, access, corpus, world, calls>>

-----------------------------------------------------------------------------
(* recover_expired                                                         *)

Expired == {j \in Jobs : job[j].status = "running" /\ job[j].lease = "passed"}

\* Mutant: the provider boundary is not asked for.
RequeuesAnyway(j) ==
    /\ ~job[j].cancellation_requested
    /\ job[j].attempt_count < MaxAttempts
    /\ job[j].deadline # "passed" /\ SessionActive(j)

\* Mutant: the attempts are not counted.
RequeuesAlways(j) ==
    /\ ~job[j].cancellation_requested /\ ~job[j].provider_call_started
    /\ job[j].deadline # "passed" /\ SessionActive(j)

\* Nothing was sent, and the attempts, the time and the session are left.
Requeues(j) ==
    /\ ~job[j].cancellation_requested /\ ~job[j].provider_call_started
    /\ job[j].attempt_count < MaxAttempts
    /\ job[j].deadline # "passed" /\ SessionActive(j)

Recovered(j) ==
    LET r == job[j] IN
    IF r.cancellation_requested
      THEN [Failed(r, "preflight", FALSE) EXCEPT !.status = "cancelled"]
    ELSE IF Requeues(j)
      THEN [r EXCEPT !.status = "queued", !.available = FALSE, !.lease = "null"]
    ELSE Failed([r EXCEPT !.execution_uncertain = @ \/ r.provider_call_started],
                "worker_lease", TRUE)

\* ck_rag_answer_jobs_deadline wants available_at < deadline_at.
Refused == \E j \in Expired : Requeues(j) /\ job[j].deadline = "near"

\* One transaction for all of them: one refused row leaves the pass undone.
Recover ==
    /\ Expired # {} /\ ~Refused
    /\ job' = [j \in Jobs |-> IF j \in Expired THEN Recovered(j) ELSE job[j]]
    /\ evidence' = [j \in Jobs |->
                       IF j \in Expired /\ job[j].cancellation_requested
                         THEN NoEvidence ELSE evidence[j]]
    /\ UNCHANGED <<question, stage, quota, thread, session, access, corpus, world, task,
                   calls>>

-----------------------------------------------------------------------------
\* What the owner of the conversation does.
UserStep ==
    \/ \E th \in Threads : CreateThread(th) \/ DeleteThread(th)
    \/ \E j \in Jobs, th \in Threads, k \in world.keys, s \in Sessions, c \in Context :
           Ask(j, th, k, s, c)
    \/ \E j \in Jobs : Cancel(j)
    \/ \E j \in Jobs, k \in world.keys, s \in Sessions : Retry(j, k, s)

\* What happens around them.
Surrounding ==
    \/ \E j \in Jobs : DeadlinePasses(j) \/ LeasePasses(j) \/ BackoffEnds(j)
    \/ \E j \in Jobs : QuestionExpires(j)
    \/ \E s \in Sessions : SessionEnds(s) \/ CleanupSession(s)
    \/ \E k \in Keys : CleanupQuota(k)
    \/ CleanupQuestions \/ DayEnds \/ AccessChanges \/ CorpusMoves

Work(t) ==
    \/ Read(t) \/ MarkProviderBoundary(t)
    \/ BeginEmbedding(t) \/ Embed(t) \/ EmbeddingReturns(t) \/ EndEmbedding(t)
    \/ BeginRetrieval(t) \/ Retrieve(t) \/ EndRetrieval(t)
    \/ Prepare(t) \/ BeginJudgment(t) \/ Judge(t) \/ JudgmentReturns(t)
    \/ EndJudgment(t) \/ CompleteSource(t)
    \/ LeaseLost(t) \/ CancellationSeen(t) \/ Fail(t) \/ CancelClaim(t)

Trouble(t) == JobTimesOut(t) \/ InternalError(t) \/ Drained(t) \/ Crash(t)

Claims == \E t \in world.slots, j \in Jobs : ClaimNext(t, j)

Next ==
    \/ UserStep \/ Surrounding \/ Claims \/ Recover
    \/ \E t \in Tasks : Work(t) \/ Trouble(t)

Spec == Init /\ [][Next]_vars

\* The workers loop over claim and recovery, a coroutine goes on, and time
\* passes.  Nothing is assumed of users, sessions, crashes or the corpus.
Fairness ==
    /\ WF_vars(Claims) /\ WF_vars(Recover)
    /\ \A t \in Tasks : WF_vars(Work(t))
    /\ \A j \in Jobs : WF_vars(DeadlinePasses(j)) /\ WF_vars(BackoffEnds(j))

FairSpec == Spec /\ Fairness

-----------------------------------------------------------------------------
(* Properties                                                              *)

\* Every variable keeps its type, and a lease exists exactly while a job runs.
TypeOK ==
    /\ job \in [Jobs -> Job]
    /\ \A j \in Jobs : job[j].lease # "null" <=> job[j].status = "running"
    /\ question \in [Jobs -> Message]
    /\ stage \in [Jobs -> [0 .. MaxManualRetries -> [Stage -> Row]]]
    /\ evidence \in [Jobs -> [round : -1 .. MaxManualRetries,
                              corpus : -1 .. MaxCorpus]]
    /\ quota \in [Keys -> Charge]
    /\ thread \in [Threads -> {"absent", "open", "deleted"}]
    /\ session \in [Sessions -> {"active", "over", "deleted"}]
    /\ access \in BOOLEAN /\ corpus \in 0 .. MaxCorpus
    /\ task \in [Tasks -> Task]
    /\ calls \in [Jobs -> [0 .. MaxManualRetries -> [Remote -> Nat]]]

\* The existing jobs: neither still unasked nor deleted.
Present == {j \in Jobs : job[j].status \notin {"absent", "deleted"}}

Asked(j) == {s \in Remote : calls[j][job[j].manual_retry_count][s] > 0}

\* No provider is asked twice for one paid round, and an attempt goes back to
\* the queue by itself only while none was asked: the boundary is committed
\* before the first call, recovery reads it, and a superseded coroutine that
\* still lives finds its stage rows taken (_mark_provider_boundary,
\* _begin_stage, recover_expired).
NothingAskedTwice ==
    \A j \in Jobs :
        /\ \A r \in 0 .. MaxManualRetries, s \in Remote : calls[j][r][s] <= 1
        /\ job[j].status = "queued" => Asked(j) = {}

\* Every round of an existing job was charged to the user exactly once, under
\* a key of its own, whatever was deleted or retried (enqueue, retry, the
\* retention of quota events).
RoundsCharged ==
    \A j \in Present :
        Cardinality({k \in Keys : quota[k].job = j}) = 1 + job[j].manual_retry_count

\* A job that failed or completed after a request whose usage never came back
\* says that its cost is unknown (_finish_stage, _fail, recover_expired).
UnknownCostMarked ==
    \A j \in Present :
        /\ job[j].status \in {"failed", "completed"}
        /\ \E s \in Asked(j) : Rows(j)[s] # "ok"
        => job[j].attempt_cost_unknown

\* References are kept of completed related-Knowledge answers only, they come
\* from the present round and from the corpus the question was admitted for, and
\* whoever is shown them sees the Knowledge as it is now (_complete_source,
\* retry, _cancel, _related_excerpts_for_jobs, cleanup_retention).
EvidenceCurrent ==
    \A j \in Jobs :
        LET e == evidence[j] IN
        /\ IF job[j].status = "completed" /\ job[j].result_kind = "related_knowledge"
             THEN e = [round |-> job[j].manual_retry_count, corpus |-> job[j].corpus]
             ELSE e = NoEvidence
        /\ Shown(j) => e.corpus = corpus

Superseded(t) ==
    LET j == task[t].job IN job[j].status # "running" \/ RunOf(j) # task[t].run

\* A coroutine whose claim was superseded by recovery, retry or deletion leaves
\* every row as it is (_claimed_job, _fail, _cancel).
StaleWritesNothing ==
    [][\A t \in Tasks :
          task'[t] # task[t] /\ task[t].job # None /\ Superseded(t)
              => UNCHANGED <<job, stage, evidence>>]_vars

\* A running question that was asked to stop neither completes nor goes back
\* to the queue (_claimed_job, recover_expired).
StopIsHeeded ==
    [][\A j \in Jobs :
          job[j].status = "running" /\ job[j].cancellation_requested
              => job'[j].status \notin {"completed", "queued"}]_vars

Moves == {<<"queued", "running">>, <<"queued", "failed">>, <<"queued", "cancelled">>,
          <<"running", "queued">>, <<"running", "completed">>,
          <<"running", "failed">>, <<"running", "cancelled">>, <<"failed", "queued">>}

\* rag_answer_job_guard and rag_related_evidence_guard let an update pass.
Accepted(j) ==
    LET old == job[j]
        new == job'[j]
        retried == old.status = "failed" /\ new.status = "queued"
    IN
    /\ old.status \in {"completed", "cancelled"} => new = [old EXCEPT !.bound = new.bound]
    /\ old.status # new.status => <<old.status, new.status>> \in Moves
    /\ new.attempt_count # old.attempt_count =>
           \/ old.status = "queued" /\ new.attempt_count = old.attempt_count + 1
           \/ retried /\ new.attempt_count = 0
    /\ new.session # old.session => retried
    /\ new.manual_retry_count = old.manual_retry_count + (IF retried THEN 1 ELSE 0)
    /\ old.status = "running" /\ new.status = "completed" =>
           /\ corpus = new.corpus
           /\ new.result_kind = "related_knowledge" <=> evidence'[j] # NoEvidence
           /\ new.result_kind = "related_knowledge" => Rows(j)["source_judgment"] = "ok"
           /\ new.result_kind = "clarification_needed" =>
                  stage[j] = NoRows \/ Rows(j)["source_judgment"] = "ok"

\* No write of the services, the workers or recovery is one the triggers of the
\* database refuse: the two sets of rules agree.
GuardAccepts ==
    [][\A j \in Present : job'[j].status # "deleted" => Accepted(j)]_vars

\* Every admitted question stops being active, though workers crash, hang and
\* drain, sessions end and recovery passes are refused: the deadline ends it
\* (claim_next, recover_expired).
AnswerEnds == \A j \in Jobs : job[j].status \in Active ~> job[j].status \notin Active

\* What the docs promise of a cancelled question, too: "Unknown execution or
\* cost remains unknown" (docs/diagrams/ASK-AI.md).
CancelledCostMarked ==
    \A j \in Present :
        job[j].status = "cancelled" /\ (\E s \in Asked(j) : Rows(j)[s] # "ok")
            => job[j].attempt_cost_unknown

=============================================================================
