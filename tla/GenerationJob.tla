--------------------------- MODULE GenerationJob ---------------------------
(***************************************************************************)
(* Durable generation jobs: an instructor reserves a job, uploads a PDF,   *)
(* answers the choices it may raise, cancels or retries it; generation     *)
(* workers claim queued jobs under a lease, capture the PDF as private     *)
(* Knowledge, generate cards and commit one result set; recovery expires   *)
(* reservations, choices, leases and retained sources.  One action is one  *)
(* database transaction, or one event of a worker's coroutines.            *)
(*                                                                         *)
(* The Knowledge a job captures is part of the model, because jobs of one  *)
(* subject share it: a job may add a revision to a document another job    *)
(* created, or settle on a revision another job captured.  A document is   *)
(* named by the job that created it, a revision by the job that captured   *)
(* it; Seed is the document and the revision that were there before.       *)
(***************************************************************************)
EXTENDS Integers, FiniteSets

CONSTANTS
    Jobs,              \* idempotent reservations of one instructor's subject
    Files,             \* contents of the uploaded PDFs (source_sha256)
    Tasks,             \* pipeline slots of the generation workers
    MaxAttempts,       \* settings.generation_max_attempts
    MaxManualRetries,  \* settings.generation_max_manual_retries
    MaxActive,         \* settings.generation_max_active_jobs_deployment
    MaxOwn,            \* active jobs of one instructor, by kind of job
    MaxPending,        \* jobs not yet claimed in the deployment, by kind
    Kinds,             \* the kinds of job the instance reserves
    Revisers,          \* jobs whose reservation may name a document
    Seed,              \* the document and revision older than every job
    SeedFile,          \* its content, which an upload may repeat
    None               \* SQL NULL

ASSUME GenerationAssumption ==
    /\ IsFiniteSet(Jobs)
    /\ MaxAttempts \in Nat \ {0}
    /\ MaxManualRetries \in Nat
    /\ MaxActive \in Nat \ {0}
    /\ MaxOwn \in [{"flashcards", "knowledge_only"} -> Nat \ {0}]
    /\ MaxPending \in [{"flashcards", "knowledge_only"} -> Nat \ {0}]
    /\ Kinds \subseteq {"flashcards", "knowledge_only"}
    /\ Revisers \subseteq Jobs
    /\ Seed \notin Jobs
    /\ None \notin Jobs \cup Files \cup {Seed, SeedFile}

VARIABLES
    job,     \* generation_jobs
    source,  \* generation_job_sources: absent, or how expires_at compares to now
    staged,  \* generation_candidate_stages: the attempt a job's cards are of
    sets,    \* flashcard sets created for a job
    rev,     \* subject_document_content_revisions with their documents
    task     \* the coroutines of each slot

vars == <<job, source, staged, sets, rev, task>>

Authors == Jobs \cup {Seed}

Status == {"absent", "awaiting_upload", "awaiting_choice", "awaiting_card_choice",
           "queued", "running", "completed", "failed", "cancelled"}

Capture == {"not_requested", "pending", "captured", "failed", "removed",
            "reused", "unchanged"}

\* A timestamp column as it compares with the present.
Deadline == {"null", "future", "past"}

\* The run of a claim: attempt_count restarts at each manual retry, and a run
\* is never repeated, so it stands for the random claim token.
Run == Nat \X Nat

\* expires_at is the deadline of the upload or choice the job waits for.
Job == [status : Status, kind : {"flashcards", "knowledge_only"},
        capture : Capture, file : Files \cup {None},
        document : Authors \cup {None}, revision : Authors \cup {None},
        created_document : BOOLEAN, candidate : Authors \cup {None},
        choice : {"none", "reuse", "separate_copy"}, expires_at : Deadline,
        attempt_count : Nat, manual_retry_count : Nat,
        lease_expires_at : Deadline, error_retryable : BOOLEAN,
        cancellation_requested : BOOLEAN]

Absent ==
    [status |-> "absent", kind |-> "flashcards", capture |-> "not_requested",
     file |-> None, document |-> None, revision |-> None,
     created_document |-> FALSE, candidate |-> None, choice |-> "none",
     expires_at |-> "null", attempt_count |-> 0, manual_retry_count |-> 0,
     lease_expires_at |-> "null", error_retryable |-> FALSE,
     cancellation_requested |-> FALSE]

\* no is revision_no, ready an active content revision with a ready index,
\* reviewed that reviewed_at is set: unpublishing leaves it.
Revision == [doc : Authors, no : Nat, file : Files \cup {SeedFile}, ready : BOOLEAN,
             reviewed : BOOLEAN]

NoRevision == [doc |-> None]

Pc == {"idle", "load", "capture", "capture_failed", "stage_cards", "provider",
       "finish_success", "finish_knowledge", "finish_card_choice",
       "finish_failure", "finish_cancelled"}

Task == [pc : Pc, job : Jobs \cup {None}, run : Run, retryable : BOOLEAN,
         auto_retry : BOOLEAN]

Idle == [pc |-> "idle", job |-> None, run |-> <<0, 0>>, retryable |-> FALSE,
         auto_retry |-> FALSE]

-----------------------------------------------------------------------------
(* Knowledge: documents, their revisions, and the rollback of a capture.   *)

Revisions(d) == {c \in Authors : rev[c].doc = d}

Documents == {d \in Authors : Revisions(d) # {}}

\* GenerationJobService._current_revision: the one of the highest number.
Latest(d) ==
    CHOOSE c \in Revisions(d) : \A b \in Revisions(d) : rev[b].no <= rev[c].no

\* Documents whose latest revision is this very file.
Duplicates(f) == {d \in Documents : rev[Latest(d)].file = f}

\* Mutant: only the job's own revision is asked about.
IndependentlyReviewedOwn(r) == r.revision # None /\ rev[r.revision].reviewed

\* Reviewed Knowledge belongs to the instructor, not to the job's rollback.
IndependentlyReviewed(r) ==
    \/ r.revision # None /\ rev[r.revision].reviewed
    \/ /\ r.created_document /\ r.document # None
       /\ \E c \in Revisions(r.document) : rev[c].reviewed

\* The jobs among js whose capture remove_captured_knowledge takes back.
RolledBack(js) ==
    {j \in js : /\ job[j].capture \in {"pending", "captured"}
                /\ ~IndependentlyReviewed(job[j])}

OwnsDocument(j) == job[j].created_document /\ job[j].document # None

DoomedDocuments(js) == {job[j].document : j \in {k \in RolledBack(js) : OwnsDocument(k)}}

DoomedRevisions(js) ==
    {job[j].revision : j \in {k \in RolledBack(js) : ~OwnsDocument(k)}} \ {None}

Removed(r) == [r EXCEPT !.document = None, !.revision = None, !.capture = "removed"]

\* The trigger on the deletion of a document detaches every job that names it,
\* and its foreign keys forget it as a candidate.
Detached(r, ds) ==
    LET s == [r EXCEPT !.candidate = IF @ \in ds THEN None ELSE @] IN
    IF r.document \in ds THEN [Removed(s) EXCEPT !.created_document = FALSE] ELSE s

\* A job's row once the captures of js are rolled back: its own is taken back,
\* or its document went with another job's, or its revision did.
AfterRollback(j, js) ==
    IF j \in RolledBack(js) THEN Removed(job[j])
    ELSE LET r == Detached(job[j], DoomedDocuments(js)) IN
         IF r.revision \in DoomedRevisions(js) THEN [r EXCEPT !.revision = None] ELSE r

RevisionsAfterRollback(js) ==
    [c \in Authors |->
        IF rev[c].doc \in DoomedDocuments(js) \/ c \in DoomedRevisions(js)
          THEN NoRevision ELSE rev[c]]

\* CHECK ck_generation_jobs_captured_revision.
CapturedRevision(r) ==
    r.capture \in {"captured", "reused", "unchanged"}
        => r.document # None /\ r.revision # None

\* PostgreSQL accepts the rollback only if every row it touches is still legal;
\* otherwise the whole transaction aborts.
RollbackAccepted(js) == \A j \in Jobs : CapturedRevision(AfterRollback(j, js))

-----------------------------------------------------------------------------
Init ==
    /\ job = [j \in Jobs |-> Absent]
    /\ source = [j \in Jobs |-> "absent"]
    /\ staged = [j \in Jobs |-> None]
    /\ sets = [j \in Jobs |-> 0]
    /\ rev = [c \in Authors |->
                 IF c = Seed THEN [doc |-> Seed, no |-> 1, file |-> SeedFile,
                                   ready |-> TRUE, reviewed |-> FALSE]
                             ELSE NoRevision]
    /\ task = [t \in Tasks |-> Idle]

(* The instructor.                                                         *)

Waiting == {"awaiting_upload", "awaiting_choice", "awaiting_card_choice", "queued"}

\* ACTIVE_STATUSES of the one instructor, and PENDING_STATUSES.
OfKind(kind) == {j \in Jobs : job[j].kind = kind}

Active(kind) == {j \in OfKind(kind) : job[j].status \in Waiting \cup {"running"}}

Pending(kind) == {j \in OfKind(kind) :
                     job[j].status \in Waiting \ {"awaiting_card_choice"}}

\* _check_reservation_capacity and _check_knowledge_capacity under the admission
\* lock, for the job j: the retry of a job that waits for a card choice leaves
\* that job out of the count.
MayHold(j, kind) ==
    /\ Cardinality(Active(kind) \ {j}) < MaxOwn[kind]
    /\ Cardinality(Pending(kind)) < MaxPending[kind]

\* create_reservation and create_knowledge_reservation; replaying the
\* idempotency key returns the stored job.
Reserve(j) ==
    /\ job[j].status = "absent"
    /\ \E kind \in Kinds, d \in Documents \cup {None} :
           /\ d # None => j \in Revisers
           /\ MayHold(j, kind)
           /\ job' = [job EXCEPT ![j] =
                  [Absent EXCEPT !.status = "awaiting_upload", !.kind = kind,
                                 !.capture = "pending", !.document = d,
                                 !.expires_at = "future"]]
    /\ UNCHANGED <<source, staged, sets, rev, task>>

Enqueued(r) == [r EXCEPT !.status = "queued", !.expires_at = "null"]

\* _continue_after_choice: without a capture to make, a knowledge_only job is
\* done and its source goes; a flashcards job is queued.
Continued(r) ==
    IF r.kind = "knowledge_only"
      THEN [r EXCEPT !.status = "completed", !.expires_at = "null"]
      ELSE Enqueued(r)

SourceContinued(r) == IF r.kind = "knowledge_only" THEN "absent" ELSE "kept"

\* attach_source.  An expired reservation is refused, and the status written
\* for it rolled back with the request.
AttachSource(j, f) ==
    LET r == [job[j] EXCEPT !.file = f]
        pending == r.capture = "pending" IN
    /\ r.status = "awaiting_upload" /\ r.expires_at = "future"
    /\ \/ /\ pending /\ r.document # None
          /\ rev[Latest(r.document)].file = f
          /\ job' = [job EXCEPT ![j] =
                 Continued([r EXCEPT !.revision = Latest(r.document),
                                     !.capture = "unchanged"])]
          /\ source' = [source EXCEPT ![j] = SourceContinued(r)]
       \/ /\ pending /\ r.document = None
          /\ \E d \in Duplicates(f) :
                 /\ (\E e \in Duplicates(f) : rev[Latest(e)].ready) => rev[Latest(d)].ready
                 /\ job' = [job EXCEPT ![j] =
                        [r EXCEPT !.status = "awaiting_choice", !.candidate = d,
                                  !.expires_at = "future"]]
          /\ source' = [source EXCEPT ![j] = "future"]
       \/ /\ IF ~pending THEN TRUE
             ELSE IF r.document = None THEN Duplicates(f) = {}
             ELSE rev[Latest(r.document)].file # f
          /\ job' = [job EXCEPT ![j] = Enqueued(r)]
          /\ source' = [source EXCEPT ![j] = "kept"]
    /\ UNCHANGED <<staged, sets, rev, task>>

\* submit_knowledge_choice: reuse needs the candidate as it was offered.
Reuse(j) ==
    LET d == job[j].candidate IN
    /\ job[j].status = "awaiting_choice" /\ job[j].expires_at = "future"
    /\ d \in Documents
    /\ rev[Latest(d)].file = job[j].file /\ rev[Latest(d)].ready
    /\ job' = [job EXCEPT ![j] =
           Continued([@ EXCEPT !.document = d, !.revision = Latest(d),
                               !.capture = "reused", !.choice = "reuse"])]
    /\ source' = [source EXCEPT ![j] = SourceContinued(job[j])]
    /\ UNCHANGED <<staged, sets, rev, task>>

SeparateCopy(j) ==
    /\ job[j].status = "awaiting_choice" /\ job[j].expires_at = "future"
    /\ job' = [job EXCEPT ![j] = Enqueued([@ EXCEPT !.choice = "separate_copy"])]
    /\ source' = [source EXCEPT ![j] = "kept"]
    /\ UNCHANGED <<staged, sets, rev, task>>

RunOf(r) == <<r.manual_retry_count, r.attempt_count>>

\* submit_card_choice: the instructor accepts the fewer cards that were found.
SubmitCardChoice(j) ==
    /\ job[j].status = "awaiting_card_choice" /\ job[j].expires_at = "future"
    /\ staged[j] = RunOf(job[j])
    /\ source[j] = "future"
    /\ sets' = [sets EXCEPT ![j] = @ + 1]
    /\ job' = [job EXCEPT ![j].status = "completed", ![j].expires_at = "null",
                          ![j].error_retryable = FALSE]
    /\ staged' = [staged EXCEPT ![j] = None]
    /\ source' = [source EXCEPT ![j] = "absent"]
    /\ UNCHANGED <<rev, task>>

Cancelled(r) ==
    [r EXCEPT !.status = "cancelled", !.expires_at = "null",
              !.error_retryable = FALSE, !.lease_expires_at = "null"]

\* cancel, of a job no worker runs: it ends here, with its capture.
CancelWaiting(j) ==
    /\ job[j].status \in Waiting
    /\ RollbackAccepted({j})
    /\ job' = [k \in Jobs |->
           IF k = j THEN [Cancelled(AfterRollback(j, {j}))
                             EXCEPT !.cancellation_requested = TRUE]
                    ELSE AfterRollback(k, {j})]
    /\ rev' = RevisionsAfterRollback({j})
    /\ source' = [source EXCEPT ![j] = "absent"]
    /\ staged' = [staged EXCEPT ![j] = None]
    /\ UNCHANGED <<sets, task>>

\* cancel, of a running job: a request its worker, or recovery, will find.
CancelRunning(j) ==
    /\ job[j].status = "running" /\ ~job[j].cancellation_requested
    /\ job' = [job EXCEPT ![j].cancellation_requested = TRUE]
    /\ UNCHANGED <<source, staged, sets, rev, task>>

Retryable(r, s) ==
    /\ r.status = "failed" \/ (r.status = "awaiting_card_choice" /\ r.expires_at = "future")
    /\ r.error_retryable
    /\ s = "future"
    /\ r.manual_retry_count < MaxManualRetries
    /\ r.kind = "flashcards"

Requeued(r) ==
    [r EXCEPT !.status = "queued", !.expires_at = "null", !.attempt_count = 0,
              !.manual_retry_count = @ + 1, !.lease_expires_at = "null",
              !.error_retryable = FALSE, !.cancellation_requested = FALSE]

\* Mutant: the retained source keeps its deadline.
RetryKeepsDeadline(j) ==
    /\ Retryable(job[j], source[j]) /\ MayHold(j, job[j].kind)
    /\ job' = [job EXCEPT ![j] = Requeued(@)]
    /\ staged' = [staged EXCEPT ![j] = None]
    /\ UNCHANGED <<source, sets, rev, task>>

\* retry: a paid new round of attempts.  A knowledge_only job records no model,
\* so its policy check always refuses.
Retry(j) ==
    /\ Retryable(job[j], source[j]) /\ MayHold(j, job[j].kind)
    /\ job' = [job EXCEPT ![j] = Requeued(@)]
    /\ source' = [source EXCEPT ![j] = "kept"]
    /\ staged' = [staged EXCEPT ![j] = None]
    /\ UNCHANGED <<sets, rev, task>>

-----------------------------------------------------------------------------
(* The instructor's Knowledge, and the index worker.                       *)

\* KnowledgeIndexWorker._complete: the revision becomes the document's active
\* one, whichever was.
IndexCompletes(c) ==
    /\ rev[c] # NoRevision /\ ~rev[c].ready
    /\ rev' = [b \in Authors |->
           IF rev[b].doc = rev[c].doc THEN [rev[b] EXCEPT !.ready = (b = c)] ELSE rev[b]]
    /\ UNCHANGED <<job, source, staged, sets, task>>

\* review_and_publish the active revision.
ReviewAndPublish(c) ==
    /\ rev[c] # NoRevision /\ rev[c].ready /\ ~rev[c].reviewed
    /\ rev' = [rev EXCEPT ![c].reviewed = TRUE]
    /\ UNCHANGED <<job, source, staged, sets, task>>

\* KnowledgeManagementService.remove, refused while a job on it runs.
RemoveDocument(d) ==
    /\ d \in Documents
    /\ \A j \in Jobs : job[j].document = d => job[j].status # "running"
    /\ job' = [j \in Jobs |-> Detached(job[j], {d})]
    /\ rev' = [c \in Authors |-> IF rev[c].doc = d THEN NoRevision ELSE rev[c]]
    /\ UNCHANGED <<source, staged, sets, task>>

-----------------------------------------------------------------------------
(* The clock.                                                              *)

\* The deadline of a choice is the deadline of the source kept for it.
WaitExpires(j) ==
    /\ job[j].expires_at = "future"
    /\ job' = [job EXCEPT ![j].expires_at = "past"]
    /\ source' = [source EXCEPT ![j] = IF @ = "future" THEN "past" ELSE @]
    /\ UNCHANGED <<staged, sets, rev, task>>

RetentionPasses(j) ==
    /\ job[j].status = "failed" /\ source[j] = "future"
    /\ source' = [source EXCEPT ![j] = "past"]
    /\ UNCHANGED <<job, staged, sets, rev, task>>

\* No heartbeat renewed the lease in time.
LeaseRunsOut(j) ==
    /\ job[j].lease_expires_at = "future"
    /\ job' = [job EXCEPT ![j].lease_expires_at = "past"]
    /\ UNCHANGED <<source, staged, sets, rev, task>>

-----------------------------------------------------------------------------
(* The worker: claims and their fence.                                     *)

Live(r) == r.status = "running" /\ r.lease_expires_at = "future"

\* _claimed_job, but for the cancellation it looks for last.
Holds(t) ==
    LET r == job[task[t].job] IN Live(r) /\ RunOf(r) = task[t].run

Asked(t) == job[task[t].job].cancellation_requested

\* Mutant: the fence forgets to look for a cancellation.
ClaimedUnasked(t) == Holds(t)

Claimed(t) == Holds(t) /\ ~Asked(t)

\* Mutant: claims are made past the limit of active jobs.
HasCapacityAlways == TRUE

HasCapacity == Cardinality({j \in Jobs : Live(job[j])}) < MaxActive

\* claim_next; a job of retry_wait is claimed once available_at has passed.
ClaimNext(t, j) ==
    /\ task[t].pc = "idle"
    /\ job[j].status = "queued" /\ source[j] # "absent"
    /\ HasCapacity
    /\ job' = [job EXCEPT ![j].status = "running", ![j].attempt_count = @ + 1,
                          ![j].lease_expires_at = "future"]
    /\ task' = [task EXCEPT ![t] =
           [Idle EXCEPT !.pc = "load", !.job = j,
                        !.run = <<job[j].manual_retry_count, job[j].attempt_count + 1>>]]
    /\ UNCHANGED <<source, staged, sets, rev>>

Goto(t, pc) == task' = [task EXCEPT ![t].pc = pc]

Leave(t) == task' = [task EXCEPT ![t] = Idle]

Fail(t, retryable, auto_retry) ==
    task' = [task EXCEPT ![t].pc = "finish_failure", ![t].retryable = retryable,
                         ![t].auto_retry = auto_retry]

\* The process dies, or drain_active_tasks cancels the coroutine.
Abandon(t) ==
    /\ task[t].pc # "idle"
    /\ Leave(t)
    /\ UNCHANGED <<job, source, staged, sets, rev>>

\* Awaits of the pipeline coroutine, which its heartbeat may cancel.
Pipeline == {"load", "capture", "capture_failed", "stage_cards", "provider",
             "finish_success", "finish_knowledge"}

\* LeaseLost, seen by the heartbeat or by a transaction of the coroutine.
LeaseLost(t) ==
    /\ task[t].pc \in Pipeline \cup {"finish_card_choice", "finish_failure", "finish_cancelled"}
    /\ ~Holds(t)
    /\ Leave(t)
    /\ UNCHANGED <<job, source, staged, sets, rev>>

\* JobCancellationRequested, seen by either.  Capture reports it as unsafe.
CancellationSeen(t) ==
    /\ task[t].pc \in Pipeline \cup {"finish_card_choice"}
    /\ Holds(t) /\ Asked(t)
    /\ Goto(t, "finish_cancelled")
    /\ UNCHANGED <<job, source, staged, sets, rev>>

-----------------------------------------------------------------------------
(* The pipeline.                                                           *)

\* Reads the source and whether a capture is wanted.
Load(t) ==
    LET j == task[t].job IN
    /\ task[t].pc = "load" /\ Claimed(t)
    /\ IF source[j] = "absent" THEN Fail(t, FALSE, TRUE)
       ELSE Goto(t, IF job[j].capture = "pending" THEN "capture"
                    ELSE IF job[j].kind = "knowledge_only" THEN "finish_knowledge"
                    ELSE "stage_cards")
    /\ UNCHANGED <<job, source, staged, sets, rev>>

AfterCapture(j) ==
    IF job[j].kind = "knowledge_only" THEN "finish_knowledge" ELSE "stage_cards"

\* The next revision of a document, with its pages, and with the chunks and the
\* job of an index that is yet to be built.
Prepared(d, f) ==
    [doc |-> d, no |-> IF Revisions(d) = {} THEN 1 ELSE rev[Latest(d)].no + 1,
     file |-> f, ready |-> FALSE, reviewed |-> FALSE]

Captured(r, j, d) ==
    [r EXCEPT !.document = d, !.revision = j, !.capture = "captured",
              !.created_document = (r.document = None)]

\* capture_prepared_document: a new revision of the job's document, or of a
\* document of its own.
CapturePrepared(t) ==
    LET j == task[t].job
        d == IF job[j].document = None THEN j ELSE job[j].document IN
    /\ task[t].pc = "capture" /\ Claimed(t)
    /\ job[j].capture = "pending"
    /\ rev' = [rev EXCEPT ![j] = Prepared(d, job[j].file)]
    /\ job' = [job EXCEPT ![j] = Captured(@, j, d)]
    /\ Goto(t, AfterCapture(j))
    /\ UNCHANGED <<source, staged, sets>>

\* Bounds or capacity of Knowledge are exceeded.
CaptureRefused(t) ==
    /\ task[t].pc = "capture" /\ Claimed(t)
    /\ Goto(t, "capture_failed")
    /\ UNCHANGED <<job, source, staged, sets, rev>>

\* KnowledgeCaptureUnsafeFailure: the fence of the capture itself refused, or
\* the document went with the capture of another job.
CaptureUnsafe(t) ==
    /\ task[t].pc = "capture"
    /\ ~Claimed(t) \/ job[task[t].job].capture # "pending"
    /\ Fail(t, FALSE, FALSE)
    /\ UNCHANGED <<job, source, staged, sets, rev>>

\* record_capture_failure fences by token and status only.
RecordCaptureFailure(t) ==
    LET j == task[t].job IN
    /\ task[t].pc = "capture_failed"
    /\ IF job[j].status = "running" /\ RunOf(job[j]) = task[t].run
         THEN /\ job' = [job EXCEPT ![j].capture = "failed"]
              /\ IF job[j].kind = "knowledge_only" THEN Fail(t, FALSE, FALSE)
                                                   ELSE Goto(t, "stage_cards")
         ELSE Fail(t, FALSE, FALSE) /\ UNCHANGED job
    /\ UNCHANGED <<source, staged, sets, rev>>

\* _update_stage before the providers are called.
StageCards(t) ==
    /\ task[t].pc = "stage_cards" /\ Claimed(t)
    /\ Goto(t, "provider")
    /\ UNCHANGED <<job, source, staged, sets, rev>>

\* The providers return all the cards asked for, or fewer that are valid.
ProviderReturns(t) ==
    /\ task[t].pc = "provider"
    /\ \E pc \in {"finish_success", "finish_card_choice"} : Goto(t, pc)
    /\ UNCHANGED <<job, source, staged, sets, rev>>

\* A final error, an infrastructure error worth another attempt, or an error
\* that only the instructor may retry: timeouts and provider failures.
PipelineFails(t) ==
    /\ task[t].pc \in {"load", "capture", "stage_cards", "provider"}
    /\ \/ Fail(t, FALSE, TRUE) \/ Fail(t, TRUE, TRUE) \/ Fail(t, TRUE, FALSE)
    /\ UNCHANGED <<job, source, staged, sets, rev>>

\* A database error: the coroutine's becomes a retryable failure, and one in a
\* handler of _process_claim ends the task.
DatabaseError(t) ==
    /\ task[t].pc # "idle"
    /\ IF task[t].pc \in Pipeline THEN Fail(t, TRUE, TRUE) ELSE Leave(t)
    /\ UNCHANGED <<job, source, staged, sets, rev>>

-----------------------------------------------------------------------------
(* The ends of a claim.                                                    *)

Released(r) == [r EXCEPT !.lease_expires_at = "null"]

\* _finish_success; the unique key of a job's set is left out, so that the fence
\* alone has to keep results single.
FinishSuccess(t) ==
    LET j == task[t].job IN
    /\ task[t].pc = "finish_success" /\ Claimed(t)
    /\ sets' = [sets EXCEPT ![j] = @ + 1]
    /\ source' = [source EXCEPT ![j] = "absent"]
    /\ job' = [job EXCEPT ![j] = [Released(@) EXCEPT !.status = "completed",
                                                     !.error_retryable = FALSE]]
    /\ Leave(t)
    /\ UNCHANGED <<staged, rev>>

FinishKnowledgeSuccess(t) ==
    LET j == task[t].job IN
    /\ task[t].pc = "finish_knowledge" /\ Claimed(t)
    /\ IF job[j].capture # "captured"
         THEN Fail(t, FALSE, FALSE) /\ UNCHANGED <<job, source>>
         ELSE /\ source' = [source EXCEPT ![j] = "absent"]
              /\ job' = [job EXCEPT ![j] = [Released(@) EXCEPT !.status = "completed",
                                                               !.error_retryable = FALSE]]
              /\ Leave(t)
    /\ UNCHANGED <<staged, sets, rev>>

\* _finish_card_choice: stages the cards and waits for the instructor; storage
\* at its limit, or a lost source, makes it an ordinary failure.
FinishCardChoice(t) ==
    LET j == task[t].job IN
    /\ task[t].pc = "finish_card_choice" /\ Claimed(t)
    /\ \/ /\ source[j] # "absent"
          /\ staged' = [staged EXCEPT ![j] = RunOf(job[j])]
          /\ source' = [source EXCEPT ![j] = "future"]
          /\ job' = [job EXCEPT ![j] =
                 [Released(@) EXCEPT !.status = "awaiting_card_choice",
                                     !.expires_at = "future",
                                     !.error_retryable = TRUE]]
          /\ Leave(t)
       \/ Fail(t, TRUE, FALSE) /\ UNCHANGED <<job, source, staged>>
    /\ UNCHANGED <<sets, rev>>

\* _finish_cancelled.  A rollback the database refuses ends the task.
FinishCancelled(t) ==
    LET j == task[t].job IN
    /\ task[t].pc = "finish_cancelled" /\ Holds(t)
    /\ IF RollbackAccepted({j})
         THEN /\ job' = [k \in Jobs |->
                    IF k = j THEN Cancelled(AfterRollback(j, {j})) ELSE AfterRollback(k, {j})]
              /\ rev' = RevisionsAfterRollback({j})
              /\ source' = [source EXCEPT ![j] = "absent"]
         ELSE UNCHANGED <<job, rev, source>>
    /\ Leave(t)
    /\ UNCHANGED <<staged, sets>>

RetryWait(r) == [Released(r) EXCEPT !.status = "queued", !.error_retryable = TRUE]

FailedFor(r, retryable) ==
    [Released(r) EXCEPT !.status = "failed", !.error_retryable = retryable]

MayRequeue(r) == r.attempt_count < MaxAttempts

\* _finish_failure: a cancellation found here ends the job as cancelled.
FinishFailure(t) ==
    LET j == task[t].job
        requeue == task[t].auto_retry /\ task[t].retryable /\ MayRequeue(job[j]) IN
    /\ task[t].pc = "finish_failure" /\ Holds(t)
    /\ \/ /\ Asked(t)
          /\ job' = [job EXCEPT ![j] = Cancelled(@)]
          /\ source' = [source EXCEPT ![j] = "absent"]
       \/ /\ ~Asked(t) /\ requeue
          /\ job' = [job EXCEPT ![j] = RetryWait(@)]
          /\ UNCHANGED source
       \/ /\ ~Asked(t) /\ ~requeue
          /\ job' = [job EXCEPT ![j] = FailedFor(@, task[t].retryable)]
          /\ source' = [source EXCEPT ![j] =
                 IF task[t].retryable /\ @ # "absent" THEN "future" ELSE "absent"]
    /\ Leave(t)
    /\ UNCHANGED <<staged, sets, rev>>

-----------------------------------------------------------------------------
(* GenerationWorker.recover_and_cleanup: one transaction.                  *)

LeaseExpired(r) == r.status = "running" /\ r.lease_expires_at = "past"

\* Jobs whose capture the pass rolls back.
Undone(batch) ==
    {j \in batch : \/ job[j].status = "awaiting_upload" /\ job[j].expires_at = "past"
                   \/ LeaseExpired(job[j]) /\ job[j].cancellation_requested}

\* Mutant: the pass requeues a lease that was asked to be cancelled.
RecoveredUnasked(r, s) ==
    CASE r.status \in {"awaiting_upload", "awaiting_choice"} /\ r.expires_at = "past"
           -> Cancelled(r)
      [] LeaseExpired(r) /\ MayRequeue(r) /\ s # "absent" -> RetryWait(r)
      [] LeaseExpired(r) /\ ~(MayRequeue(r) /\ s # "absent") -> FailedFor(r, s # "absent")
      [] OTHER -> r

\* Mutant: the pass does not ask whether the lease is still live.
RecoveredEarly(r, s) ==
    IF r.status = "running" THEN RetryWait(r) ELSE RecoveredUnasked(r, s)

\* Mutant: the pass forgets the leases of jobs that have no attempt left.
RecoveredRetryable(r, s) ==
    IF LeaseExpired(r) /\ ~MayRequeue(r) THEN r ELSE RecoveredUnasked(r, s)

\* What the pass does to a row; s is the state of its source.
Recovered(r, s) ==
    CASE r.status \in {"awaiting_upload", "awaiting_choice"} /\ r.expires_at = "past"
           -> Cancelled(r)
      [] r.status = "awaiting_card_choice" /\ r.expires_at = "past"
           -> [FailedFor(r, FALSE) EXCEPT !.expires_at = "null"]
      [] LeaseExpired(r) /\ r.cancellation_requested -> Cancelled(r)
      [] LeaseExpired(r) /\ ~r.cancellation_requested /\ MayRequeue(r) /\ s # "absent"
           -> RetryWait(r)
      [] LeaseExpired(r) /\ ~r.cancellation_requested /\ ~(MayRequeue(r) /\ s # "absent")
           -> FailedFor(r, s # "absent")
      [] OTHER -> r

\* What it does to the source of a row.
SourceRecovered(r, s) ==
    IF Recovered(r, s) = r \/ s = "absent" THEN s
    ELSE CASE Recovered(r, s).status = "queued" -> s
           [] Recovered(r, s).status = "failed" /\ r.status = "running" -> "future"
           [] OTHER -> "absent"

\* The expired sources, then the queued jobs that lack theirs.
Swept(r, s) ==
    LET q == IF s = "past" THEN [r EXCEPT !.error_retryable = FALSE] ELSE r IN
    IF q.status = "queued" /\ s \in {"absent", "past"} THEN FailedFor(q, FALSE) ELSE q

\* Each of its queries takes LIMIT 100 rows and some skip locked ones: batch are
\* the jobs, and sweep the sources, that the pass gets to see.  left are the rows
\* after the rollbacks; recovered, and sources, before the sweep.
RecoverBatch(batch, sweep) ==
    /\ UNCHANGED <<sets, task>>
    /\ \E undone \in {Undone(batch)} :
       \E left \in {[j \in Jobs |-> AfterRollback(j, undone)]} :
       \E recovered \in {[j \in Jobs |->
              IF j \in batch THEN Recovered(left[j], source[j]) ELSE left[j]]},
          sources \in {[j \in Jobs |->
              IF j \in batch THEN SourceRecovered(job[j], source[j]) ELSE source[j]]} :
           /\ RollbackAccepted(undone)
           /\ job' = [j \in Jobs |->
                  IF j \in sweep THEN Swept(recovered[j], sources[j]) ELSE recovered[j]]
           /\ source' = [j \in Jobs |->
                  IF j \in sweep /\ sources[j] = "past" THEN "absent" ELSE sources[j]]
           /\ rev' = RevisionsAfterRollback(undone)
    /\ staged' = [j \in Jobs |->
           IF j \in batch /\ job[j].status = "awaiting_card_choice" /\ job[j].expires_at = "past"
             THEN None ELSE staged[j]]
    /\ <<job, source>>' # <<job, source>>

\* The rows its queries select; a pass that sees other rows leaves them alone.
Due == {j \in Jobs : Recovered(job[j], source[j]) # job[j]}

DueSources == {j \in Jobs : source[j] = "past" \/ Swept(job[j], source[j]) # job[j]}

RecoverAndCleanup ==
    \E batch \in SUBSET Due, sweep \in SUBSET DueSources : RecoverBatch(batch, sweep)

-----------------------------------------------------------------------------
Instructor(j) ==
    \/ Reserve(j) \/ \E f \in Files : AttachSource(j, f)
    \/ Reuse(j) \/ SeparateCopy(j) \/ SubmitCardChoice(j)
    \/ CancelWaiting(j) \/ CancelRunning(j) \/ Retry(j)

Clock(j) == WaitExpires(j) \/ RetentionPasses(j) \/ LeaseRunsOut(j)

Knowledge(c) == IndexCompletes(c) \/ ReviewAndPublish(c) \/ RemoveDocument(c)

Process(t) ==
    \/ LeaseLost(t) \/ CancellationSeen(t)
    \/ Load(t) \/ CapturePrepared(t) \/ CaptureRefused(t) \/ CaptureUnsafe(t)
    \/ RecordCaptureFailure(t) \/ StageCards(t) \/ ProviderReturns(t)
    \/ PipelineFails(t) \/ DatabaseError(t)
    \/ FinishSuccess(t) \/ FinishKnowledgeSuccess(t) \/ FinishCardChoice(t)
    \/ FinishCancelled(t) \/ FinishFailure(t)

Next ==
    \/ \E j \in Jobs : Instructor(j) \/ Clock(j)
    \/ \E c \in Authors : Knowledge(c)
    \/ \E t \in Tasks, j \in Jobs : ClaimNext(t, j)
    \/ \E t \in Tasks : Process(t) \/ Abandon(t)
    \/ RecoverAndCleanup

Spec == Init /\ [][Next]_vars

\* Coroutines are scheduled and the job timeout ends a stuck one, an idle slot
\* claims what is queued, leases pass, and a worker gets through a full pass of
\* recovery now and then.
Fairness ==
    /\ \A t \in Tasks : WF_vars(task[t].pc # "idle" /\ Process(t))
    /\ \A j \in Jobs : WF_vars(\E t \in Tasks : ClaimNext(t, j)) /\ WF_vars(LeaseRunsOut(j))
    /\ WF_vars(Due \cup DueSources # {} /\ RecoverBatch(Jobs, Jobs))

FairSpec == Spec /\ Fairness

-----------------------------------------------------------------------------
(* Properties.                                                             *)

\* Every variable keeps its type, and a busy slot has a job.
TypeOK ==
    /\ job \in [Jobs -> Job]
    /\ source \in [Jobs -> {"absent", "kept", "future", "past"}]
    /\ staged \in [Jobs -> Run \cup {None}]
    /\ sets \in [Jobs -> Nat]
    /\ rev \in [Authors -> Revision \cup {NoRevision}]
    /\ task \in [Tasks -> Task]
    /\ \A t \in Tasks : task[t].pc # "idle" => task[t].job \in Jobs

\* No handler, and no deletion that another job's rollback causes, ever asks
\* PostgreSQL to store a row its CHECK constraints refuse: a waiting row has a
\* deadline and nothing chosen, a settled capture has its document and
\* revision, a removed one names neither, and a reuse stays one or is removed.
RowConstraints ==
    \A j \in Jobs :
        LET r == job[j] IN
        /\ r.status = "awaiting_card_choice" => r.kind = "flashcards" /\ r.expires_at # "null"
        /\ r.status = "awaiting_choice" =>
               r.expires_at # "null" /\ r.choice = "none" /\ r.capture = "pending"
        /\ r.capture = "removed" => r.document = None
        /\ CapturedRevision(r)
        /\ r.choice = "reuse" => r.capture \in {"reused", "removed"}

\* The encrypted PDF lives exactly as long as somebody may need it: without a
\* deadline while the job is queued or runs, with one while a failed job may
\* be retried, and not at all once the job completed or was cancelled.
SourceRetention ==
    \A j \in Jobs :
        LET r == job[j] IN
        /\ r.status \in {"queued", "running"} => source[j] = "kept"
        /\ r.status \in {"completed", "cancelled"} => source[j] = "absent"
        /\ r.status = "failed" => (source[j] # "absent" <=> r.error_retryable)

\* Cards are staged only for the choice that is pending, and are those of the
\* attempt that asked it: an instructor never accepts the cards of a run that
\* a retry has replaced.
StageOfThisAttempt ==
    \A j \in Jobs :
        /\ job[j].status = "awaiting_card_choice" => staged[j] = RunOf(job[j])
        /\ staged[j] # None => job[j].status = "awaiting_card_choice"

\* However often a job is claimed, recovered, retried and chosen upon, it leaves
\* at most one flashcard set, and only a completed flashcards job leaves one.
OneSet ==
    \A j \in Jobs :
        /\ sets[j] <= 1
        /\ sets[j] = 1 => job[j].status = "completed" /\ job[j].kind = "flashcards"

\* Automatic attempts stay within the limit in every round of manual retries,
\* and a job is never queued that has no attempt left.
AttemptsBounded ==
    \A j \in Jobs :
        /\ job[j].attempt_count <= MaxAttempts
        /\ job[j].manual_retry_count <= MaxManualRetries
        /\ job[j].status = "queued" => job[j].attempt_count < MaxAttempts

\* Knowledge the instructor has reviewed disappears only when the instructor
\* removes its document: no cancellation, failure or recovery of any job of
\* the subject takes it along.
ReviewedSurvives ==
    [][\A c \in Authors :
         (rev[c] # NoRevision /\ rev[c].reviewed /\ rev'[c] = NoRevision)
         => RemoveDocument(rev[c].doc)]_vars

\* Once cancellation of a running job is requested no race with its worker or
\* with recovery turns it into a success, a failure or another attempt: it is
\* cancelled, and it leaves no cards.
CancellationWins ==
    [][\A j \in Jobs :
         (job[j].status = "running" /\ job[j].cancellation_requested)
         => /\ job'[j].status \in {"running", "cancelled"}
            /\ sets'[j] = sets[j]]_vars

\* The jobs with a live lease never exceed the deployment's limit, and however
\* jobs are reserved, chosen upon, requeued and retried, an instructor never
\* holds more active jobs of a kind than allowed.
AdmissionBound ==
    /\ Cardinality({j \in Jobs : Live(job[j])}) <= MaxActive
    /\ \A kind \in Kinds : Cardinality(Active(kind)) <= MaxOwn[kind]

\* While its lease is live, only the slot that holds the claim takes a job out
\* of running: recovery, the instructor and stale slots leave it alone.
LeaseIsRespected ==
    [][\A j \in Jobs :
         (Live(job[j]) /\ job'[j].status # "running")
         => \E t \in Tasks : /\ task[t].job = j /\ task[t].run = RunOf(job[j])
                             /\ task[t].pc # "idle" /\ task'[t] = Idle]_vars

\* The database refuses what a full pass of recovery has to write: the rollback
\* of a cancelled job with an expired lease would take the revision from a row
\* that reuses it.
RecoveryRefused == ~RollbackAccepted(Undone(Jobs))

Ended(j) == job[j].status \in {"completed", "failed", "cancelled", "awaiting_card_choice"}

\* A job that was admitted or claimed does not stay queued or running for ever.
\* The retry limit bounds its attempts, so it ends up completed, failed,
\* cancelled or with a choice to make, unless from some moment on every pass of
\* recovery is refused: then an expired lease stays, of this or of another job.
AdmittedEnds ==
    \A j \in Jobs :
        (job[j].status \in {"queued", "running"}) ~> (Ended(j) \/ []RecoveryRefused)

\* A cancelled job keeps nothing it captured, unless the instructor reviewed
\* it (PDF_GENERATION.md:26 "A cancelled combined job removes the capture
\* created by that job").
CancelledKeepsNoCapture ==
    \A j \in Jobs :
        (job[j].status = "cancelled" /\ job[j].capture = "captured")
        => IndependentlyReviewed(job[j])

\* An expired lease can be recovered: the database never refuses what the
\* recovery pass has to write for it (AI-GENERATION-FLOW.md:122 "interrupted
\* worker execution can be recovered after its lease expires").
ExpiredLeaseRecoverable ==
    \A j \in Jobs : LeaseExpired(job[j]) => RollbackAccepted(Undone({j}))

=============================================================================
