------------------------ MODULE GenerationJob_proofs ------------------------
(***************************************************************************)
(* Theorems of durable generation jobs, for any number of jobs, files,     *)
(* slots, attempts, manual retries and any limits of admission.            *)
(***************************************************************************)
EXTENDS GenerationJob, FiniteSetTheorems, WellFoundedInduction, TLAPS

-----------------------------------------------------------------------------
(* The inductive invariant.                                                *)

\* Before its source is there and its choice made no worker has seen a job.
Early == {"absent", "awaiting_upload", "awaiting_choice"}

Waits == {"awaiting_upload", "awaiting_choice", "awaiting_card_choice"}

Uploaded == {"awaiting_choice", "queued", "running", "awaiting_card_choice", "failed"}

\* What the row of a job says about its progress.
RowOK(r) ==
    /\ r.lease_expires_at # "null" <=> r.status = "running"
    /\ r.expires_at # "null" <=> r.status \in Waits
    /\ r.status \in Early =>
           /\ r.attempt_count = 0 /\ r.manual_retry_count = 0
           /\ ~r.cancellation_requested /\ r.choice = "none"
    /\ r.status \in Uploaded => r.file \in Files
    /\ r.status = "awaiting_card_choice" => r.kind = "flashcards"
    /\ r.attempt_count <= MaxAttempts /\ r.manual_retry_count <= MaxManualRetries
    /\ r.status = "queued" => r.attempt_count < MaxAttempts

\* What it says about its Knowledge.
BookOK(r) ==
    /\ r.status = "absent" => r.document = None /\ r.capture = "not_requested"
    /\ r.status = "awaiting_choice" => r.document = None /\ r.capture = "pending"
    /\ r.capture = "removed" => r.document = None
    /\ CapturedRevision(r)
    /\ r.choice = "reuse" => r.capture \in {"reused", "removed"}

\* SourceRetention, StageOfThisAttempt and OneSet of one job.
Kept(r, s) ==
    /\ r.status \in {"queued", "running"} => s = "kept"
    /\ r.status \in {"completed", "cancelled"} => s = "absent"
    /\ r.status = "failed" => (s # "absent" <=> r.error_retryable)

Staged(r, st) ==
    /\ r.status = "awaiting_card_choice" => st = RunOf(r)
    /\ st # None => r.status = "awaiting_card_choice"

Counted(r, n) ==
    /\ n <= 1
    /\ n = 1 => r.status = "completed" /\ r.kind = "flashcards"

\* The row of the job itself and whatever else is kept for it.
JobOK(r, s, st, n) == RowOK(r) /\ Kept(r, s) /\ Staged(r, st) /\ Counted(r, n)

JobsOK == \A j \in Jobs : JobOK(job[j], source[j], staged[j], sets[j])

\* A slot works on a job whose choice was made, captures only for a job that
\* does not reuse, and asks for cards only for a job that wants them.
Knows(p, r) ==
    p # "idle" =>
        /\ r.status \notin Early
        /\ p \in {"capture", "capture_failed"} => r.choice # "reuse"
        /\ p \in {"stage_cards", "provider", "finish_success", "finish_card_choice"}
               => r.kind = "flashcards"

TasksKnow == \A t \in Tasks : Knows(task[t].pc, job[task[t].job])

\* A document has its first revision as long as it has any, and whoever names a
\* document names one that is there.
Founded == \A c \in Authors : rev[c] # NoRevision => rev[rev[c].doc].doc = rev[c].doc

\* What the job j wrote: nothing before its capture, its own revision after it,
\* and a document of its own exactly if it named none.
Wrote(r, j) ==
    /\ r.document # None => rev[r.document].doc = r.document
    /\ r.capture \in {"pending", "not_requested"} =>
           rev[j] = NoRevision /\ r.revision = None /\ ~r.created_document
    /\ r.capture = "captured" =>
           /\ r.revision = j /\ rev[j].doc = r.document
           /\ r.created_document <=> r.document = j

BooksOK ==
    /\ Founded
    /\ \A j \in Jobs : BookOK(job[j]) /\ Wrote(job[j], j)

Types ==
    /\ job \in [Jobs -> Job]
    /\ source \in [Jobs -> {"absent", "kept", "future", "past"}]
    /\ staged \in [Jobs -> Run \cup {None}]
    /\ sets \in [Jobs -> Nat]
    /\ rev \in [Authors -> Revision \cup {NoRevision}]
    /\ task \in [Tasks -> Task]
    /\ \A t \in Tasks : task[t].pc # "idle" => task[t].job \in Jobs

IInv == Types /\ JobsOK /\ TasksKnow /\ BooksOK

-----------------------------------------------------------------------------
(* Rows.                                                                   *)

\* The columns no capture, rollback or removal of Knowledge touches.
Plain(f, r) ==
    /\ f.kind = r.kind /\ f.file = r.file /\ f.choice = r.choice
    /\ f.attempt_count = r.attempt_count
    /\ f.manual_retry_count = r.manual_retry_count

Control(f, r) ==
    /\ Plain(f, r) /\ f.status = r.status /\ f.expires_at = r.expires_at
    /\ f.lease_expires_at = r.lease_expires_at
    /\ f.error_retryable = r.error_retryable
    /\ f.cancellation_requested = r.cancellation_requested

\* The columns only they touch.
Books(f, r) ==
    /\ f.capture = r.capture /\ f.document = r.document /\ f.revision = r.revision
    /\ f.created_document = r.created_document /\ f.candidate = r.candidate

LEMMA ConstantRows ==
    /\ Absent \in Job /\ Idle \in Task /\ NoRevision \notin Revision
    /\ None \notin Authors /\ None \notin Files /\ NoRevision.doc = None
    /\ \A r \in Revision : r # NoRevision /\ r.doc # None
  <1> USE GenerationAssumption
  <1>1. Absent \in Job
    BY DEF Absent, Job, Status, Capture, Deadline, Authors
  <1>2. Idle \in Task
    BY DEF Idle, Task, Pc, Run
  <1>3. None \notin Authors /\ None \notin Files /\ NoRevision.doc = None
    BY DEF Authors, NoRevision
  <1>4. \A r \in Revision : r # NoRevision /\ r.doc # None
    BY <1>3 DEF Revision
  <1> QED BY <1>1, <1>2, <1>3, <1>4

LEMMA EnqueuedRow ==
    ASSUME NEW r \in Job
    PROVE  LET f == Enqueued(r) IN
           /\ f \in Job /\ Plain(f, r) /\ Books(f, r)
           /\ f.status = "queued" /\ f.expires_at = "null"
           /\ f.lease_expires_at = r.lease_expires_at
           /\ f.error_retryable = r.error_retryable
           /\ f.cancellation_requested = r.cancellation_requested
  <1> DEFINE f == Enqueued(r)
  <1>1. "queued" \in Status /\ "null" \in Deadline
    BY DEF Status, Deadline
  <1>2. f \in Job
    BY <1>1 DEF Enqueued, Job
  <1>3. Plain(f, r) /\ f.status = "queued" /\ f.expires_at = "null"
        /\ f.lease_expires_at = r.lease_expires_at
    BY DEF Enqueued, Job, Plain
  <1>4. /\ f.capture = r.capture /\ f.document = r.document /\ f.revision = r.revision
        /\ f.candidate = r.candidate
    BY DEF Enqueued, Job
  <1>5. f.created_document = r.created_document
    BY DEF Enqueued, Job
  <1>6. f.error_retryable = r.error_retryable
    BY DEF Enqueued, Job
  <1>7. f.cancellation_requested = r.cancellation_requested
    BY DEF Enqueued, Job
  <1> QED BY <1>2, <1>3, <1>4, <1>5, <1>6, <1>7 DEF Books

\* The row of an ended job: without a deadline, a lease and another attempt.
LEMMA CancelledRow ==
    ASSUME NEW r \in Job
    PROVE  LET f == Cancelled(r) IN
           /\ f \in Job /\ Plain(f, r) /\ Books(f, r)
           /\ f.status = "cancelled" /\ f.expires_at = "null"
           /\ f.lease_expires_at = "null" /\ f.error_retryable = FALSE
           /\ f.cancellation_requested = r.cancellation_requested
  <1> DEFINE f == Cancelled(r)
  <1>1. "cancelled" \in Status /\ "null" \in Deadline
    BY DEF Status, Deadline
  <1>2. f \in Job
    BY <1>1 DEF Cancelled, Job
  <1>3. Plain(f, r) /\ f.status = "cancelled" /\ f.expires_at = "null"
        /\ f.lease_expires_at = "null"
    BY DEF Cancelled, Job, Plain
  <1>4. /\ f.capture = r.capture /\ f.document = r.document /\ f.revision = r.revision
        /\ f.candidate = r.candidate
    BY DEF Cancelled, Job
  <1>5. f.created_document = r.created_document
    BY DEF Cancelled, Job
  <1>6. f.error_retryable = FALSE
    BY DEF Cancelled, Job
  <1>7. f.cancellation_requested = r.cancellation_requested
    BY DEF Cancelled, Job
  <1> QED BY <1>2, <1>3, <1>4, <1>5, <1>6, <1>7 DEF Books

\* A worker's row gets another status and gives up its lease.
LEMMA ReleasedRow ==
    ASSUME NEW r \in Job, NEW st \in Status, NEW err \in BOOLEAN
    PROVE  LET f == [Released(r) EXCEPT !.status = st, !.error_retryable = err] IN
           /\ f \in Job /\ Plain(f, r) /\ Books(f, r)
           /\ f.status = st /\ f.expires_at = r.expires_at
           /\ f.lease_expires_at = "null" /\ f.error_retryable = err
           /\ f.cancellation_requested = r.cancellation_requested
  <1> DEFINE f == [Released(r) EXCEPT !.status = st, !.error_retryable = err]
  <1>1. "null" \in Deadline
    BY DEF Deadline
  <1>2. f \in Job
    BY <1>1 DEF Released, Job
  <1>3. Plain(f, r) /\ f.status = st /\ f.expires_at = r.expires_at
        /\ f.lease_expires_at = "null"
    BY DEF Released, Job, Plain
  <1>4. /\ f.capture = r.capture /\ f.document = r.document /\ f.revision = r.revision
        /\ f.candidate = r.candidate
    BY DEF Released, Job
  <1>5. f.created_document = r.created_document
    BY DEF Released, Job
  <1>6. f.error_retryable = err
    BY DEF Released, Job
  <1>7. f.cancellation_requested = r.cancellation_requested
    BY DEF Released, Job
  <1> QED BY <1>2, <1>3, <1>4, <1>5, <1>6, <1>7 DEF Books

LEMMA RequeuedRow ==
    ASSUME NEW r \in Job
    PROVE  LET f == Requeued(r) IN
           /\ f \in Job /\ Books(f, r)
           /\ f.kind = r.kind /\ f.file = r.file /\ f.choice = r.choice
           /\ f.status = "queued" /\ f.expires_at = "null" /\ f.attempt_count = 0
           /\ f.manual_retry_count = r.manual_retry_count + 1
           /\ f.lease_expires_at = "null"
           /\ f.error_retryable = FALSE /\ f.cancellation_requested = FALSE
  <1> DEFINE f == Requeued(r)
             n == r.manual_retry_count + 1
  <1>1. "queued" \in Status /\ "null" \in Deadline /\ n \in Nat
    BY DEF Status, Deadline, Job
  <1>0. f = [r EXCEPT !.status = "queued", !.expires_at = "null", !.attempt_count = 0,
              !.manual_retry_count = n, !.lease_expires_at = "null",
              !.error_retryable = FALSE, !.cancellation_requested = FALSE]
    BY DEF Requeued, Job
  <1> HIDE DEF n, f
  <1>2. f \in Job
    BY <1>0, <1>1 DEF Job
  <1>3. /\ f.status = "queued" /\ f.expires_at = "null" /\ f.lease_expires_at = "null"
        /\ f.kind = r.kind /\ f.file = r.file /\ f.choice = r.choice
    BY <1>0 DEF Job
  <1>4. /\ f.capture = r.capture /\ f.document = r.document /\ f.revision = r.revision
        /\ f.candidate = r.candidate
    BY <1>0 DEF Job
  <1>5. f.created_document = r.created_document
    BY <1>0 DEF Job
  <1>6. f.error_retryable = FALSE
    BY <1>0 DEF Job
  <1>7. f.cancellation_requested = FALSE
    BY <1>0 DEF Job
  <1>8. f.attempt_count = 0 /\ f.manual_retry_count = n
    BY <1>0 DEF Job
  <1> QED BY <1>2, <1>3, <1>4, <1>5, <1>6, <1>7, <1>8 DEF Books, f, n

\* A reservation.
Reservation(kind, d) ==
    [Absent EXCEPT !.status = "awaiting_upload", !.kind = kind, !.capture = "pending",
                   !.document = d, !.expires_at = "future"]

LEMMA ReservedRow ==
    ASSUME NEW kind, NEW d, kind \in {"flashcards", "knowledge_only"},
           d \in Authors \cup {None}
    PROVE  LET f == Reservation(kind, d) IN
           /\ f \in Job /\ f.kind = kind /\ f.choice = "none"
           /\ f.attempt_count = 0 /\ f.manual_retry_count = 0
           /\ f.status = "awaiting_upload" /\ f.expires_at = "future"
           /\ f.lease_expires_at = "null" /\ ~f.cancellation_requested
           /\ f.capture = "pending" /\ f.document = d /\ f.revision = None
           /\ ~f.created_document
  <1> DEFINE f == Reservation(kind, d)
  <1>1. /\ f.kind = kind /\ f.choice = "none" /\ f.attempt_count = 0
        /\ f.manual_retry_count = 0 /\ f.status = "awaiting_upload"
        /\ f.expires_at = "future" /\ f.lease_expires_at = "null"
        /\ f.capture = "pending" /\ f.document = d /\ f.revision = None
    BY DEF Reservation, Absent
  <1>2. f.cancellation_requested = FALSE /\ f.created_document = FALSE
    BY DEF Reservation, Absent
  <1>3. "awaiting_upload" \in Status /\ "pending" \in Capture /\ "future" \in Deadline
    BY DEF Status, Capture, Deadline
  <1>4. f \in Job
    BY <1>3, ConstantRows, ZenonT(60) DEF Reservation, Job
  <1> QED BY <1>1, <1>2, <1>4

\* An upload that waits for the choice between reuse and a copy.
Offered(r, f1, d) ==
    [r EXCEPT !.file = f1, !.status = "awaiting_choice", !.candidate = d,
              !.expires_at = "future"]

LEMMA OfferedRow ==
    ASSUME NEW r \in Job, NEW f1 \in Files, NEW d \in Authors
    PROVE  LET f == Offered(r, f1, d) IN
           /\ f \in Job /\ f.kind = r.kind /\ f.file = f1 /\ f.choice = r.choice
           /\ f.attempt_count = r.attempt_count
           /\ f.manual_retry_count = r.manual_retry_count
           /\ f.status = "awaiting_choice" /\ f.expires_at = "future"
           /\ f.lease_expires_at = r.lease_expires_at
           /\ f.error_retryable = r.error_retryable
           /\ f.cancellation_requested = r.cancellation_requested
           /\ f.capture = r.capture /\ f.document = r.document
           /\ f.revision = r.revision /\ f.created_document = r.created_document
  <1> DEFINE f == Offered(r, f1, d)
  <1>1. "awaiting_choice" \in Status /\ "future" \in Deadline
    BY DEF Status, Deadline
  <1>2. f \in Job
    BY <1>1 DEF Offered, Job
  <1>3. /\ f.kind = r.kind /\ f.file = f1 /\ f.choice = r.choice
        /\ f.attempt_count = r.attempt_count
        /\ f.manual_retry_count = r.manual_retry_count
        /\ f.status = "awaiting_choice" /\ f.expires_at = "future"
        /\ f.lease_expires_at = r.lease_expires_at
        /\ f.capture = r.capture /\ f.document = r.document /\ f.revision = r.revision
    BY DEF Offered, Job
  <1>4. f.created_document = r.created_document
    BY DEF Offered, Job
  <1>5. f.error_retryable = r.error_retryable
    BY DEF Offered, Job
  <1>6. f.cancellation_requested = r.cancellation_requested
    BY DEF Offered, Job
  <1> QED BY <1>2, <1>3, <1>4, <1>5, <1>6

\* A choice of Knowledge that is there already, or an upload that repeats it.
Settled(r, d, c, cap, ch) ==
    [r EXCEPT !.document = d, !.revision = c, !.capture = cap, !.choice = ch]

LEMMA SettledRow ==
    ASSUME NEW r \in Job, NEW d \in Authors \cup {None}, NEW c \in Authors \cup {None},
           NEW cap \in Capture, NEW ch \in {"none", "reuse", "separate_copy"}
    PROVE  LET f == Settled(r, d, c, cap, ch) IN
           /\ f \in Job /\ f.kind = r.kind /\ f.file = r.file /\ f.choice = ch
           /\ f.attempt_count = r.attempt_count
           /\ f.manual_retry_count = r.manual_retry_count
           /\ f.status = r.status /\ f.expires_at = r.expires_at
           /\ f.lease_expires_at = r.lease_expires_at
           /\ f.error_retryable = r.error_retryable
           /\ f.cancellation_requested = r.cancellation_requested
           /\ f.capture = cap /\ f.document = d /\ f.revision = c
           /\ f.created_document = r.created_document
  <1> DEFINE f == Settled(r, d, c, cap, ch)
  <1>1. f \in Job
    BY DEF Settled, Job
  <1>2. /\ f.kind = r.kind /\ f.file = r.file /\ f.choice = ch
        /\ f.attempt_count = r.attempt_count
        /\ f.manual_retry_count = r.manual_retry_count
        /\ f.status = r.status /\ f.expires_at = r.expires_at
        /\ f.lease_expires_at = r.lease_expires_at
        /\ f.capture = cap /\ f.document = d /\ f.revision = c
    BY DEF Settled, Job
  <1>3. f.created_document = r.created_document
    BY DEF Settled, Job
  <1>4. f.error_retryable = r.error_retryable
    BY DEF Settled, Job
  <1>5. f.cancellation_requested = r.cancellation_requested
    BY DEF Settled, Job
  <1> QED BY <1>1, <1>2, <1>3, <1>4, <1>5

\* _continue_after_choice.
LEMMA ContinuedRow ==
    ASSUME NEW r \in Job
    PROVE  LET f == Continued(r) IN
           /\ f \in Job /\ Plain(f, r) /\ Books(f, r)
           /\ f.expires_at = "null"
           /\ f.lease_expires_at = r.lease_expires_at
           /\ f.error_retryable = r.error_retryable
           /\ f.cancellation_requested = r.cancellation_requested
           /\ \/ r.kind = "knowledge_only" /\ f.status = "completed"
              \/ r.kind # "knowledge_only" /\ f.status = "queued"
  <1>1. CASE r.kind # "knowledge_only"
    BY <1>1, EnqueuedRow DEF Continued
  <1>2. CASE r.kind = "knowledge_only"
    <2> DEFINE f == [r EXCEPT !.status = "completed", !.expires_at = "null"]
    <2>1. "completed" \in Status /\ "null" \in Deadline
      BY DEF Status, Deadline
    <2>2. f \in Job
      BY <2>1 DEF Job
    <2>3. Plain(f, r) /\ f.status = "completed" /\ f.expires_at = "null"
          /\ f.lease_expires_at = r.lease_expires_at
      BY DEF Job, Plain
    <2>4. /\ f.capture = r.capture /\ f.document = r.document /\ f.revision = r.revision
          /\ f.candidate = r.candidate
      BY DEF Job
    <2>5. f.created_document = r.created_document
      BY DEF Job
    <2>6. f.error_retryable = r.error_retryable
      BY DEF Job
    <2>7. f.cancellation_requested = r.cancellation_requested
      BY DEF Job
    <2> HIDE DEF f
    <2>8. Continued(r) = f
      BY <1>2 DEF Continued, f
    <2> QED BY <1>2, <2>2, <2>3, <2>4, <2>5, <2>6, <2>7, <2>8 DEF Books
  <1> QED BY <1>1, <1>2

LEMMA CapturedRow ==
    ASSUME NEW r \in Job, NEW j \in Jobs, NEW d \in Authors
    PROVE  LET f == Captured(r, j, d) IN
           /\ f \in Job /\ Control(f, r)
           /\ f.document = d /\ f.revision = j /\ f.capture = "captured"
           /\ f.created_document = (r.document = None)
  <1> DEFINE own == (r.document = None)
             f == [r EXCEPT !.document = d, !.revision = j, !.capture = "captured",
                            !.created_document = own]
  <1>0. Captured(r, j, d) = f
    BY DEF Captured
  <1>1. own \in BOOLEAN /\ "captured" \in Capture /\ j \in Authors
    BY DEF Capture, Authors
  <1> HIDE DEF own
  <1>2. f \in Job
    BY <1>1 DEF Job
  <1>3. /\ Plain(f, r) /\ f.status = r.status /\ f.expires_at = r.expires_at
        /\ f.lease_expires_at = r.lease_expires_at
        /\ f.document = d /\ f.revision = j /\ f.capture = "captured"
    BY DEF Job, Plain
  <1>4. f.created_document = own
    BY DEF Job
  <1>5. f.error_retryable = r.error_retryable
    BY DEF Job
  <1>6. f.cancellation_requested = r.cancellation_requested
    BY DEF Job
  <1> HIDE DEF f
  <1> QED BY <1>0, <1>2, <1>3, <1>4, <1>5, <1>6 DEF Control, own

LEMMA RemovedRow ==
    ASSUME NEW r \in Job
    PROVE  LET f == Removed(r) IN
           /\ f \in Job /\ Control(f, r)
           /\ f.document = None /\ f.revision = None /\ f.capture = "removed"
           /\ f.created_document = r.created_document /\ f.candidate = r.candidate
  <1> DEFINE f == Removed(r)
  <1>1. "removed" \in Capture
    BY DEF Capture
  <1>2. f \in Job
    BY <1>1 DEF Removed, Job
  <1>3. /\ Plain(f, r) /\ f.status = r.status /\ f.expires_at = r.expires_at
        /\ f.lease_expires_at = r.lease_expires_at
        /\ f.document = None /\ f.revision = None /\ f.capture = "removed"
        /\ f.candidate = r.candidate
    BY DEF Removed, Job, Plain
  <1>4. f.created_document = r.created_document
    BY DEF Removed, Job
  <1>5. f.error_retryable = r.error_retryable
    BY DEF Removed, Job
  <1>6. f.cancellation_requested = r.cancellation_requested
    BY DEF Removed, Job
  <1> QED BY <1>2, <1>3, <1>4, <1>5, <1>6 DEF Control

LEMMA CandidateRow ==
    ASSUME NEW r \in Job, NEW can \in Authors \cup {None}
    PROVE  LET f == [r EXCEPT !.candidate = can] IN
           /\ f \in Job /\ Control(f, r)
           /\ f.document = r.document /\ f.revision = r.revision
           /\ f.capture = r.capture /\ f.created_document = r.created_document
  <1> DEFINE f == [r EXCEPT !.candidate = can]
  <1>2. f \in Job
    BY DEF Job
  <1>3. /\ Plain(f, r) /\ f.status = r.status /\ f.expires_at = r.expires_at
        /\ f.lease_expires_at = r.lease_expires_at
        /\ f.document = r.document /\ f.revision = r.revision /\ f.capture = r.capture
    BY DEF Job, Plain
  <1>4. f.created_document = r.created_document
    BY DEF Job
  <1>5. f.error_retryable = r.error_retryable
    BY DEF Job
  <1>6. f.cancellation_requested = r.cancellation_requested
    BY DEF Job
  <1> QED BY <1>2, <1>3, <1>4, <1>5, <1>6 DEF Control

LEMMA DisownedRow ==
    ASSUME NEW r \in Job
    PROVE  LET f == [r EXCEPT !.created_document = FALSE] IN
           /\ f \in Job /\ Control(f, r)
           /\ f.document = r.document /\ f.revision = r.revision
           /\ f.capture = r.capture /\ ~f.created_document
  <1> DEFINE f == [r EXCEPT !.created_document = FALSE]
  <1>2. f \in Job
    BY DEF Job
  <1>3. /\ Plain(f, r) /\ f.status = r.status /\ f.expires_at = r.expires_at
        /\ f.lease_expires_at = r.lease_expires_at
        /\ f.document = r.document /\ f.revision = r.revision /\ f.capture = r.capture
    BY DEF Job, Plain
  <1>4. f.created_document = FALSE
    BY DEF Job
  <1>5. f.error_retryable = r.error_retryable
    BY DEF Job
  <1>6. f.cancellation_requested = r.cancellation_requested
    BY DEF Job
  <1> QED BY <1>2, <1>3, <1>4, <1>5, <1>6 DEF Control

LEMMA ForgottenRow ==
    ASSUME NEW r \in Job
    PROVE  LET f == [r EXCEPT !.revision = None] IN
           /\ f \in Job /\ Control(f, r)
           /\ f.document = r.document /\ f.revision = None
           /\ f.capture = r.capture /\ f.created_document = r.created_document
  <1> DEFINE f == [r EXCEPT !.revision = None]
  <1>2. f \in Job
    BY DEF Job
  <1>3. /\ Plain(f, r) /\ f.status = r.status /\ f.expires_at = r.expires_at
        /\ f.lease_expires_at = r.lease_expires_at
        /\ f.document = r.document /\ f.revision = None /\ f.capture = r.capture
    BY DEF Job, Plain
  <1>4. f.created_document = r.created_document
    BY DEF Job
  <1>5. f.error_retryable = r.error_retryable
    BY DEF Job
  <1>6. f.cancellation_requested = r.cancellation_requested
    BY DEF Job
  <1> QED BY <1>2, <1>3, <1>4, <1>5, <1>6 DEF Control

LEMMA ControlTransitive ==
    ASSUME NEW f, NEW g, NEW r, Control(f, g), Control(g, r)
    PROVE  Control(f, r)
  BY DEF Control, Plain

\* The deletion of the documents ds, in the row of a job.
LEMMA DetachedRow ==
    ASSUME NEW r \in Job, NEW ds
    PROVE  LET f == Detached(r, ds) IN
           /\ f \in Job /\ Control(f, r)
           /\ r.document \notin ds => /\ f.document = r.document
                                      /\ f.revision = r.revision
                                      /\ f.capture = r.capture
                                      /\ f.created_document = r.created_document
           /\ r.document \in ds => /\ f.document = None /\ f.revision = None
                                   /\ f.capture = "removed" /\ ~f.created_document
  <1> DEFINE can == IF r.candidate \in ds THEN None ELSE r.candidate
             s == [r EXCEPT !.candidate = can]
  <1>1. can \in Authors \cup {None}
    BY DEF Job
  <1>2. Detached(r, ds) =
            IF r.document \in ds THEN [Removed(s) EXCEPT !.created_document = FALSE] ELSE s
    BY DEF Detached, Job
  <1> HIDE DEF can
  <1>3. /\ s \in Job /\ Control(s, r)
        /\ s.document = r.document /\ s.revision = r.revision
        /\ s.capture = r.capture /\ s.created_document = r.created_document
    BY <1>1, CandidateRow
  <1> HIDE DEF s
  <1>4. CASE r.document \notin ds
    BY <1>2, <1>3, <1>4
  <1>5. CASE r.document \in ds
    <2> DEFINE q == Removed(s)
               f == [q EXCEPT !.created_document = FALSE]
    <2>1. /\ q \in Job /\ Control(q, s)
          /\ q.document = None /\ q.revision = None /\ q.capture = "removed"
      BY <1>3, RemovedRow
    <2> HIDE DEF q
    <2>2. /\ f \in Job /\ Control(f, q)
          /\ f.document = q.document /\ f.revision = q.revision
          /\ f.capture = q.capture /\ ~f.created_document
      BY <2>1, DisownedRow
    <2>3. Detached(r, ds) = f
      BY <1>2, <1>5 DEF q
    <2> HIDE DEF f
    <2>4. Control(f, r)
      BY <1>3, <2>1, <2>2, ControlTransitive
    <2> QED BY <1>5, <2>1, <2>2, <2>3, <2>4
  <1> QED BY <1>4, <1>5

\* submit_card_choice.
Accepted(r) ==
    [r EXCEPT !.status = "completed", !.expires_at = "null", !.error_retryable = FALSE]

LEMMA AcceptedRow ==
    ASSUME NEW r \in Job
    PROVE  LET f == Accepted(r) IN
           /\ f \in Job /\ Plain(f, r) /\ Books(f, r) /\ f.status = "completed"
           /\ f.expires_at = "null" /\ f.lease_expires_at = r.lease_expires_at
           /\ f.error_retryable = FALSE
           /\ f.cancellation_requested = r.cancellation_requested
  <1> DEFINE f == Accepted(r)
  <1>1. "completed" \in Status /\ "null" \in Deadline
    BY DEF Deadline, Status
  <1>2. f \in Job
    BY <1>1 DEF Accepted, Job
  <1>3. /\ f.status = "completed" /\ f.kind = r.kind
        /\ f.capture = r.capture /\ f.file = r.file
        /\ f.document = r.document /\ f.revision = r.revision
        /\ f.candidate = r.candidate /\ f.choice = r.choice
        /\ f.expires_at = "null" /\ f.attempt_count = r.attempt_count
        /\ f.manual_retry_count = r.manual_retry_count
        /\ f.lease_expires_at = r.lease_expires_at
    BY DEF Accepted, Job
  <1>4. f.created_document = r.created_document
    BY DEF Accepted, Job
  <1>5. f.error_retryable = FALSE
    BY DEF Accepted, Job
  <1>6. f.cancellation_requested = r.cancellation_requested
    BY DEF Accepted, Job
  <1> HIDE DEF f
  <1> QED BY <1>2, <1>3, <1>4, <1>5, <1>6 DEF f, Plain, Books

\* cancel, of a running job.
Requested(r) ==
    [r EXCEPT !.cancellation_requested = TRUE]

LEMMA RequestedRow ==
    ASSUME NEW r \in Job
    PROVE  LET f == Requested(r) IN
           /\ f \in Job /\ Plain(f, r) /\ Books(f, r) /\ f.status = r.status
           /\ f.expires_at = r.expires_at /\ f.lease_expires_at = r.lease_expires_at
           /\ f.error_retryable = r.error_retryable /\ f.cancellation_requested = TRUE
  <1> DEFINE f == Requested(r)
  <1>2. f \in Job
    BY DEF Requested, Job
  <1>3. /\ f.status = r.status /\ f.kind = r.kind
        /\ f.capture = r.capture /\ f.file = r.file
        /\ f.document = r.document /\ f.revision = r.revision
        /\ f.candidate = r.candidate /\ f.choice = r.choice
        /\ f.expires_at = r.expires_at /\ f.attempt_count = r.attempt_count
        /\ f.manual_retry_count = r.manual_retry_count
        /\ f.lease_expires_at = r.lease_expires_at
    BY DEF Requested, Job
  <1>4. f.created_document = r.created_document
    BY DEF Requested, Job
  <1>5. f.error_retryable = r.error_retryable
    BY DEF Requested, Job
  <1>6. f.cancellation_requested = TRUE
    BY DEF Requested, Job
  <1> HIDE DEF f
  <1> QED BY <1>2, <1>3, <1>4, <1>5, <1>6 DEF f, Plain, Books

\* The deadline of a wait passes.
Overdue(r) ==
    [r EXCEPT !.expires_at = "past"]

LEMMA OverdueRow ==
    ASSUME NEW r \in Job
    PROVE  LET f == Overdue(r) IN
           /\ f \in Job /\ Plain(f, r) /\ Books(f, r) /\ f.status = r.status
           /\ f.expires_at = "past" /\ f.lease_expires_at = r.lease_expires_at
           /\ f.error_retryable = r.error_retryable
           /\ f.cancellation_requested = r.cancellation_requested
  <1> DEFINE f == Overdue(r)
  <1>1. "past" \in Deadline
    BY DEF Deadline
  <1>2. f \in Job
    BY <1>1 DEF Overdue, Job
  <1>3. /\ f.status = r.status /\ f.kind = r.kind
        /\ f.capture = r.capture /\ f.file = r.file
        /\ f.document = r.document /\ f.revision = r.revision
        /\ f.candidate = r.candidate /\ f.choice = r.choice
        /\ f.expires_at = "past" /\ f.attempt_count = r.attempt_count
        /\ f.manual_retry_count = r.manual_retry_count
        /\ f.lease_expires_at = r.lease_expires_at
    BY DEF Overdue, Job
  <1>4. f.created_document = r.created_document
    BY DEF Overdue, Job
  <1>5. f.error_retryable = r.error_retryable
    BY DEF Overdue, Job
  <1>6. f.cancellation_requested = r.cancellation_requested
    BY DEF Overdue, Job
  <1> HIDE DEF f
  <1> QED BY <1>2, <1>3, <1>4, <1>5, <1>6 DEF f, Plain, Books

\* No heartbeat came in time.
Lapsed(r) ==
    [r EXCEPT !.lease_expires_at = "past"]

LEMMA LapsedRow ==
    ASSUME NEW r \in Job
    PROVE  LET f == Lapsed(r) IN
           /\ f \in Job /\ Plain(f, r) /\ Books(f, r) /\ f.status = r.status
           /\ f.expires_at = r.expires_at /\ f.lease_expires_at = "past"
           /\ f.error_retryable = r.error_retryable
           /\ f.cancellation_requested = r.cancellation_requested
  <1> DEFINE f == Lapsed(r)
  <1>1. "past" \in Deadline
    BY DEF Deadline
  <1>2. f \in Job
    BY <1>1 DEF Lapsed, Job
  <1>3. /\ f.status = r.status /\ f.kind = r.kind
        /\ f.capture = r.capture /\ f.file = r.file
        /\ f.document = r.document /\ f.revision = r.revision
        /\ f.candidate = r.candidate /\ f.choice = r.choice
        /\ f.expires_at = r.expires_at /\ f.attempt_count = r.attempt_count
        /\ f.manual_retry_count = r.manual_retry_count /\ f.lease_expires_at = "past"
    BY DEF Lapsed, Job
  <1>4. f.created_document = r.created_document
    BY DEF Lapsed, Job
  <1>5. f.error_retryable = r.error_retryable
    BY DEF Lapsed, Job
  <1>6. f.cancellation_requested = r.cancellation_requested
    BY DEF Lapsed, Job
  <1> HIDE DEF f
  <1> QED BY <1>2, <1>3, <1>4, <1>5, <1>6 DEF f, Plain, Books

\* claim_next.
TakenUp(r, n) ==
    [r EXCEPT !.status = "running", !.attempt_count = n, !.lease_expires_at = "future"]

LEMMA TakenUpRow ==
    ASSUME NEW r \in Job, NEW n \in Nat
    PROVE  LET f == TakenUp(r, n) IN
           /\ f \in Job /\ Books(f, r) /\ f.status = "running" /\ f.kind = r.kind
           /\ f.file = r.file /\ f.choice = r.choice /\ f.expires_at = r.expires_at
           /\ f.attempt_count = n
           /\ f.manual_retry_count = r.manual_retry_count
           /\ f.lease_expires_at = "future" /\ f.error_retryable = r.error_retryable
           /\ f.cancellation_requested = r.cancellation_requested
  <1> DEFINE f == TakenUp(r, n)
  <1>1. "running" \in Status /\ "future" \in Deadline
    BY DEF Deadline, Status
  <1>2. f \in Job
    BY <1>1 DEF TakenUp, Job
  <1>3. /\ f.status = "running" /\ f.kind = r.kind
        /\ f.capture = r.capture /\ f.file = r.file
        /\ f.document = r.document /\ f.revision = r.revision
        /\ f.candidate = r.candidate /\ f.choice = r.choice
        /\ f.expires_at = r.expires_at /\ f.attempt_count = n
        /\ f.manual_retry_count = r.manual_retry_count /\ f.lease_expires_at = "future"
    BY DEF TakenUp, Job
  <1>4. f.created_document = r.created_document
    BY DEF TakenUp, Job
  <1>5. f.error_retryable = r.error_retryable
    BY DEF TakenUp, Job
  <1>6. f.cancellation_requested = r.cancellation_requested
    BY DEF TakenUp, Job
  <1> HIDE DEF f
  <1> QED BY <1>2, <1>3, <1>4, <1>5, <1>6 DEF f, Books

\* record_capture_failure.
CaptureFailed(r) ==
    [r EXCEPT !.capture = "failed"]

LEMMA CaptureFailedRow ==
    ASSUME NEW r \in Job
    PROVE  LET f == CaptureFailed(r) IN
           /\ f \in Job /\ Control(f, r) /\ f.capture = "failed"
           /\ f.document = r.document /\ f.revision = r.revision
           /\ f.candidate = r.candidate /\ f.created_document = r.created_document
  <1> DEFINE f == CaptureFailed(r)
  <1>1. "failed" \in Capture
    BY DEF Capture
  <1>2. f \in Job
    BY <1>1 DEF CaptureFailed, Job
  <1>3. /\ f.status = r.status /\ f.kind = r.kind
        /\ f.capture = "failed" /\ f.file = r.file
        /\ f.document = r.document /\ f.revision = r.revision
        /\ f.candidate = r.candidate /\ f.choice = r.choice
        /\ f.expires_at = r.expires_at /\ f.attempt_count = r.attempt_count
        /\ f.manual_retry_count = r.manual_retry_count
        /\ f.lease_expires_at = r.lease_expires_at
    BY DEF CaptureFailed, Job
  <1>4. f.created_document = r.created_document
    BY DEF CaptureFailed, Job
  <1>5. f.error_retryable = r.error_retryable
    BY DEF CaptureFailed, Job
  <1>6. f.cancellation_requested = r.cancellation_requested
    BY DEF CaptureFailed, Job
  <1> HIDE DEF f
  <1> QED BY <1>2, <1>3, <1>4, <1>5, <1>6 DEF f, Control, Plain

\* _finish_card_choice.
Parked(r) ==
    [r EXCEPT !.status = "awaiting_card_choice", !.expires_at = "future",
              !.lease_expires_at = "null", !.error_retryable = TRUE]

LEMMA ParkedRow ==
    ASSUME NEW r \in Job
    PROVE  LET f == Parked(r) IN
           /\ f \in Job /\ Plain(f, r) /\ Books(f, r)
           /\ f.status = "awaiting_card_choice" /\ f.expires_at = "future"
           /\ f.lease_expires_at = "null" /\ f.error_retryable = TRUE
           /\ f.cancellation_requested = r.cancellation_requested
  <1> DEFINE f == Parked(r)
  <1>1. "awaiting_card_choice" \in Status /\ "future" \in Deadline /\ "null" \in Deadline
    BY DEF Deadline, Status
  <1>2. f \in Job
    BY <1>1 DEF Parked, Job
  <1>3. /\ f.status = "awaiting_card_choice" /\ f.kind = r.kind
        /\ f.capture = r.capture /\ f.file = r.file
        /\ f.document = r.document /\ f.revision = r.revision
        /\ f.candidate = r.candidate /\ f.choice = r.choice
        /\ f.expires_at = "future" /\ f.attempt_count = r.attempt_count
        /\ f.manual_retry_count = r.manual_retry_count /\ f.lease_expires_at = "null"
    BY DEF Parked, Job
  <1>4. f.created_document = r.created_document
    BY DEF Parked, Job
  <1>5. f.error_retryable = TRUE
    BY DEF Parked, Job
  <1>6. f.cancellation_requested = r.cancellation_requested
    BY DEF Parked, Job
  <1> HIDE DEF f
  <1> QED BY <1>2, <1>3, <1>4, <1>5, <1>6 DEF f, Plain, Books

\* _finish_success and _finish_knowledge_success.
Succeeded(r) ==
    [r EXCEPT !.status = "completed", !.lease_expires_at = "null", !.error_retryable = FALSE]

LEMMA SucceededRow ==
    ASSUME NEW r \in Job
    PROVE  LET f == Succeeded(r) IN
           /\ f \in Job /\ Plain(f, r) /\ Books(f, r) /\ f.status = "completed"
           /\ f.expires_at = r.expires_at /\ f.lease_expires_at = "null"
           /\ f.error_retryable = FALSE
           /\ f.cancellation_requested = r.cancellation_requested
  <1> DEFINE f == Succeeded(r)
  <1>1. "completed" \in Status /\ "null" \in Deadline
    BY DEF Deadline, Status
  <1>2. f \in Job
    BY <1>1 DEF Succeeded, Job
  <1>3. /\ f.status = "completed" /\ f.kind = r.kind
        /\ f.capture = r.capture /\ f.file = r.file
        /\ f.document = r.document /\ f.revision = r.revision
        /\ f.candidate = r.candidate /\ f.choice = r.choice
        /\ f.expires_at = r.expires_at /\ f.attempt_count = r.attempt_count
        /\ f.manual_retry_count = r.manual_retry_count /\ f.lease_expires_at = "null"
    BY DEF Succeeded, Job
  <1>4. f.created_document = r.created_document
    BY DEF Succeeded, Job
  <1>5. f.error_retryable = FALSE
    BY DEF Succeeded, Job
  <1>6. f.cancellation_requested = r.cancellation_requested
    BY DEF Succeeded, Job
  <1> HIDE DEF f
  <1> QED BY <1>2, <1>3, <1>4, <1>5, <1>6 DEF f, Plain, Books

\* attach_source: the content of the upload.
Filed(r, f1) ==
    [r EXCEPT !.file = f1]

LEMMA FiledRow ==
    ASSUME NEW r \in Job, NEW f1 \in Files
    PROVE  LET f == Filed(r, f1) IN
           /\ f \in Job /\ Books(f, r) /\ f.status = r.status /\ f.kind = r.kind
           /\ f.file = f1 /\ f.choice = r.choice /\ f.expires_at = r.expires_at
           /\ f.attempt_count = r.attempt_count
           /\ f.manual_retry_count = r.manual_retry_count
           /\ f.lease_expires_at = r.lease_expires_at
           /\ f.error_retryable = r.error_retryable
           /\ f.cancellation_requested = r.cancellation_requested
  <1> DEFINE f == Filed(r, f1)
  <1>2. f \in Job
    BY DEF Filed, Job
  <1>3. /\ f.status = r.status /\ f.kind = r.kind
        /\ f.capture = r.capture /\ f.file = f1
        /\ f.document = r.document /\ f.revision = r.revision
        /\ f.candidate = r.candidate /\ f.choice = r.choice
        /\ f.expires_at = r.expires_at /\ f.attempt_count = r.attempt_count
        /\ f.manual_retry_count = r.manual_retry_count
        /\ f.lease_expires_at = r.lease_expires_at
    BY DEF Filed, Job
  <1>4. f.created_document = r.created_document
    BY DEF Filed, Job
  <1>5. f.error_retryable = r.error_retryable
    BY DEF Filed, Job
  <1>6. f.cancellation_requested = r.cancellation_requested
    BY DEF Filed, Job
  <1> HIDE DEF f
  <1> QED BY <1>2, <1>3, <1>4, <1>5, <1>6 DEF f, Books

\* attach_source: the upload repeats the latest revision.
Matched(r, c) ==
    [r EXCEPT !.revision = c, !.capture = "unchanged"]

LEMMA MatchedRow ==
    ASSUME NEW r \in Job, NEW c \in Authors
    PROVE  LET f == Matched(r, c) IN
           /\ f \in Job /\ Control(f, r) /\ f.capture = "unchanged"
           /\ f.document = r.document /\ f.revision = c /\ f.candidate = r.candidate
           /\ f.created_document = r.created_document
  <1> DEFINE f == Matched(r, c)
  <1>1. "unchanged" \in Capture
    BY DEF Capture
  <1>2. f \in Job
    BY <1>1 DEF Matched, Job
  <1>3. /\ f.status = r.status /\ f.kind = r.kind
        /\ f.capture = "unchanged" /\ f.file = r.file
        /\ f.document = r.document /\ f.revision = c
        /\ f.candidate = r.candidate /\ f.choice = r.choice
        /\ f.expires_at = r.expires_at /\ f.attempt_count = r.attempt_count
        /\ f.manual_retry_count = r.manual_retry_count
        /\ f.lease_expires_at = r.lease_expires_at
    BY DEF Matched, Job
  <1>4. f.created_document = r.created_document
    BY DEF Matched, Job
  <1>5. f.error_retryable = r.error_retryable
    BY DEF Matched, Job
  <1>6. f.cancellation_requested = r.cancellation_requested
    BY DEF Matched, Job
  <1> HIDE DEF f
  <1> QED BY <1>2, <1>3, <1>4, <1>5, <1>6 DEF f, Control, Plain

\* submit_knowledge_choice: a copy of its own.
Copied(r) ==
    [r EXCEPT !.choice = "separate_copy"]

LEMMA CopiedRow ==
    ASSUME NEW r \in Job
    PROVE  LET f == Copied(r) IN
           /\ f \in Job /\ Books(f, r) /\ f.status = r.status /\ f.kind = r.kind
           /\ f.file = r.file /\ f.choice = "separate_copy"
           /\ f.expires_at = r.expires_at /\ f.attempt_count = r.attempt_count
           /\ f.manual_retry_count = r.manual_retry_count
           /\ f.lease_expires_at = r.lease_expires_at
           /\ f.error_retryable = r.error_retryable
           /\ f.cancellation_requested = r.cancellation_requested
  <1> DEFINE f == Copied(r)
  <1>2. f \in Job
    BY DEF Copied, Job
  <1>3. /\ f.status = r.status /\ f.kind = r.kind
        /\ f.capture = r.capture /\ f.file = r.file
        /\ f.document = r.document /\ f.revision = r.revision
        /\ f.candidate = r.candidate /\ f.choice = "separate_copy"
        /\ f.expires_at = r.expires_at /\ f.attempt_count = r.attempt_count
        /\ f.manual_retry_count = r.manual_retry_count
        /\ f.lease_expires_at = r.lease_expires_at
    BY DEF Copied, Job
  <1>4. f.created_document = r.created_document
    BY DEF Copied, Job
  <1>5. f.error_retryable = r.error_retryable
    BY DEF Copied, Job
  <1>6. f.cancellation_requested = r.cancellation_requested
    BY DEF Copied, Job
  <1> HIDE DEF f
  <1> QED BY <1>2, <1>3, <1>4, <1>5, <1>6 DEF f, Books

-----------------------------------------------------------------------------
(* Knowledge.                                                              *)

\* What has a revision has a latest one.
LEMMA LatestOf ==
    ASSUME rev \in [Authors -> Revision \cup {NoRevision}], NEW d \in Documents
    PROVE  Latest(d) \in Revisions(d) /\ Latest(d) \in Authors /\ rev[Latest(d)] \in Revision
           /\ rev[Latest(d)].doc = d
  <1> DEFINE S == Revisions(d)
             Above(c) == {b \in S : ~(rev[b].no <= rev[c].no)}
             R == {Cardinality(Above(c)) : c \in S}
  <1>1. d # None /\ S # {} /\ S \subseteq Authors
    BY ConstantRows DEF Documents, Revisions
  <1>2. \A c \in S : rev[c] \in Revision /\ rev[c].doc = d /\ rev[c].no \in Nat
    <2> SUFFICES ASSUME NEW c \in S
                 PROVE  rev[c] \in Revision /\ rev[c].doc = d /\ rev[c].no \in Nat
      OBVIOUS
    <2>1. rev[c].doc = d /\ c \in Authors
      BY DEF Revisions
    <2>2. rev[c] # NoRevision
      BY <1>1, <2>1, ConstantRows
    <2>3. rev[c] \in Revision
      BY <2>1, <2>2
    <2> QED BY <2>1, <2>3 DEF Revision
  <1>3. IsFiniteSet(S)
    <2>1. IsFiniteSet(Jobs \cup {Seed})
      BY GenerationAssumption, FS_AddElement
    <2>2. S \in SUBSET (Jobs \cup {Seed})
      BY <1>1 DEF Authors
    <2> QED BY <2>1, <2>2, FS_Subset
  <1> HIDE DEF S
  <1>4. \A c \in S : IsFiniteSet(Above(c)) /\ Cardinality(Above(c)) \in Nat
    <2> SUFFICES ASSUME NEW c \in S
                 PROVE  IsFiniteSet(Above(c)) /\ Cardinality(Above(c)) \in Nat
      OBVIOUS
    <2>1. Above(c) \in SUBSET S
      OBVIOUS
    <2>2. IsFiniteSet(Above(c))
      BY <1>3, <2>1, FS_Subset
    <2> QED BY <2>2, FS_CardinalityType
  <1>5. R \subseteq Nat /\ R # {}
    BY <1>1, <1>4
  <1> HIDE DEF R
  <1>6. PICK k \in R : \A r \in R : ~(<<r, k>> \in OpToRel(<, Nat))
    BY <1>5, NatLessThanWellFounded, WFMin
  <1>7. k \in Nat /\ \A r \in R : ~(r < k)
    BY <1>5, <1>6 DEF OpToRel
  <1>8. PICK c \in S : k = Cardinality(Above(c))
    BY DEF R
  <1>9. \A b \in S : rev[b].no <= rev[c].no
    <2> SUFFICES ASSUME NEW b \in S, ~(rev[b].no <= rev[c].no) PROVE FALSE
      OBVIOUS
    <2>1. rev[b].no \in Nat /\ rev[c].no \in Nat
      BY <1>2
    <2>2. Above(b) \in SUBSET Above(c)
      <3>1. \A a \in S : rev[a].no \in Nat
        BY <1>2
      <3> QED BY <2>1, <3>1
    <2>3. b \in Above(c) /\ b \notin Above(b)
      BY <2>1
    <2>4. Above(b) \in SUBSET (Above(c) \ {b})
      BY <2>2, <2>3
    <2>5. IsFiniteSet(Above(c) \ {b})
          /\ Cardinality(Above(c) \ {b}) = Cardinality(Above(c)) - 1
      BY <1>4, <2>3, FS_RemoveElement
    <2>6. Cardinality(Above(b)) <= Cardinality(Above(c) \ {b})
      BY <2>4, <2>5, FS_Subset
    <2>7. Cardinality(Above(b)) < k
      <3>1. Cardinality(Above(b)) \in Nat /\ Cardinality(Above(c)) \in Nat
        BY <1>4
      <3> HIDE DEF Above
      <3> QED BY <1>8, <2>5, <2>6, <3>1
    <2>8. Cardinality(Above(b)) \in R
      BY DEF R
    <2> QED BY <1>7, <2>7, <2>8
  <1>10. Latest(d) \in S
    BY <1>9 DEF Latest, S
  <1> QED BY <1>1, <1>2, <1>10 DEF S

\* What a rollback leaves of a row.
LEMMA RollbackRow ==
    ASSUME job \in [Jobs -> Job], NEW j \in Jobs, NEW js
    PROVE  LET f == AfterRollback(j, js)
               r == job[j] IN
           /\ f \in Job /\ Control(f, r)
           /\ \/ /\ f.document = None /\ f.revision = None /\ f.capture = "removed"
                 /\ f.created_document => r.created_document
                 /\ j \in RolledBack(js) \/ r.document \in DoomedDocuments(js)
              \/ /\ j \notin RolledBack(js) /\ r.document \notin DoomedDocuments(js)
                 /\ f.document = r.document /\ f.capture = r.capture
                 /\ f.created_document = r.created_document
                 /\ f.revision = r.revision
                    \/ (f.revision = None /\ r.revision \in DoomedRevisions(js))
  <1> DEFINE r == job[j]
             ds == DoomedDocuments(js)
             q == Detached(r, ds)
  <1>1. r \in Job
    OBVIOUS
  <1> HIDE DEF r, ds
  <1>2. CASE j \in RolledBack(js)
    <2>1. AfterRollback(j, js) = Removed(r)
      BY <1>2 DEF AfterRollback, r
    <2> QED BY <1>1, <1>2, <2>1, RemovedRow DEF r
  <1>3. CASE j \notin RolledBack(js)
    <2>1. AfterRollback(j, js) =
              IF q.revision \in DoomedRevisions(js) THEN [q EXCEPT !.revision = None] ELSE q
      BY <1>3 DEF AfterRollback, r, ds
    <2>2. /\ q \in Job /\ Control(q, r)
          /\ r.document \notin ds => /\ q.document = r.document
                                      /\ q.revision = r.revision
                                      /\ q.capture = r.capture
                                      /\ q.created_document = r.created_document
          /\ r.document \in ds => /\ q.document = None /\ q.revision = None
                                   /\ q.capture = "removed" /\ ~q.created_document
      BY <1>1, DetachedRow
    <2> HIDE DEF q
    <2>3. CASE q.revision \notin DoomedRevisions(js)
      <3>1. AfterRollback(j, js) = q
        BY <2>1, <2>3
      <3>2. CASE r.document \in ds
        BY <1>3, <2>2, <3>1, <3>2 DEF r, ds
      <3>3. CASE r.document \notin ds
        <4>1. /\ q.document = r.document /\ q.revision = r.revision
              /\ q.capture = r.capture /\ q.created_document = r.created_document
          BY <2>2, <3>3
        <4>2. /\ q \in Job /\ Control(q, job[j])
              /\ j \notin RolledBack(js) /\ job[j].document \notin DoomedDocuments(js)
          BY <1>3, <2>2, <3>3 DEF r, ds
        <4>3. /\ q.document = job[j].document /\ q.revision = job[j].revision
              /\ q.capture = job[j].capture
          BY <4>1 DEF r
        <4>4. q.created_document = job[j].created_document
          BY <4>1 DEF r
        <4> QED BY <3>1, <4>2, <4>3, <4>4
      <3> QED BY <3>2, <3>3
    <2>4. CASE q.revision \in DoomedRevisions(js)
      <3> DEFINE f == [q EXCEPT !.revision = None]
      <3>1. /\ f \in Job /\ Control(f, q)
            /\ f.document = q.document /\ f.revision = None
            /\ f.capture = q.capture /\ f.created_document = q.created_document
        BY <2>2, ForgottenRow
      <3>2. AfterRollback(j, js) = f
        BY <2>1, <2>4
      <3> HIDE DEF f
      <3>3. Control(f, r)
        BY <2>2, <3>1, ControlTransitive
      <3>4. CASE r.document \in ds
        BY <1>3, <2>2, <3>1, <3>2, <3>3, <3>4 DEF r, ds
      <3>5. CASE r.document \notin ds
        BY <1>3, <2>2, <2>4, <3>1, <3>2, <3>3, <3>5 DEF r, ds
      <3> QED BY <3>4, <3>5
    <2> QED BY <2>3, <2>4
  <1> QED BY <1>2, <1>3

\* A rollback takes only documents that its jobs created, and the first revision
\* of a document only with the document.
LEMMA RollbackScope ==
    ASSUME Types, BooksOK, NEW js \in SUBSET Jobs
    PROVE  /\ None \notin DoomedDocuments(js) /\ None \notin DoomedRevisions(js)
           /\ \A c \in DoomedRevisions(js) :
                  c \in Jobs /\ c \in RolledBack(js) /\ rev[c].doc # c
  <1>1. None \notin DoomedDocuments(js) /\ None \notin DoomedRevisions(js)
    BY DEF DoomedDocuments, DoomedRevisions, OwnsDocument
  <1>2. ASSUME NEW c \in DoomedRevisions(js)
        PROVE  c \in Jobs /\ c \in RolledBack(js) /\ rev[c].doc # c
    <2>1. PICK k \in RolledBack(js) : c = job[k].revision /\ ~OwnsDocument(k) /\ c # None
      BY <1>2 DEF DoomedRevisions
    <2>2. k \in Jobs /\ job[k].capture \in {"pending", "captured"}
      BY <2>1 DEF RolledBack
    <2>3. Wrote(job[k], k) /\ BookOK(job[k])
      BY <2>2 DEF BooksOK
    <2>4. job[k].capture = "captured"
      BY <2>1, <2>2, <2>3 DEF Wrote
    <2>5. c = k /\ rev[k].doc = job[k].document /\ job[k].document # None
          /\ (job[k].created_document <=> job[k].document = k)
      BY <2>1, <2>3, <2>4 DEF Wrote, BookOK, CapturedRevision
    <2> QED BY <2>1, <2>2, <2>5 DEF OwnsDocument
  <1> QED BY <1>1, <1>2


\* It leaves rows and documents as they should be.
LEMMA RolledBackOK ==
    ASSUME Types, BooksOK, NEW js \in SUBSET Jobs, RollbackAccepted(js),
           rev' = RevisionsAfterRollback(js),
           \A j \in Jobs :
               LET f == AfterRollback(j, js) IN
               /\ job'[j].document = f.document /\ job'[j].revision = f.revision
               /\ job'[j].capture = f.capture
               /\ job'[j].created_document = f.created_document
               /\ job'[j].choice = f.choice
               /\ job'[j].status \in {"absent", "awaiting_choice"}
                      => job'[j].status = f.status,
           \A j \in js : job'[j].status # "awaiting_choice"
    PROVE  BooksOK' /\ rev' \in [Authors -> Revision \cup {NoRevision}]
  <1>1. rev \in [Authors -> Revision \cup {NoRevision}] /\ job \in [Jobs -> Job]
    BY DEF Types
  <1>2. rev' \in [Authors -> Revision \cup {NoRevision}]
        /\ \A c \in Authors :
               rev'[c] = IF rev[c].doc \in DoomedDocuments(js) \/ c \in DoomedRevisions(js)
                         THEN NoRevision ELSE rev[c]
    BY <1>1 DEF RevisionsAfterRollback
  <1>3. /\ None \notin DoomedDocuments(js) /\ None \notin DoomedRevisions(js)
        /\ \A c \in DoomedRevisions(js) :
               c \in Jobs /\ c \in RolledBack(js) /\ rev[c].doc # c
    BY RollbackScope
  <1>4. \A d \in Authors : rev[d].doc = d /\ d \notin DoomedDocuments(js) => rev'[d].doc = d
    BY <1>2, <1>3
  <1>5. Founded'
    <2> SUFFICES ASSUME NEW c \in Authors, rev'[c] # NoRevision
                 PROVE  rev'[rev'[c].doc].doc = rev'[c].doc
      BY DEF Founded
    <2>1. rev'[c] = rev[c] /\ rev[c] # NoRevision /\ rev[c].doc \notin DoomedDocuments(js)
      BY <1>2
    <2>2. rev[c].doc \in Authors /\ rev[rev[c].doc].doc = rev[c].doc
      BY <1>1, <2>1 DEF BooksOK, Founded, Revision
    <2> QED BY <1>4, <2>1, <2>2
  <1>6. ASSUME NEW j \in Jobs PROVE (BookOK(job[j]) /\ Wrote(job[j], j))'
    <2> DEFINE f == AfterRollback(j, js)
               r == job[j]
    <2>1. /\ f \in Job /\ Control(f, r)
          /\ \/ /\ f.document = None /\ f.revision = None /\ f.capture = "removed"
                /\ f.created_document => r.created_document
                /\ j \in RolledBack(js) \/ r.document \in DoomedDocuments(js)
             \/ /\ j \notin RolledBack(js) /\ r.document \notin DoomedDocuments(js)
                /\ f.document = r.document /\ f.capture = r.capture
                /\ f.created_document = r.created_document
                /\ f.revision = r.revision
                   \/ (f.revision = None /\ r.revision \in DoomedRevisions(js))
      BY <1>1, RollbackRow
    <2>2. /\ job'[j].document = f.document /\ job'[j].revision = f.revision
          /\ job'[j].capture = f.capture
          /\ job'[j].created_document = f.created_document
          /\ job'[j].choice = f.choice
          /\ job'[j].status \in {"absent", "awaiting_choice"} => job'[j].status = f.status
          /\ job'[j].status = "awaiting_choice" => j \notin js
      OBVIOUS
    <2>3. CapturedRevision(f)
      BY DEF RollbackAccepted
    <2> HIDE DEF f
    <2>4. f.choice = r.choice /\ f.status = r.status
      BY <2>1 DEF Control, Plain
    <2>5. BookOK(r) /\ Wrote(r, j)
      BY DEF BooksOK
    <2>6. CapturedRevision(job'[j])
      BY <2>2, <2>3 DEF CapturedRevision
    <2>7. j \in RolledBack(js) => j \in js
      BY DEF RolledBack
    <2>8. r.capture = "captured" /\ j \notin RolledBack(js)
              => r.revision \notin DoomedRevisions(js)
      BY <1>3, <2>5 DEF Wrote
    <2>10. CASE /\ f.document = None /\ f.revision = None /\ f.capture = "removed"
                /\ j \in RolledBack(js) \/ r.document \in DoomedDocuments(js)
      <3>1. job'[j].status # "awaiting_choice"
        BY <1>3, <2>2, <2>4, <2>5, <2>7, <2>10 DEF BookOK
      <3>4. job'[j].status # "absent"
        <4>1. j \in RolledBack(js) => r.capture \in {"pending", "captured"}
          BY DEF RolledBack
        <4> QED BY <1>3, <2>2, <2>4, <2>5, <2>10, <4>1 DEF BookOK
      <3>2. (BookOK(job[j]))'
        BY <2>2, <2>4, <2>5, <2>6, <2>10, <3>1, <3>4 DEF BookOK
      <3>3. Wrote(job[j], j)'
        BY <2>2, <2>10 DEF Wrote
      <3> QED BY <3>2, <3>3
    <2>11. CASE /\ j \notin RolledBack(js) /\ r.document \notin DoomedDocuments(js)
                /\ f.document = r.document /\ f.capture = r.capture
                /\ f.created_document = r.created_document
                /\ f.revision = r.revision
                   \/ (f.revision = None /\ r.revision \in DoomedRevisions(js))
      <3>1. (BookOK(job[j]))'
        BY <2>2, <2>4, <2>5, <2>6, <2>11 DEF BookOK
      <3>2. r.document # None => rev'[r.document].doc = r.document
        <4>1. r.document \in Authors \cup {None}
          BY <1>1 DEF Job
        <4> QED BY <1>4, <2>5, <2>11, <4>1 DEF Wrote
      <3>3. r.capture \in {"pending", "not_requested"} =>
                rev'[j] = NoRevision /\ f.revision = None /\ ~f.created_document
        <4>1. j \in Authors
          BY DEF Authors
        <4> QED BY <1>2, <2>5, <2>11, <4>1 DEF Wrote
      <3>4. r.capture = "captured" =>
                /\ f.revision = j /\ rev'[j].doc = r.document
                /\ f.created_document <=> r.document = j
        <4>1. j \in Authors
          BY DEF Authors
        <4> QED BY <1>2, <2>5, <2>8, <2>11, <4>1 DEF Wrote
      <3>5. Wrote(job[j], j)'
        BY <2>2, <2>11, <3>2, <3>3, <3>4 DEF Wrote
      <3> QED BY <3>1, <3>5
    <2> QED BY <2>1, <2>10, <2>11
  <1> QED BY <1>2, <1>5, <1>6 DEF BooksOK

-----------------------------------------------------------------------------
(* A pass of recovery over one row.                                        *)

LEMMA FailedForRow ==
    ASSUME NEW r \in Job, NEW err \in BOOLEAN
    PROVE  LET f == FailedFor(r, err) IN
           /\ f \in Job /\ Plain(f, r) /\ Books(f, r)
           /\ f.status = "failed" /\ f.expires_at = r.expires_at
           /\ f.lease_expires_at = "null" /\ f.error_retryable = err
           /\ f.cancellation_requested = r.cancellation_requested
  <1>1. "failed" \in Status
    BY DEF Status
  <1> DEFINE f == [Released(r) EXCEPT !.status = "failed", !.error_retryable = err]
  <1>2. /\ f \in Job /\ Plain(f, r) /\ Books(f, r)
        /\ f.status = "failed" /\ f.expires_at = r.expires_at
        /\ f.lease_expires_at = "null" /\ f.error_retryable = err
        /\ f.cancellation_requested = r.cancellation_requested
    <2>1. "null" \in Deadline
      BY DEF Deadline
    <2>2. f \in Job
      BY <1>1, <2>1 DEF Released, Job
    <2>3. Plain(f, r) /\ f.status = "failed" /\ f.expires_at = r.expires_at
          /\ f.lease_expires_at = "null"
      BY DEF Released, Job, Plain
    <2>4. /\ f.capture = r.capture /\ f.document = r.document
          /\ f.revision = r.revision /\ f.candidate = r.candidate
      BY DEF Released, Job
    <2>5. f.created_document = r.created_document
      BY DEF Released, Job
    <2>6. f.error_retryable = err
      BY DEF Released, Job
    <2>7. f.cancellation_requested = r.cancellation_requested
      BY DEF Released, Job
    <2> QED BY <2>2, <2>3, <2>4, <2>5, <2>6, <2>7 DEF Books
  <1>3. FailedFor(r, err) = f
    BY DEF FailedFor
  <1> HIDE DEF f
  <1> QED BY <1>2, <1>3

LEMMA RetryWaitRow ==
    ASSUME NEW r \in Job
    PROVE  LET f == RetryWait(r) IN
           /\ f \in Job /\ Plain(f, r) /\ Books(f, r)
           /\ f.status = "queued" /\ f.expires_at = r.expires_at
           /\ f.lease_expires_at = "null" /\ f.error_retryable = TRUE
           /\ f.cancellation_requested = r.cancellation_requested
  <1>1. "queued" \in Status
    BY DEF Status
  <1> QED BY <1>1, ReleasedRow DEF RetryWait

LEMMA RecoveredRow ==
    ASSUME NEW r \in Job, NEW s
    PROVE  LET f == Recovered(r, s) IN
           /\ f \in Job /\ Plain(f, r) /\ Books(f, r)
           /\ f.cancellation_requested = r.cancellation_requested
           /\ \/ f = r /\ ~LeaseExpired(r)
                 /\ ~(r.status \in Waits /\ r.expires_at = "past")
              \/ /\ \/ r.status \in {"awaiting_upload", "awaiting_choice"}
                       /\ r.expires_at = "past"
                    \/ LeaseExpired(r) /\ r.cancellation_requested
                 /\ f.status = "cancelled" /\ f.expires_at = "null"
                 /\ f.lease_expires_at = "null" /\ ~f.error_retryable
              \/ /\ r.status = "awaiting_card_choice" /\ r.expires_at = "past"
                 /\ f.status = "failed" /\ f.expires_at = "null"
                 /\ f.lease_expires_at = "null" /\ ~f.error_retryable
              \/ /\ LeaseExpired(r) /\ ~r.cancellation_requested
                 /\ MayRequeue(r) /\ s # "absent"
                 /\ f.status = "queued" /\ f.expires_at = r.expires_at
                 /\ f.lease_expires_at = "null"
              \/ /\ LeaseExpired(r) /\ ~r.cancellation_requested
                 /\ f.status = "failed" /\ f.expires_at = r.expires_at
                 /\ f.lease_expires_at = "null" /\ f.error_retryable = (s # "absent")
  <1> DEFINE f == Recovered(r, s)
             fresh == r.status \in {"awaiting_upload", "awaiting_choice"}
                      /\ r.expires_at = "past"
             late == r.status = "awaiting_card_choice" /\ r.expires_at = "past"
             err == s # "absent"
  <1>1. CASE fresh
    <2>1. f = Cancelled(r)
      BY <1>1 DEF Recovered, LeaseExpired
    <2>2. /\ f \in Job /\ Plain(f, r) /\ Books(f, r)
          /\ f.status = "cancelled" /\ f.expires_at = "null"
          /\ f.lease_expires_at = "null" /\ f.error_retryable = FALSE
          /\ f.cancellation_requested = r.cancellation_requested
      BY <2>1, CancelledRow
    <2> HIDE DEF f
    <2> QED BY <1>1, <2>2 DEF f, fresh
  <1>2. CASE late
    <2> DEFINE q == FailedFor(r, FALSE)
               g == [q EXCEPT !.expires_at = "null"]
    <2>1. f = g
      BY <1>2 DEF Recovered, LeaseExpired
    <2>2. /\ q \in Job /\ Plain(q, r) /\ Books(q, r)
          /\ q.status = "failed"
          /\ q.lease_expires_at = "null" /\ q.error_retryable = FALSE
          /\ q.cancellation_requested = r.cancellation_requested
      BY FailedForRow
    <2> HIDE DEF q, f
    <2>3. "null" \in Deadline
      BY DEF Deadline
    <2>4. g \in Job
      BY <2>2, <2>3 DEF Job
    <2>5. Plain(g, q) /\ g.status = q.status /\ g.expires_at = "null"
          /\ g.lease_expires_at = q.lease_expires_at
      BY <2>2 DEF Job, Plain
    <2>6. /\ g.capture = q.capture /\ g.document = q.document
          /\ g.revision = q.revision /\ g.candidate = q.candidate
      BY <2>2 DEF Job
    <2>7. g.created_document = q.created_document
      BY <2>2 DEF Job
    <2>8. g.error_retryable = q.error_retryable
      BY <2>2 DEF Job
    <2>9. g.cancellation_requested = q.cancellation_requested
      BY <2>2 DEF Job
    <2> HIDE DEF g
    <2>10. Plain(g, r) /\ Books(g, r)
      BY <2>2, <2>5, <2>6, <2>7 DEF Plain, Books
    <2>11. f.error_retryable = FALSE /\ f.cancellation_requested = r.cancellation_requested
      BY <2>1, <2>2, <2>8, <2>9
    <2> QED BY <1>2, <2>1, <2>2, <2>4, <2>5, <2>10, <2>11 DEF f
  <1>3. CASE LeaseExpired(r) /\ r.cancellation_requested
    <2>1. f = Cancelled(r)
      BY <1>3 DEF Recovered, LeaseExpired
    <2> QED BY <1>3, <2>1, CancelledRow
  <1>4. CASE LeaseExpired(r) /\ ~r.cancellation_requested /\ MayRequeue(r) /\ s # "absent"
    <2>1. f = RetryWait(r)
      BY <1>4 DEF Recovered, LeaseExpired
    <2> QED BY <1>4, <2>1, RetryWaitRow
  <1>5. CASE LeaseExpired(r) /\ ~r.cancellation_requested /\ ~(MayRequeue(r) /\ s # "absent")
    <2>1. f = FailedFor(r, err)
      BY <1>5 DEF Recovered, LeaseExpired
    <2>2. err \in BOOLEAN
      OBVIOUS
    <2> HIDE DEF err
    <2>3. /\ f \in Job /\ Plain(f, r) /\ Books(f, r)
          /\ f.status = "failed" /\ f.expires_at = r.expires_at
          /\ f.lease_expires_at = "null" /\ f.error_retryable = err
          /\ f.cancellation_requested = r.cancellation_requested
      BY <2>1, <2>2, FailedForRow
    <2> HIDE DEF f
    <2> QED BY <1>5, <2>3 DEF f, err
  <1>6. CASE ~fresh /\ ~late /\ ~LeaseExpired(r)
    <2>1. f = r
      BY <1>6 DEF Recovered
    <2>2. ~(r.status \in Waits /\ r.expires_at = "past")
      BY <1>6 DEF Waits
    <2> HIDE DEF f
    <2> QED BY <1>6, <2>1, <2>2 DEF Plain, Books, f
  <1> QED BY <1>1, <1>2, <1>3, <1>4, <1>5, <1>6

LEMMA SweptRow ==
    ASSUME NEW r \in Job, NEW s
    PROVE  LET f == Swept(r, s) IN
           /\ f \in Job /\ Plain(f, r) /\ Books(f, r)
           /\ f.cancellation_requested = r.cancellation_requested
           /\ f.expires_at = r.expires_at
           /\ f.error_retryable = (r.error_retryable /\ s # "past") \/ r.status = "queued"
           /\ \/ f.status = r.status /\ f.lease_expires_at = r.lease_expires_at
              \/ /\ r.status = "queued" /\ s \in {"absent", "past"}
                 /\ f.status = "failed" /\ f.lease_expires_at = "null"
                 /\ ~f.error_retryable
  <1> DEFINE e == IF s = "past" THEN FALSE ELSE r.error_retryable
             q == [r EXCEPT !.error_retryable = e]
             f == Swept(r, s)
  <1>1. e \in BOOLEAN
    BY DEF Job
  <1>2. f = IF q.status = "queued" /\ s \in {"absent", "past"} THEN FailedFor(q, FALSE) ELSE q
    <2>1. r = [r EXCEPT !.error_retryable = r.error_retryable]
      BY DEF Job
    <2> QED BY <2>1 DEF Swept
  <1>3. e = (r.error_retryable /\ s # "past")
    BY DEF Job
  <1> HIDE DEF e
  <1>4. q \in Job
    BY <1>1 DEF Job
  <1>5. Plain(q, r) /\ q.status = r.status /\ q.expires_at = r.expires_at
        /\ q.lease_expires_at = r.lease_expires_at
    BY DEF Job, Plain
  <1>6. /\ q.capture = r.capture /\ q.document = r.document
        /\ q.revision = r.revision /\ q.candidate = r.candidate
    BY DEF Job
  <1>7. q.created_document = r.created_document
    BY DEF Job
  <1>8. q.error_retryable = e
    BY DEF Job
  <1>9. q.cancellation_requested = r.cancellation_requested
    BY DEF Job
  <1>10. Books(q, r)
    BY <1>6, <1>7 DEF Books
  <1> HIDE DEF q, f
  <1>11. CASE ~(q.status = "queued" /\ s \in {"absent", "past"})
    <2>1. f = q
      BY <1>2, <1>11
    <2>2. f.error_retryable = (r.error_retryable /\ s # "past")
      BY <1>3, <1>8, <2>1
    <2> QED BY <1>4, <1>5, <1>9, <1>10, <2>1, <2>2 DEF f
  <1>12. CASE q.status = "queued" /\ s \in {"absent", "past"}
    <2>1. f = FailedFor(q, FALSE)
      BY <1>2, <1>12
    <2>2. /\ f \in Job /\ Plain(f, q) /\ Books(f, q)
          /\ f.status = "failed" /\ f.expires_at = q.expires_at
          /\ f.lease_expires_at = "null" /\ f.error_retryable = FALSE
          /\ f.cancellation_requested = q.cancellation_requested
      BY <1>4, <2>1, FailedForRow
    <2>3. Plain(f, r) /\ Books(f, r)
      BY <1>5, <1>10, <2>2 DEF Plain, Books
    <2> QED BY <1>5, <1>9, <1>12, <2>2, <2>3 DEF f
  <1> QED BY <1>11, <1>12

\* What a step that is not the job's own may do to its progress: it takes no live
\* lease, starts nothing and turns no cancellation into anything else.
Follows(f, r) ==
    /\ f.kind = r.kind /\ f.choice = r.choice
    /\ f.cancellation_requested = r.cancellation_requested
    /\ r.status \notin Early => f.status \notin Early
    /\ f.status \in {"absent", "awaiting_choice"} => r.status = f.status
    /\ Live(f) <=> Live(r)
    /\ f.status \in Waiting \cup {"running"} => r.status \in Waiting \cup {"running"}
    /\ r.status = "running" /\ r.cancellation_requested
           => f.status \in {"running", "cancelled"}
    /\ r.status = "cancelled" => f.status = "cancelled"

Sources == {"absent", "kept", "future", "past"}

LEMMA ControlKept ==
    ASSUME NEW f, NEW r, Control(f, r), NEW s, NEW st, NEW n
    PROVE  /\ JobOK(r, s, st, n) => JobOK(f, s, st, n)
           /\ f.status = r.status
  BY DEF Control, Plain, JobOK, RowOK, Kept, Staged, Counted, RunOf

LEMMA ControlFollows ==
    ASSUME NEW f, NEW r, Control(f, r)
    PROVE  Follows(f, r)
  BY DEF Control, Plain, Follows, Live

LEMMA FollowsTransitive ==
    ASSUME NEW f, NEW g, NEW r, Follows(f, g), Follows(g, r)
    PROVE  Follows(f, r)
  BY DEF Follows, Live

LEMMA RecoveredOK ==
    ASSUME NEW r \in Job, NEW q \in Job, Control(q, r), NEW s \in Sources,
           NEW st, NEW n, JobOK(r, s, st, n), NEW s2, NEW st2,
           s2 = SourceRecovered(r, s),
           st2 = IF r.status = "awaiting_card_choice" /\ r.expires_at = "past"
                 THEN None ELSE st
    PROVE  LET f == Recovered(q, s) IN
           /\ f \in Job /\ Plain(f, r) /\ Books(f, q) /\ s2 \in Sources
           /\ JobOK(f, s2, st2, n) /\ Follows(f, r)
  <1> DEFINE f == Recovered(q, s)
             g == Recovered(r, s)
  <1>1. /\ f \in Job /\ Plain(f, q) /\ Books(f, q)
        /\ f.cancellation_requested = q.cancellation_requested
        /\ \/ f = q /\ ~LeaseExpired(q) /\ ~(q.status \in Waits /\ q.expires_at = "past")
           \/ /\ \/ q.status \in {"awaiting_upload", "awaiting_choice"}
                    /\ q.expires_at = "past"
                 \/ LeaseExpired(q) /\ q.cancellation_requested
              /\ f.status = "cancelled" /\ f.expires_at = "null"
              /\ f.lease_expires_at = "null" /\ ~f.error_retryable
           \/ /\ q.status = "awaiting_card_choice" /\ q.expires_at = "past"
              /\ f.status = "failed" /\ f.expires_at = "null"
              /\ f.lease_expires_at = "null" /\ ~f.error_retryable
           \/ /\ LeaseExpired(q) /\ ~q.cancellation_requested
              /\ MayRequeue(q) /\ s # "absent"
              /\ f.status = "queued" /\ f.expires_at = q.expires_at
              /\ f.lease_expires_at = "null"
           \/ /\ LeaseExpired(q) /\ ~q.cancellation_requested
              /\ f.status = "failed" /\ f.expires_at = q.expires_at
              /\ f.lease_expires_at = "null" /\ f.error_retryable = (s # "absent")
    BY RecoveredRow
  <1>2. /\ \/ g = r /\ ~LeaseExpired(r) /\ ~(r.status \in Waits /\ r.expires_at = "past")
           \/ /\ \/ r.status \in {"awaiting_upload", "awaiting_choice"}
                    /\ r.expires_at = "past"
                 \/ LeaseExpired(r) /\ r.cancellation_requested
              /\ g.status = "cancelled"
           \/ /\ r.status = "awaiting_card_choice" /\ r.expires_at = "past"
              /\ g.status = "failed"
           \/ /\ LeaseExpired(r) /\ ~r.cancellation_requested
              /\ MayRequeue(r) /\ s # "absent" /\ g.status = "queued"
           \/ /\ LeaseExpired(r) /\ ~r.cancellation_requested
              /\ g.status = "failed" /\ g.error_retryable = (s # "absent")
    BY RecoveredRow
  <1>3. s2 = IF g = r \/ s = "absent" THEN s
             ELSE IF g.status = "queued" THEN s
             ELSE IF g.status = "failed" /\ r.status = "running" THEN "future"
             ELSE "absent"
    BY DEF SourceRecovered
  <1> HIDE DEF f
  <1>4. Plain(f, r)
    BY <1>1 DEF Control, Plain
  <1>5. s2 \in Sources
    BY <1>3 DEF Sources
  <1>6. CASE ~LeaseExpired(r) /\ ~(r.status \in Waits /\ r.expires_at = "past")
    <2>1. f = q
      BY <1>1, <1>6 DEF Control, LeaseExpired, Waits
    <2> HIDE DEF g
    <2>2. g = r
      BY <1>2, <1>6 DEF Waits
    <2>3. s2 = s /\ st2 = st
      BY <1>3, <1>6, <2>2 DEF Waits
    <2> QED BY <1>1, <1>4, <1>5, <2>1, <2>3, ControlKept, ControlFollows DEF f
  <1>7. CASE r.status \in {"awaiting_upload", "awaiting_choice"} /\ r.expires_at = "past"
    <2>1. f.status = "cancelled" /\ f.expires_at = "null"
          /\ f.lease_expires_at = "null" /\ ~f.error_retryable
      BY <1>1, <1>7 DEF Control, LeaseExpired, Waits
    <2>2. g.status = "cancelled" /\ g # r
      BY <1>2, <1>7 DEF LeaseExpired, Waits
    <2> HIDE DEF g
    <2>3. s2 = "absent" /\ st2 = st
      BY <1>3, <1>7, <2>2
    <2>4. JobOK(f, s2, st2, n)
      BY <1>4, <1>7, <2>1, <2>3 DEF JobOK, RowOK, Kept, Staged, Counted, RunOf, Plain,
         Early, Uploaded, Waits
    <2>5. Follows(f, r)
      BY <1>1, <1>4, <1>7, <2>1 DEF Follows, Plain, Control, Live, Early, Waiting
    <2> QED BY <1>1, <1>4, <1>5, <2>4, <2>5 DEF f
  <1>8. CASE r.status = "awaiting_card_choice" /\ r.expires_at = "past"
    <2>1. f.status = "failed" /\ f.expires_at = "null"
          /\ f.lease_expires_at = "null" /\ ~f.error_retryable
      BY <1>1, <1>8 DEF Control, LeaseExpired, Waits
    <2>2. g.status = "failed" /\ g # r
      BY <1>2, <1>8 DEF LeaseExpired, Waits
    <2> HIDE DEF g
    <2>3. s2 = "absent" /\ st2 = None
      BY <1>3, <1>8, <2>2
    <2>4. JobOK(f, s2, st2, n)
      BY <1>4, <1>8, <2>1, <2>3 DEF JobOK, RowOK, Kept, Staged, Counted, RunOf, Plain,
         Early, Uploaded, Waits
    <2>5. Follows(f, r)
      BY <1>1, <1>4, <1>8, <2>1 DEF Follows, Plain, Control, Live, Early, Waiting
    <2> QED BY <1>1, <1>4, <1>5, <2>4, <2>5 DEF f
  <1>9. CASE LeaseExpired(r)
    <2>0. /\ LeaseExpired(q) /\ r.status = "running" /\ q.status = "running"
          /\ r.lease_expires_at = "past" /\ q.expires_at = r.expires_at
          /\ q.cancellation_requested = r.cancellation_requested
          /\ MayRequeue(q) <=> MayRequeue(r)
      BY <1>9 DEF Control, Plain, LeaseExpired, MayRequeue
    <2>1. s = "kept" /\ r.expires_at = "null" /\ st2 = st
      <3>1. r.expires_at = "null"
        BY <2>0 DEF JobOK, RowOK, Waits
      <3> QED BY <2>0, <3>1 DEF JobOK, Kept
    <2>2. CASE r.cancellation_requested
      <3>1. f.status = "cancelled" /\ f.expires_at = "null"
            /\ f.lease_expires_at = "null" /\ ~f.error_retryable
        BY <1>1, <2>0, <2>2 DEF Waits
      <3>2. g.status = "cancelled" /\ g # r
        BY <1>2, <2>0, <2>2, <1>9 DEF Waits
      <3> HIDE DEF g
      <3>3. s2 = "absent"
        BY <1>3, <3>2
      <3>4. JobOK(f, s2, st2, n)
        BY <1>4, <2>0, <2>1, <3>1, <3>3 DEF JobOK, RowOK, Kept, Staged, Counted, RunOf,
           Plain, Early, Uploaded, Waits
      <3>5. Follows(f, r)
        BY <1>1, <1>4, <2>0, <3>1 DEF Follows, Plain, Live, Early, Waiting
      <3> QED BY <1>1, <1>4, <1>5, <3>4, <3>5 DEF f
    <2>3. CASE ~r.cancellation_requested /\ f.status = "queued"
      <3>1. MayRequeue(r) /\ f.expires_at = "null" /\ f.lease_expires_at = "null"
        BY <1>1, <2>0, <2>1, <2>3 DEF Waits
      <3>2. s2 = "kept"
        <4>1. MayRequeue(r) /\ s # "absent"
          BY <2>1, <3>1
        <4>2. g = RetryWait(r)
          BY <1>9, <2>0, <2>3, <4>1 DEF Recovered, LeaseExpired
        <4>3. g.status = "queued"
          BY <4>2, RetryWaitRow, ZenonT(60)
        <4> HIDE DEF g
        <4> QED BY <1>3, <2>1, <4>3
      <3>4. JobOK(f, s2, st2, n)
        BY <1>4, <2>0, <2>1, <2>3, <3>1, <3>2 DEF JobOK, RowOK, Kept, Staged, Counted, RunOf,
           Plain, Early, Uploaded, Waits, MayRequeue
      <3>5. Follows(f, r)
        BY <1>1, <1>4, <2>0, <2>3, <3>1 DEF Follows, Plain, Live, Early, Waiting
      <3> QED BY <1>1, <1>4, <1>5, <3>4, <3>5 DEF f
    <2>4. CASE ~r.cancellation_requested /\ f.status # "queued"
      <3>1. f.status = "failed" /\ f.expires_at = "null" /\ f.lease_expires_at = "null"
            /\ f.error_retryable = TRUE
        BY <1>1, <2>0, <2>1, <2>4 DEF Waits
      <3>2. s2 = "future"
        <4>1. ~MayRequeue(r)
          <5> SUFFICES ASSUME MayRequeue(r) PROVE FALSE
            OBVIOUS
          <5>1. MayRequeue(q) /\ ~q.cancellation_requested /\ s # "absent"
            BY <2>0, <2>1, <2>4
          <5>2. f = RetryWait(q)
            BY <2>0, <5>1 DEF f, Recovered, LeaseExpired
          <5>3. f.status = "queued"
            BY <5>2, RetryWaitRow
          <5> QED BY <2>4, <5>3
        <4>2. g.status = "failed" /\ g # r
          BY <1>2, <1>9, <2>0, <2>4, <4>1 DEF Waits
        <4> HIDE DEF g
        <4> QED BY <1>3, <2>0, <2>1, <4>2
      <3>4. JobOK(f, s2, st2, n)
        BY <1>4, <2>0, <2>1, <2>4, <3>1, <3>2 DEF JobOK, RowOK, Kept, Staged, Counted, RunOf,
           Plain, Early, Uploaded, Waits
      <3>5. Follows(f, r)
        BY <1>1, <1>4, <2>0, <2>4, <3>1 DEF Follows, Plain, Live, Early, Waiting
      <3> QED BY <1>1, <1>4, <1>5, <3>4, <3>5 DEF f
    <2> QED BY <2>2, <2>3, <2>4
  <1> QED BY <1>6, <1>7, <1>8, <1>9 DEF Waits

LEMMA SweptOK ==
    ASSUME NEW r \in Job, NEW s \in Sources, NEW st, NEW n, JobOK(r, s, st, n),
           NEW s2, s2 = IF s = "past" THEN "absent" ELSE s
    PROVE  LET f == Swept(r, s) IN
           /\ f \in Job /\ Plain(f, r) /\ Books(f, r) /\ s2 \in Sources
           /\ JobOK(f, s2, st, n) /\ Follows(f, r)
  <1> DEFINE f == Swept(r, s)
  <1>1. /\ f \in Job /\ Plain(f, r) /\ Books(f, r)
        /\ f.cancellation_requested = r.cancellation_requested
        /\ f.expires_at = r.expires_at
        /\ f.error_retryable = (r.error_retryable /\ s # "past") \/ r.status = "queued"
        /\ \/ f.status = r.status /\ f.lease_expires_at = r.lease_expires_at
           \/ r.status = "queued" /\ s \in {"absent", "past"}
    BY SweptRow
  <1> HIDE DEF f
  <1>2. f.status = r.status /\ f.lease_expires_at = r.lease_expires_at
    BY <1>1 DEF JobOK, Kept
  <1>3. r.status = "failed" => (s2 # "absent" <=> f.error_retryable)
    BY <1>1 DEF JobOK, Kept
  <1>4. JobOK(f, s2, st, n)
    BY <1>1, <1>2, <1>3 DEF JobOK, RowOK, Kept, Staged, Counted, RunOf, Plain
  <1>5. Follows(f, r)
    BY <1>1, <1>2 DEF Follows, Plain, Live
  <1>6. s2 \in Sources
    BY DEF Sources
  <1> QED BY <1>1, <1>4, <1>5, <1>6 DEF f

-----------------------------------------------------------------------------
(* Steps of one job.                                                       *)

\* Whoever works on a job may rely on its kind and its choice.
Keeps(f, r) ==
    r.status \notin Early =>
        f.status \notin Early /\ f.kind = r.kind /\ f.choice = r.choice

LEMMA BooksKept ==
    ASSUME NEW f, NEW r, Books(f, r), NEW j
    PROVE  /\ Wrote(r, j) => Wrote(f, j)
           /\ BookOK(r) /\ f.choice = r.choice
              /\ f.status \notin {"absent", "awaiting_choice"} => BookOK(f)
  BY DEF Books, Wrote, BookOK, CapturedRevision

\* One row changes, with what is kept for its job; Knowledge stays.
LEMMA OneJob ==
    ASSUME IInv, NEW j \in Jobs, NEW f \in Job, job' = [job EXCEPT ![j] = f],
           source' \in [Jobs -> Sources], staged' \in [Jobs -> Run \cup {None}],
           sets' \in [Jobs -> Nat], rev' = rev,
           \A k \in Jobs : k # j => /\ source'[k] = source[k] /\ staged'[k] = staged[k]
                                    /\ sets'[k] = sets[k],
           JobOK(f, source'[j], staged'[j], sets'[j]), BookOK(f), Wrote(f, j)
    PROVE  /\ job' \in [Jobs -> Job] /\ rev' \in [Authors -> Revision \cup {NoRevision}]
           /\ JobsOK' /\ BooksOK'
  <1>1. job \in [Jobs -> Job] /\ rev \in [Authors -> Revision \cup {NoRevision}]
    BY DEF IInv, Types
  <1>2. job' \in [Jobs -> Job] /\ job'[j] = f /\ \A k \in Jobs : k # j => job'[k] = job[k]
    BY <1>1
  <1>3. JobsOK'
    <2> SUFFICES ASSUME NEW k \in Jobs
                 PROVE  JobOK(job'[k], source'[k], staged'[k], sets'[k])
      BY DEF JobsOK
    <2>1. CASE k = j
      BY <1>2, <2>1
    <2>2. CASE k # j
      BY <1>2, <2>2 DEF IInv, JobsOK
    <2> QED BY <2>1, <2>2
  <1>4. Founded'
    BY DEF IInv, BooksOK, Founded
  <1>5. ASSUME NEW k \in Jobs PROVE (BookOK(job[k]) /\ Wrote(job[k], k))'
    <2>1. CASE k = j
      <3>2. (BookOK(job[k]))'
        BY <1>2, <2>1 DEF BookOK, CapturedRevision
      <3>3. (Wrote(job[k], k))'
        BY <1>2, <2>1 DEF Wrote
      <3> QED BY <3>2, <3>3
    <2>2. CASE k # j
      <3>1. BookOK(job[k]) /\ Wrote(job[k], k) /\ job'[k] = job[k]
        BY <1>2, <2>2 DEF IInv, BooksOK
      <3>2. (BookOK(job[k]))'
        BY <3>1 DEF BookOK, CapturedRevision
      <3>3. (Wrote(job[k], k))'
        BY <3>1 DEF Wrote
      <3> QED BY <3>2, <3>3
    <2> QED BY <2>1, <2>2
  <1> QED BY <1>1, <1>2, <1>3, <1>4, <1>5 DEF BooksOK

\* The coroutines look on while rows are written.
LEMMA TasksLookOn ==
    ASSUME Types, TasksKnow, job' \in [Jobs -> Job], task' = task,
           \A k \in Jobs : Keeps(job'[k], job[k])
    PROVE  TasksKnow'
  <1> SUFFICES ASSUME NEW t \in Tasks
               PROVE  Knows(task[t].pc, job'[task[t].job])
    BY DEF TasksKnow
  <1>1. CASE task[t].pc = "idle"
    BY <1>1 DEF Knows
  <1>2. CASE task[t].pc # "idle"
    <2>1. task[t].job \in Jobs /\ Knows(task[t].pc, job[task[t].job])
      BY <1>2 DEF Types, TasksKnow
    <2>2. Keeps(job'[task[t].job], job[task[t].job])
      BY <2>1
    <2> QED BY <1>2, <2>1, <2>2 DEF Knows, Keeps
  <1> QED BY <1>1, <1>2

\* One coroutine moves on, and rows may be written.
LEMMA OneTask ==
    ASSUME Types, TasksKnow, job' \in [Jobs -> Job], NEW t \in Tasks, NEW e \in Task,
           task' = [task EXCEPT ![t] = e], e.pc # "idle" => e.job \in Jobs,
           Knows(e.pc, job'[e.job]),
           \A k \in Jobs : Keeps(job'[k], job[k])
    PROVE  /\ TasksKnow' /\ task' \in [Tasks -> Task]
           /\ \A u \in Tasks : task'[u].pc # "idle" => task'[u].job \in Jobs
  <1>1. /\ task' \in [Tasks -> Task] /\ task'[t] = e
        /\ \A u \in Tasks : u # t => task'[u] = task[u]
    BY DEF Types
  <1>2. \A u \in Tasks : task'[u].pc # "idle" => task'[u].job \in Jobs
    BY <1>1 DEF Types
  <1>3. ASSUME NEW u \in Tasks PROVE Knows(task'[u].pc, job'[task'[u].job])
    <2>1. CASE u = t
      BY <1>1, <2>1
    <2>2. CASE u # t /\ task[u].pc = "idle"
      BY <1>1, <2>2 DEF Knows
    <2>3. CASE u # t /\ task[u].pc # "idle"
      <3>1. task[u].job \in Jobs /\ Knows(task[u].pc, job[task[u].job]) /\ task'[u] = task[u]
        BY <1>1, <2>3 DEF Types, TasksKnow
      <3>2. Keeps(job'[task[u].job], job[task[u].job])
        BY <3>1
      <3> QED BY <2>3, <3>1, <3>2 DEF Knows, Keeps
    <2> QED BY <2>1, <2>2, <2>3
  <1> QED BY <1>1, <1>2, <1>3 DEF TasksKnow

LEMMA JobFacts ==
    ASSUME IInv, NEW j \in Jobs
    PROVE  /\ job[j] \in Job /\ source[j] \in Sources /\ staged[j] \in Run \cup {None}
           /\ sets[j] \in Nat
           /\ RowOK(job[j]) /\ Kept(job[j], source[j]) /\ Staged(job[j], staged[j])
           /\ Counted(job[j], sets[j]) /\ BookOK(job[j]) /\ Wrote(job[j], j)
  BY DEF IInv, Types, JobsOK, JobOK, BooksOK, Sources

\* What the theorems on steps ask of a job. A live lease ends only with the slot
\* that holds it.
Heeds(k) ==
    job[k].status = "running" /\ job[k].cancellation_requested =>
        job'[k].status \in {"running", "cancelled"} /\ sets'[k] = sets[k]

Respects(k) ==
    Live(job[k]) /\ job'[k].status # "running" =>
        \E t \in Tasks : /\ task[t].job = k /\ task[t].run = RunOf(job[k])
                         /\ task[t].pc # "idle" /\ task'[t] = Idle

\* The job does not come to hold a place it did not hold before.
Enters(k) ==
    \/ Live(job'[k]) /\ ~Live(job[k])
    \/ /\ job'[k].status \in Waiting \cup {"running"}
       /\ ~(job[k].status \in Waiting \cup {"running"} /\ job'[k].kind = job[k].kind)

Orderly == IInv' /\ \A k \in Jobs : Heeds(k) /\ Respects(k) /\ ~Enters(k)

\* A row is written and no coroutine moves.
LEMMA RowStep ==
    ASSUME IInv, NEW j \in Jobs, NEW f \in Job, job' = [job EXCEPT ![j] = f],
           source' \in [Jobs -> Sources], staged' \in [Jobs -> Run \cup {None}],
           sets' \in [Jobs -> Nat], rev' = rev, task' = task,
           \A k \in Jobs : k # j => /\ source'[k] = source[k] /\ staged'[k] = staged[k]
                                    /\ sets'[k] = sets[k],
           JobOK(f, source'[j], staged'[j], sets'[j]), BookOK(f), Wrote(f, j),
           Keeps(f, job[j])
    PROVE  /\ IInv' /\ job'[j] = f
           /\ \A k \in Jobs : k # j => Heeds(k) /\ Respects(k) /\ ~Enters(k)
  <1>1. /\ job' \in [Jobs -> Job] /\ rev' \in [Authors -> Revision \cup {NoRevision}]
        /\ JobsOK' /\ BooksOK'
    BY OneJob
  <1>2. job \in [Jobs -> Job]
    BY DEF IInv, Types
  <1>3. job'[j] = f /\ \A k \in Jobs : k # j => job'[k] = job[k]
    BY <1>2
  <1>4. \A k \in Jobs : Keeps(job'[k], job[k])
    BY <1>3 DEF Keeps
  <1>5. TasksKnow'
    BY <1>1, <1>4, TasksLookOn DEF IInv
  <1>6. Types'
    BY <1>1 DEF IInv, Types, Sources
  <1>7. ASSUME NEW k \in Jobs, k # j PROVE Heeds(k) /\ Respects(k) /\ ~Enters(k)
    <2>1. job'[k] = job[k] /\ sets'[k] = sets[k]
      BY <1>3, <1>7
    <2>2. Heeds(k)
      BY <2>1 DEF Heeds
    <2>3. Respects(k)
      BY <2>1 DEF Respects, Live
    <2>4. ~Enters(k)
      BY <2>1 DEF Enters
    <2> QED BY <2>2, <2>3, <2>4
  <1> QED BY <1>1, <1>3, <1>5, <1>6, <1>7 DEF IInv

\* A row is written by a coroutine that moves on.
LEMMA TaskStep ==
    ASSUME IInv, NEW j \in Jobs, NEW f \in Job, job' = [job EXCEPT ![j] = f],
           source' \in [Jobs -> Sources], staged' \in [Jobs -> Run \cup {None}],
           sets' \in [Jobs -> Nat], rev' = rev,
           NEW t \in Tasks, NEW e \in Task, task' = [task EXCEPT ![t] = e],
           e.pc # "idle" => e.job = j /\ Knows(e.pc, f),
           \A k \in Jobs : k # j => /\ source'[k] = source[k] /\ staged'[k] = staged[k]
                                    /\ sets'[k] = sets[k],
           JobOK(f, source'[j], staged'[j], sets'[j]), BookOK(f), Wrote(f, j),
           Keeps(f, job[j])
    PROVE  /\ IInv' /\ job'[j] = f /\ task'[t] = e
           /\ \A k \in Jobs : k # j => Heeds(k) /\ Respects(k) /\ ~Enters(k)
  <1>1. /\ job' \in [Jobs -> Job] /\ rev' \in [Authors -> Revision \cup {NoRevision}]
        /\ JobsOK' /\ BooksOK'
    BY OneJob
  <1>2. job \in [Jobs -> Job] /\ task \in [Tasks -> Task]
    BY DEF IInv, Types
  <1>3. job'[j] = f /\ \A k \in Jobs : k # j => job'[k] = job[k]
    BY <1>2
  <1>4. \A k \in Jobs : Keeps(job'[k], job[k])
    BY <1>3 DEF Keeps
  <1>5. Knows(e.pc, job'[e.job])
    BY <1>3 DEF Knows
  <1>6. /\ TasksKnow' /\ task' \in [Tasks -> Task]
        /\ \A u \in Tasks : task'[u].pc # "idle" => task'[u].job \in Jobs
    BY <1>1, <1>4, <1>5, OneTask DEF IInv
  <1>7. Types'
    BY <1>1, <1>6 DEF IInv, Types, Sources
  <1>8. ASSUME NEW k \in Jobs, k # j PROVE Heeds(k) /\ Respects(k) /\ ~Enters(k)
    <2>1. job'[k] = job[k] /\ sets'[k] = sets[k]
      BY <1>3, <1>8
    <2>2. Heeds(k)
      BY <2>1 DEF Heeds
    <2>3. Respects(k)
      BY <2>1 DEF Respects, Live
    <2>4. ~Enters(k)
      BY <2>1 DEF Enters
    <2> QED BY <2>2, <2>3, <2>4
  <1>9. task'[t] = e
    BY <1>2
  <1> QED BY <1>1, <1>3, <1>6, <1>7, <1>8, <1>9 DEF IInv

-----------------------------------------------------------------------------
(* The instructor.                                                         *)

LEMMA FoundedBy ==
    ASSUME IInv, NEW d \in Documents
    PROVE  d \in Authors /\ rev[d].doc = d
  <1>1. PICK c \in Authors : rev[c].doc = d
    BY DEF Documents, Revisions
  <1>2. d \in Authors /\ d # None
    BY ConstantRows DEF Documents
  <1>3. rev[c] # NoRevision
    BY <1>1, <1>2, ConstantRows
  <1> QED BY <1>1, <1>2, <1>3 DEF IInv, BooksOK, Founded

\* A reservation: nothing is kept for it yet.
LEMMA ReserveOK ==
    ASSUME IInv, NEW j \in Jobs, Reserve(j)
    PROVE  /\ IInv' /\ \A k \in Jobs : Heeds(k) /\ Respects(k)
           /\ \A k \in Jobs : k # j => ~Enters(k)
           /\ job[j].status = "absent" /\ ~Live(job'[j])
           /\ MayHold(j, job'[j].kind) /\ job'[j].kind \in Kinds
  <1>1. PICK kind \in Kinds, d \in Documents \cup {None} :
            /\ MayHold(j, kind)
            /\ job' = [job EXCEPT ![j] =
                   [Absent EXCEPT !.status = "awaiting_upload", !.kind = kind,
                                  !.capture = "pending", !.document = d,
                                  !.expires_at = "future"]]
    BY DEF Reserve
  <1>2. job[j].status = "absent" /\ UNCHANGED <<source, staged, sets, rev, task>>
    BY DEF Reserve
  <1> DEFINE f == Reservation(kind, d)
  <1>3. kind \in {"flashcards", "knowledge_only"} /\ d \in Authors \cup {None}
    BY GenerationAssumption DEF Documents
  <1>4. /\ f \in Job /\ f.kind = kind /\ f.choice = "none"
        /\ f.attempt_count = 0 /\ f.manual_retry_count = 0
        /\ f.status = "awaiting_upload" /\ f.expires_at = "future"
        /\ f.lease_expires_at = "null" /\ ~f.cancellation_requested
        /\ f.capture = "pending" /\ f.document = d /\ f.revision = None
        /\ ~f.created_document
    BY <1>3, ReservedRow
  <1>5. job' = [job EXCEPT ![j] = f]
    BY <1>1 DEF Reservation
  <1> HIDE DEF f
  <1>6. /\ job[j] \in Job /\ RowOK(job[j]) /\ Kept(job[j], source[j])
        /\ Staged(job[j], staged[j]) /\ Counted(job[j], sets[j])
    BY JobFacts
  <1>7. JobOK(f, source[j], staged[j], sets[j])
    BY <1>2, <1>4, <1>6, GenerationAssumption
    DEF JobOK, RowOK, Kept, Staged, Counted, Early, Waits, Uploaded
  <1>8. BookOK(f)
    BY <1>4 DEF BookOK, CapturedRevision
  <1>9. Wrote(f, j)
    <2>1. d # None => rev[d].doc = d
      BY <1>1, FoundedBy
    <2>2. rev[j] = NoRevision
      BY <1>2, JobFacts DEF BookOK, Wrote
    <2> QED BY <1>4, <2>1, <2>2 DEF Wrote
  <1>10. /\ IInv' /\ job'[j] = f
         /\ \A k \in Jobs : k # j => Heeds(k) /\ Respects(k) /\ ~Enters(k)
    <2>1. Keeps(f, job[j])
      BY <1>2 DEF Keeps, Early
    <2>2. /\ source' \in [Jobs -> Sources] /\ staged' \in [Jobs -> Run \cup {None}]
          /\ sets' \in [Jobs -> Nat]
      BY <1>2 DEF IInv, Types, Sources
    <2> QED BY <1>2, <1>4, <1>5, <1>7, <1>8, <1>9, <2>1, <2>2, RowStep
  <1>11. Heeds(j) /\ Respects(j)
    BY <1>2 DEF Heeds, Respects, Live
  <1> QED BY <1>1, <1>2, <1>4, <1>10, <1>11 DEF Live

\* What a step on the row of one job has to show to be orderly.
LEMMA InstructorStep ==
    ASSUME IInv, NEW j \in Jobs, NEW f \in Job, job' = [job EXCEPT ![j] = f],
           source' \in [Jobs -> Sources], staged' \in [Jobs -> Run \cup {None}],
           sets' \in [Jobs -> Nat], rev' = rev, task' = task,
           \A k \in Jobs : k # j => /\ source'[k] = source[k] /\ staged'[k] = staged[k]
                                    /\ sets'[k] = sets[k],
           JobOK(f, source'[j], staged'[j], sets'[j]), BookOK(f), Wrote(f, j),
           Keeps(f, job[j]), f.kind = job[j].kind,
           job[j].status \in Waiting, f.status # "running"
    PROVE  Orderly
  <1>1. /\ IInv' /\ job'[j] = f
        /\ \A k \in Jobs : k # j => Heeds(k) /\ Respects(k) /\ ~Enters(k)
    BY RowStep
  <1>2. Heeds(j) /\ Respects(j)
    BY DEF Heeds, Respects, Live, Waiting
  <1>3. ~Enters(j)
    BY <1>1 DEF Enters, Live, Waiting
  <1> QED BY <1>1, <1>2, <1>3 DEF Orderly

\* An upload that repeats the latest revision, or a choice of what is there.
LEMMA ContinuedOK ==
    ASSUME IInv, NEW j \in Jobs, NEW q \in Job, job' = [job EXCEPT ![j] = Continued(q)],
           job[j].status \in {"awaiting_upload", "awaiting_choice"},
           source' = [source EXCEPT ![j] = IF q.kind = "knowledge_only" THEN "absent"
                                           ELSE "kept"],
           UNCHANGED <<staged, sets, rev, task>>,
           q.kind = job[j].kind, q.file \in Files,
           q.attempt_count = 0, q.manual_retry_count = 0, ~q.cancellation_requested,
           q.lease_expires_at = "null",
           q.document \in Documents, q.revision \in Authors,
           q.capture \in {"unchanged", "reused"}, q.choice \in {"none", "reuse"},
           q.choice = "reuse" => q.capture = "reused"
    PROVE  Orderly
  <1> DEFINE f == Continued(q)
  <1>1. /\ f \in Job /\ Plain(f, q) /\ Books(f, q)
        /\ f.expires_at = "null"
        /\ f.lease_expires_at = q.lease_expires_at
        /\ f.error_retryable = q.error_retryable
        /\ f.cancellation_requested = q.cancellation_requested
        /\ \/ q.kind = "knowledge_only" /\ f.status = "completed"
           \/ q.kind # "knowledge_only" /\ f.status = "queued"
    BY ContinuedRow
  <1>0. job' = [job EXCEPT ![j] = f]
    OBVIOUS
  <1> HIDE DEF f
  <1>2. /\ job[j] \in Job /\ source[j] \in Sources /\ staged[j] \in Run \cup {None}
        /\ sets[j] \in Nat
        /\ RowOK(job[j]) /\ Kept(job[j], source[j]) /\ Staged(job[j], staged[j])
        /\ Counted(job[j], sets[j]) /\ BookOK(job[j]) /\ Wrote(job[j], j)
    BY JobFacts
  <1>3. /\ source' \in [Jobs -> Sources] /\ staged' \in [Jobs -> Run \cup {None}]
        /\ sets' \in [Jobs -> Nat]
        /\ source'[j] = (IF q.kind = "knowledge_only" THEN "absent" ELSE "kept")
        /\ \A k \in Jobs : k # j => /\ source'[k] = source[k] /\ staged'[k] = staged[k]
                                    /\ sets'[k] = sets[k]
    BY DEF IInv, Types, Sources
  <1>4. JobOK(f, source'[j], staged'[j], sets'[j])
    <2>1. RowOK(f)
      BY <1>1, GenerationAssumption DEF RowOK, Plain, Early, Waits, Uploaded
    <2>2. Kept(f, source'[j])
      BY <1>1, <1>3 DEF Kept
    <2>3. Staged(f, staged'[j])
      BY <1>1, <1>2 DEF Staged
    <2>4. Counted(f, sets'[j])
      BY <1>2 DEF Counted
    <2> QED BY <2>1, <2>2, <2>3, <2>4 DEF JobOK
  <1>5. q.document # None /\ rev[q.document].doc = q.document /\ q.revision # None
    BY FoundedBy, ConstantRows
  <1>6. BookOK(f) /\ Wrote(f, j)
    <2>1. BookOK(f)
      BY <1>1, <1>5 DEF BookOK, CapturedRevision, Plain, Books
    <2>2. Wrote(f, j)
      BY <1>1, <1>5 DEF Wrote, Books
    <2> QED BY <2>1, <2>2
  <1>7. Keeps(f, job[j]) /\ f.kind = job[j].kind /\ f.status # "running"
        /\ job[j].status \in Waiting
    BY <1>1 DEF Keeps, Early, Plain, Waiting
  <1> QED BY <1>0, <1>1, <1>3, <1>4, <1>6, <1>7, InstructorStep

\* The job goes to the queue with the Knowledge it had.
LEMMA EnqueuedOK ==
    ASSUME IInv, NEW j \in Jobs, NEW q \in Job, job' = [job EXCEPT ![j] = Enqueued(q)],
           job[j].status \in {"awaiting_upload", "awaiting_choice"},
           source' = [source EXCEPT ![j] = "kept"],
           UNCHANGED <<staged, sets, rev, task>>,
           q.kind = job[j].kind, q.file \in Files,
           q.attempt_count = 0, q.manual_retry_count = 0, ~q.cancellation_requested,
           q.lease_expires_at = "null", Books(q, job[j]), q.choice # "reuse"
    PROVE  Orderly
  <1> DEFINE f == Enqueued(q)
  <1>1. /\ f \in Job /\ Plain(f, q) /\ Books(f, q)
        /\ f.status = "queued" /\ f.expires_at = "null"
        /\ f.lease_expires_at = q.lease_expires_at
        /\ f.error_retryable = q.error_retryable
        /\ f.cancellation_requested = q.cancellation_requested
    BY EnqueuedRow
  <1>0. job' = [job EXCEPT ![j] = f]
    OBVIOUS
  <1> HIDE DEF f
  <1>2. /\ job[j] \in Job /\ source[j] \in Sources /\ staged[j] \in Run \cup {None}
        /\ sets[j] \in Nat
        /\ RowOK(job[j]) /\ Kept(job[j], source[j]) /\ Staged(job[j], staged[j])
        /\ Counted(job[j], sets[j]) /\ BookOK(job[j]) /\ Wrote(job[j], j)
    BY JobFacts
  <1>3. /\ source' \in [Jobs -> Sources] /\ staged' \in [Jobs -> Run \cup {None}]
        /\ sets' \in [Jobs -> Nat] /\ source'[j] = "kept"
        /\ \A k \in Jobs : k # j => /\ source'[k] = source[k] /\ staged'[k] = staged[k]
                                    /\ sets'[k] = sets[k]
    BY DEF IInv, Types, Sources
  <1>4. JobOK(f, source'[j], staged'[j], sets'[j])
    <2>1. RowOK(f)
      BY <1>1, GenerationAssumption DEF RowOK, Plain, Early, Waits, Uploaded
    <2>2. Kept(f, source'[j])
      BY <1>1, <1>3 DEF Kept
    <2>3. Staged(f, staged'[j])
      BY <1>1, <1>2 DEF Staged
    <2>4. Counted(f, sets'[j])
      BY <1>2 DEF Counted
    <2> QED BY <2>1, <2>2, <2>3, <2>4 DEF JobOK
  <1>5. Books(f, job[j])
    BY <1>1 DEF Books
  <1>6. BookOK(f) /\ Wrote(f, j)
    <2>1. BookOK(f)
      BY <1>1, <1>2, <1>5 DEF BookOK, CapturedRevision, Plain, Books
    <2>2. Wrote(f, j)
      BY <1>2, <1>5, BooksKept
    <2> QED BY <2>1, <2>2
  <1>7. Keeps(f, job[j]) /\ f.kind = job[j].kind /\ f.status # "running"
        /\ job[j].status \in Waiting
    BY <1>1 DEF Keeps, Early, Plain, Waiting
  <1> QED BY <1>0, <1>1, <1>3, <1>4, <1>6, <1>7, InstructorStep

LEMMA AttachSourceOK ==
    ASSUME IInv, NEW j \in Jobs, NEW f1 \in Files, AttachSource(j, f1)
    PROVE  Orderly
  <1> DEFINE r == job[j]
             q == Filed(r, f1)
             pending == q.capture = "pending"
  <1>1. /\ r \in Job /\ source[j] \in Sources /\ staged[j] \in Run \cup {None}
        /\ sets[j] \in Nat
        /\ RowOK(r) /\ Kept(r, source[j]) /\ Staged(r, staged[j])
        /\ Counted(r, sets[j]) /\ BookOK(r) /\ Wrote(r, j)
    BY JobFacts
  <1>2. /\ q \in Job /\ Books(q, r) /\ q.kind = r.kind /\ q.file = f1
        /\ q.choice = r.choice /\ q.status = r.status
        /\ q.attempt_count = r.attempt_count
        /\ q.manual_retry_count = r.manual_retry_count
        /\ q.expires_at = r.expires_at /\ q.lease_expires_at = r.lease_expires_at
        /\ q.error_retryable = r.error_retryable
        /\ q.cancellation_requested = r.cancellation_requested
    BY <1>1, FiledRow
  <1>3. /\ q.status = "awaiting_upload" /\ q.expires_at = "future"
        /\ UNCHANGED <<staged, sets, rev, task>>
        /\ \/ /\ pending /\ q.document # None
              /\ job' = [job EXCEPT ![j] =
                     Continued([q EXCEPT !.revision = Latest(q.document),
                                         !.capture = "unchanged"])]
              /\ source' = [source EXCEPT ![j] = SourceContinued(q)]
           \/ /\ pending /\ q.document = None
              /\ \E d \in Documents :
                     job' = [job EXCEPT ![j] =
                            [q EXCEPT !.status = "awaiting_choice", !.candidate = d,
                                      !.expires_at = "future"]]
              /\ source' = [source EXCEPT ![j] = "future"]
           \/ /\ job' = [job EXCEPT ![j] = Enqueued(q)]
              /\ source' = [source EXCEPT ![j] = "kept"]
    BY DEF AttachSource, Filed, Duplicates
  <1> HIDE DEF q
  <1>4. /\ r.status = "awaiting_upload" /\ r.attempt_count = 0 /\ r.manual_retry_count = 0
        /\ ~r.cancellation_requested /\ r.choice = "none" /\ r.lease_expires_at = "null"
    BY <1>1, <1>2, <1>3 DEF RowOK, Early
  <1>5. CASE /\ pending /\ q.document # None
             /\ job' = [job EXCEPT ![j] =
                    Continued([q EXCEPT !.revision = Latest(q.document),
                                        !.capture = "unchanged"])]
             /\ source' = [source EXCEPT ![j] = SourceContinued(q)]
    <2>1. q.document \in Documents
      <3>1. q.document \in Authors /\ rev[q.document].doc = q.document
        BY <1>1, <1>2, <1>5 DEF Job, Books, Wrote
      <3> QED BY <3>1 DEF Documents, Revisions
    <2>2. Latest(q.document) \in Authors
      BY <2>1, LatestOf DEF IInv, Types
    <2> DEFINE c == Latest(q.document)
               m == Matched(q, c)
    <2>3. job' = [job EXCEPT ![j] = Continued(m)]
      BY <1>5 DEF Matched
    <2> HIDE DEF c
    <2>4. /\ m \in Job /\ Plain(m, q) /\ m.status = q.status
          /\ m.expires_at = q.expires_at /\ m.lease_expires_at = q.lease_expires_at
          /\ m.revision = c /\ m.capture = "unchanged" /\ m.document = q.document
          /\ m.cancellation_requested = q.cancellation_requested
      BY <1>2, <2>2, MatchedRow DEF Control, c
    <2> HIDE DEF m
    <2>5. source' = [source EXCEPT ![j] = IF m.kind = "knowledge_only" THEN "absent"
                                           ELSE "kept"]
      BY <1>5, <2>4 DEF SourceContinued, Plain
    <2>6. /\ m.kind = job[j].kind /\ m.file \in Files /\ m.choice = "none"
          /\ m.attempt_count = 0 /\ m.manual_retry_count = 0
          /\ ~m.cancellation_requested /\ m.lease_expires_at = "null"
      BY <1>2, <1>4, <2>4 DEF Plain
    <2> QED BY <1>3, <1>4, <2>1, <2>2, <2>3, <2>4, <2>5, <2>6, ContinuedOK DEF c
  <1>6. CASE /\ pending /\ q.document = None
             /\ \E d \in Documents :
                    job' = [job EXCEPT ![j] =
                           [q EXCEPT !.status = "awaiting_choice", !.candidate = d,
                                     !.expires_at = "future"]]
             /\ source' = [source EXCEPT ![j] = "future"]
    <2>1. PICK d \in Documents :
                job' = [job EXCEPT ![j] =
                           [q EXCEPT !.status = "awaiting_choice", !.candidate = d,
                                     !.expires_at = "future"]]
      BY <1>6
    <2>2. d \in Authors
      BY DEF Documents
    <2> DEFINE f == Offered(r, f1, d)
    <2>3. [q EXCEPT !.status = "awaiting_choice", !.candidate = d, !.expires_at = "future"] = f
      BY <1>1 DEF Offered, q, Filed, Job
    <2>4. job' = [job EXCEPT ![j] = f]
      BY <2>1, <2>3
    <2>5. /\ f \in Job /\ f.kind = r.kind /\ f.file = f1 /\ f.choice = r.choice
          /\ f.attempt_count = r.attempt_count
          /\ f.manual_retry_count = r.manual_retry_count
          /\ f.status = "awaiting_choice" /\ f.expires_at = "future"
          /\ f.lease_expires_at = r.lease_expires_at
          /\ f.error_retryable = r.error_retryable
          /\ f.cancellation_requested = r.cancellation_requested
          /\ f.capture = r.capture /\ f.document = r.document
          /\ f.revision = r.revision /\ f.created_document = r.created_document
      BY <1>1, <2>2, OfferedRow
    <2> HIDE DEF f
    <2>6. /\ source' \in [Jobs -> Sources] /\ staged' \in [Jobs -> Run \cup {None}]
          /\ sets' \in [Jobs -> Nat]
          /\ \A k \in Jobs : k # j => /\ source'[k] = source[k] /\ staged'[k] = staged[k]
                                      /\ sets'[k] = sets[k]
      BY <1>3, <1>6 DEF IInv, Types, Sources
    <2>7. JobOK(f, source'[j], staged'[j], sets'[j])
      <3>1. RowOK(f)
        BY <1>4, <2>5, GenerationAssumption DEF RowOK, Early, Waits, Uploaded
      <3>2. Kept(f, source'[j])
        BY <2>5 DEF Kept
      <3>3. Staged(f, staged'[j])
        BY <1>1, <1>3, <1>4, <2>5 DEF Staged
      <3>4. Counted(f, sets'[j])
        BY <1>1, <1>3, <1>4 DEF Counted
      <3> QED BY <3>1, <3>2, <3>3, <3>4 DEF JobOK
    <2>8. BookOK(f)
      BY <1>1, <1>2, <1>4, <1>6, <2>5, ZenonT(60) DEF BookOK, Books, CapturedRevision
    <2>9. Wrote(f, j)
      BY <1>1, <2>5 DEF Wrote
    <2>10. Keeps(f, r) /\ r.status \in Waiting /\ f.status # "running"
      BY <1>4, <2>5 DEF Keeps, Early, Waiting
    <2> HIDE DEF r
    <2> QED BY <1>3, <2>4, <2>5, <2>6, <2>7, <2>8, <2>9, <2>10, InstructorStep DEF r
  <1>7. CASE job' = [job EXCEPT ![j] = Enqueued(q)] /\ source' = [source EXCEPT ![j] = "kept"]
    BY <1>2, <1>3, <1>4, <1>7, EnqueuedOK
  <1> QED BY <1>3, <1>5, <1>6, <1>7

LEMMA ReuseOK ==
    ASSUME IInv, NEW j \in Jobs, Reuse(j)
    PROVE  Orderly
  <1> DEFINE r == job[j]
             d == r.candidate
             c == Latest(d)
             q == Settled(r, d, c, "reused", "reuse")
  <1>1. r \in Job /\ RowOK(r)
    BY JobFacts
  <1>2. /\ r.status = "awaiting_choice" /\ d \in Documents
        /\ job' = [job EXCEPT ![j] =
               Continued([job[j] EXCEPT !.document = d, !.revision = c,
                                        !.capture = "reused", !.choice = "reuse"])]
        /\ source' = [source EXCEPT ![j] = SourceContinued(job[j])]
        /\ UNCHANGED <<staged, sets, rev, task>>
    BY DEF Reuse
  <1>3. job' = [job EXCEPT ![j] = Continued(q)]
    BY <1>2 DEF Settled
  <1>4. d \in Authors /\ c \in Authors
    BY <1>2, FoundedBy, LatestOf DEF IInv, Types
  <1>5. "reused" \in Capture
    BY DEF Capture
  <1> HIDE DEF c, d
  <1>6. /\ q \in Job /\ q.kind = r.kind /\ q.file = r.file /\ q.choice = "reuse"
        /\ q.attempt_count = r.attempt_count
        /\ q.manual_retry_count = r.manual_retry_count
        /\ q.status = r.status /\ q.expires_at = r.expires_at
        /\ q.lease_expires_at = r.lease_expires_at
        /\ q.error_retryable = r.error_retryable
        /\ q.cancellation_requested = r.cancellation_requested
        /\ q.capture = "reused" /\ q.document = d /\ q.revision = c
    BY <1>1, <1>4, <1>5, SettledRow, SMTT(30)
  <1>7. /\ r.attempt_count = 0 /\ r.manual_retry_count = 0
        /\ ~r.cancellation_requested /\ r.lease_expires_at = "null" /\ r.file \in Files
    BY <1>1, <1>2 DEF RowOK, Early, Uploaded
  <1> HIDE DEF q
  <1>8. source' = [source EXCEPT ![j] = IF q.kind = "knowledge_only" THEN "absent"
                                         ELSE "kept"]
    BY <1>2, <1>6 DEF SourceContinued
  <1> HIDE DEF r
  <1>9. /\ job[j].status \in {"awaiting_upload", "awaiting_choice"}
        /\ q.kind = job[j].kind /\ q.file \in Files
        /\ q.attempt_count = 0 /\ q.manual_retry_count = 0
        /\ q.lease_expires_at = "null" /\ q.document \in Documents
        /\ q.revision \in Authors /\ q.capture \in {"unchanged", "reused"}
        /\ q.choice \in {"none", "reuse"}
        /\ (q.choice = "reuse" => q.capture = "reused")
    BY <1>2, <1>4, <1>6, <1>7 DEF r
  <1>10. ~q.cancellation_requested
    BY <1>6, <1>7
  <1>11. q \in Job
    BY <1>6
  <1> QED BY <1>2, <1>3, <1>8, <1>9, <1>10, <1>11, ContinuedOK

LEMMA SeparateCopyOK ==
    ASSUME IInv, NEW j \in Jobs, SeparateCopy(j)
    PROVE  Orderly
  <1> DEFINE r == job[j]
             q == Copied(r)
  <1>1. r \in Job /\ RowOK(r)
    BY JobFacts
  <1>2. /\ r.status = "awaiting_choice"
        /\ job' = [job EXCEPT ![j] = Enqueued([job[j] EXCEPT !.choice = "separate_copy"])]
        /\ source' = [source EXCEPT ![j] = "kept"]
        /\ UNCHANGED <<staged, sets, rev, task>>
    BY DEF SeparateCopy
  <1>3. job' = [job EXCEPT ![j] = Enqueued(q)]
    BY <1>2 DEF Copied
  <1>4. /\ q \in Job /\ Books(q, r) /\ q.kind = r.kind /\ q.file = r.file
        /\ q.choice = "separate_copy" /\ q.attempt_count = r.attempt_count
        /\ q.manual_retry_count = r.manual_retry_count
        /\ q.lease_expires_at = r.lease_expires_at
        /\ q.cancellation_requested = r.cancellation_requested
    BY <1>1, CopiedRow
  <1>5. /\ r.attempt_count = 0 /\ r.manual_retry_count = 0
        /\ ~r.cancellation_requested /\ r.lease_expires_at = "null" /\ r.file \in Files
    BY <1>1, <1>2 DEF RowOK, Early, Uploaded
  <1> HIDE DEF q
  <1> QED BY <1>2, <1>3, <1>4, <1>5, EnqueuedOK

LEMMA SubmitCardChoiceOK ==
    ASSUME IInv, NEW j \in Jobs, SubmitCardChoice(j)
    PROVE  Orderly
  <1> DEFINE r == job[j]
             f == Accepted(r)
  <1>1. /\ r \in Job /\ source[j] \in Sources /\ staged[j] \in Run \cup {None}
        /\ sets[j] \in Nat
        /\ RowOK(r) /\ Kept(r, source[j]) /\ Staged(r, staged[j])
        /\ Counted(r, sets[j]) /\ BookOK(r) /\ Wrote(r, j)
    BY JobFacts
  <1>2. /\ r.status = "awaiting_card_choice"
        /\ sets' = [sets EXCEPT ![j] = sets[j] + 1]
        /\ staged' = [staged EXCEPT ![j] = None]
        /\ source' = [source EXCEPT ![j] = "absent"]
        /\ rev' = rev /\ task' = task
    BY DEF SubmitCardChoice
  <1>3. job' = [job EXCEPT ![j] = f]
    BY DEF SubmitCardChoice, Accepted, IInv, Types
  <1>4. /\ f \in Job /\ Plain(f, r) /\ Books(f, r) /\ f.status = "completed"
        /\ f.expires_at = "null" /\ f.lease_expires_at = r.lease_expires_at
        /\ f.cancellation_requested = r.cancellation_requested
    BY <1>1, AcceptedRow
  <1> HIDE DEF f
  <1>5. /\ source' \in [Jobs -> Sources] /\ staged' \in [Jobs -> Run \cup {None}]
        /\ sets' \in [Jobs -> Nat] /\ source'[j] = "absent" /\ staged'[j] = None
        /\ sets'[j] = sets[j] + 1
        /\ \A k \in Jobs : k # j => /\ source'[k] = source[k] /\ staged'[k] = staged[k]
                                    /\ sets'[k] = sets[k]
    BY <1>2 DEF IInv, Types, Sources
  <1>6. JobOK(f, source'[j], staged'[j], sets'[j])
    <2>1. RowOK(f)
      BY <1>1, <1>2, <1>4 DEF RowOK, Plain, Early, Waits, Uploaded
    <2>2. Kept(f, source'[j])
      BY <1>4, <1>5 DEF Kept
    <2>3. Staged(f, staged'[j])
      BY <1>4, <1>5 DEF Staged
    <2>4. Counted(f, sets'[j])
      BY <1>1, <1>2, <1>4, <1>5 DEF Counted, RowOK, Plain
    <2> QED BY <2>1, <2>2, <2>3, <2>4 DEF JobOK
  <1>7. BookOK(f) /\ Wrote(f, j)
    BY <1>1, <1>4, BooksKept DEF Plain
  <1>8. Keeps(f, r) /\ r.status \in Waiting /\ f.status # "running" /\ f.kind = r.kind
    BY <1>2, <1>4 DEF Keeps, Early, Waiting, Plain
  <1> HIDE DEF r
  <1> QED BY <1>2, <1>3, <1>4, <1>5, <1>6, <1>7, <1>8, InstructorStep DEF r

LEMMA CancelRunningOK ==
    ASSUME IInv, NEW j \in Jobs, CancelRunning(j)
    PROVE  Orderly
  <1> DEFINE r == job[j]
             f == Requested(r)
  <1>1. /\ r \in Job /\ RowOK(r) /\ Kept(r, source[j]) /\ Staged(r, staged[j])
        /\ Counted(r, sets[j]) /\ BookOK(r) /\ Wrote(r, j)
    BY JobFacts
  <1>2. /\ r.status = "running" /\ ~r.cancellation_requested
        /\ UNCHANGED <<source, staged, sets, rev, task>>
    BY DEF CancelRunning
  <1>3. job' = [job EXCEPT ![j] = f]
    BY DEF CancelRunning, Requested, IInv, Types
  <1>4. /\ f \in Job /\ Plain(f, r) /\ Books(f, r) /\ f.status = r.status
        /\ f.expires_at = r.expires_at /\ f.lease_expires_at = r.lease_expires_at
        /\ f.error_retryable = r.error_retryable
    BY <1>1, RequestedRow
  <1> HIDE DEF f
  <1>5. /\ source' \in [Jobs -> Sources] /\ staged' \in [Jobs -> Run \cup {None}]
        /\ sets' \in [Jobs -> Nat]
    BY <1>2 DEF IInv, Types, Sources
  <1>6. JobOK(f, source'[j], staged'[j], sets'[j])
    BY <1>1, <1>2, <1>4 DEF JobOK, RowOK, Plain, Early, Kept, Staged, RunOf, Counted
  <1>7. BookOK(f) /\ Wrote(f, j)
    BY <1>1, <1>2, <1>4, BooksKept DEF Plain
  <1>8. Keeps(f, r)
    BY <1>4 DEF Keeps, Plain
  <1> HIDE DEF r
  <1>9. /\ IInv' /\ job'[j] = f
        /\ \A k \in Jobs : k # j => Heeds(k) /\ Respects(k) /\ ~Enters(k)
    BY <1>2, <1>3, <1>4, <1>5, <1>6, <1>7, <1>8, RowStep DEF r
  <1>10. Heeds(j) /\ Respects(j) /\ ~Enters(j)
    BY <1>2, <1>4, <1>9 DEF Heeds, Respects, Enters, Live, Plain, r
  <1> QED BY <1>9, <1>10 DEF Orderly

\* A manual retry enters the queue again.
LEMMA RetryOK ==
    ASSUME IInv, NEW j \in Jobs, Retry(j)
    PROVE  /\ IInv' /\ \A k \in Jobs : Heeds(k) /\ Respects(k)
           /\ \A k \in Jobs : k # j => ~Enters(k)
           /\ ~Live(job'[j]) /\ MayHold(j, job[j].kind) /\ job'[j].kind = job[j].kind
  <1> DEFINE r == job[j]
             f == Requeued(r)
  <1>1. /\ r \in Job /\ source[j] \in Sources /\ staged[j] \in Run \cup {None}
        /\ sets[j] \in Nat
        /\ RowOK(r) /\ Kept(r, source[j]) /\ Staged(r, staged[j])
        /\ Counted(r, sets[j]) /\ BookOK(r) /\ Wrote(r, j)
    BY JobFacts
  <1>2. /\ r.status \in {"failed", "awaiting_card_choice"}
        /\ r.manual_retry_count < MaxManualRetries
        /\ MayHold(j, r.kind) /\ job' = [job EXCEPT ![j] = f]
        /\ source' = [source EXCEPT ![j] = "kept"]
        /\ staged' = [staged EXCEPT ![j] = None]
        /\ sets' = sets /\ rev' = rev /\ task' = task
    BY DEF Retry, Retryable
  <1>3. /\ f \in Job /\ Books(f, r)
        /\ f.kind = r.kind /\ f.file = r.file /\ f.choice = r.choice
        /\ f.status = "queued" /\ f.expires_at = "null" /\ f.attempt_count = 0
        /\ f.manual_retry_count = r.manual_retry_count + 1
        /\ f.lease_expires_at = "null" /\ f.cancellation_requested = FALSE
    BY <1>1, RequeuedRow
  <1> HIDE DEF f
  <1>4. /\ source' \in [Jobs -> Sources] /\ staged' \in [Jobs -> Run \cup {None}]
        /\ sets' \in [Jobs -> Nat] /\ source'[j] = "kept" /\ staged'[j] = None
        /\ \A k \in Jobs : k # j => /\ source'[k] = source[k] /\ staged'[k] = staged[k]
                                    /\ sets'[k] = sets[k]
    BY <1>2 DEF IInv, Types, Sources
  <1>5. JobOK(f, source'[j], staged'[j], sets'[j])
    <2>1. RowOK(f)
      <3>1. r.manual_retry_count \in Nat /\ MaxManualRetries \in Nat
            /\ MaxAttempts \in Nat \ {0}
        BY <1>1, GenerationAssumption DEF Job
      <3> QED BY <1>1, <1>2, <1>3, <3>1 DEF RowOK, Early, Waits, Uploaded
    <2>2. Kept(f, source'[j])
      BY <1>3, <1>4 DEF Kept
    <2>3. Staged(f, staged'[j])
      BY <1>3, <1>4 DEF Staged
    <2>4. Counted(f, sets'[j])
      BY <1>1, <1>2 DEF Counted
    <2> QED BY <2>1, <2>2, <2>3, <2>4 DEF JobOK
  <1>6. BookOK(f) /\ Wrote(f, j)
    BY <1>1, <1>3, BooksKept
  <1>7. Keeps(f, r)
    BY <1>3 DEF Keeps, Early
  <1> HIDE DEF r
  <1>8. /\ IInv' /\ job'[j] = f
        /\ \A k \in Jobs : k # j => Heeds(k) /\ Respects(k) /\ ~Enters(k)
    BY <1>2, <1>3, <1>4, <1>5, <1>6, <1>7, RowStep DEF r
  <1>9. Heeds(j) /\ Respects(j) /\ ~Live(job'[j])
    BY <1>2, <1>3, <1>8 DEF Heeds, Respects, Live, r
  <1> QED BY <1>2, <1>3, <1>8, <1>9 DEF r

-----------------------------------------------------------------------------
(* The clock.                                                              *)

LEMMA WaitExpiresOK ==
    ASSUME IInv, NEW j \in Jobs, WaitExpires(j)
    PROVE  Orderly
  <1> DEFINE r == job[j]
             f == Overdue(r)
  <1>1. /\ r \in Job /\ source[j] \in Sources /\ staged[j] \in Run \cup {None}
        /\ sets[j] \in Nat
        /\ RowOK(r) /\ Kept(r, source[j]) /\ Staged(r, staged[j])
        /\ Counted(r, sets[j]) /\ BookOK(r) /\ Wrote(r, j)
    BY JobFacts
  <1>2. /\ r.expires_at = "future"
        /\ source' = [source EXCEPT ![j] = IF source[j] = "future" THEN "past"
                                           ELSE source[j]]
        /\ UNCHANGED <<staged, sets, rev, task>>
    BY DEF WaitExpires
  <1>3. job' = [job EXCEPT ![j] = f]
    BY DEF WaitExpires, Overdue, IInv, Types
  <1>4. /\ f \in Job /\ Plain(f, r) /\ Books(f, r) /\ f.status = r.status
        /\ f.expires_at = "past" /\ f.lease_expires_at = r.lease_expires_at
        /\ f.error_retryable = r.error_retryable
        /\ f.cancellation_requested = r.cancellation_requested
    BY <1>1, OverdueRow
  <1> HIDE DEF f
  <1>5. /\ source' \in [Jobs -> Sources] /\ staged' \in [Jobs -> Run \cup {None}]
        /\ sets' \in [Jobs -> Nat]
        /\ \A k \in Jobs : k # j => /\ source'[k] = source[k] /\ staged'[k] = staged[k]
                                    /\ sets'[k] = sets[k]
    BY <1>1, <1>2 DEF IInv, Types, Sources
  <1>6. r.status \in Waits
    BY <1>1, <1>2 DEF RowOK
  <1>7. JobOK(f, source'[j], staged'[j], sets'[j])
    <2>1. RowOK(f)
      BY <1>1, <1>4, <1>6 DEF RowOK, Plain
    <2>2. Kept(f, source'[j])
      BY <1>4, <1>6 DEF Kept, Waits
    <2>3. Staged(f, staged'[j])
      BY <1>1, <1>2, <1>4 DEF Staged, RunOf, Plain
    <2>4. Counted(f, sets'[j])
      BY <1>1, <1>2, <1>4 DEF Counted, Plain
    <2> QED BY <2>1, <2>2, <2>3, <2>4 DEF JobOK
  <1>8. BookOK(f) /\ Wrote(f, j)
    <2>1. BookOK(f)
      BY <1>1, <1>4 DEF BookOK, Books, CapturedRevision, Plain
    <2> QED BY <1>1, <1>4, <2>1, BooksKept
  <1>9. Keeps(f, r) /\ r.status \in Waiting /\ f.status # "running" /\ f.kind = r.kind
    BY <1>4, <1>6 DEF Keeps, Waits, Waiting, Plain
  <1> HIDE DEF r
  <1> QED BY <1>2, <1>3, <1>4, <1>5, <1>7, <1>8, <1>9, InstructorStep DEF r

LEMMA RetentionPassesOK ==
    ASSUME IInv, NEW j \in Jobs, RetentionPasses(j)
    PROVE  Orderly
  <1>1. /\ job[j].status = "failed" /\ source[j] = "future"
        /\ source' = [source EXCEPT ![j] = "past"]
        /\ UNCHANGED <<job, staged, sets, rev, task>>
    BY DEF RetentionPasses
  <1>2. /\ source' \in [Jobs -> Sources] /\ source'[j] = "past"
        /\ \A k \in Jobs : k # j => source'[k] = source[k]
    BY <1>1 DEF IInv, Types, Sources
  <1>3. JobsOK'
    <2> SUFFICES ASSUME NEW k \in Jobs PROVE JobOK(job[k], source'[k], staged[k], sets[k])
      BY <1>1 DEF JobsOK
    <2>1. JobOK(job[k], source[k], staged[k], sets[k])
      BY DEF IInv, JobsOK
    <2>2. CASE k = j
      BY <1>1, <1>2, <2>1, <2>2 DEF JobOK, Kept
    <2>3. CASE k # j
      BY <1>2, <2>1, <2>3
    <2> QED BY <2>2, <2>3
  <1>4. Types'
    BY <1>1, <1>2 DEF IInv, Types, Sources
  <1>5. TasksKnow' /\ BooksOK'
    BY <1>1 DEF IInv, TasksKnow, BooksOK, Founded, BookOK, CapturedRevision, Wrote
  <1>6. \A k \in Jobs : Heeds(k) /\ Respects(k) /\ ~Enters(k)
    BY <1>1 DEF Heeds, Respects, Enters, Live
  <1> QED BY <1>3, <1>4, <1>5, <1>6 DEF Orderly, IInv

LEMMA LeaseRunsOutOK ==
    ASSUME IInv, NEW j \in Jobs, LeaseRunsOut(j)
    PROVE  Orderly
  <1> DEFINE r == job[j]
             f == Lapsed(r)
  <1>1. /\ r \in Job /\ RowOK(r) /\ Kept(r, source[j]) /\ Staged(r, staged[j])
        /\ Counted(r, sets[j]) /\ BookOK(r) /\ Wrote(r, j)
    BY JobFacts
  <1>2. r.lease_expires_at = "future" /\ UNCHANGED <<source, staged, sets, rev, task>>
    BY DEF LeaseRunsOut
  <1>3. job' = [job EXCEPT ![j] = f]
    BY DEF LeaseRunsOut, Lapsed, IInv, Types
  <1>4. /\ f \in Job /\ Plain(f, r) /\ Books(f, r) /\ f.status = r.status
        /\ f.expires_at = r.expires_at /\ f.lease_expires_at = "past"
        /\ f.error_retryable = r.error_retryable
        /\ f.cancellation_requested = r.cancellation_requested
    BY <1>1, LapsedRow
  <1> HIDE DEF f
  <1>5. /\ source' \in [Jobs -> Sources] /\ staged' \in [Jobs -> Run \cup {None}]
        /\ sets' \in [Jobs -> Nat]
    BY <1>2 DEF IInv, Types, Sources
  <1>6. r.status = "running"
    BY <1>1, <1>2 DEF RowOK
  <1>7. JobOK(f, source'[j], staged'[j], sets'[j])
    BY <1>1, <1>2, <1>4, <1>6
    DEF JobOK, RowOK, Plain, Early, Kept, Staged, RunOf, Counted
  <1>8. BookOK(f) /\ Wrote(f, j)
    BY <1>1, <1>4, <1>6, BooksKept DEF Plain
  <1>9. Keeps(f, r)
    BY <1>4 DEF Keeps, Plain
  <1> HIDE DEF r
  <1>10. /\ IInv' /\ job'[j] = f
         /\ \A k \in Jobs : k # j => Heeds(k) /\ Respects(k) /\ ~Enters(k)
    BY <1>2, <1>3, <1>4, <1>5, <1>7, <1>8, <1>9, RowStep DEF r
  <1>11. Heeds(j) /\ Respects(j) /\ ~Enters(j)
    BY <1>2, <1>4, <1>6, <1>10 DEF Heeds, Respects, Enters, Live, Plain, r
  <1> QED BY <1>10, <1>11 DEF Orderly

-----------------------------------------------------------------------------
(* The coroutines that only move on.                                       *)

Moves(t, pc) ==
    \E e \in Task : /\ task' = [task EXCEPT ![t] = e] /\ e.pc = pc
                    /\ pc # "idle" => e.job = task[t].job

LEMMA GotoMoves ==
    ASSUME IInv, NEW t \in Tasks, NEW pc \in Pc, Goto(t, pc)
    PROVE  Moves(t, pc)
  <1> DEFINE e == [task[t] EXCEPT !.pc = pc]
  <1>1. task \in [Tasks -> Task] /\ task[t] \in Task
    BY DEF IInv, Types
  <1>2. e \in Task /\ e.pc = pc /\ e.job = task[t].job
    BY <1>1 DEF Task
  <1>3. task' = [task EXCEPT ![t] = e]
    BY <1>1 DEF Goto
  <1> HIDE DEF e
  <1> QED BY <1>2, <1>3 DEF Moves

LEMMA FailMoves ==
    ASSUME IInv, NEW t \in Tasks, NEW a, NEW b, a \in BOOLEAN, b \in BOOLEAN, Fail(t, a, b)
    PROVE  Moves(t, "finish_failure")
  <1> DEFINE e == [task[t] EXCEPT !.pc = "finish_failure", !.retryable = a,
                                  !.auto_retry = b]
  <1>1. task \in [Tasks -> Task] /\ task[t] \in Task /\ "finish_failure" \in Pc
    BY DEF IInv, Types, Pc
  <1>2. e \in Task /\ e.pc = "finish_failure" /\ e.job = task[t].job
    BY <1>1 DEF Task
  <1>3. task' = [task EXCEPT ![t] = e]
    BY <1>1 DEF Fail
  <1> HIDE DEF e
  <1> QED BY <1>2, <1>3 DEF Moves

LEMMA LeaveMoves ==
    ASSUME NEW t \in Tasks, Leave(t)
    PROVE  Moves(t, "idle")
  <1>1. Idle.pc = "idle"
    BY DEF Idle
  <1> QED BY <1>1, ConstantRows DEF Moves, Leave

\* Nothing but the place of a coroutine changes.
LEMMA QuietOK ==
    ASSUME IInv, NEW t \in Tasks, task[t].pc # "idle", NEW pc, Moves(t, pc),
           Knows(pc, job[task[t].job]), UNCHANGED <<job, source, staged, sets, rev>>
    PROVE  Orderly
  <1>1. PICK e \in Task : /\ task' = [task EXCEPT ![t] = e] /\ e.pc = pc
                          /\ pc # "idle" => e.job = task[t].job
    BY DEF Moves
  <1>2. Types /\ TasksKnow /\ job' \in [Jobs -> Job] /\ task[t].job \in Jobs
    BY DEF IInv, Types
  <1>3. Knows(e.pc, job'[e.job]) /\ (e.pc # "idle" => e.job \in Jobs)
    BY <1>1, <1>2 DEF Knows
  <1>4. \A k \in Jobs : Keeps(job'[k], job[k])
    BY DEF Keeps
  <1>5. /\ TasksKnow' /\ task' \in [Tasks -> Task]
        /\ \A u \in Tasks : task'[u].pc # "idle" => task'[u].job \in Jobs
    BY <1>1, <1>2, <1>3, <1>4, OneTask
  <1>6. Types' /\ JobsOK' /\ BooksOK'
    BY <1>2, <1>5 DEF IInv, Types, JobsOK, BooksOK, Founded, BookOK, CapturedRevision, Wrote
  <1>7. \A k \in Jobs : Heeds(k) /\ Respects(k) /\ ~Enters(k)
    BY DEF Heeds, Respects, Enters, Live
  <1> QED BY <1>5, <1>6, <1>7 DEF Orderly, IInv

\* The slot's job as the coroutine knows it.
LEMMA SlotFacts ==
    ASSUME IInv, NEW t \in Tasks, task[t].pc # "idle"
    PROVE  /\ task[t].job \in Jobs /\ task[t] \in Task
           /\ Knows(task[t].pc, job[task[t].job])
           /\ job[task[t].job].status \notin Early
  BY DEF IInv, Types, TasksKnow, Knows

LEMMA QuietStepsOK ==
    ASSUME IInv, NEW t \in Tasks,
           \/ Abandon(t) \/ LeaseLost(t) \/ CancellationSeen(t) \/ Load(t)
           \/ CaptureRefused(t) \/ CaptureUnsafe(t) \/ StageCards(t)
           \/ ProviderReturns(t) \/ PipelineFails(t) \/ DatabaseError(t)
    PROVE  Orderly
  <1> DEFINE r == job[task[t].job]
  <1>1. UNCHANGED <<job, source, staged, sets, rev>> /\ task[t].pc # "idle"
    BY DEF Abandon, LeaseLost, CancellationSeen, Load, CaptureRefused, CaptureUnsafe,
       StageCards, ProviderReturns, PipelineFails, DatabaseError, Pipeline
  <1>2. /\ r.status \notin Early /\ Knows(task[t].pc, r) /\ r \in Job
    BY <1>1, SlotFacts, JobFacts
  <1> HIDE DEF r
  <1>3. ASSUME Leave(t) PROVE Orderly
    <2>1. Moves(t, "idle")
      BY <1>3, LeaveMoves
    <2>2. Knows("idle", r)
      BY DEF Knows
    <2> QED BY <1>1, <2>1, <2>2, QuietOK DEF r
  <1>4. ASSUME Moves(t, "finish_failure") PROVE Orderly
    <2>1. Knows("finish_failure", r)
      BY <1>2 DEF Knows
    <2> QED BY <1>1, <1>4, <2>1, QuietOK DEF r
  <1>5. ASSUME NEW pc \in Pc, Goto(t, pc), Knows(pc, r) PROVE Orderly
    <2>1. Moves(t, pc)
      BY <1>5, GotoMoves
    <2> QED BY <1>1, <1>5, <2>1, QuietOK DEF r
  <1>6. CASE Abandon(t) \/ LeaseLost(t)
    BY <1>3, <1>6 DEF Abandon, LeaseLost
  <1>7. CASE CancellationSeen(t)
    <2>1. "finish_cancelled" \in Pc /\ Knows("finish_cancelled", r)
      BY <1>2 DEF Pc, Knows
    <2> QED BY <1>5, <1>7, <2>1 DEF CancellationSeen
  <1>8. CASE Load(t)
    <2>1. CASE Fail(t, FALSE, TRUE)
      BY <1>4, <2>1, FailMoves
    <2>2. CASE Goto(t, IF r.capture = "pending" THEN "capture"
                       ELSE IF r.kind = "knowledge_only" THEN "finish_knowledge"
                       ELSE "stage_cards")
               /\ Holds(t)
      <3>1. {"capture", "finish_knowledge", "stage_cards"} \subseteq Pc
        BY DEF Pc
      <3>2. CASE r.capture = "pending"
        <4>1. r.choice # "reuse"
          <5>1. task[t].job \in Jobs
            BY <1>1, SlotFacts
          <5>2. BookOK(r)
            BY <5>1, JobFacts DEF r
          <5> QED BY <3>2, <5>2 DEF BookOK
        <4>2. Knows("capture", r)
          BY <1>2, <4>1 DEF Knows
        <4> QED BY <1>5, <2>2, <3>1, <3>2, <4>2
      <3>3. CASE r.capture # "pending" /\ r.kind = "knowledge_only"
        <4>1. Knows("finish_knowledge", r)
          BY <1>2 DEF Knows
        <4> QED BY <1>5, <2>2, <3>1, <3>3, <4>1
      <3>4. CASE r.capture # "pending" /\ r.kind # "knowledge_only"
        <4>1. r.kind = "flashcards"
          BY <1>2, <3>4 DEF Job
        <4>2. Knows("stage_cards", r)
          BY <1>2, <4>1 DEF Knows
        <4> QED BY <1>5, <2>2, <3>1, <3>4, <4>2
      <3> QED BY <3>2, <3>3, <3>4
    <2> QED BY <1>8, <2>1, <2>2 DEF Load, Claimed, r
  <1>9. CASE CaptureRefused(t)
    <2>1. "capture_failed" \in Pc /\ Knows("capture_failed", r)
      BY <1>2, <1>9 DEF Pc, Knows, CaptureRefused
    <2> QED BY <1>5, <1>9, <2>1 DEF CaptureRefused
  <1>10. CASE CaptureUnsafe(t)
    BY <1>4, <1>10, FailMoves DEF CaptureUnsafe
  <1>11. CASE StageCards(t)
    <2>1. "provider" \in Pc /\ Knows("provider", r)
      BY <1>2, <1>11 DEF Pc, Knows, StageCards
    <2> QED BY <1>5, <1>11, <2>1 DEF StageCards
  <1>12. CASE ProviderReturns(t)
    <2>1. \A pc \in {"finish_success", "finish_card_choice"} : pc \in Pc /\ Knows(pc, r)
      BY <1>2, <1>12 DEF Pc, Knows, ProviderReturns
    <2> QED BY <1>5, <1>12, <2>1 DEF ProviderReturns
  <1>13. CASE PipelineFails(t)
    <2>1. Fail(t, FALSE, TRUE) \/ Fail(t, TRUE, TRUE) \/ Fail(t, TRUE, FALSE)
      BY <1>13 DEF PipelineFails
    <2> QED BY <1>4, <2>1, FailMoves
  <1>14. CASE DatabaseError(t)
    <2>1. Fail(t, TRUE, TRUE) \/ Leave(t)
      BY <1>14 DEF DatabaseError
    <2> QED BY <1>3, <1>4, <2>1, FailMoves
  <1> QED BY <1>6, <1>7, <1>8, <1>9, <1>10, <1>11, <1>12, <1>13, <1>14

-----------------------------------------------------------------------------
(* The ends of a claim.                                                    *)

\* What the row of a job that a slot holds says.
LEMMA HeldRow ==
    ASSUME IInv, NEW t \in Tasks, task[t].pc # "idle", Holds(t)
    PROVE  LET j == task[t].job IN
           /\ j \in Jobs /\ job[j].status = "running" /\ job[j].lease_expires_at = "future"
           /\ job[j].expires_at = "null" /\ job[j].file \in Files
           /\ RunOf(job[j]) = task[t].run
           /\ source[j] = "kept" /\ staged[j] = None /\ sets[j] = 0
           /\ Knows(task[t].pc, job[j])
  <1> DEFINE j == task[t].job
  <1>1. j \in Jobs /\ Knows(task[t].pc, job[j])
    BY SlotFacts
  <1> HIDE DEF j
  <1>2. /\ job[j] \in Job /\ sets[j] \in Nat
        /\ RowOK(job[j]) /\ Kept(job[j], source[j]) /\ Staged(job[j], staged[j])
        /\ Counted(job[j], sets[j])
    BY <1>1, JobFacts
  <1>3. /\ job[j].status = "running" /\ job[j].lease_expires_at = "future"
        /\ RunOf(job[j]) = task[t].run
    BY DEF Holds, Live, j
  <1>4. job[j].expires_at = "null" /\ job[j].file \in Files
    BY <1>2, <1>3 DEF RowOK, Waits, Uploaded
  <1>5. source[j] = "kept" /\ staged[j] = None
    BY <1>2, <1>3 DEF Kept, Staged
  <1>6. sets[j] = 0
    BY <1>2, <1>3 DEF Counted
  <1> QED BY <1>1, <1>3, <1>4, <1>5, <1>6 DEF j

\* What the end of a claim has to show to be orderly: a job that was asked to be
\* cancelled is.
LEMMA EndStep ==
    ASSUME IInv, NEW t \in Tasks, task[t].pc # "idle", Holds(t), Leave(t),
           NEW j \in Jobs, j = task[t].job, NEW f \in Job, job' = [job EXCEPT ![j] = f],
           source' \in [Jobs -> Sources], staged' \in [Jobs -> Run \cup {None}],
           sets' \in [Jobs -> Nat], rev' = rev,
           \A k \in Jobs : k # j => /\ source'[k] = source[k] /\ staged'[k] = staged[k]
                                    /\ sets'[k] = sets[k],
           JobOK(f, source'[j], staged'[j], sets'[j]), BookOK(f), Wrote(f, j),
           Keeps(f, job[j]), f.kind = job[j].kind, f.status # "running",
           job[j].cancellation_requested => f.status = "cancelled" /\ sets'[j] = sets[j]
    PROVE  Orderly
  <1>1. task' = [task EXCEPT ![t] = Idle] /\ Idle \in Task /\ Idle.pc = "idle"
    BY ConstantRows DEF Leave, Idle
  <1>2. /\ IInv' /\ job'[j] = f /\ task'[t] = Idle
        /\ \A k \in Jobs : k # j => Heeds(k) /\ Respects(k) /\ ~Enters(k)
    BY <1>1, TaskStep
  <1>3. Heeds(j)
    BY <1>2 DEF Heeds
  <1>4. Respects(j)
    BY <1>2 DEF Respects, Holds
  <1>5. ~Enters(j)
    BY <1>2 DEF Enters, Live, Holds
  <1> QED BY <1>2, <1>3, <1>4, <1>5 DEF Orderly

LEMMA FinishSuccessOK ==
    ASSUME IInv, NEW t \in Tasks, FinishSuccess(t)
    PROVE  Orderly
  <1> DEFINE j == task[t].job
             r == job[j]
             f == Succeeded(r)
  <1>1. /\ task[t].pc = "finish_success" /\ Holds(t) /\ ~r.cancellation_requested
        /\ sets' = [sets EXCEPT ![j] = sets[j] + 1]
        /\ source' = [source EXCEPT ![j] = "absent"]
        /\ Leave(t) /\ UNCHANGED <<staged, rev>>
    BY DEF FinishSuccess, Claimed, Asked
  <1>2. j \in Jobs /\ r.status = "running" /\ r.kind = "flashcards" /\ r.expires_at = "null"
        /\ staged[j] = None /\ sets[j] = 0
    BY <1>1, HeldRow DEF Knows
  <1>3. job' = [job EXCEPT ![j] = f]
    BY <1>2 DEF FinishSuccess, Released, Succeeded, IInv, Types, Job
  <1> HIDE DEF j
  <1>4. r \in Job /\ RowOK(r) /\ BookOK(r) /\ Wrote(r, j)
    BY <1>2, JobFacts
  <1>5. /\ f \in Job /\ Plain(f, r) /\ Books(f, r) /\ f.status = "completed"
        /\ f.expires_at = r.expires_at /\ f.lease_expires_at = "null"
    BY <1>4, SucceededRow
  <1> HIDE DEF f
  <1>6. /\ source' \in [Jobs -> Sources] /\ staged' \in [Jobs -> Run \cup {None}]
        /\ sets' \in [Jobs -> Nat]
        /\ source'[j] = "absent" /\ staged'[j] = None /\ sets'[j] = 1
        /\ \A k \in Jobs : k # j => /\ source'[k] = source[k] /\ staged'[k] = staged[k]
                                    /\ sets'[k] = sets[k]
    BY <1>1, <1>2 DEF IInv, Types, Sources
  <1>7. JobOK(f, source'[j], staged'[j], sets'[j])
    BY <1>2, <1>4, <1>5, <1>6
    DEF JobOK, RowOK, Plain, Early, Waits, Uploaded, Kept, Staged, Counted
  <1>8. BookOK(f) /\ Wrote(f, j)
    BY <1>4, <1>5, BooksKept DEF Plain
  <1>9. Keeps(f, r) /\ f.kind = r.kind
    BY <1>5 DEF Keeps, Early, Plain
  <1> HIDE DEF r
  <1> QED BY <1>1, <1>2, <1>3, <1>5, <1>6, <1>7, <1>8, <1>9, EndStep DEF j, r

LEMMA FinishKnowledgeSuccessOK ==
    ASSUME IInv, NEW t \in Tasks, FinishKnowledgeSuccess(t)
    PROVE  Orderly
  <1> DEFINE j == task[t].job
             r == job[j]
             f == Succeeded(r)
  <1>1. /\ task[t].pc = "finish_knowledge" /\ Holds(t) /\ ~r.cancellation_requested
        /\ UNCHANGED <<staged, sets, rev>>
    BY DEF FinishKnowledgeSuccess, Claimed, Asked
  <1>2. j \in Jobs /\ r.status = "running" /\ r.expires_at = "null"
        /\ staged[j] = None /\ sets[j] = 0
    BY <1>1, HeldRow
  <1>3. CASE Fail(t, FALSE, FALSE) /\ UNCHANGED <<job, source>>
    <2>1. Knows("finish_failure", r)
      BY <1>2 DEF Knows, Early
    <2> QED BY <1>1, <1>3, <2>1, FailMoves, QuietOK
  <1>4. CASE /\ source' = [source EXCEPT ![j] = "absent"]
             /\ job' = [job EXCEPT ![j] = [Released(job[j]) EXCEPT !.status = "completed",
                                                              !.error_retryable = FALSE]]
             /\ Leave(t)
    <2>1. job' = [job EXCEPT ![j] = f]
      BY <1>2, <1>4 DEF Released, Succeeded, IInv, Types, Job
    <2> HIDE DEF j
    <2>2. r \in Job /\ RowOK(r) /\ BookOK(r) /\ Wrote(r, j)
      BY <1>2, JobFacts
    <2>3. /\ f \in Job /\ Plain(f, r) /\ Books(f, r) /\ f.status = "completed"
          /\ f.expires_at = r.expires_at /\ f.lease_expires_at = "null"
      BY <2>2, SucceededRow
    <2> HIDE DEF f
    <2>4. /\ source' \in [Jobs -> Sources] /\ staged' \in [Jobs -> Run \cup {None}]
          /\ sets' \in [Jobs -> Nat]
          /\ source'[j] = "absent" /\ staged'[j] = None /\ sets'[j] = 0
          /\ \A k \in Jobs : k # j => /\ source'[k] = source[k] /\ staged'[k] = staged[k]
                                      /\ sets'[k] = sets[k]
      BY <1>1, <1>2, <1>4 DEF IInv, Types, Sources
    <2>5. JobOK(f, source'[j], staged'[j], sets'[j])
      BY <1>2, <2>2, <2>3, <2>4
      DEF JobOK, RowOK, Plain, Early, Waits, Uploaded, Kept, Staged, Counted
    <2>6. BookOK(f) /\ Wrote(f, j)
      BY <2>2, <2>3, BooksKept DEF Plain
    <2>7. Keeps(f, r) /\ f.kind = r.kind
      BY <2>3 DEF Keeps, Early, Plain
    <2> HIDE DEF r
    <2> QED BY <1>1, <1>2, <1>4, <2>1, <2>3, <2>4, <2>5, <2>6, <2>7, EndStep DEF j, r
  <1> QED BY <1>3, <1>4 DEF FinishKnowledgeSuccess

LEMMA FinishCardChoiceOK ==
    ASSUME IInv, NEW t \in Tasks, FinishCardChoice(t)
    PROVE  Orderly
  <1> DEFINE j == task[t].job
             r == job[j]
             f == Parked(r)
  <1>1. /\ task[t].pc = "finish_card_choice" /\ Holds(t) /\ ~r.cancellation_requested
        /\ UNCHANGED <<sets, rev>>
    BY DEF FinishCardChoice, Claimed, Asked
  <1>2. j \in Jobs /\ r.status = "running" /\ r.kind = "flashcards" /\ r.file \in Files
        /\ staged[j] = None /\ sets[j] = 0
    BY <1>1, HeldRow DEF Knows
  <1>3. CASE Fail(t, TRUE, FALSE) /\ UNCHANGED <<job, source, staged>>
    <2>1. Knows("finish_failure", r)
      BY <1>2 DEF Knows, Early
    <2> QED BY <1>1, <1>3, <2>1, FailMoves, QuietOK
  <1>4. CASE /\ staged' = [staged EXCEPT ![j] = RunOf(job[j])]
             /\ source' = [source EXCEPT ![j] = "future"]
             /\ job' = [job EXCEPT ![j] =
                    [Released(job[j]) EXCEPT !.status = "awaiting_card_choice",
                                        !.expires_at = "future",
                                        !.error_retryable = TRUE]]
             /\ Leave(t)
    <2>1. job' = [job EXCEPT ![j] = f]
      BY <1>2, <1>4 DEF Released, Parked, IInv, Types, Job
    <2> HIDE DEF j
    <2>2. r \in Job /\ RowOK(r) /\ BookOK(r) /\ Wrote(r, j)
      BY <1>2, JobFacts
    <2>3. /\ f \in Job /\ Plain(f, r) /\ Books(f, r)
          /\ f.status = "awaiting_card_choice" /\ f.expires_at = "future"
          /\ f.lease_expires_at = "null"
      BY <2>2, ParkedRow
    <2> HIDE DEF f
    <2>4. RunOf(r) \in Run /\ RunOf(r) = RunOf(f)
      BY <2>2, <2>3 DEF Run, RunOf, Job, Plain
    <2>5. /\ source' \in [Jobs -> Sources] /\ staged' \in [Jobs -> Run \cup {None}]
          /\ sets' \in [Jobs -> Nat]
          /\ source'[j] = "future" /\ staged'[j] = RunOf(f) /\ sets'[j] = 0
          /\ \A k \in Jobs : k # j => /\ source'[k] = source[k] /\ staged'[k] = staged[k]
                                      /\ sets'[k] = sets[k]
      BY <1>1, <1>2, <1>4, <2>4 DEF IInv, Types, Sources
    <2>6. JobOK(f, source'[j], staged'[j], sets'[j])
      BY <1>2, <2>2, <2>3, <2>5
      DEF JobOK, RowOK, Plain, Early, Waits, Uploaded, Kept, Staged, Counted
    <2>7. BookOK(f) /\ Wrote(f, j)
      BY <2>2, <2>3, BooksKept DEF Plain
    <2>8. Keeps(f, r) /\ f.kind = r.kind
      BY <2>3 DEF Keeps, Early, Plain
    <2> HIDE DEF r
    <2> QED BY <1>1, <1>2, <1>4, <2>1, <2>3, <2>5, <2>6, <2>7, <2>8, EndStep DEF j, r
  <1> QED BY <1>3, <1>4 DEF FinishCardChoice

LEMMA FinishFailureOK ==
    ASSUME IInv, NEW t \in Tasks, FinishFailure(t)
    PROVE  Orderly
  <1> DEFINE j == task[t].job
             r == job[j]
             err == task[t].retryable
             requeue == task[t].auto_retry /\ task[t].retryable /\ MayRequeue(job[j])
  <1>1. /\ task[t].pc = "finish_failure" /\ Holds(t) /\ Leave(t)
        /\ UNCHANGED <<staged, sets, rev>>
    BY DEF FinishFailure
  <1>2. /\ j \in Jobs /\ r.status = "running" /\ r.expires_at = "null" /\ r.file \in Files
        /\ source[j] = "kept" /\ staged[j] = None /\ sets[j] = 0
    BY <1>1, HeldRow
  <1>3. /\ r \in Job /\ RowOK(r) /\ BookOK(r) /\ Wrote(r, j)
    BY <1>2, JobFacts
  <1>4. err \in BOOLEAN
    BY <1>1, SlotFacts DEF Task
  <1>5. ASSUME NEW f \in Job, job' = [job EXCEPT ![j] = f], Plain(f, r), Books(f, r),
               f.expires_at = "null", f.lease_expires_at = "null",
               NEW s \in Sources, source' = [source EXCEPT ![j] = s],
               f.status \in {"cancelled", "queued", "failed"},
               f.status = "queued" => MayRequeue(r),
               Kept(f, s), r.cancellation_requested => f.status = "cancelled"
        PROVE  Orderly
    <2> HIDE DEF j
    <2>1. /\ source' \in [Jobs -> Sources] /\ staged' \in [Jobs -> Run \cup {None}]
          /\ sets' \in [Jobs -> Nat]
          /\ source'[j] = s /\ staged'[j] = None /\ sets'[j] = 0
          /\ \A k \in Jobs : k # j => /\ source'[k] = source[k] /\ staged'[k] = staged[k]
                                      /\ sets'[k] = sets[k]
      BY <1>1, <1>2, <1>5 DEF IInv, Types, Sources
    <2>2. RowOK(f)
      BY <1>2, <1>3, <1>5 DEF RowOK, Plain, Early, Waits, Uploaded, MayRequeue
    <2>3. JobOK(f, source'[j], staged'[j], sets'[j])
      BY <1>5, <2>1, <2>2 DEF JobOK, Staged, Counted
    <2>4. BookOK(f) /\ Wrote(f, j)
      BY <1>3, <1>5, BooksKept DEF Plain
    <2>5. Keeps(f, r) /\ f.kind = r.kind /\ f.status # "running"
      BY <1>5 DEF Keeps, Early, Plain
    <2>6. r.cancellation_requested => f.status = "cancelled" /\ sets'[j] = sets[j]
      BY <1>1, <1>5
    <2> HIDE DEF r
    <2> QED BY <1>1, <1>2, <1>5, <2>1, <2>3, <2>4, <2>5, <2>6, EndStep DEF j, r
  <1>6. CASE Asked(t) /\ job' = [job EXCEPT ![j] = Cancelled(job[j])]
             /\ source' = [source EXCEPT ![j] = "absent"]
    <2> DEFINE f == Cancelled(r)
    <2>1. /\ f \in Job /\ Plain(f, r) /\ Books(f, r)
          /\ f.status = "cancelled" /\ f.expires_at = "null"
          /\ f.lease_expires_at = "null" /\ f.error_retryable = FALSE
      BY <1>3, CancelledRow
    <2>2. job' = [job EXCEPT ![j] = f]
      BY <1>6
    <2> HIDE DEF f
    <2>3. Kept(f, "absent") /\ "absent" \in Sources
      BY <2>1 DEF Kept, Sources
    <2> QED BY <1>5, <1>6, <2>1, <2>2, <2>3
  <1>7. CASE ~Asked(t) /\ requeue /\ job' = [job EXCEPT ![j] = RetryWait(job[j])]
             /\ UNCHANGED source
    <2> DEFINE f == RetryWait(r)
    <2>1. /\ f \in Job /\ Plain(f, r) /\ Books(f, r)
          /\ f.status = "queued" /\ f.expires_at = r.expires_at
          /\ f.lease_expires_at = "null"
      BY <1>3, RetryWaitRow
    <2>2. job' = [job EXCEPT ![j] = f]
      BY <1>7
    <2> HIDE DEF f
    <2>3. Kept(f, "kept") /\ "kept" \in Sources
      BY <2>1 DEF Kept, Sources
    <2>4. source' = [source EXCEPT ![j] = "kept"]
      BY <1>2, <1>7 DEF IInv, Types
    <2>5. ~r.cancellation_requested /\ MayRequeue(r)
      BY <1>7 DEF Asked
    <2> QED BY <1>2, <1>5, <2>1, <2>2, <2>3, <2>4, <2>5
  <1>8. CASE ~Asked(t) /\ job' = [job EXCEPT ![j] = FailedFor(job[j], err)]
             /\ source' = [source EXCEPT ![j] =
                    IF err /\ source[j] # "absent" THEN "future" ELSE "absent"]
    <2> DEFINE f == FailedFor(r, err)
               s == IF err /\ source[j] # "absent" THEN "future" ELSE "absent"
    <2>0. ~r.cancellation_requested
      BY <1>8 DEF Asked
    <2> HIDE DEF err
    <2>1. /\ f \in Job /\ Plain(f, r) /\ Books(f, r)
          /\ f.status = "failed" /\ f.expires_at = r.expires_at
          /\ f.lease_expires_at = "null" /\ f.error_retryable = err
      BY <1>3, <1>4, FailedForRow
    <2>2. job' = [job EXCEPT ![j] = f]
      BY <1>8
    <2>3. s = IF err THEN "future" ELSE "absent"
      BY <1>2
    <2>4. source' = [source EXCEPT ![j] = s]
      BY <1>8
    <2> HIDE DEF f, s
    <2>5. Kept(f, s) /\ s \in Sources
      BY <2>1, <2>3 DEF Kept, Sources
    <2> QED BY <1>2, <1>5, <2>0, <2>1, <2>2, <2>4, <2>5
  <1> QED BY <1>6, <1>7, <1>8, <1>2 DEF FinishFailure, IInv, Types

LEMMA RecordCaptureFailureOK ==
    ASSUME IInv, NEW t \in Tasks, RecordCaptureFailure(t)
    PROVE  Orderly
  <1> DEFINE j == task[t].job
             r == job[j]
             f == CaptureFailed(r)
  <1>1. task[t].pc = "capture_failed" /\ UNCHANGED <<source, staged, sets, rev>>
    BY DEF RecordCaptureFailure
  <1>2. j \in Jobs /\ Knows("capture_failed", r)
    BY <1>1, SlotFacts
  <1>3. CASE Fail(t, FALSE, FALSE) /\ UNCHANGED job
    <2>1. Knows("finish_failure", r)
      BY <1>2 DEF Knows, Early
    <2> QED BY <1>1, <1>3, <2>1, FailMoves, QuietOK
  <1>4. CASE /\ job[j].status = "running"
             /\ job' = [job EXCEPT ![j].capture = "failed"]
             /\ IF job[j].kind = "knowledge_only" THEN Fail(t, FALSE, FALSE)
                                                  ELSE Goto(t, "stage_cards")
    <2>1. job' = [job EXCEPT ![j] = f]
      BY <1>2, <1>4 DEF CaptureFailed, IInv, Types
    <2>2. /\ r \in Job /\ RowOK(r) /\ BookOK(r) /\ Wrote(r, j)
          /\ JobOK(r, source[j], staged[j], sets[j])
      BY <1>2, JobFacts DEF JobOK
    <2>3. /\ f \in Job /\ Control(f, r) /\ f.capture = "failed"
          /\ f.document = r.document
      BY <2>2, CaptureFailedRow
    <2>4. f.status = r.status /\ f.kind = r.kind /\ f.choice = r.choice
          /\ f.lease_expires_at = r.lease_expires_at
          /\ f.cancellation_requested = r.cancellation_requested
      BY <2>3 DEF Control, Plain
    <2> HIDE DEF f
    <2>5. \E pc : Moves(t, pc) /\ pc # "idle" /\ Knows(pc, f)
      <3>1. CASE r.kind = "knowledge_only"
        <4>1. Moves(t, "finish_failure")
          BY <1>4, <3>1, FailMoves
        <4>2. Knows("finish_failure", f)
          BY <1>2, <2>4 DEF Knows
        <4> QED BY <4>1, <4>2
      <3>2. CASE r.kind # "knowledge_only"
        <4>1. "stage_cards" \in Pc /\ r.kind = "flashcards"
          BY <2>2, <3>2 DEF Pc, Job
        <4>2. Moves(t, "stage_cards")
          BY <1>4, <3>2, <4>1, GotoMoves
        <4>3. Knows("stage_cards", f)
          BY <1>2, <2>4, <4>1 DEF Knows
        <4> QED BY <4>2, <4>3
      <3> QED BY <3>1, <3>2
    <2>6. PICK e \in Task : /\ task' = [task EXCEPT ![t] = e] /\ e.pc # "idle"
                            /\ e.job = j /\ Knows(e.pc, f)
      BY <2>5 DEF Moves
    <2> HIDE DEF j
    <2>7. /\ source' \in [Jobs -> Sources] /\ staged' \in [Jobs -> Run \cup {None}]
          /\ sets' \in [Jobs -> Nat]
          /\ \A k \in Jobs : k # j => /\ source'[k] = source[k] /\ staged'[k] = staged[k]
                                      /\ sets'[k] = sets[k]
      BY <1>1 DEF IInv, Types, Sources
    <2>8. JobOK(f, source'[j], staged'[j], sets'[j])
      BY <1>1, <2>2, <2>3, ControlKept
    <2>9. BookOK(f)
      BY <1>2, <1>4, <2>2, <2>3, <2>4 DEF BookOK, CapturedRevision, Knows
    <2>10. Wrote(f, j)
      BY <2>2, <2>3 DEF Wrote
    <2>11. Keeps(f, r)
      BY <2>4 DEF Keeps
    <2>14. j \in Jobs /\ f \in Job /\ rev' = rev /\ Keeps(f, job[j])
      BY <1>1, <1>2, <2>3, <2>11
    <2> HIDE DEF r
    <2>15. /\ e \in Task /\ task' = [task EXCEPT ![t] = e]
           /\ (e.pc # "idle" => e.job = j /\ Knows(e.pc, f))
      BY <2>6
    <2>12. /\ IInv' /\ job'[j] = f /\ task'[t] = e
           /\ \A k \in Jobs : k # j => Heeds(k) /\ Respects(k) /\ ~Enters(k)
      BY <2>1, <2>7, <2>8, <2>9, <2>10, <2>14, <2>15, TaskStep
    <2>13. Heeds(j) /\ Respects(j) /\ ~Enters(j)
      BY <1>1, <1>4, <2>4, <2>12 DEF Heeds, Respects, Enters, Live, r
    <2> QED BY <2>12, <2>13 DEF Orderly
  <1> QED BY <1>3, <1>4 DEF RecordCaptureFailure

\* A claim: the job gets a lease where the deployment has room for it.
LEMMA ClaimNextOK ==
    ASSUME IInv, NEW t \in Tasks, NEW j \in Jobs, ClaimNext(t, j)
    PROVE  /\ IInv' /\ \A k \in Jobs : Heeds(k) /\ Respects(k)
           /\ \A k \in Jobs : k # j => ~Enters(k)
           /\ HasCapacity /\ job[j].status = "queued" /\ job'[j].kind = job[j].kind
  <1> DEFINE r == job[j]
             n == r.attempt_count + 1
             f == TakenUp(r, n)
             e == [Idle EXCEPT !.pc = "load", !.job = j,
                               !.run = <<job[j].manual_retry_count, job[j].attempt_count + 1>>]
  <1>1. /\ r.status = "queued" /\ HasCapacity
        /\ task' = [task EXCEPT ![t] = e] /\ UNCHANGED <<source, staged, sets, rev>>
    BY DEF ClaimNext
  <1>2. /\ r \in Job /\ source[j] \in Sources /\ staged[j] \in Run \cup {None}
        /\ sets[j] \in Nat
        /\ RowOK(r) /\ Kept(r, source[j]) /\ Staged(r, staged[j])
        /\ Counted(r, sets[j]) /\ BookOK(r) /\ Wrote(r, j)
    BY JobFacts
  <1>3. n \in Nat /\ r.attempt_count \in Nat /\ r.manual_retry_count \in Nat
    BY <1>2 DEF Job
  <1>4. job' = [job EXCEPT ![j] = f]
    BY DEF ClaimNext, TakenUp, IInv, Types
  <1>5. e \in Task /\ e.pc = "load" /\ e.job = j
    BY <1>3 DEF Idle, Task, Pc, Run
  <1> HIDE DEF e
  <1>6. /\ f \in Job /\ Books(f, r) /\ f.status = "running" /\ f.kind = r.kind
        /\ f.file = r.file /\ f.choice = r.choice /\ f.expires_at = r.expires_at
        /\ f.attempt_count = n /\ f.manual_retry_count = r.manual_retry_count
        /\ f.lease_expires_at = "future"
    BY <1>2, <1>3, TakenUpRow, ZenonT(60)
  <1> HIDE DEF f
  <1>7. /\ source' \in [Jobs -> Sources] /\ staged' \in [Jobs -> Run \cup {None}]
        /\ sets' \in [Jobs -> Nat]
    BY <1>1 DEF IInv, Types, Sources
  <1>8. JobOK(f, source'[j], staged'[j], sets'[j])
    <2>1. RowOK(f)
      BY <1>1, <1>2, <1>3, <1>6, GenerationAssumption
      DEF RowOK, Early, Waits, Uploaded
    <2>2. Kept(f, source'[j])
      BY <1>1, <1>2, <1>6 DEF Kept
    <2>3. Staged(f, staged'[j])
      BY <1>1, <1>2, <1>6 DEF Staged
    <2>4. Counted(f, sets'[j])
      BY <1>1, <1>2, <1>6 DEF Counted
    <2> QED BY <2>1, <2>2, <2>3, <2>4 DEF JobOK
  <1>9. BookOK(f) /\ Wrote(f, j)
    BY <1>2, <1>6, BooksKept
  <1>10. Keeps(f, r) /\ Knows(e.pc, f)
    BY <1>5, <1>6 DEF Keeps, Knows, Early
  <1> HIDE DEF r
  <1>11. /\ IInv' /\ job'[j] = f /\ task'[t] = e
         /\ \A k \in Jobs : k # j => Heeds(k) /\ Respects(k) /\ ~Enters(k)
    BY <1>1, <1>4, <1>5, <1>6, <1>7, <1>8, <1>9, <1>10, TaskStep DEF r
  <1>12. Heeds(j) /\ Respects(j)
    BY <1>1, <1>6, <1>11 DEF Heeds, Respects, Live, r
  <1> QED BY <1>1, <1>6, <1>11, <1>12 DEF r

-----------------------------------------------------------------------------
(* Steps that write many rows.                                             *)

LEMMA ManyRows ==
    ASSUME IInv, job' \in [Jobs -> Job],
           source' \in [Jobs -> Sources], staged' \in [Jobs -> Run \cup {None}],
           sets' = sets, rev' \in [Authors -> Revision \cup {NoRevision}], BooksOK',
           task' = task \/ \E t \in Tasks : Leave(t),
           \A k \in Jobs : JobOK(job'[k], source'[k], staged'[k], sets'[k]),
           \A k \in Jobs : Keeps(job'[k], job[k]),
           \A k \in Jobs : Heeds(k) /\ Respects(k) /\ ~Enters(k)
    PROVE  Orderly
  <1>1. Types /\ TasksKnow
    BY DEF IInv
  <1>2. /\ TasksKnow' /\ task' \in [Tasks -> Task]
        /\ \A u \in Tasks : task'[u].pc # "idle" => task'[u].job \in Jobs
    <2>1. CASE task' = task
      <3>1. TasksKnow'
        BY <1>1, <2>1, TasksLookOn
      <3> QED BY <1>1, <2>1, <3>1 DEF Types
    <2>2. CASE \E t \in Tasks : Leave(t)
      <3>1. PICK t \in Tasks : task' = [task EXCEPT ![t] = Idle]
        BY <2>2 DEF Leave
      <3>2. Idle \in Task /\ Idle.pc = "idle"
        BY ConstantRows DEF Idle
      <3>3. Knows(Idle.pc, job'[Idle.job])
        BY <3>2 DEF Knows
      <3> QED BY <1>1, <3>1, <3>2, <3>3, OneTask
    <2> QED BY <2>1, <2>2
  <1>3. JobsOK'
    BY DEF JobsOK
  <1>4. Types'
    BY <1>1, <1>2 DEF Types, Sources
  <1> QED BY <1>2, <1>3, <1>4 DEF Orderly, IInv

LEMMA FollowsOrderly ==
    ASSUME NEW k, Follows(job'[k], job[k]), sets'[k] = sets[k]
    PROVE  Keeps(job'[k], job[k]) /\ Heeds(k) /\ Respects(k) /\ ~Enters(k)
  BY DEF Follows, Keeps, Heeds, Respects, Enters, Live

\* The documents stay; what is known of their revisions changes.
LEMMA SameDocumentsOK ==
    ASSUME IInv, UNCHANGED <<job, source, staged, sets, task>>,
           rev' \in [Authors -> Revision \cup {NoRevision}],
           \A c \in Authors : /\ rev'[c].doc = rev[c].doc
                              /\ rev'[c] = NoRevision <=> rev[c] = NoRevision
    PROVE  Orderly
  <1>1. Founded'
    <2> SUFFICES ASSUME NEW c \in Authors, rev'[c] # NoRevision
                 PROVE  rev'[rev'[c].doc].doc = rev'[c].doc
      BY DEF Founded
    <2>1. rev[c] \in Revision /\ rev[rev[c].doc].doc = rev[c].doc
      BY DEF IInv, Types, BooksOK, Founded
    <2> QED BY <2>1 DEF Revision
  <1>2. ASSUME NEW j \in Jobs PROVE (BookOK(job[j]) /\ Wrote(job[j], j))'
    <2>1. /\ BookOK(job[j]) /\ Wrote(job[j], j) /\ j \in Authors
          /\ job[j].document \in Authors \cup {None}
      BY JobFacts DEF Authors, Job
    <2>2. (BookOK(job[j]))'
      BY <2>1 DEF BookOK, CapturedRevision
    <2>3. Wrote(job[j], j)'
      BY <2>1 DEF Wrote
    <2> QED BY <2>2, <2>3
  <1>3. BooksOK'
    BY <1>1, <1>2 DEF BooksOK
  <1>4. Types' /\ JobsOK' /\ TasksKnow'
    BY DEF IInv, Types, JobsOK, TasksKnow
  <1>5. \A k \in Jobs : Heeds(k) /\ Respects(k) /\ ~Enters(k)
    BY DEF Heeds, Respects, Enters, Live
  <1> QED BY <1>3, <1>4, <1>5 DEF Orderly, IInv

LEMMA IndexCompletesKeeps ==
    ASSUME IInv, NEW c \in Authors, IndexCompletes(c)
    PROVE  /\ rev' \in [Authors -> Revision \cup {NoRevision}]
           /\ \A b \in Authors : /\ rev'[b].doc = rev[b].doc
                                 /\ rev'[b] = NoRevision <=> rev[b] = NoRevision
  <1>1. rev \in [Authors -> Revision \cup {NoRevision}]
    BY DEF IInv, Types
  <1>2. rev[c] \in Revision /\ rev[c].doc # None
    BY <1>1, ConstantRows DEF IndexCompletes
  <1>3. ASSUME NEW b \in Authors
        PROVE  /\ rev'[b] \in Revision \cup {NoRevision} /\ rev'[b].doc = rev[b].doc
               /\ rev'[b] = NoRevision <=> rev[b] = NoRevision
    <2>1. CASE rev[b].doc # rev[c].doc
      BY <1>1, <2>1 DEF IndexCompletes
    <2>2. CASE rev[b].doc = rev[c].doc
      <3> DEFINE now == (b = c)
                 v == rev[b]
                 w == [v EXCEPT !.ready = now]
      <3>1. v \in Revision
        BY <1>1, <1>2, <2>2, ConstantRows
      <3>2. rev'[b] = w
        BY <2>2 DEF IndexCompletes
      <3>3. now \in BOOLEAN
        OBVIOUS
      <3> HIDE DEF now, v
      <3>4. w \in Revision /\ w.doc = v.doc
        BY <3>1, <3>3 DEF Revision
      <3> HIDE DEF w
      <3> QED BY <3>1, <3>2, <3>4, ConstantRows DEF v
    <2> QED BY <2>1, <2>2
  <1>4. rev' \in [Authors -> Revision \cup {NoRevision}]
    <2>1. rev' = [b \in Authors |-> rev'[b]]
      BY DEF IndexCompletes
    <2> QED BY <1>3, <2>1
  <1> QED BY <1>3, <1>4

LEMMA IndexCompletesOK ==
    ASSUME IInv, NEW c \in Authors, IndexCompletes(c)
    PROVE  Orderly
  BY IndexCompletesKeeps, SameDocumentsOK DEF IndexCompletes

LEMMA ReviewAndPublishKeeps ==
    ASSUME IInv, NEW c \in Authors, ReviewAndPublish(c)
    PROVE  /\ rev' \in [Authors -> Revision \cup {NoRevision}]
           /\ \A b \in Authors : /\ rev'[b].doc = rev[b].doc
                                 /\ rev'[b] = NoRevision <=> rev[b] = NoRevision
  <1>1. rev \in [Authors -> Revision \cup {NoRevision}]
    BY DEF IInv, Types
  <1> DEFINE v == rev[c]
             w == [v EXCEPT !.reviewed = TRUE]
  <1>2. v \in Revision
    BY <1>1 DEF ReviewAndPublish
  <1>3. rev' = [rev EXCEPT ![c] = w]
    BY <1>1 DEF ReviewAndPublish
  <1>4. w \in Revision /\ w.doc = v.doc
    BY <1>2 DEF Revision
  <1> HIDE DEF w
  <1>5. rev' \in [Authors -> Revision \cup {NoRevision}]
    BY <1>1, <1>3, <1>4
  <1>6. \A b \in Authors : /\ rev'[b].doc = rev[b].doc
                           /\ rev'[b] = NoRevision <=> rev[b] = NoRevision
    BY <1>1, <1>2, <1>3, <1>4, ConstantRows
  <1> QED BY <1>5, <1>6

LEMMA ReviewAndPublishOK ==
    ASSUME IInv, NEW c \in Authors, ReviewAndPublish(c)
    PROVE  Orderly
  BY ReviewAndPublishKeeps, SameDocumentsOK DEF ReviewAndPublish

LEMMA RemoveDocumentOK ==
    ASSUME IInv, NEW d \in Authors, RemoveDocument(d)
    PROVE  Orderly
  <1>1. /\ rev \in [Authors -> Revision \cup {NoRevision}] /\ job \in [Jobs -> Job]
        /\ d # None
    BY ConstantRows DEF IInv, Types
  <1>2. /\ \A j \in Jobs : job'[j] = Detached(job[j], {d})
        /\ \A c \in Authors : rev'[c] = IF rev[c].doc = d THEN NoRevision ELSE rev[c]
        /\ UNCHANGED <<source, staged, sets, task>>
    BY DEF RemoveDocument
  <1>3. rev' \in [Authors -> Revision \cup {NoRevision}]
    BY <1>1 DEF RemoveDocument
  <1>4. Founded'
    <2> SUFFICES ASSUME NEW c \in Authors, rev'[c] # NoRevision
                 PROVE  rev'[rev'[c].doc].doc = rev'[c].doc
      BY DEF Founded
    <2>1. rev'[c] = rev[c] /\ rev[c].doc # d /\ rev[c] \in Revision
      BY <1>1, <1>2
    <2>2. rev[c].doc \in Authors /\ rev[rev[c].doc].doc = rev[c].doc
      BY <2>1 DEF IInv, BooksOK, Founded, Revision
    <2> QED BY <1>2, <2>1, <2>2
  <1>5. ASSUME NEW j \in Jobs
        PROVE  /\ job'[j] \in Job /\ Control(job'[j], job[j])
               /\ (BookOK(job[j]) /\ Wrote(job[j], j))'
    <2> DEFINE r == job[j]
               f == Detached(r, {d})
    <2>1. r \in Job /\ BookOK(r) /\ Wrote(r, j) /\ j \in Authors
          /\ r.document \in Authors \cup {None}
      BY JobFacts DEF Authors, Job
    <2>2. /\ f \in Job /\ Control(f, r)
          /\ r.document # d => /\ f.document = r.document
                               /\ f.revision = r.revision
                               /\ f.capture = r.capture
                               /\ f.created_document = r.created_document
          /\ r.document = d => /\ f.document = None /\ f.revision = None
                               /\ f.capture = "removed" /\ ~f.created_document
      BY <2>1, DetachedRow
    <2>3. job'[j] = f
      BY <1>2
    <2> HIDE DEF f
    <2>4. f.status = r.status /\ f.choice = r.choice
      BY <2>2 DEF Control, Plain
    <2>5. CASE r.document = d
      <3>1. BookOK(f)
        BY <1>1, <2>1, <2>2, <2>4, <2>5 DEF BookOK, CapturedRevision
      <3>2. (BookOK(job[j]))'
        BY <2>3, <3>1 DEF BookOK, CapturedRevision
      <3>3. (Wrote(job[j], j))'
        BY <2>2, <2>3, <2>5 DEF Wrote
      <3> QED BY <2>2, <2>3, <3>2, <3>3
    <2>6. CASE r.document # d
      <3>1. (BookOK(job[j]))'
        BY <2>1, <2>2, <2>3, <2>4, <2>6 DEF BookOK, CapturedRevision
      <3>2. r.document # None => rev'[r.document].doc = r.document
        BY <1>2, <2>1, <2>6 DEF Wrote
      <3>3. r.capture \in {"pending", "not_requested"} =>
                rev'[j] = NoRevision /\ f.revision = None /\ ~f.created_document
        BY <1>2, <2>1, <2>2, <2>6 DEF Wrote
      <3>4. r.capture = "captured" =>
                /\ f.revision = j /\ rev'[j].doc = r.document
                /\ f.created_document <=> r.document = j
        BY <1>2, <2>1, <2>2, <2>6 DEF Wrote
      <3>5. (Wrote(job[j], j))'
        BY <2>2, <2>3, <2>6, <3>2, <3>3, <3>4 DEF Wrote
      <3> QED BY <2>2, <2>3, <3>1, <3>5
    <2> QED BY <2>5, <2>6
  <1>6. BooksOK'
    BY <1>4, <1>5 DEF BooksOK
  <1>7. job' \in [Jobs -> Job]
    <2>1. job' = [j \in Jobs |-> job'[j]]
      BY DEF RemoveDocument
    <2> QED BY <1>5, <2>1
  <1>8. /\ source' \in [Jobs -> Sources] /\ staged' \in [Jobs -> Run \cup {None}]
        /\ sets' = sets /\ task' = task
    BY <1>2 DEF IInv, Types, Sources
  <1>9. ASSUME NEW k \in Jobs
        PROVE  /\ JobOK(job'[k], source'[k], staged'[k], sets'[k])
               /\ Keeps(job'[k], job[k])
               /\ Heeds(k) /\ Respects(k) /\ ~Enters(k)
    <2>1. JobOK(job[k], source[k], staged[k], sets[k])
      BY DEF IInv, JobsOK
    <2>2. Control(job'[k], job[k])
      BY <1>5
    <2>3. JobOK(job'[k], source[k], staged[k], sets[k])
      BY <2>1, <2>2, ControlKept
    <2>4. Follows(job'[k], job[k])
      BY <2>2, ControlFollows
    <2> QED BY <1>2, <2>3, <2>4, FollowsOrderly
  <1> QED BY <1>3, <1>6, <1>7, <1>8, <1>9, ManyRows

\* A job is cancelled and its capture rolled back, under the rows of the others.
LEMMA CancelledOK ==
    ASSUME IInv, NEW j \in Jobs, RollbackAccepted({j}),
           NEW f \in Job, Plain(f, AfterRollback(j, {j})), Books(f, AfterRollback(j, {j})),
           f.status = "cancelled", f.expires_at = "null", f.lease_expires_at = "null",
           job' = [k \in Jobs |-> IF k = j THEN f ELSE AfterRollback(k, {j})],
           rev' = RevisionsAfterRollback({j}),
           source' = [source EXCEPT ![j] = "absent"],
           staged' \in [Jobs -> Run \cup {None}], staged'[j] = None,
           \A k \in Jobs : k # j => staged'[k] = staged[k],
           sets' = sets, task' = task \/ \E t \in Tasks : Leave(t),
           job[j].status \in Waiting \cup {"running"}, Respects(j)
    PROVE  Orderly
  <1> DEFINE js == {j}
  <1>1. Types /\ BooksOK /\ job \in [Jobs -> Job]
    BY DEF IInv, Types
  <1>2. ASSUME NEW k \in Jobs
        PROVE  AfterRollback(k, {j}) \in Job /\ Control(AfterRollback(k, {j}), job[k])
    BY <1>1, RollbackRow
  <1>3. job'[j] = f /\ \A k \in Jobs : k # j => job'[k] = AfterRollback(k, {j})
    OBVIOUS
  <1>4. job' \in [Jobs -> Job]
    BY <1>2
  <1>5. ASSUME NEW k \in Jobs
        PROVE  LET g == AfterRollback(k, {j}) IN
               /\ job'[k].document = g.document /\ job'[k].revision = g.revision
               /\ job'[k].capture = g.capture
               /\ job'[k].created_document = g.created_document
               /\ job'[k].choice = g.choice
               /\ job'[k].status \in {"absent", "awaiting_choice"}
                      => job'[k].status = g.status
    <2>1. CASE k = j
      BY <1>3, <2>1 DEF Plain, Books
    <2>2. CASE k # j
      BY <1>3, <2>2
    <2> QED BY <2>1, <2>2
  <1>6. BooksOK' /\ rev' \in [Authors -> Revision \cup {NoRevision}]
    <2>1. js \in SUBSET Jobs /\ RollbackAccepted(js) /\ rev' = RevisionsAfterRollback(js)
      OBVIOUS
    <2>2. \A k \in js : job'[k].status # "awaiting_choice"
      BY <1>3
    <2> QED BY <1>1, <1>5, <2>1, <2>2, RolledBackOK
  <1>7. source' \in [Jobs -> Sources] /\ source'[j] = "absent"
        /\ \A k \in Jobs : k # j => source'[k] = source[k]
    BY DEF IInv, Types, Sources
  <1>8. ASSUME NEW k \in Jobs, k # j
        PROVE  /\ JobOK(job'[k], source'[k], staged'[k], sets'[k])
               /\ Keeps(job'[k], job[k])
               /\ Heeds(k) /\ Respects(k) /\ ~Enters(k)
    <2>1. JobOK(job[k], source[k], staged[k], sets[k])
      BY DEF IInv, JobsOK
    <2>2. Control(job'[k], job[k])
      BY <1>2, <1>3, <1>8
    <2>3. JobOK(job'[k], source[k], staged[k], sets[k])
      BY <2>1, <2>2, ControlKept
    <2>4. Follows(job'[k], job[k])
      BY <2>2, ControlFollows
    <2> QED BY <1>7, <1>8, <2>3, <2>4, FollowsOrderly
  <1>9. /\ f.kind = job[j].kind /\ f.choice = job[j].choice
        /\ f.attempt_count = job[j].attempt_count
        /\ f.manual_retry_count = job[j].manual_retry_count
    BY <1>2 DEF Control, Plain
  <1>10. JobOK(f, source'[j], staged'[j], sets'[j])
    <2>1. /\ RowOK(job[j]) /\ Counted(job[j], sets[j])
      BY JobFacts
    <2>2. RowOK(f)
      BY <1>9, <2>1 DEF RowOK, Early, Waits, Uploaded
    <2>3. Kept(f, source'[j])
      BY <1>7 DEF Kept
    <2>4. Staged(f, staged'[j])
      BY DEF Staged
    <2>5. Counted(f, sets'[j])
      BY <2>1 DEF Counted, Waiting
    <2> QED BY <2>2, <2>3, <2>4, <2>5 DEF JobOK
  <1>11. Keeps(f, job[j])
    BY <1>9 DEF Keeps, Early
  <1>12. Heeds(j) /\ ~Enters(j)
    BY <1>3 DEF Heeds, Enters, Live, Waiting
  <1>13. \A k \in Jobs : JobOK(job'[k], source'[k], staged'[k], sets'[k])
    BY <1>3, <1>8, <1>10
  <1>14. \A k \in Jobs : Keeps(job'[k], job[k])
    BY <1>3, <1>8, <1>11
  <1>15. \A k \in Jobs : Heeds(k) /\ Respects(k) /\ ~Enters(k)
    BY <1>8, <1>12
  <1> QED BY <1>4, <1>6, <1>7, <1>13, <1>14, <1>15, ManyRows

LEMMA CancelWaitingOK ==
    ASSUME IInv, NEW j \in Jobs, CancelWaiting(j)
    PROVE  Orderly
  <1> DEFINE q == AfterRollback(j, {j})
             g == Cancelled(q)
             f == Requested(g)
  <1>1. /\ job[j].status \in Waiting /\ RollbackAccepted({j})
        /\ rev' = RevisionsAfterRollback({j})
        /\ source' = [source EXCEPT ![j] = "absent"]
        /\ staged' = [staged EXCEPT ![j] = None]
        /\ sets' = sets /\ task' = task
    BY DEF CancelWaiting
  <1>2. job' = [k \in Jobs |-> IF k = j THEN f ELSE AfterRollback(k, {j})]
    BY DEF CancelWaiting, Requested
  <1>3. job \in [Jobs -> Job]
    BY DEF IInv, Types
  <1>4. q \in Job
    BY <1>3, RollbackRow
  <1> HIDE DEF q
  <1>5. /\ g \in Job /\ Plain(g, q) /\ Books(g, q)
        /\ g.status = "cancelled" /\ g.expires_at = "null"
        /\ g.lease_expires_at = "null"
    BY <1>4, CancelledRow
  <1> HIDE DEF g
  <1>6. /\ f \in Job /\ Plain(f, g) /\ Books(f, g) /\ f.status = g.status
        /\ f.expires_at = g.expires_at /\ f.lease_expires_at = g.lease_expires_at
    BY <1>5, RequestedRow
  <1> HIDE DEF f
  <1>7. Plain(f, q) /\ Books(f, q)
    BY <1>5, <1>6 DEF Plain, Books
  <1>8. staged' \in [Jobs -> Run \cup {None}] /\ staged'[j] = None
        /\ \A k \in Jobs : k # j => staged'[k] = staged[k]
    BY <1>1 DEF IInv, Types
  <1>9. Respects(j)
    BY <1>1 DEF Respects, Live, Waiting
  <1>10. Plain(f, AfterRollback(j, {j})) /\ Books(f, AfterRollback(j, {j}))
    BY <1>7 DEF q
  <1>11. /\ f \in Job /\ f.status = "cancelled" /\ f.expires_at = "null"
         /\ f.lease_expires_at = "null"
    BY <1>5, <1>6
  <1> QED BY <1>1, <1>2, <1>8, <1>9, <1>10, <1>11, CancelledOK

LEMMA FinishCancelledOK ==
    ASSUME IInv, NEW t \in Tasks, FinishCancelled(t)
    PROVE  Orderly
  <1> DEFINE j == task[t].job
             q == AfterRollback(j, {j})
             f == Cancelled(q)
  <1>1. /\ task[t].pc = "finish_cancelled" /\ Holds(t) /\ Leave(t)
        /\ UNCHANGED <<staged, sets>>
    BY DEF FinishCancelled
  <1>2. j \in Jobs /\ job[j].status = "running" /\ staged[j] = None
    BY <1>1, HeldRow
  <1>3. CASE UNCHANGED <<job, rev, source>>
    <2>1. Knows("idle", job[j])
      BY DEF Knows
    <2> QED BY <1>1, <1>3, <2>1, LeaveMoves, QuietOK
  <1>4. CASE /\ RollbackAccepted({j})
             /\ job' = [k \in Jobs |-> IF k = j THEN f ELSE AfterRollback(k, {j})]
             /\ rev' = RevisionsAfterRollback({j})
             /\ source' = [source EXCEPT ![j] = "absent"]
    <2>1. job \in [Jobs -> Job] /\ staged \in [Jobs -> Run \cup {None}]
      BY DEF IInv, Types
    <2>2. Respects(j)
      <3>1. /\ task[t].job = j /\ task[t].run = RunOf(job[j]) /\ task[t].pc # "idle"
            /\ task'[t] = Idle
        BY <1>1 DEF Holds, Leave, IInv, Types
      <3> QED BY <3>1 DEF Respects
    <2> HIDE DEF j
    <2>3. q \in Job
      BY <1>2, <2>1, RollbackRow
    <2> HIDE DEF q
    <2>4. /\ f \in Job /\ Plain(f, q) /\ Books(f, q)
          /\ f.status = "cancelled" /\ f.expires_at = "null"
          /\ f.lease_expires_at = "null"
      BY <2>3, CancelledRow
    <2> HIDE DEF f
    <2>5. Plain(f, AfterRollback(j, {j})) /\ Books(f, AfterRollback(j, {j}))
      BY <2>4 DEF q
    <2>6. staged' \in [Jobs -> Run \cup {None}] /\ staged'[j] = None
          /\ \A k \in Jobs : k # j => staged'[k] = staged[k]
      BY <1>1, <1>2, <2>1
    <2>7. f \in Job /\ sets' = sets /\ (task' = task \/ \E u \in Tasks : Leave(u))
      BY <1>1, <2>4
    <2>8. job[j].status \in Waiting \cup {"running"} /\ j \in Jobs
      BY <1>2
    <2> QED BY <1>4, <2>2, <2>4, <2>5, <2>6, <2>7, <2>8, CancelledOK
  <1> QED BY <1>3, <1>4 DEF FinishCancelled

-----------------------------------------------------------------------------
(* A capture: a revision of the job's document, or of one of its own.      *)

LEMMA PreparedRevision ==
    ASSUME rev \in [Authors -> Revision \cup {NoRevision}], NEW d, d \in Authors,
           NEW f1, f1 \in Files
    PROVE  Prepared(d, f1) \in Revision /\ Prepared(d, f1).doc = d
  <1> DEFINE n == IF Revisions(d) = {} THEN 1 ELSE rev[Latest(d)].no + 1
  <1>1. n \in Nat
    <2>1. CASE Revisions(d) # {}
      <3>1. d \in Documents
        BY <2>1 DEF Documents
      <3>2. rev[Latest(d)].no \in Nat
        BY <3>1, LatestOf DEF Revision
      <3> QED BY <2>1, <3>2
    <2>2. CASE Revisions(d) = {}
      BY <2>2
    <2> QED BY <2>1, <2>2
  <1>2. Prepared(d, f1) = [doc |-> d, no |-> n, file |-> f1, ready |-> FALSE,
                           reviewed |-> FALSE]
    BY DEF Prepared
  <1> HIDE DEF n
  <1> QED BY <1>1, <1>2 DEF Revision

LEMMA CapturePreparedOK ==
    ASSUME IInv, NEW t \in Tasks, CapturePrepared(t)
    PROVE  Orderly
  <1> DEFINE j == task[t].job
             r == job[j]
             d == IF r.document = None THEN j ELSE r.document
             v == Prepared(d, r.file)
             f == Captured(r, j, d)
             pc == AfterCapture(j)
  <1>1. /\ task[t].pc = "capture" /\ Holds(t) /\ r.capture = "pending"
        /\ rev' = [rev EXCEPT ![j] = v] /\ Goto(t, pc)
        /\ UNCHANGED <<source, staged, sets>>
    BY DEF CapturePrepared, Claimed
  <1>2. j \in Jobs /\ r.status = "running" /\ r.file \in Files /\ r.choice # "reuse"
    BY <1>1, HeldRow DEF Knows
  <1>3. job' = [job EXCEPT ![j] = f]
    BY <1>2 DEF CapturePrepared, IInv, Types
  <1>4. /\ r \in Job /\ BookOK(r) /\ Wrote(r, j) /\ r.document \in Authors \cup {None}
        /\ j \in Authors /\ j # None
    BY <1>2, JobFacts, ConstantRows DEF Job, Authors
  <1>5. /\ rev \in [Authors -> Revision \cup {NoRevision}] /\ job \in [Jobs -> Job]
    BY DEF IInv, Types
  <1>6. /\ rev[j] = NoRevision /\ d \in Authors /\ d # None
        /\ r.document # None => rev[d].doc = d /\ d # j
        /\ r.document = None <=> d = j
    BY <1>1, <1>4, ConstantRows DEF Wrote
  <1>7. v \in Revision /\ v.doc = d
    BY <1>2, <1>5, <1>6, PreparedRevision
  <1>8. /\ f \in Job /\ Control(f, r) /\ f.document = d /\ f.revision = j
        /\ f.capture = "captured"
    BY <1>2, <1>4, <1>6, CapturedRow
  <1>9. f.created_document = (r.document = None)
    BY <1>2, <1>4, <1>6, CapturedRow
  <1>10. pc \in Pc /\ pc # "idle" /\ Knows(pc, f)
    <2>1. f.kind = r.kind /\ f.status = r.status
      BY <1>8 DEF Control, Plain
    <2>2. r.kind \in {"flashcards", "knowledge_only"}
      BY <1>4 DEF Job
    <2> HIDE DEF f
    <2> QED BY <1>2, <2>1, <2>2 DEF AfterCapture, Pc, Knows, Early
  <1>11. PICK e \in Task : task' = [task EXCEPT ![t] = e] /\ e.pc = pc /\ e.job = j
    BY <1>1, <1>10, GotoMoves DEF Moves
  <1> HIDE DEF f, v, d, pc, j
  <1>12. /\ rev' \in [Authors -> Revision \cup {NoRevision}] /\ rev'[j] = v
         /\ \A c \in Authors : c # j => rev'[c] = rev[c]
    BY <1>1, <1>4, <1>5, <1>7
  <1>13. /\ job' \in [Jobs -> Job] /\ job'[j] = f
         /\ \A k \in Jobs : k # j => job'[k] = job[k]
    BY <1>2, <1>3, <1>5, <1>8
  <1>14. \A c \in Authors : rev[c].doc = c => c # j /\ rev'[c].doc = c
    BY <1>4, <1>6, <1>12, ConstantRows
  <1>15. rev'[d].doc = d
    BY <1>6, <1>7, <1>12
  <1>16. Founded'
    <2> SUFFICES ASSUME NEW c \in Authors, rev'[c] # NoRevision
                 PROVE  rev'[rev'[c].doc].doc = rev'[c].doc
      BY DEF Founded
    <2>1. CASE c = j
      BY <1>7, <1>12, <1>15, <2>1
    <2>2. CASE c # j
      <3>1. rev'[c] = rev[c] /\ rev[c] \in Revision
        BY <1>5, <1>12, <2>2
      <3>2. rev[c].doc \in Authors /\ rev[rev[c].doc].doc = rev[c].doc
        BY <3>1, <1>12, <2>2 DEF IInv, BooksOK, Founded, Revision
      <3> QED BY <1>14, <3>1, <3>2
    <2> QED BY <2>1, <2>2
  <1>17. BookOK(f)
    <2>1. f.choice = r.choice /\ f.status = r.status
      BY <1>8 DEF Control, Plain
    <2> QED BY <1>2, <1>4, <1>6, <1>8, <2>1 DEF BookOK, CapturedRevision
  <1>18. ASSUME NEW k \in Jobs PROVE (BookOK(job[k]) /\ Wrote(job[k], k))'
    <2>1. CASE k = j
      <3>1. (BookOK(job[k]))'
        BY <1>13, <1>17, <2>1 DEF BookOK, CapturedRevision
      <3>2. /\ f.document # None => rev'[f.document].doc = f.document
            /\ f.revision = j /\ rev'[j].doc = f.document
            /\ f.created_document <=> f.document = j
        BY <1>6, <1>7, <1>8, <1>9, <1>12, <1>15
      <3>3. (Wrote(job[k], k))'
        BY <1>8, <1>13, <2>1, <3>2 DEF Wrote
      <3> QED BY <3>1, <3>3
    <2>2. CASE k # j
      <3>1. /\ BookOK(job[k]) /\ Wrote(job[k], k) /\ job'[k] = job[k] /\ k \in Authors
            /\ job[k].document \in Authors \cup {None} /\ rev'[k] = rev[k]
        BY <1>12, <1>13, <2>2, JobFacts DEF Authors, Job
      <3>2. (BookOK(job[k]))'
        BY <3>1 DEF BookOK, CapturedRevision
      <3>3. job[k].document # None => rev'[job[k].document].doc = job[k].document
        BY <1>14, <3>1 DEF Wrote
      <3>4. (Wrote(job[k], k))'
        BY <3>1, <3>3 DEF Wrote
      <3> QED BY <3>2, <3>4
    <2> QED BY <2>1, <2>2
  <1>19. BooksOK'
    BY <1>16, <1>18 DEF BooksOK
  <1>20. ASSUME NEW k \in Jobs
         PROVE  /\ JobOK(job'[k], source'[k], staged'[k], sets'[k])
                /\ Keeps(job'[k], job[k])
                /\ Heeds(k) /\ Respects(k) /\ ~Enters(k)
    <2>1. JobOK(job[k], source[k], staged[k], sets[k])
      BY DEF IInv, JobsOK
    <2>2. Control(job'[k], job[k])
      <3>1. CASE k = j
        BY <1>8, <1>13, <3>1
      <3>2. CASE k # j
        BY <1>13, <3>2 DEF Control, Plain
      <3> QED BY <3>1, <3>2
    <2>3. JobOK(job'[k], source[k], staged[k], sets[k])
      BY <2>1, <2>2, ControlKept
    <2>4. Follows(job'[k], job[k])
      BY <2>2, ControlFollows
    <2> QED BY <1>1, <2>3, <2>4, FollowsOrderly
  <1>21. JobsOK'
    BY <1>20 DEF JobsOK
  <1>22. /\ TasksKnow' /\ task' \in [Tasks -> Task]
         /\ \A u \in Tasks : task'[u].pc # "idle" => task'[u].job \in Jobs
    <2>1. Types /\ TasksKnow /\ job' \in [Jobs -> Job]
      BY <1>13 DEF IInv
    <2>2. Knows(e.pc, job'[e.job]) /\ (e.pc # "idle" => e.job \in Jobs)
      BY <1>2, <1>10, <1>11, <1>13
    <2>3. \A k \in Jobs : Keeps(job'[k], job[k])
      BY <1>20
    <2> QED BY <1>11, <2>1, <2>2, <2>3, OneTask
  <1>23. Types'
    BY <1>1, <1>12, <1>13, <1>22 DEF IInv, Types
  <1> QED BY <1>19, <1>20, <1>21, <1>22, <1>23 DEF Orderly, IInv

-----------------------------------------------------------------------------
(* Recovery.                                                               *)

\* A pass of recovery over the rows it gets to see.
LEMMA RecoverBatchOK ==
    ASSUME IInv, NEW batch \in SUBSET Jobs, NEW sweep \in SUBSET Jobs,
           RecoverBatch(batch, sweep)
    PROVE  Orderly
  <1> DEFINE undone == Undone(batch)
             q(j) == AfterRollback(j, undone)
             f1(j) == IF j \in batch THEN Recovered(q(j), source[j]) ELSE q(j)
             s1(j) == IF j \in batch THEN SourceRecovered(job[j], source[j]) ELSE source[j]
             f2(j) == IF j \in sweep THEN Swept(f1(j), s1(j)) ELSE f1(j)
             s2(j) == IF j \in sweep /\ s1(j) = "past" THEN "absent" ELSE s1(j)
             st2(j) == IF j \in batch /\ job[j].status = "awaiting_card_choice"
                                      /\ job[j].expires_at = "past"
                         THEN None ELSE staged[j]
  <1>1. /\ RollbackAccepted(undone) /\ rev' = RevisionsAfterRollback(undone)
        /\ job' = [j \in Jobs |-> f2(j)] /\ source' = [j \in Jobs |-> s2(j)]
        /\ staged' = [j \in Jobs |-> st2(j)]
        /\ sets' = sets /\ task' = task
    <2>1. PICK b \in {Undone(batch)} :
             \E left \in {[j \in Jobs |-> AfterRollback(j, b)]} :
             \E recovered \in {[j \in Jobs |->
                    IF j \in batch THEN Recovered(left[j], source[j]) ELSE left[j]]},
                sources \in {[j \in Jobs |->
                    IF j \in batch THEN SourceRecovered(job[j], source[j]) ELSE source[j]]} :
                 /\ RollbackAccepted(b)
                 /\ job' = [j \in Jobs |->
                        IF j \in sweep THEN Swept(recovered[j], sources[j]) ELSE recovered[j]]
                 /\ source' = [j \in Jobs |->
                        IF j \in sweep /\ sources[j] = "past" THEN "absent" ELSE sources[j]]
                 /\ rev' = RevisionsAfterRollback(b)
      BY DEF RecoverBatch
    <2>2. b = undone
      BY <2>1
    <2>3. PICK left \in {[j \in Jobs |-> q(j)]} :
             \E recovered \in {[j \in Jobs |->
                    IF j \in batch THEN Recovered(left[j], source[j]) ELSE left[j]]},
                sources \in {[j \in Jobs |-> s1(j)]} :
                 /\ RollbackAccepted(undone)
                 /\ job' = [j \in Jobs |->
                        IF j \in sweep THEN Swept(recovered[j], sources[j]) ELSE recovered[j]]
                 /\ source' = [j \in Jobs |->
                        IF j \in sweep /\ sources[j] = "past" THEN "absent" ELSE sources[j]]
                 /\ rev' = RevisionsAfterRollback(undone)
      BY <2>1, <2>2
    <2> HIDE DEF undone, q
    <2>4. left = [j \in Jobs |-> q(j)]
      BY <2>3
    <2>5. [j \in Jobs |-> IF j \in batch THEN Recovered(left[j], source[j]) ELSE left[j]]
              = [j \in Jobs |-> f1(j)]
      BY <2>4
    <2>6. PICK recovered \in {[j \in Jobs |-> f1(j)]}, sources \in {[j \in Jobs |-> s1(j)]} :
                 /\ RollbackAccepted(undone)
                 /\ job' = [j \in Jobs |->
                        IF j \in sweep THEN Swept(recovered[j], sources[j]) ELSE recovered[j]]
                 /\ source' = [j \in Jobs |->
                        IF j \in sweep /\ sources[j] = "past" THEN "absent" ELSE sources[j]]
                 /\ rev' = RevisionsAfterRollback(undone)
      BY <2>3, <2>5
    <2> HIDE DEF f1, s1
    <2>7. recovered = [j \in Jobs |-> f1(j)] /\ sources = [j \in Jobs |-> s1(j)]
      BY <2>6
    <2>8. job' = [j \in Jobs |-> f2(j)] /\ source' = [j \in Jobs |-> s2(j)]
      BY <2>6, <2>7
    <2>9. staged' = [j \in Jobs |-> st2(j)] /\ sets' = sets /\ task' = task
      BY DEF RecoverBatch
    <2> QED BY <2>6, <2>8, <2>9
  <1>2. undone \in SUBSET Jobs
        /\ \A j \in undone : job[j].status \in {"awaiting_upload", "running"}
    BY DEF Undone, LeaseExpired
  <1> HIDE DEF undone
  <1>3. Types /\ BooksOK /\ job \in [Jobs -> Job]
    BY DEF IInv, Types
  <1>4. ASSUME NEW j \in Jobs
        PROVE  /\ f2(j) \in Job /\ Plain(f2(j), job[j]) /\ Books(f2(j), q(j))
               /\ s2(j) \in Sources /\ st2(j) \in Run \cup {None}
               /\ JobOK(f2(j), s2(j), st2(j), sets[j]) /\ Follows(f2(j), job[j])
               /\ q(j).choice = job[j].choice /\ q(j).status = job[j].status
    <2> DEFINE r == job[j]
               qq == q(j)
               s == source[j]
    <2>1. /\ r \in Job /\ s \in Sources /\ staged[j] \in Run \cup {None}
          /\ JobOK(r, s, staged[j], sets[j])
      BY JobFacts DEF JobOK
    <2>2. qq \in Job /\ Control(qq, r)
      BY <1>3, RollbackRow
    <2>3. qq.choice = r.choice /\ qq.status = r.status /\ Plain(qq, r)
      BY <2>2 DEF Control, Plain
    <2> HIDE DEF q, qq
    <2>4. /\ f1(j) \in Job /\ Plain(f1(j), r) /\ Books(f1(j), qq) /\ s1(j) \in Sources
          /\ JobOK(f1(j), s1(j), st2(j), sets[j]) /\ Follows(f1(j), r)
      <3>1. CASE j \in batch
        <4> DEFINE st == IF r.status = "awaiting_card_choice" /\ r.expires_at = "past"
                           THEN None ELSE staged[j]
                   sr == SourceRecovered(r, s)
                   g == Recovered(qq, s)
        <4>1. f1(j) = g /\ s1(j) = sr /\ st2(j) = st
          BY <3>1 DEF qq
        <4>2. /\ g \in Job /\ Plain(g, r) /\ Books(g, qq) /\ sr \in Sources
              /\ JobOK(g, sr, st, sets[j]) /\ Follows(g, r)
          BY <2>1, <2>2, RecoveredOK
        <4> HIDE DEF g, sr, st, f1, s1, st2
        <4> QED BY <4>1, <4>2
      <3>2. CASE j \notin batch
        <4>1. f1(j) = qq /\ s1(j) = s /\ st2(j) = staged[j]
          BY <3>2 DEF qq
        <4>2. Books(qq, qq)
          BY DEF Books
        <4>3. JobOK(qq, s, staged[j], sets[j]) /\ Follows(qq, r)
          BY <2>1, <2>2, ControlKept, ControlFollows
        <4> HIDE DEF f1, s1, st2
        <4> QED BY <2>1, <2>2, <2>3, <4>1, <4>2, <4>3
      <3> QED BY <3>1, <3>2
    <2>5. st2(j) \in Run \cup {None}
      BY <2>1
    <2> HIDE DEF f1, s1, st2
    <2>6. /\ f2(j) \in Job /\ Plain(f2(j), r) /\ Books(f2(j), qq) /\ s2(j) \in Sources
          /\ JobOK(f2(j), s2(j), st2(j), sets[j]) /\ Follows(f2(j), r)
      <3>1. CASE j \in sweep
        <4> DEFINE g == Swept(f1(j), s1(j))
                   sg == IF s1(j) = "past" THEN "absent" ELSE s1(j)
        <4>1. f2(j) = g /\ s2(j) = sg
          BY <3>1
        <4>2. /\ g \in Job /\ Plain(g, f1(j)) /\ Books(g, f1(j)) /\ sg \in Sources
              /\ JobOK(g, sg, st2(j), sets[j]) /\ Follows(g, f1(j))
          BY <2>4, SweptOK
        <4> HIDE DEF g, sg, f2, s2
        <4>3. Plain(g, r) /\ Books(g, qq)
          BY <2>4, <4>2 DEF Plain, Books
        <4>4. Follows(g, r)
          BY <2>4, <4>2, FollowsTransitive
        <4> QED BY <4>1, <4>2, <4>3, <4>4
      <3>2. CASE j \notin sweep
        <4>1. f2(j) = f1(j) /\ s2(j) = s1(j)
          BY <3>2
        <4> HIDE DEF f2, s2
        <4> QED BY <2>4, <4>1
      <3> QED BY <3>1, <3>2
    <2> HIDE DEF f2, s2
    <2> QED BY <2>3, <2>5, <2>6 DEF qq
  <1>5. \A j \in Jobs : job'[j] = f2(j) /\ source'[j] = s2(j) /\ staged'[j] = st2(j)
    BY <1>1
  <1>6. /\ job' \in [Jobs -> Job] /\ source' \in [Jobs -> Sources]
        /\ staged' \in [Jobs -> Run \cup {None}]
    <2> HIDE DEF f2, s2, st2
    <2> QED BY <1>1, <1>4
  <1> HIDE DEF f1, s1, f2, s2, st2
  <1>7. ASSUME NEW j \in Jobs
        PROVE  /\ job'[j].document = q(j).document /\ job'[j].revision = q(j).revision
               /\ job'[j].capture = q(j).capture
               /\ job'[j].created_document = q(j).created_document
               /\ job'[j].choice = q(j).choice
               /\ job'[j].status \in {"absent", "awaiting_choice"}
                      => job'[j].status = q(j).status
               /\ job'[j].status = "awaiting_choice" => j \notin undone
    <2>1. /\ Plain(f2(j), job[j]) /\ Books(f2(j), q(j)) /\ Follows(f2(j), job[j])
          /\ q(j).choice = job[j].choice /\ q(j).status = job[j].status
          /\ job'[j] = f2(j)
      BY <1>4, <1>5
    <2> HIDE DEF q
    <2> QED BY <1>2, <2>1 DEF Plain, Books, Follows
  <1>8. BooksOK' /\ rev' \in [Authors -> Revision \cup {NoRevision}]
    <2>1. \A j \in undone : job'[j].status # "awaiting_choice"
      BY <1>2, <1>7
    <2> QED BY <1>1, <1>2, <1>3, <1>7, <2>1, RolledBackOK
  <1>9. ASSUME NEW k \in Jobs
        PROVE  /\ JobOK(job'[k], source'[k], staged'[k], sets'[k])
               /\ Keeps(job'[k], job[k])
               /\ Heeds(k) /\ Respects(k) /\ ~Enters(k)
    <2>1. JobOK(job'[k], source'[k], staged'[k], sets'[k]) /\ Follows(job'[k], job[k])
      BY <1>1, <1>4, <1>5
    <2> QED BY <1>1, <2>1, FollowsOrderly
  <1> QED BY <1>1, <1>6, <1>8, <1>9, ManyRows

LEMMA RecoverAndCleanupOK ==
    ASSUME IInv, RecoverAndCleanup
    PROVE  Orderly
  <1>1. Due \in SUBSET Jobs /\ DueSources \in SUBSET Jobs
    BY DEF Due, DueSources
  <1>2. PICK batch \in SUBSET Due, sweep \in SUBSET DueSources : RecoverBatch(batch, sweep)
    BY DEF RecoverAndCleanup
  <1>3. batch \in SUBSET Jobs /\ sweep \in SUBSET Jobs
    BY <1>1
  <1> QED BY <1>2, <1>3, RecoverBatchOK

-----------------------------------------------------------------------------
(* The invariant of the specification.                                     *)

LEMMA Initially == Init => IInv
  <1> SUFFICES ASSUME Init PROVE IInv
    OBVIOUS
  <1> USE DEF Init
  <1>1. Types
    <2>1. \A c \in Authors : rev[c] \in Revision \cup {NoRevision}
      BY DEF Authors, Revision
    <2>2. task \in [Tasks -> Task] /\ \A t \in Tasks : task[t].pc = "idle"
      BY ConstantRows DEF Idle
    <2>3. job \in [Jobs -> Job]
      BY ConstantRows
    <2> QED BY <2>1, <2>2, <2>3 DEF Types
  <1>2. JobsOK
    BY GenerationAssumption
    DEF JobsOK, JobOK, RowOK, Kept, Staged, Counted, Absent, Waits, Early, Uploaded
  <1>3. TasksKnow
    BY DEF TasksKnow, Knows, Idle
  <1>4. Founded
    BY ConstantRows DEF Founded, Authors
  <1>5. ASSUME NEW j \in Jobs PROVE BookOK(job[j]) /\ Wrote(job[j], j)
    <2>1. j \in Authors /\ j # Seed /\ job[j] = Absent
      BY GenerationAssumption DEF Authors
    <2>2. rev[j] = NoRevision
      BY <2>1
    <2> QED BY <2>1, <2>2 DEF BookOK, Wrote, Absent, CapturedRevision
  <1> QED BY <1>1, <1>2, <1>3, <1>4, <1>5 DEF IInv, BooksOK

\* Only these steps let a job take a place it did not hold.
Admits(j) ==
    /\ \A k \in Jobs : k # j => ~Enters(k)
    /\ \/ ~Live(job'[j]) /\ MayHold(j, job'[j].kind)
       \/ /\ HasCapacity /\ job[j].status = "queued"
          /\ job'[j].kind = job[j].kind

Sound ==
    /\ IInv'
    /\ \A k \in Jobs : Heeds(k) /\ Respects(k)
    /\ (\A k \in Jobs : ~Enters(k)) \/ \E j \in Jobs : Admits(j)

LEMMA OrderlySound == Orderly => Sound
  BY DEF Orderly, Sound

LEMMA StepSound ==
    ASSUME IInv, [Next]_vars
    PROVE  Sound
  <1>1. CASE UNCHANGED vars
    <2>1. UNCHANGED <<job, source, staged, sets, rev, task>>
      BY <1>1 DEF vars
    <2>2. IInv'
      BY <2>1 DEF IInv, Types, JobsOK, TasksKnow, BooksOK, Founded, BookOK,
         CapturedRevision, Wrote
    <2>3. \A k \in Jobs : Heeds(k) /\ Respects(k) /\ ~Enters(k)
      BY <2>1 DEF Heeds, Respects, Enters, Live
    <2> QED BY <2>2, <2>3 DEF Sound
  <1>2. ASSUME NEW j \in Jobs, Instructor(j) PROVE Sound
    <2>1. CASE Reserve(j)
      <3>1. Admits(j)
        BY <2>1, ReserveOK DEF Admits
      <3> QED BY <2>1, <3>1, ReserveOK DEF Sound
    <2>2. CASE \E f \in Files : AttachSource(j, f)
      BY <2>2, AttachSourceOK, OrderlySound
    <2>3. CASE Reuse(j)
      BY <2>3, ReuseOK, OrderlySound
    <2>4. CASE SeparateCopy(j)
      BY <2>4, SeparateCopyOK, OrderlySound
    <2>5. CASE SubmitCardChoice(j)
      BY <2>5, SubmitCardChoiceOK, OrderlySound
    <2>6. CASE CancelWaiting(j)
      BY <2>6, CancelWaitingOK, OrderlySound
    <2>7. CASE CancelRunning(j)
      BY <2>7, CancelRunningOK, OrderlySound
    <2>8. CASE Retry(j)
      <3>1. Admits(j)
        BY <2>8, RetryOK DEF Admits
      <3> QED BY <2>8, <3>1, RetryOK DEF Sound
    <2> QED BY <1>2, <2>1, <2>2, <2>3, <2>4, <2>5, <2>6, <2>7, <2>8 DEF Instructor
  <1>3. ASSUME NEW j \in Jobs, Clock(j) PROVE Sound
    BY <1>3, WaitExpiresOK, RetentionPassesOK, LeaseRunsOutOK, OrderlySound DEF Clock
  <1>4. ASSUME NEW c \in Authors, Knowledge(c) PROVE Sound
    BY <1>4, IndexCompletesOK, ReviewAndPublishOK, RemoveDocumentOK, OrderlySound
    DEF Knowledge
  <1>5. ASSUME NEW t \in Tasks, NEW j \in Jobs, ClaimNext(t, j) PROVE Sound
    <2>1. Admits(j)
      BY <1>5, ClaimNextOK DEF Admits
    <2> QED BY <1>5, <2>1, ClaimNextOK DEF Sound
  <1>6. ASSUME NEW t \in Tasks, Process(t) \/ Abandon(t) PROVE Sound
    <2>1. CASE \/ Abandon(t) \/ LeaseLost(t) \/ CancellationSeen(t) \/ Load(t)
               \/ CaptureRefused(t) \/ CaptureUnsafe(t) \/ StageCards(t)
               \/ ProviderReturns(t) \/ PipelineFails(t) \/ DatabaseError(t)
      BY <2>1, QuietStepsOK, OrderlySound
    <2>2. CASE CapturePrepared(t)
      BY <2>2, CapturePreparedOK, OrderlySound
    <2>3. CASE RecordCaptureFailure(t)
      BY <2>3, RecordCaptureFailureOK, OrderlySound
    <2>4. CASE FinishSuccess(t) \/ FinishKnowledgeSuccess(t) \/ FinishCardChoice(t)
      BY <2>4, FinishSuccessOK, FinishKnowledgeSuccessOK, FinishCardChoiceOK, OrderlySound
    <2>5. CASE FinishCancelled(t) \/ FinishFailure(t)
      BY <2>5, FinishCancelledOK, FinishFailureOK, OrderlySound
    <2> QED BY <1>6, <2>1, <2>2, <2>3, <2>4, <2>5 DEF Process
  <1>7. CASE RecoverAndCleanup
    BY <1>7, RecoverAndCleanupOK, OrderlySound
  <1> QED BY <1>1, <1>2, <1>3, <1>4, <1>5, <1>6, <1>7 DEF Next

LEMMA Invariance == Spec => []IInv
  <1>1. IInv /\ [Next]_vars => IInv'
    BY StepSound DEF Sound
  <1> QED BY <1>1, Initially, PTL DEF Spec

-----------------------------------------------------------------------------
(* Theorems.                                                               *)

\* Every variable keeps its type, and a slot that is busy has a job.
THEOREM TypeCorrect == Spec => []TypeOK
  <1>1. IInv => TypeOK
    BY DEF IInv, Types, TypeOK
  <1> QED BY <1>1, Invariance, PTL

\* The encrypted PDF is kept exactly as long as somebody may need it, whichever
\* of the instructor, a worker or recovery ends the job.
THEOREM SourceLivesAsLongAsNeeded == Spec => []SourceRetention
  <1>1. IInv => SourceRetention
    BY DEF IInv, JobsOK, JobOK, Kept, SourceRetention
  <1> QED BY <1>1, Invariance, PTL

\* However often a job is claimed, recovered, retried and chosen upon, it leaves
\* at most one flashcard set, and cards that wait for a choice are those of the
\* attempt that asked.
THEOREM OneResult == Spec => [](OneSet /\ StageOfThisAttempt)
  <1>1. IInv => OneSet /\ StageOfThisAttempt
    BY DEF IInv, JobsOK, JobOK, Counted, Staged, OneSet, StageOfThisAttempt
  <1> QED BY <1>1, Invariance, PTL

\* Attempts and manual retries stay within their limits, and what is queued has
\* an attempt left.
THEOREM RetriesBounded == Spec => []AttemptsBounded
  <1>1. IInv => AttemptsBounded
    BY DEF IInv, JobsOK, JobOK, RowOK, AttemptsBounded
  <1> QED BY <1>1, Invariance, PTL

\* No transaction asks PostgreSQL for a row that its CHECK constraints refuse.
THEOREM RowsLegal == Spec => []RowConstraints
  <1>1. IInv => RowConstraints
    <2> SUFFICES ASSUME IInv, NEW j \in Jobs
                 PROVE  LET r == job[j] IN
                        /\ r.status = "awaiting_card_choice" =>
                               r.kind = "flashcards" /\ r.expires_at # "null"
                        /\ r.status = "awaiting_choice" =>
                               r.expires_at # "null" /\ r.choice = "none"
                               /\ r.capture = "pending"
                        /\ r.capture = "removed" => r.document = None
                        /\ CapturedRevision(r)
                        /\ r.choice = "reuse" => r.capture \in {"reused", "removed"}
      BY DEF RowConstraints
    <2>1. RowOK(job[j]) /\ BookOK(job[j])
      BY JobFacts
    <2> QED BY <2>1 DEF RowOK, BookOK, Waits, Early
  <1> QED BY <1>1, Invariance, PTL

\* Once cancellation of a running job is requested, no race with its worker or
\* with recovery turns it into anything else.
THEOREM CancellationKept == Spec => CancellationWins
  <1>1. IInv /\ [Next]_vars =>
            \A j \in Jobs : (job[j].status = "running" /\ job[j].cancellation_requested)
                => /\ job'[j].status \in {"running", "cancelled"}
                   /\ sets'[j] = sets[j]
    BY StepSound DEF Sound, Heeds
  <1> QED BY <1>1, Invariance, PTL DEF Spec, CancellationWins

\* While its lease is live only the slot that holds the claim takes a job out of
\* running.
THEOREM LeaseFences == Spec => LeaseIsRespected
  <1>1. IInv /\ [Next]_vars =>
            \A j \in Jobs : (Live(job[j]) /\ job'[j].status # "running")
                => \E t \in Tasks : /\ task[t].job = j /\ task[t].run = RunOf(job[j])
                                    /\ task[t].pc # "idle" /\ task'[t] = Idle
    BY StepSound DEF Sound, Respects
  <1> QED BY <1>1, Invariance, PTL DEF Spec, LeaseIsRespected

-----------------------------------------------------------------------------
(* Admission.                                                              *)

LiveJobs == {j \in Jobs : Live(job[j])}

LEMMA FiniteJobs ==
    ASSUME NEW S \in SUBSET Jobs
    PROVE  IsFiniteSet(S) /\ Cardinality(S) \in Nat
  BY GenerationAssumption, FS_Subset, FS_CardinalityType

LEMMA Fewer ==
    ASSUME NEW S, NEW T, S \subseteq T, T \subseteq Jobs, NEW n \in Nat, Cardinality(T) <= n
    PROVE  Cardinality(S) <= n
  <1>1. IsFiniteSet(T) /\ Cardinality(T) \in Nat /\ Cardinality(S) \in Nat
    BY FiniteJobs
  <1>2. Cardinality(S) <= Cardinality(T)
    BY <1>1, FS_Subset
  <1> QED BY <1>1, <1>2

LEMMA OneMore ==
    ASSUME NEW S, NEW T, NEW j \in Jobs, S \subseteq T \cup {j}, S \subseteq Jobs,
           T \subseteq Jobs, NEW n \in Nat, Cardinality(T) < n
    PROVE  Cardinality(S) <= n
  <1>1. IsFiniteSet(T) /\ Cardinality(T) \in Nat
    BY FiniteJobs
  <1>2. IsFiniteSet(T \cup {j}) /\ Cardinality(T \cup {j}) <= Cardinality(T) + 1
        /\ Cardinality(T \cup {j}) \in Nat
    <2>1. /\ IsFiniteSet(T \cup {j})
          /\ Cardinality(T \cup {j}) =
                 IF j \in T THEN Cardinality(T) ELSE Cardinality(T) + 1
      BY <1>1, FS_AddElement
    <2> QED BY <1>1, <2>1
  <1>3. Cardinality(T \cup {j}) <= n
    BY <1>1, <1>2
  <1>4. T \cup {j} \subseteq Jobs
    OBVIOUS
  <1> QED BY <1>3, <1>4, Fewer

LEMMA Limits ==
    ASSUME NEW kind \in Kinds
    PROVE  MaxActive \in Nat /\ MaxOwn[kind] \in Nat
  BY GenerationAssumption

\* Only an admission or a claim adds to what counts, and each looked first.
LEMMA AdmissionStep ==
    ASSUME IInv, AdmissionBound, Sound
    PROVE  AdmissionBound'
  <1>1. /\ Cardinality(LiveJobs) <= MaxActive
        /\ \A kind \in Kinds : Cardinality(Active(kind)) <= MaxOwn[kind]
    BY DEF AdmissionBound, LiveJobs
  <1>2. /\ MaxActive \in Nat /\ LiveJobs \subseteq Jobs /\ LiveJobs' \subseteq Jobs
        /\ \A kind \in Kinds : /\ MaxOwn[kind] \in Nat
                               /\ Active(kind) \subseteq Jobs /\ Active(kind)' \subseteq Jobs
    BY GenerationAssumption, Limits DEF LiveJobs, Active, OfKind
  <1>3. ASSUME NEW k \in Jobs, ~Enters(k)
        PROVE  /\ k \in LiveJobs' => k \in LiveJobs
               /\ \A kind : k \in Active(kind)' => k \in Active(kind)
    BY <1>3 DEF Enters, LiveJobs, Active, OfKind, Live
  <1>4. SUFFICES /\ Cardinality(LiveJobs') <= MaxActive
                 /\ \A kind \in Kinds : Cardinality(Active(kind)') <= MaxOwn[kind]
    BY DEF AdmissionBound, LiveJobs
  <1>5. CASE \A k \in Jobs : ~Enters(k)
    <2>1. LiveJobs' \subseteq LiveJobs
      BY <1>2, <1>3, <1>5
    <2>2. \A kind \in Kinds : Active(kind)' \subseteq Active(kind)
      BY <1>2, <1>3, <1>5
    <2>3. Cardinality(LiveJobs') <= MaxActive
      BY <1>1, <1>2, <2>1, Fewer
    <2>4. ASSUME NEW kind \in Kinds PROVE Cardinality(Active(kind)') <= MaxOwn[kind]
      BY <1>1, <1>2, <2>2, Fewer
    <2> QED BY <2>3, <2>4
  <1>6. ASSUME NEW j \in Jobs, \A k \in Jobs : k # j => ~Enters(k),
               ~Live(job'[j]), MayHold(j, job'[j].kind)
        PROVE  /\ Cardinality(LiveJobs') <= MaxActive
               /\ \A kind \in Kinds : Cardinality(Active(kind)') <= MaxOwn[kind]
    <2>1. LiveJobs' \subseteq LiveJobs
      <3>1. j \notin LiveJobs'
        BY <1>6 DEF LiveJobs, Live
      <3> QED BY <1>2, <1>3, <1>6, <3>1
    <2>2. Cardinality(LiveJobs') <= MaxActive
      BY <1>1, <1>2, <2>1, Fewer
    <2>3. ASSUME NEW kind \in Kinds, kind # job'[j].kind
          PROVE  Cardinality(Active(kind)') <= MaxOwn[kind]
      <3>1. j \notin Active(kind)'
        BY <2>3 DEF Active, OfKind
      <3>2. Active(kind)' \subseteq Active(kind)
        BY <1>2, <1>3, <1>6, <3>1
      <3> QED BY <1>1, <1>2, <3>2, Fewer
    <2>4. ASSUME NEW kind \in Kinds, kind = job'[j].kind
          PROVE  Cardinality(Active(kind)') <= MaxOwn[kind]
      <3> DEFINE T == Active(kind) \ {j}
      <3>1. Cardinality(T) < MaxOwn[kind]
        BY <1>6, <2>4 DEF MayHold
      <3>2. Active(kind)' \subseteq T \cup {j} /\ T \subseteq Jobs
        BY <1>2, <1>3, <1>6
      <3> HIDE DEF T
      <3> QED BY <1>2, <3>1, <3>2, OneMore
    <2> QED BY <2>2, <2>3, <2>4
  <1>7. ASSUME NEW j \in Jobs, \A k \in Jobs : k # j => ~Enters(k),
               HasCapacity, job[j].status = "queued", job'[j].kind = job[j].kind
        PROVE  /\ Cardinality(LiveJobs') <= MaxActive
               /\ \A kind \in Kinds : Cardinality(Active(kind)') <= MaxOwn[kind]
    <2>1. LiveJobs' \subseteq LiveJobs \cup {j}
      BY <1>2, <1>3, <1>7
    <2>2. Cardinality(LiveJobs) < MaxActive
      BY <1>7 DEF HasCapacity, LiveJobs
    <2>3. Cardinality(LiveJobs') <= MaxActive
      BY <1>2, <2>1, <2>2, OneMore
    <2>4. ASSUME NEW kind \in Kinds
          PROVE  Cardinality(Active(kind)') <= MaxOwn[kind]
      <3>1. j \in Active(kind)' => j \in Active(kind)
        BY <1>7 DEF Active, OfKind, Waiting
      <3>2. Active(kind)' \subseteq Active(kind)
        BY <1>2, <1>3, <1>7, <3>1
      <3> QED BY <1>1, <1>2, <3>2, Fewer
    <2> QED BY <2>3, <2>4
  <1> QED BY <1>5, <1>6, <1>7 DEF Sound, Admits

\* The live leases stay within the deployment's limit and each instructor's
\* active jobs of a kind within theirs, however they are reserved, claimed,
\* requeued and retried.
THEOREM AdmissionHolds == Spec => []AdmissionBound
  <1>1. Init => AdmissionBound
    <2> SUFFICES ASSUME Init PROVE AdmissionBound
      OBVIOUS
    <2>1. {j \in Jobs : Live(job[j])} = {} /\ \A kind \in Kinds : Active(kind) = {}
      BY DEF Init, Absent, Live, Active, OfKind, Waiting
    <2>2. Cardinality({}) = 0
      BY FS_EmptySet
    <2> QED BY <2>1, <2>2, Limits, GenerationAssumption DEF AdmissionBound
  <1>2. IInv /\ AdmissionBound /\ [Next]_vars => AdmissionBound'
    BY StepSound, AdmissionStep
  <1> QED BY <1>1, <1>2, Invariance, PTL DEF Spec

-----------------------------------------------------------------------------
(* Reviewed Knowledge.                                                     *)

LEMMA RollbackSparesReviewed ==
    ASSUME NEW js, rev' = RevisionsAfterRollback(js), NEW c \in Authors,
           rev[c] # NoRevision, rev[c].reviewed
    PROVE  rev'[c] = rev[c]
  <1>1. rev[c].doc \notin DoomedDocuments(js)
    <2> SUFFICES ASSUME NEW k \in RolledBack(js), OwnsDocument(k),
                        job[k].document = rev[c].doc
                 PROVE  FALSE
      BY DEF DoomedDocuments
    <2>1. c \in Revisions(job[k].document)
      BY DEF Revisions
    <2> QED BY <2>1 DEF RolledBack, OwnsDocument, IndependentlyReviewed
  <1>2. c \notin DoomedRevisions(js)
    <2> SUFFICES ASSUME NEW k \in RolledBack(js), job[k].revision = c, c # None
                 PROVE  FALSE
      BY DEF DoomedRevisions
    <2> QED BY DEF RolledBack, IndependentlyReviewed
  <1> QED BY <1>1, <1>2 DEF RevisionsAfterRollback

\* A row of Knowledge goes only with a rollback or with its document.
LEMMA Losses ==
    ASSUME IInv, [Next]_vars, NEW c \in Authors, rev[c] # NoRevision, rev'[c] = NoRevision
    PROVE  RemoveDocument(rev[c].doc) \/ \E js : rev' = RevisionsAfterRollback(js)
  <1>1. rev' # rev
    OBVIOUS
  <1>2. ASSUME NEW j \in Jobs, Instructor(j) PROVE \E js : rev' = RevisionsAfterRollback(js)
    BY <1>1, <1>2 DEF Instructor, Reserve, AttachSource, Reuse, SeparateCopy,
       SubmitCardChoice, CancelWaiting, CancelRunning, Retry
  <1>3. ASSUME NEW j \in Jobs, Clock(j) PROVE FALSE
    BY <1>1, <1>3 DEF Clock, WaitExpires, RetentionPasses, LeaseRunsOut
  <1>4. ASSUME NEW b \in Authors, Knowledge(b) PROVE RemoveDocument(rev[c].doc)
    <2>1. ~IndexCompletes(b) /\ ~ReviewAndPublish(b)
      BY IndexCompletesKeeps, ReviewAndPublishKeeps
    <2>2. RemoveDocument(b)
      BY <1>4, <2>1 DEF Knowledge
    <2>3. rev[c].doc = b
      BY <2>2 DEF RemoveDocument
    <2> QED BY <2>2, <2>3
  <1>5. ASSUME NEW t \in Tasks, NEW j \in Jobs, ClaimNext(t, j) PROVE FALSE
    BY <1>1, <1>5 DEF ClaimNext
  <1>6. ASSUME NEW t \in Tasks, Process(t) \/ Abandon(t)
        PROVE  \E js : rev' = RevisionsAfterRollback(js)
    <2>1. ~CapturePrepared(t)
      <3> SUFFICES ASSUME CapturePrepared(t) PROVE FALSE
        OBVIOUS
      <3> DEFINE j == task[t].job
                 d == IF job[j].document = None THEN j ELSE job[j].document
                 v == Prepared(d, job[j].file)
      <3>1. task[t].pc = "capture" /\ Holds(t) /\ rev' = [rev EXCEPT ![j] = v]
        BY DEF CapturePrepared, Claimed
      <3>2. j \in Jobs /\ job[j].file \in Files
        BY <3>1, HeldRow
      <3>3. d \in Authors /\ rev \in [Authors -> Revision \cup {NoRevision}]
        BY <3>2, JobFacts DEF IInv, Types, Authors, Job
      <3>4. v \in Revision
        BY <3>2, <3>3, PreparedRevision
      <3> HIDE DEF v
      <3>5. v # NoRevision
        BY <3>4, ConstantRows
      <3> QED BY <3>1, <3>3, <3>5
    <2>2. FinishCancelled(t)
      BY <1>1, <1>6, <2>1 DEF Process, Abandon, LeaseLost, CancellationSeen, Load,
         CaptureRefused, CaptureUnsafe, RecordCaptureFailure, StageCards, ProviderReturns,
         PipelineFails, DatabaseError, FinishSuccess, FinishKnowledgeSuccess,
         FinishCardChoice, FinishFailure
    <2> QED BY <1>1, <2>2 DEF FinishCancelled
  <1>7. CASE RecoverAndCleanup
    BY <1>7 DEF RecoverAndCleanup, RecoverBatch
  <1> QED BY <1>1, <1>2, <1>3, <1>4, <1>5, <1>6, <1>7 DEF Next, vars

\* Knowledge the instructor has reviewed goes only when the instructor removes
\* its document: no cancellation, failure or recovery of a job takes it along.
THEOREM ReviewedStays == Spec => ReviewedSurvives
  <1>1. IInv /\ [Next]_vars =>
            \A c \in Authors :
                (rev[c] # NoRevision /\ rev[c].reviewed /\ rev'[c] = NoRevision)
                => RemoveDocument(rev[c].doc)
    BY Losses, RollbackSparesReviewed
  <1> QED BY <1>1, Invariance, PTL DEF Spec, ReviewedSurvives

=============================================================================
