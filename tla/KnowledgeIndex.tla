--------------------------- MODULE KnowledgeIndex ---------------------------
(***************************************************************************)
(* The Knowledge of one subject: documents with immutable content          *)
(* revisions, the index revisions built for them in an embedding space,    *)
(* the durable jobs that build those, and what students are answered from. *)
(* The instructor captures, publishes, unpublishes, retries and removes;   *)
(* the operator stages a reindex and cuts the subject over to another      *)
(* space; index workers claim jobs under a lease, call the embedding       *)
(* provider batch by batch and activate what they complete.                *)
(*                                                                         *)
(* Every transaction here takes knowledge_write_lock first, so an action   *)
(* is one transaction or one event of a worker's coroutine.  Rows are      *)
(* numbered in the order of their creation and a number is never reused,   *)
(* so it stands for the row's id and orders the revision numbers.  A job   *)
(* has the number of the one index revision it builds.                     *)
(***************************************************************************)
EXTENDS Integers, FiniteSets

CONSTANTS
    Docs,         \* subject_documents the instructor may create
    Spaces,       \* embedding spaces the deployment may be configured for
    MaxContents,  \* bound on the content revisions ever captured
    MaxIndexes,   \* bound on the index revisions ever staged
    MaxAttempts,  \* settings.rag_index_max_attempts
    Batches,      \* provider batches of one index revision
    Slots,        \* settings.rag_index_worker_concurrency, over all workers
    Faults,       \* what goes wrong in the instance
    None          \* SQL NULL

ASSUME IndexAssumption ==
    /\ MaxContents \in Nat \ {0} /\ MaxIndexes \in Nat \ {0}
    /\ MaxAttempts \in Nat \ {0} /\ Batches \in Nat \ {0} /\ Slots \in Nat \ {0}
    /\ Faults \subseteq {"error", "drain", "crash", "delay"}
    /\ None \notin Docs \cup Spaces

VARIABLES
    content,     \* subject_document_content_revisions
    index,       \* subject_document_index_revisions with their chunks
    job,         \* subject_document_index_jobs
    subject,     \* subjects.active_embedding_space_hash
    configured,  \* settings.rag_embedding_space_identity of the processes
    scope,       \* the corpus a retriever was authorized for, as long as the
                 \* subject has the corpus_revision it had then
    task         \* the coroutine of each claim

rows == <<content, index, job>>
vars == <<rows, subject, configured, scope, task>>

Contents == 1..MaxContents
Indexes == 1..MaxIndexes
Attempts == 1..MaxAttempts

\* none: never created; removed: deleted again, with everything below it.
Content == [status : {"none", "pending_index", "ready", "removed"},
            doc : Docs \cup {None}, created_document : BOOLEAN,
            active : BOOLEAN, reviewed : BOOLEAN, published : BOOLEAN]

\* embedded are the batches whose chunks have their vectors.
Index == [status : {"none", "pending_index", "indexing", "ready", "index_failed",
                    "cancelled", "removed"},
          content : Contents \cup {0}, space : Spaces \cup {None},
          active : BOOLEAN, embedded : SUBSET (1..Batches)]

\* near: the deadline is ahead, but not by retry_base_seconds.  provider_calls
\* are the claims that went past the provider boundary: with the first of them
\* provider_call_started_at is set.  A job that has ended keeps its status only.
Job == [status : {"none", "queued", "running", "completed", "failed", "cancelled",
                  "removed"},
        attempt_count : 0..MaxAttempts, lease : {"null", "live", "expired"},
        deadline : {"null", "ahead", "near", "past"},
        provider_calls : SUBSET Attempts]

Pc == {"idle", "mark", "call", "complete", "fail", "cancel"}

NoContent(s) == [status |-> s, doc |-> None, created_document |-> FALSE,
                 active |-> FALSE, reviewed |-> FALSE, published |-> FALSE]
NoIndex(s) == [status |-> s, content |-> 0, space |-> None, active |-> FALSE,
               embedded |-> {}]
NoJob(s) == [status |-> s, attempt_count |-> 0, lease |-> "null",
             deadline |-> "null", provider_calls |-> {}]
Idle == [pc |-> "idle", batch |-> 1]

Init ==
    /\ content = [c \in Contents |-> NoContent("none")]
    /\ index = [i \in Indexes |-> NoIndex("none")]
    /\ job = [i \in Indexes |-> NoJob("none")]
    /\ subject = None
    /\ configured \in Spaces
    /\ scope = {}
    /\ task = [x \in Indexes \X Attempts |-> Idle]

-----------------------------------------------------------------------------
(* What the queries read.                                                    *)

Exists(row) == row.status \notin {"none", "removed"}

ContentsOf(d) == {c \in Contents : Exists(content[c]) /\ content[c].doc = d}
IndexesOf(c) == {i \in Indexes : Exists(index[i]) /\ index[i].content = c}

Last(S) == CHOOSE n \in S : \A m \in S : m <= n

\* The one content revision of a document that is active and ready, if any.
ActiveContents(d) ==
    {c \in ContentsOf(d) : content[c].active /\ content[c].status = "ready"}

\* Every active ready content revision of the subject.
Corpus == UNION {ActiveContents(d) : d \in Docs}

\* The view eligible_subject_knowledge_chunks: the index revisions whose chunks
\* students may be answered from, with the content revision they belong to.
Eligible(c) == content[c].active /\ content[c].status = "ready" /\ content[c].published

Supports(c, i) ==
    /\ Eligible(c) /\ content[c].reviewed
    /\ index[i].content = c /\ index[i].active /\ index[i].status = "ready"
    /\ index[i].space = subject

Evidence == {e \in Contents \X Indexes : Supports(e[1], e[2])}

Served == {e[1] : e \in Evidence}

\* The triggers knowledge_bump_corpus and knowledge_subject_guard: whether the
\* transaction moves corpus_revision.
\* Mutant of it: only what the row becomes is looked at.
ContentMovedInto ==
    \E c \in Contents : content'[c] # content[c] /\ Eligible(c)'

ContentMoved ==
    \E c \in Contents : /\ content'[c] # content[c]
                        /\ Eligible(c) \/ Eligible(c)'

IndexMoved ==
    \E i \in Indexes :
        /\ index[i].content # 0 /\ Eligible(index[i].content)
        /\ index[i].space = subject
        /\ <<index'[i].status, index'[i].active>> # <<index[i].status, index[i].active>>
        /\ \/ index[i].active /\ index[i].status = "ready"
           \/ index'[i].active /\ index'[i].status = "ready"

SpaceMoved == subject' # subject

CorpusMoves == ContentMoved \/ IndexMoved \/ SpaceMoved

BumpCorpus == scope' = IF CorpusMoves THEN {} ELSE scope

-----------------------------------------------------------------------------
(* Capture, and what takes it back.                                          *)

FreshContent == 1 + Cardinality({c \in Contents : content[c].status # "none"})
FreshIndex == 1 + Cardinality({i \in Indexes : index[i].status # "none"})

\* The row an index revision staged together with others is given.
StagedFor(i, cs) == {c \in cs : i = FreshIndex + Cardinality({b \in cs : b < c})}

\* One index revision in space s with its queued job for each content in cs.
StageIndexes(cs, s) ==
    /\ FreshIndex + Cardinality(cs) <= MaxIndexes + 1
    /\ index' = [i \in Indexes |->
           IF StagedFor(i, cs) = {} THEN index[i]
           ELSE [NoIndex("pending_index") EXCEPT
                    !.content = CHOOSE c \in StagedFor(i, cs) : TRUE, !.space = s]]
    /\ job' = [i \in Indexes |->
           IF StagedFor(i, cs) = {} THEN job[i]
           ELSE [NoJob("queued") EXCEPT !.deadline = "ahead"]]

\* A generation job stores the pages of its PDF as a new private revision.
CapturePrepared(d) ==
    /\ FreshContent \in Contents
    /\ content' = [content EXCEPT ![FreshContent] =
           [NoContent("pending_index") EXCEPT
               !.doc = d, !.created_document = (ContentsOf(d) = {})]]
    /\ StageIndexes({FreshContent}, configured)
    /\ UNCHANGED <<subject, configured, task>>
    /\ BumpCorpus

\* Deletes content revisions; the foreign keys cascade to what hangs on them.
Delete(cs) ==
    LET gone(i) == Exists(index[i]) /\ index[i].content \in cs
    IN  /\ content' = [c \in Contents |->
               IF c \in cs THEN NoContent("removed") ELSE content[c]]
        /\ index' = [i \in Indexes |-> IF gone(i) THEN NoIndex("removed") ELSE index[i]]
        /\ job' = [i \in Indexes |-> IF gone(i) THEN NoJob("removed") ELSE job[i]]

IndependentlyReviewed(c) ==
    \/ content[c].reviewed
    \/ /\ content[c].created_document
       /\ \E b \in ContentsOf(content[c].doc) : content[b].reviewed

\* Its generation job is cancelled or fails unsafely: the capture goes, and the
\* document with it if the job created that.
RemoveCaptured(c) ==
    /\ Exists(content[c]) /\ ~IndependentlyReviewed(c)
    /\ Delete(IF content[c].created_document THEN ContentsOf(content[c].doc) ELSE {c})
    /\ UNCHANGED <<subject, configured, task>>
    /\ BumpCorpus

-----------------------------------------------------------------------------
(* Embedding spaces.                                                         *)

\* enqueue_content_index leaves a content alone that has such an index.
Indexed(c, s) ==
    \E i \in IndexesOf(c) :
        /\ index[i].space = s
        /\ index[i].status \in {"pending_index", "indexing", "ready"}

ReadyIndexes(c) == {i \in IndexesOf(c) : index[i].status = "ready"}
ReadyIn(c, s) == {i \in ReadyIndexes(c) : index[i].space = s}

\* rag-stage-reindex: what is missing in the configured space.
EnqueueSubjectReindex ==
    LET missing == {c \in Corpus : ~Indexed(c, configured)}
    IN  /\ StageIndexes(missing, configured)
        /\ UNCHANGED <<content, subject, configured, task>>
        /\ BumpCorpus

\* Mutant: one ready index is enough.
CoversSome(s) == Corpus = {} \/ \E c \in Corpus : ReadyIn(c, s) # {}

\* Cutover is all or nothing.
Covers(s) == \A c \in Corpus : ReadyIn(c, s) # {}

Targets(s) == {Last(ReadyIn(c, s)) : c \in {b \in Corpus : ReadyIn(b, s) # {}}}

SwitchedTo(s) == [i \in Indexes |-> [index[i] EXCEPT !.active = i \in Targets(s)]]

\* cutover_subject_embedding_space, within the transaction of its callers.
\* The first flush deactivates every index, so the corpus moves with any.
Cutover(s) ==
    /\ Covers(s)
    /\ index' = SwitchedTo(s)
    /\ subject' = s
    /\ scope' = IF Evidence # {} \/ SpaceMoved THEN {} ELSE scope

\* rag-cutover.
CutoverSubject(s) ==
    /\ Cutover(s)
    /\ UNCHANGED <<content, job, configured, task>>

\* The operator changes the embedding settings and restarts the processes.
Configure(s) ==
    /\ s # configured
    /\ configured' = s
    /\ UNCHANGED <<rows, subject, scope, task>>

-----------------------------------------------------------------------------
(* What the instructor does with a document.                                 *)

\* A subject without an active space is cut over to the space of this index;
\* one that has another space has to be rebuilt first.
ReviewAndPublish(d) ==
    \E c \in ActiveContents(d) :
        /\ ReadyIndexes(c) # {}
        /\ LET i == Last(ReadyIndexes(c))
           IN  \/ subject = None /\ Cutover(index[i].space)
               \/ /\ subject = index[i].space
                  /\ index' = [index EXCEPT ![i].active = TRUE]
                  /\ scope' = {}
                  /\ UNCHANGED subject
        /\ content' = [content EXCEPT ![c].reviewed = TRUE, ![c].published = TRUE]
        /\ UNCHANGED <<job, configured, task>>

Unpublish(d) ==
    \E c \in ContentsOf(d) :
        /\ content[c].active /\ content[c].published
        /\ content' = [content EXCEPT ![c].published = FALSE]
        /\ UNCHANGED <<index, job, subject, configured, task>>
        /\ BumpCorpus

\* Rebuilds the index of the latest content whose last job failed.
RetryIndex(d) ==
    /\ ContentsOf(d) # {}
    /\ LET c == Last(ContentsOf(d))
       IN  /\ IndexesOf(c) # {}
           /\ job[Last(IndexesOf(c))].status \in {"failed", "cancelled"}
           /\ ~Indexed(c, configured)
           /\ StageIndexes({c}, configured)
    /\ UNCHANGED <<content, subject, configured, task>>
    /\ BumpCorpus

\* Refused while a job of the document runs.
Remove(d) ==
    /\ ContentsOf(d) # {}
    /\ \A c \in ContentsOf(d) : \A i \in IndexesOf(c) : job[i].status # "running"
    /\ Delete(ContentsOf(d))
    /\ UNCHANGED <<subject, configured, task>>
    /\ BumpCorpus

\* KnowledgeRetriever.authorize binds a question to the corpus revision.
Authorize ==
    /\ Evidence # {}
    /\ scope' = Evidence
    /\ UNCHANGED <<rows, subject, configured, task>>

-----------------------------------------------------------------------------
(* Index workers.  Claim <<i, a>> is the a-th of job i, a its claim token.   *)

Claims == Indexes \X Attempts

\* A revision that failed is never active again; the job ends with it.
Ended(i, jobStatus, indexStatus) ==
    /\ job' = [job EXCEPT ![i] = NoJob(jobStatus)]
    /\ index' = [index EXCEPT ![i].status = indexStatus, ![i].active = FALSE]

Failed(i) == Ended(i, "failed", "index_failed")

Goto(x, pc) == task' = [task EXCEPT ![x].pc = pc]
Leave(x) == task' = [task EXCEPT ![x] = Idle]

\* claim_next: a job past its deadline or built for another space is failed.
ClaimNext(i) ==
    /\ job[i].status = "queued"
    /\ Cardinality({x \in Claims : task[x] # Idle}) < Slots
    /\ IF job[i].deadline = "past" \/ index[i].space # configured
       THEN Failed(i) /\ UNCHANGED task
       ELSE LET a == job[i].attempt_count + 1
            IN  /\ job' = [job EXCEPT ![i].status = "running",
                                      ![i].attempt_count = a, ![i].lease = "live"]
                /\ Goto(<<i, a>>, "mark")
                /\ UNCHANGED index
    /\ UNCHANGED <<content, subject, configured>>
    /\ BumpCorpus

\* Mutant: the claim token is not compared.
HoldsAny(x) == job[x[1]].status = "running"

\* The row is still running under this claim; _cancel and _fail ask no more.
Holds(x) == job[x[1]].status = "running" /\ job[x[1]].attempt_count = x[2]

\* _claimed_job.
ClaimedJob(x) == Holds(x) /\ job[x[1]].lease = "live"

\* Every step behind _claimed_job ends the coroutine once the claim is lost.
LeaseLost(x) ==
    /\ task[x].pc \in {"mark", "call", "complete"}
    /\ ~ClaimedJob(x)
    /\ Leave(x)
    /\ UNCHANGED <<rows, subject, configured, scope>>

\* From here on the provider is paid and the job not retried automatically.
MarkProviderBoundary(x) ==
    LET i == x[1]
    IN  /\ task[x].pc = "mark" /\ ClaimedJob(x)
        /\ job' = [job EXCEPT ![i].provider_calls = @ \cup {x[2]}]
        /\ index' = [index EXCEPT ![i].status =
               IF @ = "pending_index" THEN "indexing" ELSE @]
        /\ Goto(x, "call")
        /\ UNCHANGED <<content, subject, configured>>
        /\ BumpCorpus

RecordFailedAttempt(x) ==
    /\ "error" \in Faults
    /\ task[x].pc = "call" /\ ClaimedJob(x)
    /\ Goto(x, "fail")
    /\ UNCHANGED <<rows, subject, configured, scope>>

\* The provider answered.
PersistBatch(x) ==
    LET b == task[x].batch
    IN  /\ task[x].pc = "call" /\ ClaimedJob(x)
        /\ index' = [index EXCEPT ![x[1]].embedded = @ \cup {b}]
        /\ task' = [task EXCEPT ![x] =
               IF b < Batches THEN [pc |-> "mark", batch |-> b + 1]
               ELSE [pc |-> "complete", batch |-> b]]
        /\ UNCHANGED <<content, job, subject, configured, scope>>

\* The completed content revision replaces the active one of its document.
Activated(i) ==
    LET c == index[i].content
    IN  [b \in Contents |->
            IF b = c THEN [content[c] EXCEPT !.status = "ready", !.active = TRUE]
            ELSE IF content[b].doc = content[c].doc /\ content[b].active
                 THEN [content[b] EXCEPT !.active = FALSE]
                 ELSE content[b]]

\* An index of another space stays staged until the cutover.
Serves(i) == subject = index[i].space

Complete(x) ==
    LET i == x[1]
    IN  /\ task[x].pc = "complete" /\ ClaimedJob(x)
        /\ IF index[i].embedded # 1..Batches
           THEN Goto(x, "fail") /\ UNCHANGED rows
           ELSE /\ content' = Activated(i)
                /\ index' = [index EXCEPT ![i].status = "ready", ![i].active = Serves(i)]
                /\ job' = [job EXCEPT ![i] = NoJob("completed")]
                /\ Leave(x)
        /\ UNCHANGED <<subject, configured>>
        /\ BumpCorpus

\* A timeout, a bound the chunks exceed, or any other exception.
Breaks(x) ==
    /\ "error" \in Faults
    /\ task[x].pc \in {"mark", "call", "complete"}
    /\ Goto(x, "fail")
    /\ UNCHANGED <<rows, subject, configured, scope>>

\* The heartbeat found the claim lost, or the drain ran out of patience.
Interrupted(x) ==
    /\ "drain" \in Faults
    /\ task[x].pc \in {"mark", "call", "complete"}
    /\ Goto(x, "cancel")
    /\ UNCHANGED <<rows, subject, configured, scope>>

Fail(x) ==
    /\ task[x].pc = "fail"
    /\ IF Holds(x) THEN Failed(x[1]) ELSE UNCHANGED <<index, job>>
    /\ Leave(x)
    /\ UNCHANGED <<content, subject, configured>>
    /\ BumpCorpus

Cancel(x) ==
    /\ task[x].pc = "cancel"
    /\ IF Holds(x) THEN Ended(x[1], "cancelled", "cancelled") ELSE UNCHANGED <<index, job>>
    /\ Leave(x)
    /\ UNCHANGED <<content, subject, configured>>
    /\ BumpCorpus

\* The process dies.
Dies(x) ==
    /\ "crash" \in Faults
    /\ task[x] # Idle
    /\ Leave(x)
    /\ UNCHANGED <<rows, subject, configured, scope>>

-----------------------------------------------------------------------------
(* Time and recovery.                                                        *)

\* No heartbeat renewed the lease in time.
LeaseRunsOut(i) ==
    /\ "delay" \in Faults
    /\ job[i].lease = "live"
    /\ job' = [job EXCEPT ![i].lease = "expired"]
    /\ UNCHANGED <<content, index, subject, configured, scope, task>>

\* The lease never outlasts the deadline.
DeadlineNears(i) ==
    /\ "delay" \in Faults
    /\ job[i].deadline \in {"ahead", "near"}
    /\ job' = [job EXCEPT
           ![i].deadline = IF @ = "ahead" THEN "near" ELSE "past",
           ![i].lease = IF job[i].deadline = "near" /\ @ = "live" THEN "expired" ELSE @]
    /\ UNCHANGED <<content, index, subject, configured, scope, task>>

LeaseExpired(i) == job[i].status = "running" /\ job[i].lease = "expired"

Requeueable(i) ==
    /\ job[i].provider_calls = {}
    /\ job[i].attempt_count < MaxAttempts
    /\ job[i].deadline # "past"

\* ck_knowledge_jobs_deadline: available_at <= deadline_at, and a requeued job
\* is available retry_base_seconds from now.
RecoveryAccepted(i) == Requeueable(i) => job[i].deadline # "near"

\* Mutant: a job that cannot be requeued is left to its claim.
RecoveredJobKeptRunning(i) ==
    IF Requeueable(i) THEN [job[i] EXCEPT !.status = "queued", !.lease = "null"]
    ELSE job[i]

RecoveredJob(i) ==
    IF Requeueable(i) THEN [job[i] EXCEPT !.status = "queued", !.lease = "null"]
    ELSE NoJob("failed")

\* recover_expired is one transaction: a row the database refuses undoes it all.
RecoverExpired ==
    /\ \E i \in Indexes : LeaseExpired(i)
    /\ \A i \in Indexes : LeaseExpired(i) => RecoveryAccepted(i)
    /\ job' = [i \in Indexes |-> IF LeaseExpired(i) THEN RecoveredJob(i) ELSE job[i]]
    /\ index' = [i \in Indexes |->
           IF LeaseExpired(i) /\ ~Requeueable(i)
           THEN [index[i] EXCEPT !.status = "index_failed", !.active = FALSE]
           ELSE index[i]]
    /\ UNCHANGED <<content, subject, configured, task>>
    /\ BumpCorpus

-----------------------------------------------------------------------------

Instructor ==
    \/ \E d \in Docs : \/ CapturePrepared(d) \/ ReviewAndPublish(d) \/ Unpublish(d)
                       \/ RetryIndex(d) \/ Remove(d)
    \/ \E c \in Contents : RemoveCaptured(c)

Operator ==
    \/ EnqueueSubjectReindex
    \/ \E s \in Spaces : CutoverSubject(s) \/ Configure(s)

Coroutine(x) ==
    \/ LeaseLost(x) \/ MarkProviderBoundary(x) \/ RecordFailedAttempt(x)
    \/ PersistBatch(x) \/ Complete(x) \/ Fail(x) \/ Cancel(x)

Mishap(x) == Breaks(x) \/ Interrupted(x) \/ Dies(x)

Clock(i) == LeaseRunsOut(i) \/ DeadlineNears(i)

Next ==
    \/ Instructor \/ Operator \/ Authorize
    \/ \E i \in Indexes : ClaimNext(i) \/ Clock(i)
    \/ \E x \in Claims : Coroutine(x) \/ Mishap(x)
    \/ RecoverExpired

Spec == Init /\ [][Next]_vars

\* Coroutines run, every claim is tried again, time passes for the jobs nobody
\* works on, and the workers keep polling and recovering.
FairSpec ==
    /\ Spec
    /\ \A x \in Claims : WF_vars(Coroutine(x))
    /\ \A i \in Indexes :
          /\ SF_vars(ClaimNext(i))
          /\ WF_vars(DeadlineNears(i))
    /\ WF_vars(RecoverExpired)

-----------------------------------------------------------------------------

\* Every row has its columns, a lease exactly while it runs and a deadline
\* until it ends.
TypeOK ==
    /\ content \in [Contents -> Content]
    /\ index \in [Indexes -> Index]
    /\ job \in [Indexes -> Job]
    /\ \A i \in Indexes :
          /\ job[i].status = "running" <=> job[i].lease # "null"
          /\ job[i].status \in {"queued", "running"} <=> job[i].deadline # "null"
    /\ subject \in Spaces \cup {None}
    /\ configured \in Spaces
    /\ scope \subseteq Contents \X Indexes
    /\ task \in [Claims -> [pc : Pc, batch : 1..Batches]]

\* The state of an index revision is the state of the job that builds it,
\* whatever claims, failures, drains and recoveries came between, so that
\* knowledge_revision_guard and knowledge_job_guard never refuse a worker's
\* transaction; and a ready index is complete.
RowsAgree ==
    \A i \in Indexes :
        LET ofJob == [none |-> {"none"}, removed |-> {"removed"},
                      queued |-> {"pending_index"},
                      running |-> IF job[i].provider_calls = {} THEN {"pending_index"}
                                  ELSE {"indexing"},
                      completed |-> {"ready"}, failed |-> {"index_failed"},
                      cancelled |-> {"cancelled"}]
        IN  /\ index[i].status \in ofJob[job[i].status]
            /\ index[i].status = "ready" => index[i].embedded = 1..Batches
            /\ Exists(index[i]) =>
                  /\ Exists(content[index[i].content])
                  /\ index[i].status = "ready" => content[index[i].content].status = "ready"

\* However completions, cutovers and publications interleave, a document has one
\* active content revision, a content revision one active index, and that index
\* is ready and in the space the subject's questions are embedded in: vectors of
\* two spaces are never compared.
OneActive ==
    /\ \A d \in Docs : Cardinality({c \in ContentsOf(d) : content[c].active}) <= 1
    /\ \A i, k \in Indexes :
          (index[i].active /\ index[k].active /\ index[i].content = index[k].content)
          => i = k
    /\ \A i \in Indexes :
          index[i].active => index[i].status = "ready" /\ index[i].space = subject

\* What a question was authorized for is what is served as long as the corpus
\* revision stays: the fence every later read and the answer itself rely on.
CorpusFence == scope # {} => scope = Evidence

\* The provider is asked for a revision's vectors by one claim only: no lost
\* lease, crash or recovery makes a second attempt pay again.
PaidOnce == \A i \in Indexes : Cardinality(job[i].provider_calls) <= 1

\* Switching the embedding space takes no document away from the students.
CutoverKeepsCorpus ==
    [][(subject' # subject /\ subject # None)
       => Served \subseteq Served']_vars

\* A queued or running job ends: it completes, fails, is cancelled or goes with
\* its document.
IndexJobEnds ==
    \A i \in Indexes :
        (job[i].status \in {"queued", "running"})
            ~> (job[i].status \in {"completed", "failed", "cancelled", "removed"})

\* Taking back an unreviewed capture leaves the document serving what the
\* instructor had accepted before it (knowledge_capture.py:376 "Remove unreviewed
\* private capture, preserving independently accepted Knowledge.").
RollbackPreserves ==
    [][\A c \in Contents, d \in Docs :
         (content[c].doc = d /\ RemoveCaptured(c) /\ ContentsOf(d)' # {})
         => \A l \in Contents :
              (l = Last(ContentsOf(d)') /\ content[l].published) => content'[l].active]_vars

\* The expired lease of a job the provider was not asked for can be requeued up
\* to its deadline (SUBJECT-KNOWLEDGE-FLOW.md:136 "A dead lease before the
\* provider boundary can be requeued within deadline/attempt bounds").
DeadLeaseRequeueable == \A i \in Indexes : LeaseExpired(i) => RecoveryAccepted(i)

=============================================================================
