# Verification project for Cardchemy

Cardchemy turns an instructor's PDFs into reviewed flashcards and searchable Knowledge. The backend is a
FastAPI application and four worker programs (generation, index, answer, email) around one PostgreSQL database.
Nearly all coordination goes through rows: leases, claim tokens, deadlines, CHECK constraints and row locks. This
directory models that coordination, and the parts inside one process that keep state over awaits, in TLA+,
checks it with TLC and proves part of it with TLAPS.

## Inventory

| part | state | operations | what is hard | what makes it correct |
|---|---|---|---|---|
| Email outbox (`services/email.py`, `workers/email.py`, `cli.py`) | outbox rows; coroutines and SMTP threads of the workers; what the relay accepted | enqueue, claim, compose, mark, send, settle, recover, retain, operator retry | SMTP is not transactional: answers get lost, leases expire, processes die and threads outlive their coroutine | no second mail nobody asked for; `sent` is true; only the holder settles; every message is settled |
| Generation jobs (`services/generation.py`, `workers/generation.py`) | job rows, retained encrypted source, staged cards, result set; coroutines | reserve, upload, choose, cancel, retry, claim, heartbeat, capture, stage, finish, recover, sweep | leases, cancellation against completion, manual and automatic retries, three kinds of deadline, limits of active jobs | one result set; cancellation wins; source retained exactly while needed; attempts and active jobs bounded |
| Knowledge capture (`services/knowledge_capture.py`) | documents, content revisions, provenance columns of jobs | capture, record failure, roll back | jobs of one subject share documents; rollback cascades in PostgreSQL | reviewed Knowledge is never rolled back; rows stay legal |
| Knowledge indexing (`workers/knowledge_index.py`, `services/knowledge_indexing.py`, `services/knowledge_management.py`) | content and index revisions, index jobs, chunks, active flags, the corpus revision of the subject | capture, claim, persist batches, complete, fail, cancel, recover, reindex, cut over, publish, unpublish, retry, remove | cutover while another index is built, lost leases, paid calls that must not be repeated, questions that outlive the corpus they were authorized for | one active revision in one space; the provider is paid once; a question sees the corpus it was authorized for; every job ends |
| Ask AI (`services/rag_answers.py`, `workers/rag_answer.py`) | conversations, questions, answer jobs, stage rows, evidence, quota events | ask, cancel, retry, delete, claim, embed, retrieve, judge, complete, fail, recover, retain | two paid calls inside a lease; corpus, session and access move while the answer is made; triggers guard every row | nothing is asked twice for one charge; references are current; unknown cost is said; every question ends |
| Provider rate governor (`ai/rate_limit.py`, retry loops of `ai/providers/`, `ai/embeddings.py`) | a window of reservations, FIFO tickets, timers of coroutines | reserve, wait, commit, settle, back off, cancel | cancelled waiters, usage above its estimate, lost wake-ups | no admission exceeds a window; whoever waits is served |
| Card pipeline (`ai/pipeline.py`) | budgets, calls in flight, quotas per chunk, accepted cards | pack, estimate, probe, fan out, reduce, refill, fail fast | one of several concurrent calls fails or is cancelled; estimates against what is really sent | the books within the budget, and the bill but for what they cannot see; nothing outlives the run; exactly the target |
| Accounts (`services/auth.py`, `routers/auth.py`, `routers/subjects.py`) | refresh sessions, reset tokens, invitations, enrollments | sign in, rotate, log out, forget, reset, invite, register, join, delete | concurrent rotation, one-time tokens, row locks in opposite orders | a token is exchanged once; a reset ends the sessions that exist when it begins; an invitation enrols once |
| Rate limit buckets (`services/rate_limit.py`) | fixed-window counters | hit, retain | concurrent first hits, the end of a window | no hit lost |
| Study and review (`services/flashcard.py`, `services/subject.py`, `routers/flashcards.py`, `routers/study.py`) | cards, progress, answer receipts, audit events | answer, edit, approve, publish, delete, statistics | replayed answers, two answers of one card, reviews that race | each answer counts once and repeats its response; audit events are true |
| Reading published lectures (`routers/published_knowledge.py`, `services/knowledge_pdf.py`, `routers/rag.py`, the PDF dialog of the frontend) | originals and their capacity; dialogs | pages, ranges, references, history, attach | one PDF is read in several requests while lectures change | nothing withdrawn is read; one file; capacity |
| Transactions (all of the above) | row and advisory locks | lock, wait, commit, be aborted | each handler has its own order of locks | the cycles of waiting are the known ones; no work under a deleted subject |
| Subjects, privacy, operations | owners, audit, exports, usage, heartbeats | delete, export, prune | | usage matches rows |
| Retrieval ranking, PDF extraction, configuration, HTTP shaping, frontend | none that outlives a request | | | |

Components interact through shared tables: a request writes a row, a worker finds it by polling, and a
transaction of either takes row locks (and, around Knowledge, one advisory lock) before it decides. Inside a worker
the coroutines of all jobs share one governor, and a generation job runs one card pipeline.

## Modules

| module | models | extends |
|---|---|---|
| `EmailOutbox` | outbox rows, delivery coroutines, workers and the relay | |
| `EmailDelivery` | what the outbox promises per event, without workers and leases; `EmailOutbox` implements it | |
| `EmailOutbox_proofs` | the theorems about `EmailOutbox` | `EmailOutbox`, `TLAPS` |
| `GenerationJob` | jobs, sources, stages, sets, the Knowledge they share, the worker's slots | |
| `GenerationJob_proofs` | the theorems about `GenerationJob` | `GenerationJob`, `TLAPS` |
| `KnowledgeIndex` | content and index revisions, index jobs, embedding spaces, the index workers, the corpus fence | |
| `KnowledgeIndex_proofs` | the theorems about `KnowledgeIndex` | `KnowledgeIndex`, `TLAPS` |
| `AnswerJob` | conversations, questions, their jobs, stages, evidence and charges, the answer workers | |
| `AnswerJob_proofs` | the theorems about `AnswerJob` | `AnswerJob`, `TLAPS` |
| `ProviderGovernor` | the shared window and the retry loops around it | |
| `CardPipeline` | one run of the generation pipeline | |
| `CardPipeline_proofs` | the theorems about `CardPipeline` and `ProviderGovernor` | `CardPipeline`, `ProviderGovernor`, `TLAPS` |
| `AuthSession` | sessions, resets, invitations and accounts, by transaction | |
| `RequestLimiter` | one bucket of the request limiter | |
| `AuthSession_proofs` | the theorems about `AuthSession` and `RequestLimiter` | `AuthSession`, `RequestLimiter`, `TLAPS` |
| `Classroom` | one set: cards, progress, receipts, reviews, audit | |
| `Classroom_proofs` | the theorems about `Classroom` | `Classroom`, `TLAPS` |
| `PublishedKnowledge` | who reads which original when | |
| `PublishedKnowledge_proofs` | the theorems about `PublishedKnowledge` and `LockOrder` | `PublishedKnowledge`, `LockOrder`, `TLAPS` |
| `LockOrder` | the locks of the transactions that meet on one subject | |

`MCx` gives `x` its instances for TLC; `MCAuthSession` runs `AuthSession` and `RequestLimiter` side by side.
The names that `RequestLimiter`, `ProviderGovernor` and `LockOrder` would share with a component beside them carry a
prefix (`LSpec`, `GovernorSpec`, `LockSpec`), so that one module of proofs can extend two components.

### Conventions

An action is one database transaction or one event of a coroutine between two awaits. What is read before an
await and used after it is kept in the coroutine's record (`task`), and the checks the code repeats after the
await are the guards of the next action. A claim token is the number of the attempt (or the pair of retry round
and attempt) it was given for, which is as unique as the random token. A timestamp column is modelled by how it
compares with the present (`null`, ahead, past), and a clock action moves it; so a model contains every setting
of the intervals, and every drift between them. CHECK constraints and triggers that can refuse a write are
either guards of the action (when the refusal is the code's answer) or invariants (when no handler should ever
meet it). External code (the SMTP relay, the AI providers) is an action that may or may not happen. Definitions
whose comment starts with "Mutant" are deliberately wrong variants of the definition that follows; no
specification uses them, they show that the property named in `PROJECT.json` would catch that mistake.

### EmailOutbox

`row` is `email_outbox_messages`, `task` the delivery coroutine of each slot, `mode` the life of each worker
process, `in_flight` the sends in a thread no coroutine waits for any more. `valid` says whether the reset or
invitation behind a message is still usable when it is composed. Three history variables serve the properties:
what the relay `accepted`, which doubts the operator `waived` with `--allow-ambiguous`, and which successes a
failing database left `unrecorded`. `Enqueue` is the API's transaction; `ClaimNext`, `Compose`,
`MarkDeliveryStarted`, `RelayAccepts`/`SendReturns`/`SendFails`, `FinishSuccess` and `FinishFailure` are the
steps of `EmailWorker.process_claim`; `RecoverAndCleanup` is a whole pass over all rows; `Start`, `BeginDrain`,
`Abandon` and `Drained` are the process's life with its forced drain (`workers/shutdown.py`), and `Abandon` is a
crash as well. `RetryEmail` is the operator's command.

### GenerationJob

`job`, `source`, `staged`, `sets` and `rev` are the tables, `task` the slots. The instructor's actions are the
handlers of `services/generation.py`; `Load` to `FinishSuccess` the pipeline of `workers/generation.py`;
`RecoverBatch(batch, sweep)` one pass of `recover_and_cleanup`, whose limit of 100 rows is the choice of any
subset of the due rows; `Removed`/`AfterRollback` the rollback of a capture with PostgreSQL's cascades and
triggers, on documents that other jobs revise, reuse or find unchanged.

### KnowledgeIndex

`content`, `index` and `job` are the rows of the revisions and of the index jobs; the number of a row orders the
revisions as `revision_no` does. `subject` is `active_embedding_space_hash`, `configured` the space the settings
of the processes name, `scope` what the last authorized question may read; it is emptied by whatever moves
`corpus_revision`, which `BumpCorpus` derives from the triggers of migration 0010, and `Evidence` is the view
`eligible_subject_knowledge_chunks`. `task` has one coroutine per claim, because a claim that lost its lease keeps
running beside its successor. `MarkProviderBoundary`, `PersistBatch`, `Complete`, `Fail`, `Cancel` and
`RecoverExpired` are the transactions of `KnowledgeIndexWorker`; `Faults` switches on what may go wrong in an
instance: provider and other errors, a forced drain or a lost heartbeat, a crash, the passing of leases and
deadlines. A deadline is `near` when it is ahead by less than `rag_index_retry_base_seconds`.

`GenerationJob` and `KnowledgeIndex` overlap on purpose: the first sees an index only as "becomes ready", the
second sees a generation job only as the capture it makes and takes back.

### AnswerJob

`job`, `question`, `stage`, `evidence` and `quota` are the tables `rag_answer_jobs`, `rag_messages`,
`rag_provider_attempts`, the retained excerpts and the quota events; `thread`, `session`, `access` and `corpus` are
what a question is bound to. `Ask`, `Cancel`, `Retry` and `DeleteThread` are the owner's requests. A claim runs as
one coroutine through `Read`, `MarkProviderBoundary`, the stages (`Begin`, the call, `FinishStage`) and
`CompleteSource`; `Fail` and `CancelClaim` are what ends it otherwise. An attempt is identified by its pair of
manual retry and attempt, `RunOf`. `Recover` is a whole batch and is `Refused` as a whole when one of its rows is.
`Worlds` says which surroundings a behaviour has (crashes, leases, days, sessions, corpus ...), so that the instance
explores each family of events in full instead of their product. `Accepted` restates the two triggers that guard
the rows; it is used by a property only, so it cannot hide a write that the database would refuse. `GenerationJob`,
`KnowledgeIndex` and `AnswerJob` overlap on purpose: to the third, Knowledge is the number `corpus`, whose meaning
the fence of the second establishes.

### ProviderGovernor and CardPipeline

`ProviderGovernor` cuts a coroutine at its suspending awaits. `Look` is the body of the loop in `reserve` from one wait
to the next, with the tickets (`waiters`), the event (`changed`) and the pruned window; `Commit` admits, `Withdrawn` is
the cleanup of a cancelled or failed wait, `Settled` the correction by the reported usage. Time is the age of the
reservations; a timer is due when its countdown is over. `ledger` is the history the property compares with: it gains
what is admitted and loses, with each unit of time, what has become a window old (`Expired`), whether `_prune` ran or not.

`CardPipeline` is one `_run`. Prompts are numbers of tokens and answers are usage and counts of good candidates; how
text is cut and compared is data. `stage` says where the run is, `fan` is the set of calls of the present fan-out, and
`books` the accounting: used, pending, and uncertain for calls whose answer was lost. `FailFast`, `JobStops` and
`Leave` are the cancellation of siblings, each of which ends by itself before the run does.
A call is a call of `generate_structured`, whose physical attempts (`TryAgain`, at most `CallRetries`) the pipeline does not
see. `spent` is what the provider counts for every attempt: the envelope, more or less of both kinds of tokens (`Drift`),
or nothing when it was never sent. `Answer` books what it reports, and fails the run when that overdraws a budget.
`beyond` collects what the books cannot know, tokens above an envelope and attempts that were repeated; the comment of
`_call` says that they are no provider billing ledger, and `SpendingBounded` says how far they bound the bill nevertheless.

### AuthSession and RequestLimiter

A request is a transaction with a program counter; the rows it holds and the rows it has inserted and not committed
are read off that counter, and a step that needs one of them waits. `Deadlocked` is PostgreSQL's cycle of
waiting; one of it (`Victim`) is aborted. `Lapse` is the passing of a deadline, `CleanUp` the retention.
A sign-in verifies the password (`LoginCheck`) without a lock and commits its session later (`LoginCommit`): the session
carries the password that was verified. A reset takes the row of its user and the snapshot of the sessions it will revoke
(`ResetStart`), waits for those rows and commits (`ResetApply`), so that a sign-in may commit a session in between;
`late` marks a session of a sign-in that overlapped a reset, `outlived` the sessions that were there when a completed
reset began. Behaviours
choose one of five workloads, whose rows are disjoint except where a workload joins them. `RequestLimiter` reads,
inserts or counts one bucket; the insert race repeats its transaction once, as the code does.

### Classroom

`card`, `exists`/`published`, `progress` and `receipt` are the rows of one set. An answer reserves its receipt, grades
under the lock of the progress row and commits; a response may get lost at any time (`LoseAnswer`) and is asked for
again under the same key. Reviews lock the set; `OpenCard` reads before that lock as the router does and `LockCard`
reads again. The deletion of a card takes no such lock: `ApproveAll` fails when its only pending card has gone, and with
several of them approves those that are left, since the UPDATE of many rows is not checked for its count. `Graded` is the schedule of repetition (`update_progress_sm2`), ease in tenths. `trail` replays the
audit events, `told` collects the responses.

### PublishedKnowledge

A transaction under the knowledge lock is one step, unless it keeps the lock over several (`lock`): the upload of an
original between its check and its bytes, and the reading requests, which decide under the lock and stream what they
decided. `view` is the PDF dialog, which asks for metadata, ranges and renewed checks in separate requests.

### LockOrder

Each operator from `Reserve` to `ResetPassword` is the list of locks one transaction takes, in order, with those that
PostgreSQL takes by itself: the key share of a foreign key, the rows of a cascade, the update of a trigger. A
transaction goes on only if the rows it has locked let it (`GoesOn`), stops otherwise, and commits by releasing all.
`recover_and_cleanup` is given as its three parts because it keeps the knowledge lock from its start and each part
meets the others' rows in the same way; `cleanup_retention` is given in parts as well (a job, a question, a
thread, each with the old sessions it deletes afterwards). `Opposite` lists the sets of transactions that can wait in a circle. It was
computed from the code's orders and is what the run confirms to be complete for two transactions, and for three of the
generation side.

## Runs

| run | question | instance | states |
|---|---|---|---|
| `email_safety` | Does any interleaving send a mail twice without an excuse or settle another's claim, does the outbox implement `EmailDelivery`, and is every message settled? | 1 message, 2 processes with a slot each, 2 attempts and 1 operator retry | 658,384 |
| `gen_jobs` | Do lost leases, crashes, choices, cancellation and retries keep the source exactly while needed and one owner? Do jobs that share documents keep reviewed Knowledge, and the limits of active jobs? | 2 jobs of either kind, 2 files, 2 slots, 2 attempts, 1 manual retry, limits 1 and 2; two jobs at once have one attempt each and one slot | 1,105,052 |
| `gen_recovery` | Does an admitted job end, also when another one shares what it captured? | 1 job of either kind with 2 attempts and 1 manual retry, which may revise an older document; a second one beside its last attempt; 1 file, 1 slot | 97,190 |
| `index_claims` | Is the provider paid once, does every index job end? | 1 document, 3 index jobs, 2 attempts, 2 slots, every fault | 77,833 |
| `index_corpus` | Is the fence sound, does cutover keep the corpus? | 2 documents, 2 spaces, 4 index revisions, 2 slots | 683,158 |
| `answers` | Is nothing asked twice, unknown cost marked, evidence current, every write legal, and does each question end? | 1 question, 2 keys, 2 slots, 2 attempts, 1 manual retry, 4 worlds | 471,707 |
| `governor` | Does an admission ever exceed a window, does a waiter wait for ever? | 3 coroutines (1 embeds), 3 requests and 4 tokens per window at 80 %, window 2, 1 retry | 117,336 |
| `pipeline` | Is the budget kept, does nothing outlive a run, are the cards exact, is the estimate right? | documents of 0, 1, 2, 3 and 5 chunks, target 4, 2 calls at once, 1 refill, 2 kinds of drift; 1 retry of each call in the document of one pack with 3 chunks | 644,170 |
| `accounts` | Are tokens and invitations used once, does a reset sign out, is no hit lost, does every request end? | 2 requests at once; 2 sessions of 2 tokens, 2 resets, 2 users, 2 invitations; bucket of window 2, 4 hits, time 5 | 239,180 |
| `classroom` | Does an answer count once, repeat its response, and is the audit trail true? | 2 cards, 1 student, 2 answering and 2 reviewing requests, 4 keys, 4 workloads | 993,848 |
| `published` | Is anything withdrawn read, is a PDF one file, does the capacity hold, does every dialog settle? | 2 lectures, 3 revisions, room for 3 blocks, 1 dialog | 311,722 |
| `lock_order` | Which transactions wait in a circle, and is a subject deleted under claimed work? | 1 generation job, 2 questions, 3 sessions; any 2 transactions, or any 3 of the generation side | 910,900 |

The counts are TLC's distinct states. Deadlock is checked in `email_safety`, `pipeline`, `governor` and `published`, where something can always happen (in `governor` because time passes). `CHECK_DEADLOCK FALSE` is set
elsewhere because the instance really stops: jobs, revisions, keys, tokens and clocks are capped, so once they are used
up nothing may be left to do.

Further invariants. Every module also defines the invariants that only say its rows stay well formed:
`TypeOK` everywhere; `CheckConstraints` and `SentWasAccepted` of `EmailOutbox`; `StageOfThisAttempt`, `OneSet`,
`AttemptsBounded` and `RowConstraints` of `GenerationJob`; `RowsAgree` and `OneActive` of `KnowledgeIndex`;
`RoundsCharged` and `StopIsHeeded` of `AnswerJob`; `FanOutDiscipline` of `CardPipeline`; `LatestResetOnly` of
`AuthSession`; `RowsAccepted` of `Classroom`. They hold under the same configurations: name them in the configuration of
the module to check them. They are not part of the listed runs, which spend their time on the properties above.

Why the bounds are enough. The properties of the outbox speak of two claims of one message; two slots and two
attempts are the least that let a stale holder meet its successor, the third attempt is the operator's, and
messages do not interact except through slots. The same holds for generation and for questions: two slots are a stale
holder and its successor, a second attempt and one manual retry repeat each kind of requeue. Two jobs (one that captures,
one that reuses or revises) beside the revision that was there before (`Seed`) are the least that share; while both are there
`MCSpec` claims each once and in one slot (`Narrow`), which suffices because what they share is only touched in transactions;
they also meet the limits of active jobs, where one more is one too many, and a job that was requeued counts there.
`RecoverySpec` asks under fairness how jobs end. Its second job joins when the first has captured something and is in
its last attempt (`Joins`), which keeps the instance small: the rollback that meets a reuse is the same in any attempt. It
restricts a reservation only, which nothing makes fair. One slot is enough there, because a stale holder that disturbed its
successor would violate `LeaseIsRespected`. For the index two attempts give the stale coroutine, three index revisions of a
content a failed one, its retry and another; the corpus instance has the smallest subject in which a cutover can
cover one document and not the other. Three coroutines are a head, one behind it and one that is charged more than
it reserved; the window of two ticks has a reservation that leaves and one that stays. Five chunks make three packs,
hence two levels of reduction with a summary left over; one retry of each call is what the books can miss, and a second
adds to `beyond` what the first did. Two requests at once are what each of the races of accounts
needs; a third would only repeat one of them, except for lock cycles, which `LockOrder` treats with three. Two answers,
one repeated, and two reviews are the least for each race of the classroom. A deadlock needs as many sessions as
transactions in its cycle; cycles of four and more are not looked for. Symmetry is used only in runs without
liveness, over jobs, files, documents, spaces and sessions, which no definition distinguishes. Provider batches are 1
in the runs; the coroutine returns to the boundary before each further batch, so more of them add repetitions.

### Fairness

Email: coroutines are scheduled and SMTP calls have timeouts (`WF` of `Deliver`); time passes; a stopped process is
restarted by the container and its loop runs the recovery at start and periodically. Claiming needs no fairness:
what is not claimed expires with its event and recovery settles it.
Generation: coroutines are scheduled and `generation_job_timeout_seconds` ends a stuck one; a polling worker claims
what is queued; leases pass; and a worker gets through a whole pass of recovery from time to time.
Index: coroutines are scheduled and `rag_index_job_timeout_seconds` ends a stuck one; deadlines pass; recovery runs
every `rag_index_cleanup_interval_seconds`; `SF` of `ClaimNext`, since slots may be taken again and again while the
workers, polling in the order of `available_at`, get to every queued row.
Answers: workers poll (`Claims`), recover at an interval, coroutines run under their timeout, deadlines and backoffs pass.
Governor: the event loop runs every ready coroutine and time passes; providers need not answer.
Accounts and reading: PostgreSQL serves a row or advisory lock in the order it was asked for, so a transaction that
waits is not overtaken for ever (`SF` of `Step`, `Request` and `AttachLock`); what holds the lock goes on (`WF` of
`AttachStore` and `Respond`).
Crashes, drains and lost answers are never fair: nothing is assumed to fail. What a user or operator does is never fair
either.

## What is proved

`EmailOutbox_proofs` holds for any messages, workers, slots and limits that satisfy `OutboxAssumption`.
`TypeCorrect`, `ChecksHold` and `SentIsTrue` prove the further invariants `TypeOK`, `CheckConstraints` and
`SentWasAccepted`. None of the safety properties is inductive: whether a second mail is possible depends on what the row remembers of
the first. `IInv` adds to them that the token of a claimed row is its attempt number (`TokenIsAttempt`); that every
accepted or pending claim is one of the attempts the row counts (`ClaimsKnown`); that no two deliveries hold one
claim (`ClaimsDistinct`); what a delivery knows at each point of its program (`DeliveryKnows`); and, the key, that an
attempt the relay may have is remembered by the row as long as it exists (`ExposureRemembered`): the row is still
sending with the delivery marker, sent, or failed as ambiguous, unless the doubt was waived or the success could
not be recorded. A new attempt starts from a pending row, which remembers none, so there is no earlier one to
duplicate. The theorems are `TypeCorrect`, `Inductive`, `ChecksHold`, `NoDuplicate`, `SentIsTrue` and
`LiveClaimIsSafe`.
`DeliveryImplemented` proves the refinement: under the mapping of `EmailOutbox` every step is a step of `EmailDelivery` or
a stutter (`StepRefines`, with `PhaseMoves` for the state of the event, `CopiesMove` for the copies and `RisksMove` for
what excuses more of them). A further copy is within the promise because of the attempts the relay may have had
all but one are excused (`AllButOneExcused`, which counts what `IInv` says of single attempts), and an event ends as
delivered only after a copy went out (`CopyBeforeSent`).

`GenerationJob_proofs` holds for any jobs, files, slots, attempts, retries and limits that satisfy `GenerationAssumption`.
`IInv` is `Types /\ JobsOK /\ TasksKnow /\ BooksOK`. Of each job it says how far the row is (`RowOK`: a lease exactly while
running, a deadline exactly while waiting, nothing counted or asked before the choice), what is kept for it (`Kept`, `Staged`,
`Counted`: the source, the staged cards, the set); of each coroutine that it knows the choice and the kind it relies on
(`TasksKnow`); of the shared Knowledge (`BooksOK`) that every document has its first revision, that whoever names a document
names one that exists, and that what a job captured is its own revision, and its own document exactly if it reused none
(`Wrote`). The key to the last is the rollback, which takes no document but those its own jobs created, and a first
revision only together with its document (`RollbackScope`, `RolledBackOK`). Every step is shown to be `Orderly`: it keeps the
invariant, honours a cancellation (`Heeds`) and a live lease (`Respects`), and takes no place under the limit, except
reservation, retry and claim, which looked at the limit first (`Admits`). `AdmissionHolds` adds up the jobs of a user and
of the system from that; `ReviewedStays` follows since only the rollback loses anything (`Losses`) and spares what was
reviewed. `LatestOf` shows that the latest revision the model chooses exists. `OneResult`, `RetriesBounded` and `RowsLegal` prove
invariants that need no run of their own: one set per job and stages of the present attempt only, bounded attempts,
and the CHECK constraints of the rows.

`KnowledgeIndex_proofs` holds for any documents, spaces, pools, attempts, batches and slots that satisfy
`IndexAssumption`. `TypeCorrect` needs that a queued job has an attempt left, which `CallsCounted` adds together with
the heart of `PaidByOneClaim`: the calls of a job belong to its current attempt, and a queued job has none. Only a
claim that still holds the row marks the boundary, and recovery requeues only an unmarked job, so the set never
gets a second member. `FenceHolds` rests on `EvidenceKept`: if neither the content trigger nor the index trigger nor
the subject guard sees anything, the view is unchanged, provided that a step leaves ready index revisions bound to their
content and space (`Bound`), which is shown of every transaction. Cutover and publication move the revision themselves.
`Consistent` is about the rows: a job and its index revision agree (`JobsAgree`), an index revision hangs on a
content revision that exists, and is ready with it (`AllHang`), content rows are used in order (`InOrder`: nothing hangs on a
fresh one), and a content has one live index revision in a space (`OneLive`). It is kept by each of the eleven shapes a step
can have (`StepShapes`). `RowsStayTogether` proves `RowsAgree` from it and `OneServing` proves `OneActive`:
what is active is ready and in the space of the subject, and `OneLive` leaves one such revision of a content, whoever
activates it, completion, publication or cutover. `CutoverComplete` follows since the cutover chooses a ready revision for every
content that is served, and that is what is active afterwards.

`AnswerJob_proofs` holds for any constants that satisfy `AnswerAssumption`. An action is first reduced to
what it may do to the tables and to the coroutine it belongs to: `StepShapes` shows that every step is one of fourteen
shapes (a claim is taken up, a boundary marked, a round begun, asked and recorded, an answer completed, given up,
recovered, retried, ...), and each part of the invariant is then kept shape by shape. `IInv` adds to the types that a coroutine
never runs ahead of its row (`RunsBehind`), that no two hold one claim (`RunsDistinct`), that a row which still waits or runs unmarked has
no coroutine beyond the boundary (`OneRunner`), that a sent call is recorded in a stage (`CallsRecorded`), the heart of `PaidOnce`, that the
calls of a retry round belong to one attempt, which no queued row has any more (`SendsOnce`), that a coroutine finds the stage it
finishes (`StagesFound`), and that a stage without usage belongs to a row still running or marked (`CostMarked`).
`StaleClaimsWriteNothing` and `TriggersAccept` are action properties: the first follows from the guards on the claim and
`RunsDistinct`, the second compares every shape with `Accepted`, the restatement of the two triggers.

`AuthSession_proofs` holds for any accounts, requests and limits that satisfy `AccountsAssumption`, which asks of the bounds that they
are numbers. `SessionInv` proves `ChainHasNoFork` and `ResetEndsSessions`. The rows of a user and of a session are
held by one request at a time, and a request past its lock knows the row as it is (`RefreshHolds`, `Chain`). An open session was made
with the present password or by a sign-in that overlapped a reset (`Owned`): a sign-in does not lock the user, so whether it verified the
password before a reset is known only from what it remembers. `Outlived` follows a reset between its two halves: of the sessions that were
there when it began, those still open are the ones it is about to end, and a session of its user that it does not know is `late`.
`InviteInv` proves `InvitationSpentOnce` (whoever is past
the lock of an invitation found it unused, or leaves nothing behind), `ResetInv` proves `LatestResetAlone`, and `Numbers` gives
the types. `HitsCounted` rests on `LInv`: what the count lacks is what requests hold that have not committed yet.

`Classroom_proofs` holds for any students, cards, keys, requests and schedules of options that satisfy
`ClassroomAssumption`. Answers and reviews meet in the cards only, so there are two invariants. `StudyInv` says that
a key and a progress row are held by one request at a time (`KeysDistinct`, `RowsDistinct`), that the key a request
holds has no receipt yet (`HeldUnused`), that what a request has graded counts one on top of the present row (`GradedNext`),
that a row counts its receipts and each total on the way (`Counted`), and that every response told is the one of
its receipt (`Recorded`); `CountedOnce` and `RepeatedTheSame` are read off it. `ReviewInv` says that one
review holds the set (`HoldersDistinct`) and that what it read under the lock is still so, but for deleted cards
(`ReadsFresh`): a partial edit that was read before the lock and not again would not keep `AuditTrail`. Of an event of
`ApproveAll` it says that its count is that of the cards it approved and of pending ones deleted since it read them.
`RowsCorrect` proves `RowsAccepted`, which needs that a card keeps its right answer among its options though an edit
may change either (`CardsValid`).

`PublishedKnowledge_proofs` holds for any lectures, revisions, originals, requests and capacity that satisfy
`PublishedAssumption`. `IInv` says that whoever is past the lock holds it (`Locked`), that a request which holds it
found its revision published (`Authorized`), that an upload which holds it found room for its bytes (`RoomLeft`), and that
the parts of a dialog match the length or the reference it began with (`PartsMatch`). `OriginalsFit` is about the sum of
the blocks of all originals, a recursive sum over a set; that it grows by the block of an added original, and
not at all when one is taken away, is shown by the least counterexample (`MinimalSet`, `SizeWithOneMore`,
`SizeOfSubset`).

The locks (`LockOrder`) are proved about in the same module, for any set of jobs, questions, sessions and kinds of
transactions that satisfy `LockAssumption`, and any choice of which of them meet. `LockInv` is `LockTypes`, that the locks
two sessions hold do not conflict (`LocksAgree`), and `DeletionAlone`: a deletion that has taken all rows of work and looked
keeps the subject quiet, and once the subject is gone no claim has all its locks. `NoOrphanedWork` is read off it. A claim and
a deletion share no lock but the row of the job, so it matters that the deletion locks every row: that `InOrder` names each
member of a set once, in the order of its rank (`InOrderCovers`), that therefore `WorkRows` has the row of every job and question
(`WorkRowsCover`), and that the deletion holds them all when it decides (`DeletionHolds`). A claim that is complete holds its own row
as well (`ClaimAlone`), which `LocksAgree` excludes.

`CardPipeline_proofs` holds for any documents, targets, sizes, limits and prices that satisfy `PipelineAssumption`, which
asks besides numbers for positive targets and request sizes and for groups of two or more. `IInv` is
`Types /\ Course /\ Accounts /\ Quotas /\ Summaries`.
`Course` says what the calls of each stage are and that no two of them share a chunk, which gives `FanOutOrder`, and that a run
with a result has no calls left, which together with `Accounts` gives `OverAndDone`. `Accounts` says that the pending
tokens are the sum of the envelopes of the calls that are out, and that what the provider counted is at most what is used, pending,
uncertain or beyond the books: a call that is lost moves its envelope from one book to another, an attempt that is repeated adds to
both sides, and what exceeds an envelope goes to `beyond`, so `Spending` holds whatever the order of answers, failures, retries and
cancellations. A reported usage may put the books themselves over a budget; the run then ends, and what the report adds to them is in
`beyond`. `Quotas` adds up what is still to come: accepted cards, the cards asked for by the calls in
flight and those of the waves behind them never exceed the target, which no single call could establish; `CardsAsAsked` needs
also that the quotas of a round are exactly the cards that are missing (`Allocation`) and that batches and waves lose and repeat none
of them. `Summaries` compares the loop of reductions with the formula of the estimate: with `ToCome(todo, next)`, the calls of the rest
of a level and of the levels above it, sent and future calls together are never more than `ReduceCalls`, nor fewer when none failed.
The folds of the model (`Packs`, `Batches`, `Waves`, `Total`) are set folds over positions. They are proved about by the least
counterexample over finite sets instead of induction: there is one function that folds (`LeftFoldExists`), its values are the
successive results (`LeftFoldValue`), and a sum does not depend on the order and is changed by one term as expected (`SumsAre`,
`SumAppend`).

The governor (`ProviderGovernor`) is proved about in the same module, for any coroutines, limits, window, retries, estimates and usages
that satisfy `GovernorAssumption`. The heart of `GovernorInv` is `Cut`: the ledger, which is what was really admitted less than a window
ago, is what is left of the reservations without their first `d`, and those are a window old; with `Aged`, that the oldest come
first, this is kept by the passing of time, by corrections of usage and by cancellations at any point. So what `_prune` leaves is the
ledger (`PrunedIsLedger`), and `_required_delay` is zero exactly if the window has room for the request (`DelayExact`), provided that the
request fits an empty window, which `reserve` checks at the start and a retry does not check again. `WindowsHold` follows. It is
about admissions only: a usage that is reported above its estimate may put the window over its limit, and then nothing is admitted
until it has room again.

Only checked by TLC: the liveness properties, which TLAPS does not do (`EventuallySettled`, `AdmittedEnds`,
`IndexJobEnds`, `AnswerEnds`, `EveryoneServed`, `RequestsEnd`, `DialogsSettle`, and that a pipeline run never gets
stuck); `StopIsHeeded` and `RoundsCharged` of `AnswerJob`; `TypeOK` of `ProviderGovernor`, whose queue is filtered by a library
operator the provers know nothing of; and `CyclesKnown` of `LockOrder`, which is about cycles of two sessions, and of three on
the generation side, and no statement about any number of them.

## Where code and documentation differ

Nine definitions state what a document, a comment or a schema says and what the code does not keep. They are no part
of the runs. Each is violated by the instance named with it: put it in the place of the properties of that configuration
(an invariant under `INVARIANT`, an action property under `PROPERTY`, with `SPECIFICATION Spec`, or `MCSpec` where the
configuration names it) and TLC shows how.

- `NoAutomaticResend` (`EmailOutbox.cfg`, action property). A database error while the success of an accepted mail
  is recorded requeues the message (`workers/email.py:206`), against ADR-010, which "avoids automatically resending an
  email the relay may already have accepted". `NoUnexcusedDuplicate` excuses exactly this case (`unrecorded`).
- `CancelledKeepsNoCapture` (`GenerationJob.cfg`, invariant). A pipeline failure that meets a cancellation request cancels
  the job but keeps its capture (`workers/generation.py:805`); `PDF_GENERATION.md:26` says "A cancelled combined job removes
  the capture created by that job".
- `ExpiredLeaseRecoverable` (`GenerationJob.cfg`, invariant). The rollback of a captured revision that another job
  reuses (`services/knowledge_capture.py:406`) is refused by `ck_generation_jobs_captured_revision`, which aborts the
  recovery of the whole batch, in every pass; `AI-GENERATION-FLOW.md:122` says "interrupted worker execution can be
  recovered after its lease expires". As long as the other job keeps that reference, the job whose rollback is refused does
  not end, nor does any other job whose lease expires. So `AdmittedEnds` is not true without an excuse: it says that a job ends
  or that from some moment on every full pass is refused (`[]RecoveryRefused`). `GenerationRecovery.cfg` reaches this: one job
  revises the older document, the other reuses that revision, and the first is cancelled while it runs and then loses its lease.
- `RollbackPreserves` (`KnowledgeCorpus.cfg`, action property). A replacement that finished indexing has taken the active
  place of the published content; taking the unreviewed replacement back (`services/knowledge_capture.py:408`) does not
  reactivate what was accepted, although it promises to remove private capture "preserving independently accepted
  Knowledge". Students lose the document until it is published again from a new capture.
- `DeadLeaseRequeueable` (`KnowledgeIndex.cfg`, invariant). Close to the deadline `recover_expired` schedules a retry after it
  (`workers/knowledge_index.py:471`), which `ck_knowledge_jobs_deadline` refuses; the pass is lost for all its jobs and
  the exception ends the worker's loop. `SUBJECT-KNOWLEDGE-FLOW.md:136` says "A dead lease before the provider boundary can
  be requeued within deadline/attempt bounds". The pass after the deadline fails the job, so `IndexJobEnds` holds; the
  same pattern in `workers/rag_answer.py:1473` is `Refused` of `AnswerJob`, where `AnswerEnds` holds for the same reason.
- `CancelledCostMarked` (`AnswerJob.cfg`, invariant). A question that is cancelled after a call whose usage never came
  back may report its cost as known; `ASK-AI.md` says that unknown cost remains unknown.
- `PasswordSignsOut` (`AuthSession.cfg`, invariant). A sign-in reads the user and verifies the password without a lock
  (`services/auth.py:209`) and commits its session later. If the UPDATE of a reset (`services/auth.py:489`) takes its snapshot
  in between, the session made with the old password stays in use, against `AUTH-FLOW.md:52` ("changes the password, revokes all
  sessions") and the response "Sign in again on every device" (`routers/auth.py:234`). `ResetSignsOut` says what does hold: no
  session that existed when a reset began outlives it, and a session in use with an earlier password is one of a sign-in that
  overlapped a reset.
- `ApprovalsCounted` (`Classroom.cfg`, invariant). If one of several pending cards is deleted while all are approved, the UPDATE
  of the others succeeds, and the deleted card is counted in the response, the "Number of cards approved"
  (`routers/flashcards.py:233`), and in the audit event (`services/flashcard.py:205`). `AuditTrail` says that the count
  exceeds the cards it approved by nothing but such deleted ones.
- `ReportInRange` (`Classroom.cfg`, invariant, with both cards `Generated` and a workload of answers, edits and reports).
  The cards are counted in one statement and the progress summed in a later one (`services/flashcard.py:580`): a
  withdrawn approval between them makes percentages above 100, which `schemas/flashcard.py:184` refuses (`le=100`).

Remarks from modelling, which no definition states:

- `_finish_success` holds the row of the job when the foreign keys of the new set wait for the subject and the lecture;
  deletion and removal lock those first and the job afterwards. `submit_card_choice` takes the knowledge lock for
  exactly this reason (`services/generation.py:816`), the worker does not: it may be the victim, and then the
  paid cards of that attempt may be lost. The first publication of a subject locks the lecture and then the subject, which
  the worker's foreign keys and those of a reservation ask for the other way round: two more cycles of `Opposite`.
- `ask` and the end of an answer lock session and thread in opposite orders; they meet only with
  `rag_answer_max_active_jobs_per_user` of 2 or more (the default is 1). Retention meets a running answer only for
  questions older than its period. Both are cycles of `Opposite` all the same.
- Two cycles of three in `Opposite` contain no cycle of two: a reservation (admission, then the subject and the lecture by
  its foreign keys), an upload (job, then admission) and the deletion of the subject (subject, then jobs), or the
  removal of the lecture (lecture, then jobs).
- The pending limit of generation jobs is a check of reservation and manual retry, and no invariant: an automatic requeue
  goes back to the queue whatever the queue holds. `AdmissionBound` therefore speaks of active and running jobs.
- Cancelling the job that created a document removes it although another job chose to reuse it; that job is then
  marked `removed`, which its API reports.
- The 14th right answer in a row of one card, all given on one day through `review_all`, computes a date after the last
  one there is; the request fails without a change.
- The comment of the progress model says that a wrong answer lowers the ease; `update_progress_sm2` leaves it alone.
- A request for a range of a published lecture names no revision; if the lecture is replaced between two ranges by a file
  of the same length, the browser assembles both. `OneFile` says exactly that much. References of answers name theirs.

## Not modelled

Email: templates and MIME rendering (an outcome of `Compose`), order and size of claim batches, the health pulse. A
commit whose acknowledgement is lost is not modelled outside `Classroom` and `AuthSession`, whose clients repeat.
Generation: daily quotas and storage capacities (they only refuse), `rag_enabled=False`, the length of backoffs,
the window between a heartbeat's read and its commit.
Index: `staged_embedding_space_hash` (one more reason to move the corpus revision), the limits of 4 content and 8 index
revisions per document and the storage capacity (the bounded pools stand for them), the order of claims and the delay of
`available_at`, `cancellation_requested_at` (no code writes it), token and cost budgets (`Breaks`), the renewal of
leases (a lease stays live until `LeaseRunsOut`), processes with the old configuration after `Configure` beside
those with the new one, which would claim instead of fail jobs of the old space, the title of a document (it may change
without moving the corpus revision, and is shown with citations only).
Answers: the text of messages, token and cost arithmetic, how candidates are found and ranked, the assistant
messages of earlier policies (their display is in `PublishedKnowledge`).
Pipeline: chunking, prompts, and the comparison of a candidate with its source. Accounts: hashing and signatures.
Classroom: the order and the limit of a study session. Reading: enrollment, encryption, the search of published pages.
Locks: reading, index jobs and the rebuild of an index (the knowledge lock is their first), the deletion of an account (the operator has
stopped the rest), cycles of four or more.
Retrieval and PDF extraction are data processing; the HTTP layer, the settings and telemetry keep no state that a
transition depends on; of the frontend only the PDF dialog has a protocol. The export of an account, the usage page and
the heartbeats of workers are not modelled.

## Plan

1. Proofs: `CyclesKnown` for the programs of two sessions, as a statement about the orders of locks alone; `StopIsHeeded` and
   `RoundsCharged` of `AnswerJob`.
2. An abstract specification of a leased job (queued, running under one claim, ended once), which the generation, index
   and answer jobs implement.
3. The export of an account and the usage limits, as a reader of several tables against their writers.
4. `LockOrder`: the deletion of an account beside workers that were not stopped, and cycles of four.
