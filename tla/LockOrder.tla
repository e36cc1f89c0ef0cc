------------------------------ MODULE LockOrder ------------------------------
(***************************************************************************)
(* The row and advisory locks of the transactions that meet on one subject: *)
(* generation jobs, questions, its lectures, its deletion.  A transaction   *)
(* is the sequence of locks its code takes in PostgreSQL, explicitly (FOR   *)
(* UPDATE, pg_advisory_xact_lock) or by a write (an UPDATE, a DELETE with   *)
(* its cascade, the foreign keys of an INSERT).  Of the rows only what      *)
(* decides whether a transaction goes on is kept.                           *)
(*                                                                         *)
(* One user, subject, session and lecture: the case in which they meet.    *)
(* Left out: reading, which takes the knowledge lock only; index jobs and   *)
(* the rebuild of an index, which take it first and then the lecture as a  *)
(* later publication does, or the subject before it as a finished job does; *)
(* the deletion of an account, for which the operator has stopped the      *)
(* workers and the API.                                                    *)
(***************************************************************************)
EXTENDS Naturals, Sequences, FiniteSets

CONSTANTS Jobs,     \* generation jobs, by number: a batch is locked in order
          Answers,  \* answer jobs, each in a thread of its own
          Tx,       \* database sessions
          Kinds,    \* the transactions that run
          Meet(_, _) \* how many sessions may run which of them at once

VARIABLES status,   \* of every generation and answer job
          gone,     \* the subject was deleted
          tx        \* what the sessions run: kind, item and locks taken so far

lock_vars == <<status, gone, tx>>

JobRow(j)    == <<"generation_jobs", j>>
AnswerRow(a) == <<"rag_answer_jobs", a>>
Items == {JobRow(j) : j \in Jobs} \cup {AnswerRow(a) : a \in Answers}

----------------------------------------------------------------------------
(* Lock modes: X is FOR UPDATE, a DELETE or an advisory lock, N is the lock *)
(* of an UPDATE that leaves the key alone, S is the key share lock of a     *)
(* foreign key; L is X that skips a locked row.                             *)

Exclusive(row)  == [row |-> row, mode |-> "X"]
Update(row)     == [row |-> row, mode |-> "N"]
KeyShare(row)   == [row |-> row, mode |-> "S"]
SkipLocked(row) == [row |-> row, mode |-> "L"]

Conflict(m, n) == "S" \notin {m, n} \/ {m, n} \cap {"X", "L"} # {}

Knowledge == Exclusive(<<"knowledge", 0>>)
Admission == Exclusive(<<"admission", 0>>)
AskAdmission    == Exclusive(<<"ask admission", 0>>)

User     == <<"users", 0>>
Subject  == <<"subjects", 0>>
Session  == <<"auth_sessions", 0>>
OldSession == <<"auth_sessions", 1>>  \* one that has long expired
Document == <<"subject_documents", 0>>
Source(j)  == <<"generation_job_sources", j>>
Thread(a)  == <<"rag_threads", a>>
Message(a) == <<"rag_messages", a>>

\* ORDER BY id.
InOrder(S) == [n \in 1 .. Cardinality(S) |-> CHOOSE i \in S : Cardinality({j \in S : j < i}) = n - 1]
LockAll(S, Row(_)) == [n \in 1 .. Cardinality(S) |-> Exclusive(Row(InOrder(S)[n]))]

----------------------------------------------------------------------------
(* Generation jobs.                                                        *)

Reserve == <<Admission, KeyShare(User), KeyShare(Subject), KeyShare(Document)>>

\* The upload of a job; with a capture pending the knowledge lock comes first.
Attach(j)  == <<Exclusive(JobRow(j)), Admission, KeyShare(User)>>
AttachCapture(j) == <<Knowledge>> \o Attach(j) \o <<Exclusive(Document)>>

KnowledgeChoice(j) == <<Knowledge, Exclusive(JobRow(j)), Exclusive(Document), Update(Source(j))>>

\* Mutant: the locks of the set are taken without the knowledge lock.
CardChoiceAlone(j) == <<Exclusive(JobRow(j)), Exclusive(Source(j)), KeyShare(Subject)>>
CardChoice(j) == <<Knowledge, Exclusive(JobRow(j)), Exclusive(Source(j)), KeyShare(Subject)>>

Cancel(j) == <<Knowledge, Exclusive(JobRow(j)), Exclusive(Source(j)), Exclusive(Document)>>
Retry(j)  == <<Admission, Exclusive(JobRow(j)), Exclusive(Source(j)), KeyShare(User)>>

Claim(j) == <<Admission, SkipLocked(JobRow(j))>>
Beat(j)  == <<Exclusive(JobRow(j))>>
Store(j) == <<Knowledge, Exclusive(JobRow(j)), Exclusive(Subject), Exclusive(Document)>>

\* The new set refers to the subject and to the lecture of the job.
Finish(j)       == <<Exclusive(JobRow(j)), KeyShare(Subject), KeyShare(Document), Exclusive(Source(j))>>
FinishChoice(j) == <<Admission, Exclusive(JobRow(j)), Exclusive(Source(j))>>
FinishFailed(j) == <<Exclusive(JobRow(j)), Exclusive(Source(j))>>
FinishCancelled(j) == Cancel(j)

\* The parts of recover_and_cleanup: late uploads, expired leases, old sources.
\* They are one transaction, which keeps the knowledge lock to its end: whoever
\* needs that lock meets all of them at once, and the others lock one job only.
Expire(j)  == <<Knowledge, Exclusive(JobRow(j)), Exclusive(Document)>>
Recover(j) == <<Knowledge, SkipLocked(JobRow(j)), Exclusive(Source(j))>>
Sweep(j)   == <<Knowledge, Exclusive(Source(j)), Update(JobRow(j))>>

----------------------------------------------------------------------------
(* Questions.                                                              *)

Ask(a)          == <<AskAdmission, Exclusive(Thread(a)), KeyShare(Session), KeyShare(User)>>
AnswerRetry(a)  == <<AskAdmission, Exclusive(AnswerRow(a)), Exclusive(Thread(a)), Exclusive(Message(a)),
                     KeyShare(User), KeyShare(Session)>>
AnswerCancel(a) == <<AskAdmission, Exclusive(AnswerRow(a))>>
DeleteThread(a) == <<AskAdmission, Exclusive(Thread(a)), Exclusive(Message(a)), Exclusive(AnswerRow(a))>>

AnswerClaim(a)  == <<SkipLocked(AnswerRow(a))>>
AnswerStage(a)  == <<Exclusive(AnswerRow(a)), Exclusive(Thread(a)), Exclusive(Message(a))>>
AnswerFinish(a) == <<Knowledge, Exclusive(AnswerRow(a)), Exclusive(Session), Exclusive(User),
                     Exclusive(Subject), Exclusive(Thread(a)), Exclusive(Message(a))>>

----------------------------------------------------------------------------
(* Everything else.                                                        *)

\* Mutant: the statuses are read without locking the rows.
Unlocked == <<>>
WorkRows == LockAll(Jobs, JobRow) \o LockAll(Answers, AnswerRow)

\* The cascade ends with the rows below the subject.
Cascade == <<Exclusive(Document)>> \o LockAll(Jobs, Source) \o LockAll(Answers, Thread)

DeleteSubject  == <<Knowledge, Exclusive(Subject)>> \o WorkRows \o Cascade
RemoveDocument == <<Knowledge, Exclusive(Document)>> \o WorkRows

\* The first publication of a subject switches its embedding space; any other
\* change of the published corpus only counts up its revision.
FirstPublication == <<Knowledge, Exclusive(Document), Exclusive(Subject)>>
LaterPublication == <<Knowledge, Exclusive(Document), Update(Subject)>>

\* The parts of cleanup_retention: old jobs, expired questions, conversations
\* without one, each followed by the old sessions with their questions.  Like
\* those of recover_and_cleanup they are one transaction: nobody who waits for
\* a row of one part holds what another part waits for.
OldSessions(S) == <<SkipLocked(OldSession)>> \o LockAll(S, AnswerRow)
RetentionJob(j)    == <<Knowledge, SkipLocked(JobRow(j))>> \o OldSessions(Answers)
Retention(a)       == <<Knowledge, SkipLocked(Message(a)), Exclusive(AnswerRow(a))>>
                          \o OldSessions(Answers \ {a})
RetentionThread(a) == <<Knowledge, SkipLocked(Thread(a))>> \o OldSessions(Answers \ {a})

ResetPassword == <<Update(User), Update(Session), Update(OldSession)>>

OfJob == {"attach", "capture", "knowledge choice", "card choice", "cancel", "retry", "claim", "beat",
          "store", "finish", "finish choice", "finish failed", "finish cancelled",
          "expire", "recover", "sweep", "retention job"}
OfAnswer == {"ask", "answer retry", "answer cancel", "delete thread", "answer claim",
             "answer stage", "answer finish", "retention", "retention thread"}
OfAll == {"reserve", "publish", "republish", "delete subject", "remove document",
          "reset password"}

ASSUME LockAssumption ==
  /\ Jobs \subseteq Nat /\ IsFiniteSet(Jobs)
  /\ Answers \subseteq Nat /\ IsFiniteSet(Answers)
  /\ Kinds \subseteq OfJob \cup OfAnswer \cup OfAll

ItemsOf(kind) == IF kind \in OfJob THEN Jobs ELSE IF kind \in OfAnswer THEN Answers ELSE {0}

Program(kind, i) ==
  CASE kind = "reserve" -> Reserve               [] kind = "attach" -> Attach(i)
    [] kind = "capture" -> AttachCapture(i)            [] kind = "knowledge choice" -> KnowledgeChoice(i)
    [] kind = "card choice" -> CardChoice(i)     [] kind = "cancel" -> Cancel(i)
    [] kind = "retry" -> Retry(i)                [] kind = "claim" -> Claim(i)
    [] kind = "beat" -> Beat(i)                  [] kind = "store" -> Store(i)
    [] kind = "finish" -> Finish(i)              [] kind = "finish choice" -> FinishChoice(i)
    [] kind = "finish failed" -> FinishFailed(i) [] kind = "finish cancelled" -> FinishCancelled(i)
    [] kind = "expire" -> Expire(i)              [] kind = "recover" -> Recover(i)
    [] kind = "sweep" -> Sweep(i)                [] kind = "ask" -> Ask(i)
    [] kind = "answer retry" -> AnswerRetry(i)   [] kind = "answer cancel" -> AnswerCancel(i)
    [] kind = "delete thread" -> DeleteThread(i) [] kind = "answer claim" -> AnswerClaim(i)
    [] kind = "answer stage" -> AnswerStage(i)   [] kind = "answer finish" -> AnswerFinish(i)
    [] kind = "delete subject" -> DeleteSubject  [] kind = "remove document" -> RemoveDocument
    [] kind = "publish" -> FirstPublication      [] kind = "republish" -> LaterPublication
    [] kind = "retention" -> Retention(i)        [] kind = "retention job" -> RetentionJob(i)
    [] kind = "retention thread" -> RetentionThread(i)
    [] kind = "reset password" -> ResetPassword

\* The same as a table, for the kinds that run.
Programs == [p \in UNION {{kind} \X ItemsOf(kind) : kind \in Kinds} |-> Program(p[1], p[2])]

----------------------------------------------------------------------------
Idle == [kind |-> "none", item |-> 0, taken |-> 0]

LockInit ==
  /\ status \in [Items -> {"awaiting", "queued", "idle"}]
  /\ \A a \in Answers : status[AnswerRow(a)] # "awaiting"
  /\ gone = FALSE
  /\ tx = [t \in Tx |-> Idle]

Running(t) == tx[t].kind # "none"
Steps(t)   == Programs[<<tx[t].kind, tx[t].item>>]
Own(t)     == IF tx[t].kind \in OfJob THEN JobRow(tx[t].item) ELSE AnswerRow(tx[t].item)
\* Where its code looks at it: a source expires while its job is at rest.
Looks(t)   == IF tx[t].kind = "sweep" THEN Source(tx[t].item) ELSE Own(t)
Held(t)    == IF tx[t].taken = 0 THEN {} ELSE LET s == Steps(t) IN {s[n] : n \in 1 .. tx[t].taken}
Complete(t) == tx[t].taken = Len(Steps(t))
Wanted(t)  == Steps(t)[tx[t].taken + 1]

\* The sessions that hold a lock in the way of l, or of what t wants next.
Holders(t, l) ==
  {u \in Tx \ {t} : \E h \in Held(u) : h.row = l.row /\ Conflict(h.mode, l.mode)}
Blockers(t) == IF ~Running(t) \/ Complete(t) THEN {} ELSE Holders(t, Wanted(t))

KindsOf(C) == {tx[t].kind : t \in C}

Release(t) == tx' = [tx EXCEPT ![t] = Idle]

\* What the transaction finds in the rows it has just locked lets it go on: its
\* job is in the state it is for, no work of the subject is running.
Wants(kind) ==
  CASE kind \in {"attach", "capture", "expire"} -> {"awaiting"}
    [] kind \in {"claim", "answer claim"} -> {"queued"}
    [] kind \in {"beat", "store", "finish", "finish choice", "finish failed", "finish cancelled",
                 "recover", "answer stage", "answer finish"} -> {"running"}
    [] kind \in {"knowledge choice", "card choice", "retry", "answer retry", "sweep",
                 "retention job"} -> {"idle"}
    [] kind \in {"cancel", "answer cancel"} -> {"awaiting", "queued", "idle"}
    [] OTHER -> {"awaiting", "queued", "running", "idle"}

Quiet == \A i \in Items : status[i] # "running"

GoesOn(t) ==
  /\ Wanted(t).row = Looks(t) => status[Own(t)] \in Wants(tx[t].kind)
  /\ tx[t].kind \in {"delete subject", "remove document"} /\ tx[t].taken + 1 = 2 + Len(WorkRows) => Quiet

\* The transactions of a worker are about a job it has claimed.
OfWorker == {kind \in Kinds : Wants(kind) = {"running"}}

\* A handler rolls back what it read for the access check and begins anew.
Begin(t) ==
  /\ ~Running(t) /\ ~gone
  /\ LET others == {u \in Tx : Running(u)} IN \E kind \in Kinds :
       /\ Meet(1 + Cardinality(others), {kind} \cup KindsOf(others))
       /\ \E i \in ItemsOf(kind) :
            /\ kind \in OfWorker =>
                 status[IF kind \in OfJob THEN JobRow(i) ELSE AnswerRow(i)] = "running"
            /\ tx' = [tx EXCEPT ![t] = [kind |-> kind, item |-> i, taken |-> 0]]
  /\ UNCHANGED <<status, gone>>

Take(t) ==
  /\ Running(t) /\ ~Complete(t)
  /\ Blockers(t) = {}
  /\ ~gone /\ GoesOn(t)
  /\ tx' = [tx EXCEPT ![t].taken = @ + 1]
  /\ UNCHANGED <<status, gone>>

\* 404 or 409, a lost lease, or a row that somebody else has locked.
Stop(t) ==
  /\ Running(t) /\ ~Complete(t)
  /\ \/ Blockers(t) = {} /\ (gone \/ ~GoesOn(t))
     \/ Blockers(t) # {} /\ Wanted(t).mode = "L"
  /\ Release(t)
  /\ UNCHANGED <<status, gone>>

After(kind) ==
  CASE kind \in {"attach", "capture", "knowledge choice", "retry", "answer retry"} -> {"queued"}
    [] kind \in {"claim", "answer claim"} -> {"running"}
    [] kind \in {"recover", "finish failed"} -> {"queued", "idle"}
    [] kind \in {"card choice", "cancel", "answer cancel", "expire", "finish", "finish choice",
                 "finish cancelled", "answer finish"} -> {"idle"}
    [] OTHER -> {}

Commit(t) ==
  /\ Running(t) /\ Complete(t)
  /\ IF After(tx[t].kind) = {} THEN UNCHANGED status
     ELSE \E s \in After(tx[t].kind) : status' = [status EXCEPT ![Own(t)] = s]
  /\ gone' = (gone \/ tx[t].kind = "delete subject")
  /\ Release(t)

\* Sets of sessions, each of which waits for another of them.
Cycles ==
  LET blockers == [t \in Tx |-> Blockers(t)]
      waiting  == {t \in Tx : blockers[t] # {} /\ Wanted(t).mode # "L"}
  IN {C \in SUBSET waiting : C # {} /\ \A t \in C : blockers[t] \cap C # {}}

\* PostgreSQL ends one transaction of a cycle; its caller gets the error.
Abort ==
  /\ \E C \in Cycles : \E t \in C : Release(t)
  /\ UNCHANGED <<status, gone>>

LockNext ==
  \/ \E t \in Tx : Begin(t) \/ Take(t) \/ Stop(t) \/ Commit(t)
  \/ Abort

LockSpec == LockInit /\ [][LockNext]_lock_vars

----------------------------------------------------------------------------
\* The transactions that lock rows in a circle.
Opposite == {
  {"retry", "attach"}, {"retry", "capture"},                  \* admission, job
  {"retry", "sweep"},                                         \* job, source
  {"finish", "delete subject"}, {"finish", "remove document"}, \* job, subject or lecture
  {"finish", "publish"}, {"reserve", "publish"},              \* subject, lecture
  {"delete thread", "answer stage"}, {"delete thread", "answer finish"},
  {"delete thread", "delete subject"},                        \* thread, answer
  {"retention", "answer stage"}, {"retention", "answer retry"}, \* message, answer
  {"answer finish", "ask"},                                   \* session, thread
  {"answer finish", "answer retry"}, {"answer finish", "reset password"}, \* session, user
  {"reserve", "delete subject", "attach"},                    \* admission, subject, job
  {"reserve", "remove document", "attach"}}                   \* admission, lecture, job

\* Every circle of waiting that the locking orders of services/generation.py,
\* services/rag_answers.py, the two workers, the deletions and retention allow
\* contains one of these sets of transactions: no other pair, and on the side
\* of the generation jobs no other three, can block each other.
CyclesKnown == \A C \in Cycles : \E p \in Opposite : p \subseteq KindsOf(C)

\* The subject is never deleted under a worker: no job is claimed when its
\* deletion commits or later, although claims and deletion take no common lock
\* but the rows of the jobs.
NoWorkWithoutSubject == gone => Quiet
=============================================================================
