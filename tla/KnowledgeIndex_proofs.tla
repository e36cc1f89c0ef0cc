------------------------ MODULE KnowledgeIndex_proofs ------------------------
(***************************************************************************)
(* Theorems of Knowledge indexing, for any number of documents, embedding  *)
(* spaces, revisions, attempts, batches and worker slots.                  *)
(***************************************************************************)
EXTENDS KnowledgeIndex, FiniteSetTheorems, WellFoundedInduction, TLAPS

-----------------------------------------------------------------------------
(* The operators the actions are built from.                               *)

\* The latest row of a set of rows is one of them.
LEMMA LastOf ==
    ASSUME NEW n \in Nat, NEW S \in SUBSET (1..n), S # {}
    PROVE  Last(S) \in S /\ \A m \in S : m <= Last(S)
  <1> DEFINE R == {n - m : m \in S}
  <1>1. R \subseteq Nat /\ R # {}
    <2>1. PICK m \in S : TRUE
      OBVIOUS
    <2>2. \A k \in S : n - k \in Nat
      OBVIOUS
    <2>3. n - m \in R
      BY <2>1
    <2> QED BY <2>2, <2>3
  <1> HIDE DEF R
  <1>2. PICK k \in R : \A r \in R : ~(<<r, k>> \in OpToRel(<, Nat))
    BY <1>1, NatLessThanWellFounded, WFMin
  <1>3. \A r \in R : ~(r < k)
    BY <1>1, <1>2 DEF OpToRel
  <1>4. PICK l \in S : k = n - l
    BY DEF R
  <1>5. \A m \in S : m <= l
    BY <1>3, <1>4 DEF R
  <1> QED BY <1>4, <1>5 DEF Last

LEMMA LastRows ==
    /\ \A S \in SUBSET Contents : S # {} => Last(S) \in S
    /\ \A S \in SUBSET Indexes : S # {} => Last(S) \in S
  BY LastOf, IndexAssumption DEF Contents, Indexes

\* Empty rows are rows.
LEMMA EmptyRows ==
    /\ \A s \in {"none", "pending_index", "removed"} : NoContent(s) \in Content
    /\ \A s \in {"none", "pending_index", "removed"} : NoIndex(s) \in Index
    /\ \A s \in {"none", "queued", "completed", "failed", "cancelled", "removed"} :
          NoJob(s) \in Job
  <1>1. 0 \in 0..MaxAttempts
    BY IndexAssumption
  <1>2. \A s \in {"none", "pending_index", "removed"} : NoContent(s) \in Content
    BY DEF NoContent, Content
  <1>3. \A s \in {"none", "pending_index", "removed"} : NoIndex(s) \in Index
    BY DEF NoIndex, Index
  <1>4. \A s \in {"none", "queued", "completed", "failed", "cancelled", "removed"} :
           NoJob(s) \in Job
    BY <1>1 DEF NoJob, Job
  <1> QED BY <1>2, <1>3, <1>4

\* The columns of a job that TypeOK relates.
Shaped(q) ==
    /\ q.status = "running" <=> q.lease # "null"
    /\ q.status \in {"queued", "running"} <=> q.deadline # "null"

LEMMA EmptyJobsShaped ==
    \A s \in {"none", "completed", "failed", "cancelled", "removed"} : Shaped(NoJob(s))
  BY DEF Shaped, NoJob

\* A recovered job is a job.
LEMMA RecoveredJobs ==
    ASSUME NEW i \in Indexes, job[i] \in Job, Shaped(job[i]), LeaseExpired(i)
    PROVE  RecoveredJob(i) \in Job /\ Shaped(RecoveredJob(i))
  <1>1. CASE Requeueable(i)
    <2> DEFINE q == [job[i] EXCEPT !.status = "queued", !.lease = "null"]
    <2>1. q \in Job
      BY DEF Job
    <2>2. Shaped(q)
      BY DEF Job, Shaped, LeaseExpired
    <2> QED BY <1>1, <2>1, <2>2 DEF RecoveredJob
  <1>2. CASE ~Requeueable(i)
    BY <1>2, EmptyRows, EmptyJobsShaped DEF RecoveredJob
  <1> QED BY <1>1, <1>2

-----------------------------------------------------------------------------
(* Type correctness.                                                       *)

LEMMA StageIndexesType ==
    ASSUME TypeOK, NEW cs \in SUBSET Contents, NEW s \in Spaces, StageIndexes(cs, s)
    PROVE  /\ index' \in [Indexes -> Index]
           /\ job' \in [Indexes -> Job]
           /\ \A i \in Indexes : Shaped(job'[i])
  <1>1. ASSUME NEW i \in Indexes, StagedFor(i, cs) # {}
        PROVE  [NoIndex("pending_index") EXCEPT
                   !.content = CHOOSE c \in StagedFor(i, cs) : TRUE, !.space = s] \in Index
    <2> DEFINE c == CHOOSE c \in StagedFor(i, cs) : TRUE
    <2>1. c \in Contents
      BY <1>1 DEF StagedFor
    <2> HIDE DEF c
    <2>2. [NoIndex("pending_index") EXCEPT !.content = c, !.space = s] \in Index
      BY <2>1, EmptyRows DEF Index
    <2> QED BY <2>2 DEF c
  <1>2. index' \in [Indexes -> Index]
    BY <1>1 DEF StageIndexes, TypeOK
  <1> DEFINE q == [NoJob("queued") EXCEPT !.deadline = "ahead"]
  <1>3. q \in Job /\ Shaped(q)
    <2>1. q \in Job
      BY EmptyRows DEF Job
    <2>2. Shaped(q)
      BY DEF Shaped, NoJob
    <2> QED BY <2>1, <2>2
  <1> HIDE DEF q
  <1>4. job' = [i \in Indexes |-> IF StagedFor(i, cs) = {} THEN job[i] ELSE q]
    BY DEF StageIndexes, q
  <1>5. \A i \in Indexes : Shaped(job[i])
    BY DEF TypeOK, Shaped
  <1> QED BY <1>2, <1>3, <1>4, <1>5 DEF TypeOK

LEMMA DeleteType ==
    ASSUME TypeOK, NEW cs \in SUBSET Contents, Delete(cs)
    PROVE  /\ content' \in [Contents -> Content]
           /\ index' \in [Indexes -> Index]
           /\ job' \in [Indexes -> Job]
           /\ \A i \in Indexes : Shaped(job'[i])
  <1>1. \A i \in Indexes : Shaped(job[i])
    BY DEF TypeOK, Shaped
  <1> QED BY <1>1, EmptyRows, EmptyJobsShaped DEF Delete, TypeOK

LEMMA EndedType ==
    ASSUME TypeOK, NEW i \in Indexes,
           \/ Ended(i, "failed", "index_failed")
           \/ Ended(i, "cancelled", "cancelled")
    PROVE  /\ index' \in [Indexes -> Index]
           /\ job' \in [Indexes -> Job]
           /\ \A k \in Indexes : Shaped(job'[k])
  <1>1. /\ [index[i] EXCEPT !.status = "index_failed", !.active = FALSE] \in Index
        /\ [index[i] EXCEPT !.status = "cancelled", !.active = FALSE] \in Index
    BY DEF TypeOK, Index
  <1>2. index' \in [Indexes -> Index]
    BY <1>1 DEF Ended, TypeOK
  <1>3. \A k \in Indexes : Shaped(job[k])
    BY DEF TypeOK, Shaped
  <1> QED BY <1>2, <1>3, EmptyRows, EmptyJobsShaped DEF Ended, TypeOK

LEMMA CutoverType ==
    ASSUME TypeOK, NEW s \in Spaces \cup {None}, Cutover(s)
    PROVE  /\ index' \in [Indexes -> Index]
           /\ subject' \in Spaces \cup {None}
           /\ scope' \subseteq Contents \X Indexes
  <1>1. ASSUME NEW i \in Indexes, NEW b \in BOOLEAN
        PROVE  [index[i] EXCEPT !.active = b] \in Index
    BY SMTT(30) DEF TypeOK, Index
  <1>2. \A i \in Indexes : (i \in Targets(s)) \in BOOLEAN
    OBVIOUS
  <1>3. \A i \in Indexes : [index[i] EXCEPT !.active = i \in Targets(s)] \in Index
    BY <1>1, <1>2, Zenon
  <1> QED BY <1>3 DEF Cutover, SwitchedTo, TypeOK

\* What is left of TypeOK once the rows are typed.
RestOK ==
    /\ subject \in Spaces \cup {None}
    /\ configured \in Spaces
    /\ scope \subseteq Contents \X Indexes
    /\ task \in [Claims -> [pc : Pc, batch : 1..Batches]]

RowsOK ==
    /\ content \in [Contents -> Content]
    /\ index \in [Indexes -> Index]
    /\ job \in [Indexes -> Job]
    /\ \A i \in Indexes : Shaped(job[i])

LEMMA TypeParts == (TypeOK <=> RowsOK /\ RestOK) /\ (TypeOK' <=> RowsOK' /\ RestOK')
  BY DEF TypeOK, RowsOK, RestOK, Shaped

LEMMA InstructorType ==
    ASSUME TypeOK, Instructor PROVE TypeOK'
  <1> USE DEF RowsOK, RestOK
  <1>1. RowsOK /\ RestOK
    BY TypeParts
  <1>2. ASSUME NEW d \in Docs, CapturePrepared(d) PROVE TypeOK'
    <2>1. FreshContent \in Contents /\ StageIndexes({FreshContent}, configured)
      BY <1>2 DEF CapturePrepared
    <2>2. /\ index' \in [Indexes -> Index] /\ job' \in [Indexes -> Job]
          /\ \A i \in Indexes : Shaped(job'[i])
      BY <1>1, <2>1, StageIndexesType
    <2> DEFINE q == [NoContent("pending_index") EXCEPT
                        !.doc = d, !.created_document = (ContentsOf(d) = {})]
    <2>3. q \in Content
      BY EmptyRows DEF Content
    <2> HIDE DEF q
    <2>4. content' = [content EXCEPT ![FreshContent] = q]
      BY <1>2 DEF CapturePrepared, q
    <2>5. RestOK'
      BY <1>1, <1>2 DEF CapturePrepared, BumpCorpus
    <2> QED BY <1>1, <2>2, <2>3, <2>4, <2>5, TypeParts
  <1>3. ASSUME NEW d \in Docs, ReviewAndPublish(d) PROVE TypeOK'
    <2>1. PICK c \in ActiveContents(d) :
            /\ ReadyIndexes(c) # {}
            /\ LET i == Last(ReadyIndexes(c))
               IN  \/ subject = None /\ Cutover(index[i].space)
                   \/ /\ subject = index[i].space
                      /\ index' = [index EXCEPT ![i].active = TRUE]
                      /\ scope' = {}
                      /\ UNCHANGED subject
            /\ content' = [content EXCEPT ![c].reviewed = TRUE, ![c].published = TRUE]
            /\ UNCHANGED <<job, configured, task>>
      BY <1>3 DEF ReviewAndPublish
    <2> DEFINE i == Last(ReadyIndexes(c))
    <2>2. i \in Indexes
      BY <2>1, LastRows DEF ReadyIndexes, IndexesOf
    <2>3. content' \in [Contents -> Content]
      <3>1. c \in Contents /\ content[c] \in Content
        BY <1>1 DEF ActiveContents, ContentsOf
      <3>2. [content[c] EXCEPT !.reviewed = TRUE, !.published = TRUE] \in Content
        BY <3>1 DEF Content
      <3> QED BY <1>1, <2>1, <3>1, <3>2
    <2>4. index[i] \in Index /\ index[i].space \in Spaces \cup {None}
      BY <1>1, <2>2 DEF Index
    <2> HIDE DEF i
    <2>5. CASE subject = None /\ Cutover(index[i].space)
      BY <1>1, <2>1, <2>3, <2>4, <2>5, CutoverType, TypeParts
    <2>6. CASE /\ index' = [index EXCEPT ![i].active = TRUE]
               /\ scope' = {}
               /\ UNCHANGED subject
      <3>1. [index[i] EXCEPT !.active = TRUE] \in Index
        BY <2>4 DEF Index
      <3>2. index' \in [Indexes -> Index]
        BY <1>1, <2>6, <3>1
      <3> QED BY <1>1, <2>1, <2>3, <2>6, <3>2, TypeParts
    <2> QED BY <2>1, <2>5, <2>6 DEF i
  <1>4. ASSUME NEW d \in Docs, Unpublish(d) PROVE TypeOK'
    <2>1. PICK c \in Contents : content' = [content EXCEPT ![c].published = FALSE]
      BY <1>4 DEF Unpublish, ContentsOf
    <2>2. [content[c] EXCEPT !.published = FALSE] \in Content
      BY <1>1 DEF Content
    <2>3. content' \in [Contents -> Content]
      BY <1>1, <2>1, <2>2
    <2> QED BY <1>1, <1>4, <2>3, TypeParts DEF Unpublish, BumpCorpus
  <1>5. ASSUME NEW d \in Docs, RetryIndex(d) PROVE TypeOK'
    <2> DEFINE c == Last(ContentsOf(d))
    <2>1. c \in Contents
      BY <1>5, LastRows DEF RetryIndex, ContentsOf
    <2>2. StageIndexes({c}, configured)
      BY <1>5 DEF RetryIndex
    <2> HIDE DEF c
    <2>3. /\ index' \in [Indexes -> Index] /\ job' \in [Indexes -> Job]
          /\ \A i \in Indexes : Shaped(job'[i])
      BY <1>1, <2>1, <2>2, StageIndexesType
    <2> QED BY <1>1, <1>5, <2>3, TypeParts DEF RetryIndex, BumpCorpus
  <1>6. ASSUME NEW d \in Docs, Remove(d) PROVE TypeOK'
    <2>1. ContentsOf(d) \subseteq Contents /\ Delete(ContentsOf(d))
      BY <1>6 DEF Remove, ContentsOf
    <2>2. RowsOK'
      BY <2>1, DeleteType
    <2> QED BY <1>1, <1>6, <2>2, TypeParts DEF Remove, BumpCorpus
  <1>7. ASSUME NEW c \in Contents, RemoveCaptured(c) PROVE TypeOK'
    <2>1. PICK cs \in SUBSET Contents : Delete(cs)
      BY <1>7 DEF RemoveCaptured, ContentsOf
    <2>2. RowsOK'
      BY <2>1, DeleteType
    <2> QED BY <1>1, <1>7, <2>2, TypeParts DEF RemoveCaptured, BumpCorpus
  <1> QED BY <1>2, <1>3, <1>4, <1>5, <1>6, <1>7 DEF Instructor

LEMMA OperatorType ==
    ASSUME TypeOK, Operator PROVE TypeOK'
  <1> USE DEF RowsOK, RestOK
  <1>1. RowsOK /\ RestOK
    BY TypeParts
  <1>2. CASE EnqueueSubjectReindex
    <2>1. PICK cs \in SUBSET Contents : StageIndexes(cs, configured)
      BY <1>2 DEF EnqueueSubjectReindex, Corpus, ActiveContents, ContentsOf
    <2>2. /\ index' \in [Indexes -> Index] /\ job' \in [Indexes -> Job]
          /\ \A i \in Indexes : Shaped(job'[i])
      BY <1>1, <2>1, StageIndexesType
    <2> QED BY <1>1, <1>2, <2>2, TypeParts DEF EnqueueSubjectReindex, BumpCorpus
  <1>3. ASSUME NEW s \in Spaces, CutoverSubject(s) PROVE TypeOK'
    BY <1>1, <1>3, CutoverType, TypeParts DEF CutoverSubject
  <1>4. ASSUME NEW s \in Spaces, Configure(s) PROVE TypeOK'
    BY <1>1, <1>4, TypeParts DEF Configure, rows
  <1> QED BY <1>2, <1>3, <1>4 DEF Operator

LEMMA ClockType ==
    ASSUME TypeOK, NEW i \in Indexes, Clock(i) PROVE TypeOK'
  <1> USE DEF RowsOK, RestOK
  <1>1. RowsOK /\ RestOK
    BY TypeParts
  <1>2. job[i] \in Job /\ Shaped(job[i])
    BY <1>1
  <1>3. ASSUME NEW q \in Job, Shaped(q), job' = [job EXCEPT ![i] = q]
        PROVE  job' \in [Indexes -> Job] /\ \A k \in Indexes : Shaped(job'[k])
    BY <1>1, <1>3
  <1>4. CASE LeaseRunsOut(i)
    <2> DEFINE q == [job[i] EXCEPT !.lease = "expired"]
    <2>1. q \in Job
      BY <1>2 DEF Job
    <2>2. Shaped(q)
      BY <1>2, <1>4 DEF Shaped, Job, LeaseRunsOut
    <2>3. job' = [job EXCEPT ![i] = q]
      BY <1>4 DEF LeaseRunsOut
    <2> HIDE DEF q
    <2> QED BY <1>1, <1>3, <1>4, <2>1, <2>2, <2>3, TypeParts DEF LeaseRunsOut
  <1>5. CASE DeadlineNears(i)
    <2> DEFINE dl == IF job[i].deadline = "ahead" THEN "near" ELSE "past"
               ls == IF job[i].deadline = "near" /\ job[i].lease = "live"
                       THEN "expired" ELSE job[i].lease
               q == [job[i] EXCEPT !.deadline = dl, !.lease = ls]
    <2>1. dl \in {"near", "past"} /\ ls \in {"null", "live", "expired"}
          /\ (ls = "null" <=> job[i].lease = "null")
      BY <1>2 DEF Job
    <2>2. job' = [job EXCEPT ![i] = q]
      BY <1>5 DEF DeadlineNears
    <2>3. job[i].deadline # "null"
      BY <1>5 DEF DeadlineNears
    <2> HIDE DEF dl, ls
    <2>4. q \in Job
      BY <1>2, <2>1 DEF Job
    <2>5. Shaped(q)
      BY <1>2, <2>1, <2>3 DEF Shaped, Job
    <2> HIDE DEF q
    <2> QED BY <1>1, <1>3, <1>5, <2>2, <2>4, <2>5, TypeParts DEF DeadlineNears
  <1> QED BY <1>4, <1>5 DEF Clock

\* What a job remembers of its claims: the provider was asked by the last of
\* them at most, and a queued job has an attempt left and was not asked for.
\* This makes TypeOK inductive, since a claim counts up to MaxAttempts.
Counted(q) ==
    /\ q.provider_calls \subseteq {q.attempt_count}
    /\ q.status = "queued" => q.attempt_count < MaxAttempts /\ q.provider_calls = {}

CallsCounted == \A i \in Indexes : Counted(job[i])

LEMMA ClaimNextType ==
    ASSUME TypeOK, CallsCounted, NEW i \in Indexes, ClaimNext(i) PROVE TypeOK'
  <1> USE DEF RowsOK, RestOK
  <1>1. RowsOK /\ RestOK
    BY TypeParts
  <1>2. job[i] \in Job /\ Shaped(job[i]) /\ job[i].status = "queued"
    BY <1>1 DEF ClaimNext
  <1>3. scope' \subseteq Contents \X Indexes
    BY <1>1 DEF ClaimNext, BumpCorpus
  <1>4. CASE Failed(i) /\ UNCHANGED task
    BY <1>1, <1>3, <1>4, EndedType, TypeParts DEF ClaimNext, Failed
  <1> DEFINE a == job[i].attempt_count + 1
             q == [job[i] EXCEPT !.status = "running", !.attempt_count = a,
                                 !.lease = "live"]
  <1>5. CASE /\ job' = [job EXCEPT ![i] = q]
             /\ Goto(<<i, a>>, "mark")
             /\ UNCHANGED index
    <2>1. a \in 0..MaxAttempts /\ a \in Attempts
      BY <1>2, IndexAssumption DEF CallsCounted, Counted, Job, Attempts
    <2>2. <<i, a>> \in Claims
      BY <2>1 DEF Claims
    <2> HIDE DEF a
    <2>3. q \in Job
      BY <1>2, <2>1 DEF Job
    <2>4. Shaped(q)
      BY <1>2, <2>1 DEF Shaped, Job
    <2> HIDE DEF q
    <2>5. job' \in [Indexes -> Job] /\ \A k \in Indexes : Shaped(job'[k])
      BY <1>1, <1>5, <2>3, <2>4
    <2>6. [task[<<i, a>>] EXCEPT !.pc = "mark"] \in [pc : Pc, batch : 1..Batches]
      BY <1>1, <2>2 DEF Pc
    <2>7. task' \in [Claims -> [pc : Pc, batch : 1..Batches]]
      BY <1>1, <1>5, <2>6 DEF Goto
    <2> QED BY <1>1, <1>3, <1>5, <2>5, <2>7, TypeParts DEF ClaimNext
  <1> QED BY <1>4, <1>5 DEF ClaimNext

LEMMA RecoverExpiredType ==
    ASSUME TypeOK, RecoverExpired PROVE TypeOK'
  <1> USE DEF RowsOK, RestOK
  <1>1. RowsOK /\ RestOK
    BY TypeParts
  <1>2. ASSUME NEW i \in Indexes
        PROVE  [index[i] EXCEPT !.status = "index_failed", !.active = FALSE] \in Index
    BY <1>1 DEF Index
  <1>3. index' \in [Indexes -> Index]
    BY <1>1, <1>2 DEF RecoverExpired
  <1>4. ASSUME NEW i \in Indexes, LeaseExpired(i)
        PROVE  RecoveredJob(i) \in Job /\ Shaped(RecoveredJob(i))
    BY <1>1, <1>4, RecoveredJobs
  <1>5. job' \in [Indexes -> Job] /\ \A i \in Indexes : Shaped(job'[i])
    BY <1>1, <1>4 DEF RecoverExpired
  <1> QED BY <1>1, <1>3, <1>5, TypeParts DEF RecoverExpired, BumpCorpus

\* Where a coroutine may go.
LEMMA TaskType ==
    ASSUME TypeOK, NEW x \in Claims
    PROVE  /\ \A pc \in Pc : Goto(x, pc) =>
                 task' \in [Claims -> [pc : Pc, batch : 1..Batches]]
           /\ Leave(x) => task' \in [Claims -> [pc : Pc, batch : 1..Batches]]
  <1>1. \A pc \in Pc : [task[x] EXCEPT !.pc = pc] \in [pc : Pc, batch : 1..Batches]
    BY DEF TypeOK
  <1>2. Idle \in [pc : Pc, batch : 1..Batches]
    BY IndexAssumption DEF Idle, Pc
  <1> QED BY <1>1, <1>2 DEF Goto, Leave, TypeOK

LEMMA CoroutineType ==
    ASSUME TypeOK, NEW x \in Claims, Coroutine(x) \/ Mishap(x) PROVE TypeOK'
  <1> USE DEF RowsOK, RestOK
  <1>1. RowsOK /\ RestOK
    BY TypeParts
  <1> DEFINE i == x[1]
  <1>2. i \in Indexes /\ x[2] \in Attempts
    BY DEF Claims
  <1>3. index[i] \in Index /\ job[i] \in Job /\ Shaped(job[i])
    BY <1>1, <1>2
  <1>4. CASE LeaseLost(x) \/ RecordFailedAttempt(x) \/ Mishap(x)
    BY <1>1, <1>4, TaskType, TypeParts
    DEF LeaseLost, RecordFailedAttempt, Mishap, Breaks, Interrupted, Dies, rows, Pc
  <1>5. CASE MarkProviderBoundary(x)
    <2> DEFINE q == [job[i] EXCEPT !.provider_calls = @ \cup {x[2]}]
               st == IF index[i].status = "pending_index" THEN "indexing" ELSE index[i].status
               r == [index[i] EXCEPT !.status = st]
    <2>1. q \in Job
      BY <1>2, <1>3 DEF Job
    <2>2. Shaped(q)
      BY <1>3 DEF Shaped, Job
    <2>3. r \in Index
      BY <1>3 DEF Index
    <2>4. job' = [job EXCEPT ![i] = q] /\ index' = [index EXCEPT ![i] = r]
      BY <1>5 DEF MarkProviderBoundary
    <2> HIDE DEF q, r
    <2>5. task' \in [Claims -> [pc : Pc, batch : 1..Batches]]
      BY <1>5, TaskType DEF MarkProviderBoundary, Pc
    <2>6. scope' \subseteq Contents \X Indexes
      BY <1>1, <1>5 DEF MarkProviderBoundary, BumpCorpus
    <2>7. /\ index' \in [Indexes -> Index]
          /\ job' \in [Indexes -> Job]
          /\ \A k \in Indexes : Shaped(job'[k])
      BY <1>1, <1>2, <2>1, <2>2, <2>3, <2>4
    <2>8. UNCHANGED <<content, subject, configured>>
      BY <1>5 DEF MarkProviderBoundary
    <2> QED BY <1>1, <2>5, <2>6, <2>7, <2>8, TypeParts
  <1>6. CASE PersistBatch(x)
    <2> DEFINE b == task[x].batch
               r == [index[i] EXCEPT !.embedded = @ \cup {b}]
               t == IF b < Batches THEN [pc |-> "mark", batch |-> b + 1]
                    ELSE [pc |-> "complete", batch |-> b]
    <2>1. b \in 1..Batches /\ Batches \in Nat
      BY <1>1, IndexAssumption
    <2>2. r \in Index
      <3>1. index[i].embedded \cup {b} \in SUBSET (1..Batches)
        BY <1>3, <2>1 DEF Index
      <3> HIDE DEF b
      <3> QED BY <1>3, <3>1 DEF Index
    <2>3. t \in [pc : Pc, batch : 1..Batches]
      BY <2>1 DEF Pc
    <2>4. index' = [index EXCEPT ![i] = r] /\ task' = [task EXCEPT ![x] = t]
      BY <1>6 DEF PersistBatch
    <2> HIDE DEF r, t
    <2>5. index' \in [Indexes -> Index]
      BY <1>1, <2>2, <2>4
    <2>6. task' \in [Claims -> [pc : Pc, batch : 1..Batches]]
      BY <1>1, <2>3, <2>4
    <2>7. UNCHANGED <<content, job, subject, configured, scope>>
      BY <1>6 DEF PersistBatch
    <2> QED BY <1>1, <2>5, <2>6, <2>7, TypeParts
  <1>7. CASE Complete(x)
    <2>1. task' \in [Claims -> [pc : Pc, batch : 1..Batches]]
      BY <1>7, TaskType DEF Complete, Pc
    <2>2. scope' \subseteq Contents \X Indexes
      BY <1>1, <1>7 DEF Complete, BumpCorpus
    <2>3. CASE UNCHANGED rows
      BY <1>1, <1>7, <2>1, <2>2, <2>3, TypeParts DEF Complete, rows
    <2>4. CASE /\ content' = Activated(i)
               /\ index' = [index EXCEPT ![i].status = "ready", ![i].active = Serves(i)]
               /\ job' = [job EXCEPT ![i] = NoJob("completed")]
      <3>1. \A b \in BOOLEAN : [index[i] EXCEPT !.status = "ready", !.active = b] \in Index
        BY <1>3 DEF Index
      <3>2. Serves(i) \in BOOLEAN
        BY DEF Serves
      <3>3. [index[i] EXCEPT !.status = "ready", !.active = Serves(i)] \in Index
        BY <3>1, <3>2, Zenon
      <3>4. index' \in [Indexes -> Index]
        BY <1>1, <2>4, <3>3
      <3>5. ASSUME NEW b \in Contents
            PROVE  /\ [content[b] EXCEPT !.status = "ready", !.active = TRUE] \in Content
                   /\ [content[b] EXCEPT !.active = FALSE] \in Content
        BY <1>1 DEF Content
      <3>6. content' \in [Contents -> Content]
        BY <1>1, <2>4, <3>5 DEF Activated
      <3>7. job' \in [Indexes -> Job] /\ \A k \in Indexes : Shaped(job'[k])
        BY <1>1, <2>4, EmptyRows, EmptyJobsShaped
      <3> QED BY <1>1, <1>7, <2>1, <2>2, <3>4, <3>6, <3>7, TypeParts DEF Complete
    <2> QED BY <1>7, <2>3, <2>4 DEF Complete
  <1>8. CASE Fail(x) \/ Cancel(x)
    <2>1. /\ index' \in [Indexes -> Index]
          /\ job' \in [Indexes -> Job]
          /\ \A k \in Indexes : Shaped(job'[k])
      BY <1>1, <1>2, <1>8, EndedType DEF Fail, Cancel, Failed
    <2>2. task' \in [Claims -> [pc : Pc, batch : 1..Batches]]
      BY <1>8, TaskType DEF Fail, Cancel
    <2> QED BY <1>1, <1>8, <2>1, <2>2, TypeParts DEF Fail, Cancel, BumpCorpus
  <1> QED BY <1>4, <1>5, <1>6, <1>7, <1>8 DEF Coroutine

-----------------------------------------------------------------------------
(* The provider is paid once.                                              *)

LEMMA CountedRows ==
    /\ \A s \in {"none", "completed", "failed", "cancelled", "removed"} : Counted(NoJob(s))
    /\ Counted([NoJob("queued") EXCEPT !.deadline = "ahead"])
  BY IndexAssumption DEF Counted, NoJob

LEMMA StageCounted ==
    ASSUME CallsCounted, NEW cs, NEW s, StageIndexes(cs, s) PROVE CallsCounted'
  BY CountedRows DEF StageIndexes, CallsCounted

LEMMA EndedCounted ==
    ASSUME TypeOK, CallsCounted, NEW i \in Indexes,
           \/ Ended(i, "failed", "index_failed")
           \/ Ended(i, "cancelled", "cancelled")
    PROVE  CallsCounted'
  BY CountedRows DEF Ended, CallsCounted, TypeOK

LEMMA CountedInductive ==
    ASSUME TypeOK, CallsCounted, [Next]_vars PROVE CallsCounted'
  <1>1. CASE UNCHANGED job
    BY <1>1 DEF CallsCounted
  <1>2. ASSUME NEW cs, Delete(cs) PROVE CallsCounted'
    BY <1>2, CountedRows DEF Delete, CallsCounted
  <1>3. CASE Instructor
    BY <1>1, <1>2, <1>3, StageCounted
    DEF Instructor, CapturePrepared, ReviewAndPublish, Unpublish, RetryIndex, Remove,
        RemoveCaptured
  <1>4. CASE Operator
    BY <1>1, <1>4, StageCounted
    DEF Operator, EnqueueSubjectReindex, CutoverSubject, Configure, rows
  <1>5. ASSUME NEW i \in Indexes, ClaimNext(i) PROVE CallsCounted'
    <2>1. job[i] \in Job /\ Counted(job[i]) /\ job[i].status = "queued"
      BY <1>5 DEF TypeOK, CallsCounted, ClaimNext
    <2> DEFINE a == job[i].attempt_count + 1
               q == [job[i] EXCEPT !.status = "running", !.attempt_count = a,
                                   !.lease = "live"]
    <2>2. Counted(q)
      BY <2>1 DEF Counted, Job
    <2>3. CASE job' = [job EXCEPT ![i] = q]
      <3> HIDE DEF q
      <3> QED BY <2>2, <2>3 DEF CallsCounted, TypeOK
    <2> QED BY <1>5, <2>3, EndedCounted DEF ClaimNext, Failed
  <1>6. ASSUME NEW i \in Indexes, Clock(i) PROVE CallsCounted'
    <2>1. job[i] \in Job /\ Counted(job[i])
      BY DEF TypeOK, CallsCounted
    <2>2. ASSUME NEW dl, NEW ls
          PROVE  /\ Counted([job[i] EXCEPT !.lease = ls])
                 /\ Counted([job[i] EXCEPT !.deadline = dl, !.lease = ls])
      BY <2>1 DEF Counted, Job
    <2>3. CASE LeaseRunsOut(i)
      BY <2>2, <2>3 DEF LeaseRunsOut, CallsCounted, TypeOK
    <2>4. CASE DeadlineNears(i)
      <3> DEFINE dl == IF job[i].deadline = "ahead" THEN "near" ELSE "past"
                 ls == IF job[i].deadline = "near" /\ job[i].lease = "live"
                         THEN "expired" ELSE job[i].lease
                 q == [job[i] EXCEPT !.deadline = dl, !.lease = ls]
      <3>1. Counted(q)
        <4> HIDE DEF dl, ls
        <4> QED BY <2>2
      <3>2. job' = [job EXCEPT ![i] = q]
        BY <2>4 DEF DeadlineNears
      <3> HIDE DEF q
      <3> QED BY <3>1, <3>2 DEF CallsCounted, TypeOK
    <2> QED BY <1>6, <2>3, <2>4 DEF Clock
  <1>7. ASSUME NEW x \in Claims, Coroutine(x) \/ Mishap(x) PROVE CallsCounted'
    <2> DEFINE i == x[1]
    <2>1. i \in Indexes /\ job[i] \in Job /\ Counted(job[i])
      BY DEF Claims, TypeOK, CallsCounted
    <2>2. CASE MarkProviderBoundary(x)
      <3> DEFINE q == [job[i] EXCEPT !.provider_calls = @ \cup {x[2]}]
      <3>1. job[i].attempt_count = x[2] /\ job[i].status = "running"
        BY <2>2 DEF MarkProviderBoundary, ClaimedJob, Holds
      <3>2. Counted(q)
        BY <2>1, <3>1 DEF Counted, Job
      <3>3. job' = [job EXCEPT ![i] = q]
        BY <2>2 DEF MarkProviderBoundary
      <3> HIDE DEF q
      <3> QED BY <3>2, <3>3 DEF CallsCounted, TypeOK
    <2>3. CASE Complete(x)
      BY <1>1, <2>3, CountedRows DEF Complete, CallsCounted, TypeOK, rows
    <2>4. CASE Fail(x) \/ Cancel(x)
      BY <1>1, <2>1, <2>4, EndedCounted DEF Fail, Cancel, Failed
    <2> QED BY <1>1, <1>7, <2>2, <2>3, <2>4
            DEF Coroutine, Mishap, LeaseLost, RecordFailedAttempt, PersistBatch, Breaks,
                Interrupted, Dies, rows
  <1>8. CASE RecoverExpired
    <2>1. ASSUME NEW i \in Indexes, LeaseExpired(i) PROVE Counted(RecoveredJob(i))
      <3>1. job[i] \in Job
        BY DEF TypeOK
      <3> QED BY <3>1, CountedRows DEF RecoveredJob, Requeueable, Counted, Job
    <2> QED BY <1>8, <2>1 DEF RecoverExpired, CallsCounted
  <1> QED BY <1>1, <1>3, <1>4, <1>5, <1>6, <1>7, <1>8 DEF Next, Authorize, rows, vars

LEMMA TypeInductive ==
    ASSUME TypeOK, CallsCounted, [Next]_vars PROVE TypeOK'
  <1>1. CASE UNCHANGED vars
    BY <1>1 DEF vars, rows, TypeOK
  <1>2. CASE Authorize
    <2>1. scope' \subseteq Contents \X Indexes
      BY <1>2 DEF Authorize, Evidence
    <2> QED BY <1>2, <2>1 DEF Authorize, TypeOK, rows
  <1> QED BY <1>1, <1>2, InstructorType, OperatorType, ClaimNextType, ClockType,
             CoroutineType, RecoverExpiredType DEF Next

LEMMA InitHolds == Init => TypeOK /\ CallsCounted /\ CorpusFence
  <1> SUFFICES ASSUME Init PROVE TypeOK /\ CallsCounted /\ CorpusFence
    OBVIOUS
  <1>1. Idle \in [pc : Pc, batch : 1..Batches]
    BY IndexAssumption DEF Idle, Pc
  <1>2. RowsOK /\ RestOK
    <2>1. RowsOK
      BY EmptyRows, EmptyJobsShaped DEF Init, RowsOK
    <2>2. RestOK
      BY <1>1 DEF Init, RestOK, Claims
    <2> QED BY <2>1, <2>2
  <1>3. CallsCounted
    BY CountedRows DEF Init, CallsCounted
  <1> QED BY <1>2, <1>3, TypeParts DEF Init, CorpusFence

-----------------------------------------------------------------------------
(* The corpus fence.                                                       *)

\* A step leaves a ready index revision with the content and the space it was
\* built for.
Bound ==
    \A i \in Indexes :
        index'[i].status = "ready" =>
            index'[i].content = index[i].content /\ index'[i].space = index[i].space

\* As long as the triggers do not move the corpus revision, what supports an
\* answer stays what it was.
LEMMA EvidenceKept ==
    ASSUME Bound, ~CorpusMoves PROVE Evidence' = Evidence
  <1>1. \A c \in Contents : content'[c] = content[c] \/ (~Eligible(c) /\ ~Eligible(c)')
    BY DEF CorpusMoves, ContentMoved
  <1>2. subject' = subject
    BY DEF CorpusMoves, SpaceMoved
  <1>3. \A c \in Contents : c # 0
    BY DEF Contents
  <1>4. ASSUME NEW c \in Contents, NEW i \in Indexes, Supports(c, i)
        PROVE  Supports(c, i)'
    <2>1. content'[c] = content[c]
      BY <1>1, <1>4 DEF Supports
    <2>2. <<index'[i].status, index'[i].active>> = <<index[i].status, index[i].active>>
      BY <1>3, <1>4 DEF CorpusMoves, IndexMoved, Supports
    <2> QED BY <1>2, <1>4, <2>1, <2>2 DEF Supports, Eligible, Bound
  <1>5. ASSUME NEW c \in Contents, NEW i \in Indexes, Supports(c, i)'
        PROVE  Supports(c, i)
    <2>1. content'[c] = content[c] /\ Eligible(c)
      BY <1>1, <1>5 DEF Supports, Eligible
    <2>2. index[i].content = c /\ index[i].space = subject
      BY <1>2, <1>5 DEF Supports, Bound
    <2>3. <<index'[i].status, index'[i].active>> = <<index[i].status, index[i].active>>
      BY <1>3, <1>5, <2>1, <2>2 DEF CorpusMoves, IndexMoved, Supports
    <2> QED BY <1>5, <2>1, <2>2, <2>3 DEF Supports, Eligible
  <1> QED BY <1>4, <1>5 DEF Evidence

\* A transaction that ends with the triggers keeps the fence, if it is Bound.
LEMMA FenceBumped ==
    ASSUME CorpusFence, Bound, BumpCorpus PROVE CorpusFence'
  BY EvidenceKept DEF CorpusFence, BumpCorpus

\* So does one that touches nothing the triggers look at.
LEMMA FenceUntouched ==
    ASSUME CorpusFence, UNCHANGED <<content, subject, scope>>, NEW e, NEW x,
           index' = index \/ index' = [index EXCEPT ![x].embedded = e],
           TypeOK
    PROVE  CorpusFence'
  <1>1. \A i \in Indexes : /\ index'[i].status = index[i].status
                           /\ index'[i].active = index[i].active
                           /\ index'[i].content = index[i].content
                           /\ index'[i].space = index[i].space
    BY DEF TypeOK, Index
  <1>2. Bound /\ ~IndexMoved
    BY <1>1 DEF Bound, IndexMoved
  <1>3. ~CorpusMoves
    BY <1>2 DEF CorpusMoves, ContentMoved, SpaceMoved
  <1> QED BY <1>2, <1>3, EvidenceKept DEF CorpusFence

LEMMA BoundSteps ==
    ASSUME TypeOK
    PROVE  /\ UNCHANGED index => Bound
           /\ \A cs, s : StageIndexes(cs, s) => Bound
           /\ \A cs : Delete(cs) => Bound
           /\ \A i, st, b : index' = [index EXCEPT ![i].status = st, ![i].active = b] => Bound
           /\ \A i, st : index' = [index EXCEPT ![i].status = st] => Bound
  <1>1. UNCHANGED index => Bound
    BY DEF Bound
  <1>2. ASSUME NEW cs, NEW s, StageIndexes(cs, s) PROVE Bound
    <2>1. \A i \in Indexes : StagedFor(i, cs) # {} => index'[i].status = "pending_index"
      BY <1>2 DEF StageIndexes, NoIndex
    <2>2. \A i \in Indexes : StagedFor(i, cs) = {} => index'[i] = index[i]
      BY <1>2 DEF StageIndexes
    <2> QED BY <2>1, <2>2 DEF Bound
  <1>3. ASSUME NEW cs, Delete(cs) PROVE Bound
    BY <1>3 DEF Delete, NoIndex, Bound
  <1>4. ASSUME NEW k, NEW st, NEW b,
               \/ index' = [index EXCEPT ![k].status = st, ![k].active = b]
               \/ index' = [index EXCEPT ![k].status = st]
        PROVE  Bound
    <2>1. \A i \in Indexes : /\ index'[i].content = index[i].content
                             /\ index'[i].space = index[i].space
      BY <1>4 DEF TypeOK, Index
    <2> QED BY <2>1 DEF Bound
  <1> QED BY <1>1, <1>2, <1>3, <1>4

LEMMA FenceInductive ==
    ASSUME TypeOK, CorpusFence, [Next]_vars PROVE CorpusFence'
  <1>1. CASE UNCHANGED <<content, index, subject, scope>>
    BY <1>1, FenceUntouched
  <1>2. CASE Instructor
    <2>1. ASSUME NEW d \in Docs, ReviewAndPublish(d) PROVE CorpusFence'
      <3>1. scope' = {} \/ (scope' = scope /\ Evidence = {})
        BY <2>1 DEF ReviewAndPublish, Cutover
      <3> QED BY <3>1 DEF CorpusFence
    <2>2. ASSUME NEW d \in Docs,
                 CapturePrepared(d) \/ Unpublish(d) \/ RetryIndex(d) \/ Remove(d)
          PROVE  CorpusFence'
      BY <2>2, BoundSteps, FenceBumped DEF CapturePrepared, Unpublish, RetryIndex, Remove
    <2>3. ASSUME NEW c \in Contents, RemoveCaptured(c) PROVE CorpusFence'
      BY <2>3, BoundSteps, FenceBumped DEF RemoveCaptured
    <2> QED BY <1>2, <2>1, <2>2, <2>3 DEF Instructor
  <1>3. CASE Operator
    <2>1. CASE EnqueueSubjectReindex
      BY <2>1, BoundSteps, FenceBumped DEF EnqueueSubjectReindex
    <2>2. ASSUME NEW s \in Spaces, CutoverSubject(s) PROVE CorpusFence'
      <3>1. scope' = {} \/ (scope' = scope /\ Evidence = {})
        BY <2>2 DEF CutoverSubject, Cutover
      <3> QED BY <3>1 DEF CorpusFence
    <2>3. ASSUME NEW s \in Spaces, Configure(s) PROVE CorpusFence'
      BY <1>1, <2>3 DEF Configure, rows
    <2> QED BY <1>3, <2>1, <2>2, <2>3 DEF Operator
  <1>4. CASE Authorize
    <2>1. Evidence' = Evidence
      BY <1>4 DEF Authorize, rows, Evidence, Supports, Eligible
    <2> QED BY <1>4, <2>1 DEF Authorize, CorpusFence
  <1>5. ASSUME NEW i \in Indexes, ClaimNext(i) \/ Clock(i) PROVE CorpusFence'
    <2>1. CASE ClaimNext(i)
      BY <2>1, BoundSteps, FenceBumped DEF ClaimNext, Failed, Ended
    <2>2. CASE Clock(i)
      BY <1>1, <2>2 DEF Clock, LeaseRunsOut, DeadlineNears
    <2> QED BY <1>5, <2>1, <2>2
  <1>6. ASSUME NEW x \in Claims, Coroutine(x) \/ Mishap(x) PROVE CorpusFence'
    <2>1. CASE MarkProviderBoundary(x)
      <3>1. \E st : index' = [index EXCEPT ![x[1]].status = st]
        BY <2>1 DEF MarkProviderBoundary
      <3> QED BY <2>1, <3>1, BoundSteps, FenceBumped DEF MarkProviderBoundary
    <2>2. CASE PersistBatch(x)
      <3>1. \E e : index' = [index EXCEPT ![x[1]].embedded = e]
        BY <2>2 DEF PersistBatch
      <3> QED BY <2>2, <3>1, FenceUntouched DEF PersistBatch
    <2>3. CASE Complete(x)
      BY <2>3, BoundSteps, FenceBumped DEF Complete, rows
    <2>4. CASE Fail(x) \/ Cancel(x)
      BY <2>4, BoundSteps, FenceBumped DEF Fail, Cancel, Failed, Ended
    <2> QED BY <1>1, <1>6, <2>1, <2>2, <2>3, <2>4
            DEF Coroutine, Mishap, LeaseLost, RecordFailedAttempt, Breaks, Interrupted,
                Dies, rows
  <1>7. CASE RecoverExpired
    <2>1. \A i \in Indexes :
             \/ index'[i] = index[i]
             \/ index'[i] = [index[i] EXCEPT !.status = "index_failed", !.active = FALSE]
      BY <1>7 DEF RecoverExpired
    <2>2. Bound
      BY <2>1, ZenonT(60) DEF Bound, TypeOK, Index
    <2> QED BY <1>7, <2>2, FenceBumped DEF RecoverExpired
  <1> QED BY <1>1, <1>2, <1>3, <1>4, <1>5, <1>6, <1>7 DEF Next, vars, rows

-----------------------------------------------------------------------------
(* The theorems.                                                           *)

\* The inductive invariant: the fence, and what TypeOK and PaidOnce rest on.
IInv == TypeOK /\ CallsCounted /\ CorpusFence

\* However claims, recoveries, publications and cutovers interleave, the calls
\* of a job stay those of its current attempt and the fence stays sound.
THEOREM Inductive == Spec => []IInv
  <1>1. Init => IInv
    BY InitHolds DEF IInv
  <1>2. IInv /\ [Next]_vars => IInv'
    BY TypeInductive, CountedInductive, FenceInductive DEF IInv
  <1> QED BY <1>1, <1>2, PTL DEF Spec

\* Every row has its columns, a lease exactly while it runs and a deadline
\* until it ends, and no job is claimed more often than rag_index_max_attempts.
THEOREM TypeCorrect == Spec => []TypeOK
  BY Inductive, PTL DEF IInv

\* The provider is asked for the vectors of a revision by one claim only,
\* whatever leases are lost, processes die and recoveries requeue
\* (config.py:467-469).
THEOREM PaidByOneClaim == Spec => []PaidOnce
  <1>1. IInv => PaidOnce
    <2> SUFFICES ASSUME CallsCounted, NEW i \in Indexes
                 PROVE  Cardinality(job[i].provider_calls) <= 1
      BY DEF IInv, PaidOnce
    <2>1. job[i].provider_calls \in {{}, {job[i].attempt_count}}
      BY DEF CallsCounted, Counted
    <2>2. /\ Cardinality({}) = 0
          /\ Cardinality({job[i].attempt_count}) = 1
      BY FS_EmptySet, FS_Singleton
    <2>3. Cardinality(job[i].provider_calls) \in {0, 1}
      BY <2>1, <2>2
    <2> QED BY <2>3
  <1> QED BY <1>1, Inductive, PTL

\* As long as the corpus revision a question was authorized for is current, the
\* subject serves exactly what it served then: no publication, removal,
\* completion, failure, recovery, rollback or cutover escapes the triggers.
THEOREM FenceHolds == Spec => []CorpusFence
  BY Inductive, PTL DEF IInv

-----------------------------------------------------------------------------
(* The rows of a document agree, and one index serves a content revision.    *)

\* The state of an index revision q, and of the job w that builds it.
Agrees(q, w) ==
    /\ w.status \in {"none", "removed"} => q.status = w.status
    /\ w.status = "queued" => q.status = "pending_index"
    /\ w.status = "running" =>
          q.status = IF w.provider_calls = {} THEN "pending_index" ELSE "indexing"
    /\ w.status = "completed" => q.status = "ready"
    /\ w.status = "failed" => q.status = "index_failed"
    /\ w.status = "cancelled" => q.status = "cancelled"
    /\ q.status = "ready" => q.embedded = 1..Batches

JobsAgree == \A i \in Indexes : Agrees(index[i], job[i])

\* An index revision hangs on a content revision, and that on a document.
Hangs(i) ==
    Exists(index[i]) =>
       /\ index[i].content \in Contents
       /\ Exists(content[index[i].content])
       /\ index[i].status = "ready" => content[index[i].content].status = "ready"

AllHang == \A i \in Indexes : Hangs(i)

Placed == \A c \in Contents : Exists(content[c]) => content[c].doc \in Docs

\* The rows of content revisions are used in order, so a fresh one is unused.
Created == {c \in Contents : content[c].status # "none"}

InOrder == \E n \in 0 .. MaxContents : Created = 1 .. n

\* A content revision has one index revision in a space that is ready or may
\* become so.  Otherwise a publication or a completion could activate a second.
Live(i) == index[i].status \in {"pending_index", "indexing", "ready"}

OneLive ==
    \A i, k \in Indexes :
       (/\ Live(i) /\ Live(k)
        /\ index[i].content = index[k].content /\ index[i].space = index[k].space) => i = k

\* The active content revisions of a document, and the active index revisions.
OneActiveContent ==
    \A b, c \in Contents :
       (/\ Exists(content[b]) /\ content[b].active
        /\ Exists(content[c]) /\ content[c].active
        /\ content[b].doc = content[c].doc) => b = c

OneActiveIndex ==
    /\ \A i, k \in Indexes :
          (index[i].active /\ index[k].active /\ index[i].content = index[k].content)
          => i = k
    /\ \A i \in Indexes :
          index[i].active => index[i].status = "ready" /\ index[i].space = subject

Consistent ==
    /\ JobsAgree /\ AllHang /\ Placed /\ InOrder
    /\ OneLive /\ OneActiveContent /\ OneActiveIndex

-----------------------------------------------------------------------------
(* What a step does to the rows.                                             *)

Rest == UNCHANGED <<content, index, job, subject>>

Captured ==
    \E d \in Docs :
       /\ FreshContent \in Contents
       /\ content' = [content EXCEPT ![FreshContent] =
              [NoContent("pending_index") EXCEPT
                  !.doc = d, !.created_document = (ContentsOf(d) = {})]]
       /\ StageIndexes({FreshContent}, configured)
       /\ UNCHANGED subject

Staged ==
    \E cs \in SUBSET Contents :
       /\ \A c \in cs : Exists(content[c]) /\ ~Indexed(c, configured)
       /\ StageIndexes(cs, configured)
       /\ UNCHANGED <<content, subject>>

Deleted ==
    \E cs \in SUBSET Contents :
       /\ \A c \in cs : Exists(content[c])
       /\ Delete(cs)
       /\ UNCHANGED subject

\* What students may be shown of a content changes, and nothing else of it.
Shown(c, q) ==
    /\ q.status = content[c].status /\ q.doc = content[c].doc
    /\ q.active = content[c].active

ContentShown == \A c \in Contents : Shown(c, content'[c])

Switched ==
    \E s \in Spaces \cup {None} :
       /\ Covers(s)
       /\ index' = SwitchedTo(s) /\ subject' = s
       /\ ContentShown /\ UNCHANGED job
       /\ content' = content \/ subject = None

Published ==
    \E c \in Contents :
       /\ ReadyIndexes(c) # {}
       /\ subject = index[Last(ReadyIndexes(c))].space
       /\ index' = [index EXCEPT ![Last(ReadyIndexes(c))].active = TRUE]
       /\ ContentShown /\ UNCHANGED <<job, subject>>

Unpublished == ContentShown /\ UNCHANGED <<index, job, subject>>

Stopped ==
    \E i \in Indexes :
       /\ job[i].status \in {"queued", "running"}
       /\ Ended(i, "failed", "index_failed") \/ Ended(i, "cancelled", "cancelled")
       /\ UNCHANGED <<content, subject>>

\* A claim is taken, its boundary marked, a batch stored, or its time passes.
Worked ==
    \E i \in Indexes :
       /\ \A k \in Indexes \ {i} : index'[k] = index[k] /\ job'[k] = job[k]
       /\ index'[i].content = index[i].content /\ index'[i].space = index[i].space
       /\ index'[i].active = index[i].active
       /\ \/ /\ job[i].status = "queued" /\ job'[i].status = "running"
             /\ job'[i].provider_calls = job[i].provider_calls
             /\ index'[i] = index[i]
          \/ /\ job[i].status = "running" /\ job'[i].status = "running"
             /\ job'[i].provider_calls # {}
             /\ index'[i].status = IF index[i].status = "pending_index" THEN "indexing"
                                   ELSE index[i].status
          \/ /\ job[i].status = "running" /\ job'[i] = job[i]
             /\ index'[i].status = index[i].status
          \/ /\ job'[i].status = job[i].status
             /\ job'[i].provider_calls = job[i].provider_calls
             /\ index'[i] = index[i]
       /\ UNCHANGED <<content, subject>>

Completed ==
    \E i \in Indexes :
       /\ job[i].status = "running" /\ index[i].embedded = 1..Batches
       /\ content' = Activated(i)
       /\ index' = [index EXCEPT ![i].status = "ready", ![i].active = Serves(i)]
       /\ job' = [job EXCEPT ![i] = NoJob("completed")]
       /\ UNCHANGED subject

Recovered ==
    /\ job' = [i \in Indexes |-> IF LeaseExpired(i) THEN RecoveredJob(i) ELSE job[i]]
    /\ index' = [i \in Indexes |->
           IF LeaseExpired(i) /\ ~Requeueable(i)
           THEN [index[i] EXCEPT !.status = "index_failed", !.active = FALSE]
           ELSE index[i]]
    /\ UNCHANGED <<content, subject>>

\* Every step is one of these.
LEMMA StepShapes ==
    ASSUME TypeOK, [Next]_vars
    PROVE  \/ Rest \/ Captured \/ Staged \/ Deleted \/ Switched \/ Published \/ Unpublished
           \/ Stopped \/ Worked \/ Completed \/ Recovered
  <1> DEFINE Goal ==
        \/ Rest \/ Captured \/ Staged \/ Deleted \/ Switched \/ Published \/ Unpublished
        \/ Stopped \/ Worked \/ Completed \/ Recovered
  <1>1. ASSUME NEW d \in Docs, CapturePrepared(d) PROVE Captured
    BY <1>1 DEF CapturePrepared, Captured
  <1>2. ASSUME NEW d \in Docs, ReviewAndPublish(d) PROVE Goal
    <2>1. PICK c \in ActiveContents(d) :
            /\ ReadyIndexes(c) # {}
            /\ LET i == Last(ReadyIndexes(c))
               IN  \/ subject = None /\ Cutover(index[i].space)
                   \/ /\ subject = index[i].space
                      /\ index' = [index EXCEPT ![i].active = TRUE]
                      /\ scope' = {}
                      /\ UNCHANGED subject
            /\ content' = [content EXCEPT ![c].reviewed = TRUE, ![c].published = TRUE]
            /\ UNCHANGED <<job, configured, task>>
      BY <1>2 DEF ReviewAndPublish
    <2>2. c \in Contents
      BY DEF ActiveContents, ContentsOf
    <2>3. ContentShown
      BY <2>1, <2>2 DEF ContentShown, Shown, TypeOK, Content
    <2> DEFINE i == Last(ReadyIndexes(c))
    <2>4. i \in Indexes
      BY <2>1, LastRows DEF ReadyIndexes, IndexesOf
    <2>5. index[i].space \in Spaces \cup {None}
      BY <2>4 DEF TypeOK, Index
    <2> HIDE DEF i
    <2>6. CASE subject = None /\ Cutover(index[i].space)
      BY <2>1, <2>3, <2>5, <2>6 DEF Switched, Cutover
    <2>7. CASE /\ subject = index[i].space
               /\ index' = [index EXCEPT ![i].active = TRUE]
               /\ UNCHANGED subject
      BY <2>1, <2>2, <2>3, <2>7 DEF Published, i
    <2> QED BY <2>1, <2>6, <2>7 DEF i
  <1>3. ASSUME NEW d \in Docs, Unpublish(d) PROVE Unpublished
    <2>1. PICK c \in Contents : content' = [content EXCEPT ![c].published = FALSE]
      BY <1>3 DEF Unpublish, ContentsOf
    <2>2. ContentShown
      BY <2>1 DEF ContentShown, Shown, TypeOK, Content
    <2> QED BY <1>3, <2>2 DEF Unpublished, Unpublish
  <1>4. ASSUME NEW d \in Docs, RetryIndex(d) PROVE Staged
    <2> DEFINE c == Last(ContentsOf(d))
    <2>1. c \in ContentsOf(d) /\ c \in Contents
      BY <1>4, LastRows DEF RetryIndex, ContentsOf
    <2>2. /\ ~Indexed(c, configured) /\ StageIndexes({c}, configured)
          /\ UNCHANGED <<content, subject>>
      BY <1>4 DEF RetryIndex
    <2> HIDE DEF c
    <2> QED BY <2>1, <2>2 DEF Staged, ContentsOf
  <1>5. ASSUME NEW d \in Docs, Remove(d) PROVE Deleted
    BY <1>5 DEF Remove, Deleted, ContentsOf
  <1>6. ASSUME NEW c \in Contents, RemoveCaptured(c) PROVE Deleted
    <2>1. PICK cs \in {ContentsOf(content[c].doc), {c}} : Delete(cs)
      BY <1>6 DEF RemoveCaptured
    <2>2. cs \subseteq Contents /\ \A b \in cs : Exists(content[b])
      BY <1>6, <2>1 DEF RemoveCaptured, ContentsOf
    <2> QED BY <1>6, <2>1, <2>2 DEF Deleted, RemoveCaptured
  <1>7. ASSUME EnqueueSubjectReindex PROVE Staged
    <2> DEFINE cs == {c \in Corpus : ~Indexed(c, configured)}
    <2>1. cs \in SUBSET Contents /\ \A c \in cs : Exists(content[c]) /\ ~Indexed(c, configured)
      BY DEF Corpus, ActiveContents, ContentsOf
    <2>2. StageIndexes(cs, configured) /\ UNCHANGED <<content, subject>>
      BY <1>7 DEF EnqueueSubjectReindex
    <2> HIDE DEF cs
    <2> QED BY <2>1, <2>2 DEF Staged
  <1>8. ASSUME NEW s \in Spaces, CutoverSubject(s) PROVE Switched
    BY <1>8 DEF CutoverSubject, Cutover, Switched, ContentShown, Shown
  <1>9. ASSUME NEW i \in Indexes, ClaimNext(i) PROVE Goal
    <2>1. CASE Failed(i)
      BY <1>9, <2>1 DEF ClaimNext, Failed, Stopped
    <2>2. CASE ~Failed(i)
      <3> DEFINE a == job[i].attempt_count + 1
                 w == [job[i] EXCEPT !.status = "running", !.attempt_count = a,
                                     !.lease = "live"]
      <3>1. job' = [job EXCEPT ![i] = w] /\ UNCHANGED index
        BY <1>9, <2>2 DEF ClaimNext
      <3>2. job[i] \in Job
        BY DEF TypeOK
      <3>3. w.status = "running" /\ w.provider_calls = job[i].provider_calls
        BY <3>2 DEF Job
      <3> HIDE DEF w
      <3>4. job'[i] = w /\ \A k \in Indexes \ {i} : job'[k] = job[k]
        BY <3>1 DEF TypeOK
      <3> QED BY <1>9, <3>1, <3>3, <3>4 DEF Worked, ClaimNext
    <2> QED BY <2>1, <2>2
  <1>10. ASSUME NEW i \in Indexes, Clock(i) PROVE Worked
    <2>1. /\ job'[i].status = job[i].status
          /\ job'[i].provider_calls = job[i].provider_calls
          /\ \A k \in Indexes \ {i} : job'[k] = job[k]
      BY <1>10 DEF Clock, LeaseRunsOut, DeadlineNears, TypeOK, Job
    <2> QED BY <1>10, <2>1 DEF Worked, Clock, LeaseRunsOut, DeadlineNears
  <1>11. ASSUME NEW x \in Claims, MarkProviderBoundary(x) PROVE Worked
    <2> DEFINE i == x[1]
               w == [job[i] EXCEPT !.provider_calls = @ \cup {x[2]}]
               st == IF index[i].status = "pending_index" THEN "indexing" ELSE index[i].status
               q == [index[i] EXCEPT !.status = st]
    <2>1. i \in Indexes /\ job[i] \in Job /\ index[i] \in Index
      BY DEF Claims, TypeOK
    <2>2. job' = [job EXCEPT ![i] = w] /\ index' = [index EXCEPT ![i] = q]
          /\ job[i].status = "running" /\ UNCHANGED <<content, subject>>
      BY <1>11 DEF MarkProviderBoundary, ClaimedJob, Holds
    <2>3. w.status = job[i].status /\ w.provider_calls # {}
      BY <2>1 DEF Job
    <2>4. /\ q.status = st /\ q.content = index[i].content
          /\ q.space = index[i].space /\ q.active = index[i].active
      BY <2>1 DEF Index
    <2> HIDE DEF w, q
    <2>5. /\ job'[i] = w /\ index'[i] = q
          /\ \A k \in Indexes \ {i} : index'[k] = index[k] /\ job'[k] = job[k]
      BY <2>1, <2>2 DEF TypeOK
    <2> HIDE DEF i
    <2> QED BY <2>1, <2>2, <2>3, <2>4, <2>5 DEF Worked
  <1>12. ASSUME NEW x \in Claims, PersistBatch(x) PROVE Worked
    <2> DEFINE i == x[1]
    <2>1. i \in Indexes /\ index[i] \in Index
      BY DEF Claims, TypeOK
    <2>2. /\ index' = [index EXCEPT ![i].embedded = @ \cup {task[x].batch}]
          /\ job[i].status = "running" /\ UNCHANGED <<content, job, subject>>
      BY <1>12 DEF PersistBatch, ClaimedJob, Holds
    <2>3. /\ index'[i].status = index[i].status /\ index'[i].content = index[i].content
          /\ index'[i].space = index[i].space /\ index'[i].active = index[i].active
          /\ \A k \in Indexes \ {i} : index'[k] = index[k]
      BY <2>1, <2>2 DEF TypeOK, Index
    <2> HIDE DEF i
    <2> QED BY <2>1, <2>2, <2>3 DEF Worked
  <1>13. ASSUME NEW x \in Claims, Complete(x) PROVE Rest \/ Completed
    <2>1. x[1] \in Indexes
      BY DEF Claims
    <2> QED BY <1>13, <2>1 DEF Complete, ClaimedJob, Holds, Rest, Completed, rows
  <1>14. ASSUME NEW x \in Claims, Fail(x) \/ Cancel(x) PROVE Rest \/ Stopped
    <2>1. x[1] \in Indexes
      BY DEF Claims
    <2> QED BY <1>14, <2>1 DEF Fail, Cancel, Failed, Holds, Rest, Stopped
  <1>15. ASSUME NEW x \in Claims,
                LeaseLost(x) \/ RecordFailedAttempt(x) \/ Mishap(x)
         PROVE  Rest
    BY <1>15 DEF LeaseLost, RecordFailedAttempt, Mishap, Breaks, Interrupted, Dies, Rest, rows
  <1>16. CASE RecoverExpired
    BY <1>16 DEF RecoverExpired, Recovered
  <1>17. ASSUME (\E s \in Spaces : Configure(s)) \/ Authorize \/ UNCHANGED vars
         PROVE  Rest
    BY <1>17 DEF Configure, Authorize, Rest, rows, vars
  <1> QED
    BY <1>1, <1>2, <1>3, <1>4, <1>5, <1>6, <1>7, <1>8, <1>9, <1>10, <1>11, <1>12, <1>13,
       <1>14, <1>15, <1>16, <1>17 DEF Next, Instructor, Operator, Coroutine

-----------------------------------------------------------------------------
(* The conjuncts of the invariant.                                           *)

\* What StageIndexes gives a row it stages.
LEMMA StagedRows ==
    ASSUME NEW cs \in SUBSET Contents, NEW s, StageIndexes(cs, s), NEW i \in Indexes
    PROVE  \/ index'[i] = index[i] /\ job'[i] = job[i] /\ StagedFor(i, cs) = {}
           \/ \E c \in cs :
                /\ c \in StagedFor(i, cs)
                /\ index'[i].status = "pending_index" /\ ~index'[i].active
                /\ index'[i].content = c /\ index'[i].space = s
                /\ job'[i].status = "queued"
  <1>1. CASE StagedFor(i, cs) = {}
    BY <1>1 DEF StageIndexes
  <1>2. CASE StagedFor(i, cs) # {}
    <2> DEFINE c == CHOOSE c \in StagedFor(i, cs) : TRUE
    <2>1. c \in StagedFor(i, cs) /\ c \in cs
      BY <1>2 DEF StagedFor
    <2>2. index'[i] = [NoIndex("pending_index") EXCEPT !.content = c, !.space = s]
      BY <1>2 DEF StageIndexes
    <2>3. job'[i] = [NoJob("queued") EXCEPT !.deadline = "ahead"]
      BY <1>2 DEF StageIndexes
    <2> HIDE DEF c
    <2>4. /\ index'[i].status = "pending_index" /\ ~index'[i].active
          /\ index'[i].content = c /\ index'[i].space = s
      BY <2>2 DEF NoIndex
    <2>5. job'[i].status = "queued"
      BY <2>3 DEF NoJob
    <2> QED BY <2>1, <2>4, <2>5
  <1> QED BY <1>1, <1>2

\* Two rows are never staged for the same content.
LEMMA StagedOnce ==
    ASSUME NEW cs, NEW i, NEW k, NEW c, c \in StagedFor(i, cs), c \in StagedFor(k, cs)
    PROVE  i = k
  BY DEF StagedFor

\* A cutover decides which rows are active, and nothing else of them.
LEMMA SwitchedRows ==
    ASSUME TypeOK, NEW s, index' = SwitchedTo(s), NEW i \in Indexes
    PROVE  /\ index'[i].status = index[i].status /\ index'[i].embedded = index[i].embedded
           /\ index'[i].content = index[i].content /\ index'[i].space = index[i].space
           /\ index'[i].active <=> i \in Targets(s)
  <1>1. index[i] \in Index /\ index'[i] = [index[i] EXCEPT !.active = i \in Targets(s)]
    BY DEF TypeOK, SwitchedTo
  <1> QED BY <1>1 DEF Index

\* A job that fails or is cancelled takes its index revision along.
LEMMA EndedRows ==
    ASSUME TypeOK, NEW i \in Indexes,
           Ended(i, "failed", "index_failed") \/ Ended(i, "cancelled", "cancelled")
    PROVE  /\ \A k \in Indexes \ {i} : index'[k] = index[k] /\ job'[k] = job[k]
           /\ \/ job'[i].status = "failed" /\ index'[i].status = "index_failed"
              \/ job'[i].status = "cancelled" /\ index'[i].status = "cancelled"
           /\ index'[i].content = index[i].content /\ index'[i].space = index[i].space
           /\ ~index'[i].active
  <1>1. index[i] \in Index
    BY DEF TypeOK
  <1> QED BY <1>1 DEF Ended, NoJob, TypeOK, Index

\* A completed index revision is active if it is in the space of the subject.
LEMMA CompletedRows ==
    ASSUME TypeOK, NEW i \in Indexes,
           index' = [index EXCEPT ![i].status = "ready", ![i].active = Serves(i)],
           job' = [job EXCEPT ![i] = NoJob("completed")]
    PROVE  /\ \A k \in Indexes \ {i} : index'[k] = index[k] /\ job'[k] = job[k]
           /\ job'[i].status = "completed" /\ index'[i].status = "ready"
           /\ index'[i].content = index[i].content /\ index'[i].space = index[i].space
           /\ index'[i].embedded = index[i].embedded
           /\ index'[i].active <=> subject = index[i].space
  <1>1. index[i] \in Index
    BY DEF TypeOK
  <1> QED BY <1>1 DEF NoJob, TypeOK, Index, Serves

\* What recovery does to a row: nothing, a requeue, or a failure.
LEMMA RecoveredRows ==
    ASSUME TypeOK, Recovered, NEW i \in Indexes
    PROVE  \/ index'[i] = index[i] /\ job'[i] = job[i]
           \/ /\ LeaseExpired(i) /\ Requeueable(i)
              /\ index'[i] = index[i] /\ job'[i].status = "queued"
           \/ /\ LeaseExpired(i)
              /\ index'[i].status = "index_failed" /\ job'[i].status = "failed"
              /\ index'[i].content = index[i].content /\ index'[i].space = index[i].space
              /\ ~index'[i].active
  <1>1. index[i] \in Index /\ job[i] \in Job
    BY DEF TypeOK
  <1>2. CASE ~LeaseExpired(i)
    BY <1>2 DEF Recovered
  <1>3. CASE LeaseExpired(i) /\ Requeueable(i)
    BY <1>1, <1>3 DEF Recovered, RecoveredJob, Job
  <1>4. CASE LeaseExpired(i) /\ ~Requeueable(i)
    BY <1>1, <1>4 DEF Recovered, RecoveredJob, NoJob, Index
  <1> QED BY <1>2, <1>3, <1>4

\* A publication makes the latest ready index revision active.
LEMMA PublishedRows ==
    ASSUME TypeOK, NEW c \in Contents, ReadyIndexes(c) # {},
           index' = [index EXCEPT ![Last(ReadyIndexes(c))].active = TRUE]
    PROVE  LET i == Last(ReadyIndexes(c)) IN
           /\ i \in Indexes /\ index[i].content = c /\ index[i].status = "ready"
           /\ \A k \in Indexes \ {i} : index'[k] = index[k]
           /\ index'[i].status = "ready" /\ index'[i].embedded = index[i].embedded
           /\ index'[i].content = c /\ index'[i].space = index[i].space
  <1> DEFINE i == Last(ReadyIndexes(c))
  <1>1. i \in ReadyIndexes(c)
    BY LastRows DEF ReadyIndexes, IndexesOf
  <1>2. i \in Indexes /\ index[i].content = c /\ index[i].status = "ready"
    BY <1>1 DEF ReadyIndexes, IndexesOf
  <1>3. index[i] \in Index
    BY <1>2 DEF TypeOK
  <1>4. index' = [index EXCEPT ![i].active = TRUE]
    OBVIOUS
  <1> HIDE DEF i
  <1>5. /\ \A k \in Indexes \ {i} : index'[k] = index[k]
        /\ index'[i].status = "ready" /\ index'[i].embedded = index[i].embedded
        /\ index'[i].content = c /\ index'[i].space = index[i].space
    BY <1>2, <1>3, <1>4 DEF TypeOK, Index
  <1> QED BY <1>2, <1>5 DEF i

\* A deletion takes the index revisions of the contents along.
LEMMA DeletedRows ==
    ASSUME NEW cs \in SUBSET Contents, Delete(cs), NEW i \in Indexes
    PROVE  \/ /\ index'[i] = index[i] /\ job'[i] = job[i]
              /\ ~(Exists(index[i]) /\ index[i].content \in cs)
           \/ /\ index'[i].status = "removed" /\ job'[i].status = "removed"
              /\ ~index'[i].active
  BY DEF Delete, NoIndex, NoJob

\* The state of an index revision and of its job.
LEMMA JobsAgreeInductive ==
    ASSUME TypeOK, CallsCounted, JobsAgree, [Next]_vars PROVE JobsAgree'
  <1> SUFFICES ASSUME NEW i \in Indexes PROVE Agrees(index'[i], job'[i])
    BY DEF JobsAgree
  <1>1. Agrees(index[i], job[i]) /\ Counted(job[i])
    BY DEF JobsAgree, CallsCounted
  <1>2. CASE index'[i] = index[i] /\ job'[i] = job[i]
    BY <1>1, <1>2
  <1>3. CASE Captured \/ Staged
    <2>1. PICK cs \in SUBSET Contents : StageIndexes(cs, configured)
      BY <1>3 DEF Captured, Staged
    <2> QED BY <1>2, <2>1, StagedRows DEF Agrees
  <1>4. CASE Deleted
    BY <1>2, <1>4, DeletedRows DEF Deleted, Agrees
  <1>5. CASE Switched
    BY <1>1, <1>5, SwitchedRows DEF Switched, Agrees
  <1>6. CASE Published
    <2>1. index'[i].status = index[i].status /\ index'[i].embedded = index[i].embedded
      BY <1>6, PublishedRows DEF Published
    <2> QED BY <1>1, <1>6, <2>1 DEF Published, Agrees
  <1>7. CASE Stopped
    BY <1>2, <1>7, EndedRows DEF Stopped, Agrees
  <1>8. CASE Worked
    BY <1>1, <1>2, <1>8 DEF Worked, Agrees, Counted
  <1>9. CASE Completed
    BY <1>2, <1>9, CompletedRows, ZenonT(60) DEF Completed, Agrees
  <1>10. CASE Recovered
    BY <1>1, <1>2, <1>10, RecoveredRows DEF Agrees, LeaseExpired, Requeueable
  <1>11. CASE Rest \/ Unpublished
    BY <1>2, <1>11 DEF Rest, Unpublished
  <1> QED BY <1>3, <1>4, <1>5, <1>6, <1>7, <1>8, <1>9, <1>10, <1>11, StepShapes

\* A captured content takes a row nothing used before.
LEMMA FreshRow ==
    ASSUME InOrder, FreshContent \in Contents
    PROVE  /\ content[FreshContent].status = "none"
           /\ Created = 1 .. (FreshContent - 1) /\ FreshContent - 1 \in Nat
  <1>1. PICK n \in 0 .. MaxContents : Created = 1 .. n
    BY DEF InOrder
  <1>2. n \in Nat
    BY <1>1, IndexAssumption
  <1>3. Cardinality(Created) = n
    BY <1>1, <1>2, FS_Interval
  <1>4. FreshContent = n + 1
    BY <1>2, <1>3 DEF FreshContent, Created
  <1>5. FreshContent \notin Created
    BY <1>1, <1>2, <1>4
  <1> QED BY <1>1, <1>2, <1>4, <1>5 DEF Created

\* A capture adds one inactive content revision.
LEMMA CapturedRows ==
    ASSUME TypeOK, NEW d \in Docs, FreshContent \in Contents,
           content' = [content EXCEPT ![FreshContent] =
              [NoContent("pending_index") EXCEPT
                  !.doc = d, !.created_document = (ContentsOf(d) = {})]]
    PROVE  /\ content'[FreshContent].status = "pending_index"
           /\ content'[FreshContent].doc = d /\ ~content'[FreshContent].active
           /\ \A b \in Contents \ {FreshContent} : content'[b] = content[b]
  <1> DEFINE q == [NoContent("pending_index") EXCEPT
                      !.doc = d, !.created_document = (ContentsOf(d) = {})]
  <1>1. q.status = "pending_index" /\ q.doc = d /\ ~q.active
    BY DEF NoContent
  <1> HIDE DEF q
  <1>2. content' = [content EXCEPT ![FreshContent] = q]
    BY DEF q
  <1> QED BY <1>1, <1>2 DEF TypeOK

\* A completed content revision is the only active one of its document.
LEMMA ActivatedRows ==
    ASSUME TypeOK, NEW i \in Indexes, content' = Activated(i), index[i].content \in Contents
    PROVE  LET c == index[i].content IN
           /\ content'[c].status = "ready" /\ content'[c].doc = content[c].doc
           /\ \A b \in Contents \ {c} :
                 /\ content'[b].status = content[b].status /\ content'[b].doc = content[b].doc
                 /\ content'[b].active => content[b].active /\ content[b].doc # content[c].doc
  <1> DEFINE c == index[i].content
  <1>1. \A b \in Contents : content[b] \in Content
    BY DEF TypeOK
  <1>2. content'[c] = [content[c] EXCEPT !.status = "ready", !.active = TRUE]
    BY DEF Activated
  <1>3. content'[c].status = "ready" /\ content'[c].doc = content[c].doc
    BY <1>1, <1>2 DEF Content
  <1>4. ASSUME NEW b \in Contents \ {c}
        PROVE  /\ content'[b].status = content[b].status /\ content'[b].doc = content[b].doc
               /\ content'[b].active => content[b].active /\ content[b].doc # content[c].doc
    <2>1. content'[b] = IF content[b].doc = content[c].doc /\ content[b].active
                          THEN [content[b] EXCEPT !.active = FALSE] ELSE content[b]
      BY DEF Activated
    <2>2. content[b] \in Content
      BY <1>1
    <2> QED BY <2>1, <2>2 DEF Content
  <1> QED BY <1>3, <1>4

\* A deletion takes the contents it names.
LEMMA DeletedContents ==
    ASSUME NEW cs \in SUBSET Contents, Delete(cs), NEW c \in Contents
    PROVE  \/ c \notin cs /\ content'[c] = content[c]
           \/ c \in cs /\ content'[c].status = "removed" /\ ~content'[c].active
  BY DEF Delete, NoContent

\* What hangs on a content is deleted with it, and nothing is staged elsewhere.
LEMMA AllHangInductive ==
    ASSUME TypeOK, JobsAgree, AllHang, InOrder, [Next]_vars PROVE AllHang'
  <1> SUFFICES ASSUME NEW i \in Indexes, Exists(index'[i])
               PROVE  /\ index'[i].content \in Contents
                      /\ Exists(content'[index'[i].content])
                      /\ index'[i].status = "ready" =>
                            content'[index'[i].content].status = "ready"
    BY DEF AllHang, Hangs
  <1>1. Exists(index[i]) =>
          /\ index[i].content \in Contents
          /\ Exists(content[index[i].content])
          /\ index[i].status = "ready" => content[index[i].content].status = "ready"
    BY DEF AllHang, Hangs
  <1>2. ASSUME \A c \in Contents : content'[c].status = content[c].status,
               \/ index'[i] = index[i]
               \/ /\ index'[i].content = index[i].content
                  /\ Exists(index[i])
                  /\ index'[i].status = "ready" => index[i].status = "ready"
        PROVE  /\ index'[i].content \in Contents
               /\ Exists(content'[index'[i].content])
               /\ index'[i].status = "ready" =>
                     content'[index'[i].content].status = "ready"
    BY <1>1, <1>2 DEF Exists
  <1>3. CASE Captured
    <2>1. PICK d \in Docs :
            /\ FreshContent \in Contents
            /\ content' = [content EXCEPT ![FreshContent] =
                 [NoContent("pending_index") EXCEPT
                     !.doc = d, !.created_document = (ContentsOf(d) = {})]]
            /\ StageIndexes({FreshContent}, configured)
      BY <1>3 DEF Captured
    <2>2. /\ content[FreshContent].status = "none"
          /\ content'[FreshContent].status = "pending_index"
          /\ \A b \in Contents \ {FreshContent} : content'[b] = content[b]
      BY <2>1, FreshRow, CapturedRows
    <2>3. CASE index'[i] = index[i]
      BY <1>1, <2>2, <2>3 DEF Exists
    <2>4. CASE index'[i].status = "pending_index" /\ index'[i].content = FreshContent
      BY <2>1, <2>2, <2>4 DEF Exists
    <2>5. {FreshContent} \in SUBSET Contents
      BY <2>1
    <2>6. ASSUME NEW cs \in SUBSET Contents, cs = {FreshContent}
          PROVE  \/ index'[i] = index[i]
                 \/ index'[i].status = "pending_index" /\ index'[i].content = FreshContent
      <3>1. StageIndexes(cs, configured)
        BY <2>1, <2>6
      <3> QED BY <2>6, <3>1, StagedRows
    <2> QED BY <2>3, <2>4, <2>5, <2>6
  <1>4. CASE Staged
    <2>1. PICK cs \in SUBSET Contents :
            /\ \A c \in cs : Exists(content[c])
            /\ StageIndexes(cs, configured)
            /\ UNCHANGED content
      BY <1>4 DEF Staged
    <2>2. StageIndexes(cs, configured)
      BY <2>1
    <2>3. \/ index'[i] = index[i]
          \/ index'[i].status = "pending_index" /\ index'[i].content \in cs
      BY <2>2, StagedRows
    <2> QED BY <1>2, <2>1, <2>3
  <1>5. CASE Deleted
    <2>1. PICK cs \in SUBSET Contents : Delete(cs)
      BY <1>5 DEF Deleted
    <2>2. index'[i] = index[i] /\ ~(Exists(index[i]) /\ index[i].content \in cs)
      BY <2>1, DeletedRows DEF Exists
    <2> QED BY <1>1, <2>1, <2>2, DeletedContents
  <1>6. CASE Switched
    <2>1. /\ index'[i].status = index[i].status /\ index'[i].content = index[i].content
          /\ \A c \in Contents : content'[c].status = content[c].status
      BY <1>6, SwitchedRows DEF Switched, ContentShown, Shown
    <2> QED BY <1>2, <2>1 DEF Exists
  <1>7. CASE Published
    <2>1. /\ index'[i].status = index[i].status /\ index'[i].content = index[i].content
          /\ \A c \in Contents : content'[c].status = content[c].status
      BY <1>7, PublishedRows DEF Published, ContentShown, Shown
    <2> QED BY <1>2, <2>1 DEF Exists
  <1>8. CASE Stopped
    <2>1. PICK k \in Indexes :
            /\ job[k].status \in {"queued", "running"}
            /\ Ended(k, "failed", "index_failed") \/ Ended(k, "cancelled", "cancelled")
      BY <1>8 DEF Stopped
    <2>2. Exists(index[k])
      BY <2>1 DEF JobsAgree, Agrees, Exists
    <2>3. /\ i # k => index'[i] = index[i]
          /\ index'[k].content = index[k].content /\ index'[k].status # "ready"
      BY <2>1, EndedRows
    <2>4. \A c \in Contents : content'[c].status = content[c].status
      BY <1>8 DEF Stopped
    <2> QED BY <1>2, <2>2, <2>3, <2>4
  <1>9. CASE Worked
    <2>1. /\ index'[i].content = index[i].content /\ UNCHANGED content
          /\ \/ index'[i] = index[i]
             \/ job[i].status = "running" /\ index'[i].status = "ready" => index[i].status = "ready"
      BY <1>9 DEF Worked
    <2>2. job[i].status = "running" => Exists(index[i])
      BY DEF JobsAgree, Agrees, Exists
    <2> QED BY <1>2, <1>9, <2>1, <2>2 DEF Worked
  <1>10. CASE Completed
    <2>1. PICK k \in Indexes :
            /\ job[k].status = "running"
            /\ content' = Activated(k)
            /\ index' = [index EXCEPT ![k].status = "ready", ![k].active = Serves(k)]
            /\ job' = [job EXCEPT ![k] = NoJob("completed")]
      BY <1>10 DEF Completed
    <2>2. Exists(index[k])
      BY <2>1 DEF JobsAgree, Agrees, Exists
    <2>3. index[k].content \in Contents
      BY <2>2 DEF AllHang, Hangs
    <2>4. /\ \A j \in Indexes \ {k} : index'[j] = index[j] /\ job'[j] = job[j]
          /\ index'[k].content = index[k].content
      BY <2>1, CompletedRows
    <2>5. /\ content'[index[k].content].status = "ready"
          /\ \A b \in Contents \ {index[k].content} : content'[b].status = content[b].status
      BY <2>1, <2>3, ActivatedRows
    <2>6. CASE i = k
      BY <2>3, <2>4, <2>5, <2>6 DEF Exists
    <2>7. CASE i # k
      BY <1>1, <2>4, <2>5, <2>7 DEF Exists
    <2> QED BY <2>6, <2>7
  <1>11. CASE Recovered
    <2>1. \/ index'[i] = index[i]
          \/ /\ job[i].status = "running"
             /\ index'[i].content = index[i].content /\ index'[i].status # "ready"
      BY <1>11, RecoveredRows DEF LeaseExpired
    <2>2. job[i].status = "running" => Exists(index[i])
      BY DEF JobsAgree, Agrees, Exists
    <2>3. \A c \in Contents : content'[c].status = content[c].status
      BY <1>11 DEF Recovered
    <2> QED BY <1>2, <2>1, <2>2, <2>3
  <1>12. CASE Rest \/ Unpublished
    BY <1>2, <1>12 DEF Rest, Unpublished, ContentShown, Shown
  <1> QED
    BY <1>3, <1>4, <1>5, <1>6, <1>7, <1>8, <1>9, <1>10, <1>11, <1>12, StepShapes

\* Only a capture and a deletion touch which content revisions there are, and
\* whose they are.
ContentKept ==
    \A c \in Contents :
       /\ content'[c].doc = content[c].doc
       /\ Exists(content'[c]) <=> Exists(content[c])
       /\ content'[c].status = "none" <=> content[c].status = "none"

\* Any step but a capture and a deletion keeps them.
LEMMA ContentSteps ==
    ASSUME TypeOK, JobsAgree, AllHang, [Next]_vars
    PROVE  Captured \/ Deleted \/ ContentKept
  <1>1. CASE Rest \/ Staged \/ Stopped \/ Worked \/ Recovered
    BY <1>1 DEF Rest, Staged, Stopped, Worked, Recovered, ContentKept
  <1>2. CASE Switched \/ Published \/ Unpublished
    BY <1>2 DEF Switched, Published, Unpublished, ContentShown, Shown, ContentKept, Exists
  <1>3. CASE Completed
    <2>1. PICK i \in Indexes : job[i].status = "running" /\ content' = Activated(i)
      BY <1>3 DEF Completed
    <2>2. index[i].content \in Contents /\ Exists(content[index[i].content])
      BY <2>1 DEF JobsAgree, Agrees, AllHang, Hangs, Exists
    <2> DEFINE c == index[i].content
    <2>3. /\ content'[c].status = "ready" /\ content'[c].doc = content[c].doc
          /\ \A b \in Contents \ {c} :
                content'[b].status = content[b].status /\ content'[b].doc = content[b].doc
      BY <2>1, <2>2, ActivatedRows
    <2> QED BY <2>2, <2>3 DEF ContentKept, Exists
  <1> QED BY <1>1, <1>2, <1>3, StepShapes

\* A content revision is captured for a document and stays with it.
LEMMA PlacedInductive ==
    ASSUME TypeOK, JobsAgree, AllHang, Placed, [Next]_vars PROVE Placed'
  <1>1. CASE Captured
    <2>1. PICK d \in Docs :
            /\ FreshContent \in Contents
            /\ content' = [content EXCEPT ![FreshContent] =
                 [NoContent("pending_index") EXCEPT
                     !.doc = d, !.created_document = (ContentsOf(d) = {})]]
      BY <1>1 DEF Captured
    <2> QED BY <2>1, CapturedRows, ZenonT(60) DEF Placed
  <1>2. CASE Deleted
    BY <1>2, DeletedContents DEF Deleted, Placed, Exists
  <1>3. CASE ContentKept
    BY <1>3 DEF ContentKept, Placed
  <1> QED BY <1>1, <1>2, <1>3, ContentSteps

\* Rows of content revisions are used in the order of their numbers.
LEMMA InOrderInductive ==
    ASSUME TypeOK, JobsAgree, AllHang, InOrder, [Next]_vars PROVE InOrder'
  <1>1. CASE Captured
    <2>1. PICK d \in Docs :
            /\ FreshContent \in Contents
            /\ content' = [content EXCEPT ![FreshContent] =
                 [NoContent("pending_index") EXCEPT
                     !.doc = d, !.created_document = (ContentsOf(d) = {})]]
      BY <1>1 DEF Captured
    <2>2. /\ content'[FreshContent].status # "none"
          /\ \A b \in Contents \ {FreshContent} : content'[b] = content[b]
      BY <2>1, CapturedRows
    <2>3. Created' = Created \cup {FreshContent}
      BY <2>1, <2>2 DEF Created
    <2>4. Created = 1 .. (FreshContent - 1) /\ FreshContent \in 1 .. MaxContents
      BY <2>1, FreshRow DEF Contents
    <2> QED BY <2>3, <2>4, IndexAssumption DEF InOrder
  <1>2. CASE Deleted
    <2>1. PICK cs \in SUBSET Contents : (\A c \in cs : Exists(content[c])) /\ Delete(cs)
      BY <1>2 DEF Deleted
    <2>2. \A c \in Contents : content'[c].status = "none" <=> content[c].status = "none"
      BY <2>1, DeletedContents DEF Exists
    <2> QED BY <2>2 DEF InOrder, Created
  <1>3. CASE ContentKept
    BY <1>3 DEF ContentKept, InOrder, Created
  <1> QED BY <1>1, <1>2, <1>3, ContentSteps

\* A step either stages rows for contents that have no live one in the
\* configured space, or makes no row live.
Stages ==
    \E cs \in SUBSET Contents :
       /\ \A c \in cs : ~Indexed(c, configured)
       /\ StageIndexes(cs, configured)

NoneLives ==
    \A i \in Indexes :
       Live(i)' => /\ Live(i)
                   /\ index'[i].content = index[i].content
                   /\ index'[i].space = index[i].space

\* Every step stages fresh rows or makes no row live.
LEMMA LiveSteps ==
    ASSUME TypeOK, JobsAgree, AllHang, InOrder, [Next]_vars PROVE Stages \/ NoneLives
  <1>1. CASE Captured
    <2>1. FreshContent \in Contents /\ StageIndexes({FreshContent}, configured)
      BY <1>1 DEF Captured
    <2>2. content[FreshContent].status = "none"
      BY <2>1, FreshRow
    <2>3. ~Indexed(FreshContent, configured)
      BY <2>2 DEF Indexed, IndexesOf, AllHang, Hangs, Exists
    <2> QED BY <2>1, <2>3 DEF Stages
  <1>2. CASE Staged
    BY <1>2 DEF Staged, Stages
  <1>3. CASE Rest \/ Unpublished
    BY <1>3 DEF Rest, Unpublished, NoneLives, Live
  <1>4. CASE Deleted
    <2>1. PICK cs \in SUBSET Contents : Delete(cs)
      BY <1>4 DEF Deleted
    <2> QED BY <2>1, DeletedRows DEF NoneLives, Live
  <1>5. CASE Switched
    BY <1>5, SwitchedRows DEF Switched, NoneLives, Live
  <1>6. CASE Published
    <2>1. PICK c \in Contents :
            /\ ReadyIndexes(c) # {}
            /\ index' = [index EXCEPT ![Last(ReadyIndexes(c))].active = TRUE]
      BY <1>6 DEF Published
    <2> QED BY <2>1, PublishedRows DEF NoneLives, Live
  <1>7. CASE Stopped
    <2>1. PICK k \in Indexes :
            Ended(k, "failed", "index_failed") \/ Ended(k, "cancelled", "cancelled")
      BY <1>7 DEF Stopped
    <2> QED BY <2>1, EndedRows DEF NoneLives, Live
  <1>8. CASE Worked
    <2>1. PICK k \in Indexes :
            /\ \A j \in Indexes \ {k} : index'[j] = index[j]
            /\ index'[k].content = index[k].content /\ index'[k].space = index[k].space
            /\ job[k].status = "running" \/ index'[k].status = index[k].status
      BY <1>8 DEF Worked
    <2>2. job[k].status = "running" => Live(k)
      BY DEF JobsAgree, Agrees, Live
    <2> QED BY <2>1, <2>2 DEF NoneLives, Live
  <1>9. CASE Completed
    <2>1. PICK k \in Indexes :
            /\ job[k].status = "running"
            /\ index' = [index EXCEPT ![k].status = "ready", ![k].active = Serves(k)]
            /\ job' = [job EXCEPT ![k] = NoJob("completed")]
      BY <1>9 DEF Completed
    <2>2. Live(k)
      BY <2>1 DEF JobsAgree, Agrees, Live
    <2>3. /\ \A j \in Indexes \ {k} : index'[j] = index[j]
          /\ index'[k].content = index[k].content /\ index'[k].space = index[k].space
      BY <2>1, CompletedRows, ZenonT(60)
    <2> QED BY <2>2, <2>3 DEF NoneLives, Live
  <1>10. CASE Recovered
    BY <1>10, RecoveredRows DEF NoneLives, Live
  <1> QED
    BY <1>1, <1>2, <1>3, <1>4, <1>5, <1>6, <1>7, <1>8, <1>9, <1>10, StepShapes

\* enqueue_content_index leaves a content alone that has a live index revision.
LEMMA OneLiveInductive ==
    ASSUME TypeOK, JobsAgree, AllHang, InOrder, OneLive, [Next]_vars PROVE OneLive'
  <1>1. CASE NoneLives
    BY <1>1 DEF NoneLives, OneLive
  <1>2. CASE Stages
    <2>1. PICK cs \in SUBSET Contents :
            (\A c \in cs : ~Indexed(c, configured)) /\ StageIndexes(cs, configured)
      BY <1>2 DEF Stages
    <2> SUFFICES ASSUME NEW i \in Indexes, NEW k \in Indexes, Live(i)', Live(k)',
                        index'[i].content = index'[k].content,
                        index'[i].space = index'[k].space
                 PROVE  i = k
      BY DEF OneLive
    <2>2. ASSUME NEW j \in Indexes
          PROVE  \/ index'[j] = index[j]
                 \/ /\ index'[j].content \in cs /\ index'[j].content \in StagedFor(j, cs)
                    /\ index'[j].space = configured
      BY <2>1, StagedRows
    <2>3. ASSUME NEW j \in Indexes, NEW l \in Indexes, index'[j] = index[j], Live(j)',
                 index'[j].content = index'[l].content, index'[j].space = index'[l].space
          PROVE  index'[l].content \notin cs \/ index'[l].space # configured
      BY <2>1, <2>3 DEF Indexed, IndexesOf, Live, Exists
    <2>4. CASE index'[i] = index[i] /\ index'[k] = index[k]
      BY <2>4 DEF OneLive, Live
    <2>5. CASE index'[i].content \in StagedFor(i, cs) /\ index'[k].content \in StagedFor(k, cs)
      BY <2>5, StagedOnce
    <2> QED BY <2>2, <2>3, <2>4, <2>5
  <1> QED BY <1>1, <1>2, LiveSteps

\* The completed revision takes the place of the active one of its document.
LEMMA OneActiveContentInductive ==
    ASSUME TypeOK, JobsAgree, AllHang, OneActiveContent, [Next]_vars PROVE OneActiveContent'
  <1>1. ASSUME \A c \in Contents :
                  (Exists(content'[c]) /\ content'[c].active)
                  => /\ Exists(content[c]) /\ content[c].active
                     /\ content'[c].doc = content[c].doc
        PROVE  OneActiveContent'
    BY <1>1 DEF OneActiveContent
  <1>2. CASE Captured
    <2>1. PICK d \in Docs :
            /\ FreshContent \in Contents
            /\ content' = [content EXCEPT ![FreshContent] =
                 [NoContent("pending_index") EXCEPT
                     !.doc = d, !.created_document = (ContentsOf(d) = {})]]
      BY <1>2 DEF Captured
    <2> QED BY <1>1, <2>1, CapturedRows
  <1>3. CASE Rest \/ Staged \/ Stopped \/ Worked \/ Recovered
    BY <1>1, <1>3 DEF Rest, Staged, Stopped, Worked, Recovered
  <1>4. CASE Deleted
    BY <1>1, <1>4, DeletedContents DEF Deleted
  <1>5. CASE Switched \/ Published \/ Unpublished
    BY <1>1, <1>5 DEF Switched, Published, Unpublished, ContentShown, Shown, Exists
  <1>6. CASE Completed
    <2>1. PICK i \in Indexes : job[i].status = "running" /\ content' = Activated(i)
      BY <1>6 DEF Completed
    <2>2. index[i].content \in Contents
      BY <2>1 DEF JobsAgree, Agrees, AllHang, Hangs, Exists
    <2> DEFINE c == index[i].content
    <2>3. /\ content'[c].doc = content[c].doc
          /\ \A b \in Contents \ {c} :
                /\ content'[b].status = content[b].status /\ content'[b].doc = content[b].doc
                /\ content'[b].active => content[b].active /\ content[b].doc # content[c].doc
      BY <2>1, <2>2, ActivatedRows
    <2> HIDE DEF c
    <2> QED BY <2>3 DEF OneActiveContent, Exists
  <1> QED BY <1>2, <1>3, <1>4, <1>5, <1>6, StepShapes

\* What is active is ready, in the space of the subject; with OneLive that
\* leaves one for each content.
LEMMA OneActiveIndexInductive ==
    ASSUME TypeOK, JobsAgree, OneLive', OneActiveIndex, [Next]_vars PROVE OneActiveIndex'
  <1> SUFFICES ASSUME NEW i \in Indexes, index'[i].active
               PROVE  index'[i].status = "ready" /\ index'[i].space = subject'
    BY DEF OneActiveIndex, OneLive, Live
  <1>1. CASE index'[i] = index[i] /\ subject' = subject
    BY <1>1 DEF OneActiveIndex
  <1>2. CASE Captured \/ Staged
    <2>1. PICK cs \in SUBSET Contents : StageIndexes(cs, configured)
      BY <1>2 DEF Captured, Staged
    <2>2. index'[i] = index[i]
      BY <2>1, StagedRows
    <2> QED BY <1>1, <1>2, <2>2 DEF Captured, Staged
  <1>3. CASE Deleted
    BY <1>1, <1>3, DeletedRows DEF Deleted
  <1>4. CASE Switched
    <2>1. PICK s \in Spaces \cup {None} : index' = SwitchedTo(s) /\ subject' = s
      BY <1>4 DEF Switched
    <2>2. PICK c \in Corpus : ReadyIn(c, s) # {} /\ i = Last(ReadyIn(c, s))
      BY <2>1, SwitchedRows DEF Targets
    <2>3. i \in ReadyIn(c, s)
      BY <2>2, LastRows DEF ReadyIn, ReadyIndexes, IndexesOf
    <2> QED BY <2>1, <2>3, SwitchedRows DEF ReadyIn, ReadyIndexes
  <1>5. CASE Published
    <2>1. PICK c \in Contents :
            /\ ReadyIndexes(c) # {} /\ subject = index[Last(ReadyIndexes(c))].space
            /\ index' = [index EXCEPT ![Last(ReadyIndexes(c))].active = TRUE]
            /\ subject' = subject
      BY <1>5 DEF Published
    <2> QED BY <1>1, <2>1, PublishedRows
  <1>6. CASE Stopped
    <2>1. PICK k \in Indexes :
            Ended(k, "failed", "index_failed") \/ Ended(k, "cancelled", "cancelled")
      BY <1>6 DEF Stopped
    <2> QED BY <1>1, <1>6, <2>1, EndedRows DEF Stopped
  <1>7. CASE Worked
    <2>1. job[i].status = "running" => index[i].status # "ready"
      BY DEF JobsAgree, Agrees
    <2> QED BY <1>1, <1>7, <2>1 DEF Worked, OneActiveIndex
  <1>8. CASE Completed
    <2>1. PICK k \in Indexes :
            /\ index' = [index EXCEPT ![k].status = "ready", ![k].active = Serves(k)]
            /\ job' = [job EXCEPT ![k] = NoJob("completed")]
            /\ subject' = subject
      BY <1>8 DEF Completed
    <2>2. /\ \A j \in Indexes \ {k} : index'[j] = index[j] /\ job'[j] = job[j]
          /\ index'[k].status = "ready" /\ index'[k].space = index[k].space
          /\ index'[k].active <=> subject = index[k].space
      BY <2>1, CompletedRows
    <2> QED BY <1>1, <2>1, <2>2
  <1>9. CASE Recovered
    BY <1>1, <1>9, RecoveredRows DEF Recovered
  <1>10. CASE Rest \/ Unpublished
    BY <1>1, <1>10 DEF Rest, Unpublished
  <1> QED BY <1>2, <1>3, <1>4, <1>5, <1>6, <1>7, <1>8, <1>9, <1>10, StepShapes

-----------------------------------------------------------------------------

\* Nothing exists at first.
LEMMA ConsistentInit == Init => Consistent
  <1> SUFFICES ASSUME Init PROVE Consistent
    OBVIOUS
  <1>1. \A c \in Contents : content[c].status = "none" /\ ~content[c].active
    BY DEF Init, NoContent
  <1>2. \A i \in Indexes : /\ index[i].status = "none" /\ ~index[i].active
                           /\ job[i].status = "none"
    BY DEF Init, NoIndex, NoJob
  <1>3. JobsAgree
    BY <1>2 DEF JobsAgree, Agrees
  <1>4. AllHang /\ Placed /\ OneLive /\ OneActiveContent /\ OneActiveIndex
    BY <1>1, <1>2
    DEF AllHang, Hangs, Exists, Placed, OneLive, Live, OneActiveContent, OneActiveIndex
  <1>5. InOrder
    <2>1. Created = 1 .. 0 /\ 0 \in 0 .. MaxContents
      BY <1>1, IndexAssumption DEF Created
    <2> QED BY <2>1 DEF InOrder
  <1> QED BY <1>3, <1>4, <1>5 DEF Consistent

\* Every step keeps the rows consistent.
LEMMA ConsistentInductive ==
    ASSUME IInv, Consistent, [Next]_vars PROVE Consistent'
  <1> USE DEF IInv, Consistent
  <1>1. JobsAgree'
    BY JobsAgreeInductive
  <1>2. AllHang'
    BY AllHangInductive
  <1>3. Placed' /\ InOrder'
    BY PlacedInductive, InOrderInductive
  <1>4. OneLive'
    BY OneLiveInductive
  <1>5. OneActiveContent'
    BY OneActiveContentInductive
  <1>6. OneActiveIndex'
    BY <1>4, OneActiveIndexInductive
  <1> QED BY <1>1, <1>2, <1>3, <1>4, <1>5, <1>6

\* However captures, claims, completions, cutovers and deletions interleave, a
\* job, the index revision it builds and the content revision that belongs to
\* agree, rows hang together, and no content is built twice for one space.
THEOREM Consistency == Spec => []Consistent
  <1>1. IInv /\ Consistent /\ [Next]_vars => Consistent'
    BY ConsistentInductive
  <1> QED BY <1>1, ConsistentInit, Inductive, PTL DEF Spec

\* No transaction of a worker is one the guards of the database refuse: the
\* state of a revision is the state of its job, a ready revision has all its
\* vectors, and it hangs on a ready content revision.
THEOREM RowsStayTogether == Spec => []RowsAgree
  <1>1. ASSUME TypeOK, Consistent PROVE RowsAgree
    <2> SUFFICES ASSUME NEW i \in Indexes
        PROVE LET ofJob == [none |-> {"none"}, removed |-> {"removed"},
                      queued |-> {"pending_index"},
                      running |-> IF job[i].provider_calls = {} THEN {"pending_index"}
                                  ELSE {"indexing"},
                      completed |-> {"ready"}, failed |-> {"index_failed"},
                      cancelled |-> {"cancelled"}]
              IN  /\ index[i].status \in ofJob[job[i].status]
                  /\ index[i].status = "ready" => index[i].embedded = 1..Batches
                  /\ Exists(index[i]) =>
                        /\ Exists(content[index[i].content])
                        /\ index[i].status = "ready" =>
                              content[index[i].content].status = "ready"
      BY DEF RowsAgree
    <2>1. Agrees(index[i], job[i]) /\ Hangs(i) /\ job[i] \in Job
      BY <1>1 DEF Consistent, JobsAgree, AllHang, TypeOK
    <2>2. job[i].status \in {"none", "queued", "running", "completed", "failed",
                             "cancelled", "removed"}
      BY <2>1 DEF Job
    <2> QED BY <2>1, <2>2 DEF Agrees, Hangs
  <1> QED BY <1>1, TypeCorrect, Consistency, PTL

\* A document has one active content revision and that one active index at most,
\* ready and in the space of the subject: vectors of two spaces never meet,
\* however completions, cutovers and publications interleave.
THEOREM OneServing == Spec => []OneActive
  <1>1. ASSUME Consistent PROVE OneActive
    <2>1. ASSUME NEW d \in Docs
          PROVE  Cardinality({c \in ContentsOf(d) : content[c].active}) <= 1
      <3> DEFINE S == {c \in ContentsOf(d) : content[c].active}
      <3>1. ASSUME S = {} PROVE Cardinality(S) <= 1
        BY <3>1, FS_EmptySet
      <3>2. ASSUME NEW c \in S PROVE Cardinality(S) <= 1
        <4>1. S = {c}
          BY <1>1, <3>2 DEF Consistent, OneActiveContent, ContentsOf
        <4>2. Cardinality({c}) = 1
          BY FS_Singleton
        <4> HIDE DEF S
        <4> QED BY <4>1, <4>2
      <3> HIDE DEF S
      <3>3. Cardinality(S) <= 1
        BY <3>1, <3>2
      <3> QED BY <3>3 DEF S
    <2> QED BY <1>1, <2>1 DEF Consistent, OneActiveIndex, OneActive
  <1> QED BY <1>1, Consistency, PTL

\* Moving the subject to another embedding space leaves every document served
\* that was: each has a ready index there, and that becomes the active one.
THEOREM CutoverComplete == Spec => CutoverKeepsCorpus
  <1>1. ASSUME TypeOK, Placed, [Next]_vars, subject' # subject, subject # None,
               NEW c \in Served
        PROVE  c \in Served'
    <2>1. Switched
      BY <1>1, StepShapes
      DEF Rest, Captured, Staged, Deleted, Published, Unpublished, Stopped, Worked,
          Completed, Recovered
    <2>2. PICK s \in Spaces \cup {None} :
            Covers(s) /\ index' = SwitchedTo(s) /\ subject' = s /\ content' = content
      BY <1>1, <2>1 DEF Switched
    <2>3. c \in Contents /\ Eligible(c) /\ content[c].reviewed
      BY <1>1 DEF Served, Evidence, Supports
    <2>4. c \in Corpus
      BY <1>1, <2>3 DEF Corpus, ActiveContents, ContentsOf, Eligible, Placed, Exists
    <2>5. Last(ReadyIn(c, s)) \in ReadyIn(c, s) /\ ReadyIn(c, s) \subseteq Indexes
      BY <2>2, <2>4, LastRows DEF Covers, ReadyIn, ReadyIndexes, IndexesOf
    <2>6. PICK i \in Indexes : i \in ReadyIn(c, s) /\ i \in Targets(s)
      BY <2>2, <2>4, <2>5 DEF Targets, Covers
    <2>7. /\ index'[i].active /\ index'[i].status = "ready"
          /\ index'[i].content = c /\ index'[i].space = s
      BY <1>1, <2>2, <2>6, SwitchedRows DEF ReadyIn, ReadyIndexes, IndexesOf
    <2>8. Supports(c, i)'
      BY <2>2, <2>3, <2>7 DEF Supports, Eligible
    <2>9. <<c, i>> \in Evidence'
      BY <2>3, <2>6, <2>8 DEF Evidence
    <2> QED BY <2>9 DEF Served
  <1>2. TypeOK /\ Consistent /\ [Next]_vars
        => [(subject' # subject /\ subject # None) => Served \subseteq Served']_vars
    BY <1>1 DEF Consistent
  <1> QED BY <1>2, TypeCorrect, Consistency, PTL DEF Spec, CutoverKeepsCorpus

=============================================================================
