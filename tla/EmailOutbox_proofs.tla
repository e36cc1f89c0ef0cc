------------------------- MODULE EmailOutbox_proofs -------------------------
(***************************************************************************)
(* Theorems of the e-mail outbox, for any number of messages, workers and  *)
(* delivery slots and any attempt limits.                                  *)
(***************************************************************************)
EXTENDS EmailOutbox, FiniteSetTheorems, TLAPS

-----------------------------------------------------------------------------
(* What the row transitions return.                                        *)

\* The values the transitions write, as members of sets the provers need not
\* look into.
LEMMA Values ==
    /\ "absent" \in Status /\ "pending" \in Status /\ "sending" \in Status
    /\ "sent" \in Status /\ "failed" \in Status /\ "deleted" \in Status
    /\ "null" \in Deadline /\ "future" \in Deadline /\ "past" \in Deadline
    /\ "none" \in Outcome /\ "transient" \in Outcome
    /\ "permanent" \in Outcome /\ "smtp_delivery_ambiguous" \in Outcome
  BY DEF Status, Deadline, Outcome

\* A row that does not exist, and each transition of a row, is a row.
LEMMA RowTransitions ==
    ASSUME NEW r \in Row
    PROVE  /\ \A w \in Workers : Claimed(r, w) \in Row
           /\ ClearClaim(r) \in Row
           /\ Requeued(r) \in Row
           /\ \A code \in Outcome : Failed(r, code) \in Row
           /\ \A s \in Status : NoRow(s) \in Row
           /\ Queued \in Row
           /\ Sent(r) \in Row
           /\ Reopened(r) \in Row
           /\ \A d \in Deadline :
                  /\ [r EXCEPT !.available_at = d] \in Row
                  /\ [r EXCEPT !.expires_at = d] \in Row
                  /\ [r EXCEPT !.lease_expires_at = d] \in Row
                  /\ [r EXCEPT !.settled_at = d] \in Row
                  /\ [r EXCEPT !.delivery_started_at = d] \in Row
  <1> USE Values DEF Row
  <1>1. ASSUME NEW w \in Workers PROVE Claimed(r, w) \in Row
    <2> DEFINE k == r.attempt_count + 1
    <2>1. k \in Nat
      OBVIOUS
    <2> HIDE DEF k
    <2> DEFINE a == [r EXCEPT !.status = "sending", !.attempt_count = k,
                              !.delivery_started_at = "null"]
    <2>2. a \in Row
      BY <2>1
    <2> HIDE DEF a
    <2>3. [a EXCEPT !.lease_expires_at = "future", !.worker_id = w,
                    !.claim_token = k, !.last_error_code = "none"] \in Row
      BY <2>1, <2>2
    <2> QED BY <2>3 DEF Claimed, a, k
  <1>2. ClearClaim(r) \in Row
    BY DEF ClearClaim
  <1>3. Requeued(r) \in Row
    BY <1>2 DEF Requeued
  <1>4. ASSUME NEW code \in Outcome PROVE Failed(r, code) \in Row
    BY <1>2 DEF Failed
  <1>5. ASSUME NEW s \in Status PROVE NoRow(s) \in Row
    BY DEF NoRow
  <1>6. Queued \in Row
    <2>1. MaxAttempts \in Nat
      BY OutboxAssumption
    <2> DEFINE a == NoRow("pending")
    <2>2. a \in Row
      BY <1>5
    <2> HIDE DEF a
    <2> QED BY <2>1, <2>2 DEF Queued, a
  <1>7. Sent(r) \in Row
    BY <1>2 DEF Sent
  <1>8. Reopened(r) \in Row
    <2> DEFINE n == IF r.attempt_count >= r.max_attempts
                      THEN r.attempt_count + 1 ELSE r.max_attempts
    <2>1. n \in Nat
      OBVIOUS
    <2> HIDE DEF n
    <2> DEFINE a == [r EXCEPT !.status = "pending", !.available_at = "past",
                              !.last_error_code = "none"]
    <2>2. a \in Row /\ a.max_attempts = r.max_attempts
      OBVIOUS
    <2> HIDE DEF a
    <2>3. [a EXCEPT !.delivery_started_at = "null", !.settled_at = "null",
                    !.max_attempts = n] \in Row
      BY <2>1, <2>2
    <2> QED BY <2>2, <2>3 DEF Reopened, a, n
  <1>9. ASSUME NEW d \in Deadline
        PROVE  /\ [r EXCEPT !.available_at = d] \in Row
               /\ [r EXCEPT !.expires_at = d] \in Row
               /\ [r EXCEPT !.lease_expires_at = d] \in Row
               /\ [r EXCEPT !.settled_at = d] \in Row
               /\ [r EXCEPT !.delivery_started_at = d] \in Row
    OBVIOUS
  <1> QED BY <1>1, <1>2, <1>3, <1>4, <1>5, <1>6, <1>7, <1>8, <1>9

LEMMA RecoveredType == ASSUME NEW r \in Row PROVE Recovered(r) \in Row
  BY RowTransitions, Values DEF Recovered

-----------------------------------------------------------------------------
(* Type correctness.                                                       *)

\* Spec keeps TypeOK, whatever the constants.
LEMMA TypeInductive == TypeOK /\ [Next]_vars => TypeOK'
  <1> SUFFICES ASSUME TypeOK, [Next]_vars PROVE TypeOK'
    OBVIOUS
  <1> USE DEF history
  <1>1. CASE UNCHANGED vars
    BY <1>1 DEF vars, TypeOK
  <1>2. ASSUME NEW m \in Messages, Enqueue(m) \/ Invalidate(m) \/ CascadeDelete(m)
        PROVE TypeOK'
    <2>1. \A n \in Messages : row[n] \in Row
      BY DEF TypeOK
    <2>2. Queued \in Row /\ NoRow("deleted") \in Row
      BY <1>2, <2>1, RowTransitions, Values
    <2> QED BY <1>2, <2>2 DEF Enqueue, Invalidate, CascadeDelete, TypeOK
  <1>3. ASSUME NEW m \in Messages, Clock(m) PROVE TypeOK'
    <2>1. row[m] \in Row
      BY DEF TypeOK
    <2>2. \A d \in Deadline : /\ [row[m] EXCEPT !.available_at = d] \in Row
                              /\ [row[m] EXCEPT !.expires_at = d] \in Row
                              /\ [row[m] EXCEPT !.lease_expires_at = d] \in Row
                              /\ [row[m] EXCEPT !.settled_at = d] \in Row
      BY <2>1, RowTransitions
    <2>3. CASE BackoffPasses(m)
      BY <2>2, <2>3, Values DEF BackoffPasses, TypeOK
    <2>4. CASE EventExpires(m)
      BY <2>2, <2>4, Values DEF EventExpires, TypeOK
    <2>5. CASE LeaseRunsOut(m)
      BY <2>2, <2>5, Values DEF LeaseRunsOut, TypeOK
    <2>6. CASE RetentionPasses(m)
      BY <2>2, <2>6, Values DEF RetentionPasses, TypeOK
    <2> QED BY <1>3, <2>3, <2>4, <2>5, <2>6 DEF Clock
  <1>4. ASSUME NEW m \in Messages, NEW allow \in BOOLEAN, RetryEmail(m, allow)
        PROVE TypeOK'
    <2>1. row[m] \in Row /\ <<m, row[m].attempt_count>> \in Messages \X Nat
      BY DEF TypeOK, Row
    <2>2. Reopened(row[m]) \in Row
      BY <2>1, RowTransitions
    <2> QED BY <1>4, <2>1, <2>2 DEF RetryEmail, TypeOK
  <1>5. ASSUME NEW w \in Workers, Start(w) \/ BeginDrain(w) \/ Drained(w)
        PROVE TypeOK'
    BY <1>5 DEF Start, BeginDrain, Drained, TypeOK
  <1>6. ASSUME NEW w \in Workers, Abandon(w) PROVE TypeOK'
    <2>1. Idle \in Task /\ Idle.pc = "idle"
      BY Values DEF Idle, Task, Pc
    <2>2. \A t \in Tasks : task[t].pc = "smtp" => Claim(t) \in Messages \X Nat
      BY DEF TypeOK, Task, Claim
    <2> QED BY <1>6, <2>1, <2>2 DEF Abandon, TypeOK
  <1>7. ASSUME NEW w \in Workers, RecoverAndCleanup(w) PROVE TypeOK'
    BY <1>7, RecoveredType DEF RecoverAndCleanup, TypeOK
  <1>8. ASSUME NEW t \in Tasks, NEW m \in Messages, ClaimNext(t, m)
        PROVE TypeOK'
    <2>1. row[m] \in Row /\ WorkerOf[t] \in Workers
      BY OutboxAssumption DEF TypeOK
    <2>2. Claimed(row[m], WorkerOf[t]) \in Row
      BY <2>1, RowTransitions
    <2>3. row[m].attempt_count + 1 \in Nat
      BY <2>1 DEF Row
    <2> DEFINE a == [pc |-> "compose", msg |-> m,
                     token |-> row[m].attempt_count + 1, code |-> "none"]
    <2>4. a \in Task /\ a.msg = m
      BY <2>3, Values DEF Task, Pc
    <2> HIDE DEF a
    <2>5. /\ row' = [row EXCEPT ![m] = Claimed(row[m], WorkerOf[t])]
          /\ task' = [task EXCEPT ![t] = a]
          /\ UNCHANGED <<valid, mode, in_flight, history>>
      BY <1>8 DEF ClaimNext, a
    <2> HIDE DEF a
    <2> QED BY <2>2, <2>4, <2>5 DEF TypeOK, history
  <1>9. ASSUME NEW t \in Tasks, Deliver(t) PROVE TypeOK'
    <2>1. Idle \in Task /\ Idle.pc = "idle"
      BY Values DEF Idle, Task, Pc
    <2>2. ASSUME NEW pc \in Pc, NEW code \in Outcome, task[t].pc # "idle",
                 task' \in { [task EXCEPT ![t].pc = pc],
                            [task EXCEPT ![t].pc = pc, ![t].code = code],
                            [task EXCEPT ![t] = Idle] }
          PROVE  /\ task' \in [Tasks -> Task]
                 /\ \A u \in Tasks : task'[u].pc # "idle" => task'[u].msg \in Messages
      BY <2>1, <2>2 DEF TypeOK, Task
    <2>3. task[t].pc # "idle"
      BY <1>9 DEF Deliver, LeaseLost, Compose, MarkDeliveryStarted, RelayAccepts,
         SendReturns, SendFails, SendInterrupted, FinishSuccess, FinishFailure,
         DatabaseError
    <2>4. /\ task' \in [Tasks -> Task]
          /\ \A u \in Tasks : task'[u].pc # "idle" => task'[u].msg \in Messages
      BY <1>9, <2>2, <2>3, Values
      DEF Deliver, LeaseLost, Compose, MarkDeliveryStarted, RelayAccepts,
          SendReturns, SendFails, SendInterrupted, FinishSuccess, FinishFailure,
          DatabaseError, Goto, Raise, Pc
    <2>5. row[task[t].msg] \in Row /\ Claim(t) \in Messages \X Nat
          /\ task[t].code \in Outcome
      BY <2>3 DEF TypeOK, Task, Claim
    <2>6. row' \in [Messages -> Row]
      <3> DEFINE r == row[task[t].msg]
      <3>1. /\ [r EXCEPT !.delivery_started_at = "past"] \in Row
            /\ Sent(r) \in Row /\ Requeued(r) \in Row
            /\ Failed(r, task[t].code) \in Row
        BY <2>5, RowTransitions, Values
      <3>2. \/ row' = row
            \/ row' = [row EXCEPT ![task[t].msg] =
                         [r EXCEPT !.delivery_started_at = "past"]]
            \/ row' = [row EXCEPT ![task[t].msg] = Sent(r)]
            \/ row' = [row EXCEPT ![task[t].msg] = Requeued(r)]
            \/ row' = [row EXCEPT ![task[t].msg] = Failed(r, task[t].code)]
        BY <1>9
        DEF Deliver, LeaseLost, Compose, MarkDeliveryStarted, RelayAccepts,
            SendReturns, SendFails, SendInterrupted, FinishSuccess,
            FinishFailure, DatabaseError
      <3> QED BY <3>1, <3>2 DEF TypeOK
    <2>7. /\ valid' = valid /\ mode' = mode /\ waived' = waived
          /\ in_flight' \subseteq in_flight \cup {Claim(t)}
          /\ accepted' \subseteq accepted \cup {Claim(t)}
          /\ unrecorded' \subseteq unrecorded \cup {Claim(t)}
      BY <1>9
      DEF Deliver, LeaseLost, Compose, MarkDeliveryStarted, RelayAccepts,
          SendReturns, SendFails, SendInterrupted, FinishSuccess, FinishFailure,
          DatabaseError, history
    <2> QED BY <2>4, <2>5, <2>6, <2>7 DEF TypeOK
  <1>10. ASSUME NEW c \in in_flight, LateAcceptance(c) PROVE TypeOK'
    BY <1>10 DEF LateAcceptance, TypeOK
  <1> QED
    BY <1>1, <1>2, <1>3, <1>4, <1>5, <1>6, <1>7, <1>8, <1>9, <1>10 DEF Next

LEMMA TypeInit == Init => TypeOK
  <1> SUFFICES ASSUME Init PROVE TypeOK
    OBVIOUS
  <1>1. Idle \in Task /\ Idle.pc = "idle"
    BY Values DEF Idle, Task, Pc
  <1>2. NoRow("absent") \in Row
    BY Values DEF NoRow, Row
  <1> QED BY <1>1, <1>2 DEF Init, TypeOK

\* Every variable keeps its type.
THEOREM TypeCorrect == Spec => []TypeOK
  BY TypeInit, TypeInductive, PTL DEF Spec

-----------------------------------------------------------------------------
(* The strengthening that makes the safety invariants inductive.           *)

\* The token of a claimed row is its attempt number.
TokenIsAttempt ==
    \A m \in Messages :
        row[m].status = "sending" =>
            row[m].claim_token = row[m].attempt_count /\ row[m].attempt_count >= 1

\* A claim <<m, k>> was made: m was queued, and unless its row is gone, k is
\* one of the attempts the row counts.
Known(m, k) ==
    /\ row[m].status # "absent"
    /\ row[m].status # "deleted" => (1 <= k /\ k <= row[m].attempt_count)

ClaimsKnown ==
    /\ \A m \in Messages, k \in Nat :
           <<m, k>> \in accepted \cup in_flight => Known(m, k)
    /\ \A t \in Tasks :
           task[t].pc # "idle" => Known(task[t].msg, task[t].token)

\* No two deliveries hold the same claim.
ClaimsDistinct ==
    \A t, u \in Tasks :
        (t # u /\ task[t].pc # "idle" /\ task[u].pc # "idle")
            => Claim(t) # Claim(u)

\* What a delivery knows about its own claim at each point of its program.
DeliveryKnows ==
    \A t \in Tasks :
        /\ task[t].pc \in {"compose", "mark", "smtp"} =>
               Claim(t) \notin accepted \cup in_flight
        /\ task[t].pc \in {"accepted", "finish_success"} => Claim(t) \in accepted
        /\ (task[t].pc = "finish_failure" /\ task[t].code # "smtp_delivery_ambiguous")
               => (Claim(t) \notin accepted \cup in_flight \/ Excused(Claim(t)))

\* The row itself remembers that the relay may have the mail of attempt k.
Remembers(m, k) ==
    /\ row[m].attempt_count = k
    /\ \/ row[m].status = "sending" /\ row[m].delivery_started_at = "past"
       \/ row[m].status = "sent"
       \/ /\ row[m].status = "failed"
          /\ row[m].last_error_code = "smtp_delivery_ambiguous"

\* As long as a row exists, an attempt the relay may have is remembered by the
\* row or excused.  This is what makes NoUnexcusedDuplicate inductive: a new
\* attempt starts from a pending row, which remembers none.
ExposureRemembered ==
    \A m \in Messages, k \in Nat :
        (Exposed(<<m, k>>) /\ row[m].status # "deleted")
            => (Excused(<<m, k>>) \/ Remembers(m, k))

IInv ==
    /\ TypeOK
    /\ CheckConstraints
    /\ TokenIsAttempt
    /\ ClaimsKnown
    /\ ClaimsDistinct
    /\ DeliveryKnows
    /\ ExposureRemembered

-----------------------------------------------------------------------------
(* How one step moves a row.                                               *)

\* The columns the transitions decide, after each of them.
LEMMA RowEffects ==
    ASSUME NEW r \in Row
    PROVE  /\ \A w \in Workers :
                 /\ Claimed(r, w).status = "sending"
                 /\ Claimed(r, w).attempt_count = r.attempt_count + 1
                 /\ Claimed(r, w).max_attempts = r.max_attempts
                 /\ Claimed(r, w).claim_token = r.attempt_count + 1
                 /\ Claimed(r, w).worker_id = w
                 /\ Claimed(r, w).lease_expires_at = "future"
           /\ \A q \in {Requeued(r), Sent(r)} \cup {Failed(r, c) : c \in Outcome} :
                 /\ q.attempt_count = r.attempt_count
                 /\ q.max_attempts = r.max_attempts
                 /\ q.claim_token = 0
                 /\ q.worker_id = None
                 /\ q.lease_expires_at = "null"
           /\ Requeued(r).status = "pending"
           /\ Sent(r).status = "sent"
           /\ \A c \in Outcome : /\ Failed(r, c).status = "failed"
                                 /\ Failed(r, c).last_error_code = c
           /\ Reopened(r).status = "pending"
           /\ Reopened(r).attempt_count = r.attempt_count
           /\ Reopened(r).claim_token = r.claim_token
           /\ Reopened(r).worker_id = r.worker_id
           /\ Reopened(r).lease_expires_at = r.lease_expires_at
           /\ Reopened(r).max_attempts = IF r.attempt_count >= r.max_attempts
                                            THEN r.attempt_count + 1
                                            ELSE r.max_attempts
           /\ Queued.status = "pending" /\ Queued.attempt_count = 0
           /\ Queued.max_attempts = MaxAttempts /\ Queued.claim_token = 0
           /\ Queued.worker_id = None /\ Queued.lease_expires_at = "null"
  <1>1. ASSUME NEW w \in Workers
        PROVE  /\ Claimed(r, w).status = "sending"
               /\ Claimed(r, w).attempt_count = r.attempt_count + 1
               /\ Claimed(r, w).max_attempts = r.max_attempts
               /\ Claimed(r, w).claim_token = r.attempt_count + 1
               /\ Claimed(r, w).worker_id = w
               /\ Claimed(r, w).lease_expires_at = "future"
    BY DEF Claimed, Row
  <1>2. ASSUME NEW c \in Outcome
        PROVE  /\ Failed(r, c).status = "failed"
               /\ Failed(r, c).last_error_code = c
               /\ Failed(r, c).attempt_count = r.attempt_count
               /\ Failed(r, c).max_attempts = r.max_attempts
               /\ Failed(r, c).claim_token = 0
               /\ Failed(r, c).worker_id = None
               /\ Failed(r, c).lease_expires_at = "null"
    BY DEF Failed, ClearClaim, Row
  <1>3. /\ Requeued(r).status = "pending"
        /\ Requeued(r).attempt_count = r.attempt_count
        /\ Requeued(r).max_attempts = r.max_attempts
        /\ Requeued(r).claim_token = 0
        /\ Requeued(r).worker_id = None
        /\ Requeued(r).lease_expires_at = "null"
    BY DEF Requeued, ClearClaim, Row
  <1>4. /\ Sent(r).status = "sent"
        /\ Sent(r).attempt_count = r.attempt_count
        /\ Sent(r).max_attempts = r.max_attempts
        /\ Sent(r).claim_token = 0
        /\ Sent(r).worker_id = None
        /\ Sent(r).lease_expires_at = "null"
    BY DEF Sent, ClearClaim, Row
  <1>5. /\ Reopened(r).status = "pending"
        /\ Reopened(r).attempt_count = r.attempt_count
        /\ Reopened(r).claim_token = r.claim_token
        /\ Reopened(r).worker_id = r.worker_id
        /\ Reopened(r).lease_expires_at = r.lease_expires_at
        /\ Reopened(r).max_attempts = IF r.attempt_count >= r.max_attempts
                                         THEN r.attempt_count + 1
                                         ELSE r.max_attempts
    BY DEF Reopened, Row
  <1>6. /\ Queued.status = "pending" /\ Queued.attempt_count = 0
        /\ Queued.max_attempts = MaxAttempts /\ Queued.claim_token = 0
        /\ Queued.worker_id = None /\ Queued.lease_expires_at = "null"
    BY DEF Queued, NoRow
  <1> QED BY <1>1, <1>2, <1>3, <1>4, <1>5, <1>6

\* The columns that decide who holds a row and what it remembers are kept.
Kept(m) ==
    /\ row'[m].status = row[m].status
    /\ row'[m].attempt_count = row[m].attempt_count
    /\ row'[m].max_attempts = row[m].max_attempts
    /\ row'[m].claim_token = row[m].claim_token
    /\ row'[m].worker_id = row[m].worker_id
    /\ row'[m].delivery_started_at = row[m].delivery_started_at
    /\ row'[m].last_error_code = row[m].last_error_code
    /\ row'[m].lease_expires_at = "null" <=> row[m].lease_expires_at = "null"

RowMove(m) ==
    \/ Kept(m)
    \/ row[m].status = "absent" /\ row'[m] = Queued
    \/ row[m].status # "absent" /\ row'[m] = NoRow("deleted")
    \/ \E w \in Workers : Claimable(row[m]) /\ row'[m] = Claimed(row[m], w)
    \/ /\ row[m].status = "sending"
       /\ row'[m] = [row[m] EXCEPT !.delivery_started_at = "past"]
    \/ /\ row[m].status = "sending"
       /\ row'[m] \in {Requeued(row[m]), Sent(row[m])}
    \/ /\ row[m].status \in {"pending", "sending"}
       /\ row'[m] \in {Failed(row[m], c) : c \in Outcome}
    \/ \E allow \in BOOLEAN : /\ MayRetry(row[m], allow)
                              /\ row'[m] = Reopened(row[m])

\* Every step moves every row in one of these ways.
LEMMA RowMoves ==
    ASSUME TypeOK, [Next]_vars, NEW n \in Messages PROVE RowMove(n)
  <1>0. row[n] \in Row
    BY DEF TypeOK
  <1>1. ASSUME row' = row PROVE RowMove(n)
    BY <1>1 DEF RowMove, Kept
  <1>2. ASSUME NEW m \in Messages, Enqueue(m) \/ Invalidate(m) \/ CascadeDelete(m)
        PROVE RowMove(n)
    BY <1>2 DEF Enqueue, Invalidate, CascadeDelete, RowMove, Kept, TypeOK
  <1>3. ASSUME NEW m \in Messages, Clock(m) PROVE RowMove(n)
    <2>1. Kept(n)
      BY <1>0, <1>3 DEF Clock, BackoffPasses, EventExpires, LeaseRunsOut,
         RetentionPasses, Kept, TypeOK, Row
    <2> QED BY <2>1 DEF RowMove
  <1>4. ASSUME NEW m \in Messages, NEW allow \in BOOLEAN, RetryEmail(m, allow)
        PROVE RowMove(n)
    BY <1>4 DEF RetryEmail, RowMove, Kept, TypeOK
  <1>5. ASSUME NEW w \in Workers, RecoverAndCleanup(w) PROVE RowMove(n)
    <2>1. row'[n] = Recovered(row[n]) \/ row'[n] = row[n]
      BY <1>5 DEF RecoverAndCleanup
    <2>0. CASE row'[n] = row[n]
      BY <2>0 DEF RowMove, Kept
    <2>2. CASE row'[n] # row[n] /\ row[n].status = "pending" /\ Exhausted(row[n])
      <3>1. row'[n] = Failed(row[n], "permanent")
        BY <2>1, <2>2 DEF Recovered
      <3> QED BY <2>2, <3>1, Values DEF RowMove
    <2>3. CASE row'[n] # row[n] /\ row[n].status = "sending" /\ row[n].lease_expires_at = "past"
      <3>1. \/ row'[n] = Failed(row[n], "smtp_delivery_ambiguous")
            \/ row'[n] = Failed(row[n], "permanent")
            \/ row'[n] = Requeued(row[n])
        BY <2>1, <2>3 DEF Recovered
      <3> QED BY <2>3, <3>1, Values DEF RowMove
    <2>4. CASE row'[n] # row[n] /\ row[n].status \in {"sent", "failed"} /\ row[n].settled_at = "past"
      <3>1. row'[n] = NoRow("deleted")
        BY <2>1, <2>4 DEF Recovered
      <3> QED BY <2>4, <3>1 DEF RowMove
    <2>5. CASE /\ ~(row[n].status = "pending" /\ Exhausted(row[n]))
               /\ ~(row[n].status = "sending" /\ row[n].lease_expires_at = "past")
               /\ ~(row[n].status \in {"sent", "failed"} /\ row[n].settled_at = "past")
      <3>1. row'[n] = row[n]
        BY <2>1, <2>5 DEF Recovered
      <3> QED BY <3>1 DEF RowMove, Kept
    <2> QED BY <2>0, <2>2, <2>3, <2>4, <2>5
  <1>6. ASSUME NEW t \in Tasks, NEW m \in Messages, ClaimNext(t, m)
        PROVE RowMove(n)
    <2>1. WorkerOf[t] \in Workers
      BY OutboxAssumption
    <2>2. CASE m = n
      BY <1>6, <2>1, <2>2 DEF ClaimNext, RowMove, TypeOK
    <2>3. CASE m # n
      BY <1>6, <2>3 DEF ClaimNext, RowMove, Kept, TypeOK
    <2> QED BY <2>2, <2>3
  <1>7. ASSUME NEW t \in Tasks, MarkDeliveryStarted(t) PROVE RowMove(n)
    BY <1>7 DEF MarkDeliveryStarted, Fenced, Holds, RowMove, Kept, TypeOK
  <1>8. ASSUME NEW t \in Tasks, FinishSuccess(t) PROVE RowMove(n)
    BY <1>8 DEF FinishSuccess, Fenced, Holds, RowMove, Kept, TypeOK
  <1>9. ASSUME NEW t \in Tasks, FinishFailure(t) PROVE RowMove(n)
    <2>1. task[t].code \in Outcome
      BY DEF TypeOK, Task
    <2>2. CASE task[t].msg = n
      <3>1. /\ row[n].status = "sending"
            /\ row'[n] \in {Requeued(row[n]), Failed(row[n], task[t].code)}
        BY <1>9, <2>2 DEF FinishFailure, Fenced, Holds, TypeOK
      <3> QED BY <2>1, <3>1 DEF RowMove
    <2>3. CASE task[t].msg # n
      BY <1>9, <2>3 DEF FinishFailure, RowMove, Kept, TypeOK
    <2> QED BY <2>2, <2>3
  <1>10. ASSUME NEW t \in Tasks, Deliver(t) PROVE RowMove(n)
    <2>1. \/ MarkDeliveryStarted(t) \/ FinishSuccess(t) \/ FinishFailure(t)
          \/ row' = row
      BY <1>10 DEF Deliver, LeaseLost, Compose, RelayAccepts, SendReturns,
         SendFails, SendInterrupted, DatabaseError
    <2> QED BY <1>1, <1>7, <1>8, <1>9, <2>1
  <1>11. ASSUME NEW w \in Workers,
                Start(w) \/ BeginDrain(w) \/ Drained(w) \/ Abandon(w)
         PROVE RowMove(n)
    BY <1>1, <1>11 DEF Start, BeginDrain, Drained, Abandon
  <1>12. ASSUME NEW c \in in_flight, LateAcceptance(c) PROVE RowMove(n)
    BY <1>1, <1>12 DEF LateAcceptance
  <1>13. CASE UNCHANGED vars
    BY <1>1, <1>13 DEF vars
  <1> QED
    BY <1>2, <1>3, <1>4, <1>5, <1>6, <1>10, <1>11, <1>12, <1>13 DEF Next

-----------------------------------------------------------------------------
(* The conjuncts of the inductive invariant, one lemma each.               *)

\* CheckConstraints and TokenIsAttempt follow row by row.
LEMMA ChecksInductive ==
    TypeOK /\ CheckConstraints /\ TokenIsAttempt /\ [Next]_vars
        => CheckConstraints' /\ TokenIsAttempt'
  <1> SUFFICES ASSUME TypeOK, CheckConstraints, TokenIsAttempt, [Next]_vars,
                      NEW m \in Messages
               PROVE  LET r == row'[m] IN
                      /\ (r.status = "sending") <=> (r.lease_expires_at /= "null")
                      /\ (r.status = "sending") <=> (r.worker_id /= None)
                      /\ (r.status = "sending") <=> (r.claim_token /= 0)
                      /\ r.attempt_count <= r.max_attempts
                      /\ r.max_attempts <= AttemptCeiling
                      /\ r.status = "sending" =>
                             r.claim_token = r.attempt_count /\ r.attempt_count >= 1
    BY DEF CheckConstraints, TokenIsAttempt
  <1> DEFINE r == row[m]
  <1>1. r \in Row /\ RowMove(m)
    BY RowMoves DEF TypeOK
  <1>2. /\ (r.status = "sending") <=> (r.lease_expires_at /= "null")
        /\ (r.status = "sending") <=> (r.worker_id /= None)
        /\ (r.status = "sending") <=> (r.claim_token /= 0)
        /\ r.attempt_count <= r.max_attempts
        /\ r.max_attempts <= AttemptCeiling
        /\ r.status = "sending" =>
               r.claim_token = r.attempt_count /\ r.attempt_count >= 1
        /\ r.attempt_count \in Nat /\ r.max_attempts \in Nat
    BY <1>1 DEF CheckConstraints, TokenIsAttempt, Row
  <1>3. CASE Kept(m)
    BY <1>2, <1>3 DEF Kept
  <1>4. CASE row'[m] = Queued \/ row'[m] = NoRow("deleted")
    BY <1>1, <1>4, RowEffects, OutboxAssumption DEF NoRow
  <1>5. CASE \E w \in Workers : Claimable(r) /\ row'[m] = Claimed(r, w)
    <2>1. PICK w \in Workers : Claimable(r) /\ row'[m] = Claimed(r, w)
      BY <1>5
    <2>2. w # None
      BY OutboxAssumption
    <2> QED BY <1>1, <1>2, <2>1, <2>2, RowEffects DEF Claimable
  <1>6. CASE /\ r.status = "sending"
             /\ row'[m] = [r EXCEPT !.delivery_started_at = "past"]
    BY <1>1, <1>2, <1>6 DEF Row
  <1>7. CASE row'[m] \in {Requeued(r), Sent(r)}
    BY <1>1, <1>2, <1>7, RowEffects
  <1>8. CASE row'[m] \in {Failed(r, c) : c \in Outcome}
    BY <1>1, <1>2, <1>8, RowEffects
  <1>9. CASE \E allow \in BOOLEAN : MayRetry(r, allow) /\ row'[m] = Reopened(r)
    <2>1. \/ r.attempt_count < r.max_attempts
          \/ r.max_attempts < AttemptCeiling
      BY <1>9 DEF MayRetry
    <2>2. r.status = "failed"
      BY <1>9 DEF MayRetry
    <2> QED BY <1>1, <1>2, <1>9, <2>1, <2>2, RowEffects, OutboxAssumption
  <1> QED BY <1>1, <1>3, <1>4, <1>5, <1>6, <1>7, <1>8, <1>9 DEF RowMove

\* A claim once made stays known: attempts only grow, and a row that goes
\* does not come back.
LEMMA KnownStays ==
    ASSUME TypeOK, [Next]_vars, NEW m \in Messages, NEW k \in Nat, Known(m, k)
    PROVE  Known(m, k)'
  <1> DEFINE r == row[m]
  <1>1. r \in Row /\ r.attempt_count \in Nat /\ RowMove(m)
    BY RowMoves DEF TypeOK, Row
  <1>2. CASE Kept(m)
    BY <1>2 DEF Kept, Known
  <1>3. CASE r.status = "absent" /\ row'[m] = Queued
    BY <1>3 DEF Known
  <1>4. CASE row'[m] = NoRow("deleted")
    BY <1>4 DEF Known, NoRow
  <1>5. CASE \E w \in Workers : Claimable(r) /\ row'[m] = Claimed(r, w)
    <2>1. row'[m].status = "sending" /\ row'[m].attempt_count = r.attempt_count + 1
      BY <1>1, <1>5, RowEffects
    <2>2. r.status = "pending"
      BY <1>5 DEF Claimable
    <2> QED BY <1>1, <2>1, <2>2 DEF Known
  <1>6. CASE /\ r.status = "sending"
             /\ row'[m] = [r EXCEPT !.delivery_started_at = "past"]
    BY <1>1, <1>6 DEF Known, Row
  <1>7. CASE /\ r.status = "sending"
             /\ row'[m] \in {Requeued(r), Sent(r)}
    BY <1>1, <1>7, RowEffects DEF Known
  <1>8. CASE /\ r.status \in {"pending", "sending"}
             /\ row'[m] \in {Failed(r, c) : c \in Outcome}
    BY <1>1, <1>8, RowEffects DEF Known
  <1>9. CASE \E allow \in BOOLEAN : MayRetry(r, allow) /\ row'[m] = Reopened(r)
    <2>1. r.status = "failed"
      BY <1>9 DEF MayRetry
    <2> QED BY <1>1, <1>9, <2>1, RowEffects DEF Known
  <1> QED BY <1>1, <1>2, <1>3, <1>4, <1>5, <1>6, <1>7, <1>8, <1>9 DEF RowMove

\* What one step does to a delivery: nothing, its end, a move of its program
\* counter under the same claim, or the start of a delivery by claim_next.
LEMMA TaskMoves ==
    ASSUME TypeOK, [Next]_vars, NEW u \in Tasks
    PROVE  \/ task'[u] = task[u]
           \/ task'[u] = Idle
           \/ Deliver(u) /\ task[u].pc # "idle" /\ Claim(u)' = Claim(u)
           \/ \E m \in Messages : ClaimNext(u, m)
  <1>1. ASSUME task' = task PROVE task'[u] = task[u]
    BY <1>1
  <1>2. ASSUME NEW t \in Tasks, Deliver(t)
        PROVE  \/ task'[u] = task[u] \/ task'[u] = Idle
               \/ t = u /\ task[u].pc # "idle" /\ Claim(u)' = Claim(u)
    BY <1>2 DEF Deliver, LeaseLost, Compose, MarkDeliveryStarted, RelayAccepts,
       SendReturns, SendFails, SendInterrupted, FinishSuccess, FinishFailure,
       DatabaseError, Goto, Raise, Claim, TypeOK, Task
  <1>3. ASSUME NEW t \in Tasks, NEW m \in Messages, ClaimNext(t, m), t # u
        PROVE  task'[u] = task[u]
    BY <1>3 DEF ClaimNext, TypeOK
  <1>4. ASSUME NEW w \in Workers, Abandon(w)
        PROVE  task'[u] = task[u] \/ task'[u] = Idle
    BY <1>4 DEF Abandon
  <1>5. \/ task' = task
        \/ \E t \in Tasks : Deliver(t)
        \/ \E t \in Tasks, m \in Messages : ClaimNext(t, m)
        \/ \E w \in Workers : Abandon(w)
    BY DEF Next, vars, Enqueue, Invalidate, CascadeDelete, Clock, BackoffPasses,
       EventExpires, LeaseRunsOut, RetentionPasses, RetryEmail, Start,
       BeginDrain, Drained, RecoverAndCleanup, LateAcceptance
  <1> QED BY <1>1, <1>2, <1>3, <1>4, <1>5

\* Only a claim whose SMTP dialogue ends becomes accepted or in flight.
LEMMA RelayHears ==
    ASSUME TypeOK, [Next]_vars, NEW c \in accepted' \cup in_flight'
    PROVE  \/ c \in accepted \cup in_flight
           \/ \E t \in Tasks : /\ task[t].pc = "smtp" /\ c = Claim(t)
                               /\ task'[t].pc # "smtp"
  <1>1. ASSUME NEW t \in Tasks, Deliver(t)
        PROVE  \/ c \in accepted \cup in_flight
               \/ task[t].pc = "smtp" /\ c = Claim(t) /\ task'[t].pc # "smtp"
    BY <1>1 DEF Deliver, LeaseLost, Compose, MarkDeliveryStarted, RelayAccepts,
       SendReturns, SendFails, SendInterrupted, FinishSuccess, FinishFailure,
       DatabaseError, Goto, Raise, TypeOK, Task, history
  <1>2. ASSUME NEW w \in Workers, Abandon(w)
        PROVE  \/ c \in accepted \cup in_flight
               \/ \E t \in Tasks : /\ task[t].pc = "smtp" /\ c = Claim(t)
                                   /\ task'[t].pc # "smtp"
    BY <1>2 DEF Abandon, Idle, history
  <1>3. ASSUME NEW d \in in_flight, LateAcceptance(d)
        PROVE  c \in accepted \cup in_flight
    BY <1>3 DEF LateAcceptance
  <1>4. \/ accepted' = accepted /\ in_flight' = in_flight
        \/ \E t \in Tasks : Deliver(t)
        \/ \E w \in Workers : Abandon(w)
        \/ \E d \in in_flight : LateAcceptance(d)
    BY DEF Next, vars, Enqueue, Invalidate, CascadeDelete, Clock, BackoffPasses,
       EventExpires, LeaseRunsOut, RetentionPasses, RetryEmail, Start,
       BeginDrain, Drained, RecoverAndCleanup, ClaimNext, history
  <1> QED BY <1>1, <1>2, <1>3, <1>4

\* Exposure begins with MarkDeliveryStarted and with nothing else.
LEMMA ExposureBegins ==
    ASSUME TypeOK, [Next]_vars, NEW c, Exposed(c)'
    PROVE  \/ Exposed(c)
           \/ \E t \in Tasks : MarkDeliveryStarted(t) /\ c = Claim(t)
  <1>1. CASE c \in accepted' \cup in_flight'
    BY <1>1, RelayHears DEF Exposed
  <1>2. CASE \E u \in Tasks : task'[u].pc = "smtp" /\ Claim(u)' = c
    <2>1. PICK u \in Tasks : task'[u].pc = "smtp" /\ Claim(u)' = c
      BY <1>2
    <2>2. CASE task'[u] = task[u]
      BY <2>1, <2>2 DEF Exposed, Claim
    <2>3. ASSUME NEW t \in Tasks, Deliver(t), task'[u] # task[u]
          PROVE  MarkDeliveryStarted(u) /\ c = Claim(u)
      BY <2>1, <2>3
      DEF Deliver, LeaseLost, Compose, MarkDeliveryStarted, RelayAccepts,
          SendReturns, SendFails, SendInterrupted, FinishSuccess, FinishFailure,
          DatabaseError, Goto, Raise, Claim, TypeOK, Task, Idle
    <2>4. ASSUME NEW t \in Tasks, NEW m \in Messages, ClaimNext(t, m)
          PROVE  task'[u] = task[u]
      BY <2>1, <2>4 DEF ClaimNext, TypeOK
    <2>5. ASSUME NEW w \in Workers, Abandon(w)
          PROVE  task'[u] = task[u]
      BY <2>1, <2>5 DEF Abandon, Idle
    <2>6. \/ task' = task
          \/ \E t \in Tasks : Deliver(t)
          \/ \E t \in Tasks, m \in Messages : ClaimNext(t, m)
          \/ \E w \in Workers : Abandon(w)
      BY DEF Next, vars, Enqueue, Invalidate, CascadeDelete, Clock,
         BackoffPasses, EventExpires, LeaseRunsOut, RetentionPasses, RetryEmail,
         Start, BeginDrain, Drained, RecoverAndCleanup, LateAcceptance
    <2> QED BY <2>2, <2>3, <2>4, <2>5, <2>6
  <1> QED BY <1>1, <1>2 DEF Exposed

\* What was excused stays excused, and what was accepted stays accepted.
LEMMA HistoryGrows ==
    ASSUME [Next]_vars
    PROVE  /\ accepted \subseteq accepted'
           /\ waived \subseteq waived'
           /\ unrecorded \subseteq unrecorded'
  BY DEF Next, vars, Enqueue, Invalidate, CascadeDelete, Clock, BackoffPasses,
     EventExpires, LeaseRunsOut, RetentionPasses, RetryEmail, Start,
     BeginDrain, Drained, RecoverAndCleanup, LateAcceptance, ClaimNext, Abandon,
     Deliver, LeaseLost, Compose, MarkDeliveryStarted, RelayAccepts,
     SendReturns, SendFails, SendInterrupted, FinishSuccess, FinishFailure,
     DatabaseError, history

\* Every delivery and every mail the relay has belongs to a claim once made.
LEMMA ClaimsKnownInductive ==
    ASSUME TypeOK, ClaimsKnown, [Next]_vars PROVE ClaimsKnown'
  <1>1. ASSUME NEW m \in Messages, NEW k \in Nat, Known(m, k)
        PROVE  Known(m, k)'
    BY <1>1, KnownStays
  <1>2. ASSUME NEW m \in Messages, NEW k \in Nat,
               <<m, k>> \in accepted' \cup in_flight'
        PROVE  Known(m, k)'
    <2>1. CASE <<m, k>> \in accepted \cup in_flight
      BY <1>1, <2>1 DEF ClaimsKnown
    <2>2. ASSUME NEW t \in Tasks, task[t].pc = "smtp", <<m, k>> = Claim(t)
          PROVE  Known(m, k)'
      <3>1. m = task[t].msg /\ k = task[t].token /\ task[t].pc # "idle"
        BY <2>2 DEF Claim
      <3>2. Known(m, k)
        BY <3>1 DEF ClaimsKnown
      <3> QED BY <1>1, <3>2
    <2> QED BY <1>2, <2>1, <2>2, RelayHears
  <1>3. ASSUME NEW u \in Tasks, task'[u].pc # "idle"
        PROVE  Known(task[u].msg, task[u].token)'
    <2>1. ASSUME task[u].pc # "idle", Claim(u)' = Claim(u)
          PROVE  Known(task[u].msg, task[u].token)'
      <3> DEFINE m == task[u].msg
                 k == task[u].token
      <3>1. m' = m /\ k' = k /\ m \in Messages /\ k \in Nat
        BY <2>1 DEF Claim, TypeOK, Task
      <3>2. Known(m, k)
        BY <2>1 DEF ClaimsKnown
      <3>3. PICK n \in Messages, j \in Nat : n = m /\ j = k
        BY <3>1
      <3>4. Known(n, j)
        BY <3>2, <3>3
      <3>5. Known(n, j)'
        BY <1>1, <3>4
      <3> QED BY <3>1, <3>3, <3>5 DEF Known
    <2>2. ASSUME NEW m \in Messages, ClaimNext(u, m)
          PROVE  Known(task[u].msg, task[u].token)'
      <3>1. row[m] \in Row /\ row[m].attempt_count \in Nat /\ WorkerOf[u] \in Workers
        BY OutboxAssumption DEF TypeOK, Row
      <3>2. /\ task'[u].msg = m /\ task'[u].token = row[m].attempt_count + 1
            /\ row'[m] = Claimed(row[m], WorkerOf[u])
        <4>1. task \in [Tasks -> Task] /\ row \in [Messages -> Row]
          BY DEF TypeOK
        <4> QED BY <2>2, <4>1 DEF ClaimNext
      <3>3. row'[m].status = "sending" /\ row'[m].attempt_count = row[m].attempt_count + 1
        BY <3>1, <3>2, RowEffects
      <3> QED BY <3>1, <3>2, <3>3 DEF Known
    <2>3. task'[u] = task[u] => task[u].pc # "idle" /\ Claim(u)' = Claim(u)
      BY <1>3 DEF Claim
    <2>4. task'[u] # Idle
      BY <1>3 DEF Idle
    <2> QED BY <2>1, <2>2, <2>3, <2>4, TaskMoves
  <1> QED BY <1>2, <1>3 DEF ClaimsKnown

\* A claim just made is nobody's yet: claim_next counts the attempt up.
LEMMA FreshClaim ==
    ASSUME TypeOK, ClaimsKnown, NEW t \in Tasks, NEW m \in Messages, ClaimNext(t, m)
    PROVE  /\ row[m].attempt_count + 1 \in Nat
           /\ task'[t].pc = "compose"
           /\ Claim(t)' = <<m, row[m].attempt_count + 1>>
           /\ ~Known(m, row[m].attempt_count + 1)
           /\ \A u \in Tasks : u # t => task'[u] = task[u]
           /\ accepted' = accepted /\ in_flight' = in_flight
  <1>1. row[m].attempt_count \in Nat /\ task \in [Tasks -> Task]
    BY DEF TypeOK, Row
  <1>2. task' = [task EXCEPT ![t] = [pc |-> "compose", msg |-> m,
                                     token |-> row[m].attempt_count + 1,
                                     code |-> "none"]]
    BY DEF ClaimNext
  <1>3. row[m].status = "pending"
    BY DEF ClaimNext, Claimable
  <1>4. accepted' = accepted /\ in_flight' = in_flight
    BY DEF ClaimNext, history
  <1>5. ~Known(m, row[m].attempt_count + 1)
    BY <1>1, <1>3 DEF Known
  <1>6. task'[t].pc = "compose" /\ Claim(t)' = <<m, row[m].attempt_count + 1>>
    BY <1>1, <1>2 DEF Claim
  <1> QED BY <1>1, <1>2, <1>4, <1>5, <1>6

LEMMA ClaimsDistinctInductive ==
    ASSUME TypeOK, ClaimsKnown, ClaimsDistinct, [Next]_vars PROVE ClaimsDistinct'
  <1>1. ASSUME NEW t \in Tasks, NEW u \in Tasks, t # u,
               task'[t].pc # "idle", task'[u].pc # "idle",
               NEW m \in Messages, ClaimNext(t, m)
        PROVE  Claim(t)' # Claim(u)'
    <2>1. task[u].pc # "idle" /\ Claim(u)' = Claim(u)
      BY <1>1, FreshClaim DEF Claim
    <2>2. Known(task[u].msg, task[u].token)
      BY <2>1 DEF ClaimsKnown
    <2> QED BY <1>1, <2>1, <2>2, FreshClaim DEF Claim
  <1>2. ASSUME NEW t \in Tasks, NEW u \in Tasks, t # u,
               task'[t].pc # "idle", task'[u].pc # "idle"
        PROVE  Claim(t)' # Claim(u)'
    <2>1. ASSUME NEW v \in {t, u}, ~(\E m \in Messages : ClaimNext(v, m))
          PROVE  task[v].pc # "idle" /\ Claim(v)' = Claim(v)
      <3>1. v \in Tasks /\ task'[v] # Idle
        BY <1>2 DEF Idle
      <3>2. task'[v] = task[v] => task[v].pc # "idle" /\ Claim(v)' = Claim(v)
        BY <1>2 DEF Claim
      <3> QED BY <2>1, <3>1, <3>2, TaskMoves
    <2>2. CASE \E m \in Messages : ClaimNext(t, m)
      BY <1>1, <1>2, <2>2
    <2>3. CASE \E m \in Messages : ClaimNext(u, m)
      BY <1>1, <1>2, <2>3
    <2>4. CASE /\ ~(\E m \in Messages : ClaimNext(t, m))
               /\ ~(\E m \in Messages : ClaimNext(u, m))
      BY <1>2, <2>1, <2>4 DEF ClaimsDistinct
    <2> QED BY <2>2, <2>3, <2>4
  <1> QED BY <1>2 DEF ClaimsDistinct

\* Nobody else can put a delivery's own claim before the relay.
LEMMA Unheard ==
    ASSUME TypeOK, ClaimsDistinct, [Next]_vars, NEW t \in Tasks,
           task[t].pc # "idle", Claim(t) \notin accepted \cup in_flight,
           task[t].pc # "smtp" \/ task'[t].pc = "smtp"
    PROVE  Claim(t) \notin accepted' \cup in_flight'
  BY RelayHears DEF ClaimsDistinct

LEMMA DeliveryKnowsInductive ==
    ASSUME TypeOK, ClaimsKnown, ClaimsDistinct, DeliveryKnows, [Next]_vars
    PROVE  DeliveryKnows'
  <1> DEFINE Knows(t) ==
        /\ task[t].pc \in {"compose", "mark", "smtp"} =>
               Claim(t) \notin accepted \cup in_flight
        /\ task[t].pc \in {"accepted", "finish_success"} => Claim(t) \in accepted
        /\ (task[t].pc = "finish_failure" /\ task[t].code # "smtp_delivery_ambiguous")
               => (Claim(t) \notin accepted \cup in_flight \/ Excused(Claim(t)))
  <1>1. ASSUME NEW t \in Tasks, task'[t] = task[t] PROVE Knows(t)'
    <2>1. Knows(t) /\ Claim(t)' = Claim(t)
      BY <1>1 DEF DeliveryKnows, Claim
    <2>2. Excused(Claim(t)) => Excused(Claim(t))'
      BY <2>1, HistoryGrows DEF Excused
    <2>3. /\ task[t].pc # "idle" /\ Claim(t) \notin accepted \cup in_flight
          => Claim(t) \notin accepted' \cup in_flight'
      BY <1>1, Unheard
    <2> QED BY <1>1, <2>1, <2>2, <2>3, HistoryGrows
  <1>2. ASSUME NEW t \in Tasks, task'[t] = Idle PROVE Knows(t)'
    BY <1>2 DEF Idle
  <1>3. ASSUME NEW t \in Tasks, NEW m \in Messages, ClaimNext(t, m)
        PROVE  Knows(t)'
    <2>1. <<m, row[m].attempt_count + 1>> \notin accepted \cup in_flight
      BY <1>3, FreshClaim DEF ClaimsKnown
    <2> QED BY <1>3, <2>1, FreshClaim
  <1>4. ASSUME NEW t \in Tasks, Deliver(t), task[t].pc # "idle",
               Claim(t)' = Claim(t)
        PROVE  Knows(t)'
    <2>1. Knows(t) /\ task \in [Tasks -> Task]
      BY DEF DeliveryKnows, TypeOK
    <2>2. CASE LeaseLost(t) \/ FinishSuccess(t) \/ FinishFailure(t)
      <3>1. task'[t] = Idle
        BY <2>1, <2>2 DEF LeaseLost, FinishSuccess, FinishFailure
      <3> QED BY <1>2, <3>1
    <2>3. CASE Compose(t) \/ MarkDeliveryStarted(t) \/ SendFails(t)
      <3>1. /\ task[t].pc \in {"compose", "mark", "smtp"}
            /\ task'[t].pc \in {"mark", "smtp", "finish_failure"}
            /\ accepted' = accepted /\ in_flight' = in_flight
        BY <2>1, <2>3 DEF Compose, MarkDeliveryStarted, SendFails, Goto, Raise,
           history, Task
      <3> QED BY <1>4, <2>1, <3>1
    <2>4. CASE RelayAccepts(t) \/ SendReturns(t)
      <3>1. /\ task'[t].pc \in {"accepted", "finish_success"}
            /\ Claim(t) \in accepted'
        BY <2>1, <2>4 DEF RelayAccepts, SendReturns, Goto, history, Task
      <3> QED BY <1>4, <3>1
    <2>5. CASE SendInterrupted(t)
      <3>1. /\ task'[t].pc = "finish_failure"
            /\ task'[t].code = "smtp_delivery_ambiguous"
        BY <2>1, <2>5 DEF SendInterrupted, Raise, Task
      <3> QED BY <3>1
    <2>6. CASE DatabaseError(t)
      <3>1. CASE task[t].pc = "finish_failure"
        BY <1>2, <2>1, <2>6, <3>1 DEF DatabaseError
      <3>2. CASE task[t].pc = "finish_success"
        <4>1. task'[t].pc = "finish_failure" /\ Claim(t) \in unrecorded'
          BY <2>1, <2>6, <3>2 DEF DatabaseError, Raise, Task
        <4> QED BY <1>4, <4>1 DEF Excused
      <3>3. CASE task[t].pc \in {"compose", "mark"}
        <4>1. /\ task'[t].pc = "finish_failure"
              /\ accepted' = accepted /\ in_flight' = in_flight
          BY <2>1, <2>6, <3>3 DEF DatabaseError, Raise, Task
        <4> QED BY <1>4, <2>1, <3>3, <4>1
      <3> QED BY <2>6, <3>1, <3>2, <3>3 DEF DatabaseError
    <2> QED BY <1>4, <2>2, <2>3, <2>4, <2>5, <2>6 DEF Deliver
  <1>5. ASSUME NEW t \in Tasks PROVE Knows(t)'
    BY <1>1, <1>2, <1>3, <1>4, TaskMoves
  <1> QED BY <1>5 DEF DeliveryKnows

\* A remembered exposure is not forgotten while the row exists, unless it was
\* excused: recovery turns it into an ambiguous failure, only the operator's
\* waiver reopens that, and a delivery that fails in any other way was never
\* accepted by the relay.
LEMMA RememberedStays ==
    ASSUME TypeOK, TokenIsAttempt, ClaimsDistinct, DeliveryKnows, [Next]_vars,
           NEW m \in Messages, NEW k \in Nat,
           Exposed(<<m, k>>), Remembers(m, k), row'[m].status # "deleted"
    PROVE  Excused(<<m, k>>)' \/ Remembers(m, k)'
  <1> DEFINE r == row[m]
  <1>1. /\ r \in Row /\ row \in [Messages -> Row] /\ r.attempt_count = k
        /\ r.status \in {"sending", "sent", "failed"}
        /\ r.status = "sending" => r.delivery_started_at = "past"
        /\ r.status = "failed" => r.last_error_code = "smtp_delivery_ambiguous"
    BY DEF TypeOK, Remembers
  <1>2. CASE Kept(m)
    BY <1>2 DEF Kept, Remembers
  <1>3. ASSUME row' = row PROVE Kept(m)
    BY <1>3 DEF Kept
  <1>4. ASSUME NEW n \in Messages, Enqueue(n) \/ Invalidate(n) \/ CascadeDelete(n)
        PROVE  Kept(m)
    <2>1. row'[m] = row[m]
      BY <1>1, <1>4 DEF Enqueue, Invalidate, CascadeDelete, NoRow
    <2> QED BY <2>1 DEF Kept
  <1>5. ASSUME NEW n \in Messages, Clock(n) PROVE Kept(m)
    BY <1>1, <1>5 DEF Clock, BackoffPasses, EventExpires, LeaseRunsOut,
       RetentionPasses, Kept, Row
  <1>6. ASSUME NEW n \in Messages, NEW allow \in BOOLEAN, RetryEmail(n, allow)
        PROVE  Kept(m) \/ Excused(<<m, k>>)'
    <2>1. CASE n = m
      BY <1>1, <1>6, <2>1 DEF RetryEmail, MayRetry, Excused
    <2>2. CASE n # m
      BY <1>1, <1>6, <2>2 DEF RetryEmail, Kept
    <2> QED BY <2>1, <2>2
  <1>7. ASSUME NEW w \in Workers, RecoverAndCleanup(w)
        PROVE  Kept(m) \/ Remembers(m, k)'
    <2>1. row'[m] = Recovered(r) \/ row'[m] = r
      BY <1>7 DEF RecoverAndCleanup
    <2>0. CASE row'[m] = r
      BY <2>0 DEF Kept
    <2>2. CASE row'[m] # r /\ r.status = "sending" /\ r.lease_expires_at = "past"
      <3>1. row'[m] = Failed(r, "smtp_delivery_ambiguous")
        BY <1>1, <2>1, <2>2 DEF Recovered
      <3> QED BY <1>1, <3>1, RowEffects, Values DEF Remembers
    <2>3. CASE row'[m] # r /\ r.status \in {"sent", "failed"} /\ r.settled_at = "past"
      <3>1. row'[m] = NoRow("deleted")
        BY <2>1, <2>3 DEF Recovered
      <3> QED BY <3>1 DEF NoRow
    <2>4. CASE /\ ~(r.status = "sending" /\ r.lease_expires_at = "past")
               /\ ~(r.status \in {"sent", "failed"} /\ r.settled_at = "past")
      <3>1. row'[m] = r
        BY <1>1, <2>1, <2>4 DEF Recovered
      <3> QED BY <3>1 DEF Kept
    <2> QED BY <2>0, <2>2, <2>3, <2>4
  <1>8. ASSUME NEW t \in Tasks, NEW n \in Messages, ClaimNext(t, n) PROVE Kept(m)
    <2>1. row'[m] = row[m]
      BY <1>1, <1>8 DEF ClaimNext, Claimable
    <2> QED BY <2>1 DEF Kept
  <1>9. ASSUME NEW t \in Tasks, MarkDeliveryStarted(t) PROVE Kept(m)
    BY <1>1, <1>9 DEF MarkDeliveryStarted, Fenced, Holds, Kept, Row
  <1>10. ASSUME NEW t \in Tasks, FinishSuccess(t)
         PROVE  Kept(m) \/ Remembers(m, k)'
    <2>1. CASE task[t].msg = m
      <3>1. row'[m] = Sent(r)
        BY <1>1, <1>10, <2>1 DEF FinishSuccess
      <3> QED BY <1>1, <3>1, RowEffects DEF Remembers
    <2>2. CASE task[t].msg # m
      BY <1>10, <1>1, <2>2 DEF FinishSuccess, Kept
    <2> QED BY <2>1, <2>2
  <1>11. ASSUME NEW t \in Tasks, FinishFailure(t)
         PROVE  Kept(m) \/ Remembers(m, k)' \/ Excused(<<m, k>>)'
    <2>1. CASE task[t].msg # m
      BY <1>11, <1>1, <2>1 DEF FinishFailure, Kept
    <2>2. CASE task[t].msg = m /\ task[t].code = "smtp_delivery_ambiguous"
      <3>1. row'[m] = Failed(r, "smtp_delivery_ambiguous")
        BY <1>1, <1>11, <2>2 DEF FinishFailure, CanRetry
      <3> QED BY <1>1, <3>1, RowEffects, Values DEF Remembers
    <2>3. CASE task[t].msg = m /\ task[t].code # "smtp_delivery_ambiguous"
      <3>1. task[t].pc = "finish_failure" /\ Claim(t) = <<m, k>>
        BY <1>1, <1>11, <2>3 DEF FinishFailure, Fenced, Holds, TokenIsAttempt, Claim
      <3>2. Claim(t) \notin accepted \cup in_flight \/ Excused(Claim(t))
        BY <2>3, <3>1 DEF DeliveryKnows
      <3>3. \A u \in Tasks : ~(task[u].pc = "smtp" /\ Claim(u) = Claim(t))
        BY <3>1 DEF ClaimsDistinct
      <3>4. Excused(<<m, k>>)
        BY <3>1, <3>2, <3>3 DEF Exposed
      <3> QED BY <3>4, HistoryGrows DEF Excused
    <2> QED BY <2>1, <2>2, <2>3
  <1>12. \/ row' = row
         \/ \E n \in Messages :
                \/ Enqueue(n) \/ Invalidate(n) \/ CascadeDelete(n) \/ Clock(n)
                \/ \E allow \in BOOLEAN : RetryEmail(n, allow)
                \/ \E t \in Tasks : ClaimNext(t, n)
         \/ \E w \in Workers : RecoverAndCleanup(w)
         \/ \E t \in Tasks : \/ MarkDeliveryStarted(t) \/ FinishSuccess(t)
                             \/ FinishFailure(t)
    BY DEF Next, vars, Start, BeginDrain, Drained, Abandon, LateAcceptance,
       Deliver, LeaseLost, Compose, RelayAccepts, SendReturns, SendFails,
       SendInterrupted, DatabaseError
  <1> QED BY <1>2, <1>3, <1>4, <1>5, <1>6, <1>7, <1>8, <1>9, <1>10, <1>11, <1>12

\* The claim whose delivery starts is the row's current attempt.
LEMMA StartsCurrentAttempt ==
    ASSUME TypeOK, TokenIsAttempt, NEW t \in Tasks, MarkDeliveryStarted(t),
           NEW m \in Messages, NEW k, Claim(t) = <<m, k>>
    PROVE  /\ row[m].status = "sending" /\ row[m].attempt_count = k
           /\ row'[m].status = "sending" /\ row'[m].attempt_count = k
           /\ row'[m].delivery_started_at = "past"
  <1>1. task[t].msg = m /\ task[t].token = k
    BY DEF Claim
  <1>2. row[m].status = "sending" /\ row[m].claim_token = k
    BY <1>1 DEF MarkDeliveryStarted, Fenced, Holds
  <1>3. row[m].attempt_count = k
    BY <1>2 DEF TokenIsAttempt
  <1>4. row'[m] = [row[m] EXCEPT !.delivery_started_at = "past"]
    BY <1>1 DEF MarkDeliveryStarted, TypeOK
  <1> QED BY <1>2, <1>3, <1>4 DEF TypeOK, Row

LEMMA ExposureRememberedInductive ==
    ASSUME TypeOK, TokenIsAttempt, ClaimsDistinct, DeliveryKnows,
           ExposureRemembered, [Next]_vars
    PROVE  ExposureRemembered'
  <1>1. ASSUME NEW m \in Messages, NEW k \in Nat, Exposed(<<m, k>>)',
               row'[m].status # "deleted"
        PROVE  Excused(<<m, k>>)' \/ Remembers(m, k)'
    <2>1. CASE Exposed(<<m, k>>)
      <3>1. row[m].status # "deleted"
        <4>1. RowMove(m)
          BY RowMoves
        <4>2. Kept(m) => row'[m].status = row[m].status
          BY DEF Kept
        <4>3. row'[m] = NoRow("deleted") => row'[m].status = "deleted"
          BY DEF NoRow
        <4> QED BY <1>1, <4>1, <4>2, <4>3 DEF RowMove, Claimable, MayRetry
      <3>2. CASE Excused(<<m, k>>)
        BY <3>2, HistoryGrows DEF Excused
      <3>3. CASE Remembers(m, k)
        BY <1>1, <2>1, <3>3, RememberedStays
      <3> QED BY <2>1, <3>1, <3>2, <3>3 DEF ExposureRemembered
    <2>2. ASSUME NEW t \in Tasks, MarkDeliveryStarted(t), <<m, k>> = Claim(t)
          PROVE  Remembers(m, k)'
      BY <2>2, StartsCurrentAttempt DEF Remembers
    <2> QED BY <1>1, <2>1, <2>2, ExposureBegins
  <1> QED BY <1>1 DEF ExposureRemembered

\* A claim the relay may have is one that was made.
LEMMA ExposedIsKnown ==
    ASSUME ClaimsKnown, NEW m \in Messages, NEW k \in Nat, Exposed(<<m, k>>)
    PROVE  Known(m, k)
  BY DEF ClaimsKnown, Exposed, Claim

LEMMA DuplicateInductive ==
    ASSUME TypeOK, TokenIsAttempt, ClaimsKnown, ExposureRemembered,
           NoUnexcusedDuplicate, [Next]_vars
    PROVE  NoUnexcusedDuplicate'
  <1>1. ASSUME NEW m \in Messages, NEW j \in 1..AttemptCeiling,
               NEW k \in 1..AttemptCeiling, j < k,
               Exposed(<<m, j>>)', Exposed(<<m, k>>)'
        PROVE  Excused(<<m, j>>)'
    <2>0. j \in Nat /\ k \in Nat
      BY OutboxAssumption
    <2>1. CASE Exposed(<<m, j>>) /\ Exposed(<<m, k>>)
      <3>1. Excused(<<m, j>>)
        BY <1>1, <2>1 DEF NoUnexcusedDuplicate
      <3> QED BY <3>1, HistoryGrows DEF Excused
    <2>2. ASSUME NEW t \in Tasks, MarkDeliveryStarted(t), <<m, k>> = Claim(t)
          PROVE  Excused(<<m, j>>)'
      <3>1. row[m].status = "sending" /\ row[m].attempt_count = k
        BY <2>2, StartsCurrentAttempt
      <3>2. Exposed(<<m, j>>)
        <4>1. ASSUME NEW u \in Tasks, MarkDeliveryStarted(u), <<m, j>> = Claim(u)
              PROVE  FALSE
          <5>1. row[m].attempt_count = j
            BY <4>1, StartsCurrentAttempt
          <5> QED BY <1>1, <2>0, <3>1, <5>1
        <4> QED BY <1>1, <4>1, ExposureBegins
      <3>3. ~Remembers(m, j)
        BY <1>1, <2>0, <3>1 DEF Remembers
      <3>4. Excused(<<m, j>>)
        BY <2>0, <3>1, <3>2, <3>3 DEF ExposureRemembered
      <3> QED BY <3>4, HistoryGrows DEF Excused
    <2>3. ASSUME NEW t \in Tasks, MarkDeliveryStarted(t), <<m, j>> = Claim(t),
                 Exposed(<<m, k>>)
          PROVE  FALSE
      <3>1. row[m].status = "sending" /\ row[m].attempt_count = j
        BY <2>3, StartsCurrentAttempt
      <3>2. Known(m, k)
        BY <2>0, <2>3, ExposedIsKnown
      <3> QED BY <1>1, <2>0, <3>1, <3>2 DEF Known
    <2> QED BY <1>1, <2>1, <2>2, <2>3, ExposureBegins
  <1> QED BY <1>1 DEF NoUnexcusedDuplicate

\* Only _finish_success turns a row to sent.
LEMMA OnlySuccessSends ==
    ASSUME TypeOK, [Next]_vars, NEW m \in Messages,
           row[m].status # "sent", row'[m].status = "sent"
    PROVE  \E t \in Tasks : FinishSuccess(t) /\ task[t].msg = m
  <1>1. row[m] \in Row /\ row \in [Messages -> Row]
    BY DEF TypeOK
  <1>2. ASSUME NEW n \in Messages, Enqueue(n) \/ Invalidate(n) \/ CascadeDelete(n)
        PROVE  FALSE
    BY <1>1, <1>2, RowEffects DEF Enqueue, Invalidate, CascadeDelete, NoRow
  <1>3. ASSUME NEW n \in Messages, Clock(n) PROVE FALSE
    BY <1>1, <1>3 DEF Clock, BackoffPasses, EventExpires, LeaseRunsOut,
       RetentionPasses, Row
  <1>4. ASSUME NEW n \in Messages, NEW allow \in BOOLEAN, RetryEmail(n, allow)
        PROVE  FALSE
    BY <1>1, <1>4, RowEffects DEF RetryEmail
  <1>5. ASSUME NEW w \in Workers, RecoverAndCleanup(w) PROVE FALSE
    <2>1. row'[m] = Recovered(row[m]) \/ row'[m] = row[m]
      BY <1>5 DEF RecoverAndCleanup
    <2>2. \/ row'[m] = row[m] \/ row'[m] = NoRow("deleted")
          \/ row'[m] = Requeued(row[m])
          \/ \E c \in Outcome : row'[m] = Failed(row[m], c)
      BY <2>1, Values DEF Recovered
    <2> QED BY <1>1, <2>2, RowEffects DEF NoRow
  <1>6. ASSUME NEW t \in Tasks, NEW n \in Messages, ClaimNext(t, n) PROVE FALSE
    <2>1. WorkerOf[t] \in Workers
      BY OutboxAssumption
    <2> QED BY <1>1, <1>6, <2>1, RowEffects DEF ClaimNext
  <1>7. ASSUME NEW t \in Tasks, MarkDeliveryStarted(t) PROVE FALSE
    BY <1>1, <1>7 DEF MarkDeliveryStarted, Row
  <1>8. ASSUME NEW t \in Tasks, FinishFailure(t) PROVE FALSE
    <2>1. task[t].code \in Outcome
      BY DEF TypeOK, Task
    <2> QED BY <1>1, <1>8, <2>1, RowEffects DEF FinishFailure
  <1>9. ASSUME NEW t \in Tasks, FinishSuccess(t) PROVE task[t].msg = m
    BY <1>1, <1>9 DEF FinishSuccess
  <1>10. \/ row' = row
         \/ \E n \in Messages :
                \/ Enqueue(n) \/ Invalidate(n) \/ CascadeDelete(n) \/ Clock(n)
                \/ \E allow \in BOOLEAN : RetryEmail(n, allow)
                \/ \E t \in Tasks : ClaimNext(t, n)
         \/ \E w \in Workers : RecoverAndCleanup(w)
         \/ \E t \in Tasks : \/ MarkDeliveryStarted(t) \/ FinishSuccess(t)
                             \/ FinishFailure(t)
    BY DEF Next, vars, Start, BeginDrain, Drained, Abandon, LateAcceptance,
       Deliver, LeaseLost, Compose, RelayAccepts, SendReturns, SendFails,
       SendInterrupted, DatabaseError
  <1> QED BY <1>2, <1>3, <1>4, <1>5, <1>6, <1>7, <1>8, <1>9, <1>10

LEMMA SentInductive ==
    ASSUME TypeOK, TokenIsAttempt, DeliveryKnows, SentWasAccepted, [Next]_vars
    PROVE  SentWasAccepted'
  <1>1. ASSUME NEW m \in Messages, row'[m].status = "sent"
        PROVE  <<m, row'[m].attempt_count>> \in accepted'
    <2>1. row[m] \in Row /\ row \in [Messages -> Row]
      BY DEF TypeOK
    <2>2. CASE row[m].status = "sent"
      <3>1. RowMove(m) /\ row'[m] # NoRow("deleted")
        BY <1>1, RowMoves DEF NoRow
      <3>2. row'[m].attempt_count = row[m].attempt_count
        BY <2>2, <3>1 DEF RowMove, Kept, Claimable, MayRetry
      <3> QED BY <2>2, <3>2, HistoryGrows DEF SentWasAccepted
    <2>3. CASE row[m].status # "sent"
      <3>1. PICK t \in Tasks : FinishSuccess(t) /\ task[t].msg = m
        BY <1>1, <2>3, OnlySuccessSends
      <3>2. Claim(t) \in accepted /\ accepted' = accepted
        BY <3>1 DEF FinishSuccess, DeliveryKnows, history
      <3>3. row[m].attempt_count = task[t].token
        BY <3>1 DEF FinishSuccess, Fenced, Holds, TokenIsAttempt
      <3>4. row'[m] = Sent(row[m])
        BY <2>1, <3>1 DEF FinishSuccess
      <3>5. row'[m].attempt_count = row[m].attempt_count
        BY <2>1, <3>4, RowEffects
      <3> QED BY <3>1, <3>2, <3>3, <3>5 DEF Claim
    <2> QED BY <2>2, <2>3
  <1> QED BY <1>1 DEF SentWasAccepted

-----------------------------------------------------------------------------
(* The theorems.                                                           *)

\* The strengthening holds initially and every step preserves it.
THEOREM Inductive == Spec => []IInv
  <1>1. Init => IInv
    <2> SUFFICES ASSUME Init PROVE IInv
      OBVIOUS
    <2>1. TypeOK
      BY TypeInit
    <2>2. \A m \in Messages :
              /\ row[m].status = "absent" /\ row[m].lease_expires_at = "null"
              /\ row[m].worker_id = None /\ row[m].claim_token = 0
              /\ row[m].attempt_count = 0 /\ row[m].max_attempts = 0
      BY DEF Init, NoRow
    <2>3. \A t \in Tasks : task[t].pc = "idle"
      BY DEF Init, Idle
    <2>4. accepted = {} /\ in_flight = {}
      BY DEF Init
    <2>5. CheckConstraints
      BY <2>2, OutboxAssumption DEF CheckConstraints
    <2> QED
      BY <2>1, <2>2, <2>3, <2>4, <2>5
      DEF IInv, TokenIsAttempt, ClaimsKnown, ClaimsDistinct, DeliveryKnows,
          ExposureRemembered, Exposed
  <1>2. IInv /\ [Next]_vars => IInv'
    BY TypeInductive, ChecksInductive, ClaimsKnownInductive,
       ClaimsDistinctInductive, DeliveryKnowsInductive,
       ExposureRememberedInductive DEF IInv
  <1> QED BY <1>1, <1>2, PTL DEF Spec

\* PostgreSQL never refuses a row a handler writes: claim columns are set
\* exactly while a row is sending, and attempts stay within its limits.
THEOREM ChecksHold == Spec => []CheckConstraints
  <1>1. IInv => CheckConstraints
    BY DEF IInv
  <1> QED BY <1>1, Inductive, PTL

\* Leases, recovery, crashes and cancelled coroutines never cause a second
\* mail: _mark_delivery_started commits before the relay hears of the claim.
THEOREM NoDuplicate == Spec => []NoUnexcusedDuplicate
  <1>1. Init => NoUnexcusedDuplicate
    BY DEF Init, Idle, Exposed, NoUnexcusedDuplicate
  <1>2. IInv /\ NoUnexcusedDuplicate /\ [Next]_vars => NoUnexcusedDuplicate'
    BY DuplicateInductive DEF IInv
  <1> QED BY <1>1, <1>2, Inductive, PTL DEF Spec

\* A row says "sent" only if the relay accepted the mail of its last claim.
THEOREM SentIsTrue == Spec => []SentWasAccepted
  <1>1. Init => SentWasAccepted
    BY DEF Init, NoRow, SentWasAccepted
  <1>2. IInv /\ SentWasAccepted /\ [Next]_vars => SentWasAccepted'
    BY SentInductive DEF IInv
  <1> QED BY <1>1, <1>2, Inductive, PTL DEF Spec

\* A live lease is settled by its holder alone.
LEMMA HolderSettles ==
    ASSUME TypeOK, [Next]_vars, NEW m \in Messages,
           row[m].status = "sending", row[m].lease_expires_at = "future",
           row'[m].status \notin {"sending", "deleted"}
    PROVE  \E t \in Tasks : /\ Claim(t) = <<m, row[m].claim_token>>
                            /\ task[t].pc \in {"finish_success", "finish_failure"}
                            /\ task'[t] = Idle
  <1>1. row[m] \in Row /\ row \in [Messages -> Row] /\ task \in [Tasks -> Task]
    BY DEF TypeOK
  <1>2. ASSUME NEW n \in Messages, Enqueue(n) \/ Invalidate(n) \/ CascadeDelete(n)
        PROVE  FALSE
    BY <1>1, <1>2 DEF Enqueue, Invalidate, CascadeDelete, NoRow
  <1>3. ASSUME NEW n \in Messages, Clock(n) PROVE FALSE
    BY <1>1, <1>3 DEF Clock, BackoffPasses, EventExpires, LeaseRunsOut,
       RetentionPasses, Row
  <1>4. ASSUME NEW n \in Messages, NEW allow \in BOOLEAN, RetryEmail(n, allow)
        PROVE  FALSE
    BY <1>1, <1>4 DEF RetryEmail, MayRetry
  <1>5. ASSUME NEW w \in Workers, RecoverAndCleanup(w) PROVE FALSE
    BY <1>1, <1>5 DEF RecoverAndCleanup, Recovered
  <1>6. ASSUME NEW t \in Tasks, NEW n \in Messages, ClaimNext(t, n) PROVE FALSE
    BY <1>1, <1>6 DEF ClaimNext, Claimable
  <1>7. ASSUME NEW t \in Tasks, MarkDeliveryStarted(t) PROVE FALSE
    BY <1>1, <1>7 DEF MarkDeliveryStarted, Row
  <1>8. ASSUME NEW t \in Tasks, FinishSuccess(t) \/ FinishFailure(t)
        PROVE  /\ Claim(t) = <<m, row[m].claim_token>>
               /\ task[t].pc \in {"finish_success", "finish_failure"}
               /\ task'[t] = Idle
    <2>1. task[t].msg = m
      BY <1>1, <1>8 DEF FinishSuccess, FinishFailure
    <2> QED BY <1>1, <1>8, <2>1
        DEF FinishSuccess, FinishFailure, Fenced, Holds, Claim
  <1>9. \/ row' = row
        \/ \E n \in Messages :
               \/ Enqueue(n) \/ Invalidate(n) \/ CascadeDelete(n) \/ Clock(n)
               \/ \E allow \in BOOLEAN : RetryEmail(n, allow)
               \/ \E t \in Tasks : ClaimNext(t, n)
        \/ \E w \in Workers : RecoverAndCleanup(w)
        \/ \E t \in Tasks : \/ MarkDeliveryStarted(t) \/ FinishSuccess(t)
                            \/ FinishFailure(t)
    BY DEF Next, vars, Start, BeginDrain, Drained, Abandon, LateAcceptance,
       Deliver, LeaseLost, Compose, RelayAccepts, SendReturns, SendFails,
       SendInterrupted, DatabaseError
  <1> QED BY <1>1, <1>2, <1>3, <1>4, <1>5, <1>6, <1>7, <1>8, <1>9

\* Recovery, the operator and stale deliveries leave a live claim alone: the
\* fence _claimed is re-checked by every transaction that settles a row.
THEOREM LiveClaimIsSafe == Spec => OnlyHolderSettles
  <1>1. TypeOK /\ [Next]_vars =>
          [\A m \in Messages :
             (/\ row[m].status = "sending" /\ row[m].lease_expires_at = "future"
              /\ row'[m].status \notin {"sending", "deleted"})
             => \E t \in Tasks : /\ Claim(t) = <<m, row[m].claim_token>>
                                 /\ task[t].pc \in {"finish_success", "finish_failure"}
                                 /\ task'[t] = Idle]_vars
    BY HolderSettles
  <1> QED BY <1>1, TypeCorrect, PTL DEF Spec, OnlyHolderSettles

-----------------------------------------------------------------------------
(* The outbox implements the delivery promise.                             *)

PhaseOf(m) ==
    CASE row[m].status = "absent" -> "none"
      [] row[m].status \in {"pending", "sending"} -> "open"
      [] row[m].status = "sent" -> "delivered"
      [] row[m].status = "failed" -> "failed"
      [] OTHER -> "gone"

\* The claims of one message form a finite set, which a new claim makes larger
\* by one at most.
LEMMA AttemptsFinite ==
    ASSUME NEW m, NEW C
    PROVE  /\ IsFiniteSet(Attempts(m, C))
           /\ Cardinality(Attempts(m, C)) \in Nat
           /\ Attempts(m, C) \subseteq 1 .. AttemptCeiling
  <1>1. IsFiniteSet(1 .. AttemptCeiling)
    BY OutboxAssumption, FS_Interval
  <1>2. Attempts(m, C) \in SUBSET (1 .. AttemptCeiling)
    BY DEF Attempts
  <1>3. IsFiniteSet(Attempts(m, C))
    BY <1>1, <1>2, FS_Subset
  <1> QED BY <1>2, <1>3, FS_CardinalityType

LEMMA OneMoreAttempt ==
    ASSUME NEW m, NEW C, NEW k, k \notin Attempts(m, C)
    PROVE  Cardinality(Attempts(m, C) \cup {k}) = Cardinality(Attempts(m, C)) + 1
  <1>1. IsFiniteSet(Attempts(m, C))
    BY AttemptsFinite
  <1> QED BY <1>1, FS_AddElement

\* Of the attempts the relay has or may have, at most one is not excused; so a
\* further copy finds all the copies before it accounted for.
LEMMA AllButOneExcused ==
    ASSUME TypeOK, NoUnexcusedDuplicate, NEW m \in Messages, NEW k \in 1 .. AttemptCeiling,
           k \notin Attempts(m, accepted), Exposed(<<m, k>>)
    PROVE  Cardinality(Attempts(m, accepted))
             <= Cardinality(Attempts(m, waived \cup unrecorded))
  <1> DEFINE A == Attempts(m, accepted)
             E == Attempts(m, waived \cup unrecorded)
             B == A \cup {k}
  <1>1. /\ IsFiniteSet(A) /\ Cardinality(A) \in Nat
        /\ IsFiniteSet(E) /\ Cardinality(E) \in Nat
        /\ A \subseteq 1 .. AttemptCeiling
    BY AttemptsFinite
  <1>2. \A j \in B : j \in 1 .. AttemptCeiling /\ j \in Nat /\ Exposed(<<m, j>>)
    BY <1>1, OutboxAssumption DEF Attempts, Exposed
  <1>3. \A j \in 1 .. AttemptCeiling : j \in E <=> Excused(<<m, j>>)
    BY DEF Attempts, Excused
  <1>4. ASSUME NEW i \in B, NEW j \in B, i # j PROVE i \in E \/ j \in E
    <2>1. /\ i \in 1 .. AttemptCeiling /\ i \in Nat /\ Exposed(<<m, i>>)
          /\ j \in 1 .. AttemptCeiling /\ j \in Nat /\ Exposed(<<m, j>>)
      BY <1>2
    <2>2. CASE i < j
      BY <1>3, <2>1, <2>2 DEF NoUnexcusedDuplicate
    <2>3. CASE j < i
      BY <1>3, <2>1, <2>3 DEF NoUnexcusedDuplicate
    <2> QED BY <1>4, <2>1, <2>2, <2>3
  <1>5. k \notin A
    OBVIOUS
  <1> HIDE DEF A, E
  <1>6. IsFiniteSet(B) /\ Cardinality(B) = Cardinality(A) + 1
    BY <1>1, <1>5, FS_AddElement
  <1>7. ASSUME B \subseteq E PROVE Cardinality(A) <= Cardinality(E)
    <2>1. A \in SUBSET E
      BY <1>7
    <2>2. Cardinality(A) <= Cardinality(E)
      BY <1>1, <2>1, FS_Subset
    <2> QED BY <2>2
  <1>8. ASSUME NEW i \in B, i \notin E
        PROVE  Cardinality(A) <= Cardinality(E)
    <2>1. B \ {i} \in SUBSET E
      BY <1>4, <1>8
    <2>2. Cardinality(B \ {i}) <= Cardinality(E)
      BY <1>1, <2>1, FS_Subset
    <2>3. Cardinality(B \ {i}) = Cardinality(B) - 1
      BY <1>6, <1>8, FS_RemoveElement
    <2>4. Cardinality(A) \in Nat /\ Cardinality(B) \in Nat /\ Cardinality(E) \in Nat
      BY <1>1, <1>6
    <2> HIDE DEF B
    <2> QED BY <1>6, <2>2, <2>3, <2>4
  <1>9. Cardinality(A) <= Cardinality(E)
    <2>1. CASE \A i \in B : i \in E
      <3>1. B \subseteq E
        BY <2>1
      <3> QED BY ONLY <1>7, <3>1
    <2>2. CASE \E i \in B : i \notin E
      <3>1. PICK i \in B : i \notin E
        BY <2>2
      <3> HIDE DEF B
      <3> QED BY <1>8, <3>1
    <2> QED BY <2>1, <2>2
  <1> QED BY <1>9 DEF A, E

\* What one step adds to the history of each kind: one claim at most, which was
\* made before, and to the accepted ones only one the relay had a part of.
LEMMA OneMoreAccepted ==
    ASSUME TypeOK, ClaimsKnown, [Next]_vars
    PROVE  \/ accepted' = accepted
           \/ \E m \in Messages, k \in Nat :
                /\ accepted' = accepted \cup {<<m, k>>}
                /\ Exposed(<<m, k>>) /\ row[m].status # "absent"
  <1>1. ASSUME NEW t \in Tasks, RelayAccepts(t)
        PROVE  \E m \in Messages, k \in Nat :
                 /\ accepted' = accepted \cup {<<m, k>>}
                 /\ Exposed(<<m, k>>) /\ row[m].status # "absent"
    <2>1. /\ accepted' = accepted \cup {<<task[t].msg, task[t].token>>}
          /\ task[t].msg \in Messages /\ task[t].token \in Nat
          /\ Exposed(<<task[t].msg, task[t].token>>)
          /\ Known(task[t].msg, task[t].token)
      BY <1>1 DEF RelayAccepts, Claim, TypeOK, Task, Exposed, ClaimsKnown
    <2> QED BY <2>1 DEF Known
  <1>2. ASSUME NEW c \in in_flight, LateAcceptance(c)
        PROVE  \E m \in Messages, k \in Nat :
                 /\ accepted' = accepted \cup {<<m, k>>}
                 /\ Exposed(<<m, k>>) /\ row[m].status # "absent"
    <2>1. PICK m \in Messages, k \in Nat : c = <<m, k>>
      BY DEF TypeOK
    <2>2. Exposed(<<m, k>>) /\ Known(m, k)
      BY <2>1 DEF Exposed, ClaimsKnown
    <2> QED BY <1>2, <2>1, <2>2 DEF LateAcceptance, Known
  <1>3. \/ accepted' = accepted
        \/ \E t \in Tasks : RelayAccepts(t)
        \/ \E c \in in_flight : LateAcceptance(c)
    BY DEF Next, vars, Enqueue, Invalidate, CascadeDelete, Clock, BackoffPasses,
       EventExpires, LeaseRunsOut, RetentionPasses, RetryEmail, Start, BeginDrain,
       Drained, RecoverAndCleanup, ClaimNext, Abandon, Deliver, LeaseLost, Compose,
       MarkDeliveryStarted, SendReturns, SendFails, SendInterrupted,
       FinishSuccess, FinishFailure, DatabaseError, history
  <1> QED BY <1>1, <1>2, <1>3

LEMMA OneMoreExcused ==
    ASSUME TypeOK, ClaimsKnown, [Next]_vars
    PROVE  \/ (waived \cup unrecorded)' = waived \cup unrecorded
           \/ \E m \in Messages, k \in Nat :
                /\ (waived \cup unrecorded)' = (waived \cup unrecorded) \cup {<<m, k>>}
                /\ row[m].status # "absent"
  <1> DEFINE Goal ==
           \/ (waived \cup unrecorded)' = waived \cup unrecorded
           \/ \E m \in Messages, k \in Nat :
                /\ (waived \cup unrecorded)' = (waived \cup unrecorded) \cup {<<m, k>>}
                /\ row[m].status # "absent"
  <1>1. ASSUME NEW t \in Tasks, DatabaseError(t) PROVE Goal
    <2>1. /\ unrecorded' \in {unrecorded, unrecorded \cup {<<task[t].msg, task[t].token>>}}
          /\ waived' = waived
          /\ task[t].msg \in Messages /\ task[t].token \in Nat
          /\ Known(task[t].msg, task[t].token)
      BY <1>1 DEF DatabaseError, Claim, TypeOK, Task, ClaimsKnown
    <2> QED BY <2>1 DEF Known
  <1>2. ASSUME NEW m \in Messages, NEW allow \in BOOLEAN, RetryEmail(m, allow) PROVE Goal
    <2>1. /\ row[m].attempt_count \in Nat /\ row[m].status = "failed"
          /\ waived' \in {waived, waived \cup {<<m, row[m].attempt_count>>}}
          /\ unrecorded' = unrecorded
      BY <1>2 DEF RetryEmail, MayRetry, TypeOK, Row
    <2> QED BY <2>1
  <1>3. \/ waived' = waived /\ unrecorded' = unrecorded
        \/ \E t \in Tasks : DatabaseError(t)
        \/ \E m \in Messages, allow \in BOOLEAN : RetryEmail(m, allow)
    BY DEF Next, vars, Enqueue, Invalidate, CascadeDelete, Clock, BackoffPasses,
       EventExpires, LeaseRunsOut, RetentionPasses, Start, BeginDrain,
       Drained, RecoverAndCleanup, ClaimNext, Abandon, Deliver, LeaseLost, Compose,
       MarkDeliveryStarted, RelayAccepts, SendReturns, SendFails, SendInterrupted,
       FinishSuccess, FinishFailure, LateAcceptance, history
  <1> QED BY <1>1, <1>2, <1>3

\* A success that is recorded is of the present attempt, which the relay took.
LEMMA CopyBeforeSent ==
    ASSUME IInv, [Next]_vars, NEW m \in Messages,
           row[m].status # "sent", row'[m].status = "sent"
    PROVE  Cardinality(Attempts(m, accepted)) > 0
  <1>1. PICK t \in Tasks : FinishSuccess(t) /\ task[t].msg = m
    BY OnlySuccessSends DEF IInv
  <1>2. <<m, row[m].attempt_count>> \in accepted
    BY <1>1 DEF IInv, FinishSuccess, Fenced, Holds, DeliveryKnows, TokenIsAttempt, Claim
  <1>3. row[m].attempt_count \in 1 .. AttemptCeiling
    <2>1. row[m].status = "sending"
      BY <1>1 DEF FinishSuccess, Fenced, Holds
    <2>2. row[m].attempt_count \in Nat /\ row[m].max_attempts \in Nat
      BY DEF IInv, TypeOK, Row
    <2> QED BY <2>1, <2>2, OutboxAssumption DEF IInv, TokenIsAttempt, CheckConstraints
  <1>4. Attempts(m, accepted) # {}
    BY <1>2, <1>3 DEF Attempts
  <1>5. Cardinality(Attempts(m, accepted)) # 0
    BY <1>4, AttemptsFinite, FS_EmptySet
  <1> QED BY <1>5, AttemptsFinite

LEMMA PhaseMoves ==
    ASSUME IInv, [Next]_vars, NEW m \in Messages
    PROVE  \/ PhaseOf(m)' = PhaseOf(m)
           \/ PhaseOf(m) = "none" /\ PhaseOf(m)' = "open"
           \/ /\ PhaseOf(m) = "open" /\ PhaseOf(m)' = "delivered"
              /\ Cardinality(Attempts(m, accepted)) > 0
           \/ PhaseOf(m) = "open" /\ PhaseOf(m)' = "failed"
           \/ PhaseOf(m) = "failed" /\ PhaseOf(m)' = "open"
           \/ PhaseOf(m) # "none" /\ PhaseOf(m)' = "gone"
  <1> DEFINE r == row[m]
  <1>1. r \in Row /\ RowMove(m)
    BY RowMoves DEF IInv, TypeOK
  <1>2. CASE Kept(m)
    BY <1>2 DEF Kept, PhaseOf
  <1>3. CASE r.status = "absent" /\ row'[m] = Queued
    BY <1>1, <1>3, RowEffects DEF PhaseOf
  <1>4. CASE r.status # "absent" /\ row'[m] = NoRow("deleted")
    BY <1>4 DEF PhaseOf, NoRow
  <1>5. CASE \E w \in Workers : Claimable(r) /\ row'[m] = Claimed(r, w)
    BY <1>1, <1>5, RowEffects DEF PhaseOf, Claimable
  <1>6. CASE r.status = "sending" /\ row'[m] = [r EXCEPT !.delivery_started_at = "past"]
    BY <1>1, <1>6 DEF PhaseOf, Row
  <1>7. CASE r.status = "sending" /\ row'[m] = Requeued(r)
    BY <1>1, <1>7, RowEffects DEF PhaseOf
  <1>8. CASE r.status = "sending" /\ row'[m] = Sent(r)
    <2>1. row'[m].status = "sent"
      BY <1>1, <1>8, RowEffects
    <2>2. Cardinality(Attempts(m, accepted)) > 0
      BY <1>8, <2>1, CopyBeforeSent
    <2> QED BY <1>8, <2>1, <2>2 DEF PhaseOf
  <1>9. CASE r.status \in {"pending", "sending"} /\ row'[m] \in {Failed(r, c) : c \in Outcome}
    BY <1>1, <1>9, RowEffects DEF PhaseOf
  <1>10. CASE \E allow \in BOOLEAN : MayRetry(r, allow) /\ row'[m] = Reopened(r)
    BY <1>1, <1>10, RowEffects DEF PhaseOf, MayRetry
  <1> QED BY <1>1, <1>2, <1>3, <1>4, <1>5, <1>6, <1>7, <1>8, <1>9, <1>10 DEF RowMove

LEMMA CopiesMove ==
    ASSUME IInv, NoUnexcusedDuplicate, [Next]_vars, NEW m \in Messages
    PROVE  \/ Cardinality(Attempts(m, accepted')) = Cardinality(Attempts(m, accepted))
           \/ /\ PhaseOf(m) # "none"
              /\ Cardinality(Attempts(m, accepted))
                   <= Cardinality(Attempts(m, waived \cup unrecorded))
              /\ Cardinality(Attempts(m, accepted')) = Cardinality(Attempts(m, accepted)) + 1
  <1>1. CASE accepted' = accepted
    BY <1>1
  <1>2. ASSUME NEW n \in Messages, NEW k \in Nat, accepted' = accepted \cup {<<n, k>>},
               Exposed(<<n, k>>), row[n].status # "absent",
               Attempts(m, accepted') # Attempts(m, accepted)
        PROVE  /\ PhaseOf(m) # "none"
               /\ Cardinality(Attempts(m, accepted))
                    <= Cardinality(Attempts(m, waived \cup unrecorded))
               /\ Cardinality(Attempts(m, accepted')) = Cardinality(Attempts(m, accepted)) + 1
    <2> DEFINE A == Attempts(m, accepted)
               B == Attempts(m, accepted \cup {<<n, k>>})
    <2>0. \/ B = A
          \/ n = m /\ k \in 1 .. AttemptCeiling /\ k \notin A /\ B = A \cup {k}
      BY DEF Attempts
    <2>1. /\ n = m /\ k \in 1 .. AttemptCeiling /\ k \notin Attempts(m, accepted)
          /\ Cardinality(Attempts(m, accepted')) = Cardinality(Attempts(m, accepted)) + 1
      BY <1>2, <2>0, OneMoreAttempt
    <2>2. PhaseOf(m) # "none"
      BY <1>2, <2>1 DEF PhaseOf
    <2>3. Cardinality(Attempts(m, accepted)) <= Cardinality(Attempts(m, waived \cup unrecorded))
      BY <1>2, <2>1, AllButOneExcused DEF IInv
    <2> QED BY <2>1, <2>2, <2>3
  <1> QED BY <1>1, <1>2, OneMoreAccepted DEF IInv

LEMMA RisksMove ==
    ASSUME IInv, [Next]_vars, NEW m \in Messages
    PROVE  \/ Cardinality(Attempts(m, (waived \cup unrecorded)'))
                = Cardinality(Attempts(m, waived \cup unrecorded))
           \/ /\ PhaseOf(m) # "none"
              /\ Cardinality(Attempts(m, (waived \cup unrecorded)'))
                   = Cardinality(Attempts(m, waived \cup unrecorded)) + 1
  <1>1. CASE (waived \cup unrecorded)' = waived \cup unrecorded
    BY <1>1
  <1>2. ASSUME NEW n \in Messages, NEW k \in Nat, row[n].status # "absent",
               (waived \cup unrecorded)' = (waived \cup unrecorded) \cup {<<n, k>>},
               Attempts(m, (waived \cup unrecorded)') # Attempts(m, waived \cup unrecorded)
        PROVE  /\ PhaseOf(m) # "none"
               /\ Cardinality(Attempts(m, (waived \cup unrecorded)'))
                    = Cardinality(Attempts(m, waived \cup unrecorded)) + 1
    <2> DEFINE A == Attempts(m, waived \cup unrecorded)
               B == Attempts(m, (waived \cup unrecorded) \cup {<<n, k>>})
    <2>0. B = A \/ (n = m /\ k \notin A /\ B = A \cup {k})
      BY DEF Attempts
    <2>1. n = m /\ Cardinality(B) = Cardinality(A) + 1
      BY <1>2, <2>0, OneMoreAttempt, ZenonT(60)
    <2> QED BY <1>2, <2>1 DEF PhaseOf
  <1> QED BY <1>1, <1>2, OneMoreExcused DEF IInv

\* Every step of the outbox is a step, or no step, of the delivery promise.
LEMMA StepRefines ==
    ASSUME IInv, NoUnexcusedDuplicate, [Next]_vars PROVE Delivery!DeliveryNext
  <1> SUFFICES ASSUME NEW m \in Messages
               PROVE  Delivery!PhaseStep(m) /\ Delivery!CopyStep(m) /\ Delivery!RiskStep(m)
    BY DEF Delivery!DeliveryNext
  <1>1. Delivery!PhaseStep(m)
    BY PhaseMoves DEF Delivery!PhaseStep, PhaseOf
  <1>2. Delivery!CopyStep(m)
    BY CopiesMove DEF Delivery!CopyStep, PhaseOf
  <1>3. Delivery!RiskStep(m)
    BY RisksMove DEF Delivery!RiskStep, PhaseOf
  <1> QED BY <1>1, <1>2, <1>3

\* Seen without workers, leases and claims, the outbox delivers each event as
\* EmailDelivery promises: one copy, and one more at most for each risk taken.
THEOREM DeliveryImplemented == Spec => ImplementsDelivery
  <1>1. Init => Delivery!DeliveryInit
    <2> SUFFICES ASSUME Init PROVE Delivery!DeliveryInit
      OBVIOUS
    <2>1. \A m \in Messages : row[m].status = "absent"
      BY DEF Init, NoRow
    <2>2. \A m \in Messages : /\ Attempts(m, accepted) = {}
                              /\ Attempts(m, waived \cup unrecorded) = {}
      BY DEF Init, Attempts
    <2> QED BY <2>1, <2>2, FS_EmptySet DEF Delivery!DeliveryInit
  <1>2. IInv /\ NoUnexcusedDuplicate /\ [Next]_vars => [Delivery!DeliveryNext]_(Delivery!dvars)
    BY StepRefines
  <1> QED
    BY <1>1, <1>2, Inductive, NoDuplicate, PTL
    DEF Spec, ImplementsDelivery, Delivery!DeliverySpec

=============================================================================
