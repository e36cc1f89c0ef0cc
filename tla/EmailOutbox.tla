---------------------------- MODULE EmailOutbox ----------------------------
(***************************************************************************)
(* The transactional e-mail outbox: rows queued by API transactions, lease *)
(* holding workers that deliver them over SMTP, recovery of abandoned      *)
(* leases, and the operator's retry command.  One action is one database   *)
(* transaction, or one observable event of an SMTP dialogue.               *)
(*                                                                         *)
(* Every deadline of a row is kept as "has it passed": available_at,       *)
(* expires_at, lease_expires_at and the retention of a settled row each    *)
(* pass in a step of their own, in any order, so the model contains every  *)
(* setting of the intervals.                                               *)
(***************************************************************************)
EXTENDS Integers, FiniteSets

CONSTANTS
    Messages,        \* domain events that want one e-mail each
    Workers,         \* worker processes (worker_id)
    Tasks,           \* delivery slots, email_worker_concurrency per process
    WorkerOf,        \* the process a slot belongs to
    MaxAttempts,     \* settings.email_max_attempts
    AttemptCeiling,  \* the hard ceiling of the CHECK constraint and the CLI
    None             \* SQL NULL

ASSUME OutboxAssumption ==
    /\ WorkerOf \in [Tasks -> Workers]
    /\ AttemptCeiling \in Nat
    /\ MaxAttempts \in 1..AttemptCeiling
    /\ None \notin Messages \cup Workers

VARIABLES
    row,         \* email_outbox_messages
    valid,       \* messages whose reset or invitation compose finds usable
    mode,        \* running, draining or stopped, per worker process
    task,        \* delivery coroutine of each slot
    in_flight,   \* sends no coroutine waits for, that the relay may yet accept
    accepted,    \* claims <<message, attempt>> whose mail the relay accepted
    waived,      \* claims whose doubt the operator accepted: --allow-ambiguous
    unrecorded   \* claims accepted by the relay whose success was not written

vars == <<row, valid, mode, task, in_flight, accepted, waived, unrecorded>>
history == <<accepted, waived, unrecorded>>

Status == {"absent", "pending", "sending", "sent", "failed", "deleted"}

\* A timestamp column as it compares with the present.  settled_at stands for
\* sent_at and failed_at, and is past once the retention after it has passed.
Deadline == {"null", "future", "past"}

\* What a delivery ends with: a retryable error, an error that is final, or a
\* connection lost while the relay may already have taken the mail.
Outcome == {"none", "transient", "permanent", "smtp_delivery_ambiguous"}

Row == [status : Status, attempt_count : Nat, max_attempts : Nat,
        available_at : Deadline, expires_at : Deadline,
        lease_expires_at : Deadline, delivery_started_at : Deadline,
        settled_at : Deadline, worker_id : Workers \cup {None},
        claim_token : Nat, last_error_code : Outcome]

NoRow(status) ==
    [status |-> status, attempt_count |-> 0, max_attempts |-> 0,
     available_at |-> "null", expires_at |-> "null",
     lease_expires_at |-> "null", delivery_started_at |-> "null",
     settled_at |-> "null", worker_id |-> None, claim_token |-> 0,
     last_error_code |-> "none"]

Pc == {"idle", "compose", "mark", "smtp", "accepted", "finish_success",
       "finish_failure"}

Task == [pc : Pc, msg : Messages \cup {None}, token : Nat, code : Outcome]

Idle == [pc |-> "idle", msg |-> None, token |-> 0, code |-> "none"]

Claim(t) == <<task[t].msg, task[t].token>>

-----------------------------------------------------------------------------
(* Row transitions shared by the handlers.                                 *)

Queued ==
    [NoRow("pending") EXCEPT !.max_attempts = MaxAttempts,
                             !.available_at = "past", !.expires_at = "future"]

\* A claim token is fresh at every claim.  attempt_count grows at every claim
\* and nothing resets it, so its value names the claim.
Claimed(r, w) ==
    [r EXCEPT !.status = "sending", !.attempt_count = @ + 1,
              !.delivery_started_at = "null", !.lease_expires_at = "future",
              !.worker_id = w, !.claim_token = r.attempt_count + 1,
              !.last_error_code = "none"]

ClearClaim(r) ==
    [r EXCEPT !.lease_expires_at = "null", !.worker_id = None, !.claim_token = 0]

\* random.uniform(0, cap) from now; an available_at of now is one tick away.
Requeued(r) ==
    [ClearClaim(r) EXCEPT !.status = "pending", !.available_at = "future",
                          !.delivery_started_at = "null",
                          !.last_error_code = "transient"]

Failed(r, code) ==
    [ClearClaim(r) EXCEPT !.status = "failed", !.settled_at = "future",
                          !.last_error_code = code]

Sent(r) ==
    [ClearClaim(r) EXCEPT !.status = "sent", !.settled_at = "future",
                          !.last_error_code = "none"]

\* Requeued by the operator, with one more attempt when none was left.
Reopened(r) ==
    [r EXCEPT !.status = "pending", !.available_at = "past",
              !.last_error_code = "none", !.delivery_started_at = "null",
              !.settled_at = "null",
              !.max_attempts = IF r.attempt_count >= @
                                 THEN r.attempt_count + 1 ELSE @]

Claimable(r) ==
    /\ r.status = "pending"
    /\ r.available_at = "past"
    /\ r.expires_at = "future"
    /\ r.attempt_count < r.max_attempts

Holds(r, w, token) ==
    /\ r.status = "sending"
    /\ r.worker_id = w
    /\ r.claim_token = token
    /\ r.lease_expires_at = "future"

\* EmailWorker._claimed: the fence every transaction of a delivery re-checks.
Fenced(t) == Holds(row[task[t].msg], WorkerOf[t], task[t].token)

-----------------------------------------------------------------------------
Init ==
    /\ row = [m \in Messages |-> NoRow("absent")]
    /\ valid = Messages
    /\ mode = [w \in Workers |-> "stopped"]
    /\ task = [t \in Tasks |-> Idle]
    /\ in_flight = {} /\ accepted = {} /\ waived = {} /\ unrecorded = {}

\* EmailOutboxService._enqueue, inside the caller's transaction.  The event
\* key is unique, so a second call for an event returns the stored row.
Enqueue(m) ==
    /\ row[m].status = "absent"
    /\ row' = [row EXCEPT ![m] = Queued]
    /\ UNCHANGED <<valid, mode, task, in_flight, history>>

\* The reset is used or superseded, the invitation used, revoked or expired.
Invalidate(m) ==
    /\ m \in valid
    /\ valid' = valid \ {m}
    /\ UNCHANGED <<row, mode, task, in_flight, history>>

\* Deleting the reset token or invitation cascades to the outbox row.
CascadeDelete(m) ==
    /\ row[m].status \notin {"absent", "deleted"}
    /\ row' = [row EXCEPT ![m] = NoRow("deleted")]
    /\ valid' = valid \ {m}
    /\ UNCHANGED <<mode, task, in_flight, history>>

-----------------------------------------------------------------------------
(* The clock.                                                              *)

BackoffPasses(m) ==
    /\ row[m].status = "pending" /\ row[m].available_at = "future"
    /\ row' = [row EXCEPT ![m].available_at = "past"]
    /\ UNCHANGED <<valid, mode, task, in_flight, history>>

EventExpires(m) ==
    /\ row[m].status \in {"pending", "sending", "failed"}
    /\ row[m].expires_at = "future"
    /\ row' = [row EXCEPT ![m].expires_at = "past"]
    /\ UNCHANGED <<valid, mode, task, in_flight, history>>

LeaseRunsOut(m) ==
    /\ row[m].lease_expires_at = "future"
    /\ row' = [row EXCEPT ![m].lease_expires_at = "past"]
    /\ UNCHANGED <<valid, mode, task, in_flight, history>>

RetentionPasses(m) ==
    /\ row[m].settled_at = "future"
    /\ row' = [row EXCEPT ![m].settled_at = "past"]
    /\ UNCHANGED <<valid, mode, task, in_flight, history>>

-----------------------------------------------------------------------------
(* The worker process.                                                     *)

Start(w) ==
    /\ mode[w] = "stopped"
    /\ mode' = [mode EXCEPT ![w] = "running"]
    /\ UNCHANGED <<row, valid, task, in_flight, history>>

\* The stop event is set, or pulse, recovery or a claim raised: the loop of
\* run ends and the process only drains the deliveries it has.
BeginDrain(w) ==
    /\ mode[w] = "running"
    /\ mode' = [mode EXCEPT ![w] = "draining"]
    /\ UNCHANGED <<row, valid, task, in_flight, history>>

Drained(w) ==
    /\ mode[w] = "draining"
    /\ \A t \in Tasks : WorkerOf[t] = w => task[t].pc = "idle"
    /\ mode' = [mode EXCEPT ![w] = "stopped"]
    /\ UNCHANGED <<row, valid, task, in_flight, history>>

\* The process dies, or drain_active_tasks cancels what outlives the grace
\* period.  The SMTP dialogue runs in a thread that cancellation does not
\* reach, and bytes already sent are not recalled by a crash.
Abandon(w) ==
    /\ mode[w] /= "stopped"
    /\ mode' = [mode EXCEPT ![w] = "stopped"]
    /\ task' = [t \in Tasks |-> IF WorkerOf[t] = w THEN Idle ELSE task[t]]
    /\ in_flight' = in_flight \cup
           {Claim(t) : t \in {u \in Tasks : /\ WorkerOf[u] = w
                                            /\ task[u].pc = "smtp"}}
    /\ UNCHANGED <<row, valid, history>>

\* EmailWorker.claim_next.  SKIP LOCKED may pass over rows other transactions
\* hold, so any claimable row can be the one taken.
ClaimNext(t, m) ==
    /\ mode[WorkerOf[t]] = "running"
    /\ task[t].pc = "idle"
    /\ Claimable(row[m])
    /\ row' = [row EXCEPT ![m] = Claimed(@, WorkerOf[t])]
    /\ task' = [task EXCEPT ![t] =
           [pc |-> "compose", msg |-> m, token |-> row[m].attempt_count + 1,
            code |-> "none"]]
    /\ UNCHANGED <<valid, mode, in_flight, history>>

Exhausted(r) == r.expires_at = "past" \/ r.attempt_count >= r.max_attempts

\* Mutant: recovery requeues a lease whose delivery had started.
RecoveredAlways(r) ==
    CASE r.status = "pending" /\ Exhausted(r) -> Failed(r, "permanent")
      [] r.status = "sending" /\ r.lease_expires_at = "past"
           -> IF Exhausted(r) THEN Failed(r, "permanent") ELSE Requeued(r)
      [] r.status \in {"sent", "failed"} /\ r.settled_at = "past"
           -> NoRow("deleted")
      [] OTHER -> r

\* Mutant: recovery overlooks leases whose delivery had started.
RecoveredUnstarted(r) ==
    IF r.status = "sending" /\ r.delivery_started_at = "past" THEN r ELSE RecoveredAlways(r)

\* Mutant: recovery does not ask whether the lease is still live.
RecoveredEarly(r) ==
    IF r.status = "sending" /\ r.delivery_started_at = "null"
      THEN Requeued(r) ELSE RecoveredUnstarted(r)

\* What one pass of recover_and_cleanup does to a row.  A row it settles has a
\* fresh failed_at, so the retention deletes at its end pass over it.
Recovered(r) ==
    CASE r.status = "pending" /\ Exhausted(r) -> Failed(r, "permanent")
      [] r.status = "sending" /\ r.lease_expires_at = "past"
           -> IF r.delivery_started_at = "past"
                THEN Failed(r, "smtp_delivery_ambiguous")
              ELSE IF Exhausted(r) THEN Failed(r, "permanent") ELSE Requeued(r)
      [] r.status \in {"sent", "failed"} /\ r.settled_at = "past"
           -> NoRow("deleted")
      [] OTHER -> r

\* EmailWorker.recover_and_cleanup: one transaction over a batch of the rows;
\* LIMIT 100 and SKIP LOCKED leave the others to a later pass.
RecoverAndCleanup(w) ==
    /\ mode[w] = "running"
    /\ \E batch \in SUBSET Messages :
           /\ \E m \in batch : Recovered(row[m]) /= row[m]
           /\ row' = [m \in Messages |->
                         IF m \in batch THEN Recovered(row[m]) ELSE row[m]]
    /\ UNCHANGED <<valid, mode, task, in_flight, history>>

-----------------------------------------------------------------------------
(* One delivery: EmailWorker._process_claim.                               *)

Goto(t, pc) == task' = [task EXCEPT ![t].pc = pc]

Raise(t, code) ==
    task' = [task EXCEPT ![t].pc = "finish_failure", ![t].code = code]

\* EmailLeaseLost in any transaction of the delivery: leave quietly.
LeaseLost(t) ==
    /\ task[t].pc \in {"compose", "mark", "finish_success", "finish_failure"}
    /\ ~Fenced(t)
    /\ task' = [task EXCEPT ![t] = Idle]
    /\ UNCHANGED <<row, valid, mode, in_flight, history>>

\* The first transaction reads the row and renders it, or finds that the
\* event expired or its reset or invitation is no longer usable.
Compose(t) ==
    /\ task[t].pc = "compose"
    /\ Fenced(t)
    /\ IF \/ row[task[t].msg].expires_at = "past"
          \/ task[t].msg \notin valid
         THEN Raise(t, "permanent")
         ELSE Goto(t, "mark")
    /\ UNCHANGED <<row, valid, mode, in_flight, history>>

MarkDeliveryStarted(t) ==
    /\ task[t].pc = "mark"
    /\ Fenced(t)
    /\ row' = [row EXCEPT ![task[t].msg].delivery_started_at = "past"]
    /\ Goto(t, "smtp")
    /\ UNCHANGED <<valid, mode, in_flight, history>>

RelayAccepts(t) ==
    /\ task[t].pc = "smtp"
    /\ accepted' = accepted \cup {Claim(t)}
    /\ Goto(t, "accepted")
    /\ UNCHANGED <<row, valid, mode, in_flight, waived, unrecorded>>

SendReturns(t) ==
    /\ task[t].pc = "accepted"
    /\ Goto(t, "finish_success")
    /\ UNCHANGED <<row, valid, mode, in_flight, history>>

\* Connection, TLS or authentication failed, or the relay refused the mail:
\* 4xx, and failures to connect, are retryable, the others final.
SendFails(t) ==
    /\ task[t].pc = "smtp"
    /\ \E code \in {"transient", "permanent"} : Raise(t, code)
    /\ UNCHANGED <<row, valid, mode, in_flight, history>>

\* Disconnect or timeout in the delivery stage: the relay may have accepted
\* the mail already, or may yet accept the bytes it received.
SendInterrupted(t) ==
    /\ task[t].pc \in {"smtp", "accepted"}
    /\ in_flight' = IF task[t].pc = "smtp" THEN in_flight \cup {Claim(t)}
                                           ELSE in_flight
    /\ Raise(t, "smtp_delivery_ambiguous")
    /\ UNCHANGED <<row, valid, mode, history>>

\* A send nobody waits for reaches the relay after all.
LateAcceptance(c) ==
    /\ c \in in_flight
    /\ in_flight' = in_flight \ {c}
    /\ accepted' = accepted \cup {c}
    /\ UNCHANGED <<row, valid, mode, task, waived, unrecorded>>

FinishSuccess(t) ==
    /\ task[t].pc = "finish_success"
    /\ Fenced(t)
    /\ row' = [row EXCEPT ![task[t].msg] = Sent(@)]
    /\ task' = [task EXCEPT ![t] = Idle]
    /\ UNCHANGED <<valid, mode, in_flight, history>>

CanRetry(r, code) ==
    /\ code = "transient"
    /\ r.attempt_count < r.max_attempts
    /\ r.expires_at = "future"

FinishFailure(t) ==
    /\ task[t].pc = "finish_failure"
    /\ Fenced(t)
    /\ row' = [row EXCEPT ![task[t].msg] =
                  IF CanRetry(@, task[t].code)
                    THEN Requeued(@)
                    ELSE Failed(@, task[t].code)]
    /\ task' = [task EXCEPT ![t] = Idle]
    /\ UNCHANGED <<valid, mode, in_flight, history>>

\* A database error rolls the transaction back.  The generic handler turns it
\* into a retryable failure, whichever transaction it was; in the handler's
\* own transaction it ends the coroutine and leaves the row to its lease.
DatabaseError(t) ==
    /\ task[t].pc \in {"compose", "mark", "finish_success", "finish_failure"}
    /\ IF task[t].pc = "finish_failure"
         THEN task' = [task EXCEPT ![t] = Idle]
         ELSE Raise(t, "transient")
    /\ unrecorded' = IF task[t].pc = "finish_success"
                       THEN unrecorded \cup {Claim(t)} ELSE unrecorded
    /\ UNCHANGED <<row, valid, mode, in_flight, accepted, waived>>

-----------------------------------------------------------------------------
(* The operator: python -m app.cli retry-email [--allow-ambiguous].        *)

\* Mutant: the command does not ask about an ambiguous failure.
MayRetryUnasked(r, allow_ambiguous) ==
    /\ r.status = "failed"
    /\ r.expires_at = "future"
    /\ r.attempt_count < r.max_attempts \/ r.max_attempts < AttemptCeiling

MayRetry(r, allow_ambiguous) ==
    /\ r.status = "failed"
    /\ r.expires_at = "future"
    /\ r.last_error_code = "smtp_delivery_ambiguous" => allow_ambiguous
    /\ r.attempt_count < r.max_attempts \/ r.max_attempts < AttemptCeiling

RetryEmail(m, allow_ambiguous) ==
    /\ MayRetry(row[m], allow_ambiguous)
    /\ row' = [row EXCEPT ![m] = Reopened(@)]
    /\ waived' = IF row[m].last_error_code = "smtp_delivery_ambiguous" /\ allow_ambiguous
                   THEN waived \cup {<<m, row[m].attempt_count>>} ELSE waived
    /\ UNCHANGED <<valid, mode, task, in_flight, accepted, unrecorded>>

-----------------------------------------------------------------------------
Clock(m) ==
    BackoffPasses(m) \/ EventExpires(m) \/ LeaseRunsOut(m) \/ RetentionPasses(m)

Deliver(t) ==
    \/ LeaseLost(t) \/ Compose(t) \/ MarkDeliveryStarted(t)
    \/ RelayAccepts(t) \/ SendReturns(t) \/ SendFails(t) \/ SendInterrupted(t)
    \/ FinishSuccess(t) \/ FinishFailure(t) \/ DatabaseError(t)

Next ==
    \/ \E m \in Messages : Enqueue(m) \/ Invalidate(m) \/ CascadeDelete(m)
    \/ \E m \in Messages : Clock(m)
    \/ \E m \in Messages, allow \in BOOLEAN : RetryEmail(m, allow)
    \/ \E w \in Workers : \/ Start(w) \/ BeginDrain(w) \/ Drained(w)
                          \/ Abandon(w) \/ RecoverAndCleanup(w)
    \/ \E t \in Tasks, m \in Messages : ClaimNext(t, m)
    \/ \E t \in Tasks : Deliver(t)
    \/ \E c \in in_flight : LateAcceptance(c)

Spec == Init /\ [][Next]_vars

\* Coroutines are scheduled and SMTP calls time out, deadlines pass, a stopped
\* process is restarted and its loop runs a recovery pass periodically.
Fairness ==
    /\ \A t \in Tasks : WF_vars(Deliver(t))
    /\ \A m \in Messages : WF_vars(LeaseRunsOut(m)) /\ WF_vars(EventExpires(m))
    /\ \A w \in Workers : WF_vars(Start(w)) /\ WF_vars(RecoverAndCleanup(w))

FairSpec == Spec /\ Fairness

-----------------------------------------------------------------------------
(* Properties.                                                             *)

\* Every variable keeps its type.
TypeOK ==
    /\ row \in [Messages -> Row]
    /\ valid \subseteq Messages
    /\ mode \in [Workers -> {"running", "draining", "stopped"}]
    /\ task \in [Tasks -> Task]
    /\ \A t \in Tasks : task[t].pc /= "idle" => task[t].msg \in Messages
    /\ in_flight \subseteq Messages \X Nat
    /\ accepted \subseteq Messages \X Nat
    /\ waived \subseteq Messages \X Nat
    /\ unrecorded \subseteq Messages \X Nat

\* No handler ever asks PostgreSQL to store a row its CHECK constraints refuse:
\* claim columns are set exactly while sending, and attempts stay within the
\* row's limit and the hard ceiling.  A breach would abort the transaction.
CheckConstraints ==
    \A m \in Messages :
        LET r == row[m] IN
        /\ (r.status = "sending") <=> (r.lease_expires_at /= "null")
        /\ (r.status = "sending") <=> (r.worker_id /= None)
        /\ (r.status = "sending") <=> (r.claim_token /= 0)
        /\ r.attempt_count <= r.max_attempts
        /\ r.max_attempts <= AttemptCeiling

\* The relay has accepted the mail of this claim, or still may.
Exposed(c) ==
    \/ c \in accepted \cup in_flight
    \/ \E t \in Tasks : task[t].pc = "smtp" /\ Claim(t) = c

\* The duplicate risk of this claim was taken knowingly by the operator, or the
\* database refused to record its success.
Excused(c) == c \in waived \cup unrecorded

\* Two claims of one message reach the relay only if the earlier one's doubt
\* was accepted by the operator, or its success could not be recorded: leases,
\* recovery, crashes and cancelled coroutines never cause a second mail.
NoUnexcusedDuplicate ==
    \A m \in Messages : \A j, k \in 1..AttemptCeiling :
        (j < k /\ Exposed(<<m, j>>) /\ Exposed(<<m, k>>)) => Excused(<<m, j>>)

\* A row says "sent" only if the relay accepted the mail of its last claim.
SentWasAccepted ==
    \A m \in Messages :
        row[m].status = "sent" => <<m, row[m].attempt_count>> \in accepted

\* While a claim is live only the delivery that holds it settles the row, or
\* the deletion of the event it belongs to: recovery, the operator and stale
\* deliveries leave it alone.
OnlyHolderSettles ==
    [][\A m \in Messages :
         (/\ row[m].status = "sending" /\ row[m].lease_expires_at = "future"
          /\ row'[m].status \notin {"sending", "deleted"})
         => \E t \in Tasks : /\ Claim(t) = <<m, row[m].claim_token>>
                             /\ task[t].pc \in {"finish_success", "finish_failure"}
                             /\ task'[t] = Idle]_vars

\* The mail promised for each event, seen without workers and leases: a claim
\* that is excused is one risk taken, a claim the relay accepted is one copy.
Attempts(m, claims) == {k \in 1..AttemptCeiling : <<m, k>> \in claims}

Delivery ==
    INSTANCE EmailDelivery WITH
        phase <- [m \in Messages |->
                    CASE row[m].status = "absent" -> "none"
                      [] row[m].status \in {"pending", "sending"} -> "open"
                      [] row[m].status = "sent" -> "delivered"
                      [] row[m].status = "failed" -> "failed"
                      [] OTHER -> "gone"],
        copies <- [m \in Messages |-> Cardinality(Attempts(m, accepted))],
        risks <- [m \in Messages |->
                    Cardinality(Attempts(m, waived \cup unrecorded))]

\* The outbox implements the delivery promise.
ImplementsDelivery == Delivery!DeliverySpec

\* A claim is never put back in the queue, by a worker or by recovery, once the
\* relay may have accepted its mail (ADR-010-transactional-email.md:34 "avoids
\* automatically resending an email the relay may already have accepted").
NoAutomaticResend ==
    [][\A m \in Messages :
         (row[m].status = "sending" /\ row'[m].status = "pending")
         => ~Exposed(<<m, row[m].attempt_count>>)]_vars

\* As soon as the workers stop crashing and being redeployed, every queued or
\* claimed message is settled: sent, failed, or gone with its event.
EventuallySettled ==
    (<>[](\A w \in Workers : mode[w] = "running")) =>
        \A m \in Messages :
            (row[m].status \in {"pending", "sending"})
                ~> (row[m].status \in {"sent", "failed", "deleted"})

=============================================================================
