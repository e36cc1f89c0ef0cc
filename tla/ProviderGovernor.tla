------------------------- MODULE ProviderGovernor -------------------------
(***************************************************************************)
(* The rolling window of requests and input tokens that the coroutines of  *)
(* a worker share (ProviderRateGovernor), and the retry loops around it    *)
(* (_RetryingProvider, OpenAICompatibleEmbeddingProvider).                 *)
(*                                                                         *)
(* A coroutine runs from one await that suspends to the next in one step.  *)
(* The lock of the condition never suspends: nobody holds it across an     *)
(* await, so taking it is part of the step.  Time is kept as the age of    *)
(* reservations and the countdown of timers, which Tick moves.             *)
(***************************************************************************)
EXTENDS Integers, Sequences, SequencesExt, FiniteSets

CONSTANTS
    Callers,            \* coroutines that ask for capacity
    Embedders,          \* those of them that call an embedding model
    RequestsPerMinute,  \* profile.requests_per_minute, 0 without a limit
    TokensPerMinute,    \* profile.input_tokens_per_minute, 0 without a limit
    SafetyPercent,      \* profile.rate_limit_safety_percent
    Window,             \* window_seconds
    MaxRetries,         \* profile.max_retries
    RetryBase,          \* profile.retry_base_seconds
    RetryMax,           \* profile.retry_max_seconds
    Estimates,          \* bound of the model: input tokens of a request
    Usages,             \* bound of the model: input tokens a provider reports
    Hints,              \* bound of the model: seconds of a Retry-After
    Absent

ASSUME GovernorAssumption ==
    /\ Embedders \subseteq Callers
    /\ {RequestsPerMinute, TokensPerMinute, MaxRetries, RetryBase, RetryMax} \subseteq Nat
    /\ SafetyPercent \in 1 .. 100 /\ Window \in Nat \ {0}
    /\ Estimates \subseteq Nat /\ Usages \subseteq Nat /\ Hints \subseteq Nat

VARIABLES
    reservations,  \* _reservations, oldest first
    waiters,       \* _waiters, the tickets in their order
    changed,       \* _capacity_changed is set
    caller,        \* the coroutines
    ledger         \* history: what was admitted less than a window ago

governor_vars == <<reservations, waiters, changed, caller, ledger>>

AtLeast(x, y) == IF x < y THEN y ELSE x

\* _effective_limit
EffectiveLimit(configured) ==
    IF configured = 0 THEN 0 ELSE AtLeast((configured * SafetyPercent) \div 100, 1)

RequestsPerWindow == EffectiveLimit(RequestsPerMinute)

TokensPerWindow == EffectiveLimit(TokensPerMinute)

\* How a call ends in an error, and which of them are worth a retry.
Failure == {"timeout", "network", "http_400", "http_401", "http_403", "http_404",
            "http_429", "http_408", "http_5xx", "http_other", "unclassified",
            "invalid_output"}

Retryable == {"timeout", "network", "http_429", "http_408", "http_5xx", "unclassified"}

\* The failures that may carry a Retry-After.
Hinted == {"http_429", "http_408", "http_5xx"}

\* by: the call that may still correct the tokens.
Reservation == [by : Callers \cup {Absent}, tokens : Nat, age : 0 .. Window]

\* idle: between two calls of the pipeline; queued: parked on the condition;
\* capacity: the head, waiting for the timer or for changed; calling: the
\* request is out; backoff: asleep before the next attempt.
Caller == [pc : {"idle", "queued", "capacity", "calling", "backoff"},
           tokens : Estimates \cup {0}, attempt : 0 .. MaxRetries, timer : Nat,
           woken : BOOLEAN]

Idle == [pc |-> "idle", tokens |-> 0, attempt |-> 0, timer |-> 0, woken |-> FALSE]

GovernorInit ==
    /\ reservations = <<>> /\ ledger = <<>> /\ waiters = <<>>
    /\ changed = FALSE
    /\ caller = [c \in Callers |-> Idle]

-----------------------------------------------------------------------------
(* The governor                                                            *)

Charge(rs) == FoldLeft(LAMBDA sum, r : sum + r.tokens, 0, rs)

\* The oldest reservations go, up to the first that is younger than n.
WithoutOld(rs, n) ==
    SubSeq(rs, CHOOSE i \in 1 .. Len(rs) + 1 :
                   /\ \A k \in 1 .. i - 1 : rs[k].age >= n
                   /\ i <= Len(rs) => rs[i].age < n,
           Len(rs))

\* Mutant: a reservation leaves the window one unit early.
PrunedEarly(rs) == WithoutOld(rs, Window - 1)

\* _prune
Pruned(rs) == WithoutOld(rs, Window)

Left(r) == Window - r.age

\* _required_delay for n tokens: the oldest request has to leave, and as many
\* reservations as free the tokens.
RequiredDelay(rs, n) ==
    LET requests ==
            IF RequestsPerWindow > 0 /\ Len(rs) >= RequestsPerWindow
              THEN Left(rs[1]) ELSE 0
        Frees(i) == Charge(SubSeq(rs, i + 1, Len(rs))) + n <= TokensPerWindow
        tokens ==
            IF TokensPerWindow = 0 \/ Charge(rs) + n <= TokensPerWindow THEN 0
            ELSE Left(rs[CHOOSE i \in 1 .. Len(rs) :
                            Frees(i) /\ \A k \in 1 .. i - 1 : ~Frees(k)])
    IN AtLeast(requests, tokens)

\* notify_all: whoever is parked on the condition looks again.
NotifyAll(cs) ==
    [c \in Callers |-> IF cs[c].pc = "queued" THEN [cs[c] EXCEPT !.woken = TRUE]
                                              ELSE cs[c]]

\* What a coroutine does with its ticket in the queue q: it is admitted, waits
\* for capacity as the head, or parks.
Look(c, q, me) ==
    LET rs == Pruned(reservations)
        delay == RequiredDelay(rs, me.tokens)
        entry == [by |-> c, tokens |-> me.tokens, age |-> 0]
        cs == [caller EXCEPT ![c] = me]
    IN
    \/ /\ Head(q) = c /\ delay <= 0
       /\ reservations' = Append(rs, entry)
       /\ ledger' = Append(ledger, entry)
       /\ waiters' = Tail(q)
       /\ caller' = NotifyAll([cs EXCEPT ![c].pc = "calling", ![c].timer = 0])
       /\ UNCHANGED changed
    \/ /\ Head(q) = c /\ delay > 0
       /\ reservations' = rs
       /\ changed' = FALSE
       /\ waiters' = q
       /\ caller' = [cs EXCEPT ![c].pc = "capacity", ![c].timer = delay]
       /\ UNCHANGED ledger
    \/ /\ Head(q) # c
       /\ waiters' = q
       /\ caller' = [cs EXCEPT ![c].pc = "queued", ![c].woken = FALSE,
                               ![c].timer = 0]
       /\ UNCHANGED <<reservations, changed, ledger>>

\* A request that can never fit is refused before it takes a ticket.
Fits(n) == TokensPerWindow = 0 \/ n <= TokensPerWindow

\* The call a pipeline, an indexer or an answer worker makes.
Reserve(c, n) ==
    /\ caller[c].pc = "idle" /\ Fits(n)
    /\ Look(c, Append(waiters, c), [Idle EXCEPT !.tokens = n])

Resume(c) ==
    /\ \/ caller[c].pc = "queued" /\ caller[c].woken
       \/ caller[c].pc = "capacity" /\ (caller[c].timer = 0 \/ changed)
    /\ Look(c, waiters, caller[c])

\* A call lets go of its reservation, with the tokens n.
Settled(rs, c, n) ==
    [i \in 1 .. Len(rs) |-> IF rs[i].by = c
                              THEN [rs[i] EXCEPT !.by = Absent, !.tokens = n] ELSE rs[i]]

\* commit replaces the estimate by what the provider counted; the reservation
\* may have left the window.
Commit(c, n, me) ==
    /\ reservations' = Settled(reservations, c, n)
    /\ ledger' = Settled(ledger, c, n)
    /\ changed' = TRUE
    /\ caller' = NotifyAll([caller EXCEPT ![c] = me])
    /\ UNCHANGED waiters

\* The call ends without a commit: its estimate stays charged.
Abandon(c, me) ==
    /\ reservations' = Settled(reservations, c, caller[c].tokens)
    /\ ledger' = Settled(ledger, c, caller[c].tokens)
    /\ caller' = [caller EXCEPT ![c] = me]
    /\ UNCHANGED <<waiters, changed>>

\* Mutant: the ticket is taken out and nobody is told.
WithdrawnQuietly(c, me) ==
    /\ waiters' = SelectSeq(waiters, LAMBDA w : w # c)
    /\ caller' = [caller EXCEPT ![c] = me]
    /\ UNCHANGED <<reservations, ledger, changed>>

\* The finally of reserve: a ticket that was not admitted is taken out.
Withdrawn(c, me) ==
    /\ waiters' = SelectSeq(waiters, LAMBDA w : w # c)
    /\ changed' = TRUE
    /\ caller' = NotifyAll([caller EXCEPT ![c] = me])
    /\ UNCHANGED <<reservations, ledger>>

-----------------------------------------------------------------------------
(* The retry loops                                                         *)

\* What the vectors of a request are charged: what the service counted, or the
\* estimate when it counts nothing, as Gemini never does.
VectorUsage(estimate) == Usages \cup {estimate}

\* The input tokens a call that succeeds reports.
Reported(c) == IF c \in Embedders THEN VectorUsage(caller[c].tokens) ELSE Usages

\* The input tokens an error carries: output that is blocked, unfinished, empty
\* or of the wrong schema was counted and paid, if the service says so.  The
\* embedding loop never looks.
ErrorUsage(c, failure) ==
    IF failure = "invalid_output" /\ c \notin Embedders THEN Usages \cup {Absent} ELSE {Absent}

CallReturns(c) ==
    /\ caller[c].pc = "calling"
    /\ \E n \in Reported(c) : Commit(c, n, Idle)

\* A retry waits at least as long as the provider asked for, and a provider that
\* asks for too long is left alone.
Backoff(hint) == AtLeast(RetryBase, hint)

\* A call that was cut off or refused keeps its estimate.
CallFails(c, failure, hint) ==
    LET again == /\ failure \in Retryable
                 /\ caller[c].attempt < MaxRetries
                 /\ Backoff(hint) <= RetryMax
        me == IF again THEN [caller[c] EXCEPT !.pc = "backoff", !.attempt = @ + 1,
                                              !.timer = Backoff(hint)]
                       ELSE Idle
    IN
    /\ caller[c].pc = "calling"
    /\ hint # 0 => failure \in Hinted
    /\ \E n \in ErrorUsage(c, failure) :
           IF n = Absent THEN Abandon(c, me) ELSE Commit(c, n, me)

\* The next attempt takes a new ticket.
Retry(c) ==
    /\ caller[c].pc = "backoff" /\ caller[c].timer = 0
    /\ Look(c, Append(waiters, c), caller[c])

\* The job timed out, was cancelled or drained; what was admitted stays charged.
Cancelled(c) ==
    \/ /\ caller[c].pc \in {"queued", "capacity"}
       /\ Withdrawn(c, Idle)
    \/ /\ caller[c].pc \in {"calling", "backoff"}
       /\ Abandon(c, Idle)

Older(rs) == [i \in 1 .. Len(rs) |->
                 [rs[i] EXCEPT !.age = IF @ < Window THEN @ + 1 ELSE @]]

\* History: the admissions that are a window old now, the first of the ledger.
Expired == {i \in DOMAIN ledger : ledger[i].age = Window - 1}

Tick ==
    /\ reservations' = Older(reservations)
    /\ ledger' = SubSeq(Older(ledger), Cardinality(Expired) + 1, Len(ledger))
    /\ caller' = [c \in Callers |->
                     [caller[c] EXCEPT !.timer = IF @ > 0 THEN @ - 1 ELSE 0]]
    /\ UNCHANGED <<waiters, changed>>

-----------------------------------------------------------------------------
GovernorNext ==
    \/ \E c \in Callers, n \in Estimates : Reserve(c, n)
    \/ \E c \in Callers : Resume(c) \/ CallReturns(c) \/ Retry(c) \/ Cancelled(c)
    \/ \E c \in Callers, failure \in Failure, hint \in Hints \cup {0} :
           CallFails(c, failure, hint)
    \/ Tick

GovernorSpec == GovernorInit /\ [][GovernorNext]_governor_vars

\* The event loop resumes whoever is runnable, and time passes.  Nothing is
\* assumed of the providers: a call may last for ever, and so may the job.
Fairness ==
    /\ \A c \in Callers : WF_governor_vars(Resume(c)) /\ WF_governor_vars(Retry(c))
    /\ WF_governor_vars(Tick)

FairSpec == GovernorSpec /\ Fairness

-----------------------------------------------------------------------------
(* Properties                                                              *)

Waiting(c) == caller[c].pc \in {"queued", "capacity"}

\* The variables keep their types; the queue holds the tickets of the waiting
\* coroutines, each once, and its head is not asleep on the condition.
TypeOK ==
    /\ reservations \in Seq(Reservation) /\ ledger \in Seq(Reservation)
    /\ changed \in BOOLEAN /\ caller \in [Callers -> Caller]
    /\ Len(waiters) <= Len(SetToSeq(Callers))
    /\ {waiters[i] : i \in DOMAIN waiters} = {c \in Callers : Waiting(c)}
    /\ \A i, k \in DOMAIN waiters : waiters[i] = waiters[k] => i = k
    /\ waiters # <<>> /\ caller[Head(waiters)].pc = "queued"
           => caller[Head(waiters)].woken

\* Whenever a request leaves, the requests and the charges of the window that
\* ends with it are within the limits, whatever was cancelled, corrected or
\* retried before (reserve, _prune, _required_delay, _commit).
AdmissionsFit ==
    [][\A c \in Callers :
          caller[c].pc # "calling" /\ caller'[c].pc = "calling" =>
              /\ RequestsPerWindow > 0 => Len(ledger') <= RequestsPerWindow
              /\ TokensPerWindow > 0 => Charge(ledger') <= TokensPerWindow]_governor_vars

\* Whoever waits for capacity is admitted or gives up: no wake-up is lost, though
\* coroutines ahead are cancelled and the usage of others was underestimated
\* (reserve, _wait_for_capacity_change).
EveryoneServed == \A c \in Callers : Waiting(c) ~> ~Waiting(c)

=============================================================================
