-------------------------- MODULE RequestLimiter --------------------------
(***************************************************************************)
(* RateLimitService.hit of services/rate_limit.py: one fixed-window bucket *)
(* in PostgreSQL, hit by several API processes before their handlers run.  *)
(* Buckets of other scopes and clients are independent of this one.        *)
(***************************************************************************)
EXTENDS Naturals

CONSTANTS Callers,     \* requests that hit the bucket
          Window,      \* window_seconds, in ticks
          MaxTime,     \* bound on the clock
          MaxHits      \* bound on the hits of a window

ASSUME LimiterAssumption == Window \in Nat \ {0} /\ {MaxTime, MaxHits} \subseteq Nat

VARIABLES now,
          bucket,   \* the row: count 0 where there is none
          call,     \* the transactions in progress
          hits      \* history: hits committed since the row's window started

lvars == <<now, bucket, call, hits>>

NoBucket == [count |-> 0, start |-> 0]
AtRest   == [pc |-> "idle", attempt |-> 0, read |-> NoBucket]

LInit ==
  /\ now = 0
  /\ bucket = NoBucket
  /\ call = [x \in Callers |-> AtRest]
  /\ hits = 0

Exists == bucket.count > 0
Over(b) == b.start + Window <= now

\* Mutant: the row is read without with_for_update().
Unlocked == FALSE

Locked == \E x \in Callers : call[x].pc = "locked"

\* SELECT ... FOR UPDATE: there is nothing to lock before the first hit.
Read(x, n) ==
  call' = [call EXCEPT ![x] =
    IF Exists THEN [pc |-> "locked", attempt |-> n, read |-> bucket]
    ELSE [pc |-> "missing", attempt |-> n, read |-> NoBucket]]

\* The flushed row is unique_rate_limit_bucket's: another insert waits for it.
Insert(x) ==
  /\ call[x].pc = "missing"
  /\ \A y \in Callers : call[y].pc # "inserted"
  /\ IF ~Exists THEN call' = [call EXCEPT ![x].pc = "inserted"]
     ELSE IF call[x].attempt = 1 THEN call' = [call EXCEPT ![x].pc = "again"]
     ELSE call' = [call EXCEPT ![x] = AtRest]    \* IntegrityError to the client
  /\ UNCHANGED <<now, bucket, hits>>

CommitInsert(x) ==
  /\ call[x].pc = "inserted"
  /\ bucket' = [count |-> 1, start |-> now]
  /\ hits' = 1
  /\ call' = [call EXCEPT ![x] = AtRest]
  /\ UNCHANGED now

Enter(x) ==
  /\ call[x] = AtRest /\ ~Locked
  /\ hits < MaxHits \/ Over(bucket)
  /\ Read(x, 1)
  /\ UNCHANGED <<now, bucket, hits>>

\* The second of two first hits starts over in a new transaction.
Retry(x) ==
  /\ call[x].pc = "again" /\ ~Locked
  /\ Read(x, 2)
  /\ UNCHANGED <<now, bucket, hits>>

CommitCount(x) ==
  LET b == call[x].read IN
  /\ call[x].pc = "locked"
  /\ bucket' = IF Over(b) THEN [count |-> 1, start |-> now]
               ELSE [b EXCEPT !.count = @ + 1]
  /\ hits' = IF Over(bucket) THEN 1 ELSE hits + 1
  /\ call' = [call EXCEPT ![x] = AtRest]
  /\ UNCHANGED now

Abort(x) ==
  /\ call[x] # AtRest
  /\ call' = [call EXCEPT ![x] = AtRest]
  /\ UNCHANGED <<now, bucket, hits>>

\* cleanup_retention removes a bucket nobody has hit for days.
Purge ==
  /\ Exists /\ ~Locked /\ Over(bucket)
  /\ bucket' = NoBucket
  /\ hits' = 0
  /\ UNCHANGED <<now, call>>

Tick ==
  /\ now < MaxTime
  /\ now' = now + 1
  /\ UNCHANGED <<bucket, call, hits>>

LNext ==
  \/ \E x \in Callers : \/ Enter(x) \/ Insert(x) \/ CommitInsert(x)
                        \/ Retry(x) \/ CommitCount(x) \/ Abort(x)
  \/ Purge
  \/ Tick

LSpec == LInit /\ [][LNext]_lvars

----------------------------------------------------------------------------
\* No hit is lost: the counter that admits or refuses is the number of hits of
\* its window, also when two first hits insert the bucket at once, when hits
\* overlap the end of a window, and when a process dies in the middle of one.
NoHitLost == bucket.count = hits
=============================================================================
