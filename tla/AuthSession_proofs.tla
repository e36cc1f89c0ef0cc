------------------------- MODULE AuthSession_proofs -------------------------
(***************************************************************************)
(* Theorems of the accounts and of the request limiter in front of them,   *)
(* for any number of users, sessions, tokens, invitations and requests at  *)
(* once.                                                                   *)
(***************************************************************************)
EXTENDS AuthSession, RequestLimiter, FiniteSetTheorems, TLAPS

-----------------------------------------------------------------------------
(* The request limiter.                                                    *)

Bucket == [count : Nat, start : Nat]
Call == [pc : {"idle", "missing", "inserted", "again", "locked"},
         attempt : 0 .. 2, read : Bucket]

LType ==
    /\ now \in Nat
    /\ bucket \in Bucket
    /\ call \in [Callers -> Call]
    /\ hits \in Nat

\* The row lock: its one holder knows the row as it is.
LockHolder ==
    \A x \in Callers :
        call[x].pc = "locked" =>
            /\ Exists /\ call[x].read = bucket
            /\ \A y \in Callers : call[y].pc = "locked" => y = x

\* The unique index: one caller has flushed a first hit, and nobody committed
\* one before it.
OneInsert ==
    \A x \in Callers :
        call[x].pc = "inserted" =>
            /\ ~Exists
            /\ \A y \in Callers : call[y].pc = "inserted" => y = x

LInv == LType /\ LockHolder /\ OneInsert /\ NoHitLost

LEMMA LimiterInit == LInit => LInv
  BY DEF LInit, LInv, LType, LockHolder, OneInsert, NoHitLost, NoBucket, AtRest,
     Bucket, Call, Exists

LEMMA LimiterInductive == LInv /\ [LNext]_lvars => LInv'
  <1> SUFFICES ASSUME LInv, [LNext]_lvars PROVE LInv'
    OBVIOUS
  <1> USE LimiterAssumption DEF LInv, LType, LockHolder, OneInsert, NoHitLost
  <1>0. NoBucket \in Bucket /\ AtRest \in Call /\ AtRest.pc = "idle"
        /\ NoBucket.count = 0
    BY DEF NoBucket, AtRest, Bucket, Call
  <1>1. CASE UNCHANGED lvars
    BY <1>1 DEF lvars, Exists
  <1>2. ASSUME NEW x \in Callers, NEW n \in 1 .. 2, ~Locked, Read(x, n),
               UNCHANGED <<now, bucket, hits>>
        PROVE LInv'
    <2> DEFINE c == IF Exists THEN [pc |-> "locked", attempt |-> n, read |-> bucket]
                    ELSE [pc |-> "missing", attempt |-> n, read |-> NoBucket]
    <2>1. c \in Call /\ c.pc = (IF Exists THEN "locked" ELSE "missing")
          /\ (Exists => c.read = bucket)
      BY <1>0, <1>2 DEF Call
    <2>2. call' = [call EXCEPT ![x] = c]
      BY <1>2 DEF Read
    <2> HIDE DEF c
    <2> QED BY <1>2, <2>1, <2>2 DEF Locked, Exists
  <1>3. ASSUME NEW x \in Callers, Insert(x) PROVE LInv'
    BY <1>0, <1>3 DEF Insert, Exists, Call
  <1>4. ASSUME NEW x \in Callers, CommitInsert(x) PROVE LInv'
    BY <1>0, <1>4 DEF CommitInsert, Exists, Bucket
  <1>5. ASSUME NEW x \in Callers, CommitCount(x) PROVE LInv'
    <2>1. bucket' \in Bucket /\ bucket'.count = hits'
          /\ bucket'.count > 0
      BY <1>5 DEF CommitCount, Bucket, Call, Over
    <2>2. /\ call' = [call EXCEPT ![x] = AtRest]
          /\ now' = now /\ call[x].pc = "locked"
      BY <1>5 DEF CommitCount
    <2>3. hits' \in Nat
      BY <1>5 DEF CommitCount
    <2> QED BY <1>0, <2>1, <2>2, <2>3 DEF Exists
  <1>6. ASSUME NEW x \in Callers, Abort(x) PROVE LInv'
    BY <1>0, <1>6 DEF Abort, Exists
  <1>7. CASE Purge
    BY <1>0, <1>7 DEF Purge, Locked, Exists
  <1>8. CASE Tick
    BY <1>8 DEF Tick, Exists
  <1>9. ASSUME NEW x \in Callers, Enter(x) \/ Retry(x) PROVE LInv'
    BY <1>2, <1>9 DEF Enter, Retry
  <1> QED
    BY <1>1, <1>3, <1>4, <1>5, <1>6, <1>7, <1>8, <1>9 DEF LNext

\* No hit of a window is ever lost, however many requests arrive at once.
THEOREM HitsCounted == LSpec => []NoHitLost
  <1>1. LInv => NoHitLost
    BY DEF LInv
  <1> QED BY <1>1, LimiterInit, LimiterInductive, PTL DEF LSpec

-----------------------------------------------------------------------------
(* Accounts: the types the induction works with.                           *)

Pc == {"idle", "authenticated", "rotating", "replaying", "forgetting", "issuing",
       "resetting", "revoking", "registering", "wanting", "consuming", "enrolling"}

\* The transactions that carry an address and an invitation, or an address.
OfInvite == {"registering", "wanting", "consuming", "enrolling"}
OfUser == OfInvite \cup {"authenticated", "forgetting", "issuing", "resetting",
                      "revoking"}

Request == [pc : Pc, user : Users \cup {Nobody}, item : Sessions \cup Invites \cup {0},
            token : 0 .. MaxTokens, pw : Nat, held : SUBSET Resets,
            ends : SUBSET Sessions, prior : SUBSET Sessions]

Account == [here : BOOLEAN, pw : Nat]
Session == [state : {"none", "open", "revoked", "reused", "removed"},
            user : Users \cup {Nobody}, token : 0 .. MaxTokens,
            pw : Nat, late : BOOLEAN, lapsed : BOOLEAN]
Reset   == [state : {"none", "unused", "used", "removed"},
            user : Users \cup {Nobody}, lapsed : BOOLEAN]
Invite  == [state : {"none", "open", "used", "removed"},
            by : Users \cup {Nobody}, to : Users \cup {Nobody}, lapsed : BOOLEAN]

\* TypeOK without the bound on password numbers, and the request of each slot.
Types ==
    /\ account \in [Users -> Account]
    /\ session \in [Sessions -> Session]
    /\ reset \in [Resets -> Reset]
    /\ \A t \in Resets : reset[t].state = "unused" => reset[t].user \in Users
    /\ invite \in [Invites -> Invite]
    /\ enrolled \subseteq Users
    /\ req \in [Slots -> Request]
    /\ \A x \in Slots :
           /\ req[x].pc \in OfUser => req[x].user \in Users
           /\ req[x].pc \in OfInvite => req[x].item \in Invites
           /\ req[x].pc \in {"rotating", "replaying"} =>
                  /\ req[x].item \in Sessions
                  /\ req[x].token \in 1 .. (MaxTokens - 1)
    /\ exchanged \in [Sessions -> [1 .. MaxTokens -> Nat]]
    /\ replayed \subseteq Sessions /\ outlived \subseteq Sessions
    /\ uses \in [Invites -> Nat]

\* The rows and the requests that are written whole.
LEMMA Rows ==
    /\ Idle \in Request /\ Idle.pc = "idle" /\ Idle.held = {}
    /\ NoAccount \in Account /\ ~NoAccount.here
    /\ NoSession \in Session /\ NoSession.state = "none"
    /\ NoReset \in Reset /\ NoReset.state = "none" /\ NoReset.user = Nobody
    /\ NoInvite \in Invite /\ NoInvite.state = "none"
    /\ [here |-> TRUE, pw |-> 1] \in Account
  <1> USE AccountsAssumption
  <1>1. Idle \in Request /\ Idle.pc = "idle" /\ Idle.held = {}
    BY DEF Idle, Request, Pc
  <1>2. /\ NoAccount \in Account /\ ~NoAccount.here
        /\ [here |-> TRUE, pw |-> 1] \in Account
    BY DEF NoAccount, Account
  <1>3. NoSession \in Session /\ NoSession.state = "none"
    BY DEF NoSession, Session
  <1>4. /\ NoReset \in Reset /\ NoReset.state = "none" /\ NoReset.user = Nobody
        /\ NoInvite \in Invite /\ NoInvite.state = "none"
    BY DEF NoReset, Reset, NoInvite, Invite
  <1> QED BY <1>1, <1>2, <1>3, <1>4

\* What a request becomes when it begins.
LEMMA Beginning ==
    ASSUME NEW pc \in Pc, NEW u \in Users, NEW i \in Invites \cup {0}
    PROVE  LET r == [Idle EXCEPT !.pc = pc, !.user = u, !.item = i]
           IN  r \in Request /\ r.pc = pc /\ r.user = u /\ r.item = i /\ r.held = {}
  BY Rows DEF Request

\* What a request is after its first step.
ArrivesAs(r) ==
    \/ /\ r.pc = "authenticated" /\ r.user \in Users
       /\ account[r.user].here /\ r.held = {}
    \/ /\ r.pc = "forgetting" /\ r.user \in Users /\ r.held = {}
       /\ ~UserHeld(r.user)
    \/ /\ r.pc \in {"rotating", "replaying"} /\ r.held = {}
       /\ r.item \in Sessions /\ Active(r.item) /\ ~SessionHeld(r.item)
       /\ r.token \in 1 .. (MaxTokens - 1)
       /\ r.token <= session[r.item].token
       /\ r.pc = "rotating" => r.token = session[r.item].token
    \/ /\ r.pc = "resetting" /\ r.user \in Users
       /\ \E t \in Resets : /\ r.held = {t} /\ reset[t].state = "unused"
                            /\ ~ResetHeld(t) /\ r.user = reset[t].user
    \/ /\ r.pc \in {"registering", "wanting"} /\ r.held = {}
       /\ r.user \in Users /\ r.item \in Invites
       /\ invite[r.item].state # "none"

Arrived(x) ==
    /\ req[x] = Idle
    /\ UNCHANGED rows
    /\ \E r \in Request : req' = [req EXCEPT ![x] = r] /\ ArrivesAs(r)

LEMMA Arrivals == ASSUME NEW x \in Slots, Types, Arrive(x) PROVE Arrived(x)
  <1>0. ASSUME NEW u \in Users, LoginCheck(x, u) PROVE Arrived(x)
    <2> DEFINE p == account[u].pw
               r == [Idle EXCEPT !.pc = "authenticated", !.user = u, !.pw = p]
    <2>1. p \in Nat /\ "authenticated" \in Pc
      BY DEF Types, Account, Pc
    <2>2. /\ req[x] = Idle /\ UNCHANGED rows /\ account[u].here
          /\ req' = [req EXCEPT ![x] = r]
      BY <1>0 DEF LoginCheck
    <2> HIDE DEF p
    <2>3. r \in Request /\ r.pc = "authenticated" /\ r.user = u /\ r.held = {}
      BY <2>1, Rows DEF Request
    <2> HIDE DEF r
    <2>4. ArrivesAs(r)
      BY <2>2, <2>3 DEF ArrivesAs
    <2> QED BY <2>2, <2>3, <2>4 DEF Arrived
  <1>1. ASSUME NEW u \in Users, ForgotLock(x, u) PROVE Arrived(x)
    <2> DEFINE r == [Idle EXCEPT !.pc = "forgetting", !.user = u, !.item = 0]
    <2>1. UNCHANGED rows /\ ~UserHeld(u) /\ ~Revoking(u)
      BY <1>1 DEF ForgotLock
    <2>2. req[x] = Idle /\ req' = [req EXCEPT ![x] = r]
      BY <1>1 DEF ForgotLock, Begin
    <2>3. r \in Request /\ r.pc = "forgetting" /\ r.user = u /\ r.held = {}
      <3>1. "forgetting" \in Pc /\ 0 \in Invites \cup {0}
        BY DEF Pc
      <3> QED BY <3>1, Rows DEF Request
    <2> HIDE DEF r
    <2>4. ArrivesAs(r)
      BY <2>1, <2>3 DEF ArrivesAs
    <2> QED BY <2>1, <2>2, <2>3, <2>4 DEF Arrived
  <1>2. ASSUME NEW u \in Users, NEW i \in Invites,
               RegisterCheck(x, u, i) \/ JoinBegin(x, u, i)
        PROVE  Arrived(x)
    <2>1. PICK pc \in {"registering", "wanting"}, op \in {"register", "join"} :
             invite[i].state # "none" /\ UNCHANGED rows /\ Begin(x, op, pc, u, i)
      BY <1>2 DEF RegisterCheck, JoinBegin
    <2> DEFINE r == [Idle EXCEPT !.pc = pc, !.user = u, !.item = i]
    <2>2. req[x] = Idle /\ req' = [req EXCEPT ![x] = r]
      BY <2>1 DEF Begin
    <2>3. r \in Request /\ r.pc = pc /\ r.user = u /\ r.item = i /\ r.held = {}
      <3>1. pc \in Pc /\ i \in Invites \cup {0}
        BY DEF Pc
      <3> QED BY <3>1, Beginning
    <2> HIDE DEF r
    <2>4. ArrivesAs(r)
      BY <2>1, <2>3 DEF ArrivesAs
    <2> QED BY <2>1, <2>2, <2>3, <2>4 DEF Arrived
  <1>3. ASSUME NEW s \in Sessions, NEW n \in 1 .. MaxTokens, RefreshLock(x, s, n)
        PROVE  Arrived(x)
    <2> DEFINE pc == IF n = session[s].token THEN "rotating" ELSE "replaying"
               u == session[s].user
               r == [Idle EXCEPT !.pc = pc, !.user = u, !.item = s, !.token = n]
    <2>1. /\ pc \in {"rotating", "replaying"} /\ pc \in Pc
          /\ pc = "rotating" => n = session[s].token
          /\ n \in 1 .. (MaxTokens - 1) /\ n <= session[s].token
          /\ u \in Users \cup {Nobody}
      BY <1>3, AccountsAssumption DEF RefreshLock, Issued, Types, Session, Pc
    <2>2. /\ req[x] = Idle /\ UNCHANGED rows /\ Active(s) /\ ~SessionHeld(s)
          /\ req' = [req EXCEPT ![x] = r]
      BY <1>3 DEF RefreshLock
    <2>3. n \in 0 .. MaxTokens
      BY AccountsAssumption
    <2> HIDE DEF pc, u
    <2>4. r \in Request /\ r.pc = pc /\ r.item = s /\ r.token = n /\ r.held = {}
      BY <2>1, <2>3, Rows DEF Request
    <2> HIDE DEF r
    <2>5. ArrivesAs(r)
      BY <2>1, <2>2, <2>4 DEF ArrivesAs
    <2> QED BY <2>2, <2>4, <2>5 DEF Arrived
  <1>4. ASSUME NEW t \in Resets, ResetLock(x, t) PROVE Arrived(x)
    <2> DEFINE u == reset[t].user
               r == [Idle EXCEPT !.pc = "resetting", !.user = u, !.held = {t}]
    <2>1. u \in Users /\ "resetting" \in Pc /\ {t} \in SUBSET Resets
      BY <1>4 DEF ResetLock, Types, Pc
    <2>2. /\ req[x] = Idle /\ UNCHANGED rows /\ reset[t].state = "unused"
          /\ ~ResetHeld(t) /\ req' = [req EXCEPT ![x] = r]
      BY <1>4 DEF ResetLock
    <2>3. u = reset[t].user
      OBVIOUS
    <2> HIDE DEF u
    <2>4. r \in Request /\ r.pc = "resetting" /\ r.user = u /\ r.held = {t}
      BY <2>1, Rows DEF Request
    <2> HIDE DEF r
    <2>5. ArrivesAs(r)
      BY <2>1, <2>2, <2>3, <2>4 DEF ArrivesAs
    <2> QED BY <2>2, <2>4, <2>5 DEF Arrived
  <1> QED BY <1>0, <1>1, <1>2, <1>3, <1>4 DEF Arrive

\* A transaction that goes on keeps what it carries.
LEMMA Advancing ==
    ASSUME NEW x \in Slots, NEW pc \in Pc, Types, Advance(x, pc)
    PROVE  \E r \in Request :
             /\ req' = [req EXCEPT ![x] = r]
             /\ r.pc = pc /\ r.user = req[x].user /\ r.item = req[x].item
             /\ r.held = req[x].held /\ r.pw = req[x].pw
  <1> DEFINE q == req[x]
             r == [q EXCEPT !.pc = pc]
  <1>1. q \in Request
    BY DEF Types
  <1>2. q = req[x] /\ req' = [req EXCEPT ![x] = r]
    BY DEF Advance
  <1> HIDE DEF q
  <1>3. r \in Request /\ r.pc = pc /\ r.user = q.user /\ r.item = q.item /\ r.held = q.held
        /\ r.pw = q.pw
    BY <1>1 DEF Request
  <1> HIDE DEF r
  <1> QED BY <1>2, <1>3

\* A reset that begins to end the sessions of its user.
LEMMA Starting ==
    ASSUME NEW x \in Slots, Types, ResetStart(x)
    PROVE  \E r \in Request :
             /\ req' = [req EXCEPT ![x] = r]
             /\ r.pc = "revoking" /\ r.user = req[x].user /\ r.held = req[x].held
             /\ r.pw = req[x].pw /\ r.ends = Revoked(req[x].user)
             /\ r.prior = {s \in Sessions : session[s].user = req[x].user}
  <1> DEFINE q == req[x]
             e == Revoked(q.user)
             p == {s \in Sessions : session[s].user = q.user}
             r == [q EXCEPT !.pc = "revoking", !.ends = e, !.prior = p]
  <1>1. /\ q \in Request /\ e \in SUBSET Sessions /\ p \in SUBSET Sessions
        /\ "revoking" \in Pc
    BY DEF Types, Revoked, Pc
  <1>2. /\ q = req[x] /\ e = Revoked(req[x].user)
        /\ p = {s \in Sessions : session[s].user = req[x].user}
        /\ req' = [req EXCEPT ![x] = r]
    BY DEF ResetStart
  <1> HIDE DEF q, e, p
  <1>3. /\ r \in Request /\ r.pc = "revoking" /\ r.user = q.user /\ r.held = q.held
        /\ r.pw = q.pw /\ r.ends = e /\ r.prior = p
    BY <1>1 DEF Request
  <1> HIDE DEF r
  <1> QED BY <1>2, <1>3

LEMMA TypesInit == Init => Types
  BY Rows, AccountsAssumption
  DEF Init, Types, OfUser, OfInvite, Sessions, Resets

LEMMA TypesInductive == Types /\ [Next]_vars => Types'
  <1> SUFFICES ASSUME Types, [Next]_vars PROVE Types'
    OBVIOUS
  <1> USE Rows
  <1>1. CASE UNCHANGED vars
    BY <1>1 DEF vars, past, Types
  <1>2. ASSUME NEW x \in Slots, Arrive(x) PROVE Types'
    <2>1. Arrived(x)
      BY <1>2, Arrivals
    <2>2. PICK r \in Request : req' = [req EXCEPT ![x] = r] /\ ArrivesAs(r)
      BY <2>1 DEF Arrived
    <2>3. /\ r.pc \in OfUser => r.user \in Users
          /\ r.pc \in OfInvite => r.item \in Invites
          /\ r.pc \in {"rotating", "replaying"} =>
                r.item \in Sessions /\ r.token \in 1 .. (MaxTokens - 1)
      BY <2>2 DEF ArrivesAs, OfUser, OfInvite
    <2>4. UNCHANGED rows
      BY <2>1 DEF Arrived
    <2> QED BY <2>2, <2>3, <2>4 DEF Types, rows, past
  <1>3. ASSUME NEW x \in Slots, End(x), UNCHANGED rows PROVE Types'
    BY <1>3 DEF End, rows, past, Types, OfUser, OfInvite
  <1>4. ASSUME NEW x \in Slots, NEW pc \in Pc, Advance(x, pc), UNCHANGED rows,
               pc \in OfInvite, req[x].pc \in OfInvite
        PROVE  Types'
    <2>1. PICK r \in Request : /\ req' = [req EXCEPT ![x] = r] /\ r.pc = pc
                               /\ r.user = req[x].user /\ r.item = req[x].item
      BY <1>4, Advancing
    <2>2. r.user \in Users /\ r.item \in Invites
      BY <1>4, <2>1 DEF Types, OfUser
    <2>3. pc \notin {"rotating", "replaying"}
      BY <1>4 DEF OfInvite
    <2> QED BY <1>4, <2>1, <2>2, <2>3 DEF Types, rows, past
  <1>5. ASSUME NEW x \in Slots, LoginCommit(x) PROVE Types'
    <2>1. req[x].user \in Users /\ req[x].pw \in Nat /\ Overlapped(x) \in BOOLEAN
      BY <1>5 DEF LoginCommit, Types, OfUser, Request, Overlapped, Revoking
    <2>2. session' \in [Sessions -> Session]
      <3> DEFINE new == [state |-> "open", user |-> req[x].user, token |-> 1,
                         pw |-> req[x].pw, late |-> Overlapped(x), lapsed |-> FALSE]
      <3>1. CASE UNCHANGED session
        BY <3>1 DEF Types
      <3>2. ASSUME NEW s \in Sessions, session' = [session EXCEPT ![s] = new]
            PROVE session' \in [Sessions -> Session]
        <4>1. new \in Session
          BY <2>1, AccountsAssumption DEF Session
        <4> HIDE DEF new
        <4> QED BY <3>2, <4>1 DEF Types
      <3> QED BY <1>5, <3>1, <3>2 DEF LoginCommit
    <2> QED BY <1>5, <2>2 DEF LoginCommit, End, past, Types, OfUser, OfInvite

<1>6. ASSUME NEW x \in Slots, Rotate(x) PROVE Types'
    <2> DEFINE s == req[x].item
               n == req[x].token
    <2>1. s \in Sessions /\ n + 1 \in 0 .. MaxTokens /\ n \in 1 .. MaxTokens
      BY <1>6, AccountsAssumption DEF Rotate, Types
    <2>2. session' \in [Sessions -> Session]
      <3>1. session[s] \in Session
        BY <2>1 DEF Types
      <3>2. [session[s] EXCEPT !.token = n + 1] \in Session
        BY <2>1, <3>1 DEF Session
      <3>3. session' = [session EXCEPT ![s] = [session[s] EXCEPT !.token = n + 1]]
        BY <1>6 DEF Rotate
      <3> QED BY <2>1, <3>2, <3>3 DEF Types
    <2>3. exchanged' \in [Sessions -> [1 .. MaxTokens -> Nat]]
      <3> DEFINE f == exchanged[s]
                 e == [f EXCEPT ![n] = f[n] + 1]
      <3>0. f \in [1 .. MaxTokens -> Nat]
        BY <2>1 DEF Types
      <3>1. e \in [1 .. MaxTokens -> Nat]
        <4> HIDE DEF f
        <4>1. f[n] + 1 \in Nat
          BY <2>1, <3>0
        <4> QED BY <3>0, <4>1
      <3>2. exchanged' = [exchanged EXCEPT ![s] = e]
        BY <1>6 DEF Rotate
      <3> HIDE DEF e
      <3> QED BY <3>1, <3>2 DEF Types
    <2> QED BY <1>6, <2>2, <2>3 DEF Rotate, End, Types, OfUser, OfInvite
  <1>7. ASSUME NEW x \in Slots, DetectReuse(x) PROVE Types'
    <2> DEFINE s == req[x].item
    <2>1. s \in Sessions
      BY <1>7 DEF DetectReuse, Types
    <2>2. session' \in [Sessions -> Session]
      <3>1. session[s] \in Session
        BY <2>1 DEF Types
      <3>2. [session[s] EXCEPT !.state = "reused"] \in Session
        BY <3>1 DEF Session
      <3>3. session' = [session EXCEPT ![s] = [session[s] EXCEPT !.state = "reused"]]
        BY <1>7 DEF DetectReuse, Ended
      <3> QED BY <2>1, <3>2, <3>3 DEF Types
    <2> QED BY <1>7, <2>1, <2>2 DEF DetectReuse, End, Types, OfUser, OfInvite
  <1>8. ASSUME NEW s \in Sessions, LogOut(s) PROVE Types'
    <2>1. session[s] \in Session
      BY DEF Types
    <2>2. [session[s] EXCEPT !.state = "revoked"] \in Session
      BY <2>1 DEF Session
    <2>3. session' = [session EXCEPT ![s] = [session[s] EXCEPT !.state = "revoked"]]
      BY <1>8 DEF LogOut
    <2>4. session' \in [Sessions -> Session]
      BY <2>2, <2>3 DEF Types
    <2> QED BY <1>8, <2>4 DEF LogOut, past, Types
  <1>9. ASSUME NEW x \in Slots, ForgotRetire(x) PROVE Types'
    <2> DEFINE old == UnusedOf(req[x].user)
               q == req[x]
               r == [q EXCEPT !.pc = "issuing", !.held = old]
    <2>1. q \in Request /\ old \in SUBSET Resets /\ "issuing" \in Pc
      BY DEF UnusedOf, Types, Pc
    <2>2. /\ q.pc = "forgetting" /\ UNCHANGED rows
          /\ req' = [req EXCEPT ![x] = r]
      BY <1>9 DEF ForgotRetire
    <2>3. q.user \in Users
      BY <2>2 DEF Types, OfUser
    <2> HIDE DEF q, old
    <2>4. r \in Request /\ r.pc = "issuing" /\ r.user = q.user
      BY <2>1 DEF Request
    <2> HIDE DEF r
    <2> QED BY <2>2, <2>3, <2>4 DEF Types, rows, past, OfInvite
  <1>10. ASSUME NEW x \in Slots, ForgotIssue(x) PROVE Types'
    <2>1. req[x].user \in Users
      BY <1>10 DEF ForgotIssue, Types, OfUser
    <2>2. \A t \in Resets : reset'[t] = reset[t]
             \/ reset'[t] = [state |-> "unused", user |-> req[x].user, lapsed |-> FALSE]
             \/ reset'[t] = [reset[t] EXCEPT !.state = "used"]
      BY <1>10 DEF ForgotIssue
    <2>3. \A t \in Resets : /\ reset'[t] \in Reset
                            /\ reset'[t].state = "unused" => reset'[t].user \in Users
      <3> TAKE t \in Resets
      <3>1. /\ reset[t] \in Reset
            /\ reset[t].state = "unused" => reset[t].user \in Users
        BY DEF Types
      <3> DEFINE a == [state |-> "unused", user |-> req[x].user, lapsed |-> FALSE]
                 b == [reset[t] EXCEPT !.state = "used"]
      <3>2. a \in Reset /\ a.user \in Users
        BY <2>1 DEF Reset
      <3>3. b \in Reset /\ b.state = "used"
        BY <3>1 DEF Reset
      <3>4. reset'[t] = reset[t] \/ reset'[t] = a \/ reset'[t] = b
        BY <2>2
      <3> HIDE DEF a, b
      <3> QED BY <3>1, <3>2, <3>3, <3>4
    <2>4. reset' = [t \in Resets |-> reset'[t]]
      BY <1>10 DEF ForgotIssue
    <2>5. reset' \in [Resets -> Reset]
      BY <2>3, <2>4
    <2> QED BY <1>10, <2>3, <2>5 DEF ForgotIssue, End, past, Types, OfUser, OfInvite
  <1>11. ASSUME NEW x \in Slots, ResetApply(x) PROVE Types'
    <2> DEFINE u == req[x].user
    <2>1. u \in Users
      BY <1>11 DEF ResetApply, Types, OfUser
    <2>2. account' \in [Users -> Account]
      <3>1. account[u] \in Account
        BY <2>1 DEF Types
      <3>2. [account[u] EXCEPT !.pw = account[u].pw + 1] \in Account
        BY <3>1 DEF Account
      <3>3. account' = [account EXCEPT ![u] =
                          [account[u] EXCEPT !.pw = account[u].pw + 1]]
        BY <1>11 DEF ResetApply
      <3> QED BY <2>1, <3>2, <3>3 DEF Types
    <2>3. /\ reset' \in [Resets -> Reset]
          /\ \A t \in Resets : reset'[t].state = "unused" => reset'[t].user \in Users
      <3>1. \A t \in Resets : /\ reset[t] \in Reset
                              /\ [reset[t] EXCEPT !.state = "used"] \in Reset
                              /\ [reset[t] EXCEPT !.state = "used"].state = "used"
        BY DEF Types, Reset
      <3>2. reset' = [t \in Resets |-> IF t \in req[x].held
                        THEN [reset[t] EXCEPT !.state = "used"] ELSE reset[t]]
        BY <1>11 DEF ResetApply
      <3>3. \A t \in Resets : reset'[t] = reset[t]
                \/ reset'[t] = [reset[t] EXCEPT !.state = "used"]
        BY <3>2
      <3> QED BY <3>1, <3>2, <3>3 DEF Types
    <2>4. session' \in [Sessions -> Session]
      <3>1. \A s \in Sessions : /\ session[s] \in Session
                                /\ [session[s] EXCEPT !.state = "revoked"] \in Session
        BY DEF Types, Session
      <3>2. session' = [s \in Sessions |->
               IF s \in {r \in req[x].ends : session[r].state = "open"}
               THEN [session[s] EXCEPT !.state = "revoked"] ELSE session[s]]
        BY <1>11 DEF ResetApply
      <3> QED BY <3>1, <3>2
    <2>5. outlived' \subseteq Sessions
      BY <1>11 DEF ResetApply, Types, Request
    <2> QED BY <1>11, <2>2, <2>3, <2>4, <2>5 DEF ResetApply, End, Types, OfUser, OfInvite
  <1>19. ASSUME NEW x \in Slots, ResetStart(x) PROVE Types'
    <2>1. PICK r \in Request : /\ req' = [req EXCEPT ![x] = r] /\ r.pc = "revoking"
                               /\ r.user = req[x].user
      BY <1>19, Starting
    <2>2. UNCHANGED rows /\ req[x].user \in Users
      BY <1>19 DEF ResetStart, Types, OfUser
    <2> QED BY <2>1, <2>2 DEF Types, rows, past, past, OfInvite
<1>12. ASSUME NEW x \in Slots, Victim(x) \/ Drop(x) PROVE Types'
    BY <1>3, <1>12 DEF Victim, Drop
  <1>13. ASSUME NEW x \in Slots, RegisterInsert(x) \/ ConsumeLock(x) \/ ConsumeInsert(x)
         PROVE  Types'
    BY <1>3, <1>4, <1>13
    DEF RegisterInsert, ConsumeLock, ConsumeInsert, Pc, OfInvite
  <1>14. ASSUME NEW x \in Slots, ConsumeCommit(x) PROVE Types'
    <2> DEFINE i == req[x].item
               u == req[x].user
    <2>1. i \in Invites /\ u \in Users
      BY <1>14 DEF ConsumeCommit, Types, OfUser, OfInvite
    <2>2. invite' \in [Invites -> Invite]
      <3>1. invite[i] \in Invite
        BY <2>1 DEF Types
      <3> DEFINE a == [invite[i] EXCEPT !.state = "used"]
                 b == [a EXCEPT !.by = u]
      <3>2. a \in Invite
        BY <3>1 DEF Invite
      <3> HIDE DEF a
      <3>3. b \in Invite
        BY <2>1, <3>2 DEF Invite
      <3>4. \A j \in Invites : invite'[j] = IF j = i THEN b ELSE invite[j]
        BY <1>14, <2>1 DEF ConsumeCommit, Types, a
      <3>5. invite' = [j \in Invites |-> invite'[j]]
        BY <1>14 DEF ConsumeCommit, Types
      <3> HIDE DEF b
      <3> QED BY <3>3, <3>4, <3>5 DEF Types
    <2>3. account' \in [Users -> Account]
      BY <1>14 DEF ConsumeCommit, Types
    <2>4. uses' \in [Invites -> Nat]
      BY <1>14, <2>1 DEF ConsumeCommit, Types
    <2> QED BY <1>14, <2>1, <2>2, <2>3, <2>4
        DEF ConsumeCommit, End, Types, OfUser, OfInvite
  <1>15. ASSUME NEW i \in Invites, CreateInvite(i) PROVE Types'
    <2> DEFINE a == [NoInvite EXCEPT !.state = "open", !.to = Recipient[i]]
    <2>1. a \in Invite
      BY AccountsAssumption DEF Invite
    <2>2. invite' = [invite EXCEPT ![i] = a]
      BY <1>15 DEF CreateInvite
    <2> HIDE DEF a
    <2> QED BY <1>15, <2>1, <2>2 DEF CreateInvite, past, Types
  <1>16. ASSUME NEW u \in Users, DeleteAccount(u) PROVE Types'
    <2> DEFINE gs == [NoSession EXCEPT !.state = "removed"]
               gr == [NoReset EXCEPT !.state = "removed"]
               gi == [NoInvite EXCEPT !.state = "removed"]
    <2>1. gs \in Session
      BY DEF Session
    <2>2. gr \in Reset /\ gr.state = "removed"
      BY DEF Reset
    <2>3. gi \in Invite
      BY DEF Invite
    <2>4. \A i \in Invites : Orphaned(i, u) \in Invite
      <3> TAKE i \in Invites
      <3> DEFINE q == invite[i]
                 by == IF q.by = u THEN Nobody ELSE q.by
                 to == IF q.to = u THEN Nobody ELSE q.to
                 a == [q EXCEPT !.by = by, !.to = to]
      <3>1. q \in Invite
        BY DEF Types
      <3>2. by \in Users \cup {Nobody} /\ to \in Users \cup {Nobody}
        BY <3>1 DEF Invite
      <3>3. Orphaned(i, u) = gi \/ Orphaned(i, u) = a
        BY DEF Orphaned
      <3> HIDE DEF q, by, to
      <3>4. a \in Invite
        BY <3>1, <3>2 DEF Invite
      <3> QED BY <2>3, <3>3, <3>4
    <2> HIDE DEF gs, gr, gi
    <2>5. /\ account' = [account EXCEPT ![u] = NoAccount]
          /\ session' = [s \in Sessions |-> IF session[s].user # u THEN session[s] ELSE gs]
          /\ reset' = [t \in Resets |-> IF reset[t].user # u THEN reset[t] ELSE gr]
          /\ invite' = [i \in Invites |-> Orphaned(i, u)]
          /\ enrolled' = enrolled \ {u}
          /\ UNCHANGED <<req, past>>
      BY <1>16 DEF DeleteAccount, gs, gr
    <2> QED BY <2>1, <2>2, <2>4, <2>5 DEF Types, past
  <1>17. CASE Lapse
    <2>1. ASSUME NEW s \in Sessions, session' = [session EXCEPT ![s].lapsed = TRUE]
          PROVE  session' \in [Sessions -> Session]
      BY <2>1, ZenonT(60) DEF Types, Session
    <2>2. ASSUME NEW t \in Resets, reset' = [reset EXCEPT ![t].lapsed = TRUE]
          PROVE  /\ reset' \in [Resets -> Reset]
                 /\ \A r \in Resets : /\ reset'[r].state = reset[r].state
                                      /\ reset'[r].user = reset[r].user
      BY <2>2 DEF Types, Reset
    <2>3. ASSUME NEW i \in Invites, invite' = [invite EXCEPT ![i].lapsed = TRUE]
          PROVE  invite' \in [Invites -> Invite]
      BY <2>3, ZenonT(60) DEF Types, Invite
    <2> QED BY <1>17, <2>1, <2>2, <2>3 DEF Lapse, past, Types
  <1>18. CASE CleanUp
    <2> DEFINE gs == [NoSession EXCEPT !.state = "removed"]
               gr == [NoReset EXCEPT !.state = "removed"]
               gi == [NoInvite EXCEPT !.state = "removed"]
    <2>1. gs \in Session
      BY DEF Session
    <2>2. gr \in Reset /\ gr.state = "removed"
      BY DEF Reset
    <2>3. gi \in Invite
      BY DEF Invite
    <2>4. /\ \/ \E s \in Sessions : session' = [session EXCEPT ![s] = gs]
                                    /\ UNCHANGED <<reset, invite>>
             \/ \E t \in Resets : reset' = [reset EXCEPT ![t] = gr]
                                  /\ UNCHANGED <<session, invite>>
             \/ \E i \in Invites : invite' = [invite EXCEPT ![i] = gi]
                                   /\ UNCHANGED <<session, reset>>
          /\ UNCHANGED <<req, account, enrolled, past>>
      BY <1>18 DEF CleanUp
    <2> HIDE DEF gs, gr, gi
    <2> QED BY <2>1, <2>2, <2>3, <2>4 DEF Types, past
  <1> QED
    BY <1>1, <1>2, <1>5, <1>6, <1>7, <1>8, <1>9, <1>10, <1>11, <1>12, <1>13, <1>14,
       <1>15, <1>16, <1>17, <1>18, <1>19 DEF Next, Step

-----------------------------------------------------------------------------
(* Sessions: the chain of refresh tokens and the reset that ends it.       *)

\* A refresh that holds its session knows it as it is: open, and the token it
\* carries is one of the session's, the last one if it is to be replaced.
RefreshHolds ==
    \A x \in Slots :
        req[x].pc \in {"rotating", "replaying"} =>
            /\ session[req[x].item].state = "open"
            /\ req[x].pc = "rotating" => req[x].token = session[req[x].item].token
            /\ \A y \in Slots :
                   req[y].pc \in {"rotating", "replaying"} /\ req[y].item = req[x].item
                       => y = x

\* The last token of an open session was not exchanged, and no later one was.
Chain ==
    \A s \in Sessions :
        /\ \A n \in 1 .. MaxTokens :
               /\ exchanged[s][n] <= 1
               /\ session[s].state = "none" => exchanged[s][n] = 0
               /\ session[s].state = "open" /\ session[s].token <= n
                      => exchanged[s][n] = 0
        /\ s \in replayed => session[s].state \notin {"none", "open"}

\* An open session, lapsed or not, belongs to an account, and was made with its
\* password or by a sign-in that overlapped a reset.
Owned ==
    /\ \A s \in Sessions :
           session[s].state = "open" =>
               /\ session[s].user \in Users /\ account[session[s].user].here
               /\ session[s].pw = account[session[s].user].pw \/ session[s].late
    /\ \A x \in Slots : req[x].pc = "authenticated" => account[req[x].user].here

\* A session older than a completed reset has ended.  One older than a reset
\* that is under way is open only if that reset is about to end it, and any
\* other one of its user is of a sign-in that overlaps it.
Outlived ==
    /\ \A s \in Sessions : session[s].state = "none" => session[s].user = Nobody
    /\ \A s \in outlived : session[s].state \notin {"none", "open"}
    /\ \A x \in Slots, s \in Sessions :
           req[x].pc = "revoking" =>
               /\ s \in req[x].prior => session[s].state # "none"
               /\ s \in req[x].prior /\ session[s].state = "open" => s \in req[x].ends
               /\ session[s].state = "open" /\ session[s].user = req[x].user
                      => s \in req[x].ends \/ session[s].late

SessionInv == RefreshHolds /\ Chain /\ Owned /\ Outlived

LEMMA SessionInit == Init => SessionInv
  BY Rows DEF Init, SessionInv, RefreshHolds, Chain, Owned, Outlived, NoSession

\* What does not touch the sessions, their owners or the requests that hold one.
LEMMA SessionQuiet ==
    ASSUME Types, SessionInv, UNCHANGED <<session, exchanged, replayed, outlived>>,
           \A u \in Users : account[u].here => account'[u] = account[u],
           NEW x \in Slots, NEW r \in Request, req' = [req EXCEPT ![x] = r],
           r.pc \notin {"rotating", "replaying", "authenticated", "revoking"}
    PROVE  SessionInv'
  <1>1. RefreshHolds' /\ Chain'
    BY DEF Types, SessionInv, RefreshHolds, Chain
  <1>2. Owned'
    BY DEF Types, OfUser, SessionInv, Owned
  <1>3. Outlived'
    BY DEF Types, SessionInv, Outlived
  <1> QED BY <1>1, <1>2, <1>3 DEF SessionInv

\* What ends sessions that no refresh holds.
LEMMA SessionEnded ==
    ASSUME Types, SessionInv, UNCHANGED <<exchanged, replayed>>, outlived' \subseteq Sessions,
           \A x \in Slots : req'[x] = req[x] \/ req'[x] = Idle,
           \A s \in Sessions :
               \/ /\ session'[s].state = session[s].state
                  /\ session'[s].user = session[s].user
                  /\ session'[s].token = session[s].token
                  /\ session'[s].pw = session[s].pw
                  /\ session'[s].late = session[s].late
               \/ session'[s].state \notin {"none", "open"} /\ ~SessionHeld(s),
           \A s \in outlived' : s \in outlived \/ session'[s].state \notin {"none", "open"},
           \A u \in Users :
               \/ account'[u] = account[u]
               \/ \A s \in Sessions : session'[s].state = "open" /\ session'[s].user = u
                     => session'[s].late /\ account'[u].here,
           \A x \in Slots : req'[x].pc = "authenticated" => account'[req'[x].user].here
    PROVE  SessionInv'
  <1>1. RefreshHolds'
    <2>1. ASSUME NEW x \in Slots, req'[x].pc \in {"rotating", "replaying"}
          PROVE  /\ req'[x] = req[x] /\ req[x].item \in Sessions
                 /\ session'[req[x].item].state = session[req[x].item].state
                 /\ session'[req[x].item].token = session[req[x].item].token
      <3>1. req'[x] = req[x]
        BY <2>1, Rows
      <3>2. req[x].item \in Sessions /\ SessionHeld(req[x].item)
        BY <2>1, <3>1 DEF Types, SessionHeld, At
      <3> QED BY <3>1, <3>2
    <2> QED BY <2>1 DEF SessionInv, RefreshHolds
  <1>2. Chain'
    BY DEF Types, SessionInv, Chain
  <1>3. ASSUME NEW s \in Sessions, session'[s].state = "open"
        PROVE  /\ session'[s].user \in Users /\ account'[session'[s].user].here
               /\ session'[s].pw = account'[session'[s].user].pw \/ session'[s].late
    <2>1. /\ session[s].state = "open" /\ session'[s].user = session[s].user
          /\ session'[s].pw = session[s].pw /\ session'[s].late = session[s].late
      BY <1>3
    <2>2. /\ session[s].user \in Users /\ account[session[s].user].here
          /\ session[s].pw = account[session[s].user].pw \/ session[s].late
      BY <2>1 DEF SessionInv, Owned
    <2> QED BY <1>3, <2>1, <2>2
  <1>4. Owned'
    BY <1>3 DEF Owned
  <1>5. Outlived'
    <2>1. ASSUME NEW s \in Sessions
          PROVE  \/ session'[s].state \notin {"none", "open"}
                 \/ /\ session'[s].state = session[s].state
                    /\ session'[s].user = session[s].user
                    /\ session'[s].late = session[s].late
      OBVIOUS
    <2>2. ASSUME NEW s \in Sessions, session'[s].state = "none" PROVE session'[s].user = Nobody
      BY <2>1, <2>2 DEF SessionInv, Outlived
    <2>3. ASSUME NEW s \in outlived' PROVE session'[s].state \notin {"none", "open"}
      <3>1. CASE s \in outlived
        BY <2>1, <2>3, <3>1 DEF SessionInv, Outlived
      <3> QED BY <2>3, <3>1
    <2>4. ASSUME NEW x \in Slots, NEW s \in Sessions, req'[x].pc = "revoking"
          PROVE  /\ s \in req'[x].prior => session'[s].state # "none"
                 /\ s \in req'[x].prior /\ session'[s].state = "open" => s \in req'[x].ends
                 /\ session'[s].state = "open" /\ session'[s].user = req'[x].user
                        => s \in req'[x].ends \/ session'[s].late
      <3>1. req'[x] = req[x]
        BY <2>4, Rows
      <3> QED BY <2>1, <2>4, <3>1 DEF SessionInv, Outlived
    <2> QED BY <2>2, <2>3, <2>4 DEF Outlived
  <1> QED BY <1>1, <1>2, <1>4, <1>5 DEF SessionInv

LEMMA SessionInductive == Types /\ SessionInv /\ [Next]_vars => SessionInv'
  <1> SUFFICES ASSUME Types, SessionInv, [Next]_vars PROVE SessionInv'
    OBVIOUS
  <1> USE Rows
  <1>1. CASE UNCHANGED vars
    BY <1>1 DEF vars, past, SessionInv, RefreshHolds, Chain, Owned, Outlived
  <1>2. ASSUME NEW x \in Slots, Arrive(x) PROVE SessionInv'
    <2>1. Arrived(x)
      BY <1>2, Arrivals
    <2>2. PICK r \in Request : req' = [req EXCEPT ![x] = r] /\ ArrivesAs(r)
      BY <2>1 DEF Arrived
    <2>3. UNCHANGED <<account, session, exchanged, replayed, outlived>>
      BY <2>1 DEF Arrived, rows, past
    <2>7. r.pc # "revoking"
      BY <2>2 DEF ArrivesAs
    <2>8. Outlived'
      BY <2>2, <2>3, <2>7 DEF SessionInv, Outlived, Types
    <2>4. CASE r.pc \in {"rotating", "replaying"}
      <3>1. /\ Active(r.item) /\ ~SessionHeld(r.item)
            /\ r.pc = "rotating" => r.token = session[r.item].token
        BY <2>2, <2>4 DEF ArrivesAs
      <3>2. RefreshHolds'
        BY <2>2, <2>3, <2>4, <3>1 DEF SessionInv, RefreshHolds, Active, SessionHeld, At, Types
      <3> QED BY <2>2, <2>3, <2>4, <2>8, <3>2 DEF SessionInv, Chain, Owned, Types
    <2>5. CASE r.pc = "authenticated"
      <3>1. account[r.user].here
        BY <2>2, <2>5 DEF ArrivesAs
      <3>2. RefreshHolds' /\ Chain'
        BY <2>2, <2>3, <2>5 DEF SessionInv, RefreshHolds, Chain, Types
      <3>3. Owned'
        BY <2>2, <2>3, <2>5, <3>1 DEF SessionInv, Owned, Types
      <3> QED BY <2>8, <3>2, <3>3 DEF SessionInv
    <2>6. CASE r.pc \notin {"rotating", "replaying", "authenticated"}
      BY <2>2, <2>3, <2>6, <2>7, SessionQuiet
    <2> QED BY <2>4, <2>5, <2>6
  <1>3. ASSUME NEW x \in Slots, End(x), UNCHANGED <<session, exchanged, replayed, outlived>>,
               \A u \in Users : account[u].here => account'[u] = account[u]
        PROVE  SessionInv'
    BY <1>3, SessionQuiet DEF End
  <1>4. ASSUME NEW x \in Slots, NEW pc \in Pc, Advance(x, pc), UNCHANGED rows,
               pc \in OfInvite
        PROVE  SessionInv'
    <2>1. PICK r \in Request : req' = [req EXCEPT ![x] = r] /\ r.pc = pc
      BY <1>4, Advancing
    <2> QED BY <1>4, <2>1, SessionQuiet DEF rows, past, OfInvite
  <1>5. ASSUME NEW x \in Slots, LoginCommit(x) PROVE SessionInv'
    <2> DEFINE u == req[x].user
    <2>1. /\ u \in Users /\ account[u].here
          /\ UNCHANGED <<account, exchanged, replayed, outlived>>
          /\ req' = [req EXCEPT ![x] = Idle]
      BY <1>5 DEF LoginCommit, End, past, SessionInv, Owned, Types, OfUser
    <2>2. CASE UNCHANGED session
      BY <1>3, <1>5, <2>1, <2>2 DEF LoginCommit, past
    <2>3. ASSUME NEW s \in Sessions, session[s].state = "none",
                 session' = [session EXCEPT ![s] =
                    [state |-> "open", user |-> u, token |-> 1,
                     pw |-> req[x].pw, late |-> Overlapped(x), lapsed |-> FALSE]]
          PROVE  SessionInv'
      <3>0. /\ req[x].pw = account[u].pw \/ Overlapped(x)
            /\ \A y \in Slots : req[y].pc = "revoking" /\ req[y].user = u => Overlapped(x)
        BY DEF Overlapped, Revoking, At
      <3>1. RefreshHolds'
        BY <2>1, <2>3 DEF SessionInv, RefreshHolds, Types
      <3>2. Chain'
        BY <2>1, <2>3 DEF SessionInv, Chain, Types
      <3>3. Owned'
        BY <2>1, <2>3, <3>0 DEF SessionInv, Owned, Types
      <3>4. Outlived'
        <4>1. \A q \in Sessions :
                 /\ q # s => session'[q] = session[q]
                 /\ q = s => /\ session'[q].state = "open" /\ session'[q].user = u
                             /\ session'[q].late = Overlapped(x)
          BY <2>3 DEF Types
        <4>2. \A y \in Slots : req'[y].pc = "revoking" => req'[y] = req[y]
          BY <2>1 DEF Types
        <4>3. s \notin outlived
          BY <2>3 DEF SessionInv, Outlived
        <4> QED BY <2>1, <2>3, <3>0, <4>1, <4>2, <4>3 DEF SessionInv, Outlived, Types
      <3> QED BY <3>1, <3>2, <3>3, <3>4 DEF SessionInv
    <2> QED BY <1>5, <2>2, <2>3 DEF LoginCommit
  <1>6. ASSUME NEW x \in Slots, Rotate(x) PROVE SessionInv'
    <2> DEFINE s == req[x].item
               n == req[x].token
    <2>1. /\ s \in Sessions /\ n \in 1 .. (MaxTokens - 1)
          /\ session[s].state = "open" /\ session[s].token = n
          /\ session[s] \in Session
      BY <1>6 DEF Rotate, SessionInv, RefreshHolds, Types
    <2>2. /\ session' = [session EXCEPT ![s].token = n + 1]
          /\ exchanged' = [exchanged EXCEPT ![s][n] = @ + 1]
          /\ req' = [req EXCEPT ![x] = Idle]
          /\ UNCHANGED <<account, replayed, outlived>>
      BY <1>6 DEF Rotate, End
    <2>3. \A q \in Sessions : /\ session'[q].state = session[q].state
                              /\ session'[q].user = session[q].user
                              /\ session'[q].pw = session[q].pw
                              /\ session'[q].late = session[q].late
                              /\ session'[q].token = IF q = s THEN n + 1 ELSE session[q].token
      BY <2>1, <2>2 DEF Types, Session
    <2>4. RefreshHolds'
      <3>1. \A y \in Slots : req[y].pc \in {"rotating", "replaying"} /\ req[y].item = s
               => y = x
        BY <1>6 DEF Rotate, SessionInv, RefreshHolds
      <3> QED BY <2>1, <2>2, <2>3, <3>1 DEF SessionInv, RefreshHolds, Types
    <2>5. Chain'
      <3>1. \A q \in Sessions, k \in 1 .. MaxTokens :
               exchanged'[q][k] = IF q = s /\ k = n THEN exchanged[q][k] + 1
                                  ELSE exchanged[q][k]
        BY <2>1, <2>2 DEF Types
      <3>2. exchanged[s][n] = 0
        BY <2>1, AccountsAssumption DEF SessionInv, Chain
      <3>3. ASSUME NEW q \in Sessions, NEW k \in 1 .. MaxTokens
            PROVE  /\ exchanged'[q][k] <= 1
                   /\ session'[q].state = "none" => exchanged'[q][k] = 0
                   /\ session'[q].state = "open" /\ session'[q].token <= k
                          => exchanged'[q][k] = 0
        <4>1. /\ exchanged[q][k] <= 1 /\ exchanged[q][k] \in Nat
              /\ session[q].state = "none" => exchanged[q][k] = 0
              /\ session[q].state = "open" /\ session[q].token <= k
                     => exchanged[q][k] = 0
          BY DEF SessionInv, Chain, Types
        <4>2. CASE q = s /\ k = n
          BY <2>1, <2>3, <3>1, <3>2, <4>2
        <4>3. CASE q = s /\ k # n
          BY <2>1, <2>3, <3>1, <4>1, <4>3
        <4>4. CASE q # s
          BY <2>3, <3>1, <4>1, <4>4
        <4> QED BY <4>2, <4>3, <4>4
      <3>4. \A q \in Sessions : q \in replayed' => session'[q].state \notin {"none", "open"}
        BY <2>2, <2>3 DEF SessionInv, Chain
      <3> QED BY <3>3, <3>4 DEF Chain
    <2>6. Owned'
      BY <2>2, <2>3 DEF SessionInv, Owned, Types
    <2>7. Outlived'
      BY <2>2, <2>3 DEF SessionInv, Outlived, Types
    <2> QED BY <2>4, <2>5, <2>6, <2>7 DEF SessionInv

<1>7. ASSUME NEW x \in Slots, DetectReuse(x) PROVE SessionInv'
    <2> DEFINE s == req[x].item
    <2>1. s \in Sessions
      BY <1>7 DEF DetectReuse, Types
    <2>2. /\ session' = [session EXCEPT ![s].state = "reused"]
          /\ req' = [req EXCEPT ![x] = Idle]
          /\ replayed' = replayed \cup {s}
          /\ UNCHANGED <<account, exchanged, outlived>>
      BY <1>7 DEF DetectReuse, Ended, End
    <2>3. \A q \in Sessions : /\ q # s => session'[q] = session[q]
                              /\ q = s => session'[q].state = "reused"
      BY <2>1, <2>2 DEF Types, Session
    <2>4. RefreshHolds'
      <3>1. \A y \in Slots : req[y].pc \in {"rotating", "replaying"} /\ req[y].item = s
               => y = x
        BY <1>7 DEF DetectReuse, SessionInv, RefreshHolds
      <3> QED BY <2>1, <2>2, <2>3, <3>1 DEF SessionInv, RefreshHolds, Types
    <2>5. Chain'
      BY <2>1, <2>2, <2>3 DEF SessionInv, Chain
    <2>6. Owned'
      BY <2>2, <2>3 DEF SessionInv, Owned, Types
    <2>7. Outlived'
      BY <2>2, <2>3 DEF SessionInv, Outlived, Types
    <2> QED BY <2>4, <2>5, <2>6, <2>7 DEF SessionInv
  <1>8. ASSUME NEW s \in Sessions, LogOut(s) PROVE SessionInv'
    <2>1. \A q \in Sessions : \/ session'[q] = session[q]
                              \/ session'[q].state = "revoked" /\ ~SessionHeld(q)
      BY <1>8 DEF LogOut, Types, Session
    <2> QED BY <1>8, <2>1, SessionEnded DEF LogOut, past, SessionInv, Owned, Types
  <1>9. ASSUME NEW x \in Slots, ForgotRetire(x) PROVE SessionInv'
    <2> DEFINE old == UnusedOf(req[x].user)
               q == req[x]
               r == [q EXCEPT !.pc = "issuing", !.held = old]
    <2>1. q \in Request /\ old \in SUBSET Resets /\ "issuing" \in Pc
      BY DEF UnusedOf, Types, Pc
    <2>2. UNCHANGED rows /\ req' = [req EXCEPT ![x] = r]
      BY <1>9 DEF ForgotRetire
    <2> HIDE DEF q, old
    <2>3. r \in Request /\ r.pc = "issuing"
      BY <2>1 DEF Request
    <2> HIDE DEF r
    <2> QED BY <2>2, <2>3, SessionQuiet DEF rows, past
  <1>10. ASSUME NEW x \in Slots, ForgotIssue(x) \/ Victim(x) \/ Drop(x) PROVE SessionInv'
    BY <1>3, <1>10 DEF ForgotIssue, Victim, Drop, rows, past
  <1>11. ASSUME NEW x \in Slots, ResetApply(x) PROVE SessionInv'
    <2> DEFINE u == req[x].user
               ended == {s \in req[x].ends : session[s].state = "open"}
    <2>1. /\ u \in Users /\ req' = [req EXCEPT ![x] = Idle]
          /\ req[x].pc = "revoking" /\ req[x].prior \subseteq Sessions
          /\ outlived' = outlived \cup req[x].prior
          /\ UNCHANGED <<exchanged, replayed>>
      BY <1>11 DEF ResetApply, End, Types, OfUser, Request
    <2>2. \A q \in Sessions :
             /\ q \notin ended => session'[q] = session[q]
             /\ q \in ended => session'[q].state = "revoked" /\ ~SessionHeld(q)
      BY <1>11 DEF ResetApply, Types, Session
    <2>3. \A v \in Users : /\ v # u => account'[v] = account[v]
                           /\ account'[v].here = account[v].here
      BY <1>11, <2>1 DEF ResetApply, Types, Account
    <2>4. \A y \in Slots : req'[y].pc = "authenticated" => account'[req'[y].user].here
      BY <2>1, <2>3 DEF SessionInv, Owned, Types, OfUser
    <2>5. \A y \in Slots : req'[y] = req[y] \/ req'[y] = Idle
      BY <2>1 DEF Types
    <2>6. \A v \in Users :
             \/ account'[v] = account[v]
             \/ \A q \in Sessions : session'[q].state = "open" /\ session'[q].user = v
                   => session'[q].late /\ account'[v].here
      <3>1. ASSUME NEW q \in Sessions, session'[q].state = "open", session'[q].user = u
            PROVE  session'[q].late /\ account'[u].here
        <4>1. q \notin ended /\ session'[q] = session[q]
          BY <2>2, <3>1
        <4> QED BY <2>1, <2>3, <3>1, <4>1 DEF SessionInv, Owned, Outlived
      <3> QED BY <2>3, <3>1
    <2>7. \A q \in outlived' : q \in outlived \/ session'[q].state \notin {"none", "open"}
      <3>1. ASSUME NEW q \in req[x].prior PROVE session'[q].state \notin {"none", "open"}
        <4>1. q \in Sessions /\ session[q].state # "none"
              /\ (session[q].state = "open" => q \in ended)
          BY <2>1 DEF SessionInv, Outlived
        <4> QED BY <2>2, <4>1
      <3> QED BY <2>1, <3>1
    <2>8. outlived' \subseteq Sessions
      BY <2>1 DEF Types
    <2> HIDE DEF ended
    <2> QED BY <2>1, <2>2, <2>4, <2>5, <2>6, <2>7, <2>8, SessionEnded
  <1>18. ASSUME NEW x \in Slots, ResetStart(x) PROVE SessionInv'
    <2>1. PICK r \in Request :
             /\ req' = [req EXCEPT ![x] = r] /\ r.pc = "revoking"
             /\ r.user = req[x].user /\ r.ends = Revoked(req[x].user)
             /\ r.prior = {s \in Sessions : session[s].user = req[x].user}
      BY <1>18, Starting
    <2>2. /\ UNCHANGED <<account, session, exchanged, replayed, outlived>>
          /\ req[x].user \in Users /\ Nobody \notin Users
      BY <1>18, AccountsAssumption DEF ResetStart, rows, past, Types, OfUser
    <2>3. RefreshHolds' /\ Chain'
      BY <2>1, <2>2 DEF SessionInv, RefreshHolds, Chain, Types
    <2>4. Owned'
      BY <2>1, <2>2 DEF SessionInv, Owned, Types
    <2>5. ASSUME NEW y \in Slots, NEW s \in Sessions, req'[y].pc = "revoking"
          PROVE  /\ s \in req'[y].prior => session[s].state # "none"
                 /\ s \in req'[y].prior /\ session[s].state = "open" => s \in req'[y].ends
                 /\ session[s].state = "open" /\ session[s].user = req'[y].user
                        => s \in req'[y].ends \/ session[s].late
      <3>1. CASE y = x
        <4>1. req'[y] = r
          BY <2>1, <3>1 DEF Types
        <4> QED BY <2>1, <2>2, <4>1 DEF SessionInv, Outlived, Revoked
      <3>2. CASE y # x
        <4>1. req'[y] = req[y]
          BY <2>1, <3>2 DEF Types
        <4> QED BY <2>5, <4>1 DEF SessionInv, Outlived
      <3> QED BY <3>1, <3>2
    <2>6. Outlived'
      BY <2>2, <2>5 DEF SessionInv, Outlived
    <2> QED BY <2>3, <2>4, <2>6 DEF SessionInv
  <1>12. ASSUME NEW x \in Slots, RegisterInsert(x) \/ ConsumeLock(x) \/ ConsumeInsert(x)
         PROVE  SessionInv'
    BY <1>3, <1>4, <1>12 DEF RegisterInsert, ConsumeLock, ConsumeInsert, Pc, OfInvite, rows, past
  <1>13. ASSUME NEW x \in Slots, ConsumeCommit(x) PROVE SessionInv'
    BY <1>3, <1>13 DEF ConsumeCommit, Types
  <1>14. ASSUME NEW i \in Invites, CreateInvite(i) PROVE SessionInv'
    BY <1>14 DEF CreateInvite, past, SessionInv, RefreshHolds, Chain, Owned, Outlived
  <1>15. ASSUME NEW u \in Users, DeleteAccount(u) PROVE SessionInv'
    <2> DEFINE gs == [NoSession EXCEPT !.state = "removed"]
    <2>1. gs.state = "removed"
      BY DEF Session
    <2>2. /\ account' = [account EXCEPT ![u] = NoAccount]
          /\ session' = [s \in Sessions |-> IF session[s].user # u THEN session[s] ELSE gs]
          /\ \A x \in Slots : req[x] = Idle
          /\ UNCHANGED <<req, exchanged, replayed, outlived>>
      BY <1>15 DEF DeleteAccount, past
    <2> HIDE DEF gs
    <2>3. \A s \in Sessions : ~SessionHeld(s)
      BY <2>2 DEF SessionHeld, At
    <2>4. \A v \in Users :
             \/ account'[v] = account[v]
             \/ \A q \in Sessions : session'[q].state = "open" => session'[q].user # v
      BY <2>1, <2>2 DEF Types
    <2> QED BY <2>1, <2>2, <2>3, <2>4, SessionEnded DEF Types
  <1>16. CASE Lapse
    <2>1. \A s \in Sessions : /\ session'[s].state = session[s].state
                              /\ session'[s].user = session[s].user
                              /\ session'[s].token = session[s].token
                              /\ session'[s].pw = session[s].pw
                              /\ session'[s].late = session[s].late
      <3>1. CASE UNCHANGED session
        BY <3>1
      <3>2. ASSUME NEW s \in Sessions, session' = [session EXCEPT ![s].lapsed = TRUE]
            PROVE  \A q \in Sessions : /\ session'[q].state = session[q].state
                                       /\ session'[q].user = session[q].user
                                       /\ session'[q].token = session[q].token
                                       /\ session'[q].pw = session[q].pw
                                       /\ session'[q].late = session[q].late
        BY <3>2 DEF Types, Session
      <3> QED BY <1>16, <3>1, <3>2 DEF Lapse
    <2> QED BY <1>16, <2>1, SessionEnded DEF Lapse, past, SessionInv, Owned, Types
  <1>17. CASE CleanUp
    <2> DEFINE gs == [NoSession EXCEPT !.state = "removed"]
    <2>1. gs.state = "removed"
      BY DEF Session
    <2>2. \/ \E s \in Sessions : /\ ~SessionHeld(s)
                                 /\ session' = [session EXCEPT ![s] = gs]
          \/ UNCHANGED session
      BY <1>17 DEF CleanUp
    <2>3. UNCHANGED <<req, account, exchanged, replayed, outlived>>
      BY <1>17 DEF CleanUp, past
    <2> HIDE DEF gs
    <2> QED BY <2>1, <2>2, <2>3, SessionEnded DEF SessionInv, Owned, Types
  <1> QED
    BY <1>1, <1>2, <1>5, <1>6, <1>7, <1>8, <1>9, <1>10, <1>11, <1>12, <1>13, <1>14,
       <1>15, <1>16, <1>17, <1>18 DEF Next, Step

LEMMA TypesAlways == Spec => []Types
  BY TypesInit, TypesInductive, PTL DEF Spec

LEMMA SessionAlways == Spec => []SessionInv
  BY TypesAlways, SessionInit, SessionInductive, PTL DEF Spec

\* No token of a session is ever exchanged twice, and a session that was shown
\* a replaced token has ended, whatever requests overlap.
THEOREM ChainHasNoFork == Spec => []TokenExchangedOnce
  <1>1. SessionInv => TokenExchangedOnce
    BY DEF SessionInv, Chain, TokenExchangedOnce, Active
  <1> QED BY <1>1, SessionAlways, PTL

\* No session that was committed when the UPDATE of a reset began is in use
\* after the reset, whatever refreshes overlap it, and one made with an earlier
\* password is in use only if its sign-in overlapped a reset.
THEOREM ResetEndsSessions == Spec => []ResetSignsOut
  <1>1. SessionInv => ResetSignsOut
    BY DEF SessionInv, Owned, Outlived, ResetSignsOut, Active
  <1> QED BY <1>1, SessionAlways, PTL

-----------------------------------------------------------------------------
(* Invitations.                                                            *)

\* A transaction that holds an invitation holds it alone, and finds it unused
\* when it commits.
ConsumerHolds ==
    \A x \in Slots :
        /\ req[x].pc \in {"registering", "wanting"} => invite[req[x].item].state # "none"
        /\ req[x].pc \in {"consuming", "enrolling"} =>
               /\ invite[req[x].item].state = "open"
               /\ \A y \in Slots :
                      req[y].pc \in {"consuming", "enrolling"} /\ req[y].item = req[x].item
                          => y = x

\* An invitation that enrolled someone is not open again.
SpentOnce ==
    \A i \in Invites : /\ uses[i] <= 1
                       /\ invite[i].state \in {"none", "open"} => uses[i] = 0

Enrols == \A u \in Users \ Provisioned : account[u].here => u \in enrolled

InviteInv == ConsumerHolds /\ SpentOnce /\ Enrols

LEMMA InviteInit == Init => InviteInv
  BY Rows DEF Init, InviteInv, ConsumerHolds, SpentOnce, Enrols

\* What leaves invitations, accounts and enrolments alone.
LEMMA InviteQuiet ==
    ASSUME Types, InviteInv, UNCHANGED <<invite, uses, enrolled>>,
           \A u \in Users : account'[u].here => account[u].here,
           NEW x \in Slots, NEW r \in Request, req' = [req EXCEPT ![x] = r],
           r.pc \notin {"consuming", "enrolling"},
           r.pc \in {"registering", "wanting"} => invite[r.item].state # "none"
    PROVE  InviteInv'
  BY DEF Types, InviteInv, ConsumerHolds, SpentOnce, Enrols

LEMMA InviteInductive == Types /\ InviteInv /\ [Next]_vars => InviteInv'
  <1> SUFFICES ASSUME Types, InviteInv, [Next]_vars PROVE InviteInv'
    OBVIOUS
  <1> USE Rows
  <1>1. CASE UNCHANGED vars
    BY <1>1 DEF vars, past, InviteInv, ConsumerHolds, SpentOnce, Enrols
  <1>2. ASSUME NEW x \in Slots, Arrive(x) PROVE InviteInv'
    <2>1. Arrived(x)
      BY <1>2, Arrivals
    <2>2. PICK r \in Request : req' = [req EXCEPT ![x] = r] /\ ArrivesAs(r)
      BY <2>1 DEF Arrived
    <2>3. UNCHANGED <<account, invite, uses, enrolled>>
      BY <2>1 DEF Arrived, rows, past
    <2>4. /\ r.pc \notin {"consuming", "enrolling"}
          /\ r.pc \in {"registering", "wanting"} => invite[r.item].state # "none"
      BY <2>2 DEF ArrivesAs
    <2> QED BY <2>2, <2>3, <2>4, InviteQuiet
  <1>3. ASSUME NEW x \in Slots, End(x), UNCHANGED <<invite, uses, enrolled>>,
               \A u \in Users : account'[u].here => account[u].here
        PROVE  InviteInv'
    BY <1>3, InviteQuiet DEF End
  <1>4. ASSUME NEW x \in Slots, LoginCommit(x) \/ Rotate(x) \/ DetectReuse(x)
                                \/ ForgotIssue(x) \/ Victim(x) \/ Drop(x)
        PROVE  InviteInv'
    BY <1>3, <1>4 DEF LoginCommit, Rotate, DetectReuse, ForgotIssue, Victim, Drop, rows, past
  <1>5. ASSUME NEW x \in Slots, ResetApply(x) PROVE InviteInv'
    <2>1. \A u \in Users : account'[u].here = account[u].here
      BY <1>5 DEF ResetApply, Types, Account
    <2> QED BY <1>3, <1>5, <2>1 DEF ResetApply
  <1>16. ASSUME NEW x \in Slots, ResetStart(x) PROVE InviteInv'
    <2>1. PICK r \in Request : req' = [req EXCEPT ![x] = r] /\ r.pc = "revoking"
      BY <1>16, Starting
    <2> QED BY <1>16, <2>1, InviteQuiet DEF ResetStart, rows, past
  <1>6. ASSUME NEW s \in Sessions, LogOut(s) PROVE InviteInv'
    BY <1>6 DEF LogOut, past, InviteInv, ConsumerHolds, SpentOnce, Enrols
  <1>7. ASSUME NEW x \in Slots, ForgotRetire(x) PROVE InviteInv'
    <2> DEFINE old == UnusedOf(req[x].user)
               q == req[x]
               r == [q EXCEPT !.pc = "issuing", !.held = old]
    <2>1. q \in Request /\ old \in SUBSET Resets /\ "issuing" \in Pc
      BY DEF UnusedOf, Types, Pc
    <2>2. UNCHANGED rows /\ req' = [req EXCEPT ![x] = r]
      BY <1>7 DEF ForgotRetire
    <2> HIDE DEF q, old
    <2>3. r \in Request /\ r.pc = "issuing"
      BY <2>1 DEF Request
    <2> HIDE DEF r
    <2> QED BY <2>2, <2>3, InviteQuiet DEF rows, past
  <1>8. ASSUME NEW x \in Slots, RegisterInsert(x) PROVE InviteInv'
    <2>1. ASSUME Advance(x, "wanting") PROVE InviteInv'
      <3>1. "wanting" \in Pc
        BY DEF Pc
      <3>2. PICK r \in Request : /\ req' = [req EXCEPT ![x] = r]
                                 /\ r.pc = "wanting" /\ r.item = req[x].item
        BY <2>1, <3>1, Advancing
      <3>3. invite[r.item].state # "none" /\ UNCHANGED rows
        BY <1>8, <3>2 DEF RegisterInsert, InviteInv, ConsumerHolds
      <3> QED BY <3>2, <3>3, InviteQuiet DEF rows, past
    <2> QED BY <1>3, <1>8, <2>1 DEF RegisterInsert, rows, past
  <1>9. ASSUME NEW x \in Slots, ConsumeLock(x) PROVE InviteInv'
    <2> DEFINE i == req[x].item
    <2>1. ASSUME Advance(x, "consuming"), Consumable(i, req[x].user) PROVE InviteInv'
      <3>1. "consuming" \in Pc
        BY DEF Pc
      <3>2. PICK r \in Request : /\ req' = [req EXCEPT ![x] = r]
                                 /\ r.pc = "consuming" /\ r.item = i
        BY <2>1, <3>1, Advancing
      <3>3. /\ i \in Invites /\ ~InviteHeld(i) /\ UNCHANGED rows
            /\ invite[i].state # "none"
        BY <1>9 DEF ConsumeLock, InviteInv, ConsumerHolds, Types, OfInvite
      <3>4. invite[i].state = "open"
        BY <2>1, <3>3 DEF Consumable, Spent, Types, Invite
      <3>5. ConsumerHolds'
        BY <3>2, <3>3, <3>4 DEF InviteInv, ConsumerHolds, InviteHeld, At, Types, rows, past
      <3> QED BY <3>2, <3>3, <3>5 DEF InviteInv, SpentOnce, Enrols, rows, past
    <2> QED BY <1>3, <1>9, <2>1 DEF ConsumeLock, rows, past
  <1>10. ASSUME NEW x \in Slots, ConsumeInsert(x) PROVE InviteInv'
    <2>1. ASSUME Advance(x, "enrolling") PROVE InviteInv'
      <3>1. "enrolling" \in Pc
        BY DEF Pc
      <3>2. PICK r \in Request : /\ req' = [req EXCEPT ![x] = r]
                                 /\ r.pc = "enrolling" /\ r.item = req[x].item
        BY <2>1, <3>1, Advancing
      <3>3. req[x].pc = "consuming" /\ UNCHANGED rows
        BY <1>10 DEF ConsumeInsert
      <3>4. ConsumerHolds'
        BY <3>2, <3>3 DEF InviteInv, ConsumerHolds, Types, rows, past
      <3> QED BY <3>2, <3>3, <3>4 DEF InviteInv, SpentOnce, Enrols, rows, past
    <2> QED BY <1>3, <1>10, <2>1 DEF ConsumeInsert, rows, past
  <1>11. ASSUME NEW x \in Slots, ConsumeCommit(x) PROVE InviteInv'
    <2> DEFINE i == req[x].item
               u == req[x].user
    <2>1. /\ i \in Invites /\ u \in Users /\ req[x].pc = "enrolling"
          /\ req' = [req EXCEPT ![x] = Idle]
          /\ enrolled' = enrolled \cup {u}
          /\ \A v \in Users : v # u => account'[v] = account[v]
          /\ uses' = [uses EXCEPT ![i] = uses[i] + 1]
      BY <1>11 DEF ConsumeCommit, End, Types, OfUser, OfInvite
    <2>2. \A j \in Invites : /\ j # i => invite'[j] = invite[j]
                             /\ j = i => invite'[j].state = "used"
      BY <1>11, <2>1 DEF ConsumeCommit, Types, Invite
    <2>3. /\ invite[i].state = "open"
          /\ \A y \in Slots : req[y].pc \in {"consuming", "enrolling"} /\ req[y].item = i
                => y = x
      BY <2>1 DEF InviteInv, ConsumerHolds
    <2>4. ConsumerHolds'
      BY <2>1, <2>2, <2>3 DEF InviteInv, ConsumerHolds, Types, OfInvite
    <2>5. SpentOnce'
      BY <2>1, <2>2, <2>3 DEF InviteInv, SpentOnce, Types
    <2>6. Enrols'
      BY <2>1 DEF InviteInv, Enrols
    <2> QED BY <2>4, <2>5, <2>6 DEF InviteInv
  <1>12. ASSUME NEW i \in Invites, CreateInvite(i) PROVE InviteInv'
    <2> DEFINE a == [NoInvite EXCEPT !.state = "open", !.to = Recipient[i]]
    <2>1. a.state = "open"
      BY DEF Invite
    <2>2. invite[i].state = "none" /\ invite' = [invite EXCEPT ![i] = a]
      BY <1>12 DEF CreateInvite, past
    <2> HIDE DEF a
    <2>3. UNCHANGED <<req, account, enrolled, uses>>
      BY <1>12 DEF CreateInvite, past
    <2> QED BY <2>1, <2>2, <2>3
        DEF InviteInv, ConsumerHolds, SpentOnce, Enrols, Types, OfInvite
  <1>13. ASSUME NEW u \in Users, DeleteAccount(u) PROVE InviteInv'
    <2>1. \A i \in Invites : \/ invite'[i].state = "removed"
                             \/ invite'[i].state = invite[i].state
      <3> TAKE i \in Invites
      <3> DEFINE gi == [NoInvite EXCEPT !.state = "removed"]
                 q == invite[i]
                 by == IF q.by = u THEN Nobody ELSE q.by
                 to == IF q.to = u THEN Nobody ELSE q.to
                 a == [q EXCEPT !.by = by, !.to = to]
      <3>1. gi.state = "removed"
        BY DEF Invite
      <3>2. q \in Invite
        BY DEF Types
      <3>3. invite'[i] = gi \/ invite'[i] = a
        BY <1>13 DEF DeleteAccount, Orphaned
      <3>4. q.state = invite[i].state
        OBVIOUS
      <3> HIDE DEF q, by, to
      <3>5. a.state = q.state
        BY <3>2 DEF Invite
      <3> QED BY <3>1, <3>3, <3>4, <3>5
    <2>2. /\ account' = [account EXCEPT ![u] = NoAccount]
          /\ enrolled' = enrolled \ {u} /\ UNCHANGED <<req, uses>>
          /\ \A x \in Slots : req[x] = Idle
      BY <1>13 DEF DeleteAccount, past
    <2> QED BY <2>1, <2>2 DEF InviteInv, ConsumerHolds, SpentOnce, Enrols, Types
  <1>14. CASE Lapse
    <2>1. \A i \in Invites : invite'[i].state = invite[i].state
      BY <1>14 DEF Lapse, Types, Invite
    <2> QED BY <1>14, <2>1
        DEF Lapse, past, InviteInv, ConsumerHolds, SpentOnce, Enrols, Types, OfInvite
  <1>15. CASE CleanUp
    <2> DEFINE gi == [NoInvite EXCEPT !.state = "removed"]
    <2>1. gi.state = "removed"
      BY DEF Invite
    <2>2. \/ \E i \in Invites : ~InviteHeld(i) /\ invite' = [invite EXCEPT ![i] = gi]
          \/ UNCHANGED invite
      BY <1>15 DEF CleanUp
    <2> HIDE DEF gi
    <2>3. UNCHANGED <<req, account, enrolled, uses>>
      BY <1>15 DEF CleanUp, past
    <2>4. CASE UNCHANGED invite
      BY <2>3, <2>4 DEF InviteInv, ConsumerHolds, SpentOnce, Enrols
    <2>5. ASSUME NEW i \in Invites, ~InviteHeld(i), invite' = [invite EXCEPT ![i] = gi]
          PROVE  InviteInv'
      <3>1. ConsumerHolds'
        BY <2>1, <2>3, <2>5 DEF InviteInv, ConsumerHolds, InviteHeld, At, Types, OfInvite
      <3> QED BY <2>1, <2>3, <2>5, <3>1 DEF InviteInv, SpentOnce, Enrols, Types
    <2> QED BY <2>2, <2>4, <2>5
  <1> QED
    BY <1>1, <1>2, <1>4, <1>5, <1>6, <1>7, <1>8, <1>9, <1>10, <1>11, <1>12, <1>13,
       <1>14, <1>15, <1>16 DEF Next, Step

\* An invitation enrols one student in its whole life, and a registration leaves
\* an account only with the enrolment it came for, whatever requests overlap.
THEOREM InvitationSpentOnce == Spec => []InvitationOnce
  <1>1. InviteInv => InvitationOnce
    BY DEF InviteInv, SpentOnce, Enrols, InvitationOnce
  <1> QED BY <1>1, TypesAlways, InviteInit, InviteInductive, PTL DEF Spec

-----------------------------------------------------------------------------
(* Password resets.                                                        *)

\* A token that a transaction holds is unused, and no other one holds it.
TokensHeld ==
    \A x \in Slots :
        /\ req[x].pc \notin {"issuing", "resetting", "revoking"} => req[x].held = {}
        /\ req[x].pc \in {"resetting", "revoking"} => req[x].held # {}
        /\ \A t \in req[x].held : /\ reset[t].state = "unused"
                                  /\ \A y \in Slots : t \in req[y].held => y = x

\* The row lock on the user: one request at a time replaces a user's tokens,
\* and it holds all that are left when it does.
UserLocked ==
    \A x \in Slots :
        /\ req[x].pc \in {"forgetting", "issuing"} =>
               \A y \in Slots :
                   req[y].pc \in {"forgetting", "issuing"} /\ req[y].user = req[x].user
                       => y = x
        /\ req[x].pc = "issuing" =>
               \A t \in Resets : reset[t].state = "unused" /\ reset[t].user = req[x].user
                                     => t \in req[x].held

OneUnused ==
    \A t, r \in Resets :
        reset[t].state = "unused" /\ reset[r].state = "unused"
            /\ reset[t].user = reset[r].user => t = r

ResetInv == TokensHeld /\ UserLocked /\ OneUnused

LEMMA ResetInit == Init => ResetInv
  BY Rows DEF Init, ResetInv, TokensHeld, UserLocked, OneUnused

\* What ends a request, or advances one that holds no token, and opens none.
LEMMA ResetQuiet ==
    ASSUME Types, ResetInv, UNCHANGED reset,
           NEW x \in Slots, NEW r \in Request, req' = [req EXCEPT ![x] = r],
           r.held = {}, r.pc \notin {"forgetting", "issuing", "resetting", "revoking"}
    PROVE  ResetInv'
  <1>1. TokensHeld'
    BY DEF Types, ResetInv, TokensHeld
  <1>2. UserLocked'
    BY DEF Types, ResetInv, UserLocked
  <1>3. OneUnused'
    BY DEF ResetInv, OneUnused
  <1> QED BY <1>1, <1>2, <1>3 DEF ResetInv

\* Tokens that nobody holds are taken out of use.
LEMMA ResetRetired ==
    ASSUME Types, ResetInv,
           \A x \in Slots : req'[x] = req[x] \/ req'[x] = Idle,
           \A t \in Resets :
               \/ reset'[t].state = reset[t].state /\ reset'[t].user = reset[t].user
               \/ /\ reset'[t].state # "unused"
                  /\ \A y \in Slots : t \in req[y].held => req'[y] = Idle
    PROVE  ResetInv'
  <1> USE Rows
  <1>1. TokensHeld'
    <2>1. ASSUME NEW x \in Slots, NEW t \in Resets, t \in req'[x].held
          PROVE  /\ req'[x] = req[x] /\ reset'[t].state = "unused"
                 /\ \A y \in Slots : t \in req'[y].held => y = x
      BY <2>1 DEF ResetInv, TokensHeld
    <2>2. \A x \in Slots : req'[x].held \subseteq Resets
      BY DEF Types, Request
    <2>3. ASSUME NEW x \in Slots
          PROVE  /\ req'[x].pc \notin {"issuing", "resetting", "revoking"} => req'[x].held = {}
                 /\ req'[x].pc \in {"resetting", "revoking"} => req'[x].held # {}
      BY DEF ResetInv, TokensHeld
    <2> QED BY <2>1, <2>2, <2>3 DEF TokensHeld
  <1>2. UserLocked'
    BY DEF ResetInv, UserLocked
  <1>3. OneUnused'
    BY DEF ResetInv, OneUnused
  <1> QED BY <1>1, <1>2, <1>3 DEF ResetInv

LEMMA ResetInductive == Types /\ ResetInv /\ [Next]_vars => ResetInv'
  <1> SUFFICES ASSUME Types, ResetInv, [Next]_vars PROVE ResetInv'
    OBVIOUS
  <1> USE Rows
  <1>1. CASE UNCHANGED vars
    BY <1>1 DEF vars, ResetInv, TokensHeld, UserLocked, OneUnused
  <1>2. ASSUME NEW x \in Slots, Arrive(x) PROVE ResetInv'
    <2>1. Arrived(x)
      BY <1>2, Arrivals
    <2>2. PICK r \in Request : req' = [req EXCEPT ![x] = r] /\ ArrivesAs(r)
      BY <2>1 DEF Arrived
    <2>3. UNCHANGED reset
      BY <2>1 DEF Arrived, rows, past
    <2>4. CASE r.pc = "forgetting"
      <3>1. ~UserHeld(r.user) /\ r.held = {}
        BY <2>2, <2>4 DEF ArrivesAs
      <3>2. UserLocked'
        BY <2>2, <2>3, <2>4, <3>1 DEF ResetInv, UserLocked, UserHeld, At, Types
      <3>3. TokensHeld'
        BY <2>2, <2>3, <2>4, <3>1 DEF ResetInv, TokensHeld, Types
      <3> QED BY <2>3, <3>2, <3>3 DEF ResetInv, OneUnused
    <2>5. CASE r.pc = "resetting"
      <3>1. PICK t \in Resets : /\ r.held = {t} /\ reset[t].state = "unused"
                                /\ ~ResetHeld(t)
        BY <2>2, <2>5 DEF ArrivesAs
      <3>2. TokensHeld'
        BY <2>2, <2>3, <2>5, <3>1 DEF ResetInv, TokensHeld, ResetHeld, Types
      <3>3. UserLocked'
        BY <2>2, <2>3, <2>5 DEF ResetInv, UserLocked, Types
      <3> QED BY <2>3, <3>2, <3>3 DEF ResetInv, OneUnused
    <2>6. CASE r.pc \notin {"forgetting", "resetting"}
      <3>1. r.held = {} /\ r.pc \notin {"issuing", "revoking"}
        BY <2>2, <2>6 DEF ArrivesAs
      <3> QED BY <2>2, <2>3, <2>6, <3>1, ResetQuiet
    <2> QED BY <2>4, <2>5, <2>6
  <1>3. ASSUME NEW x \in Slots, End(x), UNCHANGED reset PROVE ResetInv'
    BY <1>3, ResetQuiet DEF End
  <1>4. ASSUME NEW x \in Slots, NEW pc \in Pc, Advance(x, pc), UNCHANGED reset,
               {req[x].pc, pc} \subseteq OfInvite
        PROVE  ResetInv'
    <2>1. PICK r \in Request : /\ req' = [req EXCEPT ![x] = r] /\ r.pc = pc
                               /\ r.held = req[x].held
      BY <1>4, Advancing
    <2>2. req[x].held = {}
      BY <1>4 DEF ResetInv, TokensHeld, OfInvite
    <2> QED BY <1>4, <2>1, <2>2, ResetQuiet DEF OfInvite
  <1>5. ASSUME NEW x \in Slots, LoginCommit(x) \/ Rotate(x) \/ DetectReuse(x)
                                \/ Victim(x) \/ Drop(x) \/ ConsumeCommit(x)
        PROVE  ResetInv'
    BY <1>3, <1>5 DEF LoginCommit, Rotate, DetectReuse, Victim, Drop, ConsumeCommit, rows, past
  <1>6. ASSUME NEW x \in Slots, RegisterInsert(x) \/ ConsumeLock(x) \/ ConsumeInsert(x)
        PROVE  ResetInv'
    BY <1>3, <1>4, <1>6 DEF RegisterInsert, ConsumeLock, ConsumeInsert, Pc, OfInvite, rows, past
  <1>7. ASSUME NEW s \in Sessions, LogOut(s) PROVE ResetInv'
    BY <1>7 DEF LogOut, ResetInv, TokensHeld, UserLocked, OneUnused
  <1>8. ASSUME NEW i \in Invites, CreateInvite(i) PROVE ResetInv'
    BY <1>8 DEF CreateInvite, ResetInv, TokensHeld, UserLocked, OneUnused
  <1>9. ASSUME NEW x \in Slots, ForgotRetire(x) PROVE ResetInv'
    <2> DEFINE old == UnusedOf(req[x].user)
               q == req[x]
               r == [q EXCEPT !.pc = "issuing", !.held = old]
    <2>1. /\ q \in Request /\ old \in SUBSET Resets /\ "issuing" \in Pc
          /\ q = req[x] /\ old = UnusedOf(req[x].user)
      BY DEF UnusedOf, Types, Pc
    <2>2. UNCHANGED rows /\ req' = [req EXCEPT ![x] = r]
      BY <1>9 DEF ForgotRetire
    <2>3. req[x].pc = "forgetting" /\ \A t \in UnusedOf(req[x].user) : ~ResetHeld(t)
      BY <1>9 DEF ForgotRetire
    <2> HIDE DEF q, old
    <2>4. r \in Request /\ r.pc = "issuing" /\ r.user = q.user /\ r.held = old
      BY <2>1 DEF Request
    <2> HIDE DEF r
    <2>5. TokensHeld'
      <3>1. \A t \in r.held : reset[t].state = "unused" /\ ~ResetHeld(t)
        BY <2>1, <2>3, <2>4 DEF UnusedOf
      <3> QED BY <2>2, <2>4, <3>1 DEF ResetInv, TokensHeld, ResetHeld, Types, rows, past
    <2>6. UserLocked'
      BY <2>1, <2>2, <2>3, <2>4 DEF ResetInv, UserLocked, UnusedOf, Types, rows, past
    <2> QED BY <2>2, <2>5, <2>6 DEF ResetInv, OneUnused, rows, past
  <1>10. ASSUME NEW x \in Slots, ForgotIssue(x) PROVE ResetInv'
    <2> DEFINE u == req[x].user
    <2>1. /\ req[x].pc = "issuing" /\ req' = [req EXCEPT ![x] = Idle]
      BY <1>10 DEF ForgotIssue, End
    <2>2. PICK n \in Resets :
             /\ reset[n].state = "none"
             /\ reset' = [t \in Resets |->
                  IF t = n THEN [state |-> "unused", user |-> u, lapsed |-> FALSE]
                  ELSE IF t \in req[x].held THEN [reset[t] EXCEPT !.state = "used"]
                  ELSE reset[t]]
      BY <1>10 DEF ForgotIssue
    <2>3. \A t \in Resets :
             /\ t = n => reset'[t].state = "unused" /\ reset'[t].user = u
             /\ t # n /\ t \in req[x].held => reset'[t].state = "used"
             /\ t # n /\ t \notin req[x].held => reset'[t] = reset[t]
      BY <2>2 DEF Types, Reset
    <2>4. \A t \in Resets : t # n /\ reset'[t].state = "unused" =>
             /\ reset[t].state = "unused" /\ reset'[t].user = reset[t].user
             /\ reset[t].user # u /\ t \notin req[x].held
      BY <2>1, <2>3 DEF ResetInv, UserLocked
    <2>5. \A y \in Slots : /\ y # x => req'[y] = req[y] /\ req[y].held \cap req[x].held = {}
                           /\ y = x => req'[y] = Idle
                           /\ n \notin req[y].held /\ req[y].held \subseteq Resets
      BY <2>1, <2>2 DEF ResetInv, TokensHeld, Types, Request
    <2>6. TokensHeld'
      BY <2>3, <2>5 DEF ResetInv, TokensHeld
    <2>7. UserLocked'
      BY <2>1, <2>3, <2>4, <2>5 DEF ResetInv, UserLocked
    <2>8. OneUnused'
      BY <2>3, <2>4 DEF ResetInv, OneUnused
    <2> QED BY <2>6, <2>7, <2>8 DEF ResetInv
  <1>11. ASSUME NEW x \in Slots, ResetApply(x) PROVE ResetInv'
    <2>1. req' = [req EXCEPT ![x] = Idle]
      BY <1>11 DEF ResetApply, End
    <2>2. reset' = [t \in Resets |-> IF t \in req[x].held
                      THEN [reset[t] EXCEPT !.state = "used"] ELSE reset[t]]
      BY <1>11 DEF ResetApply
    <2>3. \A t \in Resets : /\ t \in req[x].held => reset'[t].state = "used"
                            /\ t \notin req[x].held => reset'[t] = reset[t]
      BY <2>2 DEF Types, Reset
    <2>4. \A y \in Slots : /\ req'[y] = req[y] \/ req'[y] = Idle
                           /\ \A t \in req[x].held : t \in req[y].held => req'[y] = Idle
      BY <2>1 DEF ResetInv, TokensHeld, Types
    <2> QED BY <2>3, <2>4, ResetRetired
  <1>15. ASSUME NEW x \in Slots, ResetStart(x) PROVE ResetInv'
    <2>1. PICK r \in Request : /\ req' = [req EXCEPT ![x] = r] /\ r.pc = "revoking"
                               /\ r.held = req[x].held
      BY <1>15, Starting
    <2>2. req[x].pc = "resetting" /\ UNCHANGED reset
      BY <1>15 DEF ResetStart, rows
    <2>3. TokensHeld'
      BY <2>1, <2>2 DEF ResetInv, TokensHeld, Types
    <2>4. UserLocked'
      BY <2>1, <2>2 DEF ResetInv, UserLocked, Types
    <2> QED BY <2>2, <2>3, <2>4 DEF ResetInv, OneUnused
  <1>12. ASSUME NEW u \in Users, DeleteAccount(u) PROVE ResetInv'
    <2> DEFINE gr == [NoReset EXCEPT !.state = "removed"]
    <2>1. gr.state = "removed"
      BY DEF Reset
    <2>2. /\ reset' = [t \in Resets |-> IF reset[t].user # u THEN reset[t] ELSE gr]
          /\ UNCHANGED req /\ \A x \in Slots : req[x] = Idle
      BY <1>12 DEF DeleteAccount
    <2> HIDE DEF gr
    <2> QED BY <2>1, <2>2, ResetRetired
  <1>13. CASE Lapse
    <2>1. \A t \in Resets : reset'[t].state = reset[t].state /\ reset'[t].user = reset[t].user
      <3>1. CASE UNCHANGED reset
        BY <3>1
      <3>2. ASSUME NEW t \in Resets, reset' = [reset EXCEPT ![t].lapsed = TRUE]
            PROVE  \A r \in Resets : /\ reset'[r].state = reset[r].state
                                     /\ reset'[r].user = reset[r].user
        BY <3>2 DEF Types, Reset
      <3> QED BY <1>13, <3>1, <3>2 DEF Lapse
    <2> QED BY <1>13, <2>1, ResetRetired DEF Lapse
  <1>14. CASE CleanUp
    <2> DEFINE gr == [NoReset EXCEPT !.state = "removed"]
    <2>1. gr.state = "removed"
      BY DEF Reset
    <2>2. \/ \E t \in Resets : ~ResetHeld(t) /\ reset' = [reset EXCEPT ![t] = gr]
          \/ UNCHANGED reset
      BY <1>14 DEF CleanUp
    <2>3. UNCHANGED req
      BY <1>14 DEF CleanUp
    <2> HIDE DEF gr
    <2>4. \A t \in Resets : \/ reset'[t] = reset[t]
                            \/ reset'[t] = gr /\ \A y \in Slots : t \notin req[y].held
      BY <2>2 DEF ResetHeld, Types
    <2> QED BY <2>1, <2>3, <2>4, ResetRetired
  <1> QED
    BY <1>1, <1>2, <1>5, <1>6, <1>7, <1>8, <1>9, <1>10, <1>11, <1>12, <1>13, <1>14,
       <1>15 DEF Next, Step

LEMMA ResetAlways == Spec => []ResetInv
  BY TypesAlways, ResetInit, ResetInductive, PTL DEF Spec

\* However many requests for a reset overlap, at most one token of a user works.
THEOREM LatestResetAlone == Spec => []LatestResetOnly
  <1>1. ASSUME Types, ResetInv, NEW u \in Users PROVE Cardinality(UnusedOf(u)) <= 1
    <2>1. CASE UnusedOf(u) = {}
      BY <2>1, FS_EmptySet
    <2>2. ASSUME NEW t \in UnusedOf(u) PROVE Cardinality(UnusedOf(u)) <= 1
      <3>1. UnusedOf(u) = {t}
        BY <1>1, <2>2 DEF UnusedOf, ResetInv, OneUnused
      <3> QED BY <3>1, FS_Singleton
    <2> QED BY <2>1, <2>2
  <1>2. Types /\ ResetInv => LatestResetOnly
    BY <1>1 DEF LatestResetOnly
  <1> QED BY <1>2, TypesAlways, ResetAlways, PTL

-----------------------------------------------------------------------------
(* Types, with the bound on password numbers: every new password uses up a *)
(* reset token.                                                            *)

UsedUp == {t \in Resets : reset[t].state \notin {"none", "unused"}}

Numbers ==
    /\ \A u \in Users : account[u].pw <= 1 + Cardinality(UsedUp)
    /\ \A s \in Sessions : session[s].pw <= 1 + MaxResets
    /\ \A x \in Slots : req[x].pw <= 1 + MaxResets

LEMMA UsedUpFinite == IsFiniteSet(UsedUp) /\ Cardinality(UsedUp) \in 0 .. MaxResets
  <1>1. IsFiniteSet(Resets) /\ Cardinality(Resets) = MaxResets
    BY FS_Interval, AccountsAssumption DEF Resets
  <1>2. UsedUp \in SUBSET Resets
    BY DEF UsedUp
  <1>3. /\ IsFiniteSet(UsedUp) /\ Cardinality(UsedUp) <= Cardinality(Resets)
    BY <1>1, <1>2, FS_Subset
  <1>4. Cardinality(UsedUp) \in Nat
    BY <1>3, FS_CardinalityType
  <1> QED BY <1>1, <1>3, <1>4, AccountsAssumption

\* A token that is used up stays so.
LEMMA UsedUpGrows == ASSUME Types, ResetInv, [Next]_vars PROVE UsedUp \subseteq UsedUp'
  <1> SUFFICES ASSUME NEW t \in Resets, reset[t].state \notin {"none", "unused"}
               PROVE  reset'[t].state \notin {"none", "unused"}
    BY DEF UsedUp
  <1>1. CASE UNCHANGED reset
    BY <1>1
  <1>2. ASSUME NEW x \in Slots, ForgotIssue(x)
        PROVE reset'[t].state \notin {"none", "unused"}
    <2>1. \/ reset'[t] = reset[t] \/ t \in req[x].held
      BY <1>2 DEF ForgotIssue
    <2> QED BY <2>1 DEF ResetInv, TokensHeld
  <1>3. ASSUME NEW x \in Slots, ResetApply(x)
        PROVE reset'[t].state \notin {"none", "unused"}
    <2>1. reset'[t] = reset[t] \/ t \in req[x].held
      BY <1>3 DEF ResetApply
    <2> QED BY <2>1 DEF ResetInv, TokensHeld
  <1>4. ASSUME NEW u \in Users, DeleteAccount(u)
        PROVE reset'[t].state \notin {"none", "unused"}
    <2>1. [NoReset EXCEPT !.state = "removed"].state = "removed"
      BY Rows DEF Reset
    <2> QED BY <1>4, <2>1 DEF DeleteAccount
  <1>5. CASE Lapse
    BY <1>1, <1>5 DEF Lapse, Types, Reset
  <1>6. CASE CleanUp
    <2> DEFINE gr == [NoReset EXCEPT !.state = "removed"]
    <2>1. gr.state = "removed"
      BY Rows DEF Reset
    <2>2. \/ \E r \in Resets : reset' = [reset EXCEPT ![r] = gr]
          \/ UNCHANGED reset
      BY <1>6 DEF CleanUp
    <2> HIDE DEF gr
    <2> QED BY <2>1, <2>2 DEF Types
  <1>7. ASSUME NEW x \in Slots, Arrive(x) \/ Drop(x) PROVE UNCHANGED reset
    BY <1>7, Arrivals DEF Arrived, Drop, rows
  <1>8. ASSUME NEW x \in Slots, Step(x) PROVE \/ UNCHANGED reset \/ ForgotIssue(x)
                                              \/ ResetApply(x)
    BY <1>8 DEF Step, LoginCommit, Rotate, DetectReuse, ForgotRetire, ResetStart, Victim,
       RegisterInsert, ConsumeLock, ConsumeInsert, ConsumeCommit, rows
  <1> QED
    BY <1>1, <1>2, <1>3, <1>4, <1>5, <1>6, <1>7, <1>8
    DEF Next, LogOut, CreateInvite, vars

\* A request keeps the number of the password it verified when it began.
LEMMA Requests ==
    ASSUME Types, [Next]_vars, NEW x \in Slots
    PROVE  \/ req'[x].pw = req[x].pw \/ req'[x].pw = 0
           \/ \E u \in Users : req'[x].pw = account[u].pw
  <1>0. Idle.pw = 0
    BY DEF Idle
  <1>1. CASE UNCHANGED req
    BY <1>1
  <1>2. ASSUME NEW y \in Slots, End(y) PROVE req'[x].pw = req[x].pw \/ req'[x].pw = 0
    BY <1>0, <1>2 DEF End, Types
  <1>3. ASSUME NEW y \in Slots, Arrive(y)
        PROVE  \/ req'[x].pw = req[x].pw \/ req'[x].pw = 0
               \/ \E u \in Users : req'[x].pw = account[u].pw
    <2>1. ASSUME NEW u \in Users, LoginCheck(y, u)
          PROVE  req'[x].pw = req[x].pw \/ req'[x].pw = account[u].pw
      BY <2>1, Rows DEF LoginCheck, Types, Request, Idle
    <2>2. ASSUME NEW u, NEW i, NEW op, NEW pc, Begin(y, op, pc, u, i)
          PROVE  req'[x].pw = req[x].pw \/ req'[x].pw = 0
      BY <1>0, <2>2 DEF Begin, Types, Idle
    <2>3. ASSUME NEW s \in Sessions, NEW n \in 1 .. MaxTokens, RefreshLock(y, s, n)
          PROVE  req'[x].pw = req[x].pw \/ req'[x].pw = 0
      BY <1>0, <2>3 DEF RefreshLock, Types, Idle
    <2>4. ASSUME NEW t \in Resets, ResetLock(y, t)
          PROVE  req'[x].pw = req[x].pw \/ req'[x].pw = 0
      BY <1>0, <2>4 DEF ResetLock, Types, Idle
    <2> QED BY <1>3, <2>1, <2>2, <2>3, <2>4 DEF Arrive, ForgotLock, RegisterCheck, JoinBegin
  <1>4. ASSUME NEW y \in Slots, NEW pc \in Pc, Advance(y, pc) PROVE req'[x].pw = req[x].pw
    BY <1>4, Advancing DEF Types
  <1>5. ASSUME NEW y \in Slots, ForgotRetire(y) \/ ResetStart(y) PROVE req'[x].pw = req[x].pw
    <2>1. CASE ResetStart(y)
      BY <2>1, Starting DEF Types
    <2>2. CASE ForgotRetire(y)
      <3> DEFINE q == req[y]
                 old == UnusedOf(req[y].user)
                 r == [q EXCEPT !.pc = "issuing", !.held = old]
      <3>1. /\ q \in Request /\ q = req[y] /\ req' = [req EXCEPT ![y] = r]
        BY <2>2 DEF ForgotRetire, Types
      <3> HIDE DEF q, old
      <3>2. r.pw = q.pw
        BY <3>1 DEF Request
      <3> HIDE DEF r
      <3> QED BY <3>1, <3>2 DEF Types
    <2> QED BY <1>5, <2>1, <2>2
  <1>6. ASSUME NEW y \in Slots, Step(y) \/ Drop(y)
        PROVE  \/ End(y) \/ ForgotRetire(y) \/ ResetStart(y)
               \/ \E pc \in Pc : Advance(y, pc)
    BY <1>6 DEF Step, Drop, LoginCommit, Rotate, DetectReuse, ForgotIssue, ResetApply,
       Victim, RegisterInsert, ConsumeLock, ConsumeInsert, ConsumeCommit, Pc
  <1>7. CASE \E y \in Slots : Arrive(y) \/ Step(y) \/ Drop(y)
    BY <1>2, <1>3, <1>4, <1>5, <1>6, <1>7
  <1> QED BY <1>1, <1>7
      DEF Next, LogOut, CreateInvite, DeleteAccount, Lapse, CleanUp, vars

LEMMA NumbersInit == Init => Numbers
  <1> SUFFICES ASSUME Init PROVE Numbers
    OBVIOUS
  <1>1. Cardinality(UsedUp) \in Nat
    BY UsedUpFinite, AccountsAssumption
  <1>2. \A u \in Users : account[u].pw \in {0, 1}
    BY DEF Init, NoAccount
  <1>3. /\ \A s \in Sessions : session[s].pw = 0
        /\ \A x \in Slots : req[x].pw = 0
    BY DEF Init, NoSession, Idle
  <1> QED BY <1>1, <1>2, <1>3, AccountsAssumption DEF Numbers

LEMMA NumbersInductive == Types /\ ResetInv /\ Numbers /\ [Next]_vars => Numbers'
  <1> SUFFICES ASSUME Types, ResetInv, Numbers, [Next]_vars PROVE Numbers'
    OBVIOUS
  <1> DEFINE k == Cardinality(UsedUp)
             l == Cardinality(UsedUp')
  <1>1. k \in 0 .. MaxResets
    BY UsedUpFinite
  <1>2. IsFiniteSet(UsedUp') /\ l \in 0 .. MaxResets /\ l = Cardinality(UsedUp)'
    <2>1. IsFiniteSet(UsedUp)' /\ (Cardinality(UsedUp) \in 0 .. MaxResets)'
      BY UsedUpFinite, PTL
    <2> QED BY <2>1
  <1>3. UsedUp \in SUBSET UsedUp'
    BY UsedUpGrows
  <1>4. k <= l
    BY <1>2, <1>3, FS_Subset
  <1> HIDE DEF k, l
  <1>5. \A u \in Users : account[u].pw <= 1 + k /\ account[u].pw \in Nat
    BY DEF Numbers, Types, Account, k
  <1>60. \A x \in Slots : req'[x].pw <= 1 + MaxResets
    BY <1>1, <1>5, Requests, AccountsAssumption DEF Numbers
  <1>6. ASSUME \A u \in Users : account'[u] = account[u] \/ account'[u].pw <= 1,
               \A s \in Sessions : \/ session'[s].pw = session[s].pw
                                   \/ session'[s].pw = 0
                                   \/ \E x \in Slots : session'[s].pw = req[x].pw
        PROVE  Numbers'
    <2>1. \A u \in Users : account'[u].pw <= 1 + l
      <3>1. \A u \in Users : account'[u].pw \in Nat
        BY TypesInductive DEF Types, Account
      <3> QED BY <1>1, <1>2, <1>4, <1>5, <1>6, <3>1
    <2>2. \A s \in Sessions : session'[s].pw <= 1 + MaxResets
      BY <1>6, AccountsAssumption DEF Numbers
    <2> QED BY <1>2, <1>60, <2>1, <2>2 DEF Numbers
  <1>7. ASSUME NEW x \in Slots, ResetApply(x) PROVE Numbers'
    <2> DEFINE u == req[x].user
    <2>1. PICK t \in req[x].held : reset[t].state = "unused" /\ t \in Resets
      BY <1>7 DEF ResetApply, ResetInv, TokensHeld, Types, Request
    <2>2. t \in UsedUp' /\ t \notin UsedUp
      BY <1>7, <2>1 DEF ResetApply, UsedUp, Types, Reset
    <2>3. k < l
      <3>1. k # l
        BY <1>2, <1>3, <2>2, FS_Subset DEF k, l
      <3> QED BY <1>1, <1>2, <1>4, <3>1
    <2>4. \A v \in Users : account'[v].pw \in {account[v].pw, account[v].pw + 1}
      BY <1>7 DEF ResetApply, Types, Account
    <2>5. \A v \in Users : account'[v].pw <= 1 + l
      BY <1>1, <1>2, <1>5, <2>3, <2>4
    <2>6. \A s \in Sessions : session'[s].pw = session[s].pw
      BY <1>7 DEF ResetApply, Types, Session
    <2> QED BY <1>2, <1>60, <2>5, <2>6 DEF Numbers
  <1>8. CASE UNCHANGED <<account, session>>
    BY <1>6, <1>8
  <1>9. ASSUME NEW x \in Slots, LoginCommit(x) PROVE Numbers'
    <2>2. \A s \in Sessions : \/ session'[s].pw = session[s].pw
                              \/ session'[s].pw = req[x].pw
      BY <1>9, SMTT(30) DEF LoginCommit, Types
    <2> QED BY <1>6, <1>9, <2>2 DEF LoginCommit
  <1>10. ASSUME NEW x \in Slots, Rotate(x) \/ DetectReuse(x) PROVE Numbers'
    <2>1. \A s \in Sessions : session'[s].pw = session[s].pw
      <3>1. req[x].item \in Sessions
        BY <1>10 DEF Rotate, DetectReuse, Types
      <3>2. CASE Rotate(x)
        BY <3>1, <3>2 DEF Rotate, Types, Session
      <3>3. CASE DetectReuse(x)
        BY <3>1, <3>3 DEF DetectReuse, Ended, Types, Session
      <3> QED BY <1>10, <3>2, <3>3
    <2> QED BY <1>6, <1>10, <2>1 DEF Rotate, DetectReuse
  <1>11. ASSUME NEW s \in Sessions, LogOut(s) PROVE Numbers'
    <2>1. \A r \in Sessions : session'[r].pw = session[r].pw
      BY <1>11 DEF LogOut, Types, Session
    <2> QED BY <1>6, <1>11, <2>1 DEF LogOut
  <1>12. ASSUME NEW x \in Slots, ConsumeCommit(x) PROVE Numbers'
    <2>1. \A u \in Users : account'[u] = account[u] \/ account'[u].pw = 1
      BY <1>12 DEF ConsumeCommit, Types
    <2> QED BY <1>6, <1>12, <2>1 DEF ConsumeCommit
  <1>13. ASSUME NEW u \in Users, DeleteAccount(u) PROVE Numbers'
    <2> DEFINE gs == [NoSession EXCEPT !.state = "removed"]
    <2>1. NoAccount.pw = 0 /\ NoSession \in Session /\ NoSession.pw = 0
      BY Rows DEF NoAccount, NoSession
    <2>2. gs.pw = 0
      BY <2>1 DEF Session
    <2>3. /\ account' = [account EXCEPT ![u] = NoAccount]
          /\ session' = [s \in Sessions |-> IF session[s].user # u THEN session[s] ELSE gs]
      BY <1>13 DEF DeleteAccount
    <2> HIDE DEF gs
    <2>4. \A v \in Users : account'[v] = account[v] \/ account'[v].pw <= 1
      BY <2>1, <2>3 DEF Types
    <2>5. \A s \in Sessions : session'[s].pw = session[s].pw \/ session'[s].pw = 0
      BY <2>2, <2>3
    <2> QED BY <1>6, <2>4, <2>5
  <1>14. CASE Lapse
    <2>1. \A s \in Sessions : session'[s].pw = session[s].pw
      <3>1. ASSUME NEW r \in Sessions, session' = [session EXCEPT ![r].lapsed = TRUE]
            PROVE  \A s \in Sessions : session'[s].pw = session[s].pw
        BY <3>1 DEF Types, Session
      <3> QED BY <1>14, <3>1 DEF Lapse
    <2> QED BY <1>6, <1>14, <2>1 DEF Lapse
  <1>15. CASE CleanUp
    <2> DEFINE gs == [NoSession EXCEPT !.state = "removed"]
    <2>1. NoSession \in Session /\ NoSession.pw = 0
      BY Rows DEF NoSession
    <2>2. gs.pw = 0
      BY <2>1 DEF Session
    <2>3. \/ \E s \in Sessions : session' = [session EXCEPT ![s] = gs]
          \/ UNCHANGED session
      BY <1>15 DEF CleanUp
    <2> HIDE DEF gs
    <2>4. \A s \in Sessions : session'[s].pw = session[s].pw \/ session'[s].pw = 0
      BY <2>2, <2>3 DEF Types
    <2> QED BY <1>6, <1>15, <2>4 DEF CleanUp
  <1>16. ASSUME NEW x \in Slots, Arrive(x) \/ Drop(x) PROVE UNCHANGED <<account, session>>
    BY <1>16, Arrivals DEF Arrived, Drop, rows
  <1>17. ASSUME NEW x \in Slots, ResetStart(x) \/ ForgotRetire(x) \/ ForgotIssue(x) \/ Victim(x)
                \/ RegisterInsert(x) \/ ConsumeLock(x) \/ ConsumeInsert(x)
         PROVE  UNCHANGED <<account, session>>
    BY <1>17 DEF ResetStart, ForgotRetire, ForgotIssue, Victim, RegisterInsert, ConsumeLock,
       ConsumeInsert, rows
  <1> QED
    BY <1>7, <1>8, <1>9, <1>10, <1>11, <1>12, <1>13, <1>14, <1>15, <1>16, <1>17
    DEF Next, Step, CreateInvite, vars

\* Every row keeps its columns, and a user has no more passwords than resets.
THEOREM TypeCorrect == Spec => []TypeOK
  <1>1. ASSUME Types, Numbers PROVE TypeOK
    <2>1. Cardinality(UsedUp) \in 0 .. MaxResets
      BY UsedUpFinite
    <2>2. \A u \in Users : account[u].pw \in Nat /\ account[u].pw <= 1 + Cardinality(UsedUp)
      BY <1>1 DEF Types, Account, Numbers
    <2>3. \A u \in Users : account[u].pw \in 0 .. MaxResets + 1
      <3> DEFINE k == Cardinality(UsedUp)
      <3> HIDE DEF k
      <3>1. k \in 0 .. MaxResets /\ \A u \in Users : account[u].pw \in Nat /\ account[u].pw <= 1 + k
        BY <2>1, <2>2 DEF k
      <3> QED BY <3>1, AccountsAssumption
    <2>4. \A s \in Sessions : session[s].pw \in 0 .. MaxResets + 1
      BY <1>1, AccountsAssumption DEF Types, Session, Numbers
    <2>5. \A u \in Users : account[u] \in [here : BOOLEAN, pw : 0 .. MaxResets + 1]
      BY <1>1, <2>3 DEF Types, Account
    <2>6. \A s \in Sessions :
             session[s] \in [state : {"none", "open", "revoked", "reused", "removed"},
                             user : Users \cup {Nobody}, token : 0 .. MaxTokens,
                             pw : 0 .. MaxResets + 1, late : BOOLEAN,
                             lapsed : BOOLEAN]
      BY <1>1, <2>4 DEF Types, Session
    <2> QED BY <1>1, <2>5, <2>6 DEF Types, TypeOK, Reset, Invite
  <1>2. Spec => []Numbers
    BY TypesAlways, ResetAlways, NumbersInit, NumbersInductive, PTL DEF Spec
  <1> QED BY <1>1, <1>2, TypesAlways, PTL

=============================================================================
