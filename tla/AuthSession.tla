---------------------------- MODULE AuthSession ----------------------------
(***************************************************************************)
(* Accounts: refresh sessions, password resets and invitations, as         *)
(* services/auth.py and routers/auth.py keep them in PostgreSQL.           *)
(*                                                                         *)
(* A request is one database transaction.  The rows it holds with          *)
(* SELECT ... FOR UPDATE, and the rows it has inserted and not committed,  *)
(* are read off its program counter: another transaction that needs one of *)
(* them waits.  A refused request changes nothing and is a stuttering      *)
(* step.  Passwords are counted (pw is the number of the present one), the *)
(* refresh tokens of a session are numbered in the order it issued them.   *)
(***************************************************************************)
EXTENDS Naturals, FiniteSets

CONSTANTS Users,        \* e-mail addresses of students
          Provisioned,  \* those that have an account at the start
          Slots,        \* requests the API serves at once
          MaxSessions, MaxTokens, MaxResets,   \* bounds on what is ever issued
          Invites,      \* invitations to the one course
          Recipient,    \* the address an invitation is for, or Nobody
          Nobody,
          Workloads     \* sets of operations the clients of a behaviour use

ASSUME AccountsAssumption ==
  /\ Provisioned \subseteq Users
  /\ Nobody \notin Users
  /\ Recipient \in [Invites -> Users \cup {Nobody}]
  /\ MaxSessions \in Nat /\ MaxResets \in Nat
  /\ MaxTokens \in Nat \ {0}   \* a session has a token from the start

Sessions == 1 .. MaxSessions
Resets   == 1 .. MaxResets

VARIABLES offered,   \* the operations clients send in this behaviour
          account,   \* users: does the row exist, which password
          session,   \* auth_sessions
          reset,     \* password_reset_tokens
          invite,    \* invite_links
          enrolled,  \* enrollments
          req,       \* the transactions in progress
          exchanged, \* history: how often a session's token was exchanged
          replayed,  \* history: sessions a replaced token was presented to
          outlived,  \* history: sessions older than a completed password reset
          uses       \* history: how often an invitation enrolled someone

past == <<exchanged, replayed, outlived, uses>>
vars == <<offered, account, session, reset, invite, enrolled, req, past>>
rows == <<account, session, reset, invite, enrolled, past>>

\* The request of a slot: the user and the session or invitation it is about,
\* the refresh token it carries, the password it verified, the reset tokens it
\* holds, the sessions its UPDATE is to end; prior is history, the sessions its
\* user had when that UPDATE began.
Idle == [pc |-> "idle", user |-> Nobody, item |-> 0, token |-> 0, pw |-> 0,
         held |-> {}, ends |-> {}, prior |-> {}]

NoAccount == [here |-> FALSE, pw |-> 0]
\* pw and late are history: the password that the sign-in verified, and whether
\* the sign-in overlapped a reset.
NoSession == [state |-> "none", user |-> Nobody, token |-> 0, pw |-> 0, late |-> FALSE,
              lapsed |-> FALSE]
NoReset   == [state |-> "none", user |-> Nobody, lapsed |-> FALSE]
NoInvite  == [state |-> "none", by |-> Nobody, to |-> Nobody, lapsed |-> FALSE]

Init ==
  /\ offered \in Workloads
  /\ account = [u \in Users |->
       IF u \in Provisioned THEN [here |-> TRUE, pw |-> 1] ELSE NoAccount]
  /\ session = [s \in Sessions |-> NoSession]
  /\ reset = [t \in Resets |-> NoReset]
  /\ invite = [i \in Invites |-> NoInvite]
  /\ enrolled = {}
  /\ req = [x \in Slots |-> Idle]
  /\ exchanged = [s \in Sessions |-> [n \in 1 .. MaxTokens |-> 0]]
  /\ replayed = {}
  /\ outlived = {}
  /\ uses = [i \in Invites |-> 0]

----------------------------------------------------------------------------
(* Rows held by the transactions in progress.                              *)

At(pc) == {x \in Slots : req[x].pc = pc}

UserHeld(u) == \E x \in At("forgetting") \cup At("issuing") : req[x].user = u
\* A reset has written the password: FOR UPDATE waits for it, a foreign key does not.
Revoking(u) == \E x \in At("revoking") : req[x].user = u
ResetHeld(t) == \E x \in Slots : t \in req[x].held
\* Mutant: rotate_refresh_token reads the session without with_for_update().
SessionFree(s) == FALSE
SessionHeld(s) == \E x \in At("rotating") \cup At("replaying") : req[x].item = s
InviteHeld(i) == \E x \in At("consuming") \cup At("enrolling") : req[x].item = i

\* An account row that a registration has inserted and not committed.
Registering(u) == \E x \in Slots :
  /\ req[x].user = u /\ ~account[u].here
  /\ req[x].pc \in {"wanting", "consuming", "enrolling"}

Enrolling(u) == \E x \in At("enrolling") : req[x].user = u

Begin(x, op, pc, u, i) ==
  /\ op \in offered /\ req[x] = Idle
  /\ req' = [req EXCEPT ![x] = [Idle EXCEPT !.pc = pc, !.user = u, !.item = i]]
  /\ UNCHANGED offered

Advance(x, pc) ==
  req' = [req EXCEPT ![x].pc = pc] /\ UNCHANGED offered

End(x) == req' = [req EXCEPT ![x] = Idle] /\ UNCHANGED offered

\* session_is_active: what every authenticated request asks first.
Active(s) == session[s].state = "open" /\ ~session[s].lapsed

----------------------------------------------------------------------------
(* Signing in, refreshing, signing out.                                    *)

\* authenticate_user reads the password hash without a lock.
LoginCheck(x, u) ==
  /\ "login" \in offered /\ req[x] = Idle
  /\ account[u].here
  /\ req' = [req EXCEPT ![x] =
       [Idle EXCEPT !.pc = "authenticated", !.user = u, !.pw = account[u].pw]]
  /\ UNCHANGED offered
  /\ UNCHANGED rows

\* A reset was completed since the password was verified, or is under way.
Overlapped(x) == req[x].pw # account[req[x].user].pw \/ Revoking(req[x].user)

\* The password is not looked at again, and the row of a session that is not
\* committed is invisible to the UPDATE of a reset.
LoginCommit(x) ==
  /\ req[x].pc = "authenticated"
  /\ ~UserHeld(req[x].user)   \* the foreign key asks for the row
  /\ \/ \E s \in Sessions :
        /\ session[s].state = "none"
        /\ \A r \in 1 .. (s - 1) : session[r].state # "none"
        /\ session' = [session EXCEPT ![s] =
                  [state |-> "open", user |-> req[x].user, token |-> 1,
                   pw |-> req[x].pw, late |-> Overlapped(x), lapsed |-> FALSE]]
     \/ /\ \A s \in Sessions : session[s].state # "none"   \* bound reached
        /\ UNCHANGED session
  /\ End(x)
  /\ UNCHANGED <<account, reset, invite, enrolled, past>>

\* The signature and the claims leave only tokens this server issued: a session
\* and one of the numbers it has had.
Issued(s) == 1 .. session[s].token

\* A client presents token n of session s: the last one, or an older one when
\* the answer to an earlier refresh was lost or another tab got it.
RefreshLock(x, s, n) ==
  /\ "refresh" \in offered /\ req[x] = Idle
  /\ Active(s) /\ ~SessionHeld(s)
  /\ n \in Issued(s)
  /\ n < MaxTokens
  /\ req' = [req EXCEPT ![x] =
       [Idle EXCEPT !.pc = IF n = session[s].token THEN "rotating" ELSE "replaying",
                    !.user = session[s].user, !.item = s, !.token = n]]
  /\ UNCHANGED offered
  /\ UNCHANGED rows

Rotate(x) ==
  LET s == req[x].item
      n == req[x].token
  IN /\ req[x].pc = "rotating"
     /\ session' = [session EXCEPT ![s].token = n + 1]
     /\ exchanged' = [exchanged EXCEPT ![s][n] = @ + 1]
     /\ End(x)
     /\ UNCHANGED <<account, reset, invite, enrolled, replayed, outlived, uses>>

\* The revocation is committed before the exception that reports it.
Ended(s) == [session EXCEPT ![s].state = "reused"]

DetectReuse(x) ==
  /\ req[x].pc = "replaying"
  /\ session' = Ended(req[x].item)
  /\ replayed' = replayed \cup {req[x].item}
  /\ End(x)
  /\ UNCHANGED <<account, reset, invite, enrolled, exchanged, outlived, uses>>

LogOut(s) ==
  /\ "logout" \in offered
  /\ Active(s) /\ ~SessionHeld(s)
  /\ session' = [session EXCEPT ![s].state = "revoked"]
  /\ UNCHANGED <<offered, req, account, reset, invite, enrolled, past>>

----------------------------------------------------------------------------
(* Password reset.  forgot_password locks the user and then the tokens,    *)
(* reset_password the token and then the user.                             *)

ForgotLock(x, u) ==
  /\ account[u].here /\ ~UserHeld(u) /\ ~Enrolling(u) /\ ~Revoking(u)
  /\ Cardinality({t \in Resets : reset[t].state = "none"})
       > Cardinality(At("forgetting") \cup At("issuing"))   \* MaxResets
  /\ Begin(x, "forgot", "forgetting", u, 0)
  /\ UNCHANGED rows

UnusedOf(u) == {t \in Resets : reset[t].user = u /\ reset[t].state = "unused"}

\* The UPDATE of the older tokens takes their rows, the INSERT follows it.
ForgotRetire(x) ==
  LET old == UnusedOf(req[x].user) IN
  /\ req[x].pc = "forgetting"
  /\ \A t \in old : ~ResetHeld(t)
  /\ req' = [req EXCEPT ![x].pc = "issuing", ![x].held = old]
  /\ UNCHANGED offered
  /\ UNCHANGED rows

ForgotIssue(x) ==
  /\ req[x].pc = "issuing"
  /\ \E t \in Resets :
       /\ reset[t].state = "none"
       /\ \A r \in 1 .. (t - 1) : reset[r].state # "none"
       /\ reset' = [r \in Resets |->
            IF r = t THEN [state |-> "unused", user |-> req[x].user, lapsed |-> FALSE]
            ELSE IF r \in req[x].held THEN [reset[r] EXCEPT !.state = "used"]
            ELSE reset[r]]
  /\ End(x)
  /\ UNCHANGED <<account, session, invite, enrolled, past>>

ResetLock(x, t) ==
  /\ "reset" \in offered /\ req[x] = Idle
  /\ reset[t].state = "unused" /\ ~reset[t].lapsed /\ ~ResetHeld(t)
  /\ req' = [req EXCEPT ![x] = [Idle EXCEPT !.pc = "resetting", !.user = reset[t].user,
                                            !.held = {t}]]
  /\ UNCHANGED offered
  /\ UNCHANGED rows

\* Mutant: the reset ends one session, as a sign-out does.
RevokedOne(u) == {s \in Sessions : /\ session[s].user = u /\ session[s].state = "open"
                                   /\ \A r \in 1 .. (s - 1) : session[r].state # "open"}

\* The sessions the reset ends: every one not yet revoked, lapsed or not.
Revoked(u) == {s \in Sessions : session[s].user = u /\ session[s].state = "open"}

\* The new password is flushed, which takes the user's row; then the UPDATE of
\* the sessions begins and finds the ones that are committed by now.
ResetStart(x) ==
  LET u == req[x].user IN
  /\ req[x].pc = "resetting"
  /\ ~UserHeld(u) /\ ~Revoking(u)
  /\ req' = [req EXCEPT ![x].pc = "revoking", ![x].ends = Revoked(u),
                        ![x].prior = {s \in Sessions : session[s].user = u}]
  /\ UNCHANGED offered
  /\ UNCHANGED rows

\* It waits for their rows and asks each again whether it is still open.
ResetApply(x) ==
  LET u == req[x].user
      ended == {s \in req[x].ends : session[s].state = "open"}
  IN
  /\ req[x].pc = "revoking"
  /\ \A s \in ended : ~SessionHeld(s)
  /\ account' = [account EXCEPT ![u].pw = @ + 1]
  /\ reset' = [t \in Resets |->
       IF t \in req[x].held THEN [reset[t] EXCEPT !.state = "used"] ELSE reset[t]]
  /\ session' = [s \in Sessions |->
       IF s \in ended THEN [session[s] EXCEPT !.state = "revoked"] ELSE session[s]]
  /\ outlived' = outlived \cup req[x].prior
  /\ End(x)
  /\ UNCHANGED <<invite, enrolled, exchanged, replayed, uses>>

\* The two orders meet: PostgreSQL aborts one of the two.  An aborted forgot is
\* logged and answered like any other, an aborted reset is an error.
Deadlocked(x) ==
  \/ /\ req[x].pc = "forgetting"
     /\ \E t \in UnusedOf(req[x].user) : ResetHeld(t)
  \/ /\ req[x].pc = "resetting"
     /\ \E y \in At("forgetting") : req[y].user = req[x].user

Victim(x) ==
  /\ Deadlocked(x)
  /\ End(x)
  /\ UNCHANGED rows

----------------------------------------------------------------------------
(* Invitations.  A registration inserts its account first and consumes its *)
(* invitation in the same transaction.                                     *)

CreateInvite(i) ==
  /\ {"register", "join"} \cap offered # {}
  /\ invite[i].state = "none"
  /\ invite' = [invite EXCEPT ![i] = [NoInvite EXCEPT !.state = "open", !.to = Recipient[i]]]
  /\ UNCHANGED <<offered, req, account, session, reset, enrolled, past>>

RegisterCheck(x, u, i) ==
  /\ ~account[u].here
  /\ invite[i].state # "none"
  /\ Begin(x, "register", "registering", u, i)
  /\ UNCHANGED rows

\* The unique index on the address makes a second registration wait for the
\* first and then fail; create_user read no such row before.
RegisterInsert(x) ==
  /\ req[x].pc = "registering"
  /\ ~Registering(req[x].user)
  /\ IF account[req[x].user].here THEN End(x) ELSE Advance(x, "wanting")
  /\ UNCHANGED rows

JoinBegin(x, u, i) ==
  /\ account[u].here
  /\ invite[i].state # "none"
  /\ Begin(x, "join", "wanting", u, i)
  /\ UNCHANGED rows

\* Mutant: used_by alone is asked, which the deletion of an account clears.
SpentBy(i) == invite[i].by # Nobody

\* What consume_invitation checks once it holds the invitation.
Spent(i) == invite[i].state = "used"
Addressed(i, u) == invite[i].to \in {Nobody, u}

Consumable(i, u) ==
  /\ invite[i].state # "removed"
  /\ Addressed(i, u)
  /\ ~Spent(i)
  /\ ~invite[i].lapsed
  /\ u \notin enrolled

\* Mutant: a request waits for its invitation to become usable.
ConsumeWait(x) ==
  /\ req[x].pc = "wanting"
  /\ ~InviteHeld(req[x].item)
  /\ Consumable(req[x].item, req[x].user)
  /\ Advance(x, "consuming")
  /\ UNCHANGED rows

ConsumeLock(x) ==
  LET i == req[x].item IN
  /\ req[x].pc = "wanting"
  /\ ~InviteHeld(i)
  /\ IF Consumable(i, req[x].user) THEN Advance(x, "consuming") ELSE End(x)
  /\ UNCHANGED rows

\* unique_enrollment: a concurrent insert of the same pair is waited for.
ConsumeInsert(x) ==
  /\ req[x].pc = "consuming"
  /\ ~Enrolling(req[x].user) /\ ~UserHeld(req[x].user)
  /\ IF req[x].user \in enrolled THEN End(x) ELSE Advance(x, "enrolling")
  /\ UNCHANGED rows

ConsumeCommit(x) ==
  LET i == req[x].item
      u == req[x].user
  IN /\ req[x].pc = "enrolling"
     /\ enrolled' = enrolled \cup {u}
     /\ invite' = [invite EXCEPT ![i].state = "used", ![i].by = u]
     /\ account' = [account EXCEPT ![u] =
          IF @.here THEN @ ELSE [here |-> TRUE, pw |-> 1]]
     /\ uses' = [uses EXCEPT ![i] = @ + 1]
     /\ End(x)
     /\ UNCHANGED <<session, reset, exchanged, replayed, outlived>>

----------------------------------------------------------------------------
(* Failure, time, the operator.                                            *)

\* The process dies or the connection breaks before the commit.
Drop(x) ==
  /\ req[x] # Idle
  /\ End(x)
  /\ UNCHANGED rows

Lapse ==
  /\ \/ \E s \in Sessions : /\ Active(s)
                            /\ session' = [session EXCEPT ![s].lapsed = TRUE]
                            /\ UNCHANGED <<reset, invite>>
     \/ \E t \in Resets : /\ reset[t].state = "unused" /\ ~reset[t].lapsed
                          /\ reset' = [reset EXCEPT ![t].lapsed = TRUE]
                          /\ UNCHANGED <<session, invite>>
     \/ \E i \in Invites : /\ invite[i].state = "open" /\ ~invite[i].lapsed
                           /\ invite' = [invite EXCEPT ![i].lapsed = TRUE]
                           /\ UNCHANGED <<session, reset>>
  /\ UNCHANGED <<offered, req, account, enrolled, past>>

\* cleanup_retention removes rows whose expiry is long past and that nobody
\* holds (skip_locked); a used or revoked row expires too.
CleanUp ==
  /\ "clean" \in offered
  /\ \/ \E s \in Sessions :
          /\ session[s].state \in {"open", "revoked", "reused"} /\ ~SessionHeld(s)
          /\ session[s].state = "open" => session[s].lapsed
          /\ session' = [session EXCEPT ![s] = [NoSession EXCEPT !.state = "removed"]]
          /\ UNCHANGED <<reset, invite>>
     \/ \E t \in Resets :
          /\ reset[t].state \in {"unused", "used"} /\ ~ResetHeld(t)
          /\ reset[t].state = "unused" => reset[t].lapsed
          /\ reset' = [reset EXCEPT ![t] = [NoReset EXCEPT !.state = "removed"]]
          /\ UNCHANGED <<session, invite>>
     \/ \E i \in Invites :
          /\ invite[i].state \in {"open", "used"} /\ ~InviteHeld(i)
          /\ invite[i].state = "open" => invite[i].lapsed
          /\ invite' = [invite EXCEPT ![i] = [NoInvite EXCEPT !.state = "removed"]]
          /\ UNCHANGED <<session, reset>>
  /\ UNCHANGED <<offered, req, account, enrolled, past>>

\* delete_account, run by an operator with the writers stopped.  An unused
\* invitation for the address goes, a used one keeps used_at and loses used_by.
Orphaned(i, u) ==
  IF invite[i].state = "open" /\ invite[i].to = u
  THEN [NoInvite EXCEPT !.state = "removed"]
  ELSE [invite[i] EXCEPT !.by = IF @ = u THEN Nobody ELSE @,
                         !.to = IF @ = u THEN Nobody ELSE @]

DeleteAccount(u) ==
  /\ "delete" \in offered
  /\ account[u].here
  /\ \A x \in Slots : req[x] = Idle
  /\ account' = [account EXCEPT ![u] = NoAccount]
  /\ session' = [s \in Sessions |-> IF session[s].user # u THEN session[s]
                                    ELSE [NoSession EXCEPT !.state = "removed"]]
  /\ reset' = [t \in Resets |-> IF reset[t].user # u THEN reset[t]
                                ELSE [NoReset EXCEPT !.state = "removed"]]
  /\ invite' = [i \in Invites |-> Orphaned(i, u)]
  /\ enrolled' = enrolled \ {u}
  /\ UNCHANGED <<offered, req, past>>

----------------------------------------------------------------------------
\* The steps of a transaction after its first, which the server takes by itself.
Step(x) ==
  \/ LoginCommit(x) \/ Rotate(x) \/ DetectReuse(x)
  \/ ForgotRetire(x) \/ ForgotIssue(x)
  \/ ResetStart(x) \/ ResetApply(x) \/ Victim(x)
  \/ RegisterInsert(x) \/ ConsumeLock(x) \/ ConsumeInsert(x) \/ ConsumeCommit(x)

Arrive(x) ==
  \/ \E u \in Users : LoginCheck(x, u) \/ ForgotLock(x, u)
  \/ \E s \in Sessions, n \in 1 .. MaxTokens : RefreshLock(x, s, n)
  \/ \E t \in Resets : ResetLock(x, t)
  \/ \E u \in Users, i \in Invites : RegisterCheck(x, u, i) \/ JoinBegin(x, u, i)

Next ==
  \/ \E x \in Slots : Arrive(x) \/ Step(x) \/ Drop(x)
  \/ \E s \in Sessions : LogOut(s)
  \/ \E i \in Invites : CreateInvite(i)
  \/ \E u \in Users : DeleteAccount(u)
  \/ Lapse
  \/ CleanUp

Spec == Init /\ [][Next]_vars

\* PostgreSQL grants a row lock in the order it was asked for: a transaction
\* that waits is not overtaken for ever.
FairSpec == Spec /\ \A x \in Slots : SF_vars(Step(x))

----------------------------------------------------------------------------
\* The rows keep their columns.
TypeOK ==
  /\ account \in [Users -> [here : BOOLEAN, pw : 0 .. MaxResets + 1]]
  /\ session \in [Sessions -> [state : {"none", "open", "revoked", "reused", "removed"},
                               user : Users \cup {Nobody}, token : 0 .. MaxTokens,
                               pw : 0 .. MaxResets + 1, late : BOOLEAN,
                               lapsed : BOOLEAN]]
  /\ reset \in [Resets -> [state : {"none", "unused", "used", "removed"},
                           user : Users \cup {Nobody}, lapsed : BOOLEAN]]
  /\ invite \in [Invites -> [state : {"none", "open", "used", "removed"},
                             by : Users \cup {Nobody}, to : Users \cup {Nobody},
                             lapsed : BOOLEAN]]
  /\ enrolled \subseteq Users

\* A token of a session is exchanged at most once however many requests carry
\* it at the same time, and a session to which a replaced token was presented
\* (an answer was lost, a second tab was slow) has ended: the chain of tokens
\* that rotate_refresh_token keeps has no fork.
TokenExchangedOnce ==
  \A s \in Sessions :
    /\ \A n \in 1 .. MaxTokens : exchanged[s][n] <= 1
    /\ s \in replayed => ~Active(s)

\* A reset "revokes every existing session": none that was committed when its
\* UPDATE began is in use after it, whatever refreshes of it overlap.  A session
\* in use was made with the present password, or by a sign-in that overlapped a
\* reset: one that had verified the old password and was not committed.
ResetSignsOut ==
  \A s \in Sessions : Active(s) =>
    /\ s \notin outlived
    /\ session[s].pw = account[session[s].user].pw \/ session[s].late

\* What "Sign in again on every device" says of them too: no session is in use
\* that was made with an earlier password.  The overlapping sign-in breaks it.
PasswordSignsOut ==
  \A s \in Sessions : Active(s) => session[s].pw = account[session[s].user].pw

\* The user's row lock in forgot_password keeps overlapping requests from each
\* leaving a usable token: only the last e-mail works.
LatestResetOnly == \A u \in Users : Cardinality(UnusedOf(u)) <= 1

\* An invitation enrols one student in its whole life, also when that student's
\* account is deleted, and a registration leaves an account only together with
\* the enrolment that paid for it.
InvitationOnce ==
  /\ \A i \in Invites : uses[i] <= 1
  /\ \A u \in Users \ Provisioned : account[u].here => u \in enrolled

\* Every request comes to an end: no cycle of row locks lasts, and none is
\* kept by a request that was refused.
RequestsEnd == \A x \in Slots : (req[x] # Idle) ~> (req[x] = Idle)
=============================================================================
