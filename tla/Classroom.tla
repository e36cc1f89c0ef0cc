----------------------------- MODULE Classroom -----------------------------
(***************************************************************************)
(* One flashcard set: an instructor's requests review, edit, publish and   *)
(* delete it while students answer its cards and repeat answers whose      *)
(* response they did not get (services/flashcard.py, services/subject.py   *)
(* and the routers that own their transactions).                           *)
(*                                                                         *)
(* A request is one transaction under READ COMMITTED.  Reviews hold the    *)
(* row of the set; an answer holds its receipt and its progress row and,   *)
(* through the foreign key of the receipt, keeps its card from deletion.   *)
(***************************************************************************)
EXTENDS Integers, Sequences, FiniteSets

CONSTANTS Students, Cards,
          Generated,     \* cards a generation job left for review
          OptionLists,   \* the lists of options instructors write
          Texts,         \* their texts, the right answers among them
          Selections,    \* what students send: an index, a text, or no answer
          Edits,         \* what instructors send for a card
          Answerers, Reviewers,   \* requests in progress at once
          MaxKeys,       \* bound on the idempotency keys of a student
          MaxDays,       \* days from now to the last date there is
          Workloads      \* which operations meet in a behaviour, and how many
                         \* keys it uses

ASSUME ClassroomAssumption ==
  /\ Generated \subseteq Cards
  /\ MaxKeys \in Nat /\ MaxDays \in Nat
  /\ \A w \in Workloads : w.keys \in 0 .. MaxKeys
  /\ "none" \notin Cards
  /\ \A opts \in OptionLists : 1 \in DOMAIN opts
  /\ \A edit \in Edits : edit.state \in {"same", "pending", "approved"}

VARIABLES offered,    \* what clients send in this behaviour
          card,       \* flashcards
          exists, published,   \* the set
          progress,   \* study_progress
          receipt,    \* study_answer_submissions
          answer,     \* the answering requests
          review,     \* the instructor's requests
          report,     \* a student's statistics request
          trail,      \* history: what the audit events say, replayed
          told        \* history: responses given

vars == <<offered, card, exists, published, progress, receipt, answer, review, report, trail, told>>
study == <<progress, receipt, answer, told>>
editing == <<offered, card, exists, published, review, trail>>

NoCard    == [state |-> "none", opts |-> <<>>, back |-> "none"]
NoReceipt == [card |-> "none", index |-> 0, good |-> FALSE, row |-> <<>>]
NoAnswer  == [pc |-> "idle"]
NoReview  == [pc |-> "idle"]
NoReport  == [pc |-> "idle", total |-> 0, studied |-> 0, right |-> 0]

\* The row get_or_create_progress inserts; ease is in tenths.
NewRow == [status |-> "new", ease |-> 25, interval |-> 0, right |-> 0, wrong |-> 0]

Keys == 1 .. MaxKeys

Present(c) == card[c].state \in {"pending", "approved"}
Approved(c) == card[c].state = "approved"

\* A set as an earlier review left it.
Init ==
  /\ offered \in Workloads
  /\ published \in BOOLEAN
  /\ \E opts \in OptionLists, state \in {"pending", "approved"} :
       /\ published => state = "approved"
       /\ card = [c \in Cards |->
            IF c \in Generated THEN [state |-> state, opts |-> opts, back |-> opts[1]]
            ELSE NoCard]
       /\ trail = [card |-> [c \in Cards |-> c \in Generated /\ state = "approved"],
                   set |-> published, true |-> TRUE, exact |-> TRUE]
  /\ exists = TRUE
  /\ progress = [s \in Students |-> [c \in Cards |-> NewRow]]
  /\ receipt = [s \in Students |-> [k \in Keys |-> NoReceipt]]
  /\ answer = [x \in Answerers |-> NoAnswer]
  /\ review = [e \in Reviewers |-> NoReview]
  /\ report = NoReport
  /\ told = {}

----------------------------------------------------------------------------
(* The schedule.                                                           *)

\* round() of a product of floats: at a tie either neighbour, for the product
\* is not exact.
Rounded(tenths) ==
  {n \in {tenths \div 10, tenths \div 10 + 1} : 2 * (10 * n - tenths) \in -10 .. 10}

StatusOf(days) == IF days >= 21 THEN "mastered" ELSE IF days >= 7 THEN "review" ELSE "learning"

Forgotten(row) == [row EXCEPT !.wrong = @ + 1, !.interval = 0, !.status = "learning"]

Remembered(row) ==
  {[row EXCEPT !.right = @ + 1, !.interval = n, !.ease = @ + 1, !.status = StatusOf(n)] :
     n \in IF row.interval = 0 THEN {1}
           ELSE IF row.interval = 1 THEN {6}
           ELSE Rounded(row.interval * row.ease)}

Graded(row, good) == IF good THEN Remembered(row) ELSE {Forgotten(row)}

----------------------------------------------------------------------------
(* Answers.                                                                *)

Holding(pcs) == {x \in Answerers : answer[x].pc \in pcs}

\* Rows of uncommitted receipts and of locked progress.
KeyHeld(s, k) == \E x \in Holding({"reserved", "graded"}) : answer[x].student = s /\ answer[x].key = k
CardHeld(c) == \E x \in Holding({"reserved", "graded"}) : answer[x].card = c

\* Mutant: no lock on the progress row.
RowFree(s, c) == FALSE

RowHeld(s, c) == \E x \in Holding({"graded"}) : answer[x].student = s /\ answer[x].card = c

EndAnswer(x) == answer' = [answer EXCEPT ![x] = NoAnswer]

\* The option a selection means on the card as it was read; 0 for no answer.
Chosen(c, sel) ==
  IF sel.by = "index" THEN {sel.at}
  ELSE IF sel.by = "text" THEN {i \in DOMAIN card[c].opts : card[c].opts[i] = sel.at}
  ELSE {0}

Used(s) == {k \in Keys : receipt[s][k] # NoReceipt}
           \cup {answer[x].key : x \in {y \in Holding({"resolved", "reserved", "graded"}) :
                                            answer[y].student = s}}

\* The route checks the card, the set and the enrolment and resolves the
\* selection.  Keys are taken in order: a new answer has the first unused one.
Submit(x, s, c, k, sel) ==
  /\ "answer" \in offered.ops /\ answer[x] = NoAnswer
  /\ k <= offered.keys
  /\ k \in Used(s) \/ (1 .. (k - 1)) \subseteq Used(s)
  /\ exists /\ published /\ Approved(c)
  /\ \E i \in Chosen(c, sel) :
       answer' = [answer EXCEPT ![x] =
         [pc |-> "resolved", student |-> s, card |-> c, key |-> k, index |-> i,
          good |-> i # 0 /\ card[c].opts[i] = card[c].back]]
  /\ UNCHANGED <<editing, progress, receipt, told, report>>

\* Mutant: the progress as it is now, not the stored response.
ResponseNow(s, k) == [good |-> receipt[s][k].good, row |-> progress[s][receipt[s][k].card]]

Response(s, k) == [good |-> receipt[s][k].good, row |-> receipt[s][k].row]

Tell(s, k, c, i, response) ==
  told' = told \cup {[student |-> s, key |-> k, card |-> c, index |-> i, response |-> response]}

\* INSERT ... ON CONFLICT DO NOTHING, which waits for a conflicting insert.
Reserve(x) ==
  LET a == answer[x]
      r == receipt[a.student][a.key]
  IN /\ a.pc = "resolved"
     /\ ~KeyHeld(a.student, a.key)
     /\ \/ /\ r = NoReceipt /\ Present(a.card)
           /\ answer' = [answer EXCEPT ![x].pc = "reserved"]
           /\ UNCHANGED told
        \/ /\ r = NoReceipt /\ ~Present(a.card)      \* foreign key
           /\ EndAnswer(x) /\ UNCHANGED told
        \/ /\ r # NoReceipt /\ <<r.card, r.index>> # <<a.card, a.index>>   \* 409
           /\ EndAnswer(x) /\ UNCHANGED told
        \/ /\ r # NoReceipt /\ <<r.card, r.index>> = <<a.card, a.index>>
           /\ EndAnswer(x)
           /\ Tell(a.student, a.key, a.card, a.index, Response(a.student, a.key))
     /\ UNCHANGED <<editing, progress, receipt, report>>

\* The upsert and the row lock, then the new row.
Grade(x) ==
  LET a == answer[x] IN
  /\ a.pc = "reserved"
  /\ ~RowHeld(a.student, a.card)
  /\ \E row \in Graded(progress[a.student][a.card], a.good) :
       IF row.interval <= MaxDays
       THEN answer' = [answer EXCEPT ![x] =
              [pc |-> "graded", student |-> a.student, card |-> a.card, key |-> a.key,
               index |-> a.index, good |-> a.good, row |-> row]]
       ELSE EndAnswer(x)      \* OverflowError of now + timedelta
  /\ UNCHANGED <<editing, progress, receipt, told, report>>

CommitAnswer(x) ==
  LET a == answer[x] IN
  /\ a.pc = "graded"
  /\ progress' = [progress EXCEPT ![a.student][a.card] = a.row]
  /\ receipt' = [receipt EXCEPT ![a.student][a.key] =
       [card |-> a.card, index |-> a.index, good |-> a.good, row |-> a.row]]
  /\ Tell(a.student, a.key, a.card, a.index, [good |-> a.good, row |-> a.row])
  /\ EndAnswer(x)
  /\ UNCHANGED <<editing, report>>

\* The connection or the process is lost before the commit.
LoseAnswer(x) ==
  /\ answer[x] # NoAnswer
  /\ EndAnswer(x)
  /\ UNCHANGED <<editing, progress, receipt, told, report>>

----------------------------------------------------------------------------
(* Statistics: one statement counts the cards, another sums the progress.  *)

Studied(s) == {c \in Cards : Approved(c) /\ progress[s][c].right + progress[s][c].wrong > 0}

CountCards(s) ==
  /\ "report" \in offered.ops
  /\ exists /\ published /\ report.pc = "idle"
  /\ report' = [NoReport EXCEPT !.pc = "counted",
                                !.total = Cardinality({c \in Cards : Approved(c)})]
  /\ UNCHANGED <<editing, study>>

SumProgress(s) ==
  /\ report.pc = "counted"
  /\ report' = IF report.total = 0 THEN [NoReport EXCEPT !.pc = "shown"]
               ELSE [report EXCEPT !.pc = "shown", !.studied = Cardinality(Studied(s)),
                       !.right = Cardinality({c \in Studied(s) : progress[s][c].right > 0})]
  /\ UNCHANGED <<editing, study>>

Dismiss ==
  /\ report.pc = "shown"
  /\ report' = NoReport
  /\ UNCHANGED <<editing, study>>

----------------------------------------------------------------------------
(* Reviews.                                                                *)

\* Mutant: the set is read without its lock.
SetFree == FALSE

SetHeld == \E e \in Reviewers : review[e].pc = "holding"

EndReview(e) == review' = [review EXCEPT ![e] = NoReview]

\* What the audit events say, event by event.
CardEvent(c, before, after) ==
  [trail EXCEPT !.card[c] = after, !.true = @ /\ before = trail.card[c] /\ before # after]
SetEvent(before, after) ==
  [trail EXCEPT !.set = after, !.true = @ /\ before = trail.set /\ before # after]

\* One event counts the cards of a bulk approval.  It is true if it counts all
\* that were left to approve and beyond them only cards that are gone, exact if
\* it counts nothing else.
ApprovalEvent(cards) ==
  LET left == {c \in Cards : Present(c) /\ ~trail.card[c]} IN
  [trail EXCEPT !.card = [c \in Cards |-> trail.card[c] \/ c \in cards],
                !.true = @ /\ left = {c \in cards : Present(c)}
                           /\ \A c \in cards \ left : card[c].state = "deleted",
                !.exact = @ /\ cards = left]

CreateCard(c, opts, t) ==
  /\ "create" \in offered.ops /\ card[c].state = "none"
  /\ exists /\ ~SetHeld
  /\ \E i \in DOMAIN opts : opts[i] = t
  /\ card' = [card EXCEPT ![c] = [state |-> "approved", opts |-> opts, back |-> t]]
  /\ trail' = CardEvent(c, FALSE, TRUE)
  /\ UNCHANGED <<study, report, offered, exists, published, review>>

\* update_flashcard finds the card, locks its set and reads the card again.
OpenCard(e, c, edit) ==
  /\ "card" \in offered.ops /\ review[e] = NoReview
  /\ exists /\ Present(c)
  /\ review' = [review EXCEPT ![e] = [pc |-> "opened", card |-> c, edit |-> edit]]
  /\ UNCHANGED <<study, report, offered, card, exists, published, trail>>

LockCard(e) ==
  /\ review[e].pc = "opened"
  /\ ~SetHeld
  /\ IF exists /\ Present(review[e].card)
     THEN review' = [review EXCEPT ![e] =
            [pc |-> "holding", kind |-> "card", card |-> review[e].card,
             edit |-> review[e].edit, seen |-> card[review[e].card]]]
     ELSE EndReview(e)
  /\ UNCHANGED <<study, report, offered, card, exists, published, trail>>

\* The fields a request sets, over those of a row.
Merged(row, edit) ==
  [state |-> IF edit.state = "same" THEN row.state ELSE edit.state,
   opts  |-> IF edit.opts = <<>> THEN row.opts ELSE edit.opts,
   back  |-> IF edit.back = "none" THEN row.back ELSE edit.back]

\* normalize_multiple_choice: the right answer is one of the options.
Valid(row) == \E i \in DOMAIN row.opts : row.opts[i] = row.back

SaveCard(e) ==
  LET v == review[e]
      c == v.card
  IN /\ v.pc = "holding" /\ v.kind = "card"
     /\ IF Present(c) /\ Valid(Merged(v.seen, v.edit))
        THEN /\ card' = [card EXCEPT ![c] = Merged(@, v.edit)]
             /\ trail' = IF v.edit.state \in {"same", v.seen.state} THEN trail
                         ELSE CardEvent(c, v.seen.state = "approved", v.edit.state = "approved")
        ELSE UNCHANGED <<card, trail>>     \* 422, or the row is gone
     /\ EndReview(e)
     /\ UNCHANGED <<study, report, offered, exists, published>>

LockSet(e, kind) ==
  /\ kind \in offered.ops /\ review[e] = NoReview
  /\ exists /\ ~SetHeld
  /\ review' = [review EXCEPT ![e] =
       [pc |-> "holding", kind |-> kind, published |-> published,
        pending |-> {c \in Cards : card[c].state = "pending"}]]
  /\ UNCHANGED <<study, report, offered, card, exists, published, trail>>

\* A single UPDATE fails if its row is gone.  More of them go out as one batch,
\* whose rows nobody counts: what is left is approved, the event counts all.
ApproveAll(e) ==
  LET pending == review[e].pending IN
  /\ review[e].pc = "holding" /\ review[e].kind = "all"
  /\ IF pending # {} /\ \A c \in pending : pending = {c} => Present(c)
     THEN /\ card' = [c \in Cards |->
               IF c \in pending /\ Present(c) THEN [card[c] EXCEPT !.state = "approved"]
               ELSE card[c]]
          /\ trail' = ApprovalEvent(pending)
     ELSE UNCHANGED <<card, trail>>        \* nothing to do, or StaleDataError
  /\ EndReview(e)
  /\ UNCHANGED <<study, report, offered, exists, published>>

Publish(e) ==
  /\ review[e].pc = "holding" /\ review[e].kind = "publish"
  /\ IF \E c \in Cards : Approved(c)
     THEN /\ published' = TRUE
          /\ trail' = IF review[e].published THEN trail ELSE SetEvent(FALSE, TRUE)
     ELSE UNCHANGED <<published, trail>>   \* 409
  /\ EndReview(e)
  /\ UNCHANGED <<study, report, offered, card, exists>>

Unpublish(e) ==
  /\ review[e].pc = "holding" /\ review[e].kind = "unpublish"
  /\ published' = FALSE
  /\ trail' = IF review[e].published THEN SetEvent(TRUE, FALSE) ELSE trail
  /\ EndReview(e)
  /\ UNCHANGED <<study, report, offered, card, exists>>

LoseReview(e) ==
  /\ review[e] # NoReview
  /\ EndReview(e)
  /\ UNCHANGED <<study, report, offered, card, exists, published, trail>>

\* Deletions take no lock first; the foreign keys cascade.
Without(gone) ==
  /\ card' = [c \in Cards |-> IF c \in gone THEN [NoCard EXCEPT !.state = "deleted"] ELSE card[c]]
  /\ progress' = [s \in Students |-> [c \in Cards |->
                    IF c \in gone THEN NewRow ELSE progress[s][c]]]
  /\ receipt' = [s \in Students |-> [k \in Keys |->
                   IF receipt[s][k].card \in gone THEN NoReceipt ELSE receipt[s][k]]]
  /\ told' = {t \in told : t.card \notin gone}

DeleteCard(c) ==
  /\ "delete" \in offered.ops
  /\ Present(c) /\ ~CardHeld(c)
  /\ Without({c})
  /\ UNCHANGED <<offered, exists, published, review, answer, report, trail>>

DeleteSet ==
  /\ "delete" \in offered.ops
  /\ exists /\ ~SetHeld
  /\ \A c \in Cards : ~CardHeld(c)
  /\ exists' = FALSE /\ published' = FALSE
  /\ trail' = [trail EXCEPT !.set = FALSE]
  /\ Without({c \in Cards : Present(c)})
  /\ UNCHANGED <<offered, review, answer, report>>

----------------------------------------------------------------------------
Next ==
  \/ \E x \in Answerers :
       \/ \E s \in Students, c \in Cards, k \in Keys, sel \in Selections : Submit(x, s, c, k, sel)
       \/ Reserve(x) \/ Grade(x) \/ CommitAnswer(x) \/ LoseAnswer(x)
  \/ \E s \in Students : CountCards(s) \/ SumProgress(s)
  \/ Dismiss
  \/ \E e \in Reviewers :
       \/ \E c \in Cards, edit \in Edits : OpenCard(e, c, edit)
       \/ \E kind \in {"all", "publish", "unpublish"} : LockSet(e, kind)
       \/ LockCard(e) \/ SaveCard(e) \/ ApproveAll(e) \/ Publish(e) \/ Unpublish(e)
       \/ LoseReview(e)
  \/ \E c \in Cards, opts \in OptionLists, t \in Texts : CreateCard(c, opts, t)
  \/ \E c \in Cards : DeleteCard(c)
  \/ DeleteSet

Spec == Init /\ [][Next]_vars

----------------------------------------------------------------------------
\* One logical answer counts once: the totals of a card's progress are the
\* number of its receipts, and the receipts show every total on the way, so
\* that no answer was lost to another one of the same card, or counted twice
\* because it was sent twice.
AnsweredOnce ==
  \A s \in Students, c \in Cards :
    LET given == {k \in Keys : receipt[s][k].card = c}
        row   == progress[s][c]
    IN /\ row.right + row.wrong = Cardinality(given)
       /\ {receipt[s][k].row.right + receipt[s][k].row.wrong : k \in given}
            = 1 .. Cardinality(given)

\* A student who repeats an answer under its key gets the response of the
\* first time, whatever other answers and edits came between.
SameAnswerAgain ==
  \A t, u \in told :
    (t.student = u.student /\ t.key = u.key /\ t.card = u.card /\ t.index = u.index)
      => t.response = u.response

\* What the database accepts of a progress row, and of a card: the status goes
\* with the interval, and the right answer of every card is one of its options
\* though requests change the one and the other at the same time.
RowsAccepted ==
  /\ \A s \in Students, c \in Cards : LET row == progress[s][c] IN
       \/ row.status = "new" /\ row.interval = 0
       \/ row.status = "learning" /\ row.interval \in 0 .. 6
       \/ row.status = "review" /\ row.interval \in 7 .. 20
       \/ row.status = "mastered" /\ row.interval >= 21
  /\ \A c \in Cards : Present(c) => Valid(card[c])

\* The audit events, replayed, are transitions and lead to the present state:
\* "Serializing set review/publication keeps audit transitions accurate when
\* multiple instructors' browser requests race to approve the same card."  A
\* bulk approval counts each card it approved, and beyond these only cards that
\* were deleted while it ran.
AuditTrail ==
  /\ trail.true
  /\ \A c \in Cards : Present(c) => trail.card[c] = Approved(c)
  /\ trail.set = published

\* What approve_all_flashcards says it returns and records, the "Number of cards
\* approved".  A deletion that overlaps it breaks this: it takes no lock.
ApprovalsCounted == trail.exact

\* The percentages of a statistics response are between 0 and 100.
ReportInRange == report.right <= report.total /\ report.studied <= report.total
=============================================================================
