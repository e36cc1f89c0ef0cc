-------------------------- MODULE Classroom_proofs --------------------------
(***************************************************************************)
(* Theorems about Classroom, for any students, cards, options, edits,      *)
(* requests, keys and workloads that satisfy ClassroomAssumption.          *)
(***************************************************************************)
EXTENDS Classroom, FiniteSetTheorems, TLAPS

----------------------------------------------------------------------------
(* Answers.                                                                *)

Statuses == {"new", "learning", "review", "mastered"}

Row == [status : Statuses, ease : Nat, interval : Nat, right : Nat, wrong : Nat]

\* The answers a row of progress counts.
Sum(row) == row.right + row.wrong

\* The status goes with the interval.
Legal(row) ==
  \/ row.status = "new" /\ row.interval = 0
  \/ row.status = "learning" /\ row.interval \in 0 .. 6
  \/ row.status = "review" /\ row.interval \in 7 .. 20
  \/ row.status = "mastered" /\ row.interval >= 21

Columns == {"pc", "student", "card", "key", "index", "good"}

\* What an answering request holds at each point of its program.
AnswerOK(a) ==
  \/ a = NoAnswer
  \/ /\ a.pc \in {"resolved", "reserved", "graded"}
     /\ a.student \in Students /\ a.card \in Cards /\ a.key \in Keys
     /\ a.pc # "graded" => DOMAIN a = Columns
     /\ a.pc = "graded" => a.row \in Row /\ Legal(a.row)

Types ==
  /\ progress \in [Students -> [Cards -> Row]]
  /\ DOMAIN receipt = Students /\ \A s \in Students : DOMAIN receipt[s] = Keys
  /\ \A s \in Students, k \in Keys : receipt[s][k] = NoReceipt \/ receipt[s][k].card \in Cards
  /\ DOMAIN answer = Answerers /\ \A x \in Answerers : AnswerOK(answer[x])
  /\ \A t \in told : t.student \in Students /\ t.key \in Keys /\ t.card \in Cards

RowsLegal == \A s \in Students, c \in Cards : Legal(progress[s][c])

Holds(x) == answer[x].pc \in {"reserved", "graded"}

\* A key is held by one request at a time, and so is a row of progress.
KeysDistinct ==
  \A x, y \in Answerers :
    (Holds(x) /\ Holds(y) /\ answer[x].student = answer[y].student /\ answer[x].key = answer[y].key)
      => x = y

RowsDistinct ==
  \A x, y \in Answerers :
    (/\ answer[x].pc = "graded" /\ answer[y].pc = "graded"
     /\ answer[x].student = answer[y].student /\ answer[x].card = answer[y].card) => x = y

\* Whoever holds a key has found it unused, and whoever graded an answer counted
\* it on top of the progress as it still is.
HeldUnused == \A x \in Answerers : Holds(x) => receipt[answer[x].student][answer[x].key] = NoReceipt

GradedNext ==
  \A x \in Answerers : answer[x].pc = "graded" =>
    Sum(answer[x].row) = Sum(progress[answer[x].student][answer[x].card]) + 1

\* The receipts of one card, and the totals they show.
Given(s, c) == {k \in Keys : receipt[s][k].card = c}
Shown(s, c) == {Sum(receipt[s][k].row) : k \in Given(s, c)}

Counted ==
  \A s \in Students, c \in Cards :
    /\ Sum(progress[s][c]) = Cardinality(Given(s, c))
    /\ Shown(s, c) = 1 .. Cardinality(Given(s, c))

\* Every response that was given is the one its receipt keeps.
Recorded ==
  \A t \in told : LET r == receipt[t.student][t.key] IN
    /\ r.card = t.card /\ r.index = t.index
    /\ t.response = [good |-> r.good, row |-> r.row]

StudyInv ==
  /\ Types /\ RowsLegal
  /\ KeysDistinct /\ RowsDistinct /\ HeldUnused /\ GradedNext /\ Counted /\ Recorded

----------------------------------------------------------------------------
\* Products of numbers, which the schedule needs.
LEMMA ProductIsNumber == \A m, n \in Nat : m * n \in Nat
OBVIOUS

LEMMA RoundedIsNumber == ASSUME NEW m \in Nat, NEW n \in Rounded(m) PROVE n \in Nat
<1>1. m \div 10 \in Nat /\ m \div 10 + 1 \in Nat
  OBVIOUS
<1> QED BY <1>1 DEF Rounded

\* Grading counts the answer once, and keeps the status with the interval.
LEMMA GradedRow ==
  ASSUME NEW row \in Row, NEW good, NEW new \in Graded(row, good)
  PROVE  new \in Row /\ Sum(new) = Sum(row) + 1 /\ Legal(new)
<1>1. CASE new = Forgotten(row)
  <2>1. new = [row EXCEPT !.wrong = @ + 1, !.interval = 0, !.status = "learning"]
    BY <1>1 DEF Forgotten
  <2>2. /\ new.right = row.right /\ new.wrong = row.wrong + 1
        /\ new.interval = 0 /\ new.status = "learning" /\ new.ease = row.ease
    BY <2>1 DEF Row
  <2>3. new \in Row
    <3> DEFINE w == row.wrong + 1
               st == "learning"
    <3>1. w \in Nat /\ st \in Statuses
      BY DEF Row, Statuses
    <3>2. new = [row EXCEPT !.wrong = w, !.interval = 0, !.status = st]
      BY <2>1
    <3> HIDE DEF w, st
    <3> QED BY <3>1, <3>2 DEF Row
  <2> QED BY <2>2, <2>3 DEF Sum, Legal, Row
<1>2. CASE new \in Remembered(row)
  <2>1. PICK n \in Nat : new = [row EXCEPT !.right = @ + 1, !.interval = n, !.ease = @ + 1,
                                           !.status = StatusOf(n)]
    <3>1. row.interval * row.ease \in Nat
      BY ProductIsNumber DEF Row
    <3> DEFINE m == row.interval * row.ease
    <3> HIDE DEF m
    <3>2. \A n \in Rounded(m) : n \in Nat
      BY <3>1, RoundedIsNumber DEF m
    <3> QED BY <1>2, <3>2 DEF Remembered, m
  <2>2. StatusOf(n) \in Statuses
    BY DEF StatusOf, Statuses
  <2>3. /\ new.right = row.right + 1 /\ new.wrong = row.wrong
        /\ new.interval = n /\ new.status = StatusOf(n)
    BY <2>1 DEF Row
  <2>4. new \in Row
    <3> DEFINE r == row.right + 1
               e == row.ease + 1
               st == StatusOf(n)
    <3>1. r \in Nat /\ e \in Nat /\ st \in Statuses
      BY <2>2 DEF Row
    <3>2. new = [row EXCEPT !.right = r, !.interval = n, !.ease = e, !.status = st]
      BY <2>1
    <3> HIDE DEF r, e, st
    <3> QED BY <3>1, <3>2 DEF Row
  <2>5. Legal(new)
    BY <2>3 DEF Legal, StatusOf
  <2> QED BY <2>3, <2>4, <2>5 DEF Sum, Row
<1> QED BY <1>1, <1>2 DEF Graded

LEMMA SetsOfKeys == \A S \in SUBSET Keys : IsFiniteSet(S) /\ Cardinality(S) \in Nat
<1>1. IsFiniteSet(Keys)
  BY FS_Interval, ClassroomAssumption DEF Keys
<1> QED BY <1>1, FS_Subset, FS_CardinalityType

LEMMA NoReceiptIsNone == NoReceipt.card = "none" /\ NoReceipt.card \notin Cards
BY ClassroomAssumption DEF NoReceipt

LEMMA StudyInit == Init => StudyInv
<1> SUFFICES ASSUME Init PROVE StudyInv
  OBVIOUS
<1>1. /\ progress = [s \in Students |-> [c \in Cards |-> NewRow]]
      /\ receipt = [s \in Students |-> [k \in Keys |-> NoReceipt]]
      /\ answer = [x \in Answerers |-> NoAnswer] /\ told = {}
  BY DEF Init
<1>2. NewRow \in Row /\ Legal(NewRow) /\ Sum(NewRow) = 0
  BY DEF NewRow, Row, Legal, Sum, Statuses
<1>3. Types /\ RowsLegal
  BY <1>1, <1>2 DEF Types, RowsLegal, AnswerOK
<1>4. KeysDistinct /\ RowsDistinct /\ HeldUnused /\ GradedNext
  BY <1>1 DEF KeysDistinct, RowsDistinct, HeldUnused, GradedNext, Holds, NoAnswer
<1>5. Counted
  <2> SUFFICES ASSUME NEW s \in Students, NEW c \in Cards
               PROVE /\ Sum(progress[s][c]) = Cardinality(Given(s, c))
                     /\ Shown(s, c) = 1 .. Cardinality(Given(s, c))
    BY DEF Counted
  <2>1. Given(s, c) = {}
    BY <1>1, NoReceiptIsNone DEF Given
  <2>2. Cardinality(Given(s, c)) = 0
    BY <2>1, FS_EmptySet
  <2> QED BY <1>1, <1>2, <2>1, <2>2 DEF Shown
<1>6. Recorded
  BY <1>1 DEF Recorded
<1> QED BY <1>3, <1>4, <1>5, <1>6 DEF StudyInv

\* The parts of the invariant that speak of progress, receipts and responses.
LEMMA TablesKept ==
  ASSUME StudyInv, UNCHANGED <<progress, receipt, told>>
  PROVE  RowsLegal' /\ Counted' /\ Recorded'
<1>1. RowsLegal' /\ Recorded'
  BY DEF StudyInv, RowsLegal, Recorded
<1>2. Counted'
  BY DEF StudyInv, Counted, Given, Shown
<1> QED BY <1>1, <1>2

\* A step of one request that leaves progress and receipts alone.
LEMMA AnswerStep ==
  ASSUME StudyInv, NEW x \in Answerers, NEW a, AnswerOK(a),
         answer' = [answer EXCEPT ![x] = a], UNCHANGED <<progress, receipt>>,
         a.pc \in {"reserved", "graded"} =>
           /\ receipt[a.student][a.key] = NoReceipt
           /\ \A y \in Answerers \ {x} :
                Holds(y) => <<answer[y].student, answer[y].key>> # <<a.student, a.key>>,
         a.pc = "graded" =>
           /\ Sum(a.row) = Sum(progress[a.student][a.card]) + 1
           /\ \A y \in Answerers \ {x} :
                answer[y].pc = "graded" => <<answer[y].student, answer[y].card>> # <<a.student, a.card>>
  PROVE  /\ KeysDistinct' /\ RowsDistinct' /\ HeldUnused' /\ GradedNext'
         /\ DOMAIN answer' = Answerers /\ \A y \in Answerers : AnswerOK(answer'[y])
<1>1. /\ DOMAIN answer' = Answerers /\ answer'[x] = a
      /\ \A y \in Answerers \ {x} : answer'[y] = answer[y]
  BY DEF StudyInv, Types
<1>2. \A y \in Answerers : AnswerOK(answer'[y])
  BY <1>1 DEF StudyInv, Types
<1>3. KeysDistinct'
  BY <1>1 DEF StudyInv, KeysDistinct, Holds
<1>4. RowsDistinct'
  BY <1>1 DEF StudyInv, RowsDistinct
<1>5. HeldUnused'
  BY <1>1 DEF StudyInv, HeldUnused, Holds
<1>6. GradedNext'
  BY <1>1 DEF StudyInv, GradedNext
<1> QED BY <1>1, <1>2, <1>3, <1>4, <1>5, <1>6

\* The same for a request that ends.
LEMMA EndStep ==
  ASSUME StudyInv, NEW x \in Answerers, EndAnswer(x), UNCHANGED <<progress, receipt>>
  PROVE  /\ KeysDistinct' /\ RowsDistinct' /\ HeldUnused' /\ GradedNext'
         /\ DOMAIN answer' = Answerers /\ \A y \in Answerers : AnswerOK(answer'[y])
<1>1. AnswerOK(NoAnswer) /\ NoAnswer.pc = "idle"
  BY DEF AnswerOK, NoAnswer
<1>2. answer' = [answer EXCEPT ![x] = NoAnswer]
  BY DEF EndAnswer
<1> QED BY <1>1, <1>2, AnswerStep

LEMMA StudyKept ==
  ASSUME StudyInv, UNCHANGED <<progress, receipt, told>>,
         KeysDistinct', RowsDistinct', HeldUnused', GradedNext', DOMAIN answer' = Answerers,
         \A y \in Answerers : AnswerOK(answer'[y])
  PROVE  StudyInv'
<1>1. Types'
  BY DEF StudyInv, Types, AnswerOK
<1> QED BY <1>1, TablesKept DEF StudyInv

LEMMA SubmitStudy ==
  ASSUME StudyInv, NEW x \in Answerers, NEW s \in Students, NEW c \in Cards, NEW k \in Keys,
         NEW sel \in Selections, Submit(x, s, c, k, sel)
  PROVE  StudyInv'
<1>1. PICK i \in Chosen(c, sel) :
        answer' = [answer EXCEPT ![x] =
          [pc |-> "resolved", student |-> s, card |-> c, key |-> k, index |-> i,
           good |-> i # 0 /\ card[c].opts[i] = card[c].back]]
  BY DEF Submit
<1> DEFINE good == i # 0 /\ card[c].opts[i] = card[c].back
           a == [pc |-> "resolved", student |-> s, card |-> c, key |-> k, index |-> i, good |-> good]
<1>2. answer' = [answer EXCEPT ![x] = a]
  BY <1>1
<1> HIDE DEF good
<1>3. a.pc = "resolved" /\ AnswerOK(a)
  BY DEF AnswerOK, Columns
<1>4. UNCHANGED <<progress, receipt, told>>
  BY DEF Submit
<1> HIDE DEF a
<1> QED BY <1>2, <1>3, <1>4, AnswerStep, StudyKept

LEMMA ReserveStudy == ASSUME StudyInv, NEW x \in Answerers, Reserve(x) PROVE StudyInv'
<1> DEFINE a == answer[x]
           r == receipt[a.student][a.key]
<1>1. /\ a.pc = "resolved" /\ a.student \in Students /\ a.card \in Cards /\ a.key \in Keys
      /\ DOMAIN a = Columns
  BY DEF Reserve, StudyInv, Types, AnswerOK, NoAnswer
<1>2. UNCHANGED <<progress, receipt>>
  BY DEF Reserve
<1>3. CASE r = NoReceipt /\ Present(a.card) /\ answer' = [answer EXCEPT ![x].pc = "reserved"]
           /\ UNCHANGED told
  <2> DEFINE b == [a EXCEPT !.pc = "reserved"]
  <2>1. /\ b.pc = "reserved" /\ b.student = a.student /\ b.card = a.card /\ b.key = a.key
        /\ DOMAIN b = Columns
    BY <1>1 DEF Columns
  <2>2. AnswerOK(b)
    BY <2>1, <1>1 DEF AnswerOK
  <2>3. \A y \in Answerers : Holds(y) => <<answer[y].student, answer[y].key>> # <<a.student, a.key>>
    BY DEF Reserve, KeyHeld, Holding, Holds
  <2>4. answer' = [answer EXCEPT ![x] = b]
    BY <1>3
  <2>5. receipt[b.student][b.key] = NoReceipt
    BY <1>3, <2>1
  <2>6. \A y \in Answerers \ {x} :
          Holds(y) => <<answer[y].student, answer[y].key>> # <<b.student, b.key>>
    BY <2>1, <2>3
  <2>7. b.pc # "graded" /\ UNCHANGED told
    BY <1>3, <2>1
  <2> HIDE DEF b, a, r
  <2>8. /\ KeysDistinct' /\ RowsDistinct' /\ HeldUnused' /\ GradedNext'
        /\ DOMAIN answer' = Answerers /\ \A y \in Answerers : AnswerOK(answer'[y])
    BY <1>2, <2>2, <2>4, <2>5, <2>6, <2>7, AnswerStep
  <2> QED BY <1>2, <2>7, <2>8, StudyKept
<1>4. CASE EndAnswer(x) /\ UNCHANGED told
  BY <1>2, <1>4, EndStep, StudyKept
<1>5. CASE /\ r # NoReceipt /\ <<r.card, r.index>> = <<a.card, a.index>> /\ EndAnswer(x)
           /\ Tell(a.student, a.key, a.card, a.index, Response(a.student, a.key))
  <2> DEFINE t == [student |-> a.student, key |-> a.key, card |-> a.card, index |-> a.index,
                   response |-> Response(a.student, a.key)]
  <2>1. told' = told \cup {t}
    BY <1>5 DEF Tell
  <2>2. Types'
    <3>1. t.student \in Students /\ t.key \in Keys /\ t.card \in Cards
      BY <1>1
    <3> HIDE DEF t
    <3> QED BY <1>2, <1>5, <2>1, <3>1, EndStep DEF StudyInv, Types, AnswerOK
  <2>3. RowsLegal' /\ Counted'
    BY <1>2 DEF StudyInv, RowsLegal, Counted, Given, Shown
  <2>4. Recorded'
    <3>1. /\ t.student = a.student /\ t.key = a.key /\ r.card = t.card /\ r.index = t.index
          /\ t.response = [good |-> r.good, row |-> r.row]
      BY <1>5 DEF Response
    <3> HIDE DEF t
    <3> QED BY <1>2, <2>1, <3>1 DEF StudyInv, Recorded
  <2> QED BY <1>2, <1>5, <2>2, <2>3, <2>4, EndStep DEF StudyInv
<1> QED BY <1>3, <1>4, <1>5 DEF Reserve

LEMMA GradeStudy == ASSUME StudyInv, NEW x \in Answerers, Grade(x) PROVE StudyInv'
<1> DEFINE a == answer[x]
<1>1. /\ a.pc = "reserved" /\ a.student \in Students /\ a.card \in Cards /\ a.key \in Keys
  BY DEF Grade, StudyInv, Types, AnswerOK, NoAnswer
<1>2. UNCHANGED <<progress, receipt, told>>
  BY DEF Grade
<1>3. PICK row \in Graded(progress[a.student][a.card], a.good) :
        IF row.interval <= MaxDays
        THEN answer' = [answer EXCEPT ![x] =
               [pc |-> "graded", student |-> a.student, card |-> a.card, key |-> a.key,
                index |-> a.index, good |-> a.good, row |-> row]]
        ELSE EndAnswer(x)
  BY DEF Grade
<1>4. CASE EndAnswer(x)
  BY <1>2, <1>4, EndStep, StudyKept
<1>5. CASE ~EndAnswer(x)
  <2> DEFINE b == [pc |-> "graded", student |-> a.student, card |-> a.card, key |-> a.key,
                   index |-> a.index, good |-> a.good, row |-> row]
  <2>1. answer' = [answer EXCEPT ![x] = b]
    BY <1>3, <1>5
  <2>2. progress[a.student][a.card] \in Row
    BY <1>1 DEF StudyInv, Types
  <2>3. row \in Row /\ Sum(row) = Sum(progress[a.student][a.card]) + 1 /\ Legal(row)
    BY <1>3, <2>2, GradedRow
  <2>4. /\ b.pc = "graded" /\ b.student = a.student /\ b.card = a.card /\ b.key = a.key
        /\ b.row = row
    OBVIOUS
  <2>5. AnswerOK(b)
    BY <2>3, <2>4, <1>1 DEF AnswerOK
  <2>6. receipt[a.student][a.key] = NoReceipt
    BY <1>1 DEF StudyInv, HeldUnused, Holds
  <2>7. \A y \in Answerers \ {x} :
          Holds(y) => <<answer[y].student, answer[y].key>> # <<a.student, a.key>>
    BY <1>1 DEF StudyInv, KeysDistinct, Holds
  <2>8. \A y \in Answerers \ {x} :
          answer[y].pc = "graded" => <<answer[y].student, answer[y].card>> # <<a.student, a.card>>
    BY DEF Grade, RowHeld, Holding
  <2> HIDE DEF b
  <2> QED BY <1>2, <2>1, <2>3, <2>4, <2>5, <2>6, <2>7, <2>8, AnswerStep, StudyKept
<1> QED BY <1>4, <1>5

LEMMA LoseStudy == ASSUME StudyInv, NEW x \in Answerers, LoseAnswer(x) PROVE StudyInv'
BY EndStep, StudyKept DEF LoseAnswer

\* The commit: one more receipt, one more answer counted.
LEMMA CommitStudy == ASSUME StudyInv, NEW x \in Answerers, CommitAnswer(x) PROVE StudyInv'
<1> DEFINE a == answer[x]
           s == a.student
           c == a.card
           k == a.key
           old == progress[s][c]
           e == [card |-> c, index |-> a.index, good |-> a.good, row |-> a.row]
           t == [student |-> s, key |-> k, card |-> c, index |-> a.index,
                 response |-> [good |-> a.good, row |-> a.row]]
<1>1. /\ a.pc = "graded" /\ s \in Students /\ c \in Cards /\ k \in Keys
      /\ a.row \in Row /\ Legal(a.row)
  BY DEF CommitAnswer, StudyInv, Types, AnswerOK, NoAnswer
<1>2. /\ progress' = [progress EXCEPT ![s][c] = a.row]
      /\ receipt' = [receipt EXCEPT ![s][k] = e]
      /\ told' = told \cup {t}
      /\ answer' = [answer EXCEPT ![x] = NoAnswer]
  BY DEF CommitAnswer, Tell, EndAnswer
<1>3. receipt[s][k] = NoReceipt /\ Sum(a.row) = Sum(old) + 1
  BY <1>1 DEF StudyInv, HeldUnused, GradedNext, Holds
<1>4. /\ e.card = c /\ e.row = a.row /\ e.index = a.index /\ e.good = a.good
      /\ t.student = s /\ t.key = k /\ t.card = c /\ t.index = a.index
      /\ t.response = [good |-> e.good, row |-> e.row]
  OBVIOUS
<1>5. /\ DOMAIN receipt' = Students /\ \A u \in Students : DOMAIN receipt'[u] = Keys
      /\ receipt'[s][k] = e
      /\ \A u \in Students, l \in Keys : <<u, l>> # <<s, k>> => receipt'[u][l] = receipt[u][l]
  <2> HIDE DEF e, a
  <2> QED BY <1>1, <1>2 DEF StudyInv, Types
<1>6. /\ progress' \in [Students -> [Cards -> Row]] /\ progress'[s][c] = a.row
      /\ \A u \in Students, d \in Cards : <<u, d>> # <<s, c>> => progress'[u][d] = progress[u][d]
  BY <1>1, <1>2 DEF StudyInv, Types
<1>7. /\ DOMAIN answer' = Answerers /\ answer'[x] = NoAnswer /\ NoAnswer.pc = "idle"
      /\ \A y \in Answerers \ {x} : answer'[y] = answer[y]
  BY <1>2 DEF StudyInv, Types, NoAnswer
<1> HIDE DEF e, t, a, old
<1>8. Types'
  BY <1>1, <1>2, <1>4, <1>5, <1>6, <1>7 DEF StudyInv, Types, AnswerOK
<1>9. RowsLegal'
  BY <1>1, <1>6 DEF StudyInv, RowsLegal
<1>10. KeysDistinct' /\ RowsDistinct'
  BY <1>7 DEF StudyInv, KeysDistinct, RowsDistinct, Holds
<1>11. HeldUnused'
  <2> SUFFICES ASSUME NEW y \in Answerers \ {x}, Holds(y)
               PROVE receipt'[answer[y].student][answer[y].key] = NoReceipt
    BY <1>7 DEF HeldUnused, Holds
  <2>1. <<answer[y].student, answer[y].key>> # <<s, k>>
    BY <1>1 DEF StudyInv, KeysDistinct, Holds, a
  <2>2. answer[y].student \in Students /\ answer[y].key \in Keys
    BY DEF StudyInv, Types, AnswerOK, Holds, NoAnswer
  <2> QED BY <2>1, <2>2, <1>5 DEF StudyInv, HeldUnused
<1>12. GradedNext'
  <2> SUFFICES ASSUME NEW y \in Answerers \ {x}, answer[y].pc = "graded"
               PROVE Sum(answer[y].row) = Sum(progress'[answer[y].student][answer[y].card]) + 1
    BY <1>7 DEF GradedNext
  <2>1. <<answer[y].student, answer[y].card>> # <<s, c>>
    BY <1>1 DEF StudyInv, RowsDistinct, a
  <2>2. answer[y].student \in Students /\ answer[y].card \in Cards
    BY DEF StudyInv, Types, AnswerOK, NoAnswer
  <2> QED BY <2>1, <2>2, <1>6 DEF StudyInv, GradedNext
<1>13. Counted'
  <2> SUFFICES ASSUME NEW u \in Students, NEW d \in Cards
               PROVE /\ Sum(progress'[u][d]) = Cardinality(Given(u, d)')
                     /\ Shown(u, d)' = 1 .. Cardinality(Given(u, d)')
    BY DEF Counted
  <2>1. /\ Sum(progress[u][d]) = Cardinality(Given(u, d))
        /\ Shown(u, d) = 1 .. Cardinality(Given(u, d))
    BY DEF StudyInv, Counted
  <2>2. Given(u, d) \subseteq Keys /\ IsFiniteSet(Given(u, d)) /\ Cardinality(Given(u, d)) \in Nat
    BY SetsOfKeys DEF Given
  <2>3. CASE <<u, d>> # <<s, c>>
    <3>1. \A l \in Keys : receipt'[u][l].card = d <=> receipt[u][l].card = d
      BY <2>3, <1>3, <1>4, <1>5, NoReceiptIsNone
    <3>2. Given(u, d)' = Given(u, d)
      BY <3>1 DEF Given
    <3>3. \A l \in Given(u, d) : receipt'[u][l] = receipt[u][l]
      BY <2>3, <1>3, <1>5, NoReceiptIsNone DEF Given
    <3>4. Shown(u, d)' = Shown(u, d)
      BY <3>2, <3>3 DEF Shown
    <3> QED BY <2>1, <2>3, <3>2, <3>4, <1>6
  <2>4. CASE <<u, d>> = <<s, c>>
    <3>1. u = s /\ d = c
      BY <2>4
    <3>2. k \notin Given(u, d)
      BY <1>3, <3>1, NoReceiptIsNone, <1>1 DEF Given
    <3>3. \A l \in Keys : receipt'[u][l].card = d <=> (l = k \/ receipt[u][l].card = d)
      BY <3>1, <1>1, <1>4, <1>5
    <3>4. Given(u, d)' = Given(u, d) \cup {k}
      BY <3>3, <1>1 DEF Given
    <3>5. Cardinality(Given(u, d)') = Cardinality(Given(u, d)) + 1
      BY <2>2, <3>2, <3>4, FS_AddElement
    <3>6. \A l \in Given(u, d) : receipt'[u][l] = receipt[u][l]
      BY <3>1, <3>2, <1>1, <1>5 DEF Given
    <3>7. receipt'[u][k].row = a.row
      BY <3>1, <1>4, <1>5
    <3>8. Shown(u, d)' = Shown(u, d) \cup {Sum(a.row)}
      BY <3>4, <3>6, <3>7 DEF Shown
    <3>9. Sum(a.row) = Cardinality(Given(u, d)) + 1
      BY <1>3, <2>1, <3>1 DEF old
    <3>10. Shown(u, d)' = 1 .. Cardinality(Given(u, d)) + 1
      BY <2>1, <2>2, <3>8, <3>9
    <3>11. progress'[u][d] = a.row
      BY <3>1, <1>6
    <3> QED BY <3>5, <3>9, <3>10, <3>11
  <2> QED BY <2>3, <2>4
<1>14. Recorded'
  <2> SUFFICES ASSUME NEW v \in told'
               PROVE LET r == receipt'[v.student][v.key] IN
                     /\ r.card = v.card /\ r.index = v.index
                     /\ v.response = [good |-> r.good, row |-> r.row]
    BY DEF Recorded
  <2>1. CASE v = t
    BY <2>1, <1>4, <1>5
  <2>2. CASE v \in told
    <3>1. v.student \in Students /\ v.key \in Keys /\ v.card \in Cards
      BY <2>2 DEF StudyInv, Types
    <3>2. receipt[v.student][v.key].card = v.card
      BY <2>2 DEF StudyInv, Recorded
    <3>3. receipt'[v.student][v.key] = receipt[v.student][v.key]
      BY <3>1, <3>2, <1>3, <1>5, NoReceiptIsNone
    <3> QED BY <2>2, <3>3 DEF StudyInv, Recorded
  <2> QED BY <1>2, <2>1, <2>2
<1> QED BY <1>8, <1>9, <1>10, <1>11, <1>12, <1>13, <1>14 DEF StudyInv

\* A deletion takes the answers of its cards with it, and waits for those that
\* are being given.
LEMMA WithoutStudy ==
  ASSUME StudyInv, NEW gone, Without(gone), UNCHANGED answer,
         gone \subseteq Cards, \A c \in gone : ~CardHeld(c)
  PROVE  StudyInv'
<1>1. /\ progress' = [s \in Students |-> [c \in Cards |-> IF c \in gone THEN NewRow ELSE progress[s][c]]]
      /\ receipt' = [s \in Students |-> [k \in Keys |->
                       IF receipt[s][k].card \in gone THEN NoReceipt ELSE receipt[s][k]]]
      /\ told' = {t \in told : t.card \notin gone}
  BY DEF Without
<1>2. NewRow \in Row /\ Legal(NewRow) /\ Sum(NewRow) = 0
  BY DEF NewRow, Row, Legal, Sum, Statuses
<1>3. Types'
  BY <1>1, <1>2 DEF StudyInv, Types, AnswerOK
<1>4. RowsLegal'
  BY <1>1, <1>2 DEF StudyInv, RowsLegal
<1>5. KeysDistinct' /\ RowsDistinct'
  BY DEF StudyInv, KeysDistinct, RowsDistinct, Holds
<1>6. HeldUnused'
  <2> SUFFICES ASSUME NEW x \in Answerers, Holds(x)
               PROVE receipt'[answer[x].student][answer[x].key] = NoReceipt
    BY DEF HeldUnused, Holds
  <2>1. answer[x].student \in Students /\ answer[x].key \in Keys
    BY DEF StudyInv, Types, AnswerOK, Holds, NoAnswer
  <2> QED BY <2>1, <1>1 DEF StudyInv, HeldUnused
<1>7. GradedNext'
  <2> SUFFICES ASSUME NEW x \in Answerers, answer[x].pc = "graded"
               PROVE Sum(answer[x].row) = Sum(progress'[answer[x].student][answer[x].card]) + 1
    BY DEF GradedNext
  <2>1. answer[x].student \in Students /\ answer[x].card \in Cards
    BY DEF StudyInv, Types, AnswerOK, NoAnswer
  <2>2. answer[x].card \notin gone
    BY DEF CardHeld, Holding
  <2>3. progress'[answer[x].student][answer[x].card] = progress[answer[x].student][answer[x].card]
    BY <1>1, <2>1, <2>2
  <2> QED BY <2>3 DEF StudyInv, GradedNext
<1>8. Counted'
  <2> SUFFICES ASSUME NEW s \in Students, NEW c \in Cards
               PROVE /\ Sum(progress'[s][c]) = Cardinality(Given(s, c)')
                     /\ Shown(s, c)' = 1 .. Cardinality(Given(s, c)')
    BY DEF Counted
  <2>1. CASE c \in gone
    <3>1. Given(s, c)' = {}
      BY <1>1, <2>1, NoReceiptIsNone DEF Given
    <3>2. Cardinality(Given(s, c)') = 0
      BY <3>1, FS_EmptySet
    <3>3. Shown(s, c)' = {}
      BY <3>1 DEF Shown
    <3> QED BY <1>1, <1>2, <2>1, <3>2, <3>3
  <2>2. CASE c \notin gone
    <3>1. Given(s, c)' = Given(s, c)
      BY <1>1, <2>2, NoReceiptIsNone DEF Given
    <3>2. \A k \in Given(s, c) : receipt'[s][k] = receipt[s][k]
      BY <1>1, <2>2 DEF Given
    <3>3. Shown(s, c)' = Shown(s, c)
      BY <3>1, <3>2 DEF Shown
    <3>4. progress'[s][c] = progress[s][c]
      BY <1>1, <2>2
    <3> QED BY <3>1, <3>3, <3>4 DEF StudyInv, Counted
  <2> QED BY <2>1, <2>2
<1>9. Recorded'
  <2> SUFFICES ASSUME NEW t \in told, t.card \notin gone
               PROVE LET r == receipt'[t.student][t.key] IN
                     /\ r.card = t.card /\ r.index = t.index
                     /\ t.response = [good |-> r.good, row |-> r.row]
    BY <1>1 DEF Recorded
  <2>1. t.student \in Students /\ t.key \in Keys
    BY DEF StudyInv, Types
  <2>2. receipt[t.student][t.key].card = t.card
    BY DEF StudyInv, Recorded
  <2>3. receipt'[t.student][t.key] = receipt[t.student][t.key]
    BY <1>1, <2>1, <2>2
  <2> QED BY <2>3 DEF StudyInv, Recorded
<1> QED BY <1>3, <1>4, <1>5, <1>6, <1>7, <1>8, <1>9 DEF StudyInv

\* Steps that leave the answers alone.
LEMMA OtherStudy ==
  ASSUME StudyInv, UNCHANGED <<progress, receipt, answer, told>>
  PROVE  StudyInv'
<1>1. Types'
  BY DEF StudyInv, Types, AnswerOK
<1>2. KeysDistinct' /\ RowsDistinct' /\ HeldUnused' /\ GradedNext'
  BY DEF StudyInv, KeysDistinct, RowsDistinct, HeldUnused, GradedNext, Holds
<1> QED BY <1>1, <1>2, TablesKept DEF StudyInv

LEMMA StudyStep == StudyInv /\ [Next]_vars => StudyInv'
<1> SUFFICES ASSUME StudyInv, [Next]_vars PROVE StudyInv'
  OBVIOUS
<1>1. CASE \E x \in Answerers :
             \/ \E s \in Students, c \in Cards, k \in Keys, sel \in Selections : Submit(x, s, c, k, sel)
             \/ Reserve(x) \/ Grade(x) \/ CommitAnswer(x) \/ LoseAnswer(x)
  BY <1>1, SubmitStudy, ReserveStudy, GradeStudy, CommitStudy, LoseStudy
<1>2. CASE \E c \in Cards : DeleteCard(c)
  <2>1. PICK c \in Cards : DeleteCard(c)
    BY <1>2
  <2> QED BY <2>1, WithoutStudy DEF DeleteCard
<1>3. CASE DeleteSet
  BY <1>3, WithoutStudy DEF DeleteSet
<1>4. CASE \/ \E s \in Students : CountCards(s) \/ SumProgress(s)
           \/ Dismiss
  BY <1>4, OtherStudy DEF CountCards, SumProgress, Dismiss, study
<1>5. CASE \E e \in Reviewers :
             \/ \E c \in Cards, edit \in Edits : OpenCard(e, c, edit)
             \/ \E kind \in {"all", "publish", "unpublish"} : LockSet(e, kind)
             \/ LockCard(e) \/ SaveCard(e) \/ ApproveAll(e) \/ Publish(e) \/ Unpublish(e)
             \/ LoseReview(e)
  BY <1>5, OtherStudy DEF OpenCard, LockSet, LockCard, SaveCard, ApproveAll, Publish, Unpublish,
                          LoseReview, study
<1>6. CASE \E c \in Cards, opts \in OptionLists, t \in Texts : CreateCard(c, opts, t)
  BY <1>6, OtherStudy DEF CreateCard, study
<1>7. CASE UNCHANGED vars
  BY <1>7, OtherStudy DEF vars
<1> QED BY <1>1, <1>2, <1>3, <1>4, <1>5, <1>6, <1>7 DEF Next

----------------------------------------------------------------------------
(* Reviews.                                                                *)

States == {"none", "pending", "approved", "deleted"}

CardOK(r) == r.state \in States /\ DOMAIN r = {"state", "opts", "back"}

\* What a review holds at each point of its program.
ReviewOK(v) ==
  \/ v = NoReview
  \/ v.pc = "opened" /\ v.card \in Cards /\ v.edit \in Edits
  \/ v.pc = "holding" /\ v.kind = "card" /\ v.card \in Cards /\ v.edit \in Edits
  \/ v.pc = "holding" /\ v.kind = "all" /\ v.pending \subseteq Cards
  \/ v.pc = "holding" /\ v.kind \in {"publish", "unpublish"}

ReviewTypes ==
  /\ DOMAIN card = Cards /\ \A c \in Cards : CardOK(card[c])
  /\ DOMAIN review = Reviewers /\ \A e \in Reviewers : ReviewOK(review[e])
  /\ DOMAIN trail = {"card", "set", "true", "exact"} /\ trail.card \in [Cards -> BOOLEAN]
  /\ published \in BOOLEAN

\* One review holds the set at a time, and what it read is still so, but for
\* cards that were deleted meanwhile.
HoldersDistinct ==
  \A e, f \in Reviewers : review[e].pc = "holding" /\ review[f].pc = "holding" => e = f

Fresh(v) ==
  /\ v.kind = "card" /\ Present(v.card) => v.seen = card[v.card]
  /\ v.kind = "all" => \A c \in Cards : Present(c) => (card[c].state = "pending" <=> c \in v.pending)
  /\ v.kind = "all" => \A c \in v.pending : card[c].state # "none"
  /\ v.kind \in {"publish", "unpublish"} => v.published = published

ReadsFresh == \A e \in Reviewers : review[e].pc = "holding" => Fresh(review[e])

NotYet == \A c \in Cards : card[c].state = "none" => trail.card[c] = FALSE

CardsValid == \A c \in Cards : Present(c) => Valid(card[c])

ReviewInv ==
  /\ ReviewTypes
  /\ AuditTrail /\ HoldersDistinct /\ ReadsFresh /\ NotYet /\ CardsValid

LEMMA ReviewInit == Init => ReviewInv
<1> SUFFICES ASSUME Init PROVE ReviewInv
  OBVIOUS
<1>1. PICK opts \in OptionLists, state \in {"pending", "approved"} :
        /\ published => state = "approved"
        /\ card = [c \in Cards |->
             IF c \in Generated THEN [state |-> state, opts |-> opts, back |-> opts[1]] ELSE NoCard]
        /\ trail = [card |-> [c \in Cards |-> c \in Generated /\ state = "approved"],
                    set |-> published, true |-> TRUE, exact |-> TRUE]
  BY DEF Init
<1>2. published \in BOOLEAN /\ review = [e \in Reviewers |-> NoReview]
  BY DEF Init
<1>3. \A c \in Cards :
        /\ c \in Generated => card[c] = [state |-> state, opts |-> opts, back |-> opts[1]]
        /\ c \notin Generated => card[c] = NoCard
        /\ trail.card[c] = (c \in Generated /\ state = "approved")
  BY <1>1
<1>4. \A c \in Cards :
        /\ c \in Generated => card[c].state = state /\ card[c].opts = opts /\ card[c].back = opts[1]
        /\ c \notin Generated => card[c].state = "none"
        /\ CardOK(card[c])
  BY <1>3 DEF NoCard, CardOK, States
<1>5. ReviewTypes
  <2>1. DOMAIN card = Cards /\ DOMAIN review = Reviewers /\ \A e \in Reviewers : ReviewOK(review[e])
    BY <1>1, <1>2 DEF ReviewOK
  <2>2. DOMAIN trail = {"card", "set", "true", "exact"} /\ trail.card \in [Cards -> BOOLEAN]
    BY <1>1
  <2> QED BY <1>2, <1>4, <2>1, <2>2 DEF ReviewTypes
<1>6. AuditTrail
  <2>1. trail.true /\ trail.set = published
    BY <1>1
  <2>2. ASSUME NEW c \in Cards, Present(c) PROVE trail.card[c] = Approved(c)
    BY <2>2, <1>3, <1>4 DEF Present, Approved
  <2> QED BY <2>1, <2>2 DEF AuditTrail
<1>7. HoldersDistinct /\ ReadsFresh
  BY <1>2 DEF HoldersDistinct, ReadsFresh, NoReview
<1>8. NotYet
  BY <1>3, <1>4 DEF NotYet
<1>9. CardsValid
  <2> SUFFICES ASSUME NEW c \in Cards, Present(c) PROVE Valid(card[c])
    BY DEF CardsValid
  <2>1. c \in Generated
    BY <1>4 DEF Present
  <2>2. 1 \in DOMAIN card[c].opts /\ card[c].back = card[c].opts[1]
    BY <1>4, <2>1, ClassroomAssumption
  <2> QED BY <2>2 DEF Valid
<1> QED BY <1>5, <1>6, <1>7, <1>8, <1>9 DEF ReviewInv

----------------------------------------------------------------------------
\* A review that takes or leaves the set without a change of it.
LEMMA ReviewMoves ==
  ASSUME ReviewInv, UNCHANGED <<card, published, trail>>,
         NEW e \in Reviewers, NEW v, review' = [review EXCEPT ![e] = v], ReviewOK(v),
         v.pc = "holding" => Fresh(v) /\ \A f \in Reviewers \ {e} : review[f].pc # "holding"
  PROVE  ReviewInv'
<1>1. /\ DOMAIN review' = Reviewers /\ review'[e] = v
      /\ \A f \in Reviewers \ {e} : review'[f] = review[f]
  BY DEF ReviewInv, ReviewTypes
<1>2. ReviewTypes'
  BY <1>1 DEF ReviewInv, ReviewTypes, CardOK, ReviewOK
<1>3. HoldersDistinct'
  BY <1>1 DEF ReviewInv, HoldersDistinct
<1>4. ReadsFresh'
  <2>1. \A u : Fresh(u)' <=> Fresh(u)
    BY DEF Fresh, Present
  <2> QED BY <1>1, <2>1 DEF ReviewInv, ReadsFresh
<1>5. AuditTrail' /\ NotYet' /\ CardsValid'
  BY DEF ReviewInv, AuditTrail, NotYet, CardsValid, Present, Approved, Valid
<1> QED BY <1>2, <1>3, <1>4, <1>5 DEF ReviewInv

LEMMA NoReviewOK == ReviewOK(NoReview) /\ NoReview.pc # "holding"
BY DEF ReviewOK, NoReview

LEMMA ReviewEnds ==
  ASSUME ReviewInv, UNCHANGED <<card, published, trail>>, NEW e \in Reviewers, EndReview(e)
  PROVE  ReviewInv'
BY NoReviewOK, ReviewMoves DEF EndReview

LEMMA OpenCardReview ==
  ASSUME ReviewInv, NEW e \in Reviewers, NEW c \in Cards, NEW edit \in Edits, OpenCard(e, c, edit)
  PROVE  ReviewInv'
<1> DEFINE v == [pc |-> "opened", card |-> c, edit |-> edit]
<1>1. ReviewOK(v) /\ v.pc = "opened"
  BY DEF ReviewOK
<1>2. review' = [review EXCEPT ![e] = v] /\ UNCHANGED <<card, published, trail>>
  BY DEF OpenCard
<1> HIDE DEF v
<1> QED BY <1>1, <1>2, ReviewMoves

LEMMA LockCardReview == ASSUME ReviewInv, NEW e \in Reviewers, LockCard(e) PROVE ReviewInv'
<1> DEFINE c == review[e].card
           v == [pc |-> "holding", kind |-> "card", card |-> c, edit |-> review[e].edit,
                 seen |-> card[c]]
<1>1. UNCHANGED <<card, published, trail>> /\ (EndReview(e) \/ review' = [review EXCEPT ![e] = v])
  BY DEF LockCard
<1>2. \A f \in Reviewers : review[f].pc # "holding"
  BY DEF LockCard, SetHeld
<1>3. c \in Cards /\ review[e].edit \in Edits
  BY DEF LockCard, ReviewInv, ReviewTypes, ReviewOK, NoReview
<1>4. ReviewOK(v) /\ Fresh(v)
  BY <1>3 DEF ReviewOK, Fresh
<1> HIDE DEF v
<1> QED BY <1>1, <1>2, <1>4, ReviewEnds, ReviewMoves

LEMMA LockSetReview ==
  ASSUME ReviewInv, NEW e \in Reviewers, NEW kind \in {"all", "publish", "unpublish"}, LockSet(e, kind)
  PROVE  ReviewInv'
<1> DEFINE pending == {c \in Cards : card[c].state = "pending"}
           v == [pc |-> "holding", kind |-> kind, published |-> published, pending |-> pending]
<1>1. UNCHANGED <<card, published, trail>> /\ review' = [review EXCEPT ![e] = v]
  BY DEF LockSet
<1>2. \A f \in Reviewers : review[f].pc # "holding"
  BY DEF LockSet, SetHeld
<1>3. v.pc = "holding" /\ v.kind = kind /\ v.published = published /\ v.pending = pending
  OBVIOUS
<1>4. ReviewOK(v)
  BY <1>3 DEF ReviewOK
<1>5. Fresh(v)
  <2> HIDE DEF v
  <2> QED BY <1>3 DEF Fresh
<1> HIDE DEF v
<1> QED BY <1>1, <1>2, <1>4, <1>5, ReviewMoves

\* A step after which no review holds the set.
LEMMA SetChanges ==
  ASSUME ReviewInv, ReviewTypes', AuditTrail', NotYet', CardsValid',
         \A e \in Reviewers : review'[e].pc # "holding"
  PROVE  ReviewInv'
BY DEF ReviewInv, HoldersDistinct, ReadsFresh

\* The holder lets go of the set, and there is no other.
LEMMA HolderEnds ==
  ASSUME ReviewInv, NEW e \in Reviewers, review[e].pc = "holding", EndReview(e)
  PROVE  /\ DOMAIN review' = Reviewers
         /\ \A f \in Reviewers : ReviewOK(review'[f]) /\ review'[f].pc # "holding"
<1>1. /\ DOMAIN review' = Reviewers /\ review'[e] = NoReview
      /\ \A f \in Reviewers \ {e} : review'[f] = review[f]
  BY DEF EndReview, ReviewInv, ReviewTypes
<1> QED BY <1>1, NoReviewOK DEF ReviewInv, ReviewTypes, HoldersDistinct

\* The fields of an edited card.
LEMMA MergedCard ==
  ASSUME NEW row, NEW edit
  PROVE  /\ DOMAIN Merged(row, edit) = {"state", "opts", "back"}
         /\ Merged(row, edit).state = IF edit.state = "same" THEN row.state ELSE edit.state
BY DEF Merged

LEMMA SaveCardReview == ASSUME ReviewInv, NEW e \in Reviewers, SaveCard(e) PROVE ReviewInv'
<1> DEFINE v == review[e]
           c == v.card
           new == Merged(card[c], v.edit)
<1>1. v.pc = "holding" /\ v.kind = "card" /\ EndReview(e) /\ published' = published
  BY DEF SaveCard
<1>2. c \in Cards /\ v.edit \in Edits
  BY <1>1 DEF ReviewInv, ReviewTypes, ReviewOK, NoReview
<1>3. CASE UNCHANGED <<card, trail>>
  BY <1>1, <1>3, ReviewEnds
<1>4. CASE ~UNCHANGED <<card, trail>>
  <2>1. /\ Present(c) /\ Valid(Merged(v.seen, v.edit))
        /\ card' = [card EXCEPT ![c] = new]
        /\ trail' = IF v.edit.state \in {"same", v.seen.state} THEN trail
                    ELSE CardEvent(c, v.seen.state = "approved", v.edit.state = "approved")
    BY <1>4 DEF SaveCard
  <2>2. v.seen = card[c]
    BY <1>1, <2>1 DEF ReviewInv, ReadsFresh, Fresh
  <2>3. v.edit.state \in {"same", "pending", "approved"}
    BY <1>2, ClassroomAssumption
  <2>4. card[c].state \in {"pending", "approved"} /\ CardOK(card[c])
    BY <1>2, <2>1 DEF Present, ReviewInv, ReviewTypes
  <2>5. /\ new.state = IF v.edit.state = "same" THEN card[c].state ELSE v.edit.state
        /\ new.state \in {"pending", "approved"} /\ CardOK(new)
    BY MergedCard, <2>3, <2>4 DEF CardOK, States
  <2>6. /\ DOMAIN card' = Cards /\ card'[c] = new
        /\ \A d \in Cards \ {c} : card'[d] = card[d]
    <3> HIDE DEF new
    <3> QED BY <1>2, <2>1 DEF ReviewInv, ReviewTypes
  <2>7. trail.card[c] = (card[c].state = "approved") /\ trail.card[c] \in BOOLEAN
    BY <1>2, <2>1 DEF ReviewInv, AuditTrail, ReviewTypes, Approved
  <2>8. /\ DOMAIN trail' = {"card", "set", "true", "exact"} /\ trail'.card \in [Cards -> BOOLEAN]
        /\ trail'.set = trail.set /\ trail'.true
        /\ trail'.card[c] = (new.state = "approved")
        /\ \A d \in Cards \ {c} : trail'.card[d] = trail.card[d]
    <3>1. trail.true /\ DOMAIN trail = {"card", "set", "true", "exact"} /\ trail.card \in [Cards -> BOOLEAN]
      BY DEF ReviewInv, AuditTrail, ReviewTypes
    <3>2. CASE v.edit.state \in {"same", card[c].state}
      <4>1. trail' = trail /\ new.state = card[c].state
        BY <2>1, <2>2, <2>5, <3>2
      <4> HIDE DEF new, c, v
      <4> QED BY <2>7, <3>1, <4>1
    <3>3. CASE v.edit.state \notin {"same", card[c].state}
      <4> DEFINE before == card[c].state = "approved"
                 after == v.edit.state = "approved"
      <4>1. trail' = CardEvent(c, before, after)
        BY <2>1, <2>2, <3>3
      <4>2. before \in BOOLEAN /\ after \in BOOLEAN /\ before # after /\ before = trail.card[c]
        BY <2>3, <2>4, <2>7, <3>3
      <4>3. after = (new.state = "approved")
        BY <2>5, <3>3
      <4> HIDE DEF before, after, new, c, v
      <4>4. trail' = [trail EXCEPT !.card = [trail.card EXCEPT ![c] = after],
                                   !.true = trail.true /\ before = trail.card[c] /\ before # after]
        BY <4>1 DEF CardEvent
      <4>5. (trail.true /\ before = trail.card[c] /\ before # after) = TRUE
        BY <3>1, <4>2
      <4>6. trail' = [trail EXCEPT !.card = [trail.card EXCEPT ![c] = after], !.true = TRUE]
        BY <4>4, <4>5
      <4> QED BY <1>2, <3>1, <4>2, <4>3, <4>6
    <3> QED BY <3>2, <3>3
  <2> HIDE DEF new, c, v
  <2>9. /\ DOMAIN review' = Reviewers
        /\ \A f \in Reviewers : ReviewOK(review'[f]) /\ review'[f].pc # "holding"
    BY <1>1, HolderEnds DEF v
  <2>10. ReviewTypes'
    BY <1>1, <2>5, <2>6, <2>8, <2>9 DEF ReviewInv, ReviewTypes, CardOK, ReviewOK
  <2>11. AuditTrail'
    <3>1. trail'.set = published'
      BY <1>1, <2>8 DEF ReviewInv, AuditTrail
    <3>2. ASSUME NEW d \in Cards, Present(d)' PROVE trail'.card[d] = Approved(d)'
      <4>1. CASE d = c
        BY <4>1, <2>6, <2>8 DEF Approved
      <4>2. CASE d # c
        <5>1. Present(d) /\ Approved(d)' = Approved(d)
          BY <3>2, <4>2, <2>6 DEF Present, Approved
        <5> QED BY <5>1, <4>2, <2>8 DEF ReviewInv, AuditTrail
      <4> QED BY <4>1, <4>2
    <3> QED BY <2>8, <3>1, <3>2 DEF AuditTrail
  <2>12. NotYet'
    BY <2>5, <2>6, <2>8 DEF ReviewInv, NotYet
  <2>13. CardsValid'
    <3>1. Valid(new)
      BY <2>1, <2>2 DEF new
    <3> QED BY <2>6, <3>1 DEF ReviewInv, CardsValid, Present, Valid
  <2> QED BY <2>9, <2>10, <2>11, <2>12, <2>13, SetChanges
<1> QED BY <1>3, <1>4

LEMMA ApproveAllReview == ASSUME ReviewInv, NEW e \in Reviewers, ApproveAll(e) PROVE ReviewInv'
<1> DEFINE pending == review[e].pending
<1>1. review[e].pc = "holding" /\ review[e].kind = "all" /\ EndReview(e) /\ published' = published
  BY DEF ApproveAll
<1>2. CASE UNCHANGED <<card, trail>>
  BY <1>1, <1>2, ReviewEnds
<1>3. CASE ~UNCHANGED <<card, trail>>
  <2>1. /\ card' = [c \in Cards |->
              IF c \in pending /\ Present(c) THEN [card[c] EXCEPT !.state = "approved"]
              ELSE card[c]]
        /\ trail' = ApprovalEvent(pending)
    BY <1>3 DEF ApproveAll
  <2>2. pending \subseteq Cards
    BY <1>1 DEF ReviewInv, ReviewTypes, ReviewOK, NoReview
  <2>3. /\ \A c \in Cards : Present(c) => (card[c].state = "pending" <=> c \in pending)
        /\ \A c \in pending : card[c].state # "none"
    BY <1>1 DEF ReviewInv, ReadsFresh, Fresh
  <2>4. /\ trail.true /\ trail.set = published
        /\ \A c \in Cards : Present(c) => trail.card[c] = Approved(c)
        /\ DOMAIN trail = {"card", "set", "true", "exact"} /\ trail.card \in [Cards -> BOOLEAN]
    BY DEF ReviewInv, AuditTrail, ReviewTypes
  <2>5. \A c \in Cards : CardOK(card[c])
    BY DEF ReviewInv, ReviewTypes
  <2> HIDE DEF pending
  <2> DEFINE left == {c \in Cards : Present(c) /\ ~trail.card[c]}
             counted == {c \in pending : Present(c)}
  <2>6. left = counted /\ \A c \in pending \ left : card[c].state = "deleted"
    <3>1. ASSUME NEW c \in Cards PROVE c \in counted <=> c \in left
      <4>1. CASE Present(c)
        <5>1. card[c].state = "pending" <=> ~Approved(c)
          BY <4>1 DEF Present, Approved
        <5> QED BY <4>1, <5>1, <2>3, <2>4
      <4>2. CASE ~Present(c)
        BY <4>2
      <4> QED BY <4>1, <4>2
    <3>2. left = counted
      BY <3>1, <2>2
    <3>3. ASSUME NEW c \in pending, c \notin left PROVE card[c].state = "deleted"
      <4>1. ~Present(c) /\ c \in Cards
        BY <3>2, <3>3, <2>2
      <4> QED BY <4>1, <2>3, <2>5 DEF Present, CardOK, States
    <3> QED BY <3>2, <3>3
  <2>7. /\ DOMAIN trail' = {"card", "set", "true", "exact"} /\ trail'.card \in [Cards -> BOOLEAN]
        /\ trail'.set = trail.set /\ trail'.true
        /\ \A c \in Cards : trail'.card[c] = (trail.card[c] \/ c \in pending)
    <3> DEFINE all == [c \in Cards |-> trail.card[c] \/ c \in pending]
               exact == trail.exact /\ pending = left
    <3>1. trail' = [trail EXCEPT !.card = all,
                      !.true = trail.true /\ left = counted
                                 /\ \A c \in pending \ left : card[c].state = "deleted",
                      !.exact = exact]
      BY <2>1 DEF ApprovalEvent
    <3> HIDE DEF left, counted, exact
    <3>2. trail' = [trail EXCEPT !.card = all, !.true = TRUE, !.exact = exact]
      BY <3>1, <2>4, <2>6
    <3>3. all \in [Cards -> BOOLEAN] /\ \A c \in Cards : all[c] = (trail.card[c] \/ c \in pending)
      OBVIOUS
    <3> HIDE DEF all
    <3> QED BY <3>2, <3>3, <2>4
  <2> HIDE DEF left, counted
  <2>8. /\ DOMAIN card' = Cards
        /\ \A c \in Cards : c \notin pending \/ ~Present(c) => card'[c] = card[c]
        /\ \A c \in Cards : c \in pending /\ Present(c) =>
             /\ card'[c].state = "approved" /\ card'[c].opts = card[c].opts
             /\ card'[c].back = card[c].back /\ CardOK(card'[c])
    BY <2>1, <2>5 DEF CardOK, States
  <2>9. /\ DOMAIN review' = Reviewers
        /\ \A f \in Reviewers : ReviewOK(review'[f]) /\ review'[f].pc # "holding"
    BY <1>1, HolderEnds
  <2>10. ReviewTypes'
    BY <1>1, <2>5, <2>7, <2>8, <2>9 DEF ReviewInv, ReviewTypes, CardOK, ReviewOK
  <2>11. AuditTrail'
    <3>1. trail'.set = published'
      BY <1>1, <2>4, <2>7
    <3>2. ASSUME NEW c \in Cards, Present(c)' PROVE trail'.card[c] = Approved(c)'
      <4>1. CASE c \in pending
        BY <3>2, <4>1, <2>7, <2>8 DEF Present, Approved
      <4>2. CASE c \notin pending
        <5>1. Present(c) /\ Approved(c)' = Approved(c)
          BY <3>2, <4>2, <2>8 DEF Present, Approved
        <5>2. trail.card[c] = Approved(c) /\ trail.card[c] \in BOOLEAN
          BY <5>1, <2>4
        <5> QED BY <5>1, <5>2, <4>2, <2>7
      <4> QED BY <4>1, <4>2
    <3> QED BY <2>7, <3>1, <3>2 DEF AuditTrail
  <2>12. NotYet'
    BY <2>3, <2>4, <2>7, <2>8, SMTT(30) DEF ReviewInv, NotYet, Present
  <2>13. CardsValid'
    <3> SUFFICES ASSUME NEW c \in Cards, Present(c)' PROVE Valid(card'[c])
      BY DEF CardsValid, Valid
    <3>1. Present(c) /\ card'[c].opts = card[c].opts /\ card'[c].back = card[c].back
      BY <2>8 DEF Present
    <3> QED BY <3>1 DEF ReviewInv, CardsValid, Valid
  <2> QED BY <2>9, <2>10, <2>11, <2>12, <2>13, SetChanges
<1> QED BY <1>2, <1>3

\* Publication of the set, either way.
LEMMA SetEventReview ==
  ASSUME ReviewInv, NEW e \in Reviewers, review[e].pc = "holding", EndReview(e), UNCHANGED card,
         NEW public \in BOOLEAN, published' = public,
         \/ public = published /\ trail' = trail
         \/ public # published /\ trail' = SetEvent(published, public)
  PROVE  ReviewInv'
<1>1. /\ trail.true /\ trail.set = published /\ DOMAIN trail = {"card", "set", "true", "exact"}
      /\ trail.card \in [Cards -> BOOLEAN] /\ published \in BOOLEAN
  BY DEF ReviewInv, AuditTrail, ReviewTypes
<1>2. /\ DOMAIN trail' = {"card", "set", "true", "exact"} /\ trail'.card = trail.card
      /\ trail'.set = public /\ trail'.true
  <2>1. CASE public = published /\ trail' = trail
    BY <1>1, <2>1
  <2>2. CASE public # published /\ trail' = SetEvent(published, public)
    <3>1. (trail.true /\ published = trail.set /\ published # public) = TRUE
      BY <1>1, <2>2
    <3>2. trail' = [trail EXCEPT !.set = public, !.true = TRUE]
      BY <2>2, <3>1 DEF SetEvent
    <3> QED BY <1>1, <3>2
  <2> QED BY <2>1, <2>2
<1>3. /\ DOMAIN review' = Reviewers
      /\ \A f \in Reviewers : ReviewOK(review'[f]) /\ review'[f].pc # "holding"
  BY HolderEnds
<1>4. ReviewTypes'
  BY <1>1, <1>2, <1>3 DEF ReviewInv, ReviewTypes, CardOK, ReviewOK
<1>5. AuditTrail' /\ NotYet' /\ CardsValid'
  BY <1>2 DEF ReviewInv, AuditTrail, NotYet, CardsValid, Present, Approved, Valid
<1> QED BY <1>3, <1>4, <1>5, SetChanges

LEMMA PublishReview == ASSUME ReviewInv, NEW e \in Reviewers, Publish(e) PROVE ReviewInv'
<1>1. review[e].pc = "holding" /\ review[e].kind = "publish" /\ EndReview(e) /\ UNCHANGED card
  BY DEF Publish
<1>2. review[e].published = published /\ published \in BOOLEAN
  BY <1>1 DEF ReviewInv, ReadsFresh, Fresh, ReviewTypes
<1>3. CASE UNCHANGED <<published, trail>>
  BY <1>1, <1>3, ReviewEnds
<1>4. CASE published' = TRUE /\ trail' = IF published THEN trail ELSE SetEvent(FALSE, TRUE)
  <2>1. CASE published
    <3>1. TRUE = published /\ trail' = trail
      BY <1>2, <1>4, <2>1
    <3> QED BY <1>1, <1>4, <3>1, SetEventReview
  <2>2. CASE ~published
    <3>1. published = FALSE /\ TRUE # published
      BY <1>2, <2>2
    <3>2. trail' = SetEvent(published, TRUE)
      BY <1>4, <3>1
    <3> QED BY <1>1, <1>4, <3>1, <3>2, SetEventReview
  <2> QED BY <2>1, <2>2
<1> QED BY <1>2, <1>3, <1>4 DEF Publish

LEMMA UnpublishReview == ASSUME ReviewInv, NEW e \in Reviewers, Unpublish(e) PROVE ReviewInv'
<1>1. /\ review[e].pc = "holding" /\ review[e].kind = "unpublish" /\ EndReview(e) /\ UNCHANGED card
      /\ published' = FALSE
      /\ trail' = IF review[e].published THEN SetEvent(TRUE, FALSE) ELSE trail
  BY DEF Unpublish
<1>2. review[e].published = published /\ published \in BOOLEAN
  BY <1>1 DEF ReviewInv, ReadsFresh, Fresh, ReviewTypes
<1>3. CASE published
  <2>1. published = TRUE /\ FALSE # published
    BY <1>2, <1>3
  <2>2. trail' = SetEvent(published, FALSE)
    BY <1>1, <1>2, <2>1
  <2> QED BY <1>1, <2>1, <2>2, SetEventReview
<1>4. CASE ~published
  <2>1. FALSE = published /\ trail' = trail
    BY <1>1, <1>2, <1>4
  <2> QED BY <1>1, <2>1, SetEventReview
<1> QED BY <1>3, <1>4

LEMMA CreateReview ==
  ASSUME ReviewInv, NEW c \in Cards, NEW opts \in OptionLists, NEW t \in Texts, CreateCard(c, opts, t)
  PROVE  ReviewInv'
<1> DEFINE new == [state |-> "approved", opts |-> opts, back |-> t]
<1>1. /\ card[c].state = "none" /\ ~SetHeld /\ Valid(new)
      /\ card' = [card EXCEPT ![c] = new] /\ trail' = CardEvent(c, FALSE, TRUE)
      /\ UNCHANGED <<published, review>>
  BY DEF CreateCard, Valid
<1>2. new.state = "approved" /\ CardOK(new)
  BY DEF CardOK, States
<1> HIDE DEF new
<1>3. /\ trail.true /\ trail.set = published /\ trail.card[c] = FALSE
      /\ DOMAIN trail = {"card", "set", "true", "exact"} /\ trail.card \in [Cards -> BOOLEAN]
  BY <1>1 DEF ReviewInv, AuditTrail, ReviewTypes, NotYet
<1>4. /\ DOMAIN card' = Cards /\ card'[c] = new /\ \A d \in Cards \ {c} : card'[d] = card[d]
  BY <1>1 DEF ReviewInv, ReviewTypes
<1>5. /\ DOMAIN trail' = {"card", "set", "true", "exact"} /\ trail'.card \in [Cards -> BOOLEAN]
      /\ trail'.set = trail.set /\ trail'.true /\ trail'.card[c] = TRUE
      /\ \A d \in Cards \ {c} : trail'.card[d] = trail.card[d]
  <2>1. trail' = [trail EXCEPT !.card = [trail.card EXCEPT ![c] = TRUE],
                               !.true = trail.true /\ FALSE = trail.card[c] /\ FALSE # TRUE]
    BY <1>1 DEF CardEvent
  <2>2. (trail.true /\ FALSE = trail.card[c] /\ FALSE # TRUE) = TRUE
    BY <1>3
  <2>3. trail' = [trail EXCEPT !.card = [trail.card EXCEPT ![c] = TRUE], !.true = TRUE]
    BY <2>1, <2>2
  <2> QED BY <1>3, <2>3
<1>6. \A e \in Reviewers : review'[e].pc # "holding"
  BY <1>1 DEF SetHeld
<1>7. ReviewTypes'
  BY <1>1, <1>2, <1>4, <1>5 DEF ReviewInv, ReviewTypes, CardOK, ReviewOK
<1>8. AuditTrail'
  <2>1. trail'.set = published'
    BY <1>1, <1>3, <1>5
  <2>2. ASSUME NEW d \in Cards, Present(d)' PROVE trail'.card[d] = Approved(d)'
    <3>1. CASE d = c
      BY <3>1, <1>2, <1>4, <1>5 DEF Approved
    <3>2. CASE d # c
      <4>1. Present(d) /\ Approved(d)' = Approved(d)
        BY <2>2, <3>2, <1>4 DEF Present, Approved
      <4> QED BY <4>1, <3>2, <1>5 DEF ReviewInv, AuditTrail
    <3> QED BY <3>1, <3>2
  <2> QED BY <1>5, <2>1, <2>2 DEF AuditTrail
<1>9. NotYet'
  BY <1>2, <1>4, <1>5 DEF ReviewInv, NotYet
<1>10. CardsValid'
  <2> SUFFICES ASSUME NEW d \in Cards, Present(d)' PROVE Valid(card'[d])
    BY DEF CardsValid, Valid
  <2>1. CASE d = c
    BY <2>1, <1>1, <1>4
  <2>2. CASE d # c
    BY <2>2, <1>4 DEF ReviewInv, CardsValid, Present
  <2> QED BY <2>1, <2>2
<1> QED BY <1>6, <1>7, <1>8, <1>9, <1>10, SetChanges

\* A deletion takes no lock of the set: a review may hold it meanwhile.
LEMMA WithoutReview ==
  ASSUME ReviewInv, NEW gone, gone \subseteq Cards, Without(gone), UNCHANGED review,
         \/ UNCHANGED <<published, trail>>
         \/ ~SetHeld /\ published' = FALSE /\ trail' = [trail EXCEPT !.set = FALSE]
  PROVE  ReviewInv'
<1> DEFINE dead == [NoCard EXCEPT !.state = "deleted"]
<1>1. card' = [c \in Cards |-> IF c \in gone THEN dead ELSE card[c]]
  BY DEF Without
<1>2. dead.state = "deleted" /\ CardOK(dead)
  BY DEF NoCard, CardOK, States
<1> HIDE DEF dead
<1>3. /\ DOMAIN card' = Cards
      /\ \A c \in Cards : c \in gone => card'[c] = dead
      /\ \A c \in Cards : c \notin gone => card'[c] = card[c]
  BY <1>1
<1>4. \A c \in Cards : Present(c)' => c \notin gone /\ Present(c) /\ card'[c] = card[c]
  BY <1>2, <1>3 DEF Present
<1>5. /\ trail.true /\ trail.set = published /\ DOMAIN trail = {"card", "set", "true", "exact"}
      /\ trail.card \in [Cards -> BOOLEAN] /\ published \in BOOLEAN
  BY DEF ReviewInv, AuditTrail, ReviewTypes
<1>6. /\ DOMAIN trail' = {"card", "set", "true", "exact"} /\ trail'.card = trail.card /\ trail'.true
      /\ trail'.set = published' /\ published' \in BOOLEAN
  BY <1>5
<1>7. ReviewTypes'
  BY <1>2, <1>3, <1>5, <1>6 DEF ReviewInv, ReviewTypes, CardOK, ReviewOK
<1>8. AuditTrail'
  <2>1. ASSUME NEW c \in Cards, Present(c)' PROVE trail'.card[c] = Approved(c)'
    <3>1. Present(c) /\ Approved(c)' = Approved(c)
      BY <1>4, <2>1 DEF Approved
    <3> QED BY <3>1, <1>6 DEF ReviewInv, AuditTrail
  <2> QED BY <1>6, <2>1 DEF AuditTrail
<1>9. HoldersDistinct'
  BY DEF ReviewInv, HoldersDistinct
<1>10. ReadsFresh'
  <2> SUFFICES ASSUME NEW e \in Reviewers, review[e].pc = "holding" PROVE Fresh(review[e])'
    BY DEF ReadsFresh
  <2>1. Fresh(review[e]) /\ ReviewOK(review[e]) /\ published' = published
    BY DEF ReviewInv, ReadsFresh, ReviewTypes, SetHeld
  <2>2. CASE review[e].kind = "card"
    BY <2>1, <2>2, <1>4 DEF Fresh, ReviewOK, NoReview
  <2>3. CASE review[e].kind = "all"
    <3>1. review[e].pending \subseteq Cards
      BY <2>1, <2>3 DEF ReviewOK, NoReview
    <3>2. \A c \in Cards : card[c].state # "none" => card'[c].state # "none"
      BY <1>2, <1>3
    <3> QED BY <2>1, <2>3, <3>1, <3>2, <1>4 DEF Fresh
  <2>4. CASE review[e].kind \in {"publish", "unpublish"}
    BY <2>1, <2>4 DEF Fresh
  <2> QED BY <2>1, <2>2, <2>3, <2>4 DEF ReviewOK, NoReview
<1>11. NotYet'
  BY <1>2, <1>3, <1>6 DEF ReviewInv, NotYet
<1>12. CardsValid'
  BY <1>4 DEF ReviewInv, CardsValid, Valid
<1> QED BY <1>7, <1>8, <1>9, <1>10, <1>11, <1>12 DEF ReviewInv

\* Steps that leave the set alone.
LEMMA OtherReview ==
  ASSUME ReviewInv, UNCHANGED <<card, published, review, trail>>
  PROVE  ReviewInv'
<1>1. ReviewTypes' /\ HoldersDistinct'
  BY DEF ReviewInv, ReviewTypes, CardOK, ReviewOK, HoldersDistinct
<1>2. ReadsFresh'
  BY DEF ReviewInv, ReadsFresh, Fresh, Present
<1>3. AuditTrail' /\ NotYet' /\ CardsValid'
  BY DEF ReviewInv, AuditTrail, NotYet, CardsValid, Present, Approved, Valid
<1> QED BY <1>1, <1>2, <1>3 DEF ReviewInv

LEMMA ReviewStep == ReviewInv /\ [Next]_vars => ReviewInv'
<1> SUFFICES ASSUME ReviewInv, [Next]_vars PROVE ReviewInv'
  OBVIOUS
<1>1. CASE \E x \in Answerers :
             \/ \E s \in Students, c \in Cards, k \in Keys, sel \in Selections : Submit(x, s, c, k, sel)
             \/ Reserve(x) \/ Grade(x) \/ CommitAnswer(x) \/ LoseAnswer(x)
  BY <1>1, OtherReview, ZenonT(60) DEF Submit, Reserve, Grade, CommitAnswer, LoseAnswer, editing
<1>2. CASE \/ \E s \in Students : CountCards(s) \/ SumProgress(s)
           \/ Dismiss
  BY <1>2, OtherReview DEF CountCards, SumProgress, Dismiss, editing
<1>3. CASE \E e \in Reviewers :
             \/ \E c \in Cards, edit \in Edits : OpenCard(e, c, edit)
             \/ \E kind \in {"all", "publish", "unpublish"} : LockSet(e, kind)
             \/ LockCard(e) \/ SaveCard(e) \/ ApproveAll(e) \/ Publish(e) \/ Unpublish(e)
             \/ LoseReview(e)
  <2>1. ASSUME NEW e \in Reviewers, LoseReview(e) PROVE ReviewInv'
    BY <2>1, ReviewEnds DEF LoseReview
  <2> QED BY <1>3, <2>1, OpenCardReview, LockSetReview, LockCardReview, SaveCardReview, ApproveAllReview,
             PublishReview, UnpublishReview
<1>4. CASE \E c \in Cards, opts \in OptionLists, t \in Texts : CreateCard(c, opts, t)
  BY <1>4, CreateReview
<1>5. CASE \E c \in Cards : DeleteCard(c)
  <2>1. PICK c \in Cards : DeleteCard(c)
    BY <1>5
  <2> QED BY <2>1, WithoutReview DEF DeleteCard
<1>6. CASE DeleteSet
  <2> DEFINE gone == {c \in Cards : Present(c)}
  <2>1. gone \subseteq Cards /\ Without(gone)
    BY <1>6 DEF DeleteSet
  <2> HIDE DEF gone
  <2> QED BY <1>6, <2>1, WithoutReview DEF DeleteSet
<1>7. CASE UNCHANGED vars
  BY <1>7, OtherReview DEF vars
<1> QED BY <1>1, <1>2, <1>3, <1>4, <1>5, <1>6, <1>7 DEF Next

----------------------------------------------------------------------------
THEOREM StudyInvariance == Spec => []StudyInv
BY StudyInit, StudyStep, PTL DEF Spec

THEOREM ReviewInvariance == Spec => []ReviewInv
BY ReviewInit, ReviewStep, PTL DEF Spec

\* A logical answer counts once: whoever writes progress holds its row and a
\* key nobody else holds, and the receipt is written in the same transaction.
THEOREM CountedOnce == Spec => []AnsweredOnce
<1>1. StudyInv => AnsweredOnce
  BY DEF StudyInv, Counted, Given, Shown, Sum, AnsweredOnce
<1> QED BY <1>1, StudyInvariance, PTL

\* A repeated answer gets the response of the first time, for it is stored with
\* the receipt and the receipt is never written again.
THEOREM RepeatedTheSame == Spec => []SameAnswerAgain
<1>1. StudyInv => SameAnswerAgain
  <2> SUFFICES ASSUME StudyInv, NEW t \in told, NEW u \in told,
                      t.student = u.student, t.key = u.key
               PROVE  t.response = u.response
    BY DEF SameAnswerAgain
  <2> QED BY DEF StudyInv, Recorded
<1> QED BY <1>1, StudyInvariance, PTL

\* The audit events replay to the present state, since approvals and publication
\* are decided under the lock of the set by what the holder read under it; a bulk
\* approval counts, beyond what it approved, only cards deleted while it ran.
THEOREM AuditReplays == Spec => []AuditTrail
<1>1. ReviewInv => AuditTrail
  BY DEF ReviewInv
<1> QED BY <1>1, ReviewInvariance, PTL

\* The database accepts every row: the status of progress goes with its interval,
\* and the right answer of a card is one of its options whatever edits meet.
THEOREM RowsCorrect == Spec => []RowsAccepted
<1>1. StudyInv /\ ReviewInv => RowsAccepted
  BY DEF StudyInv, RowsLegal, Legal, ReviewInv, CardsValid, RowsAccepted
<1> QED BY <1>1, StudyInvariance, ReviewInvariance, PTL

=============================================================================
