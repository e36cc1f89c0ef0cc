------------------------- MODULE PublishedKnowledge -------------------------
(***************************************************************************)
(* What students read of the published lectures of one subject: pages and  *)
(* byte ranges of the original PDF (routers/published_knowledge.py,        *)
(* services/knowledge_pdf.py), the PDF behind a reference of an answer     *)
(* (routers/rag.py) and the text of an answer of an earlier policy         *)
(* (RagAnswerService.history), while the instructor captures, indexes,     *)
(* publishes, withdraws, removes and attaches originals.                   *)
(*                                                                         *)
(* A revision is a number, in the order in which revisions are created.    *)
(* Its length stands for byte size and page count, which the browser       *)
(* compares.  KnowledgeIndex has the life of the revisions in full; here   *)
(* each of its operations is one transaction under the knowledge lock.     *)
(***************************************************************************)
EXTENDS Naturals, FiniteSets, FiniteSetsExt

CONSTANTS Docs, MaxRevs,
          DocOf,      \* the document a revision belongs to
          FileOf,     \* its file: two revisions may have the same one
          Blocks,     \* its length in blocks
          Capacity,   \* blocks of originals that may be stored
          Viewers,    \* dialogs of students that show an original PDF
          NoOne, Instructor

Revs == 1 .. MaxRevs
First(d) == Min({r \in Revs : DocOf[r] = d})

ASSUME PublishedAssumption ==
  /\ MaxRevs \in Nat
  /\ DocOf \in [Revs -> Docs] /\ \A d \in Docs : \E r \in Revs : DocOf[r] = d
  /\ Blocks \in [Revs -> Nat \ {0}]
  /\ \A q, r \in Revs : FileOf[q] = FileOf[r] => Blocks[q] = Blocks[r]
  /\ Capacity \in Nat
  /\ NoOne \notin Viewers /\ Instructor \notin Viewers /\ NoOne # Instructor

VARIABLES content,   \* subject_document_content_revisions
          archive,   \* revisions with an original PDF (subject_document_pdfs)
          bundle,    \* the references of a completed answer job
          message,   \* an answer of an earlier policy and what history shows of it
          lock,      \* who holds the knowledge lock beyond one step
          attach,    \* the instructor's upload of an original
          view,      \* the dialogs
          withdrawn  \* history: revisions read while they were not published

vars == <<content, archive, bundle, message, lock, attach, view, withdrawn>>
corpus == <<content, archive, bundle, message>>

Absent  == [status |-> "none", active |-> FALSE, published |-> FALSE]
Ready   == [status |-> "ready", active |-> TRUE, published |-> TRUE]
Closed  == [pc |-> "closed", of |-> <<"none", 0>>, rev |-> 0, length |-> 0,
            parts |-> [n \in 1 .. Max({Blocks[r] : r \in Revs}) |-> 0]]
NoAttach == [pc |-> "idle", rev |-> 0, file |-> 0]
NoBundle == [sources |-> {}, current |-> FALSE]

\* The first revision of every document is published; those captured before
\* originals were kept have none.  The old answer cites them all.
Init ==
  /\ content = [r \in Revs |-> IF r = First(DocOf[r]) THEN Ready ELSE Absent]
  /\ \E kept \in SUBSET {First(d) : d \in Docs} :
        /\ MapThenSumSet(LAMBDA r : Blocks[r], kept) <= Capacity
        /\ archive = kept
  /\ bundle = NoBundle
  /\ message = [sources |-> {First(d) : d \in Docs}, current |-> TRUE, shown |-> FALSE]
  /\ lock = NoOne
  /\ attach = NoAttach
  /\ view = [v \in Viewers |-> Closed]
  /\ withdrawn = {}

----------------------------------------------------------------------------
(* Which revisions may be read.                                            *)

Live == {r \in Revs : content[r] = Ready}
LiveOf(d) == {r \in Live : DocOf[r] = d}
RevsOf(d) == {r \in Revs : DocOf[r] = d}
Kept(d) == {r \in RevsOf(d) : content[r].status \notin {"none", "removed"}}
ActiveOf(d) == {r \in Kept(d) : content[r].active}

\* Mutant: acquire_knowledge_write_lock forgotten.
Unguarded == TRUE
Free == lock = NoOne

\* The revision a request names: the published one of its document, or the one
\* the reference was made from, if nothing of its bundle has changed.
Target(of) ==
  IF of[1] = "document" THEN LiveOf(of[2])
  ELSE {r \in {of[2]} : bundle.current /\ r \in bundle.sources /\ bundle.sources \subseteq Live}

\* subjects.corpus_revision moves when a row of the corpus is written.
Bump(written) ==
  LET moves == \E r \in written : content[r] = Ready \/ content'[r] = Ready
  IN /\ bundle'  = [bundle EXCEPT !.current = @ /\ ~moves]
     /\ message' = [message EXCEPT !.current = @ /\ ~moves]

\* Mutant: only the originals of active revisions are counted.
StoredNow == MapThenSumSet(LAMBDA r : Blocks[r], {r \in archive : content[r].active})
Stored == MapThenSumSet(LAMBDA r : Blocks[r], archive)

Room(r) == Stored + Blocks[r] <= Capacity

----------------------------------------------------------------------------
(* The instructor and the workers.                                         *)

Readers == <<attach, view, lock, withdrawn>>

\* The worker captures an upload and stores its original in one transaction:
\* without room for the original the whole capture fails.
Capture(r) ==
  /\ Free
  /\ content[r] = Absent
  /\ \A q \in RevsOf(DocOf[r]) : q < r => content[q].status \notin {"none", "removed"}
  /\ Room(r)
  /\ content' = [content EXCEPT ![r].status = "pending_index"]
  /\ archive' = archive \cup {r}
  /\ UNCHANGED <<bundle, message>> /\ UNCHANGED Readers

\* The completed index makes its content the active, private one.
Index(r) ==
  /\ Free
  /\ content[r].status = "pending_index"
  /\ content' = [q \in Revs |->
        IF q = r THEN [status |-> "ready", active |-> TRUE, published |-> FALSE]
        ELSE IF q \in ActiveOf(DocOf[r]) THEN [content[q] EXCEPT !.active = FALSE]
        ELSE content[q]]
  /\ Bump(ActiveOf(DocOf[r]))
  /\ UNCHANGED archive /\ UNCHANGED Readers

Publish(d, public) ==
  \E r \in ActiveOf(d) :
     /\ Free
     /\ content[r].status = "ready"
     /\ public \/ content[r].published
     /\ content' = [content EXCEPT ![r].published = public]
     /\ Bump({r})
     /\ UNCHANGED archive /\ UNCHANGED Readers

Remove(d) ==
  /\ Free
  /\ Kept(d) # {}
  /\ content' = [r \in Revs |->
        IF r \in Kept(d) THEN [Absent EXCEPT !.status = "removed"] ELSE content[r]]
  /\ archive' = archive \ RevsOf(d)
  /\ Bump(Kept(d))
  /\ UNCHANGED Readers

\* The active revision is read before the body of the request.
AttachRead(d, file) ==
  \E r \in ActiveOf(d) :
     /\ attach = NoAttach
     /\ content[r].status = "ready"
     /\ attach' = [pc |-> "uploading", rev |-> r, file |-> file]
     /\ UNCHANGED <<corpus, view, lock, withdrawn>>

\* It must still be the active one, and the file the very file it was made of.
Attachable(r) ==
  /\ content[r].active /\ content[r].status = "ready"
  /\ attach.file = FileOf[r]
  /\ r \notin archive /\ Room(r)

AttachLock ==
  /\ Free
  /\ attach.pc = "uploading"
  /\ IF Attachable(attach.rev)
     THEN attach' = [attach EXCEPT !.pc = "storing"] /\ lock' = Instructor
     ELSE attach' = NoAttach /\ UNCHANGED lock
  /\ UNCHANGED <<corpus, view, withdrawn>>

AttachStore ==
  /\ attach.pc = "storing"
  /\ archive' = archive \cup {attach.rev}
  /\ attach' = NoAttach
  /\ lock' = NoOne
  /\ UNCHANGED <<content, bundle, message, view, withdrawn>>

\* A question completes with references to what is published now.
Answer(sources) ==
  /\ Free
  /\ bundle.sources = {}
  /\ bundle' = [sources |-> sources, current |-> TRUE]
  /\ UNCHANGED <<content, archive, message>> /\ UNCHANGED Readers

----------------------------------------------------------------------------
(* Students.                                                               *)

\* One source out of date hides the whole answer.
AllShown(found) == found = message.sources

\* history() takes no lock: one query decides about the sources of the answers.
ReadHistory ==
  LET found == IF message.current THEN message.sources \cap Live ELSE {}
  IN /\ message' = [message EXCEPT !.shown = AllShown(found)]
     /\ withdrawn' = IF AllShown(found) THEN withdrawn \cup (message.sources \ Live) ELSE withdrawn
     /\ UNCHANGED <<content, archive, bundle, lock, attach, view>>

References == {<<"reference", r>> : r \in bundle.sources}
Lectures == {<<"document", d>> : d \in Docs}

Open(v, of) ==
  /\ view[v] = Closed
  /\ view' = [view EXCEPT ![v] = [Closed EXCEPT !.pc = "metadata", !.of = of]]
  /\ UNCHANGED <<corpus, lock, attach, withdrawn>>

\* A request is at its lock: metadata and check ask for the length, range for a
\* block, turn and recheck for the text of the page.
Asking == {"metadata", "range", "check", "turn", "recheck"}
OfPdf  == {"metadata", "range", "check"}
Waiting(v) == view[v].pc \in Asking /\ view[v].rev = 0

Found(v) == IF view[v].pc \in OfPdf THEN Target(view[v].of) \cap archive ELSE Target(view[v].of)

Authorize(v) ==
  /\ Free /\ Waiting(v)
  /\ \E r \in Found(v) : view' = [view EXCEPT ![v].rev = r]
  /\ lock' = v
  /\ UNCHANGED <<corpus, attach, withdrawn>>

\* Mutant: a refused request keeps its transaction.
KeepsTransaction(v) == lock' = v
RollsBack(v) == lock' = NoOne

\* 404: the dialog rechecks the page, and closes when that is refused too.
Refuse(v) ==
  /\ Free /\ Waiting(v)
  /\ Found(v) = {}
  /\ view' = [view EXCEPT ![v] =
        IF @.pc \in OfPdf THEN [@ EXCEPT !.pc = "recheck"] ELSE Closed]
  /\ RollsBack(v)
  /\ UNCHANGED <<corpus, attach, withdrawn>>

\* The next block PDF.js asks for.
Missing(v) == {n \in 1 .. view[v].length : view[v].parts[n] = 0}

\* Mutant: the browser does not compare Content-Range with the length it knows.
AnyLength(v) == TRUE
SameLength(v) == Blocks[view[v].rev] = view[v].length

Received(v) ==
  LET d == [view[v] EXCEPT !.rev = 0]
      r == view[v].rev
  IN CASE d.pc = "metadata" -> [d EXCEPT !.pc = "range", !.length = Blocks[r]]
       [] d.pc = "range" /\ SameLength(v) ->
            [d EXCEPT !.pc = "ready", !.parts[Min(Missing(v))] = r]
       [] d.pc = "check" /\ SameLength(v) -> [d EXCEPT !.pc = "turn"]
       [] d.pc \in {"range", "check"} /\ ~SameLength(v) -> [d EXCEPT !.pc = "recheck"]
       [] d.pc = "turn" -> [d EXCEPT !.pc = "ready"]
       [] d.pc = "recheck" -> [d EXCEPT !.pc = "failed"]

\* What the request reads is read under the lock that covers its authorization.
Respond(v) ==
  /\ view[v].rev # 0
  /\ IF view[v].pc \in OfPdf /\ view[v].rev \notin archive
     THEN /\ view' = [view EXCEPT ![v] = [@ EXCEPT !.pc = "recheck", !.rev = 0]]
          /\ UNCHANGED withdrawn
     ELSE /\ view' = [view EXCEPT ![v] = Received(v)]
          /\ withdrawn' = withdrawn \cup ({view[v].rev} \ Live)
  /\ lock' = NoOne
  /\ UNCHANGED <<corpus, attach>>

\* PDF.js needs another block, or the student turns the page.
Continue(v) ==
  /\ view[v].pc = "ready"
  /\ \/ Missing(v) # {} /\ view' = [view EXCEPT ![v].pc = "range"]
     \/ view' = [view EXCEPT ![v].pc = "check"]
  /\ UNCHANGED <<corpus, lock, attach, withdrawn>>

Close(v) ==
  /\ view[v].pc \in {"ready", "failed"}
  /\ view' = [view EXCEPT ![v] = Closed]
  /\ UNCHANGED <<corpus, lock, attach, withdrawn>>

----------------------------------------------------------------------------
Attaching == AttachLock \/ AttachStore

Teaching ==
  \/ \E r \in Revs : Capture(r) \/ Index(r)
  \/ \E d \in Docs : Publish(d, TRUE) \/ Publish(d, FALSE) \/ Remove(d)
  \/ \E d \in Docs, r \in Revs : AttachRead(d, FileOf[r])
  \/ Attaching

Request(v) == Authorize(v) \/ Refuse(v)

Reading(v) ==
  \/ \E of \in Lectures \cup References : Open(v, of)
  \/ Request(v) \/ Respond(v) \/ Continue(v) \/ Close(v)

Next ==
  \/ Teaching
  \/ \E sources \in (SUBSET Live) \ {{}} : Answer(sources)
  \/ ReadHistory
  \/ \E v \in Viewers : Reading(v)

\* PostgreSQL grants an advisory lock in the order of the requests, so a request
\* that waits for it gets it; the rest of a request runs to its end.
Spec == /\ Init /\ [][Next]_vars
        /\ SF_vars(AttachLock) /\ WF_vars(AttachStore)
        /\ \A v \in Viewers : SF_vars(Request(v)) /\ WF_vars(Respond(v))

----------------------------------------------------------------------------
\* The rows keep their columns, and a dialog its parts.
TypeOK ==
  /\ content \in [Revs -> [status : {"none", "pending_index", "ready", "removed"},
                           active : BOOLEAN, published : BOOLEAN]]
  /\ archive \subseteq Revs
  /\ view \in [Viewers -> [pc : Asking \cup {"closed", "ready", "failed"},
                           of : Lectures \cup {<<"reference", r>> : r \in Revs} \cup {<<"none", 0>>},
                           rev : Revs \cup {0}, length : Nat, parts : [DOMAIN Closed.parts -> Revs \cup {0}]]]

\* No page, block or answer is read after its lecture was withdrawn, replaced or
\* removed, however the request and the instructor interleave: the check and the
\* read are one step for everyone who takes the knowledge lock.
NothingWithdrawnRead == withdrawn = {}

\* A PDF put together from several requests is one file.  The requests of a
\* lecture name no revision, so there it holds up to files of the same length.
OneFile ==
  \A v \in Viewers : \A m, n \in {k \in DOMAIN view[v].parts : view[v].parts[k] # 0} :
     LET q == view[v].parts[m]
         r == view[v].parts[n]
     IN q = r \/ (view[v].of[1] = "document" /\ Blocks[q] = Blocks[r])

\* Uploads, captures and removals in any order store no more than there is room
\* for, originals of replaced revisions included.
WithinCapacity == MapThenSumSet(LAMBDA r : Blocks[r], archive) <= Capacity

\* A dialog that is loading or turning a page comes to show it, to say that it
\* cannot, or to close, whatever the instructor does meanwhile.
DialogsSettle ==
  \A v \in Viewers : view[v].pc \in Asking ~> view[v].pc \notin Asking
=============================================================================
