---------------------------- MODULE CardPipeline ----------------------------
(***************************************************************************)
(* One run of FlashcardGenerationPipeline: what it asks of the provider,   *)
(* in which order and how much of it at once, what it may still spend,     *)
(* and which cards it takes.                                               *)
(*                                                                         *)
(* A document is a sequence of chunks and a chunk its page and its tokens. *)
(* A prompt is its number of tokens, an answer its usage and, of the       *)
(* candidates it holds for each chunk, how many are grounded and distinct. *)
(* A call is one generate_structured, which may ask the provider again.    *)
(***************************************************************************)
EXTENDS Integers, Sequences, FiniteSets, SequencesExt

CONSTANTS
    Docs,               \* the documents, sequences of [page, tokens]
    Target,             \* target_count
    CardsPerRequest,    \* flashcard_ai_cards_per_request
    RequestTarget,      \* flashcard_ai_request_input_target_tokens
    RefillRounds,       \* flashcard_ai_refill_rounds
    Concurrency,        \* flashcard_ai_concurrency
    GroupSize,          \* summaries of one reduce call, 8 in the code
    MaxInput,           \* flashcard_ai_max_job_input_tokens
    MaxOutput,          \* flashcard_ai_max_job_output_tokens
    InputPrice, OutputPrice, MaxCost,  \* the cost envelope of a job
    ContextWindow,      \* flashcard_ai_context_window_tokens
    SummaryOutput,      \* flashcard_ai_summary_output_tokens
    CallOutput,         \* flashcard_ai_max_output_tokens
    CardOutput,         \* output tokens for a card, 512 in the code
    BaseOutput,         \* and for the answer around the cards, 256 in the code
    Instructions,       \* tokens of the fixed part of a prompt
    RefillReserve,            \* REFILL_PROMPT_TOKEN_RESERVE
    CallRetries,        \* profile.max_retries, the attempts of a call after its first
    Drift,              \* bound of the model: how the tokens of an attempt may differ
                        \* from its envelope
    Offers,             \* bound of the model: good candidates for one chunk in one answer
    None

ASSUME PipelineAssumption ==
    /\ Docs \subseteq Seq([page : Nat, tokens : Nat])
    /\ {Target, CardsPerRequest, RequestTarget, Concurrency,
        SummaryOutput, CallOutput, BaseOutput} \subseteq Nat \ {0}
    /\ GroupSize \in Nat \ {0, 1}
    /\ {RefillRounds, MaxInput, MaxOutput, InputPrice, OutputPrice, MaxCost, ContextWindow,
        CardOutput, Instructions, RefillReserve, CallRetries} \subseteq Nat
    /\ Drift \subseteq [in : Int, out : Int] /\ Offers \subseteq Nat
    /\ None \notin {"ok", "insufficient", "no_text", "limit", "failed", "stopped"}

VARIABLES
    doc,        \* the prepared chunks
    packs,      \* summary_packs of the document
    stage,      \* where _run is
    fan,        \* the calls it waits for
    requested,  \* requested_by_chunk_id
    accepted,   \* accepted_by_chunk_id
    books,      \* usage, pending and uncertain tokens of the run
    sent,       \* _logical_request_counts_by_stage
    ending,     \* the exception on its way out of the run
    result,     \* how the run ended
    spent,      \* history: tokens the provider counts, those of attempts under way included
    beyond,     \* history: of these, what attempts took beyond their envelope and
                \* all of the attempts that were tried again
    answered    \* history: the kinds of call that were answered

vars == <<doc, packs, stage, fan, requested, accepted, books, sent, ending, result,
          spent, beyond, answered>>

\* UsageTotals: input and output tokens.
Zero == [in |-> 0, out |-> 0]
Plus(a, b) == [in |-> a.in + b.in, out |-> a.out + b.out]
Minus(a, b) == [in |-> a.in - b.in, out |-> a.out - b.out]
Least(x, y) == IF x < y THEN x ELSE y
Total(f) == SumFunction(f)

Chunks == DOMAIN doc

\* todo, next: summaries of the level being reduced and of the next one;
\* waves: those after the current one.
Start == [at |-> "start", todo |-> 0, next |-> 0, round |-> 0, waves |-> <<>>]

-----------------------------------------------------------------------------
(* The plan: packs, allocations, batches and waves                         *)

TokensOf(cs) == Total([c \in cs |-> doc[c].tokens])

\* _summary_map_prompt and summary_reduce_prompt.
MapPrompt(pack) == Instructions + TokensOf(pack)
ReducePrompt(n) == Instructions + n * SummaryOutput

\* A chunk joins the last pack while its prompt stays within the target.
JoinPack(ps, c) ==
    IF ps # <<>> /\ MapPrompt(Last(ps) \cup {c}) <= RequestTarget
      THEN [ps EXCEPT ![Len(ps)] = @ \cup {c}]
      ELSE Append(ps, {c})

\* pack_chunks_for_requests
Packs == FoldLeft(JoinPack, <<>>, [c \in Chunks |-> c])

Init ==
    /\ doc \in Docs /\ packs = Packs
    /\ stage = Start /\ fan = <<>> /\ sent = [map |-> 0, reduce |-> 0, cards |-> 0]
    /\ requested = [c \in Chunks |-> 0] /\ accepted = [c \in Chunks |-> 0]
    /\ books = [used |-> Zero, pending |-> Zero, uncertain |-> Zero]
    /\ ending = None /\ result = None
    /\ spent = Zero /\ beyond = Zero /\ answered = {}

\* Documents of several packs are summarised first.
Summarised == Len(packs) > 1

Lower(s, t) ==
    \E i \in DOMAIN s : s[i] < t[i] /\ \A k \in 1 .. i - 1 : s[k] = t[k]

\* allocate_adaptive_card_targets: pages take turns, each with its least requested
\* chunk; evidence not asked yet goes first, then what was productive.
Allocation(missing, asked, got) ==
    LET Turn(c) == Cardinality({d \in Chunks : /\ doc[d].page = doc[c].page
                                               /\ Lower(<<asked[d], d>>, <<asked[c], c>>)})
        Key(c) == IF asked[c] = 0 THEN <<0, 0, 0, Turn(c), doc[c].page>>
                  ELSE <<1, -got[c], asked[c], Turn(c), doc[c].page>>
        Place(c) == Cardinality({d \in Chunks : Lower(Key(d), Key(c))})
    IN [c \in Chunks |->
           (missing \div Len(doc)) + (IF Place(c) < missing % Len(doc) THEN 1 ELSE 0)]

\* A batch is the number of cards it asks of each of its chunks.  With one pack
\* the whole document is its evidence.
CardPrompt(batch, exclusions) ==
    Instructions + TokensOf(IF Summarised THEN DOMAIN batch ELSE Chunks)
                 + (IF Summarised THEN SummaryOutput ELSE 0) + exclusions

\* The tokens of accepted_exclusions for n cards, which its bound keeps below
\* the reserve.
Exclusions(n) == Least(n, RefillReserve)

\* A batch with one card more for chunk c, and whether there is room for it.
With(batch, c) ==
    [d \in DOMAIN batch \cup {c} |->
        (IF d \in DOMAIN batch THEN batch[d] ELSE 0) + (IF d = c THEN 1 ELSE 0)]

Room(batch, c, exclusions) ==
    /\ Total(batch) < CardsPerRequest
    /\ \/ c \in DOMAIN batch \/ ~Summarised
       \/ CardPrompt(With(batch, c), exclusions) + RefillReserve <= RequestTarget

\* _generation_batches: card after card joins the last batch while it has room.
JoinBatch(batches, c, exclusions) ==
    IF batches # <<>> /\ Room(Last(batches), c, exclusions)
      THEN [batches EXCEPT ![Len(batches)] = With(@, c)]
      ELSE Append(batches, [d \in {c} |-> 1])

Batches(allocation, exclusions) ==
    FoldLeft(LAMBDA batches, c : JoinBatch(batches, c, exclusions), <<>>,
             FlattenSeq([c \in Chunks |-> [k \in 1 .. allocation[c] |-> c]]))

Shares(batch, other) == DOMAIN batch \cap DOMAIN other # {}

\* Batches that share a chunk with the last wave start another.
JoinWave(waves, batch) ==
    IF waves # <<>> /\ \A i \in DOMAIN Last(waves) : ~Shares(batch, Last(waves)[i])
      THEN [waves EXCEPT ![Len(waves)] = Append(@, batch)]
      ELSE Append(waves, <<batch>>)

Waves(batches) == FoldLeft(JoinWave, <<>>, batches)

\* The output tokens a batch may use.
BatchOutput(batch) == Least(CallOutput, Total(batch) * CardOutput + BaseOutput)

-----------------------------------------------------------------------------
(* The estimate                                                            *)

\* Mutant: the calls of one level of summaries only.
FirstLevelOnly(n) == IF n > 1 THEN (n \div GroupSize) + (IF n % GroupSize > 1 THEN 1 ELSE 0) ELSE 0

\* _reduce_call_count for n summaries.
ReduceCalls(n) ==
    LET calls[m \in 0 .. n] ==
            IF m <= 1 THEN 0
            ELSE (m \div GroupSize) + (IF m % GroupSize > 1 THEN 1 ELSE 0)
                 + calls[(m + GroupSize - 1) \div GroupSize]
    IN calls[n]

SummaryCalls == IF Summarised THEN Len(packs) + ReduceCalls(Len(packs)) ELSE 0

\* The batches of every round when no card is ever accepted.
Projected ==
    LET Round(done, r) ==
            LET share == Allocation(Target, done.asked, [c \in Chunks |-> 0])
            IN [asked |-> [c \in Chunks |-> done.asked[c] + share[c]],
                batches |-> done.batches \o Batches(share, 0)]
    IN FoldLeft(Round, [asked |-> [c \in Chunks |-> 0], batches |-> <<>>],
                [r \in 1 .. RefillRounds + 1 |-> r]).batches

Estimate ==
    LET batches == Projected
        maps == IF Summarised THEN Total([i \in DOMAIN packs |-> MapPrompt(packs[i])]) ELSE 0
        reduces == IF Summarised THEN ReduceCalls(Len(packs)) ELSE 0
    IN [in |-> maps + reduces * ReducePrompt(GroupSize)
               + Total([i \in DOMAIN batches |-> CardPrompt(batches[i], 0) + RefillReserve]),
        out |-> SummaryCalls * SummaryOutput
                + Total([i \in DOMAIN batches |-> BatchOutput(batches[i])])]

\* The three budgets of a job, with cost_microusd.
Within(t) ==
    /\ t.in <= MaxInput /\ t.out <= MaxOutput
    /\ t.in * InputPrice + t.out * OutputPrice <= MaxCost

-----------------------------------------------------------------------------
(* The calls                                                               *)

\* held: not started before the probe is back; waiting for a slot of the
\* semaphore; out: asked of the provider; leaving: cancelled while out.
NewCall(kind, batch, input, output) ==
    [kind |-> kind, batch |-> batch, in |-> input, out |-> output,
     state |-> "waiting", tries |-> 0, offers |-> <<>>]

Envelope(call) == [in |-> call.in, out |-> call.out]

InState(states) == {i \in DOMAIN fan : fan[i].state \in states}

Move(i, state) == fan' = [fan EXCEPT ![i].state = state]

\* The first of several calls goes ahead of the others.
Probed(calls) ==
    [i \in DOMAIN calls |-> IF i = 1 THEN calls[i] ELSE [calls[i] EXCEPT !.state = "held"]]

MapCalls == [i \in DOMAIN packs |-> NewCall("map", <<>>, MapPrompt(packs[i]), SummaryOutput)]

ReduceCall(todo) ==
    LET n == Least(todo, GroupSize) IN <<NewCall("reduce", <<>>, ReducePrompt(n), SummaryOutput)>>

CardCalls(wave, got) ==
    [i \in DOMAIN wave |->
        NewCall("cards", wave[i], CardPrompt(wave[i], Exclusions(got)), BatchOutput(wave[i]))]

Charged == Plus(Plus(books.used, books.pending), books.uncertain)

\* Its prompt and its answer have to fit into the context window.
TooLarge(call) == call.in + call.out > ContextWindow

\* A call that does not raises before it queues for the semaphore.
Refuse(i) ==
    /\ fan[i].state = "waiting" /\ ending = None /\ TooLarge(fan[i])
    /\ Move(i, "failed")
    /\ UNCHANGED <<doc, packs, stage, requested, accepted, books, sent, ending, result,
                   spent, beyond, answered>>

\* The limits of the semaphore and of the budgets are read in one step with the
\* reservation; a task that is refused raises.
Admit(i) ==
    /\ fan[i].state = "waiting" /\ ending = None /\ ~TooLarge(fan[i])
    /\ \A k \in 1 .. i - 1 : fan[k].state = "waiting" => TooLarge(fan[k])
    /\ Cardinality(InState({"out"})) < Concurrency
    /\ IF ~Within(Plus(Charged, Envelope(fan[i])))
         THEN /\ Move(i, "failed")
              /\ UNCHANGED <<books, sent, spent>>
         ELSE /\ Move(i, "out")
              /\ books' = [books EXCEPT !.pending = Plus(@, Envelope(fan[i]))]
              /\ sent' = [sent EXCEPT ![fan[i].kind] = @ + 1]
              /\ spent' = Plus(spent, Envelope(fan[i]))
    /\ UNCHANGED <<doc, packs, stage, requested, accepted, ending, result, beyond, answered>>

\* What a provider may count for an attempt that answers: more or less than its
\* envelope of both kinds of tokens.
Receipts(call) ==
    {u \in {Plus(Envelope(call), d) : d \in Drift \cup {Zero}} : u.in >= 0 /\ u.out >= 0}

\* One that fails may also never have been sent.
Counted(call) == Receipts(call) \cup {Zero}

Excess(u, envelope) ==
    [in |-> u.in - Least(u.in, envelope.in), out |-> u.out - Least(u.out, envelope.out)]

\* The attempt under way has ended and the provider counted u for it.
AttemptEnds(call, u) ==
    /\ spent' = Plus(Minus(spent, Envelope(call)), u)
    /\ beyond' = Plus(beyond, Excess(u, Envelope(call)))

\* An attempt fails and the call tries again, of which its envelope knows nothing.
TryAgain(i) ==
    /\ fan[i].state = "out" /\ fan[i].tries < CallRetries
    /\ fan' = [fan EXCEPT ![i].tries = @ + 1]
    /\ \E u \in Counted(fan[i]) : spent' = Plus(spent, u) /\ beyond' = Plus(beyond, u)
    /\ UNCHANGED <<doc, packs, stage, requested, accepted, books, sent, ending, result, answered>>

\* The candidates an answer may hold: of the chunks it was asked about, and of
\* others, which are rejected.
Candidates(call) ==
    IF call.kind = "cards" THEN [DOMAIN call.batch -> Offers] ELSE {<<>>}

\* A call that returns is settled, and its job may have used up its budget.
Answer(i) ==
    /\ fan[i].state = "out"
    /\ \E u \in Receipts(fan[i]), offers \in Candidates(fan[i]) :
          LET used == Plus(books.used, u)
          IN /\ fan' = [fan EXCEPT ![i].state = IF Within(used) THEN "ok" ELSE "failed",
                                   ![i].offers = IF Within(used) THEN offers ELSE <<>>]
             /\ books' = [books EXCEPT !.used = used,
                                       !.pending = Minus(@, Envelope(fan[i]))]
             /\ AttemptEnds(fan[i], u)
    /\ answered' = answered \cup {fan[i].kind}
    /\ UNCHANGED <<doc, packs, stage, requested, accepted, sent, ending, result>>

\* Mutant: a call without a receipt is taken for free.
LostFree(call) ==
    books' = [books EXCEPT !.pending = Minus(@, Envelope(call))]

\* A call without a receipt stays charged with its envelope.
Lost(call) ==
    books' = [books EXCEPT !.pending = Minus(@, Envelope(call)),
                           !.uncertain = Plus(@, Envelope(call))]

Fails(i) ==
    /\ fan[i].state = "out"
    /\ Lost(fan[i]) /\ Move(i, "failed")
    /\ \E u \in Counted(fan[i]) : AttemptEnds(fan[i], u)
    /\ UNCHANGED <<doc, packs, stage, requested, accepted, sent, ending, result, answered>>

-----------------------------------------------------------------------------
(* The run                                                                 *)

\* What _run does next: it waits for calls or it is over.
Await(st, calls) == stage' = st /\ fan' = calls /\ UNCHANGED result

Over(how) == stage' = [Start EXCEPT !.at = "over"] /\ fan' = <<>> /\ result' = how

\* The next wave while cards are missing; after the last one of a round the next
\* round asks for what is still missing.
NextWave(st, asked, got) ==
    LET missing == Target - Total(got)
        wave(round, waves) ==
            LET calls == CardCalls(Head(waves), Total(got))
            IN Await([st EXCEPT !.at = "cards", !.round = round, !.waves = Tail(waves)],
                     IF st.at # "cards" THEN Probed(calls) ELSE calls)
        fresh(round) ==
            wave(round, Waves(Batches(Allocation(missing, asked, got),
                                      IF round > 0 THEN Exclusions(Total(got)) ELSE 0)))
    IN \/ /\ missing = 0 /\ Over("ok")
       \/ /\ missing # 0 /\ st.at # "cards" /\ fresh(0)
       \/ /\ missing > 0 /\ st.at = "cards" /\ st.waves # <<>> /\ wave(st.round, st.waves)
       \/ /\ missing > 0 /\ st.at = "cards" /\ st.waves = <<>> /\ st.round < RefillRounds
          /\ fresh(st.round + 1)
       \/ /\ \/ missing < 0
             \/ missing > 0 /\ st.at = "cards" /\ st.waves = <<>> /\ st.round = RefillRounds
          /\ Over("insufficient")

\* The next group of summaries, from level to level until one is left.
NextGroup(todo, next) ==
    IF todo + next = 1 THEN NextWave(Start, requested, accepted)
    ELSE LET level == IF todo >= 2 THEN <<todo, next>> ELSE <<todo + next, 0>>
             n == Least(level[1], GroupSize)
         IN Await([Start EXCEPT !.at = "reduce", !.todo = level[1] - n, !.next = level[2] + 1],
                  ReduceCall(level[1]))

Begin ==
    /\ stage.at = "start" /\ result = None
    /\ \/ doc = <<>> /\ Over("no_text")
       \/ doc # <<>> /\ ~Within(Estimate) /\ Over("limit")
       \/ doc # <<>> /\ Within(Estimate) /\ Summarised
             /\ Await([Start EXCEPT !.at = "map"], Probed(MapCalls))
       \/ doc # <<>> /\ Within(Estimate) /\ ~Summarised /\ NextWave(Start, requested, accepted)
    /\ UNCHANGED <<doc, packs, requested, accepted, books, sent, ending, spent, beyond, answered>>

\* The probe is back: the others start.
FanOut ==
    /\ ending = None /\ InState({"held"}) # {} /\ fan[1].state = "ok"
    /\ fan' = [i \in DOMAIN fan |->
                  IF fan[i].state = "held" THEN [fan[i] EXCEPT !.state = "waiting"] ELSE fan[i]]
    /\ UNCHANGED <<doc, packs, stage, requested, accepted, books, sent, ending, result,
                   spent, beyond, answered>>

\* What a batch asks of a chunk.
Asked(call, c) == IF c \in DOMAIN call.batch THEN call.batch[c] ELSE 0

\* Mutant: a chunk gives as many cards as there are candidates.
TakenAll(call, c) == IF c \in DOMAIN call.batch THEN call.offers[c] ELSE 0

\* What a batch adds to the accepted cards: of each chunk no more than was asked.
\* The candidates are read until the target is met, and the quotas of a round
\* sum to what is missing.
Taken(call, c) ==
    IF c \in DOMAIN call.batch THEN Least(call.offers[c], call.batch[c]) ELSE 0

\* Every call is back with an answer.
Gathered ==
    /\ ending = None /\ fan # <<>> /\ InState({"ok"}) = DOMAIN fan
    /\ LET Gain(got, Of(_, _)) ==
               [c \in Chunks |-> got[c] + Total([i \in DOMAIN fan |-> Of(fan[i], c)])]
           asked == Gain(requested, Asked)
           got == Gain(accepted, Taken)
       IN /\ \/ stage.at = "map" /\ NextGroup(Len(fan), 0)
             \/ stage.at = "reduce" /\ NextGroup(stage.todo, stage.next)
             \/ stage.at = "cards" /\ NextWave(stage, asked, got)
          /\ IF stage.at = "cards" THEN requested' = asked /\ accepted' = got
                                   ELSE UNCHANGED <<requested, accepted>>
    /\ UNCHANGED <<doc, packs, books, sent, ending, spent, beyond, answered>>

\* Mutant: the siblings of a call that failed go on.
AbandonSiblings == fan

\* The tasks that are not done are cancelled: those that wait never call.
CancelSiblings ==
    [i \in DOMAIN fan |-> [fan[i] EXCEPT !.offers = <<>>, !.state =
        CASE @ = "out" -> "leaving"
          [] @ \in {"held", "waiting"} -> "gone"
          [] OTHER -> @]]

\* _gather_fail_fast sees the first failure; until then other tasks may start.
FailFast ==
    /\ ending = None /\ InState({"failed"}) # {}
    /\ ending' = "failed" /\ fan' = CancelSiblings
    /\ UNCHANGED <<doc, packs, stage, requested, accepted, books, sent, result, spent, beyond, answered>>

\* The job is cancelled, drained, loses its lease or reaches its time limit.
JobStops ==
    /\ ending = None /\ fan # <<>>
    /\ ending' = "stopped" /\ fan' = CancelSiblings
    /\ UNCHANGED <<doc, packs, stage, requested, accepted, books, sent, result, spent, beyond, answered>>

Leave(i) ==
    /\ fan[i].state = "leaving"
    /\ Lost(fan[i]) /\ Move(i, "gone")
    /\ \E u \in Counted(fan[i]) : AttemptEnds(fan[i], u)
    /\ UNCHANGED <<doc, packs, stage, requested, accepted, sent, ending, result, answered>>

\* The exception leaves the run when every sibling has left.
Raise ==
    /\ ending # None /\ result = None /\ InState({"leaving"}) = {}
    /\ Over(ending)
    /\ UNCHANGED <<doc, packs, requested, accepted, books, sent, ending, spent, beyond, answered>>

\* A run that is over stays so; any other state without a successor is a deadlock.
Done == result # None /\ UNCHANGED vars

-----------------------------------------------------------------------------
Next ==
    \/ Begin \/ FanOut \/ Gathered \/ FailFast \/ JobStops \/ Raise \/ Done
    \/ \E i \in DOMAIN fan :
          Refuse(i) \/ Admit(i) \/ TryAgain(i) \/ Answer(i) \/ Fails(i) \/ Leave(i)

Spec == Init /\ [][Next]_vars

-----------------------------------------------------------------------------
(* Properties                                                              *)

\* The books are no billing ledger (_call): they know neither what an attempt took
\* beyond its envelope nor the attempts that generate_structured tried again.  But
\* for these two, what the provider counts for a run stays within the three budgets
\* of the job, however calls fail, return late or are cancelled with unknown usage.
SpendingBounded ==
    /\ spent.in <= MaxInput + beyond.in
    /\ spent.out <= MaxOutput + beyond.out
    /\ spent.in * InputPrice + spent.out * OutputPrice
          <= MaxCost + beyond.in * InputPrice + beyond.out * OutputPrice

\* When a run is over no call of it is out, so that the accounting of the next
\* run of the facade starts from nothing (run, _gather_fail_fast).
NothingOutlivesRun ==
    result # None => InState({"out", "leaving"}) = {} /\ books.pending = Zero

\* The rounds never take more cards than the target nor more of a chunk than was
\* asked of it, and a run that is successful has exactly the target (_run).
CardsExact ==
    /\ Total(accepted) <= Target
    /\ \A c \in Chunks : accepted[c] <= requested[c]
    /\ (result = "ok") => Total(accepted) = Target

\* No two calls of a kind are out before one of that kind was answered, and calls
\* that are out together ask for different chunks (_run).
FanOutDiscipline ==
    LET out == InState({"out", "leaving"})
    IN \A i, k \in out : i # k =>
          /\ fan[i].kind \in answered
          /\ ~Shares(fan[i].batch, fan[k].batch)

\* The estimate counts the calls of the summaries as they are made, whatever the
\* number of packs (_reduce_call_count, _reduce_summaries).
SummariesAsEstimated ==
    /\ sent.map + sent.reduce <= SummaryCalls
    /\ sent.cards > 0 => sent.map + sent.reduce = SummaryCalls

=============================================================================
