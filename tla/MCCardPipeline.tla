-------------------------- MODULE MCCardPipeline --------------------------
(* A run over documents of one pack, of several, and of no text.  Attempts  *)
(* are repeated in the run of one pack only.                                *)
EXTENDS CardPipeline

Chunk(page, tokens) == [page |-> page, tokens |-> tokens]

Single == <<Chunk(1, 2)>>
Small == <<Chunk(1, 1), Chunk(1, 1), Chunk(2, 1)>>
Large == <<Chunk(1, 3), Chunk(1, 3), Chunk(2, 3), Chunk(3, 3), Chunk(3, 3)>>
\* Cards of its second chunk do not fit into the context window.
Wide == <<Chunk(1, 1), Chunk(2, 14)>>
Documents == {<<>>, Single, Small, Large, Wide}
Retried == {Small}

\* More read and less written than in the envelope, or more written.
Drifts == {[in |-> 1, out |-> -1], [in |-> 0, out |-> 2]}
UpToTwo == {0, 2}

MCSpec ==
    Init /\ [][Next /\ (doc \in Retried \/ \A i \in DOMAIN fan' : fan'[i].tries = 0)]_vars

=============================================================================
