-------------------------- MODULE MCGenerationJob --------------------------
(***************************************************************************)
(* Generation jobs on small instances.  A job that is alone meets lost     *)
(* claims, its successor in the other slot and every retry; two jobs meet  *)
(* in what they capture, reuse and revise.  Only when a job may be         *)
(* reserved, claimed or retried by hand is restricted, so nothing is taken *)
(* from a claim once it is there.                                          *)
(***************************************************************************)
EXTENDS GenerationJob, TLC

CONSTANTS j1, j2, f0, f1, f2, t1, t2, seed

OneJob == {j1}
TwoJobs == {j1, j2}
OneFile == {f1}
TwoFiles == {f1, f2}
OneTask == {t1}
TwoTasks == {t1, t2}
EveryKind == {"flashcards", "knowledge_only"}
TwoOfKind == [flashcards |-> 2, knowledge_only |-> 2]
OwnOfKind == [flashcards |-> 2, knowledge_only |-> 1]
PendingOfKind == [flashcards |-> 2, knowledge_only |-> 1]

Symmetry == Permutations(TwoJobs) \cup Permutations(TwoFiles) \cup Permutations(TwoTasks)

\* Beside another job, a job has its first attempt only, and one coroutine runs.
Alone == \E j \in Jobs : job[j].status = "absent"
Narrow ==
    /\ \A j \in Jobs : job[j].attempt_count <= 1 /\ job[j].manual_retry_count = 0
    /\ Cardinality({t \in Tasks : task[t].pc # "idle"}) <= 1

MCSpec == Init /\ [][Next /\ (Alone \/ Narrow)']_vars

\* The second job is reserved for Knowledge, when the first has captured some
\* and has used up its attempts.
Joins ==
    /\ job[j2].status = "absent" /\ job'[j2].status # "absent"
    => /\ job[j1].kind = "knowledge_only" /\ job'[j2].kind = "knowledge_only"
       /\ job[j1].capture = "captured" /\ job[j1].attempt_count = MaxAttempts

RecoverySpec == Init /\ [][Next /\ Joins]_vars /\ Fairness

=============================================================================
