-------------------------- MODULE MCKnowledgeIndex --------------------------
(* The Knowledge of a subject on small instances.                            *)
EXTENDS KnowledgeIndex, TLC

CONSTANTS d1, d2, s1, s2

OneDoc == {d1}
TwoDocs == {d1, d2}
OneSpace == {s1}
TwoSpaces == {s1, s2}

EveryFault == {"error", "drain", "crash", "delay"}
Errors == {"error"}

SpaceSymmetry == Permutations(TwoSpaces) \cup Permutations(TwoDocs)

=============================================================================
