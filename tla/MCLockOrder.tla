----------------------------- MODULE MCLockOrder -----------------------------
(* One generation job and two questions: any two transactions meet, or any  *)
(* three of the generation side.                                           *)
EXTENDS LockOrder, TLC

MCKinds == OfJob \cup OfAnswer \cup OfAll

GenerationSide == (OfJob \cup OfAll) \ {"reset password"}

MCMeet(n, kinds) == n <= 2 \/ kinds \subseteq GenerationSide

Sym == Permutations(Tx)
=============================================================================
