--------------------------- MODULE MCEmailOutbox ---------------------------
(* The outbox on a small instance: two slots, each in a process of its own.  *)
EXTENDS EmailOutbox, TLC

CONSTANTS m1, w1, w2, t1, t2

OneMessage == {m1}
TwoTasks == {t1, t2}
TwoWorkers == {w1, w2}

Separate == (t1 :> w1) @@ (t2 :> w2)

=============================================================================
