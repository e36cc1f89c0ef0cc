---------------------------- MODULE MCAnswerJob ----------------------------
(* Ask AI on small instances: one question, under one worker or two.         *)
EXTENDS AnswerJob

CONSTANTS j1, th1, k1, k2, s1, t1, t2

OneJob == {j1}
OneThread == {th1}
TwoKeys == {k1, k2}
OneSession == {s1}
\* Two workers that lose leases and die; one that meets everything else; days
\* and retention; and a question that is retried after the first worker failed.
MCWorlds == {
    [events |-> {"crash", "lease", "day"}, slots |-> {t1, t2}, keys |-> {k1}, retries |-> 0, corpus |-> 0],
    [events |-> EveryEvent \ {"day"}, slots |-> {t1}, keys |-> {k1}, retries |-> 0, corpus |-> 1],
    [events |-> {"day", "cleanup", "session"}, slots |-> {t1}, keys |-> {k1}, retries |-> 0, corpus |-> 0],
    [events |-> {"error"}, slots |-> {t1}, keys |-> {k1, k2}, retries |-> 1, corpus |-> 0]}
TwoTasks == {t1, t2}

=============================================================================
