---------------------------- MODULE MCClassroom ----------------------------
(* One set under four mixes of operations, each within a bound on its keys. *)
EXTENDS Classroom

CONSTANTS c1, c2

MCCards     == {c1, c2}
MCGenerated == {c1}
MCOptions   == {<<"a", "b">>, <<"a", "c">>}
MCTexts     == {"a", "b"}
Same        == [state |-> "same", opts |-> <<>>, back |-> "none"]
MCEdits     == {[Same EXCEPT !.state = "approved"], [Same EXCEPT !.state = "pending"],
                [Same EXCEPT !.back = "b"], [Same EXCEPT !.opts = <<"a", "c">>]}
MCSelections == {[by |-> "index", at |-> 1], [by |-> "text", at |-> "b"]}
MCWorkloads == {[ops |-> {"answer", "delete", "publish", "unpublish"}, keys |-> 4],
                [ops |-> {"card", "all", "create", "publish", "unpublish", "delete"}, keys |-> 0],
                [ops |-> {"answer", "card"}, keys |-> 2],
                [ops |-> {"answer", "all", "report"}, keys |-> 2]}
=============================================================================
