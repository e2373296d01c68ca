----------------------------- MODULE MCLiveReplay -----------------------------
(* Model-checking instance of LiveReplay: two prompts a step, whose groups *)
(* have two or three tokens, B2 rows that accept none, one or both, one of *)
(* them without a total, and a reservoir of two groups.                    *)
EXTENDS LiveReplay

B2Rows == {[tokens |-> <<3, 2>>, accepted |-> {}, stated |-> FALSE],
           [tokens |-> <<2, 2>>, accepted |-> {}, stated |-> TRUE],
           [tokens |-> <<2, 3>>, accepted |-> {1}, stated |-> TRUE],
           [tokens |-> <<3, 3>>, accepted |-> {2}, stated |-> TRUE],
           [tokens |-> <<3, 2>>, accepted |-> {1, 2}, stated |-> TRUE]}

FrozenGroups == {[index |-> 2, born |-> 0, tokens |-> 2, informative |-> TRUE],
                 [index |-> 3, born |-> 0, tokens |-> 3, informative |-> TRUE]}
===============================================================================
