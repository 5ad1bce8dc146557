----------------------------- MODULE MCManPages -----------------------------
EXTENDS ManPages

(* One command, two sections, every directory present. *)
MCTexts == {<<"a", "-", "a">>, <<"a">>, <<"/", "f", "B", "a">>}
MCKeywords == {<<"a">>, <<"2">>}
MCSecArgs == {[n |-> 1, dot |-> FALSE, len |-> 1],     \* "1"
              [n |-> 2, dot |-> FALSE, len |-> 1],     \* "2"
              [n |-> 1, dot |-> FALSE, len |-> 2],     \* "01"
              [n |-> 1, dot |-> TRUE, len |-> 3]}      \* "1.5"
=============================================================================
