------------------------------- MODULE MCLexer -------------------------------
(***************************************************************************)
(* LexerLayout on sources with three indentations and two multi-line       *)
(* lambdas: one kind of bracket, three deep, where the first error ends    *)
(* it, and two kinds, two deep, where errors are recorded.                 *)
(***************************************************************************)
EXTENDS LexerLayout

MCOpeners == {"(", "["}
MCIndents == {0, 2, 4}
MCMaxBrackets ==
    [t \in BOOLEAN |-> [c \in MCOpeners |-> IF t THEN 2 ELSE IF c = "(" THEN 3 ELSE 0]]
MCMaxLayouts == 2

=============================================================================
