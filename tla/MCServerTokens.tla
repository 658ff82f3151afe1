--------------------------- MODULE MCServerTokens ---------------------------
EXTENDS ServerTokens

Tokens    == [m \in Media |-> IF m = "x" THEN 2 ELSE 3]
Positions == [m \in Media |-> IF m = "x" THEN 3 ELSE 1]

(* Media between text, as templates of most models put them.               *)
Separate == {<<"a", "x", "b">>, <<"a", "x", "b", "y", "a">>, <<"a", "y", "b">>, <<"a", "b", "a">>}
Prompted == Separate \cup {<<"a", "y">>}
(* Media next to each other.                                               *)
Adjacent == {<<"a", "y", "x", "b">>, <<"a", "y", "y", "b">>}
(* A prompt that ends with a medium.                                       *)
Ending == {<<"a", "x">>}
Ends == {<<"a", "y">>, <<"a", "b", "y">>, <<"a", "x", "b">>}
=============================================================================
