------------------------- MODULE MCSlotCheckpoints --------------------------
EXTENDS SlotCheckpoints

(* All short prompts with the same first token.                            *)
Short == {<<"s">> \o q : q \in UNION {[1..k -> {"a", "b"}] : k \in {3, 4}}}
(* Conversations of two messages.                                          *)
Chats == {<<"a", "u", "a", "a", "u", "b", "b">>, <<"a", "u", "a", "a", "u", "a", "b", "a", "b">>, <<"a", "u", "b", "a", "b", "a", "b">>}

Base == [Recurrent |-> TRUE, Window |-> 0, NUbatch |-> 3, NTail |-> 2, MaxCheckpoints |-> 3]
Recur  == Base
Sliding == [Base EXCEPT !.Recurrent = FALSE, !.Window = 3, !.NUbatch = 2, !.MaxCheckpoints = 2]
AllSetups == {Recur, Sliding}

(* With Short and MaxLen = 6: the state behind a common prefix that ends   *)
(* one token before a checkpoint (MemoryOfPrompt).                         *)
Behind == {[Base EXCEPT !.NUbatch = 2, !.NTail = 1, !.MaxCheckpoints = 4]}
(* A window that lost cells the remembered tokens need (WindowPresent).    *)
Eroded == {[Sliding EXCEPT !.NTail = 1]}
=============================================================================
