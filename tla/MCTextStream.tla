---------------------------- MODULE MCTextStream ----------------------------
EXTENDS TextStream

Tok(s) == [text |-> s, eog |-> FALSE]
Eog    == [text |-> <<>>, eog |-> TRUE]

NoWidth == [c \in {} |-> 0]
Euro    == [c \in {"L"} |-> 3]   \* L begins a character of three bytes

Letters == {Tok(<<"a">>), Tok(<<"b">>), Tok(<<"a", "b">>), Tok(<<"c">>), Eog}
(* Words that overlap, one a part of another.                              *)
Words == <<<<"a", "b", "c">>, <<"b", "b">>, <<"a", "c", "a">>>>

Utf8  == {Tok(<<"a">>), Tok(<<"L">>), Tok(<<"x">>), Tok(<<"x", "x">>), Tok(<<"a", "L", "x">>), Eog}
WordA == <<<<"a", "a">>>>
NoWords == <<>>

Lines == {Tok(<<"a">>), Tok(<<"n">>), Tok(<<" ">>), Tok(<<"n", " ">>), Tok(<<"n", "a">>), Eog}

Base == [Pieces |-> Letters, StopWords |-> Words, Width |-> NoWidth, NPredict |-> -1, NIndent |-> 0, TimeLimit |-> FALSE, MaxGen |-> 8]

Worded   == Base
Chars    == [Base EXCEPT !.Pieces = Utf8, !.StopWords = NoWords, !.Width = Euro, !.NPredict = 5, !.MaxGen = 6]
Indented == [Base EXCEPT !.Pieces = Lines, !.StopWords = NoWords, !.NIndent = 1, !.TimeLimit = TRUE, !.MaxGen = 6]
AllParams == {Worded, Chars, Indented}

(* Where the code differs from what it says, each with the property that   *)
(* fails if its condition is left out.                                     *)
Missed == {[Chars EXCEPT !.StopWords = WordA, !.NPredict = -1]}  \* NoStopWord
Held   == {[Worded EXCEPT !.NPredict = 4, !.MaxGen = 6]}         \* StreamIsComplete
Whole  == {Chars}                                               \* TokensStreamed
Taken1 == {[Indented EXCEPT !.TimeLimit = FALSE]}               \* NothingRetracted
=============================================================================
