----------------------------- MODULE TextStream -----------------------------
(***************************************************************************)
(* From sampled tokens to the text of a completion (process_token): stop   *)
(* words are cut off, what may become a stop word and characters that are  *)
(* incomplete are held back, limits end the generation.  A client gets     *)
(* the text in parts (streaming) or at the end; both are modelled for the  *)
(* same generation.  Text is a sequence of bytes.                          *)
(***************************************************************************)
EXTENDS Integers, Sequences, SequencesExt, FiniteSetsExt

CONSTANTS
    NewLine, Blanks,
    Room,        \* tokens that fit in the context (without context shift)
    Params       \* the requests that are explored

VARIABLES
    params,   \* task.params, and the tokens that are sampled: never changes
    text,     \* generated_text
    sent,     \* n_sent_text
    nl, nlPos,\* has_new_line, last_nl_pos
    stop,     \* "" or why the generation stopped
    word,     \* stopping_word
    tokens,   \* generated_tokens
    probs,    \* generated_token_probs
    parts,    \* received so far by a streaming client: [text, tokens]
    final     \* the answer without streaming, [text, tokens] once it is sent

vars == <<params, text, sent, nl, nlPos, stop, word, tokens, probs, parts, final>>

Width     == params.Width      \* of a character, by its lead byte: a function
Pieces    == params.Pieces     \* the tokens: [text, eog]
StopWords == params.StopWords  \* the sequence `stop` of the request
NPredict  == params.NPredict   \* limit of tokens, -1 if there is none
NIndent   == params.NIndent    \* 0 if not asked for
MaxGen    == params.MaxGen     \* bound: tokens that are sampled
TimeLimit == params.TimeLimit  \* t_max_predict_ms is set

ASSUME StreamAssumption ==
    /\ Room > 0 /\ NewLine \notin Blanks
    /\ \A r \in Params :
        /\ \A p \in r.Pieces : p.eog \in BOOLEAN /\ p.text \in Seq(STRING)
        /\ r.StopWords \in Seq(Seq(STRING) \ {<<>>})
        /\ \A c \in DOMAIN r.Width : r.Width[c] \in 1..4
        /\ r.NIndent \in Nat

Done == final # <<>>

OccursAt(s, w, i) == i + Len(w) <= Len(s) /\ SubSeq(s, i + 1, i + Len(w)) = w
Occurs(s, w) == \E i \in 0..Len(s) : OccursAt(s, w, i)

\* A plausible bug in Incomplete.
IncompleteLast(s) ==
    \E i \in 1..Min({1, Len(s)}) :
        LET c == s[Len(s) - i + 1] IN c \in DOMAIN Width /\ i < Width[c]

(* validate_utf8: the last character lacks bytes.                          *)
Incomplete(s) ==
    \E i \in 1..Min({4, Len(s)}) :
        LET c == s[Len(s) - i + 1] IN c \in DOMAIN Width /\ i < Width[c]

\* A plausible bug in From.
FromEnd(s, w, last) == Max({0, Len(s) - Len(w)})

(* find_stopping_strings: where stop words begin in what was not sent, the *)
(* search beginning so far back that a word that ends in the last token is *)
(* found; and whether the end may become a stop word.                      *)
From(s, w, last) == Max({0, Len(s) - Len(w) - last})
StopsAt(s, last) ==
    {i \in 0..Len(s) : \E w \in ToSet(StopWords) : i >= From(s, w, last) /\ OccursAt(s, w, i)}

WordAt(s, last) ==
    LET at(k) == StopWords[k]
        i == Min(StopsAt(s, last))
    IN  at(Min({k \in DOMAIN StopWords : i >= From(s, at(k), last) /\ OccursAt(s, at(k), i)}))

\* A plausible bug in MayStop.
MayStopInside(s) == \E w \in ToSet(StopWords) : Head(w) \in ToSet(s)

MayStop(s) == \E w \in ToSet(StopWords), k \in 1..Len(s) : IsPrefix(SubSeq(s, Len(s) - k + 1, Len(s)), w)

NewLineFrom(s, i) == {j \in i..Len(s) - 1 : s[j + 1] = NewLine}

(* The end of the white space at the start of a line.                      *)
IndentEnd(s, i) == Min({j \in i..Len(s) : j = Len(s) \/ s[j + 1] \notin Blanks})

(* The line that begins at nlPos is not indented.                          *)
BadIndent(s) ==
    /\ nl /\ NIndent > 0 /\ nlPos > 0 /\ nlPos <= Len(s)
    /\ IndentEnd(s, nlPos) < Len(s) /\ IndentEnd(s, nlPos) - nlPos < NIndent

-----------------------------------------------------------------------------
(* The text of the token is taken over, up to a stop word.                 *)
Taken(p) ==
    LET all   == text \o p.text
        whole == ~ Incomplete(all)
        test  == SubSeq(all, sent + 1, Len(all))
        stops == IF whole THEN StopsAt(test, Len(p.text)) ELSE {}
        kept  == IF stops = {} THEN all ELSE SubSeq(all, 1, sent + Min(stops))
    IN  [whole |-> whole,
         text  |-> kept,
         word  |-> IF stops = {} THEN <<>> ELSE WordAt(test, Len(p.text)),
         shown |-> IF ~ whole THEN p.text
                   ELSE IF stops # {} \/ p.eog \/ ~ MayStop(test) THEN SubSeq(kept, sent + 1, Len(kept))
                   ELSE <<>>]

(* The conditions in the order of the code; the last that applies counts.  *)
StopReason(t, p, late) ==
    LET full   == Len(tokens) + 1 >= Room
        budget == NPredict # -1 /\ Len(tokens) + 1 >= NPredict /\ t.word = <<>> /\ ~ full
    IN  IF p.eog THEN "eos"
        ELSE IF TimeLimit /\ late /\ NewLine \in ToSet(t.shown) THEN "time"
        ELSE IF BadIndent(t.text) THEN "indent"
        ELSE IF full \/ budget THEN "limit"
        ELSE IF t.word # <<>> THEN "word"
        ELSE ""

Unindented(s) == IF BadIndent(s) THEN SubSeq(s, 1, IndentEnd(s, nlPos)) ELSE s

NextLine(s) ==
    IF nl /\ NIndent > 0 /\ NewLineFrom(s, nlPos) # {} THEN Min(NewLineFrom(s, nlPos)) + 1 ELSE nlPos

\* A plausible bug in Parted.
PartedIfShown(t, p) ==
    IF t.whole /\ t.shown # <<>> THEN [text |-> parts.text \o t.shown, tokens |-> Append(parts.tokens, p)] ELSE parts

(* send_partial_response: only with a token that completes a character.    *)
Parted(t, p) ==
    IF t.whole THEN [text |-> parts.text \o t.shown, tokens |-> Append(parts.tokens, p)] ELSE parts

(* process_token, and send_final_response when it says to stop.            *)
ProcessToken(p, late) ==
    LET t == Taken(p)
        cut == Unindented(t.text)
    IN  /\ ~ Done /\ Len(tokens) < MaxGen
        /\ text' = cut /\ UNCHANGED params
        /\ sent' = IF t.whole THEN sent + Len(t.shown) ELSE sent
        /\ word' = t.word
        /\ tokens' = Append(tokens, p)
        /\ probs' = IF t.whole THEN Append(probs, p) ELSE probs
        /\ parts' = Parted(t, p)
        /\ nlPos' = NextLine(cut)
        /\ nl' = (nl \/ NewLine \in ToSet(t.shown))
        /\ stop' = StopReason(t, p, late)
        /\ final' = IF stop' = "" THEN <<>> ELSE [text |-> text', tokens |-> tokens']

Init ==
    /\ params \in Params
    /\ text = <<>> /\ sent = 0 /\ nl = FALSE /\ nlPos = 0 /\ stop = "" /\ word = <<>>
    /\ tokens = <<>> /\ probs = <<>> /\ parts = [text |-> <<>>, tokens |-> <<>>] /\ final = <<>>

Next == \E p \in Pieces, late \in BOOLEAN : ProcessToken(p, late)

Spec == Init /\ [][Next]_vars

-----------------------------------------------------------------------------
Joined(ts) ==
    LET all[i \in 0..Len(ts)] == IF i = 0 THEN <<>> ELSE all[i - 1] \o ts[i].text
    IN  all[Len(ts)]

Sampled == Joined(tokens)

HasStopWord(s) == \E w \in ToSet(StopWords) : Occurs(s, w)

TypeOK ==
    /\ stop \in {"", "word", "limit", "indent", "time", "eos"} /\ Done = (stop # "")
    /\ word # <<>> => word \in ToSet(StopWords)
    /\ Len(probs) <= Len(tokens) /\ nlPos <= Len(Sampled) /\ sent <= Len(Sampled)

(* No stop word is in the text ("excluding stopping_word").  Where         *)
(* characters have several bytes, one that is sampled together with a part *)
(* of a character is not looked for in time.                               *)
NoStopWord == DOMAIN Width = {} => ~ HasStopWord(text)

(* The generation goes on only as long as no stop word was sampled, and    *)
(* what is cut off begins with one.                                        *)
StopsInTime ==
    /\ ~ Done /\ DOMAIN Width = {} => ~ HasStopWord(Sampled)
    /\ stop = "word" => IsPrefix(text \o word, Sampled)

(* What was sent is never taken back (generated_text, n_sent_text).  The   *)
(* cut for n_indent does that, so requests with one are excepted.          *)
NothingRetracted == NIndent = 0 => IsPrefix(parts.text, text)

(* A streaming client has the same text and the same tokens in the end as  *)
(* one that waits for the whole answer ("content and tokens are already in *)
(* last partial chunk", send_final_response), if the generation was ended  *)
(* by a stop word or the model, and, for tokens, none is a part of a       *)
(* character.                                                              *)
StreamIsComplete == NIndent = 0 /\ stop \in {"word", "eos"} /\ ~ Incomplete(text) => parts.text = final.text
TokensStreamed   == Done /\ DOMAIN Width = {} => parts.tokens = final.tokens

(* Each part ends with a whole character, unless a stop word follows.      *)
WholeCharacters ==
    word = <<>> => \A i \in DOMAIN parts.text :
        parts.text[i] \in DOMAIN Width => i + Width[parts.text[i]] - 1 <= Len(parts.text)

(* What is held back is needed for that: it would begin a stop word.       *)
HeldForAWord ==
    ~ Done /\ parts.text # text =>
        \/ Incomplete(text)
        \/ \E w \in ToSet(StopWords), k \in Len(parts.text)..Len(text) - 1 :
                IsPrefix(SubSeq(text, k + 1, Len(text)), w)

(* Text that was ended by the indentation has only indented lines.         *)
IndentedLines ==
    stop = "indent" =>
        \A i \in 1..Len(text) - 1 :
            text[i] = NewLine /\ IndentEnd(text, i) < Len(text) => IndentEnd(text, i) - i >= NIndent

(* One entry with probabilities for each token (n_probs).                  *)
ProbsOfTokens == Done => probs = tokens

(* A stop word ends the generation when it is complete, and nothing of it  *)
(* is in the answer (process_token, find_stopping_strings).                *)
StopWordsHonoured == NoStopWord /\ StopsInTime

(* A streaming client has what the others have (send_final_response).      *)
StreamIsAnswer == StreamIsComplete /\ TokensStreamed

(* Text is held back only while it may begin a stop word, and what is sent *)
(* was final (process_token).                                              *)
HeldInv == NothingRetracted /\ HeldForAWord

(* Parts end with whole characters, lines are cut at their indentation.    *)
TextInv == TypeOK /\ WholeCharacters /\ IndentedLines

=============================================================================
