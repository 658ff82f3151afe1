---------------------------- MODULE ServerTokens ----------------------------
(***************************************************************************)
(* The token list of a prompt with images or audio (server_tokens), and    *)
(* the life of a slot's list: a prefix is kept for the next prompt, text   *)
(* and media are decoded and appended, a file stores it and brings it      *)
(* back.  A medium occupies several entries, all Null, and advances the    *)
(* position by a number of its own; map_idx_to_media has it at its first   *)
(* entry.  The model has an mmproj (has_mtmd).                             *)
(***************************************************************************)
EXTENDS Integers, Sequences, SequencesExt, FiniteSetsExt

CONSTANTS
    Vocab, Null,    \* text tokens, LLAMA_TOKEN_NULL
    Media,          \* images, with their numbers of tokens and of positions
    NTok, NPos,
    Prompts,        \* what clients send: sequences over Vocab and Media
    Failing,        \* the prompts whose media may fail to decode
    MaxLen          \* bound: longest list explored (n_ctx)

ASSUME TokensAssumption ==
    /\ Null \notin Vocab /\ Vocab \cap Media = {}
    /\ \A m \in Media : NTok[m] > 0 /\ NPos[m] > 0

VARIABLES
    state,    \* "idle", "prompt", "generate"
    task,     \* the token list of the task
    slot,     \* slot.prompt.tokens
    cells,    \* the sequence in the context: [item, pos] of what was decoded
    encoded,  \* slot.mbatch: start entries in the task of the media encoded
    file,     \* a saved slot: its words and its cells
    died      \* history: the exception that ended the last task

vars == <<state, task, slot, cells, encoded, file, died>>

-----------------------------------------------------------------------------
(* server_tokens: toks and the map of media, by 0-based start entry.       *)

Empty == [toks |-> <<>>, media |-> <<>>]
Size(s) == Len(s.toks)

Starts(s) == DOMAIN s.media

Put(f, i, m) == [j \in DOMAIN f \cup {i} |-> IF j = i THEN m ELSE f[j]]

PushText(s, t) == [s EXCEPT !.toks = Append(@, t)]

PushMedium(s, m) ==
    [toks  |-> s.toks \o [i \in 1..NTok[m] |-> Null],
     media |-> Put(s.media, Size(s), m)]

Push(s, item) == IF item \in Media THEN PushMedium(s, item) ELSE PushText(s, item)

FromChunks(p) == FoldLeft(Push, Empty, p)

(* The positions of the first n entries; n may be inside of a medium.      *)
PosNext(s, n) ==
    LET from[i \in Nat] ==
            IF i >= n THEN 0
            ELSE IF i \in Starts(s) THEN NPos[s.media[i]] + from[i + NTok[s.media[i]]]
            ELSE 1 + from[i + 1]
    IN  from[0]

PosAll(s) == Size(s) + FoldFunction(LAMBDA m, acc : acc + NPos[m] - NTok[m], 0, s.media)

(* The loop advances before it looks at the position.                      *)
SizeUpTo(s, max) ==
    LET from[i \in Nat, pos \in Nat] ==
            IF i >= Size(s) THEN i
            ELSE LET n == IF i \in Starts(s) THEN NTok[s.media[i]] ELSE 1
                     p == pos + (IF i \in Starts(s) THEN NPos[s.media[i]] ELSE 1)
                 IN  IF p >= max THEN i + n ELSE from[i + n, p]
    IN  from[0, 0]

Throws == -1

\* A plausible bug in CommonPrefix.
CommonPrefixOfNulls(a, b) ==
    LET max == Min({Size(a), Size(b)})
    IN  Max({n \in 0..max : \A i \in 1..n : a.toks[i] = b.toks[i]})

(* find_chunk throws when the entry begins no medium.                      *)
CommonPrefix(a, b) ==
    LET max == Min({Size(a), Size(b)})
        from[i \in Nat] ==
            IF i >= max THEN max
            ELSE IF a.toks[i + 1] = Null /\ b.toks[i + 1] = Null
            THEN IF {i} \subseteq Starts(a) \cap Starts(b)
                 THEN IF a.media[i] = b.media[i] THEN from[i + NTok[a.media[i]]] ELSE i
                 ELSE Throws
            ELSE IF a.toks[i + 1] = b.toks[i + 1] THEN from[i + 1] ELSE i
    IN  from[0]

\* A plausible bug in Refused.
RefusedAfter(s, n) == 0 < n /\ n < Size(s) /\ s.toks[n] = Null /\ n - 1 \notin Starts(s)

(* keep_first refuses what it takes for a cut inside of a medium.          *)
Refused(s, n) ==
    /\ 0 < n /\ n < Size(s)
    /\ s.toks[n] = Null /\ s.toks[n + 1] = Null /\ n - 1 \notin Starts(s)

\* A plausible bug in KeepFirst.
KeepFirstOnly(s, n) == [s EXCEPT !.toks = SubSeq(@, 1, n)]

KeepFirst(s, n) ==
    [toks  |-> SubSeq(s.toks, 1, n),
     media |-> [i \in {j \in Starts(s) : j < n} |-> s.media[i]]]

Validate(s) ==
    LET from[i \in Nat] ==
            IF i >= Size(s) THEN i = Size(s)
            ELSE IF s.toks[i + 1] = Null
            THEN /\ i \in Starts(s)
                 /\ NTok[s.media[i]] <= Size(s) - i
                 /\ \A j \in i..i + NTok[s.media[i]] - 1 : s.toks[j + 1] = Null
                 /\ from[i + NTok[s.media[i]]]
            ELSE from[i + 1]
    IN  from[0] /\ \A i \in Starts(s) : i < Size(s) /\ s.toks[i + 1] = Null

(* The words of a state file: a marker, the version, then the sequences of *)
(* tokens and of start entries with their lengths, then the media.         *)
Version == 1

Keys(s) == SetToSortSeq(Starts(s), <)

Serialize(s) ==
    <<Null, Version, Size(s)>> \o s.toks
        \o <<Len(Keys(s))>> \o Keys(s) \o [i \in DOMAIN Keys(s) |-> s.media[Keys(s)[i]]]

Broken == [toks |-> <<Null>>, media |-> <<>>]  \* stands for an exception

(* What older versions wrote is a plain token list.                        *)
Deserialize(w) ==
    IF w = <<>> \/ Head(w) # Null THEN [toks |-> w, media |-> <<>>]
    ELSE IF Len(w) < 3 \/ w[2] # Version \/ w[3] > Len(w) - 3 THEN Broken
    ELSE LET n == w[3]
             k == IF Len(w) < 4 + n THEN 0 ELSE w[4 + n]
         IN  IF Len(w) # 4 + n + 2 * k THEN Broken
             ELSE [toks  |-> SubSeq(w, 4, 3 + n),
                   media |-> [i \in {w[4 + n + j] : j \in 1..k} |->
                                w[4 + n + k + (CHOOSE j \in 1..k : w[4 + n + j] = i)]]]

-----------------------------------------------------------------------------
(* The life of a slot's prompt.                                            *)

NoTask == Empty

EndTask(reason) ==
    /\ state' = "idle" /\ task' = NoTask /\ encoded' = {} /\ died' = reason
    /\ UNCHANGED <<slot, cells, file>>

Reuse(new) ==
    LET n == CommonPrefix(slot, new) IN IF n = Size(new) THEN n - 1 ELSE n

(* An exception here ends every running task (abort_all_slots).  A prompt  *)
(* that is known as a whole is cut by one entry, which may be inside of a  *)
(* medium at its end ("again").  Cells are cut at the position that        *)
(* follows the entries that are kept.                                      *)
Start(p) ==
    LET new == FromChunks(p)
        n   == Reuse(new)
    IN  /\ state = "idle" /\ Size(new) < MaxLen
        /\ IF n = Throws \/ Refused(slot, n)
           THEN EndTask(IF n = Size(new) - 1 /\ Last(new.toks) = Null THEN "again" ELSE "prefix")
           ELSE /\ state' = "prompt" /\ task' = new /\ slot' = KeepFirst(slot, n)
                /\ cells' = SelectSeq(cells, LAMBDA c : c.pos < PosAll(slot'))
                /\ died' = "" /\ UNCHANGED <<encoded, file>>

NextIsMedium == Size(slot) < Size(task) /\ task.toks[Size(slot) + 1] = Null

(* Encodes as many media as fit, from this one on, unless that was done    *)
(* before; then decodes this one.                                          *)
EncodedFrom(i) ==
    IF i \in encoded THEN {encoded}
    ELSE {{j \in Starts(task) : i <= j /\ j <= k} : k \in {j \in Starts(task) : i <= j}}

DecodeMedium ==
    LET i == Size(slot) IN
    /\ state = "prompt" /\ NextIsMedium
    /\ IF i \notin Starts(task) THEN EndTask("chunk")
       ELSE \/ /\ encoded' \in EncodedFrom(i)
               /\ slot' = PushMedium(slot, task.media[i])
               /\ cells' = Append(cells, [item |-> task.media[i], pos |-> PosAll(slot)])
               /\ UNCHANGED <<state, task, file, died>>
            \/ /\ \E p \in Failing : task = FromChunks(p)
               /\ EndTask("decode")

DecodeText ==
    LET t == task.toks[Size(slot) + 1] IN
    /\ state = "prompt" /\ Size(slot) < Size(task) /\ ~ NextIsMedium
    /\ slot' = PushText(slot, t)
    /\ cells' = Append(cells, [item |-> t, pos |-> PosAll(slot)])
    /\ state' = IF Size(slot') = Size(task) THEN "generate" ELSE state
    /\ UNCHANGED <<task, encoded, file, died>>

(* A prompt that ends with a medium has put nothing in the batch: an       *)
(* assertion fails, or the last token of another slot is taken for its own.*)
DoneWithoutText ==
    /\ state = "prompt" /\ Size(slot) = Size(task)
    /\ \/ EndTask("assert")
       \/ state' = "generate" /\ UNCHANGED <<task, slot, cells, encoded, file, died>>

Generate(t) ==
    /\ state = "generate" /\ Size(slot) < MaxLen
    /\ slot' = PushText(slot, t) /\ cells' = Append(cells, [item |-> t, pos |-> PosAll(slot)])
    /\ UNCHANGED <<state, task, encoded, file, died>>

Release ==
    /\ state # "idle" /\ state' = "idle" /\ task' = NoTask /\ encoded' = {}
    /\ UNCHANGED <<slot, cells, file, died>>

NoFile == [words |-> <<>>, cells |-> <<>>]

Save ==
    /\ state = "idle" /\ file' = [words |-> Serialize(slot), cells |-> cells]
    /\ UNCHANGED <<state, task, slot, cells, encoded, died>>

(* The file may have lost a word at its end.                               *)
Restore ==
    /\ state = "idle" /\ file.words # <<>>
    /\ \E w \in {file.words, Front(file.words)} :
        LET s == Deserialize(w) IN
        IF s # Broken /\ Validate(s) THEN slot' = s /\ cells' = file.cells
        ELSE slot' = Empty /\ cells' = <<>>
    /\ UNCHANGED <<state, task, encoded, file, died>>

Init ==
    /\ state = "idle" /\ task = NoTask /\ slot = Empty /\ cells = <<>>
    /\ encoded = {} /\ file = NoFile /\ died = ""

Next ==
    \/ \E p \in Prompts : Start(p)
    \/ DecodeMedium \/ DecodeText \/ DoneWithoutText \/ Release \/ Save \/ Restore
    \/ \E t \in Vocab : Generate(t)

Spec == Init /\ [][Next]_vars

-----------------------------------------------------------------------------
TypeOK ==
    /\ state \in {"idle", "prompt", "generate"}
    /\ slot.toks \in Seq(Vocab \cup {Null}) /\ \A i \in Starts(slot) : slot.media[i] \in Media
    /\ encoded \subseteq Starts(task)
    /\ died \in {"", "prefix", "again", "chunk", "decode", "assert"}

(* What a list says: each text token and each medium that is complete.     *)
Items(s) ==
    LET from[i \in Nat] ==
            IF i >= Size(s) THEN <<>>
            ELSE IF i \in Starts(s) THEN <<s.media[i]>> \o from[i + NTok[s.media[i]]]
            ELSE <<s.toks[i + 1]>> \o from[i + 1]
    IN  from[0]

(* The token list and the map stay in step (map_idx_to_media: "the order   *)
(* need to be in-sync with tokens").                                       *)
ListAndMapAgree == Validate(slot)

(* The list tells what is in the context, each item where the model put it.*)
ListTellsCells ==
    /\ Items(slot) = [i \in DOMAIN cells |-> cells[i].item]
    /\ \A i \in DOMAIN cells :
        cells[i].pos = PosAll(FromChunks(SubSeq(Items(slot), 1, i - 1)))

(* The two ways to count positions agree (pos_next).                       *)
PositionsAgree == PosNext(slot, Size(slot)) = PosAll(slot)

(* The common prefix is the longest list of whole items that both share.   *)
CommonIsLongest ==
    \A p \in Prompts :
        LET a == Items(slot)
            k == Max({n \in 0..Min({Len(a), Len(p)}) : SubSeq(a, 1, n) = SubSeq(p, 1, n)})
        IN  CommonPrefix(slot, FromChunks(p)) = Size(FromChunks(SubSeq(p, 1, k)))

(* "number of tokens with position < max_pos": all entries of a medium are *)
(* at its first position (size_up_to_pos).                                 *)
StartOf(s, i) == Max({j \in Starts(s) : j <= i /\ i < j + NTok[s.media[j]]} \cup
                     {j \in {i} : s.toks[i + 1] # Null})
EntriesBelow(s, max) == Cardinality({i \in 0..Size(s) - 1 : PosNext(s, StartOf(s, i)) < max})

CountIsExact == \A max \in 1..PosAll(slot) : SizeUpTo(slot, max) = EntriesBelow(slot, max)

(* What is cut between two whole items is not an error (keep_first).       *)
PrefixIsKept == died # "prefix"

(* A prompt that is decoded has logits of its own to sample from           *)
(* (assertion in pre_decode).                                              *)
HasLogits == died # "assert"

(* A file brings back the list that was saved.                             *)
RoundTrip == Deserialize(Serialize(slot)) = slot

(* The list of tokens, the map of media and the cells of the context tell  *)
(* the same through prompts, cuts, cancels and files (server_tokens).      *)
ListInv == TypeOK /\ ListAndMapAgree /\ ListTellsCells /\ PositionsAgree

(* get_common_prefix and size_up_to_pos are what their names say.          *)
CutsExact == CommonIsLongest /\ CountIsExact

(* A cut at a common prefix is always allowed and a list that is saved can *)
(* be restored (keep_first, to_str and parse).                             *)
NothingLost == PrefixIsKept /\ RoundTrip

=============================================================================
