-------------------------- MODULE SlotCheckpoints ---------------------------
(***************************************************************************)
(* How a slot takes over a prefix of its last prompt when the memory of    *)
(* the model cannot simply be cut back: a recurrent model has only its     *)
(* last state, a model with sliding window attention only the last cells.  *)
(* States saved on the way, the context checkpoints, fill in.              *)
(*                                                                         *)
(* Positions are those of text, one per token, counting from 0.            *)
(***************************************************************************)
EXTENDS Integers, Sequences, SequencesExt, FiniteSetsExt, Filters

CONSTANTS
    Prompts,         \* what clients send; the token User begins a message
    User, Generated, \* tokens; those that are generated
    NBatch,          \* size of the logical batch
    MinStep,         \* --checkpoint-min-step
    MaxLen,          \* bound: longest context explored
    Memories         \* the models and sizes that are explored

VARIABLES
    memory,  \* the memory of the model and the sizes it is used with: never changes
    state,   \* "idle", "prompt", "generate"
    task,    \* the prompt of the task
    tokens,  \* slot.prompt.tokens
    mem,     \* the sequence in the context: its tokens, present from position lo on
    ckpts,   \* slot.prompt.checkpoints: [n, min, max, mem, own]
    done     \* history: the slot's last prompt, if it was decoded to its end

checkpointVars == <<memory, state, task, tokens, mem, ckpts, done>>

Recurrent      == memory.Recurrent       \* the memory is one state, otherwise a window
Window         == memory.Window          \* n_swa, 0 for a recurrent model
NUbatch        == memory.NUbatch         \* size of the physical batch
NTail          == memory.NTail           \* distance from the end at which a batch is broken off (4)
MaxCheckpoints == memory.MaxCheckpoints  \* --ctx-checkpoints

Token == Generated \cup UNION {ToSet(p) : p \in Prompts}

ASSUME CheckpointAssumption ==
    /\ NBatch \in Nat \ {0} /\ MinStep \in Nat /\ MaxLen \in Nat
    /\ \A p \in Prompts : p \in Seq(Token) /\ Len(p) \in 1..MaxLen
    /\ \A s \in Memories : /\ s.Recurrent \in BOOLEAN
                           /\ IF s.Recurrent THEN s.Window = 0 ELSE s.Window \in Nat \ {0, 1}
                           /\ s.NUbatch \in Nat /\ s.NTail \in Nat /\ s.MaxCheckpoints \in Nat \ {0}

Common(p, q) == Max({n \in 0..Least(Len(p), Len(q)) : SubSeq(p, 1, n) = SubSeq(q, 1, n)})

-----------------------------------------------------------------------------
(* The memory of the context.                                              *)

NoMem == [toks |-> <<>>, lo |-> 0]

PosMax(m) == Len(m.toks) - 1
PosMin(m) == IF m.toks = <<>> THEN -1 ELSE m.lo

(* seq_rm from position p on; a recurrent state cannot be cut back.        *)
CutBack(m, p) ==
    IF p > PosMax(m) THEN m
    ELSE IF Recurrent THEN (IF p = 0 THEN NoMem ELSE m)
    ELSE IF p <= m.lo THEN NoMem ELSE [m EXCEPT !.toks = SubSeq(@, 1, p)]

(* Decoding: cells that left the window may be gone.                       *)
Extended(m, s) ==
    LET toks == m.toks \o s IN
    IF Recurrent THEN {[toks |-> toks, lo |-> Len(toks) - 1]}
    ELSE {[toks |-> toks, lo |-> l] : l \in m.lo..Most(m.lo, Len(toks) - Window)}

-----------------------------------------------------------------------------
(* A task starts: how much of the slot's prompt is kept.                   *)

Threshold(n) == Most(0, n - Window - (IF n < Len(task') THEN 0 ELSE 1))

Usable(c, n) == c.max <= n /\ (c.min < Threshold(n) \/ c.min = 0)

(* The last checkpoint that is usable, if the memory itself is not.        *)
Chosen(n) == {i \in DOMAIN ckpts : Usable(ckpts[i], n) /\ \A j \in i + 1..Len(ckpts) : ~ Usable(ckpts[j], n)}

NextPos(c, n) == Least(n, Most(c.min + 1, c.max))

(* n_past, pos_next and the memory after the search.                       *)
Resumed ==
    LET n == Common(tokens, task')
    IN  IF n = 0 \/ PosMin(mem) < Threshold(n) THEN [past |-> n, next |-> n, mem |-> mem]
        ELSE IF Chosen(n) = {} THEN [past |-> 0, next |-> 0, mem |-> mem]
        ELSE LET c == ckpts[CHOOSE i \in Chosen(n) : TRUE]
             IN  [past |-> Least(Least(NextPos(c, n), Len(tokens)), c.n), next |-> NextPos(c, n), mem |-> c.mem]

\* A plausible bug in StillValid.
StillValidAll(next) == ckpts

(* Checkpoints behind the new position are of no use any more.             *)
StillValid(next) == Drop(ckpts, {c \in ToSet(ckpts) : c.max > next})

Start ==
    /\ state = "idle" /\ state' = "prompt"
    /\ task' \in Prompts
    /\ \E r \in {Resumed} :
       LET n    == IF r.past = Len(task') THEN r.past - 1 ELSE r.past
           kept == StillValid(r.next)
       IN  /\ tokens' = SubSeq(tokens, 1, n)
           /\ mem' = CutBack(r.mem, n)
           /\ ckpts' = [i \in DOMAIN kept |-> [kept[i] EXCEPT !.own = FALSE]]
    /\ done' = <<>> /\ UNCHANGED memory

-----------------------------------------------------------------------------
(* A part of the prompt is put in the batch.                               *)

UserStarts(p) == {i \in 0..Len(p) - 1 : p[i + 1] = User}
LastUser(p) == IF UserStarts(p) = {} THEN -1 ELSE Max(UserStarts(p))

FarEnough(n) == ckpts = <<>> \/ n > Last(ckpts).n + MinStep

\* A plausible bug in BreakAt.
BreakAtUser(n) == n \in UserStarts(task) /\ (n = LastUser(task) \/ FarEnough(n))

(* The batch ends here for the sake of a checkpoint.                       *)
BreakAt(n) ==
    \/ n \in UserStarts(task) /\ (n = LastUser(task) \/ FarEnough(n))
    \/ \E offset \in {NTail + NUbatch, NTail} : Len(task) = n + Least(NBatch, offset)

(* Where a batch with room for so many tokens ends.                        *)
Filled(room) ==
    Min({n \in Len(tokens) + 1..Len(task) : n = Len(task) \/ n = Len(tokens) + room \/ BreakAt(n)})

WantsCheckpoint(start, end) ==
    LET nearEnd == Len(task) < end + NUbatch IN
    /\ mem.toks # <<>>
    /\ end = Len(task) \/ start \in UserStarts(task) \/ nearEnd
    /\ start = LastUser(task) \/ nearEnd \/ FarEnough(start)

(* create_checkpoint.                                                      *)

(* A full list first loses what is close to an earlier checkpoint.         *)
Thinned ==
    LET acc[i \in 0..Len(ckpts)] ==
            IF i = 0 THEN [kept |-> <<>>, last |-> -1, size |-> Len(ckpts)]
            ELSE LET a == acc[i - 1]
                     c == ckpts[i]
                 IN  IF a.size + 1 >= MaxCheckpoints /\ ~ c.own /\ a.last >= 0 /\ c.n <= a.last + MinStep
                     THEN [a EXCEPT !.size = @ - 1]
                     ELSE [a EXCEPT !.kept = Append(@, c), !.last = c.n]
    IN  acc[Len(ckpts)].kept

(* Then its oldest, and what is replaced.                                  *)
WithRoom(q) == IF Len(q) < MaxCheckpoints THEN q ELSE SubSeq(q, Len(q) - MaxCheckpoints + 2, Len(q))

NewCheckpoint(start) ==
    [n |-> start, min |-> PosMin(mem), max |-> PosMax(mem), mem |-> mem, own |-> TRUE]

WithCheckpoint(start) ==
    LET room == WithRoom(Thinned)
    IN  Append(Drop(room, {c \in ToSet(room) : c.n = start}), NewCheckpoint(start))

(* The batch may be shared with other slots: it has room for any number of *)
(* tokens.  The checkpoint is taken before the batch is decoded.           *)
Batch ==
    /\ state = "prompt"
    /\ \E room \in 1..NBatch :
        LET start == Len(tokens)
            end   == Filled(room)
        IN  /\ tokens' = SubSeq(task, 1, end)
            /\ ckpts' = IF WantsCheckpoint(start, end) THEN WithCheckpoint(start) ELSE ckpts
            /\ mem' \in Extended(mem, SubSeq(task, start + 1, end))
            /\ state' = IF end = Len(task) THEN "generate" ELSE "prompt"
            /\ done' = IF end = Len(task) THEN task ELSE done
    /\ UNCHANGED <<memory, task>>

Generate ==
    /\ state = "generate" /\ Len(tokens) < MaxLen
    /\ \E t \in Generated : tokens' = Append(tokens, t) /\ mem' \in Extended(mem, <<t>>)
    /\ UNCHANGED <<memory, state, task, ckpts, done>>

(* The task ends, or is cancelled half way.                                *)
Release ==
    /\ state # "idle" /\ state' = "idle" /\ task' = <<>>
    /\ UNCHANGED <<memory, tokens, mem, ckpts, done>>

CheckpointInit == memory \in Memories /\ state = "idle" /\ task = <<>> /\ tokens = <<>> /\ mem = NoMem /\ ckpts = <<>> /\ done = <<>>

CheckpointNext == Start \/ Batch \/ Generate \/ Release

CheckpointSpec == CheckpointInit /\ [][CheckpointNext]_checkpointVars

-----------------------------------------------------------------------------
CheckpointTypeOK ==
    /\ state \in {"idle", "prompt", "generate"} /\ task \in Prompts \cup {<<>>}
    /\ Len(tokens) <= MaxLen /\ mem.lo \in 0..MaxLen
    /\ Len(ckpts) <= MaxCheckpoints
    /\ \A c \in ToSet(ckpts) : c.n \in 1..MaxLen /\ c.max = c.n - 1

(* What is decoded next follows a memory of exactly the slot's tokens: no  *)
(* other token is behind a recurrent state or in a cell (n_past, load_tgt).*)
MemoryOfPrompt ==
    /\ Len(mem.toks) = Len(tokens)
    /\ \A i \in 1..Len(tokens) : Recurrent \/ i > mem.lo => mem.toks[i] = tokens[i]

(* The cells that the next token attends to are present (pos_min_thold).   *)
WindowPresent == ~ Recurrent /\ tokens # <<>> => mem.lo <= Most(0, Len(tokens) - Window + 1)

(* A prompt always has a token left to decode ([TAG_PROMPT_LOGITS]).       *)
SomethingToDecode == state = "prompt" => Len(tokens) < Len(task) /\ IsPrefix(tokens, task)

(* A prompt that is sent again is not decoded again but for the few tokens *)
(* behind the checkpoint near its end (checkpoint_offsets).                *)
ResentIsCheap ==
    [][Start /\ task' = done => Len(tokens') >= Len(task') - NTail - 1]_checkpointVars

(* What a prompt resumes from, the slot's own memory or a checkpoint, is a *)
(* memory of exactly its first tokens and leaves one to decode.            *)
ResumeInv == CheckpointTypeOK /\ MemoryOfPrompt /\ SomethingToDecode

=============================================================================
