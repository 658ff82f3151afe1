----------------------------- MODULE SlotDecode -----------------------------
(***************************************************************************)
(* One round of server_context_impl::update_slots: the prompts and the     *)
(* sampled tokens of all busy slots are packed into one batch, the batch   *)
(* is decoded in sub-batches that shrink when the KV cache is full, and    *)
(* every slot whose last token was decoded samples the next one.           *)
(*                                                                         *)
(* kv[s] is what the context holds for sequence s, position by position;   *)
(* slot[s].prompt is what the server believes it holds.  Speculative       *)
(* drafts are the subject of Speculation, the choice of a slot and the     *)
(* prompt cache of SlotSelect: here a task may start on any idle slot.     *)
(***************************************************************************)
EXTENDS Integers, Sequences, FiniteSets, SequencesExt, Filters

CONSTANTS
    Tasks,         \* task ids; every setup asks some of them
    Vocab,         \* tokens the sampler may return
    Media,         \* the media chunks of a prompt, one element each
    Setups         \* the servers and requests that are explored

VARIABLES
    setup,     \* the parameters of the server and what the clients ask: never changes
    slot,      \* per slot: state, task, prompt, sampled, ibatch, ngen, truncated
    kv,        \* per slot: the tokens of its sequence in the context memory
    batch,     \* the batch: records of slot, token, pos and output flag
    head,      \* slot_batched: the slot the rest of the batch has to agree with
    phase,     \* where update_slots is
    cur,       \* the slot that an iteration over the slots has reached
    off,       \* first token of the sub-batch
    nbatch,    \* current size limit of a sub-batch
    launched,  \* tasks that were given to a slot
    answer     \* per task: the results sent for it

vars == <<setup, slot, kv, batch, head, phase, cur, off, nbatch, launched, answer>>
NSlots       == setup.NSlots        \* number of slots (--parallel)
Requests     == setup.Requests      \* what the clients ask, by task id
NBatch       == setup.NBatch        \* n_batch, the logical batch size
NUBatch      == setup.NUBatch       \* n_ubatch, the physical batch size
NCtx         == setup.NCtx          \* context size of a slot
CtxShift     == setup.CtxShift      \* --context-shift
AddBos       == setup.AddBos        \* add_bos_token: the model's prompts begin with a BOS
ContBatching == setup.ContBatching  \* --cont-batching
KvUnified    == setup.KvUnified     \* --kv-unified
CanBeFull    == setup.CanBeFull     \* llama_decode may find no room in the KV cache
CanFail      == setup.CanFail       \* llama_decode, a media chunk or a sampler may fail

Slots  == 1..NSlots
NoTask == 0

RequestRec ==
    [type: {"completion", "embedding"}, prompt: Seq(Vocab \cup Media), parent: Tasks \cup {NoTask},
     n_predict: Int, n_keep: Int, n_discard: Int, cache_prompt: BOOLEAN, lastPooling: BOOLEAN]

(* A child is a copy of its parent (add_child); a context has at least     *)
(* four cells, or n_keep would be negative.                                *)
ASSUME SetupAssumption ==
    /\ NoTask \notin Tasks /\ Vocab # {} /\ Vocab \cap Media = {}
    /\ \A s \in Setups :
          /\ s.NSlots \in Nat \ {0} /\ s.NBatch \in Nat /\ s.NBatch >= s.NSlots /\ s.NUBatch \in Nat
          /\ s.NCtx \in Nat /\ s.NCtx >= 4
          /\ {s.CtxShift, s.AddBos, s.ContBatching, s.KvUnified, s.CanBeFull, s.CanFail} \subseteq BOOLEAN
          /\ DOMAIN s.Requests \subseteq Tasks
          /\ \A t \in DOMAIN s.Requests : LET r == s.Requests[t] IN
                /\ r \in RequestRec
                /\ r.parent # NoTask =>
                      /\ r.parent \in DOMAIN s.Requests /\ s.Requests[r.parent].parent = NoTask
                      /\ s.Requests[r.parent].type = r.type /\ s.Requests[r.parent].prompt = r.prompt

(* What the tokens of a slot rely on: a prompt ends in text (the logits of *)
(* a media chunk are not in the batch), n_discard is not negative (a shift *)
(* would discard nothing), and a family never meets a full cache (a child  *)
(* would copy the part of its parent's prompt that is decoded).            *)
Supported(s) ==
    \A t \in DOMAIN s.Requests : LET r == s.Requests[t] IN
        /\ r.prompt # <<>> => r.prompt[Len(r.prompt)] \in Vocab
        /\ r.n_discard >= 0
        /\ s.CanBeFull => r.parent = NoTask

(* Every request belongs to a family: the parent, and the children that    *)
(* answer the same prompt (n_cmpl > 1).                                    *)
Parent(t)   == IF Requests[t].parent = NoTask THEN t ELSE Requests[t].parent
Family(t)   == {u \in DOMAIN Requests : Parent(u) = t}
IsChild(t)  == Requests[t].parent # NoTask
IsParent(t) == Family(t) # {t}
Input(t)    == Requests[t].prompt

(* An embedding needs its whole input in one physical batch, unless the    *)
(* pooling takes the last token only.                                      *)
NeedEmbd(t) == Requests[t].type = "embedding"
CanSplit(t) == ~ NeedEmbd(t) \/ Requests[t].lastPooling

batchVars == <<batch, head, off, nbatch>>

States == {"IDLE", "WAIT_OTHER", "STARTED", "PROCESSING_PROMPT", "DONE_PROMPT", "GENERATING"}

SlotRec == [state: States, task: Tasks \cup {NoTask}, prompt: Seq(Vocab \cup Media), sampled: Vocab,
            ibatch: Int, ngen: Nat, truncated: BOOLEAN]
BatchRec == [slot: Slots, token: Vocab, pos: Nat, output: BOOLEAN]

TypeOK ==
    /\ slot \in [Slots -> SlotRec]
    /\ kv \in [Slots -> Seq(Vocab \cup Media)]
    /\ batch \in Seq(BatchRec)
    /\ head \in Slots \cup {0}
    /\ phase \in {"wait", "shift", "batch", "prompt", "decode", "post"}
    /\ cur \in 1..NSlots + 1
    /\ off \in 0..Len(batch)
    /\ nbatch \in 1..NBatch
    /\ launched \subseteq Tasks
    /\ answer \in [Tasks -> Seq({"final", "error", "cancelled"})]

Init ==
    /\ setup \in Setups
    /\ slot = [s \in Slots |-> [state |-> "IDLE", task |-> NoTask, prompt |-> <<>>,
                  sampled |-> CHOOSE v \in Vocab : TRUE, ibatch |-> -1, ngen |-> 0, truncated |-> FALSE]]
    /\ kv = [s \in Slots |-> <<>>]
    /\ batch = <<>> /\ head = 0 /\ off = 0 /\ nbatch = NBatch
    /\ phase = "wait" /\ cur = 1
    /\ launched = {} /\ answer = [t \in Tasks |-> <<>>]

-----------------------------------------------------------------------------
(* Operations of a slot.                                                   *)

Processing(s) == slot[s].state # "IDLE"
PromptOf(s)   == slot[s].prompt
TaskOf(s)     == Requests[slot[s].task]

(* reset() leaves i_batch alone, a released child drops its context.       *)
Released(r) ==
    [r EXCEPT !.state = "IDLE", !.task = NoTask, !.ngen = 0, !.truncated = FALSE,
              !.prompt = IF IsChild(r.task) THEN <<>> ELSE @]
KvReleased(s) == IF IsChild(slot[s].task) THEN <<>> ELSE kv[s]

Send(t, r) == [answer EXCEPT ![t] = Append(@, r)]

(* The slot answers with r and is released.                                *)
Finish(s, r) ==
    /\ answer' = Send(slot[s].task, r)
    /\ slot' = [slot EXCEPT ![s] = Released(@)]
    /\ kv' = [kv EXCEPT ![s] = KvReleased(s)]

CanBatchWith(s, t) == Requests[slot[s].task].type = Requests[slot[t].task].type

CommonPrefix(p, q) ==
    LET agree == {n \in 0..(IF Len(p) < Len(q) THEN Len(p) ELSE Len(q)) : SubSeq(p, 1, n) = SubSeq(q, 1, n)}
    IN  CHOOSE n \in agree : \A m \in agree : m <= n

-----------------------------------------------------------------------------
(* Between two rounds the queue gives tasks to idle slots and cancels      *)
(* them.  A family starts as a whole; the client of a family cancels all   *)
(* of its tasks with one post, also when one of them got an error.         *)

LaunchSlot(r, t) ==
    [r EXCEPT !.state = IF IsChild(t) THEN "WAIT_OTHER" ELSE "STARTED", !.task = t]

LaunchFamily(t) ==
    /\ phase = "wait" /\ t \notin launched /\ ~ IsChild(t)
    /\ \E place \in [Family(t) -> {s \in Slots : ~ Processing(s)}] :
          /\ \A u, v \in Family(t) : place[u] = place[v] => u = v
          /\ slot' = [s \in Slots |->
                IF \E u \in Family(t) : place[u] = s
                THEN LaunchSlot(slot[s], CHOOSE u \in Family(t) : place[u] = s) ELSE slot[s]]
    /\ launched' = launched \cup Family(t)
    /\ UNCHANGED <<setup, kv, batchVars, phase, cur, answer>>

Cancelled(t) == {s \in Slots : Processing(s) /\ Parent(slot[s].task) = t}

CancelFamily(t) ==
    /\ phase = "wait" /\ Cancelled(t) # {}
    /\ slot' = [s \in Slots |-> IF s \in Cancelled(t) THEN Released(slot[s]) ELSE slot[s]]
    /\ kv' = [s \in Slots |-> IF s \in Cancelled(t) THEN KvReleased(s) ELSE kv[s]]
    /\ answer' = [u \in Tasks |->
          IF \E s \in Cancelled(t) : slot[s].task = u THEN Append(answer[u], "cancelled") ELSE answer[u]]
    /\ UNCHANGED <<setup, batchVars, phase, cur, launched>>

(* wait_for_all and the stream end at the first error and stop the rest.   *)
GiveUp(t) == (\E u \in Family(t) : Contains(answer[u], "error")) /\ CancelFamily(t)

UpdateSlots ==
    /\ phase = "wait" /\ \E s \in Slots : Processing(s)
    /\ phase' = "shift"
    /\ UNCHANGED <<setup, slot, kv, batchVars, cur, launched, answer>>

-----------------------------------------------------------------------------
(* pre_decode: shift the context of the slots that ran full.               *)

RanFull(s) == slot[s].state = "GENERATING" /\ Len(PromptOf(s)) + 1 >= NCtx
CanShift(s) == CtxShift /\ ~ IsParent(slot[s].task) /\ ~ IsChild(slot[s].task)

Keep(s) == LET k == IF TaskOf(s).n_keep < 0 THEN Len(TaskOf(s).prompt) ELSE TaskOf(s).n_keep
           IN  Least(NCtx - 4, IF AddBos THEN k + 1 ELSE k)
Discard(s) ==
    LET left == Len(PromptOf(s)) - Keep(s)
        want == IF TaskOf(s).n_discard # 0 THEN TaskOf(s).n_discard ELSE left \div 2
    IN  Least(Most(want, 0), Most(0, left - 1))

(* seq_rm drops a range of positions, seq_add moves the rest down.         *)
RemoveRange(q, from, to) == SubSeq(q, 1, from) \o SubSeq(q, to + 1, Len(q))

(* The server rewrites its own copy of the tokens in place.                *)
ShiftTokens(p, keep, discard) ==
    [i \in 1..Len(p) - discard |-> IF i <= keep THEN p[i] ELSE p[i + discard]]

ShiftContext ==
    /\ phase = "shift" /\ phase' = "batch"
    /\ slot' = [s \in Slots |->
          IF ~ RanFull(s) THEN slot[s]
          ELSE IF ~ CanShift(s) THEN Released(slot[s])
          ELSE [slot[s] EXCEPT !.prompt = ShiftTokens(@, Keep(s), Discard(s)), !.truncated = TRUE]]
    /\ kv' = [s \in Slots |->
          IF ~ RanFull(s) THEN kv[s]
          ELSE IF ~ CanShift(s) THEN KvReleased(s)
          ELSE RemoveRange(kv[s], Keep(s), Keep(s) + Discard(s))]
    /\ answer' = [t \in Tasks |->
          IF \E s \in Slots : slot[s].task = t /\ RanFull(s) /\ ~ CanShift(s)
          THEN Append(answer[t], "error") ELSE answer[t]]
    /\ UNCHANGED <<setup, batchVars, cur, launched>>

-----------------------------------------------------------------------------
(* pre_decode: the sampled tokens come first.  The first generating slot   *)
(* decides which other slots may join the batch.                           *)

Token(s, tok, p, out) == [slot |-> s, token |-> tok, pos |-> p, output |-> out]

BatchSampled ==
    LET generating == {s \in Slots : slot[s].state = "GENERATING"}
        first == CHOOSE s \in generating : \A t \in generating : s <= t
        chosen == Drop([s \in Slots |-> s], {s \in Slots : s \in generating => ~ CanBatchWith(first, s)})
        place(s) == CHOOSE i \in 1..Len(chosen) : chosen[i] = s
    IN  /\ phase = "batch"
        /\ batch' = [i \in 1..Len(chosen) |->
              Token(chosen[i], slot[chosen[i]].sampled, Len(PromptOf(chosen[i])), TRUE)]
        /\ slot' = [s \in Slots |->
              IF s \in Range(chosen)
              THEN [slot[s] EXCEPT !.ibatch = place(s) - 1, !.prompt = Append(@, slot[s].sampled)] ELSE slot[s]]
        /\ head' = IF generating = {} THEN 0 ELSE first
        /\ off' = 0 /\ nbatch' = NBatch /\ cur' = 1
        /\ phase' = IF ContBatching \/ chosen = <<>> THEN "prompt" ELSE "decode"
        /\ UNCHANGED <<setup, kv, launched, answer>>

-----------------------------------------------------------------------------
(* pre_decode: the prompts, slot by slot, while the batch has room.        *)

Advance == cur' = IF cur = NSlots THEN 1 ELSE cur + 1
NextPhase(after) == phase' = IF cur = NSlots THEN after ELSE phase

\* A plausible bug in TakesPart.
TakesPartAny == Len(batch) < NBatch /\ slot[cur].state \in {"STARTED", "PROCESSING_PROMPT"}

\* A plausible bug in TakesPart.
TakesPartFresh ==
    /\ Len(batch) < NBatch /\ slot[cur].state = "STARTED"
    /\ head # 0 => CanBatchWith(head, cur)

(* The slot at cur has a prompt to process in this batch.                  *)
TakesPart ==
    /\ Len(batch) < NBatch
    /\ slot[cur].state \in {"STARTED", "PROCESSING_PROMPT"}
    /\ head # 0 => CanBatchWith(head, cur)

SkipSlot ==
    /\ phase = "prompt" /\ ~ TakesPart
    /\ Advance /\ NextPhase("decode")
    /\ UNCHANGED <<setup, slot, kv, batchVars, launched, answer>>

EmptyPrompt ==
    /\ phase = "prompt" /\ TakesPart /\ slot[cur].state = "STARTED"
    /\ TaskOf(cur).prompt = <<>>
    /\ Finish(cur, "final") /\ Advance /\ NextPhase("decode")
    /\ UNCHANGED <<setup, batchVars, launched>>

TooLarge(t) == IF CanSplit(t) THEN Len(Input(t)) >= NCtx ELSE Len(Input(t)) > NUBatch \/ Len(Input(t)) > NCtx

RejectPrompt ==
    /\ phase = "prompt" /\ TakesPart /\ slot[cur].state = "STARTED"
    /\ TaskOf(cur).prompt # <<>> /\ TooLarge(slot[cur].task)
    /\ Finish(cur, "error") /\ Advance /\ NextPhase("decode")
    /\ UNCHANGED <<setup, batchVars, launched>>

(* How much of what the slot still holds the new prompt can use; at least  *)
(* one token is always evaluated, for its logits.                          *)
Reusable(s) ==
    LET t == slot[s].task
        past == IF CanSplit(t) /\ Requests[t].cache_prompt THEN CommonPrefix(PromptOf(s), Input(t)) ELSE 0
    IN  IF past = Len(Input(t)) THEN past - 1 ELSE past

Kept(s) == IF slot[s].state = "STARTED" THEN SubSeq(PromptOf(s), 1, Reusable(s)) ELSE PromptOf(s)

Startable ==
    slot[cur].state = "STARTED" => (TaskOf(cur).prompt # <<>> /\ ~ TooLarge(slot[cur].task))

(* Not enough room for an input that cannot be split: try the next round.  *)
Postpone ==
    /\ phase = "prompt" /\ TakesPart /\ Startable
    /\ ~ CanSplit(slot[cur].task) /\ Len(batch) + Len(TaskOf(cur).prompt) > NBatch
    /\ slot' = [slot EXCEPT ![cur].state = "PROCESSING_PROMPT", ![cur].prompt = Kept(cur)]
    /\ Advance /\ NextPhase("decode")
    /\ UNCHANGED <<setup, kv, batchVars, launched, answer>>

\* A plausible bug in Trimmed.
TrimmedNot(s) == kv[s]

(* The context forgets what the slot does not keep (seq_rm from p0 on).    *)
Trimmed(s) == SubSeq(kv[s], 1, Len(Kept(s)))

(* Media chunks are decoded on the spot, text goes to the batch up to the  *)
(* next media chunk.                                                       *)
RunOf(p, from, set) ==
    LET stop == {i \in from..Len(p) : p[i] \notin set}
    IN  IF stop = {} THEN Len(p) ELSE (CHOOSE i \in stop : \A j \in stop : i <= j) - 1

MediaEnd(s) == RunOf(Input(slot[s].task), Len(Kept(s)) + 1, Media)

FillPrompt ==
    LET t    == slot[cur].task
        text == MediaEnd(cur)
        end  == Least(RunOf(Input(t), text + 1, Vocab), text + NBatch - Len(batch))
        done == end = Len(Input(t))
        new  == [i \in 1..end - text |->
                   Token(cur, Input(t)[text + i], text + i - 1, NeedEmbd(t) \/ (done /\ text + i = end))]
    IN  /\ phase = "prompt" /\ TakesPart /\ Startable
        /\ CanSplit(t) \/ Len(batch) + Len(Input(t)) <= NBatch
        /\ kv' = [kv EXCEPT ![cur] = Trimmed(cur) \o SubSeq(Input(t), Len(Kept(cur)) + 1, text)]
        /\ batch' = batch \o new
        /\ slot' = [slot EXCEPT ![cur].prompt = Kept(cur) \o SubSeq(Input(t), Len(Kept(cur)) + 1, end),
                                ![cur].state = IF done THEN "DONE_PROMPT" ELSE "PROCESSING_PROMPT",
                                ![cur].ibatch = IF done THEN Len(batch') - 1 ELSE @,
                                ![cur].ngen = IF done THEN 0 ELSE @]
        /\ head' = IF head = 0 THEN cur ELSE head
        /\ Advance /\ NextPhase("decode")
        /\ UNCHANGED <<setup, off, nbatch, launched, answer>>

(* A media chunk that cannot be encoded or decoded ends the request; what  *)
(* was decoded of it may stay in the memory beyond the tokens of the slot. *)
MediaFails ==
    /\ CanFail /\ phase = "prompt" /\ TakesPart /\ Startable
    /\ \E n \in Len(Kept(cur))..MediaEnd(cur) - 1 :
          LET held == SubSeq(Input(slot[cur].task), 1, n) IN
          /\ slot' = [slot EXCEPT ![cur] = Released([@ EXCEPT !.prompt = held])]
          /\ kv' = [kv EXCEPT ![cur] = held]
    /\ answer' = Send(slot[cur].task, "error")
    /\ Advance /\ NextPhase("decode")
    /\ UNCHANGED <<setup, batchVars, launched>>

-----------------------------------------------------------------------------
(* decode: one sub-batch.                                                  *)

\* A plausible bug in InView.
InViewWhole(i) == 0 <= i /\ i < Len(batch)

InView(i) == off <= i /\ i < off + Least(nbatch, Len(batch) - off)
View == SubSeq(batch, off + 1, off + Least(nbatch, Len(batch) - off))
ViewOf(s) == Drop(View, {e \in Range(View) : e.slot # s})
TokensOf(q) == [i \in 1..Len(q) |-> q[i].token]

(* llama_decode accepts a token only at the next position of its sequence. *)
Accepted == \A s \in Slots : \A i \in 1..Len(ViewOf(s)) : ViewOf(s)[i].pos = Len(kv[s]) + i - 1

Undecoded == phase = "decode" /\ off < Len(batch)

(* The children of a parent whose prompt is processed copy its state.      *)
Activated(c) == {s \in Slots : /\ slot[c].state = "WAIT_OTHER" /\ slot[s].state = "DONE_PROMPT"
                               /\ slot[s].task = TaskOf(c).parent}

DecodeOk ==
    LET grown == [s \in Slots |-> kv[s] \o TokensOf(ViewOf(s))]
        parent(c) == CHOOSE s \in Activated(c) : TRUE
    IN  /\ Undecoded /\ Accepted
        /\ kv' = [s \in Slots |-> IF Activated(s) # {} THEN grown[parent(s)] ELSE grown[s]]
        /\ slot' = [s \in Slots |->
              IF Activated(s) = {} THEN slot[s]
              ELSE [slot[s] EXCEPT !.state = "DONE_PROMPT", !.ibatch = slot[parent(s)].ibatch,
                                   !.prompt = PromptOf(parent(s)), !.ngen = slot[parent(s)].ngen]]
        /\ phase' = "post" /\ cur' = 1
        /\ UNCHANGED <<setup, batchVars, launched, answer>>

(* Purge an idle slot, or else halve the sub-batch, and try again.         *)
Purgeable == {s \in Slots : KvUnified /\ ~ Processing(s) /\ PromptOf(s) # <<>>}

DecodeFull ==
    /\ Undecoded /\ Accepted /\ CanBeFull
    /\ Purgeable # {} \/ nbatch > 1
    /\ IF Purgeable # {}
       THEN LET s == CHOOSE s \in Purgeable : \A t \in Purgeable : s <= t IN
            /\ slot' = [slot EXCEPT ![s].prompt = <<>>]
            /\ kv' = [kv EXCEPT ![s] = <<>>]
            /\ UNCHANGED nbatch
       ELSE nbatch' = nbatch \div 2 /\ UNCHANGED <<slot, kv>>
    /\ UNCHANGED <<setup, batch, head, off, phase, cur, launched, answer>>

\* A plausible bug in DecodeError.
DecodeErrorKeepsPrompt ==
    /\ Undecoded
    /\ ~ Accepted \/ CanFail \/ (CanBeFull /\ nbatch = 1)
    /\ slot' = [s \in Slots |-> IF Processing(s) THEN Released(slot[s]) ELSE slot[s]]
    /\ UNCHANGED kv
    /\ answer' = [t \in Tasks |->
          IF \E s \in Slots : slot[s].task = t THEN Append(answer[t], "error") ELSE answer[t]]
    /\ phase' = "wait" /\ cur' = 1
    /\ UNCHANGED <<setup, batchVars, launched>>

(* An invalid batch, a compute error or a single token that does not fit   *)
(* ends every request and clears every busy slot.                          *)
DecodeError ==
    /\ Undecoded
    /\ ~ Accepted \/ CanFail \/ (CanBeFull /\ nbatch = 1)
    /\ slot' = [s \in Slots |-> IF Processing(s) THEN [Released(slot[s]) EXCEPT !.prompt = <<>>] ELSE slot[s]]
    /\ kv' = [s \in Slots |-> IF Processing(s) THEN <<>> ELSE kv[s]]
    /\ answer' = [t \in Tasks |->
          IF \E s \in Slots : slot[s].task = t THEN Append(answer[t], "error") ELSE answer[t]]
    /\ phase' = "wait" /\ cur' = 1
    /\ UNCHANGED <<setup, batchVars, launched>>

RoundEnds ==
    /\ phase = "decode" /\ off = Len(batch)
    /\ phase' = "wait"
    /\ UNCHANGED <<setup, slot, kv, batchVars, cur, launched, answer>>

-----------------------------------------------------------------------------
(* post_decode: sample for every slot whose logits are in the sub-batch.   *)

Sampling(s) == phase = "post" /\ InView(slot[s].ibatch) /\ slot[s].state \in {"DONE_PROMPT", "GENERATING"}

NextSubBatch ==
    /\ Advance /\ NextPhase("decode")
    /\ off' = IF cur = NSlots THEN off + Len(View) ELSE off
    /\ nbatch' = IF cur = NSlots THEN NBatch ELSE nbatch
    /\ UNCHANGED <<setup, batch, head, launched>>

NothingToSample ==
    /\ phase = "post" /\ ~ Sampling(cur)
    /\ NextSubBatch
    /\ UNCHANGED <<slot, kv, answer>>

SendEmbedding ==
    /\ Sampling(cur) /\ NeedEmbd(slot[cur].task)
    /\ slot' = [slot EXCEPT ![cur] = [Released(@) EXCEPT !.ibatch = -1]]
    /\ kv' = [kv EXCEPT ![cur] = KvReleased(cur)]
    /\ answer' = Send(slot[cur].task, "final")
    /\ NextSubBatch

(* process_token stops at the end of the context or of the budget.         *)
MustStop(s) == (~ CtxShift /\ Len(PromptOf(s)) + 1 >= NCtx) \/ slot[s].ngen + 1 >= TaskOf(s).n_predict

Sampled(s, tok) ==
    [slot[s] EXCEPT !.state = "GENERATING", !.sampled = tok, !.ibatch = -1, !.ngen = @ + 1]

SampleToken ==
    /\ Sampling(cur) /\ ~ NeedEmbd(slot[cur].task) /\ ~ MustStop(cur)
    /\ \E tok \in Vocab : slot' = [slot EXCEPT ![cur] = Sampled(cur, tok)]
    /\ NextSubBatch
    /\ UNCHANGED <<kv, answer>>

(* The budget is spent, or the token ends the generation (EOS, stop word). *)
SampleLast ==
    /\ Sampling(cur) /\ ~ NeedEmbd(slot[cur].task)
    /\ \E tok \in Vocab : slot' = [slot EXCEPT ![cur] = Released(Sampled(cur, tok))]
    /\ kv' = [kv EXCEPT ![cur] = KvReleased(cur)]
    /\ answer' = Send(slot[cur].task, "final")
    /\ NextSubBatch

(* An exception of the sampler is caught by iterate(): only this request   *)
(* ends.                                                                   *)
SampleFails ==
    /\ CanFail /\ Sampling(cur)
    /\ slot' = [slot EXCEPT ![cur] = Released(@)]
    /\ kv' = [kv EXCEPT ![cur] = KvReleased(cur)]
    /\ answer' = Send(slot[cur].task, "error")
    /\ NextSubBatch

-----------------------------------------------------------------------------
PreDecode == ShiftContext \/ BatchSampled \/ SkipSlot \/ EmptyPrompt \/ RejectPrompt \/ Postpone \/ FillPrompt \/ MediaFails
Decode == DecodeOk \/ DecodeFull \/ DecodeError \/ RoundEnds
PostDecode == NothingToSample \/ SendEmbedding \/ SampleToken \/ SampleLast \/ SampleFails
MainLoop == UpdateSlots \/ PreDecode \/ Decode \/ PostDecode

Next == MainLoop \/ \E t \in DOMAIN Requests : LaunchFamily(t) \/ CancelFamily(t)

Spec == Init /\ [][Next]_vars

(* The loop runs as long as a slot is busy (NEXT_RESPONSE), and a client   *)
(* that saw an error gives its other tasks up.                             *)
FairSpec == Spec /\ WF_vars(MainLoop) /\ \A t \in Tasks : WF_vars(GiveUp(t))

-----------------------------------------------------------------------------
(* Between two rounds the tokens a slot remembers are the first tokens of  *)
(* its sequence in the context memory (server_slot::prompt, the basis on   *)
(* which update_slots reuses a common prefix): through shifts, sub-batches,*)
(* failed media chunks, cancels and decode errors.                         *)
PromptCached == phase = "wait" => \A s \in Slots : IsPrefix(PromptOf(s), kv[s])

(* A token is sampled from the logits of the slot's own last token, on a   *)
(* context that holds exactly the tokens before it (post_decode, i_batch). *)
SamplesOwnContext ==
    Sampling(cur) =>
        LET e == batch[slot[cur].ibatch + 1] IN
        /\ e.output /\ e.token = Last(PromptOf(cur))
        /\ kv[cur] = PromptOf(cur)
        /\ e.slot = cur \/ TaskOf(cur).parent = slot[e.slot].task \/ slot[e.slot].task = NoTask

(* llama_decode never refuses a batch for the positions of its tokens      *)
(* (batch.add with pos_next, rollback by seq_rm).                          *)
DecodeAccepts == Undecoded => Accepted

(* Embeddings and completions never share a batch, whatever joins it       *)
(* (can_batch_with, slot_batched).                                         *)
Homogeneous ==
    phase \in {"prompt", "decode"} =>
        \A i, j \in 1..Len(batch) :
            Processing(batch[i].slot) /\ Processing(batch[j].slot) => CanBatchWith(batch[i].slot, batch[j].slot)

(* A context shift leaves room for one more token (update_slots, n_keep    *)
(* and n_discard).                                                         *)
ShiftMakesRoom == phase = "batch" => \A s \in Slots : slot[s].state = "GENERATING" => Len(PromptOf(s)) + 1 < NCtx

(* A task gets one result at most, and its slot is free once it got it     *)
(* (send_final_response and send_error with release).                      *)
AnsweredOnce ==
    \A t \in Tasks : /\ Len(answer[t]) <= 1
                     /\ answer[t] # <<>> => \A s \in Slots : slot[s].task # t

(* Every task that was given to a slot is answered or cancelled            *)
(* (update_slots, decode with its retries).                                *)
EveryTaskAnswered == \A t \in Tasks : (t \in launched) ~> (answer[t] # <<>>)

(* The children of a family sample on the whole prompt of their parent     *)
(* (decode, "when the main prompt is processed").                          *)
ChildrenComplete == \A s \in Slots : (Sampling(s) /\ IsChild(slot[s].task)) => kv[s] = PromptOf(s)

(* An embedding that cannot be split is read when its whole input was in   *)
(* the sub-batch that was decoded (can_split, send_embedding).             *)
WholeInput ==
    (Sampling(cur) /\ ~ CanSplit(slot[cur].task)) => Len(ViewOf(cur)) = Len(TaskOf(cur).prompt)

(* Tokens and cells of a slot agree whenever the loop waits, a shift       *)
(* always makes room, and a task has at most one answer.                   *)
SlotInv == TypeOK /\ PromptCached /\ ShiftMakesRoom /\ AnsweredOnce

=============================================================================
