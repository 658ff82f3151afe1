--------------------------- MODULE SlotDecodeProofs ---------------------------
(* For every number of slots, batch size, context size and mix of          *)
(* requests: a task is answered once, embeddings and completions never     *)
(* share a batch, and what the server believes of the memory of a slot is  *)
(* what the memory holds whenever a token is sampled or a batch decoded.   *)
EXTENDS SlotDecode, ProofLemmas

(* The types of everything but the memory of the slots: that what a slot   *)
(* keeps is there to be kept is part of ContextInv.                        *)
Types ==
    /\ setup \in Setups /\ cur \in Slots
    /\ slot \in [Slots -> SlotRec]
    /\ batch \in Seq(BatchRec)
    /\ head \in Slots \cup {0}
    /\ phase \in {"wait", "shift", "batch", "prompt", "decode", "post"}
    /\ off \in 0..Len(batch)
    /\ nbatch \in 1..NBatch
    /\ launched \subseteq Tasks
    /\ answer \in [Tasks -> Seq({"final", "error", "cancelled"})]

(* A slot works for a task that was launched and is not answered, and no   *)
(* other slot does.                                                        *)
TaskInv ==
    /\ launched \subseteq DOMAIN Requests /\ \A t \in launched : Parent(t) \in launched
    /\ \A s \in Slots : slot[s].state = "IDLE" <=> slot[s].task = NoTask
    /\ \A s \in Slots : slot[s].task # NoTask => slot[s].task \in launched /\ answer[slot[s].task] = <<>>
    /\ \A s, t \in Slots : slot[s].task = slot[t].task /\ slot[s].task # NoTask => s = t
    /\ \A t \in Tasks : answer[t] # <<>> => t \in launched /\ Len(answer[t]) = 1

(* How far the prompt of a slot is.                                        *)
StateInv(s) ==
    /\ slot[s].state = "PROCESSING_PROMPT" =>
          /\ ~ TooLarge(slot[s].task) /\ Len(PromptOf(s)) < Len(Input(slot[s].task))
          /\ PromptOf(s) = SubSeq(Input(slot[s].task), 1, Len(PromptOf(s)))
    /\ slot[s].state = "GENERATING" => ~ NeedEmbd(slot[s].task)
    /\ slot[s].state \in {"STARTED", "PROCESSING_PROMPT"} => ~ IsChild(slot[s].task)
    /\ slot[s].state = "WAIT_OTHER" => IsChild(slot[s].task)

(* The batch is being filled, decoded or sampled from.                     *)
Busy == phase \in {"prompt", "decode", "post"}

(* The head is in the batch or about to be; every slot enters once.        *)
FillInv ==
    phase = "prompt" =>
        /\ off = 0 /\ nbatch = NBatch
        /\ head = 0 => batch = <<>>
        /\ head # 0 => Processing(head) /\ (head < cur \/ slot[head].state = "GENERATING")
        /\ \A i \in 1..Len(batch) :
              LET s == batch[i].slot IN
              Processing(s) /\ CanBatchWith(head, s) /\ (s < cur \/ slot[s].state = "GENERATING")

(* The entries of a slot are in order, and all slots of one type.          *)
BatchInv ==
    Busy =>
        /\ Len(batch) <= NBatch
        /\ \A i, j \in 1..Len(batch) : i < j /\ batch[i].slot = batch[j].slot => batch[i].pos < batch[j].pos
        /\ \A i \in 1..Len(batch) : slot[batch[i].slot].state \notin {"STARTED", "WAIT_OTHER"}
        /\ \A i, j \in 1..Len(batch) :
              Processing(batch[i].slot) /\ Processing(batch[j].slot) => CanBatchWith(batch[i].slot, batch[j].slot)

BaseInv == Types /\ TaskInv /\ (\A s \in Slots : StateInv(s)) /\ FillInv /\ BatchInv

-----------------------------------------------------------------------------
(* The entries of the batch up to Done are in the memory.                  *)
ViewEnd == off + Least(nbatch, Len(batch) - off)
Done    == IF phase = "post" THEN ViewEnd ELSE off

Pending(s) == {i \in 1..Len(batch) : Busy /\ i > Done /\ batch[i].slot = s}

(* Memory and prompt agree as far as both go, and what the memory lacks is *)
(* in the rest of the batch, position by position.                         *)
MemInv(s) ==
    /\ \A p \in 1..Len(PromptOf(s)) : p <= Len(kv[s]) => kv[s][p] = PromptOf(s)[p]
    /\ \A i \in Pending(s) :
          /\ Len(kv[s]) <= batch[i].pos /\ batch[i].pos < Len(PromptOf(s))
          /\ batch[i].token = PromptOf(s)[batch[i].pos + 1]
    /\ \A p \in Len(kv[s])..Len(PromptOf(s)) - 1 : \E i \in Pending(s) : batch[i].pos = p
    /\ slot[s].state \in {"DONE_PROMPT", "GENERATING"} => Len(kv[s]) <= Len(PromptOf(s))
    /\ slot[s].state = "IDLE" => Pending(s) = {}

(* The first entry that slot s may still sample from.                      *)
From(s) == IF phase = "post" /\ s < cur THEN ViewEnd ELSE off

(* The entry that slot s samples from is the last one of its prompt, its   *)
(* own or, for a child that was just activated, that of its parent.        *)
Logits(s) ==
    LET e == batch[slot[s].ibatch + 1] IN
    /\ slot[s].ibatch \in From(s)..Len(batch) - 1
    /\ e.output /\ e.pos = Len(PromptOf(s)) - 1 /\ e.token = PromptOf(s)[Len(PromptOf(s))]
    /\ e.slot = s \/ (/\ IsChild(slot[s].task) /\ \A i \in 1..Len(batch) : batch[i].slot # s
                      /\ slot[e.slot].task \in {TaskOf(s).parent, NoTask})

SampleInv(s) ==
    /\ ~ Busy => slot[s].state # "DONE_PROMPT"
    /\ slot[s].state = "DONE_PROMPT" => Logits(s)
    /\ slot[s].state = "GENERATING" => slot[s].ibatch = -1 \/ (Busy /\ Logits(s))

(* A completion has room for the next token.                               *)
RoomInv(s) ==
    /\ slot[s].state \in {"DONE_PROMPT", "GENERATING"} /\ ~ NeedEmbd(slot[s].task) => Len(PromptOf(s)) < NCtx
    /\ phase = "batch" /\ slot[s].state = "GENERATING" => Len(PromptOf(s)) + 1 < NCtx

(* A cache that never runs full takes the batch in one piece.              *)
WholeInv == ~ CanBeFull => nbatch = NBatch /\ (Busy => off = 0 \/ (phase = "decode" /\ off = Len(batch)))

SlotContext(s) == MemInv(s) /\ SampleInv(s) /\ RoomInv(s)
Context == kv \in [Slots -> Seq(Vocab \cup Media)] /\ WholeInv /\ \A s \in Slots : SlotContext(s)
ContextInv == Supported(setup) => Context

-----------------------------------------------------------------------------
\* The parameters of the server.
LEMMA SetupFacts ==
    ASSUME setup \in Setups
    PROVE  /\ NSlots \in Nat /\ NSlots >= 1 /\ NBatch \in Nat /\ NBatch >= NSlots
           /\ NUBatch \in Nat /\ NCtx \in Nat /\ NCtx >= 4
           /\ DOMAIN Requests \subseteq Tasks /\ NoTask \notin Tasks
           /\ \A t \in DOMAIN Requests : Requests[t] \in RequestRec
  BY SetupAssumption DEF NSlots, NBatch, NUBatch, NCtx, Requests

\* What a request asks.
LEMMA RequestFacts ==
    ASSUME setup \in Setups, NEW t \in DOMAIN Requests
    PROVE  /\ t \in Tasks /\ t # NoTask /\ Input(t) \in Seq(Vocab \cup Media) /\ Len(Input(t)) \in Nat
           /\ IsChild(t) => /\ Requests[t].parent \in DOMAIN Requests /\ ~ IsChild(Requests[t].parent)
                            /\ Requests[Requests[t].parent].type = Requests[t].type
                            /\ Input(Requests[t].parent) = Input(t)
  <1>1. Requests[t] \in RequestRec /\ t \in Tasks /\ t # NoTask
    BY SetupFacts
  <1>2. Input(t) \in Seq(Vocab \cup Media)
    BY <1>1 DEF RequestRec, Input
  <1>3. Len(Input(t)) \in Nat
    BY <1>2, LenProperties
  <1>4. IsChild(t) => /\ Requests[t].parent \in DOMAIN Requests /\ Requests[Requests[t].parent].parent = NoTask
                      /\ Requests[Requests[t].parent].type = Requests[t].type
                      /\ Requests[Requests[t].parent].prompt = Requests[t].prompt
    BY SetupAssumption DEF IsChild, Requests
  <1> QED
    BY <1>1, <1>2, <1>3, <1>4 DEF Input, IsChild

\* What release leaves of a slot.
LEMMA ReleasedFacts ==
    ASSUME NEW r \in SlotRec
    PROVE  /\ Released(r) \in SlotRec
           /\ Released(r).state = "IDLE" /\ Released(r).task = NoTask /\ Released(r).ibatch = r.ibatch
           /\ Released(r).prompt = IF IsChild(r.task) THEN <<>> ELSE r.prompt
  <1>1. <<>> \in Seq(Vocab \cup Media)
    BY EmptySeq
  <1> QED
    BY <1>1 DEF Released, SlotRec, States

\* The slots, one by one.
LEMMA SlotFacts ==
    ASSUME Types, NEW s \in Slots
    PROVE  /\ slot[s] \in SlotRec /\ slot[s].state \in States /\ slot[s].task \in Tasks \cup {NoTask}
           /\ slot[s].prompt \in Seq(Vocab \cup Media) /\ Len(slot[s].prompt) \in Nat
           /\ slot[s].sampled \in Vocab /\ slot[s].ibatch \in Int /\ slot[s].ngen \in Nat
           /\ s \in Nat /\ s >= 1 /\ s <= NSlots
  <1>1. slot[s] \in SlotRec
    BY DEF Types
  <1>2. /\ slot[s].state \in States /\ slot[s].task \in Tasks \cup {NoTask}
        /\ slot[s].prompt \in Seq(Vocab \cup Media)
        /\ slot[s].sampled \in Vocab /\ slot[s].ibatch \in Int /\ slot[s].ngen \in Nat
    BY <1>1 DEF SlotRec
  <1>3. s \in Nat /\ s >= 1 /\ s <= NSlots
    BY SetupFacts DEF Types, Slots
  <1> QED
    BY <1>1, <1>2, <1>3, LenProperties

\* The entries of the batch, one by one.
LEMMA EntryFacts ==
    ASSUME Types, NEW i \in 1..Len(batch)
    PROVE  /\ batch[i] \in BatchRec /\ batch[i].slot \in Slots /\ batch[i].token \in Vocab
           /\ batch[i].pos \in Nat /\ batch[i].output \in BOOLEAN
  <1>1. batch \in Seq(BatchRec)
    BY DEF Types
  <1>2. batch[i] \in BatchRec
    BY <1>1, ElementOfSeq
  <1> QED
    BY <1>2 DEF BatchRec

\* A busy slot has a request.
LEMMA BusySlot ==
    ASSUME BaseInv, NEW s \in Slots, Processing(s)
    PROVE  slot[s].task \in DOMAIN Requests /\ slot[s].task \in Tasks /\ slot[s].task # NoTask /\ answer[slot[s].task] = <<>>
  <1>1. slot[s].task # NoTask /\ slot[s].task \in launched /\ answer[slot[s].task] = <<>>
    BY DEF BaseInv, TaskInv, Processing
  <1> QED
    BY <1>1, SetupFacts DEF BaseInv, TaskInv, Types

-----------------------------------------------------------------------------
\* Slots are released with an answer each; the others keep their tasks.
LEMMA TaskRelease ==
    ASSUME BaseInv, setup' = setup, launched' = launched, NEW R \in SUBSET Slots, NEW x,
           \A s \in R : Processing(s) /\ slot'[s].state = "IDLE" /\ slot'[s].task = NoTask,
           \A s \in Slots \ R : slot'[s].task = slot[s].task /\ (slot'[s].state = "IDLE" <=> slot[s].state = "IDLE"),
           \A t \in Tasks : answer'[t] = IF \E s \in R : slot[s].task = t THEN Append(answer[t], x) ELSE answer[t]
    PROVE  TaskInv'
  <1>1. Slots' = Slots /\ Requests' = Requests /\ \A t : Parent(t)' = Parent(t)
    BY DEF Slots, NSlots, Requests, Parent
  <1>2. \A s \in Slots : slot'[s].state = "IDLE" <=> slot'[s].task = NoTask
    BY DEF BaseInv, TaskInv
  <1>3. ASSUME NEW s \in Slots, slot'[s].task # NoTask
        PROVE  /\ s \notin R /\ slot'[s].task = slot[s].task /\ slot[s].task \in launched
               /\ answer'[slot[s].task] = <<>>
    <2>1. s \notin R /\ slot'[s].task = slot[s].task
      BY <1>3
    <2>2. slot[s].task \in launched /\ answer[slot[s].task] = <<>> /\ slot[s].task \in Tasks
      BY <2>1, <1>3, SetupFacts DEF BaseInv, TaskInv, Types
    <2>3. ~ \E u \in R : slot[u].task = slot[s].task
      BY <2>1, <1>3 DEF BaseInv, TaskInv
    <2> QED
      BY <2>1, <2>2, <2>3
  <1>4. ASSUME NEW s \in Slots, NEW t \in Slots, slot'[s].task = slot'[t].task, slot'[s].task # NoTask PROVE s = t
    BY <1>3, <1>4 DEF BaseInv, TaskInv
  <1>5. ASSUME NEW t \in Tasks, answer'[t] # <<>> PROVE t \in launched /\ Len(answer'[t]) = 1
    <2>1. CASE \E s \in R : slot[s].task = t
      <3>1. PICK s \in R : slot[s].task = t
        BY <2>1
      <3>2. t \in launched /\ answer[t] = <<>> /\ answer'[t] = Append(answer[t], x)
        BY <3>1, <2>1, BusySlot DEF BaseInv, TaskInv
      <3> QED
        BY <3>2
    <2>2. CASE ~ \E s \in R : slot[s].task = t
      BY <2>2, <1>5 DEF BaseInv, TaskInv
    <2> QED
      BY <2>1, <2>2
  <1> QED
    BY <1>1, <1>2, <1>3, <1>4, <1>5 DEF BaseInv, TaskInv

\* No task is given or taken.
LEMMA TaskFrame ==
    ASSUME BaseInv, setup' = setup, launched' = launched, answer' = answer,
           \A s \in Slots : slot'[s].task = slot[s].task /\ (slot'[s].state = "IDLE" <=> slot[s].state = "IDLE")
    PROVE  TaskInv'
  <1>1. Slots' = Slots /\ Requests' = Requests /\ \A t : Parent(t)' = Parent(t)
    BY DEF Slots, NSlots, Requests, Parent
  <1> QED
    BY <1>1 DEF BaseInv, TaskInv

\* A slot that is as it was.
LEMMA StateFrame ==
    ASSUME NEW s, StateInv(s), setup' = setup, slot'[s] = slot[s]
    PROVE  StateInv(s)'
  BY DEF StateInv, PromptOf, TooLarge, CanSplit, NeedEmbd, Input, IsChild, Requests, NCtx, NUBatch

\* An idle slot has no prompt to process.
LEMMA StateIdle ==
    ASSUME NEW s, slot'[s].state = "IDLE"
    PROVE  StateInv(s)'
  BY DEF StateInv

\* A slot that is passed over, postponed or released leaves the batch as it is.
LEMMA PromptAside ==
    ASSUME BaseInv, phase = "prompt", setup' = setup, UNCHANGED batchVars, Advance, NextPhase("decode"),
           \A s \in Slots \ {cur} : slot'[s] = slot[s],
           slot'[cur] = slot[cur] \/ (/\ slot[cur].state \in {"STARTED", "PROCESSING_PROMPT"}
                                      /\ slot'[cur].state \in {"IDLE", "PROCESSING_PROMPT"})
    PROVE  FillInv' /\ BatchInv'
  <1>1. /\ Slots' = Slots /\ NBatch' = NBatch /\ Requests' = Requests /\ batch' = batch /\ head' = head
        /\ off' = off /\ nbatch' = nbatch
    BY DEF Slots, NSlots, NBatch, Requests, batchVars
  <1>2. cur \in Slots /\ cur \in Nat /\ NSlots \in Nat /\ (phase' = "prompt" => cur' = cur + 1) /\ head \in Slots \cup {0}
    BY SetupFacts DEF BaseInv, Types, Slots, Advance, NextPhase
  <1>3. \A i \in 1..Len(batch) : batch[i].slot \in Slots
    BY EntryFacts DEF BaseInv
  <1>4. ASSUME NEW s \in Slots, s < cur \/ slot[s].state = "GENERATING"
        PROVE  slot'[s] = slot[s] /\ (phase' = "prompt" => s < cur' \/ slot'[s].state = "GENERATING")
    <2>1. s # cur \/ slot'[s] = slot[s]
      BY <1>2, <1>4
    <2>2. s \in Nat
      BY <1>4 DEF Slots
    <2> QED
      BY <2>1, <2>2, <1>2, <1>4
  <1>5. /\ off = 0 /\ nbatch = NBatch /\ (head = 0 => batch = <<>>)
        /\ head # 0 => Processing(head) /\ (head < cur \/ slot[head].state = "GENERATING")
        /\ \A i \in 1..Len(batch) :
              LET s == batch[i].slot IN
              Processing(s) /\ CanBatchWith(head, s) /\ (s < cur \/ slot[s].state = "GENERATING")
    BY DEF BaseInv, FillInv
  <1>6. \A i \in 1..Len(batch) : slot'[batch[i].slot] = slot[batch[i].slot]
    BY <1>3, <1>4, <1>5
  <1>7. head # 0 => slot'[head] = slot[head]
    BY <1>2, <1>4, <1>5
  <1>8. ASSUME NEW i \in 1..Len(batch) PROVE head # 0
    BY <1>5
  <1>9. FillInv'
    <2> SUFFICES ASSUME phase' = "prompt" PROVE FillInv'
      BY DEF FillInv
    <2>1. head # 0 => slot'[head].state # "IDLE" /\ (head < cur' \/ slot'[head].state = "GENERATING")
      BY <1>2, <1>4, <1>5, <1>7 DEF Processing
    <2>2. ASSUME NEW i \in 1..Len(batch)
          PROVE  LET s == batch[i].slot IN
                 slot'[s].state # "IDLE" /\ CanBatchWith(head, s)' /\ (s < cur' \/ slot'[s].state = "GENERATING")
      <3>1. CanBatchWith(head, batch[i].slot)'
        BY <1>1, <1>5, <1>6, <1>7, <1>8 DEF CanBatchWith
      <3> QED
        BY <3>1, <1>3, <1>4, <1>5, <1>6 DEF Processing
    <2> QED
      BY <2>1, <2>2, <1>1, <1>5 DEF FillInv, Processing
  <1>10. BatchInv'
    <2>1. /\ Len(batch) <= NBatch
          /\ \A i, j \in 1..Len(batch) : i < j /\ batch[i].slot = batch[j].slot => batch[i].pos < batch[j].pos
          /\ \A i \in 1..Len(batch) : slot[batch[i].slot].state \notin {"STARTED", "WAIT_OTHER"}
          /\ \A i, j \in 1..Len(batch) :
                Processing(batch[i].slot) /\ Processing(batch[j].slot) => CanBatchWith(batch[i].slot, batch[j].slot)
      BY DEF BaseInv, BatchInv, Busy
    <2> QED
      BY <2>1, <1>1, <1>6 DEF BatchInv, Processing, CanBatchWith
  <1> QED
    BY <1>9, <1>10

\* Decoding and sampling leave the batch as it is; nobody joins it.
LEMMA DecodeAside ==
    ASSUME BaseInv, Busy, setup' = setup, batch' = batch, phase' \in {"decode", "post"},
           \A s \in Slots : /\ slot'[s].state # "IDLE" => slot[s].state # "IDLE" /\ slot'[s].task = slot[s].task
                            /\ slot'[s].state \in {"STARTED", "WAIT_OTHER"} => slot'[s].state = slot[s].state
    PROVE  FillInv' /\ BatchInv'
  <1>1. Slots' = Slots /\ NBatch' = NBatch /\ Requests' = Requests
    BY DEF Slots, NSlots, NBatch, Requests
  <1>2. \A i \in 1..Len(batch) : batch[i].slot \in Slots
    BY EntryFacts DEF BaseInv
  <1>3. /\ Len(batch) <= NBatch
        /\ \A i, j \in 1..Len(batch) : i < j /\ batch[i].slot = batch[j].slot => batch[i].pos < batch[j].pos
        /\ \A i \in 1..Len(batch) : slot[batch[i].slot].state \notin {"STARTED", "WAIT_OTHER"}
        /\ \A i, j \in 1..Len(batch) :
              Processing(batch[i].slot) /\ Processing(batch[j].slot) => CanBatchWith(batch[i].slot, batch[j].slot)
    BY DEF BaseInv, BatchInv
  <1>4. FillInv'
    BY DEF FillInv
  <1>5. BatchInv'
    <2>1. \A i \in 1..Len(batch) : slot'[batch[i].slot].state \notin {"STARTED", "WAIT_OTHER"}
      BY <1>2, <1>3
    <2>2. ASSUME NEW i \in 1..Len(batch), Processing(batch[i].slot)'
          PROVE  Processing(batch[i].slot) /\ slot'[batch[i].slot].task = slot[batch[i].slot].task
      <3>1. slot'[batch[i].slot].state # "IDLE"
        BY <2>2 DEF Processing
      <3> QED
        BY <3>1, <1>2 DEF Processing
    <2>3. ASSUME NEW i \in 1..Len(batch), NEW j \in 1..Len(batch),
                 Processing(batch[i].slot)', Processing(batch[j].slot)'
          PROVE  CanBatchWith(batch[i].slot, batch[j].slot)'
      <3>1. CanBatchWith(batch[i].slot, batch[j].slot)
        BY <2>2, <2>3, <1>3
      <3> QED
        BY <3>1, <2>2, <2>3, <1>1 DEF CanBatchWith
    <2> QED
      BY <2>1, <2>3, <1>1, <1>3 DEF BatchInv
  <1> QED
    BY <1>4, <1>5

-----------------------------------------------------------------------------
Results == {"final", "error", "cancelled"}

\* A step that leaves the batch alone has the right types when what it changes has.
LEMMA TypesFrame ==
    ASSUME Types, setup' = setup, batch' = batch, head' = head, cur' \in Slots,
           phase' \in {"wait", "shift", "batch", "prompt", "decode", "post"},
           off' \in 0..Len(batch), nbatch' \in 1..NBatch, launched' \subseteq Tasks,
           slot' \in [Slots -> SlotRec], answer' \in [Tasks -> Seq(Results)]
    PROVE  Types'
  <1>1. Slots' = Slots /\ NBatch' = NBatch /\ BatchRec' = BatchRec
    BY DEF Slots, NSlots, NBatch, BatchRec
  <1> QED
    BY <1>1 DEF Types, Results

\* The iteration goes to the next slot, or to the next phase at the last one.
LEMMA AdvanceFacts ==
    ASSUME Types, Advance, NEW after, NextPhase(after)
    PROVE  /\ cur' \in Slots
           /\ (cur = NSlots /\ phase' = after) \/ (cur < NSlots /\ cur' = cur + 1 /\ phase' = phase)
  <1>1. cur \in 1..NSlots /\ NSlots \in Nat /\ NSlots >= 1
    BY SetupFacts DEF Types, Slots
  <1> QED
    BY <1>1 DEF Advance, NextPhase, Slots

\* The slot that the iteration has reached answers and is released.
LEMMA OneReleased ==
    ASSUME BaseInv, setup' = setup, launched' = launched, Processing(cur), NEW x \in Results,
           NEW r \in SlotRec, r.state = "IDLE", r.task = NoTask,
           slot' = [slot EXCEPT ![cur] = r], answer' = Send(slot[cur].task, x)
    PROVE  /\ TaskInv' /\ (\A s \in Slots : StateInv(s)')
           /\ slot' \in [Slots -> SlotRec] /\ answer' \in [Tasks -> Seq(Results)]
  <1>1. cur \in Slots /\ slot \in [Slots -> SlotRec] /\ answer \in [Tasks -> Seq(Results)]
    BY DEF BaseInv, Types, Results
  <1>2. slot[cur].task \in Tasks
    BY <1>1, BusySlot
  <1>3. slot' \in [Slots -> SlotRec] /\ slot'[cur] = r /\ \A s \in Slots \ {cur} : slot'[s] = slot[s]
    BY <1>1
  <1>4. /\ answer' \in [Tasks -> Seq(Results)]
        /\ \A t \in Tasks : answer'[t] = IF t = slot[cur].task THEN Append(answer[t], x) ELSE answer[t]
    <2>1. Append(answer[slot[cur].task], x) \in Seq(Results)
      BY <1>1, <1>2, AppendProperties
    <2> QED
      BY <2>1, <1>1, <1>2 DEF Send
  <1>5. TaskInv'
    <2>1. {cur} \in SUBSET Slots
      BY <1>1
    <2>2. \A s \in {cur} : Processing(s) /\ slot'[s].state = "IDLE" /\ slot'[s].task = NoTask
      BY <1>3
    <2>3. \A s \in Slots \ {cur} : slot'[s].task = slot[s].task /\ (slot'[s].state = "IDLE" <=> slot[s].state = "IDLE")
      BY <1>3
    <2>4. \A t \in Tasks : answer'[t] = IF \E s \in {cur} : slot[s].task = t THEN Append(answer[t], x) ELSE answer[t]
      BY <1>4
    <2> QED
      BY <2>1, <2>2, <2>3, <2>4, TaskRelease
  <1>6. ASSUME NEW s \in Slots PROVE StateInv(s)'
    <2>1. CASE s = cur
      BY <2>1, <1>3, StateIdle
    <2>2. CASE s # cur
      BY <2>2, <1>3, StateFrame DEF BaseInv
    <2> QED
      BY <2>1, <2>2
  <1> QED
    BY <1>3, <1>4, <1>5, <1>6

\* A slot that takes part in the batch has a prompt to process.
LEMMA TakesPartFacts ==
    ASSUME BaseInv, TakesPart
    PROVE  /\ slot[cur].state \in {"STARTED", "PROCESSING_PROMPT"} /\ Processing(cur) /\ cur \in Slots
           /\ slot[cur].task \in DOMAIN Requests /\ ~ IsChild(slot[cur].task)
  <1>1. cur \in Slots /\ slot[cur].state \in {"STARTED", "PROCESSING_PROMPT"}
    BY DEF BaseInv, Types, TakesPart
  <1>2. Processing(cur)
    BY <1>1 DEF Processing
  <1> QED
    BY <1>1, <1>2, BusySlot DEF BaseInv, StateInv

-----------------------------------------------------------------------------
\* A slot without a prompt for this batch is passed over.
LEMMA BaseSkipSlot == ASSUME BaseInv, SkipSlot PROVE BaseInv'
  <1>1. /\ setup' = setup /\ slot' = slot /\ kv' = kv /\ launched' = launched /\ answer' = answer
        /\ UNCHANGED batchVars /\ phase = "prompt" /\ Advance /\ NextPhase("decode")
    BY DEF SkipSlot
  <1>2. FillInv' /\ BatchInv'
    BY <1>1, PromptAside
  <1>3. Slots' = Slots
    BY <1>1 DEF Slots, NSlots
  <1>4. TaskInv' /\ \A s \in Slots : StateInv(s)'
    BY <1>1, TaskFrame, StateFrame DEF BaseInv
  <1>5. Types'
    <2>1. cur' \in Slots /\ phase' \in {"prompt", "decode"}
      BY <1>1, AdvanceFacts DEF BaseInv
    <2> QED
      BY <2>1, <1>1, TypesFrame DEF BaseInv, Types, batchVars, Results
  <1> QED
    BY <1>2, <1>3, <1>4, <1>5 DEF BaseInv

\* A request that ends before it has anything in the batch.
LEMMA BaseEndPrompt ==
    ASSUME BaseInv, phase = "prompt", TakesPart, setup' = setup, launched' = launched, UNCHANGED batchVars,
           NEW r \in SlotRec, r.state = "IDLE", r.task = NoTask, slot' = [slot EXCEPT ![cur] = r],
           NEW x \in Results, answer' = Send(slot[cur].task, x), Advance, NextPhase("decode")
    PROVE  BaseInv'
  <1>1. /\ Processing(cur) /\ cur \in Slots /\ slot[cur].state \in {"STARTED", "PROCESSING_PROMPT"}
        /\ slot \in [Slots -> SlotRec]
    BY TakesPartFacts DEF BaseInv, Types
  <1>2. /\ TaskInv' /\ (\A s \in Slots : StateInv(s)')
        /\ slot' \in [Slots -> SlotRec] /\ answer' \in [Tasks -> Seq(Results)]
    BY <1>1, OneReleased
  <1>3. FillInv' /\ BatchInv'
    <2>1. slot'[cur] = r /\ \A s \in Slots \ {cur} : slot'[s] = slot[s]
      BY <1>1
    <2> QED
      BY <2>1, <1>1, PromptAside
  <1>4. Types'
    <2>1. cur' \in Slots /\ phase' \in {"prompt", "decode"}
      BY AdvanceFacts DEF BaseInv
    <2> QED
      BY <2>1, <1>2, TypesFrame DEF BaseInv, Types, batchVars
  <1>5. Slots' = Slots
    BY DEF Slots, NSlots
  <1> QED
    BY <1>2, <1>3, <1>4, <1>5 DEF BaseInv

\* An empty prompt is answered, a prompt that is too large refused.
LEMMA BaseNoPrompt == ASSUME BaseInv, EmptyPrompt \/ RejectPrompt PROVE BaseInv'
  <1>1. PICK x \in {"final", "error"} : Finish(cur, x)
    BY DEF EmptyPrompt, RejectPrompt
  <1>2. /\ phase = "prompt" /\ TakesPart /\ setup' = setup /\ launched' = launched /\ UNCHANGED batchVars
        /\ Advance /\ NextPhase("decode")
    BY DEF EmptyPrompt, RejectPrompt
  <1>3. cur \in Slots /\ slot[cur] \in SlotRec
    BY SlotFacts DEF BaseInv, Types
  <1>4. Released(slot[cur]) \in SlotRec /\ Released(slot[cur]).state = "IDLE" /\ Released(slot[cur]).task = NoTask
    BY <1>3, ReleasedFacts
  <1>5. slot' = [slot EXCEPT ![cur] = Released(slot[cur])] /\ answer' = Send(slot[cur].task, x) /\ x \in Results
    BY <1>1 DEF Finish, Results
  <1> QED
    BY <1>2, <1>4, <1>5, BaseEndPrompt

-----------------------------------------------------------------------------
\* The common prefix of two lists.
LEMMA CommonPrefixFacts ==
    ASSUME NEW S, NEW p \in Seq(S), NEW q \in Seq(S)
    PROVE  /\ CommonPrefix(p, q) \in Nat /\ CommonPrefix(p, q) <= Len(p) /\ CommonPrefix(p, q) <= Len(q)
           /\ SubSeq(p, 1, CommonPrefix(p, q)) = SubSeq(q, 1, CommonPrefix(p, q))
  <1> DEFINE b == IF Len(p) < Len(q) THEN Len(p) ELSE Len(q)
             A == {n \in 0..b : SubSeq(p, 1, n) = SubSeq(q, 1, n)}
  <1>1. Len(p) \in Nat /\ Len(q) \in Nat /\ b \in Nat /\ b <= Len(p) /\ b <= Len(q)
    BY LenProperties
  <1>2. 0 \in A
    <2>1. SubSeq(p, 1, 0) = <<>> /\ SubSeq(q, 1, 0) = <<>>
      BY SubSeqEmpty
    <2> QED
      BY <2>1, <1>1
  <1>3. CommonPrefix(p, q) = CHOOSE n \in A : \A m \in A : m <= n
    BY DEF CommonPrefix
  <1>4. A \subseteq 0..b /\ A \subseteq Nat /\ \A n \in A : n <= b
    BY <1>1
  <1>5. \A n \in A : SubSeq(p, 1, n) = SubSeq(q, 1, n)
    OBVIOUS
  <1> HIDE DEF A, b
  <1>6. \E n \in A : \A m \in A : m <= n
    BY <1>1, <1>2, <1>4, GreatestNat
  <1>7. CommonPrefix(p, q) \in A
    BY <1>3, <1>6
  <1>8. CommonPrefix(p, q) \in Nat /\ CommonPrefix(p, q) <= b
    BY <1>4, <1>7
  <1> QED
    BY <1>1, <1>5, <1>7, <1>8

\* The end of a run of elements of a set.
LEMMA RunOfFacts ==
    ASSUME NEW S, NEW p \in Seq(S), NEW from \in 1..Len(p) + 1, NEW X
    PROVE  /\ RunOf(p, from, X) \in Nat /\ from - 1 <= RunOf(p, from, X) /\ RunOf(p, from, X) <= Len(p)
           /\ \A i \in from..RunOf(p, from, X) : p[i] \in X
           /\ RunOf(p, from, X) < Len(p) => p[RunOf(p, from, X) + 1] \notin X
  <1> DEFINE stop == {i \in from..Len(p) : p[i] \notin X}
             k == CHOOSE i \in stop : \A j \in stop : i <= j
  <1>1. Len(p) \in Nat
    BY LenProperties
  <1>2. RunOf(p, from, X) = IF stop = {} THEN Len(p) ELSE k - 1
    BY DEF RunOf
  <1>3. CASE stop = {}
    BY <1>1, <1>2, <1>3
  <1>4. CASE stop # {}
    <2>1. stop \subseteq Nat
      BY <1>1
    <2>2. \E i \in stop : \A j \in stop : i <= j
      <3> HIDE DEF stop
      <3> QED
        BY <2>1, <1>4, LeastNat
    <2>3. k \in stop /\ \A j \in stop : k <= j
      BY <2>2
    <2>4. k \in from..Len(p) /\ p[k] \notin X /\ \A j \in from..Len(p) : p[j] \notin X => k <= j
      BY <2>3
    <2> HIDE DEF k, stop
    <2>5. RunOf(p, from, X) = k - 1
      BY <1>2, <1>4
    <2> QED
      BY <2>4, <2>5, <1>1
  <1> QED
    BY <1>3, <1>4

\* What a slot keeps of its memory is a proper part of the new prompt.
LEMMA KeptFacts ==
    ASSUME BaseInv, TakesPart, Startable
    PROVE  LET q == Input(slot[cur].task) IN
           /\ Kept(cur) \in Seq(Vocab \cup Media) /\ Len(Kept(cur)) \in Nat
           /\ Len(Kept(cur)) < Len(q) /\ Kept(cur) = SubSeq(q, 1, Len(Kept(cur)))
           /\ Len(Kept(cur)) <= Len(PromptOf(cur)) /\ Kept(cur) = SubSeq(PromptOf(cur), 1, Len(Kept(cur)))
           /\ ~ TooLarge(slot[cur].task)
  <1> DEFINE t == slot[cur].task
             q == Input(t)
  <1>1. t \in DOMAIN Requests /\ cur \in Slots /\ slot[cur].state \in {"STARTED", "PROCESSING_PROMPT"}
    BY TakesPartFacts
  <1>2. q \in Seq(Vocab \cup Media) /\ Len(q) \in Nat
    BY <1>1, RequestFacts DEF BaseInv, Types
  <1>3. PromptOf(cur) \in Seq(Vocab \cup Media) /\ Len(PromptOf(cur)) \in Nat
    BY <1>1, SlotFacts DEF BaseInv, PromptOf
  <1>4. CASE slot[cur].state = "STARTED"
    <2>1. q # <<>> /\ ~ TooLarge(t)
      BY <1>4 DEF Startable, TaskOf, Input
    <2>2. Len(q) > 0
      BY <2>1, <1>2, EmptySeq
    <2>3. PICK n : n = IF CanSplit(t) /\ Requests[t].cache_prompt THEN CommonPrefix(PromptOf(cur), q) ELSE 0
      OBVIOUS
    <2>4. n \in Nat /\ n <= Len(PromptOf(cur)) /\ n <= Len(q) /\ SubSeq(PromptOf(cur), 1, n) = SubSeq(q, 1, n)
      <3>1. SubSeq(PromptOf(cur), 1, 0) = <<>> /\ SubSeq(q, 1, 0) = <<>>
        BY SubSeqEmpty
      <3> QED
        BY <3>1, <2>3, <1>2, <1>3, CommonPrefixFacts, SMTT(20)
    <2>5. PICK m : m = IF n = Len(q) THEN n - 1 ELSE n
      OBVIOUS
    <2>6. m \in Nat /\ m < Len(q) /\ m <= n
      BY <2>2, <2>4, <2>5, <1>2
    <2>7. Kept(cur) = SubSeq(PromptOf(cur), 1, m)
      BY <1>4, <2>3, <2>5 DEF Kept, Reusable
    <2>8. m \in 0..Len(PromptOf(cur)) /\ m \in 0..Len(q) /\ n \in 0..Len(PromptOf(cur)) /\ n \in 0..Len(q)
      BY <2>4, <2>6, <1>2, <1>3
    <2>9. /\ Kept(cur) \in Seq(Vocab \cup Media) /\ Len(Kept(cur)) = m
          /\ \A i \in 1..m : Kept(cur)[i] = PromptOf(cur)[i]
      BY <2>7, <2>8, <1>3, PrefixFacts
    <2>10. /\ SubSeq(q, 1, m) \in Seq(Vocab \cup Media) /\ Len(SubSeq(q, 1, m)) = m
           /\ \A i \in 1..m : SubSeq(q, 1, m)[i] = q[i]
      BY <2>8, <1>2, PrefixFacts
    <2>11. \A i \in 1..n : PromptOf(cur)[i] = SubSeq(PromptOf(cur), 1, n)[i] /\ q[i] = SubSeq(q, 1, n)[i]
      BY <2>8, <1>2, <1>3, PrefixFacts
    <2>12. \A i \in 1..m : Kept(cur)[i] = SubSeq(q, 1, m)[i]
      <3> TAKE i \in 1..m
      <3>1. i \in 1..n
        BY <2>4, <2>6
      <3>2. PromptOf(cur)[i] = SubSeq(PromptOf(cur), 1, n)[i] /\ q[i] = SubSeq(q, 1, n)[i]
        BY <3>1, <2>11
      <3> HIDE DEF q
      <3> QED
        BY <3>2, <2>4, <2>9, <2>10
    <2>13. Kept(cur) = SubSeq(q, 1, m)
      BY <2>9, <2>10, <2>12, SeqEqual
    <2>14. Len(Kept(cur)) = m /\ m <= Len(PromptOf(cur)) /\ Kept(cur) = SubSeq(PromptOf(cur), 1, Len(Kept(cur)))
      BY <2>4, <2>6, <2>7, <2>9, <1>3
    <2> QED
      BY <2>1, <2>6, <2>9, <2>13, <2>14
  <1>5. CASE slot[cur].state = "PROCESSING_PROMPT"
    <2>1. /\ ~ TooLarge(t) /\ Len(PromptOf(cur)) < Len(q)
          /\ PromptOf(cur) = SubSeq(q, 1, Len(PromptOf(cur)))
      BY <1>1, <1>5 DEF BaseInv, StateInv
    <2>2. Kept(cur) = PromptOf(cur)
      BY <1>5 DEF Kept
    <2>3. PromptOf(cur) = SubSeq(PromptOf(cur), 1, Len(PromptOf(cur)))
      BY <1>3, SubSeqFull
    <2> QED
      BY <2>1, <2>2, <2>3, <1>3
  <1> QED
    BY <1>1, <1>4, <1>5

(* What FillPrompt takes: media up to TextStart, text up to FillEnd.       *)
TextStart == MediaEnd(cur)
FillEnd == Least(RunOf(Input(slot[cur].task), TextStart + 1, Vocab), TextStart + NBatch - Len(batch))
FillNew ==
    LET t == slot[cur].task IN
    [i \in 1..FillEnd - TextStart |->
        Token(cur, Input(t)[TextStart + i], TextStart + i - 1,
              NeedEmbd(t) \/ (FillEnd = Len(Input(t)) /\ TextStart + i = FillEnd))]

\* The bounds of what is taken.
LEMMA FillFacts ==
    ASSUME BaseInv, TakesPart, Startable
    PROVE  /\ TextStart \in Nat /\ Len(Kept(cur)) <= TextStart /\ FillEnd \in Nat /\ TextStart <= FillEnd
           /\ FillEnd <= Len(Input(slot[cur].task)) /\ FillEnd - TextStart <= NBatch - Len(batch)
           /\ \A i \in TextStart + 1..FillEnd : Input(slot[cur].task)[i] \in Vocab
           /\ FillNew \in Seq(BatchRec) /\ Len(FillNew) = FillEnd - TextStart
           /\ \A i \in 1..FillEnd - TextStart :
                 /\ FillNew[i].slot = cur /\ FillNew[i].pos = TextStart + i - 1
                 /\ FillNew[i].token = Input(slot[cur].task)[TextStart + i]
                 /\ FillEnd = Len(Input(slot[cur].task)) /\ TextStart + i = FillEnd => FillNew[i].output
           /\ TextStart < Len(Input(slot[cur].task)) => Input(slot[cur].task)[TextStart + 1] \notin Media
  <1> DEFINE t == slot[cur].task
             q == Input(t)
             k == Len(Kept(cur))
             text == TextStart
             run == RunOf(q, text + 1, Vocab)
  <1>1. t \in DOMAIN Requests /\ cur \in Slots
    BY TakesPartFacts
  <1>2. q \in Seq(Vocab \cup Media) /\ Len(q) \in Nat
    BY <1>1, RequestFacts DEF BaseInv, Types
  <1>3. k \in Nat /\ k < Len(q)
    BY KeptFacts
  <1>4. NBatch \in Nat /\ Len(batch) \in Nat /\ Len(batch) < NBatch
    BY SetupFacts, LenProperties DEF BaseInv, Types, TakesPart
  <1>5. text = RunOf(q, k + 1, Media)
    BY DEF TextStart, MediaEnd
  <1>6. FillEnd = IF run < text + NBatch - Len(batch) THEN run ELSE text + NBatch - Len(batch)
    BY DEF FillEnd, Least
  <1> HIDE DEF q, k, text
  <1>7. text \in Nat /\ k <= text /\ text <= Len(q) /\ (text < Len(q) => q[text + 1] \notin Media)
    <2>1. k + 1 \in 1..Len(q) + 1
      BY <1>2, <1>3
    <2>2. /\ RunOf(q, k + 1, Media) \in Nat /\ k + 1 - 1 <= RunOf(q, k + 1, Media) /\ RunOf(q, k + 1, Media) <= Len(q)
          /\ RunOf(q, k + 1, Media) < Len(q) => q[RunOf(q, k + 1, Media) + 1] \notin Media
      <3>1. \A f \in 1..Len(q) + 1 :
              /\ RunOf(q, f, Media) \in Nat /\ f - 1 <= RunOf(q, f, Media) /\ RunOf(q, f, Media) <= Len(q)
              /\ RunOf(q, f, Media) < Len(q) => q[RunOf(q, f, Media) + 1] \notin Media
        BY <1>2, RunOfFacts
      <3> QED
        BY <2>1, <3>1, <1>2, <1>3
    <2> QED
      BY <2>2, <1>3, <1>5
  <1>8. run \in Nat /\ text <= run /\ run <= Len(q) /\ \A i \in text + 1..run : q[i] \in Vocab
    <2>1. text + 1 \in 1..Len(q) + 1
      BY <1>2, <1>7
    <2>2. /\ RunOf(q, text + 1, Vocab) \in Nat /\ text + 1 - 1 <= RunOf(q, text + 1, Vocab)
          /\ RunOf(q, text + 1, Vocab) <= Len(q)
          /\ \A i \in text + 1..RunOf(q, text + 1, Vocab) : q[i] \in Vocab
      <3>1. \A f \in 1..Len(q) + 1 :
              /\ RunOf(q, f, Vocab) \in Nat /\ f - 1 <= RunOf(q, f, Vocab) /\ RunOf(q, f, Vocab) <= Len(q)
              /\ \A i \in f..RunOf(q, f, Vocab) : q[i] \in Vocab
        BY <1>2, RunOfFacts
      <3> QED
        BY <2>1, <3>1, <1>2, <1>7
    <2> QED
      BY <2>2, <1>7 DEF run
  <1> HIDE DEF run
  <1>9. /\ FillEnd \in Nat /\ text <= FillEnd /\ FillEnd <= run /\ FillEnd - text <= NBatch - Len(batch)
        /\ FillEnd - text \in Nat
    BY <1>4, <1>6, <1>7, <1>8
  <1>10. \A i \in text + 1..FillEnd : q[i] \in Vocab
    BY <1>7, <1>8, <1>9
  <1>11. ASSUME NEW i \in 1..FillEnd - text
         PROVE  Token(cur, q[text + i], text + i - 1, NeedEmbd(t) \/ (FillEnd = Len(q) /\ text + i = FillEnd)) \in BatchRec
    <2>1. text + i \in text + 1..FillEnd /\ text + i - 1 \in Nat
      BY <1>7, <1>9
    <2>2. (NeedEmbd(t) \/ (FillEnd = Len(q) /\ text + i = FillEnd)) \in BOOLEAN
      BY DEF NeedEmbd
    <2> QED
      BY <2>1, <2>2, <1>1, <1>10 DEF Token, BatchRec
  <1>12. FillNew = [i \in 1..FillEnd - text |->
                      Token(cur, q[text + i], text + i - 1, NeedEmbd(t) \/ (FillEnd = Len(q) /\ text + i = FillEnd))]
    BY DEF FillNew, q, text
  <1>13. FillNew \in [1..FillEnd - text -> BatchRec]
    BY <1>11, <1>12
  <1>14. FillNew \in Seq(BatchRec) /\ Len(FillNew) = FillEnd - text
    BY <1>9, <1>13, FunctionIsSeq
  <1>15. \A i \in 1..FillEnd - text :
            /\ FillNew[i].slot = cur /\ FillNew[i].pos = text + i - 1 /\ FillNew[i].token = q[text + i]
            /\ FillEnd = Len(q) /\ text + i = FillEnd => FillNew[i].output
    BY <1>12 DEF Token
  <1> QED
    BY <1>3, <1>7, <1>8, <1>9, <1>10, <1>14, <1>15, <1>2 DEF q, k, text

-----------------------------------------------------------------------------
\* A media chunk cannot be processed: the request ends with what was decoded.
LEMMA BaseMediaFails == ASSUME BaseInv, MediaFails PROVE BaseInv'
  <1>1. /\ phase = "prompt" /\ TakesPart /\ Startable /\ setup' = setup /\ launched' = launched /\ UNCHANGED batchVars
        /\ answer' = Send(slot[cur].task, "error") /\ Advance /\ NextPhase("decode")
    BY DEF MediaFails
  <1>2. PICK n \in Len(Kept(cur))..MediaEnd(cur) - 1 :
            slot' = [slot EXCEPT ![cur] = Released([@ EXCEPT !.prompt = SubSeq(Input(slot[cur].task), 1, n)])]
    BY DEF MediaFails
  <1> DEFINE held == SubSeq(Input(slot[cur].task), 1, n)
             r == [slot[cur] EXCEPT !.prompt = held]
  <1>3. cur \in Slots /\ slot[cur] \in SlotRec /\ slot \in [Slots -> SlotRec]
    BY SlotFacts DEF BaseInv, Types
  <1>4. held \in Seq(Vocab \cup Media)
    <2>1. /\ Len(Kept(cur)) \in Nat /\ TextStart \in Nat /\ TextStart <= FillEnd /\ FillEnd \in Nat
          /\ FillEnd <= Len(Input(slot[cur].task))
      BY <1>1, KeptFacts, FillFacts
    <2>2. Input(slot[cur].task) \in Seq(Vocab \cup Media) /\ Len(Input(slot[cur].task)) \in Nat
      BY <1>1, TakesPartFacts, RequestFacts DEF BaseInv, Types
    <2>3. n \in 0..Len(Input(slot[cur].task))
      BY <2>1, <2>2 DEF TextStart
    <2> QED
      BY <2>2, <2>3, PrefixFacts
  <1> HIDE DEF held
  <1>5. r \in SlotRec /\ slot' = [slot EXCEPT ![cur] = Released(r)]
    BY <1>2, <1>3, <1>4 DEF SlotRec, held
  <1> HIDE DEF r
  <1>6. Released(r) \in SlotRec /\ Released(r).state = "IDLE" /\ Released(r).task = NoTask
    BY <1>5, ReleasedFacts
  <1>7. "error" \in Results
    BY DEF Results
  <1> QED
    BY <1>1, <1>4, <1>5, <1>6, <1>7, BaseEndPrompt

\* An input that cannot be split waits for a batch with room for it.
LEMMA BasePostpone == ASSUME BaseInv, Postpone PROVE BaseInv'
  <1>1. /\ phase = "prompt" /\ TakesPart /\ Startable /\ setup' = setup /\ launched' = launched /\ UNCHANGED batchVars
        /\ answer' = answer /\ kv' = kv /\ Advance /\ NextPhase("decode")
        /\ slot' = [slot EXCEPT ![cur].state = "PROCESSING_PROMPT", ![cur].prompt = Kept(cur)]
    BY DEF Postpone
  <1>2. /\ cur \in Slots /\ slot[cur] \in SlotRec /\ slot \in [Slots -> SlotRec]
        /\ slot[cur].state \in {"STARTED", "PROCESSING_PROMPT"} /\ ~ IsChild(slot[cur].task)
    BY <1>1, TakesPartFacts, SlotFacts DEF BaseInv, Types
  <1>3. /\ Kept(cur) \in Seq(Vocab \cup Media) /\ ~ TooLarge(slot[cur].task)
        /\ Len(Kept(cur)) < Len(Input(slot[cur].task)) /\ Kept(cur) = SubSeq(Input(slot[cur].task), 1, Len(Kept(cur)))
    BY <1>1, KeptFacts
  <1>4. /\ slot' \in [Slots -> SlotRec] /\ \A s \in Slots \ {cur} : slot'[s] = slot[s]
        /\ slot'[cur].state = "PROCESSING_PROMPT" /\ slot'[cur].prompt = Kept(cur) /\ slot'[cur].task = slot[cur].task
    BY <1>1, <1>2, <1>3 DEF SlotRec, States
  <1>5. TaskInv'
    BY <1>1, <1>2, <1>4, TaskFrame
  <1>6. FillInv' /\ BatchInv'
    BY <1>1, <1>2, <1>4, PromptAside
  <1>7. ASSUME NEW s \in Slots, s = cur PROVE StateInv(s)'
    BY <1>1, <1>2, <1>3, <1>4, <1>7
       DEF StateInv, PromptOf, TooLarge, CanSplit, NeedEmbd, Input, IsChild, Requests, NCtx, NUBatch
  <1>8. \A s \in Slots : StateInv(s)'
    BY <1>1, <1>4, <1>7, StateFrame DEF BaseInv
  <1>9. Types'
    <2>1. cur' \in Slots /\ phase' \in {"prompt", "decode"}
      BY <1>1, AdvanceFacts DEF BaseInv
    <2> QED
      BY <2>1, <1>1, <1>4, TypesFrame DEF BaseInv, Types, batchVars, Results
  <1>10. Slots' = Slots
    BY <1>1 DEF Slots, NSlots
  <1> QED
    BY <1>5, <1>6, <1>8, <1>9, <1>10 DEF BaseInv

\* What FillPrompt does, in terms of what it takes.
LEMMA FillEffect ==
    ASSUME BaseInv, FillPrompt
    PROVE  LET t == slot[cur].task
               done == FillEnd = Len(Input(t)) IN
           /\ phase = "prompt" /\ TakesPart /\ Startable /\ setup' = setup /\ launched' = launched
           /\ answer' = answer /\ off' = off /\ nbatch' = nbatch /\ Advance /\ NextPhase("decode")
           /\ head' = (IF head = 0 THEN cur ELSE head)
           /\ batch' = batch \o FillNew
           /\ slot' \in [Slots -> SlotRec] /\ \A s \in Slots \ {cur} : slot'[s] = slot[s]
           /\ slot'[cur].state = (IF done THEN "DONE_PROMPT" ELSE "PROCESSING_PROMPT")
           /\ slot'[cur].task = t /\ slot'[cur].prompt = SubSeq(Input(t), 1, FillEnd)
           /\ done => slot'[cur].ibatch = Len(batch \o FillNew) - 1
           /\ kv' = [kv EXCEPT ![cur] = Trimmed(cur) \o SubSeq(Input(t), Len(Kept(cur)) + 1, TextStart)]
  <1> DEFINE t == slot[cur].task
             q == Input(t)
             k == Len(Kept(cur))
             done == FillEnd = Len(q)
             added == SubSeq(q, k + 1, TextStart)
             prompt == Kept(cur) \o SubSeq(q, k + 1, FillEnd)
  <1>1. /\ phase = "prompt" /\ TakesPart /\ Startable /\ setup' = setup /\ launched' = launched
        /\ answer' = answer /\ off' = off /\ nbatch' = nbatch /\ Advance /\ NextPhase("decode")
        /\ head' = (IF head = 0 THEN cur ELSE head)
        /\ batch' = batch \o FillNew
    BY DEF FillPrompt, FillNew, FillEnd, TextStart
  <1>2. kv' = [kv EXCEPT ![cur] = Trimmed(cur) \o added]
    BY DEF FillPrompt, TextStart
  <1>3. slot' = [slot EXCEPT ![cur].prompt = prompt,
                             ![cur].state = IF done THEN "DONE_PROMPT" ELSE "PROCESSING_PROMPT",
                             ![cur].ibatch = IF done THEN Len(batch') - 1 ELSE @,
                             ![cur].ngen = IF done THEN 0 ELSE @]
    BY DEF FillPrompt, FillEnd, TextStart
  <1>4. /\ cur \in Slots /\ slot[cur] \in SlotRec /\ slot \in [Slots -> SlotRec] /\ t \in DOMAIN Requests
        /\ q \in Seq(Vocab \cup Media) /\ Len(q) \in Nat
    BY <1>1, TakesPartFacts, RequestFacts, SlotFacts DEF BaseInv, Types
  <1>5. /\ Kept(cur) \in Seq(Vocab \cup Media) /\ k \in Nat /\ k < Len(q) /\ Kept(cur) = SubSeq(q, 1, k)
        /\ TextStart \in Nat /\ k <= TextStart /\ FillEnd \in Nat /\ TextStart <= FillEnd /\ FillEnd <= Len(q)
    BY <1>1, KeptFacts, FillFacts
  <1> HIDE DEF q, k
  <1>6. prompt = SubSeq(q, 1, FillEnd) /\ prompt \in Seq(Vocab \cup Media)
    <2>1. 1 \in 1..Len(q) + 1 /\ k \in 1 - 1..Len(q) /\ FillEnd \in k..Len(q) /\ FillEnd \in 0..Len(q)
      BY <1>4, <1>5
    <2>2. SubSeq(q, 1, k) \o SubSeq(q, k + 1, FillEnd) = SubSeq(q, 1, FillEnd)
      BY <2>1, <1>4, ConcatAdjacentSubSeq
    <2>3. SubSeq(q, 1, FillEnd) \in Seq(Vocab \cup Media)
      BY <2>1, <1>4, PrefixFacts
    <2> QED
      BY <2>2, <2>3, <1>5
  <1>7. batch' \in Seq(BatchRec) /\ Len(batch') \in Nat
    <2>1. batch \in Seq(BatchRec) /\ FillNew \in Seq(BatchRec)
      BY <1>1, FillFacts DEF BaseInv, Types
    <2> QED
      BY <2>1, <1>1, ConcatProperties, LenProperties
  <1> HIDE DEF prompt, added, done
  <1>8. /\ slot' \in [Slots -> SlotRec] /\ \A s \in Slots \ {cur} : slot'[s] = slot[s]
        /\ slot'[cur].state = (IF done THEN "DONE_PROMPT" ELSE "PROCESSING_PROMPT")
        /\ slot'[cur].task = t /\ slot'[cur].prompt = prompt
        /\ done => slot'[cur].ibatch = Len(batch') - 1
    <2>1. PICK st, ib, ng : /\ st = IF done THEN "DONE_PROMPT" ELSE "PROCESSING_PROMPT"
                            /\ ib = IF done THEN Len(batch') - 1 ELSE slot[cur].ibatch
                            /\ ng = IF done THEN 0 ELSE slot[cur].ngen
      OBVIOUS
    <2>2. st \in States /\ ib \in Int /\ ng \in Nat
      BY <2>1, <1>4, <1>7 DEF SlotRec, States
    <2>3. slot' = [slot EXCEPT ![cur] = [slot[cur] EXCEPT !.prompt = prompt, !.state = st, !.ibatch = ib, !.ngen = ng]]
      BY <2>1, <1>3, <1>4
    <2>4. [slot[cur] EXCEPT !.prompt = prompt, !.state = st, !.ibatch = ib, !.ngen = ng] \in SlotRec
      BY <2>2, <1>4, <1>6 DEF SlotRec
    <2> QED
      BY <2>1, <2>3, <2>4, <1>4 DEF SlotRec
  <1> QED
    BY <1>1, <1>2, <1>6, <1>8 DEF q, k, done, added

\* A slot joins the batch with the next part of its prompt.
LEMMA BaseFillPrompt == ASSUME BaseInv, FillPrompt PROVE BaseInv'
  <1> DEFINE t == slot[cur].task
             n == Len(batch)
             m == Len(FillNew)
  <1>1. /\ phase = "prompt" /\ TakesPart /\ Startable /\ setup' = setup /\ launched' = launched
        /\ answer' = answer /\ off' = off /\ nbatch' = nbatch /\ Advance /\ NextPhase("decode")
        /\ head' = (IF head = 0 THEN cur ELSE head)
        /\ batch' = batch \o FillNew
        /\ slot' \in [Slots -> SlotRec] /\ (\A s \in Slots \ {cur} : slot'[s] = slot[s])
        /\ slot'[cur].state = (IF FillEnd = Len(Input(t)) THEN "DONE_PROMPT" ELSE "PROCESSING_PROMPT")
        /\ slot'[cur].task = t /\ slot'[cur].prompt = SubSeq(Input(t), 1, FillEnd)
    BY FillEffect
  <1>2. /\ cur \in Slots /\ slot[cur].state \in {"STARTED", "PROCESSING_PROMPT"} /\ ~ IsChild(t)
        /\ cur \in Nat /\ NBatch \in Nat /\ NSlots \in Nat /\ t \in DOMAIN Requests
    BY <1>1, TakesPartFacts, SetupFacts DEF BaseInv, Types, Slots
  <1>3. /\ TextStart \in Nat /\ FillEnd \in Nat /\ TextStart <= FillEnd
        /\ FillEnd <= Len(Input(t)) /\ m = FillEnd - TextStart /\ m <= NBatch - n
        /\ FillNew \in Seq(BatchRec) /\ \A i \in 1..m : FillNew[i].slot = cur /\ FillNew[i].pos = TextStart + i - 1
    BY <1>1, FillFacts
  <1>4. batch \in Seq(BatchRec) /\ n \in Nat /\ m \in Nat
    BY <1>3, LenProperties DEF BaseInv, Types
  <1>5. /\ batch' \in Seq(BatchRec) /\ Len(batch') = n + m
        /\ \A i \in 1..n + m : batch'[i] = IF i <= n THEN batch[i] ELSE FillNew[i - n]
    BY <1>1, <1>3, <1>4, ConcatProperties
  <1>6. Slots' = Slots /\ NBatch' = NBatch /\ Requests' = Requests /\ BatchRec' = BatchRec
    BY <1>1 DEF Slots, NSlots, NBatch, Requests, BatchRec
  <1>7. /\ off = 0 /\ nbatch = NBatch /\ (head = 0 => n = 0)
        /\ head # 0 => Processing(head) /\ (head < cur \/ slot[head].state = "GENERATING") /\ CanBatchWith(head, cur)
        /\ \A i \in 1..n :
              LET s == batch[i].slot IN
              Processing(s) /\ CanBatchWith(head, s) /\ (s < cur \/ slot[s].state = "GENERATING")
    BY <1>1, EmptySeq DEF BaseInv, FillInv, TakesPart
  <1>8. TaskInv'
    <2>1. \A s \in Slots : slot'[s].task = slot[s].task /\ (slot'[s].state = "IDLE" <=> slot[s].state = "IDLE")
      BY <1>1, <1>2
    <2> QED
      BY <2>1, <1>1, TaskFrame
  <1>9. \A s \in Slots : StateInv(s)'
    <2>1. ASSUME NEW s \in Slots, s = cur PROVE StateInv(s)'
      <3>1. /\ Input(t) \in Seq(Vocab \cup Media) /\ Len(Input(t)) \in Nat /\ ~ TooLarge(t)
        BY <1>1, <1>2, RequestFacts, KeptFacts DEF BaseInv, Types
      <3>2. Len(SubSeq(Input(t), 1, FillEnd)) = FillEnd
        <4>1. FillEnd \in 0..Len(Input(t))
          BY <3>1, <1>3
        <4> QED
          BY <4>1, <3>1, PrefixFacts
      <3>3. /\ PromptOf(s)' = SubSeq(Input(t), 1, FillEnd) /\ (slot[s].task)' = t
            /\ (slot[s].state)' = IF FillEnd = Len(Input(t)) THEN "DONE_PROMPT" ELSE "PROCESSING_PROMPT"
        BY <2>1, <1>1 DEF PromptOf
      <3>4. TooLarge(t) <=> TooLarge(slot[s].task)'
        BY <3>3, <1>1 DEF TooLarge, CanSplit, NeedEmbd, Input, Requests, NCtx, NUBatch
      <3>5. Input(slot[s].task)' = Input(t)
        BY <3>3, <1>6 DEF Input
      <3>6. ~ IsChild(slot[s].task)'
        BY <3>3, <1>2, <1>6 DEF IsChild
      <3> HIDE DEF t
      <3>7. FillEnd # Len(Input(t)) => FillEnd < Len(Input(t))
        BY <3>1, <1>3
      <3> QED
        BY <3>1, <3>2, <3>3, <3>4, <3>5, <3>6, <3>7 DEF StateInv
    <2>2. ASSUME NEW s \in Slots, s # cur PROVE StateInv(s)'
      BY <2>2, <1>1, StateFrame DEF BaseInv
    <2> QED
      BY <2>1, <2>2
  <1>10. ASSUME NEW i \in 1..n + m
         PROVE  /\ batch'[i].slot \in Slots
                /\ batch'[i].slot = cur => i > n /\ batch'[i].pos = TextStart + (i - n) - 1
                /\ batch'[i].slot # cur => i <= n
                /\ i <= n => batch'[i] = batch[i] /\ batch[i].slot \in Slots /\ batch[i].slot # cur
    <2>1. CASE i <= n
      <3>1. i \in 1..n /\ batch'[i] = batch[i]
        BY <2>1, <1>4, <1>5
      <3>2. batch[i].slot \in Slots
        BY <3>1, EntryFacts DEF BaseInv
      <3>3. batch[i].slot # cur
        BY <3>1, <1>2, <1>7
      <3> QED
        BY <3>1, <3>2, <3>3, <2>1
    <2>2. CASE i > n
      <3>1. i - n \in 1..m /\ batch'[i] = FillNew[i - n]
        BY <2>2, <1>4, <1>5
      <3> QED
        BY <3>1, <2>2, <1>2, <1>3, <1>4
    <2> QED
      BY <2>1, <2>2, <1>4
  <1>11. ASSUME NEW i \in 1..n + m
         PROVE  LET s == batch'[i].slot
                    h == head' IN
                /\ slot'[s].state \notin {"IDLE", "STARTED", "WAIT_OTHER"}
                /\ Requests[slot'[h].task].type = Requests[slot'[s].task].type
                /\ s < cur \/ s = cur \/ slot'[s].state = "GENERATING"
    <2> DEFINE s == batch'[i].slot
    <2>1. head # 0 => slot'[head].task = slot[head].task
      <3>1. head \in Slots \cup {0}
        BY DEF BaseInv, Types
      <3> QED
        BY <3>1, <1>1
    <2>2. CASE s = cur
      <3>1. slot'[cur].state \in {"DONE_PROMPT", "PROCESSING_PROMPT"} /\ slot'[cur].task = t
        BY <1>1
      <3>2. CASE head = 0
        BY <3>1, <3>2, <2>2, <1>1
      <3>3. CASE head # 0
        BY <3>1, <3>3, <2>1, <2>2, <1>1, <1>7 DEF CanBatchWith
      <3> QED
        BY <3>2, <3>3
    <2>3. CASE s # cur
      <3>1. i <= n /\ batch'[i] = batch[i] /\ s \in Slots
        BY <2>3, <1>10
      <3>2. i \in 1..n
        BY <3>1, <1>4
      <3>3. head # 0
        BY <3>2, <1>7
      <3>4. slot'[s] = slot[s]
        BY <3>1, <2>3, <1>1
      <3>5. Processing(s) /\ CanBatchWith(head, s) /\ (s < cur \/ slot[s].state = "GENERATING")
        BY <3>1, <3>2, <1>7
      <3>6. slot[s].state \notin {"STARTED", "WAIT_OTHER"}
        BY <3>1, <3>2, <1>1 DEF BaseInv, BatchInv, Busy
      <3> QED
        BY <3>3, <3>4, <3>5, <3>6, <2>1, <1>1 DEF Processing, CanBatchWith
    <2> QED
      BY <2>2, <2>3
  <1>12. FillInv'
    <2> SUFFICES ASSUME phase' = "prompt" PROVE FillInv'
      BY DEF FillInv
    <2>1. cur' = cur + 1
      BY <1>1, AdvanceFacts DEF BaseInv
    <2>2. head' # 0 /\ slot'[head'].state # "IDLE" /\ (head' < cur' \/ slot'[head'].state = "GENERATING")
      <3>1. CASE head = 0
        <4>1. cur # 0 /\ head' = cur /\ cur < cur'
          BY <3>1, <2>1, <1>1, <1>2 DEF Slots
        <4>2. slot'[cur].state # "IDLE"
          BY <1>1
        <4> QED
          BY <4>1, <4>2
      <3>2. CASE head # 0
        <4>1. head' = head /\ head \in Slots /\ head # cur /\ head \in Nat
          BY <3>2, <1>1, <1>2, <1>7 DEF BaseInv, Types, Slots
        <4>2. slot'[head] = slot[head]
          BY <4>1, <1>1
        <4> QED
          BY <4>1, <4>2, <3>2, <2>1, <1>2, <1>7 DEF Processing
      <3> QED
        BY <3>1, <3>2
    <2>3. \A i \in 1..Len(batch') : batch'[i].slot < cur' \/ slot'[batch'[i].slot].state = "GENERATING"
      <3> TAKE i \in 1..Len(batch')
      <3>1. i \in 1..n + m
        BY <1>5
      <3>2. batch'[i].slot \in Nat
        BY <3>1, <1>10 DEF Slots
      <3> QED
        BY <3>1, <3>2, <2>1, <1>2, <1>11
    <2> QED
      BY <2>2, <2>3, <1>1, <1>5, <1>6, <1>7, <1>11 DEF FillInv, Processing, CanBatchWith
  <1>13. BatchInv'
    <2>1. Len(batch') <= NBatch'
      BY <1>2, <1>3, <1>4, <1>5, <1>6
    <2>2. ASSUME NEW i \in 1..n + m, NEW j \in 1..n + m, i < j, batch'[i].slot = batch'[j].slot
          PROVE  batch'[i].pos < batch'[j].pos
      <3>1. CASE batch'[i].slot = cur
        <4>1. batch'[i].pos = TextStart + (i - n) - 1 /\ batch'[j].pos = TextStart + (j - n) - 1
          BY <3>1, <2>2, <1>10
        <4> QED
          BY <4>1, <2>2, <1>3, <1>4
      <3>2. CASE batch'[i].slot # cur
        <4>1. i <= n /\ j <= n /\ batch'[i] = batch[i] /\ batch'[j] = batch[j]
          BY <3>2, <2>2, <1>10
        <4>2. i \in 1..n /\ j \in 1..n
          BY <4>1, <1>4
        <4> QED
          BY <4>1, <4>2, <2>2, <1>1 DEF BaseInv, BatchInv, Busy
      <3> QED
        BY <3>1, <3>2
    <2> QED
      BY <2>1, <2>2, <1>5, <1>6, <1>11 DEF BatchInv, CanBatchWith
  <1>14. Types'
    <2>1. cur' \in Slots /\ phase' \in {"prompt", "decode"}
      BY <1>1, AdvanceFacts DEF BaseInv
    <2>2. head' \in Slots \cup {0} /\ off' \in 0..Len(batch')
      BY <1>1, <1>2, <1>4, <1>5, <1>7 DEF BaseInv, Types
    <2> QED
      BY <2>1, <2>2, <1>1, <1>5, <1>6 DEF BaseInv, Types
  <1> QED
    BY <1>6, <1>8, <1>9, <1>12, <1>13, <1>14 DEF BaseInv

-----------------------------------------------------------------------------
\* A family is given to idle slots.
LEMMA BaseLaunchFamily == ASSUME BaseInv, NEW t \in DOMAIN Requests, LaunchFamily(t) PROVE BaseInv'
  <1>1. PICK place \in [Family(t) -> {s \in Slots : ~ Processing(s)}] :
            /\ \A u, v \in Family(t) : place[u] = place[v] => u = v
            /\ slot' = [s \in Slots |->
                  IF \E u \in Family(t) : place[u] = s
                  THEN LaunchSlot(slot[s], CHOOSE u \in Family(t) : place[u] = s) ELSE slot[s]]
    BY DEF LaunchFamily
  <1>2. /\ phase = "wait" /\ phase' = phase /\ t \notin launched /\ ~ IsChild(t) /\ launched' = launched \cup Family(t)
        /\ setup' = setup /\ UNCHANGED batchVars /\ cur' = cur /\ answer' = answer
    BY DEF LaunchFamily
  <1>3. Slots' = Slots /\ Requests' = Requests /\ \A u : Parent(u)' = Parent(u) /\ IsChild(u)' = IsChild(u)
    BY <1>2 DEF Slots, NSlots, Requests, Parent, IsChild
  <1>4. DOMAIN Requests \subseteq Tasks /\ NoTask \notin Tasks /\ slot \in [Slots -> SlotRec]
    BY SetupFacts DEF BaseInv, Types
  <1>5. Family(t) \subseteq DOMAIN Requests /\ t \in Family(t) /\ \A u \in Family(t) : Parent(u) = t /\ u \notin launched
    <2>1. Parent(t) = t
      BY <1>2 DEF IsChild, Parent
    <2> QED
      BY <2>1, <1>2 DEF Family, BaseInv, TaskInv
  <1>6. ASSUME NEW s \in Slots, \E u \in Family(t) : place[u] = s
        PROVE  \E u \in Family(t) : /\ place[u] = s /\ slot[s].state = "IDLE"
                                    /\ slot'[s] = [slot[s] EXCEPT !.state = IF IsChild(u) THEN "WAIT_OTHER" ELSE "STARTED", !.task = u]
    <2>1. PICK u \in Family(t) : u = CHOOSE v \in Family(t) : place[v] = s
      BY <1>6
    <2>2. place[u] = s
      BY <2>1, <1>6
    <2>3. slot'[s] = LaunchSlot(slot[s], u)
      BY <2>1, <1>1, <1>6
    <2>4. slot[s].state = "IDLE"
      BY <2>2, <1>1 DEF Processing
    <2> QED
      BY <2>2, <2>3, <2>4 DEF LaunchSlot
  <1>7. ASSUME NEW s \in Slots, ~ \E u \in Family(t) : place[u] = s PROVE slot'[s] = slot[s]
    BY <1>1, <1>7
  <1>8. ASSUME NEW s \in Slots
        PROVE  \/ slot'[s] = slot[s]
               \/ \E u \in Family(t) :
                     /\ place[u] = s /\ slot'[s] \in SlotRec /\ slot'[s].task = u /\ slot[s].state = "IDLE"
                     /\ slot'[s].state = IF IsChild(u) THEN "WAIT_OTHER" ELSE "STARTED"
    <2>1. CASE \E u \in Family(t) : place[u] = s
      <3>1. PICK u \in Family(t) : /\ place[u] = s /\ slot[s].state = "IDLE"
                                   /\ slot'[s] = [slot[s] EXCEPT !.state = IF IsChild(u) THEN "WAIT_OTHER" ELSE "STARTED", !.task = u]
        BY <2>1, <1>6
      <3>2. u \in Tasks /\ slot[s] \in SlotRec
        BY <1>4, <1>5
      <3>3. slot'[s] \in SlotRec /\ slot'[s].task = u /\ slot'[s].state = IF IsChild(u) THEN "WAIT_OTHER" ELSE "STARTED"
        BY <3>1, <3>2 DEF SlotRec, States
      <3> QED
        BY <3>1, <3>3
    <2>2. CASE ~ \E u \in Family(t) : place[u] = s
      BY <2>2, <1>7
    <2> QED
      BY <2>1, <2>2
  <1>9. Types'
    <2>1. slot' \in [Slots -> SlotRec]
      <3>1. \A s \in Slots : slot'[s] \in SlotRec
        BY <1>4, <1>8
      <3>2. slot' = [s \in Slots |-> slot'[s]]
        BY <1>1
      <3> QED
        BY <3>1, <3>2
    <2>2. launched' \subseteq Tasks
      BY <1>2, <1>4, <1>5 DEF BaseInv, Types
    <2> QED
      BY <2>1, <2>2, <1>2, TypesFrame DEF BaseInv, Types, batchVars, Results
  <1>10. TaskInv'
    <2>1. launched' \subseteq DOMAIN Requests /\ \A u \in launched' : Parent(u) \in launched'
      BY <1>2, <1>5 DEF BaseInv, TaskInv
    <2>2. ASSUME NEW s \in Slots
          PROVE  /\ slot'[s].state = "IDLE" <=> slot'[s].task = NoTask
                 /\ slot'[s].task # NoTask => slot'[s].task \in launched' /\ answer[slot'[s].task] = <<>>
      <3>1. CASE slot'[s] = slot[s]
        BY <3>1, <1>2 DEF BaseInv, TaskInv
      <3>2. ASSUME NEW u \in Family(t), slot'[s].task = u, slot'[s].state = IF IsChild(u) THEN "WAIT_OTHER" ELSE "STARTED"
            PROVE  /\ slot'[s].state # "IDLE" /\ slot'[s].task # NoTask
                   /\ slot'[s].task \in launched' /\ answer[slot'[s].task] = <<>>
        BY <3>2, <1>2, <1>4, <1>5 DEF BaseInv, TaskInv
      <3> QED
        BY <3>1, <3>2, <1>8
    <2>3. ASSUME NEW s \in Slots, NEW r \in Slots, slot'[s].task = slot'[r].task, slot'[s].task # NoTask PROVE s = r
      <3>1. CASE slot'[s] = slot[s] /\ slot'[r] = slot[r]
        BY <3>1, <2>3 DEF BaseInv, TaskInv
      <3>2. \A u \in Slots : slot'[u] = slot[u] /\ slot[u].task # NoTask => slot'[u].task \in launched
        BY DEF BaseInv, TaskInv
      <3>3. \A u \in Slots : slot'[u] # slot[u] => slot'[u].task \notin launched /\ slot'[u].task \in Family(t) /\ place[slot'[u].task] = u
        BY <1>5, <1>8
      <3>4. CASE slot'[s] # slot[s]
        <4>1. slot'[r] # slot[r]
          BY <3>2, <3>3, <3>4, <2>3
        <4> QED
          BY <4>1, <3>3, <3>4, <2>3
      <3>5. CASE slot'[r] # slot[r]
        <4>1. slot'[s] # slot[s]
          BY <3>2, <3>3, <3>5, <2>3
        <4> QED
          BY <4>1, <3>3, <3>5, <2>3
      <3> QED
        BY <3>1, <3>4, <3>5
    <2>4. \A u \in Tasks : answer[u] # <<>> => u \in launched' /\ Len(answer[u]) = 1
      BY <1>2 DEF BaseInv, TaskInv
    <2> QED
      BY <2>1, <2>2, <2>3, <2>4, <1>2, <1>3 DEF TaskInv
  <1>11. ASSUME NEW s \in Slots PROVE StateInv(s)'
    <2>1. CASE slot'[s] = slot[s]
      BY <2>1, <1>2, StateFrame DEF BaseInv
    <2>2. ASSUME NEW u \in Family(t), slot'[s].task = u, slot'[s].state = IF IsChild(u) THEN "WAIT_OTHER" ELSE "STARTED"
          PROVE  StateInv(s)'
      BY <2>2, <1>3 DEF StateInv, IsChild
    <2> QED
      BY <2>1, <2>2, <1>8
  <1>12. FillInv' /\ BatchInv'
    BY <1>2 DEF FillInv, BatchInv, Busy
  <1> QED
    BY <1>3, <1>9, <1>10, <1>11, <1>12 DEF BaseInv

-----------------------------------------------------------------------------
\* Slots are released, all with the same kind of answer.
LEMMA SlotsReleased ==
    ASSUME BaseInv, setup' = setup, launched' = launched, NEW R \in SUBSET Slots, NEW x \in Results,
           slot' \in [Slots -> SlotRec],
           \A s \in R : Processing(s) /\ slot'[s].state = "IDLE" /\ slot'[s].task = NoTask,
           \A s \in Slots \ R : slot'[s] = slot[s],
           answer' = [t \in Tasks |-> IF \E s \in R : slot[s].task = t THEN Append(answer[t], x) ELSE answer[t]]
    PROVE  TaskInv' /\ (\A s \in Slots : StateInv(s)') /\ answer' \in [Tasks -> Seq(Results)]
  <1>1. answer \in [Tasks -> Seq(Results)]
    BY DEF BaseInv, Types, Results
  <1>2. answer' \in [Tasks -> Seq(Results)]
    <2>1. \A t \in Tasks : Append(answer[t], x) \in Seq(Results)
      BY <1>1, AppendProperties
    <2> QED
      BY <2>1, <1>1
  <1>3. TaskInv'
    <2>1. \A t \in Tasks : answer'[t] = IF \E s \in R : slot[s].task = t THEN Append(answer[t], x) ELSE answer[t]
      OBVIOUS
    <2>2. \A s \in Slots \ R : slot'[s].task = slot[s].task /\ (slot'[s].state = "IDLE" <=> slot[s].state = "IDLE")
      OBVIOUS
    <2> QED
      BY <2>1, <2>2, TaskRelease
  <1>4. ASSUME NEW s \in Slots PROVE StateInv(s)'
    <2>1. CASE s \in R
      BY <2>1, StateIdle
    <2>2. CASE s \notin R
      BY <2>2, StateFrame DEF BaseInv
    <2> QED
      BY <2>1, <2>2
  <1> QED
    BY <1>2, <1>3, <1>4

\* A family is cancelled.
LEMMA BaseCancelFamily == ASSUME BaseInv, NEW t, CancelFamily(t) PROVE BaseInv'
  <1>1. /\ phase = "wait" /\ phase' = phase /\ setup' = setup /\ UNCHANGED batchVars /\ cur' = cur /\ launched' = launched
        /\ slot' = [s \in Slots |-> IF s \in Cancelled(t) THEN Released(slot[s]) ELSE slot[s]]
        /\ answer' = [u \in Tasks |->
              IF \E s \in Cancelled(t) : slot[s].task = u THEN Append(answer[u], "cancelled") ELSE answer[u]]
    BY DEF CancelFamily
  <1>2. Cancelled(t) \subseteq Slots /\ \A s \in Cancelled(t) : Processing(s)
    BY DEF Cancelled
  <1>3. \A s \in Slots : slot[s] \in SlotRec
    BY DEF BaseInv, Types
  <1>4. \A s \in Slots : /\ Released(slot[s]) \in SlotRec
                         /\ Released(slot[s]).state = "IDLE" /\ Released(slot[s]).task = NoTask
    BY <1>3, ReleasedFacts
  <1>5. slot' \in [Slots -> SlotRec]
    BY <1>1, <1>3, <1>4
  <1>6. TaskInv' /\ (\A s \in Slots : StateInv(s)') /\ answer' \in [Tasks -> Seq(Results)]
    <2>1. \A s \in Cancelled(t) : Processing(s) /\ slot'[s].state = "IDLE" /\ slot'[s].task = NoTask
      BY <1>1, <1>2, <1>4
    <2>2. \A s \in Slots \ Cancelled(t) : slot'[s] = slot[s]
      BY <1>1
    <2>3. "cancelled" \in Results
      BY DEF Results
    <2> QED
      BY <2>1, <2>2, <2>3, <1>1, <1>2, <1>5, SlotsReleased
  <1>7. FillInv' /\ BatchInv'
    BY <1>1 DEF FillInv, BatchInv, Busy
  <1>8. Types'
    BY <1>1, <1>5, <1>6, TypesFrame DEF BaseInv, Types, batchVars
  <1>9. Slots' = Slots
    BY <1>1 DEF Slots, NSlots
  <1> QED
    BY <1>6, <1>7, <1>8, <1>9 DEF BaseInv

\* A round begins or ends.
LEMMA BaseRound == ASSUME BaseInv, UpdateSlots \/ RoundEnds PROVE BaseInv'
  <1>1. /\ setup' = setup /\ slot' = slot /\ UNCHANGED batchVars /\ cur' = cur /\ launched' = launched /\ answer' = answer
        /\ phase' \in {"shift", "wait"}
    BY DEF UpdateSlots, RoundEnds
  <1>2. TaskInv' /\ \A s \in Slots : StateInv(s)'
    BY <1>1, TaskFrame, StateFrame DEF BaseInv
  <1>3. FillInv' /\ BatchInv'
    BY <1>1 DEF FillInv, BatchInv, Busy
  <1>4. Types'
    BY <1>1, TypesFrame DEF BaseInv, Types, batchVars, Results
  <1>5. Slots' = Slots
    BY <1>1 DEF Slots, NSlots
  <1> QED
    BY <1>2, <1>3, <1>4, <1>5 DEF BaseInv

\* The decode failed: every busy slot is released.
LEMMA BaseDecodeError == ASSUME BaseInv, DecodeError PROVE BaseInv'
  <1>1. /\ phase' = "wait" /\ setup' = setup /\ UNCHANGED batchVars /\ cur' = 1 /\ launched' = launched
        /\ slot' = [s \in Slots |-> IF Processing(s) THEN [Released(slot[s]) EXCEPT !.prompt = <<>>] ELSE slot[s]]
        /\ answer' = [t \in Tasks |-> IF \E s \in Slots : slot[s].task = t THEN Append(answer[t], "error") ELSE answer[t]]
    BY DEF DecodeError
  <1> DEFINE R == {s \in Slots : Processing(s)}
  <1>2. \A s \in Slots : slot[s] \in SlotRec
    BY DEF BaseInv, Types
  <1>3. \A s \in Slots : LET r == [Released(slot[s]) EXCEPT !.prompt = <<>>] IN
                         r \in SlotRec /\ r.state = "IDLE" /\ r.task = NoTask
    <2> TAKE s \in Slots
    <2>1. Released(slot[s]) \in SlotRec /\ Released(slot[s]).state = "IDLE" /\ Released(slot[s]).task = NoTask
      BY <1>2, ReleasedFacts
    <2>2. <<>> \in Seq(Vocab \cup Media)
      BY EmptySeq
    <2> QED
      BY <2>1, <2>2 DEF SlotRec
  <1>4. slot' \in [Slots -> SlotRec]
    BY <1>1, <1>2, <1>3
  <1>5. TaskInv' /\ (\A s \in Slots : StateInv(s)') /\ answer' \in [Tasks -> Seq(Results)]
    <2>1. \A s \in R : Processing(s) /\ slot'[s].state = "IDLE" /\ slot'[s].task = NoTask
      BY <1>1, <1>3
    <2>2. \A s \in Slots \ R : slot'[s] = slot[s]
      BY <1>1
    <2>3. "error" \in Results /\ R \in SUBSET Slots
      BY DEF Results
    <2>4. ASSUME NEW t \in Tasks PROVE (\E s \in Slots : slot[s].task = t) <=> \E s \in R : slot[s].task = t
      <3>1. t # NoTask
        BY SetupFacts DEF BaseInv, Types
      <3> QED
        BY <3>1 DEF BaseInv, TaskInv, Processing
    <2>5. answer' = [t \in Tasks |-> IF \E s \in R : slot[s].task = t THEN Append(answer[t], "error") ELSE answer[t]]
      BY <2>4, <1>1
    <2> HIDE DEF R
    <2> QED
      BY <2>1, <2>2, <2>3, <2>5, <1>1, <1>4, SlotsReleased
  <1>6. FillInv' /\ BatchInv'
    BY <1>1 DEF FillInv, BatchInv, Busy
  <1>7. Types'
    <2>1. cur' \in Slots
      BY <1>1, SetupFacts DEF BaseInv, Types, Slots
    <2> QED
      BY <2>1, <1>1, <1>4, <1>5, TypesFrame DEF BaseInv, Types, batchVars
  <1>8. Slots' = Slots
    BY <1>1 DEF Slots, NSlots
  <1> QED
    BY <1>5, <1>6, <1>7, <1>8 DEF BaseInv


-----------------------------------------------------------------------------
\* What a shift keeps and discards of a slot that ran full.
LEMMA ShiftFacts ==
    ASSUME BaseInv, NEW s \in Slots, RanFull(s)
    PROVE  LET n == Len(PromptOf(s)) IN
           /\ Keep(s) \in Nat /\ Discard(s) \in Nat /\ n \in Nat /\ Keep(s) + Discard(s) < n
           /\ TaskOf(s).n_discard >= 0 => Discard(s) >= 1
  <1> DEFINE n == Len(PromptOf(s))
             r == TaskOf(s)
             k == IF r.n_keep < 0 THEN Len(r.prompt) ELSE r.n_keep
             b == IF AddBos THEN k + 1 ELSE k
             left == n - Keep(s)
             want == IF r.n_discard # 0 THEN r.n_discard ELSE left \div 2
  <1>1. n \in Nat
    BY SlotFacts DEF BaseInv, PromptOf
  <1>2. NCtx \in Nat /\ NCtx >= 4 /\ n + 1 >= NCtx
    BY SetupFacts DEF BaseInv, Types, RanFull
  <1>3. slot[s].task \in DOMAIN Requests
    BY BusySlot DEF RanFull, Processing
  <1>4. r \in RequestRec
    BY <1>3, SetupFacts DEF BaseInv, Types, TaskOf
  <1>5. r.n_keep \in Int /\ r.n_discard \in Int /\ r.prompt \in Seq(Vocab \cup Media)
    BY <1>4 DEF RequestRec
  <1>6. Len(r.prompt) \in Nat
    BY <1>5, LenProperties
  <1>7. k \in Nat
    BY <1>5, <1>6
  <1>8. Keep(s) = (IF NCtx - 4 < b THEN NCtx - 4 ELSE b) /\ b \in Nat
    BY <1>7 DEF Keep, Least
  <1>9. Discard(s) = Least(Most(want, 0), Most(0, left - 1))
    BY DEF Discard
  <1> HIDE DEF n, r, k, b
  <1>10. Keep(s) \in Nat /\ Keep(s) <= NCtx - 4
    BY <1>2, <1>8
  <1>11. left \in Int /\ left >= 3
    BY <1>1, <1>2, <1>10
  <1> HIDE DEF left
  <1>12. left \div 2 \in Int /\ left \div 2 >= 1
    BY <1>11
  <1>13. want \in Int /\ (r.n_discard >= 0 => want >= 1)
    BY <1>5, <1>12
  <1> HIDE DEF want
  <1>14. Discard(s) \in Nat /\ Discard(s) <= left - 1 /\ (want >= 1 => Discard(s) >= 1)
    BY <1>9, <1>11, <1>13 DEF Least, Most
  <1> QED
    BY <1>1, <1>10, <1>11, <1>13, <1>14 DEF left, n, r

\* The server's own copy of the tokens after a shift.
LEMMA ShiftTokensFacts ==
    ASSUME NEW S, NEW p \in Seq(S), NEW k \in Nat, NEW d \in Nat, k + d < Len(p)
    PROVE  /\ ShiftTokens(p, k, d) \in Seq(S) /\ Len(ShiftTokens(p, k, d)) = Len(p) - d
           /\ \A i \in 1..Len(p) - d : ShiftTokens(p, k, d)[i] = IF i <= k THEN p[i] ELSE p[i + d]
  <1>1. Len(p) \in Nat /\ Len(p) - d \in Nat
    BY LenProperties
  <1>2. ShiftTokens(p, k, d) = [i \in 1..Len(p) - d |-> IF i <= k THEN p[i] ELSE p[i + d]]
    BY DEF ShiftTokens
  <1>3. ASSUME NEW i \in 1..Len(p) - d PROVE (IF i <= k THEN p[i] ELSE p[i + d]) \in S
    <2>1. i \in 1..Len(p) /\ i + d \in 1..Len(p)
      BY <1>1
    <2> QED
      BY <2>1, ElementOfSeq
  <1>4. ShiftTokens(p, k, d) \in [1..Len(p) - d -> S]
    BY <1>2, <1>3
  <1>5. ShiftTokens(p, k, d) \in Seq(S) /\ Len(ShiftTokens(p, k, d)) = Len(p) - d
    BY <1>1, <1>4, FunctionIsSeq
  <1> QED
    BY <1>2, <1>5

\* The slots that ran full are shifted or released.
LEMMA BaseShiftContext == ASSUME BaseInv, ShiftContext PROVE BaseInv'
  <1>1. /\ phase = "shift" /\ phase' = "batch" /\ setup' = setup /\ UNCHANGED batchVars /\ cur' = cur /\ launched' = launched
        /\ slot' = [s \in Slots |->
              IF ~ RanFull(s) THEN slot[s]
              ELSE IF ~ CanShift(s) THEN Released(slot[s])
              ELSE [slot[s] EXCEPT !.prompt = ShiftTokens(slot[s].prompt, Keep(s), Discard(s)), !.truncated = TRUE]]
        /\ answer' = [t \in Tasks |->
              IF \E s \in Slots : slot[s].task = t /\ RanFull(s) /\ ~ CanShift(s)
              THEN Append(answer[t], "error") ELSE answer[t]]
    BY DEF ShiftContext
  <1> DEFINE R == {s \in Slots : RanFull(s) /\ ~ CanShift(s)}
  <1>2. \A s \in Slots : slot[s] \in SlotRec
    BY DEF BaseInv, Types
  <1>3. ASSUME NEW s \in R
        PROVE  Processing(s) /\ slot'[s] \in SlotRec /\ slot'[s].state = "IDLE" /\ slot'[s].task = NoTask
    <2>1. slot'[s] = Released(slot[s])
      BY <1>1
    <2>2. Processing(s)
      BY DEF RanFull, Processing
    <2> QED
      BY <2>1, <2>2, <1>2, ReleasedFacts
  <1>4. ASSUME NEW s \in Slots, RanFull(s), CanShift(s)
        PROVE  slot'[s] \in SlotRec /\ slot'[s].state = slot[s].state /\ slot'[s].task = slot[s].task /\ slot[s].state = "GENERATING"
    <2>1. PICK p : p = ShiftTokens(slot[s].prompt, Keep(s), Discard(s))
      OBVIOUS
    <2>2. p \in Seq(Vocab \cup Media)
      <3>1. /\ Keep(s) \in Nat /\ Discard(s) \in Nat /\ Keep(s) + Discard(s) < Len(slot[s].prompt)
            /\ slot[s].prompt \in Seq(Vocab \cup Media)
        BY <1>4, ShiftFacts, SlotFacts DEF PromptOf, BaseInv
      <3> QED
        BY <3>1, <2>1, ShiftTokensFacts
    <2>3. slot'[s] = [slot[s] EXCEPT !.prompt = p, !.truncated = TRUE]
      BY <1>1, <1>4, <2>1
    <2>4. slot[s].state = "GENERATING"
      BY <1>4 DEF RanFull
    <2> QED
      BY <2>2, <2>3, <2>4, <1>2 DEF SlotRec
  <1>5. ASSUME NEW s \in Slots, ~ RanFull(s) PROVE slot'[s] = slot[s]
    BY <1>1, <1>5
  <1>6. slot' \in [Slots -> SlotRec]
    <2>1. \A s \in Slots : slot'[s] \in SlotRec
      BY <1>2, <1>3, <1>4, <1>5
    <2>2. slot' = [s \in Slots |-> slot'[s]]
      BY <1>1
    <2> QED
      BY <2>1, <2>2
  <1>7. answer' \in [Tasks -> Seq(Results)]
    <2>1. answer \in [Tasks -> Seq(Results)] /\ "error" \in Results
      BY DEF BaseInv, Types, Results
    <2>2. \A t \in Tasks : Append(answer[t], "error") \in Seq(Results)
      BY <2>1, AppendProperties
    <2> QED
      BY <2>1, <2>2, <1>1
  <1>8. TaskInv'
    <2>1. \A s \in R : Processing(s) /\ slot'[s].state = "IDLE" /\ slot'[s].task = NoTask
      BY <1>3
    <2>2. \A s \in Slots \ R : slot'[s].task = slot[s].task /\ (slot'[s].state = "IDLE" <=> slot[s].state = "IDLE")
      BY <1>4, <1>5
    <2>3. \A t \in Tasks : answer'[t] = IF \E s \in R : slot[s].task = t THEN Append(answer[t], "error") ELSE answer[t]
      BY <1>1
    <2>4. R \in SUBSET Slots
      OBVIOUS
    <2> HIDE DEF R
    <2> QED
      BY <2>1, <2>2, <2>3, <2>4, <1>1, TaskRelease
  <1>9. ASSUME NEW s \in Slots PROVE StateInv(s)'
    <2>1. CASE s \in R
      BY <2>1, <1>3, StateIdle
    <2>2. CASE RanFull(s) /\ CanShift(s)
      BY <2>2, <1>1, <1>4 DEF BaseInv, StateInv, NeedEmbd, Requests
    <2>3. CASE ~ RanFull(s)
      BY <2>3, <1>1, <1>5, StateFrame DEF BaseInv
    <2> QED
      BY <2>1, <2>2, <2>3
  <1>10. FillInv' /\ BatchInv'
    BY <1>1 DEF FillInv, BatchInv, Busy
  <1>11. Types'
    BY <1>1, <1>6, <1>7, TypesFrame DEF BaseInv, Types, batchVars
  <1>12. Slots' = Slots
    BY <1>1 DEF Slots, NSlots
  <1> QED
    BY <1>8, <1>9, <1>10, <1>11, <1>12 DEF BaseInv

-----------------------------------------------------------------------------
(* The slots that BatchSampled considers, the first of them, and those     *)
(* that enter the batch, in their order.                                   *)
Generating == {s \in Slots : slot[s].state = "GENERATING"}
FirstSlot  == CHOOSE s \in Generating : \A t \in Generating : s <= t
Left       == {s \in Slots : s \in Generating => ~ CanBatchWith(FirstSlot, s)}
Chosen     == Drop([s \in Slots |-> s], Left)

\* Every generating slot of the type of the first enters the batch once.
LEMMA ChosenFacts ==
    ASSUME BaseInv
    PROVE  /\ Chosen \in Seq(Slots) /\ Len(Chosen) \in Nat /\ Len(Chosen) <= NSlots
           /\ Generating # {} => FirstSlot \in Generating
           /\ \A i \in 1..Len(Chosen) : /\ Chosen[i] \in Slots /\ Chosen[i] \in Generating
                                        /\ CanBatchWith(FirstSlot, Chosen[i])
           /\ \A i, j \in 1..Len(Chosen) : Chosen[i] = Chosen[j] => i = j
  <1> DEFINE all == [s \in Slots |-> s]
  <1>1. NSlots \in Nat /\ Slots = 1..NSlots
    BY SetupFacts DEF BaseInv, Types, Slots
  <1>2. all \in Seq(Slots) /\ Len(all) = NSlots /\ DOMAIN all = 1..NSlots /\ \A i \in 1..NSlots : all[i] = i
    <2>1. all \in [1..NSlots -> Slots]
      BY <1>1
    <2> QED
      BY <2>1, <1>1, FunctionIsSeq
  <1>3. Chosen = Drop(all, Left)
    BY DEF Chosen
  <1> HIDE DEF all
  <1>4. Chosen \in Seq(Slots) /\ Occ(Chosen, Slots) = Occ(all, Slots \ Left)
    BY <1>2, <1>3, DropFacts
  <1>5. Len(Chosen) \in Nat /\ DOMAIN Chosen = 1..Len(Chosen)
    BY <1>4, LenProperties
  <1>6. Len(Chosen) <= NSlots
    <2>1. {i \in DOMAIN Chosen : Chosen[i] \in Slots} = 1..Len(Chosen)
      BY <1>4, <1>5, ElementOfSeq
    <2>2. IsFiniteSet(1..NSlots) /\ Cardinality(1..NSlots) = NSlots
      BY <1>1, FS_Interval
    <2>3. Cardinality(1..Len(Chosen)) = Len(Chosen)
      <3>1. PICK k \in Nat : k = Len(Chosen)
        BY <1>5
      <3>2. Cardinality(1..k) = IF 1 > k THEN 0 ELSE k - 1 + 1
        BY FS_Interval
      <3>3. Cardinality(1..k) = k
        BY <3>2
      <3> QED
        BY <3>1, <3>3
    <2>4. {i \in DOMAIN all : all[i] \in Slots \ Left} \subseteq 1..NSlots
      BY <1>2
    <2>5. Cardinality({i \in DOMAIN all : all[i] \in Slots \ Left}) <= NSlots
      BY <2>2, <2>4, FS_Subset
    <2> QED
      BY <2>1, <2>3, <2>5, <1>4 DEF Occ
  <1>7. PICK g : /\ Embeds(g, Chosen, all) /\ \A j \in 1..Len(Chosen) : all[g[j]] \notin Left
    BY <1>2, <1>3, DropPlaces
  <1>8. \A i \in 1..Len(Chosen) : g[i] \in 1..NSlots /\ Chosen[i] = g[i] /\ Chosen[i] \notin Left
    BY <1>2, <1>7 DEF Embeds
  <1>9. \A i \in 1..Len(Chosen) : Chosen[i] \in Slots /\ Chosen[i] \in Generating /\ CanBatchWith(FirstSlot, Chosen[i])
    BY <1>1, <1>8 DEF Left
  <1>10. ASSUME NEW i \in 1..Len(Chosen), NEW j \in 1..Len(Chosen), Chosen[i] = Chosen[j] PROVE i = j
    <2>1. ~ i < j /\ ~ j < i
      <3>1. g[i] = g[j] /\ g[i] \in Nat
        BY <1>1, <1>8, <1>10
      <3>2. (i < j => g[i] < g[j]) /\ (j < i => g[j] < g[i])
        BY <1>7 DEF Embeds
      <3> QED
        BY <3>1, <3>2
    <2> QED
      BY <2>1, <1>5
  <1>11. ASSUME Generating # {} PROVE FirstSlot \in Generating
    <2>1. Generating \subseteq Nat
      BY <1>1 DEF Generating
    <2>2. \E s \in Generating : \A t \in Generating : s <= t
      BY <2>1, <1>11, LeastNat
    <2> QED
      BY <2>2 DEF FirstSlot
  <1> QED
    BY <1>4, <1>5, <1>6, <1>9, <1>10, <1>11

\* What BatchSampled does, in terms of the slots that it chooses.
LEMMA SampledEffect ==
    ASSUME BaseInv, BatchSampled
    PROVE  /\ phase = "batch" /\ setup' = setup /\ kv' = kv /\ launched' = launched /\ answer' = answer
           /\ off' = 0 /\ nbatch' = NBatch /\ cur' = 1 /\ phase' \in {"prompt", "decode"}
           /\ head' = IF Generating = {} THEN 0 ELSE FirstSlot
           /\ batch' \in Seq(BatchRec) /\ Len(batch') = Len(Chosen)
           /\ \A i \in 1..Len(Chosen) :
                 /\ batch'[i].slot = Chosen[i] /\ batch'[i].token = slot[Chosen[i]].sampled
                 /\ batch'[i].pos = Len(PromptOf(Chosen[i])) /\ batch'[i].output
           /\ slot' \in [Slots -> SlotRec]
           /\ \A s \in Slots :
                 \/ slot'[s] = slot[s] /\ \A i \in 1..Len(Chosen) : Chosen[i] # s
                 \/ \E i \in 1..Len(Chosen) :
                       /\ Chosen[i] = s /\ slot'[s].ibatch = i - 1 /\ slot'[s].task = slot[s].task
                       /\ slot'[s].state = "GENERATING" /\ slot[s].state = "GENERATING"
                       /\ slot'[s].prompt = Append(slot[s].prompt, slot[s].sampled)
  <1> DEFINE n == Len(Chosen)
             place(s) == CHOOSE i \in 1..n : Chosen[i] = s
  <1>1. /\ Chosen \in Seq(Slots) /\ n \in Nat /\ n <= NSlots /\ DOMAIN Chosen = 1..n
        /\ (Generating # {} => FirstSlot \in Generating)
        /\ (\A i \in 1..n : Chosen[i] \in Slots /\ Chosen[i] \in Generating /\ CanBatchWith(FirstSlot, Chosen[i]))
        /\ \A i, j \in 1..n : Chosen[i] = Chosen[j] => i = j
    BY ChosenFacts, LenProperties
  <1>2. /\ phase = "batch" /\ setup' = setup /\ kv' = kv /\ launched' = launched /\ answer' = answer
        /\ off' = 0 /\ nbatch' = NBatch /\ cur' = 1 /\ phase' \in {"prompt", "decode"}
        /\ head' = IF Generating = {} THEN 0 ELSE FirstSlot
    BY DEF BatchSampled, Generating, FirstSlot
  <1>3. batch' = [i \in 1..n |-> Token(Chosen[i], slot[Chosen[i]].sampled, Len(PromptOf(Chosen[i])), TRUE)]
    BY DEF BatchSampled, Generating, FirstSlot, Left, Chosen
  <1>4. slot' = [s \in Slots |->
              IF s \in Range(Chosen)
              THEN [slot[s] EXCEPT !.ibatch = place(s) - 1, !.prompt = Append(@, slot[s].sampled)] ELSE slot[s]]
    BY DEF BatchSampled, Generating, FirstSlot, Left, Chosen
  <1>5. ASSUME NEW i \in 1..n
        PROVE  Token(Chosen[i], slot[Chosen[i]].sampled, Len(PromptOf(Chosen[i])), TRUE) \in BatchRec
    <2>1. Chosen[i] \in Slots
      BY <1>1
    <2>2. slot[Chosen[i]].sampled \in Vocab /\ Len(PromptOf(Chosen[i])) \in Nat
      BY <2>1, SlotFacts DEF BaseInv, PromptOf
    <2> QED
      BY <2>1, <2>2 DEF Token, BatchRec
  <1>6. batch' \in Seq(BatchRec) /\ Len(batch') = n
    <2>1. batch' \in [1..n -> BatchRec]
      BY <1>3, <1>5
    <2> QED
      BY <2>1, <1>1, FunctionIsSeq
  <1>7. \A i \in 1..n :
            /\ batch'[i].slot = Chosen[i] /\ batch'[i].token = slot[Chosen[i]].sampled
            /\ batch'[i].pos = Len(PromptOf(Chosen[i])) /\ batch'[i].output
    BY <1>3 DEF Token
  <1>8. ASSUME NEW s \in Slots, s \in Range(Chosen)
        PROVE  \E i \in 1..n :
                       /\ slot'[s] \in SlotRec
                       /\ Chosen[i] = s /\ slot'[s].ibatch = i - 1 /\ slot'[s].task = slot[s].task
                       /\ slot'[s].state = "GENERATING" /\ slot[s].state = "GENERATING"
                       /\ slot'[s].prompt = Append(slot[s].prompt, slot[s].sampled)
    <2>1. PICK i : i = place(s)
      OBVIOUS
    <2>2. i \in 1..n /\ Chosen[i] = s
      BY <2>1, <1>1, <1>8 DEF Range
    <2>3. PICK p : p = Append(slot[s].prompt, slot[s].sampled)
      OBVIOUS
    <2>4. slot'[s] = [slot[s] EXCEPT !.ibatch = i - 1, !.prompt = p]
      BY <2>1, <2>3, <1>4, <1>8
    <2>5. slot[s] \in SlotRec /\ slot[s].state = "GENERATING"
      BY <2>2, <1>1 DEF BaseInv, Types, Generating
    <2>6. p \in Seq(Vocab \cup Media)
      <3>1. slot[s].prompt \in Seq(Vocab \cup Media) /\ slot[s].sampled \in Vocab \cup Media
        BY SlotFacts DEF BaseInv
      <3> QED
        BY <3>1, <2>3, AppendProperties
    <2>7. i - 1 \in Int
      BY <2>2, <1>1
    <2>8. slot'[s] \in SlotRec /\ slot'[s].ibatch = i - 1 /\ slot'[s].task = slot[s].task
          /\ slot'[s].state = slot[s].state /\ slot'[s].prompt = p
      BY <2>4, <2>5, <2>6, <2>7 DEF SlotRec
    <2> QED
      BY <2>2, <2>3, <2>5, <2>8
  <1>9. ASSUME NEW s \in Slots, s \notin Range(Chosen)
        PROVE  slot'[s] = slot[s] /\ \A i \in 1..n : Chosen[i] # s
    BY <1>1, <1>4, <1>9 DEF Range
  <1>10. slot' \in [Slots -> SlotRec]
    <2>1. \A s \in Slots : slot'[s] \in SlotRec
      BY <1>8, <1>9 DEF BaseInv, Types
    <2>2. slot' = [s \in Slots |-> slot'[s]]
      <3> HIDE DEF place
      <3> QED
        BY <1>4
    <2> QED
      BY <2>1, <2>2
  <1>11. \A s \in Slots :
                 \/ slot'[s] = slot[s] /\ \A i \in 1..n : Chosen[i] # s
                 \/ \E i \in 1..n :
                       /\ Chosen[i] = s /\ slot'[s].ibatch = i - 1 /\ slot'[s].task = slot[s].task
                       /\ slot'[s].state = "GENERATING" /\ slot[s].state = "GENERATING"
                       /\ slot'[s].prompt = Append(slot[s].prompt, slot[s].sampled)
    BY <1>8, <1>9
  <1> QED
    BY <1>2, <1>6, <1>7, <1>10, <1>11

\* The sampled tokens enter the batch.
LEMMA BaseBatchSampled == ASSUME BaseInv, BatchSampled PROVE BaseInv'
  <1> DEFINE n == Len(Chosen)
  <1>1. /\ Chosen \in Seq(Slots) /\ n \in Nat /\ n <= NSlots
        /\ (Generating # {} => FirstSlot \in Generating)
        /\ (\A i \in 1..n : Chosen[i] \in Slots /\ Chosen[i] \in Generating /\ CanBatchWith(FirstSlot, Chosen[i]))
        /\ \A i, j \in 1..n : Chosen[i] = Chosen[j] => i = j
    BY ChosenFacts
  <1>2. /\ phase = "batch" /\ setup' = setup /\ launched' = launched /\ answer' = answer
        /\ off' = 0 /\ nbatch' = NBatch /\ cur' = 1 /\ phase' \in {"prompt", "decode"}
        /\ head' = IF Generating = {} THEN 0 ELSE FirstSlot
    BY SampledEffect
  <1>3. /\ batch' \in Seq(BatchRec) /\ Len(batch') = n
        /\ \A i \in 1..n : batch'[i].slot = Chosen[i]
    BY SampledEffect
  <1>4. /\ slot' \in [Slots -> SlotRec]
        /\ \A s \in Slots : /\ slot'[s].task = slot[s].task /\ slot'[s].state = slot[s].state
                            /\ slot'[s] = slot[s] \/ slot[s].state = "GENERATING"
    BY SampledEffect
  <1>5. Slots' = Slots /\ NBatch' = NBatch /\ Requests' = Requests /\ BatchRec' = BatchRec
    BY <1>2 DEF Slots, NSlots, NBatch, Requests, BatchRec
  <1>6. TaskInv'
    BY <1>2, <1>4, TaskFrame
  <1>7. ASSUME NEW s \in Slots PROVE StateInv(s)'
    <2>1. CASE slot'[s] = slot[s]
      BY <2>1, <1>2, StateFrame DEF BaseInv
    <2>2. CASE slot[s].state = "GENERATING"
      BY <2>2, <1>2, <1>4 DEF BaseInv, StateInv, NeedEmbd, Requests
    <2> QED
      BY <2>1, <2>2, <1>4
  <1>8. ASSUME NEW i \in 1..n
        PROVE  LET s == batch'[i].slot IN
               /\ slot'[s].state = "GENERATING" /\ Generating # {} /\ head' = FirstSlot
               /\ Requests[slot'[FirstSlot].task].type = Requests[slot'[s].task].type
    <2>1. batch'[i].slot = Chosen[i] /\ Chosen[i] \in Slots /\ Chosen[i] \in Generating /\ CanBatchWith(FirstSlot, Chosen[i])
      BY <1>1, <1>3
    <2>2. FirstSlot \in Slots /\ head' = FirstSlot
      BY <2>1, <1>1, <1>2 DEF Generating
    <2> QED
      BY <2>1, <2>2, <1>4 DEF Generating, CanBatchWith
  <1>9. head' \in Slots \cup {0} /\ (head' # 0 => slot'[head'].state = "GENERATING")
    BY <1>1, <1>2, <1>4 DEF Generating
  <1>10. FillInv'
    <2>1. head' = 0 => batch' = <<>>
      <3> SUFFICES ASSUME head' = 0 PROVE batch' = <<>>
        OBVIOUS
      <3>1. FirstSlot # 0 \/ Generating = {}
        BY <1>1, SetupFacts DEF Generating, Slots, BaseInv, Types
      <3>2. Generating = {}
        BY <3>1, <1>2
      <3>3. n = 0
        BY <3>2, <1>1
      <3> QED
        BY <3>3, <1>3, EmptySeq
    <2> QED
      BY <2>1, <1>2, <1>3, <1>5, <1>8, <1>9 DEF FillInv, Processing, CanBatchWith
  <1>11. BatchInv'
    <2>1. Len(batch') <= NBatch'
      BY <1>1, <1>3, <1>5, SetupFacts DEF BaseInv, Types
    <2>2. ASSUME NEW i \in 1..n, NEW j \in 1..n, i < j PROVE batch'[i].slot # batch'[j].slot
      BY <1>1, <1>3, <2>2
    <2> QED
      BY <2>1, <2>2, <1>3, <1>5, <1>8 DEF BatchInv, CanBatchWith
  <1>12. Types'
    <2>1. cur' \in Slots /\ nbatch' \in 1..NBatch /\ off' \in 0..Len(batch')
      BY <1>1, <1>2, <1>3, SetupFacts DEF BaseInv, Types, Slots
    <2> QED
      BY <2>1, <1>2, <1>3, <1>4, <1>5, <1>9 DEF BaseInv, Types
  <1> QED
    BY <1>5, <1>6, <1>7, <1>10, <1>11, <1>12 DEF BaseInv

-----------------------------------------------------------------------------
\* The end of the sub-batch.
LEMMA ViewFacts ==
    ASSUME Types
    PROVE  /\ ViewEnd \in Nat /\ off \in Nat /\ Len(batch) \in Nat /\ nbatch \in Nat /\ NBatch \in Nat
           /\ off <= ViewEnd /\ ViewEnd <= Len(batch) /\ (off < Len(batch) => off < ViewEnd)
           /\ nbatch >= Len(batch) - off => ViewEnd = Len(batch)
           /\ View \in Seq(BatchRec) /\ Len(View) = ViewEnd - off
           /\ \A k \in 1..ViewEnd - off : View[k] = batch[off + k] /\ off + k \in 1..Len(batch)
           /\ \A i : i \in Int => (InView(i) <=> off <= i /\ i < ViewEnd)
  <1>1. batch \in Seq(BatchRec) /\ off \in 0..Len(batch) /\ nbatch \in 1..NBatch /\ NBatch \in Nat
    BY SetupFacts DEF Types
  <1>2. Len(batch) \in Nat
    BY <1>1, LenProperties
  <1>3. /\ ViewEnd \in Nat /\ off <= ViewEnd /\ ViewEnd <= Len(batch) /\ off \in Nat /\ nbatch \in Nat
        /\ (off < Len(batch) => off < ViewEnd) /\ (nbatch >= Len(batch) - off => ViewEnd = Len(batch))
    BY <1>1, <1>2 DEF ViewEnd, Least
  <1>4. View = SubSeq(batch, off + 1, ViewEnd)
    BY DEF View, ViewEnd
  <1>5. /\ View \in Seq(BatchRec) /\ Len(View) = ViewEnd - off
        /\ \A k \in 1..ViewEnd - off : View[k] = batch[off + k]
    <2>1. \A i \in off + 1..ViewEnd : batch[i] \in BatchRec
      BY <1>1, <1>2, <1>3, ElementOfSeq
    <2>2. /\ View \in Seq(BatchRec) /\ Len(View) = IF off + 1 <= ViewEnd THEN ViewEnd - (off + 1) + 1 ELSE 0
          /\ \A k \in 1..ViewEnd - (off + 1) + 1 : View[k] = batch[off + 1 + k - 1]
      BY <2>1, <1>1, <1>3, <1>4, SubSeqProperties
    <2>3. Len(View) = ViewEnd - off
      BY <2>2, <1>3
    <2>4. ViewEnd - (off + 1) + 1 = ViewEnd - off /\ \A k \in 1..ViewEnd - off : off + 1 + k - 1 = off + k
      BY <1>3
    <2> QED
      BY <2>2, <2>3, <2>4
  <1>6. \A k \in 1..ViewEnd - off : off + k \in 1..Len(batch)
    BY <1>2, <1>3
  <1>7. \A i : i \in Int => (InView(i) <=> off <= i /\ i < ViewEnd)
    BY DEF InView, ViewEnd
  <1> QED
    BY <1>1, <1>2, <1>3, <1>5, <1>6, <1>7

\* The iteration over the slots that sample, and the next sub-batch at its end.
LEMMA NextSubBatchFacts ==
    ASSUME BaseInv, phase = "post", NextSubBatch
    PROVE  /\ setup' = setup /\ batch' = batch /\ head' = head /\ launched' = launched
           /\ cur' \in Slots /\ off' \in 0..Len(batch) /\ nbatch' \in 1..NBatch
           /\ \/ phase' = "post" /\ cur < NSlots /\ cur' = cur + 1 /\ off' = off /\ nbatch' = nbatch
              \/ phase' = "decode" /\ cur = NSlots /\ off' = ViewEnd /\ nbatch' = NBatch
  <1>1. Types /\ NBatch \in Nat /\ NBatch >= 1 /\ NSlots \in Nat
    BY SetupFacts DEF BaseInv, Types
  <1>2. /\ setup' = setup /\ batch' = batch /\ head' = head /\ launched' = launched
        /\ off' = (IF cur = NSlots THEN off + Len(View) ELSE off)
        /\ nbatch' = (IF cur = NSlots THEN NBatch ELSE nbatch)
    BY DEF NextSubBatch
  <1>3. /\ cur' \in Slots
        /\ (cur = NSlots /\ phase' = "decode") \/ (cur < NSlots /\ cur' = cur + 1 /\ phase' = "post")
    BY <1>1, AdvanceFacts DEF NextSubBatch
  <1>4. /\ ViewEnd \in Nat /\ off \in Nat /\ Len(View) = ViewEnd - off /\ ViewEnd <= Len(batch) /\ Len(batch) \in Nat
        /\ off \in 0..Len(batch) /\ nbatch \in 1..NBatch
    BY <1>1, ViewFacts DEF Types
  <1>5. cur \in Nat
    BY <1>1 DEF Types, Slots
  <1> QED
    BY <1>1, <1>2, <1>3, <1>4, <1>5

\* A slot that samples.
LEMMA SamplingFacts ==
    ASSUME BaseInv, Sampling(cur)
    PROVE  /\ phase = "post" /\ cur \in Slots /\ slot[cur].state \in {"DONE_PROMPT", "GENERATING"}
           /\ Processing(cur) /\ slot[cur] \in SlotRec
  BY DEF Sampling, Processing, BaseInv, Types

\* A slot samples, answers or is passed over; the others stay as they are.
LEMMA BasePostStep ==
    ASSUME BaseInv, phase = "post", NextSubBatch, slot' \in [Slots -> SlotRec], answer' \in [Tasks -> Seq(Results)],
           TaskInv', \A s \in Slots : StateInv(s)', \A s \in Slots \ {cur} : slot'[s] = slot[s],
           slot'[cur] = slot[cur] \/ slot'[cur].state = "IDLE"
             \/ (slot'[cur].state = "GENERATING" /\ slot[cur].state # "IDLE" /\ slot'[cur].task = slot[cur].task)
    PROVE  BaseInv'
  <1>1. /\ setup' = setup /\ batch' = batch /\ head' = head /\ launched' = launched
        /\ cur' \in Slots /\ off' \in 0..Len(batch) /\ nbatch' \in 1..NBatch /\ phase' \in {"post", "decode"}
    BY NextSubBatchFacts
  <1>2. Types'
    BY <1>1, TypesFrame DEF BaseInv, Types
  <1>3. FillInv' /\ BatchInv'
    <2>1. \A s \in Slots : /\ slot'[s].state # "IDLE" => slot[s].state # "IDLE" /\ slot'[s].task = slot[s].task
                           /\ slot'[s].state \in {"STARTED", "WAIT_OTHER"} => slot'[s].state = slot[s].state
      OBVIOUS
    <2>2. Busy
      BY DEF Busy
    <2> QED
      BY <2>1, <2>2, <1>1, DecodeAside
  <1>4. Slots' = Slots
    BY <1>1 DEF Slots, NSlots
  <1> QED
    BY <1>2, <1>3, <1>4 DEF BaseInv

\* Nothing to sample for this slot.
LEMMA BaseNothing == ASSUME BaseInv, NothingToSample PROVE BaseInv'
  <1>1. phase = "post" /\ NextSubBatch /\ slot' = slot /\ answer' = answer
    BY DEF NothingToSample
  <1>2. setup' = setup /\ launched' = launched
    BY <1>1 DEF NextSubBatch
  <1>3. TaskInv' /\ \A s \in Slots : StateInv(s)'
    BY <1>1, <1>2, TaskFrame, StateFrame DEF BaseInv
  <1>4. slot' \in [Slots -> SlotRec] /\ answer' \in [Tasks -> Seq(Results)]
    BY <1>1 DEF BaseInv, Types, Results
  <1> QED
    BY <1>1, <1>3, <1>4, BasePostStep

\* The slot that samples answers and is released.
LEMMA BasePostRelease ==
    ASSUME BaseInv, Sampling(cur), NextSubBatch, NEW x \in Results, answer' = Send(slot[cur].task, x),
           NEW r \in SlotRec, r.state = "IDLE", r.task = NoTask, slot' = [slot EXCEPT ![cur] = r]
    PROVE  BaseInv'
  <1>1. phase = "post" /\ cur \in Slots /\ Processing(cur) /\ slot \in [Slots -> SlotRec]
    BY SamplingFacts DEF BaseInv, Types
  <1>2. setup' = setup /\ launched' = launched
    BY DEF NextSubBatch
  <1>3. /\ TaskInv' /\ (\A s \in Slots : StateInv(s)')
        /\ slot' \in [Slots -> SlotRec] /\ answer' \in [Tasks -> Seq(Results)]
    BY <1>1, <1>2, OneReleased
  <1>4. slot'[cur] = r /\ \A s \in Slots \ {cur} : slot'[s] = slot[s]
    BY <1>1
  <1> QED
    BY <1>1, <1>3, <1>4, BasePostStep

\* The sampled token of a slot.
LEMMA SampledFacts ==
    ASSUME Types, NEW s \in Slots, NEW tok \in Vocab
    PROVE  /\ Sampled(s, tok) \in SlotRec /\ Sampled(s, tok).state = "GENERATING" /\ Sampled(s, tok).ibatch = -1
           /\ Sampled(s, tok).task = slot[s].task /\ Sampled(s, tok).prompt = slot[s].prompt
  <1>1. slot[s] \in SlotRec /\ slot[s].ngen \in Nat
    BY SlotFacts
  <1>2. PICK n \in Nat, b \in Int, st \in States : n = slot[s].ngen + 1 /\ b = -1 /\ st = "GENERATING"
    BY <1>1 DEF States
  <1>3. Sampled(s, tok) = [slot[s] EXCEPT !.state = st, !.sampled = tok, !.ibatch = b, !.ngen = n]
    BY <1>2 DEF Sampled
  <1>4. /\ Sampled(s, tok) \in SlotRec /\ Sampled(s, tok).state = st /\ Sampled(s, tok).ibatch = b
        /\ Sampled(s, tok).task = slot[s].task /\ Sampled(s, tok).prompt = slot[s].prompt
    BY <1>1, <1>3 DEF SlotRec
  <1> QED
    BY <1>2, <1>4

\* The steps that end a request after it sampled.
LEMMA BaseSampleEnd == ASSUME BaseInv, SendEmbedding \/ SampleLast \/ SampleFails PROVE BaseInv'
  <1>1. Sampling(cur) /\ NextSubBatch
    BY DEF SendEmbedding, SampleLast, SampleFails
  <1>2. cur \in Slots /\ slot[cur] \in SlotRec /\ Types
    BY <1>1, SamplingFacts DEF BaseInv
  <1>3. "final" \in Results /\ "error" \in Results
    BY DEF Results
  <1>4. Released(slot[cur]) \in SlotRec /\ Released(slot[cur]).state = "IDLE" /\ Released(slot[cur]).task = NoTask
    BY <1>2, ReleasedFacts
  <1>5. CASE SendEmbedding
    <2>1. PICK r : r = [Released(slot[cur]) EXCEPT !.ibatch = -1]
      OBVIOUS
    <2>2. r \in SlotRec /\ r.state = "IDLE" /\ r.task = NoTask
      BY <2>1, <1>4 DEF SlotRec
    <2>3. slot' = [slot EXCEPT ![cur] = r] /\ answer' = Send(slot[cur].task, "final")
      BY <2>1, <1>5 DEF SendEmbedding
    <2> QED
      BY <2>2, <2>3, <1>1, <1>3, BasePostRelease
  <1>6. CASE SampleLast
    <2>1. PICK tok \in Vocab : slot' = [slot EXCEPT ![cur] = Released(Sampled(cur, tok))]
      BY <1>6 DEF SampleLast
    <2>2. Sampled(cur, tok) \in SlotRec
      BY <1>2, SampledFacts
    <2>3. PICK r : r = Released(Sampled(cur, tok))
      OBVIOUS
    <2>4. r \in SlotRec /\ r.state = "IDLE" /\ r.task = NoTask
      BY <2>2, <2>3, ReleasedFacts
    <2>5. slot' = [slot EXCEPT ![cur] = r] /\ answer' = Send(slot[cur].task, "final")
      BY <2>1, <2>3, <1>6 DEF SampleLast
    <2> QED
      BY <2>4, <2>5, <1>1, <1>3, BasePostRelease
  <1>7. CASE SampleFails
    <2>1. slot' = [slot EXCEPT ![cur] = Released(slot[cur])] /\ answer' = Send(slot[cur].task, "error")
      BY <1>7 DEF SampleFails
    <2> QED
      BY <2>1, <1>1, <1>3, <1>4, BasePostRelease
  <1> QED
    BY <1>5, <1>6, <1>7

\* A slot goes on with the token it sampled.
LEMMA BaseSampleToken == ASSUME BaseInv, SampleToken PROVE BaseInv'
  <1>1. Sampling(cur) /\ NextSubBatch /\ ~ NeedEmbd(slot[cur].task) /\ answer' = answer
    BY DEF SampleToken
  <1>2. phase = "post" /\ cur \in Slots /\ slot[cur].state # "IDLE" /\ slot \in [Slots -> SlotRec] /\ Types
    BY <1>1, SamplingFacts DEF Processing, BaseInv, Types
  <1>3. PICK tok \in Vocab : slot' = [slot EXCEPT ![cur] = Sampled(cur, tok)]
    BY DEF SampleToken
  <1>4. Sampled(cur, tok) \in SlotRec /\ Sampled(cur, tok).state = "GENERATING" /\ Sampled(cur, tok).task = slot[cur].task
    BY <1>2, SampledFacts
  <1>5. /\ slot' \in [Slots -> SlotRec] /\ \A s \in Slots \ {cur} : slot'[s] = slot[s]
        /\ slot'[cur].state = "GENERATING" /\ slot'[cur].task = slot[cur].task
    BY <1>2, <1>3, <1>4
  <1>6. setup' = setup /\ launched' = launched
    BY <1>1 DEF NextSubBatch
  <1>7. TaskInv'
    <2>1. \A s \in Slots : slot'[s].task = slot[s].task /\ (slot'[s].state = "IDLE" <=> slot[s].state = "IDLE")
      BY <1>2, <1>5
    <2> QED
      BY <2>1, <1>1, <1>6, TaskFrame
  <1>8. ASSUME NEW s \in Slots PROVE StateInv(s)'
    <2>1. CASE s = cur
      BY <2>1, <1>1, <1>5, <1>6 DEF StateInv, NeedEmbd, Requests
    <2>2. CASE s # cur
      BY <2>2, <1>5, <1>6, StateFrame DEF BaseInv
    <2> QED
      BY <2>1, <2>2
  <1>9. answer' \in [Tasks -> Seq(Results)]
    BY <1>1 DEF BaseInv, Types, Results
  <1> QED
    BY <1>1, <1>2, <1>5, <1>7, <1>8, <1>9, BasePostStep

-----------------------------------------------------------------------------
\* The decode found no room: an idle slot is purged or the sub-batch halved.
LEMMA FullEffect ==
    ASSUME BaseInv, DecodeFull
    PROVE  /\ phase = "decode" /\ CanBeFull /\ UNCHANGED <<setup, batch, head, off, phase, cur, launched, answer>>
           /\ nbatch' \in 1..NBatch
           /\ \/ slot' = slot /\ kv' = kv
              \/ \E s \in Slots : /\ slot[s].state = "IDLE" /\ slot' = [slot EXCEPT ![s].prompt = <<>>]
                                  /\ kv' = [kv EXCEPT ![s] = <<>>]
  <1>1. phase = "decode" /\ CanBeFull /\ UNCHANGED <<setup, batch, head, off, phase, cur, launched, answer>>
    BY DEF DecodeFull, Undecoded
  <1>2. nbatch \in 1..NBatch /\ NBatch \in Nat
    BY SetupFacts DEF BaseInv, Types
  <1>3. CASE Purgeable # {}
    <2>1. PICK s : s = CHOOSE r \in Purgeable : \A t \in Purgeable : r <= t
      OBVIOUS
    <2>2. slot' = [slot EXCEPT ![s].prompt = <<>>] /\ kv' = [kv EXCEPT ![s] = <<>>] /\ nbatch' = nbatch
      BY <1>3, <2>1 DEF DecodeFull
    <2>3. s \in Purgeable
      <3>1. Purgeable \subseteq Nat
        BY DEF Purgeable, Slots
      <3>2. \E r \in Purgeable : \A t \in Purgeable : r <= t
        BY <3>1, <1>3, LeastNat
      <3> QED
        BY <3>2, <2>1
    <2>4. s \in Slots /\ slot[s].state = "IDLE"
      BY <2>3 DEF Purgeable, Processing
    <2> QED
      BY <2>2, <2>4, <1>1, <1>2
  <1>4. CASE Purgeable = {}
    <2>1. nbatch' = nbatch \div 2 /\ slot' = slot /\ kv' = kv /\ nbatch > 1
      BY <1>4 DEF DecodeFull
    <2>2. nbatch' \in 1..NBatch
      BY <2>1, <1>2
    <2> QED
      BY <2>1, <2>2, <1>1
  <1> QED
    BY <1>3, <1>4

\* A full cache takes no task away.
LEMMA BaseDecodeFull == ASSUME BaseInv, DecodeFull PROVE BaseInv'
  <1>1. /\ phase = "decode" /\ UNCHANGED <<setup, batch, head, off, phase, cur, launched, answer>> /\ nbatch' \in 1..NBatch
    BY FullEffect
  <1>2. /\ slot' \in [Slots -> SlotRec]
        /\ \A s \in Slots : \/ slot'[s] = slot[s]
                            \/ slot[s].state = "IDLE" /\ slot'[s].state = "IDLE" /\ slot'[s].task = slot[s].task
    <2>1. slot \in [Slots -> SlotRec] /\ <<>> \in Seq(Vocab \cup Media)
      BY EmptySeq DEF BaseInv, Types
    <2>2. CASE slot' = slot
      BY <2>1, <2>2
    <2>3. ASSUME NEW s \in Slots, slot[s].state = "IDLE", slot' = [slot EXCEPT ![s].prompt = <<>>]
          PROVE  /\ slot' \in [Slots -> SlotRec]
                 /\ \A u \in Slots : \/ slot'[u] = slot[u]
                                     \/ slot[u].state = "IDLE" /\ slot'[u].state = "IDLE" /\ slot'[u].task = slot[u].task
      BY <2>1, <2>3 DEF SlotRec
    <2> QED
      BY <2>2, <2>3, FullEffect
  <1>3. TaskInv'
    BY <1>1, <1>2, TaskFrame
  <1>4. \A s \in Slots : StateInv(s)'
    BY <1>1, <1>2, StateFrame, StateIdle DEF BaseInv
  <1>5. FillInv' /\ BatchInv'
    BY <1>1, <1>2, DecodeAside DEF Busy
  <1>6. Types'
    BY <1>1, <1>2, TypesFrame DEF BaseInv, Types, Results
  <1>7. Slots' = Slots
    BY <1>1 DEF Slots, NSlots
  <1> QED
    BY <1>3, <1>4, <1>5, <1>6, <1>7 DEF BaseInv

(* The memory of a slot after a decode.                                    *)
Grown(s) == kv[s] \o TokensOf(ViewOf(s))

\* What a decode does, slot by slot.
LEMMA DecodeEffect ==
    ASSUME BaseInv, DecodeOk
    PROVE  /\ phase = "decode" /\ off < Len(batch) /\ Accepted /\ phase' = "post" /\ cur' = 1
           /\ UNCHANGED <<setup, batchVars, launched, answer>>
           /\ slot' \in [Slots -> SlotRec] /\ kv' = [s \in Slots |-> kv'[s]]
           /\ \A s \in Slots :
                 \/ Activated(s) = {} /\ slot'[s] = slot[s] /\ kv'[s] = Grown(s)
                 \/ \E p \in Activated(s) :
                       /\ p \in Slots /\ slot[p].state = "DONE_PROMPT" /\ slot[s].state = "WAIT_OTHER"
                       /\ slot[p].task = TaskOf(s).parent
                       /\ slot'[s].state = "DONE_PROMPT" /\ slot'[s].task = slot[s].task
                       /\ slot'[s].ibatch = slot[p].ibatch /\ slot'[s].prompt = slot[p].prompt
                       /\ kv'[s] = Grown(p)
  <1> DEFINE parent(c) == CHOOSE s \in Activated(c) : TRUE
  <1>1. /\ phase = "decode" /\ off < Len(batch) /\ Accepted /\ phase' = "post" /\ cur' = 1
        /\ UNCHANGED <<setup, batchVars, launched, answer>>
    BY DEF DecodeOk, Undecoded
  <1>2. slot' = [s \in Slots |->
              IF Activated(s) = {} THEN slot[s]
              ELSE [slot[s] EXCEPT !.state = "DONE_PROMPT", !.ibatch = slot[parent(s)].ibatch,
                                   !.prompt = PromptOf(parent(s)), !.ngen = slot[parent(s)].ngen]]
    BY DEF DecodeOk
  <1>3. kv' = [s \in Slots |-> IF Activated(s) # {} THEN [u \in Slots |-> Grown(u)][parent(s)]
                               ELSE [u \in Slots |-> Grown(u)][s]]
    BY DEF DecodeOk, Grown
  <1>4. \A s \in Slots : Activated(s) # {} => parent(s) \in Activated(s)
    OBVIOUS
  <1>5. \A s \in Slots : \A p \in Activated(s) :
            /\ p \in Slots /\ slot[p].state = "DONE_PROMPT" /\ slot[s].state = "WAIT_OTHER"
            /\ slot[p].task = TaskOf(s).parent
    BY DEF Activated
  <1> HIDE DEF parent
  <1>6. ASSUME NEW s \in Slots, Activated(s) # {}
        PROVE  LET p == parent(s) IN
               /\ slot'[s] \in SlotRec /\ slot'[s].state = "DONE_PROMPT" /\ slot'[s].task = slot[s].task
               /\ slot'[s].ibatch = slot[p].ibatch /\ slot'[s].prompt = slot[p].prompt /\ kv'[s] = Grown(p)
    <2>1. PICK p \in Slots : p = parent(s)
      BY <1>4, <1>5, <1>6
    <2>2. PICK q, b, n, st : q = slot[p].prompt /\ b = slot[p].ibatch /\ n = slot[p].ngen /\ st = "DONE_PROMPT"
      OBVIOUS
    <2>3. q \in Seq(Vocab \cup Media) /\ b \in Int /\ n \in Nat /\ slot[s] \in SlotRec /\ st \in States
      BY <2>2, SlotFacts DEF BaseInv, States
    <2>4. slot'[s] = [slot[s] EXCEPT !.state = st, !.ibatch = b, !.prompt = q, !.ngen = n]
      BY <2>1, <2>2, <1>2, <1>6 DEF PromptOf
    <2>5. /\ slot'[s] \in SlotRec /\ slot'[s].state = st /\ slot'[s].task = slot[s].task
          /\ slot'[s].ibatch = b /\ slot'[s].prompt = q
      BY <2>3, <2>4 DEF SlotRec
    <2>6. kv'[s] = Grown(p)
      BY <2>1, <1>3, <1>6
    <2> QED
      BY <2>1, <2>2, <2>5, <2>6
  <1>7. ASSUME NEW s \in Slots, Activated(s) = {} PROVE slot'[s] = slot[s] /\ kv'[s] = Grown(s)
    BY <1>2, <1>3, <1>7
  <1>8. slot' \in [Slots -> SlotRec]
    <2>1. \A s \in Slots : slot'[s] \in SlotRec
      BY <1>6, <1>7 DEF BaseInv, Types
    <2>2. slot' = [s \in Slots |-> slot'[s]]
      BY <1>2
    <2> QED
      BY <2>1, <2>2
  <1>9. kv' = [s \in Slots |-> kv'[s]]
    BY <1>3
  <1>10. ASSUME NEW s \in Slots
         PROVE   \/ Activated(s) = {} /\ slot'[s] = slot[s] /\ kv'[s] = Grown(s)
                 \/ \E p \in Activated(s) :
                       /\ p \in Slots /\ slot[p].state = "DONE_PROMPT" /\ slot[s].state = "WAIT_OTHER"
                       /\ slot[p].task = TaskOf(s).parent
                       /\ slot'[s].state = "DONE_PROMPT" /\ slot'[s].task = slot[s].task
                       /\ slot'[s].ibatch = slot[p].ibatch /\ slot'[s].prompt = slot[p].prompt
                       /\ kv'[s] = Grown(p)
    <2>1. CASE Activated(s) # {}
      <3>1. parent(s) \in Activated(s)
        BY <2>1, <1>4
      <3> QED
        BY <3>1, <2>1, <1>5, <1>6
    <2> QED
      BY <2>1, <1>7
  <1> QED
    BY <1>1, <1>8, <1>9, <1>10

\* A decode activates the children of the prompts that are done.
LEMMA BaseDecodeOk == ASSUME BaseInv, DecodeOk PROVE BaseInv'
  <1>1. /\ phase = "decode" /\ phase' = "post" /\ cur' = 1 /\ UNCHANGED <<setup, batchVars, launched, answer>>
        /\ slot' \in [Slots -> SlotRec]
    BY DecodeEffect
  <1>2. \A s \in Slots : \/ slot'[s] = slot[s]
                         \/ /\ slot[s].state = "WAIT_OTHER" /\ slot'[s].state = "DONE_PROMPT"
                            /\ slot'[s].task = slot[s].task
    BY DecodeEffect
  <1>3. TaskInv'
    BY <1>1, <1>2, TaskFrame
  <1>4. ASSUME NEW s \in Slots PROVE StateInv(s)'
    <2>1. CASE slot'[s] = slot[s]
      BY <2>1, <1>1, StateFrame DEF BaseInv
    <2>2. CASE slot'[s].state = "DONE_PROMPT"
      BY <2>2 DEF StateInv
    <2> QED
      BY <2>1, <2>2, <1>2
  <1>5. FillInv' /\ BatchInv'
    BY <1>1, <1>2, DecodeAside DEF Busy, batchVars
  <1>6. Types'
    <2>1. cur' \in Slots
      BY <1>1, SetupFacts DEF BaseInv, Types, Slots
    <2> QED
      BY <2>1, <1>1, TypesFrame DEF BaseInv, Types, batchVars, Results
  <1>7. Slots' = Slots
    BY <1>1 DEF Slots, NSlots
  <1> QED
    BY <1>3, <1>4, <1>5, <1>6, <1>7 DEF BaseInv

-----------------------------------------------------------------------------
\* The server starts with idle slots and an empty batch.
LEMMA BaseInit == ASSUME Init PROVE BaseInv
  <1>1. setup \in Setups
    BY DEF Init
  <1>2. NSlots \in Nat /\ NSlots >= 1 /\ NBatch \in Nat /\ NBatch >= 1 /\ NoTask \notin Tasks
    BY <1>1, SetupFacts
  <1>3. PICK v \in Vocab : v = CHOOSE w \in Vocab : TRUE
    BY SetupAssumption
  <1>4. <<>> \in Seq(Vocab \cup Media) /\ <<>> \in Seq(BatchRec) /\ <<>> \in Seq(Results) /\ Len(<<>>) = 0
    BY EmptySeq
  <1>5. PICK r : r = [state |-> "IDLE", task |-> NoTask, prompt |-> <<>>, sampled |-> v,
                      ibatch |-> -1, ngen |-> 0, truncated |-> FALSE]
    OBVIOUS
  <1>6. r \in SlotRec /\ r.state = "IDLE" /\ r.task = NoTask
    BY <1>4, <1>5 DEF SlotRec, States
  <1>7. slot = [s \in Slots |-> r]
    BY <1>3, <1>5 DEF Init
  <1>8. /\ batch = <<>> /\ head = 0 /\ off = 0 /\ nbatch = NBatch /\ phase = "wait" /\ cur = 1
        /\ launched = {} /\ answer = [t \in Tasks |-> <<>>]
    BY DEF Init
  <1>9. Types
    BY <1>1, <1>2, <1>4, <1>6, <1>7, <1>8 DEF Types, Slots, Results
  <1>10. \A s \in Slots : slot[s].state = "IDLE" /\ slot[s].task = NoTask
    BY <1>6, <1>7
  <1>11. TaskInv
    BY <1>8, <1>10 DEF TaskInv
  <1>12. \A s \in Slots : StateInv(s)
    BY <1>10 DEF StateInv
  <1>13. FillInv /\ BatchInv
    BY <1>8 DEF FillInv, BatchInv, Busy
  <1> QED
    BY <1>9, <1>11, <1>12, <1>13 DEF BaseInv

\* Every step keeps the tasks, the states of the slots and the batch in order.
LEMMA BaseStep == ASSUME BaseInv, [Next]_vars PROVE BaseInv'
  <1>1. CASE UpdateSlots \/ RoundEnds
    BY <1>1, BaseRound
  <1>2. CASE PreDecode
    BY <1>2, BaseShiftContext, BaseBatchSampled, BaseSkipSlot, BaseNoPrompt, BasePostpone, BaseFillPrompt, BaseMediaFails
       DEF PreDecode
  <1>3. CASE DecodeOk \/ DecodeFull \/ DecodeError
    BY <1>3, BaseDecodeOk, BaseDecodeFull, BaseDecodeError
  <1>4. CASE PostDecode
    BY <1>4, BaseNothing, BaseSampleEnd, BaseSampleToken DEF PostDecode
  <1>5. ASSUME NEW t \in DOMAIN Requests, LaunchFamily(t) \/ CancelFamily(t) PROVE BaseInv'
    BY <1>5, BaseLaunchFamily, BaseCancelFamily
  <1>6. CASE UNCHANGED vars
    <2>1. /\ setup' = setup /\ slot' = slot /\ batch' = batch /\ head' = head /\ phase' = phase /\ cur' = cur
          /\ off' = off /\ nbatch' = nbatch /\ launched' = launched /\ answer' = answer
      BY <1>6 DEF vars
    <2>2. Slots' = Slots /\ Requests' = Requests /\ NBatch' = NBatch
      BY <2>1 DEF Slots, NSlots, Requests, NBatch
    <2>3. Types'
      BY <2>1, TypesFrame DEF BaseInv, Types, Results
    <2>4. TaskInv' /\ \A s \in Slots : StateInv(s)'
      BY <2>1, TaskFrame, StateFrame DEF BaseInv
    <2>5. FillInv'
      BY <2>1, <2>2 DEF BaseInv, FillInv, Processing, CanBatchWith
    <2>6. BatchInv'
      BY <2>1, <2>2 DEF BaseInv, BatchInv, Busy, Processing, CanBatchWith
    <2> QED
      BY <2>2, <2>3, <2>4, <2>5, <2>6 DEF BaseInv
  <1> QED
    BY <1>1, <1>2, <1>3, <1>4, <1>5, <1>6 DEF Next, MainLoop, Decode

\* A task has at most one answer, and none while a slot works for it.
LEMMA BaseAnswers == ASSUME BaseInv PROVE AnsweredOnce
  <1> SUFFICES ASSUME NEW t \in Tasks
               PROVE  Len(answer[t]) <= 1 /\ (answer[t] # <<>> => \A s \in Slots : slot[s].task # t)
    BY DEF AnsweredOnce
  <1>1. t # NoTask
    BY SetupFacts DEF BaseInv, Types
  <1>2. answer[t] # <<>> => Len(answer[t]) = 1 /\ \A s \in Slots : slot[s].task # t
    BY <1>1 DEF BaseInv, TaskInv
  <1>3. answer[t] = <<>> => Len(answer[t]) = 0
    BY EmptySeq
  <1>4. PICK n \in Nat : n = Len(answer[t])
    BY LenProperties DEF BaseInv, Types
  <1>5. n = 0 \/ n = 1
    BY <1>2, <1>3, <1>4
  <1>6. Len(answer[t]) <= 1
    BY <1>4, <1>5
  <1> QED
    BY <1>2, <1>6

(* A task gets one result at most, and its slot is free once it got it;    *)
(* embeddings and completions never share a batch.  For all servers and    *)
(* requests, full caches and failures included (send_final_response and    *)
(* send_error with release; can_batch_with).                               *)
THEOREM RoundsAreSound == Spec => [](AnsweredOnce /\ Homogeneous)
  <1>1. Init => BaseInv
    BY BaseInit
  <1>2. BaseInv /\ [Next]_vars => BaseInv'
    BY BaseStep
  <1>3. BaseInv => AnsweredOnce /\ Homogeneous
    <2> SUFFICES ASSUME BaseInv PROVE AnsweredOnce /\ Homogeneous
      OBVIOUS
    <2>1. Homogeneous
      BY DEF Homogeneous, BaseInv, BatchInv, Busy
    <2> QED
      BY <2>1, BaseAnswers
  <1> QED
    BY <1>1, <1>2, <1>3, PTL DEF Spec

-----------------------------------------------------------------------------
\* The fields of a slot.
LEMMA RecFacts ==
    ASSUME NEW r \in SlotRec
    PROVE  /\ r.prompt \in Seq(Vocab \cup Media) /\ Len(r.prompt) \in Nat /\ r.ibatch \in Int
           /\ r.state \in States /\ r.sampled \in Vocab
  <1>1. r.prompt \in Seq(Vocab \cup Media) /\ r.ibatch \in Int /\ r.state \in States /\ r.sampled \in Vocab
    BY DEF SlotRec
  <1> QED
    BY <1>1, LenProperties

\* The memory of a slot.
LEMMA MemoryFacts ==
    ASSUME Types, Context, NEW s \in Slots
    PROVE  /\ kv[s] \in Seq(Vocab \cup Media) /\ Len(kv[s]) \in Nat
           /\ PromptOf(s) \in Seq(Vocab \cup Media) /\ Len(PromptOf(s)) \in Nat
           /\ MemInv(s) /\ SampleInv(s) /\ RoomInv(s)
  <1>1. kv[s] \in Seq(Vocab \cup Media) /\ SlotContext(s)
    BY DEF Context
  <1>2. PromptOf(s) \in Seq(Vocab \cup Media) /\ Len(PromptOf(s)) \in Nat
    BY SlotFacts DEF PromptOf
  <1> QED
    BY <1>1, <1>2, LenProperties DEF SlotContext

\* When nothing of a slot is left in the batch the memory has its whole prompt.
LEMMA NothingPending ==
    ASSUME Types, Context, NEW s \in Slots, Pending(s) = {}
    PROVE  /\ Len(PromptOf(s)) <= Len(kv[s])
           /\ \A p \in 1..Len(PromptOf(s)) : kv[s][p] = PromptOf(s)[p]
           /\ slot[s].state \in {"DONE_PROMPT", "GENERATING"} => kv[s] = PromptOf(s)
  <1>1. /\ kv[s] \in Seq(Vocab \cup Media) /\ Len(kv[s]) \in Nat
        /\ PromptOf(s) \in Seq(Vocab \cup Media) /\ Len(PromptOf(s)) \in Nat /\ MemInv(s)
    BY MemoryFacts
  <1>2. \A p \in Len(kv[s])..Len(PromptOf(s)) - 1 : FALSE
    BY <1>1 DEF MemInv
  <1>3. Len(PromptOf(s)) <= Len(kv[s])
    BY <1>1, <1>2
  <1>4. \A p \in 1..Len(PromptOf(s)) : kv[s][p] = PromptOf(s)[p]
    BY <1>1, <1>3 DEF MemInv
  <1>5. ASSUME slot[s].state \in {"DONE_PROMPT", "GENERATING"} PROVE kv[s] = PromptOf(s)
    <2>1. Len(kv[s]) = Len(PromptOf(s))
      BY <1>1, <1>3, <1>5 DEF MemInv
    <2> QED
      BY <2>1, <1>1, <1>4, SeqEqual
  <1> QED
    BY <1>3, <1>4, <1>5

\* Between two rounds nothing is pending.
LEMMA NoRound ==
    ASSUME ~ Busy, NEW s
    PROVE  Pending(s) = {}
  BY DEF Pending

\* A slot whose memory has its whole prompt and that has nothing in the batch.
LEMMA MemWhole ==
    ASSUME NEW s, Pending(s)' = {}, Len(PromptOf(s))' \in Nat, Len(kv[s])' \in Nat,
           Len(PromptOf(s))' <= Len(kv[s])',
           \A p \in 1..Len(PromptOf(s))' : kv'[s][p] = PromptOf(s)'[p],
           slot'[s].state \in {"DONE_PROMPT", "GENERATING"} => Len(kv[s])' <= Len(PromptOf(s))'
    PROVE  MemInv(s)'
  BY DEF MemInv

\* A slot whose tokens stay where they are.
LEMMA MemFrame ==
    ASSUME NEW s, MemInv(s), PromptOf(s)' = PromptOf(s), kv'[s] = kv[s], batch' = batch, Pending(s)' = Pending(s),
           slot'[s].state \in {"DONE_PROMPT", "GENERATING"} => Len(kv[s]) <= Len(PromptOf(s)),
           slot'[s].state = "IDLE" => Pending(s) = {}
    PROVE  MemInv(s)'
  BY DEF MemInv

\* What is pending stays pending.
LEMMA PendingFrame ==
    ASSUME NEW s, batch' = batch, Busy' <=> Busy, Busy => Done' = Done
    PROVE  Pending(s)' = Pending(s)
  BY DEF Pending

\* A slot that neither samples nor is about to.
LEMMA QuietSlot ==
    ASSUME NEW s, slot'[s].state \notin {"DONE_PROMPT", "GENERATING"}
    PROVE  SampleInv(s)' /\ RoomInv(s)'
  BY DEF SampleInv, RoomInv

\* A slot that samples from the same entry as before.
LEMMA SampleFrame ==
    ASSUME Types, NEW s \in Slots, SampleInv(s), RoomInv(s), setup' = setup, batch' = batch, slot'[s] = slot[s],
           Busy' <=> Busy, phase' # "batch",
           Busy => \A u \in Slots : slot'[u].task \in {slot[u].task, NoTask},
           Busy /\ slot[s].ibatch \in From(s)..Len(batch) - 1 => slot[s].ibatch \in From(s)'..Len(batch) - 1
    PROVE  SampleInv(s)' /\ RoomInv(s)'
  <1>1. Requests' = Requests /\ NCtx' = NCtx
    BY DEF Requests, NCtx
  <1>2. RoomInv(s)'
    BY <1>1 DEF RoomInv, PromptOf, NeedEmbd
  <1>3. ASSUME Busy, Logits(s) PROVE Logits(s)'
    <2> DEFINE e == batch[slot[s].ibatch + 1]
    <2>1. e.slot \in Slots
      <3>1. slot[s].ibatch \in Int /\ From(s) \in Nat /\ Len(batch) \in Nat
        BY SlotFacts, ViewFacts DEF From
      <3>2. slot[s].ibatch + 1 \in 1..Len(batch)
        BY <3>1, <1>3 DEF Logits
      <3> QED
        BY <3>2, EntryFacts
    <2>2. slot'[e.slot].task \in {slot[e.slot].task, NoTask}
      BY <2>1, <1>3
    <2>3. slot[s].ibatch \in From(s)'..Len(batch) - 1
      BY <1>3 DEF Logits
    <2> QED
      BY <2>2, <2>3, <1>1, <1>3 DEF Logits, PromptOf, TaskOf, IsChild
  <1>4. SampleInv(s)'
    BY <1>3 DEF SampleInv
  <1> QED
    BY <1>2, <1>4

\* A cache that never runs full, while the sub-batch stays the same.
LEMMA WholeFrame ==
    ASSUME WholeInv, setup' = setup, batch' = batch, off' = off, nbatch' = nbatch, phase' = phase \/ ~ Busy'
    PROVE  WholeInv'
  BY DEF WholeInv, CanBeFull, NBatch, Busy

-----------------------------------------------------------------------------
\* A round begins.
LEMMA ContextUpdateSlots == ASSUME BaseInv, Context, UpdateSlots PROVE Context'
  <1>1. /\ setup' = setup /\ slot' = slot /\ kv' = kv /\ batch' = batch /\ off' = off /\ nbatch' = nbatch
        /\ cur' = cur /\ phase = "wait" /\ phase' = "shift"
    BY DEF UpdateSlots, batchVars
  <1>2. ~ Busy /\ ~ Busy' /\ Types
    BY <1>1 DEF Busy, BaseInv
  <1>3. Slots' = Slots
    BY <1>1 DEF Slots, NSlots
  <1>4. ASSUME NEW s \in Slots PROVE SlotContext(s)'
    <2>1. MemInv(s) /\ SampleInv(s) /\ RoomInv(s)
      BY <1>2, MemoryFacts
    <2>2. Pending(s)' = {} /\ Pending(s) = {}
      BY <1>2 DEF Pending
    <2>3. MemInv(s)'
      BY <2>1, <2>2, <1>1, MemFrame DEF MemInv, PromptOf
    <2>4. SampleInv(s)' /\ RoomInv(s)'
      BY <2>1, <1>1, <1>2, SampleFrame
    <2> QED
      BY <2>3, <2>4 DEF SlotContext
  <1>5. WholeInv'
    BY <1>1, <1>2, WholeFrame DEF Context
  <1> QED
    BY <1>1, <1>3, <1>4, <1>5 DEF Context

\* A family starts on idle slots, with the prompts that they still hold.
LEMMA ContextLaunchFamily == ASSUME BaseInv, Context, NEW t, LaunchFamily(t) PROVE Context'
  <1>1. /\ setup' = setup /\ kv' = kv /\ batch' = batch /\ off' = off /\ nbatch' = nbatch
        /\ cur' = cur /\ phase = "wait" /\ phase' = phase
    BY DEF LaunchFamily, batchVars
  <1>2. ~ Busy /\ ~ Busy' /\ Types
    BY <1>1 DEF Busy, BaseInv
  <1>3. Slots' = Slots
    BY <1>1 DEF Slots, NSlots
  <1>4. ASSUME NEW s \in Slots
        PROVE  slot'[s] = slot[s] \/ (/\ slot'[s].prompt = slot[s].prompt /\ slot'[s].state \in {"STARTED", "WAIT_OTHER"})
    <2>1. PICK place \in [Family(t) -> {u \in Slots : ~ Processing(u)}] :
            slot' = [u \in Slots |->
                  IF \E v \in Family(t) : place[v] = u
                  THEN LaunchSlot(slot[u], CHOOSE v \in Family(t) : place[v] = u) ELSE slot[u]]
      BY DEF LaunchFamily
    <2>2. PICK v : v = CHOOSE u \in Family(t) : place[u] = s
      OBVIOUS
    <2>3. slot'[s] = slot[s] \/ slot'[s] = LaunchSlot(slot[s], v)
      BY <2>1, <2>2
    <2>4. slot[s] \in SlotRec
      BY <1>2, SlotFacts
    <2> QED
      BY <2>3, <2>4 DEF LaunchSlot, SlotRec
  <1>5. ASSUME NEW s \in Slots PROVE SlotContext(s)'
    <2>1. MemInv(s) /\ SampleInv(s) /\ RoomInv(s)
      BY <1>2, MemoryFacts
    <2>2. Pending(s)' = {} /\ Pending(s) = {}
      BY <1>2 DEF Pending
    <2>3. MemInv(s)'
      BY <2>1, <2>2, <1>1, <1>4, MemFrame DEF MemInv, PromptOf
    <2>4. SampleInv(s)' /\ RoomInv(s)'
      BY <2>1, <1>1, <1>2, <1>4, SampleFrame, QuietSlot
    <2> QED
      BY <2>3, <2>4 DEF SlotContext
  <1>6. WholeInv'
    BY <1>1, <1>2, WholeFrame DEF Context
  <1> QED
    BY <1>1, <1>3, <1>5, <1>6 DEF Context

\* A slot that is released and has nothing in the batch keeps its tokens, or none if it is a child.
LEMMA ContextReleased ==
    ASSUME BaseInv, Context, NEW s \in Slots, Pending(s) = {}, Pending(s)' = {}, slot'[s].state = "IDLE",
           slot'[s].prompt = IF IsChild(slot[s].task) THEN <<>> ELSE slot[s].prompt, kv'[s] = KvReleased(s)
    PROVE  SlotContext(s)'
  <1>1. Types
    BY DEF BaseInv
  <1>2. /\ Len(kv[s]) \in Nat /\ Len(PromptOf(s)) \in Nat /\ Len(PromptOf(s)) <= Len(kv[s])
        /\ \A p \in 1..Len(PromptOf(s)) : kv[s][p] = PromptOf(s)[p]
    BY <1>1, MemoryFacts, NothingPending
  <1>3. MemInv(s)'
    <2>1. CASE IsChild(slot[s].task)
      <3>1. PromptOf(s)' = <<>> /\ kv'[s] = <<>>
        BY <2>1 DEF PromptOf, KvReleased
      <3>2. Len(PromptOf(s))' = 0 /\ Len(kv[s])' = 0
        BY <3>1, EmptySeq
      <3> QED
        BY <3>1, <3>2, MemWhole
    <2>2. CASE ~ IsChild(slot[s].task)
      <3>1. PromptOf(s)' = PromptOf(s) /\ kv'[s] = kv[s]
        BY <2>2 DEF PromptOf, KvReleased
      <3> QED
        BY <3>1, <1>2, MemWhole
    <2> QED
      BY <2>1, <2>2
  <1>4. SampleInv(s)' /\ RoomInv(s)'
    BY QuietSlot
  <1> QED
    BY <1>3, <1>4 DEF SlotContext

\* The memory of a released slot.
LEMMA KvReleasedFacts ==
    ASSUME Types, Context, NEW s \in Slots
    PROVE  KvReleased(s) \in Seq(Vocab \cup Media)
  <1>1. kv[s] \in Seq(Vocab \cup Media) /\ <<>> \in Seq(Vocab \cup Media)
    BY MemoryFacts, EmptySeq
  <1> QED
    BY <1>1 DEF KvReleased

\* A family is cancelled between two rounds.
LEMMA ContextCancelFamily == ASSUME BaseInv, Context, NEW t, CancelFamily(t) PROVE Context'
  <1>1. /\ setup' = setup /\ batch' = batch /\ off' = off /\ nbatch' = nbatch
        /\ cur' = cur /\ phase = "wait" /\ phase' = phase
        /\ slot' = [s \in Slots |-> IF s \in Cancelled(t) THEN Released(slot[s]) ELSE slot[s]]
        /\ kv' = [s \in Slots |-> IF s \in Cancelled(t) THEN KvReleased(s) ELSE kv[s]]
    BY DEF CancelFamily, batchVars
  <1>2. ~ Busy /\ ~ Busy' /\ Types
    BY <1>1 DEF Busy, BaseInv
  <1>3. Slots' = Slots
    BY <1>1 DEF Slots, NSlots
  <1>4. kv' \in [Slots -> Seq(Vocab \cup Media)]
    BY <1>1, <1>2, MemoryFacts, KvReleasedFacts
  <1>5. ASSUME NEW s \in Slots PROVE SlotContext(s)'
    <2>1. MemInv(s) /\ SampleInv(s) /\ RoomInv(s) /\ slot[s] \in SlotRec
      BY <1>2, MemoryFacts, SlotFacts
    <2>2. Pending(s)' = {} /\ Pending(s) = {}
      BY <1>2 DEF Pending
    <2>3. CASE s \in Cancelled(t)
      <3>1. slot'[s] = Released(slot[s]) /\ kv'[s] = KvReleased(s)
        BY <2>3, <1>1
      <3>2. slot'[s].state = "IDLE" /\ slot'[s].prompt = IF IsChild(slot[s].task) THEN <<>> ELSE slot[s].prompt
        BY <3>1, <2>1, ReleasedFacts
      <3> QED
        BY <3>1, <3>2, <2>2, ContextReleased
    <2>4. CASE s \notin Cancelled(t)
      <3>1. slot'[s] = slot[s] /\ kv'[s] = kv[s]
        BY <2>4, <1>1
      <3>2. MemInv(s)'
        BY <3>1, <2>1, <2>2, <1>1, MemFrame DEF MemInv, PromptOf
      <3>3. SampleInv(s)' /\ RoomInv(s)'
        BY <3>1, <2>1, <1>1, <1>2, SampleFrame
      <3> QED
        BY <3>2, <3>3 DEF SlotContext
    <2> QED
      BY <2>3, <2>4
  <1>6. WholeInv'
    BY <1>1, <1>2, WholeFrame DEF Context
  <1> QED
    BY <1>3, <1>4, <1>5, <1>6 DEF Context

-----------------------------------------------------------------------------
\* A slot that the iteration over the prompts leaves alone.
LEMMA ContextAside ==
    ASSUME BaseInv, Context, phase = "prompt", setup' = setup, batch' = batch, off' = off, phase' \in {"prompt", "decode"},
           NEW s \in Slots, slot'[s] = slot[s], kv'[s] = kv[s],
           \A u \in Slots : slot'[u].task \in {slot[u].task, NoTask}
    PROVE  SlotContext(s)'
  <1>1. Busy /\ Busy' /\ Types
    BY DEF Busy, BaseInv
  <1>2. MemInv(s) /\ SampleInv(s) /\ RoomInv(s)
    BY <1>1, MemoryFacts
  <1>3. Pending(s)' = Pending(s) /\ From(s)' = From(s)
    BY <1>1 DEF Pending, Done, From
  <1>4. MemInv(s)'
    BY <1>2, <1>3, MemFrame DEF MemInv, PromptOf
  <1>5. SampleInv(s)' /\ RoomInv(s)'
    BY <1>1, <1>2, <1>3, SampleFrame
  <1> QED
    BY <1>4, <1>5 DEF SlotContext

\* The sub-batch is not touched while the prompts are processed.
LEMMA WholePrompt ==
    ASSUME BaseInv, Context, phase = "prompt", setup' = setup, off' = off, nbatch' = nbatch
    PROVE  WholeInv'
  <1>1. off = 0 /\ nbatch = NBatch
    BY DEF BaseInv, FillInv
  <1> QED
    BY <1>1 DEF WholeInv, NBatch

\* A slot that has not joined the batch yet has nothing in it.
LEMMA NotJoined ==
    ASSUME BaseInv, phase = "prompt", TakesPart
    PROVE  (\A i \in 1..Len(batch) : batch[i].slot # cur) /\ Pending(cur) = {}
  <1>1. slot[cur].state \in {"STARTED", "PROCESSING_PROMPT"} /\ cur \in Slots /\ cur \in Nat
    BY TakesPartFacts DEF Slots
  <1>2. ASSUME NEW i \in 1..Len(batch) PROVE batch[i].slot # cur
    BY <1>1 DEF BaseInv, FillInv
  <1> QED
    BY <1>2 DEF Pending

\* A slot without a prompt for this batch is passed over.
LEMMA ContextSkipSlot == ASSUME BaseInv, Context, SkipSlot PROVE Context'
  <1>1. /\ setup' = setup /\ slot' = slot /\ kv' = kv /\ batch' = batch /\ off' = off /\ nbatch' = nbatch
        /\ phase = "prompt" /\ phase' \in {"prompt", "decode"}
    BY DEF SkipSlot, batchVars, NextPhase
  <1>2. Slots' = Slots /\ WholeInv'
    BY <1>1, WholePrompt DEF Slots, NSlots
  <1>3. \A s \in Slots : SlotContext(s)'
    BY <1>1, ContextAside
  <1> QED
    BY <1>1, <1>2, <1>3 DEF Context

\* An empty prompt is answered, a prompt that is too large refused.
LEMMA ContextNoPrompt == ASSUME BaseInv, Context, EmptyPrompt \/ RejectPrompt PROVE Context'
  <1>1. /\ setup' = setup /\ batch' = batch /\ off' = off /\ nbatch' = nbatch
        /\ phase = "prompt" /\ phase' \in {"prompt", "decode"} /\ TakesPart
        /\ slot' = [slot EXCEPT ![cur] = Released(slot[cur])] /\ kv' = [kv EXCEPT ![cur] = KvReleased(cur)]
    BY DEF EmptyPrompt, RejectPrompt, Finish, batchVars, NextPhase
  <1>2. Types /\ cur \in Slots /\ slot \in [Slots -> SlotRec] /\ kv \in [Slots -> Seq(Vocab \cup Media)]
    BY DEF BaseInv, Types, Context
  <1>3. /\ slot'[cur] = Released(slot[cur]) /\ kv'[cur] = KvReleased(cur)
        /\ \A s \in Slots \ {cur} : slot'[s] = slot[s] /\ kv'[s] = kv[s]
    BY <1>1, <1>2
  <1>4. /\ slot'[cur].state = "IDLE" /\ slot'[cur].task = NoTask
        /\ slot'[cur].prompt = IF IsChild(slot[cur].task) THEN <<>> ELSE slot[cur].prompt
    BY <1>2, <1>3, ReleasedFacts
  <1>5. Pending(cur) = {}
    BY <1>1, NotJoined
  <1>6. ASSUME NEW s \in Slots PROVE SlotContext(s)'
    <2>1. CASE s = cur
      <3>1. Pending(s) = {} /\ Pending(s)' = {}
        <4>1. Busy /\ Busy' /\ Done' = Done
          BY <1>1 DEF Busy, Done
        <4> QED
          BY <4>1, <2>1, <1>1, <1>5, PendingFrame
      <3> QED
        BY <3>1, <2>1, <1>3, <1>4, ContextReleased
    <2>2. CASE s # cur
      <3>1. \A u \in Slots : slot'[u].task \in {slot[u].task, NoTask}
        BY <1>3, <1>4
      <3> QED
        BY <3>1, <2>2, <1>1, <1>3, ContextAside
    <2> QED
      BY <2>1, <2>2
  <1>7. kv' \in [Slots -> Seq(Vocab \cup Media)]
    BY <1>1, <1>2, KvReleasedFacts
  <1>8. Slots' = Slots /\ WholeInv'
    BY <1>1, WholePrompt DEF Slots, NSlots
  <1> QED
    BY <1>6, <1>7, <1>8 DEF Context

\* An input that cannot be split waits: the slot forgets what the input does not share.
LEMMA ContextPostpone == ASSUME BaseInv, Context, Postpone PROVE Context'
  <1>1. /\ setup' = setup /\ batch' = batch /\ off' = off /\ nbatch' = nbatch /\ kv' = kv
        /\ phase = "prompt" /\ phase' \in {"prompt", "decode"} /\ TakesPart /\ Startable
        /\ slot' = [slot EXCEPT ![cur].state = "PROCESSING_PROMPT", ![cur].prompt = Kept(cur)]
    BY DEF Postpone, batchVars, NextPhase
  <1>2. Types /\ cur \in Slots /\ slot \in [Slots -> SlotRec] /\ kv \in [Slots -> Seq(Vocab \cup Media)]
    BY DEF BaseInv, Types, Context
  <1>3. /\ slot'[cur].state = "PROCESSING_PROMPT" /\ slot'[cur].prompt = Kept(cur) /\ slot'[cur].task = slot[cur].task
        /\ \A s \in Slots \ {cur} : slot'[s] = slot[s]
    BY <1>1, <1>2 DEF SlotRec
  <1>4. Pending(cur) = {}
    BY <1>1, NotJoined
  <1>5. ASSUME NEW s \in Slots, s = cur PROVE SlotContext(s)'
    <2>1. Pending(s)' = {}
      <3>1. Busy /\ Busy' /\ Done' = Done
        BY <1>1 DEF Busy, Done
      <3> QED
        BY <3>1, <1>1, <1>4, <1>5, PendingFrame
    <2>2. /\ Len(kv[s]) \in Nat /\ Len(PromptOf(s)) \in Nat /\ Len(PromptOf(s)) <= Len(kv[s])
          /\ \A p \in 1..Len(PromptOf(s)) : kv[s][p] = PromptOf(s)[p]
      BY <1>2, <1>4, <1>5, MemoryFacts, NothingPending
    <2>3. /\ Len(Kept(s)) \in Nat /\ Len(Kept(s)) <= Len(PromptOf(s))
          /\ Kept(s) = SubSeq(PromptOf(s), 1, Len(Kept(s)))
      BY <1>1, <1>5, KeptFacts
    <2>4. \A p \in 1..Len(Kept(s)) : Kept(s)[p] = PromptOf(s)[p]
      <3>1. PICK k \in Nat : k = Len(Kept(s))
        BY <2>3
      <3>2. PromptOf(s) \in Seq(Vocab \cup Media) /\ k \in 0..Len(PromptOf(s))
        BY <3>1, <2>2, <2>3, <1>2, MemoryFacts
      <3>3. \A p \in 1..k : SubSeq(PromptOf(s), 1, k)[p] = PromptOf(s)[p]
        BY <3>2, PrefixFacts
      <3> QED
        BY <3>1, <3>3, <2>3
    <2>5. PromptOf(s)' = Kept(s) /\ kv'[s] = kv[s]
      BY <1>1, <1>3, <1>5 DEF PromptOf
    <2>6. MemInv(s)'
      <3>1. /\ Len(PromptOf(s))' \in Nat /\ Len(kv[s])' \in Nat /\ Len(PromptOf(s))' <= Len(kv[s])'
            /\ \A p \in 1..Len(PromptOf(s))' : kv'[s][p] = PromptOf(s)'[p]
        BY <2>2, <2>3, <2>4, <2>5
      <3> QED
        BY <3>1, <2>1, <1>3, <1>5, MemWhole
    <2>7. SampleInv(s)' /\ RoomInv(s)'
      BY <1>3, <1>5, QuietSlot
    <2> QED
      BY <2>6, <2>7 DEF SlotContext
  <1>6. ASSUME NEW s \in Slots, s # cur PROVE SlotContext(s)'
    <2>1. \A u \in Slots : slot'[u].task \in {slot[u].task, NoTask}
      BY <1>3
    <2> QED
      BY <2>1, <1>1, <1>3, <1>6, ContextAside
  <1>7. Slots' = Slots /\ WholeInv'
    BY <1>1, WholePrompt DEF Slots, NSlots
  <1> QED
    BY <1>1, <1>2, <1>5, <1>6, <1>7 DEF Context

\* A media chunk cannot be processed: memory and slot hold what was decoded.
LEMMA ContextMediaFails == ASSUME BaseInv, Context, MediaFails PROVE Context'
  <1>1. /\ setup' = setup /\ batch' = batch /\ off' = off /\ nbatch' = nbatch
        /\ phase = "prompt" /\ phase' \in {"prompt", "decode"} /\ TakesPart /\ Startable
    BY DEF MediaFails, batchVars, NextPhase
  <1>2. PICK n \in Len(Kept(cur))..MediaEnd(cur) - 1 :
            /\ slot' = [slot EXCEPT ![cur] = Released([@ EXCEPT !.prompt = SubSeq(Input(slot[cur].task), 1, n)])]
            /\ kv' = [kv EXCEPT ![cur] = SubSeq(Input(slot[cur].task), 1, n)]
    BY DEF MediaFails
  <1>3. Types /\ cur \in Slots /\ slot \in [Slots -> SlotRec] /\ kv \in [Slots -> Seq(Vocab \cup Media)]
    BY DEF BaseInv, Types, Context
  <1>4. PICK held : held = SubSeq(Input(slot[cur].task), 1, n)
    OBVIOUS
  <1>5. held \in Seq(Vocab \cup Media) /\ Len(held) \in Nat
    <2>1. /\ Len(Kept(cur)) \in Nat /\ TextStart \in Nat /\ TextStart <= FillEnd /\ FillEnd \in Nat
          /\ FillEnd <= Len(Input(slot[cur].task))
      BY <1>1, KeptFacts, FillFacts
    <2>2. Input(slot[cur].task) \in Seq(Vocab \cup Media) /\ Len(Input(slot[cur].task)) \in Nat
      BY <1>1, TakesPartFacts, RequestFacts DEF BaseInv, Types
    <2>3. n \in 0..Len(Input(slot[cur].task))
      BY <2>1, <2>2 DEF TextStart
    <2> QED
      BY <2>2, <2>3, <1>4, PrefixFacts, LenProperties
  <1>6. PICK r : r = [slot[cur] EXCEPT !.prompt = held]
    OBVIOUS
  <1>7. r \in SlotRec /\ r.prompt = held /\ r.task = slot[cur].task
    BY <1>3, <1>5, <1>6 DEF SlotRec
  <1>8. /\ slot'[cur] = Released(r) /\ kv'[cur] = held
        /\ \A s \in Slots \ {cur} : slot'[s] = slot[s] /\ kv'[s] = kv[s]
    BY <1>2, <1>3, <1>4, <1>6
  <1>9. ~ IsChild(slot[cur].task)
    BY <1>1, TakesPartFacts
  <1>10. slot'[cur].state = "IDLE" /\ slot'[cur].task = NoTask /\ slot'[cur].prompt = held
    BY <1>7, <1>8, <1>9, ReleasedFacts
  <1>11. ASSUME NEW s \in Slots, s = cur PROVE SlotContext(s)'
    <2>1. Pending(s)' = {}
      <3>1. Busy /\ Busy' /\ Done' = Done /\ Pending(cur) = {}
        BY <1>1, NotJoined DEF Busy, Done
      <3> QED
        BY <3>1, <1>1, <1>11, PendingFrame
    <2>2. PromptOf(s)' = held /\ kv'[s] = held
      BY <1>8, <1>10, <1>11 DEF PromptOf
    <2>3. MemInv(s)'
      BY <2>1, <2>2, <1>5, MemWhole
    <2>4. SampleInv(s)' /\ RoomInv(s)'
      BY <1>10, <1>11, QuietSlot
    <2> QED
      BY <2>3, <2>4 DEF SlotContext
  <1>12. ASSUME NEW s \in Slots, s # cur PROVE SlotContext(s)'
    <2>1. \A u \in Slots : slot'[u].task \in {slot[u].task, NoTask}
      BY <1>8, <1>10
    <2> QED
      BY <2>1, <1>1, <1>8, <1>12, ContextAside
  <1>13. kv' \in [Slots -> Seq(Vocab \cup Media)]
    BY <1>2, <1>3, <1>4, <1>5
  <1>14. Slots' = Slots /\ WholeInv'
    BY <1>1, WholePrompt DEF Slots, NSlots
  <1> QED
    BY <1>11, <1>12, <1>13, <1>14 DEF Context

-----------------------------------------------------------------------------
\* The memory after a range was removed and the rest moved down.
LEMMA RemoveRangeFacts ==
    ASSUME NEW S, NEW q \in Seq(S), NEW k \in Nat, NEW d \in Nat, k + d < Len(q)
    PROVE  RemoveRange(q, k, k + d) = ShiftTokens(q, k, d)
  <1> DEFINE n == Len(q)
             a == SubSeq(q, 1, k)
             b == SubSeq(q, k + d + 1, n)
  <1>1. n \in Nat /\ k + d + 1 \in 1..n + 1
    BY LenProperties
  <1>2. a \in Seq(S) /\ Len(a) = k /\ \A i \in 1..k : a[i] = q[i]
    <2>1. k \in 0..Len(q)
      BY <1>1
    <2> QED
      BY <2>1, PrefixFacts
  <1>3. b \in Seq(S) /\ Len(b) = n - k - d /\ \A i \in 1..n - k - d : b[i] = q[k + d + i]
    <2>1. \A i \in k + d + 1..n : q[i] \in S
      BY <1>1, ElementOfSeq
    <2>2. PICK m \in Int, l \in Int : m = k + d + 1 /\ l = n
      BY <1>1
    <2>3. \A i \in m..l : q[i] \in S
      BY <2>1, <2>2
    <2>4. /\ SubSeq(q, m, l) \in Seq(S) /\ Len(SubSeq(q, m, l)) = IF m <= l THEN l - m + 1 ELSE 0
          /\ \A i \in 1..l - m + 1 : SubSeq(q, m, l)[i] = q[m + i - 1]
      BY <2>3, SubSeqProperties
    <2>5. b = SubSeq(q, m, l) /\ l - m + 1 = n - k - d /\ m <= l
      BY <2>2, <1>1
    <2>6. \A i \in 1..n - k - d : m + i - 1 = k + d + i
      BY <2>2, <1>1
    <2> QED
      BY <2>4, <2>5, <2>6
  <1>4. RemoveRange(q, k, k + d) = a \o b
    BY DEF RemoveRange
  <1> HIDE DEF a, b, n
  <1>5. /\ a \o b \in Seq(S) /\ Len(a \o b) = k + (n - k - d)
        /\ \A i \in 1..k + (n - k - d) : (a \o b)[i] = IF i <= k THEN a[i] ELSE b[i - k]
    <2>1. PICK l \in Int : l = n - k - d
      BY <1>1
    <2>2. /\ a \o b \in Seq(S) /\ Len(a \o b) = Len(a) + Len(b)
          /\ \A i \in 1..Len(a) + Len(b) : (a \o b)[i] = IF i <= Len(a) THEN a[i] ELSE b[i - Len(a)]
      BY <1>2, <1>3, ConcatProperties
    <2>3. Len(a) = k /\ Len(b) = l
      BY <2>1, <1>2, <1>3
    <2>4. Len(a \o b) = k + l /\ \A i \in 1..k + l : (a \o b)[i] = IF i <= k THEN a[i] ELSE b[i - k]
      BY <2>2, <2>3
    <2> QED
      BY <2>1, <2>2, <2>4
  <1>6. /\ ShiftTokens(q, k, d) \in Seq(S) /\ Len(ShiftTokens(q, k, d)) = n - d
        /\ \A i \in 1..n - d : ShiftTokens(q, k, d)[i] = IF i <= k THEN q[i] ELSE q[i + d]
    BY ShiftTokensFacts DEF n
  <1>7. k + (n - k - d) = n - d
    BY <1>1
  <1>8. ASSUME NEW i \in 1..n - d PROVE (a \o b)[i] = ShiftTokens(q, k, d)[i]
    <2>1. CASE i <= k
      <3>1. i \in 1..k /\ i \in 1..k + (n - k - d)
        BY <2>1, <1>1, <1>7
      <3>2. (a \o b)[i] = a[i] /\ a[i] = q[i]
        BY <3>1, <2>1, <1>2, <1>5
      <3> QED
        BY <3>2, <2>1, <1>6
    <2>2. CASE i > k
      <3>1. i - k \in 1..n - k - d /\ k + d + (i - k) = i + d /\ ~ (i <= k)
        BY <2>2, <1>1
      <3>2. b[i - k] = q[i + d]
        BY <3>1, <1>3
      <3> QED
        BY <3>1, <3>2, <1>5, <1>6, <1>7
    <2>3. i <= k \/ i > k
      BY <1>1
    <2> QED
      BY <2>1, <2>2, <2>3
  <1> QED
    BY <1>4, <1>5, <1>6, <1>7, <1>8, SeqEqual

\* A shift moves the memory and the server's copy alike, and makes room.
LEMMA ContextShiftContext == ASSUME BaseInv, Context, Supported(setup), ShiftContext PROVE Context'
  <1>1. /\ phase = "shift" /\ phase' = "batch" /\ setup' = setup /\ batch' = batch /\ off' = off /\ nbatch' = nbatch
        /\ slot' = [s \in Slots |->
              IF ~ RanFull(s) THEN slot[s]
              ELSE IF ~ CanShift(s) THEN Released(slot[s])
              ELSE [slot[s] EXCEPT !.prompt = ShiftTokens(slot[s].prompt, Keep(s), Discard(s)), !.truncated = TRUE]]
        /\ kv' = [s \in Slots |->
              IF ~ RanFull(s) THEN kv[s]
              ELSE IF ~ CanShift(s) THEN KvReleased(s)
              ELSE RemoveRange(kv[s], Keep(s), Keep(s) + Discard(s))]
    BY DEF ShiftContext, batchVars
  <1>2. ~ Busy /\ ~ Busy' /\ Types
    BY <1>1 DEF Busy, BaseInv
  <1>3. Slots' = Slots /\ NCtx' = NCtx /\ NCtx \in Nat /\ Requests' = Requests
    BY <1>1, <1>2, SetupFacts DEF Slots, NSlots, NCtx, Requests, Types
  <1>4. ASSUME NEW s \in Slots
        PROVE  /\ Pending(s)' = {} /\ Pending(s) = {} /\ slot[s] \in SlotRec /\ Len(PromptOf(s)) \in Nat
               /\ MemInv(s) /\ SampleInv(s) /\ RoomInv(s)
    BY <1>2, MemoryFacts, SlotFacts DEF Pending
  <1>5. ASSUME NEW s \in Slots, ~ RanFull(s) PROVE SlotContext(s)' /\ kv'[s] \in Seq(Vocab \cup Media)
    <2>1. slot'[s] = slot[s] /\ kv'[s] = kv[s]
      BY <1>1, <1>5
    <2>2. MemInv(s)'
      <3>1. slot[s].state \in {"DONE_PROMPT", "GENERATING"} => Len(kv[s]) <= Len(PromptOf(s))
        BY <1>4 DEF MemInv
      <3>2. PromptOf(s)' = PromptOf(s) /\ Pending(s)' = Pending(s)
        BY <2>1, <1>4 DEF PromptOf
      <3> QED
        BY <3>1, <3>2, <2>1, <1>1, <1>4, MemFrame
    <2>3. SampleInv(s)'
      BY <2>1, <1>2, <1>4 DEF SampleInv
    <2>4. slot[s].state = "GENERATING" => Len(PromptOf(s)) + 1 < NCtx
      BY <1>3, <1>4, <1>5 DEF RanFull
    <2>5. RoomInv(s)'
      BY <2>1, <2>4, <1>3, <1>4 DEF RoomInv, PromptOf, NeedEmbd
    <2> QED
      BY <2>1, <2>2, <2>3, <2>5, <1>2, MemoryFacts DEF SlotContext
  <1>6. ASSUME NEW s \in Slots, RanFull(s), ~ CanShift(s) PROVE SlotContext(s)' /\ kv'[s] \in Seq(Vocab \cup Media)
    <2>1. slot'[s] = Released(slot[s]) /\ kv'[s] = KvReleased(s)
      BY <1>1, <1>6
    <2>2. slot'[s].state = "IDLE" /\ slot'[s].prompt = IF IsChild(slot[s].task) THEN <<>> ELSE slot[s].prompt
      BY <2>1, <1>4, ReleasedFacts
    <2> QED
      BY <2>1, <2>2, <1>2, <1>4, ContextReleased, KvReleasedFacts
  <1>7. ASSUME NEW s \in Slots, RanFull(s), CanShift(s) PROVE SlotContext(s)' /\ kv'[s] \in Seq(Vocab \cup Media)
    <2>1. slot[s].state = "GENERATING"
      BY <1>7 DEF RanFull
    <2>2. kv[s] = PromptOf(s)
      BY <2>1, <1>2, <1>4, NothingPending
    <2>3. slot[s].task \in DOMAIN Requests /\ ~ NeedEmbd(slot[s].task)
      BY <2>1, BusySlot DEF Processing, BaseInv, StateInv
    <2>4. TaskOf(s).n_discard >= 0
      BY <2>3 DEF Supported, TaskOf, Requests
    <2>5. PICK k \in Nat, d \in Nat : k = Keep(s) /\ d = Discard(s) /\ k + d < Len(PromptOf(s)) /\ d >= 1
      BY <2>4, <1>7, ShiftFacts
    <2>6. PICK p : p = ShiftTokens(PromptOf(s), k, d)
      OBVIOUS
    <2>7. PromptOf(s) \in Seq(Vocab \cup Media)
      BY <1>2, MemoryFacts
    <2>8. p \in Seq(Vocab \cup Media) /\ Len(p) = Len(PromptOf(s)) - d
      BY <2>5, <2>6, <2>7, ShiftTokensFacts
    <2>9. kv'[s] = p
      <3>1. kv'[s] = RemoveRange(PromptOf(s), k, k + d)
        BY <2>2, <2>5, <1>1, <1>7
      <3>2. RemoveRange(PromptOf(s), k, k + d) = p
        BY <2>5, <2>6, <2>7, RemoveRangeFacts
      <3> QED
        BY <3>1, <3>2
    <2>10. slot'[s] = [slot[s] EXCEPT !.prompt = p, !.truncated = TRUE]
      BY <2>5, <2>6, <1>1, <1>7 DEF PromptOf
    <2>11. /\ slot'[s].prompt = p /\ slot'[s].state = "GENERATING" /\ slot'[s].ibatch = slot[s].ibatch
           /\ slot'[s].task = slot[s].task
      BY <2>1, <2>10, <1>4 DEF SlotRec
    <2>12. PromptOf(s)' = p /\ Len(p) \in Nat
      BY <2>8, <2>11, LenProperties DEF PromptOf
    <2>13. MemInv(s)'
      BY <2>9, <2>12, <1>4, MemWhole
    <2>14. SampleInv(s)'
      BY <2>1, <2>11, <1>2, <1>4 DEF SampleInv
    <2>15. Len(PromptOf(s)) < NCtx
      BY <2>1, <2>3, <1>4 DEF RoomInv
    <2>16. Len(p) + 1 < NCtx
      BY <2>5, <2>8, <2>15, <1>3, <1>4
    <2>17. RoomInv(s)'
      <3>1. Len(PromptOf(s))' + 1 < NCtx' /\ Len(PromptOf(s))' < NCtx'
        BY <2>12, <2>16, <1>3
      <3> QED
        BY <3>1 DEF RoomInv
    <2> QED
      BY <2>8, <2>9, <2>13, <2>14, <2>17 DEF SlotContext
  <1>8. ASSUME NEW s \in Slots PROVE SlotContext(s)' /\ kv'[s] \in Seq(Vocab \cup Media)
    BY <1>5, <1>6, <1>7
  <1>9. kv' \in [Slots -> Seq(Vocab \cup Media)]
    <2>1. kv' = [s \in Slots |-> kv'[s]]
      BY <1>1
    <2> QED
      BY <2>1, <1>8
  <1>10. WholeInv'
    BY <1>1, <1>2, WholeFrame DEF Context
  <1> QED
    BY <1>3, <1>8, <1>9, <1>10 DEF Context

-----------------------------------------------------------------------------
\* The sampled tokens enter the batch, each at the next position of its slot.
LEMMA ContextBatchSampled == ASSUME BaseInv, Context, BatchSampled PROVE Context'
  <1> DEFINE n == Len(Chosen)
  <1>1. /\ phase = "batch" /\ setup' = setup /\ kv' = kv /\ off' = 0 /\ nbatch' = NBatch /\ cur' = 1
        /\ phase' \in {"prompt", "decode"} /\ batch' \in Seq(BatchRec) /\ Len(batch') = n
        /\ (\A i \in 1..n :
              /\ batch'[i].slot = Chosen[i] /\ batch'[i].token = slot[Chosen[i]].sampled
              /\ batch'[i].pos = Len(PromptOf(Chosen[i])) /\ batch'[i].output)
        /\ slot' \in [Slots -> SlotRec]
    BY SampledEffect
  <1>2. \A s \in Slots :
             \/ slot'[s] = slot[s] /\ \A i \in 1..n : Chosen[i] # s
             \/ \E i \in 1..n :
                   /\ Chosen[i] = s /\ slot'[s].ibatch = i - 1 /\ slot'[s].task = slot[s].task
                   /\ slot'[s].state = "GENERATING" /\ slot[s].state = "GENERATING"
                   /\ slot'[s].prompt = Append(slot[s].prompt, slot[s].sampled)
    BY SampledEffect
  <1>3. n \in Nat /\ \A i, j \in 1..n : Chosen[i] = Chosen[j] => i = j
    BY ChosenFacts
  <1>4. ~ Busy /\ Busy' /\ Types /\ Done' = 0
    BY <1>1 DEF Busy, BaseInv, Done
  <1>5. Slots' = Slots /\ NCtx' = NCtx /\ NCtx \in Nat /\ Requests' = Requests
    BY <1>1, <1>4, SetupFacts DEF Slots, NSlots, NCtx, Requests, Types
  <1>6. ASSUME NEW s \in Slots
        PROVE  /\ Pending(s) = {} /\ slot[s] \in SlotRec /\ Len(PromptOf(s)) \in Nat /\ Len(kv[s]) \in Nat
               /\ MemInv(s) /\ SampleInv(s) /\ RoomInv(s)
    BY <1>4, MemoryFacts, SlotFacts DEF Pending
  <1>7. \A s : Pending(s)' = {i \in 1..n : batch'[i].slot = s}
    BY <1>1, <1>3, <1>4 DEF Pending
  <1>8. ASSUME NEW s \in Slots, slot'[s] = slot[s], \A i \in 1..n : Chosen[i] # s PROVE SlotContext(s)'
    <2>1. Pending(s)' = {}
      BY <1>1, <1>7, <1>8
    <2>2. /\ Len(PromptOf(s)) <= Len(kv[s]) /\ \A p \in 1..Len(PromptOf(s)) : kv[s][p] = PromptOf(s)[p]
      BY <1>4, <1>6, NothingPending
    <2>3. slot[s].state \in {"DONE_PROMPT", "GENERATING"} => Len(kv[s]) <= Len(PromptOf(s))
      BY <1>6 DEF MemInv
    <2>4. MemInv(s)'
      BY <2>1, <2>2, <2>3, <1>1, <1>6, <1>8, MemWhole DEF PromptOf
    <2>5. SampleInv(s)'
      BY <1>4, <1>6, <1>8 DEF SampleInv
    <2>6. RoomInv(s)'
      BY <1>1, <1>5, <1>6, <1>8 DEF RoomInv, PromptOf, NeedEmbd
    <2> QED
      BY <2>4, <2>5, <2>6 DEF SlotContext
  <1>9. ASSUME NEW s \in Slots, NEW i \in 1..n, Chosen[i] = s, slot'[s].ibatch = i - 1, slot'[s].task = slot[s].task,
               slot'[s].state = "GENERATING", slot[s].state = "GENERATING",
               slot'[s].prompt = Append(slot[s].prompt, slot[s].sampled)
        PROVE  SlotContext(s)'
    <2> DEFINE p == PromptOf(s)
               m == Len(p)
               tok == slot[s].sampled
    <2>1. Pending(s)' = {i}
      BY <1>1, <1>3, <1>7, <1>9
    <2>2. batch'[i].slot = s /\ batch'[i].token = tok /\ batch'[i].pos = m /\ batch'[i].output
      BY <1>1, <1>9
    <2>3. kv[s] = p /\ m \in Nat /\ p \in Seq(Vocab \cup Media) /\ tok \in Vocab \cup Media
      BY <1>4, <1>6, <1>9, NothingPending, MemoryFacts, SlotFacts
    <2>4. /\ Len(Append(p, tok)) = m + 1 /\ Append(p, tok)[m + 1] = tok
          /\ \A k \in 1..m : Append(p, tok)[k] = p[k]
      BY <2>3, AppendProperties
    <2>5. PromptOf(s)' = Append(p, tok)
      BY <1>9 DEF PromptOf
    <2>6. kv'[s] = p /\ Len(kv[s])' = m
      BY <2>3, <1>1
    <2> HIDE DEF p, m, tok
    <2>7. MemInv(s)'
      <3>1. \A k \in 1..m + 1 : k <= m => p[k] = Append(p, tok)[k]
        BY <2>3, <2>4
      <3>2. \A k \in m..m + 1 - 1 : batch'[i].pos = k
        BY <2>2, <2>3
      <3> QED
        BY <3>1, <3>2, <2>1, <2>2, <2>3, <2>4, <2>5, <2>6, <1>9 DEF MemInv
    <2>8. Logits(s)'
      <3>1. From(s)' = 0 /\ i - 1 \in 0..n - 1
        BY <1>1, <1>3 DEF From
      <3>2. i - 1 + 1 = i /\ m + 1 - 1 = m
        BY <2>3, <1>3
      <3> QED
        BY <3>1, <3>2, <2>2, <2>4, <2>5, <1>1, <1>9 DEF Logits
    <2>9. SampleInv(s)'
      BY <2>8, <1>4, <1>9 DEF SampleInv
    <2>10. RoomInv(s)'
      <3>1. m + 1 < NCtx
        BY <1>1, <1>6, <1>9 DEF RoomInv, m, p
      <3> QED
        BY <3>1, <2>4, <2>5, <1>1, <1>5 DEF RoomInv
    <2> QED
      BY <2>7, <2>9, <2>10 DEF SlotContext
  <1>10. \A s \in Slots : SlotContext(s)'
    BY <1>2, <1>8, <1>9
  <1>11. WholeInv'
    BY <1>1 DEF WholeInv, NBatch
  <1> QED
    BY <1>1, <1>5, <1>10, <1>11 DEF Context

-----------------------------------------------------------------------------
\* A prompt that ends in text has something for the batch.
LEMMA SomeText ==
    ASSUME BaseInv, TakesPart, Startable, Supported(setup)
    PROVE  TextStart < Len(Input(slot[cur].task))
  <1> DEFINE q == Input(slot[cur].task)
             k == Len(Kept(cur))
  <1>1. slot[cur].task \in DOMAIN Requests
    BY TakesPartFacts
  <1>2. q \in Seq(Vocab \cup Media) /\ Len(q) \in Nat
    BY <1>1, RequestFacts DEF BaseInv, Types
  <1>3. k \in Nat /\ k < Len(q) /\ TextStart \in Nat /\ TextStart <= Len(q)
    BY <1>2, KeptFacts, FillFacts
  <1>4. q[Len(q)] \in Vocab
    <2>1. q # <<>>
      BY <1>3, EmptySeq
    <2> QED
      BY <2>1, <1>1 DEF Supported, Input, Requests
  <1>5. TextStart = RunOf(q, k + 1, Media)
    BY DEF TextStart, MediaEnd
  <1> HIDE DEF q, k
  <1>6. \A i \in k + 1..TextStart : q[i] \in Media
    <2>1. k + 1 \in 1..Len(q) + 1
      BY <1>2, <1>3
    <2>2. \A f \in 1..Len(q) + 1 : \A i \in f..RunOf(q, f, Media) : q[i] \in Media
      BY <1>2, RunOfFacts
    <2>3. \A i \in k + 1..RunOf(q, k + 1, Media) : q[i] \in Media
      BY <2>1, <2>2
    <2> QED
      BY <2>3, <1>5
  <1>7. TextStart # Len(q)
    <2> SUFFICES ASSUME TextStart = Len(q) PROVE FALSE
      OBVIOUS
    <2>1. Len(q) \in k + 1..TextStart
      BY <1>2, <1>3
    <2>2. q[Len(q)] \in Media
      BY <2>1, <1>6
    <2> QED
      BY <2>2, <1>4, SetupAssumption
  <1>8. TextStart < Len(q)
    BY <1>2, <1>3, <1>7
  <1> QED
    BY <1>8 DEF q

\* The memory of the slot that joins: what it keeps, and the media before the text.
LEMMA FillMemory ==
    ASSUME BaseInv, Context, phase = "prompt", TakesPart, Startable
    PROVE  LET q == Input(slot[cur].task) IN
           Trimmed(cur) \o SubSeq(q, Len(Kept(cur)) + 1, TextStart) = SubSeq(q, 1, TextStart)
  <1> DEFINE q == Input(slot[cur].task)
             k == Len(Kept(cur))
  <1>1. slot[cur].task \in DOMAIN Requests /\ cur \in Slots /\ Types
    BY TakesPartFacts DEF BaseInv
  <1>2. q \in Seq(Vocab \cup Media) /\ Len(q) \in Nat
    BY <1>1, RequestFacts DEF Types
  <1>3. /\ k \in Nat /\ k < Len(q) /\ TextStart \in Nat /\ k <= TextStart /\ TextStart <= Len(q)
        /\ Kept(cur) \in Seq(Vocab \cup Media) /\ Kept(cur) = SubSeq(q, 1, k)
        /\ k <= Len(PromptOf(cur)) /\ Kept(cur) = SubSeq(PromptOf(cur), 1, k)
    BY <1>2, KeptFacts, FillFacts
  <1>4. /\ Len(PromptOf(cur)) \in Nat /\ PromptOf(cur) \in Seq(Vocab \cup Media) /\ kv[cur] \in Seq(Vocab \cup Media)
        /\ Len(PromptOf(cur)) <= Len(kv[cur]) /\ Len(kv[cur]) \in Nat
        /\ \A p \in 1..Len(PromptOf(cur)) : kv[cur][p] = PromptOf(cur)[p]
    BY <1>1, NotJoined, MemoryFacts, NothingPending
  <1>5. Trimmed(cur) = SubSeq(kv[cur], 1, k)
    BY DEF Trimmed
  <1> HIDE DEF q, k
  <1>6. Trimmed(cur) = SubSeq(q, 1, k)
    <2>1. k \in 0..Len(PromptOf(cur)) /\ k \in 0..Len(kv[cur]) /\ k \in 0..Len(q)
      BY <1>2, <1>3, <1>4
    <2>2. /\ SubSeq(kv[cur], 1, k) \in Seq(Vocab \cup Media) /\ Len(SubSeq(kv[cur], 1, k)) = k
          /\ \A i \in 1..k : SubSeq(kv[cur], 1, k)[i] = kv[cur][i]
      BY <2>1, <1>4, PrefixFacts
    <2>3. /\ SubSeq(PromptOf(cur), 1, k) \in Seq(Vocab \cup Media) /\ Len(SubSeq(PromptOf(cur), 1, k)) = k
          /\ \A i \in 1..k : SubSeq(PromptOf(cur), 1, k)[i] = PromptOf(cur)[i]
      BY <2>1, <1>4, PrefixFacts
    <2>4. \A i \in 1..k : kv[cur][i] = PromptOf(cur)[i]
      BY <2>1, <1>4
    <2>5. SubSeq(kv[cur], 1, k) = SubSeq(PromptOf(cur), 1, k)
      BY <2>2, <2>3, <2>4, SeqEqual
    <2> QED
      BY <2>5, <1>3, <1>5
  <1>7. SubSeq(q, 1, k) \o SubSeq(q, k + 1, TextStart) = SubSeq(q, 1, TextStart)
    <2>1. 1 \in 1..Len(q) + 1 /\ k \in 1 - 1..Len(q) /\ TextStart \in k..Len(q)
      BY <1>2, <1>3
    <2> QED
      BY <2>1, <1>2, ConcatAdjacentSubSeq
  <1>8. Trimmed(cur) \o SubSeq(q, k + 1, TextStart) = SubSeq(q, 1, TextStart)
    BY <1>6, <1>7
  <1> QED
    BY <1>8 DEF q, k

\* A slot joins the batch with the next part of its prompt.
LEMMA ContextFillPrompt == ASSUME BaseInv, Context, Supported(setup), FillPrompt PROVE Context'
  <1> DEFINE t == slot[cur].task
             q == Input(t)
             n == Len(batch)
             m == Len(FillNew)
             done == FillEnd = Len(q)
  <1>1. /\ phase = "prompt" /\ TakesPart /\ Startable /\ setup' = setup /\ off' = off /\ nbatch' = nbatch
        /\ Advance /\ NextPhase("decode") /\ batch' = batch \o FillNew
        /\ slot' \in [Slots -> SlotRec] /\ (\A s \in Slots \ {cur} : slot'[s] = slot[s])
        /\ slot'[cur].state = (IF done THEN "DONE_PROMPT" ELSE "PROCESSING_PROMPT")
        /\ slot'[cur].task = t /\ slot'[cur].prompt = SubSeq(q, 1, FillEnd)
        /\ (done => slot'[cur].ibatch = Len(batch \o FillNew) - 1)
        /\ kv' = [kv EXCEPT ![cur] = Trimmed(cur) \o SubSeq(q, Len(Kept(cur)) + 1, TextStart)]
    BY FillEffect
  <1>2. cur \in Slots /\ t \in DOMAIN Requests /\ Types /\ kv \in [Slots -> Seq(Vocab \cup Media)]
    BY <1>1, TakesPartFacts DEF BaseInv, Context
  <1>3. q \in Seq(Vocab \cup Media) /\ Len(q) \in Nat
    BY <1>2, RequestFacts DEF Types
  <1>4. /\ TextStart \in Nat /\ FillEnd \in Nat /\ TextStart <= FillEnd /\ FillEnd <= Len(q)
        /\ m = FillEnd - TextStart /\ FillNew \in Seq(BatchRec)
        /\ \A i \in 1..m :
              /\ FillNew[i].slot = cur /\ FillNew[i].pos = TextStart + i - 1 /\ FillNew[i].token = q[TextStart + i]
              /\ done /\ TextStart + i = FillEnd => FillNew[i].output
    BY <1>1, FillFacts
  <1>5. batch \in Seq(BatchRec) /\ n \in Nat /\ m \in Nat
    BY <1>2, <1>4, LenProperties DEF Types
  <1>6. /\ Len(batch') = n + m
        /\ \A i \in 1..n + m : batch'[i] = IF i <= n THEN batch[i] ELSE FillNew[i - n]
    BY <1>1, <1>4, <1>5, ConcatProperties
  <1>7. phase' \in {"prompt", "decode"} /\ Busy /\ Busy' /\ off = 0 /\ Done = 0 /\ Done' = 0
    BY <1>1 DEF NextPhase, Busy, BaseInv, FillInv, Done
  <1>8. Slots' = Slots /\ NCtx' = NCtx /\ Requests' = Requests
    BY <1>1 DEF Slots, NSlots, NCtx, Requests
  <1>9. kv'[cur] = SubSeq(q, 1, TextStart) /\ \A s \in Slots \ {cur} : kv'[s] = kv[s]
    BY <1>1, <1>2, FillMemory
  <1>10. TextStart \in 0..Len(q) /\ FillEnd \in 0..Len(q)
    BY <1>3, <1>4
  <1>11. /\ SubSeq(q, 1, TextStart) \in Seq(Vocab \cup Media) /\ Len(SubSeq(q, 1, TextStart)) = TextStart
         /\ \A i \in 1..TextStart : SubSeq(q, 1, TextStart)[i] = q[i]
    BY <1>3, <1>10, PrefixFacts
  <1>12. /\ SubSeq(q, 1, FillEnd) \in Seq(Vocab \cup Media) /\ Len(SubSeq(q, 1, FillEnd)) = FillEnd
         /\ \A i \in 1..FillEnd : SubSeq(q, 1, FillEnd)[i] = q[i]
    BY <1>3, <1>10, PrefixFacts
  <1>13. \A i \in 1..n : batch[i].slot # cur
    BY <1>1, NotJoined
  <1>14. ~ TooLarge(t) /\ (done => m >= 1)
    <2>1. ~ TooLarge(t) /\ TextStart < Len(q)
      BY <1>1, KeptFacts, SomeText
    <2>2. done => FillEnd - TextStart >= 1
      BY <2>1, <1>3, <1>4
    <2> QED
      BY <2>1, <2>2, <1>4
  <1> HIDE DEF q, n, m, done
  <1>15. ASSUME NEW i \in 1..n + m
         PROVE  /\ i <= n => i \in 1..n /\ batch'[i] = batch[i]
                /\ i > n => i - n \in 1..m /\ batch'[i] = FillNew[i - n]
    BY <1>5, <1>6
  <1>16. ASSUME NEW s \in Slots, s = cur PROVE SlotContext(s)'
    <2>1. PromptOf(s)' = SubSeq(q, 1, FillEnd) /\ kv'[s] = SubSeq(q, 1, TextStart)
      BY <1>1, <1>9, <1>16 DEF PromptOf
    <2>2. Len(PromptOf(s))' = FillEnd /\ Len(kv[s])' = TextStart
      BY <2>1, <1>11, <1>12
    <2>3. \A i \in Pending(s)' : i \in n + 1..n + m /\ batch'[i].pos = TextStart + (i - n) - 1 /\ batch'[i].token = q[TextStart + (i - n)]
      <3> TAKE i \in Pending(s)'
      <3>1. i \in 1..n + m /\ batch'[i].slot = cur
        BY <1>6, <1>16 DEF Pending
      <3>2. i > n
        BY <3>1, <1>5, <1>13, <1>15
      <3>3. i - n \in 1..m /\ batch'[i] = FillNew[i - n]
        BY <3>1, <3>2, <1>15
      <3> QED
        BY <3>1, <3>2, <3>3, <1>4, <1>5
    <2>4. \A j \in 1..m : n + j \in Pending(s)' /\ batch'[n + j].pos = TextStart + j - 1
      <3> TAKE j \in 1..m
      <3>1. n + j \in 1..n + m /\ n + j > n /\ n + j - n = j /\ n + j > 0
        BY <1>5
      <3>2. batch'[n + j] = FillNew[j]
        <4>1. PICK i \in 1..n + m : i = n + j
          BY <3>1
        <4>2. i > n /\ i - n = j
          BY <4>1, <3>1, <1>5
        <4>3. batch'[i] = FillNew[i - n]
          BY <4>2, <1>15
        <4> QED
          BY <4>1, <4>2, <4>3
      <3>3. batch'[n + j].slot = cur /\ batch'[n + j].pos = TextStart + j - 1
        BY <3>2, <1>4
      <3> QED
        BY <3>1, <3>3, <1>6, <1>7, <1>16 DEF Pending
    <2>5. MemInv(s)'
      <3>1. \A p \in 1..FillEnd : p <= TextStart => kv'[s][p] = PromptOf(s)'[p]
        BY <2>1, <1>4, <1>11, <1>12
      <3>2. ASSUME NEW i \in Pending(s)'
            PROVE  /\ TextStart <= batch'[i].pos /\ batch'[i].pos < FillEnd
                   /\ batch'[i].token = PromptOf(s)'[batch'[i].pos + 1]
        <4>1. i \in n + 1..n + m /\ batch'[i].pos = TextStart + (i - n) - 1 /\ batch'[i].token = q[TextStart + (i - n)]
          BY <2>3
        <4>2. TextStart <= batch'[i].pos /\ batch'[i].pos < FillEnd /\ batch'[i].pos + 1 = TextStart + (i - n)
          BY <4>1, <1>4, <1>5
        <4>3. TextStart + (i - n) \in 1..FillEnd
          BY <4>1, <1>4, <1>5
        <4> QED
          BY <4>1, <4>2, <4>3, <2>1, <1>12
      <3>3. ASSUME NEW p \in TextStart..FillEnd - 1 PROVE \E i \in Pending(s)' : batch'[i].pos = p
        <4>1. p - TextStart + 1 \in 1..m /\ TextStart + (p - TextStart + 1) - 1 = p
          BY <1>4, <1>5
        <4> QED
          BY <4>1, <2>4
      <3>4. TextStart <= FillEnd /\ slot'[s].state # "IDLE"
        BY <1>1, <1>4, <1>16
      <3> QED
        BY <3>1, <3>2, <3>3, <3>4, <2>2 DEF MemInv
    <2>6. CASE ~ done
      <3>1. slot'[s].state = "PROCESSING_PROMPT"
        BY <2>6, <1>1, <1>16
      <3> QED
        BY <3>1, <2>5, QuietSlot DEF SlotContext
    <2>7. CASE done
      <3>1. slot'[s].state = "DONE_PROMPT" /\ slot'[s].ibatch = n + m - 1 /\ slot'[s].task = t
        <4>1. Len(batch \o FillNew) = n + m
          BY <1>1, <1>6
        <4>2. slot'[cur].state = "DONE_PROMPT" /\ slot'[cur].ibatch = Len(batch \o FillNew) - 1 /\ slot'[cur].task = t
          BY <2>7, <1>1
        <4> QED
          BY <4>1, <4>2, <1>5, <1>16
      <3>2. n + m \in 1..n + m /\ n + m > n /\ n + m - n = m /\ m \in 1..m /\ TextStart + m = FillEnd
        BY <2>7, <1>4, <1>5, <1>14
      <3>3. batch'[n + m] = FillNew[m]
        <4>1. PICK i \in 1..n + m : i = n + m
          BY <3>2
        <4>2. i > n /\ i - n = m
          BY <4>1, <3>2, <1>5
        <4>3. batch'[i] = FillNew[i - n]
          BY <4>2, <1>15
        <4> QED
          BY <4>1, <4>2, <4>3
      <3>4. /\ batch'[n + m].slot = s /\ batch'[n + m].pos = FillEnd - 1 /\ batch'[n + m].token = q[FillEnd]
            /\ batch'[n + m].output
        BY <3>2, <3>3, <2>7, <1>4, <1>16
      <3>5. PromptOf(s)'[FillEnd] = q[FillEnd]
        <4>1. FillEnd \in 1..FillEnd
          BY <2>7, <1>4, <1>5, <1>14
        <4> QED
          BY <4>1, <2>1, <1>12
      <3>6. n + m - 1 + 1 = n + m /\ From(s)' = 0 /\ n + m - 1 \in 0..n + m - 1
        BY <2>7, <1>1, <1>5, <1>7, <1>14 DEF From
      <3>7. Logits(s)'
        BY <3>1, <3>4, <3>5, <3>6, <2>2, <1>6 DEF Logits
      <3>8. SampleInv(s)'
        BY <3>1, <3>7, <1>7 DEF SampleInv
      <3>9. ~ NeedEmbd(slot[s].task)' => FillEnd < NCtx'
        <4>1. NeedEmbd(slot[s].task)' <=> NeedEmbd(t)
          BY <3>1, <1>8 DEF NeedEmbd
        <4>2. NCtx \in Nat
          BY <1>2, SetupFacts DEF Types
        <4>3. ~ NeedEmbd(t) => ~ (Len(q) >= NCtx)
          BY <1>14 DEF TooLarge, CanSplit, q
        <4> QED
          BY <4>1, <4>2, <4>3, <2>7, <1>3, <1>8 DEF done
      <3>10. RoomInv(s)'
        BY <3>1, <3>9, <2>2, <1>7 DEF RoomInv
      <3> QED
        BY <3>8, <3>10, <2>5 DEF SlotContext
    <2> QED
      BY <2>6, <2>7
  <1>17. ASSUME NEW s \in Slots, s # cur PROVE SlotContext(s)'
    <2>1. slot'[s] = slot[s] /\ kv'[s] = kv[s] /\ PromptOf(s)' = PromptOf(s)
      BY <1>1, <1>9, <1>17 DEF PromptOf
    <2>2. MemInv(s) /\ SampleInv(s) /\ RoomInv(s) /\ slot[s].ibatch \in Int
      BY <1>2, MemoryFacts, SlotFacts
    <2>3. Pending(s)' = Pending(s) /\ \A i \in Pending(s) : batch'[i] = batch[i]
      <3>1. ASSUME NEW i \in Pending(s)' PROVE i \in Pending(s)
        <4>1. i \in 1..n + m /\ batch'[i].slot = s /\ i > 0
          BY <1>6, <1>7 DEF Pending
        <4>2. ~ i > n
          BY <4>1, <1>4, <1>15, <1>17
        <4>3. i \in 1..n /\ batch[i].slot = s
          BY <4>1, <4>2, <1>5, <1>15
        <4> QED
          BY <4>1, <4>3, <1>7 DEF Pending, n
      <3>2. ASSUME NEW i \in Pending(s) PROVE i \in Pending(s)' /\ batch'[i] = batch[i]
        <4>1. i \in 1..n /\ batch[i].slot = s /\ i > 0
          BY <1>7 DEF Pending, n
        <4>2. i \in 1..n + m /\ i <= n
          BY <4>1, <1>5
        <4>3. batch'[i] = batch[i]
          BY <4>2, <1>15
        <4> QED
          BY <4>1, <4>2, <4>3, <1>6, <1>7 DEF Pending
      <3> QED
        BY <3>1, <3>2
    <2>4. MemInv(s)'
      <3>1. /\ \A i \in Pending(s)' :
                  /\ Len(kv[s]) <= batch'[i].pos /\ batch'[i].pos < Len(PromptOf(s))
                  /\ batch'[i].token = PromptOf(s)[batch'[i].pos + 1]
            /\ \A p \in Len(kv[s])..Len(PromptOf(s)) - 1 : \E i \in Pending(s)' : batch'[i].pos = p
        BY <2>2, <2>3 DEF MemInv
      <3> QED
        BY <3>1, <2>1, <2>2, <2>3 DEF MemInv
    <2>5. Logits(s) => Logits(s)'
      <3> SUFFICES ASSUME Logits(s) PROVE Logits(s)'
        OBVIOUS
      <3> DEFINE b == slot[s].ibatch
      <3>1. From(s) = 0 /\ From(s)' = 0
        BY <1>1, <1>7 DEF From
      <3>2. b \in 0..n - 1 /\ b + 1 \in 1..n + m /\ b + 1 <= n /\ b \in 0..n + m - 1
        BY <3>1, <2>2, <1>5 DEF Logits, n
      <3>3. batch'[b + 1] = batch[b + 1] /\ b + 1 \in 1..n
        BY <3>2, <1>15
      <3>4. batch[b + 1].slot \in Slots \ {cur}
        BY <3>3, <1>2, <1>13, EntryFacts DEF n
      <3>5. slot'[batch[b + 1].slot] = slot[batch[b + 1].slot]
        BY <3>4, <1>1
      <3>6. (\A i \in 1..n : batch[i].slot # s) => \A i \in 1..n + m : batch'[i].slot # s
        <4> SUFFICES ASSUME \A i \in 1..n : batch[i].slot # s, NEW i \in 1..n + m PROVE batch'[i].slot # s
          OBVIOUS
        <4>1. CASE i <= n
          BY <4>1, <1>15
        <4>2. CASE i > n
          <5>1. i - n \in 1..m /\ batch'[i] = FillNew[i - n]
            BY <4>2, <1>15
          <5>2. FillNew[i - n].slot = cur
            BY <5>1, <1>4
          <5> QED
            BY <5>1, <5>2, <1>17
        <4> QED
          BY <4>1, <4>2, <1>5
      <3>7. /\ batch[b + 1].output /\ batch[b + 1].pos = Len(PromptOf(s)) - 1
            /\ batch[b + 1].token = PromptOf(s)[Len(PromptOf(s))]
            /\ batch[b + 1].slot = s \/ (/\ IsChild(slot[s].task) /\ \A i \in 1..n : batch[i].slot # s
                                         /\ slot[batch[b + 1].slot].task \in {TaskOf(s).parent, NoTask})
        BY DEF Logits, n
      <3>8. (IsChild(slot[s].task)' <=> IsChild(slot[s].task)) /\ TaskOf(s)' = TaskOf(s)
        BY <2>1, <1>8 DEF IsChild, TaskOf
      <3>9. PICK f : f = batch[b + 1]
        OBVIOUS
      <3>10. /\ slot'[s].ibatch = b /\ batch'[b + 1] = f /\ b \in From(s)'..Len(batch') - 1 /\ Len(batch') = n + m
             /\ slot'[f.slot].task = slot[f.slot].task
        BY <3>1, <3>2, <3>3, <3>5, <3>9, <2>1, <1>6
      <3>11. f.slot = s \/ (/\ IsChild(slot[s].task)' /\ \A i \in 1..n + m : batch'[i].slot # s
                            /\ slot'[f.slot].task \in {(TaskOf(s).parent)', NoTask})
        BY <3>6, <3>7, <3>8, <3>9, <3>10
      <3>12. f.output /\ f.pos = Len(PromptOf(s)) - 1 /\ f.token = PromptOf(s)[Len(PromptOf(s))]
        BY <3>7, <3>9
      <3> HIDE DEF b
      <3> QED
        BY <3>10, <3>11, <3>12, <2>1 DEF Logits
    <2>6. SampleInv(s)'
      BY <2>1, <2>2, <2>5, <1>7 DEF SampleInv
    <2>7. RoomInv(s)'
      BY <2>1, <2>2, <1>7, <1>8 DEF RoomInv, NeedEmbd
    <2> QED
      BY <2>4, <2>6, <2>7 DEF SlotContext
  <1>18. kv' \in [Slots -> Seq(Vocab \cup Media)]
    <2>1. kv' = [kv EXCEPT ![cur] = SubSeq(q, 1, TextStart)]
      BY <1>1, FillMemory DEF q
    <2> QED
      BY <2>1, <1>2, <1>11
  <1>19. WholeInv'
    BY <1>1, WholePrompt
  <1> QED
    BY <1>8, <1>16, <1>17, <1>18, <1>19 DEF Context

-----------------------------------------------------------------------------
\* The entries of a slot in the sub-batch, in the order of the batch.
LEMMA ViewOfFacts ==
    ASSUME Types, NEW s
    PROVE  LET n == Len(ViewOf(s)) IN
           /\ ViewOf(s) \in Seq(BatchRec) /\ n \in Nat
           /\ TokensOf(ViewOf(s)) \in Seq(Vocab) /\ Len(TokensOf(ViewOf(s))) = n
           /\ \A k \in 1..n : TokensOf(ViewOf(s))[k] = ViewOf(s)[k].token
           /\ \E h \in [1..n -> Nat] :
                 /\ \A k \in 1..n : h[k] \in off + 1..ViewEnd /\ ViewOf(s)[k] = batch[h[k]] /\ batch[h[k]].slot = s
                 /\ \A j, k \in 1..n : j < k => h[j] < h[k]
                 /\ \A i \in off + 1..ViewEnd : batch[i].slot = s => \E k \in 1..n : h[k] = i
  <1> DEFINE D == {e \in Range(View) : e.slot # s}
             v == ViewOf(s)
             n == Len(v)
  <1>1. /\ View \in Seq(BatchRec) /\ Len(View) = ViewEnd - off /\ ViewEnd \in Nat /\ off \in Nat /\ off <= ViewEnd
        /\ \A k \in 1..ViewEnd - off : View[k] = batch[off + k]
    BY ViewFacts
  <1>2. v = Drop(View, D)
    BY DEF ViewOf
  <1>3. \A k \in 1..Len(View) : View[k] \in D <=> View[k].slot # s
    <2>1. DOMAIN View = 1..Len(View)
      BY <1>1, LenProperties
    <2> QED
      BY <2>1 DEF Range
  <1> HIDE DEF D, v
  <1>4. v \in Seq(BatchRec)
    BY <1>1, <1>2, DropFacts
  <1>5. n \in Nat
    BY <1>4, LenProperties
  <1>6. PICK g : /\ Embeds(g, v, View) /\ (\A j \in 1..n : View[g[j]] \notin D)
                 /\ \A i \in 1..Len(View) : View[i] \notin D => \E j \in 1..n : g[j] = i
    <2>1. \E g : /\ Embeds(g, Drop(View, D), View) /\ (\A j \in 1..Len(Drop(View, D)) : View[g[j]] \notin D)
                 /\ \A i \in 1..Len(View) : View[i] \notin D => \E j \in 1..Len(Drop(View, D)) : g[j] = i
      BY <1>1, DropPlaces
    <2> QED
      BY <2>1, <1>2
  <1>7. /\ g \in [1..n -> 1..Len(View)] /\ (\A i \in 1..n : v[i] = View[g[i]])
        /\ \A i, j \in 1..n : i < j => g[i] < g[j]
    BY <1>6 DEF Embeds
  <1>8. PICK h : h = [k \in 1..n |-> off + g[k]]
    OBVIOUS
  <1>9. ASSUME NEW k \in 1..n
        PROVE  h[k] \in Nat /\ h[k] \in off + 1..ViewEnd /\ v[k] = batch[h[k]] /\ batch[h[k]].slot = s
    <2>1. g[k] \in 1..ViewEnd - off /\ h[k] = off + g[k]
      BY <1>1, <1>7, <1>8
    <2>2. h[k] \in Nat /\ h[k] \in off + 1..ViewEnd
      BY <2>1, <1>1
    <2>3. View[g[k]] = batch[h[k]] /\ View[g[k]].slot = s
      BY <2>1, <1>1, <1>3, <1>6
    <2> QED
      BY <2>2, <2>3, <1>7
  <1>10. ASSUME NEW j \in 1..n, NEW k \in 1..n, j < k PROVE h[j] < h[k]
    <2>1. g[j] \in 1..ViewEnd - off /\ g[k] \in 1..ViewEnd - off
      BY <1>1, <1>7
    <2>2. g[j] < g[k] /\ h[j] = off + g[j] /\ h[k] = off + g[k]
      BY <1>7, <1>8, <1>10
    <2> QED
      BY <2>1, <2>2, <1>1
  <1>11. ASSUME NEW i \in off + 1..ViewEnd, batch[i].slot = s PROVE \E k \in 1..n : h[k] = i
    <2>1. i - off \in 1..ViewEnd - off /\ off + (i - off) = i
      BY <1>1
    <2>2. View[i - off] = batch[i]
      BY <2>1, <1>1
    <2>3. View[i - off] \notin D
      BY <2>1, <2>2, <1>1, <1>3, <1>11
    <2>4. PICK k \in 1..n : g[k] = i - off
      BY <2>1, <2>3, <1>1, <1>6
    <2>5. h[k] = i
      BY <2>1, <2>4, <1>8
    <2> QED
      BY <2>5
  <1>12. h \in [1..n -> Nat]
    BY <1>8, <1>9
  <1>13. TokensOf(v) = [i \in 1..n |-> v[i].token]
    BY DEF TokensOf
  <1>14. \A i \in 1..n : v[i].token \in Vocab
    <2> TAKE i \in 1..n
    <2>1. v[i] \in BatchRec
      BY <1>4, ElementOfSeq
    <2> QED
      BY <2>1 DEF BatchRec
  <1>15. TokensOf(v) \in Seq(Vocab) /\ Len(TokensOf(v)) = n
    <2>1. TokensOf(v) \in [1..n -> Vocab]
      BY <1>13, <1>14
    <2> QED
      BY <2>1, <1>5, FunctionIsSeq
  <1>16. \A k \in 1..n : TokensOf(v)[k] = v[k].token
    BY <1>13
  <1>17. /\ \A k \in 1..n : h[k] \in off + 1..ViewEnd /\ v[k] = batch[h[k]] /\ batch[h[k]].slot = s
         /\ \A j, k \in 1..n : j < k => h[j] < h[k]
         /\ \A i \in off + 1..ViewEnd : batch[i].slot = s => \E k \in 1..n : h[k] = i
    BY <1>9, <1>10, <1>11
  <1> QED
    BY <1>4, <1>5, <1>12, <1>15, <1>16, <1>17 DEF v

\* A decode moves the entries of the sub-batch from the batch to the memory.
LEMMA GrownFacts ==
    ASSUME BaseInv, Context, phase = "decode", Accepted, NEW s \in Slots
    PROVE  LET L == Len(Grown(s))
               rest == {i \in 1..Len(batch) : i > ViewEnd /\ batch[i].slot = s} IN
           /\ Grown(s) \in Seq(Vocab \cup Media) /\ L \in Nat
           /\ \A p \in 1..Len(PromptOf(s)) : p <= L => Grown(s)[p] = PromptOf(s)[p]
           /\ \A i \in rest : /\ L <= batch[i].pos /\ batch[i].pos < Len(PromptOf(s))
                              /\ batch[i].token = PromptOf(s)[batch[i].pos + 1]
           /\ \A p \in L..Len(PromptOf(s)) - 1 : \E i \in rest : batch[i].pos = p
           /\ Len(kv[s]) <= Len(PromptOf(s)) => L <= Len(PromptOf(s))
           /\ slot[s].state = "IDLE" => rest = {}
  <1> DEFINE v == ViewOf(s)
             n == Len(v)
             k0 == Len(kv[s])
             P == PromptOf(s)
             rest == {i \in 1..Len(batch) : i > ViewEnd /\ batch[i].slot = s}
  <1>1. /\ Types /\ Busy
        /\ kv[s] \in Seq(Vocab \cup Media) /\ k0 \in Nat /\ Len(P) \in Nat /\ MemInv(s)
    BY MemoryFacts DEF BaseInv, Busy
  <1>2. /\ n \in Nat /\ TokensOf(v) \in Seq(Vocab) /\ Len(TokensOf(v)) = n
        /\ \A k \in 1..n : TokensOf(v)[k] = v[k].token
    BY <1>1, ViewOfFacts
  <1>3. PICK h \in [1..n -> Nat] :
            /\ \A k \in 1..n : h[k] \in off + 1..ViewEnd /\ v[k] = batch[h[k]] /\ batch[h[k]].slot = s
            /\ \A j, k \in 1..n : j < k => h[j] < h[k]
            /\ \A i \in off + 1..ViewEnd : batch[i].slot = s => \E k \in 1..n : h[k] = i
    BY <1>1, ViewOfFacts
  <1>4. \A k \in 1..n : v[k].pos = k0 + k - 1
    BY DEF Accepted
  <1>5. ViewEnd \in Nat /\ off \in Nat /\ off <= ViewEnd /\ ViewEnd <= Len(batch) /\ Len(batch) \in Nat
    BY <1>1, ViewFacts
  <1>6. Pending(s) = {i \in 1..Len(batch) : i > off /\ batch[i].slot = s}
    BY <1>1 DEF Pending, Done
  <1>7. /\ \A i \in Pending(s) : /\ k0 <= batch[i].pos /\ batch[i].pos < Len(P) /\ batch[i].token = P[batch[i].pos + 1]
        /\ \A p \in k0..Len(P) - 1 : \E i \in Pending(s) : batch[i].pos = p
        /\ \A p \in 1..Len(P) : p <= k0 => kv[s][p] = P[p]
        /\ slot[s].state = "IDLE" => Pending(s) = {}
    BY <1>1 DEF MemInv
  <1>8. /\ Grown(s) \in Seq(Vocab \cup Media) /\ Len(Grown(s)) = k0 + n
        /\ \A p \in 1..k0 + n : Grown(s)[p] = IF p <= k0 THEN kv[s][p] ELSE TokensOf(v)[p - k0]
    <2>1. TokensOf(v) \in Seq(Vocab \cup Media)
      BY <1>2, SeqMonotonic
    <2>2. Grown(s) = kv[s] \o TokensOf(v)
      BY DEF Grown
    <2>3. PICK b, a : b = TokensOf(v) /\ a = kv[s]
      OBVIOUS
    <2>4. a \in Seq(Vocab \cup Media) /\ b \in Seq(Vocab \cup Media) /\ Len(a) = k0 /\ Len(b) = n
      BY <2>1, <2>3, <1>1, <1>2
    <2>5. /\ a \o b \in Seq(Vocab \cup Media) /\ Len(a \o b) = Len(a) + Len(b)
          /\ \A p \in 1..Len(a) + Len(b) : (a \o b)[p] = IF p <= Len(a) THEN a[p] ELSE b[p - Len(a)]
      BY <2>4, ConcatProperties
    <2> HIDE DEF v, n, k0
    <2>6. Len(a \o b) = k0 + n /\ \A p \in 1..k0 + n : (a \o b)[p] = IF p <= k0 THEN a[p] ELSE b[p - k0]
      BY <2>4, <2>5
    <2> QED
      BY <2>2, <2>3, <2>5, <2>6
  <1>9. rest \subseteq Pending(s)
    BY <1>5, <1>6
  <1>10. ASSUME NEW i \in Pending(s) PROVE i \in rest \/ \E k \in 1..n : h[k] = i
    <2>1. i \in 1..Len(batch) /\ i > off /\ batch[i].slot = s
      BY <1>6
    <2>2. CASE i > ViewEnd
      BY <2>1, <2>2
    <2>3. CASE i <= ViewEnd
      <3>1. i \in off + 1..ViewEnd
        BY <2>1, <2>3, <1>5
      <3> QED
        BY <3>1, <2>1, <1>3
    <2> QED
      BY <2>1, <2>2, <2>3, <1>5
  <1>11. ASSUME NEW k \in 1..n
         PROVE  h[k] \in Pending(s) /\ h[k] <= ViewEnd /\ h[k] \in 1..Len(batch) /\ v[k] = batch[h[k]] /\ batch[h[k]].slot = s
    <2>1. h[k] \in off + 1..ViewEnd /\ v[k] = batch[h[k]] /\ batch[h[k]].slot = s
      BY <1>3
    <2>2. h[k] \in 1..Len(batch) /\ h[k] > off /\ h[k] <= ViewEnd
      BY <2>1, <1>5
    <2> QED
      BY <2>1, <2>2, <1>6
  <1> HIDE DEF v, n, k0, P, rest
  <1>12. ASSUME NEW p \in 1..Len(P), p <= k0 + n PROVE Grown(s)[p] = P[p]
    <2>1. p \in 1..k0 + n
      BY <1>1, <1>2, <1>12
    <2>2. CASE p <= k0
      BY <2>1, <2>2, <1>7, <1>8
    <2>3. CASE p > k0
      <3>1. p - k0 \in 1..n /\ ~ (p <= k0) /\ k0 + (p - k0) - 1 + 1 = p
        BY <2>1, <2>3, <1>1, <1>2
      <3>2. PICK k \in 1..n : k = p - k0
        BY <3>1
      <3>3. Grown(s)[p] = v[k].token
        BY <3>1, <3>2, <2>1, <1>2, <1>8
      <3>4. v[k].token = P[v[k].pos + 1]
        BY <1>7, <1>11
      <3>5. v[k].pos + 1 = p
        BY <3>1, <3>2, <1>4
      <3> QED
        BY <3>3, <3>4, <3>5
    <2> QED
      BY <2>2, <2>3, <1>1
  <1>13. ASSUME NEW i \in rest
         PROVE  k0 + n <= batch[i].pos /\ batch[i].pos < Len(P) /\ batch[i].token = P[batch[i].pos + 1]
    <2>1. /\ i \in Pending(s) /\ i \in 1..Len(batch) /\ i > ViewEnd /\ batch[i].slot = s
      BY <1>9 DEF rest
    <2>2. /\ k0 <= batch[i].pos /\ batch[i].pos < Len(P) /\ batch[i].token = P[batch[i].pos + 1]
      BY <2>1, <1>7
    <2>3. batch[i].pos \in Nat
      BY <2>1, <1>1, EntryFacts
    <2>4. k0 + n <= batch[i].pos
      <3>1. CASE n = 0
        BY <3>1, <2>2, <1>1
      <3>2. CASE n # 0
        <4>1. n \in 1..n
          BY <3>2, <1>2
        <4>2. /\ h[n] \in 1..Len(batch) /\ h[n] <= ViewEnd /\ batch[h[n]].slot = s /\ batch[h[n]].pos = k0 + n - 1
          BY <4>1, <1>4, <1>11
        <4>3. h[n] < i
          BY <4>2, <2>1, <1>5
        <4>4. batch[h[n]].pos < batch[i].pos
          BY <4>2, <4>3, <2>1, <1>1 DEF BaseInv, BatchInv
        <4> QED
          BY <4>2, <4>4, <2>3, <1>1, <1>2
      <3> QED
        BY <3>1, <3>2
    <2> QED
      BY <2>2, <2>4
  <1>14. ASSUME NEW p \in k0 + n..Len(P) - 1 PROVE \E i \in rest : batch[i].pos = p
    <2>1. p \in k0..Len(P) - 1
      BY <1>1, <1>2
    <2>2. PICK i \in Pending(s) : batch[i].pos = p
      BY <2>1, <1>7
    <2>3. i \in rest
      <3> SUFFICES ASSUME NEW k \in 1..n, h[k] = i PROVE FALSE
        BY <1>10
      <3>1. batch[i].pos = k0 + k - 1
        BY <1>4, <1>11
      <3> QED
        BY <3>1, <2>2, <1>1, <1>2
    <2> QED
      BY <2>2, <2>3
  <1>15. k0 <= Len(P) => k0 + n <= Len(P)
    <2>1. CASE n = 0
      BY <2>1, <1>1
    <2>2. CASE n # 0
      <3>1. n \in 1..n
        BY <2>2, <1>2
      <3>2. v[n].pos = k0 + n - 1 /\ v[n].pos < Len(P)
        BY <3>1, <1>4, <1>7, <1>11
      <3> QED
        BY <3>2, <1>1, <1>2
    <2> QED
      BY <2>1, <2>2
  <1>16. k0 + n \in Nat
    BY <1>1, <1>2
  <1>17. slot[s].state = "IDLE" => rest = {}
    BY <1>7, <1>9
  <1>18. PICK L : L = k0 + n /\ L = Len(Grown(s))
    BY <1>8
  <1>19. /\ L \in Nat /\ (\A p \in 1..Len(P) : p <= L => Grown(s)[p] = P[p])
         /\ \A i \in rest : L <= batch[i].pos /\ batch[i].pos < Len(P) /\ batch[i].token = P[batch[i].pos + 1]
         /\ \A p \in L..Len(P) - 1 : \E i \in rest : batch[i].pos = p
         /\ k0 <= Len(P) => L <= Len(P)
    BY <1>12, <1>13, <1>14, <1>15, <1>16, <1>18
  <1> QED
    BY <1>8, <1>17, <1>18, <1>19 DEF k0, P, rest

\* The sub-batch is in the memory; the children of a finished prompt start from a copy.
LEMMA ContextDecodeOk == ASSUME BaseInv, Context, Supported(setup), DecodeOk PROVE Context'
  <1>1. /\ phase = "decode" /\ off < Len(batch) /\ Accepted /\ phase' = "post" /\ cur' = 1 /\ setup' = setup
        /\ batch' = batch /\ off' = off /\ nbatch' = nbatch /\ slot' \in [Slots -> SlotRec]
        /\ kv' = [s \in Slots |-> kv'[s]]
    BY DecodeEffect DEF batchVars
  <1>2. \A s \in Slots :
           \/ Activated(s) = {} /\ slot'[s] = slot[s] /\ kv'[s] = Grown(s)
           \/ \E p \in Activated(s) :
                 /\ p \in Slots /\ slot[p].state = "DONE_PROMPT" /\ slot[s].state = "WAIT_OTHER"
                 /\ slot[p].task = TaskOf(s).parent
                 /\ slot'[s].state = "DONE_PROMPT" /\ slot'[s].task = slot[s].task
                 /\ slot'[s].ibatch = slot[p].ibatch /\ slot'[s].prompt = slot[p].prompt
                 /\ kv'[s] = Grown(p)
    BY DecodeEffect
  <1>3. Types /\ Busy /\ Busy' /\ setup \in Setups
    BY <1>1 DEF BaseInv, Types, Busy
  <1>4. Slots' = Slots /\ NCtx' = NCtx /\ Requests' = Requests
    BY <1>1 DEF Slots, NSlots, NCtx, Requests
  <1>5. \A s : Pending(s)' = {i \in 1..Len(batch) : i > ViewEnd /\ batch[i].slot = s}
    <2>1. Done' = ViewEnd
      BY <1>1 DEF Done, ViewEnd
    <2> QED
      BY <2>1, <1>1, <1>3 DEF Pending
  <1>6. \A u \in Slots : slot'[u].task = slot[u].task
    BY <1>2
  <1>7. ASSUME NEW s \in Slots
        PROVE  /\ Grown(s) \in Seq(Vocab \cup Media) /\ Len(Grown(s)) \in Nat /\ Len(PromptOf(s)) \in Nat
               /\ \A p \in 1..Len(PromptOf(s)) : p <= Len(Grown(s)) => Grown(s)[p] = PromptOf(s)[p]
               /\ \A i \in Pending(s)' :
                     /\ Len(Grown(s)) <= batch[i].pos /\ batch[i].pos < Len(PromptOf(s))
                     /\ batch[i].token = PromptOf(s)[batch[i].pos + 1]
               /\ \A p \in Len(Grown(s))..Len(PromptOf(s)) - 1 : \E i \in Pending(s)' : batch[i].pos = p
               /\ Len(kv[s]) <= Len(PromptOf(s)) => Len(Grown(s)) <= Len(PromptOf(s))
               /\ slot[s].state = "IDLE" => Pending(s)' = {}
    BY <1>1, <1>3, <1>5, GrownFacts, MemoryFacts
  <1>8. ASSUME NEW s \in Slots, slot'[s] = slot[s], kv'[s] = Grown(s) PROVE SlotContext(s)'
    <2>1. MemInv(s) /\ SampleInv(s) /\ RoomInv(s)
      BY <1>3, MemoryFacts
    <2>2. slot[s].state \in {"DONE_PROMPT", "GENERATING"} => Len(kv[s]) <= Len(PromptOf(s))
      BY <2>1 DEF MemInv
    <2>3. PromptOf(s)' = PromptOf(s)
      BY <1>8 DEF PromptOf
    <2>4. MemInv(s)'
      BY <2>2, <2>3, <1>1, <1>7, <1>8 DEF MemInv
    <2>5. From(s)' = off /\ From(s) = off
      <3>1. s \in Nat /\ s >= 1
        BY <1>3, SlotFacts
      <3> QED
        BY <3>1, <1>1 DEF From
    <2>6. SampleInv(s)' /\ RoomInv(s)'
      BY <2>1, <2>5, <1>1, <1>3, <1>6, <1>8, SampleFrame
    <2> QED
      BY <2>4, <2>6 DEF SlotContext
  <1>9. ASSUME NEW s \in Slots, NEW p \in Slots, slot[p].state = "DONE_PROMPT", slot[s].state = "WAIT_OTHER",
               slot[p].task = TaskOf(s).parent, slot'[s].state = "DONE_PROMPT", slot'[s].task = slot[s].task,
               slot'[s].ibatch = slot[p].ibatch, slot'[s].prompt = slot[p].prompt, kv'[s] = Grown(p)
        PROVE  SlotContext(s)'
    <2>1. /\ slot[s].task \in DOMAIN Requests /\ IsChild(slot[s].task)
      BY <1>9, BusySlot DEF Processing, BaseInv, StateInv
    <2>2. ~ IsChild(slot[p].task) /\ Requests[slot[p].task].type = Requests[slot[s].task].type
      BY <2>1, <1>3, <1>9, RequestFacts DEF TaskOf
    <2>3. ~ CanBeFull
      BY <2>1 DEF Supported, CanBeFull, IsChild, Requests
    <2>4. ViewEnd = Len(batch)
      <3>1. nbatch = NBatch /\ off = 0
        BY <2>3, <1>1, <1>3 DEF Context, WholeInv
      <3>2. Len(batch) <= NBatch /\ Len(batch) \in Nat /\ NBatch \in Nat
        BY <1>3, ViewFacts DEF BaseInv, BatchInv
      <3>3. nbatch >= Len(batch) - off
        BY <3>1, <3>2
      <3> QED
        BY <3>3, <1>3, ViewFacts
    <2>5. Pending(s)' = {} /\ Pending(p)' = {}
      <3>1. ViewEnd \in Nat /\ Len(batch) \in Nat
        BY <1>3, ViewFacts
      <3> QED
        BY <3>1, <2>4, <1>5
    <2>6. MemInv(p) /\ SampleInv(p) /\ RoomInv(p)
      BY <1>3, MemoryFacts
    <2>7. Len(Grown(p)) = Len(PromptOf(p)) /\ \A k \in 1..Len(PromptOf(p)) : Grown(p)[k] = PromptOf(p)[k]
      <3>1. Len(kv[p]) <= Len(PromptOf(p))
        BY <2>6, <1>9 DEF MemInv
      <3>2. Len(Grown(p)) <= Len(PromptOf(p)) /\ Len(Grown(p)) \in Nat /\ Len(PromptOf(p)) \in Nat
        BY <3>1, <1>7
      <3>3. \A k \in Len(Grown(p))..Len(PromptOf(p)) - 1 : FALSE
        BY <2>5, <1>7
      <3>4. Len(Grown(p)) = Len(PromptOf(p))
        BY <3>2, <3>3
      <3> QED
        BY <3>2, <3>4, <1>7
    <2>8. PromptOf(s)' = PromptOf(p)
      BY <1>9 DEF PromptOf
    <2>9. MemInv(s)'
      <3>1. Len(PromptOf(p)) \in Nat
        BY <1>7
      <3> QED
        BY <3>1, <2>5, <2>7, <2>8, <1>9, MemWhole
    <2>10. Logits(s)'
      <3> DEFINE b == slot[p].ibatch
                 f == batch[b + 1]
      <3>1. Logits(p)
        BY <2>6, <1>9 DEF SampleInv
      <3>2. From(p) = off /\ From(s)' = off
        <4>1. s \in Nat /\ s >= 1
          BY <1>3, SlotFacts
        <4> QED
          BY <4>1, <1>1 DEF From
      <3>3. b \in off..Len(batch) - 1 /\ f.output /\ f.pos = Len(PromptOf(p)) - 1
            /\ f.token = PromptOf(p)[Len(PromptOf(p))] /\ f.slot = p
        BY <3>1, <3>2, <2>2 DEF Logits
      <3>4. \A i \in 1..Len(batch) : batch[i].slot # s
        BY <1>3, <1>9 DEF BaseInv, BatchInv
      <3>5. slot'[p].task = TaskOf(s).parent /\ TaskOf(s)' = TaskOf(s) /\ IsChild(slot[s].task)'
        BY <2>1, <1>4, <1>6, <1>9 DEF TaskOf, IsChild
      <3>6. slot'[s].ibatch = b /\ batch'[b + 1] = f
        BY <1>1, <1>9
      <3> HIDE DEF f, b
      <3> QED
        BY <3>2, <3>3, <3>4, <3>5, <3>6, <2>8, <1>1 DEF Logits
    <2>11. SampleInv(s)'
      BY <2>10, <1>3, <1>9 DEF SampleInv
    <2>12. RoomInv(s)'
      <3>1. NeedEmbd(slot[s].task)' <=> NeedEmbd(slot[p].task)
        BY <2>2, <1>4, <1>9 DEF NeedEmbd
      <3> QED
        BY <3>1, <2>6, <2>8, <1>1, <1>4, <1>9 DEF RoomInv
    <2> QED
      BY <2>9, <2>11, <2>12 DEF SlotContext
  <1>10. \A s \in Slots : SlotContext(s)'
    BY <1>2, <1>8, <1>9
  <1>11. kv' \in [Slots -> Seq(Vocab \cup Media)]
    <2>1. \A s \in Slots : kv'[s] \in Seq(Vocab \cup Media)
      BY <1>2, <1>7
    <2> QED
      BY <2>1, <1>1
  <1>12. WholeInv'
    <2>1. WholeInv /\ CanBeFull' = CanBeFull /\ NBatch' = NBatch
      BY <1>1 DEF Context, CanBeFull, NBatch
    <2>2. ~ CanBeFull => off = 0 /\ nbatch = NBatch
      <3>1. off \in Nat /\ Len(batch) \in Nat
        BY <1>3, ViewFacts
      <3> QED
        BY <3>1, <2>1, <1>1, <1>3 DEF WholeInv
    <2> QED
      BY <2>1, <2>2, <1>1 DEF WholeInv
  <1> QED
    BY <1>4, <1>10, <1>11, <1>12 DEF Context

\* A full cache: an idle slot loses tokens and memory alike.
LEMMA ContextDecodeFull == ASSUME BaseInv, Context, DecodeFull PROVE Context'
  <1>1. phase = "decode" /\ CanBeFull /\ UNCHANGED <<setup, batch, head, off, phase, cur, launched, answer>>
    BY FullEffect
  <1>2. Types /\ Busy /\ Busy' /\ slot \in [Slots -> SlotRec] /\ kv \in [Slots -> Seq(Vocab \cup Media)]
    BY <1>1 DEF BaseInv, Types, Busy, Context
  <1>3. Slots' = Slots /\ WholeInv'
    BY <1>1 DEF Slots, NSlots, WholeInv, CanBeFull
  <1>4. \A s : Pending(s)' = Pending(s) /\ From(s)' = From(s)
    BY <1>1, <1>2 DEF Pending, Done, From
  <1>5. ASSUME NEW s \in Slots, slot'[s] = slot[s], kv'[s] = kv[s],
               \A u \in Slots : slot'[u].task = slot[u].task
        PROVE  SlotContext(s)'
    <2>1. MemInv(s) /\ SampleInv(s) /\ RoomInv(s)
      BY <1>2, MemoryFacts
    <2>2. MemInv(s)'
      <3>1. /\ slot[s].state \in {"DONE_PROMPT", "GENERATING"} => Len(kv[s]) <= Len(PromptOf(s))
            /\ slot[s].state = "IDLE" => Pending(s) = {}
        BY <2>1 DEF MemInv
      <3>2. PromptOf(s)' = PromptOf(s)
        BY <1>5 DEF PromptOf
      <3> QED
        BY <3>1, <3>2, <2>1, <1>1, <1>4, <1>5, MemFrame
    <2>3. SampleInv(s)' /\ RoomInv(s)'
      BY <2>1, <1>1, <1>2, <1>4, <1>5, SampleFrame
    <2> QED
      BY <2>2, <2>3 DEF SlotContext
  <1>6. CASE slot' = slot /\ kv' = kv
    <2>1. \A s \in Slots : SlotContext(s)'
      BY <1>5, <1>6
    <2> QED
      BY <2>1, <1>2, <1>3, <1>6 DEF Context
  <1>7. ASSUME NEW u \in Slots, slot[u].state = "IDLE", slot' = [slot EXCEPT ![u].prompt = <<>>],
               kv' = [kv EXCEPT ![u] = <<>>]
        PROVE  Context'
    <2>1. <<>> \in Seq(Vocab \cup Media) /\ Len(<<>>) = 0
      BY EmptySeq
    <2>2. kv' \in [Slots -> Seq(Vocab \cup Media)] /\ kv'[u] = <<>> /\ \A s \in Slots \ {u} : kv'[s] = kv[s]
      BY <2>1, <1>2, <1>7
    <2>3. /\ slot'[u].state = "IDLE" /\ slot'[u].prompt = <<>> /\ slot'[u].task = slot[u].task
          /\ \A s \in Slots \ {u} : slot'[s] = slot[s]
      BY <1>2, <1>7 DEF SlotRec
    <2>4. SlotContext(u)'
      <3>1. Pending(u)' = {}
        BY <1>2, <1>4, <1>7, MemoryFacts DEF MemInv
      <3>2. PromptOf(u)' = <<>>
        BY <2>3 DEF PromptOf
      <3>3. MemInv(u)'
        BY <3>1, <3>2, <2>1, <2>2, MemWhole
      <3> QED
        BY <3>3, <2>3, QuietSlot DEF SlotContext
    <2>5. \A s \in Slots : SlotContext(s)'
      <3>1. \A s \in Slots : slot'[s].task = slot[s].task
        BY <2>3
      <3> QED
        BY <3>1, <2>2, <2>3, <2>4, <1>5
    <2> QED
      BY <2>2, <2>5, <1>3 DEF Context
  <1> QED
    BY <1>6, <1>7, FullEffect

\* The decode failed: every busy slot forgets its tokens.
LEMMA ContextDecodeError == ASSUME BaseInv, Context, DecodeError PROVE Context'
  <1>1. /\ phase = "decode" /\ phase' = "wait" /\ setup' = setup /\ batch' = batch /\ off' = off /\ nbatch' = nbatch
        /\ slot' = [s \in Slots |-> IF Processing(s) THEN [Released(slot[s]) EXCEPT !.prompt = <<>>] ELSE slot[s]]
        /\ kv' = [s \in Slots |-> IF Processing(s) THEN <<>> ELSE kv[s]]
    BY DEF DecodeError, Undecoded, batchVars
  <1>2. Types /\ ~ Busy' /\ <<>> \in Seq(Vocab \cup Media) /\ Len(<<>>) = 0
    BY <1>1, EmptySeq DEF BaseInv, Busy
  <1>3. Slots' = Slots
    BY <1>1 DEF Slots, NSlots
  <1>4. ASSUME NEW s \in Slots PROVE SlotContext(s)' /\ kv'[s] \in Seq(Vocab \cup Media)
    <2>1. Pending(s)' = {}
      BY <1>2 DEF Pending
    <2>2. CASE Processing(s)
      <3>1. Released(slot[s]) \in SlotRec /\ Released(slot[s]).state = "IDLE"
        BY <1>2, SlotFacts, ReleasedFacts
      <3>2. slot'[s] = [Released(slot[s]) EXCEPT !.prompt = <<>>] /\ kv'[s] = <<>>
        BY <2>2, <1>1
      <3>3. slot'[s].prompt = <<>> /\ slot'[s].state = "IDLE"
        BY <3>1, <3>2 DEF SlotRec
      <3>4. PromptOf(s)' = <<>>
        BY <3>3 DEF PromptOf
      <3>5. MemInv(s)'
        BY <3>2, <3>4, <2>1, <1>2, MemWhole
      <3> QED
        BY <3>2, <3>3, <3>5, <1>2, QuietSlot DEF SlotContext
    <2>3. CASE ~ Processing(s)
      <3>1. slot'[s] = slot[s] /\ kv'[s] = kv[s] /\ slot[s].state = "IDLE"
        BY <2>3, <1>1 DEF Processing
      <3>2. MemInv(s) /\ kv[s] \in Seq(Vocab \cup Media) /\ Len(kv[s]) \in Nat /\ Len(PromptOf(s)) \in Nat
        BY <1>2, MemoryFacts
      <3>3. Pending(s) = {}
        BY <3>1, <3>2 DEF MemInv
      <3>4. Len(PromptOf(s)) <= Len(kv[s]) /\ \A p \in 1..Len(PromptOf(s)) : kv[s][p] = PromptOf(s)[p]
        BY <3>3, <1>2, NothingPending
      <3>5. PromptOf(s)' = PromptOf(s)
        BY <3>1 DEF PromptOf
      <3>6. MemInv(s)'
        BY <3>1, <3>2, <3>4, <3>5, <2>1, MemWhole
      <3> QED
        BY <3>1, <3>2, <3>6, QuietSlot DEF SlotContext
    <2> QED
      BY <2>2, <2>3
  <1>5. kv' \in [Slots -> Seq(Vocab \cup Media)]
    <2>1. kv' = [s \in Slots |-> kv'[s]]
      BY <1>1
    <2> QED
      BY <2>1, <1>4
  <1>6. WholeInv'
    BY <1>1, <1>2, WholeFrame DEF Context
  <1> QED
    BY <1>3, <1>4, <1>5, <1>6 DEF Context

\* At the end of a round every slot has sampled and nothing is left in the batch.
LEMMA ContextRoundEnds == ASSUME BaseInv, Context, RoundEnds PROVE Context'
  <1>1. /\ phase = "decode" /\ off = Len(batch) /\ phase' = "wait" /\ setup' = setup /\ slot' = slot /\ kv' = kv
        /\ batch' = batch /\ off' = off /\ nbatch' = nbatch
    BY DEF RoundEnds, batchVars
  <1>2. Types /\ Busy /\ ~ Busy' /\ Len(batch) \in Nat
    BY <1>1, ViewFacts DEF BaseInv, Busy
  <1>3. Slots' = Slots /\ NCtx' = NCtx /\ Requests' = Requests
    BY <1>1 DEF Slots, NSlots, NCtx, Requests
  <1>4. ASSUME NEW s \in Slots PROVE SlotContext(s)'
    <2>1. MemInv(s) /\ SampleInv(s) /\ RoomInv(s) /\ Len(kv[s]) \in Nat /\ Len(PromptOf(s)) \in Nat
      BY <1>2, MemoryFacts
    <2>2. Pending(s)' = {} /\ Pending(s) = {}
      BY <1>1, <1>2 DEF Pending, Done
    <2>3. MemInv(s)'
      <3>1. /\ slot[s].state \in {"DONE_PROMPT", "GENERATING"} => Len(kv[s]) <= Len(PromptOf(s))
        BY <2>1 DEF MemInv
      <3>2. PromptOf(s)' = PromptOf(s)
        BY <1>1 DEF PromptOf
      <3> QED
        BY <3>1, <3>2, <2>1, <2>2, <1>1, MemFrame
    <2>4. ~ Logits(s)
      <3>1. From(s) = Len(batch)
        BY <1>1 DEF From
      <3> QED
        BY <3>1, <1>2 DEF Logits
    <2>5. SampleInv(s)'
      BY <2>1, <2>4, <1>1, <1>2 DEF SampleInv
    <2>6. RoomInv(s)'
      BY <2>1, <1>1, <1>3 DEF RoomInv, PromptOf, NeedEmbd
    <2> QED
      BY <2>3, <2>5, <2>6 DEF SlotContext
  <1>5. WholeInv'
    BY <1>1, <1>2, WholeFrame DEF Context
  <1> QED
    BY <1>1, <1>3, <1>4, <1>5 DEF Context

-----------------------------------------------------------------------------
\* A slot that samples has its whole prompt in the memory, and nothing beyond it.
LEMMA SamplingContext ==
    ASSUME BaseInv, Context, NEW s \in Slots, Sampling(s)
    PROVE  /\ Logits(s) /\ slot[s].ibatch + 1 \in 1..Len(batch)
           /\ Pending(s) = {} /\ kv[s] = PromptOf(s)
  <1>1. /\ phase = "post" /\ slot[s].state \in {"DONE_PROMPT", "GENERATING"}
        /\ Types /\ Busy /\ InView(slot[s].ibatch)
    BY DEF BaseInv, Busy, Sampling
  <1>2. /\ MemInv(s) /\ SampleInv(s) /\ Len(PromptOf(s)) \in Nat /\ slot[s].ibatch \in Int
    BY <1>1, MemoryFacts, SlotFacts
  <1>3. /\ ViewEnd \in Nat /\ off \in Nat /\ Len(batch) \in Nat /\ ViewEnd <= Len(batch)
        /\ off <= slot[s].ibatch /\ slot[s].ibatch < ViewEnd
    BY <1>1, <1>2, ViewFacts
  <1>4. Logits(s)
    BY <1>1, <1>2, <1>3 DEF SampleInv
  <1>5. PICK k \in 1..Len(batch) : k = slot[s].ibatch + 1
    BY <1>2, <1>3
  <1>6. Pending(s) = {}
    <2> SUFFICES ASSUME NEW i \in Pending(s) PROVE FALSE
      OBVIOUS
    <2>1. i \in 1..Len(batch) /\ i > ViewEnd /\ batch[i].slot = s
      BY <1>1 DEF Pending, Done
    <2>2. batch[k].slot = s /\ batch[k].pos = Len(PromptOf(s)) - 1
      BY <2>1, <1>4, <1>5 DEF Logits
    <2>3. k < i
      <3>1. k <= ViewEnd
        BY <1>2, <1>3, <1>5
      <3> QED
        BY <3>1, <2>1, <1>3, <1>5
    <2>4. batch[k].pos < batch[i].pos
      BY <2>1, <2>2, <2>3, <1>1 DEF BaseInv, BatchInv
    <2>5. batch[i].pos < Len(PromptOf(s)) /\ batch[i].pos \in Nat
      BY <2>1, <1>1, <1>2, EntryFacts DEF MemInv
    <2> QED
      BY <2>2, <2>4, <2>5, <1>2
  <1>7. kv[s] = PromptOf(s)
    BY <1>1, <1>6, NothingPending
  <1> QED
    BY <1>4, <1>5, <1>6, <1>7

\* What the iteration over the slots that sample leaves of the batch.
LEMMA PostFrame ==
    ASSUME BaseInv, Context, phase = "post", NextSubBatch
    PROVE  /\ Busy /\ Busy' /\ phase' # "batch" /\ Slots' = Slots /\ WholeInv'
           /\ \A s : Pending(s)' = Pending(s)
           /\ \A s \in Slots : (s = cur => ~ InView(slot[s].ibatch)) /\ slot[s].ibatch \in From(s)..Len(batch) - 1
                 => slot[s].ibatch \in From(s)'..Len(batch) - 1
  <1>1. Types /\ cur \in Slots /\ cur \in Nat /\ NSlots \in Nat
    BY SetupFacts DEF BaseInv, Types, Slots
  <1>2. /\ setup' = setup /\ batch' = batch
        /\ \/ phase' = "post" /\ cur < NSlots /\ cur' = cur + 1 /\ off' = off /\ nbatch' = nbatch
           \/ phase' = "decode" /\ cur = NSlots /\ off' = ViewEnd /\ nbatch' = NBatch
    BY NextSubBatchFacts
  <1>3. /\ ViewEnd \in Nat /\ off \in Nat /\ Len(batch) \in Nat /\ off <= ViewEnd /\ ViewEnd <= Len(batch)
        /\ nbatch >= Len(batch) - off => ViewEnd = Len(batch)
    BY <1>1, ViewFacts
  <1>4. Busy /\ Busy' /\ phase' # "batch" /\ Slots' = Slots
    BY <1>2 DEF Busy, Slots, NSlots
  <1>5. phase' = "post" => ViewEnd' = ViewEnd
    BY <1>2 DEF ViewEnd
  <1>6. Done' = Done
    BY <1>2, <1>5 DEF Done
  <1>7. \A s : Pending(s)' = Pending(s)
    BY <1>2, <1>4, <1>6, PendingFrame
  <1>8. WholeInv'
    <2>1. ASSUME ~ CanBeFull PROVE nbatch = NBatch /\ off = 0 /\ Len(batch) <= NBatch /\ NBatch \in Nat
      BY <2>1, <1>1, <1>4, ViewFacts DEF Context, WholeInv, BaseInv, BatchInv
    <2>2. ASSUME ~ CanBeFull PROVE ViewEnd = Len(batch)
      BY <2>1, <2>2, <1>3
    <2>3. CanBeFull' <=> CanBeFull
      BY <1>2 DEF CanBeFull
    <2>4. NBatch' = NBatch
      BY <1>2 DEF NBatch
    <2> QED
      BY <2>1, <2>2, <2>3, <2>4, <1>2 DEF WholeInv
  <1>9. ASSUME NEW s \in Slots, slot[s].ibatch \in From(s)..Len(batch) - 1,
               s # cur \/ ~ InView(slot[s].ibatch)
        PROVE  slot[s].ibatch \in From(s)'..Len(batch) - 1
    <2>1. slot[s].ibatch \in Int /\ s \in Nat /\ s <= NSlots
      BY <1>1, SlotFacts
    <2>2. CASE phase' = "post"
      <3>1. From(s)' = IF s < cur + 1 THEN ViewEnd ELSE off
        BY <2>2, <1>2, <1>5 DEF From
      <3>2. CASE s # cur
        <4>1. From(s)' = From(s)
          BY <3>1, <3>2, <2>1, <1>1 DEF From
        <4> QED
          BY <4>1, <1>9
      <3>3. CASE s = cur
        <4>1. From(s)' = ViewEnd /\ From(s) = off
          BY <3>1, <3>3, <1>1 DEF From
        <4>2. ~ InView(slot[s].ibatch) /\ off <= slot[s].ibatch
          BY <4>1, <3>3, <2>1, <1>3, <1>9
        <4>3. ViewEnd <= slot[s].ibatch
          BY <4>2, <2>1, <1>1, <1>3, ViewFacts
        <4>4. slot[s].ibatch <= Len(batch) - 1
          BY <4>1, <2>1, <1>3, <1>9
        <4>5. slot[s].ibatch \in ViewEnd..Len(batch) - 1
          BY <4>3, <4>4, <2>1, <1>3
        <4> QED
          BY <4>1, <4>5
      <3> QED
        BY <3>2, <3>3
    <2>3. CASE phase' = "decode"
      <3>1. From(s)' = ViewEnd /\ cur = NSlots
        BY <2>3, <1>2 DEF From
      <3>2. CASE s # cur
        <4>1. From(s) = ViewEnd
          BY <3>1, <3>2, <2>1, <1>1 DEF From
        <4> QED
          BY <4>1, <3>1, <1>9
      <3>3. CASE s = cur
        <4>1. From(s) = off
          BY <3>3, <1>1 DEF From
        <4>2. ~ InView(slot[s].ibatch) /\ off <= slot[s].ibatch
          BY <4>1, <3>3, <2>1, <1>3, <1>9
        <4>3. ViewEnd <= slot[s].ibatch
          BY <4>2, <2>1, <1>1, <1>3, ViewFacts
        <4>4. slot[s].ibatch <= Len(batch) - 1
          BY <4>1, <2>1, <1>3, <1>9
        <4>5. slot[s].ibatch \in ViewEnd..Len(batch) - 1
          BY <4>3, <4>4, <2>1, <1>3
        <4> QED
          BY <4>5, <3>1
      <3> QED
        BY <3>2, <3>3
    <2> QED
      BY <2>2, <2>3, <1>2
  <1>10. \A s \in Slots : (s = cur => ~ InView(slot[s].ibatch)) /\ slot[s].ibatch \in From(s)..Len(batch) - 1
            => slot[s].ibatch \in From(s)'..Len(batch) - 1
    BY <1>9
  <1> QED
    BY <1>4, <1>7, <1>8, <1>10

\* A slot that the iteration over the slots leaves alone.
LEMMA PostAside ==
    ASSUME BaseInv, Context, phase = "post", NextSubBatch, NEW s \in Slots, slot'[s] = slot[s], kv'[s] = kv[s],
           s = cur => ~ Sampling(cur), \A u \in Slots : slot'[u].task \in {slot[u].task, NoTask}
    PROVE  SlotContext(s)'
  <1>1. Types /\ setup' = setup /\ batch' = batch
    BY NextSubBatchFacts DEF BaseInv
  <1>2. MemInv(s) /\ SampleInv(s) /\ RoomInv(s)
    BY <1>1, MemoryFacts
  <1>3. Busy /\ Busy' /\ phase' # "batch" /\ Pending(s)' = Pending(s)
    BY PostFrame
  <1>4. MemInv(s)'
    <2>1. /\ slot[s].state \in {"DONE_PROMPT", "GENERATING"} => Len(kv[s]) <= Len(PromptOf(s))
          /\ slot[s].state = "IDLE" => Pending(s) = {}
      BY <1>2 DEF MemInv
    <2>2. PromptOf(s)' = PromptOf(s)
      BY DEF PromptOf
    <2> QED
      BY <2>1, <2>2, <1>1, <1>2, <1>3, MemFrame
  <1>5. SampleInv(s)' /\ RoomInv(s)'
    <2>1. CASE slot[s].state \in {"DONE_PROMPT", "GENERATING"}
      <3>1. s = cur => ~ InView(slot[s].ibatch)
        BY <2>1 DEF Sampling
      <3>2. slot[s].ibatch \in From(s)..Len(batch) - 1 => slot[s].ibatch \in From(s)'..Len(batch) - 1
        BY <3>1, PostFrame
      <3> QED
        BY <3>2, <1>1, <1>2, <1>3, SampleFrame
    <2>2. CASE slot[s].state \notin {"DONE_PROMPT", "GENERATING"}
      BY <2>2, QuietSlot
    <2> QED
      BY <2>1, <2>2
  <1> QED
    BY <1>4, <1>5 DEF SlotContext

\* Nothing to sample for this slot.
LEMMA ContextNothing == ASSUME BaseInv, Context, NothingToSample PROVE Context'
  <1>1. phase = "post" /\ NextSubBatch /\ slot' = slot /\ kv' = kv /\ ~ Sampling(cur)
    BY DEF NothingToSample
  <1>2. Slots' = Slots /\ WholeInv'
    BY <1>1, PostFrame
  <1>3. \A s \in Slots : SlotContext(s)'
    BY <1>1, PostAside
  <1> QED
    BY <1>1, <1>2, <1>3 DEF Context

\* The slot that samples ends its request and is released.
LEMMA ContextPostRelease ==
    ASSUME BaseInv, Context, Sampling(cur), NextSubBatch, NEW r, r.state = "IDLE", r.task = NoTask,
           r.prompt = (IF IsChild(slot[cur].task) THEN <<>> ELSE slot[cur].prompt),
           slot' = [slot EXCEPT ![cur] = r], kv' = [kv EXCEPT ![cur] = KvReleased(cur)]
    PROVE  Context'
  <1>1. PICK c \in Slots : c = cur
    BY DEF BaseInv, Types
  <1>2. phase = "post" /\ Types /\ slot \in [Slots -> SlotRec] /\ kv \in [Slots -> Seq(Vocab \cup Media)]
    BY SamplingFacts DEF BaseInv, Types, Context
  <1>3. Slots' = Slots /\ WholeInv' /\ Pending(c)' = Pending(c)
    BY <1>2, PostFrame
  <1>4. /\ slot'[c] = r /\ (\A s \in Slots \ {c} : slot'[s] = slot[s])
        /\ kv'[c] = KvReleased(c) /\ (\A s \in Slots \ {c} : kv'[s] = kv[s])
    BY <1>1, <1>2
  <1>5. kv' \in [Slots -> Seq(Vocab \cup Media)]
    <2>1. KvReleased(c) \in Seq(Vocab \cup Media)
      BY <1>2, KvReleasedFacts
    <2> QED
      BY <2>1, <1>1, <1>2
  <1>6. SlotContext(c)'
    <2>1. Pending(c) = {} /\ Pending(c)' = {}
      BY <1>1, <1>3, SamplingContext
    <2> QED
      BY <2>1, <1>1, <1>4, ContextReleased
  <1>7. ASSUME NEW s \in Slots \ {c} PROVE SlotContext(s)'
    <2>1. \A u \in Slots : slot'[u].task \in {slot[u].task, NoTask}
      BY <1>4
    <2>2. slot'[s] = slot[s] /\ kv'[s] = kv[s] /\ s # cur
      BY <1>1, <1>4
    <2> QED
      BY <2>1, <2>2, <1>2, PostAside
  <1> QED
    BY <1>3, <1>5, <1>6, <1>7 DEF Context

\* The steps that end a request after it sampled.
LEMMA ContextSampleEnd == ASSUME BaseInv, Context, SendEmbedding \/ SampleLast \/ SampleFails PROVE Context'
  <1>1. Sampling(cur) /\ NextSubBatch /\ kv' = [kv EXCEPT ![cur] = KvReleased(cur)]
    BY DEF SendEmbedding, SampleLast, SampleFails
  <1>2. cur \in Slots /\ slot[cur] \in SlotRec /\ Types
    BY <1>1, SamplingFacts DEF BaseInv
  <1>3. PICK q : q = Released(slot[cur])
    OBVIOUS
  <1>4. /\ q \in SlotRec /\ q.state = "IDLE" /\ q.task = NoTask
        /\ q.prompt = IF IsChild(slot[cur].task) THEN <<>> ELSE slot[cur].prompt
    BY <1>2, <1>3, ReleasedFacts
  <1>5. CASE SendEmbedding
    <2>1. PICK r : r = [q EXCEPT !.ibatch = -1]
      OBVIOUS
    <2>2. r.state = q.state /\ r.task = q.task /\ r.prompt = q.prompt
      BY <2>1, <1>4 DEF SlotRec
    <2>3. slot' = [slot EXCEPT ![cur] = r]
      BY <2>1, <1>3, <1>5 DEF SendEmbedding
    <2> QED
      BY <2>2, <2>3, <1>1, <1>4, ContextPostRelease
  <1>6. CASE SampleLast
    <2>1. PICK tok \in Vocab : slot' = [slot EXCEPT ![cur] = Released(Sampled(cur, tok))]
      BY <1>6 DEF SampleLast
    <2>2. PICK v : v = Sampled(cur, tok)
      OBVIOUS
    <2>3. v \in SlotRec /\ v.task = slot[cur].task /\ v.prompt = slot[cur].prompt
      BY <2>2, <1>2, SampledFacts
    <2>4. PICK r : r = Released(v)
      OBVIOUS
    <2>5. r.state = "IDLE" /\ r.task = NoTask /\ r.prompt = IF IsChild(v.task) THEN <<>> ELSE v.prompt
      BY <2>3, <2>4, ReleasedFacts
    <2>6. r.prompt = IF IsChild(slot[cur].task) THEN <<>> ELSE slot[cur].prompt
      BY <2>3, <2>5
    <2>7. slot' = [slot EXCEPT ![cur] = r]
      BY <2>1, <2>2, <2>4
    <2> QED
      BY <2>5, <2>6, <2>7, <1>1, ContextPostRelease
  <1>7. CASE SampleFails
    <2>1. slot' = [slot EXCEPT ![cur] = q]
      BY <1>3, <1>7 DEF SampleFails
    <2> QED
      BY <2>1, <1>1, <1>4, ContextPostRelease
  <1> QED
    BY <1>5, <1>6, <1>7

\* A slot goes on with the token it sampled: its prompt is in the memory, its room is what it was.
LEMMA ContextSampleToken == ASSUME BaseInv, Context, SampleToken PROVE Context'
  <1>1. Sampling(cur) /\ NextSubBatch /\ ~ NeedEmbd(slot[cur].task) /\ kv' = kv
    BY DEF SampleToken
  <1>2. /\ phase = "post" /\ cur \in Slots /\ slot[cur].state \in {"DONE_PROMPT", "GENERATING"}
        /\ slot \in [Slots -> SlotRec] /\ Types
    BY <1>1, SamplingFacts DEF BaseInv, Types
  <1>3. PICK tok \in Vocab : slot' = [slot EXCEPT ![cur] = Sampled(cur, tok)]
    BY DEF SampleToken
  <1>4. PICK r : r = Sampled(cur, tok)
    OBVIOUS
  <1>5. r.state = "GENERATING" /\ r.ibatch = -1 /\ r.task = slot[cur].task /\ r.prompt = slot[cur].prompt
    BY <1>2, <1>4, SampledFacts
  <1>6. PICK c \in Slots : c = cur
    BY <1>2
  <1>7. slot'[c] = r /\ \A s \in Slots \ {c} : slot'[s] = slot[s]
    BY <1>2, <1>3, <1>4, <1>6
  <1>8. Slots' = Slots /\ WholeInv' /\ Pending(c)' = Pending(c) /\ phase' # "batch" /\ setup' = setup
    BY <1>1, <1>2, PostFrame, NextSubBatchFacts
  <1>9. SlotContext(c)'
    <2>1. RoomInv(c) /\ Len(PromptOf(c)) \in Nat
      BY <1>2, MemoryFacts
    <2>2. Pending(c)' = {} /\ kv[c] = PromptOf(c)
      BY <1>1, <1>6, <1>8, SamplingContext
    <2>3. PromptOf(c)' = PromptOf(c) /\ kv'[c] = PromptOf(c)
      BY <2>2, <1>1, <1>5, <1>7, <1>6 DEF PromptOf
    <2>4. MemInv(c)'
      BY <2>1, <2>2, <2>3, MemWhole
    <2>5. SampleInv(c)'
      BY <1>5, <1>7 DEF SampleInv
    <2>6. RoomInv(c)'
      <3>1. NCtx' = NCtx
        BY <1>8 DEF NCtx
      <3>2. Len(PromptOf(c)) < NCtx
        BY <2>1, <1>1, <1>2, <1>6 DEF RoomInv
      <3> QED
        BY <3>1, <3>2, <2>3, <1>8 DEF RoomInv
    <2> QED
      BY <2>4, <2>5, <2>6 DEF SlotContext
  <1>10. ASSUME NEW s \in Slots \ {c} PROVE SlotContext(s)'
    <2>1. \A u \in Slots : slot'[u].task = slot[u].task
      BY <1>5, <1>6, <1>7
    <2>2. slot'[s] = slot[s] /\ kv'[s] = kv[s] /\ s # cur
      BY <1>1, <1>6, <1>7
    <2> QED
      BY <2>1, <2>2, <1>1, <1>2, PostAside
  <1>11. kv' \in [Slots -> Seq(Vocab \cup Media)]
    BY <1>1 DEF Context
  <1> QED
    BY <1>8, <1>9, <1>10, <1>11 DEF Context

-----------------------------------------------------------------------------
\* The server starts with nothing in memory.
LEMMA ContextInit == ASSUME Init PROVE Context
  <1>1. BaseInv /\ Types
    BY BaseInit DEF BaseInv
  <1>2. /\ kv = [s \in Slots |-> <<>>] /\ phase = "wait" /\ nbatch = NBatch
        /\ \A s \in Slots : slot[s].state = "IDLE" /\ slot[s].prompt = <<>>
    BY DEF Init
  <1>3. <<>> \in Seq(Vocab \cup Media) /\ Len(<<>>) = 0
    BY EmptySeq
  <1>4. ~ Busy
    BY <1>2 DEF Busy
  <1>5. WholeInv
    BY <1>2, <1>4 DEF WholeInv
  <1>6. ASSUME NEW s \in Slots PROVE SlotContext(s)
    <2>1. PromptOf(s) = <<>> /\ kv[s] = <<>> /\ slot[s].state = "IDLE" /\ phase # "batch"
      BY <1>2 DEF PromptOf
    <2>2. Pending(s) = {}
      BY <1>4, NoRound
    <2>3. Len(PromptOf(s)) = 0 /\ Len(kv[s]) = 0
      BY <2>1, <1>3
    <2>4. MemInv(s)
      BY <2>1, <2>2, <2>3 DEF MemInv
    <2>5. SampleInv(s) /\ RoomInv(s)
      BY <2>1 DEF SampleInv, RoomInv
    <2> QED
      BY <2>4, <2>5 DEF SlotContext
  <1> QED
    BY <1>2, <1>3, <1>5, <1>6 DEF Context

\* No step changes the server or its requests.
LEMMA SetupStays == ASSUME [Next]_vars PROVE setup' = setup
  <1>1. PreDecode => setup' = setup
    BY DEF PreDecode, ShiftContext, BatchSampled, SkipSlot, EmptyPrompt, RejectPrompt, Postpone, FillPrompt, MediaFails
  <1>2. Decode => setup' = setup
    BY DEF Decode, DecodeOk, DecodeFull, DecodeError, RoundEnds
  <1>3. PostDecode => setup' = setup
    BY DEF PostDecode, NothingToSample, SendEmbedding, SampleToken, SampleLast, SampleFails, NextSubBatch
  <1>4. UpdateSlots => setup' = setup
    BY DEF UpdateSlots
  <1>5. \A t : LaunchFamily(t) \/ CancelFamily(t) => setup' = setup
    BY DEF LaunchFamily, CancelFamily
  <1>6. UNCHANGED vars => setup' = setup
    BY DEF vars
  <1> QED
    BY <1>1, <1>2, <1>3, <1>4, <1>5, <1>6 DEF Next, MainLoop

\* Every step keeps the tokens of the slots and their memory together.
LEMMA ContextStep == ASSUME BaseInv, Context, Supported(setup), [Next]_vars PROVE Context'
  <1>1. CASE UpdateSlots
    BY <1>1, ContextUpdateSlots
  <1>2. CASE PreDecode
    BY <1>2, ContextShiftContext, ContextBatchSampled, ContextSkipSlot, ContextNoPrompt, ContextPostpone,
       ContextFillPrompt, ContextMediaFails DEF PreDecode
  <1>3. CASE Decode
    BY <1>3, ContextDecodeOk, ContextDecodeFull, ContextDecodeError, ContextRoundEnds DEF Decode
  <1>4. CASE PostDecode
    BY <1>4, ContextNothing, ContextSampleEnd, ContextSampleToken DEF PostDecode
  <1>5. ASSUME NEW t \in DOMAIN Requests, LaunchFamily(t) \/ CancelFamily(t) PROVE Context'
    BY <1>5, ContextLaunchFamily, ContextCancelFamily
  <1>6. CASE UNCHANGED vars
    <2>1. /\ setup' = setup /\ slot' = slot /\ kv' = kv /\ batch' = batch /\ phase' = phase /\ cur' = cur
          /\ off' = off /\ nbatch' = nbatch
      BY <1>6 DEF vars
    <2>2. Slots' = Slots /\ Types /\ (Busy' <=> Busy)
      BY <2>1 DEF Slots, NSlots, BaseInv, Busy
    <2>3. WholeInv'
      BY <2>1, WholeFrame DEF Context
    <2>4. \A s : Pending(s)' = Pending(s) /\ From(s)' = From(s)
      BY <2>1 DEF Pending, Busy, Done, From, ViewEnd
    <2>5. ASSUME NEW s \in Slots PROVE SlotContext(s)'
      <3>1. MemInv(s) /\ SampleInv(s) /\ RoomInv(s)
        BY <2>2, MemoryFacts
      <3>2. PromptOf(s)' = PromptOf(s) /\ Requests' = Requests /\ NCtx' = NCtx
        BY <2>1 DEF PromptOf, Requests, NCtx
      <3>3. MemInv(s)'
        BY <3>1, <3>2, <2>1, <2>4 DEF MemInv
      <3>4. Logits(s)' <=> Logits(s)
        BY <3>2, <2>1, <2>4 DEF Logits, TaskOf, IsChild
      <3>5. SampleInv(s)' /\ RoomInv(s)'
        BY <3>1, <3>2, <3>4, <2>1, <2>2 DEF SampleInv, RoomInv, NeedEmbd
      <3> QED
        BY <3>3, <3>5 DEF SlotContext
    <2> QED
      BY <2>1, <2>2, <2>3, <2>5 DEF Context
  <1> QED
    BY <1>1, <1>2, <1>3, <1>4, <1>5, <1>6 DEF Next, MainLoop

-----------------------------------------------------------------------------
\* Between two rounds the tokens of a slot are the first tokens of its sequence.
LEMMA ContextCached == ASSUME BaseInv, Context PROVE PromptCached
  <1> SUFFICES ASSUME phase = "wait", NEW s \in Slots PROVE IsPrefix(PromptOf(s), kv[s])
    BY DEF PromptCached
  <1>1. Types /\ Pending(s) = {}
    BY NoRound DEF BaseInv, Busy
  <1>2. /\ kv[s] \in Seq(Vocab \cup Media) /\ Len(kv[s]) \in Nat
        /\ PromptOf(s) \in Seq(Vocab \cup Media) /\ Len(PromptOf(s)) \in Nat
    BY <1>1, MemoryFacts
  <1>3. Len(PromptOf(s)) <= Len(kv[s]) /\ \A p \in 1..Len(PromptOf(s)) : kv[s][p] = PromptOf(s)[p]
    BY <1>1, NothingPending
  <1>4. PICK n \in Nat : n = Len(PromptOf(s))
    BY <1>2
  <1>5. n \in 0..Len(kv[s]) /\ n \in 0..Len(PromptOf(s))
    BY <1>2, <1>3, <1>4
  <1>6. /\ SubSeq(kv[s], 1, n) \in Seq(Vocab \cup Media) /\ Len(SubSeq(kv[s], 1, n)) = n
        /\ \A i \in 1..n : SubSeq(kv[s], 1, n)[i] = kv[s][i]
    BY <1>2, <1>5, PrefixFacts
  <1>7. /\ SubSeq(PromptOf(s), 1, n) \in Seq(Vocab \cup Media) /\ Len(SubSeq(PromptOf(s), 1, n)) = n
        /\ \A i \in 1..n : SubSeq(PromptOf(s), 1, n)[i] = PromptOf(s)[i]
    BY <1>2, <1>5, PrefixFacts
  <1>8. SubSeq(PromptOf(s), 1, n) = SubSeq(kv[s], 1, n)
    BY <1>3, <1>4, <1>6, <1>7, SeqEqual
  <1> QED
    BY <1>3, <1>4, <1>8 DEF IsPrefix

\* The tokens of a slot in the sub-batch continue its memory, one position after the other.
LEMMA ContextAccepts == ASSUME BaseInv, Context PROVE DecodeAccepts
  <1> SUFFICES ASSUME phase = "decode", NEW s \in Slots
               PROVE  \A i \in 1..Len(ViewOf(s)) : ViewOf(s)[i].pos = Len(kv[s]) + i - 1
    BY DEF DecodeAccepts, Undecoded, Accepted
  <1> DEFINE v == ViewOf(s)
             n == Len(v)
             L == Len(kv[s])
  <1>1. Types /\ Busy
    BY DEF BaseInv, Busy
  <1>2. L \in Nat /\ Len(PromptOf(s)) \in Nat /\ MemInv(s)
    BY <1>1, MemoryFacts
  <1>3. n \in Nat /\ v \in Seq(BatchRec)
    BY <1>1, ViewOfFacts
  <1>4. PICK h \in [1..n -> Nat] :
            /\ \A k \in 1..n : h[k] \in off + 1..ViewEnd /\ v[k] = batch[h[k]] /\ batch[h[k]].slot = s
            /\ \A j, k \in 1..n : j < k => h[j] < h[k]
            /\ \A i \in off + 1..ViewEnd : batch[i].slot = s => \E k \in 1..n : h[k] = i
    BY <1>1, ViewOfFacts
  <1>5. ViewEnd \in Nat /\ off \in Nat /\ off <= ViewEnd /\ ViewEnd <= Len(batch) /\ Len(batch) \in Nat
    BY <1>1, ViewFacts
  <1> HIDE DEF v
  <1>6. ASSUME NEW i PROVE i \in Pending(s) <=> i \in 1..Len(batch) /\ i > off /\ batch[i].slot = s
    BY <1>1 DEF Pending, Done
  <1>7. ASSUME NEW k \in 1..n
        PROVE  /\ h[k] \in Pending(s) /\ h[k] \in 1..Len(batch) /\ v[k].pos = batch[h[k]].pos
               /\ v[k].pos \in Nat /\ v[k].pos >= L /\ v[k].pos < Len(PromptOf(s))
    <2>1. h[k] \in 1..Len(batch) /\ h[k] > off
      BY <1>4, <1>5
    <2>2. h[k] \in Pending(s)
      BY <2>1, <1>4, <1>6
    <2>3. Len(kv[s]) <= batch[h[k]].pos /\ batch[h[k]].pos < Len(PromptOf(s)) /\ batch[h[k]].pos \in Nat
      BY <2>1, <2>2, <1>1, <1>2, EntryFacts DEF MemInv
    <2> QED
      BY <2>1, <2>2, <2>3, <1>2, <1>4
  <1>8. PICK a \in [1..n -> Nat] : \A k \in 1..n : a[k] = v[k].pos
    <2>1. [k \in 1..n |-> v[k].pos] \in [1..n -> Nat]
      BY <1>7
    <2> QED
      BY <2>1
  <1>9. \A k \in 1..n : a[k] >= L
    BY <1>7, <1>8
  <1>10. ASSUME NEW i \in Pending(s), NEW j \in Pending(s), i < j PROVE batch[i].pos < batch[j].pos
    BY <1>1, <1>6, <1>10 DEF BaseInv, BatchInv
  <1>11. ASSUME NEW j \in 1..n, NEW k \in 1..n, j < k PROVE a[j] < a[k]
    <2>1. h[j] < h[k]
      BY <1>4, <1>11
    <2>2. batch[h[j]].pos < batch[h[k]].pos
      BY <2>1, <1>7, <1>10
    <2> QED
      BY <2>2, <1>7, <1>8
  <1>12. ASSUME NEW k \in 1..n, NEW p \in L..a[k] PROVE \E j \in 1..n : a[j] = p
    <2>1. a[k] = v[k].pos /\ v[k].pos = batch[h[k]].pos /\ a[k] \in Nat /\ a[k] < Len(PromptOf(s))
      BY <1>7, <1>8
    <2>2. p \in L..Len(PromptOf(s)) - 1 /\ p \in Nat /\ p <= a[k]
      BY <2>1, <1>2
    <2>3. PICK i \in Pending(s) : batch[i].pos = p
      BY <2>2, <1>2 DEF MemInv
    <2>4. i \in 1..Len(batch) /\ i > off /\ batch[i].slot = s
      BY <1>6
    <2>5. h[k] \in Pending(s) /\ h[k] \in off + 1..ViewEnd
      BY <1>4, <1>7
    <2>6. ~ (h[k] < i)
      BY <2>1, <2>2, <2>3, <2>5, <1>10
    <2>7. i \in off + 1..ViewEnd
      BY <2>4, <2>5, <2>6, <1>5
    <2>8. PICK j \in 1..n : h[j] = i
      BY <2>4, <2>7, <1>4
    <2>9. a[j] = p
      BY <2>3, <2>8, <1>7, <1>8
    <2> QED
      BY <2>9
  <1>13. \A i \in 1..n : a[i] = L + i - 1
    <2> HIDE DEF n, L
    <2> QED
      BY <1>2, <1>3, <1>9, <1>11, <1>12, Staircase
  <1> QED
    BY <1>8, <1>13 DEF v

\* A slot samples from the logits of its own last token.
LEMMA ContextSamples == ASSUME BaseInv, Context PROVE SamplesOwnContext
  <1> SUFFICES ASSUME Sampling(cur) PROVE SamplesOwnContext
    BY DEF SamplesOwnContext
  <1> DEFINE e == batch[slot[cur].ibatch + 1]
  <1>1. Logits(cur) /\ kv[cur] = PromptOf(cur)
    BY SamplingContext DEF BaseInv, Types
  <1>2. /\ e.output /\ e.token = PromptOf(cur)[Len(PromptOf(cur))]
        /\ e.slot = cur \/ TaskOf(cur).parent = slot[e.slot].task \/ slot[e.slot].task = NoTask
    BY <1>1 DEF Logits
  <1> QED
    BY <1>1, <1>2 DEF SamplesOwnContext, Last

\* The inductive invariant of the rounds.
LEMMA RoundsInvariant == Spec => [](BaseInv /\ ContextInv)
  <1>1. Init => BaseInv /\ ContextInv
    BY BaseInit, ContextInit DEF ContextInv
  <1>2. BaseInv /\ ContextInv /\ [Next]_vars => BaseInv' /\ ContextInv'
    <2> SUFFICES ASSUME BaseInv, ContextInv, [Next]_vars PROVE BaseInv' /\ ContextInv'
      OBVIOUS
    <2>1. BaseInv'
      BY BaseStep
    <2>2. ASSUME Supported(setup)' PROVE Context'
      <3>1. Supported(setup)
        BY <2>2, SetupStays
      <3> QED
        BY <3>1, ContextStep DEF ContextInv
    <2> QED
      BY <2>1, <2>2 DEF ContextInv
  <1> QED
    BY <1>1, <1>2, PTL DEF Spec

(* What the server believes of a slot is what its memory holds: between    *)
(* two rounds the tokens of a slot are the first ones of its sequence, the *)
(* base of the prefix that update_slots reuses, and a context shift always *)
(* makes room - through cancels, shifts, sub-batches, full caches, failed  *)
(* chunks and decode errors, for all batch and context sizes.              *)
THEOREM SlotsAreTrue == Spec => [](Supported(setup) => SlotInv)
  <1>1. BaseInv /\ ContextInv => (Supported(setup) => SlotInv)
    <2> SUFFICES ASSUME BaseInv, Context PROVE SlotInv
      BY DEF ContextInv
    <2>1. TypeOK
      <3>1. Types /\ NSlots \in Nat /\ kv \in [Slots -> Seq(Vocab \cup Media)]
        BY SetupFacts DEF BaseInv, Types, Context
      <3>2. cur \in 1..NSlots + 1
        BY <3>1 DEF Types, Slots
      <3> QED
        BY <3>1, <3>2 DEF Types, TypeOK
    <2>2. ShiftMakesRoom
      <3>1. \A s \in Slots : RoomInv(s)
        BY MemoryFacts DEF BaseInv
      <3> QED
        BY <3>1 DEF ShiftMakesRoom, RoomInv
    <2> QED
      BY <2>1, <2>2, BaseAnswers, ContextCached DEF SlotInv
  <1> QED
    BY <1>1, RoundsInvariant, PTL

(* A token is sampled from the logits of the slot's own last token and on  *)
(* exactly its own tokens, a child's on the whole prompt of its parent     *)
(* (post_decode, i_batch; the copy to the children in decode).             *)
THEOREM SamplesAreOwn == Spec => [](Supported(setup) => SamplesOwnContext /\ ChildrenComplete)
  <1>1. BaseInv /\ ContextInv => (Supported(setup) => SamplesOwnContext /\ ChildrenComplete)
    <2> SUFFICES ASSUME BaseInv, Context PROVE SamplesOwnContext /\ ChildrenComplete
      BY DEF ContextInv
    <2>1. ChildrenComplete
      BY SamplingContext DEF ChildrenComplete
    <2> QED
      BY <2>1, ContextSamples
  <1> QED
    BY <1>1, RoundsInvariant, PTL

(* llama_decode never refuses a batch for the positions of its tokens,     *)
(* however the batch was cut and retried (decode, batch.add with pos_next).*)
THEOREM BatchesAreAccepted == Spec => [](Supported(setup) => DecodeAccepts)
  <1>1. BaseInv /\ ContextInv => (Supported(setup) => DecodeAccepts)
    BY ContextAccepts DEF ContextInv
  <1> QED
    BY <1>1, RoundsInvariant, PTL
===============================================================================
