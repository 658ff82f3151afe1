---------------------------- MODULE PromptCache ----------------------------
(***************************************************************************)
(* Which slot a task gets, and what the slot remembers: the prompt of the  *)
(* last request, the cells of the context that hold it, the adapters these *)
(* cells were computed with, and the prompts that were moved to the cache  *)
(* in RAM.  One action is one task of process_single_task, or what         *)
(* update_slots does to one slot.                                          *)
(*                                                                         *)
(* A cell is a token with the adapters that were enabled when it was       *)
(* computed; a cell and a byte of state are the same unit.  Decoding       *)
(* itself, and several slots in one batch, are in SlotDecode.              *)
(***************************************************************************)
EXTENDS Integers, Sequences, SequencesExt, FiniteSetsExt, Filters

CONSTANTS
    Token,        \* tokens of prompts and answers
    Vocab,        \* tokens that are generated
    Alora,        \* adapters that wait for an invocation sequence
    Invocation,   \* their invocation sequences
    Setups        \* the servers and requests that are explored

VARIABLES
    setup,  \* the command line, the requests and the faults: never changes
    slots,  \* [tokens, cells, lora, start, req, ready] of every slot
    lru,    \* the slots by t_last_used, the oldest first
    cache,  \* prompt_cache.states: [tokens, data, drft]
    limit,  \* prompt_cache.limit_size
    global, \* params_base.lora_adapters
    files   \* saved slots

vars == <<setup, slots, lru, cache, limit, global, files>>

NSlots     == setup.NSlots      \* --parallel
Requests   == setup.Requests    \* what clients may ask: [prompt, slot, lora, cache]
Global0    == setup.Global0     \* adapters enabled at startup
Globals    == setup.Globals     \* what POST /lora-adapters may enable
Similarity == setup.Similarity  \* --slot-prompt-similarity, percent
CacheOn    == setup.CacheOn     \* --cache-ram is not 0
Limit0     == setup.Limit0      \* --cache-ram, 0 = unlimited
CacheIdle  == setup.CacheIdle   \* --cache-idle-slots
Unified    == setup.Unified     \* --kv-unified
HasDraft   == setup.HasDraft    \* a draft context exists
Files      == setup.Files       \* names of slot save files
MaxLen     == setup.MaxLen      \* bound: longest context explored
Faults     == setup.Faults      \* subset of {"alloc", "main", "draft", "launch"}

AnySlot == 0
Default == {"server"}  \* a request that names no adapters
NoRequest == [prompt |-> <<>>, slot |-> 0, lora |-> {}, cache |-> FALSE]
Slots == 1..NSlots

ASSUME SetupAssumption ==
    /\ Vocab \subseteq Token
    /\ \A s \in Setups :
          /\ s.NSlots \in Nat \ {0} /\ s.Similarity \in Nat /\ s.Limit0 \in Nat /\ s.MaxLen \in Nat
          /\ {s.CacheOn, s.CacheIdle, s.Unified, s.HasDraft} \subseteq BOOLEAN
          /\ s.Global0 \subseteq DOMAIN Invocation /\ \A g \in s.Globals : g \subseteq DOMAIN Invocation
          /\ \A r \in s.Requests :
                /\ r = [prompt |-> r.prompt, slot |-> r.slot, lora |-> r.lora, cache |-> r.cache]
                /\ r.prompt \in Seq(Token) /\ Len(r.prompt) \in 1..s.MaxLen
                /\ r.slot \in 0..s.NSlots /\ r.cache \in BOOLEAN
                /\ r.lora = Default \/ r.lora \subseteq DOMAIN Invocation

Busy(s) == slots[s].req # NoRequest
Text(cells) == [i \in DOMAIN cells |-> cells[i].tok]

-----------------------------------------------------------------------------
(* The prompt cache, server_prompt_cache.                                  *)

Common(p, q) == Max({n \in 0..Len(p) : n <= Len(q) /\ SubSeq(p, 1, n) = SubSeq(q, 1, n)})

Size(q) ==
    LET sum[i \in 0..Len(q)] == IF i = 0 THEN 0 ELSE sum[i - 1] + Len(q[i].data)
    IN  sum[Len(q)]

(* Entries are dropped from the front until the rest fits.                 *)
Fitting(q, bound) ==
    LET fits == {k \in 0..Len(q) : Size(SubSeq(q, k + 1, Len(q))) <= bound}
    IN  IF fits = {} THEN <<>> ELSE SubSeq(q, Min(fits) + 1, Len(q))

Updated(q, lim) == IF lim > 0 THEN Fitting(q, lim) ELSE q

Covered(q, tokens) == \E e \in ToSet(q) : IsPrefix(tokens, e.tokens)

Worth(q, slot, lim) == ~ Covered(q, slot.tokens) /\ (lim = 0 \/ Len(slot.cells) <= lim)

\* A plausible bug in Cleared.
ClearedRoom(q, slot, lim) == IF lim > 0 THEN Fitting(q, lim - Len(slot.cells)) ELSE q

(* alloc, before the entry is added: what the new prompt extends is        *)
(* obsolete, and the oldest make room.                                     *)
Cleared(q, slot, lim) ==
    LET useful == Drop(q, {e \in ToSet(q) : IsPrefix(e.tokens, slot.tokens)})
    IN  IF lim > 0 THEN Fitting(useful, lim - Len(slot.cells)) ELSE useful

EntryOf(slot) == [tokens |-> slot.tokens, data |-> slot.cells, drft |-> HasDraft]

(* prompt_save when memory can be had.                                     *)
Saved(q, slot, lim) ==
    IF slot.tokens = <<>> \/ ~ Worth(q, slot, lim) THEN q
    ELSE Append(Cleared(q, slot, lim), EntryOf(slot))

(* prompt_save when it cannot: the limit shrinks to what is held, times .4 *)
Shrunk(q, slot, lim) == Max({1, (2 * Size(Cleared(q, slot, lim))) \div 5})

(* load: the entry with more of it kept and more of the task covered than  *)
(* by the slot's own prompt; 0 if there is none.                           *)
BestEntry(q, tokens, prompt) ==
    LET own(i) == IF i = 0 THEN tokens ELSE q[i].tokens
        lcp(i) == Common(own(i), prompt)
        best[i \in 0..Len(q)] ==
            IF i = 0 THEN 0
            ELSE LET b == best[i - 1] IN
                 IF /\ 4 * lcp(i) >= Len(q[i].tokens)
                    /\ (b = 0 /\ tokens = <<>>) \/ lcp(b) * Len(own(i)) < lcp(i) * Len(own(b))
                    /\ lcp(b) < lcp(i)
                 THEN i ELSE b
    IN  best[Len(q)]

\* A plausible bug in Loaded.
LoadedTokens(slot, e) == [slot EXCEPT !.tokens = e.tokens]

Loaded(slot, e) == [slot EXCEPT !.tokens = e.tokens, !.cells = e.data]

ClearedSlot(slot) == [slot EXCEPT !.tokens = <<>>, !.cells = <<>>]

-----------------------------------------------------------------------------
(* get_available_slot.                                                     *)

Sim(s, r) == Common(slots[s].tokens, r.prompt)

Similar(r) == {s \in Slots :
    /\ r.slot \in {AnySlot, s} /\ ~ Busy(s) /\ slots[s].tokens # <<>>
    /\ Similarity > 0 /\ 100 * Sim(s, r) > Similarity * Len(r.prompt)}

MostSimilar(r) == CHOOSE s \in Similar(r) : \A o \in Similar(r) :
    Sim(s, r) > Sim(o, r) \/ (Sim(s, r) = Sim(o, r) /\ s <= o)

Idle == {s \in Slots : ~ Busy(s)}

Oldest == lru[Min({i \in Slots : ~ Busy(lru[i])})]

(* The slot to try, and whether its prompt is about to be lost.            *)
Chosen(r) == IF Similar(r) # {} THEN MostSimilar(r) ELSE IF r.slot # AnySlot THEN r.slot ELSE Oldest

\* A plausible bug in LosesPrompt.
LosesPromptUnpinned(r) == r.slot = AnySlot /\ Similar(r) = {}

LosesPrompt(r) ==
    IF Similarity > 0 /\ (Similar(r) # {} \/ r.slot # AnySlot)
    THEN LET s == Chosen(r)
             kept == IF Similar(r) # {} THEN Sim(s, r) ELSE 0
         IN  slots[s].tokens # <<>> /\ 2 * kept < Len(slots[s].tokens)
    ELSE r.slot = AnySlot

UpdatesCache(r) == CacheOn /\ LosesPrompt(r)

(* The cache, the limit and the slot after the exchange of prompts.        *)
Exchange(slot, r, fault) ==
    LET full  == fault = "alloc" /\ slot.tokens # <<>> /\ Worth(cache, slot, limit)
        lim   == IF full THEN Shrunk(cache, slot, limit) ELSE limit
        saved == IF full THEN Updated(Cleared(cache, slot, limit), lim) ELSE Saved(cache, slot, limit)
        b     == BestEntry(saved, slot.tokens, r.prompt)
        none  == b = 0
        rest  == IF none THEN saved ELSE RemoveAt(saved, b)
        bad   == ~ none /\ (fault = "main" \/ (fault = "draft" /\ saved[b].drft))
    IN  [limit |-> lim,
         cache |-> Updated(IF ~ bad THEN rest
                           ELSE IF fault = "main" THEN saved
                           ELSE [saved EXCEPT ![b].data = <<>>], lim),
         slot  |-> IF none THEN slot ELSE IF bad THEN ClearedSlot(slot) ELSE Loaded(slot, saved[b])]

-----------------------------------------------------------------------------
(* launch_slot_with_task.                                                  *)

AllAlora(lora) == lora # {} /\ lora \subseteq Alora

ShouldClear(current, next) == ~ (current = {} \/ AllAlora(current)) \/ ~ AllAlora(next)

\* A plausible bug in Scan.
ScanEnd(p, inv) == Max({i \in 0..Len(p) : i = Len(p) \/ p[i + 1] = inv[1]} \ {Len(p)}) + 1

(* The backward scan for the invocation sequence; a position counts from   *)
(* 0, Len(p) is returned when it is not found.                             *)
Scan(p, inv) ==
    LET n == Len(inv)
        want[i \in 0..Len(p)] == \* what the scan expects at the i-th token
            IF i = Len(p) THEN n
            ELSE LET w == want[i + 1] IN
                 IF w = 0 THEN 0 ELSE IF p[i + 1] = inv[w] THEN w - 1 ELSE n
        found == {i \in 0..Len(p) - 1 : want[i] = 0}
    IN  IF found = {} THEN Len(p) ELSE Max(found)

(* The slot with the adapters of the request, or of the server.            *)
WithLora(slot, r) ==
    IF r.lora = Default THEN [slot EXCEPT !.lora = global]
    ELSE [slot EXCEPT !.lora = r.lora,
                      !.tokens = IF r.lora # slot.lora /\ ShouldClear(slot.lora, r.lora) THEN <<>> ELSE @]

Invoked(slot, r) ==
    IF ~ AllAlora(slot.lora) THEN slot
    ELSE LET a == CHOOSE a \in slot.lora : TRUE
             at == Scan(r.prompt, Invocation[a])
         IN  IF at = Len(r.prompt) THEN [slot EXCEPT !.lora = {}] ELSE [slot EXCEPT !.start = at]

(* The slot after the launch; when it fails the slot stays idle.           *)
Launched(slot, r, fault) ==
    LET with == WithLora(slot, r)
    IN  IF AllAlora(with.lora) /\ Cardinality(with.lora) # 1 THEN with
        ELSE IF fault = "launch" THEN Invoked(with, r)
        ELSE [Invoked(with, r) EXCEPT !.req = r]

-----------------------------------------------------------------------------
TypeOK ==
    /\ \A s \in Slots :
        /\ slots[s].req \in Requests \cup {NoRequest} /\ slots[s].ready \in BOOLEAN
        /\ slots[s].lora \subseteq DOMAIN Invocation /\ slots[s].start \in -1..MaxLen
        /\ Len(slots[s].tokens) <= MaxLen /\ Len(slots[s].cells) <= MaxLen
        /\ slots[s].ready => slots[s].req # NoRequest
    /\ ToSet(lru) = Slots /\ Len(lru) = NSlots
    /\ limit \in Nat /\ global \subseteq DOMAIN Invocation

Init ==
    /\ setup \in Setups
    /\ slots = [s \in Slots |-> [tokens |-> <<>>, cells |-> <<>>, lora |-> Global0, start |-> -1,
                                 req |-> NoRequest, ready |-> FALSE]]
    /\ lru = [i \in Slots |-> NSlots + 1 - i]
    /\ cache = <<>> /\ limit = Limit0
    /\ global = Global0
    /\ files = [f \in Files |-> [tokens |-> <<>>, data |-> <<>>]]

(* Idle slots are saved when a task was launched, and cleared where that   *)
(* frees room.                                                             *)
SavedIdle(q, lim, now) ==
    LET acc[i \in 0..NSlots] ==
            IF i = 0 THEN q
            ELSE IF now[i].req # NoRequest THEN acc[i - 1]
            ELSE Updated(Saved(acc[i - 1], now[i], lim), lim)
    IN  acc[NSlots]

IdleSaved(q, lim, now) == IF CacheIdle /\ CacheOn THEN SavedIdle(q, lim, now) ELSE q

IdleCleared(now) ==
    IF CacheIdle /\ CacheOn /\ Unified
    THEN [s \in Slots |-> IF now[s].req = NoRequest THEN ClearedSlot(now[s]) ELSE now[s]]
    ELSE now

(* A completion task: a slot is chosen, its prompt may be exchanged for a  *)
(* better one from the cache, and if the slot is idle the task starts.     *)
(* Otherwise the task is deferred, that is, tried again later.             *)
Assign(r, fault) ==
    /\ Idle # {} \/ r.slot # AnySlot
    /\ \E s \in {Chosen(r)} :
       \E x \in {IF UpdatesCache(r) THEN Exchange(slots[s], r, fault)
                 ELSE [limit |-> limit, cache |-> cache, slot |-> slots[s]]} :
       \E new \in {[slots EXCEPT ![s] = IF Busy(s) THEN x.slot ELSE Launched(x.slot, r, fault)]} :
          /\ limit' = x.limit
          /\ IF Busy(s) \/ new[s].req = NoRequest
             THEN slots' = new /\ cache' = x.cache
             ELSE slots' = IdleCleared(new) /\ cache' = IdleSaved(x.cache, x.limit, new)
    /\ UNCHANGED <<setup, lru, global, files>>

(* How much of the prompt the slot knows, up to the invocation of an aLoRA. *)
Known(slot) ==
    LET lcp == Common(slot.tokens, slot.req.prompt)
    IN  IF ~ slot.req.cache THEN 0
        ELSE IF slot.start > 0 THEN Min({lcp, slot.start - 1}) ELSE lcp

(* How much of it is taken: at least one token is left to decode.          *)
Reused(slot) == IF Known(slot) = Len(slot.req.prompt) THEN Known(slot) - 1 ELSE Known(slot)

(* The adapters a token of the prompt is computed with; those in front of  *)
(* an invocation are computed without.                                     *)
ComputedWith(slot, i) == IF AllAlora(slot.lora) /\ i < slot.start THEN {} ELSE slot.lora

(* The prompt goes through pre_decode and decode.  A slot whose known      *)
(* tokens have no cells at all ends the server (GGML_ABORT), and behind a  *)
(* gap nothing can be decoded.                                             *)
Prefill(s) ==
    LET slot == slots[s]
        n    == Reused(slot)
        p    == slot.req.prompt
    IN  /\ Busy(s) /\ ~ slot.ready
        /\ (Known(slot) > 0 => slot.cells # <<>>) /\ n <= Len(slot.cells)
        /\ slots' = [slots EXCEPT ![s].ready = TRUE, ![s].tokens = p,
                ![s].cells = SubSeq(slot.cells, 1, n) \o
                             [i \in 1..Len(p) - n |-> [tok |-> p[n + i], with |-> ComputedWith(slot, n + i)]]]
        /\ UNCHANGED <<setup, lru, cache, limit, global, files>>

Generate(s) ==
    /\ Busy(s) /\ slots[s].ready /\ Len(slots[s].tokens) < MaxLen /\ Len(slots[s].cells) < MaxLen
    /\ \E t \in Vocab : slots' = [slots EXCEPT
            ![s].tokens = Append(@, t), ![s].cells = Append(@, [tok |-> t, with |-> slots[s].lora])]
    /\ UNCHANGED <<setup, lru, cache, limit, global, files>>

(* The end of a request, or its cancel.                                    *)
Release(s) ==
    /\ Busy(s)
    /\ slots' = [slots EXCEPT ![s].req = NoRequest, ![s].ready = FALSE, ![s].start = -1]
    /\ lru' = Append(Drop(lru, {s}), s)
    /\ UNCHANGED <<setup, cache, limit, global, files>>

(* A decode found no room: one idle slot with a prompt is given up.        *)
Purge ==
    LET held == {s \in Idle : slots[s].tokens # <<>>} IN
    /\ Unified /\ Idle # Slots /\ held # {}
    /\ slots' = [slots EXCEPT ![Min(held)] = ClearedSlot(@)]
    /\ UNCHANGED <<setup, lru, cache, limit, global, files>>

SlotSave(s, f) ==
    /\ ~ Busy(s)
    /\ files' = [files EXCEPT ![f] = [tokens |-> slots[s].tokens, data |-> slots[s].cells]]
    /\ UNCHANGED <<setup, slots, lru, cache, limit, global>>

(* A file that cannot be read or does not fit leaves an empty slot.        *)
SlotRestore(s, f) ==
    /\ ~ Busy(s)
    /\ \/ slots' = [slots EXCEPT ![s] = Loaded(@, files[f])]
       \/ slots' = [slots EXCEPT ![s] = ClearedSlot(@)]
    /\ UNCHANGED <<setup, lru, cache, limit, global, files>>

SlotErase(s) ==
    /\ ~ Busy(s)
    /\ slots' = [slots EXCEPT ![s] = ClearedSlot(@)]
    /\ UNCHANGED <<setup, lru, cache, limit, global, files>>

SetLora ==
    /\ global' \in Globals
    /\ UNCHANGED <<setup, slots, lru, cache, limit, files>>

SlotStep(s) ==
    \/ Prefill(s) \/ Generate(s) \/ Release(s) \/ SlotErase(s)
    \/ \E f \in Files : SlotSave(s, f) \/ SlotRestore(s, f)

Next ==
    \/ \E r \in Requests, fault \in Faults \cup {"none"} : Assign(r, fault)
    \/ \E s \in Slots : SlotStep(s)
    \/ Purge \/ SetLora

Spec == Init /\ [][Next]_vars

-----------------------------------------------------------------------------
(* The state of the draft model can be restored with an entry: otherwise   *)
(* the entry stays in the cache with its tokens and without its state.     *)
Restorable == HasDraft => "draft" \notin Faults

(* A slot's list of tokens is what its cells hold, or it is empty and no   *)
(* task relies on it yet: a change of adapters clears the list only, and   *)
(* the cells go with the first batch (prompt.tokens, mem.seq_rm).          *)
CellsFollowPrompt ==
    Restorable => \A s \in Slots :
        Text(slots[s].cells) = slots[s].tokens \/ (slots[s].tokens = <<>> /\ ~ slots[s].ready)

(* A prompt that n_past is computed from has cells: update_slots aborts    *)
(* when it meets one that has none ("should not happen").                  *)
NoMissingCells == \A s \in Slots : Len(slots[s].cells) >= Len(slots[s].tokens)

(* Every cell of a running request was computed with the adapters of the   *)
(* request: those it names, or the server's at its start; in front of the  *)
(* invocation of an aLoRA with none.                                       *)
AdapterOfRequest ==
    ~ CacheOn /\ Files = {} => \A s \in Slots : LET slot == slots[s] IN
        slot.ready => \A i \in 1..Len(slot.cells) : slot.cells[i].with = ComputedWith(slot, i)

(* An aLoRA that is named by a request is active from the last occurrence  *)
(* of its invocation sequence (alora_invocation_start).                    *)
InvocationFound ==
    \A s \in Slots : Busy(s) /\ slots[s].req.lora # Default /\ AllAlora(slots[s].req.lora) =>
        LET p == slots[s].req.prompt
            inv == Invocation[CHOOSE a \in slots[s].req.lora : TRUE]
            at == {i \in 0..Len(p) - Len(inv) : SubSeq(p, i + 1, i + Len(inv)) = inv}
        IN  at # {} => slots[s].start = Max(at)

(* No cached prompt is a prefix of another one: it could never be the      *)
(* better one (alloc).                                                     *)
NoneObsolete ==
    \A i, j \in DOMAIN cache : i # j => ~ IsPrefix(cache[i].tokens, cache[j].tokens)

(* Every entry can be restored: its state is that of its prompt.           *)
EntriesIntact == Restorable => \A e \in ToSet(cache) : Text(e.data) = e.tokens

(* The cache holds no more than its limit, which may shrink (limit_size).  *)
WithinLimit == limit > 0 => Size(cache) <= limit

(* A prompt of which a new task keeps less than half is still in the cache *)
(* afterwards, when the cache is large enough (get_available_slot).  With  *)
(* a similarity of 0 a task that names its slot gets it without a look.    *)
Roomy == CacheOn /\ Limit0 = 0 /\ "alloc" \notin Faults /\ Similarity > 0
LosesHalf(s) == 2 * Common(slots[s].tokens, slots'[s].req.prompt) < Len(slots[s].tokens)
DisplacedIsCached ==
    [][Roomy => \A s \in Slots : ~ Busy(s) /\ slots'[s].req # NoRequest /\ LosesHalf(s)
        => Covered(cache', slots[s].tokens)]_vars

(* A running request keeps its prompt, whatever other tasks ask for its    *)
(* slot ("skip the slot if it is not available").                          *)
RunningKeepsPrompt ==
    [][\A s \in Slots : slots[s].ready /\ slots'[s].ready => IsPrefix(slots[s].tokens, slots'[s].tokens)]_vars

(* Cells of an idle slot can be given up when room is needed: they belong  *)
(* to a prompt (try_clear_idle_slots).                                     *)
CellsPurgeable == \A s \in Slots : ~ Busy(s) /\ slots[s].tokens = <<>> => slots[s].cells = <<>>

(* The list of cached prompts: within its limit, no entry covered by       *)
(* another, each entry the state of its tokens (server_prompt_cache).      *)
CacheInv == TypeOK /\ WithinLimit /\ NoneObsolete /\ EntriesIntact

(* A prompt is computed with the adapters its request has in the end, and  *)
(* an aLoRA is used from its last invocation on (launch_slot_with_task).   *)
AdaptersInv == AdapterOfRequest /\ InvocationFound

=============================================================================
