---------------------------- MODULE Speculation -----------------------------
(***************************************************************************)
(* Speculative decoding of one slot: a draft is put in the batch behind    *)
(* the sampled token, the target model is sampled at every position, and   *)
(* what it does not confirm is rolled back - by removing cells where the   *)
(* context can, by restoring a checkpoint and replaying the confirmed      *)
(* tokens where it cannot.                                                 *)
(*                                                                         *)
(* The prompt is left out: positions count from its end.  truth is what    *)
(* the target model generates on its own; on any other context its choice  *)
(* does not matter, as long as it is never given to the client.            *)
(***************************************************************************)
EXTENDS Integers, Sequences, SequencesExt, Filters

CONSTANTS
    Vocab,    \* tokens
    Other,    \* a token no draft contains: what a wrong context yields
    Budget,   \* n_predict of the request
    NCtx,     \* room of the slot behind the prompt
    Setups    \* the contexts and draft lengths that are explored

(* One token is sampled with the prompt: a request for no more never gets  *)
(* here.                                                                   *)
ASSUME BudgetAssumption == Budget \in Nat \ {0, 1} /\ NCtx \in Nat /\ NCtx > Budget + 1 /\ Other \notin Vocab
ASSUME SetupAssumption == \A s \in Setups : s.NMax \in Nat /\ s.NRs \in Nat

VARIABLES
    setup,    \* the kind of context and the longest draft: never changes
    phase,    \* "draft", "decode", "sample", "done"
    truth,    \* the generation of the target model
    prompt,   \* slot.prompt.tokens
    kv,       \* the tokens of the sequence in the target context
    sampled,  \* slot.sampled: sampled, not in the prompt yet
    draft,    \* slot.spec_draft
    replay,   \* slot.spec_is_replay
    ckpt,     \* slot.spec_ckpt: its position and the state it saved
    seen,     \* what the sampler has accepted
    out,      \* tokens given to process_token
    drafted, verified, \* slot.stats: n_draft_tokens, n_draft_accepted
    hits      \* history: drafted tokens that are what the target model generates

vars == <<setup, phase, truth, prompt, kv, sampled, draft, replay, ckpt, seen, out, drafted, verified, hits>>

NMax  == setup.NMax    \* longest draft (--spec-draft-n-max)
SeqRm == setup.SeqRm   \* what the context can remove: "PART", "FULL" or "RS"
NRs   == setup.NRs     \* positions a context of type "RS" can roll back

Tokens == Vocab \cup {Other}

TypeOK ==
    /\ phase \in {"draft", "decode", "sample", "done"}
    /\ truth \in [1..Budget -> Vocab]
    /\ prompt \in Seq(Tokens) /\ kv \in Seq(Tokens) /\ seen \in Seq(Tokens) /\ out \in Seq(Tokens)
    /\ draft \in Seq(Tokens) /\ Len(draft) <= NMax
    /\ sampled \in Tokens /\ replay \in BOOLEAN
    /\ ckpt \in [n: Nat, state: Seq(Tokens)]
    /\ drafted \in Nat /\ verified \in Nat /\ hits \in Nat

(* The prompt is decoded and its first token sampled.                      *)
Init ==
    /\ setup \in Setups
    /\ phase = "draft" /\ truth \in [1..Budget -> Vocab]
    /\ prompt = <<>> /\ kv = <<>> /\ sampled = truth[1]
    /\ out = <<truth[1]>> /\ seen = out
    /\ draft = <<>> /\ replay = FALSE
    /\ ckpt = [n |-> 0, state |-> <<>>]
    /\ drafted = 0 /\ verified = 0 /\ hits = 0

-----------------------------------------------------------------------------
Remaining == Budget - Len(out)

DraftMax == LET room == NCtx - Len(prompt) - 2 IN IF Remaining > 0 THEN Least(room, Remaining - 1) ELSE room

(* The context cannot take back n positions by itself.                     *)
NeedsCheckpoint(n) == SeqRm = "FULL" \/ (SeqRm = "RS" /\ n > NRs)

(* History: how far a draft agrees with the generation of the model.       *)
Hits(d) == Len(LongestCommonPrefix({d, SubSeq(truth, Len(out) + 1, Budget)}))

(* A new draft, unless the confirmed part of the last one is to be         *)
(* replayed.  Its length is bounded by the context and the budget.         *)
Draft ==
    /\ phase = "draft" /\ DraftMax > 0 /\ draft = <<>>
    /\ \E n \in 0..Least(DraftMax, NMax) : draft' \in [1..n -> Vocab]
    /\ drafted' = drafted + Len(draft')
    /\ hits' = hits + Hits(draft')
    /\ ckpt' = [n |-> Len(prompt),
                state |-> IF draft' # <<>> /\ NeedsCheckpoint(Len(draft')) THEN kv ELSE ckpt.state]
    /\ phase' = "decode"
    /\ UNCHANGED <<setup, truth, prompt, kv, sampled, replay, seen, out, verified>>

KeepDraft ==
    /\ phase = "draft" /\ (DraftMax <= 0 \/ draft # <<>>)
    /\ phase' = "decode"
    /\ UNCHANGED <<setup, truth, prompt, kv, sampled, draft, replay, ckpt, seen, out, drafted, verified, hits>>

(* handle_last_sampled_token and llama_decode.                             *)
Decode ==
    /\ phase = "decode"
    /\ prompt' = prompt \o <<sampled>> \o draft
    /\ kv' = kv \o <<sampled>> \o draft
    /\ phase' = "sample"
    /\ UNCHANGED <<setup, truth, sampled, draft, replay, ckpt, seen, out, drafted, verified, hits>>

-----------------------------------------------------------------------------
(* The token the target model samples behind a context and for a sampler   *)
(* that has accepted the tokens s.                                         *)
Choice(context, s) ==
    IF Len(s) < Budget /\ s = SubSeq(truth, 1, Len(s)) /\ context = s THEN truth[Len(s) + 1] ELSE Other

(* common_sampler_sample_and_accept_n: one token behind the sampled one,   *)
(* one more for every draft token that was confirmed.                      *)
Confirmed ==
    LET base == Len(kv) - Len(draft)
        pick[i \in 0..Len(draft)] == \* the i-th token, when the draft is confirmed up to it
            Choice(SubSeq(kv, 1, base + i), seen \o SubSeq(draft, 1, i))
        agreed == {i \in 0..Len(draft) : \A j \in 1..i : draft[j] = pick[j - 1]}
        n == CHOOSE i \in agreed : \A j \in agreed : j <= i
    IN  [i \in 1..n + 1 |-> pick[i - 1]]

(* The context drops every position from n on; where it cannot, what is    *)
(* left is of no use.                                                      *)
Removed(q, n) ==
    IF Len(q) <= n THEN q
    ELSE IF NeedsCheckpoint(Len(q) - n) THEN Append(SubSeq(q, 1, n), Other) ELSE SubSeq(q, 1, n)

(* process_token: the generation may end with any token, it ends with the  *)
(* budget.                                                                 *)
Give(ids, n, stop) ==
    /\ out' = out \o SubSeq(ids, 1, n)
    /\ Len(out') <= Budget
    /\ IF stop THEN phase' = "done" ELSE n = Len(ids) /\ Len(out') < Budget /\ phase' = "draft"

\* A plausible bug in Rollback.
RollbackOff(ids) == Len(draft) - Len(ids)

Rollback(ids) == Len(draft) + 1 - Len(ids)

(* No draft in the batch: an ordinary token.                               *)
SampleOne ==
    LET ids == Confirmed IN
    /\ phase = "sample" /\ draft = <<>>
    /\ seen' = seen \o ids
    /\ sampled' = ids[1]
    /\ \E stop \in BOOLEAN : Give(ids, 1, stop)
    /\ UNCHANGED <<setup, truth, prompt, kv, draft, replay, ckpt, drafted, verified, hits>>

\* A plausible bug in RestoreCheckpoint.
RestoreSamplerKept ==
    LET ids == Confirmed IN
    /\ phase = "sample" /\ draft # <<>>
    /\ Rollback(ids) > 0 /\ NeedsCheckpoint(Rollback(ids))
    /\ replay' = TRUE /\ draft' = ids /\ seen' = seen \o ids
    /\ kv' = ckpt.state /\ prompt' = SubSeq(prompt, 1, ckpt.n)
    /\ phase' = "draft"
    /\ UNCHANGED <<setup, truth, sampled, ckpt, out, drafted, verified, hits>>

(* Not all of the draft is confirmed and the context cannot take the rest  *)
(* back: restore the checkpoint, and the sampler, and replay.              *)
RestoreCheckpoint ==
    LET ids == Confirmed IN
    /\ phase = "sample" /\ draft # <<>>
    /\ Rollback(ids) > 0 /\ NeedsCheckpoint(Rollback(ids))
    /\ replay' = TRUE /\ draft' = ids
    /\ kv' = ckpt.state /\ prompt' = SubSeq(prompt, 1, ckpt.n)
    /\ phase' = "draft"
    /\ UNCHANGED <<setup, truth, sampled, ckpt, seen, out, drafted, verified, hits>>

AcceptDraft ==
    LET ids == Confirmed
        count == Len(ids) - 1
    IN  /\ phase = "sample" /\ draft # <<>>
        /\ Rollback(ids) = 0 \/ ~ NeedsCheckpoint(Rollback(ids))
        /\ prompt' = SubSeq(prompt, 1, Len(prompt) - Len(draft)) \o Front(ids)
        /\ kv' = Removed(kv, Len(prompt'))
        /\ sampled' = Last(ids)
        /\ seen' = seen \o ids
        /\ verified' = verified + (IF replay /\ count > 0 THEN count - 1 ELSE count)
        /\ draft' = <<>> /\ replay' = FALSE
        /\ \E n \in 1..Len(ids), stop \in BOOLEAN : Give(ids, n, stop)
        /\ UNCHANGED <<setup, truth, ckpt, drafted, hits>>

Next == Draft \/ KeepDraft \/ Decode \/ SampleOne \/ RestoreCheckpoint \/ AcceptDraft

Spec == Init /\ [][Next]_vars
(* The main loop comes back as long as the slot is generating.             *)
FairSpec == Spec /\ WF_vars(Next)

-----------------------------------------------------------------------------
(* What the client and the sampler see is plain decoding (post_decode,     *)
(* process_token): drafts, rollbacks and replays only change how many      *)
(* tokens one round yields, and generation always ends.                    *)
Plain == INSTANCE PlainDecode WITH seen <- IF phase = "done" THEN <<>> ELSE seen, done <- (phase = "done")
SpeculationIsPlain == Plain!FairPlain

(* Between two rounds the context, the prompt and the output agree: the    *)
(* context holds all but the last token (prompt.tokens, seq_rm).           *)
ContextMatches ==
    phase = "draft" => /\ kv = prompt
                       /\ Append(prompt, sampled) = out
                       /\ seen = out

(* A replay starts from the state its checkpoint was made of, with a draft *)
(* the target model has confirmed (spec_ckpt, spec_is_replay).             *)
ReplayConfirmed ==
    phase = "draft" /\ replay =>
        /\ draft # <<>> /\ Len(prompt) = ckpt.n
        /\ IsPrefix(out \o draft, truth)

(* The acceptance rate that is reported counts every drafted token that   *)
(* agrees with the model once, also when it was replayed                   *)
(* (n_draft_accepted, n_draft_tokens).                                     *)
RateExact == phase = "draft" /\ ~ replay => verified = hits /\ hits <= drafted

(* Prompt and memory stay together through drafts, rollbacks and replays,  *)
(* what is replayed is confirmed in full, and the counts of accepted       *)
(* tokens are those of the first decodes (n_draft_accepted).               *)
SpeculationInv == TypeOK /\ ContextMatches /\ ReplayConfirmed /\ RateExact

=============================================================================
