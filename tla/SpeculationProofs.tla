--------------------------- MODULE SpeculationProofs ---------------------------
(* For every model, draft length, budget and kind of context: speculative  *)
(* decoding keeps prompt and memory together, counts what it verified      *)
(* correctly, and gives the client what plain decoding gives.  The second  *)
(* part is about the other way of taking tokens back, SlotCheckpoints:     *)
(* what a prompt resumes from is right, and little of it is decoded again. *)
EXTENDS Speculation, SlotCheckpoints, ProofLemmas

(* A draft is what the target model generates up to its n-th token.        *)
Agree(d, n) ==
    /\ n \in 0..Len(d)
    /\ \A j \in 1..n : d[j] = truth[Len(out) + j]
    /\ n < Len(d) => d[n + 1] # truth[Len(out) + n + 1]

Types ==
    /\ setup \in Setups
    /\ phase \in {"draft", "decode", "sample", "done"}
    /\ truth \in [1..Budget -> Vocab]
    /\ prompt \in Seq(Tokens) /\ kv \in Seq(Tokens) /\ seen \in Seq(Tokens)
    /\ out \in Seq(Vocab) /\ draft \in Seq(Vocab) /\ Len(draft) <= NMax
    /\ sampled \in Tokens /\ replay \in BOOLEAN
    /\ ckpt \in [n: Nat, state: Seq(Tokens)]
    /\ drafted \in Nat /\ verified \in Nat /\ hits \in Nat

(* The output is a part of the generation, and more is to come.            *)
OutTrue ==
    /\ Len(out) \in 1..Budget
    /\ \A i \in 1..Len(out) : out[i] = truth[i]
    /\ phase # "done" => seen = out /\ sampled = out[Len(out)] /\ Len(out) + Len(draft) < Budget

(* Prompt and memory.                                                      *)
MemoryInv ==
    /\ phase \in {"draft", "decode"} => kv = prompt /\ prompt = SubSeq(out, 1, Len(out) - 1)
    /\ phase = "sample" => kv = prompt /\ prompt = out \o draft

(* A replay is confirmed; a draft that the context may be unable to take   *)
(* back has a checkpoint of the state in front of it.                      *)
ReplayInv ==
    /\ phase = "draft" => (replay <=> draft # <<>>)
    /\ phase # "done" /\ replay =>
            draft # <<>> /\ ckpt.n = Len(out) - 1 /\ \A i \in 1..Len(draft) : draft[i] = truth[Len(out) + i]
    /\ phase \in {"decode", "sample"} /\ ~ replay /\ draft # <<>> /\ NeedsCheckpoint(Len(draft)) =>
            ckpt.n = Len(out) - 1 /\ ckpt.state = SubSeq(out, 1, Len(out) - 1)

(* What is verified lags behind by what the current draft will bring.      *)
CountInv ==
    /\ hits <= drafted
    /\ phase = "draft" /\ ~ replay => verified = hits
    /\ phase # "done" /\ replay => hits = verified + Len(draft) - 1
    /\ phase \in {"decode", "sample"} /\ ~ replay => \E n \in 0..Len(draft) : Agree(draft, n) /\ hits = verified + n

SpecInv == Types /\ OutTrue /\ MemoryInv /\ ReplayInv /\ CountInv

-----------------------------------------------------------------------------
\* The part of a draft that agrees with the model is unique.
LEMMA AgreeUnique ==
    ASSUME Types, NEW d \in Seq(Vocab), NEW m, NEW n, Agree(d, m), Agree(d, n)
    PROVE  m = n
  <1>1. Len(d) \in Nat /\ m \in Int /\ n \in Int
    BY DEF Types, Agree
  <1>2. ASSUME m < n PROVE FALSE
    BY <1>1, <1>2 DEF Agree
  <1>3. ASSUME n < m PROVE FALSE
    BY <1>1, <1>3 DEF Agree
  <1> QED
    BY <1>1, <1>2, <1>3

\* ... and exists.
LEMMA AgreeExists ==
    ASSUME Types, NEW d \in Seq(Vocab)
    PROVE  \E n \in 0..Len(d) : Agree(d, n)
  <1> DEFINE A == {i \in 0..Len(d) : \A j \in 1..i : d[j] = truth[Len(out) + j]}
  <1>1. Len(d) \in Nat
    BY DEF Types
  <1>2. 0 \in A
    BY <1>1
  <1>3. PICK n \in A : \A y \in A : y <= n
    BY <1>1, <1>2, GreatestNat
  <1>4. ASSUME n < Len(d), d[n + 1] = truth[Len(out) + n + 1] PROVE FALSE
    <2>1. ASSUME NEW j \in 1..n + 1 PROVE d[j] = truth[Len(out) + j]
      <3>1. CASE j = n + 1
        <4>1. Len(out) \in Nat /\ Len(out) + n + 1 = Len(out) + (n + 1)
          BY <1>1 DEF Types
        <4> QED
          BY <3>1, <4>1, <1>4
      <3>2. CASE j # n + 1
        <4>1. j \in 1..n
          BY <3>2, <1>1
        <4> QED
          BY <4>1, <1>3
      <3> QED
        BY <3>1, <3>2
    <2>2. n + 1 \in A
      BY <1>1, <1>3, <1>4, <2>1
    <2> QED
      BY <2>2, <1>3, <1>1
  <1> QED
    BY <1>3, <1>4 DEF Agree

(* The target model confirms what agrees with its generation and adds one  *)
(* token, its own.                                                         *)
LEMMA ConfirmedIsTruth ==
    ASSUME Types, OutTrue, MemoryInv, phase = "sample"
    PROVE  \E n \in 0..Len(draft) : Agree(draft, n) /\ Confirmed = [i \in 1..n + 1 |-> truth[Len(out) + i]]
  <1> DEFINE pick == [i \in 0..Len(draft) |->
                        Choice(SubSeq(kv, 1, Len(kv) - Len(draft) + i), seen \o SubSeq(draft, 1, i))]
             agreed == {i \in 0..Len(draft) : \A j \in 1..i : draft[j] = pick[j - 1]}
             n == CHOOSE i \in agreed : \A j \in agreed : j <= i
  <1>0. Confirmed = [i \in 1..n + 1 |-> pick[i - 1]]
    BY DEF Confirmed
  <1>1. /\ Len(draft) \in Nat /\ Len(out) \in Nat /\ Budget \in Nat
        /\ out \in Seq(Tokens) /\ draft \in Seq(Tokens) /\ truth \in Seq(Vocab) /\ Len(truth) = Budget
    BY FunctionIsSeq, SeqMonotonic, BudgetAssumption DEF Types, Tokens
  <1>2. kv = out \o draft /\ seen = out /\ Len(kv) = Len(out) + Len(draft) /\ Len(out) + Len(draft) < Budget
    BY <1>1 DEF OutTrue, MemoryInv
  <1>3. ASSUME NEW i \in 0..Len(draft)
        PROVE  pick[i] = IF \A j \in 1..i : draft[j] = truth[Len(out) + j] THEN truth[Len(out) + i + 1] ELSE Other
    <2> DEFINE s == out \o SubSeq(draft, 1, i)
    <2>1. SubSeq(draft, 1, i) \in Seq(Vocab) /\ Len(SubSeq(draft, 1, i)) = i
          /\ \A j \in 1..i : SubSeq(draft, 1, i)[j] = draft[j]
      BY <1>1 DEF Types
    <2>2. s \in Seq(Vocab) /\ Len(s) = Len(out) + i
      BY <2>1, <1>1 DEF Types
    <2>3. \A j \in 1..Len(out) + i : s[j] = IF j <= Len(out) THEN out[j] ELSE draft[j - Len(out)]
      BY <2>1, <1>1 DEF Types
    <2>4. SubSeq(kv, 1, Len(out) + i) = s
      <3>1. SubSeq(kv, 1, Len(out) + i) \in Seq(Tokens) /\ Len(SubSeq(kv, 1, Len(out) + i)) = Len(out) + i
        <4>1. Len(out) + i \in 0..Len(kv)
          BY <1>1, <1>2
        <4>2. kv \in Seq(Tokens)
          BY DEF Types
        <4> QED
          BY <4>1, <4>2, PrefixFacts
      <3>2. \A j \in 1..Len(out) + i : SubSeq(kv, 1, Len(out) + i)[j] = s[j]
        <4>1. Len(out) + i \in 0..Len(kv) /\ kv \in Seq(Tokens)
          BY <1>1, <1>2 DEF Types
        <4>2. \A j \in 1..Len(out) + i : SubSeq(kv, 1, Len(out) + i)[j] = kv[j]
          BY <4>1, PrefixFacts
        <4>3. \A j \in 1..Len(out) + i : kv[j] = IF j <= Len(out) THEN out[j] ELSE draft[j - Len(out)]
          BY <1>1, <1>2
        <4> QED
          BY <4>2, <4>3, <2>3
      <3>3. s \in Seq(Tokens)
        BY <2>2, SeqMonotonic DEF Tokens
      <3> QED
        BY <3>1, <3>2, <3>3, <2>2, SeqEqual
    <2>5. s = SubSeq(truth, 1, Len(s)) <=> \A j \in 1..i : draft[j] = truth[Len(out) + j]
      <3>1. SubSeq(truth, 1, Len(s)) \in Seq(Vocab) /\ Len(SubSeq(truth, 1, Len(s))) = Len(s)
            /\ \A j \in 1..Len(s) : SubSeq(truth, 1, Len(s))[j] = truth[j]
        BY <2>2, <1>1, <1>2
      <3>2. s = SubSeq(truth, 1, Len(s)) <=> \A j \in 1..Len(s) : s[j] = truth[j]
        BY <3>1, <2>2, SeqEqual
      <3>3. (\A j \in 1..Len(s) : s[j] = truth[j]) => \A j \in 1..i : draft[j] = truth[Len(out) + j]
        <4> SUFFICES ASSUME \A j \in 1..Len(s) : s[j] = truth[j], NEW j \in 1..i
                     PROVE  draft[j] = truth[Len(out) + j]
          OBVIOUS
        <4>1. s[Len(out) + j] = draft[j]
          BY <2>3, <1>1
        <4> QED
          BY <4>1, <2>2, <1>1
      <3>4. (\A j \in 1..i : draft[j] = truth[Len(out) + j]) => \A j \in 1..Len(s) : s[j] = truth[j]
        <4> SUFFICES ASSUME \A j \in 1..i : draft[j] = truth[Len(out) + j], NEW j \in 1..Len(s)
                     PROVE  s[j] = truth[j]
          OBVIOUS
        <4>1. CASE j <= Len(out)
          BY <4>1, <2>2, <2>3, <1>1 DEF OutTrue
        <4>2. CASE j > Len(out)
          <5>1. j - Len(out) \in 1..i /\ Len(out) + (j - Len(out)) = j
            BY <4>2, <2>2, <1>1
          <5> QED
            BY <5>1, <4>2, <2>2, <2>3, <1>1
        <4> QED
          BY <4>1, <4>2, <2>2, <1>1
      <3> QED
        BY <3>2, <3>3, <3>4
    <2>6. pick[i] = IF Len(s) < Budget /\ s = SubSeq(truth, 1, Len(s)) /\ s = s THEN truth[Len(s) + 1] ELSE Other
      BY <1>1, <1>2, <2>4 DEF Choice
    <2> QED
      BY <2>2, <2>5, <2>6, <1>1, <1>2
  <1>4. agreed = {i \in 0..Len(draft) : \A j \in 1..i : draft[j] = truth[Len(out) + j]}
    <2>1. ASSUME NEW i \in 0..Len(draft), \A j \in 1..i : draft[j] = pick[j - 1], NEW j \in 1..i
          PROVE  draft[j] = truth[Len(out) + j]
      <3>1. j - 1 \in 0..Len(draft) /\ draft[j] \in Vocab /\ Len(out) + (j - 1) + 1 = Len(out) + j
        BY <1>1 DEF Types
      <3>2. pick[j - 1] # Other
        BY <2>1, <3>1, BudgetAssumption
      <3> QED
        BY <3>1, <3>2, <1>3, <2>1
    <2>2. ASSUME NEW i \in 0..Len(draft), \A j \in 1..i : draft[j] = truth[Len(out) + j], NEW j \in 1..i
          PROVE  draft[j] = pick[j - 1]
      <3>1. j - 1 \in 0..Len(draft) /\ Len(out) + (j - 1) + 1 = Len(out) + j
        BY <1>1
      <3>2. pick[j - 1] = truth[Len(out) + j]
        BY <3>1, <2>2, <1>3
      <3> QED
        BY <3>2, <2>2
    <2> QED
      BY <2>1, <2>2
  <1>5. PICK a \in 0..Len(draft) : Agree(draft, a)
    BY AgreeExists DEF Types
  <1>6. a \in agreed /\ \A j \in agreed : j <= a
    <2>1. a \in agreed
      BY <1>4, <1>5 DEF Agree
    <2>2. ASSUME NEW j \in agreed, j > a PROVE FALSE
      <3>1. j \in 0..Len(draft) /\ a + 1 \in 1..j /\ a < Len(draft)
        BY <2>2, <1>1, <1>5
      <3>2. draft[a + 1] = truth[Len(out) + (a + 1)]
        BY <3>1, <1>4
      <3> QED
        BY <3>1, <3>2, <1>5, <1>1 DEF Agree
    <2> QED
      BY <2>1, <2>2, <1>1
  <1>7. n = a
    <2> HIDE DEF agreed
    <2>1. n \in agreed /\ \A j \in agreed : j <= n
      BY <1>6
    <2>2. n \in Int /\ a \in Int
      BY <2>1, <1>1, <1>5 DEF agreed
    <2> HIDE DEF n
    <2> QED
      BY <2>1, <2>2, <1>6
  <1>8. ASSUME NEW i \in 1..a + 1 PROVE pick[i - 1] = truth[Len(out) + i]
    <2>1. i - 1 \in 0..Len(draft) /\ Len(out) + (i - 1) + 1 = Len(out) + i
      BY <1>1, <1>5
    <2>2. \A j \in 1..i - 1 : draft[j] = truth[Len(out) + j]
      BY <1>5, <1>1 DEF Agree
    <2> QED
      BY <2>1, <2>2, <1>3
  <1> HIDE DEF n, pick
  <1> QED
    BY <1>0, <1>5, <1>7, <1>8

(* What the history counts for a draft is how far it agrees.               *)
LEMMA HitsAgree ==
    ASSUME Types, OutTrue, NEW d \in Seq(Vocab), Len(out) + Len(d) < Budget
    PROVE  Agree(d, Hits(d))
  <1> DEFINE t == SubSeq(truth, Len(out) + 1, Budget)
             CP == CommonPrefixes({d, t})
             L == LongestCommonPrefix({d, t})
  <1>1. /\ Len(d) \in Nat /\ Len(out) \in Nat /\ Budget \in Nat
        /\ truth \in Seq(Vocab) /\ Len(truth) = Budget
    BY FunctionIsSeq, BudgetAssumption DEF Types
  <1>2. /\ t \in Seq(Vocab) /\ Len(t) = Budget - Len(out) /\ Len(d) <= Len(t)
        /\ \A j \in 1..Len(t) : t[j] = truth[Len(out) + j]
    BY <1>1
  <1>3. PICK n \in 0..Len(d) : Agree(d, n)
    BY AgreeExists
  <1>4. ASSUME NEW p \in CP PROVE Len(p) \in Nat /\ Len(p) <= n
    <2>1. p \in Prefixes(d) \/ p \in Prefixes(t)
      BY DEF CommonPrefixes
    <2>2. p \in Seq(Vocab)
      <3> HIDE DEF t
      <3>1. ASSUME NEW q \in Seq(Vocab), p \in Prefixes(q) PROVE p \in Seq(Vocab)
        BY <3>1 DEF Prefixes
      <3> QED
        BY <2>1, <3>1, <1>2
    <2>3. IsPrefix(p, d) /\ IsPrefix(p, t)
      BY DEF CommonPrefixes
    <2>4. Len(p) \in Nat /\ Len(p) <= Len(d)
      BY <2>2, <2>3 DEF IsPrefix
    <2>5. SubSeq(d, 1, Len(p)) = SubSeq(t, 1, Len(p))
      BY <2>3 DEF IsPrefix
    <2>6. \A j \in 1..Len(p) : SubSeq(d, 1, Len(p))[j] = d[j] /\ SubSeq(t, 1, Len(p))[j] = t[j]
      BY <2>4, <1>1, <1>2
    <2>7. \A j \in 1..Len(p) : d[j] = truth[Len(out) + j]
      <3> HIDE DEF t
      <3>1. \A j \in 1..Len(p) : d[j] = t[j] /\ j \in 1..Len(t)
        BY <2>4, <2>5, <2>6, <1>1, <1>2
      <3> QED
        BY <3>1, <1>2
    <2>8. ASSUME Len(p) > n PROVE FALSE
      <3>1. n + 1 \in 1..Len(p) /\ n < Len(d) /\ Len(out) + (n + 1) = Len(out) + n + 1
        BY <2>8, <2>4, <1>1
      <3> QED
        BY <3>1, <2>7, <1>3 DEF Agree
    <2> QED
      BY <2>4, <2>8, <1>1
  <1>5. SubSeq(d, 1, n) \in CP /\ Len(SubSeq(d, 1, n)) = n
    <2> DEFINE p == SubSeq(d, 1, n)
    <2>1. p \in Seq(Vocab) /\ Len(p) = n /\ \A j \in 1..n : p[j] = d[j]
      BY <1>1
    <2>2. SubSeq(p, 1, n) = p
      BY <2>1, SubSeqFull
    <2>3. SubSeq(t, 1, n) \in Seq(Vocab) /\ Len(SubSeq(t, 1, n)) = n
          /\ \A j \in 1..n : SubSeq(t, 1, n)[j] = t[j]
      <3> HIDE DEF t
      <3> QED
        BY <1>1, <1>2
    <2>4. \A j \in 1..n : p[j] = SubSeq(t, 1, n)[j]
      <3> HIDE DEF t
      <3>1. \A j \in 1..n : j \in 1..Len(t) /\ d[j] = truth[Len(out) + j]
        BY <1>1, <1>2, <1>3 DEF Agree
      <3> QED
        BY <3>1, <2>1, <2>3, <1>2
    <2>5. p = SubSeq(t, 1, n)
      BY <2>1, <2>3, <2>4, SeqEqual
    <2> HIDE DEF t
    <2>6. IsPrefix(p, d) /\ IsPrefix(p, t)
      BY <2>1, <2>2, <2>5, <1>1, <1>2 DEF IsPrefix
    <2>7. p \in Prefixes(d)
      BY DEF Prefixes
    <2> QED
      BY <2>1, <2>6, <2>7 DEF CommonPrefixes
  <1>6. L \in CP /\ \A p \in CP : Len(p) <= Len(L)
    <2> HIDE DEF t, CP
    <2>1. \E longest \in CP : \A p \in CP : Len(p) <= Len(longest)
      BY <1>4, <1>5
    <2> QED
      BY <2>1 DEF LongestCommonPrefix, CP
  <1>7. Len(L) = n
    <2> HIDE DEF t, CP, L
    <2>1. Len(L) \in Nat /\ Len(L) <= n /\ n <= Len(L)
      BY <1>4, <1>5, <1>6
    <2> QED
      BY <2>1
  <1> QED
    BY <1>3, <1>7 DEF Hits

-----------------------------------------------------------------------------
\* The prompt is decoded, one token is sampled, nothing is drafted.
LEMMA SpecInit == Init => SpecInv
  <1> SUFFICES ASSUME Init PROVE SpecInv
    OBVIOUS
  <1>1. Budget \in Nat /\ Budget > 1 /\ truth[1] \in Vocab
    BY BudgetAssumption DEF Init
  <1>2. NMax \in Nat
    BY SetupAssumption DEF Init, NMax
  <1>3. Types
    <2>1. <<>> \in Seq(Vocab) /\ <<>> \in Seq(Tokens) /\ Len(<<>>) = 0
      OBVIOUS
    <2>2. out \in Seq(Vocab) /\ seen \in Seq(Tokens) /\ sampled \in Tokens
      BY <1>1 DEF Init, Tokens
    <2>3. ckpt \in [n: Nat, state: Seq(Tokens)]
      BY <2>1 DEF Init
    <2>4. draft \in Seq(Vocab) /\ Len(draft) <= NMax /\ prompt \in Seq(Tokens) /\ kv \in Seq(Tokens)
      BY <1>2, <2>1 DEF Init
    <2>5. setup \in Setups /\ phase = "draft" /\ truth \in [1..Budget -> Vocab] /\ replay = FALSE
          /\ drafted = 0 /\ verified = 0 /\ hits = 0
      BY DEF Init
    <2> QED
      BY <2>2, <2>3, <2>4, <2>5 DEF Types
  <1>4. OutTrue
    BY <1>1 DEF Init, OutTrue
  <1>5. MemoryInv
    BY <1>1 DEF Init, MemoryInv
  <1>6. ReplayInv /\ CountInv
    BY DEF Init, ReplayInv, CountInv
  <1> QED
    BY <1>3, <1>4, <1>5, <1>6 DEF SpecInv

\* A new draft is bounded by the budget, and a checkpoint is made for it.
LEMMA SpecDraft == ASSUME SpecInv, Draft PROVE SpecInv'
  <1> USE DEF SpecInv
  <1>1. PICK n \in 0..Least(DraftMax, NMax) : draft' \in [1..n -> Vocab]
    BY DEF Draft
  <1>2. /\ setup' = setup /\ truth' = truth /\ prompt' = prompt /\ kv' = kv /\ sampled' = sampled
        /\ replay' = replay /\ seen' = seen /\ out' = out /\ verified' = verified
        /\ phase = "draft" /\ phase' = "decode" /\ draft = <<>>
        /\ drafted' = drafted + Len(draft') /\ hits' = hits + Hits(draft')
    BY DEF Draft
  <1>3. /\ Budget \in Nat /\ NCtx \in Nat /\ NMax \in Nat /\ Len(prompt) \in Nat /\ Len(out) \in Nat
        /\ Len(out) < Budget /\ ~ replay
    BY <1>2, BudgetAssumption, SetupAssumption DEF Types, OutTrue, ReplayInv, NMax
  <1>4. n \in Nat /\ n <= NMax /\ Len(out) + n < Budget
    BY <1>3 DEF Least, DraftMax, Remaining
  <1>5. draft' \in Seq(Vocab) /\ Len(draft') = n
    BY <1>1, <1>4, FunctionIsSeq
  <1>6. PICK k : k = Hits(draft') /\ Agree(draft', k)
    BY <1>4, <1>5, HitsAgree
  <1>7. Agree(draft, k)'
    BY <1>2, <1>6 DEF Agree
  <1>8. k \in 0..n /\ hits' = hits + k
    BY <1>2, <1>5, <1>6 DEF Agree
  <1>9. ckpt' \in [n : Nat, state : Seq(Tokens)]
    BY <1>3 DEF Draft, Types
  <1>10. Types'
    <2>1. drafted \in Nat /\ hits \in Nat /\ verified \in Nat /\ drafted' = drafted + n /\ hits' = hits + k
      BY <1>2, <1>5, <1>8 DEF Types
    <2>2. drafted' \in Nat /\ hits' \in Nat /\ verified' \in Nat
      BY <2>1, <1>2, <1>4, <1>8
    <2>3. NMax' = NMax /\ Len(draft') <= NMax
      BY <1>2, <1>4, <1>5 DEF NMax
    <2>4. /\ setup' \in Setups /\ truth' \in [1..Budget -> Vocab] /\ prompt' \in Seq(Tokens) /\ kv' \in Seq(Tokens)
          /\ seen' \in Seq(Tokens) /\ out' \in Seq(Vocab) /\ sampled' \in Tokens /\ replay' \in BOOLEAN
      BY <1>2 DEF Types
    <2> QED
      BY <2>2, <2>3, <2>4, <1>2, <1>5, <1>9 DEF Types
  <1>11. OutTrue' /\ MemoryInv'
    BY <1>2, <1>3, <1>4, <1>5 DEF OutTrue, MemoryInv
  <1>12. ReplayInv'
    <2>1. ASSUME draft' # <<>>, NeedsCheckpoint(Len(draft'))
          PROVE  ckpt'.n = Len(out) - 1 /\ ckpt'.state = SubSeq(out, 1, Len(out) - 1)
      <3>1. ckpt' = [n |-> Len(prompt), state |-> kv]
        BY <2>1 DEF Draft
      <3>2. Len(prompt) = Len(out) - 1
        BY <1>2, <1>3 DEF MemoryInv, OutTrue, Types
      <3> QED
        BY <3>1, <3>2, <1>2 DEF MemoryInv
    <2> QED
      BY <2>1, <1>2, <1>3 DEF ReplayInv, NeedsCheckpoint, SeqRm, NRs
  <1>13. CountInv'
    <2>1. hits = verified /\ hits \in Nat /\ drafted \in Nat /\ verified \in Nat
      BY <1>2, <1>3 DEF CountInv, Types
    <2>2. hits' <= drafted'
      BY <2>1, <1>2, <1>4, <1>5, <1>8 DEF CountInv
    <2>3. k \in 0..Len(draft') /\ hits' = verified' + k
      BY <2>1, <1>2, <1>5, <1>8
    <2> QED
      BY <2>2, <2>3, <1>2, <1>3, <1>7 DEF CountInv
  <1> QED
    BY <1>10, <1>11, <1>12, <1>13

\* What is to be replayed is decoded as it is.
LEMMA SpecKeepDraft == ASSUME SpecInv, KeepDraft PROVE SpecInv'
  <1> USE DEF SpecInv
  <1>1. /\ setup' = setup /\ truth' = truth /\ prompt' = prompt /\ kv' = kv /\ sampled' = sampled
        /\ replay' = replay /\ seen' = seen /\ out' = out /\ verified' = verified /\ draft' = draft
        /\ phase = "draft" /\ phase' = "decode" /\ drafted' = drafted /\ hits' = hits /\ ckpt' = ckpt
    BY DEF KeepDraft
  <1>2. Types' /\ OutTrue' /\ MemoryInv'
    BY <1>1 DEF Types, OutTrue, MemoryInv, NMax
  <1>3. ReplayInv'
    BY <1>1 DEF ReplayInv
  <1>4. CountInv'
    <2>1. CASE replay
      BY <2>1, <1>1 DEF CountInv
    <2>2. CASE ~ replay
      <3>1. draft = <<>> /\ hits = verified /\ hits \in Nat
        BY <2>2, <1>1 DEF ReplayInv, CountInv, Types
      <3>2. Agree(draft, 0)'
        BY <3>1, <1>1 DEF Agree
      <3>3. 0 \in 0..Len(draft') /\ hits' = verified' + 0
        BY <3>1, <1>1
      <3> QED
        BY <3>2, <3>3, <2>2, <1>1 DEF CountInv
    <2> QED
      BY <2>1, <2>2
  <1> QED
    BY <1>2, <1>3, <1>4

\* The batch holds the sampled token and the draft.
LEMMA SpecDecode == ASSUME SpecInv, Decode PROVE SpecInv'
  <1> USE DEF SpecInv
  <1>1. /\ setup' = setup /\ truth' = truth /\ sampled' = sampled
        /\ replay' = replay /\ seen' = seen /\ out' = out /\ verified' = verified /\ draft' = draft
        /\ phase = "decode" /\ phase' = "sample" /\ drafted' = drafted /\ hits' = hits /\ ckpt' = ckpt
        /\ prompt' = prompt \o <<sampled>> \o draft /\ kv' = kv \o <<sampled>> \o draft
    BY DEF Decode
  <1>2. /\ kv = prompt /\ prompt = SubSeq(out, 1, Len(out) - 1) /\ sampled = out[Len(out)]
        /\ Len(out) \in Nat /\ Len(out) > 0 /\ out \in Seq(Vocab) /\ draft \in Seq(Vocab)
    BY <1>1 DEF MemoryInv, OutTrue, Types
  <1>3. prompt \o <<sampled>> = out
    <2>1. /\ prompt \o <<sampled>> \in Seq(Vocab) /\ Len(prompt \o <<sampled>>) = Len(out)
          /\ \A i \in 1..Len(out) : (prompt \o <<sampled>>)[i] = out[i]
      BY <1>2
    <2> QED
      BY <2>1, <1>2, SeqEqual
  <1>4. out \o draft \in Seq(Tokens)
    <2>1. out \in Seq(Tokens) /\ draft \in Seq(Tokens)
      BY <1>2, SeqMonotonic DEF Tokens
    <2> QED
      BY <2>1
  <1>5. Types' /\ OutTrue' /\ MemoryInv'
    BY <1>1, <1>2, <1>3, <1>4 DEF Types, OutTrue, MemoryInv, NMax
  <1>6. ReplayInv' /\ CountInv'
    BY <1>1 DEF ReplayInv, CountInv, Agree, NeedsCheckpoint, SeqRm, NRs
  <1> QED
    BY <1>5, <1>6

-----------------------------------------------------------------------------
(* A sequence with the first k tokens of the generation is a prefix of it. *)
LEMMA PrefixEqual ==
    ASSUME Types, NEW s \in Seq(Tokens), NEW k \in 0..Budget, Len(s) = k, \A i \in 1..k : s[i] = truth[i]
    PROVE  s = SubSeq(truth, 1, k)
  <1>1. truth \in Seq(Vocab) /\ Len(truth) = Budget /\ Budget \in Nat
    BY FunctionIsSeq, BudgetAssumption DEF Types
  <1>2. /\ SubSeq(truth, 1, k) \in Seq(Vocab) /\ Len(SubSeq(truth, 1, k)) = k
        /\ \A i \in 1..k : SubSeq(truth, 1, k)[i] = truth[i]
    BY <1>1
  <1>3. SubSeq(truth, 1, k) \in Seq(Tokens)
    BY <1>2, SeqMonotonic DEF Tokens
  <1> QED
    BY <1>2, <1>3, SeqEqual

(* What sampling confirms continues the output, cut anywhere.              *)
LEMMA ConfirmedContinues ==
    ASSUME Types, OutTrue, MemoryInv, phase = "sample"
    PROVE  \E n \in 0..Len(draft) :
              /\ Agree(draft, n)
              /\ Confirmed \in Seq(Vocab) /\ Len(Confirmed) = n + 1
              /\ \A i \in 1..n + 1 : Confirmed[i] = truth[Len(out) + i]
              /\ \A m \in 0..n + 1 : LET q == out \o SubSeq(Confirmed, 1, m) IN
                    q \in Seq(Vocab) /\ Len(q) = Len(out) + m /\ \A i \in 1..Len(out) + m : q[i] = truth[i]
  <1>1. PICK n \in 0..Len(draft) : Agree(draft, n) /\ Confirmed = [i \in 1..n + 1 |-> truth[Len(out) + i]]
    BY ConfirmedIsTruth
  <1>2. Len(draft) \in Nat /\ Len(out) \in Nat /\ Budget \in Nat /\ Len(out) + Len(draft) < Budget /\ out \in Seq(Vocab)
    BY BudgetAssumption DEF Types, OutTrue
  <1>3. \A i \in 1..n + 1 : truth[Len(out) + i] \in Vocab
    BY <1>2 DEF Types
  <1>4. Confirmed \in Seq(Vocab) /\ Len(Confirmed) = n + 1
    BY <1>1, <1>2, <1>3, FunctionIsSeq
  <1>5. \A i \in 1..n + 1 : Confirmed[i] = truth[Len(out) + i]
    BY <1>1
  <1>6. ASSUME NEW m \in 0..n + 1
        PROVE  LET q == out \o SubSeq(Confirmed, 1, m) IN
               q \in Seq(Vocab) /\ Len(q) = Len(out) + m /\ \A i \in 1..Len(out) + m : q[i] = truth[i]
    <2> DEFINE c == SubSeq(Confirmed, 1, m)
    <2>1. c \in Seq(Vocab) /\ Len(c) = m /\ \A i \in 1..m : c[i] = truth[Len(out) + i]
      BY <1>4, <1>5, <1>2
    <2> HIDE DEF c
    <2>2. out \o c \in Seq(Vocab) /\ Len(out \o c) = Len(out) + m
      BY <2>1, <1>2
    <2>3. ASSUME NEW i \in 1..Len(out) + m PROVE (out \o c)[i] = truth[i]
      <3>1. CASE i <= Len(out)
        <4>1. i \in 1..Len(out) /\ (out \o c)[i] = out[i]
          BY <3>1, <2>1, <1>2
        <4> QED
          BY <4>1 DEF OutTrue
      <3>2. CASE i > Len(out)
        <4>1. i - Len(out) \in 1..m /\ Len(out) + (i - Len(out)) = i
          BY <3>2, <1>2
        <4>2. (out \o c)[i] = c[i - Len(out)]
          BY <3>2, <2>1, <1>2
        <4> QED
          BY <4>1, <4>2, <2>1
      <3>3. i <= Len(out) \/ i > Len(out)
        BY <1>2
      <3> QED
        BY <3>1, <3>2, <3>3
    <2> QED
      BY <2>2, <2>3 DEF c
  <1> QED
    BY <1>1, <1>4, <1>5, <1>6

(* What the client is given is right, and the generation goes on with all  *)
(* of what was confirmed or ends.                                          *)
LEMMA GiveTrue ==
    ASSUME SpecInv, phase = "sample", NEW m, NEW stop \in BOOLEAN,
           m \in 1..Len(Confirmed), Give(Confirmed, m, stop), truth' = truth
    PROVE  /\ out' \in Seq(Vocab) /\ Len(out') \in 1..Budget /\ \A i \in 1..Len(out') : out'[i] = truth'[i]
           /\ Len(out') > Len(out)
           /\ \/ phase' = "done"
              \/ phase' = "draft" /\ m = Len(Confirmed) /\ out' = out \o Confirmed /\ Len(out') < Budget
  <1> USE DEF SpecInv
  <1>1. PICK n \in 0..Len(draft) :
              /\ Confirmed \in Seq(Vocab) /\ Len(Confirmed) = n + 1
              /\ \A k \in 0..n + 1 : LET q == out \o SubSeq(Confirmed, 1, k) IN
                    q \in Seq(Vocab) /\ Len(q) = Len(out) + k /\ \A i \in 1..Len(out) + k : q[i] = truth[i]
    BY ConfirmedContinues
  <1>2. Len(draft) \in Nat /\ Len(out) \in 1..Budget /\ Budget \in Nat
    BY BudgetAssumption DEF Types, OutTrue
  <1>3. m \in 0..n + 1 /\ m \in Nat /\ m > 0
    BY <1>1, <1>2
  <1>4. out' = out \o SubSeq(Confirmed, 1, m) /\ Len(out') <= Budget
    BY DEF Give
  <1>5. out' \in Seq(Vocab) /\ Len(out') = Len(out) + m /\ \A i \in 1..Len(out) + m : out'[i] = truth[i]
    BY <1>1, <1>3, <1>4
  <1>6. Len(out') \in 1..Budget /\ Len(out') > Len(out) /\ \A i \in 1..Len(out') : out'[i] = truth'[i]
    BY <1>2, <1>3, <1>4, <1>5
  <1>7. CASE stop
    BY <1>5, <1>6, <1>7 DEF Give
  <1>8. CASE ~ stop
    <2>1. m = Len(Confirmed) /\ Len(out') < Budget /\ phase' = "draft"
      BY <1>8 DEF Give
    <2>2. SubSeq(Confirmed, 1, m) = Confirmed
      BY <2>1, <1>1, SubSeqFull
    <2>3. out' = out \o Confirmed /\ m = n + 1
      BY <2>1, <2>2, <1>1, <1>4
    <2> QED
      BY <2>1, <2>3, <1>5, <1>6
  <1> QED
    BY <1>7, <1>8

\* An ordinary token.
LEMMA SpecSampleOne == ASSUME SpecInv, SampleOne PROVE SpecInv'
  <1> USE DEF SpecInv
  <1> DEFINE ids == Confirmed
  <1>1. /\ setup' = setup /\ truth' = truth /\ prompt' = prompt /\ kv' = kv /\ draft' = draft
        /\ replay' = replay /\ verified' = verified /\ drafted' = drafted /\ hits' = hits /\ ckpt' = ckpt
        /\ phase = "sample" /\ draft = <<>> /\ seen' = seen \o ids /\ sampled' = ids[1]
    BY DEF SampleOne
  <1>2. PICK stop \in BOOLEAN : Give(ids, 1, stop)
    BY DEF SampleOne
  <1>3. PICK n \in 0..Len(draft) :
            /\ Agree(draft, n) /\ ids \in Seq(Vocab) /\ Len(ids) = n + 1
            /\ \A i \in 1..n + 1 : ids[i] = truth[Len(out) + i]
    BY <1>1, ConfirmedContinues
  <1>4. n = 0 /\ Len(ids) = 1 /\ ids[1] = truth[Len(out) + 1] /\ ids[1] \in Vocab
    BY <1>1, <1>3
  <1>5. /\ out' \in Seq(Vocab) /\ Len(out') \in 1..Budget /\ \A i \in 1..Len(out') : out'[i] = truth'[i]
        /\ \/ phase' = "done"
           \/ phase' = "draft" /\ out' = out \o ids /\ Len(out') < Budget
    BY <1>1, <1>2, <1>4, GiveTrue
  <1> HIDE DEF ids
  <1>6. seen = out /\ out \in Seq(Vocab) /\ Len(out) \in Nat /\ Budget \in Nat /\ ~ replay
    BY <1>1, BudgetAssumption DEF Types, OutTrue, ReplayInv
  <1>7. out \o ids \in Seq(Vocab) /\ Len(out \o ids) = Len(out) + 1 /\ (out \o ids)[Len(out) + 1] = ids[1]
    <2>1. ids \in Seq(Vocab) /\ Len(ids) = 1 /\ out \in Seq(Vocab) /\ Len(out) \in Nat
      BY <1>3, <1>4, <1>6
    <2>2. /\ out \o ids \in Seq(Vocab) /\ Len(out \o ids) = Len(out) + Len(ids)
          /\ \A i \in 1..Len(out) + Len(ids) : (out \o ids)[i] = IF i <= Len(out) THEN out[i] ELSE ids[i - Len(out)]
      BY <2>1, ConcatProperties
    <2>3. Len(out) + 1 \in 1..Len(out) + Len(ids) /\ ~ (Len(out) + 1 <= Len(out)) /\ Len(out) + 1 - Len(out) = 1
      BY <2>1
    <2> QED
      BY <2>1, <2>2, <2>3
  <1>8. out \o ids \in Seq(Tokens)
    BY <1>7, SeqMonotonic DEF Tokens
  <1>9. Types'
    BY <1>1, <1>4, <1>5, <1>6, <1>8 DEF Types, NMax, Tokens
  <1>10. OutTrue'
    BY <1>1, <1>4, <1>5, <1>6, <1>7 DEF OutTrue
  <1>11. MemoryInv'
    <2>1. kv = prompt /\ prompt = out
      BY <1>1, <1>6 DEF MemoryInv
    <2>2. out = SubSeq(out \o ids, 1, Len(out))
      <3>1. SubSeq(out \o ids, 1, Len(out)) \in Seq(Vocab) /\ Len(SubSeq(out \o ids, 1, Len(out))) = Len(out)
            /\ \A i \in 1..Len(out) : SubSeq(out \o ids, 1, Len(out))[i] = out[i]
        BY <1>3, <1>4, <1>6, <1>7
      <3> QED
        BY <3>1, <1>6, SeqEqual
    <2>3. Len(out \o ids) - 1 = Len(out)
      BY <1>6, <1>7
    <2> QED
      BY <1>1, <1>5, <2>1, <2>2, <2>3 DEF MemoryInv
  <1>12. ReplayInv' /\ CountInv'
    <2>1. PICK k \in 0..Len(draft) : Agree(draft, k) /\ hits = verified + k
      BY <1>1, <1>6 DEF CountInv
    <2>2. hits = verified
      BY <2>1, <1>1 DEF Types
    <2> QED
      BY <2>2, <1>1, <1>5, <1>6 DEF ReplayInv, CountInv
  <1> QED
    BY <1>9, <1>10, <1>11, <1>12

\* Part of the draft is confirmed: it is replayed from the checkpoint.
LEMMA SpecRestoreCheckpoint == ASSUME SpecInv, RestoreCheckpoint PROVE SpecInv'
  <1> USE DEF SpecInv
  <1> DEFINE ids == Confirmed
  <1>1. /\ setup' = setup /\ truth' = truth /\ sampled' = sampled /\ seen' = seen /\ out' = out
        /\ replay' = TRUE /\ verified' = verified /\ drafted' = drafted /\ hits' = hits /\ ckpt' = ckpt
        /\ phase = "sample" /\ phase' = "draft" /\ draft # <<>> /\ draft' = ids
        /\ kv' = ckpt.state /\ prompt' = SubSeq(prompt, 1, ckpt.n)
        /\ Len(draft) + 1 - Len(ids) > 0 /\ NeedsCheckpoint(Len(draft) + 1 - Len(ids))
    BY DEF RestoreCheckpoint, Rollback
  <1>2. PICK n \in 0..Len(draft) :
            /\ Agree(draft, n) /\ ids \in Seq(Vocab) /\ Len(ids) = n + 1
            /\ \A i \in 1..n + 1 : ids[i] = truth[Len(out) + i]
    BY <1>1, ConfirmedContinues
  <1> HIDE DEF ids
  <1>3. /\ draft \in Seq(Vocab) /\ Len(draft) \in Nat /\ out \in Seq(Vocab) /\ Len(out) \in Nat /\ Len(out) > 0
        /\ NMax \in Nat /\ NRs \in Nat /\ Budget \in Nat /\ Len(draft) <= NMax
        /\ Len(out) + Len(draft) < Budget /\ prompt = out \o draft
    <2>1. draft \in Seq(Vocab) /\ out \in Seq(Vocab) /\ Len(draft) <= NMax /\ setup \in Setups
      BY DEF Types
    <2>2. Len(out) \in 1..Budget /\ Len(out) + Len(draft) < Budget /\ prompt = out \o draft
      BY <1>1 DEF OutTrue, MemoryInv
    <2>3. NMax \in Nat /\ NRs \in Nat /\ Budget \in Nat
      BY <2>1, BudgetAssumption, SetupAssumption DEF NMax, NRs
    <2>4. Len(draft) \in Nat /\ Len(out) \in Nat /\ Len(out) > 0
      BY <2>1, <2>2, <2>3, LenProperties
    <2> QED
      BY <2>1, <2>2, <2>3, <2>4
  <1>4. n < Len(draft)
    BY <1>1, <1>2, <1>3
  <1>5. ~ replay
    <2> SUFFICES ASSUME replay PROVE FALSE
      OBVIOUS
    <2>1. \A i \in 1..Len(draft) : draft[i] = truth[Len(out) + i]
      BY <1>1 DEF ReplayInv
    <2>2. n + 1 \in 1..Len(draft) /\ Len(out) + (n + 1) = Len(out) + n + 1
      BY <1>3, <1>4
    <2>3. draft[n + 1] = truth[Len(out) + (n + 1)]
      BY <2>1, <2>2
    <2> QED
      BY <2>2, <2>3, <1>2, <1>4 DEF Agree
  <1>6. NeedsCheckpoint(Len(draft))
    BY <1>1, <1>2, <1>3 DEF NeedsCheckpoint
  <1>7. ckpt.n = Len(out) - 1 /\ ckpt.state = SubSeq(out, 1, Len(out) - 1)
    BY <1>1, <1>5, <1>6 DEF ReplayInv
  <1>8. prompt' = SubSeq(out, 1, Len(out) - 1)
    <2> DEFINE a == SubSeq(out \o draft, 1, Len(out) - 1)
               b == SubSeq(out, 1, Len(out) - 1)
               q == out \o draft
    <2>1. q \in Seq(Vocab) /\ Len(q) = Len(out) + Len(draft) /\ \A i \in 1..Len(out) : q[i] = out[i]
      BY <1>3
    <2> HIDE DEF q
    <2>2. a \in Seq(Vocab) /\ Len(a) = Len(out) - 1 /\ \A i \in 1..Len(out) - 1 : a[i] = q[i]
      <3>1. Len(out) - 1 \in 0..Len(q)
        BY <2>1, <1>3
      <3> QED
        BY <3>1, <2>1, PrefixFacts DEF q
    <2>3. b \in Seq(Vocab) /\ Len(b) = Len(out) - 1 /\ \A i \in 1..Len(out) - 1 : b[i] = out[i]
      <3>1. Len(out) - 1 \in 0..Len(out)
        BY <1>3
      <3> QED
        BY <3>1, <1>3, PrefixFacts
    <2>4. \A i \in 1..Len(out) - 1 : a[i] = b[i]
      BY <2>1, <2>2, <2>3, <1>3
    <2> HIDE DEF a, b
    <2>5. a = b
      BY <2>2, <2>3, <2>4, SeqEqual
    <2> QED
      BY <2>5, <1>1, <1>3, <1>7 DEF a, b
  <1>9. SubSeq(out, 1, Len(out) - 1) \in Seq(Tokens)
    <2>1. out \in Seq(Tokens)
      BY <1>3, SeqMonotonic DEF Tokens
    <2> QED
      BY <2>1, <1>3
  <1>10. Types'
    <2>1. Len(draft') <= NMax /\ NMax' = NMax /\ draft' \in Seq(Vocab)
      BY <1>1, <1>2, <1>3, <1>4 DEF NMax
    <2>2. prompt' \in Seq(Tokens) /\ kv' \in Seq(Tokens)
      BY <1>1, <1>7, <1>8, <1>9
    <2>3. /\ setup' \in Setups /\ truth' \in [1..Budget -> Vocab] /\ seen' \in Seq(Tokens) /\ out' \in Seq(Vocab)
          /\ sampled' \in Tokens /\ replay' \in BOOLEAN /\ ckpt' \in [n : Nat, state : Seq(Tokens)]
          /\ drafted' \in Nat /\ verified' \in Nat /\ hits' \in Nat
      BY <1>1 DEF Types
    <2> QED
      BY <2>1, <2>2, <2>3, <1>1 DEF Types
  <1>11. OutTrue'
    BY <1>1, <1>2, <1>3, <1>4 DEF OutTrue
  <1>12. MemoryInv'
    BY <1>1, <1>7, <1>8 DEF MemoryInv
  <1>13. ReplayInv'
    <2>1. draft' # <<>>
      BY <1>1, <1>2, <1>3
    <2> QED
      BY <2>1, <1>1, <1>2, <1>7 DEF ReplayInv
  <1>14. CountInv'
    <2>1. PICK k \in 0..Len(draft) : Agree(draft, k) /\ hits = verified + k
      BY <1>1, <1>5 DEF CountInv
    <2>2. k = n
      BY <2>1, <1>2, <1>3, AgreeUnique
    <2> QED
      BY <2>1, <2>2, <1>1, <1>2, <1>3 DEF CountInv, Types
  <1> QED
    BY <1>10, <1>11, <1>12, <1>13, <1>14

\* What is confirmed is kept, the rest is taken back.
LEMMA SpecAcceptDraft == ASSUME SpecInv, AcceptDraft PROVE SpecInv'
  <1> USE DEF SpecInv
  <1> DEFINE ids == Confirmed
  <1>1. /\ setup' = setup /\ truth' = truth /\ drafted' = drafted /\ hits' = hits /\ ckpt' = ckpt
        /\ phase = "sample" /\ draft # <<>> /\ draft' = <<>> /\ replay' = FALSE
        /\ Len(draft) + 1 - Len(ids) = 0 \/ ~ NeedsCheckpoint(Len(draft) + 1 - Len(ids))
        /\ prompt' = SubSeq(prompt, 1, Len(prompt) - Len(draft)) \o Front(ids)
        /\ kv' = Removed(kv, Len(prompt'))
        /\ sampled' = Last(ids) /\ seen' = seen \o ids
        /\ verified' = verified + (IF replay /\ Len(ids) - 1 > 0 THEN Len(ids) - 1 - 1 ELSE Len(ids) - 1)
    BY DEF AcceptDraft, Rollback
  <1>2. PICK m \in 1..Len(ids), stop \in BOOLEAN : Give(ids, m, stop)
    BY DEF AcceptDraft
  <1>3. PICK n \in 0..Len(draft) :
            /\ Agree(draft, n) /\ ids \in Seq(Vocab) /\ Len(ids) = n + 1
            /\ \A i \in 1..n + 1 : ids[i] = truth[Len(out) + i]
            /\ \A k \in 0..n + 1 : LET q == out \o SubSeq(ids, 1, k) IN
                  q \in Seq(Vocab) /\ Len(q) = Len(out) + k /\ \A i \in 1..Len(out) + k : q[i] = truth[i]
    BY <1>1, ConfirmedContinues
  <1>4. /\ out' \in Seq(Vocab) /\ Len(out') \in 1..Budget /\ \A i \in 1..Len(out') : out'[i] = truth'[i]
        /\ \/ phase' = "done"
           \/ phase' = "draft" /\ out' = out \o ids /\ Len(out') < Budget
    BY <1>1, <1>2, GiveTrue
  <1> HIDE DEF ids
  <1>5. /\ draft \in Seq(Vocab) /\ Len(draft) \in Nat /\ out \in Seq(Vocab) /\ Len(out) \in Nat /\ Len(out) > 0
        /\ NMax \in Nat /\ NRs \in Nat /\ Budget \in Nat
        /\ Len(out) + Len(draft) < Budget /\ prompt = out \o draft /\ kv = out \o draft /\ seen = out
    <2>1. phase = "sample"
      BY <1>1
    <2>2. /\ draft \in Seq(Vocab) /\ Len(draft) \in Nat /\ out \in Seq(Vocab) /\ Len(out) \in Nat
          /\ NMax \in Nat /\ NRs \in Nat /\ Budget \in Nat
      BY BudgetAssumption, SetupAssumption DEF Types, NMax, NRs
    <2>3. Len(out) > 0 /\ Len(out) + Len(draft) < Budget /\ seen = out
      BY <2>1, <2>2 DEF OutTrue
    <2>4. prompt = out \o draft /\ kv = out \o draft
      BY <2>1 DEF MemoryInv
    <2> QED
      BY <2>2, <2>3, <2>4
  <1>6. n \in Nat /\ Len(out) + n < Budget /\ Len(out) + n \in 0..Budget /\ Len(out) + n + 1 \in 0..Budget
    BY <1>5
  <1>7. /\ out \o draft \in Seq(Vocab) /\ Len(out \o draft) = Len(out) + Len(draft)
        /\ \A i \in 1..Len(out) + n : (out \o draft)[i] = truth[i]
    <2>1. /\ out \o draft \in Seq(Vocab) /\ Len(out \o draft) = Len(out) + Len(draft)
          /\ \A i \in 1..Len(out) + Len(draft) :
                (out \o draft)[i] = IF i <= Len(out) THEN out[i] ELSE draft[i - Len(out)]
      BY <1>5, ConcatProperties
    <2>2. ASSUME NEW i \in 1..Len(out) + n PROVE (out \o draft)[i] = truth[i]
      <3>1. i \in 1..Len(out) + Len(draft) /\ (i <= Len(out) \/ i > Len(out))
        BY <1>5
      <3>2. CASE i <= Len(out)
        <4>1. i \in 1..Len(out)
          BY <3>2, <1>5
        <4> QED
          BY <4>1, <3>1, <3>2, <2>1 DEF OutTrue
      <3>3. CASE i > Len(out)
        <4>1. i - Len(out) \in 1..n /\ Len(out) + (i - Len(out)) = i /\ ~ (i <= Len(out))
          BY <3>3, <1>5
        <4>2. draft[i - Len(out)] = truth[Len(out) + (i - Len(out))]
          BY <4>1, <1>3 DEF Agree
        <4> QED
          BY <4>1, <4>2, <3>1, <2>1
      <3> QED
        BY <3>1, <3>2, <3>3
    <2> QED
      BY <2>1, <2>2
  <1>8. prompt' = SubSeq(truth, 1, Len(out) + n) /\ Len(prompt') = Len(out) + n /\ prompt' \in Seq(Tokens)
    <2>1. SubSeq(prompt, 1, Len(prompt) - Len(draft)) = out
      <3>1. Len(prompt) - Len(draft) = Len(out) /\ Len(out) \in 0..Len(out \o draft)
        BY <1>5, <1>7
      <3>2. /\ SubSeq(out \o draft, 1, Len(out)) \in Seq(Vocab) /\ Len(SubSeq(out \o draft, 1, Len(out))) = Len(out)
            /\ \A i \in 1..Len(out) : SubSeq(out \o draft, 1, Len(out))[i] = (out \o draft)[i]
        BY <3>1, <1>7, PrefixFacts
      <3>3. ASSUME NEW i \in 1..Len(out) PROVE (out \o draft)[i] = out[i]
        <4>1. i \in 1..Len(out) + n
          BY <1>5
        <4> QED
          BY <4>1, <1>7 DEF OutTrue
      <3>4. SubSeq(out \o draft, 1, Len(out)) = out
        BY <3>2, <3>3, <1>5, SeqEqual
      <3> QED
        BY <3>1, <3>4, <1>5
    <2>2. Front(ids) = SubSeq(ids, 1, n)
      BY <1>3, <1>6 DEF Front
    <2>3. prompt' = out \o SubSeq(ids, 1, n)
      BY <2>1, <2>2, <1>1
    <2>4. prompt' \in Seq(Vocab) /\ Len(prompt') = Len(out) + n /\ \A i \in 1..Len(out) + n : prompt'[i] = truth[i]
      BY <2>3, <1>3, <1>6
    <2>5. prompt' \in Seq(Tokens)
      BY <2>4, SeqMonotonic DEF Tokens
    <2> QED
      BY <2>4, <2>5, <1>6, PrefixEqual
  <1>9. kv' = prompt'
    <2> DEFINE q == out \o draft
    <2>1. kv' = SubSeq(q, 1, Len(out) + n)
      <3>1. CASE n = Len(draft)
        <4>1. Len(kv) <= Len(prompt') /\ SubSeq(q, 1, Len(q)) = q /\ Len(q) = Len(out) + n
          BY <3>1, <1>5, <1>7, <1>8, SubSeqFull
        <4> QED
          BY <4>1, <1>1, <1>5 DEF Removed
      <3>2. CASE n # Len(draft)
        <4>1. /\ Len(kv) > Len(prompt') /\ Len(kv) - Len(prompt') = Len(draft) + 1 - Len(ids)
              /\ Len(draft) + 1 - Len(ids) # 0 /\ ~ (Len(kv) <= Len(prompt'))
          <5>1. Len(kv) = Len(out) + Len(draft) /\ Len(prompt') = Len(out) + n /\ Len(ids) = n + 1
            BY <1>3, <1>5, <1>7, <1>8
          <5>2. n \in 0..Len(draft) /\ Len(draft) \in Nat /\ Len(out) \in Nat
            BY <1>5
          <5> QED
            BY <3>2, <5>1, <5>2
        <4> QED
          BY <4>1, <1>1, <1>5, <1>8 DEF Removed
      <3> QED
        BY <3>1, <3>2
    <2>2. Len(out) + n \in 0..Len(q)
      BY <1>5, <1>6, <1>7
    <2>3. /\ SubSeq(q, 1, Len(out) + n) \in Seq(Vocab) /\ Len(SubSeq(q, 1, Len(out) + n)) = Len(out) + n
          /\ \A i \in 1..Len(out) + n : SubSeq(q, 1, Len(out) + n)[i] = truth[i]
      BY <2>2, <1>7, PrefixFacts
    <2>4. SubSeq(q, 1, Len(out) + n) \in Seq(Tokens)
      BY <2>3, SeqMonotonic DEF Tokens
    <2> QED
      BY <2>1, <2>3, <2>4, <1>6, <1>8, PrefixEqual
  <1>10. /\ out \o ids \in Seq(Vocab) /\ Len(out \o ids) = Len(out) + n + 1 /\ out \o ids \in Seq(Tokens)
         /\ \A i \in 1..Len(out) + n + 1 : (out \o ids)[i] = truth[i]
    <2>1. SubSeq(ids, 1, n + 1) = ids
      BY <1>3, SubSeqFull
    <2>2. n + 1 \in 0..n + 1 /\ Len(out) + (n + 1) = Len(out) + n + 1
      BY <1>5, <1>6
    <2>3. /\ out \o ids \in Seq(Vocab) /\ Len(out \o ids) = Len(out) + (n + 1)
          /\ \A i \in 1..Len(out) + (n + 1) : (out \o ids)[i] = truth[i]
      BY <2>1, <2>2, <1>3
    <2> QED
      BY <2>2, <2>3, SeqMonotonic DEF Tokens
  <1>11. sampled' = truth[Len(out) + n + 1] /\ sampled' \in Vocab
    <2>1. sampled' = ids[n + 1]
      BY <1>1, <1>3 DEF Last
    <2>2. n + 1 \in 1..n + 1 /\ Len(out) + (n + 1) = Len(out) + n + 1 /\ n + 1 \in 1..Len(ids)
      BY <1>3, <1>5, <1>6
    <2>3. ids[n + 1] = truth[Len(out) + (n + 1)] /\ ids[n + 1] \in Vocab
      BY <2>2, <1>3, ElementOfSeq
    <2> QED
      BY <2>1, <2>2, <2>3
  <1>12. verified' = hits /\ hits \in Nat
    <2>1. CASE replay
      <3>1. hits = verified + Len(draft) - 1 /\ \A i \in 1..Len(draft) : draft[i] = truth[Len(out) + i]
        BY <2>1, <1>1 DEF CountInv, ReplayInv
      <3>2. Agree(draft, Len(draft))
        BY <3>1, <1>5 DEF Agree
      <3>3. n = Len(draft) /\ Len(draft) > 0
        BY <3>2, <1>1, <1>3, <1>5, AgreeUnique, EmptySeq
      <3> QED
        BY <2>1, <3>1, <3>3, <1>1, <1>3, <1>5 DEF Types
    <2>2. CASE ~ replay
      <3>1. PICK k \in 0..Len(draft) : Agree(draft, k) /\ hits = verified + k
        BY <2>2, <1>1 DEF CountInv
      <3>2. k = n
        BY <3>1, <1>3, <1>5, AgreeUnique
      <3> QED
        BY <2>2, <3>1, <3>2, <1>1, <1>3, <1>6 DEF Types
    <2> QED
      BY <2>1, <2>2
  <1>13. Types'
    <2>1. draft' \in Seq(Vocab) /\ Len(draft') <= NMax'
      BY <1>1, <1>5, EmptySeq DEF NMax
    <2>2. sampled' \in Tokens /\ seen' \in Seq(Tokens) /\ kv' \in Seq(Tokens) /\ prompt' \in Seq(Tokens)
      BY <1>1, <1>5, <1>8, <1>9, <1>10, <1>11 DEF Tokens
    <2> QED
      BY <2>1, <2>2, <1>1, <1>4, <1>12 DEF Types
  <1>14. OutTrue'
    <2>1. Len(draft') = 0
      BY <1>1, EmptySeq
    <2>2. CASE phase' = "draft"
      <3>1. out' = out \o ids /\ Len(out') < Budget /\ Len(out') = Len(out) + n + 1
        BY <2>2, <1>4, <1>10
      <3>2. Len(out) + n + 1 \in 1..Len(out) + n + 1
        BY <1>5, <1>6
      <3>3. sampled' = out'[Len(out')]
        BY <3>1, <3>2, <1>10, <1>11
      <3>4. seen' = out' /\ Len(out') + Len(draft') < Budget
        BY <3>1, <2>1, <1>1, <1>5, <1>6
      <3> QED
        BY <3>3, <3>4, <1>4 DEF OutTrue
    <2> QED
      BY <2>2, <1>4 DEF OutTrue
  <1>15. MemoryInv'
    <2>1. ASSUME phase' = "draft" PROVE prompt' = SubSeq(out', 1, Len(out') - 1)
      <3> DEFINE b == SubSeq(out \o ids, 1, Len(out) + n)
      <3>1. out' = out \o ids /\ Len(out') - 1 = Len(out) + n /\ Len(out) + n \in 0..Len(out \o ids)
        BY <2>1, <1>4, <1>5, <1>6, <1>10
      <3>2. b \in Seq(Tokens) /\ Len(b) = Len(out) + n /\ \A i \in 1..Len(out) + n : b[i] = (out \o ids)[i]
        BY <3>1, <1>10, PrefixFacts
      <3>3. \A i \in 1..Len(out) + n : i \in 1..Len(out) + n + 1
        BY <1>5, <1>6
      <3>4. \A i \in 1..Len(out) + n : b[i] = truth[i]
        BY <3>2, <3>3, <1>10
      <3> HIDE DEF b
      <3>5. b = SubSeq(truth, 1, Len(out) + n)
        BY <3>2, <3>4, <1>6, PrefixEqual
      <3> QED
        BY <3>1, <3>5, <1>8 DEF b
    <2> QED
      BY <2>1, <1>4, <1>9 DEF MemoryInv
  <1>16. ReplayInv' /\ CountInv'
    BY <1>1, <1>4, <1>12 DEF ReplayInv, CountInv
  <1> QED
    BY <1>13, <1>14, <1>15, <1>16

-----------------------------------------------------------------------------
\* Every step preserves the inductive invariant.
LEMMA SpecStep == SpecInv /\ [Next]_vars => SpecInv'
  <1> SUFFICES ASSUME SpecInv, [Next]_vars PROVE SpecInv'
    OBVIOUS
  <1>1. CASE UNCHANGED vars
    BY <1>1 DEF vars, SpecInv, Types, OutTrue, MemoryInv, ReplayInv, CountInv, Agree, NMax, NRs, SeqRm, NeedsCheckpoint
  <1> QED
    BY <1>1, SpecDraft, SpecKeepDraft, SpecDecode, SpecSampleOne, SpecRestoreCheckpoint, SpecAcceptDraft DEF Next

\* Between two rounds output, prompt and draft are cut from the generation.
LEMMA SpecImplies == SpecInv => SpeculationInv
  <1> SUFFICES ASSUME SpecInv PROVE SpeculationInv
    OBVIOUS
  <1> USE DEF SpecInv
  <1>0. /\ out \in Seq(Vocab) /\ Len(out) \in 1..Budget /\ draft \in Seq(Vocab)
        /\ truth \in [1..Budget -> Vocab] /\ Budget \in Nat
    BY BudgetAssumption DEF Types, OutTrue
  <1>1. /\ out \in Seq(Vocab) /\ Len(out) \in Nat /\ Len(out) > 0 /\ draft \in Seq(Vocab) /\ Len(draft) \in Nat
        /\ truth \in Seq(Vocab) /\ Len(truth) = Budget /\ Budget \in Nat
    <2>1. truth \in Seq(Vocab) /\ Len(truth) = Budget
      BY <1>0, FunctionIsSeq
    <2>2. Len(out) \in Nat /\ Len(out) > 0 /\ Len(draft) \in Nat
      BY <1>0, LenProperties
    <2> QED
      BY <1>0, <2>1, <2>2
  <1>2. out \in Seq(Tokens) /\ draft \in Seq(Tokens)
    BY <1>1, SeqMonotonic DEF Tokens
  <1>3. TypeOK
    BY <1>2 DEF Types, TypeOK
  <1>4. ContextMatches
    <2> SUFFICES ASSUME phase = "draft" PROVE kv = prompt /\ Append(prompt, sampled) = out /\ seen = out
      BY DEF ContextMatches
    <2>1. kv = prompt /\ prompt = SubSeq(out, 1, Len(out) - 1) /\ seen = out /\ sampled = out[Len(out)]
      BY DEF MemoryInv, OutTrue
    <2>2. Len(out) - 1 \in 0..Len(out) /\ Len(out) \in 1..Len(out)
      BY <1>1
    <2>3. prompt \in Seq(Vocab) /\ Len(prompt) = Len(out) - 1 /\ \A i \in 1..Len(out) - 1 : prompt[i] = out[i]
      BY <2>1, <2>2, <1>1, PrefixFacts
    <2>4. sampled \in Vocab
      BY <2>1, <2>2, <1>1, ElementOfSeq
    <2>5. /\ Append(prompt, sampled) \in Seq(Vocab) /\ Len(Append(prompt, sampled)) = Len(prompt) + 1
          /\ \A i \in 1..Len(prompt) : Append(prompt, sampled)[i] = prompt[i]
          /\ Append(prompt, sampled)[Len(prompt) + 1] = sampled
      BY <2>3, <2>4, AppendProperties
    <2>6. Len(prompt) + 1 = Len(out)
      BY <2>3, <1>1
    <2>7. ASSUME NEW i \in 1..Len(out) PROVE Append(prompt, sampled)[i] = out[i]
      <3>1. i = Len(prompt) + 1 \/ i \in 1..Len(out) - 1
        BY <2>6, <1>1
      <3> QED
        BY <3>1, <2>1, <2>3, <2>5, <2>6
    <2>8. Append(prompt, sampled) = out
      BY <2>5, <2>6, <2>7, <1>1, SeqEqual
    <2> QED
      BY <2>1, <2>8
  <1>5. ReplayConfirmed
    <2> SUFFICES ASSUME phase = "draft", replay
                 PROVE  draft # <<>> /\ Len(prompt) = ckpt.n /\ IsPrefix(out \o draft, truth)
      BY DEF ReplayConfirmed
    <2>1. draft # <<>> /\ ckpt.n = Len(out) - 1 /\ \A i \in 1..Len(draft) : draft[i] = truth[Len(out) + i]
      BY DEF ReplayInv
    <2>2. Len(out) - 1 \in 0..Len(out) /\ prompt = SubSeq(out, 1, Len(out) - 1)
      BY <1>1 DEF MemoryInv
    <2>3. Len(prompt) = Len(out) - 1
      BY <2>2, <1>1, PrefixFacts
    <2> DEFINE q == out \o draft
    <2>4. /\ q \in Seq(Tokens) /\ Len(q) = Len(out) + Len(draft)
          /\ \A i \in 1..Len(out) + Len(draft) : q[i] = IF i <= Len(out) THEN out[i] ELSE draft[i - Len(out)]
      BY <1>2, ConcatProperties
    <2> HIDE DEF q
    <2>5. Len(q) \in 0..Budget
      BY <2>4, <1>1 DEF OutTrue
    <2>6. ASSUME NEW i \in 1..Len(q) PROVE q[i] = truth[i]
      <3>1. i \in 1..Len(out) + Len(draft) /\ (i <= Len(out) \/ i > Len(out))
        BY <2>4, <1>1
      <3>2. CASE i <= Len(out)
        <4>1. i \in 1..Len(out)
          BY <3>2, <2>4, <1>1
        <4> QED
          BY <4>1, <3>1, <3>2, <2>4 DEF OutTrue
      <3>3. CASE i > Len(out)
        <4>1. i - Len(out) \in 1..Len(draft) /\ Len(out) + (i - Len(out)) = i /\ ~ (i <= Len(out))
          BY <3>1, <3>3, <1>1
        <4> QED
          BY <4>1, <3>1, <2>1, <2>4
      <3> QED
        BY <3>1, <3>2, <3>3
    <2>7. q = SubSeq(truth, 1, Len(q)) /\ SubSeq(q, 1, Len(q)) = q
      BY <2>4, <2>5, <2>6, PrefixEqual, SubSeqFull
    <2>8. IsPrefix(q, truth)
      BY <2>5, <2>7, <1>1 DEF IsPrefix
    <2> QED
      BY <2>1, <2>3, <2>8 DEF q
  <1>6. RateExact
    BY DEF CountInv, RateExact
  <1> QED
    BY <1>3, <1>4, <1>5, <1>6 DEF SpeculationInv

(* Whatever the drafts are and wherever they stop agreeing, between two    *)
(* rounds memory, prompt, sampler and output are those of plain decoding   *)
(* and the acceptance counts are exact (post_decode, slot.spec_ckpt).      *)
THEOREM SpeculationSafe == Spec => []SpeculationInv
  <1>1. Spec => []SpecInv
    BY SpecInit, SpecStep, PTL DEF Spec
  <1> QED
    BY <1>1, SpecImplies, PTL

\* A round gives the client a further part of the generation, or nothing.
LEMMA PlainStep == SpecInv /\ [Next]_vars => [Plain!Emit]_(Plain!plainVars)
  <1> SUFFICES ASSUME SpecInv, [Next]_vars PROVE [Plain!Emit]_(Plain!plainVars)
    OBVIOUS
  <1> USE DEF SpecInv
  <1>1. CASE UNCHANGED vars \/ Draft \/ KeepDraft \/ Decode \/ RestoreCheckpoint
    <2>1. UNCHANGED <<truth, out, seen>> /\ (phase = "done" <=> phase' = "done")
      BY <1>1 DEF vars, Draft, KeepDraft, Decode, RestoreCheckpoint
    <2> QED
      BY <2>1 DEF Plain!plainVars
  <1>2. ASSUME phase = "sample", NEW m, m \in 1..Len(Confirmed), NEW stop \in BOOLEAN, Give(Confirmed, m, stop),
               truth' = truth, seen' = seen \o Confirmed
        PROVE  Plain!Emit
    <2>1. /\ out' \in Seq(Vocab) /\ Len(out') \in 1..Budget /\ \A i \in 1..Len(out') : out'[i] = truth'[i]
          /\ Len(out') > Len(out)
          /\ \/ phase' = "done"
             \/ phase' = "draft" /\ out' = out \o Confirmed /\ Len(out') < Budget
      BY <1>2, GiveTrue
    <2>2. out' \in Seq(Tokens)
      BY <2>1, SeqMonotonic DEF Tokens
    <2>3. Len(out') \in Len(out) + 1..Budget /\ Len(out') \in 0..Budget
      BY <2>1, BudgetAssumption DEF Types
    <2>4. out' = SubSeq(truth, 1, Len(out'))
      BY <2>1, <2>2, <2>3, <1>2, PrefixEqual
    <2>5. seen = out
      BY <1>2 DEF OutTrue
    <2> QED
      BY <2>1, <2>3, <2>4, <2>5, <1>2 DEF Plain!Emit
  <1>3. CASE SampleOne
    <2>1. PICK n \in 0..Len(draft) : Len(Confirmed) = n + 1
      BY <1>3, ConfirmedContinues DEF SampleOne
    <2>2. 1 \in 1..Len(Confirmed)
      BY <2>1 DEF Types
    <2> QED
      BY <1>2, <1>3, <2>2 DEF SampleOne
  <1>4. CASE AcceptDraft
    BY <1>2, <1>4 DEF AcceptDraft
  <1> QED
    BY <1>1, <1>3, <1>4 DEF Next

(* Speculative decoding implements plain decoding: what process_token gets *)
(* is the target model's own generation, token by token, and the sampler   *)
(* has accepted nothing else.                                              *)
THEOREM SpeculationImplementsPlain == Spec => Plain!Plain
  <1>1. Init => Plain!Start
    <2> SUFFICES ASSUME Init PROVE Plain!Start
      OBVIOUS
    <2>1. SpecInv
      BY SpecInit
    <2>2. Len(out) = 1 /\ out \in Seq(Tokens) /\ 1 \in 0..Budget /\ out[1] = truth[1] /\ out = <<truth[1]>>
      <3>1. Len(out) = 1 /\ out[1] = truth[1] /\ out = <<truth[1]>>
        BY DEF Init
      <3>2. out \in Seq(Tokens)
        BY <2>1, SeqMonotonic DEF SpecInv, Types, Tokens
      <3> QED
        BY <3>1, <3>2, BudgetAssumption
    <2>3. out = SubSeq(truth, 1, 1)
      BY <2>1, <2>2, PrefixEqual DEF SpecInv
    <2> QED
      BY <2>3 DEF Init, Plain!Start
  <1>2. Spec => []SpecInv
    BY SpecInit, SpecStep, PTL DEF Spec
  <1> QED
    BY <1>1, <1>2, PlainStep, PTL DEF Spec, Plain!Plain

-----------------------------------------------------------------------------
(* The other way to take tokens back: a prompt resumes from the memory of  *)
(* the slot or from one of its checkpoints.  For all prompts, windows and  *)
(* sizes; the state of a SlotCheckpoints is independent of the one above.  *)

Memory == [toks : Seq(Token), lo : Nat]
Saved  == [n : Nat, min : Nat, max : Nat, mem : Memory, own : BOOLEAN]

(* The types, and how far the prompt is.                                   *)
PlaceInv ==
    /\ memory \in Memories
    /\ state \in {"idle", "prompt", "generate"}
    /\ IF state = "idle" THEN task = <<>> ELSE task \in Prompts
    /\ tokens \in Seq(Token) /\ Len(tokens) <= MaxLen
    /\ mem \in Memory /\ ckpts \in Seq(Saved)
    /\ state = "prompt" => Len(tokens) < Len(task) /\ \A i \in 1..Len(tokens) : tokens[i] = task[i]

\* The parameters of the slot.
LEMMA SlotParameters ==
    ASSUME memory \in Memories
    PROVE  /\ NBatch \in Nat \ {0} /\ MinStep \in Nat /\ MaxLen \in Nat /\ Generated \subseteq Token
           /\ \A p \in Prompts : p \in Seq(Token) /\ Len(p) \in 1..MaxLen
           /\ Recurrent \in BOOLEAN /\ Window \in Nat /\ (Recurrent => Window = 0) /\ (~ Recurrent => Window > 1)
           /\ NUbatch \in Nat /\ NTail \in Nat /\ MaxCheckpoints \in Nat \ {0}
  <1>1. /\ NBatch \in Nat \ {0} /\ MinStep \in Nat /\ MaxLen \in Nat
        /\ \A p \in Prompts : p \in Seq(Token) /\ Len(p) \in 1..MaxLen
    BY CheckpointAssumption DEF CheckpointAssumption
  <1>2. /\ memory.Recurrent \in BOOLEAN
        /\ IF memory.Recurrent THEN memory.Window = 0 ELSE memory.Window \in Nat \ {0, 1}
        /\ memory.NUbatch \in Nat /\ memory.NTail \in Nat /\ memory.MaxCheckpoints \in Nat \ {0}
    BY CheckpointAssumption DEF CheckpointAssumption
  <1>3. Generated \subseteq Token
    BY DEF Token
  <1> QED
    BY <1>1, <1>2, <1>3 DEF Recurrent, Window, NUbatch, NTail, MaxCheckpoints

\* Two texts agree up to their common prefix.
LEMMA CommonFacts ==
    ASSUME NEW S, NEW p \in Seq(S), NEW q \in Seq(S)
    PROVE  /\ Common(p, q) \in Nat /\ Common(p, q) <= Len(p) /\ Common(p, q) <= Len(q)
           /\ \A i \in 1..Common(p, q) : p[i] = q[i]
  <1> DEFINE b == Least(Len(p), Len(q))
             T == {n \in 0..b : SubSeq(p, 1, n) = SubSeq(q, 1, n)}
  <1>1. b \in Nat /\ b <= Len(p) /\ b <= Len(q)
    BY DEF Least
  <1>2. 0 \in T
    BY <1>1, SamePrefix
  <1>3. T \subseteq 0..b
    OBVIOUS
  <1>4. Common(p, q) = Max(T)
    BY DEF Common, Max, Max
  <1> DEFINE k == Max(T)
  <1> HIDE DEF b, T
  <1>5. k \in T
    BY <1>1, <1>2, <1>3, Extremes
  <1> HIDE DEF k
  <1>6. k \in Nat /\ k <= b /\ SubSeq(p, 1, k) = SubSeq(q, 1, k)
    BY <1>1, <1>5 DEF T
  <1>7. \A i \in 1..k : p[i] = q[i]
    BY <1>1, <1>6, SamePrefix
  <1> QED
    BY <1>1, <1>4, <1>6, <1>7 DEF k

\* What is left of a memory is a memory.
LEMMA CutFacts ==
    ASSUME NEW m \in Memory, NEW p \in Nat
    PROVE  /\ CutBack(m, p) \in Memory
           /\ p >= Len(m.toks) => CutBack(m, p) = m
           /\ p < Len(m.toks) /\ Recurrent => CutBack(m, p) = IF p = 0 THEN [toks |-> <<>>, lo |-> 0] ELSE m
           /\ p < Len(m.toks) /\ ~ Recurrent =>
                 CutBack(m, p) = IF p <= m.lo THEN [toks |-> <<>>, lo |-> 0] ELSE [toks |-> SubSeq(m.toks, 1, p), lo |-> m.lo]
  <1>1. m.toks \in Seq(Token) /\ m.lo \in Nat /\ Len(m.toks) \in Nat
    BY DEF Memory
  <1>2. p > PosMax(m) <=> p >= Len(m.toks)
    BY <1>1 DEF PosMax
  <1>3. [m EXCEPT !.toks = SubSeq(@, 1, p)] = [toks |-> SubSeq(m.toks, 1, p), lo |-> m.lo]
    <2>1. ASSUME NEW a, NEW l, NEW b PROVE [[toks |-> a, lo |-> l] EXCEPT !.toks = b] = [toks |-> b, lo |-> l]
      OBVIOUS
    <2>2. m = [toks |-> m.toks, lo |-> m.lo]
      BY DEF Memory
    <2>3. [m EXCEPT !.toks = SubSeq(@, 1, p)] = [m EXCEPT !.toks = SubSeq(m.toks, 1, p)]
      OBVIOUS
    <2> QED
      BY <2>1, <2>2, <2>3
  <1>4. NoMem = [toks |-> <<>>, lo |-> 0] /\ NoMem \in Memory
    BY DEF NoMem, Memory
  <1>5. p < Len(m.toks) => SubSeq(m.toks, 1, p) \in Seq(Token)
    BY <1>1, PrefixFacts
  <1>6. p < Len(m.toks) => [toks |-> SubSeq(m.toks, 1, p), lo |-> m.lo] \in Memory
    BY <1>1, <1>5 DEF Memory
  <1> QED
    BY <1>1, <1>2, <1>3, <1>4, <1>6 DEF CutBack

(* What a prompt resumes from: its memory as it is, nothing, or a          *)
(* checkpoint.                                                             *)
FromMemory(n) == Resumed = [past |-> n, next |-> n, mem |-> mem] /\ (n = 0 \/ PosMin(mem) < Threshold(n))
FromNothing   == Resumed = [past |-> 0, next |-> 0, mem |-> mem]
FromSaved(n, c) ==
    /\ n # 0 /\ Usable(c, n)
    /\ Resumed.next = NextPos(c, n) /\ Resumed.mem = c.mem
    /\ Resumed.past = Least(Least(NextPos(c, n), Len(tokens)), c.n)

\* There are no other ways.
LEMMA ResumedFrom ==
    ASSUME PlaceInv, task' \in Prompts
    PROVE  LET n == Common(tokens, task')
           IN  FromMemory(n) \/ FromNothing \/ \E i \in 1..Len(ckpts) : FromSaved(n, ckpts[i])
  <1> DEFINE n == Common(tokens, task')
  <1>1. CASE n = 0 \/ PosMin(mem) < Threshold(n)
    BY <1>1 DEF Resumed, FromMemory
  <1>2. CASE ~ (n = 0 \/ PosMin(mem) < Threshold(n)) /\ Chosen(n) = {}
    BY <1>2 DEF Resumed, FromNothing
  <1>3. CASE ~ (n = 0 \/ PosMin(mem) < Threshold(n)) /\ Chosen(n) # {}
    <2> DEFINE i == CHOOSE i \in Chosen(n) : TRUE
               c == ckpts[i]
    <2>1. i \in Chosen(n)
      BY <1>3
    <2>2. i \in 1..Len(ckpts) /\ Usable(c, n)
      BY <2>1 DEF Chosen, PlaceInv
    <2>3. Resumed = [past |-> Least(Least(NextPos(c, n), Len(tokens)), c.n), next |-> NextPos(c, n), mem |-> c.mem]
      BY <1>3 DEF Resumed
    <2> HIDE DEF i
    <2>4. FromSaved(n, ckpts[i])
      BY <1>3, <2>2, <2>3 DEF FromSaved
    <2> QED
      BY <2>2, <2>4
  <1> QED
    BY <1>1, <1>2, <1>3

(* The numbers of a step of Start: n tokens are common, p are kept.        *)
Kept == IF Resumed.past = Len(task') THEN Resumed.past - 1 ELSE Resumed.past

\* What is kept is common to the old tokens and the new prompt, and not all of it.
LEMMA KeptFacts ==
    ASSUME PlaceInv, task' \in Prompts
    PROVE  LET n == Common(tokens, task')
           IN  /\ Resumed.past \in 0..n /\ Resumed.next \in 0..n /\ Resumed.mem \in Memory
               /\ Kept \in 0..n /\ Kept < Len(task') /\ Kept <= Resumed.past
               /\ n \in Nat /\ n <= Len(tokens) /\ n <= Len(task') /\ \A i \in 1..n : tokens[i] = task'[i]
  <1> DEFINE n == Common(tokens, task')
  <1>1. /\ tokens \in Seq(Token) /\ task' \in Seq(Token) /\ Len(task') \in 1..MaxLen /\ MaxLen \in Nat
        /\ mem \in Memory /\ ckpts \in Seq(Saved)
    BY SlotParameters DEF PlaceInv
  <1>2. n \in Nat /\ n <= Len(tokens) /\ n <= Len(task') /\ \A i \in 1..n : tokens[i] = task'[i]
    BY <1>1, CommonFacts
  <1> HIDE DEF n
  <1>3. Resumed.past \in 0..n /\ Resumed.next \in 0..n /\ Resumed.mem \in Memory
    <2>1. CASE FromMemory(n)
      BY <1>1, <1>2, <2>1 DEF FromMemory
    <2>2. CASE FromNothing
      BY <1>1, <1>2, <2>2 DEF FromNothing
    <2>3. ASSUME NEW i \in 1..Len(ckpts), FromSaved(n, ckpts[i]) PROVE <1>3
      <3>1. ckpts[i] \in Saved
        BY <1>1
      <3> DEFINE c == ckpts[i]
      <3>2. c.n \in Nat /\ c.min \in Nat /\ c.max \in Nat /\ c.mem \in Memory
        BY <3>1 DEF Saved
      <3> HIDE DEF c
      <3>3. NextPos(c, n) \in 0..n
        BY <3>2, <1>2 DEF NextPos, Least, Most
      <3>4. Least(Least(NextPos(c, n), Len(tokens)), c.n) \in 0..n
        BY <3>2, <3>3, <1>1, <1>2 DEF Least
      <3> QED
        BY <2>3, <3>2, <3>3, <3>4 DEF FromSaved, c
    <2> QED
      BY <2>1, <2>2, <2>3, ResumedFrom DEF n
  <1> QED
    BY <1>1, <1>2, <1>3 DEF Kept, n

\* Thinning a list of checkpoints leaves some of them, and the last one if it is of this prompt.
LEMMA ThinnedFacts ==
    ASSUME NEW S, ckpts \in Seq(S)
    PROVE  /\ Thinned \in Seq(S)
           /\ Len(ckpts) > 0 /\ ckpts[Len(ckpts)].own => \E q \in Seq(S) : Thinned = Append(q, ckpts[Len(ckpts)])
  <1> DEFINE N == Len(ckpts)
             Low == {-1} \cup {c.n : c \in S}
             A == [kept : Seq(S), last : Low, size : Int]
             a == [kept |-> <<>>, last |-> -1, size |-> N]
             G(x, c) == IF x.size + 1 >= MaxCheckpoints /\ ~ c.own /\ x.last >= 0 /\ c.n <= x.last + MinStep
                        THEN [x EXCEPT !.size = @ - 1]
                        ELSE [x EXCEPT !.kept = Append(@, c), !.last = c.n]
             F == [i \in 1..N |-> [x \in A |-> G(x, ckpts[i])]]
             Step(f) == [i \in 0..N |-> IF i = 0 THEN a ELSE G(f[i - 1], ckpts[i])]
  <1>1. N \in Nat /\ \A i \in 1..N : ckpts[i] \in S
    BY LenProperties, ElementOfSeq
  <1>2. a \in A
    BY <1>1, EmptySeq
  <1>3. ASSUME NEW x \in A, NEW c \in S PROVE G(x, c) \in A /\ (c.own => G(x, c).kept = Append(x.kept, c))
    <2>1. x = [kept |-> x.kept, last |-> x.last, size |-> x.size] /\ x.kept \in Seq(S) /\ x.size \in Int
      OBVIOUS
    <2>2. [x EXCEPT !.size = @ - 1] \in A
      BY <2>1
    <2>3. Append(x.kept, c) \in Seq(S) /\ c.n \in Low
      BY <2>1, AppendProperties
    <2> HIDE DEF Low
    <2>4. [x EXCEPT !.kept = Append(@, c), !.last = c.n] \in A
      BY <2>1, <2>3
    <2>5. [x EXCEPT !.kept = Append(@, c), !.last = c.n].kept = Append(x.kept, c)
      BY <2>1
    <2> QED
      BY <2>2, <2>4, <2>5
  <1> HIDE DEF A, a, G
  <1>4. \A i \in 1..N, x \in A : F[i][x] = G(x, ckpts[i])
    OBVIOUS
  <1> HIDE DEF F
  <1>5. Stays(F, N, A)
    BY <1>1, <1>3, <1>4 DEF Stays
  <1>6. PICK f : DOMAIN f = 0..N /\ Runs(f, F, N, A, a)
    BY <1>1, <1>2, <1>5, Recursion
  <1>7. \A h : Runs(h, F, N, A, a) => \A i \in 0..N : h[i] \in A
    BY <1>1, <1>2, <1>5, Recursion
  <1> DEFINE g == [i \in 0..N |-> f[i]]
  <1>8. g = Step(g)
    <2>1. ASSUME NEW i \in 0..N PROVE g[i] = Step(g)[i]
      <3>1. CASE i = 0
        BY <3>1, <1>6 DEF Runs
      <3>2. CASE i # 0
        <4>1. i \in 1..N /\ i - 1 \in 0..N /\ f[i - 1] \in A
          BY <3>2, <1>1, <1>6, <1>7
        <4>2. f[i] = F[i][f[i - 1]]
          BY <4>1, <1>6 DEF Runs
        <4> QED
          BY <4>1, <4>2, <3>2, <1>4
      <3> QED
        BY <3>1, <3>2
    <2> QED
      BY <2>1
  <1>9. PICK k : k = (CHOOSE h : h = Step(h)) /\ k = Step(k)
    BY <1>8
  <1>10. k[0] = a /\ \A i \in 1..N : k[i] = G(k[i - 1], ckpts[i])
    <2>1. \A i \in 0..N : k[i] = IF i = 0 THEN a ELSE G(k[i - 1], ckpts[i])
      BY <1>9
    <2> QED
      BY <2>1, <1>1
  <1>11. \A i \in 0..N : k[i] \in A
    <2>1. k[0] = a
      BY <1>10
    <2>2. Runs(k, F, N, A, a)
      BY <2>1, <1>4, <1>10 DEF Runs
    <2> QED
      BY <2>2, <1>7
  <1>12. Thinned = k[N].kept
    BY <1>9 DEF Thinned, a, G
  <1>13. k[N] \in A
    BY <1>1, <1>11
  <1>14. ASSUME N > 0, ckpts[N].own PROVE \E q \in Seq(S) : Thinned = Append(q, ckpts[N])
    <2>1. N \in 1..N /\ k[N - 1] \in A /\ ckpts[N] \in S
      BY <1>1, <1>11, <1>14
    <2>2. Thinned = Append(k[N - 1].kept, ckpts[N])
      <3>1. Thinned = G(k[N - 1], ckpts[N]).kept
        BY <2>1, <1>10, <1>12
      <3> QED
        BY <2>1, <3>1, <1>3, <1>14
    <2>3. k[N - 1].kept \in Seq(S)
      BY <2>1 DEF A
    <2> QED
      BY <2>2, <2>3
  <1> QED
    BY <1>12, <1>13, <1>14 DEF A

\* A new checkpoint is added to some of the old ones, within the limit.
LEMMA WithCheckpointFacts ==
    ASSUME NEW S, ckpts \in Seq(S), NEW start, NewCheckpoint(start) \in S, MaxCheckpoints \in Nat \ {0}
    PROVE  WithCheckpoint(start) \in Seq(S) /\ Len(WithCheckpoint(start)) <= MaxCheckpoints
  <1> DEFINE q == Thinned
             r == WithRoom(q)
             D == {c \in ToSet(r) : c.n = start}
  <1>1. q \in Seq(S) /\ Len(q) \in Nat
    BY ThinnedFacts, LenProperties
  <1> HIDE DEF q
  <1>2. r \in Seq(S) /\ Len(r) < MaxCheckpoints
    <2>1. CASE Len(q) < MaxCheckpoints
      BY <2>1, <1>1 DEF WithRoom
    <2>2. CASE Len(q) >= MaxCheckpoints
      <3> DEFINE k == Len(q) - MaxCheckpoints + 1
      <3>1. r = SubSeq(q, k + 1, Len(q)) /\ k \in 1..Len(q)
        BY <2>2, <1>1 DEF WithRoom
      <3> HIDE DEF r
      <3>2. SubSeq(q, k + 1, Len(q)) \in Seq(S) /\ Len(SubSeq(q, k + 1, Len(q))) = Len(q) - k
        BY <3>1, <1>1, SubSeqProperties
      <3> QED
        BY <3>1, <3>2, <1>1
    <2> QED
      BY <2>1, <2>2, <1>1
  <1> HIDE DEF r, D
  <1>3. PICK g : Drop(r, D) \in Seq(S) /\ Embeds(g, Drop(r, D), r)
    BY <1>2, DropFacts
  <1>4. Len(Drop(r, D)) <= Len(r)
    BY <1>2, <1>3, EmbedsShorter
  <1>5. WithCheckpoint(start) = Append(Drop(r, D), NewCheckpoint(start))
    BY DEF WithCheckpoint, Drop, Drop, q, r, D
  <1> QED
    BY <1>2, <1>3, <1>4, <1>5, AppendProperties, LenProperties

\* A memory after some tokens were decoded.
LEMMA ExtendedFacts ==
    ASSUME memory \in Memories, NEW m \in Memory, NEW s \in Seq(Token), Len(s) > 0, NEW x \in Extended(m, s)
    PROVE  /\ x \in Memory /\ x.toks = m.toks \o s /\ Len(x.toks) = Len(m.toks) + Len(s) /\ Len(m.toks) \in Nat
           /\ Recurrent => x.lo = Len(x.toks) - 1
           /\ ~ Recurrent => m.lo <= x.lo /\ (x.lo = m.lo \/ x.lo + 1 < Len(x.toks))
  <1>1. m.toks \in Seq(Token) /\ m.lo \in Nat /\ Len(m.toks) \in Nat /\ Len(s) \in Nat \ {0}
    BY LenProperties DEF Memory
  <1> DEFINE toks == m.toks \o s
  <1>2. toks \in Seq(Token) /\ Len(toks) = Len(m.toks) + Len(s)
    BY <1>1, ConcatProperties
  <1>3. Extended(m, s) = IF Recurrent THEN {[toks |-> toks, lo |-> Len(toks) - 1]}
                         ELSE {[toks |-> toks, lo |-> l] : l \in m.lo..Most(m.lo, Len(toks) - Window)}
    BY DEF Extended
  <1>4. Window \in Nat /\ (~ Recurrent => Window > 1)
    BY SlotParameters
  <1> HIDE DEF toks
  <1>5. CASE Recurrent
    <2>1. x = [toks |-> toks, lo |-> Len(toks) - 1] /\ Len(toks) - 1 \in Nat
      BY <1>1, <1>2, <1>3, <1>5
    <2>2. x \in Memory
      BY <2>1, <1>2 DEF Memory
    <2> QED
      BY <2>1, <2>2, <1>1, <1>2, <1>5 DEF toks
  <1>6. CASE ~ Recurrent
    <2>1. PICK l \in m.lo..Most(m.lo, Len(toks) - Window) : x = [toks |-> toks, lo |-> l]
      BY <1>3, <1>6
    <2>2. l \in Nat /\ m.lo <= l /\ (l = m.lo \/ l + 1 < Len(toks))
      BY <1>1, <1>2, <1>4, <1>6 DEF Most
    <2>3. x \in Memory
      BY <2>1, <2>2, <1>2 DEF Memory
    <2> QED
      BY <2>1, <2>2, <2>3, <1>1, <1>2, <1>6 DEF toks
  <1> QED
    BY <1>5, <1>6

SameState(c, d) == c.n = d.n /\ c.min = d.min /\ c.max = d.max /\ c.mem = d.mem

\* A task starts.
LEMMA StartFacts ==
    ASSUME PlaceInv, Start
    PROVE  /\ state = "idle" /\ state' = "prompt" /\ memory' = memory /\ task' \in Prompts
           /\ tokens' \in Seq(Token) /\ Len(tokens') = Kept
           /\ \A i \in 1..Kept : tokens'[i] = tokens[i] /\ tokens'[i] = task'[i]
           /\ mem' = CutBack(Resumed.mem, Kept) /\ mem' \in Memory
           /\ ckpts' \in Seq(Saved) /\ Len(ckpts') \in Nat /\ Len(ckpts') <= Len(ckpts)
           /\ \A i \in 1..Len(ckpts') : \E j \in 1..Len(ckpts) : SameState(ckpts'[i], ckpts[j]) /\ ckpts[j].max <= Resumed.next
  <1> DEFINE n == Common(tokens, task')
             kept == StillValid(Resumed.next)
  <1>1. state = "idle" /\ state' = "prompt" /\ memory' = memory /\ task' \in Prompts
    BY DEF Start
  <1>2. tokens' = SubSeq(tokens, 1, Kept) /\ mem' = CutBack(Resumed.mem, Kept)
    BY DEF Start, Kept
  <1>3. ckpts' = [i \in DOMAIN kept |-> [kept[i] EXCEPT !.own = FALSE]]
    BY DEF Start
  <1>4. /\ Kept \in Nat /\ Kept <= n /\ n \in Nat /\ n <= Len(tokens) /\ \A i \in 1..n : tokens[i] = task'[i]
        /\ Resumed.mem \in Memory /\ Resumed.next \in Nat
    BY <1>1, KeptFacts
  <1> HIDE DEF n
  <1>5. tokens \in Seq(Token) /\ ckpts \in Seq(Saved) /\ Len(tokens) \in Nat
    BY LenProperties DEF PlaceInv
  <1>6. tokens' \in Seq(Token) /\ Len(tokens') = Kept /\ \A i \in 1..Kept : tokens'[i] = tokens[i]
    BY <1>2, <1>4, <1>5, PrefixFacts
  <1>7. \A i \in 1..Kept : tokens'[i] = task'[i]
    BY <1>4, <1>6
  <1>8. mem' \in Memory
    BY <1>2, <1>4, CutFacts
  <1> DEFINE D == {c \in ToSet(ckpts) : c.max > Resumed.next}
  <1>9. kept = Drop(ckpts, D)
    BY DEF StillValid, Drop, Drop
  <1>10. PICK g : /\ Embeds(g, Drop(ckpts, D), ckpts)
                  /\ \A j \in 1..Len(Drop(ckpts, D)) : ckpts[g[j]] \notin D
    BY <1>5, DropPlaces
  <1>11. Drop(ckpts, D) \in Seq(Saved)
    BY <1>5, DropFacts
  <1>12. Len(kept) \in Nat /\ Len(kept) <= Len(ckpts) /\ DOMAIN kept = 1..Len(kept) /\ \A i \in 1..Len(kept) : kept[i] \in Saved
    BY <1>5, <1>9, <1>10, <1>11, EmbedsShorter, LenProperties, ElementOfSeq
  <1>13. \A i \in 1..Len(kept) : g[i] \in 1..Len(ckpts) /\ kept[i] = ckpts[g[i]] /\ ckpts[g[i]] \notin D
    BY <1>9, <1>10 DEF Embeds
  <1> HIDE DEF kept
  <1>14. ASSUME NEW c \in Saved PROVE [c EXCEPT !.own = FALSE] \in Saved /\ SameState([c EXCEPT !.own = FALSE], c)
    BY DEF Saved, SameState
  <1>15. ckpts' \in [1..Len(kept) -> Saved]
    BY <1>3, <1>12, <1>14
  <1>16. ckpts' \in Seq(Saved) /\ Len(ckpts') = Len(kept)
    BY <1>12, <1>15, FunctionIsSeq
  <1>17. ASSUME NEW i \in 1..Len(ckpts')
         PROVE  \E j \in 1..Len(ckpts) : SameState(ckpts'[i], ckpts[j]) /\ ckpts[j].max <= Resumed.next
    <2> DEFINE j == g[i]
    <2>1. j \in 1..Len(ckpts) /\ kept[i] = ckpts[j] /\ ckpts[j] \notin D /\ kept[i] \in Saved
      BY <1>12, <1>13, <1>16
    <2> HIDE DEF j
    <2>2. ckpts'[i] = [kept[i] EXCEPT !.own = FALSE]
      BY <1>3, <1>12, <1>16
    <2>3. SameState(ckpts'[i], ckpts[j])
      BY <2>1, <2>2, <1>14
    <2>4. ckpts[j] \in ToSet(ckpts)
      BY <2>1, <1>5, LenProperties DEF ToSet
    <2>5. ckpts[j].max \in Nat
      BY <2>1 DEF Saved
    <2> QED
      BY <2>1, <2>3, <2>4, <2>5, <1>4
  <1> QED
    BY <1>1, <1>2, <1>4, <1>5, <1>6, <1>7, <1>8, <1>12, <1>16, <1>17

\* A part of the prompt is decoded, up to some end, and a checkpoint may be taken.
LEMMA BatchFacts ==
    ASSUME PlaceInv, Batch
    PROVE  /\ state = "prompt" /\ memory' = memory /\ task' = task
           /\ ckpts' = ckpts \/ (mem.toks # <<>> /\ ckpts' = WithCheckpoint(Len(tokens)))
           /\ \E end \in Len(tokens) + 1..Len(task) :
                 /\ state' = IF end = Len(task) THEN "generate" ELSE "prompt"
                 /\ tokens' = SubSeq(task, 1, end)
                 /\ mem' \in Extended(mem, SubSeq(task, Len(tokens) + 1, end))
  <1>1. PICK room \in 1..NBatch :
            LET end == Filled(room)
            IN  /\ tokens' = SubSeq(task, 1, end)
                /\ ckpts' = IF WantsCheckpoint(Len(tokens), end) THEN WithCheckpoint(Len(tokens)) ELSE ckpts
                /\ mem' \in Extended(mem, SubSeq(task, Len(tokens) + 1, end))
                /\ state' = IF end = Len(task) THEN "generate" ELSE "prompt"
    BY DEF Batch
  <1>2. state = "prompt" /\ memory' = memory /\ task' = task
    BY DEF Batch
  <1> DEFINE end == Filled(room)
             T == {n \in Len(tokens) + 1..Len(task) : n = Len(task) \/ n = Len(tokens) + room \/ BreakAt(n)}
  <1>3. Len(tokens) \in Nat /\ Len(task) \in Nat /\ Len(tokens) < Len(task)
    BY <1>2, SlotParameters, LenProperties DEF PlaceInv
  <1>4. end = Min(T)
    BY DEF Filled, Min, Min
  <1>5. Len(task) \in T /\ T \subseteq 0..Len(task) /\ T \subseteq Len(tokens) + 1..Len(task)
    BY <1>3
  <1> HIDE DEF T
  <1>6. end \in Len(tokens) + 1..Len(task)
    BY <1>3, <1>4, <1>5, Extremes
  <1>7. ckpts' = ckpts \/ (mem.toks # <<>> /\ ckpts' = WithCheckpoint(Len(tokens)))
    BY <1>1 DEF WantsCheckpoint
  <1> HIDE DEF end
  <1>8. /\ tokens' = SubSeq(task, 1, end) /\ mem' \in Extended(mem, SubSeq(task, Len(tokens) + 1, end))
        /\ state' = IF end = Len(task) THEN "generate" ELSE "prompt"
    BY <1>1 DEF end
  <1> QED
    BY <1>2, <1>6, <1>7, <1>8

\* A part of a text, and the text up to its end.
LEMMA PartFacts ==
    ASSUME NEW S, NEW q \in Seq(S), NEW a \in Nat, NEW b \in a + 1..Len(q)
    PROVE  /\ SubSeq(q, a + 1, b) \in Seq(S) /\ Len(SubSeq(q, a + 1, b)) = b - a
           /\ \A i \in a + 1..b : SubSeq(q, a + 1, b)[i - a] = q[i]
           /\ SubSeq(q, 1, b) \in Seq(S) /\ Len(SubSeq(q, 1, b)) = b /\ \A i \in 1..b : SubSeq(q, 1, b)[i] = q[i]
  <1>1. b \in 0..Len(q) /\ Len(q) \in Nat /\ b \in Int /\ a + 1 \in Int
    BY LenProperties
  <1>2. \A i \in a + 1..b : q[i] \in S
    BY <1>1, ElementOfSeq
  <1>3. /\ SubSeq(q, a + 1, b) \in Seq(S) /\ Len(SubSeq(q, a + 1, b)) = b - a
        /\ \A i \in 1..b - (a + 1) + 1 : SubSeq(q, a + 1, b)[i] = q[a + 1 + i - 1]
    BY <1>1, <1>2, SubSeqProperties
  <1>4. ASSUME NEW i \in a + 1..b PROVE SubSeq(q, a + 1, b)[i - a] = q[i]
    <2>1. i - a \in 1..b - (a + 1) + 1 /\ a + 1 + (i - a) - 1 = i
      BY <1>1
    <2> QED
      BY <2>1, <1>3
  <1> QED
    BY <1>1, <1>3, <1>4, PrefixFacts

\* A checkpoint of the memory as it is.
LEMMA NewCheckpointFacts ==
    ASSUME PlaceInv, mem.toks # <<>>
    PROVE  LET c == NewCheckpoint(Len(tokens))
           IN  /\ c \in Saved /\ Len(mem.toks) \in Nat \ {0}
               /\ c.n = Len(tokens) /\ c.max = Len(mem.toks) - 1 /\ c.min = mem.lo /\ c.mem = mem
  <1>1. Len(mem.toks) \in Nat \ {0} /\ mem.lo \in Nat /\ Len(tokens) \in Nat /\ mem \in Memory
    BY EmptySeq, LenProperties DEF PlaceInv, Memory
  <1>2. NewCheckpoint(Len(tokens)) = [n |-> Len(tokens), min |-> mem.lo, max |-> Len(mem.toks) - 1, mem |-> mem, own |-> TRUE]
    BY DEF NewCheckpoint, PosMin, PosMax
  <1>3. Len(mem.toks) - 1 \in Nat
    BY <1>1
  <1>4. NewCheckpoint(Len(tokens)) \in Saved
    BY <1>1, <1>2, <1>3 DEF Saved
  <1> QED
    BY <1>1, <1>2, <1>4

\* At the beginning nothing is known.
LEMMA PlaceInit == ASSUME CheckpointInit PROVE PlaceInv
  <1>1. tokens = <<>> /\ ckpts = <<>> /\ mem = [toks |-> <<>>, lo |-> 0] /\ state = "idle" /\ task = <<>> /\ memory \in Memories
    BY DEF CheckpointInit, NoMem
  <1>2. tokens \in Seq(Token) /\ Len(tokens) = 0 /\ ckpts \in Seq(Saved) /\ mem.toks \in Seq(Token)
    BY <1>1, EmptySeq
  <1>3. mem \in Memory
    BY <1>1, <1>2 DEF Memory
  <1>4. MaxLen \in Nat
    BY <1>1, SlotParameters
  <1> QED
    BY <1>1, <1>2, <1>3, <1>4 DEF PlaceInv

\* Each step keeps the types and the place of the prompt.
LEMMA PlaceStep == ASSUME PlaceInv, [CheckpointNext]_checkpointVars PROVE PlaceInv'
  <1>0. Token' = Token /\ MaxLen \in Nat /\ Generated \subseteq Token
    BY SlotParameters DEF PlaceInv, Token, ToSet
  <1>1. tokens \in Seq(Token) /\ Len(tokens) \in Nat /\ Len(tokens) <= MaxLen /\ mem \in Memory /\ ckpts \in Seq(Saved)
    BY LenProperties DEF PlaceInv
  <1>2. Memory' = Memory /\ Saved' = Saved
    BY <1>0 DEF Memory, Saved
  <1>3. \A p \in Prompts : p \in Seq(Token) /\ Len(p) \in 1..MaxLen
    BY SlotParameters DEF PlaceInv
  <1>4. CASE Start
    <2>1. /\ state' = "prompt" /\ memory' = memory /\ task' \in Prompts
          /\ tokens' \in Seq(Token) /\ Len(tokens') = Kept /\ mem' \in Memory /\ ckpts' \in Seq(Saved)
          /\ \A i \in 1..Kept : tokens'[i] = task'[i]
      BY <1>4, StartFacts
    <2>2. Kept \in Nat /\ Kept < Len(task') /\ Kept <= MaxLen
      <3> DEFINE n == Common(tokens, task')
      <3>1. Kept \in 0..n /\ Kept < Len(task') /\ n \in Nat /\ n <= Len(tokens)
        BY <2>1, KeptFacts
      <3> HIDE DEF n
      <3> QED
        BY <3>1, <1>0, <1>1
    <2>3. memory' \in Memories
      BY <2>1 DEF PlaceInv
    <2> QED
      BY <1>0, <1>2, <2>1, <2>2, <2>3 DEF PlaceInv
  <1>5. CASE Batch
    <2>1. state = "prompt" /\ memory' = memory /\ task' = task
      BY <1>5, BatchFacts
    <2>2. PICK end \in Len(tokens) + 1..Len(task) :
             /\ state' = IF end = Len(task) THEN "generate" ELSE "prompt"
             /\ tokens' = SubSeq(task, 1, end)
             /\ mem' \in Extended(mem, SubSeq(task, Len(tokens) + 1, end))
      BY <1>5, BatchFacts
    <2>3. task \in Prompts /\ task \in Seq(Token) /\ Len(task) \in 1..MaxLen
      BY <1>3, <2>1 DEF PlaceInv
    <2> DEFINE s == SubSeq(task, Len(tokens) + 1, end)
    <2>4. /\ s \in Seq(Token) /\ Len(s) = end - Len(tokens)
          /\ tokens' \in Seq(Token) /\ Len(tokens') = end /\ \A i \in 1..end : tokens'[i] = task[i]
      BY <1>1, <2>2, <2>3, PartFacts
    <2> HIDE DEF s
    <2>5. mem' \in Memory
      <3>1. Len(s) > 0 /\ mem' \in Extended(mem, s)
        BY <1>1, <2>2, <2>3, <2>4 DEF s
      <3> QED
        BY <3>1, <1>1, <2>4, ExtendedFacts DEF PlaceInv
    <2>6. ckpts' \in Seq(Saved)
      <3>1. MaxCheckpoints \in Nat \ {0}
        BY SlotParameters DEF PlaceInv
      <3>2. CASE ckpts' = ckpts
        BY <3>2, <1>1
      <3>3. CASE mem.toks # <<>> /\ ckpts' = WithCheckpoint(Len(tokens))
        BY <3>1, <3>3, <1>1, NewCheckpointFacts, WithCheckpointFacts
      <3> QED
        BY <3>2, <3>3, <1>5, BatchFacts
    <2>7. memory' \in Memories /\ state' \in {"prompt", "generate"} /\ (state' = "prompt" => end < Len(task)) /\ end <= MaxLen
      <3>1. memory \in Memories
        BY DEF PlaceInv
      <3>2. Len(task) \in Nat /\ Len(task) <= MaxLen /\ end \in Nat /\ end <= Len(task) /\ MaxLen \in Nat
        BY <1>0, <1>1, <2>2, <2>3
      <3>3. end <= MaxLen /\ (end # Len(task) => end < Len(task))
        BY <3>2
      <3> QED
        BY <2>1, <2>2, <3>1, <3>3
    <2> QED
      BY <1>0, <1>2, <2>1, <2>2, <2>3, <2>4, <2>5, <2>6, <2>7 DEF PlaceInv
  <1>6. CASE Generate
    <2>1. /\ state = "generate" /\ Len(tokens) < MaxLen /\ memory' = memory /\ state' = state /\ task' = task /\ ckpts' = ckpts
          /\ \E t \in Generated : tokens' = Append(tokens, t) /\ mem' \in Extended(mem, <<t>>)
      BY <1>6 DEF Generate
    <2>2. PICK t \in Generated : tokens' = Append(tokens, t) /\ mem' \in Extended(mem, <<t>>)
      BY <2>1
    <2>3. t \in Token /\ <<t>> \in Seq(Token) /\ Len(<<t>>) > 0
      BY <1>0
    <2>4. tokens' \in Seq(Token) /\ Len(tokens') = Len(tokens) + 1
      BY <1>1, <2>2, <2>3, AppendProperties
    <2>5. mem' \in Memory
      BY <1>1, <2>2, <2>3, ExtendedFacts DEF PlaceInv
    <2>6. Len(tokens') <= MaxLen
      BY <1>0, <1>1, <2>1, <2>4
    <2>7. memory' \in Memories /\ state' = "generate" /\ task' \in Prompts
      BY <2>1 DEF PlaceInv
    <2> QED
      BY <1>0, <1>1, <1>2, <2>1, <2>4, <2>5, <2>6, <2>7 DEF PlaceInv
  <1>7. CASE Release
    <2>1. state' = "idle" /\ task' = <<>> /\ UNCHANGED <<memory, tokens, mem, ckpts>>
      BY <1>7 DEF Release
    <2> QED
      BY <1>0, <1>1, <1>2, <2>1 DEF PlaceInv
  <1>8. CASE UNCHANGED checkpointVars
    <2>1. UNCHANGED <<memory, state, task, tokens, mem, ckpts>>
      BY <1>8 DEF checkpointVars
    <2> QED
      BY <1>0, <1>2, <2>1 DEF PlaceInv
  <1> QED
    BY <1>4, <1>5, <1>6, <1>7, <1>8 DEF CheckpointNext

\* The slot's tokens are the beginning of its prompt, which is not all there.
LEMMA PlaceImplies == PlaceInv => SomethingToDecode
  <1> SUFFICES ASSUME PlaceInv, state = "prompt" PROVE Len(tokens) < Len(task) /\ IsPrefix(tokens, task)
    BY DEF SomethingToDecode
  <1>1. tokens \in Seq(Token) /\ task \in Seq(Token) /\ Len(tokens) \in Nat /\ Len(task) \in Nat
    BY SlotParameters, LenProperties DEF PlaceInv
  <1>2. Len(tokens) < Len(task) /\ \A i \in 1..Len(tokens) : tokens[i] = task[i]
    BY DEF PlaceInv
  <1>3. IsPrefix(tokens, task)
    BY <1>1, <1>2, PrefixTokens
  <1> QED
    BY <1>2, <1>3 DEF IsPrefix

(* Whatever a slot resumes from, its own memory or a checkpoint of any     *)
(* age, a prompt that is not decoded to its end has a token left to decode *)
(* and the slot holds exactly its beginning ([TAG_PROMPT_LOGITS]).         *)
THEOREM SlotsHaveSomethingToDecode == CheckpointSpec => []SomethingToDecode
  <1>1. CheckpointInit => PlaceInv
    BY PlaceInit
  <1>2. PlaceInv /\ [CheckpointNext]_checkpointVars => PlaceInv'
    BY PlaceStep
  <1>3. PlaceInv => SomethingToDecode
    BY PlaceImplies
  <1> QED
    BY <1>1, <1>2, <1>3, PTL DEF CheckpointSpec

(* What is there of a memory: a recurrent state has its last token, a      *)
(* window has at least its last cell.                                      *)
Sound(m, recurrent) ==
    IF m.toks = <<>> THEN m.lo = 0
    ELSE m.lo < Len(m.toks) /\ (recurrent => m.lo = Len(m.toks) - 1)

(* A checkpoint with a single position, which every recurrent state is,    *)
(* resumes behind it, any other one on its last position.                  *)
OneCell(c) == c.min = c.max
Checked(c) == IF OneCell(c) THEN c.n ELSE c.max

(* No checkpoint of a single position is left at the very position a       *)
(* prompt resumes from: where a checkpoint of this kind is, it was erased  *)
(* or has a smaller position.                                              *)
NoneBehind == \A c \in ToSet(ckpts) : OneCell(c) => c.max # Resumed.next

(* A saved memory is one of its first n tokens.                            *)
IsSaved(c, recurrent) ==
    /\ c.n = Len(c.mem.toks) /\ c.n \in 1..MaxLen /\ c.max = c.n - 1 /\ c.min = c.mem.lo
    /\ Sound(c.mem, recurrent)

(* As far as it is looked at, it is one of a text.                         *)
Follows(c, text, recurrent) ==
    \A i \in 1..Checked(c) : i <= Len(text) /\ (recurrent \/ i > c.min) => c.mem.toks[i] = text[i]

Reference == IF state = "prompt" THEN task ELSE tokens

(* The memory of the slot and of its checkpoints.                          *)
MemInv ==
    /\ Sound(mem, Recurrent) /\ MemoryOfPrompt
    /\ Len(ckpts) <= MaxCheckpoints
    /\ \A k \in 1..Len(ckpts) :
          /\ IsSaved(ckpts[k], Recurrent) /\ Follows(ckpts[k], Reference, Recurrent)
          /\ state # "idle" => Checked(ckpts[k]) <= Len(Reference)

\* What a prompt resumes from its own memory.
LEMMA StartFromMemory ==
    ASSUME PlaceInv, MemInv, Start, FromMemory(Common(tokens, task')) \/ FromNothing
    PROVE  Sound(mem', Recurrent) /\ Len(mem'.toks) = Kept /\ \A i \in 1..Kept : Recurrent \/ i > mem'.lo => mem'.toks[i] = tokens[i]
  <1> DEFINE n == Common(tokens, task')
             L == Len(mem.toks)
             W == Window
             T == Len(task')
  <1>1. /\ n \in Nat /\ n <= Len(tokens) /\ n <= T /\ Kept \in Nat /\ Kept < T
        /\ task' \in Prompts /\ mem' = CutBack(Resumed.mem, Kept)
    BY StartFacts, KeptFacts
  <1>2. /\ mem \in Memory /\ mem.toks \in Seq(Token) /\ mem.lo \in Nat /\ L \in Nat /\ (L = 0 <=> mem.toks = <<>>)
        /\ T \in 1..MaxLen /\ MaxLen \in Nat /\ W \in Nat /\ (Recurrent => W = 0) /\ (~ Recurrent => W > 1)
        /\ Recurrent \in BOOLEAN
    BY <1>1, SlotParameters, EmptySeq, LenProperties DEF PlaceInv, Memory
  <1>3. /\ L = Len(tokens) /\ (L = 0 => mem.lo = 0) /\ (L # 0 => mem.lo < L) /\ (Recurrent /\ L # 0 => mem.lo = L - 1)
        /\ \A i \in 1..L : Recurrent \/ i > mem.lo => mem.toks[i] = tokens[i]
    BY <1>2 DEF MemInv, Sound, MemoryOfPrompt
  <1>4. /\ Kept >= L => CutBack(mem, Kept) = mem
        /\ Kept < L /\ Recurrent => CutBack(mem, Kept) = IF Kept = 0 THEN [toks |-> <<>>, lo |-> 0] ELSE mem
        /\ Kept < L /\ ~ Recurrent =>
              CutBack(mem, Kept) = IF Kept <= mem.lo THEN [toks |-> <<>>, lo |-> 0]
                                   ELSE [toks |-> SubSeq(mem.toks, 1, Kept), lo |-> mem.lo]
    BY <1>1, <1>2, CutFacts
  <1>5. Resumed.mem = mem /\ (Kept = 0 \/ (n # 0 /\ Kept = (IF n = T THEN n - 1 ELSE n) /\ PosMin(mem) < Threshold(n)))
    <2>1. CASE FromNothing
      BY <2>1, <1>2 DEF FromNothing, Kept
    <2>2. CASE FromMemory(n) /\ n = 0
      BY <2>2, <1>2 DEF FromMemory, Kept
    <2>3. CASE FromMemory(n) /\ n # 0
      <3> HIDE DEF n
      <3> QED
        BY <2>3, <1>2 DEF FromMemory, Kept
    <2> QED
      BY <2>1, <2>2, <2>3
  <1> HIDE DEF n
  <1>6. [toks |-> <<>>, lo |-> 0].toks = <<>> /\ [toks |-> <<>>, lo |-> 0].lo = 0 /\ Len(<<>>) = 0
    OBVIOUS
  <1>7. CASE Kept = 0
    <2>1. mem' = IF L = 0 THEN mem ELSE [toks |-> <<>>, lo |-> 0]
      BY <1>1, <1>2, <1>4, <1>5, <1>7
    <2>2. mem'.toks = <<>> /\ mem'.lo = 0
      BY <2>1, <1>2, <1>3, <1>6
    <2> QED
      BY <2>2, <1>6, <1>7 DEF Sound
  <1>8. CASE Kept # 0
    <2>1. n # 0 /\ Kept = (IF n = T THEN n - 1 ELSE n) /\ L # 0
      BY <1>1, <1>2, <1>3, <1>5, <1>8
    <2>2. mem.lo < n - W - (IF n < T THEN 0 ELSE 1)
      <3>1. PosMin(mem) = mem.lo /\ mem.lo < Threshold(n)
        BY <1>2, <1>5, <2>1, <1>8 DEF PosMin
      <3> QED
        BY <3>1, <1>1, <1>2 DEF Threshold, Most
    <2>3. CASE Recurrent
      <3>1. Kept = L /\ mem' = mem
        BY <2>1, <2>2, <2>3, <1>1, <1>2, <1>3, <1>4, <1>5
      <3> QED
        BY <3>1, <1>2, <1>3 DEF MemInv, Sound
    <2>4. CASE ~ Recurrent /\ Kept >= L
      <3>1. Kept = L /\ mem' = mem
        BY <2>1, <2>4, <1>1, <1>2, <1>3, <1>4, <1>5
      <3> QED
        BY <3>1, <1>2, <1>3 DEF MemInv, Sound
    <2>5. CASE ~ Recurrent /\ Kept < L
      <3>1. mem.lo < Kept
        BY <2>1, <2>2, <2>5, <1>1, <1>2
      <3>2. mem'.toks = SubSeq(mem.toks, 1, Kept) /\ mem'.lo = mem.lo
        BY <3>1, <2>5, <1>1, <1>2, <1>4, <1>5
      <3>3. Len(mem'.toks) = Kept /\ mem'.toks # <<>> /\ \A i \in 1..Kept : mem'.toks[i] = mem.toks[i]
        BY <3>2, <2>5, <1>1, <1>2, <1>6, <1>8, PrefixFacts
      <3>4. Sound(mem', Recurrent)
        BY <3>1, <3>2, <3>3, <2>5 DEF Sound
      <3>5. \A i \in 1..Kept : i \in 1..L
        BY <2>5, <1>1, <1>2
      <3> QED
        BY <3>2, <3>3, <3>4, <3>5, <1>3
    <2> QED
      BY <2>3, <2>4, <2>5, <1>1, <1>2
  <1> QED
    BY <1>7, <1>8

\* Where a checkpoint of more than one position resumes.
LEMMA PastOfSaved ==
    ASSUME NEW n \in Nat, NEW t \in Nat, n <= t, NEW a \in Nat, NEW b \in Nat, a < b, b <= n
    PROVE  Least(n, Most(a + 1, b)) = b /\ Least(Least(b, t), b + 1) = b
  <1>1. Most(a + 1, b) = b
    BY DEF Most
  <1>2. Least(n, b) = b /\ Least(b, t) = b /\ Least(b, b + 1) = b
    BY DEF Least
  <1> QED
    BY <1>1, <1>2

\* Where a checkpoint of a single position resumes, if another token is behind it.
LEMMA PastOfOne ==
    ASSUME NEW n \in Nat, NEW t \in Nat, n <= t, NEW a \in Nat, a <= n, a # Least(n, Most(a + 1, a))
    PROVE  a + 1 <= n /\ Least(n, Most(a + 1, a)) = a + 1 /\ Least(Least(a + 1, t), a + 1) = a + 1
  <1>1. Most(a + 1, a) = a + 1
    BY DEF Most
  <1>2. a # n
    BY <1>1 DEF Least
  <1>3. Least(n, a + 1) = a + 1 /\ Least(a + 1, t) = a + 1 /\ Least(a + 1, a + 1) = a + 1
    BY <1>2 DEF Least
  <1> QED
    BY <1>1, <1>2, <1>3

\* What a prompt resumes from a checkpoint.
LEMMA StartFromSaved ==
    ASSUME PlaceInv, MemInv, Start, NoneBehind, NEW k \in 1..Len(ckpts), FromSaved(Common(tokens, task'), ckpts[k])
    PROVE  Sound(mem', Recurrent) /\ Len(mem'.toks) = Kept /\ \A i \in 1..Kept : Recurrent \/ i > mem'.lo => mem'.toks[i] = tokens[i]
  <1> DEFINE n == Common(tokens, task')
             c == ckpts[k]
             m == c.mem
             W == Window
             T == Len(task')
  <1>1. /\ n \in Nat /\ n <= Len(tokens) /\ n <= T /\ Kept \in Nat /\ Kept < T
        /\ task' \in Prompts /\ mem' = CutBack(Resumed.mem, Kept) /\ state = "idle"
    BY StartFacts, KeptFacts
  <1>2. /\ tokens \in Seq(Token) /\ Len(tokens) \in Nat /\ ckpts \in Seq(Saved)
        /\ T \in 1..MaxLen /\ MaxLen \in Nat /\ W \in Nat /\ (Recurrent => W = 0) /\ (~ Recurrent => W > 1)
        /\ Recurrent \in BOOLEAN
    BY <1>1, SlotParameters, LenProperties DEF PlaceInv
  <1>3. c \in Saved /\ IsSaved(c, Recurrent) /\ Follows(c, tokens, Recurrent) /\ c \in ToSet(ckpts)
    <2>1. c \in Saved /\ DOMAIN ckpts = 1..Len(ckpts)
      BY <1>2, ElementOfSeq, LenProperties
    <2>2. Reference = tokens
      BY <1>1 DEF Reference
    <2> QED
      BY <2>1, <2>2 DEF MemInv, ToSet
  <1>4. OneCell(c) => c.max # Resumed.next
    BY <1>3 DEF NoneBehind
  <1>5. /\ n # 0 /\ c.max <= n /\ (c.min < Threshold(n) \/ c.min = 0)
        /\ Resumed.next = Least(n, Most(c.min + 1, c.max)) /\ Resumed.mem = m
        /\ Resumed.past = Least(Least(Resumed.next, Len(tokens)), c.n)
    BY DEF FromSaved, Usable, NextPos
  <1> HIDE DEF n, c
  <1>6. /\ m \in Memory /\ m.toks \in Seq(Token) /\ m.lo \in Nat /\ Len(m.toks) = c.n /\ c.n \in Nat \ {0} /\ m.toks # <<>>
        /\ c.max = c.n - 1 /\ c.min = m.lo /\ m.lo < c.n /\ (Recurrent => m.lo = c.n - 1) /\ c.min \in Nat /\ c.max \in Nat
    <2>1. m \in Memory /\ c.min \in Nat /\ c.max \in Nat
      BY <1>3 DEF Saved
    <2>2. m.toks \in Seq(Token) /\ m.lo \in Nat
      BY <2>1 DEF Memory
    <2>3. c.n = Len(m.toks) /\ c.n \in 1..MaxLen /\ c.max = c.n - 1 /\ c.min = m.lo /\ Sound(m, Recurrent)
      BY <1>3 DEF IsSaved
    <2>4. m.toks # <<>>
      BY <1>2, <2>3, EmptySeq
    <2> HIDE DEF m
    <2>5. c.n \in Nat \ {0} /\ m.lo < c.n /\ (Recurrent => m.lo = c.n - 1)
      BY <1>2, <2>3, <2>4 DEF Sound
    <2> QED
      BY <2>1, <2>2, <2>3, <2>4, <2>5
  <1>7. /\ Kept >= c.n => CutBack(m, Kept) = m
        /\ Kept < c.n /\ Recurrent => CutBack(m, Kept) = IF Kept = 0 THEN [toks |-> <<>>, lo |-> 0] ELSE m
        /\ Kept < c.n /\ ~ Recurrent =>
              CutBack(m, Kept) = IF Kept <= m.lo THEN [toks |-> <<>>, lo |-> 0]
                                 ELSE [toks |-> SubSeq(m.toks, 1, Kept), lo |-> m.lo]
    BY <1>1, <1>6, CutFacts
  <1>8. \A i \in 1..Checked(c) : i <= Len(tokens) /\ (Recurrent \/ i > m.lo) => m.toks[i] = tokens[i]
    BY <1>3, <1>6 DEF Follows
  <1>9. [toks |-> <<>>, lo |-> 0].toks = <<>> /\ [toks |-> <<>>, lo |-> 0].lo = 0 /\ Len(<<>>) = 0
    OBVIOUS
  <1>10. Kept = IF Resumed.past = T THEN Resumed.past - 1 ELSE Resumed.past
    BY DEF Kept
  <1>11. c.min = 0 \/ c.min < n - W - (IF n < T THEN 0 ELSE 1)
    <2> DEFINE x == n - W - (IF n < T THEN 0 ELSE 1)
    <2>1. x \in Int /\ c.min \in Nat
      BY <1>1, <1>2, <1>6
    <2>2. c.min < Most(0, x) \/ c.min = 0
      BY <1>5 DEF Threshold
    <2> HIDE DEF x
    <2>3. c.min = 0 \/ c.min < x
      BY <2>1, <2>2 DEF Most
    <2> QED
      BY <2>3 DEF x
  <1>12. mem' = CutBack(m, Kept)
    BY <1>1, <1>5
  <1> DEFINE past == Resumed.past
             next == Resumed.next
  <1> HIDE DEF m, W, T, past, next
  <1>13. next = (IF n < (IF c.min + 1 < c.max THEN c.max ELSE c.min + 1) THEN n ELSE IF c.min + 1 < c.max THEN c.max ELSE c.min + 1)
    BY <1>5 DEF Least, Most, next
  <1>14. past = IF (IF next < Len(tokens) THEN next ELSE Len(tokens)) < c.n
                THEN (IF next < Len(tokens) THEN next ELSE Len(tokens)) ELSE c.n
    BY <1>5 DEF Least, past, next
  <1>15. CASE c.min = c.max
    <2>1. next = c.n /\ past = c.n /\ c.n <= n
      <3>1. c.max # next
        BY <1>4, <1>15 DEF OneCell, next
      <3> QED
        <4>1. PICK a \in Nat : a = c.min /\ a = c.max /\ a <= n /\ c.n = a + 1
          BY <1>1, <1>2, <1>5, <1>6, <1>15
        <4>2. n \in Nat /\ Len(tokens) \in Nat /\ n <= Len(tokens)
          BY <1>1, <1>2
        <4>3. next = Least(n, Most(a + 1, a)) /\ past = Least(Least(next, Len(tokens)), a + 1)
          BY <4>1, <1>5 DEF next, past
        <4>4. a # Least(n, Most(a + 1, a))
          BY <3>1, <4>1, <4>3
        <4>5. /\ a + 1 <= n /\ Least(n, Most(a + 1, a)) = a + 1
              /\ Least(Least(a + 1, Len(tokens)), a + 1) = a + 1
          BY <4>1, <4>2, <4>4, PastOfOne
        <4>6. next = a + 1 /\ past = a + 1
          BY <4>3, <4>5
        <4> QED
          BY <4>1, <4>5, <4>6
    <2>2. Checked(c) = c.n
      BY <1>15 DEF Checked, OneCell
    <2>3. CASE past # T
      <3>1. Kept = c.n /\ mem' = m
        BY <2>1, <2>3, <1>6, <1>7, <1>10, <1>12 DEF past
      <3>2. Sound(mem', Recurrent)
        BY <3>1, <1>6 DEF Sound
      <3>3. \A i \in 1..c.n : i <= Len(tokens)
        BY <2>1, <1>1, <1>2, <1>6
      <3> QED
        BY <3>1, <3>2, <3>3, <2>2, <1>6, <1>8
    <2>4. CASE past = T
      <3>1. n = T /\ c.n = n /\ Kept = c.n - 1
        BY <2>1, <2>4, <1>1, <1>2, <1>6, <1>10 DEF past
      <3>2. c.n = 1 /\ Kept = 0
        BY <3>1, <1>2, <1>6, <1>11, <1>15
      <3>3. mem' = [toks |-> <<>>, lo |-> 0]
        BY <3>2, <1>2, <1>6, <1>7, <1>12
      <3>4. mem'.toks = <<>> /\ mem'.lo = 0
        BY <3>3, <1>9
      <3> QED
        BY <3>2, <3>4, <1>9 DEF Sound
    <2> QED
      BY <2>3, <2>4
  <1>16. CASE c.min # c.max
    <2>1. ~ Recurrent /\ c.min < c.max
      BY <1>2, <1>6, <1>16
    <2>2. next = c.max /\ past = c.max
      <3>1. c.max \in Nat /\ c.min \in Nat /\ n \in Nat /\ Len(tokens) \in Nat /\ n <= Len(tokens) /\ c.n = c.max + 1 /\ c.max <= n
        BY <1>1, <1>2, <1>5, <1>6
      <3>2. next = Least(n, Most(c.min + 1, c.max)) /\ past = Least(Least(next, Len(tokens)), c.n)
        BY <1>5 DEF next, past
      <3> QED
        BY <3>1, <3>2, <2>1, PastOfSaved
    <2>3. Checked(c) = c.max
      BY <1>16 DEF Checked, OneCell
    <2>4. Kept = 0 \/ m.lo < Kept
      <3>1. CASE past # T
        BY <3>1, <2>1, <2>2, <1>6, <1>10 DEF past
      <3>2. CASE past = T
        <4>1. n = T /\ c.max = n /\ Kept = n - 1
          <5>1. c.max = T /\ Kept = T - 1
            BY <3>2, <2>2, <1>10 DEF past
          <5>2. n \in Nat /\ T \in Nat /\ n <= T /\ c.max <= n /\ c.max \in Nat
            BY <1>1, <1>2, <1>5, <1>6
          <5> QED
            BY <5>1, <5>2
        <4>2. n \in Nat /\ c.min \in Nat /\ m.lo = c.min /\ W \in Nat /\ W > 1 /\ ~ (n < T)
          BY <4>1, <2>1, <1>1, <1>2, <1>6
        <4>3. c.min = 0 \/ c.min < n - W - 1
          BY <4>2, <1>11
        <4> QED
          BY <4>1, <4>2, <4>3, <1>1
      <3> QED
        BY <3>1, <3>2
    <2>5. Kept < c.n /\ Kept <= c.max
      BY <2>2, <1>6, <1>10 DEF past
    <2>6. CASE Kept = 0
      <3>1. mem' = [toks |-> <<>>, lo |-> 0]
        BY <2>1, <2>5, <2>6, <1>6, <1>7, <1>12
      <3>2. mem'.toks = <<>> /\ mem'.lo = 0
        BY <3>1, <1>9
      <3> QED
        BY <2>6, <3>2, <1>9 DEF Sound
    <2>7. CASE Kept # 0
      <3>1. m.lo < Kept
        BY <2>4, <2>7
      <3>2. mem' = [toks |-> SubSeq(m.toks, 1, Kept), lo |-> m.lo]
        BY <3>1, <2>1, <2>5, <1>1, <1>6, <1>7, <1>12
      <3>3. mem'.toks = SubSeq(m.toks, 1, Kept) /\ mem'.lo = m.lo
        BY <3>2
      <3>4. Len(mem'.toks) = Kept /\ mem'.toks # <<>> /\ \A i \in 1..Kept : mem'.toks[i] = m.toks[i]
        <4>1. Kept \in 0..Len(m.toks) /\ m.toks \in Seq(Token)
          BY <2>5, <1>1, <1>6
        <4>2. Len(mem'.toks) = Kept /\ \A i \in 1..Kept : mem'.toks[i] = m.toks[i]
          BY <3>3, <4>1, PrefixFacts
        <4> QED
          BY <4>2, <2>7, <1>9
      <3>5. Sound(mem', Recurrent)
        BY <3>1, <3>3, <3>4, <2>1 DEF Sound
      <3>6. \A i \in 1..Kept : i \in 1..Checked(c) /\ i <= Len(tokens)
        <4>1. c.max \in Nat /\ c.max <= n /\ n \in Nat /\ n <= Len(tokens) /\ Len(tokens) \in Nat /\ Kept \in Nat
          BY <1>1, <1>2, <1>5, <1>6
        <4> QED
          BY <4>1, <2>3, <2>5
      <3> QED
        BY <3>3, <3>4, <3>5, <3>6, <1>8
    <2> QED
      BY <2>6, <2>7
  <1> QED
    BY <1>15, <1>16

\* The kind of memory stays as it is.
LEMMA SameMemory == ASSUME memory' = memory PROVE Recurrent' = Recurrent /\ MaxCheckpoints' = MaxCheckpoints
  BY DEF Recurrent, MaxCheckpoints

\* A new task keeps what is behind neither its new position nor its tokens.
LEMMA StartMem == ASSUME PlaceInv, MemInv, Start, NoneBehind PROVE MemInv'
  <1> DEFINE n == Common(tokens, task')
  <1>1. /\ state = "idle" /\ state' = "prompt" /\ memory' = memory /\ task' \in Prompts
        /\ Len(tokens') = Kept /\ \A i \in 1..Kept : tokens'[i] = tokens[i]
        /\ ckpts' \in Seq(Saved) /\ Len(ckpts') \in Nat /\ Len(ckpts') <= Len(ckpts)
        /\ \A i \in 1..Len(ckpts') : \E j \in 1..Len(ckpts) : SameState(ckpts'[i], ckpts[j]) /\ ckpts[j].max <= Resumed.next
    BY StartFacts
  <1>2. Sound(mem', Recurrent) /\ Len(mem'.toks) = Kept /\ \A i \in 1..Kept : Recurrent \/ i > mem'.lo => mem'.toks[i] = tokens[i]
    <2>1. FromMemory(n) \/ FromNothing \/ \E i \in 1..Len(ckpts) : FromSaved(n, ckpts[i])
      BY <1>1, ResumedFrom
    <2>2. CASE FromMemory(n) \/ FromNothing
      BY <2>2, StartFromMemory
    <2>3. ASSUME NEW i \in 1..Len(ckpts), FromSaved(n, ckpts[i]) PROVE <1>2
      BY <2>3, StartFromSaved
    <2> QED
      BY <2>1, <2>2, <2>3
  <1>3. Sound(mem', Recurrent') /\ MemoryOfPrompt'
    BY <1>1, <1>2, SameMemory DEF MemoryOfPrompt
  <1>4. /\ n \in Nat /\ n <= Len(tokens) /\ n <= Len(task') /\ \A i \in 1..n : tokens[i] = task'[i]
        /\ Resumed.next \in 0..n /\ Len(task') \in Nat /\ Len(tokens) \in Nat
    BY <1>1, KeptFacts, SlotParameters, LenProperties DEF PlaceInv
  <1> HIDE DEF n
  <1>5. ASSUME NEW i \in 1..Len(ckpts')
        PROVE  /\ IsSaved(ckpts'[i], Recurrent) /\ Follows(ckpts'[i], task', Recurrent) /\ Checked(ckpts'[i]) <= Len(task')
    <2>1. PICK j \in 1..Len(ckpts) : SameState(ckpts'[i], ckpts[j]) /\ ckpts[j].max <= Resumed.next
      BY <1>1
    <2> DEFINE d == ckpts'[i]
               c == ckpts[j]
    <2>2. d.n = c.n /\ d.min = c.min /\ d.max = c.max /\ d.mem = c.mem /\ c.max <= Resumed.next
      BY <2>1 DEF SameState
    <2>3. IsSaved(c, Recurrent) /\ Follows(c, tokens, Recurrent)
      BY <1>1 DEF MemInv, Reference
    <2>4. OneCell(c) => c.max # Resumed.next
      <3>1. ckpts \in Seq(Saved)
        BY DEF PlaceInv
      <3>2. c \in ToSet(ckpts)
        BY <3>1, LenProperties DEF ToSet
      <3> QED
        BY <3>2 DEF NoneBehind
    <2> HIDE DEF d, c
    <2>5. IsSaved(d, Recurrent) /\ Checked(d) = Checked(c)
      BY <2>2, <2>3 DEF IsSaved, Checked, OneCell
    <2>6. Checked(c) \in Nat /\ Checked(c) <= n
      <3>1. c.n \in Nat \ {0} /\ c.max = c.n - 1
        <4>1. MaxLen \in Nat
          BY SlotParameters DEF PlaceInv
        <4>2. c.n \in 1..MaxLen /\ c.max = c.n - 1
          BY <2>3 DEF IsSaved
        <4> QED
          BY <4>1, <4>2
      <3>2. c.max <= Resumed.next /\ Resumed.next \in 0..n /\ n \in Nat
        BY <2>2, <1>4
      <3>3. OneCell(c) => c.n <= n
        BY <3>1, <3>2, <2>4
      <3>4. (Checked(c) = c.n /\ c.n <= n) \/ Checked(c) = c.max
        BY <3>3 DEF Checked
      <3> QED
        BY <3>1, <3>2, <3>4
    <2>7. \A k \in 1..Checked(c) : Recurrent \/ k > c.min => c.mem.toks[k] = tokens[k]
      BY <2>3, <2>6, <1>4 DEF Follows
    <2>8. \A k \in 1..Checked(c) : tokens[k] = task'[k]
      BY <2>6, <1>4
    <2>9. Follows(d, task', Recurrent)
      BY <2>2, <2>5, <2>7, <2>8 DEF Follows
    <2>11. Checked(d) <= Len(task')
      BY <2>5, <2>6, <1>4
    <2> QED
      BY <2>5, <2>9, <2>11 DEF d
  <1>6. Reference' = task'
    BY <1>1 DEF Reference
  <1>7. Len(ckpts') <= MaxCheckpoints'
    <2>1. MaxCheckpoints \in Nat /\ Len(ckpts) \in Nat /\ Len(ckpts) <= MaxCheckpoints
      BY SlotParameters, LenProperties DEF PlaceInv, MemInv
    <2> QED
      BY <2>1, <1>1, SameMemory
  <1> QED
    BY <1>1, <1>3, <1>5, <1>6, <1>7, SameMemory DEF MemInv

\* What is decoded is added to the memory as it is to the tokens.
LEMMA Decoded ==
    ASSUME PlaceInv, MemInv, NEW s \in Seq(Token), Len(s) > 0, mem' \in Extended(mem, s),
           Len(tokens') = Len(tokens) + Len(s),
           \A i \in 1..Len(tokens) : tokens'[i] = tokens[i],
           \A i \in 1..Len(s) : tokens'[Len(tokens) + i] = s[i]
    PROVE  Sound(mem', Recurrent) /\ Len(mem'.toks) = Len(tokens')
           /\ \A i \in 1..Len(tokens') : Recurrent \/ i > mem'.lo => mem'.toks[i] = tokens'[i]
  <1>1. /\ mem \in Memory /\ mem.toks \in Seq(Token) /\ mem.lo \in Nat /\ Len(mem.toks) \in Nat /\ Len(tokens) \in Nat /\ Len(s) \in Nat
        /\ Len(mem.toks) = Len(tokens)
    BY LenProperties DEF PlaceInv, Memory, MemInv, MemoryOfPrompt
  <1>2. /\ mem' \in Memory /\ mem'.toks = mem.toks \o s /\ Len(mem'.toks) = Len(mem.toks) + Len(s)
        /\ Recurrent => mem'.lo = Len(mem'.toks) - 1
        /\ ~ Recurrent => mem.lo <= mem'.lo /\ (mem'.lo = mem.lo \/ mem'.lo + 1 < Len(mem'.toks))
    BY <1>1, ExtendedFacts DEF PlaceInv
  <1>3. mem'.lo \in Nat /\ Len(mem'.toks) > 0 /\ Len(mem'.toks) \in Nat /\ mem'.toks # <<>> /\ Recurrent \in BOOLEAN
    <2>1. mem'.lo \in Nat /\ mem'.toks \in Seq(Token)
      BY <1>2 DEF Memory
    <2>2. Len(mem'.toks) > 0 /\ Len(mem'.toks) \in Nat
      BY <1>1, <1>2
    <2> QED
      BY <2>1, <2>2, EmptySeq, SlotParameters DEF PlaceInv
  <1>4. mem.lo = 0 \/ mem.lo < Len(mem.toks)
    BY DEF MemInv, Sound
  <1>5. mem'.lo < Len(mem'.toks)
    BY <1>1, <1>2, <1>3, <1>4
  <1>6. Sound(mem', Recurrent)
    BY <1>2, <1>3, <1>5 DEF Sound
  <1>7. ASSUME NEW i \in 1..Len(tokens'), Recurrent \/ i > mem'.lo PROVE mem'.toks[i] = tokens'[i]
    <2>1. mem'.toks[i] = IF i <= Len(mem.toks) THEN mem.toks[i] ELSE s[i - Len(mem.toks)]
      <3>1. i \in 1..Len(mem.toks) + Len(s)
        BY <1>1
      <3> QED
        BY <3>1, <1>1, <1>2, ConcatProperties
    <2>2. CASE i <= Len(mem.toks)
      <3>1. Recurrent \/ i > mem.lo
        BY <1>1, <1>2, <1>3, <1>7
      <3>2. i \in 1..Len(tokens)
        BY <2>2, <1>1
      <3> QED
        BY <3>1, <3>2, <2>1, <2>2 DEF MemInv, MemoryOfPrompt
    <2>3. CASE i > Len(mem.toks)
      <3> DEFINE j == i - Len(mem.toks)
      <3>1. j \in 1..Len(s) /\ i = Len(tokens) + j
        BY <2>3, <1>1
      <3>2. mem'.toks[i] = s[j]
        BY <2>1, <2>3, <1>1
      <3> QED
        BY <3>1, <3>2
    <2> QED
      BY <2>2, <2>3, <1>1
  <1> QED
    BY <1>1, <1>2, <1>6, <1>7

\* A list whose elements are in a set.
LEMMA SeqOfSubset ==
    ASSUME NEW S, NEW q \in Seq(S), NEW A, \A i \in 1..Len(q) : q[i] \in A
    PROVE  q \in Seq(A)
  <1>1. Len(q) \in Nat /\ q \in [1..Len(q) -> A]
    BY LenProperties
  <1> QED
    BY <1>1, FunctionIsSeq

\* A checkpoint is taken of a memory of the prompt.
LEMMA BatchMem == ASSUME PlaceInv, MemInv, Batch PROVE MemInv'
  <1>1. /\ state = "prompt" /\ memory' = memory /\ task' = task
        /\ ckpts' = ckpts \/ (mem.toks # <<>> /\ ckpts' = WithCheckpoint(Len(tokens)))
    BY BatchFacts
  <1>2. PICK end \in Len(tokens) + 1..Len(task) :
           /\ state' = IF end = Len(task) THEN "generate" ELSE "prompt"
           /\ tokens' = SubSeq(task, 1, end)
           /\ mem' \in Extended(mem, SubSeq(task, Len(tokens) + 1, end))
    BY BatchFacts
  <1>3. /\ tokens \in Seq(Token) /\ task \in Seq(Token) /\ Len(tokens) \in Nat /\ Len(task) \in Nat
        /\ Len(tokens) < Len(task) /\ \A i \in 1..Len(tokens) : tokens[i] = task[i]
        /\ ckpts \in Seq(Saved) /\ Len(tokens) <= MaxLen /\ MaxLen \in Nat
        /\ MaxCheckpoints \in Nat \ {0}
    BY <1>1, SlotParameters, LenProperties DEF PlaceInv
  <1> DEFINE s == SubSeq(task, Len(tokens) + 1, end)
  <1>4. /\ s \in Seq(Token) /\ Len(s) = end - Len(tokens) /\ \A i \in Len(tokens) + 1..end : s[i - Len(tokens)] = task[i]
        /\ tokens' \in Seq(Token) /\ Len(tokens') = end /\ \A i \in 1..end : tokens'[i] = task[i]
    BY <1>2, <1>3, PartFacts
  <1>5. mem' \in Extended(mem, s)
    BY <1>2
  <1> HIDE DEF s
  <1>6. /\ Len(s) > 0 /\ Len(tokens') = Len(tokens) + Len(s)
        /\ \A i \in 1..Len(tokens) : tokens'[i] = tokens[i]
    BY <1>2, <1>3, <1>4
  <1>7. \A i \in 1..Len(s) : tokens'[Len(tokens) + i] = s[i]
    <2> SUFFICES ASSUME NEW i \in 1..Len(s) PROVE tokens'[Len(tokens) + i] = s[i]
      OBVIOUS
    <2> DEFINE j == Len(tokens) + i
    <2>1. j \in Len(tokens) + 1..end /\ j \in 1..end /\ j - Len(tokens) = i
      BY <1>2, <1>3, <1>4
    <2> HIDE DEF j
    <2>2. tokens'[j] = task[j] /\ s[j - Len(tokens)] = task[j]
      BY <2>1, <1>4
    <2> QED
      BY <2>1, <2>2 DEF j
  <1>8. Sound(mem', Recurrent) /\ Len(mem'.toks) = Len(tokens')
        /\ \A i \in 1..Len(tokens') : Recurrent \/ i > mem'.lo => mem'.toks[i] = tokens'[i]
    BY <1>4, <1>5, <1>6, <1>7, Decoded
  <1> DEFINE Good(c) == /\ IsSaved(c, Recurrent) /\ Follows(c, task, Recurrent)
                        /\ Checked(c) <= Len(task)
             A == {c \in Saved : Good(c)}
  <1>9. ASSUME NEW i \in 1..Len(ckpts) PROVE ckpts[i] \in A
    <2>1. ckpts[i] \in Saved
      BY <1>3, ElementOfSeq
    <2>2. Reference = task
      BY <1>1 DEF Reference
    <2> QED
      BY <2>1, <2>2, <1>1 DEF MemInv
  <1>10. mem.toks # <<>> => NewCheckpoint(Len(tokens)) \in A
    <2> SUFFICES ASSUME mem.toks # <<>> PROVE NewCheckpoint(Len(tokens)) \in A
      OBVIOUS
    <2> DEFINE c == NewCheckpoint(Len(tokens))
    <2>1. /\ c \in Saved /\ Len(mem.toks) \in Nat \ {0} /\ Len(mem.toks) = Len(tokens)
          /\ c.n = Len(tokens) /\ c.max = Len(mem.toks) - 1 /\ c.min = mem.lo /\ c.mem = mem
      BY NewCheckpointFacts DEF MemInv, MemoryOfPrompt
    <2> HIDE DEF c
    <2>2. IsSaved(c, Recurrent)
      BY <2>1, <1>3 DEF IsSaved, MemInv
    <2>3. Checked(c) \in Nat /\ Checked(c) <= Len(tokens)
      BY <2>1, <1>3 DEF Checked
    <2>4. \A i \in 1..Len(tokens) : Recurrent \/ i > mem.lo => mem.toks[i] = task[i]
      BY <1>3 DEF MemInv, MemoryOfPrompt
    <2>5. Follows(c, task, Recurrent)
      BY <2>1, <2>3, <2>4, <1>3 DEF Follows
    <2> QED
      BY <2>1, <2>2, <2>3, <2>5, <1>3 DEF c
  <1>11. ckpts \in Seq(A) /\ Len(ckpts) \in Nat /\ Len(ckpts) <= MaxCheckpoints
    <2> HIDE DEF A
    <2> QED
      BY <1>3, <1>9, SeqOfSubset, LenProperties DEF MemInv
  <1>12. ckpts' \in Seq(A) /\ Len(ckpts') <= MaxCheckpoints
    <2> HIDE DEF A
    <2>1. CASE ckpts' = ckpts
      BY <2>1, <1>11
    <2>2. CASE mem.toks # <<>> /\ ckpts' = WithCheckpoint(Len(tokens))
      BY <2>2, <1>3, <1>10, <1>11, WithCheckpointFacts
    <2> QED
      BY <2>1, <2>2, <1>1
  <1>13. \A i \in 1..Len(ckpts') : Good(ckpts'[i])
    <2>1. ASSUME NEW i \in 1..Len(ckpts') PROVE ckpts'[i] \in A
      <3> HIDE DEF A
      <3> QED
        BY <1>12, ElementOfSeq
    <2> HIDE DEF Good
    <2> QED
      BY <2>1
  <1>14. tokens' = task \/ state' = "prompt"
    <2> SUFFICES ASSUME end = Len(task) PROVE tokens' = task
      BY <1>2
    <2> QED
      BY <1>2, <1>3, SubSeqFull
  <1>15. Reference' = task
    BY <1>1, <1>2, <1>14 DEF Reference
  <1> QED
    BY <1>1, <1>8, <1>12, <1>13, <1>15, SameMemory DEF MemInv, MemoryOfPrompt

\* A generated token is behind every checkpoint.
LEMMA GenerateMem == ASSUME PlaceInv, MemInv, Generate PROVE MemInv'
  <1>1. /\ state = "generate" /\ memory' = memory /\ state' = state /\ task' = task /\ ckpts' = ckpts
        /\ \E t \in Generated : tokens' = Append(tokens, t) /\ mem' \in Extended(mem, <<t>>)
    BY DEF Generate
  <1>2. PICK t \in Generated : tokens' = Append(tokens, t) /\ mem' \in Extended(mem, <<t>>)
    BY <1>1
  <1>3. /\ t \in Token /\ <<t>> \in Seq(Token) /\ Len(<<t>>) = 1 /\ <<t>>[1] = t
        /\ tokens \in Seq(Token) /\ Len(tokens) \in Nat
    BY SlotParameters, LenProperties DEF PlaceInv
  <1>4. /\ Len(tokens') = Len(tokens) + 1 /\ tokens'[Len(tokens) + 1] = t
        /\ \A i \in 1..Len(tokens) : tokens'[i] = tokens[i]
    BY <1>2, <1>3, AppendProperties
  <1> DEFINE s == <<t>>
  <1>5. /\ s \in Seq(Token) /\ Len(s) > 0 /\ mem' \in Extended(mem, s) /\ Len(tokens') = Len(tokens) + Len(s)
        /\ \A i \in 1..Len(s) : tokens'[Len(tokens) + i] = s[i]
    BY <1>2, <1>3, <1>4
  <1> HIDE DEF s
  <1>6. Sound(mem', Recurrent) /\ Len(mem'.toks) = Len(tokens')
        /\ \A i \in 1..Len(tokens') : Recurrent \/ i > mem'.lo => mem'.toks[i] = tokens'[i]
    BY <1>4, <1>5, Decoded
  <1>7. ASSUME NEW k \in 1..Len(ckpts')
        PROVE  /\ IsSaved(ckpts'[k], Recurrent) /\ Follows(ckpts'[k], tokens', Recurrent)
               /\ Checked(ckpts'[k]) <= Len(tokens')
    <2> DEFINE c == ckpts[k]
    <2>1. ckpts'[k] = c /\ IsSaved(c, Recurrent) /\ Follows(c, tokens, Recurrent) /\ Checked(c) <= Len(tokens)
      BY <1>1 DEF MemInv, Reference
    <2> HIDE DEF c
    <2>2. Checked(c) \in Nat
      <3>1. c.n \in Nat \ {0} /\ c.max = c.n - 1
        <4>1. MaxLen \in Nat
          BY SlotParameters DEF PlaceInv
        <4>2. c.n \in 1..MaxLen /\ c.max = c.n - 1
          BY <2>1 DEF IsSaved
        <4> QED
          BY <4>1, <4>2
      <3> QED
        BY <3>1 DEF Checked
    <2>3. \A i \in 1..Checked(c) : i \in 1..Len(tokens) /\ i <= Len(tokens)
      BY <2>1, <2>2, <1>3
    <2>4. Follows(c, tokens', Recurrent)
      BY <2>1, <2>3, <1>4 DEF Follows
    <2> QED
      BY <2>1, <2>2, <2>4, <1>3, <1>4
  <1>8. Reference' = tokens'
    BY <1>1 DEF Reference
  <1>9. Len(ckpts') <= MaxCheckpoints
    BY <1>1 DEF MemInv
  <1> QED
    BY <1>1, <1>6, <1>7, <1>8, <1>9, SameMemory DEF MemInv, MemoryOfPrompt

\* What was decoded of the prompt is what the checkpoints are of.
LEMMA ReleaseMem == ASSUME PlaceInv, MemInv, Release PROVE MemInv'
  <1>1. state' = "idle" /\ UNCHANGED <<memory, tokens, mem, ckpts>>
    BY DEF Release
  <1>2. Reference' = tokens
    BY <1>1 DEF Reference
  <1>3. \A k \in 1..Len(ckpts) : IsSaved(ckpts[k], Recurrent) /\ Follows(ckpts[k], Reference, Recurrent)
    BY DEF MemInv
  <1>4. ASSUME NEW k \in 1..Len(ckpts) PROVE Follows(ckpts[k], tokens, Recurrent)
    <2>1. CASE state = "prompt"
      <3>1. Len(tokens) \in Nat /\ Len(task) \in Nat /\ Len(tokens) < Len(task) /\ \A i \in 1..Len(tokens) : tokens[i] = task[i]
        BY <2>1, SlotParameters, LenProperties DEF PlaceInv
      <3>2. Follows(ckpts[k], task, Recurrent)
        BY <1>3, <2>1 DEF Reference
      <3>3. Checked(ckpts[k]) \in Nat
        <4>1. ckpts[k].n \in Nat \ {0} /\ ckpts[k].max = ckpts[k].n - 1
          BY <1>3, SlotParameters DEF IsSaved, PlaceInv
        <4> QED
          BY <4>1 DEF Checked
      <3>4. \A i \in 1..Checked(ckpts[k]) : i <= Len(tokens) => i <= Len(task) /\ i \in 1..Len(tokens)
        BY <3>1, <3>3
      <3> QED
        BY <3>1, <3>2, <3>4 DEF Follows
    <2>2. CASE state # "prompt"
      BY <1>3, <2>2 DEF Reference
    <2> QED
      BY <2>1, <2>2
  <1>5. Sound(mem, Recurrent) /\ MemoryOfPrompt /\ Len(ckpts) <= MaxCheckpoints
    BY DEF MemInv
  <1>6. MemoryOfPrompt'
    BY <1>1, <1>5, SameMemory DEF MemoryOfPrompt
  <1> QED
    BY <1>1, <1>2, <1>3, <1>4, <1>5, <1>6, SameMemory DEF MemInv

\* Each step keeps the memory right, if it starts no prompt just behind a checkpoint.
LEMMA MemStep == ASSUME PlaceInv, MemInv, [CheckpointNext]_checkpointVars, Start => NoneBehind PROVE MemInv'
  <1>1. CASE UNCHANGED checkpointVars
    <2>1. UNCHANGED <<memory, state, task, tokens, mem, ckpts>>
      BY <1>1 DEF checkpointVars
    <2> QED
      BY <2>1, SameMemory DEF MemInv, MemoryOfPrompt, Reference
  <1> QED
    BY <1>1, StartMem, BatchMem, GenerateMem, ReleaseMem DEF CheckpointNext

\* The invariants are what the runs check.
LEMMA MemImplies == ASSUME PlaceInv, MemInv PROVE ResumeInv
  <1>1. /\ Len(tokens) \in Nat /\ Len(tokens) <= MaxLen /\ MaxLen \in Nat /\ ckpts \in Seq(Saved) /\ mem \in Memory
        /\ MaxCheckpoints \in Nat
    BY SlotParameters, LenProperties DEF PlaceInv
  <1>2. mem.lo \in 0..MaxLen
    <2>1. mem.lo \in Nat /\ Len(mem.toks) = Len(tokens) /\ (mem.lo = 0 \/ mem.lo < Len(mem.toks))
      BY <1>1 DEF MemInv, Sound, MemoryOfPrompt, Memory
    <2> QED
      BY <2>1, <1>1
  <1>3. ASSUME NEW c \in ToSet(ckpts) PROVE c.n \in 1..MaxLen /\ c.max = c.n - 1
    <2>1. PICK k \in 1..Len(ckpts) : c = ckpts[k]
      BY <1>1, LenProperties DEF ToSet
    <2> QED
      BY <2>1 DEF MemInv, IsSaved
  <1>4. CheckpointTypeOK
    BY <1>1, <1>2, <1>3 DEF CheckpointTypeOK, PlaceInv, MemInv
  <1> QED
    BY <1>4, PlaceImplies DEF ResumeInv, MemInv

(* A prompt resumes from a memory of exactly its first tokens, for all     *)
(* models, sizes and prompts, unless a checkpoint of a single position is  *)
(* left at the very position it resumes from (server_slot::load_tgt).      *)
THEOREM MemoryFollowsPrompt == CheckpointSpec /\ [][Start => NoneBehind]_checkpointVars => []ResumeInv
  <1>1. CheckpointInit => PlaceInv /\ MemInv
    <2> SUFFICES ASSUME CheckpointInit PROVE PlaceInv /\ MemInv
      OBVIOUS
    <2>1. PlaceInv
      BY PlaceInit
    <2>2. tokens = <<>> /\ ckpts = <<>> /\ mem = [toks |-> <<>>, lo |-> 0] /\ state = "idle"
      BY DEF CheckpointInit, NoMem
    <2>3. mem.toks = <<>> /\ mem.lo = 0 /\ Len(tokens) = 0 /\ Len(ckpts) = 0
      BY <2>2
    <2>4. MaxCheckpoints \in Nat
      BY <2>1, SlotParameters DEF PlaceInv
    <2> QED
      BY <2>1, <2>2, <2>3, <2>4 DEF MemInv, Sound, MemoryOfPrompt
  <1>2. ASSUME PlaceInv, MemInv, [CheckpointNext]_checkpointVars, [Start => NoneBehind]_checkpointVars PROVE PlaceInv' /\ MemInv'
    <2>1. PlaceInv'
      BY <1>2, PlaceStep
    <2>2. CASE Start => NoneBehind
      BY <1>2, <2>1, <2>2, MemStep
    <2>3. CASE UNCHANGED checkpointVars
      <3>1. ~ Start
        <4>1. Start => state # state'
          BY StartFacts, <1>2
        <4> QED
          BY <4>1, <2>3 DEF checkpointVars
      <3> QED
        BY <2>1, <3>1, <1>2, MemStep
    <2> QED
      BY <1>2, <2>1, <2>2, <2>3
  <1>3. PlaceInv /\ MemInv => ResumeInv
    BY MemImplies
  <1> QED
    BY <1>1, <1>2, <1>3, PTL DEF CheckpointSpec

-----------------------------------------------------------------------------
(* How much of a prompt that is sent again is decoded again.               *)

(* A prompt is broken off in time for a checkpoint that a window does not  *)
(* forget (checkpoint_offsets), and the list has room for it.              *)
EnoughKept == NTail >= 2 /\ NUbatch >= 2 /\ (Recurrent \/ MaxCheckpoints >= 2)

(* The sizes agree, whatever the tokens are.                               *)
SizeInv ==
    /\ Len(mem.toks) = Len(tokens) /\ Sound(mem, Recurrent)
    /\ \A k \in 1..Len(ckpts) : IsSaved(ckpts[k], Recurrent)

(* The first cell is one that a prompt of n tokens can resume from, if it  *)
(* is sent again (pos_min_thold).                                          *)
LowCell(l, n) == l = 0 \/ l < n - Window - 1

\* What is left of a memory that can be cut there.
LEMMA CutSizes ==
    ASSUME memory \in Memories, NEW m \in Memory, Sound(m, Recurrent), NEW p \in Nat, p <= Len(m.toks),
           Recurrent => p = 0 \/ p = Len(m.toks), ~ Recurrent => p = 0 \/ m.lo < p
    PROVE  Len(CutBack(m, p).toks) = p /\ Sound(CutBack(m, p), Recurrent) /\ CutBack(m, p).lo \in {0, m.lo}
  <1>1. m.toks \in Seq(Token) /\ m.lo \in Nat /\ Len(m.toks) \in Nat /\ Recurrent \in BOOLEAN
    BY SlotParameters, LenProperties DEF Memory
  <1> DEFINE x == CutBack(m, p)
  <1>2. /\ p >= Len(m.toks) => x = m
        /\ p < Len(m.toks) /\ Recurrent => x = IF p = 0 THEN [toks |-> <<>>, lo |-> 0] ELSE m
        /\ p < Len(m.toks) /\ ~ Recurrent =>
              x = IF p <= m.lo THEN [toks |-> <<>>, lo |-> 0] ELSE [toks |-> SubSeq(m.toks, 1, p), lo |-> m.lo]
    BY CutFacts
  <1>3. [toks |-> <<>>, lo |-> 0].toks = <<>> /\ [toks |-> <<>>, lo |-> 0].lo = 0 /\ Len(<<>>) = 0
    OBVIOUS
  <1> HIDE DEF x
  <1>4. CASE p = Len(m.toks)
    BY <1>1, <1>2, <1>4 DEF x
  <1>5. CASE p < Len(m.toks) /\ p = 0
    <2>1. x = [toks |-> <<>>, lo |-> 0]
      BY <1>1, <1>2, <1>5
    <2>2. x.toks = <<>> /\ x.lo = 0
      BY <2>1
    <2> QED
      BY <2>2, <1>3, <1>5 DEF Sound, x
  <1>6. CASE p < Len(m.toks) /\ p # 0
    <2>1. ~ Recurrent /\ m.lo < p /\ x = [toks |-> SubSeq(m.toks, 1, p), lo |-> m.lo]
      BY <1>1, <1>2, <1>6
    <2>2. x.toks = SubSeq(m.toks, 1, p) /\ x.lo = m.lo
      BY <2>1
    <2>3. Len(x.toks) = p /\ x.toks # <<>>
      BY <2>2, <1>1, <1>3, <1>6, PrefixFacts
    <2> QED
      BY <2>1, <2>2, <2>3 DEF Sound, x
  <1> QED
    BY <1>1, <1>4, <1>5, <1>6

(* A memory that a prompt of n tokens, p of which it keeps, can resume     *)
(* from.                                                                   *)
Resumable(m, p, n) ==
    /\ m \in Memory /\ Sound(m, Recurrent) /\ p <= Len(m.toks)
    /\ Recurrent => p = 0 \/ p = Len(m.toks)
    /\ ~ Recurrent => p = 0 \/ m.lo < p
    /\ p = 0 \/ LowCell(m.lo, n)

\* The memory of the slot, if it reaches back far enough.
LEMMA MemoryResumes ==
    ASSUME PlaceInv, SizeInv, Start, FromMemory(Common(tokens, task')) \/ FromNothing
    PROVE  Resumable(Resumed.mem, Kept, Len(task'))
  <1> DEFINE n == Common(tokens, task')
             L == Len(mem.toks)
             W == Window
             T == Len(task')
  <1>1. n \in Nat /\ n <= Len(tokens) /\ n <= T /\ Kept \in Nat /\ Kept < T /\ Kept <= n /\ task' \in Prompts
    BY StartFacts, KeptFacts
  <1>2. /\ mem \in Memory /\ mem.toks \in Seq(Token) /\ mem.lo \in Nat /\ L \in Nat /\ (L = 0 <=> mem.toks = <<>>)
        /\ T \in Nat \ {0} /\ W \in Nat /\ (Recurrent => W = 0) /\ (~ Recurrent => W > 1) /\ Recurrent \in BOOLEAN
    BY <1>1, SlotParameters, EmptySeq, LenProperties DEF PlaceInv, Memory
  <1>3. L = Len(tokens) /\ (L # 0 => mem.lo < L) /\ (Recurrent /\ L # 0 => mem.lo = L - 1) /\ Sound(mem, Recurrent)
    BY <1>2 DEF SizeInv, Sound
  <1>4. Resumed.mem = mem /\ (Kept = 0 \/ (n # 0 /\ Kept = (IF n = T THEN n - 1 ELSE n) /\ PosMin(mem) < Threshold(n)))
    <2>1. CASE FromNothing
      BY <2>1, <1>2 DEF FromNothing, Kept
    <2>2. CASE FromMemory(n) /\ n = 0
      BY <2>2, <1>2 DEF FromMemory, Kept
    <2>3. CASE FromMemory(n) /\ n # 0
      <3> HIDE DEF n
      <3> QED
        BY <2>3, <1>2 DEF FromMemory, Kept
    <2> QED
      BY <2>1, <2>2, <2>3
  <1> HIDE DEF n
  <1>5. CASE Kept = 0
    BY <1>2, <1>3, <1>4, <1>5 DEF Resumable
  <1>6. CASE Kept # 0
    <2>1. n # 0 /\ Kept = (IF n = T THEN n - 1 ELSE n) /\ L # 0
      BY <1>1, <1>2, <1>3, <1>4, <1>6
    <2>2. mem.lo < n - W - (IF n < T THEN 0 ELSE 1)
      <3>1. PosMin(mem) = mem.lo /\ mem.lo < Threshold(n)
        BY <1>2, <1>4, <2>1, <1>6 DEF PosMin
      <3> QED
        BY <3>1, <1>1, <1>2 DEF Threshold, Most
    <2>3. mem.lo < T - W - 1
      BY <2>2, <1>1, <1>2
    <2>4. Kept <= L /\ (Recurrent => Kept = L) /\ (~ Recurrent => mem.lo < Kept)
      BY <2>1, <2>2, <1>1, <1>2, <1>3
    <2> QED
      BY <2>3, <2>4, <1>2, <1>3, <1>4 DEF Resumable, LowCell
  <1> QED
    BY <1>5, <1>6

\* A checkpoint that is usable.
LEMMA SavedResumes ==
    ASSUME PlaceInv, SizeInv, Start, NEW k \in 1..Len(ckpts), FromSaved(Common(tokens, task'), ckpts[k])
    PROVE  Resumable(Resumed.mem, Kept, Len(task'))
  <1> DEFINE n == Common(tokens, task')
             c == ckpts[k]
             m == c.mem
             W == Window
             T == Len(task')
  <1>1. n \in Nat /\ n <= Len(tokens) /\ n <= T /\ Kept \in Nat /\ Kept < T /\ task' \in Prompts
    BY StartFacts, KeptFacts
  <1>2. /\ Len(tokens) \in Nat /\ ckpts \in Seq(Saved) /\ c \in Saved
        /\ T \in Nat \ {0} /\ W \in Nat /\ (Recurrent => W = 0) /\ (~ Recurrent => W > 1) /\ Recurrent \in BOOLEAN
    BY <1>1, SlotParameters, LenProperties, ElementOfSeq DEF PlaceInv
  <1>3. IsSaved(c, Recurrent)
    BY DEF SizeInv
  <1>4. /\ n # 0 /\ c.max <= n /\ (c.min < Threshold(n) \/ c.min = 0)
        /\ Resumed.next = Least(n, Most(c.min + 1, c.max)) /\ Resumed.mem = m
        /\ Resumed.past = Least(Least(Resumed.next, Len(tokens)), c.n)
    BY DEF FromSaved, Usable, NextPos
  <1> HIDE DEF n, c
  <1>5. /\ m \in Memory /\ Sound(m, Recurrent) /\ m.lo \in Nat /\ Len(m.toks) = c.n /\ c.n \in Nat \ {0}
        /\ c.max = c.n - 1 /\ c.min = m.lo /\ m.lo < c.n /\ (Recurrent => m.lo = c.n - 1) /\ c.min \in Nat /\ c.max \in Nat
    <2>1. m \in Memory /\ c.min \in Nat /\ c.max \in Nat
      BY <1>2 DEF Saved
    <2>2. m.toks \in Seq(Token) /\ m.lo \in Nat
      BY <2>1 DEF Memory
    <2>3. c.n = Len(m.toks) /\ c.n \in 1..MaxLen /\ c.max = c.n - 1 /\ c.min = m.lo /\ Sound(m, Recurrent)
      BY <1>3 DEF IsSaved
    <2>4. m.toks # <<>> /\ MaxLen \in Nat
      BY <2>3, EmptySeq, SlotParameters DEF PlaceInv
    <2> HIDE DEF m
    <2>5. c.n \in Nat \ {0} /\ m.lo < c.n /\ (Recurrent => m.lo = c.n - 1)
      BY <1>2, <2>3, <2>4 DEF Sound
    <2> QED
      BY <2>1, <2>2, <2>3, <2>5
  <1>6. Kept = IF Resumed.past = T THEN Resumed.past - 1 ELSE Resumed.past
    BY DEF Kept
  <1>7. c.min = 0 \/ c.min < n - W - (IF n < T THEN 0 ELSE 1)
    <2> DEFINE x == n - W - (IF n < T THEN 0 ELSE 1)
    <2>1. x \in Int /\ c.min \in Nat
      BY <1>1, <1>2, <1>5
    <2>2. c.min < Most(0, x) \/ c.min = 0
      BY <1>4 DEF Threshold
    <2> HIDE DEF x
    <2>3. c.min = 0 \/ c.min < x
      BY <2>1, <2>2 DEF Most
    <2> QED
      BY <2>3 DEF x
  <1> DEFINE past == Resumed.past
             next == Resumed.next
  <1> HIDE DEF m, W, T, past, next
  <1>8. next = (IF n < (IF c.min + 1 < c.max THEN c.max ELSE c.min + 1) THEN n ELSE IF c.min + 1 < c.max THEN c.max ELSE c.min + 1)
    BY <1>4 DEF Least, Most, next
  <1>9. past = IF (IF next < Len(tokens) THEN next ELSE Len(tokens)) < c.n
               THEN (IF next < Len(tokens) THEN next ELSE Len(tokens)) ELSE c.n
    BY <1>4 DEF Least, past, next
  <1>10. c.min = 0 \/ c.min < T - W - 1
    BY <1>1, <1>2, <1>5, <1>7
  <1>11. CASE c.min = c.max
    <2>1. past = c.n /\ c.n <= n
      BY <1>1, <1>2, <1>4, <1>5, <1>7, <1>8, <1>9, <1>11
    <2>2. Kept = c.n \/ Kept = 0
      <3>1. CASE past = T
        <4>1. n = T /\ c.n = n /\ Kept = c.n - 1
          BY <2>1, <3>1, <1>1, <1>2, <1>5, <1>6 DEF past
        <4> QED
          BY <4>1, <1>1, <1>2, <1>5, <1>7, <1>11
      <3>2. CASE past # T
        BY <2>1, <3>2, <1>6 DEF past
      <3> QED
        BY <3>1, <3>2
    <2>3. Kept <= c.n /\ (Recurrent => Kept = 0 \/ Kept = c.n) /\ (~ Recurrent => Kept = 0 \/ m.lo < Kept)
      BY <2>2, <1>1, <1>5
    <2> QED
      BY <2>3, <1>4, <1>5, <1>10 DEF Resumable, LowCell, W, T
  <1>12. CASE c.min # c.max
    <2>1. ~ Recurrent /\ c.min < c.max
      BY <1>2, <1>5, <1>12
    <2>2. next = c.max /\ past = c.max
      <3>1. c.max \in Nat /\ c.min \in Nat /\ n \in Nat /\ Len(tokens) \in Nat /\ n <= Len(tokens) /\ c.n = c.max + 1 /\ c.max <= n
        BY <1>1, <1>2, <1>4, <1>5
      <3>2. next = Least(n, Most(c.min + 1, c.max)) /\ past = Least(Least(next, Len(tokens)), c.n)
        BY <1>4 DEF next, past
      <3> QED
        BY <3>1, <3>2, <2>1, PastOfSaved
    <2>3. Kept <= c.n
      BY <2>2, <1>5, <1>6 DEF past
    <2>4. Kept = 0 \/ m.lo < Kept
      <3>1. CASE past # T
        BY <3>1, <2>1, <2>2, <1>5, <1>6 DEF past
      <3>2. CASE past = T
        <4>1. n = T /\ c.max = n /\ Kept = n - 1
          <5>1. c.max = T /\ Kept = T - 1
            BY <3>2, <2>2, <1>6 DEF past
          <5>2. n \in Nat /\ T \in Nat /\ n <= T /\ c.max <= n /\ c.max \in Nat
            BY <1>1, <1>2, <1>4, <1>5
          <5> QED
            BY <5>1, <5>2
        <4>2. n \in Nat /\ c.min \in Nat /\ m.lo = c.min /\ W \in Nat /\ W > 1 /\ ~ (n < T)
          BY <4>1, <2>1, <1>1, <1>2, <1>5
        <4>3. c.min = 0 \/ c.min < n - W - 1
          BY <4>2, <1>7
        <4> QED
          BY <4>1, <4>2, <4>3, <1>1
      <3> QED
        BY <3>1, <3>2
    <2> QED
      BY <2>1, <2>3, <2>4, <1>4, <1>5, <1>10 DEF Resumable, LowCell, W, T
  <1> QED
    BY <1>11, <1>12

\* A prompt starts on a memory of its size whose first cell is low enough.
LEMMA StartSize ==
    ASSUME PlaceInv, SizeInv, Start
    PROVE  Len(mem'.toks) = Kept /\ Sound(mem', Recurrent) /\ LowCell(mem'.lo, Len(task'))
  <1> DEFINE n == Common(tokens, task')
             m == Resumed.mem
             T == Len(task')
  <1>1. task' \in Prompts /\ mem' = CutBack(m, Kept) /\ mem' \in Memory /\ Kept \in Nat
    BY StartFacts, KeptFacts
  <1>2. Resumable(m, Kept, T)
    <2>1. FromMemory(n) \/ FromNothing \/ \E i \in 1..Len(ckpts) : FromSaved(n, ckpts[i])
      BY <1>1, ResumedFrom
    <2> QED
      BY <2>1, MemoryResumes, SavedResumes
  <1> HIDE DEF m, T
  <1>3. Len(mem'.toks) = Kept /\ Sound(mem', Recurrent) /\ mem'.lo \in {0, m.lo}
    BY <1>1, <1>2, CutSizes DEF Resumable, PlaceInv
  <1>4. CASE Kept = 0
    <2>1. mem'.toks = <<>>
      BY <1>1, <1>3, <1>4, EmptySeq DEF Memory
    <2> QED
      BY <2>1, <1>3 DEF Sound, LowCell
  <1>5. CASE Kept # 0
    BY <1>2, <1>3, <1>5 DEF Resumable, LowCell, T
  <1> QED
    BY <1>3, <1>4, <1>5

\* The kind of memory and its sizes stay.
LEMMA SameSizes ==
    ASSUME memory' = memory
    PROVE  /\ Recurrent' = Recurrent /\ Window' = Window /\ NTail' = NTail /\ NUbatch' = NUbatch
           /\ MaxCheckpoints' = MaxCheckpoints
  BY DEF Recurrent, Window, NTail, NUbatch, MaxCheckpoints

\* The last checkpoint of the same prompt stays in front of a new one.
LEMMA WithCheckpointKeeps ==
    ASSUME NEW S, ckpts \in Seq(S), NEW start, NewCheckpoint(start) \in S, MaxCheckpoints \in Nat \ {0}
    PROVE  LET q == WithCheckpoint(start)
               l == ckpts[Len(ckpts)]
           IN  /\ Len(q) \in Nat \ {0} /\ q[Len(q)] = NewCheckpoint(start)
               /\ MaxCheckpoints >= 2 /\ Len(ckpts) > 0 /\ l.own /\ l.n # start =>
                      Len(q) > 1 /\ q[Len(q) - 1] = l
  <1> DEFINE t == Thinned
             r == WithRoom(t)
             D == {c \in ToSet(r) : c.n = start}
             d == Drop(r, D)
             l == ckpts[Len(ckpts)]
             new == NewCheckpoint(start)
  <1>1. t \in Seq(S) /\ Len(t) \in Nat
    BY ThinnedFacts, LenProperties
  <1> HIDE DEF t
  <1>2. /\ r \in Seq(S) /\ Len(r) \in Nat
        /\ MaxCheckpoints >= 2 /\ Len(t) > 0 => Len(r) > 0 /\ r[Len(r)] = t[Len(t)]
    <2>1. CASE Len(t) < MaxCheckpoints
      BY <2>1, <1>1 DEF WithRoom
    <2>2. CASE Len(t) >= MaxCheckpoints
      <3> DEFINE k == Len(t) - MaxCheckpoints + 1
      <3>1. r = SubSeq(t, k + 1, Len(t)) /\ k \in 0..Len(t) /\ (MaxCheckpoints >= 2 => k < Len(t))
        BY <2>2, <1>1 DEF WithRoom
      <3> HIDE DEF r, k
      <3>2. /\ SubSeq(t, k + 1, Len(t)) \in Seq(S) /\ Len(SubSeq(t, k + 1, Len(t))) = Len(t) - k
            /\ \A j \in 1..Len(t) - k : SubSeq(t, k + 1, Len(t))[j] = t[k + j]
        BY <3>1, <1>1, Suffix
      <3>3. r \in Seq(S) /\ Len(r) = Len(t) - k /\ Len(r) \in Nat
        BY <3>1, <3>2, <1>1
      <3>4. ASSUME MaxCheckpoints >= 2 PROVE Len(r) > 0 /\ r[Len(r)] = t[Len(t)]
        <4>1. Len(r) \in 1..Len(t) - k /\ k + Len(r) = Len(t) /\ Len(r) > 0
          BY <3>1, <3>3, <3>4, <1>1
        <4>2. r[Len(r)] = t[k + Len(r)]
          BY <4>1, <3>1, <3>2
        <4> QED
          BY <4>1, <4>2
      <3> QED
        BY <3>3, <3>4
    <2> QED
      BY <2>1, <2>2, <1>1
  <1> HIDE DEF r, D
  <1>3. PICK g : /\ Embeds(g, Drop(r, D), r)
                 /\ \A i \in 1..Len(r) : r[i] \notin D => \E j \in 1..Len(Drop(r, D)) : g[j] = i
    BY <1>2, DropPlaces
  <1>4. d \in Seq(S) /\ Len(d) \in Nat
    BY <1>2, DropFacts, LenProperties
  <1>5. WithCheckpoint(start) = Append(d, new)
    BY DEF WithCheckpoint, Drop, Drop, t, r, D
  <1> HIDE DEF d, new
  <1>6. /\ Len(Append(d, new)) = Len(d) + 1 /\ Append(d, new)[Len(d) + 1] = new
        /\ \A i \in 1..Len(d) : Append(d, new)[i] = d[i]
    BY <1>4, AppendProperties DEF new
  <1>7. ASSUME MaxCheckpoints >= 2, Len(ckpts) > 0, l.own, l.n # start PROVE Len(d) > 0 /\ d[Len(d)] = l
    <2>1. PICK y \in Seq(S) : Thinned = Append(y, l)
      BY <1>7, ThinnedFacts
    <2>2. l \in S
      BY <1>7, LenProperties, ElementOfSeq
    <2> HIDE DEF l
    <2>3. Len(y) \in Nat /\ Len(Append(y, l)) = Len(y) + 1 /\ Append(y, l)[Len(y) + 1] = l
      BY <2>2, AppendProperties, LenProperties
    <2>4. Len(t) > 0 /\ t[Len(t)] = l
      BY <2>1, <2>3 DEF t
    <2>5. Len(r) > 0 /\ r[Len(r)] = l
      BY <2>4, <1>2, <1>7
    <2>6. r[Len(r)] \notin D
      BY <2>5, <1>7 DEF D
    <2>7. Len(r) \in 1..Len(r)
      BY <2>5, <1>2
    <2>8. PICK j \in 1..Len(Drop(r, D)) : g[j] = Len(r)
      BY <2>6, <2>7, <1>3
    <2>9. /\ \A i \in 1..Len(d) : g[i] \in 1..Len(r) /\ d[i] = r[g[i]]
          /\ \A a, b \in 1..Len(d) : a < b => g[a] < g[b]
      BY <1>3 DEF Embeds, d
    <2>10. j \in 1..Len(d)
      BY <2>8 DEF d
    <2>11. j = Len(d)
      <3>1. j < Len(d) => g[j] < g[Len(d)] /\ g[Len(d)] \in 1..Len(r)
        BY <2>9, <2>10, <1>4
      <3> QED
        BY <3>1, <2>8, <2>10, <1>2, <1>4
    <2> QED
      BY <2>5, <2>8, <2>9, <2>10, <2>11, <1>4
  <1> HIDE DEF l
  <1>8. MaxCheckpoints >= 2 /\ Len(ckpts) > 0 /\ l.own /\ l.n # start =>
            Len(d) + 1 > 1 /\ Append(d, new)[Len(d) + 1 - 1] = l
    BY <1>4, <1>6, <1>7
  <1> QED
    BY <1>4, <1>5, <1>6, <1>8 DEF new, l

\* What is decoded extends the memory, and a window may forget what is behind it.
LEMMA DecodedSize ==
    ASSUME PlaceInv, SizeInv, NEW s \in Seq(Token), Len(s) > 0, mem' \in Extended(mem, s), Len(tokens') = Len(tokens) + Len(s)
    PROVE  /\ Sound(mem', Recurrent) /\ Len(mem'.toks) = Len(tokens')
           /\ Recurrent => mem'.lo = Len(tokens') - 1
           /\ ~ Recurrent => mem'.lo = mem.lo \/ mem'.lo <= Len(tokens') - Window
  <1>1. /\ mem \in Memory /\ mem.toks \in Seq(Token) /\ mem.lo \in Nat /\ Len(mem.toks) \in Nat /\ Len(tokens) \in Nat /\ Len(s) \in Nat
        /\ Len(mem.toks) = Len(tokens) /\ Recurrent \in BOOLEAN /\ Window \in Nat
    BY SlotParameters, LenProperties DEF PlaceInv, Memory, SizeInv
  <1>2. /\ mem' \in Memory /\ mem'.toks = mem.toks \o s /\ Len(mem'.toks) = Len(mem.toks) + Len(s)
        /\ Recurrent => mem'.lo = Len(mem'.toks) - 1
        /\ ~ Recurrent => mem.lo <= mem'.lo /\ (mem'.lo = mem.lo \/ mem'.lo + 1 < Len(mem'.toks))
    BY <1>1, ExtendedFacts DEF PlaceInv
  <1>3. mem'.lo \in Nat /\ Len(mem'.toks) > 0 /\ Len(mem'.toks) \in Nat /\ mem'.toks # <<>>
    BY <1>1, <1>2, EmptySeq DEF Memory
  <1>4. mem.lo = 0 \/ mem.lo < Len(mem.toks)
    BY DEF SizeInv, Sound
  <1>5. mem'.lo < Len(mem'.toks)
    BY <1>1, <1>2, <1>3, <1>4
  <1>6. Sound(mem', Recurrent)
    BY <1>2, <1>3, <1>5 DEF Sound
  <1>7. ASSUME ~ Recurrent PROVE mem'.lo = mem.lo \/ mem'.lo <= Len(tokens') - Window
    <2> DEFINE toks == mem.toks \o s
    <2>1. Len(toks) = Len(tokens')
      BY <1>1, ConcatProperties
    <2>2. Extended(mem, s) = {[toks |-> toks, lo |-> l] : l \in mem.lo..Most(mem.lo, Len(toks) - Window)}
      BY <1>7 DEF Extended
    <2> HIDE DEF toks
    <2>3. PICK l \in mem.lo..Most(mem.lo, Len(toks) - Window) : mem' = [toks |-> toks, lo |-> l]
      BY <2>2
    <2>4. mem'.lo = l
      BY <2>3
    <2> QED
      BY <2>1, <2>4, <1>1 DEF Most
  <1> QED
    BY <1>1, <1>2, <1>6, <1>7

\* A batch that ends near the end of the prompt starts there, and a checkpoint is taken before it.
LEMMA BatchEnds ==
    ASSUME PlaceInv, Batch, EnoughKept
    PROVE  \E end \in Len(tokens) + 1..Len(task) :
              /\ state' = IF end = Len(task) THEN "generate" ELSE "prompt"
              /\ done' = IF end = Len(task) THEN task ELSE done
              /\ tokens' = SubSeq(task, 1, end)
              /\ mem' \in Extended(mem, SubSeq(task, Len(tokens) + 1, end))
              /\ end >= Len(task) - 1 => /\ Len(tokens) >= Len(task) - NTail
                                         /\ mem.toks # <<>> => ckpts' = WithCheckpoint(Len(tokens))
  <1>1. PICK room \in 1..NBatch :
            LET end == Filled(room)
            IN  /\ tokens' = SubSeq(task, 1, end)
                /\ ckpts' = IF WantsCheckpoint(Len(tokens), end) THEN WithCheckpoint(Len(tokens)) ELSE ckpts
                /\ mem' \in Extended(mem, SubSeq(task, Len(tokens) + 1, end))
                /\ state' = IF end = Len(task) THEN "generate" ELSE "prompt"
                /\ done' = IF end = Len(task) THEN task ELSE done
    BY DEF Batch
  <1>2. state = "prompt"
    BY DEF Batch
  <1> DEFINE end == Filled(room)
             s == Len(tokens)
             L == Len(task)
             T == {n \in s + 1..L : n = L \/ n = s + room \/ BreakAt(n)}
  <1>3. /\ s \in Nat /\ L \in Nat /\ s < L /\ NBatch \in Nat \ {0} /\ NUbatch \in Nat /\ NTail \in Nat
        /\ NTail >= 2 /\ NUbatch >= 2 /\ room \in 1..NBatch
    BY <1>2, SlotParameters, LenProperties DEF PlaceInv, EnoughKept
  <1>4. end = Min(T)
    BY DEF Filled, Min, Min
  <1>5. L \in T /\ T \subseteq 0..L /\ T \subseteq s + 1..L
    BY <1>3
  <1>6. \A n \in s + 1..L : n = s + room \/ BreakAt(n) => n \in T
    OBVIOUS
  <1> HIDE DEF T
  <1>7. Min(T) \in T /\ \A n \in T : Min(T) <= n
    BY <1>3, <1>5, Extremes
  <1>8. end \in s + 1..L /\ \A n \in s + 1..L : n = s + room \/ BreakAt(n) => end <= n
    BY <1>4, <1>5, <1>6, <1>7
  <1> HIDE DEF end
  <1>9. ASSUME end >= L - 1 PROVE s >= L - NTail
    <2> DEFINE b == L - Least(NBatch, NTail)
    <2>1. Least(NBatch, NTail) \in 1..NTail /\ (NBatch > 1 => Least(NBatch, NTail) >= 2) /\ b \in Int
      BY <1>3 DEF Least
    <2>2. L = b + Least(NBatch, NTail)
      BY <2>1, <1>3
    <2>3. BreakAt(b)
      BY <2>2 DEF BreakAt
    <2> HIDE DEF b
    <2>4. CASE s >= b
      BY <2>1, <2>2, <2>4, <1>3
    <2>5. CASE s < b /\ NBatch > 1
      <3>1. b \in s + 1..L
        BY <2>1, <2>2, <2>5, <1>3
      <3>2. end <= b
        BY <3>1, <2>3, <1>8
      <3> QED
        BY <3>2, <2>1, <2>2, <2>5, <1>3, <1>8, <1>9
    <2>6. CASE NBatch = 1
      <3>1. room = 1 /\ s + room \in s + 1..L
        BY <2>6, <1>3
      <3>2. end <= s + 1
        BY <3>1, <1>8
      <3> QED
        BY <3>2, <1>3, <1>8, <1>9
    <2> QED
      BY <2>1, <2>4, <2>5, <2>6, <1>3
  <1>10. ASSUME end >= L - 1, mem.toks # <<>> PROVE WantsCheckpoint(s, end)
    <2>1. L < end + NUbatch
      BY <1>3, <1>8, <1>10
    <2> QED
      BY <2>1, <1>10 DEF WantsCheckpoint
  <1>11. /\ tokens' = SubSeq(task, 1, end)
         /\ ckpts' = IF WantsCheckpoint(s, end) THEN WithCheckpoint(s) ELSE ckpts
         /\ mem' \in Extended(mem, SubSeq(task, s + 1, end))
         /\ state' = IF end = L THEN "generate" ELSE "prompt"
         /\ done' = IF end = L THEN task ELSE done
    BY <1>1 DEF end
  <1>12. end >= L - 1 => s >= L - NTail /\ (mem.toks # <<>> => ckpts' = WithCheckpoint(s))
    BY <1>9, <1>10, <1>11
  <1> QED
    BY <1>8, <1>11, <1>12

\* A checkpoint that is taken is of the memory as it is.
LEMMA NewSize ==
    ASSUME PlaceInv, SizeInv, mem.toks # <<>>
    PROVE  LET c == NewCheckpoint(Len(tokens))
           IN  /\ c \in Saved /\ IsSaved(c, Recurrent) /\ c.own
               /\ c.n = Len(tokens) /\ c.min = mem.lo /\ c.max = Len(tokens) - 1
  <1> DEFINE c == NewCheckpoint(Len(tokens))
  <1>1. /\ c \in Saved /\ Len(mem.toks) \in Nat \ {0} /\ Len(mem.toks) = Len(tokens)
        /\ c.n = Len(tokens) /\ c.max = Len(mem.toks) - 1 /\ c.min = mem.lo /\ c.mem = mem
    BY NewCheckpointFacts DEF SizeInv
  <1>2. c.own
    BY DEF NewCheckpoint
  <1>3. Len(tokens) \in Nat /\ Len(tokens) <= MaxLen /\ MaxLen \in Nat
    BY SlotParameters, LenProperties DEF PlaceInv
  <1> HIDE DEF c
  <1>4. IsSaved(c, Recurrent)
    BY <1>1, <1>3 DEF IsSaved, SizeInv
  <1> QED
    BY <1>1, <1>2, <1>4 DEF c

\* Each step keeps the sizes.
LEMMA SizeStep == ASSUME PlaceInv, SizeInv, [CheckpointNext]_checkpointVars PROVE SizeInv'
  <1>1. CASE Start
    <2>1. /\ memory' = memory /\ Len(tokens') = Kept
          /\ \A i \in 1..Len(ckpts') : \E j \in 1..Len(ckpts) : SameState(ckpts'[i], ckpts[j]) /\ ckpts[j].max <= Resumed.next
      BY <1>1, StartFacts
    <2>2. Len(mem'.toks) = Kept /\ Sound(mem', Recurrent)
      BY <1>1, StartSize
    <2>3. ASSUME NEW i \in 1..Len(ckpts') PROVE IsSaved(ckpts'[i], Recurrent)
      <3>1. PICK j \in 1..Len(ckpts) : SameState(ckpts'[i], ckpts[j])
        BY <2>1
      <3>2. IsSaved(ckpts[j], Recurrent)
        BY DEF SizeInv
      <3> QED
        BY <3>1, <3>2 DEF SameState, IsSaved
    <2> QED
      BY <2>1, <2>2, <2>3, SameSizes DEF SizeInv
  <1>2. CASE Batch
    <2>1. /\ state = "prompt" /\ memory' = memory /\ task' = task
          /\ ckpts' = ckpts \/ (mem.toks # <<>> /\ ckpts' = WithCheckpoint(Len(tokens)))
      BY <1>2, BatchFacts
    <2>2. PICK end \in Len(tokens) + 1..Len(task) :
             /\ tokens' = SubSeq(task, 1, end)
             /\ mem' \in Extended(mem, SubSeq(task, Len(tokens) + 1, end))
      BY <1>2, BatchFacts
    <2>3. /\ task \in Seq(Token) /\ Len(tokens) \in Nat /\ Len(task) \in Nat /\ ckpts \in Seq(Saved) /\ MaxCheckpoints \in Nat \ {0}
      BY <2>1, SlotParameters, LenProperties DEF PlaceInv
    <2> DEFINE s == SubSeq(task, Len(tokens) + 1, end)
    <2>4. s \in Seq(Token) /\ Len(s) = end - Len(tokens) /\ Len(tokens') = end
      BY <2>2, <2>3, PartFacts
    <2>5. mem' \in Extended(mem, s)
      BY <2>2
    <2> HIDE DEF s
    <2>6. Len(s) > 0 /\ Len(tokens') = Len(tokens) + Len(s)
      BY <2>2, <2>3, <2>4
    <2>7. Sound(mem', Recurrent) /\ Len(mem'.toks) = Len(tokens')
      BY <2>4, <2>5, <2>6, DecodedSize
    <2> DEFINE A == {c \in Saved : IsSaved(c, Recurrent)}
    <2>8. \A i \in 1..Len(ckpts) : ckpts[i] \in A
      BY <2>3, ElementOfSeq DEF SizeInv
    <2>9. mem.toks # <<>> => NewCheckpoint(Len(tokens)) \in A
      BY NewSize
    <2> HIDE DEF A
    <2>10. ckpts \in Seq(A)
      BY <2>3, <2>8, SeqOfSubset
    <2>11. ckpts' \in Seq(A)
      BY <2>1, <2>3, <2>9, <2>10, WithCheckpointFacts
    <2>12. \A i \in 1..Len(ckpts') : ckpts'[i] \in A
      BY <2>11, ElementOfSeq
    <2> QED
      BY <2>1, <2>7, <2>12, SameSizes DEF SizeInv, A
  <1>3. CASE Generate
    <2>1. /\ memory' = memory /\ ckpts' = ckpts
          /\ \E t \in Generated : tokens' = Append(tokens, t) /\ mem' \in Extended(mem, <<t>>)
      BY <1>3 DEF Generate
    <2>2. PICK t \in Generated : tokens' = Append(tokens, t) /\ mem' \in Extended(mem, <<t>>)
      BY <2>1
    <2>3. t \in Token /\ tokens \in Seq(Token) /\ Len(tokens) \in Nat
      BY SlotParameters, LenProperties DEF PlaceInv
    <2> DEFINE s == <<t>>
    <2>4. s \in Seq(Token) /\ Len(s) = 1 /\ Len(tokens') = Len(tokens) + 1
      BY <2>2, <2>3, AppendProperties
    <2>5. mem' \in Extended(mem, s)
      BY <2>2
    <2> HIDE DEF s
    <2>6. Len(s) > 0 /\ Len(tokens') = Len(tokens) + Len(s)
      BY <2>4
    <2>7. Sound(mem', Recurrent) /\ Len(mem'.toks) = Len(tokens')
      BY <2>4, <2>5, <2>6, DecodedSize
    <2> QED
      BY <2>1, <2>7, SameSizes DEF SizeInv
  <1>4. CASE Release \/ UNCHANGED checkpointVars
    <2>1. UNCHANGED <<memory, tokens, mem, ckpts>>
      BY <1>4 DEF Release, checkpointVars
    <2> QED
      BY <2>1, SameSizes DEF SizeInv
  <1> QED
    BY <1>1, <1>2, <1>3, <1>4 DEF CheckpointNext

(* A checkpoint that a prompt of n tokens can resume from, near its end.   *)
Near(c, n) == LowCell(c.min, n) /\ c.n \in n - NTail..n

(* A window has that checkpoint before it loses the cells.                 *)
EndIsNear(n) ==
    \/ LowCell(mem.lo, n)
    \/ /\ ~ Recurrent /\ Len(tokens) = n - 1 /\ Len(ckpts) > 0
       /\ Near(ckpts[Len(ckpts)], n) /\ ckpts[Len(ckpts)].own /\ ckpts[Len(ckpts)].n < n - 1

(* The list has one, and what is behind it is near the end, too.           *)
KeptNear(n) == \E i \in 1..Len(ckpts) : Near(ckpts[i], n) /\ \A j \in i..Len(ckpts) : ckpts[j].n \in n - NTail..n

CheapInv ==
    /\ state = "prompt" => done = <<>> /\ (Len(task) > NTail => EndIsNear(Len(task)))
    /\ done # <<>> => /\ done \in Prompts /\ Len(done) <= Len(tokens) /\ \A i \in 1..Len(done) : tokens[i] = done[i]
                      /\ Len(done) > NTail => KeptNear(Len(done))

\* A batch that does not end the prompt.
LEMMA CheapBatchOn ==
    ASSUME PlaceInv, SizeInv, CheapInv, EnoughKept, Batch, Len(tokens') < Len(task), Len(task) > NTail,
           Sound(mem', Recurrent), Recurrent => mem'.lo = Len(tokens') - 1,
           ~ Recurrent => mem'.lo = mem.lo \/ mem'.lo <= Len(tokens') - Window,
           Len(tokens') \in Len(tokens) + 1..Len(task), mem'.lo \in Nat,
           Len(tokens') >= Len(task) - 1 => /\ Len(tokens) >= Len(task) - NTail
                                            /\ mem.toks # <<>> => ckpts' = WithCheckpoint(Len(tokens))
    PROVE  EndIsNear(Len(task))'
  <1> DEFINE L == Len(task)
             s == Len(tokens)
             end == Len(tokens')
             W == Window
  <1>1. state = "prompt" /\ memory' = memory /\ task' = task
    BY BatchFacts
  <1>2. /\ L \in Nat /\ s \in Nat /\ end \in s + 1..L /\ W \in Nat /\ NTail \in Nat /\ (Recurrent => W = 0)
        /\ mem.lo \in Nat /\ mem.toks \in Seq(Token) /\ Len(mem.toks) = s /\ ckpts \in Seq(Saved) /\ MaxCheckpoints \in Nat \ {0}
    BY <1>1, SlotParameters, LenProperties DEF PlaceInv, Memory, SizeInv
  <1>3. Recurrent' = Recurrent /\ Window' = W /\ NTail' = NTail
    BY <1>1, SameSizes
  <1>4. EndIsNear(L)
    BY <1>1 DEF CheapInv
  <1>5. LowCell(mem.lo, L)
    BY <1>2, <1>4 DEF EndIsNear
  <1>6. LowCell(mem'.lo, L) => EndIsNear(Len(task))'
    BY <1>1, <1>3 DEF EndIsNear, LowCell
  <1>7. CASE Recurrent
    <2>1. LowCell(mem'.lo, L)
      BY <1>2, <1>7 DEF LowCell
    <2> QED
      BY <2>1, <1>6
  <1>8. CASE ~ Recurrent /\ end < L - 1
    <2>1. LowCell(mem'.lo, L)
      <3>1. CASE mem'.lo = mem.lo
        BY <3>1, <1>5
      <3>2. CASE mem'.lo <= end - W
        BY <3>2, <1>2, <1>8 DEF LowCell
      <3> QED
        BY <3>1, <3>2, <1>8
    <2> QED
      BY <2>1, <1>6
  <1>9. CASE ~ Recurrent /\ end = L - 1
    <2> DEFINE c == NewCheckpoint(s)
               q == WithCheckpoint(s)
    <2>1. s >= L - NTail /\ s > 0 /\ s < L - 1
      BY <1>2, <1>9
    <2>2. mem.toks # <<>>
      BY <2>1, <1>2, EmptySeq
    <2>3. ckpts' = q
      BY <2>2, <1>2, <1>9
    <2>4. c \in Saved /\ c.own /\ c.n = s /\ c.min = mem.lo
      BY <2>2, NewSize
    <2>5. Len(q) \in Nat \ {0} /\ q[Len(q)] = c
      BY <2>4, <1>2, WithCheckpointKeeps
    <2> HIDE DEF c, q
    <2>6. c.n \in L - NTail..L /\ c.n < L - 1 /\ LowCell(c.min, L)
      BY <2>1, <2>4, <1>2, <1>5
    <2>7. c.min = 0 \/ c.min < L - W - 1
      BY <2>6 DEF LowCell
    <2>8. PICK d : d = ckpts'[Len(ckpts')] /\ d = c
      BY <2>3, <2>5
    <2>9. d.own /\ d.n < L - 1 /\ d.n \in L - NTail..L /\ (d.min = 0 \/ d.min < L - W - 1)
      BY <2>4, <2>6, <2>7, <2>8
    <2>10. Len(ckpts') > 0
      BY <2>3, <2>5
    <2>11. /\ ~ Recurrent' /\ Len(tokens') = Len(task') - 1 /\ Len(ckpts') > 0 /\ d = ckpts'[Len(ckpts')]
           /\ d.own /\ d.n < Len(task') - 1 /\ d.n \in Len(task') - NTail'..Len(task')
           /\ d.min = 0 \/ d.min < Len(task') - Window' - 1
      BY <2>8, <2>9, <2>10, <1>1, <1>3, <1>9
    <2> QED
      BY <2>11 DEF EndIsNear, Near, LowCell
  <1> QED
    BY <1>2, <1>7, <1>8, <1>9

\* The batch that ends the prompt leaves a checkpoint near its end.
LEMMA CheapBatchEnd ==
    ASSUME PlaceInv, SizeInv, CheapInv, EnoughKept, Batch, Len(task) > NTail,
           Len(tokens) >= Len(task) - NTail, mem.toks # <<>> => ckpts' = WithCheckpoint(Len(tokens))
    PROVE  \E i \in 1..Len(ckpts') :
              /\ ckpts'[i].min = 0 \/ ckpts'[i].min < Len(task) - Window - 1
              /\ \A j \in i..Len(ckpts') : ckpts'[j].n \in Len(task) - NTail..Len(task)
  <1> DEFINE L == Len(task)
             s == Len(tokens)
             W == Window
             c == NewCheckpoint(s)
             q == WithCheckpoint(s)
             l == ckpts[Len(ckpts)]
  <1>1. state = "prompt"
    BY BatchFacts
  <1>2. /\ L \in Nat /\ s \in Nat /\ s < L /\ W \in Nat /\ NTail \in Nat /\ s > 0
        /\ mem.lo \in Nat /\ mem.toks \in Seq(Token) /\ Len(mem.toks) = s /\ ckpts \in Seq(Saved)
        /\ Len(ckpts) \in Nat /\ MaxCheckpoints \in Nat \ {0}
    BY <1>1, SlotParameters, LenProperties DEF PlaceInv, Memory, SizeInv
  <1>3. mem.toks # <<>>
    BY <1>2, EmptySeq
  <1>4. ckpts' = q
    BY <1>3
  <1>5. c \in Saved /\ c.n = s /\ c.min = mem.lo
    BY <1>3, NewSize
  <1>6. /\ Len(q) \in Nat \ {0} /\ q[Len(q)] = c
        /\ MaxCheckpoints >= 2 /\ Len(ckpts) > 0 /\ l.own /\ l.n # s => Len(q) > 1 /\ q[Len(q) - 1] = l
    BY <1>2, <1>5, WithCheckpointKeeps
  <1>7. EndIsNear(L)
    BY <1>1 DEF CheapInv
  <1> HIDE DEF c, q
  <1>8. q[Len(q)].n \in L - NTail..L
    BY <1>2, <1>5, <1>6
  <1>9. CASE LowCell(mem.lo, L)
    <2>1. Len(q) \in 1..Len(q) /\ \A j \in Len(q)..Len(q) : j = Len(q)
      BY <1>6
    <2>2. q[Len(q)].min = 0 \/ q[Len(q)].min < L - W - 1
      BY <1>5, <1>6, <1>9 DEF LowCell
    <2> QED
      BY <2>1, <2>2, <1>4, <1>8
  <1>10. CASE ~ LowCell(mem.lo, L)
    <2>1. /\ ~ Recurrent /\ s = L - 1 /\ Len(ckpts) > 0 /\ Near(l, L) /\ l.own /\ l.n < L - 1
      BY <1>7, <1>10 DEF EndIsNear
    <2>2. l.n # s /\ MaxCheckpoints >= 2
      BY <2>1, <1>2 DEF EnoughKept
    <2>3. Len(q) > 1 /\ q[Len(q) - 1] = l
      BY <2>1, <2>2, <1>6
    <2> DEFINE i == Len(q) - 1
    <2>4. i \in 1..Len(q) /\ \A j \in i..Len(q) : j = i \/ j = Len(q)
      BY <2>3, <1>6
    <2>5. (q[i].min = 0 \/ q[i].min < L - W - 1) /\ q[i].n \in L - NTail..L
      BY <2>1, <2>3 DEF Near, LowCell
    <2> HIDE DEF i
    <2>6. \A j \in i..Len(q) : q[j].n \in L - NTail..L
      BY <2>4, <2>5, <1>8
    <2> QED
      BY <2>4, <2>5, <2>6, <1>4
  <1> QED
    BY <1>9, <1>10

\* Each step keeps the end of the prompt near.
LEMMA CheapStep ==
    ASSUME PlaceInv, SizeInv, CheapInv, EnoughKept, [CheckpointNext]_checkpointVars
    PROVE  CheapInv'
  <1>1. CASE Start
    <2>1. memory' = memory /\ task' \in Prompts
      BY <1>1, StartFacts
    <2>2. done' = <<>>
      BY <1>1 DEF Start
    <2>3. LowCell(mem'.lo, Len(task'))
      BY <1>1, StartSize
    <2>4. mem'.lo = 0 \/ mem'.lo < Len(task') - Window' - 1
      BY <2>1, <2>3, SameSizes DEF LowCell
    <2>5. EndIsNear(Len(task))'
      BY <2>4 DEF EndIsNear, LowCell
    <2> QED
      BY <2>2, <2>5 DEF CheapInv
  <1>2. CASE Batch
    <2>1. state = "prompt" /\ memory' = memory /\ task' = task
      BY <1>2, BatchFacts
    <2>2. done = <<>>
      BY <2>1 DEF CheapInv
    <2>3. /\ task \in Prompts /\ task \in Seq(Token) /\ Len(tokens) \in Nat /\ Len(task) \in Nat /\ NTail \in Nat
          /\ mem \in Memory /\ mem.toks \in Seq(Token)
      BY <2>1, SlotParameters, LenProperties DEF PlaceInv, Memory
    <2>4. PICK end \in Len(tokens) + 1..Len(task) :
              /\ state' = IF end = Len(task) THEN "generate" ELSE "prompt"
              /\ done' = IF end = Len(task) THEN task ELSE done
              /\ tokens' = SubSeq(task, 1, end)
              /\ mem' \in Extended(mem, SubSeq(task, Len(tokens) + 1, end))
              /\ end >= Len(task) - 1 => /\ Len(tokens) >= Len(task) - NTail
                                         /\ mem.toks # <<>> => ckpts' = WithCheckpoint(Len(tokens))
      BY <1>2, BatchEnds
    <2> DEFINE s == SubSeq(task, Len(tokens) + 1, end)
    <2>5. s \in Seq(Token) /\ Len(s) = end - Len(tokens) /\ Len(tokens') = end /\ \A i \in 1..end : tokens'[i] = task[i]
      BY <2>3, <2>4, PartFacts
    <2>6. mem' \in Extended(mem, s)
      BY <2>4
    <2> HIDE DEF s
    <2>7. Len(s) > 0 /\ Len(tokens') = Len(tokens) + Len(s)
      <3>1. Len(s) = end - Len(tokens) /\ Len(tokens') = end
        BY <2>5
      <3>2. end \in Nat /\ end > Len(tokens) /\ Len(tokens) \in Nat
        BY <2>3, <2>4
      <3> QED
        BY <3>1, <3>2
    <2>8. /\ Sound(mem', Recurrent) /\ (Recurrent => mem'.lo = Len(tokens') - 1)
          /\ ~ Recurrent => mem'.lo = mem.lo \/ mem'.lo <= Len(tokens') - Window
      BY <2>5, <2>6, <2>7, DecodedSize
    <2>9. mem'.lo \in Nat
      BY <2>3, <2>5, <2>6, <2>7, ExtendedFacts DEF PlaceInv, Memory
    <2>10. CASE end < Len(task)
      <3>1. state' = "prompt" /\ done' = <<>>
        BY <2>2, <2>3, <2>4, <2>10
      <3>2. ASSUME Len(task) > NTail PROVE EndIsNear(Len(task))'
        <4>1. Len(tokens') < Len(task) /\ Len(tokens') \in Len(tokens) + 1..Len(task)
          BY <2>4, <2>5, <2>10
        <4>2. Len(tokens') >= Len(task) - 1 => /\ Len(tokens) >= Len(task) - NTail
                                               /\ mem.toks # <<>> => ckpts' = WithCheckpoint(Len(tokens))
          BY <2>4, <2>5
        <4> QED
          BY <4>1, <4>2, <3>2, <1>2, <2>8, <2>9, CheapBatchOn
      <3>3. (Len(task) > NTail)' <=> Len(task) > NTail
        BY <2>1, SameSizes
      <3> QED
        BY <3>1, <3>2, <3>3 DEF CheapInv
    <2>11. CASE end = Len(task)
      <3>1. state' = "generate" /\ done' = task
        BY <2>4, <2>11
      <3>2. Len(tokens) >= Len(task) - NTail /\ (mem.toks # <<>> => ckpts' = WithCheckpoint(Len(tokens)))
        BY <2>3, <2>4, <2>11
      <3>3. ASSUME Len(done') > NTail' PROVE KeptNear(Len(done))'
        <4>1. Window' = Window /\ NTail' = NTail
          BY <2>1, SameSizes
        <4>2. Len(task) > NTail
          BY <3>1, <3>3, <4>1
        <4>3. PICK i \in 1..Len(ckpts') :
                 /\ ckpts'[i].min = 0 \/ ckpts'[i].min < Len(task) - Window - 1
                 /\ \A j \in i..Len(ckpts') : ckpts'[j].n \in Len(task) - NTail..Len(task)
          BY <4>2, <3>2, <1>2, CheapBatchEnd
        <4>4. i \in i..Len(ckpts')
          BY <4>3
        <4>5. ckpts'[i].n \in Len(task) - NTail..Len(task)
          BY <4>3, <4>4
        <4> QED
          BY <4>1, <4>3, <4>5, <3>1 DEF KeptNear, Near, LowCell
      <3>4. done' \in Prompts /\ Len(done') <= Len(tokens') /\ \A i \in 1..Len(done') : tokens'[i] = done'[i]
        BY <3>1, <2>3, <2>5, <2>11
      <3>5. (Len(done) > NTail)' <=> Len(done') > NTail'
        OBVIOUS
      <3> QED
        BY <3>1, <3>3, <3>4, <3>5 DEF CheapInv
    <2> QED
      BY <2>3, <2>4, <2>10, <2>11
  <1>3. CASE Generate
    <2>1. /\ memory' = memory /\ ckpts' = ckpts /\ done' = done /\ state' = "generate"
          /\ \E t \in Generated : tokens' = Append(tokens, t)
      BY <1>3 DEF Generate
    <2>2. PICK t \in Generated : tokens' = Append(tokens, t)
      BY <2>1
    <2>3. t \in Token /\ tokens \in Seq(Token) /\ Len(tokens) \in Nat
      BY SlotParameters, LenProperties DEF PlaceInv
    <2>4. Len(tokens') = Len(tokens) + 1 /\ \A i \in 1..Len(tokens) : tokens'[i] = tokens[i]
      BY <2>2, <2>3, AppendProperties
    <2>5. KeptNear(Len(done)) => KeptNear(Len(done))'
      BY <2>1, SameSizes DEF KeptNear, Near, LowCell
    <2>6. (Len(done) > NTail)' <=> Len(done) > NTail
      BY <2>1, SameSizes
    <2>7. ASSUME done # <<>>
          PROVE  /\ done' \in Prompts /\ Len(done') <= Len(tokens') /\ \A i \in 1..Len(done') : tokens'[i] = done'[i]
                 /\ Len(done') > NTail' => KeptNear(Len(done))'
      <3>1. /\ done \in Prompts /\ Len(done) <= Len(tokens) /\ \A i \in 1..Len(done) : tokens[i] = done[i]
            /\ Len(done) > NTail => KeptNear(Len(done))
        BY <2>7 DEF CheapInv
      <3>2. Len(done) \in Nat
        BY <3>1, SlotParameters, LenProperties DEF PlaceInv
      <3>3. Len(done) <= Len(tokens') /\ \A i \in 1..Len(done) : tokens'[i] = done[i]
        BY <3>1, <3>2, <2>3, <2>4
      <3> QED
        BY <3>1, <3>3, <2>1, <2>5, <2>6
    <2> QED
      BY <2>1, <2>7 DEF CheapInv
  <1>4. CASE Release
    <2>1. state' = "idle" /\ UNCHANGED <<memory, tokens, mem, ckpts, done>>
      BY <1>4 DEF Release
    <2>2. (KeptNear(Len(done)) => KeptNear(Len(done))') /\ ((Len(done) > NTail)' <=> Len(done) > NTail)
      BY <2>1, SameSizes DEF KeptNear, Near, LowCell
    <2> QED
      BY <2>1, <2>2 DEF CheapInv
  <1>5. CASE UNCHANGED checkpointVars
    <2>1. UNCHANGED <<memory, state, task, tokens, mem, ckpts, done>>
      BY <1>5 DEF checkpointVars
    <2>2. (KeptNear(Len(done)) => KeptNear(Len(done))') /\ ((Len(done) > NTail)' <=> Len(done) > NTail)
      BY <2>1, SameSizes DEF KeptNear, Near, LowCell
    <2>3. (EndIsNear(Len(task)) => EndIsNear(Len(task))') /\ ((Len(task) > NTail)' <=> Len(task) > NTail)
      BY <2>1, SameSizes DEF EndIsNear, Near, LowCell
    <2> QED
      BY <2>1, <2>2, <2>3 DEF CheapInv
  <1> QED
    BY <1>1, <1>2, <1>3, <1>4, <1>5 DEF CheckpointNext

\* A text shares all of its tokens with one that it begins.
LEMMA CommonAll ==
    ASSUME NEW S, NEW p \in Seq(S), NEW q \in Seq(S), Len(q) <= Len(p), \A i \in 1..Len(q) : p[i] = q[i]
    PROVE  Common(p, q) = Len(q)
  <1> DEFINE b == Least(Len(p), Len(q))
             T == {n \in 0..b : SubSeq(p, 1, n) = SubSeq(q, 1, n)}
  <1>1. Len(p) \in Nat /\ Len(q) \in Nat /\ b = Len(q)
    BY LenProperties DEF Least
  <1>2. Common(p, q) = Max(T)
    BY DEF Common, Max, Max
  <1>3. SubSeq(p, 1, Len(q)) = SubSeq(q, 1, Len(q))
    BY <1>1, SamePrefix
  <1>4. Len(q) \in T /\ T \subseteq 0..b
    BY <1>1, <1>3
  <1> HIDE DEF b, T
  <1>5. Max(T) \in T /\ \A y \in T : y <= Max(T)
    BY <1>1, <1>4, Extremes
  <1>6. Max(T) \in 0..Len(q) /\ Len(q) <= Max(T)
    BY <1>1, <1>4, <1>5
  <1> QED
    BY <1>1, <1>2, <1>6

\* The checkpoint that is chosen is near the end, if there is one.
LEMMA ChosenNear ==
    ASSUME PlaceInv, SizeInv, NEW n \in Nat, NTail \in Nat, NEW i \in 1..Len(ckpts), Usable(ckpts[i], n),
           \A j \in i..Len(ckpts) : ckpts[j].n \in n - NTail..n
    PROVE  /\ Chosen(n) # {}
           /\ \A k \in Chosen(n) : k \in 1..Len(ckpts) /\ ckpts[k].n \in n - NTail..n /\ ckpts[k].max = ckpts[k].n - 1
  <1>1. ckpts \in Seq(Saved) /\ Len(ckpts) \in Nat /\ DOMAIN ckpts = 1..Len(ckpts)
    BY LenProperties DEF PlaceInv
  <1> DEFINE T == {j \in 1..Len(ckpts) : Usable(ckpts[j], n)}
  <1>2. T \subseteq 0..Len(ckpts) /\ i \in T
    BY <1>1
  <1>3. T # {}
    BY <1>2
  <1>4. \A j \in 1..Len(ckpts) : Usable(ckpts[j], n) <=> j \in T
    OBVIOUS
  <1> HIDE DEF T
  <1>5. Max(T) \in T /\ \A y \in T : y <= Max(T)
    BY <1>1, <1>2, <1>3, Extremes
  <1>6. PICK m \in T : \A y \in T : y <= m
    BY <1>5
  <1>7. m \in 1..Len(ckpts)
    BY <1>6 DEF T
  <1>8. m \in Chosen(n)
    <2>1. ASSUME NEW j \in m + 1..Len(ckpts) PROVE ~ Usable(ckpts[j], n)
      <3>1. j \in 1..Len(ckpts) /\ j > m
        BY <1>7, <1>1
      <3> QED
        BY <3>1, <1>4, <1>6, <1>7
    <2> QED
      BY <2>1, <1>1, <1>4, <1>6, <1>7 DEF Chosen
  <1>9. ASSUME NEW k \in Chosen(n)
        PROVE  k \in 1..Len(ckpts) /\ ckpts[k].n \in n - NTail..n /\ ckpts[k].max = ckpts[k].n - 1
    <2>1. k \in 1..Len(ckpts) /\ \A j \in k + 1..Len(ckpts) : ~ Usable(ckpts[j], n)
      BY <1>1 DEF Chosen
    <2>2. ~ i \in k + 1..Len(ckpts)
      BY <2>1
    <2>3. k \in i..Len(ckpts)
      BY <2>1, <2>2, <1>1
    <2>4. IsSaved(ckpts[k], Recurrent)
      BY <2>1 DEF SizeInv
    <2> QED
      BY <2>1, <2>3, <2>4 DEF IsSaved
  <1> QED
    BY <1>8, <1>9

\* A checkpoint near the end of a prompt resumes there.
LEMMA PastNear ==
    ASSUME NEW l \in Nat, NEW t \in Nat, l <= t, NEW a \in Nat, NEW b \in Nat, b + 1 <= l
    PROVE  Least(Least(Least(l, Most(a + 1, b)), t), b + 1) \in b..l
  <1> DEFINE y == Most(a + 1, b)
             x == Least(l, y)
  <1>1. y \in Nat /\ y >= b
    BY DEF Most
  <1> HIDE DEF y
  <1>2. x \in b..l
    BY <1>1 DEF Least
  <1> HIDE DEF x
  <1>3. Least(Least(x, t), b + 1) \in b..l
    BY <1>2 DEF Least
  <1> QED
    BY <1>3 DEF x, y

\* A prompt that is sent again keeps all but its end.
LEMMA CheapStart ==
    ASSUME PlaceInv, SizeInv, CheapInv, EnoughKept, Start, task' = done
    PROVE  Len(tokens') >= Len(task') - NTail - 1
  <1> DEFINE L == Len(task')
             n == Common(tokens, task')
             W == Window
  <1>1. task' \in Prompts /\ Len(tokens') = Kept /\ tokens \in Seq(Token) /\ task' \in Seq(Token) /\ Len(task') \in 1..MaxLen
    BY StartFacts, SlotParameters DEF PlaceInv
  <1>2. /\ L \in Nat \ {0} /\ Len(tokens) \in Nat /\ NTail \in Nat /\ W \in Nat /\ mem \in Memory /\ mem.lo \in Nat
        /\ ckpts \in Seq(Saved) /\ Len(ckpts) \in Nat
    BY <1>1, SlotParameters, LenProperties DEF PlaceInv, Memory
  <1>3. done # <<>>
    BY <1>2
  <1>4. /\ L <= Len(tokens) /\ \A j \in 1..L : tokens[j] = task'[j]
        /\ L > NTail => KeptNear(L)
    BY <1>3 DEF CheapInv
  <1>5. n = L
    BY <1>1, <1>4, CommonAll
  <1>6. Kept \in Nat /\ Kept = IF Resumed.past = L THEN Resumed.past - 1 ELSE Resumed.past
    BY <1>1, KeptFacts DEF Kept
  <1> DEFINE past == Resumed.past
  <1>7. /\ n # 0 /\ PosMin(mem) < Threshold(n) => past = n
        /\ n # 0 /\ ~ (PosMin(mem) < Threshold(n)) /\ Chosen(n) # {} =>
             \E k \in Chosen(n) : past = Least(Least(NextPos(ckpts[k], n), Len(tokens)), ckpts[k].n)
    <2>1. ASSUME n # 0, PosMin(mem) < Threshold(n) PROVE past = n
      BY <2>1 DEF Resumed
    <2>2. ASSUME n # 0, ~ (PosMin(mem) < Threshold(n)), Chosen(n) # {}
          PROVE  \E k \in Chosen(n) : past = Least(Least(NextPos(ckpts[k], n), Len(tokens)), ckpts[k].n)
      <3> DEFINE k == CHOOSE k \in Chosen(n) : TRUE
      <3>1. k \in Chosen(n)
        BY <2>2
      <3>2. Resumed = [past |-> Least(Least(NextPos(ckpts[k], n), Len(tokens)), ckpts[k].n), next |-> NextPos(ckpts[k], n),
                       mem |-> ckpts[k].mem]
        BY <2>2 DEF Resumed
      <3> QED
        BY <3>1, <3>2
    <2> QED
      BY <2>1, <2>2
  <1>8. Threshold(n) = IF L - W - 1 > 0 THEN L - W - 1 ELSE 0
    BY <1>2, <1>5 DEF Threshold, Most
  <1> HIDE DEF n, past
  <1>9. CASE L <= NTail
    BY <1>1, <1>2, <1>6, <1>9
  <1>10. CASE L > NTail /\ PosMin(mem) < Threshold(n)
    <2>1. past = L
      BY <1>2, <1>5, <1>7, <1>10
    <2>2. Kept = L - 1
      BY <2>1, <1>6 DEF past
    <2> QED
      BY <2>2, <1>1, <1>2
  <1>11. CASE L > NTail /\ ~ (PosMin(mem) < Threshold(n))
    <2>1. PICK i \in 1..Len(ckpts) : Near(ckpts[i], L) /\ \A j \in i..Len(ckpts) : ckpts[j].n \in L - NTail..L
      BY <1>4, <1>11 DEF KeptNear
    <2>2. Usable(ckpts[i], n)
      <3>1. ckpts[i].n \in L - NTail..L /\ (ckpts[i].min = 0 \/ ckpts[i].min < L - W - 1)
        BY <2>1 DEF Near, LowCell
      <3>2. ckpts[i].max = ckpts[i].n - 1
        BY DEF SizeInv, IsSaved
      <3>3. ckpts[i].min \in Nat
        <4>1. ckpts[i] \in Saved
          BY <1>2, ElementOfSeq
        <4> QED
          BY <4>1 DEF Saved
      <3> QED
        BY <3>1, <3>2, <3>3, <1>2, <1>5, <1>8 DEF Usable
    <2>3. /\ Chosen(n) # {}
          /\ \A k \in Chosen(n) : k \in 1..Len(ckpts) /\ ckpts[k].n \in L - NTail..L /\ ckpts[k].max = ckpts[k].n - 1
      BY <2>1, <2>2, <1>2, <1>5, ChosenNear
    <2>4. PICK k \in Chosen(n) : past = Least(Least(NextPos(ckpts[k], n), Len(tokens)), ckpts[k].n)
      BY <2>3, <1>2, <1>5, <1>7, <1>11
    <2>5. PICK c \in Saved : c = ckpts[k] /\ c.n \in L - NTail..L /\ c.max = c.n - 1
      BY <2>3, <1>2, ElementOfSeq
    <2>6. c.min \in Nat /\ c.max \in Nat
      BY DEF Saved
    <2>7. c.n = c.max + 1 /\ c.max + 1 <= L /\ c.max >= L - NTail - 1
      BY <2>5, <2>6, <1>2
    <2>8. past = Least(Least(Least(L, Most(c.min + 1, c.max)), Len(tokens)), c.max + 1)
      BY <2>4, <2>5, <2>7, <1>5 DEF NextPos
    <2>9. past \in c.max..L
      BY <2>6, <2>7, <2>8, <1>2, <1>4, PastNear
    <2>10. Kept = IF past = L THEN past - 1 ELSE past
      BY <1>6 DEF past
    <2>11. Kept >= L - NTail - 1
      BY <2>6, <2>7, <2>9, <2>10, <1>2
    <2> QED
      BY <2>11, <1>1
  <1> QED
    BY <1>2, <1>9, <1>10, <1>11

(* A prompt that is sent again is not decoded again but for the few tokens *)
(* behind the checkpoint near its end, for all models, sizes and prompts   *)
(* for which one is taken that the memory does not outlive                 *)
(* (checkpoint_offsets and pos_min_thold in server_context_impl).          *)
THEOREM ResendsAreCheap == CheckpointSpec /\ EnoughKept => ResentIsCheap
  <1> DEFINE Cheap == PlaceInv /\ SizeInv /\ CheapInv /\ EnoughKept
  <1>1. CheckpointInit /\ EnoughKept => Cheap
    <2> SUFFICES ASSUME CheckpointInit PROVE PlaceInv /\ SizeInv /\ CheapInv
      OBVIOUS
    <2>1. PlaceInv
      BY PlaceInit
    <2>2. tokens = <<>> /\ ckpts = <<>> /\ mem = [toks |-> <<>>, lo |-> 0] /\ state = "idle" /\ done = <<>>
      BY DEF CheckpointInit, NoMem
    <2>3. mem.toks = <<>> /\ mem.lo = 0 /\ Len(tokens) = 0 /\ Len(mem.toks) = 0 /\ Len(ckpts) = 0
      BY <2>2
    <2>4. SizeInv
      BY <2>3 DEF SizeInv, Sound
    <2> QED
      BY <2>1, <2>2, <2>4 DEF CheapInv
  <1>2. Cheap /\ [CheckpointNext]_checkpointVars => Cheap'
    <2> SUFFICES ASSUME Cheap, [CheckpointNext]_checkpointVars PROVE Cheap'
      OBVIOUS
    <2>1. memory' = memory
      BY DEF CheckpointNext, Start, Batch, Generate, Release, checkpointVars
    <2>2. EnoughKept'
      BY <2>1, SameSizes DEF EnoughKept
    <2> QED
      BY <2>2, PlaceStep, SizeStep, CheapStep
  <1>3. Cheap /\ [CheckpointNext]_checkpointVars =>
            [Start /\ task' = done => Len(tokens') >= Len(task') - NTail - 1]_checkpointVars
    BY CheapStart
  <1> QED
    BY <1>1, <1>2, <1>3, PTL DEF CheckpointSpec, ResentIsCheap

===============================================================================
