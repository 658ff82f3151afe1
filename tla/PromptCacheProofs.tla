--------------------------- MODULE PromptCacheProofs ---------------------------
(* For every number of slots, every set of requests, adapters and limits:  *)
(* slots and cached prompts keep tokens and cells together, the cache      *)
(* keeps its limit and no obsolete prompt, and a prompt that makes way is  *)
(* still there afterwards.                                                 *)
EXTENDS PromptCache, ProofLemmas

Texts  == {p \in Seq(Token) : Len(p) <= MaxLen}
Loras  == SUBSET DOMAIN Invocation
States == {c \in Seq([tok : Token, with : Loras]) : Len(c) <= MaxLen}

(* The types of a slot and of an entry, and that tokens and cells agree.   *)
SlotRec == [tokens : Texts, cells : States, lora : Loras, start : -1..MaxLen,
            req : Requests \cup {NoRequest}, ready : BOOLEAN]

(* A slot without tokens may still have cells, until its next task starts. *)
Follows(x) == Restorable => Text(x.cells) = x.tokens \/ (x.tokens = <<>> /\ ~ x.ready)

GoodSlot(x) == x \in SlotRec /\ (x.ready => x.req # NoRequest) /\ Follows(x)

(* A file holds what a slot without a request had.                         *)
GoodFile(x) ==
    /\ x \in [tokens : Texts, data : States]
    /\ Restorable => x.tokens = <<>> \/ Text(x.data) = x.tokens

Entries == {e \in [tokens : Texts, data : States, drft : {HasDraft}] : Restorable => Text(e.data) = e.tokens}

(* No entry is covered by another one.                                     *)
Apart(q) == \A i, j \in DOMAIN q : i # j => ~ IsPrefix(q[i].tokens, q[j].tokens)

GoodCaches(lim) == {q \in Seq(Entries) : Apart(q) /\ (lim > 0 => Size(q) <= lim)}

PromptInv ==
    /\ setup \in Setups
    /\ slots = [s \in Slots |-> slots[s]] /\ \A s \in Slots : GoodSlot(slots[s])
    /\ lru \in Seq(Slots) /\ Len(lru) = NSlots /\ \A s \in Slots : Occ(lru, {s}) = 1
    /\ limit \in Nat /\ cache \in GoodCaches(limit)
    /\ global \in Loras
    /\ files = [f \in Files |-> files[f]] /\ \A f \in Files : GoodFile(files[f])

-----------------------------------------------------------------------------
\* The parameters of the server.
LEMMA Parameters ==
    ASSUME setup \in Setups
    PROVE  /\ NSlots \in Nat \ {0} /\ MaxLen \in Nat /\ Limit0 \in Nat /\ Similarity \in Nat /\ Global0 \in Loras
           /\ HasDraft \in BOOLEAN /\ Globals \subseteq Loras
           /\ \A r \in Requests :
                 /\ r.prompt \in Texts /\ Len(r.prompt) \in 1..MaxLen /\ r.prompt # <<>>
                 /\ r.slot = AnySlot \/ r.slot \in Slots
                 /\ r.lora = Default \/ r.lora \in Loras
                 /\ r # NoRequest
  <1>1. NSlots \in Nat \ {0} /\ MaxLen \in Nat /\ Limit0 \in Nat /\ Similarity \in Nat /\ Global0 \in Loras
        /\ HasDraft \in BOOLEAN /\ Globals \subseteq Loras
    BY SetupAssumption DEF NSlots, MaxLen, Limit0, Similarity, Global0, HasDraft, Globals, Loras
  <1>2. ASSUME NEW r \in Requests
        PROVE  /\ r.prompt \in Texts /\ Len(r.prompt) \in 1..MaxLen /\ r.prompt # <<>>
               /\ r.slot = AnySlot \/ r.slot \in Slots
               /\ r.lora = Default \/ r.lora \in Loras
               /\ r # NoRequest
    <2>1. /\ r.prompt \in Seq(Token) /\ Len(r.prompt) \in 1..MaxLen /\ r.slot \in 0..NSlots
          /\ r.lora = Default \/ r.lora \subseteq DOMAIN Invocation
      BY <1>2, SetupAssumption DEF Requests, MaxLen, NSlots
    <2>2. r.prompt # <<>>
      <3>1. Len(<<>>) = 0
        BY EmptySeq
      <3> QED
        BY <3>1, <2>1
    <2>3. r # NoRequest
      <3>1. NoRequest.prompt = <<>>
        BY DEF NoRequest
      <3> QED
        BY <3>1, <2>2
    <2>4. r.slot = AnySlot \/ r.slot \in Slots
      BY <2>1, <1>1 DEF AnySlot, Slots
    <2> QED
      BY <2>1, <2>2, <2>3, <2>4, <1>1 DEF Texts, Loras
  <1> QED
    BY <1>1, <1>2

\* Nothing that is derived from the parameters changes.
LEMMA Rigid ==
    ASSUME setup' = setup
    PROVE  /\ Slots' = Slots /\ NSlots' = NSlots /\ Files' = Files /\ Loras' = Loras
           /\ \A x : GoodSlot(x)' = GoodSlot(x)
           /\ \A x : GoodFile(x)' = GoodFile(x)
           /\ \A lim : GoodCaches(lim)' = GoodCaches(lim)
  <1>1. /\ Slots' = Slots /\ NSlots' = NSlots /\ Files' = Files /\ Loras' = Loras
        /\ MaxLen' = MaxLen /\ Requests' = Requests /\ HasDraft' = HasDraft /\ Faults' = Faults
    BY DEF Slots, NSlots, Files, Loras, MaxLen, Requests, HasDraft, Faults
  <1>2. Texts' = Texts /\ States' = States /\ Restorable' = Restorable
    BY <1>1 DEF Texts, States, Restorable
  <1>3. SlotRec' = SlotRec /\ Entries' = Entries
    BY <1>1, <1>2 DEF SlotRec, Entries
  <1>4. \A x : GoodSlot(x)' = GoodSlot(x)
    BY <1>2, <1>3 DEF GoodSlot, Follows
  <1>5. \A x : GoodFile(x)' = GoodFile(x)
    BY <1>2 DEF GoodFile
  <1>6. \A lim : GoodCaches(lim)' = GoodCaches(lim)
    BY <1>3 DEF GoodCaches
  <1> QED
    BY <1>1, <1>4, <1>5, <1>6

-----------------------------------------------------------------------------
\* The length of the longest common prefix.
LEMMA CommonFacts ==
    ASSUME NEW S, NEW p \in Seq(S), NEW q \in Seq(S)
    PROVE  /\ Common(p, q) \in 0..Len(p) /\ Common(p, q) <= Len(q)
           /\ \A i \in 1..Common(p, q) : p[i] = q[i]
           /\ \A n \in 0..Len(p) : n <= Len(q) /\ (\A i \in 1..n : p[i] = q[i]) => n <= Common(p, q)
  <1> DEFINE T == {n \in 0..Len(p) : n <= Len(q) /\ SubSeq(p, 1, n) = SubSeq(q, 1, n)}
  <1>1. Len(p) \in Nat /\ Len(q) \in Nat
    BY LenProperties
  <1>2. T = {n \in 0..Len(p) : n <= Len(q) /\ \A i \in 1..n : p[i] = q[i]}
    BY SamePrefix
  <1>3. 0 \in T
    BY <1>1, <1>2
  <1>4. T \subseteq 0..Len(p) /\ T # {}
    BY <1>3
  <1>5. Common(p, q) = Max(T)
    BY DEF Common
  <1>6. Max(T) \in T /\ \A y \in T : y <= Max(T)
    <2> HIDE DEF T
    <2> QED
      BY <1>1, <1>4, Extremes
  <1> QED
    BY <1>2, <1>5, <1>6

\* The tokens of a list of cells.
LEMMA TextFacts ==
    ASSUME NEW c \in States
    PROVE  /\ Text(c) \in Seq(Token) /\ Len(Text(c)) = Len(c)
           /\ Len(c) \in 0..MaxLen /\ \A i \in 1..Len(c) : Text(c)[i] = c[i].tok
  <1>1. c \in Seq([tok : Token, with : Loras]) /\ Len(c) <= MaxLen
    BY DEF States
  <1>2. Len(c) \in Nat /\ DOMAIN c = 1..Len(c)
    BY <1>1, LenProperties
  <1>3. \A i \in 1..Len(c) : c[i] \in [tok : Token, with : Loras]
    BY <1>1, ElementOfSeq
  <1>4. Text(c) = [i \in 1..Len(c) |-> c[i].tok]
    BY <1>2 DEF Text
  <1>5. Text(c) \in [1..Len(c) -> Token]
    BY <1>3, <1>4
  <1> QED
    BY <1>1, <1>2, <1>4, <1>5, FunctionIsSeq

-----------------------------------------------------------------------------
(* The lists of cached prompts.                                            *)

Within(r, q) == \E g : Embeds(g, r, q)

\* The elements of a list that has its place in another one are elements of it.
LEMMA WithinFacts ==
    ASSUME NEW S, NEW r \in Seq(S), NEW q \in Seq(S), Within(r, q)
    PROVE  /\ \A i \in DOMAIN r : \E j \in DOMAIN q : r[i] = q[j]
           /\ Apart(q) => Apart(r)
  <1>1. PICK g : Embeds(g, r, q)
    BY DEF Within
  <1>2. DOMAIN r = 1..Len(r) /\ Len(r) \in Nat /\ DOMAIN q = 1..Len(q) /\ Len(q) \in Nat
    BY LenProperties
  <1>3. \A i \in 1..Len(r) : g[i] \in 1..Len(q) /\ r[i] = q[g[i]]
    BY <1>1 DEF Embeds
  <1>4. ASSUME Apart(q), NEW i \in 1..Len(r), NEW j \in 1..Len(r), i # j
        PROVE  ~ IsPrefix(r[i].tokens, r[j].tokens)
    <2>1. g[i] # g[j]
      <3>1. i < j \/ j < i
        BY <1>2, <1>4
      <3>2. g[i] < g[j] \/ g[j] < g[i]
        BY <3>1, <1>1 DEF Embeds
      <3> QED
        BY <3>2, <1>2, <1>3
    <2> QED
      BY <2>1, <1>2, <1>3, <1>4 DEF Apart
  <1> QED
    BY <1>2, <1>3, <1>4 DEF Apart

\* A list has its place in itself, and the empty one anywhere.
LEMMA WithinSelf ==
    ASSUME NEW S, NEW q \in Seq(S)
    PROVE  Within(q, q) /\ Within(<<>>, q) /\ <<>> \in Seq(S)
  <1>1. Len(q) \in Nat /\ Len(<<>>) = 0 /\ <<>> \in Seq(S)
    BY LenProperties, EmptySeq
  <1>2. Embeds([i \in 1..Len(q) |-> i], q, q)
    BY <1>1 DEF Embeds
  <1>3. Embeds([i \in 1..0 |-> i], <<>>, q)
    BY <1>1 DEF Embeds
  <1> QED
    BY <1>1, <1>2, <1>3 DEF Within

\* The size of a list is a number, and that of the empty one is 0.
LEMMA SizeFacts ==
    /\ Size(<<>>) = 0
    /\ \A q \in Seq(Entries) : Size(q) \in Nat
  <1>1. ASSUME NEW q \in Seq(Entries)
        PROVE  Size(q) \in Nat /\ (Len(q) = 0 => Size(q) = 0)
    <2> DEFINE N == Len(q)
               F == [i \in 1..N |-> [n \in Nat |-> n + Len(q[i].data)]]
               Step(f) == [i \in 0..N |-> IF i = 0 THEN 0 ELSE f[i - 1] + Len(q[i].data)]
    <2>1. N \in Nat
      BY LenProperties
    <2>2. ASSUME NEW i \in 1..N PROVE Len(q[i].data) \in Nat
      <3>1. q[i] \in Entries
        BY ElementOfSeq
      <3>2. q[i].data \in States
        BY <3>1 DEF Entries
      <3> QED
        BY <3>2, LenProperties DEF States
    <2>3. \A i \in 1..N, n \in Nat : F[i][n] = n + Len(q[i].data)
      OBVIOUS
    <2> HIDE DEF F
    <2>4. Stays(F, N, Nat)
      <3>1. ASSUME NEW i \in 1..N, NEW n \in Nat PROVE F[i][n] \in Nat
        <4>1. Len(q[i].data) \in Nat
          BY <2>2
        <4>2. F[i][n] = n + Len(q[i].data)
          BY <2>3
        <4> QED
          BY <4>1, <4>2
      <3> QED
        BY <3>1 DEF Stays
    <2> DEFINE a == 0
               S == Nat
    <2>5. a \in S /\ Stays(F, N, S) /\ \A f : f[0] = a <=> f[0] = 0
      BY <2>4
    <2> HIDE DEF a, S
    <2>6. PICK f : DOMAIN f = 0..N /\ Runs(f, F, N, S, a)
      BY <2>1, <2>5, Recursion
    <2>7. \A h : Runs(h, F, N, S, a) => \A i \in 0..N : h[i] \in S
      BY <2>1, <2>5, Recursion
    <2> DEFINE g == [i \in 0..N |-> f[i]]
    <2>8. g = Step(g)
      <3>1. ASSUME NEW i \in 0..N PROVE g[i] = Step(g)[i]
        <4>1. CASE i = 0
          BY <4>1, <2>5, <2>6 DEF Runs
        <4>2. CASE i # 0
          <5>1. i \in 1..N /\ i - 1 \in 0..N /\ f[i - 1] \in S
            BY <4>2, <2>1, <2>6, <2>7
          <5>2. f[i] = F[i][f[i - 1]]
            BY <5>1, <2>6 DEF Runs
          <5> QED
            BY <5>1, <5>2, <4>2, <2>3 DEF S
        <4> QED
          BY <4>1, <4>2
      <3> QED
        BY <3>1
    <2>9. PICK k : k = (CHOOSE h : h = Step(h)) /\ k = Step(k)
      BY <2>8
    <2>10. k[0] = 0 /\ k[N] \in Nat
      <3>1. \A i \in 0..N : k[i] = IF i = 0 THEN 0 ELSE k[i - 1] + Len(q[i].data)
        BY <2>9
      <3>2. k[0] = 0 /\ \A i \in 1..N : k[i] = k[i - 1] + Len(q[i].data)
        BY <3>1, <2>1
      <3>3. Runs(k, F, N, S, a)
        BY <3>2, <2>3, <2>5 DEF Runs, S
      <3> QED
        BY <3>2, <3>3, <2>1, <2>7 DEF S
    <2>11. Size(q) = k[N]
      BY <2>9 DEF Size
    <2> QED
      BY <2>1, <2>10, <2>11
  <1>2. <<>> \in Seq(Entries) /\ Len(<<>>) = 0
    BY EmptySeq
  <1> QED
    BY <1>1, <1>2

\* What fits is the end of the list and fits.
LEMMA FittingFacts ==
    ASSUME NEW q \in Seq(Entries), NEW bound \in Int
    PROVE  /\ Fitting(q, bound) \in Seq(Entries) /\ Within(Fitting(q, bound), q)
           /\ bound >= 0 => Size(Fitting(q, bound)) <= bound
  <1> DEFINE fits == {k \in 0..Len(q) : Size(SubSeq(q, k + 1, Len(q))) <= bound}
             rest == SubSeq(q, Min(fits) + 1, Len(q))
  <1>1. Len(q) \in Nat
    BY LenProperties
  <1>2. CASE fits = {}
    <2>1. Fitting(q, bound) = <<>>
      BY <1>2 DEF Fitting
    <2> QED
      BY <2>1, WithinSelf, SizeFacts
  <1>3. CASE fits # {}
    <2>1. Fitting(q, bound) = rest
      BY <1>3 DEF Fitting
    <2>2. fits \subseteq 0..Len(q)
      OBVIOUS
    <2>3. Min(fits) \in fits
      <3> HIDE DEF fits
      <3> QED
        BY <1>1, <1>3, <2>2, Extremes
    <2>4. Min(fits) \in 0..Len(q) /\ Size(rest) <= bound
      BY <2>3
    <2>5. rest \in Seq(Entries) /\ Within(rest, q)
      BY <2>4, SuffixEmbeds DEF Within
    <2> QED
      BY <2>1, <2>4, <2>5
  <1> QED
    BY <1>2, <1>3

\* update: the list fits afterwards.
LEMMA UpdatedFacts ==
    ASSUME NEW q \in Seq(Entries), NEW lim \in Nat
    PROVE  /\ Updated(q, lim) \in Seq(Entries) /\ Within(Updated(q, lim), q)
           /\ lim > 0 => Size(Updated(q, lim)) <= lim
           /\ Apart(q) => Updated(q, lim) \in GoodCaches(lim)
  <1>1. CASE lim > 0
    <2>1. Updated(q, lim) = Fitting(q, lim)
      BY <1>1 DEF Updated
    <2>2. lim \in Int /\ lim >= 0
      OBVIOUS
    <2>3. /\ Fitting(q, lim) \in Seq(Entries) /\ Within(Fitting(q, lim), q)
          /\ Size(Fitting(q, lim)) <= lim
      BY <2>2, FittingFacts
    <2>4. Apart(q) => Apart(Fitting(q, lim))
      BY <2>3, WithinFacts
    <2> QED
      BY <2>1, <2>3, <2>4 DEF GoodCaches
  <1>2. CASE ~ (lim > 0)
    BY <1>2, WithinSelf DEF Updated, GoodCaches
  <1> QED
    BY <1>1, <1>2

\* An entry of the list covers a text or none does.
LEMMA CoveredBy ==
    ASSUME NEW S, NEW q \in Seq(S), NEW t
    PROVE  Covered(q, t) <=> \E i \in 1..Len(q) : IsPrefix(t, q[i].tokens)
  <1>1. DOMAIN q = 1..Len(q)
    BY LenProperties
  <1> QED
    BY <1>1 DEF Covered, ToSet

\* alloc, before the entry is added: a part of the list, and nothing that the prompt extends.
LEMMA ClearedFacts ==
    ASSUME NEW q \in Seq(Entries), NEW x, x.tokens \in Texts, x.cells \in States, NEW lim \in Nat
    PROVE  /\ Cleared(q, x, lim) \in Seq(Entries) /\ Within(Cleared(q, x, lim), q)
           /\ \A i \in 1..Len(Cleared(q, x, lim)) : ~ IsPrefix(Cleared(q, x, lim)[i].tokens, x.tokens)
           /\ lim = 0 => \A i \in 1..Len(q) :
                 IsPrefix(q[i].tokens, x.tokens) \/ \E j \in 1..Len(Cleared(q, x, lim)) : Cleared(q, x, lim)[j] = q[i]
  <1> DEFINE D == {e \in ToSet(q) : IsPrefix(e.tokens, x.tokens)}
             u == Drop(q, D)
             n == lim - Len(x.cells)
             c == IF lim > 0 THEN Fitting(u, n) ELSE u
  <1>1. Cleared(q, x, lim) = c
    BY DEF Cleared
  <1>2. DOMAIN q = 1..Len(q) /\ Len(q) \in Nat
    BY LenProperties
  <1>3. \A i \in 1..Len(q) : q[i] \in D <=> IsPrefix(q[i].tokens, x.tokens)
    BY <1>2 DEF ToSet
  <1> HIDE DEF D
  <1>4. u \in Seq(Entries)
    BY DropFacts
  <1>5. PICK g : /\ Embeds(g, u, q)
                 /\ \A j \in 1..Len(u) : q[g[j]] \notin D
                 /\ \A i \in 1..Len(q) : q[i] \notin D => \E j \in 1..Len(u) : g[j] = i
    BY DropPlaces
  <1> HIDE DEF u
  <1>6. Within(u, q) /\ \A j \in 1..Len(u) : g[j] \in 1..Len(q) /\ u[j] = q[g[j]]
    BY <1>5 DEF Within, Embeds
  <1>7. \A j \in 1..Len(u) : ~ IsPrefix(u[j].tokens, x.tokens)
    BY <1>3, <1>5, <1>6
  <1>8. \A i \in 1..Len(q) : IsPrefix(q[i].tokens, x.tokens) \/ \E j \in 1..Len(u) : u[j] = q[i]
    <2> SUFFICES ASSUME NEW i \in 1..Len(q), ~ IsPrefix(q[i].tokens, x.tokens)
                 PROVE  \E j \in 1..Len(u) : u[j] = q[i]
      OBVIOUS
    <2>1. PICK j \in 1..Len(u) : g[j] = i
      BY <1>3, <1>5
    <2> QED
      BY <2>1, <1>6
  <1>9. CASE lim > 0
    <2>1. Len(x.cells) \in Nat
      BY LenProperties DEF States
    <2>2. n \in Int
      BY <2>1
    <2> HIDE DEF n
    <2>3. Fitting(u, n) \in Seq(Entries) /\ Within(Fitting(u, n), u)
      BY <1>4, <2>2, FittingFacts
    <2>4. Within(Fitting(u, n), q)
      BY <1>4, <1>6, <2>3, EmbedsTrans DEF Within
    <2>5. \A i \in DOMAIN Fitting(u, n) : \E j \in DOMAIN u : Fitting(u, n)[i] = u[j]
      BY <1>4, <2>3, WithinFacts
    <2>6. DOMAIN Fitting(u, n) = 1..Len(Fitting(u, n)) /\ DOMAIN u = 1..Len(u)
      BY <1>4, <2>3, LenProperties
    <2>7. \A i \in 1..Len(Fitting(u, n)) : ~ IsPrefix(Fitting(u, n)[i].tokens, x.tokens)
      BY <1>7, <2>5, <2>6
    <2>8. c = Fitting(u, n) /\ lim # 0
      BY <1>9
    <2> HIDE DEF c
    <2> QED
      BY <1>1, <2>3, <2>4, <2>7, <2>8
  <1>10. CASE ~ (lim > 0)
    <2>1. c = u
      BY <1>10
    <2> HIDE DEF c
    <2> QED
      BY <1>1, <1>4, <1>6, <1>7, <1>8, <2>1
  <1> QED
    BY <1>9, <1>10

\* What becomes an entry.
LEMMA EntryFacts ==
    ASSUME NEW x, GoodSlot(x), x.tokens # <<>>, HasDraft \in BOOLEAN
    PROVE  EntryOf(x) \in Entries /\ EntryOf(x).tokens = x.tokens
  <1>1. x.tokens \in Texts /\ x.cells \in States
    BY DEF GoodSlot, SlotRec
  <1>2. Restorable => Text(x.cells) = x.tokens
    BY DEF GoodSlot, Follows
  <1> QED
    BY <1>1, <1>2 DEF Entries, EntryOf

\* prompt_save keeps the list in order.
LEMMA SavedFacts ==
    ASSUME setup \in Setups, NEW q \in Seq(Entries), Apart(q), NEW x, GoodSlot(x), NEW lim \in Nat
    PROVE  Saved(q, x, lim) \in Seq(Entries) /\ Apart(Saved(q, x, lim))
  <1>1. CASE x.tokens = <<>> \/ ~ Worth(q, x, lim)
    BY <1>1 DEF Saved
  <1>2. CASE x.tokens # <<>> /\ Worth(q, x, lim)
    <2> DEFINE c == Cleared(q, x, lim)
               e == EntryOf(x)
               a == Append(c, e)
    <2>1. Saved(q, x, lim) = a
      BY <1>2 DEF Saved
    <2>2. x.tokens \in Texts /\ x.cells \in States
      BY DEF GoodSlot, SlotRec
    <2>3. e \in Entries /\ e.tokens = x.tokens
      BY <1>2, Parameters, EntryFacts
    <2>4. c \in Seq(Entries) /\ Within(c, q) /\ \A i \in 1..Len(c) : ~ IsPrefix(c[i].tokens, x.tokens)
      BY <2>2, ClearedFacts
    <2>5. ~ Covered(q, x.tokens)
      BY <1>2 DEF Worth
    <2> HIDE DEF c, e
    <2>6. Len(c) \in Nat /\ DOMAIN c = 1..Len(c) /\ DOMAIN q = 1..Len(q)
      BY <2>4, LenProperties
    <2>7. \A i \in 1..Len(c) : ~ IsPrefix(x.tokens, c[i].tokens)
      <3>1. \A i \in 1..Len(c) : \E j \in 1..Len(q) : c[i] = q[j]
        BY <2>4, <2>6, WithinFacts
      <3> QED
        BY <3>1, <2>5, CoveredBy
    <2>8. Apart(c)
      BY <2>4, WithinFacts
    <2>9. /\ a \in Seq(Entries) /\ Len(a) = Len(c) + 1 /\ a[Len(c) + 1] = e
          /\ \A i \in 1..Len(c) : a[i] = c[i]
      BY <2>3, <2>4, AppendProperties
    <2>10. DOMAIN a = 1..Len(c) + 1
      BY <2>9, LenProperties
    <2> HIDE DEF a
    <2>11. ASSUME NEW i \in 1..Len(c) + 1, NEW j \in 1..Len(c) + 1, i # j
           PROVE  ~ IsPrefix(a[i].tokens, a[j].tokens)
      <3>1. CASE i = Len(c) + 1
        <4>1. j \in 1..Len(c)
          BY <3>1, <2>6, <2>11
        <4> QED
          BY <3>1, <4>1, <2>3, <2>7, <2>9
      <3>2. CASE j = Len(c) + 1
        <4>1. i \in 1..Len(c)
          BY <3>2, <2>6, <2>11
        <4> QED
          BY <3>2, <4>1, <2>3, <2>4, <2>9
      <3>3. CASE i # Len(c) + 1 /\ j # Len(c) + 1
        <4>1. i \in 1..Len(c) /\ j \in 1..Len(c)
          BY <3>3, <2>6, <2>11
        <4> QED
          BY <4>1, <2>6, <2>8, <2>9, <2>11 DEF Apart
      <3> QED
        BY <3>1, <3>2, <3>3
    <2> QED
      BY <2>1, <2>9, <2>10, <2>11 DEF Apart
  <1> QED
    BY <1>1, <1>2

\* load: the entry that is taken has more of the task's prompt than the slot.
LEMMA BestFacts ==
    ASSUME NEW q \in Seq(Entries), NEW t \in Texts, NEW p \in Texts
    PROVE  /\ BestEntry(q, t, p) \in 0..Len(q)
           /\ BestEntry(q, t, p) # 0 => Common(t, p) < Common(q[BestEntry(q, t, p)].tokens, p)
  <1> DEFINE N == Len(q)
             own(i) == IF i = 0 THEN t ELSE q[i].tokens
             lcp(i) == Common(own(i), p)
             Better(i, b) ==
                 /\ 4 * lcp(i) >= Len(q[i].tokens)
                 /\ (b = 0 /\ t = <<>>) \/ lcp(b) * Len(own(i)) < lcp(i) * Len(own(b))
                 /\ lcp(b) < lcp(i)
             S == {i \in 0..N : i = 0 \/ lcp(0) < lcp(i)}
             F == [i \in 1..N |-> [b \in S |-> IF Better(i, b) THEN i ELSE b]]
             Step(f) == [i \in 0..N |-> IF i = 0 THEN 0 ELSE IF Better(i, f[i - 1]) THEN i ELSE f[i - 1]]
  <1>1. N \in Nat
    BY LenProperties
  <1>2. ASSUME NEW i \in 0..N PROVE lcp(i) \in Nat
    <2>1. own(i) \in Seq(Token)
      <3>1. CASE i = 0
        BY <3>1 DEF Texts
      <3>2. CASE i # 0
        <4>1. q[i] \in Entries
          BY <3>2, <1>1, ElementOfSeq
        <4> QED
          BY <4>1, <3>2 DEF Entries, Texts
      <3> QED
        BY <3>1, <3>2
    <2> HIDE DEF own
    <2>2. Len(own(i)) \in Nat /\ p \in Seq(Token)
      BY <2>1, LenProperties DEF Texts
    <2>3. Common(own(i), p) \in 0..Len(own(i))
      BY <2>1, <2>2, CommonFacts
    <2> QED
      BY <2>2, <2>3
  <1>3. \A i, b : Better(i, b) => lcp(b) < lcp(i)
    OBVIOUS
  <1>4. BestEntry(q, t, p) = (CHOOSE h : h = Step(h))[N]
    BY DEF BestEntry
  <1>5. lcp(0) = Common(t, p) /\ \A i \in 1..N : lcp(i) = Common(q[i].tokens, p)
    BY <1>1
  <1> HIDE DEF lcp, own, Better
  <1>6. \A i \in 1..N, b \in S : F[i][b] = IF Better(i, b) THEN i ELSE b
    OBVIOUS
  <1>7. Stays(F, N, S) /\ 0 \in S
    <2>1. ASSUME NEW i \in 1..N, NEW b \in S PROVE F[i][b] \in S
      <3>1. CASE Better(i, b)
        <4>1. i \in 0..N /\ b \in 0..N /\ 0 \in 0..N /\ F[i][b] = i
          BY <3>1, <1>1, <1>6
        <4>2. lcp(b) < lcp(i) /\ (b = 0 \/ lcp(0) < lcp(b))
          BY <3>1, <1>3
        <4>3. lcp(i) \in Nat /\ lcp(b) \in Nat /\ lcp(0) \in Nat
          BY <4>1, <1>2
        <4>4. lcp(0) < lcp(i)
          BY <4>2, <4>3
        <4> QED
          BY <4>1, <4>4
      <3>2. CASE ~ Better(i, b)
        BY <3>2, <1>6
      <3> QED
        BY <3>1, <3>2
    <2> HIDE DEF F, S
    <2>2. Stays(F, N, S)
      BY <2>1 DEF Stays
    <2> QED
      BY <2>2, <1>1 DEF S
  <1>8. \A b \in S : b \in 0..N /\ (b # 0 => lcp(0) < lcp(b))
    OBVIOUS
  <1> DEFINE a == 0
  <1>9. a \in S /\ \A f : f[0] = a <=> f[0] = 0
    BY <1>7
  <1> HIDE DEF F, S, a
  <1>10. PICK f : DOMAIN f = 0..N /\ Runs(f, F, N, S, a)
    BY <1>1, <1>7, <1>9, Recursion
  <1>11. \A h : Runs(h, F, N, S, a) => \A i \in 0..N : h[i] \in S
    BY <1>1, <1>7, <1>9, Recursion
  <1> DEFINE g == [i \in 0..N |-> f[i]]
  <1>12. g = Step(g)
    <2>1. ASSUME NEW i \in 0..N PROVE g[i] = Step(g)[i]
      <3>1. CASE i = 0
        BY <3>1, <1>9, <1>10 DEF Runs
      <3>2. CASE i # 0
        <4>1. i \in 1..N /\ i - 1 \in 0..N /\ f[i - 1] \in S
          BY <3>2, <1>1, <1>10, <1>11
        <4>2. f[i] = F[i][f[i - 1]]
          BY <4>1, <1>10 DEF Runs
        <4> QED
          BY <4>1, <4>2, <3>2, <1>6
      <3> QED
        BY <3>1, <3>2
    <2> QED
      BY <2>1
  <1>13. PICK k : k = (CHOOSE h : h = Step(h)) /\ k = Step(k)
    BY <1>12
  <1>14. \A i \in 0..N : k[i] = IF i = 0 THEN 0 ELSE IF Better(i, k[i - 1]) THEN i ELSE k[i - 1]
    BY <1>13
  <1>15. k[0] = 0 /\ \A i \in 1..N : k[i] = IF Better(i, k[i - 1]) THEN i ELSE k[i - 1]
    BY <1>1, <1>14
  <1>16. Runs(k, F, N, S, a)
    BY <1>15, <1>6, <1>9 DEF Runs
  <1>17. k[N] \in S /\ BestEntry(q, t, p) = k[N]
    BY <1>1, <1>4, <1>11, <1>13, <1>16
  <1>18. k[N] \in 0..N /\ (k[N] # 0 => lcp(0) < lcp(k[N]))
    BY <1>8, <1>17
  <1>19. k[N] # 0 => k[N] \in 1..N
    BY <1>18, <1>1
  <1> QED
    BY <1>5, <1>17, <1>18, <1>19

\* What holds of the cache, and is kept when an idle slot is saved, holds after all of them are.
LEMMA SavedIdleStays ==
    ASSUME setup \in Setups, NEW S, NEW q \in S, NEW lim, NEW now,
           \A c \in S : \A s \in Slots : now[s].req = NoRequest => Updated(Saved(c, now[s], lim), lim) \in S
    PROVE  IdleSaved(q, lim, now) \in S
  <1> DEFINE N == NSlots
             Do(s, c) == IF now[s].req # NoRequest THEN c ELSE Updated(Saved(c, now[s], lim), lim)
             F == [i \in 1..N |-> [c \in S |-> Do(i, c)]]
             Step(f) == [i \in 0..N |-> IF i = 0 THEN q ELSE Do(i, f[i - 1])]
  <1>1. N \in Nat /\ Slots = 1..N
    BY Parameters DEF Slots
  <1>2. \A i \in 1..N, c \in S : Do(i, c) \in S
    BY <1>1
  <1>3. SavedIdle(q, lim, now) = (CHOOSE h : h = Step(h))[N]
    <2>1. \A f : Step(f) = [i \in 0..N |-> IF i = 0 THEN q
                                           ELSE IF now[i].req # NoRequest THEN f[i - 1]
                                           ELSE Updated(Saved(f[i - 1], now[i], lim), lim)]
      OBVIOUS
    <2> HIDE DEF Step
    <2> QED
      BY <2>1 DEF SavedIdle
  <1> HIDE DEF Do
  <1>4. \A i \in 1..N, c \in S : F[i][c] = Do(i, c)
    OBVIOUS
  <1> HIDE DEF F
  <1>5. Stays(F, N, S)
    BY <1>2, <1>4 DEF Stays
  <1>6. PICK f : DOMAIN f = 0..N /\ Runs(f, F, N, S, q)
    BY <1>1, <1>5, Recursion
  <1>7. \A h : Runs(h, F, N, S, q) => \A i \in 0..N : h[i] \in S
    BY <1>1, <1>5, Recursion
  <1> DEFINE g == [i \in 0..N |-> f[i]]
  <1>8. g = Step(g)
    <2>1. ASSUME NEW i \in 0..N PROVE g[i] = Step(g)[i]
      <3>1. CASE i = 0
        BY <3>1, <1>6 DEF Runs
      <3>2. CASE i # 0
        <4>1. i \in 1..N /\ i - 1 \in 0..N /\ f[i - 1] \in S
          BY <3>2, <1>1, <1>6, <1>7
        <4>2. f[i] = F[i][f[i - 1]]
          BY <4>1, <1>6 DEF Runs
        <4> QED
          BY <4>1, <4>2, <3>2, <1>4
      <3> QED
        BY <3>1, <3>2
    <2> QED
      BY <2>1
  <1>9. PICK k : k = (CHOOSE h : h = Step(h)) /\ k = Step(k)
    BY <1>8
  <1>10. \A i \in 0..N : k[i] = IF i = 0 THEN q ELSE Do(i, k[i - 1])
    BY <1>9
  <1>11. k[0] = q /\ \A i \in 1..N : k[i] = Do(i, k[i - 1])
    BY <1>1, <1>10
  <1>12. Runs(k, F, N, S, q)
    BY <1>11, <1>4 DEF Runs
  <1>13. SavedIdle(q, lim, now) \in S
    BY <1>1, <1>3, <1>7, <1>9, <1>12
  <1> QED
    BY <1>13 DEF IdleSaved

\* Saving the idle slots keeps the cache in order.
LEMMA IdleSavedFacts ==
    ASSUME setup \in Setups, NEW lim \in Nat, NEW q \in GoodCaches(lim), NEW now,
           \A s \in Slots : GoodSlot(now[s])
    PROVE  IdleSaved(q, lim, now) \in GoodCaches(lim)
  <1>1. ASSUME NEW c \in GoodCaches(lim), NEW s \in Slots
        PROVE  Updated(Saved(c, now[s], lim), lim) \in GoodCaches(lim)
    <2>1. c \in Seq(Entries) /\ Apart(c)
      BY DEF GoodCaches
    <2>2. Saved(c, now[s], lim) \in Seq(Entries) /\ Apart(Saved(c, now[s], lim))
      BY <2>1, SavedFacts
    <2> QED
      BY <2>2, UpdatedFacts
  <1> DEFINE S == GoodCaches(lim)
  <1>2. /\ q \in S
        /\ \A c \in S : \A s \in Slots : now[s].req = NoRequest => Updated(Saved(c, now[s], lim), lim) \in S
    BY <1>1
  <1> HIDE DEF S
  <1>3. IdleSaved(q, lim, now) \in S
    BY <1>2, SavedIdleStays
  <1> QED
    BY <1>3 DEF S

-----------------------------------------------------------------------------
(* The choice of a slot.                                                   *)

\* The list of slots by use has every slot, at a place of its own.
LEMMA LruFacts ==
    ASSUME PromptInv
    PROVE  \A s \in Slots : \E i \in Slots : lru[i] = s
  <1> SUFFICES ASSUME NEW s \in Slots PROVE \E i \in Slots : lru[i] = s
    OBVIOUS
  <1>1. lru \in Seq(Slots) /\ Len(lru) = NSlots /\ Occ(lru, {s}) = 1
    BY DEF PromptInv
  <1>2. DOMAIN lru = Slots
    BY <1>1, LenProperties DEF Slots
  <1>3. Occ(lru, {s}) # 0
    BY <1>1
  <1>4. ~ \A i \in DOMAIN lru : lru[i] \notin {s}
    BY <1>1, <1>3, OccNat
  <1> QED
    BY <1>2, <1>4

\* A slot is chosen, among the similar ones if there are any.
LEMMA ChosenFacts ==
    ASSUME PromptInv, NEW r \in Requests, Idle # {} \/ r.slot # AnySlot
    PROVE  /\ Chosen(r) \in Slots
           /\ Similar(r) # {} => Chosen(r) \in Similar(r)
  <1>1. NSlots \in Nat \ {0} /\ (r.slot = AnySlot \/ r.slot \in Slots) /\ r.prompt \in Seq(Token)
    BY Parameters DEF PromptInv, Texts
  <1>2. CASE Similar(r) # {}
    <2> DEFINE T == Similar(r)
               V == {Sim(s, r) : s \in T}
               W == {s \in T : Sim(s, r) = Max(V)}
    <2>1. T \subseteq 1..NSlots
      BY DEF Similar, Slots
    <2>2. ASSUME NEW s \in T PROVE Sim(s, r) \in 0..Len(r.prompt)
      <3>1. slots[s].tokens \in Seq(Token)
        BY <2>1 DEF PromptInv, GoodSlot, SlotRec, Texts, Slots
      <3>2. /\ Common(slots[s].tokens, r.prompt) \in 0..Len(slots[s].tokens)
            /\ Common(slots[s].tokens, r.prompt) <= Len(r.prompt)
        BY <1>1, <3>1, CommonFacts
      <3>3. Len(slots[s].tokens) \in Nat /\ Len(r.prompt) \in Nat
        BY <1>1, <3>1, LenProperties
      <3> QED
        BY <3>2, <3>3 DEF Sim
    <2>3. V \subseteq 0..Len(r.prompt) /\ V # {} /\ Len(r.prompt) \in Nat
      BY <1>1, <1>2, <2>2, LenProperties
    <2>4. Max(V) \in V /\ \A y \in V : y <= Max(V)
      <3> HIDE DEF V
      <3> QED
        BY <2>3, Extremes
    <2>5. W \subseteq 0..NSlots /\ W # {}
      <3>1. W \subseteq T /\ T \subseteq 0..NSlots
        BY <1>1, <2>1
      <3>2. PICK s \in T : Sim(s, r) = Max(V)
        BY <2>4
      <3>3. s \in W
        BY <3>2
      <3> HIDE DEF W, T
      <3> QED
        BY <3>1, <3>3
    <2>6. Min(W) \in W /\ \A y \in W : Min(W) <= y
      <3> HIDE DEF W
      <3> QED
        BY <1>1, <2>5, Extremes
    <2>7. ASSUME NEW o \in T
          PROVE  Sim(Min(W), r) > Sim(o, r) \/ (Sim(Min(W), r) = Sim(o, r) /\ Min(W) <= o)
      <3>1. Sim(o, r) <= Max(V) /\ Sim(Min(W), r) = Max(V)
        BY <2>4, <2>6
      <3>2. Sim(o, r) \in Nat /\ Max(V) \in Nat
        BY <2>2, <2>3, <2>4
      <3>3. CASE Sim(o, r) = Max(V)
        <4>1. o \in W
          BY <3>3
        <4> QED
          BY <4>1, <3>1, <3>3, <2>6
      <3>4. CASE Sim(o, r) # Max(V)
        <4> HIDE DEF V, W
        <4> QED
          BY <3>1, <3>2, <3>4
      <3> QED
        BY <3>3, <3>4
    <2>8. \E s \in T : \A o \in T : Sim(s, r) > Sim(o, r) \/ (Sim(s, r) = Sim(o, r) /\ s <= o)
      <3>1. Min(W) \in T
        BY <2>6
      <3> HIDE DEF T, W
      <3> QED
        BY <3>1, <2>7
    <2>9. MostSimilar(r) \in T
      BY <2>8 DEF MostSimilar
    <2> QED
      BY <1>2, <2>1, <2>9 DEF Chosen, Slots
  <1>3. CASE Similar(r) = {} /\ r.slot # AnySlot
    BY <1>1, <1>3 DEF Chosen
  <1>4. CASE Similar(r) = {} /\ r.slot = AnySlot
    <2> DEFINE T == {i \in Slots : ~ Busy(lru[i])}
    <2>1. PICK s \in Slots : ~ Busy(s)
      BY <1>4 DEF Idle
    <2>2. T # {}
      BY <2>1, LruFacts
    <2>3. T \subseteq 0..NSlots
      BY DEF Slots
    <2>4. Min(T) \in T
      <3> HIDE DEF T
      <3> QED
        BY <1>1, <2>2, <2>3, Extremes
    <2>5. Chosen(r) = lru[Min(T)]
      BY <1>4 DEF Chosen, Oldest
    <2>6. lru \in Seq(Slots) /\ Min(T) \in 1..Len(lru)
      BY <2>4 DEF PromptInv, Slots
    <2>7. lru[Min(T)] \in Slots
      BY <2>6, ElementOfSeq
    <2> QED
      BY <1>4, <2>5, <2>7
  <1> QED
    BY <1>2, <1>3, <1>4

-----------------------------------------------------------------------------
(* What a task does to its slot and to the cache.                          *)

\* The cells of nothing are nothing.
LEMMA NoText == setup \in Setups => Text(<<>>) = <<>> /\ <<>> \in Texts /\ <<>> \in States
  <1> SUFFICES ASSUME setup \in Setups PROVE Text(<<>>) = <<>> /\ <<>> \in Texts /\ <<>> \in States
    OBVIOUS
  <1>1. MaxLen \in Nat /\ Len(<<>>) = 0
    BY Parameters, EmptySeq
  <1>2. <<>> \in Texts /\ <<>> \in States
    BY <1>1 DEF Texts, States
  <1>3. Text(<<>>) \in Seq(Token) /\ Len(Text(<<>>)) = 0
    BY <1>1, <1>2, TextFacts
  <1> QED
    BY <1>2, <1>3, EmptySeq

\* A slot that gets the prompt and the state of an entry or a file, or loses its own.
LEMMA LoadedFacts ==
    ASSUME setup \in Setups, NEW x, GoodSlot(x)
    PROVE  /\ \A e : e.tokens \in Texts /\ e.data \in States /\ (Restorable => Text(e.data) = e.tokens) =>
                 /\ GoodSlot(Loaded(x, e))
                 /\ Loaded(x, e).req = x.req /\ Loaded(x, e).ready = x.ready /\ Loaded(x, e).lora = x.lora
           /\ GoodSlot(ClearedSlot(x))
           /\ ClearedSlot(x).req = x.req /\ ClearedSlot(x).ready = x.ready /\ ClearedSlot(x).lora = x.lora
  <1>1. x \in SlotRec /\ (x.ready => x.req # NoRequest)
    BY DEF GoodSlot
  <1>2. ASSUME NEW e, e.tokens \in Texts, e.data \in States, Restorable => Text(e.data) = e.tokens
        PROVE  /\ GoodSlot(Loaded(x, e))
               /\ Loaded(x, e).req = x.req /\ Loaded(x, e).ready = x.ready /\ Loaded(x, e).lora = x.lora
    <2> DEFINE y == Loaded(x, e)
    <2>1. /\ y \in SlotRec /\ y.tokens = e.tokens /\ y.cells = e.data
          /\ y.req = x.req /\ y.ready = x.ready /\ y.lora = x.lora
      BY <1>1, <1>2 DEF Loaded, SlotRec
    <2> HIDE DEF y
    <2>2. GoodSlot(y)
      BY <2>1, <1>1, <1>2 DEF GoodSlot, Follows
    <2> QED
      BY <2>1, <2>2 DEF y
  <1>3. GoodSlot(ClearedSlot(x)) /\ ClearedSlot(x).req = x.req /\ ClearedSlot(x).ready = x.ready /\ ClearedSlot(x).lora = x.lora
    <2> DEFINE y == ClearedSlot(x)
    <2>1. Text(<<>>) = <<>> /\ <<>> \in Texts /\ <<>> \in States
      BY NoText
    <2>2. /\ y \in SlotRec /\ y.tokens = <<>> /\ y.cells = <<>>
          /\ y.req = x.req /\ y.ready = x.ready /\ y.lora = x.lora
      BY <1>1, <2>1 DEF ClearedSlot, SlotRec
    <2> HIDE DEF y
    <2>3. GoodSlot(y)
      BY <2>1, <2>2, <1>1 DEF GoodSlot, Follows
    <2> QED
      BY <2>2, <2>3 DEF y
  <1> QED
    BY <1>2, <1>3

\* A slot without a request that gets the prompt and the state of a file.
LEMMA RestoredFacts ==
    ASSUME setup \in Setups, NEW x, GoodSlot(x), x.req = NoRequest, NEW e, GoodFile(e)
    PROVE  GoodSlot(Loaded(x, e))
  <1> DEFINE y == Loaded(x, e)
  <1>1. x \in SlotRec /\ ~ x.ready /\ e.tokens \in Texts /\ e.data \in States
    BY DEF GoodSlot, GoodFile
  <1>2. y \in SlotRec /\ y.tokens = e.tokens /\ y.cells = e.data /\ y.req = NoRequest /\ ~ y.ready
    BY <1>1 DEF Loaded, SlotRec
  <1> HIDE DEF y
  <1>3. Follows(y)
    BY <1>2 DEF Follows, GoodFile
  <1> QED
    BY <1>2, <1>3 DEF GoodSlot, y

\* An entry whose draft cannot be restored loses its state; its tokens stay.
LEMMA LostFacts ==
    ASSUME NEW q \in Seq(Entries), Apart(q), NEW b \in 1..Len(q), q[b].drft, "draft" \in Faults, setup \in Setups
    PROVE  LET lost == [q EXCEPT ![b].data = <<>>]
           IN  lost \in Seq(Entries) /\ Apart(lost) /\ DOMAIN lost = DOMAIN q /\ \A i \in DOMAIN q : lost[i].tokens = q[i].tokens
  <1> DEFINE lost == [q EXCEPT ![b].data = <<>>]
  <1>1. Len(q) \in Nat /\ DOMAIN q = 1..Len(q) /\ \A i \in 1..Len(q) : q[i] \in Entries
    BY LenProperties, ElementOfSeq
  <1>2. ~ Restorable
    <2>1. HasDraft
      BY <1>1 DEF Entries
    <2> QED
      BY <2>1 DEF Restorable
  <1>3. DOMAIN lost = 1..Len(q) /\ lost = [i \in 1..Len(q) |-> IF i = b THEN [q[i] EXCEPT !.data = <<>>] ELSE q[i]]
    BY <1>1
  <1>4. <<>> \in States
    BY NoText
  <1>5. ASSUME NEW i \in 1..Len(q) PROVE lost[i] \in Entries /\ lost[i].tokens = q[i].tokens
    BY <1>1, <1>2, <1>3, <1>4, <1>5 DEF Entries
  <1> HIDE DEF lost
  <1>6. lost \in [1..Len(q) -> Entries]
    BY <1>3, <1>5
  <1>7. lost \in Seq(Entries)
    BY <1>1, <1>6, FunctionIsSeq
  <1>8. Apart(lost)
    BY <1>1, <1>3, <1>5 DEF Apart
  <1> QED
    BY <1>1, <1>3, <1>5, <1>7, <1>8 DEF lost

\* The limit that a lack of memory leaves.
LEMMA ShrunkFacts ==
    ASSUME setup \in Setups, NEW q \in Seq(Entries), NEW x, GoodSlot(x), NEW lim \in Nat
    PROVE  Shrunk(q, x, lim) \in Nat
  <1> DEFINE n == (2 * Size(Cleared(q, x, lim))) \div 5
  <1>1. x.tokens \in Texts /\ x.cells \in States
    BY DEF GoodSlot, SlotRec
  <1>2. Size(Cleared(q, x, lim)) \in Nat
    BY <1>1, ClearedFacts, SizeFacts
  <1>3. n \in Nat
    BY <1>2
  <1>4. Shrunk(q, x, lim) = Max({1, n})
    BY DEF Shrunk
  <1> HIDE DEF n
  <1>5. {1, n} \subseteq 0..n + 1 /\ {1, n} # {} /\ n + 1 \in Nat
    BY <1>3
  <1>6. Max({1, n}) \in {1, n}
    BY <1>5, Extremes
  <1> QED
    BY <1>3, <1>4, <1>6

\* The exchange of prompts keeps cache and slot in order; the task of the slot stays.
LEMMA ExchangeFacts ==
    ASSUME PromptInv, NEW s \in Slots, NEW r \in Requests, NEW fault \in Faults \cup {"none"}
    PROVE  LET x == Exchange(slots[s], r, fault)
           IN  /\ x.limit \in Nat /\ x.cache \in GoodCaches(x.limit)
               /\ GoodSlot(x.slot) /\ x.slot.req = slots[s].req /\ x.slot.ready = slots[s].ready
  <1> DEFINE slot  == slots[s]
             full  == fault = "alloc" /\ slot.tokens # <<>> /\ Worth(cache, slot, limit)
             lim   == IF full THEN Shrunk(cache, slot, limit) ELSE limit
             saved == IF full THEN Updated(Cleared(cache, slot, limit), lim) ELSE Saved(cache, slot, limit)
             b     == BestEntry(saved, slot.tokens, r.prompt)
             none  == b = 0
             rest  == IF none THEN saved ELSE RemoveAt(saved, b)
             bad   == ~ none /\ (fault = "main" \/ (fault = "draft" /\ saved[b].drft))
             kept  == IF ~ bad THEN rest
                      ELSE IF fault = "main" THEN saved
                      ELSE [saved EXCEPT ![b].data = <<>>]
             after == IF none THEN slot ELSE IF bad THEN ClearedSlot(slot) ELSE Loaded(slot, saved[b])
  <1>1. Exchange(slot, r, fault) = [limit |-> lim, cache |-> Updated(kept, lim), slot |-> after]
    BY DEF Exchange
  <1>2. /\ setup \in Setups /\ GoodSlot(slot) /\ limit \in Nat /\ cache \in Seq(Entries) /\ Apart(cache)
        /\ slot.tokens \in Texts /\ slot.cells \in States /\ r.prompt \in Texts
    BY Parameters DEF PromptInv, GoodCaches, GoodSlot, SlotRec
  <1> HIDE DEF slot
  <1>3. lim \in Nat
    BY <1>2, ShrunkFacts
  <1>4. saved \in Seq(Entries) /\ Apart(saved)
    <2>1. CASE full
      <3>1. Cleared(cache, slot, limit) \in Seq(Entries) /\ Apart(Cleared(cache, slot, limit))
        BY <1>2, ClearedFacts, WithinFacts
      <3>2. saved = Updated(Cleared(cache, slot, limit), lim)
        BY <2>1
      <3> HIDE DEF lim, saved
      <3>3. saved \in GoodCaches(lim)
        BY <1>3, <3>1, <3>2, UpdatedFacts
      <3> QED
        BY <3>3 DEF GoodCaches
    <2>2. CASE ~ full
      <3>1. saved = Saved(cache, slot, limit)
        BY <2>2
      <3> HIDE DEF saved
      <3> QED
        BY <1>2, <3>1, SavedFacts
    <2> QED
      BY <2>1, <2>2
  <1> HIDE DEF full, lim, saved
  <1>5. b \in 0..Len(saved) /\ Len(saved) \in Nat
    BY <1>2, <1>4, BestFacts, LenProperties
  <1> HIDE DEF b
  <1>6. ~ none => b \in 1..Len(saved) /\ saved[b] \in Entries
    <2> SUFFICES ASSUME ~ none PROVE b \in 1..Len(saved) /\ saved[b] \in Entries
      OBVIOUS
    <2>1. b \in 1..Len(saved)
      BY <1>5
    <2> QED
      BY <2>1, <1>4, ElementOfSeq
  <1>7. rest \in Seq(Entries) /\ Apart(rest)
    <2>1. CASE none
      BY <2>1, <1>4
    <2>2. CASE ~ none
      <3>1. b \in 1..Len(saved)
        BY <2>2, <1>6
      <3>2. RemoveAt(saved, b) \in Seq(Entries) /\ Within(RemoveAt(saved, b), saved)
        BY <3>1, <1>4, RemoveAtEmbeds DEF Within
      <3>3. Apart(RemoveAt(saved, b))
        BY <3>2, <1>4, WithinFacts
      <3> QED
        BY <2>2, <3>2, <3>3
    <2> QED
      BY <2>1, <2>2
  <1>8. kept \in Seq(Entries) /\ Apart(kept)
    <2>1. CASE ~ bad
      <3>1. kept = rest
        BY <2>1
      <3> HIDE DEF kept, rest
      <3> QED
        BY <3>1, <1>7
    <2>2. CASE bad /\ fault = "main"
      <3>1. kept = saved
        BY <2>2
      <3> HIDE DEF kept
      <3> QED
        BY <3>1, <1>4
    <2>3. CASE bad /\ fault # "main"
      <3>1. b \in 1..Len(saved) /\ saved[b].drft /\ fault = "draft"
        BY <2>3, <1>6
      <3>2. "draft" \in Faults
        BY <3>1
      <3>3. kept = [saved EXCEPT ![b].data = <<>>]
        BY <2>3
      <3> HIDE DEF kept
      <3> QED
        BY <1>2, <1>4, <3>1, <3>2, <3>3, LostFacts
    <2> QED
      BY <2>1, <2>2, <2>3
  <1>9. GoodSlot(after) /\ after.req = slot.req /\ after.ready = slot.ready
    <2>1. CASE none
      <3>1. after = slot
        BY <2>1
      <3> HIDE DEF after
      <3> QED
        BY <3>1, <1>2
    <2>2. CASE ~ none /\ bad
      <3>1. after = ClearedSlot(slot)
        BY <2>2
      <3> HIDE DEF after
      <3> QED
        BY <3>1, <1>2, LoadedFacts
    <2>3. CASE ~ none /\ ~ bad
      <3>1. after = Loaded(slot, saved[b])
        BY <2>3
      <3>2. saved[b].tokens \in Texts /\ saved[b].data \in States /\ (Restorable => Text(saved[b].data) = saved[b].tokens)
        BY <2>3, <1>6 DEF Entries
      <3> HIDE DEF after
      <3> QED
        BY <3>1, <3>2, <1>2, LoadedFacts
    <2> QED
      BY <2>1, <2>2, <2>3
  <1> HIDE DEF kept, after, none
  <1>10. Updated(kept, lim) \in GoodCaches(lim)
    BY <1>3, <1>8, UpdatedFacts
  <1> QED
    BY <1>1, <1>3, <1>9, <1>10 DEF slot

\* The scan ends at a token of the prompt or behind it.
LEMMA ScanFacts == ASSUME NEW p \in Seq(Token), NEW inv PROVE Scan(p, inv) \in 0..Len(p)
  <1> DEFINE n == Len(inv)
             want == CHOOSE want : want = [i \in 0..Len(p) |->
                       IF i = Len(p) THEN n
                       ELSE LET w == want[i + 1] IN
                            IF w = 0 THEN 0 ELSE IF p[i + 1] = inv[w] THEN w - 1 ELSE n]
             found == {i \in 0..Len(p) - 1 : want[i] = 0}
  <1>1. Len(p) \in Nat
    BY LenProperties
  <1>2. Scan(p, inv) = IF found = {} THEN Len(p) ELSE Max(found)
    BY DEF Scan
  <1>3. found \subseteq 0..Len(p)
    BY <1>1
  <1> HIDE DEF found
  <1>4. CASE found = {}
    BY <1>1, <1>2, <1>4
  <1>5. CASE found # {}
    BY <1>1, <1>2, <1>3, <1>5, Extremes
  <1> QED
    BY <1>4, <1>5

\* The adapters of an idle slot are set; its tokens stay or are given up.
LEMMA WithLoraFacts ==
    ASSUME setup \in Setups, global \in Loras, NEW x, GoodSlot(x), NEW r \in Requests
    PROVE  LET y == WithLora(x, r)
           IN  /\ y \in SlotRec /\ y.cells = x.cells /\ y.req = x.req /\ y.ready = x.ready
               /\ y.tokens = <<>> \/ y.tokens = x.tokens
               /\ r.lora = Default => y.tokens = x.tokens
               /\ r.lora # Default => y.lora = r.lora
  <1>1. x \in SlotRec /\ <<>> \in Texts /\ (r.lora = Default \/ r.lora \in Loras)
    BY Parameters, NoText DEF GoodSlot
  <1>2. CASE r.lora = Default
    <2>1. WithLora(x, r) = [x EXCEPT !.lora = global]
      BY <1>2 DEF WithLora
    <2> QED
      BY <1>1, <1>2, <2>1 DEF SlotRec
  <1>3. CASE r.lora # Default
    <2> DEFINE t == IF r.lora # x.lora /\ ShouldClear(x.lora, r.lora) THEN <<>> ELSE x.tokens
    <2>1. WithLora(x, r) = [x EXCEPT !.lora = r.lora, !.tokens = t]
      BY <1>1, <1>3 DEF WithLora, SlotRec
    <2>2. t = <<>> \/ t = x.tokens
      OBVIOUS
    <2> HIDE DEF t
    <2> QED
      BY <1>1, <1>3, <2>1, <2>2 DEF SlotRec
  <1> QED
    BY <1>2, <1>3

\* The launch gives the slot its adapters, and its task unless it is refused.
LEMMA LaunchedFacts ==
    ASSUME setup \in Setups, global \in Loras, NEW x, GoodSlot(x), x.req = NoRequest, NEW r \in Requests,
           NEW fault \in Faults \cup {"none"}
    PROVE  LET y == Launched(x, r, fault)
           IN  GoodSlot(y) /\ y.req \in {r, NoRequest} /\ ~ y.ready
  <1> DEFINE w == WithLora(x, r)
             v == Invoked(w, r)
  <1>1. /\ w \in SlotRec /\ w.cells = x.cells /\ w.req = x.req /\ w.ready = x.ready
        /\ w.tokens = <<>> \/ w.tokens = x.tokens
        /\ r.lora = Default => w.tokens = x.tokens
        /\ r.lora # Default => w.lora = r.lora
    BY WithLoraFacts
  <1> HIDE DEF w
  <1>2. /\ x \in SlotRec /\ ~ x.ready /\ Follows(x) /\ r.prompt \in Seq(Token) /\ Len(r.prompt) \in 1..MaxLen
        /\ MaxLen \in Nat /\ r # NoRequest
    BY Parameters DEF GoodSlot, Texts, SlotRec
  <1>3. v \in SlotRec /\ v.cells = x.cells /\ v.req = x.req /\ v.ready = x.ready /\ v.tokens = w.tokens
    <2>1. CASE ~ AllAlora(w.lora)
      BY <2>1, <1>1 DEF Invoked
    <2>2. CASE AllAlora(w.lora)
      <3> DEFINE at == Scan(r.prompt, Invocation[CHOOSE a \in w.lora : TRUE])
      <3>1. v = IF at = Len(r.prompt) THEN [w EXCEPT !.lora = {}] ELSE [w EXCEPT !.start = at]
        BY <2>2 DEF Invoked
      <3>2. at \in 0..Len(r.prompt)
        BY <1>2, ScanFacts
      <3>3. {} \in Loras
        BY DEF Loras
      <3> HIDE DEF at, v
      <3>4. at \in -1..MaxLen
        BY <1>2, <3>2
      <3> QED
        BY <1>1, <3>1, <3>3, <3>4 DEF SlotRec
    <2> QED
      BY <2>1, <2>2
  <1> HIDE DEF v
  <1>4. Restorable => x.tokens = <<>> \/ Text(x.cells) = x.tokens
    BY <1>2 DEF Follows
  <1>5. CASE AllAlora(w.lora) /\ Cardinality(w.lora) # 1
    <2>1. Launched(x, r, fault) = w
      BY <1>5 DEF Launched, w
    <2>2. GoodSlot(w)
      BY <1>1, <1>2, <1>4 DEF GoodSlot, Follows
    <2> QED
      BY <1>1, <1>2, <2>1, <2>2
  <1>6. CASE ~ (AllAlora(w.lora) /\ Cardinality(w.lora) # 1) /\ fault = "launch"
    <2>1. Launched(x, r, fault) = v
      BY <1>6 DEF Launched, w, v
    <2>2. GoodSlot(v)
      BY <1>1, <1>2, <1>3, <1>4 DEF GoodSlot, Follows
    <2> QED
      BY <1>2, <1>3, <2>1, <2>2
  <1>7. CASE ~ (AllAlora(w.lora) /\ Cardinality(w.lora) # 1) /\ fault # "launch"
    <2> DEFINE y == [v EXCEPT !.req = r]
    <2>1. Launched(x, r, fault) = y
      BY <1>7 DEF Launched, w, v
    <2>2. y \in SlotRec /\ y.cells = x.cells /\ y.req = r /\ ~ y.ready /\ y.tokens = w.tokens
      BY <1>2, <1>3 DEF SlotRec
    <2> HIDE DEF y
    <2>3. GoodSlot(y)
      BY <1>1, <1>2, <1>4, <2>2 DEF GoodSlot, Follows
    <2> QED
      BY <2>1, <2>2, <2>3
  <1> QED
    BY <1>5, <1>6, <1>7

-----------------------------------------------------------------------------
(* The invariant.                                                          *)

\* Good parts make a good state.
LEMMA PartsAreGood ==
    ASSUME PromptInv, setup' = setup,
           slots' = [s \in Slots |-> slots'[s]], \A s \in Slots : GoodSlot(slots'[s]),
           lru' \in Seq(Slots), Len(lru') = NSlots, \A s \in Slots : Occ(lru', {s}) = 1,
           limit' \in Nat, cache' \in GoodCaches(limit'), global' \in Loras,
           files' = [f \in Files |-> files'[f]], \A f \in Files : GoodFile(files'[f])
    PROVE  PromptInv'
  <1>1. Slots' = Slots /\ NSlots' = NSlots /\ Files' = Files /\ Loras' = Loras
    BY Rigid
  <1>2. \A s \in Slots : GoodSlot(slots[s])'
    BY Rigid
  <1>3. \A f \in Files : GoodFile(files[f])'
    BY Rigid
  <1>4. GoodCaches(limit)' = GoodCaches(limit')
    BY Rigid
  <1> QED
    BY <1>1, <1>2, <1>3, <1>4 DEF PromptInv

\* Before the first request nothing is remembered.
LEMMA PromptInit == Init => PromptInv
  <1> SUFFICES ASSUME Init PROVE PromptInv
    OBVIOUS
  <1>1. /\ setup \in Setups /\ NSlots \in Nat \ {0} /\ MaxLen \in Nat /\ Limit0 \in Nat /\ Global0 \in Loras
        /\ Slots = 1..NSlots
    BY Parameters DEF Init, Slots
  <1>2. Text(<<>>) = <<>> /\ <<>> \in Texts /\ <<>> \in States
    BY <1>1, NoText
  <1>3. ASSUME NEW s \in Slots PROVE GoodSlot(slots[s])
    <2> DEFINE x == [tokens |-> <<>>, cells |-> <<>>, lora |-> Global0, start |-> -1, req |-> NoRequest, ready |-> FALSE]
    <2>1. slots[s] = x
      BY <1>3 DEF Init
    <2>2. x \in SlotRec
      BY <1>1, <1>2 DEF SlotRec
    <2>3. Follows(x) /\ (x.ready => x.req # NoRequest)
      BY <1>2 DEF Follows
    <2> QED
      BY <2>1, <2>2, <2>3 DEF GoodSlot
  <1>4. lru \in Seq(Slots) /\ Len(lru) = NSlots
    <2>1. lru = [i \in 1..NSlots |-> NSlots + 1 - i]
      BY <1>1 DEF Init
    <2>2. lru \in [1..NSlots -> Slots]
      BY <1>1, <2>1
    <2> QED
      BY <1>1, <2>2, FunctionIsSeq
  <1>5. ASSUME NEW s \in Slots PROVE Occ(lru, {s}) = 1
    <2>1. DOMAIN lru = 1..NSlots /\ \A i \in 1..NSlots : lru[i] = NSlots + 1 - i
      BY <1>1 DEF Init
    <2> DEFINE j == NSlots + 1 - s
    <2>2. {i \in DOMAIN lru : lru[i] \in {s}} = {j}
      <3>1. j \in 1..NSlots /\ lru[j] = s
        BY <1>1, <2>1
      <3>2. \A i \in 1..NSlots : lru[i] = s => i = j
        BY <1>1, <2>1
      <3> QED
        BY <2>1, <3>1, <3>2
    <2> QED
      BY <2>2, FS_Singleton DEF Occ
  <1>6. cache \in GoodCaches(limit)
    <2>1. cache = <<>> /\ limit = Limit0 /\ <<>> \in Seq(Entries) /\ Len(<<>>) = 0
      BY EmptySeq DEF Init
    <2>2. Apart(<<>>)
      BY <2>1 DEF Apart
    <2>3. Size(<<>>) = 0
      BY SizeFacts
    <2> QED
      BY <1>1, <2>1, <2>2, <2>3 DEF GoodCaches
  <1>7. ASSUME NEW f \in Files PROVE GoodFile(files[f])
    <2>1. files[f] = [tokens |-> <<>>, data |-> <<>>]
      BY <1>7 DEF Init
    <2> QED
      BY <1>2, <2>1 DEF GoodFile
  <1> QED
    BY <1>1, <1>3, <1>4, <1>5, <1>6, <1>7 DEF PromptInv, Init

\* One slot is changed, nothing else.
LEMMA OneSlotChanges ==
    ASSUME PromptInv, NEW s \in Slots, NEW y, GoodSlot(y), slots' = [slots EXCEPT ![s] = y],
           UNCHANGED <<setup, lru, cache, limit, global, files>>
    PROVE  PromptInv'
  <1>1. DOMAIN slots = Slots /\ \A o \in Slots : GoodSlot(slots[o])
    BY DEF PromptInv
  <1>2. slots' = [o \in Slots |-> slots'[o]] /\ \A o \in Slots : slots'[o] = IF o = s THEN y ELSE slots[o]
    BY <1>1
  <1>3. \A o \in Slots : GoodSlot(slots'[o])
    BY <1>1, <1>2
  <1>4. /\ lru \in Seq(Slots) /\ Len(lru) = NSlots /\ \A o \in Slots : Occ(lru, {o}) = 1
        /\ limit \in Nat /\ cache \in GoodCaches(limit) /\ global \in Loras
        /\ files = [f \in Files |-> files[f]] /\ \A f \in Files : GoodFile(files[f])
    BY DEF PromptInv
  <1> QED
    BY <1>2, <1>3, <1>4, PartsAreGood

\* What is taken from the slot is a beginning of both prompts, and not the whole.
LEMMA ReusedFacts ==
    ASSUME setup \in Setups, NEW x, GoodSlot(x), x.req # NoRequest
    PROVE  /\ Known(x) \in 0..Len(x.req.prompt) /\ Known(x) <= Len(x.tokens)
           /\ Known(x) # 0 => x.req.cache
           /\ \A i \in 1..Known(x) : x.tokens[i] = x.req.prompt[i]
           /\ Reused(x) \in 0..Len(x.req.prompt) - 1 /\ Reused(x) <= Known(x)
  <1> DEFINE p == x.req.prompt
             c == Common(x.tokens, p)
             k == Known(x)
  <1>1. x.tokens \in Seq(Token) /\ x.start \in Int /\ p \in Seq(Token) /\ Len(p) \in Nat \ {0} /\ Len(x.tokens) \in Nat
    <2>1. x \in SlotRec /\ x.req \in Requests
      BY DEF GoodSlot, SlotRec
    <2>2. x.tokens \in Texts /\ x.start \in -1..MaxLen /\ MaxLen \in Nat /\ p \in Texts /\ Len(p) \in 1..MaxLen
      BY <2>1, Parameters DEF SlotRec
    <2> QED
      BY <2>2, LenProperties DEF Texts
  <1> HIDE DEF p
  <1>2. c \in 0..Len(x.tokens) /\ c <= Len(p) /\ \A i \in 1..c : x.tokens[i] = p[i]
    BY <1>1, CommonFacts
  <1>3. k = IF ~ x.req.cache THEN 0 ELSE IF x.start > 0 THEN Min({c, x.start - 1}) ELSE c
    BY DEF Known, p
  <1> HIDE DEF c, k
  <1>4. x.start > 0 => Min({c, x.start - 1}) \in {c, x.start - 1} /\ Min({c, x.start - 1}) <= c
    <2> SUFFICES ASSUME x.start > 0
                 PROVE  Min({c, x.start - 1}) \in {c, x.start - 1} /\ Min({c, x.start - 1}) <= c
      OBVIOUS
    <2> DEFINE T == {c, x.start - 1}
    <2>1. T \subseteq 0..c + x.start /\ T # {} /\ c + x.start \in Nat /\ c \in T
      BY <1>1, <1>2
    <2> HIDE DEF T
    <2>2. Min(T) \in T /\ Min(T) <= c
      BY <2>1, Extremes
    <2> QED
      BY <2>2 DEF T
  <1>5. k \in 0..c /\ (k # 0 => x.req.cache)
    <2>1. CASE ~ x.req.cache
      BY <2>1, <1>1, <1>2, <1>3
    <2>2. CASE x.req.cache /\ x.start > 0
      BY <2>2, <1>1, <1>2, <1>3, <1>4
    <2>3. CASE x.req.cache /\ ~ (x.start > 0)
      BY <2>3, <1>1, <1>2, <1>3
    <2> QED
      BY <2>1, <2>2, <2>3
  <1>6. Reused(x) = IF k = Len(p) THEN k - 1 ELSE k
    BY DEF Reused, k, p
  <1>7. k \in 0..Len(p) /\ k <= Len(x.tokens) /\ \A i \in 1..k : x.tokens[i] = p[i]
    BY <1>1, <1>2, <1>5
  <1>8. Reused(x) \in 0..Len(p) - 1 /\ Reused(x) <= k
    BY <1>1, <1>6, <1>7
  <1> QED
    BY <1>5, <1>7, <1>8 DEF k, p

\* pre_decode and decode: the cells behind what is kept are those of the prompt.
LEMMA InvPrefill == ASSUME PromptInv, NEW s \in Slots, Prefill(s) PROVE PromptInv'
  <1> DEFINE x == slots[s]
             n == Reused(x)
             p == x.req.prompt
             a == SubSeq(x.cells, 1, n)
             b == [i \in 1..Len(p) - n |-> [tok |-> p[n + i], with |-> ComputedWith(x, n + i)]]
             Cell == [tok : Token, with : Loras]
             y == [x EXCEPT !.ready = TRUE, !.tokens = p, !.cells = a \o b]
  <1>1. setup \in Setups /\ GoodSlot(x) /\ DOMAIN slots = Slots
    BY DEF PromptInv
  <1>2. x.req # NoRequest /\ ~ x.ready /\ (Known(x) > 0 => x.cells # <<>>) /\ n <= Len(x.cells)
    BY DEF Prefill, Busy
  <1>3. slots' = [slots EXCEPT ![s] = y] /\ UNCHANGED <<setup, lru, cache, limit, global, files>>
    BY <1>1 DEF Prefill, GoodSlot, SlotRec
  <1> HIDE DEF x
  <1>4. x \in SlotRec /\ x.req \in Requests /\ x.cells \in States /\ x.lora \in Loras
    BY <1>1, <1>2 DEF GoodSlot, SlotRec
  <1>5. p \in Texts /\ p \in Seq(Token) /\ Len(p) \in Nat \ {0} /\ Len(p) <= MaxLen /\ MaxLen \in Nat
    <2>1. p \in Texts /\ Len(p) \in 1..MaxLen /\ MaxLen \in Nat
      BY <1>1, <1>4, Parameters
    <2> QED
      BY <2>1 DEF Texts
  <1>6. /\ Known(x) <= Len(x.tokens) /\ Known(x) \in Nat /\ (\A i \in 1..Known(x) : x.tokens[i] = p[i])
        /\ n \in 0..Len(p) - 1 /\ n <= Known(x)
    BY <1>1, <1>2, <1>5, ReusedFacts
  <1> HIDE DEF n, p
  <1>7. x.cells \in Seq(Cell) /\ Len(x.cells) \in Nat
    BY <1>4, LenProperties DEF States
  <1>8. a \in Seq(Cell) /\ Len(a) = n /\ \A i \in 1..n : a[i] = x.cells[i]
    <2>1. n \in 0..Len(x.cells)
      BY <1>2, <1>6, <1>7
    <2> QED
      BY <2>1, <1>7, PrefixFacts
  <1>9. b \in Seq(Cell) /\ Len(b) = Len(p) - n /\ \A i \in 1..Len(p) - n : b[i].tok = p[n + i]
    <2>1. ASSUME NEW i \in 1..Len(p) - n PROVE [tok |-> p[n + i], with |-> ComputedWith(x, n + i)] \in Cell
      <3>1. n + i \in 1..Len(p)
        BY <1>5, <1>6
      <3>2. p[n + i] \in Token
        BY <3>1, <1>5, ElementOfSeq
      <3>3. ComputedWith(x, n + i) \in Loras
        BY <1>4 DEF ComputedWith, Loras
      <3> QED
        BY <3>2, <3>3
    <2>2. b \in [1..Len(p) - n -> Cell] /\ Len(p) - n \in Nat
      BY <1>5, <1>6, <2>1
    <2>3. \A i \in 1..Len(p) - n : b[i].tok = p[n + i]
      OBVIOUS
    <2> HIDE DEF b, Cell
    <2> QED
      BY <2>2, <2>3, FunctionIsSeq
  <1> DEFINE c == a \o b
  <1> HIDE DEF a, b
  <1>10. c \in Seq(Cell)
    BY <1>8, <1>9, ConcatProperties
  <1>11. Len(c) = Len(p)
    <2>1. Len(c) = Len(a) + Len(b)
      BY <1>8, <1>9, ConcatProperties
    <2> QED
      BY <2>1, <1>5, <1>6, <1>8, <1>9
  <1>12. \A i \in 1..Len(c) : c[i] = IF i <= Len(a) THEN a[i] ELSE b[i - Len(a)]
    <2>1. a \in Seq(Cell) /\ b \in Seq(Cell)
      BY <1>8, <1>9
    <2> HIDE DEF Cell
    <2>2. /\ Len(c) = Len(a) + Len(b)
          /\ \A i \in 1..Len(a) + Len(b) : c[i] = IF i <= Len(a) THEN a[i] ELSE b[i - Len(a)]
      BY <2>1, ConcatProperties
    <2> HIDE DEF c
    <2> QED
      BY <2>2
  <1> HIDE DEF c
  <1>13. c \in States
    BY <1>5, <1>10, <1>11 DEF States
  <1>14. ASSUME Restorable PROVE Text(c) = p
    <2>1. Text(c) \in Seq(Token) /\ Len(Text(c)) = Len(c) /\ \A i \in 1..Len(c) : Text(c)[i] = c[i].tok
      BY <1>13, TextFacts
    <2>2. ASSUME NEW i \in 1..Len(p) PROVE c[i].tok = p[i]
      <3>1. CASE i <= n
        <4>1. i \in 1..n /\ i \in 1..Known(x) /\ n > 0
          BY <3>1, <1>5, <1>6
        <4>2. x.tokens # <<>>
          BY <4>1, <1>6, EmptySeq
        <4>3. Text(x.cells) = x.tokens
          BY <4>2, <1>1, <1>14 DEF GoodSlot, Follows
        <4>4. i \in 1..Len(x.cells)
          BY <4>1, <1>2, <1>6, <1>7
        <4>5. Text(x.cells)[i] = x.cells[i].tok
          BY <4>4, <1>4, TextFacts
        <4>6. c[i] = x.cells[i]
          BY <4>1, <1>8, <1>11, <1>12
        <4> QED
          BY <4>1, <4>3, <4>5, <4>6, <1>6
      <3>2. CASE ~ (i <= n)
        <4>1. i - n \in 1..Len(p) - n /\ n + (i - n) = i
          BY <3>2, <1>5, <1>6
        <4>2. c[i] = b[i - n]
          BY <3>2, <1>8, <1>11, <1>12
        <4>3. b[i - n].tok = p[n + (i - n)]
          BY <4>1, <1>9
        <4> QED
          BY <4>1, <4>2, <4>3
      <3> QED
        BY <3>1, <3>2
    <2> QED
      BY <2>1, <2>2, <1>5, <1>11, SeqEqual
  <1>15. y \in SlotRec /\ y.tokens = p /\ y.cells = c /\ y.ready = TRUE /\ y.req = x.req
    BY <1>4, <1>5, <1>13 DEF SlotRec, c
  <1> HIDE DEF y
  <1>16. GoodSlot(y)
    BY <1>2, <1>14, <1>15 DEF GoodSlot, Follows
  <1> QED
    BY <1>3, <1>16, OneSlotChanges

\* A token of the answer is appended to the list of tokens and to the cells.
LEMMA InvGenerate == ASSUME PromptInv, NEW s \in Slots, Generate(s) PROVE PromptInv'
  <1> DEFINE x == slots[s]
             Cell == [tok : Token, with : Loras]
  <1>1. setup \in Setups /\ GoodSlot(x) /\ DOMAIN slots = Slots /\ MaxLen \in Nat
    BY Parameters DEF PromptInv
  <1>2. PICK t \in Vocab : slots' = [slots EXCEPT ![s].tokens = Append(@, t),
                                               ![s].cells = Append(@, [tok |-> t, with |-> slots[s].lora])]
    BY DEF Generate
  <1> DEFINE w == Append(x.tokens, t)
             d == [tok |-> t, with |-> x.lora]
             c == Append(x.cells, d)
             y == [x EXCEPT !.tokens = w, !.cells = c]
  <1>3. x.req # NoRequest /\ x.ready /\ Len(x.tokens) < MaxLen /\ Len(x.cells) < MaxLen
    BY DEF Generate, Busy
  <1>4. slots' = [slots EXCEPT ![s] = y] /\ UNCHANGED <<setup, lru, cache, limit, global, files>>
    BY <1>1, <1>2 DEF Generate, GoodSlot, SlotRec
  <1> HIDE DEF x
  <1>5. x \in SlotRec /\ x.tokens \in Seq(Token) /\ x.cells \in Seq(Cell) /\ x.cells \in States /\ d \in Cell /\ t \in Token
    BY <1>1, SetupAssumption DEF GoodSlot, SlotRec, Texts, States
  <1> HIDE DEF Cell
  <1>6. /\ w \in Seq(Token) /\ Len(w) = Len(x.tokens) + 1 /\ w[Len(x.tokens) + 1] = t
        /\ \A i \in 1..Len(x.tokens) : w[i] = x.tokens[i]
    BY <1>5, AppendProperties
  <1>7. /\ c \in Seq(Cell) /\ Len(c) = Len(x.cells) + 1 /\ c[Len(x.cells) + 1] = d
        /\ \A i \in 1..Len(x.cells) : c[i] = x.cells[i]
    BY <1>5, AppendProperties
  <1> HIDE DEF w, c
  <1>8. Len(x.tokens) \in Nat /\ Len(x.cells) \in Nat
    BY <1>5, LenProperties
  <1>9. w \in Texts /\ c \in States
    <2>1. w \in Texts
      BY <1>1, <1>3, <1>6, <1>8 DEF Texts
    <2>2. c \in States
      BY <1>1, <1>3, <1>7, <1>8 DEF States, Cell
    <2> QED
      BY <2>1, <2>2
  <1>10. ASSUME Restorable PROVE Text(c) = w
    <2>1. Text(x.cells) = x.tokens
      BY <1>1, <1>3, <1>10 DEF GoodSlot, Follows
    <2>2. /\ Text(x.cells) \in Seq(Token) /\ Len(Text(x.cells)) = Len(x.cells)
          /\ \A i \in 1..Len(x.cells) : Text(x.cells)[i] = x.cells[i].tok
      BY <1>5, TextFacts
    <2>3. Text(c) \in Seq(Token) /\ Len(Text(c)) = Len(c) /\ \A i \in 1..Len(c) : Text(c)[i] = c[i].tok
      BY <1>9, TextFacts
    <2>4. d.tok = t
      OBVIOUS
    <2> HIDE DEF d
    <2>5. ASSUME NEW i \in 1..Len(c) PROVE Text(c)[i] = w[i]
      <3>1. CASE i = Len(x.cells) + 1
        BY <3>1, <1>6, <1>7, <2>1, <2>2, <2>3, <2>4
      <3>2. CASE i # Len(x.cells) + 1
        <4>1. i \in 1..Len(x.cells)
          BY <3>2, <1>7, <1>8, <2>5
        <4> QED
          BY <4>1, <1>6, <1>7, <2>1, <2>2, <2>3
      <3> QED
        BY <3>1, <3>2
    <2> QED
      BY <2>1, <2>2, <2>3, <2>5, <1>6, <1>7, SeqEqual
  <1>11. y \in SlotRec /\ y.tokens = w /\ y.cells = c /\ y.ready = x.ready /\ y.req = x.req
    BY <1>5, <1>9 DEF SlotRec
  <1> HIDE DEF y
  <1>12. GoodSlot(y)
    BY <1>3, <1>10, <1>11 DEF GoodSlot, Follows
  <1> QED
    BY <1>4, <1>12, OneSlotChanges

\* The end of a request: the slot keeps what it holds, and is the last one used.
LEMMA InvRelease == ASSUME PromptInv, NEW s \in Slots, Release(s) PROVE PromptInv'
  <1> DEFINE x == slots[s]
             y == [x EXCEPT !.req = NoRequest, !.ready = FALSE, !.start = -1]
             d == Drop(lru, {s})
             q == Append(d, s)
  <1>1. /\ setup \in Setups /\ DOMAIN slots = Slots /\ \A o \in Slots : GoodSlot(slots[o])
        /\ lru \in Seq(Slots) /\ Len(lru) = NSlots /\ \A o \in Slots : Occ(lru, {o}) = 1
        /\ limit \in Nat /\ cache \in GoodCaches(limit) /\ global \in Loras
        /\ files = [f \in Files |-> files[f]] /\ \A f \in Files : GoodFile(files[f])
    BY DEF PromptInv
  <1>2. slots' = [slots EXCEPT ![s] = y] /\ lru' = q /\ UNCHANGED <<setup, cache, limit, global, files>>
    BY <1>1 DEF Release, GoodSlot, SlotRec
  <1>3. GoodSlot(y)
    <2>1. x \in SlotRec /\ x.req # NoRequest /\ Follows(x) /\ GoodSlot(x)
      BY <1>1 DEF GoodSlot, Release, Busy
    <2>2. -1 \in -1..MaxLen
      <3>1. MaxLen \in Nat
        BY <1>1, Parameters
      <3> QED
        BY <3>1
    <2> HIDE DEF x
    <2>3. y \in SlotRec /\ y.tokens = x.tokens /\ y.cells = x.cells /\ y.req = NoRequest /\ y.ready = FALSE
      BY <2>1, <2>2 DEF SlotRec
    <2> HIDE DEF y
    <2>4. Follows(y)
      BY <2>1, <2>3 DEF Follows
    <2> QED
      BY <2>3, <2>4 DEF GoodSlot
  <1>4. d \in Seq(Slots) /\ \A X : Occ(d, X) = Occ(lru, X \ {s})
    BY <1>1, DropFacts
  <1> HIDE DEF d
  <1>5. q \in Seq(Slots) /\ \A X : Occ(q, X) = Occ(lru, X \ {s}) + (IF s \in X THEN 1 ELSE 0)
    <2>1. q \in Seq(Slots)
      BY <1>4, AppendProperties
    <2>2. \A X : Occ(q, X) = Occ(d, X) + (IF s \in X THEN 1 ELSE 0)
      BY <1>4, OccAppend
    <2> QED
      BY <1>4, <2>1, <2>2
  <1> HIDE DEF q
  <1>6. \A o \in Slots : Occ(q, {o}) = 1
    <2> SUFFICES ASSUME NEW o \in Slots PROVE Occ(q, {o}) = 1
      OBVIOUS
    <2> DEFINE X == {o}
    <2> HIDE DEF X
    <2>1. Occ(q, X) = Occ(lru, X \ {s}) + (IF s \in X THEN 1 ELSE 0)
      BY <1>5
    <2>2. CASE o = s
      <3>1. Occ(lru, {o} \ {s}) = 0
        <4>1. {o} \ {s} = {}
          BY <2>2
        <4> QED
          BY <4>1, <1>1, OccNat
      <3> QED
        BY <3>1, <2>2, <2>1 DEF X
    <2>3. CASE o # s
      <3>1. {o} \ {s} = {o} /\ s \notin {o}
        BY <2>3
      <3> QED
        BY <3>1, <1>1, <2>1 DEF X
    <2> QED
      BY <2>2, <2>3
  <1>7. Len(q) = NSlots
    <2>1. ASSUME NEW t \in Seq(Slots) PROVE Occ(t, Slots) = Len(t)
      <3>1. DOMAIN t = 1..Len(t) /\ Len(t) \in Nat /\ \A i \in 1..Len(t) : t[i] \in Slots
        BY LenProperties, ElementOfSeq
      <3>2. {i \in DOMAIN t : t[i] \in Slots} = 1..Len(t)
        BY <3>1
      <3>3. Cardinality(1..Len(t)) = IF 1 > Len(t) THEN 0 ELSE Len(t) - 1 + 1
        BY <3>1, FS_Interval
      <3>4. Cardinality(1..Len(t)) = Len(t)
        BY <3>1, <3>3
      <3> QED
        BY <3>2, <3>4 DEF Occ
    <2>2. Occ(lru, Slots) = Occ(lru, Slots \ {s}) + 1
      <3>1. Occ(lru, Slots) = Occ(lru, Slots \ {s}) + Occ(lru, {s})
        BY <1>1, OccSplit
      <3> QED
        BY <3>1, <1>1
    <2>3. Occ(q, Slots) = Occ(lru, Slots \ {s}) + 1
      BY <1>5
    <2> QED
      BY <1>1, <1>5, <2>1, <2>2, <2>3
  <1>8. slots' = [o \in Slots |-> slots'[o]] /\ \A o \in Slots : GoodSlot(slots'[o])
    BY <1>1, <1>2, <1>3
  <1> QED
    BY <1>1, <1>2, <1>5, <1>6, <1>7, <1>8, PartsAreGood

\* An idle slot is given up.
LEMMA InvPurge == ASSUME PromptInv, Purge PROVE PromptInv'
  <1> DEFINE held == {s \in Idle : slots[s].tokens # <<>>}
             s == Min(held)
  <1>1. NSlots \in Nat /\ setup \in Setups /\ \A o \in Slots : GoodSlot(slots[o])
    BY Parameters DEF PromptInv
  <1>2. held # {} /\ slots' = [slots EXCEPT ![s] = ClearedSlot(@)] /\ UNCHANGED <<setup, lru, cache, limit, global, files>>
    BY DEF Purge
  <1>3. held \subseteq 0..NSlots /\ held \subseteq Slots
    BY <1>1 DEF Idle, Slots
  <1> HIDE DEF held
  <1>4. s \in Slots
    BY <1>1, <1>2, <1>3, Extremes
  <1> HIDE DEF s
  <1>5. GoodSlot(ClearedSlot(slots[s]))
    BY <1>1, <1>4, LoadedFacts
  <1>6. slots' = [slots EXCEPT ![s] = ClearedSlot(slots[s])]
    BY <1>2
  <1> QED
    BY <1>2, <1>4, <1>5, <1>6, OneSlotChanges

\* The files of slots, and what they bring back.
LEMMA InvFiles ==
    ASSUME PromptInv, NEW s \in Slots, SlotErase(s) \/ \E f \in Files : SlotSave(s, f) \/ SlotRestore(s, f)
    PROVE  PromptInv'
  <1>1. /\ setup \in Setups /\ slots = [o \in Slots |-> slots[o]] /\ \A o \in Slots : GoodSlot(slots[o])
        /\ lru \in Seq(Slots) /\ Len(lru) = NSlots /\ \A o \in Slots : Occ(lru, {o}) = 1
        /\ limit \in Nat /\ cache \in GoodCaches(limit) /\ global \in Loras
        /\ files = [f \in Files |-> files[f]] /\ \A f \in Files : GoodFile(files[f])
    BY DEF PromptInv
  <1>2. GoodSlot(slots[s]) /\ GoodSlot(ClearedSlot(slots[s]))
    BY <1>1, LoadedFacts
  <1>3. CASE SlotErase(s)
    <2>1. slots' = [slots EXCEPT ![s] = ClearedSlot(slots[s])] /\ UNCHANGED <<setup, lru, cache, limit, global, files>>
      BY <1>3 DEF SlotErase
    <2> QED
      BY <2>1, <1>2, OneSlotChanges
  <1>4. ASSUME NEW f \in Files, SlotSave(s, f) PROVE PromptInv'
    <2> DEFINE saved == [tokens |-> slots[s].tokens, data |-> slots[s].cells]
    <2>1. files' = [files EXCEPT ![f] = saved] /\ UNCHANGED <<setup, slots, lru, cache, limit, global>> /\ slots[s].req = NoRequest
      BY <1>4 DEF SlotSave, Busy
    <2>2. GoodFile(saved)
      BY <1>2, <2>1 DEF GoodFile, GoodSlot, SlotRec, Follows
    <2> HIDE DEF saved
    <2>3. files' = [g \in Files |-> files'[g]] /\ \A g \in Files : files'[g] = IF g = f THEN saved ELSE files[g]
      BY <1>1, <2>1
    <2>4. \A g \in Files : GoodFile(files'[g])
      BY <1>1, <2>2, <2>3
    <2>5. /\ slots' = [o \in Slots |-> slots'[o]] /\ \A o \in Slots : GoodSlot(slots'[o])
          /\ lru' \in Seq(Slots) /\ Len(lru') = NSlots /\ \A o \in Slots : Occ(lru', {o}) = 1
          /\ limit' \in Nat /\ cache' \in GoodCaches(limit') /\ global' \in Loras /\ setup' = setup
      BY <1>1, <2>1
    <2> QED
      BY <2>3, <2>4, <2>5, PartsAreGood
  <1>5. ASSUME NEW f \in Files, SlotRestore(s, f) PROVE PromptInv'
    <2>1. /\ slots[s].req = NoRequest /\ UNCHANGED <<setup, lru, cache, limit, global, files>>
          /\ \/ slots' = [slots EXCEPT ![s] = Loaded(slots[s], files[f])]
             \/ slots' = [slots EXCEPT ![s] = ClearedSlot(slots[s])]
      BY <1>5 DEF SlotRestore, Busy
    <2>2. GoodSlot(Loaded(slots[s], files[f]))
      BY <1>1, <1>2, <2>1, RestoredFacts
    <2> QED
      BY <2>1, <2>2, <1>2, OneSlotChanges
  <1> QED
    BY <1>3, <1>4, <1>5

\* The adapters of the server are set.
LEMMA InvSetLora == ASSUME PromptInv, SetLora PROVE PromptInv'
  <1>1. /\ setup \in Setups /\ slots = [o \in Slots |-> slots[o]] /\ \A o \in Slots : GoodSlot(slots[o])
        /\ lru \in Seq(Slots) /\ Len(lru) = NSlots /\ \A o \in Slots : Occ(lru, {o}) = 1
        /\ limit \in Nat /\ cache \in GoodCaches(limit)
        /\ files = [f \in Files |-> files[f]] /\ \A f \in Files : GoodFile(files[f])
    BY DEF PromptInv
  <1>2. global' \in Loras /\ UNCHANGED <<setup, slots, lru, cache, limit, files>>
    BY <1>1, Parameters DEF SetLora
  <1>3. /\ slots' = [o \in Slots |-> slots'[o]] /\ \A o \in Slots : GoodSlot(slots'[o])
        /\ lru' \in Seq(Slots) /\ Len(lru') = NSlots /\ \A o \in Slots : Occ(lru', {o}) = 1
        /\ limit' \in Nat /\ cache' \in GoodCaches(limit') /\ setup' = setup
        /\ files' = [f \in Files |-> files'[f]] /\ \A f \in Files : GoodFile(files'[f])
    BY <1>1, <1>2
  <1> QED
    BY <1>2, <1>3, PartsAreGood

(* What a completion task does: the slot s it is given, the exchange x,    *)
(* the slots `new' after the launch.                                       *)
Exchanged(r, fault, s) ==
    IF UpdatesCache(r) THEN Exchange(slots[s], r, fault)
    ELSE [limit |-> limit, cache |-> cache, slot |-> slots[s]]

AssignsTo(r, fault, s, x, new) ==
    /\ s = Chosen(r) /\ x = Exchanged(r, fault, s)
    /\ new = [slots EXCEPT ![s] = IF Busy(s) THEN x.slot ELSE Launched(x.slot, r, fault)]
    /\ limit' = x.limit
    /\ IF Busy(s) \/ new[s].req = NoRequest
       THEN slots' = new /\ cache' = x.cache
       ELSE slots' = IdleCleared(new) /\ cache' = IdleSaved(x.cache, x.limit, new)

\* A completion task finds a slot, and keeps slots and cache in order.
LEMMA AssignFacts ==
    ASSUME PromptInv, NEW r \in Requests, NEW fault \in Faults \cup {"none"}, Assign(r, fault)
    PROVE  \E s \in Slots : \E x, new :
             /\ AssignsTo(r, fault, s, x, new)
             /\ x.limit \in Nat /\ x.cache \in GoodCaches(x.limit)
             /\ GoodSlot(x.slot) /\ x.slot.req = slots[s].req /\ x.slot.ready = slots[s].ready
             /\ new = [o \in Slots |-> new[o]] /\ \A o \in Slots : GoodSlot(new[o])
             /\ \A o \in Slots \ {s} : new[o] = slots[o]
             /\ new[s] = IF Busy(s) THEN x.slot ELSE Launched(x.slot, r, fault)
  <1> DEFINE s == Chosen(r)
             x == Exchanged(r, fault, s)
             y == IF Busy(s) THEN x.slot ELSE Launched(x.slot, r, fault)
             new == [slots EXCEPT ![s] = y]
  <1>1. AssignsTo(r, fault, s, x, new)
    BY DEF Assign, AssignsTo, Exchanged
  <1>2. s \in Slots
    BY ChosenFacts DEF Assign
  <1>3. /\ setup \in Setups /\ slots = [o \in Slots |-> slots[o]] /\ \A o \in Slots : GoodSlot(slots[o])
        /\ limit \in Nat /\ cache \in GoodCaches(limit) /\ global \in Loras
    BY DEF PromptInv
  <1> HIDE DEF s
  <1>4. /\ x.limit \in Nat /\ x.cache \in GoodCaches(x.limit)
        /\ GoodSlot(x.slot) /\ x.slot.req = slots[s].req /\ x.slot.ready = slots[s].ready
    <2>1. CASE UpdatesCache(r)
      <3>1. x = Exchange(slots[s], r, fault)
        BY <2>1 DEF Exchanged
      <3> HIDE DEF x
      <3> QED
        BY <3>1, <1>2, ExchangeFacts
    <2>2. CASE ~ UpdatesCache(r)
      <3>1. x = [limit |-> limit, cache |-> cache, slot |-> slots[s]]
        BY <2>2 DEF Exchanged
      <3> HIDE DEF x
      <3> QED
        BY <3>1, <1>2, <1>3
    <2> QED
      BY <2>1, <2>2
  <1> HIDE DEF x
  <1>5. GoodSlot(y)
    <2>1. CASE Busy(s)
      BY <2>1, <1>4
    <2>2. CASE ~ Busy(s)
      <3>1. x.slot.req = NoRequest
        BY <2>2, <1>4 DEF Busy
      <3> QED
        BY <2>2, <3>1, <1>3, <1>4, LaunchedFacts
    <2> QED
      BY <2>1, <2>2
  <1>6. y = IF Busy(s) THEN x.slot ELSE Launched(x.slot, r, fault)
    OBVIOUS
  <1> HIDE DEF y
  <1>7. new = [o \in Slots |-> IF o = s THEN y ELSE slots[o]]
    BY <1>3
  <1>8. /\ new = [o \in Slots |-> new[o]] /\ \A o \in Slots : GoodSlot(new[o])
        /\ (\A o \in Slots \ {s} : new[o] = slots[o]) /\ new[s] = y
    BY <1>2, <1>3, <1>5, <1>7
  <1> HIDE DEF new
  <1> QED
    BY <1>1, <1>2, <1>4, <1>6, <1>8

(* A record for every slot.                                                *)
OnSlots(f) == f = [s \in Slots |-> f[s]]

\* Idle slots are cleared or stay.
LEMMA IdleClearedFacts ==
    ASSUME setup \in Setups, NEW now, OnSlots(now), \A s \in Slots : GoodSlot(now[s])
    PROVE  /\ OnSlots(IdleCleared(now))
           /\ \A s \in Slots : /\ GoodSlot(IdleCleared(now)[s])
                               /\ IdleCleared(now)[s].req = now[s].req /\ IdleCleared(now)[s].ready = now[s].ready
                               /\ now[s].req # NoRequest => IdleCleared(now)[s] = now[s]
  <1>1. \A s \in Slots : /\ GoodSlot(ClearedSlot(now[s]))
                         /\ ClearedSlot(now[s]).req = now[s].req /\ ClearedSlot(now[s]).ready = now[s].ready
    BY LoadedFacts
  <1>2. CASE CacheIdle /\ CacheOn /\ Unified
    <2>1. IdleCleared(now) = [s \in Slots |-> IF now[s].req = NoRequest THEN ClearedSlot(now[s]) ELSE now[s]]
      BY <1>2 DEF IdleCleared
    <2> QED
      BY <2>1, <1>1 DEF OnSlots
  <1>3. CASE ~ (CacheIdle /\ CacheOn /\ Unified)
    <2>1. IdleCleared(now) = now
      BY <1>3 DEF IdleCleared
    <2> QED
      BY <2>1
  <1> QED
    BY <1>2, <1>3

\* A completion task keeps the invariant.
LEMMA InvAssign ==
    ASSUME PromptInv, NEW r \in Requests, NEW fault \in Faults \cup {"none"}, Assign(r, fault)
    PROVE  PromptInv'
  <1>1. PICK s \in Slots : \E x, new :
             /\ AssignsTo(r, fault, s, x, new)
             /\ x.limit \in Nat /\ x.cache \in GoodCaches(x.limit)
             /\ new = [o \in Slots |-> new[o]] /\ \A o \in Slots : GoodSlot(new[o])
    BY AssignFacts
  <1>2. PICK x, new :
             /\ AssignsTo(r, fault, s, x, new)
             /\ x.limit \in Nat /\ x.cache \in GoodCaches(x.limit)
             /\ new = [o \in Slots |-> new[o]] /\ \A o \in Slots : GoodSlot(new[o])
    BY <1>1
  <1>3. /\ setup \in Setups /\ global \in Loras
        /\ lru \in Seq(Slots) /\ Len(lru) = NSlots /\ \A o \in Slots : Occ(lru, {o}) = 1
        /\ files = [f \in Files |-> files[f]] /\ \A f \in Files : GoodFile(files[f])
    BY DEF PromptInv
  <1>4. UNCHANGED <<setup, lru, global, files>> /\ limit' = x.limit
    BY <1>2 DEF Assign, AssignsTo
  <1>5. /\ slots' = [o \in Slots |-> slots'[o]] /\ \A o \in Slots : GoodSlot(slots'[o])
        /\ cache' \in GoodCaches(x.limit)
    <2>1. CASE Busy(s) \/ new[s].req = NoRequest
      <3>1. slots' = new /\ cache' = x.cache
        BY <2>1, <1>2 DEF AssignsTo
      <3> QED
        BY <3>1, <1>2
    <2>2. CASE ~ (Busy(s) \/ new[s].req = NoRequest)
      <3>1. slots' = IdleCleared(new) /\ cache' = IdleSaved(x.cache, x.limit, new)
        BY <2>2, <1>2 DEF AssignsTo
      <3>2. IdleSaved(x.cache, x.limit, new) \in GoodCaches(x.limit)
        BY <1>2, <1>3, IdleSavedFacts
      <3>3. setup \in Setups /\ OnSlots(new) /\ \A o \in Slots : GoodSlot(new[o])
        BY <1>2, <1>3 DEF OnSlots
      <3>4. OnSlots(IdleCleared(new)) /\ \A o \in Slots : GoodSlot(IdleCleared(new)[o])
        BY <3>3, IdleClearedFacts
      <3> DEFINE z == IdleCleared(new)
      <3>5. slots' = z /\ OnSlots(z) /\ \A o \in Slots : GoodSlot(z[o])
        BY <3>1, <3>4
      <3> HIDE DEF z
      <3>6. slots' = [o \in Slots |-> slots'[o]] /\ \A o \in Slots : GoodSlot(slots'[o])
        BY <3>5 DEF OnSlots
      <3> QED
        BY <3>1, <3>2, <3>6
    <2> QED
      BY <2>1, <2>2
  <1>6. /\ lru' \in Seq(Slots) /\ Len(lru') = NSlots /\ \A o \in Slots : Occ(lru', {o}) = 1
        /\ global' \in Loras /\ limit' \in Nat /\ cache' \in GoodCaches(limit') /\ setup' = setup
        /\ files' = [f \in Files |-> files'[f]] /\ \A f \in Files : GoodFile(files'[f])
    BY <1>2, <1>3, <1>4, <1>5
  <1> QED
    BY <1>5, <1>6, PartsAreGood

\* Every step keeps the invariant.
LEMMA PromptStep == PromptInv /\ [Next]_vars => PromptInv'
  <1> SUFFICES ASSUME PromptInv, [Next]_vars PROVE PromptInv'
    OBVIOUS
  <1>1. ASSUME NEW r \in Requests, NEW fault \in Faults \cup {"none"}, Assign(r, fault) PROVE PromptInv'
    BY <1>1, InvAssign
  <1>2. ASSUME NEW s \in Slots, SlotStep(s) PROVE PromptInv'
    <2>1. CASE Prefill(s)
      BY <2>1, InvPrefill
    <2>2. CASE Generate(s)
      BY <2>2, InvGenerate
    <2>3. CASE Release(s)
      BY <2>3, InvRelease
    <2>4. CASE SlotErase(s) \/ \E f \in Files : SlotSave(s, f) \/ SlotRestore(s, f)
      BY <2>4, InvFiles
    <2> QED
      BY <1>2, <2>1, <2>2, <2>3, <2>4 DEF SlotStep
  <1>3. CASE Purge
    BY <1>3, InvPurge
  <1>4. CASE SetLora
    BY <1>4, InvSetLora
  <1>5. CASE UNCHANGED vars
    <2>1. /\ setup \in Setups /\ slots = [o \in Slots |-> slots[o]] /\ \A o \in Slots : GoodSlot(slots[o])
          /\ lru \in Seq(Slots) /\ Len(lru) = NSlots /\ \A o \in Slots : Occ(lru, {o}) = 1
          /\ limit \in Nat /\ cache \in GoodCaches(limit) /\ global \in Loras
          /\ files = [f \in Files |-> files[f]] /\ \A f \in Files : GoodFile(files[f])
      BY DEF PromptInv
    <2>2. UNCHANGED <<setup, slots, lru, cache, limit, global, files>>
      BY <1>5 DEF vars
    <2>3. /\ slots' = [o \in Slots |-> slots'[o]] /\ \A o \in Slots : GoodSlot(slots'[o])
          /\ lru' \in Seq(Slots) /\ Len(lru') = NSlots /\ \A o \in Slots : Occ(lru', {o}) = 1
          /\ limit' \in Nat /\ cache' \in GoodCaches(limit') /\ global' \in Loras /\ setup' = setup
          /\ files' = [f \in Files |-> files'[f]] /\ \A f \in Files : GoodFile(files'[f])
      BY <2>1, <2>2
    <2> QED
      BY <2>3, PartsAreGood
  <1> QED
    BY <1>1, <1>2, <1>3, <1>4, <1>5 DEF Next

-----------------------------------------------------------------------------
\* In every reachable state the list of tokens of a slot is what its cells hold, or it is empty
\* and no task relies on it (update_slots, get_available_slot).
THEOREM CellsFollow == Spec => []CellsFollowPrompt
  <1>1. PromptInv => CellsFollowPrompt
    BY DEF PromptInv, GoodSlot, Follows, CellsFollowPrompt
  <1> QED
    BY PromptInit, PromptStep, <1>1, PTL DEF Spec

\* In every reachable state the cache keeps its limit, no entry is covered by another one, and each
\* entry is the state of its tokens; slots and the list of slots by use have their types
\* (server_prompt_cache, get_available_slot).
THEOREM CacheStaysSound == Spec => []CacheInv
  <1>1. PromptInv => CacheInv
    <2> SUFFICES ASSUME PromptInv PROVE CacheInv
      OBVIOUS
    <2>1. setup \in Setups /\ limit \in Nat /\ cache \in Seq(Entries) /\ Apart(cache) /\ (limit > 0 => Size(cache) <= limit)
      BY DEF PromptInv, GoodCaches
    <2>2. NoneObsolete /\ WithinLimit
      BY <2>1 DEF NoneObsolete, WithinLimit, Apart
    <2>3. EntriesIntact
      <3>1. \A e \in ToSet(cache) : e \in Entries
        <4>1. DOMAIN cache = 1..Len(cache)
          BY <2>1, LenProperties
        <4> QED
          BY <4>1, <2>1, ElementOfSeq DEF ToSet
      <3> QED
        BY <3>1 DEF EntriesIntact, Entries
    <2>4. ASSUME NEW s \in Slots
          PROVE  /\ slots[s].req \in Requests \cup {NoRequest} /\ slots[s].ready \in BOOLEAN
                 /\ slots[s].lora \subseteq DOMAIN Invocation /\ slots[s].start \in -1..MaxLen
                 /\ Len(slots[s].tokens) <= MaxLen /\ Len(slots[s].cells) <= MaxLen
                 /\ slots[s].ready => slots[s].req # NoRequest
      BY DEF PromptInv, GoodSlot, SlotRec, Texts, States, Loras
    <2>5. ToSet(lru) = Slots /\ Len(lru) = NSlots
      <3>1. lru \in Seq(Slots) /\ Len(lru) = NSlots
        BY DEF PromptInv
      <3>2. DOMAIN lru = Slots /\ \A i \in Slots : lru[i] \in Slots
        BY <3>1, LenProperties, ElementOfSeq DEF Slots
      <3>3. \A s \in Slots : \E i \in Slots : lru[i] = s
        BY LruFacts
      <3> QED
        BY <3>1, <3>2, <3>3 DEF ToSet
    <2>6. global \subseteq DOMAIN Invocation
      BY DEF PromptInv, Loras
    <2>7. TypeOK
      BY <2>1, <2>4, <2>5, <2>6 DEF TypeOK
    <2> QED
      BY <2>2, <2>3, <2>7 DEF CacheInv
  <1> QED
    BY PromptInit, PromptStep, <1>1, PTL DEF Spec

-----------------------------------------------------------------------------
(* A prompt that makes way is still in the cache.                          *)

\* What extends a text that differs from another one has no more in common with that.
LEMMA CommonExtended ==
    ASSUME NEW S, NEW t \in Seq(S), NEW e \in Seq(S), NEW p \in Seq(S), IsPrefix(t, e), Common(t, p) < Len(t)
    PROVE  Common(e, p) <= Common(t, p)
  <1>1. Len(t) \in Nat /\ Len(e) \in Nat /\ Len(p) \in Nat
    BY LenProperties
  <1>2. Len(t) <= Len(e) /\ \A i \in 1..Len(t) : t[i] = e[i]
    BY PrefixTokens
  <1>3. /\ Common(t, p) \in 0..Len(t)
        /\ \A n \in 0..Len(t) : n <= Len(p) /\ (\A i \in 1..n : t[i] = p[i]) => n <= Common(t, p)
    BY CommonFacts
  <1>4. Common(e, p) \in 0..Len(e) /\ Common(e, p) <= Len(p) /\ \A i \in 1..Common(e, p) : e[i] = p[i]
    BY CommonFacts
  <1> SUFFICES ASSUME ~ (Common(e, p) <= Common(t, p)) PROVE FALSE
    OBVIOUS
  <1> DEFINE n == Common(t, p) + 1
  <1>5. n \in 0..Len(t) /\ n <= Len(p) /\ n <= Common(e, p) /\ ~ (n <= Common(t, p))
    BY <1>1, <1>3, <1>4
  <1>6. \A i \in 1..n : t[i] = p[i]
    <2> SUFFICES ASSUME NEW i \in 1..n PROVE t[i] = p[i]
      OBVIOUS
    <2> HIDE DEF n
    <2>1. i \in 1..Len(t) /\ i \in 1..Common(e, p)
      BY <1>1, <1>4, <1>5
    <2> QED
      BY <2>1, <1>2, <1>4
  <1> QED
    BY <1>3, <1>5, <1>6

\* Without a limit, prompt_save loses no text that an entry covers.
LEMMA SavedKeeps ==
    ASSUME setup \in Setups, NEW q \in Seq(Entries), NEW x, GoodSlot(x), NEW t \in Texts, Covered(q, t)
    PROVE  Covered(Saved(q, x, 0), t)
  <1>1. CASE x.tokens = <<>> \/ ~ Worth(q, x, 0)
    BY <1>1 DEF Saved
  <1>2. CASE x.tokens # <<>> /\ Worth(q, x, 0)
    <2> DEFINE c == Cleared(q, x, 0)
               e == EntryOf(x)
               a == Append(c, e)
    <2>1. Saved(q, x, 0) = a
      BY <1>2 DEF Saved
    <2>2. x.tokens \in Texts /\ x.cells \in States
      BY DEF GoodSlot, SlotRec
    <2>3. e \in Entries /\ e.tokens = x.tokens
      BY <1>2, Parameters, EntryFacts
    <2>4. /\ c \in Seq(Entries)
          /\ \A i \in 1..Len(q) : IsPrefix(q[i].tokens, x.tokens) \/ \E j \in 1..Len(c) : c[j] = q[i]
      <3> DEFINE lim == 0
      <3>1. lim \in Nat /\ lim = 0
        OBVIOUS
      <3> HIDE DEF lim
      <3>2. /\ Cleared(q, x, lim) \in Seq(Entries)
            /\ \A i \in 1..Len(q) :
                 IsPrefix(q[i].tokens, x.tokens) \/ \E j \in 1..Len(Cleared(q, x, lim)) : Cleared(q, x, lim)[j] = q[i]
        BY <2>2, <3>1, ClearedFacts
      <3> QED
        BY <3>2 DEF lim
    <2> HIDE DEF c, e
    <2>5. /\ a \in Seq(Entries) /\ Len(a) = Len(c) + 1 /\ a[Len(c) + 1] = e /\ Len(c) \in Nat
          /\ \A i \in 1..Len(c) : a[i] = c[i]
      BY <2>3, <2>4, AppendProperties, LenProperties
    <2> HIDE DEF a
    <2>6. PICK i \in 1..Len(q) : IsPrefix(t, q[i].tokens)
      BY CoveredBy
    <2>7. CASE IsPrefix(q[i].tokens, x.tokens)
      <3>1. t \in Seq(Token) /\ q[i].tokens \in Seq(Token) /\ x.tokens \in Seq(Token)
        <4>1. q[i] \in Entries
          BY ElementOfSeq
        <4> QED
          BY <4>1, <2>2 DEF Entries, Texts
      <3>2. IsPrefix(t, x.tokens)
        BY <2>6, <2>7, <3>1, PrefixTrans
      <3>3. Len(c) + 1 \in 1..Len(a) /\ IsPrefix(t, a[Len(c) + 1].tokens)
        BY <3>2, <2>3, <2>5
      <3> QED
        BY <3>3, <2>1, <2>5, CoveredBy
    <2>8. CASE ~ IsPrefix(q[i].tokens, x.tokens)
      <3>1. PICK j \in 1..Len(c) : c[j] = q[i]
        BY <2>4, <2>8
      <3>2. j \in 1..Len(a) /\ IsPrefix(t, a[j].tokens)
        BY <3>1, <2>5, <2>6
      <3> QED
        BY <3>2, <2>1, <2>5, CoveredBy
    <2> QED
      BY <2>7, <2>8
  <1> QED
    BY <1>1, <1>2

\* Without a limit, a prompt that is saved is covered.
LEMMA SavedCovers ==
    ASSUME setup \in Setups, NEW q \in Seq(Entries), NEW x, GoodSlot(x), x.tokens # <<>>
    PROVE  Covered(Saved(q, x, 0), x.tokens)
  <1>1. CASE ~ Worth(q, x, 0)
    BY <1>1 DEF Saved, Worth
  <1>2. CASE Worth(q, x, 0)
    <2> DEFINE c == Cleared(q, x, 0)
               e == EntryOf(x)
               a == Append(c, e)
    <2>1. Saved(q, x, 0) = a
      BY <1>2 DEF Saved
    <2>2. x.tokens \in Texts /\ x.cells \in States /\ x.tokens \in Seq(Token)
      BY DEF GoodSlot, SlotRec, Texts
    <2>3. e \in Entries /\ e.tokens = x.tokens
      BY Parameters, EntryFacts
    <2>4. c \in Seq(Entries)
      <3> DEFINE lim == 0
      <3>1. lim \in Nat
        OBVIOUS
      <3> HIDE DEF lim
      <3>2. Cleared(q, x, lim) \in Seq(Entries)
        BY <2>2, <3>1, ClearedFacts
      <3> QED
        BY <3>2 DEF lim
    <2> HIDE DEF c, e
    <2>5. a \in Seq(Entries) /\ Len(a) = Len(c) + 1 /\ a[Len(c) + 1] = e /\ Len(c) \in Nat
      BY <2>3, <2>4, AppendProperties, LenProperties
    <2> HIDE DEF a
    <2>6. IsPrefix(x.tokens, x.tokens)
      <3>1. Len(x.tokens) \in Nat
        BY <2>2, LenProperties
      <3> QED
        BY <2>2, <3>1, PrefixTokens
    <2>7. Len(c) + 1 \in 1..Len(a) /\ IsPrefix(x.tokens, a[Len(c) + 1].tokens)
      BY <2>3, <2>5, <2>6
    <2> QED
      BY <2>1, <2>5, <2>7, CoveredBy
  <1> QED
    BY <1>1, <1>2

\* Without a limit, saving the idle slots loses no text that an entry covers.
LEMMA IdleSavedKeeps ==
    ASSUME setup \in Setups, NEW q \in GoodCaches(0), NEW now, \A s \in Slots : GoodSlot(now[s]),
           NEW t \in Texts, Covered(q, t)
    PROVE  Covered(IdleSaved(q, 0, now), t)
  <1> DEFINE lim == 0
             S == {c \in GoodCaches(lim) : Covered(c, t)}
  <1>1. lim \in Nat /\ \A c, x : Updated(Saved(c, x, lim), lim) = Saved(c, x, lim) /\ Saved(c, x, lim) = Saved(c, x, 0)
    BY DEF Updated
  <1>2. q \in S /\ IdleSaved(q, 0, now) = IdleSaved(q, lim, now)
    OBVIOUS
  <1> HIDE DEF lim
  <1>3. ASSUME NEW c \in S, NEW s \in Slots PROVE Updated(Saved(c, now[s], lim), lim) \in S
    <2>1. c \in Seq(Entries) /\ Apart(c) /\ Covered(c, t)
      BY DEF GoodCaches
    <2>2. Saved(c, now[s], lim) \in Seq(Entries) /\ Apart(Saved(c, now[s], lim))
      BY <1>1, <2>1, SavedFacts
    <2>3. Updated(Saved(c, now[s], lim), lim) \in GoodCaches(lim)
      BY <1>1, <2>2, UpdatedFacts
    <2>4. Covered(Saved(c, now[s], 0), t)
      BY <2>1, SavedKeeps
    <2> QED
      BY <1>1, <2>3, <2>4
  <1>4. \A c \in S : Covered(c, t)
    OBVIOUS
  <1> HIDE DEF S
  <1>5. \A c \in S : \A s \in Slots : now[s].req = NoRequest => Updated(Saved(c, now[s], lim), lim) \in S
    BY <1>3
  <1>6. IdleSaved(q, lim, now) \in S
    BY <1>2, <1>5, SavedIdleStays
  <1> QED
    BY <1>2, <1>4, <1>6

\* Without a limit, the exchange keeps the prompt of a slot that loses more than half of it.
LEMMA ExchangeKeeps ==
    ASSUME PromptInv, limit = 0, NEW s \in Slots, NEW r \in Requests, NEW fault, fault # "alloc",
           2 * Common(slots[s].tokens, r.prompt) < Len(slots[s].tokens)
    PROVE  LET x == Exchange(slots[s], r, fault)
           IN  x.limit = 0 /\ Covered(x.cache, slots[s].tokens)
  <1> DEFINE slot  == slots[s]
             t     == slot.tokens
             saved == Saved(cache, slot, 0)
             b     == BestEntry(saved, t, r.prompt)
             none  == b = 0
             rest  == IF none THEN saved ELSE RemoveAt(saved, b)
             bad   == ~ none /\ (fault = "main" \/ (fault = "draft" /\ saved[b].drft))
             lost  == [saved EXCEPT ![b].data = <<>>]
             kept  == IF ~ bad THEN rest ELSE IF fault = "main" THEN saved ELSE lost
  <1>1. Exchange(slot, r, fault).limit = 0 /\ Exchange(slot, r, fault).cache = kept
    BY DEF Exchange, Updated
  <1>2. /\ setup \in Setups /\ GoodSlot(slot) /\ cache \in Seq(Entries) /\ Apart(cache)
        /\ t \in Texts /\ r.prompt \in Texts /\ t \in Seq(Token) /\ r.prompt \in Seq(Token)
    BY Parameters DEF PromptInv, GoodCaches, GoodSlot, SlotRec, Texts
  <1>3. Len(t) \in Nat /\ Common(t, r.prompt) \in Nat /\ Common(t, r.prompt) < Len(t) /\ t # <<>>
    <2>1. Len(t) \in Nat /\ Common(t, r.prompt) \in 0..Len(t) /\ Len(<<>>) = 0
      BY <1>2, CommonFacts, LenProperties, EmptySeq
    <2> QED
      BY <2>1
  <1> HIDE DEF slot
  <1>4. saved \in Seq(Entries) /\ Covered(saved, t)
    <2> DEFINE lim == 0
    <2>1. lim \in Nat
      OBVIOUS
    <2> HIDE DEF lim
    <2>2. Saved(cache, slot, lim) \in Seq(Entries)
      BY <1>2, <2>1, SavedFacts
    <2> QED
      BY <2>2, <1>2, <1>3, SavedCovers DEF lim
  <1> HIDE DEF saved
  <1>5. b \in 0..Len(saved) /\ Len(saved) \in Nat /\ (b # 0 => Common(t, r.prompt) < Common(saved[b].tokens, r.prompt))
    BY <1>2, <1>4, BestFacts, LenProperties
  <1>6. PICK i \in 1..Len(saved) : IsPrefix(t, saved[i].tokens)
    BY <1>4, CoveredBy
  <1> HIDE DEF b
  <1>7. i # b
    <2> SUFFICES ASSUME i = b PROVE FALSE
      OBVIOUS
    <2>1. b # 0
      BY <1>5
    <2>2. saved[b].tokens \in Seq(Token)
      <3>1. saved[b] \in Entries
        BY <1>4, ElementOfSeq
      <3> QED
        BY <3>1 DEF Entries, Texts
    <2>3. Common(saved[b].tokens, r.prompt) <= Common(t, r.prompt)
      BY <1>2, <1>3, <1>6, <2>2, CommonExtended
    <2>4. Common(saved[b].tokens, r.prompt) \in Nat
      <3>1. Common(saved[b].tokens, r.prompt) \in 0..Len(saved[b].tokens) /\ Len(saved[b].tokens) \in Nat
        BY <1>2, <2>2, CommonFacts, LenProperties
      <3> QED
        BY <3>1
    <2> QED
      BY <1>3, <1>5, <2>1, <2>3, <2>4
  <1>8. Covered(rest, t)
    <2>1. CASE none
      BY <2>1, <1>4
    <2>2. CASE ~ none
      <3>1. b \in 1..Len(saved)
        BY <2>2, <1>5
      <3>2. /\ RemoveAt(saved, b) \in Seq(Entries)
            /\ \E j \in 1..Len(RemoveAt(saved, b)) : RemoveAt(saved, b)[j] = saved[i]
        BY <3>1, <1>4, <1>7, RemoveAtEmbeds
      <3>3. Covered(RemoveAt(saved, b), t)
        BY <3>2, <1>6, CoveredBy
      <3> QED
        BY <2>2, <3>3
    <2> QED
      BY <2>1, <2>2
  <1>9. bad /\ fault # "main" => Covered(lost, t)
    <2> SUFFICES ASSUME bad, fault # "main" PROVE Covered(lost, t)
      OBVIOUS
    <2>1. b \in 1..Len(saved) /\ fault = "draft" /\ saved[b].drft
      BY <1>5
    <2>2. DOMAIN saved = 1..Len(saved)
      BY <1>4, LenProperties
    <2>3. DOMAIN lost = 1..Len(saved) /\ lost[i] = saved[i]
      BY <1>7, <2>2
    <2> HIDE DEF lost
    <2> QED
      BY <2>3, <1>6 DEF Covered, ToSet
  <1> HIDE DEF rest, lost, none
  <1>10. Covered(kept, t)
    BY <1>4, <1>8, <1>9
  <1> HIDE DEF kept
  <1> QED
    BY <1>1, <1>10 DEF slot

\* Without a limit and without a lack of memory there is no limit later on.
LEMMA RoomStays == PromptInv /\ (Roomy => limit = 0) /\ [Next]_vars => (Roomy => limit = 0)'
  <1> SUFFICES ASSUME PromptInv, Roomy => limit = 0, [Next]_vars PROVE (Roomy => limit = 0)'
    OBVIOUS
  <1>1. setup' = setup
    BY DEF Next, SlotStep, Assign, Prefill, Generate, Release, SlotErase, SlotSave, SlotRestore, Purge, SetLora, vars
  <1>2. Roomy' = Roomy
    BY <1>1 DEF Roomy, CacheOn, Limit0, Faults, Similarity
  <1>3. ASSUME NEW r \in Requests, NEW fault \in Faults \cup {"none"}, Assign(r, fault), Roomy PROVE limit' = 0
    <2>1. PICK s \in Slots : \E x, new : AssignsTo(r, fault, s, x, new)
      BY <1>3, AssignFacts
    <2>2. limit' = Exchanged(r, fault, s).limit
      BY <2>1 DEF AssignsTo
    <2>3. fault # "alloc" /\ limit = 0
      BY <1>3 DEF Roomy
    <2>4. CASE UpdatesCache(r)
      <3>1. Exchange(slots[s], r, fault).limit = limit
        BY <2>3 DEF Exchange
      <3> QED
        BY <2>2, <2>3, <2>4, <3>1 DEF Exchanged
    <2>5. CASE ~ UpdatesCache(r)
      BY <2>2, <2>3, <2>5 DEF Exchanged
    <2> QED
      BY <2>4, <2>5
  <1>4. (\A r \in Requests, fault \in Faults \cup {"none"} : ~ Assign(r, fault)) => limit' = limit
    BY DEF Next, SlotStep, Prefill, Generate, Release, SlotErase, SlotSave, SlotRestore, Purge, SetLora, vars
  <1> QED
    BY <1>2, <1>3, <1>4

\* Only a completion task gives a request to an idle slot, and that to the one it chose.
LEMMA OnlyAssigned ==
    ASSUME PromptInv, Next, NEW s \in Slots, ~ Busy(s), slots'[s].req # NoRequest
    PROVE  \E r \in Requests, fault \in Faults \cup {"none"} : Assign(r, fault)
  <1>1. slots = [o \in Slots |-> slots[o]] /\ \A o \in Slots : slots[o] \in SlotRec
    BY DEF PromptInv, GoodSlot
  <1>2. slots[s].req = NoRequest /\ DOMAIN slots = Slots
    BY <1>1 DEF Busy
  <1>3. ASSUME NEW o \in Slots, SlotStep(o) PROVE slots'[s].req = NoRequest
    <2>1. CASE Prefill(o) \/ Generate(o) \/ Release(o)
      <3>1. Busy(o) /\ o # s
        BY <2>1 DEF Prefill, Generate, Release
      <3>2. slots'[s] = slots[s]
        BY <2>1, <1>2, <3>1 DEF Prefill, Generate, Release
      <3> QED
        BY <3>2, <1>2
    <2>2. CASE SlotErase(o) \/ \E f \in Files : SlotSave(o, f) \/ SlotRestore(o, f)
      <3>1. ASSUME NEW x PROVE x \in SlotRec => \A e : Loaded(x, e).req = x.req /\ ClearedSlot(x).req = x.req
        BY DEF Loaded, ClearedSlot, SlotRec
      <3>2. \/ slots' = slots \/ slots' = [slots EXCEPT ![o] = ClearedSlot(slots[o])]
            \/ \E e : slots' = [slots EXCEPT ![o] = Loaded(slots[o], e)]
        BY <2>2 DEF SlotErase, SlotSave, SlotRestore
      <3> QED
        BY <3>1, <3>2, <1>1, <1>2
    <2> QED
      BY <1>3, <2>1, <2>2 DEF SlotStep
  <1>4. CASE Purge
    <2> DEFINE m == Min({o \in Idle : slots[o].tokens # <<>>})
    <2>1. slots' = [slots EXCEPT ![m] = ClearedSlot(slots[m])]
      BY <1>4 DEF Purge
    <2> HIDE DEF m
    <2>2. ClearedSlot(slots[s]).req = NoRequest
      BY <1>1, <1>2 DEF ClearedSlot, SlotRec
    <2> QED
      BY <2>1, <2>2, <1>2
  <1>5. CASE SetLora
    BY <1>2, <1>5 DEF SetLora
  <1> QED
    BY <1>3, <1>4, <1>5 DEF Next

\* A task that gets an idle slot leaves the prompt of which it keeps less than half in the cache.
LEMMA DisplacedStep ==
    ASSUME PromptInv, limit = 0, Roomy, NEW r \in Requests, NEW fault \in Faults \cup {"none"}, Assign(r, fault),
           NEW s \in Slots, ~ Busy(s), slots'[s].req # NoRequest, LosesHalf(s)
    PROVE  Covered(cache', slots[s].tokens)
  <1>1. PICK c \in Slots : \E x, new :
             /\ AssignsTo(r, fault, c, x, new)
             /\ x.limit \in Nat /\ x.cache \in GoodCaches(x.limit)
             /\ GoodSlot(x.slot) /\ x.slot.req = slots[c].req
             /\ OnSlots(new) /\ \A o \in Slots : GoodSlot(new[o])
             /\ \A o \in Slots \ {c} : new[o] = slots[o]
             /\ new[c] = IF Busy(c) THEN x.slot ELSE Launched(x.slot, r, fault)
    BY AssignFacts DEF OnSlots
  <1>2. PICK x, new :
             /\ AssignsTo(r, fault, c, x, new)
             /\ x.limit \in Nat /\ x.cache \in GoodCaches(x.limit)
             /\ GoodSlot(x.slot) /\ x.slot.req = slots[c].req
             /\ OnSlots(new) /\ \A o \in Slots : GoodSlot(new[o])
             /\ \A o \in Slots \ {c} : new[o] = slots[o]
             /\ new[c] = IF Busy(c) THEN x.slot ELSE Launched(x.slot, r, fault)
    BY <1>1
  <1>3. setup \in Setups /\ global \in Loras /\ fault # "alloc" /\ CacheOn /\ Similarity > 0 /\ slots[s].req = NoRequest
    BY DEF PromptInv, Roomy, Busy
  <1>4. slots'[s].req = new[s].req
    <2>1. CASE slots' = new
      BY <2>1
    <2>2. CASE slots' = IdleCleared(new)
      <3>1. \A o \in Slots : IdleCleared(new)[o].req = new[o].req
        BY <1>2, <1>3, IdleClearedFacts
      <3> QED
        BY <2>2, <3>1
    <2> QED
      BY <1>2, <2>1, <2>2 DEF AssignsTo
  <1>5. c = s
    BY <1>2, <1>3, <1>4
  <1>6. new[s].req = r /\ new[s] = Launched(x.slot, r, fault)
    <2>1. new[s] = Launched(x.slot, r, fault) /\ x.slot.req = NoRequest
      BY <1>2, <1>3, <1>5
    <2>2. Launched(x.slot, r, fault).req \in {r, NoRequest}
      BY <1>2, <1>3, <2>1, LaunchedFacts
    <2> QED
      BY <2>1, <2>2, <1>4
  <1>7. 2 * Common(slots[s].tokens, r.prompt) < Len(slots[s].tokens)
    BY <1>4, <1>6 DEF LosesHalf
  <1>8. slots[s].tokens \in Texts /\ slots[s].tokens \in Seq(Token) /\ slots[s].tokens # <<>> /\ 0 < Len(slots[s].tokens)
    <2>1. slots[s].tokens \in Texts /\ r.prompt \in Texts
      BY <1>3, Parameters DEF PromptInv, GoodSlot, SlotRec
    <2>2. slots[s].tokens \in Seq(Token) /\ r.prompt \in Seq(Token)
      BY <2>1 DEF Texts
    <2>3. Common(slots[s].tokens, r.prompt) \in 0..Len(slots[s].tokens) /\ Len(slots[s].tokens) \in Nat /\ Len(<<>>) = 0
      BY <2>2, CommonFacts, LenProperties, EmptySeq
    <2>4. 0 < Len(slots[s].tokens)
      BY <1>7, <2>3
    <2> QED
      BY <2>1, <2>2, <2>3, <2>4
  <1>9. s = Chosen(r) /\ (Similar(r) # {} => Chosen(r) \in Similar(r))
    BY <1>2, <1>5, ChosenFacts DEF AssignsTo, Assign
  <1>10. UpdatesCache(r)
    <2>1. CASE Similar(r) # {} \/ r.slot # AnySlot
      <3> DEFINE kept == IF Similar(r) # {} THEN Sim(Chosen(r), r) ELSE 0
      <3>1. LosesPrompt(r) = (slots[s].tokens # <<>> /\ 2 * kept < Len(slots[s].tokens))
        BY <2>1, <1>3, <1>9 DEF LosesPrompt
      <3>2. 2 * kept < Len(slots[s].tokens)
        BY <1>7, <1>8, <1>9 DEF Sim
      <3> QED
        BY <3>1, <3>2, <1>3, <1>8 DEF UpdatesCache
    <2>2. CASE ~ (Similar(r) # {} \/ r.slot # AnySlot)
      BY <2>2, <1>3 DEF UpdatesCache, LosesPrompt
    <2> QED
      BY <2>1, <2>2
  <1>11. x.limit = 0 /\ Covered(x.cache, slots[s].tokens)
    <2>1. x = Exchange(slots[s], r, fault)
      BY <1>2, <1>5, <1>10 DEF AssignsTo, Exchanged
    <2> QED
      BY <2>1, <1>3, <1>7, ExchangeKeeps
  <1>12. cache' = IdleSaved(x.cache, 0, new) \/ cache' = x.cache
    BY <1>2, <1>11 DEF AssignsTo
  <1>13. x.cache \in GoodCaches(0)
    BY <1>2, <1>11
  <1>14. Covered(IdleSaved(x.cache, 0, new), slots[s].tokens)
    BY <1>2, <1>3, <1>8, <1>11, <1>13, IdleSavedKeeps
  <1> QED
    BY <1>11, <1>12, <1>14

\* A prompt of which a new task keeps less than half is in the cache after the task has its slot, as
\* long as the cache has no limit and memory can be had (get_available_slot, prompt_save, load).
THEOREM DisplacedStays == Spec => DisplacedIsCached
  <1> DEFINE RoomInv == Roomy => limit = 0
             Keeps == Roomy => \A s \in Slots : ~ Busy(s) /\ slots'[s].req # NoRequest /\ LosesHalf(s)
                                => Covered(cache', slots[s].tokens)
  <1>1. Init => RoomInv
    BY DEF Init, Roomy
  <1>2. PromptInv /\ RoomInv /\ [Next]_vars => RoomInv'
    BY RoomStays
  <1>3. PromptInv /\ RoomInv /\ [Next]_vars => [Keeps]_vars
    <2> SUFFICES ASSUME PromptInv, RoomInv, Next, Roomy, NEW s \in Slots, ~ Busy(s), slots'[s].req # NoRequest, LosesHalf(s)
                 PROVE  Covered(cache', slots[s].tokens)
      OBVIOUS
    <2>1. PICK r \in Requests, fault \in Faults \cup {"none"} : Assign(r, fault)
      BY OnlyAssigned
    <2> QED
      BY <2>1, DisplacedStep
  <1>4. [][Keeps]_vars <=> DisplacedIsCached
    BY DEF DisplacedIsCached
  <1> HIDE DEF RoomInv, Keeps
  <1> QED
    BY PromptInit, PromptStep, <1>1, <1>2, <1>3, <1>4, PTL DEF Spec

=============================================================================
