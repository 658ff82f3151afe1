--------------------------- MODULE TextStreamProofs ----------------------------
(* For every request and every sequence of tokens: a stop word is found in *)
(* time, what is sent stays, a stream ends as the answer does, and parts   *)
(* and lines end where they should.  The second half is about the results  *)
(* on their way to the client (ResultStream): for every number of tasks    *)
(* and every interleaving of them, an answer has one end, what a task      *)
(* streams begins with the event that opens its message, the deltas add up *)
(* to the message, and its items and blocks are opened, filled and closed. *)
EXTENDS TextStream, ResultStream, ProofLemmas

(* A word is in a text after the first i bytes; what follows them is the   *)
(* beginning of a word.                                                    *)
At(s, w, i)     == i + Len(w) <= Len(s) /\ \A j \in 1..Len(w) : s[i + j] = w[j]
Begins(s, w, k) == Len(s) - k <= Len(w) /\ \A j \in 1..Len(s) - k : s[k + j] = w[j]

Words == ToSet(StopWords)

-----------------------------------------------------------------------------
(* Texts.                                                                  *)

\* Where a word is, byte by byte.
LEMMA OccursTokens ==
    ASSUME NEW S, NEW s \in Seq(S), NEW w \in Seq(S), NEW i \in Nat
    PROVE  OccursAt(s, w, i) <=> At(s, w, i)
  <1>1. Len(w) \in Nat /\ Len(s) \in Nat
    BY LenProperties
  <1> SUFFICES ASSUME i + Len(w) <= Len(s)
               PROVE  SubSeq(s, i + 1, i + Len(w)) = w <=> \A j \in 1..Len(w) : s[i + j] = w[j]
    BY DEF OccursAt, At
  <1> DEFINE p == SubSeq(s, i + 1, i + Len(w))
  <1>2. p \in Seq(S) /\ Len(p) = Len(w) /\ \A j \in 1..Len(w) : p[j] = s[i + j]
    BY <1>1, Slice
  <1> HIDE DEF p
  <1>3. ASSUME p = w PROVE \A j \in 1..Len(w) : s[i + j] = w[j]
    BY <1>2, <1>3
  <1>4. ASSUME \A j \in 1..Len(w) : s[i + j] = w[j] PROVE p = w
    BY <1>2, <1>4, SeqEqual
  <1> QED
    BY <1>3, <1>4 DEF p

\* What may become a word, byte by byte.
LEMMA BeginsTokens ==
    ASSUME NEW S, NEW s \in Seq(S), NEW w \in Seq(S), NEW k \in 0..Len(s)
    PROVE  IsPrefix(SubSeq(s, k + 1, Len(s)), w) <=> Begins(s, w, k)
  <1> DEFINE p == SubSeq(s, k + 1, Len(s))
  <1>1. p \in Seq(S) /\ Len(p) = Len(s) - k /\ \A j \in 1..Len(s) - k : p[j] = s[k + j]
    BY Suffix
  <1> HIDE DEF p
  <1>2. IsPrefix(p, w) <=> Len(p) <= Len(w) /\ \A j \in 1..Len(p) : p[j] = w[j]
    BY <1>1, PrefixTokens
  <1> QED
    BY <1>1, <1>2 DEF Begins, p

-----------------------------------------------------------------------------
(* The text of the tokens that were sampled.                               *)
IsJoin(f, ts, n) == f[0] = <<>> /\ \A i \in 1..n : f[i] = f[i - 1] \o ts[i].text

\* The recursion of Joined is well defined, and yields texts.
LEMMA JoinedRuns ==
    ASSUME NEW ts, Len(ts) \in Nat, \A i \in 1..Len(ts) : ts[i].text \in Seq(STRING)
    PROVE  /\ Joined(ts) \in Seq(STRING)
           /\ \E f : IsJoin(f, ts, Len(ts)) /\ Joined(ts) = f[Len(ts)]
  <1> DEFINE N == Len(ts)
             S == Seq(STRING)
             F == [i \in 1..N |-> [x \in S |-> x \o ts[i].text]]
             Step(f) == [i \in 0..N |-> IF i = 0 THEN <<>> ELSE f[i - 1] \o ts[i].text]
             k == CHOOSE g : g = Step(g)
             e == <<>>
  <1>1. N \in Nat /\ e \in S
    BY EmptySeq
  <1>2. ASSUME NEW i \in 1..N, NEW x \in S PROVE F[i][x] = x \o ts[i].text /\ F[i][x] \in S
    BY ConcatProperties
  <1>3. Stays(F, N, S)
    BY <1>2 DEF Stays
  <1>4. ASSUME NEW f, Runs(f, F, N, S, e) PROVE (\A i \in 0..N : f[i] \in S) /\ IsJoin(f, ts, N)
    <2> HIDE DEF S, F, N
    <2>1. \A i \in 0..N : f[i] \in S
      <3> HIDE DEF e
      <3> QED
        BY <1>1, <1>3, <1>4, Recursion
    <2>2. ASSUME NEW i \in 1..N PROVE f[i] = f[i - 1] \o ts[i].text
      <3>1. i - 1 \in 0..N
        BY <1>1
      <3>2. f[i - 1] \in S
        BY <2>1, <3>1
      <3> QED
        BY <3>2, <1>2, <1>4 DEF Runs
    <2>3. f[0] = <<>>
      BY <1>4 DEF Runs
    <2> QED
      BY <2>1, <2>2, <2>3 DEF IsJoin
  <1>5. PICK f : DOMAIN f = 0..N /\ Runs(f, F, N, S, e)
    <2> HIDE DEF S, F, e, N
    <2> QED
      BY <1>1, <1>3, Recursion
  <1> DEFINE h == [i \in 0..N |-> f[i]]
  <1>6. h = Step(h)
    <2>1. IsJoin(f, ts, N)
      BY <1>4, <1>5
    <2>2. ASSUME NEW i \in 0..N PROVE h[i] = Step(h)[i]
      <3>1. CASE i = 0
        BY <3>1, <2>1 DEF IsJoin
      <3>2. CASE i # 0
        <4>1. i \in 1..N /\ i - 1 \in 0..N
          BY <3>2, <1>1
        <4> QED
          BY <4>1, <3>2, <2>1 DEF IsJoin
      <3> QED
        BY <3>1, <3>2
    <2> QED
      BY <2>2
  <1>7. k = Step(k)
    BY <1>6
  <1>8. Joined(ts) = k[N]
    BY DEF Joined
  <1> HIDE DEF k
  <1>9. k[0] = <<>> /\ \A i \in 1..N : k[i] = k[i - 1] \o ts[i].text
    <2>1. ASSUME NEW i \in 0..N PROVE k[i] = IF i = 0 THEN <<>> ELSE k[i - 1] \o ts[i].text
      BY <1>7
    <2>2. 0 \in 0..N /\ \A i \in 1..N : i \in 0..N /\ i # 0
      BY <1>1
    <2>3. k[0] = <<>>
      BY <2>1, <2>2
    <2>4. ASSUME NEW i \in 1..N PROVE k[i] = k[i - 1] \o ts[i].text
      BY <2>1, <2>2
    <2> QED
      BY <2>3, <2>4
  <1>10. Runs(k, F, N, S, e)
    BY <1>2, <1>9 DEF Runs
  <1>11. (\A i \in 0..N : k[i] \in S) /\ IsJoin(k, ts, N)
    BY <1>4, <1>10
  <1> QED
    BY <1>1, <1>8, <1>11

\* One token more.
LEMMA JoinedAppend ==
    ASSUME NEW P, \A x \in P : x.text \in Seq(STRING), NEW ts \in Seq(P), NEW p \in P
    PROVE  /\ Joined(<<>>) = <<>>
           /\ Joined(ts) \in Seq(STRING)
           /\ Joined(Append(ts, p)) = Joined(ts) \o p.text
  <1> DEFINE us == Append(ts, p)
             n == Len(ts)
  <1>1. /\ Len(ts) \in Nat /\ \A i \in 1..Len(ts) : ts[i].text \in Seq(STRING)
    BY LenProperties, ElementOfSeq
  <1>2. us \in Seq(P) /\ Len(us) = Len(ts) + 1 /\ (\A i \in 1..Len(ts) : us[i] = ts[i]) /\ us[Len(ts) + 1] = p
    BY AppendProperties
  <1> HIDE DEF us
  <1>3. Len(us) \in Nat /\ \A i \in 1..Len(us) : us[i].text \in Seq(STRING)
    BY <1>1, <1>2, ElementOfSeq
  <1>4. PICK f : IsJoin(f, ts, Len(ts)) /\ Joined(ts) = f[Len(ts)]
    BY <1>1, JoinedRuns
  <1>5. PICK g : IsJoin(g, us, Len(us)) /\ Joined(us) = g[Len(us)]
    BY <1>3, JoinedRuns
  <1> DEFINE T == {i \in Nat : i <= n => f[i] = g[i]}
  <1>6. 0 \in T
    BY <1>4, <1>5 DEF IsJoin
  <1>7. ASSUME NEW i \in Nat, i \in T PROVE i + 1 \in T
    <2> SUFFICES ASSUME i + 1 <= n PROVE f[i + 1] = g[i + 1]
      OBVIOUS
    <2>1. i + 1 \in 1..Len(ts) /\ i + 1 \in 1..Len(us) /\ (i + 1) - 1 = i /\ f[i] = g[i]
      BY <1>1, <1>2, <1>7
    <2>2. f[i + 1] = f[(i + 1) - 1] \o ts[i + 1].text
      BY <2>1, <1>4 DEF IsJoin
    <2>3. g[i + 1] = g[(i + 1) - 1] \o us[i + 1].text
      BY <2>1, <1>5 DEF IsJoin
    <2> QED
      BY <2>1, <2>2, <2>3, <1>2
  <1>8. Nat \subseteq T
    <2> HIDE DEF T
    <2> QED
      BY <1>6, <1>7, SetInduction
  <1>9. f[n] = g[n]
    BY <1>1, <1>8
  <1>10. g[n + 1] = g[n] \o p.text
    <2>1. n + 1 \in 1..Len(us) /\ (n + 1) - 1 = n
      BY <1>1, <1>2
    <2>2. g[n + 1] = g[(n + 1) - 1] \o us[n + 1].text
      BY <2>1, <1>5 DEF IsJoin
    <2> QED
      BY <2>1, <2>2, <1>2
  <1>11. Joined(us) = Joined(ts) \o p.text
    BY <1>2, <1>4, <1>5, <1>9, <1>10
  <1>12. Joined(<<>>) = <<>>
    <2> DEFINE z == <<>>
    <2>1. Len(z) = 0 /\ z = <<>>
      OBVIOUS
    <2> HIDE DEF z
    <2>2. Len(z) \in Nat /\ \A i \in 1..Len(z) : z[i].text \in Seq(STRING)
      BY <2>1
    <2>3. \E h : IsJoin(h, z, Len(z)) /\ Joined(z) = h[Len(z)]
      BY <2>2, JoinedRuns
    <2>4. Joined(z) = <<>>
      BY <2>1, <2>3 DEF IsJoin
    <2> QED
      BY <2>1, <2>4
  <1> QED
    BY <1>1, <1>11, <1>12, JoinedRuns DEF us

-----------------------------------------------------------------------------
(* The parts of process_token.                                             *)

\* What a request asks for.
LEMMA Request ==
    ASSUME params \in Params
    PROVE  /\ NewLine \notin Blanks /\ NIndent \in Nat
           /\ \A p \in Pieces : p.text \in Seq(STRING) /\ p.eog \in BOOLEAN
           /\ StopWords \in Seq(Seq(STRING) \ {<<>>}) /\ Len(StopWords) \in Nat
           /\ \A w \in Words : w \in Seq(STRING) /\ Len(w) \in Nat \ {0} /\ w # <<>>
           /\ \A c \in DOMAIN Width : Width[c] \in 1..4
  <1>1. /\ NewLine \notin Blanks /\ NIndent \in Nat
        /\ \A p \in Pieces : p.text \in Seq(STRING) /\ p.eog \in BOOLEAN
        /\ StopWords \in Seq(Seq(STRING) \ {<<>>})
        /\ \A c \in DOMAIN Width : Width[c] \in 1..4
    BY StreamAssumption DEF NIndent, Pieces, StopWords, Width
  <1>2. Len(StopWords) \in Nat /\ DOMAIN StopWords = 1..Len(StopWords)
    BY <1>1, LenProperties
  <1>3. ASSUME NEW w \in Words PROVE w \in Seq(STRING) /\ w # <<>>
    <2>1. PICK i \in DOMAIN StopWords : w = StopWords[i]
      BY DEF Words, ToSet
    <2> QED
      BY <2>1, <1>1, <1>2, ElementOfSeq
  <1>4. ASSUME NEW w \in Words PROVE Len(w) \in Nat \ {0}
    BY <1>3, EmptySeq, LenProperties
  <1> QED
    BY <1>1, <1>2, <1>3, <1>4

\* The greater of 0 and a number.
LEMMA FromZero ==
    ASSUME NEW x \in Int, NEW i \in Int
    PROVE  i >= Max({0, x}) <=> i >= 0 /\ i >= x
  <1> DEFINE T == {0, x}
  <1>1. \E y \in T : \A z \in T : y >= z
    <2>1. CASE x >= 0
      BY <2>1
    <2>2. CASE ~ (x >= 0)
      BY <2>2
    <2> QED
      BY <2>1, <2>2
  <1>2. Max(T) \in T /\ \A z \in T : Max(T) >= z
    BY <1>1 DEF Max
  <1> QED
    BY <1>2

\* A text has an incomplete character at its end, and none if its characters have one byte.
LEMMA Completed ==
    ASSUME params \in Params, NEW s \in Seq(STRING)
    PROVE  /\ DOMAIN Width = {} => ~ Incomplete(s)
           /\ ~ Incomplete(s) => \A j \in 1..Len(s) : s[j] \in DOMAIN Width => j + Width[s[j]] - 1 <= Len(s)
  <1>1. DOMAIN Width = {} => ~ Incomplete(s)
    BY DEF Incomplete
  <1>2. ASSUME ~ Incomplete(s), NEW j \in 1..Len(s), s[j] \in DOMAIN Width PROVE j + Width[s[j]] - 1 <= Len(s)
    <2> DEFINE i == Len(s) - j + 1
               T == {4, Len(s)}
    <2>1. Len(s) \in Nat /\ Width[s[j]] \in 1..4
      BY <1>2, LenProperties, Request
    <2>2. T \subseteq 0..Len(s) + 4 /\ T # {} /\ Len(s) + 4 \in Nat
      BY <2>1
    <2>3. Min(T) \in T
      <3> HIDE DEF T
      <3> QED
        BY <2>2, Extremes
    <2>4. CASE i <= 4
      <3>1. i \in 1..Min(T)
        BY <2>1, <2>3, <2>4
      <3>2. s[Len(s) - i + 1] = s[j]
        BY <2>1
      <3> HIDE DEF i
      <3>3. ~ (s[j] \in DOMAIN Width /\ i < Width[s[j]])
        BY <1>2, <3>1, <3>2 DEF Incomplete
      <3> QED
        BY <3>3, <2>1, <1>2 DEF i
    <2>5. CASE ~ (i <= 4)
      BY <2>1, <2>5
    <2> QED
      BY <2>4, <2>5
  <1> QED
    BY <1>1, <1>2

\* What is looked at after a token: where a stop word begins in it.
LEMMA StopsFound ==
    ASSUME params \in Params, NEW s \in Seq(STRING), NEW u \in Seq(STRING), NEW n \in 0..Len(s), NEW i
    PROVE  LET all  == s \o u
               test == SubSeq(all, n + 1, Len(all))
           IN  i \in StopsAt(test, Len(u)) <=>
                   /\ i \in 0..Len(all) - n
                   /\ \E w \in Words : n + i >= Len(s) - Len(w) /\ At(all, w, n + i)
  <1> DEFINE all  == s \o u
             test == SubSeq(all, n + 1, Len(all))
  <1>1. all \in Seq(STRING) /\ Len(all) = Len(s) + Len(u) /\ Len(s) \in Nat /\ Len(u) \in Nat
    BY Both
  <1> HIDE DEF all
  <1>2. n \in 0..Len(all)
    BY <1>1
  <1>3. /\ test \in Seq(STRING) /\ Len(test) = Len(all) - n
        /\ \A j \in 1..Len(all) - n : test[j] = all[n + j]
    BY <1>1, <1>2, Suffix
  <1> HIDE DEF test
  <1>4. ASSUME i \in 0..Len(test), NEW w \in Words
        PROVE  i >= From(test, w, Len(u)) /\ OccursAt(test, w, i) <=> n + i >= Len(s) - Len(w) /\ At(all, w, n + i)
    <2>1. w \in Seq(STRING) /\ Len(w) \in Nat \ {0}
      BY Request
    <2>2. i \in Nat /\ i \in Int /\ Len(test) - Len(w) - Len(u) \in Int
      BY <1>1, <1>3, <1>4, <2>1
    <2>3. i >= From(test, w, Len(u)) <=> i >= Len(test) - Len(w) - Len(u)
      BY <2>2, FromZero DEF From
    <2>4. i >= Len(test) - Len(w) - Len(u) <=> n + i >= Len(s) - Len(w)
      BY <1>1, <1>3, <2>1, <2>2
    <2>5. OccursAt(test, w, i) <=> At(test, w, i)
      BY <1>3, <2>1, <2>2, OccursTokens
    <2>6. At(test, w, i) <=> At(all, w, n + i)
      <3>1. i + Len(w) <= Len(test) <=> (n + i) + Len(w) <= Len(all)
        BY <1>1, <1>3, <2>1, <2>2
      <3>2. ASSUME i + Len(w) <= Len(test), NEW j \in 1..Len(w) PROVE test[i + j] = all[(n + i) + j]
        <4>1. i + j \in 1..Len(all) - n /\ n + (i + j) = (n + i) + j
          BY <1>1, <1>3, <2>1, <2>2, <3>2
        <4> QED
          BY <4>1, <1>3
      <3> QED
        BY <3>1, <3>2 DEF At
    <2> QED
      BY <2>3, <2>4, <2>5, <2>6
  <1>5. i \in StopsAt(test, Len(u)) <=>
            i \in 0..Len(test) /\ \E w \in Words : i >= From(test, w, Len(u)) /\ OccursAt(test, w, i)
    BY DEF StopsAt, Words
  <1>6. i \in StopsAt(test, Len(u)) <=>
            i \in 0..Len(test) /\ \E w \in Words : n + i >= Len(s) - Len(w) /\ At(all, w, n + i)
    BY <1>4, <1>5
  <1> QED
    BY <1>3, <1>6 DEF all, test

\* The first stop word that is found, and which one it is.
LEMMA FirstStop ==
    ASSUME params \in Params, NEW s \in Seq(STRING), NEW u \in Seq(STRING), NEW n \in 0..Len(s)
    PROVE  LET all  == s \o u
               test == SubSeq(all, n + 1, Len(all))
               stops == StopsAt(test, Len(u))
           IN  stops # {} =>
                   /\ Min(stops) \in stops /\ \A i \in stops : Min(stops) <= i
                   /\ Min(stops) \in 0..Len(all) - n
                   /\ WordAt(test, Len(u)) \in Words
                   /\ At(all, WordAt(test, Len(u)), n + Min(stops))
  <1> DEFINE all  == s \o u
             test == SubSeq(all, n + 1, Len(all))
             stops == StopsAt(test, Len(u))
  <1>1. all \in Seq(STRING) /\ Len(all) = Len(s) + Len(u) /\ Len(s) \in Nat /\ Len(u) \in Nat
    BY Both
  <1>2. \A i : i \in stops <=>
                   /\ i \in 0..Len(all) - n
                   /\ \E w \in Words : n + i >= Len(s) - Len(w) /\ At(all, w, n + i)
    BY StopsFound
  <1>3. n \in 0..Len(all)
    BY <1>1
  <1>4. /\ test \in Seq(STRING) /\ Len(test) = Len(all) - n
        /\ \A j \in 1..Len(all) - n : test[j] = all[n + j]
    <2> HIDE DEF all
    <2> QED
      BY <1>1, <1>3, Suffix
  <1> SUFFICES ASSUME stops # {}
               PROVE  /\ Min(stops) \in stops /\ \A i \in stops : Min(stops) <= i
                      /\ Min(stops) \in 0..Len(all) - n
                      /\ WordAt(test, Len(u)) \in Words
                      /\ At(all, WordAt(test, Len(u)), n + Min(stops))
    OBVIOUS
  <1> HIDE DEF all, test
  <1>5. Len(all) - n \in Nat /\ stops \subseteq 0..Len(all) - n
    BY <1>1, <1>2, <1>3
  <1> DEFINE m == Min(stops)
             K == {k \in DOMAIN StopWords : m >= From(test, StopWords[k], Len(u)) /\ OccursAt(test, StopWords[k], m)}
  <1>6. m \in stops /\ \A i \in stops : m <= i
    <2> HIDE DEF stops
    <2> QED
      BY <1>5, Extremes
  <1>7. K # {} /\ K \subseteq 0..Len(StopWords) /\ Len(StopWords) \in Nat
    <2>1. PICK w \in ToSet(StopWords) : m >= From(test, w, Len(u)) /\ OccursAt(test, w, m)
      BY <1>6 DEF StopsAt
    <2>2. PICK k \in DOMAIN StopWords : w = StopWords[k]
      BY DEF ToSet
    <2>3. k \in K
      BY <2>1, <2>2
    <2>4. Len(StopWords) \in Nat /\ DOMAIN StopWords = 1..Len(StopWords)
      BY Request, LenProperties
    <2> QED
      BY <2>3, <2>4
  <1>8. Min(K) \in K
    <2> HIDE DEF K
    <2> QED
      BY <1>7, Extremes
  <1>9. WordAt(test, Len(u)) = StopWords[Min(K)]
    BY DEF WordAt
  <1> DEFINE w == StopWords[Min(K)]
  <1>10. w \in Words /\ OccursAt(test, w, m)
    <2> HIDE DEF m
    <2> QED
      BY <1>8 DEF Words, ToSet
  <1> HIDE DEF m, K, w, stops
  <1>11. At(all, w, n + m)
    <2>1. w \in Seq(STRING) /\ Len(w) \in Nat /\ m \in Nat /\ m \in 0..Len(all) - n
      BY <1>5, <1>6, <1>10, Request
    <2>2. At(test, w, m)
      BY <2>1, <1>4, <1>10, OccursTokens
    <2>3. (n + m) + Len(w) <= Len(all)
      BY <2>1, <2>2, <1>1, <1>4 DEF At
    <2>4. ASSUME NEW j \in 1..Len(w) PROVE all[(n + m) + j] = w[j]
      <3>1. m + j \in 1..Len(all) - n /\ n + (m + j) = (n + m) + j
        BY <2>1, <2>3, <1>1
      <3> QED
        BY <3>1, <2>2, <1>4 DEF At
    <2> QED
      BY <2>3, <2>4 DEF At
  <1> QED
    BY <1>5, <1>6, <1>9, <1>10, <1>11 DEF m, w

\* The end of what was not sent may become a stop word.
LEMMA MayBegin ==
    ASSUME params \in Params, NEW s \in Seq(STRING), NEW n \in 0..Len(s)
    PROVE  MayStop(SubSeq(s, n + 1, Len(s))) <=> \E w \in Words, k \in n..Len(s) - 1 : Begins(s, w, k)
  <1> DEFINE test == SubSeq(s, n + 1, Len(s))
  <1>1. Len(s) \in Nat /\ test \in Seq(STRING) /\ Len(test) = Len(s) - n
        /\ \A j \in 1..Len(s) - n : test[j] = s[n + j]
    BY Suffix, LenProperties
  <1> HIDE DEF test
  <1>2. ASSUME NEW w \in Words, NEW h \in 0..Len(test)
        PROVE  IsPrefix(SubSeq(test, h + 1, Len(test)), w) <=> Begins(s, w, n + h)
    <2>1. w \in Seq(STRING) /\ Len(w) \in Nat
      BY Request
    <2>2. IsPrefix(SubSeq(test, h + 1, Len(test)), w) <=> Begins(test, w, h)
      BY <1>1, <2>1, BeginsTokens
    <2>3. Len(test) - h = Len(s) - (n + h)
      BY <1>1
    <2>4. ASSUME NEW j \in 1..Len(test) - h PROVE test[h + j] = s[(n + h) + j]
      <3>1. h + j \in 1..Len(s) - n /\ n + (h + j) = (n + h) + j
        BY <1>1
      <3> QED
        BY <3>1, <1>1
    <2> QED
      BY <2>2, <2>3, <2>4 DEF Begins
  <1>3. ASSUME MayStop(test) PROVE \E w \in Words, k \in n..Len(s) - 1 : Begins(s, w, k)
    <2>1. PICK w \in Words, k \in 1..Len(test) : IsPrefix(SubSeq(test, Len(test) - k + 1, Len(test)), w)
      BY <1>3 DEF MayStop, Words
    <2> DEFINE h == Len(test) - k
    <2>2. h \in 0..Len(test) /\ n + h \in n..Len(s) - 1
      BY <1>1
    <2> HIDE DEF h
    <2>3. IsPrefix(SubSeq(test, h + 1, Len(test)), w)
      BY <2>1 DEF h
    <2> QED
      BY <2>2, <2>3, <1>2
  <1>4. ASSUME NEW w \in Words, NEW k \in n..Len(s) - 1, Begins(s, w, k) PROVE MayStop(test)
    <2> DEFINE h == k - n
               e == Len(test) - h
    <2>1. h \in 0..Len(test) /\ n + h = k /\ e \in 1..Len(test) /\ Len(test) - e = h
      BY <1>1
    <2> HIDE DEF h, e
    <2>2. IsPrefix(SubSeq(test, h + 1, Len(test)), w)
      BY <2>1, <1>2, <1>4
    <2>3. IsPrefix(SubSeq(test, Len(test) - e + 1, Len(test)), w)
      BY <2>1, <2>2
    <2> QED
      BY <2>1, <2>3 DEF MayStop, Words
  <1> QED
    BY <1>3, <1>4 DEF test

\* Only white space comes before the end of the indentation.
LEMMA Indentation ==
    ASSUME NEW s \in Seq(STRING), NEW i \in 0..Len(s)
    PROVE  /\ IndentEnd(s, i) \in i..Len(s)
           /\ IndentEnd(s, i) = Len(s) \/ s[IndentEnd(s, i) + 1] \notin Blanks
           /\ \A j \in i..IndentEnd(s, i) - 1 : s[j + 1] \in Blanks
  <1> DEFINE T == {j \in i..Len(s) : j = Len(s) \/ s[j + 1] \notin Blanks}
  <1>1. Len(s) \in Nat
    BY LenProperties
  <1>2. T \subseteq 0..Len(s) /\ Len(s) \in T
    BY <1>1
  <1>3. Min(T) \in T /\ \A y \in T : Min(T) <= y
    <2> HIDE DEF T
    <2> QED
      BY <1>1, <1>2, Extremes
  <1> DEFINE e == Min(T)
  <1>4. e \in T /\ \A y \in T : e <= y
    BY <1>3
  <1>5. IndentEnd(s, i) = e
    BY DEF IndentEnd
  <1> HIDE DEF e
  <1>6. ASSUME NEW j \in i..e - 1 PROVE s[j + 1] \in Blanks
    <2>1. j \in i..Len(s) /\ ~ (e <= j)
      BY <1>1, <1>4
    <2>2. j \notin T
      BY <1>4, <2>1
    <2> QED
      BY <2>1, <2>2
  <1> QED
    BY <1>4, <1>5, <1>6

(* The line after the first i bytes begins with too little white space.    *)
Short(s, i) ==
    \E e \in i..Len(s) - 1 :
        e - i < NIndent /\ s[e + 1] \notin Blanks /\ \A j \in i..e - 1 : s[j + 1] \in Blanks

\* That is what process_token finds.
LEMMA ShortLine ==
    ASSUME params \in Params, NEW s \in Seq(STRING), NEW i \in 0..Len(s)
    PROVE  Short(s, i) <=> IndentEnd(s, i) < Len(s) /\ IndentEnd(s, i) - i < NIndent
  <1> DEFINE e == IndentEnd(s, i)
  <1>1. /\ Len(s) \in Nat /\ NIndent \in Nat
        /\ e \in i..Len(s)
        /\ e = Len(s) \/ s[e + 1] \notin Blanks
        /\ \A j \in i..e - 1 : s[j + 1] \in Blanks
    BY Indentation, LenProperties, Request
  <1> HIDE DEF e
  <1>2. ASSUME e < Len(s), e - i < NIndent PROVE Short(s, i)
    <2>1. e \in i..Len(s) - 1
      BY <1>1, <1>2
    <2> QED
      BY <2>1, <1>1, <1>2 DEF Short
  <1>3. ASSUME Short(s, i) PROVE e < Len(s) /\ e - i < NIndent
    <2>1. PICK f \in i..Len(s) - 1 :
              f - i < NIndent /\ s[f + 1] \notin Blanks /\ \A j \in i..f - 1 : s[j + 1] \in Blanks
      BY <1>3 DEF Short
    <2>2. ~ (e < f)
      <3> SUFFICES ASSUME e < f PROVE FALSE
        OBVIOUS
      <3>1. e \in i..f - 1 /\ e # Len(s)
        BY <1>1
      <3> QED
        BY <3>1, <2>1, <1>1
    <2>3. ~ (f < e)
      <3> SUFFICES ASSUME f < e PROVE FALSE
        OBVIOUS
      <3>1. f \in i..e - 1
        BY <1>1
      <3> QED
        BY <3>1, <2>1, <1>1
    <2> QED
      BY <1>1, <2>1, <2>2, <2>3
  <1> QED
    BY <1>2, <1>3 DEF e

-----------------------------------------------------------------------------
(* The inductive invariant.                                                *)
Types ==
    /\ params \in Params
    /\ text \in Seq(STRING) /\ sent \in Nat /\ nl \in BOOLEAN /\ nlPos \in Nat
    /\ word \in Words \cup {<<>>}
    /\ tokens \in Seq(Pieces) /\ probs \in Seq(Pieces) /\ Len(probs) <= Len(tokens)
    /\ parts \in [text : Seq(STRING), tokens : Seq(Pieces)]

(* The parts are the text up to what was sent.                             *)
PartsInv ==
    /\ sent <= Len(text) /\ Len(parts.text) = sent
    /\ \A i \in 1..sent : parts.text[i] = text[i]
    /\ DOMAIN Width = {} => parts.tokens = tokens

(* What is held back may begin a stop word, what was sent never does, and  *)
(* no stop word is in the text.                                            *)
WordInv ==
    /\ sent = Len(text) \/ Incomplete(text) \/ \E w \in Words, k \in sent..Len(text) - 1 : Begins(text, w, k)
    /\ \A w \in Words : \A k \in 0..sent - 1 : ~ Begins(text, w, k)
    /\ DOMAIN Width = {} => \A w \in Words : \A i \in 0..Len(text) : ~ At(text, w, i)

(* All lines before the current one are indented.                          *)
LineInv ==
    /\ nlPos <= Len(text)
    /\ nlPos > 0 => nl /\ NIndent > 0 /\ text[nlPos] = NewLine
    /\ \A i \in 1..nlPos - 1 : text[i] = NewLine => ~ Short(text, i)

Open    == stop = ""
Running == text = Sampled /\ word = <<>> /\ Open /\ PartsInv /\ WordInv /\ LineInv

StreamInv ==
    /\ Types
    /\ ~ Done => Running
    /\ StopWordsHonoured /\ StreamIsAnswer /\ HeldInv /\ TextInv

(* The beginning of a text.                                                *)
Starts(s, r) == Len(s) <= Len(r) /\ \A i \in 1..Len(s) : s[i] = r[i]

\* A word that is in the text with the new token, and not in the text without it, is found.
LEMMA NoneMissed ==
    ASSUME Types, Running, DOMAIN Width = {}, NEW u \in Seq(STRING), NEW w \in Words, NEW i \in Nat, At(text \o u, w, i)
    PROVE  LET all  == text \o u
               test == SubSeq(all, sent + 1, Len(all))
           IN  i >= sent /\ i - sent \in StopsAt(test, Len(u))
  <1> DEFINE all  == text \o u
             test == SubSeq(all, sent + 1, Len(all))
  <1>1. /\ all \in Seq(STRING) /\ Len(all) = Len(text) + Len(u) /\ Len(text) \in Nat /\ Len(u) \in Nat
        /\ \A j \in 1..Len(text) : all[j] = text[j]
    BY Both DEF Types
  <1>2. w \in Seq(STRING) /\ Len(w) \in Nat \ {0} /\ At(all, w, i) /\ sent \in 0..Len(text) /\ params \in Params
    <2>1. params \in Params /\ sent \in 0..Len(text)
      <3>1. params \in Params /\ sent \in Nat
        BY DEF Types
      <3>2. sent <= Len(text) /\ Len(text) \in Nat
        BY <1>1 DEF Running, PartsInv
      <3> QED
        BY <3>1, <3>2
    <2>2. w \in Seq(STRING) /\ Len(w) \in Nat \ {0}
      BY <2>1, Request
    <2>3. At(all, w, i)
      OBVIOUS
    <2> QED
      BY <2>1, <2>2, <2>3
  <1> HIDE DEF all
  <1>3. ~ (i + Len(w) <= Len(text))
    <2> SUFFICES ASSUME i + Len(w) <= Len(text) PROVE FALSE
      OBVIOUS
    <2>1. \A j \in 1..Len(w) : i + j \in 1..Len(text) /\ text[i + j] = w[j]
      BY <1>1, <1>2 DEF At
    <2>2. At(text, w, i) /\ i \in 0..Len(text)
      BY <2>1, <1>1, <1>2 DEF At
    <2> QED
      BY <2>2 DEF Running, WordInv
  <1>4. i >= sent
    <2> SUFFICES ASSUME i < sent PROVE FALSE
      BY <1>2
    <2>1. i \in 0..sent - 1 /\ Len(text) - i <= Len(w)
      BY <1>1, <1>2, <1>3
    <2>2. ASSUME NEW j \in 1..Len(text) - i PROVE text[i + j] = w[j]
      <3>1. j \in 1..Len(w) /\ i + j \in 1..Len(text)
        BY <2>1, <1>1, <1>2
      <3> QED
        BY <3>1, <1>1, <1>2 DEF At
    <2>3. Begins(text, w, i)
      BY <2>1, <2>2 DEF Begins
    <2> QED
      BY <2>1, <2>3 DEF Running, WordInv
  <1> DEFINE h == i - sent
  <1>5. h \in 0..Len(all) - sent /\ sent + h = i
    BY <1>1, <1>2, <1>4 DEF At
  <1>6. sent + h >= Len(text) - Len(w) /\ At(all, w, sent + h)
    BY <1>1, <1>2, <1>3, <1>5
  <1> HIDE DEF h
  <1>7. text \in Seq(STRING)
    BY DEF Types
  <1>8. h \in StopsAt(SubSeq(text \o u, sent + 1, Len(text \o u)), Len(u)) <=>
            /\ h \in 0..Len(text \o u) - sent
            /\ \E v \in Words : sent + h >= Len(text) - Len(v) /\ At(text \o u, v, sent + h)
    <2> DEFINE n == sent
               s == text
    <2>1. n \in 0..Len(s) /\ s \in Seq(STRING)
      BY <1>2, <1>7
    <2> HIDE DEF n, s
    <2>2. h \in StopsAt(SubSeq(s \o u, n + 1, Len(s \o u)), Len(u)) <=>
            /\ h \in 0..Len(s \o u) - n
            /\ \E v \in Words : n + h >= Len(s) - Len(v) /\ At(s \o u, v, n + h)
      BY <2>1, <1>2, StopsFound
    <2> QED
      BY <2>2 DEF n, s
  <1> QED
    BY <1>4, <1>5, <1>6, <1>8 DEF all, h

\* The line that is looked at, and what is left of the text when it is not indented.
LEMMA CutLine ==
    ASSUME params \in Params, nlPos \in Nat, nl \in BOOLEAN, NEW s \in Seq(STRING)
    PROVE  /\ Unindented(s) \in Seq(STRING) /\ Starts(Unindented(s), s)
           /\ ~ BadIndent(s) => Unindented(s) = s
           /\ BadIndent(s) <=> nl /\ NIndent > 0 /\ nlPos > 0 /\ nlPos <= Len(s) /\ Short(s, nlPos)
           /\ BadIndent(s) => nlPos <= Len(Unindented(s)) /\ \A j \in nlPos + 1..Len(Unindented(s)) : s[j] \in Blanks
  <1>1. Len(s) \in Nat
    BY LenProperties
  <1>2. BadIndent(s) <=> nl /\ NIndent > 0 /\ nlPos > 0 /\ nlPos <= Len(s) /\ Short(s, nlPos)
    <2>1. ASSUME nlPos <= Len(s)
          PROVE  Short(s, nlPos) <=> IndentEnd(s, nlPos) < Len(s) /\ IndentEnd(s, nlPos) - nlPos < NIndent
      <3> DEFINE i == nlPos
      <3>1. i \in 0..Len(s)
        BY <1>1, <2>1
      <3> HIDE DEF i
      <3>2. Short(s, i) <=> IndentEnd(s, i) < Len(s) /\ IndentEnd(s, i) - i < NIndent
        BY <3>1, ShortLine
      <3> QED
        BY <3>2 DEF i
    <2> QED
      BY <2>1 DEF BadIndent
  <1>3. ASSUME ~ BadIndent(s) PROVE Unindented(s) = s /\ Starts(s, s)
    BY <1>1, <1>3 DEF Unindented, Starts
  <1>4. ASSUME BadIndent(s)
        PROVE  /\ Unindented(s) \in Seq(STRING) /\ Starts(Unindented(s), s)
               /\ nlPos <= Len(Unindented(s)) /\ \A j \in nlPos + 1..Len(Unindented(s)) : s[j] \in Blanks
    <2> DEFINE i == nlPos
               e == IndentEnd(s, i)
               c == SubSeq(s, 1, e)
    <2>1. i \in 0..Len(s) /\ i \in Nat
      BY <1>1, <1>2, <1>4
    <2>2. Unindented(s) = c
      BY <1>4 DEF Unindented
    <2> HIDE DEF i
    <2>3. e \in i..Len(s) /\ \A j \in i..e - 1 : s[j + 1] \in Blanks
      BY <2>1, Indentation
    <2> HIDE DEF e
    <2>4. e \in 0..Len(s) /\ e \in Nat
      BY <1>1, <2>1, <2>3
    <2>5. c \in Seq(STRING) /\ Len(c) = e /\ \A j \in 1..e : c[j] = s[j]
      BY <2>4, PrefixFacts
    <2> HIDE DEF c
    <2>6. ASSUME NEW j \in i + 1..Len(c) PROVE s[j] \in Blanks
      <3>1. j - 1 \in i..e - 1 /\ (j - 1) + 1 = j
        BY <2>1, <2>4, <2>5
      <3> QED
        BY <3>1, <2>3
    <2>7. Starts(c, s) /\ i <= Len(c)
      BY <2>1, <2>3, <2>4, <2>5 DEF Starts
    <2> QED
      BY <2>2, <2>5, <2>6, <2>7 DEF i
  <1> QED
    BY <1>2, <1>3, <1>4

\* The line that is looked at with the next token.
LEMMA LaterLine ==
    ASSUME nlPos \in Nat, nl \in BOOLEAN, NEW s \in Seq(STRING)
    PROVE  \/ NextLine(s) = nlPos
           \/ /\ nl /\ NIndent > 0
              /\ NextLine(s) \in nlPos + 1..Len(s) /\ s[NextLine(s)] = NewLine
              /\ \A i \in nlPos + 1..NextLine(s) - 1 : s[i] # NewLine
  <1> DEFINE T == NewLineFrom(s, nlPos)
             m == Min(T)
  <1>1. Len(s) \in Nat
    BY LenProperties
  <1> DEFINE r == m + 1
  <1>6. NextLine(s) = nlPos \/ (nl /\ NIndent > 0 /\ T # {} /\ NextLine(s) = r)
    BY DEF NextLine
  <1> HIDE DEF r
  <1> SUFFICES ASSUME nl, NIndent > 0, T # {}
               PROVE  /\ r \in nlPos + 1..Len(s) /\ s[r] = NewLine
                      /\ \A i \in nlPos + 1..r - 1 : s[i] # NewLine
    BY <1>6
  <1>2. T \subseteq 0..Len(s) /\ \A j : j \in T <=> j \in nlPos..Len(s) - 1 /\ s[j + 1] = NewLine
    BY <1>1 DEF NewLineFrom
  <1> HIDE DEF T
  <1>3. m \in T /\ \A y \in T : m <= y
    BY <1>1, <1>2, Extremes
  <1> HIDE DEF m
  <1>4. m \in Nat /\ m \in nlPos..Len(s) - 1 /\ s[m + 1] = NewLine
    BY <1>1, <1>2, <1>3
  <1>5. ASSUME NEW i \in nlPos + 1..r - 1 PROVE s[i] # NewLine
    <2>1. i - 1 \in nlPos..Len(s) - 1 /\ (i - 1) + 1 = i /\ ~ (m <= i - 1)
      BY <1>4, <1>1 DEF r
    <2> QED
      BY <2>1, <1>2, <1>3
  <1> QED
    BY <1>1, <1>4, <1>5 DEF r

\* Why a generation ends.
LEMMA Reasons ==
    ASSUME NEW t, NEW p, NEW late
    PROVE  LET r == StopReason(t, p, late)
           IN  /\ r \in {"", "word", "limit", "indent", "time", "eos"}
               /\ r = "" => ~ p.eog /\ ~ BadIndent(t.text) /\ t.word = <<>>
               /\ r = "word" => ~ BadIndent(t.text) /\ t.word # <<>>
               /\ r = "eos" => p.eog
               /\ r = "indent" => BadIndent(t.text)
  BY DEF StopReason

(* The text that is shown with a token is the rest of what is kept.        *)
Rest(s, n, r) == Len(r) = Len(s) - n /\ \A j \in 1..Len(s) - n : r[j] = s[n + j]

\* What process_token makes of a token.
LEMMA TakenParts ==
    ASSUME Types, Running, NEW p, p.text \in Seq(STRING), p.eog \in BOOLEAN
    PROVE  LET all == text \o p.text
               t   == Taken(p)
           IN  /\ t.whole = ~ Incomplete(all)
               /\ t.text \in Seq(STRING) /\ Starts(t.text, all) /\ sent <= Len(t.text)
               /\ t.word \in Words \cup {<<>>}
               /\ t.word = <<>> => t.text = all
               /\ t.word # <<>> => t.whole /\ At(all, t.word, Len(t.text))
               /\ t.shown \in Seq(STRING)
               /\ t.whole =>
                      \/ /\ t.shown = <<>> /\ t.word = <<>> /\ ~ p.eog
                         /\ \E w \in Words, k \in sent..Len(all) - 1 : Begins(all, w, k)
                      \/ /\ Rest(t.text, sent, t.shown)
                         /\ t.word = <<>> /\ ~ p.eog =>
                                \A w \in Words : \A k \in sent..Len(all) - 1 : ~ Begins(all, w, k)
               /\ DOMAIN Width = {} => \A w \in Words : \A i \in 0..Len(t.text) : ~ At(t.text, w, i)
  <1> DEFINE u     == p.text
             all   == text \o u
             whole == ~ Incomplete(all)
             test  == SubSeq(all, sent + 1, Len(all))
             found == StopsAt(test, Len(u))
             stops == IF whole THEN found ELSE {}
             m     == Min(stops)
             first == WordAt(test, Len(u))
             kept  == IF stops = {} THEN all ELSE SubSeq(all, 1, sent + m)
             wd    == IF stops = {} THEN <<>> ELSE first
             rest  == SubSeq(kept, sent + 1, Len(kept))
             shown == IF ~ whole THEN u ELSE IF stops # {} \/ p.eog \/ ~ MayStop(test) THEN rest ELSE <<>>
  <1>1. /\ Taken(p).whole = whole /\ Taken(p).text = kept /\ Taken(p).word = wd /\ Taken(p).shown = shown
    BY DEF Taken
  <1>2. params \in Params /\ text \in Seq(STRING) /\ sent \in Nat /\ u \in Seq(STRING)
    BY DEF Types
  <1>3. /\ all \in Seq(STRING) /\ Len(all) = Len(text) + Len(u) /\ Len(text) \in Nat /\ Len(u) \in Nat
        /\ \A j \in 1..Len(text) : all[j] = text[j]
    BY <1>2, Both
  <1>4. sent <= Len(text)
    BY DEF Running, PartsInv
  <1>5. sent \in 0..Len(text) /\ sent \in 0..Len(all)
    BY <1>2, <1>3, <1>4
  <1>6. found # {} =>
            /\ Min(found) \in found /\ \A i \in found : Min(found) <= i
            /\ Min(found) \in 0..Len(all) - sent
            /\ first \in Words
            /\ At(all, first, sent + Min(found))
    <2> DEFINE s == text
               n == sent
    <2>1. s \in Seq(STRING) /\ n \in 0..Len(s)
      BY <1>2, <1>5
    <2> HIDE DEF s, n
    <2>2. StopsAt(SubSeq(s \o u, n + 1, Len(s \o u)), Len(u)) # {} =>
            /\ Min(StopsAt(SubSeq(s \o u, n + 1, Len(s \o u)), Len(u))) \in StopsAt(SubSeq(s \o u, n + 1, Len(s \o u)), Len(u))
            /\ \A i \in StopsAt(SubSeq(s \o u, n + 1, Len(s \o u)), Len(u)) :
                   Min(StopsAt(SubSeq(s \o u, n + 1, Len(s \o u)), Len(u))) <= i
            /\ Min(StopsAt(SubSeq(s \o u, n + 1, Len(s \o u)), Len(u))) \in 0..Len(s \o u) - n
            /\ WordAt(SubSeq(s \o u, n + 1, Len(s \o u)), Len(u)) \in Words
            /\ At(s \o u, WordAt(SubSeq(s \o u, n + 1, Len(s \o u)), Len(u)),
                  n + Min(StopsAt(SubSeq(s \o u, n + 1, Len(s \o u)), Len(u))))
      BY <2>1, <1>2, FirstStop
    <2> QED
      BY <2>2 DEF s, n
  <1>7. MayStop(test) <=> \E w \in Words, k \in sent..Len(all) - 1 : Begins(all, w, k)
    <2> DEFINE s == all
               n == sent
    <2>1. s \in Seq(STRING) /\ n \in 0..Len(s)
      BY <1>3, <1>5
    <2> HIDE DEF s, n
    <2>2. MayStop(SubSeq(s, n + 1, Len(s))) <=> \E w \in Words, k \in n..Len(s) - 1 : Begins(s, w, k)
      BY <2>1, <1>2, MayBegin
    <2> QED
      BY <2>2 DEF s, n
  <1>8. ASSUME DOMAIN Width = {}, NEW w \in Words, NEW i \in Nat, At(all, w, i)
        PROVE  i - sent \in found /\ i >= sent /\ whole
    <2>1. i - sent \in found /\ i >= sent
      BY <1>2, <1>8, NoneMissed
    <2>2. whole
      BY <1>2, <1>3, <1>8, Completed
    <2> QED
      BY <2>1, <2>2
  <1>9. ASSUME NEW w \in Words PROVE w \in Seq(STRING) /\ Len(w) \in Nat \ {0} /\ w # <<>>
    BY <1>2, Request
  <1> HIDE DEF u, all, whole, test, found, first
  <1>10. stops # {} => stops = found /\ whole
    OBVIOUS
  <1>11. stops # {} => m \in 0..Len(all) - sent /\ first \in Words /\ At(all, first, sent + m) /\ \A i \in stops : m <= i
    BY <1>6, <1>10
  <1> HIDE DEF m
  <1>12. ASSUME stops # {}
         PROVE  /\ kept \in Seq(STRING) /\ Len(kept) = sent + m
                /\ \A j \in 1..sent + m : kept[j] = all[j]
    <2>1. sent + m \in 0..Len(all) /\ kept = SubSeq(all, 1, sent + m)
      BY <1>3, <1>5, <1>11, <1>12, SMTT(20)
    <2> DEFINE z == sent + m
    <2> HIDE DEF z
    <2>2. z \in 0..Len(all) /\ kept = SubSeq(all, 1, z)
      BY <2>1 DEF z
    <2> HIDE DEF kept, stops
    <2>3. kept \in Seq(STRING) /\ Len(kept) = z /\ \A j \in 1..z : kept[j] = all[j]
      BY <2>2, <1>3, PrefixFacts
    <2> QED
      BY <2>3 DEF z
  <1>13. kept \in Seq(STRING) /\ Starts(kept, all) /\ sent <= Len(kept)
    <2>1. CASE stops = {}
      <3>1. kept = all
        BY <2>1
      <3> HIDE DEF kept, stops
      <3> QED
        BY <3>1, <1>3, <1>5 DEF Starts
    <2>2. CASE stops # {}
      <3> HIDE DEF kept, stops
      <3>1. m \in Nat /\ sent + m <= Len(all)
        BY <2>2, <1>3, <1>5, <1>11
      <3> QED
        BY <3>1, <2>2, <1>2, <1>12 DEF Starts
    <2> QED
      BY <2>1, <2>2
  <1>14. wd \in Words \cup {<<>>} /\ (wd = <<>> => kept = all) /\ (wd # <<>> => whole /\ At(all, wd, Len(kept)))
    <2>1. CASE stops = {}
      BY <2>1
    <2>2. CASE stops # {}
      <3>1. wd = first /\ first # <<>> /\ first \in Words
        BY <2>2, <1>9, <1>11
      <3>2. whole /\ At(all, first, Len(kept))
        <4> HIDE DEF kept, stops
        <4>1. Len(kept) = sent + m
          BY <2>2, <1>12
        <4> QED
          BY <4>1, <2>2, <1>10, <1>11
      <3> HIDE DEF kept, stops, wd
      <3> QED
        BY <3>1, <3>2
    <2> QED
      BY <2>1, <2>2
  <1>15. rest \in Seq(STRING) /\ Rest(kept, sent, rest)
    <2> DEFINE n == sent
    <2>1. n \in 0..Len(kept)
      <3> HIDE DEF kept
      <3> QED
        BY <1>2, <1>13, LenProperties
    <2> HIDE DEF kept, n
    <2>2. /\ SubSeq(kept, n + 1, Len(kept)) \in Seq(STRING)
          /\ Len(SubSeq(kept, n + 1, Len(kept))) = Len(kept) - n
          /\ \A j \in 1..Len(kept) - n : SubSeq(kept, n + 1, Len(kept))[j] = kept[n + j]
      BY <2>1, <1>13, Suffix
    <2> QED
      BY <2>2 DEF Rest, n
  <1>16. wd = <<>> => stops = {}
    BY <1>9, <1>11
  <1> HIDE DEF rest, kept, wd
  <1>17. shown \in Seq(STRING)
    <2>1. shown = u \/ shown = rest \/ shown = <<>>
      OBVIOUS
    <2>2. <<>> \in Seq(STRING)
      BY EmptySeq
    <2> HIDE DEF shown
    <2> QED
      BY <2>1, <2>2, <1>2, <1>15
  <1>18. ASSUME whole
         PROVE  \/ /\ shown = <<>> /\ wd = <<>> /\ ~ p.eog
                   /\ \E w \in Words, k \in sent..Len(all) - 1 : Begins(all, w, k)
                \/ /\ Rest(kept, sent, shown)
                   /\ wd = <<>> /\ ~ p.eog => \A w \in Words : \A k \in sent..Len(all) - 1 : ~ Begins(all, w, k)
    <2>1. CASE stops # {} \/ p.eog \/ ~ MayStop(test)
      <3>1. shown = rest
        BY <2>1, <1>18
      <3> HIDE DEF stops, shown
      <3>2. wd = <<>> /\ ~ p.eog => ~ MayStop(test)
        BY <2>1, <1>16
      <3> QED
        BY <3>1, <3>2, <1>7, <1>15
    <2>2. CASE ~ (stops # {} \/ p.eog \/ ~ MayStop(test))
      <3>1. shown = <<>> /\ wd = <<>> /\ ~ p.eog /\ MayStop(test)
        BY <2>2, <1>18 DEF wd
      <3> QED
        BY <3>1, <1>7
    <2> QED
      BY <2>1, <2>2
  <1>19. ASSUME DOMAIN Width = {}, NEW w \in Words, NEW i \in 0..Len(kept) PROVE ~ At(kept, w, i)
    <2> SUFFICES ASSUME At(kept, w, i) PROVE FALSE
      OBVIOUS
    <2>1. i \in Nat /\ Len(w) \in Nat \ {0} /\ i + Len(w) <= Len(kept) /\ Len(kept) \in Nat
      BY <1>9, <1>13, LenProperties DEF At
    <2>2. At(all, w, i)
      <3>1. i + Len(w) <= Len(all)
        BY <2>1, <1>3, <1>13 DEF Starts
      <3>2. ASSUME NEW j \in 1..Len(w) PROVE all[i + j] = w[j]
        <4>1. i + j \in 1..Len(kept)
          BY <2>1
        <4> QED
          BY <4>1, <1>13 DEF Starts, At
      <3> QED
        BY <3>1, <3>2 DEF At
    <2>3. i - sent \in stops /\ i >= sent
      BY <2>1, <2>2, <1>8, <1>19
    <2> HIDE DEF stops
    <2>4. Len(kept) = sent + m /\ m <= i - sent /\ m \in Nat
      BY <2>3, <1>3, <1>5, <1>11, <1>12
    <2> QED
      BY <2>1, <2>4, <1>2
  <1> HIDE DEF shown
  <1>20. DOMAIN Width = {} => \A w \in Words : \A i \in 0..Len(kept) : ~ At(kept, w, i)
    BY <1>19
  <1> DEFINE t == Taken(p)
  <1> HIDE DEF t
  <1>21. t.whole = whole /\ t.text = kept /\ t.word = wd /\ t.shown = shown
    BY <1>1 DEF t
  <1>22. /\ t.whole = whole
         /\ t.text \in Seq(STRING) /\ Starts(t.text, all) /\ sent <= Len(t.text)
         /\ t.word \in Words \cup {<<>>}
         /\ t.word = <<>> => t.text = all
         /\ t.word # <<>> => t.whole /\ At(all, t.word, Len(t.text))
         /\ t.shown \in Seq(STRING)
    BY <1>13, <1>14, <1>17, <1>21
  <1>23. t.whole =>
             \/ /\ t.shown = <<>> /\ t.word = <<>> /\ ~ p.eog
                /\ \E w \in Words, k \in sent..Len(all) - 1 : Begins(all, w, k)
             \/ /\ Rest(t.text, sent, t.shown)
                /\ t.word = <<>> /\ ~ p.eog =>
                       \A w \in Words : \A k \in sent..Len(all) - 1 : ~ Begins(all, w, k)
    BY <1>18, <1>21
  <1>24. DOMAIN Width = {} => \A w \in Words : \A i \in 0..Len(t.text) : ~ At(t.text, w, i)
    BY <1>20, <1>21
  <1>25. all = text \o p.text /\ whole = ~ Incomplete(all) /\ t = Taken(p)
    BY DEF t, u, all, whole
  <1> QED
    BY <1>22, <1>23, <1>24, <1>25

-----------------------------------------------------------------------------
(* One token.                                                              *)

\* What is sent with a token, and what is held back.
LEMMA Sending ==
    ASSUME Types, Running, NEW p \in Pieces, NEW late, ProcessToken(p, late)
    PROVE  LET all == text \o p.text
               t   == Taken(p)
           IN  /\ parts' \in [text : Seq(STRING), tokens : Seq(Pieces)]
               /\ sent' \in Nat /\ sent' <= Len(t.text) /\ Len(parts.text') = sent'
               /\ \A i \in 1..sent' : (parts.text')[i] = t.text[i]
               /\ parts.tokens' = IF t.whole THEN Append(parts.tokens, p) ELSE parts.tokens
               /\ \/ /\ sent' = sent /\ parts.text' = parts.text /\ t.word = <<>>
                     /\ Incomplete(all) \/ (~ p.eog /\ \E w \in Words, k \in sent..Len(all) - 1 : Begins(all, w, k))
                  \/ /\ sent' = Len(t.text) /\ ~ Incomplete(all)
                     /\ t.word = <<>> /\ ~ p.eog =>
                            \A w \in Words : \A k \in sent..Len(all) - 1 : ~ Begins(all, w, k)
  <1> DEFINE all == text \o p.text
             t   == Taken(p)
  <1>1. params \in Params /\ text \in Seq(STRING) /\ sent \in Nat /\ parts \in [text : Seq(STRING), tokens : Seq(Pieces)]
    BY DEF Types
  <1>2. p.text \in Seq(STRING) /\ p.eog \in BOOLEAN
    BY <1>1, Request
  <1>3. /\ t.whole = ~ Incomplete(all)
        /\ t.text \in Seq(STRING) /\ Starts(t.text, all) /\ sent <= Len(t.text)
        /\ t.word \in Words \cup {<<>>}
        /\ t.word = <<>> => t.text = all
        /\ t.word # <<>> => t.whole /\ At(all, t.word, Len(t.text))
        /\ t.shown \in Seq(STRING)
    BY <1>2, TakenParts
  <1>4. t.whole =>
               \/ /\ t.shown = <<>> /\ t.word = <<>> /\ ~ p.eog
                  /\ \E w \in Words, k \in sent..Len(all) - 1 : Begins(all, w, k)
               \/ /\ Rest(t.text, sent, t.shown)
                  /\ t.word = <<>> /\ ~ p.eog =>
                         \A w \in Words : \A k \in sent..Len(all) - 1 : ~ Begins(all, w, k)
    BY <1>2, TakenParts
  <1>5. /\ sent' = IF t.whole THEN sent + Len(t.shown) ELSE sent
        /\ parts' = IF t.whole THEN [text |-> parts.text \o t.shown, tokens |-> Append(parts.tokens, p)] ELSE parts
    BY DEF ProcessToken, Parted
  <1>6. /\ sent <= Len(text) /\ Len(parts.text) = sent
        /\ \A i \in 1..sent : parts.text[i] = text[i]
    BY DEF Running, PartsInv
  <1>7. /\ Len(all) = Len(text) + Len(p.text) /\ Len(text) \in Nat /\ Len(t.text) \in Nat
        /\ \A i \in 1..Len(text) : all[i] = text[i]
    BY <1>1, <1>2, <1>3, Both, LenProperties
  <1> HIDE DEF t, all
  <1>8. ASSUME NEW i \in 1..sent PROVE parts.text[i] = t.text[i]
    <2>1. i \in 1..Len(text) /\ i \in 1..Len(t.text)
      BY <1>1, <1>3, <1>6, <1>7
    <2> QED
      BY <2>1, <1>3, <1>6, <1>7 DEF Starts
  <1>9. Append(parts.tokens, p) \in Seq(Pieces)
    BY <1>1, AppendProperties
  <1>10. /\ parts.text \o t.shown \in Seq(STRING)
         /\ Len(parts.text \o t.shown) = sent + Len(t.shown) /\ Len(t.shown) \in Nat
         /\ \A i \in 1..sent : (parts.text \o t.shown)[i] = parts.text[i]
         /\ \A i \in 1..Len(t.shown) : (parts.text \o t.shown)[sent + i] = t.shown[i]
    <2>1. parts.text \in Seq(STRING) /\ t.shown \in Seq(STRING)
      BY <1>1, <1>3
    <2> DEFINE q == parts.text
               z == t.shown
    <2>2. q \in Seq(STRING) /\ z \in Seq(STRING)
      BY <2>1
    <2>3. Len(q) = sent
      BY <1>6
    <2> HIDE DEF q, z
    <2>4. /\ q \o z \in Seq(STRING) /\ Len(q \o z) = Len(q) + Len(z)
          /\ Len(q) \in Nat /\ Len(z) \in Nat
          /\ \A i \in 1..Len(q) : (q \o z)[i] = q[i]
          /\ \A i \in 1..Len(z) : (q \o z)[Len(q) + i] = z[i]
      BY <2>2, Both
    <2>5. /\ q \o z \in Seq(STRING) /\ Len(q \o z) = sent + Len(z)
          /\ Len(z) \in Nat
          /\ \A i \in 1..sent : (q \o z)[i] = q[i]
          /\ \A i \in 1..Len(z) : (q \o z)[sent + i] = z[i]
      BY <2>3, <2>4
    <2> QED
      BY <2>5 DEF q, z
  <1>11. CASE ~ t.whole
    <2>1. sent' = sent /\ parts' = parts
      BY <1>5, <1>11
    <2>2. t.word = <<>> /\ Incomplete(all)
      BY <1>3, <1>11
    <2>3. parts.text' = parts.text /\ parts.tokens' = parts.tokens
      BY <2>1
    <2>4. \A i \in 1..sent' : (parts.text')[i] = t.text[i]
      BY <2>1, <2>3, <1>8
    <2>5. /\ parts' \in [text : Seq(STRING), tokens : Seq(Pieces)]
          /\ sent' \in Nat /\ sent' <= Len(t.text) /\ Len(parts.text') = sent'
      BY <2>1, <2>3, <1>1, <1>3, <1>6
    <2> QED
      BY <2>1, <2>2, <2>3, <2>4, <2>5, <1>11 DEF t, all
  <1>12. CASE t.whole
    <2> DEFINE q == parts.text \o t.shown
    <2>1. sent' = sent + Len(t.shown) /\ parts' = [text |-> q, tokens |-> Append(parts.tokens, p)]
      BY <1>5, <1>12
    <2>2. /\ q \in Seq(STRING) /\ Len(q) = sent + Len(t.shown) /\ Len(t.shown) \in Nat
          /\ \A i \in 1..sent : q[i] = t.text[i]
          /\ \A i \in 1..Len(t.shown) : q[sent + i] = t.shown[i]
      BY <1>8, <1>10
    <2>3. parts.text \in Seq(STRING)
      BY <1>1
    <2>4. t.shown = <<>> => q = parts.text
      BY <2>3, ConcatEmptySeq
    <2> HIDE DEF q
    <2>5. parts.text' = q /\ parts.tokens' = Append(parts.tokens, p) /\ parts' \in [text : Seq(STRING), tokens : Seq(Pieces)]
      BY <2>1, <2>2, <1>9
    <2>6. ASSUME t.shown = <<>>
          PROVE  /\ sent' = sent /\ parts.text' = parts.text
                 /\ \A i \in 1..sent' : (parts.text')[i] = t.text[i]
      <3>1. Len(t.shown) = 0
        BY <2>6
      <3>2. sent' = sent
        BY <2>1, <3>1, <1>1
      <3> QED
        BY <3>2, <2>4, <2>5, <2>6, <1>8
    <2>7. ASSUME Rest(t.text, sent, t.shown)
          PROVE  /\ sent' = Len(t.text)
                 /\ \A i \in 1..sent' : (parts.text')[i] = t.text[i]
      <3>1. sent' = Len(t.text)
        BY <2>1, <2>7, <1>1, <1>3, <1>7 DEF Rest
      <3>2. ASSUME NEW i \in 1..Len(t.text) PROVE q[i] = t.text[i]
        <4>1. CASE i <= sent
          BY <4>1, <2>2, <1>1
        <4>2. CASE ~ (i <= sent)
          <5>1. i - sent \in 1..Len(t.text) - sent /\ sent + (i - sent) = i
            BY <4>2, <1>1, <1>3, <1>7
          <5> QED
            BY <5>1, <2>2, <2>7 DEF Rest
        <4> QED
          BY <4>1, <4>2
      <3> QED
        BY <3>1, <3>2, <2>5
    <2>8. CASE Rest(t.text, sent, t.shown) /\ (t.word = <<>> /\ ~ p.eog =>
                         \A w \in Words : \A k \in sent..Len(all) - 1 : ~ Begins(all, w, k))
      <3>1. sent' \in Nat /\ Len(parts.text') = sent' /\ sent' <= Len(t.text)
        BY <2>1, <2>2, <2>5, <2>7, <2>8, <1>7
      <3> QED
        BY <3>1, <2>5, <2>7, <2>8, <1>3, <1>12 DEF t, all
    <2>9. CASE /\ t.shown = <<>> /\ t.word = <<>> /\ ~ p.eog
               /\ \E w \in Words, k \in sent..Len(all) - 1 : Begins(all, w, k)
      <3>1. sent' \in Nat /\ Len(parts.text') = sent' /\ sent' <= Len(t.text)
        BY <2>1, <2>2, <2>5, <2>6, <2>9, <1>1, <1>3
      <3> QED
        BY <3>1, <2>5, <2>6, <2>9, <1>3, <1>12 DEF t, all
    <2> QED
      BY <2>8, <2>9, <1>4, <1>12
  <1> QED
    BY <1>11, <1>12, <1>3

\* What becomes of the request, the text and the generation.
LEMMA Taking ==
    ASSUME Types, Running, NEW p \in Pieces, NEW late, ProcessToken(p, late)
    PROVE  LET all == text \o p.text
               t   == Taken(p)
           IN  /\ params' = params /\ Words' = Words /\ Width' = Width /\ NIndent' = NIndent /\ Pieces' = Pieces
               /\ tokens' = Append(tokens, p) /\ word' = t.word
               /\ Sampled' = all /\ all \in Seq(STRING)
               /\ text' \in Seq(STRING) /\ Starts(text', t.text)
               /\ ~ BadIndent(t.text) \/ NIndent = 0 => text' = t.text
               /\ Done' <=> stop' # ""
               /\ stop' = StopReason(t, p, late)
  <1> DEFINE all == text \o p.text
             t   == Taken(p)
  <1>1. /\ params' = params /\ Words' = Words /\ Width' = Width /\ NIndent' = NIndent /\ Pieces' = Pieces
    BY DEF ProcessToken, Words, StopWords, Width, NIndent, Pieces
  <1>2. params \in Params /\ text \in Seq(STRING) /\ tokens \in Seq(Pieces) /\ nlPos \in Nat /\ nl \in BOOLEAN
    BY DEF Types
  <1>3. p.text \in Seq(STRING) /\ p.eog \in BOOLEAN /\ NIndent \in Nat /\ \A x \in Pieces : x.text \in Seq(STRING)
    BY <1>2, Request
  <1>4. tokens' = Append(tokens, p) /\ word' = t.word /\ stop' = StopReason(t, p, late) /\ text' = Unindented(t.text)
    BY DEF ProcessToken
  <1>5. Sampled' = all /\ all \in Seq(STRING)
    <2>1. Joined(Append(tokens, p)) = Joined(tokens) \o p.text
      BY <1>2, <1>3, JoinedAppend
    <2>2. Sampled' = Joined(tokens') /\ text = Joined(tokens)
      BY DEF Sampled, Running
    <2>3. all \in Seq(STRING)
      BY <1>2, <1>3, ConcatProperties
    <2> QED
      BY <2>1, <2>2, <2>3, <1>4
  <1>6. t.text \in Seq(STRING)
    BY <1>3, TakenParts
  <1>7. Done' <=> stop' # ""
    <2>1. final' = IF stop' = "" THEN <<>> ELSE [text |-> text', tokens |-> tokens']
      BY DEF ProcessToken
    <2>2. [text |-> text', tokens |-> tokens'] # <<>>
      OBVIOUS
    <2> QED
      BY <2>1, <2>2 DEF Done
  <1> HIDE DEF t
  <1>8. /\ Unindented(t.text) \in Seq(STRING) /\ Starts(Unindented(t.text), t.text)
        /\ ~ BadIndent(t.text) => Unindented(t.text) = t.text
        /\ BadIndent(t.text) => NIndent > 0
    <2> DEFINE s == t.text
    <2>1. s \in Seq(STRING)
      BY <1>6
    <2> HIDE DEF s
    <2>2. /\ Unindented(s) \in Seq(STRING) /\ Starts(Unindented(s), s)
          /\ ~ BadIndent(s) => Unindented(s) = s
          /\ BadIndent(s) => NIndent > 0
      BY <2>1, <1>2, CutLine
    <2> QED
      BY <2>2 DEF s
  <1>9. text' \in Seq(STRING) /\ Starts(text', t.text) /\ (~ BadIndent(t.text) \/ NIndent = 0 => text' = t.text)
    BY <1>3, <1>4, <1>8
  <1> HIDE DEF all
  <1>10. t = Taken(p) /\ all = text \o p.text
    BY DEF t, all
  <1> QED
    BY <1>1, <1>4, <1>5, <1>7, <1>9, <1>10

\* The types stay.
LEMMA TypesStep ==
    ASSUME Types, Running, NEW p \in Pieces, NEW late, ProcessToken(p, late)
    PROVE  Types'
  <1> DEFINE t == Taken(p)
  <1>1. /\ params \in Params /\ text \in Seq(STRING) /\ tokens \in Seq(Pieces) /\ probs \in Seq(Pieces)
        /\ nlPos \in Nat /\ nl \in BOOLEAN /\ Len(probs) <= Len(tokens)
    BY DEF Types
  <1>2. p.text \in Seq(STRING) /\ p.eog \in BOOLEAN
    BY <1>1, Request
  <1>3. t.word \in Words \cup {<<>>}
    BY <1>2, TakenParts
  <1>4. /\ params' = params /\ Words' = Words /\ Pieces' = Pieces /\ tokens' = Append(tokens, p) /\ word' = t.word
        /\ text' \in Seq(STRING)
    BY Taking
  <1>5. sent' \in Nat /\ parts' \in [text : Seq(STRING), tokens : Seq(Pieces)]
    BY Sending
  <1>6. /\ nlPos' = NextLine(text') /\ nl' = (nl \/ NewLine \in ToSet(t.shown))
        /\ probs' = IF t.whole THEN Append(probs, p) ELSE probs
    BY DEF ProcessToken
  <1>7. nl' \in BOOLEAN
    BY <1>6
  <1>8. nlPos' \in Nat
    <2> DEFINE s == text'
    <2>1. s \in Seq(STRING) /\ nlPos' = NextLine(s)
      BY <1>4, <1>6
    <2> HIDE DEF s
    <2>2. Len(s) \in Nat /\ (NextLine(s) = nlPos \/ NextLine(s) \in nlPos + 1..Len(s))
      BY <2>1, <1>1, LaterLine, LenProperties
    <2> QED
      BY <2>1, <2>2, <1>1
  <1>9. /\ Append(tokens, p) \in Seq(Pieces) /\ Len(Append(tokens, p)) = Len(tokens) + 1
        /\ Append(probs, p) \in Seq(Pieces) /\ Len(Append(probs, p)) = Len(probs) + 1
        /\ Len(tokens) \in Nat /\ Len(probs) \in Nat
    BY <1>1, AppendProperties, LenProperties
  <1>10. tokens' \in Seq(Pieces) /\ probs' \in Seq(Pieces) /\ Len(probs') <= Len(tokens')
    <2>1. CASE t.whole
      BY <2>1, <1>1, <1>4, <1>6, <1>9
    <2>2. CASE ~ t.whole
      BY <2>2, <1>1, <1>4, <1>6, <1>9
    <2> QED
      BY <2>1, <2>2
  <1> QED
    BY <1>1, <1>3, <1>4, <1>5, <1>7, <1>8, <1>10 DEF Types

\* While no reason to stop is found, parts and words stay as they should be.
LEMMA WordStep ==
    ASSUME Types, Running, NEW p \in Pieces, NEW late, ProcessToken(p, late), Open'
    PROVE  text' = Sampled' /\ word' = <<>> /\ PartsInv' /\ WordInv'
  <1> DEFINE all == text \o p.text
             t   == Taken(p)
  <1>1. /\ params \in Params /\ text \in Seq(STRING) /\ sent \in Nat /\ parts \in [text : Seq(STRING), tokens : Seq(Pieces)]
    BY DEF Types
  <1>2. p.text \in Seq(STRING) /\ p.eog \in BOOLEAN
    BY <1>1, Request
  <1>3. /\ params' = params /\ Words' = Words /\ Width' = Width
        /\ tokens' = Append(tokens, p) /\ word' = t.word
        /\ Sampled' = all /\ all \in Seq(STRING)
        /\ ~ BadIndent(t.text) \/ NIndent = 0 => text' = t.text
        /\ stop' = StopReason(t, p, late)
    BY Taking
  <1>4. ~ p.eog /\ ~ BadIndent(t.text) /\ t.word = <<>>
    <2> HIDE DEF t
    <2> QED
      BY <1>3, Reasons DEF Open
  <1>5. t.text = all /\ t.whole = ~ Incomplete(all)
    BY <1>2, <1>4, TakenParts
  <1>6. text' = all /\ word' = <<>>
    BY <1>3, <1>4, <1>5
  <1>7. DOMAIN Width = {} => \A w \in Words : \A i \in 0..Len(t.text) : ~ At(t.text, w, i)
    BY <1>2, TakenParts
  <1>8. /\ sent' \in Nat /\ sent' <= Len(t.text) /\ Len(parts.text') = sent'
        /\ \A i \in 1..sent' : (parts.text')[i] = t.text[i]
        /\ parts.tokens' = IF t.whole THEN Append(parts.tokens, p) ELSE parts.tokens
    BY Sending
  <1>9. \/ /\ sent' = sent
           /\ Incomplete(all) \/ \E w \in Words, k \in sent..Len(all) - 1 : Begins(all, w, k)
        \/ /\ sent' = Len(t.text)
           /\ t.word = <<>> /\ ~ p.eog =>
                  \A w \in Words : \A k \in sent..Len(all) - 1 : ~ Begins(all, w, k)
    BY Sending
  <1>10. /\ Len(all) \in Nat /\ Len(text) \in Nat /\ Len(text) <= Len(all)
         /\ \A i \in 1..Len(text) : all[i] = text[i]
    <2>1. /\ Len(all) = Len(text) + Len(p.text) /\ Len(text) \in Nat /\ Len(p.text) \in Nat
          /\ \A i \in 1..Len(text) : all[i] = text[i]
      BY <1>1, <1>2, Both
    <2> HIDE DEF all
    <2> QED
      BY <2>1
  <1>11. Incomplete(all) <=> Incomplete(text)'
    BY <1>3, <1>6 DEF Incomplete
  <1> HIDE DEF all, t
  <1>12. sent <= Len(text) /\ (DOMAIN Width = {} => parts.tokens = tokens)
    BY DEF Running, PartsInv
  <1>13. PartsInv'
    <2>1. DOMAIN Width = {} => ~ Incomplete(all)
      BY <1>1, <1>3, Completed
    <2>2. DOMAIN Width' = {} => parts.tokens' = tokens'
      BY <2>1, <1>3, <1>5, <1>8, <1>12
    <2>3. sent' <= Len(text') /\ Len(parts.text') = sent' /\ \A i \in 1..sent' : (parts.text')[i] = text'[i]
      BY <1>5, <1>6, <1>8
    <2> QED
      BY <2>2, <2>3 DEF PartsInv
  <1>14. sent' = Len(text') \/ Incomplete(text)' \/ \E w \in Words', k \in sent'..Len(text') - 1 : Begins(text', w, k)
    BY <1>3, <1>5, <1>6, <1>9, <1>11
  <1>15. ASSUME NEW w \in Words, NEW k \in 0..sent' - 1 PROVE ~ Begins(all, w, k)
    <2> SUFFICES ASSUME Begins(all, w, k) PROVE FALSE
      OBVIOUS
    <2>1. w \in Seq(STRING) /\ Len(w) \in Nat
      BY <1>1, Request
    <2>4. sent \in Nat /\ sent' \in Nat /\ k \in Nat /\ sent <= Len(text) /\ Len(text) \in Nat /\ Len(all) \in Nat
          /\ Len(text) <= Len(all) /\ sent' <= Len(all) /\ k < sent'
      <3>1. sent' \in Nat /\ sent' <= Len(all)
        <4>1. sent' \in Nat /\ sent' <= Len(t.text)
          BY <1>8
        <4>2. t.text = all
          BY <1>5
        <4> QED
          BY <4>1, <4>2
      <3>2. k \in Nat /\ k < sent'
        <4> DEFINE z == sent'
        <4>1. z \in Nat /\ k \in 0..z - 1
          BY <3>1
        <4> HIDE DEF z
        <4>2. k \in Nat /\ k < z
          BY <4>1
        <4> QED
          BY <4>2 DEF z
      <3> QED
        BY <3>1, <3>2, <1>1, <1>10, <1>12
    <2>5. Len(all) - k <= Len(w) /\ \A j \in 1..Len(all) - k : all[k + j] = w[j]
      BY DEF Begins
    <2>2. CASE k < sent
      <3>1. k \in 0..sent - 1 /\ Len(text) - k <= Len(w)
        BY <2>1, <2>2, <2>4, <2>5
      <3>2. ASSUME NEW j \in 1..Len(text) - k PROVE text[k + j] = w[j]
        <4>1. k + j \in 1..Len(text) /\ j \in 1..Len(all) - k
          BY <2>4
        <4> QED
          BY <4>1, <2>5, <1>10
      <3>3. Begins(text, w, k)
        BY <3>1, <3>2 DEF Begins
      <3> QED
        BY <3>1, <3>3 DEF Running, WordInv
    <2>3. CASE ~ (k < sent)
      <3>1. sent' # sent /\ k \in sent..Len(all) - 1
        BY <2>3, <2>4
      <3> QED
        BY <3>1, <1>4, <1>9
    <2> QED
      BY <2>2, <2>3
  <1>16. \A w \in Words' : \A k \in 0..sent' - 1 : ~ Begins(text', w, k)
    BY <1>3, <1>6, <1>15
  <1>17. DOMAIN Width' = {} => \A w \in Words' : \A i \in 0..Len(text') : ~ At(text', w, i)
    BY <1>3, <1>5, <1>6, <1>7
  <1>18. WordInv'
    BY <1>14, <1>16, <1>17 DEF WordInv
  <1> QED
    BY <1>3, <1>6, <1>13, <1>18

\* The lines before the current one stay as they are.
LEMMA EarlierLines ==
    ASSUME Types, Running, NEW s \in Seq(STRING), nlPos <= Len(s), \A j \in 1..nlPos : s[j] = text[j],
           NEW i \in 1..nlPos - 1, s[i] = NewLine
    PROVE  ~ Short(s, i)
  <1> SUFFICES ASSUME Short(s, i) PROVE FALSE
    OBVIOUS
  <1>1. PICK e \in i..Len(s) - 1 :
            e - i < NIndent /\ s[e + 1] \notin Blanks /\ \A j \in i..e - 1 : s[j + 1] \in Blanks
    BY DEF Short
  <1>2. /\ nlPos <= Len(text)
        /\ nlPos > 0 => text[nlPos] = NewLine
        /\ \A k \in 1..nlPos - 1 : text[k] = NewLine => ~ Short(text, k)
    BY DEF Running, LineInv
  <1>3. nlPos \in Nat /\ Len(text) \in Nat /\ Len(s) \in Nat
    BY LenProperties DEF Types
  <1>4. NewLine \notin Blanks
    BY Request DEF Types
  <1>5. i \in Nat /\ e \in Nat /\ 1 <= i /\ i < nlPos /\ i <= e
    BY <1>3
  <1>6. e < nlPos
    <2> SUFFICES ASSUME nlPos <= e PROVE FALSE
      BY <1>3, <1>5
    <2>1. nlPos - 1 \in i..e - 1 /\ (nlPos - 1) + 1 = nlPos /\ nlPos > 0 /\ nlPos \in 1..nlPos
      BY <1>3, <1>5
    <2>2. s[nlPos] \in Blanks
      BY <1>1, <2>1
    <2> QED
      BY <2>1, <2>2, <1>2, <1>4
  <1>7. e \in i..Len(text) - 1 /\ e + 1 \in 1..nlPos /\ i \in 1..nlPos
    BY <1>2, <1>3, <1>5, <1>6
  <1>8. ASSUME NEW j \in i..e - 1 PROVE text[j + 1] \in Blanks
    <2>1. j + 1 \in 1..nlPos
      BY <1>3, <1>5, <1>6
    <2> QED
      BY <2>1, <1>1
  <1>9. text[e + 1] \notin Blanks /\ text[i] = NewLine
    BY <1>1, <1>7
  <1>10. Short(text, i)
    BY <1>1, <1>7, <1>8, <1>9 DEF Short
  <1> QED
    BY <1>2, <1>9, <1>10

\* So do the lines.
LEMMA LineStep ==
    ASSUME Types, Running, NEW p \in Pieces, NEW late, ProcessToken(p, late), Open'
    PROVE  LineInv'
  <1> DEFINE all == text \o p.text
             t   == Taken(p)
  <1>1. params \in Params /\ text \in Seq(STRING) /\ nlPos \in Nat /\ nl \in BOOLEAN
    BY DEF Types
  <1>2. p.text \in Seq(STRING) /\ p.eog \in BOOLEAN /\ NewLine \notin Blanks
    BY <1>1, Request
  <1>3. /\ NIndent' = NIndent /\ all \in Seq(STRING)
        /\ ~ BadIndent(t.text) \/ NIndent = 0 => text' = t.text
        /\ stop' = StopReason(t, p, late)
    BY Taking
  <1>4. ~ BadIndent(t.text) /\ t.word = <<>>
    <2> HIDE DEF t
    <2> QED
      BY <1>3, Reasons DEF Open
  <1>5. t.text = all
    BY <1>2, <1>4, TakenParts
  <1>6. /\ Len(all) = Len(text) + Len(p.text) /\ Len(text) \in Nat /\ Len(p.text) \in Nat
        /\ \A i \in 1..Len(text) : all[i] = text[i]
    BY <1>1, <1>2, Both
  <1>7. nlPos' = NextLine(text') /\ (nl => nl')
    BY DEF ProcessToken
  <1> HIDE DEF all, t
  <1>8. text' = all /\ nlPos' = NextLine(all) /\ ~ BadIndent(all)
    BY <1>3, <1>4, <1>5, <1>7
  <1>9. /\ nlPos <= Len(text)
        /\ nlPos > 0 => nl /\ NIndent > 0 /\ text[nlPos] = NewLine
        /\ \A i \in 1..nlPos - 1 : text[i] = NewLine => ~ Short(text, i)
    BY DEF Running, LineInv
  <1>18. /\ nlPos \in Nat /\ Len(text) \in Nat /\ Len(all) \in Nat /\ Len(text) <= Len(all) /\ nlPos <= Len(text)
    <2>1. Len(text) <= Len(all) /\ Len(all) \in Nat
      BY <1>6
    <2> QED
      BY <2>1, <1>1, <1>6, <1>9
  <1>19. ASSUME nlPos > 0 PROVE nlPos \in 1..Len(text) /\ nl /\ NIndent > 0 /\ text[nlPos] = NewLine /\ all[nlPos] = NewLine
    <2>1. nlPos \in 1..Len(text)
      BY <1>18, <1>19
    <2> QED
      BY <2>1, <1>6, <1>9, <1>19
  <1>10. ASSUME NEW i \in 1..nlPos - 1, all[i] = NewLine PROVE ~ Short(all, i)
    <2>1. \A j \in 1..nlPos : all[j] = text[j]
      BY <1>6, <1>18
    <2> QED
      BY <2>1, <1>1, <1>3, <1>10, <1>18, EarlierLines
  <1>11. nlPos > 0 => ~ Short(all, nlPos) /\ nl /\ NIndent > 0 /\ nlPos <= Len(all) /\ all[nlPos] = NewLine
    <2> SUFFICES ASSUME nlPos > 0
                 PROVE  ~ Short(all, nlPos) /\ nl /\ NIndent > 0 /\ nlPos <= Len(all) /\ all[nlPos] = NewLine
      OBVIOUS
    <2>1. nl /\ NIndent > 0 /\ nlPos <= Len(all) /\ nlPos \in 1..Len(text)
      BY <1>18, <1>19
    <2>2. BadIndent(all) <=> nl /\ NIndent > 0 /\ nlPos > 0 /\ nlPos <= Len(all) /\ Short(all, nlPos)
      BY <1>1, <1>3, CutLine
    <2> QED
      BY <2>1, <2>2, <1>8, <1>19
  <1> DEFINE q == NextLine(all)
  <1>12. \/ q = nlPos
         \/ /\ nl /\ NIndent > 0 /\ q \in nlPos + 1..Len(all) /\ all[q] = NewLine
            /\ \A i \in nlPos + 1..q - 1 : all[i] # NewLine
    BY <1>1, <1>3, LaterLine
  <1> HIDE DEF q
  <1>13. q <= Len(all) /\ (q > 0 => nl /\ NIndent > 0 /\ all[q] = NewLine)
    <2>1. CASE q = nlPos
      BY <2>1, <1>11, <1>18
    <2>2. CASE q # nlPos
      BY <2>2, <1>12, <1>18
    <2> QED
      BY <2>1, <2>2
  <1>20. q \in Nat
    BY <1>12, <1>18
  <1>14. ASSUME NEW i \in 1..q - 1, all[i] = NewLine PROVE ~ Short(all, i)
    <2>4. i \in Nat /\ 1 <= i /\ i < q
      BY <1>20
    <2>1. CASE i < nlPos
      <3>1. i \in 1..nlPos - 1
        BY <2>1, <2>4, <1>18
      <3> QED
        BY <3>1, <1>10, <1>14
    <2>2. CASE i = nlPos
      BY <2>2, <2>4, <1>11
    <2>3. CASE i > nlPos
      <3>1. i \in nlPos + 1..q - 1 /\ q # nlPos
        BY <2>3, <2>4, <1>18, <1>20
      <3> QED
        BY <3>1, <1>12, <1>14
    <2> QED
      BY <2>1, <2>2, <2>3, <2>4, <1>18
  <1>15. ASSUME NEW i PROVE Short(text, i)' <=> Short(all, i)
    BY <1>3, <1>8 DEF Short
  <1>16. nlPos' = q /\ text' = all
    BY <1>8 DEF q
  <1>17. \A i \in 1..nlPos' - 1 : text'[i] = NewLine => ~ Short(text, i)'
    BY <1>14, <1>15, <1>16
  <1> QED
    BY <1>3, <1>7, <1>13, <1>16, <1>17 DEF LineInv

-----------------------------------------------------------------------------
(* What a token makes of the properties.                                   *)

(* Why the generation ended.                                               *)
ByWord      == stop = "word"
ByWordOrEnd == stop \in {"word", "eos"}
ByIndent    == stop = "indent"

\* What the reason to stop says of the token.
LEMMA Ends ==
    ASSUME Types, Running, NEW p \in Pieces, NEW late, ProcessToken(p, late)
    PROVE  LET t == Taken(p)
           IN  /\ Open' => ~ p.eog /\ ~ BadIndent(t.text) /\ t.word = <<>>
               /\ ByWord' => ~ BadIndent(t.text) /\ t.word # <<>>
               /\ ByWordOrEnd' => p.eog \/ t.word # <<>>
               /\ ByIndent' => BadIndent(t.text)
               /\ Done' <=> ~ Open'
               /\ ByWord' \/ ByWordOrEnd' \/ ByIndent' => Done'
  <1> DEFINE t == Taken(p)
  <1>1. stop' = StopReason(t, p, late)
    BY Taking
  <1>2. Done' <=> stop' # ""
    BY Taking
  <1> HIDE DEF t
  <1>3. /\ Open' => ~ p.eog /\ ~ BadIndent(t.text) /\ t.word = <<>>
        /\ ByWord' => ~ BadIndent(t.text) /\ t.word # <<>>
        /\ ByWordOrEnd' => p.eog \/ t.word # <<>>
        /\ ByIndent' => BadIndent(t.text)
    BY <1>1, Reasons DEF Open, ByWord, ByWordOrEnd, ByIndent
  <1>4. (Done' <=> ~ Open') /\ (ByWord' \/ ByWordOrEnd' \/ ByIndent' => Done')
    BY <1>2 DEF Open, ByWord, ByWordOrEnd, ByIndent
  <1>5. t = Taken(p)
    BY DEF t
  <1> QED
    BY <1>3, <1>4, <1>5

\* A text has a stop word, byte by byte.
LEMMA HasWord ==
    ASSUME params \in Params, NEW s \in Seq(STRING)
    PROVE  HasStopWord(s) <=> \E w \in Words, i \in 0..Len(s) : At(s, w, i)
  <1>1. ASSUME NEW w \in Words, NEW i \in 0..Len(s) PROVE OccursAt(s, w, i) <=> At(s, w, i)
    <2>1. w \in Seq(STRING) /\ i \in Nat
      BY Request, LenProperties
    <2> QED
      BY <2>1, OccursTokens
  <1>2. HasStopWord(s) <=> \E w \in Words, i \in 0..Len(s) : OccursAt(s, w, i)
    BY DEF HasStopWord, Words, Occurs
  <1> QED
    BY <1>1, <1>2

\* A token keeps the properties of stop words.
LEMMA HonouredStep ==
    ASSUME Types, Running, NEW p \in Pieces, NEW late, ProcessToken(p, late)
    PROVE  StopWordsHonoured'
  <1> DEFINE all == text \o p.text
             t   == Taken(p)
             new == text'
  <1>1. params \in Params
    BY DEF Types
  <1>2. p.text \in Seq(STRING) /\ p.eog \in BOOLEAN
    BY <1>1, Request
  <1>3. /\ params' = params /\ Width' = Width /\ word' = t.word /\ Sampled' = all /\ all \in Seq(STRING)
        /\ new \in Seq(STRING) /\ Starts(new, t.text)
        /\ ~ BadIndent(t.text) \/ NIndent = 0 => new = t.text
    BY Taking
  <1>4. /\ t.text \in Seq(STRING) /\ Starts(t.text, all)
        /\ t.word \in Words \cup {<<>>}
        /\ t.word = <<>> => t.text = all
        /\ t.word # <<>> => At(all, t.word, Len(t.text))
        /\ DOMAIN Width = {} => \A w \in Words : \A i \in 0..Len(t.text) : ~ At(t.text, w, i)
    BY <1>2, TakenParts
  <1>5. /\ Open' => ~ BadIndent(t.text) /\ t.word = <<>>
        /\ ByWord' => ~ BadIndent(t.text) /\ t.word # <<>>
        /\ Done' <=> ~ Open'
    BY Ends
  <1>6. HasStopWord(text)' <=> HasStopWord(new)
    BY <1>3 DEF HasStopWord, StopWords, Occurs, OccursAt
  <1>7. HasStopWord(Sampled)' <=> HasStopWord(all)
    BY <1>3 DEF HasStopWord, StopWords, Occurs, OccursAt
  <1>8. Len(new) \in Nat /\ Len(t.text) \in Nat /\ Len(all) \in Nat
    BY <1>3, <1>4, LenProperties
  <1> HIDE DEF all, t, new
  <1>9. DOMAIN Width = {} => ~ HasStopWord(new)
    <2> SUFFICES ASSUME DOMAIN Width = {}, NEW w \in Words, NEW i \in 0..Len(new), At(new, w, i) PROVE FALSE
      BY <1>1, <1>3, HasWord
    <2>1. Len(new) <= Len(t.text) /\ \A j \in 1..Len(new) : new[j] = t.text[j]
      BY <1>3 DEF Starts
    <2>2. i \in Nat /\ i + Len(w) <= Len(new) /\ Len(w) \in Nat /\ \A j \in 1..Len(w) : new[i + j] = w[j]
      BY <1>1, <1>8, Request DEF At
    <2>3. ASSUME NEW j \in 1..Len(w) PROVE t.text[i + j] = w[j]
      <3>1. i + j \in 1..Len(new)
        BY <2>2, <1>8
      <3> QED
        BY <3>1, <2>1, <2>2
    <2>4. i + Len(w) <= Len(t.text) /\ i \in 0..Len(t.text)
      BY <2>1, <2>2, <1>8
    <2>5. At(t.text, w, i)
      BY <2>3, <2>4 DEF At
    <2> QED
      BY <2>4, <2>5, <1>4
  <1>10. ~ Done' /\ DOMAIN Width' = {} => ~ HasStopWord(Sampled)'
    BY <1>3, <1>4, <1>5, <1>7, <1>9
  <1>11. ByWord' => IsPrefix(new \o word', all)
    <2> SUFFICES ASSUME ByWord' PROVE IsPrefix(new \o word', all)
      OBVIOUS
    <2> DEFINE v == t.word
    <2>1. new = t.text /\ v \in Words /\ At(all, v, Len(new)) /\ word' = v
      BY <1>3, <1>4, <1>5
    <2>2. v \in Seq(STRING)
      BY <2>1, <1>1, Request
    <2> HIDE DEF v
    <2> DEFINE q == new \o v
    <2>3. /\ q \in Seq(STRING) /\ Len(q) = Len(new) + Len(v) /\ Len(v) \in Nat
          /\ \A i \in 1..Len(new) : q[i] = new[i]
          /\ \A i \in 1..Len(v) : q[Len(new) + i] = v[i]
      BY <2>2, <1>3, Both
    <2> HIDE DEF q
    <2>4. Len(q) <= Len(all)
      BY <2>1, <2>3 DEF At
    <2>5. ASSUME NEW i \in 1..Len(q) PROVE q[i] = all[i]
      <3>1. CASE i <= Len(new)
        <4>1. i \in 1..Len(new)
          BY <3>1, <2>3, <1>8
        <4> QED
          BY <4>1, <2>1, <2>3, <1>4 DEF Starts
      <3>2. CASE ~ (i <= Len(new))
        <4>1. PICK j \in 1..Len(v) : Len(new) + j = i
          <5>1. i - Len(new) \in 1..Len(v) /\ Len(new) + (i - Len(new)) = i
            BY <3>2, <2>3, <1>8
          <5> QED
            BY <5>1
        <4>2. all[Len(new) + j] = v[j]
          BY <2>1 DEF At
        <4>3. q[Len(new) + j] = v[j]
          BY <2>3
        <4> QED
          BY <4>1, <4>2, <4>3
      <3> QED
        BY <3>1, <3>2
    <2>6. IsPrefix(q, all)
      BY <2>3, <2>4, <2>5, <1>3, PrefixTokens
    <2> QED
      BY <2>1, <2>6 DEF q
  <1>12. NoStopWord'
    BY <1>3, <1>6, <1>9 DEF NoStopWord
  <1>13. StopsInTime'
    <2>1. stop' = "word" => IsPrefix(text' \o word', Sampled')
      BY <1>3, <1>11 DEF ByWord, new
    <2> QED
      BY <2>1, <1>10 DEF StopsInTime
  <1> QED
    BY <1>12, <1>13 DEF StopWordsHonoured

\* Texts of the same length that agree are the same.
LEMMA SameText ==
    ASSUME Types, Running, NEW p \in Pieces, NEW late, ProcessToken(p, late), NEW s \in Seq(STRING),
           sent' = Len(s), \A i \in 1..sent' : (parts.text')[i] = s[i]
    PROVE  parts.text' = s
  <1> DEFINE q == parts.text'
  <1>1. parts' \in [text : Seq(STRING), tokens : Seq(Pieces)] /\ Len(parts.text') = sent'
    BY Sending
  <1>2. q \in Seq(STRING) /\ Len(q) = sent'
    BY <1>1
  <1> HIDE DEF q
  <1>3. Len(q) = Len(s) /\ \A i \in 1..Len(q) : q[i] = s[i]
    BY <1>2 DEF q
  <1>4. q = s
    BY <1>2, <1>3, SeqEqual
  <1> QED
    BY <1>4 DEF q

\* The last token gives a stream what the answer has.
LEMMA AnswerStep ==
    ASSUME Types, Running, NEW p \in Pieces, NEW late, ProcessToken(p, late)
    PROVE  StreamIsAnswer'
  <1> DEFINE all == text \o p.text
             t   == Taken(p)
             new == text'
  <1>1. params \in Params /\ (DOMAIN Width = {} => parts.tokens = tokens)
    BY DEF Types, Running, PartsInv
  <1>2. p.text \in Seq(STRING) /\ p.eog \in BOOLEAN
    BY <1>1, Request
  <1>3. /\ params' = params /\ Width' = Width /\ NIndent' = NIndent /\ tokens' = Append(tokens, p)
        /\ all \in Seq(STRING)
        /\ NIndent = 0 => new = t.text
    BY Taking
  <1>4. t.text \in Seq(STRING) /\ (t.word = <<>> => t.text = all) /\ t.whole = ~ Incomplete(all)
    BY <1>2, TakenParts
  <1>5. ByWordOrEnd' => (p.eog \/ t.word # <<>>) /\ Done'
    BY Ends
  <1>6. Done' => final'.text = new /\ final'.tokens = tokens'
    BY DEF ProcessToken, Done
  <1>7. /\ parts.tokens' = IF t.whole THEN Append(parts.tokens, p) ELSE parts.tokens
        /\ \A i \in 1..sent' : (parts.text')[i] = t.text[i]
        /\ \/ t.word = <<>> /\ (Incomplete(all) \/ ~ p.eog)
           \/ sent' = Len(t.text)
    BY Sending
  <1>8. Incomplete(text)' <=> Incomplete(new)
    BY <1>3 DEF Incomplete
  <1> HIDE DEF all, t, new
  <1>9. NIndent' = 0 /\ ByWordOrEnd' /\ ~ Incomplete(text)' => parts.text' = final'.text
    <2> SUFFICES ASSUME NIndent = 0, ByWordOrEnd', ~ Incomplete(new) PROVE parts.text' = new
      BY <1>3, <1>5, <1>6, <1>8
    <2>1. new = t.text /\ (p.eog \/ t.word # <<>>)
      BY <1>3, <1>5
    <2>2. sent' = Len(t.text)
      BY <2>1, <1>4, <1>7
    <2> DEFINE s == t.text
    <2>3. s \in Seq(STRING) /\ sent' = Len(s) /\ \A i \in 1..sent' : (parts.text')[i] = s[i]
      BY <2>2, <1>4, <1>7
    <2> HIDE DEF s
    <2>4. parts.text' = s
      BY <2>3, SameText
    <2> QED
      BY <2>1, <2>4 DEF s
  <1>10. Done' /\ DOMAIN Width' = {} => parts.tokens' = final'.tokens
    <2>1. DOMAIN Width = {} => ~ Incomplete(all)
      BY <1>1, <1>3, Completed
    <2> QED
      BY <2>1, <1>1, <1>3, <1>4, <1>6, <1>7
  <1>11. StreamIsComplete'
    BY <1>9 DEF StreamIsComplete, ByWordOrEnd
  <1>12. TokensStreamed'
    BY <1>10 DEF TokensStreamed
  <1> QED
    BY <1>11, <1>12 DEF StreamIsAnswer

\* What is sent stays, and what is held back may begin a stop word.
LEMMA HeldStep ==
    ASSUME Types, Running, NEW p \in Pieces, NEW late, ProcessToken(p, late)
    PROVE  HeldInv'
  <1> DEFINE all == text \o p.text
             t   == Taken(p)
             new == text'
             q   == parts.text'
  <1>1. params \in Params
    BY DEF Types
  <1>2. p.text \in Seq(STRING) /\ p.eog \in BOOLEAN
    BY <1>1, Request
  <1>3. /\ params' = params /\ NIndent' = NIndent /\ Words' = Words
        /\ new \in Seq(STRING)
        /\ NIndent = 0 => new = t.text
    BY Taking
  <1>4. /\ parts' \in [text : Seq(STRING), tokens : Seq(Pieces)]
        /\ sent' \in Nat /\ sent' <= Len(t.text) /\ Len(parts.text') = sent'
        /\ \A i \in 1..sent' : (parts.text')[i] = t.text[i]
    BY Sending
  <1>5. q \in Seq(STRING) /\ Len(q) = sent'
    BY <1>4
  <1>6. NIndent' = 0 => IsPrefix(q, new)
    <2> SUFFICES ASSUME NIndent = 0 PROVE IsPrefix(q, new)
      BY <1>3
    <2>1. new = t.text
      BY <1>3
    <2>2. Len(q) <= Len(new) /\ \A i \in 1..Len(q) : q[i] = new[i]
      BY <2>1, <1>4, <1>5
    <2> HIDE DEF q, new
    <2> QED
      BY <2>2, <1>3, <1>5, PrefixTokens
  <1>7. ASSUME Open', q # new
        PROVE  \/ Incomplete(text)'
               \/ \E w \in ToSet(StopWords'), k \in Len(q)..Len(new) - 1 : IsPrefix(SubSeq(new, k + 1, Len(new)), w)
    <2>1. PartsInv' /\ WordInv'
      BY <1>7, WordStep
    <2>2. sent' <= Len(new) /\ \A i \in 1..sent' : q[i] = new[i]
      BY <2>1 DEF PartsInv
    <2>3. sent' = Len(new) \/ Incomplete(text)' \/ \E w \in Words', k \in sent'..Len(new) - 1 : Begins(new, w, k)
      BY <2>1 DEF WordInv
    <2>4. sent' # Len(new)
      <3> DEFINE s == new
      <3>1. s \in Seq(STRING) /\ (q = s <=> q = new)
        BY <1>3
      <3>2. \A i \in 1..sent' : (parts.text')[i] = s[i]
        BY <2>2
      <3> HIDE DEF s
      <3>3. sent' = Len(s) => parts.text' = s
        BY <3>1, <3>2, SameText
      <3> QED
        BY <3>3, <1>7 DEF s
    <2>5. ASSUME NEW w \in Words', NEW k \in sent'..Len(new) - 1, Begins(new, w, k)
          PROVE  k \in Len(q)..Len(new) - 1 /\ IsPrefix(SubSeq(new, k + 1, Len(new)), w) /\ w \in ToSet(StopWords')
      <3>1. w \in Words
        BY <2>5, <1>3
      <3>2. w \in Seq(STRING)
        BY <3>1, <1>1, Request
      <3> HIDE DEF new, q
      <3>3. Len(new) \in Nat
        BY <1>3, LenProperties
      <3>4. k \in 0..Len(new)
        <4> DEFINE z == sent'
        <4>1. z \in Nat /\ k \in z..Len(new) - 1
          BY <2>5, <1>4
        <4> HIDE DEF z
        <4> QED
          BY <4>1, <3>3
      <3>5. IsPrefix(SubSeq(new, k + 1, Len(new)), w)
        BY <3>2, <3>4, <1>3, <2>5, BeginsTokens
      <3>6. w \in ToSet(StopWords')
        BY <2>5 DEF Words
      <3>7. k \in Len(q)..Len(new) - 1
        BY <2>5, <1>5
      <3> QED
        BY <3>5, <3>6, <3>7
    <2> QED
      BY <2>3, <2>4, <2>5
  <1>8. ~ Done' => Open'
    BY Ends
  <1>9. NothingRetracted'
    BY <1>6 DEF NothingRetracted
  <1>10. HeldForAWord'
    BY <1>7, <1>8 DEF HeldForAWord
  <1> QED
    BY <1>9, <1>10 DEF HeldInv

\* Parts end with whole characters.
LEMMA CharactersStep ==
    ASSUME Types, Running, WholeCharacters, NEW p \in Pieces, NEW late, ProcessToken(p, late)
    PROVE  WholeCharacters'
  <1> DEFINE all == text \o p.text
             t   == Taken(p)
             q   == parts.text'
  <1>1. params \in Params /\ word = <<>> /\ parts.text \in Seq(STRING)
    BY DEF Types, Running
  <1>2. p.text \in Seq(STRING) /\ p.eog \in BOOLEAN
    BY <1>1, Request
  <1>3. Width' = Width /\ word' = t.word /\ all \in Seq(STRING)
    BY Taking
  <1>4. t.word = <<>> => t.text = all
    BY <1>2, TakenParts
  <1>5. \A i \in 1..sent' : (parts.text')[i] = t.text[i]
    BY Sending
  <1>6. parts.text' = parts.text \/ (sent' = Len(t.text) /\ ~ Incomplete(all))
    BY Sending
  <1> HIDE DEF all, t
  <1>7. \A i \in 1..Len(parts.text) :
            parts.text[i] \in DOMAIN Width => i + Width[parts.text[i]] - 1 <= Len(parts.text)
    BY <1>1, LenProperties DEF WholeCharacters
  <1>8. ASSUME word' = <<>>, ~ (parts.text' = parts.text) PROVE q = all /\ ~ Incomplete(all)
    <2>1. t.text = all /\ sent' = Len(all) /\ ~ Incomplete(all)
      BY <1>3, <1>4, <1>6, <1>8
    <2>2. \A i \in 1..sent' : (parts.text')[i] = all[i]
      BY <2>1, <1>5
    <2>3. parts.text' = all
      BY <2>1, <2>2, <1>3, SameText
    <2> QED
      BY <2>1, <2>3
  <1>9. ~ Incomplete(all) => \A j \in 1..Len(all) : all[j] \in DOMAIN Width => j + Width[all[j]] - 1 <= Len(all)
    BY <1>1, <1>3, Completed
  <1>10. DOMAIN parts.text = 1..Len(parts.text) /\ DOMAIN all = 1..Len(all)
    BY <1>1, <1>3, LenProperties
  <1>11. ASSUME word' = <<>>
         PROVE  \A i \in DOMAIN q : q[i] \in DOMAIN Width => i + Width[q[i]] - 1 <= Len(q)
    <2>1. CASE q = parts.text
      <3> HIDE DEF q
      <3> QED
        BY <2>1, <1>7, <1>10
    <2>2. CASE ~ (q = parts.text)
      <3>1. q = all /\ ~ Incomplete(all)
        BY <2>2, <1>8, <1>11
      <3> HIDE DEF q
      <3> QED
        BY <3>1, <1>9, <1>10
    <2> QED
      BY <2>1, <2>2
  <1> QED
    BY <1>3, <1>11 DEF WholeCharacters

\* A text that is cut at a line has only indented lines.
LEMMA CutStep ==
    ASSUME Types, Running, NEW p \in Pieces, NEW late, ProcessToken(p, late)
    PROVE  IndentedLines'
  <1> DEFINE all == text \o p.text
             t   == Taken(p)
             new == text'
  <1>1. params \in Params /\ text \in Seq(STRING) /\ nlPos \in Nat /\ nl \in BOOLEAN
    BY DEF Types
  <1>2. p.text \in Seq(STRING) /\ p.eog \in BOOLEAN /\ NewLine \notin Blanks /\ NIndent \in Nat
    BY <1>1, Request
  <1>3. NIndent' = NIndent /\ new \in Seq(STRING) /\ Starts(new, t.text)
    BY Taking
  <1>4. t.text \in Seq(STRING) /\ Starts(t.text, all)
    BY <1>2, TakenParts
  <1>5. ByIndent' => BadIndent(t.text)
    BY Ends
  <1>6. Len(all) = Len(text) + Len(p.text) /\ (\A i \in 1..Len(text) : all[i] = text[i])
    BY <1>1, <1>2, Both
  <1>7. new = Unindented(t.text)
    BY DEF ProcessToken
  <1>8. /\ nlPos <= Len(text)
        /\ nlPos > 0 => text[nlPos] = NewLine
    BY DEF Running, LineInv
  <1> HIDE DEF all, new, t
  <1>9. Len(new) \in Nat /\ Len(t.text) \in Nat /\ Len(text) \in Nat
    BY <1>1, <1>3, <1>4, LenProperties
  <1>10. ASSUME ByIndent' PROVE \A i \in 1..Len(new) - 1 : new[i] = NewLine => ~ Short(new, i)
    <2> DEFINE s == t.text
    <2>1. s \in Seq(STRING) /\ BadIndent(s) /\ new = Unindented(s)
      BY <1>4, <1>5, <1>7, <1>10
    <2> HIDE DEF s
    <2>2. nlPos > 0 /\ nlPos <= Len(s) /\ nlPos <= Len(new) /\ \A j \in nlPos + 1..Len(new) : s[j] \in Blanks
      BY <2>1, <1>1, CutLine
    <2>3. Starts(new, s) /\ Starts(s, all) /\ Len(s) \in Nat
      BY <1>3, <1>4, <1>9 DEF s
    <2>4. \A j \in nlPos + 1..Len(new) : new[j] \in Blanks
      <3> SUFFICES ASSUME NEW j \in nlPos + 1..Len(new) PROVE new[j] \in Blanks
        OBVIOUS
      <3>1. j \in 1..Len(new)
        BY <1>1, <1>9
      <3> QED
        BY <3>1, <2>2, <2>3 DEF Starts
    <2>5. \A j \in 1..nlPos : new[j] = text[j]
      <3> SUFFICES ASSUME NEW j \in 1..nlPos PROVE new[j] = text[j]
        OBVIOUS
      <3>1. j \in 1..Len(new) /\ j \in 1..Len(s) /\ j \in 1..Len(text)
        BY <2>2, <2>3, <1>1, <1>8, <1>9
      <3> QED
        BY <3>1, <2>3, <1>6 DEF Starts
    <2> SUFFICES ASSUME NEW i \in 1..Len(new) - 1, new[i] = NewLine PROVE ~ Short(new, i)
      OBVIOUS
    <2>6. i \in Nat /\ 1 <= i /\ i <= Len(new)
      BY <1>9
    <2>7. CASE i < nlPos
      <3>1. i \in 1..nlPos - 1
        BY <2>6, <2>7, <1>1
      <3> QED
        BY <3>1, <2>2, <2>5, <1>3, EarlierLines
    <2>8. CASE i = nlPos
      <3> SUFFICES ASSUME Short(new, i) PROVE FALSE
        OBVIOUS
      <3>1. PICK e \in i..Len(new) - 1 : new[e + 1] \notin Blanks
        BY DEF Short
      <3>2. e + 1 \in nlPos + 1..Len(new)
        BY <3>1, <2>6, <2>8, <1>1, <1>9
      <3> QED
        BY <3>1, <3>2, <2>4
    <2>9. CASE i > nlPos
      <3>1. i \in nlPos + 1..Len(new)
        BY <2>6, <2>9, <1>1, <1>9
      <3> QED
        BY <3>1, <2>4, <1>2
    <2> QED
      BY <2>6, <2>7, <2>8, <2>9, <1>1
  <1>11. ASSUME ByIndent', NEW i \in 1..Len(new) - 1, new[i] = NewLine, IndentEnd(new, i) < Len(new)
         PROVE  IndentEnd(new, i) - i >= NIndent
    <2>1. i \in 0..Len(new) /\ i \in Nat
      BY <1>9
    <2>2. ~ (IndentEnd(new, i) < Len(new) /\ IndentEnd(new, i) - i < NIndent)
      BY <2>1, <1>1, <1>3, <1>10, <1>11, ShortLine
    <2>3. IndentEnd(new, i) \in i..Len(new)
      BY <2>1, <1>3, Indentation
    <2>4. IndentEnd(new, i) \in Nat
      BY <2>1, <2>3, <1>9
    <2> QED
      BY <2>1, <2>2, <2>4, <1>2, <1>11
  <1>12. ByIndent' => \A i \in 1..Len(new) - 1 :
             new[i] = NewLine /\ IndentEnd(new, i) < Len(new) => IndentEnd(new, i) - i >= NIndent'
    BY <1>3, <1>11
  <1>13. new = text'
    BY DEF new
  <1> QED
    BY <1>12, <1>13 DEF IndentedLines, ByIndent, IndentEnd

\* The bounds of the state.
LEMMA BoundsStep ==
    ASSUME Types, Running, NEW p \in Pieces, NEW late, ProcessToken(p, late)
    PROVE  TypeOK'
  <1> DEFINE all == text \o p.text
             t   == Taken(p)
             new == text'
  <1>1. params \in Params /\ text \in Seq(STRING) /\ nlPos \in Nat /\ nl \in BOOLEAN
    BY DEF Types
  <1>2. p.text \in Seq(STRING) /\ p.eog \in BOOLEAN
    BY <1>1, Request
  <1>3. /\ Words' = Words /\ word' = t.word /\ Sampled' = all /\ all \in Seq(STRING)
        /\ new \in Seq(STRING) /\ Starts(new, t.text)
    BY Taking
  <1>4. t.text \in Seq(STRING) /\ Starts(t.text, all) /\ t.word \in Words \cup {<<>>}
    BY <1>2, TakenParts
  <1>5. sent' \in Nat /\ sent' <= Len(t.text)
    BY Sending
  <1>6. Len(all) = Len(text) + Len(p.text) /\ Len(text) \in Nat /\ Len(p.text) \in Nat
    BY <1>1, <1>2, Both
  <1>7. nlPos' = NextLine(new)
    BY DEF ProcessToken
  <1>8. nlPos <= Len(text)
    BY DEF Running, LineInv
  <1>9. stop' \in {"", "word", "limit", "indent", "time", "eos"} /\ (Done' = (stop' # ""))
    <2>1. stop' = StopReason(t, p, late) /\ (Done' <=> stop' # "")
      BY Taking
    <2> HIDE DEF t
    <2>2. stop' \in {"", "word", "limit", "indent", "time", "eos"}
      BY <2>1, Reasons
    <2>3. Done' \in BOOLEAN
      BY DEF Done
    <2> QED
      BY <2>1, <2>2, <2>3
  <1>10. Len(probs') <= Len(tokens')
    BY TypesStep DEF Types
  <1> HIDE DEF all, t, new
  <1>11. Len(t.text) <= Len(all) /\ Len(new) <= Len(t.text) /\ Len(all) \in Nat /\ Len(new) \in Nat /\ Len(t.text) \in Nat
    BY <1>3, <1>4, LenProperties DEF Starts
  <1>12. sent' <= Len(all)
    BY <1>5, <1>11
  <1>13. nlPos' <= Len(all)
    <2> DEFINE m == NextLine(new)
    <2>1. m = nlPos \/ m \in nlPos + 1..Len(new)
      BY <1>1, <1>3, LaterLine
    <2> HIDE DEF m
    <2>2. m <= Len(all)
      BY <2>1, <1>1, <1>6, <1>8, <1>11
    <2> QED
      BY <2>2, <1>7 DEF m
  <1>14. word' # <<>> => word' \in ToSet(StopWords')
    <2>1. word' # <<>> => word' \in Words'
      BY <1>3, <1>4
    <2> QED
      BY <2>1 DEF Words
  <1> QED
    BY <1>3, <1>9, <1>10, <1>12, <1>13, <1>14 DEF TypeOK

\* The initial states satisfy the invariant.
LEMMA StreamInit == Init => StreamInv
  <1> SUFFICES ASSUME Init PROVE StreamInv
    OBVIOUS
  <1> DEFINE none == <<>>
  <1>1. /\ params \in Params /\ text = none /\ sent = 0 /\ nl = FALSE /\ nlPos = 0 /\ word = none
        /\ tokens = none /\ probs = none /\ parts.text = none /\ parts.tokens = none
        /\ parts = [text |-> none, tokens |-> none] /\ final = none /\ Open
    BY DEF Init, Open
  <1>2. none \in Seq(STRING) /\ none \in Seq(Pieces) /\ Len(none) = 0
    BY EmptySeq
  <1>3. \A x \in Pieces : x.text \in Seq(STRING)
    BY <1>1, Request
  <1>4. Sampled = none
    <2>1. Len(none) \in Nat /\ \A i \in 1..Len(none) : none[i].text \in Seq(STRING)
      BY <1>2
    <2> HIDE DEF none
    <2>2. \E f : IsJoin(f, none, Len(none)) /\ Joined(none) = f[Len(none)]
      BY <2>1, JoinedRuns
    <2>3. Joined(none) = none
      BY <2>2, <1>2 DEF IsJoin, none
    <2> QED
      BY <2>3, <1>1 DEF Sampled
  <1>5. ~ Done
    BY <1>1 DEF Done
  <1>6. ASSUME NEW w \in Words PROVE w \in Seq(STRING) /\ Len(w) \in Nat \ {0}
    BY <1>1, Request
  <1> HIDE DEF none
  <1>7. Types
    <2>1. parts \in [text : Seq(STRING), tokens : Seq(Pieces)]
      BY <1>1, <1>2
    <2>2. word \in Words \cup {<<>>}
      BY <1>1 DEF none
    <2>3. text \in Seq(STRING) /\ tokens \in Seq(Pieces) /\ probs \in Seq(Pieces) /\ Len(probs) <= Len(tokens)
      BY <1>1, <1>2
    <2> QED
      BY <2>1, <2>2, <2>3, <1>1 DEF Types
  <1>8. PartsInv
    BY <1>1, <1>2 DEF PartsInv
  <1>9. WordInv
    <2>1. ASSUME NEW w \in Words, NEW i \in 0..Len(text), At(text, w, i) PROVE FALSE
      <3>1. i = 0 /\ Len(text) = 0
        BY <1>1, <1>2
      <3> QED
        BY <2>1, <3>1, <1>6 DEF At
    <2>2. sent = Len(text) /\ \A w \in Words : \A k \in 0..sent - 1 : ~ Begins(text, w, k)
      BY <1>1, <1>2
    <2> QED
      BY <2>1, <2>2 DEF WordInv
  <1>10. LineInv
    BY <1>1, <1>2 DEF LineInv
  <1>11. Running
    BY <1>1, <1>4, <1>8, <1>9, <1>10 DEF Running, none
  <1>12. ~ HasStopWord(text)
    <2> DEFINE s == text
    <2>1. s \in Seq(STRING) /\ \A w \in Words, i \in 0..Len(s) : DOMAIN Width = {} => ~ At(s, w, i)
      BY <1>7, <1>9 DEF Types, WordInv
    <2>2. \A w \in Words, i \in 0..Len(s) : ~ At(s, w, i)
      <3> SUFFICES ASSUME NEW w \in Words, NEW i \in 0..Len(s), At(s, w, i) PROVE FALSE
        OBVIOUS
      <3>1. i = 0 /\ Len(s) = 0
        BY <1>1, <1>2
      <3> QED
        BY <3>1, <1>6 DEF At
    <2> HIDE DEF s
    <2>3. ~ HasStopWord(s)
      BY <2>1, <2>2, <1>1, HasWord
    <2> QED
      BY <2>3 DEF s
  <1>13. stop = ""
    BY DEF Init
  <1>14. StopWordsHonoured
    <2>1. ~ HasStopWord(Sampled)
      BY <1>1, <1>4, <1>12
    <2>2. ~ (stop = "word")
      BY <1>13
    <2> QED
      BY <2>1, <2>2, <1>12 DEF StopWordsHonoured, NoStopWord, StopsInTime
  <1>15. StreamIsAnswer
    <2>1. ~ (stop \in {"word", "eos"})
      BY <1>13
    <2> QED
      BY <2>1, <1>5 DEF StreamIsAnswer, StreamIsComplete, TokensStreamed
  <1>16. HeldInv
    <2>1. IsPrefix(none, none)
      <3>1. none \in Seq(STRING) /\ Len(none) = 0
        BY <1>2
      <3>2. IsPrefix(none, none) <=> Len(none) <= Len(none) /\ \A i \in 1..Len(none) : none[i] = none[i]
        BY <3>1, PrefixTokens
      <3> QED
        BY <3>1, <3>2
    <2> QED
      BY <2>1, <1>1 DEF HeldInv, NothingRetracted, HeldForAWord
  <1>17. TextInv
    <2>1. TypeOK
      <3>1. stop \in {"", "word", "limit", "indent", "time", "eos"} /\ (Done = (stop # ""))
        BY <1>5, <1>13 DEF Done
      <3>2. (word # <<>> => word \in ToSet(StopWords)) /\ Len(probs) <= Len(tokens)
        BY <1>1, <1>2 DEF none
      <3>3. nlPos <= Len(Sampled) /\ sent <= Len(Sampled)
        BY <1>1, <1>2, <1>4
      <3> QED
        BY <3>1, <3>2, <3>3 DEF TypeOK
    <2>2. WholeCharacters
      <3>1. DOMAIN parts.text = {}
        BY <1>1, <1>2, LenProperties
      <3> QED
        BY <3>1 DEF WholeCharacters
    <2>3. ~ (stop = "indent")
      BY <1>13
    <2> QED
      BY <2>1, <2>2, <2>3 DEF TextInv, IndentedLines
  <1> QED
    BY <1>7, <1>11, <1>14, <1>15, <1>16, <1>17 DEF StreamInv

\* Nothing happens any more when the answer is complete.
LEMMA StreamStutter ==
    ASSUME StreamInv, UNCHANGED vars
    PROVE  StreamInv'
  <1>1. /\ params' = params /\ text' = text /\ sent' = sent /\ nl' = nl /\ nlPos' = nlPos /\ stop' = stop /\ word' = word
        /\ tokens' = tokens /\ probs' = probs /\ parts' = parts /\ final' = final
    BY DEF vars
  <1>2. /\ Words' = Words /\ StopWords' = StopWords /\ Pieces' = Pieces /\ Width' = Width /\ NIndent' = NIndent
        /\ Sampled' = Sampled /\ Done' = Done /\ Open' = Open
    BY <1>1 DEF Words, StopWords, Pieces, Width, NIndent, Sampled, Done, Open
  <1>3. Types' = Types
    BY <1>1, <1>2 DEF Types
  <1>4. PartsInv' = PartsInv
    BY <1>1, <1>2 DEF PartsInv
  <1>5. Incomplete(text)' = Incomplete(text)
    BY <1>1, <1>2 DEF Incomplete
  <1>6. WordInv' = WordInv
    BY <1>1, <1>2, <1>5 DEF WordInv
  <1>7. LineInv' = LineInv
    BY <1>1, <1>2 DEF LineInv, Short
  <1>8. HasStopWord(text)' = HasStopWord(text) /\ HasStopWord(Sampled)' = HasStopWord(Sampled)
    BY <1>1, <1>2 DEF HasStopWord, Occurs, OccursAt
  <1>9. StopWordsHonoured' = StopWordsHonoured
    BY <1>1, <1>2, <1>8 DEF StopWordsHonoured, NoStopWord, StopsInTime
  <1>10. StreamIsAnswer' = StreamIsAnswer
    BY <1>1, <1>2, <1>5 DEF StreamIsAnswer, StreamIsComplete, TokensStreamed
  <1>11. HeldInv' = HeldInv
    BY <1>1, <1>2, <1>5 DEF HeldInv, NothingRetracted, HeldForAWord
  <1>12. TypeOK' = TypeOK /\ WholeCharacters' = WholeCharacters
    BY <1>1, <1>2 DEF TypeOK, WholeCharacters
  <1>13. IndentedLines' = IndentedLines
    BY <1>1, <1>2 DEF IndentedLines, IndentEnd
  <1>14. TextInv' = TextInv
    BY <1>12, <1>13 DEF TextInv
  <1>15. Running' = Running
    BY <1>1, <1>2, <1>4, <1>6, <1>7 DEF Running
  <1> QED
    BY <1>2, <1>3, <1>9, <1>10, <1>11, <1>14, <1>15 DEF StreamInv

\* Every step keeps the invariant.
LEMMA StreamNext == StreamInv /\ [Next]_vars => StreamInv'
  <1> SUFFICES ASSUME StreamInv, [Next]_vars PROVE StreamInv'
    OBVIOUS
  <1>1. ASSUME NEW p \in Pieces, NEW late, ProcessToken(p, late) PROVE StreamInv'
    <2>1. Types /\ Running /\ WholeCharacters
      BY <1>1 DEF StreamInv, ProcessToken, TextInv
    <2>2. Types'
      BY <1>1, <2>1, TypesStep
    <2>3. StopWordsHonoured' /\ StreamIsAnswer' /\ HeldInv'
      BY <1>1, <2>1, HonouredStep, AnswerStep, HeldStep
    <2>4. TextInv'
      BY <1>1, <2>1, BoundsStep, CharactersStep, CutStep DEF TextInv
    <2>5. ~ Done' => Running'
      <3>1. ~ Done' => Open'
        BY <1>1, <2>1, Ends
      <3>2. Open' => text' = Sampled' /\ word' = <<>> /\ PartsInv' /\ WordInv'
        BY <1>1, <2>1, WordStep
      <3>3. Open' => LineInv'
        BY <1>1, <2>1, LineStep
      <3> QED
        BY <3>1, <3>2, <3>3 DEF Running
    <2> QED
      BY <2>2, <2>3, <2>4, <2>5 DEF StreamInv
  <1>2. CASE Next
    BY <1>1, <1>2 DEF Next
  <1>3. CASE UNCHANGED vars
    BY <1>3, StreamStutter
  <1> QED
    BY <1>2, <1>3

\* The invariant holds in every state.
LEMMA StreamHolds == Spec => []StreamInv
  BY StreamInit, StreamNext, PTL DEF Spec

-----------------------------------------------------------------------------
(* A stop word ends the generation when it is complete, and nothing of it  *)
(* is in the answer (process_token, find_stopping_strings).                *)
THEOREM WordsHonoured == Spec => []StopWordsHonoured
  <1>1. StreamInv => StopWordsHonoured
    BY DEF StreamInv
  <1> QED
    BY <1>1, StreamHolds, PTL

(* A streaming client has the text and the tokens of the answer in the end *)
(* (send_partial_response, send_final_response).                           *)
THEOREM StreamMeetsAnswer == Spec => []StreamIsAnswer
  <1>1. StreamInv => StreamIsAnswer
    BY DEF StreamInv
  <1> QED
    BY <1>1, StreamHolds, PTL

(* Text is held back only while it may begin a stop word, and what is sent *)
(* was final (process_token).                                              *)
THEOREM OnlyWordsHeld == Spec => []HeldInv
  <1>1. StreamInv => HeldInv
    BY DEF StreamInv
  <1> QED
    BY <1>1, StreamHolds, PTL

(* Parts end with whole characters, and lines are cut at their indentation *)
(* (validate_utf8, n_indent).                                              *)
THEOREM TextKept == Spec => []TextInv
  <1>1. StreamInv => TextInv
    BY DEF StreamInv
  <1> QED
    BY <1>1, StreamHolds, PTL

-----------------------------------------------------------------------------
(* The way of an answer to the client, for all requests, bounds and        *)
(* messages; the state of a ResultStream is independent of the one above.  *)

\* The parameters of a request.
LEMMA SetupFacts ==
    ASSUME setup \in Setups
    PROVE  /\ MaxLen \in Nat /\ MaxCalls \in Nat /\ MaxIdle \in Nat
           /\ Format \in {"plain", "text", "asr", "chat", "resp", "anthropic"}
           /\ Stream \in BOOLEAN /\ Progress \in BOOLEAN /\ Usage \in BOOLEAN
           /\ Mixed \in BOOLEAN /\ Split \in BOOLEAN /\ Late \in BOOLEAN
           /\ NTasks \in Nat \ {0} /\ MaxParts \in Nat /\ Tasks = 1..NTasks
           /\ Late => Format \in {"chat", "resp", "anthropic"}
  <1>1. {setup.stream, setup.progress, setup.usage, setup.mixed, setup.split, setup.late} \subseteq BOOLEAN
    BY ResultAssumption DEF ResultAssumption
  <1> QED
    BY <1>1, ResultAssumption DEF ResultAssumption, Format, Stream, Progress, Usage, Mixed, Split, Late, NTasks, MaxParts, Tasks

\* A message.
LEMMA MessageFacts ==
    ASSUME NEW m \in Messages
    PROVE  /\ m.reasoning \in Nat /\ m.text \in Nat /\ m.calls \in Seq(Nat) /\ Len(m.calls) \in Nat
           /\ DOMAIN m.calls = 1..Len(m.calls) /\ Len(m.calls) <= MaxCalls /\ \A i \in 1..Len(m.calls) : m.calls[i] \in Nat
           /\ m = [reasoning |-> m.reasoning, text |-> m.text, calls |-> m.calls]
  <1>1. /\ m.reasoning \in 0..MaxLen /\ m.text \in 0..MaxLen
        /\ m.calls \in UNION {[1..k -> 0..MaxLen] : k \in 0..MaxCalls}
        /\ m = [reasoning |-> m.reasoning, text |-> m.text, calls |-> m.calls]
    BY DEF Messages
  <1>2. MaxLen \in Nat /\ MaxCalls \in Nat
    BY ResultAssumption DEF ResultAssumption
  <1>3. PICK k \in 0..MaxCalls : m.calls \in [1..k -> 0..MaxLen]
    BY <1>1
  <1>4. k \in Nat /\ m.calls \in [1..k -> Nat]
    BY <1>2, <1>3
  <1>5. m.calls \in Seq(Nat) /\ Len(m.calls) = k
    BY <1>4, FunctionIsSeq
  <1> QED
    BY <1>1, <1>2, <1>3, <1>4, <1>5

(* What a token adds to a message.                                         *)
GrewReasoning(m, n) == n.reasoning = m.reasoning + 1 /\ n.text = m.text /\ n.calls = m.calls
GrewText(m, n) == n.reasoning = m.reasoning /\ n.text = m.text + 1 /\ n.calls = m.calls
GrewNew(m, n) ==
    /\ n.reasoning = m.reasoning /\ n.text = m.text
    /\ Len(n.calls) = Len(m.calls) + 1 /\ \A i \in 1..Len(m.calls) : n.calls[i] = m.calls[i]
GrewCall(m, n) ==
    /\ n.reasoning = m.reasoning /\ n.text = m.text
    /\ Len(m.calls) > 0 /\ Len(n.calls) = Len(m.calls)
    /\ \A i \in 1..Len(m.calls) - 1 : n.calls[i] = m.calls[i]
    /\ n.calls[Len(m.calls)] = m.calls[Len(m.calls)] + 1

\* There is nothing else, and while it streams things come in order.
LEMMA GrownCases ==
    ASSUME NEW m \in Messages, NEW n \in Grown(m)
    PROVE  /\ n \in Messages
           /\ \/ n = m
              \/ GrewReasoning(m, n) /\ (Mixed \/ (m.text = 0 /\ Len(m.calls) = 0)) /\ Format \in {"chat", "resp", "anthropic"}
              \/ GrewText(m, n) /\ (Mixed \/ Len(m.calls) = 0)
              \/ GrewNew(m, n) /\ Format \in {"chat", "resp", "anthropic"}
              \/ GrewCall(m, n)
  <1> DEFINE inChat == Format \in {"chat", "resp", "anthropic"}
             last == Len(m.calls)
  <1>1. /\ m.reasoning \in Nat /\ m.text \in Nat /\ m.calls \in Seq(Nat) /\ last \in Nat /\ DOMAIN m.calls = 1..last
        /\ m = [reasoning |-> m.reasoning, text |-> m.text, calls |-> m.calls]
    BY MessageFacts
  <1>2. /\ n \in Messages
        /\ \/ n = m
           \/ n = [m EXCEPT !.reasoning = @ + 1] /\ inChat /\ (Mixed \/ m.text + last = 0)
           \/ n = [m EXCEPT !.text = @ + 1] /\ (Mixed \/ last = 0)
           \/ inChat /\ \E k \in 0..1 : n = [m EXCEPT !.calls = Append(@, k)]
           \/ last > 0 /\ n = [m EXCEPT !.calls[last] = @ + 1]
    BY DEF Grown
  <1> HIDE DEF inChat
  <1>3. ASSUME n = [m EXCEPT !.reasoning = @ + 1], Mixed \/ m.text + last = 0
        PROVE  GrewReasoning(m, n) /\ (Mixed \/ (m.text = 0 /\ last = 0))
    BY <1>1, <1>3 DEF GrewReasoning
  <1>4. ASSUME n = [m EXCEPT !.text = @ + 1] PROVE GrewText(m, n)
    BY <1>1, <1>4 DEF GrewText
  <1>5. ASSUME NEW k \in 0..1, n = [m EXCEPT !.calls = Append(@, k)] PROVE GrewNew(m, n)
    <2>1. n.reasoning = m.reasoning /\ n.text = m.text /\ n.calls = Append(m.calls, k)
      BY <1>1, <1>5
    <2>2. k \in Nat
      OBVIOUS
    <2> QED
      BY <1>1, <2>1, <2>2, AppendProperties DEF GrewNew
  <1>6. ASSUME last > 0, n = [m EXCEPT !.calls[last] = @ + 1] PROVE GrewCall(m, n)
    <2>1. n.reasoning = m.reasoning /\ n.text = m.text /\ n.calls = [m.calls EXCEPT ![last] = @ + 1]
      BY <1>1, <1>6
    <2>2. last \in 1..last /\ m.calls[last] \in Nat
      BY <1>1, <1>6, ElementOfSeq
    <2>3. m.calls[last] + 1 \in Nat
      BY <2>2
    <2>4. Len(n.calls) = last /\ \A i \in 1..last : n.calls[i] = IF i = last THEN m.calls[last] + 1 ELSE m.calls[i]
      BY <1>1, <2>1, <2>2, <2>3, ExceptSeq
    <2>5. \A i \in 1..last - 1 : i \in 1..last /\ i # last
      BY <1>1
    <2> QED
      BY <1>6, <2>1, <2>2, <2>4, <2>5 DEF GrewCall
  <1> QED
    BY <1>2, <1>3, <1>4, <1>5, <1>6 DEF inChat

\* What a token adds is one diff.
LEMMA DiffsFacts ==
    ASSUME NEW m \in Messages, NEW n \in Messages
    PROVE  LET last == Len(n.calls)
           IN  /\ n = m => Diffs(m, n) = <<>>
               /\ GrewReasoning(m, n) => Diffs(m, n) = <<Diff(1, 0, 0, FALSE, 0)>>
               /\ GrewText(m, n) => Diffs(m, n) = <<Diff(0, 1, 0, FALSE, 0)>>
               /\ GrewNew(m, n) => Diffs(m, n) = <<Diff(0, 0, last, TRUE, n.calls[last])>>
               /\ GrewCall(m, n) => Diffs(m, n) = <<Diff(0, 0, last, FALSE, 1)>>
  <1> DEFINE last == Len(n.calls)
             args(i) == IF i \in DOMAIN m.calls THEN n.calls[i] - m.calls[i] ELSE n.calls[i]
             diff(i) == Diff(0, 0, i, i \notin DOMAIN m.calls, args(i))
             a == Diff(n.reasoning - m.reasoning, 0, 0, FALSE, 0)
             b == Diff(0, n.text - m.text, 0, FALSE, 0)
             c == [i \in DOMAIN n.calls |-> diff(i)]
             ab == <<a, b>>
             all == ab \o c
             D == {d \in ToSet(all) : ~ d.named /\ d.reasoning + d.text + d.args <= 0}
             S == {a, b} \cup {diff(i) : i \in 1..last}
  <1>1. Diffs(m, n) = Drop(all, D)
    BY DEF Diffs, Drop, Drop
  <1>2. /\ m.reasoning \in Nat /\ m.text \in Nat /\ m.calls \in Seq(Nat) /\ Len(m.calls) \in Nat /\ DOMAIN m.calls = 1..Len(m.calls)
        /\ \A i \in 1..Len(m.calls) : m.calls[i] \in Nat
        /\ n.reasoning \in Nat /\ n.text \in Nat /\ n.calls \in Seq(Nat) /\ last \in Nat /\ DOMAIN n.calls = 1..last
        /\ \A i \in 1..last : n.calls[i] \in Nat
    BY MessageFacts
  <1>3. a = Diff(n.reasoning - m.reasoning, 0, 0, FALSE, 0) /\ b = Diff(0, n.text - m.text, 0, FALSE, 0)
    OBVIOUS
  <1>4. ASSUME NEW i \in 1..last PROVE diff(i) = Diff(0, 0, i, i \notin DOMAIN m.calls, args(i)) /\ args(i) \in Int
    <2>1. args(i) \in Int
      BY <1>2, SMTT(20)
    <2> QED
      BY <2>1
  <1> HIDE DEF S, diff, args, a, b
  <1>6. a \in S /\ b \in S /\ ab \in Seq(S) /\ Len(ab) = 2 /\ ab[1] = a /\ ab[2] = b
    BY DEF S
  <1>7. c \in Seq(S) /\ Len(c) = last /\ \A i \in 1..last : c[i] = diff(i)
    <2>1. \A i \in 1..last : diff(i) \in S
      BY DEF S
    <2>2. c \in [1..last -> S]
      BY <2>1, <1>2
    <2> QED
      BY <1>2, <2>2, FunctionIsSeq
  <1> HIDE DEF c, ab
  <1>8. /\ all \in Seq(S) /\ Len(all) = 2 + last
        /\ all[1] = a /\ all[2] = b /\ \A i \in 1..last : all[2 + i] = diff(i)
    <2>1. /\ all \in Seq(S) /\ Len(all) = 2 + last
          /\ \A i \in 1..2 + last : all[i] = IF i <= 2 THEN ab[i] ELSE c[i - 2]
      <3>1. /\ all \in Seq(S) /\ Len(all) = Len(ab) + Len(c)
            /\ \A i \in 1..Len(ab) + Len(c) : all[i] = IF i <= Len(ab) THEN ab[i] ELSE c[i - Len(ab)]
        BY <1>6, <1>7, ConcatProperties
      <3> QED
        BY <3>1, <1>6, <1>7
    <2> HIDE DEF all
    <2>2. all[1] = a /\ all[2] = b
      <3>1. 1 \in 1..2 + last /\ 2 \in 1..2 + last
        BY <1>2
      <3>2. all[1] = ab[1] /\ all[2] = ab[2]
        BY <2>1, <3>1
      <3> QED
        BY <3>2, <1>6
    <2>3. ASSUME NEW i \in 1..last PROVE all[2 + i] = diff(i)
      <3>1. 2 + i \in 1..2 + last /\ ~ (2 + i <= 2) /\ 2 + i - 2 = i
        BY <1>2
      <3> QED
        BY <3>1, <2>1, <1>7
    <2> QED
      BY <2>1, <2>2, <2>3
  <1>9. \A i \in 1..Len(all) : all[i] \in D <=> ~ all[i].named /\ all[i].reasoning + all[i].text + all[i].args <= 0
    <2>1. \A i \in 1..Len(all) : all[i] \in ToSet(all)
      BY <1>8, LenProperties DEF ToSet
    <2> QED
      BY <2>1
  <1> HIDE DEF all, D
  <1>11. /\ all[1] \in D <=> n.reasoning <= m.reasoning
         /\ all[2] \in D <=> n.text <= m.text
    <2>1. 1 \in 1..Len(all) /\ 2 \in 1..Len(all)
      BY <1>2, <1>8
    <2>2. all[1] \in D <=> ~ FALSE /\ n.reasoning - m.reasoning + 0 + 0 <= 0
      BY <2>1, <1>3, <1>8, <1>9 DEF Diff
    <2>3. all[2] \in D <=> ~ FALSE /\ 0 + (n.text - m.text) + 0 <= 0
      BY <2>1, <1>3, <1>8, <1>9 DEF Diff
    <2> QED
      BY <2>2, <2>3, <1>2
  <1>12. ASSUME NEW i \in 1..last
         PROVE  all[2 + i] \in D <=> i <= Len(m.calls) /\ n.calls[i] <= m.calls[i]
    <2>1. 2 + i \in 1..Len(all)
      BY <1>2, <1>8
    <2>2. all[2 + i] \in D <=> ~ (i \notin DOMAIN m.calls) /\ 0 + 0 + args(i) <= 0
      <3>1. (all[2 + i].named <=> i \notin DOMAIN m.calls) /\ all[2 + i].reasoning = 0 /\ all[2 + i].text = 0 /\ all[2 + i].args = args(i)
        <4>1. all[2 + i] = [reasoning |-> 0, text |-> 0, call |-> i, named |-> i \notin DOMAIN m.calls, args |-> args(i)]
          BY <1>8 DEF Diff, diff
        <4> DEFINE new == i \notin DOMAIN m.calls
                   y == args(i)
        <4>2. ASSUME NEW d, d = [reasoning |-> 0, text |-> 0, call |-> i, named |-> new, args |-> y]
              PROVE  d.named = new /\ d.reasoning = 0 /\ d.text = 0 /\ d.args = y
          BY <4>2
        <4> QED
          BY <4>1, <4>2
      <3> QED
        BY <2>1, <3>1, <1>9
    <2>3. i \in DOMAIN m.calls <=> i <= Len(m.calls)
      BY <1>2
    <2>4. i \in DOMAIN m.calls => args(i) = n.calls[i] - m.calls[i]
      BY DEF args
    <2>5. i <= Len(m.calls) => m.calls[i] \in Nat /\ n.calls[i] \in Nat
      BY <1>2, <2>3
    <2> QED
      BY <2>2, <2>3, <2>4, <2>5, <1>4
  <1>13. \A j \in 1..Len(all) : j = 1 \/ j = 2 \/ \E i \in 1..last : j = 2 + i
    <2> SUFFICES ASSUME NEW j \in 1..Len(all), j > 2 PROVE \E i \in 1..last : j = 2 + i
      BY <1>2, <1>8
    <2>1. j - 2 \in 1..last /\ j = 2 + (j - 2)
      BY <1>2, <1>8
    <2> QED
      BY <2>1
  <1>14. CASE n = m
    <2>1. ASSUME NEW i \in 1..last PROVE all[2 + i] \in D
      <3>1. i <= Len(m.calls) /\ n.calls[i] <= m.calls[i]
        <4>1. n.calls[i] \in Nat /\ m.calls = n.calls /\ Len(m.calls) = last
          BY <1>2, <1>14
        <4> QED
          BY <4>1
      <3> QED
        BY <3>1, <1>12
    <2>2. \A j \in 1..Len(all) : all[j] \in D
      BY <2>1, <1>2, <1>11, <1>13, <1>14
    <2>3. Diffs(m, n) = <<>>
      BY <2>2, <1>1, <1>8, DropAll
    <2>4. ~ GrewReasoning(m, n) /\ ~ GrewText(m, n) /\ ~ GrewNew(m, n) /\ ~ GrewCall(m, n)
      BY <1>2, <1>14 DEF GrewReasoning, GrewText, GrewNew, GrewCall
    <2> QED
      BY <2>3, <2>4
  <1>15. CASE GrewReasoning(m, n)
    <2>1. n.reasoning = m.reasoning + 1 /\ n.text = m.text /\ n.calls = m.calls
      BY <1>15 DEF GrewReasoning
    <2>2. all[1] \notin D /\ all[2] \in D /\ 1 \in 1..Len(all) /\ n.reasoning - m.reasoning = 1
      BY <2>1, <1>2, <1>8, <1>11
    <2>3. ASSUME NEW i \in 1..last PROVE all[2 + i] \in D
      <3>1. i <= Len(m.calls) /\ n.calls[i] = m.calls[i] /\ n.calls[i] \in Nat
        BY <2>1, <1>2
      <3> QED
        BY <3>1, <1>12
    <2>4. \A j \in 1..Len(all) : j # 1 => all[j] \in D
      BY <2>2, <2>3, <1>13
    <2>5. Diffs(m, n) = <<all[1]>>
      BY <2>2, <2>4, <1>1, <1>8, DropButOne
    <2>6. Diffs(m, n) = <<Diff(1, 0, 0, FALSE, 0)>>
      BY <2>2, <2>5, <1>3, <1>8
    <2>7. n # m /\ ~ GrewText(m, n) /\ ~ GrewNew(m, n) /\ ~ GrewCall(m, n)
      BY <2>1, <1>2 DEF GrewText, GrewNew, GrewCall
    <2> QED
      BY <2>6, <2>7
  <1>16. CASE GrewText(m, n)
    <2>1. n.reasoning = m.reasoning /\ n.text = m.text + 1 /\ n.calls = m.calls
      BY <1>16 DEF GrewText
    <2>2. all[1] \in D /\ all[2] \notin D /\ 2 \in 1..Len(all) /\ n.text - m.text = 1
      BY <2>1, <1>2, <1>8, <1>11
    <2>3. ASSUME NEW i \in 1..last PROVE all[2 + i] \in D
      <3>1. i <= Len(m.calls) /\ n.calls[i] = m.calls[i] /\ n.calls[i] \in Nat
        BY <2>1, <1>2
      <3> QED
        BY <3>1, <1>12
    <2>4. \A j \in 1..Len(all) : j # 2 => all[j] \in D
      BY <2>2, <2>3, <1>13
    <2>5. Diffs(m, n) = <<all[2]>>
      BY <2>2, <2>4, <1>1, <1>8, DropButOne
    <2>6. Diffs(m, n) = <<Diff(0, 1, 0, FALSE, 0)>>
      BY <2>2, <2>5, <1>3, <1>8
    <2>7. n # m /\ ~ GrewReasoning(m, n) /\ ~ GrewNew(m, n) /\ ~ GrewCall(m, n)
      BY <2>1, <1>2 DEF GrewReasoning, GrewNew, GrewCall
    <2> QED
      BY <2>6, <2>7
  <1>17. CASE GrewNew(m, n)
    <2>1. /\ n.reasoning = m.reasoning /\ n.text = m.text /\ last = Len(m.calls) + 1
          /\ \A i \in 1..Len(m.calls) : n.calls[i] = m.calls[i]
      BY <1>17 DEF GrewNew
    <2>2. all[1] \in D /\ all[2] \in D /\ last \in 1..last /\ 2 + last \in 1..Len(all)
      BY <2>1, <1>2, <1>8, <1>11
    <2>3. ASSUME NEW i \in 1..last, i # last PROVE all[2 + i] \in D
      <3>1. i \in 1..Len(m.calls)
        BY <2>1, <2>3, <1>2
      <3>2. n.calls[i] = m.calls[i] /\ m.calls[i] \in Nat
        BY <3>1, <2>1, <1>2
      <3> QED
        BY <3>1, <3>2, <1>12
    <2>4. all[2 + last] \notin D /\ last \notin DOMAIN m.calls
      <3>1. ~ (last <= Len(m.calls))
        BY <2>1, <1>2
      <3> QED
        BY <3>1, <2>2, <1>2, <1>12, SMTT(20)
    <2>5. \A j \in 1..Len(all) : j # 2 + last => all[j] \in D
      BY <2>2, <2>3, <1>13
    <2>6. Diffs(m, n) = <<all[2 + last]>>
      BY <2>2, <2>4, <2>5, <1>1, <1>8, DropButOne
    <2>7. args(last) = n.calls[last]
      BY <2>4 DEF args
    <2>8. all[2 + last] = Diff(0, 0, last, TRUE, n.calls[last])
      <3>1. all[2 + last] = Diff(0, 0, last, last \notin DOMAIN m.calls, args(last))
        BY <2>2, <1>4, <1>8
      <3>2. (last \notin DOMAIN m.calls) = TRUE
        BY <2>4
      <3> QED
        BY <3>1, <3>2, <2>7
    <2>9. n # m /\ ~ GrewReasoning(m, n) /\ ~ GrewText(m, n) /\ ~ GrewCall(m, n)
      BY <2>1, <1>2 DEF GrewReasoning, GrewText, GrewCall
    <2> QED
      BY <2>6, <2>8, <2>9
  <1>18. CASE GrewCall(m, n)
    <2>1. /\ n.reasoning = m.reasoning /\ n.text = m.text /\ last = Len(m.calls) /\ last > 0
          /\ \A i \in 1..last - 1 : n.calls[i] = m.calls[i]
          /\ n.calls[last] = m.calls[last] + 1
      BY <1>18 DEF GrewCall
    <2>2. all[1] \in D /\ all[2] \in D /\ last \in 1..last /\ 2 + last \in 1..Len(all)
      BY <2>1, <1>2, <1>8, <1>11, SMTT(20)
    <2>3. ASSUME NEW i \in 1..last, i # last PROVE all[2 + i] \in D
      <3>1. i \in 1..last - 1 /\ i \in 1..Len(m.calls)
        BY <2>1, <2>3, <1>2
      <3>2. n.calls[i] = m.calls[i] /\ m.calls[i] \in Nat
        BY <3>1, <2>1, <1>2
      <3> QED
        BY <3>1, <3>2, <1>12
    <2>4. all[2 + last] \notin D /\ last \in DOMAIN m.calls /\ m.calls[last] \in Nat
      <3>1. last \in DOMAIN m.calls /\ m.calls[last] \in Nat /\ last \in 1..last
        BY <2>1, <2>2, <1>2
      <3>2. ~ (n.calls[last] <= m.calls[last])
        BY <2>1, <3>1
      <3> QED
        BY <3>1, <3>2, <1>12
    <2>5. \A j \in 1..Len(all) : j # 2 + last => all[j] \in D
      BY <2>2, <2>3, <1>13
    <2>6. Diffs(m, n) = <<all[2 + last]>>
      BY <2>2, <2>4, <2>5, <1>1, <1>8, DropButOne
    <2>7. args(last) = 1
      BY <2>1, <2>4 DEF args
    <2>8. all[2 + last] = Diff(0, 0, last, FALSE, 1)
      <3>1. all[2 + last] = Diff(0, 0, last, last \notin DOMAIN m.calls, args(last))
        BY <2>2, <1>4, <1>8
      <3>2. (last \notin DOMAIN m.calls) = FALSE
        BY <2>4
      <3> QED
        BY <3>1, <3>2, <2>7
    <2>9. n # m /\ ~ GrewReasoning(m, n) /\ ~ GrewText(m, n) /\ ~ GrewNew(m, n)
      BY <2>1, <2>4, <1>2, SMTT(20) DEF GrewReasoning, GrewText, GrewNew
    <2> QED
      BY <2>6, <2>8, <2>9
  <1> QED
    BY <1>14, <1>15, <1>16, <1>17, <1>18

RsAts == {Whole, Reasoning, Text} \cup {Call(i) : i \in Nat}
RsEvents(T, N) == [task : T, event : N, at : RsAts, n : Nat, index : Nat]

\* The fields of a diff and of an event.
LEMMA FieldFacts ==
    /\ \A a, b, c, d, e : LET f == Diff(a, b, c, d, e)
                          IN  f.reasoning = a /\ f.text = b /\ f.call = c /\ f.named = d /\ f.args = e
    /\ \A a, b, c, d, e : LET f == Event(a, b, c, d, e)
                          IN  f.task = a /\ f.event = b /\ f.at = c /\ f.n = d /\ f.index = e
  <1>1. ASSUME NEW a, NEW b, NEW c, NEW d, NEW e
        PROVE  LET f == Diff(a, b, c, d, e)
               IN  f.reasoning = a /\ f.text = b /\ f.call = c /\ f.named = d /\ f.args = e
    BY DEF Diff
  <1>2. ASSUME NEW a, NEW b, NEW c, NEW d, NEW e
        PROVE  LET f == Event(a, b, c, d, e)
               IN  f.task = a /\ f.event = b /\ f.at = c /\ f.n = d /\ f.index = e
    BY DEF Event
  <1> QED
    BY <1>1, <1>2

\* The parts of a message differ.
LEMMA PartsDiffer ==
    /\ Whole # Reasoning /\ Whole # Text /\ Reasoning # Text
    /\ \A i \in Nat : Call(i) \notin {Whole, Reasoning, Text} /\ Call(i)[2] = i
    /\ \A i, j \in Nat : Call(i) = Call(j) => i = j
  <1>1. Whole[1] = "message" /\ Reasoning[1] = "reasoning" /\ Text[1] = "text" /\ \A i \in Nat : Call(i)[1] = "call" /\ Call(i)[2] = i
    BY DEF Whole, Reasoning, Text, Call
  <1> QED
    BY <1>1

(* The diffs that there are.                                               *)
NewReasoning   == Diff(1, 0, 0, FALSE, 0)
NewText        == Diff(0, 1, 0, FALSE, 0)
NewCall(i, k)  == Diff(0, 0, i, TRUE, k)
NewArgument(i) == Diff(0, 0, i, FALSE, 1)

\* Their fields.
LEMMA NewFacts ==
    /\ NewReasoning.reasoning = 1 /\ NewReasoning.text = 0 /\ NewReasoning.call = 0 /\ NewReasoning.args = 0 /\ ~ NewReasoning.named
    /\ NewText.reasoning = 0 /\ NewText.text = 1 /\ NewText.call = 0 /\ NewText.args = 0 /\ ~ NewText.named
    /\ \A i, k : NewCall(i, k).reasoning = 0 /\ NewCall(i, k).text = 0 /\ NewCall(i, k).call = i /\ NewCall(i, k).args = k /\ NewCall(i, k).named
    /\ \A i : NewArgument(i).reasoning = 0 /\ NewArgument(i).text = 0 /\ NewArgument(i).call = i /\ NewArgument(i).args = 1 /\ ~ NewArgument(i).named
  BY DEF NewReasoning, NewText, NewCall, NewArgument, Diff

(* The diff d that a token makes of m, the part that grows and how much.   *)
Change(m, n, d, at, k) ==
    LET last == Len(n.calls)
    IN  \/ GrewReasoning(m, n) /\ d = NewReasoning /\ at = Reasoning /\ k = 1
        \/ GrewText(m, n) /\ d = NewText /\ at = Text /\ k = 1
        \/ GrewNew(m, n) /\ d = NewCall(last, k) /\ at = Call(last) /\ k = n.calls[last]
        \/ GrewCall(m, n) /\ d = NewArgument(last) /\ at = Call(last) /\ k = 1

\* A token makes no diff or one.
LEMMA ChangeFacts ==
    ASSUME NEW m \in Messages, NEW n \in Grown(m)
    PROVE  /\ n \in Messages
           /\ \/ n = m /\ Diffs(m, n) = <<>>
              \/ \E d, at, k : Change(m, n, d, at, k) /\ Diffs(m, n) = <<d>> /\ at \in RsAts /\ k \in Nat
  <1> DEFINE last == Len(n.calls)
  <1>1. n \in Messages
    BY GrownCases
  <1>2. last \in Nat /\ \A i \in 1..last : n.calls[i] \in Nat
    BY <1>1, MessageFacts
  <1>3. Len(m.calls) \in Nat
    BY MessageFacts
  <1>4. Reasoning \in RsAts /\ Text \in RsAts /\ Call(last) \in RsAts
    BY <1>2 DEF RsAts
  <1>5. /\ n = m => Diffs(m, n) = <<>>
        /\ GrewReasoning(m, n) => Diffs(m, n) = <<NewReasoning>>
        /\ GrewText(m, n) => Diffs(m, n) = <<NewText>>
        /\ GrewNew(m, n) => Diffs(m, n) = <<NewCall(last, n.calls[last])>>
        /\ GrewCall(m, n) => Diffs(m, n) = <<NewArgument(last)>>
    BY <1>1, DiffsFacts DEF NewReasoning, NewText, NewCall, NewArgument
  <1>6. GrewNew(m, n) => n.calls[last] \in Nat
    <2>1. GrewNew(m, n) => last \in 1..last
      BY <1>2, <1>3 DEF GrewNew
    <2> QED
      BY <2>1, <1>2
  <1>7. n = m \/ GrewReasoning(m, n) \/ GrewText(m, n) \/ GrewNew(m, n) \/ GrewCall(m, n)
    BY GrownCases
  <1>8. 1 \in Nat
    OBVIOUS
  <1> HIDE DEF last
  <1> QED
    BY <1>1, <1>4, <1>5, <1>6, <1>7, <1>8 DEF Change, last

(* The event that opens a part, two for the text of a response, and the    *)
(* one that fills it.                                                      *)
Opening(t, at, index) ==
    IF Format = "resp" /\ at = Text THEN <<Event(t, "opened", at, 0, index), Event(t, "part", at, 0, index)>>
    ELSE <<Event(t, "opened", at, 0, index)>>
Filling(t, at, index, k) == IF k > 0 THEN <<Event(t, "delta", at, k, index)>> ELSE <<>>

Fills(t, at, index, k, body) == body = Filling(t, at, index, k)
OpensAndFills(t, at, index, k, body) == body = Opening(t, at, index) \o Filling(t, at, index, k)

\* The four kinds of diffs exclude each other.
LEMMA ChangeKinds ==
    ASSUME NEW m \in Messages, NEW n \in Messages
    PROVE  /\ GrewReasoning(m, n) => ~ GrewText(m, n) /\ ~ GrewNew(m, n) /\ ~ GrewCall(m, n)
           /\ GrewText(m, n) => ~ GrewNew(m, n) /\ ~ GrewCall(m, n)
           /\ GrewNew(m, n) => ~ GrewCall(m, n)
           /\ GrewReasoning(m, n) \/ GrewText(m, n) \/ GrewNew(m, n) \/ GrewCall(m, n) => n # m
  <1>1. /\ m.reasoning \in Nat /\ m.text \in Nat /\ Len(m.calls) \in Nat
        /\ n.reasoning \in Nat /\ n.text \in Nat /\ Len(n.calls) \in Nat
        /\ DOMAIN m.calls = 1..Len(m.calls) /\ \A i \in 1..Len(m.calls) : m.calls[i] \in Nat
    BY MessageFacts
  <1>2. GrewCall(m, n) => n # m
    <2> SUFFICES ASSUME GrewCall(m, n), n = m PROVE FALSE
      OBVIOUS
    <2>1. Len(m.calls) \in 1..Len(m.calls) /\ m.calls[Len(m.calls)] = m.calls[Len(m.calls)] + 1
      BY <1>1 DEF GrewCall
    <2> QED
      BY <2>1, <1>1
  <1>3. GrewReasoning(m, n) \/ GrewText(m, n) \/ GrewNew(m, n) => n # m
    BY <1>1 DEF GrewReasoning, GrewText, GrewNew
  <1>4. GrewReasoning(m, n) => ~ GrewText(m, n) /\ ~ GrewNew(m, n) /\ ~ GrewCall(m, n)
    BY <1>1 DEF GrewReasoning, GrewText, GrewNew, GrewCall
  <1>5. GrewText(m, n) => ~ GrewNew(m, n) /\ ~ GrewCall(m, n)
    BY <1>1 DEF GrewText, GrewNew, GrewCall
  <1>6. GrewNew(m, n) => ~ GrewCall(m, n)
    BY <1>1 DEF GrewNew, GrewCall
  <1> QED
    BY <1>2, <1>3, <1>4, <1>5, <1>6

\* A diff of a chat completion.
LEMMA ChatBody ==
    ASSUME NEW m \in Messages, NEW n \in Messages, NEW t,
           NEW d, NEW at, NEW k \in Nat, Change(m, n, d, at, k), Format = "chat"
    PROVE  /\ GrewNew(m, n) => ChatDelta(t, d) = Opening(t, at, 0) \o Filling(t, at, 0, k)
           /\ ~ GrewNew(m, n) => ChatDelta(t, d) = Filling(t, at, 0, k)
  <1> DEFINE last == Len(n.calls)
  <1>1. Opening(t, at, 0) = <<Event(t, "opened", at, 0, 0)>>
    BY DEF Opening
  <1> DEFINE p1 == If(d.reasoning > 0, <<Delta(t, Reasoning, d.reasoning)>>)
             p2 == If(d.text > 0, <<Delta(t, Text, d.text)>>)
             p3 == If(d.named, <<Item(t, "opened", Call(d.call))>>)
             p4 == If(d.args > 0, <<Delta(t, Call(d.call), d.args)>>)
  <1>2. ChatDelta(t, d) = ((p1 \o p2) \o p3) \o p4
    BY DEF ChatDelta
  <1>3. /\ d.reasoning = 1 => p1 = <<Event(t, "delta", Reasoning, 1, 0)>>
        /\ d.reasoning = 0 => p1 = <<>>
    BY DEF If, Delta
  <1>4. /\ d.text = 1 => p2 = <<Event(t, "delta", Text, 1, 0)>>
        /\ d.text = 0 => p2 = <<>>
    BY DEF If, Delta
  <1>5. /\ d.named => p3 = <<Event(t, "opened", Call(d.call), 0, 0)>>
        /\ ~ d.named => p3 = <<>>
    BY DEF If, Item
  <1>6. p4 = Filling(t, Call(d.call), 0, d.args)
    BY DEF If, Delta, Filling
  <1> HIDE DEF p1, p2, p3, p4
  <1>7. /\ Filling(t, at, 0, 1) = <<Event(t, "delta", at, 1, 0)>>
        /\ \A x : Filling(t, x, 0, 0) = <<>>
    BY DEF Filling
  <1>8. ASSUME d = NewReasoning, at = Reasoning, k = 1 PROVE ChatDelta(t, d) = Filling(t, at, 0, k)
    <2>1. p1 = Filling(t, at, 0, k) /\ p2 = <<>> /\ p3 = <<>> /\ p4 = <<>>
      BY <1>3, <1>4, <1>5, <1>6, <1>7, <1>8, NewFacts
    <2> QED
      BY <2>1, <1>2, <1>7, <1>8, Nil
  <1>9. ASSUME d = NewText, at = Text, k = 1 PROVE ChatDelta(t, d) = Filling(t, at, 0, k)
    <2>1. p1 = <<>> /\ p2 = Filling(t, at, 0, k) /\ p3 = <<>> /\ p4 = <<>>
      BY <1>3, <1>4, <1>5, <1>6, <1>7, <1>9, NewFacts
    <2> QED
      BY <2>1, <1>2, <1>7, <1>9, Nil
  <1>10. ASSUME NEW i, d = NewCall(i, k), at = Call(i) PROVE ChatDelta(t, d) = Opening(t, at, 0) \o Filling(t, at, 0, k)
    <2>1. p1 = <<>> /\ p2 = <<>> /\ p3 = Opening(t, at, 0) /\ p4 = Filling(t, at, 0, k)
      BY <1>1, <1>3, <1>4, <1>5, <1>6, <1>10, NewFacts
    <2> QED
      BY <2>1, <1>1, <1>2, Nil
  <1>11. ASSUME NEW i, d = NewArgument(i), at = Call(i), k = 1 PROVE ChatDelta(t, d) = Filling(t, at, 0, k)
    <2>1. p1 = <<>> /\ p2 = <<>> /\ p3 = <<>> /\ p4 = Filling(t, at, 0, k)
      BY <1>3, <1>4, <1>5, <1>6, <1>11, NewFacts
    <2> QED
      BY <2>1, <1>2, <1>7, <1>11, Nil
  <1> QED
    BY <1>8, <1>9, <1>10, <1>11, ChangeKinds DEF Change

(* Which diffs of a response open the part that they fill.                 *)
Opens(m, n, thinking, shown) ==
    (GrewReasoning(m, n) /\ ~ thinking) \/ (GrewText(m, n) /\ ~ shown) \/ GrewNew(m, n)

\* A diff of a response.
LEMMA RespBody ==
    ASSUME NEW m \in Messages, NEW n \in Messages, NEW t, NEW st,
           NEW d, NEW at, NEW k \in Nat, Change(m, n, d, at, k), Format = "resp"
    PROVE  /\ Opens(m, n, st.thinking, st.text) => RespDelta(t, st, d) = Opening(t, at, 0) \o Filling(t, at, 0, k)
           /\ ~ Opens(m, n, st.thinking, st.text) => RespDelta(t, st, d) = Filling(t, at, 0, k)
  <1> DEFINE last == Len(n.calls)
             q1 == If(~ st.thinking, <<Item(t, "opened", Reasoning)>>)
             q2 == If(~ st.text, <<Item(t, "opened", Text), Item(t, "part", Text)>>)
             p1 == If(d.reasoning > 0, q1 \o <<Delta(t, Reasoning, d.reasoning)>>)
             p2 == If(d.text > 0, q2 \o <<Delta(t, Text, d.text)>>)
             p3 == If(d.named, <<Item(t, "opened", Call(d.call))>>)
             p4 == If(d.args > 0, <<Delta(t, Call(d.call), d.args)>>)
  <1>1. /\ Opening(t, Reasoning, 0) = <<Event(t, "opened", Reasoning, 0, 0)>>
        /\ Opening(t, Text, 0) = <<Event(t, "opened", Text, 0, 0), Event(t, "part", Text, 0, 0)>>
        /\ Opening(t, Call(last), 0) = <<Event(t, "opened", Call(last), 0, 0)>>
    <2>1. last \in Nat
      BY MessageFacts
    <2> QED
      BY <2>1, PartsDiffer DEF Opening
  <1>2. RespDelta(t, st, d) = ((p1 \o p2) \o p3) \o p4
    BY DEF RespDelta
  <1>3. /\ st.thinking => q1 = <<>>
        /\ ~ st.thinking => q1 = Opening(t, Reasoning, 0)
        /\ st.text => q2 = <<>>
        /\ ~ st.text => q2 = Opening(t, Text, 0)
    BY <1>1 DEF If, Item
  <1> HIDE DEF q1, q2
  <1>4. /\ d.reasoning = 1 => p1 = q1 \o <<Event(t, "delta", Reasoning, 1, 0)>>
        /\ d.reasoning = 0 => p1 = <<>>
    BY DEF If, Delta
  <1>5. /\ d.text = 1 => p2 = q2 \o <<Event(t, "delta", Text, 1, 0)>>
        /\ d.text = 0 => p2 = <<>>
    BY DEF If, Delta
  <1>6. /\ d.named => p3 = <<Event(t, "opened", Call(d.call), 0, 0)>>
        /\ ~ d.named => p3 = <<>>
    BY DEF If, Item
  <1>7. p4 = Filling(t, Call(d.call), 0, d.args)
    BY DEF If, Delta, Filling
  <1> HIDE DEF p1, p2, p3, p4
  <1>8. /\ \A x : Filling(t, x, 0, 1) = <<Event(t, "delta", x, 1, 0)>>
        /\ \A x : Filling(t, x, 0, 0) = <<>>
    BY DEF Filling
  <1>9. /\ Opening(t, Reasoning, 0) \o Filling(t, Reasoning, 0, 1) \in Seq({Event(t, "opened", Reasoning, 0, 0), Event(t, "delta", Reasoning, 1, 0)})
        /\ Opening(t, Text, 0) \o Filling(t, Text, 0, 1) \in
             Seq({Event(t, "opened", Text, 0, 0), Event(t, "part", Text, 0, 0), Event(t, "delta", Text, 1, 0)})
    <2> DEFINE e1 == Event(t, "opened", Reasoning, 0, 0)
               e2 == Event(t, "delta", Reasoning, 1, 0)
               f1 == Event(t, "opened", Text, 0, 0)
               f2 == Event(t, "part", Text, 0, 0)
               f3 == Event(t, "delta", Text, 1, 0)
    <2>1. <<e1>> \in Seq({e1, e2}) /\ <<e2>> \in Seq({e1, e2}) /\ <<f1, f2>> \in Seq({f1, f2, f3}) /\ <<f3>> \in Seq({f1, f2, f3})
      OBVIOUS
    <2>2. <<e1>> \o <<e2>> \in Seq({e1, e2}) /\ <<f1, f2>> \o <<f3>> \in Seq({f1, f2, f3})
      BY <2>1, ConcatProperties
    <2> QED
      BY <2>2, <1>1, <1>8
  <1>10. ASSUME GrewReasoning(m, n), d = NewReasoning, at = Reasoning, k = 1
         PROVE  /\ ~ st.thinking => RespDelta(t, st, d) = Opening(t, at, 0) \o Filling(t, at, 0, k)
                /\ st.thinking => RespDelta(t, st, d) = Filling(t, at, 0, k)
    <2>1. p1 = q1 \o Filling(t, at, 0, k) /\ p2 = <<>> /\ p3 = <<>> /\ p4 = <<>>
      BY <1>4, <1>5, <1>6, <1>7, <1>8, <1>10, NewFacts
    <2>2. ASSUME ~ st.thinking PROVE RespDelta(t, st, d) = Opening(t, at, 0) \o Filling(t, at, 0, k)
      BY <2>1, <2>2, <1>2, <1>3, <1>9, <1>10, ConcatEmptySeq
    <2>3. ASSUME st.thinking PROVE RespDelta(t, st, d) = Filling(t, at, 0, k)
      BY <2>1, <2>3, <1>2, <1>3, <1>8, <1>10, Nil
    <2> QED
      BY <2>2, <2>3
  <1>11. ASSUME GrewText(m, n), d = NewText, at = Text, k = 1
         PROVE  /\ ~ st.text => RespDelta(t, st, d) = Opening(t, at, 0) \o Filling(t, at, 0, k)
                /\ st.text => RespDelta(t, st, d) = Filling(t, at, 0, k)
    <2>1. p1 = <<>> /\ p2 = q2 \o Filling(t, at, 0, k) /\ p3 = <<>> /\ p4 = <<>>
      BY <1>4, <1>5, <1>6, <1>7, <1>8, <1>11, NewFacts
    <2>2. ASSUME ~ st.text PROVE RespDelta(t, st, d) = Opening(t, at, 0) \o Filling(t, at, 0, k)
      BY <2>1, <2>2, <1>2, <1>3, <1>9, <1>11, ConcatEmptySeq
    <2>3. ASSUME st.text PROVE RespDelta(t, st, d) = Filling(t, at, 0, k)
      BY <2>1, <2>3, <1>2, <1>3, <1>8, <1>11, Nil
    <2> QED
      BY <2>2, <2>3
  <1>12. ASSUME d = NewCall(last, k), at = Call(last)
         PROVE  RespDelta(t, st, d) = Opening(t, at, 0) \o Filling(t, at, 0, k)
    <2>1. p1 = <<>> /\ p2 = <<>> /\ p3 = Opening(t, at, 0) /\ p4 = Filling(t, at, 0, k)
      BY <1>1, <1>4, <1>5, <1>6, <1>7, <1>12, NewFacts
    <2> QED
      BY <2>1, <1>1, <1>2, <1>12, Nil
  <1>13. ASSUME d = NewArgument(last), at = Call(last), k = 1 PROVE RespDelta(t, st, d) = Filling(t, at, 0, k)
    <2>1. p1 = <<>> /\ p2 = <<>> /\ p3 = <<>> /\ p4 = Filling(t, at, 0, k)
      BY <1>4, <1>5, <1>6, <1>7, <1>13, NewFacts
    <2> QED
      BY <2>1, <1>2, <1>8, <1>13, Nil
  <1> QED
    BY <1>10, <1>11, <1>12, <1>13, ChangeKinds DEF Change, Opens

(* The number of the block of a part.                                      *)
Place(m, withText, at) ==
    CASE at = Reasoning -> 0 [] at = Text -> TextIndex(m) [] OTHER -> CallIndex(m, withText, at[2])

\* A diff of an Anthropic message.
LEMMA AnthropicBody ==
    ASSUME NEW m \in Messages, NEW n \in Messages, NEW t,
           NEW thinking \in BOOLEAN, NEW shown \in BOOLEAN, NEW withText \in BOOLEAN, NEW always \in BOOLEAN,
           NEW d, NEW at, NEW k \in Nat, Change(m, n, d, at, k), Format = "anthropic"
    PROVE  LET place == Place(n, withText, at)
               body == AnthropicDelta(t, n, thinking, shown, withText, always, d)
           IN  /\ Opens(m, n, thinking, shown) \/ (always /\ GrewCall(m, n)) => OpensAndFills(t, at, place, k, body)
               /\ ~ (Opens(m, n, thinking, shown) \/ (always /\ GrewCall(m, n))) => Fills(t, at, place, k, body)
  <1> DEFINE last == Len(n.calls)
             place(a) == Place(n, withText, a)
             block(name, a, i) == Event(t, name, a, i, place(a))
             q1 == If(~ thinking, <<block("opened", Reasoning, 0)>>)
             q2 == If(~ shown, <<block("opened", Text, 0)>>)
             q3 == If(d.named \/ always, <<block("opened", Call(d.call), 0)>>)
             q4 == If(d.args > 0, <<block("delta", Call(d.call), d.args)>>)
             p1 == If(d.reasoning > 0, q1 \o <<block("delta", Reasoning, d.reasoning)>>)
             p2 == If(d.text > 0, q2 \o <<block("delta", Text, d.text)>>)
             p3 == If(d.call > 0, q3 \o q4)
             body == AnthropicDelta(t, n, thinking, shown, withText, always, d)
             open(a) == Opening(t, a, place(a))
             fill(a, i) == Filling(t, a, place(a), i)
  <1>2. body = (p1 \o p2) \o p3
    BY DEF AnthropicDelta, Place
  <1> HIDE DEF place
  <1>1. \A a : open(a) = <<Event(t, "opened", a, 0, place(a))>>
    BY DEF Opening
  <1>3. /\ thinking => q1 = <<>>
        /\ ~ thinking => q1 = open(Reasoning)
        /\ shown => q2 = <<>>
        /\ ~ shown => q2 = open(Text)
        /\ d.named \/ always => q3 = open(Call(d.call))
        /\ ~ (d.named \/ always) => q3 = <<>>
        /\ q4 = fill(Call(d.call), d.args)
    BY <1>1 DEF If, Filling
  <1> HIDE DEF q1, q2, q3, q4
  <1>4. /\ \A x : fill(x, 1) = <<Event(t, "delta", x, 1, place(x))>>
        /\ \A x : fill(x, 0) = <<>>
    BY DEF Filling
  <1>5. /\ d.reasoning = 1 => p1 = q1 \o fill(Reasoning, 1)
        /\ d.reasoning = 0 => p1 = <<>>
    <2>1. p1 = IF d.reasoning > 0 THEN q1 \o <<Event(t, "delta", Reasoning, d.reasoning, place(Reasoning))>> ELSE <<>>
      BY DEF If
    <2>2. fill(Reasoning, 1) = <<Event(t, "delta", Reasoning, 1, place(Reasoning))>>
      BY <1>4
    <2>3. d.reasoning = 1 => d.reasoning > 0
      OBVIOUS
    <2>4. d.reasoning = 0 => ~ (d.reasoning > 0)
      OBVIOUS
    <2> HIDE DEF p1, fill
    <2> QED
      BY <2>1, <2>2, <2>3, <2>4
  <1>6. /\ d.text = 1 => p2 = q2 \o fill(Text, 1)
        /\ d.text = 0 => p2 = <<>>
    <2>1. p2 = IF d.text > 0 THEN q2 \o <<Event(t, "delta", Text, d.text, place(Text))>> ELSE <<>>
      BY DEF If
    <2>2. fill(Text, 1) = <<Event(t, "delta", Text, 1, place(Text))>>
      BY <1>4
    <2>3. d.text = 1 => d.text > 0
      OBVIOUS
    <2>4. d.text = 0 => ~ (d.text > 0)
      OBVIOUS
    <2> HIDE DEF p2, fill
    <2> QED
      BY <2>1, <2>2, <2>3, <2>4
  <1>7. /\ d.call > 0 => p3 = q3 \o q4
        /\ d.call = 0 => p3 = <<>>
    BY DEF If
  <1>8. \A a, i : open(a) \o fill(a, i) = IF i > 0 THEN <<Event(t, "opened", a, 0, place(a)), Event(t, "delta", a, i, place(a))>>
                                         ELSE <<Event(t, "opened", a, 0, place(a))>>
    BY <1>1, Nil DEF Filling
  <1>9. ASSUME NEW a, NEW i PROVE <<>> \o (open(a) \o fill(a, i)) = open(a) \o fill(a, i) /\ (open(a) \o fill(a, i)) \o <<>> = open(a) \o fill(a, i)
    BY <1>8, Nil
  <1>10. ASSUME NEW a, NEW i PROVE <<>> \o fill(a, i) = fill(a, i) /\ fill(a, i) \o <<>> = fill(a, i)
    BY Nil DEF Filling
  <1> HIDE DEF p1, p2, p3, body, open, fill
  <1>11. ASSUME d = NewReasoning, at = Reasoning, k = 1
         PROVE  /\ ~ thinking => body = open(at) \o fill(at, k)
                /\ thinking => body = fill(at, k)
    <2>1. p1 = q1 \o fill(at, k) /\ p2 = <<>> /\ p3 = <<>>
      BY <1>5, <1>6, <1>7, <1>11, NewFacts
    <2>2. body = q1 \o fill(at, k)
      <3>1. q1 \o fill(at, k) = open(at) \o fill(at, k) \/ q1 \o fill(at, k) = fill(at, k)
        BY <1>3, <1>10, <1>11
      <3>2. (q1 \o fill(at, k)) \o <<>> = q1 \o fill(at, k)
        BY <3>1, <1>9, <1>10
      <3> QED
        BY <2>1, <3>2, <1>2
    <2> QED
      BY <2>2, <1>3, <1>10, <1>11
  <1>12. ASSUME d = NewText, at = Text, k = 1
         PROVE  /\ ~ shown => body = open(at) \o fill(at, k)
                /\ shown => body = fill(at, k)
    <2>1. p1 = <<>> /\ p2 = q2 \o fill(at, k) /\ p3 = <<>>
      BY <1>5, <1>6, <1>7, <1>12, NewFacts
    <2>2. body = q2 \o fill(at, k)
      <3>1. q2 \o fill(at, k) = open(at) \o fill(at, k) \/ q2 \o fill(at, k) = fill(at, k)
        BY <1>3, <1>10, <1>12
      <3>2. (<<>> \o (q2 \o fill(at, k))) \o <<>> = q2 \o fill(at, k)
        BY <3>1, <1>9, <1>10
      <3> QED
        BY <2>1, <3>2, <1>2
    <2> QED
      BY <2>2, <1>3, <1>10, <1>12
  <1>13. ASSUME d = NewCall(last, k), at = Call(last), last > 0
         PROVE  body = open(at) \o fill(at, k)
    <2>1. d.reasoning = 0 /\ d.text = 0 /\ d.call = last /\ d.args = k /\ d.named
      BY <1>13, NewFacts
    <2>2. p1 = <<>> /\ p2 = <<>> /\ p3 = q3 \o q4
      BY <2>1, <1>5, <1>6, <1>7, <1>13
    <2>3. q3 = open(at) /\ q4 = fill(at, k)
      BY <2>1, <1>3, <1>13
    <2> QED
      BY <2>2, <2>3, <1>2, <1>9, Nil
  <1>14. ASSUME d = NewArgument(last), at = Call(last), k = 1, last > 0
         PROVE  /\ always => body = open(at) \o fill(at, k)
                /\ ~ always => body = fill(at, k)
    <2>1. p1 = <<>> /\ p2 = <<>> /\ p3 = q3 \o fill(at, k) /\ ~ d.named /\ d.call = last
      BY <1>3, <1>5, <1>6, <1>7, <1>14, NewFacts
    <2>2. /\ always => q3 = open(at)
          /\ ~ always => q3 = <<>>
      BY <2>1, <1>3, <1>14
    <2>3. body = q3 \o fill(at, k)
      <3>1. q3 \o fill(at, k) = open(at) \o fill(at, k) \/ q3 \o fill(at, k) = fill(at, k)
        BY <2>2, <1>10
      <3>2. (<<>> \o <<>>) \o (q3 \o fill(at, k)) = q3 \o fill(at, k)
        BY <3>1, <1>9, <1>10, Nil
      <3> QED
        BY <2>1, <3>2, <1>2
    <2> QED
      BY <2>2, <2>3, <1>10
  <1>15. GrewNew(m, n) \/ GrewCall(m, n) => last > 0
    <2>1. Len(m.calls) \in Nat
      BY MessageFacts
    <2> QED
      BY <2>1 DEF GrewNew, GrewCall
  <1> QED
    BY <1>11, <1>12, <1>13, <1>14, <1>15, ChangeKinds DEF Change, Opens, body, open, fill, place, Fills, OpensAndFills

\* Parts and final results with no diff or one.
LEMMA ChatLists ==
    ASSUME NEW d, NEW t, NEW first \in BOOLEAN
    PROVE  LET head == If(first, <<About(t, "begin")>>)
               end  == If(Usage, <<About(t, "usage")>>)
           IN  /\ ChatPart(t, first, <<>>) = head \o <<>>
               /\ ChatPart(t, first, <<d>>) = head \o ChatDelta(t, d)
               /\ ChatFinal(t, <<>>) = (<<>> \o <<About(t, "finish")>>) \o end
               /\ ChatFinal(t, <<d>>) = (ChatDelta(t, d) \o <<About(t, "finish")>>) \o end
  <1>1. /\ [i \in DOMAIN <<>> |-> ChatDelta(t, <<>>[i])] = <<>>
        /\ [i \in DOMAIN <<d>> |-> ChatDelta(t, <<d>>[i])] = <<ChatDelta(t, d)>>
    OBVIOUS
  <1>2. /\ ChatPart(t, first, <<>>) = If(first, <<About(t, "begin")>>) \o <<>>
        /\ ChatPart(t, first, <<d>>) = If(first, <<About(t, "begin")>>) \o ChatDelta(t, d)
    BY <1>1, FlattenFacts DEF ChatPart, Each
  <1>3. /\ ChatFinal(t, <<>>) = (<<>> \o <<About(t, "finish")>>) \o If(Usage, <<About(t, "usage")>>)
        /\ ChatFinal(t, <<d>>) = (ChatDelta(t, d) \o <<About(t, "finish")>>) \o If(Usage, <<About(t, "usage")>>)
    BY <1>1, FlattenFacts DEF ChatFinal, Each
  <1> QED
    BY <1>2, <1>3

\* The same of responses.
LEMMA RespLists ==
    ASSUME NEW d, NEW t, NEW st, NEW reports \in BOOLEAN
    PROVE  LET head == IF ~ st.created THEN <<About(t, "begin"), About(t, "in_progress")>>
                       ELSE If(reports, <<About(t, "in_progress")>>)
           IN  /\ RespPart(t, st, reports, <<>>) = head \o <<>>
               /\ RespPart(t, st, reports, <<d>>) = head \o RespDelta(t, st, d)
  <1>1. /\ [i \in DOMAIN <<>> |-> RespDelta(t, st, <<>>[i])] = <<>>
        /\ [i \in DOMAIN <<d>> |-> RespDelta(t, st, <<d>>[i])] = <<RespDelta(t, st, d)>>
    OBVIOUS
  <1> QED
    BY <1>1, FlattenFacts DEF RespPart, Each

\* The same of Anthropic messages.
LEMMA AnthropicParts ==
    ASSUME NEW d, NEW t, NEW st, NEW m, NEW first \in BOOLEAN, NEW thinking, NEW shown, thinking = st.thinking, shown = st.text,
           NEW w \in BOOLEAN, NEW no \in BOOLEAN, w <=> shown \/ d.text > 0, ~ no
    PROVE  LET head == If(first, <<About(t, "begin")>>)
           IN  /\ AnthropicPart(t, st, m, first, <<>>) = Glued(head, <<>>)
               /\ AnthropicPart(t, st, m, first, <<d>>) = Glued(head, AnthropicDelta(t, m, thinking, shown, w, no, d))
  <1> DEFINE head == If(first, <<About(t, "begin")>>)
             one == st.text \/ \E i \in DOMAIN <<d>> : <<d>>[i].text > 0
             none == st.text \/ \E i \in DOMAIN <<>> : <<>>[i].text > 0
             false == FALSE
             part(x) == AnthropicDelta(t, m, st.thinking, st.text, one, false, x)
             nil(x) == AnthropicDelta(t, m, st.thinking, st.text, none, false, x)
  <1>1. [i \in DOMAIN <<>> |-> nil(<<>>[i])] = <<>>
    OBVIOUS
  <1>2. [i \in DOMAIN <<d>> |-> part(<<d>>[i])] = <<part(d)>>
    <2> HIDE DEF part
    <2> QED
      OBVIOUS
  <1>3. AnthropicPart(t, st, m, first, <<>>) = head \o <<>>
    BY <1>1, FlattenFacts DEF AnthropicPart, Each
  <1>4. AnthropicPart(t, st, m, first, <<d>>) = head \o part(d)
    BY <1>2, FlattenFacts DEF AnthropicPart, Each
  <1>5. (one <=> st.text \/ d.text > 0) /\ one \in BOOLEAN
    OBVIOUS
  <1>6. false = no
    OBVIOUS
  <1> HIDE DEF one, false, head
  <1>7. one = w
    BY <1>5
  <1>8. part(d) = AnthropicDelta(t, m, thinking, shown, w, no, d)
    BY <1>6, <1>7
  <1> HIDE DEF part
  <1> QED
    BY <1>3, <1>4, <1>8 DEF head, Glued

(* How the final result of an Anthropic message ends, after the diffs.     *)
Sign(t, m) == If(m.reasoning > 0, <<Event(t, "signature", Reasoning, 0, 0)>>)
Shut(t, m) == [i \in DOMAIN PartsOf(m) |-> Event(t, "closed", PartsOf(m)[i], 0, i - 1)]

Leave(t) == <<About(t, "delta_usage"), About(t, "finish")>>

ClosedAs(t, m, json, body) == json = Glued(Glued(Glued(body, Sign(t, m)), Shut(t, m)), Leave(t))

\* And the final results of Anthropic messages.
LEMMA AnthropicEnds ==
    ASSUME NEW d, NEW t, NEW m, NEW w \in BOOLEAN, NEW no \in BOOLEAN, NEW yes \in BOOLEAN, w <=> m.text > 0, ~ no, yes
    PROVE  /\ ClosedAs(t, m, AnthropicFinal(t, m, <<>>), <<>>)
           /\ ClosedAs(t, m, AnthropicFinal(t, m, <<d>>), AnthropicDelta(t, m, no, no, w, yes, d))
  <1> DEFINE sign == If(m.reasoning > 0, <<Event(t, "signature", Reasoning, 0, 0)>>)
             shut == [i \in DOMAIN PartsOf(m) |-> Event(t, "closed", PartsOf(m)[i], 0, i - 1)]
             end == <<About(t, "delta_usage"), About(t, "finish")>>
             some == m.text > 0
             false == FALSE
             true == TRUE
             last(x) == AnthropicDelta(t, m, false, false, some, true, x)
  <1>1. [i \in DOMAIN <<>> |-> last(<<>>[i])] = <<>>
    OBVIOUS
  <1>2. [i \in DOMAIN <<d>> |-> last(<<d>>[i])] = <<last(d)>>
    <2> HIDE DEF last
    <2> QED
      OBVIOUS
  <1>3. AnthropicFinal(t, m, <<>>) = ((<<>> \o sign) \o shut) \o end
    BY <1>1, FlattenFacts DEF AnthropicFinal, Each
  <1>4. AnthropicFinal(t, m, <<d>>) = ((last(d) \o sign) \o shut) \o end
    BY <1>2, FlattenFacts DEF AnthropicFinal, Each
  <1>5. some = w /\ false = no /\ true = yes
    OBVIOUS
  <1> HIDE DEF some, false, true, sign, shut, end
  <1>6. last(d) = AnthropicDelta(t, m, no, no, w, yes, d)
    BY <1>5
  <1> HIDE DEF last
  <1> QED
    BY <1>3, <1>4, <1>6 DEF sign, shut, end, Leave, Glued, Sign, Shut, ClosedAs

Where(n, w, at) == IF Format = "anthropic" THEN Place(n, w, at) ELSE 0

(* The part of a format that shows diffs: what opens the message, and what *)
(* opens a part of it and fills that.                                      *)
Heads(t, reports, n_gen, head) ==
    LET b == About(t, "begin")
        p == About(t, "in_progress")
        begins == \/ Format = "chat" /\ (n_gen = 1 \/ reports)
                  \/ Format = "resp" /\ ~ state[t].created
                  \/ Format = "anthropic" /\ n_gen = 1
    IN  /\ begins => head = <<b>> \/ (head = <<b, p>> /\ Format = "resp")
        /\ ~ begins => head = <<>> \/ (head = <<p>> /\ Format = "resp")
Bodies(t, m, n, d, at, k, w, body) ==
    LET opens == \/ Format = "chat" /\ GrewNew(m, n)
                 \/ Format # "chat" /\ Opens(m, n, state[t].thinking, state[t].text)
    IN  /\ Change(m, n, d, at, k) /\ at \in RsAts /\ k \in Nat
        /\ w <=> state[t].text \/ GrewText(m, n)
        /\ opens => OpensAndFills(t, at, Where(n, w, at), k, body)
        /\ ~ opens => Fills(t, at, Where(n, w, at), k, body)

IsPart(t, m, n, reports, n_gen, json) ==
    \E head, body :
        /\ json = Glued(head, body)
        /\ Heads(t, reports, n_gen, head)
        /\ \/ n = m /\ body = <<>>
           \/ \E d, at, k : \E w \in BOOLEAN : Bodies(t, m, n, d, at, k, w, body)

\* A part of a format that shows diffs.
LEMMA PartShape ==
    ASSUME Format \in {"chat", "resp", "anthropic"},
           NEW t \in Tasks, NEW m \in Messages, state[t].msg = m,
           state[t].thinking \in BOOLEAN, state[t].text \in BOOLEAN, state[t].created \in BOOLEAN,
           NEW n \in Grown(m), NEW reports \in BOOLEAN, NEW n_gen \in Nat
    PROVE  IsPart(t, m, n, reports, n_gen, PartJson(t, n, reports, n_gen))
  <1> DEFINE st == state[t]
             b == About(t, "begin")
             p == About(t, "in_progress")
             diffs == Diffs(m, n)
             first == n_gen = 1 \/ reports
             one == n_gen = 1
             added == n.text - m.text
             json == PartJson(t, n, reports, n_gen)
             place(w, at) == Where(n, w, at)
  <1>1. /\ n \in Messages
        /\ \/ n = m /\ diffs = <<>>
           \/ \E d, at, k : Change(m, n, d, at, k) /\ diffs = <<d>> /\ at \in RsAts /\ k \in Nat
    BY ChangeFacts
  <1>2. /\ Format = "chat" => json = ChatPart(t, first, diffs)
        /\ Format = "resp" => json = RespPart(t, st, reports, diffs)
        /\ Format = "anthropic" => json = AnthropicPart(t, st, n, one, diffs)
    BY DEF PartJson
  <1>3. first \in BOOLEAN /\ one \in BOOLEAN /\ (first <=> n_gen = 1 \/ reports) /\ (one <=> n_gen = 1)
    OBVIOUS
  <1> HIDE DEF first, one, diffs, json
  <1> DEFINE headChat == If(first, <<b>>)
             headResp == IF ~ st.created THEN <<b, p>> ELSE If(reports, <<p>>)
             headAnth == If(one, <<b>>)
  <1>4. /\ first => headChat = <<b>>
        /\ ~ first => headChat = <<>>
        /\ one => headAnth = <<b>>
        /\ ~ one => headAnth = <<>>
        /\ ~ st.created => headResp = <<b, p>>
        /\ st.created => headResp = <<p>> \/ headResp = <<>>
    BY DEF If
  <1>5. ASSUME NEW d PROVE
          /\ ChatPart(t, first, <<>>) = headChat \o <<>>
          /\ ChatPart(t, first, <<d>>) = headChat \o ChatDelta(t, d)
          /\ RespPart(t, st, reports, <<>>) = headResp \o <<>>
          /\ RespPart(t, st, reports, <<d>>) = headResp \o RespDelta(t, st, d)
    BY <1>3, ChatLists, RespLists
  <1> DEFINE th == st.thinking
             sh == st.text
  <1>9. th = st.thinking /\ sh = st.text /\ th \in BOOLEAN /\ sh \in BOOLEAN
    OBVIOUS
  <1> HIDE DEF th, sh
  <1>6. ASSUME NEW d, NEW w \in BOOLEAN, NEW no \in BOOLEAN, w <=> sh \/ d.text > 0, ~ no
        PROVE  /\ AnthropicPart(t, st, n, one, <<>>) = Glued(headAnth, <<>>)
               /\ AnthropicPart(t, st, n, one, <<d>>) = Glued(headAnth, AnthropicDelta(t, n, th, sh, w, no, d))
    BY <1>3, <1>6, <1>9, AnthropicParts
  <1> HIDE DEF headChat, headResp, headAnth
  <1>7. ASSUME n = m, diffs = <<>>
        PROVE  \E head :
             LET begins == \/ Format = "chat" /\ (n_gen = 1 \/ reports)
                           \/ Format = "resp" /\ ~ st.created
                           \/ Format = "anthropic" /\ n_gen = 1
             IN  /\ json = head \o <<>>
                 /\ begins => head = <<b>> \/ (head = <<b, p>> /\ Format = "resp")
                 /\ ~ begins => head = <<>> \/ (head = <<p>> /\ Format = "resp")
    <2>1. CASE Format = "chat"
      <3>1. json = headChat \o <<>>
        BY <1>2, <1>5, <1>7, <2>1
      <3> QED
        BY <3>1, <1>3, <1>4, <1>7, <2>1 DEF json
    <2>2. CASE Format = "resp"
      <3>1. json = headResp \o <<>>
        BY <1>2, <1>5, <1>7, <2>2
      <3> QED
        BY <3>1, <1>3, <1>4, <1>7, <2>2 DEF json
    <2>3. CASE Format = "anthropic"
      <3>1. json = headAnth \o <<>>
        <4>1. NewReasoning.text = 0
          BY NewFacts
        <4>2. \E no \in BOOLEAN : ~ no
          OBVIOUS
        <4>3. AnthropicPart(t, st, n, one, <<>>) = headAnth \o <<>>
          BY <4>1, <4>2, <1>6, <1>9 DEF Glued
        <4> QED
          BY <4>3, <1>2, <1>7, <2>3
      <3> QED
        BY <3>1, <1>3, <1>4, <1>7, <2>3 DEF json
    <2> QED
      BY <2>1, <2>2, <2>3
  <1>8. ASSUME NEW d, NEW at, NEW k, Change(m, n, d, at, k), diffs = <<d>>, at \in RsAts, k \in Nat
        PROVE  \E head, body :
             LET begins == \/ Format = "chat" /\ (n_gen = 1 \/ reports)
                           \/ Format = "resp" /\ ~ st.created
                           \/ Format = "anthropic" /\ n_gen = 1
                 opens == \/ Format = "chat" /\ GrewNew(m, n)
                          \/ Format # "chat" /\ Opens(m, n, st.thinking, st.text)
             IN  /\ json = head \o body
                 /\ begins => head = <<b>> \/ (head = <<b, p>> /\ Format = "resp")
                 /\ ~ begins => head = <<>> \/ (head = <<p>> /\ Format = "resp")
                 /\ \E w \in BOOLEAN :
                      /\ w <=> st.text \/ GrewText(m, n)
                      /\ opens => OpensAndFills(t, at, Where(n, w, at), k, body)
                      /\ ~ opens => Fills(t, at, Where(n, w, at), k, body)
    <2>1. PICK w \in BOOLEAN : w <=> st.text \/ GrewText(m, n)
      <3> DEFINE w == st.text \/ GrewText(m, n)
      <3>1. w \in BOOLEAN /\ (w <=> st.text \/ GrewText(m, n))
        OBVIOUS
      <3> HIDE DEF w
      <3> QED
        BY <3>1
    <2>2. CASE Format = "chat"
      <3>1. json = headChat \o ChatDelta(t, d) /\ \A a : Where(n, w, a) = 0
        BY <1>2, <1>5, <1>8, <2>2 DEF Where
      <3>2. /\ GrewNew(m, n) => OpensAndFills(t, at, Where(n, w, at), k, ChatDelta(t, d))
            /\ ~ GrewNew(m, n) => Fills(t, at, Where(n, w, at), k, ChatDelta(t, d))
        <4>1. /\ GrewNew(m, n) => ChatDelta(t, d) = Opening(t, at, 0) \o Filling(t, at, 0, k)
              /\ ~ GrewNew(m, n) => ChatDelta(t, d) = Filling(t, at, 0, k)
          BY <1>1, <1>8, <2>2, ChatBody, SMTT(20)
        <4> QED
          BY <3>1, <4>1 DEF OpensAndFills, Fills
      <3> QED
        BY <3>1, <3>2, <1>3, <1>4, <2>1, <2>2
    <2>3. CASE Format = "resp"
      <3>1. json = headResp \o RespDelta(t, st, d) /\ \A a : Where(n, w, a) = 0
        BY <1>2, <1>5, <1>8, <2>3 DEF Where
      <3>2. /\ Opens(m, n, st.thinking, st.text) => OpensAndFills(t, at, Where(n, w, at), k, RespDelta(t, st, d))
            /\ ~ Opens(m, n, st.thinking, st.text) => Fills(t, at, Where(n, w, at), k, RespDelta(t, st, d))
        <4>1. /\ Opens(m, n, st.thinking, st.text) => RespDelta(t, st, d) = Opening(t, at, 0) \o Filling(t, at, 0, k)
              /\ ~ Opens(m, n, st.thinking, st.text) => RespDelta(t, st, d) = Filling(t, at, 0, k)
          BY <1>1, <1>8, <2>3, RespBody
        <4> QED
          BY <3>1, <4>1 DEF OpensAndFills, Fills
      <3> QED
        BY <3>1, <3>2, <1>4, <2>1, <2>3
    <2>4. CASE Format = "anthropic"
      <3>1. d.text > 0 <=> GrewText(m, n)
        BY <1>1, <1>8, NewFacts, ChangeKinds DEF Change
      <3>2. PICK no \in BOOLEAN : ~ no
        OBVIOUS
      <3> DEFINE body == AnthropicDelta(t, n, th, sh, w, no, d)
      <3>3. json = headAnth \o body
        <4>1. w <=> sh \/ d.text > 0
          BY <2>1, <3>1, <1>9
        <4>2. AnthropicPart(t, st, n, one, <<d>>) = headAnth \o body
          BY <4>1, <3>2, <1>6 DEF Glued
        <4> QED
          BY <4>2, <1>2, <1>8, <2>4
      <3>4. \A a : Where(n, w, a) = Place(n, w, a)
        BY <2>4 DEF Where
      <3>5. /\ Opens(m, n, th, sh) \/ (no /\ GrewCall(m, n)) => OpensAndFills(t, at, Place(n, w, at), k, body)
            /\ ~ (Opens(m, n, th, sh) \/ (no /\ GrewCall(m, n))) => Fills(t, at, Place(n, w, at), k, body)
        BY <1>1, <1>8, <1>9, <2>4, AnthropicBody
      <3> HIDE DEF body
      <3>6. Opens(m, n, th, sh) <=> Opens(m, n, st.thinking, st.text)
        BY <1>9 DEF Opens
      <3>7. /\ Opens(m, n, st.thinking, st.text) => OpensAndFills(t, at, Where(n, w, at), k, body)
            /\ ~ Opens(m, n, st.thinking, st.text) => Fills(t, at, Where(n, w, at), k, body)
        BY <3>2, <3>4, <3>5, <3>6
      <3> QED
        BY <3>3, <3>7, <1>3, <1>4, <2>1, <2>4
    <2> QED
      BY <2>2, <2>3, <2>4
  <1>10. ASSUME n = m, diffs = <<>> PROVE \E head : json = Glued(head, <<>>) /\ Heads(t, reports, n_gen, head)
    BY <1>7, <1>10 DEF Heads, Glued
  <1>11. ASSUME NEW d, NEW at, NEW k, Change(m, n, d, at, k), diffs = <<d>>, at \in RsAts, k \in Nat
         PROVE  \E head, body : /\ json = Glued(head, body) /\ Heads(t, reports, n_gen, head)
                                /\ \E w \in BOOLEAN : Bodies(t, m, n, d, at, k, w, body)
    BY <1>8, <1>11 DEF Heads, Bodies, Glued
  <1> QED
    BY <1>1, <1>10, <1>11 DEF json, IsPart

RsBody == {"opened", "part", "delta"}
RsHead == {"begin", "in_progress"}
RsEnd  == {"finish", "usage", "text_done", "part_done", "closed", "signature", "delta_usage"}

\* An event.
LEMMA EventFacts ==
    /\ \A T, N : \A t \in T, name \in N, at \in RsAts, k \in Nat, i \in Nat : Event(t, name, at, k, i) \in RsEvents(T, N)
    /\ Whole \in RsAts /\ Reasoning \in RsAts /\ Text \in RsAts /\ \A i \in Nat : Call(i) \in RsAts
  BY DEF Event, RsEvents, RsAts

\* What a diff adds is a list of events of the task.
LEMMA BodyTyped ==
    ASSUME NEW t, NEW at \in RsAts, NEW index \in Nat, NEW k \in Nat, NEW body,
           Fills(t, at, index, k, body) \/ OpensAndFills(t, at, index, k, body)
    PROVE  body \in Seq(RsEvents({t}, RsBody))
  <1> DEFINE E == RsEvents({t}, RsBody)
  <1>1. /\ Event(t, "opened", at, 0, index) \in E /\ Event(t, "part", at, 0, index) \in E /\ Event(t, "delta", at, k, index) \in E
    BY EventFacts DEF RsBody
  <1> HIDE DEF E
  <1>2. Filling(t, at, index, k) \in Seq(E)
    BY <1>1 DEF Filling
  <1>3. Opening(t, at, index) \in Seq(E)
    BY <1>1 DEF Opening
  <1>4. Opening(t, at, index) \o Filling(t, at, index, k) \in Seq(E)
    BY <1>2, <1>3, ConcatProperties
  <1> QED
    BY <1>2, <1>4 DEF Fills, OpensAndFills, E

\* The number of a block that grows.
LEMMA WhereNat ==
    ASSUME NEW m \in Messages, NEW n \in Messages, NEW w,
           NEW d, NEW at, NEW k, Change(m, n, d, at, k)
    PROVE  Where(n, w, at) \in Nat
  <1>1. n.reasoning \in Nat /\ Len(n.calls) \in Nat /\ Len(m.calls) \in Nat
    BY MessageFacts
  <1>2. TextIndex(n) \in Nat
    BY DEF TextIndex
  <1>3. at = Reasoning \/ at = Text \/ (at = Call(Len(n.calls)) /\ Len(n.calls) > 0)
    BY <1>1 DEF Change, GrewNew, GrewCall
  <1>4. ASSUME at = Call(Len(n.calls)), Len(n.calls) > 0 PROVE CallIndex(n, w, at[2]) \in Nat
    <2>1. at[2] = Len(n.calls)
      BY <1>1, <1>4, PartsDiffer
    <2> QED
      BY <2>1, <1>1, <1>2, <1>4 DEF CallIndex
  <1> QED
    BY <1>2, <1>3, <1>4, <1>1, PartsDiffer DEF Where, Place

\* A part is a list of events of the task.
LEMMA PartTyped ==
    ASSUME setup \in Setups,
           NEW t \in Tasks, NEW m \in Messages, state[t].msg = m,
           state[t].thinking \in BOOLEAN, state[t].text \in BOOLEAN, state[t].created \in BOOLEAN,
           NEW n \in Grown(m), NEW reports \in BOOLEAN, NEW n_gen \in Nat
    PROVE  /\ PartJson(t, n, reports, n_gen) \in Seq(RsEvents({t}, RsHead \cup RsBody))
           /\ Format \in {"plain", "text", "asr"} =>
                PartJson(t, n, reports, n_gen) = <<Event(t, "delta", Text, n.text - m.text, 0)>>
  <1> DEFINE E == RsEvents({t}, RsHead \cup RsBody)
             json == PartJson(t, n, reports, n_gen)
  <1>1. Format \in {"plain", "text", "asr", "chat", "resp", "anthropic"}
    BY SetupFacts
  <1>2. CASE Format \in {"chat", "resp", "anthropic"}
    <2>1. PICK head, body : /\ json = Glued(head, body)
                            /\ Heads(t, reports, n_gen, head)
                            /\ \/ n = m /\ body = <<>>
                               \/ \E d, at, k : \E w \in BOOLEAN : Bodies(t, m, n, d, at, k, w, body)
      <3>1. IsPart(t, m, n, reports, n_gen, PartJson(t, n, reports, n_gen))
        BY <1>2, PartShape
      <3> QED
        BY <3>1 DEF IsPart
    <2>2. About(t, "begin") \in E /\ About(t, "in_progress") \in E
      BY EventFacts DEF About, RsHead
    <2>3. head \in Seq(E)
      <3> DEFINE b == About(t, "begin")
                 p == About(t, "in_progress")
      <3>1. head = <<>> \/ head = <<p>> \/ head = <<b>> \/ head = <<b, p>>
        BY <2>1 DEF Heads
      <3> HIDE DEF E, b, p
      <3>2. b \in E /\ p \in E
        BY <2>2 DEF b, p
      <3>3. <<>> \in Seq(E) /\ <<p>> \in Seq(E) /\ <<b>> \in Seq(E) /\ <<b, p>> \in Seq(E)
        BY <3>2
      <3> QED
        BY <3>1, <3>3
    <2>4. body \in Seq(E)
      <3>1. CASE body = <<>>
        BY <3>1
      <3>2. ASSUME NEW d, NEW at, NEW k, NEW w \in BOOLEAN, Bodies(t, m, n, d, at, k, w, body)
            PROVE  body \in Seq(E)
        <4>1. /\ Change(m, n, d, at, k) /\ at \in RsAts /\ k \in Nat
              /\ Fills(t, at, Where(n, w, at), k, body) \/ OpensAndFills(t, at, Where(n, w, at), k, body)
          BY <3>2 DEF Bodies
        <4>2. Where(n, w, at) \in Nat
          BY <4>1, ChangeFacts, WhereNat
        <4>3. body \in Seq(RsEvents({t}, RsBody))
          BY <4>1, <4>2, BodyTyped
        <4>4. RsEvents({t}, RsBody) \subseteq E
          BY DEF RsEvents
        <4> QED
          BY <4>3, <4>4, SeqMonotonic
      <3> QED
        BY <2>1, <3>1, <3>2
    <2> HIDE DEF E
    <2>5. head \o body \in Seq(E)
      BY <2>3, <2>4, ConcatProperties
    <2> QED
      BY <1>2, <2>1, <2>5 DEF E, Glued
  <1>3. CASE Format \in {"plain", "text", "asr"}
    <2>1. json = <<Event(t, "delta", Text, n.text - m.text, 0)>>
      BY <1>3 DEF PartJson, PlainPart, TextPart, AsrPart, Delta
    <2>2. n.text - m.text \in Nat
      <3>1. m.text \in Nat
        BY MessageFacts
      <3>2. n = m \/ GrewReasoning(m, n) \/ GrewText(m, n) \/ GrewNew(m, n) \/ GrewCall(m, n)
        BY GrownCases
      <3>3. n.text = m.text \/ n.text = m.text + 1
        BY <3>2 DEF GrewReasoning, GrewText, GrewNew, GrewCall
      <3> QED
        BY <3>1, <3>3
    <2>3. Event(t, "delta", Text, n.text - m.text, 0) \in E
      BY <2>2, EventFacts DEF RsBody
    <2> HIDE DEF E
    <2>4. json \in Seq(E)
      BY <2>1, <2>3
    <2> QED
      BY <2>1, <2>4 DEF E
  <1> QED
    BY <1>1, <1>2, <1>3

\* The parts of a message, in their order.
LEMMA PartsFacts ==
    ASSUME NEW m \in Messages
    PROVE  LET x == IF m.reasoning > 0 THEN 1 ELSE 0
               y == IF m.text > 0 THEN 1 ELSE 0
               z == Len(m.calls)
               P == PartsOf(m)
           IN  /\ P \in Seq(RsAts) /\ Len(P) = x + y + z /\ DOMAIN P = 1..x + y + z /\ z \in Nat
               /\ x = 1 => P[1] = Reasoning
               /\ y = 1 => P[x + 1] = Text
               /\ \A i \in 1..z : P[x + y + i] = Call(i)
  <1> DEFINE x == IF m.reasoning > 0 THEN 1 ELSE 0
             y == IF m.text > 0 THEN 1 ELSE 0
             z == Len(m.calls)
             P == PartsOf(m)
             p == If(m.reasoning > 0, <<Reasoning>>)
             q == If(m.text > 0, <<Text>>)
             r == [i \in DOMAIN m.calls |-> Call(i)]
  <1>1. z \in Nat /\ DOMAIN m.calls = 1..z
    BY MessageFacts
  <1>2. P = (p \o q) \o r
    BY DEF PartsOf
  <1>3. /\ x = 1 => p = <<Reasoning>>
        /\ x = 0 => p = <<>>
        /\ y = 1 => q = <<Text>>
        /\ y = 0 => q = <<>>
        /\ x = 0 \/ x = 1
        /\ y = 0 \/ y = 1
    BY DEF If
  <1>4. r \in Seq(RsAts) /\ Len(r) = z /\ \A i \in 1..z : r[i] = Call(i)
    <2>1. r \in [1..z -> RsAts]
      BY <1>1, EventFacts
    <2> QED
      BY <1>1, <2>1, FunctionIsSeq
  <1> HIDE DEF p, q, r, x, y, z, P
  <1>5. p \in Seq(RsAts) /\ Len(p) = x /\ (x = 1 => p[1] = Reasoning)
    <2>1. Reasoning \in RsAts
      BY EventFacts
    <2>2. <<Reasoning>> \in Seq(RsAts) /\ Len(<<Reasoning>>) = 1 /\ <<Reasoning>>[1] = Reasoning
      BY <2>1
    <2>3. <<>> \in Seq(RsAts) /\ Len(<<>>) = 0
      OBVIOUS
    <2>4. CASE x = 1
      BY <2>2, <2>4, <1>3
    <2>5. CASE x = 0
      BY <2>3, <2>5, <1>3
    <2> QED
      BY <2>4, <2>5, <1>3
  <1>6. q \in Seq(RsAts) /\ Len(q) = y /\ (y = 1 => q[1] = Text)
    <2>1. Text \in RsAts
      BY EventFacts
    <2>2. <<Text>> \in Seq(RsAts) /\ Len(<<Text>>) = 1 /\ <<Text>>[1] = Text
      BY <2>1
    <2>3. <<>> \in Seq(RsAts) /\ Len(<<>>) = 0
      OBVIOUS
    <2>4. CASE y = 1
      BY <2>2, <2>4, <1>3
    <2>5. CASE y = 0
      BY <2>3, <2>5, <1>3
    <2> QED
      BY <2>4, <2>5, <1>3
  <1>7. /\ p \o q \in Seq(RsAts) /\ Len(p \o q) = x + y
        /\ x = 1 => (p \o q)[1] = Reasoning
        /\ y = 1 => (p \o q)[x + 1] = Text
    <2>1. /\ p \o q \in Seq(RsAts) /\ Len(p \o q) = Len(p) + Len(q)
          /\ \A i \in 1..Len(p) + Len(q) : (p \o q)[i] = IF i <= Len(p) THEN p[i] ELSE q[i - Len(p)]
      BY <1>5, <1>6, ConcatProperties
    <2> DEFINE pq == p \o q
    <2> HIDE DEF pq
    <2>2. /\ pq \in Seq(RsAts) /\ Len(pq) = x + y
          /\ \A i \in 1..x + y : pq[i] = IF i <= x THEN p[i] ELSE q[i - x]
      BY <2>1, <1>5, <1>6 DEF pq
    <2>3. x = 1 => 1 \in 1..x + y
      BY <1>3
    <2>4. y = 1 => x + 1 \in 1..x + y /\ ~ (x + 1 <= x) /\ x + 1 - x = 1
      BY <1>3
    <2>5. x = 1 => pq[1] = Reasoning
      BY <2>2, <2>3, <1>5
    <2>6. y = 1 => pq[x + 1] = Text
      <3>1. ASSUME y = 1 PROVE pq[x + 1] = q[1]
        <4> DEFINE j == x + 1
        <4>1. j \in 1..x + y /\ ~ (j <= x) /\ j - x = 1
          BY <2>4, <3>1, <1>3
        <4> HIDE DEF j
        <4>2. pq[j] = q[1]
          BY <2>2, <4>1
        <4> QED
          BY <4>2 DEF j
      <3> QED
        BY <3>1, <1>6
    <2> QED
      BY <2>2, <2>5, <2>6 DEF pq
  <1> DEFINE pq == p \o q
  <1> HIDE DEF pq
  <1>8. /\ P \in Seq(RsAts) /\ Len(P) = x + y + z
        /\ \A i \in 1..x + y + z : P[i] = IF i <= x + y THEN pq[i] ELSE r[i - (x + y)]
    <2>1. /\ pq \o r \in Seq(RsAts) /\ Len(pq \o r) = Len(pq) + Len(r)
          /\ \A i \in 1..Len(pq) + Len(r) : (pq \o r)[i] = IF i <= Len(pq) THEN pq[i] ELSE r[i - Len(pq)]
      BY <1>4, <1>7, ConcatProperties DEF pq
    <2>2. P = pq \o r /\ Len(pq) = x + y
      BY <1>2, <1>7 DEF pq
    <2> QED
      BY <2>1, <2>2, <1>4
  <1>9. DOMAIN P = 1..x + y + z
    BY <1>8, LenProperties
  <1>10. x = 1 => P[1] = Reasoning
    <2>1. x = 1 => 1 \in 1..x + y + z /\ 1 <= x + y
      BY <1>1, <1>3
    <2> QED
      BY <2>1, <1>7, <1>8 DEF pq
  <1>11. y = 1 => P[x + 1] = Text
    <2>1. y = 1 => x + 1 \in 1..x + y + z /\ x + 1 <= x + y
      BY <1>1, <1>3
    <2> QED
      BY <2>1, <1>7, <1>8 DEF pq
  <1>12. ASSUME NEW i \in 1..z PROVE P[x + y + i] = Call(i)
    <2>1. x + y + i \in 1..x + y + z /\ ~ (x + y + i <= x + y) /\ x + y + i - (x + y) = i
      BY <1>1, <1>3
    <2> DEFINE j == x + y + i
    <2>2. j \in 1..x + y + z /\ ~ (j <= x + y) /\ j - (x + y) = i
      BY <1>1, <1>3
    <2> HIDE DEF j
    <2>3. P[j] = r[j - (x + y)]
      BY <2>2, <1>8
    <2>4. P[j] = Call(i)
      BY <2>2, <2>3, <1>4
    <2> QED
      BY <2>4 DEF j
  <1> QED
    BY <1>1, <1>8, <1>9, <1>10, <1>11, <1>12 DEF x, y, z, P

(* How the final result of a task ends, after the diffs.                   *)
Over(t, m) ==
    CASE Format = "resp"      -> RespFinal(t, m)
      [] Format = "anthropic" -> (Sign(t, m) \o Shut(t, m)) \o <<About(t, "delta_usage"), About(t, "finish")>>
      [] Format = "chat"      -> <<About(t, "finish")>> \o If(Usage, <<About(t, "usage")>>)
      [] OTHER                  -> <<About(t, "finish")>>

\* An ending has only events of endings, and the one that finishes the message.
LEMMA OverTyped ==
    ASSUME setup \in Setups, NEW m \in Messages, NEW t
    PROVE  /\ Over(t, m) \in Seq(RsEvents({t}, RsEnd))
           /\ \E i \in 1..Len(Over(t, m)) : Over(t, m)[i].event = "finish" /\ Over(t, m)[i].task = t
           /\ Sign(t, m) \in Seq(RsEvents({t}, RsEnd))
           /\ Shut(t, m) \in Seq(RsEvents({t}, RsEnd))
  <1> DEFINE E == RsEvents({t}, RsEnd)
             f == About(t, "finish")
             u == About(t, "usage")
             du == About(t, "delta_usage")
  <1>1. f \in E /\ u \in E /\ du \in E /\ f.event = "finish" /\ f.task = t
    <2>1. {"finish", "usage", "delta_usage"} \subseteq RsEnd
      BY DEF RsEnd
    <2>2. f \in E /\ u \in E /\ du \in E
      BY <2>1, EventFacts DEF About
    <2>3. f.event = "finish" /\ f.task = t
      BY FieldFacts DEF About
    <2> QED
      BY <2>2, <2>3
  <1>2. \A name \in RsEnd, at \in RsAts : \A i \in Nat : Event(t, name, at, 0, i) \in E
    BY EventFacts
  <1> HIDE DEF E, f, u, du
  <1>3. Sign(t, m) \in Seq(E)
    <2>1. Event(t, "signature", Reasoning, 0, 0) \in E
      BY <1>2, EventFacts DEF RsEnd
    <2> DEFINE e == Event(t, "signature", Reasoning, 0, 0)
    <2>2. Sign(t, m) = <<e>> \/ Sign(t, m) = <<>>
      BY DEF Sign, If
    <2>3. e \in E
      BY <2>1
    <2> HIDE DEF e
    <2>4. <<e>> \in Seq(E) /\ <<>> \in Seq(E)
      BY <2>3
    <2> QED
      BY <2>2, <2>4
  <1>4. Shut(t, m) \in Seq(E)
    <2> DEFINE n == Len(PartsOf(m))
    <2>1. PartsOf(m) \in Seq(RsAts) /\ n \in Nat /\ DOMAIN PartsOf(m) = 1..n
      BY PartsFacts, LenProperties
    <2>2. ASSUME NEW i \in 1..n PROVE Event(t, "closed", PartsOf(m)[i], 0, i - 1) \in E
      <3>1. PartsOf(m)[i] \in RsAts /\ i - 1 \in Nat /\ "closed" \in RsEnd
        BY <2>1, ElementOfSeq DEF RsEnd
      <3> QED
        BY <3>1, <1>2
    <2>3. Shut(t, m) \in [1..n -> E]
      BY <2>1, <2>2 DEF Shut
    <2> QED
      BY <2>1, <2>3, FunctionIsSeq
  <1>5. ASSUME NEW p \in Seq(E), NEW q \in Seq(E), NEW i \in 1..Len(q), q[i] = f
        PROVE  p \o q \in Seq(E) /\ \E j \in 1..Len(p \o q) : (p \o q)[j] = f
    <2>1. /\ p \o q \in Seq(E) /\ Len(p \o q) = Len(p) + Len(q)
          /\ \A j \in 1..Len(p) + Len(q) : (p \o q)[j] = IF j <= Len(p) THEN p[j] ELSE q[j - Len(p)]
      BY ConcatProperties
    <2>2. Len(p) \in Nat /\ Len(q) \in Nat
      BY LenProperties
    <2>3. Len(p) + i \in 1..Len(p) + Len(q) /\ ~ (Len(p) + i <= Len(p)) /\ Len(p) + i - Len(p) = i
      BY <2>2
    <2>4. (p \o q)[Len(p) + i] = f
      BY <2>1, <2>3, <1>5
    <2> QED
      BY <2>1, <2>3, <2>4
  <1>6. Format \in {"plain", "text", "asr", "chat", "resp", "anthropic"}
    BY SetupFacts
  <1>7. ASSUME Format = "resp" PROVE Over(t, m) \in Seq(E) /\ \E j \in 1..Len(Over(t, m)) : Over(t, m)[j] = f
    <2> DEFINE p == If(m.reasoning > 0, <<Item(t, "closed", Reasoning)>>)
               q == If(m.text > 0, <<Item(t, "text_done", Text), Item(t, "part_done", Text), Item(t, "closed", Text)>>)
               r == [i \in DOMAIN m.calls |-> Item(t, "closed", Call(i))]
    <2>1. Over(t, m) = ((p \o q) \o r) \o <<f>>
      BY <1>7 DEF Over, RespFinal, f
    <2>2. p \in Seq(E)
      <3> DEFINE e == Item(t, "closed", Reasoning)
      <3>1. e \in E
        BY <1>2, EventFacts DEF RsEnd, Item
      <3>2. p = <<e>> \/ p = <<>>
        BY DEF If
      <3> HIDE DEF e, p
      <3>3. <<e>> \in Seq(E) /\ <<>> \in Seq(E)
        BY <3>1
      <3> QED
        BY <3>2, <3>3
    <2>3. q \in Seq(E)
      <3> DEFINE e1 == Item(t, "text_done", Text)
                 e2 == Item(t, "part_done", Text)
                 e3 == Item(t, "closed", Text)
      <3>1. e1 \in E /\ e2 \in E /\ e3 \in E
        BY <1>2, EventFacts DEF RsEnd, Item
      <3>2. q = <<e1, e2, e3>> \/ q = <<>>
        BY DEF If
      <3> HIDE DEF e1, e2, e3, q
      <3>3. <<e1, e2, e3>> \in Seq(E) /\ <<>> \in Seq(E)
        BY <3>1
      <3> QED
        BY <3>2, <3>3
    <2>4. r \in Seq(E)
      <3>1. Len(m.calls) \in Nat /\ DOMAIN m.calls = 1..Len(m.calls)
        BY MessageFacts
      <3>2. \A i \in 1..Len(m.calls) : Item(t, "closed", Call(i)) \in E
        <4>1. \A i \in 1..Len(m.calls) : Call(i) \in RsAts
          BY EventFacts
        <4>2. "closed" \in RsEnd
          BY DEF RsEnd
        <4> QED
          BY <4>1, <4>2, <1>2 DEF Item
      <3>3. r \in [1..Len(m.calls) -> E]
        BY <3>1, <3>2
      <3> QED
        BY <3>1, <3>3, FunctionIsSeq
    <2> HIDE DEF p, q, r
    <2>5. (p \o q) \o r \in Seq(E)
      <3>1. p \o q \in Seq(E)
        BY <2>2, <2>3, ConcatProperties
      <3> QED
        BY <3>1, <2>4, ConcatProperties
    <2>6. <<f>> \in Seq(E) /\ 1 \in 1..Len(<<f>>) /\ <<f>>[1] = f
      BY <1>1
    <2> QED
      BY <2>1, <2>5, <2>6, <1>5
  <1>8. ASSUME Format = "anthropic" PROVE Over(t, m) \in Seq(E) /\ \E j \in 1..Len(Over(t, m)) : Over(t, m)[j] = f
    <2>1. Over(t, m) = (Sign(t, m) \o Shut(t, m)) \o <<du, f>>
      BY <1>8 DEF Over, f, du
    <2>2. Sign(t, m) \o Shut(t, m) \in Seq(E)
      BY <1>3, <1>4, ConcatProperties
    <2>3. <<du, f>> \in Seq(E) /\ 2 \in 1..Len(<<du, f>>) /\ <<du, f>>[2] = f
      BY <1>1
    <2> QED
      BY <2>1, <2>2, <2>3, <1>5, SMTT(20)
  <1>9. ASSUME Format = "chat" PROVE Over(t, m) \in Seq(E) /\ \E j \in 1..Len(Over(t, m)) : Over(t, m)[j] = f
    <2>1. Over(t, m) = <<f>> \o If(Usage, <<u>>)
      BY <1>9 DEF Over, f, u
    <2>2. If(Usage, <<u>>) = <<u>> \/ If(Usage, <<u>>) = <<>>
      BY DEF If
    <2>3. Over(t, m) = <<f, u>> \/ Over(t, m) = <<f>>
      BY <2>1, <2>2, Nil
    <2>4. <<f, u>> \in Seq(E) /\ 1 \in 1..Len(<<f, u>>) /\ <<f, u>>[1] = f
      BY <1>1
    <2>5. <<f>> \in Seq(E) /\ 1 \in 1..Len(<<f>>) /\ <<f>>[1] = f
      BY <1>1
    <2> QED
      BY <2>3, <2>4, <2>5
  <1>10. ASSUME Format \in {"plain", "text", "asr"} PROVE Over(t, m) \in Seq(E) /\ \E j \in 1..Len(Over(t, m)) : Over(t, m)[j] = f
    <2>1. Over(t, m) = <<f>>
      BY <1>10 DEF Over, f
    <2>2. <<f>> \in Seq(E) /\ 1 \in 1..Len(<<f>>) /\ <<f>>[1] = f
      BY <1>1
    <2> QED
      BY <2>1, <2>2
  <1>11. Over(t, m) \in Seq(E) /\ \E j \in 1..Len(Over(t, m)) : Over(t, m)[j] = f
    BY <1>6, <1>7, <1>8, <1>9, <1>10
  <1> QED
    BY <1>1, <1>3, <1>4, <1>11 DEF E

(* The final result: what is new at the end, and the ending.               *)
FinalBody(t, m, n, body) ==
    \/ body = <<>> /\ (n = m \/ Format \notin {"chat", "anthropic"})
    \/ \E d, at, k, index :
         /\ Change(m, n, d, at, k) /\ at \in RsAts /\ k \in Nat /\ index \in Nat
         /\ Fills(t, at, index, k, body) \/ OpensAndFills(t, at, index, k, body)
IsFinal(t, m, n, json) ==
    \E body : /\ json = Glued(body, Over(t, n)) /\ FinalBody(t, m, n, body)
              /\ body \in Seq(RsEvents({t}, RsBody \cup RsEnd))

\* A final result.
LEMMA FinalShape ==
    ASSUME setup \in Setups,
           NEW t \in Tasks, NEW m \in Messages, state[t].msg = m, NEW n \in Grown(m)
    PROVE  /\ IsFinal(t, m, n, FinalJson(t, n))
           /\ FinalJson(t, n) \in Seq(RsEvents({t}, RsBody \cup RsEnd))
           /\ \E i \in 1..Len(FinalJson(t, n)) : FinalJson(t, n)[i].event = "finish" /\ FinalJson(t, n)[i].task = t
  <1> DEFINE json == FinalJson(t, n)
             diffs == Diffs(m, n)
             over == Over(t, n)
             E == RsEvents({t}, RsBody \cup RsEnd)
  <1>1. /\ n \in Messages
        /\ \/ n = m /\ diffs = <<>>
           \/ \E d, at, k : Change(m, n, d, at, k) /\ diffs = <<d>> /\ at \in RsAts /\ k \in Nat
    BY ChangeFacts
  <1>2. Format \in {"plain", "text", "asr", "chat", "resp", "anthropic"}
    BY SetupFacts
  <1>3. /\ Format = "plain" => json = PlainFinal(t)
        /\ Format = "text" => json = TextFinal(t)
        /\ Format = "asr" => json = AsrFinal(t)
        /\ Format = "chat" => json = ChatFinal(t, diffs)
        /\ Format = "resp" => json = RespFinal(t, n)
        /\ Format = "anthropic" => json = AnthropicFinal(t, n, diffs)
    BY DEF FinalJson
  <1>4. /\ over \in Seq(RsEvents({t}, RsEnd))
        /\ \E i \in 1..Len(over) : over[i].event = "finish" /\ over[i].task = t
        /\ Sign(t, n) \in Seq(RsEvents({t}, RsEnd)) /\ Shut(t, n) \in Seq(RsEvents({t}, RsEnd))
    BY <1>1, OverTyped
  <1>5. RsEvents({t}, RsEnd) \subseteq E /\ RsEvents({t}, RsBody) \subseteq E
    BY DEF RsEvents
  <1>6. over \in Seq(E) /\ Sign(t, n) \in Seq(E) /\ Shut(t, n) \in Seq(E)
    BY <1>4, <1>5, SeqMonotonic
  <1>7. <<About(t, "finish")>> \in Seq(E) /\ If(Usage, <<About(t, "usage")>>) \in Seq(E)
        /\ <<About(t, "delta_usage"), About(t, "finish")>> \in Seq(E)
    <2>1. About(t, "finish") \in E /\ About(t, "usage") \in E /\ About(t, "delta_usage") \in E
      BY EventFacts DEF About, RsEnd
    <2> HIDE DEF E
    <2> QED
      BY <2>1 DEF If
  <1> HIDE DEF json, diffs, E
  <1>8. ASSUME NEW body, FinalBody(t, m, n, body) PROVE body \in Seq(E)
    <2>1. CASE body = <<>>
      BY <2>1
    <2>2. ASSUME NEW d, NEW at, NEW k, NEW index, at \in RsAts /\ k \in Nat /\ index \in Nat,
                 Fills(t, at, index, k, body) \/ OpensAndFills(t, at, index, k, body)
          PROVE  body \in Seq(E)
      <3>1. body \in Seq(RsEvents({t}, RsBody))
        BY <2>2, BodyTyped
      <3> QED
        BY <3>1, <1>5, SeqMonotonic
    <2> QED
      BY <2>1, <2>2, <1>8 DEF FinalBody
  <1>9. ASSUME json = over, n = m \/ Format \notin {"chat", "anthropic"} PROVE IsFinal(t, m, n, json)
    <2>1. json = Glued(<<>>, over)
      BY <1>6, <1>9, ConcatEmptySeq DEF Glued
    <2>2. FinalBody(t, m, n, <<>>)
      BY <1>9 DEF FinalBody
    <2>3. <<>> \in Seq(E)
      OBVIOUS
    <2> QED
      BY <2>1, <2>2, <2>3 DEF IsFinal, over, E
  <1>10. ASSUME Format \in {"plain", "text", "asr", "resp"} PROVE IsFinal(t, m, n, json)
    <2>1. json = over
      BY <1>3, <1>10 DEF over, Over, PlainFinal, TextFinal, AsrFinal
    <2> QED
      BY <2>1, <1>9, <1>10
  <1>11. ASSUME Format = "chat" PROVE IsFinal(t, m, n, json)
    <2> DEFINE f == <<About(t, "finish")>>
               u == If(Usage, <<About(t, "usage")>>)
    <2>1. over = f \o u
      BY <1>11 DEF over, Over
    <2>2. /\ ChatFinal(t, <<>>) = (<<>> \o f) \o u
          /\ \A d : ChatFinal(t, <<d>>) = (ChatDelta(t, d) \o f) \o u
      <3>1. \E b \in BOOLEAN : b
        OBVIOUS
      <3>2. ASSUME NEW d PROVE /\ ChatFinal(t, <<>>) = (<<>> \o f) \o u
                               /\ ChatFinal(t, <<d>>) = (ChatDelta(t, d) \o f) \o u
        BY <3>1, ChatLists
      <3> QED
        BY <3>2
    <2>3. CASE n = m /\ diffs = <<>>
      <3>1. <<>> \o f = f
        BY Nil
      <3>2. json = over
        BY <2>1, <2>2, <2>3, <3>1, <1>3, <1>11
      <3> QED
        BY <3>2, <2>3, <1>9
    <2>4. ASSUME NEW d, NEW at, NEW k, Change(m, n, d, at, k), diffs = <<d>>, at \in RsAts, k \in Nat
          PROVE  IsFinal(t, m, n, json)
      <3> DEFINE body == ChatDelta(t, d)
      <3>1. Fills(t, at, 0, k, body) \/ OpensAndFills(t, at, 0, k, body)
        <4>1. /\ GrewNew(m, n) => body = Opening(t, at, 0) \o Filling(t, at, 0, k)
              /\ ~ GrewNew(m, n) => body = Filling(t, at, 0, k)
          BY <1>1, <2>4, <1>11, ChatBody
        <4> QED
          BY <4>1 DEF Fills, OpensAndFills
      <3> HIDE DEF body
      <3>2. FinalBody(t, m, n, body)
        BY <3>1, <2>4 DEF FinalBody
      <3>3. body \in Seq(E)
        BY <3>2, <1>8
      <3>4. json = (body \o f) \o u
        BY <2>2, <2>4, <1>3, <1>11 DEF body
      <3>5. f \in Seq(E) /\ u \in Seq(E)
        BY <1>7
      <3> HIDE DEF f, u
      <3>6. json = body \o (f \o u)
        BY <3>3, <3>4, <3>5, ConcatAssociative
      <3>7. json = Glued(body, over)
        BY <3>6, <2>1 DEF Glued
      <3> QED
        BY <3>2, <3>3, <3>7 DEF IsFinal, over, E
    <2> QED
      BY <1>1, <2>3, <2>4
  <1>12. ASSUME Format = "anthropic" PROVE IsFinal(t, m, n, json)
    <2> DEFINE a == Sign(t, n)
               b == Shut(t, n)
               c == <<About(t, "delta_usage"), About(t, "finish")>>
    <2>1. over = (a \o b) \o c
      BY <1>12 DEF over, Over
    <2>2. PICK w, no, yes \in BOOLEAN : (w <=> n.text > 0) /\ ~ no /\ yes
      <3> DEFINE w == n.text > 0
      <3>1. w \in BOOLEAN /\ (w <=> n.text > 0)
        OBVIOUS
      <3> HIDE DEF w
      <3> QED
        BY <3>1
    <2>3. ASSUME NEW d PROVE /\ AnthropicFinal(t, n, <<>>) = ((<<>> \o a) \o b) \o c
                             /\ AnthropicFinal(t, n, <<d>>) = ((AnthropicDelta(t, n, no, no, w, yes, d) \o a) \o b) \o c
      <3>1. /\ AnthropicFinal(t, n, <<>>) = Glued(Glued(Glued(<<>>, a), b), c)
            /\ AnthropicFinal(t, n, <<d>>) = Glued(Glued(Glued(AnthropicDelta(t, n, no, no, w, yes, d), a), b), c)
        <4>1. /\ ClosedAs(t, n, AnthropicFinal(t, n, <<>>), <<>>)
              /\ ClosedAs(t, n, AnthropicFinal(t, n, <<d>>), AnthropicDelta(t, n, no, no, w, yes, d))
          BY <2>2, AnthropicEnds
        <4> QED
          BY <4>1 DEF ClosedAs, Leave
      <3> QED
        BY <3>1 DEF Glued
    <2>4. a \in Seq(E) /\ b \in Seq(E) /\ c \in Seq(E)
      BY <1>6, <1>7
    <2> HIDE DEF a, b, c
    <2>5. ASSUME NEW body \in Seq(E) PROVE ((body \o a) \o b) \o c = body \o ((a \o b) \o c)
      <3>1. (body \o a) \o b = body \o (a \o b)
        BY <2>4, ConcatAssociative
      <3>2. a \o b \in Seq(E)
        BY <2>4, ConcatProperties
      <3>3. (body \o (a \o b)) \o c = body \o ((a \o b) \o c)
        <4> DEFINE ab == a \o b
        <4>1. ab \in Seq(E)
          BY <3>2
        <4> HIDE DEF ab
        <4>2. (body \o ab) \o c = body \o (ab \o c)
          BY <4>1, <2>4, ConcatAssociative, SMTT(20)
        <4> QED
          BY <4>2 DEF ab
      <3> QED
        BY <3>1, <3>3
    <2>6. CASE n = m /\ diffs = <<>>
      <3>1. <<>> \o a = a
        BY <2>4, ConcatEmptySeq
      <3>2. json = over
        BY <2>1, <2>3, <2>6, <3>1, <1>3, <1>12
      <3> QED
        BY <3>2, <2>6, <1>9
    <2>7. ASSUME NEW d, NEW at, NEW k, Change(m, n, d, at, k), diffs = <<d>>, at \in RsAts, k \in Nat
          PROVE  IsFinal(t, m, n, json)
      <3> DEFINE body == AnthropicDelta(t, n, no, no, w, yes, d)
                 place == Where(n, w, at)
      <3>1. Fills(t, at, place, k, body) \/ OpensAndFills(t, at, place, k, body)
        <4>1. Where(n, w, at) = Place(n, w, at)
          BY <1>12 DEF Where
        <4>2. Fills(t, at, Place(n, w, at), k, body) \/ OpensAndFills(t, at, Place(n, w, at), k, body)
          BY <1>1, <2>2, <2>7, <1>12, AnthropicBody
        <4> QED
          BY <4>1, <4>2
      <3>2. place \in Nat
        BY <1>1, <2>7, WhereNat
      <3> HIDE DEF body, place
      <3>3. FinalBody(t, m, n, body)
        BY <3>1, <3>2, <2>7 DEF FinalBody
      <3>4. body \in Seq(E)
        BY <3>3, <1>8
      <3>5. json = ((body \o a) \o b) \o c
        BY <2>3, <2>7, <1>3, <1>12 DEF body
      <3>6. json = Glued(body, over)
        BY <3>4, <3>5, <2>1, <2>5 DEF Glued
      <3> QED
        BY <3>3, <3>4, <3>6 DEF IsFinal, over, E
    <2> QED
      BY <1>1, <2>6, <2>7
  <1>13. IsFinal(t, m, n, json)
    BY <1>2, <1>10, <1>11, <1>12
  <1>14. PICK body : json = body \o over /\ body \in Seq(E)
    BY <1>13 DEF IsFinal, Glued, over, E
  <1>15. /\ json \in Seq(E) /\ Len(json) = Len(body) + Len(over)
         /\ \A j \in 1..Len(body) + Len(over) : json[j] = IF j <= Len(body) THEN body[j] ELSE over[j - Len(body)]
    BY <1>6, <1>14, ConcatProperties
  <1>16. \E i \in 1..Len(json) : json[i].event = "finish" /\ json[i].task = t
    <2>1. PICK i \in 1..Len(over) : over[i].event = "finish" /\ over[i].task = t
      BY <1>4
    <2>2. Len(body) \in Nat /\ Len(over) \in Nat
      BY <1>6, <1>14, LenProperties
    <2>3. Len(body) + i \in 1..Len(body) + Len(over) /\ ~ (Len(body) + i <= Len(body)) /\ Len(body) + i - Len(body) = i
      BY <2>2
    <2>4. json[Len(body) + i] = over[i]
      BY <1>15, <2>3
    <2> QED
      BY <1>15, <2>1, <2>3, <2>4
  <1> QED
    BY <1>13, <1>15, <1>16 DEF json, E

RsNames == RsHead \cup RsBody \cup RsEnd \cup {"null", "ping", "error", "[DONE]"}
RsAll   == RsEvents(Nat, RsNames)
RsGood  == RsEvents(Nat, RsHead \cup RsBody \cup RsEnd \cup {"null", "ping"})

(* What was written or is ready to be.                                     *)
RsLog   == IF http.phase = "flush" THEN http.data ELSE out
RsEnded == {t \in Tasks : slot[t].sent = "ended"}
RsDone(q, t) == \E i \in 1..Len(q) : q[i].event = "finish" /\ q[i].task = t
IsHttp(h) == DOMAIN h = {"phase", "why", "data", "pings"} /\ h = [x \in DOMAIN h |-> h[x]]

(* The ways in which the response changes.                                 *)
ClosedTo(h, g, y)     == g = [h EXCEPT !.phase = "closed", !.why = y]
StartedTo(h, g, x, y) == g = [h EXCEPT !.phase = x, !.data = y]
PingedTo(h, g)        == g = [h EXCEPT !.pings = @ + 1]

\* A response that ends.
LEMMA ClosedHttp ==
    ASSUME NEW h, IsHttp(h), NEW y, NEW g, ClosedTo(h, g, y)
    PROVE  IsHttp(g) /\ g.phase = "closed" /\ g.why = y /\ g.data = h.data /\ g.pings = h.pings
  <1>1. DOMAIN h = {"phase", "why", "data", "pings"} /\ h = [z \in DOMAIN h |-> h[z]]
    BY DEF IsHttp
  <1> QED
    BY <1>1 DEF IsHttp, ClosedTo

\* A response that is told its first events.
LEMMA StartedHttp ==
    ASSUME NEW h, IsHttp(h), NEW x, NEW y, NEW g, StartedTo(h, g, x, y)
    PROVE  IsHttp(g) /\ g.phase = x /\ g.data = y /\ g.why = h.why /\ g.pings = h.pings
  <1>1. DOMAIN h = {"phase", "why", "data", "pings"} /\ h = [z \in DOMAIN h |-> h[z]]
    BY DEF IsHttp
  <1> QED
    BY <1>1 DEF IsHttp, StartedTo

\* A ping is counted.
LEMMA PingedHttp ==
    ASSUME NEW h, IsHttp(h), NEW g, PingedTo(h, g)
    PROVE  IsHttp(g) /\ g.phase = h.phase /\ g.data = h.data /\ g.why = h.why
  <1>1. DOMAIN h = {"phase", "why", "data", "pings"} /\ h = [z \in DOMAIN h |-> h[z]]
    BY DEF IsHttp
  <1> QED
    BY <1>1 DEF IsHttp, PingedTo

\* What next() makes of a result.
LEMMA JsonFacts ==
    ASSUME NEW kind, NEW events
    PROVE  Json(kind, events).kind = kind /\ Json(kind, events).events = events
  BY DEF Json

(* The inductive invariant of every answer.  While the response is open,   *)
(* the final results that were received are those of the tasks that ended, *)
(* and each of them has the event that finishes it, or its whole answer.   *)
RsCore ==
    /\ setup \in Setups /\ ResultTypeOK /\ IsHttp(http)
    /\ results = [t \in Tasks |-> results[t]]
    /\ Stream => http.phase # "whole" /\ out \in Seq(RsAll)
    /\ ~ Stream => http.phase \in {"whole", "closed"}
    /\ http.phase \in {"whole", "first", "flush"} => out = <<>>
    /\ http.phase # "closed" => http.why = "" /\ received = Cardinality(RsEnded)
    /\ http.phase # "closed" /\ Stream => RsLog \in Seq(RsGood) /\ \A t \in RsEnded : RsDone(RsLog, t)
    /\ http.phase # "closed" /\ ~ Stream => \A t \in RsEnded : \E a : results[t] = <<a>> /\ a.task = t

(* A step of an open stream that adds events, and one that closes it.      *)
Kept(events) ==
    /\ http.phase # "closed" /\ http'.phase \in {"flush", "stream"} /\ http'.why = http.why /\ IsHttp(http')
    /\ http'.phase = "flush" => http'.data # <<>> /\ out' = <<>>
    /\ RsLog' = RsLog \o events /\ results' = results
Cut ==
    /\ http'.phase = "closed" /\ IsHttp(http') /\ results' = results
    /\ \/ http'.why = "error" /\ http.phase = "stream" /\ out' = out \o <<Failed>>
       \/ http'.why = "status" /\ http.phase = "first" /\ out = <<>> /\ out' = <<>>

\* How a result of a stream is handled.
LEMMA HandleStream ==
    ASSUME RsCore, Stream, NEW kind \in {"null", "events", "final", "error"},
           NEW events \in Seq(RsGood), kind \in {"null", "error"} => events = <<>>, Handle(Json(kind, events))
    PROVE  \/ kind = "error" /\ Cut
           \/ kind = "null" /\ (Cut \/ Kept(<<>>) \/ Kept(<<About(0, "null")>>))
           \/ kind \in {"events", "final"} /\ Kept(events)
  <1> DEFINE json == Json(kind, events)
  <1>1. json.kind = kind /\ json.events = events
    BY JsonFacts
  <1> HIDE DEF json
  <1>2. /\ http.phase # "whole" /\ IsHttp(http) /\ out \in Seq(RsAll)
        /\ http.phase = "first" => out = <<>>
        /\ http.phase \in {"first", "stream"} => RsLog = out
        /\ http.phase \in {"first", "stream"} => RsLog \in Seq(RsGood)
    BY DEF RsCore, RsLog
  <1>3. CASE http.phase = "first" /\ Start(json) /\ UNCHANGED results
    <2>1. CASE kind = "error"
      <3>1. http' = [http EXCEPT !.phase = "closed", !.why = "status"] /\ out' = out \o <<>>
        BY <1>1, <1>3, <2>1 DEF Start, Close
      <3>2. out = <<>> /\ out' = <<>>
        BY <3>1, <1>2, <1>3, Nil
      <3>3. IsHttp(http') /\ http'.phase = "closed" /\ http'.why = "status"
        <4>1. ClosedTo(http, http', "status")
          BY <3>1 DEF ClosedTo
        <4> QED
          BY <4>1, <1>2, ClosedHttp
      <3> QED
        BY <3>2, <3>3, <1>3, <2>1 DEF Cut
    <2>2. CASE kind # "error"
      <3>1. /\ events = <<>> => http' = [http EXCEPT !.phase = "stream", !.data = events]
            /\ events # <<>> => http' = [http EXCEPT !.phase = "flush", !.data = events]
            /\ out' = out
        BY <1>1, <1>3, <2>2 DEF Start
      <3>2. /\ IsHttp(http') /\ http'.data = events /\ http'.why = http.why
            /\ events = <<>> => http'.phase = "stream"
            /\ events # <<>> => http'.phase = "flush"
        <4>1. /\ events = <<>> => StartedTo(http, http', "stream", events)
              /\ events # <<>> => StartedTo(http, http', "flush", events)
          BY <3>1 DEF StartedTo
        <4> QED
          BY <4>1, <1>2, StartedHttp
      <3>3. RsLog' = events /\ out' = <<>> /\ RsLog = <<>>
        BY <3>1, <3>2, <1>2, <1>3 DEF RsLog
      <3>4. RsLog' = RsLog \o events
        BY <3>3, ConcatEmptySeq
      <3>5. Kept(events)
        BY <3>2, <3>3, <3>4, <1>3 DEF Kept
      <3> QED
        BY <3>5, <2>2
    <2> QED
      BY <2>1, <2>2
  <1>4. CASE http.phase = "stream" /\ Write(json) /\ UNCHANGED results
    <2>1. ASSUME Close("error", <<Failed>>) PROVE Cut
      <3>1. http' = [http EXCEPT !.phase = "closed", !.why = "error"] /\ out' = out \o <<Failed>>
        BY <2>1 DEF Close
      <3>2. IsHttp(http') /\ http'.phase = "closed" /\ http'.why = "error"
        <4>1. ClosedTo(http, http', "error")
          BY <3>1 DEF ClosedTo
        <4> QED
          BY <4>1, <1>2, ClosedHttp
      <3> QED
        BY <3>1, <3>2, <1>4 DEF Cut
    <2>2. CASE kind = "error"
      BY <1>1, <1>4, <2>1, <2>2 DEF Write
    <2>3. CASE kind = "null" /\ Format = "resp"
      BY <1>1, <1>4, <2>1, <2>3 DEF Write
    <2>4. CASE kind = "null" /\ Format # "resp"
      <3>1. out' = Append(out, About(0, "null")) /\ http' = http
        BY <1>1, <1>4, <2>4 DEF Write
      <3>2. out' = out \o <<About(0, "null")>>
        <4>1. About(0, "null") \in RsAll
          <5>1. "null" \in RsNames
            BY DEF RsNames
          <5> QED
            BY <5>1, EventFacts DEF About, RsAll
        <4> QED
          BY <3>1, <4>1, <1>2, AppendIsConcat
      <3>3. RsLog' = RsLog \o <<About(0, "null")>>
        BY <3>1, <3>2, <1>4 DEF RsLog
      <3> QED
        BY <3>1, <3>3, <1>2, <1>4, <2>4 DEF Kept
    <2>5. CASE kind \in {"events", "final"}
      <3>1. out' = out \o events /\ http' = http
        BY <1>1, <1>4, <2>5 DEF Write
      <3>2. RsLog' = RsLog \o events
        BY <3>1, <1>4 DEF RsLog
      <3> QED
        BY <3>1, <3>2, <1>2, <1>4, <2>5 DEF Kept
    <2> QED
      BY <2>2, <2>3, <2>4, <2>5
  <1> QED
    BY <1>2, <1>3, <1>4 DEF Handle, json

(* The records of the tasks.                                               *)
SlotType  == [sent : {"nothing", "some", "ended"}, n_gen : 0..MaxParts, reports : 0..MaxIdle]
StateType == [msg : Messages, thinking : BOOLEAN, text : BOOLEAN, created : BOOLEAN]

\* What a slot has sent for a task.
LEMMA SentFacts ==
    ASSUME setup \in Setups, slot \in [Tasks -> SlotType], NEW t \in Tasks,
           NEW how \in {"nothing", "some", "ended"}, NEW n \in 0..MaxParts, NEW k \in 0..1,
           slot[t].reports + k <= MaxIdle, Sent(t, how, n, k), Tasks' = Tasks
    PROVE  /\ slot' \in [Tasks -> SlotType]
           /\ slot'[t].sent = how /\ slot'[t].n_gen = n
           /\ \A u \in Tasks : u # t => slot'[u] = slot[u]
           /\ RsEnded' = IF how = "ended" THEN RsEnded \cup {t} ELSE RsEnded \ {t}
  <1>1. slot' = [slot EXCEPT ![t] = [sent |-> how, n_gen |-> n, reports |-> slot[t].reports + k]]
    BY DEF Sent
  <1>2. slot[t].reports \in 0..MaxIdle /\ MaxIdle \in Nat
    BY SetupFacts DEF SlotType
  <1>3. slot[t].reports + k \in 0..MaxIdle
    BY <1>2
  <1>4. [sent |-> how, n_gen |-> n, reports |-> slot[t].reports + k] \in SlotType
    BY <1>3 DEF SlotType
  <1>5. /\ slot' \in [Tasks -> SlotType]
        /\ slot'[t] = [sent |-> how, n_gen |-> n, reports |-> slot[t].reports + k]
        /\ \A u \in Tasks : u # t => slot'[u] = slot[u]
    BY <1>1, <1>4
  <1>6. slot'[t].sent = how /\ slot'[t].n_gen = n
    BY <1>5
  <1>7. ASSUME NEW u \in Tasks
        PROVE  u \in RsEnded' <=> (u = t /\ how = "ended") \/ (u # t /\ u \in RsEnded)
    BY <1>5, <1>6 DEF RsEnded
  <1>8. RsEnded \subseteq Tasks /\ RsEnded' \subseteq Tasks
    BY DEF RsEnded
  <1> QED
    BY <1>5, <1>6, <1>7, <1>8

(* A reasoning or a text has begun with what a token added.                *)
Thinks(st, m) == st.thinking \/ GrewReasoning(st.msg, m)
Shows(st, m)  == st.text \/ GrewText(st.msg, m)

\* The state of a task after a result.
LEMMA UpdatedFacts ==
    ASSUME setup \in Setups, NEW st \in StateType, NEW m \in Grown(st.msg), NEW first \in BOOLEAN
    PROVE  LET g == Updated(st, m, first)
           IN  /\ g \in StateType /\ g.msg = m
               /\ g.thinking <=> Thinks(st, m)
               /\ g.text <=> Shows(st, m)
               /\ g.created <=> st.created \/ (Format = "resp" /\ first)
  <1> DEFINE g == Updated(st, m, first)
             diffs == Diffs(st.msg, m)
             a == st.thinking \/ \E i \in DOMAIN diffs : diffs[i].reasoning > 0
             b == st.text \/ \E i \in DOMAIN diffs : diffs[i].text > 0
             c == st.created \/ (Format = "resp" /\ first)
  <1>1. g = [msg |-> m, thinking |-> a, text |-> b, created |-> c]
    BY DEF Updated
  <1>2. st.msg \in Messages /\ st.thinking \in BOOLEAN /\ st.text \in BOOLEAN /\ st.created \in BOOLEAN
    BY DEF StateType
  <1>3. m \in Messages
    BY <1>2, GrownCases
  <1>4. a \in BOOLEAN /\ b \in BOOLEAN /\ c \in BOOLEAN
    BY <1>2
  <1>5. (a <=> Thinks(st, m)) /\ (b <=> Shows(st, m))
    <2>1. CASE m = st.msg /\ diffs = <<>>
      <3>1. DOMAIN diffs = {}
        BY <2>1
      <3>2. ~ GrewReasoning(st.msg, m) /\ ~ GrewText(st.msg, m)
        <4>1. m.reasoning \in Nat /\ m.text \in Nat
          BY <1>3, MessageFacts
        <4> QED
          BY <2>1, <4>1 DEF GrewReasoning, GrewText
      <3> HIDE DEF diffs
      <3> QED
        BY <3>1, <3>2 DEF Thinks, Shows
    <2>2. ASSUME NEW d, NEW at, NEW k, Change(st.msg, m, d, at, k), diffs = <<d>>
          PROVE  (a <=> Thinks(st, m)) /\ (b <=> Shows(st, m))
      <3>1. DOMAIN diffs = {1} /\ diffs[1] = d
        BY <2>2
      <3>2. (d.reasoning > 0 <=> GrewReasoning(st.msg, m)) /\ (d.text > 0 <=> GrewText(st.msg, m))
        <4>1. /\ GrewReasoning(st.msg, m) => ~ GrewText(st.msg, m) /\ ~ GrewNew(st.msg, m) /\ ~ GrewCall(st.msg, m)
              /\ GrewText(st.msg, m) => ~ GrewNew(st.msg, m) /\ ~ GrewCall(st.msg, m)
          BY <1>2, <1>3, ChangeKinds
        <4>2. /\ NewReasoning.reasoning = 1 /\ NewReasoning.text = 0
              /\ NewText.reasoning = 0 /\ NewText.text = 1
              /\ NewArgument(Len(m.calls)).reasoning = 0 /\ NewArgument(Len(m.calls)).text = 0
              /\ NewCall(Len(m.calls), k).reasoning = 0 /\ NewCall(Len(m.calls), k).text = 0
          BY NewFacts
        <4> QED
          BY <2>2, <4>1, <4>2 DEF Change
      <3> HIDE DEF diffs
      <3> QED
        BY <3>1, <3>2 DEF Thinks, Shows
    <2> QED
      BY <1>2, <2>1, <2>2, ChangeFacts
  <1> HIDE DEF a, b, c, g
  <1>6. g \in StateType /\ g.msg = m /\ g.thinking = a /\ g.text = b /\ g.created = c
    BY <1>1, <1>3, <1>4 DEF StateType
  <1> QED
    BY <1>5, <1>6 DEF c, g

\* The state that every answer keeps.
LEMMA CoreFacts ==
    ASSUME RsCore
    PROVE  /\ setup \in Setups /\ slot \in [Tasks -> SlotType] /\ state \in [Tasks -> StateType]
           /\ received \in 0..NTasks /\ NTasks \in Nat \ {0} /\ Tasks = 1..NTasks
           /\ MaxParts \in Nat /\ MaxIdle \in Nat
  <1>1. setup \in Setups /\ ResultTypeOK
    BY DEF RsCore
  <1> QED
    BY <1>1, SetupFacts DEF ResultTypeOK, SlotType, StateType

\* The state of one task.
LEMMA StateFacts ==
    ASSUME RsCore, NEW t \in Tasks
    PROVE  /\ state[t] \in StateType /\ state[t].msg \in Messages /\ state[t].msg \in Grown(state[t].msg)
           /\ state[t].thinking \in BOOLEAN /\ state[t].text \in BOOLEAN /\ state[t].created \in BOOLEAN
           /\ slot[t].sent \in {"nothing", "some", "ended"} /\ slot[t].n_gen \in 0..MaxParts /\ slot[t].reports \in 0..MaxIdle
           /\ t \in Nat /\ t # 0
  <1>1. state[t] \in StateType /\ slot[t] \in SlotType /\ t \in Nat /\ t # 0
    BY CoreFacts
  <1>2. /\ state[t].msg \in Messages
        /\ state[t].thinking \in BOOLEAN /\ state[t].text \in BOOLEAN /\ state[t].created \in BOOLEAN
        /\ slot[t].sent \in {"nothing", "some", "ended"} /\ slot[t].n_gen \in 0..MaxParts /\ slot[t].reports \in 0..MaxIdle
    BY <1>1 DEF StateType, SlotType
  <1>3. state[t].msg \in Grown(state[t].msg)
    BY <1>2 DEF Grown
  <1> QED
    BY <1>1, <1>2, <1>3

(* What a result of a stream does: the begin marker, a report or a part,   *)
(* a final result, or what closes the stream.                              *)
Marked(t) ==
    /\ slot[t].sent = "nothing" /\ Sent(t, "some", 0, 0) /\ UNCHANGED <<state, received>>
    /\ Kept(<<>>) \/ Kept(<<About(0, "null")>>)
Spoke(t, m, w, first, n, k) ==
    /\ slot[t].sent # "ended" /\ slot[t].reports + k <= MaxIdle
    /\ Sent(t, "some", n, k) /\ Kept(PartJson(t, m, w, n))
    /\ state' = [state EXCEPT ![t] = Updated(state[t], m, first)] /\ UNCHANGED received
    /\ \/ w /\ first /\ m = state[t].msg /\ n = 0 /\ k = 1 /\ slot[t].n_gen = 0 /\ Progress
       \/ /\ ~ w /\ (first <=> n = 1) /\ k = 0 /\ slot[t].sent = "some"
          /\ n = slot[t].n_gen + 1 \/ (Split /\ slot[t].n_gen = 0 /\ n = 2)
Told(t) ==
    \E m \in Grown(state[t].msg), n \in 0..MaxParts, k \in 0..1 : \E w, first \in BOOLEAN : Spoke(t, m, w, first, n, k)
Finishes(t, m) ==
    /\ slot[t].sent # "ended" /\ slot[t].n_gen > 0 /\ (m = state[t].msg \/ Late)
    /\ Kept(FinalJson(t, m)) /\ state' = [state EXCEPT ![t].msg = m]
    /\ Sent(t, "ended", slot[t].n_gen, 0) /\ received' = received + 1
Concluded(t) == \E m \in Grown(state[t].msg) : Finishes(t, m)
Broken == Cut /\ slot' \in [Tasks -> SlotType] /\ UNCHANGED <<state, received>>

\* The events of the tasks are good ones.
LEMMA GoodEvents ==
    ASSUME NEW t \in Nat
    PROVE  /\ Seq(RsEvents({t}, RsHead \cup RsBody)) \subseteq Seq(RsGood)
           /\ Seq(RsEvents({t}, RsBody \cup RsEnd)) \subseteq Seq(RsGood)
  <1>1. RsEvents({t}, RsHead \cup RsBody) \subseteq RsGood /\ RsEvents({t}, RsBody \cup RsEnd) \subseteq RsGood
    BY DEF RsEvents, RsGood
  <1> QED
    BY <1>1, SeqMonotonic

\* There are no other results.
LEMMA ReceiveCases ==
    ASSUME RsCore, Stream, Receive, setup' = setup
    PROVE  Broken \/ \E t \in Tasks : Marked(t) \/ Told(t) \/ Concluded(t)
  <1>1. PICK t \in Tasks : Begin(t) \/ Report(t) \/ Part(t) \/ Final(t) \/ Error(t)
    BY DEF Receive
  <1>2. /\ state[t].msg \in Messages /\ state[t].msg \in Grown(state[t].msg)
        /\ state[t].thinking \in BOOLEAN /\ state[t].text \in BOOLEAN /\ state[t].created \in BOOLEAN
        /\ slot[t].n_gen \in 0..MaxParts /\ slot[t].reports \in 0..MaxIdle /\ t \in Nat
        /\ slot \in [Tasks -> SlotType] /\ setup \in Setups /\ MaxParts \in Nat /\ MaxIdle \in Nat
    BY CoreFacts, StateFacts
  <1>3. Tasks' = Tasks
    BY DEF Tasks, NTasks
  <1>4. CASE Begin(t)
    <2>1. /\ slot[t].sent = "nothing" /\ Sent(t, "some", 0, 0) /\ UNCHANGED <<state, received>>
          /\ Handle(Json("null", <<>>))
      BY <1>4 DEF Begin
    <2>2. Cut \/ Kept(<<>>) \/ Kept(<<About(0, "null")>>)
      <3>1. <<>> \in Seq(RsGood)
        OBVIOUS
      <3> QED
        BY <2>1, <3>1, HandleStream
    <2>3. slot' \in [Tasks -> SlotType]
      <3>1. 0 \in 0..MaxParts /\ 0 \in 0..1 /\ slot[t].reports + 0 <= MaxIdle
        BY <1>2
      <3> QED
        BY <2>1, <3>1, <1>2, <1>3, SentFacts
    <2> QED
      BY <2>1, <2>2, <2>3 DEF Marked, Broken
  <1>5. CASE Report(t)
    <2>1. PICK yes \in BOOLEAN : yes
      OBVIOUS
    <2>2. /\ Progress /\ slot[t].sent # "ended" /\ slot[t].n_gen = 0 /\ slot[t].reports < MaxIdle
          /\ Sent(t, "some", 0, 1)
          /\ Handle(Json("events", PartJson(t, state[t].msg, yes, 0)))
          /\ state' = [state EXCEPT ![t] = Updated(state[t], state[t].msg, yes)]
          /\ UNCHANGED received
      <3>1. yes = TRUE
        BY <2>1
      <3> QED
        BY <1>5, <3>1 DEF Report
    <2>3. PartJson(t, state[t].msg, yes, 0) \in Seq(RsGood)
      <3>1. PartJson(t, state[t].msg, yes, 0) \in Seq(RsEvents({t}, RsHead \cup RsBody))
        BY <1>2, PartTyped
      <3> QED
        BY <3>1, <1>2, GoodEvents
    <2>4. Kept(PartJson(t, state[t].msg, yes, 0))
      BY <2>2, <2>3, HandleStream
    <2>5. slot[t].reports + 1 <= MaxIdle
      BY <2>2, <1>2
    <2>6. Spoke(t, state[t].msg, yes, yes, 0, 1)
      BY <2>1, <2>2, <2>4, <2>5 DEF Spoke
    <2>7. 0 \in 0..MaxParts /\ 1 \in 0..1
      BY <1>2
    <2>8. Told(t)
      BY <2>6, <2>7, <1>2 DEF Told
    <2> QED
      BY <2>8
  <1>6. CASE Part(t)
    <2>1. PICK n \in {1} \cup (IF Split /\ slot[t].n_gen = 0 THEN {2} ELSE {}), m \in Grown(state[t].msg) :
               /\ slot[t].n_gen + n <= MaxParts
               /\ Sent(t, "some", slot[t].n_gen + n, 0)
               /\ Handle(Json("events", PartJson(t, m, FALSE, slot[t].n_gen + n)))
               /\ state' = [state EXCEPT ![t] = Updated(state[t], m, slot[t].n_gen + n = 1)]
      BY <1>6 DEF Part
    <2>2. slot[t].sent = "some" /\ UNCHANGED received
      BY <1>6 DEF Part
    <2> DEFINE j == slot[t].n_gen + n
               one == j = 1
    <2>3. j \in 0..MaxParts /\ (j = slot[t].n_gen + 1 \/ (Split /\ slot[t].n_gen = 0 /\ j = 2)) /\ j \in Nat
      BY <2>1, <1>2
    <2>4. PICK no, first \in BOOLEAN : ~ no /\ (first <=> j = 1) /\ first = one
      <3>1. one \in BOOLEAN /\ (one <=> j = 1)
        OBVIOUS
      <3> HIDE DEF one
      <3> QED
        BY <3>1
    <2>5. /\ Sent(t, "some", j, 0)
          /\ Handle(Json("events", PartJson(t, m, no, j)))
          /\ state' = [state EXCEPT ![t] = Updated(state[t], m, first)]
      <3>1. no = FALSE /\ first = one
        BY <2>4
      <3>2. state' = [state EXCEPT ![t] = Updated(state[t], m, one)]
        BY <2>1
      <3> QED
        BY <2>1, <3>1, <3>2
    <2> HIDE DEF j, one
    <2>6. PartJson(t, m, no, j) \in Seq(RsGood)
      <3>1. PartJson(t, m, no, j) \in Seq(RsEvents({t}, RsHead \cup RsBody))
        BY <2>3, <1>2, PartTyped
      <3> QED
        BY <3>1, <1>2, GoodEvents
    <2>7. Kept(PartJson(t, m, no, j))
      BY <2>5, <2>6, HandleStream
    <2>8. slot[t].reports + 0 <= MaxIdle /\ slot[t].sent # "ended"
      BY <2>2, <1>2
    <2>9. Spoke(t, m, no, first, j, 0)
      BY <2>2, <2>3, <2>4, <2>5, <2>7, <2>8 DEF Spoke
    <2>10. Told(t)
      <3>1. 0 \in 0..1
        OBVIOUS
      <3> QED
        BY <3>1, <2>3, <2>9 DEF Told
    <2> QED
      BY <2>10
  <1>7. CASE Final(t)
    <2>1. /\ slot[t].sent # "ended" /\ slot[t].n_gen > 0 /\ Sent(t, "ended", slot[t].n_gen, 0) /\ received' = received + 1
          /\ \E m \in IF Late THEN Grown(state[t].msg) ELSE {state[t].msg} :
               /\ Handle(Json("final", FinalJson(t, m)))
               /\ state' = [state EXCEPT ![t].msg = m]
      BY <1>7 DEF Final
    <2>2. PICK m \in Grown(state[t].msg) :
               /\ m = state[t].msg \/ Late
               /\ Handle(Json("final", FinalJson(t, m)))
               /\ state' = [state EXCEPT ![t].msg = m]
      <3>1. CASE Late
        BY <2>1, <3>1
      <3>2. CASE ~ Late
        BY <2>1, <3>2, <1>2
      <3> QED
        BY <3>1, <3>2
    <2>3. FinalJson(t, m) \in Seq(RsGood)
      <3>1. FinalJson(t, m) \in Seq(RsEvents({t}, RsBody \cup RsEnd))
        BY <1>2, FinalShape
      <3> QED
        BY <3>1, <1>2, GoodEvents
    <2>4. Kept(FinalJson(t, m))
      BY <2>2, <2>3, HandleStream
    <2>5. Finishes(t, m)
      BY <2>1, <2>2, <2>4 DEF Finishes
    <2> QED
      BY <2>5 DEF Concluded
  <1>8. CASE Error(t)
    <2>1. /\ Sent(t, "ended", slot[t].n_gen, 0) /\ UNCHANGED <<state, received>>
          /\ Handle(Json("error", <<>>))
      BY <1>8 DEF Error
    <2>2. Cut
      <3>1. <<>> \in Seq(RsGood)
        OBVIOUS
      <3> QED
        BY <2>1, <3>1, HandleStream
    <2>3. slot' \in [Tasks -> SlotType]
      <3>1. 0 \in 0..1 /\ slot[t].reports + 0 <= MaxIdle
        BY <1>2
      <3> QED
        BY <2>1, <3>1, <1>2, <1>3, SentFacts
    <2> QED
      BY <2>1, <2>2, <2>3 DEF Broken
  <1> QED
    BY <1>1, <1>4, <1>5, <1>6, <1>7, <1>8

(* Nothing is received: the first chunk is written or a ping, or the       *)
(* response ends.                                                          *)
Idle == UNCHANGED <<slot, state, received>> /\ (Kept(<<>>) \/ Kept(<<About(0, "ping")>>))
DoneTail == If(Format \notin {"plain", "resp", "anthropic"}, <<About(0, "[DONE]")>>)
Shutting(why, events) ==
    /\ http'.phase = "closed" /\ http'.why = why /\ IsHttp(http') /\ out' = out \o events
    /\ UNCHANGED <<slot, state, received, results>>
Completes == http.phase = "stream" /\ received = NTasks /\ Shutting("done", DoneTail)
Leaves == http.phase # "closed" /\ Shutting("left", <<>>)

\* A response is closed.
LEMMA CloseFacts ==
    ASSUME RsCore, NEW why, NEW events, Close(why, events)
    PROVE  http'.phase = "closed" /\ http'.why = why /\ IsHttp(http') /\ out' = out \o events
  <1>1. IsHttp(http)
    BY DEF RsCore
  <1>2. ClosedTo(http, http', why) /\ out' = out \o events
    BY DEF Close, ClosedTo
  <1> QED
    BY <1>1, <1>2, ClosedHttp

\* What a stream can do.
LEMMA StreamSteps ==
    ASSUME RsCore, Stream, ResultNext
    PROVE  /\ setup' = setup
           /\ \/ \E t \in Tasks : Marked(t) \/ Told(t) \/ Concluded(t)
              \/ Idle \/ Broken \/ Completes \/ Leaves
  <1>1. /\ http.phase # "whole" /\ IsHttp(http) /\ out \in Seq(RsAll)
        /\ http.phase = "flush" => out = <<>> /\ RsLog = http.data /\ http.data \in Seq(RsGood)
        /\ http.phase = "stream" => RsLog = out
    <2>1. http.phase = "flush" => http.phase # "closed"
      OBVIOUS
    <2> QED
      BY <2>1 DEF RsCore, RsLog
  <1>2. CASE FirstResult \/ NextResult \/ CollectResult
    BY <1>2, ReceiveCases DEF FirstResult, NextResult, CollectResult
  <1>3. CASE ReplyWhole
    BY <1>1, <1>3 DEF ReplyWhole
  <1>4. CASE FlushFirst
    <2>1. /\ http.phase = "flush" /\ StartedTo(http, http', "stream", <<>>) /\ out' = out \o http.data
          /\ UNCHANGED <<setup, slot, state, received, results>>
      BY <1>4 DEF FlushFirst, StartedTo
    <2>2. IsHttp(http') /\ http'.phase = "stream" /\ http'.why = http.why
      BY <1>1, <2>1, StartedHttp
    <2>3. out' = http.data
      <3>1. out' = <<>> \o http.data
        BY <1>1, <2>1
      <3> QED
        BY <1>1, <2>1, <3>1, ConcatEmptySeq
    <2>4. RsLog' = RsLog
      BY <1>1, <2>1, <2>2, <2>3 DEF RsLog
    <2>5. RsLog \o <<>> = RsLog
      BY <1>1, <2>1, ConcatEmptySeq
    <2>6. Kept(<<>>)
      BY <2>1, <2>2, <2>4, <2>5 DEF Kept
    <2> QED
      BY <2>1, <2>6 DEF Idle
  <1>5. CASE UpdateThrows
    <2>1. PICK t \in Tasks : slot[t].sent = "some" /\ Sent(t, "ended", slot[t].n_gen, 0)
      BY <1>5 DEF UpdateThrows
    <2>2. http.phase = "stream" /\ Close("error", <<Failed>>) /\ UNCHANGED <<setup, state, received, results>>
      BY <1>5 DEF UpdateThrows
    <2>3. Cut
      BY <2>2, CloseFacts DEF Cut
    <2>4. slot' \in [Tasks -> SlotType]
      <3>1. slot \in [Tasks -> SlotType] /\ setup \in Setups /\ slot[t].n_gen \in 0..MaxParts /\ slot[t].reports \in 0..MaxIdle
        BY CoreFacts, StateFacts
      <3>2. 0 \in 0..1 /\ slot[t].reports + 0 <= MaxIdle /\ Tasks' = Tasks
        BY <2>2, <3>1, CoreFacts DEF Tasks, NTasks
      <3> QED
        BY <2>1, <3>1, <3>2, SentFacts
    <2> QED
      BY <2>2, <2>3, <2>4 DEF Broken
  <1>6. CASE Ping
    <2>1. /\ http.phase = "stream" /\ PingedTo(http, http') /\ out' = Append(out, About(0, "ping"))
          /\ UNCHANGED <<setup, slot, state, received, results>>
      BY <1>6 DEF Ping, PingedTo
    <2>2. IsHttp(http') /\ http'.phase = "stream" /\ http'.why = http.why
      BY <1>1, <2>1, PingedHttp
    <2>3. out' = out \o <<About(0, "ping")>>
      <3>1. About(0, "ping") \in RsAll
        <4>1. "ping" \in RsNames
          BY DEF RsNames
        <4> QED
          BY <4>1, EventFacts DEF About, RsAll
      <3> QED
        BY <2>1, <3>1, <1>1, AppendIsConcat
    <2>4. RsLog' = RsLog \o <<About(0, "ping")>>
      BY <1>1, <2>1, <2>2, <2>3 DEF RsLog
    <2>5. Kept(<<About(0, "ping")>>)
      BY <2>1, <2>2, <2>4 DEF Kept
    <2> QED
      BY <2>1, <2>5 DEF Idle
  <1>7. CASE EndStream
    <2>1. /\ http.phase = "stream" /\ ~ (received < NTasks) /\ Close("done", DoneTail)
          /\ UNCHANGED <<setup, slot, state, received, results>>
      BY <1>7 DEF EndStream, HasNext, DoneTail
    <2>2. received = NTasks
      BY <2>1, CoreFacts
    <2> QED
      BY <2>1, <2>2, CloseFacts DEF Completes, Shutting
  <1>8. CASE ClientLeaves
    <2>1. http.phase # "closed" /\ Close("left", <<>>) /\ UNCHANGED <<setup, slot, state, received, results>>
      BY <1>8 DEF ClientLeaves
    <2> QED
      BY <2>1, CloseFacts DEF Leaves, Shutting
  <1> QED
    BY <1>2, <1>3, <1>4, <1>5, <1>6, <1>7, <1>8 DEF ResultNext

\* A step of an open stream keeps what all answers have.
LEMMA CoreKept ==
    ASSUME RsCore, Stream, setup' = setup, NEW events \in Seq(RsGood), Kept(events),
           slot' \in [Tasks -> SlotType], state' \in [Tasks -> StateType],
           received' \in 0..NTasks, received' = Cardinality(RsEnded'),
           \A t \in RsEnded' : t \in RsEnded \/ RsDone(events, t)
    PROVE  RsCore'
  <1>1. /\ setup' \in Setups /\ Tasks' = Tasks /\ NTasks' = NTasks /\ MaxParts' = MaxParts
        /\ SlotType' = SlotType /\ Stream'
    BY DEF RsCore, Tasks, NTasks, MaxParts, SlotType, Stream
  <1>2. /\ http.phase # "closed" /\ http'.phase \in {"flush", "stream"} /\ http'.why = http.why /\ IsHttp(http')
        /\ http'.phase = "flush" => http'.data # <<>> /\ out' = <<>>
        /\ RsLog' = RsLog \o events /\ results' = results
    BY DEF Kept
  <1>3. /\ RsLog \in Seq(RsGood) /\ http.why = "" /\ \A t \in RsEnded : RsDone(RsLog, t)
        /\ results = [t \in Tasks |-> results[t]]
    BY <1>2 DEF RsCore
  <1>4. ResultTypeOK'
    BY <1>1, <1>2 DEF ResultTypeOK, SlotType, StateType
  <1>5. RsLog' \in Seq(RsGood)
    BY <1>2, <1>3, ConcatProperties
  <1>6. out' \in Seq(RsAll)
    <2>1. RsGood \subseteq RsAll
      BY DEF RsGood, RsAll, RsEvents, RsNames
    <2>2. http'.phase = "stream" => out' \in Seq(RsAll)
      <3>1. http'.phase = "stream" => out' \in Seq(RsGood)
        BY <1>5 DEF RsLog
      <3> QED
        BY <2>1, <3>1, SeqMonotonic
    <2>3. <<>> \in Seq(RsAll)
      OBVIOUS
    <2> QED
      BY <1>2, <2>2, <2>3
  <1>7. ASSUME NEW t \in RsEnded' PROVE RsDone(RsLog', t)
    <2> DEFINE log == RsLog
               new == RsLog'
    <2>4. new = log \o events /\ log \in Seq(RsGood)
      BY <1>2, <1>3
    <2> HIDE DEF log, new
    <2>1. /\ Len(log) \in Nat /\ Len(events) \in Nat /\ Len(new) = Len(log) + Len(events)
          /\ \A j \in 1..Len(log) + Len(events) : new[j] = IF j <= Len(log) THEN log[j] ELSE events[j - Len(log)]
      BY <2>4, ConcatProperties, LenProperties
    <2>2. CASE RsDone(log, t)
      <3>1. PICK i \in 1..Len(log) : log[i].event = "finish" /\ log[i].task = t
        BY <2>2 DEF RsDone
      <3>2. i \in 1..Len(new) /\ new[i] = log[i]
        BY <2>1
      <3> QED
        BY <3>1, <3>2 DEF RsDone, new
    <2>3. CASE RsDone(events, t)
      <3>1. PICK i \in 1..Len(events) : events[i].event = "finish" /\ events[i].task = t
        BY <2>3 DEF RsDone
      <3> DEFINE j == Len(log) + i
      <3>2. j \in 1..Len(new) /\ ~ (j <= Len(log)) /\ j - Len(log) = i /\ j \in 1..Len(log) + Len(events)
        BY <2>1
      <3> HIDE DEF j
      <3>3. new[j] = events[i]
        BY <2>1, <3>2
      <3> QED
        BY <3>1, <3>2, <3>3 DEF RsDone, new
    <2> QED
      BY <1>3, <2>2, <2>3 DEF log
  <1>8. results' = [t \in Tasks' |-> results'[t]]
    BY <1>1, <1>2, <1>3
  <1> QED
    BY <1>1, <1>2, <1>3, <1>4, <1>5, <1>6, <1>7, <1>8 DEF RsCore

\* A step that closes a stream keeps what all answers have.
LEMMA CoreClosed ==
    ASSUME RsCore, Stream, setup' = setup, http'.phase = "closed", IsHttp(http'), results' = results,
           slot' \in [Tasks -> SlotType], UNCHANGED <<state, received>>, out' \in Seq(RsAll)
    PROVE  RsCore'
  <1>1. /\ setup' \in Setups /\ Tasks' = Tasks /\ NTasks' = NTasks /\ MaxParts' = MaxParts
        /\ SlotType' = SlotType /\ Stream'
    BY DEF RsCore, Tasks, NTasks, MaxParts, SlotType, Stream
  <1>2. state \in [Tasks -> StateType] /\ received \in 0..NTasks
    BY CoreFacts
  <1>3. ResultTypeOK'
    BY <1>1, <1>2 DEF ResultTypeOK, SlotType, StateType
  <1>4. results' = [t \in Tasks' |-> results'[t]]
    BY <1>1 DEF RsCore
  <1> QED
    BY <1>1, <1>3, <1>4 DEF RsCore

\* The tasks that ended.
LEMMA EndedFacts ==
    ASSUME RsCore
    PROVE  /\ IsFiniteSet(Tasks) /\ Cardinality(Tasks) = NTasks /\ IsFiniteSet(RsEnded) /\ RsEnded \subseteq Tasks
           /\ Cardinality(RsEnded) \in 0..NTasks
           /\ Cardinality(RsEnded) = NTasks => RsEnded = Tasks
           /\ \A t \in Tasks \ RsEnded : Cardinality(RsEnded \cup {t}) = Cardinality(RsEnded) + 1 /\ Cardinality(RsEnded) < NTasks
  <1>1. Tasks = 1..NTasks /\ NTasks \in Nat /\ RsEnded \subseteq Tasks
    BY CoreFacts DEF RsEnded
  <1>2. IsFiniteSet(Tasks) /\ Cardinality(Tasks) = NTasks
    BY <1>1, FS_Interval
  <1>3. IsFiniteSet(RsEnded) /\ Cardinality(RsEnded) <= NTasks /\ Cardinality(RsEnded) \in Nat
    BY <1>1, <1>2, FS_Subset, FS_CardinalityType
  <1>4. Cardinality(RsEnded) = NTasks => RsEnded = Tasks
    BY <1>1, <1>2, FS_Subset
  <1>5. ASSUME NEW t \in Tasks, t \notin RsEnded
        PROVE  Cardinality(RsEnded \cup {t}) = Cardinality(RsEnded) + 1 /\ Cardinality(RsEnded) < NTasks
    <2>1. Cardinality(RsEnded \cup {t}) = Cardinality(RsEnded) + 1
      BY <1>3, <1>5, FS_AddElement
    <2>2. Cardinality(RsEnded) # NTasks
      BY <1>4, <1>5
    <2> QED
      BY <2>1, <2>2, <1>1, <1>3
  <1> QED
    BY <1>1, <1>2, <1>3, <1>4, <1>5

\* The events that a step adds are good, and a final result finishes its task.
LEMMA NewEvents ==
    ASSUME RsCore, NEW t \in Tasks, NEW m \in Grown(state[t].msg)
    PROVE  /\ \A w \in BOOLEAN, n \in 0..MaxParts : PartJson(t, m, w, n) \in Seq(RsGood)
           /\ FinalJson(t, m) \in Seq(RsGood)
           /\ RsDone(FinalJson(t, m), t)
           /\ About(0, "null") \in RsGood /\ About(0, "ping") \in RsGood
  <1>1. /\ state[t].msg \in Messages /\ t \in Nat /\ setup \in Setups /\ MaxParts \in Nat
        /\ state[t].thinking \in BOOLEAN /\ state[t].text \in BOOLEAN /\ state[t].created \in BOOLEAN
    BY CoreFacts, StateFacts
  <1>2. ASSUME NEW w \in BOOLEAN, NEW n \in 0..MaxParts PROVE PartJson(t, m, w, n) \in Seq(RsGood)
    <2>1. n \in Nat
      BY <1>1
    <2>2. PartJson(t, m, w, n) \in Seq(RsEvents({t}, RsHead \cup RsBody))
      BY <1>1, <2>1, PartTyped
    <2> QED
      BY <1>1, <2>2, GoodEvents
  <1>3. FinalJson(t, m) \in Seq(RsGood)
    <2>1. FinalJson(t, m) \in Seq(RsEvents({t}, RsBody \cup RsEnd))
      BY <1>1, FinalShape
    <2> QED
      BY <1>1, <2>1, GoodEvents
  <1>4. RsDone(FinalJson(t, m), t)
    BY <1>1, FinalShape DEF RsDone
  <1>5. About(0, "null") \in RsGood /\ About(0, "ping") \in RsGood
    BY EventFacts DEF About, RsGood
  <1> QED
    BY <1>2, <1>3, <1>4, <1>5

\* A stream keeps what all answers have.
LEMMA CoreStream ==
    ASSUME RsCore, Stream, ResultNext
    PROVE  RsCore'
  <1>1. /\ setup' = setup
        /\ \/ \E t \in Tasks : Marked(t) \/ Told(t) \/ Concluded(t)
           \/ Idle \/ Broken \/ Completes \/ Leaves
    BY StreamSteps
  <1>2. /\ slot \in [Tasks -> SlotType] /\ state \in [Tasks -> StateType] /\ setup \in Setups
        /\ received \in 0..NTasks /\ NTasks \in Nat /\ MaxParts \in Nat /\ MaxIdle \in Nat /\ Tasks' = Tasks
        /\ out \in Seq(RsAll)
    BY <1>1, CoreFacts DEF RsCore, Tasks, NTasks
  <1>3. <<>> \in Seq(RsGood)
    OBVIOUS
  <1>4. http.phase # "closed" => received = Cardinality(RsEnded)
    BY DEF RsCore
  <1>5. ASSUME NEW events, Kept(events) PROVE received = Cardinality(RsEnded)
    BY <1>4, <1>5 DEF Kept
  <1>6. ASSUME NEW t \in Tasks, Marked(t) PROVE RsCore'
    <2>1. /\ slot[t].sent = "nothing" /\ Sent(t, "some", 0, 0) /\ state' = state /\ received' = received
      BY <1>6 DEF Marked
    <2>2. slot[t].reports + 0 <= MaxIdle /\ 0 \in 0..1 /\ 0 \in 0..MaxParts
      BY <1>2, StateFacts
    <2>3. slot' \in [Tasks -> SlotType] /\ RsEnded' = RsEnded \ {t}
      BY <2>1, <2>2, <1>2, SentFacts
    <2>4. RsEnded' = RsEnded
      BY <2>1, <2>3 DEF RsEnded
    <2>5. ASSUME NEW events \in Seq(RsGood), Kept(events) PROVE RsCore'
      BY <2>1, <2>3, <2>4, <2>5, <1>1, <1>2, <1>5, CoreKept
    <2>6. <<About(0, "null")>> \in Seq(RsGood)
      <3>1. About(0, "null") \in RsGood
        BY StateFacts, NewEvents
      <3> QED
        BY <3>1
    <2> QED
      BY <1>3, <1>6, <2>5, <2>6 DEF Marked
  <1>7. ASSUME NEW t \in Tasks, Told(t) PROVE RsCore'
    <2>1. PICK m \in Grown(state[t].msg), n \in 0..MaxParts, k \in 0..1 :
               \E w, first \in BOOLEAN : Spoke(t, m, w, first, n, k)
      BY <1>7 DEF Told
    <2>2. PICK w, first \in BOOLEAN : Spoke(t, m, w, first, n, k)
      BY <2>1
    <2>3. /\ slot[t].sent # "ended" /\ slot[t].reports + k <= MaxIdle
          /\ Sent(t, "some", n, k) /\ Kept(PartJson(t, m, w, n))
          /\ state' = [state EXCEPT ![t] = Updated(state[t], m, first)] /\ received' = received
      BY <2>2 DEF Spoke
    <2>4. slot' \in [Tasks -> SlotType] /\ RsEnded' = RsEnded \ {t}
      BY <2>3, <1>2, SentFacts
    <2>5. RsEnded' = RsEnded
      BY <2>3, <2>4 DEF RsEnded
    <2>6. Updated(state[t], m, first) \in StateType
      BY <1>2, UpdatedFacts
    <2>7. state' \in [Tasks -> StateType]
      BY <1>2, <2>3, <2>6
    <2>8. PartJson(t, m, w, n) \in Seq(RsGood)
      BY NewEvents
    <2> QED
      BY <2>3, <2>4, <2>5, <2>7, <2>8, <1>1, <1>2, <1>5, CoreKept
  <1>8. ASSUME NEW t \in Tasks, Concluded(t) PROVE RsCore'
    <2>1. PICK m \in Grown(state[t].msg) : Finishes(t, m)
      BY <1>8 DEF Concluded
    <2>2. /\ slot[t].sent # "ended" /\ Kept(FinalJson(t, m)) /\ state' = [state EXCEPT ![t].msg = m]
          /\ Sent(t, "ended", slot[t].n_gen, 0) /\ received' = received + 1
      BY <2>1 DEF Finishes
    <2>3. slot[t].n_gen \in 0..MaxParts /\ slot[t].reports + 0 <= MaxIdle /\ 0 \in 0..1
      BY <1>2, StateFacts
    <2>4. slot' \in [Tasks -> SlotType] /\ RsEnded' = RsEnded \cup {t}
      BY <2>2, <2>3, <1>2, SentFacts
    <2>5. t \notin RsEnded
      BY <2>2 DEF RsEnded
    <2>6. received' = Cardinality(RsEnded') /\ received' \in 0..NTasks
      <3>1. Cardinality(RsEnded \cup {t}) = Cardinality(RsEnded) + 1 /\ Cardinality(RsEnded) < NTasks
        BY <2>5, EndedFacts
      <3> QED
        BY <3>1, <2>2, <2>4, <1>2, <1>5
    <2>7. state' \in [Tasks -> StateType]
      <3>1. state[t] \in StateType /\ m \in Messages
        BY StateFacts, GrownCases
      <3>2. [state[t] EXCEPT !.msg = m] \in StateType
        BY <3>1 DEF StateType
      <3> QED
        BY <1>2, <2>2, <3>2
    <2>8. FinalJson(t, m) \in Seq(RsGood) /\ \A u \in RsEnded' : u \in RsEnded \/ RsDone(FinalJson(t, m), u)
      BY <2>4, NewEvents
    <2> QED
      BY <2>2, <2>4, <2>6, <2>7, <2>8, <1>1, CoreKept
  <1>9. CASE Idle
    <2>1. UNCHANGED <<slot, state, received>> /\ RsEnded' = RsEnded
      BY <1>2, <1>9 DEF Idle, RsEnded
    <2>2. ASSUME NEW events \in Seq(RsGood), Kept(events) PROVE RsCore'
      BY <2>1, <2>2, <1>1, <1>2, <1>5, CoreKept
    <2>3. <<About(0, "ping")>> \in Seq(RsGood)
      <3>1. About(0, "ping") \in RsGood
        BY EventFacts DEF About, RsGood
      <3> QED
        BY <3>1
    <2> QED
      BY <1>3, <1>9, <2>2, <2>3 DEF Idle
  <1>10. CASE Broken
    <2>1. out' \in Seq(RsAll)
      <3>1. Failed \in RsAll
        <4>1. "error" \in RsNames
          BY DEF RsNames
        <4> QED
          BY <4>1, EventFacts DEF Failed, About, RsAll
      <3>2. <<Failed>> \in Seq(RsAll) /\ <<>> \in Seq(RsAll)
        BY <3>1
      <3>3. out \o <<Failed>> \in Seq(RsAll)
        BY <1>2, <3>2, ConcatProperties
      <3> QED
        BY <3>2, <3>3, <1>10 DEF Broken, Cut
    <2> QED
      BY <2>1, <1>1, <1>10, CoreClosed DEF Broken, Cut
  <1>11. ASSUME NEW why, NEW events \in Seq(RsAll), Shutting(why, events) PROVE RsCore'
    <2>1. out' \in Seq(RsAll)
      BY <1>2, <1>11, ConcatProperties DEF Shutting
    <2> QED
      BY <2>1, <1>1, <1>2, <1>11, CoreClosed DEF Shutting
  <1>12. DoneTail \in Seq(RsAll) /\ <<>> \in Seq(RsAll)
    <2> DEFINE e == About(0, "[DONE]")
    <2>1. e \in RsAll
      <3>1. "[DONE]" \in RsNames
        BY DEF RsNames
      <3> QED
        BY <3>1, EventFacts DEF About, RsAll
    <2>2. DoneTail = <<e>> \/ DoneTail = <<>>
      BY DEF DoneTail, If
    <2> HIDE DEF e
    <2>3. <<e>> \in Seq(RsAll) /\ <<>> \in Seq(RsAll)
      BY <2>1
    <2> QED
      BY <2>2, <2>3
  <1> QED
    BY <1>1, <1>6, <1>7, <1>8, <1>9, <1>10, <1>11, <1>12 DEF Completes, Leaves

(* Only the last event is not a good one, if anything was added.           *)
WellEnded(log, tail, e, new) ==
    /\ DOMAIN new = 1..Len(new) /\ Len(new) \in Nat
    /\ \A i \in 1..Len(new) : tail = <<>> \/ i # Len(new) => new[i].event \notin {"error", "[DONE]"}
    /\ tail = <<e>> => Last(new) = e
    /\ \A t : RsDone(log, t) => \E i \in DOMAIN new : new[i].task = t /\ new[i].event = "finish"

\* What is added at the end of a log that is good.
LEMMA TailFacts ==
    ASSUME NEW log \in Seq(RsGood), NEW tail, NEW e, tail = <<>> \/ tail = <<e>>, NEW new, new = Glued(log, tail)
    PROVE  WellEnded(log, tail, e, new)
  <1> DEFINE E == RsGood \cup {e}
  <1>1. log \in Seq(E) /\ Len(log) \in Nat /\ DOMAIN log = 1..Len(log) /\ \A i \in 1..Len(log) : log[i] \in RsGood
    <2>1. log \in Seq(E)
      BY SeqMonotonic
    <2> QED
      BY <2>1, LenProperties, ElementOfSeq
  <1>2. \A x \in RsGood : x.event \notin {"error", "[DONE]"}
    BY DEF RsGood, RsEvents, RsHead, RsBody, RsEnd
  <1>3. tail \in Seq(E) /\ Len(tail) \in {0, 1} /\ (tail = <<e>> <=> Len(tail) = 1) /\ (Len(tail) = 1 => tail[1] = e)
    <2>1. e \in E
      OBVIOUS
    <2> HIDE DEF E
    <2>2. <<e>> \in Seq(E) /\ Len(<<e>>) = 1 /\ <<e>>[1] = e
      BY <2>1
    <2>3. <<>> \in Seq(E) /\ Len(<<>>) = 0
      OBVIOUS
    <2>4. CASE tail = <<e>>
      BY <2>2, <2>4
    <2>5. CASE tail = <<>>
      BY <2>3, <2>5
    <2> QED
      BY <2>4, <2>5
  <1> HIDE DEF E
  <1>4. /\ new \in Seq(E) /\ Len(new) = Len(log) + Len(tail)
        /\ \A i \in 1..Len(log) + Len(tail) : new[i] = IF i <= Len(log) THEN log[i] ELSE tail[i - Len(log)]
    BY <1>1, <1>3, ConcatProperties DEF Glued
  <1>5. DOMAIN new = 1..Len(new) /\ Len(new) \in Nat
    BY <1>4, LenProperties
  <1>6. ASSUME NEW i \in 1..Len(new), tail = <<>> \/ i # Len(new) PROVE new[i].event \notin {"error", "[DONE]"}
    <2>1. i \in 1..Len(log)
      BY <1>1, <1>3, <1>4, <1>6
    <2>2. new[i] = log[i]
      BY <2>1, <1>1, <1>3, <1>4
    <2> QED
      BY <2>1, <2>2, <1>1, <1>2
  <1>7. ASSUME tail = <<e>> PROVE Last(new) = e
    <2>1. Len(new) = Len(log) + 1 /\ Len(new) \in 1..Len(log) + Len(tail) /\ ~ (Len(new) <= Len(log)) /\ Len(new) - Len(log) = 1
      BY <1>1, <1>3, <1>4, <1>7
    <2>2. new[Len(new)] = tail[1]
      BY <2>1, <1>4
    <2> QED
      BY <2>2, <1>3, <1>7 DEF Last
  <1>8. ASSUME NEW t, RsDone(log, t) PROVE \E i \in DOMAIN new : new[i].task = t /\ new[i].event = "finish"
    <2>1. PICK i \in 1..Len(log) : log[i].event = "finish" /\ log[i].task = t
      BY <1>8 DEF RsDone
    <2>2. i \in 1..Len(new) /\ new[i] = log[i]
      BY <2>1, <1>1, <1>3, <1>4
    <2> QED
      BY <2>1, <2>2, <1>5
  <1> QED
    BY <1>5, <1>6, <1>7, <1>8 DEF WellEnded

(* When a response is closed it has ended once.                            *)
RsClosed == http.phase = "closed" => EndsOnce

\* What is written of an open stream is good.
LEMMA OpenLog ==
    ASSUME RsCore, http.phase # "closed"
    PROVE  /\ http.why = ""
           /\ Stream => out \in Seq(RsGood)
           /\ Stream /\ http.phase = "stream" => RsLog = out /\ \A t \in RsEnded : RsDone(out, t)
  <1>1. Stream => http.phase \in {"flush", "first", "stream"} /\ (http.phase \in {"flush", "first"} => out = <<>>)
    BY DEF RsCore, ResultTypeOK
  <1>2. Stream => RsLog \in Seq(RsGood) /\ \A t \in RsEnded : RsDone(RsLog, t)
    BY DEF RsCore
  <1>3. http.phase = "stream" => RsLog = out
    BY DEF RsLog
  <1>4. <<>> \in Seq(RsGood)
    OBVIOUS
  <1> QED
    BY <1>1, <1>2, <1>3, <1>4 DEF RsCore

\* An open response has not ended.
LEMMA OpenEnds ==
    ASSUME RsCore, http.phase # "closed"
    PROVE  EndsOnce
  <1>1. http.why = "" /\ (Stream => out \in Seq(RsGood))
    BY OpenLog
  <1>2. ASSUME Stream, NEW i \in DOMAIN out PROVE out[i].event \notin {"error", "[DONE]"}
    <2>1. out[i] \in RsGood
      BY <1>1, <1>2, LenProperties, ElementOfSeq
    <2> QED
      BY <2>1 DEF RsGood, RsEvents, RsHead, RsBody, RsEnd
  <1> QED
    BY <1>1, <1>2 DEF EndsOnce

\* A stream ends once.
LEMMA EndsStream ==
    ASSUME RsCore, Stream, ResultNext
    PROVE  RsClosed'
  <1> SUFFICES ASSUME http'.phase = "closed" PROVE EndsOnce'
    BY DEF RsClosed
  <1>1. /\ setup' = setup
        /\ Broken \/ Completes \/ Leaves
    <2>1. \A events : ~ Kept(events)
      BY DEF Kept
    <2>2. \A t \in Tasks : ~ Marked(t) /\ ~ Told(t) /\ ~ Concluded(t)
      BY <2>1 DEF Marked, Told, Spoke, Concluded, Finishes
    <2>3. ~ Idle
      BY <2>1 DEF Idle
    <2> QED
      BY <2>2, <2>3, StreamSteps
  <1>2. Tasks' = Tasks /\ Stream' /\ Format' = Format
    BY <1>1 DEF Tasks, NTasks, Stream, Format
  <1>3. Failed.event = "error"
    BY FieldFacts DEF Failed, About
  <1>4. CASE Broken
    <2>1. CASE http'.why = "error" /\ http.phase = "stream" /\ out' = out \o <<Failed>>
      <3>1. out \in Seq(RsGood)
        BY <2>1, OpenLog
      <3>2. /\ DOMAIN out' = 1..Len(out') /\ Len(out') \in Nat
            /\ \A i \in 1..Len(out') : i # Len(out') => out'[i].event \notin {"error", "[DONE]"}
            /\ Last(out') = Failed
        <4>1. out' = Glued(out, <<Failed>>)
          BY <2>1 DEF Glued
        <4> QED
          BY <3>1, <4>1, TailFacts DEF WellEnded
      <3>3. Failed' = Failed /\ Last(out)' = Last(out')
        BY DEF Failed, About, Event, Last
      <3> QED
        BY <2>1, <3>2, <3>3 DEF EndsOnce
    <2>2. CASE http'.why = "status" /\ out' = <<>>
      BY <2>2 DEF EndsOnce
    <2> QED
      BY <1>4, <2>1, <2>2 DEF Broken, Cut
  <1>5. CASE Completes
    <2>1. http.phase = "stream" /\ received = NTasks /\ http'.why = "done" /\ out' = out \o DoneTail
      BY <1>5 DEF Completes, Shutting
    <2>2. out \in Seq(RsGood) /\ \A t \in Tasks : RsDone(out, t)
      <3>1. RsEnded = Tasks
        BY <2>1, EndedFacts DEF RsCore
      <3> QED
        BY <2>1, <3>1, OpenLog
    <2> DEFINE e == About(0, "[DONE]")
    <2>3. e.event = "[DONE]"
      BY FieldFacts DEF About
    <2>4. /\ Format \notin {"plain", "resp", "anthropic"} => DoneTail = <<e>>
          /\ Format \in {"plain", "resp", "anthropic"} => DoneTail = <<>>
      BY DEF DoneTail, If
    <2> HIDE DEF e
    <2>5. /\ DOMAIN out' = 1..Len(out') /\ Len(out') \in Nat
          /\ \A i \in 1..Len(out') : i # Len(out') => out'[i].event \notin {"error", "[DONE]"}
          /\ DoneTail = <<e>> => Last(out') = e
          /\ \A t \in Tasks : \E i \in DOMAIN out' : out'[i].task = t /\ out'[i].event = "finish"
      <3>1. out' = Glued(out, DoneTail)
        BY <2>1 DEF Glued
      <3>2. DoneTail = <<>> \/ DoneTail = <<e>>
        BY <2>4
      <3>3. /\ DOMAIN out' = 1..Len(out') /\ Len(out') \in Nat
            /\ \A i \in 1..Len(out') : DoneTail = <<>> \/ i # Len(out') => out'[i].event \notin {"error", "[DONE]"}
            /\ DoneTail = <<e>> => Last(out') = e
            /\ \A t : RsDone(out, t) => \E i \in DOMAIN out' : out'[i].task = t /\ out'[i].event = "finish"
        <4>1. out \in Seq(RsGood)
          BY <2>2
        <4>2. ASSUME NEW tail, tail = <<>> \/ tail = <<e>>, NEW new, new = Glued(out, tail)
              PROVE  /\ DOMAIN new = 1..Len(new) /\ Len(new) \in Nat
                     /\ \A i \in 1..Len(new) : tail = <<>> \/ i # Len(new) => new[i].event \notin {"error", "[DONE]"}
                     /\ tail = <<e>> => Last(new) = e
                     /\ \A t : RsDone(out, t) => \E i \in DOMAIN new : new[i].task = t /\ new[i].event = "finish"
          <5>1. WellEnded(out, tail, e, new)
            BY <4>1, <4>2, TailFacts
          <5> QED
            BY <5>1 DEF WellEnded
        <4> QED
          BY <3>1, <3>2, <4>2
      <3> QED
        BY <2>2, <3>3
    <2>6. \A t \in Tasks : Finished(t)'
      BY <2>5 DEF Finished
    <2>7. Format \notin {"plain", "resp", "anthropic"} => Last(out').event = "[DONE]"
      BY <2>3, <2>4, <2>5
    <2>8. Last(out)' = Last(out')
      BY DEF Last
    <2> QED
      BY <1>2, <2>1, <2>5, <2>6, <2>7, <2>8 DEF EndsOnce
  <1>6. CASE Leaves
    <2>1. http.phase # "closed" /\ http'.why = "left" /\ out' = out \o <<>>
      BY <1>6 DEF Leaves, Shutting
    <2>2. out \in Seq(RsGood)
      BY <2>1, OpenLog
    <2>3. /\ DOMAIN out' = 1..Len(out') /\ Len(out') \in Nat
          /\ \A i \in 1..Len(out') : out'[i].event \notin {"error", "[DONE]"}
      <3>1. out' = Glued(out, <<>>)
        BY <2>1 DEF Glued
      <3> QED
        BY <2>2, <3>1, TailFacts DEF WellEnded
    <2> QED
      BY <2>1, <2>3 DEF EndsOnce
  <1> QED
    BY <1>1, <1>4, <1>5, <1>6

\* A whole answer to a task is about that task.
LEMMA AnswerFacts ==
    ASSUME setup \in Setups, NEW t, NEW m
    PROVE  Answer(t, m).task = t
  <1>1. Format \in {"plain", "text", "asr", "chat", "resp", "anthropic"}
    BY SetupFacts
  <1>2. /\ PlainAnswer(t, m).task = t /\ ChatAnswer(t, m).task = t
        /\ RespAnswer(t, m).task = t /\ AnthropicAnswer(t, m).task = t
    BY DEF PlainAnswer, ChatAnswer, RespAnswer, AnthropicAnswer
  <1> QED
    BY <1>1, <1>2 DEF Answer

\* The results by index are the answers in the order of the tasks.
LEMMA WholeList ==
    ASSUME RsCore, ~ Stream, http.phase = "whole", received = NTasks
    PROVE  LET list == FlattenSeq([t \in Tasks |-> results[t]])
           IN  [i \in DOMAIN list |-> list[i].task] = [t \in Tasks |-> t]
  <1>1. Tasks = 1..NTasks /\ NTasks \in Nat /\ NTasks # 0
    BY CoreFacts
  <1>2. RsEnded = Tasks
    BY EndedFacts DEF RsCore
  <1>3. \A t \in Tasks : \E a : results[t] = <<a>> /\ a.task = t
    BY <1>2 DEF RsCore
  <1> DEFINE a == [t \in Tasks |-> CHOOSE x : results[t] = <<x>> /\ x.task = t]
             E == {a[t] : t \in Tasks}
             list == [t \in Tasks |-> results[t]]
  <1>4. ASSUME NEW t \in Tasks PROVE results[t] = <<a[t]>> /\ a[t].task = t
    <2>1. \E x : results[t] = <<x>> /\ x.task = t
      BY <1>3
    <2> QED
      BY <2>1
  <1>5. a \in [1..NTasks -> E]
    BY <1>1
  <1> HIDE DEF a, E
  <1>6. list = [i \in 1..NTasks |-> <<a[i]>>]
    BY <1>1, <1>4
  <1> HIDE DEF list
  <1>7. FlattenSeq(list) = a
    BY <1>1, <1>5, <1>6, JoinOnes
  <1>8. DOMAIN a = Tasks
    BY <1>1, <1>5
  <1>9. [i \in DOMAIN a |-> a[i].task] = [t \in Tasks |-> t]
    BY <1>4, <1>8
  <1> QED
    BY <1>7, <1>9 DEF list

\* A step of an answer that is not streamed.
LEMMA WholeStep ==
    ASSUME RsCore, ~ Stream, ResultNext
    PROVE  RsCore' /\ RsClosed'
  <1>1. http.phase \in {"whole", "closed"} /\ IsHttp(http) /\ (http.phase # "closed" => http.why = "" /\ received = Cardinality(RsEnded))
    BY DEF RsCore
  <1>2. /\ slot \in [Tasks -> SlotType] /\ state \in [Tasks -> StateType] /\ setup \in Setups
        /\ received \in 0..NTasks /\ NTasks \in Nat /\ MaxParts \in Nat /\ MaxIdle \in Nat
        /\ results = [t \in Tasks |-> results[t]]
        /\ http.phase = "whole" => out = <<>>
    BY CoreFacts DEF RsCore
  <1>3. /\ setup' = setup
        /\ CollectResult \/ ReplyWhole \/ ClientLeaves
    BY <1>1 DEF ResultNext, CollectResult, ReplyWhole, ClientLeaves, FirstResult, FlushFirst, NextResult, UpdateThrows,
                Ping, EndStream
  <1>4. /\ setup' \in Setups /\ Tasks' = Tasks /\ NTasks' = NTasks /\ MaxParts' = MaxParts
        /\ SlotType' = SlotType /\ ~ Stream'
    BY <1>2, <1>3 DEF Tasks, NTasks, MaxParts, SlotType, Stream
  <1>5. ASSUME http'.phase = "closed", IsHttp(http'), slot' \in [Tasks -> SlotType], UNCHANGED <<state, received, results>>
        PROVE  RsCore'
    <2>1. ResultTypeOK'
      BY <1>2, <1>4, <1>5 DEF ResultTypeOK, SlotType, StateType
    <2>2. results' = [t \in Tasks' |-> results'[t]]
      BY <1>2, <1>4, <1>5
    <2> QED
      BY <1>4, <1>5, <2>1, <2>2 DEF RsCore
  <1>6. CASE ClientLeaves
    <2>1. /\ http.phase # "closed" /\ Close("left", <<>>) /\ UNCHANGED <<slot, state, received, results>>
      BY <1>6 DEF ClientLeaves
    <2>2. http'.phase = "closed" /\ http'.why = "left" /\ IsHttp(http')
      BY <2>1, CloseFacts
    <2>3. RsCore'
      BY <2>1, <2>2, <1>2, <1>5
    <2>4. EndsOnce'
      BY <2>2, <1>4 DEF EndsOnce
    <2> QED
      BY <2>3, <2>4 DEF RsClosed
  <1>7. CASE ReplyWhole
    <2> DEFINE list == FlattenSeq([t \in Tasks |-> results[t]])
    <2>1. /\ http.phase = "whole" /\ received = NTasks /\ Close("done", list)
          /\ UNCHANGED <<slot, state, received, results>>
      BY <1>2, <1>7 DEF ReplyWhole, HasNext
    <2>2. [i \in DOMAIN list |-> list[i].task] = [t \in Tasks |-> t]
      BY <2>1, WholeList
    <2> HIDE DEF list
    <2>3. http'.phase = "closed" /\ http'.why = "done" /\ IsHttp(http') /\ out' = out \o list
      BY <2>1, CloseFacts
    <2>4. out' = list
      <3>1. out' = <<>> \o list
        BY <2>1, <2>3, <1>2
      <3> QED
        BY <3>1, Nil
    <2>5. RsCore'
      BY <2>1, <2>3, <1>2, <1>5
    <2>6. EndsOnce'
      BY <2>2, <2>3, <2>4, <1>4 DEF EndsOnce
    <2> QED
      BY <2>5, <2>6 DEF RsClosed
  <1>8. CASE CollectResult
    <2>1. http.phase = "whole" /\ Receive
      BY <1>8 DEF CollectResult
    <2>2. PICK t \in Tasks : Final(t) \/ Error(t)
      BY <2>1 DEF Receive, Begin, Report, Part
    <2>3. slot[t].n_gen \in 0..MaxParts /\ slot[t].reports + 0 <= MaxIdle /\ 0 \in 0..1 /\ state[t] \in StateType
      BY <1>2, StateFacts
    <2>4. CASE Error(t)
      <3>1. Sent(t, "ended", slot[t].n_gen, 0) /\ UNCHANGED <<state, received>> /\ Handle(Json("error", <<>>))
        BY <2>4 DEF Error
      <3>2. Close("status", <<>>) /\ UNCHANGED results
        <4>1. Store(Json("error", <<>>))
          BY <2>1, <3>1 DEF Handle
        <4> QED
          BY <4>1, JsonFacts DEF Store
      <3>3. http'.phase = "closed" /\ http'.why = "status" /\ IsHttp(http') /\ out' = out \o <<>>
        BY <3>2, CloseFacts
      <3>4. out' = <<>>
        <4>1. out' = <<>> \o <<>>
          BY <2>1, <3>3, <1>2
        <4> QED
          BY <4>1, Nil
      <3>5. slot' \in [Tasks -> SlotType]
        BY <2>3, <3>1, <1>2, <1>4, SentFacts
      <3>6. RsCore'
        BY <3>1, <3>2, <3>3, <3>5, <1>5
      <3>7. EndsOnce'
        BY <3>3, <3>4, <1>4 DEF EndsOnce
      <3> QED
        BY <3>6, <3>7 DEF RsClosed
    <2>5. CASE Final(t)
      <3>1. /\ slot[t].sent # "ended" /\ Sent(t, "ended", slot[t].n_gen, 0) /\ received' = received + 1
            /\ \E m \in Messages : /\ Handle(Json("final", <<Answer(t, m)>>))
                                   /\ state' = [state EXCEPT ![t].msg = m]
        BY <2>5 DEF Final
      <3>2. PICK m \in Messages : /\ Handle(Json("final", <<Answer(t, m)>>))
                                  /\ state' = [state EXCEPT ![t].msg = m]
        BY <3>1
      <3> DEFINE a == Answer(t, m)
      <3>3. a.task = t
        BY <1>2, AnswerFacts
      <3> HIDE DEF a
      <3>4. results' = [results EXCEPT ![t] = <<a>>] /\ UNCHANGED <<http, out>>
        <4>1. Store(Json("final", <<a>>))
          BY <2>1, <3>2 DEF Handle, a
        <4>2. results' = [results EXCEPT ![<<a>>[1].task] = <<a>>] /\ UNCHANGED <<http, out>>
          BY <4>1, JsonFacts DEF Store
        <4> QED
          BY <3>3, <4>2
      <3>5. slot' \in [Tasks -> SlotType] /\ RsEnded' = RsEnded \cup {t}
        BY <2>3, <3>1, <1>2, <1>4, SentFacts
      <3>6. received' = Cardinality(RsEnded') /\ received' \in 0..NTasks
        <4>1. t \notin RsEnded
          BY <3>1 DEF RsEnded
        <4>2. Cardinality(RsEnded \cup {t}) = Cardinality(RsEnded) + 1 /\ Cardinality(RsEnded) < NTasks
          BY <4>1, EndedFacts
        <4>3. received = Cardinality(RsEnded)
          BY <1>1, <2>1
        <4> QED
          BY <4>2, <4>3, <3>1, <3>5, <1>2
      <3>7. state' \in [Tasks -> StateType]
        <4>1. [state[t] EXCEPT !.msg = m] \in StateType
          BY <2>3 DEF StateType
        <4> QED
          BY <1>2, <3>2, <4>1
      <3>8. /\ results' = [u \in Tasks' |-> results'[u]]
            /\ results'[t] = <<a>> /\ \A u \in Tasks : u # t => results'[u] = results[u]
        BY <3>4, <1>2, <1>4
      <3>9. \A u \in RsEnded' : \E x : results'[u] = <<x>> /\ x.task = u
        <4>1. \A u \in RsEnded : \E x : results[u] = <<x>> /\ x.task = u
          BY <2>1 DEF RsCore
        <4>2. RsEnded \subseteq Tasks
          BY EndedFacts
        <4> SUFFICES ASSUME NEW u \in RsEnded' PROVE \E x : results'[u] = <<x>> /\ x.task = u
          OBVIOUS
        <4>3. CASE u = t
          BY <3>3, <3>8, <4>3
        <4>4. CASE u # t
          BY <3>5, <3>8, <4>1, <4>2, <4>4
        <4> QED
          BY <4>3, <4>4
      <3>10. ResultTypeOK'
        <4>1. http' = http /\ (http.phase = "flush" => http.data # <<>>)
          BY <3>4, <2>1
        <4> QED
          BY <4>1, <2>1, <3>5, <3>6, <3>7, <1>4 DEF ResultTypeOK, SlotType, StateType
      <3>11. RsCore'
        BY <3>4, <3>6, <3>8, <3>9, <3>10, <2>1, <1>1, <1>2, <1>4 DEF RsCore
      <3> QED
        BY <3>4, <3>11, <2>1 DEF RsClosed
    <2> QED
      BY <2>2, <2>4, <2>5
  <1> QED
    BY <1>3, <1>6, <1>7, <1>8

\* The answers begin as the invariant says.
LEMMA CoreInit ==
    ASSUME ResultInit
    PROVE  RsCore /\ RsClosed
  <1>1. /\ setup \in Setups
        /\ slot = [t \in Tasks |-> [sent |-> "nothing", n_gen |-> 0, reports |-> 0]]
        /\ state = [t \in Tasks |-> [msg |-> NoMessage, thinking |-> FALSE, text |-> FALSE, created |-> FALSE]]
        /\ received = 0 /\ results = [t \in Tasks |-> <<>>] /\ out = <<>>
        /\ http = [phase |-> IF Stream THEN "first" ELSE "whole", why |-> "", data |-> <<>>, pings |-> 0]
    BY DEF ResultInit
  <1>2. /\ NTasks \in Nat \ {0} /\ Tasks = 1..NTasks /\ MaxParts \in Nat /\ MaxIdle \in Nat
        /\ MaxLen \in Nat /\ MaxCalls \in Nat
    BY <1>1, SetupFacts
  <1>3. IsHttp(http) /\ http.why = "" /\ http.data = <<>> /\ http.phase = IF Stream THEN "first" ELSE "whole"
    <2>1. PICK p : p = IF Stream THEN "first" ELSE "whole"
      OBVIOUS
    <2>2. http = [phase |-> p, why |-> "", data |-> <<>>, pings |-> 0]
      BY <1>1, <2>1
    <2>3. IsHttp(http) /\ http.why = "" /\ http.data = <<>> /\ http.phase = p
      BY <2>2 DEF IsHttp
    <2> QED
      BY <2>1, <2>3
  <1>4. NoMessage \in Messages
    <2>1. 0 \in 0..MaxLen /\ 0 \in 0..MaxCalls
      BY <1>2
    <2>2. <<>> \in [1..0 -> 0..MaxLen]
      OBVIOUS
    <2> QED
      BY <2>1, <2>2 DEF NoMessage, Messages
  <1>5. slot \in [Tasks -> SlotType] /\ state \in [Tasks -> StateType]
    <2>1. [sent |-> "nothing", n_gen |-> 0, reports |-> 0] \in SlotType
      BY <1>2 DEF SlotType
    <2>2. [msg |-> NoMessage, thinking |-> FALSE, text |-> FALSE, created |-> FALSE] \in StateType
      BY <1>4 DEF StateType
    <2> QED
      BY <1>1, <2>1, <2>2
  <1>6. RsEnded = {} /\ Cardinality(RsEnded) = 0
    <2>1. RsEnded = {}
      BY <1>1 DEF RsEnded
    <2> QED
      BY <2>1, FS_EmptySet
  <1>7. ResultTypeOK
    <2>1. http.phase \in {"first", "whole"}
      BY <1>3
    <2>2. received \in 0..NTasks
      <3>1. received = 0
        BY <1>1
      <3>2. NTasks \in Nat
        BY <1>2
      <3> QED
        BY <3>1, <3>2
    <2> QED
      BY <2>1, <2>2, <1>5 DEF ResultTypeOK, SlotType, StateType
  <1>8. results = [t \in Tasks |-> results[t]]
    BY <1>1
  <1>9. RsLog = <<>> /\ <<>> \in Seq(RsGood) /\ <<>> \in Seq(RsAll)
    <2>1. http.phase # "flush" /\ out = <<>>
      BY <1>1, <1>3
    <2> QED
      BY <2>1 DEF RsLog
  <1>10. RsCore
    BY <1>1, <1>3, <1>6, <1>7, <1>8, <1>9 DEF RsCore
  <1> QED
    BY <1>3, <1>10 DEF RsClosed

\* Nothing changes in a stutter.
LEMMA CoreStutter ==
    ASSUME RsCore, UNCHANGED resultVars
    PROVE  RsCore' /\ (RsClosed => RsClosed')
  <1>1. UNCHANGED <<setup, slot, state, received, results, http, out>>
    BY DEF resultVars
  <1>2. /\ Tasks' = Tasks /\ NTasks' = NTasks /\ Stream' = Stream /\ ResultTypeOK' = ResultTypeOK
        /\ RsEnded' = RsEnded /\ RsLog' = RsLog
    BY <1>1 DEF Tasks, NTasks, Stream, ResultTypeOK, MaxParts, RsEnded, RsLog
  <1>3. EndsOnce' = EndsOnce
    BY <1>1 DEF EndsOnce, Finished, Tasks, NTasks, Stream, Format, Last
  <1> QED
    BY <1>1, <1>2, <1>3 DEF RsCore, RsClosed

\* The state that every answer keeps is kept.
LEMMA CoreNext ==
    ASSUME RsCore, [ResultNext]_resultVars
    PROVE  RsCore'
  <1>1. CASE ResultNext /\ Stream
    BY <1>1, CoreStream
  <1>2. CASE ResultNext /\ ~ Stream
    BY <1>2, WholeStep
  <1>3. CASE UNCHANGED resultVars
    BY <1>3, CoreStutter
  <1> QED
    BY <1>1, <1>2, <1>3

\* A request that is not streamed stays one.
LEMMA SameSetup ==
    ASSUME [ResultNext]_resultVars
    PROVE  setup' = setup /\ Stream' = Stream
  <1>1. setup' = setup
    BY DEF ResultNext, resultVars, CollectResult, ReplyWhole, FirstResult, FlushFirst, NextResult, UpdateThrows, Ping,
           EndStream, ClientLeaves
  <1> QED
    BY <1>1 DEF Stream

(* Every answer has one end: a stream ends with the last events of all its *)
(* tasks, with [DONE] after them where the format has it, or with an error *)
(* and nothing follows; an error that comes first is no stream; and a      *)
(* whole answer lists the tasks by index (AnswerInv).                      *)
THEOREM AnswersEndOnce == ResultSpec => []AnswerInv
  <1>1. ResultInit => RsCore /\ RsClosed
    BY CoreInit
  <1>2. RsCore /\ RsClosed /\ [ResultNext]_resultVars => RsCore' /\ RsClosed'
    <2> SUFFICES ASSUME RsCore, RsClosed, [ResultNext]_resultVars PROVE RsCore' /\ RsClosed'
      OBVIOUS
    <2>1. CASE ResultNext /\ Stream
      BY <2>1, CoreStream, EndsStream
    <2>2. CASE ResultNext /\ ~ Stream
      BY <2>2, WholeStep
    <2>3. CASE UNCHANGED resultVars
      BY <2>3, CoreStutter
    <2> QED
      BY <2>1, <2>2, <2>3
  <1>3. RsCore /\ RsClosed => AnswerInv
    BY OpenEnds DEF RsClosed, RsCore, AnswerInv
  <1> QED
    BY <1>1, <1>2, <1>3, PTL DEF ResultSpec

-----------------------------------------------------------------------------
(* The message of a task is opened before anything else is said of it.     *)
Begun(q, t) == \E i \in 1..Len(q) : q[i].event = "begin" /\ q[i].task = t
Leads(q, i) == \E j \in 1..i : q[j].event = "begin" /\ q[j].task = q[i].task
Only(q, i)  == \A j \in 1..i - 1 : q[j].event = "begin" => q[j].task # q[i].task
FirstOK(T, f, q) ==
    \A i \in 1..Len(q) : q[i].task \in T => Leads(q, i) /\ (f \in {"resp", "anthropic"} /\ q[i].event = "begin" => Only(q, i))

\* What is added for one task.
LEMMA FirstAdded ==
    ASSUME NEW p, NEW q, NEW r, FollowedBy(p, q, r), NEW t, NEW T, NEW f,
           \A i \in 1..Len(q) : q[i].task = t,
           FirstOK(T, f, p),
           t \in T => /\ Len(q) > 0 => Begun(p, t) \/ q[1].event = "begin"
                      /\ f \in {"resp", "anthropic"} => \A i \in 1..Len(q) : q[i].event = "begin" => i = 1 /\ ~ Begun(p, t)
    PROVE  /\ FirstOK(T, f, r)
           /\ \A u : Begun(r, u) <=> Begun(p, u) \/ Begun(q, u)
  <1>1. /\ Len(p) \in Nat /\ Len(q) \in Nat /\ Len(r) = Len(p) + Len(q)
        /\ \A i \in 1..Len(p) : i \in 1..Len(r) /\ r[i] = p[i]
        /\ \A i \in 1..Len(q) : Len(p) + i \in 1..Len(r) /\ r[Len(p) + i] = q[i]
        /\ \A i \in 1..Len(r) : i \in 1..Len(p) \/ \E k \in 1..Len(q) : i = Len(p) + k
    BY DEF FollowedBy
  <1>2. ASSUME NEW i \in 1..Len(r), r[i].task \in T
        PROVE  Leads(r, i) /\ (f \in {"resp", "anthropic"} /\ r[i].event = "begin" => Only(r, i))
    <2>1. CASE i \in 1..Len(p)
      <3>1. \A j \in 1..i : j \in 1..Len(p) /\ r[j] = p[j]
        BY <1>1, <2>1
      <3>2. Leads(p, i) /\ (f \in {"resp", "anthropic"} /\ p[i].event = "begin" => Only(p, i)) /\ r[i] = p[i]
        BY <1>1, <1>2, <2>1 DEF FirstOK
      <3>3. Leads(r, i)
        BY <3>1, <3>2 DEF Leads
      <3>4. Only(p, i) => Only(r, i)
        <4>1. \A j \in 1..i - 1 : j \in 1..i
          BY <2>1, <1>1
        <4> QED
          BY <3>1, <3>2, <4>1 DEF Only
      <3> QED
        BY <3>2, <3>3, <3>4
    <2>2. ASSUME NEW k \in 1..Len(q), i = Len(p) + k
          PROVE  Leads(r, i) /\ (f \in {"resp", "anthropic"} /\ r[i].event = "begin" => Only(r, i))
      <3>1. r[i] = q[k] /\ r[i].task = t /\ t \in T
        BY <1>1, <1>2, <2>2
      <3>2. CASE Begun(p, t)
        <4>1. PICK j \in 1..Len(p) : p[j].event = "begin" /\ p[j].task = t
          BY <3>2 DEF Begun
        <4>2. j \in 1..i /\ r[j] = p[j]
          BY <1>1, <2>2
        <4>3. Leads(r, i)
          BY <3>1, <4>1, <4>2 DEF Leads
        <4>4. ~ (f \in {"resp", "anthropic"} /\ r[i].event = "begin")
          BY <3>1, <3>2
        <4> QED
          BY <4>3, <4>4
      <3>3. CASE ~ Begun(p, t)
        <4>5. Len(q) > 0 /\ 1 \in 1..Len(q)
          BY <1>1
        <4>1. q[1].event = "begin" /\ 1 \in 1..Len(q)
          BY <3>1, <3>3, <4>5
        <4> DEFINE j == Len(p) + 1
        <4>2. j \in 1..i /\ r[j] = q[1]
          BY <1>1, <2>2, <4>1
        <4> HIDE DEF j
        <4>3. Leads(r, i)
          BY <3>1, <4>1, <4>2 DEF Leads
        <4>4. ASSUME f \in {"resp", "anthropic"}, r[i].event = "begin" PROVE Only(r, i)
          <5>1. k = 1
            <6>1. q[k].event = "begin"
              BY <3>1, <4>4
            <6> QED
              BY <3>1, <4>4, <6>1
          <5>2. \A x \in 1..i - 1 : x \in 1..Len(p) /\ r[x] = p[x]
            BY <1>1, <2>2, <5>1
          <5> QED
            BY <3>1, <3>3, <5>2 DEF Only, Begun
        <4> QED
          BY <4>3, <4>4
      <3> QED
        BY <3>2, <3>3
    <2> QED
      BY <2>1, <2>2, <1>1
  <1>3. ASSUME NEW u PROVE Begun(r, u) <=> Begun(p, u) \/ Begun(q, u)
    <2>1. ASSUME Begun(p, u) PROVE Begun(r, u)
      BY <2>1, <1>1 DEF Begun
    <2>2. ASSUME Begun(q, u) PROVE Begun(r, u)
      <3>1. PICK k \in 1..Len(q) : q[k].event = "begin" /\ q[k].task = u
        BY <2>2 DEF Begun
      <3> DEFINE j == Len(p) + k
      <3>2. j \in 1..Len(r) /\ r[j] = q[k]
        BY <1>1
      <3> HIDE DEF j
      <3> QED
        BY <3>1, <3>2 DEF Begun
    <2>3. ASSUME Begun(r, u) PROVE Begun(p, u) \/ Begun(q, u)
      <3>1. PICK i \in 1..Len(r) : r[i].event = "begin" /\ r[i].task = u
        BY <2>3 DEF Begun
      <3>2. CASE i \in 1..Len(p)
        BY <3>1, <3>2, <1>1 DEF Begun
      <3>3. ASSUME NEW k \in 1..Len(q), i = Len(p) + k PROVE Begun(q, u)
        <4>1. r[i] = q[k]
          BY <1>1, <3>3
        <4> QED
          BY <3>1, <4>1 DEF Begun
      <3> QED
        BY <3>2, <3>3, <1>1
    <2> QED
      BY <2>1, <2>2, <2>3
  <1> QED
    BY <1>2, <1>3 DEF FirstOK

(* What a token adds after the events that open the message.               *)
Grows(t, m, n, body) ==
    \/ n = m /\ body = <<>>
    \/ \E d, at, k : \E w \in BOOLEAN : Bodies(t, m, n, d, at, k, w, body)

\* It is a list of events of the task that open and fill parts.
LEMMA GrowsTyped ==
    ASSUME NEW t, NEW m \in Messages, NEW n \in Grown(m), NEW body, Grows(t, m, n, body)
    PROVE  body \in Seq(RsEvents({t}, RsBody))
  <1>1. CASE body = <<>>
    BY <1>1
  <1>2. ASSUME NEW d, NEW at, NEW k, NEW w \in BOOLEAN, Bodies(t, m, n, d, at, k, w, body)
        PROVE  body \in Seq(RsEvents({t}, RsBody))
    <2>1. /\ Change(m, n, d, at, k) /\ at \in RsAts /\ k \in Nat
          /\ Fills(t, at, Where(n, w, at), k, body) \/ OpensAndFills(t, at, Where(n, w, at), k, body)
      BY <1>2 DEF Bodies
    <2>2. Where(n, w, at) \in Nat
      BY <2>1, ChangeFacts, WhereNat
    <2> QED
      BY <2>1, <2>2, BodyTyped
  <1> QED
    BY <1>1, <1>2 DEF Grows

(* When the part of a task opens its message.                              *)
BeginsWith(t, w, n) ==
    \/ Format = "chat" /\ (n = 1 \/ w)
    \/ Format = "resp" /\ ~ state[t].created
    \/ Format = "anthropic" /\ n = 1
PartBegins(t, m, w, n, q) ==
    /\ \A i \in 1..Len(q) : q[i].task = t
    /\ BeginsWith(t, w, n) => Len(q) > 0 /\ q[1].event = "begin"
    /\ \A i \in 1..Len(q) : q[i].event = "begin" => i = 1 /\ BeginsWith(t, w, n)
    /\ m = state[t].msg /\ ~ BeginsWith(t, w, n) /\ Format # "resp" => Len(q) = 0

\* A part opens the message at its beginning or not at all.
LEMMA PartOpens ==
    ASSUME RsCore, Format \in {"chat", "resp", "anthropic"},
           NEW t \in Tasks, NEW m \in Grown(state[t].msg), NEW w \in BOOLEAN, NEW n \in 0..MaxParts
    PROVE  PartBegins(t, m, w, n, PartJson(t, m, w, n))
  <1> DEFINE q == PartJson(t, m, w, n)
             E == RsEvents({t}, RsHead \cup RsBody)
             b == About(t, "begin")
             p == About(t, "in_progress")
             msg == state[t].msg
  <1>1. /\ msg \in Messages /\ t \in Nat /\ setup \in Setups /\ n \in Nat
        /\ state[t].thinking \in BOOLEAN /\ state[t].text \in BOOLEAN /\ state[t].created \in BOOLEAN
    BY CoreFacts, StateFacts
  <1>2. IsPart(t, msg, m, w, n, q)
    BY <1>1, PartShape
  <1>3. PICK head, body : q = Glued(head, body) /\ Heads(t, w, n, head) /\ Grows(t, msg, m, body)
    BY <1>2 DEF IsPart, Grows
  <1>4. body \in Seq(RsEvents({t}, RsBody))
    BY <1>1, <1>3, GrowsTyped
  <1>5. b \in E /\ p \in E /\ b.event = "begin" /\ p.event = "in_progress"
    <2>1. b \in E /\ p \in E
      BY EventFacts DEF About, RsHead
    <2> QED
      BY <2>1, FieldFacts DEF About
  <1>6. /\ BeginsWith(t, w, n) => head = <<b>> \/ head = <<b, p>>
        /\ ~ BeginsWith(t, w, n) => head = <<>> \/ (head = <<p>> /\ Format = "resp")
    BY <1>3 DEF Heads, BeginsWith
  <1>7. E = RsEvents({t}, RsHead \cup RsBody)
    OBVIOUS
  <1> HIDE DEF b, p, E, q, msg
  <1>8. /\ head \in Seq(E)
        /\ BeginsWith(t, w, n) => Len(head) > 0 /\ head[1] = b /\ \A i \in 1..Len(head) : i # 1 => head[i] = p
        /\ ~ BeginsWith(t, w, n) => \A i \in 1..Len(head) : head[i] = p
        /\ ~ BeginsWith(t, w, n) /\ Format # "resp" => Len(head) = 0
    <2>1. CASE head = <<b>>
      <3>1. head \in Seq(E) /\ Len(head) = 1 /\ head[1] = b
        BY <2>1, <1>5
      <3>2. BeginsWith(t, w, n)
        <4>1. <<b>> # <<>> /\ (<<b>> = <<p>> => b = p)
          <5>1. Len(<<b>>) = 1 /\ Len(<<>>) = 0 /\ <<b>>[1] = b /\ <<p>>[1] = p
            OBVIOUS
          <5> QED
            BY <5>1
        <4> QED
          BY <4>1, <2>1, <1>5, <1>6
      <3> QED
        BY <3>1, <3>2
    <2>2. CASE head = <<b, p>>
      <3>1. head \in Seq(E) /\ Len(head) = 2 /\ head[1] = b /\ head[2] = p
        BY <2>2, <1>5
      <3>2. BeginsWith(t, w, n)
        <4>1. head # <<>>
          <5>1. head = <<>> => Len(head) = 0
            OBVIOUS
          <5> QED
            BY <3>1, <5>1
        <4>2. head # <<p>>
          <5>1. head = <<p>> => Len(head) = 1
            OBVIOUS
          <5> QED
            BY <3>1, <5>1
        <4> QED
          BY <4>1, <4>2, <1>6
      <3> QED
        BY <3>1, <3>2
    <2>3. CASE head = <<p>> /\ Format = "resp" /\ ~ BeginsWith(t, w, n)
      <3>1. head \in Seq(E) /\ Len(head) = 1 /\ head[1] = p
        BY <2>3, <1>5
      <3> QED
        BY <2>3, <3>1
    <2>4. CASE head = <<>> /\ ~ BeginsWith(t, w, n)
      BY <2>4
    <2> QED
      BY <1>6, <2>1, <2>2, <2>3, <2>4
  <1>9. \A i \in 1..Len(body) : body[i].event # "begin"
    <2>1. ASSUME NEW i \in 1..Len(body) PROVE body[i] \in RsEvents({t}, RsBody)
      BY <1>4, ElementOfSeq
    <2> QED
      BY <2>1 DEF RsEvents, RsBody
  <1>10. body \in Seq(E)
    <2>1. RsEvents({t}, RsBody) \subseteq E
      BY DEF E, RsEvents
    <2> QED
      BY <2>1, <1>4, SeqMonotonic
  <1>11. q \in Seq(E) /\ FollowedBy(head, body, q)
    BY <1>3, <1>8, <1>10, GluedFacts
  <1>12. \A i \in 1..Len(q) : q[i].task = t
    <2>1. ASSUME NEW i \in 1..Len(q) PROVE q[i] \in E
      BY <1>11, ElementOfSeq
    <2> QED
      BY <2>1 DEF E, RsEvents
  <1>13. ASSUME BeginsWith(t, w, n) PROVE Len(q) > 0 /\ q[1].event = "begin"
    <2>1. 1 \in 1..Len(head) /\ head[1] = b
      BY <1>8, <1>11, <1>13 DEF FollowedBy
    <2>2. 1 \in 1..Len(q) /\ q[1] = b
      BY <2>1, <1>11 DEF FollowedBy
    <2> QED
      BY <2>2, <1>5
  <1>14. ASSUME NEW i \in 1..Len(q), q[i].event = "begin" PROVE i = 1 /\ BeginsWith(t, w, n)
    <2>1. i \in 1..Len(head) /\ q[i] = head[i]
      <3>1. ASSUME NEW k \in 1..Len(body), i = Len(head) + k PROVE FALSE
        <4>1. q[i] = body[k]
          BY <3>1, <1>11 DEF FollowedBy
        <4> QED
          BY <4>1, <1>9, <1>14
      <3> QED
        BY <3>1, <1>11 DEF FollowedBy
    <2>2. head[i] # p
      BY <2>1, <1>5, <1>14
    <2> QED
      BY <2>1, <2>2, <1>8
  <1>15. ASSUME m = msg, ~ BeginsWith(t, w, n), Format # "resp" PROVE Len(q) = 0
    <2>1. Len(head) = 0
      BY <1>8, <1>15
    <2>2. body = <<>>
      <3>1. ASSUME NEW d, NEW at, NEW k, NEW x \in BOOLEAN, Bodies(t, msg, m, d, at, k, x, body) PROVE FALSE
        <4>1. Change(msg, m, d, at, k)
          BY <3>1 DEF Bodies
        <4>2. GrewReasoning(msg, m) \/ GrewText(msg, m) \/ GrewNew(msg, m) \/ GrewCall(msg, m)
          BY <4>1 DEF Change
        <4>3. msg \in Messages
          BY <1>1 DEF msg
        <4> QED
          BY <4>2, <4>3, <1>15, ChangeKinds
      <3> QED
        BY <3>1, <1>3 DEF Grows
    <2> QED
      BY <2>1, <2>2, <1>11 DEF FollowedBy
  <1> QED
    BY <1>12, <1>13, <1>14, <1>15 DEF PartBegins, q, msg

\* What is kept is added to the log.
LEMMA KeptLog ==
    ASSUME RsCore, Stream, NEW events \in Seq(RsGood), Kept(events)
    PROVE  /\ RsLog \in Seq(RsGood) /\ RsLog' \in Seq(RsGood) /\ FollowedBy(RsLog, events, RsLog')
           /\ http.phase # "closed" /\ http'.phase # "closed"
  <1>1. RsLog' = Glued(RsLog, events) /\ http.phase # "closed" /\ http'.phase # "closed"
    BY DEF Kept, Glued
  <1>2. RsLog \in Seq(RsGood)
    BY <1>1 DEF RsCore
  <1> QED
    BY <1>1, <1>2, GluedFacts

(* What is written when a stream is closed: all or nothing of the log, and *)
(* an event about no task.                                                 *)
EndOfLog(q, tail, r) ==
    /\ FollowedBy(q, tail, r) /\ (q = RsLog \/ q = <<>>) /\ q \in Seq(RsGood)
    /\ Len(tail) = 0 \/ (Len(tail) = 1 /\ tail[1].task = 0 /\ tail[1].event \in {"error", "[DONE]"})

\* A stream is closed.
LEMMA ClosedLog ==
    ASSUME RsCore, Stream, Broken \/ Completes \/ Leaves
    PROVE  state' = state /\ http.phase # "closed" /\ http'.phase = "closed" /\ \E q, tail : EndOfLog(q, tail, out')
  <1>1. http.phase # "closed" => out \in Seq(RsGood) /\ (out = RsLog \/ out = <<>>)
    <2>1. http.phase # "closed" => out = <<>> \/ http.phase = "stream"
      BY DEF RsCore, ResultTypeOK
    <2> QED
      BY <2>1, OpenLog
  <1>2. http.phase # "closed" /\ http'.phase = "closed" /\ state' = state
    <2>1. CASE Broken
      <3>1. /\ http'.phase = "closed" /\ state' = state
            /\ \/ http.phase = "stream"
               \/ http.phase = "first"
        BY <2>1 DEF Broken, Cut
      <3> QED
        BY <3>1
    <2>2. CASE Completes \/ Leaves
      BY <2>2 DEF Completes, Leaves, Shutting
    <2> QED
      BY <2>1, <2>2
  <1>3. \E tail : out' = Glued(out, tail) /\ tail \in Seq(RsAll)
                  /\ (Len(tail) = 0 \/ (Len(tail) = 1 /\ tail[1].task = 0 /\ tail[1].event \in {"error", "[DONE]"}))
    <2> DEFINE x == Failed
               y == About(0, "[DONE]")
               EndsWith(z) == z \in Seq(RsAll) /\ (Len(z) = 0 \/ (Len(z) = 1 /\ z[1].task = 0 /\ z[1].event \in {"error", "[DONE]"}))
    <2>1. x \in RsAll /\ x.task = 0 /\ x.event = "error" /\ y \in RsAll /\ y.task = 0 /\ y.event = "[DONE]"
      <3>1. "error" \in RsNames /\ "[DONE]" \in RsNames
        BY DEF RsNames
      <3>2. x \in RsAll /\ y \in RsAll
        BY <3>1, EventFacts DEF Failed, About, RsAll
      <3>3. x.task = 0 /\ x.event = "error" /\ y.task = 0 /\ y.event = "[DONE]"
        BY FieldFacts DEF Failed, About
      <3> QED
        BY <3>2, <3>3
    <2>2. DoneTail = <<y>> \/ DoneTail = <<>>
      BY DEF DoneTail, If
    <2>3. Broken => out' = out \o <<x>> \/ out' = out \o <<>>
      <3>1. out = <<>> => out \o <<>> = <<>>
        BY Nil
      <3> QED
        BY <3>1 DEF Broken, Cut
    <2>4. Completes \/ Leaves => out' = out \o DoneTail \/ out' = out \o <<>>
      BY DEF Completes, Leaves, Shutting
    <2> HIDE DEF x, y
    <2>5. EndsWith(<<>>) /\ EndsWith(<<x>>) /\ EndsWith(<<y>>)
      <3>1. <<x>> \in Seq(RsAll) /\ Len(<<x>>) = 1 /\ <<x>>[1] = x /\ <<y>> \in Seq(RsAll) /\ Len(<<y>>) = 1 /\ <<y>>[1] = y
        BY <2>1
      <3> QED
        BY <2>1, <3>1
    <2>6. out' = Glued(out, <<>>) \/ out' = Glued(out, <<x>>) \/ out' = Glued(out, DoneTail)
      BY <2>3, <2>4 DEF Glued
    <2> HIDE DEF EndsWith
    <2>7. \E tail : out' = Glued(out, tail) /\ EndsWith(tail)
      BY <2>2, <2>5, <2>6
    <2> QED
      BY <2>7 DEF EndsWith
  <1>4. PICK tail : /\ out' = Glued(out, tail) /\ tail \in Seq(RsAll)
                    /\ (Len(tail) = 0 \/ (Len(tail) = 1 /\ tail[1].task = 0 /\ tail[1].event \in {"error", "[DONE]"}))
    BY <1>3
  <1>5. out \in Seq(RsAll)
    BY DEF RsCore
  <1>6. FollowedBy(out, tail, out')
    BY <1>4, <1>5, GluedFacts
  <1>7. EndOfLog(out, tail, out')
    BY <1>1, <1>2, <1>4, <1>6 DEF EndOfLog
  <1> QED
    BY <1>2, <1>7

(* What the slot s and the state st of a task tell of the beginning of its *)
(* message in the log q, by format.                                        *)
FirstLink(f, s, st, t, q) ==
    /\ s.sent = "nothing" => s.n_gen = 0
    /\ f = "chat" => (s.n_gen > 0 => Begun(q, t))
    /\ f = "resp" => (st.created <=> Begun(q, t)) /\ (s.n_gen > 0 => st.created)
    /\ f = "anthropic" => (s.n_gen > 0 <=> Begun(q, t))
IsFirst == Stream /\ ~ Split /\ Format \in {"chat", "resp", "anthropic"}
RsFirst ==
    IsFirst =>
        /\ http.phase # "closed" => /\ FirstOK(Tasks, Format, RsLog)
                                    /\ \A t \in Tasks : FirstLink(Format, slot[t], state[t], t, RsLog)
        /\ http.phase = "closed" => FirstOK(Tasks, Format, out)

\* A log without tasks has nothing wrong.
LEMMA FirstNone ==
    ASSUME NEW T, NEW f
    PROVE  FirstOK(T, f, <<>>) /\ \A u : ~ Begun(<<>>, u)
  BY DEF FirstOK, Begun

\* A step of an open stream keeps the order.
LEMMA FirstKept ==
    ASSUME RsCore, RsFirst, IsFirst, setup' = setup, NEW events \in Seq(RsGood), Kept(events), NEW t \in Tasks, NEW x,
           x = 0 \/ x = t, \A i \in 1..Len(events) : events[i].task = x,
           x \in Tasks => /\ Len(events) > 0 => Begun(RsLog, x) \/ events[1].event = "begin"
                          /\ Format \in {"resp", "anthropic"} =>
                                 \A i \in 1..Len(events) : events[i].event = "begin" => i = 1 /\ ~ Begun(RsLog, x),
           \A u \in Tasks : u # t => slot'[u] = slot[u] /\ state'[u] = state[u],
           \A q : (Begun(q, t) <=> Begun(RsLog, t) \/ Begun(events, t)) => FirstLink(Format, slot'[t], state'[t], t, q)
    PROVE  RsFirst'
  <1>1. Tasks' = Tasks /\ Format' = Format
    BY DEF Tasks, NTasks, Format
  <1>2. Stream
    BY DEF IsFirst
  <1>3. RsLog' \in Seq(RsGood) /\ FollowedBy(RsLog, events, RsLog') /\ http.phase # "closed" /\ http'.phase # "closed"
    BY <1>2, KeptLog
  <1>4. FirstOK(Tasks, Format, RsLog) /\ \A u \in Tasks : FirstLink(Format, slot[u], state[u], u, RsLog)
    BY <1>3 DEF RsFirst
  <1> DEFINE p == RsLog
             r == RsLog'
             T == Tasks
             f == Format
  <1>5. FollowedBy(p, events, r) /\ FirstOK(T, f, p)
    BY <1>3, <1>4
  <1>6. x \in T => /\ Len(events) > 0 => Begun(p, x) \/ events[1].event = "begin"
                   /\ f \in {"resp", "anthropic"} =>
                        \A i \in 1..Len(events) : events[i].event = "begin" => i = 1 /\ ~ Begun(p, x)
    OBVIOUS
  <1> HIDE DEF p, r, T, f
  <1>7. FirstOK(T, f, r) /\ \A u : Begun(r, u) <=> Begun(p, u) \/ Begun(events, u)
    BY <1>5, <1>6, FirstAdded
  <1>8. ASSUME NEW u \in Tasks PROVE FirstLink(Format, slot'[u], state'[u], u, RsLog')
    <2>1. Begun(r, u) <=> Begun(p, u) \/ Begun(events, u)
      BY <1>7
    <2>2. CASE u = t
      <3>1. Begun(RsLog', t) <=> Begun(RsLog, t) \/ Begun(events, t)
        BY <2>1, <2>2 DEF p, r
      <3> QED
        BY <2>2, <3>1
    <2>3. CASE u # t
      <3>1. ~ Begun(events, u)
        <4>1. 0 \notin Tasks
          BY DEF Tasks
        <4> QED
          BY <2>3, <4>1 DEF Begun
      <3>2. Begun(RsLog', u) <=> Begun(RsLog, u)
        BY <2>1, <3>1 DEF p, r
      <3> QED
        BY <2>3, <3>2, <1>4 DEF FirstLink
    <2> QED
      BY <2>2, <2>3
  <1>9. FirstOK(Tasks, Format, RsLog')
    BY <1>7 DEF T, f, r
  <1> QED
    BY <1>1, <1>3, <1>8, <1>9 DEF RsFirst

\* The events that are of no task.
LEMMA NoTask ==
    /\ 0 \notin Tasks /\ <<About(0, "null")>> \in Seq(RsGood) /\ <<About(0, "ping")>> \in Seq(RsGood) /\ <<>> \in Seq(RsGood)
    /\ \A name : Len(<<About(0, name)>>) = 1 /\ <<About(0, name)>>[1].task = 0 /\ <<About(0, name)>>[1].event = name
  <1>1. 0 \notin Tasks
    BY DEF Tasks
  <1>2. About(0, "null") \in RsGood /\ About(0, "ping") \in RsGood
    BY EventFacts DEF About, RsGood
  <1>3. ASSUME NEW name PROVE Len(<<About(0, name)>>) = 1 /\ <<About(0, name)>>[1].task = 0 /\ <<About(0, name)>>[1].event = name
    <2>1. About(0, name).task = 0 /\ About(0, name).event = name
      BY FieldFacts DEF About
    <2> QED
      BY <2>1
  <1>4. <<About(0, "null")>> \in Seq(RsGood) /\ <<About(0, "ping")>> \in Seq(RsGood) /\ <<>> \in Seq(RsGood)
    BY <1>2
  <1> QED
    BY <1>1, <1>3, <1>4

\* What begins with a step is what its events say.
LEMMA FirstStep ==
    ASSUME RsCore, RsFirst, Stream, ResultNext
    PROVE  RsFirst'
  <1>1. /\ setup' = setup
        /\ \/ \E t \in Tasks : Marked(t) \/ Told(t) \/ Concluded(t)
           \/ Idle \/ Broken \/ Completes \/ Leaves
    BY StreamSteps
  <1>2. IsFirst' = IsFirst /\ Tasks' = Tasks /\ Format' = Format
    BY <1>1 DEF IsFirst, Stream, Split, Format, Tasks, NTasks
  <1>3. CASE ~ IsFirst
    BY <1>2, <1>3 DEF RsFirst
  <1>4. CASE IsFirst
    <2>1. /\ slot \in [Tasks -> SlotType] /\ state \in [Tasks -> StateType] /\ setup \in Setups
          /\ MaxParts \in Nat /\ MaxIdle \in Nat /\ 0 \in 0..MaxParts /\ 0 \in 0..1
      BY CoreFacts
    <2>2. Format \in {"chat", "resp", "anthropic"} /\ ~ Split
      BY <1>4 DEF IsFirst
    <2>3. ASSUME NEW events, Kept(events), NEW t \in Tasks
          PROVE  FirstLink(Format, slot[t], state[t], t, RsLog)
      <3>1. http.phase # "closed"
        BY <2>3 DEF Kept
      <3> QED
        BY <3>1, <1>4 DEF RsFirst
    <2>4. ASSUME NEW t \in Tasks, Marked(t) PROVE RsFirst'
      <3>1. /\ slot[t].sent = "nothing" /\ Sent(t, "some", 0, 0) /\ state' = state
            /\ Kept(<<>>) \/ Kept(<<About(0, "null")>>)
        BY <2>4 DEF Marked
      <3>2. slot[t].reports + 0 <= MaxIdle
        BY StateFacts
      <3>3. slot'[t].sent = "some" /\ slot'[t].n_gen = 0 /\ \A u \in Tasks : u # t => slot'[u] = slot[u]
        BY <3>1, <3>2, <1>2, <2>1, SentFacts
      <3>4. FirstLink(Format, slot[t], state[t], t, RsLog) /\ slot[t].n_gen = 0
        <4>1. FirstLink(Format, slot[t], state[t], t, RsLog)
          BY <2>3, <3>1
        <4> QED
          BY <3>1, <4>1 DEF FirstLink
      <3>5. ASSUME NEW events \in Seq(RsGood), Kept(events),
                   \A i \in 1..Len(events) : events[i].task = 0 /\ events[i].event = "null"
            PROVE  RsFirst'
        <4>1. ~ Begun(events, t)
          BY <3>5 DEF Begun
        <4>2. ASSUME NEW q, Begun(q, t) <=> Begun(RsLog, t) \/ Begun(events, t) PROVE FirstLink(Format, slot'[t], state'[t], t, q)
          BY <3>1, <3>3, <3>4, <4>1, <4>2 DEF FirstLink
        <4> QED
          BY <3>1, <3>3, <3>5, <4>2, <1>1, <1>4, NoTask, FirstKept
      <3>6. \A i \in 1..Len(<<>>) : FALSE
        OBVIOUS
      <3>7. \A i \in 1..Len(<<About(0, "null")>>) : i = 1
        OBVIOUS
      <3> QED
        BY <3>1, <3>5, <3>6, <3>7, NoTask
    <2>5. ASSUME NEW t \in Tasks, Told(t) PROVE RsFirst'
      <3>1. PICK m \in Grown(state[t].msg), n \in 0..MaxParts, k \in 0..1 :
                 \E w, first \in BOOLEAN : Spoke(t, m, w, first, n, k)
        BY <2>5 DEF Told
      <3>2. PICK w, first \in BOOLEAN : Spoke(t, m, w, first, n, k)
        BY <3>1
      <3> DEFINE events == PartJson(t, m, w, n)
      <3>3. /\ slot[t].sent # "ended" /\ slot[t].reports + k <= MaxIdle
            /\ Sent(t, "some", n, k) /\ Kept(events)
            /\ state' = [state EXCEPT ![t] = Updated(state[t], m, first)]
            /\ \/ w /\ first /\ m = state[t].msg /\ n = 0 /\ slot[t].n_gen = 0
               \/ ~ w /\ (first <=> n = 1) /\ n = slot[t].n_gen + 1
        BY <3>2, <2>2 DEF Spoke
      <3>4. slot'[t].sent = "some" /\ slot'[t].n_gen = n /\ \A u \in Tasks : u # t => slot'[u] = slot[u]
        BY <3>3, <1>2, <2>1, SentFacts
      <3>5. /\ \A u \in Tasks : u # t => state'[u] = state[u]
            /\ state'[t].created <=> state[t].created \/ (Format = "resp" /\ first)
        <4>1. state'[t] = Updated(state[t], m, first) /\ \A u \in Tasks : u # t => state'[u] = state[u]
          BY <3>3, <2>1
        <4>2. Updated(state[t], m, first).created <=> state[t].created \/ (Format = "resp" /\ first)
          BY <2>1, UpdatedFacts
        <4> QED
          BY <4>1, <4>2
      <3>6. PartBegins(t, m, w, n, events)
        BY <2>2, PartOpens
      <3>7. events \in Seq(RsGood)
        BY NewEvents
      <3> HIDE DEF events
      <3>8. FirstLink(Format, slot[t], state[t], t, RsLog)
        BY <2>3, <3>3
      <3>9. slot[t].n_gen \in Nat /\ n \in Nat /\ t # 0
        BY <2>1, StateFacts
      <3>10. /\ Len(events) > 0 => Begun(RsLog, t) \/ events[1].event = "begin"
             /\ Format \in {"resp", "anthropic"} =>
                  \A i \in 1..Len(events) : events[i].event = "begin" => i = 1 /\ ~ Begun(RsLog, t)
        <4>1. /\ BeginsWith(t, w, n) => Len(events) > 0 /\ events[1].event = "begin"
              /\ \A i \in 1..Len(events) : events[i].event = "begin" => i = 1 /\ BeginsWith(t, w, n)
              /\ m = state[t].msg /\ ~ BeginsWith(t, w, n) /\ Format # "resp" => Len(events) = 0
          BY <3>6 DEF PartBegins
        <4>2. ASSUME Len(events) > 0, ~ BeginsWith(t, w, n) PROVE Begun(RsLog, t)
          <5>1. CASE Format = "resp"
            BY <5>1, <4>2, <3>8 DEF FirstLink, BeginsWith
          <5>2. CASE Format # "resp"
            <6>1. m # state[t].msg
              BY <4>1, <4>2, <5>2
            <6>2. n = slot[t].n_gen + 1 /\ n # 1
              BY <6>1, <3>3, <4>2, <2>2, <5>2 DEF BeginsWith
            <6>3. slot[t].n_gen > 0
              BY <6>2, <3>9
            <6> QED
              BY <6>3, <5>2, <2>2, <3>8 DEF FirstLink
          <5> QED
            BY <5>1, <5>2
        <4>3. ASSUME Format \in {"resp", "anthropic"}, BeginsWith(t, w, n) PROVE ~ Begun(RsLog, t)
          <5>1. CASE Format = "resp"
            BY <5>1, <4>3, <3>8 DEF FirstLink, BeginsWith
          <5>2. CASE Format = "anthropic"
            <6>1. n = 1
              BY <4>3, <5>2 DEF BeginsWith
            <6>2. slot[t].n_gen = 0
              BY <6>1, <3>3, <3>9
            <6> QED
              BY <6>2, <5>2, <3>8 DEF FirstLink
          <5> QED
            BY <5>1, <5>2, <4>3
        <4> QED
          BY <4>1, <4>2, <4>3
      <3>11. Begun(events, t) <=> BeginsWith(t, w, n)
        <4>1. /\ BeginsWith(t, w, n) => Len(events) > 0 /\ events[1].event = "begin"
              /\ \A i \in 1..Len(events) : events[i].event = "begin" => BeginsWith(t, w, n)
              /\ \A i \in 1..Len(events) : events[i].task = t
          BY <3>6 DEF PartBegins
        <4>2. BeginsWith(t, w, n) => 1 \in 1..Len(events)
          BY <4>1, <3>7, LenProperties
        <4> QED
          BY <4>1, <4>2 DEF Begun
      <3>12. ASSUME NEW q, Begun(q, t) <=> Begun(RsLog, t) \/ Begun(events, t)
             PROVE  FirstLink(Format, slot'[t], state'[t], t, q)
        <4>1. Begun(q, t) <=> Begun(RsLog, t) \/ BeginsWith(t, w, n)
          BY <3>11, <3>12
        <4>2. CASE Format = "chat"
          <5>1. n > 0 => n = 1 \/ slot[t].n_gen > 0
            BY <3>3, <3>9
          <5>2. n > 0 => Begun(q, t)
            BY <4>1, <4>2, <5>1, <3>8 DEF FirstLink, BeginsWith
          <5> QED
            BY <4>2, <5>2, <3>4 DEF FirstLink
        <4>3. CASE Format = "resp"
          <5>1. Begun(q, t)
            BY <4>1, <4>3, <3>8 DEF FirstLink, BeginsWith
          <5>2. state[t].created \/ first
            <6>1. slot[t].n_gen > 0 \/ first
              BY <3>3, <3>9
            <6> QED
              BY <6>1, <4>3, <3>8 DEF FirstLink
          <5> QED
            BY <4>3, <5>1, <5>2, <3>4, <3>5 DEF FirstLink
        <4>4. CASE Format = "anthropic"
          <5>1. Begun(RsLog, t) <=> slot[t].n_gen > 0
            BY <4>4, <3>8 DEF FirstLink
          <5>2. n > 0 <=> n = 1 \/ slot[t].n_gen > 0
            BY <3>3, <3>9
          <5>3. n > 0 <=> Begun(q, t)
            BY <4>1, <4>4, <5>1, <5>2 DEF BeginsWith
          <5> QED
            BY <4>4, <5>3, <3>4 DEF FirstLink
        <4> QED
          BY <2>2, <4>2, <4>3, <4>4
      <3>13. \A i \in 1..Len(events) : events[i].task = t
        BY <3>6 DEF PartBegins
      <3> QED
        BY <3>3, <3>4, <3>5, <3>7, <3>10, <3>12, <3>13, <1>1, <1>4, FirstKept
    <2>6. ASSUME NEW t \in Tasks, Concluded(t) PROVE RsFirst'
      <3>1. PICK m \in Grown(state[t].msg) : Finishes(t, m)
        BY <2>6 DEF Concluded
      <3> DEFINE events == FinalJson(t, m)
      <3>2. /\ slot[t].n_gen > 0 /\ Kept(events) /\ state' = [state EXCEPT ![t].msg = m] /\ Sent(t, "ended", slot[t].n_gen, 0)
        BY <3>1 DEF Finishes
      <3>3. slot[t].n_gen \in 0..MaxParts /\ slot[t].reports + 0 <= MaxIdle /\ state[t].msg \in Messages
        BY <2>1, StateFacts
      <3>4. slot'[t].sent = "ended" /\ slot'[t].n_gen = slot[t].n_gen /\ \A u \in Tasks : u # t => slot'[u] = slot[u]
        BY <3>2, <3>3, <1>2, <2>1, SentFacts
      <3>5. state'[t].created = state[t].created /\ \A u \in Tasks : u # t => state'[u] = state[u]
        <4>1. state'[t] = [state[t] EXCEPT !.msg = m] /\ \A u \in Tasks : u # t => state'[u] = state[u]
          BY <3>2, <2>1
        <4>2. state[t] \in StateType
          BY StateFacts
        <4>3. [state[t] EXCEPT !.msg = m].created = state[t].created
          BY <4>2 DEF StateType
        <4> QED
          BY <4>1, <4>3
      <3>6. events \in Seq(RsEvents({t}, RsBody \cup RsEnd)) /\ events \in Seq(RsGood)
        BY <2>1, <3>3, FinalShape, NewEvents
      <3> HIDE DEF events
      <3>7. \A i \in 1..Len(events) : events[i].task = t /\ events[i].event # "begin"
        <4>1. ASSUME NEW i \in 1..Len(events) PROVE events[i] \in RsEvents({t}, RsBody \cup RsEnd)
          BY <3>6, ElementOfSeq
        <4> QED
          BY <4>1 DEF RsEvents, RsBody, RsEnd
      <3>8. FirstLink(Format, slot[t], state[t], t, RsLog)
        BY <2>3, <3>2
      <3>9. Begun(RsLog, t)
        BY <3>2, <3>8, <2>2 DEF FirstLink
      <3>10. ~ Begun(events, t)
        BY <3>7 DEF Begun
      <3>11. ASSUME NEW q, Begun(q, t) <=> Begun(RsLog, t) \/ Begun(events, t)
             PROVE  FirstLink(Format, slot'[t], state'[t], t, q)
        BY <3>4, <3>5, <3>8, <3>9, <3>10, <3>11 DEF FirstLink
      <3> QED
        BY <3>2, <3>4, <3>5, <3>6, <3>7, <3>9, <3>11, <1>1, <1>4, FirstKept
    <2>7. CASE Idle
      <3>1. slot' = slot /\ state' = state /\ (Kept(<<>>) \/ Kept(<<About(0, "ping")>>))
        BY <2>7 DEF Idle
      <3>2. PICK t \in Tasks : TRUE
        BY CoreFacts
      <3>3. FirstLink(Format, slot[t], state[t], t, RsLog)
        BY <2>3, <3>1
      <3>4. ASSUME NEW events \in Seq(RsGood), Kept(events),
                   \A i \in 1..Len(events) : events[i].task = 0 /\ events[i].event = "ping"
            PROVE  RsFirst'
        <4>1. ~ Begun(events, t)
          BY <3>4 DEF Begun
        <4>2. ASSUME NEW q, Begun(q, t) <=> Begun(RsLog, t) \/ Begun(events, t) PROVE FirstLink(Format, slot'[t], state'[t], t, q)
          BY <3>1, <3>3, <4>1, <4>2 DEF FirstLink
        <4> QED
          BY <3>1, <3>4, <4>2, <1>1, <1>4, NoTask, FirstKept
      <3>6. \A i \in 1..Len(<<>>) : FALSE
        OBVIOUS
      <3>7. \A i \in 1..Len(<<About(0, "ping")>>) : i = 1
        OBVIOUS
      <3> QED
        BY <3>1, <3>4, <3>6, <3>7, NoTask
    <2>8. CASE Broken \/ Completes \/ Leaves
      <3>1. http.phase # "closed" /\ http'.phase = "closed"
        BY <2>8, ClosedLog
      <3>2. PICK q, tail : EndOfLog(q, tail, out')
        BY <2>8, ClosedLog
      <3>3. FirstOK(Tasks, Format, q)
        <4>1. FirstOK(Tasks, Format, RsLog)
          BY <3>1, <1>4 DEF RsFirst
        <4> QED
          BY <3>2, <4>1, FirstNone DEF EndOfLog
      <3>4. FollowedBy(q, tail, out') /\ \A i \in 1..Len(tail) : tail[i].task = 0
        BY <3>2 DEF EndOfLog
      <3>5. FirstOK(Tasks, Format, out')
        BY <3>3, <3>4, NoTask, FirstAdded
      <3> QED
        BY <3>1, <3>5, <1>2 DEF RsFirst
    <2> QED
      BY <1>1, <2>4, <2>5, <2>6, <2>7, <2>8
  <1> QED
    BY <1>3, <1>4

(* What a task streams begins with the event that opens its message, sent  *)
(* once for the formats with items or blocks, if its first token sends a   *)
(* part (OpenedFirst).                                                     *)
THEOREM StreamsBeginWithBegin == ResultSpec => []OpenedFirst
  <1>1. ResultInit => RsCore /\ RsFirst
    <2> SUFFICES ASSUME ResultInit PROVE RsCore /\ RsFirst
      OBVIOUS
    <2>1. RsCore
      BY CoreInit
    <2>2. out = <<>> /\ RsLog = <<>>
      <3>1. http.phase = "first" \/ http.phase = "whole"
        BY DEF ResultInit
      <3> QED
        BY <3>1 DEF ResultInit, RsLog
    <2>3. FirstOK(Tasks, Format, <<>>)
      BY FirstNone
    <2>4. ASSUME NEW t \in Tasks PROVE FirstLink(Format, slot[t], state[t], t, <<>>)
      <3>1. slot[t] = [sent |-> "nothing", n_gen |-> 0, reports |-> 0]
        BY <2>4 DEF ResultInit
      <3>2. state[t] = [msg |-> NoMessage, thinking |-> FALSE, text |-> FALSE, created |-> FALSE]
        BY <2>4 DEF ResultInit
      <3>3. slot[t].n_gen = 0 /\ ~ state[t].created
        BY <3>1, <3>2
      <3> QED
        BY <3>3, FirstNone DEF FirstLink
    <2> QED
      BY <2>1, <2>2, <2>3, <2>4 DEF RsFirst
  <1>2. RsCore /\ RsFirst /\ [ResultNext]_resultVars => RsCore' /\ RsFirst'
    <2> SUFFICES ASSUME RsCore, RsFirst, [ResultNext]_resultVars PROVE RsFirst'
      BY CoreNext
    <2>1. CASE ResultNext /\ Stream
      BY <2>1, FirstStep
    <2>2. CASE ~ Stream
      BY <2>2, SameSetup DEF RsFirst, IsFirst
    <2>3. CASE UNCHANGED resultVars
      <3>1. /\ RsLog' = RsLog /\ IsFirst' = IsFirst /\ Tasks' = Tasks /\ Format' = Format
            /\ UNCHANGED <<slot, state, http, out>>
        BY <2>3 DEF resultVars, RsLog, IsFirst, Stream, Split, Format, Tasks, NTasks
      <3> QED
        BY <3>1 DEF RsFirst
    <2> QED
      BY <2>1, <2>2, <2>3
  <1>3. RsCore /\ RsFirst => OpenedFirst
    <2> SUFFICES ASSUME RsCore, RsFirst, IsFirst, NEW i \in DOMAIN out, out[i].task \in Tasks
                 PROVE  /\ \E j \in 1..i : out[j].event = "begin" /\ out[j].task = out[i].task
                        /\ Blocks /\ out[i].event = "begin" => \A j \in 1..i - 1 : out[j].event = "begin" => out[j].task # out[i].task
      BY DEF OpenedFirst, IsFirst
    <2>1. FirstOK(Tasks, Format, out)
      <3>1. CASE http.phase = "closed"
        BY <3>1 DEF RsFirst
      <3>2. CASE http.phase = "stream"
        BY <3>2 DEF RsFirst, RsLog
      <3>3. CASE out = <<>>
        BY <3>3, FirstNone
      <3> QED
        BY <3>1, <3>2, <3>3 DEF RsCore, ResultTypeOK
    <2>2. i \in 1..Len(out)
      BY LenProperties DEF RsCore, IsFirst
    <2> QED
      BY <2>1, <2>2 DEF FirstOK, Leads, Only, Blocks
  <1> QED
    BY <1>1, <1>2, <1>3, PTL DEF ResultSpec
-----------------------------------------------------------------------------
(* The deltas of a part of a message add up to what the part has.          *)
Adds(e, t, at) == IF e.task = t /\ e.event = "delta" /\ e.at = at THEN e.n ELSE 0

(* s tells for each i how much the first i events of q add.                *)
RunningSum(q, t, at, s) ==
    /\ Sum(q, t, at) = s[Len(q)] /\ s[0] = 0
    /\ \A i \in 0..Len(q) : s[i] \in Nat
    /\ \A i \in 1..Len(q) : s[i] = s[i - 1] + Adds(q[i], t, at)

\* A sum has its running sums.
LEMMA SumRuns ==
    ASSUME NEW q, Len(q) \in Nat, \A i \in 1..Len(q) : q[i].n \in Nat, NEW t, NEW at
    PROVE  \E s : RunningSum(q, t, at, s)
  <1> DEFINE N == Len(q)
             F == [i \in 1..N |-> [x \in Nat |-> x + Adds(q[i], t, at)]]
             Step(f) == [i \in 0..N |-> IF i = 0 THEN 0
                            ELSE IF q[i].task = t /\ q[i].event = "delta" /\ q[i].at = at THEN f[i - 1] + q[i].n ELSE f[i - 1]]
  <1>1. \A i \in 1..N : Adds(q[i], t, at) \in Nat
    BY DEF Adds
  <1>2. \A i \in 1..N : \A x \in Nat : F[i][x] = x + Adds(q[i], t, at) /\ F[i][x] \in Nat
    BY <1>1
  <1> HIDE DEF F
  <1>3. Stays(F, N, Nat) /\ 0 \in Nat /\ N \in Nat
    BY <1>2 DEF Stays
  <1> HIDE DEF N
  <1>4. PICK f : DOMAIN f = 0..N /\ Runs(f, F, N, Nat, 0)
    BY <1>3, Recursion
  <1>5. \A h : Runs(h, F, N, Nat, 0) => \A i \in 0..N : h[i] \in Nat
    BY <1>3, Recursion
  <1>6. \A i \in 0..N : f[i] \in Nat
    BY <1>4, <1>5
  <1>7. \A i \in 1..N : i - 1 \in 0..N /\ f[i] = f[i - 1] + Adds(q[i], t, at)
    <2>1. ASSUME NEW i \in 1..N PROVE i - 1 \in 0..N /\ f[i] = f[i - 1] + Adds(q[i], t, at)
      <3>1. i - 1 \in 0..N
        BY <1>3
      <3>2. f[i - 1] \in Nat
        BY <3>1, <1>6
      <3>3. f[i] = F[i][f[i - 1]]
        BY <3>2, <1>4 DEF Runs
      <3> QED
        BY <3>1, <3>2, <3>3, <1>2
    <2> QED
      BY <2>1
  <1> DEFINE g == [i \in 0..N |-> f[i]]
  <1>8. g = Step(g)
    <2>1. ASSUME NEW i \in 0..N
          PROVE  g[i] = IF i = 0 THEN 0
                        ELSE IF q[i].task = t /\ q[i].event = "delta" /\ q[i].at = at THEN g[i - 1] + q[i].n ELSE g[i - 1]
      <3>1. CASE i = 0
        <4>1. f[0] = 0
          BY <1>4 DEF Runs
        <4> QED
          BY <3>1, <4>1
      <3>2. CASE i # 0
        <4>1. i \in 1..N /\ i - 1 \in 0..N
          BY <3>2, <1>3
        <4>2. g[i] = f[i] /\ g[i - 1] = f[i - 1] /\ f[i - 1] \in Nat
          BY <4>1, <1>6
        <4>3. f[i] = f[i - 1] + Adds(q[i], t, at)
          BY <4>1, <1>7
        <4> HIDE DEF g
        <4>4. CASE q[i].task = t /\ q[i].event = "delta" /\ q[i].at = at
          BY <3>2, <4>2, <4>3, <4>4 DEF Adds
        <4>5. CASE ~ (q[i].task = t /\ q[i].event = "delta" /\ q[i].at = at)
          BY <3>2, <4>2, <4>3, <4>5 DEF Adds
        <4> QED
          BY <4>4, <4>5
      <3> QED
        BY <3>1, <3>2
    <2> QED
      BY <2>1
  <1> HIDE DEF g
  <1>9. PICK s : s = (CHOOSE h : h = Step(h)) /\ s = Step(s)
    <2> HIDE DEF Step
    <2>1. \E h : h = Step(h)
      BY <1>8
    <2> QED
      BY <2>1
  <1>10. Sum(q, t, at) = s[N]
    BY <1>9 DEF Sum, N
  <1>11. /\ s[0] = 0
         /\ \A i \in 0..N : i # 0 => s[i] = IF q[i].task = t /\ q[i].event = "delta" /\ q[i].at = at THEN s[i - 1] + q[i].n ELSE s[i - 1]
    <2>1. ASSUME NEW i \in 0..N
          PROVE  s[i] = IF i = 0 THEN 0
                        ELSE IF q[i].task = t /\ q[i].event = "delta" /\ q[i].at = at THEN s[i - 1] + q[i].n ELSE s[i - 1]
      <3>1. s = Step(s)
        BY <1>9
      <3>2. Step(s)[i] = IF i = 0 THEN 0
                         ELSE IF q[i].task = t /\ q[i].event = "delta" /\ q[i].at = at THEN s[i - 1] + q[i].n ELSE s[i - 1]
        OBVIOUS
      <3> HIDE DEF Step
      <3> QED
        BY <3>1, <3>2
    <2>2. 0 \in 0..N
      BY <1>3
    <2> QED
      BY <2>1, <2>2
  <1> HIDE DEF Step
  <1> DEFINE U == {i \in Nat : i <= N => s[i] \in Nat}
  <1>12. 0 \in U
    BY <1>11
  <1>13. ASSUME NEW i \in Nat, i \in U PROVE i + 1 \in U
    <2> SUFFICES ASSUME i + 1 <= N PROVE s[i + 1] \in Nat
      OBVIOUS
    <2> DEFINE j == i + 1
    <2>1. j \in 1..N /\ j \in 0..N /\ j # 0 /\ j - 1 = i /\ s[i] \in Nat
      BY <1>3, <1>13
    <2> HIDE DEF j
    <2>2. q[j].n \in Nat
      BY <2>1 DEF N
    <2>3. s[j] = s[i] + q[j].n \/ s[j] = s[i]
      BY <2>1, <1>11
    <2>4. s[j] \in Nat
      BY <2>1, <2>2, <2>3
    <2> QED
      BY <2>4 DEF j
  <1>14. Nat \subseteq U
    <2> HIDE DEF U
    <2> QED
      BY <1>12, <1>13, SetInduction
  <1>15. \A i \in 0..N : s[i] \in Nat
    BY <1>3, <1>14
  <1>16. ASSUME NEW i \in 1..N PROVE s[i] = s[i - 1] + Adds(q[i], t, at)
    <2>1. i \in 0..N /\ i # 0 /\ i - 1 \in 0..N
      BY <1>3
    <2>2. s[i - 1] \in Nat
      BY <2>1, <1>15
    <2>3. s[i] = IF q[i].task = t /\ q[i].event = "delta" /\ q[i].at = at THEN s[i - 1] + q[i].n ELSE s[i - 1]
      BY <2>1, <1>11
    <2> QED
      BY <2>2, <2>3 DEF Adds
  <1>17. s[0] = 0
    BY <1>11
  <1> QED
    BY <1>10, <1>15, <1>16, <1>17 DEF RunningSum, N

\* The sum of a list that goes on.
LEMMA SumJoins ==
    ASSUME NEW p, NEW q, NEW r, FollowedBy(p, q, r), \A i \in 1..Len(r) : r[i].n \in Nat, NEW t, NEW at
    PROVE  /\ Sum(r, t, at) = Sum(p, t, at) + Sum(q, t, at)
           /\ Sum(p, t, at) \in Nat /\ Sum(q, t, at) \in Nat
  <1> DEFINE k == Len(p)
             l == Len(q)
  <1>1. /\ k \in Nat /\ l \in Nat /\ Len(r) = k + l
        /\ \A i \in 1..k : i \in 1..k + l /\ r[i] = p[i]
        /\ \A i \in 1..l : k + i \in 1..k + l /\ r[k + i] = q[i]
    BY DEF FollowedBy
  <1>2. PICK x : RunningSum(p, t, at, x)
    <2>1. \A i \in 1..k : p[i].n \in Nat
      BY <1>1
    <2> QED
      BY <1>1, <2>1, SumRuns
  <1>3. PICK y : RunningSum(q, t, at, y)
    <2>1. \A i \in 1..l : q[i].n \in Nat
      BY <1>1
    <2> QED
      BY <1>1, <2>1, SumRuns
  <1>4. PICK z : RunningSum(r, t, at, z)
    <2>1. Len(r) \in Nat
      BY <1>1
    <2> QED
      BY <2>1, SumRuns
  <1>5. /\ Sum(p, t, at) = x[k] /\ x[0] = 0 /\ (\A i \in 0..k : x[i] \in Nat) /\ (\A i \in 1..k : x[i] = x[i - 1] + Adds(p[i], t, at))
        /\ Sum(q, t, at) = y[l] /\ y[0] = 0 /\ (\A i \in 0..l : y[i] \in Nat) /\ (\A i \in 1..l : y[i] = y[i - 1] + Adds(q[i], t, at))
    BY <1>2, <1>3 DEF RunningSum
  <1>6. Sum(r, t, at) = z[k + l] /\ z[0] = 0 /\ (\A i \in 1..k + l : z[i] = z[i - 1] + Adds(r[i], t, at))
    BY <1>1, <1>4 DEF RunningSum
  <1> HIDE DEF k, l
  <1> DEFINE U == {i \in Nat : i <= k => z[i] = x[i]}
             V == {i \in Nat : i <= l => z[k + i] = x[k] + y[i]}
  <1>7. 0 \in U
    BY <1>5, <1>6
  <1>8. ASSUME NEW i \in Nat, i \in U PROVE i + 1 \in U
    <2> SUFFICES ASSUME i + 1 <= k PROVE z[i + 1] = x[i + 1]
      OBVIOUS
    <2> DEFINE j == i + 1
    <2>1. j \in 1..k /\ j \in 1..k + l /\ j - 1 = i /\ z[i] = x[i]
      BY <1>1, <1>8
    <2> HIDE DEF j
    <2>2. x[j] = x[i] + Adds(p[j], t, at) /\ z[j] = z[i] + Adds(r[j], t, at) /\ r[j] = p[j]
      BY <2>1, <1>1, <1>5, <1>6
    <2> QED
      BY <2>1, <2>2 DEF j
  <1>9. Nat \subseteq U
    <2> HIDE DEF U
    <2> QED
      BY <1>7, <1>8, SetInduction
  <1>10. z[k] = x[k] /\ x[k] \in Nat
    BY <1>1, <1>5, <1>9
  <1>11. 0 \in V
    <2>1. k + 0 = k /\ x[k] + 0 = x[k]
      BY <1>1, <1>10
    <2> QED
      BY <2>1, <1>5, <1>10
  <1>12. ASSUME NEW i \in Nat, i \in V PROVE i + 1 \in V
    <2> SUFFICES ASSUME i + 1 <= l PROVE z[k + (i + 1)] = x[k] + y[i + 1]
      OBVIOUS
    <2> DEFINE j == i + 1
               h == k + j
    <2>1. j \in 1..l /\ i \in 0..l /\ j - 1 = i /\ h \in 1..k + l /\ h - 1 = k + i
      BY <1>1
    <2>2. z[k + i] = x[k] + y[i]
      BY <2>1, <1>12
    <2>3. r[h] = q[j]
      BY <2>1, <1>1
    <2> HIDE DEF h, j
    <2>4. y[j] = y[i] + Adds(q[j], t, at) /\ z[h] = z[k + i] + Adds(r[h], t, at)
      BY <2>1, <1>5, <1>6
    <2>5. y[i] \in Nat /\ x[k] \in Nat /\ y[j] \in Nat
      <3>1. j \in 0..l
        BY <2>1, <1>1
      <3> QED
        BY <2>1, <3>1, <1>5, <1>10
    <2>6. Adds(q[j], t, at) \in Nat
      <3>1. q[j].n \in Nat
        <4>1. k + j \in 1..k + l /\ r[k + j] = q[j]
          BY <2>1, <1>1
        <4> QED
          BY <4>1, <1>1 DEF k
      <3> QED
        BY <3>1 DEF Adds
    <2>7. z[h] = x[k] + y[j]
      BY <2>2, <2>3, <2>4, <2>5, <2>6
    <2> QED
      BY <2>7 DEF h, j
  <1>13. Nat \subseteq V
    <2> HIDE DEF V
    <2> QED
      BY <1>11, <1>12, SetInduction
  <1>14. z[k + l] = x[k] + y[l] /\ y[l] \in Nat
    BY <1>1, <1>5, <1>13
  <1> QED
    BY <1>5, <1>6, <1>10, <1>14

\* A list that adds nothing, and a list of one event.
LEMMA SumSmall ==
    ASSUME NEW q, Len(q) \in Nat, \A i \in 1..Len(q) : q[i].n \in Nat, NEW t, NEW at
    PROVE  /\ (\A i \in 1..Len(q) : Adds(q[i], t, at) = 0) => Sum(q, t, at) = 0
           /\ Len(q) = 1 => Sum(q, t, at) = Adds(q[1], t, at)
  <1>1. PICK s : RunningSum(q, t, at, s)
    BY SumRuns
  <1> DEFINE N == Len(q)
  <1>2. /\ Sum(q, t, at) = s[N] /\ s[0] = 0 /\ (\A i \in 0..N : s[i] \in Nat)
        /\ \A i \in 1..N : s[i] = s[i - 1] + Adds(q[i], t, at)
    BY <1>1 DEF RunningSum
  <1>3. N \in Nat
    OBVIOUS
  <1> HIDE DEF N
  <1>4. ASSUME \A i \in 1..N : Adds(q[i], t, at) = 0 PROVE Sum(q, t, at) = 0
    <2> DEFINE U == {i \in Nat : i <= N => s[i] = 0}
    <2>1. 0 \in U
      BY <1>2
    <2>2. ASSUME NEW i \in Nat, i \in U PROVE i + 1 \in U
      <3> SUFFICES ASSUME i + 1 <= N PROVE s[i + 1] = 0
        OBVIOUS
      <3> DEFINE j == i + 1
      <3>1. j \in 1..N /\ j - 1 = i /\ s[i] = 0
        BY <1>3, <2>2
      <3> HIDE DEF j
      <3>2. s[j] = s[i] + 0
        BY <3>1, <1>2, <1>4
      <3> QED
        BY <3>1, <3>2 DEF j
    <2>3. Nat \subseteq U
      <3> HIDE DEF U
      <3> QED
        BY <2>1, <2>2, SetInduction
    <2> QED
      BY <2>3, <1>2, <1>3
  <1>5. ASSUME N = 1 PROVE Sum(q, t, at) = Adds(q[1], t, at)
    <2>1. 1 \in 1..N /\ 1 - 1 = 0 /\ 1 \in 0..N
      BY <1>5
    <2>2. s[1] = s[0] + Adds(q[1], t, at) /\ s[0] = 0 /\ s[1] = Sum(q, t, at)
      BY <2>1, <1>2, <1>5
    <2>3. Adds(q[1], t, at) \in Nat
      <3>1. q[1].n \in Nat
        BY <2>1 DEF N
      <3> QED
        BY <3>1 DEF Adds
    <2> QED
      BY <2>2, <2>3
  <1> QED
    BY <1>4, <1>5 DEF N

\* What opens and fills a part adds to that part.
LEMMA SumBody ==
    ASSUME NEW t, NEW at \in RsAts, NEW index \in Nat, NEW k \in Nat, NEW body,
           Fills(t, at, index, k, body) \/ OpensAndFills(t, at, index, k, body), NEW u, NEW v
    PROVE  Sum(body, u, v) = IF u = t /\ v = at THEN k ELSE 0
  <1> DEFINE E == RsEvents({t}, RsBody)
             x == Opening(t, at, index)
             y == Filling(t, at, index, k)
             e == Event(t, "delta", at, k, index)
             o == Event(t, "opened", at, 0, index)
             p == Event(t, "part", at, 0, index)
  <1>1. /\ o \in E /\ p \in E /\ e \in E
        /\ o.event = "opened" /\ p.event = "part" /\ e.event = "delta" /\ e.task = t /\ e.at = at /\ e.n = k
    <2>1. o \in E /\ p \in E /\ e \in E
      BY EventFacts DEF RsBody
    <2> QED
      BY <2>1, FieldFacts
  <1>2. \A f \in E : f.n \in Nat
    BY DEF RsEvents
  <1>3. x = <<o>> \/ x = <<o, p>>
    BY DEF Opening
  <1>4. (k > 0 => y = <<e>>) /\ (~ k > 0 => y = <<>>)
    BY DEF Filling
  <1> HIDE DEF E, x, y, e, o, p
  <1>5. x \in Seq(E) /\ Len(x) \in Nat /\ \A i \in 1..Len(x) : x[i] = o \/ x[i] = p
    <2>1. <<o>> \in Seq(E) /\ Len(<<o>>) = 1 /\ <<o>>[1] = o
      BY <1>1
    <2>2. <<o, p>> \in Seq(E) /\ Len(<<o, p>>) = 2 /\ <<o, p>>[1] = o /\ <<o, p>>[2] = p
      BY <1>1
    <2>3. CASE x = <<o>>
      BY <2>1, <2>3
    <2>4. CASE x = <<o, p>>
      BY <2>2, <2>4
    <2> QED
      BY <2>3, <2>4, <1>3
  <1>6. y \in Seq(E) /\ (k > 0 => Len(y) = 1 /\ y[1] = e) /\ (~ k > 0 => Len(y) = 0)
    <2>1. <<e>> \in Seq(E) /\ Len(<<e>>) = 1 /\ <<e>>[1] = e
      BY <1>1
    <2>2. <<>> \in Seq(E) /\ Len(<<>>) = 0
      OBVIOUS
    <2>3. CASE k > 0
      BY <2>1, <2>3, <1>4
    <2>4. CASE ~ k > 0
      BY <2>2, <2>4, <1>4
    <2> QED
      BY <2>3, <2>4
  <1>7. Sum(x, u, v) = 0
    <2>1. \A i \in 1..Len(x) : x[i].n \in Nat /\ Adds(x[i], u, v) = 0
      BY <1>1, <1>2, <1>5 DEF Adds
    <2> QED
      BY <2>1, <1>5, SumSmall
  <1>8. Sum(y, u, v) = IF u = t /\ v = at THEN k ELSE 0
    <2>1. Len(y) \in Nat /\ \A i \in 1..Len(y) : y[i].n \in Nat
      BY <1>2, <1>6, LenProperties, ElementOfSeq
    <2>2. CASE k > 0
      <3>1. Sum(y, u, v) = Adds(e, u, v)
        BY <2>1, <2>2, <1>6, SumSmall
      <3> QED
        BY <3>1, <1>1 DEF Adds
    <2>3. CASE ~ k > 0
      <3>1. Sum(y, u, v) = 0
        <4>1. \A i \in 1..Len(y) : Adds(y[i], u, v) = 0
          BY <2>3, <1>6
        <4> QED
          BY <4>1, <2>1, SumSmall
      <3>2. k = 0
        BY <2>3
      <3> QED
        BY <3>1, <3>2
    <2> QED
      BY <2>2, <2>3
  <1>9. body = y \/ body = Glued(x, y)
    BY DEF Fills, OpensAndFills, Glued, x, y
  <1>10. CASE body = Glued(x, y)
    <2>1. body \in Seq(E) /\ FollowedBy(x, y, body)
      BY <1>5, <1>6, <1>10, GluedFacts
    <2>2. \A i \in 1..Len(body) : body[i].n \in Nat
      BY <2>1, <1>2, ElementOfSeq
    <2>3. Sum(body, u, v) = Sum(x, u, v) + Sum(y, u, v) /\ Sum(y, u, v) \in Nat
      BY <2>1, <2>2, SumJoins
    <2> QED
      BY <2>3, <1>7, <1>8
  <1> QED
    BY <1>8, <1>9, <1>10

-----------------------------------------------------------------------------
(* How much a message has of a part.                                       *)
RsParts == {Reasoning, Text} \cup {Call(i) : i \in 1..MaxCalls}
Has(m, at) ==
    CASE at = Reasoning -> m.reasoning
      [] at = Text -> m.text
      [] OTHER -> IF at[2] \in 1..Len(m.calls) THEN m.calls[at[2]] ELSE 0

\* By part.
LEMMA HasFacts ==
    ASSUME NEW m
    PROVE  /\ Has(m, Reasoning) = m.reasoning /\ Has(m, Text) = m.text
           /\ \A i \in Nat : Has(m, Call(i)) = IF i \in 1..Len(m.calls) THEN m.calls[i] ELSE 0
  <1>1. Has(m, Reasoning) = m.reasoning
    BY PartsDiffer DEF Has
  <1>2. Has(m, Text) = m.text
    BY PartsDiffer DEF Has
  <1>3. ASSUME NEW i \in Nat PROVE Has(m, Call(i)) = IF i \in 1..Len(m.calls) THEN m.calls[i] ELSE 0
    BY PartsDiffer DEF Has
  <1> QED
    BY <1>1, <1>2, <1>3

\* What a client is told of a part is what the message has of it.
LEMMA PartLengths ==
    ASSUME NEW m \in Messages, NEW at \in RsParts
    PROVE  (IF at \in ToSet(PartsOf(m)) THEN LengthIn(m, at) ELSE 0) = Has(m, at) /\ Has(m, at) \in Nat
  <1> DEFINE x == IF m.reasoning > 0 THEN 1 ELSE 0
             y == IF m.text > 0 THEN 1 ELSE 0
             z == Len(m.calls)
             P == PartsOf(m)
  <1>1. /\ m.reasoning \in Nat /\ m.text \in Nat /\ z \in Nat /\ \A i \in 1..z : m.calls[i] \in Nat
    BY MessageFacts
  <1>2. /\ DOMAIN P = 1..x + y + z
        /\ x = 1 => P[1] = Reasoning
        /\ y = 1 => P[x + 1] = Text
        /\ \A i \in 1..z : P[x + y + i] = Call(i)
    BY PartsFacts
  <1>3. x \in {0, 1} /\ y \in {0, 1} /\ (x = 1 <=> m.reasoning > 0) /\ (y = 1 <=> m.text > 0)
    OBVIOUS
  <1>4. ToSet(P) = {P[i] : i \in DOMAIN P}
    BY DEF ToSet
  <1> HIDE DEF x, y, z, P
  <1>5. \A j \in 1..x + y + z : \/ x = 1 /\ j = 1
                                \/ y = 1 /\ j = x + 1
                                \/ \E i \in 1..z : j = x + y + i
    <2> SUFFICES ASSUME NEW j \in 1..x + y + z, ~ (x = 1 /\ j = 1), ~ (y = 1 /\ j = x + 1)
                 PROVE  \E i \in 1..z : j = x + y + i
      OBVIOUS
    <2> DEFINE w == x + y
               i == j - w
    <2>1. w \in Nat /\ j \in 1..w + z /\ j > w
      BY <1>1, <1>3
    <2> HIDE DEF w
    <2>2. i \in 1..z /\ j = w + i
      BY <2>1, <1>1
    <2> HIDE DEF i
    <2> QED
      BY <2>2 DEF w
  <1>6. \A e \in ToSet(P) : \/ x = 1 /\ e = Reasoning
                            \/ y = 1 /\ e = Text
                            \/ \E i \in 1..z : e = Call(i)
    <2> SUFFICES ASSUME NEW j \in 1..x + y + z
                 PROVE  \/ x = 1 /\ P[j] = Reasoning
                        \/ y = 1 /\ P[j] = Text
                        \/ \E i \in 1..z : P[j] = Call(i)
      BY <1>2, <1>4
    <2> QED
      BY <1>2, <1>5
  <1>7. /\ x = 1 => 1 \in 1..x + y + z
        /\ y = 1 => x + 1 \in 1..x + y + z
        /\ \A i \in 1..z : x + y + i \in 1..x + y + z
    <2>1. x + y \in Nat /\ (x = 1 => x + y >= 1) /\ (y = 1 => x + y >= x + 1)
      BY <1>3
    <2>2. \A w \in Nat : \A i \in 1..z : w + i \in 1..w + z
      BY <1>1
    <2>3. \A i \in 1..z : x + y + i \in 1..x + y + z
      BY <2>1, <2>2
    <2>4. (x = 1 => 1 \in 1..x + y + z) /\ (y = 1 => x + 1 \in 1..x + y + z)
      BY <1>1, <1>3
    <2> QED
      BY <2>3, <2>4
  <1>8. /\ x = 1 => Reasoning \in ToSet(P)
        /\ y = 1 => Text \in ToSet(P)
    BY <1>2, <1>4, <1>7
  <1>9. \A i \in 1..z : Call(i) \in ToSet(P)
    <2> SUFFICES ASSUME NEW i \in 1..z PROVE Call(i) \in ToSet(P)
      OBVIOUS
    <2>1. x + y + i \in DOMAIN P /\ P[x + y + i] = Call(i)
      BY <1>2, <1>7
    <2> QED
      BY <2>1, <1>4
  <1>10. CASE at = Reasoning
    <2>1. Reasoning \in ToSet(P) <=> x = 1
      BY <1>6, <1>8, <1>1, PartsDiffer
    <2>2. LengthIn(m, Reasoning) = m.reasoning
      BY PartsDiffer DEF LengthIn
    <2> QED
      BY <2>1, <2>2, <1>1, <1>3, <1>10, HasFacts DEF P, x
  <1>11. CASE at = Text
    <2>1. Text \in ToSet(P) <=> y = 1
      BY <1>6, <1>8, <1>1, PartsDiffer
    <2>2. LengthIn(m, Text) = m.text
      BY PartsDiffer DEF LengthIn
    <2> QED
      BY <2>1, <2>2, <1>1, <1>3, <1>11, HasFacts DEF P, y
  <1>12. ASSUME NEW i \in 1..MaxCalls, at = Call(i)
         PROVE  (IF at \in ToSet(P) THEN LengthIn(m, at) ELSE 0) = Has(m, at) /\ Has(m, at) \in Nat
    <2>1. i \in Nat /\ i # 0
      BY ResultAssumption DEF ResultAssumption
    <2>2. Call(i) \in ToSet(P) <=> i \in 1..z
      <3>1. ASSUME Call(i) \in ToSet(P) PROVE i \in 1..z
        <4>1. PICK j \in 1..z : Call(i) = Call(j)
          BY <3>1, <2>1, <1>6, PartsDiffer
        <4>2. i = j
          BY <4>1, <2>1, <1>1, PartsDiffer
        <4> QED
          BY <4>1, <4>2
      <3> QED
        BY <3>1, <1>9
    <2>3. LengthIn(m, Call(i)) = m.calls[i]
      BY <2>1, PartsDiffer DEF LengthIn
    <2>4. Has(m, Call(i)) = IF i \in 1..z THEN m.calls[i] ELSE 0
      BY <2>1, HasFacts DEF z
    <2> QED
      BY <2>2, <2>3, <2>4, <1>1, <1>12
  <1> QED
    BY <1>10, <1>11, <1>12 DEF RsParts, P

\* A diff is what is new in one part.
LEMMA HasMore ==
    ASSUME NEW m \in Messages, NEW n \in Messages, NEW d, NEW at, NEW k, Change(m, n, d, at, k), k \in Nat, NEW u \in RsParts
    PROVE  Has(n, u) = Has(m, u) + (IF u = at THEN k ELSE 0)
  <1> DEFINE y == Len(m.calls)
             z == Len(n.calls)
  <1>1. /\ m.reasoning \in Nat /\ m.text \in Nat /\ y \in Nat /\ (\A i \in 1..y : m.calls[i] \in Nat)
        /\ n.reasoning \in Nat /\ n.text \in Nat /\ z \in Nat /\ (\A i \in 1..z : n.calls[i] \in Nat)
    BY MessageFacts
  <1>2. \A i \in 1..MaxCalls : i \in Nat
    OBVIOUS
  <1>3. CASE u = Reasoning
    BY <1>1, <1>3, HasFacts, PartsDiffer DEF Change, GrewReasoning, GrewText, GrewNew, GrewCall
  <1>4. CASE u = Text
    BY <1>1, <1>4, HasFacts, PartsDiffer DEF Change, GrewReasoning, GrewText, GrewNew, GrewCall
  <1>5. ASSUME NEW i \in 1..MaxCalls, u = Call(i) PROVE Has(n, u) = Has(m, u) + (IF u = at THEN k ELSE 0)
    <2>1. /\ Has(m, u) = IF i \in 1..y THEN m.calls[i] ELSE 0
          /\ Has(n, u) = IF i \in 1..z THEN n.calls[i] ELSE 0
          /\ i \in Nat /\ i > 0
      BY <1>2, <1>5, HasFacts
    <2>2. Has(m, u) \in Nat
      BY PartLengths
    <2>3. CASE (GrewReasoning(m, n) /\ at = Reasoning) \/ (GrewText(m, n) /\ at = Text)
      <3>1. n.calls = m.calls /\ u # at
        BY <2>1, <2>3, <1>5, PartsDiffer DEF GrewReasoning, GrewText
      <3> QED
        BY <3>1, <2>1, <2>2
    <2>4. CASE GrewNew(m, n) /\ at = Call(z) /\ k = n.calls[z]
      <3>1. z = y + 1 /\ \A j \in 1..y : n.calls[j] = m.calls[j]
        BY <2>4 DEF GrewNew
      <3>2. u = at <=> i = z
        BY <2>1, <2>4, <1>1, <1>5, PartsDiffer
      <3>3. i \in 1..z <=> i \in 1..y \/ i = z
        BY <3>1, <2>1, <1>1
      <3>4. i = z => i \notin 1..y
        BY <3>1, <1>1
      <3> HIDE DEF y, z
      <3> QED
        BY <3>1, <3>2, <3>3, <3>4, <2>1, <2>2, <2>4
    <2>5. CASE GrewCall(m, n) /\ at = Call(z) /\ k = 1
      <3>1. z = y /\ y > 0 /\ (\A j \in 1..y - 1 : n.calls[j] = m.calls[j]) /\ n.calls[y] = m.calls[y] + 1
        BY <2>5 DEF GrewCall
      <3>2. u = at <=> i = z
        BY <2>1, <2>5, <1>1, <1>5, PartsDiffer
      <3>3. i \in 1..y => i \in 1..y - 1 \/ i = y
        BY <1>1
      <3>4. y \in 1..y
        BY <3>1, <1>1
      <3> HIDE DEF y, z
      <3>5. CASE i = y
        BY <3>1, <3>2, <3>4, <3>5, <2>1, <2>5
      <3>6. CASE i # y
        BY <3>1, <3>2, <3>3, <3>6, <2>1, <2>2
      <3> QED
        BY <3>5, <3>6
    <2> QED
      BY <2>3, <2>4, <2>5 DEF Change
  <1> QED
    BY <1>3, <1>4, <1>5 DEF RsParts

-----------------------------------------------------------------------------
(* The events q of task t bring a client from the message m to n.          *)
Brings(t, m, n, q) ==
    /\ \A i \in 1..Len(q) : q[i].n \in Nat
    /\ \A at \in RsParts : Has(n, at) = Has(m, at) + Sum(q, t, at) /\ Sum(q, t, at) \in Nat
    /\ \A u, at : u # t => Sum(q, u, at) = 0

\* What has no delta brings nothing.
LEMMA NoneBrings ==
    ASSUME NEW t, NEW m \in Messages, NEW q, Len(q) \in Nat, \A i \in 1..Len(q) : q[i].n \in Nat /\ q[i].event # "delta"
    PROVE  Brings(t, m, m, q) /\ \A u, at : Sum(q, u, at) = 0
  <1>1. ASSUME NEW u, NEW at PROVE Sum(q, u, at) = 0
    <2>1. \A i \in 1..Len(q) : Adds(q[i], u, at) = 0
      BY DEF Adds
    <2> QED
      BY <2>1, SumSmall
  <1>2. \A at \in RsParts : Has(m, at) \in Nat
    BY PartLengths
  <1>3. \A at \in RsParts : Has(m, at) = Has(m, at) + Sum(q, t, at) /\ Sum(q, t, at) \in Nat
    BY <1>1, <1>2
  <1> QED
    BY <1>1, <1>3 DEF Brings

\* What a diff adds brings the diff.
LEMMA BodyBrings ==
    ASSUME NEW t, NEW m \in Messages, NEW n \in Messages, NEW d, NEW at \in RsAts, NEW k \in Nat, Change(m, n, d, at, k),
           NEW index \in Nat, NEW body, Fills(t, at, index, k, body) \/ OpensAndFills(t, at, index, k, body)
    PROVE  Brings(t, m, n, body)
  <1>1. \A i \in 1..Len(body) : body[i].n \in Nat
    <2>1. body \in Seq(RsEvents({t}, RsBody))
      BY BodyTyped
    <2>2. \A e \in RsEvents({t}, RsBody) : e.n \in Nat
      BY DEF RsEvents
    <2> QED
      BY <2>1, <2>2, ElementOfSeq
  <1>2. ASSUME NEW u, NEW v PROVE Sum(body, u, v) = IF u = t /\ v = at THEN k ELSE 0
    BY SumBody
  <1>3. ASSUME NEW v \in RsParts PROVE Has(n, v) = Has(m, v) + Sum(body, t, v) /\ Sum(body, t, v) \in Nat
    <2>1. Has(n, v) = Has(m, v) + (IF v = at THEN k ELSE 0)
      BY HasMore
    <2>2. Sum(body, t, v) = IF v = at THEN k ELSE 0
      BY <1>2
    <2> QED
      BY <2>1, <2>2
  <1> QED
    BY <1>1, <1>2, <1>3 DEF Brings

\* One after the other.
LEMMA BothBring ==
    ASSUME NEW t, NEW m \in Messages, NEW n \in Messages, NEW o \in Messages,
           NEW p, NEW q, NEW r, FollowedBy(p, q, r), Brings(t, m, n, p), Brings(t, n, o, q)
    PROVE  Brings(t, m, o, r)
  <1>1. \A i \in 1..Len(r) : r[i].n \in Nat
    <2> SUFFICES ASSUME NEW i \in 1..Len(r) PROVE r[i].n \in Nat
      OBVIOUS
    <2>1. CASE i \in 1..Len(p)
      BY <2>1 DEF FollowedBy, Brings
    <2>2. ASSUME NEW k \in 1..Len(q), i = Len(p) + k PROVE r[i].n \in Nat
      BY <2>2 DEF FollowedBy, Brings
    <2> QED
      BY <2>1, <2>2 DEF FollowedBy
  <1>2. ASSUME NEW u, NEW at PROVE Sum(r, u, at) = Sum(p, u, at) + Sum(q, u, at)
    BY <1>1, SumJoins
  <1>3. ASSUME NEW at \in RsParts PROVE Has(o, at) = Has(m, at) + Sum(r, t, at) /\ Sum(r, t, at) \in Nat
    <2>1. Has(m, at) \in Nat /\ Sum(p, t, at) \in Nat /\ Sum(q, t, at) \in Nat
      BY PartLengths DEF Brings
    <2>2. Has(n, at) = Has(m, at) + Sum(p, t, at) /\ Has(o, at) = Has(n, at) + Sum(q, t, at)
      BY DEF Brings
    <2> QED
      BY <2>1, <2>2, <1>2
  <1>4. ASSUME NEW u, NEW at, u # t PROVE Sum(r, u, at) = 0
    <2>1. Sum(p, u, at) = 0 /\ Sum(q, u, at) = 0
      BY <1>4 DEF Brings
    <2> QED
      BY <2>1, <1>2
  <1> QED
    BY <1>1, <1>3, <1>4 DEF Brings

\* A message that is not parsed for parts has only text.
PlainOf(f, m) == f \in {"plain", "text", "asr"} => Len(m.calls) = 0

\* A part brings what the token added.
LEMMA PartBrings ==
    ASSUME RsCore, NEW t \in Tasks, NEW m \in Grown(state[t].msg), NEW w \in BOOLEAN, NEW n \in 0..MaxParts,
           PlainOf(Format, state[t].msg)
    PROVE  Brings(t, state[t].msg, m, PartJson(t, m, w, n)) /\ PlainOf(Format, m)
  <1> DEFINE q == PartJson(t, m, w, n)
             msg == state[t].msg
  <1>1. /\ msg \in Messages /\ t \in Nat /\ setup \in Setups /\ n \in Nat /\ m \in Messages
        /\ state[t].thinking \in BOOLEAN /\ state[t].text \in BOOLEAN /\ state[t].created \in BOOLEAN
    <2>1. msg \in Messages
      BY StateFacts
    <2> QED
      BY <2>1, CoreFacts, StateFacts, GrownCases
  <1>2. Format \in {"plain", "text", "asr", "chat", "resp", "anthropic"}
    BY <1>1, SetupFacts
  <1>3. CASE Format \in {"chat", "resp", "anthropic"}
    <2>1. IsPart(t, msg, m, w, n, q)
      BY <1>1, <1>3, PartShape
    <2>2. PICK head, body : q = Glued(head, body) /\ Heads(t, w, n, head) /\ Grows(t, msg, m, body)
      BY <2>1 DEF IsPart, Grows
    <2> HIDE DEF q
    <2>3. body \in Seq(RsEvents({t}, RsBody))
      BY <1>1, <2>2, GrowsTyped
    <2> DEFINE E == RsEvents({t}, RsHead \cup RsBody)
               H == RsEvents({t}, RsHead)
               b == About(t, "begin")
               p == About(t, "in_progress")
    <2>4. b \in H /\ p \in H
      BY EventFacts DEF About, RsHead
    <2>5. H \subseteq E /\ RsEvents({t}, RsBody) \subseteq E /\ \A e \in H : e.n \in Nat /\ e.event # "delta"
      BY DEF RsEvents, RsHead
    <2>6. head = <<>> \/ head = <<b>> \/ head = <<p>> \/ head = <<b, p>>
      BY <2>2 DEF Heads
    <2> HIDE DEF E, H, b, p
    <2>7. head \in Seq(H)
      <3>1. <<>> \in Seq(H) /\ <<b>> \in Seq(H) /\ <<p>> \in Seq(H) /\ <<b, p>> \in Seq(H)
        BY <2>4
      <3>2. CASE head = <<>>
        BY <3>1, <3>2
      <3>3. CASE head = <<b>>
        BY <3>1, <3>3
      <3>4. CASE head = <<p>>
        BY <3>1, <3>4
      <3>5. CASE head = <<b, p>>
        BY <3>1, <3>5
      <3> QED
        BY <2>6, <3>2, <3>3, <3>4, <3>5
    <2>8. Brings(t, msg, msg, head)
      <3>1. Len(head) \in Nat /\ \A i \in 1..Len(head) : head[i].n \in Nat /\ head[i].event # "delta"
        BY <2>5, <2>7, LenProperties, ElementOfSeq
      <3> QED
        BY <3>1, <1>1, NoneBrings
    <2>9. Brings(t, msg, m, body)
      <3>1. CASE m = msg /\ body = <<>>
        <4>1. Len(body) = 0 /\ \A i \in 1..0 : FALSE
          BY <3>1
        <4>2. Len(body) \in Nat /\ \A i \in 1..Len(body) : body[i].n \in Nat /\ body[i].event # "delta"
          BY <4>1
        <4> QED
          BY <4>2, <3>1, <1>1, NoneBrings
      <3>2. ASSUME NEW d, NEW at, NEW k, NEW v \in BOOLEAN, Bodies(t, msg, m, d, at, k, v, body)
            PROVE  Brings(t, msg, m, body)
        <4>1. /\ Change(msg, m, d, at, k) /\ at \in RsAts /\ k \in Nat
              /\ Fills(t, at, Where(m, v, at), k, body) \/ OpensAndFills(t, at, Where(m, v, at), k, body)
          BY <3>2 DEF Bodies
        <4>2. Where(m, v, at) \in Nat
          BY <4>1, <1>1, WhereNat
        <4> QED
          BY <4>1, <4>2, <1>1, BodyBrings
      <3> QED
        BY <3>1, <3>2, <2>2 DEF Grows
    <2>10. FollowedBy(head, body, q)
      <3>1. head \in Seq(E) /\ body \in Seq(E)
        <4>1. \A S, T : S \subseteq T => Seq(S) \subseteq Seq(T)
          OBVIOUS
        <4> QED
          BY <4>1, <2>3, <2>5, <2>7
      <3> QED
        BY <3>1, <2>2, GluedFacts
    <2>11. Brings(t, msg, m, q)
      BY <1>1, <2>8, <2>9, <2>10, BothBring
    <2> QED
      BY <2>11, <1>3 DEF q, PlainOf
  <1>4. CASE Format \in {"plain", "text", "asr"}
    <2> DEFINE x == m.text - msg.text
               e == Event(t, "delta", Text, x, 0)
    <2>1. q = <<e>>
      BY <1>1, <1>4, PartTyped, ZenonT(60)
    <2>2. Len(msg.calls) = 0
      BY <1>4 DEF PlainOf
    <2>3. m = msg \/ GrewText(msg, m)
      <3>1. ~ GrewCall(msg, m)
        BY <2>2 DEF GrewCall
      <3> QED
        BY <1>1, <1>4, <3>1, GrownCases
    <2>4. msg.reasoning \in Nat /\ msg.text \in Nat /\ m.reasoning \in Nat /\ m.text \in Nat
      BY <1>1, MessageFacts
    <2>5. x \in Nat /\ m.text = msg.text + x /\ m.reasoning = msg.reasoning /\ m.calls = msg.calls
      BY <2>3, <2>4 DEF GrewText
    <2>6. e.task = t /\ e.event = "delta" /\ e.at = Text /\ e.n = x
      BY FieldFacts
    <2> HIDE DEF e, q, x
    <2>7. Len(q) = 1 /\ q[1] = e /\ \A i \in 1..Len(q) : q[i].n \in Nat
      BY <2>1, <2>5, <2>6
    <2>8. \A u, at : Sum(q, u, at) = Adds(e, u, at)
      BY <2>7, SumSmall
    <2>9. ASSUME NEW at \in RsParts PROVE Has(m, at) = Has(msg, at) + Sum(q, t, at) /\ Sum(q, t, at) \in Nat
      <3>1. Has(msg, at) \in Nat
        BY <1>1, PartLengths
      <3>2. CASE at = Text
        <4>1. Sum(q, t, at) = x
          BY <2>6, <2>8, <3>2 DEF Adds
        <4> QED
          BY <4>1, <3>2, <2>5, HasFacts
      <3>3. CASE at # Text
        <4>1. Sum(q, t, at) = 0
          BY <2>6, <2>8, <3>3 DEF Adds
        <4>2. Has(m, at) = Has(msg, at)
          BY <2>5, <3>3 DEF Has
        <4> QED
          BY <4>1, <4>2, <3>1
      <3> QED
        BY <3>2, <3>3
    <2>10. \A u, at : u # t => Sum(q, u, at) = 0
      BY <2>6, <2>8 DEF Adds
    <2>11. PlainOf(Format, m)
      BY <2>2, <2>5 DEF PlainOf
    <2> QED
      BY <2>7, <2>9, <2>10, <2>11 DEF Brings, q
  <1> QED
    BY <1>2, <1>3, <1>4

\* A final result brings what the end of the text showed.
LEMMA FinalBrings ==
    ASSUME RsCore, NEW t \in Tasks, NEW m \in Grown(state[t].msg), m = state[t].msg \/ Late, Format = "resp" => ~ Late,
           PlainOf(Format, state[t].msg)
    PROVE  Brings(t, state[t].msg, m, FinalJson(t, m)) /\ PlainOf(Format, m)
  <1> DEFINE q == FinalJson(t, m)
             msg == state[t].msg
             over == Over(t, m)
             E == RsEvents({t}, RsBody \cup RsEnd)
  <1>1. msg \in Messages /\ t \in Nat /\ setup \in Setups /\ m \in Messages
    <2>1. msg \in Messages
      BY StateFacts
    <2> QED
      BY <2>1, CoreFacts, StateFacts, GrownCases
  <1>2. IsFinal(t, msg, m, q)
    BY <1>1, FinalShape
  <1>3. PICK body : q = Glued(body, over) /\ FinalBody(t, msg, m, body) /\ body \in Seq(E)
    BY <1>2 DEF IsFinal
  <1>4. over \in Seq(RsEvents({t}, RsEnd))
    BY <1>1, OverTyped
  <1>5. /\ \A e \in RsEvents({t}, RsEnd) : e \in E /\ e.n \in Nat /\ e.event # "delta"
        /\ Late => Format \in {"chat", "resp", "anthropic"}
    <2>1. \A e \in RsEvents({t}, RsEnd) : e \in E /\ e.n \in Nat /\ e.event # "delta"
      BY DEF RsEvents, RsEnd
    <2> QED
      BY <2>1, <1>1, SetupFacts
  <1> HIDE DEF q, over, E
  <1>6. Brings(t, m, m, over)
    <2>1. Len(over) \in Nat /\ \A i \in 1..Len(over) : over[i].n \in Nat /\ over[i].event # "delta"
      BY <1>4, <1>5, LenProperties, ElementOfSeq
    <2> QED
      BY <2>1, <1>1, NoneBrings
  <1>7. Brings(t, msg, m, body)
    <2>1. CASE body = <<>> /\ (m = msg \/ Format \notin {"chat", "anthropic"})
      <3>1. m = msg
        BY <2>1, <1>5
      <3>2. Len(body) = 0 /\ \A i \in 1..0 : FALSE
        BY <2>1
      <3>3. Len(body) \in Nat /\ \A i \in 1..Len(body) : body[i].n \in Nat /\ body[i].event # "delta"
        BY <3>2
      <3> QED
        BY <3>1, <3>3, <1>1, NoneBrings
    <2>2. ASSUME NEW d, NEW at, NEW k, NEW index,
                 Change(msg, m, d, at, k) /\ at \in RsAts /\ k \in Nat /\ index \in Nat,
                 Fills(t, at, index, k, body) \/ OpensAndFills(t, at, index, k, body)
          PROVE  Brings(t, msg, m, body)
      BY <2>2, <1>1, BodyBrings
    <2> QED
      BY <2>1, <2>2, <1>3 DEF FinalBody
  <1>8. FollowedBy(body, over, q)
    <2> DEFINE S == RsEvents({t}, RsEnd)
    <2>1. over \in Seq(S) /\ S \subseteq E
      BY <1>4, <1>5
    <2> HIDE DEF S
    <2>2. over \in Seq(E)
      BY <2>1
    <2> QED
      BY <2>2, <1>3, GluedFacts
  <1>9. PlainOf(Format, m)
    BY <1>5 DEF PlainOf
  <1> QED
    BY <1>1, <1>6, <1>7, <1>8, <1>9, BothBring DEF q

-----------------------------------------------------------------------------
(* The log q tells all of m.                                               *)
TellsOf(q, t, m) == \A at \in RsParts : Sum(q, t, at) = Has(m, at)

\* What is added for one task.
LEMMA TellsMore ==
    ASSUME NEW p, NEW q, NEW r, FollowedBy(p, q, r), \A i \in 1..Len(r) : r[i].n \in Nat,
           NEW t, NEW m, NEW n, TellsOf(p, t, m), Brings(t, m, n, q)
    PROVE  TellsOf(r, t, n) /\ \A u, o : u # t /\ TellsOf(p, u, o) => TellsOf(r, u, o)
  <1>1. ASSUME NEW u, NEW at
        PROVE  Sum(r, u, at) = Sum(p, u, at) + Sum(q, u, at) /\ Sum(p, u, at) \in Nat
    BY SumJoins
  <1>2. TellsOf(r, t, n)
    BY <1>1 DEF TellsOf, Brings
  <1>3. ASSUME NEW u, NEW o, u # t, TellsOf(p, u, o) PROVE TellsOf(r, u, o)
    <2> SUFFICES ASSUME NEW at \in RsParts PROVE Sum(r, u, at) = Has(o, at)
      BY DEF TellsOf
    <2>1. Sum(q, u, at) = 0 /\ Sum(p, u, at) = Has(o, at)
      BY <1>3 DEF Brings, TellsOf
    <2> QED
      BY <2>1, <1>1
  <1> QED
    BY <1>2, <1>3

(* The inductive invariant: what was written or is ready to be tells the   *)
(* messages that were parsed so far, and what was written when the         *)
(* response was closed tells those of the tasks that are finished.         *)
IsTelling == Stream /\ (Format = "resp" => ~ Late)
RsTells ==
    IsTelling =>
        /\ http.phase # "closed" =>
               \A t \in Tasks : TellsOf(RsLog, t, state[t].msg) /\ PlainOf(Format, state[t].msg)
        /\ http.phase = "closed" => \A t \in Tasks : RsDone(out, t) => TellsOf(out, t, state[t].msg)

\* A step that adds events for one task, or for none.
LEMMA TellsKept ==
    ASSUME RsCore, RsTells, IsTelling, setup' = setup, NEW events \in Seq(RsGood), Kept(events),
           NEW t, NEW m, NEW n, Brings(t, m, n, events),
           \A u \in Tasks : u # t => state'[u].msg = state[u].msg,
           t \in Tasks => m = state[t].msg /\ n = state'[t].msg /\ PlainOf(Format, n)
    PROVE  RsTells'
  <1>1. Tasks' = Tasks /\ Format' = Format /\ Stream
    BY DEF Tasks, NTasks, Format, IsTelling
  <1>2. RsLog \in Seq(RsGood) /\ RsLog' \in Seq(RsGood) /\ FollowedBy(RsLog, events, RsLog') /\ http.phase # "closed" /\ http'.phase # "closed"
    BY <1>1, KeptLog
  <1>3. \A u \in Tasks : TellsOf(RsLog, u, state[u].msg) /\ PlainOf(Format, state[u].msg)
    BY <1>2 DEF RsTells
  <1> DEFINE p == RsLog
             r == RsLog'
  <1>4. \A i \in 1..Len(r) : r[i].n \in Nat
    <2>1. \A e \in RsGood : e.n \in Nat
      BY DEF RsGood, RsEvents
    <2> QED
      BY <1>2, <2>1, ElementOfSeq
  <1>5. FollowedBy(p, events, r)
    BY <1>2
  <1> HIDE DEF p, r
  <1>6. \A u, at : Sum(r, u, at) = Sum(p, u, at) + Sum(events, u, at) /\ Sum(p, u, at) \in Nat
    BY <1>4, <1>5, SumJoins
  <1>7. ASSUME NEW u \in Tasks PROVE TellsOf(r, u, state'[u].msg) /\ PlainOf(Format, state'[u].msg)
    <2>1. TellsOf(p, u, state[u].msg) /\ PlainOf(Format, state[u].msg)
      BY <1>3 DEF p
    <2>2. CASE u = t
      BY <2>1, <2>2, <1>4, <1>5, TellsMore
    <2>3. CASE u # t
      <3>1. state'[u].msg = state[u].msg
        BY <2>3
      <3>2. ASSUME NEW at \in RsParts PROVE Sum(r, u, at) = Has(state[u].msg, at)
        <4>1. Sum(events, u, at) = 0 /\ Sum(p, u, at) = Has(state[u].msg, at)
          BY <2>1, <2>3 DEF Brings, TellsOf
        <4> QED
          BY <4>1, <1>6
      <3> QED
        BY <2>1, <3>1, <3>2 DEF TellsOf
    <2> QED
      BY <2>2, <2>3
  <1>8. ASSUME NEW u \in Tasks' PROVE TellsOf(RsLog', u, state'[u].msg) /\ PlainOf(Format', state'[u].msg)
    BY <1>1, <1>7 DEF r
  <1> QED
    BY <1>2, <1>8 DEF RsTells

\* What a client is told is kept in step with the messages.
LEMMA TellsStep ==
    ASSUME RsCore, RsTells, Stream, ResultNext
    PROVE  RsTells'
  <1>1. /\ setup' = setup
        /\ \/ \E t \in Tasks : Marked(t) \/ Told(t) \/ Concluded(t)
           \/ Idle \/ Broken \/ Completes \/ Leaves
    BY StreamSteps
  <1>2. IsTelling' = IsTelling /\ Tasks' = Tasks /\ Format' = Format
    BY <1>1 DEF IsTelling, Stream, Late, Format, Tasks, NTasks
  <1>3. CASE ~ IsTelling
    BY <1>2, <1>3 DEF RsTells
  <1>4. CASE IsTelling
    <2>1. state \in [Tasks -> StateType] /\ setup \in Setups /\ 0 \notin Tasks
      BY CoreFacts, NoTask
    <2>2. ASSUME NEW events, Kept(events), NEW t \in Tasks
          PROVE  TellsOf(RsLog, t, state[t].msg) /\ PlainOf(Format, state[t].msg)
      <3>1. http.phase # "closed"
        BY <2>2 DEF Kept
      <3> QED
        BY <3>1, <1>4 DEF RsTells
    <2>3. ASSUME NEW events \in Seq(RsGood), Kept(events), state' = state,
                 \A i \in 1..Len(events) : events[i].event # "delta"
          PROVE  RsTells'
      <3>1. PICK t \in Tasks : TRUE
        BY CoreFacts
      <3>2. state[t].msg \in Messages
        BY StateFacts
      <3>3. Len(events) \in Nat /\ \A i \in 1..Len(events) : events[i].n \in Nat
        <4>1. \A e \in RsGood : e.n \in Nat
          BY DEF RsGood, RsEvents
        <4> QED
          BY <4>1, LenProperties, ElementOfSeq
      <3>4. Brings(0, state[t].msg, state[t].msg, events)
        BY <2>3, <3>2, <3>3, NoneBrings
      <3> QED
        BY <3>4, <2>1, <2>3, <1>1, <1>4, TellsKept
    <2>4. ASSUME NEW name \in {"null", "ping"}, Kept(<<>>) \/ Kept(<<About(0, name)>>), state' = state PROVE RsTells'
      <3>1. \A i \in 1..Len(<<>>) : FALSE
        OBVIOUS
      <3>2. \A i \in 1..Len(<<About(0, name)>>) : i = 1
        OBVIOUS
      <3>3. <<>> \in Seq(RsGood) /\ <<About(0, name)>> \in Seq(RsGood) /\ <<About(0, name)>>[1].event # "delta"
        BY <2>4, NoTask
      <3>4. CASE Kept(<<>>)
        BY <3>1, <3>3, <3>4, <2>3, <2>4
      <3>5. CASE Kept(<<About(0, name)>>)
        BY <3>2, <3>3, <3>5, <2>3, <2>4
      <3> QED
        BY <3>4, <3>5, <2>4
    <2>5. ASSUME NEW t \in Tasks, Marked(t) PROVE RsTells'
      BY <2>4, <2>5 DEF Marked
    <2>6. CASE Idle
      BY <2>4, <2>6 DEF Idle
    <2>7. ASSUME NEW t \in Tasks, Told(t) PROVE RsTells'
      <3>1. PICK m \in Grown(state[t].msg), n \in 0..MaxParts, k \in 0..1 :
                 \E w, first \in BOOLEAN : Spoke(t, m, w, first, n, k)
        BY <2>7 DEF Told
      <3>2. PICK w, first \in BOOLEAN : Spoke(t, m, w, first, n, k)
        BY <3>1
      <3> DEFINE events == PartJson(t, m, w, n)
      <3>3. Kept(events) /\ state' = [state EXCEPT ![t] = Updated(state[t], m, first)]
        BY <3>2 DEF Spoke
      <3>4. state'[t].msg = m /\ \A u \in Tasks : u # t => state'[u] = state[u]
        <4>1. state'[t] = Updated(state[t], m, first) /\ \A u \in Tasks : u # t => state'[u] = state[u]
          BY <3>3, <2>1
        <4>2. Updated(state[t], m, first).msg = m
          BY <2>1, UpdatedFacts
        <4> QED
          BY <4>1, <4>2
      <3>5. events \in Seq(RsGood)
        BY NewEvents
      <3>6. PlainOf(Format, state[t].msg)
        BY <3>3, <2>2
      <3>7. Brings(t, state[t].msg, m, events) /\ PlainOf(Format, m)
        BY <3>6, PartBrings
      <3> HIDE DEF events
      <3> QED
        BY <3>3, <3>4, <3>5, <3>7, <1>1, <1>4, TellsKept
    <2>8. ASSUME NEW t \in Tasks, Concluded(t) PROVE RsTells'
      <3>1. PICK m \in Grown(state[t].msg) : Finishes(t, m)
        BY <2>8 DEF Concluded
      <3> DEFINE events == FinalJson(t, m)
      <3>2. Kept(events) /\ state' = [state EXCEPT ![t].msg = m] /\ (m = state[t].msg \/ Late)
        BY <3>1 DEF Finishes
      <3>3. state'[t].msg = m /\ \A u \in Tasks : u # t => state'[u] = state[u]
        <4>1. state'[t] = [state[t] EXCEPT !.msg = m] /\ \A u \in Tasks : u # t => state'[u] = state[u]
          BY <3>2, <2>1
        <4>2. state[t] \in StateType
          BY StateFacts
        <4>3. [state[t] EXCEPT !.msg = m].msg = m
          BY <4>2 DEF StateType
        <4> QED
          BY <4>1, <4>3
      <3>4. events \in Seq(RsGood)
        BY NewEvents
      <3>5. PlainOf(Format, state[t].msg)
        BY <3>2, <2>2
      <3>6. Brings(t, state[t].msg, m, events) /\ PlainOf(Format, m)
        BY <3>2, <3>5, <1>4, FinalBrings DEF IsTelling
      <3> HIDE DEF events
      <3> QED
        BY <3>2, <3>3, <3>4, <3>6, <1>1, <1>4, TellsKept
    <2>9. CASE Broken \/ Completes \/ Leaves
      <3>1. http.phase # "closed" /\ http'.phase = "closed" /\ state' = state
        BY <2>9, ClosedLog
      <3>2. PICK q, tail : EndOfLog(q, tail, out')
        BY <2>9, ClosedLog
      <3> DEFINE r == out'
      <3>3. /\ FollowedBy(q, tail, r) /\ (q = RsLog \/ q = <<>>) /\ q \in Seq(RsGood)
            /\ \A i \in 1..Len(tail) : tail[i].event \in {"error", "[DONE]"}
        BY <3>2 DEF EndOfLog
      <3>9. r \in Seq(RsAll)
        <4>1. RsCore'
          BY CoreStream
        <4> QED
          BY <4>1, <1>1 DEF RsCore, Stream
      <3> HIDE DEF r
      <3>4. \A i \in 1..Len(r) : r[i].n \in Nat
        <4>1. \A e \in RsAll : e.n \in Nat
          BY DEF RsAll, RsEvents
        <4> QED
          BY <3>9, <4>1, ElementOfSeq
      <3>5. Len(tail) \in Nat /\ \A i \in 1..Len(tail) : tail[i].n \in Nat /\ tail[i].event # "delta"
        BY <3>3, <3>4 DEF FollowedBy
      <3>6. ASSUME NEW t \in Tasks, RsDone(r, t) PROVE TellsOf(r, t, state[t].msg)
        <4>1. PICK i \in 1..Len(r) : r[i].event = "finish" /\ r[i].task = t
          BY <3>6 DEF RsDone
        <4>2. i \in 1..Len(q)
          <5>1. ASSUME NEW k \in 1..Len(tail), i = Len(q) + k PROVE FALSE
            <6>1. r[i] = tail[k]
              BY <5>1, <3>3 DEF FollowedBy
            <6> QED
              BY <6>1, <4>1, <3>3
          <5> QED
            BY <5>1, <3>3 DEF FollowedBy
        <4>3. q = RsLog
          <5>1. \A j \in 1..Len(<<>>) : FALSE
            OBVIOUS
          <5> QED
            BY <5>1, <4>2, <3>3
        <4>4. TellsOf(q, t, state[t].msg)
          BY <4>3, <3>1, <1>4 DEF RsTells
        <4>5. state[t].msg \in Messages
          BY StateFacts
        <4>6. Brings(t, state[t].msg, state[t].msg, tail)
          BY <4>5, <3>5, NoneBrings
        <4> QED
          BY <4>4, <4>6, <3>3, <3>4, TellsMore
      <3>7. \A t \in Tasks' : RsDone(out', t) => TellsOf(out', t, state'[t].msg)
        BY <3>1, <3>6, <1>2 DEF r
      <3> QED
        BY <3>1, <3>7 DEF RsTells
    <2> QED
      BY <1>1, <2>5, <2>6, <2>7, <2>8, <2>9
  <1> QED
    BY <1>3, <1>4

(* Who puts the deltas of a finished message together has the message that *)
(* a client without streaming is given, unless the end of the text shows   *)
(* more and the format is that of responses (StreamTellsMessage).          *)
THEOREM StreamsTellMessages == ResultSpec => []StreamTellsMessage
  <1>1. ResultInit => RsCore /\ RsTells
    <2> SUFFICES ASSUME ResultInit PROVE RsCore /\ RsTells
      OBVIOUS
    <2>1. RsCore
      BY CoreInit
    <2>2. RsLog = <<>> /\ http.phase # "closed"
      <3>1. http.phase = "first" \/ http.phase = "whole"
        BY DEF ResultInit
      <3> QED
        BY <3>1 DEF ResultInit, RsLog
    <2>3. ASSUME NEW t \in Tasks PROVE TellsOf(<<>>, t, state[t].msg) /\ PlainOf(Format, state[t].msg)
      <3>1. state[t] = [msg |-> NoMessage, thinking |-> FALSE, text |-> FALSE, created |-> FALSE]
        BY <2>3 DEF ResultInit
      <3>2. state[t].msg = NoMessage /\ NoMessage.reasoning = 0 /\ NoMessage.text = 0 /\ Len(NoMessage.calls) = 0
        BY <3>1 DEF NoMessage
      <3>3. ASSUME NEW at \in RsParts PROVE Has(NoMessage, at) = 0
        <4>1. \A x : x \notin 1..Len(NoMessage.calls)
          BY <3>2
        <4> QED
          BY <4>1, <3>2 DEF Has
      <3>4. Len(<<>>) \in Nat /\ \A i \in 1..Len(<<>>) : FALSE
        OBVIOUS
      <3>5. ASSUME NEW at PROVE Sum(<<>>, t, at) = 0
        BY <3>4, SumSmall
      <3> QED
        BY <3>2, <3>3, <3>5 DEF TellsOf, PlainOf
    <2> QED
      BY <2>1, <2>2, <2>3 DEF RsTells
  <1>2. RsCore /\ RsTells /\ [ResultNext]_resultVars => RsCore' /\ RsTells'
    <2> SUFFICES ASSUME RsCore, RsTells, [ResultNext]_resultVars PROVE RsTells'
      BY CoreNext
    <2>1. CASE ResultNext /\ Stream
      BY <2>1, TellsStep
    <2>2. CASE ~ Stream
      BY <2>2, SameSetup DEF RsTells, IsTelling
    <2>3. CASE UNCHANGED resultVars
      <3>1. /\ RsLog' = RsLog /\ IsTelling' = IsTelling /\ Tasks' = Tasks /\ Format' = Format
            /\ UNCHANGED <<state, http, out>>
        BY <2>3 DEF resultVars, RsLog, IsTelling, Stream, Late, Format, Tasks, NTasks
      <3> QED
        BY <3>1 DEF RsTells
    <2> QED
      BY <2>1, <2>2, <2>3
  <1>3. RsCore /\ RsTells => StreamTellsMessage
    <2> SUFFICES ASSUME RsCore, RsTells, IsTelling, NEW t \in Tasks, Finished(t),
                        NEW at \in {Reasoning, Text} \cup {Call(i) : i \in 1..MaxCalls}
                 PROVE  Sum(out, t, at) = IF at \in ToSet(PartsOf(state[t].msg)) THEN LengthIn(state[t].msg, at) ELSE 0
      BY DEF StreamTellsMessage, IsTelling
    <2>1. out \in Seq(RsAll)
      BY DEF RsCore, IsTelling
    <2>2. RsDone(out, t)
      BY <2>1, LenProperties DEF Finished, RsDone
    <2>3. TellsOf(out, t, state[t].msg)
      <3>1. CASE http.phase = "closed"
        BY <2>2, <3>1 DEF RsTells
      <3>2. CASE http.phase = "stream"
        BY <3>2 DEF RsTells, RsLog
      <3>3. CASE out = <<>>
        BY <3>3, <2>2 DEF RsDone
      <3> QED
        BY <3>1, <3>2, <3>3 DEF RsCore, ResultTypeOK
    <2>4. at \in RsParts /\ state[t].msg \in Messages
      BY StateFacts DEF RsParts
    <2> QED
      BY <2>3, <2>4, PartLengths DEF TellsOf
  <1> QED
    BY <1>1, <1>2, <1>3, PTL DEF ResultSpec

-----------------------------------------------------------------------------
(* The parts that a message has, and the number of the block of a part.    *)
Present(m, at) ==
    \/ at = Reasoning /\ m.reasoning > 0
    \/ at = Text /\ m.text > 0
    \/ \E i \in 1..Len(m.calls) : at = Call(i)
TextCount(m) == IF m.text > 0 THEN 1 ELSE 0
Spot(f, m, at) ==
    IF f # "anthropic" THEN 0
    ELSE CASE at = Reasoning -> 0
           [] at = Text -> TextIndex(m)
           [] OTHER -> TextIndex(m) + TextCount(m) + at[2] - 1

(* What the log q says of the blocks of task t, whose message is m.        *)
BlockNames == {"opened", "delta", "closed"}
Before(q, i, name) == \E j \in 1..i - 1 : q[j].event = name /\ q[j].task = q[i].task /\ q[j].at = q[i].at
Said(q, t, name, at) == \E i \in 1..Len(q) : q[i].event = name /\ q[i].task = t /\ q[i].at = at
Fits(f, m, e) == e.event \in BlockNames => Present(m, e.at) /\ e.index = Spot(f, m, e.at)
InOrder(q, i) ==
    /\ q[i].event = "opened" => ~ Before(q, i, "opened")
    /\ q[i].event \in {"delta", "closed"} => ~ Before(q, i, "closed") /\ Before(q, i, "opened")
PairsOf(f, q, t, m) == \A i \in 1..Len(q) : q[i].task = t => Fits(f, m, q[i]) /\ InOrder(q, i)
AllOpened(q, t, m) == \A at : Present(m, at) => Said(q, t, "opened", at)
NoneShut(q, t) == \A i \in 1..Len(q) : q[i].task = t => q[i].event \notin {"closed", "finish"}
AllShut(q, t) ==
    \A i \in 1..Len(q) : q[i].task = t /\ q[i].event = "opened" =>
        \E j \in i + 1..Len(q) : q[j].event = "closed" /\ q[j].task = t /\ q[j].at = q[i].at

(* The message n has what m has, where m has it, and events of task t tell *)
(* what it has besides.                                                    *)
Continues(f, m, n) == \A at : Present(m, at) => Present(n, at) /\ Spot(f, n, at) = Spot(f, m, at)
Adding(f, t, m, n, q) ==
    /\ Continues(f, m, n)
    /\ \A i \in 1..Len(q) :
        /\ q[i].task = t /\ Fits(f, n, q[i])
        /\ q[i].event = "opened" => ~ Present(m, q[i].at) /\ ~ Before(q, i, "opened")
        /\ q[i].event \in {"delta", "closed"} => ~ Before(q, i, "closed") /\ (Present(m, q[i].at) \/ Before(q, i, "opened"))
    /\ \A at : Present(n, at) => Present(m, at) \/ Said(q, t, "opened", at)

\* What is added for another task changes nothing for a task.
LEMMA OthersAdd ==
    ASSUME NEW p, NEW q, NEW r, FollowedBy(p, q, r), NEW t, \A i \in 1..Len(q) : q[i].task # t
    PROVE  /\ \A f, m : PairsOf(f, p, t, m) => PairsOf(f, r, t, m)
           /\ \A m : AllOpened(p, t, m) => AllOpened(r, t, m)
           /\ NoneShut(p, t) => NoneShut(r, t)
           /\ AllShut(p, t) => AllShut(r, t)
  <1>1. /\ Len(p) \in Nat /\ Len(q) \in Nat /\ Len(r) = Len(p) + Len(q)
        /\ \A i \in 1..Len(p) : i \in 1..Len(r) /\ r[i] = p[i]
        /\ \A i \in 1..Len(q) : Len(p) + i \in 1..Len(r) /\ r[Len(p) + i] = q[i]
        /\ \A i \in 1..Len(r) : i \in 1..Len(p) \/ \E k \in 1..Len(q) : i = Len(p) + k
    BY DEF FollowedBy
  <1>2. \A i \in 1..Len(r) : r[i].task = t => i \in 1..Len(p) /\ r[i] = p[i]
    <2> SUFFICES ASSUME NEW i \in 1..Len(r), r[i].task = t PROVE i \in 1..Len(p)
      BY <1>1
    <2>1. ASSUME NEW k \in 1..Len(q), i = Len(p) + k PROVE FALSE
      <3>1. r[i] = q[k]
        BY <2>1, <1>1
      <3> QED
        BY <3>1
    <2> QED
      BY <2>1, <1>1
  <1>3. \A i \in 1..Len(p) : \A j \in 1..i - 1 : j \in 1..Len(p) /\ r[j] = p[j]
    <2> SUFFICES ASSUME NEW i \in 1..Len(p), NEW j \in 1..i - 1 PROVE j \in 1..Len(p) /\ r[j] = p[j]
      OBVIOUS
    <2>1. j \in 1..Len(p)
      BY <1>1
    <2> QED
      BY <2>1, <1>1
  <1>4. \A i \in 1..Len(p) : \A name : Before(r, i, name) <=> Before(p, i, name)
    <2> SUFFICES ASSUME NEW i \in 1..Len(p), NEW name PROVE Before(r, i, name) <=> Before(p, i, name)
      OBVIOUS
    <2>1. r[i] = p[i] /\ \A j \in 1..i - 1 : r[j] = p[j]
      BY <1>1, <1>3
    <2> QED
      BY <2>1 DEF Before
  <1>5. ASSUME NEW f, NEW m, PairsOf(f, p, t, m) PROVE PairsOf(f, r, t, m)
    <2> SUFFICES ASSUME NEW i \in 1..Len(r), r[i].task = t PROVE Fits(f, m, r[i]) /\ InOrder(r, i)
      BY DEF PairsOf
    <2>1. i \in 1..Len(p) /\ r[i] = p[i]
      BY <1>2
    <2>2. Fits(f, m, p[i]) /\ InOrder(p, i)
      BY <2>1, <1>5 DEF PairsOf
    <2> QED
      BY <2>1, <2>2, <1>4 DEF InOrder
  <1>6. ASSUME NEW m, AllOpened(p, t, m) PROVE AllOpened(r, t, m)
    BY <1>1, <1>6, SMTT(20) DEF AllOpened, Said
  <1>7. NoneShut(p, t) => NoneShut(r, t)
    BY <1>2 DEF NoneShut
  <1>8. ASSUME AllShut(p, t) PROVE AllShut(r, t)
    <2> SUFFICES ASSUME NEW i \in 1..Len(r), r[i].task = t, r[i].event = "opened"
                 PROVE  \E j \in i + 1..Len(r) : r[j].event = "closed" /\ r[j].task = t /\ r[j].at = r[i].at
      BY DEF AllShut
    <2>1. i \in 1..Len(p) /\ r[i] = p[i]
      BY <1>2
    <2>2. PICK j \in i + 1..Len(p) : p[j].event = "closed" /\ p[j].task = t /\ p[j].at = p[i].at
      BY <2>1, <1>8 DEF AllShut
    <2>3. j \in 1..Len(p) /\ j \in i + 1..Len(r)
      BY <2>1, <1>1
    <2> QED
      BY <2>1, <2>2, <2>3, <1>1
  <1> QED
    BY <1>5, <1>6, <1>7, <1>8

\* What is added for a task that is not finished.
LEMMA PairsAdded ==
    ASSUME NEW p, NEW q, NEW r, FollowedBy(p, q, r), NEW t, NEW f, NEW m, NEW n,
           PairsOf(f, p, t, m), AllOpened(p, t, m), NoneShut(p, t), Adding(f, t, m, n, q)
    PROVE  /\ PairsOf(f, r, t, n) /\ AllOpened(r, t, n)
           /\ (\A i \in 1..Len(q) : q[i].event \notin {"closed", "finish"}) => NoneShut(r, t)
           /\ (\A i \in 1..Len(q) : q[i].event # "opened") /\ (\A at : Present(n, at) => Said(q, t, "closed", at)) => AllShut(r, t)
  <1>1. /\ Len(p) \in Nat /\ Len(q) \in Nat /\ Len(r) = Len(p) + Len(q)
        /\ \A i \in 1..Len(p) : i \in 1..Len(r) /\ r[i] = p[i]
        /\ \A i \in 1..Len(q) : Len(p) + i \in 1..Len(r) /\ r[Len(p) + i] = q[i]
        /\ \A i \in 1..Len(r) : i \in 1..Len(p) \/ \E k \in 1..Len(q) : i = Len(p) + k
    BY DEF FollowedBy
  <1>2. /\ Continues(f, m, n)
        /\ \A i \in 1..Len(q) :
            /\ q[i].task = t /\ Fits(f, n, q[i])
            /\ q[i].event = "opened" => ~ Present(m, q[i].at) /\ ~ Before(q, i, "opened")
            /\ q[i].event \in {"delta", "closed"} => ~ Before(q, i, "closed") /\ (Present(m, q[i].at) \/ Before(q, i, "opened"))
        /\ \A at : Present(n, at) => Present(m, at) \/ Said(q, t, "opened", at)
    BY DEF Adding
  <1>3. \A i \in 1..Len(p) : \A name : Before(r, i, name) <=> Before(p, i, name)
    <2> SUFFICES ASSUME NEW i \in 1..Len(p), NEW name PROVE Before(r, i, name) <=> Before(p, i, name)
      OBVIOUS
    <2>1. r[i] = p[i] /\ \A j \in 1..i - 1 : j \in 1..Len(p)
      BY <1>1
    <2>2. \A j \in 1..i - 1 : r[j] = p[j]
      BY <2>1, <1>1
    <2> QED
      BY <2>1, <2>2 DEF Before
  <1>4. ASSUME NEW k \in 1..Len(q), NEW name, Before(r, Len(p) + k, name)
        PROVE  Said(p, t, name, q[k].at) \/ Before(q, k, name)
    <2> DEFINE i == Len(p) + k
    <2>1. r[i] = q[k] /\ q[k].task = t /\ i \in Nat
      BY <1>1, <1>2
    <2>2. PICK j \in 1..i - 1 : r[j].event = name /\ r[j].task = t /\ r[j].at = q[k].at
      BY <2>1, <1>4 DEF Before
    <2>3. CASE j \in 1..Len(p)
      BY <2>2, <2>3, <1>1 DEF Said
    <2>4. CASE j > Len(p)
      <3> DEFINE h == j - Len(p)
      <3>1. h \in 1..k - 1 /\ h \in 1..Len(q) /\ j = Len(p) + h
        BY <2>2, <2>4, <1>1
      <3> HIDE DEF h
      <3>2. r[j] = q[h]
        BY <3>1, <1>1
      <3> QED
        BY <3>1, <3>2, <2>1, <2>2 DEF Before
    <2> QED
      BY <2>2, <2>3, <2>4, <1>1
  <1>5. ASSUME NEW k \in 1..Len(q), NEW name, Said(p, t, name, q[k].at) \/ Before(q, k, name)
        PROVE  Before(r, Len(p) + k, name)
    <2> DEFINE i == Len(p) + k
    <2>1. r[i] = q[k] /\ q[k].task = t /\ i \in Nat
      BY <1>1, <1>2
    <2>2. CASE Said(p, t, name, q[k].at)
      <3>1. PICK j \in 1..Len(p) : p[j].event = name /\ p[j].task = t /\ p[j].at = q[k].at
        BY <2>2 DEF Said
      <3>2. j \in 1..i - 1 /\ r[j] = p[j]
        BY <1>1
      <3> HIDE DEF i
      <3> QED
        BY <3>1, <3>2, <2>1 DEF Before, i
    <2>3. CASE Before(q, k, name)
      <3>1. PICK h \in 1..k - 1 : q[h].event = name /\ q[h].task = q[k].task /\ q[h].at = q[k].at
        BY <2>3 DEF Before
      <3> DEFINE j == Len(p) + h
      <3>2. j \in 1..i - 1 /\ h \in 1..Len(q)
        BY <1>1
      <3>3. r[j] = q[h]
        BY <3>2, <1>1
      <3> HIDE DEF i, j
      <3> QED
        BY <3>1, <3>2, <3>3, <2>1 DEF Before, i
    <2> QED
      BY <2>2, <2>3, <1>5
  <1>6. /\ \A at : Said(p, t, "opened", at) <=> Present(m, at)
        /\ \A at : ~ Said(p, t, "closed", at)
    <2>1. ASSUME NEW at, Said(p, t, "opened", at) PROVE Present(m, at)
      <3>1. PICK j \in 1..Len(p) : p[j].event = "opened" /\ p[j].task = t /\ p[j].at = at
        BY <2>1 DEF Said
      <3> QED
        BY <3>1 DEF PairsOf, Fits, BlockNames
    <2> QED
      BY <2>1 DEF AllOpened, NoneShut, Said
  <1>7. PairsOf(f, r, t, n)
    <2> SUFFICES ASSUME NEW i \in 1..Len(r), r[i].task = t PROVE Fits(f, n, r[i]) /\ InOrder(r, i)
      BY DEF PairsOf
    <2>1. CASE i \in 1..Len(p)
      <3>1. r[i] = p[i] /\ Fits(f, m, p[i]) /\ InOrder(p, i)
        BY <2>1, <1>1 DEF PairsOf
      <3>2. Fits(f, n, r[i])
        BY <3>1, <1>2 DEF Fits, Continues
      <3> QED
        BY <3>1, <3>2, <2>1, <1>3 DEF InOrder
    <2>2. ASSUME NEW k \in 1..Len(q), i = Len(p) + k PROVE Fits(f, n, r[i]) /\ InOrder(r, i)
      <3>1. r[i] = q[k] /\ Fits(f, n, q[k])
        BY <2>2, <1>1, <1>2
      <3>2. ASSUME NEW name PROVE Before(r, i, name) <=> Said(p, t, name, q[k].at) \/ Before(q, k, name)
        BY <2>2, <1>4, <1>5
      <3>3. /\ q[k].event = "opened" => ~ Before(r, i, "opened")
            /\ q[k].event \in {"delta", "closed"} => ~ Before(r, i, "closed") /\ Before(r, i, "opened")
        BY <3>2, <1>2, <1>6
      <3> QED
        BY <3>1, <3>3 DEF InOrder
    <2> QED
      BY <2>1, <2>2, <1>1
  <1>8. AllOpened(r, t, n)
    <2> SUFFICES ASSUME NEW at, Present(n, at) PROVE Said(r, t, "opened", at)
      BY DEF AllOpened
    <2>1. CASE Said(p, t, "opened", at)
      BY <2>1, <1>1 DEF Said
    <2>2. CASE Said(q, t, "opened", at)
      <3>1. PICK k \in 1..Len(q) : q[k].event = "opened" /\ q[k].task = t /\ q[k].at = at
        BY <2>2 DEF Said
      <3> DEFINE j == Len(p) + k
      <3>2. j \in 1..Len(r) /\ r[j] = q[k]
        BY <1>1
      <3> HIDE DEF j
      <3> QED
        BY <3>1, <3>2 DEF Said
    <2> QED
      BY <2>1, <2>2, <1>2, <1>6
  <1>9. ASSUME \A i \in 1..Len(q) : q[i].event \notin {"closed", "finish"} PROVE NoneShut(r, t)
    <2> SUFFICES ASSUME NEW i \in 1..Len(r), r[i].task = t PROVE r[i].event \notin {"closed", "finish"}
      BY DEF NoneShut
    <2>1. CASE i \in 1..Len(p)
      BY <2>1, <1>1 DEF NoneShut
    <2>2. ASSUME NEW k \in 1..Len(q), i = Len(p) + k PROVE r[i].event \notin {"closed", "finish"}
      <3>1. r[i] = q[k]
        BY <2>2, <1>1
      <3> QED
        BY <3>1, <1>9
    <2> QED
      BY <2>1, <2>2, <1>1
  <1>10. ASSUME \A i \in 1..Len(q) : q[i].event # "opened", \A at : Present(n, at) => Said(q, t, "closed", at)
         PROVE  AllShut(r, t)
    <2> SUFFICES ASSUME NEW i \in 1..Len(r), r[i].task = t, r[i].event = "opened"
                 PROVE  \E j \in i + 1..Len(r) : r[j].event = "closed" /\ r[j].task = t /\ r[j].at = r[i].at
      BY DEF AllShut
    <2>1. Present(n, r[i].at)
      BY <1>7 DEF PairsOf, Fits, BlockNames
    <2>2. PICK k \in 1..Len(q) : q[k].event = "closed" /\ q[k].task = t /\ q[k].at = r[i].at
      BY <2>1, <1>10 DEF Said
    <2>3. i \in 1..Len(p)
      <3>1. ASSUME NEW h \in 1..Len(q), i = Len(p) + h PROVE FALSE
        <4>1. r[i] = q[h]
          BY <3>1, <1>1
        <4> QED
          BY <4>1, <1>10
      <3> QED
        BY <3>1, <1>1
    <2> DEFINE j == Len(p) + k
    <2>4. j \in i + 1..Len(r) /\ r[j] = q[k]
      BY <2>3, <1>1
    <2> HIDE DEF j
    <2> QED
      BY <2>2, <2>4
  <1> QED
    BY <1>7, <1>8, <1>9, <1>10

\* By part.
LEMMA PresentFacts ==
    ASSUME NEW m \in Messages
    PROVE  /\ Present(m, Reasoning) <=> m.reasoning > 0
           /\ Present(m, Text) <=> m.text > 0
           /\ \A i \in Nat : Present(m, Call(i)) <=> i \in 1..Len(m.calls)
           /\ \A at : Present(m, at) => at = Reasoning \/ at = Text \/ \E i \in 1..Len(m.calls) : at = Call(i)
  <1>1. Len(m.calls) \in Nat
    BY MessageFacts
  <1>2. \A i \in 1..Len(m.calls) : i \in Nat
    BY <1>1
  <1>3. Present(m, Reasoning) <=> m.reasoning > 0
    BY <1>2, PartsDiffer DEF Present
  <1>4. Present(m, Text) <=> m.text > 0
    BY <1>2, PartsDiffer DEF Present
  <1>5. \A i \in Nat : Present(m, Call(i)) <=> i \in 1..Len(m.calls)
    <2> SUFFICES ASSUME NEW i \in Nat PROVE Present(m, Call(i)) <=> i \in 1..Len(m.calls)
      OBVIOUS
    <2>1. ASSUME Present(m, Call(i)) PROVE i \in 1..Len(m.calls)
      <3>1. PICK j \in 1..Len(m.calls) : Call(i) = Call(j)
        BY <2>1, PartsDiffer DEF Present
      <3>2. i = j
        BY <3>1, <1>2, PartsDiffer
      <3> QED
        BY <3>1, <3>2
    <2> QED
      BY <2>1 DEF Present
  <1> QED
    BY <1>3, <1>4, <1>5 DEF Present

\* The numbers of the blocks.
LEMMA SpotFacts ==
    ASSUME NEW m \in Messages
    PROVE  /\ \A f, at : f # "anthropic" => Spot(f, m, at) = 0
           /\ Spot("anthropic", m, Reasoning) = 0
           /\ Spot("anthropic", m, Text) = TextIndex(m)
           /\ \A i \in Nat : Spot("anthropic", m, Call(i)) = TextIndex(m) + TextCount(m) + i - 1
           /\ TextIndex(m) \in {0, 1} /\ TextCount(m) \in {0, 1}
           /\ TextIndex(m) = 1 <=> m.reasoning > 0
           /\ TextCount(m) = 1 <=> m.text > 0
  <1>1. \A f, at : f # "anthropic" => Spot(f, m, at) = 0
    BY DEF Spot
  <1>2. Spot("anthropic", m, Reasoning) = 0 /\ Spot("anthropic", m, Text) = TextIndex(m)
    BY PartsDiffer DEF Spot
  <1>3. ASSUME NEW i \in Nat PROVE Spot("anthropic", m, Call(i)) = TextIndex(m) + TextCount(m) + i - 1
    BY PartsDiffer DEF Spot
  <1>4. /\ TextIndex(m) \in {0, 1} /\ TextCount(m) \in {0, 1}
        /\ TextIndex(m) = 1 <=> m.reasoning > 0
        /\ TextCount(m) = 1 <=> m.text > 0
    BY DEF TextIndex, TextCount
  <1> QED
    BY <1>1, <1>2, <1>3, <1>4

\* No two blocks of a message have one number.
LEMMA SpotsDiffer ==
    ASSUME NEW m \in Messages, NEW x, NEW y, Present(m, x), Present(m, y), Spot("anthropic", m, x) = Spot("anthropic", m, y)
    PROVE  x = y
  <1> DEFINE r == TextIndex(m)
             c == TextCount(m)
             S(at) == Spot("anthropic", m, at)
  <1>1. /\ S(Reasoning) = 0 /\ S(Text) = r /\ (\A i \in Nat : S(Call(i)) = r + c + i - 1)
        /\ r \in {0, 1} /\ c \in {0, 1} /\ (r = 1 <=> m.reasoning > 0) /\ (c = 1 <=> m.text > 0)
    BY SpotFacts
  <1>2. \A at : Present(m, at) => \/ at = Reasoning /\ r = 1
                                  \/ at = Text /\ c = 1
                                  \/ \E i \in Nat : i > 0 /\ at = Call(i)
    BY <1>1, PresentFacts DEF Present
  <1>3. S(x) = S(y)
    OBVIOUS
  <1> HIDE DEF r, c, S
  <1>4. ASSUME NEW i \in Nat, i > 0 PROVE r = 1 \/ c = 1 => S(Call(i)) > 0 /\ (c = 1 => S(Call(i)) > r)
    BY <1>1, <1>4
  <1>5. ASSUME NEW i \in Nat, x = Call(i), i > 0 PROVE x = y
    <2>1. ASSUME NEW j \in Nat, y = Call(j) PROVE x = y
      <3>1. r + c + i - 1 = r + c + j - 1
        BY <1>1, <1>3, <1>5, <2>1
      <3>2. i = j
        BY <3>1, <1>1
      <3> QED
        BY <3>2, <1>5, <2>1
    <2>2. CASE y = Reasoning /\ r = 1
      BY <2>2, <1>1, <1>3, <1>4, <1>5
    <2>3. CASE y = Text /\ c = 1
      BY <2>3, <1>1, <1>3, <1>4, <1>5
    <2> QED
      BY <2>1, <2>2, <2>3, <1>2
  <1>6. ASSUME NEW i \in Nat, y = Call(i), i > 0 PROVE x = y
    <2>1. CASE x = Reasoning /\ r = 1
      BY <2>1, <1>1, <1>3, <1>4, <1>6
    <2>2. CASE x = Text /\ c = 1
      BY <2>2, <1>1, <1>3, <1>4, <1>6
    <2> QED
      BY <2>1, <2>2, <1>2, <1>5
  <1>7. CASE x \in {Reasoning, Text} /\ y \in {Reasoning, Text}
    <2>1. x # y => r = 1
      BY <1>2, <1>7, PartsDiffer
    <2> QED
      BY <2>1, <1>1, <1>3, <1>7
  <1> QED
    BY <1>2, <1>5, <1>6, <1>7

\* Reasoning, text and calls come in this order.
Orderly(m, n) ==
    /\ GrewReasoning(m, n) => m.text = 0 /\ Len(m.calls) = 0
    /\ GrewText(m, n) => Len(m.calls) = 0

\* What a diff makes of the parts.
LEMMA PresentMore ==
    ASSUME NEW m \in Messages, NEW n \in Messages, NEW d, NEW at, NEW k \in Nat, Change(m, n, d, at, k),
           NEW f, f = "anthropic" => Orderly(m, n)
    PROVE  /\ Continues(f, m, n)
           /\ Present(n, at) /\ \A x : Present(n, x) => Present(m, x) \/ x = at
           /\ GrewReasoning(m, n) => (Present(m, at) <=> m.reasoning > 0) /\ k > 0
           /\ GrewText(m, n) => (Present(m, at) <=> m.text > 0) /\ k > 0
           /\ GrewNew(m, n) => ~ Present(m, at)
           /\ GrewCall(m, n) => Present(m, at) /\ k > 0
  <1> DEFINE y == Len(m.calls)
             z == Len(n.calls)
  <1>1. m.reasoning \in Nat /\ m.text \in Nat /\ y \in Nat /\ n.reasoning \in Nat /\ n.text \in Nat /\ z \in Nat
    BY MessageFacts
  <1>2. /\ Present(m, Reasoning) <=> m.reasoning > 0
        /\ Present(m, Text) <=> m.text > 0
        /\ \A i \in Nat : Present(m, Call(i)) <=> i \in 1..y
        /\ \A x : Present(m, x) => x = Reasoning \/ x = Text \/ \E i \in 1..y : x = Call(i)
    BY PresentFacts
  <1>3. /\ Present(n, Reasoning) <=> n.reasoning > 0
        /\ Present(n, Text) <=> n.text > 0
        /\ \A i \in Nat : Present(n, Call(i)) <=> i \in 1..z
        /\ \A x : Present(n, x) => x = Reasoning \/ x = Text \/ \E i \in 1..z : x = Call(i)
    BY PresentFacts
  <1>4. /\ \A i \in 1..y : i \in Nat
        /\ \A i \in 1..z : i \in Nat
    OBVIOUS
  <1>5. ASSUME f # "anthropic", \A x : Present(m, x) => Present(n, x) PROVE Continues(f, m, n)
    BY <1>5, SpotFacts DEF Continues
  <1>6. ASSUME f = "anthropic", \A x : Present(m, x) => Present(n, x),
               Present(m, Text) => TextIndex(n) = TextIndex(m),
               y > 0 => TextIndex(n) = TextIndex(m) /\ TextCount(n) = TextCount(m)
        PROVE  Continues(f, m, n)
    <2> SUFFICES ASSUME NEW x, Present(m, x) PROVE Spot("anthropic", n, x) = Spot("anthropic", m, x)
      BY <1>6 DEF Continues
    <2>1. CASE x = Reasoning
      BY <2>1, SpotFacts
    <2>2. CASE x = Text
      BY <2>2, <1>6, SpotFacts
    <2>3. ASSUME NEW i \in 1..y, x = Call(i) PROVE Spot("anthropic", n, x) = Spot("anthropic", m, x)
      <3>1. y > 0
        BY <1>1
      <3> QED
        BY <3>1, <2>3, <1>4, <1>6, SpotFacts
    <2> QED
      BY <2>1, <2>2, <2>3, <1>2
  <1>7. CASE GrewReasoning(m, n)
    <2>1. n.reasoning = m.reasoning + 1 /\ n.text = m.text /\ n.calls = m.calls /\ at = Reasoning /\ k = 1
      BY <1>7, ChangeKinds DEF Change, GrewReasoning
    <2>2. ~ GrewText(m, n) /\ ~ GrewNew(m, n) /\ ~ GrewCall(m, n)
      BY <1>7, ChangeKinds
    <2>3. /\ Present(n, at) /\ (Present(m, at) <=> m.reasoning > 0) /\ k > 0
          /\ \A x : Present(n, x) => Present(m, x) \/ x = at
          /\ \A x : Present(m, x) => Present(n, x)
      <3>1. z = y /\ n.reasoning > 0
        BY <2>1, <1>1
      <3> HIDE DEF y, z
      <3>2. Present(n, at) /\ (Present(m, at) <=> m.reasoning > 0) /\ k > 0
        BY <2>1, <3>1, <1>2, <1>3
      <3>3. /\ Present(n, Text) <=> Present(m, Text)
            /\ \A i \in 1..y : Present(n, Call(i)) <=> Present(m, Call(i))
        BY <2>1, <3>1, <1>2, <1>3, <1>4
      <3>4. ASSUME NEW x, x # at PROVE Present(n, x) <=> Present(m, x)
        BY <3>4, <2>1, <3>1, <3>3, <1>2, <1>3
      <3> QED
        BY <3>2, <3>4
    <2>4. f = "anthropic" => ~ Present(m, Text) /\ ~ (y > 0)
      BY <1>2, <1>7 DEF Orderly
    <2> QED
      BY <2>2, <2>3, <2>4, <1>5, <1>6, <1>7
  <1>8. CASE GrewText(m, n)
    <2>1. n.reasoning = m.reasoning /\ n.text = m.text + 1 /\ n.calls = m.calls /\ at = Text /\ k = 1
      BY <1>8, ChangeKinds DEF Change, GrewText
    <2>2. ~ GrewReasoning(m, n) /\ ~ GrewNew(m, n) /\ ~ GrewCall(m, n)
      BY <1>8, ChangeKinds
    <2>3. /\ Present(n, at) /\ (Present(m, at) <=> m.text > 0) /\ k > 0
          /\ \A x : Present(n, x) => Present(m, x) \/ x = at
          /\ \A x : Present(m, x) => Present(n, x)
      <3>1. z = y /\ n.text > 0
        BY <2>1, <1>1
      <3> HIDE DEF y, z
      <3>2. Present(n, at) /\ (Present(m, at) <=> m.text > 0) /\ k > 0
        BY <2>1, <3>1, <1>2, <1>3
      <3>3. /\ Present(n, Reasoning) <=> Present(m, Reasoning)
            /\ \A i \in 1..y : Present(n, Call(i)) <=> Present(m, Call(i))
        BY <2>1, <3>1, <1>2, <1>3, <1>4
      <3>4. ASSUME NEW x, x # at PROVE Present(n, x) <=> Present(m, x)
        BY <3>4, <2>1, <3>1, <3>3, <1>2, <1>3
      <3> QED
        BY <3>2, <3>4
    <2>4. TextIndex(n) = TextIndex(m) /\ (f = "anthropic" => ~ (y > 0))
      BY <2>1, <1>8 DEF Orderly, TextIndex
    <2> QED
      BY <2>2, <2>3, <2>4, <1>5, <1>6, <1>8
  <1>9. CASE GrewNew(m, n)
    <2>1. n.reasoning = m.reasoning /\ n.text = m.text /\ z = y + 1 /\ at = Call(z)
      BY <1>9, ChangeKinds DEF Change, GrewNew
    <2>2. ~ GrewReasoning(m, n) /\ ~ GrewText(m, n) /\ ~ GrewCall(m, n)
      BY <1>9, ChangeKinds
    <2>3. z \in 1..z /\ z \notin 1..y /\ (\A i \in 1..y : i \in 1..z) /\ \A i \in 1..z : i \in 1..y \/ i = z
      BY <2>1, <1>1
    <2> HIDE DEF y, z
    <2>4. Present(n, at) /\ ~ Present(m, at)
      BY <2>1, <2>3, <1>1, <1>2, <1>3
    <2>5. /\ \A x : Present(n, x) => Present(m, x) \/ x = at
          /\ \A x : Present(m, x) => Present(n, x)
      <3>1. ASSUME NEW x, Present(n, x) PROVE Present(m, x) \/ x = at
        <4>1. ASSUME NEW i \in 1..z, x = Call(i) PROVE Present(m, x) \/ x = at
          BY <4>1, <2>1, <2>3, <1>2, <1>4
        <4>2. CASE x = Reasoning \/ x = Text
          BY <4>2, <3>1, <2>1, <1>2, <1>3
        <4> QED
          BY <4>1, <4>2, <3>1, <1>3
      <3>2. ASSUME NEW x, Present(m, x) PROVE Present(n, x)
        <4>1. ASSUME NEW i \in 1..y, x = Call(i) PROVE Present(n, x)
          BY <4>1, <2>3, <1>3, <1>4
        <4>2. CASE x = Reasoning \/ x = Text
          BY <4>2, <3>2, <2>1, <1>2, <1>3
        <4> QED
          BY <4>1, <4>2, <3>2, <1>2
      <3> QED
        BY <3>1, <3>2
    <2>6. TextIndex(n) = TextIndex(m) /\ TextCount(n) = TextCount(m)
      BY <2>1 DEF TextIndex, TextCount
    <2>7. Continues(f, m, n)
      BY <2>5, <2>6, <1>5, <1>6
    <2> QED
      BY <2>2, <2>4, <2>5, <2>7
  <1>10. CASE GrewCall(m, n)
    <2>1. n.reasoning = m.reasoning /\ n.text = m.text /\ z = y /\ y > 0 /\ at = Call(z) /\ k = 1
      BY <1>10, ChangeKinds DEF Change, GrewCall
    <2>2. ~ GrewReasoning(m, n) /\ ~ GrewText(m, n) /\ ~ GrewNew(m, n)
      BY <1>10, ChangeKinds
    <2>3. y \in 1..y
      BY <2>1, <1>1
    <2> HIDE DEF y, z
    <2>4. Present(n, at) /\ Present(m, at)
      BY <2>1, <2>3, <1>1, <1>2, <1>3
    <2>5. \A x : Present(n, x) <=> Present(m, x)
      <3>1. \A x : Present(n, x) => Present(m, x)
        BY <2>1, <1>2, <1>3, <1>4
      <3>2. \A x : Present(m, x) => Present(n, x)
        BY <2>1, <1>2, <1>3, <1>4
      <3> QED
        BY <3>1, <3>2
    <2>6. TextIndex(n) = TextIndex(m) /\ TextCount(n) = TextCount(m)
      BY <2>1 DEF TextIndex, TextCount
    <2>7. Continues(f, m, n)
      BY <2>5, <2>6, <1>5, <1>6
    <2> QED
      BY <2>1, <2>2, <2>4, <2>5, <2>7
  <1> QED
    BY <1>7, <1>8, <1>9, <1>10 DEF Change

\* The events of a body.
LEMMA BodyEvents ==
    ASSUME NEW t, NEW at \in RsAts, NEW index \in Nat, NEW k \in Nat, NEW body, OpensAndFills(t, at, index, k, body)
    PROVE  /\ Len(body) \in Nat /\ Len(body) > 0 /\ body[1].event = "opened"
           /\ \A i \in 1..Len(body) : /\ body[i].task = t /\ body[i].at = at /\ body[i].index = index
                                      /\ i # 1 => body[i].event \in {"part", "delta"}
  <1> DEFINE E == RsEvents({t}, RsBody)
             x == Opening(t, at, index)
             y == Filling(t, at, index, k)
             e == Event(t, "delta", at, k, index)
             o == Event(t, "opened", at, 0, index)
             p == Event(t, "part", at, 0, index)
  <1>1. /\ o \in E /\ p \in E /\ e \in E
        /\ o.event = "opened" /\ p.event = "part" /\ e.event = "delta"
        /\ o.task = t /\ p.task = t /\ e.task = t
        /\ o.at = at /\ p.at = at /\ e.at = at
        /\ o.index = index /\ p.index = index /\ e.index = index
    <2>1. o \in E /\ p \in E /\ e \in E
      BY EventFacts DEF RsBody
    <2> QED
      BY <2>1, FieldFacts
  <1>2. x = <<o>> \/ x = <<o, p>>
    BY DEF Opening
  <1>3. y = <<e>> \/ y = <<>>
    BY DEF Filling
  <1> HIDE DEF E, x, y, e, o, p
  <1>4. x \in Seq(E) /\ Len(x) \in Nat /\ Len(x) > 0 /\ x[1] = o /\ \A i \in 1..Len(x) : i # 1 => x[i] = p
    <2>1. <<o>> \in Seq(E) /\ Len(<<o>>) = 1 /\ <<o>>[1] = o
      BY <1>1
    <2>2. <<o, p>> \in Seq(E) /\ Len(<<o, p>>) = 2 /\ <<o, p>>[1] = o /\ <<o, p>>[2] = p
      BY <1>1
    <2>3. CASE x = <<o>>
      BY <2>1, <2>3
    <2>4. CASE x = <<o, p>>
      BY <2>2, <2>4
    <2> QED
      BY <2>3, <2>4, <1>2
  <1>5. y \in Seq(E) /\ Len(y) \in Nat /\ \A i \in 1..Len(y) : y[i] = e
    <2>1. <<e>> \in Seq(E) /\ Len(<<e>>) = 1 /\ <<e>>[1] = e
      BY <1>1
    <2>2. <<>> \in Seq(E) /\ Len(<<>>) = 0
      OBVIOUS
    <2>3. CASE y = <<e>>
      BY <2>1, <2>3
    <2>4. CASE y = <<>>
      BY <2>2, <2>4
    <2> QED
      BY <2>3, <2>4, <1>3
  <1>7. body = Glued(x, y)
    BY DEF OpensAndFills, Glued, x, y
  <1>8. ASSUME body = Glued(x, y)
        PROVE  /\ Len(body) \in Nat /\ Len(body) > 0 /\ body[1].event = "opened"
               /\ \A i \in 1..Len(body) : /\ body[i].task = t /\ body[i].at = at /\ body[i].index = index
                                          /\ i # 1 => body[i].event \in {"part", "delta"}
    <2>1. FollowedBy(x, y, body)
      BY <1>4, <1>5, <1>8, GluedFacts
    <2>2. /\ Len(body) = Len(x) + Len(y)
          /\ \A i \in 1..Len(x) : body[i] = x[i]
          /\ \A i \in 1..Len(y) : body[Len(x) + i] = y[i]
          /\ \A i \in 1..Len(body) : i \in 1..Len(x) \/ \E j \in 1..Len(y) : i = Len(x) + j
      BY <2>1 DEF FollowedBy
    <2>3. 1 \in 1..Len(x) /\ Len(body) \in Nat /\ Len(body) > 0
      BY <2>2, <1>4, <1>5
    <2>4. body[1] = o
      BY <2>2, <2>3, <1>4
    <2>5. ASSUME NEW i \in 1..Len(body) PROVE body[i] = o \/ ((body[i] = p \/ body[i] = e) /\ i # 1)
      <3>1. CASE i \in 1..Len(x)
        BY <3>1, <2>2, <1>4
      <3>2. ASSUME NEW j \in 1..Len(y), i = Len(x) + j PROVE body[i] = e /\ i # 1
        <4>1. body[i] = e
          BY <3>2, <2>2, <1>5
        <4>2. i # 1
          BY <3>2, <1>4, <1>5
        <4> QED
          BY <4>1, <4>2
      <3> QED
        BY <3>1, <3>2, <2>2
    <2>6. ASSUME NEW i \in 1..Len(body), i # 1 PROVE body[i] = p \/ body[i] = e
      <3>1. CASE i \in 1..Len(x)
        BY <3>1, <2>2, <2>6, <1>4
      <3>2. ASSUME NEW j \in 1..Len(y), i = Len(x) + j PROVE body[i] = e
        BY <3>2, <2>2, <1>5
      <3> QED
        BY <3>1, <3>2, <2>2
    <2> QED
      BY <2>3, <2>4, <2>5, <2>6, <1>1
  <1> QED
    BY <1>7, <1>8

\* What only fills a part.
LEMMA FillEvents ==
    ASSUME NEW t, NEW at \in RsAts, NEW index \in Nat, NEW k \in Nat, NEW body, Fills(t, at, index, k, body)
    PROVE  /\ Len(body) \in Nat
           /\ \A i \in 1..Len(body) : body[i].task = t /\ body[i].event = "delta" /\ body[i].at = at /\ body[i].index = index
  <1> DEFINE E == RsEvents({t}, RsBody)
             y == Filling(t, at, index, k)
             e == Event(t, "delta", at, k, index)
  <1>1. e \in E /\ e.event = "delta" /\ e.task = t /\ e.at = at /\ e.index = index
    <2>1. e \in E
      BY EventFacts DEF RsBody
    <2> QED
      BY <2>1, FieldFacts
  <1>2. y = <<e>> \/ y = <<>>
    BY DEF Filling
  <1>3. body = y
    BY DEF Fills
  <1> HIDE DEF E, y, e
  <1>4. Len(y) \in Nat /\ \A i \in 1..Len(y) : y[i] = e
    <2>1. Len(<<e>>) = 1 /\ <<e>>[1] = e
      BY <1>1
    <2>2. Len(<<>>) = 0
      OBVIOUS
    <2>3. CASE y = <<e>>
      BY <2>1, <2>3
    <2>4. CASE y = <<>>
      BY <2>2, <2>4
    <2> QED
      BY <2>3, <2>4, <1>2
  <1> QED
    BY <1>1, <1>3, <1>4

\* What a diff adds.
LEMMA BodyAdds ==
    ASSUME NEW t, NEW f, NEW m \in Messages, NEW n \in Messages, NEW d, NEW at \in RsAts, NEW k \in Nat, Change(m, n, d, at, k),
           f = "anthropic" => Orderly(m, n), NEW index \in Nat, index = Spot(f, n, at), NEW body,
           ~ Present(m, at) => OpensAndFills(t, at, index, k, body),
           Present(m, at) => Fills(t, at, index, k, body)
    PROVE  Adding(f, t, m, n, body) /\ \A i \in 1..Len(body) : body[i].event \notin {"closed", "finish"}
  <1>1. Continues(f, m, n) /\ Present(n, at) /\ \A x : Present(n, x) => Present(m, x) \/ x = at
    BY PresentMore
  <1>2. CASE Present(m, at)
    <2>1. Len(body) \in Nat /\ \A i \in 1..Len(body) : body[i].task = t /\ body[i].event = "delta" /\ body[i].at = at /\ body[i].index = index
      <3>1. Fills(t, at, index, k, body)
        BY <1>2
      <3> QED
        BY <3>1, FillEvents
    <2>2. ASSUME NEW i \in 1..Len(body) PROVE ~ Before(body, i, "closed") /\ Fits(f, n, body[i])
      <3>1. \A j \in 1..i - 1 : j \in 1..Len(body)
        BY <2>1
      <3> QED
        BY <3>1, <2>1, <1>1 DEF Before, Fits
    <2> QED
      BY <2>1, <2>2, <1>1, <1>2 DEF Adding
  <1>3. CASE ~ Present(m, at)
    <2>1. /\ Len(body) \in Nat /\ Len(body) > 0 /\ body[1].event = "opened"
          /\ \A i \in 1..Len(body) : /\ body[i].task = t /\ body[i].at = at /\ body[i].index = index
                                     /\ i # 1 => body[i].event \in {"part", "delta"}
      <3>1. OpensAndFills(t, at, index, k, body)
        BY <1>3
      <3> QED
        BY <3>1, BodyEvents
    <2>2. 1 \in 1..Len(body)
      BY <2>1
    <2>3. \A i \in 1..Len(body) : body[i].event \in {"opened", "part", "delta"}
      BY <2>1
    <2>4. ASSUME NEW i \in 1..Len(body)
          PROVE  /\ Fits(f, n, body[i]) /\ ~ Before(body, i, "closed")
                 /\ body[i].event = "opened" => ~ Before(body, i, "opened")
                 /\ body[i].event = "delta" => Before(body, i, "opened")
      <3>1. \A j \in 1..i - 1 : j \in 1..Len(body)
        BY <2>1
      <3>2. ~ Before(body, i, "closed")
        BY <3>1, <2>3 DEF Before
      <3>3. body[i].event = "opened" => ~ Before(body, i, "opened")
        <4>1. body[i].event = "opened" => i = 1
          BY <2>1
        <4>2. \A j \in 1..1 - 1 : FALSE
          OBVIOUS
        <4> QED
          BY <4>1, <4>2 DEF Before
      <3>4. body[i].event = "delta" => Before(body, i, "opened")
        <4>1. body[i].event = "delta" => 1 \in 1..i - 1
          BY <2>1
        <4> QED
          BY <4>1, <2>1, <2>2 DEF Before
      <3>5. Fits(f, n, body[i])
        BY <2>1, <1>1 DEF Fits
      <3> QED
        BY <3>2, <3>3, <3>4, <3>5
    <2>5. Said(body, t, "opened", at)
      BY <2>1, <2>2 DEF Said
    <2>6. \A i \in 1..Len(body) : body[i].event \notin {"closed", "finish"}
      BY <2>3
    <2> QED
      BY <2>1, <2>4, <2>5, <2>6, <1>1, <1>3 DEF Adding
  <1> QED
    BY <1>2, <1>3

\* What is not of blocks, and then what is.
LEMMA AfterHead ==
    ASSUME NEW h, NEW b, NEW q, FollowedBy(h, b, q), NEW t, NEW f, NEW m, NEW n, Adding(f, t, m, n, b),
           \A i \in 1..Len(h) : h[i].task = t /\ h[i].event \notin BlockNames
    PROVE  Adding(f, t, m, n, q)
  <1>1. /\ Len(h) \in Nat /\ Len(b) \in Nat /\ Len(q) = Len(h) + Len(b)
        /\ \A i \in 1..Len(h) : i \in 1..Len(q) /\ q[i] = h[i]
        /\ \A i \in 1..Len(b) : Len(h) + i \in 1..Len(q) /\ q[Len(h) + i] = b[i]
        /\ \A i \in 1..Len(q) : i \in 1..Len(h) \/ \E k \in 1..Len(b) : i = Len(h) + k
    BY DEF FollowedBy
  <1>2. ASSUME NEW i \in 1..Len(b), NEW name \in BlockNames PROVE Before(q, Len(h) + i, name) <=> Before(b, i, name)
    <2> DEFINE z == Len(h) + i
    <2>1. q[z] = b[i] /\ z \in Nat
      BY <1>1
    <2>2. ASSUME Before(q, z, name) PROVE Before(b, i, name)
      <3>1. PICK j \in 1..z - 1 : q[j].event = name /\ q[j].task = q[z].task /\ q[j].at = q[z].at
        BY <2>2 DEF Before
      <3>2. ~ (j \in 1..Len(h))
        BY <3>1, <1>1
      <3> DEFINE l == j - Len(h)
      <3>3. l \in 1..i - 1 /\ l \in 1..Len(b) /\ j = Len(h) + l
        BY <3>2, <1>1
      <3> HIDE DEF l
      <3>4. q[j] = b[l]
        BY <3>3, <1>1
      <3> QED
        BY <3>1, <3>3, <3>4, <2>1 DEF Before
    <2>3. ASSUME Before(b, i, name) PROVE Before(q, z, name)
      <3>1. PICK l \in 1..i - 1 : b[l].event = name /\ b[l].task = b[i].task /\ b[l].at = b[i].at
        BY <2>3 DEF Before
      <3> DEFINE j == Len(h) + l
      <3>2. j \in 1..z - 1 /\ l \in 1..Len(b)
        BY <1>1
      <3>3. q[j] = b[l]
        BY <3>2, <1>1
      <3> HIDE DEF j, z
      <3> QED
        BY <3>1, <3>2, <3>3, <2>1 DEF Before
    <2> QED
      BY <2>2, <2>3
  <1>3. ASSUME NEW i \in 1..Len(q)
        PROVE  /\ q[i].task = t /\ Fits(f, n, q[i])
               /\ q[i].event = "opened" => ~ Present(m, q[i].at) /\ ~ Before(q, i, "opened")
               /\ q[i].event \in {"delta", "closed"} => ~ Before(q, i, "closed") /\ (Present(m, q[i].at) \/ Before(q, i, "opened"))
    <2>1. CASE i \in 1..Len(h)
      <3>1. q[i].task = t /\ q[i].event \notin BlockNames
        BY <2>1, <1>1
      <3> QED
        BY <3>1 DEF Fits, BlockNames
    <2>2. ASSUME NEW k \in 1..Len(b), i = Len(h) + k
          PROVE  /\ q[i].task = t /\ Fits(f, n, q[i])
                 /\ q[i].event = "opened" => ~ Present(m, q[i].at) /\ ~ Before(q, i, "opened")
                 /\ q[i].event \in {"delta", "closed"} => ~ Before(q, i, "closed") /\ (Present(m, q[i].at) \/ Before(q, i, "opened"))
      <3>1. q[i] = b[k]
        BY <2>2, <1>1
      <3>2. /\ Before(q, i, "opened") <=> Before(b, k, "opened")
            /\ Before(q, i, "closed") <=> Before(b, k, "closed")
        <4>1. "opened" \in BlockNames /\ "closed" \in BlockNames
          BY DEF BlockNames
        <4> QED
          BY <4>1, <2>2, <1>2
      <3>3. /\ b[k].task = t /\ Fits(f, n, b[k])
            /\ b[k].event = "opened" => ~ Present(m, b[k].at) /\ ~ Before(b, k, "opened")
            /\ b[k].event \in {"delta", "closed"} => ~ Before(b, k, "closed") /\ (Present(m, b[k].at) \/ Before(b, k, "opened"))
        BY DEF Adding
      <3> QED
        BY <3>1, <3>2, <3>3
    <2> QED
      BY <2>1, <2>2, <1>1
  <1>4. \A at : Said(b, t, "opened", at) => Said(q, t, "opened", at)
    <2> SUFFICES ASSUME NEW at, Said(b, t, "opened", at) PROVE Said(q, t, "opened", at)
      OBVIOUS
    <2>1. PICK k \in 1..Len(b) : b[k].event = "opened" /\ b[k].task = t /\ b[k].at = at
      BY DEF Said
    <2> DEFINE j == Len(h) + k
    <2>2. j \in 1..Len(q) /\ q[j] = b[k]
      BY <1>1
    <2> HIDE DEF j
    <2> QED
      BY <2>1, <2>2 DEF Said
  <1> QED
    BY <1>3, <1>4 DEF Adding

-----------------------------------------------------------------------------
(* The events q of the end of task t close the parts S, each once.         *)
Closes(f, t, m, S, q) ==
    /\ Len(q) \in Nat
    /\ \A i \in 1..Len(q) :
        /\ q[i].task = t /\ q[i].event \notin {"opened", "delta"}
        /\ q[i].event = "closed" => q[i].at \in S /\ q[i].index = Spot(f, m, q[i].at)
    /\ \A i, j \in 1..Len(q) : q[i].event = "closed" /\ q[j].event = "closed" /\ q[i].at = q[j].at => i = j
    /\ \A at \in S : \E i \in 1..Len(q) : q[i].event = "closed" /\ q[i].at = at

\* One after the other.
LEMMA BothClose ==
    ASSUME NEW p, NEW q, NEW r, FollowedBy(p, q, r), NEW f, NEW t, NEW m, NEW S, NEW T, S \cap T = {},
           Closes(f, t, m, S, p), Closes(f, t, m, T, q)
    PROVE  Closes(f, t, m, S \cup T, r)
  <1>1. /\ Len(p) \in Nat /\ Len(q) \in Nat /\ Len(r) = Len(p) + Len(q)
        /\ \A i \in 1..Len(p) : i \in 1..Len(r) /\ r[i] = p[i]
        /\ \A i \in 1..Len(q) : Len(p) + i \in 1..Len(r) /\ r[Len(p) + i] = q[i]
        /\ \A i \in 1..Len(r) : i \in 1..Len(p) \/ \E k \in 1..Len(q) : i = Len(p) + k
    BY DEF FollowedBy
  <1>2. ASSUME NEW i \in 1..Len(r)
        PROVE  /\ r[i].task = t /\ r[i].event \notin {"opened", "delta"}
               /\ r[i].event = "closed" => r[i].at \in S \cup T /\ r[i].index = Spot(f, m, r[i].at)
               /\ r[i].event = "closed" /\ r[i].at \in S => i \in 1..Len(p)
               /\ r[i].event = "closed" /\ r[i].at \in T => \E k \in 1..Len(q) : i = Len(p) + k
    <2>1. CASE i \in 1..Len(p)
      <3>1. r[i] = p[i]
        BY <2>1, <1>1
      <3> QED
        BY <2>1, <3>1 DEF Closes
    <2>2. ASSUME NEW k \in 1..Len(q), i = Len(p) + k
          PROVE  /\ r[i].task = t /\ r[i].event \notin {"opened", "delta"}
                 /\ r[i].event = "closed" => r[i].at \in T /\ r[i].index = Spot(f, m, r[i].at)
      <3>1. r[i] = q[k]
        BY <2>2, <1>1
      <3> QED
        BY <3>1 DEF Closes
    <2> QED
      BY <2>1, <2>2, <1>1
  <1>3. ASSUME NEW i \in 1..Len(r), NEW j \in 1..Len(r), r[i].event = "closed", r[j].event = "closed", r[i].at = r[j].at
        PROVE  i = j
    <2>1. CASE r[i].at \in S
      <3>1. i \in 1..Len(p) /\ j \in 1..Len(p)
        BY <2>1, <1>2, <1>3
      <3>2. r[i] = p[i] /\ r[j] = p[j]
        BY <3>1, <1>1
      <3> QED
        BY <3>1, <3>2, <1>3 DEF Closes
    <2>2. CASE r[i].at \in T
      <3>1. PICK k \in 1..Len(q) : i = Len(p) + k
        BY <2>2, <1>2, <1>3
      <3>2. PICK l \in 1..Len(q) : j = Len(p) + l
        BY <2>2, <1>2, <1>3
      <3>3. r[i] = q[k] /\ r[j] = q[l]
        BY <3>1, <3>2, <1>1
      <3>4. k = l
        BY <3>3, <1>3 DEF Closes
      <3> QED
        BY <3>1, <3>2, <3>4
    <2> QED
      BY <2>1, <2>2, <1>2, <1>3
  <1>4. ASSUME NEW at \in S \cup T PROVE \E i \in 1..Len(r) : r[i].event = "closed" /\ r[i].at = at
    <2>1. CASE at \in S
      <3>1. PICK i \in 1..Len(p) : p[i].event = "closed" /\ p[i].at = at
        BY <2>1 DEF Closes
      <3> QED
        BY <3>1, <1>1
    <2>2. CASE at \in T
      <3>1. PICK k \in 1..Len(q) : q[k].event = "closed" /\ q[k].at = at
        BY <2>2 DEF Closes
      <3> DEFINE j == Len(p) + k
      <3>2. j \in 1..Len(r) /\ r[j] = q[k]
        BY <1>1
      <3> HIDE DEF j
      <3> QED
        BY <3>1, <3>2
    <2> QED
      BY <2>1, <2>2
  <1> QED
    BY <1>1, <1>2, <1>3, <1>4 DEF Closes

\* Short lists.
LEMMA ShortCloses ==
    ASSUME NEW f, NEW t, NEW m
    PROVE  /\ Closes(f, t, m, {}, <<>>)
           /\ \A a : a.task = t /\ a.event \notin {"opened", "delta", "closed"} => Closes(f, t, m, {}, <<a>>)
           /\ \A a, b : /\ a.task = t /\ a.event \notin {"opened", "delta", "closed"}
                        /\ b.task = t /\ b.event \notin {"opened", "delta", "closed"}
                        => Closes(f, t, m, {}, <<a, b>>)
           /\ \A a, at : /\ a.task = t /\ a.event = "closed" /\ a.at = at /\ a.index = Spot(f, m, at)
                         => Closes(f, t, m, {at}, <<a>>)
  <1>1. Closes(f, t, m, {}, <<>>)
    BY DEF Closes
  <1>2. ASSUME NEW a, a.task = t /\ a.event \notin {"opened", "delta", "closed"} PROVE Closes(f, t, m, {}, <<a>>)
    <2> DEFINE q == <<a>>
    <2>1. Len(q) = 1 /\ q[1] = a
      OBVIOUS
    <2> HIDE DEF q
    <2>2. \A i \in 1..Len(q) : q[i] = a
      BY <2>1
    <2>3. Closes(f, t, m, {}, q)
      BY <2>1, <2>2, <1>2 DEF Closes
    <2> QED
      BY <2>3 DEF q
  <1>3. ASSUME NEW a, NEW b, a.task = t /\ a.event \notin {"opened", "delta", "closed"},
               b.task = t /\ b.event \notin {"opened", "delta", "closed"}
        PROVE  Closes(f, t, m, {}, <<a, b>>)
    <2> DEFINE q == <<a, b>>
    <2>1. Len(q) = 2 /\ q[1] = a /\ q[2] = b
      OBVIOUS
    <2> HIDE DEF q
    <2>2. \A i \in 1..Len(q) : q[i] = a \/ q[i] = b
      BY <2>1
    <2>3. Closes(f, t, m, {}, q)
      BY <2>1, <2>2, <1>3 DEF Closes
    <2> QED
      BY <2>3 DEF q
  <1>4. ASSUME NEW a, NEW at, a.task = t, a.event = "closed", a.at = at, a.index = Spot(f, m, at)
        PROVE  Closes(f, t, m, {at}, <<a>>)
    <2> DEFINE q == <<a>>
    <2>1. Len(q) = 1 /\ q[1] = a
      OBVIOUS
    <2> HIDE DEF q
    <2>2. /\ \A i \in 1..Len(q) : q[i] = a /\ i = 1
          /\ 1 \in 1..Len(q)
      BY <2>1
    <2>3. Closes(f, t, m, {at}, q)
      BY <2>1, <2>2, <1>4 DEF Closes
    <2> QED
      BY <2>3 DEF q
  <1> QED
    BY <1>1, <1>2, <1>3, <1>4

\* What a message has is what its list of parts has, each at its place.
LEMMA PartsPlaced ==
    ASSUME NEW m \in Messages
    PROVE  LET P == PartsOf(m)
           IN  /\ P \in Seq(RsAts) /\ Len(P) \in Nat /\ DOMAIN P = 1..Len(P)
               /\ \A i \in 1..Len(P) : Present(m, P[i]) /\ Spot("anthropic", m, P[i]) = i - 1
               /\ \A at : Present(m, at) => \E i \in 1..Len(P) : P[i] = at
  <1> DEFINE x == IF m.reasoning > 0 THEN 1 ELSE 0
             y == IF m.text > 0 THEN 1 ELSE 0
             z == Len(m.calls)
             P == PartsOf(m)
  <1>1. /\ P \in Seq(RsAts) /\ Len(P) = x + y + z /\ DOMAIN P = 1..x + y + z /\ z \in Nat
        /\ x = 1 => P[1] = Reasoning
        /\ y = 1 => P[x + 1] = Text
        /\ \A i \in 1..z : P[x + y + i] = Call(i)
    BY PartsFacts
  <1>2. x \in {0, 1} /\ y \in {0, 1} /\ (x = 1 <=> m.reasoning > 0) /\ (y = 1 <=> m.text > 0) /\ x = TextIndex(m) /\ y = TextCount(m)
    BY DEF TextIndex, TextCount
  <1>3. /\ Spot("anthropic", m, Reasoning) = 0 /\ Spot("anthropic", m, Text) = x
        /\ \A i \in Nat : Spot("anthropic", m, Call(i)) = x + y + i - 1
    BY <1>2, SpotFacts
  <1>4. /\ Present(m, Reasoning) <=> x = 1
        /\ Present(m, Text) <=> y = 1
        /\ \A i \in 1..z : Present(m, Call(i)) /\ i \in Nat
        /\ \A at : Present(m, at) => at = Reasoning \/ at = Text \/ \E i \in 1..z : at = Call(i)
    <2>1. \A i \in 1..z : i \in Nat
      OBVIOUS
    <2> QED
      BY <2>1, <1>2, PresentFacts
  <1> HIDE DEF x, y, z, P
  <1>5. ASSUME NEW j \in 1..Len(P) PROVE Present(m, P[j]) /\ Spot("anthropic", m, P[j]) = j - 1
    <2>1. CASE x = 1 /\ j = 1
      BY <2>1, <1>1, <1>3, <1>4
    <2>2. CASE y = 1 /\ j = x + 1
      <3>1. j - 1 = x
        BY <2>2, <1>2
      <3> QED
        BY <3>1, <2>2, <1>1, <1>3, <1>4
    <2>3. ASSUME ~ (x = 1 /\ j = 1), ~ (y = 1 /\ j = x + 1) PROVE Present(m, P[j]) /\ Spot("anthropic", m, P[j]) = j - 1
      <3> DEFINE w == x + y
                 i == j - w
      <3>6. w \in Nat
        <4>1. x \in Nat /\ y \in Nat
          BY <1>2
        <4> QED
          BY <4>1
      <3>7. Len(P) = w + z
        BY <1>1
      <3>4. w \in Nat /\ Len(P) = w + z
        BY <3>6, <3>7
      <3>5. j \in 1..w + z /\ j \in Nat /\ j > 0 /\ w \in Nat
        <4> HIDE DEF w
        <4> QED
          BY <3>4, <1>1
      <3>1. w \in Nat /\ j \in 1..w + z /\ j > w
        <4>1. CASE x = 0
          BY <4>1, <3>5, <2>3, <1>2
        <4>2. CASE x = 1
          BY <4>2, <3>5, <2>3, <1>2
        <4> QED
          BY <4>1, <4>2, <1>2
      <3> HIDE DEF w
      <3>2. i \in 1..z /\ j = w + i /\ i \in Nat /\ w + i - 1 = j - 1
        BY <3>1, <1>1
      <3> HIDE DEF i
      <3>3. P[j] = Call(i)
        BY <3>2, <1>1 DEF w
      <3> QED
        BY <3>2, <3>3, <1>3, <1>4 DEF w
    <2> QED
      BY <2>1, <2>2, <2>3
  <1>6. /\ x = 1 => 1 \in 1..x + y + z
        /\ y = 1 => x + 1 \in 1..x + y + z
        /\ \A i \in 1..z : x + y + i \in 1..x + y + z
    <2>1. x + y \in Nat /\ (x = 1 => x + y >= 1) /\ (y = 1 => x + y >= x + 1)
      BY <1>2
    <2>2. \A w \in Nat : \A i \in 1..z : w + i \in 1..w + z
      BY <1>1
    <2>3. \A i \in 1..z : x + y + i \in 1..x + y + z
      BY <2>1, <2>2
    <2>4. (x = 1 => 1 \in 1..x + y + z) /\ (y = 1 => x + 1 \in 1..x + y + z)
      BY <1>1, <1>2
    <2> QED
      BY <2>3, <2>4
  <1>7. ASSUME NEW at, Present(m, at) PROVE \E i \in 1..Len(P) : P[i] = at
    <2>1. CASE at = Reasoning
      BY <2>1, <1>1, <1>4, <1>6, <1>7
    <2>2. CASE at = Text
      BY <2>2, <1>1, <1>4, <1>6, <1>7
    <2>3. ASSUME NEW i \in 1..z, at = Call(i) PROVE \E j \in 1..Len(P) : P[j] = at
      BY <2>3, <1>1, <1>6
    <2> QED
      BY <2>1, <2>2, <2>3, <1>4, <1>7
  <1>8. Len(P) \in Nat /\ DOMAIN P = 1..Len(P)
    BY <1>1, LenProperties
  <1> QED
    BY <1>1, <1>5, <1>7, <1>8 DEF P

\* The end of a message closes what the message has.
LEMMA OverCloses ==
    ASSUME setup \in Setups, Format \in {"resp", "anthropic"}, NEW m \in Messages, NEW t
    PROVE  Closes(Format, t, m, {at \in RsAts : Present(m, at)}, Over(t, m))
  <1> DEFINE E == RsEvents({t}, RsEnd)
             S == {at \in RsAts : Present(m, at)}
             f == About(t, "finish")
             du == About(t, "delta_usage")
             C(R, q) == Closes(Format, t, m, R, q)
  <1>1. /\ f \in E /\ du \in E /\ f.event = "finish" /\ f.task = t /\ du.event = "delta_usage" /\ du.task = t
    <2>1. {"finish", "delta_usage"} \subseteq RsEnd
      BY DEF RsEnd
    <2>2. f \in E /\ du \in E
      BY <2>1, EventFacts DEF About
    <2> QED
      BY <2>2, FieldFacts DEF About
  <1>2. \A name \in RsEnd, at \in RsAts : \A i \in Nat : Event(t, name, at, 0, i) \in E
    BY EventFacts
  <1>3. /\ Reasoning \in RsAts /\ Text \in RsAts /\ \A i \in Nat : Call(i) \in RsAts
        /\ {"closed", "text_done", "part_done", "signature"} \subseteq RsEnd
    BY EventFacts DEF RsEnd
  <1>4. Sign(t, m) \in Seq(E) /\ Shut(t, m) \in Seq(E)
    BY OverTyped
  <1>5. ASSUME NEW p \in Seq(E), NEW q \in Seq(E), NEW R, NEW T, R \cap T = {}, C(R, p), C(T, q)
        PROVE  C(R \cup T, Glued(p, q)) /\ Glued(p, q) \in Seq(E)
    <2> HIDE DEF E
    <2>1. PICK r : r = Glued(p, q)
      OBVIOUS
    <2>2. r \in Seq(E) /\ FollowedBy(p, q, r)
      BY <2>1, GluedFacts
    <2> QED
      BY <2>1, <2>2, <1>5, BothClose
  <1>6. <<f>> \in Seq(E) /\ <<du, f>> \in Seq(E) /\ C({}, <<f>>) /\ C({}, <<du, f>>)
    <2> HIDE DEF E, f, du
    <2>1. <<f>> \in Seq(E) /\ <<du, f>> \in Seq(E)
      BY <1>1
    <2> QED
      BY <2>1, <1>1, ShortCloses
  <1>7. CASE Format = "resp"
    <2> DEFINE p == If(m.reasoning > 0, <<Item(t, "closed", Reasoning)>>)
               q == If(m.text > 0, <<Item(t, "text_done", Text), Item(t, "part_done", Text), Item(t, "closed", Text)>>)
               r == [i \in DOMAIN m.calls |-> Item(t, "closed", Call(i))]
               A == {at \in {Reasoning} : m.reasoning > 0}
               B == {at \in {Text} : m.text > 0}
               D == {Call(i) : i \in 1..Len(m.calls)}
    <2>1. Over(t, m) = Glued(Glued(Glued(p, q), r), <<f>>)
      BY <1>7 DEF Over, RespFinal, Glued
    <2>2. \A at : Spot(Format, m, at) = 0
      BY <1>7, SpotFacts
    <2>3. p \in Seq(E) /\ C(A, p)
      <3> DEFINE e == Item(t, "closed", Reasoning)
      <3>1. e \in E /\ e.task = t /\ e.event = "closed" /\ e.at = Reasoning /\ e.index = 0
        <4>1. e \in E
          BY <1>2, <1>3 DEF Item
        <4>2. e.task = t /\ e.event = "closed" /\ e.at = Reasoning /\ e.index = 0
          BY FieldFacts DEF Item
        <4> QED
          BY <4>1, <4>2
      <3>2. m.reasoning > 0 => p = <<e>> /\ A = {Reasoning}
        BY DEF If
      <3>3. ~ (m.reasoning > 0) => p = <<>> /\ A = {}
        BY DEF If
      <3> HIDE DEF e, p, A, E
      <3>4. <<e>> \in Seq(E) /\ <<>> \in Seq(E) /\ C({Reasoning}, <<e>>) /\ C({}, <<>>)
        <4>1. <<e>> \in Seq(E) /\ <<>> \in Seq(E)
          BY <3>1
        <4> QED
          BY <4>1, <3>1, <2>2, ShortCloses
      <3> QED
        BY <3>2, <3>3, <3>4
    <2>4. q \in Seq(E) /\ C(B, q)
      <3> DEFINE e1 == Item(t, "text_done", Text)
                 e2 == Item(t, "part_done", Text)
                 e3 == Item(t, "closed", Text)
      <3>1. /\ e1 \in E /\ e2 \in E /\ e3 \in E
            /\ e1.task = t /\ e1.event = "text_done" /\ e2.task = t /\ e2.event = "part_done"
            /\ e3.task = t /\ e3.event = "closed" /\ e3.at = Text /\ e3.index = 0
        <4>1. e1 \in E /\ e2 \in E /\ e3 \in E
          BY <1>2, <1>3 DEF Item
        <4>2. /\ e1.task = t /\ e1.event = "text_done" /\ e2.task = t /\ e2.event = "part_done"
              /\ e3.task = t /\ e3.event = "closed" /\ e3.at = Text /\ e3.index = 0
          BY FieldFacts DEF Item
        <4> QED
          BY <4>1, <4>2
      <3>2. m.text > 0 => q = <<e1, e2, e3>> /\ B = {Text}
        BY DEF If
      <3>3. ~ (m.text > 0) => q = <<>> /\ B = {}
        BY DEF If
      <3> HIDE DEF e1, e2, e3, q, B, E
      <3>4. <<e1, e2>> \in Seq(E) /\ <<e3>> \in Seq(E) /\ <<e1, e2>> \o <<e3>> = <<e1, e2, e3>>
        <4>1. <<e1, e2>> \in Seq(E) /\ <<e3>> \in Seq(E)
          BY <3>1
        <4>2. \A x, y, v \in E : <<x, y>> \o <<v>> = <<x, y, v>>
          BY Three
        <4> QED
          BY <4>1, <4>2, <3>1
      <3>5. C({}, <<e1, e2>>) /\ C({Text}, <<e3>>) /\ C({}, <<>>)
        BY <3>1, <2>2, ShortCloses
      <3>6. C({} \cup {Text}, Glued(<<e1, e2>>, <<e3>>)) /\ Glued(<<e1, e2>>, <<e3>>) \in Seq(E)
        <4>1. PICK u, v : u = <<e1, e2>> /\ v = <<e3>>
          OBVIOUS
        <4>2. u \in Seq(E) /\ v \in Seq(E) /\ C({}, u) /\ C({Text}, v)
          BY <3>4, <3>5, <4>1
        <4>3. C({} \cup {Text}, Glued(u, v)) /\ Glued(u, v) \in Seq(E)
          BY <4>2, <1>5
        <4> QED
          BY <4>1, <4>3
      <3>7. {} \cup {Text} = {Text} /\ Glued(<<e1, e2>>, <<e3>>) = <<e1, e2, e3>>
        BY <3>4 DEF Glued
      <3>8. <<e1, e2, e3>> \in Seq(E) /\ C({Text}, <<e1, e2, e3>>) /\ <<>> \in Seq(E)
        BY <3>6, <3>7, SMTT(20)
      <3>9. CASE m.text > 0
        BY <3>2, <3>8, <3>9
      <3>10. CASE ~ (m.text > 0)
        BY <3>3, <3>5, <3>8, <3>10
      <3> QED
        BY <3>9, <3>10
    <2>5. r \in Seq(E) /\ C(D, r)
      <3> DEFINE z == Len(m.calls)
      <3>1. z \in Nat /\ DOMAIN m.calls = 1..z
        BY MessageFacts
      <3>2. \A i \in 1..z : i \in Nat /\ Call(i) \in RsAts
        BY <3>1, <1>3
      <3>3. \A i \in 1..z : /\ Item(t, "closed", Call(i)) \in E
                            /\ Item(t, "closed", Call(i)).task = t /\ Item(t, "closed", Call(i)).event = "closed"
                            /\ Item(t, "closed", Call(i)).at = Call(i) /\ Item(t, "closed", Call(i)).index = 0
        <4>1. \A i \in 1..z : Item(t, "closed", Call(i)) \in E
          BY <3>2, <1>2, <1>3 DEF Item
        <4>2. \A i : /\ Item(t, "closed", Call(i)).task = t /\ Item(t, "closed", Call(i)).event = "closed"
                     /\ Item(t, "closed", Call(i)).at = Call(i) /\ Item(t, "closed", Call(i)).index = 0
          BY FieldFacts DEF Item
        <4> QED
          BY <4>1, <4>2
      <3>4. r \in [1..z -> E]
        BY <3>1, <3>3
      <3>5. r \in Seq(E) /\ Len(r) = z
        BY <3>1, <3>4, FunctionIsSeq
      <3>6. \A i \in 1..z : r[i].task = t /\ r[i].event = "closed" /\ r[i].at = Call(i) /\ r[i].index = 0
        BY <3>1, <3>3
      <3> HIDE DEF r, z
      <3>7. \A i, j \in 1..z : Call(i) = Call(j) => i = j
        BY <3>2, PartsDiffer
      <3>8. D = {Call(i) : i \in 1..z}
        BY DEF z
      <3> HIDE DEF D
      <3>9. \A i \in 1..z : Call(i) \in D
        BY <3>8
      <3>10. \A at \in D : \E i \in 1..z : at = Call(i)
        BY <3>8
      <3>11. /\ \A i \in 1..Len(r) :
                  /\ r[i].task = t /\ r[i].event \notin {"opened", "delta"}
                  /\ r[i].event = "closed" => r[i].at \in D /\ r[i].index = Spot(Format, m, r[i].at)
             /\ \A i, j \in 1..Len(r) : r[i].event = "closed" /\ r[j].event = "closed" /\ r[i].at = r[j].at => i = j
             /\ \A at \in D : \E i \in 1..Len(r) : r[i].event = "closed" /\ r[i].at = at
        <4>1. ASSUME NEW i \in 1..Len(r)
              PROVE  /\ r[i].task = t /\ r[i].event \notin {"opened", "delta"}
                     /\ r[i].event = "closed" => r[i].at \in D /\ r[i].index = Spot(Format, m, r[i].at)
          BY <3>5, <3>6, <3>9, <2>2
        <4>2. ASSUME NEW i \in 1..Len(r), NEW j \in 1..Len(r), r[i].at = r[j].at PROVE i = j
          BY <4>2, <3>5, <3>6, <3>7
        <4>3. ASSUME NEW at \in D PROVE \E i \in 1..Len(r) : r[i].event = "closed" /\ r[i].at = at
          BY <3>5, <3>6, <3>10
        <4> QED
          BY <4>1, <4>2, <4>3
      <3> QED
        BY <3>1, <3>5, <3>11 DEF Closes
    <2>6. /\ A \cap B = {} /\ (A \cup B) \cap D = {} /\ ((A \cup B) \cup D) \cap {} = {}
          /\ ((A \cup B) \cup D) \cup {} = S
      <3>1. \A i \in 1..Len(m.calls) : i \in Nat
        OBVIOUS
      <3>2. Reasoning # Text /\ \A i \in 1..Len(m.calls) : Call(i) # Reasoning /\ Call(i) # Text
        BY <3>1, PartsDiffer
      <3>3. \A at : at \in S <=> at \in RsAts /\ Present(m, at)
        OBVIOUS
      <3>4. \A at : at \in S <=> at \in A \/ at \in B \/ at \in D
        BY <3>1, <3>3, <1>3 DEF Present
      <3> HIDE DEF S
      <3>5. A \cap B = {} /\ (A \cup B) \cap D = {}
        BY <3>2
      <3> HIDE DEF A, B, D
      <3> QED
        BY <3>4, <3>5
    <2> HIDE DEF p, q, r, A, B, D, E, S
    <2>7. C(A \cup B, Glued(p, q)) /\ Glued(p, q) \in Seq(E)
      BY <2>3, <2>4, <2>6, <1>5
    <2>8. C((A \cup B) \cup D, Glued(Glued(p, q), r)) /\ Glued(Glued(p, q), r) \in Seq(E)
      BY <2>5, <2>6, <2>7, <1>5
    <2>9. C(((A \cup B) \cup D) \cup {}, Glued(Glued(Glued(p, q), r), <<f>>))
      BY <2>6, <2>8, <1>5, <1>6
    <2> QED
      BY <2>1, <2>6, <2>9 DEF S
  <1>8. CASE Format = "anthropic"
    <2> DEFINE P == PartsOf(m)
               N == Len(P)
               s == Sign(t, m)
               h == Shut(t, m)
    <2>1. Over(t, m) = Glued(Glued(s, h), <<du, f>>)
      BY <1>8 DEF Over, Glued
    <2>2. C({}, s)
      <3> DEFINE e == Event(t, "signature", Reasoning, 0, 0)
      <3>1. e.task = t /\ e.event = "signature"
        BY FieldFacts
      <3>2. s = <<e>> \/ s = <<>>
        BY DEF Sign, If
      <3> HIDE DEF e, s
      <3> QED
        BY <3>1, <3>2, ShortCloses
    <2>3. /\ P \in Seq(RsAts) /\ N \in Nat /\ DOMAIN P = 1..N
          /\ \A i \in 1..N : Present(m, P[i]) /\ Spot("anthropic", m, P[i]) = i - 1
          /\ \A at : Present(m, at) => \E i \in 1..N : P[i] = at
      BY PartsPlaced
    <2>4. h = [i \in 1..N |-> Event(t, "closed", P[i], 0, i - 1)]
      BY <2>3 DEF Shut
    <2>5. Len(h) = N
      <3>1. \A i \in 1..N : Event(t, "closed", P[i], 0, i - 1) \in {Event(t, "closed", P[j], 0, j - 1) : j \in 1..N}
        OBVIOUS
      <3>2. h \in [1..N -> {Event(t, "closed", P[j], 0, j - 1) : j \in 1..N}]
        BY <2>4, <3>1
      <3> QED
        BY <2>3, <3>2, FunctionIsSeq
    <2>6. \A i \in 1..N : h[i].task = t /\ h[i].event = "closed" /\ h[i].at = P[i] /\ h[i].index = i - 1
      BY <2>4, FieldFacts
    <2>7. \A i \in 1..N : P[i] \in S
      BY <2>3, ElementOfSeq
    <2>8. \A at \in S : \E i \in 1..N : P[i] = at
      BY <2>3
    <2>9. \A i, j \in 1..N : P[i] = P[j] => i = j
      <3> SUFFICES ASSUME NEW i \in 1..N, NEW j \in 1..N, P[i] = P[j] PROVE i = j
        OBVIOUS
      <3>1. i - 1 = j - 1
        BY <2>3
      <3> QED
        BY <3>1, <2>3
    <2> HIDE DEF P, N, h, S, s
    <2>10. C(S, h)
      <3>1. ASSUME NEW i \in 1..Len(h)
            PROVE  /\ h[i].task = t /\ h[i].event \notin {"opened", "delta"}
                   /\ h[i].event = "closed" => h[i].at \in S /\ h[i].index = Spot(Format, m, h[i].at)
        <4>1. h[i].task = t /\ h[i].event = "closed" /\ h[i].at = P[i] /\ h[i].index = i - 1
          BY <2>5, <2>6
        <4> QED
          BY <4>1, <2>3, <2>5, <2>7, <1>8
      <3>2. ASSUME NEW i \in 1..Len(h), NEW j \in 1..Len(h), h[i].at = h[j].at PROVE i = j
        BY <3>2, <2>5, <2>6, <2>9
      <3>3. ASSUME NEW at \in S PROVE \E i \in 1..Len(h) : h[i].event = "closed" /\ h[i].at = at
        BY <2>5, <2>6, <2>8
      <3> QED
        BY <3>1, <3>2, <3>3, <2>3, <2>5 DEF Closes
    <2> HIDE DEF E
    <2>11. C({} \cup S, Glued(s, h)) /\ Glued(s, h) \in Seq(E)
      BY <2>2, <2>10, <1>4, <1>5 DEF s, h
    <2>12. C(({} \cup S) \cup {}, Glued(Glued(s, h), <<du, f>>))
      <3>1. ({} \cup S) \cap {} = {}
        OBVIOUS
      <3> QED
        BY <3>1, <2>11, <1>5, <1>6
    <2>13. ({} \cup S) \cup {} = S
      OBVIOUS
    <2> QED
      BY <2>1, <2>12, <2>13 DEF S
  <1> QED
    BY <1>7, <1>8

\* Nothing adds nothing.
LEMMA NoneAdds ==
    ASSUME NEW q, Len(q) \in Nat, NEW t, NEW f, NEW m, \A i \in 1..Len(q) : q[i].task = t /\ q[i].event \notin BlockNames
    PROVE  Adding(f, t, m, m, q)
  <1>1. Continues(f, m, m)
    BY DEF Continues
  <1>2. \A i \in 1..Len(q) : q[i].task = t /\ q[i].event \notin {"opened", "delta", "closed"} /\ Fits(f, m, q[i])
    BY DEF Fits, BlockNames
  <1> QED
    BY <1>1, <1>2 DEF Adding

(* Which blocks of a task were begun, as far as the events need it.        *)
Flags(st) == (st.thinking <=> st.msg.reasoning > 0) /\ (st.text <=> st.msg.text > 0)

\* The place of a part in a stream is its place in the message.
LEMMA WhereSpot ==
    ASSUME NEW m \in Messages, NEW n \in Messages, NEW d, NEW at, NEW k \in Nat, Change(m, n, d, at, k),
           NEW v, v <=> n.text > 0
    PROVE  Where(n, v, at) = Spot(Format, n, at)
  <1>1. CASE Format # "anthropic"
    BY <1>1, SpotFacts DEF Where
  <1>2. CASE Format = "anthropic"
    <2>1. at = Reasoning \/ at = Text \/ (at = Call(Len(n.calls)) /\ Len(n.calls) \in Nat)
      BY MessageFacts DEF Change
    <2>2. Reasoning # Text /\ \A i \in Nat : Call(i) # Reasoning /\ Call(i) # Text /\ Call(i)[2] = i
      BY PartsDiffer
    <2>3. CASE at = Reasoning
      BY <2>2, <2>3, <1>2 DEF Where, Place, Spot
    <2>4. CASE at = Text
      BY <2>2, <2>4, <1>2 DEF Where, Place, Spot
    <2>5. CASE at = Call(Len(n.calls)) /\ Len(n.calls) \in Nat
      <3>1. Place(n, v, at) = CallIndex(n, v, at[2]) /\ Spot("anthropic", n, at) = TextIndex(n) + TextCount(n) + at[2] - 1
        <4>1. at # Reasoning /\ at # Text
          BY <2>2, <2>5
        <4> QED
          BY <4>1 DEF Place, Spot
      <3>2. CallIndex(n, v, at[2]) = TextIndex(n) + TextCount(n) + at[2] - 1
        BY DEF CallIndex, TextCount
      <3> QED
        BY <3>1, <3>2, <1>2 DEF Where
    <2> QED
      BY <2>1, <2>3, <2>4, <2>5
  <1> QED
    BY <1>1, <1>2

\* What a part adds.
LEMMA PartAdds ==
    ASSUME RsCore, Format \in {"resp", "anthropic"}, Format = "anthropic" => ~ Mixed,
           NEW t \in Tasks, Flags(state[t]), NEW m \in Grown(state[t].msg), NEW w \in BOOLEAN, NEW n \in 0..MaxParts
    PROVE  /\ Adding(Format, t, state[t].msg, m, PartJson(t, m, w, n))
           /\ \A i \in 1..Len(PartJson(t, m, w, n)) : PartJson(t, m, w, n)[i].event \notin {"closed", "finish"}
  <1> DEFINE q == PartJson(t, m, w, n)
             msg == state[t].msg
  <1>1. /\ msg \in Messages /\ t \in Nat /\ setup \in Setups /\ n \in Nat /\ m \in Messages
        /\ state[t].thinking \in BOOLEAN /\ state[t].text \in BOOLEAN /\ state[t].created \in BOOLEAN
    <2>1. msg \in Messages
      BY StateFacts
    <2> QED
      BY <2>1, CoreFacts, StateFacts, GrownCases
  <1>2. IsPart(t, msg, m, w, n, q)
    BY <1>1, PartShape
  <1>3. PICK head, body : q = Glued(head, body) /\ Heads(t, w, n, head) /\ Grows(t, msg, m, body)
    BY <1>2 DEF IsPart, Grows
  <1> HIDE DEF q
  <1> DEFINE E == RsEvents({t}, RsHead \cup RsBody)
             H == RsEvents({t}, RsHead)
             B == RsEvents({t}, RsBody)
             b == About(t, "begin")
             p == About(t, "in_progress")
  <1>4. body \in Seq(B)
    BY <1>1, <1>3, GrowsTyped
  <1>5. b \in H /\ p \in H
    BY EventFacts DEF About, RsHead
  <1>6. /\ H \subseteq E /\ B \subseteq E
        /\ \A e \in H : e.task = t /\ e.event \notin BlockNames /\ e.event \notin {"closed", "finish"}
        /\ \A e \in B : e.event \notin {"closed", "finish"}
    BY DEF RsEvents, RsHead, RsBody, BlockNames
  <1>7. head = <<>> \/ head = <<b>> \/ head = <<p>> \/ head = <<b, p>>
    BY <1>3 DEF Heads
  <1> HIDE DEF E, H, B, b, p
  <1>8. head \in Seq(H)
    <2>1. <<>> \in Seq(H) /\ <<b>> \in Seq(H) /\ <<p>> \in Seq(H) /\ <<b, p>> \in Seq(H)
      BY <1>5
    <2>2. CASE head = <<>>
      BY <2>1, <2>2
    <2>3. CASE head = <<b>>
      BY <2>1, <2>3
    <2>4. CASE head = <<p>>
      BY <2>1, <2>4
    <2>5. CASE head = <<b, p>>
      BY <2>1, <2>5
    <2> QED
      BY <1>7, <2>2, <2>3, <2>4, <2>5
  <1>9. FollowedBy(head, body, q)
    <2>1. head \in Seq(E) /\ body \in Seq(E)
      <3>1. \A S, T : S \subseteq T => Seq(S) \subseteq Seq(T)
        OBVIOUS
      <3> QED
        BY <3>1, <1>4, <1>6, <1>8
    <2> QED
      BY <2>1, <1>3, GluedFacts
  <1>10. /\ Len(head) \in Nat /\ Len(body) \in Nat
         /\ \A i \in 1..Len(head) : head[i] \in H
         /\ \A i \in 1..Len(body) : body[i] \in B
    BY <1>4, <1>8, LenProperties, ElementOfSeq
  <1>11. Adding(Format, t, msg, m, body)
    <2>1. CASE m = msg /\ body = <<>>
      <3>1. Len(body) = 0 /\ \A i \in 1..0 : FALSE
        BY <2>1
      <3>2. \A i \in 1..Len(body) : body[i].task = t /\ body[i].event \notin BlockNames
        BY <3>1
      <3> QED
        BY <3>2, <2>1, <1>10, NoneAdds
    <2>2. ASSUME NEW d, NEW at, NEW k, NEW v \in BOOLEAN, Bodies(t, msg, m, d, at, k, v, body)
          PROVE  Adding(Format, t, msg, m, body)
      <3>1. /\ Change(msg, m, d, at, k) /\ at \in RsAts /\ k \in Nat
            /\ v <=> state[t].text \/ GrewText(msg, m)
            /\ Opens(msg, m, state[t].thinking, state[t].text) => OpensAndFills(t, at, Where(m, v, at), k, body)
            /\ ~ Opens(msg, m, state[t].thinking, state[t].text) => Fills(t, at, Where(m, v, at), k, body)
        BY <2>2 DEF Bodies
      <3>2. Format = "anthropic" => Orderly(msg, m)
        BY <3>1, <1>1, GrownCases, ChangeKinds DEF Orderly
      <3>3. v <=> m.text > 0
        <4>1. msg.text \in Nat
          BY <1>1, MessageFacts
        <4>2. (state[t].text <=> msg.text > 0) /\ (GrewText(msg, m) => m.text = msg.text + 1)
          BY DEF Flags, GrewText
        <4>3. ~ GrewText(msg, m) => m.text = msg.text
          BY <3>1 DEF Change, GrewReasoning, GrewNew, GrewCall
        <4> QED
          BY <3>1, <4>1, <4>2, <4>3
      <3>4. Where(m, v, at) = Spot(Format, m, at) /\ Where(m, v, at) \in Nat
        BY <3>1, <3>3, <1>1, WhereSpot, WhereNat
      <3>5. Opens(msg, m, state[t].thinking, state[t].text) <=> ~ Present(msg, at)
        <4>1. /\ GrewReasoning(msg, m) => (Present(msg, at) <=> msg.reasoning > 0)
              /\ GrewText(msg, m) => (Present(msg, at) <=> msg.text > 0)
              /\ GrewNew(msg, m) => ~ Present(msg, at)
              /\ GrewCall(msg, m) => Present(msg, at)
          BY <3>1, <3>2, <1>1, PresentMore, ZenonT(60)
        <4>2. GrewReasoning(msg, m) \/ GrewText(msg, m) \/ GrewNew(msg, m) \/ GrewCall(msg, m)
          BY <3>1 DEF Change
        <4>3. (state[t].thinking <=> msg.reasoning > 0) /\ (state[t].text <=> msg.text > 0)
          BY DEF Flags
        <4> HIDE DEF msg
        <4> QED
          BY <4>1, <4>2, <4>3, <1>1, ChangeKinds DEF Opens
      <3> DEFINE index == Where(m, v, at)
      <3>6. /\ ~ Present(msg, at) => OpensAndFills(t, at, index, k, body)
            /\ Present(msg, at) => Fills(t, at, index, k, body)
        BY <3>1, <3>5
      <3>7. index \in Nat /\ index = Spot(Format, m, at)
        BY <3>4
      <3> HIDE DEF index, msg
      <3> QED
        BY <3>1, <3>2, <3>6, <3>7, <1>1, BodyAdds
    <2> QED
      BY <2>1, <2>2, <1>3 DEF Grows
  <1>12. Adding(Format, t, msg, m, q)
    BY <1>6, <1>9, <1>10, <1>11, AfterHead
  <1>13. \A i \in 1..Len(q) : q[i].event \notin {"closed", "finish"}
    <2>1. \A i \in 1..Len(head) : head[i].event \notin {"closed", "finish"}
      BY <1>6, <1>10
    <2>2. \A i \in 1..Len(body) : body[i].event \notin {"closed", "finish"}
      BY <1>6, <1>10
    <2> QED
      BY <2>1, <2>2, <1>9 DEF FollowedBy
  <1> QED
    BY <1>12, <1>13 DEF q

\* What the end of a message adds, when it shows nothing more.
LEMMA FinalAdds ==
    ASSUME RsCore, Format \in {"resp", "anthropic"}, NEW t \in Tasks, NEW m, m = state[t].msg
    PROVE  LET q == FinalJson(t, m)
           IN  /\ Adding(Format, t, m, m, q)
               /\ \A i \in 1..Len(q) : q[i].event # "opened"
               /\ \A at : Present(m, at) => Said(q, t, "closed", at)
  <1> DEFINE q == FinalJson(t, m)
             over == Over(t, m)
             E == RsEvents({t}, RsEnd)
             S == {at \in RsAts : Present(m, at)}
  <1>1. m \in Messages /\ m \in Grown(m) /\ setup \in Setups /\ state[t].msg = m
    BY CoreFacts, StateFacts
  <1>2. IsFinal(t, m, m, q)
    BY <1>1, FinalShape
  <1>3. PICK body : q = Glued(body, over) /\ FinalBody(t, m, m, body)
    BY <1>2 DEF IsFinal
  <1>4. body = <<>>
    BY <1>1, <1>3, ChangeKinds DEF FinalBody, Change
  <1>5. over \in Seq(E)
    BY <1>1, OverTyped
  <1>6. Closes(Format, t, m, S, over)
    BY <1>1, OverCloses
  <1> HIDE DEF over, E
  <1>7. q = over
    BY <1>3, <1>4, <1>5, ConcatEmptySeq DEF Glued
  <1> HIDE DEF q
  <1>8. Closes(Format, t, m, S, q)
    BY <1>6, <1>7
  <1>9. \A at : Present(m, at) => at \in RsAts
    <2>1. \A i \in 1..Len(m.calls) : i \in Nat
      BY <1>1, MessageFacts
    <2> QED
      BY <2>1, EventFacts DEF Present
  <1>10. /\ Len(q) \in Nat
         /\ \A i \in 1..Len(q) : /\ q[i].task = t /\ q[i].event \notin {"opened", "delta"}
                                 /\ q[i].event = "closed" => q[i].at \in S /\ q[i].index = Spot(Format, m, q[i].at)
         /\ \A i \in 1..Len(q) : q[i].event = "closed" => ~ Before(q, i, "closed")
         /\ \A at \in S : Said(q, t, "closed", at)
    <2>1. /\ Len(q) \in Nat
          /\ \A i \in 1..Len(q) : /\ q[i].task = t /\ q[i].event \notin {"opened", "delta"}
                                  /\ q[i].event = "closed" => q[i].at \in S /\ q[i].index = Spot(Format, m, q[i].at)
          /\ \A i, j \in 1..Len(q) : q[i].event = "closed" /\ q[j].event = "closed" /\ q[i].at = q[j].at => i = j
          /\ \A at \in S : \E i \in 1..Len(q) : q[i].event = "closed" /\ q[i].at = at
      BY <1>8 DEF Closes
    <2> HIDE DEF S
    <2>2. ASSUME NEW i \in 1..Len(q), q[i].event = "closed", Before(q, i, "closed") PROVE FALSE
      <3>1. PICK j \in 1..i - 1 : q[j].event = "closed" /\ q[j].at = q[i].at
        BY <2>2 DEF Before
      <3>2. j \in 1..Len(q) /\ j # i
        BY <2>1
      <3> QED
        BY <3>1, <3>2, <2>1, <2>2
    <2>3. \A at \in S : Said(q, t, "closed", at)
      BY <2>1 DEF Said
    <2> QED
      BY <2>1, <2>2, <2>3
  <1>11. Adding(Format, t, m, m, q)
    <2>1. Continues(Format, m, m)
      BY DEF Continues
    <2>2. ASSUME NEW i \in 1..Len(q) PROVE Fits(Format, m, q[i])
      BY <1>10 DEF Fits, BlockNames
    <2> QED
      BY <2>1, <2>2, <1>10 DEF Adding
  <1> QED
    BY <1>9, <1>10, <1>11 DEF q

-----------------------------------------------------------------------------
(* What the slot s and the state st of a task tell of its blocks in the    *)
(* log q.                                                                  *)
BlockLink(f, s, st, t, q) ==
    /\ Flags(st) /\ PairsOf(f, q, t, st.msg) /\ AllOpened(q, t, st.msg)
    /\ s.sent # "ended" => NoneShut(q, t)
    /\ s.sent = "ended" => AllShut(q, t)
OnlyOf(T, q) == \A i \in 1..Len(q) : q[i].event \in BlockNames => q[i].task \in T

(* The inductive invariant.  While the response is open, what a message    *)
(* has was opened and what was opened is filled; nothing is closed before  *)
(* the end of a task and everything is with it.                            *)
IsPaired == Stream /\ Blocks /\ ~ Late /\ (Format = "anthropic" => ~ Mixed)
RsPaired ==
    IsPaired =>
        /\ http.phase # "closed" => /\ OnlyOf(Tasks, RsLog)
                                    /\ \A t \in Tasks : BlockLink(Format, slot[t], state[t], t, RsLog)
        /\ http.phase = "closed" => /\ OnlyOf(Tasks, out)
                                    /\ \A t \in Tasks : /\ PairsOf(Format, out, t, state[t].msg)
                                                        /\ RsDone(out, t) => AllShut(out, t)

\* The link of a task about which nothing is added.
LEMMA LinkOthers ==
    ASSUME NEW p, NEW q, NEW r, FollowedBy(p, q, r), NEW t, \A i \in 1..Len(q) : q[i].task # t,
           NEW f, NEW s, NEW u, NEW st, BlockLink(f, s, st, t, p), u.sent = "ended" <=> s.sent = "ended"
    PROVE  BlockLink(f, u, st, t, r)
  <1>1. /\ PairsOf(f, p, t, st.msg) => PairsOf(f, r, t, st.msg)
        /\ AllOpened(p, t, st.msg) => AllOpened(r, t, st.msg)
        /\ NoneShut(p, t) => NoneShut(r, t)
        /\ AllShut(p, t) => AllShut(r, t)
    BY OthersAdd
  <1> QED
    BY <1>1 DEF BlockLink

\* The link of a task of which more is told, or which ends.
LEMMA LinkAdded ==
    ASSUME NEW p, NEW q, NEW r, FollowedBy(p, q, r), NEW t, NEW f, NEW s, NEW st, BlockLink(f, s, st, t, p),
           s.sent # "ended", NEW u, NEW su, Flags(su), Adding(f, t, st.msg, su.msg, q),
           \/ u.sent # "ended" /\ \A i \in 1..Len(q) : q[i].event \notin {"closed", "finish"}
           \/ /\ u.sent = "ended" /\ \A i \in 1..Len(q) : q[i].event # "opened"
              /\ \A at : Present(su.msg, at) => Said(q, t, "closed", at)
    PROVE  BlockLink(f, u, su, t, r)
  <1>1. PairsOf(f, p, t, st.msg) /\ AllOpened(p, t, st.msg) /\ NoneShut(p, t)
    BY DEF BlockLink
  <1>2. /\ PairsOf(f, r, t, su.msg) /\ AllOpened(r, t, su.msg)
        /\ (\A i \in 1..Len(q) : q[i].event \notin {"closed", "finish"}) => NoneShut(r, t)
        /\ (\A i \in 1..Len(q) : q[i].event # "opened") /\ (\A at : Present(su.msg, at) => Said(q, t, "closed", at)) => AllShut(r, t)
    BY <1>1, PairsAdded
  <1> QED
    BY <1>2 DEF BlockLink

\* A step of an open stream that adds events of one task, or of none.
LEMMA PairedKept ==
    ASSUME RsCore, RsPaired, IsPaired, setup' = setup, NEW events \in Seq(RsGood), Kept(events), NEW t \in Tasks, NEW x,
           x = 0 \/ x = t, \A i \in 1..Len(events) : events[i].task = x,
           x = 0 => \A i \in 1..Len(events) : events[i].event \notin BlockNames,
           \A u \in Tasks : u # t => slot'[u] = slot[u] /\ state'[u] = state[u],
           \A r : FollowedBy(RsLog, events, r) => BlockLink(Format, slot'[t], state'[t], t, r)
    PROVE  RsPaired'
  <1>1. Tasks' = Tasks /\ Format' = Format /\ Stream /\ 0 \notin Tasks
    BY NoTask DEF Tasks, NTasks, Format, IsPaired
  <1>2. FollowedBy(RsLog, events, RsLog') /\ http.phase # "closed" /\ http'.phase # "closed"
    BY <1>1, KeptLog
  <1>3. OnlyOf(Tasks, RsLog) /\ \A u \in Tasks : BlockLink(Format, slot[u], state[u], u, RsLog)
    BY <1>2 DEF RsPaired
  <1> DEFINE p == RsLog
             q == RsLog'
  <1>4. FollowedBy(p, events, q) /\ OnlyOf(Tasks, p) /\ BlockLink(Format, slot'[t], state'[t], t, q)
        /\ \A u \in Tasks : BlockLink(Format, slot[u], state[u], u, p)
    BY <1>2, <1>3
  <1> HIDE DEF p, q
  <1>5. OnlyOf(Tasks, q)
    <2> SUFFICES ASSUME NEW i \in 1..Len(q), q[i].event \in BlockNames PROVE q[i].task \in Tasks
      BY DEF OnlyOf
    <2>1. CASE i \in 1..Len(p)
      <3>1. q[i] = p[i]
        BY <2>1, <1>4 DEF FollowedBy
      <3> QED
        BY <3>1, <2>1, <1>4 DEF OnlyOf
    <2>2. ASSUME NEW k \in 1..Len(events), i = Len(p) + k PROVE q[i].task \in Tasks
      <3>1. q[i] = events[k]
        BY <2>2, <1>4 DEF FollowedBy
      <3> QED
        BY <3>1
    <2> QED
      BY <2>1, <2>2, <1>4 DEF FollowedBy
  <1>6. ASSUME NEW u \in Tasks PROVE BlockLink(Format, slot'[u], state'[u], u, q)
    <2>1. CASE u = t
      BY <2>1, <1>4
    <2>2. CASE u # t
      <3>1. slot'[u] = slot[u] /\ state'[u] = state[u] /\ \A i \in 1..Len(events) : events[i].task # u
        BY <2>2, <1>1
      <3>2. BlockLink(Format, slot[u], state[u], u, p)
        BY <1>4
      <3>3. BlockLink(Format, slot[u], state[u], u, q)
        BY <3>1, <3>2, <1>4, LinkOthers
      <3> QED
        BY <3>1, <3>3
    <2> QED
      BY <2>1, <2>2
  <1>7. OnlyOf(Tasks', RsLog') /\ \A u \in Tasks' : BlockLink(Format', slot'[u], state'[u], u, RsLog')
    BY <1>1, <1>5, <1>6 DEF q
  <1> QED
    BY <1>2, <1>7 DEF RsPaired

\* The blocks of each task are kept in step with its message.
LEMMA PairedStep ==
    ASSUME RsCore, RsPaired, Stream, ResultNext
    PROVE  RsPaired'
  <1>1. /\ setup' = setup
        /\ \/ \E t \in Tasks : Marked(t) \/ Told(t) \/ Concluded(t)
           \/ Idle \/ Broken \/ Completes \/ Leaves
    BY StreamSteps
  <1>2. IsPaired' = IsPaired /\ Tasks' = Tasks /\ Format' = Format
    BY <1>1 DEF IsPaired, Blocks, Stream, Late, Mixed, Format, Tasks, NTasks
  <1>3. CASE ~ IsPaired
    BY <1>2, <1>3 DEF RsPaired
  <1>4. CASE IsPaired
    <2>1. /\ slot \in [Tasks -> SlotType] /\ state \in [Tasks -> StateType] /\ setup \in Setups
          /\ MaxParts \in Nat /\ MaxIdle \in Nat /\ 0 \in 0..MaxParts /\ 0 \in 0..1
      BY CoreFacts
    <2>2. Format \in {"resp", "anthropic"} /\ (Format = "anthropic" => ~ Mixed) /\ ~ Late
      BY <1>4 DEF IsPaired, Blocks
    <2>3. ASSUME NEW events, Kept(events), NEW t \in Tasks
          PROVE  BlockLink(Format, slot[t], state[t], t, RsLog) /\ Flags(state[t])
      <3>1. http.phase # "closed"
        BY <2>3 DEF Kept
      <3> QED
        BY <3>1, <1>4 DEF RsPaired, BlockLink
    <2>4. ASSUME NEW name \in {"null", "ping"}, Kept(<<>>) \/ Kept(<<About(0, name)>>), state' = state, NEW t \in Tasks,
                 slot'[t].sent = "ended" <=> slot[t].sent = "ended", \A u \in Tasks : u # t => slot'[u] = slot[u]
          PROVE  RsPaired'
      <3>1. \A i \in 1..Len(<<>>) : FALSE
        OBVIOUS
      <3>2. \A i \in 1..Len(<<About(0, name)>>) : i = 1
        OBVIOUS
      <3>3. BlockLink(Format, slot[t], state[t], t, RsLog)
        BY <2>3, <2>4
      <3>4. ASSUME NEW events \in Seq(RsGood), Kept(events),
                   \A i \in 1..Len(events) : events[i].task = 0 /\ events[i].event = name
            PROVE  RsPaired'
        <4>1. \A i \in 1..Len(events) : events[i].task # t /\ events[i].event \notin BlockNames
          BY <3>4, NoTask DEF BlockNames
        <4>2. ASSUME NEW r, FollowedBy(RsLog, events, r) PROVE BlockLink(Format, slot'[t], state'[t], t, r)
          <5>1. BlockLink(Format, slot'[t], state[t], t, r)
            BY <2>4, <3>3, <4>1, <4>2, LinkOthers
          <5> QED
            BY <5>1, <2>4
        <4> QED
          BY <2>4, <3>4, <4>1, <4>2, <1>1, <1>4, PairedKept
      <3> QED
        BY <2>4, <3>1, <3>2, <3>4, NoTask
    <2>5. ASSUME NEW t \in Tasks, Marked(t) PROVE RsPaired'
      <3>1. /\ slot[t].sent = "nothing" /\ Sent(t, "some", 0, 0) /\ state' = state
            /\ Kept(<<>>) \/ Kept(<<About(0, "null")>>)
        BY <2>5 DEF Marked
      <3>2. slot[t].reports + 0 <= MaxIdle
        BY StateFacts
      <3>3. slot'[t].sent = "some" /\ \A u \in Tasks : u # t => slot'[u] = slot[u]
        BY <3>1, <3>2, <1>2, <2>1, SentFacts
      <3> QED
        BY <3>1, <3>3, <2>4
    <2>6. CASE Idle
      <3>1. slot' = slot /\ state' = state /\ (Kept(<<>>) \/ Kept(<<About(0, "ping")>>))
        BY <2>6 DEF Idle
      <3>2. PICK t \in Tasks : TRUE
        BY CoreFacts
      <3> QED
        BY <3>1, <3>2, <2>4
    <2>7. ASSUME NEW t \in Tasks, Told(t) PROVE RsPaired'
      <3>1. PICK m \in Grown(state[t].msg), n \in 0..MaxParts, k \in 0..1 :
                 \E w, first \in BOOLEAN : Spoke(t, m, w, first, n, k)
        BY <2>7 DEF Told
      <3>2. PICK w, first \in BOOLEAN : Spoke(t, m, w, first, n, k)
        BY <3>1
      <3> DEFINE events == PartJson(t, m, w, n)
      <3>3. /\ slot[t].sent # "ended" /\ slot[t].reports + k <= MaxIdle
            /\ Sent(t, "some", n, k) /\ Kept(events)
            /\ state' = [state EXCEPT ![t] = Updated(state[t], m, first)]
        BY <3>2 DEF Spoke
      <3>4. slot'[t].sent = "some" /\ \A u \in Tasks : u # t => slot'[u] = slot[u]
        BY <3>3, <1>2, <2>1, SentFacts
      <3>5. BlockLink(Format, slot[t], state[t], t, RsLog) /\ Flags(state[t])
        BY <2>3, <3>3
      <3>6. state'[t] = Updated(state[t], m, first) /\ \A u \in Tasks : u # t => state'[u] = state[u]
        BY <3>3, <2>1
      <3>7. state'[t].msg = m /\ Flags(state'[t])
        <4> DEFINE g == Updated(state[t], m, first)
        <4>1. /\ g.msg = m
              /\ g.thinking <=> state[t].thinking \/ GrewReasoning(state[t].msg, m)
              /\ g.text <=> state[t].text \/ GrewText(state[t].msg, m)
          BY <2>1, UpdatedFacts DEF Thinks, Shows
        <4> HIDE DEF g
        <4> DEFINE msg == state[t].msg
        <4>2. msg \in Messages /\ m \in Grown(msg) /\ msg.reasoning \in Nat /\ msg.text \in Nat
          BY StateFacts, MessageFacts
        <4>3. /\ GrewReasoning(msg, m) => m.reasoning = msg.reasoning + 1
              /\ ~ GrewReasoning(msg, m) => m.reasoning = msg.reasoning
              /\ GrewText(msg, m) => m.text = msg.text + 1
              /\ ~ GrewText(msg, m) => m.text = msg.text
          <5> HIDE DEF msg
          <5> QED
            BY <4>2, GrownCases DEF GrewReasoning, GrewText, GrewNew, GrewCall
        <4>4. (state[t].thinking <=> msg.reasoning > 0) /\ (state[t].text <=> msg.text > 0)
          BY <3>5 DEF Flags
        <4>5. (m.reasoning > 0 <=> msg.reasoning > 0 \/ GrewReasoning(msg, m)) /\ (m.text > 0 <=> msg.text > 0 \/ GrewText(msg, m))
          BY <4>2, <4>3
        <4>6. (g.thinking <=> m.reasoning > 0) /\ (g.text <=> m.text > 0)
          BY <4>1, <4>4, <4>5
        <4>7. Flags(g)
          BY <4>1, <4>6 DEF Flags
        <4> QED
          BY <4>1, <4>7, <3>6 DEF g
      <3>8. /\ Adding(Format, t, state[t].msg, m, events)
            /\ \A i \in 1..Len(events) : events[i].event \notin {"closed", "finish"}
        BY <2>2, <3>5, PartAdds
      <3>9. events \in Seq(RsGood)
        BY NewEvents
      <3> HIDE DEF events
      <3>10. \A i \in 1..Len(events) : events[i].task = t
        BY <3>8 DEF Adding
      <3>11. ASSUME NEW r, FollowedBy(RsLog, events, r) PROVE BlockLink(Format, slot'[t], state'[t], t, r)
        <4>1. Adding(Format, t, state[t].msg, state'[t].msg, events) /\ slot'[t].sent # "ended"
          BY <3>4, <3>7, <3>8
        <4> QED
          BY <4>1, <3>3, <3>5, <3>7, <3>8, <3>11, LinkAdded
      <3>12. t # 0
        BY NoTask
      <3> QED
        BY <3>3, <3>4, <3>6, <3>9, <3>10, <3>11, <3>12, <1>1, <1>4, PairedKept
    <2>8. ASSUME NEW t \in Tasks, Concluded(t) PROVE RsPaired'
      <3>1. PICK m \in Grown(state[t].msg) : Finishes(t, m)
        BY <2>8 DEF Concluded
      <3> DEFINE events == FinalJson(t, m)
      <3>2. /\ slot[t].sent # "ended" /\ Kept(events) /\ state' = [state EXCEPT ![t].msg = m] /\ m = state[t].msg
            /\ Sent(t, "ended", slot[t].n_gen, 0)
        BY <3>1, <2>2 DEF Finishes
      <3>3. slot[t].n_gen \in 0..MaxParts /\ slot[t].reports + 0 <= MaxIdle /\ state[t].msg \in Messages
        BY <2>1, StateFacts
      <3>4. slot'[t].sent = "ended" /\ \A u \in Tasks : u # t => slot'[u] = slot[u]
        BY <3>2, <3>3, <1>2, <2>1, SentFacts
      <3>5. state'[t] = state[t] /\ \A u \in Tasks : u # t => state'[u] = state[u]
        <4>1. state'[t] = [state[t] EXCEPT !.msg = m] /\ \A u \in Tasks : u # t => state'[u] = state[u]
          BY <3>2, <2>1
        <4>2. state[t] \in StateType
          BY StateFacts
        <4>3. [state[t] EXCEPT !.msg = m] = state[t]
          BY <4>2, <3>2 DEF StateType
        <4> QED
          BY <4>1, <4>3
      <3>6. BlockLink(Format, slot[t], state[t], t, RsLog) /\ Flags(state[t])
        BY <2>3, <3>2
      <3>7. /\ Adding(Format, t, m, m, events)
            /\ \A i \in 1..Len(events) : events[i].event # "opened"
            /\ \A at : Present(m, at) => Said(events, t, "closed", at)
        BY <2>2, <3>2, FinalAdds
      <3>8. events \in Seq(RsGood)
        BY NewEvents
      <3> HIDE DEF events
      <3>9. \A i \in 1..Len(events) : events[i].task = t
        BY <3>7 DEF Adding
      <3>10. ASSUME NEW r, FollowedBy(RsLog, events, r) PROVE BlockLink(Format, slot'[t], state'[t], t, r)
        <4>1. Adding(Format, t, state[t].msg, state[t].msg, events) /\ \A at : Present(state[t].msg, at) => Said(events, t, "closed", at)
          BY <3>2, <3>7
        <4>2. BlockLink(Format, slot'[t], state[t], t, r)
          BY <4>1, <3>2, <3>4, <3>6, <3>7, <3>10, LinkAdded
        <4> QED
          BY <4>2, <3>5
      <3>11. t # 0
        BY NoTask
      <3> QED
        BY <3>2, <3>4, <3>5, <3>8, <3>9, <3>10, <3>11, <1>1, <1>4, PairedKept
    <2>9. CASE Broken \/ Completes \/ Leaves
      <3>1. http.phase # "closed" /\ http'.phase = "closed" /\ state' = state
        BY <2>9, ClosedLog
      <3>2. PICK q, tail : EndOfLog(q, tail, out')
        BY <2>9, ClosedLog
      <3> DEFINE r == out'
      <3>3. /\ FollowedBy(q, tail, r) /\ (q = RsLog \/ q = <<>>)
            /\ \A i \in 1..Len(tail) : tail[i].task = 0 /\ tail[i].event \in {"error", "[DONE]"}
        BY <3>2 DEF EndOfLog
      <3> HIDE DEF r
      <3>4. OnlyOf(Tasks, RsLog) /\ \A t \in Tasks : BlockLink(Format, slot[t], state[t], t, RsLog)
        BY <3>1, <1>4 DEF RsPaired
      <3>5. \A i \in 1..Len(<<>>) : FALSE
        OBVIOUS
      <3>6. OnlyOf(Tasks, q)
        BY <3>3, <3>4, <3>5 DEF OnlyOf
      <3>7. OnlyOf(Tasks, r)
        <4> SUFFICES ASSUME NEW i \in 1..Len(r), r[i].event \in BlockNames PROVE r[i].task \in Tasks
          BY DEF OnlyOf
        <4>1. CASE i \in 1..Len(q)
          <5>1. r[i] = q[i]
            BY <4>1, <3>3 DEF FollowedBy
          <5> QED
            BY <5>1, <4>1, <3>6 DEF OnlyOf
        <4>2. ASSUME NEW k \in 1..Len(tail), i = Len(q) + k PROVE FALSE
          <5>1. r[i] = tail[k]
            BY <4>2, <3>3 DEF FollowedBy
          <5> QED
            BY <5>1, <3>3 DEF BlockNames
        <4> QED
          BY <4>1, <4>2, <3>3 DEF FollowedBy
      <3>8. ASSUME NEW t \in Tasks PROVE PairsOf(Format, r, t, state[t].msg) /\ (RsDone(r, t) => AllShut(r, t))
        <4>1. PairsOf(Format, RsLog, t, state[t].msg)
          BY <3>4 DEF BlockLink
        <4>2. PairsOf(Format, q, t, state[t].msg)
          BY <3>3, <3>5, <4>1 DEF PairsOf
        <4>3. \A i \in 1..Len(tail) : tail[i].task # t
          BY <3>3, NoTask
        <4>4. PairsOf(Format, r, t, state[t].msg) /\ (AllShut(q, t) => AllShut(r, t))
          BY <3>3, <4>2, <4>3, OthersAdd
        <4>5. ASSUME RsDone(r, t) PROVE AllShut(q, t)
          <5>1. PICK i \in 1..Len(r) : r[i].event = "finish" /\ r[i].task = t
            BY <4>5 DEF RsDone
          <5>2. i \in 1..Len(q) /\ r[i] = q[i]
            <6>1. ASSUME NEW k \in 1..Len(tail), i = Len(q) + k PROVE FALSE
              <7>1. r[i] = tail[k]
                BY <6>1, <3>3 DEF FollowedBy
              <7> QED
                BY <7>1, <5>1, <4>3
            <6> QED
              BY <6>1, <3>3 DEF FollowedBy
          <5>3. q = RsLog
            BY <5>2, <3>3, <3>5
          <5>4. ~ NoneShut(RsLog, t)
            BY <5>1, <5>2, <5>3 DEF NoneShut
          <5>5. AllShut(RsLog, t)
            BY <5>4, <3>4 DEF BlockLink
          <5> QED
            BY <5>3, <5>5
        <4> QED
          BY <4>4, <4>5
      <3>9. OnlyOf(Tasks', out') /\ \A t \in Tasks' : /\ PairsOf(Format', out', t, state'[t].msg)
                                                      /\ RsDone(out', t) => AllShut(out', t)
        BY <3>1, <3>7, <3>8, <1>2 DEF r
      <3> QED
        BY <3>1, <3>9 DEF RsPaired
    <2> QED
      BY <1>1, <2>5, <2>6, <2>7, <2>8, <2>9
  <1> QED
    BY <1>3, <1>4

(* The block of an event e of the format f.                                *)
BlockOf(f, e) == IF f = "anthropic" THEN <<e.task, "block", e.index>> ELSE <<e.task, e.at[1], e.at[2]>>

\* A log that pairs its blocks by their parts pairs them by their numbers.
LEMMA WhoseFacts ==
    ASSUME NEW f, NEW m \in Messages, NEW a, NEW b, a.task = b.task, a.at \in RsAts, b.at \in RsAts,
           f = "anthropic" => Present(m, a.at) /\ a.index = Spot(f, m, a.at) /\ Present(m, b.at) /\ b.index = Spot(f, m, b.at)
    PROVE  BlockOf(f, a) = BlockOf(f, b) <=> a.at = b.at
  <1>1. CASE f = "anthropic"
    <2>1. <<a.task, "block", a.index>> = <<b.task, "block", b.index>> <=> a.index = b.index
      OBVIOUS
    <2>2. a.index = b.index <=> a.at = b.at
      BY <1>1, SpotsDiffer
    <2> QED
      BY <1>1, <2>1, <2>2 DEF BlockOf
  <1>2. CASE f # "anthropic"
    <2>1. <<a.task, a.at[1], a.at[2]>> = <<b.task, b.at[1], b.at[2]>> <=> a.at[1] = b.at[1] /\ a.at[2] = b.at[2]
      OBVIOUS
    <2>2. \A x \in RsAts : x = <<x[1], x[2]>>
      BY DEF RsAts, Whole, Reasoning, Text, Call
    <2>3. a.at[1] = b.at[1] /\ a.at[2] = b.at[2] <=> a.at = b.at
      BY <2>2
    <2> QED
      BY <1>2, <2>1, <2>3 DEF BlockOf
  <1> QED
    BY <1>1, <1>2

\* The invariant pairs the blocks.
LEMMA PairedBlocks ==
    ASSUME RsCore, RsPaired
    PROVE  BlocksPaired
  <1> SUFFICES ASSUME IsPaired, NEW i \in DOMAIN out
               PROVE  /\ out[i].event = "opened" => ~ Earlier(i, "opened")
                      /\ out[i].event \in {"delta", "closed"} =>
                          /\ ~ Earlier(i, "closed")
                          /\ \E j \in 1..i - 1 : out[j].event = "opened" /\ out[j].task = out[i].task
                                                 /\ Whose(out[j]) = Whose(out[i]) /\ out[j].at = out[i].at
                      /\ out[i].event = "opened" /\ Finished(out[i].task) =>
                          \E j \in i + 1..Len(out) : out[j].event = "closed" /\ Whose(out[j]) = Whose(out[i])
    BY DEF BlocksPaired, IsPaired
  <1>1. out \in Seq(RsAll) /\ Len(out) \in Nat /\ DOMAIN out = 1..Len(out) /\ \A k \in 1..Len(out) : out[k].at \in RsAts
    <2>1. out \in Seq(RsAll)
      BY DEF RsCore, IsPaired
    <2>2. \A e \in RsAll : e.at \in RsAts
      BY DEF RsAll, RsEvents
    <2> QED
      BY <2>1, <2>2, LenProperties, ElementOfSeq
  <1>2. SUFFICES ASSUME out[i].event \in BlockNames
                 PROVE  /\ out[i].event = "opened" => ~ Earlier(i, "opened")
                        /\ out[i].event \in {"delta", "closed"} =>
                            /\ ~ Earlier(i, "closed")
                            /\ \E j \in 1..i - 1 : out[j].event = "opened" /\ out[j].task = out[i].task
                                                   /\ Whose(out[j]) = Whose(out[i]) /\ out[j].at = out[i].at
                        /\ out[i].event = "opened" /\ Finished(out[i].task) =>
                            \E j \in i + 1..Len(out) : out[j].event = "closed" /\ Whose(out[j]) = Whose(out[i])
    BY DEF BlockNames
  <1> DEFINE t == out[i].task
             m == state[t].msg
  <1>3. /\ OnlyOf(Tasks, out)
        /\ \A u \in Tasks : PairsOf(Format, out, u, state[u].msg) /\ (RsDone(out, u) => AllShut(out, u))
    <2>1. CASE http.phase = "closed"
      BY <2>1 DEF RsPaired
    <2>2. CASE http.phase = "stream"
      <3>1. RsLog = out
        BY <2>2 DEF RsLog
      <3>2. OnlyOf(Tasks, out) /\ \A u \in Tasks : BlockLink(Format, slot[u], state[u], u, out)
        BY <2>2, <3>1 DEF RsPaired
      <3>3. ASSUME NEW u \in Tasks, RsDone(out, u) PROVE ~ NoneShut(out, u)
        BY <3>3 DEF RsDone, NoneShut
      <3> QED
        BY <3>2, <3>3 DEF BlockLink
    <2>3. CASE out = <<>>
      BY <2>3
    <2> QED
      BY <2>1, <2>2, <2>3 DEF RsCore, ResultTypeOK
  <1>4. t \in Tasks /\ m \in Messages
    <2>1. t \in Tasks
      BY <1>1, <1>2, <1>3 DEF OnlyOf
    <2> QED
      BY <2>1, StateFacts
  <1> HIDE DEF m, t
  <1>5. PairsOf(Format, out, t, m) /\ (RsDone(out, t) => AllShut(out, t)) /\ out[i].task = t
    BY <1>3, <1>4 DEF m, t
  <1>6. InOrder(out, i)
    BY <1>1, <1>5 DEF PairsOf
  <1>7. ASSUME NEW j \in 1..Len(out), out[j].task = t, out[j].event \in BlockNames
        PROVE  Whose(out[j]) = Whose(out[i]) <=> out[j].at = out[i].at
    <2>1. Fits(Format, m, out[j]) /\ Fits(Format, m, out[i])
      BY <1>1, <1>5, <1>7 DEF PairsOf
    <2>2. PICK a, b : a = out[j] /\ b = out[i]
      OBVIOUS
    <2>3. /\ a.task = b.task /\ a.at \in RsAts /\ b.at \in RsAts
          /\ Present(m, a.at) /\ a.index = Spot(Format, m, a.at) /\ Present(m, b.at) /\ b.index = Spot(Format, m, b.at)
      BY <2>1, <2>2, <1>1, <1>2, <1>5, <1>7 DEF Fits
    <2>4. Whose(a) = Whose(b) <=> a.at = b.at
      <3>1. PICK f : f = Format
        OBVIOUS
      <3>2. BlockOf(f, a) = BlockOf(f, b) <=> a.at = b.at
        BY <3>1, <2>3, <1>4, WhoseFacts
      <3>3. Whose(a) = BlockOf(f, a) /\ Whose(b) = BlockOf(f, b)
        BY <3>1 DEF Whose, BlockOf
      <3> QED
        BY <3>2, <3>3
    <2> QED
      BY <2>2, <2>4
  <1>8. \A j \in 1..i - 1 : j \in 1..Len(out)
    BY <1>1
  <1>9. ASSUME NEW name \in {"opened", "closed"}, Earlier(i, name) PROVE Before(out, i, name)
    <2>1. PICK j \in 1..i - 1 : out[j].event = name /\ out[j].task = out[i].task /\ Whose(out[j]) = Whose(out[i])
      BY <1>9 DEF Earlier
    <2>2. out[j].at = out[i].at
      BY <2>1, <1>5, <1>7, <1>8 DEF BlockNames
    <2> QED
      BY <2>1, <2>2 DEF Before
  <1>10. ASSUME Before(out, i, "opened")
         PROVE  \E j \in 1..i - 1 : out[j].event = "opened" /\ out[j].task = out[i].task
                                    /\ Whose(out[j]) = Whose(out[i]) /\ out[j].at = out[i].at
    <2>1. PICK j \in 1..i - 1 : out[j].event = "opened" /\ out[j].task = out[i].task /\ out[j].at = out[i].at
      BY <1>10 DEF Before
    <2>2. Whose(out[j]) = Whose(out[i])
      BY <2>1, <1>5, <1>7, <1>8 DEF BlockNames
    <2> QED
      BY <2>1, <2>2
  <1>11. ASSUME out[i].event = "opened", Finished(out[i].task)
         PROVE  \E j \in i + 1..Len(out) : out[j].event = "closed" /\ Whose(out[j]) = Whose(out[i])
    <2>1. RsDone(out, t)
      BY <1>1, <1>5, <1>11 DEF Finished, RsDone
    <2>2. PICK j \in i + 1..Len(out) : out[j].event = "closed" /\ out[j].task = t /\ out[j].at = out[i].at
      BY <2>1, <1>1, <1>5, <1>11 DEF AllShut
    <2>3. j \in 1..Len(out)
      BY <1>1
    <2> QED
      BY <2>2, <2>3, <1>7 DEF BlockNames
  <1> QED
    BY <1>6, <1>9, <1>10, <1>11 DEF InOrder

(* Items and content blocks are opened once, filled while they are open,   *)
(* and all closed, once, when the message is finished, if the parser finds *)
(* nothing at the end and reasoning, text and calls in this order where    *)
(* blocks have numbers (BlocksPaired).                                     *)
THEOREM StreamsPairBlocks == ResultSpec => []BlocksPaired
  <1>1. ResultInit => RsCore /\ RsPaired
    <2> SUFFICES ASSUME ResultInit PROVE RsCore /\ RsPaired
      OBVIOUS
    <2>1. RsCore
      BY CoreInit
    <2>2. RsLog = <<>> /\ http.phase # "closed"
      <3>1. http.phase = "first" \/ http.phase = "whole"
        BY DEF ResultInit
      <3> QED
        BY <3>1 DEF ResultInit, RsLog
    <2>3. Len(<<>>) = 0 /\ \A i \in 1..Len(<<>>) : FALSE
      OBVIOUS
    <2>4. ASSUME NEW t \in Tasks PROVE BlockLink(Format, slot[t], state[t], t, <<>>)
      <3>1. /\ state[t] = [msg |-> NoMessage, thinking |-> FALSE, text |-> FALSE, created |-> FALSE]
            /\ slot[t] = [sent |-> "nothing", n_gen |-> 0, reports |-> 0]
        BY <2>4 DEF ResultInit
      <3>2. /\ state[t].msg = NoMessage /\ ~ state[t].thinking /\ ~ state[t].text /\ slot[t].sent = "nothing"
            /\ NoMessage.reasoning = 0 /\ NoMessage.text = 0 /\ Len(NoMessage.calls) = 0
        BY <3>1 DEF NoMessage
      <3>3. \A at : ~ Present(NoMessage, at)
        <4>1. \A x : x \notin 1..Len(NoMessage.calls)
          BY <3>2
        <4> QED
          BY <4>1, <3>2 DEF Present
      <3>4. PairsOf(Format, <<>>, t, NoMessage) /\ NoneShut(<<>>, t)
        BY <2>3 DEF PairsOf, NoneShut
      <3>5. Flags(state[t]) /\ AllOpened(<<>>, t, NoMessage)
        BY <3>2, <3>3 DEF Flags, AllOpened
      <3> QED
        BY <3>2, <3>4, <3>5 DEF BlockLink
    <2>5. OnlyOf(Tasks, <<>>)
      BY <2>3 DEF OnlyOf
    <2> QED
      BY <2>1, <2>2, <2>4, <2>5 DEF RsPaired
  <1>2. RsCore /\ RsPaired /\ [ResultNext]_resultVars => RsCore' /\ RsPaired'
    <2> SUFFICES ASSUME RsCore, RsPaired, [ResultNext]_resultVars PROVE RsPaired'
      BY CoreNext
    <2>1. CASE ResultNext /\ Stream
      BY <2>1, PairedStep
    <2>2. CASE ~ Stream
      BY <2>2, SameSetup DEF RsPaired, IsPaired
    <2>3. CASE UNCHANGED resultVars
      <3>1. /\ RsLog' = RsLog /\ IsPaired' = IsPaired /\ Tasks' = Tasks /\ Format' = Format
            /\ UNCHANGED <<slot, state, http, out>>
        BY <2>3 DEF resultVars, RsLog, IsPaired, Blocks, Stream, Late, Mixed, Format, Tasks, NTasks
      <3> QED
        BY <3>1 DEF RsPaired
    <2> QED
      BY <2>1, <2>2, <2>3
  <1>3. RsCore /\ RsPaired => BlocksPaired
    BY PairedBlocks
  <1> QED
    BY <1>1, <1>2, <1>3, PTL DEF ResultSpec
=============================================================================
