----------------------------- MODULE ProofLemmas ------------------------------
(* Facts about natural numbers and sequences that the proofs of several    *)
(* components rest on.  Induction is used in the form of a least element   *)
(* of a set of numbers.                                                    *)
EXTENDS Integers, Sequences, SequencesExt, FiniteSets, Filters, SequenceTheorems, FiniteSetTheorems,
        FunctionTheorems, WellFoundedInduction, TLAPS

\* A set of natural numbers has a least element.
LEMMA LeastNat ==
    ASSUME NEW T, T \subseteq Nat, T # {}
    PROVE  \E x \in T : \A y \in T : x <= y
  <1>1. \E x \in T : \A y \in T : ~ (<<y, x>> \in OpToRel(<, Nat))
    BY NatLessThanWellFounded, WFMin
  <1>2. ASSUME NEW x \in T, NEW y \in T, ~ (<<y, x>> \in OpToRel(<, Nat)) PROVE x <= y
    BY <1>2 DEF OpToRel
  <1> QED
    BY <1>1, <1>2

\* What contains 0 and the successor of each of its elements contains Nat.
LEMMA SetInduction ==
    ASSUME NEW T, 0 \in T, \A n \in Nat : n \in T => n + 1 \in T
    PROVE  Nat \subseteq T
  <1> SUFFICES ASSUME Nat \ T # {} PROVE FALSE
    OBVIOUS
  <1>1. PICK x \in Nat \ T : \A y \in Nat \ T : x <= y
    BY LeastNat
  <1>2. x # 0
    BY <1>1
  <1>3. x - 1 \in T
    BY <1>1, <1>2
  <1> QED
    BY <1>1, <1>2, <1>3

(* F tells, for each number up to N, what becomes of an element of S; f is *)
(* what it makes of a, one after the other.                                *)
Stays(F, N, S) == \A i \in 1..N : \A x \in S : F[i][x] \in S
Runs(f, F, N, S, a) == f[0] = a /\ \A i \in 1..N : f[i - 1] \in S => f[i] = F[i][f[i - 1]]

\* A function can be defined by recursion over 0..N, and never leaves S.
LEMMA Recursion ==
    ASSUME NEW N \in Nat, NEW S, NEW a \in S, NEW F, Stays(F, N, S)
    PROVE  /\ \E f : DOMAIN f = 0..N /\ Runs(f, F, N, S, a)
           /\ \A f : Runs(f, F, N, S, a) => \A i \in 0..N : f[i] \in S
  <1> DEFINE Fits(f, n) == DOMAIN f = 0..n /\ Runs(f, F, n, S, a)
             T == {n \in Nat : \E f : Fits(f, n)}
  <1>1. 0 \in T
    <2>1. Fits([i \in 0..0 |-> a], 0)
      BY DEF Runs
    <2> QED
      BY <2>1
  <1>2. ASSUME NEW n \in Nat, n \in T PROVE n + 1 \in T
    <2>1. PICK f : Fits(f, n)
      BY <1>2
    <2> DEFINE g == [i \in 0..n + 1 |-> IF i = n + 1 THEN F[n + 1][f[n]] ELSE f[i]]
    <2>2. DOMAIN g = 0..n + 1 /\ (\A i \in 0..n : g[i] = f[i]) /\ g[n + 1] = F[n + 1][f[n]]
      OBVIOUS
    <2> HIDE DEF g
    <2>3. ASSUME NEW i \in 1..n + 1, g[i - 1] \in S PROVE g[i] = F[i][g[i - 1]]
      <3>1. CASE i = n + 1
        <4>1. i - 1 = n /\ n \in 0..n
          BY <3>1
        <4> QED
          BY <3>1, <4>1, <2>2
      <3>2. CASE i # n + 1
        <4>1. i \in 1..n /\ i \in 0..n /\ i - 1 \in 0..n
          BY <3>2
        <4>2. f[i] = F[i][f[i - 1]]
          BY <4>1, <2>1, <2>2, <2>3 DEF Runs
        <4> QED
          BY <4>1, <4>2, <2>2
      <3> QED
        BY <3>1, <3>2
    <2>4. g[0] = a
      BY <2>1, <2>2 DEF Runs
    <2>5. Fits(g, n + 1)
      BY <2>2, <2>3, <2>4 DEF Runs
    <2> QED
      BY <2>5
  <1>3. Nat \subseteq T
    BY <1>1, <1>2, SetInduction
  <1>4. \E f : Fits(f, N)
    <2> HIDE DEF Fits
    <2> QED
      BY <1>3
  <1>5. ASSUME NEW f, Runs(f, F, N, S, a) PROVE \A i \in 0..N : f[i] \in S
    <2> DEFINE U == {n \in Nat : n <= N => f[n] \in S}
    <2>1. 0 \in U
      BY <1>5 DEF Runs
    <2>2. ASSUME NEW n \in Nat, n \in U PROVE n + 1 \in U
      <3> SUFFICES ASSUME n + 1 <= N PROVE f[n + 1] \in S
        OBVIOUS
      <3>1. n + 1 \in 1..N /\ (n + 1) - 1 = n /\ f[n] \in S
        BY <2>2
      <3>2. f[n + 1] = F[n + 1][f[n]]
        BY <3>1, <1>5 DEF Runs
      <3> QED
        BY <3>1, <3>2 DEF Stays
    <2>3. Nat \subseteq U
      BY <2>1, <2>2, SetInduction
    <2> QED
      BY <2>3
  <1> QED
    BY <1>4, <1>5

\* A set of numbers below a bound has a greatest element.
LEMMA GreatestNat ==
    ASSUME NEW b \in Nat, NEW T, T \subseteq 0..b, T # {}
    PROVE  \E x \in T : \A y \in T : y <= x
  <1> DEFINE U == {b - x : x \in T}
  <1>1. U \subseteq Nat /\ U # {}
    <2>1. ASSUME NEW u \in U PROVE u \in Nat
      <3>1. PICK x \in T : u = b - x
        OBVIOUS
      <3> QED
        BY <3>1
    <2>2. PICK x : x \in T
      OBVIOUS
    <2>3. b - x \in U
      BY <2>2
    <2> QED
      BY <2>1, <2>3
  <1>2. PICK u \in U : \A y \in U : u <= y
    BY <1>1, LeastNat
  <1>3. PICK x \in T : u = b - x
    BY <1>2
  <1>4. ASSUME NEW y \in T PROVE y <= x
    <2>1. b - y \in U
      OBVIOUS
    <2> QED
      BY <2>1, <1>2, <1>3
  <1> QED
    BY <1>4

\* A function on 1..n is a sequence.
LEMMA FunctionIsSeq ==
    ASSUME NEW n \in Nat, NEW S, NEW f \in [1..n -> S]
    PROVE  f \in Seq(S) /\ Len(f) = n
  <1>1. f \in Seq(S)
    BY SeqDef
  <1> QED
    BY <1>1, LenProperties

\* The first n elements of a sequence.
LEMMA PrefixFacts ==
    ASSUME NEW S, NEW s \in Seq(S), NEW n \in 0..Len(s)
    PROVE  /\ SubSeq(s, 1, n) \in Seq(S)
           /\ Len(SubSeq(s, 1, n)) = n
           /\ \A i \in 1..n : SubSeq(s, 1, n)[i] = s[i]
  <1>1. Len(s) \in Nat /\ n \in Int /\ \A i \in 1..n : s[i] \in S
    BY LenProperties, ElementOfSeq
  <1>2. /\ SubSeq(s, 1, n) \in Seq(S) /\ Len(SubSeq(s, 1, n)) = IF 1 <= n THEN n - 1 + 1 ELSE 0
        /\ \A i \in 1..n - 1 + 1 : SubSeq(s, 1, n)[i] = s[1 + i - 1]
    BY <1>1, SubSeqProperties
  <1>3. Len(SubSeq(s, 1, n)) = n
    BY <1>1, <1>2
  <1>4. ASSUME NEW i \in 1..n PROVE i \in 1..n - 1 + 1 /\ 1 + i - 1 = i
    BY <1>1
  <1> QED
    BY <1>2, <1>3, <1>4

-----------------------------------------------------------------------------
(* How many elements of a list are in a set.                               *)
Occ(q, X) == Cardinality({i \in DOMAIN q : q[i] \in X})

\* The count is a number, and 0 for a list without such elements only.
LEMMA OccNat ==
    ASSUME NEW S, NEW q \in Seq(S), NEW X
    PROVE  /\ IsFiniteSet({i \in DOMAIN q : q[i] \in X})
           /\ Occ(q, X) \in Nat
           /\ Occ(q, X) = 0 <=> \A i \in DOMAIN q : q[i] \notin X
  <1> DEFINE A == {i \in DOMAIN q : q[i] \in X}
  <1>1. DOMAIN q = 1..Len(q) /\ Len(q) \in Nat
    BY LenProperties
  <1>2. IsFiniteSet(1..Len(q))
    BY <1>1, FS_Interval
  <1>3. IsFiniteSet(A)
    BY <1>1, <1>2, FS_Subset
  <1>4. Cardinality(A) \in Nat /\ (Cardinality(A) = 0 <=> A = {})
    BY <1>3, FS_CardinalityType, FS_EmptySet
  <1> QED
    BY <1>3, <1>4 DEF Occ

\* A larger set counts more.
LEMMA OccMonotone ==
    ASSUME NEW S, NEW q \in Seq(S), NEW X, NEW Y, X \subseteq Y
    PROVE  Occ(q, X) <= Occ(q, Y)
  <1> DEFINE A == {i \in DOMAIN q : q[i] \in X}
             B == {i \in DOMAIN q : q[i] \in Y}
  <1>1. A \subseteq B /\ IsFiniteSet(B)
    BY OccNat
  <1> HIDE DEF A, B
  <1>2. Cardinality(A) <= Cardinality(B)
    BY <1>1, FS_Subset
  <1> QED
    BY <1>2 DEF Occ, A, B

\* An element counts apart from the others.
LEMMA OccSplit ==
    ASSUME NEW S, NEW q \in Seq(S), NEW X, NEW e \in X
    PROVE  Occ(q, X) = Occ(q, X \ {e}) + Occ(q, {e})
  <1> DEFINE A == {i \in DOMAIN q : q[i] \in X \ {e}}
             B == {i \in DOMAIN q : q[i] \in {e}}
  <1>1. IsFiniteSet(A) /\ IsFiniteSet(B) /\ A \cap B = {}
    BY OccNat
  <1>2. {i \in DOMAIN q : q[i] \in X} = A \cup B
    OBVIOUS
  <1> HIDE DEF A, B
  <1>3. Cardinality(A \cup B) = Cardinality(A) + Cardinality(B) - Cardinality(A \cap B)
    BY <1>1, FS_Union
  <1>4. Cardinality(A \cap B) = 0 /\ Cardinality(A) \in Nat /\ Cardinality(B) \in Nat
    BY <1>1, FS_EmptySet, FS_CardinalityType
  <1>5. Cardinality(A \cup B) = Cardinality(A) + Cardinality(B)
    BY <1>3, <1>4
  <1> QED
    BY <1>2, <1>5 DEF Occ, A, B

\* Counts add up when lists are joined.
LEMMA OccConcat ==
    ASSUME NEW S, NEW p \in Seq(S), NEW q \in Seq(S), NEW X
    PROVE  Occ(p \o q, X) = Occ(p, X) + Occ(q, X)
  <1> DEFINE m == Len(p)
             A == {i \in DOMAIN p : p[i] \in X}
             B == {i \in DOMAIN q : q[i] \in X}
             C == {i \in DOMAIN (p \o q) : (p \o q)[i] \in X}
             T == {m + i : i \in B}
  <1>1. /\ DOMAIN p = 1..Len(p) /\ Len(p) \in Nat /\ DOMAIN q = 1..Len(q) /\ Len(q) \in Nat
        /\ DOMAIN (p \o q) = 1..Len(p) + Len(q)
        /\ \A i \in 1..Len(p) + Len(q) : (p \o q)[i] = IF i <= Len(p) THEN p[i] ELSE q[i - Len(p)]
    BY LenProperties, ConcatProperties
  <1>2. IsFiniteSet(A) /\ IsFiniteSet(B)
    BY OccNat
  <1>3. IsFiniteSet(T) /\ Cardinality(T) = Cardinality(B)
    <2> DEFINE f == [i \in B |-> m + i]
    <2>1. f \in [B -> T]
      OBVIOUS
    <2>2. \A a, b \in B : f[a] = f[b] => a = b
      BY <1>1
    <2>3. f \in Injection(B, T)
      BY <2>1, <2>2 DEF Injection, IsInjective
    <2>4. f \in Surjection(B, T)
      BY <2>1 DEF Surjection
    <2>5. ExistsBijection(B, T)
      BY <2>3, <2>4 DEF Bijection, ExistsBijection
    <2> HIDE DEF B, T
    <2> QED
      BY <2>5, <1>2, FS_Bijection
  <1>4. C = A \cup T
    <2>1. ASSUME NEW i \in C PROVE i \in A \cup T
      <3>1. CASE i <= m
        BY <3>1, <1>1
      <3>2. CASE ~ (i <= m)
        <4>1. i - m \in B /\ m + (i - m) = i
          BY <3>2, <1>1
        <4> QED
          BY <4>1
      <3> QED
        BY <3>1, <3>2
    <2>2. ASSUME NEW i \in A PROVE i \in C
      BY <1>1
    <2>3. ASSUME NEW i \in T PROVE i \in C
      <3>1. PICK j \in B : i = m + j
        OBVIOUS
      <3>2. i \in 1..Len(p) + Len(q) /\ ~ (i <= Len(p)) /\ i - Len(p) = j
        BY <3>1, <1>1
      <3> QED
        BY <3>1, <3>2, <1>1
    <2> QED
      BY <2>1, <2>2, <2>3
  <1>5. A \cap T = {}
    <2>1. ASSUME NEW i \in A, i \in T PROVE FALSE
      <3>1. PICK j \in B : i = m + j
        BY <2>1
      <3> QED
        BY <3>1, <1>1
    <2> QED
      BY <2>1
  <1> HIDE DEF A, B, C, T
  <1>6. Cardinality(C) = Cardinality(A) + Cardinality(T) - Cardinality({})
    BY <1>2, <1>3, <1>4, <1>5, FS_Union
  <1>7. Cardinality({}) = 0 /\ Cardinality(A) \in Nat /\ Cardinality(B) \in Nat
    BY <1>2, FS_EmptySet, FS_CardinalityType
  <1>8. Cardinality(C) = Cardinality(A) + Cardinality(B)
    BY <1>3, <1>6, <1>7
  <1> QED
    BY <1>8 DEF Occ, A, B, C

\* A list of one element, and the empty list.
LEMMA OccOne ==
    ASSUME NEW e, NEW X
    PROVE  Occ(<<e>>, X) = (IF e \in X THEN 1 ELSE 0) /\ Occ(<<>>, X) = 0
  <1>1. ASSUME e \in X PROVE Occ(<<e>>, X) = 1
    <2>1. {i \in DOMAIN <<e>> : <<e>>[i] \in X} = {1}
      BY <1>1
    <2> QED
      BY <2>1, FS_Singleton DEF Occ
  <1>2. ASSUME e \notin X PROVE Occ(<<e>>, X) = 0
    <2>1. {i \in DOMAIN <<e>> : <<e>>[i] \in X} = {}
      BY <1>2
    <2> QED
      BY <2>1, FS_EmptySet DEF Occ
  <1>3. {i \in DOMAIN <<>> : <<>>[i] \in X} = {}
    OBVIOUS
  <1>4. Occ(<<>>, X) = 0
    BY <1>3, FS_EmptySet DEF Occ
  <1> QED
    BY <1>1, <1>2, <1>4

\* One element more.
LEMMA OccAppend ==
    ASSUME NEW S, NEW q \in Seq(S), NEW e \in S, NEW X
    PROVE  Occ(Append(q, e), X) = Occ(q, X) + (IF e \in X THEN 1 ELSE 0)
  <1>1. Append(q, e) = q \o <<e>> /\ <<e>> \in Seq(S)
    BY AppendIsConcat
  <1>2. Occ(q \o <<e>>, X) = Occ(q, X) + Occ(<<e>>, X)
    BY <1>1, OccConcat
  <1>3. Occ(<<e>>, X) = IF e \in X THEN 1 ELSE 0
    BY OccOne
  <1> QED
    BY <1>1, <1>2, <1>3

\* The first element is taken.
LEMMA OccTail ==
    ASSUME NEW S, NEW q \in Seq(S), q # <<>>, NEW X
    PROVE  /\ Head(q) \in S /\ Tail(q) \in Seq(S)
           /\ Occ(q, X) = (IF Head(q) \in X THEN 1 ELSE 0) + Occ(Tail(q), X)
  <1>1. Head(q) \in S /\ Tail(q) \in Seq(S) /\ <<Head(q)>> \in Seq(S)
    BY HeadTailProperties
  <1>2. q = <<Head(q)>> \o Tail(q)
    <2>1. Len(q) \in 1..Len(q) /\ 1 \in 1..Len(q)
      BY EmptySeq, LenProperties
    <2>2. SubSeq(q, 1, Len(q)) = <<q[1]>> \o SubSeq(q, 1 + 1, Len(q))
      BY <2>1, SubSeqRecursiveFirst
    <2>3. SubSeq(q, 1, Len(q)) = q /\ Tail(q) = SubSeq(q, 2, Len(q)) /\ Head(q) = q[1]
      BY SubSeqFull, TailIsSubSeq
    <2> QED
      BY <2>2, <2>3
  <1>3. Occ(<<Head(q)>> \o Tail(q), X) = Occ(<<Head(q)>>, X) + Occ(Tail(q), X)
    BY <1>1, OccConcat
  <1> QED
    BY <1>1, <1>2, <1>3, OccOne

\* One element is taken out.
LEMMA OccRemoveAt ==
    ASSUME NEW S, NEW q \in Seq(S), NEW k \in 1..Len(q), NEW X
    PROVE  /\ RemoveAt(q, k) \in Seq(S) /\ q[k] \in S
           /\ Occ(q, X) = Occ(RemoveAt(q, k), X) + (IF q[k] \in X THEN 1 ELSE 0)
  <1> DEFINE a == SubSeq(q, 1, k - 1)
             b == SubSeq(q, k + 1, Len(q))
  <1>1. Len(q) \in Nat /\ k \in Int /\ \A i \in 1..Len(q) : q[i] \in S
    BY LenProperties, ElementOfSeq
  <1>2. a \in Seq(S) /\ b \in Seq(S) /\ <<q[k]>> \in Seq(S)
    <2>1. a \in Seq(S)
      BY <1>1, SubSeqProperties
    <2>2. b \in Seq(S)
      BY <1>1, SubSeqProperties
    <2> QED
      BY <2>1, <2>2, <1>1
  <1>3. q = (a \o <<q[k]>>) \o b
    <2>1. SubSeq(q, 1, k) = a \o <<q[k]>>
      BY <1>1, SubSeqRecursiveSecond
    <2>2. SubSeq(q, 1, k) \o b = SubSeq(q, 1, Len(q))
      BY <1>1, ConcatAdjacentSubSeq
    <2> QED
      BY <2>1, <2>2, SubSeqFull
  <1> HIDE DEF a, b
  <1>4. Occ((a \o <<q[k]>>) \o b, X) = Occ(a, X) + Occ(<<q[k]>>, X) + Occ(b, X)
    <2>1. a \o <<q[k]>> \in Seq(S)
      BY <1>2, ConcatProperties
    <2>2. Occ((a \o <<q[k]>>) \o b, X) = Occ(a \o <<q[k]>>, X) + Occ(b, X)
      BY <2>1, <1>2, OccConcat
    <2>3. Occ(a \o <<q[k]>>, X) = Occ(a, X) + Occ(<<q[k]>>, X)
      BY <1>2, OccConcat
    <2> QED
      BY <2>2, <2>3
  <1>5. RemoveAt(q, k) = a \o b
    BY DEF RemoveAt, a, b
  <1>6. a \o b \in Seq(S) /\ Occ(a \o b, X) = Occ(a, X) + Occ(b, X)
    BY <1>2, ConcatProperties, OccConcat
  <1>7. Occ(a, X) \in Nat /\ Occ(b, X) \in Nat
    BY <1>2, OccNat
  <1>8. Occ(q, X) = Occ(a, X) + Occ(<<q[k]>>, X) + Occ(b, X)
    BY <1>3, <1>4
  <1> QED
    BY <1>1, <1>5, <1>6, <1>7, <1>8, OccOne

-----------------------------------------------------------------------------
(* The function that Drop computes.                                        *)
IsKept(f, q, D, n) ==
    /\ f[0] = <<>>
    /\ \A i \in 1..n : f[i] = IF q[i] \in D THEN f[i - 1] ELSE Append(f[i - 1], q[i])

\* The recursion of Drop is well defined.
LEMMA DropRecursion ==
    ASSUME NEW S, NEW q \in Seq(S), NEW D
    PROVE  \E f : IsKept(f, q, D, Len(q)) /\ Drop(q, D) = f[Len(q)]
  <1> DEFINE N == Len(q)
             Step(f) == [i \in 0..N |-> IF i = 0 THEN <<>>
                                        ELSE IF q[i] \in D THEN f[i - 1] ELSE Append(f[i - 1], q[i])]
             T == {n \in Nat : \E f : IsKept(f, q, D, n)}
  <1>1. N \in Nat
    BY LenProperties
  <1>2. 0 \in T
    <2> DEFINE f == [i \in 0..0 |-> <<>>]
    <2>1. IsKept(f, q, D, 0)
      BY DEF IsKept
    <2> QED
      BY <2>1
  <1>3. ASSUME NEW n \in Nat, n \in T PROVE n + 1 \in T
    <2>1. PICK f : IsKept(f, q, D, n)
      BY <1>3
    <2> DEFINE g == [i \in 0..n + 1 |-> IF i = n + 1 THEN (IF q[n + 1] \in D THEN f[n] ELSE Append(f[n], q[n + 1]))
                                        ELSE f[i]]
    <2>2. \A i \in 0..n : g[i] = f[i]
      OBVIOUS
    <2>3. g[n + 1] = IF q[n + 1] \in D THEN f[n] ELSE Append(f[n], q[n + 1])
      OBVIOUS
    <2> HIDE DEF g
    <2>4. g[0] = <<>>
      BY <2>1, <2>2 DEF IsKept
    <2>5. ASSUME NEW i \in 1..n + 1
          PROVE  g[i] = IF q[i] \in D THEN g[i - 1] ELSE Append(g[i - 1], q[i])
      <3>1. CASE i = n + 1
        <4>1. i - 1 = n /\ n \in 0..n
          BY <3>1
        <4> QED
          BY <3>1, <4>1, <2>2, <2>3
      <3>2. CASE i # n + 1
        <4>1. i \in 1..n /\ i \in 0..n /\ i - 1 \in 0..n
          BY <3>2
        <4>2. f[i] = IF q[i] \in D THEN f[i - 1] ELSE Append(f[i - 1], q[i])
          BY <4>1, <2>1 DEF IsKept
        <4> QED
          BY <4>1, <4>2, <2>2
      <3> QED
        BY <3>1, <3>2
    <2>6. IsKept(g, q, D, n + 1)
      BY <2>4, <2>5 DEF IsKept
    <2> QED
      BY <2>6
  <1>4. Nat \subseteq T
    BY <1>2, <1>3, SetInduction
  <1>5. PICK f : IsKept(f, q, D, N)
    BY <1>1, <1>4
  <1> DEFINE h == [i \in 0..N |-> f[i]]
  <1>6. h = Step(h)
    <2>1. ASSUME NEW i \in 0..N PROVE h[i] = Step(h)[i]
      <3>1. CASE i = 0
        BY <3>1, <1>5 DEF IsKept
      <3>2. CASE i # 0
        <4>1. i \in 1..N /\ i - 1 \in 0..N
          BY <3>2, <1>1
        <4> QED
          BY <4>1, <3>2, <1>5 DEF IsKept
      <3> QED
        BY <3>1, <3>2
    <2> QED
      BY <2>1
  <1> DEFINE k == CHOOSE g : g = Step(g)
  <1>7. k = Step(k)
    BY <1>6
  <1>8. Drop(q, D) = k[N]
    BY DEF Drop
  <1> HIDE DEF k
  <1>9. IsKept(k, q, D, N)
    <2>1. ASSUME NEW i \in 0..N
          PROVE  k[i] = IF i = 0 THEN <<>> ELSE IF q[i] \in D THEN k[i - 1] ELSE Append(k[i - 1], q[i])
      BY <1>7
    <2>2. k[0] = <<>>
      BY <2>1, <1>1
    <2>3. ASSUME NEW i \in 1..N PROVE k[i] = IF q[i] \in D THEN k[i - 1] ELSE Append(k[i - 1], q[i])
      BY <2>1, <1>1
    <2> QED
      BY <2>2, <2>3 DEF IsKept
  <1> QED
    BY <1>8, <1>9

(* g places the elements of r in q, in the same order.                     *)
Embeds(g, r, q) ==
    /\ g \in [1..Len(r) -> 1..Len(q)]
    /\ \A i \in 1..Len(r) : r[i] = q[g[i]]
    /\ \A i, j \in 1..Len(r) : i < j => g[i] < g[j]

\* What is placed in a list that is placed in a third one is placed there.
LEMMA EmbedsTrans ==
    ASSUME NEW S, NEW r \in Seq(S), NEW q \in Seq(S), NEW p \in Seq(S),
           \E g : Embeds(g, r, q), \E g : Embeds(g, q, p)
    PROVE  \E g : Embeds(g, r, p)
  <1>1. PICK f : Embeds(f, r, q)
    OBVIOUS
  <1>2. PICK g : Embeds(g, q, p)
    OBVIOUS
  <1> DEFINE h == [i \in 1..Len(r) |-> g[f[i]]]
  <1>3. Len(r) \in Nat /\ Len(q) \in Nat /\ Len(p) \in Nat
    BY LenProperties
  <1>4. h \in [1..Len(r) -> 1..Len(p)] /\ \A i \in 1..Len(r) : r[i] = p[h[i]]
    BY <1>1, <1>2 DEF Embeds
  <1>5. ASSUME NEW i \in 1..Len(r), NEW j \in 1..Len(r), i < j PROVE h[i] < h[j]
    <2>1. f[i] < f[j] /\ f[i] \in 1..Len(q) /\ f[j] \in 1..Len(q)
      BY <1>1, <1>5 DEF Embeds
    <2> QED
      BY <2>1, <1>2 DEF Embeds
  <1>6. Embeds(h, r, p)
    BY <1>4, <1>5 DEF Embeds
  <1> QED
    BY <1>6

\* A list that has its place in another is not longer.
LEMMA EmbedsShorter ==
    ASSUME NEW S, NEW r \in Seq(S), NEW q \in Seq(S), NEW g, Embeds(g, r, q)
    PROVE  Len(r) <= Len(q)
  <1> DEFINE T == {n \in Nat : n \in 1..Len(r) => n <= g[n]}
  <1>1. Len(r) \in Nat /\ Len(q) \in Nat
    BY LenProperties
  <1>2. /\ \A i \in 1..Len(r) : g[i] \in 1..Len(q)
        /\ \A i, j \in 1..Len(r) : i < j => g[i] < g[j]
    BY DEF Embeds
  <1>3. 0 \in T
    OBVIOUS
  <1>4. ASSUME NEW n \in Nat, n \in T PROVE n + 1 \in T
    <2> SUFFICES ASSUME n + 1 \in 1..Len(r) PROVE n + 1 <= g[n + 1]
      OBVIOUS
    <2>1. CASE n = 0
      BY <2>1, <1>1, <1>2
    <2>2. CASE n # 0
      <3>1. n \in 1..Len(r) /\ n <= g[n]
        BY <2>2, <1>1, <1>4
      <3>2. g[n] < g[n + 1] /\ g[n] \in 1..Len(q) /\ g[n + 1] \in 1..Len(q)
        BY <3>1, <1>2
      <3> QED
        BY <3>1, <3>2, <1>1
    <2> QED
      BY <2>1, <2>2
  <1> HIDE DEF T
  <1>5. Nat \subseteq T
    BY <1>3, <1>4, SetInduction
  <1>6. Len(r) \in T
    BY <1>1, <1>5
  <1>7. CASE Len(r) = 0
    BY <1>7, <1>1
  <1>8. CASE Len(r) # 0
    <2>1. Len(r) \in 1..Len(r) /\ Len(r) <= g[Len(r)]
      BY <1>8, <1>1, <1>6 DEF T
    <2> QED
      BY <2>1, <1>1, <1>2
  <1> QED
    BY <1>7, <1>8

\* The end of a list has its place there.
LEMMA SuffixEmbeds ==
    ASSUME NEW S, NEW q \in Seq(S), NEW k \in 0..Len(q)
    PROVE  /\ SubSeq(q, k + 1, Len(q)) \in Seq(S)
           /\ \E g : Embeds(g, SubSeq(q, k + 1, Len(q)), q)
  <1> DEFINE r == SubSeq(q, k + 1, Len(q))
             g == [i \in 1..Len(q) - k |-> k + i]
  <1>1. Len(q) \in Nat /\ \A i \in 1..Len(q) : q[i] \in S
    BY LenProperties, ElementOfSeq
  <1>2. r \in Seq(S) /\ Len(r) = Len(q) - k /\ \A i \in 1..Len(q) - k : r[i] = q[k + i]
    BY <1>1, SubSeqProperties
  <1> HIDE DEF r
  <1>3. Embeds(g, r, q)
    BY <1>1, <1>2 DEF Embeds
  <1> QED
    BY <1>2, <1>3 DEF r

\* A list without one of its elements has its place there.
LEMMA RemoveAtEmbeds ==
    ASSUME NEW S, NEW q \in Seq(S), NEW k \in 1..Len(q)
    PROVE  /\ RemoveAt(q, k) \in Seq(S)
           /\ \E g : Embeds(g, RemoveAt(q, k), q)
           /\ \A i \in 1..Len(q) : i # k => \E j \in 1..Len(RemoveAt(q, k)) : RemoveAt(q, k)[j] = q[i]
  <1> DEFINE a == SubSeq(q, 1, k - 1)
             b == SubSeq(q, k + 1, Len(q))
             r == a \o b
             g == [i \in 1..Len(q) - 1 |-> IF i < k THEN i ELSE i + 1]
  <1>1. Len(q) \in Nat /\ k \in Int /\ \A i \in 1..Len(q) : q[i] \in S
    BY LenProperties, ElementOfSeq
  <1>2. a \in Seq(S) /\ Len(a) = k - 1 /\ \A i \in 1..k - 1 : a[i] = q[i]
    <2>1. k - 1 \in 0..Len(q)
      BY <1>1
    <2> QED
      BY <2>1, PrefixFacts
  <1>3. b \in Seq(S) /\ Len(b) = Len(q) - k /\ \A i \in 1..Len(q) - k : b[i] = q[k + i]
    BY <1>1, SubSeqProperties
  <1> HIDE DEF a, b
  <1>4. r \in Seq(S)
    BY <1>2, <1>3, ConcatProperties
  <1>5. Len(r) = Len(q) - 1
    <2>1. Len(r) = Len(a) + Len(b)
      BY <1>2, <1>3, ConcatProperties
    <2> QED
      BY <2>1, <1>1, <1>2, <1>3
  <1>6. \A i \in 1..Len(r) : r[i] = IF i <= Len(a) THEN a[i] ELSE b[i - Len(a)]
    BY <1>2, <1>3, ConcatProperties
  <1> HIDE DEF r
  <1>7. ASSUME NEW i \in 1..Len(q) - 1 PROVE r[i] = q[g[i]]
    <2>1. CASE i < k
      BY <2>1, <1>1, <1>2, <1>5, <1>6
    <2>2. CASE ~ (i < k)
      <3>1. i - (k - 1) \in 1..Len(q) - k /\ k + (i - (k - 1)) = i + 1
        BY <2>2, <1>1
      <3>2. r[i] = b[i - (k - 1)]
        BY <2>2, <1>1, <1>2, <1>5, <1>6
      <3>3. b[i - (k - 1)] = q[k + (i - (k - 1))]
        BY <3>1, <1>3
      <3> QED
        BY <2>2, <3>1, <3>2, <3>3
    <2> QED
      BY <2>1, <2>2
  <1>8. Embeds(g, r, q)
    <2>1. g \in [1..Len(r) -> 1..Len(q)]
      BY <1>1, <1>5
    <2>2. \A i, j \in 1..Len(r) : i < j => g[i] < g[j]
      BY <1>1, <1>5
    <2> QED
      BY <2>1, <2>2, <1>5, <1>7 DEF Embeds
  <1>9. ASSUME NEW i \in 1..Len(q), i # k PROVE \E j \in 1..Len(r) : r[j] = q[i]
    <2> DEFINE j == IF i < k THEN i ELSE i - 1
    <2>1. j \in 1..Len(q) - 1 /\ g[j] = i
      BY <1>1, <1>9
    <2> QED
      BY <2>1, <1>5, <1>7
  <1>10. RemoveAt(q, k) = r
    BY DEF RemoveAt, r, a, b
  <1> QED
    BY <1>4, <1>8, <1>9, <1>10

\* What is left is a list of the same elements, each as often as before, in the same order.
LEMMA DropFacts ==
    ASSUME NEW S, NEW q \in Seq(S), NEW D
    PROVE  /\ Drop(q, D) \in Seq(S)
           /\ \A X : Occ(Drop(q, D), X) = Occ(q, X \ D)
           /\ \E g : Embeds(g, Drop(q, D), q)
  <1>1. PICK f : IsKept(f, q, D, Len(q)) /\ Drop(q, D) = f[Len(q)]
    BY DropRecursion
  <1>2. Len(q) \in Nat
    BY LenProperties
  <1> DEFINE P(n) == LET p == SubSeq(q, 1, n) IN
                     /\ f[n] \in Seq(S) /\ \A X : Occ(f[n], X) = Occ(p, X \ D) /\ \E g : Embeds(g, f[n], p)
             T == {n \in Nat : n <= Len(q) => P(n)}
  <1>3. 0 \in T
    <2>1. f[0] = <<>> /\ SubSeq(q, 1, 0) = <<>>
      BY <1>1, SubSeqEmpty DEF IsKept
    <2>2. <<>> \in Seq(S) /\ Len(<<>>) = 0
      BY EmptySeq
    <2>3. \A X : Occ(<<>>, X) = 0
      BY OccOne
    <2>4. Embeds([i \in 1..0 |-> i], <<>>, <<>>)
      BY <2>2 DEF Embeds
    <2>5. P(0)
      BY <2>1, <2>2, <2>3, <2>4
    <2> QED
      BY <2>5
  <1>4. ASSUME NEW n \in Nat, n \in T PROVE n + 1 \in T
    <2> SUFFICES ASSUME n + 1 <= Len(q) PROVE P(n + 1)
      OBVIOUS
    <2> DEFINE p == SubSeq(q, 1, n)
               r == SubSeq(q, 1, n + 1)
               e == q[n + 1]
    <2>1. P(n)
      <3> HIDE DEF P
      <3>1. n <= Len(q)
        BY <1>2
      <3> QED
        BY <3>1, <1>4
    <2>2. n + 1 \in 1..Len(q) /\ n \in 0..Len(q) /\ n + 1 \in 0..Len(q) /\ 1 \in 1..Len(q) /\ n + 1 \in 1..n + 1
      BY <1>2
    <2>3. e \in S /\ p \in Seq(S) /\ Len(p) = n /\ r \in Seq(S) /\ Len(r) = n + 1
      BY <2>2, ElementOfSeq, PrefixFacts
    <2>4. (\A i \in 1..n : p[i] = q[i]) /\ \A i \in 1..n + 1 : r[i] = q[i]
      BY <2>2, PrefixFacts
    <2>5. r = Append(p, e)
      <3>1. r = SubSeq(q, 1, n + 1 - 1) \o <<e>>
        BY <2>2, SubSeqRecursiveSecond
      <3>2. n + 1 - 1 = n /\ Append(p, e) = p \o <<e>>
        BY <2>3, AppendIsConcat
      <3> QED
        BY <3>1, <3>2
    <2>6. f[n + 1] = IF e \in D THEN f[n] ELSE Append(f[n], e)
      <3>1. n + 1 - 1 = n
        OBVIOUS
      <3> QED
        BY <3>1, <2>2, <1>1 DEF IsKept
    <2>7. PICK g : Embeds(g, f[n], p)
      BY <2>1
    <2>8. f[n] \in Seq(S) /\ Len(f[n]) \in Nat /\ \A X : Occ(f[n], X) = Occ(p, X \ D)
      BY <2>1, LenProperties
    <2> HIDE DEF p, r, e, P
    <2>9. \A X : Occ(r, X \ D) = Occ(p, X \ D) + (IF e \in X \ D THEN 1 ELSE 0)
      BY <2>3, <2>5, OccAppend
    <2>10. CASE e \in D
      <3>1. \A X : Occ(f[n + 1], X) = Occ(r, X \ D)
        <4> SUFFICES ASSUME NEW X PROVE Occ(f[n + 1], X) = Occ(r, X \ D)
          OBVIOUS
        <4>1. Occ(r, X \ D) = Occ(p, X \ D) + 0
          BY <2>9, <2>10
        <4>2. Occ(p, X \ D) \in Nat
          BY <2>3, OccNat
        <4> QED
          BY <4>1, <4>2, <2>6, <2>8, <2>10
      <3>2. Embeds(g, f[n], r)
        <4>1. g \in [1..Len(f[n]) -> 1..Len(r)]
          BY <2>3, <2>7, <2>8 DEF Embeds
        <4>2. \A i \in 1..Len(f[n]) : g[i] \in 1..n /\ f[n][i] = p[g[i]]
          BY <2>3, <2>7 DEF Embeds
        <4>3. \A k \in 1..n : k \in 1..n + 1
          OBVIOUS
        <4>4. \A i \in 1..Len(f[n]) : f[n][i] = r[g[i]]
          BY <4>2, <4>3, <2>4
        <4> QED
          BY <4>1, <4>4, <2>7 DEF Embeds
      <3> QED
        BY <3>1, <3>2, <2>6, <2>8, <2>10 DEF P, r
    <2>11. CASE e \notin D
      <3> DEFINE u == Append(f[n], e)
                 h == [i \in 1..Len(f[n]) + 1 |-> IF i = Len(f[n]) + 1 THEN n + 1 ELSE g[i]]
      <3>1. /\ u \in Seq(S) /\ Len(u) = Len(f[n]) + 1
            /\ \A i \in 1..Len(f[n]) : u[i] = f[n][i]
            /\ u[Len(f[n]) + 1] = e
        BY <2>3, <2>8, AppendProperties
      <3>2. \A X : Occ(u, X) = Occ(r, X \ D)
        <4> SUFFICES ASSUME NEW X PROVE Occ(u, X) = Occ(r, X \ D)
          OBVIOUS
        <4>1. Occ(u, X) = Occ(f[n], X) + (IF e \in X THEN 1 ELSE 0)
          BY <2>3, <2>8, OccAppend
        <4>2. e \in X \ D <=> e \in X
          BY <2>11
        <4> QED
          BY <4>1, <4>2, <2>8, <2>9
      <3>3. ASSUME NEW i \in 1..Len(f[n]) PROVE h[i] = g[i] /\ g[i] \in 1..n
        <4>1. i \in 1..Len(f[n]) + 1 /\ i # Len(f[n]) + 1
          BY <2>8
        <4>2. g[i] \in 1..Len(p)
          BY <2>7 DEF Embeds
        <4> QED
          BY <4>1, <4>2, <2>3
      <3>4. h[Len(f[n]) + 1] = n + 1
        BY <2>8
      <3>5. h \in [1..Len(u) -> 1..Len(r)]
        <4>1. ASSUME NEW i \in 1..Len(f[n]) + 1 PROVE h[i] \in 1..n + 1
          <5>1. i = Len(f[n]) + 1 \/ i \in 1..Len(f[n])
            BY <2>8
          <5>2. \A k \in 1..n : k \in 1..n + 1
            OBVIOUS
          <5> QED
            BY <5>1, <5>2, <3>3, <3>4, <2>2
        <4>2. Len(u) = Len(f[n]) + 1 /\ Len(r) = n + 1
          BY <3>1, <2>3
        <4> HIDE DEF u
        <4> QED
          BY <4>1, <4>2
      <3> HIDE DEF h, u
      <3>6. ASSUME NEW i \in 1..Len(u) PROVE u[i] = r[h[i]]
        <4>1. CASE i = Len(f[n]) + 1
          BY <4>1, <3>1, <3>4, <2>2, <2>4 DEF e
        <4>2. CASE i # Len(f[n]) + 1
          <5>1. i \in 1..Len(f[n])
            BY <4>2, <3>1, <2>8
          <5>2. f[n][i] = p[g[i]] /\ g[i] \in 1..n
            BY <5>1, <2>3, <2>7 DEF Embeds
          <5>3. \A k \in 1..n : k \in 1..n + 1
            OBVIOUS
          <5> QED
            BY <5>1, <5>2, <5>3, <3>1, <3>3, <2>4
        <4> QED
          BY <4>1, <4>2
      <3>7. ASSUME NEW i \in 1..Len(u), NEW j \in 1..Len(u), i < j PROVE h[i] < h[j]
        <4>1. i \in 1..Len(f[n])
          BY <3>7, <3>1, <2>8
        <4>2. CASE j = Len(f[n]) + 1
          BY <4>1, <4>2, <3>3, <3>4
        <4>3. CASE j # Len(f[n]) + 1
          <5>1. j \in 1..Len(f[n])
            BY <4>3, <3>1, <2>8
          <5> QED
            BY <5>1, <4>1, <3>3, <3>7, <2>7 DEF Embeds
        <4> QED
          BY <4>2, <4>3
      <3>8. Embeds(h, u, r)
        BY <3>5, <3>6, <3>7 DEF Embeds
      <3> QED
        BY <3>1, <3>2, <3>8, <2>6, <2>11 DEF P, r, u
    <2> QED
      BY <2>10, <2>11
  <1>5. Nat \subseteq T
    <2> HIDE DEF T
    <2> QED
      BY <1>3, <1>4, SetInduction
  <1>6. P(Len(q))
    <2> HIDE DEF P
    <2> QED
      BY <1>2, <1>5
  <1>7. SubSeq(q, 1, Len(q)) = q
    BY SubSeqFull
  <1> QED
    BY <1>1, <1>6, <1>7

\* Every element that is not removed has its place in what is left, and nothing else has one.
LEMMA DropPlaces ==
    ASSUME NEW S, NEW q \in Seq(S), NEW D
    PROVE  \E g : /\ Embeds(g, Drop(q, D), q)
                  /\ \A j \in 1..Len(Drop(q, D)) : q[g[j]] \notin D
                  /\ \A i \in 1..Len(q) : q[i] \notin D => \E j \in 1..Len(Drop(q, D)) : g[j] = i
  <1> DEFINE r == Drop(q, D)
             A == {i \in DOMAIN q : q[i] \in S \ D}
  <1>1. r \in Seq(S) /\ \A X : Occ(r, X) = Occ(q, X \ D)
    BY DropFacts
  <1>2. PICK g : Embeds(g, r, q)
    BY DropFacts
  <1> HIDE DEF r
  <1>3. DOMAIN q = 1..Len(q) /\ DOMAIN r = 1..Len(r) /\ Len(r) \in Nat
    BY <1>1, LenProperties
  <1>4. ASSUME NEW j \in 1..Len(r) PROVE g[j] \in 1..Len(q) /\ r[j] = q[g[j]] /\ q[g[j]] \in S \ D
    <2>1. Occ(r, D) = Occ(q, D \ D) /\ D \ D = {} /\ Occ(q, {}) = 0
      BY <1>1, OccNat
    <2>2. r[j] \notin D
      BY <2>1, <1>1, <1>3, OccNat
    <2>3. g[j] \in 1..Len(q) /\ r[j] = q[g[j]]
      BY <1>2 DEF Embeds
    <2> QED
      BY <2>2, <2>3, ElementOfSeq
  <1>5. Cardinality(1..Len(r)) = Len(r)
    <2>1. 1 \in Int /\ Len(r) \in Int
      BY <1>3
    <2>2. Cardinality(1..Len(r)) = IF 1 > Len(r) THEN 0 ELSE Len(r) - 1 + 1
      BY <2>1, FS_Interval
    <2> QED
      BY <2>2, <1>3
  <1>7. IsFiniteSet(A) /\ Cardinality(A) = Len(r)
    <2>1. IsFiniteSet(A) /\ Cardinality(A) = Occ(r, S)
      BY <1>1, OccNat DEF Occ
    <2>2. {i \in DOMAIN r : r[i] \in S} = 1..Len(r)
      BY <1>1, <1>3, ElementOfSeq
    <2> QED
      BY <2>1, <2>2, <1>5 DEF Occ
  <1>6. g \in Injection(1..Len(r), A)
    <2>1. g \in [1..Len(r) -> A]
      BY <1>2, <1>3, <1>4 DEF Embeds
    <2>2. ASSUME NEW i \in 1..Len(r), NEW j \in 1..Len(r), i # j PROVE g[i] # g[j]
      <3>1. i < j \/ j < i
        BY <2>2
      <3>2. g[i] < g[j] \/ g[j] < g[i]
        BY <3>1, <1>2 DEF Embeds
      <3> QED
        BY <3>2, <1>4
    <2> QED
      BY <2>1, <2>2 DEF Injection, IsInjective
  <1>8. g \in Surjection(1..Len(r), A)
    <2> HIDE DEF A
    <2> QED
      BY <1>5, <1>6, <1>7, FS_Injection
  <1>9. ASSUME NEW i \in 1..Len(q), q[i] \notin D PROVE \E j \in 1..Len(r) : g[j] = i
    <2>1. i \in A
      BY <1>3, <1>9, ElementOfSeq
    <2> QED
      BY <2>1, <1>8 DEF Surjection
  <1> QED
    BY <1>2, <1>4, <1>9 DEF r

\* All elements are removed.
LEMMA DropAll ==
    ASSUME NEW S, NEW q \in Seq(S), NEW D, \A i \in 1..Len(q) : q[i] \in D
    PROVE  Drop(q, D) = <<>>
  <1>1. PICK g : /\ Embeds(g, Drop(q, D), q)
                 /\ \A j \in 1..Len(Drop(q, D)) : q[g[j]] \notin D
    BY DropPlaces
  <1>2. Drop(q, D) \in Seq(S) /\ Len(Drop(q, D)) \in Nat
    BY DropFacts, LenProperties
  <1>3. \A j \in 1..Len(Drop(q, D)) : g[j] \in 1..Len(q)
    BY <1>1 DEF Embeds
  <1>4. Len(Drop(q, D)) = 0
    BY <1>1, <1>2, <1>3
  <1> QED
    BY <1>2, <1>4, EmptySeq

\* All but one element are removed.
LEMMA DropButOne ==
    ASSUME NEW S, NEW q \in Seq(S), NEW D, NEW k \in 1..Len(q), q[k] \notin D,
           \A i \in 1..Len(q) : i # k => q[i] \in D
    PROVE  Drop(q, D) = <<q[k]>>
  <1> DEFINE r == Drop(q, D)
  <1>1. PICK g : /\ Embeds(g, r, q)
                 /\ \A j \in 1..Len(r) : q[g[j]] \notin D
                 /\ \A i \in 1..Len(q) : q[i] \notin D => \E j \in 1..Len(r) : g[j] = i
    BY DropPlaces
  <1>2. r \in Seq(S) /\ Len(r) \in Nat /\ DOMAIN r = 1..Len(r)
    BY DropFacts, LenProperties
  <1> HIDE DEF r
  <1>3. /\ \A j \in 1..Len(r) : g[j] \in 1..Len(q) /\ r[j] = q[g[j]]
        /\ \A i, j \in 1..Len(r) : i < j => g[i] < g[j]
    BY <1>1 DEF Embeds
  <1>4. \A j \in 1..Len(r) : g[j] = k
    BY <1>1, <1>3
  <1>5. \E j \in 1..Len(r) : g[j] = k
    BY <1>1
  <1>6. Len(r) = 1
    <2>1. ASSUME 2 <= Len(r) PROVE FALSE
      <3>1. 1 \in 1..Len(r) /\ 2 \in 1..Len(r) /\ k \in Int
        BY <1>2, <2>1
      <3>2. g[1] < g[2] /\ g[1] = k /\ g[2] = k
        BY <3>1, <1>3, <1>4
      <3> QED
        BY <3>1, <3>2
    <2> QED
      BY <2>1, <1>2, <1>5
  <1>7. r[1] = q[k]
    BY <1>3, <1>4, <1>6
  <1>8. <<q[k]>> \in Seq(S) /\ Len(<<q[k]>>) = 1 /\ <<q[k]>>[1] = q[k]
    BY ElementOfSeq
  <1> QED
    BY <1>2, <1>6, <1>7, <1>8, SeqEqual DEF r

\* An increasing list of numbers without a gap above L counts up from L.
LEMMA Staircase ==
    ASSUME NEW n \in Nat, NEW a \in [1..n -> Nat], NEW L \in Nat,
           \A i \in 1..n : a[i] >= L,
           \A i, j \in 1..n : i < j => a[i] < a[j],
           \A i \in 1..n : \A p \in L..a[i] : \E j \in 1..n : a[j] = p
    PROVE  \A i \in 1..n : a[i] = L + i - 1
  <1> SUFFICES ASSUME NEW i0 \in 1..n, a[i0] # L + i0 - 1 PROVE FALSE
    OBVIOUS
  <1> DEFINE T == {i \in 1..n : a[i] # L + i - 1}
  <1>1. PICK k \in T : \A m \in T : k <= m
    <2>1. T \subseteq Nat
      OBVIOUS
    <2>2. i0 \in T
      OBVIOUS
    <2> HIDE DEF T
    <2> QED
      BY <2>1, <2>2, LeastNat
  <1>2. k \in 1..n /\ a[k] # L + k - 1 /\ \A j \in 1..n : j < k => a[j] = L + j - 1
    BY <1>1
  <1>3. a[k] \in Nat /\ a[k] >= L
    BY <1>2
  <1>4. a[k] > L + k - 1
    <2>1. CASE k = 1
      BY <2>1, <1>2, <1>3
    <2>2. CASE k > 1
      <3>1. k - 1 \in 1..n /\ k - 1 < k
        BY <2>2, <1>2
      <3>2. a[k - 1] < a[k] /\ a[k - 1] = L + (k - 1) - 1
        BY <3>1, <1>2
      <3> QED
        BY <3>2, <1>2, <1>3, SMTT(20)
    <2> QED
      BY <2>1, <2>2, <1>2
  <1>5. PICK j \in 1..n : a[j] = L + k - 1
    <2>1. L + k - 1 \in L..a[k]
      BY <1>2, <1>3, <1>4
    <2> QED
      BY <2>1, <1>2
  <1>6. CASE j < k
    BY <1>2, <1>5, <1>6
  <1>7. CASE j = k
    BY <1>2, <1>5, <1>7
  <1>8. CASE k < j
    <2>1. a[k] < a[j]
      BY <1>2, <1>8
    <2> QED
      BY <2>1, <1>2, <1>3, <1>4, <1>5
  <1> QED
    BY <1>2, <1>6, <1>7, <1>8


-----------------------------------------------------------------------------
(* Prefixes.                                                               *)

\* A set of numbers up to a bound has its maximum and its minimum.
LEMMA Extremes ==
    ASSUME NEW b \in Nat, NEW T, T \subseteq 0..b, T # {}
    PROVE  /\ Max(T) \in T /\ \A y \in T : y <= Max(T)
           /\ Min(T) \in T /\ \A y \in T : Min(T) <= y
  <1>1. \E x \in T : \A y \in T : y <= x
    BY GreatestNat
  <1>2. \E x \in T : \A y \in T : x >= y
    BY <1>1
  <1>3. T \subseteq Nat
    OBVIOUS
  <1>4. \E x \in T : \A y \in T : x <= y
    BY <1>3, LeastNat
  <1>5. Max(T) \in T /\ \A y \in T : Max(T) >= y
    BY <1>2 DEF Max
  <1>6. Min(T) \in T /\ \A y \in T : Min(T) <= y
    BY <1>4 DEF Min
  <1> QED
    BY <1>5, <1>6

\* Two texts have the same beginnings when they have the same tokens.
LEMMA SamePrefix ==
    ASSUME NEW S, NEW p \in Seq(S), NEW q \in Seq(S), NEW n \in 0..Len(p), n <= Len(q)
    PROVE  SubSeq(p, 1, n) = SubSeq(q, 1, n) <=> \A i \in 1..n : p[i] = q[i]
  <1>1. Len(p) \in Nat /\ Len(q) \in Nat /\ n \in 0..Len(q)
    BY LenProperties
  <1>2. /\ SubSeq(p, 1, n) \in Seq(S) /\ Len(SubSeq(p, 1, n)) = n
        /\ \A i \in 1..n : SubSeq(p, 1, n)[i] = p[i]
    BY PrefixFacts
  <1>3. /\ SubSeq(q, 1, n) \in Seq(S) /\ Len(SubSeq(q, 1, n)) = n
        /\ \A i \in 1..n : SubSeq(q, 1, n)[i] = q[i]
    BY <1>1, PrefixFacts
  <1> DEFINE a == SubSeq(p, 1, n)
             b == SubSeq(q, 1, n)
  <1> HIDE DEF a, b
  <1>4. a \in Seq(S) /\ Len(a) = n /\ \A i \in 1..n : a[i] = p[i]
    BY <1>2 DEF a
  <1>5. b \in Seq(S) /\ Len(b) = n /\ \A i \in 1..n : b[i] = q[i]
    BY <1>3 DEF b
  <1>6. ASSUME a = b, NEW i \in 1..n PROVE p[i] = q[i]
    BY <1>4, <1>5, <1>6
  <1>7. ASSUME \A i \in 1..n : p[i] = q[i] PROVE a = b
    BY <1>4, <1>5, <1>7, SeqEqual
  <1> QED
    BY <1>6, <1>7 DEF a, b

\* A prefix has the same tokens.
LEMMA PrefixTokens ==
    ASSUME NEW S, NEW p \in Seq(S), NEW q \in Seq(S)
    PROVE  IsPrefix(p, q) <=> Len(p) <= Len(q) /\ \A i \in 1..Len(p) : p[i] = q[i]
  <1>1. Len(p) \in Nat /\ Len(p) \in 0..Len(p)
    BY LenProperties
  <1> QED
    BY <1>1, SamePrefix DEF IsPrefix

\* What extends a text that extends a third one extends that.
LEMMA PrefixTrans ==
    ASSUME NEW S, NEW p \in Seq(S), NEW q \in Seq(S), NEW t \in Seq(S), IsPrefix(p, q), IsPrefix(q, t)
    PROVE  IsPrefix(p, t)
  <1>1. Len(p) \in Nat /\ Len(q) \in Nat /\ Len(t) \in Nat
    BY LenProperties
  <1>2. Len(p) <= Len(q) /\ \A i \in 1..Len(p) : p[i] = q[i]
    BY PrefixTokens
  <1>3. Len(q) <= Len(t) /\ \A i \in 1..Len(q) : q[i] = t[i]
    BY PrefixTokens
  <1>4. Len(p) <= Len(t) /\ \A i \in 1..Len(p) : p[i] = t[i]
    BY <1>1, <1>2, <1>3
  <1> QED
    BY <1>4, PrefixTokens

-----------------------------------------------------------------------------
(* Parts of lists, and lists that are joined.                              *)

\* A part of a list.
LEMMA Slice ==
    ASSUME NEW S, NEW s \in Seq(S), NEW i \in Nat, NEW n \in Nat, i + n <= Len(s)
    PROVE  /\ SubSeq(s, i + 1, i + n) \in Seq(S)
           /\ Len(SubSeq(s, i + 1, i + n)) = n
           /\ \A j \in 1..n : SubSeq(s, i + 1, i + n)[j] = s[i + j]
  <1>1. Len(s) \in Nat
    BY LenProperties
  <1>2. \A j \in i + 1..i + n : s[j] \in S
    BY <1>1, ElementOfSeq
  <1>3. /\ SubSeq(s, i + 1, i + n) \in Seq(S)
        /\ Len(SubSeq(s, i + 1, i + n)) = IF i + 1 <= i + n THEN i + n - (i + 1) + 1 ELSE 0
        /\ \A j \in 1..i + n - (i + 1) + 1 : SubSeq(s, i + 1, i + n)[j] = s[i + 1 + j - 1]
    BY <1>2, SubSeqProperties
  <1>4. Len(SubSeq(s, i + 1, i + n)) = n
    BY <1>3
  <1>5. ASSUME NEW j \in 1..n PROVE j \in 1..i + n - (i + 1) + 1 /\ i + 1 + j - 1 = i + j
    OBVIOUS
  <1> QED
    BY <1>3, <1>4, <1>5

\* What follows the first i elements.
LEMMA Suffix ==
    ASSUME NEW S, NEW s \in Seq(S), NEW i \in 0..Len(s)
    PROVE  /\ SubSeq(s, i + 1, Len(s)) \in Seq(S)
           /\ Len(SubSeq(s, i + 1, Len(s))) = Len(s) - i
           /\ \A j \in 1..Len(s) - i : SubSeq(s, i + 1, Len(s))[j] = s[i + j]
  <1>1. Len(s) \in Nat /\ i \in Nat /\ Len(s) - i \in Nat /\ i + (Len(s) - i) = Len(s)
    BY LenProperties
  <1> DEFINE n == Len(s) - i
  <1>2. n \in Nat /\ i + n = Len(s) /\ i + n <= Len(s)
    BY <1>1
  <1> HIDE DEF n
  <1>3. /\ SubSeq(s, i + 1, i + n) \in Seq(S)
        /\ Len(SubSeq(s, i + 1, i + n)) = n
        /\ \A j \in 1..n : SubSeq(s, i + 1, i + n)[j] = s[i + j]
    BY <1>1, <1>2, Slice
  <1> QED
    BY <1>2, <1>3 DEF n

\* Two lists one after the other.
LEMMA Both ==
    ASSUME NEW S, NEW s \in Seq(S), NEW t \in Seq(S)
    PROVE  /\ s \o t \in Seq(S) /\ Len(s \o t) = Len(s) + Len(t)
           /\ Len(s) \in Nat /\ Len(t) \in Nat
           /\ \A i \in 1..Len(s) : (s \o t)[i] = s[i]
           /\ \A i \in 1..Len(t) : (s \o t)[Len(s) + i] = t[i]
  <1>1. Len(s) \in Nat /\ Len(t) \in Nat
    BY LenProperties
  <1>2. /\ s \o t \in Seq(S) /\ Len(s \o t) = Len(s) + Len(t)
        /\ \A i \in 1..Len(s) + Len(t) : (s \o t)[i] = IF i <= Len(s) THEN s[i] ELSE t[i - Len(s)]
    BY ConcatProperties
  <1>3. ASSUME NEW i \in 1..Len(s) PROVE (s \o t)[i] = s[i]
    BY <1>1, <1>2
  <1>4. ASSUME NEW i \in 1..Len(t) PROVE (s \o t)[Len(s) + i] = t[i]
    <2>1. Len(s) + i \in 1..Len(s) + Len(t) /\ ~ (Len(s) + i <= Len(s)) /\ Len(s) + i - Len(s) = i
      BY <1>1
    <2> QED
      BY <2>1, <1>2
  <1> QED
    BY <1>1, <1>2, <1>3, <1>4

\* A list that begins with another one and goes on with a third one.
LEMMA Continued ==
    ASSUME NEW S, NEW s \in Seq(S), NEW t \in Seq(S), NEW r \in Seq(S),
           Len(r) = Len(s) + Len(t),
           \A i \in 1..Len(s) : r[i] = s[i],
           \A i \in 1..Len(t) : r[Len(s) + i] = t[i]
    PROVE  r = s \o t
  <1> DEFINE q == s \o t
  <1>1. /\ q \in Seq(S) /\ Len(q) = Len(s) + Len(t) /\ Len(s) \in Nat /\ Len(t) \in Nat
        /\ \A i \in 1..Len(s) : q[i] = s[i]
        /\ \A i \in 1..Len(t) : q[Len(s) + i] = t[i]
    BY Both
  <1> HIDE DEF q
  <1>2. ASSUME NEW i \in 1..Len(r) PROVE r[i] = q[i]
    <2>1. CASE i <= Len(s)
      BY <2>1, <1>1
    <2>2. CASE ~ (i <= Len(s))
      <3>1. i - Len(s) \in 1..Len(t) /\ Len(s) + (i - Len(s)) = i
        BY <2>2, <1>1
      <3> QED
        BY <3>1, <1>1
    <2> QED
      BY <2>1, <2>2
  <1>3. r = q
    BY <1>1, <1>2, SeqEqual
  <1> QED
    BY <1>3 DEF q

\* One list is itself, joined with others.
LEMMA FlattenFacts ==
    /\ FlattenSeq(<<>>) = <<>>
    /\ \A x : FlattenSeq(<<x>>) = x
  <1>1. FlattenSeq(<<>>) = <<>>
    BY DEF FlattenSeq
  <1>2. ASSUME NEW x PROVE FlattenSeq(<<x>>) = x
    <2> DEFINE s == <<x>>
               Step(f) == [i \in 1..1 |-> IF i = 1 THEN s[i] ELSE f[i - 1] \o s[i]]
    <2>1. Len(s) = 1 /\ s[1] = x
      OBVIOUS
    <2> HIDE DEF s
    <2> DEFINE g == [i \in 1..1 |-> x]
    <2>2. g = Step(g)
      BY <2>1
    <2>3. PICK k : k = (CHOOSE f : f = Step(f)) /\ k = Step(k)
      BY <2>2
    <2>4. k[1] = x
      BY <2>1, <2>3
    <2>5. FlattenSeq(s) = k[1]
      BY <2>1, <2>3 DEF FlattenSeq
    <2> QED
      BY <2>4, <2>5 DEF s
  <1> QED
    BY <1>1, <1>2

(* Joining with nothing.                                                   *)
LEMMA Nil ==
    /\ \A x : <<>> \o <<x>> = <<x>> /\ <<x>> \o <<>> = <<x>>
    /\ \A x, y : <<>> \o <<x, y>> = <<x, y>> /\ <<x, y>> \o <<>> = <<x, y>> /\ <<x>> \o <<y>> = <<x, y>>
    /\ <<>> \o <<>> = <<>>
  <1>1. ASSUME NEW x PROVE <<>> \o <<x>> = <<x>> /\ <<x>> \o <<>> = <<x>>
    <2>1. <<x>> \in Seq({x})
      OBVIOUS
    <2> QED
      BY <2>1, ConcatEmptySeq
  <1>2. ASSUME NEW x, NEW y PROVE <<>> \o <<x, y>> = <<x, y>> /\ <<x, y>> \o <<>> = <<x, y>> /\ <<x>> \o <<y>> = <<x, y>>
    <2>1. <<x, y>> \in Seq({x, y})
      OBVIOUS
    <2>2. <<x>> \o <<y>> = <<x, y>>
      <3>1. <<x>> \in Seq({x, y}) /\ Append(<<x>>, y) = <<x, y>>
        <4>1. <<x>> \in Seq({x, y}) /\ Len(<<x>>) = 1 /\ <<x>>[1] = x
          OBVIOUS
        <4>2. Append(<<x>>, y) \in Seq({x, y}) /\ Len(Append(<<x>>, y)) = 2 /\ Append(<<x>>, y)[1] = x /\ Append(<<x>>, y)[2] = y
          BY <4>1, AppendProperties
        <4>3. <<x, y>> \in Seq({x, y}) /\ Len(<<x, y>>) = 2 /\ <<x, y>>[1] = x /\ <<x, y>>[2] = y
          OBVIOUS
        <4> DEFINE a == Append(<<x>>, y)
                   b == <<x, y>>
        <4>4. ASSUME NEW i \in 1..2 PROVE a[i] = b[i]
          BY <4>2, <4>3
        <4> HIDE DEF a, b
        <4>5. a = b
          BY <4>2, <4>3, <4>4, SeqEqual DEF a, b
        <4> QED
          BY <4>1, <4>5 DEF a, b
      <3> QED
        BY <3>1, AppendIsConcat
    <2> QED
      BY <2>1, <2>2, ConcatEmptySeq
  <1>4. <<>> \o <<>> = <<>>
    OBVIOUS
  <1> QED
    BY <1>1, <1>2, <1>4

\* A list of three from its parts.
LEMMA Three == \A E : \A x, y, v \in E : <<x, y>> \o <<v>> = <<x, y, v>>
  <1> SUFFICES ASSUME NEW E, NEW x \in E, NEW y \in E, NEW v \in E PROVE <<x, y>> \o <<v>> = <<x, y, v>>
    OBVIOUS
  <1>1. PICK a, b, c : a = <<x, y>> /\ b = <<v>> /\ c = <<x, y, v>>
    OBVIOUS
  <1>2. a \in Seq(E) /\ Len(a) = 2 /\ a[1] = x /\ a[2] = y
    BY <1>1
  <1>3. b \in Seq(E) /\ Len(b) = 1 /\ b[1] = v
    BY <1>1
  <1>4. c \in Seq(E) /\ Len(c) = 3 /\ c[1] = x /\ c[2] = y /\ c[3] = v
    BY <1>1
  <1>5. PICK d : d = a \o b
    OBVIOUS
  <1>6. d \in Seq(E) /\ Len(d) = 3 /\ d[1] = a[1] /\ d[2] = a[2] /\ d[3] = b[1]
    <2>1. /\ a \o b \in Seq(E) /\ Len(a \o b) = Len(a) + Len(b)
          /\ \A i \in 1..Len(a) + Len(b) : (a \o b)[i] = IF i <= Len(a) THEN a[i] ELSE b[i - Len(a)]
      BY <1>2, <1>3, ConcatProperties
    <2>2. d \in Seq(E) /\ Len(d) = 2 + 1 /\ \A i \in 1..2 + 1 : d[i] = IF i <= 2 THEN a[i] ELSE b[i - 2]
      BY <2>1, <1>2, <1>3, <1>5
    <2>3. 1 \in 1..2 + 1 /\ 2 \in 1..2 + 1 /\ 3 \in 1..2 + 1 /\ 1 <= 2 /\ 2 <= 2 /\ ~ (3 <= 2) /\ 3 - 2 = 1 /\ 2 + 1 = 3
      OBVIOUS
    <2> QED
      BY <2>2, <2>3
  <1>7. \A i \in 1..3 : d[i] = c[i]
    <2>1. \A i \in 1..3 : i = 1 \/ i = 2 \/ i = 3
      OBVIOUS
    <2> QED
      BY <2>1, <1>2, <1>3, <1>4, <1>6
  <1>8. d = c
    BY <1>4, <1>6, <1>7, SeqEqual
  <1> QED
    BY <1>1, <1>5, <1>8

\* Lists of one element each make up the list of the elements.
LEMMA JoinOnes ==
    ASSUME NEW n \in Nat, n # 0, NEW E, NEW a \in [1..n -> E], NEW s, s = [i \in 1..n |-> <<a[i]>>]
    PROVE  FlattenSeq(s) = a
  <1> DEFINE Step(f) == [i \in 1..n |-> IF i = 1 THEN s[i] ELSE f[i - 1] \o s[i]]
             start(i) == [j \in 1..i |-> a[j]]
             g == [i \in 1..n |-> start(i)]
  <1>1. Len(s) = n /\ \A i \in 1..n : s[i] = <<a[i]>>
    <2>1. s \in [1..n -> Seq(E)]
      OBVIOUS
    <2>2. s \in Seq(Seq(E)) /\ Len(s) = n
      BY <2>1, FunctionIsSeq
    <2> QED
      BY <2>2
  <1>2. \A i \in 1..n : start(i) \in Seq(E) /\ Len(start(i)) = i
    <2> SUFFICES ASSUME NEW i \in 1..n PROVE start(i) \in Seq(E) /\ Len(start(i)) = i
      OBVIOUS
    <2>1. start(i) \in [1..i -> E] /\ i \in Nat
      OBVIOUS
    <2> HIDE DEF start
    <2> QED
      BY <2>1, FunctionIsSeq
  <1>3. start(1) = <<a[1]>>
    OBVIOUS
  <1>4. ASSUME NEW i \in 1..n, i # 1 PROVE start(i) = start(i - 1) \o <<a[i]>>
    <2> DEFINE p == start(i - 1)
               q == <<a[i]>>
               r == start(i)
    <2>1. i - 1 \in 1..n /\ i - 1 \in Nat
      BY <1>4
    <2>2. p \in Seq(E) /\ Len(p) = i - 1 /\ r \in Seq(E) /\ Len(r) = i
      BY <1>2, <2>1
    <2>3. q \in Seq(E) /\ Len(q) = 1 /\ q[1] = a[i]
      OBVIOUS
    <2>4. (\A j \in 1..i - 1 : p[j] = a[j]) /\ (\A j \in 1..i : r[j] = a[j])
      OBVIOUS
    <2> HIDE DEF p, q, r, start
    <2>5. /\ p \o q \in Seq(E) /\ Len(p \o q) = Len(p) + Len(q)
          /\ \A j \in 1..Len(p) + Len(q) : (p \o q)[j] = IF j <= Len(p) THEN p[j] ELSE q[j - Len(p)]
      BY <2>2, <2>3, ConcatProperties
    <2>6. ASSUME NEW j \in 1..i PROVE (p \o q)[j] = r[j]
      <3>1. CASE j <= i - 1
        BY <3>1, <2>2, <2>3, <2>4, <2>5
      <3>2. CASE j = i
        BY <3>2, <2>2, <2>3, <2>4, <2>5
      <3>3. j <= i - 1 \/ j = i
        OBVIOUS
      <3> QED
        BY <3>1, <3>2, <3>3
    <2>7. Len(p \o q) = Len(r)
      BY <2>2, <2>3, <2>5
    <2>8. p \o q = r
      BY <2>2, <2>5, <2>6, <2>7, SeqEqual
    <2> QED
      BY <2>8 DEF p, q, r
  <1> HIDE DEF start
  <1>5. g = Step(g)
    <2>1. ASSUME NEW i \in 1..n PROVE g[i] = IF i = 1 THEN s[i] ELSE g[i - 1] \o s[i]
      <3>1. CASE i = 1
        BY <3>1, <1>1, <1>3
      <3>2. CASE i # 1
        <4>1. i - 1 \in 1..n
          BY <3>2
        <4>2. g[i] = start(i) /\ g[i - 1] = start(i - 1)
          BY <4>1
        <4> QED
          BY <3>2, <4>2, <1>1, <1>4
      <3> QED
        BY <3>1, <3>2
    <2> QED
      BY <2>1
  <1> HIDE DEF g
  <1>6. PICK k : k = (CHOOSE f : f = Step(f)) /\ k = Step(k)
    <2> HIDE DEF Step
    <2>1. \E f : f = Step(f)
      BY <1>5
    <2> QED
      BY <2>1
  <1>7. \A i \in 1..n : k[i] = IF i = 1 THEN s[i] ELSE k[i - 1] \o s[i]
    BY <1>6
  <1> DEFINE T == {i \in Nat : i + 1 \in 1..n => k[i + 1] = start(i + 1)}
  <1>8. 0 \in T
    BY <1>1, <1>3, <1>7
  <1>9. ASSUME NEW i \in Nat, i \in T PROVE i + 1 \in T
    <2> SUFFICES ASSUME i + 1 + 1 \in 1..n PROVE k[i + 1 + 1] = start(i + 1 + 1)
      OBVIOUS
    <2> DEFINE j == i + 1 + 1
    <2>1. j \in 1..n /\ j # 1 /\ j - 1 = i + 1 /\ j - 1 \in 1..n
      OBVIOUS
    <2>2. k[j - 1] = start(j - 1)
      BY <2>1, <1>9
    <2> HIDE DEF j
    <2>3. k[j] = k[j - 1] \o s[j]
      BY <2>1, <1>7
    <2>4. start(j) = start(j - 1) \o <<a[j]>>
      BY <2>1, <1>4
    <2>5. s[j] = <<a[j]>>
      BY <2>1, <1>1
    <2>6. k[j] = start(j)
      BY <2>2, <2>3, <2>4, <2>5
    <2> QED
      BY <2>6 DEF j
  <1>10. Nat \subseteq T
    <2> HIDE DEF T
    <2> QED
      BY <1>8, <1>9, SetInduction
  <1>11. k[n] = start(n)
    <2>1. n - 1 \in Nat /\ n - 1 + 1 = n /\ n \in 1..n
      OBVIOUS
    <2> QED
      BY <2>1, <1>10
  <1>12. start(n) = a
    BY DEF start
  <1>13. FlattenSeq(s) = k[n]
    BY <1>1, <1>6 DEF FlattenSeq
  <1> QED
    BY <1>11, <1>12, <1>13

\* Two lists that are joined.
Glued(p, q) == p \o q

(* r is the list p and then the list q.                                    *)
FollowedBy(p, q, r) ==
    /\ Len(p) \in Nat /\ Len(q) \in Nat /\ Len(r) = Len(p) + Len(q)
    /\ DOMAIN p = 1..Len(p) /\ DOMAIN q = 1..Len(q) /\ DOMAIN r = 1..Len(r)
    /\ \A i \in 1..Len(p) : i \in 1..Len(r) /\ r[i] = p[i]
    /\ \A i \in 1..Len(q) : Len(p) + i \in 1..Len(r) /\ r[Len(p) + i] = q[i]
    /\ \A i \in 1..Len(r) : i \in 1..Len(p) \/ \E k \in 1..Len(q) : i = Len(p) + k

\* A list that goes on.
LEMMA GluedFacts ==
    ASSUME NEW E, NEW p \in Seq(E), NEW q \in Seq(E), NEW r, r = Glued(p, q)
    PROVE  r \in Seq(E) /\ FollowedBy(p, q, r)
  <1>1. /\ r \in Seq(E) /\ Len(r) = Len(p) + Len(q)
        /\ \A i \in 1..Len(p) + Len(q) : r[i] = IF i <= Len(p) THEN p[i] ELSE q[i - Len(p)]
    BY ConcatProperties DEF Glued
  <1>2. /\ Len(p) \in Nat /\ Len(q) \in Nat /\ DOMAIN p = 1..Len(p) /\ DOMAIN q = 1..Len(q) /\ DOMAIN r = 1..Len(r)
    BY <1>1, LenProperties
  <1>3. \A i \in 1..Len(p) : i \in 1..Len(r) /\ r[i] = p[i]
    BY <1>1, <1>2
  <1>4. ASSUME NEW i \in 1..Len(q) PROVE Len(p) + i \in 1..Len(r) /\ r[Len(p) + i] = q[i]
    <2> DEFINE j == Len(p) + i
    <2>1. j \in 1..Len(p) + Len(q) /\ ~ (j <= Len(p)) /\ j - Len(p) = i
      BY <1>2
    <2> HIDE DEF j
    <2>2. j \in 1..Len(r) /\ r[j] = q[i]
      BY <1>1, <2>1
    <2> QED
      BY <2>2 DEF j
  <1>5. ASSUME NEW i \in 1..Len(r) PROVE i \in 1..Len(p) \/ \E k \in 1..Len(q) : i = Len(p) + k
    <2>1. CASE i > Len(p)
      <3>1. i - Len(p) \in 1..Len(q) /\ i = Len(p) + (i - Len(p))
        BY <2>1, <1>1, <1>2
      <3> QED
        BY <3>1
    <2>2. CASE i <= Len(p)
      BY <2>2, <1>1, <1>2
    <2> QED
      BY <2>1, <2>2, <1>1, <1>2
  <1> QED
    BY <1>1, <1>2, <1>3, <1>4, <1>5 DEF FollowedBy
===============================================================================
