------------------------- MODULE SubsequencesProofs -------------------------
(* What keeping some positions of a sequence keeps, for every sequence.    *)
EXTENDS Subsequences, SequencesExt, FiniteSetTheorems, SequenceTheorems, TLAPS

LEMMA RankType ==
  ASSUME NEW D \in SUBSET Int, IsFiniteSet(D), NEW i \in D
  PROVE  Rank(D, i) \in 1..Cardinality(D)
<1>. DEFINE B == {k \in D : k <= i}
<1>1. IsFiniteSet(B) /\ Cardinality(B) <= Cardinality(D)
  BY FS_Subset
<1>2. Cardinality(B) # 0
  BY <1>1, FS_EmptySet
<1>3. Cardinality(B) \in Nat /\ Cardinality(D) \in Nat
  BY <1>1, FS_CardinalityType
<1>. QED
  BY <1>1, <1>2, <1>3 DEF Rank

LEMMA RankMonotone ==
  ASSUME NEW D \in SUBSET Int, IsFiniteSet(D), NEW i \in D, NEW j \in D, i < j
  PROVE  Rank(D, i) < Rank(D, j)
<1>. DEFINE A == {k \in D : k <= i}
            B == {k \in D : k <= j}
<1>1. j \in B /\ A \subseteq B \ {j} /\ IsFiniteSet(B)
  <2>1. B \in SUBSET D
    OBVIOUS
  <2>2. IsFiniteSet(B)
    BY <2>1, FS_Subset
  <2>3. ASSUME NEW k \in D, k <= i
        PROVE  k <= j /\ k # j
    <3>1. k \in Int /\ i \in Int /\ j \in Int
      OBVIOUS
    <3>. QED
      BY <2>3, <3>1
  <2>4. j \in B
    OBVIOUS
  <2>. QED
    BY <2>2, <2>3, <2>4
<1>2. IsFiniteSet(B \ {j}) /\ Cardinality(B \ {j}) = Cardinality(B) - 1
  BY <1>1, FS_RemoveElement
<1>3. Cardinality(A) <= Cardinality(B \ {j}) /\ IsFiniteSet(A)
  BY <1>1, <1>2, FS_Subset
<1>4. Cardinality(A) \in Nat /\ Cardinality(B) \in Nat
  BY <1>1, <1>3, FS_CardinalityType
<1>. QED
  BY <1>2, <1>3, <1>4 DEF Rank

\* The positions are the first, the second ... up to the last, each once.
LEMMA NthBijection ==
  ASSUME NEW D \in SUBSET Int, IsFiniteSet(D)
  PROVE  /\ [j \in 1..Cardinality(D) |-> Nth(D, j)] \in Bijection(1..Cardinality(D), D)
         /\ \A i, j \in 1..Cardinality(D) : i < j => Nth(D, i) < Nth(D, j)
<1>. DEFINE n == Cardinality(D)
            r == [i \in D |-> Rank(D, i)]
            f == [j \in 1..n |-> Nth(D, j)]
<1>0. n \in Nat
  BY FS_CardinalityType
<1>1. r \in [D -> 1..n]
  BY RankType
<1>2. \A i, j \in D : r[i] = r[j] => i = j
  <2>1. \A i, j \in D : i < j => r[i] < r[j]
    BY RankMonotone
  <2>2. \A i \in D : r[i] \in Int
    BY <1>0, <1>1
  <2>. HIDE DEF r
  <2>. QED
    BY <2>1, <2>2
<1>3. r \in Injection(D, 1..n)
  BY <1>1, <1>2 DEF Injection, IsInjective
<1>4. IsFiniteSet(1..n) /\ Cardinality(1..n) = n
  BY <1>0, FS_Interval
<1>5. r \in Surjection(D, 1..n)
  <2>. HIDE DEF r, n
  <2>1. Cardinality(D) = Cardinality(1..n)
    BY <1>4 DEF n
  <2>. QED
    BY <1>3, <1>4, <2>1, FS_Injection
<1>6. ASSUME NEW j \in 1..n
      PROVE  Nth(D, j) \in D /\ r[Nth(D, j)] = j
  <2>1. PICK i \in D : Rank(D, i) = j
    BY <1>5 DEF Surjection
  <2>2. Nth(D, j) \in D /\ Rank(D, Nth(D, j)) = j
    BY <2>1 DEF Nth
  <2>. QED
    BY <2>2
<1>7. f \in [1..n -> D] /\ \A j \in 1..n : r[f[j]] = j
  BY <1>6
<1>. HIDE DEF f, r, n
<1>8. \A i \in D : f[r[i]] = i /\ r[i] \in 1..n
  BY <1>1, <1>2, <1>7
<1>9. f \in Bijection(1..n, D)
  BY <1>7, <1>8 DEF Bijection, Injection, Surjection, IsInjective
<1>10. ASSUME NEW i \in 1..n, NEW j \in 1..n, i < j
       PROVE  f[i] < f[j]
  <2>0. f[i] \in D /\ f[j] \in D
    BY <1>7
  <2>1. /\ f[i] \in Int /\ f[j] \in Int
        /\ i \in Int /\ j \in Int
    <3>1. f[i] \in Int
      BY <2>0
    <3>2. f[j] \in Int
      BY <2>0
    <3>3. i \in Int /\ j \in Int
      BY <1>0
    <3>. QED
      BY <3>1, <3>2, <3>3
  <2>3. f[i] # f[j]
    <3>1. r[f[i]] = i /\ r[f[j]] = j
      BY <1>7
    <3>. QED
      BY <1>10, <2>1, <3>1
  <2>2. ~(f[j] < f[i])
    <3>1. f[j] < f[i] => r[f[j]] < r[f[i]]
      BY <1>7, RankMonotone DEF r
    <3>. QED
      BY <1>0, <1>7, <1>10, <3>1
  <2>. QED
    BY <2>1, <2>2, <2>3
<1>. QED
  BY <1>9, <1>10 DEF f, n

\* What is kept is s at the positions D, one by one and in order.
LEMMA KeepBijection ==
  ASSUME NEW S, NEW s \in Seq(S), NEW D \in SUBSET DOMAIN s
  PROVE  /\ Keep(s, D) \in Seq(S)
         /\ Len(Keep(s, D)) = Cardinality(D)
         /\ \E f \in Bijection(DOMAIN Keep(s, D), D) :
              /\ \A j \in DOMAIN Keep(s, D) : Keep(s, D)[j] = s[f[j]]
              /\ \A i, j \in DOMAIN Keep(s, D) : i < j => f[i] < f[j]
<1>. DEFINE n == Cardinality(D)
            f == [j \in 1..n |-> Nth(D, j)]
            t == Keep(s, D)
<1>1. IsFiniteSet(D) /\ D \in SUBSET Int
  <2>1. IsFiniteSet(1..Len(s)) /\ D \in SUBSET (1..Len(s))
    BY FS_Interval
  <2>. QED
    BY <2>1, FS_Subset
<1>2. n \in Nat
  BY <1>1, FS_CardinalityType
<1>3. f \in Bijection(1..n, D) /\ \A i, j \in 1..n : i < j => f[i] < f[j]
  BY <1>1, NthBijection
<1>4. t = [j \in 1..n |-> s[f[j]]]
  BY DEF Keep
<1>. HIDE DEF f, n, t
<1>5. f \in [1..n -> D]
  BY <1>3 DEF Bijection, Injection
<1>6. t \in [1..n -> S]
  BY <1>4, <1>5
<1>7. t \in Seq(S) /\ Len(t) = n /\ DOMAIN t = 1..n
  BY <1>2, <1>6
<1>. QED
  BY <1>3, <1>4, <1>7 DEF t, n

LEMMA KeepRange ==
  ASSUME NEW S, NEW s \in Seq(S), NEW D \in SUBSET DOMAIN s
  PROVE  {Keep(s, D)[j] : j \in DOMAIN Keep(s, D)} = {s[i] : i \in D}
<1>. DEFINE t == Keep(s, D)
<1>1. PICK f \in Bijection(DOMAIN t, D) : \A j \in DOMAIN t : t[j] = s[f[j]]
  BY KeepBijection
<1>2. f \in [DOMAIN t -> D] /\ \A i \in D : \E j \in DOMAIN t : f[j] = i
  BY <1>1 DEF Bijection, Injection, Surjection
<1>. HIDE DEF t
<1>3. {t[j] : j \in DOMAIN t} = {s[i] : i \in D}
  BY <1>1, <1>2
<1>. QED
  BY <1>3 DEF t

LEMMA KeepInjective ==
  ASSUME NEW S, NEW s \in Seq(S), NEW D \in SUBSET DOMAIN s, IsInjective(s)
  PROVE  IsInjective(Keep(s, D))
<1>. DEFINE t == Keep(s, D)
<1>1. PICK f \in Bijection(DOMAIN t, D) : \A j \in DOMAIN t : t[j] = s[f[j]]
  BY KeepBijection
<1>2. f \in [DOMAIN t -> D] /\ \A i, j \in DOMAIN t : f[i] = f[j] => i = j
  BY <1>1 DEF Bijection, Injection, IsInjective
<1>. HIDE DEF t
<1>3. \A i, j \in DOMAIN t : t[i] = t[j] => i = j
  BY <1>1, <1>2 DEF IsInjective
<1>. QED
  BY <1>3 DEF t, IsInjective

-----------------------------------------------------------------------------
(* How many elements of a sequence are in a set.                           *)

TallyAt(s, D, X) == Cardinality({i \in D : s[i] \in X})
Tally(s, X) == TallyAt(s, DOMAIN s, X)

\* As many are kept as there are at the positions that are.
LEMMA KeepCount ==
  ASSUME NEW S, NEW s \in Seq(S), NEW D \in SUBSET DOMAIN s, NEW X
  PROVE  Tally(Keep(s, D), X) = TallyAt(s, D, X)
<1>. DEFINE t == Keep(s, D)
            A == {j \in DOMAIN t : t[j] \in X}
            B == {i \in D : s[i] \in X}
            g(f) == [j \in A |-> f[j]]
<1>1. PICK f \in Bijection(DOMAIN t, D) : \A j \in DOMAIN t : t[j] = s[f[j]]
  BY KeepBijection
<1>2. /\ f \in [DOMAIN t -> D] /\ \A i, j \in DOMAIN t : f[i] = f[j] => i = j
      /\ \A i \in D : \E j \in DOMAIN t : f[j] = i
  BY <1>1 DEF Bijection, Injection, Surjection, IsInjective
<1>3. IsFiniteSet(B)
  <2>1. IsFiniteSet(1..Len(s)) /\ B \in SUBSET (1..Len(s))
    BY FS_Interval
  <2>. QED
    BY <2>1, FS_Subset
<1>4. IsFiniteSet(A)
  <2>1. t \in Seq(S)
    BY KeepBijection
  <2>2. IsFiniteSet(1..Len(t)) /\ A \in SUBSET (1..Len(t))
    BY <2>1, FS_Interval
  <2>. QED
    BY <2>2, FS_Subset
<1>. HIDE DEF t
<1>5. g(f) \in [A -> B] /\ \A i, j \in A : g(f)[i] = g(f)[j] => i = j
  BY <1>1, <1>2
<1>6. \A i \in B : \E j \in A : g(f)[j] = i
  BY <1>1, <1>2
<1>. HIDE DEF A, B, g
<1>7. g(f) \in Bijection(A, B)
  BY <1>5, <1>6 DEF Bijection, Injection, Surjection, IsInjective
<1>8. Cardinality(A) = Cardinality(B)
  BY <1>4, <1>7, FS_Bijection DEF ExistsBijection
<1>. QED
  BY <1>8, Zenon DEF A, B, t, Tally, TallyAt

LEMMA TallyType ==
  ASSUME NEW S, NEW s \in Seq(S), NEW X
  PROVE  Tally(s, X) \in Nat
<1>1. DOMAIN s = 1..Len(s) /\ Len(s) \in Nat
  OBVIOUS
<1>2. IsFiniteSet(DOMAIN s)
  BY <1>1, FS_Interval
<1>3. {i \in DOMAIN s : s[i] \in X} \in SUBSET DOMAIN s
  OBVIOUS
<1>. QED
  BY <1>2, <1>3, FS_Subset, FS_CardinalityType DEF Tally, TallyAt

\* The places of a slice are as many as those of its copy further on.
LEMMA ShiftCount ==
  ASSUME NEW D \in SUBSET Int, IsFiniteSet(D), NEW E \in SUBSET Int, NEW k \in Int,
         \A i \in D : i + k \in E, \A j \in E : j - k \in D
  PROVE  Cardinality(E) = Cardinality(D)
<1>. DEFINE f == [i \in D |-> i + k]
<1>1. f \in [D -> E]
  OBVIOUS
<1>2. \A i, j \in D : f[i] = f[j] => i = j
  OBVIOUS
<1>3. ASSUME NEW j \in E
      PROVE  \E i \in D : f[i] = j
  <2>1. j - k \in D /\ f[j - k] = j
    OBVIOUS
  <2>. QED
    BY <2>1
<1>4. f \in Bijection(D, E)
  <2>. HIDE DEF f
  <2>. QED
    BY <1>1, <1>2, <1>3 DEF Bijection, Injection, Surjection, IsInjective
<1>. QED
  BY <1>4, FS_Bijection DEF ExistsBijection

LEMMA ConcatTally ==
  ASSUME NEW S, NEW s \in Seq(S), NEW t \in Seq(S), NEW X
  PROVE  s \o t \in Seq(S) /\ Tally(s \o t, X) = Tally(s, X) + Tally(t, X)
<1>. DEFINE u == s \o t
            A == {i \in DOMAIN s : s[i] \in X}
            B == {j \in DOMAIN t : t[j] \in X}
            C == {i \in DOMAIN u : u[i] \in X}
            E == {i \in C : i > Len(s)}
<1>1. /\ Len(s) \in Nat /\ Len(t) \in Nat /\ DOMAIN s = 1..Len(s) /\ DOMAIN t = 1..Len(t)
      /\ u \in Seq(S) /\ DOMAIN u = 1..(Len(s) + Len(t))
      /\ \A i \in 1..(Len(s) + Len(t)) : u[i] = IF i <= Len(s) THEN s[i] ELSE t[i - Len(s)]
  <2>1. /\ u \in Seq(S) /\ Len(u) = Len(s) + Len(t)
        /\ \A i \in 1..(Len(s) + Len(t)) : u[i] = IF i <= Len(s) THEN s[i] ELSE t[i - Len(s)]
    BY ConcatProperties
  <2>. HIDE DEF u
  <2>. QED
    BY <2>1, LenProperties
<1>. HIDE DEF u
<1>2. IsFiniteSet(A) /\ IsFiniteSet(B) /\ IsFiniteSet(C)
  <2>1. A \in SUBSET (1..Len(s)) /\ B \in SUBSET (1..Len(t))
        /\ C \in SUBSET (1..(Len(s) + Len(t)))
    BY <1>1
  <2>2. IsFiniteSet(1..Len(s)) /\ IsFiniteSet(1..Len(t)) /\ IsFiniteSet(1..(Len(s) + Len(t)))
    BY <1>1, FS_Interval
  <2>. QED
    BY <2>1, <2>2, FS_Subset
<1>3. C = A \cup E /\ A \cap E = {}
  <2>1. \A i : i \in A => i \in C /\ i \notin E
    BY <1>1
  <2>2. \A i \in C : i \in A \/ i \in E
    BY <1>1
  <2>. QED
    BY <2>1, <2>2
<1>4. Cardinality(E) = Cardinality(B)
  <2>1. \A j \in B : j + Len(s) \in E
    BY <1>1
  <2>2. \A i \in E : i - Len(s) \in B
    BY <1>1
  <2>3. B \in SUBSET Int /\ E \in SUBSET Int
    BY <1>1
  <2>4. Len(s) \in Int
    BY <1>1
  <2>. HIDE DEF A, B, C, E
  <2>. QED
    BY <1>2, <2>1, <2>2, <2>3, <2>4, ShiftCount
<1>5. IsFiniteSet(E)
  BY <1>2, FS_Subset
<1>. HIDE DEF A, B, C, E
<1>6. Cardinality(C) = Cardinality(A) + Cardinality(E)
  <2>1. Cardinality(A \cup E) = Cardinality(A) + Cardinality(E) - Cardinality(A \cap E)
    BY <1>2, <1>5, FS_Union
  <2>2. /\ Cardinality(A \cap E) = 0
        /\ Cardinality(A) \in Nat /\ Cardinality(E) \in Nat
    BY <1>2, <1>3, <1>5, FS_EmptySet, FS_CardinalityType
  <2>. QED
    BY <1>3, <2>1, <2>2
<1>. QED
  BY <1>1, <1>4, <1>6 DEF Tally, TallyAt, A, B, C, u

LEMMA OneTally ==
  ASSUME NEW x, NEW X
  PROVE  Tally(<<x>>, X) = IF x \in X THEN 1 ELSE 0
<1>. DEFINE A == {i \in DOMAIN <<x>> : <<x>>[i] \in X}
<1>1. A = IF x \in X THEN {1} ELSE {}
  OBVIOUS
<1>. HIDE DEF A
<1>2. Cardinality(A) = IF x \in X THEN 1 ELSE 0
  BY <1>1, FS_Singleton, FS_EmptySet
<1>. QED
  BY <1>2 DEF A, Tally, TallyAt

LEMMA AppendTally ==
  ASSUME NEW S, NEW s \in Seq(S), NEW x \in S, NEW X
  PROVE  Tally(Append(s, x), X) = Tally(s, X) + (IF x \in X THEN 1 ELSE 0)
<1>. DEFINE o == <<x>>
<1>1. Append(s, x) = s \o o /\ o \in Seq(S)
  OBVIOUS
<1>2. Tally(o, X) = IF x \in X THEN 1 ELSE 0
  BY OneTally
<1>. HIDE DEF o
<1>3. Tally(s \o o, X) = Tally(s, X) + Tally(o, X)
  BY <1>1, ConcatTally
<1>. QED
  BY <1>1, <1>2, <1>3

LEMMA RemoveTally ==
  ASSUME NEW S, NEW s \in Seq(S), NEW i \in DOMAIN s, NEW X
  PROVE  /\ RemoveAt(s, i) \in Seq(S)
         /\ Tally(s, X) = Tally(RemoveAt(s, i), X) + (IF s[i] \in X THEN 1 ELSE 0)
<1>. DEFINE h == SubSeq(s, 1, i - 1)
            t == SubSeq(s, i + 1, Len(s))
            o == <<s[i]>>
<1>1. DOMAIN s = 1..Len(s) /\ Len(s) \in Nat /\ i \in 1..Len(s) /\ s[i] \in S
  OBVIOUS
<1>2. h \in Seq(S) /\ t \in Seq(S) /\ o \in Seq(S)
  BY <1>1, SubSeqProperties
<1>3. s = h \o (o \o t)
  <2>1. o \o t = SubSeq(s, i, Len(s))
    BY <1>1, SubSeqRecursiveFirst
  <2>2. h \o SubSeq(s, (i - 1) + 1, Len(s)) = SubSeq(s, 1, Len(s))
    <3>1. 1 \in 1..(Len(s) + 1) /\ i - 1 \in (1 - 1)..Len(s) /\ Len(s) \in (i - 1)..Len(s)
      BY <1>1
    <3>. QED
      BY <3>1, ConcatAdjacentSubSeq
  <2>3. SubSeq(s, 1, Len(s)) = s /\ (i - 1) + 1 = i
    BY <1>1, SubSeqFull
  <2>. QED
    BY <2>1, <2>2, <2>3
<1>. HIDE DEF h, t, o
<1>4. Tally(s, X) = Tally(h, X) + (Tally(o, X) + Tally(t, X))
  <2>1. o \o t \in Seq(S) /\ Tally(o \o t, X) = Tally(o, X) + Tally(t, X)
    BY <1>2, ConcatTally
  <2>2. Tally(h \o (o \o t), X) = Tally(h, X) + Tally(o \o t, X)
    <3>. DEFINE r == o \o t
    <3>1. r \in Seq(S)
      BY <2>1
    <3>. HIDE DEF r
    <3>2. Tally(h \o r, X) = Tally(h, X) + Tally(r, X)
      BY <1>2, <3>1, ConcatTally
    <3>. QED
      BY <3>2 DEF r
  <2>. QED
    BY <1>3, <2>1, <2>2
<1>5. h \o t \in Seq(S) /\ Tally(h \o t, X) = Tally(h, X) + Tally(t, X)
  BY <1>2, ConcatTally
<1>6. RemoveAt(s, i) = h \o t
  BY DEF RemoveAt, h, t
<1>7. Tally(h, X) \in Nat /\ Tally(t, X) \in Nat
  BY <1>2, TallyType
<1>8. Tally(o, X) = IF s[i] \in X THEN 1 ELSE 0
  BY OneTally DEF o
<1>. QED
  BY <1>4, <1>5, <1>6, <1>7, <1>8

\* Putting those kept before those left out changes no count.
LEMMA SplitTally ==
  ASSUME NEW S, NEW s \in Seq(S), NEW D \in SUBSET DOMAIN s, NEW X
  PROVE  LET u == Keep(s, D) \o Keep(s, DOMAIN s \ D)
         IN  u \in Seq(S) /\ Tally(u, X) = Tally(s, X)
<1>. DEFINE E == DOMAIN s \ D
            A == {i \in D : s[i] \in X}
            B == {i \in E : s[i] \in X}
            C == {i \in DOMAIN s : s[i] \in X}
<1>1. Keep(s, D) \in Seq(S) /\ Keep(s, E) \in Seq(S)
  BY KeepBijection
<1>2. Tally(Keep(s, D), X) = TallyAt(s, D, X) /\ Tally(Keep(s, E), X) = TallyAt(s, E, X)
  <2>1. E \in SUBSET DOMAIN s
    OBVIOUS
  <2>. HIDE DEF E
  <2>. QED
    BY <2>1, KeepCount
<1>3. IsFiniteSet(A) /\ IsFiniteSet(B)
  <2>1. DOMAIN s = 1..Len(s) /\ Len(s) \in Nat
    OBVIOUS
  <2>2. IsFiniteSet(DOMAIN s)
    BY <2>1, FS_Interval
  <2>3. A \in SUBSET DOMAIN s /\ B \in SUBSET DOMAIN s
    OBVIOUS
  <2>. QED
    BY <2>2, <2>3, FS_Subset
<1>4. C = A \cup B /\ A \cap B = {}
  OBVIOUS
<1>. HIDE DEF A, B, C
<1>5. Cardinality(C) = Cardinality(A) + Cardinality(B)
  <2>1. Cardinality(A \cup B) = Cardinality(A) + Cardinality(B) - Cardinality(A \cap B)
    BY <1>3, FS_Union
  <2>2. /\ Cardinality(A \cap B) = 0
        /\ Cardinality(A) \in Nat /\ Cardinality(B) \in Nat
    BY <1>3, <1>4, FS_EmptySet, FS_CardinalityType
  <2>. QED
    BY <1>4, <2>1, <2>2
<1>6. /\ Tally(s, X) = Cardinality(C)
      /\ TallyAt(s, D, X) = Cardinality(A) /\ TallyAt(s, E, X) = Cardinality(B)
  BY Zenon DEF Tally, TallyAt, A, B, C
<1>. QED
  BY <1>1, <1>2, <1>5, <1>6, ConcatTally

\* A set of naturals that has a member has a least.
LEMMA LeastExists ==
  ASSUME NEW D \in SUBSET Int, IsFiniteSet(D), D # {}
  PROVE  (CHOOSE i \in D : \A j \in D : i <= j) \in D
<1>. DEFINE n == Cardinality(D)
            f == [j \in 1..n |-> Nth(D, j)]
<1>1. n \in Nat /\ n # 0
  BY FS_CardinalityType, FS_EmptySet
<1>2. f \in Bijection(1..n, D) /\ \A i, j \in 1..n : i < j => Nth(D, i) < Nth(D, j)
  BY NthBijection
<1>3. f \in [1..n -> D] /\ \A i \in D : \E j \in 1..n : f[j] = i
  BY <1>2 DEF Bijection, Injection, Surjection
<1>4. 1 \in 1..n /\ f[1] \in D
  BY <1>1, <1>3
<1>5. ASSUME NEW i \in D
      PROVE  f[1] <= i
  <2>1. PICK j \in 1..n : f[j] = i
    BY <1>3
  <2>2. j = 1 \/ 1 < j
    BY <1>1
  <2>3. f[j] = Nth(D, j) /\ f[1] = Nth(D, 1)
    BY <1>4
  <2>4. CASE j = 1
    <3>1. f[1] = i /\ i \in Int
      BY <2>1, <2>4
    <3>. QED
      BY <3>1
  <2>5. CASE 1 < j
    <3>1. f[1] < i
      BY <1>2, <1>4, <2>1, <2>3, <2>5
    <3>2. f[1] \in Int /\ i \in Int
      BY <1>4
    <3>. QED
      BY <3>1, <3>2
  <2>. QED
    BY <2>2, <2>4, <2>5
<1>. QED
  BY <1>4, <1>5
LEMMA LeastPosition ==
  ASSUME NEW S, NEW s \in Seq(S), NEW D \in SUBSET DOMAIN s, D # {}
  PROVE  (CHOOSE i \in D : \A j \in D : i <= j) \in D
<1>1. DOMAIN s = 1..Len(s) /\ Len(s) \in Nat
  OBVIOUS
<1>2. IsFiniteSet(DOMAIN s)
  BY <1>1, FS_Interval
<1>3. IsFiniteSet(D) /\ D \in SUBSET Int
  BY <1>1, <1>2, FS_Subset
<1>. QED
  BY <1>3, LeastExists, Zenon
-----------------------------------------------------------------------------
(* A slice without repetitions: adding to it, and cutting it in two.       *)

LEMMA AppendSet ==
  ASSUME NEW S, NEW s \in Seq(S), NEW x \in S
  PROVE  /\ ToSet(Append(s, x)) = ToSet(s) \cup {x}
         /\ IsInjective(s) /\ x \notin ToSet(s) => IsInjective(Append(s, x))
<1>. DEFINE t == Append(s, x)
<1>1. /\ DOMAIN t = 1..Len(s) + 1 /\ DOMAIN s = 1..Len(s) /\ Len(s) \in Nat
      /\ t[Len(s) + 1] = x /\ \A i \in 1..Len(s) : t[i] = s[i]
  OBVIOUS
<1>. HIDE DEF t
<1>2. ToSet(t) = ToSet(s) \cup {x}
  <2>1. \A i \in 1..Len(s) + 1 : i \in 1..Len(s) \/ i = Len(s) + 1
    BY <1>1
  <2>2. \A i \in 1..Len(s) : i \in 1..Len(s) + 1
    BY <1>1
  <2>3. Len(s) + 1 \in 1..Len(s) + 1
    BY <1>1
  <2>. QED
    BY <1>1, <2>1, <2>2, <2>3 DEF ToSet
<1>3. ASSUME IsInjective(s), x \notin ToSet(s)
      PROVE  IsInjective(t)
  <2>1. \A i \in 1..Len(s) : s[i] # x
    BY <1>1, <1>3 DEF ToSet
  <2>2. \A i, j \in 1..Len(s) : s[i] = s[j] => i = j
    BY <1>1, <1>3 DEF IsInjective
  <2>. QED
    BY <1>1, <2>1, <2>2 DEF IsInjective
<1>. QED
  BY <1>2, <1>3 DEF t

\* The first n elements and the rest share out the elements of s.
LEMMA CutSet ==
  ASSUME NEW S, NEW s \in Seq(S), IsInjective(s), NEW n \in 0..Len(s)
  PROVE  LET head == SubSeq(s, 1, n)
             rest == SubSeq(s, n + 1, Len(s))
         IN  /\ rest \in Seq(S) /\ IsInjective(rest)
             /\ ToSet(head) \cap ToSet(rest) = {}
             /\ ToSet(head) \cup ToSet(rest) = ToSet(s)
             /\ IsFiniteSet(ToSet(head)) /\ Cardinality(ToSet(head)) = n
<1>. DEFINE head == SubSeq(s, 1, n)
            rest == SubSeq(s, n + 1, Len(s))
<1>0. Len(s) \in Nat /\ n \in Nat /\ n <= Len(s)
  OBVIOUS
<1>1. /\ head \in Seq(S) /\ Len(head) = n /\ DOMAIN head = 1..n
      /\ \A i \in 1..n : head[i] = s[i]
  BY <1>0
<1>2. /\ rest \in Seq(S) /\ DOMAIN rest = 1..Len(s) - n
      /\ \A i \in 1..Len(s) - n : rest[i] = s[n + i]
  BY <1>0
<1>3. \A i, j \in 1..Len(s) : s[i] = s[j] => i = j
  BY DEF IsInjective
<1>. HIDE DEF head, rest
<1>4. IsInjective(rest)
  <2>1. \A i \in 1..Len(s) - n : n + i \in 1..Len(s) /\ i \in Int
    BY <1>0
  <2>2. ASSUME NEW i \in 1..Len(s) - n, NEW j \in 1..Len(s) - n, rest[i] = rest[j]
        PROVE  i = j
    <3>1. n + i = n + j
      BY <1>2, <1>3, <2>1, <2>2
    <3>2. i \in Int /\ j \in Int
      BY <2>1
    <3>. QED
      BY <1>0, <3>1, <3>2
  <2>. QED
    BY <1>2, <2>2 DEF IsInjective
<1>5. ToSet(head) \cap ToSet(rest) = {}
  <2>1. \A i \in 1..n, j \in 1..Len(s) - n : i \in 1..Len(s) /\ n + j \in 1..Len(s) /\ i # n + j
    BY <1>0
  <2>. QED
    BY <1>1, <1>2, <1>3, <2>1 DEF ToSet
<1>6. ToSet(head) \cup ToSet(rest) = ToSet(s)
  <2>1. \A i \in 1..Len(s) : i \in 1..n \/ (i - n \in 1..Len(s) - n /\ n + (i - n) = i)
    BY <1>0
  <2>2. \A i \in 1..n : i \in 1..Len(s)
    BY <1>0
  <2>3. \A i \in 1..Len(s) - n : n + i \in 1..Len(s)
    BY <1>0
  <2>4. ToSet(s) = {s[i] : i \in 1..Len(s)}
    BY DEF ToSet
  <2>5. ToSet(head) = {s[i] : i \in 1..n}
    BY <1>1 DEF ToSet
  <2>6. ToSet(rest) = {s[n + i] : i \in 1..Len(s) - n}
    BY <1>2 DEF ToSet
  <2>7. ASSUME NEW x \in ToSet(s)
        PROVE  x \in ToSet(head) \cup ToSet(rest)
    <3>1. PICK i \in 1..Len(s) : x = s[i]
      BY <2>4
    <3>2. CASE i \in 1..n
      BY <2>5, <3>1, <3>2
    <3>3. CASE i \notin 1..n
      <4>1. i - n \in 1..Len(s) - n /\ n + (i - n) = i
        BY <2>1, <3>3
      <4>2. s[n + (i - n)] \in ToSet(rest)
        BY <2>6, <4>1
      <4>. QED
        BY <3>1, <4>1, <4>2
    <3>. QED
      BY <3>2, <3>3
  <2>8. ToSet(head) \subseteq ToSet(s)
    BY <2>2, <2>4, <2>5
  <2>9. ToSet(rest) \subseteq ToSet(s)
    BY <2>3, <2>4, <2>6
  <2>. QED
    BY <2>7, <2>8, <2>9
<1>7. IsFiniteSet(ToSet(head)) /\ Cardinality(ToSet(head)) = n
  <2>1. IsFiniteSet(1..n) /\ Cardinality(1..n) = n
    BY <1>0, FS_Interval
  <2>2. head \in Bijection(1..n, ToSet(head))
    <3>1. \A i, j \in 1..n : head[i] = head[j] => i = j
      BY <1>0, <1>1, <1>3
    <3>2. head \in [1..n -> ToSet(head)]
      BY <1>1 DEF ToSet
    <3>. QED
      BY <1>1, <3>1, <3>2 DEF Bijection, Injection, Surjection, IsInjective, ToSet
  <2>. QED
    BY <2>1, <2>2, FS_Bijection DEF ExistsBijection
<1>. QED
  BY <1>2, <1>4, <1>5, <1>6, <1>7 DEF head, rest

\* An injective sequence is no longer than the set of its elements is large.
LEMMA InjectiveLen ==
  ASSUME NEW S, IsFiniteSet(S), NEW s \in Seq(S), IsInjective(s)
  PROVE  Len(s) <= Cardinality(S)
<1>1. /\ Len(s) \in Nat /\ DOMAIN s = 1..Len(s) /\ s \in [1..Len(s) -> S]
  OBVIOUS
<1>2. s \in Injection(1..Len(s), S)
  BY <1>1 DEF IsInjective, Injection
<1>3. IsFiniteSet(1..Len(s)) /\ Cardinality(1..Len(s)) = Len(s)
  BY <1>1, FS_Interval
<1>. QED
  BY <1>2, <1>3, FS_Injection
=============================================================================
