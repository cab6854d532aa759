--------------------------- MODULE OrderingProofs ---------------------------
(***************************************************************************)
(* Facts about sets in order and about least and greatest members, which   *)
(* the proofs about stores, snapshots and parsers cite.  The prover has no *)
(* induction over data; the least member of a set of counterexamples       *)
(* stands for it.                                                          *)
(***************************************************************************)
EXTENDS Ordering, Integers, Sequences, SequencesExt, FiniteSetTheorems,
        WellFoundedInduction, TLAPS

(* A set of naturals has a least member.                                   *)
LEMMA LeastMember ==
    ASSUME NEW T, T \subseteq Nat, T # {}
    PROVE  \E x \in T : \A y \in T : x <= y
<1> DEFINE R == {p \in Nat \X Nat : p[1] < p[2]}
<1>1. IsWellFoundedOn(R, Nat)
  BY NatLessThanWellFounded DEF OpToRel
<1>2. PICK x \in T : \A y \in T : ~(<<y, x>> \in R)
  BY <1>1, WFMin
<1>3. ASSUME NEW y \in T PROVE x <= y
  <2>1. x \in Nat /\ y \in Nat /\ ~(<<y, x>> \in R)
    BY <1>2
  <2>2. ~(y < x)
    BY <2>1
  <2> QED
    BY <2>1, <2>2
<1> QED
  BY <1>3

(* A bounded one has a greatest member.                                    *)
LEMMA GreatestMember ==
    ASSUME NEW T, T \subseteq Nat, T # {}, NEW n \in Nat,
           \A x \in T : x <= n
    PROVE  \E x \in T : \A y \in T : y <= x
<1> DEFINE D == {n - x : x \in T}
<1>1. D \subseteq Nat /\ D # {}
  <2>1. \A x \in T : x \in Nat /\ x <= n
    OBVIOUS
  <2>2. \A x \in T : n - x \in Nat
    BY <2>1
  <2> QED
    BY <2>2
<1>2. PICK d \in D : \A e \in D : d <= e
  BY <1>1, LeastMember
<1>3. PICK x \in T : d = n - x
  OBVIOUS
<1>4. ASSUME NEW y \in T PROVE y <= x
  <2>1. n - x <= n - y
    BY <1>2, <1>3
  <2>2. x \in Nat /\ y \in Nat
    OBVIOUS
  <2> QED
    BY <2>1, <2>2
<1> QED
  BY <1>4

(* What Min and Max of FiniteSetsExt return.                               *)
LEMMA MinIsLeast ==
    ASSUME NEW T, T \subseteq Nat, T # {}
    PROVE  /\ Min(T) \in T
           /\ \A y \in T : Min(T) <= y
  BY LeastMember DEF Min

LEMMA MaxIsGreatest ==
    ASSUME NEW T, T \subseteq Nat, T # {}, NEW n \in Nat,
           \A x \in T : x <= n
    PROVE  /\ Max(T) \in T
           /\ \A y \in T : y <= Max(T)
<1>1. \E x \in T : \A y \in T : x >= y
  <2>1. PICK x \in T : \A y \in T : y <= x
    BY GreatestMember
  <2> QED
    BY <2>1
<1>2. Max(T) \in T /\ \A y \in T : Max(T) >= y
  BY <1>1 DEF Max
<1> QED
  BY <1>2

(* A sequence that is read on from where a prefix of it ended.             *)
LEMMA PrefixGrows ==
    ASSUME NEW S, NEW s \in Seq(S), NEW a \in Nat, NEW b \in Nat,
           a <= b, b <= Len(s)
    PROVE  /\ SubSeq(s, 1, a) \o SubSeq(s, a + 1, b) = SubSeq(s, 1, b)
           /\ SubSeq(s, 1, Len(s)) = s
  OBVIOUS

(* A function takes finitely many values on a finite domain.               *)
LEMMA FiniteImage ==
    ASSUME NEW S, IsFiniteSet(S), NEW f, f = [x \in S |-> f[x]]
    PROVE  IsFiniteSet({f[x] : x \in S})
<1>1. f \in Surjection(S, {f[x] : x \in S})
  BY DEF Surjection
<1> QED
  BY <1>1, FS_Surjection

-----------------------------------------------------------------------------
(* A strict order in which any two members of S compare.                   *)
StrictOrder(S, R) ==
    /\ \A x \in S : <<x, x>> \notin R
    /\ \A x, y, z \in S : <<x, y>> \in R /\ <<y, z>> \in R => <<x, z>> \in R
    /\ \A x, y \in S : x # y => <<x, y>> \in R \/ <<y, x>> \in R

LEMMA RankType ==
    ASSUME NEW S, IsFiniteSet(S), NEW R, StrictOrder(S, R), NEW x \in S
    PROVE  Rank(S, R, x) \in 0 .. Cardinality(S) - 1
<1> DEFINE B == {y \in S : <<y, x>> \in R}
<1>1. B \subseteq S /\ x \notin B
  BY DEF StrictOrder
<1>2. /\ IsFiniteSet(B) /\ Cardinality(B) <= Cardinality(S)
      /\ Cardinality(B) # Cardinality(S)
  BY <1>1, FS_Subset
<1>3. Cardinality(B) \in Nat /\ Cardinality(S) \in Nat
  BY <1>2, FS_CardinalityType
<1> QED
  BY <1>2, <1>3 DEF Rank

LEMMA RankGrows ==
    ASSUME NEW S, IsFiniteSet(S), NEW R, StrictOrder(S, R),
           NEW x \in S, NEW y \in S, <<x, y>> \in R
    PROVE  Rank(S, R, x) < Rank(S, R, y)
<1> DEFINE B == {z \in S : <<z, x>> \in R}
           C == {z \in S : <<z, y>> \in R}
<1>1. B \subseteq C /\ x \in C /\ x \notin B
  BY DEF StrictOrder
<1>2. IsFiniteSet(C)
  BY FS_Subset
<1>3. /\ IsFiniteSet(B) /\ Cardinality(B) <= Cardinality(C)
      /\ Cardinality(B) # Cardinality(C)
  BY <1>1, <1>2, FS_Subset
<1>4. Cardinality(B) \in Nat /\ Cardinality(C) \in Nat
  BY <1>2, <1>3, FS_CardinalityType
<1> QED
  BY <1>3, <1>4 DEF Rank

(* Every place is taken, by one member.                                    *)
LEMMA RankIsPlace ==
    ASSUME NEW S, IsFiniteSet(S), NEW R, StrictOrder(S, R)
    PROVE  /\ \A k \in 1 .. Cardinality(S) :
                 \E x \in S : Rank(S, R, x) = k - 1
           /\ \A x, y \in S : Rank(S, R, x) = Rank(S, R, y) => x = y
<1> DEFINE n == Cardinality(S)
           P == 0 .. n - 1
           rank == [x \in S |-> Rank(S, R, x)]
<1>1. n \in Nat
  BY FS_CardinalityType
<1>2. \A x, y \in S : Rank(S, R, x) = Rank(S, R, y) => x = y
  <2> SUFFICES ASSUME NEW x \in S, NEW y \in S, x # y
               PROVE  Rank(S, R, x) # Rank(S, R, y)
    OBVIOUS
  <2>1. <<x, y>> \in R \/ <<y, x>> \in R
    BY DEF StrictOrder
  <2>2. Rank(S, R, x) < Rank(S, R, y) \/ Rank(S, R, y) < Rank(S, R, x)
    BY <2>1, RankGrows
  <2>3. Rank(S, R, x) \in P /\ Rank(S, R, y) \in P
    BY RankType
  <2> QED
    BY <1>1, <2>2, <2>3
<1>3. rank \in [S -> P]
  BY RankType
<1>4. rank \in Injection(S, P)
  BY <1>2, <1>3 DEF Injection, IsInjective
<1>5. IsFiniteSet(P) /\ Cardinality(P) = n
  <2>1. /\ IsFiniteSet(P)
        /\ Cardinality(P) = IF 0 > n - 1 THEN 0 ELSE n - 1 - 0 + 1
    BY <1>1, FS_Interval
  <2> QED
    BY <1>1, <2>1
<1>6. rank \in Surjection(S, P)
  BY <1>4, <1>5, FS_Injection
<1>7. ASSUME NEW k \in 1 .. n PROVE \E x \in S : Rank(S, R, x) = k - 1
  <2>1. k - 1 \in P
    BY <1>1
  <2> QED
    BY <1>6, <2>1 DEF Surjection
<1> QED
  BY <1>2, <1>7

(* The sequence in order has every member once, each before the later.     *)
LEMMA InOrderFacts ==
    ASSUME NEW S, IsFiniteSet(S), NEW R, StrictOrder(S, R)
    PROVE  LET s == InOrderOf(S, R)
           IN  /\ s \in Seq(S) /\ Len(s) = Cardinality(S)
               /\ DOMAIN s = 1 .. Cardinality(S) /\ Cardinality(S) \in Nat
               /\ \A x \in S : \E k \in DOMAIN s : s[k] = x
               /\ \A k \in DOMAIN s : s[k] \in S
               /\ \A i, j \in DOMAIN s : i < j => <<s[i], s[j]>> \in R
<1> DEFINE n == Cardinality(S)
           s == InOrderOf(S, R)
<1>1. n \in Nat
  BY FS_CardinalityType
<1>2. ASSUME NEW k \in 1 .. n
      PROVE  s[k] \in S /\ Rank(S, R, s[k]) = k - 1
  <2>1. s[k] = CHOOSE x \in S : Rank(S, R, x) = k - 1
    BY DEF InOrderOf
  <2>2. \E x \in S : Rank(S, R, x) = k - 1
    BY RankIsPlace
  <2> QED
    BY <2>1, <2>2
<1>3. DOMAIN s = 1 .. n /\ s = [k \in 1 .. n |-> s[k]]
  BY DEF InOrderOf
<1>4. s \in Seq(S) /\ Len(s) = n
  <2> HIDE DEF s
  <2>1. s \in [1 .. n -> S]
    BY <1>2, <1>3
  <2> QED
    BY <1>1, <2>1
<1>5. ASSUME NEW x \in S PROVE \E k \in 1 .. n : s[k] = x
  <2>1. Rank(S, R, x) \in 0 .. n - 1
    BY RankType
  <2>2. Rank(S, R, x) + 1 \in 1 .. n
    BY <1>1, <2>1
  <2>3. Rank(S, R, s[Rank(S, R, x) + 1]) = Rank(S, R, x)
    BY <1>2, <2>1, <2>2
  <2> QED
    BY <1>2, <2>2, <2>3, RankIsPlace
<1>6. ASSUME NEW i \in 1 .. n, NEW j \in 1 .. n, i < j
      PROVE  <<s[i], s[j]>> \in R
  <2>1. s[i] \in S /\ s[j] \in S
    BY <1>2
  <2>2. Rank(S, R, s[i]) = i - 1 /\ Rank(S, R, s[j]) = j - 1
    BY <1>2
  <2> HIDE DEF s
  <2>3. s[i] # s[j]
    BY <1>1, <1>6, <2>2
  <2>4. ~(<<s[j], s[i]>> \in R)
    <3>1. SUFFICES ASSUME <<s[j], s[i]>> \in R PROVE FALSE
      OBVIOUS
    <3>2. Rank(S, R, s[j]) < Rank(S, R, s[i])
      BY <2>1, <3>1, RankGrows
    <3> QED
      BY <1>1, <1>6, <2>2, <3>2
  <2> QED
    BY <2>1, <2>3, <2>4 DEF StrictOrder
<1> QED
  BY <1>1, <1>2, <1>3, <1>4, <1>5, <1>6

LEMMA InOrderEmpty ==
    ASSUME NEW S, IsFiniteSet(S), NEW R, InOrderOf(S, R) = <<>>
    PROVE  S = {}
<1> DEFINE n == Cardinality(S)
<1>1. n \in Nat /\ DOMAIN InOrderOf(S, R) = 1 .. n
  BY FS_CardinalityType DEF InOrderOf
<1>2. n \in Nat /\ 1 .. n = {}
  <2>1. DOMAIN <<>> = 1 .. 0
    OBVIOUS
  <2> QED  BY <1>1, <2>1
<1>3. n = 0
  <2> HIDE DEF n
  <2>1. ~(1 <= n)
    BY <1>2
  <2> QED  BY <1>2, <2>1
<1> QED
  BY <1>3, FS_EmptySet

(* It is the only one that has.                                            *)
LEMMA InOrderUnique ==
    ASSUME NEW S, NEW R, StrictOrder(S, R), NEW t \in Seq(S),
           \A x \in S : \E k \in DOMAIN t : t[k] = x,
           \A i, j \in DOMAIN t : i < j => <<t[i], t[j]>> \in R
    PROVE  IsFiniteSet(S) /\ Cardinality(S) = Len(t) /\ InOrderOf(S, R) = t
<1> DEFINE n == Len(t)
<1>1. n \in Nat /\ DOMAIN t = 1 .. n /\ t \in [1 .. n -> S]
  OBVIOUS
<1> HIDE DEF n
<1>2. \A i, j \in 1 .. n : t[i] = t[j] => i = j
  <2> SUFFICES ASSUME NEW i \in 1 .. n, NEW j \in 1 .. n, t[i] = t[j], i # j
               PROVE  FALSE
    OBVIOUS
  <2>1. <<t[i], t[i]>> \in R /\ t[i] \in S
    BY <1>1
  <2> QED
    BY <2>1 DEF StrictOrder
<1>3. t \in Bijection(1 .. n, S)
  BY <1>1, <1>2 DEF Bijection, Injection, Surjection, IsInjective
<1>4. IsFiniteSet(1 .. n) /\ Cardinality(1 .. n) = n
  <2>1. /\ IsFiniteSet(1 .. n)
        /\ Cardinality(1 .. n) = IF 1 > n THEN 0 ELSE n - 1 + 1
    BY <1>1, FS_Interval
  <2> QED
    BY <1>1, <2>1
<1>5. IsFiniteSet(S) /\ Cardinality(S) = n
  BY <1>3, <1>4, FS_Bijection DEF ExistsBijection
<1>6. ASSUME NEW k \in 1 .. n PROVE Rank(S, R, t[k]) = k - 1
  <2> DEFINE B == {y \in S : <<y, t[k]>> \in R}
             f == [i \in 1 .. k - 1 |-> t[i]]
  <2>1. ASSUME NEW i \in 1 .. k - 1 PROVE t[i] \in B
    <3>1. i \in DOMAIN t /\ k \in DOMAIN t /\ i < k
      BY <1>1
    <3> QED
      BY <1>1, <3>1
  <2>2. ASSUME NEW y \in B PROVE \E i \in 1 .. k - 1 : t[i] = y
    <3>1. PICK i \in 1 .. n : t[i] = y
      BY <1>1
    <3>2. ~(k <= i)
      <4>1. SUFFICES ASSUME k <= i PROVE FALSE
        OBVIOUS
      <4>2. CASE k = i
        <5>1. <<y, y>> \in R /\ y \in S
          BY <3>1, <4>2
        <5> QED
          BY <5>1 DEF StrictOrder
      <4>3. CASE k # i
        <5>1. <<t[k], y>> \in R /\ <<y, t[k]>> \in R
          BY <1>1, <3>1, <4>1, <4>3
        <5>2. <<y, y>> \in R /\ y \in S
          BY <1>1, <5>1 DEF StrictOrder
        <5> QED
          BY <5>2 DEF StrictOrder
      <4> QED
        BY <4>2, <4>3
    <3> QED
      BY <1>1, <3>1, <3>2
  <2> HIDE DEF B
  <2>3. f \in Bijection(1 .. k - 1, B)
    BY <1>1, <1>2, <2>1, <2>2 DEF Bijection, Injection, Surjection, IsInjective
  <2>4. IsFiniteSet(1 .. k - 1) /\ Cardinality(1 .. k - 1) = k - 1
    <3>1. /\ IsFiniteSet(1 .. k - 1)
          /\ Cardinality(1 .. k - 1)
               = IF 1 > k - 1 THEN 0 ELSE (k - 1) - 1 + 1
      <4>1. k - 1 \in Int
        BY <1>1
      <4> QED
        BY <4>1, FS_Interval
    <3> QED
      BY <1>1, <3>1
  <2>5. Cardinality(B) = k - 1
    BY <2>3, <2>4, FS_Bijection DEF ExistsBijection
  <2> QED
    BY <2>5 DEF B, Rank
<1>7. ASSUME NEW k \in 1 .. n
      PROVE  (CHOOSE x \in S : Rank(S, R, x) = k - 1) = t[k]
  <2> DEFINE c == CHOOSE x \in S : Rank(S, R, x) = k - 1
  <2>1. t[k] \in S /\ Rank(S, R, t[k]) = k - 1
    BY <1>1, <1>6
  <2>2. c \in S /\ Rank(S, R, c) = k - 1
    BY <2>1
  <2> HIDE DEF c
  <2> QED
    BY <1>5, <2>1, <2>2, RankIsPlace DEF c
<1>8. InOrderOf(S, R) = [k \in 1 .. n |-> t[k]]
  BY <1>5, <1>7 DEF InOrderOf
<1> QED
  BY <1>1, <1>5, <1>8

(* Two sets in order, member by member the same, are the same sequence.    *)
LEMMA InOrderMapped ==
    ASSUME NEW S, IsFiniteSet(S), NEW R, StrictOrder(S, R),
           NEW T, NEW Q, StrictOrder(T, Q), NEW f \in [S -> T],
           \A y \in T : \E x \in S : f[x] = y,
           \A x, y \in S : <<x, y>> \in R => <<f[x], f[y]>> \in Q
    PROVE  /\ IsFiniteSet(T) /\ Cardinality(T) = Cardinality(S)
           /\ InOrderOf(T, Q)
                = [k \in 1 .. Cardinality(S) |-> f[InOrderOf(S, R)[k]]]
<1> DEFINE n == Cardinality(S)
           s == InOrderOf(S, R)
           t == [k \in 1 .. n |-> f[s[k]]]
<1>1. /\ s \in Seq(S) /\ DOMAIN s = 1 .. n /\ n \in Nat
      /\ \A x \in S : \E k \in DOMAIN s : s[k] = x
      /\ \A k \in DOMAIN s : s[k] \in S
      /\ \A i, j \in DOMAIN s : i < j => <<s[i], s[j]>> \in R
  BY InOrderFacts
<1> HIDE DEF s, n
<1>2. t \in Seq(T) /\ DOMAIN t = 1 .. n /\ Len(t) = n
  <2>1. t \in [1 .. n -> T]
    BY <1>1
  <2> QED
    BY <1>1, <2>1
<1>3. \A y \in T : \E k \in DOMAIN t : t[k] = y
  BY <1>1, <1>2
<1>4. \A i, j \in DOMAIN t : i < j => <<t[i], t[j]>> \in Q
  BY <1>1, <1>2
<1> HIDE DEF t
<1>5. IsFiniteSet(T) /\ Cardinality(T) = n /\ InOrderOf(T, Q) = t
  BY <1>2, <1>3, <1>4, InOrderUnique
<1> QED
  BY <1>5 DEF t, n, s
=============================================================================
