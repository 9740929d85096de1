----------------------------- MODULE ListsProofs -----------------------------
(***************************************************************************)
(* What the other proofs need of finite sets of numbers, of their lists    *)
(* and of sums.                                                            *)
(***************************************************************************)
EXTENDS Lists, Functions, FiniteSetTheorems, WellFoundedInduction, TLAPS

\* A nonempty set of naturals has a least member.
LEMMA LeastMember ==
  ASSUME NEW S \in SUBSET Nat, S # {}
  PROVE  \E i \in S : \A j \in S : i <= j
<1> DEFINE Below == {ss \in Nat \X Nat : ss[1] < ss[2]}
<1>1. IsWellFoundedOn(Below, Nat)
  BY NatLessThanWellFounded, Zenon DEF OpToRel
<1>2. PICK i \in S : \A j \in S : ~(<<j, i>> \in Below)
  <2> HIDE DEF Below
  <2> QED BY <1>1, WFMin
<1>3. ASSUME NEW j \in S PROVE i <= j
  <2>1. i \in Nat /\ j \in Nat
    OBVIOUS
  <2>2. j < i => <<j, i>> \in Below
    BY <2>1
  <2> QED
    BY <1>2, <2>1, <2>2
<1> QED
  BY <1>3

-----------------------------------------------------------------------------
(* Finite sets of numbers in their order.                                  *)

Rank(S, e) == Cardinality({f \in S : f <= e})

\* The elements of a finite set are numbered by their ranks.
LEMMA RankFacts ==
  ASSUME NEW S \in SUBSET Nat, IsFiniteSet(S)
  PROVE  /\ Cardinality(S) \in Nat
         /\ \A e \in S : Rank(S, e) \in 1 .. Cardinality(S)
         /\ \A e, f \in S : e < f => Rank(S, e) < Rank(S, f)
         /\ \A n \in 1 .. Cardinality(S) : \E e \in S : Rank(S, e) = n
<1>1. Cardinality(S) \in Nat
  BY FS_CardinalityType
<1>2. ASSUME NEW e \in S PROVE IsFiniteSet({f \in S : f <= e}) /\ Rank(S, e) \in 1 .. Cardinality(S)
  <2>1. {f \in S : f <= e} \in SUBSET S /\ e \in {f \in S : f <= e}
    OBVIOUS
  <2>2. IsFiniteSet({f \in S : f <= e}) /\ Rank(S, e) <= Cardinality(S)
    BY <2>1, FS_Subset DEF Rank
  <2>3. Rank(S, e) \in Nat /\ Rank(S, e) # 0
    BY <2>1, <2>2, FS_CardinalityType, FS_EmptySet DEF Rank
  <2> QED
    BY <1>1, <2>2, <2>3
<1>3. ASSUME NEW e \in S, NEW f \in S, e < f PROVE Rank(S, e) < Rank(S, f)
  <2> DEFINE E == {g \in S : g <= e}
             F == {g \in S : g <= f}
  <2>1. E \in SUBSET F /\ f \in F /\ f \notin E
    <3>1. e \in Nat /\ f \in Nat /\ \A g \in S : g \in Nat
      OBVIOUS
    <3>2. \A g \in S : g <= e => g <= f
      BY <1>3, <3>1
    <3>3. ~(f <= e) /\ f <= f
      BY <1>3, <3>1
    <3> QED
      BY <3>2, <3>3
  <2>2. IsFiniteSet(F)
    BY <1>2
  <2>3. Cardinality(E) <= Cardinality(F) /\ Cardinality(E) # Cardinality(F)
    BY <2>1, <2>2, FS_Subset
  <2>4. Cardinality(E) \in Nat /\ Cardinality(F) \in Nat
    BY <1>2 DEF Rank
  <2> QED
    BY <2>3, <2>4 DEF Rank
<1>4. ASSUME NEW n \in 1 .. Cardinality(S) PROVE \E e \in S : Rank(S, e) = n
  <2> DEFINE T == 1 .. Cardinality(S)
             R == [e \in S |-> Rank(S, e)]
  <2>1. R \in [S -> T]
    BY <1>2
  <2>2. \A e, f \in S : R[e] = R[f] => e = f
    <3> SUFFICES ASSUME NEW e \in S, NEW f \in S, e # f PROVE R[e] # R[f]
      OBVIOUS
    <3>1. e < f \/ f < e
      OBVIOUS
    <3>2. Rank(S, e) < Rank(S, f) \/ Rank(S, f) < Rank(S, e)
      BY <1>3, <3>1
    <3>3. Rank(S, e) \in Nat /\ Rank(S, f) \in Nat
      <4>1. Rank(S, e) \in 1 .. Cardinality(S) /\ Rank(S, f) \in 1 .. Cardinality(S)
        BY <1>2
      <4> QED
        BY <1>1, <4>1
    <3> QED
      BY <3>2, <3>3
  <2>3. R \in Injection(S, T)
    BY <2>1, <2>2 DEF Injection, IsInjective
  <2>4. IsFiniteSet(T) /\ Cardinality(T) = Cardinality(S)
    BY <1>1, FS_Interval
  <2>5. R \in Surjection(S, T)
    <3> HIDE DEF R, T
    <3> QED
      BY <2>3, <2>4, FS_Injection
  <2> QED
    BY <2>5 DEF Surjection
<1> QED
  BY <1>1, <1>2, <1>3, <1>4

\* A finite set that is not empty has a greatest element.
LEMMA GreatestMember ==
  ASSUME NEW S \in SUBSET Nat, IsFiniteSet(S), S # {}
  PROVE  \E x \in S : \A e \in S : e <= x
<1>1. Cardinality(S) \in Nat /\ Cardinality(S) # 0
  BY FS_CardinalityType, FS_EmptySet
<1>2. PICK x \in S : Rank(S, x) = Cardinality(S)
  <2>1. Cardinality(S) \in 1 .. Cardinality(S)
    BY <1>1
  <2> QED
    BY <2>1, RankFacts
<1>3. ASSUME NEW e \in S PROVE e <= x
  <2>1. CASE x < e
    <3>1. Rank(S, x) < Rank(S, e) /\ Rank(S, e) <= Cardinality(S) /\ Rank(S, e) \in Nat
      BY <2>1, RankFacts
    <3> QED
      BY <1>1, <1>2, <3>1
  <2> QED
    BY <2>1
<1> QED
  BY <1>3

\* Sorted lists a finite set, each element once and in order.
LEMMA SortedFacts ==
  ASSUME NEW S \in SUBSET Nat, IsFiniteSet(S)
  PROVE  /\ Sorted(S) \in [1 .. Cardinality(S) -> S]
         /\ Sorted(S) \in Seq(S)
         /\ Ascending(Sorted(S))
         /\ Range(Sorted(S)) = S
<1> DEFINE N == Cardinality(S)
           D == 1 .. N
<1>1. N \in Nat
  BY FS_CardinalityType
<1>2. \E l \in [D -> S] : Ascending(l)
  <2> DEFINE l == [n \in D |-> CHOOSE e \in S : Rank(S, e) = n]
  <2>1. \A n \in D : l[n] \in S /\ Rank(S, l[n]) = n
    BY RankFacts
  <2>2. ASSUME NEW m \in D, NEW n \in D, m < n PROVE l[m] < l[n]
    <3>1. l[m] \in Nat /\ l[n] \in Nat /\ Rank(S, l[m]) = m /\ Rank(S, l[n]) = n
      BY <2>1
    <3>2. CASE l[n] < l[m]
      <4>1. Rank(S, l[n]) < Rank(S, l[m])
        BY <2>1, <3>2, RankFacts
      <4> QED
        BY <2>2, <3>1, <4>1
    <3>3. l[n] # l[m]
      <4>1. m \in Nat /\ n \in Nat
        BY <1>1
      <4> HIDE DEF l
      <4> QED
        BY <2>2, <3>1, <4>1
    <3> HIDE DEF l
    <3> QED
      BY <3>1, <3>2, <3>3
  <2>3. l \in [D -> S] /\ DOMAIN l = D
    BY <2>1
  <2> QED
    BY <2>2, <2>3 DEF Ascending
<1>3. Sorted(S) \in [D -> S] /\ Ascending(Sorted(S))
  BY <1>2 DEF Sorted
<1>4. Sorted(S) \in Seq(S)
  BY <1>1, <1>3
<1>5. Sorted(S) \in Injection(D, S)
  <2>1. \A m, n \in D : Sorted(S)[m] = Sorted(S)[n] => m = n
    <3> SUFFICES ASSUME NEW m \in D, NEW n \in D, m # n PROVE Sorted(S)[m] # Sorted(S)[n]
      OBVIOUS
    <3>1. m < n \/ n < m
      OBVIOUS
    <3>2. Sorted(S)[m] < Sorted(S)[n] \/ Sorted(S)[n] < Sorted(S)[m]
      BY <1>3, <3>1 DEF Ascending
    <3>3. Sorted(S)[m] \in Nat /\ Sorted(S)[n] \in Nat
      BY <1>3
    <3> QED
      BY <3>2, <3>3
  <2> QED
    BY <1>3, <2>1 DEF Injection, IsInjective
<1>6. Sorted(S) \in Surjection(D, S)
  <2>1. IsFiniteSet(D) /\ Cardinality(D) = Cardinality(S)
    BY <1>1, FS_Interval
  <2> HIDE DEF D
  <2> QED
    BY <1>5, <2>1, FS_Injection
<1>7. Range(Sorted(S)) = S
  BY <1>3, <1>6 DEF Surjection, Range
<1> QED
  BY <1>3, <1>4, <1>7

\* What a sequence and a sorted set after it hold.
LEMMA JoinFacts ==
  ASSUME NEW r \in Seq(Nat), NEW S \in SUBSET Nat, IsFiniteSet(S)
  PROVE  /\ r \o Sorted(S) \in Seq(Nat)
         /\ Len(r \o Sorted(S)) >= Len(r)
         /\ \A e \in Range(r) \cup S : e \in Range(r \o Sorted(S))
         /\ \A n \in DOMAIN (r \o Sorted(S)) : (r \o Sorted(S))[n] \in Range(r) \cup S
<1> DEFINE s == Sorted(S)
<1>1. s \in Seq(S) /\ Range(s) = S
  BY SortedFacts
<1> HIDE DEF s
<1>2. s \in Seq(Nat)
  <2>1. Len(s) \in Nat /\ s \in [1 .. Len(s) -> S]
    BY <1>1
  <2>2. s \in [1 .. Len(s) -> Nat]
    BY <2>1
  <2> QED
    BY <2>1, <2>2
<1>3. /\ r \o s \in Seq(Nat) /\ Len(r \o s) = Len(r) + Len(s)
      /\ \A n \in 1 .. Len(r) : (r \o s)[n] = r[n]
      /\ \A n \in 1 .. Len(s) : (r \o s)[n + Len(r)] = s[n]
      /\ \A n \in 1 .. Len(r) + Len(s) : n \in 1 .. Len(r) \/ (n - Len(r) \in 1 .. Len(s) /\ (r \o s)[n] = s[n - Len(r)])
  BY <1>2
<1>4. Len(r) \in Nat /\ Len(s) \in Nat /\ DOMAIN r = 1 .. Len(r) /\ DOMAIN s = 1 .. Len(s)
      /\ DOMAIN (r \o s) = 1 .. Len(r) + Len(s)
  BY <1>2, <1>3
<1>5. ASSUME NEW e \in Range(r) PROVE e \in Range(r \o s)
  <2>1. PICK n \in 1 .. Len(r) : r[n] = e
    BY <1>4 DEF Range
  <2>2. n \in DOMAIN (r \o s) /\ (r \o s)[n] = e
    BY <1>3, <1>4, <2>1
  <2> QED
    BY <2>2 DEF Range
<1>6. ASSUME NEW e \in S PROVE e \in Range(r \o s)
  <2>1. PICK n \in 1 .. Len(s) : s[n] = e
    BY <1>1, <1>4 DEF Range
  <2>2. n + Len(r) \in DOMAIN (r \o s) /\ (r \o s)[n + Len(r)] = e
    BY <1>3, <1>4, <2>1
  <2> QED
    BY <2>2 DEF Range
<1>7. ASSUME NEW n \in DOMAIN (r \o s) PROVE (r \o s)[n] \in Range(r) \cup S
  <2>1. CASE n \in 1 .. Len(r)
    BY <1>3, <1>4, <2>1 DEF Range
  <2>2. CASE n - Len(r) \in 1 .. Len(s) /\ (r \o s)[n] = s[n - Len(r)]
    BY <1>1, <1>4, <2>2 DEF Range
  <2> QED
    BY <1>3, <1>4, <2>1, <2>2
<1>8. Len(r \o s) >= Len(r)
  BY <1>3, <1>4
<1> QED
  BY <1>3, <1>5, <1>6, <1>7, <1>8, Zenon DEF s

\* Greater elements after an ascending sequence keep it ascending.
LEMMA JoinAscends ==
  ASSUME NEW r \in Seq(Nat), NEW S \in SUBSET Nat, IsFiniteSet(S), NEW b \in Nat,
         Ascending(r), \A n \in DOMAIN r : r[n] <= b, \A e \in S : e > b
  PROVE  Ascending(r \o Sorted(S))
<1> DEFINE s == Sorted(S)
           t == r \o s
<1>1. s \in Seq(S) /\ Ascending(s)
  BY SortedFacts
<1> HIDE DEF s
<1>2. Len(r) \in Nat /\ Len(s) \in Nat /\ DOMAIN r = 1 .. Len(r) /\ DOMAIN s = 1 .. Len(s)
      /\ DOMAIN t = 1 .. Len(r) + Len(s)
  BY <1>1
<1>3. \A n \in DOMAIN t : \/ n \in 1 .. Len(r) /\ t[n] = r[n]
                          \/ n - Len(r) \in 1 .. Len(s) /\ t[n] = s[n - Len(r)]
  BY <1>1, <1>2
<1> HIDE DEF t
<1>4. ASSUME NEW m \in DOMAIN t, NEW n \in DOMAIN t, m < n PROVE t[m] < t[n]
  <2>1. CASE n \in 1 .. Len(r) /\ t[n] = r[n]
    <3>1. m \in 1 .. Len(r) /\ t[m] = r[m]
      BY <1>2, <1>3, <1>4, <2>1
    <3> QED
      BY <1>2, <1>4, <2>1, <3>1 DEF Ascending
  <2>2. CASE n - Len(r) \in 1 .. Len(s) /\ t[n] = s[n - Len(r)]
    <3>1. CASE m \in 1 .. Len(r) /\ t[m] = r[m]
      <4>1. s[n - Len(r)] \in S
        BY <1>1, <1>2, <2>2
      <4>2. r[m] \in Nat /\ r[m] <= b
        BY <1>2, <3>1
      <4>3. t[n] \in S /\ t[n] \in Nat /\ t[m] \in Nat /\ t[m] <= b
        BY <2>2, <3>1, <4>1, <4>2
      <4>4. t[n] > b
        BY <4>3
      <4> QED
        BY <4>3, <4>4
    <3>2. CASE m - Len(r) \in 1 .. Len(s) /\ t[m] = s[m - Len(r)]
      <4>1. m - Len(r) < n - Len(r)
        BY <1>2, <1>4
      <4> QED
        BY <1>1, <1>2, <2>2, <3>2, <4>1 DEF Ascending
    <3> QED
      BY <1>3, <3>1, <3>2
  <2> QED
    BY <1>3, <2>1, <2>2
<1> QED
  BY <1>4 DEF Ascending, t, s

-----------------------------------------------------------------------------
(* Sums.                                                                   *)

\* sum has the sum of the first n elements at n.
IsSum(list, sum) ==
  /\ sum \in [0 .. Len(list) -> Nat]
  /\ sum[0] = 0
  /\ \A n \in 1 .. Len(list) : sum[n] = sum[n - 1] + list[n]

\* The sums of the first elements are determined.
LEMMA SumsAgree ==
  ASSUME NEW list \in Seq(Nat), NEW s, IsSum(list, s),
         NEW t, t = [n \in 0 .. Len(list) |-> IF n = 0 THEN 0 ELSE t[n - 1] + list[n]]
  PROVE  \A n \in 0 .. Len(list) : t[n] = s[n]
<1> DEFINE D == 0 .. Len(list)
           Bad == {n \in D : t[n] # s[n]}
<1>1. Len(list) \in Nat
  OBVIOUS
<1>2. \A n \in D : t[n] = IF n = 0 THEN 0 ELSE t[n - 1] + list[n]
  <2>1. \A n \in D : [m \in D |-> IF m = 0 THEN 0 ELSE t[m - 1] + list[m]][n]
                       = IF n = 0 THEN 0 ELSE t[n - 1] + list[n]
    OBVIOUS
  <2> QED
    BY <2>1
<1>3. Bad = {}
  <2> SUFFICES ASSUME Bad # {} PROVE FALSE
    OBVIOUS
  <2>0. Bad \in SUBSET Nat
    BY <1>1
  <2>1. PICK n \in Bad : \A m \in Bad : n <= m
    <3> HIDE DEF Bad
    <3> QED
      BY <2>0, LeastMember
  <2>2. n \in D /\ n # 0
    BY <1>1, <1>2, <2>1 DEF IsSum
  <2>3. n - 1 \in D /\ n - 1 \notin Bad
    <3>1. n \in Nat /\ n - 1 \in D
      BY <1>1, <2>2
    <3> HIDE DEF Bad
    <3> QED
      BY <2>1, <3>1
  <2>4. t[n - 1] = s[n - 1]
    BY <2>3
  <2>5. t[n] = t[n - 1] + list[n] /\ s[n] = s[n - 1] + list[n]
    BY <1>1, <1>2, <2>2 DEF IsSum
  <2> QED
    BY <2>1, <2>4, <2>5
<1> QED
  BY <1>3

\* Every list has such sums.
LEMMA SumsExist ==
  ASSUME NEW list \in Seq(Nat)
  PROVE  \E s : IsSum(list, s)
<1> DEFINE Part(k) == {s \in [0 .. k -> Nat] : s[0] = 0 /\ \A n \in 1 .. k : s[n] = s[n - 1] + list[n]}
           D == 0 .. Len(list)
           Bad == {k \in D : Part(k) = {}}
<1>1. Len(list) \in Nat
  OBVIOUS
<1>2. Bad = {}
  <2> SUFFICES ASSUME Bad # {} PROVE FALSE
    OBVIOUS
  <2>0. Bad \in SUBSET Nat
    BY <1>1
  <2>1. PICK k \in Bad : \A m \in Bad : k <= m
    <3> HIDE DEF Bad
    <3> QED
      BY <2>0, LeastMember
  <2>2. k # 0
    <3>1. [n \in 0 .. 0 |-> 0] \in Part(0)
      OBVIOUS
    <3> QED
      BY <2>1, <3>1
  <2>3. k \in D /\ k - 1 \in D /\ k - 1 \notin Bad /\ k \in Nat /\ k - 1 \in Nat
    <3>1. k \in D
      BY <2>1
    <3>2. k \in Nat /\ k - 1 \in D /\ k - 1 \in Nat
      BY <1>1, <2>2, <3>1
    <3> HIDE DEF Bad
    <3> QED
      BY <2>1, <3>1, <3>2
  <2>4. PICK s \in Part(k - 1) : TRUE
    BY <2>3
  <2> DEFINE t == [n \in 0 .. k |-> IF n = k THEN s[k - 1] + list[k] ELSE s[n]]
  <2>5. /\ s \in [0 .. k - 1 -> Nat] /\ s[0] = 0
        /\ \A n \in 1 .. k - 1 : s[n] = s[n - 1] + list[n]
    BY <2>4
  <2>6. list[k] \in Nat
    BY <2>2, <2>3
  <2>7. t \in [0 .. k -> Nat] /\ t[0] = 0
    BY <2>2, <2>3, <2>5, <2>6
  <2>8. ASSUME NEW n \in 1 .. k PROVE t[n] = t[n - 1] + list[n]
    BY <2>3, <2>5
  <2>9. t \in Part(k)
    BY <2>7, <2>8
  <2> QED
    BY <2>1, <2>9
<1>3. PICK s \in Part(Len(list)) : TRUE
  <2>1. Len(list) \in D
    BY <1>1
  <2> HIDE DEF Part
  <2> QED
    BY <1>2, <2>1
<1> QED
  BY <1>3 DEF IsSum

\* SumOf is what such sums end with.
LEMMA SumIs ==
  ASSUME NEW list \in Seq(Nat), NEW s, IsSum(list, s)
  PROVE  SumOf(list) = s[Len(list)]
<1> DEFINE Eqn(t) == t = [n \in 0 .. Len(list) |-> IF n = 0 THEN 0 ELSE t[n - 1] + list[n]]
<1>1. Len(list) \in Nat
  OBVIOUS
<1>2. Eqn(s)
  <2>1. \A n \in 0 .. Len(list) : s[n] = IF n = 0 THEN 0 ELSE s[n - 1] + list[n]
    BY <1>1 DEF IsSum
  <2> QED
    BY <2>1 DEF IsSum
<1> DEFINE c == CHOOSE t : Eqn(t)
<1>3. Eqn(c)
  <2> HIDE DEF Eqn
  <2> QED
    BY <1>2
<1>4. SumOf(list) = c[Len(list)]
  BY DEF SumOf
<1> HIDE DEF c
<1>5. c[Len(list)] = s[Len(list)]
  BY <1>1, <1>3, SumsAgree
<1> QED
  BY <1>4, <1>5

\* The sum of no elements, and with one more at the end.
LEMMA SumAppend ==
  ASSUME NEW list \in Seq(Nat), NEW x \in Nat
  PROVE  /\ SumOf(list) \in Nat
         /\ SumOf(<< >>) = 0
         /\ SumOf(Append(list, x)) = SumOf(list) + x
<1> DEFINE N == Len(list)
           more == Append(list, x)
<1>1. /\ N \in Nat /\ more \in Seq(Nat) /\ Len(more) = N + 1 /\ more[N + 1] = x
      /\ \A n \in 1 .. N : more[n] = list[n]
  OBVIOUS
<1>2. PICK s : IsSum(list, s)
  BY SumsExist
<1>3. s \in [0 .. N -> Nat] /\ s[0] = 0 /\ \A n \in 1 .. N : s[n] = s[n - 1] + list[n]
  BY <1>2 DEF IsSum
<1>4. SumOf(list) = s[N] /\ s[N] \in Nat
  BY <1>1, <1>2, <1>3, SumIs
<1>5. SumOf(<< >>) = 0
  <2> DEFINE none == << >>
             zero == [n \in 0 .. 0 |-> 0]
  <2>1. none \in Seq(Nat) /\ Len(none) = 0
    OBVIOUS
  <2>2. zero \in [0 .. 0 -> Nat] /\ zero[0] = 0
    OBVIOUS
  <2> HIDE DEF none, zero
  <2>3. IsSum(none, zero)
    BY <2>1, <2>2 DEF IsSum
  <2>4. SumOf(none) = zero[0]
    BY <2>1, <2>3, SumIs
  <2> QED
    BY <2>2, <2>4 DEF none
<1> DEFINE t == [n \in 0 .. N + 1 |-> IF n = N + 1 THEN s[N] + x ELSE s[n]]
<1>6. t \in [0 .. N + 1 -> Nat] /\ t[0] = 0 /\ t[N + 1] = s[N] + x
  BY <1>1, <1>3, <1>4
<1>7. ASSUME NEW n \in 1 .. N + 1 PROVE t[n] = t[n - 1] + more[n]
  <2> HIDE DEF more
  <2>1. CASE n = N + 1
    <3>1. t[n - 1] = s[N]
      BY <1>1, <2>1
    <3> QED
      BY <1>1, <1>6, <2>1, <3>1
  <2>2. CASE n \in 1 .. N
    <3>1. t[n] = s[n] /\ t[n - 1] = s[n - 1]
      BY <1>1, <2>2
    <3> QED
      BY <1>1, <1>3, <2>2, <3>1
  <2> QED
    BY <1>1, <2>1, <2>2
<1>8. IsSum(more, t)
  BY <1>1, <1>6, <1>7 DEF IsSum
<1>9. SumOf(more) = t[N + 1]
  <2> HIDE DEF t, more
  <2> QED
    BY <1>1, <1>8, SumIs
<1> QED
  BY <1>4, <1>5, <1>6, <1>9

\* The first element, taken away.
LEMMA SumTail ==
  ASSUME NEW list \in Seq(Nat), list # << >>
  PROVE  SumOf(list) = Head(list) + SumOf(Tail(list))
<1> DEFINE N == Len(list)
           rest == Tail(list)
<1>1. /\ N \in Nat /\ N # 0 /\ rest \in Seq(Nat) /\ Len(rest) = N - 1
      /\ Head(list) = list[1] /\ list[1] \in Nat
      /\ \A n \in 1 .. N - 1 : rest[n] = list[n + 1]
  OBVIOUS
<1>2. PICK s : IsSum(rest, s)
  BY <1>1, SumsExist
<1> HIDE DEF rest
<1>3. s \in [0 .. N - 1 -> Nat] /\ s[0] = 0 /\ \A n \in 1 .. N - 1 : s[n] = s[n - 1] + rest[n]
  BY <1>1, <1>2 DEF IsSum
<1> DEFINE t == [n \in 0 .. N |-> IF n = 0 THEN 0 ELSE list[1] + s[n - 1]]
<1>4. t \in [0 .. N -> Nat] /\ t[0] = 0 /\ t[N] = list[1] + s[N - 1]
  <2> HIDE DEF N
  <2>1. ASSUME NEW n \in 0 .. N PROVE (IF n = 0 THEN 0 ELSE list[1] + s[n - 1]) \in Nat
    <3>1. CASE n = 0
      BY <3>1
    <3>2. CASE n # 0
      <4>1. n - 1 \in 0 .. N - 1
        BY <1>1, <3>2
      <4>2. s[n - 1] \in Nat
        BY <1>3, <4>1
      <4> QED
        BY <1>1, <3>2, <4>2
    <3> QED
      BY <3>1, <3>2
  <2>2. t \in [0 .. N -> Nat]
    BY <2>1
  <2>3. 0 \in 0 .. N /\ N \in 0 .. N
    BY <1>1
  <2> QED
    BY <1>1, <2>2, <2>3
<1>5. ASSUME NEW n \in 1 .. N PROVE t[n] = t[n - 1] + list[n]
  <2>1. CASE n = 1
    BY <1>1, <1>3, <2>1
  <2>2. CASE n \in 2 .. N
    <3>1. n - 1 \in 1 .. N - 1 /\ rest[n - 1] = list[n] /\ s[n - 1] = s[n - 2] + rest[n - 1]
      <4>1. n - 1 \in 1 .. N - 1 /\ (n - 1) + 1 = n /\ (n - 1) - 1 = n - 2
        BY <1>1, <2>2
      <4> QED
        BY <1>1, <1>3, <4>1
    <3>2. t[n] = list[1] + s[n - 1] /\ t[n - 1] = list[1] + s[n - 2]
      BY <1>1, <2>2
    <3>3. s[n - 2] \in Nat /\ list[n] \in Nat
      <4>1. n - 2 \in 0 .. N - 1
        BY <1>1, <2>2
      <4>2. s[n - 2] \in Nat
        BY <1>3, <4>1
      <4> QED
        BY <2>2, <4>2
    <3> QED
      BY <1>1, <3>1, <3>2, <3>3
  <2> QED
    BY <1>1, <2>1, <2>2
<1>6. IsSum(list, t)
  BY <1>4, <1>5 DEF IsSum
<1>7. SumOf(list) = t[N] /\ SumOf(rest) = s[N - 1]
  <2> HIDE DEF t
  <2> QED
    BY <1>1, <1>2, <1>6, SumIs
<1> QED
  BY <1>1, <1>4, <1>7 DEF rest

\* One element that was 0 and is x.
LEMMA SumExcept ==
  ASSUME NEW N \in Nat, NEW list \in [1 .. N -> Nat], NEW b \in 1 .. N, NEW x \in Nat, list[b] = 0
  PROVE  SumOf([list EXCEPT ![b] = x]) = SumOf(list) + x
<1> DEFINE more == [list EXCEPT ![b] = x]
<1>1. list \in Seq(Nat) /\ Len(list) = N
  OBVIOUS
<1>2. /\ more \in Seq(Nat) /\ Len(more) = N /\ more[b] = x
      /\ \A n \in 1 .. N : n # b => more[n] = list[n]
  OBVIOUS
<1>3. PICK s : IsSum(list, s)
  BY <1>1, SumsExist
<1> HIDE DEF more
<1>4. s \in [0 .. N -> Nat] /\ s[0] = 0 /\ \A n \in 1 .. N : s[n] = s[n - 1] + list[n]
  BY <1>1, <1>3 DEF IsSum
<1> DEFINE t == [n \in 0 .. N |-> IF n < b THEN s[n] ELSE s[n] + x]
<1>5. t \in [0 .. N -> Nat] /\ t[0] = 0 /\ t[N] = s[N] + x
  BY <1>4
<1>6. ASSUME NEW n \in 1 .. N PROVE t[n] = t[n - 1] + more[n]
  <2>1. n - 1 \in 0 .. N /\ s[n] \in Nat /\ s[n - 1] \in Nat /\ list[n] \in Nat /\ s[n] = s[n - 1] + list[n]
    BY <1>4
  <2>2. CASE n < b
    <3>1. t[n] = s[n] /\ t[n - 1] = s[n - 1] /\ more[n] = list[n]
      BY <1>2, <2>1, <2>2
    <3> QED
      BY <2>1, <3>1
  <2>3. CASE n = b
    <3>1. t[n] = s[n] + x /\ t[n - 1] = s[n - 1] /\ more[n] = x /\ list[n] = 0
      BY <1>2, <2>1, <2>3
    <3> QED
      BY <2>1, <3>1
  <2>4. CASE n > b
    <3>0. n \in 0 .. N /\ ~(n < b) /\ ~(n - 1 < b) /\ n # b
      BY <2>4
    <3>1. t[n] = s[n] + x /\ t[n - 1] = s[n - 1] + x
      BY <2>1, <3>0
    <3>2. more[n] = list[n]
      BY <1>2, <3>0
    <3> QED
      BY <2>1, <3>1, <3>2
  <2> QED
    BY <2>2, <2>3, <2>4
<1>7. IsSum(more, t)
  BY <1>2, <1>5, <1>6 DEF IsSum
<1>8. SumOf(list) = s[N] /\ SumOf(more) = t[N]
  <2> HIDE DEF t
  <2> QED
    BY <1>1, <1>2, <1>3, <1>7, SumIs
<1> QED
  BY <1>5, <1>8 DEF more

\* Nothing but zeros.
LEMMA SumZero ==
  ASSUME NEW N \in Nat
  PROVE  SumOf([n \in 1 .. N |-> 0]) = 0
<1> DEFINE list == [n \in 1 .. N |-> 0]
           s == [n \in 0 .. N |-> 0]
<1>1. list \in Seq(Nat) /\ Len(list) = N
  OBVIOUS
<1>2. IsSum(list, s) /\ s[N] = 0
  BY <1>1 DEF IsSum
<1> HIDE DEF list, s
<1>3. SumOf(list) = s[N]
  BY <1>1, <1>2, SumIs
<1> QED
  BY <1>2, <1>3 DEF list

\* The sum over a part of the numbers 1 to N, and over one more of them.
LEMMA SumOver ==
  ASSUME NEW N \in Nat, NEW len \in [1 .. N -> Nat], NEW part \in SUBSET (1 .. N)
  PROVE  LET sum(set) == SumOf([b \in 1 .. N |-> IF b \in set THEN len[b] ELSE 0])
         IN  /\ sum(part) \in Nat
             /\ sum({}) = 0
             /\ \A b \in (1 .. N) \ part : sum(part \cup {b}) = sum(part) + len[b]
<1> DEFINE list(set) == [b \in 1 .. N |-> IF b \in set THEN len[b] ELSE 0]
<1>1. list(part) \in [1 .. N -> Nat]
  OBVIOUS
<1>2. SumOf(list(part)) \in Nat
  <2>1. list(part) \in Seq(Nat)
    BY <1>1
  <2> HIDE DEF list
  <2> QED
    BY <2>1, SumAppend
<1>3. SumOf(list({})) = 0
  <2>1. list({}) = [b \in 1 .. N |-> 0]
    OBVIOUS
  <2> QED
    BY <2>1, SumZero
<1>4. ASSUME NEW b \in (1 .. N) \ part
      PROVE  SumOf(list(part \cup {b})) = SumOf(list(part)) + len[b]
  <2> DEFINE less == list(part)
  <2>1. list(part \cup {b}) = [less EXCEPT ![b] = len[b]]
    OBVIOUS
  <2>2. less \in [1 .. N -> Nat] /\ less[b] = 0 /\ len[b] \in Nat /\ b \in 1 .. N
    BY <1>1
  <2> HIDE DEF less, list
  <2>3. SumOf([less EXCEPT ![b] = len[b]]) = SumOf(less) + len[b]
    BY <2>2, SumExcept
  <2> QED
    BY <2>1, <2>3 DEF less
<1> QED
  BY <1>2, <1>3, <1>4

-----------------------------------------------------------------------------
(* Parts of a list.                                                        *)

\* The n-th element of a sorted set is the one of rank n.
LEMMA SortedRank ==
  ASSUME NEW S \in SUBSET Nat, IsFiniteSet(S)
  PROVE  /\ Sorted(S) \in [1 .. Cardinality(S) -> S]
         /\ \A n \in 1 .. Cardinality(S) : Rank(S, Sorted(S)[n]) = n
         /\ \A e \in S : Sorted(S)[Rank(S, e)] = e
<1> DEFINE N == Cardinality(S)
           l == Sorted(S)
<1>1. N \in Nat /\ \A e \in S : Rank(S, e) \in 1 .. N
  BY RankFacts
<1>2. /\ l \in [1 .. N -> S]
      /\ \A m, n \in 1 .. N : m < n => l[m] < l[n]
      /\ \A e \in S : \E n \in 1 .. N : l[n] = e
  <2>1. l \in [1 .. N -> S] /\ Ascending(l) /\ Range(l) = S
    BY SortedFacts
  <2> HIDE DEF l, N
  <2> QED
    BY <2>1 DEF Ascending, Range
<1> HIDE DEF l, N
<1>3. ASSUME NEW n \in 1 .. N PROVE Rank(S, l[n]) = n
  <2> DEFINE low == {f \in S : f <= l[n]}
             part == [m \in 1 .. n |-> l[m]]
  <2>1. \A m \in 1 .. N : l[m] \in Nat
    BY <1>2
  <2>2. ASSUME NEW m \in 1 .. N PROVE l[m] <= l[n] <=> m <= n
    <3>1. m \in Nat /\ n \in Nat /\ l[m] \in Nat /\ l[n] \in Nat
      BY <1>1, <2>1
    <3>2. (m < n => l[m] < l[n]) /\ (n < m => l[n] < l[m])
      BY <1>2
    <3>3. m = n => l[m] = l[n]
      OBVIOUS
    <3> QED
      BY <3>1, <3>2, <3>3
  <2>3. \A m \in 1 .. n : m \in 1 .. N
    BY <1>1
  <2>4. part \in [1 .. n -> low]
    BY <1>1, <1>2, <2>2, <2>3
  <2>5. ASSUME NEW m \in 1 .. n, NEW k \in 1 .. n, part[m] = part[k] PROVE m = k
    <3>1. m \in 1 .. N /\ k \in 1 .. N /\ l[m] = l[k]
      BY <2>3, <2>5
    <3>2. (m < k => l[m] < l[k]) /\ (k < m => l[k] < l[m])
      BY <1>2, <3>1
    <3>3. m \in Int /\ k \in Int /\ l[m] \in Nat
      BY <2>1, <3>1
    <3> QED
      BY <3>1, <3>2, <3>3
  <2>6. \A e \in low : \E m \in 1 .. n : part[m] = e
    BY <1>1, <1>2, <2>2
  <2>7. part \in Bijection(1 .. n, low)
    BY <2>4, <2>5, <2>6 DEF Bijection, Injection, Surjection, IsInjective
  <2>8. n \in Nat /\ ExistsBijection(1 .. n, low)
    <3> HIDE DEF low, part
    <3>1. ExistsBijection(1 .. n, low)
      BY <2>7 DEF ExistsBijection
    <3> QED
      BY <1>1, <3>1
  <2>9. Cardinality(low) = n
    <3> HIDE DEF low
    <3> QED
      BY <2>8, FS_CountingElements
  <2> QED
    BY <2>9 DEF Rank
<1>4. ASSUME NEW e \in S PROVE l[Rank(S, e)] = e
  BY <1>2, <1>3
<1> QED
  BY <1>2, <1>3, <1>4 DEF l, N

\* What is chosen of a list: as many elements as positions, the one at e in
\* the place that e has among the positions; everything, if all are chosen.
LEMMA ChosenFacts ==
  ASSUME NEW T, NEW list \in Seq(T), NEW S \in SUBSET (DOMAIN list)
  PROVE  /\ IsFiniteSet(S) /\ Cardinality(S) \in Nat /\ Cardinality(S) <= Len(list)
         /\ Chosen(list, S) \in [1 .. Cardinality(S) -> T]
         /\ Chosen(list, S) \in Seq(T) /\ Len(Chosen(list, S)) = Cardinality(S)
         /\ \A e \in S : /\ Rank(S, e) \in 1 .. Cardinality(S)
                         /\ Chosen(list, S)[Rank(S, e)] = list[e]
<1> DEFINE N == Len(list)
           C == Cardinality(S)
<1>1. N \in Nat /\ DOMAIN list = 1 .. N /\ S \in SUBSET Nat /\ S \in SUBSET (1 .. N)
  OBVIOUS
<1>2. IsFiniteSet(1 .. N) /\ Cardinality(1 .. N) = N
  BY <1>1, FS_Interval
<1>3. IsFiniteSet(S) /\ C \in Nat /\ C <= N
  <2> HIDE DEF N
  <2> QED
    BY <1>1, <1>2, FS_Subset, FS_CardinalityType
<1>4. /\ Sorted(S) \in [1 .. C -> S]
      /\ \A e \in S : Sorted(S)[Rank(S, e)] = e /\ Rank(S, e) \in 1 .. C
  BY <1>1, <1>3, SortedRank, RankFacts
<1>5. Chosen(list, S) = [n \in 1 .. C |-> list[Sorted(S)[n]]]
  BY DEF Chosen
<1> HIDE DEF C
<1>6. \A n \in 1 .. C : list[Sorted(S)[n]] \in T
  <2> SUFFICES ASSUME NEW n \in 1 .. C PROVE list[Sorted(S)[n]] \in T
    OBVIOUS
  <2>1. Sorted(S)[n] \in DOMAIN list
    BY <1>4
  <2> QED
    BY <2>1
<1>7. Chosen(list, S) \in [1 .. C -> T]
  BY <1>5, <1>6
<1>8. Chosen(list, S) \in Seq(T) /\ Len(Chosen(list, S)) = C
  BY <1>3, <1>7
<1>9. \A e \in S : Chosen(list, S)[Rank(S, e)] = list[e]
  BY <1>4, <1>5
<1> QED
  BY <1>3, <1>4, <1>7, <1>8, <1>9 DEF C

=============================================================================
