---------------------------- MODULE ListTheorems ----------------------------
(***************************************************************************)
(* What the lists of the server (server/list.h: list_add_tail, list_remove)*)
(* hold after an element came or went: facts about sequences that the      *)
(* proofs of several modules use.                                          *)
(***************************************************************************)
EXTENDS Lists, SequencesExt, SequenceTheorems, FiniteSetTheorems, WellFoundedInduction, TLAPS

\* What list_remove leaves of a list.
LEMMA RemoveAtFacts ==
  ASSUME NEW S, NEW q \in Seq(S), NEW i \in DOMAIN q
  PROVE  /\ RemoveAt(q, i) \in Seq(S)
         /\ Len(q) \in Nat /\ i \in 1..Len(q) /\ Len(RemoveAt(q, i)) = Len(q) - 1
         /\ \A j \in 1..(Len(q) - 1) : RemoveAt(q, i)[j] = IF j < i THEN q[j] ELSE q[j + 1]
<1> DEFINE a == SubSeq(q, 1, i - 1)
           b == SubSeq(q, i + 1, Len(q))
<1>1. Len(q) \in Nat /\ i \in 1..Len(q) /\ DOMAIN q = 1..Len(q)
  OBVIOUS
<1>2. /\ a \in Seq(S) /\ Len(a) = i - 1
      /\ \A j \in 1..(i - 1) : a[j] = q[j]
  BY <1>1, SubSeqProperties
<1>3. /\ b \in Seq(S) /\ Len(b) = Len(q) - i
      /\ \A j \in 1..(Len(q) - i) : b[j] = q[i + j]
  BY <1>1, SubSeqProperties
<1>4. /\ a \o b \in Seq(S) /\ Len(a \o b) = Len(q) - 1
      /\ \A j \in 1..(Len(q) - 1) : (a \o b)[j] = IF j <= i - 1 THEN a[j] ELSE b[j - (i - 1)]
  <2> HIDE DEF a, b
  <2>1. a \o b \in Seq(S) /\ Len(a \o b) = Len(a) + Len(b)
    BY <1>2, <1>3, ConcatProperties
  <2>2. \A j \in 1..(Len(a) + Len(b)) : (a \o b)[j] = IF j <= Len(a) THEN a[j] ELSE b[j - Len(a)]
    BY <1>2, <1>3, ConcatProperties
  <2> QED
    BY <1>1, <1>2, <1>3, <2>1, <2>2
<1>5. \A j \in 1..(Len(q) - 1) : (a \o b)[j] = IF j < i THEN q[j] ELSE q[j + 1]
  <2> HIDE DEF a, b
  <2>1. SUFFICES ASSUME NEW j \in 1..(Len(q) - 1) PROVE (a \o b)[j] = IF j < i THEN q[j] ELSE q[j + 1]
    OBVIOUS
  <2>2. CASE j < i
    BY <1>1, <1>2, <1>4, <2>2
  <2>3. CASE ~ (j < i)
    <3>1. j - (i - 1) \in 1..(Len(q) - i) /\ i + (j - (i - 1)) = j + 1
      BY <1>1, <2>3
    <3>2. (a \o b)[j] = b[j - (i - 1)]
      BY <1>1, <1>4, <2>3
    <3>3. b[j - (i - 1)] = q[i + (j - (i - 1))]
      BY <1>3, <3>1
    <3> QED
      BY <2>3, <3>1, <3>2, <3>3
  <2> QED
    BY <2>2, <2>3
<1>6. RemoveAt(q, i) = a \o b
  BY DEF RemoveAt
<1> QED
  BY <1>1, <1>4, <1>5, <1>6

\* Which elements are left: those at any other place, in the same order.
LEMMA RemoveAtPlaces ==
  ASSUME NEW S, NEW q \in Seq(S), NEW i \in DOMAIN q
  PROVE  /\ DOMAIN q = 1..Len(q) /\ DOMAIN RemoveAt(q, i) = 1..(Len(q) - 1)
         /\ \A j \in DOMAIN RemoveAt(q, i) : \E k \in DOMAIN q :
              k # i /\ k = (IF j < i THEN j ELSE j + 1) /\ RemoveAt(q, i)[j] = q[k]
         /\ \A k \in DOMAIN q : k # i =>
              \E j \in DOMAIN RemoveAt(q, i) : RemoveAt(q, i)[j] = q[k]
<1> DEFINE r == RemoveAt(q, i)
           n == Len(q)
<1>1. /\ r \in Seq(S) /\ n \in Nat /\ i \in 1..n /\ Len(r) = n - 1
      /\ \A j \in 1..(n - 1) : r[j] = IF j < i THEN q[j] ELSE q[j + 1]
  BY RemoveAtFacts
<1>2. DOMAIN r = 1..(n - 1) /\ DOMAIN q = 1..n
  BY <1>1
<1> HIDE DEF r, n
<1>3. ASSUME NEW j \in 1..(n - 1)
      PROVE  \E k \in 1..n : k # i /\ k = (IF j < i THEN j ELSE j + 1) /\ r[j] = q[k]
  <2>1. CASE j < i
    <3>1. j \in 1..n /\ j # i /\ r[j] = q[j]
      BY <1>1, <2>1
    <3> QED
      BY <2>1, <3>1
  <2>2. CASE ~ (j < i)
    <3>1. j + 1 \in 1..n /\ j + 1 # i /\ r[j] = q[j + 1]
      BY <1>1, <2>2
    <3> QED
      BY <2>2, <3>1
  <2> QED
    BY <2>1, <2>2
<1>4. ASSUME NEW k \in 1..n, k # i PROVE \E j \in 1..(n - 1) : r[j] = q[k]
  <2>1. CASE k < i
    <3>1. k \in 1..(n - 1) /\ r[k] = q[k]
      BY <1>1, <2>1
    <3> QED
      BY <3>1
  <2>2. CASE k > i
    <3>1. k - 1 \in 1..(n - 1) /\ ~ (k - 1 < i) /\ (k - 1) + 1 = k
      BY <1>1, <2>2
    <3>2. r[k - 1] = q[k]
      BY <1>1, <3>1
    <3> QED
      BY <3>1, <3>2
  <2> QED
    BY <1>1, <1>4, <2>1, <2>2
<1> QED
  BY <1>2, <1>3, <1>4 DEF r, n

\* The elements of a set X, of which the list holds at most one, once one element left.
LEMMA RemoveAtOf ==
  ASSUME NEW S, NEW q \in Seq(S), NEW i \in DOMAIN q, NEW X,
         \A j, k \in DOMAIN q : q[j] \in X /\ q[k] \in X => j = k
  PROVE  LET r == RemoveAt(q, i)
         IN /\ \A j, k \in DOMAIN r : r[j] \in X /\ r[k] \in X => j = k
            /\ q[i] \in X => \A j \in DOMAIN r : r[j] \notin X
            /\ q[i] \notin X => ((\E j \in DOMAIN r : r[j] \in X) <=> \E j \in DOMAIN q : q[j] \in X)
<1> DEFINE r == RemoveAt(q, i)
<1>1. /\ DOMAIN q = 1..Len(q) /\ DOMAIN r = 1..(Len(q) - 1) /\ i \in 1..Len(q) /\ Len(q) \in Nat
      /\ \A j \in DOMAIN r : \E k \in DOMAIN q :
           k # i /\ k = (IF j < i THEN j ELSE j + 1) /\ r[j] = q[k]
      /\ \A k \in DOMAIN q : k # i => \E j \in DOMAIN r : r[j] = q[k]
  BY RemoveAtPlaces, RemoveAtFacts
<1> HIDE DEF r
<1>2. ASSUME NEW j \in DOMAIN r, NEW k \in DOMAIN r, r[j] \in X, r[k] \in X PROVE j = k
  <2>1. (IF j < i THEN j ELSE j + 1) = (IF k < i THEN k ELSE k + 1)
    BY <1>1, <1>2
  <2> QED
    BY <1>1, <2>1
<1>3. q[i] \in X => \A j \in DOMAIN r : r[j] \notin X
  BY <1>1
<1>4. q[i] \notin X => ((\E j \in DOMAIN r : r[j] \in X) <=> \E j \in DOMAIN q : q[j] \in X)
  BY <1>1
<1> QED
  BY <1>2, <1>3, <1>4 DEF r

\* The elements of a list without duplicates once one of them is removed.
LEMMA RemoveAtSet ==
  ASSUME NEW S, NEW q \in Seq(S), NEW i \in DOMAIN q, IsInjective(q)
  PROVE  IsInjective(RemoveAt(q, i)) /\ ToSet(RemoveAt(q, i)) = ToSet(q) \ {q[i]}
<1> DEFINE r == RemoveAt(q, i)
           n == Len(q)
<1>1. /\ r \in Seq(S) /\ n \in Nat /\ i \in 1..n /\ Len(r) = n - 1
      /\ \A j \in 1..(n - 1) : r[j] = IF j < i THEN q[j] ELSE q[j + 1]
  BY RemoveAtFacts
<1>2. DOMAIN r = 1..(n - 1) /\ DOMAIN q = 1..n
  BY <1>1
<1>3. \A j, k \in 1..n : q[j] = q[k] => j = k
  BY <1>2 DEF IsInjective
<1> HIDE DEF r, n
<1>4. IsInjective(r)
  BY <1>1, <1>2, <1>3 DEF IsInjective
<1>5. ASSUME NEW x \in ToSet(r) PROVE x \in ToSet(q) \ {q[i]}
  <2>1. PICK j \in 1..(n - 1) : x = r[j]
    BY <1>2 DEF ToSet
  <2>2. PICK k \in 1..n : x = q[k] /\ k # i
    BY <1>1, <2>1
  <2> QED
    BY <1>1, <1>2, <1>3, <2>2 DEF ToSet
<1>6. ASSUME NEW x \in ToSet(q) \ {q[i]} PROVE x \in ToSet(r)
  <2>1. PICK k \in 1..n : x = q[k]
    BY <1>2 DEF ToSet
  <2>2. \E j \in 1..(n - 1) : x = r[j]
    <3>1. CASE k < i
      BY <1>1, <2>1, <3>1
    <3>2. CASE k > i
      <4>1. k - 1 \in 1..(n - 1) /\ r[k - 1] = q[k]
        BY <1>1, <3>2
      <4> QED
        BY <2>1, <4>1
    <3> QED
      BY <1>1, <2>1, <3>1, <3>2
  <2> QED
    BY <1>2, <2>2 DEF ToSet
<1> QED
  BY <1>4, <1>5, <1>6 DEF r

\* The elements of a list with one more at its end, or of a list of one.
LEMMA AppendSet ==
  ASSUME NEW S, NEW q \in Seq(S), NEW x \in S
  PROVE  /\ Append(q, x) \in Seq(S) /\ Len(q) \in Nat /\ Len(Append(q, x)) = Len(q) + 1
         /\ \A j \in 1..Len(q) : Append(q, x)[j] = q[j]
         /\ Append(q, x)[Len(q) + 1] = x
         /\ ToSet(Append(q, x)) = ToSet(q) \cup {x}
<1>1. /\ Append(q, x) \in Seq(S) /\ Len(q) \in Nat /\ Len(Append(q, x)) = Len(q) + 1
      /\ \A j \in 1..Len(q) : Append(q, x)[j] = q[j]
      /\ Append(q, x)[Len(q) + 1] = x
  BY AppendProperties
<1>2. DOMAIN q = 1..Len(q) /\ DOMAIN Append(q, x) = 1..(Len(q) + 1)
  BY <1>1
<1> QED
  BY <1>1, <1>2 DEF ToSet

\* The elements of a list with one more at its head.
LEMMA PrependSet ==
  ASSUME NEW S, NEW q \in Seq(S), NEW x \in S
  PROVE  /\ <<x>> \o q \in Seq(S) /\ Len(q) \in Nat /\ Len(<<x>> \o q) = Len(q) + 1
         /\ ToSet(<<x>> \o q) = ToSet(q) \cup {x}
         /\ IsInjective(q) /\ x \notin ToSet(q) => IsInjective(<<x>> \o q)
<1> DEFINE r == <<x>> \o q
           n == Len(q)
<1>1. <<x>> \in Seq(S) /\ Len(<<x>>) = 1 /\ <<x>>[1] = x
  OBVIOUS
<1>2. /\ r \in Seq(S) /\ n \in Nat /\ Len(r) = n + 1
      /\ \A j \in 1..(n + 1) : r[j] = IF j <= 1 THEN <<x>>[j] ELSE q[j - 1]
  BY <1>1, ConcatProperties
<1>3. DOMAIN q = 1..n /\ DOMAIN r = 1..(n + 1)
  BY <1>2
<1> HIDE DEF r, n
<1>4. r[1] = x /\ \A j \in 1..n : r[j + 1] = q[j]
  BY <1>1, <1>2
<1>5. \A j \in 1..(n + 1) : j = 1 \/ \E k \in 1..n : j = k + 1
  <2> SUFFICES ASSUME NEW j \in 1..(n + 1), j # 1 PROVE \E k \in 1..n : j = k + 1
    OBVIOUS
  <2>1. j - 1 \in 1..n /\ j = (j - 1) + 1
    BY <1>2
  <2> QED
    BY <2>1
<1>6. ToSet(r) = ToSet(q) \cup {x}
  <2>1. ToSet(r) = {r[j] : j \in 1..(n + 1)} /\ ToSet(q) = {q[j] : j \in 1..n}
    BY <1>3 DEF ToSet
  <2>2. \A j \in 1..n : j + 1 \in 1..(n + 1)
    BY <1>2
  <2>3. 1 \in 1..(n + 1)
    BY <1>2
  <2> QED
    BY <1>4, <1>5, <2>1, <2>2, <2>3
<1>7. ASSUME IsInjective(q), x \notin ToSet(q) PROVE IsInjective(r)
  <2>1. \A j, k \in 1..n : q[j] = q[k] => j = k
    BY <1>3, <1>7 DEF IsInjective
  <2>2. \A j \in 1..n : q[j] # x
    BY <1>3, <1>7 DEF ToSet
  <2> QED
    BY <1>3, <1>4, <1>5, <2>1, <2>2 DEF IsInjective
<1> QED
  BY <1>2, <1>6, <1>7 DEF r, n

-----------------------------------------------------------------------------
\* Every set of numbers that is not empty has a least one.
LEMMA LeastNatural ==
  ASSUME NEW T \in SUBSET Nat, T # {}
  PROVE  \E i \in T : \A j \in T : i <= j
<1> DEFINE U == {1..i : i \in T}
<1>1. U \subseteq FiniteSubsetsOf(Nat) /\ U # {}
  <2>1. \A i \in T : 1..i \in FiniteSubsetsOf(Nat)
    BY FS_Interval DEF FiniteSubsetsOf
  <2> QED
    BY <2>1
<1>2. PICK u \in U : \A v \in U : <<v, u>> \notin StrictSubsetOrdering(Nat)
  BY <1>1, FS_StrictSubsetOrderingWellFounded, WFMin
<1>3. PICK i \in T : u = 1..i
  OBVIOUS
<1>4. ASSUME NEW j \in T, j < i PROVE FALSE
  <2>1. 1..j \in U /\ 1..j \subseteq 1..i /\ i \in 1..i /\ i \notin 1..j
    BY <1>4
  <2>2. 1..j # 1..i /\ 1..i \subseteq Nat /\ 1..j \subseteq Nat
    BY <2>1
  <2> QED
    BY <1>2, <1>3, <2>1, <2>2 DEF StrictSubsetOrdering
<1>5. \A j \in T : j \in Nat
  OBVIOUS
<1> QED
  BY <1>4, <1>5

\* The places of the positions in P are 1, 2, ... up to their number: each position has
\* one, and each of these numbers is the place of exactly one position.
LEMMA RankFacts ==
  ASSUME NEW n \in Nat, NEW P \in SUBSET (1..n)
  PROVE  /\ Cardinality(P) \in Nat
         /\ \A i \in P : Rank(P, i) \in 1..Cardinality(P)
         /\ \A i, j \in P : Rank(P, i) = Rank(P, j) => i = j
         /\ \A k \in 1..Cardinality(P) : \E i \in P : Rank(P, i) = k
<1> DEFINE upTo(i) == {j \in P : j <= i}
           c == Cardinality(P)
<1>1. IsFiniteSet(P) /\ c \in Nat /\ \A i \in P : i \in 1..n
  <2>1. IsFiniteSet(1..n)
    BY FS_Interval
  <2>2. IsFiniteSet(P)
    BY <2>1, FS_Subset
  <2> QED
    BY <2>2, FS_CardinalityType
<1>2. \A i \in P : IsFiniteSet(upTo(i)) /\ Cardinality(upTo(i)) \in Nat /\ Cardinality(upTo(i)) <= c
  BY <1>1, FS_Subset, FS_CardinalityType
<1>3. \A i \in P : Cardinality(upTo(i)) # 0
  <2> TAKE i \in P
  <2>1. i \in upTo(i)
    BY <1>1
  <2> QED
    BY <1>2, <2>1, FS_EmptySet
<1>4. \A i, j \in P : i < j => Cardinality(upTo(i)) < Cardinality(upTo(j))
  <2> SUFFICES ASSUME NEW i \in P, NEW j \in P, i < j
               PROVE  Cardinality(upTo(i)) < Cardinality(upTo(j))
    OBVIOUS
  <2>1. upTo(i) \in SUBSET upTo(j) /\ upTo(i) # upTo(j)
    <3>1. \A k \in P : k \in Nat
      BY <1>1
    <3>2. \A k \in P : k <= i => k <= j
      BY <3>1
    <3>3. j <= j /\ ~ (j <= i)
      BY <3>1
    <3>4. upTo(i) \subseteq upTo(j) /\ j \in upTo(j) /\ j \notin upTo(i)
      BY <3>2, <3>3
    <3> HIDE DEF upTo
    <3> QED
      BY <3>4
  <2> HIDE DEF upTo
  <2>2. Cardinality(upTo(i)) <= Cardinality(upTo(j)) /\ Cardinality(upTo(i)) # Cardinality(upTo(j))
    BY <1>2, <2>1, FS_Subset
  <2> QED
    BY <1>2, <2>2
<1> DEFINE rank == [i \in P |-> Cardinality(upTo(i))]
<1>5. \A i \in P : rank[i] = Rank(P, i) /\ rank[i] \in 1..c
  BY <1>1, <1>2, <1>3 DEF Rank
<1>6. \A i, j \in P : rank[i] = rank[j] => i = j
  <2> SUFFICES ASSUME NEW i \in P, NEW j \in P, i # j
               PROVE  Cardinality(upTo(i)) # Cardinality(upTo(j))
    OBVIOUS
  <2>1. i < j \/ j < i
    BY <1>1
  <2> HIDE DEF upTo
  <2> QED
    BY <1>2, <1>4, <2>1
<1>7. \A k \in 1..c : \E i \in P : rank[i] = k
  <2> HIDE DEF upTo
  <2>1. IsFiniteSet(1..c) /\ Cardinality(1..c) = c
    BY <1>1, FS_Interval
  <2>2. rank \in Injection(P, 1..c)
    <3> HIDE DEF c
    <3>1. rank \in [P -> 1..c]
      BY <1>5
    <3> QED
      BY <1>6, <3>1 DEF Injection, IsInjective
  <2>3. rank \in Surjection(P, 1..c)
    BY <2>1, <2>2, FS_Injection
  <2> HIDE DEF rank, c
  <2> QED
    BY <2>3 DEF Surjection
<1> QED
  <2> HIDE DEF rank
  <2> QED
    BY <1>1, <1>5, <1>6, <1>7

\* What list_remove leaves when it is called for every entry but those at P: exactly the
\* entries at P, and none twice that was not.
LEMMA KeptFacts ==
  ASSUME NEW S, NEW q \in Seq(S), NEW P \in SUBSET DOMAIN q
  PROVE  /\ Kept(q, P) \in Seq(S)
         /\ \A k \in DOMAIN Kept(q, P) : \E i \in P : Kept(q, P)[k] = q[i]
         /\ \A i \in P : \E k \in DOMAIN Kept(q, P) : Kept(q, P)[k] = q[i]
         /\ IsInjective(q) => IsInjective(Kept(q, P))
<1> DEFINE c == Cardinality(P)
           at(k) == CHOOSE i \in P : Rank(P, i) = k
<1>1. Len(q) \in Nat /\ DOMAIN q = 1..Len(q)
  OBVIOUS
<1>2. /\ c \in Nat
      /\ \A i \in P : Rank(P, i) \in 1..c
      /\ \A i, j \in P : Rank(P, i) = Rank(P, j) => i = j
      /\ \A k \in 1..c : \E i \in P : Rank(P, i) = k
  BY <1>1, RankFacts
<1> HIDE DEF c
<1>3. \A k \in 1..c : at(k) \in P /\ Rank(P, at(k)) = k
  BY <1>2
<1>4. \A i \in P : at(Rank(P, i)) = i
  BY <1>2, <1>3
<1> HIDE DEF at
<1>5. Kept(q, P) = [k \in 1..c |-> q[at(k)]]
  BY DEF Kept, c, at
<1>6. \A k \in 1..c : q[at(k)] \in S
  BY <1>1, <1>3
<1>7. Kept(q, P) \in Seq(S) /\ DOMAIN Kept(q, P) = 1..c
  BY <1>2, <1>5, <1>6, IsASeq
<1>8. \A k \in 1..c : Kept(q, P)[k] = q[at(k)]
  BY <1>5
<1> HIDE <1>5
<1>9. \A i \in P : Kept(q, P)[Rank(P, i)] = q[i]
  BY <1>2, <1>4, <1>8
<1>10. ASSUME IsInjective(q) PROVE IsInjective(Kept(q, P))
  <2> SUFFICES ASSUME NEW k \in 1..c, NEW l \in 1..c, Kept(q, P)[k] = Kept(q, P)[l]
               PROVE  k = l
    BY <1>7 DEF IsInjective
  <2>1. at(k) = at(l)
    BY <1>3, <1>8, <1>10 DEF IsInjective
  <2> QED
    BY <1>3, <2>1
<1> QED
  BY <1>2, <1>3, <1>7, <1>8, <1>9, <1>10

\* An entry that stays is in the place of its rank.
LEMMA KeptAt ==
  ASSUME NEW S, NEW q \in Seq(S), NEW P \in SUBSET DOMAIN q
  PROVE  /\ Kept(q, P) \in Seq(S) /\ Cardinality(P) \in Nat
         /\ DOMAIN Kept(q, P) = 1..Cardinality(P) /\ Len(Kept(q, P)) = Cardinality(P)
         /\ \A i \in P : Rank(P, i) \in 1..Cardinality(P) /\ Kept(q, P)[Rank(P, i)] = q[i]
         /\ \A i, j \in P : Rank(P, i) = Rank(P, j) => i = j
         /\ \A k \in 1..Cardinality(P) : \E i \in P : Rank(P, i) = k
<1> DEFINE c == Cardinality(P)
           at(k) == CHOOSE i \in P : Rank(P, i) = k
<1>1. Len(q) \in Nat /\ DOMAIN q = 1..Len(q)
  OBVIOUS
<1>2. /\ c \in Nat
      /\ \A i \in P : Rank(P, i) \in 1..c
      /\ \A i, j \in P : Rank(P, i) = Rank(P, j) => i = j
      /\ \A k \in 1..c : \E i \in P : Rank(P, i) = k
  BY <1>1, RankFacts
<1> HIDE DEF c
<1>3. \A k \in 1..c : at(k) \in P /\ Rank(P, at(k)) = k
  BY <1>2
<1>4. \A i \in P : at(Rank(P, i)) = i
  BY <1>2, <1>3
<1> HIDE DEF at
<1>5. Kept(q, P) = [k \in 1..c |-> q[at(k)]]
  BY DEF Kept, c, at
<1>6. \A k \in 1..c : q[at(k)] \in S
  BY <1>1, <1>3
<1>7. Kept(q, P) \in Seq(S) /\ DOMAIN Kept(q, P) = 1..c /\ Len(Kept(q, P)) = c
  BY <1>2, <1>5, <1>6, IsASeq
<1>8. \A k \in 1..c : Kept(q, P)[k] = q[at(k)]
  BY <1>5
<1> HIDE <1>5
<1>9. \A i \in P : Kept(q, P)[Rank(P, i)] = q[i]
  BY <1>2, <1>4, <1>8
<1> QED
  BY <1>2, <1>7, <1>9 DEF c

\* Different places of what stays were different places before.
LEMMA KeptPlaces ==
  ASSUME NEW S, NEW q \in Seq(S), NEW P \in SUBSET DOMAIN q
  PROVE  \A k, l \in DOMAIN Kept(q, P) : \E i, j \in P :
           Kept(q, P)[k] = q[i] /\ Kept(q, P)[l] = q[j] /\ (i = j => k = l)
<1>1. /\ DOMAIN Kept(q, P) = 1..Cardinality(P)
      /\ \A i \in P : Kept(q, P)[Rank(P, i)] = q[i]
      /\ \A k \in 1..Cardinality(P) : \E i \in P : Rank(P, i) = k
  BY KeptAt
<1> SUFFICES ASSUME NEW k \in DOMAIN Kept(q, P), NEW l \in DOMAIN Kept(q, P)
             PROVE  \E i, j \in P : Kept(q, P)[k] = q[i] /\ Kept(q, P)[l] = q[j] /\ (i = j => k = l)
  OBVIOUS
<1>2. PICK i \in P : Rank(P, i) = k
  BY <1>1
<1>3. PICK j \in P : Rank(P, j) = l
  BY <1>1
<1> QED
  BY <1>1, <1>2, <1>3

\* As many numbers after a shift by one.
LEMMA ShiftCard ==
  ASSUME NEW n \in Nat, NEW P \in SUBSET (1..n)
  PROVE  LET Q == {i + 1 : i \in P}
         IN  Cardinality(Q) = Cardinality(P) /\ IsFiniteSet(Q) /\ Cardinality(P) \in Nat /\ IsFiniteSet(P)
<1> DEFINE Q == {i + 1 : i \in P}
           f == [i \in P |-> i + 1]
<1>1. IsFiniteSet(P)
  <2>1. IsFiniteSet(1..n)
    BY FS_Interval
  <2> QED
    BY <2>1, FS_Subset
<1>2. \A i \in P : i \in Int
  OBVIOUS
<1>3. f \in Bijection(P, Q)
  <2>1. f \in [P -> Q] /\ \A x \in Q : \E i \in P : f[i] = x
    OBVIOUS
  <2>2. \A i, j \in P : f[i] = f[j] => i = j
    BY <1>2
  <2> QED
    BY <2>1, <2>2 DEF Bijection, Injection, Surjection, IsInjective
<1>4. ExistsBijection(P, Q)
  BY <1>3 DEF ExistsBijection
<1> QED
  BY <1>1, <1>4, FS_Bijection, FS_CardinalityType

\* A new first entry: the others move by one place.
LEMMA RankShift ==
  ASSUME NEW n \in Nat, NEW P \in SUBSET (1..n)
  PROVE  LET Q == {i + 1 : i \in P}
         IN  /\ \A i \in P : Rank(Q, i + 1) = Rank(P, i)
             /\ \A i \in P : Rank({1} \cup Q, i + 1) = Rank(P, i) + 1
             /\ Rank({1} \cup Q, 1) = 1
             /\ Cardinality(Q) = Cardinality(P) /\ Cardinality({1} \cup Q) = Cardinality(P) + 1
<1> DEFINE Q == {i + 1 : i \in P}
<1>1. \A i \in P : i \in Nat /\ i \geq 1
  OBVIOUS
<1>2. \A j \in Q : j \in Nat /\ j > 1
  BY <1>1
<1>3. /\ Cardinality(Q) = Cardinality(P) /\ IsFiniteSet(Q) /\ Cardinality(P) \in Nat
  BY ShiftCard
<1>4. ASSUME NEW i \in P
      PROVE  Rank(Q, i + 1) = Rank(P, i) /\ Rank({1} \cup Q, i + 1) = Rank(P, i) + 1
  <2> DEFINE A == {j \in P : j <= i}
             B == {j + 1 : j \in A}
  <2>1. A \in SUBSET (1..n)
    OBVIOUS
  <2>2. Cardinality(B) = Cardinality(A) /\ IsFiniteSet(B) /\ Cardinality(A) \in Nat
    BY <2>1, ShiftCard
  <2>3. {j \in Q : j <= i + 1} = B
    BY <1>1
  <2>4. {j \in {1} \cup Q : j <= i + 1} = B \cup {1} /\ 1 \notin B
    BY <1>1, <1>2, <2>3
  <2> HIDE DEF B
  <2>5. Cardinality(B \cup {1}) = Cardinality(B) + 1
    BY <2>2, <2>4, FS_AddElement
  <2> QED
    BY <2>2, <2>3, <2>4, <2>5 DEF Rank
<1>5. Rank({1} \cup Q, 1) = 1
  <2>1. {j \in {1} \cup Q : j <= 1} = {1}
    BY <1>2
  <2> QED
    BY <2>1, FS_Singleton DEF Rank
<1>6. Cardinality({1} \cup Q) = Cardinality(P) + 1
  <2>1. 1 \notin Q /\ {1} \cup Q = Q \cup {1}
    BY <1>2
  <2> HIDE DEF Q
  <2> QED
    BY <1>3, <2>1, FS_AddElement
<1> QED
  BY <1>3, <1>4, <1>5, <1>6

\* The positions of P after an entry was put in front.
Shifted(P) == {i + 1 : i \in P}
FirstAnd(P) == {1} \cup Shifted(P)

\* A new first entry that stays is the first of what stays; one that does not changes
\* nothing.
LEMMA KeptShift ==
  ASSUME NEW S, NEW q \in Seq(S), NEW c \in S, NEW P \in SUBSET DOMAIN q
  PROVE  /\ Kept(<<c>> \o q, Shifted(P)) = Kept(q, P)
         /\ Kept(<<c>> \o q, FirstAnd(P)) = <<c>> \o Kept(q, P)
<1> DEFINE Q == Shifted(P)
           n == Len(q)
           m == Cardinality(P)
<1>1. PICK r \in Seq(S) : r = <<c>> \o q /\ DOMAIN r = 1..(n + 1) /\ r[1] = c /\ \A i \in 1..n : r[i + 1] = q[i]
  <2>1. <<c>> \in Seq(S) /\ Len(<<c>>) = 1 /\ <<c>>[1] = c
    OBVIOUS
  <2>2. /\ <<c>> \o q \in Seq(S) /\ Len(<<c>> \o q) = n + 1 /\ n \in Nat
        /\ (<<c>> \o q)[1] = c /\ \A i \in 1..n : (<<c>> \o q)[i + 1] = q[i]
    BY <2>1, ConcatProperties
  <2>3. DOMAIN (<<c>> \o q) = 1..(n + 1)
    BY <2>2
  <2> QED
    BY <2>2, <2>3
<1>2. n \in Nat /\ DOMAIN q = 1..n /\ P \in SUBSET (1..n)
  OBVIOUS
<1>3. Q \in SUBSET DOMAIN r /\ {1} \cup Q \in SUBSET DOMAIN r
  BY <1>1, <1>2 DEF Shifted
<1>4. /\ \A i \in P : Rank(Q, i + 1) = Rank(P, i)
      /\ \A i \in P : Rank({1} \cup Q, i + 1) = Rank(P, i) + 1
      /\ Rank({1} \cup Q, 1) = 1
      /\ Cardinality(Q) = m /\ Cardinality({1} \cup Q) = m + 1
  BY <1>2, RankShift DEF Shifted
<1>5. PICK k \in Seq(S) :
        /\ k = Kept(q, P) /\ m \in Nat /\ DOMAIN k = 1..m /\ Len(k) = m
        /\ \A i \in P : Rank(P, i) \in 1..m /\ k[Rank(P, i)] = q[i]
        /\ \A j \in 1..m : \E i \in P : Rank(P, i) = j
  BY KeptAt
<1>6. PICK k1 \in Seq(S) :
        /\ k1 = Kept(r, Q) /\ DOMAIN k1 = 1..m /\ Len(k1) = m
        /\ \A i \in Q : k1[Rank(Q, i)] = r[i]
  <2>1. PICK R \in SUBSET DOMAIN r : R = Q /\ Cardinality(R) = m
    BY <1>3, <1>4
  <2>2. /\ Kept(r, R) \in Seq(S) /\ DOMAIN Kept(r, R) = 1..Cardinality(R) /\ Len(Kept(r, R)) = Cardinality(R)
        /\ \A i \in R : Kept(r, R)[Rank(R, i)] = r[i]
    BY KeptAt
  <2> QED
    BY <2>1, <2>2
<1>7. PICK k2 \in Seq(S) :
        /\ k2 = Kept(r, {1} \cup Q) /\ DOMAIN k2 = 1..(m + 1) /\ Len(k2) = m + 1
        /\ \A i \in {1} \cup Q : k2[Rank({1} \cup Q, i)] = r[i]
  <2>1. PICK R \in SUBSET DOMAIN r : R = {1} \cup Q /\ Cardinality(R) = m + 1
    BY <1>3, <1>4
  <2>2. /\ Kept(r, R) \in Seq(S) /\ DOMAIN Kept(r, R) = 1..Cardinality(R) /\ Len(Kept(r, R)) = Cardinality(R)
        /\ \A i \in R : Kept(r, R)[Rank(R, i)] = r[i]
    BY KeptAt
  <2> QED
    BY <2>1, <2>2
<1>8. \A i \in P : i + 1 \in Q /\ r[i + 1] = q[i]
  BY <1>1, <1>2 DEF Shifted
<1> HIDE DEF Q
<1>9. \A j \in 1..m : k1[j] = k[j]
  BY <1>4, <1>5, <1>6, <1>8
<1>10. k1 = k
  BY <1>5, <1>6, <1>9, SeqEqual
<1>11. \A j \in 1..m : k2[j + 1] = k[j]
  <2> SUFFICES ASSUME NEW j \in 1..m PROVE k2[j + 1] = k[j]
    OBVIOUS
  <2>1. PICK i \in P : Rank(P, i) = j
    BY <1>5
  <2>2. i + 1 \in {1} \cup Q /\ Rank({1} \cup Q, i + 1) = j + 1 /\ r[i + 1] = q[i] /\ k[j] = q[i]
    BY <1>4, <1>5, <1>8, <2>1
  <2> QED
    BY <1>7, <2>2
<1>12. k2[1] = c
  BY <1>1, <1>4, <1>7
<1>13. PICK l \in Seq(S) : l = <<c>> \o k /\ Len(l) = m + 1 /\ l[1] = c /\ \A j \in 1..m : l[j + 1] = k[j]
  <2>1. <<c>> \in Seq(S) /\ Len(<<c>>) = 1 /\ <<c>>[1] = c
    OBVIOUS
  <2>2. /\ <<c>> \o k \in Seq(S) /\ Len(<<c>> \o k) = m + 1
        /\ (<<c>> \o k)[1] = c /\ \A i \in 1..m : (<<c>> \o k)[i + 1] = k[i]
    BY <1>5, <2>1, ConcatProperties
  <2> QED
    BY <2>2
<1>14. \A j \in 1..(m + 1) : k2[j] = l[j]
  <2> SUFFICES ASSUME NEW j \in 1..(m + 1), j # 1 PROVE k2[j] = l[j]
    BY <1>12, <1>13
  <2>1. j - 1 \in 1..m /\ j = (j - 1) + 1
    BY <1>5
  <2> QED
    BY <1>11, <1>13, <2>1
<1>15. k2 = l
  BY <1>7, <1>13, <1>14, SeqEqual
<1> QED
  BY <1>1, <1>5, <1>6, <1>7, <1>10, <1>13, <1>15 DEF Q, FirstAnd
=============================================================================
