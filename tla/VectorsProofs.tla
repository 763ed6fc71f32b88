---------------------------- MODULE VectorsProofs ----------------------------
(***************************************************************************)
(* What Dropping and Without do to sequences of any length, and how the    *)
(* length of a sequence relates to the set of its elements.                *)
(***************************************************************************)
EXTENDS Vectors, Integers, FiniteSetTheorems, SequenceTheorems, TLAPS

------------------------------------------------------------------------------
(* Sequences and the sets of their elements *)

LEMMA EmptyType == ASSUME NEW S PROVE <<>> \in Seq(S)
OBVIOUS

LEMMA ToSetType ==
  ASSUME NEW S, NEW s \in Seq(S)
  PROVE  ToSet(s) \in SUBSET S /\ (s = <<>> <=> Len(s) = 0)
BY DEF ToSet

LEMMA SetOfEmpty == ToSet(<<>>) = {}
BY DEF ToSet

LEMMA SetOfOne == ASSUME NEW c PROVE ToSet(<<c>>) = {c}
BY DEF ToSet

LEMMA SetOfTail ==
  ASSUME NEW S, NEW s \in Seq(S), s # <<>>
  PROVE  ToSet(s) = {Head(s)} \union ToSet(Tail(s))
<1>1. \A i \in 1..Len(s) : i = 1 \/ i - 1 \in 1..Len(Tail(s))
  OBVIOUS
<1>2. \A i \in 1..Len(Tail(s)) : i + 1 \in 1..Len(s) /\ Tail(s)[i] = s[i + 1]
  OBVIOUS
<1>3. Head(s) = s[1] /\ 1 \in 1..Len(s)
  OBVIOUS
<1>4. ASSUME NEW x \in ToSet(s)
      PROVE  x \in {Head(s)} \union ToSet(Tail(s))
  <2>1. PICK i \in 1..Len(s) : x = s[i]
    BY DEF ToSet
  <2>2. CASE i # 1
    <3>1. i - 1 \in 1..Len(Tail(s)) /\ Tail(s)[i - 1] = x
      BY <1>1, <1>2, <2>1, <2>2
    <3>2. DOMAIN Tail(s) = 1..Len(Tail(s))
      OBVIOUS
    <3> QED BY <3>1, <3>2 DEF ToSet
  <2> QED BY <1>3, <2>1, <2>2
<1>5. \A x \in ToSet(Tail(s)) : x \in ToSet(s)
  BY <1>2 DEF ToSet
<1>6. Head(s) \in ToSet(s)
  BY <1>3 DEF ToSet
<1> QED BY <1>4, <1>5, <1>6

LEMMA SetOfConcat ==
  ASSUME NEW S, NEW s \in Seq(S), NEW t \in Seq(S)
  PROVE  s \o t \in Seq(S) /\ ToSet(s \o t) = ToSet(s) \union ToSet(t)
<1>1. /\ s \o t \in Seq(S)
      /\ Len(s \o t) = Len(s) + Len(t)
      /\ \A i \in 1..Len(s) : (s \o t)[i] = s[i]
      /\ \A i \in 1..Len(t) : (s \o t)[Len(s) + i] = t[i]
  OBVIOUS
<1>2. ASSUME NEW x \in ToSet(s \o t)
      PROVE  x \in ToSet(s) \union ToSet(t)
  <2>1. PICK i \in 1..(Len(s) + Len(t)) : x = (s \o t)[i]
    BY <1>1 DEF ToSet
  <2>2. CASE i <= Len(s)
    <3>1. i \in DOMAIN s /\ x = s[i]
      BY <1>1, <2>1, <2>2
    <3> QED BY <3>1 DEF ToSet
  <2>3. CASE ~(i <= Len(s))
    <3>1. i - Len(s) \in 1..Len(t) /\ i = Len(s) + (i - Len(s))
      BY <2>1, <2>3
    <3>2. x = t[i - Len(s)] /\ i - Len(s) \in DOMAIN t
      BY <1>1, <2>1, <3>1
    <3> QED BY <3>2 DEF ToSet
  <2> QED BY <2>2, <2>3
<1>3. ASSUME NEW x \in ToSet(s)
      PROVE  x \in ToSet(s \o t)
  <2>1. PICK i \in 1..Len(s) : x = s[i]
    BY DEF ToSet
  <2>2. i \in DOMAIN (s \o t) /\ x = (s \o t)[i]
    BY <1>1, <2>1
  <2> QED BY <2>2 DEF ToSet
<1>4. ASSUME NEW x \in ToSet(t)
      PROVE  x \in ToSet(s \o t)
  <2>1. PICK i \in 1..Len(t) : x = t[i]
    BY DEF ToSet
  <2>2. Len(s) + i \in DOMAIN (s \o t) /\ x = (s \o t)[Len(s) + i]
    BY <1>1, <2>1
  <2> QED BY <2>2 DEF ToSet
<1> QED BY <1>1, <1>2, <1>3, <1>4

LEMMA SetOfAppend ==
  ASSUME NEW S, NEW s \in Seq(S), NEW c \in S
  PROVE  ToSet(Append(s, c)) = ToSet(s) \union {c}
<1>1. Append(s, c) = s \o <<c>> /\ <<c>> \in Seq(S)
  OBVIOUS
<1>2. ToSet(s \o <<c>>) = ToSet(s) \union ToSet(<<c>>)
  BY <1>1, SetOfConcat
<1>3. ToSet(<<c>>) = {c}
  BY SetOfOne
<1> QED BY <1>1, <1>2, <1>3

------------------------------------------------------------------------------
(* What Dropping keeps, and in which order *)

\* In a finite set of numbers every rank is taken.
LEMMA RankIsTaken ==
  ASSUME NEW K \in SUBSET Nat, IsFiniteSet(K), NEW k \in 1..Cardinality(K)
  PROVE  \E i \in K : Cardinality({j \in K : j <= i}) = k
<1> DEFINE below(i) == {j \in K : j <= i}
           m == Cardinality(K)
           rank == [i \in K |-> Cardinality(below(i))]
<1>1. \A i \in K : IsFiniteSet(below(i)) /\ Cardinality(below(i)) <= m
  <2> TAKE i \in K
  <2>1. below(i) \in SUBSET K
    OBVIOUS
  <2> HIDE DEF below
  <2> QED BY <2>1, FS_Subset
<1>2. m \in Nat /\ \A i \in K : Cardinality(below(i)) \in Nat
  BY <1>1, FS_CardinalityType
<1>3. \A i \in K : rank[i] \in 1..m
  <2> TAKE i \in K
  <2>1. below(i) # {}
    OBVIOUS
  <2>2. Cardinality(below(i)) # 0
    BY <1>1, <2>1, FS_EmptySet
  <2> QED BY <1>1, <1>2, <2>2
<1>4. ASSUME NEW i \in K, NEW j \in K, i < j
      PROVE  rank[i] # rank[j]
  <2>1. below(i) \in SUBSET below(j) /\ j \in below(j) /\ j \notin below(i)
    <3>1. \A x \in K : x <= i => x <= j
      BY <1>4
    <3>2. j <= j /\ ~(j <= i)
      BY <1>4
    <3> QED BY <3>1, <3>2
  <2> HIDE DEF below
  <2>2. Cardinality(below(j)) # Cardinality(below(i))
    BY <1>1, <2>1, FS_Subset
  <2> QED BY <2>2
<1>5. rank \in Injection(K, 1..m)
  <2>1. \A i, j \in K : rank[i] = rank[j] => i = j
    <3> SUFFICES ASSUME NEW i \in K, NEW j \in K, i # j
                 PROVE  rank[i] # rank[j]
      OBVIOUS
    <3>1. i < j \/ j < i
      OBVIOUS
    <3> HIDE DEF rank
    <3> QED BY <1>4, <3>1
  <2>2. rank \in [K -> 1..m]
    BY <1>3
  <2> HIDE DEF rank
  <2> QED BY <2>1, <2>2 DEF Injection, IsInjective
<1>6. IsFiniteSet(1..m) /\ Cardinality(1..m) = m
  BY <1>2, FS_Interval
<1>7. rank \in Surjection(K, 1..m)
  BY <1>5, <1>6, FS_Injection
<1>8. PICK i \in K : rank[i] = k
  BY <1>7 DEF Surjection
<1> QED BY <1>8

\* In a finite set of numbers two numbers have two ranks.
LEMMA RankIsUnique ==
  ASSUME NEW K \in SUBSET Nat, IsFiniteSet(K), NEW i \in K, NEW j \in K, i # j
  PROVE  Cardinality({l \in K : l <= i}) # Cardinality({l \in K : l <= j})
<1> DEFINE below(x) == {l \in K : l <= x}
<1>1. ASSUME NEW x \in K, NEW y \in K, x < y
      PROVE  Cardinality(below(x)) # Cardinality(below(y))
  <2>1. below(x) \in SUBSET below(y) /\ y \in below(y) /\ y \notin below(x)
    <3>1. \A l \in K : l <= x => l <= y
      BY <1>1
    <3>2. y <= y /\ ~(y <= x)
      BY <1>1
    <3> QED BY <3>1, <3>2
  <2>2. IsFiniteSet(below(y))
    <3>1. below(y) \in SUBSET K
      OBVIOUS
    <3> HIDE DEF below
    <3> QED BY <3>1, FS_Subset
  <2> HIDE DEF below
  <2> QED BY <2>1, <2>2, FS_Subset
<1>2. i < j \/ j < i
  OBVIOUS
<1> HIDE DEF below
<1>3. Cardinality(below(i)) # Cardinality(below(j))
  BY <1>1, <1>2
<1> QED BY <1>3 DEF below

\* What Dropping keeps: it numbers the kept elements one by one.
Kept(s, R) == {i \in DOMAIN s : s[i] \notin R}

LEMMA DroppingKeeps ==
  ASSUME NEW S, NEW s \in Seq(S), NEW R
  PROVE  /\ IsFiniteSet(Kept(s, R))
         /\ \E f \in [1..Cardinality(Kept(s, R)) -> Kept(s, R)] :
              /\ Dropping(s, R) = [k \in 1..Cardinality(Kept(s, R)) |-> s[f[k]]]
              /\ \A i \in Kept(s, R) :
                   \E k \in 1..Cardinality(Kept(s, R)) : f[k] = i
              /\ \A j, k \in 1..Cardinality(Kept(s, R)) : f[j] = f[k] => j = k
<1> DEFINE kept   == Kept(s, R)
           rank(i) == Cardinality({j \in kept : j <= i})
           nth(k) == CHOOSE i \in kept : rank(i) = k
           n      == Cardinality(kept)
           f      == [k \in 1..n |-> nth(k)]
<1>1. IsFiniteSet(kept) /\ n \in Nat /\ kept \in SUBSET Nat
  <2>1. IsFiniteSet(DOMAIN s) /\ kept \in SUBSET (DOMAIN s)
    BY FS_Interval DEF Kept
  <2>2. IsFiniteSet(kept)
    BY <2>1, FS_Subset
  <2> QED BY <2>1, <2>2, FS_CardinalityType
<1>2. ASSUME NEW k \in 1..n
      PROVE  nth(k) \in kept /\ rank(nth(k)) = k
  <2>1. \E i \in kept : rank(i) = k
    <3> HIDE DEF kept
    <3> QED BY <1>1, RankIsTaken
  <2> HIDE DEF kept, rank
  <2> QED BY <2>1
<1>3. \A i \in kept : rank(i) \in 1..n
  <2> TAKE i \in kept
  <2> DEFINE below == {j \in kept : j <= i}
  <2>1. below \in SUBSET kept /\ i \in below
    <3>1. i <= i
      BY <1>1
    <3> QED BY <3>1
  <2> HIDE DEF kept
  <2>2. IsFiniteSet(below) /\ Cardinality(below) <= n
    <3> HIDE DEF below
    <3> QED BY <1>1, <2>1, FS_Subset
  <2>3. Cardinality(below) \in Nat /\ Cardinality(below) # 0
    <3> HIDE DEF below
    <3> QED BY <2>1, <2>2, FS_CardinalityType, FS_EmptySet
  <2>4. rank(i) = Cardinality(below)
    OBVIOUS
  <2> HIDE DEF below, rank, n
  <2> QED BY <1>1, <2>2, <2>3, <2>4
<1>4. ASSUME NEW i \in kept
      PROVE  f[rank(i)] = i /\ rank(i) \in 1..n
  <2>1. rank(i) \in 1..n
    BY <1>3
  <2>2. nth(rank(i)) \in kept /\ rank(nth(rank(i))) = rank(i)
    <3> HIDE DEF rank, nth, kept, n
    <3> QED BY <1>2, <2>1
  <2>3. nth(rank(i)) = i
    <3>1. \A j \in kept : j # i => rank(j) # rank(i)
      <4> HIDE DEF kept
      <4> QED BY <1>1, RankIsUnique
    <3> HIDE DEF rank, nth, kept, n
    <3> QED BY <2>2, <3>1
  <2> HIDE DEF rank, nth, kept, n
  <2> QED BY <2>1, <2>3
<1>5. \A j, k \in 1..n : f[j] = f[k] => j = k
  <2> HIDE DEF rank, nth, kept, n
  <2> QED BY <1>2
<1>6. f \in [1..n -> kept]
  <2> HIDE DEF rank, nth, kept, n
  <2> QED BY <1>2
<1>7. Dropping(s, R) = [k \in 1..n |-> s[f[k]]]
  <2>1. Dropping(s, R) = [k \in 1..n |-> s[nth(k)]]
    BY DEF Dropping, Kept
  <2> HIDE DEF rank, nth, kept, n
  <2> QED BY <2>1
<1> HIDE DEF rank, nth, kept, f
<1>8. \A i \in kept : \E k \in 1..n : f[k] = i
  BY <1>4
<1> QED BY <1>1, <1>5, <1>6, <1>7, <1>8 DEF kept

LEMMA DroppingType ==
  ASSUME NEW S, NEW s \in Seq(S), NEW R
  PROVE  Dropping(s, R) \in Seq(S)
<1> DEFINE kept   == {i \in DOMAIN s : s[i] \notin R}
           nth(k) == CHOOSE i \in kept : Cardinality({j \in kept : j <= i}) = k
           n      == Cardinality(kept)
<1>1. IsFiniteSet(kept) /\ n \in Nat /\ kept \in SUBSET Nat
  <2>1. IsFiniteSet(DOMAIN s)
    BY FS_Interval
  <2>2. IsFiniteSet(kept)
    BY <2>1, FS_Subset
  <2> QED BY <2>2, FS_CardinalityType
<1>2. \A k \in 1..n : nth(k) \in kept
  <2> HIDE DEF kept
  <2> QED BY <1>1, RankIsTaken
<1>3. \A k \in 1..n : s[nth(k)] \in S
  <2>1. \A i \in kept : s[i] \in S
    OBVIOUS
  <2> HIDE DEF kept, nth, n
  <2> QED BY <1>2, <2>1
<1>4. Dropping(s, R) = [k \in 1..n |-> s[nth(k)]]
  BY DEF Dropping
<1> HIDE DEF kept, nth, n
<1>5. [k \in 1..n |-> s[nth(k)]] \in [1..n -> S]
  BY <1>3
<1> QED BY <1>1, <1>4, <1>5

LEMMA WithoutType ==
  ASSUME NEW S, NEW s \in Seq(S), NEW c
  PROVE  Without(s, c) \in Seq(S)
BY DroppingType DEF Without

LEMMA SetOfDropping ==
  ASSUME NEW S, NEW s \in Seq(S), NEW R
  PROVE  /\ Dropping(s, R) \in Seq(S)
         /\ ToSet(Dropping(s, R)) = ToSet(s) \ R
<1> DEFINE kept == Kept(s, R)
           n    == Cardinality(kept)
<1>1. PICK f \in [1..n -> kept] :
        /\ Dropping(s, R) = [k \in 1..n |-> s[f[k]]]
        /\ \A i \in kept : \E k \in 1..n : f[k] = i
  BY DroppingKeeps
<1>2. ToSet(Dropping(s, R)) = {s[f[k]] : k \in 1..n}
  <2> HIDE DEF kept, n
  <2> QED BY <1>1 DEF ToSet
<1>3. {s[f[k]] : k \in 1..n} = {s[i] : i \in kept}
  <2> HIDE DEF kept, n
  <2> QED BY <1>1
<1>4. {s[i] : i \in kept} = ToSet(s) \ R
  BY DEF ToSet, Kept
<1> QED BY <1>2, <1>3, <1>4, DroppingType

LEMMA SetOfWithout ==
  ASSUME NEW S, NEW s \in Seq(S), NEW c
  PROVE  Without(s, c) \in Seq(S) /\ ToSet(Without(s, c)) = ToSet(s) \ {c}
BY SetOfDropping DEF Without

------------------------------------------------------------------------------
(* How much it keeps *)

LEMMA LenKept ==
  ASSUME NEW S, NEW s \in Seq(S), NEW R
  PROVE  /\ IsFiniteSet(Kept(s, R)) /\ Kept(s, R) \subseteq 1..Len(s)
         /\ Len(Dropping(s, R)) = Cardinality(Kept(s, R))
         /\ Cardinality(Kept(s, R)) \in Nat /\ Len(s) \in Nat
         /\ Cardinality(1..Len(s)) = Len(s) /\ IsFiniteSet(1..Len(s))
<1> DEFINE kept == Kept(s, R)
           n    == Cardinality(kept)
<1>1. /\ IsFiniteSet(kept)
      /\ \E f \in [1..n -> kept] : Dropping(s, R) = [k \in 1..n |-> s[f[k]]]
  BY DroppingKeeps
<1>2. kept \subseteq 1..Len(s) /\ Len(s) \in Nat
  BY DEF Kept
<1> HIDE DEF kept
<1>3. n \in Nat
  BY <1>1, FS_CardinalityType
<1> HIDE DEF n
<1>4. Len(Dropping(s, R)) = n
  <2>1. PICK f \in [1..n -> kept] : Dropping(s, R) = [k \in 1..n |-> s[f[k]]]
    BY <1>1
  <2>2. Len([k \in 1..n |-> s[f[k]]]) = n
    BY <1>3, SMTT(20)
  <2> QED BY <2>1, <2>2
<1>5. Cardinality(1..Len(s)) = Len(s) /\ IsFiniteSet(1..Len(s))
  <2>1. /\ 1 \in Int /\ Len(s) \in Int
        /\ Len(s) - 1 + 1 = Len(s)
        /\ 1 > Len(s) => Len(s) = 0
    BY <1>2
  <2>2. /\ IsFiniteSet(1..Len(s))
        /\ Cardinality(1..Len(s)) = IF 1 > Len(s) THEN 0 ELSE Len(s) - 1 + 1
    BY <2>1, FS_Interval
  <2> QED BY <2>1, <2>2
<1> QED BY <1>1, <1>2, <1>3, <1>4, <1>5 DEF kept, n

LEMMA LenDropping ==
  ASSUME NEW S, NEW s \in Seq(S), NEW R
  PROVE  /\ Dropping(s, R) \in Seq(S) /\ Len(Dropping(s, R)) \in Nat
         /\ Len(Dropping(s, R)) <= Len(s)
<1>1. Dropping(s, R) \in Seq(S)
  BY SetOfDropping
<1>2. Cardinality(Kept(s, R)) <= Cardinality(1..Len(s))
  BY LenKept, FS_Subset
<1> QED BY <1>1, <1>2, LenKept

LEMMA LenWithout ==
  ASSUME NEW S, NEW s \in Seq(S), NEW c
  PROVE  /\ Without(s, c) \in Seq(S) /\ Len(Without(s, c)) \in Nat
         /\ Len(Without(s, c)) <= Len(s)
         /\ c \notin ToSet(s) => Len(Without(s, c)) = Len(s)
<1>1. c \notin ToSet(s) => Kept(s, {c}) = 1..Len(s)
  BY DEF Kept, ToSet
<1> QED BY <1>1, LenDropping, LenKept DEF Without

\* Cards behind the others count as they are, the card left out does not.
LEMMA LenBehind ==
  ASSUME NEW S, NEW s \in Seq(S), NEW t \in Seq(S), NEW c \in S
  PROVE  /\ Len(Without(s \o t, c)) <= Len(Without(s, c)) + Len(t)
         /\ Len(Without(s \o <<c>>, c)) <= Len(s)
<1> DEFINE m == Len(s)
           n == Len(t)
           both  == s \o t
           first == Kept(s, {c})
           last  == (m + 1)..(m + n)
<1>1. /\ m \in Nat /\ n \in Nat /\ both \in Seq(S) /\ s \o <<c>> \in Seq(S)
      /\ Len(both) = m + n
      /\ \A i \in 1..m : both[i] = s[i]
      /\ Len(s \o <<c>>) = m + 1 /\ (s \o <<c>>)[m + 1] = c
  OBVIOUS
<1>2. Kept(both, {c}) \subseteq first \union last
  <2> SUFFICES ASSUME NEW i \in Kept(both, {c}), i \notin last PROVE i \in first
    OBVIOUS
  <2>1. i \in 1..(m + n) /\ both[i] # c
    <3>1. DOMAIN both = 1..(m + n)
      BY <1>1
    <3> QED BY <3>1 DEF Kept
  <2>2. i \in 1..m
    BY <1>1, <2>1
  <2>3. i \in DOMAIN s /\ s[i] # c
    BY <1>1, <2>1, <2>2
  <2> QED BY <2>3 DEF Kept
<1>3. IsFiniteSet(last) /\ Cardinality(last) = n
  <2>1. m + 1 \in Int /\ m + n \in Int
    BY <1>1
  <2>2. /\ IsFiniteSet(last)
        /\ Cardinality(last) = IF m + 1 > m + n THEN 0 ELSE (m + n) - (m + 1) + 1
    BY <2>1, FS_Interval
  <2> HIDE DEF last
  <2> QED BY <1>1, <2>2
<1>4. IsFiniteSet(first) /\ Cardinality(first) = Len(Without(s, c))
      /\ Cardinality(first) \in Nat
  BY LenKept DEF Without
<1>5. Len(Without(both, c)) = Cardinality(Kept(both, {c}))
      /\ Cardinality(Kept(both, {c})) \in Nat
  BY <1>1, LenKept DEF Without
<1> HIDE DEF first, last, both
<1>6. /\ IsFiniteSet(first \union last)
      /\ Cardinality(first \union last)
           = Cardinality(first) + n - Cardinality(first \intersect last)
      /\ Cardinality(first \intersect last) \in Nat
  <2>1. IsFiniteSet(first \intersect last)
    BY <1>4, FS_Subset
  <2> QED BY <1>3, <1>4, <2>1, FS_Union, FS_CardinalityType
<1>7. Cardinality(Kept(both, {c})) <= Cardinality(first \union last)
  BY <1>2, <1>6, FS_Subset
<1>8. Len(Without(both, c)) <= Len(Without(s, c)) + n
  <2>1. Cardinality(first \union last) <= Cardinality(first) + n
    BY <1>1, <1>4, <1>6
  <2> QED BY <1>1, <1>4, <1>5, <1>6, <1>7, <2>1
<1>9. Len(Without(s \o <<c>>, c)) <= m
  <2> DEFINE more == s \o <<c>>
  <2>1. more \in Seq(S) /\ DOMAIN more = 1..(m + 1) /\ more[m + 1] = c
    BY <1>1
  <2> HIDE DEF more
  <2>2. Kept(more, {c}) \subseteq 1..m
    BY <1>1, <2>1 DEF Kept
  <2>3. Len(Without(more, c)) = Cardinality(Kept(more, {c}))
    BY <2>1, LenKept DEF Without
  <2>4. IsFiniteSet(1..m) /\ Cardinality(1..m) = m
    BY LenKept
  <2> QED BY <2>2, <2>3, <2>4, FS_Subset DEF more
<1> QED BY <1>8, <1>9 DEF both

------------------------------------------------------------------------------
(* Sequences without repetition *)

LEMMA DroppedOnce ==
  ASSUME NEW S, NEW s \in Seq(S), IsInjective(s), NEW R
  PROVE  IsInjective(Dropping(s, R))
<1> DEFINE n == Cardinality(Kept(s, R))
<1>1. PICK f \in [1..n -> Kept(s, R)] :
        /\ Dropping(s, R) = [k \in 1..n |-> s[f[k]]]
        /\ \A j, k \in 1..n : f[j] = f[k] => j = k
  BY DroppingKeeps
<1>2. \A k \in 1..n : f[k] \in DOMAIN s
  <2> HIDE DEF n
  <2> QED BY <1>1 DEF Kept
<1> HIDE DEF n
<1>3. \A j, k \in 1..n : s[f[j]] = s[f[k]] => j = k
  BY <1>1, <1>2 DEF IsInjective
<1> QED BY <1>1, <1>3 DEF IsInjective

LEMMA AppendedOnce ==
  ASSUME NEW S, NEW s \in Seq(S), IsInjective(s), NEW c \in S, c \notin ToSet(s)
  PROVE  IsInjective(Append(s, c))
<1>1. DOMAIN Append(s, c) = 1..(Len(s) + 1) /\ Append(s, c)[Len(s) + 1] = c
  OBVIOUS
<1>2. \A i \in 1..Len(s) : Append(s, c)[i] = s[i] /\ s[i] # c
  BY DEF ToSet
<1>3. \A i \in 1..(Len(s) + 1) : i \in 1..Len(s) \/ i = Len(s) + 1
  OBVIOUS
<1>4. ASSUME NEW t, t = Append(s, c), NEW i \in DOMAIN t, NEW j \in DOMAIN t,
             t[i] = t[j]
      PROVE  i = j
  <2>1. /\ i \in 1..Len(s) \/ i = Len(s) + 1
        /\ j \in 1..Len(s) \/ j = Len(s) + 1
    BY <1>1, <1>3, <1>4
  <2>2. i \in 1..Len(s) /\ j \in 1..Len(s) => i = j
    <3>1. i \in 1..Len(s) /\ j \in 1..Len(s) => s[i] = s[j]
      BY <1>2, <1>4
    <3>2. DOMAIN s = 1..Len(s)
      OBVIOUS
    <3> QED BY <3>1, <3>2 DEF IsInjective
  <2> QED BY <1>1, <1>2, <1>4, <2>1, <2>2
<1>5. ASSUME NEW t, t = Append(s, c)
      PROVE  IsInjective(t)
  <2>1. \A i, j \in DOMAIN t : t[i] = t[j] => i = j
    BY <1>4, <1>5
  <2> QED BY <2>1 DEF IsInjective
<1> QED BY <1>5, Zenon

\* A sequence repeats nothing if and only if it is as long as its set is large.
LEMMA CountOnce ==
  ASSUME NEW S, NEW s \in Seq(S)
  PROVE  /\ IsFiniteSet(ToSet(s)) /\ Cardinality(ToSet(s)) \in Nat
         /\ Len(s) \in Nat /\ Cardinality(ToSet(s)) <= Len(s)
         /\ IsInjective(s) <=> Len(s) = Cardinality(ToSet(s))
<1> DEFINE n == Len(s)
           T == ToSet(s)
<1>1. /\ n \in Nat /\ DOMAIN s = 1..n
      /\ s = [i \in 1..n |-> s[i]]
  OBVIOUS
<1>2. T = {s[i] : i \in 1..n}
  BY <1>1 DEF ToSet
<1> HIDE DEF n, T
<1>3. IsFiniteSet(1..n) /\ Cardinality(1..n) = n
  BY <1>1, FS_Interval
<1>4. s \in [1..n -> T] /\ \A x \in T : \E i \in 1..n : s[i] = x
  BY <1>1, <1>2
<1>5. s \in Surjection(1..n, T)
  BY <1>4 DEF Surjection
<1>6. /\ IsFiniteSet(T) /\ Cardinality(T) <= Cardinality(1..n)
      /\ Cardinality(T) = Cardinality(1..n) <=> s \in Injection(1..n, T)
  BY <1>3, <1>5, FS_Surjection
<1>7. s \in Injection(1..n, T) <=> IsInjective(s)
  BY <1>4 DEF Injection
<1>8. Cardinality(T) \in Nat
  BY <1>6, FS_CardinalityType
<1> QED BY <1>1, <1>3, <1>6, <1>7, <1>8 DEF n, T

LEMMA CountDropping ==
  ASSUME NEW S, NEW s \in Seq(S), IsInjective(s), NEW R \in SUBSET ToSet(s)
  PROVE  /\ Len(Dropping(s, R)) = Len(s) - Cardinality(R)
         /\ Cardinality(R) \in Nat
<1> DEFINE d == Dropping(s, R)
<1>1. d \in Seq(S) /\ ToSet(d) = ToSet(s) \ R /\ IsInjective(d)
  BY SetOfDropping, DroppedOnce
<1> HIDE DEF d
<1>2. Len(d) = Cardinality(ToSet(s) \ R) /\ Len(s) = Cardinality(ToSet(s))
      /\ IsFiniteSet(ToSet(s)) /\ Len(s) \in Nat
  BY <1>1, CountOnce
<1>3. ToSet(s) \intersect R = R
  OBVIOUS
<1>4. Cardinality(ToSet(s) \ R) = Cardinality(ToSet(s)) - Cardinality(R)
  <2>1. Cardinality(ToSet(s) \ R)
          = Cardinality(ToSet(s)) - Cardinality(ToSet(s) \intersect R)
    BY <1>2, FS_Difference
  <2> QED BY <1>3, <2>1
<1>5. Cardinality(R) \in Nat
  BY <1>2, FS_Subset, FS_CardinalityType
<1> QED BY <1>2, <1>4, <1>5 DEF d

LEMMA CountWithout ==
  ASSUME NEW S, NEW s \in Seq(S), IsInjective(s), NEW c \in ToSet(s)
  PROVE  /\ Len(Without(s, c)) = Len(s) - 1
         /\ ToSet(Without(s, c)) \union {c} = ToSet(s)
         /\ ToSet(Without(s, c)) = ToSet(s) \ {c}
<1>1. {c} \in SUBSET ToSet(s) /\ Cardinality({c}) = 1
  BY FS_Singleton
<1>2. Len(Without(s, c)) = Len(s) - 1
  BY <1>1, CountDropping DEF Without
<1> QED BY <1>2, SetOfWithout

LEMMA CountConcat ==
  ASSUME NEW S, NEW s \in Seq(S), NEW t \in Seq(S)
  PROVE  /\ s \o t \in Seq(S) /\ Len(s \o t) = Len(s) + Len(t)
         /\ ToSet(s \o t) = ToSet(s) \union ToSet(t)
<1>1. s \o t \in Seq(S) /\ Len(s \o t) = Len(s) + Len(t)
  OBVIOUS
<1> QED BY <1>1, SetOfConcat

LEMMA CountAppend ==
  ASSUME NEW S, NEW s \in Seq(S), NEW c \in S
  PROVE  /\ Append(s, c) \in Seq(S) /\ Len(Append(s, c)) = Len(s) + 1
         /\ <<c>> \o s \in Seq(S) /\ Len(<<c>> \o s) = Len(s) + 1
         /\ ToSet(Append(s, c)) = ToSet(s) \union {c}
         /\ ToSet(<<c>> \o s) = ToSet(s) \union {c}
<1>1. /\ Append(s, c) \in Seq(S) /\ Len(Append(s, c)) = Len(s) + 1
      /\ <<c>> \in Seq(S) /\ Len(<<c>>) = 1 /\ Len(s) \in Nat
  OBVIOUS
<1>2. <<c>> \o s \in Seq(S) /\ Len(<<c>> \o s) = 1 + Len(s)
      /\ ToSet(<<c>> \o s) = ToSet(<<c>>) \union ToSet(s)
  BY <1>1, CountConcat
<1>3. ToSet(<<c>>) = {c}
  BY SetOfOne
<1> QED BY <1>1, <1>2, <1>3, SetOfAppend
==============================================================================
