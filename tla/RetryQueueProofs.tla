--------------------------- MODULE RetryQueueProofs ---------------------------
(***************************************************************************)
(* Theorems about RetryQueue, for every set of record ids, every queue     *)
(* size, delay and time to expire.                                         *)
(*                                                                         *)
(* Sorting looks at nothing but the set of the records, so most of what    *)
(* follows speaks of Elements(s); the order of s matters only for which    *)
(* records pruning takes.                                                  *)
(***************************************************************************)
EXTENDS RetryQueue, Integers, FiniteSetTheorems, FunctionTheorems, SequenceTheorems, TLAPS

-----------------------------------------------------------------------------
(* What Ordering chooses is there: the sequence of all elements in order, and *)
(* the positions a selection keeps.                                           *)
StrictOrder(R, L) ==
    /\ \A x \in R : <<x, x>> \notin L
    /\ \A x, y, z \in R : <<x, y>> \in L /\ <<y, z>> \in L => <<x, z>> \in L
    /\ \A x, y \in R : x = y \/ <<x, y>> \in L \/ <<y, x>> \in L

Increasing(t, R, L) ==
    /\ t \in [1..Cardinality(R) -> R]
    /\ \A i, j \in 1..Cardinality(R) : i < j => <<t[i], t[j]>> \in L

(* The number of elements below x takes every value once. *)
LEMMA RankIsBijection ==
    ASSUME NEW R, IsFiniteSet(R), NEW L, StrictOrder(R, L)
    PROVE  LET Below(x) == {y \in R : <<y, x>> \in L}
               rank == [x \in R |-> Cardinality(Below(x)) + 1]
           IN  /\ rank \in [R -> 1..Cardinality(R)]
               /\ \A x, y \in R : <<x, y>> \in L => rank[x] < rank[y]
               /\ rank \in Bijection(R, 1..Cardinality(R))
<1> DEFINE Below(x) == {y \in R : <<y, x>> \in L}
           rank == [x \in R |-> Cardinality(Below(x)) + 1]
           n == Cardinality(R)
<1>1. n \in Nat
  BY FS_CardinalityType
<1>2. ASSUME NEW x \in R
      PROVE  /\ IsFiniteSet(Below(x)) /\ Cardinality(Below(x)) \in Nat
             /\ Cardinality(Below(x)) < n
  <2>1. Below(x) \in SUBSET R /\ x \notin Below(x)
    BY DEF StrictOrder
  <2>2. IsFiniteSet(Below(x)) /\ Cardinality(Below(x)) <= n /\ Cardinality(Below(x)) # n
    BY <2>1, FS_Subset
  <2>3. Cardinality(Below(x)) \in Nat
    BY <2>2, FS_CardinalityType
  <2> QED
    BY <1>1, <2>2, <2>3
<1>3. ASSUME NEW x \in R, NEW y \in R, <<x, y>> \in L
      PROVE  Cardinality(Below(x)) < Cardinality(Below(y))
  <2>1. Below(x) \in SUBSET Below(y) /\ x \in Below(y) /\ x \notin Below(x)
    BY <1>3 DEF StrictOrder
  <2>2. /\ Cardinality(Below(x)) <= Cardinality(Below(y))
        /\ Cardinality(Below(x)) # Cardinality(Below(y))
    BY <1>2, <2>1, FS_Subset
  <2> QED
    BY <1>2, <2>2
<1> HIDE DEF Below, n
<1>4. rank \in [R -> 1..n]
  BY <1>1, <1>2
<1>5. \A x, y \in R : <<x, y>> \in L => rank[x] < rank[y]
  BY <1>2, <1>3
<1>6. \A x, y \in R : rank[x] = rank[y] => x = y
  <2> SUFFICES ASSUME NEW x \in R, NEW y \in R, rank[x] = rank[y], x # y PROVE FALSE
    OBVIOUS
  <2>1. rank[x] \in Nat /\ rank[y] \in Nat
    BY <1>1, <1>4
  <2>2. <<x, y>> \in L \/ <<y, x>> \in L
    BY DEF StrictOrder
  <2> QED
    BY <1>5, <2>1, <2>2
<1> HIDE DEF rank
<1>7. rank \in Injection(R, 1..n)
  BY <1>4, <1>6 DEF Injection, IsInjective
<1>8. IsFiniteSet(1..n) /\ Cardinality(1..n) = n
  BY <1>1, FS_Interval
<1>9. rank \in Surjection(R, 1..n)
  BY <1>7, <1>8, FS_Injection DEF n
<1>10. rank \in Bijection(R, 1..n)
  BY <1>7, <1>9 DEF Bijection
<1> QED
  BY <1>4, <1>5, <1>10 DEF rank, n, Below

LEMMA AscendingFacts ==
    ASSUME NEW R, IsFiniteSet(R), NEW L, StrictOrder(R, L)
    PROVE  /\ Increasing(Ascending(R, L), R, L)
           /\ \A x \in R : \E i \in 1..Cardinality(R) : Ascending(R, L)[i] = x
<1> DEFINE n == Cardinality(R)
           Below(x) == {y \in R : <<y, x>> \in L}
           rank == [x \in R |-> Cardinality(Below(x)) + 1]
           t == Ascending(R, L)
<1>1. n \in Nat /\ \A x \in R : Cardinality(Below(x)) \in Nat
  <2>1. \A x \in R : Below(x) \in SUBSET R
    OBVIOUS
  <2>2. \A x \in R : IsFiniteSet(Below(x))
    BY <2>1, FS_Subset
  <2> HIDE DEF Below
  <2> QED
    BY <2>2, FS_CardinalityType
<1>2. /\ rank \in [R -> 1..n]
      /\ \A x, y \in R : <<x, y>> \in L => rank[x] < rank[y]
      /\ rank \in Bijection(R, 1..n)
  BY RankIsBijection
<1>3. \A x, y \in R : rank[x] = rank[y] => x = y
  BY <1>2 DEF Bijection, Injection, IsInjective
<1>4. t = [i \in 1..n |-> CHOOSE x \in R : Cardinality(Below(x)) = i - 1]
  BY DEF Ascending
<1>5. \A i \in 1..n, x \in R : Cardinality(Below(x)) = i - 1 <=> rank[x] = i
  <2> HIDE DEF Below
  <2> QED
    BY <1>1
<1>6. ASSUME NEW i \in 1..n PROVE t[i] \in R /\ rank[t[i]] = i
  <2>1. \E x \in R : rank[x] = i
    <3> HIDE DEF n, rank
    <3> QED
      BY <1>2 DEF Bijection, Surjection
  <2>2. \E x \in R : Cardinality(Below(x)) = i - 1
    BY <1>5, <2>1
  <2>3. t[i] = CHOOSE x \in R : Cardinality(Below(x)) = i - 1
    BY <1>4
  <2> HIDE DEF Below, rank, t
  <2>4. t[i] \in R /\ Cardinality(Below(t[i])) = i - 1
    BY <2>2, <2>3
  <2> QED
    BY <1>5, <2>4
<1> HIDE DEF rank, t, Below
<1>7. ASSUME NEW i \in 1..n, NEW j \in 1..n, i < j PROVE <<t[i], t[j]>> \in L
  <2>1. t[i] # t[j] /\ t[i] \in R /\ t[j] \in R
    BY <1>1, <1>6, <1>7
  <2>2. ~(<<t[j], t[i]>> \in L)
    BY <1>1, <1>2, <1>6, <1>7, <2>1
  <2> QED
    BY <2>1, <2>2 DEF StrictOrder
<1>8. \A x \in R : rank[x] \in 1..n /\ t[rank[x]] = x
  BY <1>2, <1>3, <1>6
<1>9. t \in [1..n -> R]
  BY <1>4, <1>6
<1> QED
  BY <1>7, <1>8, <1>9 DEF Increasing, t, n

Less(D) == {p \in D \X D : p[1] < p[2]}

LEMMA LessIsStrict == ASSUME NEW D \in SUBSET Nat PROVE StrictOrder(D, Less(D))
<1>1. \A x, y \in D : <<x, y>> \in Less(D) <=> x < y
  BY DEF Less
<1>2. \A x \in D : x \in Nat
  OBVIOUS
<1> QED
  BY <1>1, <1>2 DEF StrictOrder

(* t lists the positions of s in D. *)
Positions(t, s, D) ==
    /\ t \in [1..Cardinality(D) -> D]
    /\ \A i, j \in 1..Cardinality(D) : i < j => t[i] < t[j]
    /\ \A x \in D : \E i \in 1..Cardinality(D) : t[i] = x
    /\ Len(Select(s, D)) = Cardinality(D)
    /\ \A i \in 1..Cardinality(D) : Select(s, D)[i] = s[t[i]]

LEMMA SelectFacts ==
    ASSUME NEW S, NEW s \in Seq(S), NEW D \in SUBSET (1..Len(s))
    PROVE  /\ IsFiniteSet(D) /\ Cardinality(D) \in 0..Len(s)
           /\ Select(s, D) \in Seq(S)
           /\ \E t : Positions(t, s, D)
<1> DEFINE n == Cardinality(D)
           t == Ascending(D, Less(D))
<1>1. IsFiniteSet(D) /\ n \in Nat /\ n <= Len(s)
  <2>1. Len(s) \in Nat /\ IsFiniteSet(1..Len(s)) /\ Cardinality(1..Len(s)) = Len(s)
    BY FS_Interval
  <2>2. IsFiniteSet(D) /\ n <= Len(s)
    BY <2>1, FS_Subset
  <2> QED
    BY <2>2, FS_CardinalityType
<1>2. /\ t \in [1..n -> D] /\ \A i, j \in 1..n : i < j => <<t[i], t[j]>> \in Less(D)
      /\ \A x \in D : \E i \in 1..n : t[i] = x
  <2>1. D \in SUBSET Nat
    OBVIOUS
  <2> QED
    BY <1>1, <2>1, LessIsStrict, AscendingFacts DEF Increasing
<1>3. Select(s, D) = [i \in 1..n |-> s[t[i]]]
  BY DEF Select, Less
<1> HIDE DEF t, n
<1>4. \A i \in 1..n : t[i] \in 1..Len(s) /\ s[t[i]] \in S
  <2> SUFFICES ASSUME NEW i \in 1..n PROVE t[i] \in 1..Len(s) /\ s[t[i]] \in S
    OBVIOUS
  <2>1. t[i] \in 1..Len(s)
    BY <1>2
  <2> QED
    BY <2>1, ElementOfSeq
<1>5. Select(s, D) \in Seq(S) /\ Len(Select(s, D)) = n
  BY <1>1, <1>3, <1>4
<1>6. \A i, j \in 1..n : i < j => t[i] < t[j]
  BY <1>2 DEF Less
<1>7. Positions(t, s, D)
  BY <1>2, <1>3, <1>5, <1>6 DEF Positions, n
<1> QED
  BY <1>1, <1>5, <1>7 DEF n

-----------------------------------------------------------------------------
(* One record of an id, in a sequence and in a set. *)
OneEach(s) == \A j, k \in 1..Len(s) : s[j].id = s[k].id => j = k
OneOf(R) == \A r, q \in R : r.id = q.id => r = q

Good(s) == s \in Seq(Record) /\ OneEach(s)

(* What pruning leaves at the time n, if the bound does not bite. *)
FreshAt(R, n) == {r \in R : ~(DropExpired /\ r.expires <= n)}

LEMMA ElementFacts ==
    ASSUME NEW s, Good(s)
    PROVE  /\ Len(s) \in Nat /\ DOMAIN s = 1..Len(s)
           /\ \A k \in 1..Len(s) : s[k] \in Record /\ s[k] \in Elements(s)
           /\ Elements(s) \subseteq Record /\ OneOf(Elements(s))
           /\ IsFiniteSet(Elements(s)) /\ Cardinality(Elements(s)) = Len(s)
<1>1. Len(s) \in Nat /\ DOMAIN s = 1..Len(s) /\ s \in [1..Len(s) -> Record]
  BY DEF Good
<1>2. \A k \in 1..Len(s) : s[k] \in Record /\ s[k] \in Elements(s)
  BY <1>1 DEF Elements
<1>3. Elements(s) \subseteq Record
  BY <1>1, <1>2 DEF Elements
<1>4. OneOf(Elements(s))
  BY <1>1 DEF OneOf, Elements, Good, OneEach
<1>5. IsFiniteSet(1..Len(s)) /\ Cardinality(1..Len(s)) = Len(s)
  BY <1>1, FS_Interval
<1>6. s \in [1..Len(s) -> Elements(s)]
  BY <1>1, <1>2
<1>7. \A j, k \in 1..Len(s) : s[j] = s[k] => j = k
  BY DEF Good, OneEach
<1>8. s \in Surjection(1..Len(s), Elements(s))
  <2>1. \A r \in Elements(s) : \E k \in 1..Len(s) : s[k] = r
    BY <1>1 DEF Elements
  <2> QED
    BY <1>6, <2>1 DEF Surjection
<1>9. s \in Bijection(1..Len(s), Elements(s))
  BY <1>6, <1>7, <1>8 DEF Bijection, Injection, IsInjective
<1>10. IsFiniteSet(Elements(s)) /\ Cardinality(Elements(s)) = Len(s)
  <2>1. IsFiniteSet(Elements(s))
    BY <1>5, <1>8, FS_Surjection
  <2>2. ExistsBijection(1..Len(s), Elements(s))
    BY <1>9 DEF ExistsBijection
  <2> QED
    BY <1>5, <2>1, <2>2, FS_Bijection
<1> QED
  BY <1>1, <1>2, <1>3, <1>4, <1>10

LEMMA EmptyFacts == Good(<<>>) /\ Elements(<<>>) = {} /\ InOrder(<<>>) /\ Len(<<>>) = 0
<1>1. <<>> \in Seq(Record) /\ Len(<<>>) = 0 /\ DOMAIN <<>> = {}
  BY EmptySeq
<1> QED
  BY <1>1 DEF Good, OneEach, Elements, InOrder

-----------------------------------------------------------------------------
(* Sorting. *)

LEMMA ByDueIsStrict ==
    ASSUME NEW R, R \subseteq Record, OneOf(R)
    PROVE  StrictOrder(R, ByDue(R))
<1>1. \A r \in R : r.due \in Nat /\ r.id \in Nat
  BY QueueAssumption DEF Record
<1>2. \A r, q \in R : <<r, q>> \in ByDue(R) <=> Before(r, q)
  BY DEF ByDue
<1>3. \A r \in R : ~Before(r, r)
  BY <1>1 DEF Before
<1>4. \A r, q, p \in R : Before(r, q) /\ Before(q, p) => Before(r, p)
  BY <1>1 DEF Before
<1>5. \A r, q \in R : r = q \/ Before(r, q) \/ Before(q, r)
  BY <1>1 DEF Before, OneOf
<1> QED
  BY <1>2, <1>3, <1>4, <1>5 DEF StrictOrder

LEMMA SortFacts ==
    ASSUME NEW s, Good(s)
    PROVE  /\ Good(Sort(s)) /\ Len(Sort(s)) = Len(s) /\ InOrder(Sort(s))
           /\ Elements(Sort(s)) = Elements(s)
<1> DEFINE R == Elements(s)
           t == Sort(s)
           n == Cardinality(R)
<1>1. IsFiniteSet(R) /\ R \subseteq Record /\ OneOf(R) /\ n = Len(s) /\ n \in Nat
  BY ElementFacts
<1>2. /\ t \in [1..n -> R] /\ \A i, j \in 1..n : i < j => <<t[i], t[j]>> \in ByDue(R)
      /\ \A r \in R : \E i \in 1..n : t[i] = r
  BY <1>1, ByDueIsStrict, AscendingFacts DEF Sort, Increasing
<1> HIDE DEF t, n
<1>3. t \in Seq(Record) /\ Len(t) = n /\ DOMAIN t = 1..n
  <2>1. t \in [1..n -> Record]
    BY <1>1, <1>2
  <2> QED
    BY <1>1, <2>1
<1> HIDE DEF R
<1>4. \A i, j \in 1..n : i < j => Before(t[i], t[j])
  BY <1>2 DEF ByDue
<1>5. InOrder(t)
  BY <1>3, <1>4 DEF InOrder
<1>6. Elements(t) = R
  BY <1>2, <1>3 DEF Elements
<1>7. \A i \in 1..n : t[i].due \in Nat /\ t[i].id \in Nat
  <2>1. \A i \in 1..n : t[i] \in Record
    BY <1>1, <1>2
  <2> QED
    BY <2>1, QueueAssumption DEF Record
<1>8. OneEach(t)
  <2> SUFFICES ASSUME NEW j \in 1..n, NEW k \in 1..n, t[j].id = t[k].id, j # k PROVE FALSE
    BY <1>3 DEF OneEach
  <2>1. t[j] = t[k]
    BY <1>1, <1>2 DEF OneOf
  <2>2. j < k \/ k < j
    BY <1>1
  <2>3. Before(t[j], t[k]) \/ Before(t[k], t[j])
    BY <1>4, <2>2
  <2> QED
    BY <1>7, <2>1, <2>3 DEF Before
<1> QED
  BY <1>1, <1>3, <1>5, <1>6, <1>8 DEF Good, t, R

(* Sorting cannot tell two queues with the same records apart. *)
LEMMA SortOfSame ==
    ASSUME NEW s, NEW t, Elements(s) = Elements(t)
    PROVE  Sort(s) = Sort(t)
BY DEF Sort

-----------------------------------------------------------------------------
(* Removing records. *)

LEMMA SelectGood ==
    ASSUME NEW s, Good(s), NEW D \in SUBSET (1..Len(s))
    PROVE  /\ Good(Select(s, D)) /\ Len(Select(s, D)) <= Len(s)
           /\ Elements(Select(s, D)) = {s[k] : k \in D}
           /\ InOrder(s) => InOrder(Select(s, D))
<1> DEFINE u == Select(s, D)
           n == Cardinality(D)
<1>1. Len(s) \in Nat /\ n \in 0..Len(s) /\ u \in Seq(Record)
  BY SelectFacts DEF Good
<1>2. PICK t : Positions(t, s, D)
  BY SelectFacts DEF Good
<1> HIDE DEF u, n
<1>3. /\ t \in [1..n -> D]
      /\ \A i, j \in 1..n : i < j => t[i] < t[j]
      /\ \A x \in D : \E i \in 1..n : t[i] = x
      /\ Len(u) = n /\ \A i \in 1..n : u[i] = s[t[i]]
  BY <1>2 DEF Positions, u, n
<1>4. DOMAIN u = 1..n /\ DOMAIN s = 1..Len(s) /\ \A i \in 1..n : t[i] \in 1..Len(s)
  <2>1. DOMAIN u = 1..Len(u)
    BY <1>1
  <2>2. DOMAIN s = 1..Len(s)
    BY DEF Good
  <2>3. \A i \in 1..n : t[i] \in 1..Len(s)
    BY <1>3
  <2> QED
    BY <1>3, <2>1, <2>2, <2>3
<1>5. OneEach(u)
  <2> SUFFICES ASSUME NEW j \in 1..n, NEW k \in 1..n, u[j].id = u[k].id PROVE j = k
    BY <1>3 DEF OneEach
  <2>1. t[j] \in 1..Len(s) /\ t[k] \in 1..Len(s) /\ s[t[j]].id = s[t[k]].id
    BY <1>3, <1>4
  <2>2. t[j] = t[k]
    BY <2>1 DEF Good, OneEach
  <2>3. ~(j < k) /\ ~(k < j)
    BY <1>1, <1>3, <2>1, <2>2
  <2> QED
    BY <1>1, <2>3
<1>6. Elements(u) = {s[k] : k \in D}
  <2>1. \A i \in 1..n : u[i] \in {s[k] : k \in D}
    BY <1>3
  <2>2. \A k \in D : \E i \in 1..n : u[i] = s[k]
    BY <1>3
  <2> QED
    BY <1>4, <2>1, <2>2 DEF Elements
<1>7. ASSUME InOrder(s) PROVE InOrder(u)
  <2> SUFFICES ASSUME NEW j \in 1..n, NEW k \in 1..n, j < k PROVE Before(u[j], u[k])
    BY <1>4 DEF InOrder
  <2> QED
    BY <1>3, <1>4, <1>7 DEF InOrder
<1> QED
  BY <1>1, <1>3, <1>5, <1>6, <1>7 DEF u, Good

LEMMA LatestFacts ==
    ASSUME NEW s, Good(s)
    PROVE  /\ Good(Latest(s)) /\ Elements(Latest(s)) \subseteq Elements(s)
           /\ InOrder(s) => InOrder(Latest(s))
           /\ Len(Latest(s)) = IF Len(s) <= MaxQueueSize THEN Len(s) ELSE MaxQueueSize
           /\ Len(s) <= MaxQueueSize => Latest(s) = s
<1> USE QueueAssumption
<1>1. Len(s) \in Nat /\ DOMAIN s = 1..Len(s) /\ \A k \in 1..Len(s) : s[k] \in Record
  BY ElementFacts
<1>2. CASE Len(s) <= MaxQueueSize
  BY <1>2 DEF Latest
<1>3. CASE Len(s) > MaxQueueSize
  <2> DEFINE m == Len(s) - MaxQueueSize
             u == Latest(s)
  <2>1. u = SubSeq(s, m + 1, Len(s)) /\ m \in Nat
    BY <1>1, <1>3 DEF Latest
  <2>2. /\ u \in Seq(Record) /\ Len(u) = MaxQueueSize
        /\ \A i \in 1..MaxQueueSize : u[i] = s[m + i]
    <3>1. \A i \in m + 1 .. Len(s) : s[i] \in Record
      BY <1>1, <1>3
    <3>2. /\ SubSeq(s, m + 1, Len(s)) \in Seq(Record)
          /\ Len(SubSeq(s, m + 1, Len(s))) =
                IF m + 1 <= Len(s) THEN Len(s) - (m + 1) + 1 ELSE 0
          /\ \A i \in 1 .. Len(s) - (m + 1) + 1 :
                SubSeq(s, m + 1, Len(s))[i] = s[m + 1 + i - 1]
      BY <1>1, <3>1, SubSeqProperties
    <3>3. Len(s) - (m + 1) + 1 = MaxQueueSize
      BY <1>1
    <3>4. Len(u) = MaxQueueSize
      BY <1>1, <2>1, <3>2
    <3>5. \A i \in 1..MaxQueueSize : m + 1 + i - 1 = m + i
      BY <1>1
    <3> QED
      BY <2>1, <3>2, <3>3, <3>4, <3>5
  <2> HIDE DEF u
  <2>3. DOMAIN u = 1..MaxQueueSize
    BY <2>2
  <2>4. \A i \in 1..MaxQueueSize : m + i \in 1..Len(s)
    BY <1>1, <1>3
  <2>5. \A i, j \in 1..MaxQueueSize : (i < j => m + i < m + j) /\ (m + i = m + j => i = j)
    BY <2>1
  <2> HIDE DEF m
  <2>6. OneEach(u)
    BY <2>2, <2>4, <2>5 DEF OneEach, Good
  <2>7. Elements(u) \subseteq Elements(s)
    BY <1>1, <2>2, <2>3, <2>4 DEF Elements
  <2>8. InOrder(s) => InOrder(u)
    BY <1>1, <2>2, <2>3, <2>4, <2>5 DEF InOrder
  <2>9. Good(u) /\ ~(Len(s) <= MaxQueueSize)
    BY <1>1, <1>3, <2>2, <2>6 DEF Good
  <2> QED
    BY <2>2, <2>7, <2>8, <2>9 DEF u
<1> QED
  BY <1>1, <1>2, <1>3

(* Pruning keeps only fresh records, as many of them as there is room for, *)
(* and all of them if the queue was within its bound.                      *)
LEMMA PruneFacts ==
    ASSUME NEW s, Good(s)
    PROVE  LET F == FreshAt(Elements(s), now)
               p == Prune(s) IN
           /\ Good(p) /\ (InOrder(s) => InOrder(p))
           /\ Len(p) <= MaxQueueSize
           /\ IsFiniteSet(F) /\ Elements(p) \subseteq F
           /\ Cardinality(Elements(p)) =
                IF Cardinality(F) <= MaxQueueSize THEN Cardinality(F) ELSE MaxQueueSize
           /\ Len(s) <= MaxQueueSize => Elements(p) = F
<1> DEFINE F == FreshAt(Elements(s), now)
           D == {k \in DOMAIN s : ~(DropExpired /\ Expired(s[k]))}
           u == Select(s, D)
           p == Prune(s)
<1>1. D \in SUBSET (1..Len(s)) /\ p = Latest(u)
  BY ElementFacts DEF Prune
<1>2. {s[k] : k \in D} = F
  BY DEF Elements, FreshAt, Expired
<1> HIDE DEF D
<1>3. Good(u) /\ Len(u) <= Len(s) /\ Elements(u) = F /\ (InOrder(s) => InOrder(u))
  BY <1>1, <1>2, SelectGood
<1> HIDE DEF u, p, F
<1>4. IsFiniteSet(F) /\ Cardinality(F) = Len(u) /\ Len(u) \in Nat
  BY <1>3, ElementFacts
<1>5. /\ Good(p) /\ Elements(p) \subseteq F /\ (InOrder(u) => InOrder(p))
      /\ Len(p) = IF Len(u) <= MaxQueueSize THEN Len(u) ELSE MaxQueueSize
      /\ Len(u) <= MaxQueueSize => p = u
  BY <1>1, <1>3, LatestFacts
<1>6. Cardinality(Elements(p)) = Len(p)
  BY <1>5, ElementFacts
<1>7. Len(s) \in Nat /\ MaxQueueSize \in Nat
  BY ElementFacts, QueueAssumption
<1>8. Len(s) <= MaxQueueSize => Elements(p) = F
  BY <1>3, <1>4, <1>5, <1>7
<1>9. Len(p) <= MaxQueueSize
  BY <1>4, <1>5, <1>7
<1> QED
  BY <1>3, <1>4, <1>5, <1>6, <1>8, <1>9 DEF F, p

(* Prune, then sort: due(), save() and load(). *)
LEMMA TidyFacts ==
    ASSUME NEW s, Good(s)
    PROVE  LET F == FreshAt(Elements(s), now)
               t == Sort(Prune(s)) IN
           /\ Good(t) /\ InOrder(t) /\ Len(t) <= MaxQueueSize
           /\ IsFiniteSet(F) /\ Elements(t) \subseteq F
           /\ Cardinality(Elements(t)) =
                IF Cardinality(F) <= MaxQueueSize THEN Cardinality(F) ELSE MaxQueueSize
           /\ Len(s) <= MaxQueueSize => Elements(t) = F
BY PruneFacts, SortFacts

LEMMA WithoutFacts ==
    ASSUME NEW s, Good(s), NEW i
    PROVE  /\ Good(Without(s, i)) /\ Len(Without(s, i)) <= Len(s)
           /\ InOrder(s) => InOrder(Without(s, i))
           /\ Elements(Without(s, i)) = {r \in Elements(s) : r.id # i}
<1> DEFINE D == {k \in DOMAIN s : s[k].id # i}
<1>1. D \in SUBSET (1..Len(s)) /\ Without(s, i) = Select(s, D)
  BY ElementFacts DEF Without
<1>2. {s[k] : k \in D} = {r \in Elements(s) : r.id # i}
  BY DEF Elements
<1> HIDE DEF D
<1> QED
  BY <1>1, <1>2, SelectGood

-----------------------------------------------------------------------------
(* Inserting a record. *)

LEMMA AssignFacts ==
    ASSUME NEW s, Good(s), NEW r \in Record
    PROVE  /\ Good(Assign(s, r))
           /\ Elements(Assign(s, r)) = {q \in Elements(s) : q.id # r.id} \cup {r}
<1> DEFINE t == Assign(s, r)
<1>1. Len(s) \in Nat /\ DOMAIN s = 1..Len(s) /\ \A k \in 1..Len(s) : s[k] \in Record
  BY ElementFacts
<1>2. CASE r.id \in Ids(s)
  <2>1. PICK m \in 1..Len(s) : s[m].id = r.id
    BY <1>1, <1>2 DEF Ids, Elements
  <2>2. t = [k \in 1..Len(s) |-> IF s[k].id = r.id THEN r ELSE s[k]]
    BY <1>1, <1>2 DEF Assign
  <2> HIDE DEF t
  <2>3. t \in Seq(Record) /\ Len(t) = Len(s) /\ DOMAIN t = 1..Len(s)
    BY <1>1, <2>2
  <2>4. \A k \in 1..Len(s) : t[k].id = s[k].id
    BY <2>2
  <2>5. OneEach(t)
    BY <2>3, <2>4 DEF Good, OneEach
  <2>6. t[m] = r
    BY <2>1, <2>2
  <2>7. \A k \in 1..Len(s) : k # m => t[k] = s[k] /\ s[k].id # r.id
    BY <2>1, <2>2 DEF Good, OneEach
  <2>8. Elements(t) = {q \in Elements(s) : q.id # r.id} \cup {r}
    <3>1. \A k \in 1..Len(s) : t[k] \in {q \in Elements(s) : q.id # r.id} \cup {r}
      BY <1>1, <2>6, <2>7 DEF Elements
    <3>2. \A k \in 1..Len(s) : s[k].id # r.id => t[k] = s[k]
      BY <2>2
    <3> QED
      BY <1>1, <2>3, <2>6, <3>1, <3>2 DEF Elements
  <2> QED
    BY <2>3, <2>5, <2>8 DEF Good, t
<1>3. CASE r.id \notin Ids(s)
  <2>1. \A k \in 1..Len(s) : s[k].id # r.id
    BY <1>1, <1>3 DEF Ids, Elements
  <2>2. t = Append(s, r)
    BY <1>3 DEF Assign
  <2>3. /\ t \in Seq(Record) /\ Len(t) = Len(s) + 1 /\ DOMAIN t = 1..Len(s) + 1
        /\ t[Len(s) + 1] = r /\ \A k \in 1..Len(s) : t[k] = s[k]
    BY <2>2 DEF Good
  <2> HIDE DEF t
  <2>4. \A k \in 1..Len(s) + 1 : k \in 1..Len(s) \/ k = Len(s) + 1
    BY <1>1
  <2>5. OneEach(t)
    BY <2>1, <2>3, <2>4 DEF Good, OneEach
  <2>6. \A q \in Elements(s) : q.id # r.id
    BY <1>1, <2>1 DEF Elements
  <2>7. Elements(t) = Elements(s) \cup {r}
    <3>1. Len(s) + 1 \in 1..Len(s) + 1 /\ \A k \in 1..Len(s) : k \in 1..Len(s) + 1
      BY <1>1
    <3>2. \A k \in 1..Len(s) + 1 : t[k] \in Elements(s) \cup {r}
      BY <1>1, <2>3, <2>4 DEF Elements
    <3>3. \A q \in Elements(s) \cup {r} : \E k \in 1..Len(s) + 1 : t[k] = q
      BY <1>1, <2>3, <3>1 DEF Elements
    <3> QED
      BY <2>3, <3>2, <3>3 DEF Elements
  <2> QED
    BY <2>3, <2>5, <2>6, <2>7 DEF Good, t
<1> QED
  BY <1>2, <1>3

LEMMA PutFacts ==
    ASSUME Good(records), NEW r \in Record
    PROVE  LET R == {q \in Elements(records) : q.id # r.id} \cup {r}
               F == FreshAt(R, now)
               t == Put(r) IN
           /\ Good(t) /\ InOrder(t) /\ Len(t) <= MaxQueueSize
           /\ IsFiniteSet(F) /\ Elements(t) \subseteq F
           /\ Cardinality(Elements(t)) =
                IF Cardinality(F) <= MaxQueueSize THEN Cardinality(F) ELSE MaxQueueSize
<1> DEFINE a == Assign(records, r)
<1>1. Good(a) /\ Elements(a) = {q \in Elements(records) : q.id # r.id} \cup {r}
  BY AssignFacts
<1>2. Good(Sort(a)) /\ InOrder(Sort(a)) /\ Elements(Sort(a)) = Elements(a)
  BY <1>1, SortFacts
<1>3. Put(r) = Prune(Sort(a))
  BY DEF Put
<1> HIDE DEF a
<1> QED
  BY <1>1, <1>2, <1>3, PruneFacts

-----------------------------------------------------------------------------
(* The inductive invariant. *)

(* Every record knows when it was enqueued, and that was not later than now. *)
Lived(s) ==
    \A r \in Elements(s) : created[r.id] <= now /\ r.expires = created[r.id] + ExpireAfter

(* Whatever due() pruned in memory only is expired, so loading the file      *)
(* would prune it as well.                                                   *)
KeepInv ==
    up /\ ~diverged => FreshAt(Elements(records), now) = FreshAt(Elements(file.records), now)

DownInv ==
    /\ ~up => records = <<>> /\ ~diverged
    /\ file.kind # "records" => file.records = <<>>

IndInv ==
    /\ TypeOK
    /\ FifoByDueTime
    /\ Lived(records) /\ Lived(file.records)
    /\ KeepInv
    /\ DownInv

(* The next state, part by part. *)
LivedNext(s) ==
    \A r \in Elements(s) : created'[r.id] <= now' /\ r.expires = created'[r.id] + ExpireAfter

Fit(s) == Good(s) /\ Len(s) <= MaxQueueSize /\ InOrder(s) /\ LivedNext(s)

RestOK ==
    /\ now' \in 0..MaxTime /\ up' \in BOOLEAN /\ diverged' \in BOOLEAN
    /\ created' \in [Items -> 0..NotYet]
    /\ file'.kind \in {"missing", "corrupt", "records"}
    /\ ~up' => records' = <<>> /\ ~diverged'
    /\ file'.kind # "records" => file'.records = <<>>

KeepNext ==
    up' /\ ~diverged' =>
        FreshAt(Elements(records'), now') = FreshAt(Elements(file'.records), now')

StepOK == Fit(records') /\ Fit(file'.records) /\ RestOK /\ KeepNext

LEMMA Unpacked ==
    ASSUME IndInv
    PROVE  /\ Good(records) /\ Len(records) <= MaxQueueSize /\ InOrder(records)
           /\ Good(file.records) /\ Len(file.records) <= MaxQueueSize /\ InOrder(file.records)
           /\ Lived(records) /\ Lived(file.records)
           /\ now \in 0..MaxTime /\ now \in Nat /\ up \in BOOLEAN /\ diverged \in BOOLEAN
           /\ created \in [Items -> 0..NotYet]
           /\ file.kind \in {"missing", "corrupt", "records"}
           /\ KeepInv /\ DownInv
<1>1. records \in Seq(Record) /\ file.records \in Seq(Record)
  BY DEF IndInv, TypeOK
<1>2. DOMAIN records = 1..Len(records) /\ DOMAIN file.records = 1..Len(file.records)
  BY <1>1
<1>3. Good(records) /\ Good(file.records)
  BY <1>1, <1>2 DEF IndInv, TypeOK, Bounded, Good, OneEach
<1>4. Len(records) <= MaxQueueSize /\ Len(file.records) <= MaxQueueSize
  BY DEF IndInv, TypeOK, Bounded
<1> QED
  BY <1>3, <1>4, QueueAssumption DEF IndInv, TypeOK, FifoByDueTime

LEMMA PartsMakeWhole == ASSUME StepOK PROVE IndInv'
<1>1. /\ records' \in Seq(Record) /\ file'.records \in Seq(Record)
      /\ OneEach(records') /\ OneEach(file'.records)
  BY DEF StepOK, Fit, Good
<1>2. DOMAIN records' = 1..Len(records') /\ DOMAIN file'.records = 1..Len(file'.records)
  BY <1>1
<1>3. Bounded(records)' /\ Bounded(file.records)'
  BY <1>1, <1>2 DEF Bounded, StepOK, Fit, OneEach
<1>4. TypeOK'
  BY <1>1, <1>3 DEF TypeOK, StepOK, RestOK
<1>5. FifoByDueTime' /\ Lived(records)' /\ Lived(file.records)'
  BY DEF FifoByDueTime, Lived, InOrder, Before, Elements, StepOK, Fit, LivedNext
<1>6. KeepInv' /\ DownInv'
  BY DEF KeepInv, DownInv, FreshAt, Elements, StepOK, RestOK, KeepNext
<1> QED
  BY <1>4, <1>5, <1>6 DEF IndInv

LEMMA Start == Init => IndInv
<1> SUFFICES ASSUME Init PROVE IndInv
  OBVIOUS
<1>1. records = <<>> /\ file.records = <<>> /\ file.kind = "missing"
  BY DEF Init, NoRecords, Unreadable
<1>2. 0 <= MaxQueueSize /\ <<>> \in Seq(Record) /\ DOMAIN <<>> = {}
  BY QueueAssumption, EmptySeq
<1>3. Bounded(records) /\ Bounded(file.records)
  BY <1>1, <1>2, EmptyFacts DEF Bounded
<1>4. TypeOK
  <2>1. now \in 0..MaxTime /\ up \in BOOLEAN /\ diverged \in BOOLEAN
    <3>1. now = 0 /\ up = FALSE /\ diverged = FALSE
      BY DEF Init
    <3>2. 0 \in 0..MaxTime
      BY QueueAssumption
    <3> QED
      BY <3>1, <3>2
  <2>2. MaxTime + 1 \in 0..MaxTime + 1
    BY QueueAssumption
  <2>3. created \in [Items -> 0..NotYet]
    BY <2>2 DEF Init, NotYet
  <2>4. records \in Seq(Record) /\ file.records \in Seq(Record)
    BY <1>1, <1>2
  <2> QED
    BY <1>1, <1>3, <2>1, <2>3, <2>4 DEF TypeOK
<1>5. FifoByDueTime /\ Lived(records) /\ Lived(file.records) /\ KeepInv /\ DownInv
  BY <1>1, EmptyFacts DEF Init, FifoByDueTime, Lived, KeepInv, DownInv
<1> QED
  BY <1>4, <1>5 DEF IndInv

-----------------------------------------------------------------------------
(* Steps. *)

(* Nothing that time and new records do harms the records there are. *)
LEMMA StillFit ==
    ASSUME IndInv, now' \in 0..MaxTime, now <= now',
           \A i \in Items : created[i] # NotYet => created'[i] = created[i]
    PROVE  Fit(records) /\ Fit(file.records)
<1>1. ASSUME NEW s, Good(s), Lived(s) PROVE LivedNext(s)
  <2> SUFFICES ASSUME NEW r \in Elements(s)
               PROVE  created'[r.id] <= now' /\ r.expires = created'[r.id] + ExpireAfter
    BY DEF LivedNext
  <2>1. r \in Record /\ r.id \in Items
    BY <1>1, ElementFacts DEF Record
  <2>2. created[r.id] <= now /\ r.expires = created[r.id] + ExpireAfter
    BY <1>1 DEF Lived
  <2>3. created[r.id] \in Nat /\ now \in Nat /\ now <= MaxTime /\ MaxTime \in Nat /\ now' \in Nat
    <3>1. created[r.id] \in 0..NotYet
      BY <2>1, Unpacked
    <3>2. now \in 0..MaxTime
      BY Unpacked
    <3> QED
      BY <3>1, <3>2, QueueAssumption DEF NotYet
  <2>4. created'[r.id] = created[r.id]
    BY <2>1, <2>2, <2>3 DEF NotYet
  <2> QED
    BY <2>2, <2>3, <2>4
<1> QED
  BY <1>1, Unpacked DEF Fit

LEMMA EmptyFit == Fit(<<>>)
BY EmptyFacts, QueueAssumption DEF Fit, LivedNext

LEMMA PartFit ==
    ASSUME NEW s, Fit(s), NEW t, Good(t), Len(t) <= MaxQueueSize, InOrder(t),
           Elements(t) \subseteq Elements(s)
    PROVE  Fit(t)
BY DEF Fit, LivedNext

(* An operation that ends with a save: the file holds what memory holds, or  *)
(* what it held before.                                                      *)
LEMMA SavedStep ==
    ASSUME IndInv, NEW ok \in BOOLEAN, Save(ok), Fit(records'), Fit(file.records),
           up' = TRUE, now' \in 0..MaxTime, created' \in [Items -> 0..NotYet]
    PROVE  StepOK
<1>1. CASE ok
  <2>1. file' = [kind |-> "records", records |-> records'] /\ diverged' = FALSE
    BY <1>1 DEF Save
  <2> QED
    BY <2>1 DEF StepOK, RestOK, KeepNext
<1>2. CASE ~ok
  <2>1. file' = file /\ diverged' = TRUE
    BY <1>2 DEF Save
  <2> QED
    BY <2>1, Unpacked DEF StepOK, RestOK, KeepNext, DownInv
<1> QED
  BY <1>1, <1>2

LEMMA SaveOutcomesAre == SaveOutcomes \subseteq BOOLEAN
BY DEF SaveOutcomes

LEMMA EnqueueStep ==
    ASSUME IndInv, NEW i \in Items, NEW delay \in Delays, NEW ok \in BOOLEAN,
           Enqueue(i, 1, delay, ok)
    PROVE  StepOK
<1> DEFINE r == [id |-> i, attempts |-> 1, due |-> now + delay, expires |-> now + ExpireAfter]
<1>1. /\ up = TRUE /\ up' = TRUE /\ now' = now /\ created[i] = NotYet
      /\ created' = [created EXCEPT ![i] = now]
  BY Unpacked DEF Enqueue
<1>2. now \in Nat /\ now <= MaxTime /\ MaxTime \in Nat /\ delay \in Nat /\ ExpireAfter \in Nat
  BY Unpacked, QueueAssumption
<1>3. created' \in [Items -> 0..NotYet] /\ now' \in 0..MaxTime /\ created'[i] = now
  BY <1>1, <1>2, Unpacked DEF NotYet
<1>4. Fit(records) /\ Fit(file.records)
  BY <1>1, <1>2, <1>3, Unpacked, StillFit
<1>5. CASE MaxQueueSize = 0
  BY <1>1, <1>3, <1>4, <1>5, Unpacked
  DEF Enqueue, storeVars, StepOK, RestOK, KeepNext, KeepInv, DownInv
<1>6. CASE MaxQueueSize # 0
  <2>1. records' = Put(r) /\ Save(ok)
    BY <1>6 DEF Enqueue
  <2>2. r \in Record /\ r.id = i /\ r.expires = now + ExpireAfter
    BY <1>2 DEF Record, MaxAttempts
  <2> HIDE DEF r
  <2>3. /\ Good(records') /\ InOrder(records') /\ Len(records') <= MaxQueueSize
        /\ Elements(records') \subseteq {q \in Elements(records) : q.id # r.id} \cup {r}
    BY <2>1, <2>2, Unpacked, PutFacts DEF FreshAt
  <2>4. LivedNext(records')
    BY <1>1, <1>2, <1>3, <1>4, <2>2, <2>3 DEF Fit, LivedNext
  <2>5. Fit(records')
    BY <2>3, <2>4 DEF Fit
  <2> QED
    BY <1>1, <1>3, <1>4, <2>1, <2>5, SavedStep
<1> QED
  BY <1>5, <1>6

LEMMA RescheduleStep ==
    ASSUME IndInv, NEW i \in Items, NEW delay \in Delays, NEW ok \in BOOLEAN,
           Reschedule(i, 2, delay, ok)
    PROVE  StepOK
<1>1. up' = TRUE /\ now' = now /\ created' = created /\ Save(ok)
  BY Unpacked DEF Reschedule
<1>2. now \in Nat /\ now' \in 0..MaxTime /\ delay \in Nat /\ created' \in [Items -> 0..NotYet]
  BY <1>1, Unpacked, QueueAssumption
<1>3. Fit(records) /\ Fit(file.records)
  BY <1>1, <1>2, Unpacked, StillFit
<1>4. PICK k \in DOMAIN records :
         records[k].id = i /\ records' = Put(Updated(records[k], 2, delay))
  BY DEF Reschedule
<1> DEFINE q == records[k]
           r == Updated(q, 2, delay)
<1>5. q \in Record /\ q \in Elements(records)
  BY Unpacked, ElementFacts
<1>7. records' = Put(r)
  BY <1>4
<1> HIDE DEF q
<1>6. r \in Record /\ r.id = q.id /\ r.expires = q.expires
  <2>1. r = [q EXCEPT !.attempts = 2, !.due = now + delay]
    BY DEF Updated
  <2>2. now + delay \in Nat /\ 2 \in 1..MaxAttempts
    BY <1>2 DEF MaxAttempts
  <2> HIDE DEF r
  <2> QED
    BY <1>5, <2>1, <2>2 DEF Record
<1> HIDE DEF r
<1>8. /\ Good(records') /\ InOrder(records') /\ Len(records') <= MaxQueueSize
      /\ Elements(records') \subseteq Elements(records) \cup {r}
  BY <1>6, <1>7, Unpacked, PutFacts DEF FreshAt
<1>9. LivedNext(records')
  BY <1>3, <1>5, <1>6, <1>8 DEF Fit, LivedNext
<1>10. Fit(records')
  BY <1>8, <1>9 DEF Fit
<1> QED
  BY <1>1, <1>2, <1>3, <1>10, SavedStep

LEMMA AckStep ==
    ASSUME IndInv, NEW i \in Items, NEW ok \in BOOLEAN, Ack(i, ok)
    PROVE  StepOK
<1>1. /\ up' = TRUE /\ now' = now /\ created' = created /\ Save(ok)
      /\ records' = Without(records, i)
  BY Unpacked DEF Ack
<1>2. now' \in 0..MaxTime /\ created' \in [Items -> 0..NotYet] /\ Fit(records) /\ Fit(file.records)
  BY <1>1, Unpacked, StillFit
<1>3. /\ Good(records') /\ Len(records') <= Len(records) /\ InOrder(records')
      /\ Elements(records') \subseteq Elements(records)
  BY <1>1, Unpacked, WithoutFacts
<1>4. Len(records) \in Nat /\ Len(records') \in Nat /\ MaxQueueSize \in Nat
  BY <1>3, Unpacked, ElementFacts, QueueAssumption
<1>5. Fit(records')
  BY <1>2, <1>3, <1>4, Unpacked, PartFit
<1> QED
  BY <1>1, <1>2, <1>5, SavedStep

(* Sorted and pruned in memory, the file untouched: both still have the same *)
(* fresh records.                                                            *)
LEMMA TidyStep ==
    ASSUME IndInv, up, up' = up, records' = Sort(Prune(records)),
           UNCHANGED <<now, file, created, diverged>>
    PROVE  StepOK
<1>1. Fit(records) /\ Fit(file.records)
  BY Unpacked, StillFit
<1>2. /\ Good(records') /\ InOrder(records') /\ Len(records') <= MaxQueueSize
      /\ Elements(records') = FreshAt(Elements(records), now)
  BY Unpacked, TidyFacts
<1>3. Fit(records')
  BY <1>1, <1>2, PartFit DEF FreshAt
<1>4. FreshAt(Elements(records'), now') = FreshAt(Elements(records), now)
  BY <1>2 DEF FreshAt
<1> QED
  BY <1>1, <1>3, <1>4, Unpacked DEF StepOK, RestOK, KeepNext, KeepInv, DownInv

LEMMA PopDueStep == ASSUME IndInv, NEW ok \in BOOLEAN, PopDue(ok) PROVE StepOK
<1> DEFINE kept == Sort(Prune(records))
           due == Select(kept, {k \in DOMAIN kept : IsDue(kept[k])})
<1>1. up /\ up' = up /\ now' = now /\ created' = created
  BY DEF PopDue
<1>2. CASE due = NoRecords
  <2>1. records' = kept /\ UNCHANGED <<file, diverged>>
    BY <1>2 DEF PopDue
  <2> QED
    BY <1>1, <2>1, TidyStep
<1>3. CASE due # NoRecords
  <2>1. records' = Without(kept, Head(due).id) /\ Save(ok)
    BY <1>3 DEF PopDue
  <2>2. Fit(records) /\ Fit(file.records) /\ up' = TRUE
    BY <1>1, Unpacked, StillFit
  <2>3. /\ Good(kept) /\ InOrder(kept) /\ Len(kept) <= MaxQueueSize
        /\ Elements(kept) \subseteq Elements(records)
    BY Unpacked, TidyFacts DEF FreshAt
  <2> HIDE DEF kept, due
  <2>4. /\ Good(records') /\ Len(records') <= Len(kept) /\ InOrder(records')
        /\ Elements(records') \subseteq Elements(records)
    BY <2>1, <2>3, WithoutFacts
  <2>5. Len(kept) \in Nat /\ Len(records') \in Nat /\ MaxQueueSize \in Nat
    BY <2>3, <2>4, ElementFacts, QueueAssumption
  <2>6. Fit(records')
    BY <2>2, <2>3, <2>4, <2>5, PartFit
  <2> QED
    BY <1>1, <2>1, <2>2, <2>6, Unpacked, SavedStep
<1> QED
  BY <1>2, <1>3

LEMMA SaveNowStep == ASSUME IndInv, NEW ok \in BOOLEAN, SaveNow(ok) PROVE StepOK
<1>1. /\ up' = TRUE /\ now' = now /\ created' = created /\ Save(ok)
      /\ records' = Sort(Prune(records))
  BY Unpacked DEF SaveNow
<1>2. Fit(records) /\ Fit(file.records)
  BY <1>1, Unpacked, StillFit
<1>3. Fit(records')
  BY <1>1, <1>2, Unpacked, TidyFacts, PartFit DEF FreshAt
<1> QED
  BY <1>1, <1>2, <1>3, Unpacked, SavedStep

LEMMA ClearStep == ASSUME IndInv, NEW ok \in BOOLEAN, Clear(ok) PROVE StepOK
<1>1. up' = TRUE /\ now' = now /\ created' = created /\ Save(ok) /\ records' = <<>>
  BY Unpacked DEF Clear, NoRecords
<1>2. Fit(records') /\ Fit(file.records)
  BY <1>1, Unpacked, StillFit, EmptyFit
<1> QED
  BY <1>1, <1>2, Unpacked, SavedStep

LEMMA LoadStep == ASSUME IndInv, NEW ok \in BOOLEAN, Load(ok) PROVE StepOK
<1>1. /\ up' = TRUE /\ now' = now /\ created' = created /\ ~up
      /\ records' = Sort(Prune(file.records))
  BY DEF Load, Loaded
<1>2. Fit(records) /\ Fit(file.records)
  BY <1>1, Unpacked, StillFit
<1>3. Elements(records') = FreshAt(Elements(file.records), now)
  BY <1>1, Unpacked, TidyFacts
<1>4. Fit(records')
  BY <1>1, <1>2, Unpacked, TidyFacts, PartFit DEF FreshAt
<1>5. CASE file.kind = "records"
  BY <1>1, <1>2, <1>4, <1>5, Unpacked, SavedStep DEF Load
<1>6. CASE file.kind # "records"
  <2>1. file' = file /\ diverged' = diverged
    BY <1>6 DEF Load
  <2>2. FreshAt(Elements(records'), now') = FreshAt(Elements(file'.records), now')
    BY <1>1, <1>3, <2>1 DEF FreshAt
  <2> QED
    BY <1>1, <1>2, <1>4, <2>1, <2>2, Unpacked DEF StepOK, RestOK, KeepNext, DownInv
<1> QED
  BY <1>5, <1>6

LEMMA OtherStep ==
    ASSUME IndInv,
           \/ LoadUnread \/ Stop \/ Tick
           \/ \E kind \in {"missing", "corrupt"} : Damage(kind)
    PROVE  StepOK
<1>1. now' \in 0..MaxTime /\ now <= now' /\ created' = created
  BY Unpacked, QueueAssumption DEF LoadUnread, Stop, Tick, Damage, ghostVars
<1>2. Fit(records) /\ Fit(file.records) /\ Fit(<<>>)
  BY <1>1, StillFit, EmptyFit
<1>3. CASE LoadUnread
  BY <1>1, <1>2, <1>3, Unpacked DEF LoadUnread, NoRecords, StepOK, RestOK, KeepNext, DownInv
<1>4. CASE Stop
  BY <1>1, <1>2, <1>4, Unpacked DEF Stop, NoRecords, StepOK, RestOK, KeepNext, DownInv
<1>5. ASSUME NEW kind \in {"missing", "corrupt"}, Damage(kind) PROVE StepOK
  <2>1. file'.kind = kind /\ file'.records = <<>>
    BY <1>5 DEF Damage, Unreadable, NoRecords
  <2>2. /\ ~up /\ up' = up /\ records' = records /\ diverged' = diverged
    BY <1>5 DEF Damage, ghostVars
  <2> QED
    BY <1>1, <1>2, <2>1, <2>2, Unpacked DEF StepOK, RestOK, KeepNext, DownInv
<1>6. CASE Tick
  <2>1. UNCHANGED <<up, records, file, created, diverged>>
    BY <1>6 DEF Tick, storeVars, ghostVars
  <2>2. ASSUME up, ~diverged
        PROVE  FreshAt(Elements(records), now') = FreshAt(Elements(file.records), now')
    <3>1. FreshAt(Elements(records), now) = FreshAt(Elements(file.records), now)
      BY <2>2, Unpacked DEF KeepInv
    <3>2. ASSUME NEW s, Good(s)
          PROVE  FreshAt(Elements(s), now') = FreshAt(FreshAt(Elements(s), now), now')
      <4>1. \A r \in Elements(s) : r.expires \in Nat
        BY <3>2, ElementFacts DEF Record
      <4>2. \A r \in Elements(s) : r.expires <= now => r.expires <= now'
        BY <1>1, <4>1, Unpacked
      <4> QED
        BY <4>2 DEF FreshAt
    <3> QED
      BY <3>1, <3>2, Unpacked
  <2> QED
    BY <1>1, <1>2, <2>1, <2>2, Unpacked DEF StepOK, RestOK, KeepNext, DownInv
<1> QED
  BY <1>3, <1>4, <1>5, <1>6

LEMMA Step == IndInv /\ [Next]_vars => IndInv'
<1> SUFFICES ASSUME IndInv, [Next]_vars PROVE IndInv'
  OBVIOUS
<1>1. CASE Next
  <2>1. ASSUME NEW ok \in SaveOutcomes, NEW i \in Items, NEW delay \in Delays,
               Enqueue(i, 1, delay, ok) \/ Reschedule(i, 2, delay, ok)
        PROVE  StepOK
    BY <2>1, SaveOutcomesAre, EnqueueStep, RescheduleStep
  <2>2. ASSUME NEW ok \in SaveOutcomes,
               \/ \E i \in Items : Ack(i, ok)
               \/ PopDue(ok) \/ SaveNow(ok) \/ Clear(ok) \/ Load(ok)
        PROVE  StepOK
    BY <2>2, SaveOutcomesAre, AckStep, PopDueStep, SaveNowStep, ClearStep, LoadStep
  <2>3. ASSUME Due PROVE StepOK
    <3>1. /\ up /\ up' = up /\ records' = Sort(Prune(records))
          /\ UNCHANGED <<now, file, created, diverged>>
      BY <2>3 DEF Due, ghostVars
    <3> QED
      BY <3>1, TidyStep
  <2>4. StepOK
    <3>1. CASE \E ok \in SaveOutcomes :
                  \/ \E i \in Items, delay \in Delays :
                        Enqueue(i, 1, delay, ok) \/ Reschedule(i, 2, delay, ok)
                  \/ \E i \in Items : Ack(i, ok)
                  \/ PopDue(ok) \/ SaveNow(ok) \/ Clear(ok) \/ Load(ok)
      BY <2>1, <2>2, <3>1
    <3>2. CASE Due \/ LoadUnread \/ Stop \/ Tick
               \/ \E kind \in {"missing", "corrupt"} : Damage(kind)
      BY <2>3, <3>2, OtherStep
    <3> QED
      BY <1>1, <3>1, <3>2 DEF Next
  <2> QED
    BY <2>4, PartsMakeWhole
<1>2. CASE UNCHANGED vars
  BY <1>2 DEF IndInv, TypeOK, FifoByDueTime, Lived, KeepInv, DownInv, InOrder, Before, Elements,
     FreshAt, Bounded, vars, storeVars, ghostVars
<1> QED
  BY <1>1, <1>2

-----------------------------------------------------------------------------
(* The invariant holds in every reachable state. *)
THEOREM InvariantHolds == Spec => []IndInv
BY Start, Step, PTL DEF Spec

(* The queue never holds more than max_queue_size records nor one id twice,  *)
(* in memory and in the file (_prune_locked, enqueue_sync, load_sync).       *)
THEOREM TypeCorrect == Spec => []TypeOK
<1>1. IndInv => TypeOK
  BY DEF IndInv
<1> QED
  BY <1>1, InvariantHolds, PTL

(* Memory and file are sorted by due time in every reachable state, also     *)
(* when a save fails or a file is pruned before it is sorted (_sort_locked,  *)
(* _load_value_locked).                                                      *)
THEOREM QueueIsSorted == Spec => []FifoByDueTime
<1>1. IndInv => FifoByDueTime
  BY DEF IndInv
<1> QED
  BY <1>1, InvariantHolds, PTL

(* No retry and no restart changes when a record expires (reschedule_sync    *)
(* copies expires_at).                                                       *)
THEOREM LifeIsFixed == Spec => []LifeNotExtended
<1>1. IndInv => LifeNotExtended
  BY DEF IndInv, Lived, LifeNotExtended
<1> QED
  BY <1>1, InvariantHolds, PTL

(* Unless the last save or the load raised, a queue loaded from the file now *)
(* equals the one in memory but for expired records: what due() prunes       *)
(* without saving, load() prunes again (_due_locked, _load_value_locked).    *)
THEOREM RestartKeepsRecords == Spec => []RestartKeepsQueue
<1>1. IndInv => RestartKeepsQueue
  <2> SUFFICES ASSUME IndInv, up, ~diverged PROVE Loaded(file.records) = Loaded(records)
    BY DEF RestartKeepsQueue
  <2>1. Elements(Prune(file.records)) = FreshAt(Elements(file.records), now)
    BY Unpacked, PruneFacts
  <2>2. Elements(Prune(records)) = FreshAt(Elements(records), now)
    BY Unpacked, PruneFacts
  <2>3. Elements(Prune(file.records)) = Elements(Prune(records))
    BY <2>1, <2>2, Unpacked DEF KeepInv
  <2> QED
    BY <2>3, SortOfSame DEF Loaded
<1> QED
  BY <1>1, InvariantHolds, PTL

-----------------------------------------------------------------------------
(* The refinement of RetrySet: first what the mapping makes of a queue.     *)

LEMMA SameCardinality == ASSUME NEW S PROVE Abstract!Cardinality(S) = Cardinality(S)
BY DEF Cardinality, Abstract!Cardinality

LEMMA IdFacts ==
    ASSUME NEW s, Good(s)
    PROVE  /\ Ids(s) \subseteq Items
           /\ \A r \in Elements(s) : r.id \in Ids(s)
           /\ \A i \in Ids(s) : \E r \in Elements(s) : r.id = i
BY ElementFacts DEF Ids, Record

LEMMA AttemptFacts ==
    ASSUME NEW s, Good(s)
    PROVE  /\ AttemptsIn(s) \in [Items -> 0..MaxAttempts]
           /\ \A r \in Elements(s) : AttemptsIn(s)[r.id] = r.attempts
           /\ \A i \in Items : i \notin Ids(s) => AttemptsIn(s)[i] = 0
           /\ \A i \in Items : AttemptsIn(s)[i] # 0 <=> i \in Ids(s)
           /\ Abstract!Live(AttemptsIn(s)) = Ids(s)
<1> DEFINE RecordOf(i) == CHOOSE r \in Elements(s) : r.id = i
<1>1. \A i \in Items : AttemptsIn(s)[i] = IF i \in Ids(s) THEN RecordOf(i).attempts ELSE 0
  BY DEF AttemptsIn
<1>2. \A i \in Ids(s) : RecordOf(i) \in Elements(s) /\ RecordOf(i).id = i
  BY IdFacts
<1> HIDE DEF RecordOf
<1>3. ASSUME NEW r \in Elements(s)
      PROVE  /\ r.id \in Items /\ r.id \in Ids(s) /\ AttemptsIn(s)[r.id] = r.attempts
             /\ r.attempts \in 1..MaxAttempts
  <2>1. r \in Record /\ r.id \in Items /\ r.id \in Ids(s) /\ r.attempts \in 1..MaxAttempts
    BY ElementFacts, IdFacts DEF Record
  <2>2. RecordOf(r.id) = r
    BY <1>2, <2>1, ElementFacts DEF OneOf
  <2> QED
    BY <1>1, <2>1, <2>2
<1>4. \A i \in Ids(s) : AttemptsIn(s)[i] \in 1..MaxAttempts
  BY <1>3, IdFacts
<1>5. \A i \in Items : i \notin Ids(s) => AttemptsIn(s)[i] = 0
  BY <1>1
<1>6. \A i \in Items : /\ AttemptsIn(s)[i] \in 0..MaxAttempts
                       /\ AttemptsIn(s)[i] # 0 <=> i \in Ids(s)
                       /\ AttemptsIn(s)[i] > 0 <=> i \in Ids(s)
  BY <1>4, <1>5 DEF MaxAttempts
<1>7. AttemptsIn(s) \in [Items -> 0..MaxAttempts]
  BY <1>6 DEF AttemptsIn
<1>8. Abstract!Live(AttemptsIn(s)) = Ids(s)
  BY <1>6, IdFacts DEF Abstract!Live
<1> QED
  BY <1>3, <1>5, <1>6, <1>7, <1>8

LEMMA EmptyIsEmpty == AttemptsIn(<<>>) = Abstract!Empty /\ Ids(<<>>) = {}
<1>1. Ids(<<>>) = {}
  BY EmptyFacts DEF Ids
<1> QED
  BY <1>1 DEF AttemptsIn, Abstract!Empty

(* Two queues with the same attempts by id are one to the mapping. *)
LEMMA PartIsOnly ==
    ASSUME NEW s, Good(s), NEW t, Good(t), Elements(t) \subseteq Elements(s)
    PROVE  /\ AttemptsIn(t) = Abstract!Only(AttemptsIn(s), Ids(t))
           /\ Ids(t) \subseteq Ids(s)
<1>1. \A i \in Ids(t) : i \in Ids(s) /\ AttemptsIn(t)[i] = AttemptsIn(s)[i]
  BY IdFacts, AttemptFacts
<1>2. \A i \in Items : AttemptsIn(t)[i] = IF i \in Ids(t) THEN AttemptsIn(s)[i] ELSE 0
  BY <1>1, AttemptFacts
<1>3. AttemptsIn(t) = [i \in Items |-> AttemptsIn(t)[i]]
  BY AttemptFacts
<1> QED
  BY <1>1, <1>2, <1>3 DEF Abstract!Only

LEMMA AssignIsExcept ==
    ASSUME NEW s, Good(s), NEW r \in Record
    PROVE  AttemptsIn(Assign(s, r)) = [AttemptsIn(s) EXCEPT ![r.id] = r.attempts]
<1> DEFINE a == Assign(s, r)
<1>1. Good(a) /\ Elements(a) = {q \in Elements(s) : q.id # r.id} \cup {r}
  BY AssignFacts
<1> HIDE DEF a
<1>2. r.id \in Items /\ AttemptsIn(a)[r.id] = r.attempts
  BY <1>1, AttemptFacts DEF Record
<1>3. \A i \in Items : i # r.id => AttemptsIn(a)[i] = AttemptsIn(s)[i]
  <2> SUFFICES ASSUME NEW i \in Items, i # r.id PROVE AttemptsIn(a)[i] = AttemptsIn(s)[i]
    OBVIOUS
  <2>1. CASE i \in Ids(s)
    <3>1. PICK q \in Elements(s) : q.id = i
      BY <2>1, IdFacts
    <3>2. q \in Elements(a)
      BY <1>1, <3>1
    <3> QED
      BY <1>1, <3>1, <3>2, AttemptFacts
  <2>2. CASE i \notin Ids(s)
    <3>1. i \notin Ids(a)
      BY <1>1, <2>2, IdFacts
    <3> QED
      BY <1>1, <2>2, <3>1, AttemptFacts
  <2> QED
    BY <2>1, <2>2
<1>4. AttemptsIn(a) \in [Items -> 0..MaxAttempts] /\ AttemptsIn(s) \in [Items -> 0..MaxAttempts]
  BY <1>1, AttemptFacts
<1> QED
  BY <1>2, <1>3, <1>4 DEF a

(* There are as many ids as records. *)
LEMMA AsManyIds ==
    ASSUME NEW s, Good(s), NEW R \in SUBSET Elements(s)
    PROVE  LET I == {r.id : r \in R} IN IsFiniteSet(I) /\ Cardinality(I) = Cardinality(R)
<1> DEFINE I == {r.id : r \in R}
           g == [r \in R |-> r.id]
<1>1. IsFiniteSet(R) /\ \A r, q \in R : r.id = q.id => r = q
  BY ElementFacts, FS_Subset DEF OneOf
<1>2. g \in [R -> I] /\ \A r, q \in R : g[r] = g[q] => r = q
  BY <1>1
<1>3. \A i \in I : \E r \in R : g[r] = i
  OBVIOUS
<1> HIDE DEF g, I
<1>4. g \in Surjection(R, I)
  BY <1>2, <1>3 DEF Surjection
<1>5. g \in Bijection(R, I)
  BY <1>2, <1>4 DEF Bijection, Injection, IsInjective
<1>6. IsFiniteSet(I)
  BY <1>1, <1>4, FS_Surjection
<1>7. ExistsBijection(R, I)
  BY <1>5 DEF ExistsBijection
<1> QED
  BY <1>1, <1>6, <1>7, FS_Bijection DEF I

(* Where expired ids are those of expired records, pruning s leaves one of  *)
(* the choices that RetrySet has.                                           *)
LEMMA PrunedIsKept ==
    ASSUME NEW s, Good(s), NEW t, Good(t),
           \A r \in Elements(s) : r.id \in ExpiredIds <=> DropExpired /\ r.expires <= now,
           Elements(t) \subseteq FreshAt(Elements(s), now),
           LET F == FreshAt(Elements(s), now) IN
               Cardinality(Elements(t)) =
                 IF Cardinality(F) <= MaxQueueSize THEN Cardinality(F) ELSE MaxQueueSize
    PROVE  /\ Ids(t) \in Abstract!Kept(AttemptsIn(s))
           /\ AttemptsIn(t) = Abstract!Only(AttemptsIn(s), Ids(t))
<1> DEFINE F == FreshAt(Elements(s), now)
           I == {r.id : r \in F}
<1>1. F \in SUBSET Elements(s) /\ Elements(t) \in SUBSET F
  BY DEF FreshAt
<1>2. Abstract!Live(AttemptsIn(s)) \ ExpiredIds = I
  <2>1. \A r \in Elements(s) : r \in F <=> r.id \notin ExpiredIds
    BY DEF FreshAt
  <2> HIDE DEF F
  <2>2. \A i \in Ids(s) : i \notin ExpiredIds => i \in I
    BY <2>1, IdFacts
  <2>3. \A i \in I : i \in Ids(s) /\ i \notin ExpiredIds
    BY <1>1, <2>1, IdFacts
  <2> QED
    BY <2>2, <2>3, AttemptFacts
<1>3. Cardinality(I) = Cardinality(F)
  BY <1>1, AsManyIds
<1>4. Ids(t) = {r.id : r \in Elements(t)} /\ Cardinality(Ids(t)) = Cardinality(Elements(t))
  BY AsManyIds DEF Ids
<1>5. Ids(t) \subseteq I
  BY <1>1, <1>4
<1>6. Cardinality(Ids(t)) =
        IF Cardinality(I) <= MaxQueueSize THEN Cardinality(I) ELSE MaxQueueSize
  BY <1>3, <1>4
<1> HIDE DEF F, I
<1>7. Ids(t) \in Abstract!Kept(AttemptsIn(s))
  <2>1. Abstract!Kept(AttemptsIn(s)) =
          {S \in SUBSET I : Cardinality(S) =
             IF Cardinality(I) <= MaxQueueSize THEN Cardinality(I) ELSE MaxQueueSize}
    BY <1>2, SameCardinality DEF Abstract!Kept
  <2> QED
    BY <1>5, <1>6, <2>1
<1>8. Elements(t) \subseteq Elements(s)
  BY <1>1
<1> QED
  BY <1>7, <1>8, PartIsOnly

-----------------------------------------------------------------------------
(* Expiry is a matter of the id alone, since all records of an id agree. *)

ExpiredByAge ==
    ExpiredIds = {i \in Ids(records) \cup Ids(file.records) :
                     DropExpired /\ created[i] + ExpireAfter <= now}

LEMMA AgeDecides == IndInv => ExpiredByAge
<1> SUFFICES ASSUME IndInv PROVE ExpiredByAge
  OBVIOUS
<1> DEFINE R == Elements(records) \cup Elements(file.records)
           U == Ids(records) \cup Ids(file.records)
<1>1. \A r \in R : r.id \in U /\ r.expires = created[r.id] + ExpireAfter
  BY Unpacked, IdFacts DEF Lived
<1>2. \A i \in U : \E r \in R : r.id = i
  BY Unpacked, IdFacts
<1>3. ExpiredIds = IF DropExpired THEN {r.id : r \in {x \in R : x.expires <= now}} ELSE {}
  BY DEF ExpiredIds, Expired
<1> HIDE DEF R, U
<1>4. ASSUME DropExpired
      PROVE  ExpiredIds = {i \in U : DropExpired /\ created[i] + ExpireAfter <= now}
  <2>1. ASSUME NEW i \in ExpiredIds PROVE i \in U /\ created[i] + ExpireAfter <= now
    BY <1>1, <1>3, <1>4
  <2>2. ASSUME NEW i \in U, created[i] + ExpireAfter <= now PROVE i \in ExpiredIds
    BY <1>1, <1>2, <1>3, <1>4, <2>2
  <2> QED
    BY <1>4, <2>1, <2>2
<1>5. ASSUME ~DropExpired
      PROVE  ExpiredIds = {i \in U : DropExpired /\ created[i] + ExpireAfter <= now}
  BY <1>3, <1>5
<1> QED
  BY <1>4, <1>5 DEF ExpiredByAge, U

LEMMA ExpiredRecords ==
    ASSUME IndInv, NEW r \in Elements(records) \cup Elements(file.records)
    PROVE  r.id \in ExpiredIds <=> DropExpired /\ r.expires <= now
<1>1. r.id \in Ids(records) \cup Ids(file.records) /\ r.expires = created[r.id] + ExpireAfter
  BY Unpacked, IdFacts DEF Lived
<1> QED
  BY <1>1, AgeDecides DEF ExpiredByAge

(* Ids that are still there expire as they did. *)
LEMMA ExpiryTracked ==
    ASSUME IndInv, IndInv', now' = now,
           \A i \in Ids(records') \cup Ids(file'.records) :
              \/ i \in Ids(records) \cup Ids(file.records) /\ created'[i] = created[i]
              \/ i \notin ExpiredIds /\ ~(created'[i] + ExpireAfter <= now)
    PROVE  ExpiredIds' = ExpiredIds \cap (Ids(records') \cup Ids(file'.records))
<1>1. ExpiredByAge /\ ExpiredByAge'
  <2>1. IndInv' => ExpiredByAge'
    BY AgeDecides, PTL
  <2> QED
    BY <2>1, AgeDecides
<1> DEFINE U == Ids(records') \cup Ids(file'.records)
<1>2. ExpiredIds' = {i \in U : DropExpired /\ created'[i] + ExpireAfter <= now}
  BY <1>1 DEF ExpiredByAge
<1>3. \A i \in U : i \in ExpiredIds <=> DropExpired /\ created'[i] + ExpireAfter <= now
  BY <1>1 DEF ExpiredByAge
<1> HIDE DEF U
<1> QED
  BY <1>2, <1>3 DEF U

LEMMA PrimedFacts ==
    ASSUME IndInv'
    PROVE  /\ Good(records') /\ Good(file'.records)
           /\ Abstract!Live(AttemptsIn(records')) = Ids(records')
           /\ Abstract!Live(AttemptsIn(file'.records)) = Ids(file'.records)
<1>1. records' \in Seq(Record) /\ file'.records \in Seq(Record)
  BY DEF IndInv, TypeOK
<1>2. DOMAIN records' = 1..Len(records') /\ DOMAIN file'.records = 1..Len(file'.records)
  BY <1>1
<1>3. Good(records') /\ Good(file'.records)
  BY <1>1, <1>2 DEF IndInv, TypeOK, Bounded, Good, OneEach
<1> QED
  BY <1>3, AttemptFacts

LEMMA RipeShrinks ==
    ASSUME IndInv, IndInv', now' = now, Elements(records') \subseteq Elements(records)
    PROVE  RipeIds' = RipeIds \cap Ids(records')
<1>1. RipeIds = {r.id : r \in {x \in Elements(records) : x.due <= now}}
  BY DEF RipeIds, IsDue
<1>2. RipeIds' = {r.id : r \in {x \in Elements(records') : x.due <= now}}
  BY DEF RipeIds, IsDue, Elements
<1>3. \A i \in Ids(records') : \E r \in Elements(records') : r.id = i
  BY PrimedFacts, IdFacts
<1>4. \A r \in Elements(records') : r.id \in Ids(records')
  BY PrimedFacts, IdFacts
<1>5. \A r, q \in Elements(records) : r.id = q.id => r = q
  BY Unpacked, ElementFacts DEF OneOf
<1>6. ASSUME NEW i \in RipeIds' PROVE i \in RipeIds /\ i \in Ids(records')
  BY <1>1, <1>2, <1>4
<1>7. ASSUME NEW i \in RipeIds, i \in Ids(records') PROVE i \in RipeIds'
  <2>1. PICK r \in Elements(records) : r.id = i /\ r.due <= now
    BY <1>1
  <2>2. PICK q \in Elements(records') : q.id = i
    BY <1>3, <1>7
  <2>3. r = q
    BY <1>5, <2>1, <2>2
  <2> QED
    BY <1>2, <2>1, <2>2, <2>3
<1> QED
  BY <1>6, <1>7

(* Nothing new in memory and file: both clock sets are cut down to what is  *)
(* left.                                                                    *)
LEMMA Tracked ==
    ASSUME IndInv, IndInv', now' = now, created' = created,
           Elements(records') \subseteq Elements(records),
           file' = file \/ file'.records \in {records', <<>>}
    PROVE  Abstract!Track(RipeIds)
<1>1. \A i \in Ids(records') : i \in Ids(records)
  BY PrimedFacts, Unpacked, PartIsOnly
<1>2. \A i \in Ids(file'.records) : i \in Ids(records) \cup Ids(file.records)
  BY <1>1, EmptyIsEmpty
<1>3. ExpiredIds' = ExpiredIds \cap (Ids(records') \cup Ids(file'.records))
  BY <1>1, <1>2, ExpiryTracked
<1>4. RipeIds' = RipeIds \cap Ids(records')
  BY RipeShrinks
<1> QED
  BY <1>3, <1>4, PrimedFacts DEF Abstract!Track

LEMMA SaveRefines ==
    ASSUME NEW ok \in BOOLEAN, Save(ok)
    PROVE  Abstract!Save(ok) /\ (file' = file \/ file'.records \in {records', <<>>})
BY DEF Save, Abstract!Save

LEMMA TidyRefines ==
    ASSUME IndInv
    PROVE  LET t == Sort(Prune(records)) IN
           /\ Good(t) /\ Elements(t) \subseteq Elements(records)
           /\ Ids(t) \in Abstract!Kept(AttemptsIn(records))
           /\ AttemptsIn(t) = Abstract!Only(AttemptsIn(records), Ids(t))
<1> DEFINE t == Sort(Prune(records))
           F == FreshAt(Elements(records), now)
<1>1. /\ Good(t) /\ Elements(t) \subseteq F
      /\ Cardinality(Elements(t)) =
           IF Cardinality(F) <= MaxQueueSize THEN Cardinality(F) ELSE MaxQueueSize
  BY Unpacked, TidyFacts
<1>2. \A r \in Elements(records) : r.id \in ExpiredIds <=> DropExpired /\ r.expires <= now
  BY ExpiredRecords
<1> HIDE DEF t
<1>3. /\ Ids(t) \in Abstract!Kept(AttemptsIn(records))
      /\ AttemptsIn(t) = Abstract!Only(AttemptsIn(records), Ids(t))
  BY <1>1, <1>2, Unpacked, PrunedIsKept
<1> QED
  BY <1>1, <1>3 DEF t, FreshAt

(* A record put into the queue, new or in the place of the old one. *)
LEMMA WriteRefines ==
    ASSUME IndInv, IndInv', NEW i \in Items, NEW n \in 1..MaxAttempts, NEW ok \in BOOLEAN,
           NEW r \in Record, r.id = i, r.attempts = n,
           records' = Put(r), Save(ok), now' = now,
           \A j \in Items : j # i => created'[j] = created[j],
           r.expires = created'[i] + ExpireAfter,
           i \in ExpiredIds <=> DropExpired /\ r.expires <= now,
           i \in Ids(records) => created'[i] = created[i],
           i \notin Ids(records) => ~(r.expires <= now)
    PROVE  Abstract!Write(i, n, ok)
<1> DEFINE a == Assign(records, r)
           q == [AttemptsIn(records) EXCEPT ![i] = n]
           R == {x \in Elements(records) : x.id # r.id} \cup {r}
<1>1. Good(a) /\ Elements(a) = R /\ AttemptsIn(a) = q
  BY Unpacked, AssignFacts, AssignIsExcept
<1>2. \A x \in R : x.id \in ExpiredIds <=> DropExpired /\ x.expires <= now
  BY ExpiredRecords
<1>3. LET F == FreshAt(R, now) IN
      /\ Good(records') /\ Elements(records') \subseteq F
      /\ Cardinality(Elements(records')) =
           IF Cardinality(F) <= MaxQueueSize THEN Cardinality(F) ELSE MaxQueueSize
  BY Unpacked, PutFacts
<1> HIDE DEF a, q
<1>4. /\ Ids(records') \in Abstract!Kept(q)
      /\ AttemptsIn(records') = Abstract!Only(q, Ids(records'))
  <2> HIDE DEF R
  <2> QED
    BY <1>1, <1>2, <1>3, PrunedIsKept
<1>5. \A x \in Elements(records') : x = r \/ (x \in Elements(records) /\ x.id # i)
  BY <1>3 DEF FreshAt
<1>6. \A j \in Ids(records') : j = i \/ j \in Ids(records)
  BY <1>3, <1>5, Unpacked, IdFacts
<1>7. ExpiredIds' = ExpiredIds \cap (Ids(records') \cup Ids(file'.records))
  <2>1. \A j \in Ids(file'.records) : j \in Ids(records') \cup Ids(file.records)
    BY SaveRefines, EmptyIsEmpty
  <2>2. Ids(records) \subseteq Items /\ Ids(file.records) \subseteq Items
    BY Unpacked, IdFacts
  <2>3. ASSUME NEW j \in Ids(records') \cup Ids(file'.records)
        PROVE  \/ j \in Ids(records) \cup Ids(file.records) /\ created'[j] = created[j]
               \/ j \notin ExpiredIds /\ ~(created'[j] + ExpireAfter <= now)
    <3>1. CASE j # i
      BY <1>6, <2>1, <2>2, <3>1
    <3>2. CASE j = i
      BY <3>2
    <3> QED
      BY <3>1, <3>2
  <2> QED
    BY <2>3, ExpiryTracked
<1>8. \A j \in Ids(records') : j # i => (j \in RipeIds' <=> j \in RipeIds)
  <2>1. RipeIds = {x.id : x \in {y \in Elements(records) : y.due <= now}}
    BY DEF RipeIds, IsDue
  <2>2. RipeIds' = {x.id : x \in {y \in Elements(records') : y.due <= now}}
    BY DEF RipeIds, IsDue, Elements
  <2>3. \A x, y \in Elements(records) : x.id = y.id => x = y
    BY Unpacked, ElementFacts DEF OneOf
  <2>4. \A x, y \in Elements(records') : x.id = y.id => x = y
    BY <1>3, ElementFacts DEF OneOf
  <2> SUFFICES ASSUME NEW j \in Ids(records'), j # i PROVE j \in RipeIds' <=> j \in RipeIds
    OBVIOUS
  <2>5. PICK x \in Elements(records') : x.id = j
    BY <1>3, IdFacts
  <2>6. x \in Elements(records)
    BY <1>5, <2>5
  <2>7. j \in RipeIds' <=> x.due <= now
    BY <2>2, <2>4, <2>5
  <2>8. j \in RipeIds <=> x.due <= now
    BY <2>1, <2>3, <2>5, <2>6
  <2> QED
    BY <2>7, <2>8
<1>9. RipeIds' \subseteq Ids(records')
  <2>1. \A x \in Elements(records') : x.id \in Ids(records')
    BY <1>3, IdFacts
  <2> QED
    BY <2>1 DEF RipeIds, Elements
<1>10. \E due \in {RipeIds \ {i}, RipeIds \cup {i}} : Abstract!Track(due)
  <2>1. CASE i \in RipeIds'
    <3>1. RipeIds' = (RipeIds \cup {i}) \cap Ids(records')
      BY <1>8, <1>9, <2>1
    <3> QED
      BY <1>7, <3>1, PrimedFacts DEF Abstract!Track
  <2>2. CASE i \notin RipeIds'
    <3>1. RipeIds' = (RipeIds \ {i}) \cap Ids(records')
      BY <1>8, <1>9, <2>2
    <3> QED
      BY <1>7, <3>1, PrimedFacts DEF Abstract!Track
  <2> QED
    BY <2>1, <2>2
<1> QED
  BY <1>4, <1>10, SaveRefines DEF Abstract!Write, q

LEMMA EnqueueRefines ==
    ASSUME IndInv, IndInv', NEW i \in Items, NEW delay \in Delays, NEW ok \in BOOLEAN,
           Enqueue(i, 1, delay, ok)
    PROVE  Abstract!Enqueue(i, 1, ok)
<1> DEFINE r == [id |-> i, attempts |-> 1, due |-> now + delay, expires |-> now + ExpireAfter]
<1>1. /\ now' = now /\ created[i] = NotYet /\ created' = [created EXCEPT ![i] = now]
  BY DEF Enqueue
<1>2. now \in Nat /\ now <= MaxTime /\ MaxTime \in Nat /\ delay \in Nat /\ ExpireAfter \in Nat \ {0}
  BY Unpacked, QueueAssumption
<1>3. i \notin Ids(records) /\ i \notin Ids(file.records)
  <2>1. \A x \in Elements(records) \cup Elements(file.records) : created[x.id] <= now
    BY Unpacked DEF Lived
  <2>2. ~(NotYet <= now)
    BY <1>2 DEF NotYet
  <2> QED
    BY <1>1, <2>1, <2>2, Unpacked, IdFacts
<1>4. CASE MaxQueueSize = 0
  <2>1. UNCHANGED <<records, file, now>>
    BY <1>1, <1>4 DEF Enqueue, storeVars
  <2>2. RipeIds' = RipeIds /\ ExpiredIds' = ExpiredIds
    BY <2>1 DEF RipeIds, ExpiredIds, IsDue, Expired, Elements
  <2> QED
    BY <1>4, <2>1, <2>2 DEF Abstract!Enqueue, Abstract!vars
<1>5. CASE MaxQueueSize # 0
  <2>1. records' = Put(r) /\ Save(ok)
    BY <1>5 DEF Enqueue
  <2>2. /\ r \in Record /\ r.id = i /\ r.attempts = 1 /\ r.expires = now + ExpireAfter
        /\ 1 \in 1..MaxAttempts
    BY <1>2 DEF Record, MaxAttempts
  <2> HIDE DEF r
  <2>3. created'[i] = now /\ \A j \in Items : j # i => created'[j] = created[j]
    BY <1>1, Unpacked
  <2>4. ~(r.expires <= now)
    BY <1>2, <2>2
  <2>5. i \notin ExpiredIds
    BY <1>3, AgeDecides DEF ExpiredByAge
  <2>6. Abstract!Write(i, 1, ok)
    BY <1>1, <1>3, <2>1, <2>2, <2>3, <2>4, <2>5, WriteRefines
  <2> QED
    BY <1>5, <2>6 DEF Abstract!Enqueue
<1> QED
  BY <1>4, <1>5

LEMMA RescheduleRefines ==
    ASSUME IndInv, IndInv', NEW i \in Items, NEW delay \in Delays, NEW ok \in BOOLEAN,
           Reschedule(i, 2, delay, ok)
    PROVE  Abstract!Reschedule(i, 2, ok)
<1>1. now' = now /\ created' = created /\ Save(ok) /\ i \in Ids(records)
  BY DEF Reschedule
<1>2. now \in Nat /\ delay \in Nat
  BY Unpacked, QueueAssumption
<1>3. PICK k \in DOMAIN records :
         records[k].id = i /\ records' = Put(Updated(records[k], 2, delay))
  BY DEF Reschedule
<1> DEFINE q == records[k]
           r == Updated(q, 2, delay)
<1>4. q \in Record /\ q \in Elements(records) /\ q.id = i /\ records' = Put(r)
  BY <1>3, Unpacked, ElementFacts
<1> HIDE DEF q
<1>5. r \in Record /\ r.id = i /\ r.attempts = 2 /\ r.expires = q.expires /\ 2 \in 1..MaxAttempts
  <2>1. r = [q EXCEPT !.attempts = 2, !.due = now + delay]
    BY DEF Updated
  <2>2. now + delay \in Nat /\ 2 \in 1..MaxAttempts
    BY <1>2 DEF MaxAttempts
  <2> HIDE DEF r
  <2> QED
    BY <1>4, <2>1, <2>2 DEF Record
<1> HIDE DEF r
<1>6. r.expires = created'[i] + ExpireAfter
  BY <1>1, <1>4, <1>5, Unpacked DEF Lived
<1>7. i \in ExpiredIds <=> DropExpired /\ r.expires <= now
  BY <1>4, <1>5, ExpiredRecords
<1>8. Abstract!Write(i, 2, ok)
  BY <1>1, <1>4, <1>5, <1>6, <1>7, WriteRefines
<1>9. AttemptsIn(records)[i] # 0
  BY <1>1, Unpacked, AttemptFacts
<1> QED
  BY <1>8, <1>9 DEF Abstract!Reschedule

LEMMA AckRefines ==
    ASSUME IndInv, IndInv', NEW i \in Items, NEW ok \in BOOLEAN, Ack(i, ok)
    PROVE  Abstract!Ack(i, ok)
<1>1. /\ now' = now /\ created' = created /\ Save(ok) /\ i \in Ids(records)
      /\ records' = Without(records, i)
  BY DEF Ack
<1>2. Good(records') /\ Elements(records') = {r \in Elements(records) : r.id # i}
  BY <1>1, Unpacked, WithoutFacts
<1>3. AttemptsIn(records)[i] # 0
  BY <1>1, Unpacked, AttemptFacts
<1>4. AttemptsIn(records') = [AttemptsIn(records) EXCEPT ![i] = 0]
  <2>1. \A j \in Items : AttemptsIn(records')[j] = IF j \in Ids(records') THEN AttemptsIn(records)[j] ELSE 0
    BY <1>2, Unpacked, PartIsOnly DEF Abstract!Only
  <2>2. \A j \in Items : j \in Ids(records') <=> j \in Ids(records) /\ j # i
    BY <1>2, Unpacked, IdFacts
  <2>3. \A j \in Items : j \notin Ids(records) => AttemptsIn(records)[j] = 0
    BY Unpacked, AttemptFacts
  <2>4. /\ AttemptsIn(records') \in [Items -> 0..MaxAttempts]
        /\ AttemptsIn(records) \in [Items -> 0..MaxAttempts]
    BY <1>2, Unpacked, AttemptFacts
  <2>5. \A j \in Items : AttemptsIn(records')[j] = IF j = i THEN 0 ELSE AttemptsIn(records)[j]
    BY <2>1, <2>2, <2>3
  <2> QED
    BY <2>4, <2>5
<1>5. Abstract!Save(ok) /\ Abstract!Track(RipeIds)
  BY <1>1, <1>2, SaveRefines, Tracked
<1> QED
  BY <1>3, <1>4, <1>5 DEF Abstract!Ack

LEMMA PopDueRefines ==
    ASSUME IndInv, IndInv', NEW ok \in BOOLEAN, PopDue(ok)
    PROVE  Abstract!Claim(ok)
<1> DEFINE kept == Sort(Prune(records))
           D == {k \in DOMAIN kept : IsDue(kept[k])}
           due == Select(kept, D)
<1>1. now' = now /\ created' = created
  BY DEF PopDue
<1>2. /\ Good(kept) /\ Elements(kept) \subseteq Elements(records)
      /\ Ids(kept) \in Abstract!Kept(AttemptsIn(records))
      /\ AttemptsIn(kept) = Abstract!Only(AttemptsIn(records), Ids(kept))
  BY TidyRefines
<1>3. /\ due = NoRecords => records' = kept /\ UNCHANGED <<file, diverged>>
      /\ due # NoRecords => records' = Without(kept, Head(due).id) /\ Save(ok)
  BY DEF PopDue
<1> HIDE DEF kept
<1>4. D \in SUBSET (1..Len(kept)) /\ {kept[k] : k \in D} = {r \in Elements(kept) : IsDue(r)}
  BY <1>2, ElementFacts DEF Elements
<1> HIDE DEF D
<1>5. Good(due) /\ Elements(due) = {r \in Elements(kept) : IsDue(r)}
  BY <1>2, <1>4, SelectGood
<1> HIDE DEF due
<1>6. CASE due = NoRecords
  <2>1. records' = kept /\ file' = file
    BY <1>3, <1>6
  <2>2. Elements(due) = {}
    BY <1>6, EmptyFacts DEF NoRecords
  <2>3. Ids(kept) \cap RipeIds = {}
    <3> SUFFICES ASSUME NEW i \in Ids(kept), i \in RipeIds PROVE FALSE
      OBVIOUS
    <3>1. PICK r \in Elements(records) : r.id = i /\ IsDue(r)
      BY DEF RipeIds
    <3>2. PICK q \in Elements(kept) : q.id = i
      BY <1>2, IdFacts
    <3>3. r = q
      BY <1>2, <3>1, <3>2, Unpacked, ElementFacts DEF OneOf
    <3> QED
      BY <1>5, <2>2, <3>1, <3>2, <3>3
  <2>4. Abstract!Track(RipeIds)
    BY <1>1, <1>2, <2>1, Tracked
  <2> QED
    BY <1>2, <2>1, <2>3, <2>4 DEF Abstract!Claim
<1>7. CASE due # NoRecords
  <2> DEFINE h == Head(due)
             i == h.id
  <2>1. records' = Without(kept, i) /\ Save(ok)
    BY <1>3, <1>7
  <2>2. h \in Elements(due)
    <3>1. due \in Seq(Record) /\ due # <<>>
      BY <1>5, <1>7 DEF Good, NoRecords
    <3>2. h = due[1] /\ 1 \in DOMAIN due
      BY <3>1
    <3> QED
      BY <3>2 DEF Elements
  <2> HIDE DEF h
  <2>3. h \in Elements(kept) /\ IsDue(h) /\ i \in Ids(kept) /\ i \in RipeIds
    <3>1. h \in Elements(kept) /\ IsDue(h)
      BY <1>5, <2>2
    <3>2. h \in {x \in Elements(records) : IsDue(x)}
      BY <1>2, <3>1
    <3> QED
      BY <1>2, <3>1, <3>2, IdFacts DEF RipeIds
  <2> HIDE DEF i
  <2>4. Good(records') /\ Elements(records') = {r \in Elements(kept) : r.id # i}
    BY <1>2, <2>1, WithoutFacts
  <2>5. Ids(records') = Ids(kept) \ {i}
    BY <1>2, <2>4, IdFacts
  <2>6. AttemptsIn(records') = Abstract!Only(AttemptsIn(records), Ids(kept) \ {i})
    BY <1>2, <2>4, <2>5, Unpacked, PartIsOnly
  <2>7. Abstract!Save(ok) /\ Abstract!Track(RipeIds)
    BY <1>1, <1>2, <2>1, <2>4, SaveRefines, Tracked
  <2> QED
    BY <1>2, <2>3, <2>6, <2>7 DEF Abstract!Claim
<1> QED
  BY <1>6, <1>7

LEMMA LoadRefines ==
    ASSUME IndInv, IndInv', NEW ok \in BOOLEAN, Load(ok)
    PROVE  Abstract!Load(ok)
<1> DEFINE t == Sort(Prune(file.records))
           F == FreshAt(Elements(file.records), now)
<1>1. records' = t /\ now' = now /\ created' = created /\ ~up
  BY DEF Load, Loaded
<1>2. /\ Good(t) /\ Elements(t) \subseteq F
      /\ Cardinality(Elements(t)) =
           IF Cardinality(F) <= MaxQueueSize THEN Cardinality(F) ELSE MaxQueueSize
  BY Unpacked, TidyFacts
<1>3. \A r \in Elements(file.records) : r.id \in ExpiredIds <=> DropExpired /\ r.expires <= now
  BY ExpiredRecords
<1> HIDE DEF t
<1>4. /\ Ids(records') \in Abstract!Kept(AttemptsIn(file.records))
      /\ AttemptsIn(records') = Abstract!Only(AttemptsIn(file.records), Ids(records'))
  BY <1>1, <1>2, <1>3, Unpacked, PrunedIsKept
<1>5. Ids(records') \subseteq Ids(file.records)
  BY <1>1, <1>2, Unpacked, PartIsOnly DEF FreshAt
<1>6. Abstract!Save(ok) /\ Ids(file'.records) \subseteq Ids(file.records)
  <2>1. CASE file.kind = "records"
    <3>1. Save(ok)
      BY <2>1 DEF Load
    <3> QED
      BY <1>5, <3>1, SaveRefines, EmptyIsEmpty
  <2>2. CASE file.kind # "records"
    <3>1. file' = file /\ file.records = <<>>
      BY <2>2, Unpacked DEF Load, DownInv
    <3>2. Elements(records') = {}
      BY <1>1, <1>2, <3>1, EmptyFacts DEF FreshAt
    <3>3. AttemptsIn(records') = AttemptsIn(file.records)
      BY <3>1, <3>2, EmptyFacts DEF AttemptsIn, Ids
    <3> QED
      BY <3>1, <3>3 DEF Abstract!Save
  <2> QED
    BY <2>1, <2>2
<1>7. RipeIds' \subseteq Ids(records')
  <2>1. \A x \in Elements(records') : x.id \in Ids(records')
    BY PrimedFacts, IdFacts
  <2> QED
    BY <2>1 DEF RipeIds, Elements
<1>8. ExpiredIds' = ExpiredIds \cap (Ids(records') \cup Ids(file'.records))
  BY <1>1, <1>5, <1>6, ExpiryTracked
<1>9. Abstract!Track(RipeIds')
  BY <1>7, <1>8, PrimedFacts DEF Abstract!Track
<1>10. RipeIds' \in SUBSET Abstract!Live(AttemptsIn(file.records))
  BY <1>5, <1>7, Unpacked, AttemptFacts
<1> QED
  BY <1>4, <1>6, <1>9, <1>10 DEF Abstract!Load

LEMMA DiscardRefines ==
    ASSUME IndInv, IndInv', LoadUnread \/ Stop
    PROVE  Abstract!Discard
<1>1. /\ records' = <<>> /\ file' = file /\ now' = now /\ created' = created
  BY DEF LoadUnread, Stop, NoRecords
<1>2. ExpiredIds' = ExpiredIds \cap (Ids(records') \cup Ids(file'.records))
  BY <1>1, EmptyIsEmpty, ExpiryTracked
<1>3. RipeIds' = {}
  BY <1>1, EmptyFacts DEF RipeIds, Elements
<1>4. Abstract!Track({})
  BY <1>2, <1>3, PrimedFacts DEF Abstract!Track
<1> QED
  BY <1>1, <1>4, EmptyIsEmpty DEF Abstract!Discard

LEMMA TickRefines ==
    ASSUME IndInv, IndInv', Tick
    PROVE  Abstract!Elapse
<1>1. now' = now + 1 /\ UNCHANGED <<records, file, created>>
  BY DEF Tick, storeVars, ghostVars
<1>2. now \in Nat
  BY Unpacked
<1>3. RipeIds \subseteq RipeIds' /\ RipeIds' \subseteq Ids(records)
  <2>1. \A r \in Elements(records) : r.id \in Ids(records) /\ r.due \in Nat
    BY Unpacked, IdFacts, ElementFacts DEF Record
  <2>2. \A r \in Elements(records) : r.due <= now => r.due <= now'
    BY <1>1, <1>2, <2>1
  <2>3. RipeIds = {r.id : r \in {x \in Elements(records) : x.due <= now}}
    BY DEF RipeIds, IsDue
  <2>4. RipeIds' = {r.id : r \in {x \in Elements(records) : x.due <= now'}}
    BY <1>1 DEF RipeIds, IsDue, Elements
  <2> QED
    BY <2>1, <2>2, <2>3, <2>4
<1>4. ExpiredByAge /\ ExpiredByAge'
  <2>1. IndInv' => ExpiredByAge'
    BY AgeDecides, PTL
  <2> QED
    BY <2>1, AgeDecides
<1>5. ~DropExpired => ExpiredIds' = ExpiredIds
  BY <1>4 DEF ExpiredByAge
<1>6. /\ ExpiredIds \subseteq ExpiredIds'
      /\ ExpiredIds' \subseteq Ids(records) \cup Ids(file.records)
  <2> DEFINE U == Ids(records) \cup Ids(file.records)
  <2>1. /\ ExpiredIds = {i \in U : DropExpired /\ created[i] + ExpireAfter <= now}
        /\ ExpiredIds' = {i \in U : DropExpired /\ created[i] + ExpireAfter <= now'}
    BY <1>1, <1>4 DEF ExpiredByAge
  <2>2. \A i \in U : created[i] \in Nat
    <3>1. U \subseteq Items
      BY Unpacked, IdFacts
    <3>2. created \in [Items -> 0..NotYet] /\ 0..NotYet \subseteq Nat
      BY Unpacked, QueueAssumption DEF NotYet
    <3> HIDE DEF U
    <3> QED
      BY <3>1, <3>2
  <2> HIDE DEF U
  <2>3. \A i \in U : created[i] + ExpireAfter <= now => created[i] + ExpireAfter <= now'
    BY <1>1, <1>2, <2>2, QueueAssumption
  <2> QED
    BY <2>1, <2>3 DEF U
<1>7. RipeIds' \in {RipeIds \cup S : S \in SUBSET Abstract!Live(AttemptsIn(records))}
  <2>1. RipeIds' = RipeIds \cup RipeIds' /\ RipeIds' \in SUBSET Abstract!Live(AttemptsIn(records))
    BY <1>3, Unpacked, AttemptFacts
  <2> QED
    BY <2>1
<1>8. ExpiredIds' \in {ExpiredIds \cup S : S \in SUBSET (Abstract!Live(AttemptsIn(records))
                                               \cup Abstract!Live(AttemptsIn(file.records)))}
  <2>1. /\ ExpiredIds' = ExpiredIds \cup ExpiredIds'
        /\ ExpiredIds' \in SUBSET (Abstract!Live(AttemptsIn(records))
                                    \cup Abstract!Live(AttemptsIn(file.records)))
    BY <1>6, Unpacked, AttemptFacts
  <2> QED
    BY <2>1
<1> QED
  BY <1>1, <1>5, <1>7, <1>8 DEF Abstract!Elapse

LEMMA StepRefines == IndInv /\ IndInv' /\ [Next]_vars => [Abstract!Next]_(Abstract!vars)
<1> SUFFICES ASSUME IndInv, IndInv', [Next]_vars PROVE [Abstract!Next]_(Abstract!vars)
  OBVIOUS
<1>1. ASSUME NEW ok \in SaveOutcomes, NEW i \in Items, NEW delay \in Delays,
             Enqueue(i, 1, delay, ok) \/ Reschedule(i, 2, delay, ok)
      PROVE  Abstract!Next
  <2>1. ok \in BOOLEAN /\ ok \in Abstract!SaveOutcomes
    BY SaveOutcomesAre DEF SaveOutcomes, Abstract!SaveOutcomes
  <2>2. 1 \in 1..MaxAttempts /\ 2 \in 1..MaxAttempts
    BY DEF MaxAttempts
  <2>3. Abstract!Enqueue(i, 1, ok) \/ Abstract!Reschedule(i, 2, ok)
    BY <1>1, <2>1, EnqueueRefines, RescheduleRefines
  <2> QED
    BY <2>1, <2>2, <2>3 DEF Abstract!Next
<1>2. ASSUME NEW ok \in SaveOutcomes,
             \/ \E i \in Items : Ack(i, ok)
             \/ PopDue(ok) \/ SaveNow(ok) \/ Clear(ok) \/ Load(ok)
      PROVE  Abstract!Next
  <2>1. ok \in BOOLEAN /\ ok \in Abstract!SaveOutcomes
    BY SaveOutcomesAre DEF SaveOutcomes, Abstract!SaveOutcomes
  <2>2. ASSUME NEW i \in Items, Ack(i, ok) PROVE Abstract!Next
    BY <2>1, <2>2, AckRefines DEF Abstract!Next
  <2>3. ASSUME PopDue(ok) PROVE Abstract!Next
    BY <2>1, <2>3, PopDueRefines DEF Abstract!Next
  <2>4. ASSUME SaveNow(ok) PROVE Abstract!Next
    <3>1. records' = Sort(Prune(records)) /\ Save(ok) /\ now' = now /\ created' = created
      BY <2>4 DEF SaveNow
    <3>2. Abstract!Save(ok) /\ Abstract!Track(RipeIds)
      BY <2>1, <3>1, TidyRefines, SaveRefines, Tracked
    <3>3. Abstract!Rewrite(ok)
      BY <3>1, <3>2, TidyRefines DEF Abstract!Rewrite
    <3> QED
      BY <2>1, <3>3 DEF Abstract!Next
  <2>5. ASSUME Clear(ok) PROVE Abstract!Next
    <3>1. records' = <<>> /\ Save(ok) /\ now' = now /\ created' = created
      BY <2>5 DEF Clear, NoRecords
    <3>2. Abstract!Save(ok) /\ Abstract!Track(RipeIds)
      BY <2>1, <3>1, EmptyFacts, SaveRefines, Tracked
    <3>3. Abstract!Clear(ok)
      BY <3>1, <3>2, EmptyIsEmpty DEF Abstract!Clear
    <3> QED
      BY <2>1, <3>3 DEF Abstract!Next
  <2>6. ASSUME Load(ok) PROVE Abstract!Next
    BY <2>1, <2>6, LoadRefines DEF Abstract!Next
  <2> QED
    BY <1>2, <2>2, <2>3, <2>4, <2>5, <2>6
<1>3. ASSUME Due PROVE Abstract!Next
  <2>1. records' = Sort(Prune(records)) /\ file' = file /\ now' = now /\ created' = created
    BY <1>3 DEF Due, ghostVars
  <2>2. Abstract!Track(RipeIds)
    BY <2>1, TidyRefines, Tracked
  <2>3. Abstract!Prune
    BY <2>1, <2>2, TidyRefines DEF Abstract!Prune
  <2> QED
    BY <2>3 DEF Abstract!Next
<1>4. ASSUME LoadUnread \/ Stop PROVE Abstract!Next
  BY <1>4, DiscardRefines DEF Abstract!Next
<1>5. ASSUME NEW kind \in {"missing", "corrupt"}, Damage(kind) PROVE Abstract!Next
  <2>1. file'.records = <<>> /\ records' = records /\ now' = now /\ created' = created
    BY <1>5 DEF Damage, Unreadable, NoRecords, ghostVars
  <2>2. Abstract!Track(RipeIds)
    BY <2>1, Tracked
  <2>3. Abstract!LoseFile
    BY <2>1, <2>2, EmptyIsEmpty DEF Abstract!LoseFile
  <2> QED
    BY <2>3 DEF Abstract!Next
<1>6. ASSUME Tick PROVE Abstract!Next
  BY <1>6, TickRefines DEF Abstract!Next
<1>7. CASE UNCHANGED vars
  <2>1. UNCHANGED <<records, file, now>>
    BY <1>7 DEF vars, storeVars
  <2>2. RipeIds' = RipeIds /\ ExpiredIds' = ExpiredIds
    BY <2>1 DEF RipeIds, ExpiredIds, IsDue, Expired, Elements
  <2> QED
    BY <2>1, <2>2 DEF Abstract!vars
<1>8. CASE Next
  <2>1. CASE \E ok \in SaveOutcomes :
                \/ \E i \in Items, delay \in Delays :
                      Enqueue(i, 1, delay, ok) \/ Reschedule(i, 2, delay, ok)
                \/ \E i \in Items : Ack(i, ok)
                \/ PopDue(ok) \/ SaveNow(ok) \/ Clear(ok) \/ Load(ok)
    BY <1>1, <1>2, <2>1
  <2>2. CASE Due \/ LoadUnread \/ Stop \/ Tick
             \/ \E kind \in {"missing", "corrupt"} : Damage(kind)
    BY <1>3, <1>4, <1>5, <1>6, <2>2
  <2> QED
    BY <1>8, <2>1, <2>2 DEF Next
<1> QED
  BY <1>7, <1>8

(* RetryQueue implements RetrySet, the queue as Delivery knows it: what the  *)
(* pipeline's theorems assume of its queue holds of persistence.RetryQueue   *)
(* with its clock, its order by due time and its file.                       *)
THEOREM QueueIsRetrySet == Spec => RefinesRetrySet
<1>1. Init => Abstract!Init
  <2> SUFFICES ASSUME Init PROVE Abstract!Init
    OBVIOUS
  <2>1. records = <<>> /\ file.records = <<>>
    BY DEF Init, Unreadable, NoRecords
  <2>2. RipeIds = {} /\ ExpiredIds = {}
    BY <2>1, EmptyFacts DEF RipeIds, ExpiredIds
  <2> QED
    BY <2>1, <2>2, EmptyIsEmpty DEF Abstract!Init
<1> QED
  BY <1>1, StepRefines, InvariantHolds, PTL DEF Spec, RefinesRetrySet, Abstract!Spec
=============================================================================
