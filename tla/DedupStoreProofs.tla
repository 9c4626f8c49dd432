--------------------------- MODULE DedupStoreProofs ---------------------------
(***************************************************************************)
(* Theorems about DedupStore, for every cache size, TTL and set of         *)
(* fingerprints.                                                           *)
(*                                                                         *)
(* The order of the entries decides what the store may forget: whatever    *)
(* lies behind an entry was used after it.  The invariant says so of the   *)
(* memory and, so that it survives a restart, of the file.                 *)
(***************************************************************************)
EXTENDS DedupStore, Integers, FiniteSetTheorems, FunctionTheorems, SequenceTheorems, TLAPS

-----------------------------------------------------------------------------
(* Among the positions in D, the number of those before x takes every value *)
(* once.                                                                    *)
LEMMA RankOfPositions ==
    ASSUME NEW D, D \subseteq Nat, IsFiniteSet(D)
    PROVE  LET rank == [x \in D |-> Cardinality({y \in D : y < x}) + 1]
           IN  /\ rank \in [D -> 1..Cardinality(D)]
               /\ \A x, y \in D : x < y => rank[x] < rank[y]
               /\ \A x, y \in D : rank[x] = rank[y] => x = y
               /\ \A i \in 1..Cardinality(D) : \E x \in D : rank[x] = i
<1> DEFINE Below(x) == {y \in D : y < x}
           rank == [x \in D |-> Cardinality(Below(x)) + 1]
           n == Cardinality(D)
<1>1. n \in Nat /\ \A x \in D : x \in Nat
  BY FS_CardinalityType
<1>2. ASSUME NEW x \in D
      PROVE  /\ IsFiniteSet(Below(x)) /\ Cardinality(Below(x)) \in Nat
             /\ Cardinality(Below(x)) < n
  <2>1. Below(x) \in SUBSET D /\ x \notin Below(x)
    BY <1>1
  <2>2. IsFiniteSet(Below(x)) /\ Cardinality(Below(x)) <= n /\ Cardinality(Below(x)) # n
    BY <2>1, FS_Subset
  <2>3. Cardinality(Below(x)) \in Nat
    BY <2>2, FS_CardinalityType
  <2> QED
    BY <1>1, <2>2, <2>3
<1>3. ASSUME NEW x \in D, NEW y \in D, x < y
      PROVE  Cardinality(Below(x)) < Cardinality(Below(y))
  <2>1. Below(x) \in SUBSET Below(y) /\ x \in Below(y) /\ x \notin Below(x)
    <3>1. \A z \in D : z < x => z < y
      BY <1>1, <1>3
    <3>2. ~(x < x)
      BY <1>1
    <3> QED
      BY <1>3, <3>1, <3>2
  <2>2. /\ Cardinality(Below(x)) <= Cardinality(Below(y))
        /\ Cardinality(Below(x)) # Cardinality(Below(y))
    BY <1>2, <2>1, FS_Subset
  <2> QED
    BY <1>2, <2>2
<1> HIDE DEF Below, n
<1>4. rank \in [D -> 1..n]
  BY <1>1, <1>2
<1>5. \A x, y \in D : x < y => rank[x] < rank[y]
  BY <1>2, <1>3
<1>6. \A x, y \in D : rank[x] = rank[y] => x = y
  <2> SUFFICES ASSUME NEW x \in D, NEW y \in D, rank[x] = rank[y], x # y PROVE FALSE
    OBVIOUS
  <2>1. rank[x] \in Nat /\ rank[y] \in Nat
    BY <1>1, <1>4
  <2>2. x < y \/ y < x
    BY <1>1
  <2> QED
    BY <1>5, <2>1, <2>2
<1> HIDE DEF rank
<1>7. rank \in Injection(D, 1..n)
  BY <1>4, <1>6 DEF Injection, IsInjective
<1>8. IsFiniteSet(1..n) /\ Cardinality(1..n) = n
  BY <1>1, FS_Interval
<1>9. rank \in Surjection(D, 1..n)
  BY <1>7, <1>8, FS_Injection DEF n
<1>10. \A i \in 1..n : \E x \in D : rank[x] = i
  BY <1>9 DEF Surjection
<1> QED
  BY <1>4, <1>5, <1>6, <1>10 DEF rank, n, Below

(* t lists the positions of s in D. *)
Positions(t, s, D) ==
    /\ t \in [1..Cardinality(D) -> D]
    /\ \A i, j \in 1..Cardinality(D) : i < j => t[i] < t[j]
    /\ \A x \in D : \E i \in 1..Cardinality(D) : t[i] = x
    /\ Len(Select(s, D)) = Cardinality(D)
    /\ \A i \in 1..Cardinality(D) : Select(s, D)[i] = s[t[i]]

LEMMA SelectFacts ==
    ASSUME NEW S, NEW s \in Seq(S), NEW D \in SUBSET (1..Len(s))
    PROVE  /\ IsFiniteSet(D) /\ Cardinality(D) \in 0..Len(s)
           /\ Select(s, D) \in Seq(S)
           /\ \E t : Positions(t, s, D)
<1> DEFINE n == Cardinality(D)
           Less == {p \in D \X D : p[1] < p[2]}
           rank == [x \in D |-> Cardinality({y \in D : y < x}) + 1]
           t == Ascending(D, Less)
<1>1. IsFiniteSet(D) /\ n \in Nat /\ n <= Len(s) /\ D \subseteq Nat
  <2>1. Len(s) \in Nat /\ IsFiniteSet(1..Len(s)) /\ Cardinality(1..Len(s)) = Len(s)
    BY FS_Interval
  <2>2. IsFiniteSet(D) /\ n <= Len(s)
    BY <2>1, FS_Subset
  <2> QED
    BY <2>2, FS_CardinalityType
<1>2. /\ rank \in [D -> 1..n]
      /\ \A x, y \in D : x < y => rank[x] < rank[y]
      /\ \A x, y \in D : rank[x] = rank[y] => x = y
      /\ \A i \in 1..n : \E x \in D : rank[x] = i
  BY <1>1, RankOfPositions
<1>3. t = [i \in 1..n |-> CHOOSE x \in D : Cardinality({y \in D : <<y, x>> \in Less}) = i - 1]
  BY DEF Ascending
<1>4. \A x \in D, i \in 1..n : Cardinality({y \in D : y < x}) = i - 1 <=> rank[x] = i
  <2> SUFFICES ASSUME NEW x \in D, NEW i \in 1..n
               PROVE  Cardinality({y \in D : y < x}) = i - 1 <=> rank[x] = i
    OBVIOUS
  <2> DEFINE c == Cardinality({y \in D : y < x})
  <2>1. c \in Nat
    <3>1. {y \in D : y < x} \in SUBSET D
      OBVIOUS
    <3> QED
      BY <1>1, <3>1, FS_Subset, FS_CardinalityType
  <2>2. rank[x] = c + 1
    OBVIOUS
  <2> HIDE DEF c, rank
  <2>3. c = i - 1 <=> rank[x] = i
    BY <2>1, <2>2
  <2> QED
    BY <2>3 DEF c
<1>5. ASSUME NEW i \in 1..n PROVE t[i] \in D /\ rank[t[i]] = i
  <2> DEFINE Fits(x) == Cardinality({y \in D : <<y, x>> \in Less}) = i - 1
  <2>1. t[i] = CHOOSE x \in D : Fits(x)
    BY <1>3
  <2>2. \A x \in D : Fits(x) <=> rank[x] = i
    <3> SUFFICES ASSUME NEW x \in D PROVE Fits(x) <=> rank[x] = i
      OBVIOUS
    <3>1. {y \in D : <<y, x>> \in Less} = {y \in D : y < x}
      OBVIOUS
    <3> QED
      BY <1>4, <3>1
  <2> HIDE DEF Fits, t, rank
  <2>3. \E x \in D : Fits(x)
    BY <1>2, <2>2
  <2>4. t[i] \in D /\ Fits(t[i])
    BY <2>1, <2>3
  <2> QED
    BY <2>2, <2>4
<1>6. Select(s, D) = [i \in 1..n |-> s[t[i]]]
  BY DEF Select
<1>7. t \in [1..n -> D]
  <2> HIDE DEF rank
  <2> QED
    BY <1>3, <1>5
<1> HIDE DEF t, n, rank
<1>8. \A x \in D : rank[x] \in 1..n /\ t[rank[x]] = x
  BY <1>2, <1>5
<1>9. ASSUME NEW i \in 1..n, NEW j \in 1..n, i < j PROVE t[i] < t[j]
  <2>1. /\ t[i] \in D /\ t[j] \in D /\ rank[t[i]] = i /\ rank[t[j]] = j
        /\ t[i] \in Nat /\ t[j] \in Nat
    BY <1>1, <1>5
  <2>2. ~(t[j] < t[i]) /\ t[i] # t[j]
    BY <1>1, <1>2, <1>9, <2>1
  <2> QED
    BY <2>1, <2>2
<1>10. \A i \in 1..n : t[i] \in 1..Len(s) /\ s[t[i]] \in S
  <2> SUFFICES ASSUME NEW i \in 1..n PROVE t[i] \in 1..Len(s) /\ s[t[i]] \in S
    OBVIOUS
  <2>1. t[i] \in 1..Len(s)
    BY <1>7
  <2> QED
    BY <2>1, ElementOfSeq
<1>11. Select(s, D) \in Seq(S) /\ Len(Select(s, D)) = n
  BY <1>1, <1>6, <1>10
<1>12. Positions(t, s, D)
  BY <1>6, <1>7, <1>8, <1>9, <1>11 DEF Positions, n
<1> QED
  BY <1>1, <1>11, <1>12 DEF n

-----------------------------------------------------------------------------
OneEach(s) == \A j, k \in 1..Len(s) : s[j].fp = s[k].fp => j = k

(* s holds f with the time a, and behind it only fingerprints of X. *)
Recent(s, f, a, X) ==
    \E k \in 1..Len(s) :
        /\ s[k] = [fp |-> f, at |-> a]
        /\ \A j \in 1..Len(s) : j > k => s[j].fp \in X

LruInv(s) ==
    \A f \in Fingerprints \ excused :
        lastAdd[f] # Never /\ now - lastAdd[f] < TTL /\ Cardinality(since[f]) < CacheSize
        => Recent(s, f, lastAdd[f], since[f])

(* What the saved entries say of the fingerprints is as good as the memory. *)
OrderInv ==
    /\ \A f \in Fingerprints : IsFiniteSet(since[f])
    /\ up => LruInv(entries)
    /\ ~diverged => LruInv(file.entries)

(* No entry is younger than the last offer of its fingerprint. *)
Aged(s) == \A k \in 1..Len(s) : s[k].at <= lastAdd[s[k].fp]
AgeInv ==
    /\ \A f \in Fingerprints : lastAdd[f] <= now
    /\ Aged(entries) /\ Aged(file.entries)

DownInv ==
    /\ ~up => entries = <<>> /\ ~diverged
    /\ file.kind # "entries" => file.entries = <<>>

IndInv == TypeOK /\ OrderInv /\ AgeInv /\ DownInv

-----------------------------------------------------------------------------
(* t is what s holds at the positions D, in the same order. *)
Thins(t, s, D) ==
    /\ t \in Seq(Entry) /\ Len(t) <= Len(s)
    /\ \A i \in 1..Len(t) : \E k \in D : t[i] = s[k]
    /\ \A k \in D : \E i \in 1..Len(t) :
          /\ t[i] = s[k]
          /\ \A j \in 1..Len(t) : j > i => \E l \in D : l > k /\ t[j] = s[l]
    /\ OneEach(t)

LEMMA SelectThins ==
    ASSUME NEW s \in Seq(Entry), OneEach(s), NEW D \in SUBSET (1..Len(s))
    PROVE  Thins(Select(s, D), s, D)
<1> DEFINE u == Select(s, D)
           n == Cardinality(D)
<1>1. Len(s) \in Nat /\ n \in 0..Len(s) /\ u \in Seq(Entry)
  BY SelectFacts
<1>2. PICK t : Positions(t, s, D)
  BY SelectFacts
<1> HIDE DEF u, n
<1>3. /\ t \in [1..n -> D]
      /\ \A i, j \in 1..n : i < j => t[i] < t[j]
      /\ \A x \in D : \E i \in 1..n : t[i] = x
      /\ Len(u) = n /\ \A i \in 1..n : u[i] = s[t[i]]
  BY <1>2 DEF Positions, u, n
<1>4. \A i \in 1..Len(u) : \E k \in D : u[i] = s[k]
  BY <1>3
<1>5. ASSUME NEW k \in D
      PROVE  \E i \in 1..Len(u) :
                /\ u[i] = s[k]
                /\ \A j \in 1..Len(u) : j > i => \E l \in D : l > k /\ u[j] = s[l]
  <2>1. PICK i \in 1..n : t[i] = k
    BY <1>3
  <2>2. \A j \in 1..n : j > i => t[j] \in D /\ t[j] > k /\ u[j] = s[t[j]]
    BY <1>1, <1>3, <2>1
  <2> QED
    BY <1>3, <2>1, <2>2
<1>6. OneEach(u)
  <2> SUFFICES ASSUME NEW j \in 1..n, NEW k \in 1..n, u[j].fp = u[k].fp PROVE j = k
    BY <1>3 DEF OneEach
  <2>1. t[j] \in 1..Len(s) /\ t[k] \in 1..Len(s) /\ s[t[j]].fp = s[t[k]].fp
    BY <1>3
  <2>2. t[j] = t[k]
    BY <2>1 DEF OneEach
  <2>3. ~(j < k) /\ ~(k < j)
    BY <1>3, <2>1, <2>2
  <2> QED
    BY <1>1, <2>3
<1>7. Thins(u, s, D)
  BY <1>1, <1>3, <1>4, <1>5, <1>6 DEF Thins
<1> QED
  BY <1>7 DEF u

Fresh(s) == {k \in DOMAIN s : ~Expired(s[k])}
Last(s) == {k \in 1..Len(s) : k > Len(s) - CacheSize}

LEMMA NewestThins ==
    ASSUME NEW s \in Seq(Entry), OneEach(s)
    PROVE  Thins(Newest(s), s, Last(s)) /\ Len(Newest(s)) <= CacheSize
<1> USE StoreAssumption
<1> DEFINE u == Newest(s)
           m == Len(s) - CacheSize
<1>1. Len(s) \in Nat /\ m \in Int
  OBVIOUS
<1>2. CASE Len(s) <= CacheSize
  <2>1. u = s /\ Last(s) = 1..Len(s)
    BY <1>1, <1>2 DEF Newest, Last
  <2>2. \A k \in 1..Len(s) : \A j \in 1..Len(s) : j > k => s[j] = s[j]
    OBVIOUS
  <2> QED
    BY <1>2, <2>1, <2>2 DEF Thins
<1>3. CASE Len(s) > CacheSize
  <2>1. u = SubSeq(s, m + 1, Len(s))
    BY <1>1, <1>3 DEF Newest
  <2>2. /\ u \in Seq(Entry) /\ Len(u) = CacheSize
        /\ \A i \in 1..CacheSize : u[i] = s[m + i]
    <3>1. \A i \in m + 1 .. Len(s) : s[i] \in Entry
      BY <1>1, <1>3, ElementOfSeq
    <3>2. /\ SubSeq(s, m + 1, Len(s)) \in Seq(Entry)
          /\ Len(SubSeq(s, m + 1, Len(s))) =
                IF m + 1 <= Len(s) THEN Len(s) - (m + 1) + 1 ELSE 0
          /\ \A i \in 1 .. Len(s) - (m + 1) + 1 :
                SubSeq(s, m + 1, Len(s))[i] = s[m + 1 + i - 1]
      BY <1>1, <3>1, SubSeqProperties
    <3>3. Len(s) - (m + 1) + 1 = CacheSize
      BY <1>1
    <3>4. Len(u) = CacheSize
      BY <1>1, <2>1, <3>2
    <3>5. \A i \in 1..CacheSize : m + 1 + i - 1 = m + i
      BY <1>1
    <3> QED
      BY <2>1, <3>2, <3>3, <3>4, <3>5
  <2> HIDE DEF u
  <2>3. \A i \in 1..CacheSize : m + i \in Last(s)
    BY <1>1, <1>3 DEF Last
  <2>4. \A k \in Last(s) : k - m \in 1..CacheSize /\ m + (k - m) = k
    BY <1>1 DEF Last
  <2>5. ASSUME NEW k \in Last(s)
        PROVE  \E i \in 1..Len(u) :
                  /\ u[i] = s[k]
                  /\ \A j \in 1..Len(u) : j > i => \E l \in Last(s) : l > k /\ u[j] = s[l]
    <3>1. u[k - m] = s[k] /\ k - m \in 1..Len(u)
      BY <2>2, <2>4
    <3>2. ASSUME NEW j \in 1..Len(u), j > k - m
          PROVE  \E l \in Last(s) : l > k /\ u[j] = s[l]
      <4>1. m + j > k /\ m + j \in Last(s) /\ u[j] = s[m + j]
        BY <1>1, <2>2, <2>3, <3>2 DEF Last
      <4> QED
        BY <4>1
    <3> QED
      BY <3>1, <3>2
  <2>6. OneEach(u)
    <3> SUFFICES ASSUME NEW i \in 1..CacheSize, NEW j \in 1..CacheSize, u[i].fp = u[j].fp
                 PROVE  i = j
      BY <2>2 DEF OneEach
    <3>1. m + i \in 1..Len(s) /\ m + j \in 1..Len(s) /\ s[m + i].fp = s[m + j].fp
      BY <2>2, <2>3 DEF Last
    <3>2. m + i = m + j
      BY <3>1 DEF OneEach
    <3> QED
      BY <1>1, <3>2
  <2>7. Thins(u, s, Last(s))
    <3>1. u \in Seq(Entry) /\ Len(u) <= Len(s)
      BY <1>1, <1>3, <2>2
    <3>2. \A i \in 1..Len(u) : \E k \in Last(s) : u[i] = s[k]
      BY <2>2, <2>3
    <3> QED
      BY <2>5, <2>6, <3>1, <3>2 DEF Thins
  <2> QED
    BY <2>2, <2>7 DEF u
<1> QED
  BY <1>1, <1>2, <1>3

(* What stays recent in t must be at a position that t keeps. *)
LEMMA ThinsKeepsRecent ==
    ASSUME NEW s, NEW t, NEW D \in SUBSET (1..Len(s)), Thins(t, s, D),
           NEW f, NEW a, NEW X, NEW k \in D,
           s[k] = [fp |-> f, at |-> a],
           \A j \in 1..Len(s) : j > k => s[j].fp \in X
    PROVE  Recent(t, f, a, X)
<1>1. PICK i \in 1..Len(t) :
         /\ t[i] = s[k]
         /\ \A j \in 1..Len(t) : j > i => \E l \in D : l > k /\ t[j] = s[l]
  BY DEF Thins
<1>2. \A j \in 1..Len(t) : j > i => t[j].fp \in X
  BY <1>1
<1> QED
  BY <1>1, <1>2 DEF Recent

(* The entries behind the k-th are as many as their fingerprints. *)
LEMMA FewBehind ==
    ASSUME NEW s \in Seq(Entry), OneEach(s), NEW k \in 1..Len(s), NEW X, IsFiniteSet(X),
           \A j \in 1..Len(s) : j > k => s[j].fp \in X
    PROVE  Len(s) - k <= Cardinality(X)
<1> DEFINE B == k + 1 .. Len(s)
           g == [j \in B |-> s[j].fp]
<1>1. Len(s) \in Nat /\ k \in Nat
  OBVIOUS
<1>2. g \in [B -> X] /\ \A i, j \in B : g[i] = g[j] => i = j
  <2>1. \A j \in B : j \in 1..Len(s) /\ j > k /\ g[j] = s[j].fp
    BY <1>1
  <2>2. \A i, j \in B : g[i] = g[j] => i = j
    BY <2>1 DEF OneEach
  <2> QED
    BY <2>1, <2>2
<1> HIDE DEF g
<1>3. g \in Injection(B, X)
  BY <1>2 DEF Injection, IsInjective
<1>4. Cardinality(B) <= Cardinality(X)
  BY <1>3, FS_Injection
<1>5. Cardinality(B) = IF k + 1 > Len(s) THEN 0 ELSE Len(s) - (k + 1) + 1
  <2>1. k + 1 \in Int /\ Len(s) \in Int
    BY <1>1
  <2> QED
    BY <2>1, FS_Interval
<1>6. Cardinality(X) \in Nat
  BY FS_CardinalityType
<1> QED
  BY <1>1, <1>4, <1>5, <1>6

(* Removal of the expired and of all but the newest. *)
LEMMA PruneFacts ==
    ASSUME NEW s \in Seq(Entry), OneEach(s)
    PROVE  /\ Prune(s) \in Seq(Entry) /\ OneEach(Prune(s)) /\ Len(Prune(s)) <= CacheSize
           /\ \A i \in 1..Len(Prune(s)) :
                 \E k \in 1..Len(s) : Prune(s)[i] = s[k] /\ ~Expired(s[k])
<1> DEFINE u == Select(s, Fresh(s))
<1>1. Fresh(s) \in SUBSET (1..Len(s)) /\ Prune(s) = Newest(u)
  BY DEF Fresh, Prune
<1>2. Thins(u, s, Fresh(s))
  BY <1>1, SelectThins
<1> HIDE DEF u
<1>3. /\ u \in Seq(Entry) /\ OneEach(u)
      /\ \A i \in 1..Len(u) : \E k \in 1..Len(s) : u[i] = s[k] /\ ~Expired(s[k])
  <2>1. \A k \in Fresh(s) : k \in 1..Len(s) /\ ~Expired(s[k])
    BY DEF Fresh
  <2> QED
    BY <1>2, <2>1 DEF Thins
<1>4. Thins(Newest(u), u, Last(u)) /\ Len(Newest(u)) <= CacheSize
  BY <1>3, NewestThins
<1>5. /\ Newest(u) \in Seq(Entry) /\ OneEach(Newest(u))
      /\ \A i \in 1..Len(Newest(u)) : \E k \in 1..Len(u) : Newest(u)[i] = u[k]
  BY <1>4 DEF Thins, Last
<1> QED
  BY <1>1, <1>3, <1>4, <1>5

LEMMA NewestKeepsRecent ==
    ASSUME NEW s \in Seq(Entry), OneEach(s), NEW f, NEW a, NEW X, IsFiniteSet(X),
           Cardinality(X) < CacheSize, Recent(s, f, a, X)
    PROVE  Recent(Newest(s), f, a, X)
<1>1. PICK k \in 1..Len(s) :
         /\ s[k] = [fp |-> f, at |-> a]
         /\ \A j \in 1..Len(s) : j > k => s[j].fp \in X
  BY DEF Recent
<1>2. Len(s) - k <= Cardinality(X) /\ Cardinality(X) \in Nat
  BY <1>1, FewBehind, FS_CardinalityType
<1>3. Len(s) \in Nat /\ CacheSize \in Nat
  BY StoreAssumption
<1>4. k \in Last(s) /\ Last(s) \in SUBSET (1..Len(s))
  BY <1>2, <1>3 DEF Last
<1>5. Thins(Newest(s), s, Last(s))
  BY NewestThins
<1> QED
  BY <1>1, <1>4, <1>5, ThinsKeepsRecent

LEMMA PruneKeepsRecent ==
    ASSUME NEW s \in Seq(Entry), OneEach(s), NEW f, NEW a, NEW X, IsFiniteSet(X),
           Cardinality(X) < CacheSize, Recent(s, f, a, X),
           ~Expired([fp |-> f, at |-> a])
    PROVE  Recent(Prune(s), f, a, X)
<1> DEFINE u == Select(s, Fresh(s))
<1>1. Fresh(s) \in SUBSET (1..Len(s)) /\ Prune(s) = Newest(u)
  BY DEF Fresh, Prune
<1>2. Thins(u, s, Fresh(s))
  BY <1>1, SelectThins
<1> HIDE DEF u
<1>3. PICK k \in 1..Len(s) :
         /\ s[k] = [fp |-> f, at |-> a]
         /\ \A j \in 1..Len(s) : j > k => s[j].fp \in X
  BY DEF Recent
<1>4. k \in Fresh(s)
  BY <1>3 DEF Fresh
<1>5. Recent(u, f, a, X)
  BY <1>1, <1>2, <1>3, <1>4, ThinsKeepsRecent
<1>6. u \in Seq(Entry) /\ OneEach(u)
  BY <1>2 DEF Thins
<1> QED
  BY <1>1, <1>5, <1>6, NewestKeepsRecent

(* Without(s, f) has the entries of the others. *)
LEMMA WithoutFacts ==
    ASSUME NEW s \in Seq(Entry), OneEach(s), NEW f
    PROVE  /\ Without(s, f) \in Seq(Entry) /\ OneEach(Without(s, f))
           /\ Len(Without(s, f)) <= Len(s)
           /\ f \in Keys(s) => Len(Without(s, f)) < Len(s)
           /\ \A i \in 1..Len(Without(s, f)) :
                 \E k \in 1..Len(s) : Without(s, f)[i] = s[k] /\ s[k].fp # f
           /\ \A g, a, X : g # f /\ Recent(s, g, a, X) => Recent(Without(s, f), g, a, X)
<1> DEFINE D == {k \in DOMAIN s : s[k].fp # f}
           u == Without(s, f)
<1>1. D \in SUBSET (1..Len(s)) /\ u = Select(s, D)
  BY DEF Without
<1>2. Thins(u, s, D)
  BY <1>1, SelectThins
<1>3. f \in Keys(s) => Len(u) < Len(s)
  <2> SUFFICES ASSUME f \in Keys(s) PROVE Len(u) < Len(s)
    OBVIOUS
  <2>1. PICK k \in 1..Len(s) : s[k].fp = f
    BY DEF Keys
  <2>2. Len(u) = Cardinality(D) /\ Len(s) \in Nat
    BY <1>1, SelectFacts DEF Positions
  <2>3. IsFiniteSet(1..Len(s)) /\ Cardinality(1..Len(s)) = Len(s)
    BY <2>2, FS_Interval
  <2>4. k \notin D
    BY <2>1
  <2> HIDE DEF D
  <2>5. IsFiniteSet(D) /\ Cardinality(D) <= Len(s) /\ Cardinality(D) # Len(s)
    BY <1>1, <2>1, <2>3, <2>4, FS_Subset
  <2>6. Cardinality(D) \in Nat
    BY <2>5, FS_CardinalityType
  <2> QED
    BY <2>2, <2>5, <2>6
<1> HIDE DEF u
<1>4. ASSUME NEW g, NEW a, NEW X, g # f, Recent(s, g, a, X) PROVE Recent(u, g, a, X)
  <2>1. PICK k \in 1..Len(s) :
           /\ s[k] = [fp |-> g, at |-> a]
           /\ \A j \in 1..Len(s) : j > k => s[j].fp \in X
    BY <1>4 DEF Recent
  <2>2. k \in D
    BY <1>4, <2>1
  <2> HIDE DEF D
  <2> QED
    BY <1>1, <1>2, <2>1, <2>2, ThinsKeepsRecent
<1>5. u \in Seq(Entry) /\ OneEach(u) /\ Len(u) <= Len(s)
  BY <1>2 DEF Thins
<1>6. \A i \in 1..Len(u) : \E k \in 1..Len(s) : u[i] = s[k] /\ s[k].fp # f
  <2>1. \A k \in D : k \in 1..Len(s) /\ s[k].fp # f
    OBVIOUS
  <2>2. \A i \in 1..Len(u) : \E k \in D : u[i] = s[k]
    BY <1>2 DEF Thins
  <2> QED
    BY <2>1, <2>2
<1> QED
  BY <1>3, <1>4, <1>5, <1>6 DEF u

LEMMA AppendFacts ==
    ASSUME NEW s \in Seq(Entry), OneEach(s), NEW e \in Entry,
           \A k \in 1..Len(s) : s[k].fp # e.fp
    PROVE  LET t == Append(s, e) IN
           /\ t \in Seq(Entry) /\ OneEach(t) /\ Len(t) = Len(s) + 1
           /\ \A i \in 1..Len(t) : t[i] = e \/ \E k \in 1..Len(s) : t[i] = s[k]
           /\ Recent(t, e.fp, e.at, {})
           /\ \A f, a, X, Y :
                 Recent(s, f, a, X) /\ X \subseteq Y /\ e.fp \in Y => Recent(t, f, a, Y)
<1> DEFINE t == Append(s, e)
<1>1. /\ t \in Seq(Entry) /\ Len(s) \in Nat /\ Len(t) = Len(s) + 1
      /\ t[Len(s) + 1] = e /\ \A i \in 1..Len(s) : t[i] = s[i]
  OBVIOUS
<1> HIDE DEF t
<1>2. \A i \in 1..Len(t) : i \in 1..Len(s) \/ i = Len(s) + 1
  BY <1>1
<1>3. OneEach(t)
  BY <1>1, <1>2 DEF OneEach
<1>4. \A i \in 1..Len(t) : t[i] = e \/ \E k \in 1..Len(s) : t[i] = s[k]
  BY <1>1, <1>2
<1>5. Recent(t, e.fp, e.at, {})
  <2>1. e = [fp |-> e.fp, at |-> e.at]
    BY DEF Entry
  <2>2. Len(s) + 1 \in 1..Len(t) /\ \A j \in 1..Len(t) : ~(j > Len(s) + 1)
    BY <1>1
  <2> QED
    BY <1>1, <2>1, <2>2 DEF Recent
<1>6. ASSUME NEW f, NEW a, NEW X, NEW Y, Recent(s, f, a, X), X \subseteq Y, e.fp \in Y
      PROVE  Recent(t, f, a, Y)
  <2>1. PICK k \in 1..Len(s) :
           /\ s[k] = [fp |-> f, at |-> a]
           /\ \A j \in 1..Len(s) : j > k => s[j].fp \in X
    BY <1>6 DEF Recent
  <2>2. k \in 1..Len(t) /\ t[k] = [fp |-> f, at |-> a]
    BY <1>1, <2>1
  <2>3. \A j \in 1..Len(t) : j > k => t[j].fp \in Y
    BY <1>1, <1>2, <1>6, <2>1
  <2> QED
    BY <2>2, <2>3 DEF Recent
<1> QED
  BY <1>1, <1>3, <1>4, <1>5, <1>6 DEF t

-----------------------------------------------------------------------------
(* The next state, part by part. *)

Good(s) == s \in Seq(Entry) /\ Len(s) <= CacheSize /\ OneEach(s)

AgedNext(s) == \A k \in 1..Len(s) : s[k].at <= lastAdd'[s[k].fp]

LruNext(s) ==
    \A f \in Fingerprints \ excused' :
        lastAdd'[f] # Never /\ now' - lastAdd'[f] < TTL /\ Cardinality(since'[f]) < CacheSize
        => Recent(s, f, lastAdd'[f], since'[f])

MemOK == Good(entries') /\ AgedNext(entries') /\ (up' => LruNext(entries'))

FileOK ==
    /\ file'.kind \in {"missing", "corrupt", "entries"}
    /\ Good(file'.entries) /\ AgedNext(file'.entries)
    /\ ~diverged' => LruNext(file'.entries)
    /\ file'.kind # "entries" => file'.entries = <<>>

RestOK ==
    /\ now' \in 0..MaxTime /\ up' \in BOOLEAN /\ diverged' \in BOOLEAN
    /\ lastAdd' \in [Fingerprints -> {Never} \cup 0..MaxTime]
    /\ since' \in [Fingerprints -> SUBSET Fingerprints]
    /\ excused' \subseteq Fingerprints
    /\ \A f \in Fingerprints : IsFiniteSet(since'[f]) /\ lastAdd'[f] <= now'
    /\ ~up' => entries' = <<>> /\ ~diverged'

LEMMA PartsMakeWhole == MemOK /\ FileOK /\ RestOK => IndInv'
<1> SUFFICES ASSUME MemOK, FileOK, RestOK PROVE IndInv'
  OBVIOUS
<1>1. \A s : Good(s) => s \in Seq(Entry) /\ Bounded(s)
  BY DEF Good, Bounded, OneEach
<1>2. TypeOK'
  BY <1>1 DEF MemOK, FileOK, RestOK, TypeOK
<1>3. OrderInv' /\ AgeInv'
  BY DEF MemOK, FileOK, RestOK, OrderInv, AgeInv, LruInv, LruNext, Aged, AgedNext
<1>4. DownInv'
  BY DEF FileOK, RestOK, DownInv
<1> QED
  BY <1>2, <1>3, <1>4 DEF IndInv

LEMMA Unpacked ==
    ASSUME IndInv
    PROVE  /\ Good(entries) /\ Good(file.entries) /\ Aged(entries) /\ Aged(file.entries)
           /\ now \in 0..MaxTime /\ now \in Nat /\ MaxTime \in Nat
           /\ up \in BOOLEAN /\ diverged \in BOOLEAN
           /\ lastAdd \in [Fingerprints -> {Never} \cup 0..MaxTime]
           /\ \A f \in Fingerprints : lastAdd[f] \in Int /\ lastAdd[f] <= now
           /\ since \in [Fingerprints -> SUBSET Fingerprints]
           /\ \A f \in Fingerprints : IsFiniteSet(since[f])
           /\ excused \subseteq Fingerprints
           /\ up => LruInv(entries)
           /\ ~diverged => LruInv(file.entries)
           /\ ~up => entries = <<>> /\ ~diverged
           /\ file.kind \in {"missing", "corrupt", "entries"}
           /\ file.kind # "entries" => file.entries = <<>>
<1>1. \A s : s \in Seq(Entry) /\ Bounded(s) => Good(s)
  BY DEF Good, Bounded, OneEach
<1>2. Good(entries) /\ Good(file.entries)
  BY <1>1 DEF IndInv, TypeOK
<1>3. \A f \in Fingerprints : lastAdd[f] \in Int
  BY StoreAssumption DEF IndInv, TypeOK, Never
<1> QED
  BY <1>2, <1>3, StoreAssumption DEF IndInv, TypeOK, OrderInv, AgeInv, DownInv

(* As time passes and others are used, less is claimed. *)
LEMMA LessIsClaimed ==
    ASSUME IndInv, NEW s, LruInv(s), excused \subseteq excused', lastAdd' = lastAdd,
           now' \in Nat, now <= now',
           \A f \in Fingerprints : since[f] \subseteq since'[f] /\ IsFiniteSet(since'[f])
    PROVE  LruNext(s)
<1> SUFFICES ASSUME NEW f \in Fingerprints \ excused', lastAdd'[f] # Never,
                    now' - lastAdd'[f] < TTL, Cardinality(since'[f]) < CacheSize
             PROVE  Recent(s, f, lastAdd'[f], since'[f])
  BY DEF LruNext
<1>1. now - lastAdd[f] < TTL
  BY Unpacked, StoreAssumption
<1>2. Cardinality(since[f]) < CacheSize
  <2>1. /\ Cardinality(since[f]) <= Cardinality(since'[f])
        /\ Cardinality(since[f]) \in Nat /\ Cardinality(since'[f]) \in Nat
    BY Unpacked, FS_Subset, FS_CardinalityType
  <2> QED
    BY <2>1, StoreAssumption
<1>3. Recent(s, f, lastAdd[f], since[f])
  BY <1>1, <1>2 DEF LruInv
<1> QED
  BY <1>3 DEF Recent

(* A save puts the memory into the file or leaves the file behind. *)
LEMMA SaveKeeps ==
    ASSUME IndInv, MemOK, up', NEW ok \in BOOLEAN, Save(ok),
           \A f \in Fingerprints : lastAdd'[f] \in Int /\ lastAdd[f] <= lastAdd'[f]
    PROVE  FileOK /\ diverged' \in BOOLEAN
<1>1. CASE ok
  <2>1. file' = [kind |-> "entries", entries |-> entries'] /\ diverged' = FALSE
    BY <1>1 DEF Save
  <2> QED
    BY <2>1 DEF FileOK, MemOK
<1>2. CASE ~ok
  <2>1. file' = file /\ diverged' = TRUE
    BY <1>2 DEF Save
  <2>2. AgedNext(file.entries)
    <3> SUFFICES ASSUME NEW k \in 1..Len(file.entries)
                 PROVE  file.entries[k].at <= lastAdd'[file.entries[k].fp]
      BY DEF AgedNext
    <3>1. file.entries[k] \in Entry
      BY Unpacked, ElementOfSeq DEF Good
    <3>2. /\ file.entries[k].at \in 0..MaxTime /\ file.entries[k].fp \in Fingerprints
          /\ file.entries[k].at <= lastAdd[file.entries[k].fp]
      BY <3>1, Unpacked DEF Entry, Aged
    <3> QED
      BY <3>2, Unpacked
  <2> QED
    BY <2>1, <2>2, Unpacked DEF FileOK
<1> QED
  BY <1>1, <1>2

(* A file that is left alone says as much as before. *)
LEMMA FileStays ==
    ASSUME IndInv, file' = file, lastAdd' = lastAdd, excused \subseteq excused',
           now' \in Nat, now <= now',
           diverged' \/ ~diverged,
           \A f \in Fingerprints : since[f] \subseteq since'[f] /\ IsFiniteSet(since'[f])
    PROVE  FileOK
<1>1. AgedNext(file.entries)
  BY Unpacked DEF Aged, AgedNext
<1>2. ~diverged' => LruNext(file.entries)
  BY Unpacked, LessIsClaimed
<1> QED
  BY <1>1, <1>2, Unpacked DEF FileOK

LEMMA EmptyIsGood ==
    /\ Good(<<>>) /\ AgedNext(<<>>)
    /\ excused' = Fingerprints => \A s : LruNext(s)
<1>1. <<>> \in Seq(Entry) /\ Len(<<>>) = 0
  BY EmptySeq
<1> QED
  BY <1>1, StoreAssumption DEF Good, AgedNext, LruNext, OneEach

(* Pruning in memory. *)
LEMMA PrunedMemory ==
    ASSUME IndInv, NEW s, Good(s), Aged(s), LruInv(s), lastAdd' = lastAdd,
           excused' = excused, now' = now, since' = since
    PROVE  Good(Prune(s)) /\ AgedNext(Prune(s)) /\ LruNext(Prune(s))
<1>1. /\ Prune(s) \in Seq(Entry) /\ OneEach(Prune(s)) /\ Len(Prune(s)) <= CacheSize
      /\ \A i \in 1..Len(Prune(s)) : \E k \in 1..Len(s) : Prune(s)[i] = s[k]
  BY PruneFacts DEF Good
<1>2. AgedNext(Prune(s))
  BY <1>1 DEF Aged, AgedNext
<1>3. LruNext(Prune(s))
  <2> SUFFICES ASSUME NEW f \in Fingerprints \ excused, lastAdd[f] # Never,
                      now - lastAdd[f] < TTL, Cardinality(since[f]) < CacheSize
               PROVE  Recent(Prune(s), f, lastAdd[f], since[f])
    BY DEF LruNext
  <2>1. Recent(s, f, lastAdd[f], since[f])
    BY DEF LruInv
  <2>2. ~Expired([fp |-> f, at |-> lastAdd[f]])
    BY Unpacked, StoreAssumption DEF Expired
  <2> QED
    BY <2>1, <2>2, Unpacked, PruneKeepsRecent DEF Good
<1> QED
  BY <1>1, <1>2, <1>3 DEF Good

(* f is used: it moves to the end. *)
LEMMA UsedFacts ==
    ASSUME IndInv, NEW f \in Fingerprints
    PROVE  /\ Used(f) \in [Fingerprints -> SUBSET Fingerprints]
           /\ \A g \in Fingerprints :
                 /\ IsFiniteSet(Used(f)[g]) /\ since[g] \subseteq Used(f)[g]
                 /\ g # f => f \in Used(f)[g]
                 /\ Cardinality(Used(f)[g]) < CacheSize => Cardinality(since[g]) < CacheSize
<1>1. Used(f) \in [Fingerprints -> SUBSET Fingerprints]
  BY Unpacked DEF Used
<1>2. ASSUME NEW g \in Fingerprints
      PROVE  /\ IsFiniteSet(Used(f)[g]) /\ since[g] \subseteq Used(f)[g]
             /\ g # f => f \in Used(f)[g]
  BY Unpacked, FS_AddElement DEF Used
<1>3. ASSUME NEW g \in Fingerprints, Cardinality(Used(f)[g]) < CacheSize
      PROVE  Cardinality(since[g]) < CacheSize
  <2>1. /\ Cardinality(since[g]) <= Cardinality(Used(f)[g])
        /\ Cardinality(since[g]) \in Nat /\ Cardinality(Used(f)[g]) \in Nat
    BY <1>2, Unpacked, FS_Subset, FS_CardinalityType
  <2> QED
    BY <1>3, <2>1, StoreAssumption
<1> QED
  BY <1>1, <1>2, <1>3

LEMMA CheckAndAddStep ==
    ASSUME IndInv, NEW f \in Fingerprints, NEW ok \in BOOLEAN, CheckAndAdd(f, ok)
    PROVE  MemOK /\ FileOK /\ RestOK
<1> DEFINE p == Prune(entries)
           w == Without(p, f)
           e == [fp |-> f, at |-> now]
           t == Append(w, e)
<1>1. /\ up /\ up' = up /\ now' = now /\ entries' = Newest(t) /\ Save(ok)
      /\ lastAdd' = [lastAdd EXCEPT ![f] = now]
      /\ since' = [Used(f) EXCEPT ![f] = {}]
      /\ excused' = excused \ {f}
  BY DEF CheckAndAdd
<1>2. /\ p \in Seq(Entry) /\ OneEach(p)
      /\ \A i \in 1..Len(p) : \E k \in 1..Len(entries) : p[i] = entries[k]
  BY Unpacked, PruneFacts DEF Good
<1> HIDE DEF p
<1>3. /\ w \in Seq(Entry) /\ OneEach(w)
      /\ \A i \in 1..Len(w) : \E k \in 1..Len(p) : w[i] = p[k] /\ p[k].fp # f
      /\ \A g, a, X : g # f /\ Recent(p, g, a, X) => Recent(w, g, a, X)
  BY <1>2, WithoutFacts
<1>4. e \in Entry /\ e.fp = f /\ e.at = now
  BY Unpacked DEF Entry
<1> HIDE DEF w, e
<1>5. \A k \in 1..Len(w) : w[k].fp # e.fp
  BY <1>3, <1>4
<1>6. /\ t \in Seq(Entry) /\ OneEach(t)
      /\ \A i \in 1..Len(t) : t[i] = e \/ \E k \in 1..Len(w) : t[i] = w[k]
      /\ Recent(t, f, now, {})
      /\ \A g, a, X, Y : Recent(w, g, a, X) /\ X \subseteq Y /\ f \in Y => Recent(t, g, a, Y)
  BY <1>3, <1>4, <1>5, AppendFacts
<1> HIDE DEF t
<1>7. /\ Thins(Newest(t), t, Last(t)) /\ Good(Newest(t))
      /\ \A i \in 1..Len(Newest(t)) : \E k \in 1..Len(t) : Newest(t)[i] = t[k]
  BY <1>6, NewestThins DEF Thins, Last, Good
<1>8. /\ lastAdd' \in [Fingerprints -> {Never} \cup 0..MaxTime]
      /\ \A g \in Fingerprints :
            lastAdd'[g] \in Int /\ lastAdd[g] <= lastAdd'[g] /\ lastAdd'[g] <= now
      /\ lastAdd'[f] = now /\ \A g \in Fingerprints \ {f} : lastAdd'[g] = lastAdd[g]
  BY <1>1, Unpacked
<1>9. /\ since' \in [Fingerprints -> SUBSET Fingerprints]
      /\ since'[f] = {} /\ \A g \in Fingerprints \ {f} : since'[g] = Used(f)[g]
      /\ \A g \in Fingerprints : IsFiniteSet(since'[g])
  BY <1>1, UsedFacts, FS_EmptySet
<1>10. AgedNext(entries')
  <2> SUFFICES ASSUME NEW i \in 1..Len(Newest(t))
               PROVE  Newest(t)[i].at <= lastAdd'[Newest(t)[i].fp]
    BY <1>1 DEF AgedNext
  <2>1. PICK k \in 1..Len(t) : Newest(t)[i] = t[k]
    BY <1>7
  <2>2. CASE t[k] = e
    BY <1>4, <1>8, <2>1, <2>2, Unpacked
  <2>3. CASE t[k] # e
    <3>1. PICK l \in 1..Len(w) : t[k] = w[l]
      BY <1>6, <2>3
    <3>2. PICK m \in 1..Len(entries) : w[l] = entries[m] /\ entries[m].fp # f
      BY <1>2, <1>3
    <3>3. entries[m].fp \in Fingerprints /\ entries[m].at <= lastAdd[entries[m].fp]
      <4>1. entries[m] \in Entry
        BY Unpacked, ElementOfSeq DEF Good
      <4> QED
        BY <4>1, Unpacked DEF Aged, Entry
    <3> QED
      BY <1>8, <2>1, <3>1, <3>2, <3>3
  <2> QED
    BY <2>2, <2>3
<1>11. LruNext(entries')
  <2> SUFFICES ASSUME NEW g \in Fingerprints \ excused', lastAdd'[g] # Never,
                      now - lastAdd'[g] < TTL, Cardinality(since'[g]) < CacheSize
               PROVE  Recent(Newest(t), g, lastAdd'[g], since'[g])
    BY <1>1 DEF LruNext
  <2>1. Recent(t, g, lastAdd'[g], since'[g])
    <3>1. CASE g = f
      BY <1>6, <1>8, <1>9, <3>1
    <3>2. CASE g # f
      <4>1. g \notin excused /\ lastAdd'[g] = lastAdd[g] /\ since'[g] = Used(f)[g]
        BY <1>1, <1>8, <1>9, <3>2
      <4>2. Cardinality(since[g]) < CacheSize
        BY <4>1, UsedFacts
      <4>3. Recent(entries, g, lastAdd[g], since[g])
        BY <1>1, <4>1, <4>2, Unpacked DEF LruInv
      <4>4. ~Expired([fp |-> g, at |-> lastAdd[g]])
        BY <4>1, Unpacked, StoreAssumption DEF Expired
      <4>5. Recent(p, g, lastAdd[g], since[g])
        BY <4>2, <4>3, <4>4, Unpacked, PruneKeepsRecent DEF Good, p
      <4>6. Recent(w, g, lastAdd[g], since[g])
        BY <1>3, <3>2, <4>5
      <4>7. since[g] \subseteq Used(f)[g] /\ f \in Used(f)[g]
        BY <3>2, UsedFacts
      <4> QED
        BY <1>6, <4>1, <4>6, <4>7
    <3> QED
      BY <3>1, <3>2
  <2> QED
    BY <1>6, <1>9, <2>1, NewestKeepsRecent
<1>12. MemOK
  BY <1>1, <1>7, <1>10, <1>11 DEF MemOK
<1>13. FileOK /\ diverged' \in BOOLEAN
  BY <1>1, <1>8, <1>12, SaveKeeps
<1>14. RestOK
  BY <1>1, <1>8, <1>9, <1>13, Unpacked DEF RestOK
<1> QED
  BY <1>12, <1>13, <1>14

(* A look-up that finds f moves its entry to the end, with its time. *)
LEMMA ContainsFinds ==
    ASSUME IndInv, up, NEW f \in Fingerprints, f \in Keys(Prune(entries)),
           entries' = Append(Without(Prune(entries), f), EntryOf(Prune(entries), f)),
           lastAdd' = lastAdd, excused' = excused, now' = now, since' = Used(f)
    PROVE  MemOK
<1> DEFINE p == Prune(entries)
           w == Without(p, f)
           e == EntryOf(p, f)
           t == Append(w, e)
<1>1. /\ p \in Seq(Entry) /\ OneEach(p) /\ Len(p) <= CacheSize
      /\ \A i \in 1..Len(p) : \E k \in 1..Len(entries) : p[i] = entries[k]
  BY Unpacked, PruneFacts DEF Good
<1>2. entries' = t /\ f \in Keys(p)
  OBVIOUS
<1> HIDE DEF p
<1>3. /\ w \in Seq(Entry) /\ OneEach(w) /\ Len(w) < Len(p)
      /\ \A i \in 1..Len(w) : \E k \in 1..Len(p) : w[i] = p[k] /\ p[k].fp # f
      /\ \A g, a, X : g # f /\ Recent(p, g, a, X) => Recent(w, g, a, X)
  BY <1>1, <1>2, WithoutFacts
<1>4. PICK m \in 1..Len(p) : e = p[m] /\ p[m].fp = f
  <2>1. DOMAIN p = 1..Len(p)
    BY <1>1
  <2>2. \E x \in {p[k] : k \in DOMAIN p} : x.fp = f
    BY <1>2 DEF Keys
  <2>3. e \in {p[k] : k \in DOMAIN p} /\ e.fp = f
    BY <2>2 DEF EntryOf
  <2> QED
    BY <2>1, <2>3
<1>5. e \in Entry /\ e.fp = f
  BY <1>1, <1>4, ElementOfSeq
<1> HIDE DEF w, e
<1>6. \A k \in 1..Len(w) : w[k].fp # e.fp
  BY <1>3, <1>5
<1>7. /\ t \in Seq(Entry) /\ OneEach(t) /\ Len(t) = Len(w) + 1
      /\ \A i \in 1..Len(t) : t[i] = e \/ \E k \in 1..Len(w) : t[i] = w[k]
      /\ Recent(t, f, e.at, {})
      /\ \A g, a, X, Y : Recent(w, g, a, X) /\ X \subseteq Y /\ f \in Y => Recent(t, g, a, Y)
  BY <1>3, <1>5, <1>6, AppendFacts
<1> HIDE DEF t
<1>8. Good(t)
  <2>1. Len(w) \in Nat /\ Len(p) \in Nat
    BY <1>1, <1>3
  <2>2. Len(t) <= CacheSize
    BY <1>1, <1>3, <1>7, <2>1, StoreAssumption
  <2> QED
    BY <1>7, <2>2 DEF Good
<1>9. \A i \in 1..Len(t) : \E k \in 1..Len(entries) : t[i] = entries[k]
  <2>1. ASSUME NEW i \in 1..Len(t) PROVE \E k \in 1..Len(p) : t[i] = p[k]
    <3>1. CASE t[i] = e
      BY <1>4, <3>1
    <3>2. CASE \E k \in 1..Len(w) : t[i] = w[k]
      BY <1>3, <3>2
    <3> QED
      BY <1>7, <3>1, <3>2
  <2> QED
    BY <1>1, <2>1
<1>10. AgedNext(t)
  BY <1>9, Unpacked DEF Aged, AgedNext
<1>11. LruNext(t)
  <2> SUFFICES ASSUME NEW g \in Fingerprints \ excused, lastAdd[g] # Never,
                      now - lastAdd[g] < TTL, Cardinality(Used(f)[g]) < CacheSize
               PROVE  Recent(t, g, lastAdd[g], Used(f)[g])
    BY DEF LruNext
  <2>1. Cardinality(since[g]) < CacheSize
    BY UsedFacts
  <2>2. Recent(entries, g, lastAdd[g], since[g])
    BY <2>1, Unpacked DEF LruInv
  <2>3. ~Expired([fp |-> g, at |-> lastAdd[g]])
    BY Unpacked, StoreAssumption DEF Expired
  <2>4. Recent(p, g, lastAdd[g], since[g])
    BY <2>1, <2>2, <2>3, Unpacked, PruneKeepsRecent DEF Good, p
  <2>5. CASE g = f
    <3>1. e.at = lastAdd[f]
      <4>1. PICK k \in 1..Len(p) : p[k] = [fp |-> f, at |-> lastAdd[f]]
        BY <2>4, <2>5 DEF Recent
      <4>2. p[k].fp = f /\ p[k].at = lastAdd[f]
        BY <4>1
      <4>3. k = m
        BY <1>1, <1>4, <4>2 DEF OneEach
      <4> QED
        BY <1>4, <4>2, <4>3
    <3>2. Recent(t, f, lastAdd[f], {})
      BY <1>7, <3>1
    <3> QED
      BY <2>5, <3>2 DEF Recent
  <2>6. CASE g # f
    <3>1. Recent(w, g, lastAdd[g], since[g])
      BY <1>3, <2>4, <2>6
    <3>2. since[g] \subseteq Used(f)[g] /\ f \in Used(f)[g]
      BY <2>6, UsedFacts
    <3> QED
      BY <1>7, <3>1, <3>2
  <2> QED
    BY <2>5, <2>6
<1> QED
  BY <1>2, <1>8, <1>10, <1>11 DEF MemOK

LEMMA ContainsStep ==
    ASSUME IndInv, NEW f \in Fingerprints, Contains(f)
    PROVE  MemOK /\ FileOK /\ RestOK
<1>1. /\ up /\ up' = up /\ now' = now /\ file' = file /\ lastAdd' = lastAdd
      /\ excused' = excused /\ diverged' = diverged
  BY DEF Contains
<1>2. CASE f \in Keys(Prune(entries))
  <2>1. /\ entries' = Append(Without(Prune(entries), f), EntryOf(Prune(entries), f))
        /\ since' = Used(f)
    BY <1>2 DEF Contains
  <2>2. MemOK
    BY <1>1, <1>2, <2>1, ContainsFinds
  <2>3. FileOK
    BY <1>1, <2>1, Unpacked, UsedFacts, FileStays
  <2>4. RestOK
    BY <1>1, <2>1, Unpacked, UsedFacts DEF RestOK
  <2> QED
    BY <2>2, <2>3, <2>4
<1>3. CASE f \notin Keys(Prune(entries))
  <2>1. entries' = Prune(entries) /\ since' = since
    BY <1>3 DEF Contains
  <2>2. MemOK
    BY <1>1, <2>1, Unpacked, PrunedMemory DEF MemOK
  <2>3. FileOK
    BY <1>1, <2>1, Unpacked, FileStays
  <2>4. RestOK
    BY <1>1, <2>1, Unpacked DEF RestOK
  <2> QED
    BY <2>2, <2>3, <2>4
<1> QED
  BY <1>2, <1>3

LEMMA SaveStep ==
    ASSUME IndInv, NEW ok \in BOOLEAN,
           \/ CheckAndAddBlank(ok) \/ SaveNow(ok) \/ Clear(ok)
    PROVE  MemOK /\ FileOK /\ RestOK
<1>1. /\ up /\ up' = up /\ now' = now /\ lastAdd' = lastAdd /\ since' = since /\ Save(ok)
  BY DEF CheckAndAddBlank, SaveNow, Clear
<1>2. MemOK /\ excused' \subseteq Fingerprints
  <2>1. CASE CheckAndAddBlank(ok)
    <3>1. entries' = entries /\ excused' = excused
      BY <2>1 DEF CheckAndAddBlank
    <3>2. AgedNext(entries) /\ LruNext(entries)
      BY <1>1, <3>1, Unpacked, LessIsClaimed DEF Aged, AgedNext
    <3> QED
      BY <3>1, <3>2, Unpacked DEF MemOK
  <2>2. CASE SaveNow(ok)
    <3>1. entries' = Prune(entries) /\ excused' = excused
      BY <2>2 DEF SaveNow
    <3> QED
      BY <1>1, <3>1, Unpacked, PrunedMemory DEF MemOK
  <2>3. CASE Clear(ok)
    BY <2>3, EmptyIsGood DEF Clear, MemOK, NoEntries
  <2> QED
    BY <2>1, <2>2, <2>3
<1>3. FileOK /\ diverged' \in BOOLEAN
  BY <1>1, <1>2, Unpacked, SaveKeeps
<1>4. RestOK
  BY <1>1, <1>2, <1>3, Unpacked DEF RestOK
<1> QED
  BY <1>2, <1>3, <1>4

LEMMA LoadStep ==
    ASSUME IndInv, NEW ok \in BOOLEAN, Load(ok)
    PROVE  MemOK /\ FileOK /\ RestOK
<1>1. /\ ~up /\ up' /\ up' = TRUE /\ entries' = Prune(file.entries)
      /\ now' = now /\ lastAdd' = lastAdd /\ since' = since /\ excused' = excused
      /\ IF file.kind = "entries" THEN Save(ok) ELSE UNCHANGED <<file, diverged>>
  BY DEF Load
<1>2. MemOK
  BY <1>1, Unpacked, PrunedMemory DEF MemOK
<1>3. FileOK /\ diverged' \in BOOLEAN
  <2>1. CASE file.kind = "entries"
    BY <1>1, <1>2, <2>1, Unpacked, SaveKeeps
  <2>2. CASE file.kind # "entries"
    BY <1>1, <2>2, Unpacked, FileStays
  <2> QED
    BY <2>1, <2>2
<1>4. RestOK
  BY <1>1, <1>3, Unpacked DEF RestOK
<1> QED
  BY <1>2, <1>3, <1>4

(* The store is empty after this step, and excused if it should not be. *)
LEMMA DownStep ==
    ASSUME IndInv, LoadUnread \/ Stop
    PROVE  MemOK /\ FileOK /\ RestOK
<1>1. /\ entries' = <<>> /\ now' = now /\ file' = file /\ lastAdd' = lastAdd /\ since' = since
      /\ up' \in BOOLEAN /\ diverged' \in BOOLEAN /\ (~up' => ~diverged')
  BY DEF LoadUnread, Stop, NoEntries
<1>2. /\ excused' \in {excused, Fingerprints}
      /\ up' => excused' = Fingerprints
      /\ diverged' \/ ~diverged \/ excused' = Fingerprints
  BY Unpacked DEF LoadUnread, Stop
<1>3. MemOK
  BY <1>1, <1>2, EmptyIsGood DEF MemOK
<1>4. FileOK
  <2>1. CASE excused' = Fingerprints
    BY <1>1, <2>1, Unpacked, EmptyIsGood DEF FileOK, Aged, AgedNext
  <2>2. CASE excused' = excused /\ excused' # Fingerprints
    BY <1>1, <1>2, <2>2, Unpacked, FileStays
  <2> QED
    BY <1>2, <2>1, <2>2
<1>5. RestOK
  BY <1>1, <1>2, Unpacked DEF RestOK
<1> QED
  BY <1>3, <1>4, <1>5

LEMMA DamageStep ==
    ASSUME IndInv, NEW kind \in {"missing", "corrupt"}, Damage(kind)
    PROVE  MemOK /\ FileOK /\ RestOK
<1>1. /\ ~up /\ up' = up /\ entries' = entries /\ now' = now /\ lastAdd' = lastAdd
      /\ since' = since /\ diverged' = diverged /\ excused' = Fingerprints
      /\ file' = [kind |-> kind, entries |-> <<>>]
  BY DEF Damage, Unreadable, NoEntries
<1>2. MemOK
  BY <1>1, Unpacked, EmptyIsGood DEF MemOK
<1>3. FileOK
  <2>1. file'.kind = kind /\ file'.entries = <<>>
    BY <1>1
  <2> QED
    BY <1>1, <2>1, EmptyIsGood DEF FileOK
<1>4. RestOK
  BY <1>1, Unpacked DEF RestOK
<1> QED
  BY <1>2, <1>3, <1>4

LEMMA TickStep == ASSUME IndInv, Tick PROVE MemOK /\ FileOK /\ RestOK
<1>1. /\ now' = now + 1 /\ now < MaxTime /\ up' = up /\ entries' = entries /\ file' = file
      /\ lastAdd' = lastAdd /\ since' = since /\ excused' = excused /\ diverged' = diverged
  BY DEF Tick, storeVars, ghostVars
<1>2. now' \in 0..MaxTime /\ now' \in Nat /\ now <= now'
  BY <1>1, Unpacked
<1>3. MemOK
  BY <1>1, <1>2, Unpacked, LessIsClaimed DEF MemOK, Aged, AgedNext
<1>4. FileOK
  BY <1>1, <1>2, Unpacked, FileStays
<1>5. RestOK
  <2>1. \A f \in Fingerprints : lastAdd[f] <= now'
    BY <1>2, Unpacked
  <2> QED
    BY <1>1, <1>2, <2>1, Unpacked DEF RestOK
<1> QED
  BY <1>3, <1>4, <1>5

LEMMA Start == Init => IndInv
<1> SUFFICES ASSUME Init PROVE IndInv
  OBVIOUS
<1>1. /\ now = 0 /\ up = FALSE /\ entries = <<>> /\ diverged = FALSE /\ excused = {}
      /\ file = [kind |-> "missing", entries |-> <<>>]
      /\ lastAdd = [f \in Fingerprints |-> Never]
      /\ since = [f \in Fingerprints |-> {}]
  BY DEF Init, Unreadable, NoEntries
<1>2. <<>> \in Seq(Entry) /\ Bounded(<<>>) /\ Aged(<<>>)
  BY EmptySeq, StoreAssumption DEF Bounded, Aged
<1>3. file.kind = "missing" /\ file.entries = <<>>
  BY <1>1
<1>4. TypeOK
  <2>1. now \in 0..MaxTime
    BY StoreAssumption DEF Init
  <2>2. /\ lastAdd \in [Fingerprints -> {Never} \cup 0..MaxTime]
        /\ since \in [Fingerprints -> SUBSET Fingerprints]
    BY <1>1
  <2>3. up \in BOOLEAN /\ diverged \in BOOLEAN /\ excused \subseteq Fingerprints
    BY DEF Init
  <2> QED
    BY <1>1, <1>2, <1>3, <2>1, <2>2, <2>3 DEF TypeOK
<1>5. OrderInv
  BY <1>1, FS_EmptySet DEF OrderInv, LruInv
<1>6. AgeInv
  BY <1>1, <1>2, <1>3 DEF AgeInv, Never
<1>7. DownInv
  BY <1>1, <1>3 DEF DownInv
<1> QED
  BY <1>4, <1>5, <1>6, <1>7 DEF IndInv

LEMMA Outcomes == SaveOutcomes \subseteq BOOLEAN
BY DEF SaveOutcomes

LEMMA Step == IndInv /\ [Next]_vars => IndInv'
<1> SUFFICES ASSUME IndInv, [Next]_vars PROVE IndInv'
  OBVIOUS
<1>1. CASE Next
  <2>1. MemOK /\ FileOK /\ RestOK
    BY <1>1, CheckAndAddStep, ContainsStep, SaveStep, LoadStep, DownStep, DamageStep, TickStep,
       Outcomes DEF Next
  <2> QED
    BY <2>1, PartsMakeWhole
<1>2. CASE UNCHANGED vars
  BY <1>2 DEF IndInv, TypeOK, OrderInv, AgeInv, DownInv, LruInv, Aged, vars, storeVars, ghostVars
<1> QED
  BY <1>1, <1>2

-----------------------------------------------------------------------------
(* The invariant holds in every reachable state. *)
THEOREM InvariantHolds == Spec => []IndInv
BY Start, Step, PTL DEF Spec

(* The cache never holds more than cache_size entries nor one fingerprint    *)
(* twice, in memory and in the file (_prune_locked, check_and_add, load).    *)
THEOREM TypeCorrect == Spec => []TypeOK
<1>1. IndInv => TypeOK
  BY DEF IndInv
<1> QED
  BY <1>1, InvariantHolds, PTL

(* check_and_add and contains call a fingerprint seen only if it was offered *)
(* less than ttl_seconds ago, in this run or in an earlier one.              *)
THEOREM DuplicatesWereOffered == Spec => []NoFalseDuplicate
<1>1. IndInv => NoFalseDuplicate
  <2> SUFFICES ASSUME IndInv, NEW f \in Fingerprints, f \in Keys(Prune(entries))
               PROVE  lastAdd[f] # Never /\ now - lastAdd[f] < TTL
    BY DEF NoFalseDuplicate, Knows
  <2>1. PICK i \in DOMAIN Prune(entries) : Prune(entries)[i].fp = f
    BY DEF Keys
  <2>2. PICK k \in 1..Len(entries) : Prune(entries)[i] = entries[k] /\ ~Expired(entries[k])
    <3>1. entries \in Seq(Entry) /\ OneEach(entries)
      BY Unpacked DEF Good
    <3>2. /\ Prune(entries) \in Seq(Entry)
          /\ \A j \in 1..Len(Prune(entries)) :
                \E k \in 1..Len(entries) : Prune(entries)[j] = entries[k] /\ ~Expired(entries[k])
      BY <3>1, PruneFacts
    <3>3. i \in 1..Len(Prune(entries))
      BY <3>2
    <3> QED
      BY <3>2, <3>3
  <2>3. entries[k] \in Entry
    BY Unpacked, ElementOfSeq DEF Good
  <2>4. /\ entries[k].at \in 0..MaxTime /\ entries[k].at <= lastAdd[f]
        /\ now - entries[k].at < TTL
    BY <2>1, <2>2, <2>3, Unpacked, StoreAssumption DEF Aged, Entry, Expired
  <2> QED
    BY <2>4, Unpacked, StoreAssumption DEF Never
<1> QED
  BY <1>1, InvariantHolds, PTL

(* A fingerprint offered less than ttl_seconds ago is known to check_and_add *)
(* unless cache_size others were used since, a fault or clear() erased it:   *)
(* neither the expiry and the eviction of others nor a restart loses it.     *)
THEOREM OfferedAreKnown == Spec => []NoFalseAccept
<1>1. IndInv => NoFalseAccept
  <2> SUFFICES ASSUME IndInv, up, NEW f \in Fingerprints \ excused, lastAdd[f] # Never,
                      now - lastAdd[f] < TTL, Cardinality(since[f]) < CacheSize
               PROVE  f \in Keys(Prune(entries))
    BY DEF NoFalseAccept, Knows
  <2>1. Recent(entries, f, lastAdd[f], since[f])
    BY Unpacked DEF LruInv
  <2>2. ~Expired([fp |-> f, at |-> lastAdd[f]])
    BY Unpacked, StoreAssumption DEF Expired
  <2>3. Recent(Prune(entries), f, lastAdd[f], since[f])
    BY <2>1, <2>2, Unpacked, PruneKeepsRecent DEF Good
  <2>4. PICK k \in 1..Len(Prune(entries)) : Prune(entries)[k] = [fp |-> f, at |-> lastAdd[f]]
    BY <2>3 DEF Recent
  <2>5. DOMAIN Prune(entries) = 1..Len(Prune(entries)) /\ Prune(entries)[k].fp = f
    BY <2>4, Unpacked, PruneFacts DEF Good
  <2> QED
    BY <2>5 DEF Keys
<1> QED
  BY <1>1, InvariantHolds, PTL

-----------------------------------------------------------------------------
(* The refinement of SeenSet. *)

LEMMA KeysOfParts ==
    ASSUME NEW s \in Seq(Entry), OneEach(s), NEW f
    PROVE  /\ Keys(Prune(s)) \subseteq Keys(s)
           /\ Keys(Without(s, f)) \subseteq Keys(s) \ {f}
           /\ Keys(Newest(s)) \subseteq Keys(s)
<1>1. DOMAIN s = 1..Len(s)
  OBVIOUS
<1>2. Keys(Prune(s)) \subseteq Keys(s)
  <2>1. /\ DOMAIN Prune(s) = 1..Len(Prune(s))
        /\ \A i \in 1..Len(Prune(s)) : \E k \in 1..Len(s) : Prune(s)[i] = s[k]
    BY PruneFacts
  <2> QED
    BY <1>1, <2>1 DEF Keys
<1>3. Keys(Without(s, f)) \subseteq Keys(s) \ {f}
  <2>1. /\ DOMAIN Without(s, f) = 1..Len(Without(s, f))
        /\ \A i \in 1..Len(Without(s, f)) :
              \E k \in 1..Len(s) : Without(s, f)[i] = s[k] /\ s[k].fp # f
    BY WithoutFacts
  <2> QED
    BY <1>1, <2>1 DEF Keys
<1>4. Keys(Newest(s)) \subseteq Keys(s)
  <2>1. /\ Newest(s) \in Seq(Entry)
        /\ \A i \in 1..Len(Newest(s)) : \E k \in 1..Len(s) : Newest(s)[i] = s[k]
    BY NewestThins DEF Thins, Last
  <2> QED
    BY <1>1, <2>1 DEF Keys
<1> QED
  BY <1>2, <1>3, <1>4

LEMMA KeysOfAppend ==
    ASSUME NEW s \in Seq(Entry), NEW e \in Entry
    PROVE  Keys(Append(s, e)) = Keys(s) \cup {e.fp}
<1>1. /\ DOMAIN s = 1..Len(s) /\ DOMAIN Append(s, e) = 1..Len(s) + 1 /\ Len(s) \in Nat
      /\ \A k \in 1..Len(s) : Append(s, e)[k] = s[k]
      /\ Append(s, e)[Len(s) + 1] = e
  OBVIOUS
<1>2. ASSUME NEW g \in Keys(Append(s, e)) PROVE g \in Keys(s) \cup {e.fp}
  BY <1>1 DEF Keys
<1>3. ASSUME NEW g \in Keys(s) \cup {e.fp} PROVE g \in Keys(Append(s, e))
  <2>1. CASE g \in Keys(s)
    <3>1. PICK k \in 1..Len(s) : s[k].fp = g
      BY <1>1, <2>1 DEF Keys
    <3>2. k \in 1..Len(s) + 1 /\ Append(s, e)[k].fp = g
      BY <1>1, <3>1
    <3> QED
      BY <1>1, <3>2 DEF Keys
  <2>2. CASE g = e.fp
    BY <1>1, <2>2 DEF Keys
  <2> QED
    BY <1>3, <2>1, <2>2
<1> QED
  BY <1>2, <1>3

LEMMA SavedKeys ==
    ASSUME NEW ok \in BOOLEAN, Save(ok)
    PROVE  Seen!Save(ok)
BY DEF Save, Seen!Save

LEMMA CheckAndAddRefines ==
    ASSUME IndInv, NEW f \in Fingerprints, NEW ok \in BOOLEAN, CheckAndAdd(f, ok)
    PROVE  Seen!Recall(f, ok) \/ Seen!Remember(f, ok) \/ Seen!Flush(ok)
<1> DEFINE p == Prune(entries)
           w == Without(p, f)
           e == [fp |-> f, at |-> now]
           t == Append(w, e)
<1>1. entries' = Newest(t) /\ Seen!Save(ok)
  BY SavedKeys DEF CheckAndAdd
<1>2. p \in Seq(Entry) /\ OneEach(p) /\ Keys(p) \subseteq Keys(entries)
  BY Unpacked, PruneFacts, KeysOfParts DEF Good
<1> HIDE DEF p
<1>3. /\ w \in Seq(Entry) /\ OneEach(w) /\ Keys(w) \subseteq Keys(p) \ {f}
      /\ \A k \in 1..Len(w) : w[k].fp # f
  BY <1>2, WithoutFacts, KeysOfParts
<1>4. e \in Entry /\ e.fp = f /\ e.at = now
  BY Unpacked DEF Entry
<1> HIDE DEF w, e
<1>5. t \in Seq(Entry) /\ OneEach(t) /\ Keys(t) = Keys(w) \cup {f} /\ Recent(t, f, now, {})
  BY <1>3, <1>4, AppendFacts, KeysOfAppend
<1> HIDE DEF t
<1>6. Keys(entries') \subseteq (Keys(entries) \ {f}) \cup {f}
  BY <1>1, <1>2, <1>3, <1>5, KeysOfParts
<1>7. CASE CacheSize = 0
  <2>1. Newest(t) \in Seq(Entry) /\ Len(Newest(t)) <= 0
    BY <1>5, <1>7, NewestThins DEF Thins
  <2>2. DOMAIN Newest(t) = {}
    BY <2>1
  <2>3. Keys(entries') = {}
    BY <1>1, <2>2 DEF Keys
  <2> QED
    BY <1>1, <2>3 DEF Seen!Flush
<1>8. CASE CacheSize > 0
  <2>1. f \in Keys(entries')
    <3>1. Recent(Newest(t), f, now, {})
      BY <1>5, <1>8, NewestKeepsRecent, FS_EmptySet
    <3>2. PICK k \in 1..Len(Newest(t)) : Newest(t)[k] = [fp |-> f, at |-> now]
      BY <3>1 DEF Recent
    <3>3. Newest(t) \in Seq(Entry) /\ Newest(t)[k].fp = f
      BY <1>5, <3>2, NewestThins DEF Thins
    <3>4. k \in DOMAIN Newest(t)
      BY <3>3
    <3> QED
      BY <1>1, <3>3, <3>4 DEF Keys
  <2>2. Keys(entries') = (Keys(entries') \ {f}) \cup {f}
        /\ Keys(entries') \ {f} \in SUBSET (Keys(entries) \ {f})
    BY <1>6, <2>1
  <2>3. Seen!Remember(f, ok)
    BY <1>1, <2>2 DEF Seen!Remember
  <2> QED
    BY <2>3
<1> QED
  BY <1>7, <1>8, StoreAssumption

LEMMA ContainsRefines ==
    ASSUME IndInv, NEW f \in Fingerprints, Contains(f)
    PROVE  Seen!Lookup
<1> DEFINE p == Prune(entries)
           e == EntryOf(p, f)
<1>1. file' = file
  BY DEF Contains
<1>2. p \in Seq(Entry) /\ OneEach(p) /\ Keys(p) \subseteq Keys(entries)
  BY Unpacked, PruneFacts, KeysOfParts DEF Good
<1>3. entries' = IF f \in Keys(p) THEN Append(Without(p, f), e) ELSE p
  BY DEF Contains
<1> HIDE DEF p
<1>4. CASE f \in Keys(p)
  <2>1. DOMAIN p = 1..Len(p)
    BY <1>2
  <2>2. \E x \in {p[k] : k \in DOMAIN p} : x.fp = f
    BY <1>4 DEF Keys
  <2>3. e \in {p[k] : k \in DOMAIN p} /\ e.fp = f
    BY <2>2 DEF EntryOf
  <2>4. e \in Entry
    BY <1>2, <2>1, <2>3, ElementOfSeq
  <2> HIDE DEF e
  <2>5. Without(p, f) \in Seq(Entry) /\ Keys(Without(p, f)) \subseteq Keys(p)
    BY <1>2, WithoutFacts, KeysOfParts
  <2>6. Keys(entries') \subseteq Keys(p)
    BY <1>3, <1>4, <2>3, <2>4, <2>5, KeysOfAppend
  <2> QED
    BY <1>1, <1>2, <2>6 DEF Seen!Lookup
<1>5. CASE f \notin Keys(p)
  BY <1>1, <1>2, <1>3, <1>5 DEF Seen!Lookup
<1> QED
  BY <1>4, <1>5

LEMMA StepRefines == IndInv /\ [Next]_vars => [Seen!Next]_(Seen!vars)
<1> SUFFICES ASSUME IndInv, [Next]_vars PROVE [Seen!Next]_(Seen!vars)
  OBVIOUS
<1> USE DEF Seen!SaveOutcomes, SaveOutcomes
<1>1. Keys(Prune(entries)) \subseteq Keys(entries) /\ Keys(<<>>) = {}
      /\ Keys(Prune(file.entries)) \subseteq Keys(file.entries)
  <2>1. Keys(<<>>) = {}
    BY DEF Keys
  <2> QED
    BY <2>1, Unpacked, KeysOfParts DEF Good
<1>2. ASSUME NEW f \in Fingerprints, NEW ok \in SaveOutcomes, CheckAndAdd(f, ok) PROVE Seen!Next
  BY <1>2, CheckAndAddRefines DEF Seen!Next
<1>3. ASSUME NEW ok \in SaveOutcomes, CheckAndAddBlank(ok) PROVE Seen!Next
  BY <1>3, SavedKeys DEF CheckAndAddBlank, Seen!Flush, Seen!Next
<1>4. ASSUME NEW ok \in SaveOutcomes, SaveNow(ok) PROVE Seen!Next
  BY <1>1, <1>4, SavedKeys DEF SaveNow, Seen!Flush, Seen!Next
<1>5. ASSUME NEW ok \in SaveOutcomes, Clear(ok) PROVE Seen!Next
  BY <1>1, <1>5, SavedKeys DEF Clear, NoEntries, Seen!Flush, Seen!Next
<1>6. ASSUME NEW ok \in SaveOutcomes, Load(ok) PROVE Seen!Next
  <2>1. Keys(entries') \in SUBSET Keys(file.entries)
    BY <1>1, <1>6 DEF Load
  <2>2. Seen!Save(ok)
    <3>1. CASE file.kind = "entries"
      BY <1>6, <3>1, SavedKeys DEF Load
    <3>2. CASE file.kind # "entries"
      <4>1. file.entries = <<>> /\ file' = file
        BY <1>6, <3>2, Unpacked DEF Load
      <4>2. Keys(entries') = {} /\ Keys(file'.entries) = {} /\ Keys(file.entries) = {}
        BY <1>1, <2>1, <4>1
      <4> QED
        BY <4>2 DEF Seen!Save
    <3> QED
      BY <3>1, <3>2
  <2> QED
    BY <2>1, <2>2 DEF Seen!Load, Seen!Next
<1>7. ASSUME NEW f \in Fingerprints, Contains(f) PROVE Seen!Next
  BY <1>7, ContainsRefines DEF Seen!Next
<1>8. CASE LoadUnread \/ Stop
  BY <1>1, <1>8 DEF LoadUnread, Stop, NoEntries, Seen!Discard, Seen!Next
<1>9. ASSUME NEW kind \in {"missing", "corrupt"}, Damage(kind) PROVE Seen!Next
  <2>1. file'.entries = <<>> /\ entries' = entries
    BY <1>9 DEF Damage, Unreadable, NoEntries
  <2> QED
    BY <1>1, <2>1 DEF Seen!LoseFile, Seen!Next
<1>10. CASE Tick \/ UNCHANGED vars
  BY <1>10 DEF Tick, vars, storeVars, Seen!vars
<1> QED
  BY <1>2, <1>3, <1>4, <1>5, <1>6, <1>7, <1>8, <1>9, <1>10 DEF Next

(* DedupStore implements SeenSet, the store as Delivery knows it: what the   *)
(* pipeline's theorems assume of its store holds of persistence.DedupStore   *)
(* with its clock, its LRU order and its file.                               *)
THEOREM StoreIsSeenSet == Spec => RefinesSeenSet
<1>1. Init => Seen!Init
  <2> SUFFICES ASSUME Init PROVE Seen!Init
    OBVIOUS
  <2>1. entries = <<>> /\ file.entries = <<>>
    BY DEF Init, Unreadable, NoEntries
  <2>2. Keys(<<>>) = {}
    BY DEF Keys
  <2> QED
    BY <2>1, <2>2 DEF Seen!Init
<1> QED
  BY <1>1, StepRefines, InvariantHolds, PTL DEF Spec, RefinesSeenSet, Seen!Spec
=============================================================================
