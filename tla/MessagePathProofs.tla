--------------------------- MODULE MessagePathProofs ---------------------------
(***************************************************************************)
(* Theorems about MessagePath, for all settings, frames and texts.         *)
(*                                                                         *)
(* The first part is about the formatter: that the recursion of SplitText  *)
(* has a solution, where it cuts, and that the chunks make up the text.    *)
(* The second is about the rules of the filter chain, the third about a    *)
(* message on its way through the program.                                 *)
(***************************************************************************)
EXTENDS MessagePath, Integers, FiniteSetTheorems, SequenceTheorems, WellFoundedInduction, TLAPS

LEMMA LeastOfNat ==
    ASSUME NEW T, T \subseteq Nat, T # {}
    PROVE  \E n \in T : \A k \in T : n <= k
<1> DEFINE R == OpToRel(<, Nat)
<1>1. R = {ss \in Nat \X Nat : ss[1] < ss[2]}
  BY DEF OpToRel
<1>2. IsWellFoundedOn(R, Nat)
  BY NatLessThanWellFounded
<1> HIDE DEF R
<1>3. PICK n \in T : \A k \in T : ~(<<k, n>> \in R)
  BY <1>2, WFMin
<1>4. ASSUME NEW k \in T PROVE n <= k
  <2>1. k \in Nat /\ n \in Nat /\ <<k, n>> \in Nat \X Nat /\ <<k, n>> \notin R
    BY <1>3
  <2>2. ~(k < n)
    BY <1>1, <2>1
  <2> QED
    BY <2>1, <2>2
<1> QED
  BY <1>4

LEMMA GreatestUpTo ==
    ASSUME NEW n \in Nat, NEW T, T \subseteq 0..n, T # {}
    PROVE  \E i \in T : \A j \in T : j <= i
<1> DEFINE D == {n - j : j \in T}
<1>1. D \subseteq Nat /\ D # {}
  <2>1. \A j \in T : n - j \in Nat
    OBVIOUS
  <2> QED
    BY <2>1
<1>2. PICK d \in D : \A e \in D : d <= e
  BY <1>1, LeastOfNat
<1>3. PICK i \in T : d = n - i
  OBVIOUS
<1>4. \A j \in T : d <= n - j
  BY <1>2
<1> QED
  BY <1>3, <1>4

-----------------------------------------------------------------------------
(* How long the chunk is that starts at the k-th character. *)
Size(s, limit, k) ==
    IF Len(s) - k + 1 <= limit THEN Len(s) - k + 1 ELSE Cut(SubSeq(s, k, Len(s)), limit)

Piece(s, limit, k) == SubSeq(s, k, k + Size(s, limit, k) - 1)

LEMMA PartFacts ==
    ASSUME NEW C, NEW s \in Seq(C), NEW a \in 1..(Len(s) + 1), NEW b \in (a - 1)..Len(s)
    PROVE  /\ SubSeq(s, a, b) \in Seq(C)
           /\ Len(SubSeq(s, a, b)) = b - a + 1
           /\ \A i \in 1..(b - a + 1) : SubSeq(s, a, b)[i] = s[a + i - 1]
<1>1. Len(s) \in Nat /\ a \in Int /\ b \in Int
  OBVIOUS
<1>2. \A i \in a..b : s[i] \in C
  BY <1>1
<1>3. /\ SubSeq(s, a, b) \in Seq(C)
      /\ Len(SubSeq(s, a, b)) = IF a <= b THEN b - a + 1 ELSE 0
      /\ \A i \in 1..(b - a + 1) : SubSeq(s, a, b)[i] = s[a + i - 1]
  BY <1>1, <1>2, SubSeqProperties
<1>4. (IF a <= b THEN b - a + 1 ELSE 0) = b - a + 1
  BY <1>1
<1> QED
  BY <1>3, <1>4

LEMMA CutFacts ==
    ASSUME NEW t, NEW limit \in Nat \ {0}
    PROVE  LET at == {i \in 2..limit : t[i] \in Breaks}
           IN  /\ Cut(t, limit) \in 1..limit
               /\ at = {} => Cut(t, limit) = limit
               /\ at # {} => Cut(t, limit) \in at /\ \A i \in at : i <= Cut(t, limit)
<1> DEFINE at == {i \in 2..limit : t[i] \in Breaks}
<1>1. Cut(t, limit) = IF at = {} THEN limit ELSE CHOOSE i \in at : \A j \in at : j <= i
  BY DEF Cut
<1>2. at \subseteq 2..limit /\ at \subseteq 0..limit
  OBVIOUS
<1> HIDE DEF at
<1>3. at # {} => \E i \in at : \A j \in at : j <= i
  BY <1>2, GreatestUpTo
<1>4. at # {} => Cut(t, limit) \in at /\ \A i \in at : i <= Cut(t, limit)
  BY <1>1, <1>3
<1> QED
  BY <1>1, <1>2, <1>4 DEF at

LEMMA SizeFacts ==
    ASSUME NEW C, NEW s \in Seq(C), NEW limit \in Nat \ {0}, NEW k \in 1..Len(s)
    PROVE  /\ Size(s, limit, k) \in 1..limit
           /\ k + Size(s, limit, k) <= Len(s) + 1
           /\ Piece(s, limit, k) \in Seq(C) /\ Len(Piece(s, limit, k)) = Size(s, limit, k)
           /\ k + Size(s, limit, k) <= Len(s)
              => CutAsLateAsPossible(s, Piece(s, limit, k), k, limit)
<1> DEFINE n == Size(s, limit, k)
           t == SubSeq(s, k, Len(s))
           at == {i \in 2..limit : t[i] \in Breaks}
           breaks == {i \in (k + 1)..(k + limit - 1) : s[i] \in Breaks}
<1>1. Len(s) \in Nat /\ k \in Nat /\ k <= Len(s) /\ 1 <= k
  OBVIOUS
<1>2. /\ Cut(t, limit) \in 1..limit
      /\ at = {} => Cut(t, limit) = limit
      /\ at # {} => Cut(t, limit) \in at /\ \A i \in at : i <= Cut(t, limit)
  BY CutFacts
<1>3. n = IF Len(s) - k + 1 <= limit THEN Len(s) - k + 1 ELSE Cut(t, limit)
  BY DEF Size
<1>4. n \in 1..limit /\ k + n <= Len(s) + 1
  BY <1>1, <1>2, <1>3
<1>0. Piece(s, limit, k) = SubSeq(s, k, k + n - 1)
  BY DEF Piece
<1> HIDE DEF n, at, breaks
<1>5. Piece(s, limit, k) \in Seq(C) /\ Len(Piece(s, limit, k)) = n
  <2> DEFINE b == k + n - 1
  <2>1. k \in 1..(Len(s) + 1) /\ b \in (k - 1)..Len(s) /\ b - k + 1 = n
    BY <1>1, <1>4
  <2> HIDE DEF b
  <2>2. SubSeq(s, k, b) \in Seq(C) /\ Len(SubSeq(s, k, b)) = b - k + 1
    BY <2>1, PartFacts
  <2> QED
    BY <1>0, <2>1, <2>2 DEF b
<1>6. ASSUME k + n <= Len(s) PROVE CutAsLateAsPossible(s, Piece(s, limit, k), k, limit)
  <2>1. n = Cut(t, limit) /\ Len(s) - k + 1 > limit
    BY <1>1, <1>3, <1>4, <1>6
  <2>2. \A i \in 1..limit : t[i] = s[k + i - 1]
    <3>1. k \in 1..(Len(s) + 1) /\ Len(s) \in (k - 1)..Len(s)
      BY <1>1
    <3>2. \A i \in 1..(Len(s) - k + 1) : t[i] = s[k + i - 1]
      BY <3>1, PartFacts
    <3> HIDE DEF t
    <3> QED
      BY <1>1, <2>1, <3>2
  <2> HIDE DEF t
  <2>3. \A i \in 2..limit : i \in at <=> k + i - 1 \in breaks
    <3> SUFFICES ASSUME NEW i \in 2..limit PROVE i \in at <=> k + i - 1 \in breaks
      OBVIOUS
    <3>1. t[i] = s[k + i - 1]
      BY <2>2
    <3>2. k + i - 1 \in (k + 1)..(k + limit - 1)
      BY <1>1
    <3> QED
      BY <3>1, <3>2 DEF at, breaks
  <2>4. \A i \in breaks : i - k + 1 \in 2..limit /\ k + (i - k + 1) - 1 = i
    BY <1>1 DEF breaks
  <2>5. CASE breaks = {}
    <3>1. at = {}
      BY <2>3, <2>5 DEF at
    <3> QED
      BY <1>2, <1>5, <2>1, <2>5, <3>1 DEF CutAsLateAsPossible, breaks
  <2>6. CASE breaks # {}
    <3>1. at # {}
      BY <2>3, <2>4, <2>6
    <3>2. n \in at /\ \A i \in at : i <= n
      BY <1>2, <2>1, <3>1
    <3>3. k + n - 1 \in breaks
      BY <2>3, <3>2 DEF at
    <3>4. ASSUME NEW i \in breaks PROVE i <= k + n - 1
      <4>1. i - k + 1 \in at /\ i \in Int
        BY <2>3, <2>4 DEF breaks
      <4>2. i - k + 1 <= n
        BY <3>2, <4>1
      <4> QED
        BY <1>1, <1>4, <4>1, <4>2
    <3> QED
      BY <1>5, <2>6, <3>3, <3>4 DEF CutAsLateAsPossible, breaks
  <2> QED
    BY <2>5, <2>6
<1> QED
  BY <1>4, <1>5, <1>6 DEF n

-----------------------------------------------------------------------------
(* The recursion of SplitText has a solution: one from the k-th character on *)
(* extends to one from the character before.                                 *)
LEMMA SplitTextSolves ==
    ASSUME NEW C, NEW s \in Seq(C), NEW limit \in Nat \ {0}
    PROVE  \E f : /\ SplitText(s, limit) = f[1]
                  /\ \A k \in 1..Len(s) :
                        f[k] = IF k + Size(s, limit, k) = Len(s) + 1
                               THEN <<Piece(s, limit, k)>>
                               ELSE <<Piece(s, limit, k)>> \o f[k + Size(s, limit, k)]
<1> DEFINE L == Len(s)
           Rest(k) == SubSeq(s, k, L)
           Body(c, k) ==
              IF L < k THEN <<>>
              ELSE IF Len(Rest(k)) <= limit THEN <<Rest(k)>>
              ELSE LET n == Cut(Rest(k), limit)
                   IN  <<SubSeq(s, k, k + n - 1)>> \o c[k + n]
           T == {k \in 1..(L + 1) : \E c : c = [i \in k..(L + 1) |-> Body(c, i)]}
<1>1. L \in Nat
  OBVIOUS
<1>2. ASSUME NEW k \in 1..L, NEW c
      PROVE  /\ k + Size(s, limit, k) \in (k + 1)..(L + 1)
             /\ Body(c, k) = IF k + Size(s, limit, k) = L + 1
                             THEN <<Piece(s, limit, k)>>
                             ELSE <<Piece(s, limit, k)>> \o c[k + Size(s, limit, k)]
  <2> DEFINE n == Cut(Rest(k), limit)
  <2>1. k + Size(s, limit, k) \in (k + 1)..(L + 1) /\ Size(s, limit, k) \in 1..limit
    <3>1. Size(s, limit, k) \in 1..limit /\ k + Size(s, limit, k) <= L + 1
      BY SizeFacts
    <3> QED
      BY <1>1, <3>1
  <2>2. Len(Rest(k)) = L - k + 1
    <3>1. k \in 1..(L + 1) /\ L \in (k - 1)..L
      BY <1>1
    <3> QED
      BY <3>1, PartFacts
  <2>3. Size(s, limit, k) = IF L - k + 1 <= limit THEN L - k + 1 ELSE n
    BY DEF Size
  <2>4. Piece(s, limit, k) = SubSeq(s, k, k + Size(s, limit, k) - 1)
    BY DEF Piece
  <2>5. Body(c, k) = IF Len(Rest(k)) <= limit THEN <<Rest(k)>>
                     ELSE <<SubSeq(s, k, k + n - 1)>> \o c[k + n]
    BY <1>1
  <2>6. CASE L - k + 1 <= limit
    <3>1. Size(s, limit, k) = L - k + 1 /\ k + Size(s, limit, k) = L + 1
      BY <1>1, <2>3, <2>6
    <3>2. k + Size(s, limit, k) - 1 = L
      BY <1>1, <3>1
    <3>3. Piece(s, limit, k) = Rest(k)
      BY <2>4, <3>2
    <3> HIDE DEF Rest, Body, n
    <3> QED
      BY <2>1, <2>2, <2>5, <2>6, <3>1, <3>3
  <2>7. CASE ~(L - k + 1 <= limit)
    <3>1. Size(s, limit, k) = n
      BY <2>3, <2>7
    <3>2. k + Size(s, limit, k) # L + 1
      BY <1>1, <2>1, <2>7
    <3> HIDE DEF Rest, Body, n
    <3> QED
      BY <2>1, <2>2, <2>4, <2>5, <2>7, <3>1, <3>2
  <2> QED
    BY <2>6, <2>7
<1>3. \A c : Body(c, L + 1) = <<>>
  BY <1>1
<1> HIDE DEF Body, L
<1>4. L + 1 \in T
  <2> DEFINE c == [i \in (L + 1)..(L + 1) |-> <<>>]
  <2>1. \A i \in (L + 1)..(L + 1) : i = L + 1
    BY <1>1
  <2>2. c = [i \in (L + 1)..(L + 1) |-> Body(c, i)]
    BY <1>3, <2>1
  <2>3. L + 1 \in 1..(L + 1)
    BY <1>1
  <2> HIDE DEF c
  <2> QED
    BY <2>2, <2>3
<1>5. 1 \in T
  <2>1. T \subseteq Nat /\ T # {}
    <3>1. 1..(L + 1) \subseteq Nat
      BY <1>1
    <3> QED
      BY <1>4, <3>1
  <2>2. PICK k \in T : \A j \in T : k <= j
    BY <2>1, LeastOfNat
  <2>3. SUFFICES ASSUME k # 1 PROVE FALSE
    BY <2>2
  <2>4. k \in 1..(L + 1) /\ k - 1 \in 1..L
    BY <1>1, <2>3
  <2>5. PICK c : c = [i \in k..(L + 1) |-> Body(c, i)]
    OBVIOUS
  <2> DEFINE d == [i \in (k - 1)..(L + 1) |-> IF i = k - 1 THEN Body(c, i) ELSE c[i]]
  <2>6. ASSUME NEW i \in (k - 1)..(L + 1) PROVE d[i] = Body(d, i)
    <3>1. i \in 1..L \/ i = L + 1
      BY <1>1, <2>4
    <3>2. d[i] = Body(c, i)
      <4>1. CASE i = k - 1
        BY <4>1
      <4>2. CASE i # k - 1
        <5>1. i \in k..(L + 1)
          BY <1>1, <2>4, <4>2
        <5>2. d[i] = c[i]
          BY <4>2
        <5> QED
          BY <2>5, <5>1, <5>2
      <4> QED
        BY <4>1, <4>2
    <3>3. CASE i = L + 1
      BY <1>3, <3>2, <3>3
    <3>4. CASE i \in 1..L
      <4>1. i + Size(s, limit, i) \in (i + 1)..(L + 1)
        BY <1>2, <3>4
      <4>2. i + Size(s, limit, i) \in k..(L + 1) /\ i + Size(s, limit, i) # k - 1
        BY <1>1, <2>4, <4>1
      <4>3. d[i + Size(s, limit, i)] = c[i + Size(s, limit, i)]
        BY <1>1, <2>4, <4>2
      <4>4. Body(d, i) = Body(c, i)
        <5> HIDE DEF d
        <5> QED
          BY <1>2, <3>4, <4>3
      <4> QED
        BY <3>2, <4>4
    <3> QED
      BY <3>1, <3>3, <3>4
  <2>7. d = [i \in (k - 1)..(L + 1) |-> Body(d, i)]
    BY <2>6
  <2>8. k - 1 \in T
    <3> HIDE DEF d
    <3> QED
      BY <1>1, <2>4, <2>7
  <2> QED
    BY <2>2, <2>4, <2>8
<1> DEFINE f == CHOOSE c : c = [i \in 1..(L + 1) |-> Body(c, i)]
<1>6. SplitText(s, limit) = f[1]
  BY DEF SplitText, Body, L
<1>7. f = [i \in 1..(L + 1) |-> Body(f, i)]
  <2>1. \E c : c = [i \in 1..(L + 1) |-> Body(c, i)]
    BY <1>5
  <2> QED
    BY <2>1
<1> HIDE DEF f
<1>8. ASSUME NEW k \in 1..L
      PROVE  f[k] = IF k + Size(s, limit, k) = L + 1
                    THEN <<Piece(s, limit, k)>>
                    ELSE <<Piece(s, limit, k)>> \o f[k + Size(s, limit, k)]
  <2>1. k \in 1..(L + 1)
    BY <1>1
  <2>2. f[k] = Body(f, k)
    BY <1>7, <2>1
  <2> QED
    BY <1>2, <2>2
<1> QED
  BY <1>6, <1>8 DEF L

(* ps is the text from its k-th character on, cut where p says. *)
Cutting(ps, s, limit, k, p) ==
    /\ Len(ps) \in Nat \ {0}
    /\ p \in [1..(Len(ps) + 1) -> k..(Len(s) + 1)]
    /\ p[1] = k /\ p[Len(ps) + 1] = Len(s) + 1
    /\ \A i \in 1..Len(ps) :
          /\ p[i] <= Len(s) /\ ps[i] = Piece(s, limit, p[i])
          /\ p[i + 1] = p[i] + Size(s, limit, p[i])

LEMMA SplitTextCuts ==
    ASSUME NEW C, NEW s \in Seq(C), s # <<>>, NEW limit \in Nat \ {0}
    PROVE  /\ SplitText(s, limit) \in Seq(Seq(C))
           /\ \E p : Cutting(SplitText(s, limit), s, limit, 1, p)
<1> DEFINE L == Len(s)
<1>1. L \in Nat /\ L # 0
  OBVIOUS
<1>2. PICK f : /\ SplitText(s, limit) = f[1]
               /\ \A k \in 1..L : f[k] = IF k + Size(s, limit, k) = L + 1
                                         THEN <<Piece(s, limit, k)>>
                                         ELSE <<Piece(s, limit, k)>> \o f[k + Size(s, limit, k)]
  BY SplitTextSolves
<1>3. ASSUME NEW k \in 1..L
      PROVE  k + Size(s, limit, k) \in (k + 1)..(L + 1) /\ Piece(s, limit, k) \in Seq(C)
  <2>1. /\ Size(s, limit, k) \in 1..limit /\ k + Size(s, limit, k) <= L + 1
        /\ Piece(s, limit, k) \in Seq(C)
    BY SizeFacts
  <2> QED
    BY <1>1, <2>1
<1> DEFINE Good(k) == f[k] \in Seq(Seq(C)) /\ \E p : Cutting(f[k], s, limit, k, p)
           B == {k \in 1..L : ~Good(k)}
<1>4. ASSUME NEW k \in 1..L, k + Size(s, limit, k) = L + 1 PROVE Good(k)
  <2> DEFINE p == [i \in 1..2 |-> IF i = 1 THEN k ELSE L + 1]
  <2>1. f[k] = <<Piece(s, limit, k)>>
    BY <1>2, <1>4
  <2>2. f[k] \in Seq(Seq(C)) /\ Len(f[k]) = 1 /\ f[k][1] = Piece(s, limit, k)
    BY <1>3, <2>1
  <2>3. p \in [1..2 -> k..(L + 1)] /\ p[1] = k /\ p[2] = L + 1
    BY <1>1
  <2> HIDE DEF p, L
  <2>4. \A i \in 1..Len(f[k]) : i = 1 /\ k <= L
    BY <1>1, <2>2
  <2>5. Cutting(f[k], s, limit, k, p)
    BY <1>4, <2>2, <2>3, <2>4 DEF Cutting, L
  <2> QED
    BY <2>2, <2>5
<1>5. ASSUME NEW k \in 1..L, k + Size(s, limit, k) # L + 1, Good(k + Size(s, limit, k))
      PROVE  Good(k)
  <2> DEFINE j == k + Size(s, limit, k)
             ps == f[j]
  <2>1. PICK q : Cutting(ps, s, limit, j, q)
    BY <1>5
  <2>2. j \in (k + 1)..(L + 1) /\ ps \in Seq(Seq(C)) /\ Piece(s, limit, k) \in Seq(C)
    BY <1>3, <1>5
  <2>3. f[k] = <<Piece(s, limit, k)>> \o ps
    BY <1>2, <1>5
  <2>4. /\ Len(ps) \in Nat \ {0}
        /\ q \in [1..(Len(ps) + 1) -> j..(L + 1)]
        /\ q[1] = j /\ q[Len(ps) + 1] = L + 1
        /\ \A i \in 1..Len(ps) : /\ q[i] <= L /\ ps[i] = Piece(s, limit, q[i])
                                 /\ q[i + 1] = q[i] + Size(s, limit, q[i])
    BY <2>1 DEF Cutting
  <2> HIDE DEF j, ps, L
  <2>5. /\ f[k] \in Seq(Seq(C)) /\ Len(f[k]) = Len(ps) + 1
        /\ f[k][1] = Piece(s, limit, k)
        /\ \A i \in 2..(Len(ps) + 1) : f[k][i] = ps[i - 1]
    <3>1. <<Piece(s, limit, k)>> \in Seq(Seq(C)) /\ Len(<<Piece(s, limit, k)>>) = 1
      BY <2>2
    <3>2. /\ f[k] \in Seq(Seq(C)) /\ Len(f[k]) = 1 + Len(ps)
          /\ \A i \in 1..(1 + Len(ps)) :
                f[k][i] = IF i <= 1 THEN <<Piece(s, limit, k)>>[i] ELSE ps[i - 1]
      BY <2>2, <2>3, <3>1, ConcatProperties
    <3>3. Len(f[k]) = Len(ps) + 1 /\ 1 \in 1..(1 + Len(ps))
      BY <2>4, <3>2
    <3>4. f[k][1] = Piece(s, limit, k)
      BY <3>2, <3>3
    <3>5. ASSUME NEW i \in 2..(Len(ps) + 1) PROVE f[k][i] = ps[i - 1]
      <4>1. i \in 1..(1 + Len(ps)) /\ ~(i <= 1)
        BY <2>4
      <4> QED
        BY <3>2, <4>1
    <3> QED
      BY <3>2, <3>3, <3>4, <3>5
  <2> DEFINE n == Len(ps) + 1
             p == [i \in 1..(n + 1) |-> IF i = 1 THEN k ELSE q[i - 1]]
  <2>6. n \in Nat \ {0} /\ n = Len(f[k])
    BY <2>4, <2>5
  <2>7. p[1] = k /\ \A i \in 2..(n + 1) : i - 1 \in 1..n /\ p[i] = q[i - 1]
    BY <2>4
  <2>8. p \in [1..(n + 1) -> k..(L + 1)]
    <3>1. ASSUME NEW i \in 2..(n + 1) PROVE q[i - 1] \in j..(L + 1)
      <4>1. i - 1 \in 1..(Len(ps) + 1)
        BY <2>4
      <4> QED
        BY <2>4, <4>1
    <3>2. \A i \in 2..(n + 1) : q[i - 1] \in k..(L + 1)
      BY <1>1, <2>2, <3>1
    <3>3. \A i \in 1..(n + 1) : i = 1 \/ i \in 2..(n + 1)
      BY <2>6
    <3>4. k \in k..(L + 1)
      BY <1>1
    <3> QED
      BY <3>2, <3>3, <3>4
  <2> HIDE DEF p
  <2>9. p[n + 1] = L + 1
    <3>1. n + 1 \in 2..(n + 1) /\ n + 1 - 1 = Len(ps) + 1
      BY <2>4
    <3> QED
      BY <2>4, <2>7, <3>1
  <2>10. ASSUME NEW i \in 1..n
         PROVE  /\ p[i] <= L /\ f[k][i] = Piece(s, limit, p[i])
                /\ p[i + 1] = p[i] + Size(s, limit, p[i])
    <3>1. CASE i = 1
      <4>1. p[2] = q[1] /\ 1 + 1 = 2
        BY <2>6, <2>7
      <4> QED
        BY <1>1, <2>4, <2>5, <2>7, <3>1, <4>1 DEF j
    <3>2. CASE i # 1
      <4>1. /\ i \in 2..(n + 1) /\ i + 1 \in 2..(n + 1) /\ i \in 2..(Len(ps) + 1)
            /\ i - 1 \in 1..Len(ps) /\ i + 1 - 1 = (i - 1) + 1
        BY <2>4, <3>2
      <4>2. p[i] = q[i - 1] /\ p[i + 1] = q[(i - 1) + 1] /\ f[k][i] = ps[i - 1]
        BY <2>5, <2>7, <4>1
      <4> QED
        BY <2>4, <4>1, <4>2
    <3> QED
      BY <3>1, <3>2
  <2> HIDE DEF n
  <2>11. Cutting(f[k], s, limit, k, p)
    BY <2>6, <2>7, <2>8, <2>9, <2>10 DEF Cutting, L
  <2> QED
    BY <2>5, <2>11
<1>6. B = {}
  <2> SUFFICES ASSUME B # {} PROVE FALSE
    OBVIOUS
  <2>1. B \subseteq 0..L
    BY <1>1
  <2> HIDE DEF Good
  <2>2. PICK k \in B : \A j \in B : j <= k
    BY <1>1, <2>1, GreatestUpTo
  <2>3. k \in 1..L /\ ~Good(k)
    OBVIOUS
  <2>4. k + Size(s, limit, k) \in (k + 1)..(L + 1) /\ k + Size(s, limit, k) # L + 1
    BY <1>3, <1>4, <2>3
  <2>5. k + Size(s, limit, k) \in 1..L /\ ~(k + Size(s, limit, k) <= k)
    BY <1>1, <2>3, <2>4
  <2>6. Good(k + Size(s, limit, k))
    BY <2>2, <2>5
  <2> QED
    BY <1>5, <2>3, <2>4, <2>6
<1>7. Good(1)
  <2> HIDE DEF Good
  <2>1. 1 \in 1..L
    BY <1>1
  <2> QED
    BY <1>6, <2>1
<1> QED
  BY <1>2, <1>7

-----------------------------------------------------------------------------
(* FlattenSeq is the last value of the one function that its recursion has. *)
LEMMA FlattenIs ==
    ASSUME NEW ps, Len(ps) \in Nat \ {0}, NEW g,
           g = [i \in 1..Len(ps) |-> IF i = 1 THEN ps[i] ELSE g[i - 1] \o ps[i]]
    PROVE  FlattenSeq(ps) = g[Len(ps)]
<1> DEFINE n == Len(ps)
           f == CHOOSE h : h = [i \in 1..n |-> IF i = 1 THEN ps[i] ELSE h[i - 1] \o ps[i]]
           D == {i \in 1..n : f[i] # g[i]}
<1>1. FlattenSeq(ps) = f[n]
  BY DEF FlattenSeq
<1>2. f = [i \in 1..n |-> IF i = 1 THEN ps[i] ELSE f[i - 1] \o ps[i]]
  OBVIOUS
<1> HIDE DEF f
<1>3. ASSUME NEW i \in 1..n
      PROVE  /\ f[i] = IF i = 1 THEN ps[i] ELSE f[i - 1] \o ps[i]
             /\ g[i] = IF i = 1 THEN ps[i] ELSE g[i - 1] \o ps[i]
  BY <1>2
<1>4. ASSUME D # {} PROVE FALSE
  <2>1. D \subseteq Nat
    OBVIOUS
  <2>2. PICK i \in D : \A j \in D : i <= j
    BY <1>4, <2>1, LeastOfNat
  <2>3. i \in 1..n /\ f[i] # g[i]
    OBVIOUS
  <2>4. i # 1
    BY <1>3, <2>3
  <2>5. i - 1 \in 1..n /\ ~(i <= i - 1)
    BY <2>3, <2>4
  <2>6. f[i - 1] = g[i - 1]
    BY <2>2, <2>5
  <2>7. f[i] = f[i - 1] \o ps[i] /\ g[i] = g[i - 1] \o ps[i]
    BY <1>3, <2>3, <2>4
  <2> QED
    BY <2>3, <2>6, <2>7
<1>5. n \in 1..n
  OBVIOUS
<1> QED
  BY <1>1, <1>4, <1>5

LEMMA FlattenOfCutting ==
    ASSUME NEW C, NEW s \in Seq(C), NEW limit \in Nat \ {0}, NEW ps \in Seq(Seq(C)),
           NEW p, Cutting(ps, s, limit, 1, p), NEW n \in 1..Len(ps)
    PROVE  FlattenSeq(SubSeq(ps, 1, n)) = SubSeq(s, 1, p[n + 1] - 1)
<1> DEFINE L == Len(s)
           qs == SubSeq(ps, 1, n)
           g == [i \in 1..n |-> SubSeq(s, 1, p[i + 1] - 1)]
<1>1. L \in Nat /\ Len(ps) \in Nat /\ n \in Nat \ {0}
  OBVIOUS
<1>2. /\ p \in [1..(Len(ps) + 1) -> 1..(L + 1)] /\ p[1] = 1
      /\ \A i \in 1..Len(ps) : /\ p[i] <= L /\ ps[i] = Piece(s, limit, p[i])
                               /\ p[i + 1] = p[i] + Size(s, limit, p[i])
  BY DEF Cutting
<1>3. Len(qs) = n /\ \A i \in 1..n : qs[i] = ps[i]
  <2>1. 1 \in 1..(Len(ps) + 1) /\ n \in (1 - 1)..Len(ps) /\ n - 1 + 1 = n
    BY <1>1
  <2>2. Len(qs) = n - 1 + 1 /\ \A i \in 1..(n - 1 + 1) : qs[i] = ps[1 + i - 1]
    BY <2>1, PartFacts
  <2>3. \A i \in 1..n : 1 + i - 1 = i
    BY <1>1
  <2> HIDE DEF qs
  <2> QED
    BY <2>1, <2>2, <2>3
<1> HIDE DEF qs, L
<1>4. ASSUME NEW i \in 1..n
      PROVE  /\ p[i] \in 1..L /\ p[i + 1] \in (p[i] + 1)..(L + 1)
             /\ qs[i] = SubSeq(s, p[i], p[i + 1] - 1)
  <2>1. i \in 1..Len(ps) /\ i \in 1..(Len(ps) + 1) /\ i + 1 \in 1..(Len(ps) + 1)
    BY <1>1
  <2>2. p[i] \in 1..(L + 1) /\ p[i] <= L
    BY <1>2, <2>1
  <2>3. p[i] \in 1..L
    BY <1>1, <2>2
  <2>4. /\ ps[i] = SubSeq(s, p[i], p[i] + Size(s, limit, p[i]) - 1)
        /\ p[i + 1] = p[i] + Size(s, limit, p[i])
    BY <1>2, <2>1 DEF Piece
  <2>5. Size(s, limit, p[i]) \in 1..limit /\ p[i] + Size(s, limit, p[i]) <= L + 1
    BY <2>3, SizeFacts DEF L
  <2>6. p[i + 1] \in (p[i] + 1)..(L + 1)
    <3>1. p[i + 1] = p[i] + Size(s, limit, p[i])
      BY <2>4
    <3>2. p[i] + Size(s, limit, p[i]) \in (p[i] + 1)..(L + 1)
      <4>1. /\ p[i] \in Int /\ Size(s, limit, p[i]) \in Int
            /\ 1 <= Size(s, limit, p[i])
        BY <2>3, <2>5
      <4> QED
        BY <1>1, <2>5, <4>1
    <3> QED
      BY <3>1, <3>2
  <2>7. ps[i] = SubSeq(s, p[i], p[i + 1] - 1)
    <3>1. p[i + 1] = p[i] + Size(s, limit, p[i])
      BY <2>4
    <3>2. p[i] + Size(s, limit, p[i]) - 1 = p[i + 1] - 1
      BY <2>3, <2>5, <2>6, <3>1
    <3> QED
      BY <2>4, <3>2
  <2> QED
    BY <1>3, <2>3, <2>6, <2>7
<1>5. ASSUME NEW i \in 1..n
      PROVE  g[i] = IF i = 1 THEN qs[i] ELSE g[i - 1] \o qs[i]
  <2>1. g[i] = SubSeq(s, 1, p[i + 1] - 1)
    OBVIOUS
  <2>2. CASE i = 1
    BY <1>2, <1>4, <2>1, <2>2
  <2>3. CASE i # 1
    <3>1. i - 1 \in 1..n /\ (i - 1) + 1 = i
      BY <1>1, <2>3
    <3>2. g[i - 1] = SubSeq(s, 1, p[i] - 1)
      BY <3>1
    <3> DEFINE a == p[i] - 1
               b == p[i + 1] - 1
    <3>3. /\ 1 \in 1..(Len(s) + 1) /\ a \in (1 - 1)..Len(s) /\ b \in a..Len(s)
          /\ a + 1 = p[i]
      <4>1. p[i] \in 1..Len(s) /\ p[i + 1] \in (p[i] + 1)..(Len(s) + 1)
        BY <1>4 DEF L
      <4>2. /\ Len(s) \in Nat /\ p[i] \in Int /\ p[i + 1] \in Int
            /\ 1 <= p[i] /\ p[i] <= Len(s) /\ p[i] < p[i + 1] /\ p[i + 1] <= Len(s) + 1
        BY <4>1
      <4> HIDE DEF g
      <4>3. 1 \in 1..(Len(s) + 1) /\ a \in 0..Len(s) /\ a + 1 = p[i] /\ 1 - 1 = 0
        BY <4>2
      <4>4. b \in a..Len(s)
        BY <4>2
      <4> QED
        BY <4>3, <4>4
    <3> HIDE DEF a, b, g
    <3>4. SubSeq(s, 1, a) \o SubSeq(s, a + 1, b) = SubSeq(s, 1, b)
      BY <3>3, ConcatAdjacentSubSeq
    <3>5. g[i - 1] \o qs[i] = SubSeq(s, 1, b)
      BY <1>4, <3>2, <3>3, <3>4 DEF a, b
    <3> QED
      BY <2>1, <2>3, <3>5 DEF b
  <2> QED
    BY <2>2, <2>3
<1>6. g = [i \in 1..n |-> IF i = 1 THEN qs[i] ELSE g[i - 1] \o qs[i]]
  BY <1>5
<1>7. g[n] = SubSeq(s, 1, p[n + 1] - 1)
  <2>1. n \in 1..n
    BY <1>1
  <2> QED
    BY <2>1
<1> HIDE DEF g
<1> QED
  BY <1>1, <1>3, <1>6, <1>7, FlattenIs DEF qs

(* What ChunksRebuild says of the parts, for every text and limit. *)
LEMMA SplitRebuilds ==
    ASSUME NEW C, NEW s \in Seq(C), NEW limit \in Nat, NEW split \in BOOLEAN,
           NEW ps, ps = SplitMessage(s, limit, split)
    PROVE  LET Start(i) == Len(FlattenSeq(SubSeq(ps, 1, i - 1))) + 1
           IN  /\ FlattenSeq(ps) = s
               /\ limit > 0 /\ split /\ s # <<>> =>
                     /\ \A i \in DOMAIN ps : Len(ps[i]) \in 1..limit
                     /\ \A i \in 1..(Len(ps) - 1) :
                           CutAsLateAsPossible(s, ps[i], Start(i), limit)
<1> DEFINE Start(i) == Len(FlattenSeq(SubSeq(ps, 1, i - 1))) + 1
<1>1. Len(s) \in Nat
  OBVIOUS
<1>2. CASE limit = 0 \/ Len(s) <= limit \/ ~split
  <2>1. ps = <<s>>
    BY <1>2 DEF SplitMessage
  <2>2. Len(ps) = 1 /\ ps[1] = s /\ DOMAIN ps = 1..1
    BY <2>1
  <2>3. \A i \in 1..1 : i = 1
    OBVIOUS
  <2> DEFINE n == Len(ps)
             g == [i \in 1..n |-> s]
  <2>4. g = [i \in 1..n |-> IF i = 1 THEN ps[i] ELSE g[i - 1] \o ps[i]]
    BY <2>2, <2>3
  <2>5. g[n] = s /\ n \in Nat \ {0}
    BY <2>2
  <2> HIDE DEF g
  <2>6. FlattenSeq(ps) = s
    BY <2>4, <2>5, FlattenIs
  <2>7. ASSUME limit > 0, split, s # <<>>
        PROVE  /\ \A i \in DOMAIN ps : Len(ps[i]) \in 1..limit
               /\ \A i \in 1..(Len(ps) - 1) : FALSE
    <3>1. Len(s) \in 1..limit
      BY <1>1, <1>2, <2>7
    <3> QED
      BY <2>2, <2>3, <3>1
  <2> QED
    BY <2>6, <2>7
<1>3. CASE ~(limit = 0 \/ Len(s) <= limit \/ ~split)
  <2>1. limit \in Nat \ {0} /\ s # <<>> /\ ps = SplitText(s, limit)
    BY <1>1, <1>3 DEF SplitMessage
  <2>2. ps \in Seq(Seq(C))
    BY <2>1, SplitTextCuts
  <2>3. PICK p : Cutting(ps, s, limit, 1, p)
    BY <2>1, SplitTextCuts
  <2>4. /\ Len(ps) \in Nat \ {0} /\ DOMAIN ps = 1..Len(ps)
        /\ p \in [1..(Len(ps) + 1) -> 1..(Len(s) + 1)]
        /\ p[1] = 1 /\ p[Len(ps) + 1] = Len(s) + 1
        /\ \A i \in 1..Len(ps) : /\ p[i] <= Len(s) /\ ps[i] = Piece(s, limit, p[i])
                                 /\ p[i + 1] = p[i] + Size(s, limit, p[i])
    BY <2>2, <2>3 DEF Cutting
  <2>5. FlattenSeq(ps) = s
    <3>1. Len(ps) \in 1..Len(ps)
      BY <2>4
    <3>2. FlattenSeq(SubSeq(ps, 1, Len(ps))) = SubSeq(s, 1, p[Len(ps) + 1] - 1)
      BY <2>1, <2>2, <2>3, <3>1, FlattenOfCutting
    <3>3. p[Len(ps) + 1] - 1 = Len(s)
      BY <1>1, <2>4
    <3>4. SubSeq(ps, 1, Len(ps)) = ps /\ SubSeq(s, 1, Len(s)) = s
      BY <2>2, SubSeqFull
    <3> QED
      BY <3>2, <3>3, <3>4
  <2>6. ASSUME NEW i \in 1..Len(ps)
        PROVE  p[i] \in 1..Len(s) /\ p[i] + Size(s, limit, p[i]) = p[i + 1]
    <3>1. i \in 1..(Len(ps) + 1)
      BY <2>4
    <3>2. p[i] \in 1..(Len(s) + 1) /\ p[i] <= Len(s)
      BY <2>4, <3>1
    <3> QED
      BY <1>1, <2>4, <3>2
  <2>7. ASSUME NEW i \in DOMAIN ps PROVE Len(ps[i]) \in 1..limit
    <3>1. i \in 1..Len(ps) /\ p[i] \in 1..Len(s) /\ ps[i] = Piece(s, limit, p[i])
      BY <2>4, <2>6
    <3>2. /\ Size(s, limit, p[i]) \in 1..limit
          /\ Len(Piece(s, limit, p[i])) = Size(s, limit, p[i])
      BY <2>1, <3>1, SizeFacts
    <3> QED
      BY <3>1, <3>2
  <2>8. ASSUME NEW i \in 1..Len(ps) PROVE Start(i) = p[i]
    <3>1. CASE i = 1
      <4>1. SubSeq(ps, 1, i - 1) = <<>>
        BY <2>2, <3>1, SubSeqEmpty
      <4>2. FlattenSeq(<<>>) = <<>>
        BY DEF FlattenSeq
      <4>3. Start(i) = Len(<<>>) + 1
        BY <4>1, <4>2
      <4> QED
        BY <2>4, <3>1, <4>3
    <3>2. CASE i # 1
      <4> DEFINE n == i - 1
                 b == p[i] - 1
      <4>1. n \in 1..Len(ps) /\ n + 1 = i
        BY <2>4, <3>2
      <4>2. 1 \in 1..(Len(s) + 1) /\ b \in (1 - 1)..Len(s) /\ b - 1 + 1 + 1 = p[i]
        BY <1>1, <2>6
      <4> HIDE DEF n
      <4>3. FlattenSeq(SubSeq(ps, 1, n)) = SubSeq(s, 1, p[n + 1] - 1)
        BY <2>1, <2>2, <2>3, <4>1, FlattenOfCutting
      <4>4. FlattenSeq(SubSeq(ps, 1, n)) = SubSeq(s, 1, b)
        BY <4>1, <4>3
      <4> HIDE DEF b
      <4>5. Len(SubSeq(s, 1, b)) = b - 1 + 1
        BY <4>2, PartFacts
      <4> QED
        BY <4>2, <4>4, <4>5 DEF n
    <3> QED
      BY <3>1, <3>2
  <2> HIDE DEF Start
  <2>9. ASSUME NEW i \in 1..(Len(ps) - 1)
        PROVE  CutAsLateAsPossible(s, ps[i], Start(i), limit)
    <3>1. i \in 1..Len(ps) /\ i + 1 \in 1..Len(ps)
      BY <2>4
    <3>2. p[i] \in 1..Len(s) /\ p[i] + Size(s, limit, p[i]) <= Len(s)
      BY <1>1, <2>6, <3>1
    <3>3. CutAsLateAsPossible(s, Piece(s, limit, p[i]), p[i], limit)
      BY <2>1, <3>2, SizeFacts
    <3> QED
      BY <2>4, <2>8, <3>1, <3>3
  <2> QED
    BY <2>5, <2>7, <2>9 DEF Start
<1> QED
  BY <1>2, <1>3

-----------------------------------------------------------------------------
Rejects(m, s) ==
    \E i \in DOMAIN FilterOrder : FilterOrder[i] \in s.on /\ Matches(FilterOrder[i], m, s)

LEMMA DecisionFacts ==
    ASSUME NEW m, NEW s
    PROVE  /\ Accepts(m, s) <=> (~s.enabled \/ ~Rejects(m, s))
           /\ StaticDecision(m, s) # "duplicate"
<1> DEFINE rejecting == {i \in DOMAIN FilterOrder :
                            FilterOrder[i] \in s.on /\ Matches(FilterOrder[i], m, s)}
           first == CHOOSE i \in rejecting : \A j \in rejecting : i <= j
<1>1. StaticDecision(m, s) = IF ~s.enabled THEN "filters_disabled"
                             ELSE IF rejecting = {} THEN "accepted" ELSE FilterOrder[first]
  BY DEF StaticDecision
<1>2. rejecting = {} <=> ~Rejects(m, s)
  BY DEF Rejects
<1>3. DOMAIN FilterOrder = 1..13
  BY DEF FilterOrder
<1>4. \A i \in 1..13 : FilterOrder[i] \notin {"filters_disabled", "accepted", "duplicate"}
  BY DEF FilterOrder
<1>5. rejecting # {} => first \in 1..13
  <2>1. rejecting \subseteq 1..13 /\ rejecting \subseteq Nat
    BY <1>3
  <2> HIDE DEF rejecting
  <2>2. rejecting # {} => \E i \in rejecting : \A j \in rejecting : i <= j
    BY <2>1, LeastOfNat
  <2> QED
    BY <2>1, <2>2
<1> HIDE DEF rejecting, first
<1> QED
  BY <1>1, <1>2, <1>4, <1>5 DEF Accepts

(* Which settings are at least as strict. *)
AsStrict(t, s) ==
    /\ s.enabled => t.enabled
    /\ s.on \subseteq t.on
    /\ s.bots \subseteq t.bots /\ s.blacklist \subseteq t.blacklist
    /\ t.whitelist \subseteq s.whitelist

LEMMA MatchesAsStrict ==
    ASSUME NEW m, NEW s, NEW t, AsStrict(t, s), NEW rule, Matches(rule, m, s)
    PROVE  Matches(rule, m, t)
  BY DEF AsStrict, Matches

LEMMA AcceptsAsStrict ==
    ASSUME NEW m, NEW s, NEW t, AsStrict(t, s), Accepts(m, t)
    PROVE  Accepts(m, s)
<1>1. SUFFICES ASSUME s.enabled, Rejects(m, s) PROVE FALSE
  BY DecisionFacts
<1>2. t.enabled /\ ~Rejects(m, t)
  BY <1>1, DecisionFacts DEF AsStrict
<1>3. PICK i \in DOMAIN FilterOrder : FilterOrder[i] \in s.on /\ Matches(FilterOrder[i], m, s)
  BY <1>1 DEF Rejects
<1>4. FilterOrder[i] \in t.on /\ Matches(FilterOrder[i], m, t)
  BY <1>3, MatchesAsStrict DEF AsStrict
<1> QED
  BY <1>2, <1>4 DEF Rejects

LEMMA StricterIsAsStrict ==
    ASSUME NEW s \in Settings, NEW name, NEW t \in Stricter(s, name)
    PROVE  AsStrict(t, s)
<1>1. CASE \E rule \in Rules : t = [s EXCEPT !.on = @ \cup {rule}]
  BY <1>1 DEF AsStrict, Settings
<1>2. CASE t = [s EXCEPT !.enabled = TRUE]
  BY <1>2 DEF AsStrict, Settings
<1>3. CASE t = [s EXCEPT !.bots = @ \cup {name}]
  BY <1>3 DEF AsStrict, Settings
<1>4. CASE t = [s EXCEPT !.blacklist = @ \cup {name}]
  BY <1>4 DEF AsStrict, Settings
<1>5. CASE t = [s EXCEPT !.whitelist = @ \ {name}]
  BY <1>5 DEF AsStrict, Settings
<1> QED
  BY <1>1, <1>2, <1>3, <1>4, <1>5 DEF Stricter

LEMMA SameFingerprint ==
    ASSUME NEW m, NEW n, FingerprintFor(m) = FingerprintFor(n)
    PROVE  SameEvent(m, n)
<1>1. ASSUME NEW a, NEW b, NEW c, NEW d, NEW e
      PROVE  /\ <<"explicit", a>> # <<"event", b>>
             /\ <<"explicit", a>> # <<"content", c, d, e>>
             /\ <<"event", b>> # <<"content", c, d, e>>
  <2>1. /\ <<"explicit", a>>[1] = "explicit" /\ <<"event", b>>[1] = "event"
        /\ <<"content", c, d, e>>[1] = "content"
    OBVIOUS
  <2> QED
    BY <2>1
<1>2. CASE Given(m.fingerprint) \/ Given(n.fingerprint)
  <2>1. m.fingerprint = n.fingerprint
    BY <1>1, <1>2 DEF FingerprintFor
  <2> QED
    BY <1>2, <2>1 DEF SameEvent
<1>3. CASE /\ ~Given(m.fingerprint) /\ ~Given(n.fingerprint)
           /\ Given(m.event_id) \/ Given(n.event_id)
  <2>1. m.event_id = n.event_id
    BY <1>1, <1>3 DEF FingerprintFor
  <2> QED
    BY <1>3, <2>1 DEF SameEvent
<1>4. CASE ~(\/ Given(m.fingerprint) \/ Given(n.fingerprint)
             \/ Given(m.event_id) \/ Given(n.event_id))
  BY <1>4 DEF FingerprintFor, SameEvent
<1> QED
  BY <1>2, <1>3, <1>4

LEMMA ExtractedText ==
    ASSUME NEW frame, {frame.top.text, frame.inner.text} \subseteq {Missing} \cup MessageText,
           NEW p, NEW found \in Extract(frame, p)
    PROVE  found.text \in MessageText
<1>1. CASE frame.transport = "http"
  <2>1. found \in EventMessage(frame)
    BY <1>1 DEF Extract
  <2>2. found.text \in {EventText(frame)} \ {Missing}
    BY <2>1 DEF EventMessage
  <2>3. EventText(frame) \in {frame.top.text, frame.inner.text}
    BY DEF EventText
  <2> QED
    BY <2>2, <2>3
<1>2. CASE frame.transport # "http"
  <2>1. found.text = Or(PathValue(frame, "text"), EmptyText)
    <3>1. found \in Parse(frame, p)
      BY <1>2 DEF Extract
    <3>2. found = [sender |-> Or(PathValue(frame, "sender"), ""),
                   text |-> Or(PathValue(frame, "text"), EmptyText)]
      BY <3>1 DEF Parse
    <3> QED
      BY <3>2
  <2>2. PathValue(frame, "text") \in {Missing} \cup MessageText
    BY DEF PathValue, Or
  <2>3. EmptyText \in MessageText
    BY DEF EmptyText, MessageText
  <2> QED
    BY <2>1, <2>2, <2>3 DEF Or
<1> QED
  BY <1>1, <1>2

-----------------------------------------------------------------------------
(* A key in the store, or in its file, is that of a message recorded. *)
KeysRecorded == \A f \in seen \cup stable : \E m \in recorded : FingerprintFor(m) = f

DuplicateRecorded ==
    verdict = "duplicate" => \E m \in recorded : FingerprintFor(m) = FingerprintFor(message)

TextUnderWay == pc \in {"check", "sending"} => message.text \in MessageText

PartsUnderWay ==
    pc = "sending" =>
        parts = SplitMessage(message.text.chars, LimitInForce(config), SplitInForce(config))

IndInv ==
    /\ scenario \in DOMAIN Scenarios
    /\ config \in Configuration
    /\ KeysRecorded
    /\ DuplicateRecorded
    /\ TextUnderWay
    /\ PartsUnderWay

LEMMA InitEstablishes == Init => IndInv
<1> SUFFICES ASSUME Init PROVE IndInv
  OBVIOUS
<1>1. scenario \in DOMAIN Scenarios /\ config \in Configuration
  BY ScenariosAssumption DEF Init
<1> QED
  BY <1>1 DEF Init, IndInv, KeysRecorded, DuplicateRecorded, TextUnderWay, PartsUnderWay

LEMMA StepPreserves == IndInv /\ [Next]_vars => IndInv'
<1> SUFFICES ASSUME IndInv, [Next]_vars PROVE IndInv'
  OBVIOUS
<1>1. /\ scenario \in DOMAIN Scenarios /\ config \in Configuration
      /\ KeysRecorded /\ DuplicateRecorded /\ TextUnderWay /\ PartsUnderWay
  BY DEF IndInv
<1>2. ASSUME NEW frame \in Scenarios[scenario].frames, Arrive(frame) PROVE IndInv'
  <2>1. {frame.top.text, frame.inner.text} \subseteq {Missing} \cup MessageText
    BY <1>1, ScenariosAssumption
  <2>2. PICK found \in Extract(frame, config.parser) :
           message' = CoerceMessage(found.sender, found.text, frame)
    BY <1>2 DEF Arrive
  <2>3. message'.text \in MessageText
    <3>1. found.text \in MessageText
      BY <2>1, ExtractedText
    <3>2. message'.text = found.text
      BY <2>2 DEF CoerceMessage
    <3> QED
      BY <3>1, <3>2
  <2>4. /\ pc' = "check" /\ verdict' = "none"
        /\ UNCHANGED <<scenario, config, seen, stable, recorded>>
    BY <1>2 DEF Arrive, storeVars
  <2> QED
    BY <1>1, <2>3, <2>4
    DEF IndInv, KeysRecorded, DuplicateRecorded, TextUnderWay, PartsUnderWay
<1>3. ASSUME NEW frame \in Scenarios[scenario].frames, Ignore(frame) PROVE IndInv'
  BY <1>1, <1>3
  DEF Ignore, storeVars, IndInv, KeysRecorded, DuplicateRecorded, TextUnderWay, PartsUnderWay,
      LimitInForce, SplitInForce
<1>4. ASSUME Reject PROVE IndInv'
  <2>1. verdict' # "duplicate"
    BY <1>4, DecisionFacts DEF Reject, Answer
  <2>2. pc' = "idle" /\ UNCHANGED <<scenario, config, seen, stable, recorded>>
    BY <1>4 DEF Reject, Answer, storeVars
  <2> QED
    BY <1>1, <2>1, <2>2
    DEF IndInv, KeysRecorded, DuplicateRecorded, TextUnderWay, PartsUnderWay
<1>5. ASSUME NEW saved \in BOOLEAN, Duplicate(saved) PROVE IndInv'
  <2>1. /\ FingerprintFor(message) \in seen
        /\ seen' \subseteq seen /\ stable' \subseteq seen \cup stable
    BY <1>5 DEF Duplicate, Store!Recall, Store!Save
  <2>2. pc' = "idle" /\ UNCHANGED <<scenario, config, message, recorded>>
    BY <1>5 DEF Duplicate, Answer
  <2>3. \E m \in recorded : FingerprintFor(m) = FingerprintFor(message)
    BY <1>1, <2>1 DEF KeysRecorded
  <2> QED
    BY <1>1, <2>1, <2>2, <2>3
    DEF IndInv, KeysRecorded, DuplicateRecorded, TextUnderWay, PartsUnderWay
<1>6. ASSUME NEW saved \in BOOLEAN, Accept(saved) PROVE IndInv'
  <2>1. /\ seen' \subseteq seen \cup {FingerprintFor(message)}
        /\ stable' \subseteq seen \cup stable \cup {FingerprintFor(message)}
    BY <1>6 DEF Accept, Store!Remember, Store!Save
  <2>2. /\ UNCHANGED <<scenario, config, message>>
        /\ recorded' = recorded \cup {message}
        /\ verdict' # "duplicate" /\ pc = "check"
    BY <1>6, DecisionFacts DEF Accept, Answer
  <2>3. KeysRecorded'
    BY <1>1, <2>1, <2>2 DEF KeysRecorded
  <2>4. pc' = "sending"
        => parts' = SplitMessage(message.text.chars, LimitInForce(config), SplitInForce(config))
    BY <1>6 DEF Accept, Answer
  <2> QED
    BY <1>1, <2>2, <2>3, <2>4
    DEF IndInv, DuplicateRecorded, TextUnderWay, PartsUnderWay, LimitInForce, SplitInForce
<1>7. ASSUME NEW saved \in BOOLEAN, NEW cfg \in Scenarios[scenario].restarts,
             Restart(cfg, saved)
      PROVE  IndInv'
  <2>1. config' \in Configuration
    BY <1>1, <1>7, ScenariosAssumption DEF Restart
  <2>2. seen' \subseteq stable /\ stable' \subseteq stable
    BY <1>7 DEF Restart, Store!Load, Store!Save
  <2>3. /\ pc' \in {"idle", "down"} /\ verdict' = "none"
        /\ UNCHANGED <<scenario, recorded>>
    BY <1>7 DEF Restart
  <2> QED
    BY <1>1, <2>1, <2>2, <2>3
    DEF IndInv, KeysRecorded, DuplicateRecorded, TextUnderWay, PartsUnderWay
<1>8. ASSUME Handled PROVE IndInv'
  BY <1>1, <1>8
  DEF Handled, storeVars, IndInv, KeysRecorded, DuplicateRecorded, TextUnderWay, PartsUnderWay
<1>9. ASSUME UNCHANGED vars PROVE IndInv'
  BY <1>1, <1>9
  DEF vars, storeVars, IndInv, KeysRecorded, DuplicateRecorded, TextUnderWay, PartsUnderWay,
      LimitInForce, SplitInForce
<1> QED
  BY <1>2, <1>3, <1>4, <1>5, <1>6, <1>7, <1>8, <1>9 DEF Next

LEMMA InvariantHolds == Spec => []IndInv
  BY InitEstablishes, StepPreserves, PTL DEF Spec

-----------------------------------------------------------------------------
(* Whatever the settings and the message: a rule that is switched on, the    *)
(* chain enabled, or a name listed lets nothing through that was rejected    *)
(* before (filter_chain.py:211-213, 292-361).                                *)
THEOREM RulesOnlyTighten == Spec => []Tightening
<1>1. IndInv => Tightening
  <2> SUFFICES ASSUME IndInv, NEW s \in Stricter(config.filter, message.sender),
                      Accepts(message, s)
               PROVE  Accepts(message, config.filter)
    BY DEF Tightening
  <2>1. config.filter \in Settings
    BY DEF IndInv, Configuration
  <2> QED
    BY <2>1, StricterIsAsStrict, AcceptsAsStrict
<1> QED
  BY <1>1, InvariantHolds, PTL

(* Over any number of restarts with other settings, and saves that fail: a   *)
(* message is called a duplicate only if the same event had passed the rules *)
(* before (filter_chain.py:142-170, 386-403).                                *)
THEOREM DuplicatesHaveOrigin == Spec => []DuplicateHasOrigin
<1>1. IndInv => DuplicateHasOrigin
  BY SameFingerprint DEF IndInv, DuplicateRecorded, DuplicateHasOrigin
<1> QED
  BY <1>1, InvariantHolds, PTL

(* For every text, limit and setting: the chunks are the text again, each is *)
(* within the limit and ends as late as it may (formatter.py:107-143).       *)
THEOREM PartsRebuildText == Spec => []ChunksRebuild
<1>1. IndInv => ChunksRebuild
  <2> SUFFICES ASSUME IndInv, pc = "sending" PROVE ChunksRebuild
    BY DEF ChunksRebuild
  <2> DEFINE s == message.text.chars
             limit == LimitInForce(config)
             split == SplitInForce(config)
  <2>1. s \in Seq(STRING)
    BY DEF IndInv, TextUnderWay, MessageText
  <2>2. limit \in Nat /\ split \in BOOLEAN
    BY LimitAssumption DEF IndInv, Configuration, LimitInForce, SplitInForce
  <2>3. parts = SplitMessage(s, limit, split)
    BY DEF IndInv, PartsUnderWay
  <2> HIDE DEF s, limit, split
  <2>4. LET Start(i) == Len(FlattenSeq(SubSeq(parts, 1, i - 1))) + 1
        IN  /\ FlattenSeq(parts) = s
            /\ limit > 0 /\ split /\ s # <<>> =>
                  /\ \A i \in DOMAIN parts : Len(parts[i]) \in 1..limit
                  /\ \A i \in 1..(Len(parts) - 1) :
                        CutAsLateAsPossible(s, parts[i], Start(i), limit)
    BY <2>1, <2>2, <2>3, SplitRebuilds
  <2> QED
    BY <2>4 DEF ChunksRebuild, s, limit, split
<1> QED
  BY <1>1, InvariantHolds, PTL
===============================================================================
