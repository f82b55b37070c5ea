--------------------------- MODULE TextToolsProofs ---------------------------
(***************************************************************************)
(* Proofs about Head, Tail, Strings, Hex and SnapDiff: for files of any    *)
(* length and buffers of any size, however reads cut the file into pieces, *)
(* what has been written is right, and return code 0 means all of it.      *)
(***************************************************************************)
EXTENDS TextTools, FiniteSetTheorems, FunctionTheorems, SequenceTheorems, WellFoundedInduction, TLAPS

\* The limits are numbers.
LEMMA Constants ==
  /\ ReadSize \in Nat /\ ReadSize >= 1 /\ StringBytes \in Nat /\ StringBytes >= 1
  /\ SeekSpace \in Nat /\ SeekSpace >= 1
  /\ MaxFile \in Nat /\ MaxNumber \in Nat /\ MaxGrow \in Nat
BY TextAssumption DEF TextAssumption

-----------------------------------------------------------------------------
(***************************************************************************)
(* Numbers and sequences.                                                  *)
(***************************************************************************)
\* A set of naturals that is not empty has a smallest element, which Min is.
LEMMA LeastNat ==
  ASSUME NEW S, S \subseteq Nat, S # {}
  PROVE  Min(S) \in S /\ \A n \in S : Min(S) <= n
<1>1. PICK m \in S : \A n \in S : ~(<<n, m>> \in OpToRel(<, Nat))
  BY NatLessThanWellFounded, WFMin
<1>2. \A n \in S : ~(n < m)
  BY <1>1 DEF OpToRel
<1>3. \A n \in S : m <= n
  BY <1>2
<1>4. QED BY <1>3 DEF Min

\* The smaller and the larger of two numbers.
LEMMA MinMaxOfTwo ==
  ASSUME NEW a \in Int, NEW b \in Int
  PROVE  /\ Min({a, b}) \in Int /\ Max({a, b}) \in Int
         /\ a <= b => Min({a, b}) = a /\ Max({a, b}) = b
         /\ b <= a => Min({a, b}) = b /\ Max({a, b}) = a
<1>1. \E x \in {a, b} : \A y \in {a, b} : x <= y
  BY a <= b \/ b <= a
<1>2. Min({a, b}) \in {a, b} /\ \A n \in {a, b} : Min({a, b}) <= n
  BY <1>1 DEF Min
<1>3. (Min({a, b}) = a \/ Min({a, b}) = b) /\ Min({a, b}) <= a /\ Min({a, b}) <= b
  BY <1>2
<1>4. \E x \in {a, b} : \A y \in {a, b} : x >= y
  BY a <= b \/ b <= a
<1>5. Max({a, b}) \in {a, b} /\ \A n \in {a, b} : Max({a, b}) >= n
  BY <1>4 DEF Max
<1>6. (Max({a, b}) = a \/ Max({a, b}) = b) /\ Max({a, b}) >= a /\ Max({a, b}) >= b
  BY <1>5
<1> QED BY <1>3, <1>6

\* A slice of a sequence.
LEMMA SliceIs ==
  ASSUME NEW X, NEW s \in Seq(X), NEW a \in Nat, NEW b \in Nat, a <= b, b <= Len(s)
  PROVE  /\ SubSeq(s, a + 1, b) \in Seq(X) /\ Len(SubSeq(s, a + 1, b)) = b - a
         /\ \A i \in 1..(b - a) : SubSeq(s, a + 1, b)[i] = s[a + i]
<1>1. \A i \in (a + 1)..b : s[i] \in X
  <2>1. Len(s) \in Nat /\ \A i \in 1..Len(s) : s[i] \in X
    OBVIOUS
  <2>2. \A i \in (a + 1)..b : i \in 1..Len(s)
    BY <2>1
  <2> QED BY <2>1, <2>2
<1>2. a + 1 \in Int /\ b \in Int
  OBVIOUS
<1>3. /\ SubSeq(s, a + 1, b) \in Seq(X)
      /\ Len(SubSeq(s, a + 1, b)) = IF a + 1 <= b THEN b - (a + 1) + 1 ELSE 0
      /\ \A i \in 1..(b - (a + 1) + 1) : SubSeq(s, a + 1, b)[i] = s[a + 1 + i - 1]
  BY ONLY <1>1, <1>2, SubSeqProperties
<1>4. Len(SubSeq(s, a + 1, b)) = b - a
  BY <1>3
<1>5. b - (a + 1) + 1 = b - a /\ \A i \in 1..(b - a) : a + 1 + i - 1 = a + i
  OBVIOUS
<1>6. \A i \in 1..(b - a) : SubSeq(s, a + 1, b)[i] = s[a + i]
  BY <1>3, <1>5
<1> QED BY <1>3, <1>4, <1>6

\* Two adjacent slices.
LEMMA SlicesJoin ==
  ASSUME NEW X, NEW s \in Seq(X), NEW a \in Nat, NEW b \in Nat, NEW c \in Nat,
         a <= b, b <= c, c <= Len(s)
  PROVE  SubSeq(s, a + 1, b) \o SubSeq(s, b + 1, c) = SubSeq(s, a + 1, c)
<1>1. a + 1 \in 1..(Len(s) + 1) /\ b \in (a + 1 - 1)..Len(s) /\ c \in b..Len(s)
  BY LenProperties
<1> QED BY <1>1, ConcatAdjacentSubSeq

\* What a prefix is, element by element.
LEMMA PrefixIs ==
  ASSUME NEW X, NEW s \in Seq(X), NEW t \in Seq(X)
  PROVE  IsPrefix(s, t) <=> Len(s) <= Len(t) /\ \A i \in 1..Len(s) : s[i] = t[i]
<1>0. Len(s) \in Nat /\ Len(t) \in Nat /\ 0 \in Nat /\ 0 + 1 = 1
  OBVIOUS
<1>1. SubSeq(s, 1, Len(s)) = s
  BY SubSeqFull
<1>2. ASSUME Len(s) <= Len(t)
      PROVE  /\ SubSeq(t, 1, Len(s)) \in Seq(X) /\ Len(SubSeq(t, 1, Len(s))) = Len(s)
             /\ \A i \in 1..Len(s) : SubSeq(t, 1, Len(s))[i] = t[i]
  <2>1. /\ SubSeq(t, 0 + 1, Len(s)) \in Seq(X) /\ Len(SubSeq(t, 0 + 1, Len(s))) = Len(s) - 0
        /\ \A i \in 1..(Len(s) - 0) : SubSeq(t, 0 + 1, Len(s))[i] = t[0 + i]
    BY <1>0, <1>2, SliceIs
  <2>2. Len(s) - 0 = Len(s) /\ \A i \in 1..Len(s) : 0 + i = i
    BY <1>0
  <2> QED BY <1>0, <2>1, <2>2
<1>3. ASSUME IsPrefix(s, t) PROVE Len(s) <= Len(t) /\ \A i \in 1..Len(s) : s[i] = t[i]
  BY <1>1, <1>2, <1>3 DEF IsPrefix
<1>4. ASSUME Len(s) <= Len(t), \A i \in 1..Len(s) : s[i] = t[i] PROVE IsPrefix(s, t)
  <2>1. SubSeq(t, 1, Len(s)) = s
    BY <1>2, <1>4, SeqEqual
  <2> QED BY <1>1, <1>4, <2>1 DEF IsPrefix
<1> QED BY <1>3, <1>4

\* A part of what extends a prefix.
LEMMA PrefixOfPart ==
  ASSUME NEW X, NEW s \in Seq(X), NEW t \in Seq(X), NEW w \in Seq(X),
         IsPrefix(s \o t, w), NEW k \in 0..Len(t)
  PROVE  /\ IsPrefix(s \o SubSeq(t, 1, k), w)
         /\ s \o SubSeq(t, 1, k) \in Seq(X)
<1> DEFINE p == SubSeq(t, 1, k)
<1>0. Len(s) \in Nat /\ Len(t) \in Nat /\ Len(w) \in Nat /\ k \in Nat /\ k <= Len(t)
  BY LenProperties
<1>1. p \in Seq(X) /\ Len(p) = k /\ \A i \in 1..k : p[i] = t[i]
  <2>1. /\ SubSeq(t, 0 + 1, k) \in Seq(X) /\ Len(SubSeq(t, 0 + 1, k)) = k - 0
        /\ \A i \in 1..(k - 0) : SubSeq(t, 0 + 1, k)[i] = t[0 + i]
    BY <1>0, SliceIs
  <2>2. k - 0 = k /\ 0 + 1 = 1 /\ \A i \in 1..k : 0 + i = i
    BY <1>0
  <2> QED BY <2>1, <2>2
<1> HIDE DEF p
<1>2. /\ s \o t \in Seq(X) /\ Len(s \o t) = Len(s) + Len(t)
      /\ \A i \in 1..(Len(s) + Len(t)) : (s \o t)[i] = IF i <= Len(s) THEN s[i] ELSE t[i - Len(s)]
  BY ConcatProperties
<1>3. /\ s \o p \in Seq(X) /\ Len(s \o p) = Len(s) + Len(p)
      /\ \A i \in 1..(Len(s) + Len(p)) : (s \o p)[i] = IF i <= Len(s) THEN s[i] ELSE p[i - Len(s)]
  BY <1>1, ConcatProperties
<1>4. Len(s \o t) <= Len(w) /\ \A i \in 1..Len(s \o t) : (s \o t)[i] = w[i]
  BY <1>2, PrefixIs
<1>5. ASSUME NEW i \in 1..(Len(s) + k) PROVE (s \o p)[i] = w[i]
  <2>1. i \in 1..(Len(s) + Len(t)) /\ (~(i <= Len(s)) => i - Len(s) \in 1..k)
    BY <1>0
  <2>2. (s \o p)[i] = (s \o t)[i]
    BY <1>0, <1>1, <1>2, <1>3, <2>1
  <2> QED BY <1>2, <1>4, <2>1, <2>2
<1>6. Len(s) + k <= Len(w)
  BY <1>0, <1>2, <1>4
<1>7. IsPrefix(s \o p, w)
  BY <1>1, <1>3, <1>5, <1>6, PrefixIs
<1> QED BY <1>3, <1>7 DEF p

-----------------------------------------------------------------------------
(***************************************************************************)
(* Line ends.                                                              *)
(***************************************************************************)
\* How many of the first k characters of s are line ends.
Count(s, k) == Cardinality({j \in LineEnds(s) : j <= k})

LEMMA CountIs ==
  ASSUME NEW s \in Seq(Characters)
  PROVE  /\ Count(s, 0) = 0 /\ Count(s, Len(s)) = Cardinality(LineEnds(s))
         /\ \A k \in Nat : Count(s, k) \in Nat
         /\ \A k \in Nat : k < Len(s) =>
              /\ s[k + 1] = "nl" => Count(s, k + 1) = Count(s, k) + 1
              /\ s[k + 1] # "nl" => Count(s, k + 1) = Count(s, k)
         /\ LineEnds(s) \subseteq 1..Len(s)
<1> DEFINE E == LineEnds(s)
           F(k) == {j \in E : j <= k}
<1>1. Len(s) \in Nat /\ E \subseteq 1..Len(s) /\ \A k \in 1..Len(s) : k \in E <=> s[k] = "nl"
  BY DEF LineEnds
<1> HIDE DEF E
<1>2. IsFiniteSet(E)
  <2>1. IsFiniteSet(1..Len(s))
    BY <1>1, FS_Interval
  <2> QED BY <1>1, <2>1, FS_Subset
<1>3. \A k \in Nat : IsFiniteSet(F(k)) /\ Cardinality(F(k)) \in Nat
  <2> SUFFICES ASSUME NEW k \in Nat PROVE IsFiniteSet(F(k)) /\ Cardinality(F(k)) \in Nat
    OBVIOUS
  <2>1. F(k) \subseteq E
    OBVIOUS
  <2>2. IsFiniteSet(F(k))
    BY <1>2, <2>1, FS_Subset
  <2> QED BY <2>2, FS_CardinalityType
<1>E. \A j \in E : j \in Nat /\ j >= 1 /\ j <= Len(s)
  BY <1>1
<1>4. F(0) = {}
  BY <1>E
<1>5. F(Len(s)) = E
  BY <1>E
<1>6. ASSUME NEW k \in Nat, k < Len(s)
      PROVE  /\ s[k + 1] = "nl" => Cardinality(F(k + 1)) = Cardinality(F(k)) + 1
             /\ s[k + 1] # "nl" => F(k + 1) = F(k)
  <2>1. k + 1 \in 1..Len(s)
    BY <1>1, <1>6
  <2>2. ASSUME s[k + 1] = "nl" PROVE Cardinality(F(k + 1)) = Cardinality(F(k)) + 1
    <3>1. k + 1 \in E
      BY <1>1, <2>1, <2>2
    <3>2. \A j \in E : j <= k + 1 <=> j <= k \/ j = k + 1
      BY <1>E
    <3>3. F(k + 1) = F(k) \cup {k + 1}
      BY <3>1, <3>2
    <3>4. k + 1 \notin F(k)
      OBVIOUS
    <3> HIDE DEF F
    <3>5. IsFiniteSet(F(k)) /\ Cardinality(F(k)) \in Nat
      BY <1>3
    <3> QED BY <3>3, <3>4, <3>5, FS_AddElement
  <2>3. ASSUME s[k + 1] # "nl" PROVE F(k + 1) = F(k)
    <3>1. k + 1 \notin E
      BY <1>1, <2>1, <2>3
    <3>2. \A j \in E : j <= k + 1 <=> j <= k
      BY <1>E, <3>1
    <3> QED BY <3>2
  <2> QED BY <2>2, <2>3
<1>7. \A k : Count(s, k) = Cardinality(F(k))
  BY DEF Count, E
<1>8. Count(s, 0) = 0
  BY <1>4, <1>7, FS_EmptySet
<1>9. Count(s, Len(s)) = Cardinality(LineEnds(s))
  BY <1>5, <1>7 DEF E
<1>10. \A k \in Nat : Count(s, k) \in Nat
  BY <1>3, <1>7
<1>11. \A k \in Nat : k < Len(s) =>
         /\ s[k + 1] = "nl" => Count(s, k + 1) = Count(s, k) + 1
         /\ s[k + 1] # "nl" => Count(s, k + 1) = Count(s, k)
  <2> HIDE DEF F
  <2> QED BY <1>6, <1>7
<1> QED BY <1>1, <1>8, <1>9, <1>10, <1>11 DEF E

\* More characters have more line ends.
LEMMA CountGrows ==
  ASSUME NEW s \in Seq(Characters), NEW j \in Nat, NEW k \in Nat, j <= k
  PROVE  /\ Count(s, j) <= Count(s, k)
         /\ j < k /\ k \in LineEnds(s) => Count(s, j) < Count(s, k)
<1> DEFINE E == LineEnds(s)
           F(n) == {i \in E : i <= n}
<1>1. Len(s) \in Nat /\ E \subseteq 1..Len(s)
  BY DEF LineEnds
<1> HIDE DEF E
<1>2. IsFiniteSet(E)
  <2>1. IsFiniteSet(1..Len(s))
    BY <1>1, FS_Interval
  <2> QED BY <1>1, <2>1, FS_Subset
<1>E. \A i \in E : i \in Nat
  BY <1>1
<1>3. F(k) \subseteq E /\ F(j) \subseteq F(k)
  BY <1>E
<1>4. IsFiniteSet(F(k))
  BY <1>2, <1>3, FS_Subset
<1>5. IsFiniteSet(F(j)) /\ Cardinality(F(j)) <= Cardinality(F(k)) /\ Cardinality(F(j)) \in Nat
      /\ Cardinality(F(k)) \in Nat
  BY <1>3, <1>4, FS_Subset, FS_CardinalityType
<1>6. ASSUME j < k, k \in E PROVE Cardinality(F(j)) < Cardinality(F(k))
  <2>1. F(j) \cup {k} \subseteq F(k) /\ k \notin F(j)
    BY <1>1, <1>3, <1>6
  <2>2. Cardinality(F(j) \cup {k}) = Cardinality(F(j)) + 1
    BY <1>5, <2>1, FS_AddElement
  <2>3. Cardinality(F(j) \cup {k}) <= Cardinality(F(k))
    BY <1>4, <2>1, FS_Subset
  <2> HIDE DEF F
  <2> QED BY <1>5, <2>2, <2>3
<1>7. \A n : Count(s, n) = Cardinality(F(n))
  BY DEF Count, E
<1> HIDE DEF F
<1> QED BY <1>5, <1>6, <1>7 DEF E

\* The n-th line end is one, and the only one.
LEMMA NthEndIs ==
  ASSUME NEW s \in Seq(Characters), NEW n \in Nat, n >= 1, n <= Cardinality(LineEnds(s))
  PROVE  /\ NthEnd(s, n) \in LineEnds(s) /\ NthEnd(s, n) \in 1..Len(s)
         /\ Count(s, NthEnd(s, n)) = n
<1>0. /\ Len(s) \in Nat /\ Count(s, 0) = 0 /\ Count(s, Len(s)) >= n
      /\ \A k \in Nat : Count(s, k) \in Nat
      /\ LineEnds(s) \subseteq 1..Len(s)
  BY CountIs, LenProperties
<1> DEFINE T == {k \in Nat : k <= Len(s) /\ Count(s, k) >= n}
<1>1. Len(s) \in T
  BY <1>0
<1>2. T \subseteq Nat /\ T # {}
  BY <1>1
<1>3. PICK k \in T : \A i \in T : k <= i
  <2> HIDE DEF T
  <2> QED BY <1>2, LeastNat
<1>4. k \in Nat /\ k <= Len(s) /\ Count(s, k) >= n
  OBVIOUS
<1>5. k # 0
  BY <1>0, <1>4
<1>6. k - 1 \in Nat /\ k - 1 < Len(s) /\ k - 1 \notin T /\ k - 1 + 1 = k
  <2>1. k - 1 \in Nat /\ k - 1 < Len(s) /\ ~(k <= k - 1) /\ k - 1 + 1 = k
    BY <1>0, <1>4, <1>5
  <2> HIDE DEF T
  <2> QED BY <1>3, <2>1
<1>7. ~(Count(s, k - 1) >= n) /\ Count(s, k - 1) \in Nat /\ Count(s, k) \in Nat
  BY <1>0, <1>4, <1>6
<1> HIDE DEF T
<1>8. /\ s[k] = "nl" => Count(s, k) = Count(s, k - 1) + 1
      /\ s[k] # "nl" => Count(s, k) = Count(s, k - 1)
  BY <1>6, CountIs
<1>9. s[k] = "nl" /\ Count(s, k) = n
  BY <1>4, <1>7, <1>8
<1>10. k \in LineEnds(s)
  BY <1>4, <1>5, <1>9 DEF LineEnds
<1>11. \E i \in LineEnds(s) : Count(s, i) = n
  BY <1>9, <1>10
<1>12. NthEnd(s, n) \in LineEnds(s) /\ Count(s, NthEnd(s, n)) = n
  BY <1>11 DEF NthEnd, Count
<1> QED BY <1>0, <1>12

LEMMA NthEndOnly ==
  ASSUME NEW s \in Seq(Characters), NEW k \in LineEnds(s)
  PROVE  NthEnd(s, Count(s, k)) = k
<1> DEFINE n == Count(s, k)
           e == NthEnd(s, n)
<1>1. LineEnds(s) \subseteq Nat
  BY CountIs
<1>2. e \in LineEnds(s) /\ Count(s, e) = n
  BY DEF NthEnd, Count
<1>3. k \in Nat /\ e \in Nat
  BY <1>1, <1>2
<1> HIDE DEF e
<1>4. e < k => Count(s, e) < n
  BY <1>3, CountGrows
<1>5. k < e => n < Count(s, e)
  BY <1>2, <1>3, CountGrows
<1>6. n \in Nat
  BY <1>3, CountIs
<1> HIDE DEF n
<1>7. e = k
  BY <1>2, <1>3, <1>4, <1>5, <1>6
<1> QED BY <1>7 DEF e, n

\* Line ends of a slice.
LEMMA CountSlice ==
  ASSUME NEW s \in Seq(Characters), NEW a \in Nat, NEW b \in Nat, a <= b, b <= Len(s)
  PROVE  \A j \in 0..(b - a) : Count(s, a + j) = Count(s, a) + Count(SubSeq(s, a + 1, b), j)
<1> DEFINE c == SubSeq(s, a + 1, b)
           T == {j \in 0..(b - a) : Count(s, a + j) # Count(s, a) + Count(c, j)}
<1>0. Len(s) \in Nat
  BY LenProperties
<1>1. c \in Seq(Characters) /\ Len(c) = b - a /\ \A i \in 1..(b - a) : c[i] = s[a + i]
  BY SliceIs
<1> HIDE DEF c
<1> SUFFICES ASSUME T # {} PROVE FALSE
  BY DEF c
<1>2. PICK j \in T : \A i \in T : j <= i
  <2>1. T \subseteq Nat
    OBVIOUS
  <2> HIDE DEF T
  <2> QED BY <2>1, LeastNat
<1>3. j \in Nat /\ j <= b - a /\ Count(s, a + j) # Count(s, a) + Count(c, j)
  OBVIOUS
<1>4. /\ Count(c, 0) = 0 /\ \A k \in Nat : Count(c, k) \in Nat /\ Count(s, k) \in Nat
  <2>1. c \in Seq(Characters) /\ s \in Seq(Characters)
    BY <1>1
  <2> QED BY ONLY <2>1, CountIs
<1>5. j # 0
  <2> SUFFICES ASSUME j = 0 PROVE FALSE
    OBVIOUS
  <2>1. a + j = a /\ Count(s, a) \in Nat
    BY <1>4
  <2> QED BY <1>3, <1>4, <2>1
<1>6. j - 1 \in 0..(b - a) /\ ~(j <= j - 1)
  BY <1>3, <1>5
<1>7. Count(s, a + (j - 1)) = Count(s, a) + Count(c, j - 1)
  <2>1. j - 1 \notin T
    <3> HIDE DEF T
    <3> QED BY <1>2, <1>6
  <2> QED BY <1>6, <2>1
<1> HIDE DEF T
<1>8. /\ j - 1 \in Nat /\ j - 1 < Len(c) /\ j - 1 + 1 = j
      /\ a + (j - 1) \in Nat /\ a + (j - 1) < Len(s) /\ a + (j - 1) + 1 = a + j
      /\ j \in 1..(b - a)
  BY <1>0, <1>1, <1>3, <1>5
<1>9. /\ s[a + j] = "nl" => Count(s, a + j) = Count(s, a + (j - 1)) + 1
      /\ s[a + j] # "nl" => Count(s, a + j) = Count(s, a + (j - 1))
  BY <1>8, CountIs
<1>10. /\ c[j] = "nl" => Count(c, j) = Count(c, j - 1) + 1
       /\ c[j] # "nl" => Count(c, j) = Count(c, j - 1)
  <2>1. c \in Seq(Characters)
    BY <1>1
  <2>2. \A k \in Nat : k < Len(c) =>
          /\ c[k + 1] = "nl" => Count(c, k + 1) = Count(c, k) + 1
          /\ c[k + 1] # "nl" => Count(c, k + 1) = Count(c, k)
    BY ONLY <2>1, CountIs
  <2> QED BY <1>8, <2>2
<1>11. c[j] = s[a + j]
  BY <1>1, <1>8
<1>12. Count(s, a) \in Nat /\ Count(c, j - 1) \in Nat
  BY <1>4, <1>8
<1> QED BY <1>3, <1>7, <1>9, <1>10, <1>11, <1>12

LEMMA CountPart ==
  ASSUME NEW s \in Seq(Characters), NEW a \in Nat, NEW b \in Nat, a <= b, b <= Len(s)
  PROVE  /\ Cardinality(LineEnds(SubSeq(s, a + 1, b))) \in Nat
         /\ Count(s, b) = Count(s, a) + Cardinality(LineEnds(SubSeq(s, a + 1, b)))
<1> DEFINE c == SubSeq(s, a + 1, b)
<1>1. c \in Seq(Characters) /\ Len(c) = b - a
  BY SliceIs
<1>2. \A j \in 0..(b - a) : Count(s, a + j) = Count(s, a) + Count(c, j)
  BY CountSlice
<1> HIDE DEF c
<1>3. Count(c, Len(c)) = Cardinality(LineEnds(c)) /\ \A k \in Nat : Count(c, k) \in Nat
  BY ONLY <1>1, CountIs
<1>4. b - a \in 0..(b - a) /\ a + (b - a) = b /\ b - a \in Nat
  OBVIOUS
<1>5. Count(s, b) = Count(s, a) + Count(c, b - a)
  BY ONLY <1>2, <1>4
<1>6. Count(c, b - a) = Cardinality(LineEnds(c)) /\ Count(c, b - a) \in Nat
  BY ONLY <1>1, <1>3, <1>4
<1> QED BY ONLY <1>5, <1>6 DEF c

\* A line end of a slice is one of the whole.
LEMMA NthEndSlice ==
  ASSUME NEW s \in Seq(Characters), NEW a \in Nat, NEW b \in Nat, a <= b, b <= Len(s),
         NEW n \in Nat, n >= 1, n <= Cardinality(LineEnds(SubSeq(s, a + 1, b)))
  PROVE  /\ NthEnd(s, Count(s, a) + n) = a + NthEnd(SubSeq(s, a + 1, b), n)
         /\ NthEnd(SubSeq(s, a + 1, b), n) \in 1..(b - a)
<1> DEFINE c == SubSeq(s, a + 1, b)
           e == NthEnd(c, n)
<1>0. Len(s) \in Nat
  BY LenProperties
<1>1. c \in Seq(Characters) /\ Len(c) = b - a /\ \A i \in 1..(b - a) : c[i] = s[a + i]
  BY SliceIs
<1>2. \A j \in 0..(b - a) : Count(s, a + j) = Count(s, a) + Count(c, j)
  BY CountSlice
<1>3. n <= Cardinality(LineEnds(c))
  OBVIOUS
<1> HIDE DEF c
<1>4. e \in LineEnds(c) /\ e \in 1..(b - a) /\ Count(c, e) = n
  BY <1>1, <1>3, NthEndIs
<1> HIDE DEF e
<1>5. c[e] = "nl"
  BY <1>4 DEF LineEnds
<1>6. a + e \in 1..Len(s) /\ s[a + e] = "nl" /\ e \in 0..(b - a)
  BY <1>0, <1>1, <1>4, <1>5
<1>7. a + e \in LineEnds(s)
  BY <1>6 DEF LineEnds
<1>8. Count(s, a + e) = Count(s, a) + n
  BY <1>2, <1>4, <1>6
<1>9. NthEnd(s, Count(s, a) + n) = a + e
  BY <1>7, <1>8, NthEndOnly
<1> QED BY <1>4, <1>9 DEF c, e

-----------------------------------------------------------------------------
(***************************************************************************)
(* Reading and writing.                                                    *)
(***************************************************************************)
\* What a Read delivers is the part of the file behind the position of the
\* handle, and it is empty at the end of the file only.
LEMMA ChunkIs ==
  ASSUME NEW f \in 1..2, files \in [1..2 -> Seq(Characters)], at \in [1..2 -> Nat],
         at[f] <= Len(files[f]), NEW n \in Nat, n >= 1, NEW c \in Chunks(f, n)
  PROVE  /\ c \in Seq(Characters) /\ Len(c) \in Nat /\ Len(c) <= n
         /\ at[f] + Len(c) <= Len(files[f])
         /\ c = SubSeq(files[f], at[f] + 1, at[f] + Len(c))
         /\ c = <<>> <=> at[f] = Len(files[f])
         /\ c = <<>> <=> Len(c) = 0
<1>1. files[f] \in Seq(Characters) /\ at[f] \in Nat /\ Len(files[f]) \in Nat
  OBVIOUS
<1>2. Left(f) \in Nat /\ Left(f) = Len(files[f]) - at[f]
  BY <1>1 DEF Left
<1>3. /\ Min({1, Left(f)}) = IF Left(f) = 0 THEN 0 ELSE 1
      /\ Min({n, Left(f)}) <= n /\ Min({n, Left(f)}) <= Left(f) /\ Min({n, Left(f)}) \in Int
  <2>1. 1 \in Int /\ Left(f) \in Int /\ n \in Int
    BY <1>2
  <2>2. /\ 1 <= Left(f) => Min({1, Left(f)}) = 1
        /\ Left(f) <= 1 => Min({1, Left(f)}) = Left(f)
    BY ONLY <2>1, MinMaxOfTwo
  <2>3. /\ Min({n, Left(f)}) \in Int
        /\ n <= Left(f) => Min({n, Left(f)}) = n
        /\ Left(f) <= n => Min({n, Left(f)}) = Left(f)
    BY ONLY <2>1, MinMaxOfTwo
  <2> QED BY <1>2, <2>2, <2>3
<1>4. PICK k \in Min({1, Left(f)})..Min({n, Left(f)}) :
        c = SubSeq(files[f], at[f] + 1, at[f] + k)
  BY DEF Chunks
<1>5. k \in Nat /\ k <= n /\ k <= Left(f) /\ (k = 0 <=> Left(f) = 0)
  BY <1>2, <1>3
<1>6. at[f] + k \in Nat /\ at[f] <= at[f] + k /\ at[f] + k <= Len(files[f])
  BY <1>1, <1>2, <1>5
<1>7. c \in Seq(Characters) /\ Len(c) = at[f] + k - at[f]
  <2>1. files[f] \in Seq(Characters) /\ at[f] \in Nat
    BY <1>1
  <2>2. /\ SubSeq(files[f], at[f] + 1, at[f] + k) \in Seq(Characters)
        /\ Len(SubSeq(files[f], at[f] + 1, at[f] + k)) = at[f] + k - at[f]
    BY ONLY <2>1, <1>6, SliceIs
  <2> QED BY ONLY <1>4, <2>2
<1>8. Len(c) = k
  BY <1>1, <1>5, <1>7
<1>9. c = <<>> <=> Len(c) = 0
  BY <1>7, EmptySeq
<1>10. c = SubSeq(files[f], at[f] + 1, at[f] + Len(c)) /\ at[f] + Len(c) <= Len(files[f])
  BY ONLY <1>4, <1>6, <1>8
<1>11. Len(c) = 0 <=> at[f] = Len(files[f])
  BY <1>1, <1>2, <1>5, <1>8
<1> QED BY <1>5, <1>7, <1>8, <1>9, <1>10, <1>11

\* Write s and go on at l, or fail; at "done" the tool is through.
WriteThen(s, l) ==
  \/ Wrote(s) /\ IF l = "done" THEN Return(0, {1}) ELSE Goto(l)
  \/ WriteFailed(s) /\ Return(5, {1})

\* What WriteThen does: all of it is out and the tool goes on at l, or a part
\* is and the tool has failed.
LEMMA WriteIs ==
  ASSUME NEW X, out \in Seq(X), NEW s \in Seq(X), NEW l, WriteThen(s, l)
  PROVE  /\ out' \in Seq(X)
         /\ \/ out' = out \o s /\ l # "done" /\ pc' = l /\ rc' = rc /\ open' = open
            \/ out' = out \o s /\ l = "done" /\ pc' = "done" /\ rc' = 0 /\ open' \subseteq open
            \/ /\ pc' = "done" /\ rc' = 5 /\ open' \subseteq open
               /\ \E k \in 0..Len(s) : out' = out \o SubSeq(s, 1, k)
<1>1. CASE out' = out \o s /\ IF l = "done" THEN Return(0, {1}) ELSE Goto(l)
  <2>1. out \o s \in Seq(X)
    BY ConcatProperties
  <2> QED BY <1>1, <2>1 DEF Return, Goto
<1>2. CASE WriteFailed(s) /\ Return(5, {1})
  <2>1. PICK k \in 0..(Len(s) - 1) : out' = out \o SubSeq(s, 1, k)
    BY <1>2 DEF WriteFailed, Parts
  <2>2. Len(s) \in Nat /\ k \in Nat /\ k <= Len(s) /\ 0 \in Nat /\ 0 <= k
    OBVIOUS
  <2>3. SubSeq(s, 0 + 1, k) \in Seq(X) /\ 0 + 1 = 1
    BY <2>2, SliceIs
  <2>4. out \o SubSeq(s, 1, k) \in Seq(X)
    BY <2>3, ConcatProperties
  <2>5. k \in 0..Len(s)
    BY <2>2
  <2> QED BY <1>2, <2>1, <2>4, <2>5 DEF Return
<1> QED BY <1>1, <1>2 DEF WriteThen, Wrote

\* The reading steps, with what each may write.
LEMMA HeadReadIs ==
  ASSUME HeadRead
  PROVE  \/ Return(5, {1}) /\ UNCHANGED <<at, lines, out, short>>
         \/ \E c \in Chunks(1, ReadSize) :
              /\ at' = [at EXCEPT ![1] = @ + Len(c)]
              /\ short' = (short \/ Len(c) < Min({ReadSize, Left(1)}))
              /\ lines' = lines + Cardinality(LineEnds(c))
              /\ \/ c = <<>> /\ Return(0, {1}) /\ UNCHANGED out
                 \/ /\ c # <<>> /\ lines' >= number
                    /\ WriteThen(SubSeq(c, 1, NthEnd(c, number - lines)), "done")
                 \/ c # <<>> /\ lines' < number /\ WriteThen(c, "read")
BY DEF HeadRead, HeadLast, WriteThen

LEMMA TailReadIs ==
  ASSUME TailRead
  PROVE  \/ Return(5, {1}) /\ UNCHANGED <<at, out, short>>
         \/ \E c \in Chunks(1, ReadSize) :
              /\ at' = [at EXCEPT ![1] = @ + Len(c)]
              /\ short' = (short \/ Len(c) < Min({ReadSize, Left(1)}))
              /\ IF c = <<>> THEN Return(0, {1}) /\ UNCHANGED out ELSE WriteThen(c, "read")
BY DEF TailRead, WriteThen, WriteFailed

LEMMA StringsReadIs ==
  ASSUME StringsRead
  PROVE  \/ Return(5, {1}) /\ UNCHANGED <<at, buf, out, short>>
         \/ \E c \in Chunks(1, ReadSize) :
              /\ at' = [at EXCEPT ![1] = @ + Len(c)]
              /\ short' = (short \/ Len(c) < Min({ReadSize, Left(1)}))
              /\ buf' = c
              /\ IF c = <<>> THEN WriteThen(RunEnd, "done") ELSE Goto("scan") /\ UNCHANGED out
BY DEF StringsRead, StringsEnd, WriteThen

LEMMA HexLineIs ==
  ASSUME HexLine
  PROVE  \/ RangeLeft = 0 /\ Return(0, {1}) /\ UNCHANGED <<at, out, short>>
         \/ Return(5, {1}) /\ UNCHANGED <<at, out, short>>
         \/ /\ RangeLeft > 0
            /\ \E c \in Chunks(1, Min({ReadSize, RangeLeft})) :
                 /\ at' = [at EXCEPT ![1] = @ + Len(c)]
                 /\ short' = (short \/ Len(c) < Min({Min({ReadSize, RangeLeft}), Left(1)}))
                 /\ IF c = <<>> THEN Return(0, {1}) /\ UNCHANGED out
                    ELSE WriteThen(Line(c), "read")
<1>1. ASSUME NEW c, c = <<>> PROVE Line(c) = <<>>
  BY <1>1 DEF Line
<1> QED BY <1>1 DEF HexLine, HexEnd, WriteThen, WriteFailed

LEMMA ScanIs ==
  ASSUME StringsScan, NEW X, out \in Seq(X)
  PROVE  \/ /\ Head(buf) = "ch" /\ Full
            /\ WriteThen(text, "scan") /\ emitted' = TRUE /\ text' = <<"ch">>
         \/ /\ Head(buf) = "ch" /\ ~Full
            /\ Goto("scan") /\ text' = Append(text, "ch") /\ UNCHANGED <<emitted, out>>
         \/ /\ Head(buf) # "ch"
            /\ WriteThen(RunEnd, "scan") /\ emitted' = FALSE /\ text' = <<>>
<1>1. WriteThen(Due, "scan")
  BY DEF StringsScan, StringsEnd, WriteThen
<1>2. CASE Head(buf) = "ch" /\ Full
  BY <1>1, <1>2 DEF StringsScan, Due
<1>3. CASE Head(buf) = "ch" /\ ~Full
  <2>1. Due = <<>> /\ out \o <<>> = out
    BY <1>3, ConcatEmptySeq DEF Due
  <2>2. Goto("scan") /\ out' = out
    BY <1>1, <2>1 DEF WriteThen, WriteFailed, Wrote
  <2> QED BY <1>3, <2>2 DEF StringsScan
<1>4. CASE Head(buf) # "ch"
  BY <1>1, <1>4 DEF StringsScan, Due
<1> QED BY <1>2, <1>3, <1>4

\* What is appended to a file leaves its beginning alone.
LEMMA SliceKept ==
  ASSUME NEW X, NEW s \in Seq(X), NEW x \in X, NEW a \in Nat, NEW b \in Nat, b <= Len(s)
  PROVE  SubSeq(Append(s, x), a + 1, b) = SubSeq(s, a + 1, b)
<1>1. Len(s) \in Nat
  OBVIOUS
<1>2. Append(s, x) \in Seq(X) /\ Len(Append(s, x)) = Len(s) + 1
      /\ \A i \in 1..Len(s) : Append(s, x)[i] = s[i]
  BY AppendProperties
<1>3. CASE a <= b
  <2>1. b <= Len(Append(s, x))
    BY <1>1, <1>2
  <2>2. /\ SubSeq(s, a + 1, b) \in Seq(X) /\ Len(SubSeq(s, a + 1, b)) = b - a
        /\ \A i \in 1..(b - a) : SubSeq(s, a + 1, b)[i] = s[a + i]
    BY <1>3, SliceIs
  <2> DEFINE t == Append(s, x)
  <2> HIDE DEF t
  <2>3. t \in Seq(X) /\ b <= Len(t)
    BY <1>2, <2>1 DEF t
  <2>4. /\ SubSeq(t, a + 1, b) \in Seq(X) /\ Len(SubSeq(t, a + 1, b)) = b - a
        /\ \A i \in 1..(b - a) : SubSeq(t, a + 1, b)[i] = t[a + i]
    BY <1>3, <2>3, SliceIs
  <2>5. \A i \in 1..(b - a) : a + i \in 1..Len(s)
    BY <1>1
  <2>6. \A i \in 1..(b - a) : SubSeq(t, a + 1, b)[i] = SubSeq(s, a + 1, b)[i]
    BY <1>2, <2>2, <2>4, <2>5 DEF t
  <2>7. SubSeq(t, a + 1, b) = SubSeq(s, a + 1, b)
    BY <2>2, <2>4, <2>6, SeqEqual
  <2> QED BY <2>7 DEF t
<1>4. CASE ~(a <= b)
  <2>1. a + 1 > b
    BY <1>4
  <2> QED BY <1>2, <2>1, SubSeqEmpty
<1> QED BY <1>3, <1>4

-----------------------------------------------------------------------------
(***************************************************************************)
(* The shape of a run: where a tool is, how far it has read, and what Tail *)
(* has written.  This holds however files grow.                            *)
(***************************************************************************)
Early == {"args", "open", "second", "end", "back", "start"}

\* Where a tool is, with what arguments and handles.
ControlOK ==
  /\ pc = "done" <=> rc # Running
  /\ pc = "second" => tool = "SnapDiff"
  /\ pc \in {"end", "back"} => tool = "Tail"
  /\ pc = "start" => tool \in {"Tail", "Hex"}
  /\ pc = "scan" => tool = "Strings"
  /\ pc \notin {"args", "done"} => ~NoWork /\ InRange

\* Nothing has been read or written before the first Read.
StartOK ==
  pc \in Early =>
    /\ out = <<>> /\ at[1] = 0 /\ at[2] = 0 /\ diff = NoDiff /\ ~short
    /\ buf = <<>> /\ text = <<>> /\ ~emitted

\* No handle is behind the end of its file.
ReachOK == at[1] <= Len(files[1]) /\ at[2] <= Len(files[2])

\* Hex shows no more than its range.
RangeOK ==
  tool = "Hex" /\ pc = "read" =>
    /\ Len(out) <= SeekSpace - offset
    /\ number # NoLimit => Len(out) <= number

\* Tail starts to print within the file, and what it has written is what the
\* file holds from there on.
SinceOK ==
  tool = "Tail" =>
    /\ pc \in {"args", "open", "end"} => lines = 0
    /\ pc = "back" => lines <= number
    /\ pos <= end /\ end <= Len(file)
    /\ pc = "read" => pos <= at[1] /\ out = SubSeq(file, pos + 1, at[1])
    /\ pc = "done" /\ rc = 0 /\ number > 0 =>
         \E e \in end..Len(file) : out = SubSeq(file, pos + 1, e)

\* Head reads on only as long as lines are missing.
MissingOK ==
  tool = "Head" => /\ pc \in {"args", "open"} => lines = 0
                   /\ pc = "read" => lines < number

ShapeOK ==
  TypeOK /\ ControlOK /\ StartOK /\ ReachOK /\ RangeOK /\ SinceOK /\ MissingOK

USE Constants

\* Steps that only choose where to go on.
LEMMA ShapeMoves ==
  ASSUME ShapeOK, ParseArgs \/ OpenFile \/ OpenSecond \/ TailAll \/ StringsNext
  PROVE  ShapeOK'
<1> USE DEF arguments, world
<1>1. /\ UNCHANGED <<arguments, world, at, lines, pos, buf, text, emitted, diff, out, short, end>>
      /\ pc # "done" /\ pc # "read"
  BY DEF ParseArgs, OpenFile, OpenSecond, TailAll, StringsNext
<1>2. \/ /\ pc' = "done" /\ rc' \in {0, 5, 10} /\ open' \subseteq open
         /\ rc' = 0 => NoWork
      \/ pc = "args" /\ pc' = "open" /\ ~NoWork /\ InRange /\ UNCHANGED <<rc, open>>
      \/ pc = "open" /\ rc' = rc /\ open' = {1} /\ tool = "SnapDiff" /\ pc' = "second"
      \/ pc = "open" /\ rc' = rc /\ open' = {1} /\ tool = "Tail" /\ pc' = "end"
      \/ pc = "open" /\ rc' = rc /\ open' = {1} /\ tool = "Hex" /\ pc' = "start"
      \/ pc = "open" /\ rc' = rc /\ open' = {1} /\ tool # "Tail" /\ pc' = "read"
      \/ pc = "second" /\ rc' = rc /\ open' = {1, 2} /\ pc' = "read"
      \/ pc = "back" /\ pc' = "start" /\ UNCHANGED <<rc, open>>
      \/ pc = "scan" /\ pc' = "read" /\ UNCHANGED <<rc, open>>
  <2>1. CASE ParseArgs
    BY <2>1 DEF ParseArgs, Return, Goto
  <2>2. CASE OpenFile
    <3>1. CASE Return(5, {})
      BY <3>1 DEF Return
    <3>2. CASE /\ open' = {1} /\ UNCHANGED rc
               /\ pc' = CASE tool = "SnapDiff" -> "second"
                          [] tool = "Tail" -> "end"
                          [] tool = "Hex" /\ offset # 0 -> "start"
                          [] OTHER -> "read"
      BY <2>2, <3>2 DEF OpenFile
    <3> QED BY <2>2, <3>1, <3>2 DEF OpenFile
  <2>3. CASE OpenSecond
    BY <2>3 DEF OpenSecond, Return
  <2>4. CASE TailAll
    BY <2>4 DEF TailAll, Goto
  <2>5. CASE StringsNext
    BY <2>5 DEF StringsNext, Goto
  <2> QED BY <2>1, <2>2, <2>3, <2>4, <2>5
<1>3. TypeOK'
  <2>1. TypeOK
    BY DEF ShapeOK
  <2>2. pc' \in {"args", "open", "second", "end", "back", "start", "read", "scan", "done"}
    BY <1>2
  <2>3. rc' \in {Running, 0, 5, 10}
    BY <1>2, <2>1 DEF TypeOK
  <2>5. {1} \subseteq 1..2 /\ {1, 2} \subseteq 1..2 /\ {} \subseteq 1..2
    OBVIOUS
  <2>6. open' \subseteq open \/ open' = open \/ open' = {1} \/ open' = {1, 2}
    BY <1>2
  <2>7. open' \subseteq 1..2
    BY <2>1, <2>5, <2>6 DEF TypeOK
  <2>4. Items' = Items
    BY <1>1 DEF Items
  <2> QED BY <1>1, <2>1, <2>2, <2>3, <2>4, <2>7 DEF TypeOK
<1>4. ControlOK'
  BY <1>1, <1>2 DEF ShapeOK, ControlOK, NoWork, InRange, Running, NoLimit
<1>5. StartOK'
  BY <1>1, <1>2 DEF ShapeOK, ControlOK, StartOK, Early
<1>6. ReachOK'
  BY <1>1 DEF ShapeOK, ReachOK
<1>7. RangeOK'
  <2>1. (NoWork' <=> NoWork) /\ (InRange' <=> InRange)
    BY <1>1 DEF NoWork, InRange, NoLimit
  <2>2. ASSUME tool = "Hex", pc' = "read" PROVE out' = <<>> /\ InRange'
    BY <1>1, <1>2, <1>4, <2>1, <2>2 DEF ControlOK, StartOK, Early, ShapeOK
  <2>3. Len(<<>>) = 0 /\ offset' \in Nat /\ number' \in Nat
    BY <1>3 DEF TypeOK, NoLimit
  <2> QED BY <2>2, <2>3, <1>1 DEF RangeOK, InRange
<1>8. SinceOK'
  <2>1. SinceOK /\ ControlOK /\ lines \in Nat /\ number \in Nat /\ file' = file
    BY <1>1 DEF ShapeOK, TypeOK, file, NoLimit
  <2>2. CASE tool # "Tail"
    BY <1>1, <2>2 DEF SinceOK
  <2>3. CASE tool = "Tail" /\ pc' = "done"
    BY <1>1, <1>2, <2>1, <2>3 DEF SinceOK, NoWork
  <2>4. CASE tool = "Tail" /\ pc' # "done"
    BY <1>1, <1>2, <2>1, <2>4 DEF SinceOK, ControlOK
  <2> QED BY <2>2, <2>3, <2>4
<1>9. MissingOK'
  <2>1. MissingOK /\ ControlOK /\ number \in Nat
    BY DEF ShapeOK, TypeOK, NoLimit
  <2>2. CASE tool = "Head"
    BY <1>1, <1>2, <2>1, <2>2 DEF MissingOK, ControlOK, NoWork
  <2>3. CASE tool # "Head"
    BY <1>1, <2>3 DEF MissingOK
  <2> QED BY <2>2, <2>3
<1> QED BY <1>3, <1>4, <1>5, <1>6, <1>7, <1>8, <1>9 DEF ShapeOK

\* Seek to where the output starts.
LEMMA ShapeSeekStart == ASSUME ShapeOK, SeekStart PROVE ShapeOK'
<1> USE DEF arguments, world
<1>1. /\ pc = "start" /\ TypeOK /\ ControlOK /\ StartOK /\ ReachOK /\ SinceOK
      /\ UNCHANGED <<tool, number, offset, files, grown, lines, pos, buf, text, emitted, diff,
                     out, short, end>>
  BY DEF ShapeOK, SeekStart
<1>2. /\ out = <<>> /\ at \in [1..2 -> Nat] /\ at[2] = 0 /\ pos \in Nat /\ offset \in Nat
      /\ number \in Nat /\ tool \in {"Tail", "Hex"} /\ InRange /\ ~NoWork /\ rc = Running
      /\ end \in Nat /\ files \in [1..2 -> Seq(Characters)] /\ ~short
  BY <1>1 DEF TypeOK, ControlOK, StartOK, Early, NoLimit
<1>3. Len(files[1]) \in Nat /\ Len(files[2]) \in Nat /\ files[1] \in Seq(Characters)
  BY <1>2
<1>4. Items' = Items /\ (NoWork' <=> NoWork) /\ (InRange' <=> InRange) /\ file' = file
  BY <1>1 DEF Items, NoWork, InRange, NoLimit, file
<1>5. CASE UNCHANGED at /\ Return(5, {1})
  <2>1. pc' = "done" /\ rc' = 5 /\ open' \subseteq open /\ at' = at
    BY <1>5 DEF Return
  <2>2. TypeOK'
    BY <1>1, <1>4, <2>1 DEF TypeOK
  <2>3. ControlOK' /\ StartOK' /\ ReachOK' /\ RangeOK' /\ MissingOK'
    BY <1>1, <1>4, <2>1 DEF ControlOK, StartOK, Early, ReachOK, RangeOK, MissingOK, Running
  <2>4. SinceOK'
    BY <1>1, <1>4, <2>1 DEF SinceOK
  <2> QED BY <2>2, <2>3, <2>4 DEF ShapeOK
<1>6. CASE \E to \in Nat : /\ to = IF tool = "Hex" THEN offset ELSE pos
                           /\ to <= Len(files[1]) /\ at' = [at EXCEPT ![1] = to] /\ Goto("read")
  <2>1. PICK to \in Nat : /\ to = IF tool = "Hex" THEN offset ELSE pos
                          /\ to <= Len(files[1]) /\ at' = [at EXCEPT ![1] = to] /\ Goto("read")
    BY <1>6
  <2>2. /\ pc' = "read" /\ UNCHANGED <<rc, open>>
        /\ at' \in [1..2 -> Nat] /\ at'[1] = to /\ at'[2] = at[2]
    BY <1>2, <2>1 DEF Goto
  <2>3. TypeOK'
    BY <1>1, <1>4, <2>2 DEF TypeOK
  <2>4. ControlOK' /\ StartOK' /\ ReachOK'
    BY <1>1, <1>2, <1>3, <1>4, <2>1, <2>2 DEF ControlOK, StartOK, Early, ReachOK
  <2>5. Len(out) = 0
    BY <1>2
  <2>6. RangeOK'
    BY <1>1, <1>2, <2>5 DEF RangeOK, InRange
  <2>7. SubSeq(file, pos + 1, pos) = <<>>
    BY <1>2, SubSeqEmpty
  <2>8. SinceOK'
    BY <1>1, <1>2, <1>4, <2>1, <2>2, <2>7 DEF SinceOK
  <2>9. MissingOK'
    BY <1>1, <1>2 DEF MissingOK
  <2> QED BY <2>3, <2>4, <2>6, <2>8, <2>9 DEF ShapeOK
<1> QED BY <1>2, <1>5, <1>6 DEF SeekStart

\* Tail finds the end of the file.
LEMMA ShapeSeekEnd == ASSUME ShapeOK, SeekEnd PROVE ShapeOK'
<1> USE DEF arguments, world
<1>1. /\ pc = "end" /\ TypeOK /\ ControlOK /\ StartOK /\ ReachOK /\ SinceOK
      /\ UNCHANGED <<tool, number, offset, files, grown, at, lines, buf, text, emitted, diff,
                     out, short>>
  BY DEF ShapeOK, SeekEnd
<1>2. /\ tool = "Tail" /\ lines = 0 /\ number \in Nat /\ files[1] \in Seq(Characters)
      /\ InRange /\ ~NoWork /\ rc = Running /\ pos \in Nat /\ end \in Nat
  BY <1>1 DEF TypeOK, ControlOK, SinceOK, NoLimit
<1>3. Len(files[1]) \in Nat
  BY <1>2
<1>4. Items' = Items /\ (NoWork' <=> NoWork) /\ (InRange' <=> InRange) /\ file' = file
  BY <1>1 DEF Items, NoWork, InRange, NoLimit, file
<1>5. \/ pc' = "done" /\ rc' = 5 /\ open' \subseteq open /\ UNCHANGED <<pos, end>>
      \/ pc' = "back" /\ pos' = Len(files[1]) /\ end' = Len(files[1]) /\ UNCHANGED <<rc, open>>
  BY DEF SeekEnd, Return, Goto
<1>6. pos' \in Nat /\ end' \in Nat
  BY <1>2, <1>3, <1>5
<1>7. rc' \in {Running, 0, 5, 10} /\ open' \subseteq 1..2
      /\ pc' \in {"args", "open", "second", "end", "back", "start", "read", "scan", "done"}
  BY <1>1, <1>5 DEF TypeOK
<1>8. TypeOK'
  BY <1>1, <1>4, <1>6, <1>7 DEF TypeOK
<1>9. ControlOK' /\ StartOK' /\ ReachOK' /\ RangeOK' /\ MissingOK'
  BY <1>1, <1>2, <1>4, <1>5 DEF ControlOK, StartOK, Early, ReachOK, RangeOK, MissingOK, Running
<1>10. SinceOK'
  BY <1>1, <1>2, <1>3, <1>4, <1>5 DEF SinceOK, file
<1> QED BY <1>8, <1>9, <1>10 DEF ShapeOK

\* One chunk backwards: where the next chunk ends, or where the output starts.
LEMMA BackIs ==
  ASSUME ShapeOK, TailBack
  PROVE  /\ UNCHANGED <<arguments, world, at, buf, text, emitted, diff, out, short, end>>
         /\ pc = "back" /\ tool = "Tail" /\ pos > 0
         /\ \/ pc' = "done" /\ rc' = 5 /\ open' \subseteq open /\ UNCHANGED <<lines, pos>>
            \/ \E base \in Nat :
                 LET c == SubSeq(file, base + 1, pos)
                     n == Cardinality(LineEnds(c))
                 IN  /\ base < pos /\ n \in Nat /\ UNCHANGED <<rc, open>>
                     /\ \/ /\ lines + n > number /\ pc' = "start" /\ lines' = number + 1
                           /\ n - number + lines \in 1..n
                           /\ pos' = base + NthEnd(c, n - number + lines)
                           /\ pos' > base /\ pos' <= pos /\ pos' \in Nat
                        \/ lines + n <= number /\ pc' = "back" /\ lines' = lines + n /\ pos' = base
<1>1. /\ UNCHANGED <<arguments, world, at, buf, text, emitted, diff, out, short, end>>
      /\ pc = "back" /\ tool = "Tail" /\ pos > 0
  BY DEF TailBack, ShapeOK, ControlOK
<1>2. /\ pos \in Nat /\ lines \in Nat /\ number \in Nat /\ lines <= number /\ file \in Seq(Characters)
      /\ pos <= Len(file) /\ Len(file) \in Nat
  BY <1>1, SMTT(30) DEF ShapeOK, TypeOK, SinceOK, file, NoLimit
<1>3. CASE Return(5, {1}) /\ UNCHANGED <<lines, pos>>
  BY <1>1, <1>3 DEF Return
<1>4. CASE ~(Return(5, {1}) /\ UNCHANGED <<lines, pos>>)
  <2> DEFINE base == pos - Min({pos, ReadSize})
             c == SubSeq(file, base + 1, pos)
             n == Cardinality(LineEnds(c))
  <2>1. /\ lines' = Min({lines + n, number + 1})
        /\ IF lines + n > number
           THEN pos' = FoundStart(base, c, number + 1 - lines) /\ Goto("start")
           ELSE pos' = base /\ Goto("back")
    BY <1>4 DEF TailBack, file
  <2>2. base \in Nat /\ base < pos
    <3>1. pos \in Int /\ ReadSize \in Int
      BY <1>2
    <3>2. /\ pos <= ReadSize => Min({pos, ReadSize}) = pos
          /\ ReadSize <= pos => Min({pos, ReadSize}) = ReadSize
      BY ONLY <3>1, MinMaxOfTwo
    <3> QED BY <1>1, <1>2, <3>2
  <2> HIDE DEF base
  <2>3. c \in Seq(Characters) /\ Len(c) = pos - base
    <3>1. base \in Nat /\ pos \in Nat /\ base <= pos /\ pos <= Len(file) /\ file \in Seq(Characters)
      BY <1>2, <2>2
    <3> QED BY ONLY <3>1, SliceIs
  <2> HIDE DEF c
  <2>4. n \in Nat
    <3>1. Count(c, Len(c)) = n /\ \A k \in Nat : Count(c, k) \in Nat
      BY ONLY <2>3, CountIs DEF n
    <3> QED BY <2>3, <3>1
  <2> HIDE DEF n
  <2>5. Min({lines + n, number + 1}) = IF lines + n > number THEN number + 1 ELSE lines + n
    <3>1. lines + n \in Int /\ number + 1 \in Int
      BY <1>2, <2>4
    <3>2. /\ lines + n <= number + 1 => Min({lines + n, number + 1}) = lines + n
          /\ number + 1 <= lines + n => Min({lines + n, number + 1}) = number + 1
      BY ONLY <3>1, MinMaxOfTwo
    <3> QED BY <1>2, <2>4, <3>2
  <2>6. CASE lines + n > number
    <3>1. n - number + lines \in Nat /\ n - number + lines >= 1 /\ n - number + lines <= n
          /\ n - (number + 1 - lines) + 1 = n - number + lines
      BY <1>2, <2>4, <2>6
    <3>2. NthEnd(c, n - number + lines) \in 1..Len(c)
      <4>1. n - number + lines <= Cardinality(LineEnds(c)) /\ c \in Seq(Characters)
        BY <2>3, <3>1 DEF n
      <4> QED BY ONLY <3>1, <4>1, NthEndIs
    <3>3. pos' = base + NthEnd(c, n - number + lines)
      BY <2>1, <2>6, <3>1 DEF FoundStart, n
    <3>4. pos' > base /\ pos' <= pos /\ pos' \in Nat
      BY <1>2, <2>2, <2>3, <3>2, <3>3
    <3>5. pc' = "start" /\ UNCHANGED <<rc, open>> /\ lines' = number + 1
      BY <2>1, <2>5, <2>6 DEF Goto
    <3>6. n - number + lines \in 1..n
      BY <2>4, <3>1
    <3> QED BY <1>1, <2>2, <2>4, <2>6, <3>3, <3>4, <3>5, <3>6 DEF c, n
  <2>7. CASE ~(lines + n > number)
    <3>1. pc' = "back" /\ UNCHANGED <<rc, open>> /\ lines' = lines + n /\ pos' = base
      BY <2>1, <2>5, <2>7 DEF Goto
    <3>2. lines + n <= number
      BY <1>2, <2>4, <2>7
    <3> QED BY <1>1, <2>2, <2>4, <3>1, <3>2 DEF c, n
  <2> QED BY <2>6, <2>7
<1> QED BY <1>3, <1>4

LEMMA ShapeTailBack == ASSUME ShapeOK, TailBack PROVE ShapeOK'
<1> USE DEF arguments, world
<1>1. /\ pc = "back" /\ TypeOK /\ ControlOK /\ StartOK /\ ReachOK /\ SinceOK /\ tool = "Tail"
      /\ UNCHANGED <<tool, number, offset, files, grown, at, buf, text, emitted, diff,
                     out, short, end>>
  BY BackIs DEF ShapeOK
<1>2. /\ number \in Nat /\ files[1] \in Seq(Characters) /\ lines \in Nat
      /\ InRange /\ ~NoWork /\ rc = Running /\ pos \in Nat /\ end \in Nat /\ pos <= end
  BY <1>1 DEF TypeOK, ControlOK, SinceOK, NoLimit
<1>4. Items' = Items /\ (NoWork' <=> NoWork) /\ (InRange' <=> InRange) /\ file' = file
  BY <1>1 DEF Items, NoWork, InRange, NoLimit, file
<1>5. /\ \/ pc' = "done" /\ rc' = 5 /\ open' \subseteq open
         \/ pc' = "start" /\ UNCHANGED <<rc, open>>
         \/ pc' = "back" /\ UNCHANGED <<rc, open>> /\ lines' <= number
      /\ lines' \in Nat /\ pos' \in Nat /\ pos' <= pos
  <2>1. CASE pc' = "done" /\ rc' = 5 /\ open' \subseteq open /\ UNCHANGED <<lines, pos>>
    BY <1>2, <2>1
  <2>2. CASE ~(pc' = "done" /\ rc' = 5 /\ open' \subseteq open /\ UNCHANGED <<lines, pos>>)
    <3>1. PICK base \in Nat :
                 LET c == SubSeq(file, base + 1, pos)
                     n == Cardinality(LineEnds(c))
                 IN  /\ base < pos /\ n \in Nat /\ UNCHANGED <<rc, open>>
                     /\ \/ /\ lines + n > number /\ pc' = "start" /\ lines' = number + 1
                           /\ n - number + lines \in 1..n
                           /\ pos' = base + NthEnd(c, n - number + lines)
                           /\ pos' > base /\ pos' <= pos /\ pos' \in Nat
                        \/ lines + n <= number /\ pc' = "back" /\ lines' = lines + n /\ pos' = base
      BY <2>2, BackIs
    <3> QED BY <1>2, <3>1
  <2> QED BY <2>1, <2>2
<1>6. rc' \in {Running, 0, 5, 10} /\ open' \subseteq 1..2
      /\ pc' \in {"args", "open", "second", "end", "back", "start", "read", "scan", "done"}
  BY <1>1, <1>5 DEF TypeOK
<1>7. TypeOK'
  BY <1>1, <1>4, <1>5, <1>6 DEF TypeOK
<1>8. ControlOK' /\ StartOK' /\ ReachOK' /\ RangeOK' /\ MissingOK'
  BY <1>1, <1>2, <1>4, <1>5 DEF ControlOK, StartOK, Early, ReachOK, RangeOK, MissingOK, Running
<1>9. pos' <= end'
  BY <1>1, <1>2, <1>5
<1>10. end' <= Len(file') /\ (pc' = "back" => lines' <= number')
  BY <1>1, <1>4, <1>5 DEF SinceOK
<1>11. SinceOK'
  <2>1. pc' \in {"back", "start", "done"} /\ (pc' = "done" => rc' = 5)
    BY <1>5
  <2> QED BY <1>9, <1>10, <2>1 DEF SinceOK
<1> QED BY <1>7, <1>8, <1>11 DEF ShapeOK

\* Steps of the loop that reads.
Figures == [have : BOOLEAN, first : Nat, differing : Nat, offset : Nat]

LEMMA ShapeReads ==
  ASSUME ShapeOK, pc \in {"read", "scan"}, UNCHANGED <<arguments, world, pos, end>>,
         lines' \in Nat, at' \in [1..2 -> Nat],
         at'[1] <= Len(files[1]), at'[2] <= Len(files[2]),
         buf' \in Seq(Characters), Len(buf') <= ReadSize,
         text' \in Seq(Characters), Len(text') <= StringBytes - 1,
         emitted' \in BOOLEAN, short' \in BOOLEAN, diff' \in Figures, out' \in Seq(Items),
         \/ pc' = "done" /\ rc' \in {0, 5} /\ open' \subseteq open
         \/ pc' = "read" /\ rc' = rc /\ open' = open
         \/ pc' = "scan" /\ rc' = rc /\ open' = open /\ tool = "Strings",
         RangeOK', tool = "Tail" => SinceOK', tool = "Head" => MissingOK'
  PROVE  ShapeOK'
<1> USE DEF arguments, world
<1>1. TypeOK /\ ControlOK
  BY DEF ShapeOK
<1>2. Items' = Items /\ (NoWork' <=> NoWork) /\ (InRange' <=> InRange)
  BY DEF Items, NoWork, InRange, NoLimit
<1>3. rc' \in {Running, 0, 5, 10} /\ open' \subseteq 1..2
      /\ pc' \in {"args", "open", "second", "end", "back", "start", "read", "scan", "done"}
  BY <1>1 DEF TypeOK
<1>4. TypeOK'
  BY <1>1, <1>2, <1>3 DEF TypeOK, Figures
<1>5. ControlOK'
  <2>1. pc' \in {"read", "scan", "done"} /\ ~NoWork /\ InRange /\ rc = Running
    BY <1>1 DEF ControlOK
  <2>2. pc' = "done" <=> rc' # Running
    BY <2>1 DEF Running
  <2> QED BY <1>2, <2>1, <2>2 DEF ControlOK
<1>6. StartOK' /\ ReachOK'
  BY DEF StartOK, Early, ReachOK
<1>7. SinceOK' /\ MissingOK'
  BY DEF SinceOK, MissingOK
<1> QED BY <1>4, <1>5, <1>6, <1>7 DEF ShapeOK

\* Reading on in the first file.
LEMMA FirstReach ==
  ASSUME ShapeOK, NEW n \in Nat, n >= 1, NEW c \in Chunks(1, n),
         at' = [at EXCEPT ![1] = @ + Len(c)]
  PROVE  /\ at' \in [1..2 -> Nat] /\ at'[1] = at[1] + Len(c) /\ at'[1] <= Len(files[1])
         /\ at'[2] = at[2] /\ at'[2] <= Len(files[2])
         /\ file \in Seq(Characters) /\ at[1] \in Nat /\ Len(file) \in Nat
         /\ c \in Seq(Characters) /\ Len(c) \in Nat /\ Len(c) <= n
         /\ at[1] + Len(c) <= Len(file)
         /\ c = SubSeq(file, at[1] + 1, at[1] + Len(c))
         /\ c = <<>> <=> at[1] = Len(file)
         /\ c = <<>> <=> Len(c) = 0
<1>1. /\ files \in [1..2 -> Seq(Characters)] /\ at \in [1..2 -> Nat]
      /\ at[1] <= Len(files[1]) /\ at[2] <= Len(files[2])
  BY DEF ShapeOK, TypeOK, ReachOK
<1>2. 1 \in 1..2 /\ 2 \in 1..2
  OBVIOUS
<1>3. /\ c \in Seq(Characters) /\ Len(c) \in Nat /\ Len(c) <= n
      /\ at[1] + Len(c) <= Len(files[1])
      /\ c = SubSeq(files[1], at[1] + 1, at[1] + Len(c))
      /\ c = <<>> <=> at[1] = Len(files[1])
      /\ c = <<>> <=> Len(c) = 0
  BY <1>1, <1>2, ChunkIs
<1>4. at[1] \in Nat /\ files[1] \in Seq(Characters) /\ Len(files[1]) \in Nat
  BY <1>1
<1>5. /\ at' \in [1..2 -> Nat] /\ at'[1] = at[1] + Len(c) /\ at'[2] = at[2]
  BY <1>1, <1>3
<1> QED BY <1>1, <1>3, <1>4, <1>5 DEF file

LEMMA ShapeHead == ASSUME ShapeOK, HeadRead PROVE ShapeOK'
<1>1. /\ pc = "read" /\ tool = "Head"
      /\ UNCHANGED <<arguments, world, pos, buf, text, emitted, diff, end>>
  BY DEF HeadRead
<1>2. TypeOK /\ Items = Characters /\ ReachOK /\ tool' = tool
  BY <1>1 DEF ShapeOK, Items, arguments
<1>3. /\ out \in Seq(Characters) /\ diff \in Figures /\ lines \in Nat /\ number \in Nat
      /\ buf' \in Seq(Characters) /\ Len(buf') <= ReadSize
      /\ text' \in Seq(Characters) /\ Len(text') <= StringBytes - 1
      /\ diff' \in Figures /\ RangeOK' /\ (tool = "Tail" => SinceOK')
  BY <1>1, <1>2 DEF TypeOK, NoLimit, Figures, RangeOK
<1>4. emitted' \in BOOLEAN
  BY <1>1, <1>2 DEF TypeOK
<1>5. CASE Return(5, {1}) /\ UNCHANGED <<at, lines, out, short>>
  <2>1. /\ pc' = "done" /\ rc' \in {0, 5} /\ open' \subseteq open /\ at' \in [1..2 -> Nat]
        /\ at'[1] <= Len(files[1]) /\ at'[2] <= Len(files[2]) /\ lines' \in Nat
        /\ out' \in Seq(Items) /\ MissingOK'
    BY <1>2, <1>3, <1>5 DEF Return, TypeOK, ReachOK, MissingOK
  <2>2. short' \in BOOLEAN
    BY <1>2, <1>5 DEF TypeOK
  <2> QED BY <1>1, <1>2, <1>3, <1>4, <2>1, <2>2, ShapeReads
<1>6. CASE \E c \in Chunks(1, ReadSize) :
          /\ at' = [at EXCEPT ![1] = @ + Len(c)]
          /\ short' = (short \/ Len(c) < Min({ReadSize, Left(1)}))
          /\ lines' = lines + Cardinality(LineEnds(c))
          /\ \/ c = <<>> /\ Return(0, {1}) /\ UNCHANGED out
             \/ /\ c # <<>> /\ lines' >= number
                /\ WriteThen(SubSeq(c, 1, NthEnd(c, number - lines)), "done")
             \/ c # <<>> /\ lines' < number /\ WriteThen(c, "read")
  <2>1. PICK c \in Chunks(1, ReadSize) :
          /\ at' = [at EXCEPT ![1] = @ + Len(c)]
          /\ short' = (short \/ Len(c) < Min({ReadSize, Left(1)}))
          /\ lines' = lines + Cardinality(LineEnds(c))
          /\ \/ c = <<>> /\ Return(0, {1}) /\ UNCHANGED out
             \/ /\ c # <<>> /\ lines' >= number
                /\ WriteThen(SubSeq(c, 1, NthEnd(c, number - lines)), "done")
             \/ c # <<>> /\ lines' < number /\ WriteThen(c, "read")
    BY <1>6
  <2>2. /\ at' \in [1..2 -> Nat] /\ at'[1] <= Len(files[1]) /\ at'[2] <= Len(files[2])
        /\ c \in Seq(Characters) /\ Len(c) \in Nat
    BY <2>1, FirstReach
  <2>3. short' \in BOOLEAN
    BY <2>1
  <2>4. Cardinality(LineEnds(c)) \in Nat
    BY <2>2, CountIs
  <2>5. lines' \in Nat
    BY <1>3, <2>1, <2>4
  <2>6. CASE c = <<>> /\ Return(0, {1}) /\ UNCHANGED out
    <3>1. pc' = "done" /\ rc' \in {0, 5} /\ open' \subseteq open /\ out' \in Seq(Items) /\ MissingOK'
      BY <1>2, <1>3, <2>6 DEF Return, MissingOK
    <3> QED BY <1>1, <1>2, <1>3, <1>4, <2>2, <2>3, <2>5, <3>1, ShapeReads
  <2>7. CASE /\ c # <<>> /\ lines' >= number
             /\ WriteThen(SubSeq(c, 1, NthEnd(c, number - lines)), "done")
    <3> DEFINE e == NthEnd(c, number - lines)
               s == SubSeq(c, 1, e)
    <3>1. /\ number - lines \in Nat /\ number - lines >= 1
          /\ number - lines <= Cardinality(LineEnds(c)) /\ c \in Seq(Characters)
      BY <1>1, <1>2, <1>3, <2>1, <2>2, <2>4, <2>7 DEF ShapeOK, MissingOK
    <3>2. e \in 1..Len(c)
      BY ONLY <3>1, NthEndIs
    <3> HIDE DEF e
    <3>3. s \in Seq(Characters)
      <4>1. 0 \in Nat /\ e \in Nat /\ 0 <= e /\ e <= Len(c) /\ 0 + 1 = 1
        BY <2>2, <3>2
      <4>2. SubSeq(c, 0 + 1, e) \in Seq(Characters)
        BY ONLY <2>2, <4>1, SliceIs
      <4> QED BY <4>1, <4>2
    <3>4. WriteThen(s, "done")
      BY <2>7 DEF e
    <3> HIDE DEF s
    <3>5. out' \in Seq(Items) /\ pc' = "done" /\ rc' \in {0, 5} /\ open' \subseteq open
      BY <1>2, <1>3, <3>3, <3>4, WriteIs
    <3>6. MissingOK'
      BY <3>5 DEF MissingOK
    <3> QED BY <1>1, <1>2, <1>3, <1>4, <2>2, <2>3, <2>5, <3>5, <3>6, ShapeReads
  <2>8. CASE c # <<>> /\ lines' < number /\ WriteThen(c, "read")
    <3>1. /\ out' \in Seq(Items)
          /\ \/ pc' = "done" /\ rc' \in {0, 5} /\ open' \subseteq open
             \/ pc' = "read" /\ rc' = rc /\ open' = open
      BY <1>2, <1>3, <2>2, <2>8, WriteIs
    <3>2. number' = number
      BY <1>1 DEF arguments
    <3>3. MissingOK'
      BY <2>8, <3>1, <3>2 DEF MissingOK
    <3> QED BY <1>1, <1>2, <1>3, <1>4, <2>2, <2>3, <2>5, <3>1, <3>3, ShapeReads
  <2> QED BY <2>1, <2>6, <2>7, <2>8
<1> QED BY <1>5, <1>6, HeadReadIs

LEMMA ShapeTailRead == ASSUME ShapeOK, TailRead PROVE ShapeOK'
<1>1. /\ pc = "read" /\ tool = "Tail"
      /\ UNCHANGED <<arguments, world, lines, pos, buf, text, emitted, diff, end>>
  BY DEF TailRead
<1>2. TypeOK /\ Items = Characters /\ ReachOK /\ SinceOK /\ tool' = tool /\ file' = file
      /\ number' = number
  BY <1>1 DEF ShapeOK, Items, arguments, world, file
<1>3. /\ out \in Seq(Characters) /\ lines' \in Nat /\ number \in Nat /\ pos \in Nat /\ end \in Nat
      /\ buf' \in Seq(Characters) /\ Len(buf') <= ReadSize
      /\ text' \in Seq(Characters) /\ Len(text') <= StringBytes - 1
      /\ diff' \in Figures /\ RangeOK' /\ (tool = "Head" => MissingOK')
  BY <1>1, <1>2 DEF TypeOK, NoLimit, Figures, RangeOK
<1>4. emitted' \in BOOLEAN
  BY <1>1, <1>2 DEF TypeOK
<1>S. /\ pos <= end /\ end <= Len(file) /\ pos <= at[1] /\ out = SubSeq(file, pos + 1, at[1])
      /\ pos' = pos /\ end' = end
  BY <1>1, <1>2 DEF SinceOK
<1>5. CASE Return(5, {1}) /\ UNCHANGED <<at, out, short>>
  <2>1. /\ pc' = "done" /\ rc' = 5 /\ open' \subseteq open /\ at' \in [1..2 -> Nat]
        /\ at'[1] <= Len(files[1]) /\ at'[2] <= Len(files[2])
        /\ out' \in Seq(Items)
    BY <1>2, <1>3, <1>5 DEF Return, TypeOK, ReachOK
  <2>2. short' \in BOOLEAN
    BY <1>2, <1>5 DEF TypeOK
  <2>3. SinceOK'
    BY <1>2, <1>S, <2>1 DEF SinceOK
  <2> QED BY <1>1, <1>2, <1>3, <1>4, <2>1, <2>2, <2>3, ShapeReads
<1>6. CASE \E c \in Chunks(1, ReadSize) :
          /\ at' = [at EXCEPT ![1] = @ + Len(c)]
          /\ short' = (short \/ Len(c) < Min({ReadSize, Left(1)}))
          /\ IF c = <<>> THEN Return(0, {1}) /\ UNCHANGED out ELSE WriteThen(c, "read")
  <2>1. PICK c \in Chunks(1, ReadSize) :
          /\ at' = [at EXCEPT ![1] = @ + Len(c)]
          /\ short' = (short \/ Len(c) < Min({ReadSize, Left(1)}))
          /\ IF c = <<>> THEN Return(0, {1}) /\ UNCHANGED out ELSE WriteThen(c, "read")
    BY <1>6
  <2>2. /\ at' \in [1..2 -> Nat] /\ at'[1] <= Len(files[1]) /\ at'[2] <= Len(files[2])
        /\ at'[1] = at[1] + Len(c)
        /\ file \in Seq(Characters) /\ at[1] \in Nat /\ Len(file) \in Nat
        /\ c \in Seq(Characters) /\ Len(c) \in Nat
        /\ at[1] + Len(c) <= Len(file)
        /\ c = SubSeq(file, at[1] + 1, at[1] + Len(c))
        /\ c = <<>> <=> at[1] = Len(file)
    BY <2>1, FirstReach
  <2>3. short' \in BOOLEAN
    BY <2>1
  <2>4. CASE c = <<>> /\ Return(0, {1}) /\ UNCHANGED out
    <3>1. pc' = "done" /\ rc' = 0 /\ open' \subseteq open /\ out' \in Seq(Items) /\ out' = out
      BY <1>2, <1>3, <2>4 DEF Return
    <3>2. at[1] \in end..Len(file) /\ out' = SubSeq(file, pos + 1, at[1])
      BY <1>3, <1>S, <2>2, <2>4, <3>1
    <3>3. SinceOK'
      BY <1>2, <1>S, <3>1, <3>2 DEF SinceOK
    <3> QED BY <1>1, <1>2, <1>3, <1>4, <2>2, <2>3, <3>1, <3>3, ShapeReads
  <2>5. CASE WriteThen(c, "read")
    <3>0. out \in Seq(Characters) /\ c \in Seq(Characters) /\ at[1] \in Nat /\ Len(c) \in Nat
          /\ pos \in Nat /\ pos <= at[1] /\ at[1] + Len(c) <= Len(file) /\ file \in Seq(Characters)
      BY <1>3, <1>S, <2>2
    <3>1. /\ out' \in Seq(Items)
          /\ \/ pc' = "done" /\ rc' = 5 /\ open' \subseteq open
             \/ pc' = "read" /\ rc' = rc /\ open' = open /\ out' = out \o c
      <4>1. /\ out' \in Seq(Characters)
            /\ \/ pc' = "done" /\ rc' = 5 /\ open' \subseteq open
               \/ pc' = "read" /\ rc' = rc /\ open' = open /\ out' = out \o c
        BY ONLY <2>5, <3>0, WriteIs
      <4> QED BY <1>2, <4>1
    <3>2. /\ at[1] + Len(c) \in Nat /\ at[1] <= at[1] + Len(c)
          /\ pos <= at[1] + Len(c)
      BY ONLY <3>0
    <3>3. out \o c = SubSeq(file, pos + 1, at[1] + Len(c))
      <4>1. SubSeq(file, pos + 1, at[1]) \o SubSeq(file, at[1] + 1, at[1] + Len(c))
              = SubSeq(file, pos + 1, at[1] + Len(c))
        BY ONLY <3>0, <3>2, SlicesJoin
      <4>2. out = SubSeq(file, pos + 1, at[1]) /\ c = SubSeq(file, at[1] + 1, at[1] + Len(c))
        BY <1>S, <2>2
      <4> QED BY ONLY <4>1, <4>2, Zenon
    <3>4. SinceOK'
      <4>1. CASE pc' = "done"
        BY <1>2, <1>S, <3>1, <4>1 DEF SinceOK
      <4>2. CASE pc' = "read"
        <5>1. pos' <= at'[1] /\ out' = SubSeq(file', pos' + 1, at'[1])
          <6>1. at'[1] = at[1] + Len(c)
            BY <2>2
          <6>2. out' = out \o c
            BY <3>1, <4>2
          <6> QED BY ONLY <1>2, <1>S, <3>2, <3>3, <6>1, <6>2
        <5>2. pos' <= end' /\ end' <= Len(file')
          BY <1>2, <1>S
        <5> QED BY ONLY <4>2, <5>1, <5>2 DEF SinceOK
      <4> QED BY <3>1, <4>1, <4>2
    <3> QED BY <1>1, <1>2, <1>3, <1>4, <2>2, <2>3, <3>1, <3>4, ShapeReads
  <2> QED BY <2>1, <2>4, <2>5
<1> QED BY <1>5, <1>6, TailReadIs

\* What a run that ends writes.
LEMMA RunEndType == ASSUME TypeOK PROVE RunEnd \in Seq(Characters)
<1>1. text \in Seq(Characters) /\ <<"nl">> \in Seq(Characters) /\ <<>> \in Seq(Characters)
  BY DEF TypeOK, Characters
<1>2. text \o <<"nl">> \in Seq(Characters)
  BY <1>1, ConcatProperties
<1> QED BY <1>1, <1>2 DEF RunEnd

LEMMA ShapeStringsRead == ASSUME ShapeOK, StringsRead PROVE ShapeOK'
<1>1. /\ pc = "read" /\ tool = "Strings"
      /\ UNCHANGED <<arguments, world, lines, pos, text, emitted, diff, end>>
  BY DEF StringsRead
<1>2. TypeOK /\ Items = Characters /\ ReachOK /\ tool' = tool
  BY <1>1 DEF ShapeOK, Items, arguments
<1>3. /\ out \in Seq(Characters) /\ lines' \in Nat
      /\ text' \in Seq(Characters) /\ Len(text') <= StringBytes - 1
      /\ diff' \in Figures /\ RangeOK'
  BY <1>1, <1>2 DEF TypeOK, Figures, RangeOK
<1>4. emitted' \in BOOLEAN
  BY <1>1, <1>2 DEF TypeOK
<1>5. CASE Return(5, {1}) /\ UNCHANGED <<at, buf, out, short>>
  <2>1. /\ pc' = "done" /\ rc' = 5 /\ open' \subseteq open /\ at' \in [1..2 -> Nat]
        /\ at'[1] <= Len(files[1]) /\ at'[2] <= Len(files[2])
        /\ out' \in Seq(Items) /\ buf' \in Seq(Characters) /\ Len(buf') <= ReadSize
    BY <1>2, <1>3, <1>5 DEF Return, TypeOK, ReachOK
  <2>2. short' \in BOOLEAN
    BY <1>2, <1>5 DEF TypeOK
  <2> QED BY <1>1, <1>2, <1>3, <1>4, <2>1, <2>2, ShapeReads
<1>6. CASE \E c \in Chunks(1, ReadSize) :
          /\ at' = [at EXCEPT ![1] = @ + Len(c)]
          /\ short' = (short \/ Len(c) < Min({ReadSize, Left(1)}))
          /\ buf' = c
          /\ IF c = <<>> THEN WriteThen(RunEnd, "done") ELSE Goto("scan") /\ UNCHANGED out
  <2>1. PICK c \in Chunks(1, ReadSize) :
          /\ at' = [at EXCEPT ![1] = @ + Len(c)]
          /\ short' = (short \/ Len(c) < Min({ReadSize, Left(1)}))
          /\ buf' = c
          /\ IF c = <<>> THEN WriteThen(RunEnd, "done") ELSE Goto("scan") /\ UNCHANGED out
    BY <1>6
  <2>2. /\ at' \in [1..2 -> Nat] /\ at'[1] <= Len(files[1]) /\ at'[2] <= Len(files[2])
        /\ buf' \in Seq(Characters) /\ Len(buf') <= ReadSize
    BY <2>1, FirstReach
  <2>3. short' \in BOOLEAN
    BY <2>1
  <2>4. CASE WriteThen(RunEnd, "done")
    <3>1. out' \in Seq(Items) /\ pc' = "done" /\ rc' \in {0, 5} /\ open' \subseteq open
      BY <1>2, <1>3, <2>4, RunEndType, WriteIs
    <3> QED BY <1>1, <1>2, <1>3, <1>4, <2>2, <2>3, <3>1, ShapeReads
  <2>5. CASE Goto("scan") /\ UNCHANGED out
    <3>1. out' \in Seq(Items) /\ pc' = "scan" /\ rc' = rc /\ open' = open
      BY <1>2, <1>3, <2>5 DEF Goto
    <3> QED BY <1>1, <1>2, <1>3, <1>4, <2>2, <2>3, <3>1, ShapeReads
  <2> QED BY <2>1, <2>4, <2>5
<1> QED BY <1>5, <1>6, StringsReadIs

LEMMA ShapeStringsScan == ASSUME ShapeOK, StringsScan PROVE ShapeOK'
<1>1. /\ pc = "scan" /\ buf # <<>> /\ buf' = Tail(buf)
      /\ UNCHANGED <<arguments, world, at, lines, pos, diff, short, end>>
  BY DEF StringsScan
<1>2. TypeOK /\ tool = "Strings" /\ Items = Characters /\ ReachOK /\ tool' = tool
      /\ number \in 1..(StringBytes - 1)
  BY <1>1 DEF ShapeOK, ControlOK, Items, arguments, InRange
<1>3. /\ out \in Seq(Characters) /\ lines' \in Nat /\ at' \in [1..2 -> Nat]
      /\ at'[1] <= Len(files[1]) /\ at'[2] <= Len(files[2])
      /\ diff' \in Figures /\ RangeOK' /\ text \in Seq(Characters) /\ Len(text) <= StringBytes - 1
      /\ buf \in Seq(Characters) /\ Len(buf) <= ReadSize
  BY <1>1, <1>2 DEF TypeOK, Figures, RangeOK, ReachOK
<1>4. short' \in BOOLEAN
  BY <1>1, <1>2 DEF TypeOK
<1>5. buf' \in Seq(Characters) /\ Len(buf') <= ReadSize
  <2>1. Tail(buf) \in Seq(Characters) /\ Len(Tail(buf)) = Len(buf) - 1
    BY <1>1, <1>3, HeadTailProperties
  <2>2. Len(buf) \in Nat
    BY <1>3
  <2> QED BY <1>1, <1>3, <2>1, <2>2
<1>6. CASE WriteThen(text, "scan") /\ emitted' = TRUE /\ text' = <<"ch">>
  <2>1. /\ out' \in Seq(Items)
        /\ \/ pc' = "done" /\ rc' \in {0, 5} /\ open' \subseteq open
           \/ pc' = "scan" /\ rc' = rc /\ open' = open
    BY <1>2, <1>3, <1>6, WriteIs
  <2>2. text' \in Seq(Characters) /\ Len(text') = 1
    BY <1>6 DEF Characters
  <2>3. Len(text') <= StringBytes - 1
    BY <1>2, <2>2
  <2> QED BY <1>1, <1>2, <1>3, <1>4, <1>5, <1>6, <2>1, <2>2, <2>3, ShapeReads
<1>7. CASE ~Full /\ Goto("scan") /\ text' = Append(text, "ch") /\ UNCHANGED <<emitted, out>>
  <2>1. out' \in Seq(Items) /\ pc' = "scan" /\ rc' = rc /\ open' = open
    BY <1>2, <1>3, <1>7 DEF Goto
  <2>2. text' \in Seq(Characters) /\ Len(text') = Len(text) + 1
    <3>1. "ch" \in Characters
      BY DEF Characters
    <3> QED BY <1>3, <1>7, <3>1, AppendProperties
  <2>3. Len(text') <= StringBytes - 1
    <3>1. Len(text) \in Nat /\ Len(text) # StringBytes - 1
      BY <1>3, <1>7 DEF Full
    <3> QED BY <1>3, <2>2, <3>1
  <2>4. emitted' \in BOOLEAN
    BY <1>2, <1>7 DEF TypeOK
  <2> QED BY <1>1, <1>2, <1>3, <1>4, <1>5, <2>1, <2>2, <2>3, <2>4, ShapeReads
<1>8. CASE WriteThen(RunEnd, "scan") /\ emitted' = FALSE /\ text' = <<>>
  <2>1. /\ out' \in Seq(Items)
        /\ \/ pc' = "done" /\ rc' \in {0, 5} /\ open' \subseteq open
           \/ pc' = "scan" /\ rc' = rc /\ open' = open
    BY <1>2, <1>3, <1>8, RunEndType, WriteIs
  <2>2. text' \in Seq(Characters) /\ Len(text') = 0
    BY <1>8
  <2>3. Len(text') <= StringBytes - 1
    BY <2>2
  <2> QED BY <1>1, <1>2, <1>3, <1>4, <1>5, <1>8, <2>1, <2>2, <2>3, ShapeReads
<1> QED BY <1>3, <1>6, <1>7, <1>8, ScanIs

\* What is left of Hex's range.
LEMMA RangeIs ==
  ASSUME ShapeOK, tool = "Hex", pc = "read"
  PROVE  /\ Len(out) \in Nat /\ offset \in Nat /\ number \in Nat /\ RangeLeft \in Nat
         /\ RangeLeft <= SeekSpace - offset - Len(out)
         /\ number # NoLimit => RangeLeft <= number - Len(out)
         /\ RangeLeft = 0 => \/ Len(out) = SeekSpace - offset
                             \/ number # NoLimit /\ Len(out) = number
<1>1. /\ out \in Seq((0..(SeekSpace - 1)) \X Characters) /\ offset \in Nat /\ number \in Nat
      /\ Len(out) <= SeekSpace - offset
      /\ number # NoLimit => Len(out) <= number
  BY DEF ShapeOK, TypeOK, Items, RangeOK, NoLimit
<1>2. Len(out) \in Nat
  BY <1>1
<1> DEFINE a == SeekSpace - offset - Len(out)
           b == IF number = NoLimit THEN SeekSpace ELSE number - Len(out)
<1>3. a \in Int /\ b \in Int /\ a >= 0 /\ b >= 0 /\ SeekSpace >= 1
  BY <1>1, <1>2
<1> HIDE DEF a, b
<1>4. /\ a <= b => Min({a, b}) = a
      /\ b <= a => Min({a, b}) = b
  BY ONLY <1>3, MinMaxOfTwo
<1>5. RangeLeft = Min({a, b})
  BY DEF RangeLeft, a, b
<1> QED BY <1>1, <1>2, <1>3, <1>4, <1>5 DEF a, b

\* The line that Hex shows of a chunk.
LEMMA LineIs ==
  ASSUME NEW c \in Seq(Characters), NEW a \in Nat, a + Len(c) <= SeekSpace
  PROVE  LET s == [k \in DOMAIN c |-> <<a + k - 1, c[k]>>]
         IN  /\ s \in Seq((0..(SeekSpace - 1)) \X Characters) /\ Len(s) = Len(c)
             /\ \A k \in 1..Len(c) : s[k] = <<a + k - 1, c[k]>>
<1> DEFINE s == [k \in 1..Len(c) |-> <<a + k - 1, c[k]>>]
<1>1. Len(c) \in Nat /\ DOMAIN c = 1..Len(c) /\ \A k \in 1..Len(c) : c[k] \in Characters
  OBVIOUS
<1>2. \A k \in 1..Len(c) : a + k - 1 \in 0..(SeekSpace - 1)
  BY <1>1
<1>3. \A k \in 1..Len(c) : <<a + k - 1, c[k]>> \in (0..(SeekSpace - 1)) \X Characters
  BY <1>1, <1>2
<1>4. s \in [1..Len(c) -> (0..(SeekSpace - 1)) \X Characters]
  BY <1>3
<1>5. s \in Seq((0..(SeekSpace - 1)) \X Characters)
  BY <1>1, <1>4, SeqDef
<1>6. Len(s) = Len(c)
  BY <1>1, <1>4
<1> QED BY <1>1, <1>5, <1>6

LEMMA ShapeHex == ASSUME ShapeOK, HexLine PROVE ShapeOK'
<1>1. /\ pc = "read" /\ tool = "Hex"
      /\ UNCHANGED <<arguments, world, lines, pos, buf, text, emitted, diff, end>>
  BY DEF HexLine
<1> DEFINE X == (0..(SeekSpace - 1)) \X Characters
<1>2. TypeOK /\ Items = X /\ ReachOK /\ tool' = tool /\ number' = number /\ offset' = offset
  BY <1>1 DEF ShapeOK, Items, arguments
<1> HIDE DEF X
<1>3. /\ out \in Seq(X) /\ lines' \in Nat
      /\ buf' \in Seq(Characters) /\ Len(buf') <= ReadSize
      /\ text' \in Seq(Characters) /\ Len(text') <= StringBytes - 1
      /\ diff' \in Figures
  BY <1>1, <1>2 DEF TypeOK, Figures
<1>4. emitted' \in BOOLEAN
  BY <1>1, <1>2 DEF TypeOK
<1>5. CASE ((RangeLeft = 0 /\ Return(0, {1})) \/ Return(5, {1})) /\ UNCHANGED <<at, out, short>>
  <2>1. /\ pc' = "done" /\ rc' \in {0, 5} /\ open' \subseteq open /\ at' \in [1..2 -> Nat]
        /\ at'[1] <= Len(files[1]) /\ at'[2] <= Len(files[2])
        /\ out' \in Seq(Items)
    BY <1>2, <1>3, <1>5 DEF Return, TypeOK, ReachOK
  <2>2. short' \in BOOLEAN
    BY <1>2, <1>5 DEF TypeOK
  <2>3. RangeOK'
    BY <2>1 DEF RangeOK
  <2> QED BY <1>1, <1>2, <1>3, <1>4, <2>1, <2>2, <2>3, ShapeReads
<1> DEFINE want == Min({ReadSize, RangeLeft})
<1>6. CASE /\ RangeLeft > 0
           /\ \E c \in Chunks(1, want) :
                 /\ at' = [at EXCEPT ![1] = @ + Len(c)]
                 /\ short' = (short \/ Len(c) < Min({want, Left(1)}))
                 /\ IF c = <<>> THEN Return(0, {1}) /\ UNCHANGED out
                    ELSE WriteThen(Line(c), "read")
  <2>1. PICK c \in Chunks(1, want) :
                 /\ at' = [at EXCEPT ![1] = @ + Len(c)]
                 /\ short' = (short \/ Len(c) < Min({want, Left(1)}))
                 /\ IF c = <<>> THEN Return(0, {1}) /\ UNCHANGED out
                    ELSE WriteThen(Line(c), "read")
    BY <1>6
  <2>2. /\ Len(out) \in Nat /\ offset \in Nat /\ number \in Nat /\ RangeLeft \in Nat
        /\ RangeLeft <= SeekSpace - offset - Len(out)
        /\ number # NoLimit => RangeLeft <= number - Len(out)
    BY <1>1, RangeIs
  <2>3. want \in Nat /\ want >= 1 /\ want <= RangeLeft
    <3>1. ReadSize \in Int /\ RangeLeft \in Int
      BY <2>2
    <3>2. /\ ReadSize <= RangeLeft => want = ReadSize
          /\ RangeLeft <= ReadSize => want = RangeLeft
      BY ONLY <3>1, MinMaxOfTwo
    <3> QED BY <1>6, <2>2, <3>2
  <2> HIDE DEF want
  <2>4. /\ at' \in [1..2 -> Nat] /\ at'[1] <= Len(files[1]) /\ at'[2] <= Len(files[2])
        /\ c \in Seq(Characters) /\ Len(c) \in Nat /\ Len(c) <= want
    BY <2>1, <2>3, FirstReach
  <2>5. short' \in BOOLEAN
    BY <2>1
  <2>6. CASE Return(0, {1}) /\ UNCHANGED out
    <3>1. pc' = "done" /\ rc' \in {0, 5} /\ open' \subseteq open /\ out' \in Seq(Items) /\ RangeOK'
      BY <1>2, <1>3, <2>6 DEF Return, RangeOK
    <3> QED BY <1>1, <1>2, <1>3, <1>4, <2>4, <2>5, <3>1, ShapeReads
  <2>7. CASE WriteThen(Line(c), "read")
    <3> DEFINE s == Line(c)
    <3>1. offset + Len(out) \in Nat /\ offset + Len(out) + Len(c) <= SeekSpace
          /\ c \in Seq(Characters)
      BY <2>2, <2>3, <2>4
    <3>2. s \in Seq(X) /\ Len(s) = Len(c)
      BY ONLY <3>1, LineIs DEF X, Line
    <3>3. WriteThen(s, "read")
      BY <2>7
    <3> HIDE DEF s
    <3>4. /\ out' \in Seq(X)
          /\ \/ pc' = "done" /\ rc' \in {0, 5} /\ open' \subseteq open
             \/ pc' = "read" /\ rc' = rc /\ open' = open /\ out' = out \o s
      BY <1>3, <3>2, <3>3, WriteIs
    <3>5. Len(out \o s) = Len(out) + Len(c)
      <4>1. out \in Seq(X) /\ s \in Seq(X)
        BY <1>3, <3>2
      <4>2. Len(out \o s) = Len(out) + Len(s)
        BY ONLY <4>1, ConcatProperties
      <4> QED BY <3>2, <4>2
    <3>6. /\ Len(out \o s) <= SeekSpace - offset
          /\ number # NoLimit => Len(out \o s) <= number
      BY <2>2, <2>3, <2>4, <3>5
    <3>7. RangeOK'
      BY <1>2, <3>4, <3>6 DEF RangeOK, NoLimit
    <3> QED BY <1>1, <1>2, <1>3, <1>4, <2>4, <2>5, <3>4, <3>7, ShapeReads
  <2> QED BY <2>1, <2>6, <2>7
<1> QED BY <1>5, <1>6, HexLineIs

-----------------------------------------------------------------------------
\* The places where two chunks differ, those behind the shorter one included.
Longest(l, r) == IF Len(l) <= Len(r) THEN Len(r) ELSE Len(l)
Differs(l, r) == {k \in 1..Longest(l, r) : ~(k <= Len(l) /\ k <= Len(r) /\ l[k] = r[k])}

\* What Compare adds to SnapDiff's figures.
LEMMA CompareIs ==
  ASSUME NEW d \in Figures, NEW l \in Seq(Characters), NEW r \in Seq(Characters)
  PROVE  LET U == Differs(l, r)
             e == Compare(d, l, r)
         IN  /\ e \in Figures /\ IsFiniteSet(U) /\ Cardinality(U) \in Nat
             /\ Longest(l, r) \in Nat
             /\ U # {} => Min(U) \in U /\ \A k \in U : Min(U) <= k
             /\ e.have <=> d.have \/ U # {}
             /\ e.first = IF d.have \/ U = {} THEN d.first ELSE d.offset + Min(U) - 1
             /\ e.differing = d.differing + Cardinality(U)
             /\ e.offset = d.offset + Longest(l, r)
<1> DEFINE U == Differs(l, r)
           L == Longest(l, r)
<1>1. Len(l) \in Nat /\ Len(r) \in Nat
  OBVIOUS
<1>2. /\ Min({Len(l), Len(r)}) = IF Len(l) <= Len(r) THEN Len(l) ELSE Len(r)
      /\ Max({Len(l), Len(r)}) = L
  <2>1. Len(l) \in Int /\ Len(r) \in Int
    BY <1>1
  <2>2. /\ Len(l) <= Len(r) => Min({Len(l), Len(r)}) = Len(l) /\ Max({Len(l), Len(r)}) = Len(r)
        /\ Len(r) <= Len(l) => Min({Len(l), Len(r)}) = Len(r) /\ Max({Len(l), Len(r)}) = Len(l)
    BY ONLY <2>1, MinMaxOfTwo
  <2> QED BY <1>1, <2>2 DEF Longest
<1> DEFINE m == Min({Len(l), Len(r)})
<1>3. m \in Nat /\ L \in Nat /\ m <= L
      /\ \A k \in Nat : k <= m <=> k <= Len(l) /\ k <= Len(r)
  <2>1. CASE Len(l) <= Len(r)
    <3>1. m = Len(l) /\ L = Len(r)
      BY <1>2, <2>1 DEF Longest
    <3> HIDE DEF m, L
    <3> QED BY <1>1, <2>1, <3>1
  <2>2. CASE ~(Len(l) <= Len(r))
    <3>1. m = Len(r) /\ L = Len(l)
      BY <1>2, <2>2 DEF Longest
    <3> HIDE DEF m, L
    <3> QED BY <1>1, <2>2, <3>1
  <2> QED BY <2>1, <2>2
<1>4. {k \in 1..m : l[k] # r[k]} \cup (m + 1)..L = U
  <2> HIDE DEF m
  <2>1. \A k \in 1..L : k \in Nat /\ (k <= m \/ k \in (m + 1)..L)
    BY <1>3
  <2>2. \A k \in 1..m : k \in 1..L /\ k \in Nat /\ k <= m
    BY <1>3
  <2>3. \A k \in (m + 1)..L : k \in 1..L /\ k \in Nat /\ ~(k <= m)
    BY <1>3
  <2>4. U = {k \in 1..L : ~(k <= Len(l) /\ k <= Len(r) /\ l[k] = r[k])}
    BY DEF Differs
  <2>5. U = {k \in 1..L : ~(k <= m /\ l[k] = r[k])}
    BY <1>3, <2>1, <2>4
  <2>6. \A k : k \in 1..L /\ k <= m => k \in 1..m
    BY <1>3
  <2> HIDE DEF U, L
  <2> QED BY <2>1, <2>2, <2>3, <2>5, <2>6
<1>5. Max({Len(l), Len(r)}) = L /\ m = Min({Len(l), Len(r)})
  BY <1>2
<1>6. Compare(d, l, r) = [have |-> d.have \/ U # {},
                          first |-> IF d.have \/ U = {} THEN d.first ELSE d.offset + Min(U) - 1,
                          differing |-> d.differing + Cardinality(U),
                          offset |-> d.offset + L]
  <2>1. {k \in 1..Min({Len(l), Len(r)}) : l[k] # r[k]}
          \cup (Min({Len(l), Len(r)}) + 1)..Max({Len(l), Len(r)}) = U
    BY <1>2, <1>4
  <2> HIDE DEF U, L, m
  <2> QED BY <1>2, <2>1, Zenon DEF Compare
<1>7. U \subseteq 1..L
  BY DEF Differs
<1> HIDE DEF U, L, m
<1>8. IsFiniteSet(U) /\ Cardinality(U) \in Nat
  <2>1. IsFiniteSet(1..L)
    BY <1>3, FS_Interval
  <2>2. IsFiniteSet(U)
    BY <1>7, <2>1, FS_Subset
  <2> QED BY <2>2, FS_CardinalityType
<1>9. U # {} => Min(U) \in U /\ \A k \in U : Min(U) <= k
  <2>1. U \subseteq Nat
    BY <1>3, <1>7
  <2> QED BY ONLY <2>1, LeastNat
<1>10. ASSUME U # {} PROVE Min(U) \in Nat /\ Min(U) >= 1
  <2>1. Min(U) \in 1..L
    BY <1>7, <1>9, <1>10
  <2> QED BY <1>3, <2>1
<1>11. d.first \in Nat /\ d.offset \in Nat /\ d.differing \in Nat /\ d.have \in BOOLEAN
  BY DEF Figures
<1>12. /\ (IF d.have \/ U = {} THEN d.first ELSE d.offset + Min(U) - 1) \in Nat
       /\ d.differing + Cardinality(U) \in Nat /\ d.offset + L \in Nat
  BY <1>3, <1>8, <1>10, <1>11, SMTT(30)
<1>13. PICK h \in BOOLEAN : h <=> d.have \/ U # {}
  <2>1. (d.have \/ U # {}) \in BOOLEAN
    OBVIOUS
  <2> QED BY <2>1
<1>14. PICK f \in Nat : f = IF d.have \/ U = {} THEN d.first ELSE d.offset + Min(U) - 1
  BY <1>12
<1>15. Compare(d, l, r) = [have |-> h, first |-> f, differing |-> d.differing + Cardinality(U),
                           offset |-> d.offset + L]
  <2>1. h = (d.have \/ U # {})
    BY <1>13, Zenon
  <2> QED BY <1>6, <1>14, <2>1, Zenon
<1>16. /\ Compare(d, l, r) \in Figures
       /\ Compare(d, l, r).have = h /\ Compare(d, l, r).first = f
       /\ Compare(d, l, r).differing = d.differing + Cardinality(U)
       /\ Compare(d, l, r).offset = d.offset + L
  BY <1>12, <1>15 DEF Figures
<1> QED BY <1>3, <1>8, <1>9, <1>13, <1>14, <1>16 DEF U, L

\* One Read of each snapshot.
LEMMA BothReach ==
  ASSUME ShapeOK, NEW l \in Chunks(1, ReadSize), NEW r \in Chunks(2, ReadSize),
         at' = <<at[1] + Len(l), at[2] + Len(r)>>
  PROVE  /\ at' \in [1..2 -> Nat] /\ at'[1] = at[1] + Len(l) /\ at'[2] = at[2] + Len(r)
         /\ at'[1] <= Len(files[1]) /\ at'[2] <= Len(files[2])
         /\ at[1] \in Nat /\ at[2] \in Nat
         /\ files[1] \in Seq(Characters) /\ files[2] \in Seq(Characters)
         /\ l \in Seq(Characters) /\ Len(l) \in Nat
         /\ r \in Seq(Characters) /\ Len(r) \in Nat
         /\ l = SubSeq(files[1], at[1] + 1, at[1] + Len(l))
         /\ r = SubSeq(files[2], at[2] + 1, at[2] + Len(r))
         /\ l = <<>> <=> at[1] = Len(files[1])
         /\ r = <<>> <=> at[2] = Len(files[2])
<1>1. /\ files \in [1..2 -> Seq(Characters)] /\ at \in [1..2 -> Nat]
      /\ at[1] <= Len(files[1]) /\ at[2] <= Len(files[2])
  BY DEF ShapeOK, TypeOK, ReachOK
<1>2. 1 \in 1..2 /\ 2 \in 1..2 /\ ReadSize \in Nat /\ ReadSize >= 1
  OBVIOUS
<1>3. /\ l \in Seq(Characters) /\ Len(l) \in Nat
      /\ at[1] + Len(l) <= Len(files[1])
      /\ l = SubSeq(files[1], at[1] + 1, at[1] + Len(l))
      /\ l = <<>> <=> at[1] = Len(files[1])
  BY <1>1, <1>2, ChunkIs
<1>4. /\ r \in Seq(Characters) /\ Len(r) \in Nat
      /\ at[2] + Len(r) <= Len(files[2])
      /\ r = SubSeq(files[2], at[2] + 1, at[2] + Len(r))
      /\ r = <<>> <=> at[2] = Len(files[2])
  BY <1>1, <1>2, ChunkIs
<1>5. at[1] \in Nat /\ at[2] \in Nat
      /\ files[1] \in Seq(Characters) /\ files[2] \in Seq(Characters)
  BY <1>1
<1>6. at[1] + Len(l) \in Nat /\ at[2] + Len(r) \in Nat
  <2>1. at[1] \in Nat /\ at[2] \in Nat /\ Len(l) \in Nat /\ Len(r) \in Nat
    BY <1>3, <1>4, <1>5
  <2> QED BY ONLY <2>1
<1>7. at' \in [1..2 -> Nat] /\ at'[1] = at[1] + Len(l) /\ at'[2] = at[2] + Len(r)
  BY <1>6
<1> QED BY <1>3, <1>4, <1>5, <1>7

LEMMA ShapeSnap == ASSUME ShapeOK, SnapDiffRead PROVE ShapeOK'
<1>1. /\ pc = "read" /\ tool = "SnapDiff"
      /\ UNCHANGED <<arguments, world, lines, pos, buf, text, emitted, out, end>>
  BY DEF SnapDiffRead
<1>2. TypeOK /\ ReachOK /\ tool' = tool
  BY <1>1 DEF ShapeOK, arguments
<1>3. /\ out' \in Seq(Items) /\ lines' \in Nat /\ diff \in Figures
      /\ buf' \in Seq(Characters) /\ Len(buf') <= ReadSize
      /\ text' \in Seq(Characters) /\ Len(text') <= StringBytes - 1
      /\ RangeOK'
  BY <1>1, <1>2 DEF TypeOK, Figures, RangeOK
<1>4. emitted' \in BOOLEAN
  BY <1>1, <1>2 DEF TypeOK
<1>5. CASE Return(5, {1, 2}) /\ UNCHANGED <<at, short, diff>>
  <2>1. /\ pc' = "done" /\ rc' \in {0, 5} /\ open' \subseteq open /\ at' \in [1..2 -> Nat]
        /\ at'[1] <= Len(files[1]) /\ at'[2] <= Len(files[2]) /\ diff' \in Figures
    BY <1>2, <1>3, <1>5 DEF Return, TypeOK, ReachOK
  <2>2. short' \in BOOLEAN
    BY <1>2, <1>5 DEF TypeOK
  <2> QED BY <1>1, <1>2, <1>3, <1>4, <2>1, <2>2, ShapeReads
<1>6. CASE \E l \in Chunks(1, ReadSize), r \in Chunks(2, ReadSize) :
          /\ at' = <<at[1] + Len(l), at[2] + Len(r)>>
          /\ short' = \/ short \/ Len(l) < Min({ReadSize, Left(1)})
                      \/ Len(r) < Min({ReadSize, Left(2)})
          /\ diff' = Compare(diff, l, r)
          /\ IF l = <<>> /\ r = <<>> THEN Return(IF diff.have THEN 5 ELSE 0, {1, 2})
                                     ELSE Goto("read")
  <2>1. PICK l \in Chunks(1, ReadSize), r \in Chunks(2, ReadSize) :
          /\ at' = <<at[1] + Len(l), at[2] + Len(r)>>
          /\ short' = \/ short \/ Len(l) < Min({ReadSize, Left(1)})
                      \/ Len(r) < Min({ReadSize, Left(2)})
          /\ diff' = Compare(diff, l, r)
          /\ IF l = <<>> /\ r = <<>> THEN Return(IF diff.have THEN 5 ELSE 0, {1, 2})
                                     ELSE Goto("read")
    BY <1>6
  <2>2. /\ at' \in [1..2 -> Nat] /\ at'[1] <= Len(files[1]) /\ at'[2] <= Len(files[2])
        /\ l \in Seq(Characters) /\ r \in Seq(Characters)
    BY <2>1, BothReach
  <2>3. short' \in BOOLEAN
    BY <2>1
  <2>4. diff' \in Figures
    BY <1>3, <2>1, <2>2, CompareIs
  <2>5. \/ pc' = "done" /\ rc' \in {0, 5} /\ open' \subseteq open
        \/ pc' = "read" /\ rc' = rc /\ open' = open
    BY <2>1 DEF Return, Goto
  <2> QED BY <1>1, <1>2, <1>3, <1>4, <2>2, <2>3, <2>4, <2>5, ShapeReads
<1> QED BY <1>5, <1>6 DEF SnapDiffRead, SnapDiffFails

\* Another task appends.
LEMMA ShapeGrow == ASSUME ShapeOK, Grow PROVE ShapeOK'
<1>1. /\ pc # "done" /\ grown < MaxGrow /\ grown' = grown + 1
      /\ UNCHANGED <<tool, number, offset, pc, rc, open, at, lines, pos, buf, text, emitted, diff,
                     out, short, end>>
  BY DEF Grow, arguments
<1>2. PICK f \in 1..2, c \in Characters : files' = [files EXCEPT ![f] = Append(@, c)]
  BY DEF Grow
<1>3. TypeOK /\ ControlOK /\ StartOK /\ ReachOK /\ RangeOK /\ SinceOK /\ MissingOK
  BY DEF ShapeOK
<1>4. files \in [1..2 -> Seq(Characters)] /\ at \in [1..2 -> Nat] /\ pos \in Nat /\ end \in Nat
      /\ grown \in 0..MaxGrow
  BY <1>3 DEF TypeOK
<1>5. files[1] \in Seq(Characters) /\ files[2] \in Seq(Characters) /\ files[f] \in Seq(Characters)
      /\ Len(files[1]) \in Nat /\ Len(files[2]) \in Nat /\ at[1] \in Nat /\ at[2] \in Nat
  BY <1>4
<1>6. Append(files[f], c) \in Seq(Characters) /\ Len(Append(files[f], c)) = Len(files[f]) + 1
  BY <1>5, AppendProperties
<1>7. /\ files' \in [1..2 -> Seq(Characters)]
      /\ files'[1] = IF f = 1 THEN Append(files[1], c) ELSE files[1]
      /\ files'[2] = IF f = 2 THEN Append(files[2], c) ELSE files[2]
  BY <1>2, <1>4, <1>6
<1>8. Len(files'[1]) >= Len(files[1]) /\ Len(files'[2]) >= Len(files[2])
      /\ Len(files'[1]) \in Nat /\ Len(files'[2]) \in Nat
  <2>1. f = 1 \/ f = 2
    OBVIOUS
  <2> QED BY <1>5, <1>6, <1>7, <2>1
<1>9. grown' \in 0..MaxGrow
  BY <1>1, <1>4
<1>10. TypeOK'
  <2>1. Items' = Items
    BY <1>1 DEF Items
  <2> QED BY <1>1, <1>3, <1>7, <1>9, <2>1 DEF TypeOK
<1>11. ControlOK'
  <2>1. (NoWork' <=> NoWork) /\ (InRange' <=> InRange)
    BY <1>1 DEF NoWork, InRange, NoLimit
  <2> QED BY <1>1, <1>3, <2>1 DEF ControlOK
<1>12. StartOK' /\ RangeOK' /\ MissingOK'
  BY <1>1, <1>3 DEF StartOK, RangeOK, MissingOK
<1>13. at'[1] <= Len(files'[1]) /\ at'[2] <= Len(files'[2])
  BY <1>1, <1>3, <1>5, <1>8, SMTT(30) DEF ReachOK
<1>14. SubSeq(files'[1], pos + 1, at[1]) = SubSeq(files[1], pos + 1, at[1])
  <2>1. at[1] <= Len(files[1])
    BY <1>3 DEF ReachOK
  <2>2. SubSeq(Append(files[1], c), pos + 1, at[1]) = SubSeq(files[1], pos + 1, at[1])
    BY ONLY <1>2, <1>4, <1>5, <2>1, SliceKept
  <2> QED BY <1>7, <2>2
<1>15. SinceOK'
  <2>1. SinceOK /\ (tool = "Tail" => end <= Len(files[1]))
    BY <1>3 DEF SinceOK, file
  <2>2. tool = "Tail" => end <= Len(files'[1])
    BY <1>4, <1>5, <1>8, <2>1
  <2> QED BY <1>1, <1>14, <2>1, <2>2 DEF SinceOK, file
<1> QED BY <1>10, <1>11, <1>12, <1>13, <1>15 DEF ShapeOK, ReachOK

LEMMA InitShape == Init => ShapeOK
<1> SUFFICES ASSUME Init PROVE ShapeOK
  OBVIOUS
<1>1. files \in [1..2 -> Seq(Characters)]
  <2>1. BoundedSeq(Characters, MaxFile) \subseteq Seq(Characters)
    BY DEF BoundedSeq, SeqOf
  <2> QED BY <2>1 DEF Init
<1>2. Len(files[1]) \in Nat /\ Len(files[2]) \in Nat
  BY <1>1
<1>3. at = <<0, 0>> /\ at \in [1..2 -> Nat] /\ at[1] = 0 /\ at[2] = 0
  BY DEF Init
<1>4. TypeOK
  <2>1. /\ tool \in {"Head", "Tail", "Strings", "Hex", "SnapDiff"}
        /\ pc = "args" /\ rc = Running /\ grown = 0 /\ open = {} /\ lines = 0 /\ pos = 0 /\ end = 0
        /\ number \in 0..NoLimit /\ offset \in 0..MaxNumber
        /\ buf = <<>> /\ text = <<>> /\ diff = NoDiff /\ out = <<>>
    BY DEF Init
  <2>2. emitted \in BOOLEAN /\ short \in BOOLEAN
    BY DEF Init
  <2>3. diff \in [have : BOOLEAN, first : Nat, differing : Nat, offset : Nat]
    BY <2>1 DEF NoDiff
  <2>4. /\ buf \in Seq(Characters) /\ Len(buf) <= ReadSize
        /\ text \in Seq(Characters) /\ Len(text) <= StringBytes - 1 /\ out \in Seq(Items)
    BY <2>1
  <2>5. 0 \in 0..MaxGrow /\ {lines, pos, end} \subseteq Nat /\ open \subseteq 1..2
    BY <2>1
  <2> QED BY <1>1, <1>3, <2>1, <2>2, <2>3, <2>4, <2>5 DEF TypeOK
<1>5. ControlOK /\ RangeOK /\ MissingOK
  BY DEF Init, ControlOK, RangeOK, MissingOK
<1>6. StartOK /\ ReachOK
  BY <1>2, <1>3 DEF Init, StartOK, ReachOK
<1>7. SinceOK
  BY <1>2 DEF Init, SinceOK, file
<1> QED BY <1>4, <1>5, <1>6, <1>7 DEF ShapeOK

LEMMA ShapeStep == ShapeOK /\ [Next]_vars => ShapeOK'
<1> SUFFICES ASSUME ShapeOK, [Next]_vars PROVE ShapeOK'
  OBVIOUS
<1>1. CASE UNCHANGED vars
  BY <1>1, SMTT(30) DEF vars, ShapeOK, TypeOK, Items, ControlOK, NoWork, InRange, StartOK, ReachOK,
     RangeOK, SinceOK, MissingOK, file
<1> QED
  BY <1>1, ShapeMoves, ShapeSeekStart, ShapeSeekEnd, ShapeTailBack, ShapeHead, ShapeTailRead,
     ShapeStringsRead, ShapeStringsScan, ShapeHex, ShapeSnap, ShapeGrow DEF Next

LEMMA ShapeInvariance == Spec => []ShapeOK
BY InitShape, ShapeStep, PTL DEF Spec

\* Every variable keeps its type; Strings never overruns its text buffer.
THEOREM TypeCorrect == Spec => []TypeOK
<1>1. ShapeOK => TypeOK
  BY DEF ShapeOK
<1> QED BY <1>1, ShapeInvariance, PTL

\* The handles a tool holds, by where it is: each return closes these.
Held ==
  CASE pc \in {"args", "open", "done"} -> {}
    [] pc = "second" -> {1}
    [] OTHER -> IF tool = "SnapDiff" THEN {1, 2} ELSE {1}

HeldOK == open = Held

LEMMA InitHeld == Init => HeldOK
BY DEF Init, HeldOK, Held

LEMMA HeldStep == ShapeOK /\ HeldOK /\ [Next]_vars => HeldOK'
<1> SUFFICES ASSUME ShapeOK, HeldOK, [Next]_vars PROVE HeldOK'
  OBVIOUS
<1> USE DEF HeldOK, Held, arguments, Return, Goto
<1>1. /\ pc \in {"args", "open", "second", "end", "back", "start", "read", "scan", "done"}
      /\ pc = "second" => tool = "SnapDiff"
      /\ pc \in {"end", "back"} => tool = "Tail"
      /\ pc = "start" => tool \in {"Tail", "Hex"}
      /\ pc = "scan" => tool = "Strings"
  BY DEF ShapeOK, TypeOK, ControlOK
<1>2. CASE UNCHANGED vars
  BY <1>2 DEF vars
<1>3. CASE ParseArgs
  BY <1>3 DEF ParseArgs
<1>4. CASE OpenFile
  <2>1. CASE Return(5, {})
    BY <1>4, <2>1 DEF OpenFile
  <2>2. CASE /\ open' = {1}
             /\ pc' = CASE tool = "SnapDiff" -> "second"
                        [] tool = "Tail" -> "end"
                        [] tool = "Hex" /\ offset # 0 -> "start"
                        [] OTHER -> "read"
    <3>1. /\ tool = "SnapDiff" => pc' = "second"
          /\ tool # "SnapDiff" => pc' \in {"end", "start", "read"}
      BY <2>2
    <3> QED BY <1>4, <2>2, <3>1 DEF OpenFile
  <2> QED BY <1>4, <2>1, <2>2 DEF OpenFile
<1>5. CASE OpenSecond
  BY <1>1, <1>5 DEF OpenSecond
<1>6. CASE SeekStart
  BY <1>1, <1>6 DEF SeekStart
<1>7. CASE HeadRead
  BY <1>7 DEF HeadRead, HeadLast
<1>8. CASE SeekEnd
  BY <1>1, <1>8 DEF SeekEnd
<1>9. CASE TailBack \/ TailAll
  BY <1>1, <1>9 DEF TailBack, TailAll
<1>10. CASE TailRead
  BY <1>10 DEF TailRead
<1>11. CASE StringsRead
  BY <1>11 DEF StringsRead, StringsEnd
<1>12. CASE StringsScan \/ StringsNext
  BY <1>1, <1>12 DEF StringsScan, StringsNext, StringsEnd
<1>13. CASE HexLine
  BY <1>13 DEF HexLine, HexEnd
<1>14. CASE SnapDiffRead
  BY <1>14 DEF SnapDiffRead, SnapDiffFails
<1>15. CASE Grow
  BY <1>15 DEF Grow
<1> QED
  BY <1>2, <1>3, <1>4, <1>5, <1>6, <1>7, <1>8, <1>9, <1>10, <1>11, <1>12, <1>13, <1>14, <1>15
  DEF Next

\* Every ending of Head, Tail, Strings, Hex and SnapDiff has closed what was
\* open there, one Close per return.
THEOREM NoLeak == Spec => []NothingHeldAtExit
<1>1. HeldOK => NothingHeldAtExit
  BY DEF HeldOK, Held, NothingHeldAtExit
<1> QED BY <1>1, InitHeld, HeldStep, ShapeInvariance, PTL DEF Spec

-----------------------------------------------------------------------------
(***************************************************************************)
(* What has been written.  One invariant per tool, as long as nobody has   *)
(* appended to the file.                                                   *)
(***************************************************************************)
\* A run that has ended has written a beginning of whole, and all of it with
\* return code 0.
Ended(whole) ==
  pc = "done" => /\ out # <<>> => IsPrefix(out, whole)
                 /\ rc = 0 /\ ~NoWork => out = whole

\* A slice of a slice.
LEMMA SliceOfSlice ==
  ASSUME NEW X, NEW s \in Seq(X), NEW a \in Nat, NEW b \in Nat, a <= b, b <= Len(s),
         NEW k \in Nat, k <= b - a
  PROVE  SubSeq(SubSeq(s, a + 1, b), 1, k) = SubSeq(s, a + 1, a + k)
<1> DEFINE c == SubSeq(s, a + 1, b)
<1>0. Len(s) \in Nat
  OBVIOUS
<1>1. c \in Seq(X) /\ Len(c) = b - a /\ \A i \in 1..(b - a) : c[i] = s[a + i]
  BY SliceIs
<1> HIDE DEF c
<1>2. 0 \in Nat /\ 0 <= k /\ k <= Len(c) /\ 0 + 1 = 1 /\ k - 0 = k /\ a <= a + k /\ a + k \in Nat
      /\ a + k <= Len(s) /\ a + k - a = k
  BY <1>0, <1>1
<1>3. /\ SubSeq(c, 0 + 1, k) \in Seq(X) /\ Len(SubSeq(c, 0 + 1, k)) = k - 0
      /\ \A i \in 1..(k - 0) : SubSeq(c, 0 + 1, k)[i] = c[0 + i]
  BY ONLY <1>1, <1>2, SliceIs
<1>4. /\ SubSeq(s, a + 1, a + k) \in Seq(X) /\ Len(SubSeq(s, a + 1, a + k)) = a + k - a
      /\ \A i \in 1..(a + k - a) : SubSeq(s, a + 1, a + k)[i] = s[a + i]
  BY <1>2, SliceIs
<1>5. \A i \in 1..k : 0 + i = i /\ i \in 1..(b - a)
  OBVIOUS
<1>6. \A i \in 1..k : SubSeq(c, 1, k)[i] = SubSeq(s, a + 1, a + k)[i]
  BY <1>1, <1>2, <1>3, <1>4, <1>5
<1>7. SubSeq(c, 1, k) = SubSeq(s, a + 1, a + k)
  <2>1. /\ SubSeq(c, 1, k) \in Seq(X) /\ SubSeq(s, a + 1, a + k) \in Seq(X)
        /\ Len(SubSeq(c, 1, k)) = k /\ Len(SubSeq(s, a + 1, a + k)) = k
    BY <1>2, <1>3, <1>4
  <2> QED BY ONLY <1>6, <2>1, SeqEqual
<1> QED BY <1>7 DEF c

\* A shorter beginning is a prefix of a longer one, and of all of it.
LEMMA BeginningsNest ==
  ASSUME NEW X, NEW s \in Seq(X), NEW a \in Nat, NEW b \in Nat, a <= b, b <= Len(s)
  PROVE  /\ IsPrefix(SubSeq(s, 1, a), SubSeq(s, 1, b)) /\ IsPrefix(SubSeq(s, 1, a), s)
         /\ SubSeq(s, 1, a) \in Seq(X)
<1>0. Len(s) \in Nat /\ 0 \in Nat /\ 0 + 1 = 1 /\ a - 0 = a /\ b - 0 = b /\ 0 <= a /\ 0 <= b
      /\ a <= Len(s) /\ \A i \in Nat : 0 + i = i
  OBVIOUS
<1>1. /\ SubSeq(s, 1, a) \in Seq(X) /\ Len(SubSeq(s, 1, a)) = a
      /\ \A i \in 1..a : SubSeq(s, 1, a)[i] = s[i]
  <2>1. /\ SubSeq(s, 0 + 1, a) \in Seq(X) /\ Len(SubSeq(s, 0 + 1, a)) = a - 0
        /\ \A i \in 1..(a - 0) : SubSeq(s, 0 + 1, a)[i] = s[0 + i]
    BY <1>0, SliceIs
  <2> QED BY <1>0, <2>1
<1>2. /\ SubSeq(s, 1, b) \in Seq(X) /\ Len(SubSeq(s, 1, b)) = b
      /\ \A i \in 1..b : SubSeq(s, 1, b)[i] = s[i]
  <2>1. /\ SubSeq(s, 0 + 1, b) \in Seq(X) /\ Len(SubSeq(s, 0 + 1, b)) = b - 0
        /\ \A i \in 1..(b - 0) : SubSeq(s, 0 + 1, b)[i] = s[0 + i]
    BY <1>0, SliceIs
  <2> QED BY <1>0, <2>1
<1>3. IsPrefix(SubSeq(s, 1, a), s)
  BY <1>0, <1>1, PrefixIs
<1>4. \A i \in 1..a : i \in 1..b
  OBVIOUS
<1>5. \A i \in 1..Len(SubSeq(s, 1, a)) : SubSeq(s, 1, a)[i] = SubSeq(s, 1, b)[i]
  BY <1>1, <1>2, <1>4
<1>6. Len(SubSeq(s, 1, a)) <= Len(SubSeq(s, 1, b))
  BY <1>1, <1>2
<1>7. IsPrefix(SubSeq(s, 1, a), SubSeq(s, 1, b))
  BY <1>1, <1>2, <1>5, <1>6, PrefixIs
<1> QED BY <1>1, <1>3, <1>7

LEMMA SlicesNest ==
  ASSUME NEW X, NEW s \in Seq(X), NEW a \in Nat, NEW b \in Nat, NEW c \in Nat,
         a <= b, b <= c, c <= Len(s)
  PROVE  IsPrefix(SubSeq(s, a + 1, b), SubSeq(s, a + 1, c))
<1> DEFINE t == SubSeq(s, a + 1, c)
<1>1. a <= c /\ b - a \in Nat /\ b - a <= c - a /\ a + (b - a) = b
  OBVIOUS
<1>2. t \in Seq(X) /\ Len(t) = c - a
  BY <1>1, SliceIs
<1>3. SubSeq(t, 1, b - a) = SubSeq(s, a + 1, a + (b - a))
  BY <1>1, SliceOfSlice
<1> HIDE DEF t
<1>4. b - a <= b - a /\ b - a <= Len(t)
  BY <1>1, <1>2
<1>5. IsPrefix(SubSeq(t, 1, b - a), t)
  BY ONLY <1>1, <1>2, <1>4, BeginningsNest
<1>6. IsPrefix(SubSeq(s, a + 1, b), t)
  BY <1>1, <1>3, <1>5
<1> QED BY <1>6 DEF t

\* Writing s when out and s are a beginning of w, and at the end all of it.
LEMMA WriteEnds ==
  ASSUME NEW X, out \in Seq(X), NEW s \in Seq(X), NEW w \in Seq(X), NEW l,
         IsPrefix(out \o s, w), l = "done" => out \o s = w, WriteThen(s, l)
  PROVE  pc' = "done" => IsPrefix(out', w) /\ (rc' = 0 => out' = w)
<1>1. CASE out' = out \o s
  <2>1. pc' = "done" /\ rc' = 0 => out' = w
    BY <1>1, WriteIs
  <2> QED BY <1>1, <2>1
<1>2. CASE /\ pc' = "done" /\ rc' = 5 /\ open' \subseteq open
           /\ \E k \in 0..Len(s) : out' = out \o SubSeq(s, 1, k)
  <2>1. PICK k \in 0..Len(s) : out' = out \o SubSeq(s, 1, k)
    BY <1>2
  <2>2. IsPrefix(out \o SubSeq(s, 1, k), w)
    BY PrefixOfPart
  <2> QED BY <1>2, <2>1, <2>2
<1> QED BY <1>1, <1>2, WriteIs

\* Nothing is written before the first Read, and only a count of 0 ends there
\* with return code 0.
LEMMA EarlyOut ==
  ASSUME ShapeOK, pc \in Early, [Next]_vars
  PROVE  /\ out' = <<>>
         /\ pc' = "done" /\ rc' = 0 => NoWork'
<1> USE DEF arguments, world
<1>1. out = <<>> /\ rc = Running /\ pc # "done"
  BY DEF ShapeOK, StartOK, ControlOK, Early
<1>2. CASE UNCHANGED vars
  BY <1>1, <1>2 DEF vars
<1>3. CASE ParseArgs
  BY <1>1, <1>3 DEF ParseArgs, Return, Goto, NoWork
<1>4. CASE OpenFile \/ OpenSecond \/ SeekStart \/ SeekEnd \/ TailBack \/ TailAll
  <2>1. out' = out /\ (pc' = "done" => rc' = 5)
    <3>1. CASE OpenFile
      <4>1. out' = out
        BY <3>1 DEF OpenFile
      <4>2. CASE Return(5, {})
        BY <4>1, <4>2 DEF Return
      <4>3. CASE pc' = CASE tool = "SnapDiff" -> "second"
                          [] tool = "Tail" -> "end"
                          [] tool = "Hex" /\ offset # 0 -> "start"
                          [] OTHER -> "read"
        BY <4>1, <4>3
      <4> QED BY <3>1, <4>2, <4>3 DEF OpenFile
    <3>2. CASE OpenSecond \/ SeekStart \/ SeekEnd \/ TailAll
      BY <3>2 DEF OpenSecond, SeekStart, SeekEnd, TailAll, Return, Goto
    <3>3. CASE TailBack
      BY <3>3 DEF TailBack, Return, Goto
    <3> QED BY <1>4, <3>1, <3>2, <3>3
  <2> QED BY <1>1, <2>1
<1>5. CASE Grow
  BY <1>1, <1>5 DEF Grow
<1>6. ~(HeadRead \/ TailRead \/ StringsRead \/ StringsScan \/ StringsNext \/ HexLine \/ SnapDiffRead)
  BY DEF HeadRead, TailRead, StringsRead, StringsScan, StringsNext, HexLine, SnapDiffRead, Early
<1> QED BY <1>2, <1>3, <1>4, <1>5, <1>6 DEF Next

\* A step that leaves grown at 0 is not another task's.
LEMMA QuietStep ==
  ASSUME ShapeOK, [Next]_vars, grown' = 0
  PROVE  /\ grown = 0 /\ UNCHANGED <<tool, number, offset, files>>
         /\ pc = "done" => UNCHANGED vars
<1> USE DEF arguments, world
<1>1. ~Grow
  BY DEF ShapeOK, TypeOK, Grow
<1>2. CASE UNCHANGED vars
  BY <1>2 DEF vars
<1>3. CASE ParseArgs \/ OpenFile \/ OpenSecond \/ SeekStart
  BY <1>3 DEF ParseArgs, OpenFile, OpenSecond, SeekStart
<1>4. CASE HeadRead \/ SeekEnd \/ TailBack \/ TailAll \/ TailRead
  BY <1>4 DEF HeadRead, SeekEnd, TailBack, TailAll, TailRead
<1>5. CASE StringsRead \/ StringsScan \/ StringsNext \/ HexLine \/ SnapDiffRead
  BY <1>5 DEF StringsRead, StringsScan, StringsNext, HexLine, SnapDiffRead
<1> QED BY <1>1, <1>2, <1>3, <1>4, <1>5 DEF Next

-----------------------------------------------------------------------------
\* Head has written what it has read, and counted its lines.
HeadOK ==
  tool = "Head" /\ grown = 0 =>
    /\ pc = "read" => out = SubSeq(file, 1, at[1]) /\ lines = Count(file, at[1])
    /\ Ended(FirstLines)

\* Where fewer lines end than are wanted is within the wanted lines.
LEMMA FirstLinesIs ==
  ASSUME file \in Seq(Characters), number \in Nat, number >= 1
  PROVE  /\ FirstLines \in Seq(Characters)
         /\ \A a \in Nat : a <= Len(file) /\ Count(file, a) < number =>
              IsPrefix(SubSeq(file, 1, a), FirstLines)
<1>0. /\ Len(file) \in Nat /\ LineCount \in Nat /\ Count(file, Len(file)) = LineCount
      /\ \A k \in Nat : Count(file, k) \in Nat
  BY CountIs, LenProperties DEF LineCount
<1>1. CASE LineCount < number
  <2>1. FirstLines = file
    BY <1>1 DEF FirstLines
  <2> QED BY <1>0, <2>1, BeginningsNest
<1>2. CASE ~(LineCount < number)
  <2> DEFINE e == NthEnd(file, number)
  <2>1. number <= Cardinality(LineEnds(file))
    BY <1>0, <1>2 DEF LineCount
  <2>2. e \in 1..Len(file) /\ Count(file, e) = number
    BY <2>1, NthEndIs
  <2>3. FirstLines = SubSeq(file, 1, e)
    BY <1>2 DEF FirstLines
  <2> HIDE DEF e
  <2>4. e \in Nat /\ e <= Len(file)
    BY <1>0, <2>2
  <2>5. FirstLines \in Seq(Characters)
    <3>1. e <= e
      BY <2>4
    <3> QED BY <2>3, <2>4, <3>1, BeginningsNest
  <2>6. ASSUME NEW a \in Nat, a <= Len(file), Count(file, a) < number
        PROVE  IsPrefix(SubSeq(file, 1, a), FirstLines)
    <3>1. a <= e
      <4> SUFFICES ASSUME ~(a <= e) PROVE FALSE
        OBVIOUS
      <4>1. e <= a
        BY <2>4
      <4>2. Count(file, e) <= Count(file, a)
        BY <2>4, <4>1, CountGrows
      <4> QED BY <1>0, <2>2, <2>6, <4>2
    <3> QED BY <2>3, <2>4, <3>1, BeginningsNest
  <2> QED BY <2>5, <2>6
<1> QED BY <1>1, <1>2

LEMMA HeadStep == ShapeOK /\ HeadOK /\ [Next]_vars => HeadOK'
<1> SUFFICES ASSUME ShapeOK, HeadOK, [Next]_vars, tool' = "Head", grown' = 0
             PROVE  /\ pc' = "read" => out' = SubSeq(file', 1, at'[1]) /\ lines' = Count(file', at'[1])
                    /\ Ended(FirstLines)'
  BY DEF HeadOK
<1>1. /\ tool = "Head" /\ grown = 0 /\ number' = number /\ file' = file
      /\ pc = "done" => UNCHANGED vars
      /\ FirstLines' = FirstLines /\ NoWork' = NoWork
  BY QuietStep DEF file, FirstLines, LineCount, NoWork
<1>2. /\ file \in Seq(Characters) /\ number \in Nat /\ out \in Seq(Characters) /\ at[1] \in Nat
      /\ at[1] <= Len(file) /\ Len(file) \in Nat /\ lines \in Nat
  BY <1>1 DEF ShapeOK, TypeOK, ReachOK, file, Items, NoLimit
<1>3. Count(file, 0) = 0 /\ SubSeq(file, 1, 0) = <<>>
  BY <1>2, CountIs, SubSeqEmpty
<1>4. CASE UNCHANGED vars
  <2>1. UNCHANGED <<pc, out, at, lines, rc>>
    BY <1>4 DEF vars
  <2> QED BY <1>1, <2>1 DEF HeadOK, Ended
<1>5. CASE pc \in Early
  <2>1. out' = <<>> /\ (pc' = "done" /\ rc' = 0 => NoWork')
    BY <1>5, EarlyOut
  <2>2. Ended(FirstLines)'
    BY <2>1 DEF Ended
  <2>3. ASSUME pc' = "read" PROVE at'[1] = 0 /\ lines' = 0
    <3>1. CASE OpenFile
      BY <1>1, <1>5, <3>1 DEF OpenFile, ShapeOK, StartOK, MissingOK
    <3>2. ~(OpenSecond \/ SeekStart \/ SeekEnd \/ TailBack \/ TailAll \/ ParseArgs)
      BY <1>1, <2>3 DEF OpenSecond, SeekStart, SeekEnd, TailBack, TailAll, ParseArgs, Return, Goto,
         ShapeOK, ControlOK
    <3>3. ~(HeadRead \/ TailRead \/ StringsRead \/ StringsScan \/ StringsNext \/ HexLine
            \/ SnapDiffRead \/ Grow)
      BY <1>5, <2>3 DEF HeadRead, TailRead, StringsRead, StringsScan, StringsNext, HexLine,
         SnapDiffRead, Grow, Early
    <3>4. ~UNCHANGED vars
      BY <1>5, <2>3 DEF vars, Early
    <3> QED BY <3>1, <3>2, <3>3, <3>4 DEF Next
  <2> QED BY <1>1, <1>3, <2>1, <2>2, <2>3
<1>6. CASE HeadRead
  <2>1. /\ pc = "read" /\ out = SubSeq(file, 1, at[1]) /\ lines = Count(file, at[1])
        /\ lines < number
    BY <1>1, <1>6 DEF HeadRead, HeadOK, ShapeOK, MissingOK
  <2>2. number >= 1 /\ number \in Nat
    BY <1>2, <2>1
  <2>3. /\ FirstLines \in Seq(Characters)
        /\ \A a \in Nat : a <= Len(file) /\ Count(file, a) < number =>
              IsPrefix(SubSeq(file, 1, a), FirstLines)
    BY <1>2, <2>2, FirstLinesIs
  <2>4. IsPrefix(out, FirstLines)
    BY <1>2, <2>1, <2>3
  <2>5. CASE Return(5, {1}) /\ UNCHANGED <<at, lines, out, short>>
    <3>1. pc' = "done" /\ rc' = 5 /\ out' = out
      BY <2>5 DEF Return
    <3> QED BY <1>1, <2>4, <3>1 DEF Ended
  <2>6. CASE \E c \in Chunks(1, ReadSize) :
          /\ at' = [at EXCEPT ![1] = @ + Len(c)]
          /\ short' = (short \/ Len(c) < Min({ReadSize, Left(1)}))
          /\ lines' = lines + Cardinality(LineEnds(c))
          /\ \/ c = <<>> /\ Return(0, {1}) /\ UNCHANGED out
             \/ /\ c # <<>> /\ lines' >= number
                /\ WriteThen(SubSeq(c, 1, NthEnd(c, number - lines)), "done")
             \/ c # <<>> /\ lines' < number /\ WriteThen(c, "read")
    <3>1. PICK c \in Chunks(1, ReadSize) :
          /\ at' = [at EXCEPT ![1] = @ + Len(c)]
          /\ lines' = lines + Cardinality(LineEnds(c))
          /\ \/ c = <<>> /\ Return(0, {1}) /\ UNCHANGED out
             \/ /\ c # <<>> /\ lines' >= number
                /\ WriteThen(SubSeq(c, 1, NthEnd(c, number - lines)), "done")
             \/ c # <<>> /\ lines' < number /\ WriteThen(c, "read")
      BY <2>6
    <3>2. /\ at'[1] = at[1] + Len(c) /\ c \in Seq(Characters) /\ Len(c) \in Nat
          /\ at[1] + Len(c) <= Len(file)
          /\ c = SubSeq(file, at[1] + 1, at[1] + Len(c))
          /\ c = <<>> <=> at[1] = Len(file)
      BY <3>1, FirstReach
    <3> DEFINE a == at[1]
               b == at[1] + Len(c)
               n == Cardinality(LineEnds(c))
    <3>3. a \in Nat /\ b \in Nat /\ a <= b /\ b <= Len(file) /\ c = SubSeq(file, a + 1, b)
          /\ c \in Seq(Characters) /\ Len(c) = b - a /\ at'[1] = b
      <4>1. at[1] \in Nat /\ Len(c) \in Nat
        BY <1>2, <3>2
      <4>2. a \in Nat /\ b \in Nat /\ a <= b /\ Len(c) = b - a
        BY ONLY <4>1
      <4> QED BY <3>2, <4>2
    <3> HIDE DEF a, b
    <3>4. n \in Nat /\ Count(file, b) = Count(file, a) + n
      <4>1. /\ Cardinality(LineEnds(SubSeq(file, a + 1, b))) \in Nat
            /\ Count(file, b) = Count(file, a) + Cardinality(LineEnds(SubSeq(file, a + 1, b)))
        BY ONLY <1>2, <3>3, CountPart, ZenonT(60)
      <4> QED BY ONLY <3>3, <4>1
    <3>5. lines = Count(file, a) /\ out = SubSeq(file, 1, a) /\ lines' = lines + n
      BY <2>1, <3>1 DEF a
    <3>J. ASSUME NEW k \in Nat, k <= b - a
          PROVE  /\ out \o SubSeq(c, 1, k) = SubSeq(file, 1, a + k)
                 /\ SubSeq(c, 1, k) \in Seq(Characters) /\ a + k \in Nat /\ a + k <= Len(file)
      <4>1. SubSeq(SubSeq(file, a + 1, b), 1, k) = SubSeq(file, a + 1, a + k)
        BY ONLY <1>2, <3>3, <3>J, SliceOfSlice
      <4>2. 0 \in Nat /\ 0 <= a /\ a + k \in Nat /\ a <= a + k /\ a + k <= Len(file) /\ 0 + 1 = 1
        BY <1>2, <3>3, <3>J
      <4>3. SubSeq(file, 0 + 1, a) \o SubSeq(file, a + 1, a + k) = SubSeq(file, 0 + 1, a + k)
        BY ONLY <1>2, <3>3, <4>2, SlicesJoin
      <4>4. SubSeq(file, a + 1, a + k) \in Seq(Characters)
        BY ONLY <1>2, <3>3, <4>2, SliceIs
      <4>5. SubSeq(c, 1, k) = SubSeq(file, a + 1, a + k)
        BY ONLY <3>3, <4>1
      <4> QED BY ONLY <3>5, <4>2, <4>3, <4>4, <4>5
    <3>6. CASE c = <<>> /\ Return(0, {1}) /\ UNCHANGED out
      <4>1. pc' = "done" /\ rc' = 0 /\ out' = out
        BY <3>6 DEF Return
      <4>2. a = Len(file)
        BY <3>2, <3>6 DEF a
      <4>3. out = file
        BY <1>2, <3>5, <4>2, SubSeqFull
      <4>4. LineCount = lines
        BY <1>2, <3>5, <4>2, CountIs DEF LineCount
      <4>5. FirstLines = file
        BY <2>1, <4>4 DEF FirstLines
      <4> QED BY <1>1, <2>4, <4>1, <4>3, <4>5 DEF Ended
    <3>7. CASE /\ c # <<>> /\ lines' >= number
               /\ WriteThen(SubSeq(c, 1, NthEnd(c, number - lines)), "done")
      <4> DEFINE m == number - lines
                 e == NthEnd(c, m)
      <4>1. m \in Nat /\ m >= 1 /\ m <= n
        BY <1>2, <2>1, <3>4, <3>5, <3>7
      <4>2. NthEnd(file, Count(file, a) + m) = a + e /\ e \in 1..(b - a)
        <5>1. m <= Cardinality(LineEnds(SubSeq(file, a + 1, b)))
          BY <3>3, <4>1
        <5> HIDE DEF m
        <5>2. /\ NthEnd(file, Count(file, a) + m) = a + NthEnd(SubSeq(file, a + 1, b), m)
              /\ NthEnd(SubSeq(file, a + 1, b), m) \in 1..(b - a)
          BY ONLY <1>2, <3>3, <4>1, <5>1, NthEndSlice
        <5>3. SubSeq(file, a + 1, b) = c
          BY <3>3
        <5> QED BY ONLY <5>2, <5>3
      <4>3. Count(file, a) + m = number
        BY <1>2, <2>2, <3>5
      <4> HIDE DEF e
      <4>4. e \in Nat /\ e <= b - a
        BY <3>3, <4>2
      <4>5. /\ out \o SubSeq(c, 1, e) = SubSeq(file, 1, a + e)
            /\ SubSeq(c, 1, e) \in Seq(Characters)
        BY <3>J, <4>4
      <4>6. ~(LineCount < number)
        <5>1. Count(file, b) <= Count(file, Len(file)) /\ Count(file, Len(file)) = LineCount
          BY <1>2, <3>3, CountGrows, CountIs DEF LineCount
        <5>2. LineCount \in Nat
          BY <1>2, CountIs DEF LineCount
        <5> QED BY <1>2, <3>4, <3>5, <3>7, <5>1, <5>2
      <4>7. FirstLines = out \o SubSeq(c, 1, e)
        BY <4>2, <4>3, <4>5, <4>6 DEF FirstLines
      <4>8. IsPrefix(out \o SubSeq(c, 1, e), FirstLines)
        <5>1. IsPrefix(FirstLines, FirstLines)
          BY <2>3, PrefixIs
        <5> QED BY <4>7, <5>1
      <4>9. WriteThen(SubSeq(c, 1, e), "done")
        BY <3>7 DEF e
      <4>10. pc' = "done" => IsPrefix(out', FirstLines) /\ (rc' = 0 => out' = FirstLines)
        BY ONLY <1>2, <2>3, <4>5, <4>7, <4>8, <4>9, WriteEnds
      <4>11. pc' = "done"
        BY ONLY <1>2, <4>5, <4>9, WriteIs
      <4> QED BY <1>1, <4>10, <4>11 DEF Ended
    <3>8. CASE c # <<>> /\ lines' < number /\ WriteThen(c, "read")
      <4>1. out \o SubSeq(c, 1, b - a) = SubSeq(file, 1, a + (b - a))
        <5>1. b - a \in Nat /\ b - a <= b - a
          BY <3>3
        <5> QED BY ONLY <3>J, <5>1
      <4>2. SubSeq(c, 1, b - a) = c
        BY <3>3, SubSeqFull
      <4>3. out \o c = SubSeq(file, 1, b)
        <5>1. a + (b - a) = b
          BY <3>3
        <5> QED BY ONLY <4>1, <4>2, <5>1
      <4>4. IsPrefix(out \o c, FirstLines)
        <5>1. Count(file, b) < number
          BY <3>4, <3>5, <3>8
        <5> QED BY <2>3, <3>3, <4>3, <5>1
      <4>5. pc' = "done" => IsPrefix(out', FirstLines) /\ (rc' = 0 => out' = FirstLines)
        BY ONLY <1>2, <2>3, <3>3, <3>8, <4>4, WriteEnds
      <4>6. pc' = "read" => out' = out \o c
        BY ONLY <1>2, <3>3, <3>8, WriteIs
      <4>7. pc' = "read" => out' = SubSeq(file', 1, at'[1]) /\ lines' = Count(file', at'[1])
        BY <1>1, <3>3, <3>4, <3>5, <4>3, <4>6
      <4> QED BY <1>1, <4>5, <4>7 DEF Ended
    <3> QED BY <3>1, <3>6, <3>7, <3>8
  <2> QED BY <1>6, <2>5, <2>6, HeadReadIs
<1> QED
  <2>1. CASE pc = "done"
    BY <1>1, <1>4, <2>1
  <2>2. CASE pc \in {"read", "scan"} /\ Next
    BY <1>1, <1>6, <2>2 DEF Next, ParseArgs, OpenFile, OpenSecond, SeekStart, SeekEnd, TailBack,
       TailAll, TailRead, StringsRead, StringsScan, StringsNext, HexLine, SnapDiffRead, Grow,
       ShapeOK, ControlOK
  <2> QED BY <1>4, <1>5, <2>1, <2>2 DEF ShapeOK, TypeOK, Early

-----------------------------------------------------------------------------
\* Where Tail has to start.
TailFrom == IF LineCount <= number THEN 0 ELSE NthEnd(file, LineCount - number)

\* Tail has counted the lines behind pos, and starts where it has to.
TailOK ==
  tool = "Tail" /\ grown = 0 =>
    /\ pc \in {"back", "start", "read"} => end = Len(file)
    /\ pc = "back" => lines = LineCount - Count(file, pos)
    /\ pc \in {"start", "read"} => pos = TailFrom
    /\ Ended(LastLines)

LEMMA LastLinesIs ==
  ASSUME file \in Seq(Characters), number \in Nat
  PROVE  /\ LastLines = SubSeq(file, TailFrom + 1, Len(file))
         /\ TailFrom \in Nat /\ TailFrom <= Len(file)
         /\ LastLines \in Seq(Characters)
<1>0. Len(file) \in Nat /\ LineCount \in Nat
  BY CountIs, LenProperties DEF LineCount
<1>1. CASE LineCount <= number
  <2>1. LastLines = file /\ TailFrom = 0
    BY <1>1 DEF LastLines, TailFrom
  <2>2. SubSeq(file, 1, Len(file)) = file
    BY SubSeqFull
  <2> QED BY <1>0, <2>1, <2>2
<1>2. CASE ~(LineCount <= number)
  <2>1. LineCount - number \in Nat /\ LineCount - number >= 1 /\ LineCount - number <= Cardinality(LineEnds(file))
    BY <1>0, <1>2 DEF LineCount
  <2>2. TailFrom = NthEnd(file, LineCount - number) /\ LastLines = SubSeq(file, TailFrom + 1, Len(file))
    BY <1>2 DEF LastLines, TailFrom
  <2>3. NthEnd(file, LineCount - number) \in 1..Len(file)
    BY ONLY <2>1, file \in Seq(Characters), NthEndIs
  <2>4. TailFrom \in Nat /\ TailFrom <= Len(file)
    BY <1>0, <2>2, <2>3
  <2>5. SubSeq(file, TailFrom + 1, Len(file)) \in Seq(Characters)
    <3>1. Len(file) <= Len(file)
      BY <1>0
    <3> QED BY <1>0, <2>4, <3>1, SliceIs
  <2> QED BY <2>2, <2>4, <2>5
<1> QED BY <1>1, <1>2

LEMMA TailStep == ShapeOK /\ TailOK /\ [Next]_vars => TailOK'
<1> SUFFICES ASSUME ShapeOK, TailOK, [Next]_vars, tool' = "Tail", grown' = 0
             PROVE  TailOK'
  BY DEF TailOK
<1>1. /\ tool = "Tail" /\ grown = 0 /\ number' = number /\ file' = file
      /\ pc = "done" => UNCHANGED vars
      /\ LastLines' = LastLines /\ TailFrom' = TailFrom /\ NoWork' = NoWork
      /\ LineCount' = LineCount
  BY QuietStep DEF file, LastLines, TailFrom, LineCount, NoWork
<1>2. /\ file \in Seq(Characters) /\ number \in Nat /\ out \in Seq(Characters) /\ at[1] \in Nat
      /\ at[1] <= Len(file) /\ Len(file) \in Nat /\ lines \in Nat /\ pos \in Nat /\ end \in Nat
  BY <1>1 DEF ShapeOK, TypeOK, ReachOK, file, Items, NoLimit
<1>3. /\ LineCount \in Nat /\ Count(file, Len(file)) = LineCount /\ Count(file, 0) = 0
      /\ \A k \in Nat : Count(file, k) \in Nat
  BY <1>2, CountIs DEF LineCount
<1>4. /\ LastLines = SubSeq(file, TailFrom + 1, Len(file)) /\ LastLines \in Seq(Characters)
      /\ TailFrom \in Nat /\ TailFrom <= Len(file)
  BY <1>2, LastLinesIs
<1>5. ShapeOK'
  BY ShapeStep
<1>6. CASE UNCHANGED vars
  <2>1. UNCHANGED <<tool, pc, out, at, lines, pos, end, rc, grown>>
    BY <1>6 DEF vars
  <2> QED BY <1>1, <2>1 DEF TailOK, Ended
<1>7. CASE pc \in Early /\ Next
  <2>1. out' = <<>> /\ (pc' = "done" /\ rc' = 0 => NoWork')
    BY <1>7, EarlyOut
  <2>2. Ended(LastLines)'
    BY <2>1 DEF Ended
  <2>3. ASSUME pc' \in {"back", "start", "read"}
        PROVE  /\ end' = Len(file)
               /\ pc' = "back" => lines' = LineCount - Count(file, pos')
               /\ pc' \in {"start", "read"} => pos' = TailFrom
    <3>1. CASE OpenFile
      BY <1>1, <2>3, <3>1 DEF OpenFile, Return
    <3>2. CASE SeekEnd
      <4>1. pos' = Len(file) /\ end' = Len(file) /\ pc' = "back" /\ lines' = lines /\ lines = 0
        BY <1>1, <2>3, <3>2 DEF SeekEnd, Return, Goto, file, ShapeOK, SinceOK
      <4> QED BY <1>3, <4>1
    <3>3. CASE TailBack
      <4>1. /\ end' = end /\ pc = "back" /\ end = Len(file) /\ lines = LineCount - Count(file, pos)
        BY <1>1, <3>3, BackIs DEF TailOK
      <4>2. PICK base \in Nat :
                 LET c == SubSeq(file, base + 1, pos)
                     n == Cardinality(LineEnds(c))
                 IN  /\ base < pos /\ n \in Nat /\ UNCHANGED <<rc, open>>
                     /\ \/ /\ lines + n > number /\ pc' = "start" /\ lines' = number + 1
                           /\ n - number + lines \in 1..n
                           /\ pos' = base + NthEnd(c, n - number + lines)
                           /\ pos' > base /\ pos' <= pos /\ pos' \in Nat
                        \/ lines + n <= number /\ pc' = "back" /\ lines' = lines + n /\ pos' = base
        BY <2>3, <3>3, BackIs
      <4> DEFINE c == SubSeq(file, base + 1, pos)
                 n == Cardinality(LineEnds(c))
      <4>3. base \in Nat /\ base <= pos /\ pos <= Len(file) /\ n \in Nat
        BY <1>1, <1>2, <4>2 DEF ShapeOK, SinceOK
      <4>4. Count(file, pos) = Count(file, base) + n
        BY <1>2, <4>3, CountPart
      <4>5. Count(file, base) \in Nat
        BY <1>3
      <4>6. CASE lines + n <= number /\ pc' = "back" /\ lines' = lines + n /\ pos' = base
        <5> HIDE DEF n
        <5>1. lines + n = LineCount - Count(file, base)
          BY <1>3, <4>1, <4>3, <4>4, <4>5
        <5> QED BY <4>1, <4>6, <5>1
      <4>7. CASE /\ lines + n > number /\ pc' = "start" /\ n - number + lines \in 1..n
                 /\ pos' = base + NthEnd(c, n - number + lines)
        <5> DEFINE m == n - number + lines
        <5>1. m \in Nat /\ m >= 1 /\ m <= n
          <6> HIDE DEF n
          <6> QED BY <4>3, <4>7
        <5> HIDE DEF m
        <5>2. NthEnd(file, Count(file, base) + m) = base + NthEnd(c, m)
          <6>1. m <= Cardinality(LineEnds(SubSeq(file, base + 1, pos)))
            BY <5>1
          <6> QED BY ONLY <1>2, <4>3, <5>1, <6>1, NthEndSlice
        <5> HIDE DEF n
        <5>3. Count(file, base) + m = LineCount - number /\ ~(LineCount <= number)
          <6>1. /\ LineCount \in Nat /\ number \in Nat /\ n \in Nat /\ lines \in Nat
                /\ Count(file, base) \in Nat /\ lines = LineCount - Count(file, pos)
                /\ Count(file, pos) = Count(file, base) + n /\ lines + n > number
            BY <1>2, <1>3, <4>1, <4>3, <4>4, <4>5, <4>7
          <6>2. lines = LineCount - (Count(file, base) + n)
            BY ONLY <6>1
          <6> QED BY ONLY <6>1, <6>2 DEF m
        <5>4. pos' = base + NthEnd(c, m)
          BY <4>7 DEF m
        <5>5. TailFrom = pos'
          BY <5>2, <5>3, <5>4 DEF TailFrom
        <5> QED BY <4>1, <4>7, <5>5
      <4> QED BY <4>2, <4>6, <4>7
    <3>4. CASE TailAll
      <4>1. /\ pos = 0 /\ pos' = 0 /\ pc' = "start" /\ end' = end /\ end = Len(file)
            /\ lines = LineCount - Count(file, 0) /\ lines <= number
        BY <1>1, <3>4 DEF TailAll, Goto, TailOK, ShapeOK, SinceOK
      <4>2. LineCount <= number
        BY <1>3, <4>1
      <4>3. TailFrom = 0
        BY <4>2 DEF TailFrom
      <4> QED BY <4>1, <4>3
    <3>5. CASE SeekStart
      BY <1>1, <2>3, <3>5 DEF SeekStart, Return, Goto, TailOK
    <3>6. ~(ParseArgs \/ OpenSecond)
      BY <1>1, <2>3 DEF ParseArgs, OpenSecond, Return, Goto, ShapeOK, ControlOK
    <3>7. ~(HeadRead \/ TailRead \/ StringsRead \/ StringsScan \/ StringsNext \/ HexLine
            \/ SnapDiffRead)
      BY <1>7 DEF HeadRead, TailRead, StringsRead, StringsScan, StringsNext, HexLine,
         SnapDiffRead, Early
    <3>8. ~Grow
      BY <1>1 DEF Grow
    <3> QED BY <1>7, <3>1, <3>2, <3>3, <3>4, <3>5, <3>6, <3>7, <3>8 DEF Next
  <2> QED BY <1>1, <2>2, <2>3 DEF TailOK
<1>8. CASE TailRead
  <2>1. /\ pc = "read" /\ end = Len(file) /\ pos = TailFrom /\ pos <= at[1]
        /\ out = SubSeq(file, pos + 1, at[1]) /\ pos' = pos /\ end' = end
    BY <1>1, <1>8 DEF TailRead, TailOK, ShapeOK, SinceOK
  <2>2. IsPrefix(out, LastLines)
    <3>1. /\ pos \in Nat /\ at[1] \in Nat /\ Len(file) \in Nat /\ pos <= at[1] /\ at[1] <= Len(file)
          /\ Len(file) <= Len(file) /\ file \in Seq(Characters)
      BY <1>2, <2>1
    <3>2. IsPrefix(SubSeq(file, pos + 1, at[1]), SubSeq(file, pos + 1, Len(file)))
      BY ONLY <3>1, SlicesNest
    <3> QED BY <1>4, <2>1, <3>2
  <2>3. CASE Return(5, {1}) /\ UNCHANGED <<at, out, short>>
    <3>1. pc' = "done" /\ rc' = 5 /\ out' = out
      BY <2>3 DEF Return
    <3> QED BY <1>1, <2>2, <3>1 DEF TailOK, Ended
  <2>4. CASE \E c \in Chunks(1, ReadSize) :
          /\ at' = [at EXCEPT ![1] = @ + Len(c)]
          /\ short' = (short \/ Len(c) < Min({ReadSize, Left(1)}))
          /\ IF c = <<>> THEN Return(0, {1}) /\ UNCHANGED out ELSE WriteThen(c, "read")
    <3>1. PICK c \in Chunks(1, ReadSize) :
          /\ at' = [at EXCEPT ![1] = @ + Len(c)]
          /\ IF c = <<>> THEN Return(0, {1}) /\ UNCHANGED out ELSE WriteThen(c, "read")
      BY <2>4
    <3>2. /\ at'[1] = at[1] + Len(c) /\ c \in Seq(Characters) /\ Len(c) \in Nat
          /\ at[1] + Len(c) <= Len(file)
          /\ c = SubSeq(file, at[1] + 1, at[1] + Len(c))
          /\ c = <<>> <=> at[1] = Len(file)
      BY <3>1, FirstReach
    <3>3. CASE c = <<>> /\ Return(0, {1}) /\ UNCHANGED out
      <4>1. pc' = "done" /\ rc' = 0 /\ out' = out
        BY <3>3 DEF Return
      <4>2. out = LastLines
        BY <1>4, <2>1, <3>2, <3>3
      <4> QED BY <1>1, <2>2, <4>1, <4>2 DEF TailOK, Ended
    <3>4. CASE WriteThen(c, "read")
      <4>1. IsPrefix(out \o c, LastLines)
        <5>1. /\ pos \in Nat /\ at[1] \in Nat /\ at[1] + Len(c) \in Nat /\ Len(file) \in Nat
              /\ pos <= at[1] /\ at[1] <= at[1] + Len(c) /\ at[1] + Len(c) <= Len(file)
              /\ pos <= at[1] + Len(c)
              /\ Len(file) <= Len(file) /\ file \in Seq(Characters)
          <6>1. Len(c) \in Nat /\ at[1] + Len(c) <= Len(file)
            BY <3>2
          <6>2. pos <= at[1]
            BY <2>1
          <6> QED BY ONLY <1>2, <6>1, <6>2
        <5>2. SubSeq(file, pos + 1, at[1]) \o SubSeq(file, at[1] + 1, at[1] + Len(c))
                = SubSeq(file, pos + 1, at[1] + Len(c))
          BY ONLY <5>1, SlicesJoin
        <5>3. IsPrefix(SubSeq(file, pos + 1, at[1] + Len(c)), SubSeq(file, pos + 1, Len(file)))
          BY ONLY <5>1, SlicesNest
        <5>4. c = SubSeq(file, at[1] + 1, at[1] + Len(c))
          BY <3>2
        <5>5. out \o c = SubSeq(file, pos + 1, at[1] + Len(c))
          BY ONLY <2>1, <5>2, <5>4, Zenon
        <5> QED BY <1>4, <2>1, <5>3, <5>5
      <4>2. pc' = "done" => IsPrefix(out', LastLines) /\ (rc' = 0 => out' = LastLines)
        <5>1. out \in Seq(Characters) /\ c \in Seq(Characters) /\ LastLines \in Seq(Characters)
          BY <1>2, <1>4, <3>2
        <5> QED BY ONLY <3>4, <4>1, <5>1, WriteEnds
      <4>3. pc' \in {"read", "done"}
        <5>1. out \in Seq(Characters) /\ c \in Seq(Characters)
          BY <1>2, <3>2
        <5> QED BY ONLY <3>4, <5>1, WriteIs
      <4> QED BY <1>1, <2>1, <4>2, <4>3 DEF TailOK, Ended
    <3> QED BY <3>1, <3>3, <3>4
  <2> QED BY <1>8, <2>3, <2>4, TailReadIs
<1> QED
  <2>1. CASE pc = "done"
    BY <1>1, <1>6, <2>1
  <2>2. CASE pc \in {"read", "scan"} /\ Next
    BY <1>1, <1>8, <2>2 DEF Next, ParseArgs, OpenFile, OpenSecond, SeekStart, SeekEnd, TailBack,
       TailAll, HeadRead, StringsRead, StringsScan, StringsNext, HexLine, SnapDiffRead, Grow,
       ShapeOK, ControlOK
  <2> QED BY <1>6, <1>7, <2>1, <2>2 DEF ShapeOK, TypeOK, Early

-----------------------------------------------------------------------------
\* The first n bytes from the offset on, with their addresses.
Shown(n) == [k \in 1..n |-> <<offset + k - 1, file[offset + k]>>]

\* Hex has shown what it has read.
HexOK ==
  tool = "Hex" /\ grown = 0 =>
    /\ pc = "read" => at[1] = offset + Len(out) /\ out = Shown(Len(out))
    /\ Ended(Dump)

Bytes == (0..(SeekSpace - 1)) \X Characters

LEMMA ShownIs ==
  ASSUME file \in Seq(Characters), offset \in Nat, NEW n \in Nat,
         offset + n <= Len(file), offset + n <= SeekSpace
  PROVE  /\ Shown(n) \in Seq(Bytes) /\ Len(Shown(n)) = n
         /\ \A k \in 1..n : Shown(n)[k] = <<offset + k - 1, file[offset + k]>>
<1>0. Len(file) \in Nat
  OBVIOUS
<1>1. \A k \in 1..n : offset + k - 1 \in 0..(SeekSpace - 1) /\ offset + k \in 1..Len(file)
  BY <1>0
<1>2. \A k \in 1..n : file[offset + k] \in Characters
  BY <1>1
<1>3. \A k \in 1..n : <<offset + k - 1, file[offset + k]>> \in Bytes
  BY <1>1, <1>2 DEF Bytes
<1>4. Shown(n) \in [1..n -> Bytes]
  BY <1>3 DEF Shown
<1>5. Shown(n) \in Seq(Bytes)
  BY <1>4, SeqDef
<1>6. Len(Shown(n)) = n
  BY <1>4
<1> QED BY <1>5, <1>6 DEF Shown

\* A line of k bytes more.
LEMMA ShownJoin ==
  ASSUME file \in Seq(Characters), offset \in Nat, NEW n \in Nat, NEW c \in Seq(Characters),
         offset + n + Len(c) <= Len(file), offset + n + Len(c) <= SeekSpace,
         c = SubSeq(file, offset + n + 1, offset + n + Len(c))
  PROVE  LET s == [k \in DOMAIN c |-> <<offset + n + k - 1, c[k]>>]
         IN  /\ Shown(n) \o s = Shown(n + Len(c)) /\ s \in Seq(Bytes)
             /\ Shown(n) \in Seq(Bytes) /\ Len(Shown(n + Len(c))) = n + Len(c)
<1> DEFINE s == [k \in DOMAIN c |-> <<offset + n + k - 1, c[k]>>]
<1>0. PICK m \in Nat : m = Len(c)
  <2>1. c \in Seq(Characters)
    OBVIOUS
  <2> QED BY ONLY <2>1
<1>1. /\ offset + n \in Nat /\ offset + n + m \in Nat /\ n + m \in Nat
      /\ offset + n <= offset + n + m /\ offset + n + m <= Len(file) /\ offset + n + m - (offset + n) = m
      /\ offset + n <= Len(file) /\ offset + n <= SeekSpace /\ Len(file) \in Nat
      /\ offset + (n + m) <= Len(file) /\ offset + (n + m) <= SeekSpace
  <2>1. Len(file) \in Nat /\ offset + n + m <= Len(file) /\ offset + n + m <= SeekSpace
    BY <1>0
  <2>2. offset \in Nat /\ n \in Nat /\ m \in Nat
    OBVIOUS
  <2> QED BY ONLY <2>1, <2>2, Constants
<1>2. \A i \in 1..m : c[i] = file[offset + n + i]
  <2>1. \A i \in 1..(offset + n + m - (offset + n)) :
           SubSeq(file, offset + n + 1, offset + n + m)[i] = file[offset + n + i]
    BY ONLY file \in Seq(Characters), <1>1, SliceIs, SMTT(30)
  <2>2. c = SubSeq(file, offset + n + 1, offset + n + m)
    BY <1>0
  <2> QED BY ONLY <1>1, <2>1, <2>2
<1>3. /\ s \in Seq(Bytes) /\ Len(s) = m
      /\ \A k \in 1..m : s[k] = <<offset + n + k - 1, c[k]>>
  <2>1. c \in Seq(Characters) /\ offset + n \in Nat /\ offset + n + Len(c) <= SeekSpace
    BY <1>1
  <2>2. /\ s \in Seq(Bytes) /\ Len(s) = Len(c)
        /\ \A k \in 1..Len(c) : s[k] = <<offset + n + k - 1, c[k]>>
    BY ONLY <2>1, LineIs DEF Bytes
  <2> QED BY ONLY <1>0, <2>2
<1> HIDE DEF s
<1>4. /\ Shown(n) \in Seq(Bytes) /\ Len(Shown(n)) = n
      /\ \A k \in 1..n : Shown(n)[k] = <<offset + k - 1, file[offset + k]>>
  BY <1>1, ShownIs
<1>5. /\ Shown(n + m) \in Seq(Bytes) /\ Len(Shown(n + m)) = n + m
      /\ \A k \in 1..(n + m) : Shown(n + m)[k] = <<offset + k - 1, file[offset + k]>>
  BY <1>1, ShownIs
<1>6. /\ Shown(n) \o s \in Seq(Bytes) /\ Len(Shown(n) \o s) = Len(Shown(n)) + Len(s)
      /\ \A i \in 1..(Len(Shown(n)) + Len(s)) :
            (Shown(n) \o s)[i] = IF i <= Len(Shown(n)) THEN Shown(n)[i] ELSE s[i - Len(Shown(n))]
  BY ONLY <1>3, <1>4, ConcatProperties
<1>7. ASSUME NEW i \in 1..(n + m) PROVE (Shown(n) \o s)[i] = Shown(n + m)[i]
  <2>1. CASE i <= n
    <3>1. i \in 1..n
      BY <2>1
    <3> QED BY <1>3, <1>4, <1>5, <1>6, <2>1, <3>1
  <2>2. CASE ~(i <= n)
    <3>1. i - n \in 1..m /\ offset + n + (i - n) = offset + i /\ offset + n + (i - n) - 1 = offset + i - 1
      BY <2>2
    <3>2. (Shown(n) \o s)[i] = s[i - n]
      BY <1>3, <1>4, <1>6, <2>2
    <3>3. s[i - n] = <<offset + n + (i - n) - 1, c[i - n]>>
      BY <1>3, <3>1
    <3>4. c[i - n] = file[offset + n + (i - n)]
      BY <1>2, <3>1
    <3> QED BY <1>5, <3>1, <3>2, <3>3, <3>4
  <2> QED BY <2>1, <2>2
<1>8. Shown(n) \o s = Shown(n + m)
  <2>1. Len(Shown(n) \o s) = n + m
    BY <1>3, <1>4, <1>6
  <2> QED BY ONLY <1>5, <1>6, <1>7, <2>1, SeqEqual
<1> QED BY <1>0, <1>3, <1>4, <1>5, <1>8 DEF s

\* The dump of the file, as long as the range has not ended.
LEMMA DumpIs ==
  ASSUME file \in Seq(Characters), offset \in Nat, number \in Nat, NEW n \in Nat,
         offset + n <= Len(file), offset + n <= SeekSpace, number # NoLimit => n <= number
  PROVE  /\ Dump \in Seq(Bytes) /\ IsPrefix(Shown(n), Dump)
         /\ \/ offset + n = Len(file) \/ offset + n = SeekSpace
            \/ number # NoLimit /\ n = number
            => Dump = Shown(n)
<1> DEFINE S == {Len(file), SeekSpace, IF number = NoLimit THEN SeekSpace ELSE offset + number}
           size == Min(S)
<1>0. Len(file) \in Nat
  OBVIOUS
<1>1. S \subseteq Nat /\ S # {}
  BY <1>0
<1>2. size \in S /\ \A x \in S : size <= x
  <2> HIDE DEF S
  <2> QED BY <1>1, LeastNat
<1>3. /\ size \in Nat /\ size <= Len(file) /\ size <= SeekSpace
      /\ number # NoLimit => size <= offset + number
      /\ \/ size = Len(file) \/ size = SeekSpace
         \/ number # NoLimit /\ size = offset + number
  <2> HIDE DEF size
  <2>1. size \in Nat
    <3> HIDE DEF S
    <3> QED BY <1>1, <1>2
  <2>2. CASE number = NoLimit
    <3>1. size \in {Len(file), SeekSpace} /\ \A x \in {Len(file), SeekSpace} : size <= x
      BY <1>2, <2>2
    <3>2. (size = Len(file) \/ size = SeekSpace) /\ size <= Len(file) /\ size <= SeekSpace
      BY ONLY <3>1
    <3> QED BY ONLY <2>1, <2>2, <3>2
  <2>3. CASE number # NoLimit
    <3>1. /\ size \in {Len(file), SeekSpace, offset + number}
          /\ \A x \in {Len(file), SeekSpace, offset + number} : size <= x
      BY <1>2, <2>3
    <3>2. /\ size = Len(file) \/ size = SeekSpace \/ size = offset + number
          /\ size <= Len(file) /\ size <= SeekSpace /\ size <= offset + number
      BY ONLY <3>1
    <3> QED BY ONLY <2>1, <2>3, <3>2
  <2> QED BY <2>2, <2>3
<1>4. Dump = Shown(size - offset)
  BY DEF Dump, Shown
<1> HIDE DEF S, size
<1>5. offset + n <= size
  BY <1>0, <1>3
<1>6. PICK m \in Nat : m = size - offset
  BY <1>3, <1>5
<1>7. offset + m <= Len(file) /\ offset + m <= SeekSpace /\ n <= m
  BY <1>0, <1>3, <1>5, <1>6
<1>8. /\ Shown(m) \in Seq(Bytes) /\ Len(Shown(m)) = m
      /\ \A k \in 1..m : Shown(m)[k] = <<offset + k - 1, file[offset + k]>>
  BY <1>7, ShownIs
<1>9. /\ Shown(n) \in Seq(Bytes) /\ Len(Shown(n)) = n
      /\ \A k \in 1..n : Shown(n)[k] = <<offset + k - 1, file[offset + k]>>
  BY ShownIs
<1>10. \A k \in 1..n : k \in 1..m
  BY <1>7
<1>11. IsPrefix(Shown(n), Shown(m))
  <2>1. \A k \in 1..Len(Shown(n)) : Shown(n)[k] = Shown(m)[k]
    BY <1>8, <1>9, <1>10
  <2>2. Len(Shown(n)) <= Len(Shown(m))
    BY <1>7, <1>8, <1>9
  <2> QED BY <1>8, <1>9, <2>1, <2>2, PrefixIs
<1>12. ASSUME \/ offset + n = Len(file) \/ offset + n = SeekSpace
              \/ number # NoLimit /\ n = number
       PROVE  m = n
  <2>1. size <= offset + n
    BY <1>3, <1>12
  <2> QED BY <1>3, <1>5, <1>6, <2>1
<1> QED BY <1>4, <1>6, <1>8, <1>11, <1>12

LEMMA HexStep == ShapeOK /\ HexOK /\ [Next]_vars => HexOK'
<1> SUFFICES ASSUME ShapeOK, HexOK, [Next]_vars, tool' = "Hex", grown' = 0
             PROVE  HexOK'
  BY DEF HexOK
<1>1. /\ tool = "Hex" /\ grown = 0 /\ number' = number /\ offset' = offset /\ file' = file
      /\ pc = "done" => UNCHANGED vars
      /\ Dump' = Dump /\ \A n : Shown(n)' = Shown(n)
  BY QuietStep DEF file, Dump, Shown
<1>2. /\ file \in Seq(Characters) /\ number \in Nat /\ offset \in Nat /\ at[1] \in Nat
      /\ at[1] <= Len(file) /\ Len(file) \in Nat /\ out \in Seq(Bytes) /\ at \in [1..2 -> Nat]
  BY <1>1 DEF ShapeOK, TypeOK, ReachOK, file, Items, NoLimit, Bytes
<1>3. Shown(0) = <<>> /\ Len(<<>>) = 0
  BY DEF Shown
<1>4. CASE UNCHANGED vars
  <2>1. UNCHANGED <<tool, pc, out, at, rc, grown, NoWork>>
    BY <1>4 DEF vars, NoWork
  <2> QED BY <1>1, <2>1 DEF HexOK, Ended
<1>5. CASE pc \in Early /\ Next
  <2>1. out' = <<>> /\ (pc' = "done" /\ rc' = 0 => NoWork')
    BY <1>5, EarlyOut
  <2>2. Ended(Dump)'
    BY <2>1 DEF Ended
  <2>3. ASSUME pc' = "read" PROVE at'[1] = offset
    <3>1. CASE OpenFile
      <4>1. pc = "open" /\ at' = at /\ at[1] = 0
        BY <3>1 DEF OpenFile, ShapeOK, StartOK, Early
      <4>2. pc' = CASE tool = "SnapDiff" -> "second"
                    [] tool = "Tail" -> "end"
                    [] tool = "Hex" /\ offset # 0 -> "start"
                    [] OTHER -> "read"
        BY <2>3, <3>1 DEF OpenFile, Return
      <4>3. offset = 0
        BY <1>1, <2>3, <4>2
      <4> QED BY <4>1, <4>3
    <3>2. CASE SeekStart
      BY <1>1, <1>2, <2>3, <3>2 DEF SeekStart, Return, Goto
    <3>3. ~(ParseArgs \/ OpenSecond \/ SeekEnd \/ TailBack \/ TailAll)
      BY <1>1, <2>3 DEF ParseArgs, OpenSecond, SeekEnd, TailBack, TailAll, Return, Goto,
         ShapeOK, ControlOK
    <3>4. ~(HeadRead \/ TailRead \/ StringsRead \/ StringsScan \/ StringsNext \/ HexLine
            \/ SnapDiffRead)
      BY <1>5 DEF HeadRead, TailRead, StringsRead, StringsScan, StringsNext, HexLine,
         SnapDiffRead, Early
    <3>5. ~Grow
      BY <1>1 DEF Grow
    <3> QED BY <1>5, <3>1, <3>2, <3>3, <3>4, <3>5 DEF Next
  <2>4. offset = offset + 0
    BY <1>2
  <2> QED BY <1>1, <1>3, <2>1, <2>2, <2>3, <2>4 DEF HexOK
<1>6. CASE HexLine
  <2>1. pc = "read" /\ at[1] = offset + Len(out) /\ out = Shown(Len(out))
    BY <1>1, <1>6 DEF HexLine, HexOK
  <2>2. /\ Len(out) \in Nat /\ RangeLeft \in Nat
        /\ RangeLeft <= SeekSpace - offset - Len(out)
        /\ number # NoLimit => RangeLeft <= number - Len(out)
        /\ RangeLeft = 0 => \/ Len(out) = SeekSpace - offset
                            \/ number # NoLimit /\ Len(out) = number
    BY <1>1, <2>1, RangeIs
  <2>3. PICK n \in Nat : n = Len(out)
    BY <2>2
  <2>4. /\ offset + n <= Len(file) /\ offset + n <= SeekSpace /\ (number # NoLimit => n <= number)
        /\ at[1] = offset + n
    <3>1. at[1] = offset + n
      BY <2>1, <2>3
    <3>2. at[1] <= Len(file) /\ offset \in Nat /\ number \in Nat
      BY <1>2
    <3>3. /\ RangeLeft \in Nat /\ RangeLeft <= SeekSpace - offset - n
          /\ number # NoLimit => RangeLeft <= number - n
      BY <2>2, <2>3
    <3> QED BY ONLY <3>1, <3>2, <3>3, Constants
  <2>5. /\ Dump \in Seq(Bytes) /\ IsPrefix(Shown(n), Dump)
        /\ \/ offset + n = Len(file) \/ offset + n = SeekSpace
           \/ number # NoLimit /\ n = number
           => Dump = Shown(n)
    BY ONLY <1>2, <2>4, DumpIs
  <2>6. out = Shown(n)
    BY <2>1, <2>3
  <2>7. CASE RangeLeft = 0 /\ Return(0, {1}) /\ UNCHANGED <<at, out, short>>
    <3>1. pc' = "done" /\ rc' = 0 /\ out' = out
      BY <2>7 DEF Return
    <3>2. \/ offset + n = SeekSpace
          \/ number # NoLimit /\ n = number
      BY <1>2, <2>2, <2>3, <2>7
    <3> QED BY <1>1, <2>5, <2>6, <3>1, <3>2 DEF HexOK, Ended
  <2>8. CASE Return(5, {1}) /\ UNCHANGED <<at, out, short>>
    <3>1. pc' = "done" /\ rc' = 5 /\ out' = out
      BY <2>8 DEF Return
    <3> QED BY <1>1, <2>5, <2>6, <3>1 DEF HexOK, Ended
  <2> DEFINE want == Min({ReadSize, RangeLeft})
  <2>9. CASE /\ RangeLeft > 0
             /\ \E c \in Chunks(1, want) :
                 /\ at' = [at EXCEPT ![1] = @ + Len(c)]
                 /\ short' = (short \/ Len(c) < Min({want, Left(1)}))
                 /\ IF c = <<>> THEN Return(0, {1}) /\ UNCHANGED out
                    ELSE WriteThen(Line(c), "read")
    <3>1. PICK c \in Chunks(1, want) :
                 /\ at' = [at EXCEPT ![1] = @ + Len(c)]
                 /\ IF c = <<>> THEN Return(0, {1}) /\ UNCHANGED out
                    ELSE WriteThen(Line(c), "read")
      BY <2>9
    <3>2. want \in Nat /\ want >= 1 /\ want <= RangeLeft
      <4>1. ReadSize \in Int /\ RangeLeft \in Int
        BY <2>2
      <4>2. /\ ReadSize <= RangeLeft => want = ReadSize
            /\ RangeLeft <= ReadSize => want = RangeLeft
        BY ONLY <4>1, MinMaxOfTwo
      <4> QED BY <2>2, <2>9, <4>2
    <3> HIDE DEF want
    <3>3. /\ at'[1] = at[1] + Len(c) /\ c \in Seq(Characters) /\ Len(c) \in Nat /\ Len(c) <= want
          /\ at[1] + Len(c) <= Len(file)
          /\ c = SubSeq(file, at[1] + 1, at[1] + Len(c))
          /\ c = <<>> <=> at[1] = Len(file)
      BY <3>1, <3>2, FirstReach
    <3>4. CASE c = <<>> /\ Return(0, {1}) /\ UNCHANGED out
      <4>1. pc' = "done" /\ rc' = 0 /\ out' = out
        BY <3>4 DEF Return
      <4>2. offset + n = Len(file)
        BY <2>4, <3>3, <3>4
      <4> QED BY <1>1, <2>5, <2>6, <4>1, <4>2 DEF HexOK, Ended
    <3>5. CASE WriteThen(Line(c), "read")
      <4> DEFINE s == [k \in DOMAIN c |-> <<offset + n + k - 1, c[k]>>]
                 N == n + Len(c)
      <4>1. WriteThen(s, "read")
        BY <2>3, <3>5 DEF Line
      <4>2. /\ offset + n + Len(c) <= Len(file) /\ offset + n + Len(c) <= SeekSpace
            /\ c = SubSeq(file, offset + n + 1, offset + n + Len(c))
            /\ c \in Seq(Characters)
            /\ (number # NoLimit => N <= number) /\ offset + N <= Len(file) /\ offset + N <= SeekSpace
            /\ N \in Nat /\ at'[1] = offset + N
        <5>1. /\ RangeLeft \in Nat /\ RangeLeft <= SeekSpace - offset - n
              /\ number # NoLimit => RangeLeft <= number - n
          BY <2>2, <2>3
        <5>2. Len(c) \in Nat /\ Len(c) <= RangeLeft
          <6>1. Len(c) \in Nat /\ Len(c) <= want
            BY <3>3
          <6> QED BY ONLY <3>2, <5>1, <6>1
        <5>3. offset + n + Len(c) <= Len(file) /\ at'[1] = offset + n + Len(c)
              /\ c = SubSeq(file, offset + n + 1, offset + n + Len(c)) /\ c \in Seq(Characters)
          BY ONLY <2>4, <3>3, Zenon
        <5>4. offset \in Nat /\ number \in Nat /\ Len(file) \in Nat
          BY <1>2
        <5>5. offset + n + Len(c) <= SeekSpace /\ (number # NoLimit => N <= number)
          BY ONLY <5>1, <5>2, <5>4, Constants
        <5>6. offset + n + Len(c) = offset + N /\ N \in Nat
          BY ONLY <5>2, <5>4
        <5> QED BY ONLY <5>3, <5>5, <5>6
      <4>3. /\ Shown(n) \o s = Shown(N) /\ s \in Seq(Bytes) /\ Len(Shown(N)) = N
        BY ONLY <1>2, <4>2, ShownJoin
      <4> HIDE DEF s, N
      <4>4. IsPrefix(Shown(N), Dump)
        BY ONLY <1>2, <4>2, DumpIs
      <4>5. out \o s = Shown(N)
        BY <2>6, <4>3
      <4>6. pc' = "done" => IsPrefix(out', Dump) /\ (rc' = 0 => out' = Dump)
        <5>1. IsPrefix(out \o s, Dump)
          BY <4>4, <4>5
        <5> QED BY ONLY <1>2, <2>5, <4>1, <4>3, <5>1, WriteEnds
      <4>7. pc' = "read" => out' = out \o s
        BY ONLY <1>2, <4>1, <4>3, WriteIs
      <4>8. pc' = "read" => at'[1] = offset' + Len(out') /\ out' = Shown(Len(out))'
        <5> SUFFICES ASSUME pc' = "read" PROVE at'[1] = offset' + Len(out') /\ out' = Shown(Len(out))'
          OBVIOUS
        <5>1. out' = Shown(N) /\ Len(out') = N
          BY <4>3, <4>5, <4>7
        <5>2. Shown(Len(out))' = [k \in 1..Len(out') |-> <<offset + k - 1, file[offset + k]>>]
          BY <1>1 DEF Shown
        <5>3. Shown(N) = [k \in 1..N |-> <<offset + k - 1, file[offset + k]>>]
          BY DEF Shown
        <5> QED BY <1>1, <4>2, <5>1, <5>2, <5>3
      <4> QED BY <1>1, <4>6, <4>8 DEF HexOK, Ended
    <3> QED BY <3>1, <3>4, <3>5
  <2> QED BY <1>6, <2>7, <2>8, <2>9, HexLineIs
<1> QED
  <2>1. CASE pc = "done"
    BY <1>1, <1>4, <2>1
  <2>2. CASE pc \in {"read", "scan"} /\ Next
    BY <1>1, <1>6, <2>2 DEF Next, ParseArgs, OpenFile, OpenSecond, SeekStart, SeekEnd, TailBack,
       TailAll, HeadRead, TailRead, StringsRead, StringsScan, StringsNext, SnapDiffRead, Grow,
       ShapeOK, ControlOK
  <2> QED BY <1>4, <1>5, <2>1, <2>2 DEF ShapeOK, TypeOK, Early

-----------------------------------------------------------------------------
(***************************************************************************)
(* SnapDiff's figures.                                                     *)
(***************************************************************************)
\* The first n places where the snapshots differ, those that only one of them
\* has included.
Unequal(n) ==
  {k \in 1..n : ~(k <= Len(files[1]) /\ k <= Len(files[2]) /\ files[1][k] = files[2][k])}

\* As long as no difference has been found, the snapshots agree; as long as no
\* Read came short, the figures are those of the part that has been read.
SnapOK ==
  tool = "SnapDiff" /\ grown = 0 =>
    /\ out = <<>>
    /\ ~diff.have => at[1] = at[2] /\ \A k \in 1..at[1] : files[1][k] = files[2][k]
    /\ ~short =>
         /\ diff.offset = IF at[1] <= at[2] THEN at[2] ELSE at[1]
         /\ at[1] < diff.offset => at[1] = Len(files[1])
         /\ at[2] < diff.offset => at[2] = Len(files[2])
         /\ diff.have <=> Unequal(diff.offset) # {}
         /\ diff.differing = Cardinality(Unequal(diff.offset))
         /\ diff.have => diff.first = Min(Unequal(diff.offset)) - 1
    /\ pc = "done" /\ rc = 0 => files[1] = files[2]

\* There is one smallest number.
LEMMA MinIs ==
  ASSUME NEW S, S \subseteq Nat, NEW x \in S, \A y \in S : x <= y
  PROVE  Min(S) = x
<1>1. Min(S) \in S /\ \A y \in S : Min(S) <= y
  BY LeastNat
<1>2. Min(S) \in Nat /\ x \in Nat /\ Min(S) <= x /\ x <= Min(S)
  BY <1>1
<1> QED BY ONLY <1>2

\* A set of numbers moved up by o.
LEMMA ShiftCard ==
  ASSUME NEW D, D \subseteq Nat, IsFiniteSet(D), NEW o \in Nat, NEW T,
         T \subseteq Nat, \A x \in T : x >= o /\ x - o \in D, \A k \in D : o + k \in T
  PROVE  IsFiniteSet(T) /\ Cardinality(T) = Cardinality(D)
<1> DEFINE F == [k \in D |-> o + k]
<1>1. F \in [D -> T]
  OBVIOUS
<1>2. \A j, k \in D : F[j] = F[k] => j = k
  OBVIOUS
<1>3. \A x \in T : \E k \in D : F[k] = x
  <2> SUFFICES ASSUME NEW x \in T PROVE \E k \in D : F[k] = x
    OBVIOUS
  <2>1. x - o \in D /\ o + (x - o) = x
    OBVIOUS
  <2> QED BY <2>1
<1> HIDE DEF F
<1>4. F \in Bijection(D, T)
  <2>1. \/ F \in Injection(D, T)
        \/ F \in [D -> T] /\ \A j, k \in D : F[j] = F[k] => j = k
    BY <1>1, <1>2
  <2>2. \/ F \in Surjection(D, T)
        \/ F \in [D -> T] /\ \A x \in T : \E k \in D : F[k] = x
    BY <1>1, <1>3
  <2> QED BY ONLY <2>1, <2>2, Fun_IsBij
<1>5. ExistsBijection(D, T)
  BY <1>4 DEF ExistsBijection
<1> QED BY <1>5, FS_Bijection

\* D are the differences among the m places behind o.
Adds(o, m, D) ==
  D \subseteq 1..m /\ \A k \in 1..m : k \in D <=> o + k \in Unequal(o + m)

\* The differences of a longer part are those of the shorter one and D.
LEMMA UnequalGrows ==
  ASSUME NEW o \in Nat, NEW m \in Nat, NEW D, Adds(o, m, D)
  PROVE  /\ Cardinality(Unequal(o + m)) = Cardinality(Unequal(o)) + Cardinality(D)
         /\ Unequal(o + m) # {} <=> Unequal(o) # {} \/ D # {}
         /\ Unequal(o) # {} => Min(Unequal(o + m)) = Min(Unequal(o))
         /\ Unequal(o) = {} /\ D # {} => Min(Unequal(o + m)) = o + Min(D)
<1> DEFINE U == Unequal(o)
           V == Unequal(o + m)
           T == {x \in V : x > o}
<1>0. D \subseteq 1..m /\ \A k \in 1..m : k \in D <=> o + k \in V
  BY DEF Adds
<1>1. U \subseteq 1..o /\ V \subseteq 1..(o + m) /\ U \subseteq Nat /\ V \subseteq Nat /\ D \subseteq Nat
  BY <1>0 DEF Unequal
<1>2. \A x \in Nat : x <= o => (x \in U <=> x \in V)
  BY DEF Unequal
<1> HIDE DEF U, V
<1>3. \A x \in T : x \in Nat /\ x >= o /\ x - o \in D
  <2> SUFFICES ASSUME NEW x \in T PROVE x \in Nat /\ x >= o /\ x - o \in D
    OBVIOUS
  <2>1. x \in 1..(o + m) /\ x > o
    BY <1>1
  <2>2. x - o \in 1..m /\ o + (x - o) = x
    BY <2>1
  <2> QED BY <1>0, <2>1, <2>2
<1>4. \A k \in D : o + k \in T
  <2> SUFFICES ASSUME NEW k \in D PROVE o + k \in T
    OBVIOUS
  <2>1. k \in 1..m /\ o + k > o
    BY <1>0
  <2> QED BY <1>0, <2>1
<1>5. V = U \cup T /\ U \cap T = {}
  <2>1. \A x \in V : x <= o \/ x > o
    BY <1>1
  <2>2. \A x \in U : x <= o /\ ~(x > o)
    BY <1>1
  <2> QED BY <1>1, <1>2, <2>1, <2>2
<1>6. IsFiniteSet(D) /\ IsFiniteSet(U) /\ Cardinality(D) \in Nat /\ Cardinality(U) \in Nat
  <2>1. IsFiniteSet(1..m) /\ IsFiniteSet(1..o)
    BY FS_Interval
  <2>2. IsFiniteSet(D) /\ IsFiniteSet(U)
    BY <1>0, <1>1, <2>1, FS_Subset
  <2> QED BY <2>2, FS_CardinalityType
<1>T. T \subseteq Nat
  BY <1>1
<1> HIDE DEF T
<1>7. IsFiniteSet(T) /\ Cardinality(T) = Cardinality(D)
  BY ONLY <1>1, <1>3, <1>4, <1>6, <1>T, o \in Nat, ShiftCard
<1>8. Cardinality(V) = Cardinality(U) + Cardinality(D)
  <2>1. Cardinality(U \cup T) = Cardinality(U) + Cardinality(T) - Cardinality(U \cap T)
    BY <1>6, <1>7, FS_Union
  <2>2. Cardinality({}) = 0
    BY FS_EmptySet
  <2>3. Cardinality(V) = Cardinality(U) + Cardinality(D) - 0
    BY ONLY <1>5, <1>7, <2>1, <2>2
  <2> QED BY <1>6, <2>3
<1>9. V # {} <=> U # {} \/ D # {}
  BY <1>3, <1>4, <1>5
<1>10. ASSUME U # {} PROVE Min(V) = Min(U)
  <2>1. Min(U) \in U /\ \A y \in U : Min(U) <= y
    BY <1>1, <1>10, LeastNat
  <2>2. Min(U) \in V /\ Min(U) \in Nat /\ Min(U) <= o
    BY <1>1, <1>5, <2>1
  <2>3. \A y \in V : Min(U) <= y
    <3>1. \A y \in T : y \in Nat /\ y >= o
      BY <1>3
    <3> QED BY <1>5, <2>1, <2>2, <3>1
  <2> QED BY <1>1, <2>2, <2>3, MinIs
<1>11. ASSUME U = {}, D # {} PROVE Min(V) = o + Min(D)
  <2>1. Min(D) \in D /\ \A y \in D : Min(D) <= y
    BY <1>1, <1>11, LeastNat
  <2>2. V = T
    BY <1>5, <1>11
  <2>3. o + Min(D) \in V
    BY <1>4, <2>1, <2>2
  <2>4. \A y \in V : o + Min(D) <= y
    <3> SUFFICES ASSUME NEW y \in V PROVE o + Min(D) <= y
      OBVIOUS
    <3>1. y \in Nat /\ y >= o /\ y - o \in D
      BY <1>3, <2>2
    <3>2. Min(D) <= y - o /\ Min(D) \in Nat
      BY <1>1, <2>1, <3>1
    <3> QED BY <3>1, <3>2
  <2> QED BY <1>1, <2>3, <2>4, MinIs
<1> QED BY <1>8, <1>9, <1>10, <1>11 DEF U, V

\* Two chunks from places a and b that begin at o, unless one snapshot has
\* ended before; a chunk that is shorter than the other one ends its snapshot.
SideBySide(l, r, a, b, o) ==
  /\ files[1] \in Seq(Characters) /\ files[2] \in Seq(Characters)
  /\ l \in Seq(Characters) /\ r \in Seq(Characters)
  /\ a \in Nat /\ b \in Nat /\ o \in Nat
  /\ a + Len(l) <= Len(files[1]) /\ b + Len(r) <= Len(files[2])
  /\ l = SubSeq(files[1], a + 1, a + Len(l)) /\ r = SubSeq(files[2], b + 1, b + Len(r))
  /\ \/ a = o /\ b = o
     \/ a = o /\ b < o /\ b = Len(files[2])
     \/ b = o /\ a < o /\ a = Len(files[1])
  /\ Len(l) < Len(r) => a + Len(l) = Len(files[1])
  /\ Len(r) < Len(l) => b + Len(r) = Len(files[2])

\* The differences of such chunks are those of the snapshots.
LEMMA ChunkDiffers ==
  ASSUME NEW l, NEW r, NEW a \in Nat, NEW b \in Nat, NEW o \in Nat, SideBySide(l, r, a, b, o)
  PROVE  /\ Longest(l, r) \in Nat /\ Adds(o, Longest(l, r), Differs(l, r))
         /\ o + Longest(l, r) =
              IF a + Len(l) <= b + Len(r) THEN b + Len(r) ELSE a + Len(l)
         /\ a + Len(l) < o + Longest(l, r) => a + Len(l) = Len(files[1])
         /\ b + Len(r) < o + Longest(l, r) => b + Len(r) = Len(files[2])
<1>A. PICK p \in Nat, q \in Nat : p = Len(l) /\ q = Len(r)
  <2>1. l \in Seq(Characters) /\ r \in Seq(Characters)
    BY DEF SideBySide
  <2>2. Len(l) \in Nat /\ Len(r) \in Nat
    BY ONLY <2>1
  <2> QED BY <2>2
<1>B. PICK F, G : F = files[1] /\ G = files[2]
  OBVIOUS
<1>H. /\ F \in Seq(Characters) /\ G \in Seq(Characters) /\ F = files[1] /\ G = files[2]
      /\ l \in Seq(Characters) /\ r \in Seq(Characters)
      /\ a \in Nat /\ b \in Nat /\ o \in Nat
      /\ a + p <= Len(F) /\ b + q <= Len(G)
      /\ l = SubSeq(F, a + 1, a + p) /\ r = SubSeq(G, b + 1, b + q)
      /\ \/ a = o /\ b = o
         \/ a = o /\ b < o /\ b = Len(G)
         \/ b = o /\ a < o /\ a = Len(F)
      /\ p < q => a + p = Len(F)
      /\ q < p => b + q = Len(G)
  BY <1>A, <1>B, Zenon DEF SideBySide
<1>P. p \in Nat /\ q \in Nat /\ p = Len(l) /\ q = Len(r)
  <2>1. l \in Seq(Characters) /\ r \in Seq(Characters)
    BY <1>H
  <2> QED BY <1>A, <2>1
<1>N. a \in Nat /\ b \in Nat /\ o \in Nat
  BY <1>H
<1> DEFINE m == Longest(l, r)
<1>0. Len(F) \in Nat /\ Len(G) \in Nat
  BY <1>H
<1>S. (\A i \in 1..p : l[i] = F[a + i]) /\ (\A i \in 1..q : r[i] = G[b + i])
  <2>1. /\ a \in Nat /\ a + p \in Nat /\ a <= a + p /\ a + p - a = p
        /\ b \in Nat /\ b + q \in Nat /\ b <= b + q /\ b + q - b = q
    BY ONLY <1>N, <1>P
  <2>2. F \in Seq(Characters) /\ G \in Seq(Characters) /\ a + p <= Len(F) /\ b + q <= Len(G)
    BY <1>H
  <2>3. \A i \in 1..p : SubSeq(F, a + 1, a + p)[i] = F[a + i]
    <3>1. PICK e \in Nat : e = a + p
      BY <2>1
    <3>2. F \in Seq(Characters) /\ a \in Nat /\ e \in Nat /\ a <= e /\ e <= Len(F)
      BY ONLY <2>1, <2>2, <3>1
    <3>3. \A i \in 1..(e - a) : SubSeq(F, a + 1, e)[i] = F[a + i]
      BY ONLY <3>2, SliceIs
    <3>4. e - a = p
      BY ONLY <3>1, a \in Nat, p \in Nat
    <3> QED BY ONLY <3>1, <3>3, <3>4
  <2>4. \A i \in 1..q : SubSeq(G, b + 1, b + q)[i] = G[b + i]
    <3>1. PICK e \in Nat : e = b + q
      BY <2>1
    <3>2. G \in Seq(Characters) /\ b \in Nat /\ e \in Nat /\ b <= e /\ e <= Len(G)
      BY ONLY <2>1, <2>2, <3>1
    <3>3. \A i \in 1..(e - b) : SubSeq(G, b + 1, e)[i] = G[b + i]
      BY ONLY <3>2, SliceIs
    <3>4. e - b = q
      BY ONLY <3>1, b \in Nat, q \in Nat
    <3> QED BY ONLY <3>1, <3>3, <3>4
  <2>5. l = SubSeq(F, a + 1, a + p) /\ r = SubSeq(G, b + 1, b + q)
    BY <1>H
  <2> QED BY ONLY <2>1, <2>3, <2>4, <2>5
<1>1. m = IF p <= q THEN q ELSE p
  BY <1>P DEF Longest
<1> HIDE DEF m
<1>2. m \in Nat
  BY ONLY <1>1, <1>P
<1> DEFINE LF == Len(F)
           LG == Len(G)
<1>3. LF \in Nat /\ LG \in Nat /\ a + p <= LF /\ b + q <= LG
      /\ (\/ a = o /\ b = o
          \/ a = o /\ b < o /\ b = LG
          \/ b = o /\ a < o /\ a = LF)
      /\ (p < q => a + p = LF) /\ (q < p => b + q = LG)
  BY ONLY <1>0, <1>H DEF LF, LG
<1> HIDE DEF LF, LG
<1>4. /\ o + m = IF a + p <= b + q THEN b + q ELSE a + p
      /\ a + p < o + m => a + p = LF
      /\ b + q < o + m => b + q = LG
  BY ONLY <1>1, <1>3, <1>N, <1>P
<1>5. ASSUME NEW k \in 1..m PROVE k \in Differs(l, r) <=> o + k \in Unequal(o + m)
  <2>1. k \in Nat /\ o + k \in 1..(o + m)
    BY <1>2, <1>N
  <2>2. k \in Differs(l, r) <=> ~(k <= p /\ k <= q /\ l[k] = r[k])
    BY <1>5, <1>P DEF Differs, m
  <2>3. o + k \in Unequal(o + m) <=> ~(o + k <= LF /\ o + k <= LG /\ F[o + k] = G[o + k])
    BY <1>H, <2>1 DEF Unequal, LF, LG
  <2>4. CASE a = o /\ b = o
    <3>1. (k <= p <=> o + k <= LF) \/ (~(k <= q) /\ ~(o + k <= LG))
      BY ONLY <1>1, <1>3, <2>1, <2>4, k \in 1..m, <1>N, <1>P
    <3>2. (k <= q <=> o + k <= LG) \/ (~(k <= p) /\ ~(o + k <= LF))
      BY ONLY <1>1, <1>3, <2>1, <2>4, k \in 1..m, <1>N, <1>P
    <3>3. k <= p /\ k <= q => l[k] = F[o + k] /\ r[k] = G[o + k]
      <4>1. (k <= p => k \in 1..p) /\ (k <= q => k \in 1..q)
        BY ONLY <2>1, k \in 1..m, <1>P
      <4> QED BY ONLY <1>S, <2>4, <4>1
    <3> QED BY ONLY <2>2, <2>3, <3>1, <3>2, <3>3
  <2>5. CASE a = o /\ b < o /\ b = LG
    <3>1. ~(k <= q) /\ ~(o + k <= LG)
      BY ONLY <1>3, <2>1, <2>5, k \in 1..m, <1>N, <1>P
    <3> QED BY ONLY <2>2, <2>3, <3>1
  <2>6. CASE b = o /\ a < o /\ a = LF
    <3>1. ~(k <= p) /\ ~(o + k <= LF)
      BY ONLY <1>3, <2>1, <2>6, k \in 1..m, <1>N, <1>P
    <3> QED BY ONLY <2>2, <2>3, <3>1
  <2> QED BY <1>3, <2>4, <2>5, <2>6
<1>6. Differs(l, r) \subseteq 1..m
  BY DEF Differs, m
<1>7. Adds(o, m, Differs(l, r))
  BY <1>5, <1>6 DEF Adds
<1> QED BY ONLY <1>A, <1>B, <1>2, <1>4, <1>7, Zenon DEF m, LF, LG

\* Chunks without a difference are equal.
LEMMA NoDifference ==
  ASSUME NEW l \in Seq(Characters), NEW r \in Seq(Characters), Differs(l, r) = {}
  PROVE  Len(l) = Len(r) /\ \A i \in 1..Len(l) : l[i] = r[i]
<1>1. PICK p \in Nat, q \in Nat : p = Len(l) /\ q = Len(r)
  OBVIOUS
<1>2. \A k \in 1..Longest(l, r) : k <= p /\ k <= q /\ l[k] = r[k]
  BY <1>1 DEF Differs
<1>3. Longest(l, r) = IF p <= q THEN q ELSE p
  BY <1>1 DEF Longest
<1>4. p = q
  <2>1. CASE p < q
    <3>1. q \in 1..Longest(l, r)
      BY ONLY <1>3, <2>1, p \in Nat, q \in Nat
    <3> QED BY <1>2, <2>1, <3>1
  <2>2. CASE q < p
    <3>1. p \in 1..Longest(l, r)
      BY ONLY <1>3, <2>2, p \in Nat, q \in Nat
    <3> QED BY <1>2, <2>2, <3>1
  <2> QED BY <2>1, <2>2
<1>5. \A i \in 1..p : i \in 1..Longest(l, r)
  BY ONLY <1>3, <1>4, p \in Nat, q \in Nat
<1> QED BY <1>1, <1>2, <1>4, <1>5

LEMMA SnapStep == ShapeOK /\ SnapOK /\ [Next]_vars => SnapOK'
<1> SUFFICES ASSUME ShapeOK, SnapOK, [Next]_vars, tool' = "SnapDiff", grown' = 0
             PROVE  SnapOK'
  BY DEF SnapOK
<1>1. /\ tool = "SnapDiff" /\ grown = 0 /\ files' = files
      /\ pc = "done" => UNCHANGED vars
      /\ \A n : Unequal(n)' = Unequal(n)
  BY QuietStep DEF Unequal
<1>2. /\ out = <<>>
      /\ ~diff.have => at[1] = at[2] /\ \A k \in 1..at[1] : files[1][k] = files[2][k]
      /\ ~short =>
           /\ diff.offset = IF at[1] <= at[2] THEN at[2] ELSE at[1]
           /\ at[1] < diff.offset => at[1] = Len(files[1])
           /\ at[2] < diff.offset => at[2] = Len(files[2])
           /\ diff.have <=> Unequal(diff.offset) # {}
           /\ diff.differing = Cardinality(Unequal(diff.offset))
           /\ diff.have => diff.first = Min(Unequal(diff.offset)) - 1
      /\ pc = "done" /\ rc = 0 => files[1] = files[2]
  BY <1>1 DEF SnapOK
<1>3. ASSUME UNCHANGED <<at, diff, short, out>>, pc' = "done" /\ rc' = 0 => pc = "done" /\ rc = 0
      PROVE  SnapOK'
  <2>1. at' = at /\ diff' = diff /\ out' = out /\ files' = files
    BY <1>1, <1>3
  <2>2. short' <=> short
    BY <1>3, Zenon
  <2>3. Unequal(diff.offset)' = Unequal(diff.offset)
    BY <2>1 DEF Unequal
  <2> QED BY <1>2, <1>3, <2>1, <2>2, <2>3 DEF SnapOK
<1>4. CASE UNCHANGED vars
  BY <1>3, <1>4 DEF vars
<1>5. CASE pc \in Early /\ Next
  <2>1. pc' = "done" /\ rc' = 0 => NoWork'
    BY <1>5, EarlyOut
  <2>2. ~(pc' = "done" /\ rc' = 0)
    BY <1>1, <2>1 DEF NoWork
  <2>3. UNCHANGED <<at, diff, short, out>>
    <3>1. ~(HeadRead \/ TailRead \/ StringsRead \/ StringsScan \/ StringsNext \/ HexLine
            \/ SnapDiffRead \/ SeekStart \/ SeekEnd \/ TailBack \/ TailAll)
      BY <1>1, <1>5 DEF HeadRead, TailRead, StringsRead, StringsScan, StringsNext, HexLine,
         SnapDiffRead, Early, SeekStart, SeekEnd, TailBack, TailAll, ShapeOK, ControlOK
    <3>2. ~Grow
      BY <1>1 DEF Grow
    <3>3. ParseArgs \/ OpenFile \/ OpenSecond
      BY <1>5, <3>1, <3>2 DEF Next
    <3> QED BY <3>3 DEF ParseArgs, OpenFile, OpenSecond
  <2> QED BY <1>3, <2>2, <2>3
<1>6. CASE SnapDiffRead
  <2>1. CASE Return(5, {1, 2}) /\ UNCHANGED <<at, short, diff>>
    <3>1. UNCHANGED <<at, diff, short, out>> /\ rc' = 5
      BY <1>6, <2>1 DEF SnapDiffRead, Return
    <3> QED BY <1>3, <3>1
  <2>2. CASE \E l \in Chunks(1, ReadSize), r \in Chunks(2, ReadSize) :
          /\ at' = <<at[1] + Len(l), at[2] + Len(r)>>
          /\ short' = \/ short \/ Len(l) < Min({ReadSize, Left(1)})
                      \/ Len(r) < Min({ReadSize, Left(2)})
          /\ diff' = Compare(diff, l, r)
          /\ IF l = <<>> /\ r = <<>> THEN Return(IF diff.have THEN 5 ELSE 0, {1, 2})
                                     ELSE Goto("read")
    <3>1. PICK l \in Chunks(1, ReadSize), r \in Chunks(2, ReadSize) :
          /\ at' = <<at[1] + Len(l), at[2] + Len(r)>>
          /\ short' = \/ short \/ Len(l) < Min({ReadSize, Left(1)})
                      \/ Len(r) < Min({ReadSize, Left(2)})
          /\ diff' = Compare(diff, l, r)
          /\ IF l = <<>> /\ r = <<>> THEN Return(IF diff.have THEN 5 ELSE 0, {1, 2})
                                     ELSE Goto("read")
      BY <2>2
    <3>2. /\ at'[1] = at[1] + Len(l) /\ at'[2] = at[2] + Len(r)
          /\ at'[1] <= Len(files[1]) /\ at'[2] <= Len(files[2])
          /\ at[1] \in Nat /\ at[2] \in Nat
          /\ files[1] \in Seq(Characters) /\ files[2] \in Seq(Characters)
          /\ l \in Seq(Characters) /\ Len(l) \in Nat
          /\ r \in Seq(Characters) /\ Len(r) \in Nat
          /\ l = SubSeq(files[1], at[1] + 1, at[1] + Len(l))
          /\ r = SubSeq(files[2], at[2] + 1, at[2] + Len(r))
          /\ l = <<>> <=> at[1] = Len(files[1])
          /\ r = <<>> <=> at[2] = Len(files[2])
      BY <3>1, BothReach
    <3>3. PICK F, G : F = files[1] /\ G = files[2]
      OBVIOUS
    <3>4. PICK a \in Nat, b \in Nat, p \in Nat, q \in Nat :
             a = at[1] /\ b = at[2] /\ p = Len(l) /\ q = Len(r)
      BY <3>2
    <3>5. /\ F \in Seq(Characters) /\ G \in Seq(Characters) /\ a + p <= Len(F) /\ b + q <= Len(G)
          /\ at'[1] = a + p /\ at'[2] = b + q /\ l \in Seq(Characters) /\ r \in Seq(Characters)
          /\ l = SubSeq(F, a + 1, a + p) /\ r = SubSeq(G, b + 1, b + q)
          /\ l = <<>> <=> a = Len(F)
          /\ r = <<>> <=> b = Len(G)
          /\ Len(F) \in Nat /\ Len(G) \in Nat
      <4>1. Len(files[1]) \in Nat /\ Len(files[2]) \in Nat
        BY <3>2, SMTT(30)
      <4> QED BY ONLY <3>2, <3>3, <3>4, <4>1, Zenon
    <3>6. (\A i \in 1..p : l[i] = F[a + i]) /\ (\A i \in 1..q : r[i] = G[b + i])
      <4>1. /\ a \in Nat /\ a + p \in Nat /\ a <= a + p /\ a + p - a = p
            /\ b \in Nat /\ b + q \in Nat /\ b <= b + q /\ b + q - b = q
        OBVIOUS
      <4>2. \A i \in 1..(a + p - a) : SubSeq(F, a + 1, a + p)[i] = F[a + i]
        BY ONLY <3>5, <4>1, SliceIs
      <4>3. \A i \in 1..(b + q - b) : SubSeq(G, b + 1, b + q)[i] = G[b + i]
        BY ONLY <3>5, <4>1, SliceIs
      <4> QED BY ONLY <3>5, <4>1, <4>2, <4>3
    <3> DEFINE D == Differs(l, r)
               m == Longest(l, r)
    <3>7. diff \in Figures
      BY DEF ShapeOK, TypeOK, Figures
    <3>8. /\ diff'.have <=> diff.have \/ D # {}
          /\ diff'.first = IF diff.have \/ D = {} THEN diff.first ELSE diff.offset + Min(D) - 1
          /\ diff'.differing = diff.differing + Cardinality(D)
          /\ diff'.offset = diff.offset + m
      <4>1. diff' = Compare(diff, l, r)
        BY <3>1
      <4>2. /\ Compare(diff, l, r).have <=> diff.have \/ Differs(l, r) # {}
            /\ Compare(diff, l, r).first =
                 IF diff.have \/ Differs(l, r) = {} THEN diff.first
                 ELSE diff.offset + Min(Differs(l, r)) - 1
            /\ Compare(diff, l, r).differing = diff.differing + Cardinality(Differs(l, r))
            /\ Compare(diff, l, r).offset = diff.offset + Longest(l, r)
        <5>1. l \in Seq(Characters) /\ r \in Seq(Characters)
          BY <3>5
        <5> QED BY ONLY <3>7, <5>1, CompareIs
      <4> QED BY ONLY <4>1, <4>2, Zenon DEF D, m
    <3> HIDE DEF D, m
    <3>9. out' = <<>>
      BY <1>2, <1>6 DEF SnapDiffRead
    <3>10. ASSUME ~diff'.have
           PROVE  at'[1] = at'[2] /\ \A k \in 1..at'[1] : files[1][k] = files[2][k]
      <4>1. ~diff.have /\ D = {}
        BY <3>8, <3>10
      <4>2. a = b /\ \A k \in 1..a : F[k] = G[k]
        BY <1>2, <3>3, <3>4, <4>1
      <4>3. p = q /\ \A i \in 1..p : l[i] = r[i]
        BY <3>4, <3>5, <4>1, NoDifference DEF D
      <4>4. ASSUME NEW k \in 1..(a + p) PROVE F[k] = G[k]
        <5>1. CASE k <= a
          BY <4>2, <5>1
        <5>2. CASE k > a
          <6>1. k - a \in 1..p /\ a + (k - a) = k
            BY <5>2
          <6> QED BY ONLY <3>6, <4>2, <4>3, <6>1
        <5> QED BY <5>1, <5>2
      <4> QED BY ONLY <3>3, <3>5, <4>2, <4>3, <4>4, Zenon
    <3>11. ASSUME ~short'
           PROVE  /\ diff'.offset = IF at'[1] <= at'[2] THEN at'[2] ELSE at'[1]
                  /\ at'[1] < diff'.offset => at'[1] = Len(files[1])
                  /\ at'[2] < diff'.offset => at'[2] = Len(files[2])
                  /\ diff'.have <=> Unequal(diff'.offset) # {}
                  /\ diff'.differing = Cardinality(Unequal(diff'.offset))
                  /\ diff'.have => diff'.first = Min(Unequal(diff'.offset)) - 1
      <4>1. /\ ~short /\ ~(Len(l) < Min({ReadSize, Left(1)}))
            /\ ~(Len(r) < Min({ReadSize, Left(2)}))
        BY <3>1, <3>11, Zenon
      <4>2. PICK o \in Nat : o = diff.offset
        BY <3>7 DEF Figures
      <4>3. /\ o = IF a <= b THEN b ELSE a
            /\ a < o => a = Len(F)
            /\ b < o => b = Len(G)
            /\ diff.have <=> Unequal(o) # {}
            /\ diff.differing = Cardinality(Unequal(o))
            /\ diff.have => diff.first = Min(Unequal(o)) - 1
        BY ONLY <1>2, <3>3, <3>4, <4>1, <4>2
      <4>4. \/ a = o /\ b = o
            \/ a = o /\ b < o /\ b = Len(G)
            \/ b = o /\ a < o /\ a = Len(F)
        BY ONLY <4>3, a \in Nat, b \in Nat
      <4>5. (p < q => a + p = Len(F)) /\ (q < p => b + q = Len(G))
        <5>1. Left(1) = Len(F) - a /\ Left(2) = Len(G) - b
          BY <3>3, <3>4 DEF Left
        <5>2. /\ p <= ReadSize /\ q <= ReadSize
          <6>1. /\ files \in [1..2 -> Seq(Characters)] /\ at \in [1..2 -> Nat]
                /\ at[1] <= Len(files[1]) /\ at[2] <= Len(files[2])
                /\ 1 \in 1..2 /\ 2 \in 1..2 /\ ReadSize \in Nat /\ ReadSize >= 1
            BY DEF ShapeOK, TypeOK, ReachOK
          <6>2. Len(l) <= ReadSize
            BY <6>1, ChunkIs
          <6>3. Len(r) <= ReadSize
            BY <6>1, ChunkIs
          <6> QED BY <3>4, <6>2, <6>3
        <5>3. Len(F) - a \in Int /\ Len(G) - b \in Int /\ ReadSize \in Int
          BY <3>5
        <5>4. /\ ReadSize <= Len(F) - a => Min({ReadSize, Len(F) - a}) = ReadSize
              /\ Len(F) - a <= ReadSize => Min({ReadSize, Len(F) - a}) = Len(F) - a
          BY ONLY <5>3, MinMaxOfTwo
        <5>5. /\ ReadSize <= Len(G) - b => Min({ReadSize, Len(G) - b}) = ReadSize
              /\ Len(G) - b <= ReadSize => Min({ReadSize, Len(G) - b}) = Len(G) - b
          BY ONLY <5>3, MinMaxOfTwo
        <5>6. /\ ~(p < Min({ReadSize, Len(F) - a})) /\ ~(q < Min({ReadSize, Len(G) - b}))
          BY ONLY <3>4, <4>1, <5>1
        <5>7. Len(F) \in Nat /\ Len(G) \in Nat /\ a + p <= Len(F) /\ b + q <= Len(G)
          BY <3>5
        <5>8. p < q => a + p = Len(F)
          BY ONLY <5>2, <5>4, <5>6, <5>7, a \in Nat, p \in Nat, q \in Nat, Constants
        <5>9. q < p => b + q = Len(G)
          BY ONLY <5>2, <5>5, <5>6, <5>7, b \in Nat, p \in Nat, q \in Nat, Constants
        <5> QED BY <5>8, <5>9
      <4>6. /\ m \in Nat /\ Adds(o, m, D)
            /\ o + m = IF a + p <= b + q THEN b + q ELSE a + p
            /\ a + p < o + m => a + p = Len(F)
            /\ b + q < o + m => b + q = Len(G)
        <5>1. a \in Nat /\ b \in Nat /\ o \in Nat
          OBVIOUS
        <5>2. /\ F \in Seq(Characters) /\ G \in Seq(Characters) /\ F = files[1] /\ G = files[2]
              /\ l \in Seq(Characters) /\ r \in Seq(Characters)
              /\ p = Len(l) /\ q = Len(r) /\ a + p <= Len(F) /\ b + q <= Len(G)
              /\ l = SubSeq(F, a + 1, a + p) /\ r = SubSeq(G, b + 1, b + q)
          BY ONLY <3>3, <3>4, <3>5, Zenon
        <5>3. /\ Longest(l, r) \in Nat /\ Adds(o, Longest(l, r), Differs(l, r))
              /\ o + Longest(l, r) = IF a + p <= b + q THEN b + q ELSE a + p
              /\ a + p < o + Longest(l, r) => a + p = Len(F)
              /\ b + q < o + Longest(l, r) => b + q = Len(G)
          <6>1. SideBySide(l, r, a, b, o)
            BY ONLY <4>4, <4>5, <5>1, <5>2, Zenon DEF SideBySide
          <6>2. /\ Longest(l, r) \in Nat /\ Adds(o, Longest(l, r), Differs(l, r))
                /\ o + Longest(l, r) =
                     IF a + Len(l) <= b + Len(r) THEN b + Len(r) ELSE a + Len(l)
                /\ a + Len(l) < o + Longest(l, r) => a + Len(l) = Len(files[1])
                /\ b + Len(r) < o + Longest(l, r) => b + Len(r) = Len(files[2])
            BY ONLY <5>1, <6>1, ChunkDiffers
          <6> QED BY ONLY <5>2, <6>2, Zenon
        <5> QED BY ONLY <5>3, Zenon DEF D, m
      <4>7. /\ Cardinality(Unequal(o + m)) = Cardinality(Unequal(o)) + Cardinality(D)
            /\ Unequal(o + m) # {} <=> Unequal(o) # {} \/ D # {}
            /\ Unequal(o) # {} => Min(Unequal(o + m)) = Min(Unequal(o))
            /\ Unequal(o) = {} /\ D # {} => Min(Unequal(o + m)) = o + Min(D)
        <5>1. o \in Nat
          OBVIOUS
        <5>2. m \in Nat /\ Adds(o, m, D)
          BY <4>6
        <5> QED BY ONLY <5>1, <5>2, UnequalGrows
      <4>8. diff'.offset = o + m
        BY <3>8, <4>2
      <4>9. /\ diff'.offset = IF at'[1] <= at'[2] THEN at'[2] ELSE at'[1]
            /\ at'[1] < diff'.offset => at'[1] = Len(files[1])
            /\ at'[2] < diff'.offset => at'[2] = Len(files[2])
        BY ONLY <3>3, <3>5, <4>6, <4>8
      <4>10. diff'.have <=> Unequal(o + m) # {}
        BY ONLY <3>8, <4>3, <4>7
      <4>11. diff'.differing = Cardinality(Unequal(o + m))
        BY ONLY <3>8, <4>3, <4>7
      <4>12. diff'.have => diff'.first = Min(Unequal(o + m)) - 1
        <5>1. CASE diff.have
          BY ONLY <3>8, <4>3, <4>7, <5>1
        <5>2. CASE ~diff.have /\ D # {}
          <6>1. diff'.first = diff.offset + Min(D) - 1
            BY ONLY <3>8, <5>2
          <6>2. Min(Unequal(o + m)) = o + Min(D)
            BY ONLY <4>3, <4>7, <5>2
          <6>3. Min(D) \in Nat
            <7>1. D \subseteq Nat /\ D # {}
              BY <4>6, <5>2 DEF Adds
            <7> QED BY <7>1, LeastNat
          <6> QED BY ONLY <4>2, <6>1, <6>2, <6>3, o \in Nat
        <5> QED BY ONLY <3>8, <5>1, <5>2
      <4> QED BY ONLY <4>8, <4>9, <4>10, <4>11, <4>12, Zenon
    <3>12. ASSUME pc' = "done" /\ rc' = 0 PROVE files[1] = files[2]
      <4>1. l = <<>> /\ r = <<>> /\ ~diff.have
        <5>1. l = <<>> /\ r = <<>>
          BY <3>1, <3>12 DEF Goto
        <5>2. Return(IF diff.have THEN 5 ELSE 0, {1, 2})
          BY <3>1, <5>1
        <5> QED BY <3>12, <5>1, <5>2 DEF Return
      <4>2. a = Len(F) /\ b = Len(G) /\ a = b /\ \A k \in 1..a : F[k] = G[k]
        BY <1>2, <3>3, <3>4, <3>5, <4>1
      <4>3. F = G
        BY ONLY <3>5, <4>2, SeqEqual
      <4> QED BY <3>3, <4>3
    <3>13. Unequal(diff.offset)' = Unequal(diff'.offset)
      BY <1>1 DEF Unequal
    <3>14. files' = files
      BY <1>1
    <3> QED BY ONLY <3>9, <3>10, <3>11, <3>12, <3>13, <3>14, Zenon DEF SnapOK
  <2> QED BY <1>6, <2>1, <2>2 DEF SnapDiffRead, SnapDiffFails
<1> QED
  <2>1. CASE pc = "done"
    BY <1>1, <1>4, <2>1
  <2>2. CASE pc \in {"read", "scan"} /\ Next
    BY <1>1, <1>6, <2>2 DEF Next, ParseArgs, OpenFile, OpenSecond, SeekStart, SeekEnd, TailBack,
       TailAll, HeadRead, TailRead, StringsRead, StringsScan, StringsNext, HexLine, Grow,
       ShapeOK, ControlOK
  <2> QED BY <1>4, <1>5, <2>1, <2>2 DEF ShapeOK, TypeOK, Early

-----------------------------------------------------------------------------
(***************************************************************************)
(* Runs of printable characters.                                           *)
(***************************************************************************)
\* What extends a sequence begins with it.
LEMMA PrefixConcat ==
  ASSUME NEW X, NEW s \in Seq(X), NEW t \in Seq(X)
  PROVE  IsPrefix(s, s \o t)
<1>1. /\ s \o t \in Seq(X) /\ Len(s \o t) = Len(s) + Len(t)
      /\ \A i \in 1..(Len(s) + Len(t)) : (s \o t)[i] = IF i <= Len(s) THEN s[i] ELSE t[i - Len(s)]
  BY ConcatProperties
<1>2. Len(s) \in Nat /\ Len(t) \in Nat
  OBVIOUS
<1>3. Len(s) <= Len(s \o t) /\ \A i \in 1..Len(s) : s[i] = (s \o t)[i]
  BY <1>1, <1>2
<1> QED BY <1>1, <1>3, PrefixIs

\* A run stops behind its first character, at a line end or behind the file.
LEMMA StopIs ==
  ASSUME file \in Seq(Characters), NEW p \in 1..Len(file)
  PROVE  /\ Stop(p) \in Nat /\ p < Stop(p) /\ Stop(p) <= Len(file) + 1
         /\ Stop(p) = Len(file) + 1 \/ file[Stop(p)] = "nl"
         /\ \A q \in 1..Len(file) : q > p /\ file[q] = "nl" => Stop(p) <= q
<1> DEFINE S == {Len(file) + 1} \cup {q \in LineEnds(file) : q > p}
<1>0. Len(file) \in Nat /\ DOMAIN file = 1..Len(file)
  OBVIOUS
<1>1. S \subseteq Nat /\ S # {}
  BY <1>0 DEF LineEnds
<1>2. Stop(p) \in S /\ \A n \in S : Stop(p) <= n
  <2>1. Stop(p) = Min(S)
    BY DEF Stop
  <2> HIDE DEF S
  <2> QED BY <1>1, <2>1, LeastNat
<1>3. \A q \in 1..Len(file) : q > p /\ file[q] = "nl" => q \in S
  BY <1>0 DEF LineEnds
<1>4. Len(file) + 1 \in S /\ \A x \in S : x \in Nat /\ p < x /\ (x = Len(file) + 1 \/ file[x] = "nl")
  BY <1>0 DEF LineEnds
<1> HIDE DEF S
<1> QED BY <1>2, <1>3, <1>4

\* The step of the recursion that RunsFrom is.
RunStep(g, p) ==
  IF p > Len(file) THEN <<>>
  ELSE IF file[p] = "nl" THEN g[p + 1]
  ELSE (IF Stop(p) - p >= number THEN SubSeq(file, p, Stop(p) - 1) \o <<"nl">> ELSE <<>>)
         \o g[Stop(p)]

RunsOn(g, m) == g = [p \in m..(Len(file) + 1) |-> RunStep(g, p)]

\* A function with the values of RunsFrom exists from every place on.
LEMMA RunsExist ==
  ASSUME file \in Seq(Characters)
  PROVE  \A n \in 0..Len(file) : \E g : RunsOn(g, Len(file) + 1 - n)
<1>0. PICK L \in Nat : L = Len(file)
  OBVIOUS
<1> DEFINE T == {n \in 0..L : ~\E g : RunsOn(g, L + 1 - n)}
<1> SUFFICES ASSUME T # {} PROVE FALSE
  BY <1>0
<1>1. Min(T) \in T /\ \A k \in T : Min(T) <= k
  <2>1. T \subseteq Nat
    OBVIOUS
  <2> HIDE DEF T
  <2> QED BY <2>1, LeastNat
<1>2. PICK n \in T : \A k \in T : n <= k
  BY <1>1
<1>3. n \in Nat /\ n <= L
  OBVIOUS
<1>4. CASE n = 0
  <2> DEFINE g == [p \in (L + 1)..(L + 1) |-> <<>>]
  <2>1. \A p \in (L + 1)..(L + 1) : RunStep(g, p) = <<>>
    BY <1>0 DEF RunStep
  <2>2. g = [p \in (L + 1)..(L + 1) |-> RunStep(g, p)]
    <3>1. g = [p \in (L + 1)..(L + 1) |-> <<>>]
      OBVIOUS
    <3> HIDE DEF g
    <3> QED BY <2>1, <3>1
  <2>3. RunsOn(g, L + 1 - 0)
    <3>1. L + 1 - 0 = L + 1
      OBVIOUS
    <3> HIDE DEF g
    <3> QED BY <1>0, <2>2, <3>1 DEF RunsOn
  <2> QED BY <1>2, <1>4, <2>3
<1>5. CASE n # 0
  <2>1. n - 1 \in 0..L /\ n - 1 \notin T
    <3>1. n - 1 \in 0..L /\ ~(n <= n - 1)
      BY <1>3, <1>5
    <3> HIDE DEF T
    <3> QED BY <1>2, <3>1
  <2> DEFINE m == L + 1 - n
  <2>2. m \in 1..L /\ L + 1 - (n - 1) = m + 1
    BY <1>3, <1>5
  <2>3. PICK g : RunsOn(g, m + 1)
    <3>1. \E g : RunsOn(g, L + 1 - (n - 1))
      BY <2>1
    <3> QED BY <2>2, <3>1
  <2> HIDE DEF m, T
  <2> DEFINE h == [p \in m..(L + 1) |-> IF p = m THEN RunStep(g, m) ELSE g[p]]
  <2>4. ASSUME NEW p \in m..(L + 1) PROVE h[p] = RunStep(h, p)
    <3>1. p # m => p \in (m + 1)..(L + 1)
      BY <2>2
    <3>2. h[p] = RunStep(g, p)
      BY <1>0, <2>3, <3>1 DEF RunsOn
    <3>3. ~(p > L) => p + 1 \in m..(L + 1) /\ p + 1 # m /\ p \in 1..L
      BY <2>2
    <3>4. ~(p > L) => Stop(p) \in m..(L + 1) /\ Stop(p) # m
      <4> SUFFICES ASSUME ~(p > L) PROVE Stop(p) \in m..(L + 1) /\ Stop(p) # m
        OBVIOUS
      <4>1. p \in 1..Len(file)
        BY <1>0, <3>3
      <4>2. Stop(p) \in Nat /\ p < Stop(p) /\ Stop(p) <= L + 1
        BY <1>0, <4>1, StopIs
      <4> QED BY <2>2, <4>2
    <3>5. ~(p > L) => h[p + 1] = g[p + 1] /\ h[Stop(p)] = g[Stop(p)]
      BY <3>3, <3>4
    <3> HIDE DEF h
    <3> QED BY <1>0, <3>2, <3>5 DEF RunStep
  <2>5. h = [p \in m..(L + 1) |-> h[p]]
    OBVIOUS
  <2> HIDE DEF h
  <2>6. RunsOn(h, m)
    BY <1>0, <2>4, <2>5 DEF RunsOn
  <2> QED BY <1>2, <2>6 DEF m, T
<1> QED BY <1>4, <1>5

\* RunsFrom satisfies its recursive definition.
LEMMA RunsDef ==
  ASSUME file \in Seq(Characters), NEW p \in 1..(Len(file) + 1)
  PROVE  RunsFrom[p] = RunStep(RunsFrom, p)
<1>0. PICK L \in Nat : L = Len(file)
  OBVIOUS
<1>1. RunsFrom = CHOOSE g : RunsOn(g, 1)
  BY DEF RunsFrom, RunStep, RunsOn
<1>2. \E g : RunsOn(g, 1)
  <2>1. L \in 0..L /\ L + 1 - L = 1
    OBVIOUS
  <2> QED BY <1>0, <2>1, RunsExist
<1>3. RunsOn(RunsFrom, 1)
  BY <1>1, <1>2
<1> QED BY <1>3 DEF RunsOn

\* Every step of the recursion writes characters.
LEMMA RunsType ==
  ASSUME file \in Seq(Characters)
  PROVE  \A p \in 1..(Len(file) + 1) : RunsFrom[p] \in Seq(Characters)
<1>0. PICK L \in Nat : L = Len(file)
  OBVIOUS
<1> DEFINE T == {n \in 0..L : RunsFrom[L + 1 - n] \notin Seq(Characters)}
<1>S. \A p \in 1..(L + 1) : L + 1 - p \in 0..L /\ L + 1 - (L + 1 - p) = p
  OBVIOUS
<1> SUFFICES ASSUME T # {} PROVE FALSE
  BY <1>0, <1>S
<1>1. Min(T) \in T /\ \A k \in T : Min(T) <= k
  <2>1. T \subseteq Nat
    OBVIOUS
  <2> HIDE DEF T
  <2> QED BY <2>1, LeastNat
<1>2. PICK n \in T : \A k \in T : n <= k
  BY <1>1
<1>3. PICK p \in 1..(L + 1) : p = L + 1 - n
  OBVIOUS
<1>4. RunsFrom[p] \notin Seq(Characters)
  BY <1>2, <1>3
<1>5. \A q \in 1..(L + 1) : q > p => RunsFrom[q] \in Seq(Characters)
  <2> SUFFICES ASSUME NEW q \in 1..(L + 1), q > p PROVE RunsFrom[q] \in Seq(Characters)
    OBVIOUS
  <2>1. L + 1 - q \in 0..L /\ L + 1 - (L + 1 - q) = q /\ ~(n <= L + 1 - q)
    BY <1>3
  <2>2. L + 1 - q \notin T
    <3> HIDE DEF T
    <3> QED BY <1>2, <2>1
  <2> QED BY <2>1, <2>2
<1> HIDE DEF T
<1>6. RunsFrom[p] = RunStep(RunsFrom, p)
  BY <1>0, RunsDef
<1>7. CASE p > L
  BY <1>0, <1>4, <1>6, <1>7 DEF RunStep
<1>8. CASE ~(p > L)
  <2>1. p \in 1..Len(file) /\ p + 1 \in 1..(L + 1) /\ p + 1 > p
    BY <1>0, <1>8
  <2>2. Stop(p) \in Nat /\ p < Stop(p) /\ Stop(p) <= L + 1
    BY <1>0, <2>1, StopIs
  <2>3. RunsFrom[p + 1] \in Seq(Characters) /\ RunsFrom[Stop(p)] \in Seq(Characters)
    BY <1>5, <2>1, <2>2
  <2>4. SubSeq(file, p, Stop(p) - 1) \in Seq(Characters)
    <3>1. p - 1 \in Nat /\ Stop(p) - 1 \in Nat /\ p - 1 <= Stop(p) - 1
          /\ Stop(p) - 1 <= Len(file) /\ p - 1 + 1 = p
      BY <1>0, <2>1, <2>2
    <3>2. SubSeq(file, p - 1 + 1, Stop(p) - 1) \in Seq(Characters)
      BY <3>1, SliceIs
    <3> QED BY <3>1, <3>2
  <2>5. <<"nl">> \in Seq(Characters) /\ <<>> \in Seq(Characters)
    BY DEF Characters
  <2>6. SubSeq(file, p, Stop(p) - 1) \o <<"nl">> \in Seq(Characters)
    BY ONLY <2>4, <2>5, ConcatProperties
  <2> DEFINE x == IF Stop(p) - p >= number THEN SubSeq(file, p, Stop(p) - 1) \o <<"nl">> ELSE <<>>
  <2>7. x \in Seq(Characters)
    BY <2>5, <2>6
  <2>8. RunsFrom[p] = IF file[p] = "nl" THEN RunsFrom[p + 1] ELSE x \o RunsFrom[Stop(p)]
    BY <1>0, <1>6, <1>8 DEF RunStep
  <2> HIDE DEF x
  <2>9. x \o RunsFrom[Stop(p)] \in Seq(Characters)
    BY ONLY <2>3, <2>7, ConcatProperties
  <2> QED BY <1>4, <2>3, <2>8, <2>9
<1> QED BY <1>7, <1>8

\* RunsFrom at the end of the file and at a line end.
LEMMA RunsAtEnd ==
  ASSUME file \in Seq(Characters)
  PROVE  /\ RunsFrom[Len(file) + 1] = <<>>
         /\ \A p \in 1..Len(file) : file[p] = "nl" => RunsFrom[p] = RunsFrom[p + 1]
<1>0. PICK L \in Nat : L = Len(file)
  OBVIOUS
<1>1. L + 1 \in 1..(L + 1) /\ L + 1 > L /\ \A p \in 1..L : p \in 1..(L + 1) /\ ~(p > L)
  OBVIOUS
<1>2. RunsFrom[L + 1] = RunStep(RunsFrom, L + 1)
  BY <1>0, <1>1, RunsDef
<1>3. \A p \in 1..L : RunsFrom[p] = RunStep(RunsFrom, p)
  BY <1>0, <1>1, RunsDef
<1> QED BY <1>0, <1>1, <1>2, <1>3 DEF RunStep

\* A run of printable characters from a to q that goes no further.
LEMMA RunIs ==
  ASSUME file \in Seq(Characters), NEW a \in Nat, NEW q \in Nat, a < q, q <= Len(file),
         \A k \in (a + 1)..q : file[k] = "ch", q = Len(file) \/ file[q + 1] = "nl"
  PROVE  RunsFrom[a + 1] =
           (IF q - a >= number THEN SubSeq(file, a + 1, q) \o <<"nl">> ELSE <<>>) \o RunsFrom[q + 1]
<1>0. PICK L \in Nat : L = Len(file)
  OBVIOUS
<1>1. a + 1 \in 1..L /\ a + 1 \in 1..(L + 1) /\ ~(a + 1 > L) /\ a + 1 \in (a + 1)..q
  BY <1>0
<1>2. RunsFrom[a + 1] = RunStep(RunsFrom, a + 1)
  BY <1>0, <1>1, RunsDef
<1>3. /\ Stop(a + 1) \in Nat /\ a + 1 < Stop(a + 1) /\ Stop(a + 1) <= L + 1
      /\ Stop(a + 1) = L + 1 \/ file[Stop(a + 1)] = "nl"
      /\ \A k \in 1..L : k > a + 1 /\ file[k] = "nl" => Stop(a + 1) <= k
  BY <1>0, <1>1, StopIs
<1>4. Stop(a + 1) = q + 1
  <2>1. ~(Stop(a + 1) <= q)
    <3> SUFFICES ASSUME Stop(a + 1) <= q PROVE FALSE
      OBVIOUS
    <3>1. Stop(a + 1) \in (a + 1)..q /\ Stop(a + 1) # L + 1
      BY <1>0, <1>3
    <3> QED BY <1>3, <3>1
  <2>2. CASE q = L
    BY <1>3, <2>1, <2>2
  <2>3. CASE q # L
    <3>1. q + 1 \in 1..L /\ q + 1 > a + 1 /\ file[q + 1] = "nl"
      BY <1>0, <2>3
    <3>2. Stop(a + 1) <= q + 1
      BY <1>3, <3>1
    <3> QED BY <1>3, <2>1, <3>2
  <2> QED BY <2>2, <2>3
<1>5. file[a + 1] # "nl"
  BY <1>1
<1>6. Stop(a + 1) - (a + 1) = q - a /\ Stop(a + 1) - 1 = q
  BY <1>4
<1> QED BY <1>0, <1>1, <1>2, <1>4, <1>5, <1>6 DEF RunStep

\* As soon as a run of printable characters is long enough, it is written.
LEMMA LongRun ==
  ASSUME file \in Seq(Characters), NEW a \in Nat, NEW q \in Nat, a < q, q <= Len(file),
         \A k \in (a + 1)..q : file[k] = "ch", number \in Nat, number <= q - a
  PROVE  \E z \in Seq(Characters) : RunsFrom[a + 1] = SubSeq(file, a + 1, q) \o z
<1>0. PICK L \in Nat : L = Len(file)
  OBVIOUS
<1>1. a + 1 \in 1..L /\ a + 1 \in 1..(L + 1) /\ ~(a + 1 > L) /\ a + 1 \in (a + 1)..q
  BY <1>0
<1>2. RunsFrom[a + 1] = RunStep(RunsFrom, a + 1)
  BY <1>0, <1>1, RunsDef
<1>3. /\ Stop(a + 1) \in Nat /\ a + 1 < Stop(a + 1) /\ Stop(a + 1) <= L + 1
      /\ Stop(a + 1) = L + 1 \/ file[Stop(a + 1)] = "nl"
  BY <1>0, <1>1, StopIs
<1>4. PICK e \in Nat : e = Stop(a + 1) - 1
  BY <1>3
<1>5. q <= e /\ e <= L /\ Stop(a + 1) = e + 1 /\ e + 1 - (a + 1) >= number /\ e + 1 \in 1..(L + 1)
  <2>1. ~(Stop(a + 1) <= q)
    <3> SUFFICES ASSUME Stop(a + 1) <= q PROVE FALSE
      OBVIOUS
    <3>1. Stop(a + 1) \in (a + 1)..q /\ Stop(a + 1) # L + 1
      BY <1>0, <1>3
    <3> QED BY <1>3, <3>1
  <2> QED BY <1>3, <1>4, <2>1
<1>6. file[a + 1] # "nl"
  BY <1>1
<1>7. Stop(a + 1) - 1 = e /\ Stop(a + 1) - (a + 1) >= number
  BY <1>4, <1>5
<1>8. RunsFrom[a + 1] = (SubSeq(file, a + 1, e) \o <<"nl">>) \o RunsFrom[e + 1]
  BY <1>0, <1>1, <1>2, <1>5, <1>6, <1>7 DEF RunStep
<1>9. RunsFrom[e + 1] \in Seq(Characters) /\ <<"nl">> \in Seq(Characters)
  BY <1>0, <1>5, RunsType DEF Characters
<1>10. /\ SubSeq(file, a + 1, q) \in Seq(Characters) /\ SubSeq(file, q + 1, e) \in Seq(Characters)
       /\ SubSeq(file, a + 1, q) \o SubSeq(file, q + 1, e) = SubSeq(file, a + 1, e)
  <2>1. /\ file \in Seq(Characters) /\ a \in Nat /\ q \in Nat /\ e \in Nat
        /\ a <= q /\ q <= e /\ e <= Len(file) /\ q <= Len(file)
    BY <1>0, <1>5
  <2>2. SubSeq(file, a + 1, q) \in Seq(Characters)
    BY ONLY <2>1, SliceIs
  <2>3. SubSeq(file, q + 1, e) \in Seq(Characters)
    BY ONLY <2>1, SliceIs
  <2> QED BY <2>1, <2>2, <2>3, SlicesJoin
<1> DEFINE u == SubSeq(file, a + 1, q)
           v == SubSeq(file, q + 1, e)
           n == <<"nl">>
           t == RunsFrom[e + 1]
<1>11. u \in Seq(Characters) /\ v \in Seq(Characters) /\ n \in Seq(Characters) /\ t \in Seq(Characters)
       /\ RunsFrom[a + 1] = ((u \o v) \o n) \o t
  BY <1>8, <1>9, <1>10
<1> HIDE DEF u, v, n, t
<1>12. n \o t \in Seq(Characters) /\ u \o v \in Seq(Characters)
  BY <1>11, ConcatProperties
<1>13. v \o (n \o t) \in Seq(Characters)
  BY <1>11, <1>12, ConcatProperties
<1>14. ((u \o v) \o n) \o t = (u \o v) \o (n \o t)
  <2>1. u \o v \in Seq(Characters) /\ n \in Seq(Characters) /\ t \in Seq(Characters)
    BY <1>11, <1>12
  <2> QED BY ONLY <2>1, ConcatAssociative, SMTT(30)
<1>15. (u \o v) \o (n \o t) = u \o (v \o (n \o t))
  <2>1. u \in Seq(Characters) /\ v \in Seq(Characters) /\ n \o t \in Seq(Characters)
    BY <1>11, <1>12
  <2> QED BY ONLY <2>1, ConcatAssociative, SMTT(30)
<1> QED BY <1>11, <1>13, <1>14, <1>15 DEF u

\* Runs are a matter of the file and the minimum.
LEMMA RunsKept ==
  ASSUME files' = files, number' = number
  PROVE  RunsFrom' = RunsFrom /\ Runs' = Runs
<1>1. RunsFrom' = RunsFrom
  BY DEF RunsFrom, Stop, LineEnds, file
<1> QED BY <1>1 DEF Runs

-----------------------------------------------------------------------------
\* Strings is in a run that began behind a, has looked at q bytes, and W are
\* the runs before it.
RunOK(a, q, W) ==
  /\ a \in Nat /\ a <= q /\ W \in Seq(Characters)
  /\ \A k \in (a + 1)..q : file[k] = "ch"
  /\ Runs = W \o RunsFrom[a + 1]
  /\ emitted => out \o text = W \o SubSeq(file, a + 1, q) /\ number <= q - a
  /\ ~emitted => out = W /\ text = SubSeq(file, a + 1, q)

\* What Strings has looked at, of what it has read.
Seen == at[1] - Len(buf)

StringsOK ==
  tool = "Strings" /\ grown = 0 =>
    /\ pc = "read" => buf = <<>>
    /\ pc \in {"read", "scan"} =>
         /\ Seen \in Nat /\ buf = SubSeq(file, Seen + 1, at[1])
         /\ \E a, W : RunOK(a, Seen, W)
    /\ Ended(Runs)

\* What is out, and the text of a run that is long enough, is right.
LEMMA RunOut ==
  ASSUME file \in Seq(Characters), number \in Nat, number >= 1, out \in Seq(Characters),
         text \in Seq(Characters), NEW q \in Nat, q <= Len(file), NEW a \in Nat, NEW W, RunOK(a, q, W)
  PROVE  /\ Runs \in Seq(Characters) /\ IsPrefix(out, Runs)
         /\ number <= q - a => IsPrefix(out \o text, Runs)
         /\ out \o text = W \o SubSeq(file, a + 1, q)
         /\ a <= q /\ W \in Seq(Characters)
<1>1. /\ a <= q /\ W \in Seq(Characters) /\ Runs = W \o RunsFrom[a + 1]
      /\ \A k \in (a + 1)..q : file[k] = "ch"
      /\ emitted => out \o text = W \o SubSeq(file, a + 1, q) /\ number <= q - a
      /\ ~emitted => out = W /\ text = SubSeq(file, a + 1, q)
  BY DEF RunOK
<1>2. out \o text = W \o SubSeq(file, a + 1, q)
  BY <1>1
<1>3. RunsFrom[a + 1] \in Seq(Characters)
  <2>1. Len(file) \in Nat
    OBVIOUS
  <2>2. a + 1 \in 1..(Len(file) + 1)
    BY <1>1, <2>1
  <2> QED BY <2>2, RunsType
<1>4. Runs \in Seq(Characters) /\ IsPrefix(W, Runs)
  <2>1. W \o RunsFrom[a + 1] \in Seq(Characters)
    BY <1>1, <1>3, ConcatProperties
  <2>2. IsPrefix(W, W \o RunsFrom[a + 1])
    BY <1>1, <1>3, PrefixConcat
  <2> QED BY <1>1, <2>1, <2>2
<1>5. ASSUME number <= q - a PROVE IsPrefix(out \o text, Runs)
  <2>1. a < q
    BY <1>1, <1>5
  <2>2. PICK z \in Seq(Characters) : RunsFrom[a + 1] = SubSeq(file, a + 1, q) \o z
    BY <1>1, <1>5, <2>1, LongRun
  <2> DEFINE u == SubSeq(file, a + 1, q)
  <2>3. u \in Seq(Characters)
    BY <1>1, SliceIs
  <2> HIDE DEF u
  <2>4. Runs = W \o (u \o z) /\ z \in Seq(Characters) /\ W \in Seq(Characters)
    BY <1>1, <2>2 DEF u
  <2>5. (W \o u) \o z = W \o (u \o z)
    BY ONLY <2>3, <2>4, ConcatAssociative
  <2>6. W \o u \in Seq(Characters)
    BY ONLY <2>3, <2>4, ConcatProperties
  <2>7. IsPrefix(W \o u, (W \o u) \o z)
    BY ONLY <2>4, <2>6, PrefixConcat
  <2>8. IsPrefix(W \o u, Runs) /\ out \o text = W \o u
    BY <1>2, <2>4, <2>5, <2>7 DEF u
  <2> QED BY <2>8
<1>6. IsPrefix(out, Runs)
  <2>1. CASE emitted
    <3>1. IsPrefix(out \o text, Runs)
      BY <1>1, <1>5, <2>1
    <3>2. 0 \in 0..Len(text)
      BY LenProperties
    <3>3. IsPrefix(out \o SubSeq(text, 1, 0), Runs)
      BY <1>4, <3>1, <3>2, PrefixOfPart
    <3>4. SubSeq(text, 1, 0) = <<>>
      BY SubSeqEmpty
    <3>5. out \o <<>> = out
      BY ConcatEmptySeq
    <3> QED BY <3>3, <3>4, <3>5
  <2>2. CASE ~emitted
    BY <1>1, <1>4, <2>2
  <2> QED BY <2>1, <2>2
<1> QED BY <1>1, <1>2, <1>4, <1>5, <1>6

\* A run that ends behind q: what RunEnd adds makes the output that of all
\* runs up to there.
LEMMA RunEnds ==
  ASSUME file \in Seq(Characters), number \in Nat, number >= 1, out \in Seq(Characters),
         text \in Seq(Characters), NEW q \in Nat, q <= Len(file), NEW a \in Nat, NEW W, RunOK(a, q, W),
         q = Len(file) \/ file[q + 1] = "nl"
  PROVE  /\ RunEnd \in Seq(Characters) /\ out \o RunEnd \in Seq(Characters)
         /\ Runs = (out \o RunEnd) \o RunsFrom[q + 1]
<1>1. /\ a <= q /\ W \in Seq(Characters) /\ Runs = W \o RunsFrom[a + 1]
      /\ \A k \in (a + 1)..q : file[k] = "ch"
      /\ emitted => out \o text = W \o SubSeq(file, a + 1, q) /\ number <= q - a
      /\ ~emitted => out = W /\ text = SubSeq(file, a + 1, q)
  BY DEF RunOK
<1>2. /\ SubSeq(file, a + 1, q) \in Seq(Characters) /\ Len(SubSeq(file, a + 1, q)) = q - a
  BY <1>1, SliceIs
<1>3. <<"nl">> \in Seq(Characters) /\ <<>> \in Seq(Characters)
  BY DEF Characters
<1>4. RunEnd \in Seq(Characters)
  <2>1. text \o <<"nl">> \in Seq(Characters)
    BY <1>3, ConcatProperties
  <2> QED BY <1>3, <2>1 DEF RunEnd
<1>5. out \o RunEnd \in Seq(Characters)
  BY <1>4, ConcatProperties
<1>6. RunsFrom[q + 1] \in Seq(Characters)
  <2>1. Len(file) \in Nat
    OBVIOUS
  <2>2. q + 1 \in 1..(Len(file) + 1)
    BY <2>1
  <2> QED BY <2>2, RunsType
<1> DEFINE u == SubSeq(file, a + 1, q)
           n == <<"nl">>
           t == RunsFrom[q + 1]
<1>7. CASE number <= q - a
  <2>1. a < q /\ q - a >= number
    BY <1>1, <1>7
  <2>2. RunsFrom[a + 1] = (u \o n) \o t
    BY <1>1, <2>1, RunIs
  <2>3. RunEnd = text \o n
    <3>1. CASE emitted
      BY <3>1 DEF RunEnd
    <3>2. CASE ~emitted
      <4>1. Len(text) = q - a
        BY <1>1, <1>2, <3>2
      <4>2. Len(text) >= number
        BY <1>7, <4>1
      <4> QED BY <4>2 DEF RunEnd
    <3> QED BY <3>1, <3>2
  <2>4. out \o text = W \o u
    BY <1>1
  <2>5. /\ u \in Seq(Characters) /\ n \in Seq(Characters) /\ t \in Seq(Characters)
        /\ W \in Seq(Characters) /\ Runs = W \o ((u \o n) \o t)
        /\ out \in Seq(Characters) /\ text \in Seq(Characters)
    BY <1>1, <1>2, <1>3, <1>6, <2>2
  <2> HIDE DEF u, n, t
  <2>6. u \o n \in Seq(Characters) /\ W \o u \in Seq(Characters)
    <3>1. u \o n \in Seq(Characters)
      BY ONLY <2>5, ConcatProperties
    <3>2. W \o u \in Seq(Characters)
      BY ONLY <2>5, ConcatProperties
    <3> QED BY <3>1, <3>2
  <2>7. (out \o text) \o n = out \o (text \o n)
    BY ONLY <2>5, ConcatAssociative, SMTT(30)
  <2>8. (W \o u) \o n = W \o (u \o n)
    BY ONLY <2>5, ConcatAssociative, SMTT(30)
  <2>9. (W \o (u \o n)) \o t = W \o ((u \o n) \o t)
    <3>1. PICK x : x = u \o n
      OBVIOUS
    <3>2. W \in Seq(Characters) /\ x \in Seq(Characters) /\ t \in Seq(Characters)
      BY <2>5, <2>6, <3>1
    <3>3. (W \o x) \o t = W \o (x \o t)
      BY ONLY <3>2, ConcatAssociative
    <3> QED BY ONLY <3>1, <3>3
  <2>10. out \o RunEnd = W \o (u \o n)
    BY ONLY <2>3, <2>4, <2>7, <2>8
  <2>11. Runs = (out \o RunEnd) \o t
    BY ONLY <2>5, <2>9, <2>10
  <2> QED BY <1>4, <1>5, <2>11 DEF t
<1>8. CASE ~(number <= q - a)
  <2>1. ~emitted /\ out = W /\ Len(text) = q - a
    BY <1>1, <1>2, <1>8
  <2>2. RunEnd = <<>>
    <3>1. ~(Len(text) >= number)
      BY <1>1, <1>8, <2>1
    <3> QED BY <2>1, <3>1 DEF RunEnd
  <2>3. out \o RunEnd = W
    BY <2>1, <2>2, ConcatEmptySeq
  <2>4. RunsFrom[a + 1] = t
    <3>1. CASE a < q
      <4>1. ~(q - a >= number)
        BY <1>1, <1>8
      <4>2. RunsFrom[a + 1] = <<>> \o t
        BY <1>1, <3>1, <4>1, RunIs
      <4> HIDE DEF t
      <4>3. <<>> \o t = t
        BY <1>6, ConcatEmptySeq DEF t
      <4> QED BY <4>2, <4>3
    <3>2. CASE ~(a < q)
      <4>1. a = q
        BY <1>1, <3>2
      <4> QED BY <4>1
    <3> QED BY <3>1, <3>2
  <2> QED BY <1>1, <1>4, <1>5, <2>3, <2>4
<1> QED BY <1>7, <1>8

\* One printable character more.
LEMMA RunGoesOn ==
  ASSUME file \in Seq(Characters), NEW q \in Nat, q + 1 <= Len(file), file[q + 1] = "ch",
         NEW a \in Nat, a <= q, \A k \in (a + 1)..q : file[k] = "ch"
  PROVE  /\ \A k \in (a + 1)..(q + 1) : file[k] = "ch"
         /\ SubSeq(file, a + 1, q + 1) = SubSeq(file, a + 1, q) \o <<"ch">>
         /\ SubSeq(file, a + 1, q) \in Seq(Characters) /\ <<"ch">> \in Seq(Characters)
<1>0. Len(file) \in Nat
  OBVIOUS
<1>1. \A k \in (a + 1)..(q + 1) : k \in (a + 1)..q \/ k = q + 1
  OBVIOUS
<1>2. SubSeq(file, q + 1, q + 1) = <<"ch">>
  <2>1. q \in Nat /\ q + 1 \in Nat /\ q <= q + 1 /\ q + 1 <= Len(file) /\ q + 1 - q = 1
    BY <1>0
  <2>2. /\ SubSeq(file, q + 1, q + 1) \in Seq(Characters) /\ Len(SubSeq(file, q + 1, q + 1)) = q + 1 - q
        /\ \A i \in 1..(q + 1 - q) : SubSeq(file, q + 1, q + 1)[i] = file[q + i]
    BY <2>1, SliceIs
  <2> DEFINE x == SubSeq(file, q + 1, q + 1)
  <2>3. x \in Seq(Characters) /\ Len(x) = 1 /\ x[1] = "ch"
    BY <2>1, <2>2
  <2> HIDE DEF x
  <2>4. x = <<"ch">>
    <3>1. /\ <<"ch">> \in Seq(Characters) /\ Len(<<"ch">>) = 1 /\ <<"ch">>[1] = "ch"
      BY DEF Characters
    <3>2. \A i \in 1..1 : i = 1
      OBVIOUS
    <3>3. \A i \in 1..Len(x) : x[i] = <<"ch">>[i]
      BY <2>3, <3>1, <3>2
    <3> QED BY ONLY <2>3, <3>1, <3>3, SeqEqual
  <2> QED BY <2>4 DEF x
<1>3. SubSeq(file, a + 1, q) \o SubSeq(file, q + 1, q + 1) = SubSeq(file, a + 1, q + 1)
  <2>1. q + 1 \in Nat /\ q <= q + 1
    OBVIOUS
  <2> QED BY <2>1, SlicesJoin
<1>4. SubSeq(file, a + 1, q) \in Seq(Characters)
  <2>1. q <= Len(file)
    BY <1>0
  <2> QED BY <2>1, SliceIs
<1>5. <<"ch">> \in Seq(Characters)
  BY DEF Characters
<1>6. \A k \in (a + 1)..(q + 1) : file[k] = "ch"
  BY <1>1
<1> QED BY ONLY <1>2, <1>3, <1>4, <1>5, <1>6

\* The parts of StringsOK, one step later.
LEMMA StringsParts ==
  ASSUME StringsOK, tool = "Strings", grown = 0, pc \in {"read", "scan"}, ShapeOK
  PROVE  /\ file \in Seq(Characters) /\ number \in Nat /\ number >= 1 /\ number <= StringBytes - 1
         /\ out \in Seq(Characters) /\ text \in Seq(Characters) /\ buf \in Seq(Characters)
         /\ at \in [1..2 -> Nat] /\ at[1] <= Len(file) /\ Len(file) \in Nat
         /\ Seen \in Nat /\ Seen <= at[1] /\ at[1] = Seen + Len(buf)
         /\ buf = SubSeq(file, Seen + 1, at[1])
         /\ pc = "read" => buf = <<>> /\ Seen = at[1]
         /\ \E a \in Nat : \E W : RunOK(a, Seen, W)
<1>1. /\ file \in Seq(Characters) /\ number \in Nat /\ Len(file) \in Nat
      /\ out \in Seq(Characters) /\ text \in Seq(Characters) /\ buf \in Seq(Characters)
      /\ at \in [1..2 -> Nat] /\ at[1] <= Len(file)
  BY DEF ShapeOK, TypeOK, ReachOK, file, Items, NoLimit
<1>2. number >= 1 /\ number <= StringBytes - 1
  BY DEF ShapeOK, ControlOK, InRange
<1>3. /\ Seen \in Nat /\ buf = SubSeq(file, Seen + 1, at[1])
      /\ pc = "read" => buf = <<>>
      /\ \E a, W : RunOK(a, Seen, W)
  BY DEF StringsOK
<1>4. Seen <= at[1] /\ at[1] = Seen + Len(buf) /\ (pc = "read" => Seen = at[1])
  <2>1. Len(buf) \in Nat /\ at[1] \in Nat /\ (pc = "read" => Len(buf) = 0)
    BY <1>1, <1>3
  <2> QED BY ONLY <2>1 DEF Seen
<1>5. \E a \in Nat : \E W : RunOK(a, Seen, W)
  BY <1>3 DEF RunOK
<1> QED BY <1>1, <1>2, <1>3, <1>4, <1>5

LEMMA StringsStep == ShapeOK /\ StringsOK /\ [Next]_vars => StringsOK'
<1> SUFFICES ASSUME ShapeOK, StringsOK, [Next]_vars, tool' = "Strings", grown' = 0
             PROVE  StringsOK'
  BY DEF StringsOK
<1>1. /\ tool = "Strings" /\ grown = 0 /\ number' = number /\ files' = files /\ file' = file
      /\ pc = "done" => UNCHANGED vars
  BY QuietStep DEF file
<1>2. RunsFrom' = RunsFrom /\ Runs' = Runs
  BY <1>1, RunsKept
<1>3. ASSUME UNCHANGED <<at, buf, text, out>>, emitted' = emitted
      PROVE  /\ Seen' = Seen
             /\ \A a, W : RunOK(a, Seen, W) => RunOK(a, Seen, W)'
  <2>1. Seen' = Seen
    BY <1>3 DEF Seen
  <2>2. emitted' <=> emitted
    BY <1>3, Zenon
  <2> QED BY <1>1, <1>2, <1>3, <2>1, <2>2 DEF RunOK
<1>4. CASE UNCHANGED vars
  <2>1. UNCHANGED <<tool, pc, out, at, rc, grown, buf, text, NoWork>> /\ emitted' = emitted
    BY <1>4 DEF vars, NoWork
  <2>2. (\E a, W : RunOK(a, Seen, W)) => \E a, W : RunOK(a, Seen, W)'
    BY <1>3, <2>1
  <2>3. Seen' = Seen
    BY <2>1 DEF Seen
  <2> QED BY <1>1, <1>2, <2>1, <2>2, <2>3 DEF StringsOK, Ended
<1>5. CASE pc \in Early /\ Next
  <2>1. out' = <<>> /\ (pc' = "done" /\ rc' = 0 => NoWork')
    BY <1>5, EarlyOut
  <2>2. Ended(Runs)'
    BY <2>1 DEF Ended
  <2>3. ASSUME pc' \in {"read", "scan"}
        PROVE  UNCHANGED <<at, buf, text>> /\ emitted' = emitted
    <3>1. CASE OpenFile
      BY <3>1 DEF OpenFile
    <3>2. ~(ParseArgs \/ OpenSecond \/ SeekStart \/ SeekEnd \/ TailBack \/ TailAll)
      BY <1>1, <2>3 DEF ParseArgs, OpenSecond, SeekStart, SeekEnd, TailBack, TailAll, Return, Goto,
         ShapeOK, ControlOK
    <3>3. ~(HeadRead \/ TailRead \/ StringsRead \/ StringsScan \/ StringsNext \/ HexLine
            \/ SnapDiffRead)
      BY <1>5 DEF HeadRead, TailRead, StringsRead, StringsScan, StringsNext, HexLine,
         SnapDiffRead, Early
    <3>4. ~Grow
      BY <1>1 DEF Grow
    <3> QED BY <1>5, <3>1, <3>2, <3>3, <3>4 DEF Next
  <2>4. at[1] = 0 /\ buf = <<>> /\ text = <<>> /\ file \in Seq(Characters) /\ Len(file) \in Nat
    BY <1>5 DEF ShapeOK, StartOK, TypeOK, file
  <2>5. ~emitted
    BY <1>5 DEF ShapeOK, StartOK
  <2>6. SubSeq(file, 1, 0) = <<>> /\ SubSeq(file, 0 + 1, 0) = <<>>
    BY <2>4, SubSeqEmpty
  <2>7. <<>> \in Seq(Characters) /\ Runs = <<>> \o Runs
    <3>1. Runs \in Seq(Characters)
      <4>1. 1 \in 1..(Len(file) + 1)
        BY <2>4
      <4> QED BY <2>4, <4>1, RunsType DEF Runs
    <3> QED BY <3>1, ConcatEmptySeq
  <2>8. ASSUME pc' \in {"read", "scan"}
        PROVE  /\ buf' = <<>> /\ Seen' = 0 /\ buf' = SubSeq(file, Seen + 1, at[1])'
               /\ RunOK(0, Seen, <<>>)'
    <3>1. at'[1] = 0 /\ buf' = <<>> /\ text' = <<>>
      BY <2>3, <2>4, <2>8
    <3>2. ~emitted'
      BY <2>3, <2>5, <2>8, Zenon
    <3>3. Seen' = 0
      <4>1. Seen' = at'[1] - Len(buf')
        BY DEF Seen
      <4>2. PICK x, y : x = at'[1] /\ y = Len(buf')
        OBVIOUS
      <4>3. x = 0 /\ y = 0
        BY <3>1, <4>2
      <4>4. Seen' = x - y
        BY ONLY <4>1, <4>2, Zenon
      <4> QED BY ONLY <4>3, <4>4
    <3>4. buf' = SubSeq(file, Seen + 1, at[1])'
      BY <1>1, <2>6, <3>1, <3>3
    <3>5. RunOK(0, Seen, <<>>)'
      <4>1. \A k \in (0 + 1)..0 : file[k] = "ch"
        OBVIOUS
      <4>2. Runs = <<>> \o RunsFrom[0 + 1]
        BY <2>7 DEF Runs
      <4> QED BY <1>1, <1>2, <2>1, <2>6, <2>7, <3>1, <3>2, <3>3, <4>1, <4>2 DEF RunOK
    <3> QED BY <3>1, <3>3, <3>4, <3>5
  <2> QED BY <2>2, <2>8 DEF StringsOK
<1>6. CASE StringsNext
  <2>1. pc = "scan" /\ buf = <<>> /\ pc' = "read" /\ UNCHANGED <<at, buf, text, out>> /\ emitted' = emitted
    BY <1>6 DEF StringsNext, Goto
  <2>2. Seen' = Seen /\ ((\E a, W : RunOK(a, Seen, W)) => \E a, W : RunOK(a, Seen, W)')
    BY <1>3, <2>1
  <2>3. Seen \in Nat /\ buf = SubSeq(file, Seen + 1, at[1]) /\ \E a, W : RunOK(a, Seen, W)
    BY <1>1, <2>1 DEF StringsOK
  <2>4. Ended(Runs)'
    BY <2>1 DEF Ended
  <2> QED BY <1>1, <2>1, <2>2, <2>3, <2>4 DEF StringsOK
<1>7. CASE StringsRead
  <2>0. pc = "read" /\ text' = text /\ emitted' = emitted
    BY <1>7 DEF StringsRead
  <2>1. /\ file \in Seq(Characters) /\ number \in Nat /\ number >= 1
        /\ out \in Seq(Characters) /\ text \in Seq(Characters)
        /\ at[1] <= Len(file) /\ Len(file) \in Nat /\ Seen \in Nat /\ Seen = at[1]
        /\ \E a \in Nat : \E W : RunOK(a, Seen, W)
    BY <1>1, <2>0, StringsParts
  <2>2. PICK q \in Nat : q = Seen
    BY <2>1
  <2>3. PICK a \in Nat : \E W : RunOK(a, q, W)
    BY <2>1, <2>2
  <2>4. PICK W : RunOK(a, q, W)
    BY <2>3
  <2>5. q <= Len(file)
    BY <2>1, <2>2
  <2>6. Runs \in Seq(Characters) /\ IsPrefix(out, Runs)
    BY <2>1, <2>4, <2>5, RunOut
  <2>7. CASE Return(5, {1}) /\ UNCHANGED <<at, buf, out, short>>
    <3>1. pc' = "done" /\ rc' = 5 /\ out' = out
      BY <2>7 DEF Return
    <3> QED BY <1>2, <2>6, <3>1 DEF StringsOK, Ended
  <2>8. CASE \E c \in Chunks(1, ReadSize) :
          /\ at' = [at EXCEPT ![1] = @ + Len(c)]
          /\ short' = (short \/ Len(c) < Min({ReadSize, Left(1)}))
          /\ buf' = c
          /\ IF c = <<>> THEN WriteThen(RunEnd, "done") ELSE Goto("scan") /\ UNCHANGED out
    <3>1. PICK c \in Chunks(1, ReadSize) :
          /\ at' = [at EXCEPT ![1] = @ + Len(c)]
          /\ buf' = c
          /\ IF c = <<>> THEN WriteThen(RunEnd, "done") ELSE Goto("scan") /\ UNCHANGED out
      BY <2>8
    <3>2. /\ at'[1] = at[1] + Len(c) /\ c \in Seq(Characters) /\ Len(c) \in Nat
          /\ c = SubSeq(file, at[1] + 1, at[1] + Len(c))
          /\ c = <<>> <=> at[1] = Len(file)
      BY <3>1, FirstReach
    <3>3. CASE c = <<>>
      <4>1. q = Len(file) /\ WriteThen(RunEnd, "done")
        BY <2>1, <2>2, <3>1, <3>2, <3>3
      <4>2. /\ RunEnd \in Seq(Characters) /\ out \o RunEnd \in Seq(Characters)
            /\ Runs = (out \o RunEnd) \o RunsFrom[q + 1]
        BY <2>1, <2>4, <2>5, <4>1, RunEnds
      <4>3. RunsFrom[q + 1] = <<>>
        BY <2>1, <4>1, RunsAtEnd
      <4>4. out \o RunEnd = Runs
        <5>1. (out \o RunEnd) \o <<>> = out \o RunEnd
          BY <4>2, ConcatEmptySeq
        <5> QED BY <4>2, <4>3, <5>1
      <4>5. IsPrefix(out \o RunEnd, Runs)
        <5>1. IsPrefix(Runs, Runs \o <<>>) /\ Runs \o <<>> = Runs
          <6>1. <<>> \in Seq(Characters)
            OBVIOUS
          <6>2. IsPrefix(Runs, Runs \o <<>>)
            BY <2>6, <6>1, PrefixConcat
          <6> QED BY <2>6, <6>2, ConcatEmptySeq
        <5> QED BY <4>4, <5>1
      <4>6. pc' = "done" => IsPrefix(out', Runs) /\ (rc' = 0 => out' = Runs)
        <5>1. out \in Seq(Characters)
          BY <2>1
        <5> QED BY ONLY <2>6, <4>1, <4>2, <4>4, <4>5, <5>1, WriteEnds
      <4>7. pc' = "done"
        <5>1. out \in Seq(Characters)
          BY <2>1
        <5> QED BY ONLY <4>1, <4>2, <5>1, WriteIs
      <4> QED BY <1>2, <4>6, <4>7 DEF StringsOK, Ended
    <3>4. CASE c # <<>>
      <4>1. pc' = "scan" /\ out' = out /\ buf' = c
        BY <3>1, <3>4 DEF Goto
      <4>2. Seen' = q
        <5>1. Seen' = at'[1] - Len(buf')
          BY DEF Seen
        <5>2. PICK x, y : x = at'[1] /\ y = Len(buf')
          OBVIOUS
        <5>3. Seen' = x - y
          BY ONLY <5>1, <5>2, Zenon
        <5>4. at[1] = q /\ Len(c) \in Nat
          BY <2>1, <2>2, <3>2
        <5>5. x = q + Len(c) /\ y = Len(c)
          BY ONLY <3>2, <4>1, <5>2, <5>4, Zenon
        <5> QED BY ONLY <5>3, <5>4, <5>5, q \in Nat
      <4>3. buf' = SubSeq(file, Seen + 1, at[1])'
        <5>1. SubSeq(file, Seen + 1, at[1])' = SubSeq(file, q + 1, at'[1])
          BY <1>1, <4>2
        <5>2. at[1] = q
          BY <2>1, <2>2
        <5> QED BY ONLY <3>2, <4>1, <5>1, <5>2, Zenon
      <4>4. RunOK(a, Seen, W)'
        <5>1. emitted' <=> emitted
          BY <2>0, Zenon
        <5> QED BY <1>1, <1>2, <2>0, <2>4, <4>1, <4>2, <5>1 DEF RunOK
      <4>5. Ended(Runs)'
        BY <4>1 DEF Ended
      <4> QED BY <2>2, <4>1, <4>2, <4>3, <4>4, <4>5 DEF StringsOK
    <3> QED BY <3>3, <3>4
  <2> QED BY <1>7, <2>7, <2>8, StringsReadIs
<1>8. CASE StringsScan
  <2>0. /\ pc = "scan" /\ buf # <<>> /\ buf' = Tail(buf) /\ at' = at
        /\ \/ /\ Head(buf) = "ch" /\ Full
              /\ WriteThen(text, "scan") /\ emitted' = TRUE /\ text' = <<"ch">>
           \/ /\ Head(buf) = "ch" /\ ~Full
              /\ Goto("scan") /\ text' = Append(text, "ch") /\ emitted' = emitted /\ out' = out
           \/ /\ Head(buf) # "ch"
              /\ WriteThen(RunEnd, "scan") /\ emitted' = FALSE /\ text' = <<>>
    <3>1. out \in Seq(Items)
      BY DEF ShapeOK, TypeOK
    <3>2. pc = "scan" /\ buf # <<>> /\ buf' = Tail(buf) /\ at' = at
      BY <1>8 DEF StringsScan
    <3> QED BY ONLY <1>8, <3>1, <3>2, ScanIs
  <2>1. /\ file \in Seq(Characters) /\ number \in Nat /\ number >= 1 /\ number <= StringBytes - 1
        /\ out \in Seq(Characters) /\ text \in Seq(Characters) /\ buf \in Seq(Characters)
        /\ at[1] \in Nat /\ at[1] <= Len(file) /\ Len(file) \in Nat
        /\ Seen \in Nat /\ at[1] = Seen + Len(buf) /\ buf = SubSeq(file, Seen + 1, at[1])
        /\ \E a \in Nat : \E W : RunOK(a, Seen, W)
    BY <1>1, <2>0, StringsParts
  <2>2. PICK q \in Nat : q = Seen
    BY <2>1
  <2>3. PICK a \in Nat : \E W : RunOK(a, q, W)
    BY <2>1, <2>2
  <2>4. PICK W : RunOK(a, q, W)
    BY <2>3
  <2>5. /\ a <= q /\ W \in Seq(Characters) /\ Runs = W \o RunsFrom[a + 1]
        /\ \A k \in (a + 1)..q : file[k] = "ch"
        /\ emitted => out \o text = W \o SubSeq(file, a + 1, q) /\ number <= q - a
        /\ ~emitted => out = W /\ text = SubSeq(file, a + 1, q)
    BY <2>4 DEF RunOK
  <2>6. PICK e \in Nat : e = at[1]
    BY <2>1
  <2>7. q + 1 <= e /\ e <= Len(file) /\ q <= Len(file) /\ q + 1 \in 1..Len(file) /\ e \in (q + 1)..Len(file)
    <3>1. Len(buf) \in Nat /\ Len(buf) # 0
      <4>1. buf \in Seq(Characters) /\ buf # <<>>
        BY <2>0, <2>1
      <4> QED BY ONLY <4>1, EmptySeq, LenProperties
    <3>2. e = q + Len(buf) /\ e <= Len(file) /\ Len(file) \in Nat
      BY <2>1, <2>2, <2>6
    <3> QED BY ONLY <3>1, <3>2, q \in Nat, e \in Nat
  <2>8. Head(buf) = file[q + 1] /\ Tail(buf) = SubSeq(file, q + 1 + 1, e) /\ Head(buf) \in Characters
    <3>1. Head(SubSeq(file, q + 1, e)) = file[q + 1] /\ Tail(SubSeq(file, q + 1, e)) = SubSeq(file, q + 1 + 1, e)
      <4>1. file \in Seq(Characters)
        BY <2>1
      <4> QED BY ONLY <2>7, <4>1, HeadTailOfSubSeq
    <3>2. buf = SubSeq(file, q + 1, e)
      BY ONLY <2>1, <2>2, <2>6, Zenon
    <3>3. file[q + 1] \in Characters
      <4>1. file \in Seq(Characters)
        BY <2>1
      <4> QED BY ONLY <2>7, <4>1
    <3> QED BY ONLY <3>1, <3>2, <3>3
  <2>9. Seen' = q + 1
    <3>1. Seen' = at'[1] - Len(buf')
      BY DEF Seen
    <3>2. Seen' = at[1] - Len(Tail(buf))
      BY ONLY <2>0, <3>1, Zenon
    <3>3. Len(Tail(buf)) = Len(buf) - 1 /\ Len(buf) \in Nat
      <4>1. buf \in Seq(Characters) /\ buf # <<>>
        BY <2>0, <2>1
      <4> QED BY ONLY <4>1, HeadTailProperties, LenProperties
    <3>4. at[1] = q + Len(buf)
      BY <2>1, <2>2
    <3>5. PICK x, y : x = at[1] /\ y = Len(Tail(buf))
      OBVIOUS
    <3>6. Seen' = x - y
      BY ONLY <3>2, <3>5, Zenon
    <3>7. x = q + Len(buf) /\ y = Len(buf) - 1 /\ Len(buf) \in Nat
      BY ONLY <3>3, <3>4, <3>5, Zenon
    <3> QED BY ONLY <3>6, <3>7, q \in Nat
  <2>10. buf' = SubSeq(file, Seen + 1, at[1])'
    <3>1. SubSeq(file, Seen + 1, at[1])' = SubSeq(file, q + 1 + 1, e)
      BY <1>1, <2>0, <2>6, <2>9
    <3> QED BY ONLY <2>0, <2>8, <3>1
  <2>11. q + 1 \in Nat
    OBVIOUS
  <2>12. /\ Runs \in Seq(Characters)
         /\ number <= q - a => IsPrefix(out \o text, Runs)
         /\ out \o text = W \o SubSeq(file, a + 1, q)
    BY <2>1, <2>4, <2>7, RunOut
  <2>13. ASSUME pc' = "scan", \E b, V : RunOK(b, Seen, V)' PROVE StringsOK'
    <3>1. Ended(Runs)'
      BY <2>13 DEF Ended
    <3>2. Seen' \in Nat
      BY <2>9, <2>11
    <3> QED BY <2>10, <2>13, <3>1, <3>2 DEF StringsOK
  <2>14. ASSUME Head(buf) = "ch"
         PROVE  /\ \A k \in (a + 1)..(q + 1) : file[k] = "ch"
                /\ SubSeq(file, a + 1, q + 1) = SubSeq(file, a + 1, q) \o <<"ch">>
                /\ SubSeq(file, a + 1, q) \in Seq(Characters) /\ <<"ch">> \in Seq(Characters)
                /\ a <= q + 1 /\ q + 1 - a = (q - a) + 1
    <3>1. file[q + 1] = "ch" /\ q + 1 <= Len(file) /\ file \in Seq(Characters)
      <4>1. file[q + 1] = "ch"
        BY ONLY <2>8, <2>14
      <4>2. Len(file) \in Nat /\ file \in Seq(Characters)
        BY <2>1
      <4>3. q + 1 <= Len(file)
        BY ONLY <2>7, <4>2, q \in Nat
      <4> QED BY ONLY <4>1, <4>2, <4>3
    <3>2. a <= q /\ \A k \in (a + 1)..q : file[k] = "ch"
      BY <2>5
    <3>3. a <= q + 1 /\ q + 1 - a = (q - a) + 1
      BY <3>2
    <3>4. a \in Nat /\ q \in Nat
      OBVIOUS
    <3> QED BY ONLY <3>1, <3>2, <3>3, <3>4, RunGoesOn
  <2>15. CASE /\ Head(buf) = "ch" /\ Full
              /\ WriteThen(text, "scan") /\ emitted' = TRUE /\ text' = <<"ch">>
    <3>1. number <= q - a
      <4>1. CASE emitted
        BY <2>5, <4>1
      <4>2. CASE ~emitted
        <5>1. Len(SubSeq(file, a + 1, q)) = q - a
          BY <2>1, <2>5, <2>7, SliceIs
        <5>2. Len(text) = q - a /\ Len(text) = StringBytes - 1
          BY <2>5, <2>15, <4>2, <5>1 DEF Full
        <5> QED BY <2>1, <5>2
      <4> QED BY <4>1, <4>2
    <3>2. IsPrefix(out \o text, Runs) /\ Runs \in Seq(Characters) /\ out \in Seq(Characters)
          /\ text \in Seq(Characters) /\ WriteThen(text, "scan")
      BY <2>1, <2>12, <2>15, <3>1
    <3>3. pc' = "done" => IsPrefix(out', Runs) /\ (rc' = 0 => out' = Runs)
      <4>1. "scan" # "done"
        OBVIOUS
      <4> QED BY ONLY <3>2, <4>1, WriteEnds
    <3>4. pc' = "done" \/ (pc' = "scan" /\ out' = out \o text)
      BY ONLY <3>2, WriteIs
    <3>5. CASE pc' = "done"
      BY <1>2, <3>3, <3>5 DEF StringsOK, Ended
    <3>6. CASE pc' = "scan" /\ out' = out \o text
      <4>1. (out \o text) \o <<"ch">> = W \o SubSeq(file, a + 1, q + 1)
        <5>1. SubSeq(file, a + 1, q + 1) = SubSeq(file, a + 1, q) \o <<"ch">>
              /\ SubSeq(file, a + 1, q) \in Seq(Characters) /\ <<"ch">> \in Seq(Characters)
          BY <2>14, <2>15
        <5>2. W \in Seq(Characters)
          BY <2>5
        <5>3. (W \o SubSeq(file, a + 1, q)) \o <<"ch">> = W \o (SubSeq(file, a + 1, q) \o <<"ch">>)
          <6>1. PICK u, c : u = SubSeq(file, a + 1, q) /\ c = <<"ch">>
            OBVIOUS
          <6>2. W \in Seq(Characters) /\ u \in Seq(Characters) /\ c \in Seq(Characters)
            BY ONLY <5>1, <5>2, <6>1
          <6>3. (W \o u) \o c = W \o (u \o c)
            BY ONLY <6>2, ConcatAssociative
          <6> QED BY ONLY <6>1, <6>3, Zenon
        <5> QED BY ONLY <2>12, <5>1, <5>3, Zenon
      <4>2. number <= q + 1 - a
        BY <2>1, <2>5, <3>1
      <4>3. emitted'
        BY <2>15, Zenon
      <4>4. \A k \in (a + 1)..(q + 1) : file[k] = "ch"
        BY <2>14, <2>15
      <4>5. a <= q + 1
        BY <2>5
      <4>6. out' \o text' = W \o SubSeq(file, a + 1, q + 1)
        BY ONLY <2>15, <3>6, <4>1, Zenon
      <4>7. RunOK(a, Seen, W)'
        BY <1>1, <1>2, <2>5, <2>9, <4>2, <4>3, <4>4, <4>5, <4>6 DEF RunOK
      <4> QED BY <2>13, <3>6, <4>7
    <3> QED BY <3>4, <3>5, <3>6
  <2>16. CASE /\ Head(buf) = "ch" /\ ~Full
              /\ Goto("scan") /\ text' = Append(text, "ch") /\ emitted' = emitted /\ out' = out
    <3>1. text' = text \o <<"ch">>
      <4>1. text \in Seq(Characters) /\ "ch" \in Characters
        BY <2>1 DEF Characters
      <4>2. Append(text, "ch") = text \o <<"ch">>
        BY ONLY <4>1, AppendIsConcat
      <4> QED BY <2>16, <4>2
    <3>2. /\ \A k \in (a + 1)..(q + 1) : file[k] = "ch"
          /\ SubSeq(file, a + 1, q + 1) = SubSeq(file, a + 1, q) \o <<"ch">>
          /\ SubSeq(file, a + 1, q) \in Seq(Characters) /\ <<"ch">> \in Seq(Characters)
          /\ a <= q + 1
      BY <2>14, <2>16
    <3>3. emitted' <=> emitted
      BY <2>16, Zenon
    <3>4. ASSUME emitted PROVE out' \o text' = W \o SubSeq(file, a + 1, q + 1) /\ number <= q + 1 - a
      <4>1. (W \o SubSeq(file, a + 1, q)) \o <<"ch">> = W \o (SubSeq(file, a + 1, q) \o <<"ch">>)
        <5>1. W \in Seq(Characters)
          BY <2>5
        <5>2. PICK u, c : u = SubSeq(file, a + 1, q) /\ c = <<"ch">>
          OBVIOUS
        <5>3. W \in Seq(Characters) /\ u \in Seq(Characters) /\ c \in Seq(Characters)
          BY ONLY <3>2, <5>1, <5>2
        <5>4. (W \o u) \o c = W \o (u \o c)
          BY ONLY <5>3, ConcatAssociative
        <5> QED BY ONLY <5>2, <5>4, Zenon
      <4>2. (out \o text) \o <<"ch">> = out \o (text \o <<"ch">>)
        <5>1. out \in Seq(Characters) /\ text \in Seq(Characters) /\ <<"ch">> \in Seq(Characters)
          BY <2>1, <3>2
        <5> QED BY ONLY <5>1, ConcatAssociative
      <4>3. out' \o text' = W \o SubSeq(file, a + 1, q + 1)
        BY ONLY <2>12, <2>16, <3>1, <3>2, <4>1, <4>2, Zenon
      <4>4. number <= q + 1 - a
        BY <2>1, <2>5, <3>4
      <4> QED BY <4>3, <4>4
    <3>5. ASSUME ~emitted PROVE out' = W /\ text' = SubSeq(file, a + 1, q + 1)
      BY <2>5, <2>16, <3>1, <3>2, <3>5
    <3>6. RunOK(a, Seen, W)'
      <4>1. /\ a \in Nat /\ a <= q + 1 /\ W \in Seq(Characters) /\ Runs = W \o RunsFrom[a + 1]
            /\ \A k \in (a + 1)..(q + 1) : file[k] = "ch"
        BY <2>5, <3>2
      <4>2. emitted' => out' \o text' = W \o SubSeq(file, a + 1, q + 1) /\ number <= q + 1 - a
        BY ONLY <3>3, <3>4
      <4>3. ~emitted' => out' = W /\ text' = SubSeq(file, a + 1, q + 1)
        BY ONLY <3>3, <3>5
      <4>4. CASE emitted'
        <5>1. out' \o text' = W \o SubSeq(file, a + 1, q + 1) /\ number <= q + 1 - a
          BY <4>2, <4>4
        <5> QED BY <1>1, <1>2, <2>9, <4>1, <4>4, <5>1 DEF RunOK
      <4>5. CASE ~emitted'
        <5>1. out' = W /\ text' = SubSeq(file, a + 1, q + 1)
          BY <4>3, <4>5
        <5> QED BY <1>1, <1>2, <2>9, <4>1, <4>5, <5>1 DEF RunOK
      <4> QED BY <4>4, <4>5
    <3>7. pc' = "scan"
      BY <2>16 DEF Goto
    <3> QED BY <2>13, <3>6, <3>7
  <2>17. CASE /\ Head(buf) # "ch"
              /\ WriteThen(RunEnd, "scan") /\ emitted' = FALSE /\ text' = <<>>
    <3>1. file[q + 1] = "nl"
      BY <2>8, <2>17 DEF Characters
    <3>2. /\ RunEnd \in Seq(Characters) /\ out \o RunEnd \in Seq(Characters)
          /\ Runs = (out \o RunEnd) \o RunsFrom[q + 1]
      BY <2>1, <2>4, <2>7, <3>1, RunEnds
    <3>3. RunsFrom[q + 1] = RunsFrom[q + 1 + 1]
      BY <2>1, <2>7, <3>1, RunsAtEnd
    <3>4. RunsFrom[q + 1] \in Seq(Characters)
      <4>1. q + 1 \in 1..(Len(file) + 1)
        BY <2>1, <2>7
      <4> QED BY <2>1, <4>1, RunsType
    <3>5. IsPrefix(out \o RunEnd, Runs)
      BY <3>2, <3>4, PrefixConcat
    <3>6. out \in Seq(Characters) /\ WriteThen(RunEnd, "scan") /\ Runs \in Seq(Characters) /\ "scan" # "done"
      BY <2>1, <2>12, <2>17
    <3>7. pc' = "done" => IsPrefix(out', Runs) /\ (rc' = 0 => out' = Runs)
      BY ONLY <3>2, <3>5, <3>6, WriteEnds
    <3>8. pc' = "done" \/ (pc' = "scan" /\ out' = out \o RunEnd)
      BY ONLY <3>2, <3>6, WriteIs
    <3>9. CASE pc' = "done"
      BY <1>2, <3>7, <3>9 DEF StringsOK, Ended
    <3>10. CASE pc' = "scan" /\ out' = out \o RunEnd
      <4>1. ~emitted'
        BY <2>17, Zenon
      <4>2. SubSeq(file, q + 1 + 1, q + 1) = <<>>
        <5>1. q + 1 + 1 > q + 1 /\ file \in Seq(Characters)
          BY <2>1
        <5> QED BY <5>1, SubSeqEmpty
      <4>3. \A k \in (q + 1 + 1)..(q + 1) : file[k] = "ch"
        OBVIOUS
      <4>4. PICK V : V = out \o RunEnd
        OBVIOUS
      <4>5. V \in Seq(Characters) /\ Runs = V \o RunsFrom[q + 1 + 1] /\ out' = V
        BY <3>2, <3>3, <3>10, <4>4
      <4>6. text' = SubSeq(file, q + 1 + 1, q + 1)
        BY <2>17, <4>2
      <4>7. RunOK(q + 1, Seen, V)'
        BY <1>1, <1>2, <2>9, <2>11, <4>1, <4>3, <4>5, <4>6 DEF RunOK
      <4> QED BY <2>13, <3>10, <4>7
    <3> QED BY <3>8, <3>9, <3>10
  <2> QED BY <2>0, <2>15, <2>16, <2>17
<1> QED
  <2>1. CASE pc = "done"
    BY <1>1, <1>4, <2>1
  <2>2. CASE pc \in {"read", "scan"} /\ Next
    BY <1>1, <1>6, <1>7, <1>8, <2>2 DEF Next, ParseArgs, OpenFile, OpenSecond, SeekStart, SeekEnd,
       TailBack, TailAll, HeadRead, TailRead, HexLine, SnapDiffRead, Grow, ShapeOK, ControlOK
  <2> QED BY <1>4, <1>5, <2>1, <2>2 DEF ShapeOK, TypeOK, Early

-----------------------------------------------------------------------------
(***************************************************************************)
(* What the tools promise.                                                 *)
(***************************************************************************)
WrittenOK == ShapeOK /\ HeadOK /\ TailOK /\ StringsOK /\ HexOK /\ SnapOK

LEMMA InitWritten == Init => WrittenOK
<1> SUFFICES ASSUME Init PROVE WrittenOK
  OBVIOUS
<1>1. ShapeOK
  BY InitShape
<1>2. pc = "args" /\ out = <<>> /\ diff = NoDiff /\ at[1] = 0 /\ at[2] = 0
  BY DEF Init
<1>3. \A w : Ended(w)
  BY <1>2 DEF Ended
<1>4. HeadOK /\ TailOK /\ HexOK /\ StringsOK
  BY <1>2, <1>3 DEF HeadOK, TailOK, HexOK, StringsOK
<1>5. SnapOK
  <2>1. diff.offset = 0 /\ diff.differing = 0 /\ ~diff.have
    BY <1>2 DEF NoDiff
  <2>2. Unequal(diff.offset) = {}
    BY <2>1 DEF Unequal
  <2>3. Cardinality({}) = 0
    BY FS_EmptySet
  <2>4. \A k \in 1..at[1] : files[1][k] = files[2][k]
    BY <1>2
  <2>5. pc # "done"
    BY <1>2
  <2>6. diff.differing = Cardinality(Unequal(diff.offset))
    BY ONLY <2>1, <2>2, <2>3
  <2>7. /\ diff.offset = IF at[1] <= at[2] THEN at[2] ELSE at[1]
        /\ at[1] < diff.offset => at[1] = Len(files[1])
        /\ at[2] < diff.offset => at[2] = Len(files[2])
        /\ diff.have <=> Unequal(diff.offset) # {}
        /\ diff.have => diff.first = Min(Unequal(diff.offset)) - 1
    BY <1>2, <2>1, <2>2
  <2> QED BY ONLY <1>2, <2>1, <2>4, <2>5, <2>6, <2>7, Zenon DEF SnapOK
<1> QED BY <1>1, <1>4, <1>5 DEF WrittenOK

LEMMA WrittenInvariance == Spec => []WrittenOK
<1>1. WrittenOK /\ [Next]_vars => WrittenOK'
  BY ShapeStep, HeadStep, TailStep, StringsStep, HexStep, SnapStep DEF WrittenOK
<1> QED BY InitWritten, <1>1, PTL DEF Spec

\* However Reads cut the file into pieces and whatever call fails, what Head,
\* Tail, Strings and Hex have written is a beginning of what the whole file
\* calls for.
THEOREM RightSoFar == Spec => []OutputIsRightSoFar
<1>1. WrittenOK => OutputIsRightSoFar
  <2> SUFFICES ASSUME WrittenOK, out # <<>>, grown = 0 PROVE IsPrefix(out, Expected)
    BY DEF OutputIsRightSoFar
  <2>1. ShapeOK /\ HeadOK /\ TailOK /\ StringsOK /\ HexOK /\ SnapOK
    BY DEF WrittenOK
  <2>2. /\ files[1] \in Seq(Characters) /\ file \in Seq(Characters) /\ Len(file) \in Nat
        /\ number \in Nat /\ offset \in Nat
        /\ at \in [1..2 -> Nat] /\ at[1] \in Nat /\ at[1] <= Len(file) /\ pos \in Nat
    BY <2>1 DEF ShapeOK, TypeOK, ReachOK, file, NoLimit
  <2>3. pc \in {"read", "scan", "done"}
    BY <2>1 DEF ShapeOK, StartOK, TypeOK, Early
  <2>4. CASE tool = "Head"
    <3>1. Expected = FirstLines
      BY <2>4 DEF Expected
    <3>2. CASE pc = "read"
      <4>1. out = SubSeq(file, 1, at[1]) /\ lines = Count(file, at[1]) /\ lines < number /\ lines \in Nat
        BY <2>1, <2>4, <3>2 DEF HeadOK, ShapeOK, MissingOK, TypeOK
      <4>2. number >= 1
        BY <2>2, <4>1
      <4>3. \A a \in Nat : a <= Len(file) /\ Count(file, a) < number =>
              IsPrefix(SubSeq(file, 1, a), FirstLines)
        BY <2>2, <4>2, FirstLinesIs
      <4> QED BY <2>2, <3>1, <4>1, <4>3
    <3>3. pc # "scan"
      BY <2>1, <2>4 DEF ShapeOK, ControlOK
    <3>4. CASE pc = "done"
      BY <2>1, <2>4, <3>1, <3>4 DEF HeadOK, Ended
    <3> QED BY <2>3, <3>2, <3>3, <3>4
  <2>5. CASE tool = "Tail"
    <3>1. Expected = LastLines
      BY <2>5 DEF Expected
    <3>2. CASE pc = "read"
      <4>1. out = SubSeq(file, pos + 1, at[1]) /\ pos = TailFrom /\ pos <= at[1]
        BY <2>1, <2>5, <3>2 DEF TailOK, ShapeOK, SinceOK
      <4>2. LastLines = SubSeq(file, TailFrom + 1, Len(file))
        BY <2>2, LastLinesIs
      <4>3. /\ file \in Seq(Characters) /\ pos \in Nat /\ at[1] \in Nat /\ Len(file) \in Nat
            /\ pos <= at[1] /\ at[1] <= Len(file) /\ Len(file) <= Len(file)
        BY <2>2, <4>1
      <4>4. IsPrefix(SubSeq(file, pos + 1, at[1]), SubSeq(file, pos + 1, Len(file)))
        BY ONLY <4>3, SlicesNest
      <4> QED BY <3>1, <4>1, <4>2, <4>4
    <3>3. pc # "scan"
      BY <2>1, <2>5 DEF ShapeOK, ControlOK
    <3>4. CASE pc = "done"
      BY <2>1, <2>5, <3>1, <3>4 DEF TailOK, Ended
    <3> QED BY <2>3, <3>2, <3>3, <3>4
  <2>6. CASE tool = "Strings"
    <3>1. Expected = Runs
      BY <2>6 DEF Expected
    <3>2. CASE pc \in {"read", "scan"}
      <4>1. /\ number >= 1 /\ out \in Seq(Characters) /\ text \in Seq(Characters)
            /\ Seen \in Nat /\ Seen <= at[1]
            /\ \E a \in Nat : \E W : RunOK(a, Seen, W)
        BY <2>1, <2>6, <3>2, StringsParts
      <4>2. PICK a \in Nat : \E W : RunOK(a, Seen, W)
        BY <4>1
      <4>3. PICK W : RunOK(a, Seen, W)
        BY <4>2
      <4>4. Seen <= Len(file)
        BY <2>2, <4>1
      <4>5. IsPrefix(out, Runs)
        BY <2>2, <4>1, <4>3, <4>4, RunOut
      <4> QED BY <3>1, <4>5
    <3>3. CASE pc = "done"
      BY <2>1, <2>6, <3>1, <3>3 DEF StringsOK, Ended
    <3> QED BY <2>3, <3>2, <3>3
  <2>7. CASE tool = "Hex"
    <3>1. Expected = Dump
      BY <2>7 DEF Expected
    <3>2. CASE pc = "read"
      <4>1. at[1] = offset + Len(out) /\ out = Shown(Len(out))
        BY <2>1, <2>7, <3>2 DEF HexOK
      <4>2. Len(out) <= SeekSpace - offset /\ (number # NoLimit => Len(out) <= number)
        BY <2>1, <2>7, <3>2 DEF ShapeOK, RangeOK
      <4>3. PICK n \in Nat : n = Len(out)
        <5>1. out \in Seq(Items)
          BY <2>1 DEF ShapeOK, TypeOK
        <5> QED BY <5>1, LenProperties
      <4>4. at[1] = offset + n /\ out = Shown(n) /\ n <= SeekSpace - offset /\ (number # NoLimit => n <= number)
        BY ONLY <4>1, <4>2, <4>3
      <4>5. /\ file \in Seq(Characters) /\ offset \in Nat /\ number \in Nat /\ n \in Nat
            /\ offset + n <= Len(file) /\ offset + n <= SeekSpace /\ (number # NoLimit => n <= number)
        BY <2>2, <4>4
      <4>6. IsPrefix(Shown(n), Dump)
        BY ONLY <4>5, DumpIs
      <4> QED BY <3>1, <4>4, <4>6
    <3>3. pc # "scan"
      BY <2>1, <2>7 DEF ShapeOK, ControlOK
    <3>4. CASE pc = "done"
      BY <2>1, <2>7, <3>1, <3>4 DEF HexOK, Ended
    <3> QED BY <2>3, <3>2, <3>3, <3>4
  <2>8. tool # "SnapDiff"
    BY <2>1 DEF SnapOK
  <2> QED BY <2>1, <2>4, <2>5, <2>6, <2>7, <2>8 DEF ShapeOK, TypeOK
<1> QED BY <1>1, WrittenInvariance, PTL

\* Return code 0 means that everything has been written; for SnapDiff, that the
\* snapshots are equal, and for Tail of a file that grows, that nothing is lost.
THEOREM ZeroIsWhole == Spec => []ZeroMeansWhole
<1>1. WrittenOK => ZeroMeansWhole
  <2> SUFFICES ASSUME WrittenOK, pc = "done", rc = 0
               PROVE  /\ grown = 0 /\ ~NoWork => out = Expected
                      /\ grown = 0 /\ tool = "SnapDiff" => files[1] = files[2]
                      /\ tool = "Tail" /\ number > 0 =>
                           \E e \in end..Len(file) : out = SubSeq(file, pos + 1, e)
    BY DEF ZeroMeansWhole
  <2>1. ShapeOK /\ HeadOK /\ TailOK /\ StringsOK /\ HexOK /\ SnapOK
    BY DEF WrittenOK
  <2>2. tool = "Tail" /\ number > 0 => \E e \in end..Len(file) : out = SubSeq(file, pos + 1, e)
    BY <2>1 DEF ShapeOK, SinceOK
  <2>3. grown = 0 /\ tool = "SnapDiff" => files[1] = files[2] /\ out = <<>>
    BY <2>1 DEF SnapOK
  <2>4. ASSUME grown = 0, ~NoWork PROVE out = Expected
    <3>1. CASE tool = "Head"
      BY <2>1, <2>4, <3>1 DEF HeadOK, Ended, Expected
    <3>2. CASE tool = "Tail"
      BY <2>1, <2>4, <3>2 DEF TailOK, Ended, Expected
    <3>3. CASE tool = "Strings"
      BY <2>1, <2>4, <3>3 DEF StringsOK, Ended, Expected
    <3>4. CASE tool = "Hex"
      BY <2>1, <2>4, <3>4 DEF HexOK, Ended, Expected
    <3>5. CASE tool = "SnapDiff"
      BY <2>3, <2>4, <3>5 DEF Expected
    <3> QED BY <2>1, <3>1, <3>2, <3>3, <3>4, <3>5 DEF ShapeOK, TypeOK
  <2> QED BY <2>2, <2>3, <2>4
<1> QED BY <1>1, WrittenInvariance, PTL

\* As long as no Read came short, SnapDiff's figures are those of the files.
THEOREM FiguresExact == Spec => []DifferencesExact
<1>1. WrittenOK => DifferencesExact
  <2> DEFINE longest == Max({Len(files[1]), Len(files[2])})
             same(k) == \A f \in 1..2 : k <= Len(files[f]) /\ files[f][k] = files[1][k]
             unequal == {k \in 1..longest : ~same(k)}
  <2> SUFFICES ASSUME WrittenOK, tool = "SnapDiff", grown = 0, ~short, diff.have,
                      \A f \in 1..2 : Left(f) = 0
               PROVE  /\ diff.first = Min(unequal) - 1
                      /\ diff.differing = Cardinality(unequal)
                      /\ diff.offset = longest
    BY Zenon DEF DifferencesExact
  <2>1. ShapeOK /\ SnapOK
    BY DEF WrittenOK
  <2>2. /\ files \in [1..2 -> Seq(Characters)] /\ at \in [1..2 -> Nat]
        /\ Len(files[1]) \in Nat /\ Len(files[2]) \in Nat /\ at[1] \in Nat /\ at[2] \in Nat
    BY <2>1, SMTT(30) DEF ShapeOK, TypeOK
  <2>3. at[1] = Len(files[1]) /\ at[2] = Len(files[2])
    <3>1. Left(1) = 0 /\ Left(2) = 0
      OBVIOUS
    <3> QED BY <2>2, <3>1 DEF Left
  <2>4. /\ diff.offset = IF at[1] <= at[2] THEN at[2] ELSE at[1]
        /\ diff.differing = Cardinality(Unequal(diff.offset))
        /\ diff.first = Min(Unequal(diff.offset)) - 1
    BY <2>1 DEF SnapOK
  <2>5. diff.offset = longest
    <3>1. Len(files[1]) \in Int /\ Len(files[2]) \in Int
      BY <2>2
    <3>2. /\ Len(files[1]) <= Len(files[2]) => longest = Len(files[2])
          /\ Len(files[2]) <= Len(files[1]) => longest = Len(files[1])
      BY ONLY <3>1, MinMaxOfTwo
    <3> QED BY ONLY <2>2, <2>3, <2>4, <3>2
  <2>6. Unequal(longest) = unequal
    <3> HIDE DEF longest
    <3>1. ASSUME NEW k
          PROVE  same(k) <=> k <= Len(files[1]) /\ k <= Len(files[2]) /\ files[1][k] = files[2][k]
      <4>1. 1..2 = {1, 2}
        OBVIOUS
      <4>2. same(k) <=> /\ k <= Len(files[1]) /\ files[1][k] = files[1][k]
                        /\ k <= Len(files[2]) /\ files[2][k] = files[1][k]
        BY ONLY <4>1
      <4> QED BY ONLY <4>2
    <3> HIDE DEF same
    <3> QED BY <3>1 DEF Unequal
  <2> QED BY ONLY <2>4, <2>5, <2>6, Zenon
<1> QED BY <1>1, WrittenInvariance, PTL
==============================================================================
